-------------------------- MODULE AgentWorkerPool --------------------------
(***************************************************************************)
(* The worker threads that hold the conversation databases                 *)
(* (host/agent-isolation): the pool of agent-worker-pool.ts, a thread for  *)
(* each database path, and the message loop of agent-store-worker.ts.      *)
(* An operation retains its path, takes the path's worker or spawns one,   *)
(* sends its request and releases the path when the answer comes.  Workers *)
(* leave the pool when they are idle, when it is full, when they die and   *)
(* when the pool is closed.                                                *)
(*                                                                         *)
(* A step is one JavaScript job of the host, or one message of a worker.   *)
(* Clocks are left out: a sweep takes any workers that are not retained    *)
(* and an eviction any one of them, whatever lastActivityAt says.  What    *)
(* an operation does to its database, and whether the store answers it     *)
(* with a result or an error, is left out.  closeStore, describeWorkers    *)
(* and the flush request have no caller.                                   *)
(***************************************************************************)
EXTENDS Naturals, Sequences, FiniteSets

CONSTANTS Path,        \* the databases
          Op,          \* the operations, each run at most once
          None,
          MaxWorkers,  \* maxWorkers of the pool
          MaxSpawns,   \* bound on the workers ever spawned
          MaxCrashes   \* bound on worker threads that fail

ASSUME PoolAssumption ==
    /\ None \notin Path \cup Op
    /\ MaxWorkers \in Nat \ {0}
    /\ {MaxSpawns, MaxCrashes} \subseteq Nat
    /\ IsFiniteSet(Path) /\ IsFiniteSet(Op)

VARIABLES
    workers,   \* every AgentWorkerConnection ever made, in order
    pool,      \* connections: for each path the index of its worker, or 0
    active,    \* activeOps
    sweeping,  \* sweepTimer # null
    op,        \* what each operation awaits
    closed,    \* closeAll was called; its only caller does it once
    crashes,
    demand     \* the most paths retained at once so far, for CapFollowsDemand

vars == <<workers, pool, active, sweeping, op, closed, crashes, demand>>

Request == [kind : {"init", "op"}, op : Op] \cup [kind : {"close"}, op : {None}]
InitOf(o) == [kind |-> "init", op |-> o]
RequestOf(o) == [kind |-> "op", op |-> o]
CloseRequest == [kind |-> "close", op |-> None]

\* inbox and outbox are the two directions of the thread's message port.  A
\* thread is "closed" once it has closed its port, "terminated" once the host
\* has called terminate; it has then "exited", or "crashed" by itself.
Worker == [path : Path, inbox : Seq(Request), outbox : Seq(Request),
           pending : SUBSET Request,
           thread : {"live", "closed", "terminated", "exited", "crashed"},
           isDead : BOOLEAN,
           closing : {"no", "unused", "all"}]

TypeOK ==
    /\ workers \in Seq(Worker) /\ Len(workers) <= MaxSpawns
    /\ pool \in [Path -> 0..Len(workers)]
    /\ \A p \in Path : pool[p] # 0 => /\ workers[pool[p]].path = p
                                      /\ ~workers[pool[p]].isDead
    /\ active \in [Path -> 0..Cardinality(Op)]
    /\ sweeping \in BOOLEAN
    /\ op \in [Op -> [state : {"init", "sent"}, path : Path]
                     \cup [state : {"new", "settled"}, path : {None}]]
    /\ closed \in BOOLEAN
    /\ crashes \in 0..MaxCrashes
    /\ demand \in 0..Cardinality(Path)

Init ==
    /\ workers = <<>>
    /\ pool = [p \in Path |-> 0]
    /\ active = [p \in Path |-> 0]
    /\ sweeping = FALSE
    /\ op = [o \in Op |-> [state |-> "new", path |-> None]]
    /\ closed = FALSE
    /\ crashes = 0
    /\ demand = 0

-----------------------------------------------------------------------------
(* The pool's helpers.                                                     *)

Pooled == {p \in Path : pool[p] # 0}
Retained(count) == {p \in Path : count[p] > 0}
Larger(a, b) == IF a > b THEN a ELSE b

\* send: the request is pending and on its way to the thread.
Sent(w, r) == [w EXCEPT !.inbox = Append(@, r), !.pending = @ \cup {r}]

\* close of a live worker begins with its close request.
Closing(w, why) == [Sent(w, CloseRequest) EXCEPT !.closing = why]

\* The operations of `done` settle and release their paths.
ReleaseLast(count, done) ==
    [p \in Path |-> IF \E o \in done : op[o].path = p THEN 0 ELSE count[p]]
Released(count, done) ==
    [p \in Path |-> count[p] - Cardinality({o \in done : op[o].path = p})]

Settle(done) ==
    /\ op' = [o \in Op |-> IF o \in done THEN [state |-> "settled", path |-> None]
                                         ELSE op[o]]
    /\ active' = Released(active, done)

\* The workers an eviction may take when the pool has room or not: at most one,
\* never of a retained path.
EvictableAtCap(count) ==
    IF Cardinality(Pooled) <= MaxWorkers \/ Pooled \subseteq Retained(count)
    THEN {{}}
    ELSE {{p} : p \in Pooled \ Retained(count)}
Evictable(count) ==
    IF Cardinality(Pooled) < MaxWorkers \/ Pooled \subseteq Retained(count)
    THEN {{}}
    ELSE {{p} : p \in Pooled \ Retained(count)}

\* Every worker of the given paths starts to close.
ClosedAmong(paths, why) ==
    [c \in DOMAIN workers |->
        IF \E p \in paths : pool[p] = c THEN Closing(workers[c], why) ELSE workers[c]]

-----------------------------------------------------------------------------
(* The operations.                                                         *)

NewWorker(p, o) ==
    Sent([path |-> p, inbox |-> <<>>, outbox |-> <<>>, pending |-> {},
          thread |-> "live", isDead |-> FALSE, closing |-> "no"], InitOf(o))

\* ensure without a worker: evict for capacity, spawn, and await its init.
Spawn(o, p) ==
    /\ Len(workers) < MaxSpawns
    /\ \E victims \in Evictable(active') :
          /\ workers' = Append(ClosedAmong(victims, "unused"), NewWorker(p, o))
          /\ pool' = [q \in Path |-> IF q = p THEN Len(workers) + 1
                                     ELSE IF q \in victims THEN 0 ELSE pool[q]]
    /\ sweeping' = TRUE
    /\ op' = [op EXCEPT ![o] = [state |-> "init", path |-> p]]

\* ensure with a worker, be its init answered or not: send at once.
UseWorker(o, p) ==
    /\ workers' = [workers EXCEPT ![pool[p]] = Sent(@, RequestOf(o))]
    /\ op' = [op EXCEPT ![o] = [state |-> "sent", path |-> p]]
    /\ UNCHANGED <<pool, sweeping>>

\* setBlob, getBlob and the other five operations.
StartOp(o, p) ==
    /\ op[o].state = "new"
    /\ active' = [active EXCEPT ![p] = @ + 1]
    /\ demand' = Larger(demand, Cardinality(Retained(active')))
    /\ IF pool[p] = 0 THEN Spawn(o, p) ELSE UseWorker(o, p)
    /\ UNCHANGED <<closed, crashes>>

-----------------------------------------------------------------------------
(* The worker threads.                                                     *)

\* The thread answers the next request.  store.close may throw, and then the
\* port stays open.
Handle(c, throws) ==
    LET w == workers[c] IN
    /\ w.thread \in {"live", "terminated"}
    /\ w.inbox # <<>>
    /\ throws => Head(w.inbox) = CloseRequest
    /\ workers' = [workers EXCEPT ![c] = [w EXCEPT
            !.inbox = Tail(@),
            !.outbox = Append(@, Head(w.inbox)),
            !.thread = IF Head(w.inbox) = CloseRequest /\ ~throws THEN "closed" ELSE @]]
    /\ UNCHANGED <<pool, active, sweeping, op, closed, crashes, demand>>

\* A thread with nothing left to run, or that is terminated, ends.
ThreadExits(c) ==
    /\ workers[c].thread \in {"closed", "terminated"}
    /\ workers' = [workers EXCEPT ![c].thread = "exited"]
    /\ UNCHANGED <<pool, active, sweeping, op, closed, crashes, demand>>

\* A thread fails: its database does not open, or an error is not caught.
ThreadCrashes(c) ==
    /\ workers[c].thread \in {"live", "closed", "terminated"}
    /\ crashes < MaxCrashes
    /\ crashes' = crashes + 1
    /\ workers' = [workers EXCEPT ![c].thread = "crashed"]
    /\ UNCHANGED <<pool, active, sweeping, op, closed, demand>>

-----------------------------------------------------------------------------
(* What the host hears from a worker.                                      *)

\* close terminates the thread whatever the store answered.
LeftRunning(w) == w
Terminated(w) == IF w.thread = "live" THEN [w EXCEPT !.thread = "terminated"] ELSE w

\* An answer settles its request, and the sender goes on: after init with the
\* operation, after close with terminate.  An answer nobody waits for is dropped.
Receive(c) ==
    LET w == workers[c]
        r == Head(w.outbox)
        heard == [w EXCEPT !.outbox = Tail(@), !.pending = @ \ {r}]
        Becomes(x) == workers' = [workers EXCEPT ![c] = x]
    IN  /\ w.outbox # <<>>
        /\ \/ /\ r \notin w.pending \/ r = CloseRequest
              /\ Becomes(IF r \in w.pending THEN Terminated(heard) ELSE heard)
              /\ UNCHANGED <<active, op>>
           \/ /\ r \in w.pending /\ r.kind = "init"
              /\ Becomes(Sent(heard, RequestOf(r.op)))
              /\ op' = [op EXCEPT ![r.op].state = "sent"]
              /\ UNCHANGED active
           \/ /\ r \in w.pending /\ r.kind = "op"
              /\ Becomes(heard)
              /\ Settle({r.op})
        /\ UNCHANGED <<pool, sweeping, closed, crashes, demand>>

\* onExit: the entry goes only if it is still this worker's.
ForgetNothing(c) == pool
ForgetPath(c) == [pool EXCEPT ![workers[c].path] = 0]
Forget(c) == [p \in Path |-> IF pool[p] = c THEN 0 ELSE pool[p]]

\* and the sweep stops with the last entry.
IsPooled(c) == \E p \in Path : pool[p] = c
SweepAfter(c) == sweeping /\ ~(IsPooled(c) /\ \A p \in Path : Forget(c)[p] = 0)

RejectInits(c) == {r.op : r \in {r \in workers[c].pending : r.kind = "init"}}
Rejected(c) == {r.op : r \in workers[c].pending} \ {None}

\* die: every pending request is rejected.  The exit event comes after the
\* answers the thread has posted; the error event of a crash may come before.
Die(c) ==
    LET w == workers[c] IN
    /\ ~w.isDead
    /\ w.thread = "crashed" \/ (w.thread = "exited" /\ w.outbox = <<>>)
    /\ Settle(Rejected(c))
    /\ workers' = [workers EXCEPT ![c] = [w EXCEPT !.isDead = TRUE, !.pending = {}]]
    /\ pool' = Forget(c)
    /\ sweeping' = SweepAfter(c)
    /\ UNCHANGED <<closed, crashes, demand>>

-----------------------------------------------------------------------------
(* The sweep and closeAll.                                                 *)

SweepIdle(idle) ==
    /\ sweeping
    /\ idle # {} /\ idle \subseteq Pooled \ Retained(active)
    /\ workers' = ClosedAmong(idle, "unused")
    /\ pool' = [p \in Path |-> IF p \in idle THEN 0 ELSE pool[p]]
    /\ sweeping' = (idle # Pooled)
    /\ UNCHANGED <<active, op, closed, crashes, demand>>

CloseAll ==
    /\ ~closed
    /\ closed' = TRUE
    /\ workers' = ClosedAmong(Path, "all")
    /\ pool' = [p \in Path |-> 0]
    /\ sweeping' = FALSE
    /\ UNCHANGED <<active, op, crashes, demand>>

Next ==
    \/ \E o \in Op, p \in Path : StartOp(o, p)
    \/ \E c \in DOMAIN workers :
          \/ \E throws \in BOOLEAN : Handle(c, throws)
          \/ ThreadExits(c) \/ ThreadCrashes(c) \/ Receive(c) \/ Die(c)
    \/ \E idle \in SUBSET Path : SweepIdle(idle)
    \/ CloseAll

Spec == Init /\ [][Next]_vars

\* A thread runs until it has nothing to do, and the host hears every message
\* and event; nothing forces an operation to start, a sweep or closeAll.
Turns(c) ==
    c \in DOMAIN workers /\ ((\E throws \in BOOLEAN : Handle(c, throws)) \/ ThreadExits(c))
Hears(c) == c \in DOMAIN workers /\ (Receive(c) \/ Die(c))
FairSpec ==
    /\ Spec
    /\ \A c \in 1..MaxSpawns : WF_vars(Turns(c)) /\ WF_vars(Hears(c))

-----------------------------------------------------------------------------
(* Safety.                                                                 *)

\* A thread that has not died is in the pool or is being closed; so a worker that
\* dies after another took its path does not take that one out (127-134, 308-313).
EveryWorkerIsFound ==
    \A c \in DOMAIN workers :
        LET w == workers[c] IN w.isDead \/ w.closing # "no" \/ pool[w.path] = c

\* The idle sweep runs exactly while there is a worker to sweep, whichever of
\* the five ways the last one leaves (312, 317, 484, 524-546).
SweepRunsWhilePooled == sweeping <=> Pooled # {}

\* No thread is lost: the pool knows each one that nobody closes, and the sweep
\* that will close it when it is idle is running.
NoWorkerIsLost == EveryWorkerIsFound /\ SweepRunsWhilePooled

\* A worker closed as idle or for room has nothing to do: no operation waits
\* for it, so none of them loses its answer or finds its database opened twice.
\* Only closeAll and a crash interrupt operations (322-338, 511, 541).
BusyIsNotEvicted ==
    \A c \in DOMAIN workers :
        workers[c].closing = "unused" => workers[c].pending \subseteq {CloseRequest}

\* No database has two threads with operations to run on it, though the old
\* thread may still be closing when the next one starts.  Only closeAll leaves
\* operations behind on threads that the pool has forgotten (307-312, 483-490).
HasOperation(c) ==
    /\ workers[c].thread \in {"live", "terminated"}
    /\ \E i \in DOMAIN workers[c].inbox : workers[c].inbox[i].kind = "op"
OneWriterPerPath ==
    ~closed => \A c, d \in DOMAIN workers :
        HasOperation(c) /\ HasOperation(d) /\ workers[c].path = workers[d].path => c = d

\* What the pool closes by itself is missed by no operation, neither the one
\* that waits nor the next one on the same database.
EvictionIsSafe == BusyIsNotEvicted /\ OneWriterPerPath

\* An operation that waits has one request on one worker that is not dead: the
\* answer or the death of the worker will settle it (127-159).
WaitingIsHeld ==
    \A o \in Op :
        op[o].state \in {"init", "sent"} =>
            \E c \in DOMAIN workers :
                /\ ~workers[c].isDead
                /\ (IF op[o].state = "init" THEN InitOf(o) ELSE RequestOf(o))
                       \in workers[c].pending

\* The pool outgrows its cap only as far as paths were in use at once: eviction
\* gives way to operations, never to idle workers (506-522).
CapFollowsDemand == Cardinality(Pooled) <= Larger(MaxWorkers, demand)

-----------------------------------------------------------------------------
(* Liveness.                                                               *)

\* Every operation settles, whichever worker it waits for is closed or crashes
\* (115-134, 343-355).
EveryOpSettles ==
    \A o \in Op : op[o].state \in {"init", "sent"} ~> op[o].state = "settled"

\* A worker that is closed dies, though its store may fail to close (250-256).
ClosedWorkersDie ==
    \A c \in 1..MaxSpawns :
        (c \in DOMAIN workers /\ workers[c].closing # "no")
            ~> (c \in DOMAIN workers /\ workers[c].isDead)
=============================================================================
