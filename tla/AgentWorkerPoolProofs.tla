----------------------- MODULE AgentWorkerPoolProofs -----------------------
(***************************************************************************)
(* Proofs that the pool loses no thread, sweeps while it has one, grows    *)
(* only with demand, evicts none that an operation waits for and gives no  *)
(* database two threads to operate on, for every set of databases and      *)
(* operations and every bound.                                             *)
(***************************************************************************)
EXTENDS AgentWorkerPool, FiniteSetTheorems, SequenceTheorems, TLAPS

Waiting == [state : {"init", "sent"}, path : Path]
Resting == [state : {"new", "settled"}, path : {None}]

Typed ==
    /\ workers \in Seq(Worker)
    /\ pool \in [Path -> 0..Len(workers)]
    /\ active \in [Path -> Nat]
    /\ sweeping \in BOOLEAN
    /\ op \in [Op -> Waiting \cup Resting]

\* A worker in the pool is that of its path, alive and not being closed.
PooledIsOpen ==
    \A p \in Path : pool[p] # 0 =>
        /\ workers[pool[p]].path = p
        /\ ~workers[pool[p]].isDead /\ workers[pool[p]].closing = "no"

\* The operations that await path p; retained paths are counted by them.
On(p) == {o \in Op : op[o].path = p}
ActiveCounts == \A p \in Path : active[p] = Cardinality(On(p))

\* A pending request is that of an operation on the worker's path, and the only
\* one of its operation.
StageOf(r) == IF r.kind = "init" THEN "init" ELSE "sent"
PendingIsCharged ==
    \A c \in DOMAIN workers : \A r \in workers[c].pending :
        r.op # None => op[r.op] = [state |-> StageOf(r), path |-> workers[c].path]
OneRequest ==
    \A c, d \in DOMAIN workers : \A r \in workers[c].pending, q \in workers[d].pending :
        r.op # None /\ r.op = q.op => c = d /\ r = q

Placed == Typed /\ PooledIsOpen /\ EveryWorkerIsFound /\ SweepRunsWhilePooled
Charged == ActiveCounts /\ PendingIsCharged /\ OneRequest
PoolInv == Placed /\ Charged /\ BusyIsNotEvicted /\ WaitingIsHeld

-----------------------------------------------------------------------------
(* Facts about the workers.                                                *)

\* A function from 1 to n is a sequence.
LEMMA FunctionIsSeq ==
    ASSUME NEW S, NEW n \in Nat, NEW f \in [1..n -> S]
    PROVE  f \in Seq(S) /\ Len(f) = n /\ DOMAIN f = 1..n
<1>1. f \in Seq(S)
  BY SeqDef
<1>2. Len(f) \in Nat /\ 1..Len(f) = 1..n
  BY <1>1, LenProperties
<1>. QED
  BY <1>1, <1>2

\* The indices of the workers.
LEMMA Indices ==
    ASSUME workers \in Seq(Worker)
    PROVE  /\ Len(workers) \in Nat /\ DOMAIN workers = 1..Len(workers)
           /\ workers \in [1..Len(workers) -> Worker]
           /\ \A c \in DOMAIN workers : workers[c] \in Worker
BY LenProperties

\* One worker changes.
LEMMA OneChanges ==
    ASSUME workers \in Seq(Worker), NEW c \in DOMAIN workers, NEW w \in Worker,
           workers' = [workers EXCEPT ![c] = w]
    PROVE  /\ workers' \in Seq(Worker) /\ Len(workers') = Len(workers)
           /\ DOMAIN workers' = DOMAIN workers
           /\ workers'[c] = w
           /\ \A d \in DOMAIN workers \ {c} : workers'[d] = workers[d]
<1>1. workers' \in [1..Len(workers) -> Worker]
  BY Indices
<1>2. workers' \in Seq(Worker) /\ Len(workers') = Len(workers) /\ DOMAIN workers' = DOMAIN workers
  BY <1>1, Indices, FunctionIsSeq
<1>. QED
  BY <1>2, Indices

\* The requests: those of an operation name it, the close request nobody.
LEMMA Requests ==
    /\ CloseRequest \in Request /\ CloseRequest.op = None
    /\ \A o \in Op : /\ InitOf(o) \in Request /\ RequestOf(o) \in Request
                     /\ InitOf(o).op = o /\ RequestOf(o).op = o /\ o # None
                     /\ InitOf(o).kind = "init" /\ RequestOf(o).kind = "op"
    /\ \A r \in Request : \/ r = CloseRequest
                          \/ r.op \in Op /\ r.op # None /\ r.kind = "init" /\ r = InitOf(r.op)
                          \/ r.op \in Op /\ r.op # None /\ r.kind = "op" /\ r = RequestOf(r.op)
BY PoolAssumption DEF Request, CloseRequest, InitOf, RequestOf

\* Sending and closing keep a worker a worker.
LEMMA Sends ==
    ASSUME NEW w \in Worker, NEW r \in Request
    PROVE  /\ Sent(w, r) \in Worker
           /\ Sent(w, r).pending = w.pending \cup {r}
           /\ Sent(w, r).path = w.path /\ Sent(w, r).isDead = w.isDead
           /\ Sent(w, r).closing = w.closing
<1>1. Append(w.inbox, r) \in Seq(Request)
  BY AppendProperties DEF Worker
<1>. QED
  BY <1>1 DEF Sent, Worker

LEMMA Closes ==
    ASSUME NEW w \in Worker, NEW why \in {"unused", "all"}
    PROVE  /\ Closing(w, why) \in Worker
           /\ Closing(w, why).pending = w.pending \cup {CloseRequest}
           /\ Closing(w, why).path = w.path /\ Closing(w, why).isDead = w.isDead
           /\ Closing(w, why).closing = why
<1>1. /\ Sent(w, CloseRequest) \in Worker
      /\ Sent(w, CloseRequest).pending = w.pending \cup {CloseRequest}
      /\ Sent(w, CloseRequest).path = w.path /\ Sent(w, CloseRequest).isDead = w.isDead
  BY Sends, Requests
<1>. QED
  BY <1>1 DEF Closing, Worker

\* Closing the workers of some paths changes no others.
LEMMA ClosesAmong ==
    ASSUME Typed, NEW paths \in SUBSET Path, NEW why \in {"unused", "all"}
    PROVE  LET ws == ClosedAmong(paths, why) IN
           /\ ws \in Seq(Worker) /\ Len(ws) = Len(workers) /\ DOMAIN ws = DOMAIN workers
           /\ \A c \in DOMAIN workers :
                 ws[c] = IF \E p \in paths : pool[p] = c
                         THEN Closing(workers[c], why) ELSE workers[c]
<1>1. ClosedAmong(paths, why) \in [1..Len(workers) -> Worker]
  BY Indices, Closes DEF ClosedAmong, Typed
<1>2. Len(workers) \in Nat /\ DOMAIN workers = 1..Len(workers)
  BY Indices DEF Typed
<1>. QED
  BY <1>1, <1>2, FunctionIsSeq DEF ClosedAmong

-----------------------------------------------------------------------------
(* Facts about the operations.                                             *)

\* Operations that begin and settle are counted.
LEMMA OnIsFinite == ASSUME NEW p PROVE IsFiniteSet(On(p)) /\ Cardinality(On(p)) \in Nat
<1>1. On(p) \subseteq Op
  BY DEF On
<1>. QED
  BY <1>1, PoolAssumption, FS_Subset, FS_CardinalityType

LEMMA Begins ==
    ASSUME Typed, ActiveCounts, NEW o \in Op, NEW p \in Path, NEW st \in {"init", "sent"},
           op[o].state = "new", active' = [active EXCEPT ![p] = @ + 1],
           op' = [op EXCEPT ![o] = [state |-> st, path |-> p]]
    PROVE  /\ active' \in [Path -> Nat] /\ op' \in [Op -> Waiting \cup Resting]
           /\ ActiveCounts'
           /\ \A q \in Path : active'[q] = 0 => active[q] = 0
<1>1. op[o].path = None /\ None \notin Path
  BY PoolAssumption DEF Typed, Waiting, Resting
<1>2. active' \in [Path -> Nat] /\ op' \in [Op -> Waiting \cup Resting]
  BY DEF Typed, Waiting
<1>3. ASSUME NEW q \in Path PROVE active'[q] = Cardinality(On(q)')
  <2>1. CASE q = p
    <3>1. On(p)' = On(p) \cup {o} /\ o \notin On(p)
      BY <1>1 DEF On, Typed
    <3>2. Cardinality(On(p)') = Cardinality(On(p)) + 1
      BY <3>1, OnIsFinite, FS_AddElement
    <3>. QED
      BY <2>1, <3>2 DEF Typed, ActiveCounts
  <2>2. CASE q # p
    <3>1. On(q)' = On(q)
      BY <1>1, <2>2 DEF On, Typed
    <3>. QED
      BY <2>2, <3>1 DEF Typed, ActiveCounts
  <2>. QED
    BY <2>1, <2>2
<1>4. \A q \in Path : active'[q] = 0 => active[q] = 0
  BY DEF Typed
<1>. QED
  BY <1>2, <1>3, <1>4 DEF ActiveCounts

LEMMA SettlesCounted ==
    ASSUME Typed, ActiveCounts, NEW done \in SUBSET Op, Settle(done)
    PROVE  /\ active' \in [Path -> Nat] /\ op' \in [Op -> Waiting \cup Resting]
           /\ ActiveCounts'
           /\ \A o \in Op \ done : op'[o] = op[o]
           /\ \A o \in done : op'[o].state = "settled"
<1>1. /\ op' \in [Op -> Waiting \cup Resting]
      /\ \A o \in Op \ done : op'[o] = op[o]
      /\ \A o \in done : op'[o].state = "settled" /\ op'[o].path = None
  BY DEF Settle, Typed, Resting
<1>2. ASSUME NEW p \in Path
      PROVE  active'[p] = Cardinality(On(p)') /\ active'[p] \in Nat
  <2> DEFINE ended == {o \in done : op[o].path = p}
  <2>1. On(p)' = On(p) \ ended /\ On(p) \cap ended = ended
    BY <1>1, PoolAssumption DEF On
  <2>2. Cardinality(On(p)') = Cardinality(On(p)) - Cardinality(ended)
    BY <2>1, OnIsFinite, FS_Difference
  <2>3. Cardinality(On(p)') \in Nat
    <3>1. On(p)' \subseteq On(p)
      BY <2>1
    <3>. QED
      BY <3>1, OnIsFinite, FS_Subset, FS_CardinalityType
  <2>4. active'[p] = active[p] - Cardinality(ended)
    BY DEF Settle, Released, Typed
  <2>. QED
    BY <2>2, <2>3, <2>4 DEF ActiveCounts
<1>3. active' \in [Path -> Nat]
  BY <1>2 DEF Settle, Released
<1>. QED
  BY <1>1, <1>2, <1>3 DEF ActiveCounts

\* A path nobody awaits has a worker with nothing to do.
LEMMA IdleIsDone ==
    ASSUME PoolInv, NEW p \in Path, pool[p] # 0, active[p] = 0
    PROVE  workers[pool[p]].pending \subseteq {CloseRequest}
<1>1. On(p) = {}
  <2>1. Cardinality(On(p)) = 0 /\ IsFiniteSet(On(p))
    BY OnIsFinite DEF PoolInv, Charged, ActiveCounts
  <2>. QED
    BY <2>1, FS_EmptySet
<1>2. /\ pool[p] \in DOMAIN workers /\ workers[pool[p]] \in Worker
      /\ workers[pool[p]].path = p
  <2>1. pool[p] \in 0..Len(workers)
    BY DEF PoolInv, Placed, Typed
  <2>. QED
    BY <2>1, Indices DEF PoolInv, Placed, Typed, PooledIsOpen
<1>3. SUFFICES ASSUME NEW r \in workers[pool[p]].pending, r # CloseRequest PROVE FALSE
  OBVIOUS
<1>4. r \in Request
  BY <1>2 DEF Worker
<1>5. r.op \in Op /\ r.op # None
  BY <1>3, <1>4, Requests
<1>6. op[r.op].path = p
  <2>1. op[r.op] = [state |-> StageOf(r), path |-> workers[pool[p]].path]
    BY <1>2, <1>3, <1>5 DEF PoolInv, Charged, PendingIsCharged
  <2>. QED
    BY <1>2, <2>1
<1>. QED
  BY <1>1, <1>5, <1>6 DEF On

-----------------------------------------------------------------------------
(* The steps.                                                              *)

\* Nothing is in the pool at first.
LEMMA PoolInit == Init => PoolInv
<1> SUFFICES ASSUME Init PROVE PoolInv
  OBVIOUS
<1>1. workers = <<>> /\ <<>> \in Seq(Worker) /\ Len(workers) = 0 /\ DOMAIN workers = {}
  BY EmptySeq, LenProperties DEF Init
<1>2. Typed
  <2>1. workers \in Seq(Worker)
    BY EmptySeq DEF Init
  <2>2. op \in [Op -> Waiting \cup Resting]
    BY DEF Init, Resting
  <2>3. pool \in [Path -> 0..Len(workers)]
    <3>1. 0 \in 0..Len(workers)
      BY <1>1
    <3>. QED
      BY <3>1 DEF Init
  <2>. QED
    BY <2>1, <2>2, <2>3 DEF Init, Typed
<1>3. Placed
  BY <1>1, <1>2 DEF Init, Placed, PooledIsOpen, EveryWorkerIsFound, SweepRunsWhilePooled, Pooled
<1>4. ActiveCounts
  <2>1. \A p \in Path : On(p) = {}
    BY PoolAssumption DEF Init, On
  <2>. QED
    BY <2>1, FS_EmptySet DEF Init, ActiveCounts
<1>5. Charged
  BY <1>1, <1>4 DEF Charged, PendingIsCharged, OneRequest
<1>6. BusyIsNotEvicted /\ WaitingIsHeld
  BY <1>1 DEF Init, BusyIsNotEvicted, WaitingIsHeld
<1>. QED
  BY <1>3, <1>5, <1>6 DEF PoolInv

\* What a thread does by itself touches nothing the host keeps.
LEMMA ThreadStep ==
    ASSUME PoolInv, NEW c \in DOMAIN workers, NEW w \in Worker,
           workers' = [workers EXCEPT ![c] = w],
           w.path = workers[c].path, w.isDead = workers[c].isDead,
           w.closing = workers[c].closing, w.pending = workers[c].pending,
           UNCHANGED <<pool, active, sweeping, op>>
    PROVE  PoolInv'
<1>1. /\ workers' \in Seq(Worker) /\ Len(workers') = Len(workers)
      /\ DOMAIN workers' = DOMAIN workers
      /\ \A d \in DOMAIN workers :
            /\ workers'[d].path = workers[d].path /\ workers'[d].isDead = workers[d].isDead
            /\ workers'[d].closing = workers[d].closing
            /\ workers'[d].pending = workers[d].pending
  BY OneChanges DEF PoolInv, Placed, Typed
<1>2. \A p \in Path : pool[p] # 0 => pool[p] \in DOMAIN workers
  BY Indices DEF PoolInv, Placed, Typed
<1>3. Typed' /\ SweepRunsWhilePooled'
  BY <1>1 DEF PoolInv, Placed, Typed, SweepRunsWhilePooled, Pooled
<1>4. PooledIsOpen' /\ EveryWorkerIsFound'
  BY <1>1, <1>2 DEF PoolInv, Placed, PooledIsOpen, EveryWorkerIsFound
<1>5. ActiveCounts'
  BY DEF PoolInv, Charged, ActiveCounts, On
<1>6. PendingIsCharged' /\ OneRequest'
  BY <1>1 DEF PoolInv, Charged, PendingIsCharged, OneRequest
<1>7. BusyIsNotEvicted' /\ WaitingIsHeld'
  BY <1>1 DEF PoolInv, BusyIsNotEvicted, WaitingIsHeld
<1>. QED
  BY <1>3, <1>4, <1>5, <1>6, <1>7 DEF PoolInv, Placed, Charged

\* Closing the workers of some paths, of which only idle ones for want of use.
LEMMA ClosesPaths ==
    ASSUME PoolInv, NEW paths \in SUBSET Path, NEW why \in {"unused", "all"},
           why = "unused" => \A p \in paths : pool[p] # 0 /\ active[p] = 0,
           workers' = ClosedAmong(paths, why),
           pool' = [p \in Path |-> IF p \in paths THEN 0 ELSE pool[p]],
           sweeping' = (Pooled \ paths # {}),
           UNCHANGED <<active, op>>
    PROVE  PoolInv'
<1>t. Typed
  BY DEF PoolInv, Placed
<1>1. /\ workers' \in Seq(Worker) /\ Len(workers') = Len(workers)
      /\ DOMAIN workers' = DOMAIN workers
      /\ \A c \in DOMAIN workers :
            workers'[c] = IF \E p \in paths : pool[p] = c
                          THEN Closing(workers[c], why) ELSE workers[c]
  BY <1>t, ClosesAmong
<1>2. \A c \in DOMAIN workers :
         /\ workers[c] \in Worker
         /\ workers'[c].path = workers[c].path /\ workers'[c].isDead = workers[c].isDead
         /\ \/ workers'[c].pending = workers[c].pending
            \/ workers'[c].pending = workers[c].pending \cup {CloseRequest}
         /\ workers'[c].closing = IF \E p \in paths : pool[p] = c
                                  THEN why ELSE workers[c].closing
  BY <1>1, <1>t, Indices, Closes DEF Typed
<1>3. \A p \in Path : pool[p] # 0 => pool[p] \in DOMAIN workers /\ workers[pool[p]].path = p
  BY Indices DEF PoolInv, Placed, Typed, PooledIsOpen
<1>4. Typed'
  BY <1>t, <1>1 DEF Typed
<1>5. PooledIsOpen'
  BY <1>2, <1>3, <1>t DEF PoolInv, Placed, PooledIsOpen, Typed
<1>6. EveryWorkerIsFound'
  <2>1. SUFFICES ASSUME NEW c \in DOMAIN workers, ~workers'[c].isDead,
                        workers'[c].closing = "no"
                 PROVE  pool'[workers'[c].path] = c
    BY <1>1 DEF EveryWorkerIsFound
  <2>2. workers[c].closing = "no" /\ ~(\E p \in paths : pool[p] = c)
    BY <1>2, <2>1
  <2>3. pool[workers[c].path] = c /\ workers[c].path \in Path
    BY <1>2, <2>1, <2>2 DEF PoolInv, Placed, EveryWorkerIsFound, Worker
  <2>. QED
    BY <1>2, <2>2, <2>3
<1>7. SweepRunsWhilePooled'
  <2>1. Pooled' = Pooled \ paths
    BY DEF Pooled
  <2>. QED
    BY <2>1 DEF SweepRunsWhilePooled
<1>8. ActiveCounts'
  BY DEF PoolInv, Charged, ActiveCounts, On
<1>9. PendingIsCharged' /\ OneRequest'
  <2>1. \A c \in DOMAIN workers : \A r \in workers'[c].pending :
           r.op # None => r \in workers[c].pending
    BY <1>2, Requests
  <2>. QED
    BY <1>1, <1>2, <2>1 DEF PoolInv, Charged, PendingIsCharged, OneRequest
<1>10. BusyIsNotEvicted'
  <2>1. SUFFICES ASSUME NEW c \in DOMAIN workers, workers'[c].closing = "unused"
                 PROVE  workers'[c].pending \subseteq {CloseRequest}
    BY <1>1 DEF BusyIsNotEvicted
  <2>2. workers[c].pending \subseteq {CloseRequest}
    <3>1. CASE \E p \in paths : pool[p] = c
      BY <1>2, <2>1, <3>1, IdleIsDone
    <3>2. CASE ~(\E p \in paths : pool[p] = c)
      BY <1>2, <2>1, <3>2 DEF PoolInv, BusyIsNotEvicted
    <3>. QED
      BY <3>1, <3>2
  <2>. QED
    BY <1>2, <2>2
<1>11. WaitingIsHeld'
  <2>1. \A c \in DOMAIN workers : workers[c].pending \subseteq workers'[c].pending
    BY <1>2
  <2>. QED
    BY <1>1, <1>2, <2>1 DEF PoolInv, WaitingIsHeld
<1>. QED
  BY <1>4, <1>5, <1>6, <1>7, <1>8, <1>9, <1>10, <1>11 DEF PoolInv, Placed, Charged

\* Every step keeps the pool in order.
LEMMA PoolNext == PoolInv /\ [Next]_vars => PoolInv'
<1> SUFFICES ASSUME PoolInv, [Next]_vars PROVE PoolInv'
  OBVIOUS
<1>t. /\ Typed /\ PooledIsOpen /\ EveryWorkerIsFound /\ SweepRunsWhilePooled
      /\ ActiveCounts /\ PendingIsCharged /\ OneRequest
      /\ BusyIsNotEvicted /\ WaitingIsHeld
  BY DEF PoolInv, Placed, Charged
<1>i. /\ workers \in Seq(Worker) /\ Len(workers) \in Nat
      /\ DOMAIN workers = 1..Len(workers)
      /\ \A c \in DOMAIN workers : workers[c] \in Worker
      /\ \A p \in Path : pool[p] # 0 => pool[p] \in DOMAIN workers
  BY <1>t, Indices DEF Typed
<1>1. ASSUME NEW o \in Op, NEW p \in Path, StartOp(o, p) PROVE PoolInv'
  \* o awaits nothing yet, so nothing pending is its own.
  <2>n. \A c \in DOMAIN workers : \A r \in workers[c].pending : r.op # o
    <3>1. SUFFICES ASSUME NEW c \in DOMAIN workers, NEW r \in workers[c].pending, r.op = o
                   PROVE  FALSE
      OBVIOUS
    <3>2. o # None /\ op[o].state = "new" /\ StageOf(r) # "new"
      BY <1>1, PoolAssumption DEF StartOp, StageOf
    <3>3. op[o] = [state |-> StageOf(r), path |-> workers[c].path]
      BY <1>t, <3>1, <3>2 DEF PendingIsCharged
    <3>. QED
      BY <3>2, <3>3
  <2>a. /\ op[o].state = "new" /\ active' = [active EXCEPT ![p] = @ + 1]
    BY <1>1 DEF StartOp
  <2>1. CASE pool[p] = 0
    <3>1. /\ op' = [op EXCEPT ![o] = [state |-> "init", path |-> p]]
          /\ sweeping' = TRUE
      BY <1>1, <2>1 DEF StartOp, Spawn
    <3>2. PICK victims \in Evictable(active') :
             /\ workers' = Append(ClosedAmong(victims, "unused"), NewWorker(p, o))
             /\ pool' = [q \in Path |-> IF q = p THEN Len(workers) + 1
                                        ELSE IF q \in victims THEN 0 ELSE pool[q]]
      BY <1>1, <2>1 DEF StartOp, Spawn
    <3>3. /\ active' \in [Path -> Nat] /\ op' \in [Op -> Waiting \cup Resting]
          /\ ActiveCounts'
          /\ \A q \in Path : active'[q] = 0 => active[q] = 0
      BY <1>t, <2>a, <3>1, Begins
    <3>4. victims \subseteq Path /\ \A q \in victims : pool[q] # 0 /\ active[q] = 0
      BY <3>2, <3>3 DEF Evictable, Pooled, Retained
    <3> DEFINE ws == ClosedAmong(victims, "unused")
               new == NewWorker(p, o)
               n == Len(workers) + 1
    <3>5. /\ ws \in Seq(Worker) /\ Len(ws) = Len(workers) /\ DOMAIN ws = DOMAIN workers
          /\ \A c \in DOMAIN workers :
                ws[c] = IF \E q \in victims : pool[q] = c
                        THEN Closing(workers[c], "unused") ELSE workers[c]
      BY <1>t, <3>4, ClosesAmong
    <3>6. /\ new \in Worker /\ new.path = p /\ ~new.isDead /\ new.closing = "no"
          /\ new.pending = {InitOf(o)}
      <4> DEFINE bare == [path |-> p, inbox |-> <<>>, outbox |-> <<>>, pending |-> {},
                          thread |-> "live", isDead |-> FALSE, closing |-> "no"]
      <4>1. bare \in Worker /\ InitOf(o) \in Request
        BY EmptySeq, Requests DEF Worker
      <4>. QED
        BY <4>1, Sends DEF NewWorker
    <3> HIDE DEF ws, new
    <3>7. /\ workers' \in Seq(Worker) /\ Len(workers') = n
          /\ DOMAIN workers' = DOMAIN workers \cup {n}
          /\ workers'[n] = new /\ \A c \in DOMAIN workers : workers'[c] = ws[c]
      <4>1. workers' = Append(ws, new)
        BY <3>2 DEF ws, new
      <4>2. /\ workers' \in Seq(Worker) /\ Len(workers') = n
            /\ workers'[n] = new /\ \A c \in DOMAIN workers : workers'[c] = ws[c]
        BY <1>i, <3>5, <3>6, <4>1, AppendProperties
      <4>3. DOMAIN workers' = 1..n
        BY <4>2, LenProperties
      <4>. QED
        BY <1>i, <4>2, <4>3
    <3>8. \A c \in DOMAIN workers :
             /\ c # n
             /\ workers'[c].path = workers[c].path /\ workers'[c].isDead = workers[c].isDead
             /\ \/ workers'[c].pending = workers[c].pending
                \/ workers'[c].pending = workers[c].pending \cup {CloseRequest}
             /\ workers'[c].closing = IF \E q \in victims : pool[q] = c
                                      THEN "unused" ELSE workers[c].closing
      BY <1>i, <3>5, <3>7, Closes
    <3>9. Typed'
      <4>1. pool' \in [Path -> 0..Len(workers')]
        BY <1>t, <1>i, <3>2, <3>7 DEF Typed
      <4>. QED
        BY <3>1, <3>3, <3>7, <4>1 DEF Typed
    <3>10. PooledIsOpen'
      <4>1. pool'[p] = n /\ p \notin victims
        BY <2>1, <3>2, <3>4
      <4>2. ASSUME NEW q \in Path, q # p, pool'[q] # 0
            PROVE  /\ workers'[pool'[q]].path = q
                   /\ ~workers'[pool'[q]].isDead /\ workers'[pool'[q]].closing = "no"
        <5>1. pool'[q] = pool[q] /\ q \notin victims
          BY <3>2, <4>2
        <5>2. /\ pool[q] \in DOMAIN workers /\ workers[pool[q]].path = q
              /\ ~workers[pool[q]].isDead /\ workers[pool[q]].closing = "no"
          BY <1>t, <1>i, <4>2, <5>1 DEF PooledIsOpen
        <5>3. ~(\E v \in victims : pool[v] = pool[q])
          BY <1>t, <3>4, <5>1, <5>2 DEF PooledIsOpen
        <5>. QED
          BY <3>8, <5>1, <5>2, <5>3
      <4>. QED
        BY <3>6, <3>7, <4>1, <4>2 DEF PooledIsOpen
    <3>11. EveryWorkerIsFound'
      <4>1. ASSUME NEW c \in DOMAIN workers, ~workers'[c].isDead, workers'[c].closing = "no"
            PROVE  pool'[workers'[c].path] = c
        <5>1. workers[c].closing = "no" /\ ~(\E q \in victims : pool[q] = c)
          BY <3>8, <4>1
        <5>2. pool[workers[c].path] = c /\ workers[c].path \in Path /\ c # 0
          BY <1>t, <1>i, <3>8, <4>1, <5>1 DEF EveryWorkerIsFound, Worker
        <5>. QED
          BY <2>1, <3>2, <3>8, <5>1, <5>2
      <4>2. pool'[workers'[n].path] = n
        BY <3>2, <3>6, <3>7
      <4>. QED
        BY <3>7, <4>1, <4>2 DEF EveryWorkerIsFound
    <3>12. SweepRunsWhilePooled'
      BY <1>i, <3>1, <3>2 DEF SweepRunsWhilePooled, Pooled
    <3>13. \A c \in DOMAIN workers : \A r \in workers'[c].pending :
              r.op # None => r \in workers[c].pending
      BY <3>8, Requests
    <3>14. PendingIsCharged'
      <4>1. ASSUME NEW c \in DOMAIN workers, NEW r \in workers'[c].pending, r.op # None
            PROVE  op'[r.op] = [state |-> StageOf(r), path |-> workers'[c].path]
        <5>1. r \in workers[c].pending /\ r.op # o /\ r.op \in Op
          BY <1>i, <2>n, <3>13, <4>1, Requests DEF Worker
        <5>2. op[r.op] = [state |-> StageOf(r), path |-> workers[c].path]
          BY <1>t, <4>1, <5>1 DEF PendingIsCharged
        <5>. QED
          BY <1>t, <3>1, <3>8, <5>1, <5>2 DEF Typed
      <4>2. ASSUME NEW r \in workers'[n].pending
            PROVE  op'[r.op] = [state |-> StageOf(r), path |-> workers'[n].path]
        <5>1. r = InitOf(o) /\ r.op = o /\ StageOf(r) = "init" /\ workers'[n].path = p
          BY <3>6, <3>7, <4>2, Requests DEF StageOf
        <5>. QED
          BY <1>t, <3>1, <5>1 DEF Typed
      <4>. QED
        BY <3>7, <4>1, <4>2 DEF PendingIsCharged
    <3>15. OneRequest'
      <4>1. ASSUME NEW c \in DOMAIN workers', NEW r \in workers'[c].pending, r.op # None
            PROVE  IF c = n THEN r = InitOf(o) /\ r.op = o
                   ELSE c \in DOMAIN workers /\ r \in workers[c].pending /\ r.op # o
        BY <2>n, <3>6, <3>7, <3>13, <4>1, Requests
      <4>. QED
        BY <1>t, <4>1 DEF OneRequest
    <3>16. BusyIsNotEvicted'
      <4>1. ASSUME NEW c \in DOMAIN workers, workers'[c].closing = "unused"
            PROVE  workers'[c].pending \subseteq {CloseRequest}
        <5>1. workers[c].pending \subseteq {CloseRequest}
          <6>1. CASE \E q \in victims : pool[q] = c
            BY <3>4, <6>1, IdleIsDone
          <6>2. CASE ~(\E q \in victims : pool[q] = c)
            BY <1>t, <3>8, <4>1, <6>2 DEF BusyIsNotEvicted
          <6>. QED
            BY <6>1, <6>2
        <5>. QED
          BY <3>8, <5>1
      <4>. QED
        BY <3>6, <3>7, <4>1 DEF BusyIsNotEvicted
    <3>17. WaitingIsHeld'
      <4>1. ASSUME NEW x \in Op, x # o, op'[x].state \in {"init", "sent"}
            PROVE  \E c \in DOMAIN workers' :
                      /\ ~workers'[c].isDead
                      /\ (IF op'[x].state = "init" THEN InitOf(x) ELSE RequestOf(x))
                            \in workers'[c].pending
        <5>1. op'[x] = op[x]
          BY <1>t, <3>1, <4>1 DEF Typed
        <5>2. PICK c \in DOMAIN workers :
                 /\ ~workers[c].isDead
                 /\ (IF op[x].state = "init" THEN InitOf(x) ELSE RequestOf(x))
                       \in workers[c].pending
          BY <1>t, <4>1, <5>1 DEF WaitingIsHeld
        <5>. QED
          BY <3>7, <3>8, <5>1, <5>2
      <4>2. op'[o].state = "init" /\ ~workers'[n].isDead /\ InitOf(o) \in workers'[n].pending
        BY <1>t, <3>1, <3>6, <3>7 DEF Typed
      <4>. QED
        BY <3>7, <4>1, <4>2 DEF WaitingIsHeld
    <3>. QED
      BY <3>3, <3>9, <3>10, <3>11, <3>12, <3>14, <3>15, <3>16, <3>17
         DEF PoolInv, Placed, Charged
  <2>2. CASE pool[p] # 0
    <3> DEFINE c == pool[p]
               next == Sent(workers[c], RequestOf(o))
    <3>1. /\ workers' = [workers EXCEPT ![c] = next]
          /\ op' = [op EXCEPT ![o] = [state |-> "sent", path |-> p]]
          /\ UNCHANGED <<pool, sweeping>>
      BY <1>1, <2>2 DEF StartOp, UseWorker
    <3>2. /\ c \in DOMAIN workers /\ workers[c].path = p
          /\ ~workers[c].isDead /\ workers[c].closing = "no"
      BY <1>t, <1>i, <2>2 DEF PooledIsOpen
    <3>3. /\ next \in Worker /\ next.pending = workers[c].pending \cup {RequestOf(o)}
          /\ next.path = p /\ ~next.isDead /\ next.closing = "no"
      BY <1>i, <3>2, Sends, Requests
    <3> HIDE DEF next, c
    <3>4. /\ workers' \in Seq(Worker) /\ Len(workers') = Len(workers)
          /\ DOMAIN workers' = DOMAIN workers /\ workers'[c] = next
          /\ \A d \in DOMAIN workers \ {c} : workers'[d] = workers[d]
      BY <1>i, <3>1, <3>2, <3>3, OneChanges
    <3>5. /\ active' \in [Path -> Nat] /\ op' \in [Op -> Waiting \cup Resting]
          /\ ActiveCounts'
      BY <1>t, <2>a, <3>1, Begins
    <3>6. Typed' /\ SweepRunsWhilePooled'
      BY <1>t, <3>1, <3>4, <3>5 DEF Typed, SweepRunsWhilePooled, Pooled
    <3>7. PooledIsOpen' /\ EveryWorkerIsFound'
      BY <1>t, <1>i, <3>1, <3>2, <3>3, <3>4 DEF PooledIsOpen, EveryWorkerIsFound
    <3>8. /\ op'[o] = [state |-> "sent", path |-> p]
          /\ \A x \in Op \ {o} : op'[x] = op[x]
      BY <1>t, <3>1 DEF Typed
    <3>9. /\ RequestOf(o).op = o /\ StageOf(RequestOf(o)) = "sent"
      BY Requests DEF StageOf
    <3>10. ASSUME NEW d \in DOMAIN workers, NEW r \in workers'[d].pending, r.op # None
           PROVE  \/ d = c /\ r = RequestOf(o)
                  \/ r \in workers[d].pending /\ r.op # o /\ r.op \in Op
      BY <1>i, <2>n, <3>3, <3>4, <3>10, Requests DEF Worker
    <3>11. PendingIsCharged'
      <4>1. ASSUME NEW d \in DOMAIN workers, NEW r \in workers'[d].pending, r.op # None
            PROVE  op'[r.op] = [state |-> StageOf(r), path |-> workers'[d].path]
        <5>1. CASE d = c /\ r = RequestOf(o)
          BY <3>3, <3>4, <3>8, <3>9, <5>1
        <5>2. CASE r \in workers[d].pending /\ r.op # o /\ r.op \in Op
          <6>1. op[r.op] = [state |-> StageOf(r), path |-> workers[d].path]
            BY <1>t, <4>1, <5>2 DEF PendingIsCharged
          <6>. QED
            BY <3>2, <3>3, <3>4, <3>8, <5>2, <6>1
        <5>. QED
          BY <3>10, <4>1, <5>1, <5>2
      <4>. QED
        BY <3>4, <4>1 DEF PendingIsCharged
    <3>12. OneRequest'
      BY <1>t, <3>4, <3>9, <3>10 DEF OneRequest
    <3>13. BusyIsNotEvicted'
      BY <1>t, <3>3, <3>4 DEF BusyIsNotEvicted
    <3>14. WaitingIsHeld'
      <4>1. ASSUME NEW x \in Op, x # o, op'[x].state \in {"init", "sent"}
            PROVE  \E d \in DOMAIN workers' :
                      /\ ~workers'[d].isDead
                      /\ (IF op'[x].state = "init" THEN InitOf(x) ELSE RequestOf(x))
                            \in workers'[d].pending
        <5>1. PICK d \in DOMAIN workers :
                 /\ ~workers[d].isDead
                 /\ (IF op[x].state = "init" THEN InitOf(x) ELSE RequestOf(x))
                       \in workers[d].pending
          BY <1>t, <3>8, <4>1 DEF WaitingIsHeld
        <5>. QED
          BY <3>3, <3>4, <3>8, <4>1, <5>1
      <4>2. op'[o].state = "sent" /\ ~workers'[c].isDead /\ RequestOf(o) \in workers'[c].pending
        BY <3>3, <3>4, <3>8
      <4>. QED
        BY <3>2, <3>4, <4>1, <4>2 DEF WaitingIsHeld
    <3>. QED
      BY <3>5, <3>6, <3>7, <3>11, <3>12, <3>13, <3>14 DEF PoolInv, Placed, Charged
  <2>. QED
    BY <2>1, <2>2
<1>2. ASSUME NEW c \in DOMAIN workers, NEW throws \in BOOLEAN, Handle(c, throws)
      PROVE  PoolInv'
  <2> DEFINE w == workers[c]
             next == [w EXCEPT
                !.inbox = Tail(@),
                !.outbox = Append(@, Head(w.inbox)),
                !.thread = IF Head(w.inbox) = CloseRequest /\ ~throws THEN "closed" ELSE @]
  <2>1. w \in Worker /\ w.inbox \in Seq(Request) /\ w.outbox \in Seq(Request) /\ w.inbox # <<>>
    BY <1>2, <1>i DEF Handle, Worker
  <2>2. /\ Tail(w.inbox) \in Seq(Request) /\ Head(w.inbox) \in Request
        /\ Append(w.outbox, Head(w.inbox)) \in Seq(Request)
    BY <2>1, HeadTailProperties, AppendProperties
  <2>3. /\ next \in Worker /\ next.path = w.path /\ next.isDead = w.isDead
        /\ next.closing = w.closing /\ next.pending = w.pending
    BY <2>1, <2>2 DEF Worker
  <2>4. workers' = [workers EXCEPT ![c] = next] /\ UNCHANGED <<pool, active, sweeping, op>>
    BY <1>2 DEF Handle
  <2> HIDE DEF next
  <2>. QED
    BY <2>3, <2>4, ThreadStep
<1>3. ASSUME NEW c \in DOMAIN workers, ThreadExits(c) \/ ThreadCrashes(c) PROVE PoolInv'
  <2>1. PICK t \in {"exited", "crashed"} : workers' = [workers EXCEPT ![c].thread = t]
    BY <1>3 DEF ThreadExits, ThreadCrashes
  <2> DEFINE next == [workers[c] EXCEPT !.thread = t]
  <2>2. /\ next \in Worker /\ next.path = workers[c].path /\ next.isDead = workers[c].isDead
        /\ next.closing = workers[c].closing /\ next.pending = workers[c].pending
    BY <1>i DEF Worker
  <2>3. workers' = [workers EXCEPT ![c] = next] /\ UNCHANGED <<pool, active, sweeping, op>>
    BY <1>3, <2>1 DEF ThreadExits, ThreadCrashes
  <2> HIDE DEF next
  <2>. QED
    BY <2>2, <2>3, ThreadStep
<1>4. ASSUME NEW c \in DOMAIN workers, Receive(c) PROVE PoolInv'
  <2> DEFINE w == workers[c]
             r == Head(w.outbox)
             heard == [w EXCEPT !.outbox = Tail(@), !.pending = @ \ {r}]
  <2>1. /\ w \in Worker /\ r \in Request
        /\ heard \in Worker /\ heard.pending = w.pending \ {r}
        /\ heard.path = w.path /\ heard.isDead = w.isDead /\ heard.closing = w.closing
    <3>1. w \in Worker /\ w.outbox \in Seq(Request) /\ w.outbox # <<>>
      BY <1>4, <1>i DEF Receive, Worker
    <3>2. r \in Request /\ Tail(w.outbox) \in Seq(Request)
      BY <3>1, HeadTailProperties
    <3>. QED
      BY <3>1, <3>2 DEF Worker
  <2>2. UNCHANGED <<pool, sweeping>>
    BY <1>4 DEF Receive
  \* The receiver changes; it keeps its place and what is pending but r.
  <2>f. ASSUME NEW next \in Worker, workers' = [workers EXCEPT ![c] = next],
               next.path = w.path, next.isDead = w.isDead, next.closing = w.closing
        PROVE  /\ workers' \in Seq(Worker) /\ Len(workers') = Len(workers)
               /\ DOMAIN workers' = DOMAIN workers /\ workers'[c] = next
               /\ \A d \in DOMAIN workers \ {c} : workers'[d] = workers[d]
               /\ PooledIsOpen' /\ EveryWorkerIsFound' /\ SweepRunsWhilePooled'
    <3>1. /\ workers' \in Seq(Worker) /\ Len(workers') = Len(workers)
          /\ DOMAIN workers' = DOMAIN workers /\ workers'[c] = next
          /\ \A d \in DOMAIN workers \ {c} : workers'[d] = workers[d]
      BY <1>i, <2>f, OneChanges
    <3>2. PooledIsOpen' /\ EveryWorkerIsFound'
      BY <1>t, <1>i, <2>2, <2>f, <3>1 DEF PooledIsOpen, EveryWorkerIsFound
    <3>3. SweepRunsWhilePooled'
      BY <1>t, <2>2 DEF SweepRunsWhilePooled, Pooled
    <3>. QED
      BY <3>1, <3>2, <3>3
  <2>3. CASE r \notin w.pending \/ r = CloseRequest
    <3> DEFINE next == IF r \in w.pending THEN Terminated(heard) ELSE heard
    <3>1. workers' = [workers EXCEPT ![c] = next] /\ UNCHANGED <<active, op>>
      BY <1>4, <2>3, Requests DEF Receive, CloseRequest
    <3>2. /\ next \in Worker /\ next.pending = w.pending \ {r}
          /\ next.path = w.path /\ next.isDead = w.isDead /\ next.closing = w.closing
      BY <2>1 DEF Terminated, Worker
    <3> HIDE DEF next, w, r
    <3>3. /\ workers' \in Seq(Worker) /\ Len(workers') = Len(workers)
          /\ DOMAIN workers' = DOMAIN workers /\ workers'[c] = next
          /\ \A d \in DOMAIN workers \ {c} : workers'[d] = workers[d]
          /\ PooledIsOpen' /\ EveryWorkerIsFound' /\ SweepRunsWhilePooled'
      BY <2>f, <3>1, <3>2 DEF w
    <3>4. \A d \in DOMAIN workers :
             /\ workers'[d].path = workers[d].path /\ workers'[d].isDead = workers[d].isDead
             /\ workers'[d].closing = workers[d].closing
             /\ workers'[d].pending \subseteq workers[d].pending
             /\ workers[d].pending \subseteq workers'[d].pending \cup {CloseRequest}
      BY <2>3, <3>2, <3>3 DEF w
    <3>5. Typed'
      BY <1>t, <2>2, <3>1, <3>3 DEF Typed
    <3>6. ActiveCounts'
      BY <1>t, <3>1 DEF ActiveCounts, On
    <3>7. PendingIsCharged' /\ OneRequest' /\ BusyIsNotEvicted'
      BY <1>t, <3>1, <3>3, <3>4 DEF PendingIsCharged, OneRequest, BusyIsNotEvicted
    <3>8. WaitingIsHeld'
      <4>1. \A o \in Op : InitOf(o) # CloseRequest /\ RequestOf(o) # CloseRequest
        BY Requests DEF CloseRequest
      <4>. QED
        BY <1>t, <3>1, <3>3, <3>4, <4>1 DEF WaitingIsHeld
    <3>. QED
      BY <3>3, <3>5, <3>6, <3>7, <3>8 DEF PoolInv, Placed, Charged
  <2>4. CASE r \in w.pending /\ r # CloseRequest
    <3> DEFINE o == r.op
    <3>1. /\ o \in Op /\ o # None
          /\ \/ r.kind = "init" /\ r = InitOf(o)
             \/ r.kind = "op" /\ r = RequestOf(o)
      BY <2>1, <2>4, Requests
    <3>2. op[o] = [state |-> StageOf(r), path |-> w.path]
      BY <1>t, <2>4, <3>1 DEF PendingIsCharged
    <3>3. \A d \in DOMAIN workers : \A q \in workers[d].pending :
             q.op = o => d = c /\ q = r
      BY <1>t, <2>4, <3>1 DEF OneRequest
    <3>4. w.closing # "unused"
      BY <1>t, <2>4 DEF BusyIsNotEvicted
    <3>5. CASE r.kind = "init"
      <4> DEFINE next == Sent(heard, RequestOf(o))
      <4>1. /\ workers' = [workers EXCEPT ![c] = next]
            /\ op' = [op EXCEPT ![o].state = "sent"] /\ UNCHANGED active
        BY <1>4, <2>4, <3>5 DEF Receive
      <4>2. /\ next \in Worker /\ next.pending = (w.pending \ {r}) \cup {RequestOf(o)}
            /\ next.path = w.path /\ next.isDead = w.isDead /\ next.closing = w.closing
        <5> HIDE DEF heard, w, r, o
        <5>1. RequestOf(o) \in Request
          BY <3>1, Requests
        <5>. QED
          BY <2>1, <5>1, Sends
      <4> HIDE DEF next, w, r, o
      <4>3. /\ workers' \in Seq(Worker) /\ Len(workers') = Len(workers)
            /\ DOMAIN workers' = DOMAIN workers /\ workers'[c] = next
            /\ \A d \in DOMAIN workers \ {c} : workers'[d] = workers[d]
            /\ PooledIsOpen' /\ EveryWorkerIsFound' /\ SweepRunsWhilePooled'
        BY <2>f, <4>1, <4>2 DEF w
      <4>4. /\ op'[o] = [state |-> "sent", path |-> w.path]
            /\ \A x \in Op \ {o} : op'[x] = op[x]
            /\ w.path \in Path
        BY <1>t, <2>1, <3>1, <3>2, <4>1 DEF Typed, Worker
      <4>5. Typed'
        <5>1. op' \in [Op -> Waiting \cup Resting]
          BY <1>t, <3>1, <4>1, <4>4 DEF Typed, Waiting
        <5>. QED
          BY <1>t, <2>2, <4>1, <4>3, <5>1 DEF Typed
      <4>6. ActiveCounts'
        <5>1. \A p \in Path : On(p)' = On(p)
          BY <3>2, <4>4 DEF On
        <5>. QED
          BY <1>t, <4>1, <5>1 DEF ActiveCounts
      <4>7. ASSUME NEW d \in DOMAIN workers, NEW q \in workers'[d].pending, q.op # None
            PROVE  \/ d = c /\ q = RequestOf(o)
                   \/ q \in workers[d].pending /\ q.op # o /\ q.op \in Op
        <5>1. \/ d = c /\ q = RequestOf(o)
              \/ q \in workers[d].pending /\ (d = c => q # r)
          BY <4>2, <4>3, <4>7 DEF w
        <5>2. q \in workers[d].pending => q.op \in Op
          BY <1>i, <4>7, Requests DEF Worker
        <5>. QED
          BY <3>3, <5>1, <5>2
      <4>8. RequestOf(o).op = o /\ StageOf(RequestOf(o)) = "sent"
        BY <3>1, Requests DEF StageOf
      <4>9. PendingIsCharged'
        <5>1. ASSUME NEW d \in DOMAIN workers, NEW q \in workers'[d].pending, q.op # None
              PROVE  op'[q.op] = [state |-> StageOf(q), path |-> workers'[d].path]
          <6>1. CASE d = c /\ q = RequestOf(o)
            BY <4>2, <4>3, <4>4, <4>8, <6>1
          <6>2. CASE q \in workers[d].pending /\ q.op # o /\ q.op \in Op
            <7>1. op[q.op] = [state |-> StageOf(q), path |-> workers[d].path]
              BY <1>t, <5>1, <6>2 DEF PendingIsCharged
            <7>. QED
              BY <4>2, <4>3, <4>4, <6>2, <7>1 DEF w
          <6>. QED
            BY <4>7, <5>1, <6>1, <6>2
        <5>. QED
          BY <4>3, <5>1 DEF PendingIsCharged
      <4>10. OneRequest'
        BY <1>t, <4>3, <4>7, <4>8 DEF OneRequest
      <4>11. BusyIsNotEvicted'
        BY <1>t, <3>4, <4>2, <4>3 DEF BusyIsNotEvicted
      <4>12. WaitingIsHeld'
        <5>1. ASSUME NEW x \in Op, x # o, op'[x].state \in {"init", "sent"}
              PROVE  \E d \in DOMAIN workers' :
                        /\ ~workers'[d].isDead
                        /\ (IF op'[x].state = "init" THEN InitOf(x) ELSE RequestOf(x))
                              \in workers'[d].pending
          <6>1. PICK d \in DOMAIN workers :
                   /\ ~workers[d].isDead
                   /\ (IF op[x].state = "init" THEN InitOf(x) ELSE RequestOf(x))
                         \in workers[d].pending
            BY <1>t, <4>4, <5>1 DEF WaitingIsHeld
          <6>2. InitOf(x).op = x /\ RequestOf(x).op = x
            BY Requests
          <6>3. r.op = o
            BY DEF o
          <6>. QED
            BY <4>2, <4>3, <4>4, <5>1, <6>1, <6>2, <6>3 DEF w
        <5>2. ~w.isDead
          <6>1. PICK d \in DOMAIN workers : ~workers[d].isDead /\ r \in workers[d].pending
            BY <1>t, <3>1, <3>2, <3>5 DEF WaitingIsHeld, StageOf
          <6>. QED
            BY <3>3, <6>1 DEF w, o
        <5>3. op'[o].state = "sent" /\ ~workers'[c].isDead /\ RequestOf(o) \in workers'[c].pending
          BY <4>2, <4>3, <4>4, <5>2
        <5>. QED
          BY <4>3, <5>1, <5>3 DEF WaitingIsHeld
      <4>. QED
        BY <4>3, <4>5, <4>6, <4>9, <4>10, <4>11, <4>12 DEF PoolInv, Placed, Charged
    <3>6. CASE r.kind = "op"
      <4>1. workers' = [workers EXCEPT ![c] = heard] /\ Settle({o})
        BY <1>4, <2>4, <3>6 DEF Receive
      <4> HIDE DEF heard, w, r, o
      <4>2. /\ workers' \in Seq(Worker) /\ Len(workers') = Len(workers)
            /\ DOMAIN workers' = DOMAIN workers /\ workers'[c] = heard
            /\ \A d \in DOMAIN workers \ {c} : workers'[d] = workers[d]
            /\ PooledIsOpen' /\ EveryWorkerIsFound' /\ SweepRunsWhilePooled'
        BY <2>1, <2>f, <4>1 DEF w
      <4>3. /\ active' \in [Path -> Nat] /\ op' \in [Op -> Waiting \cup Resting]
            /\ ActiveCounts'
            /\ \A x \in Op \ {o} : op'[x] = op[x]
            /\ op'[o].state = "settled"
        BY <1>t, <3>1, <4>1, SettlesCounted
      <4>4. Typed'
        BY <1>t, <2>2, <4>2, <4>3 DEF Typed
      <4>5. \A d \in DOMAIN workers :
               /\ workers'[d].path = workers[d].path /\ workers'[d].isDead = workers[d].isDead
               /\ workers'[d].closing = workers[d].closing
               /\ workers'[d].pending = workers[d].pending \ {r}
        <5>1. \A d \in DOMAIN workers : r \in workers[d].pending => d = c
          BY <3>3 DEF o
        <5>. QED
          BY <2>1, <4>2, <5>1 DEF w
      <4>6. \A d \in DOMAIN workers : \A q \in workers'[d].pending :
               q.op # None => q.op \in Op \ {o}
        BY <1>i, <3>3, <4>5, Requests DEF Worker
      <4>7. PendingIsCharged' /\ OneRequest' /\ BusyIsNotEvicted'
        <5>1. PendingIsCharged'
          <6>1. ASSUME NEW d \in DOMAIN workers, NEW q \in workers'[d].pending, q.op # None
                PROVE  op'[q.op] = [state |-> StageOf(q), path |-> workers'[d].path]
            <7>1. op[q.op] = [state |-> StageOf(q), path |-> workers[d].path]
              BY <1>t, <4>5, <6>1 DEF PendingIsCharged
            <7>. QED
              BY <4>3, <4>5, <4>6, <6>1, <7>1
          <6>. QED
            BY <4>2, <6>1 DEF PendingIsCharged
        <5>2. OneRequest'
          BY <1>t, <4>2, <4>5 DEF OneRequest
        <5>3. BusyIsNotEvicted'
          BY <1>t, <4>2, <4>5 DEF BusyIsNotEvicted
        <5>. QED
          BY <5>1, <5>2, <5>3
      <4>8. WaitingIsHeld'
        <5>1. \A x \in Op \ {o} : InitOf(x) # r /\ RequestOf(x) # r
          BY Requests DEF o
        <5>. QED
          BY <1>t, <4>2, <4>3, <4>5, <5>1 DEF WaitingIsHeld
      <4>. QED
        BY <4>2, <4>3, <4>4, <4>7, <4>8 DEF PoolInv, Placed, Charged
    <3>. QED
      BY <3>1, <3>5, <3>6
  <2>. QED
    BY <2>3, <2>4
<1>5. ASSUME NEW c \in DOMAIN workers, Die(c) PROVE PoolInv'
  <2> DEFINE next == [workers[c] EXCEPT !.isDead = TRUE, !.pending = {}]
             done == Rejected(c)
  <2>1. /\ next \in Worker /\ next.path = workers[c].path /\ next.isDead
        /\ next.pending = {} /\ next.closing = workers[c].closing
    BY <1>i DEF Worker
  <2>2. /\ workers' = [workers EXCEPT ![c] = next] /\ Settle(done)
        /\ pool' = Forget(c) /\ sweeping' = SweepAfter(c)
    BY <1>5 DEF Die
  <2>3. /\ done \in SUBSET Op
        /\ \A r \in workers[c].pending : r.op # None => r.op \in done
    BY <1>i, Requests DEF Rejected, Worker
  <2> HIDE DEF next, done
  <2>4. /\ workers' \in Seq(Worker) /\ Len(workers') = Len(workers)
        /\ DOMAIN workers' = DOMAIN workers /\ workers'[c] = next
        /\ \A d \in DOMAIN workers \ {c} : workers'[d] = workers[d]
    BY <1>i, <2>1, <2>2, OneChanges
  <2>5. /\ active' \in [Path -> Nat] /\ op' \in [Op -> Waiting \cup Resting]
        /\ ActiveCounts'
        /\ \A o \in Op \ done : op'[o] = op[o]
        /\ \A o \in done : op'[o].state = "settled"
    BY <1>t, <2>2, <2>3, SettlesCounted
  <2>6. Typed'
    <3>1. pool' \in [Path -> 0..Len(workers)]
      BY <1>t, <1>i, <2>2 DEF Forget, Typed
    <3>2. sweeping' \in BOOLEAN
      BY <1>t, <2>2 DEF SweepAfter, Typed
    <3>. QED
      BY <2>4, <2>5, <3>1, <3>2 DEF Typed
  <2>7. PooledIsOpen' /\ EveryWorkerIsFound'
    BY <1>t, <1>i, <2>1, <2>2, <2>4 DEF PooledIsOpen, EveryWorkerIsFound, Forget, Worker
  <2>8. SweepRunsWhilePooled'
    <3>1. CASE IsPooled(c)
      BY <1>t, <1>i, <2>2, <3>1 DEF SweepRunsWhilePooled, SweepAfter, Forget, IsPooled, Pooled
    <3>2. CASE ~IsPooled(c)
      <4>1. pool' = pool
        BY <1>t, <2>2, <3>2 DEF Forget, IsPooled, Typed
      <4>. QED
        BY <1>t, <2>2, <3>2, <4>1 DEF SweepRunsWhilePooled, SweepAfter, Pooled
    <3>. QED
      BY <3>1, <3>2
  <2>9. \A d \in DOMAIN workers : \A q \in workers'[d].pending :
           /\ d # c /\ q \in workers[d].pending
           /\ q.op # None => q.op \in Op \ done
    <3>1. SUFFICES ASSUME NEW d \in DOMAIN workers, NEW q \in workers'[d].pending
                   PROVE  /\ d # c /\ q \in workers[d].pending
                          /\ q.op # None => q.op \in Op \ done
      OBVIOUS
    <3>2. d # c /\ q \in workers[d].pending
      BY <2>1, <2>4, <3>1
    <3>3. q.op # None => q.op \notin done
      BY <1>t, <3>2 DEF OneRequest, Rejected, done
    <3>4. q.op # None => q.op \in Op
      BY <1>i, <3>2, Requests DEF Worker
    <3>. QED
      BY <3>2, <3>3, <3>4
  <2>10. PendingIsCharged' /\ OneRequest' /\ BusyIsNotEvicted'
    BY <1>t, <2>1, <2>4, <2>5, <2>9 DEF PendingIsCharged, OneRequest, BusyIsNotEvicted
  <2>11. WaitingIsHeld'
    <3>1. SUFFICES ASSUME NEW o \in Op, op'[o].state \in {"init", "sent"}
                   PROVE  \E d \in DOMAIN workers' :
                             /\ ~workers'[d].isDead
                             /\ (IF op'[o].state = "init" THEN InitOf(o) ELSE RequestOf(o))
                                   \in workers'[d].pending
      BY DEF WaitingIsHeld
    <3>2. o \notin done /\ op'[o] = op[o]
      BY <2>5, <3>1
    <3>3. PICK d \in DOMAIN workers :
             /\ ~workers[d].isDead
             /\ (IF op[o].state = "init" THEN InitOf(o) ELSE RequestOf(o))
                   \in workers[d].pending
      BY <1>t, <3>1, <3>2 DEF WaitingIsHeld
    <3>4. d # c
      BY <2>3, <3>2, <3>3, Requests
    <3>. QED
      BY <2>4, <3>2, <3>3, <3>4
  <2>. QED
    BY <2>5, <2>6, <2>7, <2>8, <2>10, <2>11 DEF PoolInv, Placed, Charged
<1>6. ASSUME NEW idle \in SUBSET Path, SweepIdle(idle) PROVE PoolInv'
  <2>1. \A p \in idle : pool[p] # 0 /\ active[p] = 0
    BY <1>6, <1>t DEF SweepIdle, Pooled, Retained, Typed
  <2>2. sweeping' = (Pooled \ idle # {})
    BY <1>6 DEF SweepIdle
  <2>. QED
    BY <1>6, <2>1, <2>2, ClosesPaths DEF SweepIdle
<1>7. CASE CloseAll
  <2>1. Pooled \ Path = {}
    BY DEF Pooled
  <2>2. pool' = [p \in Path |-> IF p \in Path THEN 0 ELSE pool[p]]
    BY <1>7 DEF CloseAll
  <2>3. sweeping' = (Pooled \ Path # {})
    BY <1>7, <2>1 DEF CloseAll
  <2>. QED
    BY <1>7, <2>2, <2>3, ClosesPaths DEF CloseAll
<1>8. CASE UNCHANGED vars
  BY <1>8 DEF vars, PoolInv, Placed, Charged, Typed, PooledIsOpen, EveryWorkerIsFound,
              SweepRunsWhilePooled, Pooled, ActiveCounts, On, PendingIsCharged, OneRequest,
              BusyIsNotEvicted, WaitingIsHeld
<1>. QED
  BY <1>1, <1>2, <1>3, <1>4, <1>5, <1>6, <1>7, <1>8 DEF Next

\* The conjuncts hold together, from the start and after every step.
LEMMA PoolInvariant == Spec => []PoolInv
BY PoolInit, PoolNext, PTL DEF Spec

-----------------------------------------------------------------------------
(* The bounds of the model, and the cap of the pool.                       *)

Bounded ==
    /\ Len(workers) <= MaxSpawns
    /\ closed \in BOOLEAN
    /\ crashes \in 0..MaxCrashes
    /\ demand \in 0..Cardinality(Path)

CapInv == Bounded /\ CapFollowsDemand

\* Sets of paths are finite, and a smaller one has no more members.
LEMMA PathSets ==
    ASSUME NEW S \in SUBSET Path, NEW R \in SUBSET S
    PROVE  /\ IsFiniteSet(S) /\ Cardinality(S) \in Nat
           /\ Cardinality(R) \in Nat /\ Cardinality(R) <= Cardinality(S)
<1>1. IsFiniteSet(S)
  BY PoolAssumption, FS_Subset
<1>. QED
  BY <1>1, FS_Subset, FS_CardinalityType

\* The pool keeps to its cap when it does not grow, or grows into the room there
\* is, into the paths in use, or into the place of an idle worker.
LEMMA CapKept ==
    ASSUME CapFollowsDemand, demand \in Nat, demand' \in Nat, demand <= demand',
           NEW p \in Path, NEW R \in SUBSET Path, Cardinality(R) <= demand',
           \/ Pooled' \subseteq Pooled
           \/ Cardinality(Pooled) < MaxWorkers /\ Pooled' = Pooled \cup {p}
           \/ Pooled' \subseteq R
           \/ \E q \in Pooled : Pooled' = (Pooled \ {q}) \cup {p}
    PROVE  CapFollowsDemand'
<1>1. Pooled \in SUBSET Path /\ Pooled' \in SUBSET Path
  BY DEF Pooled
<1>2. /\ IsFiniteSet(Pooled) /\ Cardinality(Pooled) \in Nat
      /\ Cardinality(Pooled') \in Nat /\ Cardinality(R) \in Nat
      /\ MaxWorkers \in Nat
  BY <1>1, PathSets, PoolAssumption
<1>3. CASE Pooled' \subseteq Pooled
  <2>1. Cardinality(Pooled') <= Cardinality(Pooled)
    BY <1>1, <1>3, PathSets
  <2>. QED
    BY <1>2, <2>1 DEF CapFollowsDemand, Larger
<1>4. CASE Cardinality(Pooled) < MaxWorkers /\ Pooled' = Pooled \cup {p}
  <2>1. Cardinality(Pooled \cup {p}) <= Cardinality(Pooled) + 1
    BY <1>2, FS_AddElement
  <2>. QED
    BY <1>2, <1>4, <2>1 DEF CapFollowsDemand, Larger
<1>5. CASE Pooled' \subseteq R
  <2>1. Cardinality(Pooled') <= Cardinality(R)
    BY <1>5, PathSets
  <2>. QED
    BY <1>2, <2>1 DEF CapFollowsDemand, Larger
<1>6. ASSUME NEW q \in Pooled, Pooled' = (Pooled \ {q}) \cup {p} PROVE CapFollowsDemand'
  <2> DEFINE rest == Pooled \ {q}
  <2>1. IsFiniteSet(rest) /\ Cardinality(rest) = Cardinality(Pooled) - 1
    BY <1>2, <1>6, FS_RemoveElement
  <2> HIDE DEF rest
  <2>2. \/ Cardinality(rest \cup {p}) = Cardinality(rest)
        \/ Cardinality(rest \cup {p}) = Cardinality(rest) + 1
    BY <2>1, FS_AddElement
  <2>3. Cardinality(Pooled') <= Cardinality(Pooled)
    BY <1>2, <1>6, <2>1, <2>2 DEF rest
  <2>. QED
    BY <1>2, <2>3 DEF CapFollowsDemand, Larger
<1>. QED
  BY <1>3, <1>4, <1>5, <1>6

LEMMA CapInit == Init => CapInv
<1> SUFFICES ASSUME Init PROVE CapInv
  OBVIOUS
<1>1. Pooled = {} /\ Cardinality({}) = 0 /\ Len(<<>>) = 0
  BY FS_EmptySet DEF Init, Pooled
<1>2. Cardinality(Path) \in Nat /\ {MaxSpawns, MaxCrashes, MaxWorkers} \subseteq Nat
  BY PathSets, PoolAssumption
<1>3. Bounded
  <2>1. Len(workers) = 0 /\ closed \in BOOLEAN
    BY <1>1 DEF Init
  <2>2. crashes = 0 /\ demand = 0
    BY DEF Init
  <2>. QED
    BY <1>2, <2>1, <2>2 DEF Bounded
<1>4. CapFollowsDemand
  BY <1>1, <1>2 DEF Init, CapFollowsDemand, Larger
<1>. QED
  BY <1>3, <1>4 DEF CapInv

\* Starting an operation: its path is retained before anything is evicted.
LEMMA CapStarts ==
    ASSUME PoolInv, PoolInv', CapInv, NEW o \in Op, NEW p \in Path, StartOp(o, p)
    PROVE  CapInv'
<1>t. Typed /\ Typed' /\ Len(workers) \in Nat
  BY Indices DEF PoolInv, Placed, Typed
<1> DEFINE R == Retained(active')
<1>1. R \subseteq Path /\ Cardinality(R) \in Nat /\ Cardinality(R) <= Cardinality(Path)
      /\ Cardinality(Path) \in Nat
  BY PathSets DEF Retained
<1>2. p \in R
  BY <1>t DEF StartOp, Retained, Typed
<1>3. /\ demand' = Larger(demand, Cardinality(R))
      /\ UNCHANGED <<closed, crashes>>
  BY DEF StartOp
<1>4. demand \in 0..Cardinality(Path)
  BY DEF CapInv, Bounded
<1>5. /\ demand' \in 0..Cardinality(Path)
      /\ demand <= demand' /\ Cardinality(R) <= demand'
      /\ demand \in Nat /\ demand' \in Nat
  BY <1>1, <1>3, <1>4 DEF Larger
<1> HIDE DEF R
<1>6. CASE pool[p] = 0
  <2>1. Spawn(o, p)
    BY <1>6 DEF StartOp
  <2>2. PICK victims \in Evictable(active') :
           /\ workers' = Append(ClosedAmong(victims, "unused"), NewWorker(p, o))
           /\ pool' = [q \in Path |-> IF q = p THEN Len(workers) + 1
                                      ELSE IF q \in victims THEN 0 ELSE pool[q]]
    BY <2>1 DEF Spawn
  <2>3. victims \subseteq Pooled
    BY <2>2 DEF Evictable
  <2>4. p \notin Pooled /\ Pooled' = (Pooled \ victims) \cup {p}
    BY <1>t, <1>6, <2>2 DEF Pooled
  <2>5. \/ Cardinality(Pooled) < MaxWorkers /\ victims = {}
        \/ Pooled \subseteq R
        \/ \E q \in Pooled : victims = {q}
    BY <2>2 DEF Evictable, R
  <2>6. CapFollowsDemand'
    <3>1. \/ Cardinality(Pooled) < MaxWorkers /\ Pooled' = Pooled \cup {p}
          \/ Pooled' \subseteq R
          \/ \E q \in Pooled : Pooled' = (Pooled \ {q}) \cup {p}
      BY <1>2, <2>4, <2>5
    <3>2. CapFollowsDemand
      BY DEF CapInv
    <3>. QED
      BY <1>1, <1>5, <3>1, <3>2, CapKept
  <2>7. Len(workers') = Len(workers) + 1 /\ Len(workers) < MaxSpawns
    <3>1. Len(workers) < MaxSpawns
      BY <2>1 DEF Spawn
    <3>2. ClosedAmong(victims, "unused") \in Seq(Worker)
          /\ Len(ClosedAmong(victims, "unused")) = Len(workers)
      BY <1>t, <2>3, ClosesAmong DEF Pooled
    <3>. QED
      BY <2>2, <3>1, <3>2, LenProperties, AppendProperties
  <2>8. Bounded'
    BY <1>t, <1>3, <1>5, <2>7, PoolAssumption DEF CapInv, Bounded
  <2>. QED
    BY <2>6, <2>8 DEF CapInv
<1>7. CASE pool[p] # 0
  <2>1. pool' = pool /\ workers' = [workers EXCEPT ![pool[p]] = Sent(@, RequestOf(o))]
    BY <1>7 DEF StartOp, UseWorker
  <2>2. Len(workers') = Len(workers)
    BY <1>t, <2>1, LenProperties DEF Typed
  <2>3. Pooled' \subseteq Pooled /\ CapFollowsDemand
    BY <2>1 DEF Pooled, CapInv
  <2>4. CapFollowsDemand'
    BY <1>1, <1>5, <2>3, CapKept
  <2>. QED
    BY <1>3, <1>5, <2>2, <2>4 DEF CapInv, Bounded
<1>. QED
  BY <1>6, <1>7

\* A step that spawns nothing.
LEMMA CapRests ==
    ASSUME CapInv, Pooled' \subseteq Pooled, Len(workers') = Len(workers),
           closed' \in BOOLEAN, crashes' \in 0..MaxCrashes, demand' = demand
    PROVE  CapInv'
<1>1. demand \in Nat /\ demand' \in Nat /\ demand <= demand'
  BY PathSets DEF CapInv, Bounded
<1>2. {} \in SUBSET Path /\ Cardinality({}) <= demand'
  BY <1>1, FS_EmptySet
<1>3. CapFollowsDemand'
  <2>1. CASE Path = {}
    <3>1. Pooled' = {}
      BY <2>1 DEF Pooled
    <3>. QED
      BY <3>1, <1>1, FS_EmptySet, PoolAssumption DEF CapFollowsDemand, Larger
  <2>2. CASE Path # {}
    <3>1. PICK p \in Path : TRUE
      BY <2>2
    <3>2. CapFollowsDemand
      BY DEF CapInv
    <3>. QED
      BY <1>1, <1>2, <3>1, <3>2, CapKept
  <2>. QED
    BY <2>1, <2>2
<1>. QED
  BY <1>3 DEF CapInv, Bounded

LEMMA CapNext == PoolInv /\ PoolInv' /\ CapInv /\ [Next]_vars => CapInv'
<1> SUFFICES ASSUME PoolInv, PoolInv', CapInv, [Next]_vars PROVE CapInv'
  OBVIOUS
<1>t. /\ Typed /\ closed \in BOOLEAN /\ crashes \in 0..MaxCrashes /\ MaxCrashes \in Nat
      /\ workers \in Seq(Worker)
  BY PoolAssumption DEF PoolInv, Placed, CapInv, Bounded, Typed
<1>s. \A c \in DOMAIN workers : \A w : Len([workers EXCEPT ![c] = w]) = Len(workers)
  BY <1>t, LenProperties
<1>1. ASSUME NEW o \in Op, NEW p \in Path, StartOp(o, p) PROVE CapInv'
  BY <1>1, CapStarts
<1>2. ASSUME NEW c \in DOMAIN workers, NEW throws \in BOOLEAN, Handle(c, throws) PROVE CapInv'
  BY <1>2, <1>t, <1>s, CapRests DEF Handle, Pooled
<1>3. ASSUME NEW c \in DOMAIN workers, ThreadExits(c) \/ ThreadCrashes(c) PROVE CapInv'
  <2>1. Len(workers') = Len(workers) /\ Pooled' = Pooled
    BY <1>3, <1>s DEF ThreadExits, ThreadCrashes, Pooled
  <2>2. crashes' \in 0..MaxCrashes /\ closed' = closed /\ demand' = demand
    BY <1>3, <1>t DEF ThreadExits, ThreadCrashes
  <2>. QED
    BY <1>t, <2>1, <2>2, CapRests
<1>4. ASSUME NEW c \in DOMAIN workers, Receive(c) PROVE CapInv'
  <2>1. UNCHANGED <<pool, closed, crashes, demand>>
    BY <1>4 DEF Receive
  <2>2. \E w : workers' = [workers EXCEPT ![c] = w]
    BY <1>4 DEF Receive
  <2>. QED
    BY <1>t, <1>s, <2>1, <2>2, CapRests DEF Pooled
<1>5. ASSUME NEW c \in DOMAIN workers, Die(c) PROVE CapInv'
  BY <1>5, <1>t, <1>s, CapRests DEF Die, Forget, Pooled
<1>6. ASSUME NEW idle \in SUBSET Path, SweepIdle(idle) PROVE CapInv'
  <2>1. Len(workers') = Len(workers)
    BY <1>6, <1>t, ClosesAmong DEF SweepIdle
  <2>. QED
    BY <1>6, <1>t, <2>1, CapRests DEF SweepIdle, Pooled
<1>7. CASE CloseAll
  <2>1. Len(workers') = Len(workers)
    BY <1>7, <1>t, ClosesAmong DEF CloseAll
  <2>. QED
    BY <1>7, <1>t, <2>1, CapRests DEF CloseAll, Pooled
<1>8. CASE UNCHANGED vars
  BY <1>8, <1>t, CapRests DEF vars, Pooled
<1>. QED
  BY <1>1, <1>2, <1>3, <1>4, <1>5, <1>6, <1>7, <1>8 DEF Next

LEMMA CapInvariant == Spec => [](PoolInv /\ CapInv)
<1>1. Init => PoolInv /\ CapInv
  BY PoolInit, CapInit
<1>2. (PoolInv /\ CapInv) /\ [Next]_vars => (PoolInv /\ CapInv)'
  BY PoolNext, CapNext
<1>. QED
  BY <1>1, <1>2, PTL DEF Spec

-----------------------------------------------------------------------------
(* Two threads on one database.                                            *)

InBox(w) == {w.inbox[i] : i \in DOMAIN w.inbox}
OutBox(w) == {w.outbox[i] : i \in DOMAIN w.outbox}

\* The operations whose request a worker's port still holds, on its way in or
\* answered.
OpsOf(w) == {r.op : r \in {r \in InBox(w) \cup OutBox(w) : r.kind = "op"}}

\* The request of an operation waits in the inbox of a live worker once, is
\* pending, and is not answered yet; a dead worker's thread runs nothing.
Orderly(w) ==
    /\ w.isDead => w.thread \in {"exited", "crashed"}
    /\ \A r \in InBox(w) : r.kind = "op" =>
          /\ w.isDead \/ r \in w.pending
          /\ r \notin OutBox(w)
    /\ \A i, j \in DOMAIN w.inbox :
          w.inbox[i].kind = "op" /\ w.inbox[i] = w.inbox[j] => i = j

Begun == {o \in Op : op[o].state \in {"sent", "settled"}}

PortsInv ==
    \A c \in DOMAIN workers :
        /\ Orderly(workers[c])
        /\ OpsOf(workers[c]) \subseteq Begun
        /\ workers[c].closing = "all" => closed

\* The indices and the members of a worker's boxes.
LEMMA Boxes ==
    ASSUME NEW w \in Worker
    PROVE  /\ w.inbox \in Seq(Request) /\ w.outbox \in Seq(Request)
           /\ Len(w.inbox) \in Nat /\ DOMAIN w.inbox = 1..Len(w.inbox)
           /\ Len(w.outbox) \in Nat /\ DOMAIN w.outbox = 1..Len(w.outbox)
           /\ InBox(w) \subseteq Request /\ OutBox(w) \subseteq Request
           /\ OpsOf(w) \subseteq Op
<1>1. w.inbox \in Seq(Request) /\ w.outbox \in Seq(Request)
  BY DEF Worker
<1>2. /\ Len(w.inbox) \in Nat /\ DOMAIN w.inbox = 1..Len(w.inbox)
      /\ Len(w.outbox) \in Nat /\ DOMAIN w.outbox = 1..Len(w.outbox)
  BY <1>1, LenProperties
<1>3. InBox(w) \subseteq Request /\ OutBox(w) \subseteq Request
  BY <1>1, <1>2, ElementOfSeq DEF InBox, OutBox
<1>4. \A r \in Request : r.kind = "op" => r.op \in Op
  BY DEF Request
<1>. QED
  BY <1>1, <1>2, <1>3, <1>4 DEF OpsOf

\* A request that no port of the worker holds is sent to it.
LEMMA PortSends ==
    ASSUME NEW w \in Worker, Orderly(w), NEW r \in Request,
           r.kind = "op" => r.op \notin OpsOf(w)
    PROVE  /\ Orderly(Sent(w, r))
           /\ \A o \in OpsOf(Sent(w, r)) : o \in OpsOf(w) \/ (r.kind = "op" /\ o = r.op)
<1> DEFINE v == Sent(w, r)
<1>1. /\ v.inbox = Append(w.inbox, r) /\ v.outbox = w.outbox
      /\ v.pending = w.pending \cup {r}
      /\ v.isDead = w.isDead /\ v.thread = w.thread
  BY DEF Sent, Worker
<1> HIDE DEF v
<1>2. /\ DOMAIN v.inbox = 1..(Len(w.inbox) + 1)
      /\ \A i \in 1..Len(w.inbox) : v.inbox[i] = w.inbox[i]
      /\ v.inbox[Len(w.inbox) + 1] = r
      /\ Len(w.inbox) \in Nat /\ DOMAIN w.inbox = 1..Len(w.inbox)
  BY <1>1, Boxes, AppendProperties, LenProperties
<1>3. InBox(v) = InBox(w) \cup {r} /\ OutBox(v) = OutBox(w)
  BY <1>1, <1>2 DEF InBox, OutBox
<1>4. r.kind = "op" => r \notin InBox(w) \cup OutBox(w)
  BY DEF OpsOf
<1>5. ASSUME NEW i \in DOMAIN v.inbox, NEW j \in DOMAIN v.inbox,
             v.inbox[i].kind = "op", v.inbox[i] = v.inbox[j]
      PROVE  i = j
  <2>1. \A k \in 1..Len(w.inbox) : w.inbox[k] \in InBox(w)
    BY <1>2 DEF InBox
  <2>2. CASE i \in 1..Len(w.inbox) /\ j \in 1..Len(w.inbox)
    BY <1>2, <1>5, <2>2 DEF Orderly
  <2>3. CASE i = Len(w.inbox) + 1 /\ j \in 1..Len(w.inbox)
    BY <1>2, <1>4, <1>5, <2>1, <2>3
  <2>4. CASE j = Len(w.inbox) + 1 /\ i \in 1..Len(w.inbox)
    BY <1>2, <1>4, <1>5, <2>1, <2>4
  <2>. QED
    BY <1>2, <2>2, <2>3, <2>4
<1>6. \A q \in InBox(v) : q.kind = "op" => (v.isDead \/ q \in v.pending) /\ q \notin OutBox(v)
  BY <1>1, <1>3, <1>4 DEF Orderly
<1>7. Orderly(v)
  BY <1>1, <1>5, <1>6 DEF Orderly
<1>8. \A o \in OpsOf(v) : o \in OpsOf(w) \/ (r.kind = "op" /\ o = r.op)
  BY <1>3 DEF OpsOf
<1>. QED
  BY <1>7, <1>8 DEF v

\* The thread answers the first request that came in.
LEMMA PortAnswers ==
    ASSUME NEW w \in Worker, Orderly(w), ~w.isDead, w.inbox # <<>>, NEW v \in Worker,
           v.inbox = Tail(w.inbox), v.outbox = Append(w.outbox, Head(w.inbox)),
           v.pending = w.pending, v.isDead = w.isDead
    PROVE  Orderly(v) /\ OpsOf(v) \subseteq OpsOf(w)
<1>1. /\ Len(w.inbox) \in Nat /\ Len(w.inbox) >= 1
      /\ Head(w.inbox) = w.inbox[1] /\ 1 \in DOMAIN w.inbox
      /\ DOMAIN w.inbox = 1..Len(w.inbox)
      /\ DOMAIN v.inbox = 1..(Len(w.inbox) - 1)
      /\ \A i \in DOMAIN v.inbox : v.inbox[i] = w.inbox[i + 1] /\ i + 1 \in DOMAIN w.inbox
  BY Boxes, HeadTailProperties, EmptySeq, LenProperties
<1>2. OutBox(v) = OutBox(w) \cup {w.inbox[1]}
  <2>1. /\ DOMAIN v.outbox = 1..(Len(w.outbox) + 1)
        /\ \A i \in 1..Len(w.outbox) : v.outbox[i] = w.outbox[i]
        /\ v.outbox[Len(w.outbox) + 1] = w.inbox[1]
        /\ DOMAIN w.outbox = 1..Len(w.outbox) /\ Len(w.outbox) \in Nat
    <3>1. Head(w.inbox) \in Request
      BY <1>1, Boxes DEF InBox
    <3>. QED
      BY <1>1, <3>1, Boxes, AppendProperties, LenProperties
  <2>. QED
    BY <2>1 DEF OutBox
<1>3. InBox(v) \subseteq InBox(w) /\ w.inbox[1] \in InBox(w)
  BY <1>1 DEF InBox
<1>4. \A i \in DOMAIN v.inbox : v.inbox[i].kind = "op" => v.inbox[i] # w.inbox[1]
  BY <1>1 DEF Orderly
<1>5. \A r \in InBox(v) : r.kind = "op" => r \in v.pending /\ r \notin OutBox(v)
  <2>1. \A r \in InBox(v) : r.kind = "op" => r # w.inbox[1]
    BY <1>4 DEF InBox
  <2>. QED
    BY <1>2, <1>3, <2>1 DEF Orderly
<1>6. ASSUME NEW i \in DOMAIN v.inbox, NEW j \in DOMAIN v.inbox,
             v.inbox[i].kind = "op", v.inbox[i] = v.inbox[j]
      PROVE  i = j
  <2>1. i + 1 = j + 1
    BY <1>1, <1>6 DEF Orderly
  <2>. QED
    BY <1>1, <2>1
<1>7. Orderly(v)
  BY <1>5, <1>6 DEF Orderly
<1>8. OpsOf(v) \subseteq OpsOf(w)
  BY <1>2, <1>3 DEF OpsOf
<1>. QED
  BY <1>7, <1>8

\* The host hears the first answer, which settles its request.
LEMMA PortIsHeard ==
    ASSUME NEW w \in Worker, Orderly(w), w.outbox # <<>>, NEW v \in Worker,
           v.inbox = w.inbox, v.outbox = Tail(w.outbox),
           v.pending = w.pending \ {Head(w.outbox)},
           v.isDead = w.isDead, v.thread = w.thread
    PROVE  Orderly(v) /\ OpsOf(v) \subseteq OpsOf(w)
<1>1. InBox(v) = InBox(w)
  BY DEF InBox
<1>2. OutBox(v) \subseteq OutBox(w) /\ Head(w.outbox) \in OutBox(w)
  <2>1. /\ Len(w.outbox) \in Nat /\ Len(w.outbox) >= 1
        /\ Head(w.outbox) = w.outbox[1] /\ 1 \in DOMAIN w.outbox
        /\ \A i \in DOMAIN v.outbox : v.outbox[i] = w.outbox[i + 1] /\ i + 1 \in DOMAIN w.outbox
    BY Boxes, HeadTailProperties, EmptySeq, LenProperties
  <2>. QED
    BY <2>1 DEF OutBox
<1>3. Orderly(v)
  BY <1>1, <1>2 DEF Orderly
<1>. QED
  BY <1>1, <1>2, <1>3 DEF OpsOf

\* What changes no box.
LEMMA PortStays ==
    ASSUME NEW w \in Worker, Orderly(w), NEW v \in Worker,
           v.inbox = w.inbox, v.outbox = w.outbox,
           v.isDead \/ (v.pending = w.pending /\ v.isDead = w.isDead),
           v.isDead => v.thread \in {"exited", "crashed"}
    PROVE  Orderly(v) /\ OpsOf(v) = OpsOf(w)
<1>1. InBox(v) = InBox(w) /\ OutBox(v) = OutBox(w)
  BY DEF InBox, OutBox
<1>. QED
  BY <1>1 DEF Orderly, OpsOf

LEMMA PortCloses ==
    ASSUME NEW w \in Worker, Orderly(w), NEW why \in {"unused", "all"}
    PROVE  Orderly(Closing(w, why)) /\ OpsOf(Closing(w, why)) \subseteq OpsOf(w)
<1> DEFINE s == Sent(w, CloseRequest)
<1>1. CloseRequest \in Request /\ CloseRequest.kind # "op"
  BY DEF CloseRequest, Request
<1>2. Orderly(s) /\ OpsOf(s) \subseteq OpsOf(w) /\ s \in Worker
  BY <1>1, PortSends, Sends
<1> HIDE DEF s
<1>3. /\ Closing(w, why) \in Worker
      /\ Closing(w, why).inbox = s.inbox /\ Closing(w, why).outbox = s.outbox
      /\ Closing(w, why).pending = s.pending /\ Closing(w, why).isDead = s.isDead
      /\ Closing(w, why).thread = s.thread
  <2>1. Closing(w, why) = [s EXCEPT !.closing = why]
    BY DEF Closing, s
  <2>. QED
    BY <1>2, <2>1 DEF Worker
<1>4. s.isDead => s.thread \in {"exited", "crashed"}
  BY <1>2 DEF Orderly
<1>5. Orderly(Closing(w, why)) /\ OpsOf(Closing(w, why)) = OpsOf(s)
  BY <1>2, <1>3, <1>4, PortStays
<1>. QED
  BY <1>2, <1>5

LEMMA PortsInit == Init => PortsInv
<1>1. DOMAIN <<>> = {}
  BY EmptySeq, LenProperties
<1>. QED
  BY <1>1 DEF Init, PortsInv

\* One worker changes, and no operation goes back.
LEMMA PortChanges ==
    ASSUME Typed, PortsInv, NEW c \in DOMAIN workers, NEW v \in Worker,
           workers' = [workers EXCEPT ![c] = v], Orderly(v), OpsOf(v) \subseteq Begun',
           v.closing = workers[c].closing, Begun \subseteq Begun', closed' = closed
    PROVE  PortsInv'
<1>1. /\ DOMAIN workers' = DOMAIN workers /\ workers'[c] = v
      /\ \A d \in DOMAIN workers \ {c} : workers'[d] = workers[d]
  BY OneChanges DEF Typed
<1>. QED
  BY <1>1 DEF PortsInv, Orderly, OpsOf, InBox, OutBox

\* An operation that begins has no request on any port; the workers that make
\* room for it get a close request.
LEMMA PortsStart ==
    ASSUME PoolInv, PortsInv, NEW o \in Op, NEW p \in Path, StartOp(o, p)
    PROVE  PortsInv'
<1>t. Typed /\ workers \in Seq(Worker) /\ op \in [Op -> Waiting \cup Resting]
  BY DEF PoolInv, Placed, Typed
<1>i. /\ Len(workers) \in Nat /\ DOMAIN workers = 1..Len(workers)
      /\ \A c \in DOMAIN workers : workers[c] \in Worker
  BY <1>t, Indices
<1>1. o \notin Begun /\ closed' = closed
  BY DEF StartOp, Begun
<1>2. CASE pool[p] = 0
  <2>1. op' = [op EXCEPT ![o] = [state |-> "init", path |-> p]]
    BY <1>2 DEF StartOp, Spawn
  <2>2. PICK victims \in Evictable(active') :
           workers' = Append(ClosedAmong(victims, "unused"), NewWorker(p, o))
    BY <1>2 DEF StartOp, Spawn
  <2>3. victims \in SUBSET Path
    BY <2>2 DEF Evictable, Pooled
  <2> DEFINE ws == ClosedAmong(victims, "unused")
             bare == [path |-> p, inbox |-> <<>>, outbox |-> <<>>, pending |-> {},
                      thread |-> "live", isDead |-> FALSE, closing |-> "no"]
             new == NewWorker(p, o)
             n == Len(workers) + 1
  <2>4. /\ ws \in Seq(Worker) /\ Len(ws) = Len(workers) /\ DOMAIN ws = DOMAIN workers
        /\ \A c \in DOMAIN workers :
              ws[c] = IF \E q \in victims : pool[q] = c
                      THEN Closing(workers[c], "unused") ELSE workers[c]
    BY <1>t, <2>3, ClosesAmong
  <2>5. new \in Worker /\ Orderly(new) /\ OpsOf(new) = {} /\ new.closing = "no"
    <3>1. bare \in Worker /\ bare.closing = "no" /\ ~bare.isDead
          /\ bare.inbox = <<>> /\ bare.outbox = <<>>
      BY EmptySeq DEF Worker
    <3>2. new = Sent(bare, InitOf(o))
      BY DEF NewWorker
    <3> HIDE DEF bare, new
    <3>3. DOMAIN <<>> = {}
      BY EmptySeq, LenProperties
    <3>4. Orderly(bare) /\ OpsOf(bare) = {}
      BY <3>1, <3>3 DEF Orderly, OpsOf, InBox, OutBox
    <3>5. InitOf(o) \in Request /\ InitOf(o).kind # "op"
      BY Requests
    <3>. QED
      BY <3>1, <3>2, <3>4, <3>5, PortSends, Sends
  <2> HIDE DEF ws, new
  <2>6. /\ DOMAIN workers' = DOMAIN workers \cup {n}
        /\ workers'[n] = new /\ \A c \in DOMAIN workers : workers'[c] = ws[c]
    <3>1. workers' = Append(ws, new)
      BY <2>2 DEF ws, new
    <3>2. /\ workers' \in Seq(Worker) /\ Len(workers') = n
          /\ workers'[n] = new /\ \A c \in DOMAIN workers : workers'[c] = ws[c]
      BY <1>i, <2>4, <2>5, <3>1, AppendProperties
    <3>. QED
      BY <1>i, <3>2, LenProperties
  <2>7. Begun' = Begun
    BY <1>1, <1>t, <2>1 DEF Begun
  <2>8. ASSUME NEW c \in DOMAIN workers
        PROVE  /\ Orderly(ws[c]) /\ OpsOf(ws[c]) \subseteq Begun
               /\ ws[c].closing = "all" => closed
    BY <1>i, <2>4, PortCloses, Closes DEF PortsInv
  <2>9. ASSUME NEW c \in DOMAIN workers'
        PROVE  /\ Orderly(workers'[c]) /\ OpsOf(workers'[c]) \subseteq Begun'
               /\ workers'[c].closing = "all" => closed'
    <3>1. CASE c = n
      BY <2>5, <2>6, <3>1
    <3>2. CASE c # n
      BY <1>1, <2>6, <2>7, <2>8, <3>2
    <3>. QED
      BY <3>1, <3>2
  <2>10. PortsInv' = \A c \in DOMAIN workers' :
            /\ Orderly(workers'[c]) /\ OpsOf(workers'[c]) \subseteq Begun'
            /\ workers'[c].closing = "all" => closed'
    BY DEF PortsInv, Orderly, OpsOf, InBox, OutBox
  <2>. QED
    BY <2>9, <2>10
<1>3. CASE pool[p] # 0
  <2> DEFINE c == pool[p]
             next == Sent(workers[c], RequestOf(o))
  <2>1. c \in DOMAIN workers
    BY <1>t, <1>i, <1>3 DEF Typed
  <2>2. workers' = [workers EXCEPT ![c] = next]
        /\ op' = [op EXCEPT ![o] = [state |-> "sent", path |-> p]]
    BY <1>3 DEF StartOp, UseWorker
  <2>3. RequestOf(o) \in Request /\ RequestOf(o).op = o
    BY Requests
  <2>4. Orderly(workers[c]) /\ OpsOf(workers[c]) \subseteq Begun /\ workers[c] \in Worker
    BY <1>i, <2>1 DEF PortsInv
  <2>5. Orderly(next) /\ OpsOf(next) \subseteq Begun \cup {o}
    BY <1>1, <2>3, <2>4, PortSends
  <2>6. next \in Worker /\ next.closing = workers[c].closing
    BY <2>3, <2>4, Sends
  <2> HIDE DEF next
  <2>7. Begun \cup {o} \subseteq Begun'
    BY <1>t, <2>2 DEF Begun
  <2>. QED
    BY <1>1, <1>t, <2>1, <2>2, <2>5, <2>6, <2>7, PortChanges
<1>. QED
  BY <1>2, <1>3

\* The host hears an answer, and goes on with the operation or with terminate.
LEMMA PortsReceive ==
    ASSUME PoolInv, PortsInv, NEW c \in DOMAIN workers, Receive(c)
    PROVE  PortsInv'
<1> DEFINE w == workers[c]
           r == Head(w.outbox)
           heard == [w EXCEPT !.outbox = Tail(@), !.pending = @ \ {r}]
<1>t. /\ Typed /\ ActiveCounts /\ PendingIsCharged
      /\ op \in [Op -> Waiting \cup Resting] /\ closed' = closed
  BY DEF PoolInv, Placed, Charged, Typed, Receive
<1>1. /\ w \in Worker /\ Orderly(w) /\ OpsOf(w) \subseteq Begun
      /\ w.outbox # <<>> /\ w.outbox \in Seq(Request)
  BY <1>t, Indices DEF Receive, PortsInv, Typed, Worker
<1>2. /\ r \in Request /\ heard \in Worker
      /\ heard.inbox = w.inbox /\ heard.outbox = Tail(w.outbox)
      /\ heard.pending = w.pending \ {r} /\ heard.closing = w.closing
      /\ heard.isDead = w.isDead /\ heard.thread = w.thread
  <2>1. r \in Request /\ Tail(w.outbox) \in Seq(Request)
    BY <1>1, HeadTailProperties
  <2>. QED
    BY <1>1, <2>1 DEF Worker
<1>r. /\ \/ r \notin w.pending \/ r = CloseRequest
         \/ r \in w.pending /\ r.op \in Op /\ r.op # None
      /\ \/ /\ r \notin w.pending \/ r = CloseRequest
            /\ workers' = [workers EXCEPT ![c] =
                              IF r \in w.pending THEN Terminated(heard) ELSE heard]
            /\ op' = op
         \/ /\ r \in w.pending /\ r.kind = "init"
            /\ workers' = [workers EXCEPT ![c] = Sent(heard, RequestOf(r.op))]
            /\ op' = [op EXCEPT ![r.op].state = "sent"]
         \/ /\ r \in w.pending /\ r.kind = "op"
            /\ workers' = [workers EXCEPT ![c] = heard]
            /\ Settle({r.op})
  BY <1>2, Requests DEF Receive
<1> HIDE DEF heard, r
<1>3. Orderly(heard) /\ OpsOf(heard) \subseteq Begun
  <2>1. heard.outbox = Tail(w.outbox) /\ heard.pending = w.pending \ {Head(w.outbox)}
    BY <1>2 DEF r
  <2>. QED
    BY <1>1, <1>2, <2>1, PortIsHeard
<1>4. CASE /\ workers' = [workers EXCEPT ![c] =
                             IF r \in w.pending THEN Terminated(heard) ELSE heard]
           /\ op' = op
  <2>1. heard.isDead => heard.thread \in {"exited", "crashed"}
    BY <1>3 DEF Orderly
  <2>2. /\ Terminated(heard) \in Worker /\ Terminated(heard).closing = w.closing
        /\ Terminated(heard).inbox = heard.inbox /\ Terminated(heard).outbox = heard.outbox
        /\ Terminated(heard).pending = heard.pending
        /\ Terminated(heard).isDead = heard.isDead
        /\ Terminated(heard).isDead => Terminated(heard).thread \in {"exited", "crashed"}
    BY <1>2, <2>1 DEF Terminated, Worker
  <2>3. Orderly(Terminated(heard)) /\ OpsOf(Terminated(heard)) = OpsOf(heard)
    BY <1>2, <1>3, <2>2, PortStays
  <2>4. Begun' = Begun
    BY <1>4 DEF Begun
  <2> HIDE DEF w
  <2>5. CASE r \in w.pending
    BY <1>t, <1>3, <1>4, <2>2, <2>3, <2>4, <2>5, PortChanges DEF w
  <2>6. CASE r \notin w.pending
    BY <1>t, <1>2, <1>3, <1>4, <2>4, <2>6, PortChanges DEF w
  <2>. QED
    BY <2>5, <2>6
<1>5. CASE /\ r \in w.pending /\ r.kind = "init"
           /\ workers' = [workers EXCEPT ![c] = Sent(heard, RequestOf(r.op))]
           /\ op' = [op EXCEPT ![r.op].state = "sent"]
  <2>1. r.op \in Op /\ r.op # None
    BY <1>2, <1>5, Requests DEF CloseRequest
  <2>2. op[r.op] = [state |-> "init", path |-> w.path]
    BY <1>t, <1>5, <2>1 DEF PendingIsCharged, StageOf
  <2>3. r.op \notin Begun
    BY <2>2 DEF Begun
  <2>4. RequestOf(r.op) \in Request /\ RequestOf(r.op).op = r.op
    BY <2>1, Requests
  <2>5. /\ Orderly(Sent(heard, RequestOf(r.op)))
        /\ OpsOf(Sent(heard, RequestOf(r.op))) \subseteq Begun \cup {r.op}
    BY <1>2, <1>3, <2>3, <2>4, PortSends
  <2>6. Sent(heard, RequestOf(r.op)) \in Worker
        /\ Sent(heard, RequestOf(r.op)).closing = w.closing
    BY <1>2, <2>4, Sends
  <2>7. Begun \cup {r.op} \subseteq Begun'
    <3>1. op'[r.op].state = "sent" /\ \A x \in Op \ {r.op} : op'[x] = op[x]
      BY <1>t, <1>5, <2>1, <2>2
    <3>. QED
      BY <2>1, <3>1 DEF Begun
  <2> HIDE DEF w
  <2>. QED
    BY <1>t, <1>5, <2>5, <2>6, <2>7, PortChanges DEF w
<1>6. CASE /\ r \in w.pending /\ r.kind = "op"
           /\ workers' = [workers EXCEPT ![c] = heard]
           /\ Settle({r.op})
  <2>1. r.op \in Op
    BY <1>2, <1>6, Requests DEF CloseRequest
  <2>2. op'[r.op].state = "settled" /\ \A x \in Op \ {r.op} : op'[x] = op[x]
    BY <1>t, <1>6, <2>1, SettlesCounted
  <2>3. Begun \subseteq Begun'
    BY <2>2 DEF Begun
  <2> HIDE DEF w
  <2>. QED
    BY <1>t, <1>2, <1>3, <1>6, <2>3, PortChanges DEF w
<1>. QED
  BY <1>r, <1>4, <1>5, <1>6

\* Closing the workers of some paths.
LEMMA PortsClose ==
    ASSUME PoolInv, PortsInv, NEW paths \in SUBSET Path, NEW why \in {"unused", "all"},
           workers' = ClosedAmong(paths, why), op' = op, closed => closed',
           why = "all" => closed'
    PROVE  PortsInv'
<1>t. Typed /\ \A c \in DOMAIN workers : workers[c] \in Worker
  BY Indices DEF PoolInv, Placed, Typed
<1>1. /\ DOMAIN workers' = DOMAIN workers
      /\ \A c \in DOMAIN workers :
            workers'[c] = IF \E p \in paths : pool[p] = c
                          THEN Closing(workers[c], why) ELSE workers[c]
  BY <1>t, ClosesAmong
<1>2. Begun' = Begun
  BY DEF Begun
<1>3. ASSUME NEW c \in DOMAIN workers
      PROVE  /\ Orderly(workers'[c]) /\ OpsOf(workers'[c]) \subseteq Begun'
             /\ workers'[c].closing = "all" => closed'
  BY <1>t, <1>1, <1>2, PortCloses, Closes DEF PortsInv
<1>4. PortsInv' = \A c \in DOMAIN workers' :
         /\ Orderly(workers'[c]) /\ OpsOf(workers'[c]) \subseteq Begun'
         /\ workers'[c].closing = "all" => closed'
  BY DEF PortsInv, Orderly, OpsOf, InBox, OutBox
<1>. QED
  BY <1>1, <1>3, <1>4

LEMMA PortsNext == PoolInv /\ PortsInv /\ [Next]_vars => PortsInv'
<1> SUFFICES ASSUME PoolInv, PortsInv, [Next]_vars PROVE PortsInv'
  OBVIOUS
<1>t. /\ Typed /\ ActiveCounts
      /\ \A c \in DOMAIN workers : workers[c] \in Worker /\ Orderly(workers[c])
                                   /\ OpsOf(workers[c]) \subseteq Begun
  BY Indices DEF PoolInv, Placed, Charged, Typed, PortsInv
<1>1. ASSUME NEW o \in Op, NEW p \in Path, StartOp(o, p) PROVE PortsInv'
  BY <1>1, PortsStart
<1>2. ASSUME NEW c \in DOMAIN workers, NEW throws \in BOOLEAN, Handle(c, throws)
      PROVE  PortsInv'
  <2> DEFINE w == workers[c]
             next == [w EXCEPT
                !.inbox = Tail(@),
                !.outbox = Append(@, Head(w.inbox)),
                !.thread = IF Head(w.inbox) = CloseRequest /\ ~throws THEN "closed" ELSE @]
  <2>1. /\ w \in Worker /\ Orderly(w) /\ w.inbox # <<>>
        /\ w.inbox \in Seq(Request) /\ w.outbox \in Seq(Request)
        /\ w.thread \in {"live", "terminated"}
        /\ workers' = [workers EXCEPT ![c] = next]
        /\ op' = op /\ closed' = closed
    BY <1>2, <1>t DEF Handle, Worker
  <2>2. /\ next \in Worker /\ next.inbox = Tail(w.inbox)
        /\ next.outbox = Append(w.outbox, Head(w.inbox))
        /\ next.pending = w.pending /\ next.isDead = w.isDead /\ next.closing = w.closing
    <3>1. /\ Tail(w.inbox) \in Seq(Request) /\ Head(w.inbox) \in Request
          /\ Append(w.outbox, Head(w.inbox)) \in Seq(Request)
      BY <2>1, HeadTailProperties, AppendProperties
    <3>. QED
      BY <2>1, <3>1 DEF Worker
  <2>3. ~w.isDead
    BY <2>1 DEF Orderly
  <2> HIDE DEF next, w
  <2>4. Orderly(next) /\ OpsOf(next) \subseteq OpsOf(w)
    BY <2>1, <2>2, <2>3, PortAnswers
  <2>5. Begun' = Begun /\ OpsOf(w) \subseteq Begun
    BY <1>t, <2>1 DEF Begun, w
  <2>. QED
    BY <1>t, <2>1, <2>2, <2>4, <2>5, PortChanges DEF w
<1>3. ASSUME NEW c \in DOMAIN workers, ThreadExits(c) \/ ThreadCrashes(c) PROVE PortsInv'
  <2>1. PICK t \in {"exited", "crashed"} : workers' = [workers EXCEPT ![c].thread = t]
    BY <1>3 DEF ThreadExits, ThreadCrashes
  <2> DEFINE next == [workers[c] EXCEPT !.thread = t]
  <2>2. /\ next \in Worker /\ next.thread = t
        /\ next.inbox = workers[c].inbox /\ next.outbox = workers[c].outbox
        /\ next.isDead = workers[c].isDead /\ next.closing = workers[c].closing
        /\ next.pending = workers[c].pending
    BY <1>t DEF Worker
  <2>3. workers' = [workers EXCEPT ![c] = next] /\ op' = op /\ closed' = closed
    BY <1>3, <2>1 DEF ThreadExits, ThreadCrashes
  <2> HIDE DEF next
  <2>4. Orderly(next) /\ OpsOf(next) = OpsOf(workers[c])
    BY <1>t, <2>2, PortStays
  <2>5. Begun' = Begun
    BY <2>3 DEF Begun
  <2>. QED
    BY <1>t, <2>2, <2>3, <2>4, <2>5, PortChanges
<1>4. ASSUME NEW c \in DOMAIN workers, Receive(c) PROVE PortsInv'
  BY <1>4, PortsReceive
<1>5. ASSUME NEW c \in DOMAIN workers, Die(c) PROVE PortsInv'
  <2> DEFINE next == [workers[c] EXCEPT !.isDead = TRUE, !.pending = {}]
  <2>1. /\ workers' = [workers EXCEPT ![c] = next] /\ Settle(Rejected(c))
        /\ closed' = closed /\ workers[c].thread \in {"exited", "crashed"}
    BY <1>5 DEF Die
  <2>2. /\ next \in Worker /\ next.isDead /\ next.thread = workers[c].thread
        /\ next.inbox = workers[c].inbox /\ next.outbox = workers[c].outbox
        /\ next.closing = workers[c].closing
    BY <1>t DEF Worker
  <2> HIDE DEF next
  <2>3. Orderly(next) /\ OpsOf(next) = OpsOf(workers[c])
    BY <1>t, <2>1, <2>2, PortStays
  <2>4. Rejected(c) \in SUBSET Op
    BY <1>t, Requests DEF Rejected, Worker
  <2>5. Begun \subseteq Begun'
    BY <1>t, <2>1, <2>4, SettlesCounted DEF Begun
  <2>. QED
    BY <1>t, <2>1, <2>2, <2>3, <2>5, PortChanges
<1>6. ASSUME NEW idle \in SUBSET Path, SweepIdle(idle) PROVE PortsInv'
  BY <1>6, PortsClose DEF SweepIdle
<1>7. CASE CloseAll
  BY <1>7, PortsClose DEF CloseAll
<1>8. CASE UNCHANGED vars
  BY <1>8 DEF vars, PortsInv, Orderly, OpsOf, InBox, OutBox, Begun
<1>. QED
  BY <1>1, <1>2, <1>3, <1>4, <1>5, <1>6, <1>7, <1>8 DEF Next

LEMMA PortsInvariant == Spec => [](PoolInv /\ PortsInv)
<1>1. Init => PoolInv /\ PortsInv
  BY PoolInit, PortsInit
<1>2. (PoolInv /\ PortsInv) /\ [Next]_vars => (PoolInv /\ PortsInv)'
  BY PoolNext, PortsNext
<1>. QED
  BY <1>1, <1>2, PTL DEF Spec

\* Before closeAll a thread with an operation to run is the pool's own.
LEMMA RunningIsPooled ==
    ASSUME PoolInv, PortsInv, ~closed, NEW c \in DOMAIN workers, HasOperation(c)
    PROVE  pool[workers[c].path] = c
<1>1. /\ workers[c] \in Worker /\ Orderly(workers[c])
      /\ workers[c].closing = "all" => closed
      /\ EveryWorkerIsFound /\ BusyIsNotEvicted
  BY Indices DEF PoolInv, Placed, Typed, PortsInv
<1>2. PICK i \in DOMAIN workers[c].inbox : workers[c].inbox[i].kind = "op"
  BY DEF HasOperation
<1>3. ~workers[c].isDead /\ workers[c].inbox[i] \in workers[c].pending
  BY <1>1, <1>2 DEF HasOperation, Orderly, InBox
<1>4. workers[c].closing # "unused"
  BY <1>1, <1>2, <1>3 DEF BusyIsNotEvicted, CloseRequest
<1>5. workers[c].closing = "no"
  BY <1>1, <1>4 DEF Worker
<1>. QED
  BY <1>1, <1>3, <1>5 DEF EveryWorkerIsFound

-----------------------------------------------------------------------------
(* What the pool keeps to.                                                 *)

\* Every variable keeps its type, and no path is retained by more operations
\* than there are (TypeOK).
THEOREM PoolTypes == Spec => []TypeOK
<1>1. PoolInv /\ CapInv => TypeOK
  <2> SUFFICES ASSUME PoolInv, CapInv PROVE TypeOK
    OBVIOUS
  <2>1. Typed /\ PooledIsOpen /\ ActiveCounts /\ Bounded
    BY DEF PoolInv, Placed, Charged, CapInv
  <2>2. active \in [Path -> 0..Cardinality(Op)]
    <3>1. \A p \in Path : Cardinality(On(p)) <= Cardinality(Op) /\ Cardinality(Op) \in Nat
      BY PoolAssumption, FS_Subset, FS_CardinalityType DEF On
    <3>. QED
      BY <2>1, <3>1 DEF Typed, ActiveCounts
  <2>3. \A p \in Path : pool[p] # 0 => workers[pool[p]].path = p /\ ~workers[pool[p]].isDead
    BY <2>1 DEF PooledIsOpen
  <2>. QED
    BY <2>1, <2>2, <2>3 DEF TypeOK, Typed, Bounded, Waiting, Resting
<1>. QED
  BY <1>1, CapInvariant, PTL

\* The pool outgrows maxWorkers only as far as paths were in use at once, for
\* every size of the pool and every order of operations, evictions, sweeps and
\* crashes (CapFollowsDemand).
THEOREM PoolFollowsDemand == Spec => []CapFollowsDemand
<1>1. CapInv => CapFollowsDemand
  BY DEF CapInv
<1>. QED
  BY <1>1, CapInvariant, PTL

\* A thread that has not died is in the pool or being closed, and the idle sweep
\* runs exactly while the pool has a worker, for every set of databases and
\* operations (NoWorkerIsLost).
THEOREM NoWorkerIsEverLost == Spec => []NoWorkerIsLost
<1>1. PoolInv => NoWorkerIsLost
  BY DEF PoolInv, Placed, NoWorkerIsLost
<1>. QED
  BY <1>1, PoolInvariant, PTL

\* A worker that is closed as idle or for room has no request of an operation,
\* and until closeAll no database has two threads with operations to run on it,
\* whatever is evicted, swept or dies in between (EvictionIsSafe).
THEOREM EvictionIsAlwaysSafe == Spec => []EvictionIsSafe
<1>1. PoolInv /\ PortsInv => EvictionIsSafe
  <2> SUFFICES ASSUME PoolInv, PortsInv PROVE EvictionIsSafe
    OBVIOUS
  <2>1. BusyIsNotEvicted
    BY DEF PoolInv
  <2>2. OneWriterPerPath
    BY RunningIsPooled DEF OneWriterPerPath
  <2>. QED
    BY <2>1, <2>2 DEF EvictionIsSafe
<1>. QED
  BY <1>1, PortsInvariant, PTL

\* An operation that waits has its request on a worker that is not dead, so its
\* answer or that worker's death will settle it (WaitingIsHeld).
THEOREM WaitingIsAlwaysHeld == Spec => []WaitingIsHeld
<1>1. PoolInv => WaitingIsHeld
  BY DEF PoolInv
<1>. QED
  BY <1>1, PoolInvariant, PTL
=============================================================================
