---------------------------- MODULE RunScheduler ----------------------------
(***************************************************************************)
(* The run queue of one agent: class SandRunScheduler of                   *)
(* host/extensions/transcript/run-scheduler.ts.  Tasks wait in three       *)
(* lanes, one of them is active, and a watchdog takes the agent away from  *)
(* an active run that keeps a user task waiting: the run is interrupted,   *)
(* given a grace period, and then escaped, which leaves its body running   *)
(* as a zombie while the next task starts.                                 *)
(*                                                                         *)
(* Queues of different agents share only the disposed flag, so one queue   *)
(* is enough.  A step is one JavaScript job: a call, a microtask or a      *)
(* timer callback.  A task runs at most once, so the task itself stands    *)
(* for the generation number of its run.  Time is abstracted: an armed     *)
(* timer may fire at any moment.  A watchdog that fires before its         *)
(* deadline is armed again at once (lines 318-321), which changes nothing  *)
(* here.                                                                   *)
(***************************************************************************)
EXTENDS Naturals, Sequences, SequencesExt

CONSTANTS Task,         \* the tasks callers may enqueue
          LaneOf,       \* the lane each task is enqueued in
          GroupMember,  \* the tasks whose source is "group-member"
          Drainer,      \* the callers of drain()
          None          \* no task

Lane == {"user", "agent", "background"}

ASSUME SchedulerAssumption ==
    /\ LaneOf \in [Task -> Lane]
    /\ GroupMember \subseteq Task
    /\ None \notin Task

VARIABLES
    pending,   \* pendingUser, pendingAgent and pendingBackground, by lane
    active,    \* the task of the active run
    watchdog,  \* is the watchdog timer armed?
    grace,     \* the run the armed grace timer will escape
    zombies,   \* escaped runs not yet dropped from the zombie set
    running,   \* the tasks whose body is executing
    settled,   \* the runs whose `settled` promise is resolved
    promise,   \* what the caller of enqueue holds, by task
    pumps,     \* queued microtasks that call pump
    disposed,
    drain      \* by drainer: its state, the promises it awaits, and (for the
               \* properties only) the bodies executing when it was called

vars == <<pending, active, watchdog, grace, zombies, running, settled,
          promise, pumps, disposed, drain>>

NoDrain == [state |-> "idle", runs |-> {}, items |-> {}, busy |-> {}]

TypeOK ==
    /\ pending \in [Lane -> Seq(Task)]
    /\ active \in Task \cup {None}
    /\ watchdog \in BOOLEAN
    /\ grace \in Task \cup {None}
    /\ zombies \in SUBSET Task
    /\ running \in SUBSET Task
    /\ settled \in SUBSET Task
    /\ promise \in [Task -> {"none", "pending", "resolved", "rejected"}]
    /\ pumps \in Nat
    /\ disposed \in BOOLEAN
    /\ drain \in [Drainer -> [state : {"idle", "waiting", "returned"},
                              runs  : SUBSET Task,
                              items : SUBSET Task,
                              busy  : SUBSET Task]]

Init ==
    /\ pending = [l \in Lane |-> <<>>]
    /\ active = None
    /\ watchdog = FALSE
    /\ grace = None
    /\ zombies = {}
    /\ running = {}
    /\ settled = {}
    /\ promise = [t \in Task |-> "none"]
    /\ pumps = 0
    /\ disposed = FALSE
    /\ drain = [d \in Drainer |-> NoDrain]

-----------------------------------------------------------------------------
(* Choosing the next task.                                                 *)

Queued(l) == {pending[l][i] : i \in DOMAIN pending[l]}

NothingPending == \A l \in Lane : pending[l] = <<>>

\* The first task of q that no group-member message asked for.
FirstDirect(q, i) ==
    /\ q[i] \notin GroupMember
    /\ \A j \in 1..(i - 1) : q[j] \in GroupMember

HeadFirst(q) == 1
TakeNextUserTask(q) ==
    IF \E i \in DOMAIN q : FirstDirect(q, i)
    THEN CHOOSE i \in DOMAIN q : FirstDirect(q, i)
    ELSE 1

BackgroundNext ==
    IF pending["background"] # <<>> THEN "background"
    ELSE IF pending["user"] # <<>> THEN "user" ELSE "agent"
NextLane ==
    IF pending["user"] # <<>> THEN "user"
    ELSE IF pending["agent"] # <<>> THEN "agent" ELSE "background"

NextIndex(l) == IF l = "user" THEN TakeNextUserTask(pending[l]) ELSE 1

-----------------------------------------------------------------------------
(* The pieces the operations share.                                        *)

\* armWatchdog: a user task waits behind act and neither timer is armed.
ShouldArm(act, users) == ~disposed /\ act # None /\ users # <<>>

DisarmWatchdog ==
    /\ watchdog' = FALSE
    /\ grace' = None

\* Resolving or rejecting a promise a second time has no effect.
Settle(t, outcome) ==
    [promise EXCEPT ![t] = IF @ = "pending" THEN outcome ELSE @]

\* pump with no active run: start the next task beside the given bodies.
StartWithoutRearm(bodies) ==
    LET l == NextLane
        i == NextIndex(l)
    IN  /\ active' = pending[l][i]
        /\ pending' = [pending EXCEPT ![l] = RemoveAt(@, i)]
        /\ running' = bodies \cup {pending[l][i]}
        /\ DisarmWatchdog
StartNext(bodies) ==
    LET l == NextLane
        i == NextIndex(l)
    IN  /\ active' = pending[l][i]
        /\ pending' = [pending EXCEPT ![l] = RemoveAt(@, i)]
        /\ running' = bodies \cup {pending[l][i]}
        /\ watchdog' = ShouldArm(active', pending'["user"])
        /\ grace' = None

StayIdle(bodies) ==
    /\ active' = None
    /\ running' = bodies
    /\ DisarmWatchdog
    /\ UNCHANGED pending

Pump(bodies) ==
    IF disposed \/ NothingPending THEN StayIdle(bodies) ELSE StartNext(bodies)

-----------------------------------------------------------------------------
(* The operations and the jobs they schedule.                              *)

Enqueue(t) ==
    /\ promise[t] = "none"
    /\ promise' = [promise EXCEPT ![t] = "pending"]
    /\ pending' = [pending EXCEPT ![LaneOf[t]] = Append(@, t)]
    /\ watchdog' = (watchdog \/ (grace = None /\ ShouldArm(active, pending'["user"])))
    /\ pumps' = pumps + 1
    /\ UNCHANGED <<active, grace, zombies, running, settled, disposed, drain>>

PumpMicrotask ==
    /\ pumps > 0
    /\ pumps' = pumps - 1
    /\ IF active # None
       THEN UNCHANGED <<pending, active, watchdog, grace, running>>
       ELSE Pump(running)
    /\ UNCHANGED <<zombies, settled, promise, disposed, drain>>

SettleWithoutPump(t, outcome) ==
    /\ t \in running
    /\ promise' = Settle(t, outcome)
    /\ settled' = settled \cup {t}
    /\ IF active # t
       THEN /\ running' = running \ {t}
            /\ UNCHANGED <<pending, active, watchdog, grace>>
       ELSE StayIdle(running \ {t})
    /\ UNCHANGED <<zombies, pumps, disposed, drain>>
\* The body of t ends and onTaskSettled runs: a run that was escaped before
\* only settles late, any other hands the agent to the next task.
SettleAnyRun(t, outcome) ==
    /\ t \in running
    /\ promise' = Settle(t, outcome)
    /\ settled' = settled \cup {t}
    /\ Pump(running \ {t})
    /\ UNCHANGED <<zombies, pumps, disposed, drain>>
TaskSettles(t, outcome) ==
    /\ t \in running
    /\ promise' = Settle(t, outcome)
    /\ settled' = settled \cup {t}
    /\ IF active # t
       THEN /\ running' = running \ {t}
            /\ UNCHANGED <<pending, active, watchdog, grace>>
       ELSE Pump(running \ {t})
    /\ UNCHANGED <<zombies, pumps, disposed, drain>>

\* onWatchdogFired past its deadline: interrupt the run, start its grace.
WatchdogTrips ==
    /\ watchdog
    /\ watchdog' = FALSE
    /\ grace' = IF active = None \/ pending["user"] = <<>> THEN grace ELSE active
    /\ UNCHANGED <<pending, active, zombies, running, settled, promise, pumps,
                   disposed, drain>>

EscapeUnresolved ==
    /\ grace # None
    /\ zombies' = zombies \cup {active}
    /\ Pump(running)
    /\ UNCHANGED <<promise, settled, pumps, disposed, drain>>
\* escapeWedgedRun: the caller is released, the body goes on as a zombie.
EscapeWedgedRun ==
    /\ grace # None
    /\ IF disposed \/ active # grace
       THEN /\ grace' = None
            /\ UNCHANGED <<pending, active, watchdog, zombies, running, promise>>
       ELSE /\ promise' = Settle(active, "resolved")
            /\ zombies' = zombies \cup {active}
            /\ Pump(running)
    /\ UNCHANGED <<settled, pumps, disposed, drain>>

\* The reaction registered at the escape: zombies.delete.
ForgetZombie(t) ==
    /\ t \in zombies \cap settled
    /\ zombies' = zombies \ {t}
    /\ UNCHANGED <<pending, active, watchdog, grace, running, settled, promise,
                   pumps, disposed, drain>>

ActiveUnchecked == {active}
ActiveSettled == IF active = None THEN {} ELSE {active}

ActiveOnly == ActiveSettled
AwaitedRuns == ActiveSettled \cup zombies

DrainCalled(d) ==
    /\ drain[d].state = "idle"
    /\ drain' = [drain EXCEPT ![d] =
                   [state |-> "waiting",
                    runs  |-> AwaitedRuns,
                    items |-> UNION {Queued(l) : l \in Lane},
                    busy  |-> running]]
    /\ UNCHANGED <<pending, active, watchdog, grace, zombies, running, settled,
                   promise, pumps, disposed>>

DrainReturns(d) ==
    /\ drain[d].state = "waiting"
    /\ drain[d].runs \subseteq settled
    /\ \A t \in drain[d].items : promise[t] # "pending"
    /\ drain' = [drain EXCEPT ![d].state = "returned"]
    /\ UNCHANGED <<pending, active, watchdog, grace, zombies, running, settled,
                   promise, pumps, disposed>>

DisposeKeepingTimers ==
    /\ ~disposed
    /\ disposed' = TRUE
    /\ UNCHANGED <<pending, active, watchdog, grace, zombies, running, settled,
                   promise, pumps, drain>>
Dispose ==
    /\ ~disposed
    /\ disposed' = TRUE
    /\ DisarmWatchdog
    /\ UNCHANGED <<pending, active, zombies, running, settled, promise, pumps,
                   drain>>

Next ==
    \/ \E t \in Task : Enqueue(t)
    \/ PumpMicrotask
    \/ \E t \in Task, outcome \in {"resolved", "rejected"} : TaskSettles(t, outcome)
    \/ WatchdogTrips
    \/ EscapeWedgedRun
    \/ \E t \in Task : ForgetZombie(t)
    \/ \E d \in Drainer : DrainCalled(d) \/ DrainReturns(d)
    \/ Dispose

Spec == Init /\ [][Next]_vars

\* Microtasks run before anything else and timers do fire.  Nothing is
\* assumed of the bodies: a run may hang for ever.
Fairness ==
    /\ WF_vars(PumpMicrotask)
    /\ WF_vars(WatchdogTrips)
    /\ WF_vars(EscapeWedgedRun)

FairSpec == Spec /\ Fairness

-----------------------------------------------------------------------------
(* Safety.                                                                 *)

\* At most one body owns the agent: whatever else executes was escaped by
\* the watchdog (run-scheduler.ts 341-366), and the active run is executing.
OneOwner ==
    /\ running \subseteq zombies \cup {active}
    /\ active # None => active \in running /\ active \notin zombies

\* Work never waits without something that will start it: an idle queue with
\* a waiting task has a pump queued (run-scheduler.ts 114, 199-209).
NoLostPump ==
    (~disposed /\ active = None /\ ~NothingPending) => pumps > 0

\* A user task that waits behind a run is watched: one of the two timers is
\* armed, never both, and the grace timer belongs to that run
\* (run-scheduler.ts 289-311, 336-339).
UserIsWatched ==
    /\ (~disposed /\ active # None /\ pending["user"] # <<>>)
          => (watchdog \/ grace = active)
    /\ ~(watchdog /\ grace # None)

\* The watchdog only escapes a run for the sake of a user task that still
\* waits, and never after dispose (run-scheduler.ts 314-317, 346).
EscapeHasCause ==
    (watchdog \/ grace # None) =>
        /\ ~disposed
        /\ active # None
        /\ pending["user"] # <<>>
        /\ grace \in {None, active}

\* A caller's promise is open exactly while its task waits in its own lane or
\* is active, and no task waits twice or waits once it has started: no task is
\* lost, run twice, or settled before its turn (run-scheduler.ts 92-94,
\* 203-206, 265-266, 361).
InLane(t) == t \in Queued(LaneOf[t])

LanesAreSound ==
    \A l \in Lane :
        /\ \A i, j \in DOMAIN pending[l] : pending[l][i] = pending[l][j] => i = j
        /\ \A i \in DOMAIN pending[l] : LaneOf[pending[l][i]] = l

CallersMatchQueue ==
    /\ LanesAreSound
    /\ \A t \in Task :
          /\ promise[t] = "pending" <=> (InLane(t) \/ active = t)
          /\ InLane(t) => t \notin running \cup settled \cup {active}

\* A run is executing until its settled promise resolves, the zombie set holds
\* only runs that have started, and a task that was never enqueued has no run;
\* a drainer awaits every body that executed when it called.
RunsAreAccountedFor ==
    /\ running \cap settled = {}
    /\ zombies \subseteq running \cup settled
    /\ \A t \in running \cup settled : promise[t] # "none"
    /\ \A d \in Drainer :
          /\ drain[d].busy \subseteq drain[d].runs
          /\ drain[d].state = "returned" => drain[d].runs \subseteq settled

\* When drain returns, no body that was executing when it was called still
\* executes, escaped runs included (run-scheduler.ts 121-128).
DrainWaitsForBodies ==
    \A d \in Drainer : drain[d].state = "returned" => drain[d].busy \cap running = {}

\* The conjunction that every step preserves.
IInv ==
    /\ TypeOK
    /\ OneOwner
    /\ NoLostPump
    /\ UserIsWatched
    /\ EscapeHasCause
    /\ CallersMatchQueue
    /\ RunsAreAccountedFor

-----------------------------------------------------------------------------
(* What a step may never do.                                               *)

\* After dispose no task starts, not even when the active run settles
\* (run-scheduler.ts 200, 279).
NothingStartsAfterDispose == [][disposed => running' \subseteq running]_vars

\* A direct user task is overtaken by nothing that is enqueued after it: what
\* starts while it waits is a user task that is not from a group member and
\* stood before it in the lane (run-scheduler.ts 45-51, 203-206).
Position(t) == CHOOSE i \in DOMAIN pending["user"] : pending["user"][i] = t
DirectUsersInOrder ==
    [][\A t \in Queued("user") \ GroupMember :
          \A s \in (running' \ running) \ {t} :
             /\ s \in Queued("user") \ GroupMember
             /\ Position(s) < Position(t)]_vars

-----------------------------------------------------------------------------
(* The queue implements the turns its callers may rely on.                 *)

PlaceOf(t) ==
    IF promise[t] = "none" THEN "new"
    ELSE IF active = t THEN "holding"
    ELSE IF InLane(t) THEN "waiting"
    ELSE IF t \in running THEN "abandoned" ELSE "ended"

Turns == INSTANCE AgentTurns
            WITH place <- [t \in Task |-> PlaceOf(t)], closed <- disposed

\* Every step of the queue is a step of AgentTurns or leaves it unchanged.
ImplementsTurns == Turns!Spec

-----------------------------------------------------------------------------
(* Liveness.                                                               *)

\* A direct user task is started, whatever the runs before it do: a body that
\* never ends cannot keep the agent (run-scheduler.ts 312-366).
DirectUserStarts ==
    \A t \in Task \ GroupMember :
        (t \in Queued("user")) ~> (t \in running \cup settled \/ disposed)
=============================================================================
