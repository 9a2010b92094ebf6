-------------------------- MODULE ValidationTasks --------------------------
(***************************************************************************)
(* The validation cloud (source/validation-cloud): the task table, its     *)
(* runs, events and artifacts in SQLite (task-store.ts), the HTTP          *)
(* operations that change them (http-server.ts), the one worker that runs  *)
(* tasks (worker.ts) and the driver that executes a run, in a container or *)
(* in the service's own process (docker-vcoder-driver.ts,                  *)
(* vcoder-driver.ts), with the process around them: it may crash at any    *)
(* moment, be shut down, and restart (main.ts).                            *)
(*                                                                         *)
(* Every store operation is one BEGIN IMMEDIATE ... COMMIT transaction of  *)
(* a synchronous library, so a step is one JavaScript job: what the worker *)
(* does between two awaits.  A request that repeats a requestId returns    *)
(* the stored task and changes nothing, so a task is its requestId.        *)
(* Versions, timestamps, details and error classes are left out: two tasks *)
(* accepted in the same millisecond are claimed in the order of their ids, *)
(* here in the order in which they arrived.                                *)
(***************************************************************************)
EXTENDS Naturals, Sequences, FiniteSets, SequencesExt

CONSTANTS Task,         \* the tasks clients may submit
          Artifact,     \* the files a complete delivery consists of
          Driver,       \* "docker" or "in-process"
          None,         \* no task
          MaxRestarts,  \* bound on crashes and shutdowns
          MaxFaults     \* bound on store transactions that throw

ASSUME ValidationAssumption ==
    /\ Driver \in {"docker", "in-process"}
    /\ None \notin Task
    /\ MaxRestarts \in Nat
    /\ MaxFaults \in Nat

VARIABLES
    \* the database
    status,    \* validation_tasks.status, "none" before the task exists
    arrivals,  \* the tasks in the order of accepted_at
    runs,      \* validation_runs.status, by task and attempt
    log,       \* validation_task_events that tell of the task's status
    kept,      \* validation_artifacts
    \* the worker
    phase,     \* what runClaimed awaits
    job,       \* the entry of the active map
    aborted,   \* signal.aborted of its controller
    heard,     \* has the driver's abort listener run?
    todo,      \* artifacts whose stat is still to come
    \* the world
    proc,      \* the service process
    sessions,  \* the tasks whose VCoder session is executing
    restarts, faults,
    givenUp    \* tasks whose run the worker dropped on a store fault
               \* (for the properties only)

rows == <<status, runs, log>>
database == <<rows, arrivals, kept>>
worker == <<phase, job, aborted, heard, todo>>
world == <<proc, sessions, restarts, faults, givenUp>>
vars == <<database, worker, world>>

Ended == {"delivered", "failed", "cancelled", "interrupted"}
Underway == {"preparing", "running", "stopping"}
Status == {"accepted"} \cup Underway \cup Ended
RunStatus == {"preparing", "running"} \cup Ended
EventType == {"task.accepted", "run.started", "run.stage_changed",
              "stop.requested", "run.finished", "run.interrupted"}
Phase == {"idle", "preparing", "launching", "executing", "recording",
          "gathering", "keeping"}

TypeOK ==
    /\ status \in [Task -> Status \cup {"none"}]
    /\ arrivals \in Seq(Task)
    /\ runs \in [Task -> Seq(RunStatus)]
    /\ log \in [Task -> Seq([type : EventType, to : Status])]
    /\ kept \in [Task -> SUBSET Artifact]
    /\ phase \in Phase
    /\ job \in Task \cup {None}
    /\ aborted \in BOOLEAN /\ heard \in BOOLEAN
    /\ todo \in SUBSET Artifact
    /\ proc \in {"up", "disposing", "stopped", "crashed", "recovering"}
    /\ sessions \in SUBSET Task
    /\ restarts \in 0..MaxRestarts
    /\ faults \in 0..MaxFaults
    /\ givenUp \in SUBSET Task
    /\ job = None <=> phase = "idle"

Init ==
    /\ status = [t \in Task |-> "none"]
    /\ arrivals = <<>>
    /\ runs = [t \in Task |-> <<>>]
    /\ log = [t \in Task |-> <<>>]
    /\ kept = [t \in Task |-> {}]
    /\ phase = "idle" /\ job = None
    /\ aborted = FALSE /\ heard = FALSE
    /\ todo = {}
    /\ proc = "up"
    /\ sessions = {}
    /\ restarts = 0 /\ faults = 0
    /\ givenUp = {}

-----------------------------------------------------------------------------
(* The store.                                                              *)

Logged(t, type, to) == [log EXCEPT ![t] = Append(@, [type |-> type, to |-> to])]

LastRun(t) == runs[t][Len(runs[t])]
WithLastRun(t, s) == [runs EXCEPT ![t][Len(runs[t])] = s]

\* claimNextTask takes the oldest accepted task.
OldestAccepted(t) ==
    \E i \in DOMAIN arrivals :
        /\ arrivals[i] = t
        /\ status[t] = "accepted"
        /\ \A j \in 1..(i - 1) : status[arrivals[j]] # "accepted"

AcceptedOutcome(t, outcome) == outcome
ResolvedOutcome(t, outcome) ==
    IF status[t] = "stopping" /\ outcome = "delivered" THEN "cancelled" ELSE outcome

FinishRunWithOutcome(t, outcome) ==
    LET resolved == ResolvedOutcome(t, outcome) IN
    /\ runs' = WithLastRun(t, outcome)
    /\ status' = [status EXCEPT ![t] = resolved]
    /\ log' = Logged(t, "run.finished", resolved)
FinishRun(t, outcome) ==
    LET resolved == ResolvedOutcome(t, outcome) IN
    IF LastRun(t) \in Ended THEN UNCHANGED rows
    ELSE /\ runs' = WithLastRun(t, resolved)
         /\ status' = [status EXCEPT ![t] = resolved]
         /\ log' = Logged(t, "run.finished", resolved)

\* createTask for a requestId that is not in the table.
CreateTask(t) ==
    /\ proc = "up"
    /\ status[t] = "none"
    /\ status' = [status EXCEPT ![t] = "accepted"]
    /\ arrivals' = Append(arrivals, t)
    /\ log' = Logged(t, "task.accepted", "accepted")
    /\ UNCHANGED <<runs, kept, worker, world>>

-----------------------------------------------------------------------------
(* Stopping a run: its AbortController, and who listens to it.             *)

\* The docker driver awaits two file operations before it adds its abort
\* listener (docker-vcoder-driver.ts 50-52, 103), and a listener added to a
\* signal that is already aborted is never called.
ListeningWhilePreparing == phase = "preparing"
Listening == phase \in {"preparing", "executing"}

Abort ==
    /\ aborted' = (job # None)
    /\ heard' = (heard \/ (Listening /\ ~aborted))

StopTarget(s) == IF s = "accepted" THEN "cancelled" ELSE "stopping"

StoppableUnlessStopping(s) == s \notin {"none", "stopping"}
Stoppable(s) == s \in {"accepted", "preparing", "running"}

\* POST /api/tasks/:id/stop: requestStop, then the worker's controller.
Stop(t) ==
    /\ proc = "up"
    /\ status[t] # "none"
    /\ IF Stoppable(status[t])
       THEN /\ status' = [status EXCEPT ![t] = StopTarget(@)]
            /\ log' = Logged(t, "stop.requested", StopTarget(status[t]))
       ELSE UNCHANGED <<status, log>>
    /\ IF job = t THEN Abort ELSE UNCHANGED <<aborted, heard>>
    /\ UNCHANGED <<runs, arrivals, kept, phase, job, todo, world>>

\* The timer of limits.wallClockMinutes.
WallClock ==
    /\ job # None /\ ~aborted
    /\ Abort
    /\ UNCHANGED <<database, phase, job, todo, world>>

-----------------------------------------------------------------------------
(* The worker.                                                             *)

\* The finally of runClaimed: the active entry and the timer go.
ReleaseKeepingJob ==
    /\ phase' = "idle"
    /\ aborted' = FALSE /\ heard' = FALSE
    /\ todo' = {}
    /\ UNCHANGED job
Release ==
    /\ phase' = "idle" /\ job' = None
    /\ aborted' = FALSE /\ heard' = FALSE
    /\ todo' = {}

\* The end of the catch of runClaimed, `spent` store faults later.  When the
\* store throws here too, the error leaves runClaimed and the rows stay.
FailRun(spent) ==
    /\ Release
    /\ \/ /\ FinishRun(job, IF aborted \/ status[job] = "stopping"
                            THEN "cancelled" ELSE "failed")
          /\ faults' = faults + spent
          /\ UNCHANGED givenUp
       \/ /\ faults + spent < MaxFaults
          /\ faults' = faults + spent + 1
          /\ givenUp' = givenUp \cup {job}
          /\ UNCHANGED rows

\* The start of that catch once `prepared` is set: the docker driver looks for
\* partial artifacts, the other one cannot.
Rescue(spent) ==
    /\ faults + spent <= MaxFaults
    /\ IF Driver = "docker"
       THEN /\ phase' = "gathering"
            /\ todo' = {}
            /\ faults' = faults + spent
            /\ UNCHANGED <<rows, job, aborted, heard, givenUp>>
       ELSE FailRun(spent)

\* claimNextTask, and runClaimed up to the driver's prepare.
Claim(t) ==
    /\ proc = "up" /\ phase = "idle"
    /\ OldestAccepted(t)
    /\ status' = [status EXCEPT ![t] = "preparing"]
    /\ runs' = [runs EXCEPT ![t] = Append(@, "preparing")]
    /\ log' = [log EXCEPT ![t] = @ \o
                 <<[type |-> "run.started", to |-> "preparing"],
                   [type |-> "run.stage_changed", to |-> "preparing"]>>]
    /\ phase' = "preparing" /\ job' = t
    /\ UNCHANGED <<arrivals, kept, aborted, heard, todo, world>>

\* prepare returns; either the run stops here or markRunRunning starts it.
StoppedBeforeRunning ==
    /\ aborted \/ status[job] \in {"stopping", "cancelled"}
    /\ FinishRun(job, "cancelled")
    /\ Release
    /\ UNCHANGED <<sessions, faults, givenUp>>

MarkRunRunning ==
    /\ ~aborted /\ status[job] = "preparing" /\ LastRun(job) = "preparing"
    /\ status' = [status EXCEPT ![job] = "running"]
    /\ runs' = WithLastRun(job, "running")
    /\ log' = Logged(job, "run.stage_changed", "running")
    /\ IF Driver = "docker"
       THEN phase' = "launching" /\ UNCHANGED sessions
       ELSE phase' = "executing" /\ sessions' = sessions \cup {job}
    /\ UNCHANGED <<job, aborted, heard, todo, faults, givenUp>>

PrepareReturns ==
    /\ phase = "preparing"
    /\ \/ StoppedBeforeRunning
       \/ MarkRunRunning
       \/ Rescue(1) /\ UNCHANGED sessions
    /\ UNCHANGED <<arrivals, kept, proc, restarts>>

\* prepared is not set yet, so nothing is rescued.
PrepareThrows ==
    /\ phase = "preparing"
    /\ FailRun(0)
    /\ UNCHANGED <<arrivals, kept, proc, sessions, restarts>>

\* The docker driver has written the run's input and starts the container.
LaunchReturns ==
    /\ phase = "launching"
    /\ phase' = "executing"
    /\ sessions' = sessions \cup {job}
    /\ UNCHANGED <<database, job, aborted, heard, todo, proc, restarts, faults,
                   givenUp>>

LaunchThrows ==
    /\ phase = "launching"
    /\ Rescue(0)
    /\ UNCHANGED <<arrivals, kept, proc, sessions, restarts>>

\* The session ends with a result.  Only the in-process driver can still
\* return one after an abort, while it collects the delivery.
ExecuteReturns ==
    /\ phase = "executing"
    /\ Driver = "docker" => ~aborted
    /\ sessions' = sessions \ {job}
    /\ phase' = "recording"
    /\ todo' = Artifact
    /\ UNCHANGED <<database, job, aborted, heard, proc, restarts, faults, givenUp>>

\* The session ends without one: an error, or the answer to an abort.
RejectAtAbort ==
    /\ phase = "executing"
    /\ sessions' = IF aborted THEN sessions ELSE sessions \ {job}
    /\ Rescue(0)
    /\ UNCHANGED <<arrivals, kept, proc, restarts>>
ExecuteThrows ==
    /\ phase = "executing"
    /\ sessions' = sessions \ {job}
    /\ Rescue(0)
    /\ UNCHANGED <<arrivals, kept, proc, restarts>>

\* recordArtifact for the next file of the result; after the last one the run
\* is finished in the same job.
Keep(a) == kept' = [kept EXCEPT ![job] = @ \cup {a}]

RecordArtifact(a) ==
    /\ phase = "recording" /\ a \in todo
    /\ Keep(a)
    /\ \/ /\ todo # {a}
          /\ todo' = todo \ {a}
          /\ UNCHANGED <<rows, phase, job, aborted, heard, faults, givenUp>>
       \/ /\ todo = {a}
          /\ FinishRun(job, "delivered")
          /\ Release
          /\ UNCHANGED <<faults, givenUp>>
       \/ /\ todo = {a} \* finishRun throws
          /\ Rescue(1)
    /\ UNCHANGED <<arrivals, proc, sessions, restarts>>

\* The file is too large or cannot be read, or recordArtifact throws.
OversizeIsSkipped(a) ==
    /\ phase = "recording" /\ a \in todo
    /\ IF todo = {a} THEN FinishRun(job, "delivered") /\ Release
       ELSE todo' = todo \ {a} /\ UNCHANGED <<rows, phase, job, aborted, heard>>
    /\ UNCHANGED <<arrivals, kept, proc, sessions, restarts, faults, givenUp>>
ArtifactIsRefused(a) ==
    /\ phase = "recording" /\ a \in todo
    /\ Rescue(0) \/ Rescue(1)
    /\ UNCHANGED <<arrivals, kept, proc, sessions, restarts>>

\* collectPartialArtifacts lists the files the run left behind.
GatherReturns(found) ==
    /\ phase = "gathering"
    /\ IF found \subseteq kept[job]
       THEN FailRun(0)
       ELSE /\ phase' = "keeping"
            /\ todo' = found \ kept[job]
            /\ UNCHANGED <<rows, job, aborted, heard, faults, givenUp>>
    /\ UNCHANGED <<arrivals, kept, proc, sessions, restarts>>

\* A partial artifact is recorded, or skipped for its size.
KeepPartial(a) ==
    /\ phase = "keeping" /\ a \in todo
    /\ Keep(a) \/ UNCHANGED kept
    /\ IF todo = {a}
       THEN FailRun(0)
       ELSE /\ todo' = todo \ {a}
            /\ UNCHANGED <<rows, phase, job, aborted, heard, faults, givenUp>>
    /\ UNCHANGED <<arrivals, proc, sessions, restarts>>

\* Listing, stat or recording throws: reported, and the run is finished.
PartialFails ==
    /\ phase \in {"gathering", "keeping"}
    /\ FailRun(0)
    /\ UNCHANGED <<arrivals, kept, proc, sessions, restarts>>

-----------------------------------------------------------------------------
(* The process.                                                            *)

\* A container outlives the service; a session in its process does not.
Crash ==
    /\ proc \notin {"stopped", "crashed"}
    /\ restarts < MaxRestarts
    /\ restarts' = restarts + 1
    /\ proc' = "crashed"
    /\ Release
    /\ sessions' = IF Driver = "docker" THEN sessions ELSE {}
    /\ UNCHANGED <<database, faults, givenUp>>

\* SIGTERM: the server is closed, then the worker is disposed.
Shutdown ==
    /\ proc = "up"
    /\ restarts < MaxRestarts
    /\ restarts' = restarts + 1
    /\ proc' = "disposing"
    /\ Abort
    /\ UNCHANGED <<database, phase, job, todo, sessions, faults, givenUp>>

Exit ==
    /\ proc = "disposing" /\ phase = "idle"
    /\ proc' = "stopped"
    /\ UNCHANGED <<database, worker, sessions, restarts, faults, givenUp>>

Restart ==
    /\ proc \in {"stopped", "crashed"}
    /\ proc' = "recovering"
    /\ UNCHANGED <<database, worker, sessions, restarts, faults, givenUp>>

\* recoverInterruptedTasks, one transaction for each task it selects.
OnlyUnstopped == {"preparing", "running"}
Recoverable == {"preparing", "running", "stopping"}

RecoverTask(t) ==
    /\ proc = "recovering"
    /\ status[t] \in Recoverable
    /\ IF runs[t] # <<>> /\ LastRun(t) \notin Ended
       THEN FinishRun(t, "interrupted")
       ELSE /\ status' = [status EXCEPT ![t] = "interrupted"]
            /\ log' = Logged(t, "run.interrupted", "interrupted")
            /\ UNCHANGED runs
    /\ givenUp' = givenUp \ {t}
    /\ UNCHANGED <<arrivals, kept, worker, proc, sessions, restarts, faults>>

Serve ==
    /\ proc = "recovering"
    /\ \A t \in Task : status[t] \notin Recoverable
    /\ proc' = "up"
    /\ UNCHANGED <<database, worker, sessions, restarts, faults, givenUp>>

\* A container the service no longer knows of ends by itself.
OrphanEnds(t) ==
    /\ t \in sessions /\ t # job
    /\ sessions' = sessions \ {t}
    /\ UNCHANGED <<database, worker, proc, restarts, faults, givenUp>>

-----------------------------------------------------------------------------
Next ==
    \/ \E t \in Task : CreateTask(t) \/ Stop(t) \/ Claim(t)
    \/ WallClock
    \/ PrepareReturns \/ PrepareThrows
    \/ LaunchReturns \/ LaunchThrows
    \/ ExecuteReturns \/ ExecuteThrows
    \/ \E a \in Artifact : RecordArtifact(a) \/ ArtifactIsRefused(a) \/ KeepPartial(a)
    \/ \E found \in SUBSET Artifact : GatherReturns(found)
    \/ PartialFails
    \/ Crash \/ Shutdown \/ Exit \/ Restart \/ Serve
    \/ \E t \in Task : RecoverTask(t) \/ OrphanEnds(t)

Spec == Init /\ [][Next]_vars

\* The worker's own awaits end: file operations, and commands that a listener
\* has told to stop.  Timers fire, and a service that crashed is started again
\* (deploy/validation-cloud/validation-cloud.service: Restart=on-failure), but
\* not one that was shut down.  Nothing is assumed of a session or a git
\* command that nobody stops.
Fairness ==
    /\ \A t \in Task : WF_vars(Claim(t)) /\ WF_vars(RecoverTask(t))
    /\ WF_vars(aborted /\ (PrepareReturns \/ PrepareThrows))
    /\ WF_vars(LaunchReturns \/ LaunchThrows)
    /\ WF_vars(heard /\ ExecuteThrows)
    /\ WF_vars(\E a \in Artifact : RecordArtifact(a) \/ KeepPartial(a))
    /\ WF_vars(\E found \in SUBSET Artifact : GatherReturns(found))
    /\ WF_vars(WallClock)
    /\ WF_vars(Exit) /\ WF_vars(proc = "crashed" /\ Restart) /\ WF_vars(Serve)

FairSpec == Spec /\ Fairness

-----------------------------------------------------------------------------
(* Safety.                                                                 *)

\* The two tables agree at every commit: a task has at most one run that has
\* not ended, it is the last one, and it exists exactly while the task is
\* underway; otherwise the task has the outcome of its last run
\* (task-store.ts 391-400, 437-438, 478-487).
RunMatchesTask ==
    \A t \in Task :
        /\ \A i \in 1..(Len(runs[t]) - 1) : runs[t][i] \in Ended
        /\ status[t] \in Underway =>
              /\ runs[t] # <<>>
              /\ LastRun(t) \in {"preparing", "running"}
              /\ status[t] # "stopping" => LastRun(t) = status[t]
        /\ status[t] \in {"none", "accepted"} => runs[t] = <<>>
        /\ status[t] \in Ended /\ runs[t] # <<>> => LastRun(t) = status[t]

\* A task that is underway has somebody who will end it: the worker that holds
\* it, or the recovery after a crash; a shutdown leaves none.  Only a store
\* fault makes the worker drop one (worker.ts 94-96, 209-218, task-store.ts 590-609).
ActiveIsOwned ==
    \A t \in Task :
        status[t] \in Underway =>
            job = t \/ t \in givenUp \/ proc \in {"crashed", "recovering"}

Stopped(t) == \E i \in DOMAIN log[t] : log[t][i].type = "stop.requested"

\* Once a stop is recorded the task ends cancelled or interrupted: no result
\* that arrives late and no error delivers or fails it
\* (task-store.ts 476, worker.ts 209-214).
StopWins ==
    \A t \in Task :
        Stopped(t) => status[t] \in {"stopping", "cancelled", "interrupted"}

\* A client that replays the event log arrives at the task's status, and reads
\* nothing after the event that ended it (task-store.ts 401-410, 439-443,
\* 488-494, 576-579).
LogTellsStatus ==
    \A t \in Task :
        /\ log[t] # <<>> <=> status[t] # "none"
        /\ log[t] # <<>> => Last(log[t]).to = status[t]
        /\ \A i \in 1..(Len(log[t]) - 1) : log[t][i].to \notin Ended

\* The three tables tell one story at every commit.
TablesAgree == RunMatchesTask /\ LogTellsStatus

\* A task is shown as ended by the worker only when its session has ended
\* (worker.ts 159-166, docker-vcoder-driver.ts 105-108).
EndedMeansStopped ==
    \A t \in Task : status[t] \in {"delivered", "failed", "cancelled"} => t \notin sessions

\* Every file of the result of a delivered task can be downloaded
\* (worker.ts 168-182).
DeliveredIsComplete ==
    \A t \in Task : status[t] = "delivered" => kept[t] = Artifact

-----------------------------------------------------------------------------
(* Refinement.                                                             *)

\* The service keeps what TaskLifecycle promises its clients: a task that has
\* ended is never reopened, given another outcome or more files, a recorded stop
\* is final, and a delivery is complete, whatever the worker, the store faults,
\* the crashes and the recoveries do (task-store.ts 472-476, 561-564).
StageOf(t) ==
    IF status[t] = "accepted" THEN "waiting"
    ELSE IF status[t] \in Underway THEN "working" ELSE status[t]

Lifecycle == INSTANCE TaskLifecycle
    WITH stage <- [t \in Task |-> StageOf(t)],
         stopped <- {t \in Task : Stopped(t)},
         files <- kept
ImplementsLifecycle == Lifecycle!Spec

-----------------------------------------------------------------------------
(* Liveness.                                                               *)

\* With a driver that always hears an abort, every accepted task ends, unless
\* a store fault made the worker drop it or the service stays shut down
\* (worker.ts 106-127, 134-137).
EveryTaskEnds ==
    \A t \in Task :
        status[t] = "accepted"
            ~> (status[t] \in Ended \/ t \in givenUp \/ [](proc = "stopped"))

-----------------------------------------------------------------------------
(* What the documents say and the code does not do.                        *)

\* A task whose stop is requested ends, and so does one whose wall clock has
\* run out: the container is terminated (docs/VALIDATION-SPRINT.md 43, 83).
StopIsForced ==
    \A t \in Task : status[t] = "stopping" ~> status[t] \in Ended

\* Only one task executes at any time (docs/VALIDATION-SPRINT.md 36).
OneSessionAtATime == \A s, t \in sessions : s = t
=============================================================================
