# A TLA+ development of VCoder

This directory holds TLA+ models of the parts of VCoder whose correctness
depends on order: which turn owns an agent, whether a prompt runs once, whether
a background task ends, whether an answer is owed or a result is told, and
which thread holds a database. Each module is translated from the TypeScript
under `source/`. TLC checks small instances; TLAPS proves theorems about seven of
the components for every value of the constants.
`PROJECT.json` maps each definition to the lines it stands for. Paths below are
relative to `source/` unless they begin with `docs/` or `deploy/`.

## 1. Inventory

`T/` stands for `host/extensions/transcript/`, `V/` for `validation-cloud/`.

| Component | State | Operations | Status |
|---|---|---|---|
| **Run scheduler** `T/run-scheduler.ts` | per agent: three lanes, the active run, watchdog and grace timers, zombie set | enqueue, pump, settle, trip, escape, drain, dispose | `RunScheduler`, `AgentTurns`, `RunSchedulerProofs` |
| **Validation store** `V/task-store.ts`, `V/model.ts` | SQLite: tasks, runs, events, artifacts | create, claim, mark running, finish, request stop, record artifact, recover | `ValidationTasks`, `TaskLifecycle`, `ValidationTasksProofs` |
| **Validation worker, service, drivers** `V/worker.ts`, `V/http-server.ts`, `V/main.ts`, `V/docker-vcoder-driver.ts`, `V/vcoder-driver.ts` | the active map with an AbortController, the container or session, the process | claim and run, stop, wall clock, rescue of partial artifacts, shutdown, recovery | `ValidationTasks` |
| **Prompt acceptance** `T/prompt-acceptance-ledger.ts`, `T/send-pipeline.ts`, `T/send-turn-dispatch.ts` | records by nonce in memory and on disk, history gaps, degraded marker, in-flight sends | send, record pending, dispatch, mark accepted, clear, evict, persist, load, dispose | `SendAcceptance`, `SendAcceptanceProofs` (one-to-one conversations) |
| **Agent database workers** `host/agent-isolation/` | connections by path, active operations, sweep timer, pending requests of each thread | operate, evict, sweep, closeAll; thread answers, exits, crashes | `AgentWorkerPool`, `AgentWorkerPoolProofs` |
| **Ack obligations** `T/ack-obligations.ts`, `T/sand-ack-obligation-store.ts` | per agent: the obligation in cache and file, a timer, the tokens of live runs | record, discharge, redrive, give up, delete, load | `AckObligations`, `AckObligationsProofs` |
| **Pending wakes, upgrade resume** `T/pending-wake-rearm.ts`, `T/sand-pending-wake-store.ts`, `T/background-wakes.ts`, `T/completion-revivals.ts`, `T/upgrade-recreate-resume.ts` | marks of background work on disk, watches and queued completions in memory, the list a rebuild carries | mark, settle, revive, rearm, quiesce, carry, restore | `PendingWakes`, `PendingWakesProofs` (background work), `AckObligations` (interrupted turns); no groups, no deletion |
| **Run lifecycle, turn runtime** `T/run-lifecycle.ts`, `T/turn-runtime.ts`, `T/runner-registry.ts` | the in-flight count, the phase of a turn, its abort | begin, interrupt, quiesce, end | in `AckObligations` and `PendingWakes`; not what a turn does |
| **Background-task panel** `desktop-tasks/panel.js`, `electron-main/background-tasks.ts` | the form, a persisted state by service, the queue of saves, submissions on their way | edit, submit, save, list, choose, open, connect | `TaskPanel`, `TaskPanelProofs`; not the details of a task |
| **Group chat, agent-to-agent** `T/group-chat-*.ts`, `T/send-group-fanout.ts` | fan-out of one message to several agents | fan out, reply, relay | not modelled yet |
| **Automations** `T/automation-*.ts` | schedules, spend | fire, guard, run | not modelled yet |
| **Box store sync** `host/extensions/box-store-sync/` | two replicas of the agent stores | push, pull, resolve | not modelled yet |
| **Gateway and coordinator** `host/gateway-server.ts`, `node-agent-coordinator/` | connection, requests in flight | connect, replay, call | not modelled yet |
| **Agent tool stream** `packages/agent/tool-stream-executor.ts` | tool calls in flight | start, stream, finish | not modelled yet |
| **Execution daemons** `box-exec-daemon/`, `local-exec-daemon/` | child processes | exec, kill | not modelled: I/O around single commands |
| **Electron main, preload** | windows, secrets | OS services | not modelled: I/O |
| **Renderer** `frontend/` | view state | rendering | not modelled |
| **Generated code** `packages/proto/generated` and the manifests | none | none | not modelled |

### How the parts interact

- A client's `sendPrompt` names a nonce. The send path asks the **acceptance
  ledger**, appends the echoes to the transcript, records the send, and enqueues
  a turn in the **run scheduler** of the agent's session.
- The scheduler calls the turn's body and gets a promise. A body reads and
  writes its conversation through the **agent database workers**, one thread
  for each database path, shared by the sessions of the host. When the
  transcript manager is disposed it closes the pool.
- Background wakes, revivals, automations and upgrades also enqueue turns, in
  the other two lanes.
- A send records an **ack obligation** for its agent before it is dispatched. A
  message of a run whose token is live discharges it; when the last run in
  flight ends without one, a timer starts a redrive.
- A run that starts background work marks a **pending wake**. The completion is
  queued for a revival, which tells the agent. A host that is rebuilt hands its
  marks to the coordinator and takes them back afterwards.
- The **task panel** talks HTTP to the **validation service**: it creates
  tasks, stops them, follows their events and downloads their artifacts. The
  service's one worker claims a task, prepares a checkout, and executes a VCoder
  session in a container or in its own process.

### What is hard

- *Runs that hang.* The scheduler takes the agent from such a run while its
  body goes on: from then on a body ends that owns nothing any more.
- *Timers beside settlements.* The watchdog, the grace timer and the wall clock
  fire around the event they wait for.
- *State read before an await.* The driver's abort listener is added after two
  awaits; the worker reads the task again after `prepare`; operations hold a path
  of the pool over several awaits; the panel's submission resumes with whatever
  state the page has by then.
- *Late answers.* A run that was superseded or escaped still sends its message,
  after a newer send has recorded what it is owed.
- *Restarts.* The ledger's file may be older than its memory; a mark is cleared
  before what it stands for is armed again; the validation service recovers what
  it left underway; containers outlive it.
- *Limits.* The ledger forgets at its cap; the pool evicts at its cap.
- *Partial failure.* The store throws while a failure is recorded; one
  artifact of several is refused; a thread crashes with requests pending; a file
  is written in memory and not on disk.

`PROJECT.json` lists the hazards one by one, each at its line, with the
properties that cover it.

## 2. The modules

### RunScheduler: one agent's queue

| Model | Code |
|---|---|
| `pending`, `active`, `watchdog`, `grace`, `zombies`, `disposed` | the fields of the agent's queue of the same names and the scheduler's `disposed` |
| `running` | the bodies that have been called and have not ended |
| `settled`, `promise` | the `settled` promise of a run, and what the caller of `enqueue` holds |
| `pumps` | microtasks queued by `enqueue` |
| `drain` | a `drain()` call between its snapshot and its return |
| `Enqueue`, `PumpMicrotask`, `TaskSettles`, `WatchdogTrips`, `EscapeWedgedRun`, `DrainCalled/Returns`, `Dispose` | one JavaScript job each |
| `ForgetZombie` | the promise reaction that deletes a zombie |

A step is one job of the event loop, so `onTaskSettled` with the `pump` it calls
is one action. Time is abstracted: an armed timer may fire whenever it is
armed. This includes every real schedule, and some that no clock produces. The
safety properties do not depend on the delays.

Queues of different agents share only the disposed flag, so one is enough. A
task is enqueued once, hence it also stands for the generation number of its run.

**AgentTurns** is what the queue promises, without timers, microtasks or
zombies: at most one holder; user before agent before background; a holder is
abandoned only to a user task that waits; nothing begins after the close.
`RunScheduler!ImplementsTurns` is the refinement, with `PlaceOf` as the mapping.

### ValidationTasks: the validation cloud

One module for the tables, the worker, the driver and the process, because its
hazards lie between them. Each store operation is one `BEGIN IMMEDIATE`
transaction of a synchronous library, so a step is what the worker does between
two awaits. `phase` names the await:

    idle -> preparing -> (launching ->) executing -> recording -> idle
               \______________\____________\____________\-> gathering -> keeping -> idle

`job`, `aborted` and `heard` are the entry of the active map, its signal, and
whether the driver's listener was called. `Listening` is the whole difference
between a listener added before and after the signal aborts. `Driver` selects
the docker or the in-process driver: the first rescues partial artifacts, has
the launch window, and its containers survive the service. `log` holds the
events that tell of the status; progress events change nothing else and are left
out. `FailRun(spent)` is the end of the catch of `runClaimed`, where the store
may throw as well; `givenUp` records the tasks it then drops.

**TaskLifecycle** is what the service promises a client, without runs, worker and
process: a task waits, is worked on once, and ends for good; a stop may be recorded
until it ends, and then it is neither delivered nor failed; a delivered task has all
its files. `ValidationTasks!ImplementsLifecycle` is the refinement. `StageOf` maps
the three statuses underway to one stage, `Stopped` reads a stop from the event
log (the only table that remembers it once the task has ended), and the files are
those kept.

### SendAcceptance: a prompt runs once

The ledger in memory, its file and marker, and `sendPrompt` between its awaits
(`building`, `sending`, `turning`). `PersistOutcomes` lists the ends `persist`
can have, with what each leaves in memory and on disk: the file renamed and the
marker removed or not, or the write failed and the marker written or not. `Ends`
forgets memory; `Load` is the first call after a start. `interrupted`, `behind`
and `blind` record which losses have happened; properties use them to say
exactly when a promise is void. Only whether there are gaps matters to `lookup`,
so the list of gaps is a Boolean.

### AgentWorkerPool: threads that hold databases

`workers` is every connection ever made, with the two directions of its message
port, its pending requests and its thread. `pool` maps a path to its worker,
`active` counts the operations that retain a path. An operation goes from `new`
through `init` (it spawned the worker and awaits its init) and `sent` to
`settled`. A worker leaves by `SweepIdle`, eviction (in `Spawn`), `Die` or
`CloseAll`. Which idle worker an eviction takes depends on clocks in the code and
is any of them here.

### AckObligations: an answer that is owed

One agent, its obligation and the turns it hangs on.

| Model | Code |
|---|---|
| `store`, `file` | the agent's obligation in the store's cache, and in its file |
| `tokens` | `ackRunTokens`: the runs that may discharge it |
| `timer` | whether `ackRedriveTimers` has the agent |
| `phase` | where each turn is: `pinned` (in flight, the send not recorded), `recorded`, `resolving` (the session is awaited), `queued`, `running`, `zombie` |
| `quiescing`, `marker` | `quiescingForUpgrade`, and the marker of an interrupted turn |
| `Pin`, `RecordObligation`, `SendFails`, `Dispatch` | a send, between its awaits |
| `Message` | the message a run sends, and the discharge |
| `TurnEnds`, `TurnQuiesces`, `Escape` | the ends a run can have, each with what it does to the count in flight and the timer |
| `TimerFires`, `RedriveResolved`, `RedriveUnresolved` | the redrive: count it, find the session, enqueue it, or clear and record again |
| `Quiesce`, `ResumeAfterRecreate`, `DeleteAgent`, `Exit`, `Boot` | upgrade, deletion, the end of the process and the next one |

Turns begin and end by the rules of `AgentTurns`: at most one holder, user turns
first, an escape only for a user turn that waits. The body of `Start` keeps to
them, so what the scheduler is shown to promise is what this module assumes.
`missed` says that a redrive was refused (the timer fired while the host
quiesced) or given up with the file uncleared, and no run has begun since.

### PendingWakes: results that are told once

`watch` is who waits for the work: nobody yet (`new`), a watcher, a shell poll, a
subagent. `queue` and `batch` are the completions that wait and those a revival
has taken; `reviver` is how far the revival of each family (cloud agents and
subagents, or shells) has come. `rearm` holds the `rearmPendingWake` calls whose
session is awaited: from boot, for a notice of interrupted work, or for a wake a
rebuild carried. `listed` and `carried` belong to the coordinator: it asks with
`quiesceForRecreate`, and brings the list back with `resumeAfterRecreate` or
`restoreCarriedPendingWakes`. It holds one list at a time, as
`node-agent-coordinator` does. Five variables record for the properties where the
code gives something up: `lost`, `unsaved`, `unwatched`, `again` and `told`, which
counts how often a result entered the conversation. A revival tells what it took
(`RevivalStarts`) or drops it: without its session (`RevivalDropped`), or when its turn
comes on a runner that is quiescing or that fails before (`RevivalUntold`).

### TaskPanel: one task for one submission

`state` is the page's one variable, `key` the service it was read for, `connected`
the service the main process is configured for: the two differ while a reload is
between its awaits. `list` is the service whose tasks are listed: the buttons stay
until a refresh, and a click on one changes `state` (`Select`). `sub` is each
submission between its awaits (`saving`, `saved`, `sent`, `answered` or `refused`,
`keeping` the answer, `listing` after the acceptance), `saves` the save queue, `disk`
what is persisted for each service, `tasks` the service's tasks by request id, and
`late` the requests that nobody waits for any more and that may still arrive: the main
process gives up after 15 seconds, and the app may be closed.
`Resumes` is what a submission does when its save has ended, so that `SaveWritten` and
`SaveFails` are the whole job: an acceptance is shown (`seen`) only when the save with
the answer is written. `CreateTask` and `ArrivesLate` are the service's own transaction
with its idempotency by request id. Four variables record for the properties what the
code gives up: `forgotten` ids, whose content was edited; ids `dropped` with a failed
save of the answer or a failed read; `mixed`, that the panel was reloaded with
something under way; `stale`, that a task was chosen from another service's list. The
findings tell why the properties need them.

### The proof modules

`RunSchedulerProofs`, `ValidationTasksProofs`, `SendAcceptanceProofs`,
`AckObligationsProofs`, `PendingWakesProofs`, `AgentWorkerPoolProofs` and
`TaskPanelProofs` extend their component's module; section 4 gives their arguments.
`SequenceLemmas` holds what the library does not state of `RemoveAt`, which the lanes
and the ledger use, and that a set of numbers has a least member.

## 3. The runs

| Run | Instance | Shows |
|---|---|---|
| `queue` | two direct user tasks, one group-member user task, one background task, one drainer; `FairSpec` | the safety of the queue, the refinement of `AgentTurns`, and that a direct user task starts; 630 114 states |
| `validation_docker` | two tasks, two artifacts, two restarts, two store faults | tables, log, worker and container agree; a stop wins; a delivery is complete; the service implements `TaskLifecycle` |
| `validation_in_process` | the same with one restart and one fault; `FairSpec` | every accepted task ends |
| `sends` | three sends, room for two, two ends of the process, two failures | no silent second turn; the ledger's answers are honest; 1 894 872 states |
| `workers` | two paths, room for one worker, two operations, three workers, one crash; `FairSpec` | map, threads and retained paths agree; operations settle; closed workers die; 36 022 states |
| `acks` | two sends, a redrive, a resumption and a background run, two redrives at most, one failed write, one restart, one upgrade; `FairSpec` | what is owed stays owed and is settled; 489 228 states |
| `wakes` | one cloud agent, one shell, one subagent, one failed write, two process ends, one rebuild | results are neither forgotten nor told twice nor stranded; 1 115 272 states |
| `panel` | two services, two contents, two submissions, two request ids, two reloads, one loss, one restart | one submission makes one task unless the storage fails in one of two ways; 2 841 930 states |
| `validation_stop_lost`, `validation_orphan`, `panel_isolation`, `panel_retry` | the fewest restarts, faults and reloads that show it | the divergences of section 5 |

### What the properties say

*Queue.* `OneOwner`: whatever executes beside the active run was escaped.
`NoLostPump`: nothing waits without something that will start it.
`EscapeHasCause`: a timer is armed only while a user task waits behind a run, and
the grace timer is that run's. `CallersMatchQueue`: a caller's promise is open
exactly while its task waits once or is active. `DrainWaitsForBodies`: drain
waits for zombies too. `DirectUsersInOrder`: group-member tasks apart, the user
lane is first in, first out. `DirectUserStarts`.

*Validation.* `TablesAgree` (`RunMatchesTask` and `LogTellsStatus`): tasks, runs
and events tell one story at every commit. `ActiveIsOwned`: a task underway is
somebody's, except after a double store fault. `StopWins`, `EndedMeansStopped`,
`DeliveredIsComplete`, `ImplementsLifecycle`, `EveryTaskEnds`.

*Sends.* `OneTurnUnlessGap`: a second turn only when the ledger has said that
its history has a gap. `NotFoundIsHonest`, `AnsweredSendsHaveTurns`,
`FileKeepsUp`.

*Workers.* `NoWorkerIsLost`: the pool knows every thread that nobody closes
(`EveryWorkerIsFound`), and the sweep runs exactly while there is one
(`SweepRunsWhilePooled`). `EvictionIsSafe`: what the pool evicts or sweeps is
missed by nobody. No operation waits for it (`BusyIsNotEvicted`), and until
`closeAll` no database has two threads with operations to run on it
(`OneWriterPerPath`), though the old thread may still be closing when the new one
starts. `CapFollowsDemand`, `EveryOpSettles`, `ClosedWorkersDie`.

*Obligations.* `UnansweredIsOwed`: a send that nobody answered, gave up or lost in
a failed write is owed, on disk too. `RedrivesAreCounted`: redrives never
outnumber the attempts and the failed writes. `OwedIsSettled`: if runs keep
draining, what is owed is answered or given up, unless an upgrade or a restart
intervenes or a redrive was missed.

*Wakes.* `WakeIsRemembered`: work whose result did not enter the conversation is in
the file, on the coordinator's list, or held by the process in one of three named ways,
unless one of the named drops took it. `MarkedIsWatched`: a
mark stands for somebody who waits. `ToldOnce`: only a mark that could not be
cleared, or a wake restored although it had been taken, is told again, once each.
`NoneStranded`: a queued completion always has a revival under way.

*Panel.* `UnseenIsPending`: a task whose acceptance the user was not shown is the
pending request of its service on disk. `DelegatedOnce`: the same content makes a second
task only when the user saw that the first was accepted, or gave it up. Both except the
ids that were lost with a failed save of the answer or a failed read; `RetryIsSafe`,
which does not, is refuted (section 5).

Every property has a mutant in `PROJECT.json`: a plausible mistake in a mapped
definition that makes the property fail in the same run.

### Bounds, and why they are enough

- *Queue.* Four tasks give an active run, an escaped one beside it, and two that
  wait; the group-member task makes direct tasks overtake. The
  background task stands for both lanes that arm no watchdog; that the agent lane comes
  before the background one is left to `QueueImplementsTurns`, which, like the other
  theorems, holds for every number of tasks in every lane. `pumps` is bounded by the tasks.
- *Validation.* The worker runs one task at a time, so two tasks show every
  overlap of an old run and a new one. Two artifacts are the least with one
  recorded and one not. `MaxRestarts` = 2 allows a crash during recovery or
  after it; `MaxFaults` = 2 allows the store to throw in the body and again in
  the catch.
- *Sends.* `MaxRecords` is 2 in place of the code's cap, with one more send than
  records, so that evictions happen. `MaxTurns` = 2 suffices to see a second
  turn. `MaxCrashes` and `MaxFaults` bound the ends of the process, failing file
  operations and damage to the file.
- *Workers.* `MaxWorkers` = 1 with two paths forces evictions and outgrowing the
  cap; `MaxSpawns` = 3 gives a path a second worker while the first is dying. The
  theorems hold for all bounds.
- *Obligations.* Two sends give an earlier run that answers late. A redrive, a
  resumption and a background run may begin again once they have ended, so one of
  each bounds how many exist at a time. `MaxRedrives` = 2 (3 in the code) lets an
  obligation be redriven, survive and be given up.
- *Wakes.* One work of each kind, because kinds differ and works of a kind share
  only the revival, which the cloud agent and the subagent share already. Two
  process ends allow one during the recovery from another. With two rebuilds and
  one process end the properties hold as well (4.2 million states).
- *Panel.* Two services and two contents are the least that can be confused; two
  submissions are the least that overlap. Two reloads connect the panel to one service
  and then to the other, or open it again; with three (2.5 million states of an earlier
  and coarser model) nothing new was seen. The theorems hold for every number.

Symmetry is used only in runs whose temporal properties, if any, speak of initial
states and single steps and never of what must come, over tasks, artifacts, nonces, services, contents and
submissions that no definition tells apart. Deadlock is not checked: the systems
may come to rest (every task done, the process stopped for good, a bound used up).

### Fairness

- `RunScheduler!Fairness`: microtasks run and timers fire. Nothing is assumed of
  a body, which may hang for ever; that is what the watchdog is for.
- `ValidationTasks!Fairness`: file operations end, and so does a command whose
  listener heard the abort, because the drivers kill it; the wall clock's timer
  fires; systemd starts a service that crashed
  (`deploy/validation-cloud/validation-cloud.service`, `Restart=on-failure`). A
  service that was shut down is not assumed to be started again, a session nobody
  stops is not assumed to end, and a signal nobody listens to ends nothing.
- `AgentWorkerPool!FairSpec`: a thread takes its next message or exits, and the
  host hears messages and exit events. A worker that does neither would hang its
  operations; the code has no timeout there.
- `AckObligations!FairSpec`: the redrive timer fires and sessions are found or
  not. Nothing obliges a run to end; that runs drain again and again is a premise
  of `OwedIsSettled` (`Drains`).
- `SendAcceptance`, `PendingWakes` and `TaskPanel` have no liveness property: a
  client need not retry, work need not end, a user need not submit again.

## 4. What is proved

Each theorem holds for every value of the constants, from the module's one
assumption: constants that must differ do, bounds are naturals, and sets whose
elements are counted are finite.

| Module | Theorem | States |
|---|---|---|
| `RunSchedulerProofs` | `TypeCorrect` | `TypeOK` |
| | `InvariantHolds` | `IInv` |
| | `AgentHasOneOwner` | `OneOwner` |
| | `WaitingIsNeverForgotten` | `NoLostPump` and `UserIsWatched` |
| | `EscapesHaveCause` | `EscapeHasCause` |
| | `CallersAreReleasedInTurn` | `CallersMatchQueue` |
| | `DrainIsComplete` | `DrainWaitsForBodies` |
| | `DisposeIsFinal` | `NothingStartsAfterDispose` |
| | `DirectUsersKeepTheirOrder` | `Spec => DirectUsersInOrder` |
| | `DisposeStrandsWaiters` | `[][WaitersStay]_vars`: what waits at dispose waits for ever |
| | `QueueImplementsTurns` | `Spec => ImplementsTurns` |
| `ValidationTasksProofs` | `ServiceTypeCorrect` | `TypeOK` |
| | `TablesAlwaysAgree` | `TablesAgree` |
| | `StopsWin` | `StopWins` |
| | `UnderwayIsOwned` | `ActiveIsOwned` |
| | `EndedHasStopped` | `EndedMeansStopped` |
| | `DeliveriesAreComplete` | `DeliveredIsComplete` |
| | `ServiceImplementsLifecycle` | `Spec => ImplementsLifecycle` |
| | `CrashesLeaveOneOrphan` | `OrphansAreCounted`: at most one container without a worker for each restart |
| | `OneSessionUntilRestart` | `OneSessionAtATime`, before the first restart or in-process |
| `SendAcceptanceProofs` | `LedgerTypeCorrect` | `TypeOK` |
| | `NoSilentSecondTurn` | `OneTurnUnlessGap` |
| | `NotFoundStaysHonest` | `NotFoundIsHonest` |
| | `FileAlwaysKeepsUp` | `FileKeepsUp` |
| | `AnsweredMeansDispatched` | `AnsweredSendsHaveTurns` |
| `AckObligationsProofs` | `AckTypeCorrect` | `TypeOK` |
| | `UnansweredStaysOwed` | `UnansweredIsOwed` |
| | `RedriveAlwaysComes` | `RedriveIsComing` |
| | `RedrivesStayCounted` | `RedrivesAreCounted` |
| `PendingWakesProofs` | `CompletionsAreNotStranded` | `NoneStranded` |
| | `WakesAreRemembered` | `WakeIsRemembered` |
| | `MarksAreWatched` | `MarkedIsWatched` |
| | `ResultsAreToldOnce` | `ToldOnce` |
| | `WakeTypes` | `TypeOK` |
| `AgentWorkerPoolProofs` | `PoolTypes` | `TypeOK` |
| | `PoolFollowsDemand` | `CapFollowsDemand` |
| | `NoWorkerIsEverLost` | `NoWorkerIsLost` |
| | `EvictionIsAlwaysSafe` | `EvictionIsSafe` |
| | `WaitingIsAlwaysHeld` | `WaitingIsHeld` |
| `TaskPanelProofs` | `PanelTypeCorrect` | `TypeOK` |
| | `UnseenStaysPending` | `UnseenIsPending` |
| | `DelegatedAtMostOnce` | `DelegatedOnce` |
| | `SelectionsStayLocal` | `SelectionIsLocal`, unless `mixed` |

### The queue

**The inductive invariant.** `IInv` is the conjunction of the type invariant and
the six named invariants. They need each other. That `active` executes, and is
no zombie (`OneOwner`), is what lets a settlement of `active` leave no second
owner; but that a task just taken from a lane is not already executing, so that
starting it makes it no zombie, needs `CallersMatchQueue`. That needs
`RunsAreAccountedFor`: a task that was never enqueued has no run. The escape
takes the agent from `active`, and the refinement needs that a user task then
takes it: `EscapeHasCause` says that one waits. `DrainWaitsForBodies` follows
from `RunsAreAccountedFor`: a drainer awaits every body that executed when it
called, and a body that settled executes no more.

**The argument.** `RemoveAtProperties` describes a lane from which one task is
taken (what is left, and that nothing is doubled). `NextUserIsInLane` and
`NextIsInLane` show that the chosen index is in the chosen lane.
`StartNextEffect` and `PumpHasEffect` state once what a pump does to the
invariant's parts, and the actions that pump (`PumpMicrotask`, `TaskSettles`,
`EscapeWedgedRun`) cite them. There is one lemma for each action, and `NextIInv`
combines them. For the refinement, `PlaceOfTask` turns `PlaceOf` into facts
about one task at a time, `PumpBeginsAllowed` shows that the task a pump starts
is one `AgentTurns!MayBegin` allows, and `StepMapsToTurns` maps each action:
`Enqueue` to `Accept`; a pump to `Begin` or a stutter; the settlement of the
active run to `End`, that of an escaped one to `EndLate`; the escape to
`Abandon`; dispose to `Close`; everything else to a stutter.

**The order of the lane.** `takeNextUserTask` searches a lane of any length. Instead
of an induction over it, `LeastNumber` (a set of numbers that is not empty has a least
member, from the well-foundedness of `<` on `Nat`) gives the first direct task of the
lane, and `FirstDirectIsTaken` shows that this is the one that is taken.
`PositionIsUnique` (from `LanesAreSound`) turns indices into places, and
`PumpKeepsDirectOrder` is `DirectUsersInOrder` for a pump; the other actions start
nothing. `DisposeStrandsWaiters` makes a hazard exact: lanes of a disposed queue only
grow (`DisposedLanesGrow`), and `CallersMatchQueue` keeps the caller of what waits in
one unanswered.

### The validation service

`IInv` has two halves. `Rows` speaks of each task's rows alone: what the last run and
the last event say is the status, and a stop in the log leaves the statuses
`stopping`, `cancelled` and `interrupted`. It is written over the values of a row
(`RunsTell`, `LogTells`, `StopHolds`), so the four changes a row can have are
lemmas about sequences (`RowIsClaimed`, `RowRuns`, `RowIsStopped`, `RowEnds`), and
`OneRow` puts a changed row back. The other half ties the rows to the worker:
`Held` says that the task of the job is underway, `SessionsHeld` and
`RecordingKeeps` what has a session and which files are kept, and with them stand
`ActiveIsOwned` and `DeliveredIsComplete`. The halves need each other: the worker
may finish its task only because `Held` says that it is still underway, and that a
task is claimed once follows from the rows.

An action keeps the invariant and maps to a step of `TaskLifecycle` for the same
reasons, so each lemma proves both: `LifeStep` is a step or a stutter, and
`LifeAccepts`, `LifeTakes`, `LifeStops`, `LifeAdds` and `LifeEnds` say what each
change of a row is there. The ends of a run (`JobEnds`, `JobDropped`, `RunFails`,
`RunGoesOn`, `RunIsRescued`) are shared by the actions that reach them.

`OrphansAreCounted` tells how far the divergence of `validation_orphan` goes.
`OnlyCrashesOrphan` goes through the actions: each that ends the worker's job has
removed its session before (`SessionsHeld`), so only a crash leaves one behind, and
it leaves at most the one the worker held. With none left behind,
`OneSessionUntilRestart` follows.

### The sends

`OneTurnUnlessGap` speaks of one process and must survive into the next, so `IInv`
says the same of two places. `MemoryTells`: while the process is up and nothing
excuses the ledger (no gap, not degraded, no blind start), each nonce has at most one
turn, one that has its turn is accepted in the records, and one that is being sent is
pending there. `FileTells`: while the process is down, and the file neither damaged,
nor marked, nor with a gap of its own, the same of the file. `EndsKeeps` carries the
first into the second by the definition of `blind`, and `StartKeeps` the second into
the first. `PendingIsKnown` says whose a pending record is, on disk too, which gives
`AnsweredSendsHaveTurns`; and `Shape` that an accepted record has its turn and no
record belongs to a send that is still building, without which `Append` would give
a nonce two records.

`AppendTells`, `RemoveTells`, `MarkTells`, `WithoutTells` and `EvictionTells` say what
each operation on the records does to the one thing the invariant asks of them, what
`StatusIn` says of each nonce. `PersistLeaves` says once what all the ends of
`persist` have in common (`Leaves`). `UpStep` then reduces a step of a running process
to one nonce (`Fine`), and `UntouchedIsFine` deals with the nonces it leaves alone.

### The obligations

Three invariants, one for each property.

- `OwedInv` adds to `UnansweredIsOwed` that an obligation in the cache is that of
  the file (`CacheAgrees`), and that no escaped run has a live token
  (`TokensAreLive`). Without the second, the late message of an escaped run would
  clear the obligation of a send it did not answer: that is the hazard, and the
  invariant is what retiring the token in the escape gives. `OwedFrame` and
  `OwedWrite` carry the steps that leave the obligation alone or write it.
- `DrivenInv` is `TypeOK` and `RedriveIsComing`. `FlightLeads` and `EndLeads` say
  that whatever ends a run arms the timer, or leaves another in flight, or sets
  `missed`. It is the safety half of `OwedIsSettled`.
- `CountInv` adds `Tally` to `OwedInv`: the redrives enqueued for the obligation and
  those being resolved on its account are at most its attempts and the failed writes.
  A redrive's attempt is counted before its session is found, so the redrives
  under way (`Charged`) must be counted as well; they are a finite set, which is
  why `AckAssumption` asks that `Redrive` be finite.

### The wakes

`NoneStranded` and the shape of the state (`Shape`: nothing is waited for between
two processes, a revival that runs has told all it took, only a listed rebuild
carries) are one invariant, as each needs the other. `WakeInv` adds
`WakeIsRemembered` and `MarkedIsWatched`. Every operation is a combination of a few
effects on marks, completions and revivals, and the lemmas about those come first.

`ToldOnce` is about a sum over all that may still be told, and needs the most.
`OnceInv` bounds, for each work, what was told, what a revival has taken and not told
(`Untold`), and what is on its way (`Coming`: the queue, whoever waits for the work,
and the rearms whose session is awaited) by `Allowed`: one, the failed writes, and
the restores of work taken before. A mark on disk stands for one more telling after a
restart, hence the second half of `Once`. Work the coordinator may bring back without
counting it as told again must have room for that: `Spare`. Three facts about shape
make the sums change as they should: each kind of rearm belongs to one kind of work
(`Sorted`, from `KindsMatch`), an idle revival has taken nothing (`IdleTakesNone`) and
a running one has told all it took (`RunningIsTold`). `Stays`, `Moves`, `BatchMoves`
and `JobsChange` are the few ways a step changes the sum. The type invariant follows:
every count it bounds by `MostTold` is part of that sum. `TallyNext` says what the
bounded counters do.

### The workers

`PoolInv` has three layers. `Placed`: types, a worker in the pool is alive, open
and that of its path, `EveryWorkerIsFound`, `SweepRunsWhilePooled`. `Charged`: the
count of a path is the number of operations that hold it (`ActiveCounts`), a
pending request is that of an operation that holds the worker's path
(`PendingIsCharged`), and no operation has two (`OneRequest`). Then
`BusyIsNotEvicted` and `WaitingIsHeld` follow step by step: an evicted or swept
path has count zero, hence no operation, hence no pending request but the one to
close. Counting needs that the operations are finitely many.

`CapInv` adds the bounds of the counters and `CapFollowsDemand`. A spawn evicts only
when the pool is full, and gives up only when every pooled path is held (`CapStarts`):
then the paths held, the new one among them, are at least as many as the pool, and
`demand` has seen them. Every other step leaves the pool or makes it smaller
(`CapRests`), and `demand` never falls. That the sets of paths compared are finite is
`PathSets`.

`PortsInv` adds the message ports, of which `PoolInv` says nothing. A port is `Orderly`:
the request of an operation waits in it once, is not answered yet, and is still
pending unless the worker is dead. That a new request is not on the port already is
`Begun`: only operations that were sent have left one there. `RunningIsPooled` puts the
two together. A thread that has an operation to run is not dead, so the request is
pending, so the worker was not evicted (`BusyIsNotEvicted`); before `closeAll` it is
therefore not closing at all, and it is its path's entry in the pool
(`EveryWorkerIsFound`), of which there is one.

### The panel

`IInv` holds in every state of some facts: the types (`World`); ids are minted
(`Ids`) and a service binds each to one content (`Bound`); a submission that saves has
exactly one save in the queue (`SavesBelong`). The rest, `Unmixed`, holds unless the
panel was reloaded with something under way, as both properties do. What a service may
come to hold is `Known`: its tasks, the requests on their way, and those that may
arrive late. Its middle is `Kept`: the pending request on disk, the one on the page, and
the one in every save that waits *cover* what the service may know, that is, none of
that is newer, and each that the user was neither told of nor lost is that request. All
three are needed, as a save that waits becomes the disk, and the disk becomes the page
at a restart. The page is ahead of the user: with the answer it takes the request to be
told of (`Believed`), while for the disk it counts only when the user was shown the
acceptance, or the save with it has failed (`Told`). So the save of an answer may become
the disk only in the step that shows it, which is why `SaveEndsKeeps` is the longest
case: the two kinds of coverage meet there.
`Confirmed` says that a request on its way is the pending one, on disk and in every
save too, which is what saving before sending gives, and that the saves before that of
an answer hold what the disk does; so the request that `Send` adds to `Known` is covered
already. `OneAtATime` says that the disabled form lets one submission through. What is
covered and untold is the newest, so no other of its content follows it, which gives
`Delegations`.

`SavePushed`, `SavePopped` and `BelongsPushed` describe the queue of saves.
`SaveEndsKeeps` proves a written and a failed save at once, `SaveAddedKeeps` what an
edit and a choice have in common, `FailsKeeps` what all the ends of a submission have,
`GoesOn` what its steps between have, and `ArrivalKeeps` what both ways for a
request to arrive have.

`SelectionsStayLocal` confines the divergence of `panel_isolation`: unless `mixed` or
`stale`, the selection on the page, in every save that waits and on disk is one of the
service it is kept for (`SelectionsAreOwn`). `Answer` and `Select` make selections:
`Confirmed` says that the submission went to the service the page shows, and a list that
is not stale is that service's.

### What stays with TLC

Liveness under fairness is out of the prover's reach: `DirectUserStarts`,
`EveryTaskEnds`, `EveryOpSettles`, `ClosedWorkersDie`, `OwedIsSettled`. Every
invariant and every other action property the runs check is proved. The induction
theorems of the library that take an operator cannot be used, but none of the models'
operators is recursive, and where a proof needs the least of many it uses
`LeastNumber`.

## 5. What the models found

Each of the first four is the only property of a run that TLC refutes.

1. **A stop can be lost** (`validation_stop_lost`, `StopIsForced`).
   `docker-vcoder-driver.ts` awaits two file operations (50-52) before it adds
   its abort listener (103). A stop or the wall clock in between aborts a signal
   nobody listens to; the listener is never called, and neither a second stop
   nor the wall clock aborts it again. The task stays `stopping` until the
   session ends by itself. `docs/VALIDATION-SPRINT.md:83` and `:43` say that a
   stop and the wall clock terminate the container.
2. **Two containers at once** (`validation_orphan`, `OneSessionAtATime`). After
   a crash the old container executes beside the next task's, against the global
   concurrency of one of `docs/VALIDATION-SPRINT.md:36`.
3. **One service's answer in another's state** (`panel_isolation`,
   `SelectionIsLocal`). A submission that resumes after the panel was connected to
   another service writes its task and its pending request into that service's
   state and saves it there (`desktop-tasks/panel.js:66`, `:133`), against
   `docs/VBOT-BACKGROUND-TASKS.md:23`, which says that drafts and selections are
   kept apart by service. The list is a second way: after a reconnection the buttons
   of the old service stay until the next refresh, and a click (`:156`) stores its task
   under the new service's key.
4. **A retry that makes a second task** (`panel_retry`, `RetryIsSafe`). When the answer
   arrives the page forgets the pending request (`panel.js:134`) and then saves that
   (`:135`). If the save fails, the user is shown an error and no acceptance (`:136-137`
   are skipped), and the same form, submitted again, gets a new id and makes a second
   task. A state that cannot be read is taken to be empty (`:83`), with the same effect
   after a restart. `docs/VBOT-BACKGROUND-TASKS.md:23` says that a retry of the same
   content uses the same id, to avoid creating a task twice. `DelegatedOnce` and its
   theorem show that these two faults and a reload with a submission under way are the
   only causes.

Seen while modelling, and named in the properties or the notes of `PROJECT.json`:

- Recovery records `run.finished` for a task with an unfinished run, where
  `docs/VALIDATION-RUNBOOK.md:118` names `run.interrupted`. `finishRun` moves a
  task from `preparing` or `running` to `cancelled`, which `TRANSITIONS` of
  `V/model.ts:146-155` does not have.
- A draft the user confirmed for one service is sent to another when the
  connection changes while the request is saved. `open()` of the panel awaits
  the queue of saves and stays stuck after one failed.
- A redrive timer that fires while the host quiesces is consumed; unless the agent
  is resumed, nothing drives the obligation until its next run.
- Watches that `quiesceForRecreate` cancelled are taken for locally owned by
  `resumeAfterRecreate`: the work stays marked and nobody waits for it until the
  next process. A revival clears its marks before its session is found, so a
  crash in between loses the results; so does a crash between the clearing of a
  boot's marks and their rearming.
- A revival whose turn comes while the host quiesces is refused by its runner
  (`host/runner/sand-agent-runner.ts:1203`) before its prompt enters the conversation:
  its marks are cleared, its results are reported dropped
  (`T/completion-revivals.ts:194-198`, `:307-311`), and the turn that is resumed later
  does not carry them.
- Behind a run that hangs, agent and background tasks alone wait for ever; tasks
  that wait when the scheduler is disposed never settle; operations after
  `closeAll` spawn workers nobody closes, on databases whose old thread may still
  have operations to run.

## 6. What is left out

- What a turn does with the model and the tools, what a database operation
  reads and writes, and prompts, documents, git commands, versions and
  timestamps. Tasks accepted in the same millisecond are claimed in the order of
  their ids; the model claims them in the order they arrived.
- Group and remote-room sends, and the echoes a send leaves in the transcript.
  Sessions that turn out to be groups owe no answer and have no obligation.
- Inbound messages of other agents among the wakes, the deletion of an agent with
  wakes, markers older than two days, and marker files that cannot be read. A
  `getRunner` that throws (`T/completion-revivals.ts:169`, `:284`) ends the loop of its
  revivals with what was taken lost and completions queued until the next one arrives.
  `restoreCarriedPendingWakes` writes its marks one by one; the model has them succeed
  or fail together.
- Of the redrives, a `getRunner` (`T/ack-obligations.ts:212`) or an enqueue that throws
  after the session was resolved, and the exit of a turn whose recovery check throws
  (`T/turn-runtime.ts:433-438`): both miss a redrive without arming another.
- Of the validation service, a read that throws right after a claim (`V/worker.ts:130-131`,
  `V/task-store.ts:412-414`): the task stays in preparation, in no active map, until the
  next restart.
- Of the ledger, a marker that exists but cannot be read
  (`T/prompt-acceptance-ledger.ts:370-381`) and a damaged file that keeps some of its
  records (`:195-202`); of a send, the return for an empty prompt
  (`T/send-pipeline.ts:160`), which leaves nothing behind.
- The panel's details of a task, its stop button and its downloads: they change none of
  the state that is modelled. So are a panel that was never configured, and a second
  reload while one is between its awaits.
- `markRejected`, `closeStore`, `describeWorkers` and the flush request: they
  have no caller. `getDiagnostics` and `getActiveLane` only read.
- The components marked *not modelled* in section 1. The generated protocol code,
  a large part of the repository, has no behaviour of its own.

## 7. Plan

Done, in this order, the most important first: `RunScheduler` with `AgentTurns`,
`ValidationTasks` with `TaskLifecycle`, `SendAcceptance`, `AgentWorkerPool`,
`AckObligations`, `PendingWakes`, `TaskPanel`, and the proofs about these.

1. **The panel and the service composed**: `TaskPanel`'s service as an instance of
   `TaskLifecycle`.
2. **Group chat**: the fan-out of one message over several agents' queues.
3. **Gateway client** and **tool stream**: replay and order.
4. **Automations** and their spend guard; **box store sync**.

With the first of these comes one more theorem, that the panel and the service
together delegate a submission to one task. An abstract specification of the wakes and
of the pool, which `ToldOnce` and `WaitingIsHeld` would show to be implemented, is
worth stating then too.
