---------------------------- MODULE PendingWakes ----------------------------
(***************************************************************************)
(* Background work an agent has started, and the promise to wake the agent *)
(* with its result (host/extensions/transcript: pending-wake-rearm.ts,     *)
(* sand-pending-wake-store.ts, completion-revivals.ts,                     *)
(* upgrade-recreate-resume.ts; host/runner: background-work.ts,            *)
(* subagent-runtime.ts).                                                   *)
(*                                                                         *)
(* Work is watched in memory and marked in a file.  Its completion is      *)
(* queued; one revival at a time takes all that are queued, clears their   *)
(* marks and runs the agent with them.  A new process finds the marks and  *)
(* arms the watches again; a host that is about to be rebuilt hands them   *)
(* to its caller, who brings them back.                                    *)
(*                                                                         *)
(* A step is one JavaScript job.  One agent; its deletion, markers older   *)
(* than two days, unreadable files and a runner that cannot be made are    *)
(* left out.                                                               *)
(***************************************************************************)
EXTENDS Naturals

CONSTANTS CloudAgent,   \* work that runs elsewhere and outlives the host
          Shell,        \* commands
          Subagent,     \* runs of this process
          MaxFaults,    \* bound on failed writes of the marker file
          MaxExits,     \* bound on process ends
          MaxQuiesces   \* bound on quiesceForRecreate

Work == CloudAgent \cup Shell \cup Subagent

ASSUME WakeAssumption ==
    /\ {MaxFaults, MaxExits, MaxQuiesces} \subseteq Nat
    /\ CloudAgent \cap (Shell \cup Subagent) = {}
    /\ Shell \cap Subagent = {}

VARIABLES
    up, quiescing,
    marker,     \* the marker file, by work
    watch,      \* who waits for the work in this process
    queue,      \* pendingSubagentCompletions, pendingShellCompletions
    batch,      \* the completions of the revival that is under way
    reviver,    \* revivingSubagentAgentIds, revivingShellAgentIds, and how far
    rearm,      \* rearmPendingWake calls that wait for their session
    listed,     \* the caller of quiesceForRecreate holds ...
    carried,    \* ... these wakes
    used,       \* what the bounds count
    \* for the properties only
    told,       \* how often the work's result entered the conversation
    lost,       \* the work whose result was dropped, see WakeIsRemembered
    unsaved,    \* its last mark could not be written
    unwatched,  \* marked, but this process no longer waits for it
    again       \* may be told again: its mark outlived, or its list, the telling

counted == <<told, lost, unsaved, unwatched, again>>
vars == <<up, quiescing, marker, watch, queue, batch, reviver, rearm, listed,
          carried, used, counted>>

Family == {"task", "shell"}
FamilyOf(w) == IF w \in Shell THEN "shell" ELSE "task"
Kin(f) == {w \in Work : FamilyOf(w) = f}
Carryable == CloudAgent \cup Shell

\* A result is queued or told again only for a write that failed or a rebuild.
MostTold == 1 + MaxFaults + MaxQuiesces

TypeOK ==
    /\ {up, quiescing, listed} \subseteq BOOLEAN
    /\ marker \in [Work -> {"none", "pending", "interrupted"}]
    /\ watch \in [Work -> {"new", "none", "watching", "polled", "aborted", "stopping"}]
    /\ \A w \in Work : /\ watch[w] \in {"polled", "aborted"} => w \in Shell
                       /\ watch[w] = "stopping" => w \in Subagent
                       /\ marker[w] = "interrupted" => w \in Shell
                       /\ w \notin Shell => queue[w] <= 1
    /\ queue \in [Work -> 0..MostTold] /\ batch \in [Work -> 0..MostTold]
    /\ reviver \in [Family -> {"idle", "resolving", "queued", "running"}]
    /\ rearm \in [Work -> SUBSET {"boot", "notice", "carry"}]
    /\ carried \subseteq Carryable
    /\ told \in [Work -> Nat]
    /\ lost \cup unsaved \cup unwatched \cup again \subseteq Work
    /\ used \in [faults : 0..MaxFaults, exits : 0..MaxExits, quiesces : 0..MaxQuiesces]

None0 == [w \in Work |-> 0]
Init ==
    /\ up = TRUE /\ quiescing = FALSE
    /\ marker = [w \in Work |-> "none"]
    /\ watch = [w \in Work |-> "new"]
    /\ queue = None0 /\ batch = None0
    /\ reviver = [f \in Family |-> "idle"]
    /\ rearm = [w \in Work |-> {}]
    /\ listed = FALSE /\ carried = {}
    /\ used = [faults |-> 0, exits |-> 0, quiesces |-> 0]
    /\ told = None0
    /\ lost = {} /\ unsaved = {} /\ unwatched = {} /\ again = {}

-----------------------------------------------------------------------------
(* The pieces the operations share.                                        *)

Faults(n) == used' = [used EXCEPT !.faults = @ + n] /\ used.faults + n <= MaxFaults
Failed(ok) == IF ok THEN 0 ELSE 1

\* markPending and clearOne on marks m; a failed write changes nothing.
Marked(m, w, how, ok) == IF ok THEN [m EXCEPT ![w] = how] ELSE m
Saved(w, ok) == unsaved' = (IF ok THEN unsaved \ {w} ELSE unsaved \cup {w})

\* clearSettledPendingWake for the works ws: what is left of marks m.
Settled(m, ws, ok) == [w \in Work |-> IF ok /\ w \in ws THEN "none" ELSE m[w]]
\* A completion is queued: one per task, every one of a command.
PushedAgain(w) == queue[w] + 1
Pushed(w) == IF w \in Shell THEN queue[w] + 1 ELSE 1
Queued(ws) == queue' = [w \in Work |-> IF w \in ws THEN Pushed(w) ELSE queue[w]]

\* handleBackground..Completion for the works ws of one family, whose marks
\* are m: unless a revival is under way the first is taken at once.
TakeAtOnce(ws) ==
    \E w \in ws :
        /\ Queued(ws \ {w})
        /\ batch' = [batch EXCEPT ![w] = 1]
        /\ reviver' = [reviver EXCEPT ![FamilyOf(w)] = "resolving"]
Complete(ws, m, ok) ==
    IF \A w \in ws : reviver[FamilyOf(w)] # "idle"
    THEN ok /\ Queued(ws) /\ marker' = m /\ UNCHANGED <<batch, reviver>>
    ELSE TakeAtOnce(ws) /\ marker' = Settled(m, {w \in ws : batch'[w] # batch[w]}, ok)

\* cancelBackgroundWatches: cloud agents and polled commands are waited for no
\* longer; running commands are killed, and may still report that.
Cancelled(v) ==
    [w \in Work |-> CASE w \in CloudAgent /\ v[w] = "watching" -> "none"
                      [] w \in Shell /\ v[w] = "polled" -> "none"
                      [] w \in Shell /\ v[w] = "watching" -> "aborted"
                      [] OTHER -> v[w]]
\* getRunner asks the runner to quiesce while the host does.
RunnerWatch == IF quiescing THEN Cancelled(watch) ELSE watch
Dropped(v) == {w \in Work : v[w] # watch[w] /\ v[w] \in {"none", "aborted"}}

-----------------------------------------------------------------------------
(* Work and its completion.                                                *)

\* A turn starts work: watchCloudAgent, a command that registers, a subagent.
Begin(w) ==
    /\ up
    /\ watch[w] = "new"
    /\ watch' = [watch EXCEPT ![w] = "watching"]
    /\ \E ok \in BOOLEAN :
          /\ marker' = Marked(marker, w, "pending", ok)
          /\ Saved(w, ok)
          /\ Faults(Failed(ok))
    /\ UNCHANGED <<up, quiescing, queue, batch, reviver, rearm, listed, carried,
                   told, lost, unwatched, again>>

\* The work ends, or waiting for it fails or is given up.
Settles(w) ==
    /\ watch[w] \in {"watching", "polled", "aborted"}
    /\ watch' = [watch EXCEPT ![w] = "none"]
    /\ \E ok \in BOOLEAN : Complete({w}, marker, ok) /\ Faults(Failed(ok))
    /\ UNCHANGED <<up, quiescing, rearm, listed, carried, counted>>

\* The agent stops a subagent, whose run then ends: both disarm.
Disarm(w, next) ==
    /\ watch' = [watch EXCEPT ![w] = next]
    /\ \E ok \in BOOLEAN :
          /\ ok \/ marker[w] # "none"
          /\ marker' = Marked(marker, w, "none", ok)
          /\ Faults(Failed(ok))
    /\ lost' = lost \cup {w}
    /\ UNCHANGED <<up, quiescing, queue, batch, reviver, rearm, listed, carried,
                   told, unsaved, unwatched, again>>
StopSubagent(w) == watch[w] = "watching" /\ Disarm(w, "stopping")
SubagentStopped(w) == watch[w] = "stopping" /\ Disarm(w, "none")

-----------------------------------------------------------------------------
(* Revivals.                                                               *)

\* runSubagentRevival, runShellRevival: the marks of what a revival takes are
\* cleared; without its session it drops what it took.
NextBatch(f, ok) ==
    LET ws == {w \in Kin(f) : queue[w] > 0} IN
    /\ batch' = [w \in Work |-> IF w \in Kin(f) THEN queue[w] ELSE batch[w]]
    /\ queue' = [w \in Work |-> IF w \in Kin(f) THEN 0 ELSE queue[w]]
    /\ reviver' = [reviver EXCEPT ![f] = IF ws = {} THEN "idle" ELSE "resolving"]
    /\ marker' = Settled(marker, ws, ok)
    /\ ok \/ ws # {}
BatchDropped(f) ==
    /\ lost' = lost \cup {w \in Kin(f) : batch[w] > 0 /\ told[w] = 0}
    /\ \E ok \in BOOLEAN : NextBatch(f, ok) /\ Faults(Failed(ok))
    /\ UNCHANGED <<up, quiescing, watch, rearm, listed, carried,
                   told, unsaved, unwatched, again>>
RevivalDropped(f) == reviver[f] = "resolving" /\ BatchDropped(f)
RevivalResolved(f) ==
    /\ reviver[f] = "resolving"
    /\ reviver' = [reviver EXCEPT ![f] = "queued"]
    /\ watch' = RunnerWatch
    /\ unwatched' = unwatched \cup Dropped(RunnerWatch)
    /\ UNCHANGED <<up, quiescing, marker, queue, batch, rearm, listed, carried, used,
                   told, lost, unsaved, again>>

\* Its turn comes: the prompt with the results enters the conversation.  The
\* runner of a host that is quiescing refuses it, and so may a failure before.
ItsTurn(f) == reviver[f] = "queued" /\ \A g \in Family : reviver[g] # "running"
RevivalStarts(f) ==
    /\ ItsTurn(f)
    /\ ~quiescing
    /\ reviver' = [reviver EXCEPT ![f] = "running"]
    /\ told' = [w \in Work |-> IF w \in Kin(f) THEN told[w] + batch[w] ELSE told[w]]
    /\ UNCHANGED <<up, quiescing, marker, watch, queue, batch, rearm, listed, carried, used,
                   lost, unsaved, unwatched, again>>
RevivalUntold(f) == ItsTurn(f) /\ BatchDropped(f)
RevivalEndsStranding(f) ==
    /\ reviver[f] = "running"
    /\ batch' = [w \in Work |-> IF w \in Kin(f) THEN 0 ELSE batch[w]]
    /\ reviver' = [reviver EXCEPT ![f] = "idle"]
    /\ UNCHANGED <<up, quiescing, marker, watch, queue, rearm, listed, carried, used, counted>>
RevivalEnds(f) ==
    /\ reviver[f] = "running"
    /\ \E ok \in BOOLEAN : NextBatch(f, ok) /\ Faults(Failed(ok))
    /\ UNCHANGED <<up, quiescing, watch, rearm, listed, carried, counted>>

-----------------------------------------------------------------------------
(* Arming again, after a restart or a rebuild.                             *)

Done(w, job) == rearm' = [rearm EXCEPT ![w] = @ \ {job}]

\* The session is not available, or there is nobody to watch the cloud agent:
\* the mark is written back, for the next process.
RearmForgets(w, job) ==
    /\ job \in rearm[w]
    /\ Done(w, job)
    /\ unwatched' = unwatched \cup {w}
    /\ UNCHANGED <<up, quiescing, marker, watch, queue, batch, reviver, listed, carried,
                   used, told, lost, unsaved, again>>
RearmFails(w, job) ==
    /\ job \in rearm[w]
    /\ Done(w, job)
    /\ \E ok \in BOOLEAN :
          /\ marker' = Marked(marker, w, IF job = "notice" THEN "interrupted" ELSE "pending", ok)
          /\ lost' = (IF ok \/ told[w] > 0 THEN lost ELSE lost \cup {w})
          /\ Saved(w, ok)
          /\ Faults(Failed(ok))
    /\ unwatched' = unwatched \cup {w}
    /\ UNCHANGED <<up, quiescing, watch, queue, batch, reviver, listed, carried, told, again>>

\* rearmCloudAgentWake, rearmShellWake.
MarkedOnly(v, w) == v
WatchedBy(v, w) ==
    IF v[w] \in {"watching", "polled"} THEN v
    ELSE [v EXCEPT ![w] = IF w \in Shell THEN "polled" ELSE "watching"]
RearmWatch(w, job) ==
    /\ job \in rearm[w] \ {"notice"}
    /\ w \in Carryable
    /\ Done(w, job)
    /\ watch' = WatchedBy(RunnerWatch, w)
    /\ unwatched' = (unwatched \cup Dropped(RunnerWatch)) \ {w}
    /\ \E ok \in BOOLEAN :
          /\ marker' = Marked(marker, w, "pending", ok)
          /\ Saved(w, ok)
          /\ Faults(Failed(ok))
    /\ UNCHANGED <<up, quiescing, queue, batch, reviver, listed, carried, told, lost, again>>

\* deliverRecreateInterruptedShellNotice.
RearmNotice(w) ==
    /\ "notice" \in rearm[w]
    /\ Done(w, "notice")
    /\ \E ok \in BOOLEAN : Complete({w}, marker, ok) /\ Faults(Failed(ok))
    /\ UNCHANGED <<up, quiescing, watch, listed, carried, counted>>

\* reviveParentForLostSubagentWake: the mark comes back and the loss is reported.
RearmSubagent(w) ==
    /\ "boot" \in rearm[w]
    /\ w \in Subagent
    /\ Done(w, "boot")
    /\ \E marked, ok \in BOOLEAN :
          /\ Complete({w}, Marked(marker, w, "pending", marked), ok)
          /\ Saved(w, marked)
          /\ Faults(Failed(marked) + Failed(ok))
    /\ UNCHANGED <<up, quiescing, watch, listed, carried, told, lost, unwatched, again>>

-----------------------------------------------------------------------------
(* Upgrades, rebuilds and restarts.                                        *)

\* quiesceForUpgrade, and quiesceForRecreate, which lists what to carry; its
\* caller brings a list back before it asks for another.  The runners of
\* sessions with a run in flight give up their watches.
InFlight == \E f \in Family : reviver[f] \in {"queued", "running"}
Quiesce(recreate) ==
    /\ up /\ ~quiescing
    /\ used.quiesces < MaxQuiesces
    /\ quiescing' = TRUE
    /\ used' = [used EXCEPT !.quiesces = @ + 1]
    /\ \/ watch' = Cancelled(watch) /\ unwatched' = unwatched \cup Dropped(Cancelled(watch))
       \/ ~InFlight /\ UNCHANGED <<watch, unwatched>>
    /\ IF recreate
       THEN ~listed /\ listed' = TRUE /\ carried' = {w \in Carryable : marker[w] # "none"}
       ELSE UNCHANGED <<listed, carried>>
    /\ UNCHANGED <<up, marker, queue, batch, reviver, rearm, told, lost, unsaved, again>>

\* Any other turn that gets the agent's runner meanwhile.
RunnerQuiesces ==
    /\ up /\ quiescing
    /\ watch' = RunnerWatch
    /\ unwatched' = unwatched \cup Dropped(RunnerWatch)
    /\ UNCHANGED <<up, quiescing, marker, queue, batch, reviver, rearm, listed, carried, used,
                   told, lost, unsaved, again>>

\* resumeAfterRecreate, restoreCarriedPendingWakes: what is still marked is
\* taken to be watched.  (Each mark is a write of its own; here all of them
\* succeed or fail.)
Restore(ws) ==
    /\ up /\ listed
    /\ quiescing' = FALSE /\ listed' = FALSE /\ carried' = {}
    /\ rearm' = [w \in Work |-> IF w \in ws \cap CloudAgent
                                THEN rearm[w] \cup {"carry"} ELSE rearm[w]]
    /\ again' = again \cup {w \in ws : told[w] > 0 \/ batch[w] > 0 \/ rearm[w] # {}}
    /\ \E marked, ok \in BOOLEAN :
          LET m == [w \in Work |->
                      IF ~marked \/ w \notin ws THEN marker[w]
                      ELSE IF w \in Shell THEN "interrupted" ELSE "pending"]
          IN  /\ IF ws \cap Shell = {}
                 THEN ok /\ marker' = m /\ UNCHANGED <<queue, batch, reviver>>
                 ELSE Complete(ws \cap Shell, m, ok)
              /\ marked \/ ws # {}
              /\ unsaved' = (IF marked THEN unsaved \ ws ELSE unsaved \cup ws)
              /\ Faults(Failed(marked) + Failed(ok))
    /\ UNCHANGED <<up, watch, told, lost, unwatched>>
RestoreAll == Restore(carried)
ResumeAfterRecreate == Restore({w \in carried : marker[w] = "none"})

\* The process ends: a result that was taken and not yet told, a mark that boot
\* had cleared and a mark that was never written go with it.
Exit ==
    /\ up
    /\ used.exits < MaxExits
    /\ up' = FALSE /\ quiescing' = FALSE
    /\ watch' = [w \in Work |-> IF watch[w] = "new" THEN "new" ELSE "none"]
    /\ queue' = None0 /\ batch' = None0
    /\ reviver' = [f \in Family |-> "idle"]
    /\ rearm' = [w \in Work |-> {}]
    /\ used' = [used EXCEPT !.exits = @ + 1]
    /\ lost' = lost \cup {w \in Work : /\ told[w] = 0
                                       /\ batch[w] > 0 \/ "boot" \in rearm[w] \/ w \in unsaved}
    /\ unsaved' = {} /\ unwatched' = {}
    /\ UNCHANGED <<marker, listed, carried, told, again>>

\* rearmPendingWakes of the next process; a computer that was rebuilt has lost
\* the file.
Boot(rebuilt) ==
    /\ ~up
    /\ up' = TRUE
    /\ rebuilt => listed
    /\ \E ok \in BOOLEAN :
          LET pending == {w \in Work : marker[w] = "pending"} IN
          /\ rebuilt \/ pending = {} => ok
          /\ marker' = (IF rebuilt THEN [w \in Work |-> "none"]
                        ELSE Settled(marker, pending, ok))
          /\ Faults(Failed(ok))
    /\ rearm' = [w \in Work |->
                    IF rebuilt \/ marker[w] = "none" THEN {}
                    ELSE IF marker[w] = "pending" THEN {"boot"} ELSE {"notice"}]
    /\ lost' = (IF rebuilt
                THEN lost \cup {w \in Work \ carried : marker[w] # "none" /\ told[w] = 0}
                ELSE lost)
    /\ UNCHANGED <<quiescing, watch, queue, batch, reviver, listed, carried,
                   told, unsaved, unwatched, again>>

-----------------------------------------------------------------------------
Next ==
    \/ \E w \in Work : Begin(w) \/ Settles(w)
    \/ \E w \in Subagent : StopSubagent(w) \/ SubagentStopped(w) \/ RearmSubagent(w)
    \/ \E f \in Family : \/ RevivalDropped(f) \/ RevivalResolved(f)
                         \/ RevivalStarts(f) \/ RevivalUntold(f) \/ RevivalEnds(f)
    \/ \E w \in Work, job \in {"boot", "notice", "carry"} :
          RearmFails(w, job) \/ RearmWatch(w, job)
    \/ \E w \in Shell : RearmNotice(w)
    \/ \E b \in BOOLEAN : Quiesce(b) \/ Boot(b)
    \/ RunnerQuiesces \/ ResumeAfterRecreate \/ Exit

Spec == Init /\ [][Next]_vars

-----------------------------------------------------------------------------
(* Properties.                                                             *)

\* Work whose result was not told is not forgotten: its mark is in the file, or
\* the caller of a recreate holds it, or this process does.  What this process
\* holds may go without a mark only while a revival or a rearm has it, or when
\* the mark could not be written; what it then drops is named in RevivalDropped
\* and RevivalUntold, where a revival has cleared the marks and does not tell,
\* in Disarm, RearmFails, Exit and Boot.
WakeIsRemembered ==
    \A w \in Work :
        watch[w] # "new" /\ told[w] = 0 /\ w \notin lost
            => \/ marker[w] # "none" \/ w \in carried
               \/ up /\ (batch[w] > 0 \/ "boot" \in rearm[w] \/ w \in unsaved)

\* A mark stands for somebody who waits: the work is watched, its completion
\* queued, or being armed again.  The exceptions are a watch that was cancelled
\* when the host quiesced, which resumeAfterRecreate takes for locally owned
\* (upgrade-recreate-resume.ts:262), and a rearm that failed.
MarkedIsWatched ==
    \A w \in Work :
        up /\ marker[w] # "none" /\ told[w] = 0 /\ w \notin unwatched \cup lost
            => watch[w] # "none" \/ queue[w] > 0 \/ batch[w] > 0 \/ rearm[w] # {}

\* The agent is told a result once.  Only a mark that could not be cleared, or
\* a carried wake restored although it had been taken, tells it again, once each.
ToldOnce ==
    \A w \in Work : told[w] <= 1 + used.faults + (IF w \in again THEN used.quiesces ELSE 0)

\* No completion is stranded: while one is queued a revival of its family is
\* under way, whose end takes it.  (A getRunner that throws, completion-revivals.ts
\* 169 and 284, would end it before; it is left out.)
NoneStranded ==
    \A w \in Work : queue[w] > 0 => reviver[FamilyOf(w)] # "idle"
=============================================================================
