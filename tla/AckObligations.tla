--------------------------- MODULE AckObligations ---------------------------
(***************************************************************************)
(* How the host remembers that it owes the user of one agent an answer     *)
(* (host/extensions/transcript: ack-obligations.ts,                        *)
(* sand-ack-obligation-store.ts), with what this hangs on: the sends       *)
(* (send-pipeline.ts, send-turn-dispatch.ts), the runs of the agent's      *)
(* queue, their in-flight count (run-lifecycle.ts) and the resumption of   *)
(* turns an upgrade interrupted (upgrade-recreate-resume.ts).              *)
(*                                                                         *)
(* A send records an obligation, durably.  A message of a run whose token  *)
(* is live fulfils it.  When the last run in flight ends and it is still   *)
(* there, a timer starts a redrive, at most MaxRedrives times.             *)
(*                                                                         *)
(* A step is one JavaScript job.  Turns follow the rules of AgentTurns:    *)
(* user turns first, one holder, an abandoned holder only for a user turn  *)
(* that waits.  A redrive, a resumption or a wake may begin again once it  *)
(* has ended, so their number bounds how many exist at a time.  Time,      *)
(* telemetry and group conversations (which owe no answer) are left out.   *)
(***************************************************************************)
EXTENDS Naturals, FiniteSets

CONSTANTS Send,         \* sends, and the turns they dispatch
          Redrive,      \* redrive runs
          Resume,       \* runs that resume an interrupted turn
          Wake,         \* background runs, which carry no token
          MaxRedrives,  \* MAX_ACK_REDRIVES
          MaxFaults,    \* bound on failed file operations
          MaxCrashes,   \* bound on process ends
          MaxQuiesces   \* bound on quiesceForUpgrade

Turn == Send \cup Redrive \cup Resume \cup Wake

ASSUME AckAssumption ==
    /\ IsFiniteSet(Redrive)
    /\ {MaxRedrives, MaxFaults, MaxCrashes, MaxQuiesces} \subseteq Nat
    /\ Send \cap (Redrive \cup Resume \cup Wake) = {}
    /\ Redrive \cap (Resume \cup Wake) = {}
    /\ Resume \cap Wake = {}

VARIABLES
    up,
    gone,       \* the agent is deleted
    quiescing,  \* quiescingForUpgrade
    phase,      \* where each turn is in its life
    tokens,     \* ackRunTokens: the turns whose token is live
    timer,      \* ackRedriveTimers has the agent
    store,      \* the agent's obligation in the store's cache
    file,       \* ... and in its file
    marker,     \* the agent's upgrade-resume marker, by its source
    used,       \* what the bounds count
    \* for the properties only
    answered,   \* the sends an answer followed
    excused,    \* ... or that were given up, or lost by a failed file operation
    begun,      \* redrive runs enqueued for the present obligation
    mine,       \* the redrives that were started for it
    missed      \* a redrive was refused and nothing has run since

counted == <<answered, excused, begun, mine, missed>>
vars == <<up, gone, quiescing, phase, tokens, timer, store, file, marker, used, counted>>

NoObligation == [attempts |-> 0, sends |-> {}]
Owing(o) == o.sends # {}

Phase == {"idle", "pinned", "recorded", "resolving", "queued", "running",
          "zombie", "done", "failed"}

TypeOK ==
    /\ {up, gone, quiescing, timer, missed} \subseteq BOOLEAN
    /\ phase \in [Turn -> Phase]
    /\ tokens \subseteq Turn \ Wake
    /\ {store, file} \subseteq [attempts : 0..MaxRedrives, sends : SUBSET Send]
    /\ marker \in {"none", "turn", "revival"}
    /\ used \in [faults : 0..MaxFaults, crashes : 0..MaxCrashes, quiesces : 0..MaxQuiesces]
    /\ answered \subseteq Send /\ excused \subseteq Send
    /\ begun \in Nat /\ mine \subseteq Redrive

Init ==
    /\ up = TRUE /\ gone = FALSE /\ quiescing = FALSE
    /\ phase = [t \in Turn |-> "idle"]
    /\ tokens = {} /\ timer = FALSE
    /\ store = NoObligation /\ file = NoObligation
    /\ marker = "none"
    /\ used = [faults |-> 0, crashes |-> 0, quiesces |-> 0]
    /\ answered = {} /\ excused = {} /\ begun = 0 /\ mine = {} /\ missed = FALSE

-----------------------------------------------------------------------------
(* The pieces the operations share.                                        *)

At(p) == {t \in Turn : phase[t] = p}
\* inFlightRunCounts: a send pins the session until its turn is enqueued.
InFlight == {t \in Turn : phase[t] \in {"pinned", "recorded", "queued", "running", "zombie"}}
Dispatched == {s \in Send : phase[s] \in {"queued", "running", "zombie", "done"}}

Fault(n) == used' = [used EXCEPT !.faults = @ + n] /\ used.faults + n <= MaxFaults

\* Writing obligation o: a write that fails changes neither file nor cache.
Write(o, ok) ==
    /\ store' = (IF ok THEN o ELSE store)
    /\ file' = (IF ok THEN o ELSE file)
    /\ Fault(IF ok THEN 0 ELSE 1)

Forget == mine' = {} /\ begun' = 0
Clear(ok) ==
    /\ Write(NoObligation, ok)
    /\ IF ok THEN Forget ELSE UNCHANGED <<begun, mine>>

\* recordSend: a new obligation, or one more send on the present one, whose
\* attempts stay.
RecordAfresh(o, s) == [attempts |-> 0, sends |-> o.sends \cup {s}]
RecordSend(o, s) == [o EXCEPT !.sends = @ \cup {s}]

\* armAckRedriveTimer, called when o is the obligation.
ArmTimer(o) ==
    /\ timer' = (timer \/ (~quiescing /\ Owing(o)))
    /\ missed' = (missed \/ (quiescing /\ Owing(o)))

\* endSessionRun of turn t: the last one in flight arms the timer.
Rest(t) == IF t \in Send THEN "done" ELSE "idle"
EndSessionRun(t, rest, o) ==
    /\ phase' = [phase EXCEPT ![t] = rest]
    /\ IF InFlight = {t} THEN ArmTimer(o) ELSE UNCHANGED <<timer, missed>>

-----------------------------------------------------------------------------
(* Sends.                                                                  *)

\* pinMemberSessionForGroupTurn.
Pin(s) ==
    /\ up /\ ~gone
    /\ phase[s] = "idle"
    /\ phase' = [phase EXCEPT ![s] = "pinned"]
    /\ missed' = FALSE
    /\ UNCHANGED <<up, gone, quiescing, tokens, timer, store, file, marker, used,
                   answered, excused, begun, mine>>

\* recordAckObligationSend, after the echoes.
RecordObligation(s) ==
    /\ phase[s] = "pinned"
    /\ phase' = [phase EXCEPT ![s] = "recorded"]
    /\ timer' = FALSE
    /\ \E ok \in BOOLEAN : Write(RecordSend(store, s), ok)
    /\ UNCHANGED <<up, gone, quiescing, tokens, marker, counted>>

\* sendPromptOnce throws: the guard records the obligation if an answer to an
\* earlier send has cleared it, then the pin is given up.
SendFails(s) ==
    /\ \/ /\ phase[s] = "pinned"
          /\ EndSessionRun(s, "failed", store)
          /\ UNCHANGED <<store, file, used>>
       \/ /\ phase[s] = "recorded"
          /\ IF Owing(store)
             THEN UNCHANGED <<store, file, used>>
             ELSE \E ok \in BOOLEAN : Write(RecordSend(store, s), ok)
          /\ EndSessionRun(s, "failed", store')
    /\ UNCHANGED <<up, gone, quiescing, tokens, marker, answered, excused, begun, mine>>

\* dispatchUserTurn: after the active run was interrupted the obligation is
\* confirmed; then the turn gets its token and is enqueued.
Dispatch(s) ==
    /\ phase[s] = "recorded"
    /\ timer' = FALSE
    /\ tokens' = tokens \cup {s}
    /\ phase' = [phase EXCEPT ![s] = "queued"]
    /\ IF Owing(store)
       THEN UNCHANGED <<store, file, used, excused>>
       ELSE \E ok \in BOOLEAN :
               /\ Write(RecordSend(store, s), ok)
               /\ excused' = (IF ok THEN excused ELSE excused \cup {s})
    /\ UNCHANGED <<up, gone, quiescing, marker, answered, begun, mine, missed>>

-----------------------------------------------------------------------------
(* Turns.                                                                  *)

UserWaits == \E s \in Send : phase[s] = "queued"
MayStart(t) == phase[t] = "queued" /\ (t \in Send \/ ~UserWaits)

\* A redrive that finds no obligation ends at once.
Start(t) ==
    /\ At("running") = {}
    /\ MayStart(t)
    /\ IF t \in Redrive /\ ~Owing(store)
       THEN EndSessionRun(t, Rest(t), store) /\ tokens' = tokens \ {t}
       ELSE phase' = [phase EXCEPT ![t] = "running"] /\ UNCHANGED <<tokens, timer, missed>>
    /\ UNCHANGED <<up, gone, quiescing, store, file, marker, used,
                   answered, excused, begun, mine>>

\* The run sends a message: fulfillAckObligation.  An escaped run may still do
\* so; it answers nobody.
Message(t) ==
    /\ phase[t] \in {"running", "zombie"} /\ t \notin Wake
    /\ IF t \in tokens /\ Owing(store)
       THEN (\E ok \in BOOLEAN : Clear(ok)) /\ timer' = FALSE
       ELSE UNCHANGED <<store, file, used, begun, mine, timer>>
    /\ answered' = (IF phase[t] = "running" /\ t \in tokens
                    THEN answered \cup Dispatched ELSE answered)
    /\ UNCHANGED <<up, gone, quiescing, phase, tokens, marker, excused, missed>>

\* The body ends, superseded, aborted, failed or done.
TurnEnds(t) ==
    /\ phase[t] \in {"running", "zombie"}
    /\ tokens' = tokens \ {t}
    /\ EndSessionRun(t, Rest(t), store)
    /\ UNCHANGED <<up, gone, quiescing, store, file, marker, used,
                   answered, excused, begun, mine>>

\* The runner gives up the run for the upgrade, and the turn is marked to be
\* resumed.  A redrive or a resumption is not.
Marked(t) ==
    IF t \in Send THEN "turn"
    ELSE IF t \in Wake /\ marker = "none" THEN "revival" ELSE marker
TurnQuiesces(t) ==
    /\ quiescing
    /\ phase[t] = "running"
    /\ marker' = Marked(t)
    /\ tokens' = tokens \ {t}
    /\ EndSessionRun(t, Rest(t), store)
    /\ UNCHANGED <<up, gone, quiescing, store, file, used, answered, excused, begun, mine>>

\* The watchdog escapes the holder for a user turn that waits: its token is
\* retired, its body goes on and stays in flight.
EscapeTrusting(t) ==
    /\ phase[t] = "running"
    /\ \E s \in Send : /\ phase[s] = "queued"
                       /\ phase' = [phase EXCEPT ![t] = "zombie", ![s] = "running"]
    /\ UNCHANGED <<up, gone, quiescing, tokens, timer, store, file, marker, used, counted>>
Escape(t) ==
    /\ phase[t] = "running"
    /\ \E s \in Send : /\ phase[s] = "queued"
                       /\ phase' = [phase EXCEPT ![t] = "zombie", ![s] = "running"]
    /\ tokens' = tokens \ {t}
    /\ UNCHANGED <<up, gone, quiescing, timer, store, file, marker, used, counted>>

\* Another background run of the agent, a revival for instance.
WakeBegins(w) ==
    /\ up /\ ~gone
    /\ phase[w] = "idle"
    /\ phase' = [phase EXCEPT ![w] = "queued"]
    /\ missed' = FALSE
    /\ UNCHANGED <<up, gone, quiescing, tokens, timer, store, file, marker, used,
                   answered, excused, begun, mine>>

-----------------------------------------------------------------------------
(* The redrive.                                                            *)

\* redriveAckObligation up to its await.
GiveUp(ok) ==
    /\ Clear(ok)
    /\ excused' = excused \cup Dispatched
    /\ missed' = (missed \/ ~ok)
    /\ UNCHANGED phase
RedriveBegins(r, ok) ==
    /\ Write([store EXCEPT !.attempts = @ + 1], ok)
    /\ phase' = [phase EXCEPT ![r] = "resolving"]
    /\ mine' = mine \cup {r}
    /\ UNCHANGED <<excused, begun, missed>>
TimerFires(r) ==
    /\ timer
    /\ phase[r] = "idle"
    /\ timer' = FALSE
    /\ \/ /\ quiescing \/ ~Owing(store)
          /\ missed' = (missed \/ Owing(store))
          /\ UNCHANGED <<phase, store, file, used, excused, begun, mine>>
       \/ /\ ~quiescing /\ Owing(store)
          /\ \E ok \in BOOLEAN :
                IF gone \/ store.attempts >= MaxRedrives
                THEN GiveUp(ok)
                ELSE RedriveBegins(r, ok)
    /\ UNCHANGED <<up, gone, quiescing, tokens, marker, answered>>

\* resolveBackgroundSession answers, or throws.
RedriveResolved(r) ==
    /\ phase[r] = "resolving"
    /\ phase' = [phase EXCEPT ![r] = "queued"]
    /\ tokens' = tokens \cup {r}
    /\ begun' = begun + (IF r \in mine THEN 1 ELSE 0)
    /\ missed' = FALSE
    /\ UNCHANGED <<up, gone, quiescing, timer, store, file, marker, used,
                   answered, excused, mine>>
RedriveUnresolvedForGood(r) ==
    /\ phase[r] = "resolving"
    /\ phase' = [phase EXCEPT ![r] = "idle"]
    /\ UNCHANGED <<up, gone, quiescing, tokens, timer, store, file, marker, used, counted>>
RedriveUnresolved(r) ==
    /\ phase[r] = "resolving"
    /\ phase' = [phase EXCEPT ![r] = "idle"]
    /\ ArmTimer(store)
    /\ UNCHANGED <<up, gone, quiescing, tokens, store, file, marker, used,
                   answered, excused, begun, mine>>

-----------------------------------------------------------------------------
(* Upgrades, deletion and restarts.                                        *)

\* quiesceForUpgrade; runs are asked to stop, see TurnQuiesces.
Quiesce ==
    /\ up /\ ~quiescing
    /\ used.quiesces < MaxQuiesces
    /\ quiescing' = TRUE
    /\ used' = [used EXCEPT !.quiesces = @ + 1]
    /\ UNCHANGED <<up, gone, phase, tokens, timer, store, file, marker, counted>>

\* resumeUpgradeAgent: a turn that owed an answer is resumed with a token, a
\* revival without.
Resumed(m) == IF m = "turn" THEN Resume ELSE Wake
ResumeMarked(m) ==
    \E t \in Resumed(m) : /\ phase[t] = "idle"
                          /\ phase' = [phase EXCEPT ![t] = "resolving"]

\* resumeAfterRecreate; the caller may list the agent without a marker.
ResumeAfterRecreate ==
    /\ up /\ quiescing
    /\ quiescing' = FALSE
    /\ marker' = "none"
    /\ \/ marker = "none" /\ UNCHANGED phase
       \/ gone /\ UNCHANGED phase
       \/ ~gone /\ ResumeMarked(IF marker = "none" THEN "turn" ELSE marker)
    /\ UNCHANGED <<up, gone, tokens, timer, store, file, used, counted>>

ResumeOwing(t) ==
    /\ phase[t] = "resolving"
    /\ phase' = [phase EXCEPT ![t] = "queued"]
    /\ tokens' = tokens \cup {t}
    /\ missed' = FALSE
    /\ UNCHANGED <<up, gone, quiescing, timer, store, file, marker, used,
                   answered, excused, begun, mine>>
ResumeResolved(t) ==
    /\ phase[t] = "resolving"
    /\ phase' = [phase EXCEPT ![t] = "queued"]
    /\ tokens' = (IF t \in Resume THEN tokens \cup {t} ELSE tokens)
    /\ missed' = FALSE
    /\ UNCHANGED <<up, gone, quiescing, timer, store, file, marker, used,
                   answered, excused, begun, mine>>
\* A resumption that cannot be resolved is dropped.
ResumeUnresolved(t) ==
    /\ phase[t] = "resolving"
    /\ phase' = [phase EXCEPT ![t] = "idle"]
    /\ UNCHANGED <<up, gone, quiescing, tokens, timer, store, file, marker, used, counted>>

\* interruptAgentForDeletion.
DeleteAgent ==
    /\ up /\ ~gone
    /\ gone' = TRUE
    /\ tokens' = {}
    /\ IF Owing(store)
       THEN (\E ok \in BOOLEAN : Clear(ok) /\ missed' = (missed \/ ~ok)) /\ timer' = FALSE
       ELSE UNCHANGED <<store, file, used, begun, mine, timer, missed>>
    /\ UNCHANGED <<up, quiescing, phase, marker, answered, excused>>

\* The process ends.  One that quiesces and is disposed marks an agent with
\* turns in flight, by the source of the run it knows last.
AfterEnd(t) ==
    IF t \notin Send THEN "idle"
    ELSE IF phase[t] \in {"pinned", "recorded"} THEN "failed"
    ELSE IF phase[t] \in {"queued", "running", "zombie"} THEN "done"
    ELSE phase[t]
LastSource ==
    IF At("running") \cap Wake = {} THEN {"turn"}
    ELSE {"turn", IF marker = "none" THEN "revival" ELSE marker}
Exit ==
    /\ up
    /\ used.crashes < MaxCrashes
    /\ up' = FALSE /\ quiescing' = FALSE
    /\ phase' = [t \in Turn |-> AfterEnd(t)]
    /\ tokens' = {} /\ timer' = FALSE
    /\ \/ UNCHANGED marker
       \/ quiescing /\ InFlight # {} /\ marker' \in LastSource
    /\ used' = [used EXCEPT !.crashes = @ + 1]
    /\ missed' = FALSE
    /\ UNCHANGED <<gone, store, file, answered, excused, begun, mine>>

\* The next process resumes what is marked and arms the timer.  A file it
\* cannot read is an empty one.
BootAt(n) ==
    /\ store' = (IF n = 0 THEN file ELSE NoObligation)
    /\ excused' = (IF n = 0 THEN excused ELSE excused \cup Dispatched)
    /\ begun' = (IF n = 0 THEN begun ELSE 0)
    /\ Fault(n)
Boot ==
    /\ ~up
    /\ up' = TRUE
    /\ \E n \in {0, 1} : BootAt(n)
    /\ marker' = "none"
    /\ IF marker = "none" \/ gone THEN UNCHANGED phase ELSE ResumeMarked(marker)
    /\ timer' = Owing(store')
    /\ mine' = {}
    /\ UNCHANGED <<gone, quiescing, tokens, file, answered, missed>>

-----------------------------------------------------------------------------
Next ==
    \/ \E s \in Send : Pin(s) \/ RecordObligation(s) \/ SendFails(s) \/ Dispatch(s)
    \/ \E t \in Turn : Start(t) \/ Message(t) \/ TurnEnds(t) \/ TurnQuiesces(t) \/ Escape(t)
    \/ \E w \in Wake : WakeBegins(w)
    \/ \E r \in Redrive : TimerFires(r) \/ RedriveResolved(r) \/ RedriveUnresolved(r)
    \/ \E t \in Resume \cup Wake : ResumeResolved(t) \/ ResumeUnresolved(t)
    \/ Quiesce \/ ResumeAfterRecreate \/ DeleteAgent \/ Exit \/ Boot

Spec == Init /\ [][Next]_vars

\* Timers fire and sessions are resolved or not.  Nothing obliges a user to
\* send, a run to answer or to end, or a host to quiesce.
Fairness ==
    /\ WF_vars(\E r \in Redrive : TimerFires(r))
    /\ \A r \in Redrive : WF_vars(RedriveResolved(r) \/ RedriveUnresolved(r))
FairSpec == Spec /\ Fairness

-----------------------------------------------------------------------------
(* Properties.                                                             *)

\* A send that was dispatched, that no message with a live token followed and
\* that was neither given up after MaxRedrives nor lost by a failed file
\* operation is owed an answer, on disk too: through interrupts, escapes,
\* earlier runs that answer late, upgrades and restarts.
UnansweredIsOwed ==
    ~gone /\ Dispatched \ (answered \cup excused) # {}
        => Owing(file) /\ (up => Owing(store))

\* While an answer is owed something is on the way that leads to the next
\* redrive: the timer, a run in flight, or a redrive being resolved.  The exception
\* is a redrive refused while the host quiesces, or given up without clearing
\* the file: until a run ends nothing leads to another (ack-obligations.ts:144).
RedriveIsComing ==
    up /\ Owing(store) /\ ~missed
        => timer \/ InFlight # {} \/ At("resolving") \cap Redrive # {}

\* Every redrive of an obligation is counted before it runs, in the file too:
\* neither a further send nor a restart renews the allowance, and only a failed
\* write may add to it.
RedrivesAreCounted ==
    Owing(store) => begun <= store.attempts + used.faults

\* If runs keep draining, what is owed is settled, answered or given up, unless
\* an upgrade or a restart intervenes or a redrive was missed.
Drains == []<>(InFlight = {})
OwedIsSettled ==
    Drains => ((up /\ Owing(store)) ~> (~Owing(store) \/ ~up \/ quiescing \/ missed))
=============================================================================
