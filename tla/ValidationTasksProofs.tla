----------------------- MODULE ValidationTasksProofs -----------------------
(***************************************************************************)
(* Proofs that the tables of the validation service agree, that a task     *)
(* underway is owned, that a stop is final and a delivery complete, and    *)
(* that the service implements TaskLifecycle, for every set of tasks and   *)
(* artifacts, both drivers and every bound.                                *)
(***************************************************************************)
EXTENDS ValidationTasks, SequenceTheorems, FiniteSetTheorems, TLAPS

Event == [type : EventType, to : Status]

\* What the tables hold of one task: its status s, its runs r, its events l.
RunsTell(s, r) ==
    /\ \A i \in 1..(Len(r) - 1) : r[i] \in Ended
    /\ s \in Underway => /\ r # <<>>
                         /\ r[Len(r)] \in {"preparing", "running"}
                         /\ s # "stopping" => r[Len(r)] = s
    /\ s \in {"none", "accepted"} => r = <<>>
    /\ s \in Ended /\ r # <<>> => r[Len(r)] = s
LogTells(s, l) ==
    /\ l # <<>> <=> s # "none"
    /\ l # <<>> => l[Len(l)].to = s
    /\ \A i \in 1..(Len(l) - 1) : l[i].to \notin Ended
StopIn(l) == \E i \in DOMAIN l : l[i].type = "stop.requested"
StopHolds(s, l) == StopIn(l) => s \in {"stopping", "cancelled", "interrupted"}

Row(s, r, l) ==
    /\ s \in Status \cup {"none"} /\ r \in Seq(RunStatus) /\ l \in Seq(Event)
    /\ RunsTell(s, r) /\ LogTells(s, l) /\ StopHolds(s, l)

Rows ==
    /\ status \in [Task -> Status \cup {"none"}]
    /\ runs \in [Task -> Seq(RunStatus)]
    /\ log \in [Task -> Seq(Event)]
    /\ \A t \in Task : Row(status[t], runs[t], log[t])

-----------------------------------------------------------------------------
(* One row.                                                                *)

\* The next event: a task that has not ended tells of its new status.
LEMMA LogGrows ==
    ASSUME NEW s \in Status \cup {"none"}, NEW l \in Seq(Event), LogTells(s, l), s \notin Ended,
           NEW e \in Event
    PROVE  /\ Append(l, e) \in Seq(Event)
           /\ LogTells(e.to, Append(l, e))
           /\ StopIn(Append(l, e)) <=> StopIn(l) \/ e.type = "stop.requested"
<1>. DEFINE m == Append(l, e)
<1>1. /\ m \in Seq(Event) /\ m # <<>> /\ Len(m) = Len(l) + 1 /\ Len(l) \in Nat
      /\ \A i \in 1..Len(l) : m[i] = l[i]
      /\ m[Len(l) + 1] = e
      /\ DOMAIN m = 1..Len(m) /\ DOMAIN l = 1..Len(l)
  BY AppendProperties, LenProperties
<1>2. e.to # "none"
  BY DEF Event, Status, Underway, Ended
<1>3. \A i \in 1..Len(l) : l[i].to \notin Ended
  <2>1. \A n \in Nat : \A i \in 1..n : i \in 1..(n - 1) \/ i = n
    OBVIOUS
  <2>2. \A i \in 1..Len(l) : l # <<>>
    BY EmptySeq, <1>1
  <2>. QED
    BY <1>1, <2>1, <2>2 DEF LogTells
<1>4. LogTells(e.to, m)
  <2>1. m[Len(m)] = e
    BY <1>1
  <2>2. \A i \in 1..(Len(m) - 1) : m[i] = l[i] /\ i \in 1..Len(l)
    BY <1>1
  <2>. QED
    BY <1>1, <1>2, <1>3, <2>1, <2>2 DEF LogTells
<1>5. StopIn(m) <=> StopIn(l) \/ e.type = "stop.requested"
  <2>1. DOMAIN m = DOMAIN l \cup {Len(l) + 1} /\ \A i \in DOMAIN l : m[i] = l[i]
    BY <1>1
  <2>. QED
    BY <1>1, <2>1 DEF StopIn
<1>. QED
  BY <1>1, <1>4, <1>5

\* The last run takes another status.
LEMMA LastRunChanges ==
    ASSUME NEW r \in Seq(RunStatus), r # <<>>, NEW x \in RunStatus
    PROVE  LET q == [r EXCEPT ![Len(r)] = x] IN
           /\ q \in Seq(RunStatus) /\ q # <<>> /\ Len(q) = Len(r)
           /\ q[Len(q)] = x
           /\ \A i \in 1..(Len(q) - 1) : q[i] = r[i]
<1>. DEFINE n == Len(r)
            q == [r EXCEPT ![n] = x]
<1>1. n \in 1..n /\ n \in Nat
  BY EmptySeq, LenProperties
<1>2. /\ q \in Seq(RunStatus) /\ Len(q) = n
      /\ \A j \in 1..n : q[j] = IF j = n THEN x ELSE r[j]
  BY <1>1, ExceptSeq
<1>3. q # <<>>
  BY <1>1, <1>2, EmptySeq
<1>. HIDE DEF q
<1>4. /\ q[Len(q)] = x
      /\ \A i \in 1..(Len(q) - 1) : q[i] = r[i]
  BY <1>1, <1>2
<1>. QED
  BY <1>2, <1>3, <1>4 DEF q

\* The changes of a row: claimed, running, stopped, finished.
LEMMA RowIsClaimed ==
    ASSUME NEW r, NEW l, Row("accepted", r, l)
    PROVE  LET m == l \o <<[type |-> "run.started", to |-> "preparing"],
                           [type |-> "run.stage_changed", to |-> "preparing"]>>
           IN  /\ Row("preparing", Append(r, "preparing"), m)
               /\ StopIn(m) <=> StopIn(l)
<1>. DEFINE e == [type |-> "run.started", to |-> "preparing"]
            f == [type |-> "run.stage_changed", to |-> "preparing"]
<1>1. e \in Event /\ f \in Event /\ e.to = "preparing" /\ f.to = "preparing"
      /\ e.type # "stop.requested" /\ f.type # "stop.requested"
  BY DEF Event, EventType, Status, Underway
<1>2. l \in Seq(Event) /\ LogTells("accepted", l) /\ "accepted" \in Status /\ ~StopIn(l)
  BY DEF Row, StopHolds, Status
<1>3. /\ Append(l, e) \in Seq(Event) /\ LogTells("preparing", Append(l, e))
      /\ StopIn(Append(l, e)) <=> StopIn(l)
  BY <1>1, <1>2, LogGrows DEF Ended
<1>4. /\ Append(Append(l, e), f) \in Seq(Event) /\ LogTells("preparing", Append(Append(l, e), f))
      /\ StopIn(Append(Append(l, e), f)) <=> StopIn(l)
  BY <1>1, <1>3, LogGrows DEF Ended, Status, Underway
<1>5. l \o <<e, f>> = Append(Append(l, e), f)
  BY <1>1, <1>2
<1>6. r = <<>> /\ r \in Seq(RunStatus)
  BY DEF Row, RunsTell
<1>7. Append(r, "preparing") = <<"preparing">> /\ <<"preparing">> \in Seq(RunStatus)
  BY <1>6 DEF RunStatus
<1>8. RunsTell("preparing", <<"preparing">>)
  BY DEF RunsTell, Ended
<1>. QED
  BY <1>2, <1>4, <1>5, <1>7, <1>8 DEF Row, StopHolds, Status, Underway

LEMMA RowRuns ==
    ASSUME NEW r, NEW l, Row("preparing", r, l)
    PROVE  LET m == Append(l, [type |-> "run.stage_changed", to |-> "running"])
           IN  /\ Row("running", [r EXCEPT ![Len(r)] = "running"], m)
               /\ StopIn(m) <=> StopIn(l)
<1>. DEFINE e == [type |-> "run.stage_changed", to |-> "running"]
            q == [r EXCEPT ![Len(r)] = "running"]
<1>1. e \in Event /\ e.to = "running" /\ e.type # "stop.requested"
  BY DEF Event, EventType, Status, Underway
<1>2. l \in Seq(Event) /\ LogTells("preparing", l) /\ "preparing" \in Status /\ ~StopIn(l)
  BY DEF Row, StopHolds, Status
<1>3. /\ Append(l, e) \in Seq(Event) /\ LogTells("running", Append(l, e))
      /\ StopIn(Append(l, e)) <=> StopIn(l)
  BY <1>1, <1>2, LogGrows DEF Ended
<1>4. /\ r \in Seq(RunStatus) /\ r # <<>> /\ RunsTell("preparing", r)
  BY DEF Row, RunsTell, Underway
<1>5. /\ q \in Seq(RunStatus) /\ q # <<>> /\ Len(q) = Len(r) /\ q[Len(q)] = "running"
      /\ \A i \in 1..(Len(q) - 1) : q[i] = r[i]
  BY <1>4, LastRunChanges DEF RunStatus
<1>6. RunsTell("running", q)
  BY <1>4, <1>5 DEF RunsTell, Ended
<1>. QED
  BY <1>2, <1>3, <1>5, <1>6 DEF Row, StopHolds, Status, Underway

LEMMA RowIsStopped ==
    ASSUME NEW s, NEW r, NEW l, Row(s, r, l), Stoppable(s)
    PROVE  LET m == Append(l, [type |-> "stop.requested", to |-> StopTarget(s)])
           IN  Row(StopTarget(s), r, m) /\ StopIn(m)
<1>. DEFINE e == [type |-> "stop.requested", to |-> StopTarget(s)]
<1>1. e \in Event /\ e.to = StopTarget(s) /\ e.type = "stop.requested"
      /\ StopTarget(s) \in {"cancelled", "stopping"}
  BY DEF Event, EventType, Status, Underway, StopTarget, Ended
<1>2. l \in Seq(Event) /\ LogTells(s, l) /\ s \in Status /\ s \notin Ended
  BY DEF Row, Stoppable, Status, Ended, Underway
<1>3. /\ Append(l, e) \in Seq(Event) /\ LogTells(StopTarget(s), Append(l, e)) /\ StopIn(Append(l, e))
  BY <1>1, <1>2, LogGrows
<1>4. r \in Seq(RunStatus) /\ RunsTell(StopTarget(s), r)
  BY DEF Row, RunsTell, Stoppable, StopTarget, Underway, Ended
<1>. QED
  BY <1>1, <1>3, <1>4 DEF Row, StopHolds, Status, Underway, Ended

LEMMA RowEnds ==
    ASSUME NEW s, NEW r, NEW l, Row(s, r, l), s \in Underway,
           NEW x \in Ended, s = "stopping" => x \in {"cancelled", "interrupted"}
    PROVE  LET m == Append(l, [type |-> "run.finished", to |-> x])
           IN  /\ Row(x, [r EXCEPT ![Len(r)] = x], m)
               /\ StopIn(m) <=> StopIn(l)
<1>. DEFINE e == [type |-> "run.finished", to |-> x]
            q == [r EXCEPT ![Len(r)] = x]
<1>1. e \in Event /\ e.to = x /\ e.type # "stop.requested"
  BY DEF Event, EventType, Status, Ended
<1>2. l \in Seq(Event) /\ LogTells(s, l) /\ s \in Status /\ StopHolds(s, l) /\ s \notin Ended
  BY DEF Row, Underway, Status, Ended
<1>3. /\ Append(l, e) \in Seq(Event) /\ LogTells(x, Append(l, e))
      /\ StopIn(Append(l, e)) <=> StopIn(l)
  BY <1>1, <1>2, LogGrows
<1>4. /\ r \in Seq(RunStatus) /\ r # <<>> /\ RunsTell(s, r)
  BY DEF Row, RunsTell
<1>5. /\ q \in Seq(RunStatus) /\ q # <<>> /\ Len(q) = Len(r) /\ q[Len(q)] = x
      /\ \A i \in 1..(Len(q) - 1) : q[i] = r[i]
  BY <1>4, LastRunChanges DEF RunStatus
<1>6. RunsTell(x, q)
  BY <1>4, <1>5 DEF RunsTell, Ended, Underway
<1>7. StopHolds(x, Append(l, e))
  BY <1>2, <1>3 DEF StopHolds, Underway
<1>. QED
  BY <1>3, <1>5, <1>6, <1>7 DEF Row, Status

-----------------------------------------------------------------------------
(* The tables.                                                             *)

\* One row changes.
LEMMA OneRow ==
    ASSUME Rows, NEW t \in Task, NEW s, NEW r, NEW l, Row(s, r, l),
           status' = [status EXCEPT ![t] = s],
           runs' = [runs EXCEPT ![t] = r],
           log' = [log EXCEPT ![t] = l]
    PROVE  /\ Rows'
           /\ status'[t] = s /\ \A u \in Task \ {t} : status'[u] = status[u]
           /\ Stopped(t)' <=> StopIn(l)
           /\ \A u \in Task \ {t} : Stopped(u)' <=> Stopped(u)
<1>1. /\ s \in Status \cup {"none"} /\ r \in Seq(RunStatus) /\ l \in Seq(Event)
  BY DEF Row
<1>2. /\ status' \in [Task -> Status \cup {"none"}]
      /\ runs' \in [Task -> Seq(RunStatus)]
      /\ log' \in [Task -> Seq(Event)]
      /\ status'[t] = s /\ runs'[t] = r /\ log'[t] = l
      /\ \A u \in Task \ {t} : status'[u] = status[u] /\ runs'[u] = runs[u] /\ log'[u] = log[u]
  BY <1>1 DEF Rows
<1>3. \A u \in Task : Row(status'[u], runs'[u], log'[u])
  BY <1>2 DEF Rows
<1>4. Rows'
  BY <1>2, <1>3 DEF Rows
<1>. QED
  BY <1>2, <1>4 DEF Stopped, StopIn

\* Rows hold what the runs check of the tables.
LEMMA RowsAgree == Rows => TablesAgree /\ StopWins
<1>. SUFFICES ASSUME Rows PROVE TablesAgree /\ StopWins
  OBVIOUS
<1>1. RunMatchesTask
  BY DEF Rows, Row, RunsTell, RunMatchesTask, LastRun
<1>2. LogTellsStatus
  BY DEF Rows, Row, LogTells, LogTellsStatus, Last
<1>3. StopWins
  BY DEF Rows, Row, StopHolds, StopIn, StopWins, Stopped
<1>. QED
  BY <1>1, <1>2, <1>3 DEF TablesAgree

\* finishRun ends a task that is underway, and a stop decides its outcome.
LEMMA Finishes ==
    ASSUME Rows, NEW t \in Task, status[t] \in Underway, NEW outcome \in Ended,
           status[t] = "stopping" => outcome # "failed", FinishRun(t, outcome)
    PROVE  \E x \in Ended :
              /\ Rows' /\ status' = [status EXCEPT ![t] = x]
              /\ \A u \in Task : Stopped(u)' <=> Stopped(u)
              /\ Stopped(t) => x \in {"cancelled", "interrupted"}
              /\ x = "delivered" => outcome = "delivered"
              /\ x = "interrupted" => outcome = "interrupted"
<1>. DEFINE x == ResolvedOutcome(t, outcome)
            l == Append(log[t], [type |-> "run.finished", to |-> x])
            r == [runs[t] EXCEPT ![Len(runs[t])] = x]
<1>1. Row(status[t], runs[t], log[t])
  BY DEF Rows
<1>2. LastRun(t) \notin Ended
  BY <1>1 DEF Row, RunsTell, LastRun, Ended
<1>3. /\ x \in Ended
      /\ status[t] = "stopping" => x \in {"cancelled", "interrupted"}
      /\ x = "delivered" => outcome = "delivered"
      /\ x = "interrupted" => outcome = "interrupted"
  BY DEF ResolvedOutcome, Ended
<1>. HIDE DEF x
<1>4. /\ status' = [status EXCEPT ![t] = x]
      /\ runs' = [runs EXCEPT ![t] = r]
      /\ log' = [log EXCEPT ![t] = l]
  BY <1>2 DEF FinishRun, WithLastRun, Logged, x
<1>5. Row(x, r, l) /\ (StopIn(l) <=> StopIn(log[t]))
  BY <1>1, <1>3, RowEnds
<1>. HIDE DEF l, r
<1>6. /\ Rows' /\ \A u \in Task \ {t} : Stopped(u)' <=> Stopped(u)
      /\ Stopped(t)' <=> StopIn(l)
  BY <1>4, <1>5, OneRow
<1>7. Stopped(t) <=> StopIn(log[t])
  BY DEF Stopped, StopIn
<1>8. Stopped(t) => status[t] = "stopping"
  BY <1>1, <1>7 DEF Row, StopHolds, Underway
<1>. QED
  BY <1>3, <1>4, <1>5, <1>6, <1>7, <1>8

-----------------------------------------------------------------------------
(* The life cycle.                                                         *)

LifeStep == [Lifecycle!Next]_(Lifecycle!vars)

LEMMA LifeStutters ==
    ASSUME \A t \in Task : StageOf(t)' = StageOf(t),
           \A t \in Task : Stopped(t)' <=> Stopped(t),
           kept' = kept
    PROVE  LifeStep
<1>1. [t \in Task |-> StageOf(t)]' = [t \in Task |-> StageOf(t)]
  OBVIOUS
<1>2. {t \in Task : Stopped(t)}' = {t \in Task : Stopped(t)}
  OBVIOUS
<1>. QED
  BY <1>1, <1>2 DEF LifeStep, Lifecycle!vars

\* One task goes to another stage.
LEMMA LifeMoves ==
    ASSUME NEW t \in Task, NEW s, StageOf(t)' = s,
           \A u \in Task \ {t} : StageOf(u)' = StageOf(u)
    PROVE  Lifecycle!Moves(t, s)
<1>1. [u \in Task |-> StageOf(u)]' = [[u \in Task |-> StageOf(u)] EXCEPT ![t] = s]
  OBVIOUS
<1>. QED
  BY <1>1 DEF Lifecycle!Moves

LEMMA LifeAccepts ==
    ASSUME NEW t \in Task, StageOf(t) = "none", StageOf(t)' = "waiting",
           \A u \in Task \ {t} : StageOf(u)' = StageOf(u),
           \A u \in Task : Stopped(u)' <=> Stopped(u),
           kept' = kept
    PROVE  LifeStep
<1>1. Lifecycle!Moves(t, "waiting")
  BY LifeMoves
<1>2. {u \in Task : Stopped(u)}' = {u \in Task : Stopped(u)}
  OBVIOUS
<1>3. Lifecycle!Accept(t)
  BY <1>1, <1>2 DEF Lifecycle!Accept
<1>. QED
  BY <1>3 DEF LifeStep, Lifecycle!Next

LEMMA LifeTakes ==
    ASSUME NEW t \in Task, StageOf(t) = "waiting", StageOf(t)' = "working",
           \A u \in Task \ {t} : StageOf(u)' = StageOf(u),
           \A u \in Task : Stopped(u)' <=> Stopped(u),
           kept' = kept
    PROVE  LifeStep
<1>1. Lifecycle!Moves(t, "working")
  BY LifeMoves
<1>2. {u \in Task : Stopped(u)}' = {u \in Task : Stopped(u)}
  OBVIOUS
<1>3. Lifecycle!Take(t)
  BY <1>1, <1>2 DEF Lifecycle!Take
<1>. QED
  BY <1>3 DEF LifeStep, Lifecycle!Next

LEMMA LifeStops ==
    ASSUME NEW t \in Task, ~Stopped(t), Stopped(t)',
           \/ StageOf(t) = "waiting" /\ StageOf(t)' = "cancelled"
           \/ StageOf(t) = "working" /\ StageOf(t)' = "working",
           \A u \in Task \ {t} : StageOf(u)' = StageOf(u) /\ (Stopped(u)' <=> Stopped(u)),
           kept' = kept
    PROVE  LifeStep
<1>1. {u \in Task : Stopped(u)}' = {u \in Task : Stopped(u)} \cup {t}
  OBVIOUS
<1>2. CASE StageOf(t) = "waiting" /\ StageOf(t)' = "cancelled"
  <2>1. Lifecycle!Moves(t, "cancelled")
    BY <1>2, LifeMoves
  <2>2. Lifecycle!RequestStop(t)
    BY <1>1, <1>2, <2>1 DEF Lifecycle!RequestStop
  <2>. QED
    BY <2>2 DEF LifeStep, Lifecycle!Next
<1>3. CASE StageOf(t) = "working" /\ StageOf(t)' = "working"
  <2>1. [u \in Task |-> StageOf(u)]' = [u \in Task |-> StageOf(u)]
    BY <1>3
  <2>2. Lifecycle!RequestStop(t)
    BY <1>1, <1>3, <2>1 DEF Lifecycle!RequestStop
  <2>. QED
    BY <2>2 DEF LifeStep, Lifecycle!Next
<1>. QED
  BY <1>2, <1>3

LEMMA LifeAdds ==
    ASSUME NEW t \in Task, NEW more \in SUBSET Artifact, StageOf(t) = "working",
           \A u \in Task : StageOf(u)' = StageOf(u) /\ (Stopped(u)' <=> Stopped(u)),
           kept' = [kept EXCEPT ![t] = @ \cup more]
    PROVE  LifeStep
<1>1. [u \in Task |-> StageOf(u)]' = [u \in Task |-> StageOf(u)]
  OBVIOUS
<1>2. {u \in Task : Stopped(u)}' = {u \in Task : Stopped(u)}
  OBVIOUS
<1>3. Lifecycle!AddFiles(t, more)
  BY <1>1, <1>2 DEF Lifecycle!AddFiles
<1>. QED
  BY <1>3 DEF LifeStep, Lifecycle!Next

LEMMA LifeEnds ==
    ASSUME NEW t \in Task, NEW x \in Ended, NEW more \in SUBSET Artifact,
           StageOf(t) = "working", StageOf(t)' = x,
           \A u \in Task \ {t} : StageOf(u)' = StageOf(u),
           \A u \in Task : Stopped(u)' <=> Stopped(u),
           Stopped(t) => x \in {"cancelled", "interrupted"},
           kept' = [kept EXCEPT ![t] = @ \cup more],
           x = "delivered" => kept[t] \cup more = Artifact
    PROVE  LifeStep
<1>1. Lifecycle!Moves(t, x)
  BY LifeMoves
<1>2. {u \in Task : Stopped(u)}' = {u \in Task : Stopped(u)}
  OBVIOUS
<1>3. Lifecycle!End(t, x, more)
  BY <1>1, <1>2 DEF Lifecycle!End
<1>. QED
  BY <1>3 DEF LifeStep, Lifecycle!Next, Lifecycle!Outcome, Ended

-----------------------------------------------------------------------------
(* The invariant.                                                          *)

World ==
    /\ arrivals \in Seq(Task)
    /\ kept \in [Task -> SUBSET Artifact]
    /\ phase \in Phase /\ job \in Task \cup {None}
    /\ job = None <=> phase = "idle"
    /\ aborted \in BOOLEAN /\ heard \in BOOLEAN
    /\ todo \in SUBSET Artifact
    /\ proc \in {"up", "disposing", "stopped", "crashed", "recovering"}
    /\ sessions \in SUBSET Task
    /\ restarts \in 0..MaxRestarts /\ faults \in 0..MaxFaults
    /\ givenUp \in SUBSET Task

\* The worker's task is underway, and only a process that is up has a worker.
Held == job # None => status[job] \in Underway /\ proc \in {"up", "disposing"}

\* A session is that of a task underway or of one a restart interrupted, and
\* the worker's own only while it awaits it.
SessionsHeld ==
    \A t \in sessions : /\ status[t] \in Underway \cup {"interrupted"}
                        /\ t = job => phase = "executing"

\* The files recorded so far, and those still to come, are the whole result.
RecordingKeeps == phase = "recording" => Artifact \ todo \subseteq kept[job]

IInv ==
    /\ Rows /\ World /\ Held /\ SessionsHeld
    /\ RecordingKeeps /\ DeliveredIsComplete /\ ActiveIsOwned

LEMMA InvariantGives ==
    IInv => TypeOK /\ TablesAgree /\ StopWins /\ EndedMeansStopped
<1>. SUFFICES ASSUME IInv PROVE TypeOK /\ EndedMeansStopped
  BY RowsAgree DEF IInv
<1>1. TypeOK
  BY DEF IInv, Rows, World, TypeOK, Event
<1>2. EndedMeansStopped
  BY DEF IInv, SessionsHeld, World, EndedMeansStopped, Underway
<1>. QED
  BY <1>1, <1>2

LEMMA InitIInv == Init => IInv
<1>. SUFFICES ASSUME Init PROVE IInv
  OBVIOUS
<1>1. \A t \in Task : Row(status[t], runs[t], log[t])
  <2>1. /\ <<>> \in Seq(RunStatus) /\ Len(<<>>) = 0
        /\ <<>> \in Seq(Event) /\ DOMAIN <<>> = {}
    OBVIOUS
  <2>. QED
    BY <2>1 DEF Init, Row, RunsTell, LogTells, StopHolds, StopIn, Underway, Ended
<1>2. Rows
  BY <1>1 DEF Init, Rows
<1>3. World
  <2>1. <<>> \in Seq(Task) /\ 0 \in 0..MaxRestarts /\ 0 \in 0..MaxFaults
    BY ValidationAssumption
  <2>. QED
    BY <2>1 DEF Init, World, Phase
<1>4. Held /\ SessionsHeld /\ RecordingKeeps
  BY DEF Init, Held, SessionsHeld, RecordingKeeps
<1>5. DeliveredIsComplete /\ ActiveIsOwned
  BY DEF Init, DeliveredIsComplete, ActiveIsOwned, Underway
<1>. QED
  BY <1>2, <1>3, <1>4, <1>5 DEF IInv

\* A stage is that of the status.
LEMMA Stages ==
    ASSUME Rows, Rows'
    PROVE  \A t \in Task :
              /\ status[t] = "none" <=> StageOf(t) = "none"
              /\ status[t] = "accepted" <=> StageOf(t) = "waiting"
              /\ status[t] \in Underway <=> StageOf(t) = "working"
              /\ status[t] \in Ended => StageOf(t) = status[t]
              /\ status'[t] = status[t] => StageOf(t)' = StageOf(t)
              /\ status'[t] = "accepted" => StageOf(t)' = "waiting"
              /\ status'[t] \in Underway => StageOf(t)' = "working"
              /\ status'[t] \in Ended => StageOf(t)' = status'[t]
BY DEF Rows, StageOf, Status, Underway, Ended

\* The rows stay.
LEMMA RowsStay ==
    ASSUME Rows, UNCHANGED rows
    PROVE  /\ Rows' /\ status' = status
           /\ \A t \in Task : StageOf(t)' = StageOf(t) /\ (Stopped(t)' <=> Stopped(t))
BY DEF rows, Rows, StageOf, Stopped

-----------------------------------------------------------------------------
(* The ends of a run.                                                      *)

\* The files of the worker's task, `more` of them new.
Keeps(more) == kept' = [kept EXCEPT ![job] = @ \cup more]

\* The worker ends its task.
LEMMA JobEnds ==
    ASSUME IInv, phase # "idle", NEW outcome \in Ended \ {"interrupted"},
           status[job] = "stopping" => outcome # "failed",
           FinishRun(job, outcome), Release,
           NEW more \in SUBSET Artifact, Keeps(more),
           outcome = "delivered" => kept[job] \cup more = Artifact,
           sessions' = sessions \ {job}, faults' \in 0..MaxFaults,
           UNCHANGED <<arrivals, proc, restarts, givenUp>>
    PROVE  IInv' /\ LifeStep
<1>1. job \in Task /\ status[job] \in Underway
  BY DEF IInv, World, Held
<1>2. PICK x \in Ended :
         /\ Rows' /\ status' = [status EXCEPT ![job] = x]
         /\ \A u \in Task : Stopped(u)' <=> Stopped(u)
         /\ Stopped(job) => x \in {"cancelled", "interrupted"}
         /\ x = "delivered" => outcome = "delivered"
         /\ x = "interrupted" => outcome = "interrupted"
  BY <1>1, Finishes DEF IInv
<1>3. status'[job] = x /\ \A u \in Task \ {job} : status'[u] = status[u]
  BY <1>1, <1>2 DEF IInv, Rows
<1>4. kept' \in [Task -> SUBSET Artifact] /\ kept'[job] = kept[job] \cup more
      /\ \A u \in Task \ {job} : kept'[u] = kept[u]
  BY <1>1 DEF IInv, World, Keeps
<1>5. World'
  BY <1>4, ValidationAssumption DEF IInv, World, Release, Phase
<1>6. Held' /\ RecordingKeeps'
  BY DEF Release, Held, RecordingKeeps
<1>7. SessionsHeld'
  BY <1>3, <1>5, ValidationAssumption DEF IInv, World, SessionsHeld, Release
<1>8. DeliveredIsComplete'
  BY <1>2, <1>3, <1>4 DEF IInv, DeliveredIsComplete
<1>9. ActiveIsOwned'
  BY <1>1, <1>3 DEF IInv, ActiveIsOwned, Release, Ended, Underway
<1>10. LifeStep
  <2>1. Rows /\ Rows'
    BY <1>2 DEF IInv
  <2>. PICK t \in Task : t = job
    BY <1>1
  <2>2. StageOf(t) = "working"
    BY <1>1, <2>1, Stages
  <2>3. StageOf(t)' = x
    BY <1>3, <2>1, Stages
  <2>4. \A u \in Task \ {t} : StageOf(u)' = StageOf(u)
    BY <1>3, <2>1, Stages
  <2>5. x = "delivered" => kept[t] \cup more = Artifact
    BY <1>2
  <2>6. /\ kept' = [kept EXCEPT ![t] = @ \cup more]
        /\ \A u \in Task : Stopped(u)' <=> Stopped(u)
        /\ Stopped(t) => x \in {"cancelled", "interrupted"}
    BY <1>2 DEF Keeps
  <2>. QED
    BY <2>2, <2>3, <2>4, <2>5, <2>6, LifeEnds
<1>. QED
  BY <1>2, <1>5, <1>6, <1>7, <1>8, <1>9, <1>10 DEF IInv

\* The store throws once more, and the worker drops its task.
LEMMA JobDropped ==
    ASSUME IInv, phase # "idle", UNCHANGED rows, Release,
           NEW more \in SUBSET Artifact, Keeps(more),
           sessions' = sessions \ {job}, faults' \in 0..MaxFaults,
           givenUp' = givenUp \cup {job},
           UNCHANGED <<arrivals, proc, restarts>>
    PROVE  IInv' /\ LifeStep
<1>1. job \in Task /\ status[job] \in Underway
  BY DEF IInv, World, Held
<1>2. /\ Rows' /\ status' = status
      /\ \A t \in Task : StageOf(t)' = StageOf(t) /\ (Stopped(t)' <=> Stopped(t))
  BY RowsStay DEF IInv
<1>3. kept' \in [Task -> SUBSET Artifact] /\ \A u \in Task \ {job} : kept'[u] = kept[u]
  BY <1>1 DEF IInv, World, Keeps
<1>4. World'
  BY <1>1, <1>3, ValidationAssumption DEF IInv, World, Release, Phase
<1>5. Held' /\ RecordingKeeps'
  BY DEF Release, Held, RecordingKeeps
<1>6. SessionsHeld'
  BY <1>2, <1>4, ValidationAssumption DEF IInv, World, SessionsHeld, Release
<1>7. DeliveredIsComplete'
  BY <1>1, <1>2, <1>3 DEF IInv, DeliveredIsComplete, Underway
<1>8. ActiveIsOwned'
  BY <1>2 DEF IInv, ActiveIsOwned, Release
<1>9. LifeStep
  <2>1. StageOf(job) = "working"
    BY <1>1, <1>2, Stages DEF IInv
  <2>. QED
    BY <1>1, <1>2, <2>1, LifeAdds DEF Keeps
<1>. QED
  BY <1>2, <1>4, <1>5, <1>6, <1>7, <1>8, <1>9 DEF IInv

\* The end of the catch of runClaimed.
LEMMA RunFails ==
    ASSUME IInv, phase # "idle", NEW spent \in {0, 1}, faults + spent <= MaxFaults,
           FailRun(spent), NEW more \in SUBSET Artifact, Keeps(more),
           sessions' = sessions \ {job}, UNCHANGED <<arrivals, proc, restarts>>
    PROVE  IInv' /\ LifeStep
<1>1. faults \in Nat /\ MaxFaults \in Nat /\ faults + spent \in 0..MaxFaults
  BY ValidationAssumption DEF IInv, World
<1>2. CASE /\ FinishRun(job, IF aborted \/ status[job] = "stopping"
                             THEN "cancelled" ELSE "failed")
           /\ faults' = faults + spent
           /\ UNCHANGED givenUp
  <2>1. CASE aborted \/ status[job] = "stopping"
    BY <1>1, <1>2, <2>1, JobEnds DEF FailRun, Ended
  <2>2. CASE ~(aborted \/ status[job] = "stopping")
    BY <1>1, <1>2, <2>2, JobEnds DEF FailRun, Ended
  <2>. QED
    BY <2>1, <2>2
<1>3. CASE /\ faults + spent < MaxFaults
           /\ faults' = faults + spent + 1
           /\ givenUp' = givenUp \cup {job}
           /\ UNCHANGED rows
  <2>1. faults' \in 0..MaxFaults
    BY <1>1, <1>3
  <2>. QED
    BY <1>3, <2>1, JobDropped DEF FailRun
<1>. QED
  BY <1>2, <1>3 DEF FailRun

\* What a step of the worker within its run may change: neither the rows nor
\* whose run it is.
LEMMA RunGoesOn ==
    ASSUME IInv, phase # "idle", UNCHANGED rows, UNCHANGED <<arrivals, job, proc, restarts, givenUp>>,
           phase' \in Phase \ {"idle"}, aborted' \in BOOLEAN, heard' \in BOOLEAN,
           todo' \in SUBSET Artifact, faults' \in 0..MaxFaults,
           NEW more \in SUBSET Artifact, Keeps(more),
           \/ sessions' = sessions \ {job}
           \/ sessions' = sessions \cup {job} /\ phase' = "executing"
           \/ sessions' = sessions /\ phase = "executing" /\ phase' = "executing",
           phase' = "recording" => Artifact \ todo' \subseteq kept[job] \cup more
    PROVE  IInv' /\ LifeStep
<1>1. job \in Task /\ status[job] \in Underway
  BY DEF IInv, World, Held
<1>2. /\ Rows' /\ status' = status
      /\ \A t \in Task : StageOf(t)' = StageOf(t) /\ (Stopped(t)' <=> Stopped(t))
  BY RowsStay DEF IInv
<1>3. kept' \in [Task -> SUBSET Artifact] /\ kept'[job] = kept[job] \cup more
      /\ \A u \in Task \ {job} : kept'[u] = kept[u]
  BY <1>1 DEF IInv, World, Keeps
<1>4. World'
  BY <1>1, <1>3 DEF IInv, World
<1>5. Held' /\ RecordingKeeps'
  BY <1>2, <1>3 DEF IInv, Held, RecordingKeeps
<1>6. SessionsHeld'
  BY <1>1, <1>2 DEF IInv, SessionsHeld
<1>7. DeliveredIsComplete'
  BY <1>1, <1>2, <1>3 DEF IInv, DeliveredIsComplete, Underway
<1>8. ActiveIsOwned'
  BY <1>2 DEF IInv, ActiveIsOwned
<1>9. LifeStep
  <2>1. StageOf(job) = "working"
    BY <1>1, <1>2, Stages DEF IInv
  <2>. QED
    BY <1>1, <1>2, <2>1, LifeAdds DEF Keeps
<1>. QED
  BY <1>2, <1>4, <1>5, <1>6, <1>7, <1>8, <1>9 DEF IInv

\* The start of that catch.
LEMMA RunIsRescued ==
    ASSUME IInv, phase # "idle", NEW spent \in {0, 1}, Rescue(spent),
           NEW more \in SUBSET Artifact, Keeps(more),
           sessions' = sessions \ {job}, UNCHANGED <<arrivals, proc, restarts>>
    PROVE  IInv' /\ LifeStep
<1>1. faults + spent <= MaxFaults /\ faults \in Nat /\ MaxFaults \in Nat
      /\ faults + spent \in 0..MaxFaults
  BY ValidationAssumption DEF IInv, World, Rescue
<1>3. CASE Driver = "docker"
  <2>1. /\ phase' = "gathering" /\ todo' = {} /\ faults' = faults + spent
        /\ UNCHANGED rows /\ UNCHANGED <<job, aborted, heard, givenUp>>
    BY <1>3 DEF Rescue
  <2>. QED
    BY <1>1, <2>1, RunGoesOn DEF IInv, World, Phase
<1>4. CASE Driver # "docker"
  BY <1>1, <1>4, RunFails DEF Rescue
<1>. QED
  BY <1>3, <1>4

-----------------------------------------------------------------------------
(* The clients' operations and the claim.                                  *)

LEMMA CreateTaskKeeps ==
    ASSUME IInv, NEW t \in Task, CreateTask(t) PROVE IInv' /\ LifeStep
<1>. DEFINE e == [type |-> "task.accepted", to |-> "accepted"]
            l == Append(log[t], e)
<1>1. /\ status[t] = "none" /\ status' = [status EXCEPT ![t] = "accepted"]
      /\ runs' = [runs EXCEPT ![t] = runs[t]] /\ log' = [log EXCEPT ![t] = l]
      /\ arrivals' = Append(arrivals, t) /\ kept' = kept
      /\ UNCHANGED <<worker, world>>
  BY DEF CreateTask, Logged, IInv, Rows
<1>2. Row("none", runs[t], log[t])
  BY <1>1 DEF IInv, Rows
<1>3. e \in Event /\ e.to = "accepted" /\ e.type # "stop.requested"
  BY DEF Event, EventType, Status
<1>4. /\ l \in Seq(Event) /\ LogTells("accepted", l) /\ ~StopIn(l) /\ ~StopIn(log[t])
  BY <1>2, <1>3, LogGrows DEF Row, StopHolds, Ended
<1>5. Row("accepted", runs[t], l)
  BY <1>2, <1>4 DEF Row, RunsTell, StopHolds, Status, Underway, Ended
<1>. HIDE DEF l
<1>6. /\ Rows' /\ status'[t] = "accepted" /\ \A u \in Task \ {t} : status'[u] = status[u]
      /\ Stopped(t)' <=> StopIn(l)
      /\ \A u \in Task \ {t} : Stopped(u)' <=> Stopped(u)
  BY <1>1, <1>5, OneRow DEF IInv
<1>7. Stopped(t)' <=> Stopped(t)
  BY <1>4, <1>6 DEF Stopped, StopIn
<1>8. Append(arrivals, t) \in Seq(Task)
  BY DEF IInv, World
<1>9. World'
  BY <1>1, <1>8 DEF IInv, World, worker, world
<1>10. Held' /\ SessionsHeld' /\ RecordingKeeps'
  BY <1>1, <1>6 DEF IInv, World, Held, SessionsHeld, RecordingKeeps, worker, world, Underway
<1>11. DeliveredIsComplete' /\ ActiveIsOwned'
  BY <1>1, <1>6 DEF IInv, DeliveredIsComplete, ActiveIsOwned, worker, world, Underway
<1>12. LifeStep
  <2>1. Rows /\ Rows'
    BY <1>6 DEF IInv
  <2>2. StageOf(t) = "none" /\ StageOf(t)' = "waiting"
    BY <1>1, <1>6, <2>1, Stages
  <2>3. \A u \in Task \ {t} : StageOf(u)' = StageOf(u)
    BY <1>6, <2>1, Stages
  <2>. QED
    BY <1>1, <1>6, <1>7, <2>2, <2>3, LifeAccepts
<1>. QED
  BY <1>6, <1>9, <1>10, <1>11, <1>12 DEF IInv

LEMMA StopKeeps ==
    ASSUME IInv, NEW t \in Task, Stop(t) PROVE IInv' /\ LifeStep
<1>1. /\ UNCHANGED <<runs, arrivals, kept, phase, job, todo, world>>
      /\ aborted' \in BOOLEAN /\ heard' \in BOOLEAN
  BY DEF Stop, Abort, IInv, World
<1>2. World'
  BY <1>1 DEF IInv, World, world
<1>3. CASE ~Stoppable(status[t])
  <2>1. UNCHANGED rows
    BY <1>1, <1>3 DEF Stop, rows
  <2>2. /\ Rows' /\ status' = status
        /\ \A u \in Task : StageOf(u)' = StageOf(u) /\ (Stopped(u)' <=> Stopped(u))
    BY <2>1, RowsStay DEF IInv
  <2>3. /\ Held' /\ SessionsHeld' /\ RecordingKeeps'
        /\ DeliveredIsComplete' /\ ActiveIsOwned'
    BY <1>1, <2>2 DEF IInv, Held, SessionsHeld, RecordingKeeps, DeliveredIsComplete,
                      ActiveIsOwned, world
  <2>4. LifeStep
    BY <1>1, <2>2, LifeStutters
  <2>. QED
    BY <1>2, <2>2, <2>3, <2>4 DEF IInv
<1>4. CASE Stoppable(status[t])
  <2>. DEFINE s == StopTarget(status[t])
              l == Append(log[t], [type |-> "stop.requested", to |-> s])
  <2>1. /\ status' = [status EXCEPT ![t] = s]
        /\ runs' = [runs EXCEPT ![t] = runs[t]] /\ log' = [log EXCEPT ![t] = l]
    BY <1>1, <1>4 DEF Stop, Logged, IInv, Rows
  <2>2. Row(status[t], runs[t], log[t])
    BY DEF IInv, Rows
  <2>3. Row(s, runs[t], l) /\ StopIn(l)
    BY <1>4, <2>2, RowIsStopped
  <2>. HIDE DEF l
  <2>4. /\ Rows' /\ status'[t] = s /\ \A u \in Task \ {t} : status'[u] = status[u]
        /\ Stopped(t)'
        /\ \A u \in Task \ {t} : Stopped(u)' <=> Stopped(u)
    BY <2>1, <2>3, OneRow DEF IInv
  <2>5. ~Stopped(t)
    BY <1>4, <2>2 DEF Row, StopHolds, StopIn, Stopped, Stoppable
  <2>6. \/ status[t] = "accepted" /\ s = "cancelled"
        \/ status[t] \in {"preparing", "running"} /\ s = "stopping"
    BY <1>4 DEF Stoppable, StopTarget
  <2>. HIDE DEF s
  <2>7. Held' /\ RecordingKeeps'
    BY <1>1, <2>4, <2>6 DEF IInv, World, Held, RecordingKeeps, world, Underway
  <2>8. SessionsHeld'
    BY <1>1, <2>4, <2>6 DEF IInv, World, SessionsHeld, world, Underway
  <2>9. DeliveredIsComplete' /\ ActiveIsOwned'
    BY <1>1, <2>4, <2>6 DEF IInv, DeliveredIsComplete, ActiveIsOwned, world, Underway
  <2>10. LifeStep
    <3>1. Rows /\ Rows'
      BY <2>4 DEF IInv
    <3>2. \/ StageOf(t) = "waiting" /\ StageOf(t)' = "cancelled"
          \/ StageOf(t) = "working" /\ StageOf(t)' = "working"
      BY <2>4, <2>6, <3>1, Stages DEF Underway, Ended
    <3>3. \A u \in Task \ {t} : StageOf(u)' = StageOf(u)
      BY <2>4, <3>1, Stages
    <3>. QED
      BY <1>1, <2>4, <2>5, <3>2, <3>3, LifeStops
  <2>. QED
    BY <1>2, <2>4, <2>7, <2>8, <2>9, <2>10 DEF IInv
<1>. QED
  BY <1>3, <1>4

LEMMA ClaimKeeps ==
    ASSUME IInv, NEW t \in Task, Claim(t) PROVE IInv' /\ LifeStep
<1>. DEFINE l == log[t] \o <<[type |-> "run.started", to |-> "preparing"],
                             [type |-> "run.stage_changed", to |-> "preparing"]>>
            r == Append(runs[t], "preparing")
<1>1. /\ status[t] = "accepted" /\ proc = "up" /\ job = None
      /\ status' = [status EXCEPT ![t] = "preparing"]
      /\ runs' = [runs EXCEPT ![t] = r] /\ log' = [log EXCEPT ![t] = l]
      /\ phase' = "preparing" /\ job' = t /\ kept' = kept
      /\ UNCHANGED <<arrivals, aborted, heard, todo, world>>
  BY DEF Claim, OldestAccepted, IInv, World
<1>2. Row("accepted", runs[t], log[t])
  BY <1>1 DEF IInv, Rows
<1>3. Row("preparing", r, l) /\ (StopIn(l) <=> StopIn(log[t]))
  BY <1>2, RowIsClaimed
<1>. HIDE DEF l, r
<1>4. /\ Rows' /\ status'[t] = "preparing" /\ \A u \in Task \ {t} : status'[u] = status[u]
      /\ Stopped(t)' <=> StopIn(l)
      /\ \A u \in Task \ {t} : Stopped(u)' <=> Stopped(u)
  BY <1>1, <1>3, OneRow DEF IInv
<1>5. Stopped(t)' <=> Stopped(t)
  BY <1>3, <1>4 DEF Stopped, StopIn
<1>6. World'
  BY <1>1, ValidationAssumption DEF IInv, World, world, Phase
<1>7. Held' /\ RecordingKeeps'
  BY <1>1, <1>4 DEF Held, RecordingKeeps, world, Underway
<1>8. SessionsHeld'
  <2>1. t \notin sessions /\ sessions \subseteq Task /\ sessions' = sessions
    BY <1>1 DEF IInv, World, SessionsHeld, world, Underway
  <2>2. \A u \in sessions : status[u] \in Underway \cup {"interrupted"}
    BY DEF IInv, SessionsHeld
  <2>. QED
    BY <1>1, <1>4, <2>1, <2>2 DEF SessionsHeld
<1>9. DeliveredIsComplete'
  BY <1>1, <1>4 DEF IInv, DeliveredIsComplete
<1>10. ActiveIsOwned'
  <2>1. job' = t /\ proc' = proc /\ givenUp' = givenUp /\ proc = "up" /\ job = None
    BY <1>1 DEF world
  <2>2. \A u \in Task : status[u] \in Underway => u \in givenUp
    BY <2>1, ValidationAssumption DEF IInv, ActiveIsOwned
  <2>. QED
    BY <1>4, <2>1, <2>2 DEF ActiveIsOwned
<1>11. LifeStep
  <2>1. Rows /\ Rows'
    BY <1>4 DEF IInv
  <2>2. StageOf(t) = "waiting" /\ StageOf(t)' = "working"
    BY <1>1, <1>4, <2>1, Stages DEF Underway
  <2>3. \A u \in Task \ {t} : StageOf(u)' = StageOf(u)
    BY <1>4, <2>1, Stages
  <2>. QED
    BY <1>1, <1>4, <1>5, <2>2, <2>3, LifeTakes
<1>. QED
  BY <1>4, <1>6, <1>7, <1>8, <1>9, <1>10, <1>11 DEF IInv

-----------------------------------------------------------------------------
(* The run.                                                                *)

LEMMA NothingKept ==
    ASSUME IInv, UNCHANGED kept PROVE Keeps({}) /\ {} \in SUBSET Artifact
BY DEF IInv, World, Keeps

LEMMA WallClockKeeps == ASSUME IInv, WallClock PROVE IInv' /\ LifeStep
<1>1. /\ UNCHANGED rows /\ UNCHANGED <<arrivals, job, proc, restarts, givenUp, kept, phase, todo, faults, sessions>>
      /\ aborted' \in BOOLEAN /\ heard' \in BOOLEAN
  BY DEF WallClock, Abort, IInv, World, database, world
<1>2. /\ Rows' /\ status' = status
      /\ \A u \in Task : StageOf(u)' = StageOf(u) /\ (Stopped(u)' <=> Stopped(u))
  BY <1>1, RowsStay DEF IInv
<1>3. World' /\ Held' /\ SessionsHeld' /\ RecordingKeeps' /\ DeliveredIsComplete' /\ ActiveIsOwned'
  BY <1>1, <1>2 DEF IInv, World, Held, SessionsHeld, RecordingKeeps, DeliveredIsComplete, ActiveIsOwned
<1>4. LifeStep
  BY <1>1, <1>2, LifeStutters
<1>. QED
  BY <1>2, <1>3, <1>4 DEF IInv

\* Outside the wait for a session the worker's task has none.
LEMMA NoSessionYet ==
    ASSUME IInv, phase # "executing" PROVE sessions \ {job} = sessions
BY DEF IInv, SessionsHeld

LEMMA PrepareReturnsKeeps == ASSUME IInv, PrepareReturns PROVE IInv' /\ LifeStep
<1>1. /\ phase = "preparing" /\ job \in Task /\ status[job] \in Underway
      /\ UNCHANGED <<arrivals, kept, proc, restarts>>
  BY DEF PrepareReturns, IInv, World, Held
<1>2. sessions \ {job} = sessions
  BY <1>1, NoSessionYet
<1>3. CASE StoppedBeforeRunning
  <2>1. faults' \in 0..MaxFaults
    BY <1>3 DEF StoppedBeforeRunning, IInv, World
  <2>. QED
    BY <1>1, <1>2, <1>3, <2>1, NothingKept, JobEnds DEF StoppedBeforeRunning, Ended
<1>4. CASE Rescue(1) /\ UNCHANGED sessions
  BY <1>1, <1>2, <1>4, NothingKept, RunIsRescued
<1>5. CASE MarkRunRunning
  <2>. PICK t \in Task : t = job
    BY <1>1
  <2>. DEFINE l == Append(log[t], [type |-> "run.stage_changed", to |-> "running"])
              r == [runs[t] EXCEPT ![Len(runs[t])] = "running"]
  <2>1. /\ status[t] = "preparing" /\ status' = [status EXCEPT ![t] = "running"]
        /\ runs' = [runs EXCEPT ![t] = r] /\ log' = [log EXCEPT ![t] = l]
        /\ phase' \in {"launching", "executing"}
        /\ sessions' = sessions \/ (sessions' = sessions \cup {t} /\ phase' = "executing")
        /\ job' = t
        /\ UNCHANGED <<aborted, heard, todo, faults, givenUp>>
    BY <1>5 DEF MarkRunRunning, WithLastRun, Logged
  <2>2. Row("preparing", runs[t], log[t])
    BY <2>1 DEF IInv, Rows
  <2>3. Row("running", r, l) /\ (StopIn(l) <=> StopIn(log[t]))
    BY <2>2, RowRuns
  <2>. HIDE DEF l, r
  <2>4. /\ Rows' /\ status'[t] = "running" /\ \A u \in Task \ {t} : status'[u] = status[u]
        /\ Stopped(t)' <=> StopIn(l)
        /\ \A u \in Task \ {t} : Stopped(u)' <=> Stopped(u)
    BY <2>1, <2>3, OneRow DEF IInv
  <2>5. Stopped(t)' <=> Stopped(t)
    BY <2>3, <2>4 DEF Stopped, StopIn
  <2>6. World'
    BY <1>1, <2>1, ValidationAssumption DEF IInv, World, Phase
  <2>7. Held' /\ RecordingKeeps'
    BY <1>1, <2>1, <2>4 DEF IInv, Held, RecordingKeeps, Underway
  <2>8. SessionsHeld'
    BY <1>2, <2>1, <2>4 DEF IInv, World, SessionsHeld, Underway
  <2>9. DeliveredIsComplete' /\ ActiveIsOwned'
    BY <1>1, <2>1, <2>4 DEF IInv, DeliveredIsComplete, ActiveIsOwned
  <2>10. LifeStep
    <3>1. Rows /\ Rows'
      BY <2>4 DEF IInv
    <3>2. StageOf(t)' = StageOf(t)
      BY <2>1, <2>4, <3>1, Stages DEF Underway
    <3>3. \A u \in Task \ {t} : StageOf(u)' = StageOf(u)
      BY <2>4, <3>1, Stages
    <3>. QED
      BY <1>1, <2>4, <2>5, <3>2, <3>3, LifeStutters
  <2>. QED
    BY <2>4, <2>6, <2>7, <2>8, <2>9, <2>10 DEF IInv
<1>. QED
  BY <1>3, <1>4, <1>5 DEF PrepareReturns

\* The steps that end nothing but a wait.
LEMMA LaunchReturnsKeeps == ASSUME IInv, LaunchReturns PROVE IInv' /\ LifeStep
<1>1. /\ phase = "launching" /\ phase' = "executing" /\ sessions' = sessions \cup {job}
      /\ UNCHANGED rows
      /\ UNCHANGED <<arrivals, kept, job, aborted, heard, todo, proc, restarts, faults, givenUp>>
  BY DEF LaunchReturns, database
<1>. QED
  BY <1>1, NothingKept, RunGoesOn DEF IInv, World, Phase

LEMMA ExecuteReturnsKeeps == ASSUME IInv, ExecuteReturns PROVE IInv' /\ LifeStep
<1>1. /\ phase = "executing" /\ phase' = "recording" /\ sessions' = sessions \ {job}
      /\ todo' = Artifact /\ UNCHANGED rows
      /\ UNCHANGED <<arrivals, kept, job, aborted, heard, proc, restarts, faults, givenUp>>
  BY DEF ExecuteReturns, database
<1>. QED
  BY <1>1, NothingKept, RunGoesOn DEF IInv, World, Phase

\* The steps that lead into the catch of runClaimed.
LEMMA ThrowKeeps ==
    ASSUME IInv, PrepareThrows \/ LaunchThrows \/ ExecuteThrows
    PROVE  IInv' /\ LifeStep
<1>1. faults + 0 <= MaxFaults
  BY ValidationAssumption DEF IInv, World
<1>2. CASE PrepareThrows
  <2>1. /\ phase = "preparing" /\ FailRun(0) /\ UNCHANGED <<arrivals, kept, proc, sessions, restarts>>
    BY <1>2 DEF PrepareThrows
  <2>2. sessions' = sessions \ {job}
    BY <2>1, NoSessionYet
  <2>. QED
    BY <1>1, <2>1, <2>2, NothingKept, RunFails
<1>3. CASE LaunchThrows
  <2>1. /\ phase = "launching" /\ Rescue(0) /\ UNCHANGED <<arrivals, kept, proc, sessions, restarts>>
    BY <1>3 DEF LaunchThrows
  <2>2. sessions' = sessions \ {job}
    BY <2>1, NoSessionYet
  <2>. QED
    BY <2>1, <2>2, NothingKept, RunIsRescued
<1>4. CASE ExecuteThrows
  BY <1>4, NothingKept, RunIsRescued DEF ExecuteThrows
<1>. QED
  BY <1>2, <1>3, <1>4

LEMMA RecordArtifactKeeps ==
    ASSUME IInv, NEW a \in Artifact, RecordArtifact(a) PROVE IInv' /\ LifeStep
<1>1. /\ phase = "recording" /\ a \in todo /\ {a} \in SUBSET Artifact /\ Keeps({a})
      /\ UNCHANGED <<arrivals, proc, sessions, restarts>>
  BY DEF RecordArtifact, Keep, Keeps
<1>2. sessions' = sessions \ {job}
  BY <1>1, NoSessionYet
<1>3. /\ Artifact \ todo \subseteq kept[job] /\ job \in Task /\ todo \subseteq Artifact
      /\ kept[job] \subseteq Artifact
  BY <1>1 DEF IInv, RecordingKeeps, World
<1>4. CASE todo # {a}
  <2>1. /\ todo' = todo \ {a} /\ UNCHANGED rows /\ UNCHANGED <<phase, job, aborted, heard, faults, givenUp>>
    BY <1>4 DEF RecordArtifact
  <2>2. Artifact \ todo' \subseteq kept[job] \cup {a}
    BY <1>3, <2>1
  <2>. QED
    BY <1>1, <1>2, <1>3, <2>1, <2>2, RunGoesOn DEF IInv, World
<1>5. CASE todo = {a} /\ FinishRun(job, "delivered") /\ Release /\ UNCHANGED <<faults, givenUp>>
  <2>1. kept[job] \cup {a} = Artifact
    BY <1>3, <1>5
  <2>2. faults' \in 0..MaxFaults
    BY <1>5 DEF IInv, World
  <2>. QED
    BY <1>1, <1>2, <1>5, <2>1, <2>2, JobEnds DEF Ended
<1>6. CASE todo = {a} /\ Rescue(1)
  BY <1>1, <1>2, <1>6, RunIsRescued
<1>. QED
  BY <1>4, <1>5, <1>6 DEF RecordArtifact

LEMMA ArtifactIsRefusedKeeps ==
    ASSUME IInv, NEW a \in Artifact, ArtifactIsRefused(a) PROVE IInv' /\ LifeStep
<1>1. /\ phase = "recording"
      /\ Rescue(0) \/ Rescue(1)
      /\ UNCHANGED <<arrivals, kept, proc, sessions, restarts>>
  BY DEF ArtifactIsRefused
<1>2. sessions' = sessions \ {job}
  BY <1>1, NoSessionYet
<1>. QED
  BY <1>1, <1>2, NothingKept, RunIsRescued

LEMMA GatherReturnsKeeps ==
    ASSUME IInv, NEW found \in SUBSET Artifact, GatherReturns(found) PROVE IInv' /\ LifeStep
<1>1. /\ phase = "gathering" /\ UNCHANGED <<arrivals, kept, proc, sessions, restarts>>
      /\ faults + 0 <= MaxFaults
  BY ValidationAssumption DEF GatherReturns, IInv, World
<1>2. sessions' = sessions \ {job}
  BY <1>1, NoSessionYet
<1>3. CASE found \subseteq kept[job]
  BY <1>1, <1>2, <1>3, NothingKept, RunFails DEF GatherReturns
<1>4. CASE ~(found \subseteq kept[job])
  <2>1. /\ phase' = "keeping" /\ todo' = found \ kept[job]
        /\ UNCHANGED rows /\ UNCHANGED <<job, aborted, heard, faults, givenUp>>
    BY <1>4 DEF GatherReturns
  <2>. QED
    BY <1>1, <1>2, <2>1, NothingKept, RunGoesOn DEF IInv, World, Phase
<1>. QED
  BY <1>3, <1>4

LEMMA KeepPartialKeeps ==
    ASSUME IInv, NEW a \in Artifact, KeepPartial(a) PROVE IInv' /\ LifeStep
<1>1. /\ phase = "keeping" /\ UNCHANGED <<arrivals, proc, sessions, restarts>>
      /\ faults + 0 <= MaxFaults
  BY ValidationAssumption DEF KeepPartial, IInv, World
<1>2. sessions' = sessions \ {job}
  BY <1>1, NoSessionYet
<1>3. PICK more \in SUBSET Artifact : Keeps(more)
  <2>1. CASE Keep(a)
    <3>. {a} \in SUBSET Artifact
      OBVIOUS
    <3>. QED
      BY <2>1 DEF Keep, Keeps
  <2>2. CASE UNCHANGED kept
    BY <2>2, NothingKept
  <2>. QED
    BY <2>1, <2>2 DEF KeepPartial
<1>4. CASE todo = {a}
  BY <1>1, <1>2, <1>3, <1>4, RunFails DEF KeepPartial
<1>5. CASE todo # {a}
  <2>1. /\ todo' = todo \ {a} /\ UNCHANGED rows
        /\ UNCHANGED <<phase, job, aborted, heard, faults, givenUp>>
    BY <1>5 DEF KeepPartial
  <2>. QED
    BY <1>1, <1>2, <1>3, <2>1, RunGoesOn DEF IInv, World, Phase
<1>. QED
  BY <1>4, <1>5

LEMMA PartialFailsKeeps == ASSUME IInv, PartialFails PROVE IInv' /\ LifeStep
<1>1. /\ phase \in {"gathering", "keeping"} /\ FailRun(0)
      /\ UNCHANGED <<arrivals, kept, proc, sessions, restarts>> /\ faults + 0 <= MaxFaults
  BY ValidationAssumption DEF PartialFails, IInv, World
<1>2. sessions' = sessions \ {job}
  BY <1>1, NoSessionYet
<1>. QED
  BY <1>1, <1>2, NothingKept, RunFails

-----------------------------------------------------------------------------
(* The process.                                                            *)

\* A process that crashes, is shut down, restarts or serves changes no row.
LEMMA ProcessKeeps ==
    ASSUME IInv, Crash \/ Shutdown \/ Exit \/ Restart \/ Serve
    PROVE  IInv' /\ LifeStep
<1>1. UNCHANGED rows /\ UNCHANGED <<arrivals, kept, faults, givenUp>>
  BY DEF Crash, Shutdown, Exit, Restart, Serve, database
<1>2. /\ Rows' /\ status' = status
      /\ \A u \in Task : StageOf(u)' = StageOf(u) /\ (Stopped(u)' <=> Stopped(u))
  BY <1>1, RowsStay DEF IInv
<1>3. LifeStep
  BY <1>1, <1>2, LifeStutters
<1>4. DeliveredIsComplete'
  BY <1>1, <1>2 DEF IInv, DeliveredIsComplete
<1>5. restarts \in Nat /\ MaxRestarts \in Nat /\ restarts <= MaxRestarts
  BY ValidationAssumption DEF IInv, World
<1>6. CASE Crash
  <2>1. /\ restarts < MaxRestarts /\ restarts' = restarts + 1 /\ proc' = "crashed"
        /\ phase' = "idle" /\ job' = None /\ aborted' = FALSE /\ heard' = FALSE /\ todo' = {}
        /\ sessions' \in {sessions, {}}
    BY <1>6 DEF Crash, Release
  <2>2. restarts' \in 0..MaxRestarts
    BY <1>5, <2>1
  <2>3. World'
    BY <1>1, <2>1, <2>2, ValidationAssumption DEF IInv, World, Phase
  <2>4. SessionsHeld'
    BY <1>2, <2>1, <2>3, ValidationAssumption DEF IInv, World, SessionsHeld
  <2>5. Held' /\ RecordingKeeps' /\ ActiveIsOwned'
    BY <2>1 DEF Held, RecordingKeeps, ActiveIsOwned
  <2>. QED
    BY <1>2, <1>3, <1>4, <2>3, <2>4, <2>5 DEF IInv
<1>7. CASE Shutdown
  <2>1. /\ restarts < MaxRestarts /\ restarts' = restarts + 1 /\ proc = "up" /\ proc' = "disposing"
        /\ aborted' \in BOOLEAN /\ heard' \in BOOLEAN
        /\ UNCHANGED <<phase, job, todo, sessions>>
    BY <1>7 DEF Shutdown, Abort, IInv, World
  <2>2. restarts' \in 0..MaxRestarts
    BY <1>5, <2>1
  <2>3. World'
    BY <1>1, <2>1, <2>2 DEF IInv, World
  <2>4. Held' /\ SessionsHeld' /\ RecordingKeeps' /\ ActiveIsOwned'
    BY <1>1, <1>2, <2>1 DEF IInv, Held, SessionsHeld, RecordingKeeps, ActiveIsOwned
  <2>. QED
    BY <1>2, <1>3, <1>4, <2>3, <2>4 DEF IInv
<1>8. CASE Exit \/ Restart \/ Serve
  <2>1. UNCHANGED <<phase, job, aborted, heard, todo, sessions, restarts>>
    BY <1>8 DEF Exit, Restart, Serve, worker
  <2>2. /\ job = None
        /\ proc' \in {"stopped", "recovering", "up"}
    BY <1>8 DEF Exit, Restart, Serve, IInv, World, Held
  <2>3. World'
    BY <1>1, <2>1, <2>2 DEF IInv, World
  <2>4. Held' /\ SessionsHeld' /\ RecordingKeeps'
    BY <1>1, <1>2, <2>1, <2>2 DEF IInv, Held, SessionsHeld, RecordingKeeps
  <2>5. ActiveIsOwned'
    <3>1. CASE Exit \/ Serve
      <4>1. \A t \in Task : status[t] \in Underway => t \in givenUp
        BY <2>2, <3>1, ValidationAssumption
           DEF IInv, ActiveIsOwned, Exit, Serve, Recoverable, Underway
      <4>. QED
        BY <1>1, <1>2, <4>1 DEF ActiveIsOwned
    <3>2. CASE Restart
      BY <3>2 DEF Restart, ActiveIsOwned
    <3>. QED
      BY <1>8, <3>1, <3>2
  <2>. QED
    BY <1>2, <1>3, <1>4, <2>3, <2>4, <2>5 DEF IInv
<1>. QED
  BY <1>6, <1>7, <1>8

LEMMA RecoverTaskKeeps ==
    ASSUME IInv, NEW t \in Task, RecoverTask(t) PROVE IInv' /\ LifeStep
<1>1. /\ proc = "recovering" /\ status[t] \in Underway /\ job = None
      /\ UNCHANGED <<arrivals, kept, phase, job, aborted, heard, todo, proc, sessions, restarts, faults>>
      /\ givenUp' = givenUp \ {t}
  BY DEF RecoverTask, Recoverable, Underway, worker, IInv, Held
<1>2. runs[t] # <<>> /\ LastRun(t) \notin Ended
  BY <1>1 DEF IInv, Rows, Row, RunsTell, LastRun, Ended
<1>3. FinishRun(t, "interrupted")
  BY <1>2 DEF RecoverTask
<1>4. PICK x \in Ended :
         /\ Rows' /\ status' = [status EXCEPT ![t] = x]
         /\ \A u \in Task : Stopped(u)' <=> Stopped(u)
         /\ Stopped(t) => x \in {"cancelled", "interrupted"}
         /\ x = "delivered" => "interrupted" = "delivered"
         /\ x = "interrupted" => "interrupted" = "interrupted"
  BY <1>1, <1>3, Finishes DEF IInv, Ended
<1>5. x = "interrupted"
  <2>1. status' = [status EXCEPT ![t] = "interrupted"]
    BY <1>2, <1>3 DEF FinishRun, ResolvedOutcome
  <2>. QED
    BY <1>4, <2>1 DEF IInv, Rows
<1>6. status'[t] = "interrupted" /\ \A u \in Task \ {t} : status'[u] = status[u]
  BY <1>4, <1>5 DEF IInv, Rows
<1>7. World'
  BY <1>1 DEF IInv, World
<1>8. Held' /\ SessionsHeld' /\ RecordingKeeps'
  BY <1>1, <1>6 DEF IInv, World, Held, SessionsHeld, RecordingKeeps
<1>9. DeliveredIsComplete' /\ ActiveIsOwned'
  BY <1>1, <1>6 DEF IInv, DeliveredIsComplete, ActiveIsOwned
<1>10. LifeStep
  <2>1. Rows /\ Rows'
    BY <1>4 DEF IInv
  <2>2. StageOf(t) = "working" /\ StageOf(t)' = x
    BY <1>1, <1>5, <1>6, <2>1, Stages DEF Ended
  <2>3. \A u \in Task \ {t} : StageOf(u)' = StageOf(u)
    BY <1>6, <2>1, Stages
  <2>4. kept' = [kept EXCEPT ![t] = @ \cup {}] /\ {} \in SUBSET Artifact
    BY <1>1 DEF IInv, World
  <2>5. x # "delivered"
    BY <1>5
  <2>. QED
    BY <1>4, <2>2, <2>3, <2>4, <2>5, LifeEnds
<1>. QED
  BY <1>4, <1>7, <1>8, <1>9, <1>10 DEF IInv

LEMMA OrphanEndsKeeps ==
    ASSUME IInv, NEW t \in Task, OrphanEnds(t) PROVE IInv' /\ LifeStep
<1>1. /\ UNCHANGED rows /\ UNCHANGED <<arrivals, kept, phase, job, aborted, heard, todo>>
      /\ UNCHANGED <<proc, restarts, faults, givenUp>> /\ sessions' = sessions \ {t}
  BY DEF OrphanEnds, database, worker
<1>2. /\ Rows' /\ status' = status
      /\ \A u \in Task : StageOf(u)' = StageOf(u) /\ (Stopped(u)' <=> Stopped(u))
  BY <1>1, RowsStay DEF IInv
<1>3. World' /\ Held' /\ SessionsHeld' /\ RecordingKeeps' /\ DeliveredIsComplete' /\ ActiveIsOwned'
  BY <1>1, <1>2 DEF IInv, World, Held, SessionsHeld, RecordingKeeps, DeliveredIsComplete, ActiveIsOwned
<1>4. LifeStep
  BY <1>1, <1>2, LifeStutters
<1>. QED
  BY <1>2, <1>3, <1>4 DEF IInv

-----------------------------------------------------------------------------
(* The theorems.                                                           *)

LEMMA NextIInv == IInv /\ [Next]_vars => IInv' /\ LifeStep
<1>. SUFFICES ASSUME IInv, [Next]_vars PROVE IInv' /\ LifeStep
  OBVIOUS
<1>1. CASE UNCHANGED vars
  <2>1. /\ UNCHANGED rows /\ UNCHANGED <<arrivals, kept, phase, job, aborted, heard, todo>>
        /\ UNCHANGED <<proc, sessions, restarts, faults, givenUp>>
    BY <1>1 DEF vars, database, worker, world
  <2>2. /\ Rows' /\ status' = status
        /\ \A u \in Task : StageOf(u)' = StageOf(u) /\ (Stopped(u)' <=> Stopped(u))
    BY <2>1, RowsStay DEF IInv
  <2>3. World' /\ Held' /\ SessionsHeld' /\ RecordingKeeps' /\ DeliveredIsComplete' /\ ActiveIsOwned'
    BY <2>1, <2>2 DEF IInv, World, Held, SessionsHeld, RecordingKeeps, DeliveredIsComplete, ActiveIsOwned
  <2>4. LifeStep
    BY <2>1, <2>2, LifeStutters
  <2>. QED
    BY <2>2, <2>3, <2>4 DEF IInv
<1>2. CASE \E t \in Task : CreateTask(t) \/ Stop(t) \/ Claim(t)
  BY <1>2, CreateTaskKeeps, StopKeeps, ClaimKeeps
<1>3. CASE WallClock \/ PrepareReturns \/ LaunchReturns \/ ExecuteReturns
  BY <1>3, WallClockKeeps, PrepareReturnsKeeps, LaunchReturnsKeeps, ExecuteReturnsKeeps
<1>4. CASE PrepareThrows \/ LaunchThrows \/ ExecuteThrows
  BY <1>4, ThrowKeeps
<1>5. CASE \E a \in Artifact : RecordArtifact(a) \/ ArtifactIsRefused(a) \/ KeepPartial(a)
  BY <1>5, RecordArtifactKeeps, ArtifactIsRefusedKeeps, KeepPartialKeeps
<1>6. CASE \E found \in SUBSET Artifact : GatherReturns(found)
  BY <1>6, GatherReturnsKeeps
<1>7. CASE PartialFails
  BY <1>7, PartialFailsKeeps
<1>8. CASE Crash \/ Shutdown \/ Exit \/ Restart \/ Serve
  BY <1>8, ProcessKeeps
<1>9. CASE \E t \in Task : RecoverTask(t) \/ OrphanEnds(t)
  BY <1>9, RecoverTaskKeeps, OrphanEndsKeeps
<1>. QED
  BY <1>1, <1>2, <1>3, <1>4, <1>5, <1>6, <1>7, <1>8, <1>9 DEF Next

LEMMA IInvAlways == Spec => []IInv
BY InitIInv, NextIInv, PTL DEF Spec

\* Every reachable state has the declared types.
THEOREM ServiceTypeCorrect == Spec => []TypeOK
<1>1. IInv => TypeOK
  BY InvariantGives
<1>. QED
  BY <1>1, IInvAlways, PTL

\* The tables of tasks, runs and events tell one story at every commit.
THEOREM TablesAlwaysAgree == Spec => []TablesAgree
<1>1. IInv => TablesAgree
  BY InvariantGives
<1>. QED
  BY <1>1, IInvAlways, PTL

\* No result and no error that arrives after a stop was recorded delivers or
\* fails the task.
THEOREM StopsWin == Spec => []StopWins
<1>1. IInv => StopWins
  BY InvariantGives
<1>. QED
  BY <1>1, IInvAlways, PTL

\* A task underway is the worker's, or recovery will end it, or the worker
\* dropped it on a store fault.
THEOREM UnderwayIsOwned == Spec => []ActiveIsOwned
<1>1. IInv => ActiveIsOwned
  BY DEF IInv
<1>. QED
  BY <1>1, IInvAlways, PTL

\* What the worker shows as ended no longer executes.
THEOREM EndedHasStopped == Spec => []EndedMeansStopped
<1>1. IInv => EndedMeansStopped
  BY InvariantGives
<1>. QED
  BY <1>1, IInvAlways, PTL

\* A delivered task has every file of its result.
THEOREM DeliveriesAreComplete == Spec => []DeliveredIsComplete
<1>1. IInv => DeliveredIsComplete
  BY DEF IInv
<1>. QED
  BY <1>1, IInvAlways, PTL

\* The initial states are those of the life cycle.
LEMMA InitMapsToLifecycle == Init => Lifecycle!Init
<1>. SUFFICES ASSUME Init PROVE Lifecycle!Init
  OBVIOUS
<1>1. \A t \in Task : StageOf(t) = "none" /\ ~Stopped(t)
  BY DEF Init, StageOf, Stopped, Underway
<1>. QED
  BY <1>1 DEF Lifecycle!Init, Init

\* The service implements the life cycle: every step of the tables, the worker
\* and the process is one of its steps, or changes nothing a client sees.
THEOREM ServiceImplementsLifecycle == Spec => ImplementsLifecycle
<1>1. IInv /\ [Next]_vars => [Lifecycle!Next]_(Lifecycle!vars)
  BY NextIInv DEF LifeStep
<1>. QED
  BY <1>1, InitMapsToLifecycle, IInvAlways, PTL DEF Spec, ImplementsLifecycle, Lifecycle!Spec

-----------------------------------------------------------------------------
(* Sessions without a worker.                                              *)

\* Sessions that no worker holds: containers that outlived a crash of the
\* service, at most one for each.
Orphans == sessions \ {job}
OrphansAreCounted ==
    /\ IsFiniteSet(sessions)
    /\ Cardinality(Orphans) <= IF Driver = "docker" THEN restarts ELSE 0

\* No step but a crash takes a session from the worker that holds it.
LEMMA OnlyCrashesOrphan ==
    ASSUME IInv, [Next]_vars, ~Crash
    PROVE  /\ Orphans' \subseteq Orphans
           /\ sessions' \subseteq sessions \cup {job}
           /\ restarts' \in {restarts, restarts + 1}
<1>1. /\ sessions \subseteq Task /\ None \notin sessions
      /\ job \in sessions => phase = "executing"
  BY ValidationAssumption DEF IInv, World, SessionsHeld
<1>2. CASE UNCHANGED vars
  BY <1>2 DEF vars, world, worker, Orphans
<1>3. CASE \E t \in Task : CreateTask(t) \/ Stop(t)
  BY <1>3 DEF CreateTask, Stop, world, worker, Orphans
<1>4. CASE \E t \in Task : Claim(t)
  BY <1>1, <1>4 DEF Claim, world, Orphans, IInv, World
<1>5. CASE WallClock \/ Shutdown \/ Exit \/ Restart \/ Serve
  BY <1>5 DEF WallClock, Shutdown, Exit, Restart, Serve, world, worker, Orphans
<1>6. ASSUME NEW spent, FailRun(spent) \/ Rescue(spent)
      PROVE  job' \in {job, None}
  BY <1>6 DEF FailRun, Rescue, Release
<1>7. CASE PrepareThrows \/ LaunchThrows \/ PartialFails
  <2>1. /\ sessions' = sessions /\ restarts' = restarts /\ job' \in {job, None}
        /\ phase # "executing"
    BY <1>6, <1>7 DEF PrepareThrows, LaunchThrows, PartialFails
  <2>. QED
    BY <1>1, <2>1 DEF Orphans
<1>8. CASE PrepareReturns
  <2>1. /\ sessions' \subseteq sessions \cup {job} /\ restarts' = restarts
        /\ phase = "preparing"
        /\ job' = job \/ (job' = None /\ sessions' = sessions)
    BY <1>6, <1>8 DEF PrepareReturns, StoppedBeforeRunning, MarkRunRunning, Release
  <2>. QED
    BY <1>1, <2>1 DEF Orphans
<1>9. CASE LaunchReturns \/ ExecuteReturns
  BY <1>9 DEF LaunchReturns, ExecuteReturns, Orphans
<1>10. CASE ExecuteThrows
  <2>1. sessions' = sessions \ {job} /\ restarts' = restarts /\ job' \in {job, None}
    BY <1>6, <1>10 DEF ExecuteThrows
  <2>. QED
    BY <2>1 DEF Orphans
<1>11. CASE \E a \in Artifact : RecordArtifact(a) \/ ArtifactIsRefused(a) \/ KeepPartial(a)
  <2>1. /\ sessions' = sessions /\ restarts' = restarts /\ job' \in {job, None}
        /\ phase # "executing"
    BY <1>6, <1>11 DEF RecordArtifact, ArtifactIsRefused, KeepPartial, Release
  <2>. QED
    BY <1>1, <2>1 DEF Orphans
<1>12. CASE \E found \in SUBSET Artifact : GatherReturns(found)
  <2>1. /\ sessions' = sessions /\ restarts' = restarts /\ job' \in {job, None}
        /\ phase # "executing"
    BY <1>6, <1>12 DEF GatherReturns
  <2>. QED
    BY <1>1, <2>1 DEF Orphans
<1>13. CASE \E t \in Task : RecoverTask(t) \/ OrphanEnds(t)
  BY <1>13 DEF RecoverTask, OrphanEnds, worker, Orphans
<1>. QED
  BY <1>2, <1>3, <1>4, <1>5, <1>7, <1>8, <1>9, <1>10, <1>11, <1>12, <1>13 DEF Next

LEMMA OrphansStayCounted ==
    IInv /\ OrphansAreCounted /\ [Next]_vars => OrphansAreCounted'
<1>. SUFFICES ASSUME IInv, OrphansAreCounted, [Next]_vars PROVE OrphansAreCounted'
  OBVIOUS
<1>1. restarts \in Nat
  BY ValidationAssumption DEF IInv, World
<1>2. IsFiniteSet(sessions) /\ IsFiniteSet(Orphans)
  BY FS_Subset DEF OrphansAreCounted, Orphans
<1>3. CASE Crash
  <2>1. /\ restarts' = restarts + 1 /\ job' = None
        /\ sessions' = IF Driver = "docker" THEN sessions ELSE {}
    BY <1>3 DEF Crash, Release
  <2>2. CASE Driver = "docker"
    <3>1. Orphans' \subseteq Orphans \cup {job} /\ sessions' = sessions
      BY <2>1, <2>2 DEF Orphans
    <3>2. /\ IsFiniteSet(Orphans \cup {job})
          /\ Cardinality(Orphans \cup {job}) <= Cardinality(Orphans) + 1
      <4>1. Cardinality(Orphans) \in Nat
        BY <1>2, FS_CardinalityType
      <4>2. /\ IsFiniteSet(Orphans \cup {job})
            /\ \/ Cardinality(Orphans \cup {job}) = Cardinality(Orphans)
               \/ Cardinality(Orphans \cup {job}) = Cardinality(Orphans) + 1
        BY <1>2, FS_AddElement
      <4>. QED
        BY <4>1, <4>2
    <3>3. Cardinality(Orphans') <= Cardinality(Orphans \cup {job})
      BY <3>1, <3>2, FS_Subset
    <3>4. Cardinality(Orphans) \in Nat /\ Cardinality(Orphans') \in Nat
          /\ Cardinality(Orphans \cup {job}) \in Nat
      BY <1>2, <3>1, <3>2, FS_Subset, FS_CardinalityType
    <3>5. Cardinality(Orphans) <= restarts
      BY <2>2 DEF OrphansAreCounted
    <3>6. Cardinality(Orphans') <= restarts'
      BY <1>1, <2>1, <3>2, <3>3, <3>4, <3>5
    <3>. QED
      BY <1>2, <2>2, <3>1, <3>6 DEF OrphansAreCounted
  <2>3. CASE Driver # "docker"
    <3>1. sessions' = {} /\ Orphans' = {}
      BY <2>1, <2>3 DEF Orphans
    <3>. QED
      BY <2>3, <3>1, FS_EmptySet DEF OrphansAreCounted
  <2>. QED
    BY <2>2, <2>3
<1>4. CASE ~Crash
  <2>1. /\ Orphans' \subseteq Orphans
        /\ sessions' \subseteq sessions \cup {job}
        /\ restarts' \in {restarts, restarts + 1}
    BY <1>4, OnlyCrashesOrphan
  <2>2. IsFiniteSet(sessions')
    BY <1>2, <2>1, FS_AddElement, FS_Subset
  <2>3. Cardinality(Orphans') <= Cardinality(Orphans)
        /\ Cardinality(Orphans') \in Nat /\ Cardinality(Orphans) \in Nat
    BY <1>2, <2>1, FS_Subset, FS_CardinalityType
  <2>4. CASE Driver = "docker"
    <3>1. Cardinality(Orphans) <= restarts
      BY <2>4 DEF OrphansAreCounted
    <3>2. Cardinality(Orphans') <= restarts'
      BY <1>1, <2>1, <2>3, <3>1
    <3>. QED
      BY <2>2, <2>4, <3>2 DEF OrphansAreCounted
  <2>5. CASE Driver # "docker"
    <3>1. Cardinality(Orphans) <= 0
      BY <2>5 DEF OrphansAreCounted
    <3>2. Cardinality(Orphans') <= 0
      BY <2>3, <3>1
    <3>. QED
      BY <2>2, <2>5, <3>2 DEF OrphansAreCounted
  <2>. QED
    BY <2>4, <2>5
<1>. QED
  BY <1>3, <1>4

LEMMA OrphansAlwaysCounted == Spec => []OrphansAreCounted
<1>1. Init => OrphansAreCounted
  <2>. SUFFICES ASSUME Init PROVE OrphansAreCounted
    OBVIOUS
  <2>1. sessions = {} /\ Orphans = {} /\ restarts = 0
    BY DEF Init, Orphans
  <2>. QED
    BY <2>1, FS_EmptySet DEF OrphansAreCounted
<1>. QED
  BY <1>1, OrphansStayCounted, IInvAlways, PTL DEF Spec

\* Every session without a worker was left by a crash of the service, and a
\* crash leaves at most one; the in-process driver leaves none
\* (docker-vcoder-driver.ts 103-108, main.ts 35).
THEOREM CrashesLeaveOneOrphan == Spec => []OrphansAreCounted
  BY OrphansAlwaysCounted

\* Only one task executes at any time as long as the service has neither
\* crashed nor been restarted, and with the in-process driver at any time.
THEOREM OneSessionUntilRestart ==
    Spec => [](Driver = "in-process" \/ restarts = 0 => OneSessionAtATime)
<1>1. OrphansAreCounted => (Driver = "in-process" \/ restarts = 0 => OneSessionAtATime)
  <2>. SUFFICES ASSUME OrphansAreCounted, Driver = "in-process" \/ restarts = 0
                PROVE  OneSessionAtATime
    OBVIOUS
  <2>1. IsFiniteSet(Orphans) /\ Cardinality(Orphans) <= 0
    BY FS_Subset DEF OrphansAreCounted, Orphans
  <2>2. Cardinality(Orphans) = 0
    BY <2>1, FS_CardinalityType
  <2>3. Orphans = {}
    BY <2>1, <2>2, FS_EmptySet
  <2>. QED
    BY <2>3 DEF Orphans, OneSessionAtATime
<1>. QED
  BY <1>1, OrphansAlwaysCounted, PTL
=============================================================================
