------------------------- MODULE PendingWakesProofs -------------------------
(***************************************************************************)
(* Proofs that background work is remembered, waited for and not stranded, *)
(* for every set of works and every bound.                                 *)
(***************************************************************************)
EXTENDS PendingWakes, TLAPS

Mark == {"none", "pending", "interrupted"}
Watch == {"new", "none", "watching", "polled", "aborted", "stopping"}
Stage == {"idle", "resolving", "queued", "running"}
Job == {"boot", "notice", "carry"}

\* The types the proofs need: how many completions may be queued is left open.
Typed ==
    /\ up \in BOOLEAN
    /\ marker \in [Work -> Mark]
    /\ watch \in [Work -> Watch]
    /\ queue \in [Work -> Nat] /\ batch \in [Work -> Nat]
    /\ reviver \in [Family -> Stage]
    /\ rearm \in [Work -> SUBSET Job]
    /\ told \in [Work -> Nat]
    /\ carried \subseteq Carryable

\* Between two processes nothing is waited for.
Down ==
    ~up => /\ unsaved = {}
           /\ \A w \in Work : /\ watch[w] \in {"new", "none"} /\ rearm[w] = {}
                              /\ queue[w] = 0 /\ batch[w] = 0
           /\ \A f \in Family : reviver[f] = "idle"

\* A revival that runs has told all it took.
TellsAll ==
    \A w \in Work : reviver[FamilyOf(w)] = "running" /\ batch[w] > 0 => told[w] > 0

CarriedIsListed == carried # {} => listed

Shape == Typed /\ Down /\ TellsAll /\ NoneStranded /\ CarriedIsListed

-----------------------------------------------------------------------------
(* Facts about the shared pieces.                                          *)

\* Each work is of one family.
LEMMA Families ==
    /\ \A w \in Work : FamilyOf(w) \in Family /\ w \in Kin(FamilyOf(w))
    /\ \A f \in Family : Kin(f) \subseteq Work /\ (\A w \in Kin(f) : FamilyOf(w) = f)
    /\ Shell = Kin("shell") /\ Shell \subseteq Work /\ Subagent \subseteq Work
    /\ Carryable \subseteq Work /\ CloudAgent \subseteq Work
BY WakeAssumption DEF FamilyOf, Family, Kin, Work, Carryable

\* Completions of one family are queued, or one of them is taken and its mark
\* cleared; none is stranded and nothing else is disturbed.
LEMMA Completes ==
    ASSUME Typed, NEW f \in Family, NEW ws \in SUBSET Kin(f), NEW m \in [Work -> Mark],
           NEW ok \in BOOLEAN, Complete(ws, m, ok)
    PROVE  /\ marker' \in [Work -> Mark] /\ queue' \in [Work -> Nat]
           /\ batch' \in [Work -> Nat] /\ reviver' \in [Family -> Stage]
           /\ NoneStranded => NoneStranded'
           /\ TellsAll /\ UNCHANGED told => TellsAll'
           /\ \A w \in Work : marker'[w] = m[w] \/ batch'[w] > 0
           /\ \A w \in Work : batch[w] > 0 => batch'[w] > 0
           /\ \A w \in Work : queue[w] > 0 => queue'[w] > 0
           /\ \A w \in ws : queue'[w] > 0 \/ batch'[w] > 0
<1>q. ASSUME NEW vs \in SUBSET Work, Queued(vs)
      PROVE  /\ queue' \in [Work -> Nat]
             /\ \A w \in vs : queue'[w] > 0
             /\ \A w \in Work \ vs : queue'[w] = queue[w]
             /\ \A w \in Work : queue[w] > 0 => queue'[w] > 0
  BY <1>q DEF Queued, Pushed, Typed
<1>1. CASE \A w \in ws : reviver[FamilyOf(w)] # "idle"
  <2>1. Queued(ws) /\ marker' = m /\ UNCHANGED <<batch, reviver>>
    BY <1>1 DEF Complete
  <2>2. NoneStranded => NoneStranded'
    BY <1>1, <1>q, <2>1, Families DEF NoneStranded
  <2>3. TellsAll /\ UNCHANGED told => TellsAll'
    BY <2>1 DEF TellsAll
  <2>. QED
    BY <1>q, <2>1, <2>2, <2>3, Families DEF Typed
<1>2. CASE ~(\A w \in ws : reviver[FamilyOf(w)] # "idle")
  <2>1. TakeAtOnce(ws) /\ marker' = Settled(m, {w \in ws : batch'[w] # batch[w]}, ok)
    BY <1>2 DEF Complete
  <2>2. PICK v \in ws : /\ Queued(ws \ {v})
                        /\ batch' = [batch EXCEPT ![v] = 1]
                        /\ reviver' = [reviver EXCEPT ![FamilyOf(v)] = "resolving"]
    BY <2>1 DEF TakeAtOnce
  <2>3. /\ v \in Work /\ FamilyOf(v) = f /\ ws \subseteq Work
        /\ \A w \in ws : FamilyOf(w) = f
    BY Families
  <2>4. /\ batch' \in [Work -> Nat] /\ reviver' \in [Family -> Stage]
        /\ batch'[v] = 1 /\ \A w \in Work \ {v} : batch'[w] = batch[w]
        /\ reviver'[f] = "resolving" /\ \A g \in Family \ {f} : reviver'[g] = reviver[g]
    BY <2>2, <2>3 DEF Typed, Stage
  <2>5. /\ marker' \in [Work -> Mark]
        /\ \A w \in Work : marker'[w] = m[w] \/ batch'[w] > 0
    BY <2>1, <2>3, <2>4 DEF Settled, Mark
  <2>6. NoneStranded => NoneStranded'
    BY <1>q, <2>2, <2>3, <2>4, Families DEF NoneStranded
  <2>7. TellsAll /\ UNCHANGED told => TellsAll'
    BY <2>3, <2>4, Families DEF TellsAll
  <2>. QED
    BY <1>q, <2>2, <2>3, <2>4, <2>5, <2>6, <2>7
<1>. QED
  BY <1>1, <1>2

\* The next revival of a family takes all that is queued for it, and clears its
\* marks.
LEMMA NextBatches ==
    ASSUME Typed, NEW f \in Family, NEW ok \in BOOLEAN, NextBatch(f, ok)
    PROVE  /\ marker' \in [Work -> Mark] /\ queue' \in [Work -> Nat]
           /\ batch' \in [Work -> Nat] /\ reviver' \in [Family -> Stage]
           /\ NoneStranded => NoneStranded'
           /\ TellsAll /\ UNCHANGED told => TellsAll'
           /\ \A w \in Work \ Kin(f) : /\ queue'[w] = queue[w] /\ batch'[w] = batch[w]
                                       /\ marker'[w] = marker[w]
           /\ \A w \in Kin(f) : /\ queue'[w] = 0 /\ batch'[w] = queue[w]
                                /\ marker'[w] = marker[w] \/ batch'[w] > 0
<1>1. /\ queue' \in [Work -> Nat] /\ batch' \in [Work -> Nat]
      /\ \A w \in Kin(f) : queue'[w] = 0 /\ batch'[w] = queue[w]
      /\ \A w \in Work \ Kin(f) : queue'[w] = queue[w] /\ batch'[w] = batch[w]
  BY Families DEF NextBatch, Typed
<1>2. /\ reviver' \in [Family -> Stage] /\ reviver'[f] \in {"idle", "resolving"}
      /\ \A g \in Family \ {f} : reviver'[g] = reviver[g]
  BY DEF NextBatch, Typed, Stage
<1>3. /\ marker' \in [Work -> Mark]
      /\ \A w \in Work : marker'[w] = marker[w] \/ (w \in Kin(f) /\ queue[w] > 0)
  BY Families DEF NextBatch, Settled, Typed, Mark
<1>4. NoneStranded => NoneStranded'
  BY <1>1, <1>2, Families DEF NoneStranded
<1>5. TellsAll /\ UNCHANGED told => TellsAll'
  BY <1>1, <1>2, Families DEF TellsAll
<1>. QED
  BY <1>1, <1>2, <1>3, <1>4, <1>5, Families

\* Cancelling turns watched work into work that is dropped, and leaves the rest.
LEMMA Cancels ==
    ASSUME Typed
    PROVE  /\ Cancelled(watch) \in [Work -> Watch]
           /\ RunnerWatch \in [Work -> Watch]
           /\ \A v \in {Cancelled(watch), RunnerWatch} : \A w \in Work :
                 /\ v[w] = "new" <=> watch[w] = "new"
                 /\ watch[w] # "none" /\ v[w] = "none" => w \in Dropped(v)
                 /\ watch[w] = "none" => v[w] = "none"
<1>1. /\ Cancelled(watch) \in [Work -> Watch]
      /\ \A w \in Work : \/ Cancelled(watch)[w] = watch[w]
                         \/ /\ watch[w] \in {"watching", "polled"}
                            /\ Cancelled(watch)[w] \in {"none", "aborted"}
  BY DEF Cancelled, Typed, Watch
<1>. QED
  BY <1>1 DEF RunnerWatch, Dropped, Typed, Watch

\* Work that is armed again is watched.
LEMMA Watches ==
    ASSUME NEW v \in [Work -> Watch], NEW w \in Work
    PROVE  /\ WatchedBy(v, w) \in [Work -> Watch]
           /\ WatchedBy(v, w)[w] \notin {"none", "new"}
           /\ \A x \in Work \ {w} : WatchedBy(v, w)[x] = v[x]
BY DEF WatchedBy, Watch

\* A mark is written or stays.
LEMMA Marks ==
    ASSUME NEW m \in [Work -> Mark], NEW w \in Work, NEW how \in Mark, NEW ok \in BOOLEAN
    PROVE  /\ Marked(m, w, how, ok) \in [Work -> Mark]
           /\ ok => Marked(m, w, how, ok)[w] = how
           /\ ~ok => Marked(m, w, how, ok) = m
           /\ \A x \in Work \ {w} : Marked(m, w, how, ok)[x] = m[x]
BY DEF Marked, Mark

-----------------------------------------------------------------------------
(* The shape of the state.                                                 *)

\* Nobody waits in the initial state.
LEMMA ShapeInit == Init => Shape
<1> SUFFICES ASSUME Init PROVE Shape
  OBVIOUS
<1>1. Typed
  BY Families DEF Init, Typed, None0, Mark, Watch, Stage
<1>2. NoneStranded /\ TellsAll
  BY DEF Init, NoneStranded, TellsAll, None0
<1>. QED
  BY <1>1, <1>2 DEF Init, Shape, Down, CarriedIsListed

\* Every step keeps the shape of the state; in particular it strands no
\* completion.
LEMMA ShapeNext == Shape /\ [Next]_vars => Shape'
<1> SUFFICES ASSUME Shape, [Next]_vars PROVE Shape'
  OBVIOUS
<1>t. Typed /\ Down /\ TellsAll /\ NoneStranded /\ CarriedIsListed
  BY DEF Shape
\* A step of a process that is up and stays up leaves Down alone.
<1>d. ASSUME up, up' PROVE Down'
  BY <1>d DEF Down
<1>1. ASSUME NEW w \in Work, Begin(w) PROVE Shape'
  <2>1. PICK ok \in BOOLEAN : marker' = Marked(marker, w, "pending", ok)
    BY <1>1 DEF Begin
  <2>2. Typed'
    BY <1>1, <1>t, <2>1, Marks DEF Begin, Typed, Mark, Watch
  <2>. QED
    BY <1>1, <1>t, <1>d, <2>2 DEF Begin, Shape, TellsAll, NoneStranded, CarriedIsListed
<1>2. ASSUME NEW w \in Work, Settles(w) PROVE Shape'
  <2>1. up
    BY <1>2, <1>t DEF Settles, Down
  <2>2. PICK ok \in BOOLEAN : Complete({w}, marker, ok)
    BY <1>2 DEF Settles
  <2>3. /\ marker' \in [Work -> Mark] /\ queue' \in [Work -> Nat]
        /\ batch' \in [Work -> Nat] /\ reviver' \in [Family -> Stage]
        /\ NoneStranded' /\ TellsAll'
    <3>1. {w} \in SUBSET Kin(FamilyOf(w)) /\ FamilyOf(w) \in Family
      BY Families
    <3>2. marker \in [Work -> Mark] /\ UNCHANGED told
      BY <1>2, <1>t DEF Settles, counted, Typed
    <3>. QED
      BY <1>t, <2>2, <3>1, <3>2, Completes
  <2>. QED
    BY <1>2, <1>t, <1>d, <2>1, <2>3 DEF Settles, counted, Shape, Typed, Watch, CarriedIsListed
<1>3. ASSUME NEW w \in Subagent, StopSubagent(w) \/ SubagentStopped(w) PROVE Shape'
  <2>1. PICK next \in {"stopping", "none"} : Disarm(w, next) /\ watch[w] \in {"watching", "stopping"}
    BY <1>3 DEF StopSubagent, SubagentStopped
  <2>2. w \in Work
    BY Families
  <2>3. up
    BY <1>t, <2>1, <2>2 DEF Down
  <2>4. PICK ok \in BOOLEAN : marker' = Marked(marker, w, "none", ok)
    BY <2>1 DEF Disarm
  <2>5. Typed'
    BY <1>t, <2>1, <2>2, <2>4, Marks DEF Disarm, Typed, Mark, Watch
  <2>. QED
    BY <1>t, <1>d, <2>1, <2>3, <2>5 DEF Disarm, Shape, TellsAll, NoneStranded, CarriedIsListed
<1>n. ASSUME NEW f \in Family, NEW ok \in BOOLEAN, NextBatch(f, ok),
             reviver[f] # "idle",
             UNCHANGED <<up, watch, rearm, listed, carried, told>>
      PROVE  Shape'
  <2>1. up
    BY <1>n, <1>t DEF Down
  <2>2. /\ marker' \in [Work -> Mark] /\ queue' \in [Work -> Nat]
        /\ batch' \in [Work -> Nat] /\ reviver' \in [Family -> Stage]
        /\ NoneStranded' /\ TellsAll'
    BY <1>n, <1>t, NextBatches
  <2>. QED
    BY <1>n, <1>t, <1>d, <2>1, <2>2 DEF Shape, Typed, CarriedIsListed
<1>4. ASSUME NEW f \in Family, RevivalDropped(f) \/ RevivalUntold(f) PROVE Shape'
  BY <1>4, <1>n DEF RevivalDropped, RevivalUntold, ItsTurn, BatchDropped
<1>5. ASSUME NEW f \in Family, RevivalResolved(f) PROVE Shape'
  <2>1. up
    BY <1>5, <1>t DEF RevivalResolved, Down
  <2>2. Typed'
    BY <1>5, <1>t, Cancels DEF RevivalResolved, Typed, Stage
  <2>3. TellsAll' /\ NoneStranded'
    BY <1>5, <1>t, Families DEF RevivalResolved, Typed, TellsAll, NoneStranded
  <2>. QED
    BY <1>5, <1>t, <1>d, <2>1, <2>2, <2>3 DEF RevivalResolved, Shape, CarriedIsListed
<1>6. ASSUME NEW f \in Family, RevivalStarts(f) PROVE Shape'
  <2>1. up
    BY <1>6, <1>t DEF RevivalStarts, ItsTurn, Down
  <2>2. /\ told' \in [Work -> Nat]
        /\ \A w \in Work : told'[w] >= told[w]
        /\ \A w \in Kin(f) : told'[w] = told[w] + batch[w]
    BY <1>6, <1>t, Families DEF RevivalStarts, ItsTurn, Typed
  <2>3. Typed'
    BY <1>6, <1>t, <2>2 DEF RevivalStarts, ItsTurn, Typed, Stage
  <2>4. NoneStranded'
    BY <1>6, <1>t, Families DEF RevivalStarts, ItsTurn, Typed, NoneStranded
  <2>5. TellsAll'
    <3>1. SUFFICES ASSUME NEW w \in Work, reviver'[FamilyOf(w)] = "running", batch'[w] > 0
                   PROVE  told'[w] > 0
      BY DEF TellsAll
    <3>2. CASE w \in Kin(f)
      BY <1>6, <1>t, <2>2, <3>1, <3>2 DEF RevivalStarts, ItsTurn, Typed
    <3>3. CASE w \notin Kin(f)
      <4>1. reviver[FamilyOf(w)] = "running" /\ batch[w] > 0
        BY <1>6, <1>t, <3>1, <3>3, Families DEF RevivalStarts, ItsTurn, Typed
      <4>. QED
        BY <1>t, <2>2, <4>1 DEF TellsAll, Typed
    <3>. QED
      BY <3>2, <3>3
  <2>. QED
    BY <1>6, <1>t, <1>d, <2>1, <2>3, <2>4, <2>5 DEF RevivalStarts, ItsTurn, Shape, CarriedIsListed
<1>7. ASSUME NEW f \in Family, RevivalEnds(f) PROVE Shape'
  BY <1>7, <1>n DEF RevivalEnds, counted
\* A rearm that ends was under way, in a process that is up.
<1>j. ASSUME NEW w \in Work, NEW job \in rearm[w], Done(w, job)
      PROVE  up /\ rearm' \in [Work -> SUBSET Job]
  BY <1>j, <1>t DEF Down, Done, Typed
<1>8. ASSUME NEW w \in Work, NEW job \in Job, RearmFails(w, job) PROVE Shape'
  <2>1. PICK ok \in BOOLEAN :
           marker' = Marked(marker, w, IF job = "notice" THEN "interrupted" ELSE "pending", ok)
    BY <1>8 DEF RearmFails
  <2>2. marker' \in [Work -> Mark]
    BY <1>t, <2>1, Marks DEF Typed, Mark
  <2>3. up /\ rearm' \in [Work -> SUBSET Job]
    BY <1>8, <1>j DEF RearmFails
  <2>. QED
    BY <1>8, <1>t, <1>d, <2>2, <2>3
       DEF RearmFails, Shape, Typed, TellsAll, NoneStranded, CarriedIsListed
<1>9. ASSUME NEW w \in Work, NEW job \in Job, RearmWatch(w, job) PROVE Shape'
  <2>1. PICK ok \in BOOLEAN : marker' = Marked(marker, w, "pending", ok)
    BY <1>9 DEF RearmWatch
  <2>2. marker' \in [Work -> Mark] /\ watch' \in [Work -> Watch]
    BY <1>9, <1>t, <2>1, Marks, Cancels, Watches DEF RearmWatch, Typed, Mark
  <2>3. up /\ rearm' \in [Work -> SUBSET Job]
    BY <1>9, <1>j DEF RearmWatch
  <2>. QED
    BY <1>9, <1>t, <1>d, <2>2, <2>3
       DEF RearmWatch, Shape, Typed, TellsAll, NoneStranded, CarriedIsListed
<1>10. ASSUME NEW w \in Shell, RearmNotice(w) PROVE Shape'
  <2>1. w \in Work /\ {w} \in SUBSET Kin("shell") /\ "shell" \in Family
    BY Families DEF Family
  <2>2. up /\ rearm' \in [Work -> SUBSET Job]
    BY <1>10, <1>j, <2>1 DEF RearmNotice
  <2>3. PICK ok \in BOOLEAN : Complete({w}, marker, ok)
    BY <1>10 DEF RearmNotice
  <2>4. /\ marker' \in [Work -> Mark] /\ queue' \in [Work -> Nat]
        /\ batch' \in [Work -> Nat] /\ reviver' \in [Family -> Stage]
        /\ NoneStranded' /\ TellsAll'
    <3>1. marker \in [Work -> Mark] /\ UNCHANGED told
      BY <1>10, <1>t DEF RearmNotice, counted, Typed
    <3>. QED
      BY <1>t, <2>1, <2>3, <3>1, Completes
  <2>. QED
    BY <1>10, <1>t, <1>d, <2>2, <2>4 DEF RearmNotice, counted, Shape, Typed, CarriedIsListed
<1>11. ASSUME NEW w \in Subagent, RearmSubagent(w) PROVE Shape'
  <2>1. w \in Work /\ {w} \in SUBSET Kin(FamilyOf(w)) /\ FamilyOf(w) \in Family
    BY Families
  <2>2. up /\ rearm' \in [Work -> SUBSET Job]
    BY <1>11, <1>j, <2>1 DEF RearmSubagent
  <2>3. PICK marked, ok \in BOOLEAN : Complete({w}, Marked(marker, w, "pending", marked), ok)
    BY <1>11 DEF RearmSubagent
  <2>4. /\ marker' \in [Work -> Mark] /\ queue' \in [Work -> Nat]
        /\ batch' \in [Work -> Nat] /\ reviver' \in [Family -> Stage]
        /\ NoneStranded' /\ TellsAll'
    <3>1. Marked(marker, w, "pending", marked) \in [Work -> Mark] /\ UNCHANGED told
      BY <1>11, <1>t, <2>1, Marks DEF RearmSubagent, Typed, Mark
    <3>. QED
      BY <1>t, <2>1, <2>3, <3>1, Completes
  <2>. QED
    BY <1>11, <1>t, <1>d, <2>2, <2>4 DEF RearmSubagent, Shape, Typed, CarriedIsListed
<1>12. ASSUME NEW b \in BOOLEAN, Quiesce(b) PROVE Shape'
  <2>1. watch' \in [Work -> Watch]
    BY <1>12, <1>t, Cancels DEF Quiesce, Typed
  <2>2. carried' \subseteq Carryable /\ CarriedIsListed'
    BY <1>12, <1>t DEF Quiesce, Typed, CarriedIsListed
  <2>. QED
    BY <1>12, <1>t, <1>d, <2>1, <2>2 DEF Quiesce, Shape, Typed, TellsAll, NoneStranded
<1>13. CASE RunnerQuiesces
  <2>1. watch' \in [Work -> Watch]
    BY <1>13, <1>t, Cancels DEF RunnerQuiesces
  <2>. QED
    BY <1>13, <1>t, <1>d, <2>1
       DEF RunnerQuiesces, Shape, Typed, TellsAll, NoneStranded, CarriedIsListed
<1>14. ASSUME NEW ws \in SUBSET carried, Restore(ws) PROVE Shape'
  <2>1. PICK marked, ok \in BOOLEAN :
          LET m == [w \in Work |->
                      IF ~marked \/ w \notin ws THEN marker[w]
                      ELSE IF w \in Shell THEN "interrupted" ELSE "pending"]
          IN  IF ws \cap Shell = {}
              THEN ok /\ marker' = m /\ UNCHANGED <<queue, batch, reviver>>
              ELSE Complete(ws \cap Shell, m, ok)
    BY <1>14 DEF Restore
  <2> DEFINE m == [w \in Work |->
                      IF ~marked \/ w \notin ws THEN marker[w]
                      ELSE IF w \in Shell THEN "interrupted" ELSE "pending"]
  <2>2. m \in [Work -> Mark]
    BY <1>t DEF Typed, Mark
  <2>3. /\ marker' \in [Work -> Mark] /\ queue' \in [Work -> Nat]
        /\ batch' \in [Work -> Nat] /\ reviver' \in [Family -> Stage]
        /\ NoneStranded' /\ TellsAll'
    <3>0. UNCHANGED told
      BY <1>14 DEF Restore
    <3>1. CASE ws \cap Shell = {}
      BY <1>t, <2>1, <2>2, <3>0, <3>1 DEF Typed, NoneStranded, TellsAll
    <3>2. CASE ws \cap Shell # {}
      <4>1. Complete(ws \cap Shell, m, ok)
        BY <2>1, <3>2
      <4>2. ws \cap Shell \in SUBSET Kin("shell") /\ "shell" \in Family
        BY Families DEF Family
      <4> HIDE DEF m
      <4>. QED
        BY <1>t, <2>2, <3>0, <4>1, <4>2, Completes
    <3>. QED
      BY <3>1, <3>2
  <2>4. rearm' \in [Work -> SUBSET Job] /\ up /\ up' /\ carried' = {}
    BY <1>14, <1>t DEF Restore, Typed, Job
  <2>. QED
    BY <1>14, <1>t, <1>d, <2>3, <2>4 DEF Restore, Shape, Typed, CarriedIsListed
<1>15. CASE ResumeAfterRecreate
  BY <1>14, <1>15 DEF ResumeAfterRecreate
<1>16. CASE Exit
  <2>1. Typed'
    BY <1>16, <1>t DEF Exit, Typed, None0, Watch, Stage
  <2>2. Down'
    BY <1>16 DEF Exit, Down, None0
  <2>3. TellsAll' /\ NoneStranded'
    BY <1>16 DEF Exit, TellsAll, NoneStranded, None0
  <2>. QED
    BY <1>16, <1>t, <2>1, <2>2, <2>3 DEF Exit, Shape, CarriedIsListed
<1>17. ASSUME NEW b \in BOOLEAN, Boot(b) PROVE Shape'
  <2>1. marker' \in [Work -> Mark]
    BY <1>17, <1>t DEF Boot, Settled, Typed, Mark
  <2>2. rearm' \in [Work -> SUBSET Job]
    BY <1>17 DEF Boot, Job
  <2>. QED
    BY <1>17, <1>t, <2>1, <2>2
       DEF Boot, Shape, Typed, Down, TellsAll, NoneStranded, CarriedIsListed
<1>18. CASE UNCHANGED vars
  BY <1>18, <1>t DEF vars, counted, Shape, Typed, Down, TellsAll, NoneStranded, CarriedIsListed
<1>. QED
  BY <1>1, <1>2, <1>3, <1>4, <1>5, <1>6, <1>7, <1>8, <1>9, <1>10, <1>11, <1>12, <1>13,
     <1>15, <1>16, <1>17, <1>18 DEF Next, Job

\* A completion that is queued always has a revival of its family under way,
\* for every set of works (NoneStranded).
THEOREM CompletionsAreNotStranded == Spec => []NoneStranded
<1>1. Shape => NoneStranded
  BY DEF Shape
<1>. QED
  BY <1>1, ShapeInit, ShapeNext, PTL DEF Spec

-----------------------------------------------------------------------------
(* What is promised is remembered, and what is marked is waited for.       *)

\* Who still knows of work w, and who waits for it.
Remembered(w) ==
    \/ marker[w] # "none" \/ w \in carried
    \/ up /\ (batch[w] > 0 \/ "boot" \in rearm[w] \/ w \in unsaved)
Awaited(w) == watch[w] # "none" \/ queue[w] > 0 \/ batch[w] > 0 \/ rearm[w] # {}

WakeInv == Shape /\ WakeIsRemembered /\ MarkedIsWatched

\* It is enough to follow the works a step leaves untold and does not drop.
LEMMA RememberedFrame ==
    ASSUME WakeIsRemembered, Typed, told' \in [Work -> Nat],
           \A w \in Work : told'[w] = 0 => told[w] = 0,
           lost \subseteq lost',
           \A w \in Work : told'[w] = 0 /\ w \notin lost' /\ watch'[w] # "new" =>
                              \/ watch[w] # "new" /\ (Remembered(w) => Remembered(w)')
                              \/ Remembered(w)'
    PROVE  WakeIsRemembered'
BY DEF WakeIsRemembered, Remembered

LEMMA AwaitedFrame ==
    ASSUME MarkedIsWatched, Typed, up, told' \in [Work -> Nat],
           \A w \in Work : told'[w] = 0 => told[w] = 0,
           lost \subseteq lost',
           \A w \in Work :
              told'[w] = 0 /\ marker'[w] # "none" /\ w \notin unwatched' \cup lost' =>
                 \/ Awaited(w)'
                 \/ marker[w] # "none" /\ w \notin unwatched /\ (Awaited(w) => Awaited(w)')
    PROVE  MarkedIsWatched'
BY DEF MarkedIsWatched, Awaited

\* Every step keeps the promises.
LEMMA WakeNext == WakeInv /\ [Next]_vars => WakeInv'
<1> SUFFICES ASSUME WakeInv, [Next]_vars PROVE WakeIsRemembered' /\ MarkedIsWatched'
  BY ShapeNext DEF WakeInv
<1> DEFINE Goal == WakeIsRemembered' /\ MarkedIsWatched'
<1>t. /\ Typed /\ Down /\ TellsAll /\ WakeIsRemembered /\ MarkedIsWatched /\ CarriedIsListed
      /\ told' \in [Work -> Nat] /\ told \in [Work -> Nat]
      /\ batch \in [Work -> Nat] /\ queue \in [Work -> Nat]
      /\ batch' \in [Work -> Nat] /\ queue' \in [Work -> Nat]
  BY ShapeNext DEF WakeInv, Shape, Typed
<1>1. ASSUME NEW w \in Work, Begin(w) PROVE Goal
  <2>1. PICK ok \in BOOLEAN : marker' = Marked(marker, w, "pending", ok) /\ Saved(w, ok)
    BY <1>1 DEF Begin
  <2>2. /\ watch'[w] = "watching" /\ \A x \in Work \ {w} : watch'[x] = watch[x]
        /\ \A x \in Work \ {w} : marker'[x] = marker[x]
        /\ marker'[w] # "none" \/ w \in unsaved'
        /\ \A x \in Work \ {w} : x \in unsaved' <=> x \in unsaved
    BY <1>1, <1>t, <2>1, Marks DEF Begin, Typed, Mark, Saved
  <2>3. WakeIsRemembered'
    BY <1>1, <1>t, <2>2, RememberedFrame DEF Begin, Remembered
  <2>4. MarkedIsWatched'
    BY <1>1, <1>t, <2>2, AwaitedFrame DEF Begin, Awaited
  <2>. QED
    BY <2>3, <2>4
\* A step that completes the works ws whose marks are m, and no longer watches
\* nor arms them.
<1>c. ASSUME NEW f \in Family, NEW ws \in SUBSET Kin(f), NEW m \in [Work -> Mark],
             NEW ok \in BOOLEAN, Complete(ws, m, ok), up, up', lost' = lost, told' = told,
             \A w \in Work \ ws : /\ watch'[w] = watch[w] \/ watch[w] = "new"
                                  /\ watch'[w] # "new" => watch[w] # "new"
                                  /\ rearm'[w] = rearm[w]
                                  /\ w \in unwatched' <=> w \in unwatched
                                  /\ m[w] = marker[w]
                                  /\ w \in unsaved' <=> w \in unsaved
                                  /\ w \in carried' <=> w \in carried,
             \A w \in ws : \/ m[w] # "none" \/ w \in unsaved'
                           \/ /\ m[w] = marker[w]
                              /\ w \in carried' <=> w \in carried
                              /\ w \in unsaved' <=> w \in unsaved
                              /\ watch'[w] # "new" => watch[w] # "new"
                              /\ "boot" \in rearm[w] => "boot" \in rearm'[w]
      PROVE  Goal
  <2>1. /\ \A w \in Work : marker'[w] = m[w] \/ batch'[w] > 0
        /\ \A w \in Work : batch[w] > 0 => batch'[w] > 0
        /\ \A w \in Work : queue[w] > 0 => queue'[w] > 0
        /\ \A w \in ws : queue'[w] > 0 \/ batch'[w] > 0
    BY <1>c, <1>t, Completes
  <2>2. ws \subseteq Work
    BY Families
  <2>3. ASSUME NEW w \in Work, watch'[w] # "new"
        PROVE  \/ watch[w] # "new" /\ (Remembered(w) => Remembered(w)')
               \/ Remembered(w)'
    <3>1. CASE w \in ws
      BY <1>c, <2>1, <2>3, <3>1 DEF Remembered
    <3>2. CASE w \notin ws
      BY <1>c, <2>1, <2>3, <3>2 DEF Remembered
    <3>. QED
      BY <3>1, <3>2
  <2>5. WakeIsRemembered'
    BY <1>c, <1>t, <2>3, RememberedFrame
  <2>4. MarkedIsWatched'
    BY <1>c, <1>t, <2>1, <2>2, AwaitedFrame DEF Awaited
  <2>. QED
    BY <2>4, <2>5
<1>2. ASSUME NEW w \in Work, Settles(w) PROVE Goal
  <2>1. up /\ watch[w] # "new"
    BY <1>2, <1>t DEF Settles, Down
  <2>2. PICK ok \in BOOLEAN : Complete({w}, marker, ok)
    BY <1>2 DEF Settles
  <2>3. {w} \in SUBSET Kin(FamilyOf(w)) /\ FamilyOf(w) \in Family
    BY Families
  <2>4. \A x \in Work \ {w} : watch'[x] = watch[x]
    BY <1>2, <1>t DEF Settles, Typed
  <2>. QED
    BY <1>2, <1>t, <2>1, <2>2, <2>3, <2>4, <1>c DEF Settles, counted, Typed
<1>3. ASSUME NEW w \in Subagent, StopSubagent(w) \/ SubagentStopped(w) PROVE Goal
  <2>1. PICK next \in {"stopping", "none"} :
           Disarm(w, next) /\ watch[w] \in {"watching", "stopping"}
    BY <1>3 DEF StopSubagent, SubagentStopped
  <2>2. w \in Work
    BY Families
  <2>3. up
    BY <1>t, <2>1, <2>2 DEF Down
  <2>4. PICK ok \in BOOLEAN : marker' = Marked(marker, w, "none", ok)
    BY <2>1 DEF Disarm
  <2>5. \A x \in Work \ {w} : watch'[x] = watch[x] /\ marker'[x] = marker[x]
    BY <1>t, <2>1, <2>2, <2>4, Marks DEF Disarm, Typed, Mark
  <2>6. WakeIsRemembered'
    BY <1>t, <2>1, <2>2, <2>5, RememberedFrame DEF Disarm, Remembered
  <2>7. MarkedIsWatched'
    BY <1>t, <2>1, <2>2, <2>3, <2>5, AwaitedFrame DEF Disarm, Awaited
  <2>. QED
    BY <2>6, <2>7
\* What a revival gives up it has told, or drops by name.
<1>n. ASSUME NEW f \in Family, NEW ok \in BOOLEAN, NextBatch(f, ok), reviver[f] # "idle",
             UNCHANGED <<up, watch, rearm, carried, told, unsaved, unwatched>>,
             lost \subseteq lost',
             \A w \in Kin(f) : batch[w] > 0 => told[w] > 0 \/ w \in lost'
      PROVE  Goal
  <2>1. up
    BY <1>n, <1>t DEF Down
  <2>2. /\ \A w \in Work \ Kin(f) : /\ queue'[w] = queue[w] /\ batch'[w] = batch[w]
                                    /\ marker'[w] = marker[w]
        /\ \A w \in Kin(f) : /\ queue'[w] = 0 /\ batch'[w] = queue[w]
                             /\ marker'[w] = marker[w] \/ batch'[w] > 0
    BY <1>n, <1>t, NextBatches
  <2>3. ASSUME NEW w \in Work, told'[w] = 0, w \notin lost'
        PROVE  /\ batch[w] > 0 => batch'[w] > 0
               /\ queue[w] > 0 => queue'[w] > 0 \/ batch'[w] > 0
               /\ marker'[w] = marker[w] \/ batch'[w] > 0
    BY <1>n, <1>t, <2>2, <2>3
  <2>4. WakeIsRemembered'
    BY <1>n, <1>t, <2>1, <2>3, RememberedFrame DEF Remembered
  <2>5. MarkedIsWatched'
    BY <1>n, <1>t, <2>1, <2>3, AwaitedFrame DEF Awaited
  <2>. QED
    BY <2>4, <2>5
<1>4. ASSUME NEW f \in Family, RevivalDropped(f) \/ RevivalUntold(f) PROVE Goal
  <2>1. PICK ok \in BOOLEAN : NextBatch(f, ok)
    BY <1>4 DEF RevivalDropped, RevivalUntold, BatchDropped
  <2>2. lost \subseteq lost' /\ \A w \in Kin(f) : batch[w] > 0 => told[w] > 0 \/ w \in lost'
    BY <1>4, <1>t, Families DEF RevivalDropped, RevivalUntold, BatchDropped
  <2>. QED
    BY <1>4, <1>n, <2>1, <2>2 DEF RevivalDropped, RevivalUntold, ItsTurn, BatchDropped
<1>5. ASSUME NEW f \in Family, RevivalResolved(f) PROVE Goal
  <2>1. up
    BY <1>5, <1>t DEF RevivalResolved, Down
  <2>2. WakeIsRemembered'
    BY <1>5, <1>t, Cancels, RememberedFrame DEF RevivalResolved, Remembered
  <2>3. MarkedIsWatched'
    BY <1>5, <1>t, <2>1, Cancels, AwaitedFrame DEF RevivalResolved, Awaited
  <2>. QED
    BY <2>2, <2>3
<1>6. ASSUME NEW f \in Family, RevivalStarts(f) PROVE Goal
  <2>1. up
    BY <1>6, <1>t DEF RevivalStarts, ItsTurn, Down
  <2>2. \A w \in Work : told'[w] = 0 => told[w] = 0
    BY <1>6, <1>t, Families DEF RevivalStarts, ItsTurn
  <2>3. WakeIsRemembered'
    BY <1>6, <1>t, <2>2, RememberedFrame DEF RevivalStarts, ItsTurn, Remembered
  <2>4. MarkedIsWatched'
    BY <1>6, <1>t, <2>1, <2>2, AwaitedFrame DEF RevivalStarts, ItsTurn, Awaited
  <2>. QED
    BY <2>3, <2>4
<1>7. ASSUME NEW f \in Family, RevivalEnds(f) PROVE Goal
  <2>1. PICK ok \in BOOLEAN : NextBatch(f, ok)
    BY <1>7 DEF RevivalEnds
  <2>2. \A w \in Kin(f) : batch[w] > 0 => told[w] > 0
    BY <1>7, <1>t, Families DEF RevivalEnds, TellsAll
  <2>. QED
    BY <1>7, <1>n, <2>1, <2>2 DEF RevivalEnds, counted
<1>j. ASSUME NEW w \in Work, NEW job \in rearm[w], Done(w, job)
      PROVE  /\ up
             /\ rearm'[w] = rearm[w] \ {job}
             /\ \A x \in Work \ {w} : rearm'[x] = rearm[x]
  BY <1>j, <1>t DEF Down, Done, Typed
<1>8. ASSUME NEW w \in Work, NEW job \in Job, RearmFails(w, job) PROVE Goal
  <2>1. PICK ok \in BOOLEAN :
           /\ marker' = Marked(marker, w, IF job = "notice" THEN "interrupted" ELSE "pending", ok)
           /\ lost' = (IF ok \/ told[w] > 0 THEN lost ELSE lost \cup {w})
           /\ Saved(w, ok)
    BY <1>8 DEF RearmFails
  <2>2. /\ \A x \in Work \ {w} : marker'[x] = marker[x]
        /\ ok => marker'[w] # "none"
        /\ \A x \in Work \ {w} : x \in unsaved' <=> x \in unsaved
    BY <1>t, <2>1, Marks DEF Typed, Mark, Saved
  <2>3. up /\ \A x \in Work \ {w} : rearm'[x] = rearm[x]
    BY <1>8, <1>j DEF RearmFails
  <2>4. WakeIsRemembered'
    BY <1>8, <1>t, <2>1, <2>2, <2>3, RememberedFrame DEF RearmFails, Remembered
  <2>5. MarkedIsWatched'
    BY <1>8, <1>t, <2>1, <2>2, <2>3, AwaitedFrame DEF RearmFails, Awaited
  <2>. QED
    BY <2>4, <2>5
<1>9. ASSUME NEW w \in Work, NEW job \in Job, RearmWatch(w, job) PROVE Goal
  <2>1. PICK ok \in BOOLEAN : marker' = Marked(marker, w, "pending", ok) /\ Saved(w, ok)
    BY <1>9 DEF RearmWatch
  <2>2. /\ \A x \in Work \ {w} : marker'[x] = marker[x]
        /\ marker'[w] # "none" \/ w \in unsaved'
        /\ \A x \in Work \ {w} : x \in unsaved' <=> x \in unsaved
    BY <1>t, <2>1, Marks DEF Typed, Mark, Saved
  <2>3. up /\ \A x \in Work \ {w} : rearm'[x] = rearm[x]
    BY <1>9, <1>j DEF RearmWatch
  <2>4. /\ watch'[w] \notin {"none", "new"}
        /\ \A x \in Work \ {w} : watch'[x] = RunnerWatch[x]
    BY <1>9, <1>t, Cancels, Watches DEF RearmWatch
  <2>5. WakeIsRemembered'
    BY <1>9, <1>t, <2>2, <2>3, <2>4, Cancels, RememberedFrame DEF RearmWatch, Remembered
  <2>6. MarkedIsWatched'
    BY <1>9, <1>t, <2>2, <2>3, <2>4, Cancels, AwaitedFrame DEF RearmWatch, Awaited
  <2>. QED
    BY <2>5, <2>6
<1>10. ASSUME NEW w \in Shell, RearmNotice(w) PROVE Goal
  <2>1. w \in Work /\ {w} \in SUBSET Kin("shell") /\ "shell" \in Family
    BY Families DEF Family
  <2>2. /\ up /\ rearm'[w] = rearm[w] \ {"notice"}
        /\ \A x \in Work \ {w} : rearm'[x] = rearm[x]
    BY <1>10, <1>j, <2>1 DEF RearmNotice
  <2>3. PICK ok \in BOOLEAN : Complete({w}, marker, ok)
    BY <1>10 DEF RearmNotice
  <2>. QED
    BY <1>10, <1>t, <2>1, <2>2, <2>3, <1>c DEF RearmNotice, counted, Typed
<1>11. ASSUME NEW w \in Subagent, RearmSubagent(w) PROVE Goal
  <2>1. w \in Work /\ {w} \in SUBSET Kin(FamilyOf(w)) /\ FamilyOf(w) \in Family
    BY Families
  <2>2. /\ up /\ rearm'[w] = rearm[w] \ {"boot"}
        /\ \A x \in Work \ {w} : rearm'[x] = rearm[x]
    BY <1>11, <1>j, <2>1 DEF RearmSubagent
  <2>3. PICK marked, ok \in BOOLEAN :
           Complete({w}, Marked(marker, w, "pending", marked), ok) /\ Saved(w, marked)
    BY <1>11 DEF RearmSubagent
  <2> DEFINE m == Marked(marker, w, "pending", marked)
  <2>4. /\ m \in [Work -> Mark]
        /\ \A x \in Work \ {w} : m[x] = marker[x]
        /\ m[w] # "none" \/ w \in unsaved'
        /\ \A x \in Work \ {w} : x \in unsaved' <=> x \in unsaved
    <3>1. /\ m \in [Work -> Mark]
          /\ \A x \in Work \ {w} : m[x] = marker[x]
          /\ marked => m[w] # "none"
      <4>1. "pending" \in Mark /\ "pending" # "none" /\ marker \in [Work -> Mark]
        BY <1>t DEF Mark, Typed
      <4>. QED
        BY <2>1, <4>1, Marks
    <3> HIDE DEF m
    <3>2. /\ \A x \in Work \ {w} : x \in unsaved' <=> x \in unsaved
          /\ ~marked => w \in unsaved'
      BY <2>3 DEF Saved
    <3>. QED
      BY <3>1, <3>2
  <2>5. Complete({w}, m, ok)
    BY <2>3
  <2> HIDE DEF m
  <2>. QED
    BY <1>11, <1>t, <2>1, <2>2, <2>4, <2>5, <1>c DEF RearmSubagent
\* Watches are cancelled by name.
<1>k. ASSUME NEW v \in {Cancelled(watch), watch, RunnerWatch}, watch' = v,
             unwatched' = unwatched \cup Dropped(v), up, up', carried \subseteq carried',
             UNCHANGED <<marker, queue, batch, rearm, told, lost, unsaved>>
      PROVE  Goal
  <2>1. \A w \in Work : /\ watch'[w] = "new" <=> watch[w] = "new"
                        /\ watch[w] # "none" /\ watch'[w] = "none" => w \in unwatched'
    BY <1>k, <1>t, Cancels
  <2>2. WakeIsRemembered'
    BY <1>k, <1>t, <2>1, RememberedFrame DEF Remembered
  <2>3. MarkedIsWatched'
    BY <1>k, <1>t, <2>1, AwaitedFrame DEF Awaited
  <2>. QED
    BY <2>2, <2>3
<1>12. ASSUME NEW b \in BOOLEAN, Quiesce(b) PROVE Goal
  <2>1. carried \subseteq carried'
    BY <1>12, <1>t DEF Quiesce, CarriedIsListed
  <2>2. PICK v \in {Cancelled(watch), watch} :
           watch' = v /\ unwatched' = unwatched \cup Dropped(v)
    BY <1>12 DEF Quiesce, Dropped
  <2>. QED
    BY <1>12, <2>1, <2>2, <1>k DEF Quiesce
<1>13. CASE RunnerQuiesces
  BY <1>13, <1>k DEF RunnerQuiesces
<1>14. ASSUME NEW ws \in SUBSET carried, \A w \in carried \ ws : marker[w] # "none",
              Restore(ws)
       PROVE  Goal
  <2>1. PICK marked, ok \in BOOLEAN :
          LET m == [w \in Work |->
                      IF ~marked \/ w \notin ws THEN marker[w]
                      ELSE IF w \in Shell THEN "interrupted" ELSE "pending"]
          IN  /\ IF ws \cap Shell = {}
                 THEN ok /\ marker' = m /\ UNCHANGED <<queue, batch, reviver>>
                 ELSE Complete(ws \cap Shell, m, ok)
              /\ unsaved' = (IF marked THEN unsaved \ ws ELSE unsaved \cup ws)
    BY <1>14 DEF Restore
  <2> DEFINE m == [w \in Work |->
                      IF ~marked \/ w \notin ws THEN marker[w]
                      ELSE IF w \in Shell THEN "interrupted" ELSE "pending"]
  <2>2. /\ m \in [Work -> Mark]
        /\ \A w \in Work \ ws : m[w] = marker[w]
        /\ \A w \in Work \cap ws : m[w] # "none" \/ w \in unsaved'
        /\ \A w \in Work \ ws : w \in unsaved' <=> w \in unsaved
    BY <1>t, <2>1 DEF Typed, Mark
  <2>3. IF ws \cap Shell = {}
        THEN ok /\ marker' = m /\ UNCHANGED <<queue, batch, reviver>>
        ELSE Complete(ws \cap Shell, m, ok)
    BY <2>1
  <2> HIDE DEF m
  <2>4. /\ \A w \in Work : marker'[w] = m[w] \/ batch'[w] > 0
        /\ \A w \in Work : batch[w] > 0 => batch'[w] > 0
        /\ \A w \in Work : queue[w] > 0 => queue'[w] > 0
        /\ \A w \in ws \cap Shell : queue'[w] > 0 \/ batch'[w] > 0
    <3>1. CASE ws \cap Shell = {}
      BY <2>3, <3>1
    <3>2. CASE ws \cap Shell # {}
      <4>1. ws \cap Shell \in SUBSET Kin("shell") /\ "shell" \in Family
        BY Families DEF Family
      <4>2. Complete(ws \cap Shell, m, ok) /\ m \in [Work -> Mark] /\ Typed
        BY <1>t, <2>2, <2>3, <3>2
      <4>. QED
        BY <4>1, <4>2, Completes
    <3>. QED
      BY <3>1, <3>2
  <2>5. /\ \A w \in Work : rearm[w] \subseteq rearm'[w]
        /\ \A w \in ws \cap CloudAgent : rearm'[w] # {}
        /\ ws \subseteq CloudAgent \cup Shell /\ CloudAgent \cup Shell \subseteq Work
    BY <1>14, <1>t, Families DEF Restore, Typed, Carryable
  <2>6. ASSUME NEW w \in Work
        PROVE  Remembered(w) => Remembered(w)'
    <3>1. CASE w \in ws
      BY <1>14, <2>2, <2>4, <3>1 DEF Remembered, Restore
    <3>2. CASE w \notin ws
      BY <1>14, <2>2, <2>4, <2>5, <3>2 DEF Remembered, Restore
    <3>. QED
      BY <3>1, <3>2
  <2>7. WakeIsRemembered'
    BY <1>14, <1>t, <2>6, RememberedFrame DEF Restore
  <2>8. ASSUME NEW w \in Work, marker'[w] # "none"
        PROVE  \/ Awaited(w)'
               \/ marker[w] # "none" /\ (Awaited(w) => Awaited(w)')
    <3>1. CASE w \in ws
      BY <2>4, <2>5, <3>1 DEF Awaited
    <3>2. CASE w \notin ws
      BY <1>14, <2>2, <2>4, <2>5, <2>8, <3>2 DEF Awaited, Restore
    <3>. QED
      BY <3>1, <3>2
  <2>9. MarkedIsWatched'
    BY <1>14, <1>t, <2>8, AwaitedFrame DEF Restore
  <2>. QED
    BY <2>7, <2>9
<1>15. CASE ResumeAfterRecreate
  BY <1>14, <1>15 DEF ResumeAfterRecreate
<1>16. CASE Exit
  <2>1. \A w \in Work : watch'[w] # "new" => watch[w] # "new"
    BY <1>16 DEF Exit
  <2>2. WakeIsRemembered'
    BY <1>16, <1>t, <2>1, RememberedFrame DEF Exit, Remembered
  <2>. QED
    BY <1>16, <2>2 DEF Exit, MarkedIsWatched
<1>17. ASSUME NEW b \in BOOLEAN, Boot(b) PROVE Goal
  <2>1. \A w \in Work : marker[w] # "none" =>
           \/ marker'[w] # "none" \/ "boot" \in rearm'[w]
           \/ b /\ (w \in carried \/ told[w] > 0 \/ w \in lost')
    BY <1>17, <1>t DEF Boot, Settled, Typed, Mark
  <2>2. WakeIsRemembered'
    BY <1>17, <1>t, <2>1, RememberedFrame DEF Boot, Remembered
  <2>3. \A w \in Work : marker'[w] # "none" => rearm'[w] # {}
    BY <1>17, <1>t DEF Boot, Settled, Typed
  <2>. QED
    BY <2>2, <2>3 DEF MarkedIsWatched
<1>18. CASE UNCHANGED vars
  BY <1>18, <1>t DEF vars, counted, WakeIsRemembered, MarkedIsWatched
<1>. QED
  BY <1>1, <1>2, <1>3, <1>4, <1>5, <1>6, <1>7, <1>8, <1>9, <1>10, <1>11, <1>12, <1>13,
     <1>15, <1>16, <1>17, <1>18 DEF Next, Job

\* Nothing is forgotten or waited for in the initial state.
LEMMA WakeInit == Init => WakeInv
BY ShapeInit DEF Init, WakeInv, WakeIsRemembered, MarkedIsWatched

\* Work whose result was not told is remembered, but for the drops the model
\* names, for every set of works (WakeIsRemembered).
THEOREM WakesAreRemembered == Spec => []WakeIsRemembered
<1>1. WakeInv => WakeIsRemembered
  BY DEF WakeInv
<1>. QED
  BY <1>1, WakeInit, WakeNext, PTL DEF Spec

\* What is marked is waited for, but for the watches the model names
\* (MarkedIsWatched).
THEOREM MarksAreWatched == Spec => []MarkedIsWatched
<1>1. WakeInv => MarkedIsWatched
  BY DEF WakeInv
<1>. QED
  BY <1>1, WakeInit, WakeNext, PTL DEF Spec
-----------------------------------------------------------------------------
(* What the bounds count, and which marks and watches a kind of work has.  *)

UsedType == [faults : 0..MaxFaults, exits : 0..MaxExits, quiesces : 0..MaxQuiesces]

\* A list that is held was asked for.
Tallied ==
    /\ quiescing \in BOOLEAN /\ listed \in BOOLEAN
    /\ used \in UsedType
    /\ lost \cup unsaved \cup unwatched \cup again \subseteq Work
    /\ listed => used.quiesces > 0

\* Only commands are polled, aborted and interrupted, only subagents are being
\* stopped, and only the completions of commands queue up.
KindsMatch ==
    \A w \in Work : /\ watch[w] \in {"polled", "aborted"} => w \in Shell
                    /\ watch[w] = "stopping" => w \in Subagent
                    /\ marker[w] = "interrupted" => w \in Shell
                    /\ "notice" \in rearm[w] => w \in Shell
                    /\ w \notin Shell => queue[w] <= 1

Sorted == Tallied /\ KindsMatch

LEMMA Bounds == MaxFaults \in Nat /\ MaxExits \in Nat /\ MaxQuiesces \in Nat
BY WakeAssumption

\* A failed write is counted.
LEMMA Failures == \A ok \in BOOLEAN : Failed(ok) = (IF ok THEN 0 ELSE 1) /\ Failed(ok) \in Nat
BY DEF Failed

LEMMA Charges ==
    ASSUME used \in UsedType, NEW n \in Nat, Faults(n)
    PROVE  /\ used' \in UsedType /\ used'.faults = used.faults + n
           /\ used'.quiesces = used.quiesces
           /\ used.faults \in Nat /\ used.quiesces \in Nat
BY Bounds DEF Faults, UsedType

\* The carry lists already brought back: each let its work be told again.
Restores == IF listed THEN used.quiesces - 1 ELSE used.quiesces

\* Failures and restores only add up.
TallyGrows == /\ used'.faults \in Nat /\ used.faults \in Nat /\ used'.faults >= used.faults
              /\ Restores \in Nat /\ Restores' \in Nat /\ Restores' >= Restores

LEMMA TallyNext == Shape /\ Tallied /\ [Next]_vars => Tallied' /\ TallyGrows
<1> SUFFICES ASSUME Shape, Tallied, [Next]_vars PROVE Tallied' /\ TallyGrows
  OBVIOUS
<1>t. /\ Typed /\ quiescing \in BOOLEAN /\ listed \in BOOLEAN /\ used \in UsedType
      /\ lost \cup unsaved \cup unwatched \cup again \subseteq Work
      /\ listed => used.quiesces > 0
      /\ used.faults \in Nat /\ used.quiesces \in Nat /\ used.exits \in Nat
  BY Bounds DEF Shape, Tallied, UsedType
<1>r. Restores \in Nat
  BY <1>t DEF Restores
\* The tally, when a step counts failures or nothing and leaves the list.
<1>f. ASSUME NEW n \in Nat, Faults(n) \/ (n = 0 /\ UNCHANGED used), UNCHANGED listed
      PROVE  TallyGrows /\ used' \in UsedType /\ used'.quiesces = used.quiesces
  <2>1. used' \in UsedType /\ used'.quiesces = used.quiesces /\ used'.faults = used.faults + n
    BY <1>f, <1>t, Charges
  <2>. QED
    BY <1>f, <1>t, <1>r, <2>1 DEF TallyGrows, Restores
<1>0. 0 \in Nat
  OBVIOUS
<1>1. ASSUME NEW w \in Work, Begin(w) PROVE Tallied' /\ TallyGrows
  <2>1. PICK ok \in BOOLEAN : Saved(w, ok) /\ Faults(Failed(ok))
    BY <1>1 DEF Begin
  <2>2. UNCHANGED <<quiescing, listed, lost, unwatched, again>>
    BY <1>1 DEF Begin
  <2>. QED
    BY <1>t, <1>f, <2>1, <2>2, Failures DEF Tallied, Saved
<1>2. ASSUME NEW w \in Work, Settles(w) PROVE Tallied' /\ TallyGrows
  <2>1. PICK ok \in BOOLEAN : Faults(Failed(ok))
    BY <1>2 DEF Settles
  <2>2. UNCHANGED <<quiescing, listed, lost, unsaved, unwatched, again>>
    BY <1>2 DEF Settles, counted
  <2>. QED
    BY <1>t, <1>f, <2>1, <2>2, Failures DEF Tallied
<1>3. ASSUME NEW w \in Subagent, StopSubagent(w) \/ SubagentStopped(w)
      PROVE  Tallied' /\ TallyGrows
  <2>1. PICK next \in {"stopping", "none"} : Disarm(w, next)
    BY <1>3 DEF StopSubagent, SubagentStopped
  <2>2. PICK ok \in BOOLEAN : Faults(Failed(ok))
    BY <2>1 DEF Disarm
  <2>3. UNCHANGED <<quiescing, listed, unsaved, unwatched, again>> /\ lost' \subseteq Work
    BY <1>t, <2>1, Families DEF Disarm
  <2>. QED
    BY <1>t, <1>f, <2>2, <2>3, Failures DEF Tallied
<1>4. ASSUME NEW f \in Family, RevivalDropped(f) \/ RevivalUntold(f) \/ RevivalEnds(f) PROVE Tallied' /\ TallyGrows
  <2>1. PICK ok \in BOOLEAN : Faults(Failed(ok))
    BY <1>4 DEF RevivalDropped, RevivalUntold, ItsTurn, BatchDropped, RevivalEnds
  <2>2. UNCHANGED <<quiescing, listed, unsaved, unwatched, again>> /\ lost' \subseteq Work
    BY <1>4, <1>t, Families DEF RevivalDropped, RevivalUntold, ItsTurn, BatchDropped, RevivalEnds, counted
  <2>. QED
    BY <1>t, <1>f, <2>1, <2>2, Failures DEF Tallied
<1>5. ASSUME NEW f \in Family, RevivalResolved(f) \/ RevivalStarts(f) PROVE Tallied' /\ TallyGrows
  <2>1. UNCHANGED <<quiescing, listed, used, lost, unsaved, again>>
        /\ unwatched' \subseteq Work
    BY <1>5, <1>t DEF RevivalResolved, RevivalStarts, ItsTurn, Dropped
  <2>. QED
    BY <1>t, <1>f, <1>0, <2>1 DEF Tallied
<1>6. ASSUME NEW w \in Work, NEW job, RearmFails(w, job) \/ RearmWatch(w, job)
      PROVE  Tallied' /\ TallyGrows
  <2>1. PICK ok \in BOOLEAN : Faults(Failed(ok)) /\ Saved(w, ok) /\ lost' \subseteq Work
    BY <1>6, <1>t DEF RearmFails, RearmWatch
  <2>2. UNCHANGED <<quiescing, listed, again>> /\ unwatched' \subseteq Work
    BY <1>6, <1>t DEF RearmFails, RearmWatch, Dropped
  <2>. QED
    BY <1>t, <1>f, <2>1, <2>2, Failures DEF Tallied, Saved
<1>7. ASSUME NEW w \in Shell, RearmNotice(w) PROVE Tallied' /\ TallyGrows
  <2>1. PICK ok \in BOOLEAN : Faults(Failed(ok))
    BY <1>7 DEF RearmNotice
  <2>2. UNCHANGED <<quiescing, listed, lost, unsaved, unwatched, again>>
    BY <1>7 DEF RearmNotice, counted
  <2>. QED
    BY <1>t, <1>f, <2>1, <2>2, Failures DEF Tallied
<1>8. ASSUME NEW w \in Subagent, RearmSubagent(w) PROVE Tallied' /\ TallyGrows
  <2>1. PICK marked, ok \in BOOLEAN : Saved(w, marked) /\ Faults(Failed(marked) + Failed(ok))
    BY <1>8 DEF RearmSubagent
  <2>2. UNCHANGED <<quiescing, listed, lost, unwatched, again>> /\ w \in Work
    BY <1>8, Families DEF RearmSubagent
  <2>3. Failed(marked) + Failed(ok) \in Nat
    BY Failures
  <2>. QED
    BY <1>t, <1>f, <2>1, <2>2, <2>3 DEF Tallied, Saved
<1>9. ASSUME NEW b \in BOOLEAN, Quiesce(b) PROVE Tallied' /\ TallyGrows
  <2>1. used' = [used EXCEPT !.quiesces = @ + 1] /\ used.quiesces < MaxQuiesces
    BY <1>9 DEF Quiesce
  <2>2. /\ used' \in UsedType /\ used'.quiesces = used.quiesces + 1
        /\ used'.faults = used.faults
    BY <1>t, <2>1, Bounds DEF UsedType
  <2>3. /\ quiescing' \in BOOLEAN /\ unwatched' \subseteq Work
        /\ UNCHANGED <<lost, unsaved, again>>
        /\ listed' = listed \/ (~listed /\ listed' = TRUE)
    BY <1>9, <1>t DEF Quiesce, Dropped
  <2>4. TallyGrows
    BY <1>t, <1>r, <2>2, <2>3 DEF TallyGrows, Restores
  <2>5. used'.quiesces > 0
    BY <1>t, <2>2
  <2>6. listed' \in BOOLEAN
    BY <1>t, <2>3
  <2>. QED
    BY <1>t, <2>2, <2>3, <2>4, <2>5, <2>6 DEF Tallied
<1>10. CASE RunnerQuiesces
  <2>1. UNCHANGED <<quiescing, listed, used, lost, unsaved, again>>
        /\ unwatched' \subseteq Work
    BY <1>10, <1>t DEF RunnerQuiesces, Dropped
  <2>. QED
    BY <1>t, <1>f, <1>0, <2>1 DEF Tallied
<1>11. CASE ResumeAfterRecreate
  <2> DEFINE ws == {w \in carried : marker[w] = "none"}
  <2>0. Restore(ws)
    BY <1>11 DEF ResumeAfterRecreate
  <2>1. /\ listed /\ listed' = FALSE /\ quiescing' \in BOOLEAN
        /\ ws \subseteq Work
        /\ again' \subseteq Work /\ UNCHANGED <<lost, unwatched>>
    BY <1>t, <2>0, Families DEF Restore, Typed
  <2>2. PICK marked, ok \in BOOLEAN :
           /\ unsaved' = (IF marked THEN unsaved \ ws ELSE unsaved \cup ws)
           /\ Faults(Failed(marked) + Failed(ok))
    BY <2>0 DEF Restore
  <2> HIDE DEF ws
  <2>3. Failed(marked) + Failed(ok) \in Nat
    BY Failures
  <2>4. /\ used' \in UsedType /\ used'.quiesces = used.quiesces
        /\ used'.faults = used.faults + (Failed(marked) + Failed(ok))
    BY <1>t, <2>2, <2>3, Charges
  <2>5. TallyGrows
    BY <1>t, <1>r, <2>1, <2>3, <2>4 DEF TallyGrows, Restores
  <2>6. unsaved' \subseteq Work
    BY <1>t, <2>1, <2>2
  <2>. QED
    BY <1>t, <2>1, <2>4, <2>5, <2>6 DEF Tallied
<1>12. CASE Exit
  <2>1. used' = [used EXCEPT !.exits = @ + 1] /\ used.exits < MaxExits
    BY <1>12 DEF Exit
  <2>2. /\ used' \in UsedType /\ used'.quiesces = used.quiesces
        /\ used'.faults = used.faults
    BY <1>t, <2>1, Bounds DEF UsedType
  <2>3. /\ quiescing' \in BOOLEAN /\ UNCHANGED <<listed, again>>
        /\ lost' \subseteq Work /\ unsaved' = {} /\ unwatched' = {}
    BY <1>12, <1>t DEF Exit
  <2>4. TallyGrows
    BY <1>t, <1>r, <2>2, <2>3 DEF TallyGrows, Restores
  <2>. QED
    BY <1>t, <2>2, <2>3, <2>4 DEF Tallied
<1>13. ASSUME NEW b \in BOOLEAN, Boot(b) PROVE Tallied' /\ TallyGrows
  <2>1. PICK ok \in BOOLEAN : Faults(Failed(ok))
    BY <1>13 DEF Boot
  <2>2. UNCHANGED <<quiescing, listed, unsaved, unwatched, again>> /\ lost' \subseteq Work
    BY <1>13, <1>t DEF Boot
  <2>. QED
    BY <1>t, <1>f, <2>1, <2>2, Failures DEF Tallied
<1>14. CASE UNCHANGED vars
  <2>1. UNCHANGED <<quiescing, listed, used, lost, unsaved, unwatched, again>>
    BY <1>14 DEF vars, counted
  <2>. QED
    BY <1>t, <1>f, <1>0, <2>1 DEF Tallied
<1>. QED
  BY <1>1, <1>2, <1>3, <1>4, <1>5, <1>6, <1>7, <1>8, <1>9, <1>10, <1>11, <1>12, <1>13, <1>14
     DEF Next

-----------------------------------------------------------------------------
(* How often a result may be told.                                         *)

\* A revival has taken nothing before it starts, and once it runs has told all.
IdleTakesNone == \A w \in Work : reviver[FamilyOf(w)] = "idle" => batch[w] = 0
RunningIsTold ==
    \A w \in Work : reviver[FamilyOf(w)] = "running" => batch[w] <= told[w]
Untold(w) == IF reviver[FamilyOf(w)] = "running" THEN 0 ELSE batch[w]

\* What a completion of works of one family does to each work: it is left alone
\* or queued with its mark, or taken from no revival by a new one.
LEMMA Outcomes ==
    ASSUME Typed, IdleTakesNone, RunningIsTold, NEW f \in Family, NEW ws \in SUBSET Kin(f),
           NEW m \in [Work -> Mark], NEW ok \in BOOLEAN, told' = told,
           \/ Complete(ws, m, ok)
           \/ ws = {} /\ marker' = m /\ UNCHANGED <<queue, batch, reviver>>
    PROVE  /\ IdleTakesNone' /\ RunningIsTold'
           /\ \A w \in Work :
                 \/ /\ batch'[w] = batch[w] /\ Untold(w)' = Untold(w)
                    /\ marker'[w] = m[w]
                    /\ queue'[w] = queue[w] \/ (w \in ws /\ queue'[w] = Pushed(w))
                 \/ /\ w \in ws /\ batch'[w] = 1 /\ batch[w] = 0
                    /\ Untold(w)' = 1 /\ Untold(w) = 0
                    /\ queue'[w] = queue[w]
                    /\ marker'[w] = "none" \/ (~ok /\ marker'[w] = m[w])
<1>q. ASSUME NEW vs \in SUBSET ws, Queued(vs)
      PROVE  \A w \in Work : IF w \in vs THEN queue'[w] = Pushed(w) ELSE queue'[w] = queue[w]
  BY <1>q DEF Queued
<1>0. CASE marker' = m /\ UNCHANGED <<queue, batch, reviver>>
  BY <1>0 DEF IdleTakesNone, RunningIsTold, Untold
<1>1. CASE Complete(ws, m, ok) /\ \A w \in ws : reviver[FamilyOf(w)] # "idle"
  <2>1. Queued(ws) /\ marker' = m /\ UNCHANGED <<batch, reviver>>
    BY <1>1 DEF Complete
  <2>2. IdleTakesNone' /\ RunningIsTold'
    BY <2>1 DEF IdleTakesNone, RunningIsTold
  <2>3. \A w \in Work : batch'[w] = batch[w] /\ Untold(w)' = Untold(w)
    BY <2>1 DEF Untold
  <2>. QED
    BY <1>q, <2>1, <2>2, <2>3
<1>2. CASE Complete(ws, m, ok) /\ ~(\A w \in ws : reviver[FamilyOf(w)] # "idle")
  <2>1. TakeAtOnce(ws) /\ marker' = Settled(m, {w \in ws : batch'[w] # batch[w]}, ok)
    BY <1>2 DEF Complete
  <2>2. PICK v \in ws : /\ Queued(ws \ {v})
                        /\ batch' = [batch EXCEPT ![v] = 1]
                        /\ reviver' = [reviver EXCEPT ![FamilyOf(v)] = "resolving"]
    BY <2>1 DEF TakeAtOnce
  <2>3. /\ v \in Work /\ FamilyOf(v) = f /\ reviver[f] = "idle"
        /\ \A w \in Work : FamilyOf(w) \in Family
    BY <1>2, Families
  <2>4. /\ batch'[v] = 1 /\ \A w \in Work \ {v} : batch'[w] = batch[w]
        /\ reviver'[f] = "resolving" /\ \A g \in Family \ {f} : reviver'[g] = reviver[g]
    BY <2>2, <2>3 DEF Typed
  <2>5. batch[v] = 0
    BY <2>3 DEF IdleTakesNone
  <2>6. /\ \A w \in Work \ {v} : marker'[w] = m[w]
        /\ marker'[v] = IF ok THEN "none" ELSE m[v]
    BY <2>1, <2>3, <2>4, <2>5 DEF Settled
  <2>7. /\ \A w \in Work \ {v} : Untold(w)' = Untold(w)
        /\ Untold(v) = 0 /\ Untold(v)' = 1
    BY <2>3, <2>4, <2>5 DEF Untold
  <2>8. IdleTakesNone' /\ RunningIsTold'
    BY <2>3, <2>4 DEF IdleTakesNone, RunningIsTold
  <2>9. queue'[v] = queue[v]
        /\ \A w \in Work \ {v} : queue'[w] = queue[w] \/ (w \in ws /\ queue'[w] = Pushed(w))
    BY <1>q, <2>2, <2>3
  <2>. QED
    BY <2>4, <2>5, <2>6, <2>7, <2>8, <2>9
<1>. QED
  BY <1>0, <1>1, <1>2

\* The kinds match as before when each work keeps its watch, mark, rearm and
\* queue, or gets one of its kind.
LEMMA KindsFrame ==
    ASSUME KindsMatch,
           \A w \in Work :
              /\ \/ watch'[w] \in {watch[w], "none", "watching"}
                 \/ watch'[w] \in {"aborted", "polled"} /\ w \in Shell
                 \/ watch'[w] = "stopping" /\ w \in Subagent
              /\ marker'[w] \in {marker[w], "none", "pending"} \/ w \in Shell
              /\ "notice" \in rearm'[w] => "notice" \in rearm[w] \/ w \in Shell
              /\ queue'[w] = queue[w] \/ queue'[w] = 0 \/ queue'[w] = Pushed(w)
    PROVE  KindsMatch'
BY DEF KindsMatch, Pushed

LEMMA KindsNext ==
    Shape /\ KindsMatch /\ IdleTakesNone /\ RunningIsTold /\ [Next]_vars => KindsMatch'
<1> SUFFICES ASSUME Shape, KindsMatch, IdleTakesNone, RunningIsTold, [Next]_vars
             PROVE  KindsMatch'
  OBVIOUS
<1>t. Typed /\ Down
  BY DEF Shape
\* Cancelling, by a runner or by the host.
<1>w. ASSUME NEW v \in {Cancelled(watch), RunnerWatch, watch}, NEW w \in Work
      PROVE  \/ v[w] \in {watch[w], "none"}
             \/ v[w] = "aborted" /\ w \in Shell
  BY <1>t DEF Cancelled, RunnerWatch, Typed
<1>m. ASSUME NEW w \in Work, NEW how \in {"none", "pending"}, NEW ok \in BOOLEAN, NEW x \in Work
      PROVE  Marked(marker, w, how, ok)[x] \in {marker[x], "none", "pending"}
  BY <1>t DEF Marked, Typed
<1>d. ASSUME NEW w \in Work, NEW job, Done(w, job), NEW x \in Work, "notice" \in rearm'[x]
      PROVE  "notice" \in rearm[x]
  BY <1>d, <1>t DEF Done, Typed
<1>1. ASSUME NEW w \in Work, Begin(w) PROVE KindsMatch'
  <2>1. PICK ok \in BOOLEAN : marker' = Marked(marker, w, "pending", ok)
    BY <1>1 DEF Begin
  <2>2. /\ \A x \in Work : watch'[x] \in {watch[x], "watching"}
        /\ UNCHANGED <<rearm, queue>>
    BY <1>1, <1>t DEF Begin, Typed
  <2>3. \A x \in Work : marker'[x] \in {marker[x], "none", "pending"}
    BY <1>m, <2>1
  <2>. QED
    BY <2>2, <2>3, KindsFrame
\* Completions leave the marks m or clear them.
<1>c. ASSUME NEW f \in Family, NEW ws \in SUBSET Kin(f), NEW m \in [Work -> Mark],
             NEW ok \in BOOLEAN, told' = told,
             \/ Complete(ws, m, ok)
             \/ ws = {} /\ marker' = m /\ UNCHANGED <<queue, batch, reviver>>,
             \A w \in Work : /\ watch'[w] \in {watch[w], "none"}
                             /\ m[w] \in {marker[w], "none", "pending"} \/ w \in Shell
                             /\ "notice" \in rearm'[w] => "notice" \in rearm[w]
      PROVE  KindsMatch'
  <2>1. \A w \in Work : /\ queue'[w] = queue[w] \/ queue'[w] = Pushed(w)
                        /\ marker'[w] = m[w] \/ marker'[w] = "none"
    BY <1>c, <1>t, Outcomes
  <2>. QED
    BY <1>c, <2>1, KindsFrame
<1>2. ASSUME NEW w \in Work, Settles(w) PROVE KindsMatch'
  <2>1. PICK ok \in BOOLEAN : Complete({w}, marker, ok)
    BY <1>2 DEF Settles
  <2>2. /\ {w} \in SUBSET Kin(FamilyOf(w)) /\ FamilyOf(w) \in Family
        /\ marker \in [Work -> Mark]
    BY <1>t, Families DEF Typed
  <2>3. /\ told' = told /\ rearm' = rearm
        /\ \A x \in Work : watch'[x] \in {watch[x], "none"}
    BY <1>2, <1>t DEF Settles, counted, Typed
  <2>. QED
    BY <2>1, <2>2, <2>3, <1>c
<1>3. ASSUME NEW w \in Subagent, StopSubagent(w) \/ SubagentStopped(w) PROVE KindsMatch'
  <2>1. PICK next \in {"stopping", "none"} : Disarm(w, next)
    BY <1>3 DEF StopSubagent, SubagentStopped
  <2>2. PICK ok \in BOOLEAN : marker' = Marked(marker, w, "none", ok)
    BY <2>1 DEF Disarm
  <2>3. w \in Work /\ UNCHANGED <<rearm, queue>>
    BY <2>1, Families DEF Disarm
  <2>4. \A x \in Work : watch'[x] = watch[x] \/ (x = w /\ watch'[x] = next)
    BY <1>t, <2>1 DEF Disarm, Typed
  <2>5. \A x \in Work : marker'[x] \in {marker[x], "none", "pending"}
    BY <1>m, <2>2, <2>3
  <2>. QED
    BY <2>3, <2>4, <2>5, KindsFrame
<1>4. ASSUME NEW f \in Family, RevivalDropped(f) \/ RevivalUntold(f) \/ RevivalEnds(f) PROVE KindsMatch'
  <2>1. PICK ok \in BOOLEAN : NextBatch(f, ok)
    BY <1>4 DEF RevivalDropped, RevivalUntold, ItsTurn, BatchDropped, RevivalEnds
  <2>2. UNCHANGED <<watch, rearm>>
    BY <1>4 DEF RevivalDropped, RevivalUntold, ItsTurn, BatchDropped, RevivalEnds
  <2>3. \A w \in Work : /\ marker'[w] \in {marker[w], "none"}
                        /\ queue'[w] = queue[w] \/ queue'[w] = 0
    BY <2>1 DEF NextBatch, Settled
  <2>. QED
    BY <2>2, <2>3, KindsFrame
<1>5. ASSUME NEW f \in Family, RevivalResolved(f) \/ RevivalStarts(f) PROVE KindsMatch'
  <2>1. UNCHANGED <<marker, rearm, queue>> /\ watch' \in {RunnerWatch, watch}
    BY <1>5 DEF RevivalResolved, RevivalStarts, ItsTurn
  <2>. QED
    BY <2>1, <1>w, KindsFrame
<1>6. ASSUME NEW w \in Work, NEW job \in Job, RearmFails(w, job) PROVE KindsMatch'
  <2>1. PICK ok \in BOOLEAN :
           marker' = Marked(marker, w, IF job = "notice" THEN "interrupted" ELSE "pending", ok)
    BY <1>6 DEF RearmFails
  <2>2. job \in rearm[w] /\ Done(w, job) /\ UNCHANGED <<watch, queue>>
    BY <1>6 DEF RearmFails
  <2>3. \A x \in Work : marker'[x] \in {marker[x], "none", "pending"} \/ x \in Shell
    BY <1>t, <2>1, <2>2 DEF Marked, KindsMatch, Typed
  <2>. QED
    BY <2>2, <2>3, <1>d, KindsFrame
<1>7. ASSUME NEW w \in Work, NEW job \in Job, RearmWatch(w, job) PROVE KindsMatch'
  <2>1. PICK ok \in BOOLEAN : marker' = Marked(marker, w, "pending", ok)
    BY <1>7 DEF RearmWatch
  <2>2. Done(w, job) /\ UNCHANGED queue /\ watch' = WatchedBy(RunnerWatch, w)
    BY <1>7 DEF RearmWatch
  <2>3. \A x \in Work : marker'[x] \in {marker[x], "none", "pending"}
    BY <1>m, <2>1
  <2>4. \A x \in Work : \/ watch'[x] = RunnerWatch[x]
                        \/ watch'[x] = "watching"
                        \/ watch'[x] = "polled" /\ x \in Shell
    BY <1>t, <2>2, Cancels DEF WatchedBy
  <2>5. \A x \in Work : \/ RunnerWatch[x] \in {watch[x], "none"}
                        \/ RunnerWatch[x] = "aborted" /\ x \in Shell
    BY <1>w
  <2>. QED
    BY <2>2, <2>3, <2>4, <2>5, <1>d, KindsFrame
<1>8. ASSUME NEW w \in Shell, RearmNotice(w) PROVE KindsMatch'
  <2>1. w \in Work /\ {w} \in SUBSET Kin("shell") /\ "shell" \in Family
    BY Families DEF Family
  <2>2. PICK ok \in BOOLEAN : Complete({w}, marker, ok)
    BY <1>8 DEF RearmNotice
  <2>3. told' = told /\ Done(w, "notice") /\ UNCHANGED watch /\ marker \in [Work -> Mark]
    BY <1>8, <1>t DEF RearmNotice, counted, Typed
  <2>. QED
    BY <2>1, <2>2, <2>3, <1>c, <1>d
<1>9. ASSUME NEW w \in Subagent, RearmSubagent(w) PROVE KindsMatch'
  <2>1. w \in Work /\ {w} \in SUBSET Kin(FamilyOf(w)) /\ FamilyOf(w) \in Family
    BY Families
  <2>2. PICK marked, ok \in BOOLEAN : Complete({w}, Marked(marker, w, "pending", marked), ok)
    BY <1>9 DEF RearmSubagent
  <2> DEFINE m == Marked(marker, w, "pending", marked)
  <2>3. told' = told /\ Done(w, "boot") /\ UNCHANGED watch
    BY <1>9 DEF RearmSubagent
  <2>4. m \in [Work -> Mark] /\ \A x \in Work : m[x] \in {marker[x], "none", "pending"}
    BY <1>m, <1>t, <2>1, Marks DEF Typed, Mark
  <2>5. Complete({w}, m, ok)
    BY <2>2
  <2> HIDE DEF m
  <2>. QED
    BY <2>1, <2>3, <2>4, <2>5, <1>c, <1>d
<1>10. ASSUME NEW b \in BOOLEAN, Quiesce(b) PROVE KindsMatch'
  <2>1. UNCHANGED <<marker, rearm, queue>> /\ watch' \in {Cancelled(watch), watch}
    BY <1>10 DEF Quiesce
  <2>. QED
    BY <2>1, <1>w, KindsFrame
<1>11. CASE RunnerQuiesces
  <2>1. UNCHANGED <<marker, rearm, queue>> /\ watch' = RunnerWatch
    BY <1>11 DEF RunnerQuiesces
  <2>. QED
    BY <2>1, <1>w, KindsFrame
<1>12. CASE ResumeAfterRecreate
  <2> DEFINE ws == {w \in carried : marker[w] = "none"}
  <2>0. Restore(ws)
    BY <1>12 DEF ResumeAfterRecreate
  <2>1. PICK marked, ok \in BOOLEAN :
          LET m == [w \in Work |->
                      IF ~marked \/ w \notin ws THEN marker[w]
                      ELSE IF w \in Shell THEN "interrupted" ELSE "pending"]
          IN  IF ws \cap Shell = {}
              THEN ok /\ marker' = m /\ UNCHANGED <<queue, batch, reviver>>
              ELSE Complete(ws \cap Shell, m, ok)
    BY <2>0 DEF Restore
  <2>2. told' = told /\ UNCHANGED watch
    BY <2>0 DEF Restore
  <2>3. \A w \in Work : "notice" \in rearm'[w] => "notice" \in rearm[w]
    BY <2>0, <1>t DEF Restore, Typed
  <2> HIDE DEF ws
  <2> DEFINE m == [w \in Work |->
                      IF ~marked \/ w \notin ws THEN marker[w]
                      ELSE IF w \in Shell THEN "interrupted" ELSE "pending"]
  <2>4. /\ m \in [Work -> Mark]
        /\ \A w \in Work : m[w] \in {marker[w], "none", "pending"} \/ w \in Shell
    BY <1>t DEF Typed, Mark
  <2>5. \/ Complete(ws \cap Shell, m, ok)
        \/ ws \cap Shell = {} /\ marker' = m /\ UNCHANGED <<queue, batch, reviver>>
    BY <2>1
  <2>6. ws \cap Shell \in SUBSET Kin("shell") /\ "shell" \in Family
    BY Families DEF Family
  <2> HIDE DEF m
  <2>. QED
    BY <2>2, <2>3, <2>4, <2>5, <2>6, <1>c
<1>13. CASE Exit
  <2>1. \A w \in Work : watch'[w] = watch[w] \/ watch'[w] = "none"
    BY <1>13 DEF Exit
  <2>2. UNCHANGED marker /\ \A w \in Work : rearm'[w] = {} /\ queue'[w] = 0
    BY <1>13 DEF Exit, None0
  <2>. QED
    BY <2>1, <2>2, KindsFrame
<1>14. ASSUME NEW b \in BOOLEAN, Boot(b) PROVE KindsMatch'
  <2>1. UNCHANGED <<watch, queue>>
    BY <1>14 DEF Boot
  <2>2. \A w \in Work : marker'[w] = marker[w] \/ marker'[w] = "none"
    BY <1>14, <1>t DEF Boot, Settled, Typed
  <2>3. \A w \in Work : "notice" \in rearm'[w] => marker[w] = "interrupted"
    BY <1>14, <1>t DEF Boot, Typed, Mark
  <2>4. \A w \in Work : "notice" \in rearm'[w] => w \in Shell
    BY <2>3 DEF KindsMatch
  <2>. QED
    BY <2>1, <2>2, <2>4, KindsFrame
<1>15. CASE UNCHANGED vars
  BY <1>15 DEF vars, KindsMatch
<1>. QED
  BY <1>1, <1>2, <1>3, <1>4, <1>5, <1>6, <1>7, <1>8, <1>9, <1>10, <1>11, <1>12, <1>13,
     <1>14, <1>15 DEF Next, Job

\* What may still be told of work w in this process: its queued completions,
\* the one of whoever waits for it, and those of the rearms that wait.
Live(w) == IF watch[w] \in {"watching", "polled", "aborted"} THEN 1 ELSE 0
One(job, w) == IF job \in rearm[w] THEN 1 ELSE 0
Jobs(w) == One("boot", w) + One("notice", w) + One("carry", w)
Coming(w) == queue[w] + Live(w) + Jobs(w)

\* What was told, what will be and the telling a mark stands for stay within
\* one, the failed writes, and the restores of work that may be told again.
Allowed(w) == 1 + used.faults + (IF w \in again THEN Restores ELSE 0)
Once(w) ==
    /\ told[w] + Untold(w) + Coming(w) <= Allowed(w)
    /\ marker[w] # "none" => told[w] + Untold(w) + 1 <= Allowed(w)

\* Work that a list may bring back, without counting it as told again, has room
\* for one more telling.
Spare(w) ==
    /\ w \in Carryable \ again
    /\ marker[w] = "none" /\ told[w] = 0 /\ batch[w] = 0 /\ rearm[w] \subseteq {"notice"}
    => Coming(w) <= used.faults

NewIsUntouched ==
    \A w \in Work : watch[w] = "new" =>
        /\ queue[w] = 0 /\ batch[w] = 0 /\ told[w] = 0 /\ rearm[w] = {}
        /\ marker[w] = "none" /\ w \notin carried

OnceInv ==
    /\ Shape /\ Sorted
    /\ IdleTakesNone /\ RunningIsTold /\ NewIsUntouched
    /\ \A w \in Work : Once(w) /\ Spare(w)

\* The counts are natural numbers, before and after a step.
LEMMA Numbers ==
    ASSUME Typed, Typed', TallyGrows, NEW w \in Work
    PROVE  /\ queue[w] \in Nat /\ batch[w] \in Nat /\ told[w] \in Nat
           /\ queue'[w] \in Nat /\ batch'[w] \in Nat /\ told'[w] \in Nat
           /\ Untold(w) \in Nat /\ Untold(w)' \in Nat
           /\ Live(w) \in Nat /\ Live(w)' \in Nat /\ Jobs(w) \in Nat /\ Jobs(w)' \in Nat
           /\ Allowed(w) \in Nat /\ Allowed(w)' \in Nat
           /\ Coming(w) \in Nat /\ Coming(w)' \in Nat
           /\ Coming(w) = queue[w] + Live(w) + Jobs(w)
           /\ Coming(w)' = queue'[w] + Live(w)' + Jobs(w)'
           /\ used.faults \in Nat /\ used'.faults \in Nat /\ used'.faults >= used.faults
<1>1. /\ queue[w] \in Nat /\ batch[w] \in Nat /\ told[w] \in Nat
      /\ queue'[w] \in Nat /\ batch'[w] \in Nat /\ told'[w] \in Nat
  BY DEF Typed
<1>2. Untold(w) \in Nat /\ Untold(w)' \in Nat
  BY <1>1 DEF Untold
<1>3. Live(w) \in Nat /\ Live(w)' \in Nat /\ Jobs(w) \in Nat /\ Jobs(w)' \in Nat
  BY DEF Live, Jobs, One
<1>4. Allowed(w) \in Nat /\ Allowed(w)' \in Nat
  BY DEF Allowed, TallyGrows
<1>5. /\ Coming(w) = queue[w] + Live(w) + Jobs(w)
      /\ Coming(w)' = queue'[w] + Live(w)' + Jobs(w)'
  BY DEF Coming
<1>. QED
  BY <1>1, <1>2, <1>3, <1>4, <1>5 DEF TallyGrows

\* What is allowed grows with the failures.
LEMMA AllowedGrows ==
    ASSUME TallyGrows, NEW w, w \in again => w \in again'
    PROVE  Allowed(w)' >= Allowed(w) + (used'.faults - used.faults)
BY DEF Allowed, TallyGrows

\* Rearms that go, stay and come.
LEMMA JobsChange ==
    ASSUME NEW w
    PROVE  /\ \A job \in Job : job \in rearm[w] => Jobs(w) >= 1
           /\ rearm'[w] \subseteq rearm[w] => Jobs(w)' <= Jobs(w)
           /\ \A job \in Job : job \in rearm[w] /\ rearm'[w] = rearm[w] \ {job}
                                  => Jobs(w)' = Jobs(w) - 1
           /\ rearm'[w] \subseteq rearm[w] \cup {"carry"} => Jobs(w)' <= Jobs(w) + 1
           /\ rearm[w] = {} => Jobs(w) = 0
           /\ rearm'[w] = {} => Jobs(w)' = 0
           /\ \A job \in Job : rearm'[w] = {job} => Jobs(w)' = 1
BY DEF Jobs, One, Job

\* A work of which nothing more is coming than before, and that keeps its mark.
LEMMA Stays ==
    ASSUME Typed, Typed', TallyGrows, NEW w \in Work, Once(w), Spare(w),
           w \in again => w \in again',
           told'[w] + Untold(w)' <= told[w] + Untold(w), Coming(w)' <= Coming(w),
           told'[w] = 0 => told[w] = 0, batch'[w] = 0 /\ told'[w] = 0 => batch[w] = 0,
           marker'[w] = marker[w],
           rearm'[w] \subseteq {"notice"} => rearm[w] \subseteq {"notice"}
    PROVE  Once(w)' /\ Spare(w)'
<1>1. Allowed(w)' >= Allowed(w)
  BY AllowedGrows, Numbers
<1>2. Once(w)'
  BY <1>1, Numbers DEF Once
<1>3. Spare(w)'
  BY Numbers DEF Spare
<1>. QED
  BY <1>2, <1>3

\* A work whose completion was coming from a watch or a rearm and is now queued
\* or taken, with mark m.
LEMMA Moves ==
    ASSUME Typed, Typed', TallyGrows, NEW w \in Work, Once(w), Spare(w),
           w \in again => w \in again', told'[w] = told[w],
           Live(w)' + Jobs(w)' <= Live(w) + Jobs(w) - 1, NEW m,
           w \in Carryable =>
               /\ m = marker[w]
               /\ rearm'[w] \subseteq {"notice"} => rearm[w] \subseteq {"notice"},
           \/ /\ batch'[w] = batch[w] /\ Untold(w)' = Untold(w) /\ marker'[w] = m
              /\ queue'[w] = queue[w] \/ queue'[w] = Pushed(w)
           \/ /\ batch'[w] = 1 /\ batch[w] = 0 /\ Untold(w)' = 1 /\ Untold(w) = 0
              /\ queue'[w] = queue[w]
              /\ marker'[w] = "none" \/ used'.faults >= used.faults + 1
    PROVE  Once(w)' /\ Spare(w)'
<1>1. Allowed(w)' >= Allowed(w) + (used'.faults - used.faults)
  BY AllowedGrows
<1>2. Pushed(w) <= queue[w] + 1 /\ Pushed(w) \in Nat
  BY Numbers DEF Pushed
<1>3. CASE /\ batch'[w] = batch[w] /\ Untold(w)' = Untold(w) /\ marker'[w] = m
           /\ queue'[w] = queue[w] \/ queue'[w] = Pushed(w)
  <2>1. Coming(w)' <= Coming(w) /\ Coming(w) >= 1
    BY <1>2, <1>3, Numbers
  <2>2. Once(w)'
    BY <1>1, <1>3, <2>1, Numbers DEF Once
  <2>3. Spare(w)'
    BY <1>3, <2>1, Numbers DEF Spare
  <2>. QED
    BY <2>2, <2>3
<1>4. CASE /\ batch'[w] = 1 /\ batch[w] = 0 /\ Untold(w)' = 1 /\ Untold(w) = 0
           /\ queue'[w] = queue[w]
           /\ marker'[w] = "none" \/ used'.faults >= used.faults + 1
  <2>1. Coming(w)' <= Coming(w) - 1 /\ Coming(w) >= 1
    BY <1>4, Numbers
  <2>2. Once(w)'
    BY <1>1, <1>4, <2>1, Numbers DEF Once
  <2>3. Spare(w)'
    BY <1>4 DEF Spare
  <2>. QED
    BY <2>2, <2>3
<1>. QED
  BY <1>3, <1>4

\* A revival gives up what it took and takes what is queued.
LEMMA BatchMoves ==
    ASSUME Typed, Typed', TallyGrows, NEW w \in Work, Once(w), Spare(w), TellsAll,
           w \in again => w \in again', told'[w] = told[w],
           Live(w)' = Live(w), rearm'[w] = rearm[w],
           queue'[w] = 0, batch'[w] = queue[w], Untold(w)' = queue[w],
           Untold(w) = batch[w] \/ reviver[FamilyOf(w)] = "running",
           \/ queue[w] = 0 /\ marker'[w] = marker[w]
           \/ marker'[w] = "none" /\ queue[w] > 0
           \/ used'.faults >= used.faults + 1
              /\ marker'[w] = marker[w]
    PROVE  Once(w)' /\ Spare(w)'
<1>1. Allowed(w)' >= Allowed(w) + (used'.faults - used.faults)
  BY AllowedGrows
<1>2. Jobs(w)' = Jobs(w)
  BY DEF Jobs, One
<1>3. Coming(w)' = Coming(w) - queue[w]
  BY <1>2, Numbers
<1>4. told'[w] + Untold(w)' + Coming(w)' <= Allowed(w)'
  BY <1>1, <1>3, Numbers DEF Once
<1>5. marker'[w] # "none" => told'[w] + Untold(w)' + 1 <= Allowed(w)'
  BY <1>1, <1>2, Numbers DEF Once
<1>6. Spare(w)'
  <2>1. SUFFICES ASSUME w \in Carryable \ again', marker'[w] = "none", told'[w] = 0,
                        batch'[w] = 0, rearm'[w] \subseteq {"notice"}
                 PROVE  Coming(w)' <= used'.faults
    BY DEF Spare
  <2>2. queue[w] = 0 /\ marker[w] = "none" /\ Coming(w)' = Coming(w)
    BY <1>3, <2>1, Numbers
  <2>3. CASE batch[w] = 0
    BY <2>1, <2>2, <2>3, Numbers DEF Spare
  <2>4. CASE batch[w] > 0
    <3>1. Untold(w) = batch[w]
      <4>1. ~(told[w] > 0) /\ batch[w] > 0
        BY <2>1, <2>4, Numbers
      <4>2. reviver[FamilyOf(w)] # "running"
        BY <4>1 DEF TellsAll
      <4>. QED
        BY <4>2
    <3>2. Allowed(w) = 1 + used.faults
      BY <2>1, Numbers DEF Allowed
    <3>. QED
      BY <2>2, <2>4, <3>1, <3>2, Numbers DEF Once
  <2>. QED
    BY <2>3, <2>4, Numbers
<1>. QED
  BY <1>4, <1>5, <1>6 DEF Once

\* A work nothing happens to but that its watch may be cancelled or end.
LEMMA Rests ==
    ASSUME Typed, Typed', TallyGrows, NEW w \in Work, Once(w), Spare(w),
           w \in again => w \in again',
           told'[w] = told[w], queue'[w] = queue[w], batch'[w] = batch[w],
           Untold(w)' = Untold(w), marker'[w] = marker[w], rearm'[w] = rearm[w],
           watch'[w] = watch[w] \/ watch'[w] \in {"none", "stopping"}
           \/ watch[w] \in {"watching", "polled", "aborted"}
    PROVE  Once(w)' /\ Spare(w)'
<1>1. Live(w)' <= Live(w) /\ Jobs(w)' = Jobs(w)
  BY DEF Live, Jobs, One
<1>2. Coming(w)' <= Coming(w)
  BY <1>1, Numbers
<1>. QED
  BY <1>2, Stays, Numbers

\* A step that leaves a work new does nothing to it.
LEMMA NewStays ==
    ASSUME NewIsUntouched,
           \A w \in Work : watch'[w] = "new" =>
               /\ watch[w] = "new"
               /\ queue'[w] = queue[w] /\ batch'[w] = batch[w] /\ told'[w] = told[w]
               /\ rearm'[w] = rearm[w] /\ marker'[w] = marker[w]
               /\ w \in carried' => w \in carried
    PROVE  NewIsUntouched'
BY DEF NewIsUntouched

\* A step that leaves the revivals alone.
LEMMA RevivalsStay ==
    ASSUME IdleTakesNone, RunningIsTold, UNCHANGED <<reviver, batch, told>>
    PROVE  /\ IdleTakesNone' /\ RunningIsTold'
           /\ \A w : Untold(w)' = Untold(w)
BY DEF IdleTakesNone, RunningIsTold, Untold

LEMMA OnceInit == Init => OnceInv
<1> SUFFICES ASSUME Init PROVE OnceInv
  OBVIOUS
<1>1. Sorted
  <2>1. used \in UsedType
    BY Bounds DEF Init, UsedType
  <2>2. Tallied
    BY <2>1 DEF Init, Tallied
  <2>3. KindsMatch
    BY DEF Init, KindsMatch, None0
  <2>. QED
    BY <2>2, <2>3 DEF Sorted
<1>2. IdleTakesNone /\ RunningIsTold /\ NewIsUntouched
  BY DEF Init, IdleTakesNone, RunningIsTold, NewIsUntouched, None0
<1>3. ASSUME NEW w \in Work PROVE Once(w) /\ Spare(w)
  <2>1. Untold(w) = 0 /\ Live(w) = 0 /\ Jobs(w) = 0 /\ Allowed(w) = 1
    BY DEF Init, Untold, Live, Jobs, One, Allowed, None0
  <2>2. Coming(w) = 0 /\ told[w] = 0 /\ marker[w] = "none" /\ used.faults = 0
    BY <2>1 DEF Init, Coming, None0
  <2>. QED
    BY <2>1, <2>2 DEF Once, Spare
<1>. QED
  BY <1>1, <1>2, <1>3, ShapeInit DEF OnceInv

\* Every step keeps the count.
LEMMA OnceNext == OnceInv /\ [Next]_vars => OnceInv'
<1> SUFFICES ASSUME OnceInv, [Next]_vars PROVE OnceInv'
  OBVIOUS
<1> DEFINE Goal == /\ IdleTakesNone' /\ RunningIsTold' /\ NewIsUntouched'
                   /\ \A w \in Work : Once(w)' /\ Spare(w)'
<1>s. Shape /\ Tallied /\ KindsMatch /\ IdleTakesNone /\ RunningIsTold
  BY DEF OnceInv, Sorted
<1>s2. Shape' /\ Sorted' /\ TallyGrows
  BY <1>s, ShapeNext, TallyNext, KindsNext DEF Sorted
<1>t. /\ Typed /\ Typed' /\ Down /\ TellsAll /\ TallyGrows /\ used \in UsedType
      /\ IdleTakesNone /\ RunningIsTold /\ NewIsUntouched
      /\ \A w \in Work : Once(w) /\ Spare(w)
  BY <1>s, <1>s2 DEF OnceInv, Shape, Tallied
<1>m. \A ok \in BOOLEAN : Faults(Failed(ok)) /\ ~ok => used'.faults = used.faults + 1
  BY <1>t, Charges, Failures
\* One mark is written.
<1>p. ASSUME NEW w \in Work, NEW how \in Mark, NEW ok \in BOOLEAN,
             marker' = Marked(marker, w, how, ok)
      PROVE  /\ \A x \in Work \ {w} : marker'[x] = marker[x]
             /\ marker'[w] = IF ok THEN how ELSE marker[w]
  <2>1. marker \in [Work -> Mark]
    BY <1>s DEF Shape, Typed
  <2>. QED
    BY <1>p, <2>1, Marks
<1>1. ASSUME NEW w \in Work, Begin(w) PROVE Goal
  <2>1. PICK ok \in BOOLEAN :
           marker' = Marked(marker, w, "pending", ok) /\ Faults(Failed(ok))
    BY <1>1 DEF Begin
  <2>2. /\ UNCHANGED <<queue, batch, reviver, rearm, carried, told, again>>
        /\ watch[w] = "new" /\ watch' = [watch EXCEPT ![w] = "watching"]
    BY <1>1 DEF Begin
  <2>3. /\ watch'[w] = "watching" /\ \A x \in Work \ {w} : watch'[x] = watch[x]
        /\ \A x \in Work \ {w} : marker'[x] = marker[x]
        /\ ok => marker'[w] = "pending"
    BY <1>t, <1>p, <2>1, <2>2 DEF Typed, Mark
  <2>4. /\ queue[w] = 0 /\ batch[w] = 0 /\ told[w] = 0 /\ rearm[w] = {}
    BY <1>t, <2>2 DEF NewIsUntouched
  <2>5. IdleTakesNone' /\ RunningIsTold' /\ \A x : Untold(x)' = Untold(x)
    BY <1>t, <2>2, RevivalsStay
  <2>6. NewIsUntouched'
    BY <1>t, <2>2, <2>3, NewStays
  <2>7. \A x \in Work \ {w} : Once(x)' /\ Spare(x)'
    BY <1>t, <2>2, <2>3, <2>5, Rests
  <2>8. Once(w)' /\ Spare(w)'
    <3>1. Untold(w)' = 0 /\ told'[w] = 0
      BY <2>2, <2>4, <2>5 DEF Untold
    <3>2. Live(w)' = 1 /\ Jobs(w)' = 0 /\ queue'[w] = 0
      BY <2>2, <2>3, <2>4 DEF Live, Jobs, One
    <3>3. Coming(w)' = 1
      BY <3>2 DEF Coming
    <3>4. Allowed(w)' >= 1 + used'.faults /\ Allowed(w)' \in Nat
      BY <1>t, Numbers DEF Allowed, TallyGrows
    <3>5. Once(w)'
      BY <1>t, <3>1, <3>3, <3>4, Numbers DEF Once
    <3>6. marker'[w] = "none" => used'.faults = used.faults + 1
      BY <1>m, <2>1, <2>3
    <3>7. Spare(w)'
      BY <1>t, <3>3, <3>6, Numbers DEF Spare
    <3>. QED
      BY <3>5, <3>7
  <2>. QED
    BY <2>5, <2>6, <2>7, <2>8
\* A watch or a rearm of each of the works ws ends in its completion.
<1>c. ASSUME NEW f \in Family, NEW ws \in SUBSET Kin(f), NEW m \in [Work -> Mark],
             NEW ok \in BOOLEAN, Complete(ws, m, ok),
             ~ok => used'.faults >= used.faults + 1,
             UNCHANGED <<told, again, carried>>,
             \A w \in Work \ ws : watch'[w] = watch[w] /\ rearm'[w] = rearm[w] /\ m[w] = marker[w],
             \A w \in ws : /\ watch'[w] # "new"
                           /\ Live(w)' + Jobs(w)' <= Live(w) + Jobs(w) - 1
                           /\ w \in Carryable =>
                                 /\ m[w] = marker[w]
                                 /\ rearm'[w] \subseteq {"notice"} => rearm[w] \subseteq {"notice"}
      PROVE  Goal
  <2>1. /\ IdleTakesNone' /\ RunningIsTold'
        /\ \A w \in Work :
              \/ /\ batch'[w] = batch[w] /\ Untold(w)' = Untold(w) /\ marker'[w] = m[w]
                 /\ queue'[w] = queue[w] \/ (w \in ws /\ queue'[w] = Pushed(w))
              \/ /\ w \in ws /\ batch'[w] = 1 /\ batch[w] = 0
                 /\ Untold(w)' = 1 /\ Untold(w) = 0
                 /\ queue'[w] = queue[w]
                 /\ marker'[w] = "none" \/ (~ok /\ marker'[w] = m[w])
    BY <1>c, <1>t, Outcomes
  <2>2. ASSUME NEW w \in Work \ ws PROVE Once(w)' /\ Spare(w)'
    BY <1>c, <1>t, <2>1, <2>2, Rests
  <2>3. ASSUME NEW w \in ws PROVE Once(w)' /\ Spare(w)'
    <3>1. w \in Work
      BY Families
    <3>2. \/ /\ batch'[w] = batch[w] /\ Untold(w)' = Untold(w) /\ marker'[w] = m[w]
             /\ queue'[w] = queue[w] \/ queue'[w] = Pushed(w)
          \/ /\ batch'[w] = 1 /\ batch[w] = 0 /\ Untold(w)' = 1 /\ Untold(w) = 0
             /\ queue'[w] = queue[w]
             /\ marker'[w] = "none" \/ used'.faults >= used.faults + 1
      BY <1>c, <2>1, <3>1
    <3>. QED
      BY <1>c, <1>t, <3>1, <3>2, Moves
  <2>4. NewIsUntouched'
    BY <1>c, <1>t, <2>1, NewStays
  <2>. QED
    BY <2>1, <2>2, <2>3, <2>4
<1>u. ASSUME NEW w \in Work, NEW m \in [Work -> Mark], NEW ok \in BOOLEAN,
             Complete({w}, m, ok), ~ok => used'.faults >= used.faults + 1,
             UNCHANGED <<told, again, carried>>,
             \A x \in Work \ {w} : watch'[x] = watch[x] /\ rearm'[x] = rearm[x] /\ m[x] = marker[x],
             watch'[w] # "new", Live(w)' + Jobs(w)' <= Live(w) + Jobs(w) - 1,
             w \in Carryable =>
                 /\ m[w] = marker[w]
                 /\ rearm'[w] \subseteq {"notice"} => rearm[w] \subseteq {"notice"}
      PROVE  Goal
  <2>1. {w} \in SUBSET Kin(FamilyOf(w)) /\ FamilyOf(w) \in Family
    BY Families
  <2> HIDE DEF Goal
  <2>. QED
    BY <1>u, <1>c, <2>1
<1>2. ASSUME NEW w \in Work, Settles(w) PROVE Goal
  <2>1. PICK ok \in BOOLEAN : Complete({w}, marker, ok) /\ Faults(Failed(ok))
    BY <1>2 DEF Settles
  <2>2. /\ {w} \in SUBSET Kin(FamilyOf(w)) /\ FamilyOf(w) \in Family
        /\ marker \in [Work -> Mark]
    BY <1>t, Families DEF Typed
  <2>3. /\ UNCHANGED <<told, again, carried, rearm>>
        /\ \A x \in Work \ {w} : watch'[x] = watch[x]
        /\ watch'[w] = "none" /\ watch[w] \in {"watching", "polled", "aborted"}
    BY <1>2, <1>t DEF Settles, counted, Typed
  <2>4. Live(w) = 1 /\ Live(w)' = 0 /\ Jobs(w)' = Jobs(w)
    BY <2>3 DEF Live, Jobs, One
  <2>5. Live(w)' + Jobs(w)' <= Live(w) + Jobs(w) - 1
    BY <1>t, <2>4, Numbers
  <2>6. ~ok => used'.faults >= used.faults + 1
    BY <1>m, <1>t, <2>1, Numbers
  <2>. QED
    BY <2>1, <2>2, <2>3, <2>5, <2>6, <1>u
<1>3. ASSUME NEW w \in Subagent, StopSubagent(w) \/ SubagentStopped(w) PROVE Goal
  <2>1. PICK next \in {"stopping", "none"} :
           Disarm(w, next) /\ watch[w] \in {"watching", "stopping"}
    BY <1>3 DEF StopSubagent, SubagentStopped
  <2>2. PICK ok \in BOOLEAN : marker' = Marked(marker, w, "none", ok)
    BY <2>1 DEF Disarm
  <2>3. UNCHANGED <<queue, batch, reviver, rearm, carried, told, again>>
    BY <2>1 DEF Disarm
  <2>4. w \in Work /\ w \notin Carryable
    BY WakeAssumption DEF Work, Carryable
  <2>5. /\ watch'[w] = next /\ \A x \in Work \ {w} : watch'[x] = watch[x]
        /\ \A x \in Work \ {w} : marker'[x] = marker[x]
        /\ marker'[w] = marker[w] \/ marker'[w] = "none"
    BY <1>t, <1>p, <2>1, <2>2, <2>4 DEF Disarm, Typed, Mark
  <2>6. IdleTakesNone' /\ RunningIsTold' /\ \A x : Untold(x)' = Untold(x)
    BY <1>t, <2>3, RevivalsStay
  <2>7. NewIsUntouched'
    BY <1>t, <2>3, <2>4, <2>5, NewStays
  <2>8. \A x \in Work \ {w} : Once(x)' /\ Spare(x)'
    BY <1>t, <2>3, <2>5, <2>6, Rests
  <2>9. Once(w)' /\ Spare(w)'
    <3>1. Live(w)' = 0 /\ Jobs(w)' = Jobs(w)
      BY <2>3, <2>5 DEF Live, Jobs, One
    <3>2. Coming(w)' <= Coming(w) /\ told'[w] = told[w]
      BY <1>t, <2>3, <2>4, <3>1, Numbers
    <3>3. Allowed(w)' >= Allowed(w)
      BY <1>t, <2>3, <2>4, AllowedGrows, Numbers
    <3>4. Once(w)'
      BY <1>t, <2>4, <2>5, <2>6, <3>2, <3>3, Numbers DEF Once
    <3>5. Spare(w)'
      BY <2>4 DEF Spare
    <3>. QED
      BY <3>4, <3>5
  <2>. QED
    BY <2>6, <2>7, <2>8, <2>9
\* The revival under way ends and the next one begins.
<1>n. ASSUME NEW f \in Family, NEW ok \in BOOLEAN, NextBatch(f, ok), Faults(Failed(ok)),
             reviver[f] # "idle",
             UNCHANGED <<watch, rearm, carried, told, again>>
      PROVE  Goal
  <2>1. /\ \A w \in Kin(f) : queue'[w] = 0 /\ batch'[w] = queue[w]
        /\ \A w \in Work \ Kin(f) : /\ queue'[w] = queue[w] /\ batch'[w] = batch[w]
                                    /\ marker'[w] = marker[w]
    BY <1>n, <1>t, NextBatches
  <2>2. /\ \A g \in Family \ {f} : reviver'[g] = reviver[g]
        /\ \/ reviver'[f] = "idle" /\ \A w \in Kin(f) : ~(queue[w] > 0)
           \/ reviver'[f] = "resolving"
    BY <1>n, <1>t DEF NextBatch, Typed
  <2>3. \A w \in Kin(f) : IF queue[w] > 0 /\ ok THEN marker'[w] = "none"
                                               ELSE marker'[w] = marker[w]
    BY <1>n, <1>t, Families DEF NextBatch, Settled, Typed
  <2>4. IdleTakesNone'
    <3>1. ASSUME NEW w \in Kin(f), reviver'[f] = "idle" PROVE batch'[w] = 0
      BY <1>t, <2>1, <2>2, <3>1, Families, Numbers
    <3>. QED
      BY <1>t, <2>1, <2>2, <3>1, Families DEF IdleTakesNone
  <2>5. RunningIsTold'
    BY <1>n, <1>t, <2>1, <2>2, Families DEF RunningIsTold
  <2>6. /\ \A w \in Kin(f) : Untold(w)' = queue[w]
        /\ \A w \in Kin(f) : Untold(w) = batch[w] \/ reviver[FamilyOf(w)] = "running"
        /\ \A w \in Work \ Kin(f) : Untold(w)' = Untold(w)
    BY <2>1, <2>2, Families DEF Untold
  <2>7. ASSUME NEW w \in Work \ Kin(f) PROVE Once(w)' /\ Spare(w)'
    BY <1>n, <1>t, <2>1, <2>6, <2>7, Rests
  <2>8. ASSUME NEW w \in Kin(f) PROVE Once(w)' /\ Spare(w)'
    <3>1. w \in Work /\ Live(w)' = Live(w)
      BY <1>n, Families DEF Live
    <3>2. \/ queue[w] = 0 /\ marker'[w] = marker[w]
          \/ marker'[w] = "none" /\ queue[w] > 0
          \/ used'.faults >= used.faults + 1 /\ marker'[w] = marker[w]
      <4>1. CASE ok
        BY <1>t, <2>3, <3>1, <4>1, Numbers
      <4>2. CASE ~ok
        BY <1>m, <1>n, <1>t, <2>3, <3>1, <4>2, Numbers
      <4>. QED
        BY <4>1, <4>2
    <3>3. w \in again => w \in again'
      BY <1>n
    <3>. QED
      BY <1>n, <1>t, <2>1, <2>6, <3>1, <3>2, <3>3, BatchMoves
  <2>9. NewIsUntouched'
    <3>1. ASSUME NEW w \in Work, watch'[w] = "new"
          PROVE  /\ watch[w] = "new"
                 /\ queue'[w] = 0 /\ batch'[w] = 0 /\ marker'[w] = "none"
      <4>1. /\ watch[w] = "new" /\ queue[w] = 0 /\ batch[w] = 0 /\ marker[w] = "none"
        BY <1>n, <1>t, <3>1 DEF NewIsUntouched
      <4>2. CASE w \in Kin(f)
        BY <2>1, <2>3, <4>1, <4>2
      <4>3. CASE w \notin Kin(f)
        BY <2>1, <4>1, <4>3
      <4>. QED
        BY <4>1, <4>2, <4>3
    <3>. QED
      BY <1>n, <1>t, <3>1 DEF NewIsUntouched
  <2>. QED
    BY <2>4, <2>5, <2>7, <2>8, <2>9
<1>4. ASSUME NEW f \in Family, RevivalDropped(f) \/ RevivalUntold(f) \/ RevivalEnds(f) PROVE Goal
  <2>1. PICK ok \in BOOLEAN : NextBatch(f, ok) /\ Faults(Failed(ok))
    BY <1>4 DEF RevivalDropped, RevivalUntold, ItsTurn, BatchDropped, RevivalEnds
  <2>2. reviver[f] # "idle" /\ UNCHANGED <<watch, rearm, carried, told, again>>
    BY <1>4 DEF RevivalDropped, RevivalUntold, ItsTurn, BatchDropped, RevivalEnds, counted
  <2>. QED
    BY <2>1, <2>2, <1>n
\* A step that only moves the revivals and the watches, and tells what it takes.
<1>w. ASSUME \A w \in Work : watch'[w] = watch[w] \/ watch'[w] \in {"none", "stopping"}
                             \/ watch[w] \in {"watching", "polled", "aborted"},
             \A w \in Work : watch'[w] = "new" => watch[w] = "new",
             \A w \in Work : w \in carried' => w \in carried \/ marker[w] # "none",
             UNCHANGED <<marker, queue, batch, reviver, rearm, told, again>>
      PROVE  Goal
  <2>1. IdleTakesNone' /\ RunningIsTold' /\ \A x : Untold(x)' = Untold(x)
    BY <1>w, <1>t, RevivalsStay
  <2>2. \A w \in Work : Once(w)' /\ Spare(w)'
    BY <1>w, <1>t, <2>1, Rests
  <2>3. NewIsUntouched'
    BY <1>w, <1>t DEF NewIsUntouched
  <2>. QED
    BY <2>1, <2>2, <2>3
\* Cancelling ends watches or leaves them to report.
<1>k. ASSUME NEW v \in {Cancelled(watch), RunnerWatch, watch}, NEW w \in Work
      PROVE  /\ \/ v[w] = watch[w] \/ v[w] \in {"none", "stopping"}
                \/ watch[w] \in {"watching", "polled", "aborted"}
             /\ v[w] = "new" => watch[w] = "new"
  BY <1>t DEF Cancelled, RunnerWatch, Typed
<1>5. ASSUME NEW f \in Family, RevivalResolved(f) PROVE Goal
  <2>1. /\ UNCHANGED <<marker, queue, batch, rearm, carried, told, again>>
        /\ watch' = RunnerWatch
        /\ reviver[f] = "resolving" /\ reviver' = [reviver EXCEPT ![f] = "queued"]
    BY <1>5 DEF RevivalResolved
  <2>2. /\ reviver'[f] = "queued" /\ \A g \in Family \ {f} : reviver'[g] = reviver[g]
    BY <1>t, <2>1 DEF Typed
  <2>3. IdleTakesNone' /\ RunningIsTold' /\ \A w \in Work : Untold(w)' = Untold(w)
    BY <1>t, <2>1, <2>2, Families DEF IdleTakesNone, RunningIsTold, Untold
  <2>4. \A w \in Work : /\ \/ watch'[w] = watch[w] \/ watch'[w] \in {"none", "stopping"}
                           \/ watch[w] \in {"watching", "polled", "aborted"}
                        /\ watch'[w] = "new" => watch[w] = "new"
    BY <1>k, <2>1
  <2>5. \A w \in Work : Once(w)' /\ Spare(w)'
    BY <1>t, <2>1, <2>3, <2>4, Rests
  <2>6. NewIsUntouched'
    BY <1>t, <2>1, <2>4, NewStays
  <2>. QED
    BY <2>3, <2>5, <2>6
<1>6. ASSUME NEW f \in Family, RevivalStarts(f) PROVE Goal
  <2>1. /\ UNCHANGED <<marker, watch, queue, batch, rearm, carried, again>>
        /\ reviver[f] = "queued" /\ reviver' = [reviver EXCEPT ![f] = "running"]
    BY <1>6 DEF RevivalStarts, ItsTurn
  <2>2. /\ reviver'[f] = "running" /\ \A g \in Family \ {f} : reviver'[g] = reviver[g]
        /\ \A w \in Kin(f) : told'[w] = told[w] + batch[w]
        /\ \A w \in Work \ Kin(f) : told'[w] = told[w]
    BY <1>6, <1>t, <2>1, Families DEF RevivalStarts, ItsTurn, Typed
  <2>3. IdleTakesNone'
    BY <1>t, <2>1, <2>2, Families DEF IdleTakesNone
  <2>4. RunningIsTold'
    <3>1. ASSUME NEW w \in Kin(f) PROVE batch'[w] <= told'[w]
      BY <1>t, <2>1, <2>2, <3>1, Families, Numbers
    <3>2. ASSUME NEW w \in Work \ Kin(f), reviver'[FamilyOf(w)] = "running"
          PROVE  batch'[w] <= told'[w]
      BY <1>t, <2>1, <2>2, <3>2, Families DEF RunningIsTold
    <3>. QED
      BY <3>1, <3>2 DEF RunningIsTold
  <2>5. ASSUME NEW w \in Work PROVE Once(w)' /\ Spare(w)'
    <3>1. Live(w)' = Live(w) /\ Jobs(w)' = Jobs(w)
      BY <2>1 DEF Live, Jobs, One
    <3>2. Coming(w)' = Coming(w)
      BY <1>t, <2>1, <3>1, Numbers
    <3>3. CASE w \in Kin(f)
      <4>1. Untold(w)' = 0 /\ Untold(w) = batch[w] /\ told'[w] = told[w] + batch[w]
        BY <2>1, <2>2, <3>3, Families DEF Untold
      <4>2. /\ told'[w] + Untold(w)' <= told[w] + Untold(w)
            /\ told'[w] = 0 => told[w] = 0
        BY <1>t, <4>1, Numbers
      <4>3. batch'[w] = 0 => batch[w] = 0
        BY <2>1
      <4>4. Coming(w)' <= Coming(w) /\ marker'[w] = marker[w] /\ rearm'[w] = rearm[w]
            /\ (w \in again => w \in again')
        BY <1>t, <2>1, <3>2, Numbers
      <4>. QED
        BY <1>t, <4>2, <4>3, <4>4, Stays
    <3>4. CASE w \notin Kin(f)
      <4>1. Untold(w)' = Untold(w) /\ told'[w] = told[w]
        BY <2>1, <2>2, <3>4, Families DEF Untold
      <4>. QED
        BY <1>t, <2>1, <4>1, Rests
    <3>. QED
      BY <3>3, <3>4
  <2>6. NewIsUntouched'
    <3>1. ASSUME NEW w \in Work, watch'[w] = "new" PROVE told'[w] = told[w]
      <4>1. batch[w] = 0 /\ told[w] = 0
        BY <1>t, <2>1, <3>1 DEF NewIsUntouched
      <4>. QED
        BY <2>2, <4>1
    <3>. QED
      BY <1>t, <2>1, <3>1, NewStays
  <2>. QED
    BY <2>3, <2>4, <2>5, <2>6
\* A rearm that ends was under way.
<1>j. ASSUME NEW w \in Work, NEW job \in Job, job \in rearm[w], Done(w, job)
      PROVE  /\ rearm'[w] = rearm[w] \ {job} /\ \A x \in Work \ {w} : rearm'[x] = rearm[x]
             /\ Jobs(w)' = Jobs(w) - 1 /\ Jobs(w) >= 1 /\ watch[w] # "new"
  <2>1. rearm'[w] = rearm[w] \ {job} /\ \A x \in Work \ {w} : rearm'[x] = rearm[x]
    BY <1>j, <1>t DEF Done, Typed
  <2>2. watch[w] # "new"
    BY <1>j, <1>t DEF NewIsUntouched
  <2>. QED
    BY <1>j, <2>1, <2>2, JobsChange
\* A rearm that ends without a completion.
<1>r. ASSUME NEW w \in Work, NEW ok \in BOOLEAN, Coming(w) >= 1, Coming(w)' <= Coming(w),
             UNCHANGED <<queue, batch, reviver, told, carried, again>>,
             ~ok => used'.faults >= used.faults + 1,
             ok => marker'[w] # "none"
      PROVE  Once(w)' /\ Spare(w)'
  <2>1. Untold(w)' = Untold(w) /\ told'[w] = told[w]
    BY <1>r DEF Untold
  <2>2. Allowed(w)' >= Allowed(w) + (used'.faults - used.faults)
    BY <1>r, <1>t, AllowedGrows
  <2>3. Once(w)'
    BY <1>r, <1>t, <2>1, <2>2, Numbers DEF Once
  <2>4. Spare(w)'
    <3>1. SUFFICES ASSUME w \in Carryable \ again', marker'[w] = "none", told'[w] = 0,
                          batch'[w] = 0
                   PROVE  Coming(w)' <= used'.faults
      BY DEF Spare
    <3>2. ~ok /\ Allowed(w) = 1 + used.faults
      BY <1>r, <1>t, <3>1, Numbers DEF Allowed
    <3>. QED
      BY <1>r, <1>t, <3>2, Numbers DEF Once
  <2>. QED
    BY <2>3, <2>4
<1>7. ASSUME NEW w \in Work, NEW job \in Job, RearmFails(w, job) PROVE Goal
  <2>1. PICK ok \in BOOLEAN :
           /\ marker' = Marked(marker, w, IF job = "notice" THEN "interrupted" ELSE "pending", ok)
           /\ Faults(Failed(ok))
    BY <1>7 DEF RearmFails
  <2>2. UNCHANGED <<watch, queue, batch, reviver, carried, told, again>>
        /\ job \in rearm[w] /\ Done(w, job)
    BY <1>7 DEF RearmFails
  <2>3. /\ \A x \in Work \ {w} : rearm'[x] = rearm[x]
        /\ Jobs(w)' = Jobs(w) - 1 /\ Jobs(w) >= 1 /\ watch[w] # "new"
    BY <1>j, <2>2
  <2>4. /\ \A x \in Work \ {w} : marker'[x] = marker[x]
        /\ ok => marker'[w] # "none"
    BY <1>p, <2>1 DEF Mark
  <2>5. IdleTakesNone' /\ RunningIsTold' /\ \A x : Untold(x)' = Untold(x)
    BY <1>t, <2>2, RevivalsStay
  <2>6. NewIsUntouched'
    BY <1>t, <2>2, <2>3, <2>4, NewStays
  <2>7. \A x \in Work \ {w} : Once(x)' /\ Spare(x)'
    BY <1>t, <2>2, <2>3, <2>4, <2>5, Rests
  <2>8. Once(w)' /\ Spare(w)'
    <3>1. Live(w)' = Live(w)
      BY <2>2 DEF Live
    <3>2. Coming(w) >= 1 /\ Coming(w)' <= Coming(w)
      BY <1>t, <2>2, <2>3, <3>1, Numbers
    <3>3. ~ok => used'.faults >= used.faults + 1
      BY <1>m, <1>t, <2>1, Numbers
    <3>. QED
      BY <1>r, <2>2, <2>4, <3>2, <3>3
  <2>. QED
    BY <2>5, <2>6, <2>7, <2>8
<1>8. ASSUME NEW w \in Work, NEW job \in Job, RearmWatch(w, job) PROVE Goal
  <2>1. PICK ok \in BOOLEAN : marker' = Marked(marker, w, "pending", ok) /\ Faults(Failed(ok))
    BY <1>8 DEF RearmWatch
  <2>2. UNCHANGED <<queue, batch, reviver, carried, told, again>>
        /\ job \in rearm[w] /\ Done(w, job) /\ watch' = WatchedBy(RunnerWatch, w)
    BY <1>8 DEF RearmWatch
  <2>3. /\ \A x \in Work \ {w} : rearm'[x] = rearm[x]
        /\ Jobs(w)' = Jobs(w) - 1 /\ Jobs(w) >= 1 /\ watch[w] # "new"
    BY <1>j, <2>2
  <2>4. /\ \A x \in Work \ {w} : marker'[x] = marker[x]
        /\ ok => marker'[w] # "none"
    BY <1>p, <2>1 DEF Mark
  <2>5. IdleTakesNone' /\ RunningIsTold' /\ \A x : Untold(x)' = Untold(x)
    BY <1>t, <2>2, RevivalsStay
  <2>6. /\ RunnerWatch \in [Work -> Watch] /\ watch'[w] # "new"
        /\ \A x \in Work \ {w} : watch'[x] = RunnerWatch[x]
    BY <1>t, <2>2, Cancels, Watches
  <2>7. \A x \in Work \ {w} :
           /\ \/ watch'[x] = watch[x] \/ watch'[x] \in {"none", "stopping"}
              \/ watch[x] \in {"watching", "polled", "aborted"}
           /\ watch'[x] = "new" => watch[x] = "new"
    BY <1>k, <2>6
  <2>8. NewIsUntouched'
    BY <1>t, <2>2, <2>3, <2>4, <2>6, <2>7, NewStays
  <2>9. \A x \in Work \ {w} : Once(x)' /\ Spare(x)'
    BY <1>t, <2>2, <2>3, <2>4, <2>5, <2>7, Rests
  <2>10. Once(w)' /\ Spare(w)'
    <3>1. Live(w)' <= 1
      BY DEF Live
    <3>2. Coming(w) >= 1 /\ Coming(w)' <= Coming(w)
      BY <1>t, <2>2, <2>3, <3>1, Numbers
    <3>3. ~ok => used'.faults >= used.faults + 1
      BY <1>m, <1>t, <2>1, Numbers
    <3>. QED
      BY <1>r, <2>2, <2>4, <3>2, <3>3
  <2>. QED
    BY <2>5, <2>8, <2>9, <2>10
<1>9. ASSUME NEW w \in Shell, RearmNotice(w) PROVE Goal
  <2>1. w \in Work /\ {w} \in SUBSET Kin("shell") /\ "shell" \in Family /\ "notice" \in Job
    BY Families DEF Family, Job
  <2>2. PICK ok \in BOOLEAN : Complete({w}, marker, ok) /\ Faults(Failed(ok))
    BY <1>9 DEF RearmNotice
  <2>3. /\ UNCHANGED <<watch, told, again, carried>> /\ Done(w, "notice")
        /\ "notice" \in rearm[w] /\ marker \in [Work -> Mark]
    BY <1>9, <1>t DEF RearmNotice, counted, Typed
  <2>4. /\ rearm'[w] = rearm[w] \ {"notice"} /\ \A x \in Work \ {w} : rearm'[x] = rearm[x]
        /\ Jobs(w)' = Jobs(w) - 1 /\ Jobs(w) >= 1 /\ watch[w] # "new"
    BY <1>j, <2>1, <2>3
  <2>5. Live(w)' = Live(w)
    BY <2>3 DEF Live
  <2>6. Live(w)' + Jobs(w)' <= Live(w) + Jobs(w) - 1
    BY <1>t, <2>1, <2>4, <2>5, Numbers
  <2>7. rearm'[w] \subseteq {"notice"} => rearm[w] \subseteq {"notice"}
    BY <2>4
  <2>8. ~ok => used'.faults >= used.faults + 1
    BY <1>m, <1>t, <2>1, <2>2, Numbers
  <2>. QED
    BY <2>1, <2>2, <2>3, <2>4, <2>6, <2>7, <2>8, <1>u
<1>10. ASSUME NEW w \in Subagent, RearmSubagent(w) PROVE Goal
  <2>1. /\ w \in Work /\ {w} \in SUBSET Kin(FamilyOf(w)) /\ FamilyOf(w) \in Family
        /\ w \notin Carryable /\ "boot" \in Job
    BY WakeAssumption, Families DEF Carryable, Job
  <2>2. PICK marked, ok \in BOOLEAN :
           /\ Complete({w}, Marked(marker, w, "pending", marked), ok)
           /\ Faults(Failed(marked) + Failed(ok))
    BY <1>10 DEF RearmSubagent
  <2> DEFINE m == Marked(marker, w, "pending", marked)
  <2>3. /\ UNCHANGED <<watch, told, again, carried>> /\ Done(w, "boot")
        /\ "boot" \in rearm[w]
    BY <1>10 DEF RearmSubagent, counted
  <2>4. m \in [Work -> Mark] /\ \A x \in Work \ {w} : m[x] = marker[x]
    <3>1. marker \in [Work -> Mark] /\ "pending" \in Mark
      BY <1>s DEF Shape, Typed, Mark
    <3>. QED
      BY <2>1, <3>1, Marks
  <2>5. Complete({w}, m, ok)
    BY <2>2
  <2> HIDE DEF m
  <2>6. /\ rearm'[w] = rearm[w] \ {"boot"} /\ \A x \in Work \ {w} : rearm'[x] = rearm[x]
        /\ Jobs(w)' = Jobs(w) - 1 /\ Jobs(w) >= 1 /\ watch[w] # "new"
    BY <1>j, <2>1, <2>3
  <2>7. Live(w)' = Live(w)
    BY <2>3 DEF Live
  <2>8. Live(w)' + Jobs(w)' <= Live(w) + Jobs(w) - 1
    BY <1>t, <2>1, <2>6, <2>7, Numbers
  <2>9. ~ok => used'.faults >= used.faults + 1
    <3>1. Failed(marked) + Failed(ok) \in Nat /\ (~ok => Failed(marked) + Failed(ok) >= 1)
      BY Failures
    <3>2. used'.faults = used.faults + (Failed(marked) + Failed(ok))
      BY <1>t, <2>2, <3>1, Charges
    <3>. QED
      BY <1>t, <2>1, <3>1, <3>2, Numbers
  <2>. QED
    BY <2>1, <2>3, <2>4, <2>5, <2>6, <2>8, <2>9, <1>u
<1>11. ASSUME NEW b \in BOOLEAN, Quiesce(b) PROVE Goal
  <2>1. UNCHANGED <<marker, queue, batch, reviver, rearm, told, again>>
        /\ watch' \in {Cancelled(watch), watch}
    BY <1>11 DEF Quiesce
  <2>2. \A w \in Work : w \in carried' => w \in carried \/ marker[w] # "none"
    BY <1>11 DEF Quiesce
  <2>. QED
    BY <2>1, <2>2, <1>k, <1>w
<1>12. ASSUME RunnerQuiesces PROVE Goal
  <2>1. UNCHANGED <<marker, queue, batch, reviver, rearm, carried, told, again>>
        /\ watch' = RunnerWatch
    BY <1>12 DEF RunnerQuiesces
  <2>2. \A w \in Work : /\ \/ watch'[w] = watch[w] \/ watch'[w] \in {"none", "stopping"}
                           \/ watch[w] \in {"watching", "polled", "aborted"}
                        /\ watch'[w] = "new" => watch[w] = "new"
    BY <2>1, <1>k
  <2>. QED
    BY <2>1, <2>2, <1>w
<1>13. ASSUME ResumeAfterRecreate PROVE Goal
  <2> DEFINE ws == {w \in carried : marker[w] = "none"}
  <2>0. Restore(ws)
    BY <1>13 DEF ResumeAfterRecreate
  <2>1. PICK marked, ok \in BOOLEAN :
          /\ LET m == [w \in Work |->
                      IF ~marked \/ w \notin ws THEN marker[w]
                      ELSE IF w \in Shell THEN "interrupted" ELSE "pending"]
             IN  IF ws \cap Shell = {}
                 THEN ok /\ marker' = m /\ UNCHANGED <<queue, batch, reviver>>
                 ELSE Complete(ws \cap Shell, m, ok)
          /\ Faults(Failed(marked) + Failed(ok))
    BY <2>0 DEF Restore
  <2>2. /\ UNCHANGED <<watch, told>> /\ carried' = {} /\ listed /\ listed' = FALSE
        /\ again' = again \cup {w \in ws : told[w] > 0 \/ batch[w] > 0 \/ rearm[w] # {}}
        /\ \A w \in Work : rearm'[w] = IF w \in ws \cap CloudAgent
                                       THEN rearm[w] \cup {"carry"} ELSE rearm[w]
    BY <2>0 DEF Restore
  <2>3. /\ \A w \in ws : marker[w] = "none" /\ w \in Carryable /\ w \in Work /\ watch[w] # "new"
    BY <1>t, Families DEF Typed, NewIsUntouched
  <2> HIDE DEF ws
  <2> DEFINE m == [w \in Work |->
                      IF ~marked \/ w \notin ws THEN marker[w]
                      ELSE IF w \in Shell THEN "interrupted" ELSE "pending"]
  <2>4. /\ m \in [Work -> Mark]
        /\ \A w \in Work \ ws : m[w] = marker[w]
        /\ \A w \in ws : m[w] = "none" => ~marked
    BY <1>t, <2>3 DEF Typed, Mark
  <2>5. \/ Complete(ws \cap Shell, m, ok)
        \/ ws \cap Shell = {} /\ marker' = m /\ UNCHANGED <<queue, batch, reviver>>
    BY <2>1
  <2> HIDE DEF m
  <2>6. ws \cap Shell \in SUBSET Kin("shell") /\ "shell" \in Family
    BY Families DEF Family
  <2>7. /\ IdleTakesNone' /\ RunningIsTold'
        /\ \A w \in Work :
              \/ /\ batch'[w] = batch[w] /\ Untold(w)' = Untold(w) /\ marker'[w] = m[w]
                 /\ queue'[w] = queue[w] \/ (w \in ws \cap Shell /\ queue'[w] = Pushed(w))
              \/ /\ w \in ws \cap Shell /\ batch'[w] = 1 /\ batch[w] = 0
                 /\ Untold(w)' = 1 /\ Untold(w) = 0
                 /\ queue'[w] = queue[w]
                 /\ marker'[w] = "none" \/ (~ok /\ marker'[w] = m[w])
    BY <1>t, <2>2, <2>4, <2>5, <2>6, Outcomes
  <2>8. NewIsUntouched'
    BY <1>t, <2>2, <2>3, <2>4, <2>7, NewStays
  <2>9. ASSUME NEW w \in Work \ ws PROVE Once(w)' /\ Spare(w)'
    BY <1>t, <2>2, <2>4, <2>7, <2>9, Rests
  <2>10. (~ok => used'.faults >= used.faults + 1) /\ (~marked => used'.faults >= used.faults + 1)
    <3>1. /\ Failed(marked) + Failed(ok) \in Nat
          /\ ~ok \/ ~marked => Failed(marked) + Failed(ok) >= 1
      BY Failures
    <3>2. used'.faults = used.faults + (Failed(marked) + Failed(ok))
      BY <1>t, <2>1, <3>1, Charges
    <3>3. used.faults \in Nat
      BY <1>t DEF TallyGrows
    <3>. QED
      BY <3>1, <3>2, <3>3
  \* The list that comes back is one more restore.
  <2>11. Restores' = Restores + 1 /\ Restores \in Nat
    <3>1. used'.quiesces = used.quiesces /\ used.quiesces \in Nat
      <4>1. Failed(marked) + Failed(ok) \in Nat
        BY Failures
      <4>. QED
        BY <1>t, <2>1, <4>1, Charges
    <3>. QED
      BY <1>t, <2>2, <3>1 DEF Restores, TallyGrows
  <2>12. ASSUME NEW w \in ws PROVE Once(w)' /\ Spare(w)'
    <3>1. /\ w \in Work /\ w \in Carryable /\ marker[w] = "none" /\ Live(w)' = Live(w)
          /\ told'[w] = told[w]
      BY <2>2, <2>3 DEF Live
    \* One more telling may come, or is taken; the mark stands for it.
    <3>2. /\ told'[w] + Untold(w)' + Coming(w)' <= told[w] + Untold(w) + Coming(w) + 1
          /\ \/ Untold(w)' = Untold(w) /\ batch'[w] = batch[w] /\ Coming(w)' <= Coming(w) + 1
                /\ marker'[w] = m[w]
             \/ Untold(w)' = 1 /\ Untold(w) = 0 /\ batch'[w] = 1
                /\ (marker'[w] = "none" \/ ~ok)
      <4>1. CASE w \in Shell
        <5>1. Jobs(w)' = Jobs(w)
          BY <2>2, <3>1, <4>1, WakeAssumption DEF Jobs, One
        <5>2. Pushed(w) = queue[w] + 1
          BY <4>1 DEF Pushed
        <5>. QED
          BY <1>t, <2>7, <3>1, <5>1, <5>2, Numbers
      <4>2. CASE w \notin Shell
        <5>1. rearm'[w] \subseteq rearm[w] \cup {"carry"}
          BY <2>2, <3>1
        <5>2. Jobs(w)' <= Jobs(w) + 1
          BY <5>1, JobsChange
        <5>3. Untold(w)' = Untold(w) /\ batch'[w] = batch[w] /\ queue'[w] = queue[w]
              /\ marker'[w] = m[w]
          BY <2>7, <3>1, <4>2
        <5>. QED
          BY <1>t, <3>1, <5>2, <5>3, Numbers
      <4>. QED
        BY <4>1, <4>2
    <3>3. CASE w \in again'
      <4>1. Allowed(w)' >= Allowed(w) + 1 + (used'.faults - used.faults)
        BY <1>t, <2>11, <3>3, Numbers, <3>1 DEF Allowed
      <4>2. told'[w] + Untold(w)' + Coming(w)' <= Allowed(w)'
        BY <1>t, <3>1, <3>2, <4>1, Numbers DEF Once
      <4>3. ASSUME marker'[w] # "none" PROVE told'[w] + Untold(w)' + 1 <= Allowed(w)'
        <5>1. CASE Untold(w)' = Untold(w)
          BY <1>t, <3>1, <4>1, <5>1, Numbers DEF Once
        <5>2. CASE Untold(w)' = 1 /\ Untold(w) = 0 /\ (marker'[w] = "none" \/ ~ok)
          BY <1>t, <2>10, <3>1, <4>1, <4>3, <5>2, Numbers DEF Once
        <5>. QED
          BY <3>2, <5>1, <5>2
      <4>. QED
        BY <3>3, <4>2, <4>3 DEF Once, Spare
    <3>4. CASE w \notin again'
      <4>1. w \notin again /\ told[w] = 0 /\ batch[w] = 0 /\ rearm[w] = {}
        BY <1>t, <2>2, <3>1, <3>4, Numbers
      <4>2. Coming(w) <= used.faults /\ Untold(w) = 0
        BY <1>t, <3>1, <4>1 DEF Spare, Untold
      <4>3. Allowed(w)' = 1 + used'.faults
        BY <1>t, <3>1, <3>4, Numbers DEF Allowed
      <4>4. told'[w] + Untold(w)' + Coming(w)' <= Allowed(w)'
        BY <1>t, <3>1, <3>2, <4>1, <4>2, <4>3, Numbers
      <4>5. marker'[w] # "none" => told'[w] + Untold(w)' + 1 <= Allowed(w)'
        BY <1>t, <2>10, <3>1, <3>2, <4>1, <4>2, <4>3, Numbers
      <4>6. Spare(w)'
        <5>1. SUFFICES ASSUME marker'[w] = "none", batch'[w] = 0
                       PROVE  Coming(w)' <= used'.faults
          BY DEF Spare
        <5>2. Coming(w)' <= Coming(w) + 1 /\ ~marked
          BY <2>4, <3>2, <5>1
        <5>. QED
          BY <1>t, <2>10, <3>1, <4>2, <5>2, Numbers
      <4>. QED
        BY <4>4, <4>5, <4>6 DEF Once
    <3>. QED
      BY <3>3, <3>4
  <2>13. IdleTakesNone' /\ RunningIsTold'
    BY <2>7
  <2>14. \A w \in Work : Once(w)' /\ Spare(w)'
    BY <2>9, <2>12
  <2>. QED
    BY <2>8, <2>13, <2>14
<1>14. ASSUME Exit PROVE Goal
  <2>1. /\ UNCHANGED <<marker, carried, told, again>>
        /\ \A w \in Work : /\ queue'[w] = 0 /\ batch'[w] = 0 /\ rearm'[w] = {}
                           /\ watch'[w] \in {"new", "none"}
                           /\ watch'[w] = "new" => watch[w] = "new"
        /\ \A f \in Family : reviver'[f] = "idle"
    BY <1>14 DEF Exit, None0
  <2>2. IdleTakesNone' /\ RunningIsTold' /\ \A w \in Work : Untold(w)' = 0
    BY <2>1, Families DEF IdleTakesNone, RunningIsTold, Untold
  <2>3. NewIsUntouched'
    BY <1>t, <2>1 DEF NewIsUntouched
  <2>4. ASSUME NEW w \in Work PROVE Once(w)' /\ Spare(w)'
    <3>1. Live(w)' = 0 /\ Jobs(w)' = 0
      BY <2>1 DEF Live, Jobs, One
    <3>2. Coming(w)' = 0
      BY <1>t, <2>1, <3>1, Numbers
    <3>3. Allowed(w)' >= Allowed(w)
      BY <1>t, <2>1, AllowedGrows, Numbers
    <3>4. Once(w)'
      BY <1>t, <2>1, <2>2, <3>2, <3>3, Numbers DEF Once
    <3>5. Spare(w)'
      BY <1>t, <3>2, Numbers DEF Spare
    <3>. QED
      BY <3>4, <3>5
  <2>5. IdleTakesNone' /\ RunningIsTold'
    BY <2>2
  <2>. QED
    BY <2>3, <2>4, <2>5
<1>15. ASSUME NEW b \in BOOLEAN, Boot(b) PROVE Goal
  <2>1. /\ ~up /\ UNCHANGED <<watch, queue, batch, reviver, carried, told, again>>
        /\ \A w \in Work : rearm'[w] = IF b \/ marker[w] = "none" THEN {}
                                       ELSE IF marker[w] = "pending" THEN {"boot"} ELSE {"notice"}
    BY <1>15 DEF Boot
  <2>2. \A w \in Work : /\ marker'[w] = marker[w] \/ marker'[w] = "none"
                        /\ marker[w] = "interrupted" /\ ~b => marker'[w] = marker[w]
    BY <1>15, <1>t DEF Boot, Settled, Typed
  <2>3. \A w \in Work : /\ watch[w] \in {"new", "none"} /\ rearm[w] = {}
                        /\ queue[w] = 0 /\ batch[w] = 0
    BY <1>t, <2>1 DEF Down
  <2>4. IdleTakesNone' /\ RunningIsTold' /\ \A x : Untold(x)' = Untold(x)
    BY <1>t, <2>1, RevivalsStay
  <2>5. NewIsUntouched'
    BY <1>t, <2>1, <2>2 DEF NewIsUntouched
  <2>6. ASSUME NEW w \in Work PROVE Once(w)' /\ Spare(w)'
    <3>1. Live(w)' = 0 /\ queue'[w] = 0 /\ told'[w] = told[w] /\ Untold(w)' = Untold(w)
      BY <2>1, <2>3, <2>4 DEF Live
    <3>2. Allowed(w)' >= Allowed(w)
      BY <1>t, <2>1, AllowedGrows, Numbers
    <3>3. CASE rearm'[w] = {}
      <4>1. Coming(w)' = 0
        BY <1>t, <3>1, <3>3, JobsChange, Numbers
      <4>2. Once(w)'
        BY <1>t, <2>2, <3>1, <3>2, <4>1, Numbers DEF Once
      <4>3. Spare(w)'
        BY <1>t, <4>1, Numbers DEF Spare
      <4>. QED
        BY <4>2, <4>3
    <3>4. CASE rearm'[w] # {}
      <4>1. PICK job \in {"boot", "notice"} : rearm'[w] = {job} /\ job \in Job
        BY <2>1, <3>4 DEF Job
      <4>2. Coming(w)' = 1
        BY <1>t, <3>1, <4>1, JobsChange, Numbers
      <4>3. marker[w] # "none" /\ (job = "notice" => marker[w] = "interrupted" /\ ~b)
        BY <1>t, <2>1, <3>4, <4>1 DEF Typed, Mark
      <4>4. Once(w)'
        BY <1>t, <3>1, <3>2, <4>2, <4>3, Numbers DEF Once
      <4>5. marker'[w] # "none" \/ ~(rearm'[w] \subseteq {"notice"})
        BY <2>2, <4>1, <4>3
      <4>. QED
        BY <4>4, <4>5 DEF Spare
    <3>. QED
      BY <3>3, <3>4
  <2>. QED
    BY <2>4, <2>5, <2>6
<1>16. ASSUME UNCHANGED vars PROVE Goal
  <2>1. UNCHANGED <<watch, carried, marker, queue, batch, reviver, rearm, told, again>>
    BY <1>16 DEF vars, counted
  <2>2. \A w \in Work : watch'[w] = watch[w] /\ (w \in carried' => w \in carried)
    BY <2>1
  <2>. QED
    BY <2>1, <2>2, <1>w
<1> HIDE DEF Goal
<1>17. Goal
  BY <1>1, <1>2, <1>3, <1>4, <1>5, <1>6, <1>7, <1>8, <1>9, <1>10, <1>11, <1>12, <1>13,
     <1>14, <1>15, <1>16 DEF Next, Job
<1>. QED
  BY <1>s2, <1>17 DEF OnceInv, Goal

LEMMA OnceInvariant == Spec => []OnceInv
BY OnceInit, OnceNext, PTL DEF Spec

\* The counts of a state.
LEMMA Counts ==
    ASSUME OnceInv, NEW w \in Work
    PROVE  /\ told[w] \in Nat /\ queue[w] \in Nat /\ batch[w] \in Nat
           /\ told[w] + queue[w] <= Allowed(w) /\ batch[w] <= Allowed(w)
           /\ Restores \in Nat /\ Restores <= used.quiesces
           /\ used.faults \in 0..MaxFaults /\ used.quiesces \in 0..MaxQuiesces
           /\ Allowed(w) = 1 + used.faults + (IF w \in again THEN Restores ELSE 0)
<1>1. Typed /\ used \in UsedType /\ listed \in BOOLEAN /\ (listed => used.quiesces > 0)
  BY DEF OnceInv, Shape, Sorted, Tallied
<1>2. told[w] \in Nat /\ queue[w] \in Nat /\ batch[w] \in Nat
  BY <1>1 DEF Typed
<1>3. used.faults \in 0..MaxFaults /\ used.quiesces \in 0..MaxQuiesces
  BY <1>1, Bounds DEF UsedType
<1>4. Restores \in Nat /\ Restores <= used.quiesces
  BY <1>1, <1>3, Bounds DEF Restores
<1>5. Allowed(w) = 1 + used.faults + (IF w \in again THEN Restores ELSE 0)
  BY DEF Allowed
<1>6. Allowed(w) \in Nat
  BY <1>3, <1>4, <1>5, Bounds
<1>7. Live(w) \in Nat /\ Jobs(w) \in Nat
  BY DEF Live, Jobs, One
<1>8. Untold(w) \in Nat /\ (Untold(w) = batch[w] \/ batch[w] <= told[w])
  BY <1>2 DEF OnceInv, RunningIsTold, Untold
<1>9. told[w] + Untold(w) + (queue[w] + Live(w) + Jobs(w)) <= Allowed(w)
  BY DEF OnceInv, Once, Coming
<1>10. told[w] + queue[w] <= Allowed(w) /\ batch[w] <= Allowed(w)
  BY <1>2, <1>6, <1>7, <1>8, <1>9
<1>. QED
  BY <1>2, <1>3, <1>4, <1>5, <1>10

\* The agent is told a result once, but for marks that could not be cleared and
\* lists that outlived the telling, for every set of works and every number of
\* failures, restarts and rebuilds (ToldOnce).
THEOREM ResultsAreToldOnce == Spec => []ToldOnce
<1>1. OnceInv => ToldOnce
  <2> SUFFICES ASSUME OnceInv, NEW w \in Work
               PROVE  told[w] <= 1 + used.faults + (IF w \in again THEN used.quiesces ELSE 0)
    BY DEF ToldOnce
  <2>. QED
    BY Counts, Bounds
<1>. QED
  BY <1>1, OnceInvariant, PTL

\* Every variable keeps its type: watches and marks fit the kind of work, and no
\* more results are queued or taken than may be told (TypeOK).
THEOREM WakeTypes == Spec => []TypeOK
<1>1. OnceInv => TypeOK
  <2> SUFFICES ASSUME OnceInv PROVE TypeOK
    OBVIOUS
  <2>1. Typed /\ Tallied /\ KindsMatch
    BY DEF OnceInv, Shape, Sorted
  <2>2. MostTold \in Nat /\ MostTold = 1 + MaxFaults + MaxQuiesces
    BY Bounds DEF MostTold
  <2>3. ASSUME NEW w \in Work PROVE queue[w] \in 0..MostTold /\ batch[w] \in 0..MostTold
    <3>1. Allowed(w) <= MostTold /\ Allowed(w) \in Nat
      BY <2>2, Counts, Bounds
    <3>. QED
      BY <2>2, <3>1, Counts
  <2>4. queue \in [Work -> 0..MostTold] /\ batch \in [Work -> 0..MostTold]
    BY <2>1, <2>3 DEF Typed
  <2>5. /\ {up, quiescing, listed} \subseteq BOOLEAN
        /\ lost \cup unsaved \cup unwatched \cup again \subseteq Work
        /\ used \in [faults : 0..MaxFaults, exits : 0..MaxExits, quiesces : 0..MaxQuiesces]
    BY <2>1 DEF Typed, Tallied, UsedType
  <2>6. \A w \in Work : /\ watch[w] \in {"polled", "aborted"} => w \in Shell
                        /\ watch[w] = "stopping" => w \in Subagent
                        /\ marker[w] = "interrupted" => w \in Shell
                        /\ w \notin Shell => queue[w] <= 1
    BY <2>1 DEF KindsMatch
  <2>. QED
    BY <2>1, <2>4, <2>5, <2>6 DEF TypeOK, Typed, Mark, Watch, Stage, Job
<1>. QED
  BY <1>1, OnceInvariant, PTL
=============================================================================
