------------------------- MODULE RunSchedulerProofs -------------------------
(***************************************************************************)
(* Proofs that the run queue keeps its safety invariants for every set of  *)
(* tasks, lanes and drainers.                                              *)
(***************************************************************************)
EXTENDS RunScheduler, SequenceLemmas

-----------------------------------------------------------------------------
(* Picking the next task.                                                  *)

\* takeNextUserTask returns a position of the lane it is given.
LEMMA NextUserIsInLane ==
    ASSUME NEW q \in Seq(Task), q # <<>>
    PROVE  TakeNextUserTask(q) \in 1..Len(q)
<1>1. Len(q) \in Nat /\ Len(q) >= 1 /\ DOMAIN q = 1..Len(q)
  BY LenProperties, EmptySeq
<1>2. CASE \E i \in DOMAIN q : FirstDirect(q, i)
  <2>1. (CHOOSE i \in DOMAIN q : FirstDirect(q, i)) \in DOMAIN q
    BY <1>2
  <2>. QED
    BY <1>1, <1>2, <2>1 DEF TakeNextUserTask
<1>3. CASE ~(\E i \in DOMAIN q : FirstDirect(q, i))
  BY <1>1, <1>3 DEF TakeNextUserTask
<1>. QED
  BY <1>2, <1>3

\* takeNextUserTask passes over group-member tasks alone: as long as the lane
\* holds a direct task it takes the first one.
LEMMA FirstDirectIsTaken ==
    ASSUME NEW q \in Seq(Task), NEW k \in DOMAIN q, q[k] \notin GroupMember
    PROVE  /\ TakeNextUserTask(q) \in DOMAIN q
           /\ q[TakeNextUserTask(q)] \notin GroupMember
           /\ TakeNextUserTask(q) <= k
<1> DEFINE Direct == {j \in DOMAIN q : q[j] \notin GroupMember}
<1>1. Len(q) \in Nat /\ DOMAIN q = 1..Len(q)
  BY LenProperties
<1>2. PICK i \in Direct : \A j \in Direct : i <= j
  <2>1. Direct \subseteq Nat /\ Direct # {}
    BY <1>1
  <2>. QED
    BY <2>1, LeastNumber
<1>3. i \in DOMAIN q /\ FirstDirect(q, i)
  <2>1. ASSUME NEW j \in 1..(i - 1) PROVE q[j] \in GroupMember
    BY <1>1, <1>2
  <2>. QED
    BY <1>2, <2>1 DEF FirstDirect
<1>4. ASSUME NEW j \in DOMAIN q, FirstDirect(q, j) PROVE j <= k
  BY <1>1, <1>4 DEF FirstDirect
<1>5. /\ TakeNextUserTask(q) \in DOMAIN q
      /\ FirstDirect(q, TakeNextUserTask(q))
  BY <1>3 DEF TakeNextUserTask
<1>. QED
  BY <1>4, <1>5 DEF FirstDirect

\* When something waits, the next task is in the lane that is served.
LEMMA NextIsInLane ==
    ASSUME TypeOK, ~NothingPending
    PROVE  /\ NextLane \in Lane
           /\ pending[NextLane] \in Seq(Task)
           /\ NextIndex(NextLane) \in 1..Len(pending[NextLane])
<1>1. NextLane \in Lane /\ pending[NextLane] # <<>>
  BY DEF NextLane, NothingPending, Lane
<1>2. pending[NextLane] \in Seq(Task)
  BY <1>1 DEF TypeOK
<1>3. Len(pending[NextLane]) \in Nat /\ Len(pending[NextLane]) >= 1
  BY <1>1, <1>2, EmptySeq
<1>4. NextIndex(NextLane) \in 1..Len(pending[NextLane])
  BY <1>1, <1>2, <1>3, NextUserIsInLane DEF NextIndex
<1>. QED
  BY <1>1, <1>2, <1>4

-----------------------------------------------------------------------------
(* What pump does, in terms of the lanes as sets.                          *)

PumpEffect(bodies) ==
    /\ pending' \in [Lane -> Seq(Task)]
    /\ LanesAreSound'
    /\ active' \in Task \cup {None}
    /\ active' # None => InLane(active') /\ ~disposed
    /\ \A t \in Task : InLane(t)' <=> InLane(t) /\ t # active'
    /\ running' = bodies \cup ({active'} \ {None})
    /\ grace' = None
    /\ watchdog' = (active' # None /\ pending'["user"] # <<>>)
    /\ (active' = None /\ ~disposed) => NothingPending /\ NothingPending'
    /\ active' # None =>
          /\ LaneOf[active'] # "user" => pending["user"] = <<>>
          /\ LaneOf[active'] = "background" => pending["agent"] = <<>>

\* Starting the next task moves exactly one task out of its lane.
LEMMA StartNextEffect ==
    ASSUME TypeOK, LanesAreSound, ~NothingPending, ~disposed,
           NEW bodies \in SUBSET Task, StartNext(bodies)
    PROVE  PumpEffect(bodies)
<1>1. PICK l \in Lane, i \in Int : /\ l = NextLane /\ i = NextIndex(l)
                                   /\ pending[l] \in Seq(Task)
                                   /\ i \in 1..Len(pending[l])
  BY NextIsInLane
<1>2. /\ active' = pending[l][i]
      /\ pending' = [pending EXCEPT ![l] = RemoveAt(pending[l], i)]
      /\ running' = bodies \cup {pending[l][i]}
      /\ watchdog' = ShouldArm(active', pending'["user"])
      /\ grace' = None
  BY <1>1 DEF StartNext
<1>3. /\ RemoveAt(pending[l], i) \in Seq(Task)
      /\ Len(RemoveAt(pending[l], i)) = Len(pending[l]) - 1
      /\ \A j \in 1..(Len(pending[l]) - 1) :
            RemoveAt(pending[l], i)[j] = IF j < i THEN pending[l][j] ELSE pending[l][j + 1]
  BY <1>1, RemoveAtProperties
<1>4. /\ pending \in [Lane -> Seq(Task)]
      /\ pending' \in [Lane -> Seq(Task)]
      /\ pending'[l] = RemoveAt(pending[l], i)
      /\ \A k \in Lane \ {l} : pending'[k] = pending[k]
  BY <1>1, <1>2, <1>3 DEF TypeOK
<1>5. \A k \in Lane : /\ Len(pending[k]) \in Nat
                      /\ DOMAIN pending[k] = 1..Len(pending[k])
                      /\ DOMAIN pending'[k] = 1..Len(pending'[k])
                      /\ \A j \in DOMAIN pending[k] : pending[k][j] \in Task
  BY <1>4, LenProperties, ElementOfSeq
<1>6. active' \in Task /\ LaneOf[active'] = l /\ active' \in Queued(l)
  BY <1>1, <1>2, <1>5 DEF LanesAreSound, Queued
<1>7. ASSUME NEW j \in DOMAIN pending'[l]
      PROVE  \E m \in DOMAIN pending[l] :
                /\ pending'[l][j] = pending[l][m]
                /\ m = IF j < i THEN j ELSE j + 1
  BY <1>1, <1>3, <1>4, <1>5
<1>8. LanesAreSound'
  <2>1. ASSUME NEW k \in Lane
        PROVE  /\ \A j, m \in DOMAIN pending'[k] :
                      pending'[k][j] = pending'[k][m] => j = m
               /\ \A j \in DOMAIN pending'[k] : LaneOf[pending'[k][j]] = k
    <3>1. CASE k # l
      BY <1>4, <3>1 DEF LanesAreSound
    <3>2. CASE k = l
      <4>1. ASSUME NEW j \in DOMAIN pending'[l], NEW m \in DOMAIN pending'[l],
                   pending'[l][j] = pending'[l][m]
            PROVE  j = m
        <5>1. PICK a \in DOMAIN pending[l] :
                 pending'[l][j] = pending[l][a] /\ a = IF j < i THEN j ELSE j + 1
          BY <1>7
        <5>2. PICK b \in DOMAIN pending[l] :
                 pending'[l][m] = pending[l][b] /\ b = IF m < i THEN m ELSE m + 1
          BY <1>7
        <5>3. a = b
          <6>1. pending[l][a] = pending[l][b]
            BY <4>1, <5>1, <5>2
          <6>. QED
            BY <6>1 DEF LanesAreSound
        <5>4. j \in Int /\ m \in Int /\ i \in Int
          BY <1>1, <1>3, <1>4, <1>5
        <5>. QED
          BY <5>1, <5>2, <5>3, <5>4
      <4>2. ASSUME NEW j \in DOMAIN pending'[l]
            PROVE  LaneOf[pending'[l][j]] = l
        BY <1>1, <1>7 DEF LanesAreSound
      <4>. QED
        BY <3>2, <4>1, <4>2
    <3>. QED
      BY <3>1, <3>2
  <2>. QED
    BY <2>1 DEF LanesAreSound
<1>9. ASSUME NEW t \in Task
      PROVE  InLane(t)' <=> InLane(t) /\ t # active'
  <2>1. LaneOf[t] \in Lane
    BY SchedulerAssumption
  <2>2. CASE LaneOf[t] # l
    BY <1>4, <1>6, <2>1, <2>2 DEF InLane, Queued
  <2>3. CASE LaneOf[t] = l
    <3>1. ASSUME t \in Queued(l)'
          PROVE  t \in Queued(l) /\ t # active'
      <4>1. PICK j \in DOMAIN pending'[l] : t = pending'[l][j]
        BY <3>1 DEF Queued
      <4>2. PICK m \in DOMAIN pending[l] :
               t = pending[l][m] /\ m = IF j < i THEN j ELSE j + 1
        BY <1>7, <4>1
      <4>3. j \in Int /\ i \in DOMAIN pending[l] /\ i \in Int
        BY <1>1, <1>3, <1>4, <1>5
      <4>4. m # i
        BY <4>2, <4>3
      <4>5. pending[l][m] # pending[l][i]
        BY <1>1, <4>2, <4>3, <4>4 DEF LanesAreSound
      <4>. QED
        BY <1>2, <4>2, <4>5 DEF Queued
    <3>2. ASSUME t \in Queued(l), t # active'
          PROVE  t \in Queued(l)'
      <4>1. PICK m \in DOMAIN pending[l] : t = pending[l][m]
        BY <3>2 DEF Queued
      <4>2. m \in Int /\ i \in Int /\ m # i /\ m \in 1..Len(pending[l])
        BY <1>1, <1>2, <1>5, <3>2, <4>1
      <4>3. DOMAIN pending'[l] = 1..(Len(pending[l]) - 1)
        BY <1>1, <1>3, <1>4, <1>5
      <4>4. CASE m < i
        <5>1. m \in 1..(Len(pending[l]) - 1)
          BY <1>1, <1>5, <4>2, <4>4
        <5>2. pending'[l][m] = t
          BY <1>3, <1>4, <4>1, <4>4, <5>1
        <5>. QED
          BY <4>3, <5>1, <5>2 DEF Queued
      <4>5. CASE m > i
        <5>1. m - 1 \in 1..(Len(pending[l]) - 1) /\ ~(m - 1 < i) /\ (m - 1) + 1 = m
          BY <1>1, <1>5, <4>2, <4>5
        <5>2. pending'[l][m - 1] = t
          BY <1>3, <1>4, <4>1, <5>1
        <5>. QED
          BY <4>3, <5>1, <5>2 DEF Queued
      <4>. QED
        BY <4>2, <4>4, <4>5
    <3>. QED
      BY <2>3, <3>1, <3>2 DEF InLane
  <2>. QED
    BY <2>2, <2>3
<1>10. active' # None /\ InLane(active')
  BY <1>6, SchedulerAssumption DEF InLane
<1>11. /\ LaneOf[active'] # "user" => pending["user"] = <<>>
       /\ LaneOf[active'] = "background" => pending["agent"] = <<>>
  BY <1>1, <1>6 DEF NextLane
<1>. QED
  BY <1>2, <1>4, <1>6, <1>8, <1>9, <1>10, <1>11 DEF PumpEffect, ShouldArm

\* pump either starts one task or finds nothing it may start.
LEMMA PumpHasEffect ==
    ASSUME TypeOK, LanesAreSound, NEW bodies \in SUBSET Task, Pump(bodies)
    PROVE  PumpEffect(bodies)
<1>1. CASE disposed \/ NothingPending
  <2>1. /\ active' = None /\ running' = bodies /\ watchdog' = FALSE
        /\ grace' = None /\ pending' = pending
    BY <1>1 DEF Pump, StayIdle, DisarmWatchdog
  <2>2. \A t \in Task : InLane(t) => t # None
    BY SchedulerAssumption
  <2>3. NothingPending' <=> NothingPending
    BY <2>1 DEF NothingPending
  <2>4. LanesAreSound' /\ \A t \in Task : InLane(t)' <=> InLane(t)
    BY <2>1 DEF LanesAreSound, InLane, Queued
  <2>. QED
    BY <1>1, <2>1, <2>2, <2>3, <2>4, SchedulerAssumption DEF PumpEffect, TypeOK
<1>2. CASE ~(disposed \/ NothingPending)
  BY <1>2, StartNextEffect DEF Pump
<1>. QED
  BY <1>1, <1>2

-----------------------------------------------------------------------------
(* The inductive invariant.                                                *)

LEMMA InitIInv == Init => IInv
<1> SUFFICES ASSUME Init PROVE IInv
  OBVIOUS
<1>1. TypeOK
  BY EmptySeq DEF Init, TypeOK, NoDrain
<1>2. \A l \in Lane : Queued(l) = {}
  BY EmptySeq DEF Init, Queued
<1>3. CallersMatchQueue
  <2>1. LanesAreSound
    BY EmptySeq DEF Init, LanesAreSound
  <2>. QED
    BY <1>2, <2>1, SchedulerAssumption DEF Init, CallersMatchQueue, InLane
<1>4. OneOwner /\ NoLostPump /\ UserIsWatched /\ EscapeHasCause
  BY DEF Init, OneOwner, NoLostPump, UserIsWatched, EscapeHasCause, NothingPending
<1>5. RunsAreAccountedFor
  BY DEF Init, RunsAreAccountedFor, NoDrain
<1>. QED
  BY <1>1, <1>3, <1>4, <1>5 DEF IInv

\* enqueue appends a task that was never enqueued before.
LEMMA EnqueueIInv ==
    ASSUME IInv, NEW t \in Task, Enqueue(t)
    PROVE  IInv'
<1>1. PICK l \in Lane : l = LaneOf[t]
  BY SchedulerAssumption
<1>2. /\ pending[l] \in Seq(Task)
      /\ pending' = [pending EXCEPT ![l] = Append(pending[l], t)]
      /\ pending \in [Lane -> Seq(Task)]
  BY <1>1 DEF IInv, TypeOK, Enqueue
<1>3. /\ Append(pending[l], t) \in Seq(Task)
      /\ Len(Append(pending[l], t)) = Len(pending[l]) + 1
      /\ Len(pending[l]) \in Nat
      /\ DOMAIN Append(pending[l], t) = 1..(Len(pending[l]) + 1)
      /\ DOMAIN pending[l] = 1..Len(pending[l])
      /\ \A i \in 1..Len(pending[l]) : Append(pending[l], t)[i] = pending[l][i]
      /\ Append(pending[l], t)[Len(pending[l]) + 1] = t
  BY <1>2, AppendProperties, LenProperties
<1>4. /\ pending' \in [Lane -> Seq(Task)]
      /\ pending'[l] = Append(pending[l], t)
      /\ \A k \in Lane \ {l} : pending'[k] = pending[k]
  BY <1>2, <1>3
<1>5. Queued(l)' = Queued(l) \cup {t} /\ \A k \in Lane \ {l} : Queued(k)' = Queued(k)
  BY <1>3, <1>4 DEF Queued
<1>6. /\ promise[t] = "none"
      /\ ~InLane(t) /\ active # t
      /\ t \notin running \cup settled
  BY DEF Enqueue, IInv, CallersMatchQueue, RunsAreAccountedFor
<1>7. t \notin Queued(l)
  BY <1>1, <1>6 DEF InLane
<1>8. TypeOK'
  <2>1. promise' \in [Task -> {"none", "pending", "resolved", "rejected"}]
    BY DEF IInv, TypeOK, Enqueue
  <2>2. watchdog' \in BOOLEAN
    BY DEF IInv, TypeOK, Enqueue, ShouldArm
  <2>3. pumps' \in Nat /\ pumps' > 0
    BY DEF IInv, TypeOK, Enqueue
  <2>. QED
    BY <1>4, <2>1, <2>2, <2>3 DEF IInv, TypeOK, Enqueue
<1>9. OneOwner' /\ NoLostPump'
  BY DEF IInv, TypeOK, OneOwner, NoLostPump, Enqueue
<1>10. pending["user"] # <<>> => pending'["user"] # <<>>
  <2>1. CASE l = "user"
    <3>1. Len(pending'["user"]) > 0
      BY <1>3, <1>4, <2>1
    <3>. QED
      BY <3>1, EmptySeq
  <2>2. CASE l # "user"
    BY <1>4, <2>2 DEF Lane
  <2>. QED
    BY <2>1, <2>2
<1>11. UserIsWatched' /\ EscapeHasCause'
  BY <1>10 DEF IInv, UserIsWatched, EscapeHasCause, Enqueue, ShouldArm
<1>12. CallersMatchQueue'
  <2>1. LanesAreSound'
    <3>1. ASSUME NEW i \in DOMAIN pending'[l], NEW j \in DOMAIN pending'[l],
                 pending'[l][i] = pending'[l][j]
          PROVE  i = j
      <4>1. \A m \in 1..Len(pending[l]) : pending[l][m] # t
        BY <1>3, <1>7 DEF Queued
      <4>2. \A m, n \in 1..Len(pending[l]) : pending[l][m] = pending[l][n] => m = n
        BY <1>3 DEF IInv, CallersMatchQueue, LanesAreSound
      <4>. QED
        BY <1>3, <1>4, <3>1, <4>1, <4>2
    <3>2. \A i \in DOMAIN pending'[l] : LaneOf[pending'[l][i]] = l
      BY <1>1, <1>3, <1>4 DEF IInv, CallersMatchQueue, LanesAreSound
    <3>. QED
      BY <1>4, <3>1, <3>2 DEF IInv, CallersMatchQueue, LanesAreSound
  <2>2. \A s \in Task : InLane(s)' <=> InLane(s) \/ s = t
    BY <1>1, <1>5, SchedulerAssumption DEF InLane
  <2>3. \A s \in Task : promise'[s] = "pending" <=> promise[s] = "pending" \/ s = t
    BY DEF IInv, TypeOK, Enqueue
  <2>. QED
    BY <1>6, <2>1, <2>2, <2>3 DEF IInv, CallersMatchQueue, Enqueue
<1>13. RunsAreAccountedFor'
  BY DEF IInv, TypeOK, RunsAreAccountedFor, Enqueue
<1>. QED
  BY <1>8, <1>9, <1>11, <1>12, <1>13 DEF IInv

\* A pump on an idle queue, the bodies of running escaped ones included.
LEMMA PumpMicrotaskIInv ==
    ASSUME IInv, PumpMicrotask
    PROVE  IInv'
<1>1. /\ pumps' \in Nat
      /\ UNCHANGED <<zombies, settled, promise, disposed, drain>>
  BY DEF IInv, TypeOK, PumpMicrotask
<1>2. CASE active # None
  <2>1. UNCHANGED <<pending, active, watchdog, grace, running>>
    BY <1>2 DEF PumpMicrotask
  <2>2. TypeOK' /\ OneOwner' /\ UserIsWatched' /\ EscapeHasCause'
    BY <1>1, <2>1 DEF IInv, TypeOK, OneOwner, UserIsWatched, EscapeHasCause
  <2>3. NoLostPump'
    BY <1>2, <2>1 DEF NoLostPump
  <2>4. CallersMatchQueue' /\ RunsAreAccountedFor'
    BY <1>1, <2>1 DEF IInv, CallersMatchQueue, LanesAreSound, InLane, Queued,
                      RunsAreAccountedFor
  <2>. QED
    BY <2>2, <2>3, <2>4 DEF IInv
<1>3. CASE active = None
  <2>1. PumpEffect(running)
    <3>1. Pump(running)
      BY <1>3 DEF PumpMicrotask
    <3>. QED
      BY <3>1, PumpHasEffect DEF IInv, TypeOK, CallersMatchQueue
  <2>2. active' # None => /\ active' \in Task
                         /\ active' \notin running \cup settled \cup zombies
                         /\ promise[active'] = "pending"
    BY <2>1 DEF PumpEffect, IInv, CallersMatchQueue, RunsAreAccountedFor
  <2>3. TypeOK'
    BY <1>1, <2>1 DEF IInv, TypeOK, PumpEffect
  <2>4. OneOwner' /\ NoLostPump'
    <3>1. running \subseteq zombies
      BY <1>3, SchedulerAssumption DEF IInv, TypeOK, OneOwner
    <3>2. OneOwner'
      BY <1>1, <2>1, <2>2, <3>1 DEF OneOwner, PumpEffect
    <3>3. NoLostPump'
      BY <1>1, <2>1 DEF NoLostPump, PumpEffect
    <3>. QED
      BY <3>2, <3>3
  <2>5. UserIsWatched' /\ EscapeHasCause'
    BY <1>1, <2>1 DEF UserIsWatched, EscapeHasCause, PumpEffect
  <2>6. CallersMatchQueue'
    <3>1. ASSUME NEW s \in Task
          PROVE  /\ promise'[s] = "pending" <=> (InLane(s)' \/ active' = s)
                 /\ InLane(s)' => s \notin running' \cup settled' \cup {active'}
      <4>1. promise[s] = "pending" <=> InLane(s)
        BY <1>3, SchedulerAssumption DEF IInv, CallersMatchQueue
      <4>2. InLane(s) => s \notin running \cup settled
        BY DEF IInv, CallersMatchQueue
      <4>3. InLane(s)' <=> InLane(s) /\ s # active'
        BY <2>1 DEF PumpEffect
      <4>4. active' = s => InLane(s)
        BY <2>1, SchedulerAssumption DEF PumpEffect
      <4>. QED
        BY <1>1, <2>1, <4>1, <4>2, <4>3, <4>4 DEF PumpEffect
    <3>. QED
      BY <2>1, <3>1 DEF CallersMatchQueue, PumpEffect
  <2>7. RunsAreAccountedFor'
    BY <1>1, <2>1, <2>2 DEF IInv, RunsAreAccountedFor, PumpEffect
  <2>. QED
    BY <2>3, <2>4, <2>5, <2>6, <2>7 DEF IInv
<1>. QED
  BY <1>2, <1>3

\* A run that ends, escaped before or not.
LEMMA TaskSettlesIInv ==
    ASSUME IInv, NEW t \in Task, NEW outcome \in {"resolved", "rejected"},
           TaskSettles(t, outcome)
    PROVE  IInv'
<1>1. /\ UNCHANGED <<zombies, pumps, disposed, drain>>
      /\ t \in running
      /\ settled' = settled \cup {t}
      /\ promise' = Settle(t, outcome)
  BY DEF TaskSettles
<1>2. /\ promise' \in [Task -> {"none", "pending", "resolved", "rejected"}]
      /\ \A s \in Task \ {t} : promise'[s] = promise[s]
      /\ promise'[t] \notin {"none", "pending"}
  BY <1>1 DEF IInv, TypeOK, RunsAreAccountedFor, Settle
<1>3. ~InLane(t)
  BY <1>1 DEF IInv, CallersMatchQueue
<1>4. CASE active # t
  <2>1. UNCHANGED <<pending, active, watchdog, grace>> /\ running' = running \ {t}
    BY <1>4 DEF TaskSettles
  <2>2. TypeOK'
    BY <1>1, <1>2, <2>1 DEF IInv, TypeOK
  <2>3. OneOwner' /\ NoLostPump' /\ UserIsWatched' /\ EscapeHasCause'
    BY <1>1, <1>4, <2>1 DEF IInv, OneOwner, NoLostPump, UserIsWatched,
                            EscapeHasCause, NothingPending
  <2>4. LanesAreSound' /\ \A s \in Task : InLane(s)' <=> InLane(s)
    BY <2>1 DEF IInv, CallersMatchQueue, LanesAreSound, InLane, Queued
  <2>5. CallersMatchQueue'
    BY <1>1, <1>2, <1>3, <1>4, <2>1, <2>4 DEF IInv, CallersMatchQueue
  <2>6. RunsAreAccountedFor'
    BY <1>1, <1>2, <2>1 DEF IInv, TypeOK, RunsAreAccountedFor
  <2>. QED
    BY <2>2, <2>3, <2>5, <2>6 DEF IInv
<1>5. CASE active = t
  <2>1. PumpEffect(running \ {t})
    <3>1. Pump(running \ {t})
      BY <1>5 DEF TaskSettles
    <3>2. running \ {t} \in SUBSET Task
      BY DEF IInv, TypeOK
    <3>. QED
      BY <3>1, <3>2, PumpHasEffect DEF IInv, CallersMatchQueue
  <2>2. active' # None => /\ active' \in Task
                         /\ active' \notin running \cup settled \cup zombies
                         /\ active' # t
    BY <1>1, <2>1 DEF PumpEffect, IInv, CallersMatchQueue, RunsAreAccountedFor
  <2>3. TypeOK'
    BY <1>1, <1>2, <2>1 DEF IInv, TypeOK, PumpEffect
  <2>4. OneOwner' /\ NoLostPump'
    BY <1>1, <1>5, <2>1, <2>2 DEF IInv, OneOwner, NoLostPump, PumpEffect
  <2>5. UserIsWatched' /\ EscapeHasCause'
    BY <1>1, <2>1 DEF UserIsWatched, EscapeHasCause, PumpEffect
  <2>6. CallersMatchQueue'
    <3>1. ASSUME NEW s \in Task
          PROVE  /\ promise'[s] = "pending" <=> (InLane(s)' \/ active' = s)
                 /\ InLane(s)' => s \notin running' \cup settled' \cup {active'}
      <4>1. promise'[s] = "pending" <=> InLane(s)
        BY <1>2, <1>3, <1>5 DEF IInv, CallersMatchQueue
      <4>2. InLane(s) => s \notin running \cup settled'
        BY <1>1, <1>3 DEF IInv, CallersMatchQueue
      <4>3. InLane(s)' <=> InLane(s) /\ s # active'
        BY <2>1 DEF PumpEffect
      <4>4. active' = s => InLane(s)
        BY <2>1, SchedulerAssumption DEF PumpEffect
      <4>. QED
        BY <2>1, <4>1, <4>2, <4>3, <4>4 DEF PumpEffect
    <3>. QED
      BY <2>1, <3>1 DEF CallersMatchQueue, PumpEffect
  <2>7. RunsAreAccountedFor'
    <3>1. active' # None => promise'[active'] # "none"
      BY <1>2, <2>1, <2>2 DEF PumpEffect, IInv, CallersMatchQueue
    <3>2. /\ running' \cap settled' = {}
          /\ zombies' \subseteq running' \cup settled'
          /\ \A s \in running' \cup settled' : promise'[s] # "none"
      BY <1>1, <1>2, <2>1, <2>2, <3>1 DEF IInv, TypeOK, RunsAreAccountedFor, PumpEffect
    <3>. QED
      BY <1>1, <3>2 DEF IInv, RunsAreAccountedFor
  <2>. QED
    BY <2>3, <2>4, <2>5, <2>6, <2>7 DEF IInv
<1>. QED
  BY <1>4, <1>5

\* The watchdog hands its run to the grace timer.
LEMMA WatchdogTripsIInv ==
    ASSUME IInv, WatchdogTrips
    PROVE  IInv'
<1>1. /\ UNCHANGED <<pending, active, zombies, running, settled, promise, pumps,
                     disposed, drain>>
      /\ watchdog /\ watchdog' = FALSE
      /\ grace' = IF active = None \/ pending["user"] = <<>> THEN grace ELSE active
  BY DEF WatchdogTrips
<1>2. TypeOK'
  BY <1>1 DEF IInv, TypeOK
<1>3. OneOwner' /\ NoLostPump' /\ UserIsWatched' /\ EscapeHasCause'
  BY <1>1 DEF IInv, OneOwner, NoLostPump, UserIsWatched, EscapeHasCause, NothingPending
<1>4. CallersMatchQueue' /\ RunsAreAccountedFor'
  BY <1>1 DEF IInv, CallersMatchQueue, LanesAreSound, InLane, Queued,
              RunsAreAccountedFor
<1>. QED
  BY <1>2, <1>3, <1>4 DEF IInv

\* The escape: the wedged run becomes a zombie and the next task starts.
LEMMA EscapeWedgedRunIInv ==
    ASSUME IInv, EscapeWedgedRun
    PROVE  IInv'
<1>1. /\ UNCHANGED <<settled, pumps, disposed, drain>>
      /\ active \in Task /\ active \in running /\ active \notin zombies
      /\ ~disposed /\ active = grace
      /\ promise' = Settle(active, "resolved")
      /\ zombies' = zombies \cup {active}
      /\ Pump(running)
  BY DEF EscapeWedgedRun, IInv, TypeOK, OneOwner, EscapeHasCause
<1>2. /\ promise' \in [Task -> {"none", "pending", "resolved", "rejected"}]
      /\ \A s \in Task \ {active} : promise'[s] = promise[s]
      /\ promise'[active] \notin {"none", "pending"}
  BY <1>1 DEF IInv, TypeOK, RunsAreAccountedFor, Settle
<1>3. PumpEffect(running)
  BY <1>1, PumpHasEffect DEF IInv, TypeOK, CallersMatchQueue
<1>4. active' # None => /\ active' \in Task /\ active' # active
                       /\ active' \notin running \cup settled \cup zombies
                       /\ promise[active'] = "pending"
  BY <1>3 DEF PumpEffect, IInv, CallersMatchQueue, RunsAreAccountedFor
<1>5. TypeOK'
  BY <1>1, <1>2, <1>3 DEF IInv, TypeOK, PumpEffect
<1>6. OneOwner' /\ NoLostPump'
  BY <1>1, <1>3, <1>4 DEF IInv, OneOwner, NoLostPump, PumpEffect
<1>7. UserIsWatched' /\ EscapeHasCause'
  BY <1>1, <1>3 DEF UserIsWatched, EscapeHasCause, PumpEffect
<1>8. CallersMatchQueue'
  <2>1. ASSUME NEW s \in Task
        PROVE  /\ promise'[s] = "pending" <=> (InLane(s)' \/ active' = s)
               /\ InLane(s)' => s \notin running' \cup settled' \cup {active'}
    <3>1. ~InLane(active)
      BY <1>1 DEF IInv, CallersMatchQueue
    <3>2. promise'[s] = "pending" <=> InLane(s)
      BY <1>1, <1>2, <3>1 DEF IInv, CallersMatchQueue
    <3>3. InLane(s) => s \notin running \cup settled
      BY DEF IInv, CallersMatchQueue
    <3>4. InLane(s)' <=> InLane(s) /\ s # active'
      BY <1>3 DEF PumpEffect
    <3>5. active' = s => InLane(s)
      BY <1>3, SchedulerAssumption DEF PumpEffect
    <3>. QED
      BY <1>1, <1>3, <3>2, <3>3, <3>4, <3>5 DEF PumpEffect
  <2>. QED
    BY <1>3, <2>1 DEF CallersMatchQueue, PumpEffect
<1>9. RunsAreAccountedFor'
  <2>1. active' # None => promise'[active'] # "none"
    BY <1>2, <1>4
  <2>2. /\ running' \cap settled' = {}
        /\ zombies' \subseteq running' \cup settled'
        /\ \A s \in running' \cup settled' : promise'[s] # "none"
    BY <1>1, <1>2, <1>3, <1>4, <2>1 DEF IInv, TypeOK, RunsAreAccountedFor, PumpEffect
  <2>. QED
    BY <1>1, <2>2 DEF IInv, RunsAreAccountedFor
<1>. QED
  BY <1>5, <1>6, <1>7, <1>8, <1>9 DEF IInv

LEMMA ForgetZombieIInv ==
    ASSUME IInv, NEW t \in Task, ForgetZombie(t)
    PROVE  IInv'
<1>1. /\ UNCHANGED <<pending, active, watchdog, grace, running, settled, promise,
                     pumps, disposed, drain>>
      /\ zombies' = zombies \ {t} /\ t \in settled
  BY DEF ForgetZombie
<1>2. TypeOK' /\ NoLostPump' /\ UserIsWatched' /\ EscapeHasCause'
  BY <1>1 DEF IInv, TypeOK, NoLostPump, NothingPending, UserIsWatched, EscapeHasCause
<1>3. OneOwner'
  BY <1>1 DEF IInv, OneOwner, RunsAreAccountedFor
<1>4. CallersMatchQueue' /\ RunsAreAccountedFor'
  BY <1>1 DEF IInv, CallersMatchQueue, LanesAreSound, InLane, Queued,
              RunsAreAccountedFor
<1>. QED
  BY <1>2, <1>3, <1>4 DEF IInv

\* drain snapshots every body that is executing, because each is the active
\* run or a zombie.
LEMMA DrainIInv ==
    ASSUME IInv, NEW d \in Drainer, DrainCalled(d) \/ DrainReturns(d)
    PROVE  IInv'
<1>1. UNCHANGED <<pending, active, watchdog, grace, zombies, running, settled,
                  promise, pumps, disposed>>
  BY DEF DrainCalled, DrainReturns
<1>2. /\ OneOwner' /\ NoLostPump' /\ UserIsWatched' /\ EscapeHasCause'
      /\ CallersMatchQueue'
  BY <1>1 DEF IInv, OneOwner, NoLostPump, NothingPending, UserIsWatched,
              EscapeHasCause, CallersMatchQueue, LanesAreSound, InLane, Queued
<1>3. CASE DrainCalled(d)
  <2>1. AwaitedRuns \subseteq Task /\ running \subseteq AwaitedRuns
    BY SchedulerAssumption DEF IInv, TypeOK, OneOwner, AwaitedRuns, ActiveSettled
  <2>2. UNION {Queued(l) : l \in Lane} \subseteq Task
    BY LenProperties, ElementOfSeq DEF IInv, TypeOK, Queued
  <2>3. drain' = [drain EXCEPT ![d] = [state |-> "waiting", runs |-> AwaitedRuns,
                     items |-> UNION {Queued(l) : l \in Lane}, busy |-> running]]
    BY <1>3 DEF DrainCalled
  <2>4. TypeOK'
    BY <1>1, <2>1, <2>2, <2>3 DEF IInv, TypeOK
  <2>5. RunsAreAccountedFor'
    BY <1>1, <2>1, <2>3 DEF IInv, TypeOK, RunsAreAccountedFor
  <2>. QED
    BY <1>2, <2>4, <2>5 DEF IInv
<1>4. CASE DrainReturns(d)
  <2>1. /\ drain[d].runs \subseteq settled
        /\ drain' = [drain EXCEPT ![d].state = "returned"]
    BY <1>4 DEF DrainReturns
  <2>2. TypeOK'
    BY <1>1, <2>1 DEF IInv, TypeOK
  <2>3. RunsAreAccountedFor'
    BY <1>1, <2>1 DEF IInv, TypeOK, RunsAreAccountedFor
  <2>. QED
    BY <1>2, <2>2, <2>3 DEF IInv
<1>. QED
  BY <1>3, <1>4

LEMMA DisposeIInv ==
    ASSUME IInv, Dispose
    PROVE  IInv'
<1>1. /\ UNCHANGED <<pending, active, zombies, running, settled, promise, pumps,
                     drain>>
      /\ disposed' = TRUE /\ watchdog' = FALSE /\ grace' = None
  BY DEF Dispose, DisarmWatchdog
<1>2. TypeOK' /\ OneOwner' /\ NoLostPump' /\ UserIsWatched' /\ EscapeHasCause'
  BY <1>1 DEF IInv, TypeOK, OneOwner, NoLostPump, UserIsWatched, EscapeHasCause
<1>3. CallersMatchQueue' /\ RunsAreAccountedFor'
  BY <1>1 DEF IInv, CallersMatchQueue, LanesAreSound, InLane, Queued,
              RunsAreAccountedFor
<1>. QED
  BY <1>2, <1>3 DEF IInv

LEMMA NextIInv == IInv /\ [Next]_vars => IInv'
<1> SUFFICES ASSUME IInv, [Next]_vars PROVE IInv'
  OBVIOUS
<1>1. ASSUME NEW t \in Task, Enqueue(t) PROVE IInv'
  BY <1>1, EnqueueIInv
<1>2. CASE PumpMicrotask
  BY <1>2, PumpMicrotaskIInv
<1>3. ASSUME NEW t \in Task, NEW outcome \in {"resolved", "rejected"},
             TaskSettles(t, outcome)
      PROVE  IInv'
  BY <1>3, TaskSettlesIInv
<1>4. CASE WatchdogTrips
  BY <1>4, WatchdogTripsIInv
<1>5. CASE EscapeWedgedRun
  BY <1>5, EscapeWedgedRunIInv
<1>6. ASSUME NEW t \in Task, ForgetZombie(t) PROVE IInv'
  BY <1>6, ForgetZombieIInv
<1>7. ASSUME NEW d \in Drainer, DrainCalled(d) \/ DrainReturns(d) PROVE IInv'
  BY <1>7, DrainIInv
<1>8. CASE Dispose
  BY <1>8, DisposeIInv
<1>9. CASE UNCHANGED vars
  BY <1>9 DEF vars, IInv, TypeOK, OneOwner, NoLostPump, NothingPending,
              UserIsWatched, EscapeHasCause, CallersMatchQueue, LanesAreSound,
              InLane, Queued, RunsAreAccountedFor
<1>. QED
  BY <1>1, <1>2, <1>3, <1>4, <1>5, <1>6, <1>7, <1>8, <1>9 DEF Next

-----------------------------------------------------------------------------
(* The theorems.                                                           *)

\* The inductive invariant holds in every reachable state.
THEOREM InvariantHolds == Spec => []IInv
  BY InitIInv, NextIInv, PTL DEF Spec

\* Every variable keeps its type (interface RunQueue, lines 23-32).
THEOREM TypeCorrect == Spec => []TypeOK
<1>1. IInv => TypeOK
  BY DEF IInv
<1>. QED
  BY <1>1, InvariantHolds, PTL

\* At most one body owns the agent, for any number of tasks and escapes.
THEOREM AgentHasOneOwner == Spec => []OneOwner
<1>1. IInv => OneOwner
  BY DEF IInv
<1>. QED
  BY <1>1, InvariantHolds, PTL

\* A waiting task always has something that will start it, and a waiting user
\* task an armed timer behind a run.
THEOREM WaitingIsNeverForgotten == Spec => [](NoLostPump /\ UserIsWatched)
<1>1. IInv => NoLostPump /\ UserIsWatched
  BY DEF IInv
<1>. QED
  BY <1>1, InvariantHolds, PTL

\* The watchdog takes the agent only for a user task that still waits.
THEOREM EscapesHaveCause == Spec => []EscapeHasCause
<1>1. IInv => EscapeHasCause
  BY DEF IInv
<1>. QED
  BY <1>1, InvariantHolds, PTL

\* Callers are released exactly when their task has had its turn.
THEOREM CallersAreReleasedInTurn == Spec => []CallersMatchQueue
<1>1. IInv => CallersMatchQueue
  BY DEF IInv
<1>. QED
  BY <1>1, InvariantHolds, PTL

\* drain outlives every body that executed when it was called.
THEOREM DrainIsComplete == Spec => []DrainWaitsForBodies
<1>1. IInv => DrainWaitsForBodies
  BY DEF IInv, RunsAreAccountedFor, DrainWaitsForBodies
<1>. QED
  BY <1>1, InvariantHolds, PTL

\* After dispose no step starts a body.
THEOREM DisposeIsFinal == Spec => NothingStartsAfterDispose
<1>1. [Next]_vars => (disposed => running' \subseteq running)
  <2> SUFFICES ASSUME [Next]_vars, disposed PROVE running' \subseteq running
    OBVIOUS
  <2>1. ASSUME NEW bodies, Pump(bodies) PROVE running' = bodies
    BY <2>1 DEF Pump, StayIdle
  <2>. QED
    BY <2>1 DEF Next, vars, Enqueue, PumpMicrotask, TaskSettles, WatchdogTrips,
                EscapeWedgedRun, ForgetZombie, DrainCalled, DrainReturns, Dispose
<1>2. [Next]_vars => [disposed => running' \subseteq running]_vars
  BY <1>1
<1>. QED
  BY <1>2, PTL DEF Spec, NothingStartsAfterDispose

\* A task has one place in the user lane.
LEMMA PositionIsUnique ==
    ASSUME IInv, NEW i \in DOMAIN pending["user"]
    PROVE  Position(pending["user"][i]) = i
<1>1. \A j \in DOMAIN pending["user"] :
         pending["user"][j] = pending["user"][i] => j = i
  BY DEF IInv, CallersMatchQueue, LanesAreSound, Lane
<1>. QED
  BY <1>1 DEF Position

\* What pump starts while a direct user task waits is that task or a direct
\* one before it.
LEMMA PumpKeepsDirectOrder ==
    ASSUME IInv, NEW bodies, bodies \subseteq running, Pump(bodies),
           NEW t \in Queued("user") \ GroupMember,
           NEW s \in (running' \ running) \ {t}
    PROVE  s \in Queued("user") \ GroupMember /\ Position(s) < Position(t)
<1> DEFINE q == pending["user"]
           n == TakeNextUserTask(q)
<1>1. q \in Seq(Task) /\ Len(q) \in Nat /\ DOMAIN q = 1..Len(q)
  BY LenProperties DEF IInv, TypeOK, Lane
<1>2. PICK k \in DOMAIN q : q[k] = t
  BY DEF Queued
<1>3. n \in DOMAIN q /\ q[n] \notin GroupMember /\ n <= k
  BY <1>1, <1>2, FirstDirectIsTaken
<1>4. s = q[n]
  <2>1. ~(disposed \/ NothingPending)
    BY DEF Pump, StayIdle
  <2>2. NextLane = "user" /\ NextIndex("user") = n
    BY <1>1, <1>2, EmptySeq DEF NextLane, NextIndex
  <2>. QED
    BY <2>1, <2>2 DEF Pump, StartNext
<1>5. Position(s) = n /\ Position(t) = k
  BY <1>2, <1>3, <1>4, PositionIsUnique
<1>6. n # k
  BY <1>2, <1>4
<1>7. s \in Queued("user") \ GroupMember
  BY <1>3, <1>4 DEF Queued
<1>. QED
  BY <1>1, <1>3, <1>5, <1>6, <1>7

\* No direct user task is overtaken, for any number of tasks in the lanes.
THEOREM DirectUsersKeepTheirOrder == Spec => DirectUsersInOrder
<1> DEFINE InOrder ==
       \A t \in Queued("user") \ GroupMember :
          \A s \in (running' \ running) \ {t} :
             /\ s \in Queued("user") \ GroupMember
             /\ Position(s) < Position(t)
<1>1. IInv /\ [Next]_vars => InOrder
  <2> SUFFICES ASSUME IInv, [Next]_vars,
                      NEW t \in Queued("user") \ GroupMember,
                      NEW s \in (running' \ running) \ {t}
               PROVE  s \in Queued("user") \ GroupMember /\ Position(s) < Position(t)
    OBVIOUS
  <2>1. PICK bodies : bodies \subseteq running /\ Pump(bodies)
    BY DEF Next, vars, Enqueue, PumpMicrotask, TaskSettles, WatchdogTrips,
           EscapeWedgedRun, ForgetZombie, DrainCalled, DrainReturns, Dispose
  <2>. QED
    BY <2>1, PumpKeepsDirectOrder
<1>2. IInv /\ [Next]_vars => [InOrder]_vars
  BY <1>1
<1>. QED
  BY <1>2, InvariantHolds, PTL DEF Spec, DirectUsersInOrder

\* What a task that waits, and a drain that awaits one, have to expect of a
\* disposed queue: nothing.
WaitersStay ==
    disposed =>
        /\ \A t \in Task : InLane(t) => InLane(t)' /\ promise'[t] = "pending"
        /\ \A d \in Drainer :
              drain[d].state = "waiting" /\ (\E t \in drain[d].items : InLane(t))
                 => drain'[d] = drain[d]

\* No step but enqueue touches the lanes of a disposed queue, and enqueue
\* takes nothing out of one.
LEMMA DisposedLanesGrow ==
    ASSUME IInv, [Next]_vars, disposed, NEW t \in Task, InLane(t)
    PROVE  InLane(t)'
<1>1. ASSUME NEW e \in Task, Enqueue(e) PROVE InLane(t)'
  <2>1. PICK l \in Lane : l = LaneOf[t]
    BY SchedulerAssumption
  <2>2. PICK k \in Lane : k = LaneOf[e]
    BY SchedulerAssumption
  <2>3. /\ pending \in [Lane -> Seq(Task)]
        /\ pending' = [pending EXCEPT ![k] = Append(pending[k], e)]
    BY <1>1, <2>2 DEF IInv, TypeOK, Enqueue
  <2>4. PICK i \in DOMAIN pending[l] : pending[l][i] = t
    BY <2>1 DEF InLane, Queued
  <2>5. i \in DOMAIN pending'[l] /\ pending'[l][i] = t
    <3>1. CASE l = k
      <4>1. /\ pending'[l] = Append(pending[l], e) /\ Len(pending[l]) \in Nat
            /\ DOMAIN pending[l] = 1..Len(pending[l])
            /\ DOMAIN Append(pending[l], e) = 1..(Len(pending[l]) + 1)
            /\ \A j \in 1..Len(pending[l]) : Append(pending[l], e)[j] = pending[l][j]
        BY <2>3, <3>1, AppendProperties, LenProperties
      <4>. QED
        BY <2>4, <4>1
    <3>2. CASE l # k
      BY <2>3, <2>4, <3>2
    <3>. QED
      BY <3>1, <3>2
  <2>. QED
    BY <2>1, <2>5 DEF InLane, Queued
<1>2. CASE pending' = pending
  BY <1>2 DEF InLane, Queued
<1>3. ASSUME NEW bodies, Pump(bodies) PROVE pending' = pending
  BY <1>3 DEF Pump, StayIdle
<1>4. CASE PumpMicrotask \/ EscapeWedgedRun \/ UNCHANGED vars
  BY <1>2, <1>3, <1>4 DEF PumpMicrotask, EscapeWedgedRun, vars
<1>5. ASSUME NEW s \in Task, NEW outcome, TaskSettles(s, outcome) PROVE pending' = pending
  BY <1>3, <1>5 DEF TaskSettles
<1>6. CASE WatchdogTrips \/ Dispose
  BY <1>2, <1>6 DEF WatchdogTrips, Dispose
<1>7. ASSUME NEW s \in Task, ForgetZombie(s) PROVE pending' = pending
  BY <1>7 DEF ForgetZombie
<1>8. ASSUME NEW d \in Drainer, DrainCalled(d) \/ DrainReturns(d) PROVE pending' = pending
  BY <1>8 DEF DrainCalled, DrainReturns
<1>. QED
  BY <1>1, <1>2, <1>4, <1>5, <1>6, <1>7, <1>8 DEF Next

\* After dispose a task that still waits is never started, resolved or
\* rejected, and a drain that awaits it never returns (run-scheduler.ts
\* 121-128, 179-182, 200).
THEOREM DisposeStrandsWaiters == Spec => [][WaitersStay]_vars
<1>1. IInv /\ IInv' /\ [Next]_vars => WaitersStay
  <2>. SUFFICES ASSUME IInv, IInv', [Next]_vars, disposed PROVE WaitersStay
    BY DEF WaitersStay
  <2>1. ASSUME NEW t \in Task, InLane(t)
        PROVE  InLane(t)' /\ promise'[t] = "pending" /\ promise[t] = "pending"
    <3>1. InLane(t)'
      BY <2>1, DisposedLanesGrow
    <3>. QED
      BY <2>1, <3>1 DEF IInv, CallersMatchQueue
  <2>2. ASSUME NEW d \in Drainer, drain[d].state = "waiting",
               NEW t \in drain[d].items, InLane(t)
        PROVE  drain'[d] = drain[d]
    <3>1. t \in Task /\ drain \in [Drainer -> [state : {"idle", "waiting", "returned"},
                                  runs : SUBSET Task, items : SUBSET Task, busy : SUBSET Task]]
      BY DEF IInv, TypeOK
    <3>2. promise[t] = "pending"
      BY <2>1, <2>2, <3>1
    <3>3. ASSUME NEW e \in Drainer, DrainCalled(e) \/ DrainReturns(e) PROVE e # d
      BY <2>2, <3>2, <3>3 DEF DrainCalled, DrainReturns
    <3>4. ASSUME NEW e \in Drainer, DrainCalled(e) \/ DrainReturns(e)
          PROVE  drain'[d] = drain[d]
      <4>1. e # d
        BY <3>3, <3>4
      <4>2. \E r : drain' = [drain EXCEPT ![e] = r]
        BY <3>4 DEF DrainCalled, DrainReturns
      <4>. QED
        BY <3>1, <4>1, <4>2
    <3>. QED
      BY <3>4 DEF Next, vars, Enqueue, PumpMicrotask, TaskSettles, WatchdogTrips,
                  EscapeWedgedRun, ForgetZombie, Dispose
  <2>. QED
    BY <2>1, <2>2 DEF WaitersStay
<1>2. IInv /\ IInv' /\ [Next]_vars => [WaitersStay]_vars
  BY <1>1
<1>. QED
  BY <1>2, InvariantHolds, PTL DEF Spec

-----------------------------------------------------------------------------
(* The queue implements AgentTurns.                                        *)

\* The place of a task, read off the queue's variables.
PlaceFacts ==
    \A t \in Task :
        /\ PlaceOf(t) \in Turns!Place
        /\ PlaceOf(t) = "new" <=> promise[t] = "none"
        /\ PlaceOf(t) = "holding" <=> active = t
        /\ PlaceOf(t) = "waiting" <=> InLane(t)
        /\ PlaceOf(t) = "abandoned" <=> t \in running /\ t # active

LEMMA PlaceOfTask == IInv => PlaceFacts
<1> SUFFICES ASSUME IInv, NEW t \in Task
             PROVE  /\ PlaceOf(t) \in Turns!Place
                    /\ PlaceOf(t) = "new" <=> promise[t] = "none"
                    /\ PlaceOf(t) = "holding" <=> active = t
                    /\ PlaceOf(t) = "waiting" <=> InLane(t)
                    /\ PlaceOf(t) = "abandoned" <=> t \in running /\ t # active
  BY DEF PlaceFacts
<1>1. promise[t] = "none" => ~InLane(t) /\ active # t /\ t \notin running
  BY DEF IInv, CallersMatchQueue, RunsAreAccountedFor
<1>2. InLane(t) => active # t /\ t \notin running
  BY DEF IInv, CallersMatchQueue
<1>. QED
  BY <1>1, <1>2 DEF PlaceOf, Turns!Place

LEMMA PlaceOfTaskNext == IInv' => PlaceFacts'
  BY PlaceOfTask, PTL

\* A task that pump starts is one the lanes allow to begin.
LEMMA PumpBeginsAllowed ==
    ASSUME IInv, NEW bodies, PumpEffect(bodies), active' # None
    PROVE  /\ active' \in Task
           /\ Turns!MayBegin(active')
           /\ pending["user"] # <<>> => LaneOf[active'] = "user"
<1>1. active' \in Task /\ InLane(active') /\ ~disposed
  BY DEF PumpEffect
<1>2. ASSUME NEW l \in Lane, pending[l] = <<>>
      PROVE  ~Turns!WaitingIn(l)
  <2>1. \A t \in Task : LaneOf[t] = l => ~InLane(t)
    BY <1>2, EmptySeq DEF InLane, Queued
  <2>. QED
    BY <2>1, PlaceOfTask DEF PlaceFacts, Turns!WaitingIn, Turns!At
<1>3. PlaceOf(active') = "waiting"
  BY <1>1, PlaceOfTask DEF PlaceFacts
<1>. QED
  BY <1>1, <1>2, <1>3 DEF PumpEffect, Turns!MayBegin, Lane

LEMMA InitMapsToTurns == Init => Turns!Init
  BY DEF Init, Turns!Init, PlaceOf

\* Every step of the queue is a step of AgentTurns or leaves its state alone.
LEMMA StepMapsToTurns ==
    IInv /\ IInv' /\ [Next]_vars => [Turns!Next]_Turns!vars
<1> SUFFICES ASSUME IInv, IInv', [Next]_vars PROVE [Turns!Next]_Turns!vars
  OBVIOUS
<1>1. PlaceFacts /\ PlaceFacts'
  BY PlaceOfTask, PlaceOfTaskNext
<1>2. ASSUME NEW t \in Task, Enqueue(t)
      PROVE  Turns!Accept(t)
  <2>1. /\ promise[t] = "none" /\ promise' = [promise EXCEPT ![t] = "pending"]
        /\ UNCHANGED <<active, running, settled, disposed>>
    BY <1>2 DEF Enqueue
  <2>2. promise'[t] = "pending" /\ active # t
    BY <2>1 DEF IInv, TypeOK, CallersMatchQueue
  <2>3. PlaceOf(t) = "new" /\ PlaceOf(t)' = "waiting"
    BY <2>1, <2>2, <1>1 DEF IInv, CallersMatchQueue, PlaceFacts
  <2>4. ASSUME NEW s \in Task, s # t PROVE PlaceOf(s)' = PlaceOf(s)
    <3>1. promise'[s] = promise[s]
      BY <2>1, <2>4 DEF IInv, TypeOK
    <3>2. InLane(s)' <=> InLane(s)
      BY <2>1, <3>1 DEF IInv, CallersMatchQueue
    <3>. QED
      BY <2>1, <3>1, <3>2 DEF PlaceOf
  <2>5. [s \in Task |-> PlaceOf(s)]' = [[s \in Task |-> PlaceOf(s)] EXCEPT ![t] = "waiting"]
    BY <2>3, <2>4
  <2>. QED
    BY <2>1, <2>3, <2>5 DEF Turns!Accept
<1>3. ASSUME NEW s \in Task, promise'[s] = promise[s], InLane(s)' <=> InLane(s),
             active' = s <=> active = s, s \in running' <=> s \in running
      PROVE  PlaceOf(s)' = PlaceOf(s)
  BY <1>3 DEF PlaceOf
<1>4. ASSUME UNCHANGED <<pending, active, running, promise, disposed>>
      PROVE  UNCHANGED Turns!vars
  <2>1. \A s \in Task : PlaceOf(s)' = PlaceOf(s)
    BY <1>3, <1>4 DEF InLane, Queued
  <2>. QED
    BY <1>4, <2>1 DEF Turns!vars
<1>5. ASSUME PumpMicrotask, active = None
      PROVE  (\E t \in Task : Turns!Begin(t)) \/ UNCHANGED Turns!vars
  <2>1. PumpEffect(running) /\ UNCHANGED <<promise, disposed>>
    <3>1. Pump(running) /\ UNCHANGED <<promise, disposed>>
      BY <1>5 DEF PumpMicrotask
    <3>. QED
      BY <3>1, PumpHasEffect DEF IInv, TypeOK, CallersMatchQueue
  <2>2. ASSUME NEW s \in Task, s # active'
        PROVE  PlaceOf(s)' = PlaceOf(s)
    BY <1>3, <1>5, <2>1, <2>2, SchedulerAssumption DEF PumpEffect
  <2>3. CASE active' = None
    <3>1. \A s \in Task : PlaceOf(s)' = PlaceOf(s)
      BY <2>2, <2>3, SchedulerAssumption
    <3>. QED
      BY <2>1, <3>1 DEF Turns!vars
  <2>4. CASE active' # None
    <3>1. active' \in Task /\ Turns!MayBegin(active')
      BY <2>1, <2>4, PumpBeginsAllowed
    <3>2. PICK n \in Task : n = active'
      BY <3>1
    <3>3. PlaceOf(n)' = "holding"
      BY <1>1, <3>2 DEF PlaceFacts
    <3>4. Turns!At("holding") = {}
      BY <1>1, <1>5, SchedulerAssumption DEF PlaceFacts, Turns!At
    <3>5. [s \in Task |-> PlaceOf(s)]'
            = [[s \in Task |-> PlaceOf(s)] EXCEPT ![n] = "holding"]
      BY <2>2, <3>2, <3>3
    <3>6. Turns!Begin(n)
      BY <2>1, <3>1, <3>2, <3>4, <3>5 DEF Turns!Begin
    <3>. QED
      BY <3>6
  <2>. QED
    BY <2>3, <2>4
<1>6. ASSUME NEW t \in Task, NEW outcome \in {"resolved", "rejected"},
             TaskSettles(t, outcome)
      PROVE  Turns!End(t) \/ Turns!EndLate(t)
  <2>1. /\ t \in running /\ UNCHANGED disposed
        /\ promise'[t] # "none"
        /\ \A s \in Task \ {t} : promise'[s] = promise[s]
        /\ ~InLane(t)
    BY <1>6 DEF TaskSettles, Settle, IInv, TypeOK, RunsAreAccountedFor, CallersMatchQueue
  <2>2. CASE active # t
    <3>1. UNCHANGED <<pending, active>> /\ running' = running \ {t}
      BY <1>6, <2>2 DEF TaskSettles
    <3>2. \A s \in Task : InLane(s)' <=> InLane(s)
      BY <3>1 DEF InLane, Queued
    <3>3. \A s \in Task \ {t} : PlaceOf(s)' = PlaceOf(s)
      BY <1>3, <2>1, <3>1, <3>2
    <3>4. PlaceOf(t) = "abandoned" /\ PlaceOf(t)' = "ended"
      BY <1>1, <2>1, <2>2, <3>1, <3>2 DEF PlaceFacts, Turns!Place
    <3>5. [s \in Task |-> PlaceOf(s)]'
            = [[s \in Task |-> PlaceOf(s)] EXCEPT ![t] = "ended"]
      BY <3>3, <3>4
    <3>. QED
      BY <2>1, <3>4, <3>5 DEF Turns!EndLate
  <2>3. CASE active = t
    <3>1. PumpEffect(running \ {t})
      <4>1. Pump(running \ {t}) /\ running \ {t} \in SUBSET Task
        BY <1>6, <2>3 DEF TaskSettles, IInv, TypeOK
      <4>. QED
        BY <4>1, PumpHasEffect DEF IInv, CallersMatchQueue
    <3>2. active' # t
      BY <2>1, <3>1, SchedulerAssumption DEF PumpEffect
    <3>3. ~InLane(t)' /\ t \notin running'
      BY <2>1, <3>1, <3>2 DEF PumpEffect
    <3>4. PlaceOf(t) = "holding" /\ PlaceOf(t)' = "ended"
      BY <1>1, <2>1, <2>3, <3>2, <3>3 DEF PlaceFacts, Turns!Place
    <3>5. \A s \in Task \ {t, active'} : PlaceOf(s)' = PlaceOf(s)
      BY <1>3, <2>1, <2>3, <3>1 DEF PumpEffect
    <3>6. CASE active' = None
      <4>1. [s \in Task |-> PlaceOf(s)]'
              = [[s \in Task |-> PlaceOf(s)] EXCEPT ![t] = "ended"]
        BY <3>4, <3>5, <3>6, SchedulerAssumption
      <4>. QED
        BY <2>1, <3>4, <4>1 DEF Turns!End
    <3>7. CASE active' # None
      <4>1. PICK n \in Task : n = active' /\ Turns!MayBegin(n) /\ n # t
        BY <3>1, <3>2, <3>7, PumpBeginsAllowed
      <4>2. PlaceOf(n)' = "holding"
        BY <1>1, <4>1 DEF PlaceFacts
      <4>3. [s \in Task |-> PlaceOf(s)]'
              = [[s \in Task |-> PlaceOf(s)] EXCEPT ![t] = "ended", ![n] = "holding"]
        BY <3>4, <3>5, <4>1, <4>2
      <4>. QED
        BY <2>1, <3>4, <4>1, <4>3 DEF Turns!End
    <3>. QED
      BY <3>6, <3>7
  <2>. QED
    BY <2>2, <2>3
<1>7. ASSUME EscapeWedgedRun
      PROVE  \E t \in Task : Turns!Abandon(t)
  <2>1. PICK t \in Task : /\ t = active /\ t \in running /\ ~InLane(t)
                          /\ pending["user"] # <<>>
                          /\ promise'[t] # "none"
                          /\ \A s \in Task \ {t} : promise'[s] = promise[s]
                          /\ UNCHANGED disposed /\ ~disposed
                          /\ Pump(running)
    BY <1>7 DEF EscapeWedgedRun, Settle, IInv, TypeOK, OneOwner, EscapeHasCause,
                CallersMatchQueue, RunsAreAccountedFor
  <2>2. PumpEffect(running)
    BY <2>1, PumpHasEffect DEF IInv, TypeOK, CallersMatchQueue
  <2>3. active' # None
    BY <2>1, <2>2 DEF PumpEffect, NothingPending, Lane
  <2>4. PICK n \in Task : /\ n = active' /\ Turns!MayBegin(n)
                          /\ LaneOf[n] = "user" /\ n # t
    BY <2>1, <2>2, <2>3, PumpBeginsAllowed DEF PumpEffect
  <2>5. PlaceOf(t) = "holding" /\ PlaceOf(t)' = "abandoned" /\ PlaceOf(n)' = "holding"
    BY <1>1, <2>1, <2>2, <2>4 DEF PlaceFacts, PumpEffect
  <2>6. \A s \in Task \ {t, n} : PlaceOf(s)' = PlaceOf(s)
    BY <1>3, <2>1, <2>2, <2>4 DEF PumpEffect
  <2>7. [s \in Task |-> PlaceOf(s)]'
          = [[s \in Task |-> PlaceOf(s)] EXCEPT ![t] = "abandoned", ![n] = "holding"]
    BY <2>4, <2>5, <2>6
  <2>. QED
    BY <2>1, <2>4, <2>5, <2>7 DEF Turns!Abandon
<1>8. ASSUME Dispose
      PROVE  Turns!Close
  <2>1. UNCHANGED <<pending, active, running, promise>> /\ ~disposed /\ disposed'
    BY <1>8 DEF Dispose
  <2>2. \A s \in Task : PlaceOf(s)' = PlaceOf(s)
    BY <1>3, <2>1 DEF InLane, Queued
  <2>. QED
    BY <1>8, <2>1, <2>2 DEF Turns!Close, Dispose
<1>9. ASSUME NEW t \in Task, ForgetZombie(t) PROVE UNCHANGED Turns!vars
  BY <1>4, <1>9 DEF ForgetZombie
<1>10. ASSUME NEW d \in Drainer, DrainCalled(d) \/ DrainReturns(d)
       PROVE  UNCHANGED Turns!vars
  BY <1>4, <1>10 DEF DrainCalled, DrainReturns
<1>11. ASSUME WatchdogTrips \/ UNCHANGED vars \/ (PumpMicrotask /\ active # None)
       PROVE  UNCHANGED Turns!vars
  BY <1>4, <1>11 DEF WatchdogTrips, PumpMicrotask, vars
<1>. QED
  BY <1>2, <1>5, <1>6, <1>7, <1>8, <1>9, <1>10, <1>11 DEF Next, Turns!Next

\* The run queue implements AgentTurns: one holder at a time, lanes in order,
\* and a turn taken away only for a waiting user task.
THEOREM QueueImplementsTurns == Spec => ImplementsTurns
<1>. QED
  BY InitMapsToTurns, StepMapsToTurns, InvariantHolds, PTL
     DEF Spec, ImplementsTurns, Turns!Spec
=============================================================================
