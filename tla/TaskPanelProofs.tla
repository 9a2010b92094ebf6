--------------------------- MODULE TaskPanelProofs ---------------------------
(***************************************************************************)
(* Proofs that a task the user was not shown stays the pending request of  *)
(* its service, that a content is not delegated twice unawares, and where  *)
(* a selection may go astray, for any services, contents, submissions and  *)
(* bounds.                                                                 *)
(***************************************************************************)
EXTENDS TaskPanel, SequenceTheorems, TLAPS

At == {"idle", "saving", "saved", "sent", "answered", "refused", "keeping", "listing"}
Sub == [at : At, input : Content \cup {None}, id : Id \cup {0}, to : Service \cup {None}]
Entry == [key : Service, value : Saved, by : Submission \cup {None}]
Reloading(n) == {NotReloading, Configuring("config"), Configuring("state")}
                   \cup {Opening("config"), Opening("state")} \cup {Waiting(m) : m \in 1..n}

World ==
    /\ connected \in Service \cup {None} /\ key \in Service \cup {None}
    /\ key # None => connected # None
    /\ list \in Service \cup {None} /\ (key = None => list = None)
    /\ state \in Saved /\ disk \in [Service -> Saved]
    /\ form \in Content
    /\ enabled \in BOOLEAN /\ broken \in BOOLEAN /\ mixed \in BOOLEAN /\ stale \in BOOLEAN
    /\ saves \in Seq(Entry)
    /\ reload \in Reloading(Len(saves))
    /\ sub \in [Submission -> Sub]
    /\ tasks \in [Service -> SUBSET Request] /\ late \in [Service -> SUBSET Request]
    /\ minted \in 0..MaxRequests
    /\ seen \subseteq 1..minted /\ forgotten \subseteq 1..minted /\ dropped \subseteq 1..minted
    /\ reload.at = "state" \/ enabled => key # None

\* The requests a service was sent, those it has not answered yet among them.
Known == [s \in Service |-> tasks[s] \cup late[s] \cup Underway(s)]

\* Every id was minted.
Minted(p) == p # None => p.id \in 1..minted
Ids ==
    /\ Minted(state.pending)
    /\ \A s \in Service : Minted(disk[s].pending)
    /\ \A i \in 1..Len(saves) : Minted(saves[i].value.pending)
    /\ \A b \in Submission :
          /\ sub[b].at # "idle" => key # None /\ sub[b].input \in Content
          /\ sub[b].at \in {"sent", "answered", "keeping"} =>
                sub[b].id \in 1..minted /\ sub[b].to \in Service

\* One service binds it to one content.
Bound ==
    \A s \in Service : /\ \A t \in Known[s] : t.id \in 1..minted
                       /\ \A t, u \in tasks[s] : t.id = u.id => t = u

\* A save of a submission is one, and the submission waits for it.
Saving(b) == sub[b].at \in {"saving", "keeping"}
SavesBelong ==
    /\ \A b \in Submission : Saving(b) => \E i \in 1..Len(saves) : saves[i].by = b
    /\ \A i \in 1..Len(saves) : saves[i].by # None => Saving(saves[i].by)
    /\ \A i, j \in 1..Len(saves) : saves[i].by # None /\ saves[i].by = saves[j].by => i = j

\* Of a service that was sent ts, p as the pending request misses none that the
\* user was neither told of nor gave up, and is none that is older.  The page
\* takes a request to be told of as soon as it is answered.
Told == seen \cup forgotten \cup dropped
Believed == Told \cup {sub[b].id : b \in {c \in Submission : sub[c].at = "keeping"}}
Covers(p, ts, told) ==
    \A t \in ts : /\ t # None
                  /\ t.id \notin told => p = t
                  /\ p # None => t.id <= p.id

\* Unless the panel was reloaded with something under way, one submission is
\* under way at a time, and the saves are of the service connected.
OneAtATime ==
    /\ \A b \in Submission : sub[b].at # "idle" =>
          /\ ~enabled /\ reload.at # "state"
          /\ \A c \in Submission : sub[c].at # "idle" => c = b
    /\ reload.at = "state" => saves = <<>>
    /\ \A i \in 1..Len(saves) : saves[i].key = key

\* Its request is pending in the state and in the save it waits for; from then
\* on, until it is answered, in all saves and on disk; and until the save with
\* its answer is written on disk.
Confirmed ==
    \A b \in Submission :
        /\ sub[b].at \in {"saving", "saved", "sent", "answered", "refused"} =>
              state.pending \in Request /\ state.pending.input = sub[b].input
        /\ sub[b].at = "saving" =>
              \A i, j \in 1..Len(saves) :
                 saves[i].by = b /\ i <= j => saves[j].value.pending = state.pending
        /\ sub[b].at \in {"saved", "sent", "answered", "refused"} =>
              /\ disk[key].pending = state.pending
              /\ \A i \in 1..Len(saves) : saves[i].value.pending = state.pending
        /\ sub[b].at \in {"sent", "answered", "refused"} =>
              sub[b].to = key /\ sub[b].id = state.pending.id
        /\ sub[b].at = "keeping" =>
              \A i, j \in 1..Len(saves) :
                 saves[i].by = b /\ j < i => saves[j].value.pending = disk[key].pending

Kept ==
    /\ \A s \in Service : Covers(disk[s].pending, Known[s], Told)
    /\ key # None /\ reload.at # "state" =>
          /\ Covers(state.pending, Known[key], Believed)
          /\ \A i \in 1..Len(saves) : Covers(saves[i].value.pending, Known[key], Believed)

Delegations ==
    \A s \in Service : \A t, u \in Known[s] :
        t.input = u.input /\ t.id < u.id => t.id \in Told

Unmixed == OneAtATime /\ Confirmed /\ Kept /\ Delegations
IInv == World /\ Ids /\ Bound /\ SavesBelong /\ (~mixed => Unmixed)

LEMMA TasksAreKnown == \A s \in Service : tasks[s] \subseteq Known[s]
BY DEF Known

LEMMA InvariantGives ==
    ASSUME IInv PROVE TypeOK /\ UnseenIsPending /\ DelegatedOnce
<1>1. TypeOK
  <2>1. saves \in Seq(Entry) /\ \A i \in 1..Len(saves) : saves[i] \in Entry
    BY ElementOfSeq DEF IInv, World
  <2>2. \A i \in 1..Len(saves) : saves[i].value \in Saved /\ saves[i].key \in Service
    BY <2>1 DEF Entry
  <2>3. \A b \in Submission : sub[b].at \in At
    BY DEF IInv, World, Sub
  <2>4. \A s \in Service : /\ tasks[s] \cup late[s] \subseteq Request
                           /\ \A t, u \in tasks[s] : t.id = u.id => t = u
    BY DEF IInv, World, Bound
  <2>5. \A b \in Submission : sub[b].at \in {"saving", "keeping"} =>
            \E i \in 1..Len(saves) : saves[i].by = b
    BY DEF IInv, SavesBelong, Saving
  <2>6. /\ connected \in Service \cup {None} /\ key \in Service \cup {None}
        /\ state \in Saved /\ disk \in [Service -> Saved] /\ form \in Content
        /\ {enabled, broken, mixed, stale} \subseteq BOOLEAN
        /\ list \in Service \cup {None} /\ (key = None => list = None)
        /\ minted \in 0..MaxRequests
        /\ seen \cup forgotten \cup dropped \subseteq 1..minted
        /\ reload \in Reloading(Len(saves))
    BY DEF IInv, World
  <2>. QED
    BY <2>2, <2>3, <2>4, <2>5, <2>6 DEF TypeOK, At, Reloading
<1>2. UnseenIsPending
  BY TasksAreKnown DEF IInv, Unmixed, Kept, Covers, Told, UnseenIsPending
<1>3. DelegatedOnce
  BY TasksAreKnown DEF IInv, Unmixed, Delegations, Told, DelegatedOnce
<1>. QED
  BY <1>1, <1>2, <1>3

LEMMA InitIInv == Init => IInv
<1>. SUFFICES ASSUME Init PROVE IInv
  OBVIOUS
<1>1. NoState \in Saved /\ NoState.pending = None /\ Idle \in Sub /\ Idle.at = "idle"
  BY DEF NoState, Saved, Idle, Sub, At
<1>2. MaxRequests \in Nat /\ NotReloading.at = "no"
  BY PanelAssumption DEF NotReloading
<1>3. /\ <<>> \in Seq(Entry) /\ Len(<<>>) = 0 /\ saves = <<>>
      /\ \A s \in Service : disk[s] = NoState /\ tasks[s] = {} /\ late[s] = {}
      /\ \A b \in Submission : sub[b] = Idle
  BY DEF Init
<1>4. World
  <2>1. sub \in [Submission -> Sub] /\ disk \in [Service -> Saved]
        /\ tasks \in [Service -> SUBSET Request] /\ late \in [Service -> SUBSET Request]
    BY <1>1 DEF Init
  <2>2. minted \in 0..MaxRequests
    BY <1>2 DEF Init
  <2>3. reload \in Reloading(Len(saves))
    BY DEF Init, Reloading
  <2>. QED
    BY <1>1, <1>2, <1>3, <2>1, <2>2, <2>3 DEF Init, World
<1>5. \A s \in Service : Known[s] = {}
  BY <1>1, <1>3 DEF Known, Underway
<1>6. Ids /\ SavesBelong /\ Bound
  BY <1>1, <1>3, <1>5 DEF Init, Ids, Minted, SavesBelong, Saving, Bound
<1>7. Unmixed
  BY <1>1, <1>2, <1>3, <1>5 DEF Init, Unmixed, OneAtATime, Confirmed, Kept, Covers, Delegations
<1>. QED
  BY <1>4, <1>6, <1>7 DEF IInv

-----------------------------------------------------------------------------
(* Saves, requests and coverage.                                           *)

LEMMA CoversStays ==
    ASSUME NEW p, NEW ts, NEW us, NEW a, NEW b, Covers(p, ts, a), us \subseteq ts, a \subseteq b
    PROVE  Covers(p, us, b)
BY DEF Covers

LEMMA SavesAre ==
    ASSUME World
    PROVE  \A i \in 1..Len(saves) : saves[i] \in Entry /\ saves[i].by \in Submission \cup {None}
<1>1. \A i \in 1..Len(saves) : saves[i] \in Entry
  BY ElementOfSeq DEF World
<1>. QED
  BY <1>1 DEF Entry

LEMMA SavePushed ==
    ASSUME World, NEW st \in Saved, NEW b \in Submission \cup {None}, key \in Service, Save(st, b)
    PROVE  /\ saves' \in Seq(Entry) /\ Len(saves') = Len(saves) + 1 /\ Len(saves) \in Nat
           /\ saves' # <<>>
           /\ \A i \in 1..Len(saves) : saves'[i] = saves[i]
           /\ saves'[Len(saves) + 1] = [key |-> key, value |-> st, by |-> b]
           /\ \A i \in 1..Len(saves') : i \in 1..Len(saves) \/ i = Len(saves) + 1
<1>1. [key |-> key, value |-> st, by |-> b] \in Entry
  BY DEF Entry
<1>2. saves \in Seq(Entry) /\ saves' = Append(saves, [key |-> key, value |-> st, by |-> b])
  BY DEF World, Save
<1>. QED
  BY <1>1, <1>2, AppendProperties, LenProperties, EmptySeq

LEMMA SavePopped ==
    ASSUME World, saves # <<>>, saves' = Tail(saves)
    PROVE  /\ saves' \in Seq(Entry) /\ Len(saves) \in Nat /\ Len(saves) >= 1
           /\ Len(saves') = Len(saves) - 1
           /\ \A i \in 1..(Len(saves) - 1) : saves'[i] = saves[i + 1]
           /\ Head(saves) = saves[1] /\ saves[1] \in Entry
<1>1. saves \in Seq(Entry)
  BY DEF World
<1>. QED
  BY <1>1, HeadTailProperties, LenProperties, EmptySeq, ElementOfSeq

LEMMA ReloadPushed ==
    ASSUME NEW n \in Nat, NEW r, r \in Reloading(n) PROVE r \in Reloading(n + 1)
<1>1. 1..n \subseteq 1..(n + 1)
  OBVIOUS
<1>. QED
  BY <1>1 DEF Reloading

\* What is awaited is one less.
LEMMA ReloadPopped ==
    ASSUME NEW n \in Nat, n >= 1, NEW r, NEW q, NEW ok \in BOOLEAN, r \in Reloading(n),
           q = IF r.at = "wait" THEN Opened(r.awaits - 1, ok) ELSE r
    PROVE  q \in Reloading(n - 1) /\ (q.at = "state" <=> r.at = "state")
<1>1. CASE r.at = "wait"
  <2>1. PICK m \in 1..n : r = Waiting(m)
    BY <1>1 DEF Reloading, NotReloading, Opening, Configuring
  <2>2. r.awaits = m
    BY <2>1 DEF Waiting
  <2>3. CASE m - 1 > 0
    <3>1. q = Waiting(m - 1) /\ m - 1 \in 1..(n - 1)
      BY <1>1, <2>2, <2>3 DEF Opened
    <3>2. q.at # "state"
      BY <3>1 DEF Waiting
    <3>. QED
      BY <1>1, <3>1, <3>2 DEF Reloading
  <2>4. CASE ~(m - 1 > 0)
    <3>1. q \in {Opening("config"), NotReloading}
      BY <1>1, <2>2, <2>4 DEF Opened
    <3>2. q.at # "state"
      BY <3>1 DEF Opening, NotReloading
    <3>. QED
      BY <1>1, <3>1, <3>2 DEF Reloading
  <2>. QED
    BY <2>3, <2>4
<1>2. CASE r.at # "wait"
  <2>1. \A m \in 1..n : r # Waiting(m)
    BY <1>2 DEF Waiting
  <2>. QED
    BY <1>2, <2>1 DEF Reloading
<1>. QED
  BY <1>1, <1>2

\* A step that sends nothing: the services know of no new request.
LEMMA KnownStays ==
    ASSUME UNCHANGED <<late, tasks>>,
           \A c \in Submission : sub'[c].at = "sent" => sub'[c] = sub[c]
    PROVE  \A s \in Service : Known'[s] \subseteq Known[s]
BY DEF Known, Underway, Sent

LEMMA BoundStays ==
    ASSUME Bound, \A s \in Service : Known'[s] \subseteq Known[s], tasks' = tasks,
           1..minted \subseteq 1..minted'
    PROVE  Bound'
BY DEF Bound

LEMMA DelegationsStay ==
    ASSUME Delegations, \A s \in Service : Known'[s] \subseteq Known[s], Told \subseteq Told'
    PROVE  Delegations'
BY DEF Delegations

LEMMA BelievedStays ==
    ASSUME Told \subseteq Told',
           \A c \in Submission : sub[c].at = "keeping" => sub'[c] = sub[c]
    PROVE  Believed \subseteq Believed'
BY DEF Believed

\* A step that changes neither the page's state nor a save nor a file.
LEMMA KeptStays ==
    ASSUME Kept, key \in Service \cup {None}, UNCHANGED <<key, state, disk, saves>>,
           Told \subseteq Told', Believed \subseteq Believed',
           \A s \in Service : Known'[s] \subseteq Known[s],
           reload'.at # "state" => reload.at # "state"
    PROVE  Kept'
<1>1. \A s \in Service : Covers(disk[s].pending, Known'[s], Told')
  BY CoversStays DEF Kept
<1>2. ASSUME key # None, reload'.at # "state"
      PROVE  /\ Covers(state.pending, Known'[key], Believed')
             /\ \A i \in 1..Len(saves) : Covers(saves[i].value.pending, Known'[key], Believed')
  BY <1>2, CoversStays DEF Kept
<1>. QED
  BY <1>1, <1>2 DEF Kept

-----------------------------------------------------------------------------
(* Steps of the connection that leave the submissions alone.               *)

LEMMA ReloadMoves ==
    ASSUME IInv, UNCHANGED <<key, state, form, enabled, sub, saves, broken, disk, late, tasks,
                             counted>>,
           connected' \in Service \cup {None}, key # None => connected' # None,
           list' \in Service \cup {None}, key = None => list' = None,
           reload' \in Reloading(Len(saves)), reload'.at = "state" <=> reload.at = "state"
    PROVE  IInv'
<1>1. UNCHANGED <<minted, seen, forgotten, dropped, mixed, stale>>
  BY DEF counted
<1>2. World'
  BY <1>1 DEF IInv, World
<1>3. Ids' /\ SavesBelong' /\ Known' = Known /\ Told' = Told /\ Believed' = Believed
  BY <1>1 DEF IInv, Ids, Minted, SavesBelong, Saving, Known, Underway, Sent, Told, Believed
<1>4. Bound'
  BY <1>1, <1>3 DEF IInv, Bound
<1>5. ASSUME ~mixed' PROVE Unmixed'
  <2>1. Unmixed
    BY <1>1, <1>5 DEF IInv
  <2>2. Kept' /\ Delegations'
    BY <1>3, <2>1, KeptStays, DelegationsStay DEF Unmixed, IInv, World
  <2>3. OneAtATime' /\ Confirmed'
    BY <2>1 DEF Unmixed, OneAtATime, Confirmed
  <2>. QED
    BY <2>2, <2>3 DEF Unmixed
<1>. QED
  BY <1>2, <1>3, <1>4, <1>5 DEF IInv

LEMMA OpenKeeps == ASSUME IInv, Open PROVE IInv'
<1>1. reload.at # "state" /\ Len(saves) \in Nat
  BY LenProperties DEF Open, Reloads, NotReloading, IInv, World
<1>2. reload' \in Reloading(Len(saves)) /\ reload'.at # "state"
  <2>1. CASE Len(saves) > 0
    <3>1. reload' = Waiting(Len(saves)) /\ Len(saves) \in 1..Len(saves)
      BY <1>1, <2>1 DEF Open, Opened
    <3>2. reload'.at # "state"
      BY <3>1 DEF Waiting
    <3>. QED
      BY <3>1, <3>2 DEF Reloading
  <2>2. CASE ~(Len(saves) > 0)
    <3>1. reload' \in {Opening("config"), NotReloading}
      BY <2>2 DEF Open, Opened
    <3>2. reload'.at # "state"
      BY <3>1 DEF Opening, NotReloading
    <3>. QED
      BY <3>1, <3>2 DEF Reloading
  <2>. QED
    BY <2>1, <2>2
<1>. QED
  BY <1>1, <1>2, ReloadMoves DEF Open, IInv, World

LEMMA ConfigureKeeps == ASSUME IInv, NEW s \in Service, Configure(s) PROVE IInv'
<1>1. reload.at # "state" /\ s # None
  BY PanelAssumption DEF Configure, Reloads, NotReloading
<1>2. reload' \in Reloading(Len(saves)) /\ reload'.at # "state"
  BY DEF Configure, Reloading, Configuring
<1>. QED
  BY <1>1, <1>2, ReloadMoves DEF Configure, IInv, World

LEMMA RefreshKeeps == ASSUME IInv, Refresh PROVE IInv'
BY ReloadMoves DEF Refresh, IInv, World

LEMMA LoadConfigKeeps == ASSUME IInv, LoadConfig PROVE IInv'
<1>1. /\ key' = connected /\ reload.at = "config" /\ mixed' = (mixed \/ Unsettled)
      /\ UNCHANGED <<connected, state, form, enabled, list, sub, saves, broken, disk, late,
                     tasks, minted, seen, forgotten, dropped, stale>>
      /\ reload' = IF connected = None THEN NotReloading ELSE [reload EXCEPT !.at = "state"]
  BY DEF LoadConfig
<1>2. reload \in {Opening("config"), Configuring("config")}
      /\ Opening("state").at = "state" /\ Configuring("state").at = "state"
  BY <1>1 DEF IInv, World, Reloading, Opening, Configuring, NotReloading, Waiting
<1>3. /\ reload' \in {Opening("state"), Configuring("state"), NotReloading}
      /\ connected = None => reload' = NotReloading /\ key = None
      /\ connected # None => reload'.at = "state"
  <2>1. [reload EXCEPT !.at = "state"] \in {Opening("state"), Configuring("state")}
    <3>1. ASSUME NEW o \in BOOLEAN
          PROVE  [[at |-> "config", opens |-> o, awaits |-> 0] EXCEPT !.at = "state"]
                    = [at |-> "state", opens |-> o, awaits |-> 0]
      OBVIOUS
    <3>2. CASE reload = Opening("config")
      BY <3>1, <3>2 DEF Opening
    <3>3. CASE reload = Configuring("config")
      BY <3>1, <3>3 DEF Configuring
    <3>. QED
      BY <1>2, <3>2, <3>3
  <2>2. connected = None => key = None
    BY DEF IInv, World
  <2>3. CASE connected = None
    BY <1>1, <2>2, <2>3
  <2>4. CASE connected # None
    <3>1. reload' \in {Opening("state"), Configuring("state")}
      BY <1>1, <2>1, <2>4
    <3>. QED
      BY <1>2, <2>4, <3>1
  <2>. QED
    BY <2>3, <2>4
<1>4. World'
  <2>1. mixed' \in BOOLEAN
    BY <1>1 DEF IInv, World, Unsettled
  <2>2. reload' \in Reloading(Len(saves))
    BY <1>3 DEF Reloading
  <2>. QED
    BY <1>1, <1>3, <2>1, <2>2 DEF IInv, World, NotReloading
<1>5. Ids' /\ SavesBelong' /\ Known' = Known
  BY <1>1, <1>3 DEF IInv, Ids, Minted, SavesBelong, Saving, World, Known, Underway, Sent
<1>6. Bound'
  BY <1>1, <1>5 DEF IInv, Bound
<1>7. ASSUME ~mixed' PROVE Unmixed'
  <2>1. Unmixed /\ Told' = Told /\ saves = <<>> /\ \A b \in Submission : sub[b].at = "idle"
    BY <1>1, <1>7 DEF IInv, Unsettled, Told
  <2>2. Len(saves) = 0
    BY <2>1
  <2>3. OneAtATime' /\ Confirmed'
    BY <1>1, <2>1, <2>2 DEF OneAtATime, Confirmed
  <2>4. Kept'
    BY <1>1, <1>3, <1>5, <2>1 DEF Unmixed, Kept
  <2>5. Delegations'
    BY <1>5, <2>1, DelegationsStay DEF Unmixed
  <2>. QED
    BY <2>3, <2>4, <2>5 DEF Unmixed
<1>. QED
  BY <1>4, <1>5, <1>6, <1>7 DEF IInv

-----------------------------------------------------------------------------
(* Reading a state, editing the form, choosing a task, and the first step  *)
(* of a submission.                                                        *)

LEMMA SubMoves ==
    ASSUME World, NEW b \in Submission, NEW a \in At, sub' = [sub EXCEPT ![b].at = a]
    PROVE  /\ sub' \in [Submission -> Sub]
           /\ sub'[b].at = a /\ sub'[b].input = sub[b].input
           /\ sub'[b].id = sub[b].id /\ sub'[b].to = sub[b].to
           /\ \A c \in Submission \ {b} : sub'[c] = sub[c]
<1>1. sub \in [Submission -> Sub] /\ sub[b] \in Sub
  BY DEF World
<1>. DEFINE x == [sub[b] EXCEPT !.at = a]
<1>2. /\ x \in Sub
      /\ x.at = a /\ x.input = sub[b].input /\ x.id = sub[b].id /\ x.to = sub[b].to
  BY <1>1 DEF Sub
<1>3. sub' = [sub EXCEPT ![b] = x]
  OBVIOUS
<1>. HIDE DEF x
<1>. QED
  BY <1>1, <1>2, <1>3

LEMMA SubBecomes ==
    ASSUME World, NEW b \in Submission, NEW x \in Sub, sub' = [sub EXCEPT ![b] = x]
    PROVE  /\ sub' \in [Submission -> Sub] /\ sub'[b] = x
           /\ \A c \in Submission \ {b} : sub'[c] = sub[c]
<1>1. sub \in [Submission -> Sub]
  BY DEF World
<1>. QED
  BY <1>1

\* A submission that saves adds its one save; any other save belongs to none.
LEMMA BelongsPushed ==
    ASSUME World, SavesBelong, NEW st \in Saved, NEW b \in Submission \cup {None},
           key \in Service, Save(st, b),
           b # None => ~Saving(b) /\ sub'[b].at \in {"saving", "keeping"},
           \A c \in Submission : c # b => sub'[c].at = sub[c].at
    PROVE  SavesBelong'
<1>1. /\ Len(saves') = Len(saves) + 1 /\ Len(saves) \in Nat
      /\ \A i \in 1..Len(saves) : saves'[i] = saves[i]
      /\ saves'[Len(saves) + 1].by = b
  <2>. DEFINE e == [key |-> key, value |-> st, by |-> b]
  <2>1. e.by = b
    OBVIOUS
  <2>2. /\ Len(saves') = Len(saves) + 1 /\ Len(saves) \in Nat
        /\ \A i \in 1..Len(saves) : saves'[i] = saves[i]
        /\ saves'[Len(saves) + 1] = e
    BY SavePushed
  <2>. HIDE DEF e
  <2>. QED
    BY <2>1, <2>2
<1>2. \A i \in 1..Len(saves') : i \in 1..Len(saves) \/ i = Len(saves) + 1
  BY <1>1
<1>3. Len(saves) + 1 \in 1..Len(saves') /\ 1..Len(saves) \subseteq 1..Len(saves')
  BY <1>1
<1>4. \A i \in 1..Len(saves) : saves[i].by \in Submission \cup {None}
                                /\ (saves[i].by # None => saves[i].by # b)
  BY SavesAre DEF SavesBelong
<1>5. ASSUME NEW c \in Submission, sub'[c].at \in {"saving", "keeping"}
      PROVE  \E i \in 1..Len(saves') : saves'[i].by = c
  <2>1. CASE c = b
    BY <1>1, <1>3, <2>1
  <2>2. CASE c # b
    BY <1>1, <1>3, <1>5, <2>2 DEF SavesBelong, Saving
  <2>. QED
    BY <2>1, <2>2
<1>6. ASSUME NEW i \in 1..Len(saves'), saves'[i].by # None
      PROVE  sub'[saves'[i].by].at \in {"saving", "keeping"}
  <2>1. CASE i \in 1..Len(saves)
    BY <1>1, <1>4, <1>6, <2>1 DEF SavesBelong, Saving
  <2>2. CASE i = Len(saves) + 1
    BY <1>1, <1>6, <2>2
  <2>. QED
    BY <1>2, <2>1, <2>2
<1>7. ASSUME NEW i \in 1..Len(saves'), NEW j \in 1..Len(saves'), saves'[i].by # None,
             saves'[i].by = saves'[j].by
      PROVE  i = j
  BY <1>1, <1>2, <1>4, <1>7 DEF SavesBelong
<1>. QED
  BY <1>5, <1>6, <1>7 DEF SavesBelong, Saving

LEMMA SavedPending ==
    ASSUME NEW st \in Saved
    PROVE  /\ st.pending \in Request \cup {None} /\ st.draft \in Content \cup {None}
           /\ \A d \in Content : [st EXCEPT !.draft = d] \in Saved
                                /\ [st EXCEPT !.draft = d].pending = st.pending
BY DEF Saved

LEMMA LoadStateKeeps ==
    ASSUME IInv, NEW goal \in Content \cup {None}, NEW ok \in BOOLEAN, LoadState(goal, ok)
    PROVE  IInv'
<1>. DEFINE read == IF ok THEN disk[key] ELSE NoState
<1>1. /\ reload.at = "state" /\ mixed' = (mixed \/ Unsettled) /\ enabled' = TRUE
      /\ reload' = NotReloading /\ reload'.at # "state"
      /\ UNCHANGED <<connected, key, list, sub, broken, disk, late, tasks,
                     minted, seen, forgotten, stale>>
      /\ dropped' = IF ok THEN dropped ELSE dropped \cup PendingId(disk[key])
  BY DEF LoadState, NotReloading
<1>2. World /\ key \in Service /\ disk[key] \in Saved /\ mixed' \in BOOLEAN
  BY <1>1 DEF IInv, World, Unsettled
<1>3. NoState \in Saved /\ NoState.pending = None
  BY DEF NoState, Saved
<1>4. /\ read \in Saved /\ (ok => read = disk[key]) /\ (~ok => read.pending = None)
      /\ PendingId(disk[key]) \subseteq 1..minted
      /\ disk[key].pending # None => disk[key].pending.id \in PendingId(disk[key])
  BY <1>2, <1>3 DEF PendingId, IInv, Ids, Minted
<1>5. /\ IF goal = None
         THEN /\ state' = read
              /\ form' = IF read.draft = None THEN form ELSE read.draft
              /\ UNCHANGED saves
         ELSE /\ state' = [read EXCEPT !.draft = goal]
              /\ form' = goal
              /\ Save(state', None)
  BY DEF LoadState
<1>. HIDE DEF read
<1>6. /\ state' \in Saved /\ state'.pending = read.pending
      /\ \/ UNCHANGED saves
         \/ Save(state', None)
      /\ form' \in Content
  <2>1. CASE goal = None
    BY <1>2, <1>4, <1>5, <2>1, SavedPending DEF World
  <2>2. CASE goal # None
    BY <1>2, <1>4, <1>5, <2>2, SavedPending
  <2>. QED
    BY <2>1, <2>2
<1>7. /\ saves' \in Seq(Entry) /\ SavesBelong'
      /\ Len(saves) \in Nat
      /\ \A i \in 1..Len(saves') : \/ i \in 1..Len(saves) /\ saves'[i] = saves[i]
                                   \/ saves'[i] = [key |-> key, value |-> state', by |-> None]
  <2>1. CASE UNCHANGED saves
    BY <1>1, <2>1, LenProperties DEF IInv, World, SavesBelong, Saving
  <2>2. CASE Save(state', None)
    <3>1. /\ saves' \in Seq(Entry) /\ Len(saves') = Len(saves) + 1 /\ Len(saves) \in Nat
          /\ \A i \in 1..Len(saves) : saves'[i] = saves[i]
          /\ saves'[Len(saves) + 1] = [key |-> key, value |-> state', by |-> None]
      BY <1>2, <1>6, <2>2, SavePushed
    <3>2. SavesBelong'
      BY <1>1, <1>2, <1>6, <2>2, BelongsPushed DEF IInv
    <3>. QED
      BY <3>1, <3>2
  <2>. QED
    BY <1>6, <2>1, <2>2
<1>8. World'
  <2>1. dropped' \subseteq 1..minted' /\ reload' \in Reloading(Len(saves'))
    BY <1>1, <1>2, <1>4 DEF World, Reloading
  <2>. QED
    BY <1>1, <1>2, <1>6, <1>7, <2>1 DEF World
<1>9. Ids'
  <2>1. Minted(state'.pending)
    BY <1>2, <1>3, <1>4, <1>6 DEF IInv, Ids, Minted
  <2>2. \A i \in 1..Len(saves') : Minted(saves'[i].value.pending)
    BY <1>2, <1>6, <1>7, <2>1 DEF IInv, Ids
  <2>. QED
    BY <1>1, <2>1, <2>2 DEF IInv, Ids, Minted
<1>10. Bound' /\ \A s \in Service : Known'[s] \subseteq Known[s]
  BY <1>1, KnownStays, BoundStays DEF IInv
<1>11. ASSUME ~mixed' PROVE Unmixed'
  <2>1. Unmixed /\ saves = <<>> /\ \A b \in Submission : sub[b].at = "idle"
    BY <1>1, <1>11 DEF IInv, Unsettled
  <2>2. Told \subseteq Told' /\ Told' \subseteq Believed'
        /\ (~ok => PendingId(disk[key]) \subseteq Told')
    BY <1>1 DEF Told, Believed
  <2>3. \A i \in 1..Len(saves') :
           saves'[i] = [key |-> key, value |-> state', by |-> None]
    BY <1>7, <2>1
  <2>4. OneAtATime' /\ Confirmed'
    BY <1>1, <2>1, <2>3 DEF OneAtATime, Confirmed
  <2>5. Covers(state'.pending, Known'[key], Believed')
    <3>1. Covers(disk[key].pending, Known[key], Told)
      BY <1>2, <2>1 DEF Unmixed, Kept
    <3>2. CASE ok
      BY <1>2, <1>4, <1>6, <1>10, <2>2, <3>1, <3>2 DEF Covers
    <3>3. CASE ~ok
      <4>1. state'.pending = None
        BY <1>4, <1>6, <3>3
      <4>2. \A t \in Known'[key] : t \in Known[key]
        BY <1>2, <1>10
      <4>. QED
        BY <1>4, <2>2, <3>1, <3>3, <4>1, <4>2 DEF Covers
    <3>. QED
      BY <3>2, <3>3
  <2>6. Kept'
    <3>1. \A s \in Service : Covers(disk[s].pending, Known'[s], Told')
      BY <1>10, <2>1, <2>2, CoversStays DEF Unmixed, Kept
    <3>. QED
      BY <1>1, <2>3, <2>5, <3>1 DEF Kept
  <2>7. Delegations'
    BY <1>10, <2>1, <2>2, DelegationsStay DEF Unmixed
  <2>. QED
    BY <2>4, <2>6, <2>7 DEF Unmixed
<1>. QED
  BY <1>7, <1>8, <1>9, <1>10, <1>11 DEF IInv

LEMMA RestartKeeps == ASSUME IInv, Restart PROVE IInv'
<1>1. /\ key' = None /\ state' = NoState /\ enabled' = FALSE /\ form' \in Content
      /\ reload' = NotReloading /\ list' = None /\ saves' = <<>> /\ broken' = FALSE
      /\ sub' = [b \in Submission |-> Idle]
      /\ late' = [s \in Service |-> late[s] \cup Underway(s)]
      /\ UNCHANGED <<connected, disk, tasks, minted, seen, forgotten, dropped, mixed, stale>>
  BY DEF Restart, counted
<1>2. NoState \in Saved /\ NoState.pending = None /\ Idle \in Sub /\ Idle.at = "idle"
  BY DEF NoState, Saved, Idle, Sub, At
<1>3. /\ NotReloading.at # "state" /\ <<>> \in Seq(Entry) /\ Len(<<>>) = 0
      /\ NotReloading \in Reloading(0)
  BY DEF NotReloading, Reloading
<1>4. \A b \in Submission : sub'[b] = Idle
  BY <1>1
<1>5. late' \in [Service -> SUBSET Request]
  <2>1. ASSUME NEW c \in Submission, sub[c].at = "sent" PROVE Sent(c) \in Request
    <3>1. /\ sub[c].id \in 1..minted /\ sub[c].input \in Content
          /\ minted \in 0..MaxRequests /\ MaxRequests \in Nat
      BY <2>1, PanelAssumption DEF IInv, Ids, World
    <3>. QED
      BY <3>1 DEF Sent, Request, Id
  <2>2. \A s \in Service : late[s] \cup Underway(s) \subseteq Request
    BY <2>1 DEF Underway, IInv, World
  <2>. QED
    BY <1>1, <2>2
<1>6. World'
  BY <1>1, <1>2, <1>3, <1>5 DEF IInv, World
<1>7. Ids' /\ SavesBelong'
  BY <1>1, <1>2, <1>3, <1>4 DEF IInv, Ids, Minted, SavesBelong, Saving
<1>8. \A s \in Service : Known'[s] \subseteq Known[s]
  BY <1>1, <1>2, <1>4 DEF Known, Underway
<1>9. Bound'
  BY <1>1, <1>8, BoundStays DEF IInv
<1>10. ASSUME ~mixed' PROVE Unmixed'
  <2>1. Unmixed /\ Told' = Told
    BY <1>1, <1>10 DEF IInv, Told
  <2>2. OneAtATime' /\ Confirmed'
    BY <1>1, <1>2, <1>3, <1>4 DEF OneAtATime, Confirmed
  <2>3. \A s \in Service : Covers(disk[s].pending, Known'[s], Told)
    BY <1>8, <2>1, CoversStays DEF Unmixed, Kept
  <2>4. Kept' /\ Delegations'
    BY <1>1, <1>8, <2>1, <2>3, DelegationsStay DEF Unmixed, Kept
  <2>. QED
    BY <2>2, <2>4 DEF Unmixed
<1>. QED
  BY <1>6, <1>7, <1>9, <1>10 DEF IInv

\* A save that belongs to no submission and has the pending request of the state.
LEMMA SaveAddedKeeps ==
    ASSUME IInv, key # None, Save(state', None), state' \in Saved, form' \in Content,
           state'.pending = state.pending, stale' \in BOOLEAN,
           mixed' = (mixed \/ reload.at = "state"),
           UNCHANGED <<connected, key, enabled, reload, list, sub, broken, disk, late, tasks,
                       minted, seen, forgotten, dropped>>
    PROVE  IInv'
<1>1. World /\ key \in Service /\ mixed' \in BOOLEAN
  BY DEF IInv, World
<1>2. /\ saves' \in Seq(Entry) /\ Len(saves') = Len(saves) + 1 /\ Len(saves) \in Nat
      /\ saves' # <<>>
      /\ \A i \in 1..Len(saves) : saves'[i] = saves[i]
      /\ saves'[Len(saves) + 1] = [key |-> key, value |-> state', by |-> None]
      /\ \A i \in 1..Len(saves') : i \in 1..Len(saves) \/ i = Len(saves) + 1
  BY <1>1, SavePushed
<1>3. SavesBelong'
  BY <1>1, BelongsPushed DEF IInv
<1>4. World'
  <2>1. reload' \in Reloading(Len(saves'))
    BY <1>1, <1>2, ReloadPushed DEF World
  <2>. QED
    BY <1>1, <1>2, <2>1 DEF World
<1>5. Ids'
  <2>1. \A i \in 1..Len(saves') : Minted(saves'[i].value.pending)
    BY <1>2 DEF IInv, Ids
  <2>. QED
    BY <1>1, <2>1 DEF IInv, Ids, Minted
<1>6. Known' = Known /\ Told' = Told /\ Believed' = Believed
  BY DEF Known, Underway, Sent, Told, Believed
<1>7. Bound'
  BY <1>6 DEF IInv, Bound
<1>8. ASSUME ~mixed' PROVE Unmixed'
  <2>1. Unmixed /\ reload.at # "state"
    BY <1>8 DEF IInv
  <2>2. OneAtATime'
    BY <1>2, <2>1 DEF Unmixed, OneAtATime
  <2>3. Confirmed'
    <3>1. ASSUME NEW b \in Submission
          PROVE  /\ sub[b].at = "saving" =>
                       \A i, j \in 1..Len(saves') :
                          saves'[i].by = b /\ i <= j => saves'[j].value.pending = state.pending
                 /\ sub[b].at \in {"saved", "sent", "answered", "refused"} =>
                       \A i \in 1..Len(saves') : saves'[i].value.pending = state.pending
                 /\ sub[b].at = "keeping" =>
                       \A i, j \in 1..Len(saves') :
                          saves'[i].by = b /\ j < i => saves'[j].value.pending = disk[key].pending
      <4>1. b # None /\ saves'[Len(saves) + 1].by # b
            /\ saves'[Len(saves) + 1].value.pending = state.pending
        BY <1>2, PanelAssumption
      <4>2. \A i, j \in 1..Len(saves') :
                saves'[i].by = b => i \in 1..Len(saves) /\ (j < i => j \in 1..Len(saves))
        BY <1>2, <4>1
      <4>. QED
        BY <1>2, <2>1, <4>1, <4>2 DEF Unmixed, Confirmed
    <3>. QED
      BY <2>1, <3>1 DEF Unmixed, Confirmed
  <2>4. Kept'
    <3>1. /\ \A s \in Service : Covers(disk[s].pending, Known[s], Told)
          /\ Covers(state.pending, Known[key], Believed)
          /\ \A i \in 1..Len(saves) : Covers(saves[i].value.pending, Known[key], Believed)
      BY <2>1 DEF Unmixed, Kept
    <3>2. \A i \in 1..Len(saves') : Covers(saves'[i].value.pending, Known[key], Believed)
      BY <1>2, <3>1
    <3>. QED
      BY <1>6, <3>1, <3>2 DEF Kept
  <2>5. Delegations'
    BY <1>6, <2>1 DEF Unmixed, Delegations
  <2>. QED
    BY <2>2, <2>3, <2>4, <2>5 DEF Unmixed
<1>. QED
  BY <1>3, <1>4, <1>5, <1>7, <1>8 DEF IInv

LEMMA EditKeeps == ASSUME IInv, NEW c \in Content, Edit(c) PROVE IInv'
<1>1. /\ key # None /\ state \in Saved /\ state' = [state EXCEPT !.draft = c] /\ stale' = stale
      /\ stale \in BOOLEAN
  BY DEF Edit, IInv, World
<1>2. state' \in Saved /\ state'.pending = state.pending
  BY <1>1, SavedPending
<1>. QED
  BY <1>1, <1>2, SaveAddedKeeps DEF Edit

LEMMA SelectKeeps == ASSUME IInv, Select PROVE IInv'
<1>1. /\ list # None /\ list \in Service /\ key # None /\ state \in Saved /\ form \in Content
      /\ state' = [state EXCEPT !.selected = list] /\ stale' \in BOOLEAN
  BY DEF Select, IInv, World
<1>2. state' \in Saved /\ state'.pending = state.pending
  BY <1>1 DEF Saved
<1>. QED
  BY <1>1, <1>2, SaveAddedKeeps DEF Select

LEMMA RequestForForm ==
    ASSUME IInv, RequestFor(state.pending).id \in Id
    PROVE  LET p == RequestFor(state.pending)
               now == IF p = FreshRequest THEN minted + 1 ELSE minted
           IN  /\ p \in Request /\ p.input = form /\ p.id \in 1..now
               /\ now \in 0..MaxRequests /\ now >= minted /\ minted \in Nat
               /\ p = state.pending \/ p.id = minted + 1
               /\ GivenUp(state.pending) \subseteq 1..minted
               /\ state.pending # None /\ p # state.pending
                     => state.pending.id \in GivenUp(state.pending)
<1>. DEFINE q == state.pending
            p == RequestFor(q)
            now == IF p = FreshRequest THEN minted + 1 ELSE minted
<1>1. /\ MaxRequests \in Nat /\ minted \in 0..MaxRequests /\ form \in Content
      /\ q \in Request \cup {None} /\ (q # None => q.id \in 1..minted)
  BY PanelAssumption, SavedPending DEF IInv, World, Ids, Minted
<1>. HIDE DEF q
<1>2. FreshRequest.id \in Id => FreshRequest \in Request /\ minted + 1 \in 0..MaxRequests
  BY <1>1 DEF FreshRequest, Request, Id
<1>3. FreshRequest.id = minted + 1 /\ FreshRequest.input = form
  BY <1>1 DEF FreshRequest, Request, Id
<1>4. CASE q # None /\ q.input = form
  <2>1. p = q
    BY <1>4 DEF RequestFor
  <2>2. GivenUp(q) = {}
    BY <1>4 DEF GivenUp
  <2>. QED
    BY <1>1, <1>3, <1>4, <2>1, <2>2 DEF q
<1>5. CASE ~(q # None /\ q.input = form)
  <2>1. p = FreshRequest
    BY <1>5 DEF RequestFor
  <2>2. GivenUp(q) = IF q = None THEN {} ELSE {q.id}
    BY <1>5 DEF GivenUp
  <2>3. FreshRequest.id \in Id
    BY <2>1 DEF q
  <2>. QED
    BY <1>1, <1>2, <1>5, <1>3, <2>1, <2>2, <2>3 DEF q
<1>. QED
  BY <1>4, <1>5

LEMMA SubmitKeeps == ASSUME IInv, NEW b \in Submission, Submit(b) PROVE IInv'
<1>. DEFINE p == RequestFor(state.pending)
            x == [Idle EXCEPT !.at = "saving", !.input = form]
<1>1. /\ enabled /\ key # None /\ sub[b].at = "idle" /\ p.id \in Id /\ enabled' = FALSE
      /\ state' = [state EXCEPT !.draft = form, !.pending = p]
      /\ minted' = IF p = FreshRequest THEN minted + 1 ELSE minted
      /\ forgotten' = forgotten \cup GivenUp(state.pending)
      /\ sub' = [sub EXCEPT ![b] = x]
      /\ Save(state', b)
      /\ mixed' = (mixed \/ reload.at = "state")
      /\ UNCHANGED <<connected, key, form, reload, list, broken, disk, late, tasks, used, seen,
                     dropped, stale>>
  BY DEF Submit
<1>2. /\ p \in Request /\ p.input = form /\ p.id \in 1..minted'
      /\ minted' \in 0..MaxRequests /\ minted' >= minted /\ minted \in Nat /\ minted' \in Nat
      /\ p = state.pending \/ p.id = minted + 1
      /\ GivenUp(state.pending) \subseteq 1..minted
      /\ state.pending # None /\ p # state.pending => state.pending.id \in GivenUp(state.pending)
  BY <1>1, RequestForForm, PanelAssumption
<1>3. /\ World /\ key \in Service /\ form \in Content /\ key' = key /\ tasks' = tasks
      /\ disk' = disk
  BY <1>1 DEF IInv, World
<1>. HIDE DEF p
<1>4. state' \in Saved /\ state'.pending = p
  BY <1>1, <1>2, <1>3 DEF World, Saved
<1>5. x \in Sub /\ x.at = "saving" /\ x.input = form
  BY <1>3 DEF Idle, Sub, At
<1>. HIDE DEF x
<1>6. /\ sub' \in [Submission -> Sub] /\ sub'[b] = x
      /\ \A c \in Submission : c # b => sub'[c] = sub[c]
  BY <1>1, <1>3, <1>5, SubBecomes
<1>7. /\ saves' \in Seq(Entry) /\ Len(saves') = Len(saves) + 1 /\ Len(saves) \in Nat
      /\ \A i \in 1..Len(saves) : saves'[i] = saves[i]
      /\ saves'[Len(saves) + 1] = [key |-> key, value |-> state', by |-> b]
      /\ \A i \in 1..Len(saves') : i \in 1..Len(saves) \/ i = Len(saves) + 1
  BY <1>1, <1>3, <1>4, SavePushed
<1>8. SavesBelong'
  BY <1>1, <1>3, <1>4, <1>5, <1>6, BelongsPushed DEF IInv, Saving
<1>9. \A s \in Service : Known'[s] \subseteq Known[s]
  BY <1>1, <1>5, <1>6, KnownStays
<1>10. 1..minted \subseteq 1..minted'
  BY <1>2
<1>11. World'
  <2>1. seen' \subseteq 1..minted' /\ forgotten' \subseteq 1..minted' /\ dropped' \subseteq 1..minted'
    BY <1>1, <1>2, <1>3, <1>10 DEF World
  <2>2. mixed' \in BOOLEAN
    BY <1>1, <1>3 DEF World
  <2>3. reload' \in Reloading(Len(saves'))
    BY <1>1, <1>3, <1>7, ReloadPushed DEF World
  <2>. QED
    BY <1>1, <1>2, <1>3, <1>4, <1>6, <1>7, <2>1, <2>2, <2>3 DEF World
<1>12. Ids'
  <2>1. \A q : Minted(q) => (q # None => q.id \in 1..minted')
    BY <1>10 DEF Minted
  <2>2. \A i \in 1..Len(saves') :
           saves'[i].value.pending # None => saves'[i].value.pending.id \in 1..minted'
    BY <1>2, <1>4, <1>7, <2>1 DEF IInv, Ids
  <2>3. ASSUME NEW c \in Submission
        PROVE  /\ sub'[c].at # "idle" => key # None /\ sub'[c].input \in Content
               /\ sub'[c].at \in {"sent", "answered", "keeping"} =>
                     sub'[c].id \in 1..minted' /\ sub'[c].to \in Service
    BY <1>1, <1>3, <1>5, <1>6, <1>10 DEF IInv, Ids
  <2>4. \A s \in Service : disk[s].pending # None => disk[s].pending.id \in 1..minted'
    BY <2>1 DEF IInv, Ids
  <2>5. Minted(state.pending)' /\ (\A s \in Service : Minted(disk[s].pending))'
    BY <1>2, <1>3, <1>4, <2>4 DEF Minted
  <2>6. (\A i \in 1..Len(saves) : Minted(saves[i].value.pending))'
    BY <2>2 DEF Minted
  <2>7. (\A c \in Submission :
            /\ sub[c].at # "idle" => key # None /\ sub[c].input \in Content
            /\ sub[c].at \in {"sent", "answered", "keeping"} =>
                  sub[c].id \in 1..minted /\ sub[c].to \in Service)'
    BY <1>3, <2>3
  <2>. QED
    BY <2>5, <2>6, <2>7 DEF Ids
<1>13. Bound'
  BY <1>3, <1>9, <1>10, BoundStays DEF IInv
<1>14. ASSUME ~mixed' PROVE Unmixed'
  <2>1. Unmixed /\ reload.at # "state" /\ reload'.at # "state"
    BY <1>1, <1>14 DEF IInv
  <2>2. \A c \in Submission : sub[c].at = "idle"
    BY <1>1, <2>1 DEF Unmixed, OneAtATime
  <2>3. /\ Told \subseteq Told' /\ Believed \subseteq Told' /\ Told' \subseteq Believed'
        /\ GivenUp(state.pending) \subseteq Told'
    BY <1>1, <2>2 DEF Told, Believed
  <2>4. OneAtATime'
    BY <1>1, <1>5, <1>6, <1>7, <2>1, <2>2 DEF Unmixed, OneAtATime
  <2>5. Confirmed'
    <3>1. \A i \in 1..Len(saves) : saves[i].by # b
      BY <1>3, <2>2, PanelAssumption DEF IInv, SavesBelong, Saving
    <3>2. \A i, j \in 1..Len(saves') : saves'[i].by = b /\ i <= j => saves'[j].value.pending = p
      BY <1>4, <1>7, <3>1
    <3>. QED
      BY <1>2, <1>4, <1>5, <1>6, <2>2, <3>2 DEF Confirmed
  <2>6. Covers(p, Known'[key], Believed')
    <3>1. ASSUME NEW t \in Known'[key]
          PROVE  t # None /\ (t.id \notin Told' => p = t) /\ (p # None => t.id <= p.id)
      <4>1. /\ t # None /\ (t.id \notin Believed => state.pending = t)
            /\ state.pending # None => t.id <= state.pending.id
            /\ t.id \in 1..minted
        BY <1>1, <1>3, <1>9, <2>1 DEF Unmixed, Kept, Covers, IInv, Bound
      <4>2. t.id \notin Told' => p = t
        BY <1>2, <2>3, <4>1
      <4>. QED
        BY <1>2, <4>1, <4>2
    <3>. QED
      BY <2>3, <3>1 DEF Covers
  <2>7. Kept'
    <3>1. \A s \in Service : Covers(disk[s].pending, Known'[s], Told')
      BY <1>9, <2>1, <2>3, CoversStays DEF Unmixed, Kept
    <3>2. \A i \in 1..Len(saves) : Covers(saves[i].value.pending, Known'[key], Believed')
      <4>1. Believed \subseteq Believed'
        BY <2>3
      <4>. QED
        BY <1>1, <1>3, <1>9, <2>1, <4>1, CoversStays DEF Unmixed, Kept
    <3>3. \A i \in 1..Len(saves') : Covers(saves'[i].value.pending, Known'[key], Believed')
      BY <1>4, <1>7, <2>6, <3>2
    <3>. QED
      BY <1>3, <1>4, <2>6, <3>1, <3>3 DEF Kept
  <2>8. Delegations'
    BY <1>9, <2>1, <2>3, DelegationsStay DEF Unmixed
  <2>. QED
    BY <2>4, <2>5, <2>7, <2>8 DEF Unmixed
<1>. QED
  BY <1>8, <1>11, <1>12, <1>13, <1>14 DEF IInv

-----------------------------------------------------------------------------
(* A submission that ends, goes out, or is answered.                       *)

\* A submission that ends without a save of its own frees the form.
LEMMA FailsKeeps ==
    ASSUME IInv, NEW b \in Submission, sub[b].at # "idle", ~Saving(b), Fails(b),
           UNCHANGED <<connected, key, state, form, reload, list, saves, broken, disk, tasks,
                       counted>>,
           late' \in [Service -> SUBSET Request], \A s \in Service : Known'[s] \subseteq Known[s]
    PROVE  IInv'
<1>1. Idle \in Sub /\ Idle.at = "idle"
  BY DEF Idle, Sub, At
<1>2. World /\ key # None /\ sub' = [sub EXCEPT ![b] = Idle] /\ enabled' = TRUE
      /\ UNCHANGED <<minted, seen, forgotten, dropped, mixed, stale>>
  BY DEF IInv, Ids, Fails, counted
<1>3. /\ sub' \in [Submission -> Sub] /\ sub'[b] = Idle
      /\ \A c \in Submission \ {b} : sub'[c] = sub[c]
  BY <1>1, <1>2, SubBecomes
<1>4. World'
  BY <1>2, <1>3 DEF World
<1>5. Ids' /\ Bound'
  BY <1>1, <1>2, <1>3, BoundStays DEF IInv, Ids, Minted
<1>6. SavesBelong'
  <2>1. \A i \in 1..Len(saves) : saves[i].by # None =>
            saves[i].by \in Submission \ {b} /\ Saving(saves[i].by)
    BY <1>2, SavesAre DEF IInv, SavesBelong
  <2>2. \A i \in 1..Len(saves) : saves[i].by # None =>
            sub'[saves[i].by].at \in {"saving", "keeping"}
    BY <1>3, <2>1 DEF Saving
  <2>3. \A c \in Submission : sub'[c].at \in {"saving", "keeping"} =>
            \E i \in 1..Len(saves) : saves[i].by = c
    BY <1>1, <1>3 DEF IInv, SavesBelong, Saving
  <2>. QED
    BY <2>2, <2>3 DEF IInv, SavesBelong, Saving
<1>7. ASSUME ~mixed' PROVE Unmixed'
  <2>1. Unmixed /\ Told' = Told
    BY <1>2, <1>7 DEF IInv, Told
  <2>2. \A c \in Submission : sub'[c].at = "idle"
    BY <1>1, <1>3, <2>1 DEF Unmixed, OneAtATime
  <2>3. OneAtATime' /\ Confirmed'
    BY <2>1, <2>2 DEF Unmixed, OneAtATime, Confirmed
  <2>4. Believed \subseteq Believed'
    BY <1>3, <2>1, BelievedStays DEF Saving
  <2>5. Kept' /\ Delegations'
    BY <1>2, <2>1, <2>4, KeptStays, DelegationsStay DEF Unmixed, World
  <2>. QED
    BY <2>3, <2>5 DEF Unmixed
<1>. QED
  BY <1>4, <1>5, <1>6, <1>7 DEF IInv

\* A request that a submission sent.
LEMMA SentIs ==
    ASSUME IInv, NEW b \in Submission, sub[b].at = "sent"
    PROVE  /\ sub[b].to \in Service /\ Sent(b) \in Request /\ Sent(b) \in Known[sub[b].to]
           /\ \A s \in Service : sub[b].to = s => Sent(b) \in Underway(s)
<1>1. /\ sub[b].id \in 1..minted /\ sub[b].input \in Content /\ sub[b].to \in Service
      /\ minted \in 0..MaxRequests /\ MaxRequests \in Nat
  BY PanelAssumption DEF IInv, Ids, World
<1>2. Sent(b) \in Request
  BY <1>1 DEF Sent, Request, Id
<1>3. \A s \in Service : sub[b].to = s => Sent(b) \in Underway(s)
  BY DEF Underway
<1>. QED
  BY <1>1, <1>2, <1>3 DEF Known

LEMMA AnswerLostKeeps == ASSUME IInv, NEW b \in Submission, AnswerLost(b) PROVE IInv'
<1>1. sub[b].at # "idle" /\ ~Saving(b) /\ Fails(b) /\ tasks' = tasks
      /\ late' = IF sub[b].at = "sent"
                 THEN [late EXCEPT ![sub[b].to] = @ \cup {Sent(b)}] ELSE late
  BY DEF AnswerLost, Saving
<1>2. late \in [Service -> SUBSET Request] /\ sub \in [Submission -> Sub]
  BY DEF IInv, World
<1>3. Idle \in Sub /\ Idle.at = "idle"
  BY DEF Idle, Sub, At
<1>4. /\ sub'[b] = Idle
      /\ \A c \in Submission \ {b} : sub'[c] = sub[c]
  BY <1>1, <1>2 DEF Fails
<1>5. late' \in [Service -> SUBSET Request]
      /\ \A s \in Service : late'[s] \subseteq late[s] \cup Underway(s)
  BY <1>1, <1>2, SentIs
<1>6. \A s \in Service : Known'[s] \subseteq Known[s]
  BY <1>1, <1>3, <1>4, <1>5 DEF Known, Underway, Sent
<1>. QED
  BY <1>1, <1>5, <1>6, FailsKeeps DEF AnswerLost

LEMMA EndsKeeps == ASSUME IInv, NEW b \in Submission, Ends(b) PROVE IInv'
<1>1. sub[b].at # "idle" /\ ~Saving(b) /\ Fails(b)
      /\ UNCHANGED <<late, tasks>> /\ late' \in [Service -> SUBSET Request]
  BY DEF Ends, Saving, IInv, World
<1>2. \A c \in Submission : sub'[c].at = "sent" => sub'[c] = sub[c]
  BY <1>1 DEF Fails, Idle, IInv, World
<1>. QED
  BY <1>1, <1>2, KnownStays, FailsKeeps DEF Ends

\* A submission that goes on, neither from a save nor into one.
LEMMA GoesOn ==
    ASSUME IInv, NEW b \in Submission, sub[b].at \in {"saved", "sent"},
           sub' \in [Submission -> Sub], sub'[b].at \in {"sent", "answered", "refused"},
           sub'[b].input = sub[b].input,
           sub'[b].id \in 1..minted, sub'[b].to \in Service,
           \A c \in Submission \ {b} : sub'[c] = sub[c],
           UNCHANGED <<connected, page, saves, broken, disk, counted>>,
           late' = late, tasks' \in [Service -> SUBSET Request]
    PROVE  /\ World' /\ Ids' /\ SavesBelong' /\ Told' = Told /\ Believed' = Believed
           /\ ~mixed /\ sub'[b].to = key /\ sub'[b].id = state.pending.id
                => OneAtATime' /\ Confirmed'
<1>1. World /\ UNCHANGED <<minted, seen, forgotten, dropped, mixed, stale>>
      /\ UNCHANGED <<key, state, form, enabled, reload, list>>
  BY DEF IInv, counted, page
<1>2. World'
  BY <1>1 DEF World
<1>3. Ids'
  <2>1. key # None /\ sub[b].input \in Content
    BY DEF IInv, Ids
  <2>2. (\A c \in Submission :
            /\ sub[c].at # "idle" => key # None /\ sub[c].input \in Content
            /\ sub[c].at \in {"sent", "answered", "keeping"} =>
                  sub[c].id \in 1..minted /\ sub[c].to \in Service)'
    BY <1>1, <2>1 DEF IInv, Ids
  <2>3. /\ Minted(state.pending)'
        /\ (\A s \in Service : Minted(disk[s].pending))'
        /\ (\A i \in 1..Len(saves) : Minted(saves[i].value.pending))'
    BY <1>1 DEF IInv, Ids, Minted
  <2>. QED
    BY <2>2, <2>3 DEF Ids
<1>4. SavesBelong'
  <2>1. \A i \in 1..Len(saves) : saves[i].by # None =>
            saves[i].by \in Submission \ {b} /\ Saving(saves[i].by)
    BY <1>1, SavesAre DEF IInv, SavesBelong, Saving
  <2>2. \A i \in 1..Len(saves) : saves[i].by # None =>
            sub'[saves[i].by].at \in {"saving", "keeping"}
    BY <2>1 DEF Saving
  <2>3. \A c \in Submission : sub'[c].at \in {"saving", "keeping"} =>
            \E i \in 1..Len(saves) : saves[i].by = c
    BY DEF IInv, SavesBelong, Saving
  <2>. QED
    BY <2>2, <2>3 DEF IInv, SavesBelong, Saving
<1>5. Told' = Told /\ Believed' = Believed
  <2>1. Told' = Told
    BY <1>1 DEF Told
  <2>2. \A c \in Submission : /\ sub'[c].at = "keeping" <=> sub[c].at = "keeping"
                              /\ sub[c].at = "keeping" => sub'[c].id = sub[c].id
    OBVIOUS
  <2>. QED
    BY <2>1, <2>2 DEF Believed
<1>6. ASSUME ~mixed, sub'[b].to = key, sub'[b].id = state.pending.id
      PROVE  OneAtATime' /\ Confirmed'
  <2>1. OneAtATime /\ Confirmed
    BY <1>6 DEF IInv, Unmixed
  <2>2. \A c \in Submission \ {b} : sub[c].at = "idle" /\ sub'[c].at = "idle"
    BY <2>1 DEF OneAtATime
  <2>3. ~enabled /\ reload.at # "state"
    BY <2>1 DEF OneAtATime
  <2>4. OneAtATime'
    BY <1>1, <2>1, <2>2, <2>3 DEF OneAtATime
  <2>5. /\ state.pending \in Request /\ state.pending.input = sub[b].input
        /\ disk[key].pending = state.pending
        /\ \A i \in 1..Len(saves) : saves[i].value.pending = state.pending
    BY <2>1 DEF Confirmed
  <2>6. Confirmed'
    BY <1>1, <1>6, <2>2, <2>5 DEF Confirmed
  <2>. QED
    BY <2>4, <2>6
<1>. QED
  BY <1>2, <1>3, <1>4, <1>5, <1>6

LEMMA SendKeeps == ASSUME IInv, NEW b \in Submission, Send(b) PROVE IInv'
<1>1. sub[b].at = "saved" /\ sub[b].at # "idle" /\ ~Saving(b)
  BY DEF Send, SubmitSaved, Saving
<1>2. CASE Fails(b)
  <2>1. UNCHANGED <<late, tasks>> /\ late' \in [Service -> SUBSET Request]
    BY DEF Send, IInv, World
  <2>2. \A c \in Submission : sub'[c].at = "sent" => sub'[c] = sub[c]
    BY <1>2 DEF Fails, Idle, IInv, World
  <2>. QED
    BY <1>1, <1>2, <2>1, <2>2, KnownStays, FailsKeeps DEF Send
<1>3. CASE ~Fails(b)
  <2>. DEFINE x == [at |-> "sent", input |-> sub[b].input, id |-> state.pending.id, to |-> key]
  <2>1. /\ state.pending # None
        /\ sub' = [sub EXCEPT ![b].at = "sent", ![b].id = state.pending.id, ![b].to = key]
        /\ UNCHANGED <<connected, page, saves, broken, disk, late, tasks, counted>>
    BY <1>3 DEF Send, page
  <2>2. /\ World /\ key \in Service /\ sub[b] \in Sub
        /\ state.pending.id \in 1..minted /\ state.pending.id \in Id
    BY <1>1, <2>1, SavedPending DEF IInv, World, Ids, Minted, Request
  <2>3. x \in Sub
    BY <2>2 DEF Sub, At
  <2>4. sub' = [sub EXCEPT ![b] = x]
    <3>. DEFINE y1 == [sub[b] EXCEPT !.at = "sent"]
                y2 == [y1 EXCEPT !.id = state.pending.id]
                y3 == [y2 EXCEPT !.to = key]
    <3>1. sub' = [sub EXCEPT ![b] = y3]
      BY <2>1, <2>2, Zenon DEF World
    <3>2. ASSUME NEW z \in Sub, NEW i \in Id, NEW k \in Service
          PROVE  /\ [z EXCEPT !.at = "sent"]
                       = [at |-> "sent", input |-> z.input, id |-> z.id, to |-> z.to]
                 /\ [z EXCEPT !.id = i] = [at |-> z.at, input |-> z.input, id |-> i, to |-> z.to]
                 /\ [z EXCEPT !.to = k] = [at |-> z.at, input |-> z.input, id |-> z.id, to |-> k]
      BY DEF Sub, At
    <3>3. /\ y1 = [at |-> "sent", input |-> sub[b].input, id |-> sub[b].id, to |-> sub[b].to]
          /\ y1 \in Sub
      BY <2>2, <3>2 DEF Sub, At
    <3>. HIDE DEF y1
    <3>4. /\ y2 = [at |-> "sent", input |-> sub[b].input, id |-> state.pending.id, to |-> sub[b].to]
          /\ y2 \in Sub
      BY <2>2, <3>2, <3>3 DEF Sub, At
    <3>. HIDE DEF y2
    <3>5. y3 = x
      BY <2>2, <3>2, <3>4
    <3>. HIDE DEF x, y3
    <3>. QED
      BY <3>1, <3>5
  <2>5. /\ x.at = "sent" /\ x.input = sub[b].input /\ x.id = state.pending.id /\ x.to = key
    OBVIOUS
  <2>. HIDE DEF x
  <2>6. /\ sub' \in [Submission -> Sub] /\ sub'[b] = x
        /\ \A c \in Submission \ {b} : sub'[c] = sub[c]
    BY <2>2, <2>3, <2>4, SubBecomes
  <2>7. /\ World' /\ Ids' /\ SavesBelong' /\ Told' = Told /\ Believed' = Believed
        /\ ~mixed => OneAtATime' /\ Confirmed'
    BY <1>1, <2>1, <2>2, <2>5, <2>6, GoesOn DEF World
  <2>8. UNCHANGED <<key, state, disk, saves, tasks, late, reload, minted, mixed>>
    BY <2>1 DEF page, counted
  <2>9. /\ \A s \in Service \ {key} : Known'[s] \subseteq Known[s]
        /\ \A t \in Known'[key] : t \in Known[key] \/ t = [id |-> x.id, input |-> x.input]
    <3>1. \A c \in Submission : sub'[c].at = "sent" => sub'[c] = sub[c] \/ c = b
      BY <2>6
    <3>2. \A s \in Service, c \in Submission : sub'[c].at = "sent" /\ sub'[c].to = s =>
              \/ sub[c].at = "sent" /\ sub[c].to = s /\ sub'[c] = sub[c]
              \/ c = b /\ s = key
      BY <2>5, <2>6, <3>1
    <3>. QED
      BY <2>2, <2>6, <2>8, <3>2 DEF Known, Underway, Sent
  <2>10. Bound'
    <3>1. \A t \in Known'[key] : t.id \in 1..minted
      BY <2>2, <2>5, <2>9 DEF IInv, Bound
    <3>2. \A s \in Service : \A t \in Known'[s] : t.id \in 1..minted
      BY <2>2, <2>9, <3>1 DEF IInv, Bound
    <3>. QED
      BY <2>8, <3>2 DEF IInv, Bound
  <2>11. ASSUME ~mixed' PROVE Unmixed'
    <3>. DEFINE r == [id |-> x.id, input |-> x.input]
    <3>1. Unmixed /\ ~mixed
      BY <2>8, <2>11 DEF IInv
    <3>2. /\ state.pending \in Request /\ state.pending.input = sub[b].input
          /\ disk[key].pending = state.pending
          /\ \A i \in 1..Len(saves) : saves[i].value.pending = state.pending
          /\ reload.at # "state"
      BY <1>1, <3>1 DEF Unmixed, Confirmed, OneAtATime
    <3>3. r = state.pending /\ r # None
      BY <2>1, <2>5, <3>2 DEF Request
    <3>. HIDE DEF r
    <3>4. Covers(r, Known[key], Told)
      BY <2>2, <3>1, <3>2, <3>3 DEF Unmixed, Kept
    <3>5. \A t \in Known'[key] : t \in Known[key] \/ t = r
      BY <2>9 DEF r
    <3>6. r.id \in Nat /\ r.id <= r.id
      BY <2>2, <3>3 DEF Id
    <3>7. Covers(r, Known'[key], Told) /\ Covers(r, Known'[key], Believed)
      <4>1. Covers(r, Known'[key], Told)
        BY <3>3, <3>4, <3>5, <3>6 DEF Covers
      <4>. QED
        BY <4>1 DEF Covers, Believed
    <3>8. \A s \in Service : Covers(disk[s].pending, Known'[s], Told)
      <4>1. ASSUME NEW s \in Service PROVE Covers(disk[s].pending, Known'[s], Told)
        <5>1. CASE s = key
          BY <3>2, <3>3, <3>7, <5>1
        <5>2. CASE s # key
          BY <2>9, <3>1, <5>2, CoversStays DEF Unmixed, Kept
        <5>. QED
          BY <5>1, <5>2
      <4>. QED
        BY <4>1
    <3>9. Kept'
      BY <2>7, <2>8, <3>2, <3>3, <3>7, <3>8 DEF Kept
    <3>10. ASSUME NEW s \in Service, NEW t \in Known'[s], NEW u \in Known'[s],
                  t.input = u.input, t.id < u.id
           PROVE  t.id \in Told
      <4>1. CASE t \in Known[s] /\ u \in Known[s]
        BY <3>1, <3>10, <4>1 DEF Unmixed, Delegations
      <4>2. CASE ~(t \in Known[s] /\ u \in Known[s])
        <5>1. s = key
          BY <2>9, <4>2
        <5>2. u.id <= r.id /\ (t.id \notin Told => t = r)
          BY <3>3, <3>7, <5>1 DEF Covers
        <5>3. t.id \in Nat /\ u.id \in Nat
          BY <2>8, <2>10 DEF Bound
        <5>. QED
          BY <3>6, <3>10, <5>2, <5>3
      <4>. QED
        BY <4>1, <4>2
    <3>11. Delegations'
      BY <2>7, <3>10 DEF Delegations
    <3>. QED
      BY <2>7, <3>1, <3>9, <3>11 DEF Unmixed
  <2>. QED
    BY <2>7, <2>10, <2>11 DEF IInv
<1>. QED
  BY <1>2, <1>3

\* createTask: one task more or none, and none of an id that is bound.
LEMMA CreatedDoes ==
    ASSUME IInv, NEW s \in Service, NEW r \in Known[s], r \in Request, Created(s, r)
    PROVE  /\ tasks' \in [Service -> SUBSET Request]
           /\ \A z \in Service : tasks'[z] \subseteq tasks[z] \cup (IF z = s THEN {r} ELSE {})
           /\ \A z \in Service : \A t, u \in tasks'[z] : t.id = u.id => t = u
<1>1. tasks \in [Service -> SUBSET Request]
      /\ \A z \in Service : \A t, u \in tasks[z] : t.id = u.id => t = u
  BY DEF IInv, World, Bound
<1>2. CASE BoundElsewhere(s, r)
  BY <1>1, <1>2 DEF Created
<1>3. CASE ~BoundElsewhere(s, r)
  <2>1. tasks' = [tasks EXCEPT ![s] = @ \cup {r}]
    BY <1>3 DEF Created
  <2>2. \A t \in tasks[s] : t.id = r.id => t = r
    BY <1>3 DEF BoundElsewhere
  <2>. QED
    BY <1>1, <2>1, <2>2
<1>. QED
  BY <1>2, <1>3

\* A request that arrives makes the service know of no more than it was sent.
LEMMA ArrivalKeeps ==
    ASSUME IInv, World', Ids', SavesBelong', ~mixed => OneAtATime' /\ Confirmed',
           UNCHANGED <<key, state, reload, saves, disk, minted, mixed>>,
           Told' = Told, Believed' = Believed,
           \A s \in Service : Known'[s] \subseteq Known[s],
           \A z \in Service : \A t, u \in tasks'[z] : t.id = u.id => t = u
    PROVE  IInv'
<1>1. Bound'
  BY DEF IInv, Bound
<1>2. ASSUME ~mixed' PROVE Unmixed'
  <2>1. Unmixed
    BY <1>2 DEF IInv
  <2>2. Kept' /\ Delegations'
    BY <2>1, KeptStays, DelegationsStay DEF Unmixed, IInv, World
  <2>. QED
    BY <1>2, <2>2 DEF Unmixed
<1>. QED
  BY <1>1, <1>2 DEF IInv

LEMMA CreateTaskKeeps == ASSUME IInv, NEW b \in Submission, CreateTask(b) PROVE IInv'
<1>. DEFINE a == IF BoundElsewhere(sub[b].to, Sent(b)) THEN "refused" ELSE "answered"
<1>1. /\ sub[b].at = "sent" /\ sub' = [sub EXCEPT ![b].at = a]
      /\ Created(sub[b].to, Sent(b)) /\ late' = late
      /\ UNCHANGED <<connected, page, saves, broken, disk, counted>>
      /\ UNCHANGED <<key, state, reload, minted, mixed>>
  BY DEF CreateTask, counted, page
<1>2. a \in {"refused", "answered"} /\ a \in At
  BY DEF At
<1>. HIDE DEF a
<1>3. World /\ sub[b].to \in Service /\ sub[b].id \in 1..minted
      /\ Sent(b) \in Request /\ Sent(b) \in Known[sub[b].to]
      /\ \A s \in Service : sub[b].to = s => Sent(b) \in Underway(s)
  BY <1>1, SentIs DEF IInv, Ids
<1>4. /\ sub' \in [Submission -> Sub]
      /\ sub'[b].at = a /\ sub'[b].input = sub[b].input
      /\ sub'[b].id = sub[b].id /\ sub'[b].to = sub[b].to
      /\ \A c \in Submission \ {b} : sub'[c] = sub[c]
  BY <1>1, <1>2, <1>3, SubMoves
<1>5. /\ tasks' \in [Service -> SUBSET Request]
      /\ \A z \in Service : tasks'[z] \subseteq tasks[z] \cup Underway(z)
      /\ \A z \in Service : \A t, u \in tasks'[z] : t.id = u.id => t = u
  BY <1>1, <1>3, CreatedDoes
<1>6. ~mixed => sub[b].to = key /\ sub[b].id = state.pending.id
  BY <1>1 DEF IInv, Unmixed, Confirmed
<1>7. /\ World' /\ Ids' /\ SavesBelong' /\ Told' = Told /\ Believed' = Believed
      /\ ~mixed => OneAtATime' /\ Confirmed'
  BY <1>1, <1>2, <1>3, <1>4, <1>5, <1>6, GoesOn
<1>8. \A s \in Service : Known'[s] \subseteq Known[s]
  <2>1. \A c \in Submission : sub'[c].at = "sent" => sub'[c] = sub[c]
    BY <1>2, <1>4
  <2>. QED
    BY <1>1, <1>5, <2>1 DEF Known, Underway, Sent
<1>. QED
  BY <1>1, <1>5, <1>7, <1>8, ArrivalKeeps

LEMMA ArrivesLateKeeps ==
    ASSUME IInv, NEW s \in Service, NEW r \in late[s], ArrivesLate(s, r) PROVE IInv'
<1>1. /\ late' = [late EXCEPT ![s] = @ \ {r}] /\ Created(s, r)
      /\ UNCHANGED <<connected, key, state, form, enabled, reload, list, sub, saves, broken,
                     disk, minted, seen, forgotten, dropped, mixed, stale>>
  BY DEF ArrivesLate, counted, page
<1>2. World /\ late \in [Service -> SUBSET Request] /\ r \in Request /\ r \in Known[s]
  BY DEF IInv, World, Known
<1>3. /\ tasks' \in [Service -> SUBSET Request]
      /\ \A z \in Service : tasks'[z] \subseteq tasks[z] \cup late[z]
      /\ \A z \in Service : \A t, u \in tasks'[z] : t.id = u.id => t = u
  BY <1>1, <1>2, CreatedDoes
<1>4. late' \in [Service -> SUBSET Request] /\ \A z \in Service : late'[z] \subseteq late[z]
  BY <1>1, <1>2
<1>5. World' /\ Ids' /\ SavesBelong'
  BY <1>1, <1>2, <1>3, <1>4 DEF IInv, World, Ids, Minted, SavesBelong, Saving
<1>6. Told' = Told /\ Believed' = Believed /\ \A z \in Service : Known'[z] \subseteq Known[z]
  BY <1>1, <1>3, <1>4 DEF Told, Believed, Known, Underway, Sent
<1>7. ~mixed => OneAtATime' /\ Confirmed'
  BY <1>1 DEF IInv, Unmixed, OneAtATime, Confirmed
<1>. QED
  BY <1>1, <1>3, <1>5, <1>6, <1>7, ArrivalKeeps

\* The answer: the page takes the request to be told of.
LEMMA AnswerKeeps == ASSUME IInv, NEW b \in Submission, Answer(b) PROVE IInv'
<1>1. /\ sub[b].at = "answered"
      /\ state' = [state EXCEPT !.selected = sub[b].to, !.pending = None]
      /\ Save(state', b)
      /\ sub' = [sub EXCEPT ![b].at = "keeping"]
      /\ UNCHANGED <<connected, key, form, enabled, reload, list, broken, disk, late, tasks,
                     minted, seen, forgotten, dropped, mixed, stale>>
  BY DEF Answer, counted
<1>2. /\ World /\ key \in Service /\ sub[b].id \in 1..minted /\ sub[b].to \in Service
      /\ sub[b].input \in Content
  BY <1>1 DEF IInv, World, Ids
<1>3. state' \in Saved /\ state'.pending = None
  BY <1>1, <1>2 DEF World, Saved
<1>4. /\ sub' \in [Submission -> Sub]
      /\ sub'[b].at = "keeping" /\ sub'[b].input = sub[b].input
      /\ sub'[b].id = sub[b].id /\ sub'[b].to = sub[b].to
      /\ \A c \in Submission \ {b} : sub'[c] = sub[c]
  BY <1>1, <1>2, SubMoves DEF At
<1>5. /\ saves' \in Seq(Entry) /\ Len(saves') = Len(saves) + 1 /\ Len(saves) \in Nat
      /\ saves' # <<>>
      /\ \A i \in 1..Len(saves) : saves'[i] = saves[i]
      /\ saves'[Len(saves) + 1] = [key |-> key, value |-> state', by |-> b]
      /\ \A i \in 1..Len(saves') : i \in 1..Len(saves) \/ i = Len(saves) + 1
  BY <1>1, <1>2, <1>3, SavePushed
<1>6. SavesBelong'
  BY <1>1, <1>2, <1>3, <1>4, BelongsPushed DEF IInv, Saving
<1>7. World'
  <2>1. reload' \in Reloading(Len(saves'))
    BY <1>1, <1>2, <1>5, ReloadPushed DEF World
  <2>. QED
    BY <1>1, <1>2, <1>3, <1>4, <1>5, <2>1 DEF World
<1>8. Ids'
  <2>1. (\A c \in Submission :
            /\ sub[c].at # "idle" => key # None /\ sub[c].input \in Content
            /\ sub[c].at \in {"sent", "answered", "keeping"} =>
                  sub[c].id \in 1..minted /\ sub[c].to \in Service)'
    BY <1>1, <1>2, <1>4 DEF IInv, Ids
  <2>2. Minted(state.pending)' /\ (\A s \in Service : Minted(disk[s].pending))'
    BY <1>1, <1>3 DEF IInv, Ids, Minted
  <2>3. \A i \in 1..Len(saves') : Minted(saves'[i].value.pending)
    BY <1>3, <1>5 DEF IInv, Ids, Minted
  <2>4. (\A i \in 1..Len(saves) : Minted(saves[i].value.pending))'
    BY <1>1, <2>3 DEF Minted
  <2>. QED
    BY <2>1, <2>2, <2>4 DEF Ids
<1>9. \A s \in Service : Known'[s] \subseteq Known[s]
  BY <1>1, <1>4, KnownStays
<1>10. Bound'
  BY <1>1, <1>9, BoundStays DEF IInv
<1>11. ASSUME ~mixed' PROVE Unmixed'
  <2>1. Unmixed /\ ~mixed
    BY <1>1, <1>11 DEF IInv
  <2>2. /\ Told' = Told /\ Believed \subseteq Believed' /\ sub[b].id \in Believed'
        /\ Told \subseteq Believed
    <3>1. Told' = Told /\ Told \subseteq Believed
      BY <1>1 DEF Told, Believed
    <3>2. \A c \in Submission : sub[c].at = "keeping" => sub'[c] = sub[c]
      BY <1>1, <1>4
    <3>3. sub[b].id \in Believed'
      BY <1>4 DEF Believed
    <3>. QED
      BY <3>1, <3>2, <3>3, BelievedStays
  <2>3. /\ ~enabled /\ reload.at # "state" /\ \A c \in Submission \ {b} : sub[c].at = "idle"
    BY <1>1, <2>1 DEF Unmixed, OneAtATime
  <2>4. /\ sub[b].id = state.pending.id /\ disk[key].pending = state.pending
        /\ \A i \in 1..Len(saves) : saves[i].value.pending = state.pending
    BY <1>1, <2>1 DEF Unmixed, Confirmed
  <2>5. OneAtATime'
    BY <1>1, <1>4, <1>5, <2>1, <2>3 DEF Unmixed, OneAtATime
  <2>6. Confirmed'
    <3>1. \A j \in 1..Len(saves') : j < Len(saves) + 1 => j \in 1..Len(saves)
      BY <1>5
    <3>2. \A i \in 1..Len(saves) : saves[i].by # b
      BY <1>1, <1>2, PanelAssumption DEF IInv, SavesBelong, Saving
    <3>3. \A i, j \in 1..Len(saves') :
              saves'[i].by = b /\ j < i => saves'[j].value.pending = disk[key].pending
      BY <1>5, <2>4, <3>1, <3>2
    <3>. QED
      BY <1>1, <1>4, <2>3, <3>3 DEF Confirmed
  <2>7. Covers(None, Known'[key], Believed')
    <3>1. Covers(state.pending, Known[key], Believed)
      BY <1>2, <2>1, <2>3, PanelAssumption DEF Unmixed, Kept
    <3>2. \A t \in Known'[key] : t \in Known[key]
      BY <1>2, <1>9
    <3>. QED
      BY <2>2, <2>4, <3>1, <3>2 DEF Covers
  <2>8. Kept'
    <3>1. \A s \in Service : Covers(disk[s].pending, Known'[s], Told')
      BY <1>9, <2>1, <2>2, CoversStays DEF Unmixed, Kept
    <3>2. \A i \in 1..Len(saves) : Covers(saves[i].value.pending, Known'[key], Believed')
      BY <1>2, <1>9, <2>1, <2>2, <2>3, PanelAssumption, CoversStays DEF Unmixed, Kept
    <3>3. \A i \in 1..Len(saves') : Covers(saves'[i].value.pending, Known'[key], Believed')
      BY <1>3, <1>5, <2>7, <3>2
    <3>. QED
      BY <1>1, <1>3, <2>7, <3>1, <3>3 DEF Kept
  <2>9. Delegations'
    BY <1>9, <2>1, <2>2, DelegationsStay DEF Unmixed
  <2>. QED
    BY <2>5, <2>6, <2>8, <2>9 DEF Unmixed
<1>. QED
  BY <1>6, <1>7, <1>8, <1>10, <1>11 DEF IInv

-----------------------------------------------------------------------------
(* A save that is over.                                                    *)

\* What becomes of the submission whose save it was.
LEMMA ResumesDoes ==
    ASSUME World, NEW ok \in BOOLEAN, NEW e \in Submission \cup {None},
           e # None => Saving(e), Resumes(e, ok)
    PROVE  /\ sub' \in [Submission -> Sub]
           /\ \A c \in Submission : c # e => sub'[c] = sub[c]
           /\ e = None => enabled' = enabled
           /\ e # None =>
                 \/ /\ ok /\ enabled' = enabled /\ sub'[e].input = sub[e].input
                    /\ \/ sub[e].at = "saving" /\ sub'[e].at = "saved"
                       \/ sub[e].at = "keeping" /\ sub'[e].at = "listing"
                 \/ sub'[e] = Idle /\ sub'[e].at = "idle" /\ enabled' = TRUE
           /\ LET now == IF Keeping(e) THEN {sub[e].id} ELSE {} IN
              /\ Told' = (IF forgotten' = forgotten THEN Told \cup now ELSE Told')
              /\ seen' \subseteq seen \cup now /\ dropped' \subseteq dropped \cup now
<1>1. Idle \in Sub /\ Idle.at = "idle" /\ "saved" \in At /\ "listing" \in At
  BY DEF Idle, Sub, At
<1>2. /\ seen' = IF Keeping(e) /\ ok THEN seen \cup {sub[e].id} ELSE seen
      /\ dropped' = IF Keeping(e) /\ ~ok THEN dropped \cup {sub[e].id} ELSE dropped
  BY DEF Resumes
<1>3. LET now == IF Keeping(e) THEN {sub[e].id} ELSE {} IN
      /\ Told' = (IF forgotten' = forgotten THEN Told \cup now ELSE Told')
      /\ seen' \subseteq seen \cup now /\ dropped' \subseteq dropped \cup now
  BY <1>2 DEF Told
<1>4. CASE e = None
  BY <1>3, <1>4 DEF Resumes, World
<1>5. CASE e # None /\ ok
  <2>. DEFINE a == IF Keeping(e) THEN "listing" ELSE "saved"
  <2>1. sub' = [sub EXCEPT ![e].at = a] /\ enabled' = enabled /\ a \in At
    BY <1>1, <1>5 DEF Resumes
  <2>2. \/ sub[e].at = "saving" /\ a = "saved"
        \/ sub[e].at = "keeping" /\ a = "listing"
    BY <1>5 DEF Keeping, Saving
  <2>. HIDE DEF a
  <2>3. /\ sub' \in [Submission -> Sub] /\ sub'[e].at = a /\ sub'[e].input = sub[e].input
        /\ \A c \in Submission : c # e => sub'[c] = sub[c]
    BY <1>5, <2>1, SubMoves
  <2>. QED
    BY <1>3, <1>5, <2>1, <2>2, <2>3
<1>6. CASE e # None /\ ~ok
  <2>1. sub' = [sub EXCEPT ![e] = Idle] /\ enabled' = TRUE
    BY <1>6 DEF Resumes, Fails
  <2>2. /\ sub' \in [Submission -> Sub] /\ sub'[e] = Idle
        /\ \A c \in Submission : c # e => sub'[c] = sub[c]
    BY <1>1, <1>6, <2>1, SubBecomes
  <2>. QED
    BY <1>1, <1>3, <1>6, <2>1, <2>2
<1>. QED
  BY <1>4, <1>5, <1>6

LEMMA SaveEndsKeeps ==
    ASSUME IInv, NEW ok \in BOOLEAN, SaveEnds(ok),
           disk' = IF ok THEN [disk EXCEPT ![Head(saves).key] = Head(saves).value] ELSE disk
    PROVE  IInv'
<1>. DEFINE e == Head(saves)
            now == IF Keeping(e.by) THEN {sub[e.by].id} ELSE {}
<1>1. /\ saves # <<>> /\ saves' = Tail(saves) /\ Resumes(e.by, ok) /\ broken' = ~ok
      /\ reload' = IF reload.at = "wait" THEN Opened(reload.awaits - 1, ok) ELSE reload
      /\ UNCHANGED <<connected, key, state, form, list, late, tasks,
                     minted, forgotten, mixed, stale>>
  BY DEF SaveEnds
<1>2. /\ World /\ saves' \in Seq(Entry) /\ Len(saves) \in Nat /\ Len(saves) >= 1
      /\ Len(saves') = Len(saves) - 1
      /\ \A i \in 1..(Len(saves) - 1) : saves'[i] = saves[i + 1]
      /\ e = saves[1]
  BY <1>1, SavePopped DEF IInv
<1>3. /\ \A i \in 1..Len(saves') : i \in Nat /\ i + 1 \in 2..Len(saves) /\ saves'[i] = saves[i + 1]
      /\ \A i \in 2..Len(saves) : i - 1 \in 1..Len(saves') /\ saves'[i - 1] = saves[i]
      /\ 1 \in 1..Len(saves) /\ 2..Len(saves) \subseteq 1..Len(saves)
      /\ \A i \in 1..Len(saves) : i = 1 \/ i \in 2..Len(saves)
  BY <1>2
<1>4. /\ \A i \in 1..Len(saves) : saves[i].by \in Submission \cup {None}
      /\ e \in Entry
  BY <1>2, <1>3, SavesAre
<1>5. e.by \in Submission \cup {None} /\ e.key \in Service /\ e.value \in Saved
  BY <1>4 DEF Entry
<1>6. e.by # None => Saving(e.by)
  BY <1>2, <1>3 DEF IInv, SavesBelong
<1>7. /\ sub' \in [Submission -> Sub]
      /\ \A c \in Submission : c # e.by => sub'[c] = sub[c]
      /\ e.by = None => enabled' = enabled
      /\ e.by # None =>
            \/ /\ ok /\ enabled' = enabled /\ sub'[e.by].input = sub[e.by].input
               /\ \/ sub[e.by].at = "saving" /\ sub'[e.by].at = "saved"
                  \/ sub[e.by].at = "keeping" /\ sub'[e.by].at = "listing"
            \/ sub'[e.by] = Idle /\ sub'[e.by].at = "idle" /\ enabled' = TRUE
      /\ Told' = Told \cup now
      /\ seen' \subseteq seen \cup now /\ dropped' \subseteq dropped \cup now
  BY <1>1, <1>2, <1>5, <1>6, ResumesDoes
<1>8. /\ disk' \in [Service -> Saved]
      /\ \A s \in Service : s # e.key => disk'[s] = disk[s]
      /\ disk'[e.key] = IF ok THEN e.value ELSE disk[e.key]
  BY <1>2, <1>5 DEF World
<1>9. reload' \in Reloading(Len(saves')) /\ (reload'.at = "state" <=> reload.at = "state")
  <2>1. reload' \in Reloading(Len(saves) - 1) /\ (reload'.at = "state" <=> reload.at = "state")
    BY <1>1, <1>2, ReloadPopped DEF World
  <2>. QED
    BY <1>2, <2>1
<1>10. now \subseteq 1..minted
  BY <1>5 DEF Keeping, IInv, Ids
<1>. HIDE DEF e
<1>11. e.by # None => key # None /\ sub[e.by].input \in Content
  BY <1>5, <1>6 DEF IInv, Ids, Saving
<1>12. World'
  <2>1. enabled' = enabled \/ (enabled' = TRUE /\ key # None)
    BY <1>7, <1>11
  <2>2. enabled' \in BOOLEAN /\ (reload'.at = "state" \/ enabled' => key' # None)
    <3>1. CASE enabled' = enabled
      BY <1>1, <1>2, <1>9, <3>1 DEF World
    <3>2. CASE enabled' = TRUE /\ key # None
      BY <1>1, <3>2
    <3>. QED
      BY <2>1, <3>1, <3>2
  <2>3. seen' \subseteq 1..minted' /\ dropped' \subseteq 1..minted'
    BY <1>1, <1>2, <1>7, <1>10 DEF World
  <2>. QED
    BY <1>1, <1>2, <1>7, <1>8, <1>9, <2>2, <2>3 DEF World
<1>13. Ids'
  <2>1. (\A c \in Submission :
            /\ sub[c].at # "idle" => key # None /\ sub[c].input \in Content
            /\ sub[c].at \in {"sent", "answered", "keeping"} =>
                  sub[c].id \in 1..minted /\ sub[c].to \in Service)'
    <3>1. ASSUME NEW c \in Submission
          PROVE  /\ sub'[c].at # "idle" => key # None /\ sub'[c].input \in Content
                 /\ sub'[c].at \in {"sent", "answered", "keeping"} =>
                       sub'[c].id \in 1..minted /\ sub'[c].to \in Service
      <4>1. CASE c = e.by
        BY PanelAssumption, <1>5, <1>7, <1>11, <4>1
      <4>2. CASE c # e.by
        BY <1>7, <4>2 DEF IInv, Ids
      <4>. QED
        BY <4>1, <4>2
    <3>. QED
      BY <1>1, <3>1
  <2>2. Minted(e.value.pending) /\ \A i \in 1..Len(saves') : Minted(saves'[i].value.pending)
    BY <1>2, <1>3 DEF IInv, Ids
  <2>3. \A s \in Service : Minted(disk'[s].pending)
    BY <1>8, <2>2 DEF IInv, Ids
  <2>4. (/\ Minted(state.pending)
         /\ \A s \in Service : Minted(disk[s].pending)
         /\ \A i \in 1..Len(saves) : Minted(saves[i].value.pending))'
    BY <1>1, <2>2, <2>3 DEF IInv, Ids, Minted
  <2>. QED
    BY <2>1, <2>4 DEF Ids
<1>15. \A s \in Service : Known'[s] \subseteq Known[s]
  <2>1. \A c \in Submission : sub'[c].at = "sent" => sub'[c] = sub[c]
    BY PanelAssumption, <1>7
  <2>. QED
    BY <1>1, <2>1, KnownStays
<1>16. Bound'
  BY <1>1, <1>15, BoundStays DEF IInv
<1>17. SavesBelong'
  <2>1. ASSUME NEW c \in Submission, sub'[c].at \in {"saving", "keeping"}
        PROVE  \E i \in 1..Len(saves') : saves'[i].by = c
    <3>1. c # e.by
      BY PanelAssumption, <1>7, <2>1
    <3>2. PICK i \in 1..Len(saves) : saves[i].by = c
      BY <1>7, <2>1, <3>1 DEF IInv, SavesBelong, Saving
    <3>3. i \in 2..Len(saves)
      BY <1>2, <1>3, <3>1, <3>2
    <3>. QED
      BY <1>3, <3>2, <3>3
  <2>2. ASSUME NEW i \in 1..Len(saves'), saves'[i].by # None
        PROVE  sub'[saves'[i].by].at \in {"saving", "keeping"}
    <3>. DEFINE c == saves[i + 1].by
    <3>1. saves'[i].by = c /\ i + 1 \in 1..Len(saves) /\ i + 1 # 1
      BY <1>3, <2>2
    <3>2. Saving(c) /\ c \in Submission /\ c # e.by
      BY <1>2, <1>3, <1>4, <2>2, <3>1 DEF IInv, SavesBelong
    <3>. QED
      BY <1>7, <3>1, <3>2 DEF Saving
  <2>3. ASSUME NEW i \in 1..Len(saves'), NEW j \in 1..Len(saves'), saves'[i].by # None,
               saves'[i].by = saves'[j].by
        PROVE  i = j
    <3>1. /\ i + 1 \in 1..Len(saves) /\ saves[i + 1].by = saves'[i].by
          /\ j + 1 \in 1..Len(saves) /\ saves[j + 1].by = saves'[j].by
      BY <1>3
    <3>2. i + 1 = j + 1
      BY <2>3, <3>1 DEF IInv, SavesBelong
    <3>. QED
      BY <1>3, <3>2
  <2>. QED
    BY <2>1, <2>2, <2>3 DEF SavesBelong, Saving
<1>18. ASSUME ~mixed' PROVE Unmixed'
  <2>1. Unmixed /\ ~mixed
    BY <1>1, <1>18 DEF IInv
  <2>2. /\ reload.at # "state" /\ e.key = key /\ key # None
        /\ \A i \in 1..Len(saves) : saves[i].key = key
    BY PanelAssumption, <1>1, <1>2, <1>3, <1>5, <2>1 DEF Unmixed, OneAtATime
  <2>3. Told \subseteq Told' /\ Believed \subseteq Believed' /\ Told' \subseteq Believed'
    <3>1. Told \subseteq Told' /\ Told' \subseteq Believed'
      BY <1>7 DEF Believed
    <3>2. ASSUME NEW c \in Submission, sub[c].at = "keeping" PROVE sub[c].id \in Believed'
      <4>1. CASE c = e.by
        <5>1. sub[c].id \in now
          BY PanelAssumption, <3>2, <4>1 DEF Keeping
        <5>. QED
          BY <1>7, <3>1, <5>1
      <4>2. CASE c # e.by
        <5>1. sub'[c] = sub[c]
          BY <1>7, <4>2
        <5>. QED
          BY <3>2, <5>1 DEF Believed
      <4>. QED
        BY <4>1, <4>2
    <3>3. \A x \in Believed : x \in Told \/ \E c \in Submission : sub[c].at = "keeping" /\ x = sub[c].id
      BY DEF Believed
    <3>. QED
      BY <3>1, <3>2, <3>3
  <2>. HIDE DEF now
  <2>4. ASSUME NEW c \in Submission, sub'[c].at # "idle"
        PROVE  /\ sub[c].at # "idle" /\ ~enabled'
               /\ \A d \in Submission : sub'[d].at # "idle" => d = c
    <3>1. ASSUME NEW d \in Submission, sub'[d].at # "idle" PROVE sub[d].at # "idle"
      <4>1. CASE d = e.by
        BY PanelAssumption, <1>6, <4>1 DEF Saving
      <4>2. CASE d # e.by
        BY <1>7, <3>1, <4>2
      <4>. QED
        BY <4>1, <4>2
    <3>2. ~enabled /\ \A d \in Submission : sub[d].at # "idle" => d = c
      BY <2>1, <2>4, <3>1 DEF Unmixed, OneAtATime
    <3>3. e.by # None => e.by = c
      BY <1>5, <1>6, <3>2 DEF Saving
    <3>. QED
      BY <1>7, <2>4, <3>1, <3>2, <3>3
  <2>5. OneAtATime'
    <3>1. \A i \in 1..Len(saves') : saves'[i].key = key
      BY <1>3, <2>2
    <3>. QED
      BY <1>1, <1>9, <2>2, <2>4, <3>1 DEF OneAtATime
  <2>6. Confirmed'
    <3>1. ASSUME NEW c \in Submission
          PROVE  /\ sub'[c].at \in {"saving", "saved", "sent", "answered", "refused"} =>
                       state.pending \in Request /\ state.pending.input = sub'[c].input
                 /\ sub'[c].at = "saving" =>
                       \A i, j \in 1..Len(saves') :
                          saves'[i].by = c /\ i <= j => saves'[j].value.pending = state.pending
                 /\ sub'[c].at \in {"saved", "sent", "answered", "refused"} =>
                       /\ disk'[key].pending = state.pending
                       /\ \A i \in 1..Len(saves') : saves'[i].value.pending = state.pending
                 /\ sub'[c].at \in {"sent", "answered", "refused"} =>
                       sub'[c].to = key /\ sub'[c].id = state.pending.id
                 /\ sub'[c].at = "keeping" =>
                       \A i, j \in 1..Len(saves') :
                          saves'[i].by = c /\ j < i => saves'[j].value.pending = disk'[key].pending
      <4>1. CASE c = e.by /\ sub'[c].at \in {"idle", "listing"}
        BY <4>1
      <4>2. CASE c = e.by /\ sub'[c].at \notin {"idle", "listing"}
        <5>1. ok /\ sub[c].at = "saving" /\ sub'[c].at = "saved" /\ sub'[c].input = sub[c].input
          BY PanelAssumption, <1>7, <4>2
        <5>2. /\ state.pending \in Request /\ state.pending.input = sub[c].input
              /\ \A j \in 1..Len(saves) : saves[j].value.pending = state.pending
          BY <1>2, <1>3, <2>1, <4>2, <5>1 DEF Unmixed, Confirmed
        <5>. QED
          BY <1>2, <1>3, <1>8, <2>2, <5>1, <5>2
      <4>3. CASE c # e.by
        <5>1. sub'[c] = sub[c]
          BY <1>7, <4>3
        <5>2. /\ \A i, j \in 1..Len(saves') : /\ i <= j => i + 1 <= j + 1
                                              /\ j < i => j + 1 < i + 1
              /\ \A i \in 1..Len(saves') : i + 1 \in 1..Len(saves) /\ 1 < i + 1
          BY <1>3
        <5>3. disk'[key] = IF ok THEN saves[1].value ELSE disk[key]
          BY <1>2, <1>8, <2>2
        <5>4. CASE sub[c].at = "saving"
          <6>1. state.pending \in Request /\ state.pending.input = sub[c].input
            BY <2>1, <5>4 DEF Unmixed, Confirmed
          <6>2. ASSUME NEW i \in 1..Len(saves'), NEW j \in 1..Len(saves'), saves'[i].by = c, i <= j
                PROVE  saves'[j].value.pending = state.pending
            <7>1. /\ saves[i + 1].by = c /\ i + 1 <= j + 1 /\ saves'[j] = saves[j + 1]
                  /\ i + 1 \in 1..Len(saves) /\ j + 1 \in 1..Len(saves)
              BY <1>3, <5>2, <6>2
            <7>. QED
              BY <2>1, <5>4, <7>1 DEF Unmixed, Confirmed
          <6>. QED
            BY <5>1, <5>4, <6>1, <6>2
        <5>5. CASE sub[c].at = "keeping"
          <6>1. ASSUME NEW i \in 1..Len(saves'), NEW j \in 1..Len(saves'), saves'[i].by = c, j < i
                PROVE  saves'[j].value.pending = disk'[key].pending
            <7>1. /\ saves[i + 1].by = c /\ j + 1 < i + 1 /\ 1 < i + 1
                  /\ i + 1 \in 1..Len(saves) /\ j + 1 \in 1..Len(saves)
              BY <1>3, <5>2, <6>1
            <7>2. /\ saves[j + 1].value.pending = disk[key].pending
                  /\ saves[1].value.pending = disk[key].pending
              BY <1>3, <2>1, <5>5, <7>1 DEF Unmixed, Confirmed
            <7>. QED
              BY <1>3, <5>3, <7>2
          <6>. QED
            BY <5>1, <5>5, <6>1
        <5>6. CASE sub[c].at \notin {"saving", "keeping"}
          BY <1>3, <2>1, <5>1, <5>2, <5>3, <5>6 DEF Unmixed, Confirmed
        <5>. QED
          BY <5>4, <5>5, <5>6
      <4>. QED
        BY <4>1, <4>2, <4>3
    <3>. QED
      <4>1. key' = key /\ state' = state
        BY <1>1
      <4>. HIDE DEF now
      <4>. QED
        BY ONLY <3>1, <4>1 DEF Confirmed
  <2>7. Kept'
    <3>1. /\ \A s \in Service : Covers(disk[s].pending, Known[s], Told)
          /\ Covers(state.pending, Known[key], Believed)
          /\ \A i \in 1..Len(saves) : Covers(saves[i].value.pending, Known[key], Believed)
      BY <2>1, <2>2 DEF Unmixed, Kept
    <3>2. \A i \in 1..Len(saves') : Covers(saves'[i].value.pending, Known'[key], Believed')
      <4>1. key \in Service /\ Known'[key] \subseteq Known[key]
        BY <1>2, <1>15, <2>2, PanelAssumption DEF World
      <4>2. ASSUME NEW i \in 1..Len(saves')
            PROVE  Covers(saves'[i].value.pending, Known'[key], Believed')
        <5>1. saves'[i] = saves[i + 1] /\ i + 1 \in 1..Len(saves)
          BY <1>3
        <5>2. Covers(saves[i + 1].value.pending, Known[key], Believed)
          BY <3>1, <5>1
        <5>. QED
          BY <2>3, <4>1, <5>1, <5>2, CoversStays
      <4>. QED
        BY <4>2
    <3>3. Covers(state.pending, Known'[key], Believed')
      BY <1>2, <1>15, <2>2, <2>3, <3>1, CoversStays DEF World
    <3>4. Covers(e.value.pending, Known[key], Told')
      <4>1. CASE \E c \in Submission : sub[c].at = "keeping" /\ c # e.by
        <5>1. PICK c \in Submission : sub[c].at = "keeping" /\ c # e.by
          BY <4>1
        <5>2. PICK i \in 1..Len(saves) : saves[i].by = c
          BY <5>1 DEF IInv, SavesBelong, Saving
        <5>3. 1 < i
          BY <1>2, <5>1, <5>2
        <5>4. e.value.pending = disk[key].pending
          BY <1>2, <1>3, <2>1, <5>1, <5>2, <5>3 DEF Unmixed, Confirmed
        <5>. QED
          BY <1>5, <2>2, <2>3, <3>1, <5>4, CoversStays
      <4>2. CASE \A c \in Submission : sub[c].at = "keeping" => c = e.by
        <5>1. \A c \in Submission : sub[c].at = "keeping" => sub[c].id \in now
          BY PanelAssumption, <4>2 DEF now, Keeping
        <5>2. Believed \subseteq Told'
          BY <1>7, <5>1 DEF Believed
        <5>3. Covers(e.value.pending, Known[key], Believed)
          BY <1>2, <1>3, <3>1
        <5>. QED
          BY <5>2, <5>3, CoversStays
      <4>. QED
        BY <4>1, <4>2
    <3>5. \A s \in Service : Covers(disk'[s].pending, Known[s], Told')
      <4>1. ASSUME NEW s \in Service PROVE Covers(disk'[s].pending, Known[s], Told')
        <5>1. CASE disk'[s] = disk[s]
          BY <2>3, <3>1, <5>1, CoversStays
        <5>2. CASE disk'[s] # disk[s]
          BY <1>8, <2>2, <3>4, <5>2
        <5>. QED
          BY <5>1, <5>2
      <4>. QED
        BY <4>1
    <3>6. \A s \in Service : Covers(disk'[s].pending, Known'[s], Told')
      BY <1>15, <3>5, CoversStays
    <3>. QED
      BY <1>1, <3>2, <3>3, <3>6 DEF Kept
  <2>8. Delegations'
    BY <1>15, <2>1, <2>3, DelegationsStay DEF Unmixed
  <2>. QED
    BY <2>5, <2>6, <2>7, <2>8 DEF Unmixed
<1>. QED
  BY <1>12, <1>13, <1>16, <1>17, <1>18 DEF IInv

LEMMA SaveWrittenKeeps == ASSUME IInv, SaveWritten PROVE IInv'
BY SaveEndsKeeps DEF SaveWritten

LEMMA SaveFailsKeeps == ASSUME IInv, SaveFails PROVE IInv'
BY SaveEndsKeeps DEF SaveFails

-----------------------------------------------------------------------------
(* The invariant, and what follows.                                        *)

LEMMA NextIInv == IInv /\ [Next]_vars => IInv'
<1>. SUFFICES ASSUME IInv, [Next]_vars PROVE IInv'
  OBVIOUS
<1>1. CASE SaveWritten \/ SaveFails
  BY <1>1, SaveWrittenKeeps, SaveFailsKeeps
<1>2. CASE \E c \in Content : Edit(c)
  BY <1>2, EditKeeps
<1>3. CASE \E b \in Submission : Submit(b)
  BY <1>3, SubmitKeeps
<1>4. CASE \E b \in Submission : Send(b)
  BY <1>4, SendKeeps
<1>5. CASE \E b \in Submission : CreateTask(b)
  BY <1>5, CreateTaskKeeps
<1>6. CASE \E b \in Submission : AnswerLost(b)
  BY <1>6, AnswerLostKeeps
<1>7. CASE \E b \in Submission : Answer(b)
  BY <1>7, AnswerKeeps
<1>8. CASE \E b \in Submission : Ends(b)
  BY <1>8, EndsKeeps
<1>9. CASE \E s \in Service : Configure(s)
  BY <1>9, ConfigureKeeps
<1>10. CASE \E s \in Service : \E r \in late[s] : ArrivesLate(s, r)
  BY <1>10, ArrivesLateKeeps
<1>11. CASE Refresh \/ Select
  BY <1>11, RefreshKeeps, SelectKeeps
<1>12. CASE Open
  BY <1>12, OpenKeeps
<1>13. CASE LoadConfig
  BY <1>13, LoadConfigKeeps
<1>14. CASE Restart
  BY <1>14, RestartKeeps
<1>15. CASE \E goal \in Content \cup {None}, ok \in BOOLEAN : LoadState(goal, ok)
  BY <1>15, LoadStateKeeps
<1>16. CASE UNCHANGED vars
  BY <1>16, ReloadMoves DEF vars, page, IInv, World
<1>. QED
  BY <1>1, <1>2, <1>3, <1>4, <1>5, <1>6, <1>7, <1>8, <1>9, <1>10, <1>11, <1>12, <1>13,
     <1>14, <1>15, <1>16 DEF Next

LEMMA IInvAlways == Spec => []IInv
<1>1. Init => IInv
  BY InitIInv
<1>2. IInv /\ [Next]_vars => IInv'
  BY NextIInv
<1>. QED
  BY <1>1, <1>2, PTL DEF Spec

\* The panel, its saves and the services keep their types, and a submission that
\* waits for a save has one in the queue.
THEOREM PanelTypeCorrect == Spec => []TypeOK
<1>1. IInv => TypeOK
  BY InvariantGives
<1>. QED
  BY <1>1, IInvAlways, PTL

\* A task whose acceptance the user was not shown is the pending request of its
\* service on disk (panel.js:130 saves it before it is sent), unless the save with
\* its answer failed (panel.js:135) or the state could not be read (panel.js:83).
THEOREM UnseenStaysPending == Spec => []UnseenIsPending
<1>1. IInv => UnseenIsPending
  BY InvariantGives
<1>. QED
  BY <1>1, IInvAlways, PTL

\* A content is not delegated to a service twice (panel.js:128) unless the user
\* was shown the first task, gave its request up, or one of the same two faults of
\* the storage lost it.
THEOREM DelegatedAtMostOnce == Spec => []DelegatedOnce
<1>1. IInv => DelegatedOnce
  BY InvariantGives
<1>. QED
  BY <1>1, IInvAlways, PTL

-----------------------------------------------------------------------------
(* Selections.                                                             *)

\* The task selected in what the page holds, in what waits to be written and
\* in what is persisted is one of the service it is kept for.
Own(st, k) == st.selected \in {None, k}
SelectionsAreOwn ==
    /\ \A s \in Service : Own(disk[s], s)
    /\ key # None /\ reload.at # "state" => Own(state, key)
    /\ \A i \in 1..Len(saves) : Own(saves[i].value, saves[i].key)
Apart == mixed \/ stale

\* A save of a state that belongs to the service it is made for.
LEMMA OwnSavePushed ==
    ASSUME World, SelectionsAreOwn, NEW st \in Saved, NEW b \in Submission \cup {None},
           key \in Service, Own(st, key), Save(st, b)
    PROVE  \A i \in 1..Len(saves') : Own(saves'[i].value, saves'[i].key)
<1>1. /\ \A i \in 1..Len(saves) : saves'[i] = saves[i]
      /\ saves'[Len(saves) + 1] = [key |-> key, value |-> st, by |-> b]
      /\ \A i \in 1..Len(saves') : i \in 1..Len(saves) \/ i = Len(saves) + 1
  BY SavePushed
<1>. QED
  BY <1>1 DEF SelectionsAreOwn

\* What is written belongs to the service it is written for.
LEMMA OwnSavePopped ==
    ASSUME World, SelectionsAreOwn, saves # <<>>, saves' = Tail(saves)
    PROVE  /\ Head(saves) \in Entry /\ Own(Head(saves).value, Head(saves).key)
           /\ \A i \in 1..Len(saves') : Own(saves'[i].value, saves'[i].key)
<1>1. /\ Len(saves) \in Nat /\ Len(saves) >= 1 /\ Len(saves') = Len(saves) - 1
      /\ \A i \in 1..(Len(saves) - 1) : saves'[i] = saves[i + 1]
      /\ Head(saves) = saves[1] /\ saves[1] \in Entry
  BY SavePopped
<1>2. \A i \in 1..Len(saves') : saves'[i] = saves[i + 1] /\ i + 1 \in 1..Len(saves)
  BY <1>1
<1>3. 1 \in 1..Len(saves)
  BY <1>1
<1>. QED
  BY <1>1, <1>2, <1>3 DEF SelectionsAreOwn

\* A change of the page's state that is saved.
LEMMA OwnSaveAdded ==
    ASSUME World, SelectionsAreOwn, NEW b \in Submission \cup {None}, key \in Service,
           reload.at # "state", state' \in Saved, Save(state', b), UNCHANGED <<key, reload, disk>>,
           Own(state', key)
    PROVE  SelectionsAreOwn'
<1>1. \A i \in 1..Len(saves') : Own(saves'[i].value, saves'[i].key)
  BY OwnSavePushed
<1>. QED
  BY <1>1 DEF SelectionsAreOwn

\* Nothing that was apart comes together again.
LEMMA ApartStays == ASSUME [Next]_vars, ~Apart' PROVE ~mixed /\ ~stale
<1>1. CASE \/ \E c \in Content : Edit(c)
           \/ \E b \in Submission : Submit(b)
           \/ LoadConfig
           \/ \E goal \in Content \cup {None}, ok \in BOOLEAN : LoadState(goal, ok)
  <2>1. PICK more : mixed' = (mixed \/ more) /\ stale' = stale
    BY <1>1, Zenon DEF Edit, Submit, LoadConfig, LoadState
  <2>. QED
    BY <2>1 DEF Apart
<1>2. CASE Select
  <2>1. PICK more, other : mixed' = (mixed \/ more) /\ stale' = (stale \/ other)
    BY <1>2, Zenon DEF Select
  <2>. QED
    BY <2>1 DEF Apart
<1>3. CASE UNCHANGED <<mixed, stale>>
  BY <1>3 DEF Apart
<1>4. ASSUME NEW b \in Submission,
             Send(b) \/ CreateTask(b) \/ AnswerLost(b) \/ Answer(b) \/ Ends(b)
      PROVE  UNCHANGED <<mixed, stale>>
  BY <1>4 DEF Send, CreateTask, AnswerLost, Answer, Ends, counted
<1>5. ASSUME NEW s \in Service, Configure(s) \/ \E r \in late[s] : ArrivesLate(s, r)
      PROVE  UNCHANGED <<mixed, stale>>
  BY <1>5 DEF Configure, ArrivesLate, counted
<1>6. CASE SaveWritten \/ SaveFails \/ Refresh \/ Open \/ Restart \/ UNCHANGED vars
  BY <1>3, <1>6 DEF SaveWritten, SaveFails, SaveEnds, Refresh, Open, Restart, vars, counted
<1>. QED
  BY <1>1, <1>2, <1>3, <1>4, <1>5, <1>6 DEF Next

LEMMA SelectionsStayOwn ==
    IInv /\ IInv' /\ (~Apart => SelectionsAreOwn) /\ [Next]_vars
        => (~Apart' => SelectionsAreOwn')
<1>. SUFFICES ASSUME IInv, IInv', ~Apart => SelectionsAreOwn, [Next]_vars, ~Apart'
              PROVE  SelectionsAreOwn'
  OBVIOUS
<1>1. SelectionsAreOwn /\ ~mixed /\ ~stale /\ ~stale'
  BY ApartStays DEF Apart
<1>2. /\ World /\ state' \in Saved
      /\ state \in Saved /\ disk \in [Service -> Saved] /\ saves \in Seq(Entry)
      /\ key \in Service \cup {None} /\ None \notin Service
      /\ reload.at = "state" \/ enabled => key # None
      /\ list \in Service \cup {None} /\ (key = None => list = None)
  BY PanelAssumption DEF IInv, World
<1>3. CASE UNCHANGED <<key, state, reload, saves, disk>>
  BY <1>1, <1>3 DEF SelectionsAreOwn, Own
<1>4. CASE SaveWritten \/ SaveFails
  <2>1. PICK ok \in BOOLEAN :
          /\ SaveEnds(ok)
          /\ disk' = IF ok THEN [disk EXCEPT ![Head(saves).key] = Head(saves).value] ELSE disk
    BY <1>4 DEF SaveWritten, SaveFails
  <2>2. /\ saves # <<>> /\ saves' = Tail(saves) /\ UNCHANGED <<key, state>>
        /\ reload' = IF reload.at = "wait" THEN Opened(reload.awaits - 1, ok) ELSE reload
    BY <2>1 DEF SaveEnds
  <2>3. /\ Head(saves) \in Entry /\ Own(Head(saves).value, Head(saves).key)
        /\ \A i \in 1..Len(saves') : Own(saves'[i].value, saves'[i].key)
    BY <1>1, <1>2, <2>2, OwnSavePopped
  <2>4. \A s \in Service : Own(disk'[s], s)
    BY <1>1, <1>2, <2>1, <2>3 DEF SelectionsAreOwn, Entry
  <2>5. reload'.at # "state" => reload.at # "state"
    BY <2>2
  <2>. QED
    BY <1>1, <2>2, <2>3, <2>4, <2>5 DEF SelectionsAreOwn
<1>5. ASSUME NEW c \in Content, Edit(c) PROVE SelectionsAreOwn'
  <2>1. /\ enabled /\ Save(state', None) /\ UNCHANGED <<key, reload, disk>>
        /\ state' = [state EXCEPT !.draft = c] /\ mixed' = (mixed \/ reload.at = "state")
    BY <1>5 DEF Edit
  <2>2. state'.selected = state.selected
    BY <1>2, <2>1 DEF Saved
  <2>3. key \in Service /\ reload.at # "state"
    BY <1>2, <2>1 DEF Apart
  <2>. QED
    BY <1>1, <1>2, <2>1, <2>2, <2>3, OwnSaveAdded DEF SelectionsAreOwn, Own
<1>6. ASSUME NEW b \in Submission, Submit(b) PROVE SelectionsAreOwn'
  <2>1. /\ enabled /\ Save(state', b) /\ UNCHANGED <<key, reload, disk>>
        /\ state' = [state EXCEPT !.draft = form, !.pending = RequestFor(state.pending)]
        /\ mixed' = (mixed \/ reload.at = "state")
    BY <1>6 DEF Submit
  <2>2. state'.selected = state.selected
    BY <1>2, <2>1 DEF Saved
  <2>3. key \in Service /\ reload.at # "state"
    BY <1>2, <2>1 DEF Apart
  <2>. QED
    BY <1>1, <1>2, <2>1, <2>2, <2>3, OwnSaveAdded DEF SelectionsAreOwn, Own
<1>7. ASSUME NEW b \in Submission, Answer(b) PROVE SelectionsAreOwn'
  <2>1. /\ sub[b].at = "answered" /\ Save(state', b) /\ UNCHANGED <<key, reload, disk>>
        /\ state' = [state EXCEPT !.selected = sub[b].to, !.pending = None]
    BY <1>7 DEF Answer
  <2>2. key \in Service /\ reload.at # "state" /\ sub[b].to = key
    BY <1>1, <1>2, <2>1 DEF IInv, Ids, Unmixed, OneAtATime, Confirmed
  <2>3. state'.selected = key
    BY <1>2, <2>1, <2>2 DEF Saved
  <2>. QED
    BY <1>1, <1>2, <2>1, <2>2, <2>3, OwnSaveAdded DEF Own
<1>8. CASE Select
  <2>1. /\ list # None /\ Save(state', None) /\ UNCHANGED <<key, reload, disk>>
        /\ state' = [state EXCEPT !.selected = list] /\ mixed' = (mixed \/ reload.at = "state")
        /\ stale' = (stale \/ list # key)
    BY <1>8 DEF Select
  <2>2. key \in Service /\ reload.at # "state" /\ list = key
    BY <1>1, <1>2, <2>1 DEF Apart
  <2>3. state'.selected = key
    BY <1>2, <2>1, <2>2 DEF Saved
  <2>. QED
    BY <1>1, <1>2, <2>1, <2>2, <2>3, OwnSaveAdded DEF Own
<1>9. CASE Open \/ (\E s \in Service : Configure(s))
  <2>1. UNCHANGED <<key, state, saves, disk>> /\ reload.at # "state"
    BY <1>9 DEF Open, Configure, Reloads, NotReloading
  <2>. QED
    BY <1>1, <2>1 DEF SelectionsAreOwn, Own
<1>10. CASE LoadConfig
  <2>1. reload.at = "config" /\ saves' = saves /\ disk' = disk /\ key' = connected
        /\ reload' = IF connected = None THEN NotReloading ELSE [reload EXCEPT !.at = "state"]
    BY <1>10 DEF LoadConfig
  <2>2. reload \in {Configuring("config"), Opening("config")}
    BY <2>1 DEF IInv, World, Reloading, Waiting, Opening, Configuring, NotReloading
  <2>3. key' # None => reload'.at = "state"
    BY <2>1, <2>2 DEF Configuring, Opening
  <2>. QED
    BY <1>1, <2>1, <2>3 DEF SelectionsAreOwn, Own
<1>11. ASSUME NEW goal \in Content \cup {None}, NEW ok \in BOOLEAN, LoadState(goal, ok)
       PROVE  SelectionsAreOwn'
  <2>. DEFINE read == IF ok THEN disk[key] ELSE NoState
  <2>1. key \in Service /\ UNCHANGED <<key, disk>>
    BY <1>2, <1>11 DEF LoadState
  <2>2. read \in Saved /\ Own(read, key)
    BY <1>1, <1>2, <2>1 DEF SelectionsAreOwn, Own, NoState, Saved
  <2>3. /\ goal = None => state' = read /\ saves' = saves
        /\ goal # None => state' = [read EXCEPT !.draft = goal] /\ Save(state', None)
    BY <1>11 DEF LoadState
  <2>. HIDE DEF read
  <2>4. CASE goal = None
    BY <1>1, <2>1, <2>2, <2>3, <2>4 DEF SelectionsAreOwn
  <2>5. CASE goal # None
    <3>1. state'.selected = read.selected
      BY <2>2, <2>3, <2>5 DEF Saved
    <3>2. Own(state', key)
      BY <2>2, <3>1 DEF Own
    <3>3. \A i \in 1..Len(saves') : Own(saves'[i].value, saves'[i].key)
      BY <1>1, <1>2, <2>1, <2>3, <2>5, <3>2, OwnSavePushed
    <3>. QED
      BY <1>1, <2>1, <3>2, <3>3 DEF SelectionsAreOwn
  <2>. QED
    BY <2>4, <2>5
<1>12. CASE Restart
  <2>1. key' = None /\ saves' = <<>> /\ disk' = disk
    BY <1>12 DEF Restart
  <2>. QED
    BY <1>1, <2>1 DEF SelectionsAreOwn
<1>13. ASSUME NEW b \in Submission, Send(b) \/ CreateTask(b) \/ AnswerLost(b) \/ Ends(b)
       PROVE  UNCHANGED <<key, state, reload, saves, disk>>
  BY <1>13 DEF Send, CreateTask, AnswerLost, Ends, page
<1>14. ASSUME NEW s \in Service, NEW r \in late[s], ArrivesLate(s, r)
       PROVE  UNCHANGED <<key, state, reload, saves, disk>>
  BY <1>14 DEF ArrivesLate, page
<1>15. Refresh \/ UNCHANGED vars => UNCHANGED <<key, state, reload, saves, disk>>
  BY DEF Refresh, vars, page
<1>. QED
  BY <1>3, <1>4, <1>5, <1>6, <1>7, <1>8, <1>9, <1>10, <1>11, <1>12, <1>13, <1>14, <1>15 DEF Next

\* The task selected for a service is one of its own, as the document says
\* (docs/VBOT-BACKGROUND-TASKS.md:23), unless the panel was opened or connected
\* again with a submission or a save under way (panel.js:131), or a task was
\* chosen from the list of another service (panel.js:156).
THEOREM SelectionsStayLocal == Spec => [](~mixed /\ ~stale => SelectionIsLocal)
<1>1. Init => (~Apart => SelectionsAreOwn)
  <2>. SUFFICES ASSUME Init PROVE SelectionsAreOwn
    OBVIOUS
  <2>1. NoState.selected = None /\ Len(<<>>) = 0
    BY DEF NoState
  <2>. QED
    BY <2>1 DEF Init, SelectionsAreOwn, Own
<1>2. (~Apart => SelectionsAreOwn) => (~mixed /\ ~stale => SelectionIsLocal)
  BY DEF Apart, SelectionsAreOwn, Own, SelectionIsLocal
<1>. QED
  BY <1>1, <1>2, SelectionsStayOwn, IInvAlways, PTL DEF Spec
=============================================================================
