------------------------ MODULE SendAcceptanceProofs ------------------------
(***************************************************************************)
(* Proofs about the acceptance ledger, for every set of sends, every cap   *)
(* and every bound: its file keeps up with its memory, no send gets a      *)
(* silent second turn, and what lookup answers is honest.                  *)
(***************************************************************************)
EXTENDS SendAcceptance, SequenceLemmas

RecordStatus == {"pending", "accepted"}

\* A ledger has one record for each nonce, and no more than the cap.
Unique(r) == \A i, j \in DOMAIN r : r[i].nonce = r[j].nonce => i = j
Fits(r) == r \in Seq(Record) /\ Len(r) <= MaxRecords /\ Unique(r)

-----------------------------------------------------------------------------
(* What the operations on records do to what they say.                     *)

LEMMA EmptyRecords ==
    /\ <<>> \in Seq(Record) /\ Len(<<>>) = 0 /\ Fits(<<>>) /\ NoncesOf(<<>>) = {}
    /\ \A n, s : ~StatusIn(<<>>, n, s)
BY AcceptanceAssumption DEF Fits, Unique, NoncesOf, StatusIn

LEMMA NoncesAreTold ==
    ASSUME NEW r \in Seq(Record), NEW n
    PROVE  n \in NoncesOf(r) <=> \E s \in RecordStatus : StatusIn(r, n, s)
<1>1. DOMAIN r = 1..Len(r) /\ \A i \in 1..Len(r) : r[i] \in Record
  BY LenProperties, ElementOfSeq
<1>2. \A i \in DOMAIN r : r[i] = [nonce |-> r[i].nonce, status |-> r[i].status]
                          /\ r[i].status \in RecordStatus
  BY <1>1 DEF Record, RecordStatus
<1>3. \A s : [nonce |-> n, status |-> s].nonce = n
  OBVIOUS
<1>. QED
  BY <1>2, <1>3 DEF NoncesOf, StatusIn

LEMMA OneStatus ==
    ASSUME NEW r, Unique(r), NEW n
    PROVE  ~(StatusIn(r, n, "pending") /\ StatusIn(r, n, "accepted"))
<1>. SUFFICES ASSUME NEW i \in DOMAIN r, r[i] = [nonce |-> n, status |-> "pending"],
                     NEW j \in DOMAIN r, r[j] = [nonce |-> n, status |-> "accepted"]
              PROVE FALSE
  BY DEF StatusIn
<1>1. r[i].nonce = r[j].nonce /\ r[i].status # r[j].status
  OBVIOUS
<1>. QED
  BY <1>1 DEF Unique

LEMMA AppendTells ==
    ASSUME NEW r \in Seq(Record), Unique(r), NEW n \in Nonce, n \notin NoncesOf(r)
    PROVE  LET q == Append(r, [nonce |-> n, status |-> "pending"]) IN
           /\ q \in Seq(Record) /\ Unique(q) /\ Len(q) = Len(r) + 1
           /\ \A m, s : StatusIn(q, m, s) <=> StatusIn(r, m, s) \/ (m = n /\ s = "pending")
<1>. DEFINE e == [nonce |-> n, status |-> "pending"]
            q == Append(r, e)
<1>1. e \in Record
  BY DEF Record
<1>2. /\ q \in Seq(Record) /\ Len(q) = Len(r) + 1 /\ Len(r) \in Nat
      /\ \A i \in 1..Len(r) : q[i] = r[i]
      /\ q[Len(r) + 1] = e
      /\ DOMAIN q = 1..(Len(r) + 1) /\ DOMAIN r = 1..Len(r)
  BY <1>1, AppendProperties, LenProperties
<1>3. DOMAIN q = DOMAIN r \cup {Len(r) + 1}
  BY <1>2
<1>4. \A i \in DOMAIN r : q[i] = r[i] /\ r[i].nonce # n
  BY <1>2 DEF NoncesOf
<1>5. q[Len(r) + 1].nonce = n
  BY <1>2
<1>. HIDE DEF q
<1>6. Unique(q)
  BY <1>3, <1>4, <1>5 DEF Unique
<1>7. ASSUME NEW m, NEW s
      PROVE  StatusIn(q, m, s) <=> StatusIn(r, m, s) \/ (m = n /\ s = "pending")
  <2>1. [nonce |-> m, status |-> s] = e <=> m = n /\ s = "pending"
    OBVIOUS
  <2>. QED
    BY <1>2, <1>3, <1>4, <2>1 DEF StatusIn
<1>. QED
  BY <1>2, <1>6, <1>7 DEF q

LEMMA RemoveTells ==
    ASSUME NEW r \in Seq(Record), Unique(r), NEW i \in DOMAIN r
    PROVE  LET q == RemoveAt(r, i) IN
           /\ q \in Seq(Record) /\ Unique(q) /\ Len(q) = Len(r) - 1
           /\ \A m, s : StatusIn(q, m, s) <=> StatusIn(r, m, s) /\ m # r[i].nonce
<1>. DEFINE q == RemoveAt(r, i)
<1>1. DOMAIN r = 1..Len(r) /\ Len(r) \in Nat /\ i \in 1..Len(r)
  BY LenProperties
<1>2. /\ q \in Seq(Record) /\ Len(q) = Len(r) - 1
      /\ \A j \in 1..(Len(r) - 1) : q[j] = IF j < i THEN r[j] ELSE r[j + 1]
  BY <1>1, RemoveAtProperties
<1>3. DOMAIN q = 1..(Len(r) - 1)
  BY <1>2, LenProperties
<1>. HIDE DEF q
<1>. DEFINE From(j) == IF j < i THEN j ELSE j + 1
<1>4. /\ \A j \in DOMAIN q : From(j) \in DOMAIN r /\ From(j) # i /\ q[j] = r[From(j)]
      /\ \A j, k \in DOMAIN q : From(j) = From(k) => j = k
      /\ \A k \in DOMAIN r : k # i => \E j \in DOMAIN q : From(j) = k
  <2>1. \A j \in DOMAIN q : From(j) \in DOMAIN r /\ From(j) # i /\ q[j] = r[From(j)]
    BY <1>1, <1>2, <1>3
  <2>2. \A j, k \in DOMAIN q : From(j) = From(k) => j = k
    BY <1>1, <1>3
  <2>3. ASSUME NEW k \in DOMAIN r, k # i PROVE \E j \in DOMAIN q : From(j) = k
    <3>1. CASE k < i
      <4>1. k \in DOMAIN q /\ From(k) = k
        BY <1>1, <1>3, <3>1
      <4>. QED
        BY <4>1
    <3>2. CASE ~(k < i)
      <4>1. k - 1 \in DOMAIN q /\ From(k - 1) = k
        BY <1>1, <1>3, <2>3, <3>2
      <4>. QED
        BY <4>1
    <3>. QED
      BY <3>1, <3>2
  <2>. QED
    BY <2>1, <2>2, <2>3
<1>. HIDE DEF From
<1>5. Unique(q)
  BY <1>4 DEF Unique
<1>6. ASSUME NEW m, NEW s
      PROVE  StatusIn(q, m, s) <=> StatusIn(r, m, s) /\ m # r[i].nonce
  <2>. DEFINE e == [nonce |-> m, status |-> s]
  <2>1. e.nonce = m
    OBVIOUS
  <2>. HIDE DEF e
  <2>2. StatusIn(q, m, s) <=> \E k \in DOMAIN r : k # i /\ r[k] = e
    BY <1>4 DEF StatusIn, e
  <2>3. StatusIn(r, m, s) <=> \E k \in DOMAIN r : r[k] = e
    BY DEF StatusIn, e
  <2>. QED
    BY <2>1, <2>2, <2>3 DEF Unique
<1>. QED
  BY <1>2, <1>5, <1>6 DEF q

LEMMA MarkTells ==
    ASSUME NEW r, Fits(r), NEW n \in Nonce
    PROVE  LET q == Marked(r, n, "accepted") IN
           /\ Fits(q)
           /\ \A m : /\ StatusIn(q, m, "accepted")
                           <=> StatusIn(r, m, "accepted") \/ (m = n /\ StatusIn(r, n, "pending"))
                     /\ StatusIn(q, m, "pending") <=> StatusIn(r, m, "pending") /\ m # n
<1>. DEFINE q == Marked(r, n, "accepted")
<1>1. r \in Seq(Record) /\ Unique(r) /\ Len(r) \in Nat /\ DOMAIN r = 1..Len(r)
      /\ (\A i \in DOMAIN r : r[i] \in Record) /\ Len(r) <= MaxRecords
  BY LenProperties, ElementOfSeq DEF Fits
<1>2. \A i \in DOMAIN r : /\ r[i].status \in RecordStatus
                          /\ r[i] = [nonce |-> r[i].nonce, status |-> r[i].status]
  BY <1>1 DEF Record, RecordStatus
<1>3. /\ DOMAIN q = DOMAIN r
      /\ \A i \in DOMAIN r :
            q[i] = [nonce |-> r[i].nonce,
                    status |-> IF r[i].nonce = n THEN "accepted" ELSE r[i].status]
  <2>1. \A i \in DOMAIN r :
           [r[i] EXCEPT !.status = "accepted"] = [nonce |-> r[i].nonce, status |-> "accepted"]
    BY <1>1 DEF Record
  <2>. QED
    BY <1>2, <2>1 DEF Marked
<1>4. q \in Seq(Record) /\ Len(q) = Len(r)
  <2>1. ASSUME NEW i \in DOMAIN r PROVE q[i] \in Record
    <3>1. r[i].nonce \in Nonce
      BY <1>1 DEF Record
    <3>2. \A x \in Nonce, s \in RecordStatus : [nonce |-> x, status |-> s] \in Record
      BY DEF Record, RecordStatus
    <3>. QED
      BY <1>2, <1>3, <3>1, <3>2 DEF RecordStatus
  <2>2. q = [i \in 1..Len(r) |-> q[i]]
    BY <1>1 DEF Marked
  <2>3. q \in [1..Len(r) -> Record]
    BY <1>1, <2>1, <2>2
  <2>. QED
    BY <1>1, <2>3, SeqDef, LenProperties, <1>3
<1>. HIDE DEF q
<1>5. \A i \in DOMAIN r : q[i].nonce = r[i].nonce
  BY <1>3
<1>6. Fits(q)
  BY <1>1, <1>3, <1>4, <1>5 DEF Fits, Unique
<1>7. ASSUME NEW m
      PROVE  /\ StatusIn(q, m, "accepted")
                   <=> StatusIn(r, m, "accepted") \/ (m = n /\ StatusIn(r, n, "pending"))
             /\ StatusIn(q, m, "pending") <=> StatusIn(r, m, "pending") /\ m # n
  <2>1. ASSUME NEW s, NEW p PROVE StatusIn(p, m, s) <=>
             \E i \in DOMAIN p : p[i] = [nonce |-> m, status |-> s]
    BY DEF StatusIn
  <2>2. ASSUME NEW i \in DOMAIN r
        PROVE  /\ q[i] = [nonce |-> m, status |-> "accepted"] <=>
                    r[i].nonce = m /\ (m = n \/ r[i].status = "accepted")
               /\ q[i] = [nonce |-> m, status |-> "pending"] <=>
                    r[i].nonce = m /\ m # n /\ r[i].status = "pending"
               /\ \A s : r[i] = [nonce |-> m, status |-> s] <=>
                            r[i].nonce = m /\ r[i].status = s
    BY <1>2, <1>3
  <2>3. /\ StatusIn(q, m, "accepted") <=>
              \E i \in DOMAIN r : r[i].nonce = m /\ (m = n \/ r[i].status = "accepted")
        /\ StatusIn(q, m, "pending") <=>
              \E i \in DOMAIN r : r[i].nonce = m /\ m # n /\ r[i].status = "pending"
        /\ \A s : StatusIn(r, m, s) <=>
              \E i \in DOMAIN r : r[i].nonce = m /\ r[i].status = s
    BY <1>3, <2>1, <2>2
  <2>. QED
    BY <1>2, <2>3 DEF RecordStatus
<1>. QED
  BY <1>6, <1>7 DEF q

LEMMA WithoutTells ==
    ASSUME NEW r, Fits(r), NEW n, StatusIn(r, n, "pending")
    PROVE  /\ Fits(Without(r, n))
           /\ \A m, s : StatusIn(Without(r, n), m, s) <=> StatusIn(r, m, s) /\ m # n
<1>. DEFINE i == CHOOSE i \in DOMAIN r : r[i].nonce = n
<1>1. i \in DOMAIN r /\ r[i].nonce = n
  <2>1. \E j \in DOMAIN r : r[j].nonce = n
    BY DEF StatusIn
  <2>. QED
    BY <2>1
<1>. HIDE DEF i
<1>2. r \in Seq(Record) /\ Unique(r) /\ Len(r) \in Nat /\ Len(r) <= MaxRecords
  BY LenProperties DEF Fits
<1>3. Without(r, n) = RemoveAt(r, i)
  BY DEF Without, i
<1>. QED
  BY <1>1, <1>2, <1>3, RemoveTells, AcceptanceAssumption DEF Fits

LEMMA EvictionTells ==
    ASSUME NEW r \in Seq(Record), Unique(r), Len(r) <= MaxRecords + 1
    PROVE  /\ Fits(AfterEviction(r))
           /\ \A m, s : StatusIn(AfterEviction(r), m, s) => StatusIn(r, m, s)
           /\ ~Evicts(r) => AfterEviction(r) = r
<1>1. MaxRecords \in Nat /\ MaxRecords >= 1 /\ Len(r) \in Nat /\ DOMAIN r = 1..Len(r)
  BY AcceptanceAssumption, LenProperties
<1>2. CASE Evicts(r)
  <2>1. Victim(r) \in DOMAIN r
    <3>1. CASE \E i \in DOMAIN r : OldestCompleted(r, i)
      <4>1. Victim(r) = CHOOSE i \in DOMAIN r : OldestCompleted(r, i)
        BY <3>1 DEF Victim
      <4>. QED
        BY <3>1, <4>1
    <3>2. CASE ~(\E i \in DOMAIN r : OldestCompleted(r, i))
      BY <1>1, <1>2, <3>2 DEF Victim, Evicts
    <3>. QED
      BY <3>1, <3>2
  <2>2. AfterEviction(r) = RemoveAt(r, Victim(r))
    BY <1>2 DEF AfterEviction
  <2>3. /\ RemoveAt(r, Victim(r)) \in Seq(Record) /\ Unique(RemoveAt(r, Victim(r)))
        /\ Len(RemoveAt(r, Victim(r))) = Len(r) - 1
        /\ \A m, s : StatusIn(RemoveAt(r, Victim(r)), m, s) => StatusIn(r, m, s)
    BY <2>1, RemoveTells
  <2>. QED
    BY <1>1, <1>2, <2>2, <2>3 DEF Fits
<1>3. CASE ~Evicts(r)
  BY <1>1, <1>3 DEF AfterEviction, Evicts, Fits
<1>. QED
  BY <1>2, <1>3

-----------------------------------------------------------------------------
(* The invariant.                                                          *)

\* An accepted record has its turn; a send that builds has no record yet.
Shape ==
    /\ TypeOK
    /\ Fits(records) /\ Fits(file.records)
    /\ \A n \in Nonce :
          /\ StatusIn(records, n, "accepted") => turns[n] > 0
          /\ StatusIn(file.records, n, "accepted") => turns[n] > 0
          /\ attempt[n] = "building" => n \notin NoncesOf(records)
          /\ attempt[n] \in {"building", "sending"} => turns[n] < MaxTurns
          /\ attempt[n] = "turning" => turns[n] > 0
          /\ ~up => attempt[n] = "none"

\* What is told of a nonce by records that miss nothing.
Once(r, n) == turns[n] <= 1 /\ (turns[n] = 1 => StatusIn(r, n, "accepted"))
\* lookup may say that it does not know, or a process lost what it knew.
Excused == gaps \/ degraded \/ blind

MemoryTells ==
    up /\ ~Excused =>
        \A n \in Nonce :
            /\ Once(records, n)
            /\ attempt[n] = "sending" => StatusIn(records, n, "pending")
FileTells ==
    ~up /\ ~blind /\ ~damaged /\ ~markerFile /\ ~file.gaps =>
        \A n \in Nonce : Once(file.records, n)

\* A pending record is that of a send under way, or of one a restart cut off.
PendingIsKnown ==
    \A n \in Nonce :
        /\ up /\ StatusIn(records, n, "pending")
              => attempt[n] = "sending" \/ n \in interrupted \/ behind
        /\ ~up /\ ~damaged /\ StatusIn(file.records, n, "pending")
              => n \in interrupted \/ behind

IInv ==
    /\ Shape /\ MemoryTells /\ FileTells /\ PendingIsKnown
    /\ FileKeepsUp /\ AnsweredSendsHaveTurns

LEMMA InvariantGives ==
    ASSUME IInv PROVE TypeOK /\ OneTurnUnlessGap /\ NotFoundIsHonest
<1>1. TypeOK /\ MemoryTells /\ records \in Seq(Record) /\ \A n \in Nonce : turns[n] \in Nat
  BY AcceptanceAssumption DEF IInv, Shape, TypeOK
<1>2. OneTurnUnlessGap
  BY <1>1 DEF MemoryTells, Once, Excused, OneTurnUnlessGap
<1>3. ASSUME NEW n \in Nonce, up, turns[n] > 0, Lookup(n) = "not-found", ~blind
      PROVE  FALSE
  <2>1. n \notin NoncesOf(records) /\ ~Excused
    BY <1>3 DEF Lookup, Excused
  <2>2. StatusIn(records, n, "accepted")
    BY <1>1, <1>3, <2>1 DEF MemoryTells, Once
  <2>. QED
    BY <1>1, <2>1, <2>2, NoncesAreTold DEF RecordStatus
<1>. QED
  BY <1>1, <1>2, <1>3 DEF NotFoundIsHonest

LEMMA InitIInv == Init => IInv
<1>. SUFFICES ASSUME Init PROVE IInv
  OBVIOUS
<1>. USE AcceptanceAssumption
<1>2. TypeOK
  <2>1. MaxRecords \in Nat /\ MaxTurns \in Nat /\ MaxCrashes \in Nat /\ MaxFaults \in Nat
    OBVIOUS
  <2>2. turns \in [Nonce -> 0..MaxTurns] /\ crashes \in 0..MaxCrashes /\ faults \in 0..MaxFaults
    BY <2>1 DEF Init
  <2>3. attempt \in [Nonce -> {"none", "building", "sending", "turning"}]
    BY DEF Init
  <2>4. /\ records \in Seq(Record) /\ Len(records) <= MaxRecords
        /\ file \in [records : Seq(Record), gaps : BOOLEAN]
    BY <2>1, EmptyRecords DEF Init
  <2>5. /\ {gaps, degraded, markerMay, damaged, markerFile, up, behind, blind} \subseteq BOOLEAN
        /\ answered \in SUBSET Nonce /\ interrupted \in SUBSET Nonce
    BY DEF Init
  <2>. QED
    BY <2>2, <2>3, <2>4, <2>5 DEF TypeOK
<1>3. Shape
  BY EmptyRecords, <1>2 DEF Init, Shape
<1>4. MemoryTells /\ FileTells
  BY DEF Init, MemoryTells, FileTells, Once
<1>5. PendingIsKnown /\ FileKeepsUp /\ AnsweredSendsHaveTurns
  BY EmptyRecords DEF Init, PendingIsKnown, FileKeepsUp, AnsweredSendsHaveTurns
<1>. QED
  BY <1>3, <1>4, <1>5 DEF IInv

-----------------------------------------------------------------------------
(* A step of a process that is up.                                         *)

\* What a step that leaves records r and gaps g leaves on disk and of doubts.
Leaves(r, g) ==
    /\ records' = r
    /\ {gaps', degraded', markerMay', damaged', markerFile'} \subseteq BOOLEAN
    /\ g \/ degraded => gaps' \/ degraded'
    /\ file' = file \/ (file' = [records |-> r, gaps |-> gaps'] /\ ~damaged')
    /\ faults' \in 0..MaxFaults
    /\ degraded' \/ blind \/ (~damaged' /\ file' = [records |-> r, gaps |-> gaps'])
    /\ markerFile' => markerMay'

LEMMA OutcomesAre ==
    ASSUME NEW g, NEW since, NEW may, NEW marker, NEW o,
           g \in BOOLEAN /\ since \in BOOLEAN /\ may \in BOOLEAN /\ marker \in BOOLEAN,
           marker => may,
           o \in PersistOutcomes(g, since, may, marker)
    PROVE  /\ o.gaps \in BOOLEAN /\ o.degraded \in BOOLEAN /\ o.may \in BOOLEAN
           /\ o.marker \in BOOLEAN /\ o.saved \in BOOLEAN /\ o.cost \in Nat
           /\ o.marker => o.may
           /\ g \/ since => o.gaps \/ o.degraded
           /\ o.degraded <=> ~o.saved
<1>. USE DEF Saved, NotSaved
<1>1. \/ o = Saved(g \/ since, FALSE, marker /\ ~may, 0)
      \/ o = NotSaved(g, TRUE, ~may \/ marker, 1)
      \/ may /\ o = Saved(g \/ since, TRUE, marker, 1)
      \/ ~may /\ o = NotSaved(g, FALSE, marker, 2)
  BY DEF PersistOutcomes
<1>2. CASE o = Saved(g \/ since, FALSE, marker /\ ~may, 0)
  BY <1>2
<1>3. CASE o = NotSaved(g, TRUE, ~may \/ marker, 1)
  BY <1>3
<1>4. CASE may /\ o = Saved(g \/ since, TRUE, marker, 1)
  BY <1>4
<1>5. CASE ~may /\ o = NotSaved(g, FALSE, marker, 2)
  BY <1>5
<1>. QED
  BY <1>1, <1>2, <1>3, <1>4, <1>5

LEMMA SpendIsBounded ==
    ASSUME TypeOK, NEW n \in Nat, Spend(n)
    PROVE  faults' \in 0..MaxFaults
BY AcceptanceAssumption DEF Spend, TypeOK

LEMMA PersistLeaves ==
    ASSUME IInv, up, NEW r, NEW g \in BOOLEAN, Persist(r, g)
    PROVE  Leaves(r, g)
<1>1. /\ TypeOK /\ degraded \in BOOLEAN /\ markerMay \in BOOLEAN /\ markerFile \in BOOLEAN
      /\ damaged \in BOOLEAN
      /\ markerFile => markerMay
  BY DEF IInv, Shape, TypeOK, FileKeepsUp
<1>2. PICK o \in PersistOutcomes(g, degraded, markerMay, markerFile) :
         InMemory(r, o) /\ OnDisk(r, o)
  BY DEF Persist
<1>3. /\ o.gaps \in BOOLEAN /\ o.degraded \in BOOLEAN /\ o.may \in BOOLEAN
      /\ o.marker \in BOOLEAN /\ o.saved \in BOOLEAN /\ o.cost \in Nat
      /\ o.marker => o.may
      /\ g \/ degraded => o.gaps \/ o.degraded
      /\ o.degraded <=> ~o.saved
  BY <1>1, OutcomesAre
<1>4. faults' \in 0..MaxFaults
  BY <1>1, <1>2, <1>3, SpendIsBounded DEF OnDisk
<1>. QED
  BY <1>1, <1>2, <1>3, <1>4 DEF InMemory, OnDisk, Leaves

LEMMA StaysLeaves ==
    ASSUME IInv, up, UNCHANGED <<ledger, files, faults>>
    PROVE  Leaves(records, gaps)
BY DEF IInv, Shape, TypeOK, FileKeepsUp, ledger, files, Leaves

\* What such a step must leave of a nonce.
Fine(r, n) ==
    /\ StatusIn(r, n, "accepted") => turns'[n] > 0
    /\ attempt'[n] = "building" => n \notin NoncesOf(r)
    /\ attempt'[n] \in {"building", "sending"} => turns'[n] < MaxTurns
    /\ attempt'[n] = "turning" => turns'[n] > 0
    /\ ~Excused' => /\ turns'[n] <= 1 /\ (turns'[n] = 1 => StatusIn(r, n, "accepted"))
                    /\ attempt'[n] = "sending" => StatusIn(r, n, "pending")
    /\ StatusIn(r, n, "pending") => attempt'[n] = "sending" \/ n \in interrupted \/ behind
    /\ n \in answered' => turns'[n] > 0 \/ n \in interrupted \/ behind

Phase == {"none", "building", "sending", "turning"}

LEMMA UpStep ==
    ASSUME IInv, up, UNCHANGED <<up, crashes, history>>,
           NEW r, NEW g, Fits(r), Leaves(r, g),
           attempt' \in [Nonce -> Phase], turns' \in [Nonce -> 0..MaxTurns],
           answered' \in SUBSET Nonce,
           \A n \in Nonce : turns[n] > 0 => turns'[n] > 0,
           \A n \in Nonce : Fine(r, n)
    PROVE  IInv'
<1>1. TypeOK /\ Fits(file.records) /\ FileKeepsUp
  BY DEF IInv, Shape
<1>2. up' /\ records' = r /\ r \in Seq(Record) /\ Len(r) <= MaxRecords /\ UNCHANGED <<crashes, history>>
  BY DEF Leaves, Fits
<1>3. file' \in [records : Seq(Record), gaps : BOOLEAN] /\ Fits(file'.records)
  BY <1>1, <1>2 DEF Leaves, TypeOK
<1>4. TypeOK'
  BY <1>1, <1>2, <1>3 DEF TypeOK, Leaves, history, Phase
<1>5. ASSUME NEW n \in Nonce, StatusIn(file'.records, n, "accepted") PROVE turns'[n] > 0
  <2>1. CASE file' = file
    BY <1>5, <2>1 DEF IInv, Shape
  <2>2. CASE file'.records = r
    BY <1>5, <2>2 DEF Fine
  <2>. QED
    BY <2>1, <2>2 DEF Leaves
<1>6. Shape'
  BY <1>2, <1>3, <1>4, <1>5 DEF Shape, Fine
<1>7. MemoryTells' /\ FileTells'
  BY <1>2 DEF MemoryTells, FileTells, Fine, Once
<1>8. PendingIsKnown' /\ AnsweredSendsHaveTurns'
  <2>1. answered' \subseteq Nonce /\ interrupted' = interrupted /\ behind' = behind
    BY DEF history
  <2>. QED
    BY <1>2, <2>1 DEF PendingIsKnown, AnsweredSendsHaveTurns, Fine
<1>9. FileKeepsUp'
  BY <1>2 DEF FileKeepsUp, Leaves, history
<1>. QED
  BY <1>6, <1>7, <1>8, <1>9 DEF IInv

\* A nonce the step does not touch: the records may forget it only with a doubt.
LEMMA UntouchedIsFine ==
    ASSUME IInv, up, UNCHANGED blind, NEW r, Fits(r), Excused => Excused',
           NEW n \in Nonce, attempt'[n] = attempt[n], turns'[n] = turns[n],
           n \in answered' => n \in answered,
           StatusIn(r, n, "pending") => StatusIn(records, n, "pending"),
           StatusIn(r, n, "accepted") => StatusIn(records, n, "accepted"),
           Excused' \/ /\ StatusIn(records, n, "pending") => StatusIn(r, n, "pending")
                       /\ StatusIn(records, n, "accepted") => StatusIn(r, n, "accepted")
    PROVE  Fine(r, n)
<1>1. n \notin NoncesOf(records) => n \notin NoncesOf(r)
  BY NoncesAreTold DEF RecordStatus, Fits, IInv, Shape
<1>2. ~Excused => /\ turns[n] <= 1 /\ (turns[n] = 1 => StatusIn(records, n, "accepted"))
                  /\ attempt[n] = "sending" => StatusIn(records, n, "pending")
  BY DEF IInv, MemoryTells, Once
<1>3. /\ StatusIn(records, n, "accepted") => turns[n] > 0
      /\ attempt[n] = "building" => n \notin NoncesOf(records)
      /\ attempt[n] \in {"building", "sending"} => turns[n] < MaxTurns
      /\ attempt[n] = "turning" => turns[n] > 0
      /\ StatusIn(records, n, "pending") => attempt[n] = "sending" \/ n \in interrupted \/ behind
      /\ n \in answered => turns[n] > 0 \/ n \in interrupted \/ behind
  BY DEF IInv, Shape, PendingIsKnown, AnsweredSendsHaveTurns
<1>. QED
  BY <1>1, <1>2, <1>3 DEF Fine

\* What the invariant says of one nonce while the process is up.
LEMMA NonceFacts ==
    ASSUME IInv, up, NEW n \in Nonce
    PROVE  /\ turns[n] \in 0..MaxTurns /\ turns[n] \in Nat /\ MaxTurns \in Nat
           /\ attempt \in [Nonce -> Phase] /\ turns \in [Nonce -> 0..MaxTurns]
           /\ answered \in SUBSET Nonce /\ gaps \in BOOLEAN
           /\ Fits(records) /\ records \in Seq(Record) /\ Unique(records)
           /\ StatusIn(records, n, "accepted") => turns[n] > 0
           /\ attempt[n] = "building" => n \notin NoncesOf(records)
           /\ attempt[n] \in {"building", "sending"} => turns[n] < MaxTurns
           /\ attempt[n] = "turning" => turns[n] > 0
           /\ ~Excused => /\ turns[n] <= 1 /\ (turns[n] = 1 => StatusIn(records, n, "accepted"))
                          /\ attempt[n] = "sending" => StatusIn(records, n, "pending")
           /\ StatusIn(records, n, "pending")
                 => attempt[n] = "sending" \/ n \in interrupted \/ behind
           /\ n \in answered => turns[n] > 0 \/ n \in interrupted \/ behind
<1>1. turns[n] \in 0..MaxTurns /\ turns[n] \in Nat /\ MaxTurns \in Nat
  BY AcceptanceAssumption DEF IInv, Shape, TypeOK
<1>. QED
  BY <1>1 DEF IInv, Shape, TypeOK, MemoryTells, Once, PendingIsKnown,
              AnsweredSendsHaveTurns, Phase, Fits

LEMMA SendKeeps == ASSUME IInv, NEW n \in Nonce, Send(n) PROVE IInv'
<1>1. /\ up /\ attempt[n] = "none" /\ turns[n] < MaxTurns
      /\ UNCHANGED <<ledger, files, faults, up, turns, crashes, history, blind>>
  BY DEF Send, history
<1>2. Leaves(records, gaps) /\ (Excused' = Excused)
  BY <1>1, StaysLeaves DEF Excused, ledger
<1>. DEFINE Found == Lookup(n) = "found"
<1>3. Found <=> n \in NoncesOf(records)
  BY DEF Lookup
<1>4. /\ Found => answered' = answered \cup {n} /\ attempt' = attempt
      /\ ~Found => attempt' = [attempt EXCEPT ![n] = "building"] /\ answered' = answered
  BY DEF Send
<1>. HIDE DEF Found
<1>5. attempt' \in [Nonce -> Phase] /\ answered' \in SUBSET Nonce
  BY <1>1, <1>4, NonceFacts DEF Phase
<1>6. ASSUME NEW m \in Nonce, m # n PROVE Fine(records, m)
  <2>1. attempt'[m] = attempt[m] /\ turns'[m] = turns[m] /\ (m \in answered' => m \in answered)
    BY <1>1, <1>4, <1>6, NonceFacts
  <2>. QED
    BY <1>1, <1>2, <2>1, UntouchedIsFine, NonceFacts
<1>7. Fine(records, n)
  <2>1. n \in NoncesOf(records) <=>
           StatusIn(records, n, "pending") \/ StatusIn(records, n, "accepted")
    BY <1>1, NoncesAreTold, NonceFacts DEF RecordStatus
  <2>2. CASE Found
    BY <1>1, <1>2, <1>3, <1>4, <2>1, <2>2, NonceFacts DEF Fine
  <2>3. CASE ~Found
    <3>1. attempt'[n] = "building"
      BY <1>1, <1>4, <2>3, NonceFacts
    <3>. QED
      BY <1>1, <1>2, <1>3, <1>4, <2>1, <2>3, <3>1, NonceFacts DEF Fine
  <2>. QED
    BY <2>2, <2>3
<1>8. \A m \in Nonce : Fine(records, m)
  BY <1>6, <1>7
<1>. QED
  BY <1>1, <1>2, <1>5, <1>8, NonceFacts, UpStep

LEMMA EchoAndRecordKeeps == ASSUME IInv, NEW n \in Nonce, EchoAndRecord(n) PROVE IInv'
<1>. DEFINE added == Append(records, [nonce |-> n, status |-> "pending"])
            r == AfterEviction(added)
            g == GapsAfterEviction(added)
<1>1. /\ up /\ attempt[n] = "building" /\ attempt' = [attempt EXCEPT ![n] = "sending"]
      /\ UNCHANGED <<up, turns, answered, crashes, history, blind>>
      /\ Persist(r, g)
  BY DEF EchoAndRecord, RecordPending, history, IInv, Shape
<1>2. g \in BOOLEAN /\ (gaps => g) /\ (Evicts(added) => g)
  BY DEF GapsAfterEviction
<1>3. Leaves(r, g) /\ (Excused \/ g => Excused')
  <2>1. Leaves(r, g)
    BY <1>1, <1>2, PersistLeaves
  <2>. QED
    BY <1>1, <1>2, <2>1 DEF Leaves, Excused
<1>4. n \notin NoncesOf(records) /\ ~StatusIn(records, n, "accepted")
  BY <1>1, NoncesAreTold, NonceFacts DEF RecordStatus
<1>5. /\ added \in Seq(Record) /\ Unique(added) /\ Len(added) <= MaxRecords + 1
      /\ \A m, s : StatusIn(added, m, s) <=>
                       StatusIn(records, m, s) \/ (m = n /\ s = "pending")
  <2>1. Len(records) \in Nat /\ MaxRecords \in Nat /\ Len(records) <= MaxRecords
    BY <1>1, NonceFacts, LenProperties, AcceptanceAssumption DEF Fits
  <2>. QED
    BY <1>1, <1>4, <2>1, AppendTells, NonceFacts
<1>6. /\ Fits(r)
      /\ \A m, s : StatusIn(r, m, s) => StatusIn(added, m, s)
      /\ ~Evicts(added) => r = added
  BY <1>5, EvictionTells
<1>. HIDE DEF added, r, g
<1>7. attempt' \in [Nonce -> Phase] /\ attempt'[n] = "sending"
  BY <1>1, NonceFacts DEF Phase
<1>8. ASSUME NEW m \in Nonce, m # n PROVE Fine(r, m)
  <2>1. attempt'[m] = attempt[m] /\ turns'[m] = turns[m] /\ (m \in answered' => m \in answered)
    BY <1>1, <1>8, NonceFacts
  <2>2. \A s : StatusIn(r, m, s) => StatusIn(records, m, s)
    BY <1>5, <1>6, <1>8
  <2>3. Excused' \/ \A s : StatusIn(records, m, s) => StatusIn(r, m, s)
    BY <1>2, <1>3, <1>5, <1>6
  <2>. QED
    BY <1>1, <1>3, <1>6, <2>1, <2>2, <2>3, UntouchedIsFine
<1>9. Fine(r, n)
  <2>1. ~StatusIn(r, n, "accepted")
    BY <1>4, <1>5, <1>6
  <2>2. ~Excused' => StatusIn(r, n, "pending")
    BY <1>2, <1>3, <1>5, <1>6
  <2>. QED
    BY <1>1, <1>3, <1>4, <1>7, <2>1, <2>2, NonceFacts DEF Fine
<1>10. \A m \in Nonce : Fine(r, m)
  BY <1>8, <1>9
<1>. QED
  BY <1>1, <1>3, <1>6, <1>7, <1>10, NonceFacts, UpStep

LEMMA DispatchKeeps ==
    ASSUME IInv, NEW n \in Nonce, NEW awaitTurn \in BOOLEAN, Dispatch(n, awaitTurn)
    PROVE  IInv'
<1>1. /\ up /\ attempt[n] = "sending" /\ turns' = [turns EXCEPT ![n] = @ + 1]
      /\ UNCHANGED <<up, crashes, history, blind>> /\ MarkAccepted(n)
  BY DEF Dispatch, history, IInv, Shape
<1>2. /\ attempt' \in [Nonce -> Phase] /\ answered' \in SUBSET Nonce
      /\ attempt'[n] \in {"turning", "none"}
      /\ \A m \in Nonce : m # n => attempt'[m] = attempt[m] /\ (m \in answered' => m \in answered)
  <2>1. CASE awaitTurn
    BY <1>1, <2>1, NonceFacts DEF Dispatch, Phase
  <2>2. CASE ~awaitTurn
    BY <1>1, <2>2, NonceFacts DEF Dispatch, Phase
  <2>. QED
    BY <2>1, <2>2
<1>3. /\ turns' \in [Nonce -> 0..MaxTurns] /\ turns'[n] = turns[n] + 1 /\ turns'[n] > 0
      /\ \A m \in Nonce : m # n => turns'[m] = turns[m]
  BY <1>1, NonceFacts
<1>4. PICK r : /\ Fits(r) /\ Leaves(r, gaps)
               /\ StatusIn(records, n, "pending") => StatusIn(r, n, "accepted")
               /\ ~StatusIn(r, n, "pending")
               /\ \A m \in Nonce \ {n} : StatusIn(r, m, "accepted") <=> StatusIn(records, m, "accepted")
               /\ \A m \in Nonce \ {n} : StatusIn(r, m, "pending") <=> StatusIn(records, m, "pending")
  <2>1. CASE StatusIn(records, n, "pending")
    <3>. DEFINE r == Marked(records, n, "accepted")
    <3>1. Persist(r, gaps)
      BY <1>1, <2>1 DEF MarkAccepted
    <3>2. Leaves(r, gaps)
      BY <1>1, <3>1, PersistLeaves, NonceFacts
    <3>. HIDE DEF r
    <3>3. /\ Fits(r)
          /\ \A m : /\ StatusIn(r, m, "accepted") <=>
                          StatusIn(records, m, "accepted") \/ (m = n /\ StatusIn(records, n, "pending"))
                    /\ StatusIn(r, m, "pending") <=> StatusIn(records, m, "pending") /\ m # n
      BY <1>1, MarkTells, NonceFacts DEF r
    <3>. QED
      BY <2>1, <3>2, <3>3
  <2>2. CASE ~StatusIn(records, n, "pending")
    <3>1. Leaves(records, gaps)
      BY <1>1, <2>2, StaysLeaves DEF MarkAccepted
    <3>. QED
      BY <1>1, <2>2, <3>1, NonceFacts
  <2>. QED
    BY <2>1, <2>2
<1>5. Excused => Excused'
  BY <1>1, <1>4 DEF Leaves, Excused
<1>6. ASSUME NEW m \in Nonce, m # n PROVE Fine(r, m)
  BY <1>2, <1>3, <1>4, <1>5, <1>6, UntouchedIsFine, <1>1
<1>7. Fine(r, n)
  <2>1. ~Excused => StatusIn(r, n, "accepted") /\ turns[n] = 0
    BY <1>1, <1>4, NonceFacts, OneStatus
  <2>. QED
    BY <1>2, <1>3, <1>4, <1>5, <2>1 DEF Fine
<1>8. \A m \in Nonce : Fine(r, m) /\ (turns[m] > 0 => turns'[m] > 0)
  BY <1>3, <1>6, <1>7
<1>. QED
  BY <1>1, <1>2, <1>3, <1>4, <1>8, UpStep

LEMMA TurnEndsKeeps == ASSUME IInv, NEW n \in Nonce, TurnEnds(n) PROVE IInv'
<1>1. /\ up /\ attempt[n] = "turning" /\ attempt' = [attempt EXCEPT ![n] = "none"]
      /\ answered' = answered \cup {n}
      /\ UNCHANGED <<ledger, files, faults, up, turns, crashes, history, blind>>
  BY DEF TurnEnds, history, IInv, Shape
<1>2. Leaves(records, gaps) /\ (Excused' = Excused)
  BY <1>1, StaysLeaves DEF Excused, ledger
<1>3. /\ attempt' \in [Nonce -> Phase] /\ answered' \in SUBSET Nonce /\ attempt'[n] = "none"
      /\ \A m \in Nonce : m # n => attempt'[m] = attempt[m] /\ (m \in answered' => m \in answered)
  BY <1>1, NonceFacts DEF Phase
<1>4. ASSUME NEW m \in Nonce, m # n PROVE Fine(records, m)
  BY <1>1, <1>2, <1>3, <1>4, UntouchedIsFine, NonceFacts
<1>5. Fine(records, n)
  BY <1>1, <1>2, <1>3, NonceFacts DEF Fine
<1>6. \A m \in Nonce : Fine(records, m)
  BY <1>4, <1>5
<1>. QED
  BY <1>1, <1>2, <1>3, <1>6, NonceFacts, UpStep

LEMMA SendThrowsKeeps == ASSUME IInv, NEW n \in Nonce, SendThrows(n) PROVE IInv'
<1>1. /\ up /\ attempt' = [attempt EXCEPT ![n] = "none"] /\ ClearUnlessAccepted(n)
      /\ UNCHANGED <<up, turns, answered, crashes, history, blind>>
  BY DEF SendThrows, history, IInv, Shape
<1>2. /\ attempt' \in [Nonce -> Phase] /\ attempt'[n] = "none"
      /\ \A m \in Nonce : m # n => attempt'[m] = attempt[m]
  BY <1>1, NonceFacts DEF Phase
<1>3. PICK r : /\ Fits(r) /\ Leaves(r, gaps)
               /\ StatusIn(r, n, "accepted") <=> StatusIn(records, n, "accepted")
               /\ ~StatusIn(r, n, "pending")
               /\ \A m \in Nonce \ {n} : StatusIn(r, m, "accepted") <=> StatusIn(records, m, "accepted")
               /\ \A m \in Nonce \ {n} : StatusIn(r, m, "pending") <=> StatusIn(records, m, "pending")
  <2>1. CASE StatusIn(records, n, "pending")
    <3>. DEFINE r == Without(records, n)
    <3>1. Persist(r, gaps)
      BY <1>1, <2>1 DEF ClearUnlessAccepted
    <3>2. Leaves(r, gaps)
      BY <1>1, <3>1, PersistLeaves, NonceFacts
    <3>. HIDE DEF r
    <3>3. Fits(r) /\ \A m, s : StatusIn(r, m, s) <=> StatusIn(records, m, s) /\ m # n
      BY <1>1, <2>1, WithoutTells, NonceFacts DEF r
    <3>4. ~StatusIn(records, n, "accepted")
      BY <1>1, <2>1, OneStatus, NonceFacts
    <3>. QED
      BY <3>2, <3>3, <3>4
  <2>2. CASE ~StatusIn(records, n, "pending")
    <3>1. Leaves(records, gaps)
      BY <1>1, <2>2, StaysLeaves DEF ClearUnlessAccepted
    <3>. QED
      BY <1>1, <2>2, <3>1, NonceFacts
  <2>. QED
    BY <2>1, <2>2
<1>4. Excused => Excused'
  BY <1>1, <1>3 DEF Leaves, Excused
<1>5. ASSUME NEW m \in Nonce, m # n PROVE Fine(r, m)
  BY <1>1, <1>2, <1>3, <1>4, <1>5, UntouchedIsFine
<1>6. Fine(r, n)
  BY <1>1, <1>2, <1>3, <1>4, NonceFacts DEF Fine
<1>7. \A m \in Nonce : Fine(r, m)
  BY <1>5, <1>6
<1>. QED
  BY <1>1, <1>2, <1>3, <1>7, NonceFacts, UpStep

-----------------------------------------------------------------------------
(* The process and its disk.                                               *)

LEMMA EndsKeeps ==
    ASSUME IInv, Ends, damaged' \in BOOLEAN, markerFile' \in BOOLEAN, faults' \in 0..MaxFaults,
           file' = file \/ \E g \in BOOLEAN : file' = [records |-> records, gaps |-> g]
    PROVE  IInv'
<1>1. /\ up /\ ~up' /\ UNCHANGED <<turns, answered>>
      /\ attempt' = [n \in Nonce |-> "none"]
      /\ interrupted' = interrupted \cup {n \in Nonce : attempt[n] = "sending"}
      /\ records' = <<>> /\ gaps' = FALSE /\ degraded' = FALSE /\ markerMay' = FALSE
      /\ behind' = (behind \/ damaged' \/ file'.records # records)
      /\ blind' = (blind \/ (file' # [records |-> records, gaps |-> gaps \/ degraded]
                              /\ ~damaged' /\ ~markerFile'))
  BY DEF Ends
<1>2. crashes' \in 0..MaxCrashes
  BY AcceptanceAssumption DEF Ends, IInv, Shape, TypeOK
<1>3. /\ file' \in [records : Seq(Record), gaps : BOOLEAN] /\ Fits(file'.records)
      /\ file'.records \in {file.records, records}
  BY DEF IInv, Shape, TypeOK, Fits
<1>4. TypeOK'
  <2>1. /\ records' \in Seq(Record) /\ Len(records') <= MaxRecords
        /\ attempt' \in [Nonce -> {"none", "building", "sending", "turning"}]
        /\ interrupted' \in SUBSET Nonce
    BY <1>1, EmptyRecords DEF Fits, IInv, Shape, TypeOK
  <2>2. /\ {gaps', degraded', markerMay', up', behind', blind'} \subseteq BOOLEAN
        /\ turns' \in [Nonce -> 0..MaxTurns] /\ answered' \in SUBSET Nonce
    BY <1>1 DEF IInv, Shape, TypeOK, Ends
  <2>. QED
    BY <1>2, <1>3, <2>1, <2>2 DEF TypeOK
<1>5. Shape'
  BY <1>1, <1>3, <1>4, EmptyRecords DEF Shape, IInv
<1>6. FileTells'
  <2>1. SUFFICES ASSUME ~blind', ~damaged', ~markerFile', ~file'.gaps, NEW n \in Nonce
                 PROVE  turns[n] <= 1 /\ (turns[n] = 1 => StatusIn(file'.records, n, "accepted"))
    BY <1>1 DEF FileTells, Once
  <2>2. ~Excused /\ file'.records = records
    <3>1. ~blind /\ file' = [records |-> records, gaps |-> gaps \/ degraded]
      BY <1>1, <2>1
    <3>2. file'.gaps = (gaps \/ degraded) /\ file'.records = records
      BY <3>1
    <3>. QED
      BY <2>1, <3>1, <3>2 DEF Excused
  <2>. QED
    BY <1>1, <2>2 DEF IInv, MemoryTells, Once
<1>7. PendingIsKnown'
  <2>1. ASSUME NEW n \in Nonce, ~damaged', StatusIn(file'.records, n, "pending")
        PROVE  n \in interrupted' \/ behind'
    <3>1. CASE file'.records = records
      BY <1>1, <2>1, <3>1, NonceFacts
    <3>2. CASE file'.records # records
      BY <1>1, <3>2
    <3>. QED
      BY <3>1, <3>2
  <2>. QED
    BY <1>1, <2>1 DEF PendingIsKnown
<1>8. MemoryTells' /\ FileKeepsUp'
  BY <1>1 DEF MemoryTells, FileKeepsUp
<1>9. AnsweredSendsHaveTurns'
  BY <1>1 DEF AnsweredSendsHaveTurns, IInv
<1>. QED
  BY <1>5, <1>6, <1>7, <1>8, <1>9 DEF IInv

LEMMA CrashKeeps == ASSUME IInv, Crash PROVE IInv'
BY EndsKeeps DEF Crash, files, IInv, Shape, TypeOK

LEMMA DisposeKeeps == ASSUME IInv, Dispose PROVE IInv'
<1>1. /\ up /\ Ends /\ TypeOK /\ gaps \in BOOLEAN /\ degraded \in BOOLEAN
      /\ markerMay \in BOOLEAN /\ markerFile \in BOOLEAN /\ damaged \in BOOLEAN
  BY DEF Dispose, Ends, IInv, Shape, TypeOK
<1>2. markerFile => markerMay
  BY <1>1 DEF IInv, FileKeepsUp
<1>3. PICK o \in PersistOutcomes(gaps, degraded, markerMay, markerFile) : OnDisk(records, o)
  BY DEF Dispose
<1>4. /\ o.gaps \in BOOLEAN /\ o.marker \in BOOLEAN /\ o.saved \in BOOLEAN /\ o.cost \in Nat
  BY <1>1, <1>2, OutcomesAre
<1>5. faults' \in 0..MaxFaults
  BY <1>1, <1>3, <1>4, SpendIsBounded DEF OnDisk
<1>6. /\ damaged' \in BOOLEAN /\ markerFile' \in BOOLEAN
      /\ file' = file \/ file' = [records |-> records, gaps |-> o.gaps]
  BY <1>1, <1>3, <1>4 DEF OnDisk
<1>. QED
  BY <1>1, <1>4, <1>5, <1>6, EndsKeeps

LEMMA StartKeeps == ASSUME IInv, Start PROVE IInv'
<1>1. /\ ~up /\ up' /\ UNCHANGED <<attempt, turns, answered, crashes, interrupted>>
  BY DEF Start
<1>2. PICK readable \in BOOLEAN : Load(readable)
  BY DEF Start
<1>. DEFINE found == IF readable /\ ~damaged THEN file.records ELSE <<>>
            gap == markerFile \/ (readable /\ (damaged \/ file.gaps))
            cost == IF readable THEN 0 ELSE 1
<1>3. /\ TypeOK /\ damaged \in BOOLEAN /\ markerFile \in BOOLEAN /\ gap \in BOOLEAN
      /\ file.gaps \in BOOLEAN /\ cost \in Nat
      /\ file = [records |-> file.records, gaps |-> file.gaps]
  BY DEF IInv, Shape, TypeOK
<1>4. /\ behind' = (behind \/ ~readable) /\ blind' = (blind \/ (~readable /\ ~markerFile))
      /\ behind' \in BOOLEAN /\ blind' \in BOOLEAN
  BY <1>2, <1>3 DEF Load, TypeOK
<1>5. /\ records' = found
      /\ gaps' \in BOOLEAN /\ degraded' \in BOOLEAN /\ markerMay' \in BOOLEAN
      /\ damaged' \in BOOLEAN /\ markerFile' \in BOOLEAN
      /\ gap => gaps' \/ degraded'
      /\ markerFile \/ (readable /\ damaged) => gap
      /\ file' = file \/ file' = [records |-> found, gaps |-> gaps']
      /\ faults' \in 0..MaxFaults
      /\ degraded' \/ blind' \/ (~damaged' /\ file' = [records |-> found, gaps |-> gaps'])
      /\ markerFile' => markerMay'
  <2>1. CASE markerFile \/ (readable /\ damaged)
    <3>1. PICK o \in PersistOutcomes(gap, FALSE, markerFile, markerFile) :
             InMemory(found, o) /\ OnDisk(found, [o EXCEPT !.cost = @ + cost])
      BY <1>2, <2>1 DEF Load
    <3>2. /\ o.gaps \in BOOLEAN /\ o.degraded \in BOOLEAN /\ o.may \in BOOLEAN
          /\ o.marker \in BOOLEAN /\ o.saved \in BOOLEAN /\ o.cost \in Nat
          /\ o.marker => o.may
          /\ gap => o.gaps \/ o.degraded
          /\ o.degraded <=> ~o.saved
      <4>. DEFINE since == FALSE
      <4>1. since \in BOOLEAN /\ o \in PersistOutcomes(gap, since, markerFile, markerFile)
        BY <3>1
      <4>. HIDE DEF gap, found, cost, since
      <4>. QED
        BY <1>3, <4>1, OutcomesAre
    <3>. DEFINE p == [o EXCEPT !.cost = @ + cost]
    <3>3. /\ p.gaps = o.gaps /\ p.marker = o.marker /\ p.saved = o.saved
          /\ p.cost = o.cost + cost
      BY <3>1 DEF PersistOutcomes, Saved, NotSaved
    <3>. HIDE DEF p
    <3>4. InMemory(found, o) /\ OnDisk(found, p)
      BY <3>1 DEF p
    <3>. HIDE DEF found, cost
    <3>5. faults' \in 0..MaxFaults
      BY <1>3, <3>2, <3>3, <3>4, SpendIsBounded DEF OnDisk
    <3>. QED
      BY <1>3, <2>1, <3>2, <3>3, <3>4, <3>5 DEF InMemory, OnDisk
  <2>2. CASE ~(markerFile \/ (readable /\ damaged))
    <3>1. /\ records' = found /\ gaps' = gap /\ degraded' = FALSE /\ markerMay' = FALSE
          /\ Spend(cost) /\ UNCHANGED <<file, damaged, markerFile>>
      BY <1>2, <2>2 DEF Load, files
    <3>2. faults' \in 0..MaxFaults
      BY <1>3, <3>1, SpendIsBounded
    <3>. QED
      BY <1>3, <1>4, <2>2, <3>1, <3>2
  <2>. QED
    BY <2>1, <2>2
<1>6. Fits(found) /\ \A n \in Nonce : /\ StatusIn(found, n, "accepted") => turns[n] > 0
                                    /\ attempt[n] = "none"
  BY <1>1, EmptyRecords DEF IInv, Shape
<1>7. file' \in [records : Seq(Record), gaps : BOOLEAN] /\ Fits(file'.records)
      /\ file'.records \in {file.records, found}
  <2>. HIDE DEF found
  <2>. QED
    BY <1>5, <1>6 DEF IInv, Shape, TypeOK, Fits
<1>8. TypeOK'
  <2>. HIDE DEF found, gap
  <2>. QED
    BY <1>1, <1>3, <1>4, <1>5, <1>6, <1>7 DEF TypeOK, Fits
<1>9. Shape'
  <2>1. \A n \in Nonce : StatusIn(file.records, n, "accepted") => turns[n] > 0
    BY DEF IInv, Shape
  <2>. HIDE DEF found, gap
  <2>. QED
    BY <1>1, <1>5, <1>6, <1>7, <1>8, <2>1 DEF Shape
<1>10. MemoryTells'
  <2>1. SUFFICES ASSUME ~gaps', ~degraded', ~blind', NEW n \in Nonce
                 PROVE  turns[n] <= 1 /\ (turns[n] = 1 => StatusIn(found, n, "accepted"))
    BY <1>1, <1>5, <1>6 DEF MemoryTells, Excused, Once
  <2>2. ~gap /\ ~blind /\ readable /\ ~markerFile
    BY <1>4, <1>5, <2>1
  <2>3. ~damaged /\ ~file.gaps /\ found = file.records
    BY <2>2
  <2>. QED
    BY <1>1, <2>2, <2>3 DEF IInv, FileTells, Once
<1>11. PendingIsKnown'
  <2>1. ASSUME NEW n \in Nonce, StatusIn(found, n, "pending") PROVE n \in interrupted \/ behind
    BY <1>1, <2>1, EmptyRecords DEF IInv, PendingIsKnown
  <2>. QED
    BY <1>1, <1>4, <1>5, <2>1 DEF PendingIsKnown
<1>12. FileKeepsUp'
  BY <1>5 DEF FileKeepsUp
<1>13. FileTells' /\ AnsweredSendsHaveTurns'
  BY <1>1, <1>4 DEF FileTells, AnsweredSendsHaveTurns, IInv
<1>. QED
  BY <1>9, <1>10, <1>11, <1>12, <1>13 DEF IInv

LEMMA DamageKeeps == ASSUME IInv, Damage PROVE IInv'
<1>1. /\ ~up /\ damaged'
      /\ UNCHANGED <<records, gaps, degraded, markerMay, file, markerFile, up, attempt, turns,
                     answered, crashes, interrupted, behind, blind>>
  BY DEF Damage, ledger, history
<1>2. faults' \in 0..MaxFaults /\ damaged' \in BOOLEAN
  BY SpendIsBounded DEF Damage, IInv, Shape
<1>3. TypeOK'
  BY <1>1, <1>2 DEF TypeOK, IInv, Shape
<1>4. Shape'
  BY <1>1, <1>3 DEF Shape, IInv
<1>5. MemoryTells' /\ FileTells' /\ PendingIsKnown' /\ FileKeepsUp' /\ AnsweredSendsHaveTurns'
  BY <1>1 DEF MemoryTells, FileTells, PendingIsKnown, FileKeepsUp, AnsweredSendsHaveTurns, IInv
<1>. QED
  BY <1>4, <1>5 DEF IInv

-----------------------------------------------------------------------------
(* The theorems.                                                           *)

LEMMA NextIInv == IInv /\ [Next]_vars => IInv'
<1>. SUFFICES ASSUME IInv, [Next]_vars PROVE IInv'
  OBVIOUS
<1>1. ASSUME NEW n \in Nonce, Send(n) PROVE IInv'
  BY <1>1, SendKeeps
<1>2. ASSUME NEW n \in Nonce, EchoAndRecord(n) PROVE IInv'
  BY <1>2, EchoAndRecordKeeps
<1>3. ASSUME NEW n \in Nonce, TurnEnds(n) PROVE IInv'
  BY <1>3, TurnEndsKeeps
<1>4. ASSUME NEW n \in Nonce, SendThrows(n) PROVE IInv'
  BY <1>4, SendThrowsKeeps
<1>5. ASSUME NEW n \in Nonce, NEW awaitTurn \in BOOLEAN, Dispatch(n, awaitTurn) PROVE IInv'
  BY <1>5, DispatchKeeps
<1>6. CASE Crash
  BY <1>6, CrashKeeps
<1>7. CASE Dispose
  BY <1>7, DisposeKeeps
<1>8. CASE Start
  BY <1>8, StartKeeps
<1>9. CASE Damage
  BY <1>9, DamageKeeps
<1>10. CASE UNCHANGED vars
  BY <1>10 DEF vars, ledger, files, history, IInv, Shape, TypeOK, MemoryTells, FileTells,
               PendingIsKnown, FileKeepsUp, AnsweredSendsHaveTurns, Once, Excused
<1>. QED
  BY <1>1, <1>2, <1>3, <1>4, <1>5, <1>6, <1>7, <1>8, <1>9, <1>10 DEF Next

LEMMA IInvAlways == Spec => []IInv
BY InitIInv, NextIInv, PTL DEF Spec

\* Every reachable state of the ledger and of its sends has its type; the
\* ledger never holds more than its cap (prompt-acceptance-ledger.ts 318-333).
THEOREM LedgerTypeCorrect == Spec => []TypeOK
<1>1. IInv => TypeOK
  BY InvariantGives
<1>. QED
  BY <1>1, IInvAlways, PTL

\* Whatever is retried, evicted, damaged or lost, no send is dispatched twice
\* by a process whose ledger has not said that its history has a gap
\* (send-pipeline.ts 100-147, prompt-acceptance-ledger.ts 240-254).
THEOREM NoSilentSecondTurn == Spec => []OneTurnUnlessGap
<1>1. IInv => OneTurnUnlessGap
  BY InvariantGives
<1>. QED
  BY <1>1, IInvAlways, PTL

\* lookup says not-found of no send that was dispatched, unless a process lost
\* what it knew without a trace (prompt-acceptance-ledger.ts 225-239, 338-369).
THEOREM NotFoundStaysHonest == Spec => []NotFoundIsHonest
<1>1. IInv => NotFoundIsHonest
  BY InvariantGives
<1>. QED
  BY <1>1, IInvAlways, PTL

\* The file is what memory holds, and a marker is known of while it exists
\* (prompt-acceptance-ledger.ts 367, 403-424).
THEOREM FileAlwaysKeepsUp == Spec => []FileKeepsUp
<1>1. IInv => FileKeepsUp
  BY DEF IInv
<1>. QED
  BY <1>1, IInvAlways, PTL

\* A send that was answered has its turn, unless a process ended within it or
\* with its file behind (send-pipeline.ts 128-145, 325-332).
THEOREM AnsweredMeansDispatched == Spec => []AnsweredSendsHaveTurns
<1>1. IInv => AnsweredSendsHaveTurns
  BY DEF IInv
<1>. QED
  BY <1>1, IInvAlways, PTL
=============================================================================
