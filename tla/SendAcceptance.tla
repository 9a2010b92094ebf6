--------------------------- MODULE SendAcceptance ---------------------------
(***************************************************************************)
(* How the host accepts a prompt once (host/extensions/transcript): the    *)
(* send path (send-pipeline.ts, send-turn-dispatch.ts) and the acceptance  *)
(* ledger it asks (prompt-acceptance-ledger.ts).  A client names each send *)
(* with a nonce and sends again until it is answered.  The ledger keeps    *)
(* one record for each nonce, in memory and in a file it rewrites at every *)
(* change; a rewrite that fails leaves a marker file, so that after a      *)
(* restart a missing record is reported as unknown rather than not found.  *)
(*                                                                         *)
(* A step is one JavaScript job.  Of historyGaps only null or not matters  *)
(* to lookup, so gaps is a BOOLEAN.  The input digest is left out: a       *)
(* mismatch only throws.  load() runs in the first call after a start and  *)
(* nobody else writes the file, so it is part of Start.  markRejected has  *)
(* no caller in the repository.  Group and remote-room sends, which accept *)
(* in send-group-fanout.ts, are not modelled.                              *)
(***************************************************************************)
EXTENDS Naturals, Sequences, SequencesExt

CONSTANTS Nonce,       \* the sends
          MaxRecords,  \* MAX_RECORDS
          MaxTurns,    \* bound on the turns of one nonce
          MaxCrashes,  \* bound on crashes and shutdowns
          MaxFaults    \* bound on failed file operations

ASSUME AcceptanceAssumption ==
    /\ MaxRecords \in Nat \ {0}
    /\ {MaxTurns, MaxCrashes, MaxFaults} \subseteq Nat

VARIABLES
    \* the ledger in memory
    records,     \* loaded.records, in insertion order
    gaps,        \* loaded.gaps # null
    degraded,    \* degradedSinceMs # null
    markerMay,   \* markerMayExist
    \* its files
    file,        \* what the last rename left: records and historyGaps
    damaged,     \* the file does not parse
    markerFile,  \* the .degraded file exists
    \* the send path
    up,
    attempt,     \* what sendPromptOnce awaits, by nonce (inFlightSends)
    turns,       \* turns enqueued
    answered,    \* the nonces whose sendPrompt has returned
    crashes, faults,
    \* for the properties only
    interrupted, \* a process ended between recordPending and the dispatch
    behind,      \* a process ended while the file was behind memory
    blind        \* ... and no marker told the next one

ledger == <<records, gaps, degraded, markerMay>>
files == <<file, damaged, markerFile>>
history == <<interrupted, behind, blind>>
vars == <<ledger, files, up, attempt, turns, answered, crashes, faults, history>>

Record == [nonce : Nonce, status : {"pending", "accepted"}]

TypeOK ==
    /\ records \in Seq(Record)
    /\ gaps \in BOOLEAN /\ degraded \in BOOLEAN /\ markerMay \in BOOLEAN
    /\ file \in [records : Seq(Record), gaps : BOOLEAN]
    /\ damaged \in BOOLEAN /\ markerFile \in BOOLEAN
    /\ up \in BOOLEAN
    /\ attempt \in [Nonce -> {"none", "building", "sending", "turning"}]
    /\ turns \in [Nonce -> 0..MaxTurns]
    /\ answered \in SUBSET Nonce
    /\ crashes \in 0..MaxCrashes /\ faults \in 0..MaxFaults
    /\ interrupted \in SUBSET Nonce
    /\ behind \in BOOLEAN /\ blind \in BOOLEAN
    /\ Len(records) <= MaxRecords

Init ==
    /\ records = <<>> /\ gaps = FALSE /\ degraded = FALSE /\ markerMay = FALSE
    /\ file = [records |-> <<>>, gaps |-> FALSE]
    /\ damaged = FALSE /\ markerFile = FALSE
    /\ up = TRUE
    /\ attempt = [n \in Nonce |-> "none"]
    /\ turns = [n \in Nonce |-> 0]
    /\ answered = {}
    /\ crashes = 0 /\ faults = 0
    /\ interrupted = {} /\ behind = FALSE /\ blind = FALSE

-----------------------------------------------------------------------------
(* The ledger.                                                             *)

NoncesOf(r) == {r[i].nonce : i \in DOMAIN r}
StatusIn(r, n, s) == \E i \in DOMAIN r : r[i] = [nonce |-> n, status |-> s]
Without(r, n) == RemoveAt(r, CHOOSE i \in DOMAIN r : r[i].nonce = n)
Marked(r, n, s) ==
    [i \in DOMAIN r |-> IF r[i].nonce = n THEN [r[i] EXCEPT !.status = s] ELSE r[i]]

Lookup(n) ==
    IF n \in NoncesOf(records) THEN "found"
    ELSE IF gaps \/ degraded THEN "unknown-durability" ELSE "not-found"

\* evictPastCap drops the oldest record that is not pending, or else the
\* oldest record, and remembers that history has a gap.
OldestCompleted(r, i) ==
    /\ r[i].status # "pending"
    /\ \A j \in 1..(i - 1) : r[j].status = "pending"
Victim(r) ==
    IF \E i \in DOMAIN r : OldestCompleted(r, i)
    THEN CHOOSE i \in DOMAIN r : OldestCompleted(r, i)
    ELSE 1
Evicts(r) == Len(r) > MaxRecords
KeepsAll(r) == r
AfterEviction(r) == IF Evicts(r) THEN RemoveAt(r, Victim(r)) ELSE r

GapsAfterEviction(r) == gaps \/ Evicts(r)

\* persist, called with records r and gaps g while degraded is `since`,
\* markerMayExist is `may` and the marker file `marker`: the rename succeeds and
\* the marker is removed, unless rmSync throws; or the file cannot be written
\* and the marker is, unless that fails too.  cost counts what failed.
Saved(g, may, marker, cost) ==
    [saved |-> TRUE, gaps |-> g, degraded |-> FALSE, may |-> may,
     marker |-> marker, cost |-> cost]
NotSaved(g, may, marker, cost) ==
    [saved |-> FALSE, gaps |-> g, degraded |-> TRUE, may |-> may,
     marker |-> marker, cost |-> cost]

PersistOutcomes(g, since, may, marker) ==
    {Saved(g \/ since, FALSE, marker /\ ~may, 0), NotSaved(g, TRUE, ~may \/ marker, 1)}
    \cup IF may THEN {Saved(g \/ since, TRUE, marker, 1)}
                ELSE {NotSaved(g, FALSE, marker, 2)}

Spend(n) == faults + n <= MaxFaults /\ faults' = faults + n

OnDisk(r, o) ==
    /\ Spend(o.cost)
    /\ file' = IF o.saved THEN [records |-> r, gaps |-> o.gaps] ELSE file
    /\ damaged' = (damaged /\ ~o.saved)
    /\ markerFile' = o.marker

InMemory(r, o) ==
    /\ records' = r
    /\ gaps' = o.gaps
    /\ degraded' = o.degraded
    /\ markerMay' = o.may

Persist(r, g) ==
    \E o \in PersistOutcomes(g, degraded, markerMay, markerFile) :
        InMemory(r, o) /\ OnDisk(r, o)

RecordPending(n) ==
    LET added == Append(records, [nonce |-> n, status |-> "pending"])
    IN  Persist(AfterEviction(added), GapsAfterEviction(added))

MarkInMemory(n) ==
    /\ records' = Marked(records, n, "accepted")
    /\ UNCHANGED <<gaps, degraded, markerMay, files, faults>>
MarkAccepted(n) ==
    IF StatusIn(records, n, "pending")
    THEN Persist(Marked(records, n, "accepted"), gaps)
    ELSE UNCHANGED <<ledger, files, faults>>

ClearNothing(n) == UNCHANGED <<ledger, files, faults>>
ClearUnlessAccepted(n) ==
    IF StatusIn(records, n, "pending")
    THEN Persist(Without(records, n), gaps)
    ELSE UNCHANGED <<ledger, files, faults>>

-----------------------------------------------------------------------------
(* sendPrompt.                                                             *)

\* A send while another attempt of the nonce runs joins it and changes
\* nothing.  admitSend dispatches unless it finds the record.
Send(n) ==
    /\ up /\ attempt[n] = "none"
    /\ turns[n] < MaxTurns
    /\ IF Lookup(n) = "found"
       THEN answered' = answered \cup {n} /\ UNCHANGED attempt
       ELSE attempt' = [attempt EXCEPT ![n] = "building"] /\ UNCHANGED answered
    /\ UNCHANGED <<ledger, files, up, turns, crashes, faults, history>>

\* The echoes are in the transcript: the send is recorded as pending.
EchoAndRecord(n) ==
    /\ attempt[n] = "building"
    /\ attempt' = [attempt EXCEPT ![n] = "sending"]
    /\ RecordPending(n)
    /\ UNCHANGED <<up, turns, answered, crashes, history>>

\* dispatchUserTurn enqueues the turn and marks the send accepted.  Without
\* awaitTurn the call returns at once.
Dispatch(n, awaitTurn) ==
    /\ attempt[n] = "sending"
    /\ turns' = [turns EXCEPT ![n] = @ + 1]
    /\ MarkAccepted(n)
    /\ IF awaitTurn
       THEN attempt' = [attempt EXCEPT ![n] = "turning"] /\ UNCHANGED answered
       ELSE attempt' = [attempt EXCEPT ![n] = "none"] /\ answered' = answered \cup {n}
    /\ UNCHANGED <<up, crashes, history>>

TurnEnds(n) ==
    /\ attempt[n] = "turning"
    /\ attempt' = [attempt EXCEPT ![n] = "none"]
    /\ answered' = answered \cup {n}
    /\ UNCHANGED <<ledger, files, up, turns, crashes, faults, history>>

\* sendPromptOnce throws, wherever it is: the catch of sendPrompt.
SendThrows(n) ==
    /\ attempt[n] # "none"
    /\ attempt' = [attempt EXCEPT ![n] = "none"]
    /\ ClearUnlessAccepted(n)
    /\ UNCHANGED <<up, turns, answered, crashes, history>>

-----------------------------------------------------------------------------
(* The process and its disk.                                               *)

\* The process ends and its memory with it.  The file is behind if it does not
\* hold the records, and the next process is blind if nothing will tell it.
Ends ==
    /\ up /\ crashes < MaxCrashes
    /\ up' = FALSE
    /\ crashes' = crashes + 1
    /\ attempt' = [n \in Nonce |-> "none"]
    /\ interrupted' = interrupted \cup {n \in Nonce : attempt[n] = "sending"}
    /\ records' = <<>> /\ gaps' = FALSE /\ degraded' = FALSE /\ markerMay' = FALSE
    /\ behind' = (behind \/ damaged' \/ file'.records # records)
    /\ blind' = (blind \/ (file' # [records |-> records, gaps |-> gaps \/ degraded]
                              /\ ~damaged' /\ ~markerFile'))
    /\ UNCHANGED <<turns, answered>>

Crash ==
    /\ UNCHANGED <<files, faults>>
    /\ Ends

\* dispose persists once more.
Dispose ==
    /\ \E o \in PersistOutcomes(gaps, degraded, markerMay, markerFile) : OnDisk(records, o)
    /\ Ends

\* load in the first call after a start.  A file that cannot be read counts as
\* no file; one that does not parse, or a marker, is a gap, persisted at once.
LoadIgnoringMarker(readable) ==
    /\ readable
    /\ records' = IF damaged THEN <<>> ELSE file.records
    /\ gaps' = (damaged \/ file.gaps)
    /\ degraded' = FALSE /\ markerMay' = FALSE
    /\ UNCHANGED <<files, faults, behind, blind>>
LoadIgnoringDamage(readable) ==
    /\ readable
    /\ records' = IF damaged THEN <<>> ELSE file.records
    /\ gaps' = (markerFile \/ (~damaged /\ file.gaps))
    /\ degraded' = FALSE /\ markerMay' = FALSE
    /\ UNCHANGED <<files, faults, behind, blind>>
Load(readable) ==
    LET found == IF readable /\ ~damaged THEN file.records ELSE <<>>
        gap == markerFile \/ (readable /\ (damaged \/ file.gaps))
        cost == IF readable THEN 0 ELSE 1
    IN  /\ IF markerFile \/ (readable /\ damaged)
           THEN \E o \in PersistOutcomes(gap, FALSE, markerFile, markerFile) :
                   InMemory(found, o) /\ OnDisk(found, [o EXCEPT !.cost = @ + cost])
           ELSE /\ records' = found
                /\ gaps' = gap
                /\ degraded' = FALSE /\ markerMay' = FALSE
                /\ Spend(cost)
                /\ UNCHANGED files
        /\ behind' = (behind \/ ~readable)
        /\ blind' = (blind \/ (~readable /\ ~markerFile))

Start ==
    /\ ~up
    /\ up' = TRUE
    /\ \E readable \in BOOLEAN : Load(readable)
    /\ UNCHANGED <<attempt, turns, answered, crashes, interrupted>>

\* Something outside the program damages the file.
Damage ==
    /\ ~up /\ ~damaged
    /\ Spend(1)
    /\ damaged' = TRUE
    /\ UNCHANGED <<ledger, file, markerFile, up, attempt, turns, answered,
                   crashes, history>>

Next ==
    \/ \E n \in Nonce : Send(n) \/ EchoAndRecord(n) \/ TurnEnds(n) \/ SendThrows(n)
    \/ \E n \in Nonce, awaitTurn \in BOOLEAN : Dispatch(n, awaitTurn)
    \/ Crash \/ Dispose \/ Start \/ Damage

Spec == Init /\ [][Next]_vars

-----------------------------------------------------------------------------
(* Safety.                                                                 *)

\* lookup never says not-found of a send whose turn was dispatched, unless a
\* process ended with neither the file nor the marker telling of its records,
\* or the file could not be read (prompt-acceptance-ledger.ts 225-239,
\* 338-369, 382-425).
NotFoundIsHonest ==
    \A n \in Nonce :
        up /\ turns[n] > 0 /\ attempt[n] = "none" /\ Lookup(n) = "not-found" => blind

\* A nonce gets a second turn only when the ledger has said that its history
\* has a gap: whatever the client retries and whenever the host dies, a whole
\* ledger dispatches each send once (send-pipeline.ts 100-147,
\* prompt-acceptance-ledger.ts 240-254).
OneTurnUnlessGap ==
    \A n \in Nonce : turns[n] > 1 => (~up \/ gaps \/ degraded \/ blind)

\* A client that is told its send is accepted has its turn, unless the process
\* ended between the pending record and the dispatch, or an earlier one left
\* the file behind its memory (send-pipeline.ts 128-145, 325-332).
AnsweredSendsHaveTurns ==
    \A n \in answered : turns[n] > 0 \/ n \in interrupted \/ behind

\* While no rewrite has failed, the file is what memory holds, so a crash loses
\* nothing; and a marker is known of while it exists
\* (prompt-acceptance-ledger.ts 367, 403-424).
FileKeepsUp ==
    up => /\ degraded \/ blind \/ (~damaged /\ file = [records |-> records, gaps |-> gaps])
          /\ markerFile => markerMay
=============================================================================
