------------------------ MODULE AckObligationsProofs ------------------------
(***************************************************************************)
(* Proofs that an obligation to answer is kept, is driven and is counted,  *)
(* for every set of sends and runs and every bound.                        *)
(***************************************************************************)
EXTENDS AckObligations, FiniteSetTheorems, TLAPS

Obligation == [attempts : 0..MaxRedrives, sends : SUBSET Send]
Count == [faults : 0..MaxFaults, crashes : 0..MaxCrashes, quiesces : 0..MaxQuiesces]

-----------------------------------------------------------------------------
(* Facts about the shared pieces.                                          *)

\* The empty obligation, a joined one and a further attempt are obligations.
LEMMA Obligations ==
    /\ NoObligation \in Obligation /\ ~Owing(NoObligation)
    /\ \A o \in Obligation, s \in Send :
          RecordSend(o, s) \in Obligation /\ Owing(RecordSend(o, s))
    /\ \A o \in Obligation :
          o.attempts < MaxRedrives =>
             /\ [o EXCEPT !.attempts = @ + 1] \in Obligation
             /\ [o EXCEPT !.attempts = @ + 1].sends = o.sends
             /\ [o EXCEPT !.attempts = @ + 1].attempts = o.attempts + 1
BY AckAssumption DEF Obligation, NoObligation, Owing, RecordSend

\* A failed file operation is counted, within its bound.
LEMMA FaultCounts ==
    ASSUME used \in Count, NEW n \in {0, 1}, Fault(n)
    PROVE  used' \in Count /\ used'.faults = used.faults + n
BY AckAssumption DEF Count, Fault

\* A write leaves typed obligations, and cache and file equal when it succeeds.
LEMMA Writes ==
    ASSUME used \in Count, {store, file} \subseteq Obligation,
           NEW o \in Obligation, NEW ok \in BOOLEAN, Write(o, ok)
    PROVE  /\ {store', file'} \subseteq Obligation
           /\ used' \in Count
           /\ ok => store' = o /\ file' = o /\ used'.faults = used.faults
           /\ ~ok => store' = store /\ file' = file /\ used'.faults = used.faults + 1
<1>1. CASE ok
  BY <1>1, FaultCounts DEF Write, Count
<1>2. CASE ~ok
  BY <1>2, FaultCounts DEF Write
<1>. QED
  BY <1>1, <1>2

-----------------------------------------------------------------------------
(* The types.                                                              *)

\* The initial state is typed.
LEMMA TypeInit == Init => TypeOK
<1> SUFFICES ASSUME Init PROVE TypeOK
  OBVIOUS
<1>1. {store, file} \subseteq Obligation /\ used \in Count
  BY Obligations, AckAssumption DEF Init, Count
<1>2. phase \in [Turn -> Phase]
  BY DEF Init, Phase
<1>3. {up, gone, quiescing, timer, missed} \subseteq BOOLEAN
  BY DEF Init
<1>. QED
  BY <1>1, <1>2, <1>3 DEF Init, TypeOK, Obligation, Count

\* Every step keeps the types.
LEMMA TypeNext == TypeOK /\ [Next]_vars => TypeOK'
<1> SUFFICES ASSUME TypeOK, [Next]_vars PROVE TypeOK'
  OBVIOUS
<1>t. /\ used \in Count /\ store \in Obligation /\ file \in Obligation
      /\ {store, file} \subseteq Obligation
  BY DEF TypeOK, Count, Obligation
<1>s. Send \subseteq Turn \ Wake /\ Redrive \subseteq Turn \ Wake
      /\ Resume \subseteq Turn \ Wake /\ Wake \subseteq Turn
  BY AckAssumption DEF Turn
<1>c. ASSUME NEW ok \in BOOLEAN, Clear(ok)
      PROVE  /\ {store', file'} \subseteq Obligation /\ used' \in Count
             /\ begun' \in Nat /\ mine' \subseteq Redrive
  BY <1>c, <1>t, Obligations, Writes DEF Clear, Forget, TypeOK
<1>e. ASSUME NEW t \in Turn, NEW rest \in Phase, NEW o, EndSessionRun(t, rest, o)
      PROVE  phase' \in [Turn -> Phase] /\ {timer', missed'} \subseteq BOOLEAN
  BY <1>e DEF EndSessionRun, ArmTimer, Owing, TypeOK
<1>r. \A t \in Turn : Rest(t) \in Phase
  BY DEF Rest, Phase
<1>1. ASSUME NEW s \in Send, Pin(s) PROVE TypeOK'
  BY <1>1, <1>s DEF Pin, TypeOK, Phase
<1>2. ASSUME NEW s \in Send, RecordObligation(s) PROVE TypeOK'
  <2>1. {store', file'} \subseteq Obligation /\ used' \in Count
    BY <1>2, <1>t, Obligations, Writes DEF RecordObligation
  <2>. QED
    BY <1>2, <1>s, <2>1 DEF RecordObligation, TypeOK, Phase, Obligation, Count, counted
<1>3. ASSUME NEW s \in Send, SendFails(s) PROVE TypeOK'
  <2>1. {store', file'} \subseteq Obligation /\ used' \in Count
    BY <1>3, <1>t, Obligations, Writes DEF SendFails
  <2>2. phase' \in [Turn -> Phase] /\ {timer', missed'} \subseteq BOOLEAN
    <3>1. "failed" \in Phase
      BY DEF Phase
    <3>. QED
      BY <1>3, <1>s, <1>e, <3>1 DEF SendFails
  <2>. QED
    BY <1>3, <2>1, <2>2 DEF SendFails, TypeOK, Obligation, Count
<1>4. ASSUME NEW s \in Send, Dispatch(s) PROVE TypeOK'
  <2>1. {store', file'} \subseteq Obligation /\ used' \in Count
    BY <1>4, <1>t, Obligations, Writes DEF Dispatch
  <2>2. excused' \subseteq Send
    BY <1>4 DEF Dispatch, TypeOK
  <2>. QED
    BY <1>4, <1>s, <2>1, <2>2 DEF Dispatch, TypeOK, Phase, Obligation, Count
<1>5. ASSUME NEW t \in Turn, Start(t) PROVE TypeOK'
  <2>1. phase' \in [Turn -> Phase] /\ {timer', missed'} \subseteq BOOLEAN
        /\ tokens' \subseteq Turn \ Wake
    <3>1. CASE t \in Redrive /\ ~Owing(store)
      BY <1>5, <1>e, <1>r, <3>1 DEF Start, TypeOK
    <3>2. CASE ~(t \in Redrive /\ ~Owing(store))
      BY <1>5, <3>2 DEF Start, TypeOK, Phase
    <3>. QED
      BY <3>1, <3>2
  <2>. QED
    BY <1>5, <2>1 DEF Start, TypeOK
<1>6. ASSUME NEW t \in Turn, Message(t) PROVE TypeOK'
  <2>1. /\ {store', file'} \subseteq Obligation /\ used' \in Count
        /\ begun' \in Nat /\ mine' \subseteq Redrive /\ timer' \in BOOLEAN
    BY <1>6, <1>t, <1>c DEF Message, TypeOK
  <2>2. answered' \subseteq Send
    BY <1>6 DEF Message, TypeOK, Dispatched
  <2>. QED
    BY <1>6, <2>1, <2>2 DEF Message, TypeOK, Obligation, Count
<1>7. ASSUME NEW t \in Turn, TurnEnds(t) PROVE TypeOK'
  <2>1. phase' \in [Turn -> Phase] /\ {timer', missed'} \subseteq BOOLEAN
    BY <1>7, <1>e, <1>r DEF TurnEnds
  <2>. QED
    BY <1>7, <2>1 DEF TurnEnds, TypeOK
<1>8. ASSUME NEW t \in Turn, TurnQuiesces(t) PROVE TypeOK'
  <2>1. phase' \in [Turn -> Phase] /\ {timer', missed'} \subseteq BOOLEAN
    BY <1>8, <1>e, <1>r DEF TurnQuiesces
  <2>2. marker' \in {"none", "turn", "revival"}
    BY <1>8 DEF TurnQuiesces, Marked, TypeOK
  <2>. QED
    BY <1>8, <2>1, <2>2 DEF TurnQuiesces, TypeOK
<1>9. ASSUME NEW t \in Turn, Escape(t) PROVE TypeOK'
  <2>1. phase' \in [Turn -> Phase]
    BY <1>9, <1>s DEF Escape, TypeOK, Phase
  <2>. QED
    BY <1>9, <2>1 DEF Escape, TypeOK, counted
<1>10. ASSUME NEW w \in Wake, WakeBegins(w) PROVE TypeOK'
  BY <1>10, <1>s DEF WakeBegins, TypeOK, Phase
<1>11. ASSUME NEW r \in Redrive, TimerFires(r) PROVE TypeOK'
  <2>1. CASE quiescing \/ ~Owing(store)
    BY <1>11, <2>1 DEF TimerFires, TypeOK, Owing
  <2>2. ASSUME ~quiescing, NEW ok \in BOOLEAN, GiveUp(ok) PROVE TypeOK'
    <3>1. excused' \subseteq Send
      BY <2>2 DEF GiveUp, TypeOK, Dispatched
    <3>. QED
      BY <1>11, <1>c, <2>2, <3>1 DEF TimerFires, GiveUp, TypeOK, Obligation, Count
  <2>3. ASSUME ~(store.attempts >= MaxRedrives), NEW ok \in BOOLEAN, RedriveBegins(r, ok)
        PROVE  TypeOK'
    <3>1. {store', file'} \subseteq Obligation /\ used' \in Count
      <4>1. store.attempts < MaxRedrives
        BY <1>t, <2>3, AckAssumption DEF Obligation
      <4>. QED
        BY <1>t, <2>3, <4>1, Obligations, Writes DEF RedriveBegins
    <3>. QED
      BY <1>11, <1>s, <2>3, <3>1 DEF TimerFires, RedriveBegins, TypeOK, Phase, Obligation, Count
  <2>. QED
    BY <1>11, <2>1, <2>2, <2>3 DEF TimerFires
<1>12. ASSUME NEW r \in Redrive, RedriveResolved(r) PROVE TypeOK'
  <2>1. begun' \in Nat
    BY <1>12 DEF RedriveResolved, TypeOK
  <2>2. phase' \in [Turn -> Phase] /\ tokens' \subseteq Turn \ Wake
    BY <1>12, <1>s DEF RedriveResolved, TypeOK, Phase
  <2>. QED
    BY <1>12, <2>1, <2>2 DEF RedriveResolved, TypeOK
<1>13. ASSUME NEW r \in Redrive, RedriveUnresolved(r) PROVE TypeOK'
  BY <1>13, <1>s DEF RedriveUnresolved, ArmTimer, Owing, TypeOK, Phase
<1>14. ASSUME NEW t \in Resume \cup Wake, ResumeResolved(t) PROVE TypeOK'
  BY <1>14, <1>s DEF ResumeResolved, TypeOK, Phase
<1>15. ASSUME NEW t \in Resume \cup Wake, ResumeUnresolved(t) PROVE TypeOK'
  BY <1>15, <1>s DEF ResumeUnresolved, TypeOK, Phase, counted
<1>16. CASE Quiesce
  BY <1>16, AckAssumption DEF Quiesce, TypeOK, counted
<1>m. ASSUME NEW m, ResumeMarked(m) PROVE phase' \in [Turn -> Phase]
  BY <1>m, <1>s DEF ResumeMarked, Resumed, TypeOK, Phase
<1>17. CASE ResumeAfterRecreate
  BY <1>17, <1>m DEF ResumeAfterRecreate, TypeOK, counted
<1>18. CASE DeleteAgent
  <2>1. /\ {store', file'} \subseteq Obligation /\ used' \in Count
        /\ begun' \in Nat /\ mine' \subseteq Redrive
        /\ timer' \in BOOLEAN /\ missed' \in BOOLEAN
    BY <1>18, <1>t, <1>c DEF DeleteAgent, TypeOK
  <2>. QED
    BY <1>18, <2>1 DEF DeleteAgent, TypeOK, Obligation, Count
<1>19. CASE Exit
  <2>1. phase' \in [Turn -> Phase]
    BY <1>19 DEF Exit, AfterEnd, TypeOK, Phase
  <2>2. marker' \in {"none", "turn", "revival"}
    BY <1>19 DEF Exit, LastSource, TypeOK
  <2>3. used' \in Count
    BY <1>19, <1>t, AckAssumption DEF Exit, Count
  <2>. QED
    BY <1>19, <2>1, <2>2, <2>3 DEF Exit, TypeOK, Count
<1>20. CASE Boot
  <2>1. ASSUME NEW n \in {0, 1}, BootAt(n)
        PROVE  /\ store' \in Obligation /\ used' \in Count
               /\ excused' \subseteq Send /\ begun' \in Nat
    BY <2>1, <1>t, Obligations, FaultCounts DEF BootAt, TypeOK, Dispatched
  <2>2. phase' \in [Turn -> Phase]
    BY <1>20, <1>m DEF Boot, TypeOK
  <2>. QED
    BY <1>20, <2>1, <2>2 DEF Boot, TypeOK, Owing, Obligation, Count
<1>21. CASE UNCHANGED vars
  BY <1>21 DEF vars, counted, TypeOK
<1>. QED
  BY <1>1, <1>2, <1>3, <1>4, <1>5, <1>6, <1>7, <1>8, <1>9, <1>10, <1>11, <1>12, <1>13,
     <1>14, <1>15, <1>16, <1>17, <1>18, <1>19, <1>20, <1>21 DEF Next

\* The state has its types for every set of sends and runs (TypeOK).
THEOREM AckTypeCorrect == Spec => []TypeOK
BY TypeInit, TypeNext, PTL DEF Spec

-----------------------------------------------------------------------------
(* What is owed is kept.                                                   *)

\* The token of an escaped run is retired (run-lifecycle.ts:84).
TokensAreLive == \A t \in tokens : phase[t] # "zombie"

\* An obligation in the cache is the one in the file.  The cache may be empty
\* beside a file that could not be read.
CacheAgrees == Owing(store) => store = file

OwedInv == TypeOK /\ TokensAreLive /\ CacheAgrees /\ UnansweredIsOwed

\* The sends dispatched and neither answered nor excused.
Unanswered == Dispatched \ (answered \cup excused)

\* An operation that writes no obligation and answers no more keeps CacheAgrees
\* and UnansweredIsOwed, when it dispatches nothing and the process does not start.
LEMMA OwedFrame ==
    ASSUME OwedInv, Unanswered' \subseteq Unanswered, UNCHANGED <<store, file>>,
           gone => gone', up' => up
    PROVE  CacheAgrees' /\ UnansweredIsOwed'
BY DEF OwedInv, CacheAgrees, UnansweredIsOwed, Unanswered, Owing

\* So does one that writes an obligation, or fails to write one.
LEMMA OwedWrite ==
    ASSUME OwedInv, NEW o \in Obligation, NEW ok \in BOOLEAN, Write(o, ok),
           Owing(o) \/ Unanswered' = {} \/ gone' \/ ~ok,
           ok \/ Unanswered' \subseteq Unanswered,
           gone => gone', up' => up
    PROVE  CacheAgrees' /\ UnansweredIsOwed'
<1>1. CASE ok
  BY <1>1 DEF Write, CacheAgrees, UnansweredIsOwed, Unanswered, Owing
<1>2. CASE ~ok
  <2>1. UNCHANGED <<store, file>>
    BY <1>2 DEF Write
  <2>. QED
    BY <1>2, <2>1, OwedFrame
<1>. QED
  BY <1>1, <1>2

\* The initial state owes nothing.
LEMMA OwedInit == Init => OwedInv
<1> SUFFICES ASSUME Init PROVE OwedInv
  OBVIOUS
<1>1. Dispatched = {}
  <2>1. \A s \in Send : phase[s] = "idle"
    BY DEF Init, Turn
  <2>. QED
    BY <2>1 DEF Dispatched
<1>2. ~Owing(store) /\ tokens = {}
  BY Obligations DEF Init
<1>. QED
  BY <1>1, <1>2, TypeInit DEF OwedInv, TokensAreLive, CacheAgrees, UnansweredIsOwed

\* Every step keeps the obligation to answer.
LEMMA OwedNext == OwedInv /\ [Next]_vars => OwedInv'
<1> SUFFICES ASSUME OwedInv, [Next]_vars
             PROVE  TokensAreLive' /\ CacheAgrees' /\ UnansweredIsOwed'
  BY TypeNext DEF OwedInv
<1> DEFINE Goal == TokensAreLive' /\ CacheAgrees' /\ UnansweredIsOwed'
           Settled == Unanswered' \subseteq Unanswered
<1>t. /\ TypeOK /\ TokensAreLive
      /\ phase \in [Turn -> Phase] /\ tokens \subseteq Turn
      /\ store \in Obligation /\ file \in Obligation
      /\ Send \subseteq Turn /\ Redrive \subseteq Turn
      /\ Resume \subseteq Turn /\ Wake \subseteq Turn
  BY DEF OwedInv, TypeOK, Obligation, Turn
<1>d. /\ Send \cap Redrive = {} /\ Send \cap Resume = {} /\ Send \cap Wake = {}
  BY AckAssumption
\* A turn that is no send, or that stays on its side of being dispatched.
<1>p. ASSUME NEW t \in Turn, NEW p \in Phase, phase' = [phase EXCEPT ![t] = p],
             p # "zombie", UNCHANGED <<answered, excused>>,
             \/ t \notin Send
             \/ p \in {"pinned", "recorded", "failed"}
             \/ p \in {"running", "done"} /\ phase[t] \in {"queued", "running", "zombie"}
      PROVE  Settled /\ (tokens' \subseteq tokens \cup {t} => TokensAreLive')
  BY <1>p, <1>t DEF Unanswered, Dispatched, TokensAreLive
<1>f. ASSUME Settled, UNCHANGED <<store, file>>, gone => gone', up' => up
      PROVE  CacheAgrees' /\ UnansweredIsOwed'
  BY <1>f, OwedFrame
<1>1. ASSUME NEW s \in Send, Pin(s) PROVE Goal
  BY <1>1, <1>t, <1>p, <1>f DEF Pin, Phase
<1>2. ASSUME NEW s \in Send, RecordObligation(s) PROVE Goal
  <2>1. PICK ok \in BOOLEAN : Write(RecordSend(store, s), ok)
    BY <1>2 DEF RecordObligation
  <2>2. Settled /\ TokensAreLive'
    BY <1>2, <1>t, <1>p DEF RecordObligation, Phase, counted
  <2>. QED
    BY <1>2, <1>t, <2>1, <2>2, Obligations, OwedWrite DEF RecordObligation
<1>3. ASSUME NEW s \in Send, SendFails(s) PROVE Goal
  <2>1. Settled /\ TokensAreLive'
    BY <1>3, <1>t, <1>p DEF SendFails, EndSessionRun, Phase
  <2>2. CASE UNCHANGED <<store, file>>
    BY <1>3, <2>1, <2>2, <1>f DEF SendFails
  <2>3. ASSUME NEW ok \in BOOLEAN, Write(RecordSend(store, s), ok)
        PROVE  Goal
    BY <1>3, <1>t, <2>1, <2>3, Obligations, OwedWrite DEF SendFails
  <2>. QED
    BY <1>3, <2>2, <2>3 DEF SendFails
<1>4. ASSUME NEW s \in Send, Dispatch(s) PROVE Goal
  <2>1. TokensAreLive'
    BY <1>4, <1>t DEF Dispatch, TokensAreLive
  <2>2. Dispatched' = Dispatched \cup {s}
    BY <1>4, <1>t DEF Dispatch, Dispatched
  <2>3. CASE Owing(store)
    BY <1>4, <2>1, <2>3 DEF Dispatch, Owing, OwedInv, CacheAgrees, UnansweredIsOwed
  <2>4. CASE ~Owing(store)
    <3>1. PICK ok \in BOOLEAN : /\ Write(RecordSend(store, s), ok)
                                /\ excused' = (IF ok THEN excused ELSE excused \cup {s})
      BY <1>4, <2>4 DEF Dispatch
    <3>2. ~ok => Settled
      BY <1>4, <2>2, <3>1 DEF Dispatch, Unanswered
    <3>. QED
      BY <1>4, <1>t, <2>1, <3>1, <3>2, Obligations, OwedWrite DEF Dispatch
  <2>. QED
    BY <2>3, <2>4
<1>5. ASSUME NEW t \in Turn, Start(t) PROVE Goal
  <2>1. Settled /\ TokensAreLive'
    <3>1. CASE t \in Redrive /\ ~Owing(store)
      BY <1>5, <1>t, <1>d, <1>p, <3>1 DEF Start, EndSessionRun, Rest, Phase
    <3>2. CASE ~(t \in Redrive /\ ~Owing(store))
      BY <1>5, <1>t, <1>p, <3>2 DEF Start, MayStart, Phase
    <3>. QED
      BY <3>1, <3>2
  <2>. QED
    BY <1>5, <2>1, <1>f DEF Start
<1>6. ASSUME NEW t \in Turn, Message(t) PROVE Goal
  <2>1. TokensAreLive' /\ Dispatched' = Dispatched /\ Settled
    BY <1>6, <1>t DEF Message, TokensAreLive, Dispatched, Unanswered
  <2>2. CASE t \in tokens /\ Owing(store)
    <3>1. PICK ok \in BOOLEAN : Write(NoObligation, ok)
      BY <1>6, <2>2 DEF Message, Clear
    <3>2. Unanswered' = {}
      BY <1>6, <1>t, <2>1, <2>2 DEF Message, TokensAreLive, Unanswered
    <3>. QED
      BY <1>6, <2>1, <3>1, <3>2, Obligations, OwedWrite DEF Message
  <2>3. CASE ~(t \in tokens /\ Owing(store))
    BY <1>6, <2>1, <2>3, <1>f DEF Message
  <2>. QED
    BY <2>2, <2>3
<1>7. ASSUME NEW t \in Turn, TurnEnds(t) PROVE Goal
  <2>1. Settled /\ TokensAreLive'
    BY <1>7, <1>t, <1>p DEF TurnEnds, EndSessionRun, Rest, Phase
  <2>. QED
    BY <1>7, <2>1, <1>f DEF TurnEnds
<1>8. ASSUME NEW t \in Turn, TurnQuiesces(t) PROVE Goal
  <2>1. Settled /\ TokensAreLive'
    BY <1>8, <1>t, <1>p DEF TurnQuiesces, EndSessionRun, Rest, Phase
  <2>. QED
    BY <1>8, <2>1, <1>f DEF TurnQuiesces
<1>9. ASSUME NEW t \in Turn, Escape(t) PROVE Goal
  <2>1. PICK s \in Send : /\ phase[s] = "queued"
                          /\ phase' = [phase EXCEPT ![t] = "zombie", ![s] = "running"]
    BY <1>9 DEF Escape
  <2>2. TokensAreLive'
    BY <1>9, <1>t, <2>1 DEF Escape, TokensAreLive
  <2>3. Settled
    <3>1. \A u \in Send : phase'[u] = IF u = s THEN "running"
                                    ELSE IF u = t THEN "zombie" ELSE phase[u]
      BY <1>9, <1>t, <2>1 DEF Escape
    <3>2. Dispatched' \subseteq Dispatched
      BY <1>9, <2>1, <3>1 DEF Escape, Dispatched
    <3>. QED
      BY <1>9, <3>2 DEF Escape, Unanswered, counted
  <2>. QED
    BY <1>9, <2>2, <2>3, <1>f DEF Escape
<1>10. ASSUME NEW w \in Wake, WakeBegins(w) PROVE Goal
  BY <1>10, <1>t, <1>d, <1>p, <1>f DEF WakeBegins, Phase
<1>11. ASSUME NEW r \in Redrive, TimerFires(r) PROVE Goal
  <2>1. CASE (quiescing \/ ~Owing(store)) /\ UNCHANGED <<phase, store, file, excused>>
    <3>1. Settled /\ TokensAreLive'
      BY <1>11, <1>t, <2>1 DEF TimerFires, Unanswered, Dispatched, TokensAreLive
    <3>. QED
      BY <1>11, <2>1, <3>1, <1>f DEF TimerFires
  <2>2. ASSUME NEW ok \in BOOLEAN, GiveUp(ok) PROVE Goal
    <3>1. Unanswered' = {} /\ TokensAreLive'
      BY <1>11, <1>t, <2>2 DEF TimerFires, GiveUp, Unanswered, Dispatched, TokensAreLive
    <3>. QED
      BY <1>11, <2>2, <3>1, Obligations, OwedWrite DEF TimerFires, GiveUp, Clear
  <2>3. ASSUME ~(store.attempts >= MaxRedrives), Owing(store),
               NEW ok \in BOOLEAN, RedriveBegins(r, ok)
        PROVE  Goal
    <3>1. Settled /\ TokensAreLive'
      BY <1>11, <1>t, <1>d, <1>p, <2>3 DEF TimerFires, RedriveBegins, Phase
    <3>2. store.attempts < MaxRedrives
      BY <1>t, <2>3, AckAssumption DEF Obligation
    <3>3. /\ [store EXCEPT !.attempts = @ + 1] \in Obligation
          /\ Owing([store EXCEPT !.attempts = @ + 1])
      BY <1>t, <2>3, <3>2, Obligations DEF Owing
    <3>. QED
      BY <1>11, <2>3, <3>1, <3>3, OwedWrite DEF TimerFires, RedriveBegins
  <2>. QED
    BY <1>11, <2>1, <2>2, <2>3 DEF TimerFires
<1>12. ASSUME NEW r \in Redrive, RedriveResolved(r) PROVE Goal
  BY <1>12, <1>t, <1>d, <1>p, <1>f DEF RedriveResolved, Phase
<1>13. ASSUME NEW r \in Redrive, RedriveUnresolved(r) PROVE Goal
  BY <1>13, <1>t, <1>d, <1>p, <1>f DEF RedriveUnresolved, Phase
<1>14. ASSUME NEW t \in Resume \cup Wake, ResumeResolved(t) PROVE Goal
  BY <1>14, <1>t, <1>d, <1>p, <1>f DEF ResumeResolved, Phase
<1>15. ASSUME NEW t \in Resume \cup Wake, ResumeUnresolved(t) PROVE Goal
  BY <1>15, <1>t, <1>d, <1>p, <1>f DEF ResumeUnresolved, Phase, counted
<1>16. CASE Quiesce
  <2>1. Settled /\ TokensAreLive'
    BY <1>16, <1>t DEF Quiesce, Unanswered, Dispatched, TokensAreLive, counted
  <2>. QED
    BY <1>16, <2>1, <1>f DEF Quiesce
\* Resuming turns dispatches none, and gives no token to an escaped one.
<1>m. ASSUME NEW m, ResumeMarked(m) \/ UNCHANGED phase,
             tokens' = tokens, UNCHANGED <<answered, excused>>
      PROVE  Settled /\ TokensAreLive' /\ Dispatched' = Dispatched
  <2>1. CASE UNCHANGED phase
    BY <1>m, <1>t, <2>1 DEF Unanswered, Dispatched, TokensAreLive
  <2>2. ASSUME NEW t \in Resume \cup Wake, phase' = [phase EXCEPT ![t] = "resolving"]
        PROVE  Settled /\ TokensAreLive' /\ Dispatched' = Dispatched
    BY <1>m, <1>t, <1>d, <2>2 DEF Unanswered, Dispatched, TokensAreLive
  <2>. QED
    BY <1>m, <2>1, <2>2 DEF ResumeMarked, Resumed
<1>17. CASE ResumeAfterRecreate
  <2>1. Settled /\ TokensAreLive'
    BY <1>17, <1>m DEF ResumeAfterRecreate, counted
  <2>. QED
    BY <1>17, <2>1, <1>f DEF ResumeAfterRecreate
<1>18. CASE DeleteAgent
  <2>1. TokensAreLive' /\ gone' /\ Settled
    BY <1>18, <1>t DEF DeleteAgent, TokensAreLive, Unanswered, Dispatched
  <2>2. CASE Owing(store)
    <3>1. PICK ok \in BOOLEAN : Write(NoObligation, ok)
      BY <1>18, <2>2 DEF DeleteAgent, Clear
    <3>. QED
      BY <1>18, <2>1, <3>1, Obligations, OwedWrite DEF DeleteAgent
  <2>3. CASE ~Owing(store)
    BY <1>18, <2>1, <2>3, <1>f DEF DeleteAgent
  <2>. QED
    BY <2>2, <2>3
<1>19. CASE Exit
  <2>1. Dispatched' = Dispatched
    BY <1>19, <1>t DEF Exit, AfterEnd, Dispatched
  <2>2. Settled /\ TokensAreLive'
    BY <1>19, <2>1 DEF Exit, Unanswered, TokensAreLive
  <2>. QED
    BY <1>19, <2>2, <1>f DEF Exit
<1>20. CASE Boot
  <2>1. Dispatched' = Dispatched /\ TokensAreLive'
    <3>1. Dispatched' = Dispatched
      <4>1. CASE UNCHANGED phase
        BY <4>1 DEF Dispatched
      <4>2. ASSUME NEW t \in Resume \cup Wake, phase' = [phase EXCEPT ![t] = "resolving"]
            PROVE  Dispatched' = Dispatched
        BY <1>t, <1>d, <4>2 DEF Dispatched
      <4>. QED
        BY <1>20, <4>1, <4>2 DEF Boot, ResumeMarked, Resumed
    <3>2. TokensAreLive'
      BY <1>20, <1>t DEF Boot, ResumeMarked, Resumed, TokensAreLive
    <3>. QED
      BY <3>1, <3>2
  <2>2. PICK n \in {0, 1} : BootAt(n)
    BY <1>20 DEF Boot
  <2>3. CASE n = 0
    BY <1>20, <2>1, <2>2, <2>3
       DEF Boot, BootAt, OwedInv, CacheAgrees, UnansweredIsOwed, Owing
  <2>4. CASE n # 0
    <3>1. ~Owing(store') /\ excused' = excused \cup Dispatched
      BY <2>2, <2>4, Obligations DEF BootAt
    <3>2. Dispatched' \ (answered' \cup excused') = {}
      BY <1>20, <2>1, <3>1 DEF Boot
    <3>. QED
      BY <2>1, <3>1, <3>2 DEF CacheAgrees, UnansweredIsOwed, Owing
  <2>. QED
    BY <2>3, <2>4
<1>21. CASE UNCHANGED vars
  BY <1>21 DEF vars, counted, OwedInv, TokensAreLive, CacheAgrees, UnansweredIsOwed,
               Owing, Dispatched
<1>. QED
  BY <1>1, <1>2, <1>3, <1>4, <1>5, <1>6, <1>7, <1>8, <1>9, <1>10, <1>11, <1>12, <1>13,
     <1>14, <1>15, <1>16, <1>17, <1>18, <1>19, <1>20, <1>21 DEF Next

\* A send nobody answered stays owed an answer, in the cache and on disk, for
\* every set of sends and runs (UnansweredIsOwed).
THEOREM UnansweredStaysOwed == Spec => []UnansweredIsOwed
<1>1. OwedInv => UnansweredIsOwed
  BY DEF OwedInv
<1>. QED
  BY <1>1, OwedInit, OwedNext, PTL DEF Spec

-----------------------------------------------------------------------------
(* What is owed is driven.                                                 *)

DrivenInv == TypeOK /\ RedriveIsComing

\* While a run stays in flight a redrive can still come.
LEMMA FlightLeads ==
    ASSUME NEW t \in Turn, phase'[t] \in {"pinned", "recorded", "queued", "running", "zombie"}
    PROVE  RedriveIsComing'
BY DEF RedriveIsComing, InFlight

\* So it can when a run in flight ends.
LEMMA EndLeads ==
    ASSUME TypeOK, NEW t \in InFlight, NEW rest, EndSessionRun(t, rest, store')
    PROVE  RedriveIsComing'
<1>1. CASE InFlight = {t}
  BY <1>1 DEF EndSessionRun, ArmTimer, RedriveIsComing
<1>2. CASE InFlight # {t}
  <2>1. PICK u \in InFlight : u # t
    BY <1>2
  <2>2. u \in Turn /\ phase'[u] = phase[u]
    BY <2>1 DEF EndSessionRun, TypeOK, InFlight
  <2>. QED
    BY <2>1, <2>2, FlightLeads DEF InFlight
<1>. QED
  BY <1>1, <1>2

\* A step that owes no more, ends no run and takes nothing from what leads to
\* a redrive.
LEMMA DrivenFrame ==
    ASSUME DrivenInv,
           up' => up, Owing(store') => Owing(store), missed => missed', timer => timer',
           InFlight \subseteq InFlight',
           At("resolving") \cap Redrive \subseteq (At("resolving") \cap Redrive)'
    PROVE  RedriveIsComing'
BY DEF DrivenInv, RedriveIsComing

\* Every step leaves something that leads to the next redrive.
LEMMA DrivenNext == DrivenInv /\ [Next]_vars => DrivenInv'
<1> SUFFICES ASSUME DrivenInv, [Next]_vars PROVE RedriveIsComing'
  BY TypeNext DEF DrivenInv
<1>t. /\ TypeOK
      /\ phase \in [Turn -> Phase] /\ Send \subseteq Turn /\ Redrive \subseteq Turn
      /\ Resume \subseteq Turn /\ Wake \subseteq Turn
  BY DEF DrivenInv, TypeOK, Turn
<1>d. Redrive \cap Send = {} /\ Redrive \cap Resume = {} /\ Redrive \cap Wake = {}
  BY AckAssumption
<1>1. ASSUME NEW s \in Send, Pin(s) PROVE RedriveIsComing'
  BY <1>1, <1>t, FlightLeads DEF Pin
<1>2. ASSUME NEW s \in Send, RecordObligation(s) PROVE RedriveIsComing'
  BY <1>2, <1>t, FlightLeads DEF RecordObligation
<1>3. ASSUME NEW s \in Send, SendFails(s) PROVE RedriveIsComing'
  <2>1. s \in InFlight /\ EndSessionRun(s, "failed", store')
    BY <1>3, <1>t DEF SendFails, InFlight, EndSessionRun
  <2>. QED
    BY <1>t, <2>1, EndLeads
<1>4. ASSUME NEW s \in Send, Dispatch(s) PROVE RedriveIsComing'
  BY <1>4, <1>t, FlightLeads DEF Dispatch
<1>5. ASSUME NEW t \in Turn, Start(t) PROVE RedriveIsComing'
  <2>1. CASE t \in Redrive /\ ~Owing(store)
    BY <1>5, <2>1 DEF Start, Owing, RedriveIsComing
  <2>2. CASE ~(t \in Redrive /\ ~Owing(store))
    BY <1>5, <1>t, <2>2, FlightLeads DEF Start
  <2>. QED
    BY <2>1, <2>2
<1>6. ASSUME NEW t \in Turn, Message(t) PROVE RedriveIsComing'
  BY <1>6, FlightLeads DEF Message
<1>7. ASSUME NEW t \in Turn, TurnEnds(t) PROVE RedriveIsComing'
  <2>1. t \in InFlight /\ EndSessionRun(t, Rest(t), store')
    BY <1>7 DEF TurnEnds, InFlight
  <2>. QED
    BY <1>t, <2>1, EndLeads
<1>8. ASSUME NEW t \in Turn, TurnQuiesces(t) PROVE RedriveIsComing'
  <2>1. t \in InFlight /\ EndSessionRun(t, Rest(t), store')
    BY <1>8 DEF TurnQuiesces, InFlight
  <2>. QED
    BY <1>t, <2>1, EndLeads
<1>9. ASSUME NEW t \in Turn, Escape(t) PROVE RedriveIsComing'
  <2>1. PICK s \in Send : /\ phase[s] = "queued"
                          /\ phase' = [phase EXCEPT ![t] = "zombie", ![s] = "running"]
    BY <1>9 DEF Escape
  <2>. QED
    BY <1>t, <2>1, FlightLeads
<1>10. ASSUME NEW w \in Wake, WakeBegins(w) PROVE RedriveIsComing'
  BY <1>10, <1>t, FlightLeads DEF WakeBegins
<1>11. ASSUME NEW r \in Redrive, TimerFires(r) PROVE RedriveIsComing'
  <2>1. CASE (quiescing \/ ~Owing(store)) /\ UNCHANGED store
    BY <1>11, <2>1 DEF TimerFires, RedriveIsComing, Owing
  <2>2. ASSUME NEW ok \in BOOLEAN, GiveUp(ok) PROVE RedriveIsComing'
    BY <2>2, Obligations DEF GiveUp, Clear, Write, RedriveIsComing
  <2>3. ASSUME NEW ok \in BOOLEAN, RedriveBegins(r, ok) PROVE RedriveIsComing'
    BY <1>t, <2>3 DEF RedriveBegins, RedriveIsComing, At
  <2>. QED
    BY <1>11, <2>1, <2>2, <2>3 DEF TimerFires
<1>12. ASSUME NEW r \in Redrive, RedriveResolved(r) PROVE RedriveIsComing'
  BY <1>12, <1>t, FlightLeads DEF RedriveResolved
<1>13. ASSUME NEW r \in Redrive, RedriveUnresolved(r) PROVE RedriveIsComing'
  BY <1>13 DEF RedriveUnresolved, ArmTimer, RedriveIsComing, Owing
<1>14. ASSUME NEW t \in Resume \cup Wake, ResumeResolved(t) PROVE RedriveIsComing'
  BY <1>14, <1>t, FlightLeads DEF ResumeResolved
<1>15. ASSUME NEW t \in Resume \cup Wake, ResumeUnresolved(t) PROVE RedriveIsComing'
  BY <1>15, <1>t, <1>d, DrivenFrame DEF ResumeUnresolved, InFlight, At, counted
<1>16. CASE Quiesce
  BY <1>16, DrivenFrame DEF Quiesce, InFlight, At, counted
<1>17. CASE ResumeAfterRecreate
  <2>1. CASE UNCHANGED phase
    BY <1>17, <2>1, DrivenFrame DEF ResumeAfterRecreate, InFlight, At, counted
  <2>2. ASSUME NEW t \in Resume \cup Wake, phase[t] = "idle",
               phase' = [phase EXCEPT ![t] = "resolving"]
        PROVE  RedriveIsComing'
    BY <1>17, <1>t, <1>d, <2>2, DrivenFrame DEF ResumeAfterRecreate, InFlight, At, counted
  <2>. QED
    BY <1>17, <2>1, <2>2 DEF ResumeAfterRecreate, ResumeMarked, Resumed
<1>18. CASE DeleteAgent
  <2>1. CASE Owing(store)
    BY <1>18, <2>1, Obligations DEF DeleteAgent, Clear, Write, RedriveIsComing
  <2>2. CASE ~Owing(store)
    BY <1>18, <2>2 DEF DeleteAgent, Owing, RedriveIsComing
  <2>. QED
    BY <2>1, <2>2
<1>19. CASE Exit
  BY <1>19 DEF Exit, RedriveIsComing
<1>20. CASE Boot
  BY <1>20 DEF Boot, RedriveIsComing
<1>21. CASE UNCHANGED vars
  BY <1>21, DrivenFrame DEF vars, counted, InFlight, At
<1>. QED
  BY <1>1, <1>2, <1>3, <1>4, <1>5, <1>6, <1>7, <1>8, <1>9, <1>10, <1>11, <1>12, <1>13,
     <1>14, <1>15, <1>16, <1>17, <1>18, <1>19, <1>20, <1>21 DEF Next

\* What is owed is never left without a timer, a run in flight or a redrive
\* being resolved, unless a redrive was refused or given up
\* (RedriveIsComing).
THEOREM RedriveAlwaysComes == Spec => []RedriveIsComing
<1>1. Init => DrivenInv
  <2>1. Init => ~Owing(store)
    BY Obligations DEF Init
  <2>. QED
    BY <2>1, TypeInit DEF DrivenInv, RedriveIsComing
<1>2. DrivenInv => RedriveIsComing
  BY DEF DrivenInv
<1>. QED
  BY <1>1, <1>2, DrivenNext, PTL DEF Spec

-----------------------------------------------------------------------------
(* What is driven is counted.                                              *)

\* The redrives of the present obligation that are being resolved: their attempt
\* is counted, their run not begun.
Charged == {r \in mine : phase[r] = "resolving"}
Tally ==
    IF Owing(store)
    THEN begun + Cardinality(Charged) <= store.attempts + used.faults
    ELSE begun = 0 /\ mine = {}

CountInv == OwedInv /\ Tally

\* Redrives being resolved are finitely many.
LEMMA ChargedSize ==
    ASSUME TypeOK
    PROVE  IsFiniteSet(Charged) /\ Cardinality(Charged) \in Nat
<1>1. Charged \subseteq Redrive
  BY DEF TypeOK, Charged
<1>. QED
  BY <1>1, AckAssumption, FS_Subset, FS_CardinalityType

\* Without redrives there is nothing to count.
LEMMA FreshTally ==
    ASSUME TypeOK', begun' = 0, mine' = {}
    PROVE  Tally'
<1>1. Charged' = {}
  BY DEF Charged
<1>2. Cardinality(Charged') = 0
  BY <1>1, FS_EmptySet
<1>. QED
  BY <1>2 DEF Tally, TypeOK

\* Neither a further send, nor a failed write, nor the end of a resolution makes
\* a redrive that is not counted.
LEMMA TallyFrame ==
    ASSUME TypeOK, TypeOK', Tally, UNCHANGED begun, mine' \subseteq mine,
           Owing(store) => Owing(store') /\ store'.attempts >= store.attempts,
           used'.faults >= used.faults,
           Charged' \subseteq Charged
    PROVE  Tally'
<1>1. CASE Owing(store)
  <2>1. Cardinality(Charged') <= Cardinality(Charged)
    BY ChargedSize, FS_Subset
  <2>2. /\ Cardinality(Charged) \in Nat /\ Cardinality(Charged') \in Nat
        /\ begun \in Nat /\ store.attempts \in Nat /\ store'.attempts \in Nat
        /\ used.faults \in Nat /\ used'.faults \in Nat
    <3>1. Charged' \subseteq Redrive
      BY DEF TypeOK, Charged
    <3>. QED
      BY <3>1, ChargedSize, FS_Subset, FS_CardinalityType, AckAssumption DEF TypeOK
  <2>. QED
    BY <1>1, <2>1, <2>2 DEF Tally
<1>2. CASE ~Owing(store)
  BY <1>2, FreshTally DEF Tally
<1>. QED
  BY <1>1, <1>2

\* Every step counts the redrives it starts.
LEMMA CountNext == CountInv /\ [Next]_vars => CountInv'
<1> SUFFICES ASSUME CountInv, [Next]_vars PROVE Tally'
  BY OwedNext DEF CountInv
<1>t. /\ TypeOK /\ Tally /\ CacheAgrees /\ TypeOK'
      /\ phase \in [Turn -> Phase] /\ mine \subseteq Redrive
      /\ used \in Count /\ store \in Obligation /\ file \in Obligation
      /\ Send \subseteq Turn /\ Redrive \subseteq Turn
      /\ Resume \subseteq Turn /\ Wake \subseteq Turn
  BY TypeNext DEF CountInv, OwedInv, TypeOK, Turn, Obligation, Count
<1>n. /\ store.attempts \in Nat /\ used.faults \in Nat /\ begun \in Nat
      /\ store.attempts >= store.attempts /\ used.faults >= used.faults
  BY <1>t, AckAssumption DEF Obligation, Count, TypeOK
<1>d. Redrive \cap Send = {} /\ Redrive \cap Resume = {} /\ Redrive \cap Wake = {}
  BY AckAssumption
\* A step that leaves the count alone and starts no redrive.
<1>q. ASSUME UNCHANGED <<store, used, begun, mine>>, Charged' \subseteq Charged
      PROVE  Tally'
  BY <1>q, <1>t, <1>n, TallyFrame
<1>p. ASSUME NEW t \in Turn, NEW p, phase' = [phase EXCEPT ![t] = p],
             p # "resolving" \/ t \notin Redrive, UNCHANGED mine
      PROVE  Charged' \subseteq Charged
  BY <1>p, <1>t DEF Charged
\* A send writes an obligation that keeps its attempts.
<1>w. ASSUME NEW s \in Send, NEW ok \in BOOLEAN, Write(RecordSend(store, s), ok),
             UNCHANGED <<begun, mine>>, Charged' \subseteq Charged
      PROVE  Tally'
  <2>1. /\ RecordSend(store, s).attempts = store.attempts
        /\ RecordSend(store, s) \in Obligation /\ Owing(RecordSend(store, s))
    BY <1>t, Obligations DEF RecordSend, Obligation
  <2>2. /\ Owing(store) => Owing(store') /\ store'.attempts >= store.attempts
        /\ used'.faults >= used.faults
    BY <1>w, <1>t, <1>n, <2>1, Writes
  <2>. QED
    BY <1>w, <1>t, <2>2, TallyFrame
\* Clearing the obligation forgets its redrives, or fails and is counted.
<1>c. ASSUME NEW ok \in BOOLEAN, Clear(ok), UNCHANGED phase PROVE Tally'
  <2>1. CASE ok
    BY <1>c, <1>t, <2>1, FreshTally DEF Clear, Forget
  <2>2. CASE ~ok
    <3>1. /\ UNCHANGED <<store, begun, mine>> /\ used'.faults = used.faults + 1
      BY <1>c, <1>t, <2>2, Obligations, Writes DEF Clear
    <3>2. Charged' \subseteq Charged
      BY <1>c, <3>1 DEF Charged
    <3>. QED
      BY <1>t, <1>n, <3>1, <3>2, TallyFrame
  <2>. QED
    BY <2>1, <2>2
<1>1. ASSUME NEW s \in Send, Pin(s) PROVE Tally'
  BY <1>1, <1>t, <1>d, <1>p, <1>q DEF Pin
<1>2. ASSUME NEW s \in Send, RecordObligation(s) PROVE Tally'
  BY <1>2, <1>t, <1>d, <1>p, <1>w DEF RecordObligation, counted
<1>3. ASSUME NEW s \in Send, SendFails(s) PROVE Tally'
  <2>1. Charged' \subseteq Charged
    BY <1>3, <1>t, <1>d, <1>p DEF SendFails, EndSessionRun
  <2>. QED
    BY <1>3, <2>1, <1>q, <1>w DEF SendFails
<1>4. ASSUME NEW s \in Send, Dispatch(s) PROVE Tally'
  <2>1. Charged' \subseteq Charged
    BY <1>4, <1>t, <1>d, <1>p DEF Dispatch
  <2>. QED
    BY <1>4, <2>1, <1>q, <1>w DEF Dispatch
<1>5. ASSUME NEW t \in Turn, Start(t) PROVE Tally'
  <2>1. Charged' \subseteq Charged
    <3>1. CASE t \in Redrive /\ ~Owing(store)
      <4>1. Rest(t) # "resolving" /\ phase' = [phase EXCEPT ![t] = Rest(t)]
        BY <1>5, <3>1 DEF Start, EndSessionRun, Rest
      <4>. QED
        BY <1>5, <4>1, <1>p DEF Start
    <3>2. CASE ~(t \in Redrive /\ ~Owing(store))
      BY <1>5, <3>2, <1>p DEF Start
    <3>. QED
      BY <3>1, <3>2
  <2>. QED
    BY <1>5, <2>1, <1>q DEF Start
<1>6. ASSUME NEW t \in Turn, Message(t) PROVE Tally'
  <2>2. CASE t \in tokens /\ Owing(store)
    BY <1>6, <2>2, <1>c DEF Message
  <2>3. CASE ~(t \in tokens /\ Owing(store))
    BY <1>6, <2>3, <1>q DEF Message, Charged
  <2>. QED
    BY <2>2, <2>3
<1>7. ASSUME NEW t \in Turn, TurnEnds(t) \/ TurnQuiesces(t) PROVE Tally'
  <2>1. Rest(t) # "resolving" /\ phase' = [phase EXCEPT ![t] = Rest(t)]
    BY <1>7 DEF TurnEnds, TurnQuiesces, EndSessionRun, Rest
  <2>2. Charged' \subseteq Charged
    BY <1>7, <2>1, <1>p DEF TurnEnds, TurnQuiesces
  <2>. QED
    BY <1>7, <2>2, <1>q DEF TurnEnds, TurnQuiesces
<1>9. ASSUME NEW t \in Turn, Escape(t) PROVE Tally'
  <2>1. Charged' \subseteq Charged
    BY <1>9, <1>t DEF Escape, Charged, counted
  <2>. QED
    BY <1>9, <2>1, <1>q DEF Escape, counted
<1>10. ASSUME NEW w \in Wake, WakeBegins(w) PROVE Tally'
  BY <1>10, <1>t, <1>p, <1>q DEF WakeBegins
<1>11. ASSUME NEW r \in Redrive, TimerFires(r) PROVE Tally'
  <2>1. CASE UNCHANGED <<phase, store, file, used, excused, begun, mine>>
    BY <2>1, <1>q DEF Charged
  <2>2. ASSUME NEW ok \in BOOLEAN, GiveUp(ok) PROVE Tally'
    BY <2>2, <1>c DEF GiveUp
  <2>3. ASSUME ~(store.attempts >= MaxRedrives), Owing(store),
               NEW ok \in BOOLEAN, RedriveBegins(r, ok)
        PROVE  Tally'
    <3>1. Charged' = Charged \cup {r} /\ r \notin Charged
      BY <1>11, <1>t, <2>3 DEF TimerFires, RedriveBegins, Charged
    <3>2. Cardinality(Charged') = Cardinality(Charged) + 1 /\ Cardinality(Charged) \in Nat
      BY <1>t, <3>1, ChargedSize, FS_AddElement
    <3>3. /\ Owing(store')
          /\ store'.attempts + used'.faults = store.attempts + used.faults + 1
      <4>1. store.attempts < MaxRedrives
        BY <1>n, <2>3, AckAssumption
      <4> DEFINE o == [store EXCEPT !.attempts = @ + 1]
      <4>2. /\ o \in Obligation /\ Owing(o)
            /\ o.attempts = store.attempts + 1
            /\ Write(o, ok)
        BY <1>t, <2>3, <4>1, Obligations DEF RedriveBegins, Owing
      <4> HIDE DEF o
      <4>3. \/ store' = o /\ used'.faults = used.faults
            \/ store' = store /\ used'.faults = used.faults + 1
        BY <1>t, <4>2, Writes
      <4>. QED
        BY <1>n, <2>3, <4>2, <4>3
    <3>4. store'.attempts \in Nat /\ used'.faults \in Nat
      BY <1>t, AckAssumption DEF TypeOK
    <3>. QED
      BY <1>t, <1>n, <2>3, <3>2, <3>3, <3>4 DEF Tally, RedriveBegins
  <2>. QED
    BY <1>11, <2>1, <2>2, <2>3 DEF TimerFires
<1>12. ASSUME NEW r \in Redrive, RedriveResolved(r) PROVE Tally'
  <2>1. CASE r \in mine
    <3>1. Charged' = Charged \ {r} /\ r \in Charged
      BY <1>12, <1>t, <2>1 DEF RedriveResolved, Charged
    <3>2. Cardinality(Charged') = Cardinality(Charged) - 1 /\ Cardinality(Charged) \in Nat
      BY <1>t, <3>1, ChargedSize, FS_RemoveElement
    <3>3. Owing(store)
      BY <1>t, <2>1 DEF Tally
    <3>4. begun' = begun + 1 /\ UNCHANGED <<store, used>>
      BY <1>12, <2>1 DEF RedriveResolved
    <3>. QED
      BY <1>t, <1>n, <3>2, <3>3, <3>4 DEF Tally, Owing
  <2>2. CASE r \notin mine
    <3>1. UNCHANGED <<store, used, begun, mine>>
      BY <1>12, <1>n, <2>2 DEF RedriveResolved
    <3>. QED
      BY <1>12, <1>t, <3>1, <1>p, <1>q DEF RedriveResolved
  <2>. QED
    BY <2>1, <2>2
<1>13. ASSUME NEW r \in Redrive, RedriveUnresolved(r) PROVE Tally'
  BY <1>13, <1>t, <1>p, <1>q DEF RedriveUnresolved
<1>14. ASSUME NEW t \in Resume \cup Wake, ResumeResolved(t) \/ ResumeUnresolved(t)
       PROVE  Tally'
  BY <1>14, <1>t, <1>p, <1>q DEF ResumeResolved, ResumeUnresolved, counted
<1>16. CASE Quiesce
  <2>1. Charged' \subseteq Charged
    BY <1>16 DEF Quiesce, Charged, counted
  <2>2. used'.faults = used.faults
    BY <1>16, <1>t DEF Quiesce, Count
  <2>. QED
    BY <1>16, <1>t, <1>n, <2>1, <2>2, TallyFrame DEF Quiesce, counted
<1>17. CASE ResumeAfterRecreate
  <2>1. ASSUME NEW t \in Resume \cup Wake, phase' = [phase EXCEPT ![t] = "resolving"]
        PROVE  Charged' \subseteq Charged
    BY <1>17, <1>t, <1>d, <2>1, <1>p DEF ResumeAfterRecreate, counted
  <2>2. Charged' \subseteq Charged
    BY <1>17, <2>1 DEF ResumeAfterRecreate, ResumeMarked, Resumed, Charged, counted
  <2>. QED
    BY <1>17, <2>2, <1>q DEF ResumeAfterRecreate, counted
<1>18. CASE DeleteAgent
  <2>1. CASE Owing(store)
    BY <1>18, <2>1, <1>c DEF DeleteAgent
  <2>2. CASE ~Owing(store)
    BY <1>18, <2>2, <1>q DEF DeleteAgent, Charged
  <2>. QED
    BY <2>1, <2>2
<1>19. CASE Exit
  <2>1. Charged' \subseteq Charged /\ used'.faults = used.faults
    BY <1>19, <1>t, <1>d DEF Exit, AfterEnd, Charged, Count
  <2>. QED
    BY <1>19, <1>t, <1>n, <2>1, TallyFrame DEF Exit
<1>20. CASE Boot
  <2>1. PICK n \in {0, 1} : BootAt(n)
    BY <1>20 DEF Boot
  <2>2. mine' = {} /\ Charged' = {}
    BY <1>20 DEF Boot, Charged
  <2>3. CASE n = 0 /\ Owing(store)
    <3>1. UNCHANGED <<store, begun>> /\ used'.faults = used.faults
      BY <1>t, <1>n, <2>1, <2>3, FaultCounts DEF BootAt, CacheAgrees
    <3>. QED
      BY <1>t, <1>n, <2>2, <2>3, <3>1, TallyFrame DEF Owing
  <2>4. CASE ~(n = 0 /\ Owing(store))
    <3>1. begun' = 0
      BY <1>t, <2>1, <2>4 DEF BootAt, Tally
    <3>. QED
      BY <1>t, <2>2, <3>1, FreshTally
  <2>. QED
    BY <2>3, <2>4
<1>21. CASE UNCHANGED vars
  BY <1>21, <1>q DEF vars, counted, Charged
<1>. QED
  BY <1>1, <1>2, <1>3, <1>4, <1>5, <1>6, <1>7, <1>9, <1>10, <1>11, <1>12, <1>13,
     <1>14, <1>16, <1>17, <1>18, <1>19, <1>20, <1>21 DEF Next

\* Neither sends nor restarts give an obligation more redrives than its attempts
\* and the failed writes account for (RedrivesAreCounted).
THEOREM RedrivesStayCounted == Spec => []RedrivesAreCounted
<1>1. Init => CountInv
  <2>1. Init => ~Owing(store)
    BY Obligations DEF Init
  <2>. QED
    BY <2>1, OwedInit DEF CountInv, Tally, Init
<1>2. CountInv => RedrivesAreCounted
  BY ChargedSize, AckAssumption DEF CountInv, OwedInv, TypeOK, Tally, RedrivesAreCounted
<1>. QED
  BY <1>1, <1>2, CountNext, PTL DEF Spec
=============================================================================
