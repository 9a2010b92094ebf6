----------------------------- MODULE AgentTurns -----------------------------
(***************************************************************************)
(* What the run queue promises, without its mechanism: an agent is held by *)
(* one task at a time.  A waiting task takes a turn when nobody holds the  *)
(* agent, or in the very step in which the holder gives it up; user tasks  *)
(* go before agent tasks and those before background tasks.  The holder    *)
(* loses the agent by ending, or is abandoned, and then only to a waiting  *)
(* user task, which gets the turn at once.  After the queue is closed no   *)
(* turn begins.                                                            *)
(***************************************************************************)
CONSTANTS Task, LaneOf

VARIABLES place,   \* where each task is in its life
          closed

vars == <<place, closed>>

Place == {"new", "waiting", "holding", "abandoned", "ended"}

TypeOK == place \in [Task -> Place] /\ closed \in BOOLEAN

At(p) == {t \in Task : place[t] = p}

Init == place = [t \in Task |-> "new"] /\ closed = FALSE

WaitingIn(lane) == \E t \in At("waiting") : LaneOf[t] = lane

\* The tasks the lanes allow to take the next turn.
MayBegin(t) ==
    /\ ~closed
    /\ place[t] = "waiting"
    /\ LaneOf[t] # "user" => ~WaitingIn("user")
    /\ LaneOf[t] = "background" => ~WaitingIn("agent")

Accept(t) ==
    /\ place[t] = "new"
    /\ place' = [place EXCEPT ![t] = "waiting"]
    /\ UNCHANGED closed

Begin(t) ==
    /\ At("holding") = {}
    /\ MayBegin(t)
    /\ place' = [place EXCEPT ![t] = "holding"]
    /\ UNCHANGED closed

\* The holder ends; nobody, or one next task, takes the turn.
End(t) ==
    /\ place[t] = "holding"
    /\ \/ place' = [place EXCEPT ![t] = "ended"]
       \/ \E n \in Task : /\ MayBegin(n)
                          /\ place' = [place EXCEPT ![t] = "ended", ![n] = "holding"]
    /\ UNCHANGED closed

\* The holder is abandoned to a user task that waits.
Abandon(t) ==
    /\ place[t] = "holding"
    /\ \E n \in Task : /\ MayBegin(n)
                       /\ LaneOf[n] = "user"
                       /\ place' = [place EXCEPT ![t] = "abandoned", ![n] = "holding"]
    /\ UNCHANGED closed

EndLate(t) ==
    /\ place[t] = "abandoned"
    /\ place' = [place EXCEPT ![t] = "ended"]
    /\ UNCHANGED closed

Close == ~closed /\ closed' = TRUE /\ UNCHANGED place

Next ==
    \/ \E t \in Task : Accept(t) \/ Begin(t) \/ End(t) \/ Abandon(t) \/ EndLate(t)
    \/ Close

Spec == Init /\ [][Next]_vars
=============================================================================
