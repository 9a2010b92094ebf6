--------------------------- MODULE TaskLifecycle ---------------------------
(***************************************************************************)
(* What the validation service promises the clients of a task, without     *)
(* its runs, its worker and its process.  A task waits, is worked on once, *)
(* and ends with one outcome for good.  It may be stopped until it ends:   *)
(* one that still waits is cancelled at once, and one that is worked on    *)
(* is never delivered nor failed afterwards.  Files are added while a task *)
(* is worked on, and a delivered task has all of them.                     *)
(***************************************************************************)
CONSTANTS Task, Artifact

VARIABLES stage,    \* where each task is in its life
          stopped,  \* the tasks whose stop was recorded
          files     \* the files a client may download

vars == <<stage, stopped, files>>

Outcome == {"delivered", "failed", "cancelled", "interrupted"}

Init ==
    /\ stage = [t \in Task |-> "none"]
    /\ stopped = {}
    /\ files = [t \in Task |-> {}]

Moves(t, s) == stage' = [stage EXCEPT ![t] = s]

Accept(t) ==
    /\ stage[t] = "none"
    /\ Moves(t, "waiting")
    /\ UNCHANGED <<stopped, files>>

Take(t) ==
    /\ stage[t] = "waiting"
    /\ Moves(t, "working")
    /\ UNCHANGED <<stopped, files>>

RequestStop(t) ==
    /\ t \notin stopped
    /\ stopped' = stopped \cup {t}
    /\ \/ stage[t] = "waiting" /\ Moves(t, "cancelled")
       \/ stage[t] = "working" /\ UNCHANGED stage
    /\ UNCHANGED files

AddFiles(t, more) ==
    /\ stage[t] = "working"
    /\ files' = [files EXCEPT ![t] = @ \cup more]
    /\ UNCHANGED <<stage, stopped>>

\* The last files may become available in the very step that ends the task.
End(t, outcome, last) ==
    /\ stage[t] = "working"
    /\ t \in stopped => outcome \in {"cancelled", "interrupted"}
    /\ Moves(t, outcome)
    /\ files' = [files EXCEPT ![t] = @ \cup last]
    /\ outcome = "delivered" => files[t] \cup last = Artifact
    /\ UNCHANGED stopped

Next ==
    \E t \in Task :
        \/ Accept(t) \/ Take(t) \/ RequestStop(t)
        \/ \E more \in SUBSET Artifact :
              AddFiles(t, more) \/ \E outcome \in Outcome : End(t, outcome, more)

Spec == Init /\ [][Next]_vars
=============================================================================
