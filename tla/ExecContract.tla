----------------------------- MODULE ExecContract -----------------------------
(***************************************************************************)
(* What an exec request promises its caller, in the words of the README:   *)
(* successful dependencies unlock their children, a failed branch skips    *)
(* only its descendants, a stop lets nothing new begin, and the answer is  *)
(* given exactly when the last step has ended.  There is no queue, no      *)
(* counter and no scheduler here; ExecScheduler implements this module.    *)
(***************************************************************************)
CONSTANTS Steps, Final     \* the steps and their final statuses

VARIABLES deps, status, answered

vars == <<deps, status, answered>>

Init == /\ deps \in [Steps -> SUBSET Steps]
        /\ status = [s \in Steps |-> "waiting"]
        /\ answered = FALSE

\* A step begins when all it depends on has succeeded.
Begins(s) == /\ status[s] = "waiting" /\ status'[s] = "running"
             /\ \A d \in deps[s] : status'[d] = "success"

Ends(s) == status[s] = "running" /\ status'[s] \in Final

\* A step is given up because something it depends on did not succeed, or
\* because the request stops; then no step is left waiting.
GivenUp(s) ==
    /\ status[s] = "waiting"
    /\ \/ /\ status'[s] = "skipped"
          /\ \E d \in deps[s] : status'[d] \in Final \ {"success"}
       \/ /\ status'[s] \in {"skipped", "cancelled"}
          /\ \A t \in Steps : status'[t] # "waiting"

Next == /\ ~answered
        /\ deps' = deps
        /\ \A s \in Steps : \/ status'[s] = status[s]
                            \/ Begins(s)
                            \/ Ends(s)
                            \/ GivenUp(s)
        /\ \A s, t \in Steps : Ends(s) /\ Ends(t) => s = t
        /\ answered' = \A s \in Steps : status'[s] \in Final

Spec == Init /\ [][Next]_vars
=============================================================================
