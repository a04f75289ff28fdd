------------------------- MODULE MCExecutionLimiter -------------------------
(***************************************************************************)
(* ExecutionLimiter for TLC: four commands on two permits, so that one     *)
(* drain can reject an aborted waiter and grant the next, or leave it      *)
(* waiting.  (No symmetry: it is not sound for liveness.)                  *)
(***************************************************************************)
EXTENDS ExecutionLimiter
=============================================================================
