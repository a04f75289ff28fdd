--------------------------- MODULE MCExecValidation ---------------------------
(***************************************************************************)
(* ExecValidation for TLC: requests of up to three steps with up to two    *)
(* dependencies each, well formed or not.                                  *)
(***************************************************************************)
EXTENDS ExecValidation, TLC

IdSymmetry == Permutations(Ids)
=============================================================================
