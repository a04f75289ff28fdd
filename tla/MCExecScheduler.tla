--------------------------- MODULE MCExecScheduler ---------------------------
(***************************************************************************)
(* ExecScheduler for TLC, with the recursion of releaseDependents() beside *)
(* it.  Init enumerates every acyclic graph over four steps (enough for a  *)
(* diamond, and for a skip that cascades while another branch runs), both  *)
(* failure modes, every concurrency and both states of the external        *)
(* signal.  The scheduler tells "success" from every other status and      *)
(* nothing more, so "failed" stands for the other five.                    *)
(***************************************************************************)
EXTENDS ReleaseDependents
=============================================================================
