------------------------------ MODULE MCMcServer ------------------------------
(***************************************************************************)
(* McServer with streams that fit alone, in pairs or not beside what is    *)
(* kept, and one that never fits.                                          *)
(***************************************************************************)
EXTENDS McServer, TLC

MCStreams == {<<>>, <<5, 2>>, <<1, 2>>}

CallSymmetry == Permutations(Calls)
=============================================================================
