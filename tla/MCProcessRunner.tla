--------------------------- MODULE MCProcessRunner ---------------------------
(***************************************************************************)
(* ProcessRunner for TLC: what the commands of each run may do.            *)
(***************************************************************************)
EXTENDS ProcessRunner, TLC

CommandSymmetry == Permutations(Commands)

MCAnything == [c \in Commands |-> AllBehaviours]
MCEscaper  == [c \in Commands |-> {"escaper"}]
MCDaemon   == [c \in Commands |-> {"daemon"}]

\* Two different trees: one holds its pipes, the other has redirected them.
MCTrees ==
    LET one == CHOOSE c \in Commands : TRUE
    IN  [c \in Commands |-> IF c = one THEN {"child"} ELSE {"daemon"}]
=============================================================================
