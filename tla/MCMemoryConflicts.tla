--------------------------- MODULE MCMemoryConflicts ---------------------------
(***************************************************************************)
(* Three contents; any two may contradict each other, as the review finds; *)
(* one turn and the worker that consolidates.                              *)
(***************************************************************************)
EXTENDS MemoryConflicts, TLC

CONSTANTS red, green, blue

MCContents == {red, green, blue}
MCRelated == {{red, green}, {green, blue}, {red, blue}}
ContentSymmetry == Permutations(MCContents)

=============================================================================
