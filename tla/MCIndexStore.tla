---------------------------- MODULE MCIndexStore ----------------------------
(* Small instances of the store for TLC. *)
EXTENDS IndexStore, TLC

DataSymmetry == Permutations(Hashes) \cup Permutations(Values)
WinnersOnly == {"winners"}
WinnersAndAuthorship == {"winners", "authorship"}
OneCursor == {{0}}
=============================================================================
