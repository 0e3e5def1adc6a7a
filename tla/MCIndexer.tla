----------------------------- MODULE MCIndexer ------------------------------
(* Small chains for TLC: the hash of a block is its height. *)
EXTENDS Indexer, TLC

WinnersOnly == {"winners"}
WinnersAndAuthorship == {"winners", "authorship"}
ParticipationOnly == {"participation"}
ChainHashes == Height
OneRecord == {"rec"}
SameHash == [h \in Height |-> h]
FirstWon == [h \in Height |-> IF h = 0 THEN "won" ELSE "none"]
SecondUnproven == [h \in Height |-> IF h = 1 THEN "unproven" ELSE "won"]
AllWon == [h \in Height |-> "won"]
Kept == [h \in Height |-> U64Max + 1]
FirstDropped == [h \in Height |-> IF h = 0 THEN 1 ELSE U64Max + 1]
Everything == Height
NoFloor == {None}
AllCursors == SUBSET Height
TwoEach == [h \in Height |-> Values \ {Rec}]
ParticipantSymmetry == Permutations(Values \ {Rec})
Nobody == [h \in Height |-> {}]
=============================================================================
