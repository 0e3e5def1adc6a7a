--------------------------- MODULE MCChainReader ----------------------------
(***************************************************************************)
(* An instance of ChainReader: one live block of two reads, two backfill   *)
(* blocks that share a key with it, and a registry pass.                   *)
(***************************************************************************)
EXTENDS ChainReader

MCReads == [l |-> <<"x", "y">>, b1 |-> <<"y">>, b2 |-> <<"y">>, s |-> <<"d">>]
=============================================================================
