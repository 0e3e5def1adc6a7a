----------------------------- MODULE MCService ------------------------------
(***************************************************************************)
(* Instances of Service: two endpoints, the second of another chain, and   *)
(* databases that are empty, of one chain, or of both.                     *)
(***************************************************************************)
EXTENDS Service

MCChainOf == <<"main", "test">>
MCHistories == {<<>>, <<"main">>, <<"main", "test">>}
=============================================================================
