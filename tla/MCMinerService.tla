--------------------------- MODULE MCMinerService ---------------------------
(***************************************************************************)
(* An instance of MinerService: the poll of the local status, and two      *)
(* proxied requests for dispatches that share a trail.                     *)
(***************************************************************************)
EXTENDS MinerService

MCPool == [a |-> "proxy", b |-> "proxy"]
MCPoolSize == [proxy |-> 2]
MCPlan == [poll |-> <<{"local"}>>, a |-> <<{"host"}, {"status"}, {"d1"}>>, b |-> <<{"d2"}>>]
MCParts == [local |-> <<>>, host |-> <<>>, status |-> <<>>, a1 |-> <<>>, a2 |-> <<>>,
            d1 |-> <<"a1">>, d2 |-> <<"a2", "a1">>]
MCKind == [local |-> "status", host |-> "endpoint", status |-> "status", a1 |-> "trail",
           a2 |-> "trail", d1 |-> "dispatch", d2 |-> "dispatch"]
MCHost == [k \in Resources |-> IF k = "local" THEN NoHost ELSE "p"]
=============================================================================
