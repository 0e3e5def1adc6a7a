--------------------------- MODULE MCPublication ----------------------------
(***************************************************************************)
(* The two components that publish what the indexer keeps, in one run: the *)
(* qblock files and the registry share nothing, so a behaviour is one of   *)
(* the one or of the other.                                                *)
(***************************************************************************)
EXTENDS QblockFiles, Registry

VARIABLE part

PubInit ==
    /\ Init /\ RegInit /\ part \in {"files", "registry"}
    /\ part = "registry" => old = {}
PubNext ==
    \/ part = "files" /\ Next /\ UNCHANGED <<regVars, part>>
    \/ part = "registry" /\ RegNext /\ UNCHANGED <<vars, part>>
PubSpec == PubInit /\ [][PubNext]_<<vars, regVars, part>>
=============================================================================
