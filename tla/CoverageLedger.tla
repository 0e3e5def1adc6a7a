--------------------------- MODULE CoverageLedger ---------------------------
(***************************************************************************)
(* What the store promises about completion, with nothing of how intervals *)
(* are kept: every domain has an epoch (its generation) and a set of       *)
(* completed heights.  Heights are added within an epoch; a domain         *)
(* forgets them all, and only, when it enters its next epoch.              *)
(***************************************************************************)
EXTENDS Naturals

CONSTANTS Domains, Height

VARIABLES epoch, complete

vars == <<epoch, complete>>

Init ==
    /\ epoch = [d \in Domains |-> 1]
    /\ complete = [d \in Domains |-> {}]

Record ==
    /\ UNCHANGED epoch
    /\ complete' \in [Domains -> SUBSET Height]
    /\ \A d \in Domains : complete[d] \subseteq complete'[d]

Forget(D) ==
    /\ epoch' = [d \in Domains |-> IF d \in D THEN epoch[d] + 1 ELSE epoch[d]]
    /\ complete' = [d \in Domains |-> IF d \in D THEN {} ELSE complete[d]]

Next == Record \/ \E D \in SUBSET Domains : Forget(D)

Spec == Init /\ [][Next]_vars
=============================================================================
