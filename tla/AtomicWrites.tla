---------------------------- MODULE AtomicWrites ----------------------------
(***************************************************************************)
(* What a store operation may count on: its statements become durable all  *)
(* at once or never, whatever happens to the task that runs it.  A task    *)
(* that is told "ok" has written; one that is refused never will have;     *)
(* one that loses the answer to its COMMIT may have done either.           *)
(***************************************************************************)
CONSTANTS Tasks, Statements

VARIABLES outcome, db

vars == <<outcome, db>>

All(t) == {t} \X Statements

Init ==
    /\ outcome = [t \in Tasks |-> "pending"]
    /\ db = {}

Write(t) ==
    /\ outcome' = [outcome EXCEPT ![t] = "ok"]
    /\ db' = db \cup All(t)

Refuse(t) ==
    /\ outcome' = [outcome EXCEPT ![t] = "refused"]
    /\ UNCHANGED db

LoseAnswer(t) ==
    /\ outcome' = [outcome EXCEPT ![t] = "unknown"]
    /\ db' \in {db, db \cup All(t)}

Next == \E t \in Tasks : outcome[t] = "pending" /\ (Write(t) \/ Refuse(t) \/ LoseAnswer(t))

Spec == Init /\ [][Next]_vars
=============================================================================
