---------------------------- MODULE StoreWriter -----------------------------
(***************************************************************************)
(* The one writer connection of the store (dashboard-store/src/store.rs,   *)
(* backend.rs): a mutex around a connection and a flag that says a         *)
(* transaction may have been left open.  A write is a future; it can be    *)
(* dropped while any of its SQL commands is in flight, and that command    *)
(* may or may not still take effect.  Dropping it rolls nothing back: the  *)
(* flag makes the next owner of the connection do that first.              *)
(*                                                                         *)
(* A task is one such write, of N statements.  The database engine is      *)
(* external: Turso refuses BEGIN inside a transaction and COMMIT outside   *)
(* one, Postgres accepts both with a warning.                              *)
(***************************************************************************)
EXTENDS Naturals

CONSTANTS
    Tasks,       \* the writes of the instance
    Verifiers,   \* those that hold the lock for a while before BEGIN (bind_network_with)
    N,           \* statements of a write
    Engines,     \* database engines to run on
    MaxCrashes,  \* bound: crashes of the process in a behaviour
    NoTask

ASSUME WriterAssumption ==
    /\ NoTask \notin Tasks
    /\ Verifiers \subseteq Tasks
    /\ N \in Nat \ {0}
    /\ Engines \subseteq {"turso", "postgres"}
    /\ MaxCrashes \in Nat

VARIABLES
    kind,        \* the engine
    engine,      \* external: [open, writes] of the connection and durable db
    holder,      \* owner of the writer mutex
    rollback,    \* Writer.rollback
    pc,          \* where each task is; an SQL command in flight has a place of its own
    n,           \* statements each task has executed
    closed,      \* close() has run
    crashes      \* crashes left

vars == <<kind, engine, holder, rollback, pc, n, closed, crashes>>

Statements == 1 .. N
All(t) == {t} \X Statements

Active == {"recover", "held", "begin", "run", "commit"}
Ended == {"ok", "refused", "unknown"}

Engine == [open : BOOLEAN, writes : SUBSET (Tasks \X Statements),
           db : SUBSET (Tasks \X Statements)]

TypeOK ==
    /\ kind \in Engines
    /\ engine \in Engine
    /\ holder \in Tasks \cup {NoTask}
    /\ rollback \in BOOLEAN /\ closed \in BOOLEAN
    /\ pc \in [Tasks -> {"new"} \cup Active \cup Ended]
    /\ n \in [Tasks -> 0 .. N]
    /\ crashes \in 0 .. MaxCrashes

Init ==
    /\ kind \in Engines
    /\ engine = [open |-> FALSE, writes |-> {}, db |-> {}]
    /\ holder = NoTask
    /\ rollback = FALSE
    /\ pc = [t \in Tasks |-> "new"]
    /\ n = [t \in Tasks |-> 0]
    /\ closed = FALSE
    /\ crashes = MaxCrashes

-----------------------------------------------------------------------------
(* External: what a command does to the engine when it takes effect *)

Begun(e) == [open |-> TRUE, writes |-> e.writes, db |-> e.db]
RolledBack(e) == [open |-> FALSE, writes |-> {}, db |-> e.db]
\* Outside a transaction every statement commits by itself.
Executed(e, w) ==
    IF e.open THEN [open |-> TRUE, writes |-> e.writes \cup {w}, db |-> e.db]
    ELSE [open |-> FALSE, writes |-> e.writes, db |-> e.db \cup {w}]
Committed(e) == [open |-> FALSE, writes |-> {}, db |-> e.db \cup e.writes]

\* The command a task has in flight.
Effect(t) ==
    CASE pc[t] = "recover" -> RolledBack(engine)
      [] pc[t] = "begin" -> Begun(engine)
      [] pc[t] = "run" -> Executed(engine, <<t, n[t] + 1>>)
      [] pc[t] = "commit" -> Committed(engine)
      [] OTHER -> engine

\* Turso answers BEGIN inside a transaction and COMMIT outside one with an error.
Rejected(t) ==
    /\ kind = "turso"
    /\ (pc[t] = "begin" /\ engine.open) \/ (pc[t] = "commit" /\ ~ engine.open)

-----------------------------------------------------------------------------
(* One write, command by command *)

Goes(t, place) == pc' = [pc EXCEPT ![t] = place] /\ UNCHANGED <<kind, closed, crashes>>
\* The guard is dropped: the next waiter gets the lock.
Ends(t, outcome) == holder' = NoTask /\ Goes(t, outcome) /\ UNCHANGED n

\* lock_writer(): an interrupted predecessor is rolled back first.
Lock(t) ==
    /\ pc[t] = "new" /\ holder = NoTask /\ ~ closed
    /\ holder' = t
    /\ Goes(t, IF rollback THEN "recover" ELSE "held")
    /\ UNCHANGED <<engine, rollback, n>>

\* Turso skips the ROLLBACK when no transaction is open, which changes nothing.
Recover(t) ==
    /\ pc[t] = "recover"
    /\ engine' = RolledBack(engine)
    /\ rollback' = FALSE
    /\ Goes(t, "held")
    /\ UNCHANGED <<holder, n>>

\* Deviations: the flag is raised only by the drop of a begun write; no BEGIN.
StartTransaction_Late(t) ==
    /\ pc[t] = "held"
    /\ Goes(t, "begin")
    /\ UNCHANGED <<engine, holder, rollback, n>>
StartTransaction_Autocommit(t) ==
    /\ pc[t] = "held"
    /\ rollback' = TRUE
    /\ Goes(t, "run")
    /\ UNCHANGED <<engine, holder, n>>

\* Write::begin() raises the flag before it sends BEGIN.
StartTransaction(t) ==
    /\ pc[t] = "held"
    /\ rollback' = TRUE
    /\ Goes(t, "begin")
    /\ UNCHANGED <<engine, holder, n>>

Begin(t) ==
    /\ pc[t] = "begin" /\ ~ Rejected(t)
    /\ engine' = Begun(engine)
    /\ Goes(t, "run")
    /\ UNCHANGED <<holder, rollback, n>>

Execute(t) ==
    /\ pc[t] = "run"
    /\ engine' = Executed(engine, <<t, n[t] + 1>>)
    /\ n' = [n EXCEPT ![t] = @ + 1]
    /\ Goes(t, IF n[t] + 1 < N THEN "run" ELSE "commit")
    /\ UNCHANGED <<holder, rollback>>

Commit(t) ==
    /\ pc[t] = "commit" /\ ~ Rejected(t)
    /\ engine' = Committed(engine)
    /\ rollback' = FALSE
    /\ Ends(t, "ok")

\* The write ends before its COMMIT has been answered.  Only a Write raises the
\* flag when it is dropped; before BEGIN has returned there is only the guard.
Dropped(t) ==
    /\ rollback' = (rollback \/ pc[t] \in {"run", "commit"})
    /\ Ends(t, IF pc[t] = "commit" THEN "unknown" ELSE "refused")

\* An operation that finds its generation stale returns without COMMIT; a
\* verification that fails returns without BEGIN.
Abandon(t) ==
    /\ pc[t] = "run" \/ (pc[t] = "held" /\ t \in Verifiers)
    /\ Dropped(t)
    /\ UNCHANGED engine

\* A command returns an error: it may have taken effect, and the engine may
\* have ended the transaction itself.
CommandFails(t) ==
    /\ pc[t] \in Active \ {"held"}
    /\ engine' \in {engine, Effect(t), RolledBack(engine)}
    /\ Dropped(t)

\* The future is dropped at an await: a command in flight may still take effect.
Cancel(t) ==
    /\ pc[t] \in Active \ {"held"} \/ (pc[t] = "held" /\ t \in Verifiers)
    /\ engine' \in {engine, Effect(t)}
    /\ Dropped(t)

\* The process ends and opens the store again.  The engine rolls back what a
\* lost connection leaves open.
Crash ==
    /\ crashes > 0 /\ ~ closed
    /\ crashes' = crashes - 1
    /\ engine' \in {RolledBack(engine)} \cup {RolledBack(Effect(t)) : t \in Tasks \cap {holder}}
    /\ holder' = NoTask
    /\ rollback' = FALSE
    /\ pc' = [t \in Tasks |-> IF t # holder THEN pc[t]
                              ELSE IF pc[t] = "commit" THEN "unknown" ELSE "refused"]
    /\ UNCHANGED <<kind, n, closed>>

\* close() owns the store, so no write is left; the connection closes even if
\* the rollback fails, and takes an open transaction with it.
Close ==
    /\ holder = NoTask /\ ~ closed
    /\ engine' = RolledBack(engine)
    /\ rollback' = FALSE
    /\ closed' = TRUE
    /\ UNCHANGED <<kind, holder, pc, n, crashes>>

Next ==
    \/ \E t \in Tasks :
          \/ Lock(t) \/ Recover(t) \/ StartTransaction(t) \/ Begin(t) \/ Execute(t) \/ Commit(t)
          \/ Abandon(t) \/ CommandFails(t) \/ Cancel(t)
    \/ Crash
    \/ Close

Spec == Init /\ [][Next]_vars

-----------------------------------------------------------------------------
(* Properties *)

\* No write starts inside the transaction of another: Turso would refuse every
\* later write, and Postgres would join the two.
NoNestedBegin == \A t \in Tasks : pc[t] \in {"held", "begin"} => ~ engine.open

\* The atomicity that every other module takes for granted.
Atomic == INSTANCE AtomicWrites WITH
              db <- engine.db,
              outcome <- [t \in Tasks |-> IF pc[t] \in Ended THEN pc[t] ELSE "pending"]
RefinesAtomicWrites == Atomic!Spec
=============================================================================
