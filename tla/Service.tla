------------------------------ MODULE Service -------------------------------
(***************************************************************************)
(* The backend process from start to exit, over crashes and restarts       *)
(* (quip-dashboard/src/bin/quip-dashboard.rs, lifecycle.rs, health.rs,     *)
(* with the parts of dashboard-store it drives at startup): the writer     *)
(* lease and the migrations, the required tasks and their bounded          *)
(* shutdown, the binding of the database to a chain, the one-shot device   *)
(* backfill, and the miner poll with its catch-up checkpoint.              *)
(*                                                                         *)
(* Time is the number of shutdown deadlines that have passed.  A retained  *)
(* block is the chain it came from.  The validators, the miner and a       *)
(* second process that wants the lease are external.                       *)
(***************************************************************************)
EXTENDS Naturals, Sequences, FiniteSets

CONSTANTS
    Tasks,       \* the required tasks of the instance
    Chains,      \* the chains a validator may serve
    ChainOf,     \* config.validator_rpc_urls: the chain of each endpoint, in order
    Histories,   \* retained histories a database may start with
    Migrations,  \* number of migrations in NAMES
    Lookback,    \* 200: solutions behind the head the catch-up keeps
    Batch,       \* 25: solutions per poll
    MaxRows,     \* bound: retained blocks
    MaxHead,     \* bound: completed solutions of the chain
    MaxStarts,   \* bound: starts of the process
    MaxConns,    \* bound: HTTP connections at a time
    NoChain

ASSUME ServiceAssumption ==
    /\ NoChain \notin Chains
    /\ Tasks \subseteq {"http", "files", "miner", "indexer", "watchdog"}
    /\ ChainOf \in Seq(Chains) \ {<<>>} /\ Histories \subseteq Seq(Chains)
    /\ {Migrations, Lookback, MaxRows, MaxHead, MaxStarts, MaxConns} \subseteq Nat
    /\ Batch \in Nat \ {0}

Ended == {"ok", "failed", "aborted"}

VARIABLES
    db,          \* durable: [ledger, genesis, retained, marker, cleared, obs,
                 \*           checkpoint, settled, head]
    lease,       \* who holds the writer lease
    starts,      \* starts so far
    pc,          \* where serve() and TaskSupervisor::run are
    clock,       \* shutdown deadlines that have passed
    task,        \* state of each required task
    cancelled,   \* the cancellation token
    failure,     \* the first failure is kept
    closed,      \* the store was closed in order
    conns,       \* HTTP connections, each an owner of the store
    phase,       \* HealthState.phase
    dead,        \* HealthState.dead
    ipc,         \* where run_indexer is
    at,          \* endpoint it uses, and retained row it verifies: [ep, row]
    iobs,        \* its copy of the observability snapshot's decision
    bound,       \* the watch channel to the miner poll
    mpc,         \* where poll_miner is
    mobs,        \* its copy of the decision
    todo         \* solutions of this poll's catch-up

taskVars == <<task, conns, dead>>
indexerVars == <<ipc, at, iobs, bound>>
minerVars == <<mpc, mobs, todo>>
vars == <<db, lease, starts, pc, clock, cancelled, failure, closed, phase, taskVars,
          indexerVars, minerVars>>

Up == {"open", "migrate", "setup", "running", "drain", "abort", "close"}
Alive == pc \in {"running", "drain", "abort"}
Runs(t) == Alive /\ task[t] = "run"
\* The steps of the indexer and of the miner poll: one taken after the cancellation
\* has the effect it would have had just before it.
Works(t) == pc = "running" /\ task[t] = "run"
\* Where a new process's tasks begin.
FreshTasks ==
    /\ ipc' = "connect" /\ at' = [ep |-> 1, row |-> 1] /\ iobs' = FALSE /\ bound' = FALSE
    /\ mpc' = "tick" /\ mobs' = FALSE /\ todo' = <<>>

-----------------------------------------------------------------------------
(* Start: the lease, the migrations, the tasks *)

Stopped == [t \in Tasks |-> "none"]
Init ==
    /\ \E n \in 0 .. Migrations, r \in Histories :
         db = [ledger |-> n, genesis |-> NoChain, retained |-> r, marker |-> "none",
               cleared |-> FALSE, obs |-> FALSE, checkpoint |-> 0,
               settled |-> {}, head |-> 0]
    /\ lease = "free" /\ starts = 0 /\ pc = "down" /\ clock = 0
    /\ task = Stopped /\ cancelled = FALSE /\ failure = FALSE /\ closed = FALSE
    /\ conns = 0 /\ phase = "LocalStartup" /\ dead = {}
    /\ ipc = "connect" /\ at = [ep |-> 1, row |-> 1] /\ iobs = FALSE /\ bound = FALSE
    /\ mpc = "tick" /\ mobs = FALSE /\ todo = <<>>

Start ==
    /\ pc \in {"down", "exited"} /\ starts < MaxStarts
    /\ starts' = starts + 1 /\ pc' = "open" /\ clock' = 0
    /\ task' = Stopped /\ cancelled' = FALSE /\ failure' = FALSE /\ closed' = FALSE
    /\ conns' = 0 /\ phase' = "LocalStartup" /\ dead' = {}
    /\ UNCHANGED <<db, lease, indexerVars, minerVars>>

\* The process is gone: the kernel and the database release what it held.
Gone == lease' = IF lease = "service" THEN "free" ELSE lease

Exit(bad) ==
    /\ pc' = "exited" /\ failure' = (failure \/ bad) /\ Gone

\* Store::open: the lease is tried, never waited for.  A signal or the startup
\* deadline ends the wait; dropping the half-open store gives the lease back.
Open ==
    /\ pc = "open"
    /\ \/ lease = "free" /\ lease' = "service" /\ pc' = "migrate" /\ failure' = failure
       \/ lease # "free" /\ Exit(TRUE)
    /\ UNCHANGED <<db, starts, clock, cancelled, closed, phase, taskVars, indexerVars,
                   minerVars>>

\* apply(): every pending migration with its ledger row in a transaction of its own.
Migrate ==
    /\ pc = "migrate"
    /\ IF db.ledger < Migrations
         THEN db' = [db EXCEPT !.ledger = @ + 1] /\ UNCHANGED <<pc, lease, failure>>
         ELSE \/ pc' = "setup" /\ UNCHANGED <<db, lease, failure>>
              \/ Exit(TRUE) /\ UNCHANGED db
    /\ UNCHANGED <<starts, clock, cancelled, closed, phase, taskVars, indexerVars, minerVars>>

\* A signal before the store is open ends the process with success, nothing to close.
StopEarly ==
    /\ pc \in {"open", "migrate"}
    /\ Exit(FALSE)
    /\ UNCHANGED <<db, starts, clock, cancelled, closed, phase, taskVars, indexerVars,
                   minerVars>>

\* The listener and the miner client; a failure closes the store again.
Setup ==
    /\ pc = "setup"
    /\ \/ /\ pc' = "running" /\ task' = [t \in Tasks |-> "run"] /\ phase' = "Connecting"
          /\ UNCHANGED <<lease, failure, closed>>
       \/ Exit(TRUE) /\ closed' = TRUE /\ UNCHANGED <<task, phase>>
    /\ UNCHANGED <<db, starts, clock, cancelled, conns, dead, indexerVars, minerVars>>

\* kill -9, power: only the database is left.
Crash ==
    /\ pc \in Up
    /\ pc' = "down" /\ Gone /\ task' = Stopped /\ conns' = 0 /\ clock' = 0
    /\ cancelled' = FALSE /\ failure' = FALSE /\ closed' = FALSE
    /\ phase' = "LocalStartup" /\ dead' = {} /\ FreshTasks
    /\ UNCHANGED <<db, starts>>

\* External: another process (an administrative command) owns the database for a while.
AdminOpen == lease = "free" /\ pc \in {"down", "open", "exited"} /\ lease' = "admin"
AdminClose == lease = "admin" /\ lease' = "free"
Admin ==
    /\ AdminOpen \/ AdminClose
    /\ UNCHANGED <<db, starts, pc, clock, cancelled, failure, closed, phase, taskVars,
                   indexerVars, minerVars>>
-----------------------------------------------------------------------------
(* TaskSupervisor::run *)

\* The select is biased: a task that has ended is seen before a signal.
Supervise ==
    /\ pc = "running"
    /\ \/ \E t \in Tasks :
            /\ task[t] \in Ended
            /\ failure' = TRUE /\ dead' = dead \cup {t} /\ phase' = phase
       \/ /\ \A t \in Tasks : task[t] = "run"
          /\ phase' = "Stopping" /\ UNCHANGED <<failure, dead>>
    /\ cancelled' = TRUE /\ pc' = "drain" /\ FreshTasks
    /\ UNCHANGED <<db, lease, starts, clock, closed, task, conns>>

Joined == \A t \in Tasks : task[t] \in Ended
Failures == {t \in Tasks : task[t] = "failed"}

\* Deviation: the drain has no deadline.
Drain_Patient ==
    /\ pc = "drain" /\ Joined
    /\ pc' = "close" /\ failure' = (failure \/ Failures # {}) /\ dead' = dead \cup Failures
    /\ UNCHANGED <<db, lease, starts, clock, cancelled, closed, phase, task, conns,
                   indexerVars, minerVars>>
\* Every task is joined, or at the deadline less the reserve the rest are aborted.
Drain ==
    /\ pc = "drain"
    /\ \/ Joined /\ pc' = "close" /\ failure' = (failure \/ Failures # {})
       \/ ~Joined /\ clock >= 1 /\ pc' = "abort" /\ failure' = TRUE
    /\ dead' = dead \cup Failures
    /\ UNCHANGED <<db, lease, starts, clock, cancelled, closed, phase, task, conns,
                   indexerVars, minerVars>>

\* An aborted future must be gone before the store is closed; if one is not, the
\* process leaves without closing it.
Abort ==
    /\ pc = "abort"
    /\ \/ Joined /\ pc' = "close" /\ UNCHANGED <<lease, failure>>
       \/ ~Joined /\ clock >= 2 /\ Exit(TRUE)
    /\ UNCHANGED <<db, starts, clock, cancelled, closed, phase, taskVars, indexerVars,
                   minerVars>>

\* Deviation: the store is closed under whoever still owns it.
CanClose_Always == TRUE
\* close_store: Arc::try_unwrap refuses while a connection owns the store.
CanClose == conns = 0

Close ==
    /\ pc = "close"
    /\ \/ closed' = CanClose /\ failure' = (failure \/ ~CanClose)
       \/ closed' = closed /\ failure' = TRUE
    /\ pc' = "exited" /\ Gone
    /\ UNCHANGED <<db, starts, clock, cancelled, phase, taskVars, indexerVars, minerVars>>

Tick ==
    /\ pc \in {"drain", "abort"} /\ clock < (IF pc = "drain" THEN 1 ELSE 2)
    /\ clock' = clock + 1
    /\ UNCHANGED <<db, lease, starts, pc, cancelled, failure, closed, phase, taskVars,
                   indexerVars, minerVars>>

Main == Open \/ Migrate \/ Supervise \/ Drain \/ Abort \/ Close
-----------------------------------------------------------------------------
(* The tasks other than the indexer and the miner poll *)

Finishes(t, how) == task' = [task EXCEPT ![t] = how]

\* A cancelled task returns, but http only once its connections are served; an
\* aborted one ends at its next await.
TaskStops(t) ==
    /\ Runs(t)
    /\ \/ cancelled /\ (t = "http" => conns = 0) /\ Finishes(t, "ok")
       \/ pc = "abort" /\ Finishes(t, "aborted")
    /\ UNCHANGED <<db, lease, starts, pc, clock, cancelled, failure, closed, phase, conns,
                   dead, indexerVars, minerVars>>

\* A listener error, a panic in a file writer, a watchdog that was starved for 15 seconds or
\* sees a dead task, or a store error of the indexer or the miner poll.
TaskFails(t) ==
    /\ Runs(t) /\ Finishes(t, "failed")
    /\ t \in {"indexer", "miner"} => pc = "running"
    /\ IF t = "indexer" THEN ipc' = "connect" /\ at' = [ep |-> 1, row |-> 1] /\ iobs' = FALSE
                        ELSE UNCHANGED <<ipc, at, iobs>>
    /\ IF t = "miner" THEN mpc' = "tick" /\ mobs' = FALSE /\ todo' = <<>> ELSE UNCHANGED minerVars
    /\ UNCHANGED <<db, lease, starts, pc, clock, cancelled, failure, closed, phase, conns,
                   dead, bound>>

\* Connections are tasks of their own: they outlive an aborted listener.
Connection ==
    /\ pc \in Up
    /\ \/ Runs("http") /\ ~cancelled /\ conns < MaxConns /\ conns' = conns + 1
       \/ conns > 0 /\ conns' = conns - 1
    /\ UNCHANGED <<db, lease, starts, pc, clock, cancelled, failure, closed, phase, task,
                   dead, indexerVars, minerVars>>
-----------------------------------------------------------------------------
(* run_indexer *)

Fails == Finishes("indexer", "failed")
\* The next endpoint, or after the last one the backoff and the first again.
NextEndpoint == IF at.ep < Len(ChainOf) THEN at.ep + 1 ELSE 1

\* connect_and_bind: a bound database expects its own genesis, an unbound one asks the
\* endpoint.  A mismatch is permanent, an unreachable endpoint is passed over.
Connect ==
    /\ Works("indexer") /\ ipc = "connect"
    /\ LET chain == ChainOf[at.ep] IN
       \/ /\ db.genesis \in {NoChain, chain}
          /\ ipc' = "verify" /\ at' = [at EXCEPT !.row = 1]
          /\ phase' = "Verifying" /\ UNCHANGED task
       \/ /\ db.genesis \notin {NoChain, chain}
          /\ Fails /\ UNCHANGED <<ipc, at, phase>>
       \/ /\ at' = [ep |-> NextEndpoint, row |-> 1]
          /\ phase' = IF NextEndpoint = 1 THEN "Connecting" ELSE phase
          /\ UNCHANGED <<ipc, task>>
    /\ UNCHANGED <<db, lease, starts, pc, clock, cancelled, failure, closed, conns, dead, iobs, bound, minerVars>>

\* Deviation: one matching block is taken for the whole history.
Verified_First == at.row > 1 \/ db.retained = <<>>
Verified == at.row > Len(db.retained)

\* bind_network_with: every retained block is asked for; an answer that does not come
\* is tried again from the start, one that differs is permanent.  Only then the
\* genesis is written.
Verify ==
    /\ Works("indexer") /\ ipc = "verify"
    /\ LET chain == ChainOf[at.ep] IN
       IF db.genesis # NoChain \/ Verified
         THEN /\ db' = [db EXCEPT !.genesis = chain]
              /\ ipc' = "marker" /\ bound' = TRUE /\ phase' = "Ready"
              /\ at' = [at EXCEPT !.row = 1] /\ UNCHANGED task
         ELSE \/ /\ db.retained[at.row] = chain
                 /\ at' = [at EXCEPT !.row = @ + 1] /\ UNCHANGED <<db, ipc, bound, phase, task>>
              \/ /\ db.retained[at.row] # chain
                 /\ Fails /\ UNCHANGED <<db, ipc, bound, phase, at>>
              \/ /\ at' = [ep |-> 1, row |-> 1] /\ ipc' = "connect"
                 /\ phase' = "Connecting" /\ UNCHANGED <<db, bound, task>>
    /\ UNCHANGED <<lease, starts, pc, clock, cancelled, failure, closed, conns, dead,
                   iobs, minerVars>>

\* probe_device_access_time_data: there are winner rows and none has the field, as in every
\* history from before the migration.
FieldMissing == db.retained # <<>>

\* ensure_device_access_time_backfill, one durable write at a time.
ReadMarker ==
    /\ Works("indexer") /\ ipc = "marker"
    /\ IF db.marker # "none" THEN ipc' = "obsread" /\ db' = db
       ELSE IF FieldMissing
         THEN db' = [db EXCEPT !.marker = "triggered"] /\ ipc' = "reindex"
         ELSE db' = [db EXCEPT !.marker = "not-needed"] /\ ipc' = "obsread"
    /\ UNCHANGED <<lease, starts, pc, clock, cancelled, failure, closed, phase, taskVars, at,
                   iobs, bound, minerVars>>

ReindexWinners ==
    /\ Works("indexer") /\ ipc = "reindex"
    /\ db' = [db EXCEPT !.cleared = TRUE] /\ ipc' = "obsread"
    /\ UNCHANGED <<lease, starts, pc, clock, cancelled, failure, closed, phase, taskVars, at,
                   iobs, bound, minerVars>>

\* The decision is added to the observability snapshot: read, then written.
SurfaceDecision ==
    /\ Works("indexer")
    /\ \/ ipc = "obsread" /\ iobs' = TRUE /\ ipc' = "obswrite" /\ db' = db
       \/ ipc = "obswrite" /\ db' = [db EXCEPT !.obs = iobs] /\ ipc' = "index" /\ iobs' = FALSE
    /\ UNCHANGED <<lease, starts, pc, clock, cancelled, failure, closed, phase, taskVars, at,
                   bound, minerVars>>

\* The indexer proper (module Indexer) keeps blocks of the chain it is connected to.
Index ==
    /\ Works("indexer") /\ ipc = "index"
    /\ \/ /\ Len(db.retained) < MaxRows
          /\ db' = [db EXCEPT !.retained = Append(@, ChainOf[at.ep])]
       \/ db.head < MaxHead /\ db' = [db EXCEPT !.head = @ + 1]
    /\ UNCHANGED <<lease, starts, pc, clock, cancelled, failure, closed, phase, taskVars,
                   indexerVars, minerVars>>
-----------------------------------------------------------------------------
(* poll_miner *)

\* Two read-modify-writes of the snapshot per poll, once the database is bound:
\* persist_miner_poll, then health and coverage.
ReadSnapshot ==
    /\ Works("miner") /\ bound /\ mpc \in {"tick", "enrich"}
    /\ mobs' = db.obs /\ mpc' = IF mpc = "tick" THEN "persist" ELSE "observe"
    /\ UNCHANGED <<db, lease, starts, pc, clock, cancelled, failure, closed, phase, taskVars,
                   indexerVars, todo>>
WriteSnapshot ==
    /\ Works("miner") /\ mpc \in {"persist", "observe"}
    /\ db' = [db EXCEPT !.obs = mobs] /\ mobs' = FALSE
    /\ mpc' = IF mpc = "persist" THEN "enrich" ELSE "range"
    /\ UNCHANGED <<lease, starts, pc, clock, cancelled, failure, closed, phase, taskVars,
                   indexerVars, todo>>

Floor(h) == IF h > Lookback THEN h - Lookback ELSE 0

\* mining_catchup_range: a checkpoint too far behind is moved to the floor.
CatchupRange ==
    /\ Works("miner") /\ mpc = "range"
    /\ LET from == IF db.checkpoint < Floor(db.head) THEN Floor(db.head) ELSE db.checkpoint
           through == IF from + Batch < db.head THEN from + Batch ELSE db.head
       IN  /\ db' = [db EXCEPT !.checkpoint = from]
           /\ todo' = [i \in 1 .. through - from |-> from + i]
    /\ mpc' = "catchup"
    /\ UNCHANGED <<lease, starts, pc, clock, cancelled, failure, closed, phase, taskVars,
                   indexerVars, mobs>>

\* Deviation: the checkpoint passes a solution the miner could not be asked about.
Answers_All == {"row", "gap", "down"}
\* Answers that settle a solution: its row, or a gap that is proved (404, unparsable,
\* another solution's number).  Any other error does not.
Answers == {"row", "gap"}

\* persist_mining_attempt: row and checkpoint in one transaction; a miner that does not
\* answer pauses the catch-up at the checkpoint.
PersistAttempt ==
    /\ Works("miner") /\ mpc = "catchup"
    /\ \E a \in {"row", "gap", "down"} :
         IF todo # <<>> /\ a \in Answers
           THEN /\ db' = [db EXCEPT !.checkpoint = IF Head(todo) > @ THEN Head(todo) ELSE @,
                          !.settled = IF a = "down" THEN @ ELSE @ \cup {Head(todo)}]
                /\ todo' = Tail(todo) /\ mpc' = mpc
           ELSE todo' = <<>> /\ mpc' = "tick" /\ db' = db
    /\ UNCHANGED <<lease, starts, pc, clock, cancelled, failure, closed, phase, taskVars,
                   indexerVars, mobs>>

Indexer == Connect \/ Verify \/ ReadMarker \/ ReindexWinners \/ SurfaceDecision \/ Index
Miner == ReadSnapshot \/ WriteSnapshot \/ CatchupRange \/ PersistAttempt
Next ==
    \/ Start \/ StopEarly \/ Setup \/ Crash \/ Admin \/ Main \/ Tick
    \/ Connection \/ Indexer \/ Miner
    \/ \E t \in Tasks : TaskStops(t) \/ TaskFails(t)

\* The runtime runs the main task and the clock; no task is assumed to end.
Spec == Init /\ [][Next]_vars /\ WF_vars(Main) /\ WF_vars(Tick)
-----------------------------------------------------------------------------
(* Properties *)

\* The store is closed only when no task and no connection can use it any more, and
\* success is reported only if no required task failed or had to be aborted and, once
\* tasks ran, the store was closed (lifecycle.rs:83, bin/quip-dashboard.rs:275).
ShutdownIsClean ==
    /\ closed => conns = 0 /\ \A t \in Tasks : task[t] # "run"
    /\ pc = "exited" /\ ~failure =>
        \A t \in Tasks : /\ task[t] \in {"none", "ok"}
                         /\ task[t] = "ok" => closed

\* A database is bound to a chain only if every block it retains is of that chain,
\* whatever endpoints were tried and wherever a verification was cut off.
BoundHistory ==
    db.genesis # NoChain => \A i \in DOMAIN db.retained : db.retained[i] = db.genesis

\* Every solution at or below the catch-up checkpoint was settled, or is further behind
\* the head than the lookback: a miner that was away loses nothing recent.
CatchupLosesNothing ==
    \A s \in 1 .. db.checkpoint : s \in db.settled \/ s + Lookback <= db.head

\* A required task that failed ends the process.
FailureEndsProcess == (pc = "running" /\ Failures # {}) ~> pc \notin Up

\* "The cleared coverage and idempotent re-walk complete the recovery"
\* (lifecycle.rs:304): once the decision is made and the indexer runs, the winners'
\* coverage has been cleared.
TriggeredMeansCleared == ipc = "index" /\ db.marker = "triggered" => db.cleared
=============================================================================
