--------------------------- MODULE ServiceProofs ----------------------------
(***************************************************************************)
(* The backend process's promises for every set of tasks, every list of    *)
(* endpoints, every retained history and any number of crashes and         *)
(* restarts: a bound database is of one chain, the store is closed under   *)
(* nobody and success is not claimed for a failed shutdown, and the miner  *)
(* catch-up passes no solution that is recent and not settled.             *)
(***************************************************************************)
EXTENDS Service, TLAPS

\* Where the indexer is once the database has been bound to its endpoint's chain.
BoundPlaces == {"marker", "reindex", "obsread", "obswrite", "index"}

DbRecord ==
    [ledger : Nat, genesis : Chains \cup {NoChain}, retained : Seq(Chains),
     marker : {"none", "triggered", "not-needed"}, cleared : BOOLEAN, obs : BOOLEAN,
     checkpoint : Nat, settled : SUBSET Nat, head : Nat]
DbType == db \in DbRecord
IndexerType ==
    /\ ipc \in {"connect", "verify"} \cup BoundPlaces
    /\ at \in [ep : 1 .. Len(ChainOf), row : Nat \ {0}]
    /\ iobs \in BOOLEAN
MinerType ==
    /\ mpc \in {"tick", "persist", "enrich", "observe", "range", "catchup"}
    /\ todo \in Seq(Nat)
    /\ mobs \in BOOLEAN

\* The binding: while the rows are verified, those before the current one are of the
\* endpoint's chain and nobody has bound the database to another; after it the database
\* and the connection agree.
BindingOK ==
    /\ ipc = "verify" =>
        /\ db.genesis \in {NoChain, ChainOf[at.ep]}
        /\ \A i \in DOMAIN db.retained : i < at.row => db.retained[i] = ChainOf[at.ep]
    /\ ipc \in BoundPlaces => db.genesis = ChainOf[at.ep]

\* The catch-up: what is left of a poll are the solutions right after the checkpoint.
CatchupOK ==
    mpc = "catchup" => \A i \in DOMAIN todo : todo[i] = db.checkpoint + i

\* The shutdown: what each place of serve() and run() knows of the tasks.
LifecycleOK ==
    /\ pc \in {"down", "exited"} \cup Up
    /\ task \in [Tasks -> {"none", "run"} \cup Ended]
    /\ conns \in Nat
    /\ pc \in {"down", "open", "migrate", "setup"} =>
        conns = 0 /\ ~closed /\ \A t \in Tasks : task[t] = "none"
    /\ closed => pc = "exited"
    /\ cancelled => pc \notin {"running", "open", "migrate", "setup", "down"}
    /\ pc \in {"running", "drain", "abort"} => \A t \in Tasks : task[t] # "none"
    /\ \A t \in Tasks : task[t] = "aborted" => failure
    /\ pc = "abort" => failure
    /\ pc = "close" => Joined /\ (~failure => \A t \in Tasks : task[t] = "ok")

ServiceInv ==
    /\ DbType /\ IndexerType /\ MinerType
    /\ BindingOK /\ CatchupOK /\ LifecycleOK
    /\ BoundHistory /\ CatchupLosesNothing /\ ShutdownIsClean
-----------------------------------------------------------------------------
(* The steps *)

\* The list of endpoints is not empty and each of them serves a chain.
LEMMA EndpointFacts ==
    /\ Len(ChainOf) \in Nat \ {0} /\ 1 \in 1 .. Len(ChainOf)
    /\ \A e \in 1 .. Len(ChainOf) : ChainOf[e] \in Chains /\ ChainOf[e] # NoChain
<1>1. ChainOf \in Seq(Chains) /\ ChainOf # <<>> /\ NoChain \notin Chains
  BY ServiceAssumption
<1>2. Len(ChainOf) \in Nat /\ Len(ChainOf) # 0
  BY <1>1
<1> QED
  BY <1>1, <1>2

\* Writing one field leaves a record of the database's shape.
LEMMA DbKeeps ==
    ASSUME DbType
    PROVE  /\ \A n \in Nat : [db EXCEPT !.ledger = n] \in DbRecord
           /\ \A c \in Chains : [db EXCEPT !.genesis = c] \in DbRecord
           /\ \A s \in Seq(Chains) : [db EXCEPT !.retained = s] \in DbRecord
           /\ \A m \in {"none", "triggered", "not-needed"} :
                [db EXCEPT !.marker = m] \in DbRecord
           /\ [db EXCEPT !.cleared = TRUE] \in DbRecord
           /\ \A b \in BOOLEAN : [db EXCEPT !.obs = b] \in DbRecord
           /\ \A n \in Nat : [db EXCEPT !.checkpoint = n] \in DbRecord
           /\ \A n \in Nat, s \in SUBSET Nat :
                [db EXCEPT !.checkpoint = n, !.settled = s] \in DbRecord
           /\ \A n \in Nat : [db EXCEPT !.head = n] \in DbRecord
  BY DEF DbType, DbRecord

\* The tasks of a new process begin in a well-formed state.
LEMMA FreshFacts ==
    ASSUME FreshTasks
    PROVE  IndexerType' /\ MinerType'
<1>1. iobs' \in BOOLEAN /\ mobs' \in BOOLEAN
  BY Zenon DEF FreshTasks
<1>2. at' \in [ep : 1 .. Len(ChainOf), row : Nat \ {0}]
  BY EndpointFacts DEF FreshTasks
<1>3. todo' \in Seq(Nat)
  BY DEF FreshTasks
<1> QED
  BY <1>1, <1>2, <1>3 DEF FreshTasks, IndexerType, MinerType

\* What mining_catchup_range computes: it never moves the checkpoint back, moves it only
\* over solutions behind the lookback, and plans the solutions right after it.
LEMMA CatchupFacts ==
    ASSUME DbType, CatchupRange
    PROVE  \E from \in Nat, n \in Nat :
              /\ db' = [db EXCEPT !.checkpoint = from]
              /\ from = db.checkpoint \/ from + Lookback <= db.head
              /\ todo' = [i \in 1 .. n |-> from + i]
<1>1. db.checkpoint \in Nat /\ db.head \in Nat /\ Lookback \in Nat /\ Batch \in Nat \ {0}
  BY ServiceAssumption DEF DbType, DbRecord
<1>2. Floor(db.head) \in Nat /\ (Floor(db.head) = 0 \/ Floor(db.head) + Lookback = db.head)
  BY <1>1 DEF Floor
<1>3. PICK f : f = Floor(db.head)
  OBVIOUS
<1>4. PICK from : from = IF db.checkpoint < f THEN f ELSE db.checkpoint
  OBVIOUS
<1>5. from \in Nat /\ (from = db.checkpoint \/ from + Lookback <= db.head)
  BY <1>1, <1>2, <1>3, <1>4
<1>6. PICK through : through = IF from + Batch < db.head THEN from + Batch ELSE db.head
  OBVIOUS
<1>7. db' = [db EXCEPT !.checkpoint = from] /\ todo' = [i \in 1 .. through - from |-> from + i]
  BY <1>3, <1>4, <1>6 DEF CatchupRange
<1>8. PICK n : n = IF through < from THEN 0 ELSE through - from
  OBVIOUS
<1>9. n \in Nat /\ 1 .. through - from = 1 .. n
  BY <1>1, <1>5, <1>6, <1>8
<1> QED
  BY <1>5, <1>7, <1>9

\* What persist_mining_attempt does with the next solution: it is settled and becomes the
\* checkpoint in one write, or nothing is written.
LEMMA AttemptFacts ==
    ASSUME DbType, MinerType, PersistAttempt
    PROVE  \/ db' = db /\ todo' = <<>> /\ mpc' = "tick"
           \/ /\ todo # <<>> /\ todo' = Tail(todo) /\ mpc' = mpc
              /\ \E n \in {db.checkpoint, Head(todo)} :
                   /\ n >= db.checkpoint /\ n >= Head(todo)
                   /\ db' = [db EXCEPT !.checkpoint = n,
                        !.settled = db.settled \cup {Head(todo)}]
<1>1. db.checkpoint \in Nat
  BY DEF DbType, DbRecord
<1>2. CASE \E a \in {"row", "gap", "down"} : ~(todo # <<>> /\ a \in Answers)
                 /\ todo' = <<>> /\ mpc' = "tick" /\ db' = db
  BY <1>2
<1>3. CASE ~(\E a \in {"row", "gap", "down"} : ~(todo # <<>> /\ a \in Answers)
                 /\ todo' = <<>> /\ mpc' = "tick" /\ db' = db)
  <2>1. PICK a \in Answers :
          /\ todo # <<>> /\ todo' = Tail(todo) /\ mpc' = mpc
          /\ db' = [db EXCEPT !.checkpoint = IF Head(todo) > @ THEN Head(todo) ELSE @,
                              !.settled = IF a = "down" THEN @ ELSE @ \cup {Head(todo)}]
    BY <1>3 DEF PersistAttempt
  <2>2. a # "down"
    BY DEF Answers
  <2>3. Head(todo) \in Nat
    BY <2>1 DEF MinerType
  <2>4. PICK n : n = IF Head(todo) > db.checkpoint THEN Head(todo) ELSE db.checkpoint
    OBVIOUS
  <2>5. /\ n \in {db.checkpoint, Head(todo)} /\ n >= db.checkpoint /\ n >= Head(todo)
        /\ db' = [db EXCEPT !.checkpoint = n, !.settled = db.settled \cup {Head(todo)}]
    BY <1>1, <2>1, <2>2, <2>3, <2>4 DEF DbType, DbRecord
  <2> QED BY <2>1, <2>5
<1> QED BY <1>2, <1>3

\* What one step of bind_network_with does: it binds the database, goes on to the next
\* row after one that matches, fails, or starts again.
LEMMA VerifyFacts ==
    ASSUME Verify
    PROVE  \/ /\ db.genesis # NoChain \/ at.row > Len(db.retained)
              /\ db' = [db EXCEPT !.genesis = ChainOf[at.ep]] /\ ipc' = "marker"
              /\ at' = [at EXCEPT !.row = 1]
           \/ /\ db.genesis = NoChain /\ ~(at.row > Len(db.retained))
              /\ db.retained[at.row] = ChainOf[at.ep]
              /\ db' = db /\ ipc' = ipc /\ at' = [at EXCEPT !.row = at.row + 1]
           \/ db' = db /\ ipc' = ipc /\ at' = at
           \/ db' = db /\ ipc' = "connect"
  BY DEF Verify, Verified

\* The rows before the current one are all of them once the current one is past the end.
LEMMA VerifiedFacts ==
    ASSUME ServiceInv, ipc = "verify", db.genesis # NoChain \/ at.row > Len(db.retained)
    PROVE  /\ db.genesis # NoChain => db.genesis = ChainOf[at.ep]
           /\ \A i \in DOMAIN db.retained : db.retained[i] = ChainOf[at.ep]
<1>1. db.retained \in Seq(Chains) /\ at.row \in Nat
  BY DEF ServiceInv, DbType, DbRecord, IndexerType
<1>2. CASE db.genesis # NoChain
  BY <1>2 DEF ServiceInv, BindingOK, BoundHistory
<1>3. CASE db.genesis = NoChain
  <2>1. at.row > Len(db.retained)
    BY <1>3
  <2>2. \A i \in DOMAIN db.retained : i < at.row
    BY <1>1, <2>1
  <2> QED BY <1>3, <2>2 DEF ServiceInv, BindingOK
<1> QED BY <1>2, <1>3

\* The database stays well formed.
LEMMA DataStep ==
    ASSUME ServiceInv, [Next]_vars
    PROVE  DbType'
<1> USE DEF ServiceInv, DbType
<1>1. CASE Migrate
  <2>1. db' = db \/ db' = [db EXCEPT !.ledger = db.ledger + 1]
    BY <1>1 DEF Migrate
  <2>2. db.ledger + 1 \in Nat
    BY DEF DbRecord
  <2> QED BY <2>1, <2>2, DbKeeps
<1>2. CASE Verify
  <2>1. db' = db \/ db' = [db EXCEPT !.genesis = ChainOf[at.ep]]
    BY <1>2 DEF Verify
  <2>2. ChainOf[at.ep] \in Chains
    BY EndpointFacts DEF IndexerType
  <2> QED BY <2>1, <2>2, DbKeeps
<1>3. CASE ReadMarker
  <2>1. \/ db' = db \/ db' = [db EXCEPT !.marker = "triggered"]
        \/ db' = [db EXCEPT !.marker = "not-needed"]
    BY <1>3 DEF ReadMarker
  <2> QED BY <2>1, DbKeeps
<1>4. CASE ReindexWinners
  BY <1>4, DbKeeps DEF ReindexWinners, taskVars, indexerVars, minerVars, BoundPlaces
<1>5. CASE SurfaceDecision
  <2>1. db' = db \/ db' = [db EXCEPT !.obs = iobs]
    BY <1>5 DEF SurfaceDecision
  <2>2. iobs \in BOOLEAN
    BY DEF IndexerType
  <2> QED BY <2>1, <2>2, DbKeeps
<1>6. CASE Index
  <2>1. \/ db' = [db EXCEPT !.retained = Append(db.retained, ChainOf[at.ep])]
        \/ db' = [db EXCEPT !.head = db.head + 1]
    BY <1>6 DEF Index
  <2>2. Append(db.retained, ChainOf[at.ep]) \in Seq(Chains) /\ db.head + 1 \in Nat
    BY EndpointFacts DEF IndexerType, DbRecord
  <2> QED BY <2>1, <2>2, DbKeeps
<1>7. CASE WriteSnapshot
  <2>1. db' = [db EXCEPT !.obs = mobs]
    BY <1>7 DEF WriteSnapshot
  <2>2. mobs \in BOOLEAN
    BY DEF MinerType
  <2> QED BY <2>1, <2>2, DbKeeps
<1>8. CASE CatchupRange
  <2>1. PICK from \in Nat : db' = [db EXCEPT !.checkpoint = from]
    BY <1>8, CatchupFacts
  <2> QED BY <2>1, DbKeeps
<1>9. CASE PersistAttempt
  <2>1. CASE db' = db
    BY <2>1
  <2>2. CASE db' # db
    <3>1. /\ todo # <<>>
          /\ \E n \in {db.checkpoint, Head(todo)} :
               db' = [db EXCEPT !.checkpoint = n, !.settled = db.settled \cup {Head(todo)}]
      BY <2>2, <1>9, AttemptFacts
    <3>2. Head(todo) \in Nat /\ db.checkpoint \in Nat /\ db.settled \in SUBSET Nat
      BY <3>1 DEF MinerType, DbRecord
    <3>3. db.settled \cup {Head(todo)} \in SUBSET Nat
      BY <3>2
    <3>4. PICK n \in Nat :
            db' = [db EXCEPT !.checkpoint = n, !.settled = db.settled \cup {Head(todo)}]
      BY <3>1, <3>2
    <3> QED BY <3>3, <3>4, DbKeeps
  <2> QED BY <2>1, <2>2
<1>10. CASE UNCHANGED vars \/ Start \/ StopEarly \/ Setup \/ Crash \/ Admin \/ Open
        \/ Supervise \/ Drain \/ Abort \/ Close \/ Tick \/ Connection \/ Connect
        \/ ReadSnapshot
        \/ \E t \in Tasks : TaskStops(t) \/ TaskFails(t)
  BY <1>10 DEF vars, Start, StopEarly, Setup, Crash, Admin, Open, Supervise, Drain, Abort,
     Close, Tick, Connection, Connect, ReadSnapshot, TaskStops, TaskFails, taskVars,
     indexerVars, minerVars, BoundPlaces
<1> QED
  BY <1>1, <1>2, <1>3, <1>4, <1>5, <1>6, <1>7, <1>8, <1>9, <1>10 DEF Next, Main, Indexer,
     Miner

\* So do the indexer's variables ...
LEMMA IndexerTypeStep ==
    ASSUME ServiceInv, [Next]_vars
    PROVE  IndexerType'
<1> USE DEF ServiceInv, IndexerType
<1>1. CASE Crash
  BY <1>1, FreshFacts DEF Crash
<1>2. CASE Supervise
  BY <1>2, FreshFacts DEF Supervise
<1>3. CASE Connect
  BY <1>3, EndpointFacts DEF Connect, taskVars, indexerVars, minerVars, BoundPlaces,
     NextEndpoint
<1>4. CASE Verify
  BY <1>4, EndpointFacts DEF Verify, taskVars, indexerVars, minerVars, BoundPlaces
<1>5. CASE ReadMarker
  BY <1>5 DEF ReadMarker, taskVars, indexerVars, minerVars, BoundPlaces
<1>6. CASE ReindexWinners
  BY <1>6 DEF ReindexWinners, taskVars, indexerVars, minerVars, BoundPlaces
<1>7. CASE SurfaceDecision
  BY <1>7 DEF SurfaceDecision, taskVars, indexerVars, minerVars, BoundPlaces
<1>8. ASSUME NEW t \in Tasks, TaskFails(t) PROVE IndexerType'
  <2>1. CASE t = "indexer"
    <3>1. ipc' = "connect" /\ at' = [ep |-> 1, row |-> 1]
      BY <2>1, <1>8 DEF TaskFails
    <3>2. iobs' \in BOOLEAN
      BY Zenon, <2>1, <1>8 DEF TaskFails
    <3> QED BY <3>1, <3>2, EndpointFacts
  <2>2. CASE t # "indexer"
    BY <2>2, <1>8 DEF TaskFails
  <2> QED BY <2>1, <2>2
<1>9. CASE UNCHANGED vars \/ Start \/ StopEarly \/ Setup \/ Admin \/ Open \/ Migrate
        \/ Drain \/ Abort \/ Close \/ Tick \/ Connection \/ Index \/ ReadSnapshot
        \/ WriteSnapshot \/ CatchupRange \/ PersistAttempt
        \/ \E t \in Tasks : TaskStops(t)
  BY <1>9 DEF vars, Start, StopEarly, Setup, Admin, Open, Migrate, Drain, Abort, Close, Tick,
     Connection, Index, ReadSnapshot, WriteSnapshot, CatchupRange, PersistAttempt, TaskStops,
     taskVars, indexerVars, minerVars, BoundPlaces
<1> QED
  BY <1>1, <1>2, <1>3, <1>4, <1>5, <1>6, <1>7, <1>8, <1>9 DEF Next, Main, Indexer, Miner

\* ... and the miner poll's.
LEMMA MinerTypeStep ==
    ASSUME ServiceInv, [Next]_vars
    PROVE  MinerType'
<1> USE DEF ServiceInv, MinerType
<1>1. CASE Crash
  BY <1>1, FreshFacts DEF Crash
<1>2. CASE Supervise
  BY <1>2, FreshFacts DEF Supervise
<1>3. CASE ReadSnapshot
  BY <1>3 DEF ReadSnapshot, taskVars, indexerVars, minerVars, DbType, DbRecord
<1>4. CASE WriteSnapshot
  BY <1>4 DEF WriteSnapshot, taskVars, indexerVars, minerVars
<1>5. CASE CatchupRange
  <2>1. PICK from \in Nat, n \in Nat : todo' = [i \in 1 .. n |-> from + i]
    BY <1>5, CatchupFacts
  <2>2. todo' \in Seq(Nat)
    BY <2>1
  <2> QED BY <2>2, <1>5 DEF CatchupRange
<1>6. CASE PersistAttempt
  <2>1. todo # <<>> => Tail(todo) \in Seq(Nat)
    OBVIOUS
  <2>2. todo' = <<>> \/ (todo # <<>> /\ todo' = Tail(todo))
    BY <1>6, AttemptFacts
  <2>3. todo' \in Seq(Nat)
    <3>1. <<>> \in Seq(Nat)
      OBVIOUS
    <3> QED BY <3>1, <2>1, <2>2
  <2> QED BY <2>3, <1>6, AttemptFacts DEF PersistAttempt
<1>7. ASSUME NEW t \in Tasks, TaskFails(t) PROVE MinerType'
  <2>1. CASE t = "miner"
    <3>1. mpc' = "tick" /\ todo' = <<>>
      BY <2>1, <1>7 DEF TaskFails
    <3>2. mobs' \in BOOLEAN
      BY Zenon, <2>1, <1>7 DEF TaskFails
    <3> QED BY <3>1, <3>2
  <2>2. CASE t # "miner"
    BY <2>2, <1>7 DEF TaskFails, minerVars
  <2> QED BY <2>1, <2>2
<1>8. CASE UNCHANGED vars \/ Start \/ StopEarly \/ Setup \/ Admin \/ Open \/ Migrate
        \/ Drain \/ Abort \/ Close \/ Tick \/ Connection \/ Connect \/ Verify
        \/ ReadMarker \/ ReindexWinners \/ SurfaceDecision \/ Index
        \/ \E t \in Tasks : TaskStops(t)
  BY <1>8 DEF vars, Start, StopEarly, Setup, Admin, Open, Migrate, Drain, Abort, Close, Tick,
     Connection, Connect, Verify, ReadMarker, ReindexWinners, SurfaceDecision, Index,
     TaskStops, taskVars, indexerVars, minerVars
<1> QED
  BY <1>1, <1>2, <1>3, <1>4, <1>5, <1>6, <1>7, <1>8 DEF Next, Main, Indexer, Miner

\* A step keeps what the indexer knows of the binding true.
LEMMA BindingStep ==
    ASSUME ServiceInv, [Next]_vars
    PROVE  BindingOK'
<1> USE DEF ServiceInv, DbType, DbRecord, IndexerType, BindingOK
<1>1. CASE Crash
  BY <1>1 DEF Crash, taskVars, indexerVars, minerVars, BoundPlaces, FreshTasks
<1>2. CASE Migrate
  BY <1>2 DEF Migrate, taskVars, indexerVars, minerVars, BoundPlaces
<1>3. CASE Supervise
  BY <1>3 DEF Supervise, taskVars, indexerVars, minerVars, BoundPlaces, FreshTasks
<1>4. CASE Connect
  BY <1>4 DEF Connect, taskVars, indexerVars, minerVars, BoundPlaces, NextEndpoint
<1>5. CASE Verify
  <2>1. ipc = "verify" /\ at.row \in Nat
    BY <1>5 DEF Verify
  <2>2. CASE /\ db.genesis # NoChain \/ at.row > Len(db.retained)
             /\ db' = [db EXCEPT !.genesis = ChainOf[at.ep]] /\ ipc' = "marker"
             /\ at' = [at EXCEPT !.row = 1]
    BY <2>2
  <2>3. CASE /\ db.genesis = NoChain /\ ~(at.row > Len(db.retained))
             /\ db.retained[at.row] = ChainOf[at.ep]
             /\ db' = db /\ ipc' = ipc /\ at' = [at EXCEPT !.row = at.row + 1]
    <3>1. \A i \in DOMAIN db.retained : i \in Nat /\ (i < at.row + 1 => i < at.row
    \/ i = at.row)
      BY <2>1
    <3>2. at'.row = at.row + 1 /\ at'.ep = at.ep
      BY <2>3
    <3> QED BY <2>1, <2>3, <3>1, <3>2 DEF BoundPlaces
  <2>4. CASE (db' = db /\ ipc' = ipc /\ at' = at) \/ (db' = db /\ ipc' = "connect")
    BY <2>4 DEF BoundPlaces
  <2> QED BY <1>5, VerifyFacts, <2>2, <2>3, <2>4
<1>6. CASE ReadMarker
  BY <1>6 DEF ReadMarker, taskVars, indexerVars, minerVars, BoundPlaces
<1>7. CASE ReindexWinners
  BY <1>7 DEF ReindexWinners, taskVars, indexerVars, minerVars, BoundPlaces
<1>8. CASE SurfaceDecision
  BY <1>8 DEF SurfaceDecision, taskVars, indexerVars, minerVars, BoundPlaces
<1>9. CASE Index
  BY <1>9 DEF Index, taskVars, indexerVars, minerVars, BoundPlaces
<1>10. CASE WriteSnapshot
  BY <1>10 DEF WriteSnapshot, taskVars, indexerVars, minerVars, BoundPlaces
<1>11. CASE CatchupRange
  BY <1>11 DEF CatchupRange, taskVars, indexerVars, minerVars, BoundPlaces
<1>12. CASE PersistAttempt
  BY <1>12 DEF PersistAttempt, taskVars, indexerVars, minerVars, BoundPlaces
<1>13. ASSUME NEW t \in Tasks, TaskFails(t) PROVE BindingOK'
  BY <1>13 DEF TaskFails, taskVars, indexerVars, minerVars, BoundPlaces
<1>14. CASE UNCHANGED vars \/ Start \/ StopEarly \/ Setup \/ Admin \/ Open \/ Drain
        \/ Abort \/ Close \/ Tick \/ Connection \/ ReadSnapshot
        \/ \E t \in Tasks : TaskStops(t)
  BY <1>14 DEF vars, Start, StopEarly, Setup, Admin, Open, Drain, Abort, Close, Tick,
     Connection, ReadSnapshot, TaskStops, taskVars, indexerVars, minerVars, BoundPlaces
<1> QED
  BY <1>1, <1>2, <1>3, <1>4, <1>5, <1>6, <1>7, <1>8, <1>9, <1>10, <1>11, <1>12, <1>13,
     <1>14 DEF Next, Main, Indexer, Miner

\* A step keeps a bound history of one chain.
LEMMA HistoryStep ==
    ASSUME ServiceInv, [Next]_vars
    PROVE  BoundHistory'
<1> USE DEF ServiceInv, DbType, DbRecord, IndexerType, BoundHistory
<1>1. CASE Migrate
  BY <1>1 DEF Migrate, taskVars, indexerVars, minerVars, BoundPlaces
<1>2. CASE Verify
  <2>1. CASE db' = db
    BY <2>1
  <2>2. CASE db' # db
    <3>1. /\ db.genesis # NoChain \/ at.row > Len(db.retained)
          /\ db' = [db EXCEPT !.genesis = ChainOf[at.ep]] /\ ipc = "verify"
      BY <2>2, <1>2, VerifyFacts DEF Verify
    <3>2. \A i \in DOMAIN db.retained : db.retained[i] = ChainOf[at.ep]
      BY <3>1, VerifiedFacts
    <3>3. db'.retained = db.retained /\ db'.genesis = ChainOf[at.ep]
      BY <3>1
    <3> QED BY <3>2, <3>3
  <2> QED BY <2>1, <2>2
<1>3. CASE ReadMarker
  BY <1>3 DEF ReadMarker, taskVars, indexerVars, minerVars, BoundPlaces
<1>4. CASE ReindexWinners
  BY <1>4 DEF ReindexWinners, taskVars, indexerVars, minerVars, BoundPlaces
<1>5. CASE SurfaceDecision
  BY <1>5 DEF SurfaceDecision, taskVars, indexerVars, minerVars, BoundPlaces
<1>6. CASE Index
  <2>1. db.genesis = ChainOf[at.ep]
    BY <1>6 DEF Index, BindingOK, BoundPlaces
  <2>2. CASE db' = [db EXCEPT !.head = db.head + 1]
    BY <2>2
  <2>3. CASE db' = [db EXCEPT !.retained = Append(db.retained, ChainOf[at.ep])]
    <3>1. db'.genesis = db.genesis /\ db'.retained = Append(db.retained, ChainOf[at.ep])
      BY <2>3
    <3>2. PICK s \in Seq(Chains) : s = db.retained
      OBVIOUS
    <3>3. PICK c : c = ChainOf[at.ep]
      OBVIOUS
    <3>4. \A i \in DOMAIN Append(s, c) : Append(s, c)[i] = c \/ (i \in DOMAIN s /\ Append(s,
    c)[i] = s[i])
      <4>1. c \in Chains
        BY <3>3, EndpointFacts
      <4> QED BY <3>2, <4>1
    <3> QED BY <2>1, <3>1, <3>2, <3>3, <3>4, EndpointFacts
  <2> QED BY <1>6, <2>2, <2>3 DEF Index
<1>7. CASE WriteSnapshot
  BY <1>7 DEF WriteSnapshot, taskVars, indexerVars, minerVars, BoundPlaces
<1>8. CASE CatchupRange
  BY <1>8 DEF CatchupRange, taskVars, indexerVars, minerVars, BoundPlaces
<1>9. CASE PersistAttempt
  BY <1>9 DEF PersistAttempt, taskVars, indexerVars, minerVars, BoundPlaces
<1>10. CASE UNCHANGED vars \/ Start \/ StopEarly \/ Setup \/ Crash \/ Admin \/ Open
        \/ Supervise \/ Drain \/ Abort \/ Close \/ Tick \/ Connection \/ Connect
        \/ ReadSnapshot
        \/ \E t \in Tasks : TaskStops(t) \/ TaskFails(t)
  BY <1>10 DEF vars, Start, StopEarly, Setup, Crash, Admin, Open, Supervise, Drain, Abort,
     Close, Tick, Connection, Connect, ReadSnapshot, TaskStops, TaskFails, taskVars,
     indexerVars, minerVars, BoundPlaces
<1> QED
  BY <1>1, <1>2, <1>3, <1>4, <1>5, <1>6, <1>7, <1>8, <1>9, <1>10 DEF Next, Main, Indexer,
     Miner

\* A step keeps the catch-up in step with the checkpoint.
LEMMA CatchupStep ==
    ASSUME ServiceInv, [Next]_vars
    PROVE  CatchupOK'
<1> USE DEF ServiceInv, DbType, DbRecord, MinerType, CatchupOK
<1>1. CASE Crash
  BY <1>1 DEF Crash, taskVars, indexerVars, minerVars, FreshTasks
<1>2. CASE Migrate
  BY <1>2 DEF Migrate, taskVars, indexerVars, minerVars
<1>3. CASE Supervise
  BY <1>3 DEF Supervise, taskVars, indexerVars, minerVars, FreshTasks
<1>4. CASE Verify
  BY <1>4 DEF Verify, taskVars, indexerVars, minerVars
<1>5. CASE ReadMarker
  BY <1>5 DEF ReadMarker, taskVars, indexerVars, minerVars
<1>6. CASE ReindexWinners
  BY <1>6 DEF ReindexWinners, taskVars, indexerVars, minerVars
<1>7. CASE SurfaceDecision
  BY <1>7 DEF SurfaceDecision, taskVars, indexerVars, minerVars
<1>8. CASE Index
  BY <1>8 DEF Index, taskVars, indexerVars, minerVars
<1>9. CASE ReadSnapshot
  BY <1>9 DEF ReadSnapshot, taskVars, indexerVars, minerVars
<1>10. CASE WriteSnapshot
  BY <1>10 DEF WriteSnapshot, taskVars, indexerVars, minerVars
<1>11. CASE CatchupRange
  <2>1. PICK from \in Nat, n \in Nat : /\ db' = [db EXCEPT !.checkpoint = from]
                                        /\ todo' = [i \in 1 .. n |-> from + i]
    BY <1>11, CatchupFacts
  <2> QED BY <2>1
<1>12. CASE PersistAttempt
  <2>1. CASE todo' = <<>> /\ mpc' = "tick"
    BY <2>1
  <2>2. CASE ~(todo' = <<>> /\ mpc' = "tick")
    <3>1. todo # <<>> /\ todo' = Tail(todo) /\ mpc = "catchup"
      BY <2>2, <1>12, AttemptFacts DEF PersistAttempt
    <3>2. PICK n \in {db.checkpoint, Head(todo)} :
             /\ n >= db.checkpoint /\ n >= Head(todo)
             /\ db' = [db EXCEPT !.checkpoint = n, !.settled = db.settled \cup {Head(todo)}]
      BY <2>2, <1>12, AttemptFacts
    <3>3. Head(todo) = todo[1] /\ 1 \in DOMAIN todo
      BY <3>1
    <3>4. Head(todo) = db.checkpoint + 1
      BY <3>1, <3>3
    <3>5. db'.checkpoint = db.checkpoint + 1
      BY <3>2, <3>4
    <3>6. \A i \in DOMAIN todo' : i + 1 \in DOMAIN todo /\ todo'[i] = todo[i + 1] /\ i \in Nat
      BY SMTT(30), <3>1
    <3>7. \A i \in DOMAIN todo' : todo'[i] = db.checkpoint + (i + 1)
      BY <3>1, <3>6
    <3> QED BY <3>5, <3>6, <3>7
  <2> QED BY <2>1, <2>2
<1>13. ASSUME NEW t \in Tasks, TaskFails(t) PROVE CatchupOK'
  BY <1>13 DEF TaskFails, taskVars, indexerVars, minerVars
<1>14. CASE UNCHANGED vars \/ Start \/ StopEarly \/ Setup \/ Admin \/ Open \/ Drain
        \/ Abort \/ Close \/ Tick \/ Connection \/ Connect
        \/ \E t \in Tasks : TaskStops(t)
  BY <1>14 DEF vars, Start, StopEarly, Setup, Admin, Open, Drain, Abort, Close, Tick,
     Connection, Connect, TaskStops, taskVars, indexerVars, minerVars
<1> QED
  BY <1>1, <1>2, <1>3, <1>4, <1>5, <1>6, <1>7, <1>8, <1>9, <1>10, <1>11, <1>12, <1>13,
     <1>14 DEF Next, Main, Indexer, Miner

\* A step settles what the checkpoint passes.
LEMMA LossStep ==
    ASSUME ServiceInv, [Next]_vars
    PROVE  CatchupLosesNothing'
<1> USE ServiceAssumption DEF ServiceInv, DbType, DbRecord, CatchupLosesNothing
<1>1. CASE Migrate
  BY <1>1 DEF Migrate, taskVars, indexerVars, minerVars
<1>2. CASE Verify
  BY <1>2 DEF Verify, taskVars, indexerVars, minerVars
<1>3. CASE ReadMarker
  BY <1>3 DEF ReadMarker, taskVars, indexerVars, minerVars
<1>4. CASE ReindexWinners
  BY <1>4 DEF ReindexWinners, taskVars, indexerVars, minerVars
<1>5. CASE SurfaceDecision
  BY <1>5 DEF SurfaceDecision, taskVars, indexerVars, minerVars
<1>6. CASE Index
  <2>1. \/ db'.checkpoint = db.checkpoint /\ db'.settled = db.settled /\ db'.head = db.head
        \/ db'.checkpoint = db.checkpoint /\ db'.settled = db.settled /\ db'.head = db.head + 1
    BY <1>6 DEF Index
  <2>2. db.checkpoint \in Nat /\ db.head \in Nat /\ Lookback \in Nat
    OBVIOUS
  <2> QED BY <2>1, <2>2
<1>7. CASE WriteSnapshot
  BY <1>7 DEF WriteSnapshot, taskVars, indexerVars, minerVars
<1>8. CASE CatchupRange
  <2>1. PICK from \in Nat : /\ db' = [db EXCEPT !.checkpoint = from]
                            /\ from = db.checkpoint \/ from + Lookback <= db.head
    BY <1>8, CatchupFacts
  <2>2. db'.checkpoint = from /\ db'.head = db.head /\ db'.settled = db.settled
    BY <2>1
  <2>3. db.checkpoint \in Nat /\ db.head \in Nat /\ Lookback \in Nat
    OBVIOUS
  <2> QED BY SMTT(30), <2>1, <2>2, <2>3
<1>9. CASE PersistAttempt
  <2>1. CASE db' = db
    BY <2>1
  <2>2. CASE db' # db
    <3>1. todo # <<>> /\ mpc = "catchup"
      BY <2>2, <1>9, AttemptFacts DEF PersistAttempt
    <3>2. PICK n \in {db.checkpoint, Head(todo)} :
             /\ n >= db.checkpoint /\ n >= Head(todo)
             /\ db' = [db EXCEPT !.checkpoint = n, !.settled = db.settled \cup {Head(todo)}]
      BY <2>2, <1>9, AttemptFacts
    <3>3. Head(todo) = db.checkpoint + 1
      <4>1. Head(todo) = todo[1] /\ 1 \in DOMAIN todo
        BY <3>1 DEF MinerType
      <4> QED BY <3>1, <4>1 DEF CatchupOK
    <3>4. /\ db'.checkpoint = db.checkpoint + 1 /\ db'.head = db.head
          /\ db'.settled = db.settled \cup {db.checkpoint + 1}
      BY <3>2, <3>3
    <3>5. db.checkpoint \in Nat
      OBVIOUS
    <3> QED BY <3>4, <3>5
  <2> QED BY <2>1, <2>2
<1>10. CASE UNCHANGED vars \/ Start \/ StopEarly \/ Setup \/ Crash \/ Admin \/ Open
        \/ Supervise \/ Drain \/ Abort \/ Close \/ Tick \/ Connection \/ Connect
        \/ ReadSnapshot
        \/ \E t \in Tasks : TaskStops(t) \/ TaskFails(t)
  BY <1>10 DEF vars, Start, StopEarly, Setup, Crash, Admin, Open, Supervise, Drain, Abort,
     Close, Tick, Connection, Connect, ReadSnapshot, TaskStops, TaskFails, taskVars,
     indexerVars, minerVars
<1> QED
  BY <1>1, <1>2, <1>3, <1>4, <1>5, <1>6, <1>7, <1>8, <1>9, <1>10 DEF Next, Main, Indexer,
     Miner

\* A step keeps the tasks and the place of the process in step.
LEMMA LifecycleStep ==
    ASSUME ServiceInv, [Next]_vars
    PROVE  LifecycleOK'
<1> USE DEF ServiceInv, LifecycleOK
<1>1. CASE Start
  BY <1>1 DEF Start, taskVars, indexerVars, minerVars, Up, Ended, Stopped
<1>2. CASE StopEarly
  BY <1>2 DEF StopEarly, taskVars, indexerVars, minerVars, Up, Ended, Exit
<1>3. CASE Setup
  BY <1>3 DEF Setup, taskVars, indexerVars, minerVars, Up, Ended, Exit
<1>4. CASE Crash
  BY <1>4 DEF Crash, taskVars, indexerVars, minerVars, Up, Ended, Stopped
<1>5. CASE Open
  BY <1>5 DEF Open, taskVars, indexerVars, minerVars, Up, Ended, Exit
<1>6. CASE Migrate
  BY <1>6 DEF Migrate, taskVars, indexerVars, minerVars, Up, Ended, Exit
<1>7. CASE Supervise
  BY <1>7 DEF Supervise, taskVars, indexerVars, minerVars, Up, Ended
<1>8. CASE Drain
  BY <1>8 DEF Drain, taskVars, indexerVars, minerVars, Up, Ended, Joined, Failures
<1>9. CASE Abort
  BY <1>9 DEF Abort, taskVars, indexerVars, minerVars, Up, Ended, Exit, Joined
<1>10. CASE Close
  BY <1>10 DEF Close, taskVars, indexerVars, minerVars, Up, Ended, Joined
<1>11. CASE Connection
  <2>1. conns' \in Nat /\ (conns > 0 \/ pc \in {"running", "drain", "abort"})
    BY <1>11 DEF Connection, Runs, Alive
  <2>2. pc \notin {"down", "open", "migrate", "setup"}
    BY <2>1
  <2>3. UNCHANGED <<pc, task, closed, cancelled, failure>>
    BY <1>11 DEF Connection
  <2> QED BY <2>1, <2>2, <2>3 DEF Joined
<1>12. CASE Connect
  BY <1>12 DEF Connect, taskVars, indexerVars, minerVars, Up, Ended, Works, Fails, Finishes
<1>13. CASE Verify
  BY <1>13 DEF Verify, taskVars, indexerVars, minerVars, Up, Ended, Works, Fails, Finishes
<1>14. ASSUME NEW t \in Tasks, TaskStops(t) PROVE LifecycleOK'
  BY <1>14 DEF TaskStops, taskVars, indexerVars, minerVars, Up, Ended, Runs, Alive, Finishes
<1>15. ASSUME NEW t \in Tasks, TaskFails(t) PROVE LifecycleOK'
  BY <1>15 DEF TaskFails, taskVars, indexerVars, minerVars, Up, Ended, Runs, Alive, Finishes
<1>16. CASE UNCHANGED vars \/ Admin \/ Tick \/ ReadMarker \/ ReindexWinners
        \/ SurfaceDecision \/ Index \/ ReadSnapshot \/ WriteSnapshot \/ CatchupRange
        \/ PersistAttempt
  <2>1. UNCHANGED <<pc, task, conns, closed, cancelled, failure>>
    BY <1>16 DEF vars, Admin, Tick, ReadMarker, ReindexWinners, SurfaceDecision, Index,
       ReadSnapshot, WriteSnapshot, CatchupRange, PersistAttempt, taskVars
  <2> QED BY <2>1 DEF Joined
<1> QED
  BY <1>1, <1>2, <1>3, <1>4, <1>5, <1>6, <1>7, <1>8, <1>9, <1>10, <1>11, <1>12, <1>13, <1>14,
     <1>15, <1>16 DEF Next, Main, Indexer, Miner

\* A step keeps the shutdown clean.
LEMMA ShutdownStep ==
    ASSUME ServiceInv, [Next]_vars
    PROVE  ShutdownIsClean'
<1> USE DEF ServiceInv, LifecycleOK, ShutdownIsClean
<1>1. CASE Start
  BY <1>1 DEF Start, taskVars, indexerVars, minerVars, Up, Ended, Stopped
<1>2. CASE StopEarly
  BY <1>2 DEF StopEarly, taskVars, indexerVars, minerVars, Up, Ended, Exit
<1>3. CASE Setup
  BY <1>3 DEF Setup, taskVars, indexerVars, minerVars, Up, Ended, Exit
<1>4. CASE Crash
  BY <1>4 DEF Crash, taskVars, indexerVars, minerVars, Up, Ended, Stopped
<1>5. CASE Open
  BY <1>5 DEF Open, taskVars, indexerVars, minerVars, Up, Ended, Exit
<1>6. CASE Migrate
  BY <1>6 DEF Migrate, taskVars, indexerVars, minerVars, Up, Ended, Exit
<1>7. CASE Supervise
  BY <1>7 DEF Supervise, taskVars, indexerVars, minerVars, Up, Ended
<1>8. CASE Drain
  BY <1>8 DEF Drain, taskVars, indexerVars, minerVars, Up, Ended, Joined, Failures
<1>9. CASE Abort
  BY <1>9 DEF Abort, taskVars, indexerVars, minerVars, Up, Ended, Exit, Joined
<1>10. CASE Close
  <2>1. \A t \in Tasks : task'[t] = task[t] /\ task[t] \in Ended
    BY <1>10 DEF Close, Joined, taskVars
  <2>2. ~closed
    BY <1>10 DEF Close
  <2>3. pc' = "exited" /\ conns' = conns /\ (closed' => conns = 0)
    <3>1. pc' = "exited" /\ conns' = conns
      BY <1>10 DEF Close, taskVars
    <3>2. closed' => CanClose
      BY Zenon, <1>10, <2>2 DEF Close
    <3> QED BY <3>1, <3>2 DEF CanClose
  <2>4. ~failure' => ~failure /\ closed'
    <3>1. CASE closed' = CanClose /\ failure' = (failure \/ ~CanClose)
      BY Zenon, <3>1
    <3>2. CASE closed' = closed /\ failure' = TRUE
      BY Zenon, <3>2
    <3> QED BY Zenon, <1>10, <3>1, <3>2 DEF Close
  <2>5. ~failure => \A t \in Tasks : task[t] = "ok"
    BY <1>10 DEF Close
  <2> QED BY <2>1, <2>3, <2>4, <2>5 DEF Ended
<1>11. CASE Connection
  BY <1>11 DEF Connection, taskVars, indexerVars, minerVars, Up, Ended, Runs, Alive
<1>12. CASE Connect
  BY <1>12 DEF Connect, taskVars, indexerVars, minerVars, Up, Ended, Works, Fails, Finishes
<1>13. CASE Verify
  BY <1>13 DEF Verify, taskVars, indexerVars, minerVars, Up, Ended, Works, Fails, Finishes
<1>14. ASSUME NEW t \in Tasks, TaskStops(t) PROVE ShutdownIsClean'
  BY <1>14 DEF TaskStops, taskVars, indexerVars, minerVars, Up, Ended, Runs, Alive, Finishes
<1>15. ASSUME NEW t \in Tasks, TaskFails(t) PROVE ShutdownIsClean'
  BY <1>15 DEF TaskFails, taskVars, indexerVars, minerVars, Up, Ended, Runs, Alive, Finishes
<1>16. CASE UNCHANGED vars \/ Admin \/ Tick \/ ReadMarker \/ ReindexWinners
        \/ SurfaceDecision \/ Index \/ ReadSnapshot \/ WriteSnapshot \/ CatchupRange
        \/ PersistAttempt
  BY <1>16 DEF vars, Admin, Tick, ReadMarker, ReindexWinners, SurfaceDecision, Index,
     ReadSnapshot, WriteSnapshot, CatchupRange, PersistAttempt, taskVars, indexerVars,
     minerVars, Up, Ended
<1> QED
  BY <1>1, <1>2, <1>3, <1>4, <1>5, <1>6, <1>7, <1>8, <1>9, <1>10, <1>11, <1>12, <1>13, <1>14,
     <1>15, <1>16 DEF Next, Main, Indexer, Miner

-----------------------------------------------------------------------------
(* The theorems *)

\* The invariant holds in every reachable state.
LEMMA ServiceInvariance == Spec => []ServiceInv
<1>1. Init => ServiceInv
  <2> SUFFICES ASSUME Init PROVE ServiceInv
    OBVIOUS
  <2>1. PICK n \in 0 .. Migrations, r \in Histories :
          db = [ledger |-> n, genesis |-> NoChain, retained |-> r, marker |-> "none",
                cleared |-> FALSE, obs |-> FALSE, checkpoint |-> 0, settled |-> {},
                head |-> 0]
    BY DEF Init
  <2>2. n \in Nat /\ r \in Seq(Chains)
    BY ServiceAssumption
  <2>3. DbType
    BY <2>1, <2>2 DEF DbType, DbRecord
  <2>4. IndexerType
    <3>1. iobs \in BOOLEAN
      BY Zenon DEF Init
    <3> QED BY <3>1, EndpointFacts DEF Init, IndexerType
  <2>5. MinerType
    <3>1. mobs \in BOOLEAN
      BY Zenon DEF Init
    <3> QED BY <3>1 DEF Init, MinerType
  <2>6. BindingOK /\ CatchupOK
    BY DEF Init, BindingOK, CatchupOK, BoundPlaces
  <2>7. LifecycleOK /\ ShutdownIsClean
    BY DEF Init, LifecycleOK, ShutdownIsClean, Stopped, Up, Ended
  <2>8. db.genesis = NoChain /\ db.checkpoint = 0
    BY <2>1
  <2>9. BoundHistory /\ CatchupLosesNothing
    BY <2>8 DEF BoundHistory, CatchupLosesNothing
  <2> QED
    BY <2>3, <2>4, <2>5, <2>6, <2>7, <2>9 DEF ServiceInv
<1>2. ServiceInv /\ [Next]_vars => ServiceInv'
  <2> SUFFICES ASSUME ServiceInv, [Next]_vars PROVE ServiceInv'
    OBVIOUS
  <2> QED
    BY DataStep, IndexerTypeStep, MinerTypeStep, BindingStep, HistoryStep, CatchupStep,
       LossStep, LifecycleStep, ShutdownStep DEF ServiceInv
<1> QED
  BY <1>1, <1>2, PTL DEF Spec

\* bind_network_with writes a genesis only over a history it has verified to the end, and
\* the indexer then adds blocks of that chain only: for every list of endpoints, every
\* retained history, and crashes in the middle of a verification.
THEOREM HistoryIsOfOneChain == Spec => []BoundHistory
<1>1. ServiceInv => BoundHistory
  BY DEF ServiceInv
<1> QED
  BY <1>1, ServiceInvariance, PTL

\* TaskSupervisor::run and close_store: the store is closed under no task and no
\* connection, and a process that reports success closed it after every task returned.
THEOREM SuccessIsHonest == Spec => []ShutdownIsClean
<1>1. ServiceInv => ShutdownIsClean
  BY DEF ServiceInv
<1> QED
  BY <1>1, ServiceInvariance, PTL

\* The checkpoint of the miner catch-up never passes a recent solution that was not
\* settled, whatever the lookback and the batch, over lost answers, crashes and restarts.
THEOREM CheckpointIsHonest == Spec => []CatchupLosesNothing
<1>1. ServiceInv => CatchupLosesNothing
  BY DEF ServiceInv
<1> QED
  BY <1>1, ServiceInvariance, PTL
=============================================================================
