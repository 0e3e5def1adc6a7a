------------------------- MODULE StoreWriterProofs --------------------------
(***************************************************************************)
(* The writer keeps writes whole for any number of tasks and statements,   *)
(* on either engine.                                                       *)
(***************************************************************************)
EXTENDS StoreWriter, TLAPS

\* What the first k statements of a task write.
Prefix(t, k) == {t} \X (1 .. k)

\* Only the holder of the mutex has a command in flight.
Exclusive == \A t \in Tasks : pc[t] \in Active <=> holder = t

\* A transaction that is open, or about to be opened, is flagged, so dropping
\* its task at any point leaves it to be rolled back.
Flagged ==
    /\ engine.open => rollback
    /\ ~ engine.open => engine.writes = {}
    /\ \A t \in Tasks : pc[t] \in {"begin", "run", "commit"} => rollback

\* A running task's transaction holds its own statements and nothing else.
OwnWritesOnly ==
    \A t \in Tasks :
        /\ pc[t] \in {"new", "recover", "held", "begin"} => n[t] = 0
        /\ pc[t] \in {"run", "commit"} => engine.open /\ engine.writes = Prefix(t, n[t])
        /\ pc[t] = "run" => n[t] < N
        /\ pc[t] = "commit" => n[t] = N

\* A task's statements are durable together or not at all, whichever later
\* task commits on the same connection; "ok" means they are, and a task that
\* failed or was dropped before its COMMIT was sent never wrote anything.
WholeOrNothing ==
    \A t \in Tasks :
        /\ All(t) \subseteq engine.db \/ All(t) \cap engine.db = {}
        /\ pc[t] = "ok" => All(t) \subseteq engine.db
        /\ pc[t] \notin {"ok", "unknown"} => All(t) \cap engine.db = {}

WriterInv ==
    /\ TypeOK /\ Exclusive /\ Flagged /\ OwnWritesOnly
    /\ NoNestedBegin /\ WholeOrNothing

-----------------------------------------------------------------------------
\* Statements of different tasks are different, and prefixes grow one by one.
LEMMA WriteFacts ==
    ASSUME NEW t \in Tasks
    PROVE  /\ All(t) \subseteq Tasks \X Statements
           /\ All(t) = Prefix(t, N)
           /\ All(t) # {}
           /\ Prefix(t, 0) = {}
           /\ \A u \in Tasks : u # t => All(t) \cap All(u) = {}
           /\ \A k \in 0 .. N : k < N =>
                 /\ <<t, k + 1>> \in Tasks \X Statements
                 /\ Prefix(t, k) \cup {<<t, k + 1>>} = Prefix(t, k + 1)
  <1>1. All(t) \subseteq Tasks \X Statements /\ All(t) = Prefix(t, N)
    BY DEF All, Prefix, Statements
  <1>2. <<t, 1>> \in All(t)
    BY WriterAssumption DEF All, Statements
  <1>3. Prefix(t, 0) = {}
    <2>1. 1 .. 0 = {}
      OBVIOUS
    <2> QED BY <2>1 DEF Prefix
  <1>4. ASSUME NEW u \in Tasks, u # t PROVE All(t) \cap All(u) = {}
    BY <1>4 DEF All
  <1>5. ASSUME NEW k \in 0 .. N, k < N
        PROVE  /\ <<t, k + 1>> \in Tasks \X Statements
               /\ Prefix(t, k) \cup {<<t, k + 1>>} = Prefix(t, k + 1)
    <2>1. k + 1 \in Statements
      BY <1>5, WriterAssumption DEF Statements
    <2>2. 1 .. (k + 1) = (1 .. k) \cup {k + 1}
      BY <1>5, WriterAssumption
    <2> HIDE DEF Statements
    <2> QED BY <2>1, <2>2 DEF Prefix
  <1> QED BY <1>1, <1>2, <1>3, <1>4, <1>5

\* What a command in flight can do to the engine, whether or not it succeeds:
\* nothing becomes durable, except by a COMMIT, and then all of the task.
Harmless(t, e) ==
    /\ e \in Engine
    /\ ~ e.open => e.writes = {}
    /\ e.open => pc[t] # "held" /\ (engine.open \/ pc[t] = "begin")
    /\ e.db \in {engine.db, engine.db \cup All(t)}
    /\ pc[t] # "commit" => e.db = engine.db

\* Each outcome of a command in flight is harmless.
LEMMA EffectFacts ==
    ASSUME WriterInv, NEW t \in Tasks, holder = t
    PROVE  Harmless(t, engine) /\ Harmless(t, Effect(t)) /\ Harmless(t, RolledBack(engine))
  <1>1. /\ engine \in Engine /\ engine.open \in BOOLEAN
        /\ engine.writes \subseteq Tasks \X Statements /\ engine.db \subseteq Tasks \X Statements
    BY DEF WriterInv, TypeOK, Engine
  <1>2. pc[t] \in Active
    BY DEF WriterInv, Exclusive
  <1>3. ~ engine.open => engine.writes = {}
    BY DEF WriterInv, Flagged
  <1>4. pc[t] = "held" => ~ engine.open
    BY DEF WriterInv, NoNestedBegin
  <1>5. Harmless(t, engine)
    BY <1>1, <1>3, <1>4 DEF Harmless
  <1>6. ASSUME NEW o \in BOOLEAN, NEW w \in SUBSET (Tasks \X Statements),
               NEW d \in SUBSET (Tasks \X Statements),
               ~ o => w = {},
               o => pc[t] # "held" /\ (engine.open \/ pc[t] = "begin"),
               d = engine.db \/ (pc[t] = "commit" /\ d = engine.db \cup All(t))
        PROVE  Harmless(t, [open |-> o, writes |-> w, db |-> d])
    BY <1>6 DEF Harmless, Engine
  <1>7. Harmless(t, RolledBack(engine))
    BY <1>1, <1>6 DEF RolledBack
  <1>8. CASE pc[t] = "recover"
    BY <1>5, <1>7, <1>8 DEF Effect
  <1>9. CASE pc[t] = "held"
    BY <1>5, <1>7, <1>9 DEF Effect
  <1>10. CASE pc[t] = "begin"
    <2>1. Harmless(t, Begun(engine))
      BY <1>1, <1>6, <1>10 DEF Begun
    <2> QED BY <1>5, <1>7, <1>10, <2>1 DEF Effect
  <1>11. CASE pc[t] = "run"
    <2>1. engine.open /\ n[t] \in 0 .. N /\ n[t] < N
      BY <1>11 DEF WriterInv, OwnWritesOnly, TypeOK
    <2>2. engine.writes \cup {<<t, n[t] + 1>>} \subseteq Tasks \X Statements
      BY <1>1, <2>1, WriteFacts
    <2>3. Harmless(t, Executed(engine, <<t, n[t] + 1>>))
      BY <1>1, <1>6, <1>11, <2>1, <2>2 DEF Executed
    <2> QED BY <1>5, <1>7, <1>11, <2>3 DEF Effect
  <1>12. CASE pc[t] = "commit"
    <2>1. engine.writes = All(t) /\ All(t) \subseteq Tasks \X Statements
      BY <1>12, WriteFacts DEF WriterInv, OwnWritesOnly
    <2>2. engine.db \cup engine.writes \subseteq Tasks \X Statements
      BY <1>1
    <2>3. Harmless(t, Committed(engine))
      BY <1>6, <1>12, <2>1, <2>2 DEF Committed
    <2> QED BY <1>5, <1>7, <1>12, <2>3 DEF Effect
  <1> QED BY <1>2, <1>8, <1>9, <1>10, <1>11, <1>12 DEF Active

-----------------------------------------------------------------------------
\* Durable writes stay whole when a task's own are added, or nothing is.
LEMMA WholeStays ==
    ASSUME WriterInv, NEW t \in Tasks, NEW D \in {engine.db, engine.db \cup All(t)}
    PROVE  /\ \A u \in Tasks : All(u) \subseteq D \/ All(u) \cap D = {}
           /\ \A u \in Tasks : All(u) \subseteq engine.db => All(u) \subseteq D
           /\ \A u \in Tasks : u # t /\ All(u) \cap engine.db = {} => All(u) \cap D = {}
  <1>1. \A u \in Tasks : All(u) \subseteq engine.db \/ All(u) \cap engine.db = {}
    BY DEF WriterInv, WholeOrNothing
  <1>2. \A u \in Tasks : u # t => All(t) \cap All(u) = {}
    BY WriteFacts
  <1> QED BY <1>1, <1>2

\* Ending a task early keeps the invariant whatever its command did.
LEMMA DroppedKeeps ==
    ASSUME WriterInv, NEW t \in Tasks, holder = t, Harmless(t, engine'), Dropped(t)
    PROVE  WriterInv'
  <1> USE DEF WriterInv
  <1> DEFINE last == IF pc[t] = "commit" THEN "unknown" ELSE "refused"
  <1>1. /\ pc' = [pc EXCEPT ![t] = last] /\ holder' = NoTask /\ n' = n
        /\ kind' = kind /\ closed' = closed /\ crashes' = crashes
        /\ rollback' = (rollback \/ pc[t] \in {"run", "commit"})
    BY DEF Dropped, Ends, Goes
  <1>2. pc \in [Tasks -> {"new"} \cup Active \cup Ended] /\ n \in [Tasks -> 0 .. N]
    BY DEF TypeOK
  <1>3. pc'[t] = last /\ \A u \in Tasks : u # t => pc'[u] = pc[u]
    BY <1>1, <1>2
  <1>4. pc[t] \in Active /\ \A u \in Tasks : u # t => pc[u] \notin Active
    BY DEF Exclusive
  <1>5. last \in Ended /\ last \notin Active /\ last # "new" /\ last # "ok"
    BY DEF Ended, Active
  <1>6. TypeOK'
    BY <1>1, <1>2, <1>5 DEF TypeOK, Harmless, Engine, Statements
  <1>7. \A u \in Tasks : pc'[u] \notin Active
    BY <1>3, <1>4, <1>5
  <1>8. Exclusive'
    BY <1>1, <1>7, WriterAssumption DEF Exclusive
  <1>9. Flagged'
    <2>1. engine'.open => rollback'
      BY <1>1 DEF Harmless, Flagged
    <2> QED BY <1>7, <2>1 DEF Flagged, Harmless, Active
  <1>10. OwnWritesOnly'
    BY <1>1, <1>3, <1>5, <1>7 DEF OwnWritesOnly, Active
  <1>11. NoNestedBegin'
    BY <1>7 DEF NoNestedBegin, Active
  <1>12. WholeOrNothing'
    <2>1. engine'.db \in {engine.db, engine.db \cup All(t)} /\ (pc[t] # "commit" => engine'.db = engine.db)
      BY DEF Harmless
    <2>2. All(t) \cap engine.db = {}
      BY <1>4 DEF WholeOrNothing, Active
    <2>3. \A u \in Tasks : All(u)' = All(u)
      BY DEF All, Statements
    <2> SUFFICES ASSUME NEW u \in Tasks
                 PROVE  /\ All(u) \subseteq engine'.db \/ All(u) \cap engine'.db = {}
                        /\ pc'[u] = "ok" => All(u) \subseteq engine'.db
                        /\ pc'[u] \notin {"ok", "unknown"} => All(u) \cap engine'.db = {}
      BY <2>3 DEF WholeOrNothing
    <2>4. CASE u = t
      BY <1>3, <1>5, <2>1, <2>2, <2>4, WholeStays
    <2>5. CASE u # t
      <3>1. pc'[u] = pc[u]
        BY <1>3, <2>5
      <3> QED BY <2>1, <2>5, <3>1, WholeStays DEF WholeOrNothing
    <2> QED BY <2>4, <2>5
  <1> QED BY <1>6, <1>8, <1>9, <1>10, <1>11, <1>12

\* A step that neither ends a task nor makes anything durable: the holder
\* goes from one place to another.
LEMMA DurableStays ==
    ASSUME WriterInv, engine'.db = engine.db, NEW t \in Tasks, NEW place \in Active,
           pc[t] \notin Ended, pc' = [pc EXCEPT ![t] = place]
    PROVE  WholeOrNothing'
  <1>1. pc \in [Tasks -> {"new"} \cup Active \cup Ended]
    BY DEF WriterInv, TypeOK
  <1>2. \A u \in Tasks : All(u)' = All(u)
    BY DEF All, Statements
  <1>3. \A u \in Tasks : IF u = t THEN pc'[u] \in Active ELSE pc'[u] = pc[u]
    BY <1>1
  <1> QED BY <1>2, <1>3 DEF WriterInv, WholeOrNothing, Active, Ended

\* One lemma per action that goes on: the lock,
LEMMA LockKeeps ==
    ASSUME WriterInv, NEW t \in Tasks, Lock(t)
    PROVE  WriterInv'
  <1> USE DEF WriterInv
  <1> DEFINE place == IF rollback THEN "recover" ELSE "held"
  <1>1. /\ pc[t] = "new" /\ holder = NoTask /\ holder' = t
        /\ pc' = [pc EXCEPT ![t] = place]
        /\ UNCHANGED <<kind, engine, rollback, n, closed, crashes>>
    BY DEF Lock, Goes
  <1>2. pc \in [Tasks -> {"new"} \cup Active \cup Ended]
    BY DEF TypeOK
  <1>3. place \in Active
    BY DEF Active
  <1>4. TypeOK'
    BY <1>1, <1>2, <1>3 DEF TypeOK, Engine, Statements
  <1>5. \A u \in Tasks : pc[u] \notin Active
    BY <1>1, WriterAssumption DEF Exclusive
  <1>6. pc'[t] = place /\ \A u \in Tasks : u # t => pc'[u] = pc[u]
    BY <1>1, <1>2
  <1>7. Exclusive'
    BY <1>1, <1>3, <1>5, <1>6 DEF Exclusive
  <1>8. Flagged'
    BY <1>1, <1>5, <1>6 DEF Flagged, Active
  <1>9. OwnWritesOnly'
    BY <1>1, <1>5, <1>6 DEF OwnWritesOnly, Active
  <1>10. NoNestedBegin'
    BY <1>1, <1>5, <1>6 DEF NoNestedBegin, Flagged, Active
  <1>11. WholeOrNothing'
    BY <1>1, <1>3, DurableStays DEF Ended
  <1> QED BY <1>4, <1>7, <1>8, <1>9, <1>10, <1>11

\* the rollback of an interrupted predecessor,
LEMMA RecoverKeeps ==
    ASSUME WriterInv, NEW t \in Tasks, Recover(t)
    PROVE  WriterInv'
  <1> USE DEF WriterInv
  <1>1. /\ pc[t] = "recover" /\ engine' = RolledBack(engine) /\ rollback' = FALSE
        /\ pc' = [pc EXCEPT ![t] = "held"]
        /\ UNCHANGED <<kind, holder, n, closed, crashes>>
    BY DEF Recover, Goes
  <1>2. pc \in [Tasks -> {"new"} \cup Active \cup Ended]
    BY DEF TypeOK
  <1>3. holder = t /\ \A u \in Tasks : u # t => pc[u] \notin Active
    BY <1>1 DEF Exclusive, Active
  <1>4. engine' \in Engine /\ ~ engine'.open /\ engine'.writes = {} /\ engine'.db = engine.db
    BY <1>1 DEF TypeOK, Engine, RolledBack
  <1>5. pc'[t] = "held" /\ \A u \in Tasks : u # t => pc'[u] = pc[u]
    BY <1>1, <1>2
  <1>6. TypeOK'
    BY <1>1, <1>2, <1>4 DEF TypeOK, Engine, Statements, Active
  <1>7. Exclusive'
    BY <1>1, <1>3, <1>5 DEF Exclusive, Active
  <1>8. Flagged'
    BY <1>3, <1>4, <1>5 DEF Flagged, Active
  <1>9. OwnWritesOnly'
    BY <1>1, <1>3, <1>5 DEF OwnWritesOnly, Active
  <1>10. NoNestedBegin'
    BY <1>4 DEF NoNestedBegin
  <1>11. WholeOrNothing'
    <2>1. "held" \in Active /\ pc[t] \notin Ended
      BY <1>1 DEF Active, Ended
    <2> QED BY <1>1, <1>4, <2>1, DurableStays
  <1> QED BY <1>6, <1>7, <1>8, <1>9, <1>10, <1>11

\* the flag,
LEMMA StartTransactionKeeps ==
    ASSUME WriterInv, NEW t \in Tasks, StartTransaction(t)
    PROVE  WriterInv'
  <1> USE DEF WriterInv
  <1>1. /\ pc[t] = "held" /\ rollback' = TRUE
        /\ pc' = [pc EXCEPT ![t] = "begin"]
        /\ UNCHANGED <<kind, engine, holder, n, closed, crashes>>
    BY DEF StartTransaction, Goes
  <1>2. pc \in [Tasks -> {"new"} \cup Active \cup Ended]
    BY DEF TypeOK
  <1>3. holder = t /\ \A u \in Tasks : u # t => pc[u] \notin Active
    BY <1>1 DEF Exclusive, Active
  <1>4. pc'[t] = "begin" /\ \A u \in Tasks : u # t => pc'[u] = pc[u]
    BY <1>1, <1>2
  <1>5. TypeOK'
    BY <1>1, <1>2 DEF TypeOK, Engine, Statements, Active
  <1>6. Exclusive'
    BY <1>1, <1>3, <1>4 DEF Exclusive, Active
  <1>7. Flagged'
    BY <1>1 DEF Flagged
  <1>8. OwnWritesOnly'
    BY <1>1, <1>3, <1>4 DEF OwnWritesOnly, Active
  <1>9. NoNestedBegin'
    BY <1>1 DEF NoNestedBegin
  <1>10. WholeOrNothing'
    <2>1. "begin" \in Active /\ pc[t] \notin Ended
      BY <1>1 DEF Active, Ended
    <2> QED BY <1>1, <2>1, DurableStays
  <1> QED BY <1>5, <1>6, <1>7, <1>8, <1>9, <1>10

\* BEGIN,
LEMMA BeginKeeps ==
    ASSUME WriterInv, NEW t \in Tasks, Begin(t)
    PROVE  WriterInv'
  <1> USE DEF WriterInv
  <1>1. /\ pc[t] = "begin" /\ engine' = Begun(engine)
        /\ pc' = [pc EXCEPT ![t] = "run"]
        /\ UNCHANGED <<kind, holder, rollback, n, closed, crashes>>
    BY DEF Begin, Goes
  <1>2. pc \in [Tasks -> {"new"} \cup Active \cup Ended]
    BY DEF TypeOK
  <1>3. holder = t /\ \A u \in Tasks : u # t => pc[u] \notin Active
    BY <1>1 DEF Exclusive, Active
  <1>4. pc'[t] = "run" /\ \A u \in Tasks : u # t => pc'[u] = pc[u]
    BY <1>1, <1>2
  <1>5. rollback /\ ~ engine.open /\ engine.writes = {} /\ n[t] = 0
    BY <1>1 DEF Flagged, NoNestedBegin, OwnWritesOnly
  <1>6. engine' \in Engine /\ engine'.open /\ engine'.writes = {} /\ engine'.db = engine.db
    BY <1>1, <1>5 DEF TypeOK, Engine, Begun
  <1>7. TypeOK'
    BY <1>1, <1>2, <1>6 DEF TypeOK, Engine, Statements, Active
  <1>8. Exclusive'
    BY <1>1, <1>3, <1>4 DEF Exclusive, Active
  <1>9. Flagged'
    BY <1>1, <1>5, <1>6 DEF Flagged
  <1>10. OwnWritesOnly'
    <2>1. Prefix(t, n'[t]) = {} /\ n'[t] = 0 /\ 0 < N
      BY <1>1, <1>5, WriteFacts, WriterAssumption
    <2>2. \A u \in Tasks : Prefix(u, n[u])' = Prefix(u, n'[u])
      BY DEF Prefix
    <2> QED BY <1>1, <1>3, <1>4, <1>6, <2>1, <2>2 DEF OwnWritesOnly, Active
  <1>11. NoNestedBegin'
    BY <1>3, <1>4 DEF NoNestedBegin, Active
  <1>12. WholeOrNothing'
    <2>1. "run" \in Active /\ pc[t] \notin Ended
      BY <1>1 DEF Active, Ended
    <2> QED BY <1>1, <1>6, <2>1, DurableStays
  <1> QED BY <1>7, <1>8, <1>9, <1>10, <1>11, <1>12

\* a statement,
LEMMA ExecuteKeeps ==
    ASSUME WriterInv, NEW t \in Tasks, Execute(t)
    PROVE  WriterInv'
  <1> USE DEF WriterInv
  <1> DEFINE place == IF n[t] + 1 < N THEN "run" ELSE "commit"
  <1>1. /\ pc[t] = "run" /\ engine' = Executed(engine, <<t, n[t] + 1>>)
        /\ n' = [n EXCEPT ![t] = n[t] + 1]
        /\ pc' = [pc EXCEPT ![t] = place]
        /\ UNCHANGED <<kind, holder, rollback, closed, crashes>>
    BY DEF Execute, Goes
  <1>2. pc \in [Tasks -> {"new"} \cup Active \cup Ended] /\ n \in [Tasks -> 0 .. N] /\ N \in Nat
    BY WriterAssumption DEF TypeOK
  <1>3. holder = t /\ \A u \in Tasks : u # t => pc[u] \notin Active
    BY <1>1 DEF Exclusive, Active
  <1>4. pc'[t] = place /\ \A u \in Tasks : u # t => pc'[u] = pc[u]
    BY <1>1, <1>2
  <1>5. n'[t] = n[t] + 1 /\ \A u \in Tasks : u # t => n'[u] = n[u]
    BY <1>1, <1>2
  <1>6. /\ rollback /\ engine.open /\ engine.writes = Prefix(t, n[t])
        /\ n[t] \in 0 .. N /\ n[t] < N
    BY <1>1, <1>2 DEF Flagged, OwnWritesOnly
  <1>7. /\ <<t, n[t] + 1>> \in Tasks \X Statements
        /\ Prefix(t, n[t]) \cup {<<t, n[t] + 1>>} = Prefix(t, n[t] + 1)
    BY <1>6, WriteFacts
  <1>8. /\ engine' \in Engine /\ engine'.open /\ engine'.db = engine.db
        /\ engine'.writes = Prefix(t, n[t] + 1)
    BY <1>1, <1>6, <1>7 DEF TypeOK, Engine, Executed
  <1>9. place \in {"run", "commit"} /\ place \in Active
    BY DEF Active
  <1>10. n' \in [Tasks -> 0 .. N]
    BY <1>1, <1>2, <1>6
  <1>11. TypeOK'
    BY <1>1, <1>2, <1>8, <1>9, <1>10 DEF TypeOK, Engine, Statements
  <1>12. Exclusive'
    BY <1>1, <1>3, <1>4, <1>9 DEF Exclusive
  <1>13. Flagged'
    BY <1>1, <1>6, <1>8 DEF Flagged
  <1>14. OwnWritesOnly'
    <2>1. \A u \in Tasks : Prefix(u, n[u])' = Prefix(u, n'[u])
      BY DEF Prefix
    <2>2. /\ place = "run" => n'[t] < N
          /\ place = "commit" => n'[t] = N
      BY <1>2, <1>5, <1>6
    <2> HIDE DEF place
    <2> QED BY <1>3, <1>4, <1>5, <1>8, <1>9, <2>1, <2>2 DEF OwnWritesOnly, Active
  <1>15. NoNestedBegin'
    BY <1>3, <1>4, <1>9 DEF NoNestedBegin, Active
  <1>16. WholeOrNothing'
    <2>1. pc[t] \notin Ended
      BY <1>1 DEF Ended
    <2> QED BY <1>1, <1>8, <1>9, <2>1, DurableStays
  <1> QED BY <1>11, <1>12, <1>13, <1>14, <1>15, <1>16

\* and COMMIT, which makes exactly the task's own statements durable.
LEMMA CommitKeeps ==
    ASSUME WriterInv, NEW t \in Tasks, Commit(t)
    PROVE  WriterInv' /\ engine'.db = engine.db \cup All(t)
  <1> USE DEF WriterInv
  <1>1. /\ pc[t] = "commit" /\ engine' = Committed(engine) /\ rollback' = FALSE
        /\ holder' = NoTask /\ pc' = [pc EXCEPT ![t] = "ok"]
        /\ UNCHANGED <<kind, n, closed, crashes>>
    BY DEF Commit, Ends, Goes
  <1>2. pc \in [Tasks -> {"new"} \cup Active \cup Ended]
    BY DEF TypeOK
  <1>3. \A u \in Tasks : u # t => pc[u] \notin Active
    BY <1>1 DEF Exclusive, Active
  <1>4. pc'[t] = "ok" /\ \A u \in Tasks : u # t => pc'[u] = pc[u]
    BY <1>1, <1>2
  <1>5. engine.writes = All(t) /\ All(t) \subseteq Tasks \X Statements
    BY <1>1, WriteFacts DEF OwnWritesOnly
  <1>6. /\ engine' \in Engine /\ ~ engine'.open /\ engine'.writes = {}
        /\ engine'.db = engine.db \cup All(t)
    BY <1>1, <1>5 DEF TypeOK, Engine, Committed
  <1>7. \A u \in Tasks : pc'[u] \notin Active
    BY <1>3, <1>4 DEF Active
  <1>8. TypeOK'
    BY <1>1, <1>2, <1>6 DEF TypeOK, Engine, Statements, Ended
  <1>9. Exclusive'
    BY <1>1, <1>7, WriterAssumption DEF Exclusive
  <1>10. Flagged'
    BY <1>6, <1>7 DEF Flagged, Active
  <1>11. OwnWritesOnly'
    BY <1>1, <1>4, <1>7 DEF OwnWritesOnly, Active
  <1>12. NoNestedBegin'
    BY <1>6 DEF NoNestedBegin
  <1>13. WholeOrNothing'
    <2>1. \A u \in Tasks : All(u)' = All(u)
      BY DEF All, Statements
    <2>2. All(t) \subseteq engine'.db
      BY <1>6
    <2>3. \A u \in Tasks : u # t => pc'[u] = pc[u]
      BY <1>4
    <2> QED BY <1>4, <1>6, <2>1, <2>2, <2>3, WholeStays DEF WholeOrNothing
  <1> QED BY <1>6, <1>8, <1>9, <1>10, <1>11, <1>12, <1>13

\* Every way in which a write ends early is harmless.
LEMMA EarlyEndKeeps ==
    ASSUME WriterInv, NEW t \in Tasks, Abandon(t) \/ CommandFails(t) \/ Cancel(t)
    PROVE  WriterInv' /\ holder = t /\ Harmless(t, engine') /\ Dropped(t)
  <1>1. pc[t] \in Active /\ Dropped(t)
    BY DEF Abandon, CommandFails, Cancel, Active
  <1>2. holder = t
    BY <1>1 DEF WriterInv, Exclusive
  <1>3. engine' \in {engine, Effect(t), RolledBack(engine)}
    BY DEF Abandon, CommandFails, Cancel
  <1>4. Harmless(t, engine')
    BY <1>2, <1>3, EffectFacts
  <1> QED BY <1>1, <1>2, <1>4, DroppedKeeps

\* Closing makes nothing durable.
LEMMA CloseKeeps ==
    ASSUME WriterInv, Close
    PROVE  WriterInv' /\ engine'.db = engine.db
  <1> USE DEF WriterInv
  <1>1. /\ holder = NoTask /\ engine' = RolledBack(engine) /\ rollback' = FALSE /\ closed' = TRUE
        /\ UNCHANGED <<kind, holder, pc, n, crashes>>
    BY DEF Close
  <1>2. engine' \in Engine /\ ~ engine'.open /\ engine'.writes = {} /\ engine'.db = engine.db
    BY <1>1 DEF TypeOK, Engine, RolledBack
  <1>3. \A u \in Tasks : pc[u] \notin Active
    BY <1>1, WriterAssumption DEF Exclusive
  <1>4. TypeOK'
    BY <1>1, <1>2 DEF TypeOK, Engine, Statements
  <1>5. Exclusive' /\ Flagged' /\ OwnWritesOnly' /\ NoNestedBegin'
    BY <1>1, <1>2, <1>3 DEF Exclusive, Flagged, OwnWritesOnly, NoNestedBegin, Active
  <1>6. WholeOrNothing'
    <2>1. \A u \in Tasks : All(u)' = All(u)
      BY DEF All, Statements
    <2> QED BY <1>1, <1>2, <2>1 DEF WholeOrNothing
  <1> QED BY <1>2, <1>4, <1>5, <1>6

\* A crash does to the task in flight what dropping it would.
LEMMA CrashKeeps ==
    ASSUME WriterInv, Crash
    PROVE  /\ WriterInv'
           /\ holder \notin Tasks => engine'.db = engine.db /\ pc' = pc
           /\ holder \in Tasks =>
                 /\ engine'.db \in {engine.db, engine.db \cup All(holder)}
                 /\ pc[holder] # "commit" => engine'.db = engine.db
                 /\ pc' = [pc EXCEPT ![holder] = IF pc[holder] = "commit" THEN "unknown" ELSE "refused"]
  <1> USE DEF WriterInv
  <1> DEFINE last == IF pc[holder] = "commit" THEN "unknown" ELSE "refused"
  <1>1. /\ crashes > 0 /\ crashes' = crashes - 1 /\ holder' = NoTask /\ rollback' = FALSE
        /\ engine' \in {RolledBack(engine)} \cup {RolledBack(Effect(t)) : t \in Tasks \cap {holder}}
        /\ pc' = [t \in Tasks |-> IF t # holder THEN pc[t] ELSE last]
        /\ UNCHANGED <<kind, n, closed>>
    BY DEF Crash
  <1>2. pc \in [Tasks -> {"new"} \cup Active \cup Ended]
    BY DEF TypeOK
  <1>3. last \in Ended /\ last \notin Active /\ last # "new" /\ last # "ok"
    BY DEF Ended, Active
  <1>4. crashes' \in 0 .. MaxCrashes
    BY <1>1, WriterAssumption DEF TypeOK
  <1>5. \A u \in Tasks : pc'[u] \notin Active
    BY <1>1, <1>3 DEF Exclusive
  <1>6. /\ engine' \in Engine /\ ~ engine'.open /\ engine'.writes = {}
        /\ holder \notin Tasks => engine'.db = engine.db
        /\ holder \in Tasks =>
              /\ engine'.db \in {engine.db, engine.db \cup All(holder)}
              /\ pc[holder] # "commit" => engine'.db = engine.db
    <2>1. CASE engine' = RolledBack(engine)
      BY <2>1 DEF TypeOK, Engine, RolledBack
    <2>2. CASE holder \in Tasks /\ engine' = RolledBack(Effect(holder))
      <3>1. Harmless(holder, Effect(holder))
        BY <2>2, EffectFacts
      <3> QED BY <2>2, <3>1 DEF RolledBack, Harmless, Engine
    <2> QED BY <1>1, <2>1, <2>2
  <1>7. TypeOK'
    <2>1. pc' \in [Tasks -> {"new"} \cup Active \cup Ended]
      BY <1>1, <1>2, <1>3
    <2> QED BY <1>1, <1>4, <1>6, <2>1 DEF TypeOK, Engine, Statements
  <1>8. Exclusive'
    BY <1>1, <1>5, WriterAssumption DEF Exclusive
  <1>9. Flagged' /\ NoNestedBegin'
    BY <1>5, <1>6 DEF Flagged, NoNestedBegin, Active
  <1>10. OwnWritesOnly'
    BY <1>1, <1>3, <1>5 DEF OwnWritesOnly, Active
  <1>11. \A u \in Tasks : All(u)' = All(u)
    BY DEF All, Statements
  <1>12. CASE holder \notin Tasks
    <2>1. pc' = pc
      BY <1>1, <1>2, <1>12
    <2>2. WholeOrNothing'
      BY <1>6, <1>11, <1>12, <2>1 DEF WholeOrNothing
    <2> QED BY <1>6, <1>7, <1>8, <1>9, <1>10, <1>12, <2>1, <2>2
  <1>13. CASE holder \in Tasks
    <2>1. pc' = [pc EXCEPT ![holder] = last]
      BY <1>1, <1>2, <1>13
    <2>2. pc'[holder] = last /\ \A u \in Tasks : u # holder => pc'[u] = pc[u]
      BY <1>1, <1>13
    <2>3. All(holder) \cap engine.db = {}
      BY <1>13 DEF Exclusive, WholeOrNothing, Active
    <2> SUFFICES ASSUME NEW u \in Tasks
                 PROVE  /\ All(u) \subseteq engine'.db \/ All(u) \cap engine'.db = {}
                        /\ pc'[u] = "ok" => All(u) \subseteq engine'.db
                        /\ pc'[u] \notin {"ok", "unknown"} => All(u) \cap engine'.db = {}
      BY <1>6, <1>7, <1>8, <1>9, <1>10, <1>11, <1>13, <2>1 DEF WholeOrNothing
    <2>4. CASE u = holder
      BY <1>3, <1>6, <1>13, <2>2, <2>3, <2>4, WholeStays
    <2>5. CASE u # holder
      <3>1. pc'[u] = pc[u]
        BY <2>2, <2>5
      <3> QED BY <1>6, <1>13, <2>5, <3>1, WholeStays DEF WholeOrNothing
    <2> QED BY <2>4, <2>5
  <1> QED BY <1>12, <1>13

-----------------------------------------------------------------------------
\* A freshly opened store satisfies the invariant.
LEMMA InitEstablishes == Init => WriterInv
  <1> SUFFICES ASSUME Init PROVE WriterInv
    OBVIOUS
  <1>1. TypeOK
    <2>1. engine \in Engine
      BY DEF Init, Engine
    <2>2. /\ pc \in [Tasks -> {"new"} \cup Active \cup Ended]
          /\ n \in [Tasks -> 0 .. N]
          /\ crashes \in 0 .. MaxCrashes
      BY WriterAssumption DEF Init
    <2> QED BY <2>1, <2>2 DEF Init, TypeOK
  <1>2. Exclusive
    BY WriterAssumption DEF Init, Exclusive, Active
  <1>3. Flagged /\ OwnWritesOnly /\ NoNestedBegin /\ WholeOrNothing
    BY DEF Init, Flagged, OwnWritesOnly, NoNestedBegin, WholeOrNothing
  <1> QED BY <1>1, <1>2, <1>3 DEF WriterInv

\* So does a step of anything else.
LEMMA StutterKeeps == WriterInv /\ UNCHANGED vars => WriterInv'
  BY DEF WriterInv, vars, TypeOK, Exclusive, Flagged, OwnWritesOnly, Prefix, NoNestedBegin,
         WholeOrNothing, All, Statements, Engine, Active, Ended

\* The inductive invariant.
LEMMA WriterInvariance == Spec => []WriterInv
  <1>1. WriterInv /\ [Next]_vars => WriterInv'
    <2> SUFFICES ASSUME WriterInv, Next PROVE WriterInv'
      BY StutterKeeps
    <2> QED BY LockKeeps, RecoverKeeps, StartTransactionKeeps, BeginKeeps, ExecuteKeeps,
               CommitKeeps, EarlyEndKeeps, CrashKeeps, CloseKeeps DEF Next
  <1> QED BY <1>1, InitEstablishes, PTL DEF Spec

\* A write's statements become durable together or never, and the answer its
\* caller gets says which, whatever is dropped, fails or crashes in between.
THEOREM WritesAreWhole == Spec => []WholeOrNothing
  BY WriterInvariance, PTL DEF WriterInv

\* lock_writer() never hands out a connection that is inside a transaction.
THEOREM WriterStartsClean == Spec => []NoNestedBegin
  BY WriterInvariance, PTL DEF WriterInv

-----------------------------------------------------------------------------
\* A task that ends decides its outcome, and nobody else's.
LEMMA EndsOutcome ==
    ASSUME WriterInv, NEW t \in Tasks, pc[t] \in Active, NEW o \in Ended,
           pc' = [pc EXCEPT ![t] = o],
           \/ o = "ok" /\ engine'.db = engine.db \cup All(t)
           \/ o = "refused" /\ engine'.db = engine.db
           \/ o = "unknown" /\ engine'.db \in {engine.db, engine.db \cup All(t)}
    PROVE  Atomic!Next
  <1> DEFINE out == [u \in Tasks |-> IF pc[u] \in Ended THEN pc[u] ELSE "pending"]
             out1 == [u \in Tasks |-> IF pc'[u] \in Ended THEN pc'[u] ELSE "pending"]
  <1>1. pc \in [Tasks -> {"new"} \cup Active \cup Ended]
    BY DEF WriterInv, TypeOK
  <1>2. pc[t] \notin Ended /\ out[t] = "pending"
    BY DEF Active, Ended
  <1>3. out1 = [out EXCEPT ![t] = o]
    <2>1. pc'[t] = o /\ \A u \in Tasks : u # t => pc'[u] = pc[u]
      BY <1>1
    <2>2. \A u \in Tasks : out1[u] = IF u = t THEN o ELSE out[u]
      BY <2>1
    <2>3. [out EXCEPT ![t] = o] = [u \in Tasks |-> IF u = t THEN o ELSE out[u]]
      OBVIOUS
    <2> QED BY <2>2, <2>3
  <1>4. Atomic!All(t) = All(t)
    BY DEF Atomic!All, All
  <1> QED BY <1>2, <1>3, <1>4 DEF Atomic!Next, Atomic!Write, Atomic!Refuse, Atomic!LoseAnswer, Ended

\* The writer gives every store operation the atomicity that the other modules
\* assume of a transaction.
THEOREM WriterIsAtomic == Spec => RefinesAtomicWrites
  <1>1. Init => Atomic!Init
    BY DEF Init, Atomic!Init, Ended
  <1>2. WriterInv /\ WriterInv' /\ [Next]_vars => [Atomic!Next]_Atomic!vars
    <2> SUFFICES ASSUME WriterInv, [Next]_vars PROVE [Atomic!Next]_Atomic!vars
      OBVIOUS
    <2>1. pc \in [Tasks -> {"new"} \cup Active \cup Ended] /\ engine \in Engine
      BY DEF WriterInv, TypeOK
    <2>2. ASSUME NEW t \in Tasks, NEW place \in Active, pc[t] \notin Ended,
                 pc' = [pc EXCEPT ![t] = place], engine'.db = engine.db
          PROVE  UNCHANGED Atomic!vars
      <3>1. \A u \in Tasks : (pc'[u] \in Ended) <=> (pc[u] \in Ended)
        BY <2>1, <2>2 DEF Active, Ended
      <3>2. \A u \in Tasks : pc[u] \in Ended => pc'[u] = pc[u]
        BY <2>1, <2>2
      <3> QED BY <2>2, <3>1, <3>2 DEF Atomic!vars
    <2>3. ASSUME NEW t \in Tasks, Lock(t) \/ StartTransaction(t)
          PROVE  UNCHANGED Atomic!vars
      BY <2>2, <2>3 DEF Lock, StartTransaction, Goes, Active, Ended
    <2>4. ASSUME NEW t \in Tasks, Recover(t) \/ Begin(t)
          PROVE  UNCHANGED Atomic!vars
      <3>1. engine'.db = engine.db
        BY <2>4 DEF Recover, Begin, RolledBack, Begun
      <3> QED BY <2>2, <2>4, <3>1 DEF Recover, Begin, Goes, Active, Ended
    <2>5. ASSUME NEW t \in Tasks, Execute(t)
          PROVE  UNCHANGED Atomic!vars
      <3>1. pc[t] = "run" /\ engine.open
        BY <2>5 DEF Execute, WriterInv, OwnWritesOnly
      <3>2. engine'.db = engine.db
        BY <2>5, <3>1 DEF Execute, Executed
      <3>3. pc' = [pc EXCEPT ![t] = IF n[t] + 1 < N THEN "run" ELSE "commit"]
        BY <2>5 DEF Execute, Goes
      <3> QED BY <2>2, <3>1, <3>2, <3>3 DEF Active, Ended
    <2>6. ASSUME NEW t \in Tasks, Commit(t)
          PROVE  Atomic!Next
      BY <2>6, CommitKeeps, EndsOutcome DEF Commit, Ends, Goes, Active, Ended
    <2>7. ASSUME NEW t \in Tasks, Abandon(t) \/ CommandFails(t) \/ Cancel(t)
          PROVE  Atomic!Next
      <3>1. holder = t /\ Harmless(t, engine') /\ Dropped(t) /\ pc[t] \in Active
        BY <2>7, EarlyEndKeeps DEF WriterInv, Exclusive
      <3>2. pc' = [pc EXCEPT ![t] = IF pc[t] = "commit" THEN "unknown" ELSE "refused"]
        BY <3>1 DEF Dropped, Ends, Goes
      <3> QED BY <3>1, <3>2, EndsOutcome DEF Harmless, Ended
    <2>8. CASE Crash
      <3>1. CASE holder \notin Tasks
        BY <2>8, <3>1, CrashKeeps DEF Atomic!vars
      <3>2. CASE holder \in Tasks
        <4>1. pc[holder] \in Active
          BY <3>2 DEF WriterInv, Exclusive
        <4> QED BY <2>8, <3>2, <4>1, CrashKeeps, EndsOutcome DEF Ended
      <3> QED BY <3>1, <3>2
    <2>9. CASE Close
      BY <2>9, CloseKeeps DEF Close, Atomic!vars
    <2>10. CASE UNCHANGED vars
      BY <2>10 DEF vars, Atomic!vars
    <2> QED BY <2>3, <2>4, <2>5, <2>6, <2>7, <2>8, <2>9, <2>10 DEF Next
  <1> QED BY <1>1, <1>2, WriterInvariance, PTL DEF Spec, RefinesAtomicWrites, Atomic!Spec
=============================================================================
