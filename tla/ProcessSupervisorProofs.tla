---------------------- MODULE ProcessSupervisorProofs -----------------------
(***************************************************************************)
(* The supervisor's promises for every set of logging, leaky and losable   *)
(* children, every queue capacity and any number of lines: the order of    *)
(* the shutdown, what an exit code of zero means, the accounting of the    *)
(* lines, and that no wake-up and no process group is lost.                *)
(***************************************************************************)
EXTENDS ProcessSupervisor, FiniteSetTheorems, TLAPS

Starting == {"setup", "spawn", "watch", "select"}

\* The types; the Boolean variables are only ever tested.
ControlType ==
    /\ pc \in Starting \cup Stopping \cup {"exited"}
    /\ batch \in {Services, {"collector"}}
    /\ todo \in Seq(Roles)
    /\ clock \in Nat /\ busy \in Nat /\ code \in Nat
    /\ reason \in {"none", "signal", "child", "collector", "internal", "notfound", "spawn"}
ProcType ==
    /\ proc \in [Roles -> {"none", "running", "exited", "reaped", "lost"}]
    /\ asked \subseteq Roles
LineType ==
    /\ pipe \in [Roles -> Nat]
    /\ reader \in [Roles -> {"none", "open", "line", "last", "aborted", "closed"}]
    /\ made \in Nat /\ queue \in Nat /\ pending \in Nat
    /\ out \in [settled : Nat, errors : BOOLEAN]
SupTypeOK == ControlType /\ ProcType /\ LineType

\* The children still to be killed or drained.
Left == {todo[i] : i \in 1 .. Len(todo)}

\* A child is gone once nobody has to wait for it and nothing more comes from it.
Reaped(r) == proc[r] \in {"none", "reaped"}
Silent(r) == reader[r] \in {"none", "closed"}

\* A pipe, its reader and its process are in step: only a child that was spawned has a
\* reader, only a logger writes, and a reader that ended without an error has read it all.
PipesOK ==
    \A r \in Roles :
        /\ proc[r] = "none" <=> reader[r] = "none"
        /\ r \notin Loggers \/ proc[r] = "none" => pipe[r] = 0
        /\ reader[r] = "closed" /\ r \in Loggers /\ ~out.errors =>
             pipe[r] = 0 /\ proc[r] # "running"
        /\ reader[r] \in {"last", "aborted"} => timedOut

\* The start: the children still to be spawned are the last of the order.
StartOK ==
    /\ pc \in Starting => reason = "none" /\ batch = Services
    /\ pc \in {"setup", "spawn"} =>
        /\ todo \in {Order, Tail(Order), Tail(Tail(Order))}
        /\ \A r \in Roles : r \in Left <=> proc[r] = "none"
    /\ pc \in {"watch", "select"} \/ reason = "signal" => \A r \in Roles : proc[r] # "none"
    /\ reason = "signal" => signalled

\* The shutdown: how far it has come says who is gone, unless it has been found late.
StopOK ==
    /\ pc \in {"kill", "reap"} /\ ~timedOut => \A r \in batch \ Left : Reaped(r)
    /\ pc = "reap" => todo # <<>>
    /\ pc = "drain" /\ ~timedOut =>
        (\A r \in batch : Reaped(r)) /\ (\A r \in batch \ Left : Silent(r))
    /\ pc \in {"logs", "recheck"} => batch = Services
    /\ pc \in {"logs", "recheck"} \/ batch = {"collector"} =>
        (~timedOut => \A r \in Services : Reaped(r) /\ Silent(r))
    /\ pc = "writer" /\ reason = "signal" => batch = {"collector"}
    /\ pc = "writer" /\ batch = {"collector"} /\ ~timedOut =>
        \A r \in Roles : Reaped(r) /\ Silent(r)

\* The collector: it is asked last, and if it left early a planned shutdown is no longer
\* reported as one.
CollectorOK ==
    /\ "collector" \in asked => batch = {"collector"}
    /\ early => proc["collector"] \notin {"none", "running"}
    /\ batch = {"collector"} /\ reason = "signal" => ~early

SupInv ==
    /\ SupTypeOK /\ PipesOK /\ StartOK /\ StopOK /\ CollectorOK
    /\ LinesAccounted /\ NoForeignSignal /\ NoLostWakeup /\ ZeroMeansClean
-----------------------------------------------------------------------------
(* The operators *)

\* InOrder lists exactly the children it is given.
LEMMA InOrderFacts ==
    ASSUME NEW rs \in SUBSET Roles
    PROVE  /\ InOrder(rs) \in Seq(Roles)
           /\ {InOrder(rs)[i] : i \in 1 .. Len(InOrder(rs))} = rs
<1> DEFINE c == IF "collector" \in rs THEN <<"collector">> ELSE <<>>
           b == IF "backend" \in rs THEN <<"backend">> ELSE <<>>
           y == IF "caddy" \in rs THEN <<"caddy">> ELSE <<>>
<1>1. InOrder(rs) = c \o b \o y
  BY DEF InOrder, Order
<1>2. c \in Seq(Roles) /\ b \in Seq(Roles) /\ y \in Seq(Roles)
  <2>1. {"collector", "backend", "caddy"} = Roles
    BY DEF Roles
  <2>2. \A r \in Roles : <<r>> \in Seq(Roles)
    OBVIOUS
  <2> QED BY <2>1, <2>2
<1>3. c \o b \o y \in Seq(Roles)
  BY <1>2
<1>4. \A r \in rs : \E i \in 1 .. Len(c \o b \o y) : (c \o b \o y)[i] = r
  <2>1. CASE "collector" \in rs
    BY <2>1, <1>2 DEF Roles
  <2>2. CASE "collector" \notin rs
    BY <2>2, <1>2 DEF Roles
  <2> QED BY <2>1, <2>2
<1>5. \A i \in 1 .. Len(c \o b \o y) : (c \o b \o y)[i] \in rs
  <2>1. CASE "collector" \in rs
    BY <2>1, <1>2 DEF Roles
  <2>2. CASE "collector" \notin rs
    BY <2>2, <1>2 DEF Roles
  <2> QED BY <2>1, <2>2
<1> QED
  BY <1>1, <1>3, <1>4, <1>5

\* Taking the first child off the list leaves all the others on it.
LEMMA TailFacts ==
    ASSUME todo \in Seq(Roles), todo # <<>>
    PROVE  /\ Head(todo) \in Roles /\ Head(todo) \in Left
           /\ Tail(todo) \in Seq(Roles)
           /\ Left = {Head(todo)} \cup {Tail(todo)[i] : i \in 1 .. Len(Tail(todo))}
<1>1. Len(todo) \in Nat \ {0} /\ Head(todo) = todo[1] /\ Len(Tail(todo)) = Len(todo) - 1
  OBVIOUS
<1>2. \A i \in 1 .. Len(Tail(todo)) : Tail(todo)[i] = todo[i + 1]
  OBVIOUS
<1>3. \A i \in 2 .. Len(todo) : todo[i] = Tail(todo)[i - 1] /\ i - 1 \in 1 .. Len(Tail(todo))
  BY <1>1, <1>2
<1> DEFINE T == {Tail(todo)[i] : i \in 1 .. Len(Tail(todo))}
<1>4. Left \subseteq {Head(todo)} \cup T
  <2> SUFFICES ASSUME NEW i \in 1 .. Len(todo) PROVE todo[i] \in {Head(todo)} \cup T
    BY DEF Left
  <2>1. CASE i = 1
    BY <2>1, <1>1
  <2>2. CASE i # 1
    BY <2>2, <1>1, <1>3
  <2> QED BY <2>1, <2>2
<1>5. T \subseteq Left
  <2> SUFFICES ASSUME NEW i \in 1 .. Len(Tail(todo)) PROVE Tail(todo)[i] \in Left
    OBVIOUS
  <2>1. i + 1 \in 1 .. Len(todo)
    BY <1>1
  <2> QED BY <2>1, <1>2 DEF Left
<1>6. Head(todo) \in Left /\ Head(todo) \in Roles
  BY <1>1 DEF Left
<1>7. Tail(todo) \in Seq(Roles)
  OBVIOUS
<1> QED
  BY <1>4, <1>5, <1>6, <1>7

\* A cardinality over the three children is a sum.
LEMMA CountedSum ==
    ASSUME NEW reading, NEW s
    PROVE  Cardinality({r \in Roles : reading[r] \in s}) =
               (IF reading["collector"] \in s THEN 1 ELSE 0)
               + (IF reading["backend"] \in s THEN 1 ELSE 0)
               + (IF reading["caddy"] \in s THEN 1 ELSE 0)
<1> DEFINE c == IF reading["collector"] \in s THEN {"collector"} ELSE {}
           b == IF reading["backend"] \in s THEN {"backend"} ELSE {}
           y == IF reading["caddy"] \in s THEN {"caddy"} ELSE {}
<1>1. {r \in Roles : reading[r] \in s} = c \cup b \cup y
  BY DEF Roles
<1>2. IsFiniteSet(c) /\ Cardinality(c) = IF reading["collector"] \in s THEN 1 ELSE 0
  BY FS_EmptySet, FS_Singleton
<1>3. /\ IsFiniteSet(c \cup b)
      /\ Cardinality(c \cup b) = Cardinality(c) + IF reading["backend"] \in s THEN 1 ELSE 0
  <2>1. CASE reading["backend"] \in s
    <3>1. "backend" \notin c /\ c \cup b = c \cup {"backend"}
      BY <2>1
    <3> HIDE DEF c, b
    <3> QED BY <2>1, <3>1, <1>2, FS_AddElement
  <2>2. CASE reading["backend"] \notin s
    <3>1. c \cup b = c
      BY <2>2
    <3>2. Cardinality(c) \in Nat
      BY <1>2
    <3>3. Cardinality(c \cup b) = Cardinality(c) /\ IsFiniteSet(c \cup b)
      BY <3>1, <1>2
    <3> HIDE DEF c, b
    <3> QED BY <2>2, <3>2, <3>3
  <2> QED BY <2>1, <2>2
<1>4. Cardinality(c \cup b \cup y) = Cardinality(c \cup b) + IF reading["caddy"] \in s THEN 1 ELSE 0
  <2>1. CASE reading["caddy"] \in s
    <3>1. "caddy" \notin c \cup b /\ c \cup b \cup y = (c \cup b) \cup {"caddy"}
      BY <2>1
    <3> HIDE DEF c, b, y
    <3> QED BY <2>1, <3>1, <1>3, FS_AddElement
  <2>2. CASE reading["caddy"] \notin s
    <3>1. c \cup b \cup y = c \cup b
      BY <2>2
    <3>2. Cardinality(c \cup b) \in Nat
      BY <1>3, FS_CardinalityType
    <3>3. Cardinality(c \cup b \cup y) = Cardinality(c \cup b)
      BY <3>1
    <3> HIDE DEF c, b, y
    <3> QED BY <2>2, <3>2, <3>3
  <2> QED BY <2>1, <2>2
<1> QED
  BY <1>1, <1>2, <1>3, <1>4

\* The accounts as a sum over the three children.
LinesSum ==
    /\ pending = queue + (IF writing THEN 1 ELSE 0)
            + ((IF reader["collector"] \in {"line", "last"} THEN 1 ELSE 0)
                + (IF reader["backend"] \in {"line", "last"} THEN 1 ELSE 0)
                + (IF reader["caddy"] \in {"line", "last"} THEN 1 ELSE 0))
    /\ made = pipe["collector"] + pipe["backend"] + pipe["caddy"] + pending + out.settled

\* The cardinality in the invariant is that sum, ...
LEMMA LinesShape == LinesAccounted <=> LinesSum
<1>1. PICK f : f = reader
  OBVIOUS
<1>2. PICK s : s = {"line", "last"}
  OBVIOUS
<1>3. Cardinality({r \in Roles : f[r] \in s}) = (IF f["collector"] \in s THEN 1 ELSE 0)
               + (IF f["backend"] \in s THEN 1 ELSE 0)
               + (IF f["caddy"] \in s THEN 1 ELSE 0)
  BY CountedSum
<1> QED
  BY <1>1, <1>2, <1>3 DEF LinesAccounted, LinesSum, Counted

\* ... and so it is in the next state.
LEMMA LinesShapeNext == LinesAccounted' <=> LinesSum'
<1>1. PICK f : f = reader'
  OBVIOUS
<1>2. PICK s : s = {"line", "last"}
  OBVIOUS
<1>3. Cardinality({r \in Roles : f[r] \in s}) = (IF f["collector"] \in s THEN 1 ELSE 0)
               + (IF f["backend"] \in s THEN 1 ELSE 0)
               + (IF f["caddy"] \in s THEN 1 ELSE 0)
  BY CountedSum
<1> QED
  BY <1>1, <1>2, <1>3 DEF LinesAccounted, LinesSum, Counted
-----------------------------------------------------------------------------
(* The steps *)

\* A line that is being written, or is in a reader's hands, is counted as pending.
LEMMA PendingCounts ==
    ASSUME SupInv
    PROVE  /\ writing => pending - 1 \in Nat
           /\ \A r \in Roles : reader[r] \in {"line", "last"} => pending - 1 \in Nat
<1>1. pending \in Nat /\ queue \in Nat
  BY DEF SupInv, SupTypeOK, LineType
<1>2. LinesSum
  BY LinesShape DEF SupInv
<1> QED
  BY <1>1, <1>2 DEF Roles, LinesSum

\* What spawning, stopping and the readers need to know of the list of children.
LEMMA HeadFacts ==
    ASSUME SupInv
    PROVE  /\ pc = "spawn" /\ todo # <<>> =>
                /\ Head(todo) \in Roles /\ proc[Head(todo)] = "none" /\ reader[Head(todo)] = "none"
                /\ pipe[Head(todo)] = 0
           /\ pc = "reap" => todo # <<>> /\ Head(todo) \in Roles
           /\ pc = "drain" /\ todo # <<>> => Head(todo) \in Roles
  BY TailFacts DEF SupInv, SupTypeOK, ControlType, StartOK, StopOK, PipesOK

\* The control stays well formed.
LEMMA ControlStep ==
    ASSUME SupInv, [Next]_vars
    PROVE  ControlType'
<1> USE SupervisorAssumption DEF SupInv, SupTypeOK, ControlType
<1>1. CASE Setup
  BY <1>1 DEF Setup, procVars, logVars, Roles, Services, Order, Starting, Stopping
<1>2. CASE Spawn
  <2> DEFINE r == Head(todo)
  <2>1. Tail(todo) \in Seq(Roles)
    BY <1>2, TailFacts DEF Spawn
  <2>2. pc' \in {"spawn", "watch", "writer", "term"}
    BY <1>2 DEF Spawn
  <2>3. todo' \in {todo, Tail(todo)} /\ busy' \in {0, busy, busy + 1}
    BY <1>2 DEF Spawn
  <2>4. reason' \in {reason, "spawn", "notfound"} /\ UNCHANGED <<batch, clock, code>>
    BY <1>2 DEF Spawn
  <2> QED
    BY <2>1, <2>2, <2>3, <2>4 DEF Starting, Stopping
<1>3. CASE Watch
  BY <1>3 DEF Watch, procVars, logVars, Roles, Services, Order, Starting, Stopping, Unexpected
<1>4. CASE Select
  BY <1>4 DEF Select, procVars, logVars, Roles, Services, Order, Starting, Stopping
<1>5. CASE Terminate
  BY <1>5 DEF Terminate, procVars, logVars, Roles, Services, Order, Starting, Stopping
<1>6. CASE Wait
  BY <1>6, InOrderFacts, TailFacts DEF Wait, procVars, logVars, Roles, Services, Order,
     Starting, Stopping, Spawned
<1>7. CASE Blocked
  BY <1>7, InOrderFacts, TailFacts DEF Blocked, procVars, logVars, Roles, Services, Order,
     Starting, Stopping, Spawned
<1>8. CASE Kill
  BY <1>8, InOrderFacts, TailFacts DEF Kill, procVars, logVars, Roles, Services, Order,
     Starting, Stopping, Spawned
<1>9. CASE Reap
  BY <1>9, InOrderFacts, TailFacts DEF Reap, procVars, logVars, Roles, Services, Order,
     Starting, Stopping, StopOK
<1>10. CASE Drain
  BY <1>10, InOrderFacts, TailFacts DEF Drain, procVars, logVars, Roles, Services, Order,
     Starting, Stopping
<1>11. CASE DrainLogs
  BY <1>11 DEF DrainLogs, procVars, logVars, Roles, Services, Order, Starting, Stopping
<1>12. CASE Recheck
  BY <1>12 DEF Recheck, procVars, logVars, Roles, Services, Order, Starting, Stopping,
     Unexpected
<1>13. CASE Finish
  BY <1>13 DEF Finish, procVars, logVars, Roles, Services, Order, Starting, Stopping, ExitCode
<1>14. CASE Tick
  BY <1>14 DEF Tick, procVars, logVars, Roles, Services, Order, Starting, Stopping, Due,
     Graceful, ReapBy, DrainBy, LastDeadline
<1>15. CASE UNCHANGED vars \/ TakeLine \/ WriteLine \/ Operator
        \/ \E r \in Roles : ReadLine(r) \/ OfferLine(r) \/ CloseReader(r) \/ ChildExits(r)
        \/ LoseChild(r) \/ ChildWrites(r)
  BY <1>15 DEF vars, TakeLine, WriteLine, Operator, ReadLine, OfferLine, CloseReader,
     ChildExits, LoseChild, ChildWrites, procVars, logVars, Roles, Services, Order, Starting,
     Stopping
<1> QED
  BY <1>1, <1>2, <1>3, <1>4, <1>5, <1>6, <1>7, <1>8, <1>9, <1>10, <1>11, <1>12, <1>13, <1>14,
     <1>15 DEF Next, Main, Reader

\* The processes stay well formed.
LEMMA ProcStep ==
    ASSUME SupInv, [Next]_vars
    PROVE  ProcType'
<1> USE SupervisorAssumption DEF SupInv, SupTypeOK, ProcType
<1>1. CASE Spawn
  BY <1>1, TailFacts DEF Spawn, procVars, logVars, ControlType
<1>2. CASE Terminate
  BY <1>2 DEF Terminate, procVars, logVars, Spawned
<1>3. CASE Reap
  BY <1>3 DEF Reap, procVars, logVars, ControlType
<1>4. ASSUME NEW r \in Roles, ChildExits(r) PROVE ProcType'
  BY <1>4 DEF ChildExits, procVars, logVars
<1>5. ASSUME NEW r \in Roles, LoseChild(r) PROVE ProcType'
  BY <1>5 DEF LoseChild, procVars, logVars
<1>6. CASE UNCHANGED vars \/ Setup \/ Watch \/ Select \/ Wait \/ Blocked \/ Kill \/ Drain
        \/ DrainLogs \/ Recheck \/ Finish \/ Tick \/ TakeLine \/ WriteLine \/ Operator
        \/ \E r \in Roles : ReadLine(r) \/ OfferLine(r) \/ CloseReader(r) \/ ChildWrites(r)
  BY <1>6 DEF vars, Setup, Watch, Select, Wait, Blocked, Kill, Drain, DrainLogs, Recheck,
     Finish, Tick, TakeLine, WriteLine, Operator, ReadLine, OfferLine, CloseReader,
     ChildWrites, procVars, logVars
<1> QED
  BY <1>1, <1>2, <1>3, <1>4, <1>5, <1>6 DEF Next, Main, Reader

\* The lines stay well formed.
LEMMA LineStep ==
    ASSUME SupInv, [Next]_vars
    PROVE  LineType'
<1> USE SupervisorAssumption DEF SupInv, SupTypeOK, LineType
<1>1. CASE Spawn
  BY <1>1 DEF Spawn, procVars, logVars
<1>2. CASE Drain
  BY <1>2 DEF Drain, procVars, logVars
<1>3. CASE TakeLine
  BY <1>3 DEF TakeLine, procVars, logVars
<1>4. CASE WriteLine
  BY <1>4, PendingCounts DEF WriteLine, procVars, logVars
<1>5. ASSUME NEW r \in Roles, pc # "exited", ReadLine(r) PROVE LineType'
  BY <1>5 DEF ReadLine, procVars, logVars
<1>6. ASSUME NEW r \in Roles, pc # "exited", OfferLine(r) PROVE LineType'
  BY <1>6, PendingCounts DEF OfferLine, procVars, logVars
<1>7. ASSUME NEW r \in Roles, pc # "exited", CloseReader(r) PROVE LineType'
  BY <1>7 DEF CloseReader, procVars, logVars
<1>8. ASSUME NEW r \in Roles, ChildWrites(r) PROVE LineType'
  BY <1>8 DEF ChildWrites, procVars, logVars
<1>9. CASE UNCHANGED vars \/ Setup \/ Watch \/ Select \/ Terminate \/ Wait \/ Blocked
        \/ Kill \/ Reap \/ DrainLogs \/ Recheck \/ Finish \/ Tick \/ Operator
        \/ \E r \in Roles : ChildExits(r) \/ LoseChild(r)
  BY <1>9 DEF vars, Setup, Watch, Select, Terminate, Wait, Blocked, Kill, Reap, DrainLogs,
     Recheck, Finish, Tick, Operator, ChildExits, LoseChild, procVars, logVars
<1> QED
  BY <1>1, <1>2, <1>3, <1>4, <1>5, <1>6, <1>7, <1>8, <1>9 DEF Next, Main, Reader

\* A step keeps pipes, readers and processes in step.
LEMMA PipesStep ==
    ASSUME SupInv, [Next]_vars
    PROVE  PipesOK'
<1> USE SupervisorAssumption DEF SupInv, SupTypeOK, LineType, ProcType, PipesOK
<1>1. CASE Spawn
  BY <1>1, HeadFacts DEF Spawn, procVars, logVars
<1>2. CASE Terminate
  BY <1>2 DEF Terminate, procVars, logVars
<1>3. CASE Wait
  BY <1>3 DEF Wait, procVars, logVars
<1>4. CASE Blocked
  BY <1>4 DEF Blocked, procVars, logVars
<1>5. CASE Kill
  BY <1>5 DEF Kill, procVars, logVars
<1>6. CASE Reap
  BY <1>6, HeadFacts DEF Reap, procVars, logVars
<1>7. CASE Drain
  BY <1>7, HeadFacts DEF Drain, procVars, logVars
<1>8. CASE DrainLogs
  BY <1>8 DEF DrainLogs, procVars, logVars
<1>9. CASE Finish
  BY <1>9 DEF Finish, procVars, logVars
<1>10. CASE WriteLine
  BY <1>10 DEF WriteLine, procVars, logVars
<1>11. ASSUME NEW r \in Roles, pc # "exited", ReadLine(r) PROVE PipesOK'
  BY <1>11 DEF ReadLine, procVars, logVars
<1>12. ASSUME NEW r \in Roles, pc # "exited", OfferLine(r) PROVE PipesOK'
  BY <1>12 DEF OfferLine, procVars, logVars
<1>13. ASSUME NEW r \in Roles, pc # "exited", CloseReader(r) PROVE PipesOK'
  BY <1>13 DEF CloseReader, procVars, logVars, Ended
<1>14. ASSUME NEW r \in Roles, ChildExits(r) PROVE PipesOK'
  BY <1>14 DEF ChildExits, procVars, logVars
<1>15. ASSUME NEW r \in Roles, LoseChild(r) PROVE PipesOK'
  BY <1>15 DEF LoseChild, procVars, logVars
<1>16. ASSUME NEW r \in Roles, ChildWrites(r) PROVE PipesOK'
  BY <1>16 DEF ChildWrites, procVars, logVars
<1>17. CASE UNCHANGED vars \/ Setup \/ Watch \/ Select \/ Recheck \/ Tick \/ TakeLine
        \/ Operator
  BY <1>17 DEF vars, Setup, Watch, Select, Recheck, Tick, TakeLine, Operator, procVars,
     logVars
<1> QED
  BY <1>1, <1>2, <1>3, <1>4, <1>5, <1>6, <1>7, <1>8, <1>9, <1>10, <1>11, <1>12, <1>13, <1>14,
     <1>15, <1>16, <1>17 DEF Next, Main, Reader

\* A step keeps the start in order.
LEMMA StartStep ==
    ASSUME SupInv, [Next]_vars
    PROVE  StartOK'
<1> USE DEF SupInv, SupTypeOK, ControlType, ProcType, StartOK
<1>1. CASE Setup
  BY <1>1 DEF Setup, procVars, logVars, Starting, Stopping, Left
<1>2. CASE Spawn
  <2>1. CASE proc' = proc
    <3>1. pc' = "spawn" \/ pc' \in {"term", "writer"}
      BY <2>1, <1>2, HeadFacts DEF Spawn
    <3>2. reason' # "signal" /\ UNCHANGED <<batch, todo, signalled>>
      BY <2>1, <1>2, HeadFacts DEF Spawn, Starting
    <3>3. pc' = "spawn" => reason' = reason
      BY <2>1, <1>2, HeadFacts DEF Spawn
    <3> QED
      BY <2>1, <3>1, <3>2, <3>3, <1>2 DEF Spawn, Starting, Left
  <2>2. CASE proc' # proc
    <3>1. /\ proc' = [proc EXCEPT ![Head(todo)] = "running"] /\ todo' = Tail(todo)
          /\ pc' = IF Tail(todo) = <<>> THEN "watch" ELSE "spawn"
          /\ UNCHANGED <<reason, batch, signalled>>
      BY <2>2, <1>2 DEF Spawn
    <3>2. todo = Order \/ todo = Tail(Order) \/ todo = Tail(Tail(Order))
      BY <1>2 DEF Spawn
    <3>3. /\ todo # <<>> /\ Head(todo) \in Roles
          /\ Left = {Head(todo)} \cup Left'
      <4>1. Left' = {Tail(todo)[i] : i \in 1 .. Len(Tail(todo))}
        BY <3>1 DEF Left
      <4> QED BY <4>1, <1>2, TailFacts DEF Spawn
    <3>4. Tail(todo) = <<>> => Left' = {}
      <4>1. Left' = {Tail(todo)[i] : i \in 1 .. Len(Tail(todo))}
        BY <3>1 DEF Left
      <4>2. Len(<<>>) = 0 /\ 1 .. 0 = {}
        OBVIOUS
      <4> QED BY <4>1, <4>2
    <3>5. Head(todo) \notin Left'
      <4>1. CASE todo = Order
        BY <4>1, <3>1 DEF Left, Order
      <4>2. CASE todo = Tail(Order)
        BY <4>2, <3>1 DEF Left, Order
      <4>3. CASE todo = Tail(Tail(Order))
        BY <4>3, <3>1 DEF Left, Order
      <4> QED BY <3>2, <4>1, <4>2, <4>3
    <3>6. pc' = "spawn" => todo' \in {Order, Tail(Order), Tail(Tail(Order))}
      <4>1. pc' = "spawn" => Tail(todo) # <<>>
        BY <3>1
      <4>2. Tail(Tail(Tail(Order))) = <<>>
        BY DEF Order
      <4> QED BY <3>1, <3>2, <4>1, <4>2
    <3>7. \A q \in Roles : q \in Left' <=> proc'[q] = "none"
      BY <3>1, <3>3, <3>5, <1>2 DEF Spawn
    <3> QED
      BY <3>1, <3>4, <3>6, <3>7, <1>2 DEF Spawn, Starting
  <2> QED BY <2>1, <2>2
<1>3. CASE Watch
  BY <1>3 DEF Watch, procVars, logVars, Starting, Stopping, Left, Unexpected
<1>4. CASE Select
  BY <1>4 DEF Select, procVars, logVars, Starting, Stopping, Left
<1>5. CASE Terminate
  BY <1>5 DEF Terminate, procVars, logVars, Starting, Stopping, Left
<1>6. CASE Wait
  BY <1>6 DEF Wait, procVars, logVars, Starting, Stopping, Left
<1>7. CASE Blocked
  BY <1>7 DEF Blocked, procVars, logVars, Starting, Stopping, Left
<1>8. CASE Kill
  BY <1>8 DEF Kill, procVars, logVars, Starting, Stopping, Left
<1>9. CASE Reap
  BY <1>9, HeadFacts DEF Reap, procVars, logVars, Starting, Stopping, Left
<1>10. CASE Drain
  BY <1>10, HeadFacts DEF Drain, procVars, logVars, Starting, Stopping, Left
<1>11. CASE DrainLogs
  BY <1>11 DEF DrainLogs, procVars, logVars, Starting, Stopping, Left
<1>12. CASE Recheck
  BY <1>12 DEF Recheck, procVars, logVars, Starting, Stopping, Left, Unexpected, StopOK
<1>13. CASE Finish
  BY <1>13 DEF Finish, procVars, logVars, Starting, Stopping, Left
<1>14. CASE Operator
  BY <1>14 DEF Operator, procVars, logVars, Starting, Stopping, Left
<1>15. ASSUME NEW r \in Roles, ChildExits(r) PROVE StartOK'
  BY <1>15 DEF ChildExits, procVars, logVars, Starting, Stopping, Left
<1>16. ASSUME NEW r \in Roles, LoseChild(r) PROVE StartOK'
  BY <1>16 DEF LoseChild, procVars, logVars, Starting, Stopping, Left
<1>17. CASE UNCHANGED vars \/ Tick \/ TakeLine \/ WriteLine
        \/ \E r \in Roles : ReadLine(r) \/ OfferLine(r) \/ CloseReader(r) \/ ChildWrites(r)
  BY <1>17 DEF vars, Tick, TakeLine, WriteLine, ReadLine, OfferLine, CloseReader,
     ChildWrites, procVars, logVars, Starting, Stopping, Left
<1> QED
  BY <1>1, <1>2, <1>3, <1>4, <1>5, <1>6, <1>7, <1>8, <1>9, <1>10, <1>11, <1>12, <1>13, <1>14,
     <1>15, <1>16, <1>17 DEF Next, Main, Reader

\* A step keeps the shutdown in order.
LEMMA StopStep ==
    ASSUME SupInv, [Next]_vars
    PROVE  StopOK'
<1> USE SupervisorAssumption DEF SupInv, SupTypeOK, ControlType, ProcType, LineType, StopOK,
Reaped, Silent
<1>1. CASE Setup
  BY <1>1 DEF Setup, procVars, logVars, Left
<1>2. CASE Spawn
  <2>1. batch' = Services /\ reason' # "signal" /\ pc' \in {"spawn", "watch", "writer",
  "term"}
    BY <1>2 DEF Spawn, StartOK, Starting
  <2> QED
    BY <2>1 DEF Services, Roles
<1>3. CASE Watch
  BY <1>3 DEF Watch, procVars, logVars, Left, Unexpected
<1>4. CASE Select
  BY <1>4 DEF Select, procVars, logVars, Left, StartOK, Starting
<1>5. CASE Terminate
  BY <1>5 DEF Terminate, procVars, logVars, Left
<1>6. CASE Wait
  <2>1. UNCHANGED <<batch, proc, reader, reason>> /\ (timedOut => timedOut')
    BY <1>6 DEF Wait, procVars, logVars
  <2>2. CASE pc' = "kill"
    <3>1. todo' = InOrder(batch \cap Spawned)
      BY <2>2, <1>6 DEF Wait
    <3>2. Left' = batch \cap Spawned
      <4>1. PICK rs : rs = batch \cap Spawned
        OBVIOUS
      <4>2. rs \in SUBSET Roles /\ todo' = InOrder(rs)
        BY <4>1, <3>1 DEF Spawned
      <4>3. Left' = {InOrder(rs)[i] : i \in 1 .. Len(InOrder(rs))}
        BY <4>2 DEF Left
      <4> QED BY <4>1, <4>2, <4>3, InOrderFacts
    <3>3. \A q \in batch \ Left' : proc[q] = "none"
      BY <3>2 DEF Spawned, Services, Roles
    <3> QED
      BY <2>1, <2>2, <3>3
  <2>3. CASE pc' = "blocked"
    BY <2>1, <2>3
  <2> QED BY <1>6, <2>2, <2>3 DEF Wait
<1>7. CASE Blocked
  BY <1>7, InOrderFacts DEF Blocked, procVars, logVars, Left, Spawned
<1>8. CASE Kill
  <2>1. UNCHANGED <<batch, proc, reader, reason>> /\ (timedOut => timedOut')
    BY <1>8 DEF Kill, procVars, logVars
  <2>2. CASE todo = <<>>
    <3>1. pc' = "drain" /\ todo' = InOrder(batch \cap Spawned)
      BY <2>2, <1>8 DEF Kill
    <3>2. Left' = batch \cap Spawned
      <4>1. PICK rs : rs = batch \cap Spawned
        OBVIOUS
      <4>2. rs \in SUBSET Roles /\ todo' = InOrder(rs)
        BY <4>1, <3>1 DEF Spawned
      <4>3. Left' = {InOrder(rs)[i] : i \in 1 .. Len(InOrder(rs))}
        BY <4>2 DEF Left
      <4> QED BY <4>1, <4>2, <4>3, InOrderFacts
    <3>3. \A q \in batch \ Left' : reader[q] = "none"
      BY <3>2 DEF Spawned, Services, Roles, PipesOK
    <3>4. Left = {}
      BY <2>2 DEF Left
    <3> QED
      BY <2>1, <3>1, <3>3, <3>4, <1>8 DEF Kill
  <2>3. CASE todo # <<>>
    <3>1. pc' = "reap" /\ todo' = todo
      BY <2>3, <1>8 DEF Kill
    <3>2. Left' = Left
      BY <3>1 DEF Left
    <3> QED
      BY <2>1, <2>3, <3>1, <3>2, <1>8 DEF Kill
  <2> QED BY <2>2, <2>3
<1>9. CASE Reap
  <2>1. PICK h : h = Head(todo)
    OBVIOUS
  <2>2. h \in Roles /\ todo # <<>>
    BY <2>1, <1>9, HeadFacts DEF Reap
  <2>3. pc' = "kill" /\ todo' = Tail(todo) /\ UNCHANGED <<batch, reason, reader>>
    BY <1>9 DEF Reap, logVars
  <2>4. Left = {h} \cup Left'
    <3>1. Left' = {Tail(todo)[i] : i \in 1 .. Len(Tail(todo))}
      BY <2>3 DEF Left
    <3> QED BY <3>1, <2>1, <2>2, TailFacts
  <2>5. ~timedOut' => ~timedOut /\ Reaped(h)'
    BY <2>1, <2>2, <1>9 DEF Reap
  <2>6. \A q \in Roles : Reaped(q) => Reaped(q)'
    BY <2>1, <2>2, <1>9 DEF Reap
  <2>7. ~timedOut' => \A q \in batch \ Left' : Reaped(q)'
    BY <2>4, <2>5, <2>6, <1>9 DEF Reap, Services, Roles
  <2>8. batch' = {"collector"} => (~timedOut' => \A q \in Services : Reaped(q)' /\ Silent(q)')
    BY <2>3, <2>5, <2>6 DEF Services
  <2> QED
    BY <2>3, <2>7, <2>8
<1>10. CASE Drain
  <2>1. UNCHANGED <<batch, proc, reason>> /\ (timedOut => timedOut')
    BY <1>10 DEF Drain, procVars
  <2>2. CASE todo = <<>>
    <3>1. Left = {}
      BY <2>2 DEF Left
    <3>2. pc' = (IF batch = Services THEN "logs" ELSE "writer") /\ UNCHANGED <<timedOut,
    reader>>
      BY <2>2, <1>10 DEF Drain
    <3>3. ~timedOut => \A q \in batch : Reaped(q) /\ Silent(q)
      BY <3>1, <1>10 DEF Drain
    <3> QED
      BY <2>1, <3>2, <3>3 DEF Services, Roles
  <2>3. CASE todo # <<>>
    <3>1. PICK h : h = Head(todo)
      OBVIOUS
    <3>2. h \in Roles /\ pc' = "drain" /\ todo' = Tail(todo)
      BY <3>1, <2>3, <1>10, HeadFacts DEF Drain
    <3>3. Left = {h} \cup Left'
      <4>1. Left' = {Tail(todo)[i] : i \in 1 .. Len(Tail(todo))}
        BY <3>2 DEF Left
      <4> QED BY <4>1, <3>1, <2>3, TailFacts
    <3>4. ~timedOut' => reader' = reader /\ Silent(h)
      BY <3>1, <2>3, <1>10 DEF Drain
    <3> QED
      BY <2>1, <3>2, <3>3, <3>4, <1>10 DEF Drain
  <2> QED BY <2>2, <2>3
<1>11. CASE DrainLogs
  BY <1>11 DEF DrainLogs, procVars, logVars, Left
<1>12. CASE Recheck
  BY <1>12 DEF Recheck, procVars, logVars, Left, Unexpected
<1>13. CASE Finish
  BY <1>13 DEF Finish, procVars, logVars, Left
<1>14. ASSUME NEW r \in Roles, pc # "exited", ReadLine(r) PROVE StopOK'
  <2>1. UNCHANGED <<pc, todo, batch, timedOut, proc, reason>> /\ Left' = Left
    BY <1>14 DEF ReadLine, procVars, Left
  <2>2. \A q \in Roles : Silent(q) => Silent(q)'
    BY <1>14 DEF ReadLine
  <2> QED
    BY <2>1, <2>2 DEF Services, Roles
<1>15. ASSUME NEW r \in Roles, pc # "exited", OfferLine(r) PROVE StopOK'
  BY SMTT(30), <1>15 DEF OfferLine, procVars, logVars, Left
<1>16. ASSUME NEW r \in Roles, pc # "exited", CloseReader(r) PROVE StopOK'
  BY <1>16 DEF CloseReader, procVars, logVars, Left
<1>17. ASSUME NEW r \in Roles, ChildExits(r) PROVE StopOK'
  BY <1>17 DEF ChildExits, procVars, logVars, Left
<1>18. ASSUME NEW r \in Roles, LoseChild(r) PROVE StopOK'
  BY <1>18 DEF LoseChild, procVars, logVars, Left
<1>19. CASE UNCHANGED vars \/ Tick \/ TakeLine \/ WriteLine \/ Operator
        \/ \E r \in Roles : ChildWrites(r)
  <2>1. UNCHANGED <<pc, todo, batch, timedOut, proc, reader, reason>>
    BY <1>19 DEF vars, Tick, TakeLine, WriteLine, Operator, ChildWrites, procVars, logVars
  <2>2. Left' = Left
    BY <2>1 DEF Left
  <2> QED
    BY <2>1, <2>2
<1> QED
  BY <1>1, <1>2, <1>3, <1>4, <1>5, <1>6, <1>7, <1>8, <1>9, <1>10, <1>11, <1>12, <1>13, <1>14,
     <1>15, <1>16, <1>17, <1>18, <1>19 DEF Next, Main, Reader

\* A step keeps the collector's turn the last.
LEMMA CollectorStep ==
    ASSUME SupInv, [Next]_vars
    PROVE  CollectorOK'
<1> USE DEF SupInv, SupTypeOK, ControlType, ProcType, CollectorOK
<1>1. CASE Spawn
  BY <1>1, HeadFacts DEF Spawn, procVars, logVars, Services, StartOK, Starting, Roles
<1>2. CASE Watch
  BY <1>2 DEF Watch, procVars, logVars, Services, StartOK, Starting, Unexpected
<1>3. CASE Select
  BY <1>3 DEF Select, procVars, logVars, Services, StartOK, Starting
<1>4. CASE Terminate
  BY <1>4 DEF Terminate, procVars, logVars, Services, Spawned, Roles
<1>5. CASE Reap
  BY <1>5, HeadFacts DEF Reap, procVars, logVars, Services, Roles
<1>6. CASE Recheck
  BY <1>6 DEF Recheck, procVars, logVars, Services, Unexpected, Failed, Status, StartOK,
     Starting
<1>7. ASSUME NEW r \in Roles, ChildExits(r) PROVE CollectorOK'
  BY <1>7 DEF ChildExits, procVars, logVars, Services, Roles
<1>8. ASSUME NEW r \in Roles, LoseChild(r) PROVE CollectorOK'
  BY <1>8 DEF LoseChild, procVars, logVars, Services
<1>9. CASE UNCHANGED vars \/ Setup \/ Wait \/ Blocked \/ Kill \/ Drain \/ DrainLogs
        \/ Finish \/ Tick \/ TakeLine \/ WriteLine \/ Operator
        \/ \E r \in Roles : ReadLine(r) \/ OfferLine(r) \/ CloseReader(r) \/ ChildWrites(r)
  BY <1>9 DEF vars, Setup, Wait, Blocked, Kill, Drain, DrainLogs, Finish, Tick, TakeLine,
     WriteLine, Operator, ReadLine, OfferLine, CloseReader, ChildWrites, procVars, logVars,
     Services
<1> QED
  BY <1>1, <1>2, <1>3, <1>4, <1>5, <1>6, <1>7, <1>8, <1>9 DEF Next, Main, Reader

\* Every step moves a line from one account to another.
LEMMA AccountStep ==
    ASSUME SupInv, [Next]_vars
    PROVE  LinesAccounted'
<1> USE SupervisorAssumption DEF SupInv, SupTypeOK, LineType
<1>1. CASE Spawn
  <2>1. LinesSum
    BY LinesShape
  <2>2. LinesSum'
    BY ZenonT(40), <1>1, <2>1, HeadFacts DEF Spawn, LinesSum, procVars, logVars, Roles
  <2> QED BY <2>2, LinesShapeNext
<1>2. CASE Drain
  <2>1. LinesSum
    BY LinesShape
  <2>2. LinesSum'
    BY <1>2, <2>1, HeadFacts DEF Drain, LinesSum, procVars, logVars, Roles
  <2> QED BY <2>2, LinesShapeNext
<1>3. CASE TakeLine
  <2>1. LinesSum
    BY LinesShape
  <2>2. LinesSum'
    BY <1>3, <2>1 DEF TakeLine, LinesSum, procVars, logVars, Roles
  <2> QED BY <2>2, LinesShapeNext
<1>4. CASE WriteLine
  <2>1. LinesSum
    BY LinesShape
  <2>2. LinesSum'
    BY <1>4, <2>1 DEF WriteLine, LinesSum, procVars, logVars, Roles
  <2> QED BY <2>2, LinesShapeNext
<1>5. ASSUME NEW r \in Roles, pc # "exited", ReadLine(r) PROVE LinesAccounted'
  <2>1. LinesSum
    BY LinesShape
  <2>2. LinesSum'
    BY <1>5, <2>1 DEF ReadLine, LinesSum, procVars, logVars, Roles
  <2> QED BY <2>2, LinesShapeNext
<1>6. ASSUME NEW r \in Roles, pc # "exited", OfferLine(r) PROVE LinesAccounted'
  <2>1. LinesSum
    BY LinesShape
  <2>2. LinesSum'
    BY <1>6, <2>1 DEF OfferLine, LinesSum, procVars, logVars, Roles
  <2> QED BY <2>2, LinesShapeNext
<1>7. ASSUME NEW r \in Roles, pc # "exited", CloseReader(r) PROVE LinesAccounted'
  <2>1. LinesSum
    BY LinesShape
  <2>2. LinesSum'
    BY <1>7, <2>1 DEF CloseReader, LinesSum, procVars, logVars, Roles
  <2> QED BY <2>2, LinesShapeNext
<1>8. ASSUME NEW r \in Roles, ChildWrites(r) PROVE LinesAccounted'
  <2>1. LinesSum
    BY LinesShape
  <2>2. LinesSum'
    BY <1>8, <2>1 DEF ChildWrites, LinesSum, procVars, logVars, Roles
  <2> QED BY <2>2, LinesShapeNext
<1>9. CASE UNCHANGED vars \/ Setup \/ Watch \/ Select \/ Terminate \/ Wait \/ Blocked
        \/ Kill \/ Reap \/ DrainLogs \/ Recheck \/ Finish \/ Tick \/ Operator
        \/ \E r \in Roles : ChildExits(r) \/ LoseChild(r)
  <2>1. UNCHANGED logVars
    BY <1>9 DEF vars, Setup, Watch, Select, Terminate, Wait, Blocked, Kill, Reap, DrainLogs,
       Recheck, Finish, Tick, Operator, ChildExits, LoseChild
  <2> QED
    BY <2>1, LinesShape, LinesShapeNext DEF LinesSum, logVars
<1> QED
  BY <1>1, <1>2, <1>3, <1>4, <1>5, <1>6, <1>7, <1>8, <1>9 DEF Next, Main, Reader

\* No step signals a stranger.
LEMMA ForeignStep ==
    ASSUME SupInv, [Next]_vars
    PROVE  NoForeignSignal'
<1> USE DEF SupInv, NoForeignSignal
<1>1. CASE Terminate
  BY <1>1 DEF Terminate, procVars, logVars, Owned
<1>2. CASE Kill
  BY <1>2 DEF Kill, procVars, logVars, Owned
<1>3. CASE UNCHANGED vars \/ Setup \/ Spawn \/ Watch \/ Select \/ Wait \/ Blocked \/ Reap
        \/ Drain \/ DrainLogs \/ Recheck \/ Finish \/ Tick \/ TakeLine \/ WriteLine
        \/ Operator
        \/ \E r \in Roles : ReadLine(r) \/ OfferLine(r) \/ CloseReader(r) \/ ChildExits(r)
        \/ LoseChild(r) \/ ChildWrites(r)
  BY <1>3 DEF vars, Setup, Spawn, Watch, Select, Wait, Blocked, Reap, Drain, DrainLogs,
     Recheck, Finish, Tick, TakeLine, WriteLine, Operator, ReadLine, OfferLine, CloseReader,
     ChildExits, LoseChild, ChildWrites, procVars, logVars
<1> QED
  BY <1>1, <1>2, <1>3 DEF Next, Main, Reader

\* No step loses a wake-up.
LEMMA WakeupStep ==
    ASSUME SupInv, [Next]_vars
    PROVE  NoLostWakeup'
<1> USE DEF SupInv, SupTypeOK, ControlType, ProcType, NoLostWakeup
<1>1. CASE Setup
  BY <1>1 DEF Setup, procVars, logVars
<1>2. CASE Spawn
  BY <1>2, HeadFacts DEF Spawn, procVars, logVars
<1>3. CASE Watch
  BY <1>3 DEF Watch, procVars, logVars, Unexpected, Failed, Status
<1>4. CASE Select
  BY <1>4 DEF Select, procVars, logVars
<1>5. CASE Terminate
  BY <1>5 DEF Terminate, procVars, logVars
<1>6. CASE Wait
  BY <1>6 DEF Wait, procVars, logVars, Status
<1>7. CASE Blocked
  BY <1>7 DEF Blocked, procVars, logVars
<1>8. CASE Kill
  BY <1>8 DEF Kill, procVars, logVars
<1>9. CASE Reap
  BY <1>9, HeadFacts DEF Reap, procVars, logVars
<1>10. CASE Drain
  BY <1>10, HeadFacts DEF Drain, procVars, logVars
<1>11. CASE DrainLogs
  BY <1>11 DEF DrainLogs, procVars, logVars
<1>12. CASE Recheck
  BY <1>12 DEF Recheck, procVars, logVars
<1>13. CASE Finish
  BY <1>13 DEF Finish, procVars, logVars
<1>14. ASSUME NEW r \in Roles, ChildExits(r) PROVE NoLostWakeup'
  BY <1>14 DEF ChildExits, procVars, logVars
<1>15. ASSUME NEW r \in Roles, LoseChild(r) PROVE NoLostWakeup'
  BY <1>15 DEF LoseChild, procVars, logVars
<1>16. CASE UNCHANGED vars \/ Tick \/ TakeLine \/ WriteLine \/ Operator
        \/ \E r \in Roles : ReadLine(r) \/ OfferLine(r) \/ CloseReader(r) \/ ChildWrites(r)
  BY <1>16 DEF vars, Tick, TakeLine, WriteLine, Operator, ReadLine, OfferLine, CloseReader,
     ChildWrites, procVars, logVars
<1> QED
  BY <1>1, <1>2, <1>3, <1>4, <1>5, <1>6, <1>7, <1>8, <1>9, <1>10, <1>11, <1>12, <1>13, <1>14,
     <1>15, <1>16 DEF Next, Main, Reader

\* Success is reported only after a clean shutdown.
LEMMA ZeroStep ==
    ASSUME SupInv, [Next]_vars
    PROVE  ZeroMeansClean'
<1> USE DEF SupInv, SupTypeOK, ZeroMeansClean
<1>1. CASE Setup
  BY <1>1 DEF Setup, procVars, logVars
<1>2. CASE Spawn
  BY <1>2 DEF Spawn, procVars, logVars
<1>3. CASE Watch
  BY <1>3 DEF Watch, procVars, logVars
<1>4. CASE Select
  BY <1>4 DEF Select, procVars, logVars
<1>5. CASE Terminate
  BY <1>5 DEF Terminate, procVars, logVars
<1>6. CASE Wait
  BY <1>6 DEF Wait, procVars, logVars
<1>7. CASE Blocked
  BY <1>7 DEF Blocked, procVars, logVars
<1>8. CASE Kill
  BY <1>8 DEF Kill, procVars, logVars
<1>9. CASE Reap
  BY <1>9 DEF Reap, procVars, logVars
<1>10. CASE Drain
  BY <1>10 DEF Drain, procVars, logVars
<1>11. CASE DrainLogs
  BY <1>11 DEF DrainLogs, procVars, logVars
<1>12. CASE Recheck
  BY <1>12 DEF Recheck, procVars, logVars
<1>13. CASE Finish
  <2> SUFFICES ASSUME code' = 0 PROVE ZeroMeansClean'
    BY DEF ZeroMeansClean
  <2>1. reason = "signal" /\ WriterIdle /\ ~timedOut
    BY <1>13 DEF Finish, ExitCode
  <2>2. signalled /\ ~early /\ \A q \in Roles : proc[q] = "reaped" /\ reader[q] = "closed"
    BY <2>1, <1>13 DEF Finish, StopOK, StartOK, CollectorOK, PipesOK, Reaped, Silent
  <2>3. pending = 0
    <3>1. LinesSum
      BY LinesShape
    <3> QED BY <3>1, <2>1, <2>2 DEF LinesSum, WriterIdle, Roles
  <2>4. ~out.errors => \A q \in Roles : pipe[q] = 0
    BY <2>2 DEF PipesOK
  <2> QED
    BY <2>2, <2>3, <2>4, <1>13 DEF Finish, procVars, logVars
<1>14. CASE WriteLine
  BY <1>14 DEF WriteLine, procVars, logVars
<1>15. CASE Operator
  BY <1>15 DEF Operator, procVars, logVars
<1>16. ASSUME NEW r \in Roles, pc # "exited", ReadLine(r) PROVE ZeroMeansClean'
  BY <1>16 DEF ReadLine, procVars, logVars
<1>17. ASSUME NEW r \in Roles, pc # "exited", OfferLine(r) PROVE ZeroMeansClean'
  BY <1>17 DEF OfferLine, procVars, logVars
<1>18. ASSUME NEW r \in Roles, pc # "exited", CloseReader(r) PROVE ZeroMeansClean'
  BY <1>18 DEF CloseReader, procVars, logVars
<1>19. ASSUME NEW r \in Roles, ChildExits(r) PROVE ZeroMeansClean'
  BY <1>19 DEF ChildExits, procVars, logVars
<1>20. ASSUME NEW r \in Roles, LoseChild(r) PROVE ZeroMeansClean'
  BY <1>20 DEF LoseChild, procVars, logVars
<1>21. ASSUME NEW r \in Roles, ChildWrites(r) PROVE ZeroMeansClean'
  BY <1>21 DEF ChildWrites, procVars, logVars
<1>22. CASE UNCHANGED vars \/ Tick \/ TakeLine
  BY <1>22 DEF vars, Tick, TakeLine, procVars, logVars
<1> QED
  BY <1>1, <1>2, <1>3, <1>4, <1>5, <1>6, <1>7, <1>8, <1>9, <1>10, <1>11, <1>12, <1>13, <1>14,
     <1>15, <1>16, <1>17, <1>18, <1>19, <1>20, <1>21, <1>22 DEF Next, Main, Reader

-----------------------------------------------------------------------------
(* The theorems *)

\* The invariant holds in every reachable state.
LEMMA SupInvariance == Spec => []SupInv
<1>1. Init => SupInv
  <2> SUFFICES ASSUME Init PROVE SupInv
    OBVIOUS
  <2>1. todo = Order /\ Order \in Seq(Roles) /\ Left = Roles
    <3>1. todo = Order /\ Order = <<"collector", "backend", "caddy">>
      BY DEF Init, Order
    <3>2. Order \in Seq(Roles)
      BY <3>1 DEF Roles
    <3>3. Len(todo) = 3 /\ 1 .. 3 = {1, 2, 3}
      BY <3>1
    <3>4. Left = {todo[1], todo[2], todo[3]}
      BY <3>3 DEF Left
    <3> QED BY <3>1, <3>2, <3>4 DEF Roles
  <2>2. SupTypeOK
    BY <2>1 DEF Init, SupTypeOK, ControlType, ProcType, LineType, Starting
  <2>3. PipesOK /\ StartOK /\ StopOK /\ CollectorOK
    BY <2>1 DEF Init, PipesOK, StartOK, StopOK, CollectorOK, Starting, Services, Roles
  <2>4. LinesAccounted
    <3>1. LinesSum
      BY DEF Init, LinesSum, Roles
    <3> QED BY <3>1, LinesShape
  <2> QED
    BY <2>2, <2>3, <2>4 DEF Init, SupInv, NoForeignSignal, NoLostWakeup, ZeroMeansClean
<1>2. SupInv /\ [Next]_vars => SupInv'
  <2> SUFFICES ASSUME SupInv, [Next]_vars PROVE SupInv'
    OBVIOUS
  <2> QED
    BY ControlStep, ProcStep, LineStep, PipesStep, StartStep, StopStep, CollectorStep,
       AccountStep, ForeignStep, WakeupStep, ZeroStep DEF SupInv, SupTypeOK
<1> QED
  BY <1>1, <1>2, PTL DEF Spec

\* The collector is asked to stop only once both services are reaped and their readers
\* are done, unless the shutdown has been found late: the order stop, drain, recheck of
\* run(), for every child that may leak its pipe or be reaped by somebody else.
THEOREM CollectorIsLast == Spec => []CollectorOutlivesServices
<1>1. SupInv => CollectorOutlivesServices
  BY DEF SupInv, StopOK, CollectorOK, CollectorOutlivesServices, Reaped, Silent
<1> QED
  BY <1>1, SupInvariance, PTL

\* signal() and kill_and_reap never signal a process group that is no longer this
\* process's own.
THEOREM SignalsStayHome == Spec => []NoForeignSignal
<1>1. SupInv => NoForeignSignal
  BY DEF SupInv
<1> QED
  BY <1>1, SupInvariance, PTL

\* The counters of the log path account for every line whatever the capacity of the
\* queue and the number of lines, so that stderr_pending_lines never wraps.
THEOREM EveryLineIsCounted == Spec => []LinesAccounted
<1>1. SupInv => LinesAccounted
  BY DEF SupInv
<1> QED
  BY <1>1, SupInvariance, PTL

\* Report::exit_code is 0 only after a planned shutdown in which everything was reaped,
\* the collector did not leave early and no line was left behind.
THEOREM ZeroIsEarned == Spec => []ZeroMeansClean
<1>1. SupInv => ZeroMeansClean
  BY DEF SupInv
<1> QED
  BY <1>1, SupInvariance, PTL

\* Neither stop() nor the run loop sleeps through the last exit it waits for.
THEOREM WakeupsAreKept == Spec => []NoLostWakeup
<1>1. SupInv => NoLostWakeup
  BY DEF SupInv
<1> QED
  BY <1>1, SupInvariance, PTL
=============================================================================
