------------------------- MODULE ChainReaderProofs --------------------------
(***************************************************************************)
(* The gate, the admission, the slots and the response cache keep their    *)
(* limits for every number of jobs, slots, entries and samples.            *)
(***************************************************************************)
EXTENDS ChainReader, FiniteSetTheorems, TLAPS

Waits == {"bb", "bj", "rb", "rj", "cb", "cc"}
Places == {"idle", "half", "bb", "bj", "next", "join", "use", "drop", "drop2"} \cup Loading

\* Jobs that count in State.active, and in State.backfill_active: a backfill job counts
\* as backfill before it counts globally, and after it as well.
Counted == {j \in Live \cup Backfill : at[j] \notin {"idle", "half", "drop2"}}
BackCounted == {j \in Backfill : at[j] # "idle"}

\* Only a job of the backfill lane stands between its two counts, and a registry pass
\* never holds a permit.
PlacesOK ==
    /\ at \in [Jobs -> Places]
    /\ \A j \in Jobs : at[j] \in {"half", "bb", "drop2"} => j \in Backfill
    /\ \A j \in Scans : at[j] \notin {"bj", "drop"}

\* The counters are what the places of the jobs say, between every two steps.
AdmissionInv ==
    /\ PlacesOK
    /\ active = Cardinality(Counted)
    /\ backActive = Cardinality(BackCounted)
    /\ backActive <= Total - Reserved
    /\ LiveKeepsPermits

\* The backfill jobs and the responses that hold a part of each sub-budget.
BlockHolders == {j \in Jobs \ (Live \cup Scans) : at[j] \in {"bj"} \cup InBlock}
ResponseHolders ==
    {j \in Jobs \ Live : at[j] \in {"rj", "cb", "cc", "sent"} /\ hold[j] # NoCell}
CallHolders == {j \in Jobs \ Live : at[j] \in {"cc", "sent"}}
LargeBackfill == {c \in Cells : cell[c].big /\ cell[c].class = "backfill"}

CellRecord == [state : {"free", "empty", "ready"}, big : BOOLEAN,
               class : {"backfill", "live", NoCell}]

\* A job holds a cell only inside shared(), and the backfill sub-budgets are kept.
SlotInv ==
    /\ hold = [j \in Jobs |-> hold[j]] /\ cell \in [Cells -> CellRecord]
    /\ \A j \in Jobs : hold[j] # NoCell => at[j] \in {"join"} \cup Loading
    /\ Cardinality(BlockHolders) <= Sub
    /\ Cardinality(ResponseHolders) + Cardinality(LargeBackfill) <= Sub
    /\ Cardinality(CallHolders) <= Sub

CacheInv ==
    /\ map = [k \in Keys |-> map[k]] /\ weak = [k \in Keys |-> weak[k]]
    /\ EntriesBounded

GateInv == runs = streak /\ runs \in 0 .. Hysteresis

-----------------------------------------------------------------------------
(* Places *)

\* The order of the slots of a load.
LEMMA PosValues ==
    /\ Pos("rb") = 1 /\ Pos("rj") = 2 /\ Pos("cb") = 3 /\ Pos("cc") = 4 /\ Pos("sent") = 5
  <1>1. \A i \in 1 .. 5 : i = 1 \/ i = 2 \/ i = 3 \/ i = 4 \/ i = 5
    OBVIOUS
  <1>2. /\ CallOrder[1] = "rb" /\ CallOrder[2] = "rj" /\ CallOrder[3] = "cb"
        /\ CallOrder[4] = "cc" /\ CallOrder[5] = "sent"
    BY DEF CallOrder
  <1>3. \A p \in Loading : \A i \in 1 .. 5 : CallOrder[i] = p =>
             Pos(p) \in 1 .. 5 /\ CallOrder[Pos(p)] = p
    BY DEF Pos
  <1> QED BY <1>1, <1>2, <1>3 DEF Loading

\* What a load waits for after it has a slot: backfill passes through every slot, live
\* work leaves out the sub-budgets.
LEMMA NextSlotValues ==
    ASSUME NEW j
    PROVE  /\ NextSlot(j, "rb") = "rj"
           /\ NextSlot(j, "rj") = IF IsBackfill(j) THEN "cb" ELSE "cc"
           /\ NextSlot(j, "cb") = "cc"
           /\ NextSlot(j, "cc") = "sent"
  <1> DEFINE Is(p, i) == /\ i \in Pos(p) + 1 .. 5 /\ Needs(j, CallOrder[i])
                         /\ \A n \in Pos(p) + 1 .. i - 1 : ~Needs(j, CallOrder[n])
  <1>1. /\ CallOrder[1] = "rb" /\ CallOrder[2] = "rj" /\ CallOrder[3] = "cb"
        /\ CallOrder[4] = "cc" /\ CallOrder[5] = "sent"
    BY DEF CallOrder
  <1>2. /\ Needs(j, CallOrder[2]) /\ (Needs(j, CallOrder[3]) <=> IsBackfill(j))
        /\ Needs(j, CallOrder[4]) /\ Needs(j, CallOrder[5])
    BY <1>1 DEF Needs, SubSlots
  <1>3. \A i : (Is("rb", i) <=> i = 2) /\ (Is("cb", i) <=> i = 4) /\ (Is("cc", i) <=> i = 5)
    BY <1>2, PosValues
  <1>4. \A i : Is("rj", i) <=> i = IF IsBackfill(j) THEN 3 ELSE 4
    BY <1>2, PosValues
  <1>5. ASSUME NEW p, NEW i, \A n : Is(p, n) <=> n = i PROVE NextSlot(j, p) = CallOrder[i]
    <2> DEFINE Fits(n) == /\ Needs(j, CallOrder[n])
                          /\ \A m \in Pos(p) + 1 .. n - 1 : ~Needs(j, CallOrder[m])
               chosen == CHOOSE n \in Pos(p) + 1 .. 5 : Fits(n)
    <2>1. \E n \in Pos(p) + 1 .. 5 : Fits(n)
      BY <1>5
    <2>2. chosen \in Pos(p) + 1 .. 5 /\ Fits(chosen)
      <3> HIDE DEF Fits
      <3> QED BY <2>1
    <2>3. chosen = i
      <3>1. Is(p, chosen)
        BY <2>2
      <3> HIDE DEF chosen, Is
      <3> QED BY <1>5, <3>1
    <2>4. NextSlot(j, p) = CallOrder[chosen]
      BY DEF NextSlot
    <2> QED BY <2>3, <2>4
  <1> HIDE DEF Is
  <1>6. \A p, i : (\A n : Is(p, n) <=> n = i) => NextSlot(j, p) = CallOrder[i]
    BY <1>5
  <1> QED BY <1>1, <1>3, <1>4, <1>6

\* A job that is neither claiming nor giving back its permit moves from place to place
\* without a change of the counters.
LEMMA QuietMove ==
    ASSUME AdmissionInv, NEW j \in Jobs, NEW p \in Places \ {"half", "bb", "drop2"},
           at' = [at EXCEPT ![j] = p],
           j \in Scans => p \notin {"bj", "drop"},
           j \notin Scans => at[j] \notin {"idle", "half", "drop2"} /\ p # "idle",
           UNCHANGED <<active, backActive, refused>>
    PROVE  AdmissionInv'
  <1> USE DEF AdmissionInv, PlacesOK
  <1>1. PlacesOK'
    OBVIOUS
  <1>2. Counted' = Counted
    BY ReaderAssumption DEF Counted, Jobs
  <1>3. BackCounted' = BackCounted
    BY ReaderAssumption DEF BackCounted, Jobs
  <1> QED BY <1>1, <1>2, <1>3 DEF LiveKeepsPermits

\* The steps of a job between its permit and the end of its work.
ReadStep(j) ==
    \/ Acquire(j) \/ Lookup(j) \/ Request(j) \/ Join(j) \/ Done(j) \/ Reply(j) \/ Cancel(j)
    \/ StartScan(j)

\* They move the job from one working place to another, or to the place where it ends,
\* and touch neither the counters of the admission nor the gate.
LEMMA ReadStepMoves ==
    ASSUME PlacesOK, NEW j \in Jobs, ReadStep(j)
    PROVE  /\ \E p \in Places \ {"half", "bb", "drop2"} :
                /\ at' = [at EXCEPT ![j] = p]
                /\ j \in Scans => p \notin {"bj", "drop"}
                /\ j \notin Scans => at[j] \notin {"idle", "half", "drop2"} /\ p # "idle"
           /\ UNCHANGED <<active, backActive, refused, runs, streak>>
  <1> USE DEF PlacesOK, Goes
  <1>1. CASE Acquire(j)
    <2>1. CASE at[j] = "bb"
      <3>1. at' = [at EXCEPT ![j] = "bj"]
        BY <1>1, <2>1 DEF Acquire
      <3> QED BY <1>1, <2>1, <3>1, ReaderAssumption DEF Acquire, Places
    <2>2. CASE at[j] = "bj"
      <3>1. at' = [at EXCEPT ![j] = "next"]
        BY <1>1, <2>2 DEF Acquire
      <3> QED BY <1>1, <2>2, <3>1 DEF Acquire, Places
    <2>3. CASE at[j] \in {"rb", "rj", "cb", "cc"}
      <3>1. NextSlot(j, at[j]) \in Loading
        BY <2>3, NextSlotValues DEF Loading
      <3>2. at' = [at EXCEPT ![j] = NextSlot(j, at[j])]
        BY <1>1, <2>3 DEF Acquire
      <3> QED BY <1>1, <2>3, <3>1, <3>2 DEF Acquire, Places, Loading
    <2> QED BY <1>1, <2>1, <2>2, <2>3 DEF Acquire
  <1>2. CASE Lookup(j)
    <2>1. \E p \in {"use", "join", EndPlace(j)} : at' = [at EXCEPT ![j] = p]
      BY <1>2 DEF Lookup
    <2> QED BY <1>2, <2>1 DEF Lookup, Places, EndPlace
  <1>3. CASE Request(j)
    <2>1. NextSlot(j, "rj") \in Loading
      BY NextSlotValues DEF Loading
    <2> QED BY <1>3, <2>1 DEF Request, Places, Loading
  <1>4. CASE Join(j)
    <2>1. \E p \in {"use", "rb", "rj"} : at' = [at EXCEPT ![j] = p]
      BY <1>4 DEF Join
    <2> QED BY <1>4, <2>1 DEF Join, Places, Loading
  <1>5. CASE Done(j)
    <2>1. \E p \in {"next", EndPlace(j)} : at' = [at EXCEPT ![j] = p]
      BY <1>5 DEF Done
    <2> QED BY <1>5, <2>1 DEF Done, Places, EndPlace
  <1>6. CASE Reply(j) \/ Cancel(j)
    <2>1. \E p \in {"use", EndPlace(j)} : at' = [at EXCEPT ![j] = p]
      BY <1>6 DEF Reply, ReplyDirect, ReplySmall, ReplyLarge, ReplyError, Cancel, Abandon
    <2>2. UNCHANGED <<active, backActive, refused, runs, streak>>
      BY <1>6 DEF Reply, ReplyDirect, ReplySmall, ReplyLarge, ReplyError, Cancel
    <2>3. at[j] \in {"join", "use"} \cup Loading
      BY <1>6 DEF Reply, ReplyDirect, ReplySmall, ReplyLarge, ReplyError, Cancel, Loading
    <2> QED BY <2>1, <2>2, <2>3 DEF Places, EndPlace, Loading
  <1>7. CASE StartScan(j)
    BY <1>7 DEF StartScan, Places
  <1> QED BY <1>1, <1>2, <1>3, <1>4, <1>5, <1>6, <1>7 DEF ReadStep
-----------------------------------------------------------------------------
(* Admission *)

\* The counted jobs are finitely many; one more and one less.
LEMMA CountedFinite ==
    /\ IsFiniteSet(Counted) /\ Cardinality(Counted) \in Nat
    /\ IsFiniteSet(BackCounted) /\ Cardinality(BackCounted) \in Nat
  <1>1. Counted \subseteq Jobs /\ BackCounted \subseteq Jobs
    BY DEF Counted, BackCounted, Jobs
  <1> QED BY <1>1, ReaderAssumption, FS_Subset, FS_CardinalityType

LEMMA ReadStepAdmission ==
    ASSUME AdmissionInv, NEW j \in Jobs, ReadStep(j)
    PROVE  AdmissionInv'
  <1>1. PICK p \in Places \ {"half", "bb", "drop2"} :
            /\ at' = [at EXCEPT ![j] = p]
            /\ j \in Scans => p \notin {"bj", "drop"}
            /\ j \notin Scans => at[j] \notin {"idle", "half", "drop2"} /\ p # "idle"
    BY ReadStepMoves DEF AdmissionInv
  <1>2. UNCHANGED <<active, backActive, refused>>
    BY ReadStepMoves DEF AdmissionInv
  <1> QED BY <1>1, <1>2, QuietMove

\* A round counts its block as backfill only below the share of backfill.
LEMMA RoundAdmission ==
    ASSUME AdmissionInv, NEW j \in Jobs, Round(j)
    PROVE  AdmissionInv'
  <1> USE DEF AdmissionInv, PlacesOK
  <1>1. CASE UNCHANGED <<at, backActive>>
    <2>1. UNCHANGED <<active, refused>>
      BY DEF Round
    <2> QED BY <1>1, <2>1 DEF Counted, BackCounted, LiveKeepsPermits
  <1>2. CASE backActive < Total - Reserved /\ Goes(j, "half") /\ backActive' = backActive + 1
    <2>1. j \in Backfill /\ at[j] = "idle" /\ UNCHANGED <<active, refused>>
      BY DEF Round
    <2>2. at' = [at EXCEPT ![j] = "half"]
      BY <1>2 DEF Goes
    <2>3. PlacesOK'
      BY <2>1, <2>2, ReaderAssumption DEF Places
    <2>4. Counted' = Counted
      BY <2>1, <2>2 DEF Counted, Jobs
    <2>5. BackCounted' = BackCounted \cup {j} /\ j \notin BackCounted
      BY <2>1, <2>2 DEF BackCounted, Jobs
    <2>6. Cardinality(BackCounted') = Cardinality(BackCounted) + 1
      BY <2>5, CountedFinite, FS_AddElement
    <2>7. backActive' <= Total - Reserved
      BY <1>2, CountedFinite, ReaderAssumption
    <2> QED BY <1>2, <2>1, <2>3, <2>4, <2>6, <2>7 DEF LiveKeepsPermits
  <1> QED BY <1>1, <1>2 DEF Round

\* The second claim takes a global slot or gives the backfill count back.
LEMMA ClaimAdmission ==
    ASSUME AdmissionInv, NEW j \in Jobs, Claim(j)
    PROVE  AdmissionInv'
  <1> USE DEF AdmissionInv, PlacesOK
  <1>1. at[j] = "half" /\ j \in Backfill /\ refused' = refused
    BY DEF Claim
  <1>2. CASE active < Total
    <2>1. active' = active + 1 /\ backActive' = backActive /\ at' = [at EXCEPT ![j] = "bb"]
      BY <1>2 DEF Claim, Goes
    <2>2. PlacesOK'
      BY <1>1, <2>1, ReaderAssumption DEF Places
    <2>3. Counted' = Counted \cup {j} /\ j \notin Counted
      BY <1>1, <2>1 DEF Counted, Jobs
    <2>4. BackCounted' = BackCounted
      BY <1>1, <2>1 DEF BackCounted, Jobs
    <2>5. Cardinality(Counted') = Cardinality(Counted) + 1
      BY <2>3, CountedFinite, FS_AddElement
    <2> QED BY <1>1, <2>1, <2>2, <2>4, <2>5 DEF LiveKeepsPermits
  <1>3. CASE ~(active < Total)
    <2>1. active' = active /\ backActive' = backActive - 1 /\ at' = [at EXCEPT ![j] = "idle"]
      BY <1>3 DEF Claim, Goes
    <2>2. PlacesOK'
      BY <1>1, <2>1 DEF Places
    <2>3. Counted' = Counted
      BY <1>1, <2>1 DEF Counted, Jobs
    <2>4. BackCounted' = BackCounted \ {j} /\ j \in BackCounted
      BY <1>1, <2>1 DEF BackCounted, Jobs
    <2>5. Cardinality(BackCounted') = Cardinality(BackCounted) - 1
      BY <2>4, CountedFinite, FS_RemoveElement
    <2>6. backActive' <= Total - Reserved
      BY <2>1, CountedFinite, ReaderAssumption
    <2> QED BY <1>1, <2>1, <2>2, <2>3, <2>5, <2>6 DEF LiveKeepsPermits
  <1> QED BY <1>2, <1>3

\* When all slots are taken, backfill has at most its share of them: the rest are live.
LEMMA FullMeansLive ==
    ASSUME AdmissionInv, ~(active < Total)
    PROVE  LiveAdmitted >= Reserved
  <1> USE DEF AdmissionInv, PlacesOK
  <1> DEFINE admitted == {j \in Live : at[j] # "idle"}
  <1>1. Counted \subseteq admitted \cup BackCounted
    BY DEF Counted, BackCounted
  <1>2. admitted \subseteq Jobs
    BY DEF Jobs
  <1>3. IsFiniteSet(admitted) /\ Cardinality(admitted) \in Nat
    BY <1>2, ReaderAssumption, FS_Subset, FS_CardinalityType
  <1>4. Cardinality(admitted \cap BackCounted) \in Nat
    BY <1>3, FS_Subset, FS_CardinalityType
  <1>5. /\ IsFiniteSet(admitted \cup BackCounted)
        /\ Cardinality(admitted \cup BackCounted)
             = Cardinality(admitted) + Cardinality(BackCounted)
                 - Cardinality(admitted \cap BackCounted)
    BY <1>3, CountedFinite, FS_Union
  <1>6. Cardinality(Counted) <= Cardinality(admitted \cup BackCounted)
    BY <1>1, <1>5, FS_Subset
  <1>7. Cardinality(admitted) >= Reserved
    BY <1>3, <1>4, <1>5, <1>6, CountedFinite, ReaderAssumption
  <1> QED BY <1>7 DEF LiveAdmitted

LEMMA StartLiveAdmission ==
    ASSUME AdmissionInv, NEW j \in Jobs, StartLive(j)
    PROVE  AdmissionInv'
  <1> USE DEF AdmissionInv, PlacesOK
  <1>1. j \in Live /\ at[j] = "idle" /\ backActive' = backActive
    BY DEF StartLive
  <1>2. CASE active < Total
    <2>1. active' = active + 1 /\ refused' = refused /\ at' = [at EXCEPT ![j] = "bj"]
      BY <1>2 DEF StartLive, Goes
    <2>2. PlacesOK'
      BY <1>1, <2>1, ReaderAssumption DEF Places
    <2>3. Counted' = Counted \cup {j} /\ j \notin Counted
      BY <1>1, <2>1 DEF Counted, Jobs
    <2>4. BackCounted' = BackCounted
      BY <1>1, <2>1, ReaderAssumption DEF BackCounted, Jobs
    <2>5. Cardinality(Counted') = Cardinality(Counted) + 1
      BY <2>3, CountedFinite, FS_AddElement
    <2> QED BY <1>1, <2>1, <2>2, <2>4, <2>5 DEF LiveKeepsPermits
  <1>3. CASE ~(active < Total)
    <2>1. UNCHANGED <<active, at>> /\ refused' = (refused \/ LiveAdmitted < Reserved)
      BY <1>3 DEF StartLive
    <2>2. LiveAdmitted \in Nat
      <3>1. {i \in Live : at[i] # "idle"} \subseteq Jobs
        BY DEF Jobs
      <3> QED BY <3>1, ReaderAssumption, FS_Subset, FS_CardinalityType DEF LiveAdmitted
    <2>3. ~(LiveAdmitted < Reserved)
      BY <1>3, <2>2, FullMeansLive, ReaderAssumption
    <2>4. LiveKeepsPermits'
      BY <2>1, <2>3 DEF LiveKeepsPermits
    <2> QED BY <1>1, <2>1, <2>4 DEF Counted, BackCounted
  <1> QED BY <1>2, <1>3

\* The permit gives back the global count first, so that a job never counts globally
\* without counting as backfill.
LEMMA LeaveAdmission ==
    ASSUME AdmissionInv, NEW j \in Jobs, Leave(j)
    PROVE  AdmissionInv'
  <1> USE DEF AdmissionInv, PlacesOK
  <1>0. refused' = refused
    BY DEF Leave
  <1>1. CASE at[j] = "drop" /\ j \notin Scans
    <2>1. PICK p \in {"idle", "drop2"} : p = IF j \in Live THEN "idle" ELSE "drop2"
      OBVIOUS
    <2>2. /\ active' = active - 1 /\ backActive' = backActive
          /\ at' = [at EXCEPT ![j] = p]
      BY <1>1, <2>1 DEF Leave, DropPermit, Goes
    <2>3. PlacesOK'
      BY <1>1, <2>1, <2>2 DEF Places, Jobs
    <2>4. Counted' = Counted \ {j} /\ j \in Counted
      BY <1>1, <2>1, <2>2 DEF Counted, Jobs
    <2>5. BackCounted' = BackCounted
      BY <1>1, <2>1, <2>2, ReaderAssumption DEF BackCounted, Jobs
    <2>6. Cardinality(Counted') = Cardinality(Counted) - 1
      BY <2>4, CountedFinite, FS_RemoveElement
    <2> QED BY <1>0, <2>2, <2>3, <2>5, <2>6 DEF LiveKeepsPermits
  <1>2. CASE at[j] = "drop2"
    <2>1. /\ backActive' = backActive - 1 /\ active' = active
          /\ at' = [at EXCEPT ![j] = "idle"] /\ j \in Backfill
      BY <1>2 DEF Leave, DropPermit, Goes
    <2>2. PlacesOK'
      BY <2>1 DEF Places
    <2>3. Counted' = Counted
      BY <1>2, <2>1 DEF Counted, Jobs
    <2>4. BackCounted' = BackCounted \ {j} /\ j \in BackCounted
      BY <1>2, <2>1 DEF BackCounted, Jobs
    <2>5. Cardinality(BackCounted') = Cardinality(BackCounted) - 1
      BY <2>4, CountedFinite, FS_RemoveElement
    <2>6. backActive' <= Total - Reserved
      BY <2>1, CountedFinite, ReaderAssumption
    <2> QED BY <1>0, <2>1, <2>2, <2>3, <2>5, <2>6 DEF LiveKeepsPermits
  <1> QED BY <1>1, <1>2 DEF Leave, DropPermit

\* The steps of Next: the work of a job, and the steps of the admission.
LEMMA StepsOfNext ==
    ASSUME Next
    PROVE  \E j \in Jobs : ReadStep(j) \/ Round(j) \/ Claim(j) \/ StartLive(j) \/ Leave(j)
  BY DEF Next, Step, ReadStep

LEMMA AdmissionInvariance == Spec => []AdmissionInv
  <1>1. Init => AdmissionInv
    <2> SUFFICES ASSUME Init PROVE AdmissionInv
      OBVIOUS
    <2>1. PlacesOK
      BY DEF Init, PlacesOK, Places, Jobs
    <2>2. Counted = {} /\ BackCounted = {}
      BY DEF Init, Counted, BackCounted, Jobs
    <2> QED BY <2>1, <2>2, FS_EmptySet, ReaderAssumption DEF Init, AdmissionInv, LiveKeepsPermits
  <1>2. AdmissionInv /\ [Next]_vars => AdmissionInv'
    <2> SUFFICES ASSUME AdmissionInv, [Next]_vars PROVE AdmissionInv'
      OBVIOUS
    <2>1. CASE Next
      BY <2>1, StepsOfNext, ReadStepAdmission, RoundAdmission, ClaimAdmission,
         StartLiveAdmission, LeaveAdmission
    <2>2. CASE UNCHANGED vars
      BY <2>2 DEF vars, AdmissionInv, PlacesOK, Counted, BackCounted, LiveKeepsPermits
    <2> QED BY <2>1, <2>2
  <1> QED BY <1>1, <1>2, PTL DEF Spec

\* Live work finds a place whenever the live jobs do not fill their reserve themselves
\* (admission.rs), however the two counts of the backfill permits interleave.
THEOREM LiveIsNeverRefused == Spec => []LiveKeepsPermits
  <1>1. AdmissionInv => LiveKeepsPermits
    BY DEF AdmissionInv
  <1> QED BY <1>1, AdmissionInvariance, PTL
-----------------------------------------------------------------------------
(* The gate *)

LEMMA GateInvariance == Spec => []GateInv
  <1>1. Init => GateInv
    BY ReaderAssumption DEF Init, GateInv
  <1>2. AdmissionInv /\ GateInv /\ [Next]_vars => GateInv'
    <2> SUFFICES ASSUME AdmissionInv, GateInv, [Next]_vars PROVE GateInv'
      OBVIOUS
    <2>1. ASSUME NEW j \in Jobs, Round(j) PROVE GateInv'
      <3>1. Hysteresis \in Nat /\ runs = streak /\ runs \in 0 .. Hysteresis
        BY ReaderAssumption DEF GateInv
      <3>2. \/ UNCHANGED <<runs, streak>>
            \/ runs' = Runs("bad") /\ streak' = 0
            \/ runs' = Runs("good") /\ streak' = IF streak < Hysteresis THEN streak + 1
                                                 ELSE streak
        BY <2>1 DEF Round
      <3> QED BY <3>1, <3>2 DEF Runs, GateInv
    <2>2. ASSUME NEW j \in Jobs, ReadStep(j) \/ Claim(j) \/ StartLive(j) \/ Leave(j)
          PROVE  GateInv'
      <3>1. UNCHANGED <<runs, streak>>
        BY <2>2, ReadStepMoves DEF AdmissionInv, Claim, StartLive, Leave
      <3> QED BY <3>1 DEF GateInv
    <2>3. CASE UNCHANGED vars
      BY <2>3 DEF vars, GateInv
    <2> QED BY <2>1, <2>2, <2>3, StepsOfNext
  <1> QED BY <1>1, <1>2, AdmissionInvariance, PTL DEF Spec

\* The gate opens for backfill only after Hysteresis good samples in a row
\* (RESUME_HYSTERESIS of sync_gate.rs), whatever the jobs do between the samples.
THEOREM GateIsDebounced == Spec => GateDebounced
  <1> DEFINE Debounced == \A j \in Backfill : at[j] = "idle" /\ at'[j] = "half" =>
                              streak' = Hysteresis
  <1>1. AdmissionInv /\ GateInv /\ GateInv' /\ [Next]_vars => [Debounced]_vars
    <2> SUFFICES ASSUME AdmissionInv, GateInv, GateInv', Next,
                        NEW j \in Backfill, at[j] = "idle", at'[j] = "half"
                 PROVE  streak' = Hysteresis
      OBVIOUS
    <2> USE DEF AdmissionInv, PlacesOK
    <2>1. PICK i \in Jobs : ReadStep(i) \/ Round(i) \/ Claim(i) \/ StartLive(i) \/ Leave(i)
      BY StepsOfNext
    <2>2. CASE ReadStep(i)
      BY <2>2, ReadStepMoves DEF Jobs
    <2>3. CASE Round(i)
      <3>1. runs' >= Hysteresis
        BY <2>3 DEF Round, Goes
      <3> QED BY <3>1, ReaderAssumption DEF GateInv
    <2>4. CASE Claim(i) \/ StartLive(i) \/ Leave(i)
      <3>1. \E p \in {"bb", "idle", "bj", "drop2"} : at' = at \/ at' = [at EXCEPT ![i] = p]
        BY <2>4 DEF Claim, StartLive, Leave, DropPermit, Goes
      <3> QED BY <3>1 DEF Jobs
    <2> QED BY <2>1, <2>2, <2>3, <2>4
  <1> QED BY <1>1, AdmissionInvariance, GateInvariance, PTL DEF Spec, GateDebounced

-----------------------------------------------------------------------------
(* The response cache *)

\* What is left of the cells and of the weak entries when nobody refers to them is gone.
LEMMA CollectFacts ==
    ASSUME NEW newCell, NEW newWeak, Collect(newCell, newWeak)
    PROVE  /\ cell' = [c \in Cells |-> cell'[c]] /\ weak' = [k \in Keys |-> weak'[k]]
           /\ \A c \in Cells : cell'[c] \in {newCell[c], Absent}
           /\ \A k \in Keys : weak'[k] \in {newWeak[k], NoCell}
  BY DEF Collect

LEMMA EntriesFinite ==
    /\ IsFiniteSet(Entries) /\ Cardinality(Entries) \in Nat
    /\ IsFiniteSet(Uncached) /\ Cardinality(Uncached) \in Nat
  <1>1. Entries \subseteq Keys /\ Uncached \subseteq Keys
    BY DEF Entries, Uncached
  <1> QED BY <1>1, ReaderAssumption, FS_Subset, FS_CardinalityType

\* A step that only takes keys out of the cache.
LEMMA CacheShrinks ==
    ASSUME CacheInv, map' = [k \in Keys |-> map'[k]], weak' = [k \in Keys |-> weak'[k]],
           Entries' \subseteq Entries, Uncached' \subseteq Uncached
    PROVE  CacheInv'
  <1>1. /\ Cardinality(Entries') <= Cardinality(Entries) /\ Cardinality(Entries') \in Nat
        /\ Cardinality(Uncached') <= Cardinality(Uncached) /\ Cardinality(Uncached') \in Nat
    BY EntriesFinite, FS_Subset, FS_CardinalityType
  <1>2. EntriesBounded'
    BY <1>1, EntriesFinite, ReaderAssumption DEF CacheInv, EntriesBounded
  <1> QED BY <1>2 DEF CacheInv

\* A job that gives up takes at most its own key out of the cache.
LEMMA AbandonCache ==
    ASSUME CacheInv, NEW j \in Jobs, NEW failed \in BOOLEAN, Abandon(j, failed)
    PROVE  CacheInv'
  <1>1. /\ map = [k \in Keys |-> map[k]]
        /\ map' = [k \in Keys |-> map'[k]] /\ \A k \in Keys : map'[k] \in {map[k], NoCell}
    <2> PICK k : k = Head(left[j])
      OBVIOUS
    <2> QED BY DEF Abandon, CacheInv
  <1>2. weak' = [k \in Keys |-> weak'[k]] /\ \A k \in Keys : weak'[k] \in {weak[k], NoCell}
    BY CollectFacts DEF Abandon
  <1>3. Entries' \subseteq Entries /\ Uncached' \subseteq Uncached
    BY <1>1, <1>2 DEF Entries, Uncached
  <1> QED BY <1>1, <1>2, <1>3, CacheShrinks

\* A new entry takes a free place or the place of an idle one.
LEMMA LookupCache ==
    ASSUME CacheInv, NEW j \in Jobs, Lookup(j)
    PROVE  CacheInv'
  <1>1. CASE UNCHANGED <<map, weak>>
    BY <1>1 DEF CacheInv, EntriesBounded, Entries, Uncached
  <1>2. CASE ~UNCHANGED <<map, weak>>
    <2> DEFINE k == Head(left[j])
    <2>1. k \in Keys /\ k \notin Uncached /\ map[k] = NoCell
      BY <1>2 DEF Lookup
    <2>2. PICK c : \E gone \in IF Room THEN {{}} ELSE {{e} : e \in Evictable} :
                     /\ map' = [e \in Keys |-> IF e = k THEN c
                                               ELSE IF e \in gone THEN NoCell ELSE map[e]]
                     /\ Collect([cell EXCEPT ![c].state = "empty"], weak)
      <3>1. PICK c \in {CHOOSE new \in Cells : cell[new] = Absent} :
              /\ \E gone \in IF Room THEN {{}} ELSE {{e} : e \in Evictable} :
                   map' = [e \in Keys |-> IF e = k THEN c
                                          ELSE IF e \in gone THEN NoCell ELSE map[e]]
              /\ Collect([cell EXCEPT ![c].state = "empty"], weak)
        BY <1>2, <2>1 DEF Lookup
      <3> QED BY <3>1
    <2> HIDE DEF k
    <2>3. PICK gone \in IF Room THEN {{}} ELSE {{e} : e \in Evictable} :
            map' = [e \in Keys |-> IF e = k THEN c ELSE IF e \in gone THEN NoCell ELSE map[e]]
      BY <2>2
    <2>4. weak' = [e \in Keys |-> weak'[e]] /\ \A e \in Keys : weak'[e] \in {weak[e], NoCell}
      BY <2>2, CollectFacts
    <2>5. Uncached' \subseteq Uncached
      BY <2>4 DEF Uncached
    <2>6. Cardinality(Uncached') <= Cardinality(Uncached) /\ Cardinality(Uncached') \in Nat
      BY <2>5, EntriesFinite, FS_Subset, FS_CardinalityType
    <2>7. k \notin Entries
      BY <2>1 DEF Entries
    <2>8. CASE Room
      <3>1. Entries' \subseteq Entries \cup {k}
        BY <2>3, <2>8 DEF Entries
      <3>2. /\ IsFiniteSet(Entries \cup {k})
            /\ Cardinality(Entries \cup {k}) = Cardinality(Entries) + 1
        BY <2>7, EntriesFinite, FS_AddElement
      <3>3. Cardinality(Entries') <= Cardinality(Entries) + 1 /\ Cardinality(Entries') \in Nat
        BY <3>1, <3>2, FS_Subset, FS_CardinalityType
      <3>4. EntriesBounded'
        BY <2>6, <2>8, <3>3, EntriesFinite, ReaderAssumption DEF EntriesBounded, Room
      <3> QED BY <2>3, <2>4, <3>4 DEF CacheInv
    <2>9. CASE ~Room
      <3>1. PICK e \in Evictable : gone = {e}
        BY <2>3, <2>9
      <3>2. e \in Entries
        BY DEF Evictable
      <3>3. Entries' \subseteq (Entries \ {e}) \cup {k}
        BY <2>3, <3>1 DEF Entries
      <3>4. /\ IsFiniteSet(Entries \ {e})
            /\ Cardinality(Entries \ {e}) = Cardinality(Entries) - 1
        BY <3>2, EntriesFinite, FS_RemoveElement
      <3>5. /\ IsFiniteSet((Entries \ {e}) \cup {k})
            /\ Cardinality((Entries \ {e}) \cup {k}) = Cardinality(Entries)
        <4>1. k \notin Entries \ {e}
          BY <2>7
        <4>2. Cardinality((Entries \ {e}) \cup {k}) = Cardinality(Entries \ {e}) + 1
          BY <3>4, <4>1, FS_AddElement
        <4>3. IsFiniteSet((Entries \ {e}) \cup {k})
          BY <3>4, FS_AddElement
        <4> QED BY <3>4, <4>2, <4>3, EntriesFinite
      <3>6. Cardinality(Entries') <= Cardinality(Entries) /\ Cardinality(Entries') \in Nat
        BY <3>3, <3>5, FS_Subset, FS_CardinalityType
      <3>7. EntriesBounded'
        BY <2>6, <3>6, EntriesFinite, ReaderAssumption DEF EntriesBounded, CacheInv
      <3> QED BY <2>3, <2>4, <3>7 DEF CacheInv
    <2> QED BY <2>8, <2>9
  <1> QED BY <1>1, <1>2

\* A large response takes its key from the cache to the weak table.
LEMMA ReplyLargeCache ==
    ASSUME CacheInv, NEW j \in Jobs, ReplyLarge(j)
    PROVE  CacheInv'
  <1>1. PICK k : k = Head(left[j])
    OBVIOUS
  <1>2. PICK newWeak : newWeak = IF map[k] = hold[j] THEN [weak EXCEPT ![k] = hold[j]] ELSE weak
    OBVIOUS
  <1>3. /\ map' = IF map[k] = hold[j] THEN [map EXCEPT ![k] = NoCell] ELSE map
        /\ hold[j] # NoCell /\ Collect(Stored(j, TRUE), newWeak)
    BY <1>1, <1>2 DEF ReplyLarge
  <1>4. /\ weak' = [e \in Keys |-> weak'[e]]
        /\ \A e \in Keys : weak'[e] \in {newWeak[e], NoCell}
    BY <1>3, CollectFacts
  <1>5. map' = [e \in Keys |-> map'[e]]
    BY <1>3 DEF CacheInv
  <1>6. CASE k \in Keys /\ map[k] = hold[j]
    <2>1. Entries' \subseteq Entries \ {k} /\ k \in Entries
      BY <1>3, <1>6 DEF Entries, CacheInv
    <2>2. Uncached' \subseteq Uncached \cup {k}
      BY <1>2, <1>4, <1>6 DEF Uncached, CacheInv
    <2>3. /\ IsFiniteSet(Entries \ {k})
          /\ Cardinality(Entries \ {k}) = Cardinality(Entries) - 1
      BY <2>1, EntriesFinite, FS_RemoveElement
    <2>4. /\ IsFiniteSet(Uncached \cup {k})
          /\ Cardinality(Uncached \cup {k}) <= Cardinality(Uncached) + 1
      <3>1. /\ IsFiniteSet(Uncached \cup {k})
            /\ \/ Cardinality(Uncached \cup {k}) = Cardinality(Uncached)
               \/ Cardinality(Uncached \cup {k}) = Cardinality(Uncached) + 1
        BY EntriesFinite, FS_AddElement
      <3> QED BY <3>1, EntriesFinite
    <2>5. /\ Cardinality(Entries') <= Cardinality(Entries \ {k}) /\ Cardinality(Entries') \in Nat
          /\ Cardinality(Uncached') <= Cardinality(Uncached \cup {k})
          /\ Cardinality(Uncached') \in Nat /\ Cardinality(Uncached \cup {k}) \in Nat
      BY <2>1, <2>2, <2>3, <2>4, FS_Subset, FS_CardinalityType
    <2>6. EntriesBounded'
      BY SMTT(30), <2>3, <2>4, <2>5, EntriesFinite, ReaderAssumption DEF EntriesBounded, CacheInv
    <2> QED BY <1>4, <1>5, <2>6 DEF CacheInv
  <1>7. CASE ~(k \in Keys /\ map[k] = hold[j])
    <2>1. Entries' \subseteq Entries
      BY <1>3, <1>7 DEF Entries, CacheInv
    <2>2. \A e \in Keys : newWeak[e] = weak[e]
      BY <1>2, <1>7 DEF CacheInv
    <2>3. Uncached' \subseteq Uncached
      BY <1>4, <2>2 DEF Uncached
    <2> QED BY <1>4, <1>5, <2>1, <2>3, CacheShrinks
  <1> QED BY <1>6, <1>7

\* Replies and cancellations only take entries out.
LEMMA ReplyCache ==
    ASSUME CacheInv, NEW j \in Jobs, Reply(j) \/ Cancel(j)
    PROVE  CacheInv'
  <1>1. CASE ReplyDirect(j)
    BY <1>1 DEF ReplyDirect, readVars, CacheInv, EntriesBounded, Entries, Uncached
  <1>2. CASE ReplySmall(j)
    <2>1. CASE Abandon(j, TRUE)
      BY <2>1, AbandonCache
    <2>2. CASE ~Abandon(j, TRUE)
      <3>1. PICK gone \in SUBSET Evictable :
              /\ map' = [k \in Keys |-> IF k \in gone THEN NoCell ELSE map[k]]
              /\ Collect(Stored(j, FALSE), weak)
        BY <1>2, <2>2 DEF ReplySmall
      <3>2. weak' = [k \in Keys |-> weak'[k]] /\ \A k \in Keys : weak'[k] \in {weak[k], NoCell}
        BY <3>1, CollectFacts
      <3>3. Entries' \subseteq Entries /\ Uncached' \subseteq Uncached
        BY <3>1, <3>2 DEF Entries, Uncached
      <3> QED BY <3>1, <3>2, <3>3, CacheShrinks
    <2> QED BY <2>1, <2>2
  <1>3. CASE ReplyLarge(j)
    BY <1>3, ReplyLargeCache
  <1>4. CASE ReplyError(j) \/ Cancel(j)
    BY <1>4, AbandonCache DEF ReplyError, Cancel
  <1> QED BY <1>1, <1>2, <1>3, <1>4 DEF Reply

LEMMA DoneCache ==
    ASSUME CacheInv, NEW j \in Jobs, Done(j)
    PROVE  CacheInv'
  <1>1. map' = map /\ Collect(cell, weak)
    BY DEF Done
  <1>2. weak' = [k \in Keys |-> weak'[k]] /\ \A k \in Keys : weak'[k] \in {weak[k], NoCell}
    BY <1>1, CollectFacts
  <1>3. Entries' \subseteq Entries /\ Uncached' \subseteq Uncached
    BY <1>1, <1>2 DEF Entries, Uncached
  <1> QED BY <1>1, <1>2, <1>3, CacheShrinks DEF CacheInv

LEMMA CacheInvariance == Spec => []CacheInv
  <1>1. Init => CacheInv
    <2> SUFFICES ASSUME Init PROVE CacheInv
      OBVIOUS
    <2>1. Entries = {} /\ Uncached = {}
      BY DEF Init, Entries, Uncached
    <2> QED BY <2>1, FS_EmptySet, ReaderAssumption DEF Init, CacheInv, EntriesBounded
  <1>2. CacheInv /\ [Next]_vars => CacheInv'
    <2> SUFFICES ASSUME CacheInv, [Next]_vars PROVE CacheInv'
      OBVIOUS
    <2>1. ASSUME UNCHANGED <<map, weak>> PROVE CacheInv'
      BY <2>1 DEF CacheInv, EntriesBounded, Entries, Uncached
    <2>2. CASE UNCHANGED vars
      BY <2>1, <2>2 DEF vars, readVars
    <2>3. ASSUME NEW j \in Jobs,
                 \/ Acquire(j) \/ Request(j) \/ Join(j) \/ StartScan(j)
                 \/ Round(j) \/ Claim(j) \/ StartLive(j) \/ Leave(j)
          PROVE  CacheInv'
      BY <2>1, <2>3 DEF Acquire, Request, Join, StartScan, Round, Claim, StartLive, Leave,
                        DropPermit, readVars
    <2>4. CASE Next
      <3>1. PICK j \in Jobs : ReadStep(j) \/ Round(j) \/ Claim(j) \/ StartLive(j) \/ Leave(j)
        BY <2>4, StepsOfNext
      <3> QED BY <2>3, <3>1, LookupCache, ReplyCache, DoneCache DEF ReadStep
    <2> QED BY <2>2, <2>4
  <1> QED BY <1>1, <1>2, PTL DEF Spec

\* The response cache never holds more keys than its limit (transport.rs), also while
\* large responses live on outside it and whichever idle entries are evicted.
THEOREM CacheIsBounded == Spec => []EntriesBounded
  <1>1. CacheInv => EntriesBounded
    BY DEF CacheInv
  <1> QED BY <1>1, CacheInvariance, PTL
-----------------------------------------------------------------------------
(* The slots *)

LEMMA HoldersFinite ==
    /\ IsFiniteSet(BlockHolders) /\ Cardinality(BlockHolders) \in Nat
    /\ IsFiniteSet(ResponseHolders) /\ Cardinality(ResponseHolders) \in Nat
    /\ IsFiniteSet(CallHolders) /\ Cardinality(CallHolders) \in Nat
    /\ IsFiniteSet(LargeBackfill) /\ Cardinality(LargeBackfill) \in Nat
  <1>1. /\ BlockHolders \subseteq Jobs /\ ResponseHolders \subseteq Jobs
        /\ CallHolders \subseteq Jobs /\ LargeBackfill \subseteq Cells
    BY DEF BlockHolders, ResponseHolders, CallHolders, LargeBackfill
  <1> QED BY <1>1, ReaderAssumption, FS_Subset, FS_CardinalityType

\* Who holds the slots of the two sub-budgets of a load and of the blocks.
LEMMA SubSlotHolders ==
    /\ {j \in Jobs : Holds(j, "bb")} = BlockHolders
    /\ {j \in Jobs : Holds(j, "rb")} = ResponseHolders
    /\ {j \in Jobs : Holds(j, "cb")} = CallHolders
    /\ Kept("rb") = Cardinality(LargeBackfill) /\ Kept("cb") = 0 /\ Kept("bb") = 0
  <1>1. ASSUME NEW j \in Jobs PROVE Holds(j, "bb") <=> j \in BlockHolders
    BY DEF Holds, Needs, SubSlots, IsBackfill, BlockHolders
  <1>2. ASSUME NEW j \in Jobs PROVE Holds(j, "rb") <=> j \in ResponseHolders
    BY PosValues DEF Holds, Needs, SubSlots, IsBackfill, ResponseHolders, Loading
  <1>3. ASSUME NEW j \in Jobs PROVE Holds(j, "cb") <=> j \in CallHolders
    BY PosValues DEF Holds, Needs, SubSlots, IsBackfill, CallHolders, Loading
  <1>4. Kept("rb") = Cardinality(LargeBackfill)
    BY DEF Kept, LargeBackfill
  <1>5. Kept("cb") = 0 /\ Kept("bb") = 0
    <2>1. \A slot \in {"cb", "bb"} :
            {c \in Cells : /\ cell[c].big /\ slot \in {"rb", "rj"}
                           /\ slot = "rb" => cell[c].class = "backfill"} = {}
      OBVIOUS
    <2> QED BY <2>1, FS_EmptySet DEF Kept
  <1>6. BlockHolders \subseteq Jobs /\ ResponseHolders \subseteq Jobs /\ CallHolders \subseteq Jobs
    BY DEF BlockHolders, ResponseHolders, CallHolders
  <1> QED BY <1>1, <1>2, <1>3, <1>4, <1>5, <1>6

\* A step that lets nobody into a sub-budget.
LEMMA HoldersShrink ==
    ASSUME SlotInv, hold' = [j \in Jobs |-> hold'[j]], cell' \in [Cells -> CellRecord],
           \A j \in Jobs : hold'[j] # NoCell => at'[j] \in {"join"} \cup Loading,
           BlockHolders' \subseteq BlockHolders, ResponseHolders' \subseteq ResponseHolders,
           CallHolders' \subseteq CallHolders, LargeBackfill' \subseteq LargeBackfill
    PROVE  SlotInv'
  <1>1. /\ Cardinality(BlockHolders') <= Cardinality(BlockHolders)
        /\ Cardinality(BlockHolders') \in Nat
    BY HoldersFinite, FS_Subset, FS_CardinalityType
  <1>2. /\ Cardinality(ResponseHolders') <= Cardinality(ResponseHolders)
        /\ Cardinality(ResponseHolders') \in Nat
    BY HoldersFinite, FS_Subset, FS_CardinalityType
  <1>3. /\ Cardinality(CallHolders') <= Cardinality(CallHolders)
        /\ Cardinality(CallHolders') \in Nat
    BY HoldersFinite, FS_Subset, FS_CardinalityType
  <1>4. /\ Cardinality(LargeBackfill') <= Cardinality(LargeBackfill)
        /\ Cardinality(LargeBackfill') \in Nat
    BY HoldersFinite, FS_Subset, FS_CardinalityType
  <1> QED BY SMTT(30), <1>1, <1>2, <1>3, <1>4, HoldersFinite, ReaderAssumption DEF SlotInv

\* Moving through a load or through shared() without taking a sub-budget, and ending,
\* let nobody in; nor does a cell become a large one of backfill.
LEMMA MoveKeepsSlots ==
    ASSUME PlacesOK, SlotInv, NEW j \in Jobs, NEW p \in Places,
           at' = [at EXCEPT ![j] = p],
           NEW h, hold' = [hold EXCEPT ![j] = h],
           h # NoCell => p \in {"join"} \cup Loading,
           j \notin Live \cup Scans /\ p \in {"bj"} \cup InBlock => at[j] \in {"bj"} \cup InBlock,
           j \notin Live /\ p \in {"rj", "cb", "cc", "sent"} /\ h # NoCell =>
               at[j] \in {"rj", "cb", "cc", "sent"} /\ h = hold[j],
           j \notin Live /\ p \in {"cc", "sent"} => at[j] \in {"cc", "sent"},
           cell' \in [Cells -> CellRecord], LargeBackfill' \subseteq LargeBackfill
    PROVE  SlotInv'
  <1> USE DEF PlacesOK
  <1>1. hold' = [i \in Jobs |-> hold'[i]]
    BY DEF SlotInv
  <1>2. \A i \in Jobs : hold'[i] = IF i = j THEN h ELSE hold[i]
    BY DEF SlotInv
  <1>3. \A i \in Jobs : at'[i] = IF i = j THEN p ELSE at[i]
    OBVIOUS
  <1>4. \A i \in Jobs : hold'[i] # NoCell => at'[i] \in {"join"} \cup Loading
    BY <1>2, <1>3 DEF SlotInv
  <1>5. BlockHolders' \subseteq BlockHolders
    BY <1>3 DEF BlockHolders
  <1>6. ResponseHolders' \subseteq ResponseHolders
    BY <1>2, <1>3 DEF ResponseHolders
  <1>7. CallHolders' \subseteq CallHolders
    BY <1>3 DEF CallHolders
  <1> QED BY <1>1, <1>4, <1>5, <1>6, <1>7, HoldersShrink

\* What Collect leaves holds no more response slots than what it was given.
LEMMA CollectKeepsSlots ==
    ASSUME NEW newCell \in [Cells -> CellRecord], NEW newWeak, Collect(newCell, newWeak)
    PROVE  /\ cell' \in [Cells -> CellRecord]
           /\ LargeBackfill'
                \subseteq {c \in Cells : newCell[c].big /\ newCell[c].class = "backfill"}
  <1>1. Absent \in CellRecord /\ Absent.big = FALSE
    BY DEF Absent, CellRecord
  <1>2. /\ cell' = [c \in Cells |-> cell'[c]]
        /\ \A c \in Cells : cell'[c] \in {newCell[c], Absent}
    BY CollectFacts
  <1> QED BY <1>1, <1>2 DEF LargeBackfill

\* Giving up gives the slots back.
LEMMA AbandonSlots ==
    ASSUME PlacesOK, SlotInv, NEW j \in Jobs, NEW failed \in BOOLEAN, Abandon(j, failed)
    PROVE  SlotInv'
  <1>1. /\ at' = [at EXCEPT ![j] = EndPlace(j)] /\ hold' = [hold EXCEPT ![j] = NoCell]
        /\ Collect(cell, weak)
    BY DEF Abandon, Goes
  <1>2. EndPlace(j) \in {"idle", "drop"}
    BY DEF EndPlace
  <1>3. cell' \in [Cells -> CellRecord] /\ LargeBackfill' \subseteq LargeBackfill
    BY <1>1, CollectKeepsSlots DEF SlotInv, LargeBackfill
  <1> QED BY <1>1, <1>2, <1>3, MoveKeepsSlots DEF Places, InBlock, Loading

LEMMA LookupSlots ==
    ASSUME PlacesOK, SlotInv, NEW j \in Jobs, Lookup(j)
    PROVE  SlotInv'
  <1>1. at[j] = "next" /\ hold[j] = NoCell
    BY DEF Lookup, SlotInv, Loading
  <1>2. CASE UNCHANGED cell
    <2>1. LargeBackfill' = LargeBackfill /\ cell' \in [Cells -> CellRecord]
      BY <1>2 DEF LargeBackfill, SlotInv
    <2>2. PICK p \in {"use", "join", EndPlace(j)} : at' = [at EXCEPT ![j] = p]
      BY DEF Lookup, Goes
    <2>3. \E h : hold' = [hold EXCEPT ![j] = h] /\ (h # NoCell => at' = [at EXCEPT ![j] = "join"])
      <3>1. CASE hold' = hold
        <4>1. hold' = [hold EXCEPT ![j] = NoCell]
          BY <1>1, <3>1 DEF SlotInv
        <4> QED BY <4>1
      <3>2. CASE hold' # hold
        BY <3>2 DEF Lookup, Goes
      <3> QED BY <3>1, <3>2
    <2>4. PICK h : hold' = [hold EXCEPT ![j] = h] /\ (h # NoCell => at' = [at EXCEPT ![j] = "join"])
      BY <2>3
    <2>5. h # NoCell => p = "join"
      BY <2>2, <2>4 DEF PlacesOK
    <2>6. EndPlace(j) \in {"idle", "drop"}
      BY DEF EndPlace
    <2> QED BY <1>1, <2>1, <2>2, <2>4, <2>5, <2>6, MoveKeepsSlots DEF Places, InBlock, Loading
  <1>3. CASE ~UNCHANGED cell
    <2>1. PICK c : /\ Collect([cell EXCEPT ![c].state = "empty"], weak)
                   /\ hold' = [hold EXCEPT ![j] = c] /\ Goes(j, "join")
      BY <1>3 DEF Lookup
    <2>2. PICK new : new = [cell EXCEPT ![c].state = "empty"]
      OBVIOUS
    <2>3. /\ new \in [Cells -> CellRecord]
          /\ \A d \in Cells : new[d].big = cell[d].big /\ new[d].class = cell[d].class
      BY <2>2 DEF SlotInv, CellRecord
    <2>4. cell' \in [Cells -> CellRecord] /\ LargeBackfill' \subseteq LargeBackfill
      BY ZenonT(40), <2>1, <2>2, <2>3, CollectKeepsSlots DEF LargeBackfill
    <2>5. at' = [at EXCEPT ![j] = "join"]
      BY <2>1 DEF Goes
    <2>6. /\ "join" \in Places /\ "join" \in {"join"} \cup Loading
          /\ "join" \notin {"rj", "cb", "cc", "sent"} /\ at[j] \in {"bj"} \cup InBlock
      BY <1>1 DEF Places, InBlock, Loading
    <2> QED BY <2>1, <2>4, <2>5, <2>6, MoveKeepsSlots
  <1> QED BY <1>2, <1>3

\* Taking a slot: a sub-budget only below its limit, and a live or call slot only for a
\* job that is within its sub-budget already.
LEMMA AcquireSlots ==
    ASSUME PlacesOK, SlotInv, NEW j \in Jobs, Acquire(j)
    PROVE  SlotInv'
  <1> USE DEF PlacesOK
  <1>1. /\ hold' = hold /\ cell' = cell /\ LargeBackfill' = LargeBackfill
        /\ cell' \in [Cells -> CellRecord]
    BY DEF Acquire, readVars, LargeBackfill, SlotInv
  <1>2. PICK h : h = hold[j]
    OBVIOUS
  <1>3. hold' = [hold EXCEPT ![j] = h] /\ hold' = [i \in Jobs |-> hold'[i]]
    BY <1>1, <1>2 DEF SlotInv
  <1>4. PICK p \in Places : at' = [at EXCEPT ![j] = p]
    BY ReadStepMoves DEF ReadStep
  <1>5. \A i \in Jobs : at'[i] = IF i = j THEN p ELSE at[i]
    BY <1>4
  <1>6. at[j] \in Waits /\ Free(at[j])
    BY DEF Acquire, Waits
  <1>7. /\ at[j] = "bb" => p = "bj" /\ j \notin Scans
        /\ at[j] = "bj" => p = "next"
        /\ at[j] = "rb" => p = "rj"
        /\ at[j] = "rj" => p = IF j \notin Live THEN "cb" ELSE "cc"
        /\ at[j] = "cb" => p = "cc"
        /\ at[j] = "cc" => p = "sent"
    BY <1>4, NextSlotValues, ReaderAssumption DEF Acquire, Goes, IsBackfill
  <1>8. ASSUME NEW S, IsFiniteSet(S), NEW T \in SUBSET (S \cup {j}), Cardinality(S) < Sub
        PROVE  Cardinality(T) <= Sub /\ Cardinality(T) \in Nat
    <2>1. /\ IsFiniteSet(S \cup {j}) /\ Cardinality(S) \in Nat
          /\ \/ Cardinality(S \cup {j}) = Cardinality(S)
             \/ Cardinality(S \cup {j}) = Cardinality(S) + 1
      BY <1>8, FS_AddElement, FS_CardinalityType
    <2>2. Cardinality(T) <= Cardinality(S \cup {j}) /\ Cardinality(T) \in Nat
      BY <2>1, FS_Subset, FS_CardinalityType
    <2> QED BY <1>8, <2>1, <2>2, ReaderAssumption
  <1>9. \A i \in Jobs : hold'[i] # NoCell => at'[i] \in {"join"} \cup Loading
    BY <1>1, <1>5, <1>6, <1>7 DEF SlotInv, Loading, Waits
  <1>10. CASE at[j] = "bb"
    <2>1. Cardinality(BlockHolders) < Sub
      <3>1. Cardinality({i \in Jobs : Holds(i, "bb")}) + Kept("bb") < Sub
        BY <1>6, <1>10 DEF Free, SubSlots
      <3> QED BY <3>1, SubSlotHolders, HoldersFinite
    <2>2. BlockHolders' \subseteq BlockHolders \cup {j}
      BY <1>5 DEF BlockHolders
    <2>3. Cardinality(BlockHolders') <= Sub
      BY <1>8, <2>1, <2>2, HoldersFinite
    <2>4. ResponseHolders' = ResponseHolders /\ CallHolders' = CallHolders
      BY <1>1, <1>5, <1>7, <1>10 DEF ResponseHolders, CallHolders
    <2> QED BY <1>1, <1>3, <1>9, <2>3, <2>4 DEF SlotInv
  <1>11. CASE at[j] = "rb"
    <2>1. Cardinality(ResponseHolders) + Cardinality(LargeBackfill) < Sub
      BY ZenonT(40), <1>6, <1>11, SubSlotHolders, HoldersFinite, ReaderAssumption DEF Free, SubSlots
    <2>2. ResponseHolders' \subseteq ResponseHolders \cup {j}
      BY <1>1, <1>5 DEF ResponseHolders
    <2>3. /\ IsFiniteSet(ResponseHolders \cup {j})
          /\ \/ Cardinality(ResponseHolders \cup {j}) = Cardinality(ResponseHolders)
             \/ Cardinality(ResponseHolders \cup {j}) = Cardinality(ResponseHolders) + 1
      BY HoldersFinite, FS_AddElement
    <2>4. /\ Cardinality(ResponseHolders') <= Cardinality(ResponseHolders \cup {j})
          /\ Cardinality(ResponseHolders') \in Nat
      BY <2>2, <2>3, FS_Subset, FS_CardinalityType
    <2>5. Cardinality(ResponseHolders') + Cardinality(LargeBackfill') <= Sub
      BY <1>1, <2>1, <2>3, <2>4, HoldersFinite, ReaderAssumption
    <2>6. BlockHolders' = BlockHolders /\ CallHolders' = CallHolders
      BY <1>1, <1>5, <1>7, <1>11 DEF BlockHolders, CallHolders, InBlock, Loading
    <2> QED BY <1>1, <1>3, <1>9, <2>5, <2>6 DEF SlotInv
  <1>12. CASE at[j] = "cb"
    <2>1. Cardinality(CallHolders) < Sub
      <3>1. Cardinality({i \in Jobs : Holds(i, "cb")}) + Kept("cb") < Sub
        BY <1>6, <1>12 DEF Free, SubSlots
      <3> QED BY <3>1, SubSlotHolders, HoldersFinite
    <2>2. CallHolders' \subseteq CallHolders \cup {j}
      BY <1>5 DEF CallHolders
    <2>3. Cardinality(CallHolders') <= Sub
      BY <1>8, <2>1, <2>2, HoldersFinite
    <2>4. BlockHolders' = BlockHolders /\ ResponseHolders' = ResponseHolders
      BY <1>1, <1>5, <1>7, <1>12 DEF ResponseHolders, BlockHolders, InBlock, Loading
    <2> QED BY <1>1, <1>3, <1>9, <2>3, <2>4 DEF SlotInv
  <1>13. CASE at[j] \in {"bj", "rj", "cc"}
    <2>1. h # NoCell => p \in {"join"} \cup Loading
      BY <1>1, <1>2, <1>5, <1>9
    <2> QED BY <1>1, <1>2, <1>3, <1>4, <1>7, <1>13, <2>1, MoveKeepsSlots
            DEF InBlock, Loading
  <1> QED BY <1>6, <1>10, <1>11, <1>12, <1>13 DEF Waits

\* A large response takes over the response slots of the job that loaded it.
LEMMA ReplyLargeSlots ==
    ASSUME PlacesOK, SlotInv, NEW j \in Jobs, ReplyLarge(j)
    PROVE  SlotInv'
  <1> USE DEF PlacesOK
  <1>1. /\ at[j] = "sent" /\ hold[j] # NoCell /\ at' = [at EXCEPT ![j] = "use"]
        /\ hold' = [hold EXCEPT ![j] = NoCell]
        /\ \E newWeak : Collect(Stored(j, TRUE), newWeak)
    BY DEF ReplyLarge, Goes
  <1>2. PICK c : c = hold[j]
    OBVIOUS
  <1>3. PICK new : new = Stored(j, TRUE)
    OBVIOUS
  <1>4. PICK class \in {"backfill", "live"} : class = IF j \notin Live THEN "backfill" ELSE "live"
    OBVIOUS
  <1>5. new = [cell EXCEPT ![c] = [cell[c] EXCEPT !.state = "ready", !.big = TRUE, !.class = class]]
    BY <1>2, <1>3, <1>4 DEF Stored, IsBackfill
  <1>6. /\ new \in [Cells -> CellRecord]
        /\ \A d \in Cells : d # c => new[d] = cell[d]
        /\ c \in Cells => new[c].class = class
    BY <1>5 DEF SlotInv, CellRecord
  <1>7. /\ cell' \in [Cells -> CellRecord]
        /\ LargeBackfill' \subseteq {d \in Cells : new[d].big /\ new[d].class = "backfill"}
    BY <1>1, <1>3, <1>6, CollectKeepsSlots
  <1>8. CASE j \in Live
    <2>1. LargeBackfill' \subseteq LargeBackfill
      BY <1>4, <1>6, <1>7, <1>8 DEF LargeBackfill
    <2>2. "use" \in Places /\ "use" \notin {"rj", "cb", "cc", "sent"}
      BY DEF Places, Loading
    <2> QED BY <1>1, <1>7, <1>8, <2>1, <2>2, MoveKeepsSlots
  <1>9. CASE j \notin Live
    <2>1. LargeBackfill' \subseteq LargeBackfill \cup {c}
      BY <1>6, <1>7 DEF LargeBackfill
    <2>2. /\ \A i \in Jobs : at'[i] = IF i = j THEN "use" ELSE at[i]
          /\ \A i \in Jobs : hold'[i] = IF i = j THEN NoCell ELSE hold[i]
          /\ hold' = [i \in Jobs |-> hold'[i]]
      BY <1>1 DEF SlotInv
    <2>3. ResponseHolders' \subseteq ResponseHolders \ {j} /\ j \in ResponseHolders
      BY <1>1, <1>9, <2>2 DEF ResponseHolders
    <2>4. BlockHolders' \subseteq BlockHolders
      BY <1>1, <2>2 DEF BlockHolders, InBlock, Loading
    <2>5. CallHolders' \subseteq CallHolders
      BY <2>2 DEF CallHolders
    <2>6. \A i \in Jobs : hold'[i] # NoCell => at'[i] \in {"join"} \cup Loading
      BY <2>2 DEF SlotInv
    <2>7. /\ IsFiniteSet(ResponseHolders \ {j})
          /\ Cardinality(ResponseHolders \ {j}) = Cardinality(ResponseHolders) - 1
      BY <2>3, HoldersFinite, FS_RemoveElement
    <2>8. /\ IsFiniteSet(LargeBackfill \cup {c})
          /\ \/ Cardinality(LargeBackfill \cup {c}) = Cardinality(LargeBackfill)
             \/ Cardinality(LargeBackfill \cup {c}) = Cardinality(LargeBackfill) + 1
      BY HoldersFinite, FS_AddElement
    <2>9. /\ Cardinality(ResponseHolders') <= Cardinality(ResponseHolders \ {j})
          /\ Cardinality(ResponseHolders') \in Nat
      BY <2>3, <2>7, FS_Subset, FS_CardinalityType
    <2>10. /\ Cardinality(LargeBackfill') <= Cardinality(LargeBackfill \cup {c})
           /\ Cardinality(LargeBackfill') \in Nat
      BY <2>1, <2>8, FS_Subset, FS_CardinalityType
    <2>11. Cardinality(ResponseHolders') + Cardinality(LargeBackfill') <= Sub
      BY SMTT(30), <2>7, <2>8, <2>9, <2>10, HoldersFinite, ReaderAssumption DEF SlotInv
    <2>12. /\ Cardinality(BlockHolders') <= Cardinality(BlockHolders)
           /\ Cardinality(BlockHolders') \in Nat
      BY <2>4, HoldersFinite, FS_Subset, FS_CardinalityType
    <2>13. /\ Cardinality(CallHolders') <= Cardinality(CallHolders)
           /\ Cardinality(CallHolders') \in Nat
      BY <2>5, HoldersFinite, FS_Subset, FS_CardinalityType
    <2>14. Cardinality(BlockHolders') <= Sub /\ Cardinality(CallHolders') <= Sub
      BY <2>12, <2>13, HoldersFinite, ReaderAssumption DEF SlotInv
    <2> QED BY <1>7, <2>2, <2>6, <2>11, <2>14 DEF SlotInv
  <1> QED BY <1>8, <1>9

\* The other replies give the slots back.
LEMMA ReplySlots ==
    ASSUME PlacesOK, SlotInv, NEW j \in Jobs, Reply(j) \/ Cancel(j)
    PROVE  SlotInv'
  <1>0. "use" \in Places /\ "use" \notin {"rj", "cb", "cc", "sent"} /\ "sent" \in InBlock
    BY DEF Places, Loading, InBlock
  <1>1. CASE ReplyDirect(j)
    <2>1. /\ at[j] = "sent" /\ at' = [at EXCEPT ![j] = "use"] /\ hold[j] = NoCell
          /\ hold' = hold /\ cell' = cell
      BY <1>1 DEF ReplyDirect, Goes, readVars
    <2>2. hold' = [hold EXCEPT ![j] = NoCell]
      BY <2>1 DEF SlotInv
    <2>3. cell' \in [Cells -> CellRecord] /\ LargeBackfill' \subseteq LargeBackfill
      BY <2>1 DEF SlotInv, LargeBackfill
    <2> QED BY <1>0, <2>1, <2>2, <2>3, MoveKeepsSlots
  <1>2. CASE ReplySmall(j) /\ ~Abandon(j, TRUE)
    <2>1. /\ at[j] = "sent" /\ at' = [at EXCEPT ![j] = "use"]
          /\ hold' = [hold EXCEPT ![j] = NoCell] /\ Collect(Stored(j, FALSE), weak)
      BY <1>2 DEF ReplySmall, Goes
    <2>2. PICK c : c = hold[j]
      OBVIOUS
    <2>3. PICK new : new = Stored(j, FALSE)
      OBVIOUS
    <2>4. PICK class \in {"backfill", "live"} : class = IF j \notin Live THEN "backfill" ELSE "live"
      OBVIOUS
    <2>5. new = [cell EXCEPT ![c] = [cell[c] EXCEPT !.state = "ready", !.big = FALSE,
                                                    !.class = class]]
      BY <2>2, <2>3, <2>4 DEF Stored, IsBackfill
    <2>6. /\ new \in [Cells -> CellRecord]
          /\ \A d \in Cells : d # c => new[d] = cell[d]
          /\ c \in Cells => new[c].big = FALSE
      BY <2>5 DEF SlotInv, CellRecord
    <2>7. /\ cell' \in [Cells -> CellRecord]
          /\ LargeBackfill' \subseteq {d \in Cells : new[d].big /\ new[d].class = "backfill"}
      BY <2>1, <2>3, <2>6, CollectKeepsSlots
    <2>8. LargeBackfill' \subseteq LargeBackfill
      BY <2>6, <2>7 DEF LargeBackfill
    <2> QED BY <1>0, <2>1, <2>7, <2>8, MoveKeepsSlots
  <1>3. CASE Abandon(j, TRUE) \/ Abandon(j, FALSE)
    BY <1>3, AbandonSlots
  <1>4. CASE ReplyLarge(j)
    BY <1>4, ReplyLargeSlots
  <1> QED BY <1>1, <1>2, <1>3, <1>4 DEF Reply, ReplyError, Cancel

\* Joining a cell, a request of its own, the end of a key and the start of a pass take
\* no slot of a sub-budget.
LEMMA OtherReadSlots ==
    ASSUME PlacesOK, SlotInv, NEW j \in Jobs,
           Request(j) \/ Join(j) \/ Done(j) \/ StartScan(j)
    PROVE  SlotInv'
  <1>0. \A i \in Jobs : at[i] \notin {"join"} \cup Loading =>
            hold[i] = NoCell /\ hold = [hold EXCEPT ![i] = NoCell]
    BY DEF SlotInv
  <1>1. UNCHANGED cell => LargeBackfill' \subseteq LargeBackfill /\ cell' \in [Cells -> CellRecord]
    BY DEF LargeBackfill, SlotInv
  <1>2. CASE Request(j)
    <2>1. PICK p \in {"cb", "cc"} : p = NextSlot(j, "rj") /\ (j \notin Live => p = "cb")
      BY NextSlotValues DEF IsBackfill
    <2>2. at[j] = "next" /\ at' = [at EXCEPT ![j] = p] /\ hold' = hold /\ cell' = cell
      BY <1>2, <2>1 DEF Request, Goes, readVars
    <2>3. hold' = [hold EXCEPT ![j] = NoCell]
      BY <1>0, <2>2 DEF Loading
    <2>4. p \in Places /\ "next" \in InBlock
      BY DEF Places, Loading, InBlock
    <2> QED BY <1>1, <2>1, <2>2, <2>3, <2>4, MoveKeepsSlots
  <1>3. CASE Join(j) /\ at' = [at EXCEPT ![j] = "use"] /\ hold' = [hold EXCEPT ![j] = NoCell]
    <2>1. at[j] = "join" /\ cell' = cell
      BY <1>3 DEF Join, readVars
    <2>2. "use" \in Places /\ "use" \notin {"rj", "cb", "cc", "sent"} /\ "join" \in InBlock
      BY DEF Places, Loading, InBlock
    <2> QED BY <1>1, <1>3, <2>1, <2>2, MoveKeepsSlots
  <1>4. CASE Join(j) /\ UNCHANGED readVars
    <2>1. PICK p \in {"rb", "rj"} : p = IF j \notin Live THEN "rb" ELSE "rj"
      OBVIOUS
    <2>2. PICK h : h = hold[j]
      OBVIOUS
    <2>3. at[j] = "join" /\ hold' = hold /\ cell' = cell
      BY <1>4 DEF Join, readVars
    <2>4. CASE at' = [at EXCEPT ![j] = p]
      <3>1. hold' = [hold EXCEPT ![j] = h]
        BY <2>2, <2>3 DEF SlotInv
      <3>2. /\ p \in Places /\ p \in {"join"} \cup Loading /\ "join" \in InBlock
            /\ j \notin Live => p \notin {"rj", "cb", "cc", "sent"}
        BY <2>1 DEF Places, Loading, InBlock
      <3> QED BY <1>1, <2>3, <2>4, <3>1, <3>2, MoveKeepsSlots
    <2>5. at' = [at EXCEPT ![j] = "use"] => hold' = [hold EXCEPT ![j] = NoCell]
      BY <1>4, <2>1 DEF Join, Goes, IsBackfill, PlacesOK
    <2>6. at' = [at EXCEPT ![j] = p] \/ at' = [at EXCEPT ![j] = "use"]
      BY <1>4, <2>1 DEF Join, Goes, IsBackfill
    <2> QED BY <1>3, <1>4, <2>4, <2>5, <2>6
  <1>5. CASE Done(j)
    <2>1. PICK p \in {"next", "idle", "drop"} : at' = [at EXCEPT ![j] = p]
      BY <1>5 DEF Done, Goes, EndPlace
    <2>2. at[j] = "use" /\ hold' = hold /\ Collect(cell, weak)
      BY <1>5 DEF Done
    <2>3. hold' = [hold EXCEPT ![j] = NoCell]
      BY <1>0, <2>2 DEF Loading
    <2>4. cell' \in [Cells -> CellRecord] /\ LargeBackfill' \subseteq LargeBackfill
      BY <2>2, CollectKeepsSlots DEF SlotInv, LargeBackfill
    <2>5. p \in Places /\ p \notin {"rj", "cb", "cc", "sent"} /\ "use" \in InBlock
      BY DEF Places, Loading, InBlock
    <2> QED BY <2>1, <2>2, <2>3, <2>4, <2>5, MoveKeepsSlots
  <1>6. CASE StartScan(j)
    <2>1. /\ j \in Scans /\ at[j] = "idle" /\ at' = [at EXCEPT ![j] = "next"]
          /\ hold' = hold /\ cell' = cell
      BY <1>6 DEF StartScan, Goes
    <2>2. hold' = [hold EXCEPT ![j] = NoCell]
      BY <1>0, <2>1 DEF Loading
    <2>3. "next" \in Places /\ "next" \notin {"rj", "cb", "cc", "sent"}
      BY DEF Places
    <2> QED BY <1>1, <2>1, <2>2, <2>3, MoveKeepsSlots
  <1>7. Join(j) => \/ at' = [at EXCEPT ![j] = "use"] /\ hold' = [hold EXCEPT ![j] = NoCell]
                   \/ UNCHANGED readVars
    BY DEF Join, Goes
  <1> QED BY <1>2, <1>3, <1>4, <1>5, <1>6, <1>7

\* The steps of the admission take and give back no slot.
LEMMA AdmissionSlots ==
    ASSUME PlacesOK, SlotInv, NEW j \in Jobs, Round(j) \/ Claim(j) \/ StartLive(j) \/ Leave(j)
    PROVE  SlotInv'
  <1>1. hold' = hold /\ cell' = cell
    BY DEF Round, Claim, StartLive, Leave, DropPermit, readVars
  <1>2. LargeBackfill' \subseteq LargeBackfill /\ cell' \in [Cells -> CellRecord]
    BY <1>1 DEF LargeBackfill, SlotInv
  <1>3. CASE at' = at
    BY <1>1, <1>3 DEF SlotInv, BlockHolders, ResponseHolders, CallHolders, LargeBackfill
  <1>4. CASE at' # at
    <2>1. at[j] \in {"idle", "half", "drop", "drop2"}
      BY DEF Round, Claim, StartLive, Leave, DropPermit
    <2>2. PICK p \in {"half", "bb", "idle", "bj", "drop2"} :
              at' = [at EXCEPT ![j] = p] /\ (p = "bj" => j \in Live)
      BY <1>4 DEF Round, Claim, StartLive, Leave, DropPermit, Goes
    <2>3. hold' = [hold EXCEPT ![j] = NoCell]
      BY <1>1, <2>1 DEF SlotInv, Loading
    <2>4. /\ p \in Places /\ p \notin {"rj", "cb", "cc", "sent"}
          /\ p \in {"bj"} \cup InBlock => p = "bj"
      BY DEF Places, Loading, InBlock
    <2> QED BY <1>2, <2>2, <2>3, <2>4, MoveKeepsSlots
  <1> QED BY <1>3, <1>4

LEMMA SlotInvariance == Spec => []SlotInv
  <1>1. Init => SlotInv
    <2> SUFFICES ASSUME Init PROVE SlotInv
      OBVIOUS
    <2>1. cell \in [Cells -> CellRecord] /\ \A c \in Cells : ~cell[c].big
      BY DEF Init, Absent, CellRecord
    <2>2. /\ BlockHolders = {} /\ ResponseHolders = {} /\ CallHolders = {}
          /\ LargeBackfill = {}
      BY <2>1 DEF Init, BlockHolders, ResponseHolders, CallHolders, LargeBackfill, InBlock,
                  Loading
    <2> QED BY <2>1, <2>2, FS_EmptySet, ReaderAssumption DEF Init, SlotInv
  <1>2. AdmissionInv /\ SlotInv /\ [Next]_vars => SlotInv'
    <2> SUFFICES ASSUME PlacesOK, SlotInv, [Next]_vars PROVE SlotInv'
      BY DEF AdmissionInv
    <2>1. CASE Next
      <3>1. PICK j \in Jobs : ReadStep(j) \/ Round(j) \/ Claim(j) \/ StartLive(j) \/ Leave(j)
        BY <2>1, StepsOfNext
      <3> QED BY <3>1, AdmissionSlots, AcquireSlots, LookupSlots, ReplySlots, OtherReadSlots
              DEF ReadStep
    <2>2. CASE UNCHANGED vars
      BY <2>2 DEF vars, readVars, SlotInv, BlockHolders, ResponseHolders, CallHolders,
                  LargeBackfill
    <2> QED BY <2>1, <2>2
  <1> QED BY <1>1, <1>2, AdmissionInvariance, PTL DEF Spec

\* Backfill never holds more than its sub-budget of the block, response and call slots:
\* "Waiting backfill never owns a live slot" (transport.rs:226), and with Sub < Slots some
\* slot of each kind is always live work's, for every number of jobs and slots.
THEOREM BackfillLeavesLiveSlots == Spec => []BackfillSparesSlots
  <1>1. SlotInv => BackfillSparesSlots
    <2> SUFFICES ASSUME SlotInv PROVE BackfillSparesSlots
      OBVIOUS
    <2>1. {j \in Jobs : IsBackfill(j) /\ Holds(j, "bj")} \subseteq BlockHolders
      BY DEF Holds, IsBackfill, BlockHolders
    <2>2. {j \in Jobs : IsBackfill(j) /\ Holds(j, "rj")} \subseteq ResponseHolders
      BY PosValues DEF Holds, IsBackfill, ResponseHolders, Loading
    <2>3. {j \in Jobs : IsBackfill(j) /\ Holds(j, "cc")} \subseteq CallHolders
      BY PosValues DEF Holds, IsBackfill, CallHolders, Loading
    <2>4. ASSUME NEW S, IsFiniteSet(S), NEW T \in SUBSET S
          PROVE  Cardinality(T) <= Cardinality(S) /\ Cardinality(T) \in Nat
      BY <2>4, FS_Subset, FS_CardinalityType
    <2>5. Cardinality({j \in Jobs : IsBackfill(j) /\ Holds(j, "bj")}) + 0 <= Sub
      <3>1. /\ Cardinality({j \in Jobs : IsBackfill(j) /\ Holds(j, "bj")}) <= Cardinality(BlockHolders)
            /\ Cardinality({j \in Jobs : IsBackfill(j) /\ Holds(j, "bj")}) \in Nat
        BY <2>1, <2>4, HoldersFinite
      <3>2. Cardinality(BlockHolders) <= Sub
        BY DEF SlotInv
      <3>3. Cardinality(BlockHolders) \in Nat /\ Sub \in Nat
        BY HoldersFinite, ReaderAssumption
      <3> QED BY <3>1, <3>2, <3>3
    <2>6. Cardinality({j \in Jobs : IsBackfill(j) /\ Holds(j, "rj")}) + Kept("rb") <= Sub
      <3>1. /\ Cardinality({j \in Jobs : IsBackfill(j) /\ Holds(j, "rj")}) <= Cardinality(ResponseHolders)
            /\ Cardinality({j \in Jobs : IsBackfill(j) /\ Holds(j, "rj")}) \in Nat
        BY <2>2, <2>4, HoldersFinite
      <3>2. Cardinality(ResponseHolders) + Kept("rb") <= Sub /\ Kept("rb") \in Nat
        BY HoldersFinite, SubSlotHolders DEF SlotInv
      <3>3. Cardinality(ResponseHolders) \in Nat /\ Sub \in Nat
        BY HoldersFinite, ReaderAssumption
      <3> QED BY <3>1, <3>2, <3>3
    <2>7. Cardinality({j \in Jobs : IsBackfill(j) /\ Holds(j, "cc")}) + 0 <= Sub
      <3>1. /\ Cardinality({j \in Jobs : IsBackfill(j) /\ Holds(j, "cc")}) <= Cardinality(CallHolders)
            /\ Cardinality({j \in Jobs : IsBackfill(j) /\ Holds(j, "cc")}) \in Nat
        BY <2>3, <2>4, HoldersFinite
      <3>2. Cardinality(CallHolders) <= Sub
        BY DEF SlotInv
      <3>3. Cardinality(CallHolders) \in Nat /\ Sub \in Nat
        BY HoldersFinite, ReaderAssumption
      <3> QED BY <3>1, <3>2, <3>3
    <2> QED BY <2>5, <2>6, <2>7 DEF BackfillSparesSlots
  <1> QED BY <1>1, SlotInvariance, PTL

\* Nothing that is reserved for live work is ever in the hands of backfill, permits
\* (admission.rs) or slots (transport.rs, budget.rs), for every number of each.
THEOREM LiveKeepsItsReserve == Spec => []LiveReserve
  BY LiveIsNeverRefused, BackfillLeavesLiveSlots, PTL DEF LiveReserve
=============================================================================
