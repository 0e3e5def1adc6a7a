------------------------ MODULE MinerServiceProofs -------------------------
(***************************************************************************)
(* A miner resource is fetched by one branch at a time, and the locks and  *)
(* limits of the service never close a circle, for every set of requests,  *)
(* plans, resources and limits.                                            *)
(***************************************************************************)
EXTENDS MinerService, FiniteSetTheorems, TLAPS

Results == {"none", "rows", "err", "empty"}
BranchRecord == [at : {"off", "done", "get", "lock"} \cup Fetching, part : Nat,
                 slot : Slot \cup {NoSlot}, sub : Slot \cup {NoSlot}, got : Seq(Results)]

SlotsOf(k) == {<<k, 0>>, <<k, 1>>}
Refs(x) == {x.slot, x.sub} \ {NoSlot}
LocksOf(x) == (IF x.part > 0 \/ x.at \in Fetching THEN {x.slot} ELSE {})
              \cup (IF x.part > 0 /\ x.at \in Fetching THEN {x.sub} ELSE {})

\* What a branch that gets resource k refers to: its own slot from the lock on, and while
\* it gets its parts also the slot of the current one, a slot of that part.
Shape(x, k) ==
    /\ x.part <= Len(Parts[k])
    /\ x.slot # NoSlot => x.slot \in SlotsOf(k)
    /\ x.slot # NoSlot <=> x.part > 0 \/ x.at \in {"lock"} \cup Fetching
    /\ x.sub # NoSlot => x.part > 0 /\ x.sub \in SlotsOf(Parts[k][x.part])
    /\ x.part > 0 => /\ x.at \in {"get", "lock", "peer", "call", "sent"}
                     /\ x.sub # NoSlot <=> x.at # "get"

MinerTypeOK ==
    /\ br \in [Branches -> BranchRecord]
    /\ value \in [Slot -> Results]
    /\ entries \in [Resources -> Slot \cup {NoSlot}]
    /\ \A k \in Resources : entries[k] # NoSlot => entries[k] \in SlotsOf(k)

\* A slot somebody refers to is the one the cache has for its resource: evicting and
\* pruning spare it, so that nobody makes a second one beside it.
Anchored == \A b \in Branches : \A s \in Refs(br[b]) : entries[s[1]] = s

\* The mutex of a slot.
LocksExclusive ==
    \A b, c \in Branches : b # c => LocksOf(br[b]) \cap LocksOf(br[c]) = {}

MinerInv ==
    /\ MinerTypeOK
    /\ \A b \in Branches : Shape(br[b], b[2])
    /\ Anchored
    /\ LocksExclusive

-----------------------------------------------------------------------------
(* Slots and branches *)

LEMMA NoSlotIsNone ==
    /\ NoSlot \notin Slot
    /\ \A k \in Resources : SlotsOf(k) \subseteq Slot /\ \A s \in SlotsOf(k) : s[1] = k
    /\ \A s \in Slot : s[1] \in Resources /\ s \in SlotsOf(s[1])
  BY DEF NoSlot, Slot, SlotsOf

\* Slots of different resources are different.
LEMMA SlotsApart ==
    ASSUME NEW k, NEW e, k # e
    PROVE  SlotsOf(k) \cap SlotsOf(e) = {}
  BY DEF SlotsOf

LEMMA BranchFacts ==
    ASSUME NEW b \in Branches
    PROVE  /\ b[2] \in Resources /\ Parts[b[2]] \in Seq(Resources)
           /\ Len(Parts[b[2]]) \in Nat
           /\ \A i \in 1 .. Len(Parts[b[2]]) :
                 /\ Parts[b[2]][i] \in Resources /\ Parts[Parts[b[2]][i]] = <<>>
                 /\ Parts[b[2]][i] # b[2]
  <1>1. b[2] \in Resources
    BY DEF Branches
  <1>2. Parts[b[2]] \in Seq(Resources) /\ Len(Parts[b[2]]) \in Nat
    BY <1>1, MinerAssumption
  <1>3. ASSUME NEW i \in 1 .. Len(Parts[b[2]])
        PROVE  /\ Parts[b[2]][i] \in Resources /\ Parts[Parts[b[2]][i]] = <<>>
               /\ Parts[b[2]][i] # b[2]
    <2>1. Parts[b[2]][i] \in Resources /\ Parts[Parts[b[2]][i]] = <<>>
      BY <1>1, <1>2, MinerAssumption
    <2>2. Len(<<>>) = 0
      OBVIOUS
    <2> QED BY <1>2, <2>1, <2>2
  <1> QED BY <1>1, <1>2, <1>3

\* The resource a branch gets now, and the slot it refers to for it.
LEMMA CurrentFacts ==
    ASSUME MinerInv, NEW b \in Branches
    PROVE  /\ Current(b) \in Resources
           /\ CurrentSlot(b) # NoSlot => CurrentSlot(b) \in SlotsOf(Current(b))
           /\ br[b].part > 0 => Parts[Current(b)] = <<>> /\ Current(b) # b[2]
           /\ br[b].part = 0 => Current(b) = b[2]
           /\ br[b].at \in {"lock"} \cup Fetching =>
                 CurrentSlot(b) # NoSlot /\ entries[Current(b)] = CurrentSlot(b)
  <1> DEFINE x == br[b]
  <1>1. x \in BranchRecord /\ Shape(x, b[2])
    BY DEF MinerInv, MinerTypeOK
  <1>2. x.part \in Nat /\ (x.part > 0 => x.part \in 1 .. Len(Parts[b[2]]))
    BY <1>1, BranchFacts DEF BranchRecord, Shape
  <1>3. /\ Current(b) \in Resources /\ (x.part = 0 => Current(b) = b[2])
        /\ x.part > 0 => Parts[Current(b)] = <<>> /\ Current(b) # b[2]
    BY <1>2, BranchFacts DEF Current
  <1>4. CurrentSlot(b) # NoSlot => CurrentSlot(b) \in SlotsOf(Current(b))
    BY <1>1, <1>2 DEF CurrentSlot, Current, Shape
  <1>5. x.at \in {"lock"} \cup Fetching => CurrentSlot(b) # NoSlot
    BY <1>1, <1>2 DEF CurrentSlot, Shape, Fetching
  <1>6. CurrentSlot(b) # NoSlot => CurrentSlot(b) \in Refs(br[b])
    BY DEF CurrentSlot, Refs
  <1>7. CurrentSlot(b) # NoSlot => entries[Current(b)] = CurrentSlot(b)
    BY <1>3, <1>4, <1>6, NoSlotIsNone DEF MinerInv, Anchored
  <1> QED BY <1>3, <1>4, <1>5, <1>7

\* Entries are dropped only when no branch refers to them.
Spares(E) ==
    /\ E \in [Resources -> Slot \cup {NoSlot}]
    /\ \A k \in Resources : E[k] # NoSlot => E[k] \in SlotsOf(k)
    /\ \A c \in Branches : \A s \in Refs(br[c]) : E[s[1]] = s

\* A slot a branch refers to is not idle.
LEMMA ReferredIsBusy ==
    ASSUME NEW c \in Branches, NEW s \in Refs(br[c])
    PROVE  ~Idle(s)
  BY DEF Refs, Idle

LEMMA EntriesSpared ==
    ASSUME MinerInv, NEW k
    PROVE  Spares(entries) /\ Spares(Pruned) /\ Spares(Evicted(k))
  <1> USE DEF MinerInv, MinerTypeOK
  <1>1. Spares(entries)
    BY DEF Spares, Anchored
  <1>2. ASSUME NEW E, E = [e \in Resources |-> E[e]],
               \A e \in Resources : E[e] = entries[e] \/ (E[e] = NoSlot /\ Idle(entries[e]))
        PROVE  Spares(E)
    <2>1. E \in [Resources -> Slot \cup {NoSlot}]
      BY <1>2
    <2>2. \A e \in Resources : E[e] # NoSlot => E[e] \in SlotsOf(e)
      BY <1>2
    <2>3. ASSUME NEW c \in Branches, NEW s \in Refs(br[c]) PROVE E[s[1]] = s
      <3>1. s \in Slot
        BY <2>3 DEF Refs, BranchRecord
      <3>2. s[1] \in Resources /\ entries[s[1]] = s
        BY <3>1, NoSlotIsNone DEF Anchored
      <3> QED BY <1>2, <3>2, ReferredIsBusy
    <2> QED BY <2>1, <2>2, <2>3 DEF Spares
  <1>3. Spares(Pruned)
    BY <1>2 DEF Pruned
  <1>4. Spares(Evicted(k))
    BY <1>2 DEF Evicted
  <1> QED BY <1>1, <1>3, <1>4

\* A branch that does not get a resource holds nothing.
Resting(p, g) == [at |-> p, part |-> 0, slot |-> NoSlot, sub |-> NoSlot, got |-> g]

LEMMA OffRests ==
    /\ Off = Resting("off", <<>>)
    /\ [Off EXCEPT !.at = "get"] = Resting("get", <<>>)
    /\ \A g : [Off EXCEPT !.at = "done", !.got = g] = Resting("done", g)
  <1>1. Off = Resting("off", <<>>)
    BY DEF Off, Resting
  <1>2. [Off EXCEPT !.at = "get"] = Resting("get", <<>>)
    BY DEF Off, Resting
  <1>3. ASSUME NEW g PROVE [Off EXCEPT !.at = "done", !.got = g] = Resting("done", g)
    <2>1. [Off EXCEPT !.at = "done"] = Resting("done", <<>>)
      BY DEF Off, Resting
    <2>2. [Resting("done", <<>>) EXCEPT !.got = g] = Resting("done", g)
      BY DEF Resting
    <2>3. [Off EXCEPT !.at = "done", !.got = g] = [[Off EXCEPT !.at = "done"] EXCEPT !.got = g]
      OBVIOUS
    <2> QED BY <2>1, <2>2, <2>3
  <1> QED BY <1>1, <1>2, <1>3

LEMMA RestingFacts ==
    ASSUME NEW b \in Branches, NEW p \in {"off", "get", "done"}, NEW g \in Seq(Results),
           NEW x, x = Resting(p, g)
    PROVE  x \in BranchRecord /\ Shape(x, b[2]) /\ Refs(x) = {} /\ LocksOf(x) = {}
  <1>1. x \in BranchRecord
    BY DEF Resting, BranchRecord
  <1>2. x.at = p /\ x.part = 0 /\ x.slot = NoSlot /\ x.sub = NoSlot
    BY DEF Resting
  <1>3. p \notin {"lock"} \cup Fetching
    BY DEF Fetching
  <1>4. Shape(x, b[2])
    BY <1>2, <1>3, BranchFacts DEF Shape
  <1>5. Refs(x) = {} /\ LocksOf(x) = {}
    BY <1>2, <1>3 DEF Refs, LocksOf
  <1> QED BY <1>1, <1>4, <1>5

-----------------------------------------------------------------------------
(* Steps *)

\* What a step has to respect: every branch keeps its shape, the slots it refers to stay
\* the entries of their resources, and nobody gets a lock somebody has.
LEMMA SettleKeeps ==
    ASSUME MinerInv, NEW newBr \in [Branches -> BranchRecord],
           \A b \in Branches : Shape(newBr[b], b[2]),
           NEW E \in [Resources -> Slot \cup {NoSlot}],
           \A k \in Resources : E[k] # NoSlot => E[k] \in SlotsOf(k),
           \A b \in Branches : \A s \in Refs(newBr[b]) : E[s[1]] = s,
           \A b, c \in Branches : b # c => LocksOf(newBr[b]) \cap LocksOf(newBr[c]) = {},
           NEW V \in [Slot -> Results], Settle(newBr, E, V)
    PROVE  MinerInv'
  <1>1. br' = newBr /\ entries' = E
    BY DEF Settle
  <1>2. value' \in [Slot -> Results]
    BY DEF Settle, Results
  <1>3. MinerTypeOK'
    BY <1>1, <1>2 DEF MinerTypeOK
  <1>4. Anchored'
    BY <1>1 DEF Anchored
  <1>5. LocksExclusive'
    BY <1>1 DEF LocksExclusive
  <1> QED BY <1>1, <1>3, <1>4, <1>5 DEF MinerInv

\* A step of one branch.
LEMMA BranchSettles ==
    ASSUME MinerInv, NEW b \in Branches, NEW x \in BranchRecord, Shape(x, b[2]),
           NEW E \in [Resources -> Slot \cup {NoSlot}],
           \A k \in Resources : E[k] # NoSlot => E[k] \in SlotsOf(k),
           \A c \in Branches \ {b} : \A s \in Refs(br[c]) : E[s[1]] = s,
           \A s \in Refs(x) : E[s[1]] = s,
           \A c \in Branches \ {b} : LocksOf(x) \cap LocksOf(br[c]) = {},
           NEW V \in [Slot -> Results], Settle([br EXCEPT ![b] = x], E, V)
    PROVE  MinerInv'
  <1> DEFINE newBr == [br EXCEPT ![b] = x]
  <1>1. br \in [Branches -> BranchRecord] /\ \A c \in Branches : Shape(br[c], c[2])
    BY DEF MinerInv, MinerTypeOK
  <1>2. newBr \in [Branches -> BranchRecord]
    BY <1>1
  <1>3. \A c \in Branches : newBr[c] = IF c = b THEN x ELSE br[c]
    BY <1>1
  <1> HIDE DEF newBr
  <1>4. \A c \in Branches : Shape(newBr[c], c[2])
    BY <1>1, <1>3
  <1>5. \A c \in Branches : \A s \in Refs(newBr[c]) : E[s[1]] = s
    BY <1>3
  <1>6. \A c, d \in Branches : c # d => LocksOf(newBr[c]) \cap LocksOf(newBr[d]) = {}
    BY <1>3 DEF MinerInv, LocksExclusive
  <1>7. Settle(newBr, E, V)
    BY DEF newBr
  <1> QED BY <1>2, <1>4, <1>5, <1>6, <1>7, SettleKeeps

\* A step by which a branch gives up slots and locks.
LEMMA BranchLetsGo ==
    ASSUME MinerInv, NEW b \in Branches, NEW x \in BranchRecord, Shape(x, b[2]),
           NEW E, Spares(E), Refs(x) \subseteq Refs(br[b]), LocksOf(x) \subseteq LocksOf(br[b]),
           NEW V \in [Slot -> Results], Settle([br EXCEPT ![b] = x], E, V)
    PROVE  MinerInv'
  <1>1. \A c \in Branches \ {b} : LocksOf(x) \cap LocksOf(br[c]) = {}
    BY DEF MinerInv, LocksExclusive
  <1> QED BY <1>1, BranchSettles DEF Spares

\* The end of a part keeps the slot of the whole; the end of the whole keeps nothing.
LEMMA AfterFacts ==
    ASSUME MinerInv, NEW b \in Branches, NEW v \in Results,
           NEW x, x = After(b, v)
    PROVE  /\ x \in BranchRecord /\ Shape(x, b[2])
           /\ Refs(x) \subseteq Refs(br[b]) /\ LocksOf(x) \subseteq LocksOf(br[b])
  <1>1. br[b] \in BranchRecord /\ Shape(br[b], b[2])
    BY DEF MinerInv, MinerTypeOK
  <1>2. CASE br[b].part = 0
    <2>1. PICK g : g = <<IF v = "err" THEN v ELSE "rows">>
      OBVIOUS
    <2>2. g \in Seq(Results)
      BY <2>1 DEF Results
    <2>3. x = Resting("done", g)
      BY <1>2, <2>1, OffRests DEF After
    <2> QED BY <2>2, <2>3, RestingFacts
  <1>3. CASE br[b].part # 0
    <2>1. PICK y : y = br[b]
      OBVIOUS
    <2>2. y \in BranchRecord /\ Shape(y, b[2]) /\ y.part > 0 /\ y.part \in Nat
      BY <1>1, <1>3, <2>1 DEF BranchRecord
    <2>3. y.part <= Len(Parts[b[2]]) /\ Len(Parts[b[2]]) \in Nat
      BY <2>2, BranchFacts DEF Shape
    <2>4. PICK at, part : /\ at = IF y.part = Len(Parts[b[2]]) THEN "fold" ELSE "get"
                          /\ part = IF y.part = Len(Parts[b[2]]) THEN 0 ELSE y.part + 1
      OBVIOUS
    <2>5. x = [y EXCEPT !.sub = NoSlot, !.got = Append(@, v), !.at = at, !.part = part]
      BY <1>3, <2>1, <2>4 DEF After
    <2>6. /\ x.sub = NoSlot /\ x.at = at /\ x.part = part /\ x.slot = y.slot
          /\ x.got = Append(y.got, v)
          /\ x = [at |-> x.at, part |-> x.part, slot |-> x.slot, sub |-> x.sub, got |-> x.got]
      BY <2>2, <2>5 DEF BranchRecord
    <2>7. /\ at \in {"fold", "get"} /\ part \in Nat /\ (at = "fold" <=> part = 0)
          /\ part <= Len(Parts[b[2]])
      BY <2>2, <2>3, <2>4
    <2>8. x.got \in Seq(Results) /\ x.slot \in Slot \cup {NoSlot} /\ y.slot # NoSlot
          /\ (x.slot \in SlotsOf(b[2]))
      BY <2>2, <2>6 DEF BranchRecord, Shape
    <2>9. x \in BranchRecord
      BY <2>6, <2>7, <2>8 DEF BranchRecord, Fetching
    <2>10. Shape(x, b[2])
      BY <2>3, <2>6, <2>7, <2>8 DEF Shape, Fetching
    <2>11. Refs(x) \subseteq Refs(y)
      BY <2>6 DEF Refs
    <2>12. LocksOf(x) \subseteq LocksOf(y)
      BY <2>2, <2>6, <2>7 DEF LocksOf, Fetching
    <2> QED BY <2>1, <2>9, <2>10, <2>11, <2>12
  <1> QED BY <1>2, <1>3

\* A branch that goes on with a result, stored in its slot or not.
LEMMA ReturnKeeps ==
    ASSUME MinerInv, NEW b \in Branches, NEW v \in Results, NEW E, Spares(E),
           Return(b, v, E)
    PROVE  MinerInv'
  <1>1. value \in [Slot -> Results]
    BY DEF MinerInv, MinerTypeOK
  <1>2. PICK x : x = After(b, v)
    OBVIOUS
  <1>3. Settle([br EXCEPT ![b] = x], E, value)
    BY <1>2 DEF Return
  <1> QED BY <1>1, <1>2, <1>3, AfterFacts, BranchLetsGo

LEMMA StoreKeeps ==
    ASSUME MinerInv, NEW b \in Branches, NEW v \in Results, NEW E, Spares(E),
           Store(b, v, E)
    PROVE  MinerInv'
  <1>1. [value EXCEPT ![CurrentSlot(b)] = v] \in [Slot -> Results]
    BY DEF MinerInv, MinerTypeOK
  <1>2. PICK x : x = After(b, v)
    OBVIOUS
  <1>3. Settle([br EXCEPT ![b] = x], E, [value EXCEPT ![CurrentSlot(b)] = v])
    BY <1>2 DEF Store
  <1> QED BY <1>1, <1>2, <1>3, AfterFacts, BranchLetsGo

\* observe() may evict what is idle, and the fetched value with it.
LEMMA ObserveKeeps ==
    ASSUME MinerInv, NEW b \in Branches, NEW v \in Results, Observe(b, v)
    PROVE  MinerInv'
  <1>1. Spares(entries) /\ Spares(Evicted(Current(b)))
    BY EntriesSpared
  <1>2. {v, "err"} \subseteq Results
    BY DEF Results
  <1> QED BY <1>1, <1>2, StoreKeeps DEF Observe

\* A branch takes the slot of its resource, and no lock yet.
LEMMA TakeKeeps ==
    ASSUME MinerInv, NEW b \in Branches, br[b].at = "get",
           NEW s \in SlotsOf(Current(b)), NEW E, Spares(E), E[Current(b)] = s,
           Settle([br EXCEPT ![b] = IF br[b].part = 0 THEN [@ EXCEPT !.at = "lock", !.slot = s]
                                    ELSE [@ EXCEPT !.at = "lock", !.sub = s]], E, value)
    PROVE  MinerInv'
  <1>1. PICK y : y = br[b]
    OBVIOUS
  <1>2. /\ y \in BranchRecord /\ Shape(y, b[2]) /\ y.at = "get" /\ y.part \in Nat
        /\ value \in [Slot -> Results] /\ br \in [Branches -> BranchRecord]
    BY <1>1 DEF MinerInv, MinerTypeOK, BranchRecord
  <1>3. /\ Current(b) \in Resources /\ s \in Slot /\ s # NoSlot /\ s[1] = Current(b)
    BY CurrentFacts, NoSlotIsNone
  <1>4. PICK x : x = IF y.part = 0 THEN [y EXCEPT !.at = "lock", !.slot = s]
                     ELSE [y EXCEPT !.at = "lock", !.sub = s]
    OBVIOUS
  <1>5. Settle([br EXCEPT ![b] = x], E, value)
    BY <1>1, <1>4
  <1>6. /\ x.at = "lock" /\ x.part = y.part /\ x.got = y.got
        /\ x.slot = (IF y.part = 0 THEN s ELSE y.slot)
        /\ x.sub = (IF y.part = 0 THEN y.sub ELSE s)
        /\ x = [at |-> x.at, part |-> x.part, slot |-> x.slot, sub |-> x.sub, got |-> x.got]
    BY <1>2, <1>4 DEF BranchRecord
  <1>7. x \in BranchRecord
    BY <1>2, <1>3, <1>6 DEF BranchRecord
  <1>8. Shape(x, b[2])
    <2>1. CASE y.part = 0
      <3>1. Current(b) = b[2]
        BY <1>1, <2>1 DEF Current
      <3> QED BY <1>2, <1>3, <1>6, <2>1, <3>1 DEF Shape, Fetching
    <2>2. CASE y.part # 0
      <3>1. Current(b) = Parts[b[2]][y.part] /\ y.part > 0
        BY <1>1, <1>2, <2>2 DEF Current
      <3> QED BY <1>2, <1>3, <1>6, <3>1 DEF Shape, Fetching
    <2> QED BY <2>1, <2>2
  <1>9. \A r \in Refs(x) : r = s \/ r \in Refs(y)
    BY <1>6 DEF Refs
  <1>10. \A r \in Refs(x) : E[r[1]] = r
    BY <1>1, <1>3, <1>9 DEF Spares
  <1>11. LocksOf(x) = LocksOf(y)
    BY <1>2, <1>6 DEF LocksOf, Fetching
  <1>12. \A c \in Branches \ {b} : LocksOf(x) \cap LocksOf(br[c]) = {}
    BY <1>1, <1>11 DEF MinerInv, LocksExclusive
  <1> QED BY <1>2, <1>5, <1>7, <1>8, <1>10, <1>12, BranchSettles DEF Spares

\* Cache::get: a new slot is made only when the resource has none, and then nobody
\* refers to an earlier one.
LEMMA GetKeeps ==
    ASSUME MinerInv, NEW b \in Branches, Get(b)
    PROVE  MinerInv'
  <1> DEFINE k == Current(b)
             mine == {e \in Resources : Kind[e] = Kind[k] /\ entries[e] # NoSlot}
             taken(s) == [br EXCEPT ![b] =
                            IF br[b].part = 0 THEN [@ EXCEPT !.at = "lock", !.slot = s]
                            ELSE [@ EXCEPT !.at = "lock", !.sub = s]]
             fresh == CHOOSE s \in {<<k, 0>>, <<k, 1>>} :
                          \A c \in Branches : br[c].slot # s /\ br[c].sub # s
  <1>1. br[b].at = "get"
    BY DEF Get
  <1>2. \/ entries[k] # NoSlot /\ Settle(taken(entries[k]), entries, value)
        \/ entries[k] = NoSlot /\ Settle(taken(fresh), [entries EXCEPT ![k] = fresh], value)
        \/ /\ entries[k] = NoSlot
           /\ \E e \in mine : /\ Idle(entries[e])
                              /\ Settle(taken(fresh),
                                        [entries EXCEPT ![k] = fresh, ![e] = NoSlot], value)
        \/ Return(b, "err", entries)
    BY DEF Get
  <1>3. Spares(entries)
    BY EntriesSpared
  <1>4. k \in Resources /\ SlotsOf(k) = {<<k, 0>>, <<k, 1>>}
    BY CurrentFacts DEF SlotsOf
  <1>5. ASSUME entries[k] = NoSlot
        PROVE  fresh \in SlotsOf(k) /\ Spares([entries EXCEPT ![k] = fresh])
    <2>1. \A s \in SlotsOf(k) : \A c \in Branches : br[c].slot # s /\ br[c].sub # s
      <3> SUFFICES ASSUME NEW s \in SlotsOf(k), NEW c \in Branches, s \in {br[c].slot, br[c].sub}
                   PROVE  FALSE
        OBVIOUS
      <3>1. s \in Slot /\ s # NoSlot /\ s[1] = k
        BY <1>4, NoSlotIsNone
      <3>2. s \in Refs(br[c])
        BY <3>1 DEF Refs
      <3>3. entries[k] = s
        BY <3>1, <3>2 DEF MinerInv, Anchored
      <3> QED BY <1>5, <3>1, <3>3
    <2>2. fresh \in SlotsOf(k)
      <3>1. \E s \in {<<k, 0>>, <<k, 1>>} : \A c \in Branches : br[c].slot # s /\ br[c].sub # s
        BY <1>4, <2>1
      <3> QED BY <1>4, <3>1
    <2> HIDE DEF fresh, k
    <2>3. PICK f : f = fresh
      OBVIOUS
    <2>4. f \in Slot /\ f # NoSlot
      BY <1>4, <2>2, <2>3, NoSlotIsNone
    <2>5. entries \in [Resources -> Slot \cup {NoSlot}]
      BY <1>3 DEF Spares
    <2>6. [entries EXCEPT ![k] = f] \in [Resources -> Slot \cup {NoSlot}]
      BY <2>4, <2>5
    <2>7. \A e \in Resources : [entries EXCEPT ![k] = f][e] = IF e = k THEN f ELSE entries[e]
      BY <2>5
    <2>8. \A e \in Resources : [entries EXCEPT ![k] = f][e] # NoSlot =>
              [entries EXCEPT ![k] = f][e] \in SlotsOf(e)
      BY <1>3, <2>2, <2>3, <2>7 DEF Spares
    <2>9. ASSUME NEW c \in Branches, NEW s \in Refs(br[c])
          PROVE  [entries EXCEPT ![k] = f][s[1]] = s
      <3>1. s \in Slot /\ entries[s[1]] = s /\ s[1] \in Resources /\ s # NoSlot
        BY <1>3, NoSlotIsNone DEF Spares, MinerInv, MinerTypeOK, Refs, BranchRecord
      <3>2. s[1] # k
        BY <1>5, <3>1
      <3> QED BY <2>7, <3>1, <3>2
    <2> QED BY <2>2, <2>3, <2>6, <2>8, <2>9 DEF Spares
  <1>6. ASSUME entries[k] = NoSlot, NEW e \in mine, Idle(entries[e])
        PROVE  /\ Spares([entries EXCEPT ![k] = fresh, ![e] = NoSlot])
               /\ [entries EXCEPT ![k] = fresh, ![e] = NoSlot][k] = fresh
    <2>1. e \in Resources /\ e # k
      BY <1>6
    <2>2. PICK F : F = [entries EXCEPT ![k] = fresh]
      OBVIOUS
    <2>3. Spares(F) /\ F[e] = entries[e] /\ F \in [Resources -> Slot \cup {NoSlot}] /\ F[k] = fresh
      <3> HIDE DEF fresh, k
      <3>1. Spares(F)
        BY <1>5, <1>6, <2>2
      <3>2. entries \in [Resources -> Slot \cup {NoSlot}]
        BY <1>3 DEF Spares
      <3> QED BY <1>4, <2>1, <2>2, <3>1, <3>2 DEF Spares
    <2>4. PICK G : G = [F EXCEPT ![e] = NoSlot]
      OBVIOUS
    <2>5. G = [entries EXCEPT ![k] = fresh, ![e] = NoSlot]
      <3> HIDE DEF fresh, k
      <3> QED BY <2>2, <2>4
    <2> HIDE DEF fresh, k
    <2>6. /\ G \in [Resources -> Slot \cup {NoSlot}] /\ G[k] = fresh
          /\ \A d \in Resources : G[d] = IF d = e THEN NoSlot ELSE F[d]
      BY <1>4, <2>1, <2>3, <2>4
    <2>7. \A d \in Resources : G[d] # NoSlot => G[d] \in SlotsOf(d)
      BY <2>3, <2>6 DEF Spares
    <2>8. ASSUME NEW c \in Branches, NEW s \in Refs(br[c]) PROVE G[s[1]] = s
      <3>1. s \in Slot /\ F[s[1]] = s /\ s[1] \in Resources
        BY <2>3, NoSlotIsNone DEF Spares, MinerInv, MinerTypeOK, Refs, BranchRecord
      <3>2. ~Idle(s)
        BY ReferredIsBusy
      <3>3. s[1] # e
        BY <1>6, <2>3, <3>1, <3>2
      <3> QED BY <2>6, <3>1, <3>3
    <2> QED BY <2>5, <2>6, <2>7, <2>8 DEF Spares
  <1>7. CASE entries[k] # NoSlot /\ Settle(taken(entries[k]), entries, value)
    <2>1. entries[k] \in SlotsOf(k)
      BY <1>3, <1>4, <1>7 DEF Spares
    <2> QED BY <1>1, <1>3, <1>7, <2>1, TakeKeeps
  <1>8. CASE entries[k] = NoSlot /\ Settle(taken(fresh), [entries EXCEPT ![k] = fresh], value)
    <2> HIDE DEF fresh
    <2>1. [entries EXCEPT ![k] = fresh][k] = fresh
      BY <1>3, <1>4 DEF Spares
    <2> QED BY <1>1, <1>5, <1>8, <2>1, TakeKeeps
  <1>9. ASSUME entries[k] = NoSlot, NEW e \in mine, Idle(entries[e]),
               Settle(taken(fresh), [entries EXCEPT ![k] = fresh, ![e] = NoSlot], value)
        PROVE  MinerInv'
    <2> HIDE DEF fresh
    <2> QED BY <1>1, <1>5, <1>6, <1>9, TakeKeeps
  <1>10. CASE Return(b, "err", entries)
    BY <1>3, <1>10, ReturnKeeps DEF Results
  <1> QED BY <1>2, <1>7, <1>8, <1>9, <1>10

\* The lock is taken when nobody has it: for a fetch, or around the first part.
LEMMA LockKeeps ==
    ASSUME MinerInv, NEW b \in Branches, Lock(b)
    PROVE  MinerInv'
  <1>1. PICK y : y = br[b]
    OBVIOUS
  <1>2. /\ y \in BranchRecord /\ Shape(y, b[2]) /\ y.at = "lock" /\ y.part \in Nat
        /\ value \in [Slot -> Results] /\ br \in [Branches -> BranchRecord]
    BY <1>1 DEF MinerInv, MinerTypeOK, BranchRecord, Lock
  <1>3. /\ CurrentSlot(b) # NoSlot /\ CurrentSlot(b) \in SlotsOf(Current(b))
        /\ Current(b) \in Resources /\ CurrentSlot(b) \in Slot
    BY <1>1, <1>2, CurrentFacts, NoSlotIsNone
  <1>4. Spares(entries)
    BY EntriesSpared
  <1>5. \A c \in Branches : CurrentSlot(b) \notin LocksOf(br[c])
    BY DEF Lock, Locks, LocksOf
  <1>6. CASE value[CurrentSlot(b)] # "none"
    <2>1. Return(b, value[CurrentSlot(b)], entries) /\ value[CurrentSlot(b)] \in Results
      BY <1>2, <1>3, <1>6 DEF Lock
    <2> QED BY <1>4, <2>1, ReturnKeeps
  <1>7. CASE value[CurrentSlot(b)] = "none"
    <2>1. PICK at : at = FetchPlace(b)
      OBVIOUS
    <2>2. at \in {"sent", "get", "peer", "call"} /\ (at = "get" => Parts[Current(b)] # <<>>)
      BY <2>1 DEF FetchPlace
    <2>3. PICK part : part = IF at = "get" THEN 1 ELSE y.part
      OBVIOUS
    <2>4. PICK x : x = [y EXCEPT !.at = at, !.part = part]
      OBVIOUS
    <2>5. Settle([br EXCEPT ![b] = x], entries, value)
      <3>1. Settle([br EXCEPT ![b].at = at, ![b].part = IF at = "get" THEN 1 ELSE @],
                   entries, value)
        BY <1>7, <2>1 DEF Lock
      <3>2. [br EXCEPT ![b].at = at, ![b].part = IF at = "get" THEN 1 ELSE @]
              = [br EXCEPT ![b] = x]
        BY <1>1, <1>2, <2>3, <2>4 DEF BranchRecord
      <3> QED BY <3>1, <3>2
    <2>6. /\ x.at = at /\ x.part = part /\ x.slot = y.slot /\ x.sub = y.sub /\ x.got = y.got
          /\ x = [at |-> x.at, part |-> x.part, slot |-> x.slot, sub |-> x.sub, got |-> x.got]
      BY <1>2, <2>4 DEF BranchRecord
    <2>7. part \in Nat
      BY <1>2, <2>3
    <2>8. x \in BranchRecord
      BY <1>2, <2>2, <2>6, <2>7 DEF BranchRecord, Fetching
    <2>9. y.part > 0 => at # "get" /\ part = y.part
      BY <1>1, <2>2, <2>3, CurrentFacts
    <2>10. y.part = 0 /\ at = "get" => part = 1 /\ 1 <= Len(Parts[b[2]])
      <3>1. Parts[b[2]] \in Seq(Resources) /\ (y.part = 0 => Current(b) = b[2])
        BY <1>1, BranchFacts DEF Current
      <3> QED BY <2>2, <2>3, <3>1
    <2>11. y.part = 0 /\ at # "get" => part = 0
      BY <2>3
    <2>12. Shape(x, b[2])
      <3>1. CASE y.part > 0
        BY <1>2, <2>2, <2>6, <2>9, <3>1 DEF Shape, Fetching
      <3>2. CASE y.part = 0 /\ at = "get"
        BY <1>2, <2>6, <2>10, <3>2 DEF Shape, Fetching
      <3>3. CASE y.part = 0 /\ at # "get"
        BY <1>2, <2>2, <2>6, <2>11, <3>3 DEF Shape, Fetching
      <3> QED BY <1>2, <3>1, <3>2, <3>3
    <2>13. Refs(x) = Refs(y)
      BY <2>6 DEF Refs
    <2>14. LocksOf(x) \subseteq LocksOf(y) \cup {CurrentSlot(b)}
      <3>1. CurrentSlot(b) = IF y.part = 0 THEN y.slot ELSE y.sub
        BY <1>1 DEF CurrentSlot
      <3>2. CASE y.part > 0
        BY <2>6, <2>9, <3>1, <3>2 DEF LocksOf
      <3>3. CASE y.part = 0 /\ at = "get"
        BY <2>6, <2>10, <3>1, <3>3 DEF LocksOf, Fetching
      <3>4. CASE y.part = 0 /\ at # "get"
        BY <2>6, <2>11, <3>1, <3>4 DEF LocksOf
      <3> QED BY <1>2, <3>2, <3>3, <3>4
    <2>15. \A c \in Branches \ {b} : LocksOf(x) \cap LocksOf(br[c]) = {}
      BY <1>1, <1>5, <2>14 DEF MinerInv, LocksExclusive
    <2>16. \A s \in Refs(x) : entries[s[1]] = s
      BY <1>1, <1>4, <2>13 DEF Spares
    <2> QED BY <1>2, <1>4, <2>5, <2>8, <2>12, <2>15, <2>16, BranchSettles DEF Spares
  <1> QED BY <1>6, <1>7

\* A permit of the client changes no slot and no lock.
LEMMA GuardKeeps ==
    ASSUME MinerInv, NEW b \in Branches, Guard(b)
    PROVE  MinerInv'
  <1>1. CASE Store(b, "err", entries)
    BY <1>1, EntriesSpared, StoreKeeps DEF Results
  <1>2. ASSUME NEW q \in {"call", "sent"}, br[b].at \in {"peer", "call"},
               br' = [br EXCEPT ![b].at = q], UNCHANGED <<entries, value>>
        PROVE  MinerInv'
    <2> USE DEF MinerInv, MinerTypeOK
    <2>1. PICK x : x = [br[b] EXCEPT !.at = q]
      OBVIOUS
    <2>2. br[b] \in BranchRecord /\ Shape(br[b], b[2])
      OBVIOUS
    <2>3. /\ x.at = q /\ x.part = br[b].part /\ x.slot = br[b].slot /\ x.sub = br[b].sub
          /\ x.got = br[b].got
          /\ x = [at |-> x.at, part |-> x.part, slot |-> x.slot, sub |-> x.sub, got |-> x.got]
      BY <2>1, <2>2 DEF BranchRecord
    <2>4. x \in BranchRecord
      BY <2>2, <2>3 DEF BranchRecord, Fetching
    <2>5. Shape(x, b[2])
      BY <1>2, <2>2, <2>3 DEF Shape, Fetching
    <2>6. Refs(x) = Refs(br[b])
      BY <2>3 DEF Refs
    <2>7. LocksOf(x) = LocksOf(br[b])
      BY <1>2, <2>3 DEF LocksOf, Fetching
    <2>8. br' = [br EXCEPT ![b] = x]
      BY <1>2, <2>1
    <2>9. /\ br' \in [Branches -> BranchRecord]
          /\ \A c \in Branches : br'[c] = IF c = b THEN x ELSE br[c]
      BY <2>4, <2>8
    <2>10. MinerTypeOK' /\ \A c \in Branches : Shape(br'[c], c[2])
      BY <1>2, <2>5, <2>9
    <2>11. \A c \in Branches : Refs(br'[c]) = Refs(br[c]) /\ LocksOf(br'[c]) = LocksOf(br[c])
      BY <2>6, <2>7, <2>9
    <2>12. Anchored' /\ LocksExclusive'
      BY <1>2, <2>11 DEF Anchored, LocksExclusive
    <2> QED BY <2>10, <2>12
  <1>3. \/ Store(b, "err", entries)
        \/ \E q \in {"call", "sent"} : /\ br[b].at \in {"peer", "call"}
                                       /\ br' = [br EXCEPT ![b].at = q]
                                       /\ UNCHANGED <<entries, value>>
    BY DEF Guard, Acquire
  <1> QED BY <1>1, <1>2, <1>3

LEMMA ReplyKeeps ==
    ASSUME MinerInv, NEW b \in Branches, Reply(b) \/ Fold(b)
    PROVE  MinerInv'
  <1>1. {"rows", "err", "empty"} \subseteq Results /\ Outcome(br[b].got) \in Results
    BY DEF Results, Outcome
  <1>2. CASE Store(b, "err", entries)
    BY <1>1, <1>2, EntriesSpared, StoreKeeps
  <1>3. CASE Reply(b) /\ ~Store(b, "err", entries)
    <2>1. \E v \in {"rows", "err", "empty"} : Observe(b, v)
      BY <1>3 DEF Reply
    <2> QED BY <1>1, <2>1, ObserveKeeps
  <1>4. CASE Fold(b)
    BY <1>1, <1>4, ObserveKeeps DEF Fold
  <1> QED BY <1>2, <1>3, <1>4

\* A request that starts, goes on, ends or is dropped: its branches hold nothing, the
\* others keep what they refer to.
LEMMA RequestKeeps ==
    ASSUME MinerInv, NEW r \in Requests, Start(r) \/ Proceed(r) \/ Drop(r)
    PROVE  MinerInv'
  <1>1. ASSUME NEW newBr, NEW E, Spares(E), Settle(newBr, E, value),
               newBr = [b \in Branches |-> newBr[b]],
               \A b \in Branches : newBr[b] \in {br[b], Resting("off", <<>>), Resting("get", <<>>)}
        PROVE  MinerInv'
    <2>1. <<>> \in Seq(Results)
      OBVIOUS
    <2>2. \A b \in Branches : br[b] \in BranchRecord /\ Shape(br[b], b[2])
      BY DEF MinerInv, MinerTypeOK
    <2>3. ASSUME NEW b \in Branches
          PROVE  /\ newBr[b] \in BranchRecord /\ Shape(newBr[b], b[2])
                 /\ Refs(newBr[b]) \subseteq Refs(br[b])
                 /\ LocksOf(newBr[b]) \subseteq LocksOf(br[b])
      BY <1>1, <2>1, <2>2, RestingFacts
    <2>4. newBr \in [Branches -> BranchRecord]
      BY <1>1, <2>3
    <2>5. \A b \in Branches : \A s \in Refs(newBr[b]) : E[s[1]] = s
      BY <1>1, <2>3 DEF Spares
    <2>6. \A b, c \in Branches : b # c => LocksOf(newBr[b]) \cap LocksOf(newBr[c]) = {}
      BY <2>3 DEF MinerInv, LocksExclusive
    <2>7. value \in [Slot -> Results]
      BY DEF MinerInv, MinerTypeOK
    <2> QED BY <1>1, <2>3, <2>4, <2>5, <2>6, <2>7, SettleKeeps DEF Spares
  <1>2. Spares(entries) /\ Spares(Pruned)
    BY EntriesSpared
  <1>3. ASSUME NEW i
        PROVE  /\ Enter(r, i) = [b \in Branches |-> Enter(r, i)[b]]
               /\ \A b \in Branches :
                    Enter(r, i)[b] \in {br[b], Resting("off", <<>>), Resting("get", <<>>)}
    BY OffRests DEF Enter
  <1>4. PICK ended : ended = [b \in Branches |-> IF b[1] = r THEN Off ELSE br[b]]
    OBVIOUS
  <1>5. /\ ended = [b \in Branches |-> ended[b]]
        /\ \A b \in Branches : ended[b] \in {br[b], Resting("off", <<>>), Resting("get", <<>>)}
    BY <1>4, OffRests
  <1>6. \/ \E i : Settle(Enter(r, i), Pruned, value)
        \/ Settle(ended, entries, value)
    BY <1>4 DEF Start, Proceed, Drop
  <1>7. CASE Settle(ended, entries, value)
    BY <1>1, <1>2, <1>5, <1>7
  <1>8. ASSUME NEW i, Settle(Enter(r, i), Pruned, value) PROVE MinerInv'
    BY <1>1, <1>2, <1>3, <1>8
  <1> QED BY <1>6, <1>7, <1>8

LEMMA MinerInvariance == Spec => []MinerInv
  <1>1. Init => MinerInv
    <2> SUFFICES ASSUME Init PROVE MinerInv
      OBVIOUS
    <2>1. /\ br = [b \in Branches |-> Resting("off", <<>>)]
          /\ entries = [k \in Resources |-> NoSlot] /\ value = [s \in Slot |-> "none"]
      BY OffRests DEF Init
    <2>2. \A b \in Branches : /\ br[b] \in BranchRecord /\ Shape(br[b], b[2])
                              /\ Refs(br[b]) = {} /\ LocksOf(br[b]) = {}
      <3>1. <<>> \in Seq(Results)
        OBVIOUS
      <3> QED BY <2>1, <3>1, RestingFacts
    <2>3. MinerTypeOK
      BY <2>1, <2>2 DEF MinerTypeOK, Results
    <2> QED BY <2>2, <2>3 DEF MinerInv, Anchored, LocksExclusive
  <1>2. MinerInv /\ [Next]_vars => MinerInv'
    <2> SUFFICES ASSUME MinerInv, [Next]_vars PROVE MinerInv'
      OBVIOUS
    <2>1. ASSUME NEW b \in Branches, Step(b) \/ Reply(b) PROVE MinerInv'
      BY <2>1, GetKeeps, LockKeeps, GuardKeeps, ReplyKeeps DEF Step
    <2>2. ASSUME NEW r \in Requests, Start(r) \/ Proceed(r) \/ Drop(r) PROVE MinerInv'
      BY <2>2, RequestKeeps
    <2>3. ASSUME br' = br, entries' = entries, value' \in [Slot -> Results] PROVE MinerInv'
      BY <2>3 DEF MinerInv, MinerTypeOK, Anchored, LocksExclusive
    <2>4. CASE Expire
      <3>1. br' = br /\ entries' = entries
        BY <2>4 DEF Expire
      <3>2. value' \in [Slot -> Results]
        BY <2>4 DEF Expire, MinerInv, MinerTypeOK, Results
      <3> QED BY <2>3, <3>1, <3>2
    <2>5. CASE UNCHANGED vars
      BY <2>3, <2>5 DEF vars, MinerInv, MinerTypeOK
    <2> QED BY <2>1, <2>2, <2>4, <2>5 DEF Next
  <1> QED BY <1>1, <1>2, PTL DEF Spec
-----------------------------------------------------------------------------
(* What the service promises *)

\* A resource is fetched by one branch at a time (the slot mutex of cache.rs), whatever
\* is evicted, pruned, expired or dropped, for every plan and every number of entries.
THEOREM OneFetchPerResource == Spec => []SingleFlight
  <1>1. MinerInv => SingleFlight
    <2> SUFFICES ASSUME MinerInv, NEW b \in Branches, NEW c \in Branches, b # c,
                        br[b].at \in Fetching, br[c].at \in Fetching, Current(b) = Current(c)
                 PROVE  FALSE
      BY DEF SingleFlight
    <2>1. ASSUME NEW a \in Branches, br[a].at \in Fetching
          PROVE  CurrentSlot(a) \in LocksOf(br[a]) /\ CurrentSlot(a) = entries[Current(a)]
      <3>1. br[a].part \in Nat
        BY DEF MinerInv, MinerTypeOK, BranchRecord
      <3>2. CurrentSlot(a) \in LocksOf(br[a])
        BY <2>1, <3>1 DEF CurrentSlot, LocksOf
      <3> QED BY <2>1, <3>2, CurrentFacts
    <2>2. entries[Current(b)] \in LocksOf(br[b]) \cap LocksOf(br[c])
      BY <2>1
    <2> QED BY <2>2 DEF MinerInv, LocksExclusive
  <1> QED BY <1>1, MinerInvariance, PTL

\* Whenever somebody waits, somebody can go on: a branch that waits for a part holds only
\* the slot of a dispatch, and parts have no parts of their own, so that nobody it waits
\* for waits for it; and the two limits of the client are taken in one order.
THEOREM SomebodyCanMove == Spec => []NoCircularWait
  <1>1. MinerInv => NoCircularWait
    <2> SUFFICES ASSUME MinerInv, NEW w \in Branches, br[w].at \in {"lock", "peer", "call"},
                        \A b \in Branches :
                          /\ br[b].at \notin {"get", "fold", "sent"}
                          /\ br[b].at = "lock" => \E c \in Branches : CurrentSlot(b) \in Locks(c)
                          /\ br[b].at = "peer" => ~(InPeer < Peers)
                          /\ br[b].at = "call" => ~(InCall < Calls)
                 PROVE  FALSE
      BY DEF NoCircularWait
    <2>0. Calls \in Nat /\ Calls > 0 /\ Peers \in Nat /\ Peers > 0
      BY MinerAssumption
    <2>1. InCall < Calls
      <3>1. {b \in Branches : br[b].at = "sent" /\ Current(b) \notin Stored} = {}
        OBVIOUS
      <3>2. InCall = 0
        BY <3>1, FS_EmptySet DEF InCall
      <3> QED BY <2>0, <3>2
    <2>2. \A b \in Branches : br[b].at # "call"
      BY <2>1
    <2>3. InPeer < Peers
      <3>1. {b \in Branches : br[b].at \in {"call", "sent"} /\ IsPeer(b)
                                /\ Current(b) \notin Stored} = {}
        BY <2>2
      <3>2. InPeer = 0
        BY <3>1, FS_EmptySet DEF InPeer
      <3> QED BY <2>0, <3>2
    <2>4. \A b \in Branches : br[b].at \notin Fetching
      BY <2>2, <2>3 DEF Fetching
    <2>5. ASSUME NEW b \in Branches, br[b].at = "lock"
          PROVE  \E c \in Branches : br[c].part > 0 /\ CurrentSlot(b) = br[c].slot
      <3>1. PICK c \in Branches : CurrentSlot(b) \in Locks(c)
        BY <2>5
      <3>2. br[c].at \notin Fetching
        BY <2>4
      <3>3. br[c].part > 0 /\ CurrentSlot(b) = br[c].slot
        BY <3>1, <3>2 DEF Locks
      <3> QED BY <3>3
    <2>6. ASSUME NEW c \in Branches, br[c].part > 0
          PROVE  /\ br[c].at = "lock" /\ Parts[c[2]] # <<>>
                 /\ br[c].slot # NoSlot /\ br[c].slot \in SlotsOf(c[2])
      <3>1. Shape(br[c], c[2]) /\ br[c].part \in Nat
        BY DEF MinerInv, MinerTypeOK, BranchRecord
      <3>2. br[c].at = "lock"
        BY <2>4, <2>6, <3>1 DEF Shape, Fetching
      <3>3. Len(Parts[c[2]]) # 0
        BY <2>6, <3>1, BranchFacts DEF Shape
      <3>4. Len(<<>>) = 0
        OBVIOUS
      <3> QED BY <2>6, <3>1, <3>2, <3>3, <3>4 DEF Shape
    <2>7. br[w].at = "lock"
      BY <2>2, <2>3
    <2>8. PICK c \in Branches : br[c].part > 0
      BY <2>5, <2>7
    <2>9. PICK d \in Branches : br[d].part > 0 /\ CurrentSlot(c) = br[d].slot
      BY <2>5, <2>6, <2>8
    <2>10. CurrentSlot(c) \in SlotsOf(Current(c)) /\ Parts[Current(c)] = <<>>
      BY <2>6, <2>8, CurrentFacts
    <2>11. CurrentSlot(c) \in SlotsOf(d[2]) /\ Parts[d[2]] # <<>>
      BY <2>6, <2>9
    <2> QED BY <2>10, <2>11, SlotsApart
  <1> QED BY <1>1, MinerInvariance, PTL
=============================================================================
