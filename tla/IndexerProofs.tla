--------------------------- MODULE IndexerProofs ----------------------------
(***************************************************************************)
(* The indexer keeps its promises for every chain, every set of domains    *)
(* and every bound: what it calls covered is indexed, what it announces is *)
(* durable, a pruning floor is one of the connected node, and it uses the  *)
(* store only through the operations that the store's proofs are about.    *)
(***************************************************************************)
EXTENDS Indexer, IndexStoreProofs, FiniteSetTheorems

Workers == {"live", "backfill"}
Connected == {"init", "floor", "up"}

LanePc == {"idle", "guard", "current", "decode", "floor", "setfloor", "domains", "commit", "part"}
LaneRecord ==
    [pc : LanePc, h : Height, pin : Height, todo : SUBSET Domains, guards : Guards,
     old : OptHeight, done : SUBSET Domains, seen : SUBSET Values]

\* How far a lane has come says which domains it still works on.
LaneShape(l) ==
    /\ l \in LaneRecord
    /\ l.pc \in {"guard", "current", "floor", "setfloor"} => l.todo # {}
    /\ l.pc \in {"floor", "setfloor", "domains"} => l.todo \subseteq Guarded(l)
    /\ l.pc = "domains" => "participation" \notin l.todo
    /\ l.pc = "decode" => Guarded(l) # {}
    /\ l.pc # "setfloor" => l.old = None
    /\ l.pc \in {"guard", "current"} => l.done = {} /\ l.seen = {}
    /\ l.done \subseteq Guarded(l) \ {"participation"}

\* What a lane holds in memory stays true of the store and the node while it awaits:
\* its height is durable, no guard is ahead of the store, a floor it is about to write
\* is one of this node, and the participants it has passed are stored unless a reindex
\* has made its guard stale.
LaneTrue(l) ==
    /\ l.h <= target.h
    /\ \A d \in Domains : l.guards[d] <= gen[d]
    /\ l.pc \in {"floor", "setfloor"} => l.h <= node.pruned /\ l.old <= node.pruned
    /\ \A d \in Domains \cap {"participation"} :
          l.guards[d] = gen[d] => l.seen \subseteq Stored(d, l.h)

LaneOK(l) == LaneShape(l) /\ (l.pc # "idle" => conn = "up" /\ LaneTrue(l))

ChunkPc == {"init", "work", "scan", "pages", "append", "winners", "next", "replay", "check", "split"}
ScanPc == {"scan", "pages", "append", "winners", "next", "replay", "check", "split"}
BackfillRecord ==
    [pc : {"off", "plan", "author", "sparse"} \cup ChunkPc, tgt : Height, todo : SUBSET Sparse,
     d : Sparse \cup {"none"}, g : 0 .. MaxGen, from : Height, ceil : Height, pin : Height,
     rows : SUBSET Height, full : BOOLEAN, cursor : OptHeight, last : OptHeight]

\* The backfill worker's target and pinned state are durable, and it never replays or
\* finishes beyond its ceiling.
BackfillOK ==
    /\ bf \in BackfillRecord
    /\ bf.pc # "off" => conn = "up" /\ bf.tgt <= target.h /\ bf.pin <= target.h
    /\ bf.pc \in ChunkPc => bf.d \in Sparse /\ bf.g # 0
    /\ bf.ceil <= bf.pin /\ bf.last <= bf.ceil
    /\ bf.pc \in {"replay", "check", "split"} => bf.last # None
    /\ bf.pc \in {"init", "work"} => bf.last = None
    /\ lane["backfill"].pc # "idle" => bf.pc \in {"author", "replay"}

LinkOK ==
    /\ chainHead \in 0 .. MaxHead
    /\ node \in [head : 0 .. MaxHead, pruned : OptHeight]
    /\ node.head <= chainHead
    /\ conn \in {"down", "dead"} \cup Connected
    /\ setup \subseteq Domains
    /\ conn = "floor" => setup # {}
    /\ conn = "up" => setup = {}
    /\ pending \in OptHeight /\ pending <= chainHead
    /\ announced \in [h : Height, fresh : BOOLEAN]
    /\ conn = "up" => announced.h <= target.h
    /\ progress \in [finalized : OptHeight, committed : OptHeight]
    /\ target.h <= chainHead

\* What the indexer has made of the store: identities are the chain's, a proven height
\* has every row it owes, an exhausted enumeration has every retained winner of its
\* pinned state, and everything is at or below the durable target.
StoreHonest ==
    /\ \A d \in Domains : gen[d] <= MaxGen
    /\ \A h \in Height : finalized[h] \in {NoHash, BlockHash[h]}
    /\ \A d \in Domains : \A r \in rows[d] :
          r.h <= target.h /\ (d \in {"difficulty", "authorship"} => r.v = Rec)
    /\ \A d \in Domains : \A h \in proven[d] : h <= target.h /\ Owed(d, h) \subseteq Stored(d, h)
    /\ \A s \in scans : /\ s.pin <= target.h
                        /\ s.finished => QBlocks(s.pin) \subseteq s.found
                        /\ ~s.finished => s.cursor \subseteq s.found
    /\ \A d \in Sparse : cov[d].start = 0

FloorsOK == conn \in Connected => \A d \in Domains \ setup : cov[d].floor <= node.pruned

CommittedOK ==
    ~Reindexing /\ progress.committed # None =>
        \E d \in Domains : progress.committed \in Covered(cov[d])

IndexerInv ==
    /\ StoreInv
    /\ StoreHonest
    /\ LinkOK
    /\ lane \in [Workers -> LaneRecord]
    /\ \A w \in Workers : LaneOK(lane[w])
    /\ BackfillOK
    /\ FloorsOK
    /\ CommittedOK

\* What in addition keeps run() alive while no node lags and nobody reindexes: the
\* target is never ahead of the node, the coverage a lane was guarded by still
\* begins where it began, and the scan a chunk works on is there.
LaneAlive(l) ==
    \A d \in Guarded(l) : (l.pc = "current" /\ d = FirstDomain(l.todo)) \/ l.h >= cov[d].start

AliveInv ==
    /\ conn # "dead"
    /\ \A d \in Domains : gen[d] = 1
    /\ conn \in Connected => target.h <= node.head /\ pending <= node.head
    /\ conn \in Connected => \A d \in Domains \ setup : cov[d].gen # 0
    /\ \A w \in Workers : lane[w].pc # "idle" => LaneAlive(lane[w])
    /\ bf.pc \in ScanPc \ {"scan"} => MyScan # {}

-----------------------------------------------------------------------------
(* What the indexer asks of the store *)

\* A batch that says of a finalized, durable height what the chain says of it, and
\* completes a domain only with every row the height owes it.
HonestBatch(b) ==
    /\ b \in Batch
    /\ b.h <= target.h /\ b.hash = BlockHash[b.h]
    /\ \A d \in Domains \ {"participation"} : b.recs[d] \subseteq {Rec}
    /\ \A d \in b.completed : Owed(d, b.h) \subseteq b.recs[d] \cup Stored(d, b.h)

Call ==
    \/ \E d \in Domains, h \in Height : InitializeCoverage(d, gen[d], h) /\ (d \in Sparse => h = 0)
    \/ \E d \in Domains, f \in OptHeight :
          SetPrunedFloor(d, gen[d], f) /\ (f = None \/ (conn = "up" /\ f <= node.pruned))
    \/ \E b \in Batch : HonestBatch(b) /\ CommitBlock(b)
    \/ \E d \in Domains, pin \in Height : pin <= target.h /\ BeginScan(d, gen[d], pin)
    \/ \E s \in scans, P \in SUBSET (0 .. MaxHead) :
          /\ Page(P, QBlocks(s.pin) \ s.cursor)
          /\ AppendScanPage(s, s.cursor, s.cursor \cup P, Exhausted(P), P)
    \/ \E s \in scans, d \in Domains, a, b \in Height : CommitRange(s, d, gen[d], a, b)
    \/ \E d \in Domains, h \in Height : MarkUnavailable(d, gen[d], h, BlockHash[h])
    \/ \E h \in Height \cap {node.head, pending} : h <= chainHead /\ SetFinalizedTarget(h, BlockHash[h])
    \/ Reindexing /\ \E D \in SUBSET Domains : Reindex(D)

\* What no call takes back: targets and generations only grow, rows other than winners
\* stay within a generation, a floor is kept, cleared or set for this node, and
\* without a reindex nothing completed, begun or enumerated goes away.
Advance ==
    /\ target'.h >= target.h /\ target'.h <= chainHead
    /\ target' = target \/ target'.h \in {node.head, pending}
    /\ \A d \in Domains : gen[d] <= gen'[d] /\ gen'[d] <= MaxGen
    /\ \A d \in Domains \ {"winners"} : gen'[d] = gen[d] => rows[d] \subseteq rows'[d]
    /\ \A d \in Domains : \/ cov'[d].floor \in {cov[d].floor, None}
                          \/ conn = "up" /\ cov'[d].floor <= node.pruned
    /\ ~Reindexing =>
          /\ gen' = gen
          /\ \A d \in Domains : /\ Covered(cov[d]) \subseteq Covered(cov'[d])
                                /\ cov[d].gen # 0 => cov'[d].gen # 0 /\ cov'[d].start = cov[d].start
          /\ \A s \in scans : \E t \in scans' : t.d = s.d /\ t.g = s.g /\ t.pin = s.pin

LEMMA ConstantFacts ==
    /\ 0 \in Height /\ None = -1 /\ None \in OptHeight /\ Height \subseteq OptHeight
    /\ Height \subseteq Nat /\ OptHeight \subseteq Int
    /\ 0 .. MaxHead \subseteq Height /\ MaxHead \in Nat /\ MaxHead <= U64Max
    /\ \A h \in Height : BlockHash[h] \in Hashes /\ BlockHash[h] # NoHash
  BY U64MaxAssumption, StoreAssumption, IndexerAssumption DEF Height, OptHeight, None

LEMMA GenerationFacts ==
    ASSUME StoreInv, StoreHonest, NEW d \in Domains
    PROVE  gen[d] \in 1 .. MaxGen
  BY StoreAssumption DEF StoreInv, TypeOK, StoreHonest

\* Every call is one of the store's operations, so the store keeps its invariant.
LEMMA CallKeepsStore ==
    ASSUME StoreInv, StoreHonest, Call
    PROVE  StoreInv'
  <1>1. \A d \in Domains : gen[d] \in 1 .. MaxGen
    BY GenerationFacts
  <1>2. ASSUME NEW s \in scans, NEW P \in SUBSET (0 .. MaxHead),
               AppendScanPage(s, s.cursor, s.cursor \cup P, Exhausted(P), P)
        PROVE  StoreInv'
    <2>1. s.cursor \cup P \in SUBSET Height /\ P \in SUBSET Height
      BY ConstantFacts DEF StoreInv, TypeOK, Scan
    <2>2. Exhausted(P) \in BOOLEAN
      BY DEF Exhausted
    <2> QED BY <1>2, <2>1, <2>2, AppendScanPageKeeps
  <1>3. \A h \in Height : BlockHash[h] \in Hashes
    BY ConstantFacts
  <1> QED BY <1>1, <1>2, <1>3, InitializeCoverageKeeps, SetPrunedFloorKeeps, CommitBlockKeeps,
         BeginScanKeeps, CommitRangeKeeps, MarkUnavailableKeeps, SetFinalizedTargetKeeps, ReindexKeeps
         DEF Call

\* The coverage a commit or a range leaves behind.
LEMMA CoverKeeps ==
    ASSUME StoreInv, NEW d \in Domains, NEW s \in Height, NEW a \in Height, NEW b \in Height, a <= b
    PROVE  LET c == Cover(ReadCoverage(d, s), a, b)
           IN  /\ c.gen = gen[d] /\ c.gen # 0
               /\ c.floor \in {cov[d].floor, None}
               /\ Covered(cov[d]) \subseteq Covered(c)
               /\ c.start = IF cov[d].gen = 0 THEN s ELSE cov[d].start
               /\ Covered(c) = Covered(cov[d]) \cup (a .. b)
  <1> DEFINE r == ReadCoverage(d, s)
  <1>1. /\ r \in CoverageRecord /\ ValidCoverage(r) /\ r.gen = gen[d]
        /\ Covered(r) = Covered(cov[d]) /\ gen[d] # 0
    BY ReadCoverageFacts DEF StoreInv, TypeOK
  <1>2. r.floor \in {cov[d].floor, None} /\ r.start = IF cov[d].gen = 0 THEN s ELSE cov[d].start
    BY DEF ReadCoverage, EmptyCoverage
  <1> HIDE DEF r
  <1>3. /\ Covered(Cover(r, a, b)) = Covered(r) \cup (a .. b) /\ Cover(r, a, b).gen = r.gen
        /\ Cover(r, a, b).start = r.start /\ Cover(r, a, b).floor = r.floor
    BY <1>1, CoverFacts
  <1> QED BY <1>1, <1>2, <1>3 DEF r

LEMMA CallAdvances ==
    ASSUME StoreInv, StoreHonest, target.h <= chainHead, chainHead \in Int, Call
    PROVE  Advance
  <1>1. /\ TypeOK /\ target.h \in Int
        /\ \A d \in Domains : gen[d] \in Int /\ gen[d] <= MaxGen
    <2>1. TypeOK /\ target.h \in OptHeight
      BY DEF StoreInv, TypeOK
    <2>2. \A d \in Domains : gen[d] \in Nat
      BY <2>1 DEF TypeOK
    <2>3. \A d \in Domains : gen[d] <= MaxGen
      BY DEF StoreHonest
    <2>4. target.h \in Int
      BY <2>1, ConstantFacts
    <2> QED BY <2>1, <2>2, <2>3, <2>4
  <1>2. ASSUME NEW d \in Domains, NEW h \in Height, InitializeCoverage(d, gen[d], h)
        PROVE  Advance
    <2>1. cov[d].gen = 0 /\ Covered(cov[d]) = {}
      BY <1>2, EmptyCoverageFacts, ConstantFacts DEF InitializeCoverage, StoreInv, MissingIsEmpty, Missing
    <2> QED BY <1>1, <1>2, <2>1 DEF InitializeCoverage, Advance, TypeOK, EmptyCoverage
  <1>3. ASSUME NEW d \in Domains, NEW f \in OptHeight, SetPrunedFloor(d, gen[d], f),
               f = None \/ (conn = "up" /\ f <= node.pruned)
        PROVE  Advance
    <2> DEFINE r == ReadCoverage(d, 0)
    <2>1. /\ r \in CoverageRecord /\ ValidCoverage(r) /\ r.gen = gen[d] /\ gen[d] # 0
          /\ Covered(r) = Covered(cov[d])
      BY ReadCoverageFacts, ConstantFacts DEF StoreInv, TypeOK
    <2>2. cov[d].gen # 0 => r.start = cov[d].start
      BY DEF ReadCoverage
    <2>3. cov' = [cov EXCEPT ![d] = [r EXCEPT !.floor = f]]
      BY <1>3 DEF SetPrunedFloor
    <2> HIDE DEF r
    <2> DEFINE c == [r EXCEPT !.floor = f]
    <2>4. c.gen = r.gen /\ c.start = r.start /\ c.floor = f
      BY <2>1 DEF CoverageRecord
    <2>5. Covered(c) = Covered(r)
      BY <2>1, FloorFacts
    <2> HIDE DEF c
    <2>6. cov' = [cov EXCEPT ![d] = c]
      BY <2>3 DEF c
    <2>7. \A e \in Domains : cov'[e] = IF e = d THEN c ELSE cov[e]
      BY <1>1, <2>6 DEF TypeOK
    <2>8. UNCHANGED <<gen, rows, scans, target>>
      BY <1>3 DEF SetPrunedFloor
    <2> QED BY <1>1, <1>3, <2>1, <2>2, <2>4, <2>5, <2>7, <2>8 DEF Advance
  <1>4. ASSUME NEW b \in Batch, CommitBlock(b) PROVE Advance
    <2>1. b.h \in Height /\ b.h <= b.h /\ b.completed \subseteq Domains
          /\ \A d \in Domains : DefaultStart(d, b.h) \in Height
      BY ConstantFacts DEF Batch, Height, DefaultStart
    <2>2. \A d \in Domains : /\ rows'[d] = WrittenRows(d, b)
                             /\ cov'[d] = IF d \in b.completed
                                          THEN Cover(ReadCoverage(d, DefaultStart(d, b.h)), b.h, b.h)
                                          ELSE cov[d]
      BY <1>4 DEF CommitBlock
    <2>3. \A d \in Domains \ {"winners"} : rows[d] \subseteq rows'[d]
      BY <2>2 DEF WrittenRows
    <2>4. \A d \in Domains : /\ cov'[d].floor \in {cov[d].floor, None}
                             /\ Covered(cov[d]) \subseteq Covered(cov'[d])
                             /\ cov[d].gen # 0 => cov'[d].gen # 0 /\ cov'[d].start = cov[d].start
      BY <2>1, <2>2, CoverKeeps
    <2> QED BY <1>1, <1>4, <2>3, <2>4 DEF CommitBlock, Advance
  <1>5. ASSUME NEW d \in Domains, NEW pin \in Height, BeginScan(d, gen[d], pin) PROVE Advance
    BY <1>1, <1>5 DEF BeginScan, Advance
  <1>6. ASSUME NEW s \in scans, NEW P, AppendScanPage(s, s.cursor, s.cursor \cup P, Exhausted(P), P)
        PROVE  Advance
    <2> DEFINE n == [s EXCEPT !.found = @ \cup P, !.cursor = IF Exhausted(P) THEN {} ELSE s.cursor \cup P,
                              !.finished = Exhausted(P)]
    <2>1. scans' = (scans \ {s}) \cup {n}
      BY <1>6 DEF AppendScanPage
    <2>2. n.d = s.d /\ n.g = s.g /\ n.pin = s.pin
      BY <1>1 DEF TypeOK, Scan
    <2> HIDE DEF n
    <2>3. \A x \in scans : \E t \in scans' : t.d = x.d /\ t.g = x.g /\ t.pin = x.pin
      BY <2>1, <2>2
    <2> QED BY <1>1, <1>6, <2>3 DEF AppendScanPage, Advance
  <1>7. ASSUME NEW s \in scans, NEW d \in Domains, NEW a \in Height, NEW b \in Height,
               CommitRange(s, d, gen[d], a, b)
        PROVE  Advance
    <2> DEFINE c == Cover(ReadCoverage(d, 0), a, b)
    <2>1. a <= b /\ cov' = [cov EXCEPT ![d] = c]
      BY <1>7 DEF CommitRange, RangeAccepted
    <2>2. /\ c.gen # 0 /\ c.floor \in {cov[d].floor, None} /\ Covered(cov[d]) \subseteq Covered(c)
          /\ c.start = IF cov[d].gen = 0 THEN 0 ELSE cov[d].start
      BY <2>1, CoverKeeps, ConstantFacts
    <2> HIDE DEF c
    <2> QED BY <1>1, <1>7, <2>1, <2>2 DEF CommitRange, Advance, TypeOK
  <1>8. ASSUME NEW d \in Domains, NEW h \in Height, MarkUnavailable(d, gen[d], h, BlockHash[h])
        PROVE  Advance
    BY <1>1, <1>8 DEF MarkUnavailable, Advance
  <1>9. ASSUME NEW h \in Height \cap {node.head, pending}, h <= chainHead,
               SetFinalizedTarget(h, BlockHash[h])
        PROVE  Advance
    BY <1>1, <1>9, ConstantFacts DEF SetFinalizedTarget, Advance
  <1>10. ASSUME Reindexing, NEW D \in SUBSET Domains, Reindex(D) PROVE Advance
    <2>1. \A d \in Domains : gen'[d] \in {gen[d], gen[d] + 1} /\ (gen'[d] = gen[d] + 1 => gen[d] < MaxGen)
      BY <1>1, <1>10 DEF Reindex
    <2>2. \A d \in Domains : gen'[d] = gen[d] => rows'[d] = rows[d]
      BY <1>1, <1>10 DEF Reindex
    <2>3. \A d \in Domains : cov'[d].floor \in {cov[d].floor, None}
      BY <1>10 DEF Reindex, ReindexedCoverage, Missing, EmptyCoverage
    <2>4. MaxGen \in Nat /\ target' = target
      BY <1>10, StoreAssumption DEF Reindex
    <2> QED BY <1>1, <1>10, <2>1, <2>2, <2>3, <2>4 DEF Advance
  <1> QED BY <1>2, <1>3, <1>4, <1>5, <1>6, <1>7, <1>8, <1>9, <1>10 DEF Call

\* A page that is not full is all there is left.
LEMMA LastPage ==
    ASSUME NEW left, IsFiniteSet(left), NEW P, Page(P, left), Exhausted(P)
    PROVE  P = left
  <1>1. P \in SUBSET left /\ Cardinality(P) = Smaller(PageSize, Cardinality(left))
        /\ Cardinality(P) < PageSize
    BY DEF Page, Exhausted
  <1>2. Cardinality(left) \in Nat /\ PageSize \in Nat
    BY FS_CardinalityType, IndexerAssumption
  <1>3. Cardinality(P) = Cardinality(left)
    BY <1>1, <1>2 DEF Smaller
  <1> QED BY <1>1, <1>3, FS_Subset

\* Every domain but authorship owes nothing for a block that is no qblock, and the
\* single-record domains owe the one record there is.
LEMMA OwedFacts ==
    ASSUME NEW d \in Domains, NEW h \in Height
    PROVE  /\ d # "participation" => Owed(d, h) \subseteq {Rec}
           /\ d # "authorship" /\ Kind[h] = "none" => Owed(d, h) = {}
           /\ d # "participation" => Owed(d, h) = RecordOf(d, h)
           /\ d = "participation" /\ Kind[h] # "none" => Owed(d, h) = Participants[h]
  BY DEF Owed, RecordOf

\* The rows of a height after a commit.
LEMMA StoredAfterCommit ==
    ASSUME TypeOK, NEW b, HonestBatch(b), CommitBlock(b), NEW d \in Domains, NEW h \in Height
    PROVE  /\ Owed(d, h) \subseteq Stored(d, h) => Owed(d, h) \subseteq Stored(d, h)'
           /\ d # "winners" => Stored(d, h) \subseteq Stored(d, h)'
           /\ h = b.h => b.recs[d] \subseteq Stored(d, h)'
           /\ h = b.h /\ d \in b.completed => Owed(d, h) \subseteq Stored(d, h)'
  <1>1. rows'[d] = WrittenRows(d, b)
    BY DEF CommitBlock
  <1>2. h = b.h => b.recs[d] \subseteq Stored(d, h)'
    <2> SUFFICES ASSUME h = b.h, NEW v \in b.recs[d] PROVE v \in Stored(d, h)'
      OBVIOUS
    <2> DEFINE r == [h |-> b.h, v |-> v, hash |-> b.hash, g |-> b.guards[d]]
    <2>1. r \in rows'[d] /\ r.h = h /\ r.v = v
      BY <1>1 DEF WrittenRows
    <2> HIDE DEF r
    <2> QED BY <2>1 DEF Stored
  <1>3. ~(h = b.h /\ d = "winners" /\ b.recs[d] # {}) => Stored(d, h) \subseteq Stored(d, h)'
    BY <1>1 DEF WrittenRows, Stored
  <1>4. h = b.h /\ d = "winners" /\ b.recs[d] # {} => Owed(d, h) \subseteq b.recs[d]
    BY OwedFacts DEF HonestBatch
  <1>5. h = b.h /\ d \in b.completed => Owed(d, h) \subseteq b.recs[d] \cup Stored(d, h)
    BY DEF HonestBatch
  <1> QED BY <1>2, <1>3, <1>4, <1>5

\* Nothing the indexer asks for makes the store less than honest.
LEMMA CallKeepsHonest ==
    ASSUME StoreInv, StoreHonest, target.h <= chainHead, chainHead \in Int, Call
    PROVE  StoreHonest'
  <1>1. Advance
    BY CallAdvances
  <1>2. /\ TypeOK /\ target.h \in Int
        /\ \A s \in scans : s \in Scan /\ s.pin \in Int
        /\ \A d \in Domains : proven[d] \subseteq Nat /\ \A r \in rows[d] : r.h \in Height /\ r.h \in Int
    <2>1. TypeOK /\ target.h \in OptHeight /\ \A s \in scans : s \in Scan /\ s.pin \in Height
      BY DEF StoreInv, TypeOK, Scan
    <2>2. \A d \in Domains : proven[d] \subseteq Height /\ \A r \in rows[d] : r.h \in Height
      BY <2>1 DEF TypeOK, Row
    <2>3. Height \subseteq Int /\ OptHeight \subseteq Int /\ Height \subseteq Nat
      BY ConstantFacts
    <2> QED BY <2>1, <2>2, <2>3
  <1>3. target'.h \in Int /\ target'.h >= target.h /\ \A d \in Domains : gen'[d] <= MaxGen
    <2>1. StoreInv'
      BY CallKeepsStore
    <2>2. target'.h \in OptHeight
      BY <2>1 DEF StoreInv, TypeOK
    <2> QED BY <1>1, <2>2, ConstantFacts DEF Advance
  <1> DEFINE Rest ==
        /\ \A h \in Height : finalized'[h] \in {NoHash, BlockHash[h]}
        /\ \A d \in Domains : \A r \in rows'[d] :
              r.h <= target'.h /\ (d \in {"difficulty", "authorship"} => r.v = Rec)
        /\ \A d \in Domains : \A h \in proven'[d] : h <= target'.h /\ Owed(d, h) \subseteq Stored(d, h)'
        /\ \A s \in scans' : /\ s.pin <= target'.h
                             /\ s.finished => QBlocks(s.pin) \subseteq s.found
                             /\ ~s.finished => s.cursor \subseteq s.found
  <1>4. ASSUME UNCHANGED <<finalized, rows, proven, scans>> PROVE Rest
    BY <1>2, <1>3, <1>4 DEF StoreHonest, Stored
  <1>5. ASSUME UNCHANGED <<finalized, rows, proven>>,
               \A s \in scans' : \/ s \in scans
                                 \/ /\ s.pin \in Int /\ s.pin <= target.h
                                    /\ s.finished => QBlocks(s.pin) \subseteq s.found
                                    /\ ~s.finished => s.cursor \subseteq s.found
        PROVE  Rest
    <2>1. \A s \in scans' : /\ s.pin <= target'.h
                            /\ s.finished => QBlocks(s.pin) \subseteq s.found
                            /\ ~s.finished => s.cursor \subseteq s.found
      BY <1>2, <1>3, <1>5 DEF StoreHonest
    <2> QED BY <1>2, <1>3, <1>5, <2>1 DEF StoreHonest, Stored
  <1>6. ASSUME Rest, \A d \in Sparse : cov'[d].start = 0 PROVE StoreHonest'
    BY <1>3, <1>6 DEF StoreHonest
  <1> HIDE DEF Rest
  <1>7. Sparse \subseteq Domains /\ \A d \in Sparse : d # "authorship" /\ cov[d].start = 0
    BY DEF Sparse, StoreHonest
  <1>8. ASSUME NEW d \in Domains, NEW h \in Height, d \in Sparse => h = 0,
               InitializeCoverage(d, gen[d], h)
        PROVE  StoreHonest'
    BY <1>2, <1>4, <1>6, <1>7, <1>8 DEF InitializeCoverage, TypeOK, EmptyCoverage
  <1>9. ASSUME NEW d \in Domains, NEW f \in OptHeight, SetPrunedFloor(d, gen[d], f)
        PROVE  StoreHonest'
    <2> DEFINE r == ReadCoverage(d, 0)
    <2>1. r \in CoverageRecord
      BY ReadCoverageFacts, ConstantFacts DEF StoreInv
    <2>2. d \in Sparse => r.start = 0
      BY <1>7 DEF ReadCoverage, EmptyCoverage
    <2>3. cov' = [cov EXCEPT ![d] = [r EXCEPT !.floor = f]]
      BY <1>9 DEF SetPrunedFloor
    <2> HIDE DEF r
    <2>4. [r EXCEPT !.floor = f].start = r.start
      BY <2>1 DEF CoverageRecord
    <2>5. \A e \in Sparse : cov'[e].start = 0
      BY <1>2, <1>7, <2>2, <2>3, <2>4 DEF TypeOK
    <2> QED BY <1>4, <1>6, <1>9, <2>5 DEF SetPrunedFloor
  <1>10. ASSUME NEW b \in Batch, HonestBatch(b), CommitBlock(b) PROVE StoreHonest'
    <2>1. b.h \in Height /\ b.h <= b.h /\ b.completed \subseteq Domains
          /\ b.recs \in [Domains -> SUBSET Values]
          /\ \A d \in Domains : DefaultStart(d, b.h) \in Height
      BY ConstantFacts DEF Batch, Height, DefaultStart, Records
    <2>2. b.h <= target.h /\ b.hash = BlockHash[b.h]
      BY <1>10 DEF HonestBatch
    <2>3. \A h \in Height : finalized'[h] \in {NoHash, BlockHash[h]}
      <3>1. finalized' = [finalized EXCEPT ![b.h] =
                              IF finalized[b.h] = NoHash THEN b.hash ELSE finalized[b.h]]
        BY <1>10 DEF CommitBlock
      <3> QED BY <3>1, <2>2, <1>2 DEF StoreHonest, TypeOK
    <2>4. ASSUME NEW d \in Domains, NEW r \in rows'[d]
          PROVE  r.h <= target'.h /\ (d \in {"difficulty", "authorship"} => r.v = Rec)
      <3>1. r \in WrittenRows(d, b)
        BY <1>10 DEF CommitBlock
      <3>2. CASE r \in rows[d]
        BY <3>2, <1>2, <1>3 DEF StoreHonest
      <3>3. CASE r \notin rows[d]
        <4>1. PICK v \in b.recs[d] : r = [h |-> b.h, v |-> v, hash |-> b.hash, g |-> b.guards[d]]
          BY <3>1, <3>3 DEF WrittenRows
        <4>2. r.h = b.h /\ r.v = v /\ b.h \in Int
          BY <4>1, <2>1, ConstantFacts
        <4>3. d \in {"difficulty", "authorship"} => v = Rec
          BY <4>1, <1>10 DEF HonestBatch
        <4> QED BY <4>2, <4>3, <2>2, <1>2, <1>3
      <3> QED BY <3>2, <3>3
    <2>5. ASSUME NEW d \in Domains, NEW h \in proven'[d]
          PROVE  h <= target'.h /\ Owed(d, h) \subseteq Stored(d, h)'
      <3>1. proven'[d] = IF d \in b.completed THEN proven[d] \cup {b.h} ELSE proven[d]
        BY <1>10 DEF CommitBlock
      <3>2. CASE h \in proven[d]
        <4>1. h \in Height /\ h \in Int /\ h <= target.h /\ Owed(d, h) \subseteq Stored(d, h)
          BY <3>2, <1>2 DEF StoreHonest, TypeOK
        <4> QED BY <4>1, <1>2, <1>3, <1>10, StoredAfterCommit
      <3>3. CASE h = b.h /\ d \in b.completed
        <4>1. b.h \in Int
          BY <2>1, ConstantFacts
        <4> QED BY <3>3, <4>1, <2>1, <2>2, <1>2, <1>3, <1>10, StoredAfterCommit
      <3> QED BY <3>1, <3>2, <3>3
    <2>6. \A s \in scans' : /\ s.pin <= target'.h
                            /\ s.finished => QBlocks(s.pin) \subseteq s.found
                            /\ ~s.finished => s.cursor \subseteq s.found
      BY <1>2, <1>3, <1>10 DEF CommitBlock, StoreHonest
    <2>7. ASSUME NEW d \in Sparse PROVE cov'[d].start = 0
      <3>1. cov'[d] = IF d \in b.completed
                      THEN Cover(ReadCoverage(d, DefaultStart(d, b.h)), b.h, b.h) ELSE cov[d]
        BY <1>7, <1>10 DEF CommitBlock
      <3>2. DefaultStart(d, b.h) = 0
        BY <1>7 DEF DefaultStart
      <3> QED BY <3>1, <3>2, <1>7, <2>1, CoverKeeps
    <2> QED BY <1>6, <2>3, <2>4, <2>5, <2>6, <2>7 DEF Rest
  <1>11. ASSUME NEW d \in Domains, NEW pin \in Height, pin <= target.h, BeginScan(d, gen[d], pin)
         PROVE  StoreHonest'
    <2> DEFINE n == [d |-> d, g |-> gen[d], pin |-> pin, cursor |-> {}, found |-> {}, finished |-> FALSE]
    <2>1. n.pin = pin /\ ~n.finished /\ n.cursor \subseteq n.found /\ pin \in Int
      BY ConstantFacts
    <2>2. scans' = scans \cup {n}
      BY <1>11 DEF BeginScan
    <2> HIDE DEF n
    <2> QED BY <1>5, <1>6, <1>7, <1>11, <2>1, <2>2 DEF BeginScan
  <1>12. ASSUME NEW s \in scans, NEW P \in SUBSET (0 .. MaxHead), Page(P, QBlocks(s.pin) \ s.cursor),
                AppendScanPage(s, s.cursor, s.cursor \cup P, Exhausted(P), P)
         PROVE  StoreHonest'
    <2> DEFINE n == [s EXCEPT !.found = @ \cup P,
                              !.cursor = IF Exhausted(P) THEN {} ELSE s.cursor \cup P,
                              !.finished = Exhausted(P)]
    <2>1. scans' = (scans \ {s}) \cup {n} /\ ~s.finished
      BY <1>12 DEF AppendScanPage
    <2>2. /\ n.pin = s.pin /\ n.found = s.found \cup P /\ n.finished = Exhausted(P)
          /\ n.cursor = IF Exhausted(P) THEN {} ELSE s.cursor \cup P
      BY <1>2 DEF Scan
    <2> HIDE DEF n
    <2>3. s.pin \in Int /\ s.pin <= target.h /\ s.cursor \subseteq s.found
      BY <1>2, <2>1 DEF StoreHonest
    <2>4. Exhausted(P) => QBlocks(s.pin) \subseteq n.found
      <3>1. IsFiniteSet(QBlocks(s.pin) \ s.cursor)
        <4>1. IsFiniteSet(0 .. MaxHead)
          BY FS_Interval, ConstantFacts
        <4>2. QBlocks(s.pin) \ s.cursor \in SUBSET (0 .. MaxHead)
          BY DEF QBlocks
        <4> QED BY <4>1, <4>2, FS_Subset
      <3>2. Exhausted(P) => P = QBlocks(s.pin) \ s.cursor
        BY <1>12, <3>1, LastPage
      <3> QED BY <2>2, <2>3, <3>2
    <2>5. ~n.finished => n.cursor \subseteq n.found
      BY <2>2, <2>3
    <2> QED BY <1>5, <1>6, <1>7, <1>12, <2>1, <2>2, <2>3, <2>4, <2>5 DEF AppendScanPage
  <1>13. ASSUME NEW s \in scans, NEW d \in Domains, NEW a \in Height, NEW b \in Height,
                CommitRange(s, d, gen[d], a, b)
         PROVE  StoreHonest'
    <2> DEFINE c == Cover(ReadCoverage(d, 0), a, b)
    <2>1. a <= b /\ cov' = [cov EXCEPT ![d] = c]
      BY <1>13 DEF CommitRange, RangeAccepted
    <2>2. c.start = IF cov[d].gen = 0 THEN 0 ELSE cov[d].start
      BY <2>1, CoverKeeps, ConstantFacts
    <2> HIDE DEF c
    <2>3. \A e \in Sparse : cov'[e].start = 0
      BY <1>2, <1>7, <2>1, <2>2 DEF TypeOK
    <2> QED BY <1>4, <1>6, <1>13, <2>3 DEF CommitRange
  <1>14. ASSUME NEW d \in Domains, NEW h \in Height, MarkUnavailable(d, gen[d], h, BlockHash[h])
         PROVE  StoreHonest'
    <2>1. finalized' = [finalized EXCEPT ![h] = IF finalized[h] = NoHash THEN BlockHash[h] ELSE finalized[h]]
      BY <1>14 DEF MarkUnavailable
    <2>2. \A x \in Height : finalized'[x] \in {NoHash, BlockHash[x]}
      BY <1>2, <2>1 DEF StoreHonest, TypeOK
    <2>3. UNCHANGED <<rows, proven, scans, cov, target>>
      BY <1>14 DEF MarkUnavailable
    <2>4. Rest
      BY <2>2, <2>3 DEF StoreHonest, Stored, Rest
    <2> QED BY <1>6, <1>7, <2>3, <2>4
  <1>15. ASSUME NEW h \in Height, SetFinalizedTarget(h, BlockHash[h]) PROVE StoreHonest'
    BY <1>4, <1>6, <1>7, <1>15 DEF SetFinalizedTarget
  <1>16. ASSUME NEW D \in SUBSET Domains, Reindex(D) PROVE StoreHonest'
    <2>1. \A d \in Domains : d \in D => rows'[d] = {} /\ proven'[d] = {} /\ cov'[d] = ReindexedCoverage(d)
      BY <1>16 DEF Reindex
    <2>2. \A d \in Domains : d \notin D => rows'[d] = rows[d] /\ proven'[d] = proven[d] /\ cov'[d] = cov[d]
      BY <1>16 DEF Reindex
    <2>3. scans' \subseteq scans /\ UNCHANGED <<finalized, target>>
      BY <1>16 DEF Reindex
    <2>4. Rest
      BY <2>1, <2>2, <2>3 DEF StoreHonest, Stored, Rest
    <2>5. \A d \in Sparse : cov'[d].start = 0
      <3>1. Missing.start = 0 /\ \A d \in Sparse : ReindexedCoverage(d) = Missing
        BY <1>7 DEF ReindexedCoverage, Missing, EmptyCoverage
      <3> QED BY <1>7, <2>1, <2>2, <3>1
    <2> QED BY <1>6, <2>4, <2>5
  <1> QED BY <1>8, <1>9, <1>10, <1>11, <1>12, <1>13, <1>14, <1>15, <1>16 DEF Call
-----------------------------------------------------------------------------
(* What a step leaves in place *)

ProgressRecord == [finalized : OptHeight, committed : OptHeight]

LEMMA TypeFacts ==
    ASSUME IndexerInv
    PROVE  /\ chainHead \in Int /\ chainHead <= MaxHead /\ node.head \in Int /\ node.pruned \in Int
           /\ node.pruned >= None /\ node.head \in Height /\ node.pruned \in OptHeight
           /\ target.h \in Int /\ target.h <= chainHead /\ pending \in Int
           /\ announced.h \in Height /\ announced.h \in Int /\ target.h \in OptHeight
           /\ progress \in ProgressRecord
           /\ \A d \in Domains : gen[d] \in 1 .. MaxGen /\ gen[d] \in Nat /\ cov[d].floor \in Int
           /\ \A w \in Workers : lane[w] \in LaneRecord /\ LaneOK(lane[w])
  <1>1. TypeOK /\ LinkOK /\ StoreInv /\ StoreHonest /\ \A w \in Workers : LaneOK(lane[w])
    BY DEF IndexerInv, StoreInv
  <1>2. /\ chainHead \in 0 .. MaxHead /\ node.head \in 0 .. MaxHead /\ node.pruned \in OptHeight
        /\ target.h \in OptHeight /\ pending \in OptHeight /\ announced.h \in Height
        /\ target.h <= chainHead /\ progress \in ProgressRecord
    BY <1>1 DEF LinkOK, TypeOK, ProgressRecord
  <1>3. \A d \in Domains : gen[d] \in Nat /\ cov[d].floor \in OptHeight
    BY <1>1 DEF TypeOK, CoverageRecord
  <1>4. \A x \in OptHeight : x \in Int /\ x >= None
    BY U64MaxAssumption DEF OptHeight, Height, None
  <1>5. \A d \in Domains : gen[d] \in 1 .. MaxGen
    BY <1>1, GenerationFacts
  <1>6. chainHead \in Int /\ chainHead <= MaxHead /\ node.head \in Int /\ node.head \in Height
    <2>1. MaxHead \in Nat
      BY ConstantFacts
    <2>2. 0 .. MaxHead \subseteq Height
      BY ConstantFacts
    <2> QED BY <1>2, <2>1, <2>2
  <1>7. node.pruned \in Int /\ node.pruned >= None /\ target.h \in Int /\ pending \in Int
    BY <1>2, <1>4
  <1>8. announced.h \in Int
    BY <1>2, U64MaxAssumption DEF Height
  <1>9. \A d \in Domains : cov[d].floor \in Int
    BY <1>3, <1>4
  <1>10. \A w \in Workers : lane[w] \in LaneRecord /\ LaneOK(lane[w])
    BY <1>1 DEF LaneOK, LaneShape
  <1> QED BY <1>2, <1>3, <1>5, <1>6, <1>7, <1>8, <1>9, <1>10

\* A step that asks the store for something, or for nothing.
LEMMA StoreStep ==
    ASSUME IndexerInv, [Call]_storeVars
    PROVE  /\ Advance /\ StoreInv' /\ StoreHonest'
           /\ target'.h \in Int /\ target'.h >= target.h /\ target'.h <= chainHead
           /\ \A d \in Domains : gen'[d] \in Int /\ gen'[d] >= gen[d] /\ cov'[d].floor \in Int
  <1>1. target.h <= chainHead /\ chainHead \in Int /\ StoreInv /\ StoreHonest /\ target.h \in Int
    BY TypeFacts DEF IndexerInv
  <1>2. CASE Call
    <2>1. Advance /\ StoreInv' /\ StoreHonest'
      BY <1>1, <1>2, CallAdvances, CallKeepsStore, CallKeepsHonest
    <2>2. target'.h \in OptHeight /\ \A d \in Domains : gen'[d] \in Int /\ cov'[d].floor \in OptHeight
      BY <2>1 DEF StoreInv, TypeOK, CoverageRecord
    <2> QED BY <2>1, <2>2, ConstantFacts DEF Advance
  <1>3. CASE UNCHANGED storeVars
    <2>1. UNCHANGED <<gen, cov, rows, scans, marks, finalized, target, proven>>
      BY <1>3 DEF storeVars
    <2>2. StoreInv'
      BY <1>1, <2>1
         DEF StoreInv, TypeOK, MissingIsEmpty, CoverageReadable, Readable, OneIdentityPerHeight,
             OnlyCurrentGeneration, CoverageHasEvidence
    <2>3. StoreHonest'
      BY <1>1, <2>1 DEF StoreHonest, Stored
    <2>4. Advance
      BY <1>1, <2>1, TypeFacts DEF Advance
    <2> QED BY <1>1, <2>1, <2>2, <2>3, <2>4, TypeFacts
  <1> QED BY <1>2, <1>3

\* What a lane holds stays true while the other one works, the node discards state
\* and operators reindex.
LEMMA LaneKept ==
    ASSUME IndexerInv, [Call]_storeVars, conn' = conn,
           conn = "up" => node'.pruned \in Int /\ node.pruned <= node'.pruned,
           NEW l, LaneOK(l)
    PROVE  LaneOK(l)'
  <1>1. LaneShape(l) /\ LaneShape(l)'
    BY DEF LaneOK, LaneShape
  <1>2. /\ l.h \in Int /\ l.h \in Height /\ l.old \in Int
        /\ \A d \in Domains : l.guards[d] \in Int
    <2>1. l.h \in Height /\ l.old \in OptHeight /\ l.guards \in [Domains -> 0 .. MaxGen]
      BY <1>1 DEF LaneShape, LaneRecord, Guards
    <2>2. \A d \in Domains : l.guards[d] \in Int
      BY <2>1, StoreAssumption
    <2>3. l.h \in Int /\ l.old \in Int
      BY <2>1, U64MaxAssumption DEF Height, OptHeight, None
    <2> QED BY <2>1, <2>2, <2>3
  <1>3. ASSUME l.pc # "idle" PROVE LaneTrue(l)'
    <2>1. conn = "up" /\ LaneTrue(l)
      BY <1>3 DEF LaneOK
    <2>2. l.h <= target'.h
      BY <1>2, <2>1, StoreStep, TypeFacts DEF LaneTrue
    <2>3. \A d \in Domains : l.guards[d] <= gen'[d]
      BY <1>2, <2>1, StoreStep, TypeFacts DEF LaneTrue
    <2>4. l.pc \in {"floor", "setfloor"} => l.h <= node'.pruned /\ l.old <= node'.pruned
      BY <1>2, <2>1, TypeFacts DEF LaneTrue
    <2>5. ASSUME NEW d \in Domains \cap {"participation"}, l.guards[d] = gen'[d]
          PROVE  l.seen \subseteq Stored(d, l.h)'
      <3>1. gen'[d] = gen[d]
        BY <1>2, <2>1, <2>5, StoreStep, TypeFacts DEF LaneTrue
      <3>2. rows[d] \subseteq rows'[d]
        BY <3>1, StoreStep DEF Advance
      <3>3. l.seen \subseteq Stored(d, l.h)
        BY <2>1, <2>5, <3>1 DEF LaneTrue
      <3> QED BY <3>2, <3>3 DEF Stored
    <2> QED BY <2>2, <2>3, <2>4, <2>5 DEF LaneTrue
  <1> QED BY <1>1, <1>3 DEF LaneOK

LEMMA CommittedKept ==
    ASSUME IndexerInv, [Call]_storeVars,
           progress' \in {progress, [finalized |-> None, committed |-> None]}
             \/ \E f \in OptHeight : progress' = [progress EXCEPT !.finalized = f]
    PROVE  progress' \in ProgressRecord /\ CommittedOK'
  <1>1. progress \in ProgressRecord
    BY TypeFacts
  <1>2. progress' \in ProgressRecord /\ progress'.committed \in {progress.committed, None}
    BY <1>1, ConstantFacts DEF ProgressRecord
  <1>3. ~Reindexing => \A d \in Domains : Covered(cov[d]) \subseteq Covered(cov'[d])
    BY StoreStep DEF Advance
  <1> QED BY <1>2, <1>3 DEF IndexerInv, CommittedOK

LEMMA CommittedRaised ==
    ASSUME IndexerInv, [Call]_storeVars, NEW h \in Height, NEW f \in OptHeight,
           \E d \in Domains : h \in Covered(cov'[d]),
           progress' = [finalized |-> f, committed |-> Larger(progress.committed, h)]
    PROVE  progress' \in ProgressRecord /\ CommittedOK'
  <1>1. progress.committed \in OptHeight
    BY TypeFacts DEF ProgressRecord
  <1>2. Larger(progress.committed, h) \in {progress.committed, h}
    BY DEF Larger
  <1>3. progress' \in ProgressRecord /\ progress'.committed \in {progress.committed, h}
    BY <1>1, <1>2, ConstantFacts DEF ProgressRecord
  <1>4. ~Reindexing => \A d \in Domains : Covered(cov[d]) \subseteq Covered(cov'[d])
    BY StoreStep DEF Advance
  <1> QED BY <1>3, <1>4 DEF IndexerInv, CommittedOK

LEMMA FloorsKept ==
    ASSUME IndexerInv, [Call]_storeVars,
           conn' \in Connected => /\ conn \in Connected /\ setup' = setup
                                  /\ node'.pruned \in Int /\ node.pruned <= node'.pruned
    PROVE  FloorsOK'
  <1> SUFFICES ASSUME conn' \in Connected, NEW d \in Domains \ setup' PROVE cov'[d].floor <= node'.pruned
    BY DEF FloorsOK
  <1>1. cov[d].floor <= node.pruned /\ setup' = setup /\ node.pruned >= None /\ node.pruned \in Int
    BY TypeFacts DEF IndexerInv, FloorsOK
  <1>2. cov'[d].floor \in {cov[d].floor, None} \/ cov'[d].floor <= node.pruned
    BY StoreStep DEF Advance
  <1> QED BY <1>1, <1>2, StoreStep, TypeFacts, ConstantFacts

\* The link to the node survives a step that leaves it alone.
LEMMA LinkKept ==
    ASSUME IndexerInv, [Call]_storeVars,
           UNCHANGED <<chainHead, node, conn, setup, pending, announced>>, progress' \in ProgressRecord
    PROVE  LinkOK'
  <1>1. LinkOK
    BY DEF IndexerInv
  <1>2. conn = "up" => announced.h <= target'.h
    BY <1>1, StoreStep, TypeFacts DEF LinkOK
  <1> QED BY <1>1, <1>2, StoreStep DEF LinkOK, ProgressRecord

\* The backfill worker may change its step without changing what it works on.
LEMMA BackfillKept ==
    ASSUME IndexerInv, [Call]_storeVars, conn' = conn,
           bf' = bf, lane'["backfill"].pc # "idle" => bf.pc \in {"author", "replay"}
    PROVE  BackfillOK'
  <1>1. BackfillOK
    BY DEF IndexerInv
  <1>2. bf.tgt \in Int /\ bf.pin \in Int
    BY <1>1, ConstantFacts DEF BackfillOK, BackfillRecord
  <1>3. bf.pc # "off" => bf.tgt <= target'.h /\ bf.pin <= target'.h
    BY <1>1, <1>2, StoreStep, TypeFacts DEF BackfillOK
  <1> QED BY <1>1, <1>3 DEF BackfillOK

LEMMA IdleOK == LaneShape(Idle) /\ Idle.pc = "idle"
  BY ConstantFacts, StoreAssumption
     DEF Idle, NoGuards, LaneShape, LaneRecord, LanePc, Guards, Guarded

\* One lane is in a state of its own, the other where it was.
LEMMA Moves ==
    ASSUME IndexerInv, [Call]_storeVars, NEW w \in Workers, NEW l,
           UNCHANGED <<chainHead, node, conn, setup, pending, announced>>,
           lane' = [lane EXCEPT ![w] = l], LaneOK(l)', BackfillOK',
           progress' \in ProgressRecord, CommittedOK'
    PROVE  IndexerInv'
  <1>1. lane \in [Workers -> LaneRecord] /\ \A v \in Workers : LaneOK(lane[v])
    BY DEF IndexerInv
  <1>2. l \in LaneRecord /\ \A v \in Workers : lane'[v] = IF v = w THEN l ELSE lane[v]
    BY <1>1 DEF LaneOK, LaneShape
  <1>3. lane' \in [Workers -> LaneRecord]
    BY <1>1, <1>2
  <1>4. \A v \in Workers : LaneOK(lane[v])'
    <2>1. ASSUME NEW x, LaneOK(x) PROVE LaneOK(x)'
      BY <2>1, LaneKept, TypeFacts
    <2> QED BY <1>1, <1>2, <2>1
  <1>5. FloorsOK' /\ LinkOK'
    BY FloorsKept, LinkKept, TypeFacts
  <1> QED BY <1>3, <1>4, <1>5, StoreStep DEF IndexerInv

\* Neither lane moves.
LEMMA Rests ==
    ASSUME IndexerInv, [Call]_storeVars, lane' = lane,
           UNCHANGED <<chainHead, node, conn, setup, pending, announced>>, BackfillOK',
           progress' \in ProgressRecord, CommittedOK'
    PROVE  IndexerInv'
  <1>1. "live" \in Workers /\ lane \in [Workers -> LaneRecord] /\ LaneOK(lane["live"])
    BY DEF IndexerInv, Workers
  <1>2. PICK l : l = lane["live"]
    OBVIOUS
  <1>3. LaneOK(l) /\ lane' = [lane EXCEPT !["live"] = l]
    BY <1>1, <1>2
  <1>4. LaneOK(l)'
    BY <1>3, LaneKept, TypeFacts
  <1> QED BY <1>1, <1>3, <1>4, Moves

\* process() goes on with the same block.
LEMMA Proceeds ==
    ASSUME IndexerInv, [Call]_storeVars, NEW w \in Workers, NEW m, m = lane[w], NEW l,
           UNCHANGED <<chainHead, node, conn, setup, pending, announced, bf>>,
           lane' = [lane EXCEPT ![w] = l], progress' \in ProgressRecord, CommittedOK',
           m.pc # "idle", LaneShape(l), l.pc # "idle", l.h = m.h,
           \A d \in Domains : l.guards[d] \in {m.guards[d], 0, gen[d]},
           l.pc \in {"floor", "setfloor"} => l.h <= node.pruned /\ l.old <= node.pruned,
           l.seen = {} \/ (l.seen = m.seen /\ l.guards = m.guards)
    PROVE  IndexerInv'
  <1>1. LaneOK(m) /\ LaneOK(m)' /\ conn = "up"
    <2>1. LaneOK(m)
      BY DEF IndexerInv
    <2>2. LaneOK(m)'
      BY <2>1, LaneKept, TypeFacts
    <2> QED BY <2>1, <2>2 DEF LaneOK
  <1>2. LaneTrue(m)'
    BY <1>1 DEF LaneOK
  <1>3. \A d \in Domains : l.guards[d] <= gen'[d]
    <2>1. \A d \in Domains : m.guards[d] <= gen'[d]
      BY <1>2 DEF LaneTrue
    <2>2. \A d \in Domains : gen[d] <= gen'[d] /\ 0 <= gen'[d]
      BY StoreStep, TypeFacts
    <2> QED BY <2>1, <2>2
  <1>4. LaneTrue(l)'
    BY <1>2, <1>3 DEF LaneTrue
  <1>5. LaneOK(l)'
    BY <1>1, <1>4 DEF LaneOK, LaneShape
  <1>6. BackfillOK'
    <2>1. "backfill" \in Workers /\ lane \in [Workers -> LaneRecord]
          /\ (lane["backfill"].pc # "idle" => bf.pc \in {"author", "replay"})
      BY DEF IndexerInv, BackfillOK, Workers
    <2>2. lane'["backfill"].pc # "idle" => bf.pc \in {"author", "replay"}
      BY <2>1
    <2> QED BY <2>2, BackfillKept
  <1> QED BY <1>5, <1>6, Moves

\* process() is over; the backfill worker looks at what it has got.
LEMMA Finishes ==
    ASSUME IndexerInv, [Call]_storeVars, NEW w \in Workers, lane[w].pc # "idle",
           UNCHANGED <<chainHead, node, conn, setup, pending, announced>>,
           lane' = [lane EXCEPT ![w] = Idle], progress' \in ProgressRecord, CommittedOK',
           bf' = IF w = "live" THEN bf
                 ELSE [bf EXCEPT !.pc = IF bf.pc = "author" THEN "sparse" ELSE "check"]
    PROVE  IndexerInv'
  <1>1. LaneOK(Idle)'
    BY IdleOK DEF LaneOK, LaneShape
  <1>2. lane \in [Workers -> LaneRecord] /\ BackfillOK /\ bf \in BackfillRecord
    BY DEF IndexerInv, BackfillOK
  <1>3. CASE w = "live"
    <2>1. lane'["backfill"] = lane["backfill"]
      BY <1>2, <1>3 DEF Workers
    <2>2. BackfillOK'
      BY <1>2, <1>3, <2>1, BackfillKept DEF BackfillOK
    <2> QED BY <1>1, <2>2, Moves
  <1>4. CASE w = "backfill"
    <2>1. lane'["backfill"].pc = "idle" /\ bf.pc \in {"author", "replay"}
      BY <1>2, <1>4, IdleOK DEF BackfillOK, Workers
    <2> DEFINE p == IF bf.pc = "author" THEN "sparse" ELSE "check"
    <2>2. bf' = [bf EXCEPT !.pc = p] /\ p \in {"sparse", "check"} /\ (p = "check" => bf.pc = "replay")
      BY <1>4, <2>1
    <2> HIDE DEF p
    <2>3. /\ bf' \in BackfillRecord /\ bf'.pc = p
          /\ bf'.tgt = bf.tgt /\ bf'.pin = bf.pin /\ bf'.d = bf.d /\ bf'.g = bf.g
          /\ bf'.ceil = bf.ceil /\ bf'.last = bf.last
      BY <1>2, <2>2 DEF BackfillRecord, ChunkPc
    <2>4. bf.tgt \in Int /\ bf.pin \in Int
      BY <1>2, ConstantFacts DEF BackfillRecord
    <2>5. conn = "up" /\ bf.tgt <= target'.h /\ bf.pin <= target'.h
      BY <1>2, <2>1, <2>4, StoreStep, TypeFacts DEF BackfillOK
    <2>6. bf'.pc = "check" => bf.d \in Sparse /\ bf.g # 0 /\ bf.last # None
      BY <1>2, <2>2, <2>3 DEF BackfillOK, ChunkPc
    <2>7. BackfillOK'
      BY <1>2, <2>1, <2>2, <2>3, <2>5, <2>6 DEF BackfillOK, ChunkPc
    <2> QED BY <1>1, <2>7, Moves
  <1> QED BY <1>3, <1>4 DEF Workers

LEMMA OffOK == Off \in BackfillRecord /\ Off.pc = "off" /\ Off.last = None /\ Off.ceil = 0 /\ Off.pin = 0
  BY ConstantFacts, StoreAssumption DEF Off, BackfillRecord

\* A connection that ends takes everything but the store and the progress with it.
LEMMA Drops ==
    ASSUME IndexerInv, [Call]_storeVars, UNCHANGED <<chainHead, node>>, LanesDropped,
           conn' \in {"down", "dead"},
           progress' \in {progress, [finalized |-> None, committed |-> None]}
    PROVE  IndexerInv'
  <1>1. progress' \in ProgressRecord /\ CommittedOK'
    BY CommittedKept
  <1>2. lane' \in [Workers -> LaneRecord] /\ \A v \in Workers : lane'[v] = Idle
    BY IdleOK DEF LanesDropped, Workers, LaneShape
  <1>3. \A v \in Workers : LaneOK(lane[v])'
    BY <1>2, IdleOK DEF LaneOK, LaneShape
  <1>4. BackfillOK'
    BY <1>2, OffOK, IdleOK, ConstantFacts DEF BackfillOK, LanesDropped, Workers, ChunkPc
  <1>5. FloorsOK'
    BY DEF FloorsOK, Connected
  <1>6. LinkOK'
    <2>1. LinkOK
      BY DEF IndexerInv
    <2>2. pending' \in OptHeight /\ pending' <= chainHead' /\ announced' \in [h : Height, fresh : BOOLEAN]
      BY <2>1, ConstantFacts, TypeFacts DEF LinkOK, LanesDropped
    <2> QED BY <1>1, <2>1, <2>2, StoreStep DEF LinkOK, LanesDropped, ProgressRecord
  <1> QED BY <1>1, <1>2, <1>3, <1>4, <1>5, <1>6, StoreStep DEF IndexerInv

LEMMA Returns ==
    ASSUME IndexerInv, [Call]_storeVars, NEW w \in Workers, lane[w].pc # "idle",
           UNCHANGED <<chainHead, node>>, NEW result, Return(w, result)
    PROVE  IndexerInv'
  <1>1. CASE w = "backfill" \/ result = "ok"
    <2>1. /\ UNCHANGED linkVars /\ lane' = [lane EXCEPT ![w] = Idle]
          /\ bf' = IF w = "live" THEN bf
                   ELSE [bf EXCEPT !.pc = IF bf.pc = "author" THEN "sparse" ELSE "check"]
      BY <1>1 DEF Return, Workers
    <2>2. progress' \in ProgressRecord /\ CommittedOK'
      BY <2>1, CommittedKept DEF linkVars
    <2> QED BY <2>1, <2>2, Finishes DEF linkVars
  <1>2. CASE ~(w = "backfill" \/ result = "ok")
    BY <1>2, Drops DEF Return, Disconnected
  <1> QED BY <1>1, <1>2

LEMMA Stops ==
    ASSUME IndexerInv, UNCHANGED storeVars, NEW w \in Workers, lane[w].pc # "idle",
           UNCHANGED <<chainHead, node>>, NEW stale, Refused(w, stale)
    PROVE  IndexerInv'
  BY Returns, Drops DEF Refused, Stopped

\* The domain the array has first among some is one of them.
LEMMA FirstDomainFacts ==
    ASSUME NEW D \in SUBSET Domains, D # {}
    PROVE  FirstDomain(D) \in D
  <1>1. \A d \in D : Order[d] \in Nat
    BY StoreAssumption DEF Order, DomainNames
  <1>2. PICK n \in {Order[d] : d \in D} : \A k \in {Order[d] : d \in D} : n <= k
    BY ZenonT(40), <1>1, LeastExists
  <1>3. \E d \in D : \A e \in D : Order[d] <= Order[e]
    BY <1>2
  <1> QED BY <1>3 DEF FirstDomain

-----------------------------------------------------------------------------
(* process() *)

LEMMA LaneFacts ==
    ASSUME IndexerInv, NEW w \in Workers, NEW m, m = lane[w], m.pc # "idle"
    PROVE  /\ LaneShape(m) /\ LaneTrue(m) /\ conn = "up" /\ m \in LaneRecord
           /\ m.h \in Height /\ m.h \in Int /\ m.pin \in Height /\ m.old \in OptHeight /\ m.old \in Int
           /\ m.todo \subseteq Domains /\ m.done \subseteq Domains /\ m.seen \subseteq Values
           /\ m.guards \in [Domains -> 0 .. MaxGen] /\ Guarded(m) \subseteq Domains
           /\ m.h <= target.h
  <1>1. LaneShape(m) /\ LaneTrue(m) /\ conn = "up" /\ m \in LaneRecord
    BY DEF IndexerInv, LaneOK, LaneShape
  <1>2. /\ m.h \in Height /\ m.pin \in Height /\ m.old \in OptHeight
        /\ m.todo \subseteq Domains /\ m.done \subseteq Domains /\ m.seen \subseteq Values
        /\ m.guards \in [Domains -> 0 .. MaxGen]
    BY <1>1 DEF LaneRecord, Guards
  <1>3. m.h \in Int /\ m.old \in Int
    BY <1>2, U64MaxAssumption DEF Height, OptHeight, None
  <1> QED BY <1>1, <1>2, <1>3 DEF Guarded, LaneTrue

\* process() goes on, and no progress is reported.
LEMMA QuietlyProceeds ==
    ASSUME IndexerInv, [Call]_storeVars, NEW w \in Workers, NEW m, m = lane[w], NEW l,
           UNCHANGED <<chainHead, node>>, Proceed(w, l),
           m.pc # "idle", LaneShape(l), l.pc # "idle", l.h = m.h,
           \A d \in Domains : l.guards[d] \in {m.guards[d], 0, gen[d]},
           l.pc \in {"floor", "setfloor"} => l.h <= node.pruned /\ l.old <= node.pruned,
           l.seen = {} \/ (l.seen = m.seen /\ l.guards = m.guards)
    PROVE  IndexerInv'
  <1>1. progress' \in ProgressRecord /\ CommittedOK'
    BY CommittedKept DEF Proceed, linkVars
  <1> QED BY <1>1, Proceeds DEF Proceed, linkVars

LEMMA ReadGenerationKeeps ==
    ASSUME IndexerInv, NEW w \in Workers, ReadGeneration(w)
    PROVE  [Call]_storeVars /\ IndexerInv'
  <1>1. PICK m : m = lane[w]
    OBVIOUS
  <1>2. m.pc = "guard" /\ UNCHANGED storeVars /\ UNCHANGED <<chainHead, node>>
    BY <1>1 DEF ReadGeneration, envVars
  <1>3. LaneShape(m) /\ m \in LaneRecord /\ m.todo # {} /\ m.todo \subseteq Domains /\ m.done = {} /\ m.seen = {}
        /\ m.guards \in [Domains -> 0 .. MaxGen] /\ m.old = None
    BY <1>1, <1>2, LaneFacts DEF LaneShape
  <1> DEFINE d == FirstDomain(m.todo)
  <1>4. d \in Domains /\ gen[d] \in 0 .. MaxGen
    BY <1>3, FirstDomainFacts, TypeFacts
  <1> DEFINE k == [m EXCEPT !.pc = "current", !.guards[d] = gen[d]]
  <1>5. PICK l : l = k
    OBVIOUS
  <1>6. Proceed(w, l)
    BY <1>1, <1>5 DEF ReadGeneration
  <1> HIDE DEF d
  <1>7. /\ l.pc = "current" /\ l.h = m.h /\ l.pin = m.pin /\ l.todo = m.todo /\ l.done = m.done
        /\ l.seen = m.seen /\ l.old = m.old /\ l.guards = [m.guards EXCEPT ![d] = gen[d]]
        /\ l \in LaneRecord
    BY <1>3, <1>4, <1>5 DEF LaneRecord, LanePc, Guards
  <1>8. LaneShape(l)
    BY <1>3, <1>7 DEF LaneShape
  <1>9. \A e \in Domains : l.guards[e] \in {m.guards[e], 0, gen[e]}
    BY <1>3, <1>7
  <1> QED BY <1>1, <1>2, <1>3, <1>6, <1>7, <1>8, <1>9, QuietlyProceeds

LEMMA ReadGuardKeeps ==
    ASSUME IndexerInv, NEW w \in Workers, ReadGuard(w)
    PROVE  [Call]_storeVars /\ IndexerInv'
  <1>1. PICK m : m = lane[w]
    OBVIOUS
  <1>2. m.pc = "current" /\ UNCHANGED storeVars /\ UNCHANGED <<chainHead, node>>
    BY <1>1 DEF ReadGuard, envVars
  <1>3. LaneShape(m) /\ m \in LaneRecord /\ m.todo # {} /\ m.todo \subseteq Domains /\ m.done = {} /\ m.seen = {}
        /\ m.guards \in [Domains -> 0 .. MaxGen] /\ m.old = None
    BY <1>1, <1>2, LaneFacts DEF LaneShape
  <1> DEFINE d == FirstDomain(m.todo)
  <1>4. d \in Domains
    BY <1>3, FirstDomainFacts
  <1> DEFINE k == [m EXCEPT !.pc = "guard", !.todo = @ \ {d},
                            !.guards[d] = IF Settled(d, @, m.h) THEN 0 ELSE @]
  <1>5. PICK l : l = k
    OBVIOUS
  <1>6. IF l.todo # {} THEN Proceed(w, l)
        ELSE IF Guarded(l) # {} THEN Proceed(w, [l EXCEPT !.pc = "decode"])
        ELSE Return(w, "ok")
    BY <1>1, <1>5 DEF ReadGuard
  <1> HIDE DEF d
  <1>7. PICK x : x = IF Settled(d, m.guards[d], m.h) THEN 0 ELSE m.guards[d]
    OBVIOUS
  <1>8. x \in 0 .. MaxGen /\ x \in {0, m.guards[d]} /\ l = [m EXCEPT !.pc = "guard", !.todo = m.todo \ {d}, !.guards[d] = x]
    BY <1>3, <1>4, <1>5, <1>7, StoreAssumption DEF LaneRecord
  <1>9. /\ l.pc = "guard" /\ l.h = m.h /\ l.todo \subseteq Domains /\ l.done = {}
        /\ l.seen = {} /\ l.old = None /\ l.guards = [m.guards EXCEPT ![d] = x]
        /\ l \in LaneRecord
    BY <1>3, <1>4, <1>8 DEF LaneRecord, LanePc, Guards
  <1>10. \A e \in Domains : l.guards[e] \in {m.guards[e], 0, gen[e]}
    BY <1>3, <1>8, <1>9
  <1>11. CASE l.todo # {}
    <2>1. LaneShape(l)
      BY <1>9, <1>11 DEF LaneShape
    <2> QED BY <1>1, <1>2, <1>6, <1>9, <1>10, <1>11, <2>1, QuietlyProceeds
  <1>12. CASE l.todo = {} /\ Guarded(l) # {}
    <2>1. PICK n : n = [l EXCEPT !.pc = "decode"]
      OBVIOUS
    <2>2. /\ n.pc = "decode" /\ n.h = l.h /\ n.todo = l.todo /\ n.done = l.done
          /\ n.seen = l.seen /\ n.old = l.old /\ n.guards = l.guards /\ n \in LaneRecord
      BY <1>9, <2>1 DEF LaneRecord, LanePc
    <2>3. LaneShape(n)
      <3>1. Guarded(n) # {}
        BY <1>12, <2>2 DEF Guarded
      <3> QED BY <1>9, <2>2, <3>1 DEF LaneShape
    <2> QED BY ZenonT(40), <1>1, <1>2, <1>6, <1>9, <1>10, <1>12, <2>1, <2>2, <2>3, QuietlyProceeds
  <1>13. CASE l.todo = {} /\ Guarded(l) = {}
    BY <1>1, <1>2, <1>6, <1>13, Returns
  <1> QED BY <1>11, <1>12, <1>13

LEMMA DecodeBlockKeeps ==
    ASSUME IndexerInv, NEW w \in Workers, DecodeBlock(w)
    PROVE  [Call]_storeVars /\ IndexerInv'
  <1>1. PICK m : m = lane[w]
    OBVIOUS
  <1>2. m.pc = "decode" /\ UNCHANGED storeVars /\ UNCHANGED <<chainHead, node>>
    BY <1>1 DEF DecodeBlock, envVars
  <1>3. LaneShape(m) /\ m \in LaneRecord /\ Guarded(m) \subseteq Domains /\ m.old = None
    BY <1>1, <1>2, LaneFacts DEF LaneShape
  <1>4. CASE m.h > node.head
    BY <1>1, <1>2, <1>4, Drops DEF DecodeBlock, Stopped
  <1>5. CASE ~(m.h > node.head) /\ StatePruned(m.h)
    <2>1. PICK l : l = [m EXCEPT !.pc = "floor", !.todo = Guarded(m)]
      OBVIOUS
    <2>2. Proceed(w, l)
      BY <1>1, <1>5, <2>1 DEF DecodeBlock
    <2>3. /\ l.pc = "floor" /\ l.h = m.h /\ l.todo = Guarded(m) /\ l.done = m.done
          /\ l.seen = m.seen /\ l.old = None /\ l.guards = m.guards /\ l \in LaneRecord
          /\ Guarded(l) = Guarded(m)
      BY <1>3, <2>1 DEF LaneRecord, LanePc, Guarded
    <2>4. LaneShape(l)
      BY <1>2, <1>3, <2>3 DEF LaneShape
    <2>5. l.h <= node.pruned /\ l.old <= node.pruned
      BY <1>5, <2>3, TypeFacts DEF StatePruned
    <2> QED BY <1>1, <1>2, <2>2, <2>3, <2>4, <2>5, QuietlyProceeds
  <1>6. CASE ~(m.h > node.head) /\ ~StatePruned(m.h)
    <2>1. PICK l : l = [m EXCEPT !.pc = "domains", !.todo = Guarded(m) \ {"participation"}]
      OBVIOUS
    <2>2. Proceed(w, l)
      BY <1>1, <1>6, <2>1 DEF DecodeBlock
    <2>3. /\ l.pc = "domains" /\ l.h = m.h /\ l.todo = Guarded(m) \ {"participation"} /\ l.done = m.done
          /\ l.seen = m.seen /\ l.old = None /\ l.guards = m.guards /\ l \in LaneRecord
          /\ Guarded(l) = Guarded(m)
      BY <1>3, <2>1 DEF LaneRecord, LanePc, Guarded
    <2>4. LaneShape(l)
      BY <1>2, <1>3, <2>3 DEF LaneShape
    <2> QED BY <1>1, <1>2, <2>2, <2>3, <2>4, QuietlyProceeds
  <1> QED BY <1>4, <1>5, <1>6

LEMMA ReadFloorKeeps ==
    ASSUME IndexerInv, NEW w \in Workers, ReadFloor(w)
    PROVE  [Call]_storeVars /\ IndexerInv'
  <1>1. PICK m : m = lane[w]
    OBVIOUS
  <1>2. m.pc = "floor" /\ UNCHANGED storeVars /\ UNCHANGED <<chainHead, node>>
    BY <1>1 DEF ReadFloor, envVars
  <1>3. LaneShape(m) /\ m \in LaneRecord /\ m.todo # {} /\ m.todo \subseteq Domains /\ conn = "up"
        /\ m.h <= node.pruned
    BY <1>1, <1>2, LaneFacts DEF LaneShape, LaneTrue
  <1>4. PICK d \in Domains : d = FirstDomain(m.todo)
    BY <1>3, FirstDomainFacts
  <1>5. cov[d].floor <= node.pruned /\ cov[d].floor \in OptHeight
    BY <1>3 DEF IndexerInv, FloorsOK, LinkOK, Connected, StoreInv, TypeOK, CoverageRecord
  <1>6. PICK l : l = [m EXCEPT !.pc = "setfloor", !.old = cov[d].floor]
    OBVIOUS
  <1>7. Proceed(w, l)
    BY <1>1, <1>4, <1>6 DEF ReadFloor
  <1>8. /\ l.pc = "setfloor" /\ l.h = m.h /\ l.todo = m.todo /\ l.done = m.done
        /\ l.seen = m.seen /\ l.old = cov[d].floor /\ l.guards = m.guards /\ l \in LaneRecord
        /\ Guarded(l) = Guarded(m)
    BY <1>3, <1>5, <1>6 DEF LaneRecord, LanePc, Guarded
  <1>9. LaneShape(l)
    BY <1>2, <1>3, <1>8 DEF LaneShape
  <1> QED BY <1>1, <1>2, <1>3, <1>5, <1>7, <1>8, <1>9, QuietlyProceeds

LEMMA RaiseFloorKeeps ==
    ASSUME IndexerInv, NEW w \in Workers, RaiseFloor(w)
    PROVE  [Call]_storeVars /\ IndexerInv'
  <1>1. PICK m : m = lane[w]
    OBVIOUS
  <1>2. m.pc = "setfloor" /\ UNCHANGED <<chainHead, node>>
    BY <1>1 DEF RaiseFloor, envVars
  <1>3. LaneShape(m) /\ m \in LaneRecord /\ m.todo # {} /\ m.todo \subseteq Domains /\ conn = "up"
        /\ m.h <= node.pruned /\ m.old <= node.pruned /\ m.h \in Height /\ m.old \in OptHeight
        /\ m.todo \subseteq Guarded(m)
    BY <1>1, <1>2, LaneFacts DEF LaneShape, LaneTrue
  <1>4. PICK d \in Domains : d = FirstDomain(m.todo)
    BY <1>3, FirstDomainFacts
  <1>5. PICK l : l = [m EXCEPT !.todo = @ \ {d}, !.pc = "floor", !.old = None]
    OBVIOUS
  <1>6. /\ l.pc = "floor" /\ l.h = m.h /\ l.todo = m.todo \ {d} /\ l.done = m.done
        /\ l.seen = m.seen /\ l.old = None /\ l.guards = m.guards /\ l \in LaneRecord
        /\ Guarded(l) = Guarded(m)
    BY <1>3, <1>5, ConstantFacts DEF LaneRecord, LanePc, Guarded
  <1> DEFINE floor == Larger(m.old, l.h)
  <1>7. floor \in OptHeight /\ floor <= node.pruned
    BY <1>3, <1>6, ConstantFacts DEF Larger
  <1>8. IF l.guards[d] # gen[d] THEN Refused(w, TRUE)
        ELSE /\ SetPrunedFloor(d, l.guards[d], floor)
             /\ IF l.todo = {} THEN Return(w, "ok") ELSE Proceed(w, l)
    BY <1>1, <1>4, <1>5 DEF RaiseFloor
  <1> HIDE DEF floor
  <1>9. CASE l.guards[d] # gen[d]
    BY <1>1, <1>2, <1>8, <1>9, Stops DEF Refused
  <1>10. CASE l.guards[d] = gen[d]
    <2>1. SetPrunedFloor(d, gen[d], floor)
      BY <1>8, <1>10
    <2>2. Call
      BY <1>3, <1>7, <2>1 DEF Call
    <2>3. CASE l.todo = {}
      BY <1>1, <1>2, <1>8, <1>10, <2>2, <2>3, Returns
    <2>4. CASE l.todo # {}
      <3>1. LaneShape(l)
        BY <1>2, <1>3, <1>6, <2>4 DEF LaneShape
      <3>2. l.h <= node.pruned /\ l.old <= node.pruned
        BY <1>3, <1>6, TypeFacts
      <3> QED BY <1>1, <1>2, <1>6, <1>8, <1>10, <2>2, <2>4, <3>1, <3>2, QuietlyProceeds
    <2> QED BY <2>3, <2>4
  <1> QED BY <1>9, <1>10
\* The lane after one domain works on the others.
LEMMA AfterDomainKeeps ==
    ASSUME IndexerInv, [Call]_storeVars, NEW w \in Workers, NEW m, m = lane[w], m.pc = "domains",
           UNCHANGED <<chainHead, node>>, NEW d \in m.todo, NEW c \in BOOLEAN,
           Proceed(w, AfterDomain(m, d, c))
    PROVE  IndexerInv'
  <1>1. LaneShape(m) /\ m \in LaneRecord /\ m.todo \subseteq Domains /\ m.done \subseteq Domains /\ m.old = None
        /\ m.todo \subseteq Guarded(m) /\ "participation" \notin m.todo
    BY LaneFacts DEF LaneShape
  <1>2. PICK p \in {"commit", "domains"} : p = IF m.todo = {d} THEN "commit" ELSE "domains"
    OBVIOUS
  <1>3. PICK D \in SUBSET Domains : D = IF c THEN m.done \cup {d} ELSE m.done
    BY <1>1
  <1>4. PICK l : l = AfterDomain(m, d, c)
    OBVIOUS
  <1>5. l = [m EXCEPT !.todo = m.todo \ {d}, !.done = D, !.pc = p]
    BY <1>1, <1>2, <1>3, <1>4 DEF AfterDomain, LaneRecord
  <1>6. /\ l.pc = p /\ l.h = m.h /\ l.todo = m.todo \ {d} /\ l.done = D
        /\ l.seen = m.seen /\ l.old = None /\ l.guards = m.guards /\ l \in LaneRecord
        /\ Guarded(l) = Guarded(m)
    BY <1>1, <1>5 DEF LaneRecord, LanePc, Guarded
  <1>7. LaneShape(l)
    BY <1>1, <1>3, <1>6 DEF LaneShape
  <1> QED BY <1>4, <1>6, <1>7, QuietlyProceeds

LEMMA EnrichDomainKeeps ==
    ASSUME IndexerInv, NEW w \in Workers, EnrichDomain(w)
    PROVE  [Call]_storeVars /\ IndexerInv'
  <1>1. PICK m : m = lane[w]
    OBVIOUS
  <1>2. m.pc = "domains" /\ UNCHANGED <<chainHead, node>>
    BY <1>1 DEF EnrichDomain, envVars
  <1>3. LaneShape(m) /\ m \in LaneRecord /\ m.todo \subseteq Domains /\ m.h \in Height /\ m.old = None
        /\ m.todo \subseteq Guarded(m) /\ "participation" \notin m.todo
    BY <1>1, <1>2, LaneFacts DEF LaneShape
  <1>4. CASE m.todo = {}
    <2>1. PICK l : l = [m EXCEPT !.pc = "commit"]
      OBVIOUS
    <2>2. Proceed(w, l) /\ UNCHANGED storeVars
      BY <1>1, <1>4, <2>1 DEF EnrichDomain
    <2>3. /\ l.pc = "commit" /\ l.h = m.h /\ l.todo = m.todo /\ l.done = m.done
          /\ l.seen = m.seen /\ l.old = None /\ l.guards = m.guards /\ l \in LaneRecord
          /\ Guarded(l) = Guarded(m)
      BY <1>3, <2>1 DEF LaneRecord, LanePc, Guarded
    <2>4. LaneShape(l)
      BY <1>3, <2>3 DEF LaneShape
    <2> QED BY <1>1, <1>2, <2>2, <2>3, <2>4, QuietlyProceeds
  <1>5. CASE m.todo # {}
    <2>1. PICK d \in m.todo : d = FirstDomain(m.todo)
      BY <1>3, <1>5, FirstDomainFacts
    <2>2. d \in Domains
      BY <1>3
    <2>3. PICK result : result = Enrichment(d, m.h, m.pin)
      OBVIOUS
    <2>4. IF result # "unavailable"
          THEN Proceed(w, AfterDomain(m, d, result = "complete")) /\ UNCHANGED storeVars
          ELSE IF m.guards[d] # gen[d] THEN Refused(w, TRUE)
          ELSE IF \E x \in Identities(m.h) : x # BlockHash[m.h] THEN Refused(w, FALSE)
          ELSE /\ Proceed(w, AfterDomain(m, d, FALSE))
               /\ IF Contains(ReadCoverage(d, 0), m.h, m.h) THEN UNCHANGED storeVars
                  ELSE MarkUnavailable(d, m.guards[d], m.h, BlockHash[m.h])
      BY <1>1, <1>5, <2>1, <2>3 DEF EnrichDomain
    <2>5. ASSUME NEW c \in BOOLEAN, Proceed(w, AfterDomain(m, d, c)), [Call]_storeVars PROVE IndexerInv'
      BY <1>1, <1>2, <2>5, AfterDomainKeeps
    <2>6. CASE result # "unavailable"
      <3>1. (result = "complete") \in BOOLEAN
        OBVIOUS
      <3> QED BY <2>4, <2>5, <2>6, <3>1
    <2>7. CASE result = "unavailable" /\ Refused(w, TRUE)
      BY <1>1, <1>2, <2>7, Stops DEF Refused
    <2>8. CASE result = "unavailable" /\ Refused(w, FALSE)
      BY <1>1, <1>2, <2>8, Stops DEF Refused
    <2>9. CASE /\ m.guards[d] = gen[d] /\ Proceed(w, AfterDomain(m, d, FALSE))
               /\ UNCHANGED storeVars \/ MarkUnavailable(d, m.guards[d], m.h, BlockHash[m.h])
      <3>1. [Call]_storeVars
        BY <1>3, <2>2, <2>9 DEF Call
      <3> QED BY <2>5, <2>9, <3>1
    <2> QED BY <2>4, <2>6, <2>7, <2>8, <2>9
  <1> QED BY <1>4, <1>5
\* An accepted, honest batch covers its height in the domains it completes.
LEMMA CommitCovers ==
    ASSUME StoreInv, NEW b \in Batch, CommitBlock(b), b.completed # {}
    PROVE  \E d \in Domains : b.h \in Covered(cov'[d])
  <1>1. PICK d \in b.completed : TRUE
    OBVIOUS
  <1>2. d \in Domains /\ CommitAccepted(b)
    BY DEF Batch, CommitBlock
  <1>3. cov'[d] = Cover(ReadCoverage(d, DefaultStart(d, b.h)), b.h, b.h)
    BY <1>2 DEF CommitBlock
  <1> QED BY <1>2, <1>3, CommittedCoverage

LEMMA CommitDecodedKeeps ==
    ASSUME IndexerInv, NEW w \in Workers, CommitDecoded(w)
    PROVE  [Call]_storeVars /\ IndexerInv'
  <1>1. PICK m : m = lane[w]
    OBVIOUS
  <1>2. m.pc = "commit" /\ UNCHANGED <<chainHead, node>>
    BY <1>1 DEF CommitDecoded, envVars
  <1>3. LaneShape(m) /\ m \in LaneRecord /\ m.h \in Height /\ m.h <= target.h /\ m.old = None
        /\ m.guards \in [Domains -> 0 .. MaxGen] /\ m.done \subseteq Domains
        /\ m.done \subseteq Guarded(m) \ {"participation"}
    BY <1>1, <1>2, LaneFacts DEF LaneShape
  <1>4. PICK n : n = [m EXCEPT !.pc = "part"]
    OBVIOUS
  <1>5. /\ n.pc = "part" /\ n.h = m.h /\ n.todo = m.todo /\ n.done = m.done
        /\ n.seen = m.seen /\ n.old = None /\ n.guards = m.guards /\ n \in LaneRecord
        /\ Guarded(n) = Guarded(m)
    BY <1>3, <1>4 DEF LaneRecord, LanePc, Guarded
  <1>6. LaneShape(n)
    BY <1>3, <1>5 DEF LaneShape
  <1> DEFINE recs == [d \in Domains |-> IF d \in m.done THEN RecordOf(d, m.h) ELSE {}]
  <1> DEFINE batch == [h |-> m.h, hash |-> BlockHash[m.h], guards |-> m.guards,
                       recs |-> recs, completed |-> m.done]
  <1>7. PICK b : b = batch
    OBVIOUS
  <1>8. IF m.done = {} THEN Proceed(w, n) /\ UNCHANGED storeVars
        ELSE IF CommitAccepted(b)
        THEN /\ CommitBlock(b)
             /\ progress' = [progress EXCEPT !.committed = Larger(@, m.h)]
             /\ lane' = [lane EXCEPT ![w] = n]
             /\ UNCHANGED <<bf, conn, setup, pending, announced>>
        ELSE Refused(w, StaleBatch(b))
    BY <1>1, <1>4, <1>7 DEF CommitDecoded
  <1>9. \A d \in Domains : RecordOf(d, m.h) \subseteq {Rec}
    BY DEF RecordOf
  <1>10. /\ recs \in [Domains -> SUBSET Values]
         /\ \A d \in Domains : recs[d] \subseteq {Rec} /\ (d \in m.done => recs[d] = RecordOf(d, m.h))
    BY <1>9, IndexerAssumption
  <1>11. recs \in Records
    BY <1>10 DEF Records
  <1>12. /\ b.h = m.h /\ b.hash = BlockHash[m.h] /\ b.guards = m.guards /\ b.recs = recs
         /\ b.completed = m.done
    BY <1>7
  <1>13. b \in Batch
    BY <1>3, <1>7, <1>11, ConstantFacts DEF Batch, Guards
  <1> HIDE DEF recs, batch
  <1>14. HonestBatch(b)
    <2>1. \A d \in b.completed : Owed(d, b.h) \subseteq b.recs[d] \cup Stored(d, b.h)
      BY <1>3, <1>10, <1>12, OwedFacts
    <2> QED BY <1>3, <1>10, <1>12, <1>13, <2>1 DEF HonestBatch
  <1>15. CASE m.done = {}
    BY <1>1, <1>2, <1>5, <1>6, <1>8, <1>15, QuietlyProceeds
  <1>16. CASE m.done # {} /\ CommitAccepted(b)
    <2>1. Call
      BY <1>8, <1>13, <1>14, <1>16 DEF Call
    <2>2. \E d \in Domains : m.h \in Covered(cov'[d])
      BY <1>8, <1>12, <1>13, <1>16, CommitCovers DEF IndexerInv
    <2>3. PICK f \in OptHeight : progress' = [finalized |-> f, committed |-> Larger(progress.committed, m.h)]
      BY <1>8, <1>16, TypeFacts DEF ProgressRecord
    <2>4. progress' \in ProgressRecord /\ CommittedOK'
      BY <1>3, <2>1, <2>2, <2>3, CommittedRaised
    <2> QED BY <1>1, <1>2, <1>5, <1>6, <1>8, <1>16, <2>1, <2>4, Proceeds
  <1>17. CASE m.done # {} /\ ~CommitAccepted(b)
    BY <1>1, <1>2, <1>8, <1>17, Stops DEF Refused
  <1> QED BY <1>15, <1>16, <1>17

LEMMA ParticipationPageKeeps ==
    ASSUME IndexerInv, NEW w \in Workers, ParticipationPage(w)
    PROVE  [Call]_storeVars /\ IndexerInv'
  <1>1. PICK m : m = lane[w]
    OBVIOUS
  <1>2. m.pc = "part" /\ UNCHANGED <<chainHead, node>>
    BY <1>1 DEF ParticipationPage, envVars
  <1>3. LaneShape(m) /\ LaneTrue(m) /\ m \in LaneRecord /\ m.h \in Height /\ m.h <= target.h /\ m.old = None
        /\ m.guards \in [Domains -> 0 .. MaxGen] /\ m.seen \subseteq Values /\ conn = "up"
    BY <1>1, <1>2, LaneFacts DEF LaneShape
  <1> DEFINE unread == Kind[m.h] # "none"
  <1>4. CASE "participation" \notin Guarded(m) \/ (unread /\ PinUnreadable(m.pin))
    BY <1>1, <1>2, <1>4, Returns DEF ParticipationPage
  <1>5. CASE ~("participation" \notin Guarded(m) \/ (unread /\ PinUnreadable(m.pin)))
    <2> DEFINE q == "participation"
    <2>1. q \in Domains
      BY <1>5 DEF Guarded
    <2> DEFINE guards == [NoGuards EXCEPT ![q] = m.guards[q]]
    <2> DEFINE last(P) == ~unread \/ Exhausted(P)
    <2> DEFINE recs(P) == [d \in Domains |-> IF d = q THEN P ELSE {}]
    <2> DEFINE batch(P) == [h |-> m.h, hash |-> BlockHash[m.h], guards |-> guards, recs |-> recs(P),
                            completed |-> IF last(P) THEN {q} ELSE {}]
    <2>2. PICK P \in SUBSET Participants[m.h] :
             /\ IF unread THEN Page(P, Participants[m.h] \ m.seen) ELSE P = {}
             /\ IF ~ CommitAccepted(batch(P)) THEN Refused(w, StaleBatch(batch(P)))
                ELSE IF ~ last(P)
                THEN CommitBlock(batch(P)) /\ Proceed(w, [m EXCEPT !.seen = @ \cup P])
                ELSE /\ CommitBlock(batch(P))
                     /\ progress' = [progress EXCEPT !.committed = Larger(@, m.h)]
                     /\ lane' = [lane EXCEPT ![w] = Idle]
                     /\ bf' = IF w = "live" THEN bf
                              ELSE [bf EXCEPT !.pc = IF @ = "author" THEN "sparse" ELSE "check"]
                     /\ UNCHANGED <<conn, setup, pending, announced>>
      BY <1>1, <1>5 DEF ParticipationPage
    <2>3. PICK b : b = batch(P)
      OBVIOUS
    <2>4. P \subseteq Values /\ guards \in [Domains -> 0 .. MaxGen] /\ guards[q] = m.guards[q]
      BY <1>3, <2>1, IndexerAssumption, StoreAssumption DEF NoGuards
    <2>5. recs(P) \in Records
      BY <2>4 DEF Records
    <2>6. /\ b.h = m.h /\ b.hash = BlockHash[m.h] /\ b.guards = guards /\ b.recs = recs(P)
          /\ b.completed = IF last(P) THEN {q} ELSE {}
      BY <2>3
    <2>7. b \in Batch
      BY <1>3, <2>1, <2>3, <2>4, <2>5, ConstantFacts DEF Batch, Guards
    <2>8. b.recs[q] = P /\ \A d \in Domains \ {q} : b.recs[d] = {}
      BY <2>1, <2>6
    <2>9. b.guards[q] = m.guards[q] /\ m.guards[q] # 0
      BY <1>5, <2>4, <2>6 DEF Guarded
    <2> HIDE DEF guards, recs, batch
    <2>10. ASSUME CommitAccepted(b) PROVE HonestBatch(b)
      <3>1. m.guards[q] = gen[q]
        BY <2>1, <2>9, <2>10 DEF CommitAccepted, StaleBatch
      <3>2. m.seen \subseteq Stored(q, m.h)
        BY <1>3, <2>1, <3>1 DEF LaneTrue
      <3>3. last(P) => Owed(q, m.h) \subseteq P \cup Stored(q, m.h)
        <4>1. CASE ~unread
          BY <1>3, <2>1, <4>1, OwedFacts
        <4>2. CASE unread /\ Exhausted(P)
          <5>1. IsFiniteSet(Participants[m.h])
            BY <1>3, IndexerAssumption
          <5>2. IsFiniteSet(Participants[m.h] \ m.seen)
            <6>1. Participants[m.h] \ m.seen \in SUBSET Participants[m.h]
              OBVIOUS
            <6> QED BY <5>1, <6>1, FS_Subset
          <5>3. P = Participants[m.h] \ m.seen
            BY <2>2, <4>2, <5>2, LastPage
          <5>4. Owed(q, m.h) = Participants[m.h]
            BY <1>3, <2>1, <4>2, OwedFacts
          <5> QED BY <3>2, <5>3, <5>4
        <4> QED BY <4>1, <4>2
      <3>4. \A d \in b.completed : Owed(d, b.h) \subseteq b.recs[d] \cup Stored(d, b.h)
        BY <2>6, <2>8, <3>3
      <3>5. \A d \in Domains \ {"participation"} : b.recs[d] \subseteq {Rec}
        BY <2>8
      <3> QED BY <1>3, <2>6, <2>7, <3>4, <3>5 DEF HonestBatch
    <2>11. CASE ~CommitAccepted(b)
      <3>1. Refused(w, StaleBatch(b))
        BY <2>2, <2>3, <2>11
      <3> QED BY <1>1, <1>2, <3>1, Stops DEF Refused
    <2>12. CASE CommitAccepted(b) /\ ~last(P)
      <3>1. CommitBlock(b) /\ Proceed(w, [m EXCEPT !.seen = @ \cup P])
        BY <2>2, <2>3, <2>12
      <3>2. Call
        BY <2>7, <2>10, <2>12, <3>1 DEF Call
      <3>3. PICK l : l = [m EXCEPT !.seen = m.seen \cup P]
        OBVIOUS
      <3>4. /\ l.pc = "part" /\ l.h = m.h /\ l.todo = m.todo /\ l.done = m.done
            /\ l.seen = m.seen \cup P /\ l.old = None /\ l.guards = m.guards /\ l \in LaneRecord
            /\ Guarded(l) = Guarded(m)
        BY <1>2, <1>3, <2>4, <3>3 DEF LaneRecord, LanePc, Guarded
      <3>5. LaneShape(l)
        BY <1>3, <3>4 DEF LaneShape
      <3>6. lane' = [lane EXCEPT ![w] = l] /\ UNCHANGED <<bf, linkVars>>
        BY <3>1, <3>3 DEF Proceed
      <3>7. LaneOK(m)'
        <4>1. LaneOK(m)
          BY <1>1 DEF IndexerInv
        <4> QED BY <3>2, <3>6, <1>2, <4>1, LaneKept, TypeFacts DEF linkVars
      <3>8. LaneTrue(m)'
        BY <1>2, <3>7 DEF LaneOK
      <3>9. P \subseteq Stored(q, m.h)'
        BY <1>3, <2>1, <2>6, <2>8, <2>10, <2>12, <3>1, StoredAfterCommit DEF IndexerInv, StoreInv
      <3>10. LaneTrue(l)'
        BY <3>4, <3>8, <3>9 DEF LaneTrue
      <3>11. LaneOK(l)'
        BY <1>3, <3>5, <3>6, <3>10 DEF LaneOK, LaneShape, linkVars
      <3>12. BackfillOK'
        <4>1. "backfill" \in Workers /\ lane \in [Workers -> LaneRecord]
              /\ (lane["backfill"].pc # "idle" => bf.pc \in {"author", "replay"})
          BY DEF IndexerInv, BackfillOK, Workers
        <4>2. lane'["backfill"].pc # "idle" => bf.pc \in {"author", "replay"}
          BY <1>1, <1>2, <3>6, <4>1
        <4> QED BY <3>2, <3>6, <4>2, BackfillKept DEF linkVars
      <3>13. progress' \in ProgressRecord /\ CommittedOK'
        BY <3>2, <3>6, CommittedKept DEF linkVars
      <3> QED BY <1>2, <3>2, <3>6, <3>11, <3>12, <3>13, Moves DEF linkVars
    <2>13. CASE CommitAccepted(b) /\ last(P)
      <3>1. /\ CommitBlock(b)
            /\ progress' = [progress EXCEPT !.committed = Larger(@, m.h)]
            /\ lane' = [lane EXCEPT ![w] = Idle]
            /\ bf' = IF w = "live" THEN bf
                     ELSE [bf EXCEPT !.pc = IF bf.pc = "author" THEN "sparse" ELSE "check"]
            /\ UNCHANGED <<conn, setup, pending, announced>>
        BY <2>2, <2>3, <2>13
      <3>2. Call
        BY <2>7, <2>10, <2>13, <3>1 DEF Call
      <3>3. \E d \in Domains : m.h \in Covered(cov'[d])
        BY <2>6, <2>7, <2>13, <3>1, CommitCovers DEF IndexerInv
      <3>4. PICK f \in OptHeight : progress' = [finalized |-> f, committed |-> Larger(progress.committed, m.h)]
        BY <3>1, TypeFacts DEF ProgressRecord
      <3>5. progress' \in ProgressRecord /\ CommittedOK'
        BY <1>3, <3>2, <3>3, <3>4, CommittedRaised
      <3> QED BY <1>1, <1>2, <3>1, <3>2, <3>5, Finishes
    <2> QED BY <2>11, <2>12, <2>13
  <1> QED BY <1>4, <1>5

LEMMA ProcessFailsKeeps ==
    ASSUME IndexerInv, NEW w \in Workers, ProcessFails(w)
    PROVE  [Call]_storeVars /\ IndexerInv'
  <1>1. PICK m : m = lane[w]
    OBVIOUS
  <1>2. UNCHANGED storeVars /\ UNCHANGED <<chainHead, node>> /\ m.pc \in {"decode", "domains", "part"}
    BY <1>1 DEF ProcessFails, DecodeFails, EnrichFails, ParticipationFails, Fail
  <1>3. CASE DecodeFails(w) \/ ParticipationFails(w)
    BY <1>1, <1>2, <1>3, Returns DEF DecodeFails, ParticipationFails
  <1>4. CASE EnrichFails(w)
    <2>1. m.pc = "domains" /\ m.todo # {} /\ m.todo \subseteq Domains
      BY <1>1, <1>2, <1>4, LaneFacts DEF EnrichFails
    <2>2. PICK d \in m.todo : d = FirstDomain(m.todo)
      BY <2>1, FirstDomainFacts
    <2>3. Proceed(w, AfterDomain(m, d, FALSE))
      BY <1>1, <1>4, <2>2 DEF EnrichFails
    <2> QED BY <1>1, <1>2, <2>1, <2>3, AfterDomainKeeps
  <1> QED BY <1>3, <1>4 DEF ProcessFails

LEMMA ProcessKeeps ==
    ASSUME IndexerInv, NEW w \in Workers, Process(w)
    PROVE  [Call]_storeVars /\ IndexerInv'
  BY ReadGenerationKeeps, ReadGuardKeeps, DecodeBlockKeeps, ReadFloorKeeps, RaiseFloorKeeps,
     EnrichDomainKeeps, CommitDecodedKeeps, ParticipationPageKeeps DEF Process
-----------------------------------------------------------------------------
(* connection() *)

\* While no connection is up, nothing is in flight.
LEMMA QuietLanes ==
    ASSUME IndexerInv, conn # "up"
    PROVE  bf.pc = "off" /\ \A w \in Workers : lane[w].pc = "idle"
  BY DEF IndexerInv, BackfillOK, LaneOK

\* What is idle stays idle, whatever else happens.
LEMMA QuietKept ==
    ASSUME IndexerInv, conn # "up", lane' = lane, bf' = bf
    PROVE  /\ lane' \in [Workers -> LaneRecord] /\ \A w \in Workers : LaneOK(lane[w])'
           /\ BackfillOK'
  <1>1. bf.pc = "off" /\ (\A w \in Workers : lane[w].pc = "idle" /\ LaneShape(lane[w]))
        /\ BackfillOK /\ lane \in [Workers -> LaneRecord] /\ "backfill" \in Workers
    BY QuietLanes DEF IndexerInv, LaneOK, Workers
  <1>2. \A w \in Workers : LaneOK(lane[w])'
    BY <1>1 DEF LaneOK, LaneShape
  <1>3. BackfillOK'
    BY <1>1 DEF BackfillOK, ChunkPc
  <1> QED BY <1>1, <1>2, <1>3

LEMMA ConnectKeeps ==
    ASSUME IndexerInv, Connect
    PROVE  [Call]_storeVars /\ IndexerInv'
  <1>1. /\ UNCHANGED storeVars /\ chainHead' = chainHead /\ conn = "down" /\ conn' = "init"
        /\ setup' = Domains /\ UNCHANGED <<pending, announced, progress, lane, bf>>
    BY DEF Connect
  <1>2. PICK h \in 0 .. chainHead, p \in None .. Smaller(Prunable, chainHead - 1) :
           node' = [head |-> h, pruned |-> p]
    BY DEF Connect
  <1>3. chainHead \in 0 .. MaxHead /\ MaxHead \in Nat /\ Prunable \in OptHeight /\ LinkOK
    BY ConstantFacts, IndexerAssumption DEF IndexerInv, LinkOK
  <1>4. h \in 0 .. MaxHead /\ h <= chainHead
    BY <1>2, <1>3
  <1>5. p \in OptHeight
    <2>1. Prunable \in Int /\ Prunable <= U64Max
      BY <1>3, U64MaxAssumption DEF OptHeight, Height, None
    <2>2. p \in Int /\ None <= p /\ p <= Smaller(Prunable, chainHead - 1)
      BY <1>2, <1>3, <2>1 DEF None, Smaller
    <2>3. p <= Prunable
      BY <1>3, <2>1, <2>2 DEF Smaller
    <2> QED BY <2>1, <2>2, <2>3, U64MaxAssumption DEF OptHeight, Height, None
  <1>6. LinkOK'
    <2>1. target' = target
      BY <1>1 DEF storeVars
    <2> QED BY <1>1, <1>2, <1>3, <1>4, <1>5, <2>1 DEF LinkOK, Connected
  <1>7. FloorsOK'
    BY <1>1 DEF FloorsOK
  <1>8. /\ lane' \in [Workers -> LaneRecord] /\ \A w \in Workers : LaneOK(lane[w])'
        /\ BackfillOK'
    BY <1>1, QuietKept
  <1>9. CommittedOK'
    BY <1>1, CommittedKept
  <1> QED BY <1>1, <1>6, <1>7, <1>8, <1>9, StoreStep DEF IndexerInv

\* Within initialize(): the lanes are idle and the link is what it was.
LEMMA InitializeStep ==
    ASSUME IndexerInv, [Call]_storeVars, conn \in {"init", "floor"}, conn' \in {"init", "floor"},
           setup' \subseteq Domains, conn' = "floor" => setup' # {},
           UNCHANGED <<chainHead, node, pending, announced, progress, lane, bf>>,
           FloorsOK'
    PROVE  IndexerInv'
  <1>1. LinkOK'
    <2>1. LinkOK
      BY DEF IndexerInv
    <2> QED BY <2>1, StoreStep DEF LinkOK, Connected
  <1>2. /\ lane' \in [Workers -> LaneRecord] /\ \A w \in Workers : LaneOK(lane[w])'
        /\ BackfillOK'
    BY QuietKept
  <1>3. CommittedOK'
    BY CommittedKept
  <1> QED BY <1>1, <1>2, <1>3, StoreStep DEF IndexerInv

LEMMA InitializeDomainKeeps ==
    ASSUME IndexerInv, InitializeDomain
    PROVE  [Call]_storeVars /\ IndexerInv'
  <1>1. /\ conn = "init" /\ setup # {} /\ conn' = "floor" /\ setup \subseteq Domains
        /\ UNCHANGED <<chainHead, node, setup, pending, announced, progress, lane, bf>>
    BY DEF InitializeDomain, envVars, IndexerInv, LinkOK
  <1>2. PICK d \in setup : d = FirstDomain(setup)
    BY <1>1, FirstDomainFacts
  <1>3. PICK start \in Height : start = IF d = "authorship" THEN node.head ELSE 0
    BY TypeFacts, ConstantFacts
  <1>4. IF cov[d].gen = 0 THEN InitializeCoverage(d, gen[d], start) ELSE UNCHANGED storeVars
    BY <1>2, <1>3 DEF InitializeDomain
  <1>5. [Call]_storeVars
    <2>1. d \in Domains /\ (d \in Sparse => start = 0)
      BY <1>1, <1>3 DEF Sparse
    <2> QED BY <1>4, <2>1 DEF Call
  <1>6. FloorsOK'
    BY <1>1, <1>5, FloorsKept, TypeFacts DEF Connected
  <1> QED BY <1>1, <1>5, <1>6, InitializeStep

LEMMA ClearFloorKeeps ==
    ASSUME IndexerInv, ClearFloor
    PROVE  [Call]_storeVars /\ IndexerInv'
  <1>1. /\ conn = "floor" /\ setup # {} /\ conn' = "init" /\ setup \subseteq Domains
        /\ UNCHANGED <<chainHead, node, pending, announced, progress, lane, bf>>
    BY DEF ClearFloor, envVars, IndexerInv, LinkOK
  <1>2. PICK d \in setup : d = FirstDomain(setup)
    BY <1>1, FirstDomainFacts
  <1>3. SetPrunedFloor(d, gen[d], None) /\ setup' = setup \ {d}
    BY <1>2 DEF ClearFloor
  <1>4. Call
    <2>1. d \in Domains
      BY <1>1
    <2> QED BY <1>3, <2>1, ConstantFacts DEF Call
  <1>5. FloorsOK'
    <2>1. ReadCoverage(d, 0) \in CoverageRecord /\ d \in Domains /\ cov \in [Domains -> CoverageRecord]
      BY <1>1, ReadCoverageFacts, ConstantFacts DEF IndexerInv, StoreInv, TypeOK
    <2>2. cov' = [cov EXCEPT ![d] = [ReadCoverage(d, 0) EXCEPT !.floor = None]]
      BY <1>3 DEF SetPrunedFloor
    <2>3. [ReadCoverage(d, 0) EXCEPT !.floor = None].floor = None
      BY <2>1 DEF CoverageRecord
    <2>4. cov'[d].floor = None /\ \A e \in Domains \ {d} : cov'[e] = cov[e]
      BY <2>1, <2>2, <2>3
    <2>5. \A e \in Domains \ setup : cov[e].floor <= node.pruned
      BY <1>1 DEF IndexerInv, FloorsOK, Connected
    <2>6. None <= node.pruned
      BY TypeFacts, ConstantFacts
    <2>7. \A e \in Domains \ setup' : cov'[e].floor <= node'.pruned
      BY <1>1, <1>3, <2>4, <2>5, <2>6
    <2> QED BY <2>7 DEF FloorsOK
  <1> QED BY <1>1, <1>3, <1>4, <1>5, InitializeStep

LEMMA InitializedKeeps ==
    ASSUME IndexerInv, Initialized
    PROVE  [Call]_storeVars /\ IndexerInv'
  <1>1. /\ conn = "init" /\ setup = {} /\ conn' = "up"
        /\ UNCHANGED <<chainHead, node, setup, pending, lane>>
        /\ announced' = [h |-> node.head, fresh |-> TRUE]
        /\ bf' = [Off EXCEPT !.pc = "plan"]
        /\ progress' = [finalized |-> Larger(progress.finalized, node.head),
                        committed |-> IF CommittedTarget(node.head)
                                      THEN Larger(progress.committed, node.head)
                                      ELSE progress.committed]
        /\ IF target.h < node.head THEN SetFinalizedTarget(node.head, BlockHash[node.head])
           ELSE UNCHANGED storeVars
    BY DEF Initialized, envVars
  <1>2. node.head \in Height /\ node.head \in Int /\ node.head <= chainHead /\ node.head >= 0
    BY TypeFacts, ConstantFacts DEF IndexerInv, LinkOK
  <1>3. [Call]_storeVars
    BY <1>1, <1>2 DEF Call
  <1>4. node.head <= target'.h /\ cov' = cov
    BY <1>1, <1>2, TypeFacts DEF SetFinalizedTarget, storeVars
  <1>5. Larger(progress.finalized, node.head) \in OptHeight
    BY <1>2, TypeFacts, ConstantFacts DEF Larger, ProgressRecord
  <1>6. progress' \in ProgressRecord /\ CommittedOK'
    <2>1. CASE CommittedTarget(node.head)
      <3>1. \E d \in Domains : node.head \in Covered(cov'[d])
        BY <1>2, <1>4, <2>1 DEF CommittedTarget, Covered
      <3> QED BY <1>1, <1>2, <1>3, <1>5, <2>1, <3>1, CommittedRaised
    <2>2. CASE ~CommittedTarget(node.head)
      <3>1. PICK f \in OptHeight : f = Larger(progress.finalized, node.head)
        BY <1>5
      <3>2. progress' = [progress EXCEPT !.finalized = f]
        BY <1>1, <2>2, <3>1, TypeFacts DEF ProgressRecord
      <3> QED BY <1>3, <3>2, CommittedKept
    <2> QED BY <2>1, <2>2
  <1>7. FloorsOK'
    BY <1>1, <1>3, FloorsKept, TypeFacts DEF Connected
  <1>8. LinkOK'
    <2>1. LinkOK
      BY DEF IndexerInv
    <2> QED BY <1>1, <1>2, <1>3, <1>4, <1>6, <2>1, StoreStep DEF LinkOK, Connected, ProgressRecord
  <1>9. (\A w \in Workers : lane[w].pc = "idle") /\ "backfill" \in Workers
    BY <1>1, QuietLanes DEF Workers
  <1>10. lane' \in [Workers -> LaneRecord] /\ \A w \in Workers : LaneOK(lane[w])'
    BY <1>1, <1>9 DEF IndexerInv, LaneOK, LaneShape
  <1>11. BackfillOK'
    <2>1. bf' \in BackfillRecord /\ bf'.pc = "plan" /\ bf'.tgt = 0 /\ bf'.pin = 0 /\ bf'.ceil = 0 /\ bf'.last = None
      BY <1>1, OffOK DEF Off, BackfillRecord
    <2>2. 0 <= target'.h
      BY <1>2, <1>3, <1>4, StoreStep
    <2> QED BY <1>1, <1>9, <2>1, <2>2, ConstantFacts DEF BackfillOK, ChunkPc
  <1> QED BY <1>3, <1>6, <1>7, <1>8, <1>10, <1>11, StoreStep DEF IndexerInv

\* While a connection is up, the node and the announcer may change around the lanes.
LEMMA AroundLanes ==
    ASSUME IndexerInv, [Call]_storeVars, conn' = conn, lane' = lane, bf' = bf,
           node'.pruned \in Int, node.pruned <= node'.pruned
    PROVE  /\ lane' \in [Workers -> LaneRecord] /\ \A w \in Workers : LaneOK(lane[w])'
           /\ BackfillOK'
  <1>1. lane \in [Workers -> LaneRecord] /\ \A w \in Workers : LaneOK(lane[w])
    BY DEF IndexerInv
  <1>2. ASSUME NEW x, LaneOK(x) PROVE LaneOK(x)'
    BY <1>2, LaneKept
  <1>3. \A w \in Workers : LaneOK(lane[w])'
    BY <1>1, <1>2
  <1>4. BackfillOK'
    BY BackfillKept DEF IndexerInv, BackfillOK
  <1> QED BY <1>1, <1>3, <1>4

LEMMA ReceiveHeadKeeps ==
    ASSUME IndexerInv, ReceiveHead
    PROVE  [Call]_storeVars /\ IndexerInv'
  <1>1. /\ UNCHANGED <<storeVars, chainHead, node, conn, setup, announced, lane, bf>>
        /\ pending' = node.head
        /\ progress' = [progress EXCEPT !.finalized = Larger(@, node.head)]
    BY DEF ReceiveHead, envVars
  <1>2. PICK f \in OptHeight : f = Larger(progress.finalized, node.head)
    BY TypeFacts, ConstantFacts DEF Larger, ProgressRecord
  <1>3. progress' \in ProgressRecord /\ CommittedOK'
    BY <1>1, <1>2, CommittedKept
  <1>4. FloorsOK'
    BY <1>1, FloorsKept, TypeFacts
  <1>5. LinkOK'
    <2>1. LinkOK /\ node.head \in OptHeight /\ node.head <= chainHead
      BY TypeFacts, ConstantFacts DEF IndexerInv, LinkOK
    <2> QED BY <1>1, <1>3, <2>1 DEF LinkOK, ProgressRecord, storeVars
  <1> QED BY <1>1, <1>3, <1>4, <1>5, AroundLanes, StoreStep, TypeFacts DEF IndexerInv

LEMMA RecordHeadKeeps ==
    ASSUME IndexerInv, RecordHead
    PROVE  [Call]_storeVars /\ IndexerInv'
  <1>1. /\ UNCHANGED <<chainHead, node, conn, setup, progress, lane, bf>>
        /\ announced' = [h |-> pending, fresh |-> TRUE] /\ pending' = None /\ pending # None
        /\ IF target.h < pending THEN SetFinalizedTarget(pending, BlockHash[pending])
           ELSE UNCHANGED storeVars
    BY DEF RecordHead, envVars
  <1>2. pending \in Height /\ pending \in Int /\ pending <= chainHead
    BY <1>1, TypeFacts DEF IndexerInv, LinkOK, OptHeight
  <1>3. [Call]_storeVars
    BY <1>1, <1>2 DEF Call
  <1>4. pending <= target'.h
    BY <1>1, <1>2, TypeFacts DEF SetFinalizedTarget, storeVars
  <1>5. progress' \in ProgressRecord /\ CommittedOK'
    BY <1>1, <1>3, CommittedKept
  <1>6. FloorsOK'
    BY <1>1, <1>3, FloorsKept, TypeFacts
  <1>7. LinkOK'
    <2>1. LinkOK /\ None <= chainHead /\ None \in OptHeight
      BY TypeFacts, ConstantFacts DEF IndexerInv, LinkOK
    <2> QED BY <1>1, <1>2, <1>3, <1>4, <1>5, <2>1, StoreStep DEF LinkOK, ProgressRecord
  <1> QED BY <1>1, <1>3, <1>5, <1>6, <1>7, AroundLanes, StoreStep, TypeFacts DEF IndexerInv

\* A lane starts on a durable height.
LEMMA StartFacts ==
    ASSUME NEW h \in Height, NEW pin \in Height, NEW l, l = Start(h, pin)
    PROVE  /\ LaneShape(l) /\ l.pc = "guard" /\ l.h = h /\ l.seen = {}
           /\ \A d \in Domains : l.guards[d] = 0
  <1>1. /\ l.pc = "guard" /\ l.h = h /\ l.pin = pin /\ l.todo = Domains /\ l.guards = NoGuards
        /\ l.old = None /\ l.done = {} /\ l.seen = {}
    BY DEF Start, Idle
  <1>2. l \in LaneRecord
    <2>1. Idle \in LaneRecord
      BY IdleOK DEF LaneShape
    <2>2. l = [Idle EXCEPT !.pc = "guard", !.h = h, !.pin = pin, !.todo = Domains]
      BY DEF Start
    <2> QED BY <2>1, <2>2 DEF LaneRecord, LanePc
  <1> QED BY <1>1, <1>2, IndexerAssumption DEF LaneShape, NoGuards

LEMMA StartOK ==
    ASSUME IndexerInv, [Call]_storeVars, conn = "up", conn' = conn,
           NEW h \in Height, NEW pin \in Height, h <= target.h, NEW l, l = Start(h, pin)
    PROVE  LaneOK(l)'
  <1>1. /\ LaneShape(l) /\ l.pc = "guard" /\ l.h = h /\ l.seen = {}
        /\ \A d \in Domains : l.guards[d] = 0
    BY StartFacts
  <1>2. h <= target'.h
    BY StoreStep, TypeFacts, ConstantFacts
  <1>3. \A d \in Domains : 0 <= gen'[d]
    BY StoreStep, TypeFacts
  <1> QED BY <1>1, <1>2, <1>3 DEF LaneOK, LaneTrue, LaneShape

LEMMA LiveStartKeeps ==
    ASSUME IndexerInv, LiveStart
    PROVE  [Call]_storeVars /\ IndexerInv'
  <1>1. /\ UNCHANGED <<storeVars, chainHead, node, conn, setup, pending, progress, bf>>
        /\ conn = "up" /\ announced' = [announced EXCEPT !.fresh = FALSE]
        /\ lane' = [lane EXCEPT !["live"] = Start(announced.h, announced.h)]
    BY DEF LiveStart, envVars
  <1>2. announced.h \in Height /\ announced.h <= target.h
    BY <1>1, TypeFacts DEF IndexerInv, LinkOK
  <1>3. PICK l : l = Start(announced.h, announced.h)
    OBVIOUS
  <1>4. LaneOK(l)' /\ l \in LaneRecord
    BY <1>1, <1>2, <1>3, StartOK, StartFacts DEF LaneShape
  <1>5. lane \in [Workers -> LaneRecord] /\ (\A w \in Workers : LaneOK(lane[w])) /\ Workers = {"live", "backfill"}
    BY DEF IndexerInv, Workers
  <1>6. lane' \in [Workers -> LaneRecord] /\ lane'["live"] = l /\ lane'["backfill"] = lane["backfill"]
    BY <1>1, <1>3, <1>4, <1>5
  <1>7. \A w \in Workers : LaneOK(lane[w])'
    <2>1. ASSUME NEW x, LaneOK(x) PROVE LaneOK(x)'
      BY <1>1, <2>1, LaneKept, TypeFacts
    <2> QED BY <1>4, <1>5, <1>6, <2>1
  <1>8. BackfillOK'
    BY <1>1, <1>6, BackfillKept DEF IndexerInv, BackfillOK
  <1>9. FloorsOK' /\ CommittedOK'
    BY <1>1, FloorsKept, CommittedKept, TypeFacts
  <1>10. LinkOK'
    <2>1. LinkOK
      BY DEF IndexerInv
    <2>2. announced' \in [h : Height, fresh : BOOLEAN] /\ announced'.h = announced.h
      BY <1>1, <2>1 DEF LinkOK
    <2> QED BY <1>1, <2>1, <2>2 DEF LinkOK, storeVars
  <1> QED BY <1>1, <1>6, <1>7, <1>8, <1>9, <1>10, StoreStep DEF IndexerInv

LEMMA DropConnectionKeeps ==
    ASSUME IndexerInv, DropConnection \/ EnumerateFails
    PROVE  [Call]_storeVars /\ IndexerInv'
  <1>1. /\ UNCHANGED storeVars /\ UNCHANGED <<chainHead, node>> /\ conn' = "down" /\ LanesDropped
        /\ progress' \in {progress, [finalized |-> None, committed |-> None]}
    BY DEF DropConnection, EnumerateFails, Fail, Disconnected
  <1> QED BY <1>1, Drops
-----------------------------------------------------------------------------
(* backfill() *)

\* What the backfill worker may be left with.
BackfillFit(b) ==
    /\ b \in BackfillRecord /\ b.pc # "off"
    /\ b.tgt <= target.h /\ b.pin <= target.h
    /\ b.pc \in ChunkPc => b.d \in Sparse /\ b.g # 0
    /\ b.ceil <= b.pin /\ b.last <= b.ceil
    /\ b.pc \in {"replay", "check", "split"} => b.last # None
    /\ b.pc \in {"init", "work"} => b.last = None

LEMMA BackfillFacts ==
    ASSUME IndexerInv, bf.pc # "off"
    PROVE  /\ BackfillFit(bf) /\ conn = "up" /\ bf \in BackfillRecord
           /\ bf.tgt \in Height /\ bf.tgt \in Int /\ bf.pin \in Height /\ bf.pin \in Int
           /\ bf.ceil \in Height /\ bf.ceil \in Int /\ bf.from \in Height
           /\ bf.cursor \in OptHeight /\ bf.cursor \in Int /\ bf.last \in OptHeight /\ bf.last \in Int
           /\ bf.todo \subseteq Sparse /\ bf.rows \subseteq Height
           /\ bf.tgt <= target.h /\ bf.pin <= target.h
           /\ bf.ceil <= bf.pin /\ bf.last <= bf.ceil
           /\ Sparse \subseteq Domains
           /\ bf.pc \in ChunkPc => bf.d \in Sparse /\ bf.d \in Domains /\ bf.g # 0
           /\ bf.g \in 0 .. MaxGen
           /\ bf.pc \notin {"author", "replay"} => lane["backfill"].pc = "idle"
  <1>1. BackfillOK /\ bf \in BackfillRecord
    BY DEF IndexerInv, BackfillOK
  <1>2. /\ bf.tgt \in Height /\ bf.pin \in Height /\ bf.ceil \in Height /\ bf.from \in Height
        /\ bf.cursor \in OptHeight /\ bf.last \in OptHeight
        /\ bf.todo \subseteq Sparse /\ bf.rows \subseteq Height /\ bf.g \in 0 .. MaxGen
    BY <1>1 DEF BackfillRecord
  <1>3. bf.tgt \in Int /\ bf.pin \in Int /\ bf.ceil \in Int
    BY <1>2, U64MaxAssumption DEF Height
  <1>4. bf.cursor \in Int /\ bf.last \in Int
    BY <1>2, U64MaxAssumption DEF Height, OptHeight, None
  <1>5. BackfillFit(bf)
    BY <1>1 DEF BackfillOK, BackfillFit
  <1> QED BY <1>1, <1>2, <1>3, <1>4, <1>5 DEF BackfillOK, Sparse

\* The worker takes a step of its own while its lane is idle.
LEMMA BackfillGoes ==
    ASSUME IndexerInv, [Call]_storeVars, UNCHANGED <<chainHead, node>>,
           bf.pc \notin {"off", "author", "replay"},
           NEW b, bf' = b, BackfillFit(b), UNCHANGED <<lane, linkVars>>
    PROVE  IndexerInv'
  <1>1. conn = "up" /\ lane["backfill"].pc = "idle"
    BY BackfillFacts
  <1>2. b.tgt \in Int /\ b.pin \in Int
    BY ConstantFacts DEF BackfillFit, BackfillRecord
  <1>3. b.tgt <= target'.h /\ b.pin <= target'.h
    BY <1>2, StoreStep, TypeFacts DEF BackfillFit
  <1>4. BackfillOK'
    BY <1>1, <1>3 DEF BackfillFit, BackfillOK, linkVars
  <1>5. progress' \in ProgressRecord /\ CommittedOK'
    BY CommittedKept DEF linkVars
  <1> QED BY <1>4, <1>5, Rests DEF linkVars

\* The worker hands a height to its lane.
LEMMA BackfillStarts ==
    ASSUME IndexerInv, [Call]_storeVars, UNCHANGED <<chainHead, node>>, bf.pc # "off",
           NEW b, bf' = b, BackfillFit(b), b.pc \in {"author", "replay"}, UNCHANGED linkVars,
           NEW h \in Height, NEW pin \in Height, h <= target.h,
           lane' = [lane EXCEPT !["backfill"] = Start(h, pin)]
    PROVE  IndexerInv'
  <1>1. conn = "up" /\ conn' = conn /\ "backfill" \in Workers
    BY BackfillFacts DEF linkVars, Workers
  <1>2. b.tgt \in Int /\ b.pin \in Int
    BY ConstantFacts DEF BackfillFit, BackfillRecord
  <1>3. b.tgt <= target'.h /\ b.pin <= target'.h
    BY <1>2, StoreStep, TypeFacts DEF BackfillFit
  <1>4. BackfillOK'
    BY <1>1, <1>3 DEF BackfillFit, BackfillOK, linkVars
  <1>5. progress' \in ProgressRecord /\ CommittedOK'
    BY CommittedKept DEF linkVars
  <1>6. PICK l : l = Start(h, pin)
    OBVIOUS
  <1>7. LaneOK(l)'
    BY <1>1, <1>6, StartOK
  <1> QED BY <1>1, <1>4, <1>5, <1>6, <1>7, Moves DEF linkVars

LEMMA NextChunkFits ==
    ASSUME IndexerInv, bf.pc # "off"
    PROVE  /\ BackfillFit(NextChunk) /\ NextChunk \in BackfillRecord
           /\ NextChunk.pc = "sparse" /\ NextChunk.tgt = bf.tgt /\ NextChunk.todo = bf.todo
           /\ NextChunk.ceil = 0 /\ NextChunk.pin = 0 /\ NextChunk.last = None
  <1>1. Off \in BackfillRecord /\ bf.tgt \in Height /\ bf.todo \subseteq Sparse /\ bf.tgt <= target.h
    BY OffOK, BackfillFacts
  <1>2. NextChunk \in BackfillRecord
    BY <1>1 DEF NextChunk, BackfillRecord
  <1>3. /\ NextChunk.pc = "sparse" /\ NextChunk.tgt = bf.tgt /\ NextChunk.todo = bf.todo
        /\ NextChunk.ceil = 0 /\ NextChunk.pin = 0 /\ NextChunk.last = None
    BY DEF NextChunk, Off
  <1>4. 0 <= target.h
    BY <1>1, TypeFacts, U64MaxAssumption DEF Height
  <1> QED BY <1>1, <1>2, <1>3, <1>4, ConstantFacts DEF BackfillFit, ChunkPc

LEMMA PlanRoundKeeps ==
    ASSUME IndexerInv, PlanRound
    PROVE  [Call]_storeVars /\ IndexerInv'
  <1>1. bf.pc = "plan" /\ UNCHANGED storeVars
    BY DEF PlanRound
  <1>2. conn = "up" /\ announced.h \in Height /\ announced.h <= target.h /\ target.h \in Int
    BY <1>1, BackfillFacts, TypeFacts DEF IndexerInv, LinkOK
  <1>3. PICK tgt : tgt = Larger(announced.h, target.h)
    OBVIOUS
  <1>4. tgt = target.h /\ tgt \in Height /\ 0 <= tgt
    <2>1. announced.h \in Int /\ announced.h >= 0
      BY <1>2, U64MaxAssumption DEF Height
    <2>2. tgt = target.h /\ 0 <= tgt
      BY <1>2, <1>3, <2>1 DEF Larger
    <2> QED BY <2>2, TypeFacts DEF OptHeight, None
  <1> DEFINE D == {e \in Domains \cap {"authorship"} : cov[e].gen # 0}
  <1> DEFINE gaps == UNION {Uncovered(cov[d], tgt) : d \in D}
  <1> DEFINE round(p) == [Off EXCEPT !.tgt = tgt, !.todo = Sparse, !.pc = p]
  <1>5. \A i \in gaps : i.lo \in Height /\ i.lo <= tgt
    <2> SUFFICES ASSUME NEW d \in D, NEW i \in Uncovered(cov[d], tgt) PROVE i.lo \in Height /\ i.lo <= tgt
      OBVIOUS
    <2>1. cov[d] \in CoverageRecord /\ ValidCoverage(cov[d])
      BY DEF IndexerInv, StoreInv, TypeOK, CoverageReadable, Readable
    <2>2. i.lo \in Height /\ i.hi \in Height /\ i.lo <= i.hi /\ i.hi <= tgt
      BY <1>4, <2>1, UncoveredShape
    <2> QED BY <2>2, <1>4, U64MaxAssumption DEF Height
  <1>6. ASSUME NEW p \in {"sparse", "author"}, NEW b, b = round(p) PROVE BackfillFit(b) /\ b.pc = p
    <2>1. Off \in BackfillRecord
      BY OffOK
    <2>2. b \in BackfillRecord
      BY <1>4, <1>6, <2>1 DEF BackfillRecord
    <2>3. b.pc = p /\ b.tgt = tgt /\ b.pin = 0 /\ b.ceil = 0 /\ b.last = None
      BY <1>6 DEF Off
    <2> QED BY <1>4, <2>2, <2>3, ConstantFacts DEF BackfillFit, ChunkPc
  <1>7. CASE gaps = {}
    <2>1. PICK b : b = round("sparse")
      OBVIOUS
    <2>2. BfGoes(b)
      BY <1>3, <1>7, <2>1 DEF PlanRound, Off
    <2>3. BackfillFit(b)
      BY <1>6, <2>1
    <2> QED BY <1>1, <2>2, <2>3, BackfillGoes DEF BfGoes, envVars
  <1>8. CASE gaps # {}
    <2>1. PICK b : b = round("author")
      OBVIOUS
    <2>2. BfStarts(b, Start(First(gaps).lo, tgt))
      BY <1>3, <1>8, <2>1 DEF PlanRound, Off
    <2>3. BackfillFit(b) /\ b.pc = "author"
      BY <1>6, <2>1
    <2>4. First(gaps) \in gaps
      <3>1. \A i \in gaps : i.lo \in Nat
        BY <1>5, U64MaxAssumption DEF Height
      <3> HIDE DEF gaps
      <3> QED BY <1>8, <3>1, FirstFacts
    <2>5. First(gaps).lo \in Height /\ First(gaps).lo <= target.h
      BY <1>4, <1>5, <2>4
    <2> HIDE DEF gaps
    <2> QED BY <1>1, <1>4, <2>2, <2>3, <2>5, BackfillStarts DEF BfStarts, envVars
  <1> QED BY <1>7, <1>8

LEMMA EndRoundKeeps ==
    ASSUME IndexerInv, EndRound
    PROVE  [Call]_storeVars /\ IndexerInv'
  <1>1. bf.pc = "sparse" /\ UNCHANGED storeVars
    BY DEF EndRound
  <1>2. PICK b : b = [Off EXCEPT !.pc = "plan"]
    OBVIOUS
  <1>3. BfGoes(b)
    BY <1>2 DEF EndRound
  <1>4. b \in BackfillRecord
    BY <1>2, OffOK DEF BackfillRecord
  <1>5. b.pc = "plan" /\ b.tgt = 0 /\ b.pin = 0 /\ b.ceil = 0 /\ b.last = None
    BY <1>2 DEF Off
  <1>6. 0 <= target.h
    BY <1>1, BackfillFacts, TypeFacts, U64MaxAssumption DEF Height
  <1>7. BackfillFit(b)
    BY <1>4, <1>5, <1>6, ConstantFacts DEF BackfillFit, ChunkPc
  <1> QED BY <1>1, <1>3, <1>7, BackfillGoes DEF BfGoes, envVars

LEMMA StartChunkKeeps ==
    ASSUME IndexerInv, StartChunk
    PROVE  [Call]_storeVars /\ IndexerInv'
  <1>1. bf.pc = "sparse" /\ UNCHANGED storeVars /\ bf.todo # {}
    BY DEF StartChunk
  <1>2. bf.todo \subseteq Sparse /\ Sparse \subseteq Domains
    BY <1>1, BackfillFacts
  <1>3. PICK d \in bf.todo : d = FirstDomain(bf.todo)
    BY <1>1, <1>2, FirstDomainFacts
  <1>4. d \in Sparse /\ gen[d] \in 0 .. MaxGen /\ gen[d] # 0
    BY <1>2, TypeFacts
  <1>5. PICK b : b = [NextChunk EXCEPT !.pc = "init", !.todo = @ \ {d}, !.d = d, !.g = gen[d]]
    OBVIOUS
  <1>6. BfGoes(b)
    BY <1>3, <1>5 DEF StartChunk
  <1>7. NextChunk \in BackfillRecord /\ BackfillFit(NextChunk) /\ NextChunk.last = None
    BY <1>1, NextChunkFits
  <1>8. b \in BackfillRecord
    BY <1>4, <1>5, <1>7 DEF BackfillRecord, ChunkPc
  <1>9. /\ b.pc = "init" /\ b.tgt = NextChunk.tgt /\ b.pin = NextChunk.pin /\ b.ceil = NextChunk.ceil
        /\ b.last = NextChunk.last /\ b.d = d /\ b.g = gen[d]
    BY <1>5, <1>7 DEF BackfillRecord
  <1>10. BackfillFit(b)
    BY <1>4, <1>7, <1>8, <1>9 DEF BackfillFit
  <1> QED BY <1>1, <1>6, <1>10, BackfillGoes DEF BfGoes, envVars

LEMMA InitializeChunkKeeps ==
    ASSUME IndexerInv, InitializeChunk
    PROVE  [Call]_storeVars /\ IndexerInv'
  <1>1. bf.pc = "init"
    BY DEF InitializeChunk
  <1>2. BackfillFit(bf) /\ bf \in BackfillRecord /\ bf.d \in Domains
    BY <1>1, BackfillFacts DEF ChunkPc
  <1>3. CASE bf.g # gen[bf.d]
    BY <1>3, Drops DEF InitializeChunk, Disconnected, envVars
  <1>4. CASE bf.g = gen[bf.d]
    <2>1. PICK b : b = [bf EXCEPT !.pc = "work"]
      OBVIOUS
    <2>2. /\ BfGoes(b)
          /\ IF cov[bf.d].gen = 0 THEN InitializeCoverage(bf.d, bf.g, 0) ELSE UNCHANGED storeVars
      BY <1>4, <2>1 DEF InitializeChunk
    <2>3. [Call]_storeVars
      BY <1>2, <1>4, <2>2, ConstantFacts DEF Call
    <2>4. b \in BackfillRecord
      BY <1>2, <2>1 DEF BackfillRecord, ChunkPc
    <2>5. /\ b.pc = "work" /\ b.tgt = bf.tgt /\ b.pin = bf.pin /\ b.ceil = bf.ceil
          /\ b.last = bf.last /\ b.d = bf.d /\ b.g = bf.g
      BY <1>2, <2>1 DEF BackfillRecord
    <2>6. BackfillFit(b)
      BY <1>1, <1>2, <2>4, <2>5 DEF BackfillFit, ChunkPc
    <2> QED BY <1>1, <2>2, <2>3, <2>6, BackfillGoes DEF BfGoes, envVars
  <1> QED BY <1>3, <1>4
\* The run a chunk works on lies within the round's target.
LEMMA RetryableShape ==
    ASSUME IndexerInv, NEW d \in Domains, cov[d].gen # 0, NEW g, NEW tgt \in Height,
           NEW r \in Retryable(d, g, cov[d], tgt)
    PROVE  r.lo \in Height /\ r.hi \in Height /\ r.hi <= tgt
  <1> DEFINE gaps == Uncovered(cov[d], tgt)
  <1> DEFINE run(i) == RetryableRange(Marked(d, g), i.lo, i.hi)
  <1> DEFINE runs == UNION {run(i) : i \in gaps}
  <1>1. Marked(d, g) \in SUBSET Height
    BY DEF Marked, IndexerInv, StoreInv, TypeOK, Marker
  <1>2. cov[d] \in CoverageRecord /\ ValidCoverage(cov[d])
    BY DEF IndexerInv, StoreInv, TypeOK, CoverageReadable, Readable
  <1>3. \A i \in gaps : i.lo \in Height /\ i.hi \in Height /\ i.lo <= i.hi /\ i.hi <= tgt
    BY <1>2, UncoveredShape
  <1>4. ASSUME NEW i \in gaps, NEW x \in run(i) PROVE x.lo \in Height /\ x.hi \in Height /\ x.hi <= tgt
    <2>1. i.lo \in Height /\ i.hi \in Height /\ i.lo <= i.hi /\ i.hi <= tgt
      BY <1>3
    <2> DEFINE R == RetryableRange(Marked(d, g), i.lo, i.hi)
    <2> DEFINE free == (i.lo .. i.hi) \ Marked(d, g)
    <2>2. /\ free = {} => R = {}
          /\ free # {} => \E y \in R : R = {y} /\ y.lo \in i.lo .. i.hi /\ y.hi \in y.lo .. i.hi
      BY <1>1, <2>1, RetryableFacts
    <2>3. x \in R
      BY <1>4
    <2> HIDE DEF R, free
    <2>4. x.lo \in i.lo .. i.hi /\ x.hi \in x.lo .. i.hi
      BY <2>2, <2>3
    <2> QED BY <2>1, <2>4, U64MaxAssumption DEF Height
  <1> HIDE DEF gaps, run
  <1>5. \A x \in runs : x.lo \in Height /\ x.hi \in Height /\ x.hi <= tgt
    BY <1>4
  <1>6. r = First(runs) /\ runs # {}
    BY DEF Retryable, run, gaps
  <1>7. \A x \in runs : x.lo \in Nat
    BY <1>5, U64MaxAssumption DEF Height
  <1> HIDE DEF runs
  <1>8. r \in runs
    BY <1>6, <1>7, FirstFacts
  <1> QED BY <1>5, <1>8

LEMMA PlanChunkKeeps ==
    ASSUME IndexerInv, PlanChunk
    PROVE  [Call]_storeVars /\ IndexerInv'
  <1>1. bf.pc = "work" /\ UNCHANGED storeVars
    BY DEF PlanChunk
  <1>2. /\ BackfillFit(bf) /\ bf \in BackfillRecord /\ bf.d \in Domains /\ bf.d \in Sparse
        /\ bf.tgt \in Height /\ bf.tgt <= target.h /\ bf.last = None /\ bf.g # 0
    BY <1>1, BackfillFacts DEF ChunkPc, BackfillFit
  <1> DEFINE work == IF cov[bf.d].gen = 0 THEN {} ELSE Retryable(bf.d, bf.g, cov[bf.d], bf.tgt)
  <1>3. CASE work = {}
    <2>1. BfGoes(NextChunk)
      BY <1>3 DEF PlanChunk
    <2>2. PICK b : b = NextChunk
      OBVIOUS
    <2>3. BackfillFit(b)
      BY <1>1, <2>2, NextChunkFits
    <2> QED BY <1>1, <2>1, <2>2, <2>3, BackfillGoes DEF BfGoes, envVars
  <1>4. CASE work # {}
    <2> DEFINE old(r) == {s \in ActiveScan(bf.d, bf.g) : s.pin >= r.lo}
    <2> DEFINE pinOf(r) == IF old(r) = {} THEN bf.tgt ELSE (CHOOSE s \in old(r) : TRUE).pin
    <2>1. PICK r \in work : BfGoes([bf EXCEPT !.pc = "scan", !.from = r.lo, !.pin = pinOf(r),
                                              !.ceil = Smaller(pinOf(r), r.hi)])
      BY <1>4 DEF PlanChunk
    <2>2. r.lo \in Height /\ r.hi \in Height
      BY <1>2, <1>4, <2>1, RetryableShape
    <2>3. pinOf(r) \in Height /\ pinOf(r) <= target.h
      <3>1. CASE old(r) = {}
        BY <1>2, <3>1
      <3>2. CASE old(r) # {}
        <4>1. PICK s \in scans : pinOf(r) = s.pin
          BY <3>2 DEF ActiveScan
        <4> QED BY <4>1 DEF IndexerInv, StoreInv, TypeOK, Scan, StoreHonest
      <3> QED BY <3>1, <3>2
    <2>4. PICK pin \in Height : pin = pinOf(r)
      BY <2>3
    <2>5. PICK ceil : ceil = Smaller(pin, r.hi)
      OBVIOUS
    <2>6. ceil \in Height /\ ceil <= pin /\ None <= ceil
      <3>1. pin \in Int /\ r.hi \in Int
        BY <2>2, <2>4, U64MaxAssumption DEF Height
      <3>2. ceil \in {pin, r.hi} /\ ceil <= pin
        BY <2>5, <3>1 DEF Smaller
      <3>3. ceil \in Height
        BY <2>2, <3>2
      <3> QED BY <3>2, <3>3, U64MaxAssumption DEF Height, None
    <2> HIDE DEF pinOf
    <2>7. PICK b : b = [bf EXCEPT !.pc = "scan", !.from = r.lo, !.pin = pin, !.ceil = ceil]
      OBVIOUS
    <2>8. BfGoes(b)
      BY <2>1, <2>4, <2>5, <2>7
    <2>9. b \in BackfillRecord
      BY <1>2, <2>2, <2>4, <2>6, <2>7 DEF BackfillRecord, ChunkPc
    <2>10. /\ b.pc = "scan" /\ b.tgt = bf.tgt /\ b.pin = pin /\ b.ceil = ceil
           /\ b.last = bf.last /\ b.d = bf.d /\ b.g = bf.g
      BY <1>2, <2>7 DEF BackfillRecord
    <2>11. BackfillFit(b)
      BY <1>2, <2>3, <2>4, <2>6, <2>9, <2>10 DEF BackfillFit, ChunkPc
    <2> QED BY <1>1, <2>8, <2>11, BackfillGoes DEF BfGoes, envVars
  <1> QED BY <1>3, <1>4

\* A step within a chunk that only moves the program counter on.
LEMMA ChunkGoes ==
    ASSUME IndexerInv, [Call]_storeVars, bf.pc \in ChunkPc \ {"replay"},
           NEW p \in ChunkPc \ {"init", "work", "replay"},
           p \in {"check", "split"} => bf.last # None,
           BfGoes([bf EXCEPT !.pc = p])
    PROVE  IndexerInv'
  <1>1. BackfillFit(bf) /\ bf \in BackfillRecord /\ bf.pc \notin {"off", "author", "replay"}
    BY BackfillFacts DEF ChunkPc
  <1>2. PICK b : b = [bf EXCEPT !.pc = p]
    OBVIOUS
  <1>3. b \in BackfillRecord
    BY <1>1, <1>2 DEF BackfillRecord
  <1>4. /\ b.pc = p /\ b.tgt = bf.tgt /\ b.pin = bf.pin /\ b.ceil = bf.ceil
        /\ b.last = bf.last /\ b.d = bf.d /\ b.g = bf.g
    BY <1>1, <1>2 DEF BackfillRecord
  <1>5. BackfillFit(b)
    BY <1>1, <1>3, <1>4 DEF BackfillFit, ChunkPc
  <1> QED BY <1>1, <1>2, <1>5, BackfillGoes DEF BfGoes, envVars

LEMMA ChunkEnds ==
    ASSUME IndexerInv, [Call]_storeVars, bf.pc \in ChunkPc \ {"replay"},
           bf' = NextChunk, UNCHANGED <<lane, linkVars, envVars>>
    PROVE  IndexerInv'
  <1>1. bf.pc \notin {"off", "author", "replay"}
    BY DEF ChunkPc
  <1>2. PICK b : b = NextChunk
    OBVIOUS
  <1>3. BackfillFit(b)
    BY <1>1, <1>2, NextChunkFits
  <1> QED BY <1>1, <1>2, <1>3, BackfillGoes DEF envVars

LEMMA OpenScanKeeps ==
    ASSUME IndexerInv, OpenScan
    PROVE  [Call]_storeVars /\ IndexerInv'
  <1>1. bf.pc = "scan" /\ bf.d \in Domains /\ bf.pin \in Height /\ bf.pin <= target.h
    BY BackfillFacts DEF OpenScan, ChunkPc
  <1>2. CASE bf.g # gen[bf.d]
    BY <1>1, <1>2, ChunkEnds DEF OpenScan, BfGoes, ChunkPc
  <1>3. CASE bf.g = gen[bf.d]
    <2>1. BfGoes([bf EXCEPT !.pc = "pages"]) /\ (UNCHANGED storeVars \/ BeginScan(bf.d, bf.g, bf.pin))
      BY <1>3 DEF OpenScan
    <2>2. [Call]_storeVars
      BY <1>1, <1>3, <2>1 DEF Call
    <2> QED BY <1>1, <2>1, <2>2, ChunkGoes DEF ChunkPc
  <1> QED BY <1>2, <1>3

LEMMA ReadProgressKeeps ==
    ASSUME IndexerInv, ReadProgress
    PROVE  [Call]_storeVars /\ IndexerInv'
  <1>1. bf.pc = "pages" /\ UNCHANGED storeVars
    BY DEF ReadProgress
  <1>2. CASE MyScan = {}
    BY <1>1, <1>2, Drops DEF ReadProgress, Stopped, envVars
  <1>3. CASE MyScan # {}
    <2>1. PICK p \in {"winners", "append"} : BfGoes([bf EXCEPT !.pc = p])
      BY <1>3 DEF ReadProgress
    <2> QED BY <1>1, <2>1, ChunkGoes DEF ChunkPc
  <1> QED BY <1>2, <1>3

LEMMA EnumeratePageKeeps ==
    ASSUME IndexerInv, EnumeratePage
    PROVE  [Call]_storeVars /\ IndexerInv'
  <1>1. bf.pc = "append" /\ UNCHANGED envVars
    BY DEF EnumeratePage
  <1>2. CASE MyScan = {} \/ PinUnreadable(bf.pin)
    BY <1>1, <1>2, Drops DEF EnumeratePage, Disconnected, envVars
  <1>3. CASE ~(MyScan = {} \/ PinUnreadable(bf.pin))
    <2>1. PICK s \in MyScan, P \in SUBSET (0 .. MaxHead) :
             /\ Page(P, QBlocks(s.pin) \ s.cursor)
             /\ AppendScanPage(s, s.cursor, s.cursor \cup P, Exhausted(P), P)
             /\ bf' = NextChunk
             /\ UNCHANGED <<lane, linkVars>>
      BY <1>3 DEF EnumeratePage
    <2>2. Call
      <3>1. s \in scans
        BY DEF MyScan
      <3> QED BY <2>1, <3>1 DEF Call
    <2> QED BY <1>1, <2>1, <2>2, ChunkEnds DEF ChunkPc
  <1> QED BY <1>2, <1>3

LEMMA LoadWinnersKeeps ==
    ASSUME IndexerInv, LoadWinners
    PROVE  [Call]_storeVars /\ IndexerInv'
  <1>1. bf.pc = "winners" /\ UNCHANGED storeVars
    BY DEF LoadWinners
  <1>2. BackfillFit(bf) /\ bf \in BackfillRecord /\ bf.from \in OptHeight
    BY <1>1, BackfillFacts, ConstantFacts
  <1> DEFINE ahead == {n \in UNION {s.found : s \in MyScan} : n >= bf.from}
  <1> DEFINE page == {n \in ahead : Cardinality({m \in ahead : m < n}) < ReplayLimit}
  <1>3. BfGoes([bf EXCEPT !.pc = "next", !.rows = page, !.cursor = bf.from,
                          !.full = Cardinality(page) = ReplayLimit])
    BY DEF LoadWinners
  <1>4. page \in SUBSET Height
    <2>1. \A s \in MyScan : s.found \subseteq Height
      BY DEF MyScan, IndexerInv, StoreInv, TypeOK, Scan
    <2> QED BY <2>1
  <1> HIDE DEF page
  <1>5. PICK full \in BOOLEAN : full = (Cardinality(page) = ReplayLimit)
    OBVIOUS
  <1>6. PICK b : b = [bf EXCEPT !.pc = "next", !.rows = page, !.cursor = bf.from, !.full = full]
    OBVIOUS
  <1>7. BfGoes(b)
    BY <1>3, <1>5, <1>6
  <1>8. b \in BackfillRecord
    BY <1>2, <1>4, <1>6 DEF BackfillRecord, ChunkPc
  <1>9. /\ b.pc = "next" /\ b.tgt = bf.tgt /\ b.pin = bf.pin /\ b.ceil = bf.ceil
        /\ b.last = bf.last /\ b.d = bf.d /\ b.g = bf.g
    BY <1>2, <1>6 DEF BackfillRecord
  <1>10. BackfillFit(b)
    BY <1>1, <1>2, <1>8, <1>9 DEF BackfillFit, ChunkPc
  <1> QED BY <1>1, <1>7, <1>10, BackfillGoes DEF BfGoes, envVars

LEMMA ReplayWinnerKeeps ==
    ASSUME IndexerInv, ReplayWinner
    PROVE  [Call]_storeVars /\ IndexerInv'
  <1>1. bf.pc = "next" /\ UNCHANGED storeVars /\ bf.rows # {}
    BY DEF ReplayWinner
  <1>2. /\ BackfillFit(bf) /\ bf \in BackfillRecord /\ bf.rows \subseteq Height /\ bf.ceil \in Height
        /\ bf.ceil \in Int /\ bf.pin \in Height /\ bf.pin \in Int /\ bf.ceil <= bf.pin /\ bf.pin <= target.h
    BY <1>1, BackfillFacts
  <1>3. PICK n \in bf.rows : n = Least(bf.rows)
    <2>1. bf.rows \in SUBSET Nat
      BY <1>2, ConstantFacts
    <2> QED BY <1>1, <2>1, LeastFacts
  <1>4. n \in Height /\ n \in Int /\ n # None /\ bf.ceil # None
    BY <1>2, U64MaxAssumption DEF Height, None
  <1>5. CASE n > bf.ceil
    <2>1. PICK b : b = [bf EXCEPT !.rows = {}, !.last = bf.ceil]
      OBVIOUS
    <2>2. BfGoes(b)
      BY <1>3, <1>5, <2>1 DEF ReplayWinner
    <2>3. b \in BackfillRecord
      BY <1>2, <2>1, ConstantFacts DEF BackfillRecord
    <2>4. /\ b.pc = "next" /\ b.tgt = bf.tgt /\ b.pin = bf.pin /\ b.ceil = bf.ceil
          /\ b.last = bf.ceil /\ b.d = bf.d /\ b.g = bf.g
      BY <1>1, <1>2, <2>1 DEF BackfillRecord
    <2>5. BackfillFit(b)
      BY <1>1, <1>2, <2>3, <2>4 DEF BackfillFit, ChunkPc
    <2> QED BY <1>1, <2>2, <2>5, BackfillGoes DEF BfGoes, envVars
  <1>6. CASE ~(n > bf.ceil)
    <2>1. PICK b : b = [bf EXCEPT !.pc = "replay", !.last = n, !.rows = @ \ {n}]
      OBVIOUS
    <2>2. BfStarts(b, Start(n, bf.pin))
      BY <1>3, <1>6, <2>1 DEF ReplayWinner
    <2>3. b \in BackfillRecord
      BY <1>2, <1>4, <2>1, ConstantFacts DEF BackfillRecord, ChunkPc
    <2>4. /\ b.pc = "replay" /\ b.tgt = bf.tgt /\ b.pin = bf.pin /\ b.ceil = bf.ceil
          /\ b.last = n /\ b.d = bf.d /\ b.g = bf.g
      BY <1>2, <2>1 DEF BackfillRecord
    <2>5. BackfillFit(b)
      BY <1>1, <1>2, <1>4, <1>6, <2>3, <2>4 DEF BackfillFit, ChunkPc
    <2>6. n <= target.h
      BY <1>2, <1>4, <1>6, TypeFacts
    <2> QED BY <1>1, <1>2, <1>4, <2>2, <2>4, <2>5, <2>6, BackfillStarts DEF BfStarts, envVars
  <1> QED BY <1>5, <1>6

LEMMA CheckReplayedKeeps ==
    ASSUME IndexerInv, CheckReplayed
    PROVE  [Call]_storeVars /\ IndexerInv'
  <1>1. bf.pc = "check" /\ UNCHANGED storeVars /\ bf.last # None
    BY BackfillFacts DEF CheckReplayed, BackfillFit
  <1>2. \/ BfGoes(NextChunk)
        \/ \E p \in {"next", "split"} : BfGoes([bf EXCEPT !.pc = p])
    BY DEF CheckReplayed
  <1> QED BY <1>1, <1>2, ChunkEnds, ChunkGoes DEF BfGoes, ChunkPc

\* finish_range() extends the coverage, is too late, or ends the connection.
LEMMA FinishRangeKeeps ==
    ASSUME IndexerInv, bf.pc \in ChunkPc \ {"replay"}, NEW a \in Height, NEW e \in Height,
           NEW b, FinishRange(a, e, b), BackfillFit(b)
    PROVE  [Call]_storeVars /\ IndexerInv'
  <1>1. bf.pc \notin {"off", "author", "replay"} /\ bf.d \in Domains
    BY BackfillFacts DEF ChunkPc
  <1>2. CASE bf.g # gen[bf.d] \/ \E s \in MyScan : RangeAccepted(s, bf.d, bf.g, a, e)
    <2>1. BfGoes(b) /\ (UNCHANGED storeVars \/ (bf.g = gen[bf.d] /\ \E s \in MyScan : CommitRange(s, bf.d, bf.g, a, e)))
      BY <1>2 DEF FinishRange
    <2>2. [Call]_storeVars
      BY <1>1, <2>1 DEF Call, MyScan
    <2> QED BY <1>1, <2>1, <2>2, BackfillGoes DEF BfGoes, envVars
  <1>3. CASE ~(bf.g # gen[bf.d] \/ \E s \in MyScan : RangeAccepted(s, bf.d, bf.g, a, e))
    <2>1. UNCHANGED <<storeVars, envVars>> /\ (Stopped \/ Disconnected)
      BY <1>3 DEF FinishRange
    <2> QED BY <2>1, Drops DEF Stopped, Disconnected, envVars
  <1> QED BY <1>2, <1>3

LEMMA SplitRangeKeeps ==
    ASSUME IndexerInv, SplitRange
    PROVE  [Call]_storeVars /\ IndexerInv'
  <1>1. bf.pc = "split"
    BY DEF SplitRange
  <1>2. /\ BackfillFit(bf) /\ bf \in BackfillRecord /\ bf.last \in OptHeight /\ bf.last # None
        /\ bf.cursor \in OptHeight
    BY <1>1, BackfillFacts DEF BackfillFit
  <1>3. PICK n \in Height : n = bf.last
    BY <1>2 DEF OptHeight
  <1>4. PICK c : c = IF n = U64Max THEN None ELSE n + 1
    OBVIOUS
  <1>5. c \in OptHeight
    BY <1>4, U64MaxAssumption DEF OptHeight, Height, None
  <1>6. PICK b : b = [bf EXCEPT !.pc = "next", !.cursor = c]
    OBVIOUS
  <1>7. b \in BackfillRecord
    BY <1>2, <1>5, <1>6 DEF BackfillRecord, ChunkPc
  <1>8. /\ b.pc = "next" /\ b.tgt = bf.tgt /\ b.pin = bf.pin /\ b.ceil = bf.ceil
        /\ b.last = bf.last /\ b.d = bf.d /\ b.g = bf.g
    BY <1>2, <1>6 DEF BackfillRecord
  <1>9. BackfillFit(b)
    BY <1>1, <1>2, <1>7, <1>8 DEF BackfillFit, ChunkPc
  <1>10. IF bf.cursor # None /\ bf.cursor < n THEN FinishRange(bf.cursor, n - 1, b)
         ELSE BfGoes(b) /\ UNCHANGED storeVars
    BY <1>3, <1>4, <1>6 DEF SplitRange
  <1>11. CASE bf.cursor # None /\ bf.cursor < n
    <2>1. bf.cursor \in Height /\ n - 1 \in Height
      BY <1>2, <1>11, U64MaxAssumption DEF OptHeight, Height, None
    <2> QED BY <1>1, <1>9, <1>10, <1>11, <2>1, FinishRangeKeeps DEF ChunkPc
  <1>12. CASE ~(bf.cursor # None /\ bf.cursor < n)
    BY <1>1, <1>9, <1>10, <1>12, BackfillGoes DEF BfGoes, envVars
  <1> QED BY <1>11, <1>12

LEMMA FinishChunkKeeps ==
    ASSUME IndexerInv, FinishChunk
    PROVE  [Call]_storeVars /\ IndexerInv'
  <1>1. bf.pc = "next" /\ bf.cursor \in OptHeight
    BY BackfillFacts DEF FinishChunk
  <1>2. PICK end : end = IF bf.full THEN bf.last ELSE bf.ceil
    OBVIOUS
  <1>3. end \in OptHeight
    BY <1>1, <1>2, BackfillFacts, ConstantFacts
  <1>4. PICK b : b = NextChunk
    OBVIOUS
  <1>5. BackfillFit(b)
    BY <1>1, <1>4, NextChunkFits
  <1>6. IF bf.cursor # None /\ end # None /\ bf.cursor <= end
        THEN FinishRange(bf.cursor, end, b)
        ELSE BfGoes(b) /\ UNCHANGED storeVars
    BY <1>2, <1>4 DEF FinishChunk
  <1>7. CASE bf.cursor # None /\ end # None /\ bf.cursor <= end
    <2>1. bf.cursor \in Height /\ end \in Height
      BY <1>1, <1>3, <1>7 DEF OptHeight
    <2> QED BY <1>1, <1>5, <1>6, <1>7, <2>1, FinishRangeKeeps DEF ChunkPc
  <1>8. CASE ~(bf.cursor # None /\ end # None /\ bf.cursor <= end)
    BY <1>1, <1>5, <1>6, <1>8, BackfillGoes DEF BfGoes, envVars
  <1> QED BY <1>7, <1>8

LEMMA BackfillKeeps ==
    ASSUME IndexerInv, Backfill
    PROVE  [Call]_storeVars /\ IndexerInv'
  BY PlanRoundKeeps, EndRoundKeeps, StartChunkKeeps, InitializeChunkKeeps, PlanChunkKeeps,
     OpenScanKeeps, ReadProgressKeeps, EnumeratePageKeeps, LoadWinnersKeeps, ReplayWinnerKeeps,
     CheckReplayedKeeps, SplitRangeKeeps, FinishChunkKeeps, ProcessKeeps DEF Backfill, Workers
-----------------------------------------------------------------------------
(* The chain, the node and the operators *)

\* The chain grows, and the node follows it and discards old state.
LEMMA ChainKeeps ==
    ASSUME IndexerInv, GrowChain \/ NodeFollows \/ NodePrunes
    PROVE  [Call]_storeVars /\ IndexerInv'
  <1>1. UNCHANGED storeVars /\ UNCHANGED <<conn, setup, pending, announced, progress, lane, bf>>
    BY DEF GrowChain, NodeFollows, NodePrunes, linkVars
  <1>2. LinkOK /\ chainHead \in 0 .. MaxHead /\ node \in [head : 0 .. MaxHead, pruned : OptHeight]
        /\ node.head <= chainHead /\ target.h <= chainHead /\ pending <= chainHead
    BY DEF IndexerInv, LinkOK
  <1>3. MaxHead \in Nat /\ MaxHead <= U64Max /\ U64Max \in Nat
    BY ConstantFacts, U64MaxAssumption
  <1>4. /\ chainHead' \in 0 .. MaxHead /\ chainHead <= chainHead'
        /\ node' \in [head : 0 .. MaxHead, pruned : OptHeight] /\ node'.head <= chainHead'
        /\ node.pruned <= node'.pruned /\ node'.pruned \in Int
    <2>1. node.pruned \in Int /\ node.head \in 0 .. MaxHead /\ node.pruned \in OptHeight
      BY <1>2, TypeFacts
    <2>2. CASE GrowChain
      BY <1>2, <1>3, <2>1, <2>2 DEF GrowChain
    <2>3. CASE NodeFollows
      <3>1. node' = [node EXCEPT !.head = node.head + 1] /\ node.head + 1 \in 0 .. MaxHead /\ chainHead' = chainHead
            /\ node.head + 1 <= chainHead
        BY <1>2, <1>3, <2>1, <2>3 DEF NodeFollows
      <3>2. node' \in [head : 0 .. MaxHead, pruned : OptHeight] /\ node'.head = node.head + 1 /\ node'.pruned = node.pruned
        BY <1>2, <3>1
      <3> QED BY <1>2, <1>3, <2>1, <3>1, <3>2
    <2>4. CASE NodePrunes
      <3>1. node' = [node EXCEPT !.pruned = node.pruned + 1] /\ chainHead' = chainHead
            /\ node.pruned + 1 < node.head
        BY <2>4 DEF NodePrunes
      <3>2. node.pruned + 1 \in OptHeight
        BY <1>3, <2>1, <3>1 DEF OptHeight, Height, None
      <3>3. node' \in [head : 0 .. MaxHead, pruned : OptHeight] /\ node'.head = node.head /\ node'.pruned = node.pruned + 1
        BY <1>2, <3>1, <3>2
      <3> QED BY <1>2, <1>3, <2>1, <3>1, <3>3
    <2> QED BY <2>2, <2>3, <2>4
  <1>5. LinkOK'
    <2>1. chainHead \in Int /\ target.h \in Int /\ pending \in Int /\ chainHead' \in Int
      BY <1>3, <1>4, TypeFacts
    <2>2. target.h <= chainHead' /\ pending <= chainHead' /\ target' = target
      BY <1>1, <1>2, <1>4, <2>1 DEF storeVars
    <2> QED BY <1>1, <1>2, <1>4, <2>2 DEF LinkOK
  <1>6. FloorsOK' /\ CommittedOK'
    BY <1>1, <1>4, FloorsKept, CommittedKept
  <1>7. /\ lane' \in [Workers -> LaneRecord] /\ \A w \in Workers : LaneOK(lane[w])'
        /\ BackfillOK'
    BY <1>1, <1>4, AroundLanes
  <1> QED BY <1>1, <1>5, <1>6, <1>7, StoreStep DEF IndexerInv

LEMMA ReindexRequestedKeeps ==
    ASSUME IndexerInv, ReindexRequested
    PROVE  [Call]_storeVars /\ IndexerInv'
  <1>1. /\ UNCHANGED <<chainHead, node, conn, setup, pending, announced, lane, bf>>
        /\ progress' \in {progress, [finalized |-> None, committed |-> None]}
        /\ Reindexing /\ \E D \in SUBSET Domains : Reindex(D)
    BY DEF ReindexRequested, envVars
  <1>2. Call
    BY <1>1 DEF Call
  <1>3. progress' \in ProgressRecord /\ CommittedOK'
    BY <1>1, <1>2, CommittedKept
  <1>4. BackfillOK'
    BY <1>1, <1>2, BackfillKept DEF IndexerInv, BackfillOK
  <1> QED BY <1>1, <1>2, <1>3, <1>4, Rests

\* Every step asks the store for one of its operations or leaves it alone, and keeps
\* the invariant.
LEMMA StepKeeps ==
    ASSUME IndexerInv, Next
    PROVE  [Call]_storeVars /\ IndexerInv'
  <1>1. CASE Reconnect
    BY <1>1, ConnectKeeps, InitializeDomainKeeps, ClearFloorKeeps, InitializedKeeps DEF Reconnect
  <1>2. CASE Announce \/ Live
    BY <1>2, ReceiveHeadKeeps, RecordHeadKeeps, LiveStartKeeps, ProcessKeeps DEF Announce, Live, Workers
  <1>3. CASE Backfill
    BY <1>3, BackfillKeeps
  <1>4. CASE Failure
    BY <1>4, DropConnectionKeeps, ProcessFailsKeeps DEF Failure, Workers
  <1>5. CASE Environment
    BY <1>5, ChainKeeps, ReindexRequestedKeeps DEF Environment
  <1> QED BY <1>1, <1>2, <1>3, <1>4, <1>5 DEF Next

LEMMA StutterKeeps ==
    ASSUME IndexerInv, UNCHANGED vars
    PROVE  IndexerInv'
  <1>1. /\ UNCHANGED storeVars
        /\ UNCHANGED <<chainHead, node, conn, setup, pending, announced, progress, lane, bf>>
    BY DEF vars, envVars, linkVars
  <1>2. progress' \in ProgressRecord /\ CommittedOK'
    BY <1>1, CommittedKept
  <1>3. BackfillOK'
    BY <1>1, BackfillKept DEF IndexerInv, BackfillOK
  <1> QED BY <1>1, <1>2, <1>3, Rests

LEMMA InitEstablishes == Init => IndexerInv
  <1> SUFFICES ASSUME Init PROVE IndexerInv
    OBVIOUS
  <1>1. StoreInv
    BY StoreInitEstablishes DEF Init
  <1>2. StoreHonest
    <2>1. \A d \in Domains : gen[d] = 1 /\ rows[d] = {} /\ proven[d] = {} /\ cov[d] = Missing
      BY DEF Init, StoreInit
    <2>2. scans = {} /\ \A h \in Height : finalized[h] = NoHash
      BY DEF Init, StoreInit
    <2>3. 1 <= MaxGen /\ Sparse \subseteq Domains /\ Missing.start = 0
      BY StoreAssumption DEF Sparse, Missing, EmptyCoverage
    <2> QED BY <2>1, <2>2, <2>3 DEF StoreHonest
  <1>3. LinkOK
    <2>1. target.h = None /\ None \in OptHeight /\ None = -1 /\ MaxHead \in Nat /\ 0 \in Height
      BY ConstantFacts DEF Init, StoreInit, NoTarget
    <2>2. chainHead \in 0 .. MaxHead /\ None <= chainHead /\ 0 <= chainHead
      BY <2>1 DEF Init
    <2> QED BY <2>1, <2>2 DEF Init, LinkOK, Connected
  <1>4. lane \in [Workers -> LaneRecord] /\ \A w \in Workers : LaneOK(lane[w])
    BY IdleOK DEF Init, Workers, LaneOK, LaneShape
  <1>5. BackfillOK
    <2>1. lane["backfill"].pc = "idle"
      BY IdleOK DEF Init
    <2>2. bf = Off
      BY DEF Init
    <2> QED BY <2>1, <2>2, OffOK, ConstantFacts DEF BackfillOK, ChunkPc
  <1>6. FloorsOK /\ CommittedOK
    BY DEF Init, FloorsOK, CommittedOK, Connected
  <1> QED BY <1>1, <1>2, <1>3, <1>4, <1>5, <1>6 DEF IndexerInv

LEMMA IndexerInvariance == Spec => []IndexerInv
  <1>1. IndexerInv /\ [Next]_vars => IndexerInv'
    BY StepKeeps, StutterKeeps
  <1> QED BY <1>1, InitEstablishes, PTL DEF Spec

-----------------------------------------------------------------------------
(* What follows *)

\* A height covered by a range is below the pinned state of an exhausted enumeration that
\* does not list it; the enumeration lists every winner which that state retains, so
\* either there is none at the height or its entry was gone by then.
LEMMA InvIndexes == IndexerInv => CoveredMeansIndexed
  <1> SUFFICES ASSUME IndexerInv, NEW d \in Domains, NEW h \in Covered(cov[d])
               PROVE  Owed(d, h) \subseteq Stored(d, h) \/ (d # "authorship" /\ DropAt[h] <= target.h)
    BY DEF CoveredMeansIndexed
  <1>1. h \in Height /\ StoreInv /\ StoreHonest /\ TypeOK
    BY DEF Covered, IndexerInv, StoreInv
  <1>2. CASE h \in proven[d]
    BY <1>1, <1>2 DEF StoreHonest
  <1>3. CASE h \notin proven[d]
    <2>1. PICK s \in scans : d # "authorship" /\ s.finished /\ h <= s.pin /\ h \notin s.found
      BY <1>1, <1>3 DEF StoreInv, CoverageHasEvidence
    <2>2. s.pin <= target.h /\ QBlocks(s.pin) \subseteq s.found /\ s.pin \in Height
      BY <1>1, <2>1 DEF StoreHonest, TypeOK, Scan
    <2>3. CASE Kind[h] = "none"
      BY <1>1, <2>1, <2>3, OwedFacts
    <2>4. CASE Kind[h] # "none"
      <3>1. h \in 0 .. MaxHead
        <4>1. chainHead \in Int /\ chainHead <= MaxHead /\ target.h \in Int /\ target.h <= chainHead
          BY TypeFacts
        <4>2. h \in Int /\ 0 <= h /\ s.pin \in Int /\ MaxHead \in Int
          BY <1>1, <2>2, U64MaxAssumption, ConstantFacts DEF Height
        <4> QED BY <2>1, <2>2, <4>1, <4>2
      <3>2. ~(s.pin < DropAt[h])
        BY <2>1, <2>2, <2>4, <3>1 DEF QBlocks, Retained
      <3>3. DropAt[h] \in Nat /\ s.pin \in Int /\ target.h \in Int
        BY <1>1, <2>2, IndexerAssumption, ConstantFacts, TypeFacts
      <3> QED BY <2>1, <2>2, <3>2, <3>3
    <2> QED BY <2>3, <2>4
  <1> QED BY <1>2, <1>3

\* Whatever the lanes, the drops, the restarts, the pruning and the reindexes, a height
\* the indexer will never look at again has every row it owes, unless the chain itself
\* no longer had the data.
THEOREM CoverageIsNeverPremature == Spec => []CoveredMeansIndexed
  BY IndexerInvariance, InvIndexes, PTL

LEMMA InvDurable == IndexerInv => ProgressIsDurable
  <1> SUFFICES ASSUME IndexerInv PROVE ProgressIsDurable
    OBVIOUS
  <1>1. conn = "up" => announced.h <= target.h
    BY DEF IndexerInv, LinkOK
  <1>2. ASSUME NEW d \in Domains, NEW h \in Covered(cov[d]) PROVE h <= target.h
    <2>1. h \in Height /\ StoreInv /\ StoreHonest /\ TypeOK
      BY DEF Covered, IndexerInv, StoreInv
    <2>2. CASE h \in proven[d]
      BY <2>1, <2>2 DEF StoreHonest
    <2>3. CASE h \notin proven[d]
      <3>1. PICK s \in scans : h <= s.pin
        BY <2>1, <2>3 DEF StoreInv, CoverageHasEvidence
      <3>2. s.pin <= target.h /\ s.pin \in Height
        BY <2>1 DEF StoreHonest, TypeOK, Scan
      <3>3. h \in Int /\ s.pin \in Int /\ target.h \in Int
        BY <2>1, <3>2, ConstantFacts, TypeFacts
      <3> QED BY <3>1, <3>2, <3>3
    <2> QED BY <2>2, <2>3
  <1>3. \A d \in Domains : \A r \in rows[d] : r.h <= target.h
    BY DEF IndexerInv, StoreHonest
  <1>4. ~Reindexing /\ progress.committed # None =>
          \E d \in Domains : progress.committed \in Covered(cov[d])
    BY DEF IndexerInv, CommittedOK
  <1> QED BY <1>1, <1>2, <1>3, <1>4 DEF ProgressIsDurable

\* A restart plans from a target that nothing indexed is ahead of, and what health is
\* told of a committed head is true.
THEOREM TargetIsDurable == Spec => []ProgressIsDurable
  BY IndexerInvariance, InvDurable, PTL

LEMMA InvFloors == IndexerInv => FloorsAreHonest
  BY DEF IndexerInv, FloorsOK, FloorsAreHonest, LinkOK, Connected

\* A floor that another node's pruning left behind suppresses nothing on this one.
THEOREM FloorsBelongToTheNode == Spec => []FloorsAreHonest
  BY IndexerInvariance, InvFloors, PTL

\* A call is a step of the store as any caller may make it.
LEMMA CallIsStoreStep ==
    ASSUME IndexerInv, Call, Starts = Height, Pins = Height, Floors = OptHeight,
           Cursors = SUBSET Height, Targets = Height
    PROVE  StoreNext
  <1>1. \A d \in Domains : gen[d] \in 1 .. MaxGen
    BY TypeFacts
  <1>2. ASSUME NEW s \in scans, NEW P \in SUBSET (0 .. MaxHead),
               AppendScanPage(s, s.cursor, s.cursor \cup P, Exhausted(P), P)
        PROVE  StoreNext
    <2>1. s.cursor \cup P \in Cursors /\ P \in SUBSET Height
      BY ConstantFacts DEF IndexerInv, StoreInv, TypeOK, Scan
    <2>2. Exhausted(P) \in BOOLEAN
      BY DEF Exhausted
    <2> QED BY <1>2, <2>1, <2>2 DEF StoreNext
  <1>3. \A h \in Height : BlockHash[h] \in Hashes
    BY ConstantFacts
  <1> QED BY <1>1, <1>2, <1>3 DEF Call, StoreNext

\* The indexer is one of the callers the store makes its promises to: where the bounds
\* on a caller's arguments leave out nothing, every behaviour of the indexer is a
\* behaviour of the store, and everything proved of the store holds of it.
THEOREM IndexerUsesTheStore ==
    ASSUME Starts = Height, Pins = Height, Floors = OptHeight, Cursors = SUBSET Height,
           Targets = Height
    PROVE  Spec => StoreSpec
  <1>1. Init => StoreInit
    BY DEF Init
  <1>2. IndexerInv /\ [Next]_vars => [StoreNext]_storeVars
    <2> SUFFICES ASSUME IndexerInv, [Next]_vars PROVE [StoreNext]_storeVars
      OBVIOUS
    <2>1. CASE Next
      BY <2>1, StepKeeps, CallIsStoreStep
    <2>2. CASE UNCHANGED vars
      BY <2>2 DEF vars
    <2> QED BY <2>1, <2>2
  <1> QED BY <1>1, <1>2, IndexerInvariance, PTL DEF Spec, StoreSpec
-----------------------------------------------------------------------------
(* What may end run() *)

\* No node lags behind a head seen before, and nobody reindexes.
Steady == Lag = 0 /\ ~Reindexing

\* What stays alive through a step that neither stops run() nor begins a connection.
LEMMA AliveKept ==
    ASSUME IndexerInv, AliveInv, Steady, [Call]_storeVars, conn' # "dead",
           conn' \in Connected => /\ conn \in Connected /\ setup' = setup
                                  /\ node'.head \in Int /\ node.head <= node'.head
                                  /\ pending' \in {pending, None, node.head},
           \A w \in Workers : \/ lane'[w].pc = "idle"
                              \/ lane'[w] = lane[w]
                              \/ \E l : lane'[w] = l /\ conn = "up" /\ LaneAlive(l),
           bf'.pc \in ScanPc \ {"scan"} =>
               \/ MyScan' # {}
               \/ /\ bf.pc \in ScanPc \ {"scan"}
                  /\ bf'.d = bf.d /\ bf'.g = bf.g /\ bf'.pin = bf.pin
    PROVE  AliveInv'
  <1>1. Advance /\ gen' = gen
    BY StoreStep DEF Advance, Steady
  <1>2. conn' \in Connected => target'.h <= node'.head /\ pending' <= node'.head
    <2> SUFFICES ASSUME conn' \in Connected PROVE target'.h <= node'.head /\ pending' <= node'.head
      OBVIOUS
    <2>1. target.h <= node.head /\ pending <= node.head /\ node.head <= node'.head /\ node'.head \in Int
      BY DEF AliveInv
    <2>2. target'.h \in {target.h, node.head, pending}
      BY <1>1 DEF Advance
    <2>3. /\ target.h \in Int /\ node.head \in Int /\ pending \in Int /\ None \in Int /\ None <= node.head
      BY TypeFacts, ConstantFacts DEF IndexerInv, LinkOK
    <2> QED BY <2>1, <2>2, <2>3
  <1>3. \A d \in Domains : cov[d].gen # 0 => cov'[d].gen # 0 /\ cov'[d].start = cov[d].start
    BY <1>1 DEF Advance, Steady
  <1>4. conn' \in Connected => \A d \in Domains \ setup' : cov'[d].gen # 0
    BY <1>3 DEF AliveInv
  <1>5. ASSUME NEW l, conn = "up", LaneAlive(l) PROVE LaneAlive(l)'
    <2>1. \A d \in Domains : cov'[d].start = cov[d].start
      BY <1>3, <1>5 DEF AliveInv, IndexerInv, LinkOK, Connected
    <2> QED BY <1>5, <2>1 DEF LaneAlive, Guarded
  <1>6. ASSUME NEW w \in Workers, lane'[w].pc # "idle" PROVE LaneAlive(lane[w])'
    <2>1. CASE lane'[w] = lane[w]
      <3>1. PICK l : l = lane[w]
        OBVIOUS
      <3>2. conn = "up" /\ LaneAlive(l)
        BY <1>6, <2>1, <3>1 DEF AliveInv, IndexerInv, LaneOK
      <3>3. LaneAlive(l)'
        BY <1>5, <3>2
      <3> QED BY <2>1, <3>1, <3>3
    <2>2. CASE \E l : lane'[w] = l /\ conn = "up" /\ LaneAlive(l)
      <3>1. PICK l : lane'[w] = l /\ conn = "up" /\ LaneAlive(l)
        BY <2>2
      <3>2. LaneAlive(l)'
        BY <1>5, <3>1
      <3> QED BY <3>1, <3>2
    <2> QED BY <1>6, <2>1, <2>2
  <1>7. ASSUME bf'.pc \in ScanPc \ {"scan"} PROVE MyScan' # {}
    <2>1. CASE /\ bf.pc \in ScanPc \ {"scan"}
               /\ bf'.d = bf.d /\ bf'.g = bf.g /\ bf'.pin = bf.pin
      <3>1. PICK s \in scans : s.d = bf.d /\ s.g = bf.g /\ s.pin = bf.pin
        BY <2>1 DEF AliveInv, MyScan
      <3>2. PICK t \in scans' : t.d = s.d /\ t.g = s.g /\ t.pin = s.pin
        BY <1>1 DEF Advance, Steady
      <3> QED BY <2>1, <3>1, <3>2 DEF MyScan
    <2> QED BY <1>7, <2>1
  <1>8. \A d \in Domains : gen'[d] = 1
    BY <1>1 DEF AliveInv
  <1> QED BY <1>2, <1>4, <1>6, <1>7, <1>8 DEF AliveInv

\* A dropped connection is opened again.
LEMMA AliveDrops ==
    ASSUME IndexerInv, AliveInv, Steady, [Call]_storeVars, conn' = "down", LanesDropped
    PROVE  AliveInv'
  <1>1. \A w \in Workers : lane'[w].pc = "idle"
    BY IdleOK DEF LanesDropped, Workers
  <1>2. bf'.pc = "off"
    BY OffOK DEF LanesDropped
  <1> QED BY <1>1, <1>2, AliveKept DEF Connected, ScanPc

\* A lane goes on or ends, and with it the replay of a winner.
LEMMA AliveLane ==
    ASSUME IndexerInv, AliveInv, Steady, [Call]_storeVars, UNCHANGED <<node, conn, setup, pending>>,
           NEW w \in Workers, lane[w].pc # "idle",
           NEW l, lane' = [lane EXCEPT ![w] = l], l.pc = "idle" \/ LaneAlive(l),
           bf' \in {bf, [bf EXCEPT !.pc = IF bf.pc = "author" THEN "sparse" ELSE "check"]},
           bf' # bf => w = "backfill"
    PROVE  AliveInv'
  <1>1. conn = "up" /\ conn # "dead" /\ lane \in [Workers -> LaneRecord]
    BY DEF AliveInv, IndexerInv, LaneOK
  <1>2. \A v \in Workers : lane'[v] = IF v = w THEN l ELSE lane[v]
    BY <1>1
  <1>3. bf'.pc \in ScanPc \ {"scan"} =>
            bf.pc \in ScanPc \ {"scan"} /\ bf'.d = bf.d /\ bf'.g = bf.g /\ bf'.pin = bf.pin
    <2>1. CASE bf' = bf
      BY <2>1
    <2>2. CASE bf' # bf
      <3>1. bf.pc \in {"author", "replay"} /\ bf \in BackfillRecord
        BY <2>2 DEF IndexerInv, BackfillOK
      <3>2. /\ bf'.pc = IF bf.pc = "author" THEN "sparse" ELSE "check"
            /\ bf'.d = bf.d /\ bf'.g = bf.g /\ bf'.pin = bf.pin
        BY <2>2, <3>1 DEF BackfillRecord
      <3> QED BY <3>1, <3>2 DEF ScanPc
    <2> QED BY <2>1, <2>2
  <1>4. node'.head \in Int /\ node.head <= node'.head
    BY TypeFacts
  <1> QED BY <1>1, <1>2, <1>3, <1>4, AliveKept

LEMMA AliveReturns ==
    ASSUME IndexerInv, AliveInv, Steady, [Call]_storeVars, UNCHANGED node,
           NEW w \in Workers, lane[w].pc # "idle", NEW result, Return(w, result)
    PROVE  AliveInv'
  <1>1. CASE w = "backfill" \/ result = "ok"
    BY <1>1, AliveLane, IdleOK DEF Return, linkVars
  <1>2. CASE ~(w = "backfill" \/ result = "ok")
    BY <1>2, AliveDrops DEF Return, Disconnected
  <1> QED BY <1>1, <1>2

LEMMA AliveProceeds ==
    ASSUME IndexerInv, AliveInv, Steady, [Call]_storeVars, UNCHANGED node,
           NEW w \in Workers, lane[w].pc # "idle", NEW l, Proceed(w, l), LaneAlive(l)
    PROVE  AliveInv'
  BY AliveLane DEF Proceed, linkVars

\* Most steps of process() keep the block and its guards.
LEMMA SameGuards ==
    ASSUME AliveInv, NEW w \in Workers, NEW m, m = lane[w], m.pc \notin {"idle", "current"},
           NEW l, l.h = m.h, l.guards = m.guards
    PROVE  LaneAlive(l)
  BY DEF AliveInv, LaneAlive, Guarded

\* Everything on record at a height is the chain's block there.
LEMMA NoConflict ==
    ASSUME IndexerInv, NEW h \in Height, NEW x \in Identities(h)
    PROVE  x = BlockHash[h]
  <1>1. finalized[h] \in {NoHash, BlockHash[h]}
    BY DEF IndexerInv, StoreHonest
  <1>2. \A d \in Domains : \A r \in rows[d] : r.h = h => r.hash = finalized[h] /\ r.hash # NoHash
    BY StoreAssumption DEF IndexerInv, StoreInv, OneIdentityPerHeight, TypeOK, Row
  <1> QED BY <1>1, <1>2 DEF Identities

\* A batch that says what the chain says is refused only for a stale guard.
LEMMA HonestAccepted ==
    ASSUME IndexerInv, NEW b \in Batch, ~StaleBatch(b), b.hash = BlockHash[b.h], Affected(b) # {},
           \A d \in Affected(b) : b.guards[d] # 0,
           \A d \in Domains \ {"participation"} : b.recs[d] \subseteq {Rec},
           \A d \in b.completed : cov[d].gen = 0 \/ b.h >= cov[d].start
    PROVE  CommitAccepted(b)
  <1>1. b.h \in Height /\ b.completed \subseteq Domains /\ b.h \in Int /\ 0 <= b.h
    BY U64MaxAssumption DEF Batch, Height
  <1>2. ~ConflictingBatch(b)
    BY <1>1, NoConflict DEF ConflictingBatch
  <1>3. ~ConflictingRecord(b)
    BY DEF ConflictingRecord, IndexerInv, StoreHonest
  <1>4. ASSUME NEW d \in b.completed
        PROVE  Readable(d) /\ ~ CoverRejected(ReadCoverage(d, DefaultStart(d, b.h)), b.h, b.h)
    <2>1. Readable(d) /\ cov[d] \in CoverageRecord
      BY <1>1 DEF IndexerInv, StoreInv, CoverageReadable, TypeOK
    <2>2. CASE cov[d].gen = 0
      BY <1>1, <2>1, <2>2 DEF ReadCoverage, EmptyCoverage, DefaultStart, CoverRejected
    <2>3. CASE cov[d].gen # 0
      <3>1. cov[d].start \in Int
        BY <2>1, U64MaxAssumption DEF CoverageRecord, Height
      <3> QED BY <1>1, <1>4, <2>1, <2>3, <3>1 DEF ReadCoverage, CoverRejected
    <2> QED BY <2>2, <2>3
  <1> QED BY <1>2, <1>3, <1>4 DEF CommitAccepted
\* guards() keeps a guard only for a height at or above the start of the coverage.
LEMMA AliveGuards ==
    ASSUME IndexerInv, AliveInv, Steady, NEW w \in Workers, ReadGeneration(w) \/ ReadGuard(w)
    PROVE  AliveInv'
  <1>1. PICK m : m = lane[w]
    OBVIOUS
  <1>2. m.pc \in {"guard", "current"} /\ UNCHANGED storeVars /\ UNCHANGED node
    BY <1>1 DEF ReadGeneration, ReadGuard, envVars
  <1>3. /\ m \in LaneRecord /\ m.todo # {} /\ m.todo \subseteq Domains /\ m.guards \in [Domains -> 0 .. MaxGen]
        /\ LaneAlive(m) /\ conn = "up" /\ LaneTrue(m) /\ m.h \in Int
    BY <1>1, <1>2, LaneFacts DEF LaneShape, AliveInv
  <1>4. PICK d \in Domains : d = FirstDomain(m.todo)
    BY <1>3, FirstDomainFacts
  <1>5. CASE ReadGeneration(w)
    <2>1. PICK l : l = [m EXCEPT !.pc = "current", !.guards[d] = gen[d]]
      OBVIOUS
    <2>2. Proceed(w, l) /\ m.pc = "guard"
      BY <1>1, <1>4, <1>5, <2>1 DEF ReadGeneration
    <2>3. l.pc = "current" /\ l.h = m.h /\ l.todo = m.todo /\ l.guards = [m.guards EXCEPT ![d] = gen[d]]
      BY <1>3, <2>1 DEF LaneRecord
    <2>4. LaneAlive(l)
      BY <1>3, <1>4, <2>2, <2>3 DEF LaneAlive, Guarded
    <2> QED BY <1>1, <1>2, <2>2, <2>4, AliveProceeds
  <1>6. CASE ReadGuard(w)
    <2>1. PICK x : x = IF Settled(d, m.guards[d], m.h) THEN 0 ELSE m.guards[d]
      OBVIOUS
    <2>2. PICK l : l = [m EXCEPT !.pc = "guard", !.todo = @ \ {d},
                                 !.guards[d] = IF Settled(d, @, m.h) THEN 0 ELSE @]
      OBVIOUS
    <2>3. IF l.todo # {} THEN Proceed(w, l)
          ELSE IF Guarded(l) # {} THEN Proceed(w, [l EXCEPT !.pc = "decode"])
          ELSE Return(w, "ok")
      BY <1>1, <1>4, <1>6, <2>2 DEF ReadGuard
    <2>4. l = [m EXCEPT !.pc = "guard", !.todo = m.todo \ {d}, !.guards[d] = x]
      BY <1>3, <1>4, <2>1, <2>2 DEF LaneRecord
    <2>5. l.pc = "guard" /\ l.h = m.h /\ l.guards = [m.guards EXCEPT ![d] = x] /\ m.pc = "current"
      BY <1>1, <1>3, <1>6, <2>4 DEF LaneRecord, ReadGuard
    <2>6. x # 0 => m.h >= cov[d].start
      <3>1. cov[d].gen # 0
        BY <1>3 DEF AliveInv, IndexerInv, LinkOK, Connected
      <3>2. cov[d].gen = gen[d] /\ gen[d] = 1 /\ cov[d].start \in Int
        <4>1. cov[d].gen = gen[d] /\ gen[d] = 1 /\ cov[d].start \in Height
          BY <3>1 DEF AliveInv, IndexerInv, StoreInv, CoverageReadable, Readable, TypeOK, CoverageRecord
        <4> QED BY <4>1, ConstantFacts
      <3>3. m.guards[d] \in Nat /\ m.guards[d] <= gen[d]
        BY <1>3, StoreAssumption DEF LaneTrue
      <3>4. x # 0 => ~Settled(d, m.guards[d], m.h) /\ m.guards[d] = cov[d].gen
        BY <2>1, <3>2, <3>3
      <3> QED BY <1>3, <3>1, <3>2, <3>4 DEF Settled
    <2>7. ASSUME NEW n, n.h = l.h, n.guards = l.guards PROVE LaneAlive(n)
      BY <1>3, <1>4, <2>5, <2>6, <2>7 DEF LaneAlive, Guarded
    <2>8. CASE l.todo # {}
      BY <1>1, <1>2, <2>3, <2>7, <2>8, AliveProceeds
    <2>9. CASE l.todo = {} /\ Guarded(l) # {}
      <3>1. PICK n : n = [l EXCEPT !.pc = "decode"]
        OBVIOUS
      <3>2. l \in LaneRecord
        <4>1. x \in 0 .. MaxGen
          BY <1>3, <1>4, <2>1, StoreAssumption
        <4> QED BY <1>3, <2>4, <4>1 DEF LaneRecord, LanePc, Guards
      <3>3. n.h = l.h /\ n.guards = l.guards
        BY <3>1, <3>2 DEF LaneRecord
      <3> QED BY <1>1, <1>2, <2>3, <2>7, <2>9, <3>1, <3>3, AliveProceeds
    <2>10. CASE l.todo = {} /\ Guarded(l) = {}
      BY <1>1, <1>2, <2>3, <2>10, AliveReturns
    <2> QED BY <2>8, <2>9, <2>10
  <1> QED BY <1>5, <1>6

\* A step of process() that goes on with the same guards.
LEMMA AliveSame ==
    ASSUME IndexerInv, AliveInv, Steady, [Call]_storeVars, UNCHANGED node,
           NEW w \in Workers, NEW m, m = lane[w], m.pc \notin {"idle", "current"},
           NEW l, Proceed(w, l), l.h = m.h, l.guards = m.guards
    PROVE  AliveInv'
  BY SameGuards, AliveProceeds

LEMMA AliveDecode ==
    ASSUME IndexerInv, AliveInv, Steady, NEW w \in Workers, DecodeBlock(w) \/ ReadFloor(w) \/ RaiseFloor(w)
    PROVE  AliveInv'
  <1>1. PICK m : m = lane[w]
    OBVIOUS
  <1>2. m.pc \in {"decode", "floor", "setfloor"} /\ UNCHANGED node
    BY <1>1 DEF DecodeBlock, ReadFloor, RaiseFloor, envVars
  <1>3. m \in LaneRecord /\ m.h <= target.h /\ m.h \in Int /\ conn = "up"
    BY <1>1, <1>2, LaneFacts
  <1>4. CASE DecodeBlock(w)
    <2>1. ~(m.h > node.head)
      <3>1. target.h <= node.head
        BY <1>3 DEF AliveInv, Connected
      <3> QED BY <1>3, <3>1, TypeFacts
    <2>2. PICK p, T : Proceed(w, [m EXCEPT !.pc = p, !.todo = T])
      BY <1>1, <1>4, <2>1 DEF DecodeBlock
    <2>3. PICK l : l = [m EXCEPT !.pc = p, !.todo = T]
      OBVIOUS
    <2>4. l.h = m.h /\ l.guards = m.guards /\ UNCHANGED storeVars
      BY <1>3, <1>4, <2>3 DEF LaneRecord, DecodeBlock
    <2> QED BY <1>1, <1>2, <2>2, <2>3, <2>4, AliveSame
  <1>5. CASE ReadFloor(w)
    <2>1. PICK f : Proceed(w, [m EXCEPT !.pc = "setfloor", !.old = f])
      BY <1>1, <1>5 DEF ReadFloor
    <2>2. PICK l : l = [m EXCEPT !.pc = "setfloor", !.old = f]
      OBVIOUS
    <2>3. l.h = m.h /\ l.guards = m.guards /\ UNCHANGED storeVars
      BY <1>3, <1>5, <2>2 DEF LaneRecord, ReadFloor
    <2> QED BY <1>1, <1>2, <2>1, <2>2, <2>3, AliveSame
  <1>6. CASE RaiseFloor(w)
    <2>1. [Call]_storeVars
      BY <1>6, RaiseFloorKeeps
    <2>2. PICK T : \/ Return(w, "stale") \/ Return(w, "ok")
                   \/ Proceed(w, [m EXCEPT !.todo = T, !.pc = "floor", !.old = None])
      <3>1. PICK d : d = FirstDomain(m.todo)
        OBVIOUS
      <3>2. PICK T : T = m.todo \ {d}
        OBVIOUS
      <3>3. [m EXCEPT !.todo = @ \ {d}, !.pc = "floor", !.old = None]
              = [m EXCEPT !.todo = T, !.pc = "floor", !.old = None]
        BY <1>3, <3>2 DEF LaneRecord
      <3> QED BY <1>1, <1>6, <3>1, <3>3 DEF RaiseFloor, Refused
    <2>3. PICK l : l = [m EXCEPT !.todo = T, !.pc = "floor", !.old = None]
      OBVIOUS
    <2>4. l.h = m.h /\ l.guards = m.guards
      BY <1>3, <2>3 DEF LaneRecord
    <2> QED BY <1>1, <1>2, <2>1, <2>2, <2>3, <2>4, AliveSame, AliveReturns
  <1> QED BY <1>4, <1>5, <1>6

LEMMA AfterDomainFields ==
    ASSUME NEW m \in LaneRecord, NEW d, NEW c, NEW l, l = AfterDomain(m, d, c)
    PROVE  l.h = m.h /\ l.guards = m.guards
  BY DEF AfterDomain, LaneRecord

LEMMA AliveEnrich ==
    ASSUME IndexerInv, AliveInv, Steady, NEW w \in Workers, EnrichDomain(w)
    PROVE  AliveInv'
  <1>1. PICK m : m = lane[w]
    OBVIOUS
  <1>2. m.pc = "domains" /\ UNCHANGED node /\ [Call]_storeVars
    BY <1>1, EnrichDomainKeeps DEF EnrichDomain, envVars
  <1>3. m \in LaneRecord /\ m.h \in Height
    BY <1>1, <1>2, LaneFacts
  <1>4. CASE m.todo = {}
    <2>1. PICK l : l = [m EXCEPT !.pc = "commit"]
      OBVIOUS
    <2>2. Proceed(w, l)
      BY <1>1, <1>4, <2>1 DEF EnrichDomain
    <2>3. l.h = m.h /\ l.guards = m.guards
      BY <1>3, <2>1 DEF LaneRecord
    <2> QED BY <1>1, <1>2, <2>2, <2>3, AliveSame
  <1>5. CASE m.todo # {}
    <2>1. ~(\E x \in Identities(m.h) : x # BlockHash[m.h])
      BY <1>3, NoConflict
    <2>2. Refused(w, TRUE) \/ \E d, c : Proceed(w, AfterDomain(m, d, c))
      BY <1>1, <1>5, <2>1 DEF EnrichDomain
    <2>3. CASE Refused(w, TRUE)
      BY <1>1, <1>2, <2>3, AliveReturns DEF Refused
    <2>4. CASE \E d, c : Proceed(w, AfterDomain(m, d, c))
      <3>1. PICK d, c : Proceed(w, AfterDomain(m, d, c))
        BY <2>4
      <3>2. PICK l : l = AfterDomain(m, d, c)
        OBVIOUS
      <3>3. l.h = m.h /\ l.guards = m.guards
        BY <1>3, <3>2, AfterDomainFields
      <3> QED BY <1>1, <1>2, <3>1, <3>2, <3>3, AliveSame
    <2> QED BY <2>2, <2>3, <2>4
  <1> QED BY <1>4, <1>5

LEMMA AliveCommit ==
    ASSUME IndexerInv, AliveInv, Steady, NEW w \in Workers, CommitDecoded(w)
    PROVE  AliveInv'
  <1>1. PICK m : m = lane[w]
    OBVIOUS
  <1>2. m.pc = "commit" /\ UNCHANGED node /\ [Call]_storeVars
    BY <1>1, CommitDecodedKeeps DEF CommitDecoded, envVars
  <1>3. LaneShape(m) /\ m \in LaneRecord /\ m.h \in Height /\ m.h \in Int
        /\ m.guards \in [Domains -> 0 .. MaxGen] /\ m.done \subseteq Domains
        /\ m.done \subseteq Guarded(m) \ {"participation"} /\ LaneAlive(m)
    BY <1>1, <1>2, LaneFacts DEF LaneShape, AliveInv
  <1>4. PICK n : n = [m EXCEPT !.pc = "part"]
    OBVIOUS
  <1>5. n.h = m.h /\ n.guards = m.guards
    BY <1>3, <1>4 DEF LaneRecord
  <1> DEFINE recs == [d \in Domains |-> IF d \in m.done THEN RecordOf(d, m.h) ELSE {}]
  <1>6. PICK b : b = [h |-> m.h, hash |-> BlockHash[m.h], guards |-> m.guards,
                      recs |-> recs, completed |-> m.done]
    OBVIOUS
  <1>7. IF m.done = {} THEN Proceed(w, n) /\ UNCHANGED storeVars
        ELSE IF CommitAccepted(b)
        THEN /\ lane' = [lane EXCEPT ![w] = n]
             /\ UNCHANGED <<bf, conn, setup, pending, announced>>
        ELSE Refused(w, StaleBatch(b))
    BY <1>1, <1>4, <1>6 DEF CommitDecoded
  <1>8. \A d \in Domains : RecordOf(d, m.h) \subseteq {Rec}
    BY DEF RecordOf
  <1>9. /\ recs \in [Domains -> SUBSET Values]
        /\ \A d \in Domains : recs[d] \subseteq {Rec} /\ (d \notin m.done => recs[d] = {})
    BY <1>8, IndexerAssumption
  <1>10. b \in Batch
    <2>1. recs \in Records
      BY <1>9 DEF Records
    <2> QED BY <1>3, <1>6, <2>1, ConstantFacts DEF Batch, Guards
  <1>11. /\ b.h = m.h /\ b.hash = BlockHash[m.h] /\ b.guards = m.guards /\ b.recs = recs
         /\ b.completed = m.done
    BY <1>6
  <1> HIDE DEF recs
  <1>12. CASE m.done = {}
    BY <1>1, <1>2, <1>5, <1>7, <1>12, AliveSame
  <1>13. CASE m.done # {} /\ CommitAccepted(b)
    <2>1. LaneAlive(n)
      BY <1>1, <1>2, <1>5, SameGuards
    <2> QED BY <1>1, <1>2, <1>7, <1>13, <2>1, AliveLane
  <1>14. CASE m.done # {} /\ ~CommitAccepted(b)
    <2>1. StaleBatch(b)
      <3> SUFFICES ASSUME ~StaleBatch(b) PROVE CommitAccepted(b)
        BY <1>14
      <3>1. Affected(b) = m.done
        BY <1>3, <1>9, <1>11 DEF Affected
      <3>2. \A d \in Affected(b) : b.guards[d] # 0
        BY <1>3, <1>11, <3>1 DEF Guarded
      <3>3. \A d \in b.completed : b.h >= cov[d].start
        BY <1>2, <1>3, <1>11 DEF LaneAlive
      <3>4. \A d \in Domains \ {"participation"} : b.recs[d] \subseteq {Rec}
        BY <1>9, <1>11
      <3> QED BY <1>10, <1>11, <1>14, <3>1, <3>2, <3>3, <3>4, HonestAccepted
    <2>2. Return(w, "stale")
      BY <1>7, <1>14, <2>1 DEF Refused
    <2> QED BY <1>1, <1>2, <2>2, AliveReturns
  <1> QED BY <1>12, <1>13, <1>14

LEMMA AliveParticipation ==
    ASSUME IndexerInv, AliveInv, Steady, NEW w \in Workers, ParticipationPage(w)
    PROVE  AliveInv'
  <1>1. PICK m : m = lane[w]
    OBVIOUS
  <1>2. m.pc = "part" /\ UNCHANGED node /\ [Call]_storeVars
    BY <1>1, ParticipationPageKeeps DEF ParticipationPage, envVars
  <1>3. m \in LaneRecord /\ m.h \in Height /\ m.h \in Int /\ m.h >= 0
        /\ m.guards \in [Domains -> 0 .. MaxGen]
    BY <1>1, <1>2, LaneFacts, U64MaxAssumption DEF Height
  <1> DEFINE unread == Kind[m.h] # "none"
  <1>4. CASE "participation" \notin Guarded(m) \/ (unread /\ PinUnreadable(m.pin))
    BY <1>1, <1>2, <1>4, AliveReturns DEF ParticipationPage
  <1>5. CASE ~("participation" \notin Guarded(m) \/ (unread /\ PinUnreadable(m.pin)))
    <2> DEFINE q == "participation"
    <2>1. q \in Domains /\ q \in Sparse
      BY <1>5 DEF Guarded, Sparse
    <2> DEFINE guards == [NoGuards EXCEPT ![q] = m.guards[q]]
    <2> DEFINE last(P) == ~unread \/ Exhausted(P)
    <2> DEFINE recs(P) == [d \in Domains |-> IF d = q THEN P ELSE {}]
    <2> DEFINE batch(P) == [h |-> m.h, hash |-> BlockHash[m.h], guards |-> guards, recs |-> recs(P),
                            completed |-> IF last(P) THEN {q} ELSE {}]
    <2>2. PICK P \in SUBSET Participants[m.h] :
             /\ IF unread THEN Page(P, Participants[m.h] \ m.seen) ELSE P = {}
             /\ IF ~ CommitAccepted(batch(P)) THEN Refused(w, StaleBatch(batch(P)))
                ELSE IF ~ last(P)
                THEN Proceed(w, [m EXCEPT !.seen = @ \cup P])
                ELSE /\ lane' = [lane EXCEPT ![w] = Idle]
                     /\ bf' = IF w = "live" THEN bf
                              ELSE [bf EXCEPT !.pc = IF @ = "author" THEN "sparse" ELSE "check"]
                     /\ UNCHANGED <<conn, setup, pending, announced>>
      BY <1>1, <1>5 DEF ParticipationPage
    <2>3. PICK b : b = batch(P)
      OBVIOUS
    <2>4. P \subseteq Values /\ guards \in [Domains -> 0 .. MaxGen] /\ guards[q] = m.guards[q]
      BY <1>3, <2>1, IndexerAssumption, StoreAssumption DEF NoGuards
    <2>5. recs(P) \in Records
      BY <2>4 DEF Records
    <2>6. /\ b.h = m.h /\ b.hash = BlockHash[m.h] /\ b.guards = guards /\ b.recs = recs(P)
          /\ b.completed = IF last(P) THEN {q} ELSE {}
      BY <2>3
    <2>7. b \in Batch
      BY <1>3, <2>1, <2>3, <2>4, <2>5, ConstantFacts DEF Batch, Guards
    <2>8. b.recs[q] = P /\ \A d \in Domains \ {q} : b.recs[d] = {}
      BY <2>1, <2>6
    <2>9. b.guards[q] # 0
      BY <1>5, <2>4, <2>6 DEF Guarded
    <2> HIDE DEF guards, recs, batch
    <2>10. CASE ~CommitAccepted(b)
      <3>1. StaleBatch(b)
        <4> SUFFICES ASSUME ~StaleBatch(b) PROVE CommitAccepted(b)
          BY <2>10
        <4>1. ~last(P) => P # {}
          <5>1. Cardinality({}) = 0 /\ PageSize \in Nat \ {0}
            BY FS_EmptySet, IndexerAssumption
          <5> QED BY <5>1 DEF Exhausted
        <4>2. Affected(b) = {q}
          BY <2>1, <2>6, <2>8, <4>1 DEF Affected
        <4>3. \A d \in b.completed : b.h >= cov[d].start
          BY <1>3, <2>1, <2>6 DEF IndexerInv, StoreHonest
        <4>4. \A d \in Domains \ {"participation"} : b.recs[d] \subseteq {Rec}
          BY <2>8
        <4> QED BY <2>6, <2>7, <2>9, <4>2, <4>3, <4>4, HonestAccepted
      <3>2. Return(w, "stale")
        BY <2>2, <2>3, <2>10, <3>1 DEF Refused
      <3> QED BY <1>1, <1>2, <3>2, AliveReturns
    <2>11. CASE CommitAccepted(b) /\ ~last(P)
      <3>1. PICK l : l = [m EXCEPT !.seen = @ \cup P]
        OBVIOUS
      <3>2. Proceed(w, l) /\ l.h = m.h /\ l.guards = m.guards
        BY <1>3, <2>2, <2>3, <2>11, <3>1 DEF LaneRecord
      <3> QED BY <1>1, <1>2, <3>2, AliveSame
    <2>12. CASE CommitAccepted(b) /\ last(P)
      <3>1. /\ lane' = [lane EXCEPT ![w] = Idle]
            /\ bf' = IF w = "live" THEN bf
                     ELSE [bf EXCEPT !.pc = IF bf.pc = "author" THEN "sparse" ELSE "check"]
            /\ UNCHANGED <<conn, setup, pending>>
        BY <2>2, <2>3, <2>12
      <3> QED BY <1>1, <1>2, <3>1, AliveLane, IdleOK DEF Workers
    <2> QED BY <2>10, <2>11, <2>12
  <1> QED BY <1>4, <1>5

LEMMA AliveProcess ==
    ASSUME IndexerInv, AliveInv, Steady, NEW w \in Workers, Process(w) \/ ProcessFails(w)
    PROVE  AliveInv'
  <1>1. CASE Process(w)
    BY <1>1, AliveGuards, AliveDecode, AliveEnrich, AliveCommit, AliveParticipation DEF Process
  <1>2. CASE ProcessFails(w)
    <2>1. PICK m : m = lane[w]
      OBVIOUS
    <2>2. UNCHANGED storeVars /\ UNCHANGED node /\ m.pc \in {"decode", "domains", "part"}
      BY <1>2, <2>1 DEF ProcessFails, DecodeFails, EnrichFails, ParticipationFails, Fail
    <2>3. CASE DecodeFails(w) \/ ParticipationFails(w)
      BY <2>1, <2>2, <2>3, AliveReturns DEF DecodeFails, ParticipationFails
    <2>4. CASE EnrichFails(w)
      <3>1. m \in LaneRecord
        BY <2>1, <2>2, LaneFacts
      <3>2. PICK d, c : Proceed(w, AfterDomain(m, d, c))
        BY <2>1, <2>4 DEF EnrichFails
      <3>3. PICK l : l = AfterDomain(m, d, c)
        OBVIOUS
      <3>4. l.h = m.h /\ l.guards = m.guards
        BY <3>1, <3>3, AfterDomainFields
      <3> QED BY <2>1, <2>2, <3>2, <3>3, <3>4, AliveSame
    <2> QED BY <1>2, <2>3, <2>4 DEF ProcessFails
  <1> QED BY <1>1, <1>2
LEMMA AliveReconnect ==
    ASSUME IndexerInv, AliveInv, Steady, Reconnect
    PROVE  AliveInv'
  <1>1. [Call]_storeVars
    BY ConnectKeeps, InitializeDomainKeeps, ClearFloorKeeps, InitializedKeeps DEF Reconnect
  <1>2. conn # "up" /\ bf.pc = "off" /\ (\A w \in Workers : lane[w].pc = "idle") /\ lane' = lane
    <2>1. conn # "up" /\ lane' = lane
      BY DEF Reconnect, Connect, InitializeDomain, ClearFloor, Initialized
    <2> QED BY <2>1, QuietLanes
  <1>3. node.head \in Int /\ pending \in Int /\ target.h \in Int
    BY TypeFacts
  <1>4. CASE Connect
    <2>1. /\ UNCHANGED storeVars /\ conn' = "init" /\ setup' = Domains /\ bf' = bf /\ pending' = pending
          /\ UNCHANGED <<gen, cov, target>>
      BY <1>4 DEF Connect, storeVars
    <2>2. PICK h \in 0 .. chainHead : h + Lag >= chainHead /\ node'.head = h
      BY <1>4 DEF Connect
    <2>3. chainHead \in Int /\ target.h <= chainHead /\ pending <= chainHead
      BY TypeFacts DEF IndexerInv, LinkOK
    <2>4. target'.h <= node'.head /\ pending' <= node'.head
      BY <1>3, <2>1, <2>2, <2>3 DEF Steady
    <2> QED BY <1>2, <2>1, <2>4 DEF AliveInv, ScanPc
  <1>5. CASE InitializeDomain
    <2>1. conn = "init" /\ conn' = "floor" /\ UNCHANGED <<setup, pending, node, bf>>
      BY <1>5 DEF InitializeDomain, envVars
    <2> QED BY <1>1, <1>2, <1>3, <2>1, AliveKept DEF Connected
  <1>6. CASE Initialized
    <2>1. conn = "init" /\ conn' = "up" /\ UNCHANGED <<setup, pending, node>> /\ bf' = [Off EXCEPT !.pc = "plan"]
      BY <1>6 DEF Initialized, envVars
    <2>2. bf'.pc = "plan"
      BY <2>1 DEF Off
    <2> QED BY <1>1, <1>2, <1>3, <2>1, <2>2, AliveKept DEF Connected, ScanPc
  <1>7. CASE ClearFloor
    <2>1. /\ conn = "floor" /\ conn' = "init" /\ UNCHANGED <<pending, node, bf>>
          /\ setup # {} /\ setup \subseteq Domains
      BY <1>7 DEF ClearFloor, envVars, IndexerInv, LinkOK
    <2>2. PICK d \in setup : d = FirstDomain(setup)
      BY <2>1, FirstDomainFacts
    <2>3. SetPrunedFloor(d, gen[d], None) /\ setup' = setup \ {d} /\ d \in Domains
      BY <1>7, <2>1, <2>2 DEF ClearFloor
    <2>4. ReadCoverage(d, 0) \in CoverageRecord /\ ReadCoverage(d, 0).gen = gen[d] /\ gen[d] = 1
          /\ cov \in [Domains -> CoverageRecord]
      BY <2>3, ReadCoverageFacts, ConstantFacts DEF IndexerInv, StoreInv, TypeOK, AliveInv
    <2>5. cov' = [cov EXCEPT ![d] = [ReadCoverage(d, 0) EXCEPT !.floor = None]] /\ UNCHANGED <<gen, target>>
      BY <2>3 DEF SetPrunedFloor
    <2>6. [ReadCoverage(d, 0) EXCEPT !.floor = None].gen # 0
      BY <2>4 DEF CoverageRecord
    <2>7. cov'[d].gen # 0 /\ \A e \in Domains \ {d} : cov'[e] = cov[e]
      BY <2>3, <2>4, <2>5, <2>6
    <2>8. \A e \in Domains \ setup' : cov'[e].gen # 0
      BY <2>1, <2>3, <2>7 DEF AliveInv, Connected
    <2> QED BY <1>2, <2>1, <2>5, <2>8 DEF AliveInv, ScanPc, Connected
  <1> QED BY <1>4, <1>5, <1>6, <1>7 DEF Reconnect

LEMMA AliveAnnounce ==
    ASSUME IndexerInv, AliveInv, Steady, Announce
    PROVE  AliveInv'
  <1>1. [Call]_storeVars
    BY ReceiveHeadKeeps, RecordHeadKeeps DEF Announce
  <1>2. UNCHANGED <<conn, setup, node, lane, bf>> /\ pending' \in {None, node.head}
    BY DEF Announce, ReceiveHead, RecordHead, envVars
  <1>3. node.head \in Int /\ conn # "dead"
    BY TypeFacts DEF AliveInv
  <1> QED BY <1>1, <1>2, <1>3, AliveKept

\* A fresh lane has no guards yet.
LEMMA AliveStart ==
    ASSUME NEW h \in Height, NEW pin \in Height, NEW l, l = Start(h, pin)
    PROVE  LaneAlive(l)
  BY StartFacts DEF LaneAlive, Guarded

LEMMA AliveLiveStart ==
    ASSUME IndexerInv, AliveInv, Steady, LiveStart
    PROVE  AliveInv'
  <1>1. /\ UNCHANGED storeVars /\ UNCHANGED <<node, conn, setup, pending, bf>> /\ conn = "up"
        /\ lane' = [lane EXCEPT !["live"] = Start(announced.h, announced.h)]
    BY DEF LiveStart, envVars
  <1>2. PICK l : l = Start(announced.h, announced.h)
    OBVIOUS
  <1>3. LaneAlive(l)
    BY <1>2, AliveStart, TypeFacts
  <1>4. lane \in [Workers -> LaneRecord]
    BY DEF IndexerInv
  <1>5. \A v \in Workers : lane'[v] = IF v = "live" THEN l ELSE lane[v]
    BY <1>1, <1>2, <1>4 DEF Workers
  <1>6. node.head \in Int
    BY TypeFacts
  <1> QED BY <1>1, <1>3, <1>5, <1>6, AliveKept

\* The worker moves on: the scan it works on is there, or it does not need one yet.
LEMMA AliveBackfillGoes ==
    ASSUME IndexerInv, AliveInv, Steady, [Call]_storeVars, UNCHANGED <<node, linkVars, lane>>,
           bf'.pc \in ScanPc \ {"scan"} =>
               \/ MyScan' # {}
               \/ /\ bf.pc \in ScanPc \ {"scan"}
                  /\ bf'.d = bf.d /\ bf'.g = bf.g /\ bf'.pin = bf.pin
    PROVE  AliveInv'
  <1>1. node.head \in Int /\ UNCHANGED <<conn, setup, pending>> /\ conn # "dead"
    BY TypeFacts DEF linkVars, AliveInv
  <1> QED BY <1>1, AliveKept

LEMMA AliveBackfillStarts ==
    ASSUME IndexerInv, AliveInv, Steady, [Call]_storeVars, UNCHANGED <<node, linkVars>>, bf.pc # "off",
           NEW h \in Height, NEW pin \in Height,
           lane' = [lane EXCEPT !["backfill"] = Start(h, pin)],
           bf'.pc \in ScanPc \ {"scan"} =>
               /\ bf.pc \in ScanPc \ {"scan"}
               /\ bf'.d = bf.d /\ bf'.g = bf.g /\ bf'.pin = bf.pin
    PROVE  AliveInv'
  <1>1. node.head \in Int /\ UNCHANGED <<conn, setup, pending>> /\ conn # "dead" /\ conn = "up"
    BY TypeFacts, BackfillFacts DEF linkVars, AliveInv
  <1>2. PICK l : l = Start(h, pin)
    OBVIOUS
  <1>3. LaneAlive(l)
    BY <1>2, AliveStart
  <1>4. lane \in [Workers -> LaneRecord]
    BY DEF IndexerInv
  <1>5. \A v \in Workers : lane'[v] = IF v = "backfill" THEN l ELSE lane[v]
    BY <1>2, <1>4 DEF Workers
  <1> QED BY <1>1, <1>3, <1>5, AliveKept

LEMMA NextChunkPc == NextChunk.pc = "sparse"
  BY DEF NextChunk, Off

LEMMA AliveRound ==
    ASSUME IndexerInv, AliveInv, Steady,
           PlanRound \/ EndRound \/ StartChunk \/ InitializeChunk \/ PlanChunk
    PROVE  AliveInv'
  <1>1. [Call]_storeVars
    BY PlanRoundKeeps, EndRoundKeeps, StartChunkKeeps, InitializeChunkKeeps, PlanChunkKeeps
  <1>2. CASE PlanRound
    <2>1. bf.pc = "plan" /\ conn = "up"
      BY <1>2, BackfillFacts DEF PlanRound
    <2>2. bf'.pc \notin ScanPc /\ UNCHANGED <<node, linkVars>>
      BY ZenonT(40), <1>2 DEF PlanRound, BfGoes, BfStarts, envVars, Off, ScanPc
    <2>3. lane' = lane \/ \E h, pin : lane' = [lane EXCEPT !["backfill"] = Start(h, pin)]
      BY <1>2 DEF PlanRound, BfGoes, BfStarts
    <2>4. CASE lane' = lane
      BY <1>1, <2>2, <2>4, AliveBackfillGoes
    <2>5. CASE \E h, pin : lane' = [lane EXCEPT !["backfill"] = Start(h, pin)]
      <3>1. PICK h, pin : lane' = [lane EXCEPT !["backfill"] = Start(h, pin)]
        BY <2>5
      <3>2. PICK l : l = Start(h, pin)
        OBVIOUS
      <3>3. l.guards = NoGuards
        BY <3>2 DEF Start, Idle
      <3>4. LaneAlive(l)
        BY <3>3 DEF LaneAlive, Guarded, NoGuards
      <3>5. lane \in [Workers -> LaneRecord]
        BY DEF IndexerInv
      <3>6. \A v \in Workers : lane'[v] = IF v = "backfill" THEN l ELSE lane[v]
        BY <3>1, <3>2, <3>5 DEF Workers
      <3>7. node.head \in Int /\ UNCHANGED <<conn, setup, pending>> /\ conn # "dead"
        BY <2>2, TypeFacts DEF linkVars, AliveInv
      <3> QED BY <1>1, <2>1, <2>2, <3>4, <3>6, <3>7, AliveKept
    <2> QED BY <2>3, <2>4, <2>5
  <1>3. CASE EndRound
    <2>1. bf'.pc = "plan" /\ UNCHANGED <<node, linkVars, lane>>
      BY <1>3 DEF EndRound, BfGoes, envVars, Off
    <2> QED BY <1>1, <2>1, AliveBackfillGoes DEF ScanPc
  <1>4. CASE StartChunk
    <2>1. bf.pc = "sparse" /\ NextChunk \in BackfillRecord
      BY <1>4, NextChunkFits DEF StartChunk
    <2>2. bf'.pc = "init" /\ UNCHANGED <<node, linkVars, lane>>
      BY <1>4, <2>1 DEF StartChunk, BfGoes, envVars, BackfillRecord
    <2> QED BY <1>1, <2>2, AliveBackfillGoes DEF ScanPc
  <1>5. CASE InitializeChunk
    <2>1. CASE Disconnected
      BY <1>1, <2>1, AliveDrops DEF Disconnected
    <2>2. CASE BfGoes([bf EXCEPT !.pc = "work"])
      <3>1. bf \in BackfillRecord
        BY DEF IndexerInv, BackfillOK
      <3>2. bf'.pc = "work" /\ UNCHANGED <<node, linkVars, lane>>
        BY <2>2, <3>1 DEF BfGoes, envVars, BackfillRecord
      <3> QED BY <1>1, <3>2, AliveBackfillGoes DEF ScanPc
    <2> QED BY <1>5, <2>1, <2>2 DEF InitializeChunk
  <1>6. CASE PlanChunk
    <2>1. bf \in BackfillRecord
      BY DEF IndexerInv, BackfillOK
    <2>2. CASE BfGoes(NextChunk)
      BY <1>1, <2>2, NextChunkPc, AliveBackfillGoes DEF BfGoes, envVars, ScanPc
    <2>3. CASE \E lo, pin, ceil : BfGoes([bf EXCEPT !.pc = "scan", !.from = lo, !.pin = pin, !.ceil = ceil])
      <3>1. bf'.pc = "scan" /\ UNCHANGED <<node, linkVars, lane>>
        BY <2>1, <2>3 DEF BfGoes, envVars, BackfillRecord
      <3> QED BY <1>1, <3>1, AliveBackfillGoes
    <2> QED BY <1>6, <2>2, <2>3 DEF PlanChunk
  <1> QED BY <1>2, <1>3, <1>4, <1>5, <1>6

\* The worker keeps its scan while it moves through a chunk.
LEMMA AliveChunkGoes ==
    ASSUME IndexerInv, AliveInv, Steady, [Call]_storeVars, bf.pc \in ScanPc \ {"scan"},
           NEW b, b.d = bf.d, b.g = bf.g, b.pin = bf.pin, BfGoes(b)
    PROVE  AliveInv'
  BY AliveBackfillGoes DEF BfGoes, envVars

LEMMA AliveChunkEnds ==
    ASSUME IndexerInv, AliveInv, Steady, [Call]_storeVars,
           bf' = NextChunk, UNCHANGED <<node, linkVars, lane>>
    PROVE  AliveInv'
  BY AliveBackfillGoes, NextChunkPc DEF ScanPc

LEMMA AliveScan ==
    ASSUME IndexerInv, AliveInv, Steady,
           OpenScan \/ ReadProgress \/ EnumeratePage \/ LoadWinners \/ CheckReplayed
    PROVE  AliveInv'
  <1>1. [Call]_storeVars
    BY OpenScanKeeps, ReadProgressKeeps, EnumeratePageKeeps, LoadWinnersKeeps, CheckReplayedKeeps
  <1>2. bf \in BackfillRecord
    BY DEF IndexerInv, BackfillOK
  <1>3. CASE OpenScan
    <2>1. CASE bf.g # gen[bf.d]
      BY <1>1, <1>3, <2>1, AliveChunkEnds DEF OpenScan, BfGoes, envVars
    <2>2. CASE bf.g = gen[bf.d]
      <3>1. /\ bf' = [bf EXCEPT !.pc = "pages"] /\ UNCHANGED <<node, linkVars, lane>>
            /\ IF MyScan # {} THEN UNCHANGED storeVars ELSE BeginScan(bf.d, bf.g, bf.pin)
        BY <1>3, <2>2 DEF OpenScan, BfGoes, envVars
      <3>2. bf'.d = bf.d /\ bf'.g = bf.g /\ bf'.pin = bf.pin
        BY <1>2, <3>1 DEF BackfillRecord
      <3>3. MyScan' # {}
        <4>1. CASE MyScan # {}
          BY <3>1, <3>2, <4>1 DEF MyScan, storeVars
        <4>2. CASE MyScan = {}
          <5> DEFINE n == [d |-> bf.d, g |-> bf.g, pin |-> bf.pin,
                           cursor |-> {}, found |-> {}, finished |-> FALSE]
          <5>1. n \in scans' /\ n.d = bf.d /\ n.g = bf.g /\ n.pin = bf.pin
            BY <3>1, <4>2 DEF BeginScan
          <5> HIDE DEF n
          <5> QED BY <3>2, <5>1 DEF MyScan
        <4> QED BY <4>1, <4>2
      <3> QED BY <1>1, <3>1, <3>3, AliveBackfillGoes
    <2> QED BY <2>1, <2>2
  <1>4. CASE ReadProgress
    <2>1. bf.pc = "pages" /\ bf.pc \in ScanPc \ {"scan"}
      BY <1>4 DEF ReadProgress, ScanPc
    <2>2. MyScan # {}
      BY <2>1 DEF AliveInv
    <2>3. PICK p : BfGoes([bf EXCEPT !.pc = p])
      BY <1>4, <2>2 DEF ReadProgress
    <2>4. PICK b : b = [bf EXCEPT !.pc = p]
      OBVIOUS
    <2>5. b.d = bf.d /\ b.g = bf.g /\ b.pin = bf.pin
      BY <1>2, <2>4 DEF BackfillRecord
    <2> QED BY <1>1, <2>1, <2>3, <2>4, <2>5, AliveChunkGoes
  <1>5. CASE EnumeratePage
    <2>1. Disconnected \/ (bf' = NextChunk /\ UNCHANGED <<node, linkVars, lane>>)
      BY <1>5 DEF EnumeratePage, envVars
    <2> QED BY <1>1, <2>1, AliveDrops, AliveChunkEnds DEF Disconnected
  <1>6. CASE LoadWinners
    <2>1. bf.pc \in ScanPc \ {"scan"}
      BY <1>6 DEF LoadWinners, ScanPc
    <2>2. PICK R, c, f : BfGoes([bf EXCEPT !.pc = "next", !.rows = R, !.cursor = c, !.full = f])
      BY <1>6 DEF LoadWinners
    <2>3. PICK b : b = [bf EXCEPT !.pc = "next", !.rows = R, !.cursor = c, !.full = f]
      OBVIOUS
    <2>4. b.d = bf.d /\ b.g = bf.g /\ b.pin = bf.pin
      BY <1>2, <2>3 DEF BackfillRecord
    <2> QED BY <1>1, <2>1, <2>2, <2>3, <2>4, AliveChunkGoes
  <1>7. CASE CheckReplayed
    <2>1. bf.pc \in ScanPc \ {"scan"}
      BY <1>7 DEF CheckReplayed, ScanPc
    <2>2. BfGoes(NextChunk) \/ \E p : BfGoes([bf EXCEPT !.pc = p])
      BY <1>7 DEF CheckReplayed
    <2>3. CASE BfGoes(NextChunk)
      BY <1>1, <2>3, AliveChunkEnds DEF BfGoes, envVars
    <2>4. CASE \E p : BfGoes([bf EXCEPT !.pc = p])
      <3>1. PICK p : BfGoes([bf EXCEPT !.pc = p])
        BY <2>4
      <3>2. PICK b : b = [bf EXCEPT !.pc = p]
        OBVIOUS
      <3>3. b.d = bf.d /\ b.g = bf.g /\ b.pin = bf.pin
        BY <1>2, <3>2 DEF BackfillRecord
      <3> QED BY <1>1, <2>1, <3>1, <3>2, <3>3, AliveChunkGoes
    <2> QED BY <2>2, <2>3, <2>4
  <1> QED BY <1>3, <1>4, <1>5, <1>6, <1>7

\* A range within the pinned state is refused only for what its scan does not prove.
LEMMA RangeNeverIllFormed ==
    ASSUME IndexerInv, bf.pc \in ChunkPc, bf.g = gen[bf.d], NEW a \in Height, NEW e \in Height,
           a <= e, e <= bf.pin,
           NEW s \in MyScan, s.finished, UncommittedWinners(s, ReadCoverage(bf.d, 0), a, e) = {}
    PROVE  RangeAccepted(s, bf.d, bf.g, a, e)
  <1>1. bf.d \in Domains /\ bf.d \in Sparse /\ bf.d # "authorship"
    BY BackfillFacts DEF ChunkPc, Sparse
  <1>2. s \in scans /\ s.d = bf.d /\ s.g = bf.g /\ s.pin = bf.pin
    BY DEF MyScan
  <1>3. Readable(bf.d)
    BY <1>1 DEF IndexerInv, StoreInv, CoverageReadable
  <1>4. ReadCoverage(bf.d, 0).start = 0
    BY <1>1 DEF ReadCoverage, EmptyCoverage, IndexerInv, StoreHonest
  <1>5. ~CoverRejected(ReadCoverage(bf.d, 0), a, e)
    BY <1>4, U64MaxAssumption DEF CoverRejected, Height
  <1>6. s.pin >= e
    BY <1>2, BackfillFacts, ConstantFacts DEF ChunkPc
  <1> QED BY <1>1, <1>2, <1>3, <1>5, <1>6 DEF RangeAccepted

LEMMA AliveFinishRange ==
    ASSUME IndexerInv, AliveInv, Steady, [Call]_storeVars, bf.pc \in ScanPc \ {"scan"},
           NEW a \in Height, NEW e \in Height, a <= e, e <= bf.pin, NEW b, FinishRange(a, e, b),
           b.pc = "sparse" \/ (b.d = bf.d /\ b.g = bf.g /\ b.pin = bf.pin)
    PROVE  AliveInv'
  <1>1. bf.pc \in ChunkPc
    BY DEF ScanPc, ChunkPc
  <1>2. BfGoes(b) \/ Disconnected
    <2>1. CASE bf.g # gen[bf.d] \/ \E s \in MyScan : RangeAccepted(s, bf.d, bf.g, a, e)
      BY <2>1 DEF FinishRange
    <2>2. CASE ~(bf.g # gen[bf.d] \/ \E s \in MyScan : RangeAccepted(s, bf.d, bf.g, a, e))
      BY <1>1, <2>2, RangeNeverIllFormed DEF FinishRange
    <2> QED BY <2>1, <2>2
  <1>3. CASE Disconnected
    BY <1>3, AliveDrops DEF Disconnected
  <1>4. CASE BfGoes(b)
    BY <1>4, AliveBackfillGoes DEF BfGoes, envVars, ScanPc
  <1> QED BY <1>2, <1>3, <1>4

LEMMA AliveReplay ==
    ASSUME IndexerInv, AliveInv, Steady, ReplayWinner \/ SplitRange \/ FinishChunk
    PROVE  AliveInv'
  <1>1. [Call]_storeVars /\ bf \in BackfillRecord
    BY ReplayWinnerKeeps, SplitRangeKeeps, FinishChunkKeeps DEF IndexerInv, BackfillOK
  <1>2. bf.pc \in {"next", "split"} /\ bf.pc \in ScanPc \ {"scan"} /\ bf.pc # "off"
    BY DEF ReplayWinner, SplitRange, FinishChunk, ScanPc
  <1>3. /\ bf.cursor \in OptHeight /\ bf.last \in OptHeight /\ bf.ceil \in Height /\ bf.pin \in Height
        /\ bf.rows \subseteq Height /\ bf.ceil <= bf.pin /\ bf.last <= bf.ceil
        /\ bf.cursor \in Int /\ bf.last \in Int /\ bf.ceil \in Int /\ bf.pin \in Int
    BY <1>2, BackfillFacts
  <1>4. CASE ReplayWinner
    <2>1. PICK n \in bf.rows : n = Least(bf.rows)
      <3>1. bf.rows \in SUBSET Nat /\ bf.rows # {}
        BY <1>3, <1>4, ConstantFacts DEF ReplayWinner
      <3> QED BY <3>1, LeastFacts
    <2>2. CASE n > bf.ceil
      <3>1. PICK b : b = [bf EXCEPT !.rows = {}, !.last = bf.ceil]
        OBVIOUS
      <3>2. BfGoes(b)
        BY <1>4, <2>1, <2>2, <3>1 DEF ReplayWinner
      <3>3. b.d = bf.d /\ b.g = bf.g /\ b.pin = bf.pin
        BY <1>1, <3>1 DEF BackfillRecord
      <3> QED BY <1>1, <1>2, <3>2, <3>3, AliveChunkGoes
    <2>3. CASE ~(n > bf.ceil)
      <3>1. PICK b : b = [bf EXCEPT !.pc = "replay", !.last = n, !.rows = @ \ {n}]
        OBVIOUS
      <3>2. BfStarts(b, Start(n, bf.pin))
        BY <1>4, <2>1, <2>3, <3>1 DEF ReplayWinner
      <3>3. b.d = bf.d /\ b.g = bf.g /\ b.pin = bf.pin /\ n \in Height
        BY <1>1, <1>3, <3>1 DEF BackfillRecord
      <3> QED BY <1>1, <1>2, <1>3, <3>2, <3>3, AliveBackfillStarts DEF BfStarts, envVars
    <2> QED BY <2>2, <2>3
  <1>5. CASE SplitRange
    <2>1. bf.last # None /\ bf.pc = "split"
      BY <1>5, BackfillFacts DEF SplitRange, BackfillFit
    <2>2. PICK n \in Height : n = bf.last
      BY <1>3, <2>1 DEF OptHeight
    <2>3. PICK b : b = [bf EXCEPT !.pc = "next", !.cursor = IF n = U64Max THEN None ELSE n + 1]
      OBVIOUS
    <2>4. b.d = bf.d /\ b.g = bf.g /\ b.pin = bf.pin
      BY <1>1, <2>3 DEF BackfillRecord
    <2>5. IF bf.cursor # None /\ bf.cursor < n THEN FinishRange(bf.cursor, n - 1, b)
          ELSE BfGoes(b) /\ UNCHANGED storeVars
      BY <1>5, <2>2, <2>3 DEF SplitRange
    <2>6. CASE bf.cursor # None /\ bf.cursor < n
      <3>1. bf.cursor \in Height /\ n - 1 \in Height /\ bf.cursor <= n - 1 /\ n - 1 <= bf.pin
        BY <1>3, <2>2, <2>6, U64MaxAssumption DEF OptHeight, Height, None
      <3> QED BY <1>1, <1>2, <2>4, <2>5, <2>6, <3>1, AliveFinishRange
    <2>7. CASE ~(bf.cursor # None /\ bf.cursor < n)
      BY <1>1, <1>2, <2>4, <2>5, <2>7, AliveChunkGoes
    <2> QED BY <2>6, <2>7
  <1>6. CASE FinishChunk
    <2>1. PICK end : end = IF bf.full THEN bf.last ELSE bf.ceil
      OBVIOUS
    <2>2. PICK b : b = NextChunk
      OBVIOUS
    <2>3. IF bf.cursor # None /\ end # None /\ bf.cursor <= end
          THEN FinishRange(bf.cursor, end, b)
          ELSE BfGoes(b) /\ UNCHANGED storeVars
      BY <1>6, <2>1, <2>2 DEF FinishChunk
    <2>4. CASE bf.cursor # None /\ end # None /\ bf.cursor <= end
      <3>1. bf.cursor \in Height /\ end \in Height /\ end <= bf.pin
        BY <1>3, <2>1, <2>4 DEF OptHeight
      <3> QED BY <1>1, <1>2, <2>2, <2>3, <2>4, <3>1, AliveFinishRange, NextChunkPc
    <2>5. CASE ~(bf.cursor # None /\ end # None /\ bf.cursor <= end)
      BY <1>1, <2>2, <2>3, <2>5, AliveChunkEnds DEF BfGoes, envVars
    <2> QED BY <2>4, <2>5
  <1> QED BY <1>4, <1>5, <1>6

LEMMA AliveEnvironment ==
    ASSUME IndexerInv, AliveInv, Steady, GrowChain \/ NodeFollows \/ NodePrunes
    PROVE  AliveInv'
  <1>1. UNCHANGED storeVars /\ UNCHANGED <<conn, setup, pending, lane, bf>>
    BY DEF GrowChain, NodeFollows, NodePrunes, linkVars
  <1>2. node.head \in Int /\ node \in [head : 0 .. MaxHead, pruned : OptHeight]
    BY TypeFacts DEF IndexerInv, LinkOK
  <1>3. node'.head \in {node.head, node.head + 1}
    BY <1>2 DEF GrowChain, NodeFollows, NodePrunes
  <1>4. node'.head \in Int /\ node.head <= node'.head /\ conn # "dead"
    BY <1>2, <1>3 DEF AliveInv
  <1> QED BY <1>1, <1>4, AliveKept

LEMMA AliveStep ==
    ASSUME IndexerInv, AliveInv, Steady, [Next]_vars
    PROVE  AliveInv'
  <1>1. CASE Reconnect \/ Announce
    BY <1>1, AliveReconnect, AliveAnnounce
  <1>2. CASE Live
    BY <1>2, AliveLiveStart, AliveProcess DEF Live, Workers
  <1>3. CASE Backfill
    BY <1>3, AliveRound, AliveScan, AliveReplay, AliveProcess DEF Backfill, Workers
  <1>4. CASE Failure
    <2>1. CASE DropConnection \/ EnumerateFails
      <3>1. UNCHANGED storeVars /\ conn' = "down" /\ LanesDropped
        BY <2>1 DEF DropConnection, EnumerateFails, Fail, Disconnected
      <3> QED BY <3>1, AliveDrops
    <2>2. CASE \E w \in {"live", "backfill"} : ProcessFails(w)
      BY <2>2, AliveProcess DEF Workers
    <2> QED BY <1>4, <2>1, <2>2 DEF Failure
  <1>5. CASE Environment
    BY <1>5, AliveEnvironment DEF Environment, ReindexRequested, Steady
  <1>6. CASE UNCHANGED vars
    <2>1. UNCHANGED storeVars /\ UNCHANGED <<conn, setup, pending, node, lane, bf>>
      BY <1>6 DEF vars, envVars, linkVars
    <2>2. node.head \in Int /\ conn # "dead"
      BY TypeFacts DEF AliveInv
    <2> QED BY <2>1, <2>2, AliveKept
  <1> QED BY <1>1, <1>2, <1>3, <1>4, <1>5, <1>6 DEF Next

LEMMA AliveInit == Init => AliveInv
  BY IdleOK, OffOK DEF Init, StoreInit, AliveInv, Connected, Workers, ScanPc

\* run() returns an error only for conflicting history or a store gone bad: as long as
\* nodes do not serve a head lower than one seen before and nobody reindexes, no
\* interleaving of the lanes with growth, pruning, failures, drops and restarts ends it.
THEOREM RunGoesOn ==
    ASSUME Lag = 0, ~Reindexing
    PROVE  Spec => []NeverStops
  <1>1. Steady
    BY DEF Steady
  <1>2. IndexerInv /\ AliveInv /\ [Next]_vars => AliveInv'
    BY <1>1, AliveStep
  <1>3. AliveInv => NeverStops
    BY DEF AliveInv, NeverStops
  <1> QED BY <1>2, <1>3, AliveInit, IndexerInvariance, PTL DEF Spec
=============================================================================
