----------------------------- MODULE IndexStore -----------------------------
(***************************************************************************)
(* The indexing half of the dashboard store (dashboard-store/src/          *)
(* coverage.rs): generations, coverage, retained finalized identities,     *)
(* winner scans, absence markers, the finalized target and the rows each   *)
(* domain owns.  Every operation is one transaction on the single writer,  *)
(* so it is one action; module StoreWriter shows why that may be assumed   *)
(* of futures that can be dropped.  An operation that returns an error or  *)
(* StaleGeneration changes nothing.                                        *)
(*                                                                         *)
(* The specification lets any caller call any operation with any           *)
(* arguments, in any order: what it promises, it promises to every         *)
(* indexer, restarted or not.                                              *)
(***************************************************************************)
EXTENDS Coverage

CONSTANTS
    Domains,     \* the indexable domains of the instance
    Hashes,      \* block hashes
    NoHash,      \* no retained identity
    Values,      \* record contents, as far as rows can be told apart
    MaxGen,      \* bound: reindexing stops here instead of at u64::MAX
    Starts, Pins, Floors, Cursors, Targets   \* bounds: what callers pass

DomainNames == {"winners", "difficulty", "participation", "authorship"}

ASSUME StoreAssumption ==
    /\ Domains \subseteq DomainNames
    /\ NoHash \notin Hashes
    /\ MaxGen \in Nat \ {0}
    /\ Starts \subseteq Height /\ Pins \subseteq Height /\ Floors \subseteq OptHeight
    /\ Cursors \subseteq SUBSET Height /\ Targets \subseteq Height

\* Winner-based domains may complete a range from an enumeration.
Sparse == Domains \ {"authorship"}
\* Absence can be proven for a nonce (winners) and a difficulty.
Markable == Domains \cap {"winners", "difficulty"}

VARIABLES
    gen,         \* indexer.generation.<domain>
    cov,         \* indexer.coverage.<domain>; generation 0 is a missing row
    rows,        \* rows owned by a domain, with the generation that wrote them
    scans,       \* dashboard_scans and dashboard_scan_winners
    marks,       \* dashboard_unavailable
    finalized,   \* dashboard_finalized: height -> hash
    target,      \* dashboard.finalized.target
    proven       \* history: heights a block commit completed in this generation

storeVars == <<gen, cov, rows, scans, marks, finalized, target, proven>>

Missing == EmptyCoverage(0, 0)
NoTarget == [h |-> None, hash |-> NoHash]
Row == [h : Height, v : Values, hash : Hashes, g : Nat]
Scan == [d : Domains, g : Nat, pin : Height,
         cursor : SUBSET Height, found : SUBSET Height, finished : BOOLEAN]
Marker == [h : Height, g : Nat]

TypeOK ==
    /\ gen \in [Domains -> Nat \ {0}]
    /\ cov \in [Domains -> CoverageRecord]
    /\ rows \in [Domains -> SUBSET Row]
    /\ scans \in SUBSET Scan
    /\ marks \in [Domains -> SUBSET Marker]
    /\ finalized \in [Height -> Hashes \cup {NoHash}]
    /\ target \in [h : OptHeight, hash : Hashes \cup {NoHash}]
    /\ proven \in [Domains -> SUBSET Height]

StoreInit ==
    /\ gen = [d \in Domains |-> 1]
    /\ cov = [d \in Domains |-> Missing]
    /\ rows = [d \in Domains |-> {}]
    /\ scans = {}
    /\ marks = [d \in Domains |-> {}]
    /\ finalized = [h \in Height |-> NoHash]
    /\ target = NoTarget
    /\ proven = [d \in Domains |-> {}]

-----------------------------------------------------------------------------
(* Reads *)

\* coverage(): the persisted record, or an empty one with the given start.
ReadCoverage(d, start) == IF cov[d].gen = 0 THEN EmptyCoverage(gen[d], start) ELSE cov[d]
\* A read fails, for good, on a record that does not validate.
Readable(d) == cov[d].gen = 0 \/ (cov[d].gen = gen[d] /\ ValidCoverage(cov[d]))

IsUnavailable(d, g, h) == [h |-> h, g |-> g] \in marks[d]
Marked(d, g) == {m.h : m \in {x \in marks[d] : x.g = g}}

\* The hashes on record at a height: retained identities and winner rows.
Identities(h) ==
    ({finalized[h]} \ {NoHash})
        \cup UNION {{r.hash : r \in {x \in rows[d] : x.h = h}} : d \in Domains \cap {"winners"}}

\* active_scan: the highest pin among the generation's enumerations.
ActiveScan(d, g) ==
    LET mine == {s \in scans : s.d = d /\ s.g = g}
    IN  {s \in mine : \A t \in mine : t.pin <= s.pin}

\* A height that only a range covers has no identity and does not count.
CommittedTarget(h) ==
    /\ finalized[h] # NoHash
    /\ \E d \in Domains : cov[d].gen = gen[d] /\ Contains(cov[d], h, h)

-----------------------------------------------------------------------------
(* Operations *)

InitializeCoverage(d, g, start) ==
    /\ g = gen[d]
    /\ cov[d].gen = 0
    /\ cov' = [cov EXCEPT ![d] = EmptyCoverage(g, start)]
    /\ UNCHANGED <<gen, rows, scans, marks, finalized, target, proven>>

\* Deviation: the floor replaces the coverage it belongs to.
SetPrunedFloor_Forgets(d, g, floor) ==
    /\ g = gen[d]
    /\ cov' = [cov EXCEPT ![d] = [EmptyCoverage(g, 0) EXCEPT !.floor = floor]]
    /\ UNCHANGED <<gen, rows, scans, marks, finalized, target, proven>>

SetPrunedFloor(d, g, floor) ==
    /\ g = gen[d]
    /\ Readable(d)
    /\ cov' = [cov EXCEPT ![d] = [ReadCoverage(d, 0) EXCEPT !.floor = floor]]
    /\ UNCHANGED <<gen, rows, scans, marks, finalized, target, proven>>

\* A batch is [h, hash, guards, recs, completed]: guards maps each guarded
\* domain to its expected generation and the others to 0; recs gives the
\* values written to each domain.
Affected(b) == b.completed \cup {d \in Domains : b.recs[d] # {}}
\* Deviation: the identity of the height is not checked.
ConflictingBatch_Never(b) == FALSE
StaleBatch(b) == \E d \in Domains : b.guards[d] # 0 /\ b.guards[d] # gen[d]
ConflictingBatch(b) == \E x \in Identities(b.h) : x # b.hash
\* Difficulty and authorship have one record per height and refuse another.
ConflictingRecord(b) ==
    \E d \in Domains \cap {"difficulty", "authorship"} : \E r \in rows[d] :
        r.h = b.h /\ b.recs[d] # {} /\ r.v \notin b.recs[d]
\* A winner record is replaced by a later one; participants accumulate.
WrittenRows(d, b) ==
    {r \in rows[d] : d = "winners" /\ b.recs[d] # {} => r.h # b.h}
        \cup {[h |-> b.h, v |-> v, hash |-> b.hash, g |-> b.guards[d]] : v \in b.recs[d]}
\* A missing authorship record starts at the first height that is committed.
DefaultStart(d, h) == IF d = "authorship" THEN h ELSE 0

CommitAccepted(b) ==
    /\ Affected(b) # {}
    /\ \A d \in Affected(b) : b.guards[d] # 0
    /\ ~ StaleBatch(b)
    /\ ~ ConflictingBatch(b)
    /\ ~ ConflictingRecord(b)
    /\ \A d \in b.completed :
          Readable(d) /\ ~ CoverRejected(ReadCoverage(d, DefaultStart(d, b.h)), b.h, b.h)

CommitBlock(b) ==
    /\ CommitAccepted(b)
    /\ rows' = [d \in Domains |-> WrittenRows(d, b)]
    /\ cov' = [d \in Domains |->
                  IF d \in b.completed
                  THEN Cover(ReadCoverage(d, DefaultStart(d, b.h)), b.h, b.h)
                  ELSE cov[d]]
    /\ finalized' = [finalized EXCEPT ![b.h] = IF @ = NoHash THEN b.hash ELSE @]
    /\ proven' = [d \in Domains |-> IF d \in b.completed THEN proven[d] \cup {b.h} ELSE proven[d]]
    /\ UNCHANGED <<gen, scans, marks, target>>

\* Deviation: the generation is not checked.
BeginScan_Unfenced(d, g, pin) ==
    /\ \A s \in scans : ~ (s.d = d /\ s.g = g /\ s.pin = pin)
    /\ scans' = scans \cup {[d |-> d, g |-> g, pin |-> pin,
                             cursor |-> {}, found |-> {}, finished |-> FALSE]}
    /\ UNCHANGED <<gen, cov, rows, marks, finalized, target, proven>>

\* Scans are identified by domain, generation and pinned state.
BeginScan(d, g, pin) ==
    /\ g = gen[d]
    /\ \A s \in scans : ~ (s.d = d /\ s.g = g /\ s.pin = pin)
    /\ scans' = scans \cup {[d |-> d, g |-> g, pin |-> pin,
                             cursor |-> {}, found |-> {}, finished |-> FALSE]}
    /\ UNCHANGED <<gen, cov, rows, marks, finalized, target, proven>>

\* One page and its cursor together.  A cursor is a storage key; the model
\* identifies it with the set of heights whose keys it has passed, {} being
\* the start.  `last` is a missing continuation: the map is exhausted.
AppendScanPage(s, expected, next, last, heights) ==
    /\ last \/ next # expected
    /\ s \in scans
    /\ s.g = gen[s.d]
    /\ ~ s.finished
    /\ s.cursor = expected
    /\ \A n \in heights : n <= s.pin
    /\ scans' = (scans \ {s}) \cup
                   {[s EXCEPT !.found = @ \cup heights,
                              !.cursor = IF last THEN {} ELSE next,
                              !.finished = last]}
    /\ UNCHANGED <<gen, cov, rows, marks, finalized, target, proven>>

\* Deviation: uncommitted winners do not stop a range.
UncommittedWinners_None(s, c, from, through) == {}

\* The enumerated winners of the range that are not committed yet.
UncommittedWinners(s, c, from, through) ==
    {n \in s.found : from <= n /\ n <= through /\ ~ Contains(c, n, n)}

RangeAccepted(s, d, g, from, through) ==
    /\ from <= through
    /\ g = gen[d]
    /\ s \in scans /\ s.finished
    /\ s.d = d /\ s.g = g /\ s.pin >= through
    /\ d # "authorship"
    /\ Readable(d)
    /\ UncommittedWinners(s, ReadCoverage(d, 0), from, through) = {}
    /\ ~ CoverRejected(ReadCoverage(d, 0), from, through)

CommitRange(s, d, g, from, through) ==
    /\ RangeAccepted(s, d, g, from, through)
    /\ cov' = [cov EXCEPT ![d] = Cover(ReadCoverage(d, 0), from, through)]
    /\ UNCHANGED <<gen, rows, scans, marks, finalized, target, proven>>

MarkUnavailable(d, g, h, hash) ==
    /\ d \in Markable
    /\ g = gen[d]
    /\ \A x \in Identities(h) : x = hash
    /\ Readable(d)
    /\ ~ Contains(ReadCoverage(d, 0), h, h)
    /\ marks' = [marks EXCEPT ![d] = @ \cup {[h |-> h, g |-> g]}]
    /\ finalized' = [finalized EXCEPT ![h] = IF @ = NoHash THEN hash ELSE @]
    /\ UNCHANGED <<gen, cov, rows, scans, target, proven>>

\* Deviation: the last write wins.
SetFinalizedTarget_Overwrites(h, hash) ==
    /\ target' = [h |-> h, hash |-> hash]
    /\ UNCHANGED <<gen, cov, rows, scans, marks, finalized, proven>>

SetFinalizedTarget(h, hash) ==
    /\ target.h < h
    /\ target' = [h |-> h, hash |-> hash]
    /\ UNCHANGED <<gen, cov, rows, scans, marks, finalized, proven>>

\* Authorship keeps its first eligible height across a reindex.
ReindexedCoverage(d) ==
    LET start == ReadCoverage(d, 0).start
    IN  IF d = "authorship" /\ start > 0 THEN EmptyCoverage(gen[d] + 1, start) ELSE Missing

\* Deviation: the coverage outlives the rows it stands for.
Reindex_KeepsCoverage(D) ==
    /\ D # {}
    /\ \A d \in D : gen[d] < MaxGen /\ Readable(d)
    /\ gen' = [d \in Domains |-> IF d \in D THEN gen[d] + 1 ELSE gen[d]]
    /\ rows' = [d \in Domains |-> IF d \in D THEN {} ELSE rows[d]]
    /\ marks' = [d \in Domains |-> IF d \in D THEN {} ELSE marks[d]]
    /\ proven' = [d \in Domains |-> IF d \in D THEN {} ELSE proven[d]]
    /\ scans' = {s \in scans : s.d \notin D}
    /\ UNCHANGED <<cov, finalized, target>>

Reindex(D) ==
    /\ D # {}
    /\ \A d \in D : gen[d] < MaxGen /\ Readable(d)
    /\ gen' = [d \in Domains |-> IF d \in D THEN gen[d] + 1 ELSE gen[d]]
    /\ cov' = [d \in Domains |-> IF d \in D THEN ReindexedCoverage(d) ELSE cov[d]]
    /\ rows' = [d \in Domains |-> IF d \in D THEN {} ELSE rows[d]]
    /\ marks' = [d \in Domains |-> IF d \in D THEN {} ELSE marks[d]]
    /\ proven' = [d \in Domains |-> IF d \in D THEN {} ELSE proven[d]]
    /\ scans' = {s \in scans : s.d \notin D}
    /\ UNCHANGED <<finalized, target>>

-----------------------------------------------------------------------------
(* Any caller, any arguments. *)

Guards == [Domains -> 0 .. MaxGen]
\* BlockRecords holds one record of a domain, or a page of participants.
Records == {recs \in [Domains -> SUBSET Values] :
               \A d \in Domains \ {"participation"} : \A v, w \in recs[d] : v = w}
Batch == [h : Height, hash : Hashes, guards : Guards, recs : Records,
          completed : SUBSET Domains]

StoreNext ==
    \/ \E d \in Domains, g \in 1 .. MaxGen, h \in Starts : InitializeCoverage(d, g, h)
    \/ \E d \in Domains, g \in 1 .. MaxGen, f \in Floors : SetPrunedFloor(d, g, f)
    \/ \E b \in Batch : CommitBlock(b)
    \/ \E d \in Domains, g \in 1 .. MaxGen, pin \in Pins : BeginScan(d, g, pin)
    \* any cursor may be expected, but every other one is refused
    \/ \E s \in scans, next \in Cursors, heights \in SUBSET Height, last \in BOOLEAN :
          AppendScanPage(s, s.cursor, next, last, heights)
    \/ \E s \in scans, d \in Domains, g \in 1 .. MaxGen, a, b \in Height :
          CommitRange(s, d, g, a, b)
    \/ \E d \in Domains, g \in 1 .. MaxGen, h \in Height, x \in Hashes :
          MarkUnavailable(d, g, h, x)
    \/ \E h \in Targets, x \in Hashes : SetFinalizedTarget(h, x)
    \/ \E D \in SUBSET Domains : Reindex(D)

StoreSpec == StoreInit /\ [][StoreNext]_storeVars

-----------------------------------------------------------------------------
(* Properties *)

\* No sequence of operations leaves a coverage row that the next read refuses;
\* such a row would stop the indexer until an operator repairs the database.
CoverageReadable == \A d \in Domains : Readable(d)

\* All rows ever written at a height come from the one finalized block that
\* the store retains for it, across domains, restarts and reindexes.
OneIdentityPerHeight ==
    \A d \in Domains : \A r \in rows[d] : r.hash = finalized[r.h]

\* Nothing decoded for an earlier generation survives or slips in after a
\* reindex: no row, no absence marker and no enumeration.
OnlyCurrentGeneration ==
    /\ \A d \in Domains : /\ \A r \in rows[d] : r.g = gen[d]
                          /\ \A m \in marks[d] : m.g = gen[d]
    /\ \A s \in scans : s.g = gen[s.d]

\* A covered height was completed by a block commit of this generation or
\* lies below the pin of an exhausted enumeration of this generation that
\* does not list it.  Authorship has per-block evidence only.
CoverageHasEvidence ==
    \A d \in Domains : \A n \in Covered(cov[d]) :
        \/ n \in proven[d]
        \/ /\ d # "authorship"
           /\ \E s \in scans : /\ s.d = d /\ s.g = gen[d] /\ s.finished
                              /\ n <= s.pin /\ n \notin s.found

\* Retained identities and the finalized target only move forward: a hash on
\* record is never replaced, a target never lowered or rewritten in place, and
\* within a generation a domain's record of a height is never withdrawn, nor
\* that of difficulty, participation and authorship altered; a difficulty or
\* an author is never joined by a different one.
HistoryNeverRewritten ==
    [][/\ \A h \in Height : finalized[h] # NoHash => finalized'[h] = finalized[h]
       /\ target'.h > target.h \/ target' = target
       /\ \A d \in Domains : gen'[d] = gen[d] =>
              /\ \A r \in rows[d] : \E x \in rows'[d] : x.h = r.h
              /\ d # "winners" => rows[d] \subseteq rows'[d]
              /\ d \in {"difficulty", "authorship"} =>
                    \A r \in rows[d], x \in rows'[d] \ rows[d] : x.h = r.h => x.v = r.v]_storeVars

\* What the rest of the system relies on: within a generation completed
\* heights only accumulate, and only a new generation forgets them.
Ledger == INSTANCE CoverageLedger WITH
              epoch <- gen,
              complete <- [d \in Domains |-> Covered(cov[d])]
RefinesLedger == Ledger!Spec
=============================================================================
