------------------------------ MODULE Indexer -------------------------------
(***************************************************************************)
(* The finalized-block indexer (quip-dashboard/src/indexer/{mod,live,      *)
(* backfill}.rs) over the store of module IndexStore.  One connection runs *)
(* an announcer, a live lane and a backfill lane; each awaits between its  *)
(* store transactions and chain reads, so each await is a step boundary,   *)
(* and ending a connection drops every lane wherever it stands.            *)
(*                                                                         *)
(* The chain and the node that serves it are external.  Finalized history  *)
(* is fixed: BlockHash, Kind, DropAt and Participants say what the block   *)
(* at a height holds.  A node may lag behind the finalized head seen so    *)
(* far, discard old state, and fail any read, MaxFails times in all.       *)
(***************************************************************************)
EXTENDS IndexStore, FiniteSets

CONSTANTS
    BlockHash,      \* height -> finalized hash
    Kind,           \* height -> "none", "won", or "unproven" (no matching proof)
    DropAt,         \* height -> first pinned state without its QBlock entry
    Participants,   \* height -> the accounts that took part in its qblock
    Rec,            \* the record of a winner, a difficulty or an author
    MaxHead,        \* bound: finalized heights 0 .. MaxHead
    PageSize,       \* PAGE_SIZE, of winner and participant pages
    ReplayLimit,    \* winners replayed per round (16)
    MaxFails,       \* bound: failed reads and dropped connections in a behaviour
    Lag,            \* how far behind the known head a new node may be
    Prunable,       \* highest block whose state nodes may discard, None for archives
    Reindexing      \* whether reindexes happen, between connections and during them

ASSUME IndexerAssumption ==
    /\ Domains # {}
    /\ BlockHash \in [Height -> Hashes]
    /\ Kind \in [Height -> {"none", "won", "unproven"}]
    /\ DropAt \in [Height -> Nat]
    /\ Participants \in [Height -> SUBSET Values]
    /\ \A h \in Height : IsFiniteSet(Participants[h])
    /\ Rec \in Values
    /\ MaxHead \in Height /\ PageSize \in Nat \ {0} /\ ReplayLimit \in Nat \ {0}
    /\ MaxFails \in Nat /\ Lag \in Nat /\ Prunable \in OptHeight
    /\ Reindexing \in BOOLEAN

VARIABLES
    chainHead,   \* external: the highest finalized height any node has served
    node,        \* external: [head, pruned] of the connected node
    conn,        \* "down", "init", "floor" (within initialize()), "up", or "dead"
                 \* once run() has returned an error
    setup,       \* domains that initialize() has still to visit
    pending,     \* finalized height received and not yet durable
    announced,   \* the targets watch channel: [h, fresh]
    progress,    \* Progress: [finalized, committed]
    lane,        \* the two lanes through process()
    bf,          \* the backfill worker around its lane
    fails        \* failures left

envVars == <<chainHead, node, fails>>
linkVars == <<conn, setup, pending, announced, progress>>
vars == <<storeVars, envVars, linkVars, lane, bf>>

Order == [winners |-> 1, difficulty |-> 2, participation |-> 3, authorship |-> 4]
\* The domain that the DOMAINS array has first among D.
FirstDomain(D) == CHOOSE d \in D : \A e \in D : Order[d] <= Order[e]

NoGuards == [d \in Domains |-> 0]
Idle == [pc |-> "idle", h |-> 0, pin |-> 0, todo |-> {}, guards |-> NoGuards,
         old |-> None, done |-> {}, seen |-> {}]
Start(h, pin) == [Idle EXCEPT !.pc = "guard", !.h = h, !.pin = pin, !.todo = Domains]
Guarded(l) == {d \in Domains : l.guards[d] # 0}

Off == [pc |-> "off", tgt |-> 0, todo |-> {}, d |-> "none", g |-> 0, from |-> 0, ceil |-> 0,
        pin |-> 0, rows |-> {}, full |-> FALSE, cursor |-> None, last |-> None]

Init ==
    /\ StoreInit
    /\ chainHead \in 0 .. MaxHead
    /\ node = [head |-> 0, pruned |-> None]
    /\ conn = "down"
    /\ setup = {}
    /\ pending = None
    /\ announced = [h |-> 0, fresh |-> FALSE]
    /\ progress = [finalized |-> None, committed |-> None]
    /\ lane = [w \in {"live", "backfill"} |-> Idle]
    /\ bf = Off
    /\ fails = MaxFails

-----------------------------------------------------------------------------
(* External: what a chain read returns *)

\* QBlocks has the winner of height h in the state pinned at `pin`.
Retained(h, pin) == h <= pin /\ Kind[h] # "none" /\ pin < DropAt[h]
QBlocks(pin) == {h \in 0 .. MaxHead : Retained(h, pin)}
StatePruned(h) == h <= node.pruned
\* The node cannot answer at a pin it has discarded or not reached yet.
PinUnreadable(pin) == StatePruned(pin) \/ pin > node.head
\* A page of a map: limit entries it has left, or fewer when that is all of them.
Page(P, left) == P \subseteq left /\ Cardinality(P) = Smaller(PageSize, Cardinality(left))
\* Deviation: a full page is taken for the last one.
Exhausted_Full(P) == Cardinality(P) <= PageSize
Exhausted(P) == Cardinality(P) < PageSize

-----------------------------------------------------------------------------
(* Ends of a connection.  Every lane is dropped where it stands. *)

LanesDropped ==
    /\ lane' = [w \in {"live", "backfill"} |-> Idle]
    /\ bf' = Off
    /\ pending' = None
    /\ announced' = [h |-> 0, fresh |-> FALSE]
    /\ setup' = {}
Disconnected == conn' = "down" /\ LanesDropped /\ UNCHANGED progress
\* An error that run() does not retry.
Stopped == conn' = "dead" /\ LanesDropped /\ UNCHANGED progress

\* process() is done.  The live worker passes every error on; the backfill
\* worker goes on after a chain error or a stale generation.
Return(w, result) ==
    IF w = "backfill"
    THEN /\ lane' = [lane EXCEPT ![w] = Idle]
         /\ bf' = [bf EXCEPT !.pc = IF bf.pc = "author" THEN "sparse" ELSE "check"]
         /\ UNCHANGED linkVars
    ELSE IF result = "ok"
    THEN lane' = [lane EXCEPT ![w] = Idle] /\ UNCHANGED <<bf, linkVars>>
    ELSE Disconnected

\* The lane goes on with process().
Proceed(w, l) == lane' = [lane EXCEPT ![w] = l] /\ UNCHANGED <<bf, linkVars>>

\* A refused transaction: stale generations are returned, the rest is fatal.
Refused(w, stale) == UNCHANGED storeVars /\ (IF stale THEN Return(w, "stale") ELSE Stopped)

Fail == fails > 0 /\ fails' = fails - 1 /\ UNCHANGED <<storeVars, chainHead, node>>

-----------------------------------------------------------------------------
(* process(): one finalized block, by either lane *)

\* guards(): a domain that is current at this height needs no work.
Settled(d, g, h) ==
    \/ /\ cov[d].gen # 0 /\ cov[d].gen = g
       /\ h < cov[d].start \/ h <= cov[d].floor \/ Contains(cov[d], h, h)
    \/ IsUnavailable(d, g, h)

ReadGeneration(w) ==
    /\ lane[w].pc = "guard"
    /\ LET d == FirstDomain(lane[w].todo)
       IN  Proceed(w, [lane[w] EXCEPT !.pc = "current", !.guards[d] = gen[d]])
    /\ UNCHANGED <<storeVars, envVars>>

ReadGuard(w) ==
    /\ lane[w].pc = "current"
    /\ LET d == FirstDomain(lane[w].todo)
           l == [lane[w] EXCEPT !.pc = "guard", !.todo = @ \ {d},
                                !.guards[d] = IF Settled(d, @, lane[w].h) THEN 0 ELSE @]
       IN  IF l.todo # {} THEN Proceed(w, l)
           ELSE IF Guarded(l) # {} THEN Proceed(w, [l EXCEPT !.pc = "decode"])
           ELSE Return(w, "ok")
    /\ UNCHANGED <<storeVars, envVars>>

\* decode_block(): a node that does not have the block yet answers without a
\* hash, which is fatal; discarded state sets floors and gives up the block.
DecodeBlock(w) ==
    /\ lane[w].pc = "decode"
    /\ LET l == lane[w]
       IN  IF l.h > node.head THEN Stopped
           ELSE IF StatePruned(l.h)
           THEN Proceed(w, [l EXCEPT !.pc = "floor", !.todo = Guarded(l)])
           ELSE Proceed(w, [l EXCEPT !.pc = "domains", !.todo = Guarded(l) \ {"participation"}])
    /\ UNCHANGED <<storeVars, envVars>>

\* Three failed attempts return the error.
DecodeFails(w) ==
    /\ lane[w].pc = "decode"
    /\ Fail
    /\ Return(w, "chain")

ReadFloor(w) ==
    /\ lane[w].pc = "floor"
    /\ Proceed(w, [lane[w] EXCEPT !.pc = "setfloor", !.old = cov[FirstDomain(lane[w].todo)].floor])
    /\ UNCHANGED <<storeVars, envVars>>

RaiseFloor(w) ==
    /\ lane[w].pc = "setfloor"
    /\ LET d == FirstDomain(lane[w].todo)
           l == [lane[w] EXCEPT !.todo = @ \ {d}, !.pc = "floor", !.old = None]
           floor == Larger(lane[w].old, l.h)
       IN  IF l.guards[d] # gen[d] THEN Refused(w, TRUE)
           ELSE /\ SetPrunedFloor(d, l.guards[d], floor)
                /\ IF l.todo = {} THEN Return(w, "ok") ELSE Proceed(w, l)
    /\ UNCHANGED envVars

\* The enrichment of one guarded domain: "complete", "unavailable" or "failed"
\* when the pinned state cannot be read.
Enrichment(d, h, pin) ==
    IF d = "authorship" \/ Kind[h] = "none" THEN "complete"
    ELSE IF PinUnreadable(pin) THEN "failed"
    ELSE IF Retained(h, pin) \/ (d = "winners" /\ Kind[h] = "unproven") THEN "complete"
    ELSE "unavailable"

\* The lane after one domain; the last one leads to the commit.
AfterDomain(l, d, completes) ==
    [l EXCEPT !.todo = @ \ {d},
              !.done = IF completes THEN @ \cup {d} ELSE @,
              !.pc = IF l.todo = {d} THEN "commit" ELSE "domains"]

EnrichDomain(w) ==
    /\ lane[w].pc = "domains"
    /\ IF lane[w].todo = {}
       THEN Proceed(w, [lane[w] EXCEPT !.pc = "commit"]) /\ UNCHANGED storeVars
       ELSE LET l == lane[w]
                d == FirstDomain(l.todo)
                result == Enrichment(d, l.h, l.pin)
            IN  IF result # "unavailable"
                THEN Proceed(w, AfterDomain(l, d, result = "complete")) /\ UNCHANGED storeVars
                ELSE IF l.guards[d] # gen[d] THEN Refused(w, TRUE)
                ELSE IF \E x \in Identities(l.h) : x # BlockHash[l.h] THEN Refused(w, FALSE)
                ELSE /\ Proceed(w, AfterDomain(l, d, FALSE))
                     /\ IF Contains(ReadCoverage(d, 0), l.h, l.h) THEN UNCHANGED storeVars
                        ELSE MarkUnavailable(d, l.guards[d], l.h, BlockHash[l.h])
    /\ UNCHANGED envVars

\* A failed enrichment leaves its domain uncovered and the others unharmed.
EnrichFails(w) ==
    /\ lane[w].pc = "domains" /\ lane[w].todo \notin {{}, {"authorship"}}
    /\ Kind[lane[w].h] # "none"
    /\ Fail
    /\ Proceed(w, AfterDomain(lane[w], FirstDomain(lane[w].todo), FALSE))

\* The records of the domains a decoded block completes.
RecordOf(d, h) ==
    IF d = "authorship" \/ (d = "winners" /\ Kind[h] = "won")
          \/ (d = "difficulty" /\ Kind[h] # "none")
    THEN {Rec} ELSE {}

CommitDecoded(w) ==
    /\ lane[w].pc = "commit"
    /\ LET l == lane[w]
           b == [h |-> l.h, hash |-> BlockHash[l.h], guards |-> l.guards,
                 recs |-> [d \in Domains |-> IF d \in l.done THEN RecordOf(d, l.h) ELSE {}],
                 completed |-> l.done]
           next == [l EXCEPT !.pc = "part"]
       IN  IF l.done = {} THEN Proceed(w, next) /\ UNCHANGED storeVars
           ELSE IF CommitAccepted(b)
           THEN /\ CommitBlock(b)
                /\ progress' = [progress EXCEPT !.committed = Larger(@, l.h)]
                /\ lane' = [lane EXCEPT ![w] = next]
                /\ UNCHANGED <<bf, conn, setup, pending, announced>>
           ELSE Refused(w, StaleBatch(b))
    /\ UNCHANGED envVars

\* participation(): page after page; only the last one completes the height.
ParticipationPage(w) ==
    /\ lane[w].pc = "part"
    /\ LET l == lane[w]
           unread == Kind[l.h] # "none"
       IN  IF "participation" \notin Guarded(l) \/ (unread /\ PinUnreadable(l.pin))
           THEN Return(w, "ok") /\ UNCHANGED storeVars
           ELSE \E P \in SUBSET Participants[l.h] :
                LET last == ~ unread \/ Exhausted(P)
                    b == [h |-> l.h, hash |-> BlockHash[l.h],
                          guards |-> [NoGuards EXCEPT !["participation"] = l.guards["participation"]],
                          recs |-> [d \in Domains |-> IF d = "participation" THEN P ELSE {}],
                          completed |-> IF last THEN {"participation"} ELSE {}]
                IN  /\ IF unread THEN Page(P, Participants[l.h] \ l.seen) ELSE P = {}
                    /\ IF ~ CommitAccepted(b) THEN Refused(w, StaleBatch(b))
                       ELSE IF ~ last
                       THEN CommitBlock(b) /\ Proceed(w, [l EXCEPT !.seen = @ \cup P])
                       ELSE /\ CommitBlock(b)
                            /\ progress' = [progress EXCEPT !.committed = Larger(@, l.h)]
                            /\ lane' = [lane EXCEPT ![w] = Idle]
                            /\ bf' = IF w = "live" THEN bf
                                     ELSE [bf EXCEPT !.pc = IF @ = "author" THEN "sparse" ELSE "check"]
                            /\ UNCHANGED <<conn, setup, pending, announced>>
    /\ UNCHANGED envVars

ParticipationFails(w) ==
    /\ lane[w].pc = "part" /\ "participation" \in Guarded(lane[w])
    /\ Kind[lane[w].h] # "none"
    /\ Fail
    /\ Return(w, "ok")

-----------------------------------------------------------------------------
(* connection(): initialize, announce, live *)

\* run() connects again, perhaps to another node.
Connect ==
    /\ conn = "down"
    /\ \E h \in 0 .. chainHead, p \in None .. Smaller(Prunable, chainHead - 1) :
          h + Lag >= chainHead /\ p < h /\ node' = [head |-> h, pruned |-> p]
    /\ conn' = "init"
    /\ setup' = Domains
    /\ UNCHANGED <<storeVars, chainHead, fails, pending, announced, progress, lane, bf>>

\* Deviation: every connection begins the coverage again.
InitializeDomain_Restarts ==
    /\ conn = "init" /\ setup # {}
    /\ LET d == FirstDomain(setup)
           start == IF d = "authorship" THEN node.head ELSE 0
       IN  cov' = [cov EXCEPT ![d] = EmptyCoverage(gen[d], start)]
    /\ conn' = "floor"
    /\ UNCHANGED <<gen, rows, scans, marks, finalized, target, proven, envVars, setup, pending,
                   announced, progress, lane, bf>>
\* initialize(), domain by domain.
InitializeDomain ==
    /\ conn = "init" /\ setup # {}
    /\ LET d == FirstDomain(setup)
           start == IF d = "authorship" THEN node.head ELSE 0
       IN  IF cov[d].gen = 0 THEN InitializeCoverage(d, gen[d], start) ELSE UNCHANGED storeVars
    /\ conn' = "floor"
    /\ UNCHANGED <<envVars, setup, pending, announced, progress, lane, bf>>

\* Deviation: yesterday's floor stays.
ClearFloor_Keeps ==
    /\ conn = "floor"
    /\ setup' = setup \ {FirstDomain(setup)}
    /\ conn' = "init"
    /\ UNCHANGED <<storeVars, envVars, pending, announced, progress, lane, bf>>

\* An archive rotation can restore data below yesterday's floor.
ClearFloor ==
    /\ conn = "floor"
    /\ SetPrunedFloor(FirstDomain(setup), gen[FirstDomain(setup)], None)
    /\ setup' = setup \ {FirstDomain(setup)}
    /\ conn' = "init"
    /\ UNCHANGED <<envVars, pending, announced, progress, lane, bf>>

\* observe() and committed_target(): only a covered head is reported committed.
Initialized ==
    /\ conn = "init" /\ setup = {}
    /\ conn' = "up"
    /\ progress' = [finalized |-> Larger(progress.finalized, node.head),
                    committed |-> IF CommittedTarget(node.head)
                                  THEN Larger(progress.committed, node.head)
                                  ELSE progress.committed]
    /\ IF target.h < node.head THEN SetFinalizedTarget(node.head, BlockHash[node.head])
       ELSE UNCHANGED storeVars
    /\ announced' = [h |-> node.head, fresh |-> TRUE]
    /\ bf' = [Off EXCEPT !.pc = "plan"]
    /\ UNCHANGED <<envVars, setup, pending, lane>>

\* observe(): progress shows the head before the store has it.
ReceiveHead ==
    /\ conn = "up" /\ pending = None
    /\ node.head > announced.h
    /\ pending' = node.head
    /\ progress' = [progress EXCEPT !.finalized = Larger(@, node.head)]
    /\ UNCHANGED <<storeVars, envVars, conn, setup, announced, lane, bf>>

\* Deviation: the lanes are told before the store is.
RecordHead_NotDurable ==
    /\ conn = "up" /\ pending # None
    /\ announced' = [h |-> pending, fresh |-> TRUE]
    /\ pending' = None
    /\ UNCHANGED <<storeVars, envVars, conn, setup, progress, lane, bf>>

RecordHead ==
    /\ conn = "up" /\ pending # None
    /\ IF target.h < pending THEN SetFinalizedTarget(pending, BlockHash[pending])
       ELSE UNCHANGED storeVars
    /\ announced' = [h |-> pending, fresh |-> TRUE]
    /\ pending' = None
    /\ UNCHANGED <<envVars, conn, setup, progress, lane, bf>>

\* live(): the newest target only; superseded ones are left to backfill.
LiveStart ==
    /\ conn = "up" /\ announced.fresh
    /\ lane["live"].pc = "idle"
    /\ lane' = [lane EXCEPT !["live"] = Start(announced.h, announced.h)]
    /\ announced' = [announced EXCEPT !.fresh = FALSE]
    /\ UNCHANGED <<storeVars, envVars, conn, setup, pending, progress, bf>>

\* The transport fails, or the process ends: then nothing but the store survives.
DropConnection ==
    /\ conn \in {"init", "floor", "up"}
    /\ fails > 0
    /\ fails' = fails - 1
    /\ conn' = "down"
    /\ LanesDropped
    /\ progress' \in {progress, [finalized |-> None, committed |-> None]}
    /\ UNCHANGED <<storeVars, chainHead, node>>

-----------------------------------------------------------------------------
(* backfill(): rounds over authorship and the sparse domains *)

BfStarts(b, l) == bf' = b /\ lane' = [lane EXCEPT !["backfill"] = l] /\ UNCHANGED <<linkVars, envVars>>
BfGoes(b) == bf' = b /\ UNCHANGED <<lane, linkVars, envVars>>
\* The worker moves on to the next sparse domain, or to its next round.
NextChunk == [Off EXCEPT !.pc = "sparse", !.tgt = bf.tgt, !.todo = bf.todo]

\* A round works towards the higher of the announced and the durable target.
\* The sync gate may hold it back; holding back is not taking the step.
PlanRound ==
    /\ bf.pc = "plan"
    /\ LET tgt == Larger(announced.h, target.h)
           gaps == UNION {Uncovered(cov[d], tgt) : d \in {e \in Domains \cap {"authorship"} : cov[e].gen # 0}}
           round == [Off EXCEPT !.tgt = tgt, !.todo = Sparse]
       IN  IF gaps = {}
           THEN BfGoes([round EXCEPT !.pc = "sparse"])
           ELSE BfStarts([round EXCEPT !.pc = "author"], Start(First(gaps).lo, tgt))
    /\ UNCHANGED storeVars

EndRound ==
    /\ bf.pc = "sparse" /\ bf.todo = {}
    /\ BfGoes([Off EXCEPT !.pc = "plan"])
    /\ UNCHANGED storeVars

\* The first retryable run of the first gap that has one.
Retryable(d, g, c, tgt) ==
    LET runs == UNION {RetryableRange(Marked(d, g), i.lo, i.hi) : i \in Uncovered(c, tgt)}
    IN  IF runs = {} THEN {} ELSE {First(runs)}

\* sparse_chunk(): the next domain and its generation,
StartChunk ==
    /\ bf.pc = "sparse" /\ bf.todo # {}
    /\ LET d == FirstDomain(bf.todo)
       IN  BfGoes([NextChunk EXCEPT !.pc = "init", !.todo = @ \ {d}, !.d = d, !.g = gen[d]])
    /\ UNCHANGED storeVars

\* its coverage, created again after a selective reindex,
InitializeChunk ==
    /\ bf.pc = "init"
    /\ IF bf.g # gen[bf.d] THEN Disconnected /\ UNCHANGED <<storeVars, envVars>>
       ELSE /\ BfGoes([bf EXCEPT !.pc = "work"])
            /\ IF cov[bf.d].gen = 0 THEN InitializeCoverage(bf.d, bf.g, 0) ELSE UNCHANGED storeVars

\* the work left, and the scan to do it with.
PlanChunk ==
    /\ bf.pc = "work"
    /\ LET work == IF cov[bf.d].gen = 0 THEN {} ELSE Retryable(bf.d, bf.g, cov[bf.d], bf.tgt)
       IN  IF work = {} THEN BfGoes(NextChunk)
           ELSE \E r \in work :
                LET old == {s \in ActiveScan(bf.d, bf.g) : s.pin >= r.lo}
                    pin == IF old = {} THEN bf.tgt ELSE (CHOOSE s \in old : TRUE).pin
                IN  BfGoes([bf EXCEPT !.pc = "scan", !.from = r.lo,
                                      !.pin = pin, !.ceil = Smaller(pin, r.hi)])
    /\ UNCHANGED storeVars

MyScan == {s \in scans : s.d = bf.d /\ s.g = bf.g /\ s.pin = bf.pin}

OpenScan ==
    /\ bf.pc = "scan"
    /\ IF bf.g # gen[bf.d] THEN BfGoes(NextChunk) /\ UNCHANGED storeVars
       ELSE /\ BfGoes([bf EXCEPT !.pc = "pages"])
            /\ IF MyScan # {} THEN UNCHANGED storeVars ELSE BeginScan(bf.d, bf.g, bf.pin)

\* enumerate_page(): a scan that a reindex has removed is fatal,
ReadProgress ==
    /\ bf.pc = "pages"
    /\ IF MyScan = {} THEN Stopped /\ UNCHANGED envVars
       ELSE BfGoes([bf EXCEPT !.pc = IF \A s \in MyScan : s.finished THEN "winners" ELSE "append"])
    /\ UNCHANGED storeVars

\* one page of an unfinished scan ends the chunk, and a pinned state that the
\* node does not have, or a scan removed meanwhile, ends the connection.
EnumeratePage ==
    /\ bf.pc = "append"
    /\ IF MyScan = {} \/ PinUnreadable(bf.pin) THEN Disconnected /\ UNCHANGED storeVars
       ELSE \E s \in MyScan, P \in SUBSET (0 .. MaxHead) :
               /\ Page(P, QBlocks(s.pin) \ s.cursor)
               /\ AppendScanPage(s, s.cursor, s.cursor \cup P, Exhausted(P), P)
               /\ bf' = NextChunk
               /\ UNCHANGED <<lane, linkVars>>
    /\ UNCHANGED envVars

EnumerateFails ==
    /\ bf.pc = "append"
    /\ Fail
    /\ Disconnected

\* The replay page of an exhausted scan.
LoadWinners ==
    /\ bf.pc = "winners"
    /\ LET ahead == {n \in UNION {s.found : s \in MyScan} : n >= bf.from}
           page == {n \in ahead : Cardinality({m \in ahead : m < n}) < ReplayLimit}
       IN  BfGoes([bf EXCEPT !.pc = "next", !.rows = page, !.cursor = bf.from,
                             !.full = Cardinality(page) = ReplayLimit])
    /\ UNCHANGED storeVars

\* The next winner of the page, through process() at the scan's pinned state.
ReplayWinner ==
    /\ bf.pc = "next" /\ bf.rows # {}
    /\ LET n == Least(bf.rows)
       IN  IF n > bf.ceil
           THEN BfGoes([bf EXCEPT !.rows = {}, !.last = bf.ceil])
           ELSE BfStarts([bf EXCEPT !.pc = "replay", !.last = n, !.rows = @ \ {n}], Start(n, bf.pin))
    /\ UNCHANGED storeVars

\* finish_range(): a stale generation is no error, an unproven range ends the
\* connection, an ill-formed one the indexer.
FinishRange(a, b, next) ==
    IF bf.g # gen[bf.d] \/ \E s \in MyScan : RangeAccepted(s, bf.d, bf.g, a, b)
    THEN /\ BfGoes(next)
         /\ IF bf.g # gen[bf.d] THEN UNCHANGED storeVars
            ELSE \E s \in MyScan : CommitRange(s, bf.d, bf.g, a, b)
    ELSE /\ UNCHANGED <<storeVars, envVars>>
         /\ IF \E s \in MyScan : s.finished /\ UncommittedWinners(s, ReadCoverage(bf.d, 0), a, b) = {}
            THEN Stopped ELSE Disconnected

\* A winner that is still uncovered splits the range: the rest starts behind
\* it, once what precedes it is finished.
CheckReplayed ==
    /\ bf.pc = "check"
    /\ LET n == bf.last
           c == cov[bf.d]
       IN  BfGoes(IF c.gen # bf.g THEN NextChunk
                  ELSE [bf EXCEPT !.pc = IF Contains(c, n, n) THEN "next" ELSE "split"])
    /\ UNCHANGED storeVars

SplitRange ==
    /\ bf.pc = "split"
    /\ LET n == bf.last
           after == [bf EXCEPT !.pc = "next", !.cursor = IF n = U64Max THEN None ELSE n + 1]
       IN  IF bf.cursor # None /\ bf.cursor < n THEN FinishRange(bf.cursor, n - 1, after)
           ELSE BfGoes(after) /\ UNCHANGED storeVars

\* Deviation: the last range is not checked for being empty.
FinishChunk_Unchecked ==
    /\ bf.pc = "next" /\ bf.rows = {}
    /\ LET end == IF bf.full THEN bf.last ELSE bf.ceil
       IN  IF bf.cursor # None /\ end # None
           THEN FinishRange(bf.cursor, end, NextChunk)
           ELSE BfGoes(NextChunk) /\ UNCHANGED storeVars

\* A full replay page proves only its own numeric prefix.
FinishChunk ==
    /\ bf.pc = "next" /\ bf.rows = {}
    /\ LET end == IF bf.full THEN bf.last ELSE bf.ceil
       IN  IF bf.cursor # None /\ end # None /\ bf.cursor <= end
           THEN FinishRange(bf.cursor, end, NextChunk)
           ELSE BfGoes(NextChunk) /\ UNCHANGED storeVars

-----------------------------------------------------------------------------
(* External: the chain grows, the node follows and discards, operators reindex *)

GrowChain ==
    /\ chainHead < MaxHead
    /\ chainHead' = chainHead + 1
    /\ UNCHANGED <<storeVars, node, fails, linkVars, lane, bf>>

NodeFollows ==
    /\ conn \in {"init", "floor", "up"} /\ node.head < chainHead
    /\ node' = [node EXCEPT !.head = @ + 1]
    /\ UNCHANGED <<storeVars, chainHead, fails, linkVars, lane, bf>>

NodePrunes ==
    /\ conn \in {"init", "floor", "up"} /\ node.pruned < Prunable /\ node.pruned + 1 < node.head
    /\ node' = [node EXCEPT !.pruned = @ + 1]
    /\ UNCHANGED <<storeVars, chainHead, fails, linkVars, lane, bf>>

\* The writer lease keeps a deployed reindex between two runs of the indexer;
\* the store's guards are written for one that is not.
ReindexRequested ==
    /\ Reindexing
    /\ \/ conn = "down" /\ progress' = [finalized |-> None, committed |-> None]
       \/ conn = "up" /\ UNCHANGED progress
    /\ \E D \in SUBSET Domains : Reindex(D)
    /\ UNCHANGED <<envVars, conn, setup, pending, announced, lane, bf>>

-----------------------------------------------------------------------------
Process(w) ==
    \/ ReadGeneration(w) \/ ReadGuard(w) \/ DecodeBlock(w) \/ ReadFloor(w) \/ RaiseFloor(w)
    \/ EnrichDomain(w) \/ CommitDecoded(w) \/ ParticipationPage(w)
ProcessFails(w) == DecodeFails(w) \/ EnrichFails(w) \/ ParticipationFails(w)
Reconnect == Connect \/ InitializeDomain \/ ClearFloor \/ Initialized
Announce == ReceiveHead \/ RecordHead
Live == LiveStart \/ Process("live")
Backfill ==
    \/ PlanRound \/ EndRound \/ StartChunk \/ InitializeChunk \/ PlanChunk \/ OpenScan
    \/ ReadProgress \/ EnumeratePage \/ LoadWinners
    \/ ReplayWinner \/ CheckReplayed \/ SplitRange \/ FinishChunk \/ Process("backfill")
Failure == DropConnection \/ EnumerateFails \/ \E w \in {"live", "backfill"} : ProcessFails(w)
Environment == GrowChain \/ NodeFollows \/ NodePrunes \/ ReindexRequested

Next == Reconnect \/ Announce \/ Live \/ Backfill \/ Failure \/ Environment

Spec == Init /\ [][Next]_vars

\* tokio polls every branch of the connection's select!, run() always
\* reconnects, a node catches up with the chain, and the sync gate opens in
\* the end.  Failures and growth are bounded, not fair.
Fairness ==
    /\ WF_vars(Reconnect) /\ WF_vars(Announce) /\ WF_vars(Live) /\ WF_vars(Backfill)
    /\ WF_vars(NodeFollows)
FairSpec == Spec /\ Fairness

-----------------------------------------------------------------------------
(* Properties *)

\* What a domain owes for a winning block.
Owed(d, h) ==
    IF d = "participation" THEN (IF Kind[h] = "none" THEN {} ELSE Participants[h]) ELSE RecordOf(d, h)
Stored(d, h) == {r.v : r \in {x \in rows[d] : x.h = h}}

\* A covered height has every row it owes, unless the chain no longer retained
\* its QBlock in a state the indexer has worked from.  Coverage is what stops
\* all later work on a height, so this is where data is lost for good.
CoveredMeansIndexed ==
    \A d \in Domains : \A h \in Covered(cov[d]) :
        Owed(d, h) \subseteq Stored(d, h) \/ (d # "authorship" /\ DropAt[h] <= target.h)

\* Rows and coverage stay at or below the durable target, so what a restart plans from
\* is never behind what was indexed, and only a height some domain covers is reported
\* committed: progress shows a head to health before the store has it.
ProgressIsDurable ==
    /\ conn = "up" => announced.h <= target.h
    /\ \A d \in Domains : /\ \A h \in Covered(cov[d]) : h <= target.h
                          /\ \A r \in rows[d] : r.h <= target.h
    /\ ~Reindexing /\ progress.committed # None =>
          \E d \in Domains : progress.committed \in Covered(cov[d])

\* A pruning floor only ever suppresses heights that the connected node has
\* discarded, whatever the previous node had and whichever lane wrote last.
FloorsAreHonest == conn = "up" => \A d \in Domains : cov[d].floor <= node.pruned

\* Nothing but conflicting history or a bad store may end run(): no
\* interleaving of the lanes, drops or restarts does.
NeverStops == conn # "dead"

\* Everything up to the finalized head is settled in the end, in every domain,
\* and stays so: covered, below the start or a pruning floor, or marked.
EverythingSettles == <>[](\A d \in Domains : \A h \in 0 .. MaxHead : h <= target.h => Settled(d, gen[d], h))

\* An absent nonce or difficulty is on record as absent, not as indexed.
MissingDataStaysUncovered ==
    \A d \in Markable : \A h \in Covered(cov[d]) : Owed(d, h) \subseteq Stored(d, h)
=============================================================================
