------------------------------ MODULE Registry ------------------------------
(***************************************************************************)
(* The miner registry and the chain head in the store                      *)
(* (indexer/reconcile.rs, with the upserts of dashboard-store's miners.rs  *)
(* and telemetry.rs): the reconciliation task publishes the head and, when *)
(* it is due, walks the whole registry; the live lane refreshes the        *)
(* accounts a block changed; the administrative reconstruction looks for   *)
(* the block in which a descriptor first appeared.                         *)
(*                                                                         *)
(* A block changes one account, and its timestamp is its height.  A state  *)
(* is read at a pinned block, so what a read returns follows from the      *)
(* block.  The chain is external.                                          *)
(***************************************************************************)
EXTENDS Naturals, Sequences, FiniteSets

CONSTANTS
    Accounts,
    MaxHeight    \* bound: blocks of the chain

ASSUME RegistryAssumption == MaxHeight \in Nat /\ IsFiniteSet(Accounts)

Events == [kind : {"proof", "update", "clear"}, account : Accounts]

VARIABLES
    chain,      \* external: the finalized blocks
    mode,       \* who has the store: the service or the administrative command
    lock,       \* Indexer.registry
    scan,       \* the reconciliation task
    refresh,    \* the live lane inside refresh_changes
    search,     \* reconstruct_first_seen
    miners,     \* chain_miners: the counter of each account, 0 without a row
    descs,      \* node_descriptors: [height, first] of each account, 0 without a row
    mark,       \* descriptor_checkpoint
    headRow,    \* chain_head: [height, qblocks]
    exact       \* accounts whose first block has been searched for

rowVars == <<miners, descs, mark, headRow, exact>>
regVars == <<chain, mode, lock, scan, refresh, search, rowVars>>

ScanIdle == [at |-> "idle", target |-> 0, head |-> 0, left |-> {}]
RefreshIdle == [at |-> "idle", block |-> 0, head |-> 0]
SearchIdle == [at |-> "idle", head |-> 0, left |-> {}, account |-> {}, low |-> 0, high |-> 0]

RegInit ==
    /\ chain = <<>> /\ mode = "service" /\ lock = "free"
    /\ scan = ScanIdle /\ refresh = RefreshIdle /\ search = SearchIdle
    /\ miners = [a \in Accounts |-> 0]
    /\ descs = [a \in Accounts |-> [height |-> 0, first |-> 0]]
    /\ mark = 0 /\ headRow = [height |-> 0, qblocks |-> 0] /\ exact = {}
-----------------------------------------------------------------------------
(* What the chain holds at a block *)

Finalized == Len(chain)
Of(a, kind, h) == {n \in 1 .. h : chain[n] = [kind |-> kind, account |-> a]}
Proofs(a, h) == Cardinality(Of(a, "proof", h))
QblockCount(h) == Cardinality({n \in 1 .. h : chain[n].kind = "proof"})

\* The block that last updated the descriptor the account has, 0 when it has none.
UpdatedAt(a, h) ==
    IF \E n \in Of(a, "update", h) : \A m \in Of(a, "update", h) \cup Of(a, "clear", h) : m <= n
      THEN CHOOSE n \in Of(a, "update", h) : \A m \in Of(a, "update", h) : m <= n
      ELSE 0
Present(a, h) == UpdatedAt(a, h) # 0

\* What the pages of the two maps list.
MinerAccounts(h) == {a \in Accounts : Proofs(a, h) > 0}
DescriptorAccounts(h) == {a \in Accounts : Present(a, h)}
-----------------------------------------------------------------------------
(* The rows *)

\* upsert_node_descriptor: a newer update replaces the row, all but its first block.  The
\* store takes the update's own time for that, whatever time the caller names.
UpsertDescriptor(a, h) ==
    descs' = IF UpdatedAt(a, h) <= descs[a].height THEN descs
             ELSE [descs EXCEPT ![a] = [height |-> UpdatedAt(a, h),
                        first |-> IF @.height = 0 THEN UpdatedAt(a, h) ELSE @.first]]

\* upsert_chain_miners: whatever was read.
UpsertMiner(a, h) == miners' = [miners EXCEPT ![a] = IF Proofs(a, h) = 0 THEN @ ELSE Proofs(a, h)]

\* upsert_chain_head: one row, overwritten.
UpsertHead(h) == headRow' = [height |-> h, qblocks |-> QblockCount(h)]

\* backfill_node_descriptor_first_seen: only ever lower.
BackfillFirst(a, h) == descs' = [descs EXCEPT ![a].first = IF h < @ THEN h ELSE @]
-----------------------------------------------------------------------------
(* The reconciliation task *)

\* A round pins the newest target the watch channel has.
BeginRound ==
    /\ mode = "service" /\ scan.at = "idle"
    /\ \E t \in headRow.height .. Finalized :
         scan' = [ScanIdle EXCEPT !.at = "head", !.target = t]
    /\ UNCHANGED <<chain, mode, lock, refresh, search, rowVars>>

\* dynamic_snapshot; then the registry, if a quarter of an hour is over.
PublishHead ==
    /\ scan.at = "head"
    /\ UpsertHead(scan.target)
    /\ \E due \in BOOLEAN : scan' = IF due THEN [scan EXCEPT !.at = "lock"] ELSE ScanIdle
    /\ UNCHANGED <<chain, mode, lock, refresh, search, miners, descs, mark, exact>>

LockScan ==
    /\ scan.at = "lock" /\ lock = "free"
    /\ lock' = "scan" /\ scan' = [scan EXCEPT !.at = "pin"]
    /\ UNCHANGED <<chain, mode, refresh, search, rowVars>>

\* Deviation: the walk uses the block the round was called with.
ScanHead_Target(t) == t
\* The walk reads the finalized head itself, inside the lock.
ScanHead(t) == Finalized

PinScan ==
    /\ scan.at = "pin"
    /\ LET h == ScanHead(scan.target) IN
       scan' = [scan EXCEPT !.at = "miners", !.head = h,
                            !.left = MinerAccounts(h)]
    /\ UNCHANGED <<chain, mode, lock, refresh, search, rowVars>>

\* One page of miners, here one account, then the pages of descriptors.
MinerPage ==
    /\ scan.at = "miners"
    /\ IF scan.left = {}
         THEN /\ scan' = [scan EXCEPT !.at = "descs",
                              !.left = DescriptorAccounts(scan.head)]
              /\ UNCHANGED miners
         ELSE \E a \in scan.left :
                UpsertMiner(a, scan.head) /\ scan' = [scan EXCEPT !.left = @ \ {a}]
    /\ UNCHANGED <<chain, mode, lock, refresh, search, descs, mark, headRow, exact>>

\* The checkpoint, which only grows, ends the walk.
DescriptorPage ==
    /\ scan.at = "descs"
    /\ IF scan.left = {}
         THEN /\ mark' = IF scan.head > mark THEN scan.head ELSE mark
              /\ scan' = ScanIdle /\ lock' = "free" /\ UNCHANGED descs
         ELSE /\ \E a \in scan.left :
                   UpsertDescriptor(a, scan.head) /\ scan' = [scan EXCEPT !.left = @ \ {a}]
              /\ UNCHANGED <<mark, lock>>
    /\ UNCHANGED <<chain, mode, refresh, search, miners, headRow, exact>>
-----------------------------------------------------------------------------
(* The live lane *)

StartRefresh ==
    /\ mode = "service" /\ refresh.at = "idle"
    /\ \E n \in 1 .. Finalized : refresh' = [RefreshIdle EXCEPT !.at = "lock", !.block = n]
    /\ UNCHANGED <<chain, mode, lock, scan, search, rowVars>>

LockRefresh ==
    /\ refresh.at = "lock" /\ lock = "free"
    /\ lock' = "live" /\ refresh' = [refresh EXCEPT !.at = "pin"]
    /\ UNCHANGED <<chain, mode, scan, search, rowVars>>

\* The finalized head; a block without registry changes goes on to the miners.
PinRefresh ==
    /\ refresh.at = "pin"
    /\ refresh' = [refresh EXCEPT !.head = Finalized,
                      !.at = IF chain[refresh.block].kind = "proof" THEN "miner" ELSE "desc"]
    /\ UNCHANGED <<chain, mode, lock, scan, search, rowVars>>

RefreshDescriptor ==
    /\ refresh.at = "desc"
    /\ UpsertDescriptor(chain[refresh.block].account, refresh.head)
    /\ refresh' = [refresh EXCEPT !.at = "miner"]
    /\ UNCHANGED <<chain, mode, lock, scan, search, miners, mark, headRow, exact>>

RefreshMiner ==
    /\ refresh.at = "miner"
    /\ UpsertMiner(chain[refresh.block].account, refresh.head)
    /\ refresh' = RefreshIdle /\ lock' = "free"
    /\ UNCHANGED <<chain, mode, scan, search, descs, mark, headRow, exact>>

\* A chain error is logged, and what the block changed is left to the next walk.
RefreshFails ==
    /\ refresh.at \in {"pin", "desc", "miner"}
    /\ refresh' = RefreshIdle /\ lock' = "free"
    /\ UNCHANGED <<chain, mode, scan, search, rowVars>>

\* Any other error ends the connection, and with it both tasks; the service may stop.
ConnectionEnds ==
    /\ mode = "service"
    /\ scan' = ScanIdle /\ refresh' = RefreshIdle /\ lock' = "free"
    /\ mode' \in {"service", "admin"}
    /\ UNCHANGED <<chain, search, rowVars>>
-----------------------------------------------------------------------------
(* The reconstruction, which has the writer lease to itself *)

BeginSearch ==
    /\ mode = "admin" /\ search.at = "idle" /\ Finalized > 0
    /\ search' = [SearchIdle EXCEPT !.at = "next", !.head = Finalized,
                      !.left = DescriptorAccounts(Finalized)]
    /\ UNCHANGED <<chain, mode, lock, scan, refresh, rowVars>>

\* An account without a row is passed over.
NextAccount ==
    /\ search.at = "next" /\ search.left # {}
    /\ \E a \in search.left :
         search' = IF descs[a].height = 0 THEN [search EXCEPT !.left = @ \ {a}]
                   ELSE [search EXCEPT !.at = "bisect", !.left = @ \ {a}, !.account = {a},
                                       !.low = 1, !.high = search.head]
    /\ UNCHANGED <<chain, mode, lock, scan, refresh, rowVars>>

\* Deviation: the middle is left out although it may be the first block.
Halve_Below(a, low, high) ==
    LET middle == low + (high - low) \div 2 IN
    IF Present(a, middle) THEN [low |-> low, high |-> middle - 1]
    ELSE [low |-> middle + 1, high |-> high]
\* One step of the search between low and high.
Halve(a, low, high) ==
    LET middle == low + (high - low) \div 2 IN
    IF Present(a, middle) THEN [low |-> low, high |-> middle]
    ELSE [low |-> middle + 1, high |-> high]

Bisect ==
    /\ search.at = "bisect" /\ search.low < search.high
    /\ \E a \in search.account : LET r == Halve(a, search.low, search.high) IN
         search' = [search EXCEPT !.low = r.low, !.high = r.high]
    /\ UNCHANGED <<chain, mode, lock, scan, refresh, rowVars>>

\* What the search found goes into the row.
LowerFirst ==
    /\ search.at = "bisect" /\ search.low >= search.high
    /\ \E a \in search.account : BackfillFirst(a, search.low) /\ exact' = exact \cup {a}
    /\ search' = [search EXCEPT !.at = "next", !.account = {}]
    /\ UNCHANGED <<chain, mode, lock, scan, refresh, miners, mark, headRow>>

\* The command ends, done or failed, and the service starts again.
EndSearch ==
    /\ mode = "admin"
    /\ mode' = "service" /\ search' = SearchIdle
    /\ UNCHANGED <<chain, lock, scan, refresh, rowVars>>
-----------------------------------------------------------------------------
\* External: a block is finalized.
Finalize ==
    /\ Finalized < MaxHeight
    /\ \E e \in Events : chain' = Append(chain, e)
    /\ UNCHANGED <<mode, lock, scan, refresh, search, rowVars>>

Reconcile == BeginRound \/ PublishHead \/ LockScan \/ PinScan \/ MinerPage \/ DescriptorPage
Refresh == StartRefresh \/ LockRefresh \/ PinRefresh \/ RefreshDescriptor \/ RefreshMiner
Reconstruct == BeginSearch \/ NextAccount \/ Bisect \/ LowerFirst \/ EndSearch
RegNext == Reconcile \/ Refresh \/ RefreshFails \/ ConnectionEnds \/ Reconstruct \/ Finalize

RegSpec == RegInit /\ [][RegNext]_regVars
-----------------------------------------------------------------------------
(* Properties *)

\* "Serialize targeted updates with the reconciliation snapshot so counters cannot
\* regress" (reconcile.rs:146): neither a walk overtaken by a refresh nor one that was
\* cut off and begun again takes a stored counter back.
CountersNeverRegress == [][\A a \in Accounts : miners'[a] >= miners[a]]_regVars

\* A stored first block is one at which the account had its descriptor, and once it was
\* searched for it is the very first, if the account never cleared its descriptor.
FirstSeenExact ==
    \A a \in Accounts : descs[a].height # 0 =>
        /\ Present(a, descs[a].first)
        /\ a \in exact /\ Of(a, "clear", Finalized) = {} =>
             \A n \in 1 .. descs[a].first - 1 : ~Present(a, n)
=============================================================================
