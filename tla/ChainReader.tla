---------------------------- MODULE ChainReader -----------------------------
(***************************************************************************)
(* How the indexer's work reaches the validator: the sync gate and the     *)
(* admission of blocks (indexer/sync_gate.rs, indexer/admission.rs), the   *)
(* job slots of decoded blocks (chain/mod.rs) and, under them, the shared  *)
(* response cache, its byte budget and the call slots (chain/transport.rs, *)
(* chain/budget.rs).                                                       *)
(*                                                                         *)
(* A job is one block, or one pass of the registry reconciliation, which   *)
(* is backfill work that is neither gated nor admitted.  A job reads its   *)
(* keys one after the other.  Every wait is a place of its own; the slots  *)
(* a job holds follow from its place.  A cell is a OnceCell: it lives      *)
(* while the cache or a job refers to it.  The validator is external.      *)
(***************************************************************************)
EXTENDS Naturals, Sequences, FiniteSets

CONSTANTS
    Live,        \* jobs of the live lane
    Backfill,    \* jobs of the backfill lane
    Scans,       \* backfill-class work without admission
    Reads,       \* Reads[j]: the keys job j reads, in order
    Keys,        \* keys of the response cache
    Direct,      \* requests that go past the cache: block hashes, runtimes, metadata
    Cells,       \* identities of cells
    Total,       \* 64: admission slots
    Reserved,    \* 8: of them kept for live work
    Slots,       \* 4: block jobs, response jobs and calls
    Sub,         \* 2: of them for backfill
    MaxEntries,  \* 128: entries of the response cache
    Limit,       \* 12 MiB: charge of the cached responses, a small one being 1
    Hysteresis,  \* 10: RESUME_HYSTERESIS
    NoCell

Jobs == Live \cup Backfill \cup Scans

ASSUME ReaderAssumption ==
    /\ Reads \in [Jobs -> Seq(Keys \cup Direct)] /\ Keys \cap Direct = {}
    /\ NoCell \notin Cells
    /\ Live \cap (Backfill \cup Scans) = {} /\ Backfill \cap Scans = {}
    /\ IsFiniteSet(Jobs) /\ IsFiniteSet(Keys) /\ IsFiniteSet(Cells)
    /\ {Total, Reserved, Sub, MaxEntries, Limit, Hysteresis} \subseteq Nat
    /\ Slots \in Nat \ {0}
    /\ Reserved <= Total /\ Sub < Slots

VARIABLES
    at,          \* where each job is
    left,        \* the keys each job has still to read
    hold,        \* the cell each job holds a clone of, inside shared()
    use,         \* the cell whose value each job uses
    cell,        \* [state, big, class] of each cell
    map,         \* Cache.cells: the cell of each key
    weak,        \* Cache.uncached: the cell of each key
    active,      \* Admission: State.active
    backActive,  \* Admission: State.backfill_active
    refused,     \* a live job was refused although fewer than Reserved live jobs ran
    runs,        \* SyncGate.in_sync_runs
    streak       \* good samples the gate evaluated since the last bad one, up to Hysteresis

readVars == <<left, hold, use, cell, map, weak>>
vars == <<at, readVars, active, backActive, refused, runs, streak>>

IsBackfill(j) == j \notin Live
Absent == [state |-> "free", big |-> FALSE, class |-> NoCell]

Loading == {"rb", "rj", "cb", "cc", "sent"}

Init ==
    /\ at = [j \in Jobs |-> "idle"]
    /\ left = [j \in Jobs |-> <<>>]
    /\ hold = [j \in Jobs |-> NoCell] /\ use = [j \in Jobs |-> NoCell]
    /\ cell = [c \in Cells |-> Absent]
    /\ map = [k \in Keys |-> NoCell] /\ weak = [k \in Keys |-> NoCell]
    /\ active = 0 /\ backActive = 0 /\ refused = FALSE
    /\ runs = 0 /\ streak = 0

Goes(j, p) == at' = [at EXCEPT ![j] = p]
-----------------------------------------------------------------------------
(* Cells *)

\* A cell lives while the cache or a job refers to it; its charge and, when the
\* response was too large to cache, its response slots go with it.
Referred(c) == (\E k \in Keys : map'[k] = c) \/ \E j \in Jobs : hold'[j] = c \/ use'[j] = c
Collect(newCell, newWeak) ==
    /\ cell' = [c \in Cells |-> IF Referred(c) THEN newCell[c] ELSE Absent]
    /\ weak' = [k \in Keys |-> IF Referred(newWeak[k]) THEN newWeak[k] ELSE NoCell]

Entries == {k \in Keys : map[k] # NoCell}
\* Weak entries; one whose value is gone is dropped at the next lookup.
Uncached == {k \in Keys : weak[k] # NoCell}
\* Arc::strong_count is 1: no job is inside shared() with this cell.
Idle(c) == \A j \in Jobs : hold[j] # c
Evictable == {k \in Entries : Idle(map[k])}

\* Entries whose eviction gives back a charge.
Freeing(ks) == Cardinality({k \in ks : /\ cell[map[k]].state = "ready"
                                       /\ \A j \in Jobs : use[j] # map[k]})
Charged == Cardinality({c \in Cells : cell[c].state = "ready" /\ ~cell[c].big})
-----------------------------------------------------------------------------
(* Slots.  The place of a job is the slot it waits for. *)

SubSlots == {"bb", "rb", "cb"}
Needs(j, slot) == slot \in SubSlots => IsBackfill(j)
InBlock == {"next", "join", "use"} \cup Loading

\* Deviation: a call slot is taken before the backfill sub-budget.
CallOrder_Swapped == <<"rb", "rj", "cc", "cb", "sent">>
\* The slots of one load in the order they are taken, the backfill sub-budget first.
CallOrder == <<"rb", "rj", "cb", "cc", "sent">>
Pos(p) == CHOOSE i \in 1 .. 5 : CallOrder[i] = p
NextSlot(j, p) ==
    CallOrder[CHOOSE i \in Pos(p) + 1 .. 5 : /\ Needs(j, CallOrder[i])
                  /\ \A n \in Pos(p) + 1 .. i - 1 : ~Needs(j, CallOrder[n])]

Holds(j, slot) ==
    /\ Needs(j, slot)
    /\ IF slot \in {"bb", "bj"}
         THEN j \notin Scans /\ (at[j] \in InBlock \/ (slot = "bb" /\ at[j] = "bj"))
         ELSE /\ at[j] \in Loading /\ Pos(at[j]) > Pos(slot)
              /\ slot \in {"rb", "rj"} => hold[j] # NoCell
\* Response slots kept by responses that were too large to cache.
Kept(slot) == Cardinality({c \in Cells : /\ cell[c].big /\ slot \in {"rb", "rj"}
                                         /\ slot = "rb" => cell[c].class = "backfill"})
Free(slot) ==
    Cardinality({j \in Jobs : Holds(j, slot)}) + Kept(slot)
        < IF slot \in SubSlots THEN Sub ELSE Slots

Acquire(j) ==
    /\ at[j] \in {"bb", "bj", "rb", "rj", "cb", "cc"} /\ Free(at[j])
    /\ Goes(j, CASE at[j] = "bb" -> "bj" [] at[j] = "bj" -> "next"
                 [] OTHER -> NextSlot(j, at[j]))
    /\ UNCHANGED <<readVars, active, backActive, refused, runs, streak>>
-----------------------------------------------------------------------------
(* The gate and the admission *)

Begin(j) == left' = [left EXCEPT ![j] = Reads[j]]

\* Deviation: a bad sample takes back one good one.
Runs_Decay(s) == IF s = "good" THEN runs + 1 ELSE IF runs > 0 THEN runs - 1 ELSE 0
\* A bad sample (the node syncs, lags or answers slowly) starts the count again.
Runs(s) == IF s = "good" THEN (IF runs < Hysteresis THEN runs + 1 ELSE runs) ELSE 0

\* One round of the backfill lane: the gate is asked, and if it is open a block is
\* admitted, which counts it as backfill first.  A sync state that cannot be read
\* pauses the round and leaves the gate alone.
Round(j) ==
    /\ j \in Backfill /\ at[j] = "idle"
    /\ \/ \E s \in {"good", "bad"} :
            /\ runs' = Runs(s)
            /\ streak' = IF s = "bad" THEN 0
                         ELSE IF streak < Hysteresis THEN streak + 1 ELSE streak
            /\ IF s = "good" /\ runs' >= Hysteresis /\ backActive < Total - Reserved
                 THEN Goes(j, "half") /\ Begin(j) /\ backActive' = backActive + 1
                 ELSE UNCHANGED <<at, left, backActive>>
       \/ UNCHANGED <<runs, streak, at, left, backActive>>
    /\ UNCHANGED <<hold, use, cell, map, weak, active, refused>>

\* The second claim of try_backfill; without it the first one is given back.
Claim(j) ==
    /\ at[j] = "half"
    /\ IF active < Total
         THEN active' = active + 1 /\ Goes(j, "bb") /\ UNCHANGED <<left, backActive>>
         ELSE /\ backActive' = backActive - 1 /\ Goes(j, "idle")
              /\ left' = [left EXCEPT ![j] = <<>>] /\ active' = active
    /\ UNCHANGED <<hold, use, cell, map, weak, refused, runs, streak>>

LiveAdmitted == Cardinality({j \in Live : at[j] # "idle"})
StartLive(j) ==
    /\ j \in Live /\ at[j] = "idle"
    /\ IF active < Total
         THEN active' = active + 1 /\ Goes(j, "bj") /\ Begin(j) /\ refused' = refused
         ELSE /\ refused' = (refused \/ LiveAdmitted < Reserved)
              /\ UNCHANGED <<active, at, left>>
    /\ UNCHANGED <<hold, use, cell, map, weak, backActive, runs, streak>>

StartScan(j) ==
    /\ j \in Scans /\ at[j] = "idle"
    /\ Goes(j, "next") /\ Begin(j)
    /\ UNCHANGED <<hold, use, cell, map, weak, active, backActive, refused, runs, streak>>

\* Deviation: the permit gives back its backfill count first.
DropPermit_BackfillFirst(j) ==
    \/ /\ at[j] = "drop" /\ j \in Live
       /\ active' = active - 1 /\ Goes(j, "idle") /\ UNCHANGED <<readVars, backActive>>
    \/ /\ at[j] = "drop" /\ j \in Backfill
       /\ backActive' = backActive - 1 /\ Goes(j, "drop2") /\ UNCHANGED <<readVars, active>>
    \/ /\ at[j] = "drop2"
       /\ active' = active - 1 /\ Goes(j, "idle") /\ UNCHANGED <<readVars, backActive>>
\* Permit::drop: the global count first, then the backfill count.
DropPermit(j) ==
    \/ /\ at[j] = "drop" /\ j \notin Scans
       /\ active' = active - 1 /\ Goes(j, IF j \in Live THEN "idle" ELSE "drop2")
       /\ UNCHANGED <<readVars, backActive>>
    \/ /\ at[j] = "drop2"
       /\ backActive' = backActive - 1 /\ Goes(j, "idle") /\ UNCHANGED <<readVars, active>>
Leave(j) == DropPermit(j) /\ UNCHANGED <<refused, runs, streak>>

\* The job ended: done, failed or dropped.  Its slots follow from its place.
EndPlace(j) == IF j \in Scans THEN "idle" ELSE "drop"
-----------------------------------------------------------------------------
(* shared() *)

\* Deviation: entries that are too large to cache do not count.
Room_Ignoring == Cardinality(Entries) < MaxEntries
Room == Cardinality(Entries) + Cardinality(Uncached) < MaxEntries

\* The lookup, under the cache lock: a large response somebody still uses, the cell of
\* the key, or a new cell in the place of an idle one.  With none idle it is Busy.
Lookup(j) ==
    /\ at[j] = "next" /\ Head(left[j]) \in Keys
    /\ LET k == Head(left[j]) IN
       \/ /\ k \in Uncached
          /\ use' = [use EXCEPT ![j] = weak[k]] /\ Goes(j, "use")
          /\ UNCHANGED <<left, hold, cell, map, weak>>
       \/ /\ k \notin Uncached /\ map[k] # NoCell
          /\ hold' = [hold EXCEPT ![j] = map[k]] /\ Goes(j, "join")
          /\ UNCHANGED <<left, use, cell, map, weak>>
       \/ /\ k \notin Uncached /\ map[k] = NoCell
          /\ \E c \in {CHOOSE new \in Cells : cell[new] = Absent} :
               /\ \E gone \in IF Room THEN {{}} ELSE {{e} : e \in Evictable} :
                    map' = [e \in Keys |-> IF e = k THEN c
                                           ELSE IF e \in gone THEN NoCell ELSE map[e]]
               /\ hold' = [hold EXCEPT ![j] = c]
               /\ UNCHANGED <<left, use>>
               /\ Collect([cell EXCEPT ![c].state = "empty"], weak)
          /\ Goes(j, "join")
       \/ /\ k \notin Uncached /\ map[k] = NoCell /\ ~Room /\ Evictable = {}
          /\ left' = [left EXCEPT ![j] = <<>>] /\ Goes(j, EndPlace(j))
          /\ UNCHANGED <<hold, use, cell, map, weak>>
    /\ UNCHANGED <<active, backActive, refused, runs, streak>>

\* A request of its own: only the call slots.
Request(j) ==
    /\ at[j] = "next" /\ Head(left[j]) \in Direct
    /\ Goes(j, NextSlot(j, "rj"))
    /\ UNCHANGED <<readVars, active, backActive, refused, runs, streak>>

Loader(c) == \E j \in Jobs : hold[j] = c /\ at[j] \in Loading

\* OnceCell: the value if it is there, else one caller at a time loads it.
Join(j) ==
    /\ at[j] = "join"
    /\ LET c == hold[j] IN
       \/ /\ cell[c].state = "ready"
          /\ use' = [use EXCEPT ![j] = c] /\ hold' = [hold EXCEPT ![j] = NoCell]
          /\ Goes(j, "use") /\ UNCHANGED <<left, cell, map, weak>>
       \/ /\ cell[c].state = "empty" /\ ~Loader(c)
          /\ Goes(j, IF IsBackfill(j) THEN "rb" ELSE "rj") /\ UNCHANGED readVars
    /\ UNCHANGED <<active, backActive, refused, runs, streak>>

\* Everything the job held goes; a cell it was loading stays empty for whoever asks
\* next, and an error takes it out of the cache.
Abandon(j, failed) ==
    LET k == Head(left[j]) IN
    /\ hold' = [hold EXCEPT ![j] = NoCell] /\ use' = [use EXCEPT ![j] = NoCell]
    /\ left' = [left EXCEPT ![j] = <<>>]
    /\ map' = IF failed /\ k \in Keys /\ map[k] = hold[j] THEN [map EXCEPT ![k] = NoCell] ELSE map
    /\ Collect(cell, weak)
    /\ Goes(j, EndPlace(j))

Stored(j, big) ==
    [cell EXCEPT ![hold[j]] = [@ EXCEPT !.state = "ready", !.big = big,
                               !.class = IF IsBackfill(j) THEN "backfill" ELSE "live"]]

ReplyDirect(j) ==
    /\ at[j] = "sent" /\ hold[j] = NoCell
    /\ Goes(j, "use") /\ UNCHANGED <<readVars, active, backActive, refused, runs, streak>>

\* A small response is charged, in the place of idle entries if need be.
ReplySmall(j) ==
    /\ at[j] = "sent" /\ hold[j] # NoCell
    /\ \/ \E gone \in SUBSET Evictable :
            /\ Charged - Freeing(gone) < Limit
            /\ \A k \in gone : Charged - Freeing(gone \ {k}) >= Limit
            /\ map' = [k \in Keys |-> IF k \in gone THEN NoCell ELSE map[k]]
            /\ use' = [use EXCEPT ![j] = hold[j]] /\ hold' = [hold EXCEPT ![j] = NoCell]
            /\ left' = left /\ Collect(Stored(j, FALSE), weak) /\ Goes(j, "use")
       \/ /\ Charged - Freeing(Evictable) >= Limit
          /\ Abandon(j, TRUE)
    /\ UNCHANGED <<active, backActive, refused, runs, streak>>

\* A large one keeps its response slots and leaves the cache for the weak table.
ReplyLarge(j) ==
    /\ at[j] = "sent" /\ hold[j] # NoCell
    /\ LET k == Head(left[j]) IN
       /\ map' = IF map[k] = hold[j] THEN [map EXCEPT ![k] = NoCell] ELSE map
       /\ use' = [use EXCEPT ![j] = hold[j]] /\ hold' = [hold EXCEPT ![j] = NoCell]
       /\ left' = left /\ Goes(j, "use")
       /\ Collect(Stored(j, TRUE),
                  IF map[k] = hold[j] THEN [weak EXCEPT ![k] = hold[j]] ELSE weak)
    /\ UNCHANGED <<active, backActive, refused, runs, streak>>

ReplyError(j) ==
    /\ at[j] = "sent" /\ Abandon(j, TRUE)
    /\ UNCHANGED <<active, backActive, refused, runs, streak>>

\* The value is decoded and dropped; the next key, or the end of the job.
Done(j) ==
    /\ at[j] = "use"
    /\ use' = [use EXCEPT ![j] = NoCell] /\ left' = [left EXCEPT ![j] = Tail(@)]
    /\ UNCHANGED <<hold, map>> /\ Collect(cell, weak)
    /\ Goes(j, IF Len(left[j]) = 1 THEN EndPlace(j) ELSE "next")
    /\ UNCHANGED <<active, backActive, refused, runs, streak>>

\* The future of a job is dropped at an await.
Cancel(j) ==
    /\ at[j] \in {"join", "use"} \cup Loading /\ Abandon(j, FALSE)
    /\ UNCHANGED <<active, backActive, refused, runs, streak>>

Reply(j) == ReplyDirect(j) \/ ReplySmall(j) \/ ReplyLarge(j) \/ ReplyError(j)
Step(j) == Acquire(j) \/ Claim(j) \/ Leave(j) \/ Lookup(j) \/ Request(j)
               \/ Join(j) \/ Done(j)
Next == \E j \in Jobs : Step(j) \/ Reply(j) \/ Cancel(j) \/ Round(j) \/ StartLive(j)
                            \/ StartScan(j)

\* The runtime runs every job, and a live request is answered or times out; nothing is
\* assumed of the answers to backfill requests.
Spec == Init /\ [][Next]_vars /\ \A j \in Jobs : WF_vars(Step(j))
             /\ \A l \in Live : WF_vars(Reply(l))
-----------------------------------------------------------------------------
(* Properties *)

\* Live work is refused admission only when the live jobs alone fill their reserve,
\* at every moment of the two-step claims and releases of backfill permits.
LiveKeepsPermits == ~refused

\* Backfill holds at most its sub-budget of the block, response and call slots, large
\* responses somebody still uses included: Slots - Sub of each are left to live work.
BackfillSparesSlots ==
    \A slot \in {"bj", "rj", "cc"} :
        Cardinality({j \in Jobs : IsBackfill(j) /\ Holds(j, slot)})
            + (IF slot = "rj" THEN Kept("rb") ELSE 0) <= Sub

\* What is reserved for live work is there for it: permits (admission.rs) and slots
\* (budget.rs), whatever backfill waits for and whichever responses it keeps.
LiveReserve == LiveKeepsPermits /\ BackfillSparesSlots

\* A block of the backfill lane is admitted only after Hysteresis good samples in a row.
GateDebounced ==
    [][\A j \in Backfill : at[j] = "idle" /\ at'[j] = "half" =>
          streak' = Hysteresis]_vars

\* The response cache holds at most MaxEntries keys, large responses included.
EntriesBounded == Cardinality(Entries) + Cardinality(Uncached) <= MaxEntries

\* "Waiting backfill never owns a live slot" (transport.rs:226): a live job never waits
\* for a slot forever, even when no backfill request is ever answered.
LiveGetsSlot ==
    \A j \in Live : at[j] \in {"bj", "rj", "cc"} ~> at[j] \notin {"bj", "rj", "cc"}
=============================================================================
