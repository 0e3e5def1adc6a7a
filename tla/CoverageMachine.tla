-------------------------- MODULE CoverageMachine --------------------------
(***************************************************************************)
(* One domain's coverage record driven by every sequence of completions,   *)
(* pruning floors and absence markers, beside the plain set of heights     *)
(* those completions name.  The record is what the database keeps; the set *)
(* is the reference it has to agree with.                                  *)
(***************************************************************************)
EXTENDS Coverage

VARIABLES
    persisted,   \* the persisted Coverage record
    reference,   \* the heights completed so far
    absent       \* heights with an absence marker

machineVars == <<persisted, reference, absent>>

MachineTypeOK ==
    /\ persisted \in CoverageRecord
    /\ reference \in SUBSET Height
    /\ absent \in SUBSET Height

MachineInit ==
    /\ \E start \in Height : persisted = EmptyCoverage(1, start)
    /\ reference = {}
    /\ absent = {}

\* commit_block and commit_range end here.
CompleteInterval(a, b) ==
    /\ ~ CoverRejected(persisted, a, b)
    /\ persisted' = Cover(persisted, a, b)
    /\ reference' = reference \cup (a .. b)
    /\ UNCHANGED absent

MoveFloor(f) ==
    /\ persisted' = [persisted EXCEPT !.floor = f]
    /\ UNCHANGED <<reference, absent>>

\* A covered height is never marked.
Mark(n) ==
    /\ ~ Contains(persisted, n, n)
    /\ absent' = absent \cup {n}
    /\ UNCHANGED <<persisted, reference>>

MachineNext ==
    \/ \E a, b \in Height : CompleteInterval(a, b)
    \/ \E f \in OptHeight : MoveFloor(f)
    \/ \E n \in Height : Mark(n)

MachineSpec == MachineInit /\ [][MachineNext]_machineVars

-----------------------------------------------------------------------------
\* What cover() writes is what the next read accepts: no sequence of
\* completions leaves a record whose validation would stop the indexer.
PersistedCoverageAccepted == ValidCoverage(persisted)

\* The record stands for exactly the heights that were completed, and
\* contains() answers for whole intervals what it answers height by height.
CoversExactly ==
    /\ Covered(persisted) = reference
    /\ \A a, b \in Height : Contains(persisted, a, b) <=> a <= b /\ a .. b \subseteq reference

\* uncovered() plans exactly the eligible heights that are still missing.
UncoveredExact ==
    \A head \in Height :
        UNION {i.lo .. i.hi : i \in Uncovered(persisted, head)}
            = {n \in Height : /\ n <= head /\ n >= persisted.start
                              /\ n > persisted.floor /\ n \notin reference}

\* What the planners hand to the lanes is exact too, so that no height is worked on
\* twice, lost behind an absence marker, or retried although it is marked: planned
\* intervals are disjoint and never empty; retryable_range is the first maximal run of
\* unmarked heights, and nothing only if all are marked; subtract_points leaves the rest.
PlanningExact ==
    /\ \A head \in Height : \A i, j \in Uncovered(persisted, head) :
          /\ i.lo <= i.hi
          /\ i # j => i.hi < j.lo \/ j.hi < i.lo
    /\ \A from \in Height : \A through \in from .. U64Max :
          LET free == (from .. through) \ absent
              R == RetryableRange(absent, from, through)
          IN  /\ free = {} => R = {}
              /\ free # {} => \E r \in R : /\ R = {r}
                                           /\ r.lo = Least(free)
                                           /\ r.lo .. r.hi \subseteq free
                                           /\ r.hi + 1 \notin free
              /\ free = UNION {i.lo .. i.hi : i \in SubtractPoints(from, through, absent)}
=============================================================================
