------------------------------ MODULE Coverage ------------------------------
(***************************************************************************)
(* The durable coverage record of one indexable domain, and the interval   *)
(* planning on it (dashboard-store/src/coverage.rs, types.rs and           *)
(* quip-dashboard/src/indexer/coverage.rs).  A record says which heights   *)
(* of the current generation are finished: everything from low through    *)
(* high except the gaps.  The code keeps the gaps as a sorted vector of    *)
(* disjoint intervals; their order carries nothing else, so the model      *)
(* keeps them as a set.                                                    *)
(***************************************************************************)
EXTENDS Integers

CONSTANT U64Max          \* u64::MAX, where additions saturate or are refused

ASSUME U64MaxAssumption == U64Max \in Nat \ {0}

None == -1               \* Option::None for a height
Height == 0 .. U64Max
OptHeight == Height \cup {None}
Interval == [lo : Height, hi : Height]

CoverageRecord ==
    [gen : Nat, start : Height, low : OptHeight, high : OptHeight,
     gaps : SUBSET Interval, floor : OptHeight]

\* u64::saturating_add
SatAdd(x, y) == IF x + y > U64Max THEN U64Max ELSE x + y

EmptyCoverage(g, start) ==
    [gen |-> g, start |-> start, low |-> None, high |-> None,
     gaps |-> {}, floor |-> None]

Contains(c, from, through) ==
    /\ from <= through
    /\ c.low # None /\ c.low <= from
    /\ c.high # None /\ c.high >= through
    /\ \A g \in c.gaps : ~ (g.lo <= through /\ g.hi >= from)

Covered(c) == {n \in Height : Contains(c, n, n)}

\* cover() refuses a reversed interval and one that begins below the floor
\* of the domain; every caller turns that into StoreError::Invalid.
CoverRejected(c, a, b) == a > b \/ a < c.start

\* Deviation: the hole between the old bounds and a far interval is forgotten.
OpenedGaps_None(c, a, b) == {}

\* Deviation: an adjacent interval leaves an empty hole.
OpenedGaps_Adjacent(c, a, b) ==
    {g \in {[lo |-> c.high + 1, hi |-> a - 1]} : a >= SatAdd(c.high, 1)}
        \cup {g \in {[lo |-> b + 1, hi |-> c.low - 1]} : SatAdd(b, 1) < c.low}

\* The holes that appear between the old bounds and an interval beyond them.
OpenedGaps(c, a, b) ==
    {g \in {[lo |-> c.high + 1, hi |-> a - 1]} : a > SatAdd(c.high, 1)}
        \cup {g \in {[lo |-> b + 1, hi |-> c.low - 1]} : SatAdd(b, 1) < c.low}

\* What is left of the intervals G once a through b are taken out.
Carve(G, a, b) ==
    LET hit == {g \in G : ~ (g.hi < a \/ g.lo > b)}
    IN  (G \ hit)
            \cup {[lo |-> g.lo, hi |-> a - 1] : g \in {h \in hit : h.lo < a}}
            \cup {[lo |-> b + 1, hi |-> g.hi] : g \in {h \in hit : h.hi > b}}

Smaller(x, y) == IF x <= y THEN x ELSE y
Larger(x, y) == IF x >= y THEN x ELSE y

Cover(c, a, b) ==
    IF Contains(c, a, b) THEN c
    ELSE IF c.low # None /\ c.high # None
    THEN [c EXCEPT !.gaps = Carve(c.gaps \cup OpenedGaps(c, a, b), a, b),
                   !.low = Smaller(c.low, a),
                   !.high = Larger(c.high, b)]
    ELSE [c EXCEPT !.low = a, !.high = b]

\* The validation every read inside a transaction performs; a record that
\* fails it stops the indexer for good (StoreError::Invalid is fatal).
ValidCoverage(c) ==
    /\ c.low # None <=> c.high # None
    /\ c.low # None => c.low <= c.high
    /\ \A g \in c.gaps :
          /\ g.lo <= g.hi
          /\ c.low # None /\ c.low < g.lo
          /\ c.high # None /\ g.hi < c.high
    /\ \A g, h \in c.gaps : g # h /\ g.lo <= h.lo => SatAdd(g.hi, 1) < h.lo

\* Deviation: the floor itself stays eligible.
EligibleStart_Floor(c) == IF c.floor = None THEN c.start ELSE Larger(c.start, c.floor)

\* The first height that pruning leaves eligible.  The u64::MAX floor, which
\* has no successor, is the caller's case.
EligibleStart(c) == IF c.floor = None THEN c.start ELSE Larger(c.start, c.floor + 1)

Uncovered(c, head) ==
    LET start == EligibleStart(c)
        middle == {[lo |-> Larger(g.lo, start), hi |-> Smaller(g.hi, head)] : g \in c.gaps}
    IN  IF c.floor = U64Max \/ start > head THEN {}
        ELSE IF c.low = None \/ c.high = None THEN {[lo |-> start, hi |-> head]}
        ELSE {i \in {[lo |-> start, hi |-> Smaller(head, c.low - 1)]} : start < c.low}
                \cup {i \in middle : i.lo <= i.hi}
                \cup {i \in {[lo |-> Larger(c.high + 1, start), hi |-> head]} :
                         c.high < U64Max /\ i.lo <= i.hi}

\* The interval a sorted vector has first.
First(S) == CHOOSE i \in S : \A j \in S : i.lo <= j.lo
Least(S) == CHOOSE n \in S : \A m \in S : n <= m

\* Deviation: later markers do not end the run.
RetryableRange_Unbounded(marked, from, through) ==
    LET starts == IF from \in marked THEN {n \in from + 1 .. through : n \notin marked} ELSE {from}
    IN  IF starts = {} THEN {} ELSE {[lo |-> Least(starts), hi |-> through]}
\* Deviation: a marked prefix hides what follows it.
RetryableRange_Stuck(marked, from, through) ==
    IF from \in marked THEN {} ELSE {[lo |-> from, hi |-> through]}

\* retryable_range: the first run of heights without an absence marker inside
\* [from, through].  A marked prefix is left through the stored successors of
\* markers; the result is empty when no unmarked height is left.
RetryableRange(marked, from, through) ==
    LET successors == {n \in from + 1 .. through : n - 1 \in marked /\ n \notin marked}
        starts == IF from \in marked THEN successors ELSE {from}
    IN  IF starts = {} THEN {}
        ELSE LET start == Least(starts)
                 blocked == {n \in marked : start < n /\ n <= through}
                 end == IF blocked = {} THEN through ELSE Least(blocked) - 1
             IN  {[lo |-> start, hi |-> end]}

\* subtract_points: what is left of [from, through] without the given heights.
SubtractPoints(from, through, points) ==
    LET P == {p \in points : from <= p /\ p <= through}
        edges == {from} \cup {p + 1 : p \in P \ {U64Max}}
        begins == {n \in edges : n <= through /\ n \notin P}
    IN  {[lo |-> n,
          hi |-> LET after == {p \in P : p > n}
                 IN  IF after = {} THEN through ELSE Least(after) - 1] : n \in begins}
=============================================================================
