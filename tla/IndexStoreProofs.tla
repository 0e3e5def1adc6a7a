-------------------------- MODULE IndexStoreProofs --------------------------
(***************************************************************************)
(* What the operators on a coverage record compute, for every width of     *)
(* height: an empty record covers nothing, contains() is pointwise,        *)
(* cover() adds exactly its interval and keeps the record valid,           *)
(* uncovered() plans exactly what is missing.  With that, no sequence of   *)
(* completions, floors and markers leaves a record that disagrees with the *)
(* set of completed heights (CoverageMachine), and the store keeps its     *)
(* promises for every set of domains, hashes and heights, whatever its     *)
(* callers do (IndexStore).                                                *)
(***************************************************************************)
EXTENDS CoverageMachine, IndexStore, WellFoundedInduction, TLAPS

\* A record without bounds covers nothing, and passes validation.
LEMMA EmptyCoverageFacts ==
    ASSUME NEW g \in Nat, NEW s \in Height
    PROVE  /\ EmptyCoverage(g, s) \in CoverageRecord
           /\ ValidCoverage(EmptyCoverage(g, s))
           /\ Covered(EmptyCoverage(g, s)) = {}
  BY U64MaxAssumption
     DEF EmptyCoverage, CoverageRecord, ValidCoverage, Covered, Contains,
         Height, OptHeight, Interval, None

\* contains() on an interval is contains() on each of its heights.
LEMMA ContainsIsPointwise ==
    ASSUME NEW c \in CoverageRecord, ValidCoverage(c), NEW a \in Height, NEW b \in Height
    PROVE  Contains(c, a, b) <=> a <= b /\ a .. b \subseteq Covered(c)
  <1> USE U64MaxAssumption DEF Height
  <1>1. ASSUME Contains(c, a, b), NEW n \in a .. b PROVE n \in Covered(c)
    <2>1. n \in Height
      BY <1>1
    <2>2. c.low \in Int /\ c.high \in Int /\ \A g \in c.gaps : g.lo \in Int /\ g.hi \in Int
      BY DEF CoverageRecord, OptHeight, Interval, None
    <2>3. Contains(c, n, n)
      BY <1>1, <2>1, <2>2 DEF Contains
    <2> QED BY <2>1, <2>3 DEF Covered
  <1>2. ASSUME a <= b, a .. b \subseteq Covered(c) PROVE Contains(c, a, b)
    <2>1. a \in Covered(c) /\ b \in Covered(c)
      BY <1>2
    <2>2. c.low # None /\ c.low <= a /\ c.high # None /\ c.high >= b
      BY <2>1 DEF Covered, Contains
    <2>3. ASSUME NEW g \in c.gaps, g.lo <= b, g.hi >= a PROVE FALSE
      <3>1. g.lo \in Height /\ g.hi \in Height /\ g.lo <= g.hi
        BY DEF CoverageRecord, Interval, ValidCoverage
      <3> DEFINE n == IF g.lo >= a THEN g.lo ELSE a
      <3>2. n \in a .. b /\ g.lo <= n /\ n <= g.hi
        BY <1>2, <2>3, <3>1
      <3>3. n \in Covered(c)
        BY <1>2, <3>2
      <3> QED BY <3>2, <3>3 DEF Covered, Contains
    <2> QED BY <1>2, <2>2, <2>3 DEF Contains
  <1> QED BY <1>1, <1>2 DEF Contains

\* The shape of every gap after cover(): an old or opened gap that the interval
\* does not touch, or one of the two ends it leaves of a gap it cuts.
LEMMA CarvedGap ==
    ASSUME NEW G, NEW a, NEW b, NEW g \in Carve(G, a, b)
    PROVE  \/ g \in G /\ (g.hi < a \/ g.lo > b)
           \/ \E h \in G : ~ (h.hi < a \/ h.lo > b) /\ h.lo < a /\ g = [lo |-> h.lo, hi |-> a - 1]
           \/ \E h \in G : ~ (h.hi < a \/ h.lo > b) /\ h.hi > b /\ g = [lo |-> b + 1, hi |-> h.hi]
  BY DEF Carve

\* Before the interval is taken out, old and opened gaps are well placed
\* inside the widened bounds and apart from each other.
LEMMA WidenedGaps ==
    ASSUME NEW c \in CoverageRecord, ValidCoverage(c), c.low # None,
           NEW a \in Height, NEW b \in Height, a <= b
    PROVE  LET G == c.gaps \cup OpenedGaps(c, a, b)
           IN  /\ G \subseteq Interval
               /\ \A g \in G : /\ g.lo <= g.hi
                               /\ Smaller(c.low, a) < g.lo
                               /\ g.hi < Larger(c.high, b)
               /\ \A g, h \in G : g # h /\ g.lo <= h.lo => SatAdd(g.hi, 1) < h.lo
  <1> DEFINE G == c.gaps \cup OpenedGaps(c, a, b)
  <1>1. c.low \in Height /\ c.high \in Height /\ c.high # None /\ c.low <= c.high
    BY U64MaxAssumption DEF CoverageRecord, ValidCoverage, OptHeight, None, Height
  <1>2. \A g \in c.gaps : /\ g \in Interval /\ g.lo \in Height /\ g.hi \in Height
                          /\ g.lo <= g.hi /\ c.low < g.lo /\ g.hi < c.high
    BY <1>1 DEF CoverageRecord, ValidCoverage, Interval
  <1>3. ASSUME NEW g \in OpenedGaps(c, a, b)
        PROVE  \/ /\ g = [lo |-> c.high + 1, hi |-> a - 1]
                  /\ c.high + 1 < a
               \/ /\ g = [lo |-> b + 1, hi |-> c.low - 1]
                  /\ b + 1 < c.low
    BY <1>1, U64MaxAssumption DEF OpenedGaps, SatAdd, Height
  <1>4. \A g \in OpenedGaps(c, a, b) :
           /\ g \in Interval /\ g.lo \in Height /\ g.hi \in Height /\ g.lo <= g.hi
           /\ \/ c.high < g.lo /\ g.lo = c.high + 1 /\ g.hi < a /\ c.high < a
              \/ g.hi < c.low /\ g.hi = c.low - 1 /\ b < g.lo /\ b < c.low
    BY <1>1, <1>3, U64MaxAssumption DEF Interval, Height
  <1>5. G \subseteq Interval
    BY <1>2, <1>4
  <1>6. ASSUME NEW g \in G
        PROVE  g.lo <= g.hi /\ Smaller(c.low, a) < g.lo /\ g.hi < Larger(c.high, b)
    BY <1>1, <1>2, <1>4 DEF Smaller, Larger, Height
  <1>7. ASSUME NEW g \in G, NEW h \in G, g # h, g.lo <= h.lo
        PROVE  SatAdd(g.hi, 1) < h.lo
    <2>1. CASE g \in c.gaps /\ h \in c.gaps
      BY <2>1, <1>7 DEF ValidCoverage
    <2>2. CASE g \in c.gaps /\ h \in OpenedGaps(c, a, b)
      BY <2>2, <1>7, <1>1, <1>2, <1>4, U64MaxAssumption DEF SatAdd, Height
    <2>3. CASE g \in OpenedGaps(c, a, b) /\ h \in c.gaps
      BY <2>3, <1>7, <1>1, <1>2, <1>4, U64MaxAssumption DEF SatAdd, Height
    <2>4. CASE g \in OpenedGaps(c, a, b) /\ h \in OpenedGaps(c, a, b)
      <3>1. ~ (c.high + 1 < a /\ b + 1 < c.low)
        BY <1>1 DEF Height
      <3>2. g = h
        BY <2>4, <3>1, <1>3
      <3> QED BY <3>2, <1>7
    <2> QED BY <2>1, <2>2, <2>3, <2>4
  <1> HIDE DEF G
  <1> QED BY <1>5, <1>6, <1>7 DEF G

\* cover() keeps a record valid and adds exactly the heights of the interval.
LEMMA CoverFacts ==
    ASSUME NEW c \in CoverageRecord, ValidCoverage(c),
           NEW a \in Height, NEW b \in Height, a <= b
    PROVE  /\ Cover(c, a, b) \in CoverageRecord
           /\ ValidCoverage(Cover(c, a, b))
           /\ Covered(Cover(c, a, b)) = Covered(c) \cup (a .. b)
           /\ Cover(c, a, b).gen = c.gen
           /\ Cover(c, a, b).start = c.start
           /\ Cover(c, a, b).floor = c.floor
  <1>1. CASE Contains(c, a, b)
    BY <1>1, ContainsIsPointwise DEF Cover
  <1>2. CASE ~ Contains(c, a, b) /\ c.low = None
    <2>1. c.high = None /\ c.gaps = {}
      BY <1>2 DEF ValidCoverage, CoverageRecord
    <2>2. Cover(c, a, b) = [c EXCEPT !.low = a, !.high = b]
      BY <1>2 DEF Cover
    <2>3. Cover(c, a, b) \in CoverageRecord
      BY <2>1, <2>2 DEF CoverageRecord, OptHeight
    <2>4. ValidCoverage(Cover(c, a, b))
      BY <2>1, <2>2, U64MaxAssumption DEF CoverageRecord, ValidCoverage, Height, None
    <2>5. Covered(c) = {}
      BY <1>2 DEF Covered, Contains
    <2>6. \A n \in Height : n \in Covered(Cover(c, a, b)) <=> n \in a .. b
      BY <2>1, <2>2, U64MaxAssumption DEF CoverageRecord, Covered, Contains, Height, None
    <2>7. Covered(Cover(c, a, b)) = a .. b
      <3>1. Covered(Cover(c, a, b)) \subseteq Height
        BY DEF Covered
      <3>2. a .. b \subseteq Height
        BY U64MaxAssumption DEF Height
      <3> QED BY <2>6, <3>1, <3>2
    <2> QED BY <2>2, <2>3, <2>4, <2>5, <2>7 DEF CoverageRecord
  <1>3. CASE ~ Contains(c, a, b) /\ c.low # None
    <2> DEFINE G == c.gaps \cup OpenedGaps(c, a, b)
    <2> DEFINE N == Carve(G, a, b)
    <2> DEFINE lo == Smaller(c.low, a)
    <2> DEFINE hi == Larger(c.high, b)
    <2>1. c.low \in Height /\ c.high \in Height /\ c.high # None /\ c.low <= c.high
      BY <1>3, U64MaxAssumption DEF CoverageRecord, ValidCoverage, OptHeight, None, Height
    <2>2. Cover(c, a, b) = [c EXCEPT !.gaps = N, !.low = lo, !.high = hi]
      BY <1>3, <2>1 DEF Cover
    <2>3. /\ G \subseteq Interval
          /\ \A g \in G : g.lo <= g.hi /\ lo < g.lo /\ g.hi < hi
          /\ \A g, h \in G : g # h /\ g.lo <= h.lo => SatAdd(g.hi, 1) < h.lo
      BY <1>3, WidenedGaps
    <2>4. lo \in Height /\ hi \in Height /\ lo <= hi /\ lo <= a /\ b <= hi
            /\ lo <= c.low /\ c.high <= hi
      BY <2>1 DEF Smaller, Larger, Height
    <2>5. \A g \in G : g.lo \in Height /\ g.hi \in Height
      BY <2>3 DEF Interval
    <2>6. ASSUME NEW n \in Height, lo <= n, n <= hi
          PROVE  (\E g \in OpenedGaps(c, a, b) : g.lo <= n /\ n <= g.hi)
                    <=> (n \notin c.low .. c.high /\ n \notin a .. b)
      <3> DEFINE above == [lo |-> c.high + 1, hi |-> a - 1]
      <3> DEFINE below == [lo |-> b + 1, hi |-> c.low - 1]
      <3>1. above \in OpenedGaps(c, a, b) <=> c.high + 1 < a
        BY <2>1, U64MaxAssumption DEF OpenedGaps, SatAdd, Height
      <3>2. below \in OpenedGaps(c, a, b) <=> b + 1 < c.low
        BY <2>1, U64MaxAssumption DEF OpenedGaps, SatAdd, Height
      <3>3. \A g \in OpenedGaps(c, a, b) : g = above \/ g = below
        BY DEF OpenedGaps
      <3>4. above.lo = c.high + 1 /\ above.hi = a - 1 /\ below.lo = b + 1 /\ below.hi = c.low - 1
        OBVIOUS
      <3> HIDE DEF above, below
      <3>5. (\E g \in OpenedGaps(c, a, b) : g.lo <= n /\ n <= g.hi)
               <=> \/ c.high + 1 < a /\ c.high + 1 <= n /\ n <= a - 1
                   \/ b + 1 < c.low /\ b + 1 <= n /\ n <= c.low - 1
        BY <3>1, <3>2, <3>3, <3>4
      <3>6. (lo = c.low \/ lo = a) /\ (hi = c.high \/ hi = b)
        BY DEF Smaller, Larger
      <3> QED BY <3>5, <3>6, <2>1, <2>6 DEF Height
    <2> HIDE DEF lo, hi, N, G
    <2>7. \A g \in N : \E h \in G :
             /\ g.lo \in Height /\ g.hi \in Height /\ g \in Interval /\ g.lo <= g.hi
             /\ h.lo <= g.lo /\ g.hi <= h.hi
             /\ g.hi < a \/ g.lo > b
             /\ g.lo = h.lo \/ g.lo = b + 1
             /\ g.hi = h.hi \/ g.hi = a - 1
      BY <2>3, <2>5, CarvedGap, U64MaxAssumption DEF N, Interval, Height
    <2>8. ASSUME NEW g \in N PROVE g.lo <= g.hi /\ lo < g.lo /\ g.hi < hi
      BY <2>3, <2>4, <2>5, <2>7 DEF Height
    <2>9. ASSUME NEW g \in N, NEW h \in N, g # h, g.lo <= h.lo
          PROVE  SatAdd(g.hi, 1) < h.lo
      <3>1. PICK g0 \in G :
             /\ g.lo \in Height /\ g.hi \in Height /\ g \in Interval /\ g.lo <= g.hi
             /\ g0.lo <= g.lo /\ g.hi <= g0.hi
             /\ g.hi < a \/ g.lo > b
             /\ g.lo = g0.lo \/ g.lo = b + 1
             /\ g.hi = g0.hi \/ g.hi = a - 1
        BY <2>7
      <3>2. PICK h0 \in G :
             /\ h.lo \in Height /\ h.hi \in Height /\ h \in Interval /\ h.lo <= h.hi
             /\ h0.lo <= h.lo /\ h.hi <= h0.hi
             /\ h.hi < a \/ h.lo > b
             /\ h.lo = h0.lo \/ h.lo = b + 1
             /\ h.hi = h0.hi \/ h.hi = a - 1
        BY <2>7
      <3>3. CASE g0 # h0
        BY <3>1, <3>2, <3>3, <2>3, <2>5, <2>9, U64MaxAssumption DEF SatAdd, Height
      <3>4. CASE g0 = h0
        <4>1. g.lo # h.lo \/ g.hi # h.hi
          BY <3>1, <3>2, <2>9 DEF Interval
        <4>2. g.hi < a /\ h.lo > b
          BY <3>1, <3>2, <3>4, <4>1, <2>5, <2>9 DEF Height
        <4> QED BY <3>1, <3>2, <4>2, U64MaxAssumption DEF SatAdd, Height
      <3> QED BY <3>3, <3>4
    <2>10. Cover(c, a, b) \in CoverageRecord
      BY <2>2, <2>4, <2>7 DEF CoverageRecord, OptHeight
    <2>11. ValidCoverage(Cover(c, a, b))
      BY <2>2, <2>4, <2>8, <2>9, U64MaxAssumption DEF CoverageRecord, ValidCoverage, None, Height
    <2>12. ASSUME NEW n \in Height
           PROVE  (\E g \in N : g.lo <= n /\ n <= g.hi)
                     <=> ((\E g \in G : g.lo <= n /\ n <= g.hi) /\ n \notin a .. b)
      <3>1. ASSUME NEW g \in N, g.lo <= n, n <= g.hi
            PROVE  (\E h \in G : h.lo <= n /\ n <= h.hi) /\ n \notin a .. b
        BY <3>1, <2>5, <2>7, U64MaxAssumption DEF Height
      <3>2. ASSUME NEW g \in G, g.lo <= n, n <= g.hi, n \notin a .. b
            PROVE  \E h \in N : h.lo <= n /\ n <= h.hi
        <4>1. g.lo \in Int /\ g.hi \in Int /\ n \in Int /\ a \in Int /\ b \in Int
          BY <2>5 DEF Height
        <4>2. CASE g.hi < a \/ g.lo > b
          <5>1. g \in N
            BY <4>2 DEF N, Carve
          <5> QED BY <5>1, <3>2
        <4>3. CASE ~ (g.hi < a \/ g.lo > b) /\ n < a
          <5>1. [lo |-> g.lo, hi |-> a - 1] \in N
            BY <4>3, <4>1, <3>2 DEF N, Carve
          <5> WITNESS [lo |-> g.lo, hi |-> a - 1] \in N
          <5> QED BY <4>1, <4>3, <3>2
        <4>4. CASE ~ (g.hi < a \/ g.lo > b) /\ n > b
          <5>1. [lo |-> b + 1, hi |-> g.hi] \in N
            BY <4>4, <4>1, <3>2 DEF N, Carve
          <5> WITNESS [lo |-> b + 1, hi |-> g.hi] \in N
          <5> QED BY <4>1, <4>4, <3>2
        <4> QED BY <4>1, <4>2, <4>3, <4>4, <3>2
      <3> QED BY <3>1, <3>2
    <2>13. ASSUME NEW n \in Height
           PROVE  n \in Covered(Cover(c, a, b)) <=> n \in Covered(c) \/ n \in a .. b
      <3>1. n \in Covered(Cover(c, a, b))
               <=> lo <= n /\ n <= hi /\ ~ (\E g \in N : g.lo <= n /\ n <= g.hi)
        BY <2>2, <2>4, U64MaxAssumption DEF Covered, Contains, CoverageRecord, None, Height
      <3>2. n \in Covered(c)
               <=> c.low <= n /\ n <= c.high /\ ~ (\E g \in c.gaps : g.lo <= n /\ n <= g.hi)
        <4>1. \A g \in c.gaps : g.lo \in Height /\ g.hi \in Height
          BY DEF CoverageRecord, Interval
        <4> QED BY <2>1, <1>3, <4>1, U64MaxAssumption DEF Covered, Contains, Height
      <3>3. \A g \in c.gaps : c.low < g.lo /\ g.hi < c.high /\ g.lo \in Height /\ g.hi \in Height
        BY DEF ValidCoverage, CoverageRecord, Interval
      <3>4. (\E g \in G : g.lo <= n /\ n <= g.hi)
               <=> \/ \E g \in c.gaps : g.lo <= n /\ n <= g.hi
                   \/ \E g \in OpenedGaps(c, a, b) : g.lo <= n /\ n <= g.hi
        BY DEF G
      <3> QED BY <3>1, <3>2, <3>3, <3>4, <2>1, <2>4, <2>6, <2>12 DEF Height
    <2>14. Covered(Cover(c, a, b)) = Covered(c) \cup (a .. b)
      <3>1. Covered(Cover(c, a, b)) \subseteq Height /\ Covered(c) \subseteq Height
        BY DEF Covered
      <3>2. a .. b \subseteq Height
        BY U64MaxAssumption DEF Height
      <3> QED BY <2>13, <3>1, <3>2
    <2> QED BY <2>2, <2>10, <2>11, <2>14 DEF CoverageRecord
  <1> QED BY <1>1, <1>2, <1>3

\* uncovered() names exactly the eligible heights the record does not cover.
LEMMA UncoveredFacts ==
    ASSUME NEW c \in CoverageRecord, ValidCoverage(c), NEW head \in Height, NEW n \in Height
    PROVE  (\E i \in Uncovered(c, head) : i.lo <= n /\ n <= i.hi)
              <=> /\ n <= head /\ n >= c.start /\ n > c.floor
                  /\ n \notin Covered(c)
  <1> DEFINE start == EligibleStart(c)
  <1> DEFINE middle == {[lo |-> Larger(g.lo, start), hi |-> Smaller(g.hi, head)] : g \in c.gaps}
  <1>1. /\ c.start \in Int /\ c.floor \in Int /\ c.low \in Int /\ c.high \in Int
        /\ head \in Int /\ n \in Int /\ 0 <= n /\ n <= U64Max /\ U64Max \in Int
        /\ c.floor <= U64Max /\ c.high <= U64Max /\ c.floor >= -1 /\ c.start >= 0 /\ head <= U64Max
        /\ \A g \in c.gaps : g.lo \in Int /\ g.hi \in Int
    BY U64MaxAssumption DEF CoverageRecord, OptHeight, Interval, Height, None
  <1>2. start \in Int /\ \A m \in Int : m >= start <=> m >= c.start /\ m > c.floor
    BY <1>1 DEF EligibleStart, Larger, None
  <1>3. CASE c.floor = U64Max \/ start > head
    <2>1. Uncovered(c, head) = {}
      BY <1>3 DEF Uncovered
    <2> QED BY <2>1, <1>1, <1>2, <1>3
  <1>4. CASE ~ (c.floor = U64Max \/ start > head) /\ c.low = None
    <2>1. Uncovered(c, head) = {[lo |-> start, hi |-> head]}
      BY <1>4 DEF Uncovered
    <2>2. n \notin Covered(c)
      BY <1>4 DEF Covered, Contains
    <2> HIDE DEF start
    <2> QED BY <2>1, <2>2, <1>1, <1>2
  <1>5. CASE ~ (c.floor = U64Max \/ start > head) /\ c.low # None
    <2>1. c.high # None /\ c.low <= c.high
      BY <1>5 DEF ValidCoverage
    <2> DEFINE before == [lo |-> start, hi |-> Smaller(head, c.low - 1)]
    <2> DEFINE tail == [lo |-> Larger(c.high + 1, start), hi |-> head]
    <2>2. Uncovered(c, head) = {i \in {before} : start < c.low}
                \cup {i \in middle : i.lo <= i.hi}
                \cup {i \in {tail} : c.high < U64Max /\ i.lo <= i.hi}
      BY <1>5, <2>1 DEF Uncovered
    <2>3. n \in Covered(c)
             <=> c.low <= n /\ n <= c.high /\ ~ (\E g \in c.gaps : g.lo <= n /\ n <= g.hi)
      BY <1>1, <1>5, <2>1 DEF Covered, Contains
    <2>4. \A g \in c.gaps : c.low < g.lo /\ g.hi < c.high
      BY DEF ValidCoverage
    <2>5. before.lo = start /\ before.hi = Smaller(head, c.low - 1)
            /\ tail.lo = Larger(c.high + 1, start) /\ tail.hi = head
      OBVIOUS
    <2> HIDE DEF start, before, tail
    <2>6. (\E i \in middle : i.lo <= i.hi /\ i.lo <= n /\ n <= i.hi)
             <=> n >= start /\ n <= head /\ \E g \in c.gaps : g.lo <= n /\ n <= g.hi
      <3>1. ASSUME NEW i \in middle, i.lo <= n, n <= i.hi
            PROVE  n >= start /\ n <= head /\ \E g \in c.gaps : g.lo <= n /\ n <= g.hi
        <4>1. PICK g \in c.gaps : i = [lo |-> Larger(g.lo, start), hi |-> Smaller(g.hi, head)]
          BY <3>1
        <4>2. i.lo = Larger(g.lo, start) /\ i.hi = Smaller(g.hi, head)
          BY <4>1
        <4> QED BY <3>1, <4>2, <1>1, <1>2 DEF Larger, Smaller
      <3>2. ASSUME NEW g \in c.gaps, g.lo <= n, n <= g.hi, n >= start, n <= head
            PROVE  \E i \in middle : i.lo <= i.hi /\ i.lo <= n /\ n <= i.hi
        <4> DEFINE i == [lo |-> Larger(g.lo, start), hi |-> Smaller(g.hi, head)]
        <4>1. i \in middle
          OBVIOUS
        <4>2. i.lo = Larger(g.lo, start) /\ i.hi = Smaller(g.hi, head)
          OBVIOUS
        <4>3. i.lo <= i.hi /\ i.lo <= n /\ n <= i.hi
          BY <3>2, <4>2, <1>1, <1>2 DEF Larger, Smaller
        <4> HIDE DEF i, middle
        <4> QED BY <4>1, <4>3
      <3> HIDE DEF middle
      <3> QED BY <3>1, <3>2
    <2> HIDE DEF middle
    <2>7. (\E i \in Uncovered(c, head) : i.lo <= n /\ n <= i.hi)
             <=> \/ start < c.low /\ start <= n /\ n <= head /\ n <= c.low - 1
                 \/ \E i \in middle : i.lo <= i.hi /\ i.lo <= n /\ n <= i.hi
                 \/ c.high < U64Max /\ tail.lo <= n /\ n <= head
      BY <2>2, <2>5, <1>1, <1>2 DEF Smaller, Larger
    <2>8. tail.lo <= n <=> c.high + 1 <= n /\ start <= n
      BY <2>5, <1>1, <1>2 DEF Larger
    <2> QED BY <2>1, <2>3, <2>4, <2>6, <2>7, <2>8, <1>1, <1>2, <1>5
  <1> QED BY <1>3, <1>4, <1>5
\* Planned intervals are not empty, lie at or below the head and are disjoint.
LEMMA UncoveredShape ==
    ASSUME NEW c \in CoverageRecord, ValidCoverage(c), NEW head \in Height
    PROVE  /\ \A i \in Uncovered(c, head) :
                 i.lo \in Height /\ i.hi \in Height /\ i.lo <= i.hi /\ i.hi <= head
           /\ \A i, j \in Uncovered(c, head) : i # j => i.hi < j.lo \/ j.hi < i.lo
  <1> DEFINE start == EligibleStart(c)
  <1> DEFINE middle == {[lo |-> Larger(g.lo, start), hi |-> Smaller(g.hi, head)] : g \in c.gaps}
  <1> DEFINE before == [lo |-> start, hi |-> Smaller(head, c.low - 1)]
  <1> DEFINE tail == [lo |-> Larger(c.high + 1, start), hi |-> head]
  <1>1. /\ c.start \in Int /\ c.floor \in Int /\ c.low \in Int /\ c.high \in Int /\ head \in Int
        /\ c.start >= 0 /\ c.floor >= -1 /\ head >= 0 /\ head <= U64Max /\ U64Max \in Int
        /\ c.low >= -1 /\ c.high >= -1
        /\ \A g \in c.gaps : g.lo \in Int /\ g.hi \in Int /\ g.lo >= 0 /\ g.hi >= 0
                             /\ g.hi <= U64Max
    BY U64MaxAssumption DEF CoverageRecord, OptHeight, Interval, Height, None
  <1>2. start \in Int /\ start >= 0
    BY <1>1 DEF EligibleStart, Larger, None
  <1>3. ASSUME NEW i \in Uncovered(c, head), c.low = None \/ c.high = None
        PROVE  i = [lo |-> start, hi |-> head] /\ start <= head
    BY <1>1, <1>2, <1>3 DEF Uncovered
  <1>4. ASSUME NEW i \in Uncovered(c, head), ~ (c.low = None \/ c.high = None)
        PROVE  \/ i = before /\ start < c.low /\ start <= head
               \/ i = tail /\ tail.lo <= head
               \/ \E g \in c.gaps : /\ i.lo = Larger(g.lo, start) /\ i.hi = Smaller(g.hi, head)
                                    /\ i = [lo |-> i.lo, hi |-> i.hi] /\ i.lo <= i.hi
    <2>1. i \in {x \in {before} : start < c.low} \cup {x \in middle : x.lo <= x.hi}
                  \cup {x \in {tail} : c.high < U64Max /\ x.lo <= x.hi}
          /\ ~ (start > head)
      BY <1>4 DEF Uncovered
    <2> QED BY <2>1, <1>1, <1>2
  <1>5. CASE c.low = None \/ c.high = None
    BY <1>1, <1>2, <1>3, <1>5 DEF Height
  <1>6. CASE ~ (c.low = None \/ c.high = None)
    <2>1. c.low <= c.high /\ \A g \in c.gaps : g.lo <= g.hi /\ c.low < g.lo /\ g.hi < c.high
      BY <1>6 DEF ValidCoverage
    <2>2. before.lo = start /\ before.hi = Smaller(head, c.low - 1)
            /\ tail.lo = Larger(c.high + 1, start) /\ tail.hi = head
      OBVIOUS
    <2> HIDE DEF start, before, tail, middle
    <2>3. ASSUME NEW i \in Uncovered(c, head)
          PROVE  i.lo \in Height /\ i.hi \in Height /\ i.lo <= i.hi /\ i.hi <= head
      BY <1>1, <1>2, <1>4, <1>6, <2>1, <2>2 DEF Smaller, Larger, Height
    <2>4. \A g, h \in c.gaps : g # h => g.hi < h.lo \/ h.hi < g.lo
      BY <1>1, U64MaxAssumption DEF ValidCoverage, SatAdd
    <2>5. ASSUME NEW i \in Uncovered(c, head), NEW j \in Uncovered(c, head), i # j
          PROVE  i.hi < j.lo \/ j.hi < i.lo
      BY <1>1, <1>2, <1>4, <1>6, <2>1, <2>2, <2>4, <2>5 DEF Smaller, Larger
    <2> QED BY <2>3, <2>5
  <1> QED BY <1>5, <1>6

\* A nonempty set of naturals has a least element.  (The theorem of the library that
\* says so of a predicate cannot be instantiated; this one follows from the
\* well-foundedness of <.)
LEMMA LeastExists ==
    ASSUME NEW S \in SUBSET Nat, S # {}
    PROVE  \E n \in S : \A m \in S : n <= m
  <1> DEFINE R == {ss \in Nat \X Nat : ss[1] < ss[2]}
  <1>1. IsWellFoundedOn(R, Nat)
    BY NatLessThanWellFounded, Zenon DEF OpToRel
  <1>2. PICK n \in S : \A m \in S : ~ (<<m, n>> \in R)
    <2> HIDE DEF R
    <2> QED BY <1>1, WFMin
  <1>3. ASSUME NEW m \in S PROVE n <= m
    <2>1. m \in Nat /\ n \in Nat /\ ~ (<<m, n>> \in R)
      BY <1>2
    <2>2. m < n => <<m, n>> \in R
      BY <2>1
    <2> QED BY <2>1, <2>2
  <1> QED BY <1>3

LEMMA LeastFacts ==
    ASSUME NEW S \in SUBSET Nat, S # {}
    PROVE  Least(S) \in S /\ Least(S) \in Nat /\ \A m \in S : Least(S) <= m
  BY LeastExists DEF Least

\* The interval a vector has first is one of its intervals, and the lowest.
LEMMA FirstFacts ==
    ASSUME NEW S, S # {}, \A i \in S : i.lo \in Nat
    PROVE  First(S) \in S /\ \A j \in S : First(S).lo <= j.lo
  <1> DEFINE L == {i.lo : i \in S}
  <1>1. L \in SUBSET Nat /\ L # {}
    OBVIOUS
  <1>2. PICK n \in L : \A m \in L : n <= m
    BY <1>1, LeastExists
  <1>3. \E i \in S : \A j \in S : i.lo <= j.lo
    BY <1>2
  <1> QED BY <1>3 DEF First

\* retryable_range is the first maximal run of unmarked heights of its interval, and
\* nothing only when every height is marked.
LEMMA RetryableFacts ==
    ASSUME NEW marked \in SUBSET Height, NEW from \in Height, NEW through \in Height, from <= through
    PROVE  LET free == (from .. through) \ marked
               R == RetryableRange(marked, from, through)
           IN  /\ free = {} => R = {}
               /\ free # {} => \E r \in R : /\ R = {r}
                                            /\ r.lo = Least(free)
                                            /\ r.lo \in from .. through /\ r.hi \in r.lo .. through
                                            /\ r.lo .. r.hi \subseteq free
                                            /\ r.hi + 1 \notin free
  <1> DEFINE free == (from .. through) \ marked
  <1> DEFINE R == RetryableRange(marked, from, through)
  <1> DEFINE successors == {n \in from + 1 .. through : n - 1 \in marked /\ n \notin marked}
  <1> DEFINE starts == IF from \in marked THEN successors ELSE {from}
  <1>1. from \in Nat /\ through \in Nat /\ free \in SUBSET Nat /\ starts \in SUBSET Nat
    BY DEF Height
  <1>2. starts \subseteq free
    BY <1>1
  <1>3. CASE free = {}
    <2>1. starts = {}
      BY <1>2, <1>3
    <2>2. R = {}
      BY <2>1 DEF RetryableRange
    <2> QED BY <1>3, <2>2
  <1>4. CASE free # {}
    <2> DEFINE m == Least(free)
    <2>1. m \in free /\ m \in Nat /\ \A n \in free : m <= n
      BY <1>1, <1>4, LeastFacts
    <2> HIDE DEF m
    <2>2. m \in starts
      <3>1. CASE from \in marked
        <4>1. m # from /\ m \in from + 1 .. through
          BY <2>1, <3>1, <1>1
        <4>2. m - 1 \notin free /\ m - 1 \in from .. through
          BY <2>1, <4>1, <1>1
        <4> QED BY <3>1, <4>1, <4>2, <2>1
      <3>2. CASE from \notin marked
        <4>1. from \in free
          BY <3>2, <1>1
        <4>2. m = from
          BY <2>1, <4>1, <1>1
        <4> QED BY <3>2, <4>2
      <3> QED BY <3>1, <3>2
    <2>3. Least(starts) = m
      <3>1. Least(starts) \in starts /\ Least(starts) <= m /\ Least(starts) \in Nat
        BY <1>1, <2>2, LeastFacts
      <3>2. m <= Least(starts)
        BY <3>1, <1>2, <2>1
      <3> QED BY <3>1, <3>2, <2>1
    <2> DEFINE blocked == {n \in marked : m < n /\ n <= through}
    <2> DEFINE end == IF blocked = {} THEN through ELSE Least(blocked) - 1
    <2>4. R = {[lo |-> m, hi |-> end]}
      <3>1. starts # {}
        BY <2>2
      <3> HIDE DEF R
      <3>2. R = LET start == Least(starts)
                    b == {n \in marked : start < n /\ n <= through}
                    e == IF b = {} THEN through ELSE Least(b) - 1
                IN  {[lo |-> start, hi |-> e]}
        BY <3>1 DEF R, RetryableRange
      <3> HIDE DEF starts
      <3> QED BY <3>2, <2>3
    <2>5. blocked \in SUBSET Nat
      <3>1. Height \subseteq Nat
        BY U64MaxAssumption DEF Height
      <3> QED BY <3>1
    <2>6. blocked # {} => Least(blocked) \in blocked /\ \A n \in blocked : Least(blocked) <= n
      BY <2>5, LeastFacts
    <2>7. end \in m .. through /\ end + 1 \notin free
      BY <2>1, <2>5, <2>6, <1>1
    <2>8. ASSUME NEW n \in m .. end PROVE n \in free
      <3>1. n \in from .. through
        BY <2>1, <2>7, <1>1
      <3>2. CASE n \in marked
        <4>1. n # m
          BY <3>2, <2>1
        <4>2. n \in blocked
          BY <3>1, <3>2, <4>1, <2>1, <1>1
        <4>3. Least(blocked) <= n /\ end = Least(blocked) - 1 /\ Least(blocked) \in Nat
          BY <4>2, <2>5, <2>6
        <4>4. n \in Nat /\ n <= end
          BY <3>1, <2>7, <2>1, <1>1
        <4> QED BY <4>3, <4>4
      <3> QED BY <3>1, <3>2
    <2> HIDE DEF end, free, R
    <2>9. [lo |-> m, hi |-> end] \in R
      BY <2>4
    <2>10. m \in from .. through
      BY <2>1 DEF free
    <2> QED BY <2>4, <2>7, <2>8, <2>9, <2>10, <1>4 DEF m, free, R
  <1> HIDE DEF free, R
  <1> QED BY <1>3, <1>4 DEF free, R

\* subtract_points leaves exactly the heights that are not taken out.
LEMMA SubtractFacts ==
    ASSUME NEW points \in SUBSET Height, NEW from \in Height, NEW through \in Height
    PROVE  UNION {i.lo .. i.hi : i \in SubtractPoints(from, through, points)}
              = (from .. through) \ points
  <1> DEFINE P == {p \in points : from <= p /\ p <= through}
  <1> DEFINE begins == {n \in {from} \cup {p + 1 : p \in P \ {U64Max}} : n <= through /\ n \notin P}
  <1> DEFINE after(n) == {p \in P : p > n}
  <1> DEFINE hi(n) == IF after(n) = {} THEN through ELSE Least(after(n)) - 1
  <1> DEFINE free == (from .. through) \ points
  <1>1. from \in Nat /\ through \in Nat /\ through <= U64Max /\ U64Max \in Nat
    BY U64MaxAssumption DEF Height
  <1>2. P \in SUBSET Nat /\ begins \in SUBSET Nat /\ \A n : after(n) \in SUBSET Nat
    <2>1. P \in SUBSET Nat
      <3>1. Height \subseteq Nat
        BY U64MaxAssumption DEF Height
      <3> QED BY <3>1
    <2>2. {from} \cup {p + 1 : p \in P \ {U64Max}} \in SUBSET Nat
      BY <1>1, <2>1
    <2> QED BY <2>1, <2>2
  <1>3. SubtractPoints(from, through, points) = {[lo |-> n, hi |-> hi(n)] : n \in begins}
    BY DEF SubtractPoints
  <1>4. UNION {i.lo .. i.hi : i \in SubtractPoints(from, through, points)}
           = UNION {n .. hi(n) : n \in begins}
    <2> HIDE DEF begins, hi
    <2>1. \A i \in SubtractPoints(from, through, points) : \E n \in begins : i.lo = n /\ i.hi = hi(n)
      BY <1>3
    <2>2. \A n \in begins : \E i \in SubtractPoints(from, through, points) : i.lo = n /\ i.hi = hi(n)
      <3> SUFFICES ASSUME NEW n \in begins
                   PROVE  \E i \in SubtractPoints(from, through, points) : i.lo = n /\ i.hi = hi(n)
        OBVIOUS
      <3>1. [lo |-> n, hi |-> hi(n)] \in SubtractPoints(from, through, points)
        BY <1>3
      <3> QED BY <3>1
    <2> QED BY <2>1, <2>2
  <1>5. \A n : after(n) # {} => Least(after(n)) \in after(n) /\ \A p \in after(n) : Least(after(n)) <= p
    BY <1>2, LeastFacts
  <1>6. ASSUME NEW n \in begins, NEW x \in n .. hi(n) PROVE x \in free
    <2>1. n \in Nat /\ from <= n /\ n <= through /\ n \notin P
      BY <1>1, <1>2
    <2>2. CASE after(n) = {}
      <3>1. x \in from .. through /\ x >= n
        BY <2>1, <2>2, <1>1, <1>6
      <3> QED BY <3>1, <2>1, <2>2, <1>1
    <2>3. CASE after(n) # {}
      <3> DEFINE p == Least(after(n))
      <3>1. p \in Nat /\ p <= through /\ \A q \in after(n) : p <= q
        BY <2>3, <1>2, <1>5
      <3> HIDE DEF p
      <3>2. hi(n) = p - 1
        BY <2>3 DEF p
      <3>3. x \in from .. through /\ x >= n /\ x < p /\ x \in Nat
        BY <3>1, <3>2, <2>1, <1>1, <1>6
      <3>4. x \in points => x = n \/ x \in after(n)
        BY <3>3, <2>1, <1>1
      <3>5. x \notin points
        BY <3>1, <3>3, <3>4, <2>1, <1>1
      <3> QED BY <3>3, <3>5
    <2> QED BY <2>2, <2>3
  <1>7. ASSUME NEW x \in free PROVE \E n \in begins : x \in n .. hi(n)
    <2> DEFINE Y == {y \in from .. x : y .. x \subseteq free}
    <2>1. x \in Nat /\ from <= x /\ x <= through /\ x \notin points
      BY <1>1
    <2>2. x \in Y /\ Y \in SUBSET Nat
      BY <2>1, <1>1
    <2>3. PICK y \in Y : \A z \in Y : y <= z
      BY <2>2, LeastExists
    <2>4. y \in Nat /\ from <= y /\ y <= x /\ y .. x \subseteq free
      BY <2>3, <2>1, <1>1
    <2>5. y \in free
      BY <2>4, <2>1
    <2>6. y = from \/ y - 1 \in P
      <3> SUFFICES ASSUME y # from, y - 1 \notin P PROVE FALSE
        OBVIOUS
      <3>1. y - 1 \in from .. x /\ y - 1 \in Nat /\ y - 1 <= through
        BY <2>1, <2>4, <1>1
      <3>2. y - 1 \in free
        BY <3>1, <2>1, <1>1
      <3>3. \A z \in (y - 1) .. x : z = y - 1 \/ z \in y .. x
        BY <2>4, <2>1
      <3>4. y - 1 \in Y
        BY <3>1, <3>2, <3>3, <2>4
      <3> QED BY <3>4, <2>3, <2>4
    <2>7. y \in begins
      <3>1. y = from \/ \E p \in P \ {U64Max} : y = p + 1
        BY <2>6, <2>4, <2>1, <1>1
      <3> QED BY <3>1, <2>5, <1>1
    <2>8. \A p \in after(y) : p > x
      BY <2>4, <2>1, <1>1, <1>2
    <2>9. x <= hi(y) /\ hi(y) \in Int
      <3>1. CASE after(y) = {}
        BY <3>1, <2>1, <1>1
      <3>2. CASE after(y) # {}
        <4> DEFINE p == Least(after(y))
        <4>1. p \in after(y) /\ p \in Nat
          BY <3>2, <1>2, <1>5
        <4>2. p > x
          BY <4>1, <2>8
        <4>3. hi(y) = p - 1
          BY <3>2
        <4> HIDE DEF p, hi
        <4> QED BY <4>1, <4>2, <4>3, <2>1
      <3> QED BY <3>1, <3>2
    <2>10. x \in y .. hi(y)
      BY <2>9, <2>4, <2>1
    <2> HIDE DEF begins, hi
    <2> QED BY <2>7, <2>10
  <1> HIDE DEF begins, hi, free
  <1> QED BY <1>4, <1>6, <1>7 DEF free
-----------------------------------------------------------------------------
(* One coverage record *)

\* The record, its validity and its agreement with the reference set are
\* inductive together.
CoverageInv ==
    /\ MachineTypeOK
    /\ ValidCoverage(persisted)
    /\ Covered(persisted) = reference

LEMMA CoverageInvariance == MachineSpec => []CoverageInv
  <1>1. MachineInit => CoverageInv
    BY EmptyCoverageFacts, U64MaxAssumption DEF MachineInit, CoverageInv, MachineTypeOK
  <1>2. CoverageInv /\ [MachineNext]_machineVars => CoverageInv'
    <2> SUFFICES ASSUME CoverageInv, [MachineNext]_machineVars PROVE CoverageInv'
      OBVIOUS
    <2> USE DEF CoverageInv, MachineTypeOK
    <2>1. ASSUME NEW a \in Height, NEW b \in Height, CompleteInterval(a, b)
          PROVE  CoverageInv'
      <3>1. a <= b
        BY <2>1, U64MaxAssumption DEF CompleteInterval, CoverRejected, Height
      <3>2. a .. b \subseteq Height
        BY U64MaxAssumption DEF Height
      <3> QED BY <2>1, <3>1, <3>2, CoverFacts DEF CompleteInterval
    <2>2. ASSUME NEW f \in OptHeight, MoveFloor(f)
          PROVE  CoverageInv'
      <3>1. persisted' \in CoverageRecord
        BY <2>2 DEF MoveFloor, CoverageRecord
      <3>2. ValidCoverage(persisted')
        BY <2>2 DEF MoveFloor, CoverageRecord, ValidCoverage
      <3>3. Covered(persisted') = Covered(persisted)
        BY <2>2 DEF MoveFloor, CoverageRecord, Covered, Contains
      <3> QED BY <2>2, <3>1, <3>2, <3>3 DEF MoveFloor
    <2>3. ASSUME NEW n \in Height, Mark(n)
          PROVE  CoverageInv'
      BY <2>3 DEF Mark
    <2>4. CASE UNCHANGED machineVars
      BY <2>4 DEF machineVars
    <2> QED BY <2>1, <2>2, <2>3, <2>4 DEF MachineNext
  <1> QED BY <1>1, <1>2, PTL DEF MachineSpec

\* Every record the store can write passes the validation of the next read,
\* whatever the width of a height: completions in any order, floors and
\* markers never make the indexer stop on its own coverage.
THEOREM CoverageAlwaysReadable == MachineSpec => []PersistedCoverageAccepted
  BY CoverageInvariance, PTL DEF CoverageInv, PersistedCoverageAccepted

\* The record means exactly the completed heights, interval by interval.
THEOREM CoverageMeansCompleted == MachineSpec => []CoversExactly
  <1>1. CoverageInv => CoversExactly
    BY ContainsIsPointwise DEF CoverageInv, MachineTypeOK, CoversExactly
  <1> QED BY <1>1, CoverageInvariance, PTL

\* The planner never loses a missing height and never repeats a covered one.
THEOREM PlannerIsExact == MachineSpec => []UncoveredExact
  <1>1. CoverageInv => UncoveredExact
    <2> SUFFICES ASSUME CoverageInv, NEW head \in Height
                 PROVE  UNION {i.lo .. i.hi : i \in Uncovered(persisted, head)}
                          = {n \in Height : /\ n <= head /\ n >= persisted.start
                                            /\ n > persisted.floor /\ n \notin reference}
      BY DEF UncoveredExact
    <2> DEFINE planned == UNION {i.lo .. i.hi : i \in Uncovered(persisted, head)}
               Planned(n) == /\ n <= head /\ n >= persisted.start
                             /\ n > persisted.floor /\ n \notin reference
    <2>1. ASSUME NEW i \in Uncovered(persisted, head)
          PROVE  i.lo \in Int /\ i.hi \in Int /\ i.lo >= 0 /\ i.hi <= head
      BY U64MaxAssumption
         DEF Uncovered, CoverageInv, MachineTypeOK, CoverageRecord, ValidCoverage, OptHeight, Interval,
             Height, None, Smaller, Larger, EligibleStart
    <2>2. planned \subseteq Height
      BY <2>1, U64MaxAssumption DEF Height
    <2>3. ASSUME NEW n \in Height
          PROVE  n \in planned <=> \E i \in Uncovered(persisted, head) : i.lo <= n /\ n <= i.hi
      BY <2>1 DEF Height
    <2>4. ASSUME NEW n \in Height
          PROVE  n \in planned <=> Planned(n)
      BY <2>3, UncoveredFacts DEF CoverageInv, MachineTypeOK
    <2> HIDE DEF planned
    <2>5. planned = {n \in Height : Planned(n)}
      BY <2>2, <2>4
    <2> QED BY <2>5 DEF planned
  <1> QED BY <1>1, CoverageInvariance, PTL

\* The intervals handed to the lanes overlap nowhere, an absence marker neither hides
\* the heights behind it nor is retried, and subtracting points leaves the rest.
THEOREM PlansAreExact == MachineSpec => []PlanningExact
  <1>1. CoverageInv => PlanningExact
    <2> SUFFICES ASSUME CoverageInv PROVE PlanningExact
      OBVIOUS
    <2> USE DEF CoverageInv, MachineTypeOK
    <2>1. \A head \in Height : \A i, j \in Uncovered(persisted, head) :
             i.lo <= i.hi /\ (i # j => i.hi < j.lo \/ j.hi < i.lo)
      BY UncoveredShape
    <2>2. ASSUME NEW from \in Height, NEW through \in from .. U64Max
          PROVE  LET free == (from .. through) \ absent
                     R == RetryableRange(absent, from, through)
                 IN  /\ free = {} => R = {}
                     /\ free # {} => \E r \in R : /\ R = {r}
                                                  /\ r.lo = Least(free)
                                                  /\ r.lo .. r.hi \subseteq free
                                                  /\ r.hi + 1 \notin free
                     /\ free = UNION {i.lo .. i.hi : i \in SubtractPoints(from, through, absent)}
      <3>1. through \in Height /\ from <= through
        BY U64MaxAssumption DEF Height
      <3> DEFINE free == (from .. through) \ absent
      <3> DEFINE R == RetryableRange(absent, from, through)
      <3>2. /\ free = {} => R = {}
            /\ free # {} => \E r \in R : /\ R = {r}
                                         /\ r.lo = Least(free)
                                         /\ r.lo .. r.hi \subseteq free
                                         /\ r.hi + 1 \notin free
        <4>1. absent \in SUBSET Height
          OBVIOUS
        <4> HIDE DEF CoverageInv, MachineTypeOK
        <4> QED BY <3>1, <4>1, RetryableFacts
      <3>3. free = UNION {i.lo .. i.hi : i \in SubtractPoints(from, through, absent)}
        BY <3>1, SubtractFacts
      <3> QED BY <3>2, <3>3
    <2> QED BY <2>1, <2>2 DEF PlanningExact
  <1> QED BY <1>1, CoverageInvariance, PTL
-----------------------------------------------------------------------------
(* The store *)

\* A domain without a coverage row has nothing covered.
MissingIsEmpty == \A d \in Domains : cov[d].gen = 0 => cov[d] = Missing

\* The inductive invariant: the properties hold one another up.  Evidence
\* needs readable records (cover() adds exactly its interval only to a valid
\* one) and the current generation (a reindex drops evidence and coverage
\* together); identities need nothing but themselves.
StoreInv ==
    /\ TypeOK
    /\ MissingIsEmpty
    /\ CoverageReadable
    /\ OneIdentityPerHeight
    /\ OnlyCurrentGeneration
    /\ CoverageHasEvidence

\* coverage() hands a transaction a valid record of the current generation
\* that covers what the persisted one covers.
LEMMA ReadCoverageFacts ==
    ASSUME TypeOK, MissingIsEmpty, CoverageReadable, NEW d \in Domains, NEW s \in Height
    PROVE  /\ ReadCoverage(d, s) \in CoverageRecord
           /\ ValidCoverage(ReadCoverage(d, s))
           /\ ReadCoverage(d, s).gen = gen[d]
           /\ Covered(ReadCoverage(d, s)) = Covered(cov[d])
  <1>1. gen[d] \in Nat /\ gen[d] # 0 /\ cov[d] \in CoverageRecord
    BY DEF TypeOK
  <1>2. CASE cov[d].gen = 0
    <2>1. cov[d] = EmptyCoverage(0, 0)
      BY <1>2 DEF MissingIsEmpty, Missing
    <2>2. 0 \in Height
      BY U64MaxAssumption DEF Height
    <2>3. Covered(cov[d]) = {}
      BY <2>1, <2>2, EmptyCoverageFacts
    <2> QED BY <1>1, <1>2, <2>3, EmptyCoverageFacts DEF ReadCoverage, EmptyCoverage
  <1>3. CASE cov[d].gen # 0
    BY <1>1, <1>3 DEF ReadCoverage, CoverageReadable, Readable
  <1> QED BY <1>2, <1>3

\* A changed floor changes nothing that is covered.
LEMMA FloorFacts ==
    ASSUME NEW c \in CoverageRecord, ValidCoverage(c), NEW f \in OptHeight
    PROVE  LET x == [c EXCEPT !.floor = f]
           IN  /\ x \in CoverageRecord
               /\ ValidCoverage(x)
               /\ x.gen = c.gen
               /\ Covered(x) = Covered(c)
  BY DEF CoverageRecord, ValidCoverage, Covered, Contains

\* An empty record of the next generation, or no row at all, after a reindex.
LEMMA ReindexedFacts ==
    ASSUME TypeOK, MissingIsEmpty, CoverageReadable, NEW d \in Domains
    PROVE  /\ ReindexedCoverage(d) \in CoverageRecord
           /\ ValidCoverage(ReindexedCoverage(d))
           /\ Covered(ReindexedCoverage(d)) = {}
           /\ ReindexedCoverage(d).gen = gen[d] + 1 \/ ReindexedCoverage(d) = Missing
  <1>1. 0 \in Height /\ gen[d] + 1 \in Nat
    BY U64MaxAssumption DEF Height, TypeOK
  <1>2. ReadCoverage(d, 0).start \in Height
    BY <1>1, ReadCoverageFacts DEF CoverageRecord
  <1> QED BY <1>1, <1>2, EmptyCoverageFacts DEF ReindexedCoverage, Missing, EmptyCoverage

LEMMA StoreInitEstablishes == StoreInit => StoreInv
  <1> SUFFICES ASSUME StoreInit PROVE StoreInv
    OBVIOUS
  <1>1. /\ Missing \in CoverageRecord /\ Covered(Missing) = {} /\ Missing.gen = 0
    BY EmptyCoverageFacts, U64MaxAssumption DEF Missing, Height, EmptyCoverage
  <1>2. TypeOK
    BY <1>1 DEF StoreInit, TypeOK, NoTarget, OptHeight
  <1>3. MissingIsEmpty /\ CoverageReadable /\ OneIdentityPerHeight /\ OnlyCurrentGeneration
    BY <1>1 DEF StoreInit, MissingIsEmpty, CoverageReadable, Readable, OneIdentityPerHeight,
               OnlyCurrentGeneration
  <1>4. CoverageHasEvidence
    BY <1>1 DEF StoreInit, CoverageHasEvidence
  <1> QED BY <1>2, <1>3, <1>4 DEF StoreInv

-----------------------------------------------------------------------------
(* Every operation preserves the invariant. *)

LEMMA InitializeCoverageKeeps ==
    ASSUME StoreInv, NEW d \in Domains, NEW g \in 1 .. MaxGen, NEW h \in Height,
           InitializeCoverage(d, g, h)
    PROVE  StoreInv'
  <1> USE DEF StoreInv
  <1>1. h \in Height /\ g \in Nat /\ g # 0 /\ g = gen[d]
    BY StoreAssumption DEF InitializeCoverage
  <1> DEFINE c == EmptyCoverage(g, h)
  <1>2. c \in CoverageRecord /\ ValidCoverage(c) /\ Covered(c) = {} /\ c.gen = g
    BY <1>1, EmptyCoverageFacts DEF EmptyCoverage
  <1>3. cov' = [cov EXCEPT ![d] = c]
    BY DEF InitializeCoverage
  <1> HIDE DEF c
  <1>4. TypeOK'
    BY <1>2, <1>3 DEF TypeOK, InitializeCoverage
  <1>5. (MissingIsEmpty /\ CoverageReadable)'
    BY <1>1, <1>2, <1>3 DEF TypeOK, MissingIsEmpty, CoverageReadable, Readable, InitializeCoverage
  <1>6. (OneIdentityPerHeight /\ OnlyCurrentGeneration)'
    BY DEF OneIdentityPerHeight, OnlyCurrentGeneration, InitializeCoverage
  <1>7. CoverageHasEvidence'
    BY <1>2, <1>3 DEF TypeOK, CoverageHasEvidence, InitializeCoverage
  <1> QED BY <1>4, <1>5, <1>6, <1>7

LEMMA SetPrunedFloorKeeps ==
    ASSUME StoreInv, NEW d \in Domains, NEW g \in 1 .. MaxGen, NEW f \in OptHeight,
           SetPrunedFloor(d, g, f)
    PROVE  StoreInv'
  <1> USE DEF StoreInv
  <1>1. f \in OptHeight /\ 0 \in Height
    BY StoreAssumption, U64MaxAssumption DEF Height
  <1> DEFINE c == [ReadCoverage(d, 0) EXCEPT !.floor = f]
  <1>2. c \in CoverageRecord /\ ValidCoverage(c) /\ Covered(c) = Covered(cov[d]) /\ c.gen = gen[d]
    BY <1>1, ReadCoverageFacts, FloorFacts
  <1>3. cov' = [cov EXCEPT ![d] = c]
    BY DEF SetPrunedFloor
  <1> HIDE DEF c
  <1>4. TypeOK'
    BY <1>2, <1>3 DEF TypeOK, SetPrunedFloor
  <1>5. (MissingIsEmpty /\ CoverageReadable)'
    <2>1. gen' = gen /\ \A e \in Domains : gen[e] # 0 /\ cov'[e] = IF e = d THEN c ELSE cov[e]
      BY <1>3 DEF TypeOK, SetPrunedFloor
    <2> QED BY <1>2, <2>1 DEF MissingIsEmpty, CoverageReadable, Readable
  <1>6. (OneIdentityPerHeight /\ OnlyCurrentGeneration)'
    BY DEF OneIdentityPerHeight, OnlyCurrentGeneration, SetPrunedFloor
  <1>7. CoverageHasEvidence'
    BY <1>2, <1>3 DEF TypeOK, CoverageHasEvidence, SetPrunedFloor
  <1> QED BY <1>4, <1>5, <1>6, <1>7

\* The record a block commit writes for a completed domain.
LEMMA CommittedCoverage ==
    ASSUME StoreInv, NEW b \in Batch, CommitAccepted(b), NEW d \in b.completed
    PROVE  LET c == Cover(ReadCoverage(d, DefaultStart(d, b.h)), b.h, b.h)
           IN  /\ c \in CoverageRecord /\ ValidCoverage(c) /\ c.gen = gen[d]
               /\ Covered(c) = Covered(cov[d]) \cup {b.h}
  <1>1. b.h \in Height /\ 0 \in Height /\ d \in Domains /\ b.h .. b.h = {b.h} /\ b.h <= b.h
    BY U64MaxAssumption DEF Batch, Height
  <1>2. DefaultStart(d, b.h) \in Height
    BY <1>1 DEF DefaultStart
  <1>3. TypeOK /\ MissingIsEmpty /\ CoverageReadable
    BY DEF StoreInv
  <1> DEFINE r == ReadCoverage(d, DefaultStart(d, b.h))
  <1>4. /\ r \in CoverageRecord /\ ValidCoverage(r) /\ r.gen = gen[d]
        /\ Covered(r) = Covered(cov[d])
    BY <1>1, <1>2, <1>3, ReadCoverageFacts
  <1> HIDE DEF r
  <1>5. ASSUME NEW n \in Height
        PROVE  /\ Cover(r, n, n) \in CoverageRecord
               /\ ValidCoverage(Cover(r, n, n))
               /\ Cover(r, n, n).gen = r.gen
               /\ Covered(Cover(r, n, n)) = Covered(r) \cup (n .. n)
    <2>1. n <= n
      BY DEF Height
    <2>2. r \in CoverageRecord /\ ValidCoverage(r)
      BY <1>4
    <2> QED BY ONLY <2>1, <2>2, n \in Height, CoverFacts
  <1> QED BY <1>1, <1>4, <1>5 DEF r

LEMMA CommitBlockKeeps ==
    ASSUME StoreInv, NEW b \in Batch, CommitBlock(b)
    PROVE  StoreInv'
  <1> USE DEF StoreInv
  <1>1. CommitAccepted(b)
    BY DEF CommitBlock
  <1>2. /\ b.h \in Height /\ b.hash \in Hashes /\ b.completed \subseteq Domains
        /\ b.guards \in [Domains -> 0 .. MaxGen] /\ b.recs \in [Domains -> SUBSET Values]
    BY DEF Batch, Guards, Records
  <1>3. \A d \in Domains : b.recs[d] # {} => b.guards[d] = gen[d]
    BY <1>1, <1>2 DEF CommitAccepted, Affected, StaleBatch
  <1>4. finalized[b.h] = NoHash \/ finalized[b.h] = b.hash
    BY <1>1 DEF CommitAccepted, ConflictingBatch, Identities
  <1>5. finalized' = [finalized EXCEPT ![b.h] = b.hash]
    <2>1. finalized' = [finalized EXCEPT ![b.h] =
                            IF finalized[b.h] = NoHash THEN b.hash ELSE finalized[b.h]]
      BY DEF CommitBlock
    <2> QED BY <1>4, <2>1
  <1>6. \A d \in Domains :
           /\ rows'[d] = WrittenRows(d, b)
           /\ cov'[d] = IF d \in b.completed
                        THEN Cover(ReadCoverage(d, DefaultStart(d, b.h)), b.h, b.h)
                        ELSE cov[d]
           /\ proven'[d] = IF d \in b.completed THEN proven[d] \cup {b.h} ELSE proven[d]
    BY DEF CommitBlock
  <1>7. \A d \in Domains :
           /\ cov'[d] \in CoverageRecord
           /\ d \in b.completed => /\ ValidCoverage(cov'[d]) /\ cov'[d].gen = gen[d]
                                   /\ Covered(cov'[d]) = Covered(cov[d]) \cup {b.h}
           /\ d \notin b.completed => cov'[d] = cov[d]
    <2> SUFFICES ASSUME NEW d \in Domains
                 PROVE  /\ cov'[d] \in CoverageRecord
                        /\ d \in b.completed => /\ ValidCoverage(cov'[d]) /\ cov'[d].gen = gen[d]
                                                /\ Covered(cov'[d]) = Covered(cov[d]) \cup {b.h}
                        /\ d \notin b.completed => cov'[d] = cov[d]
      OBVIOUS
    <2>1. CASE d \in b.completed
      <3> DEFINE c == Cover(ReadCoverage(d, DefaultStart(d, b.h)), b.h, b.h)
      <3>1. StoreInv
        OBVIOUS
      <3>2. /\ c \in CoverageRecord /\ ValidCoverage(c) /\ c.gen = gen[d]
            /\ Covered(c) = Covered(cov[d]) \cup {b.h}
        BY ONLY <3>1, <1>1, <2>1, CommittedCoverage, b \in Batch
      <3>3. cov'[d] = c
        BY <1>6, <2>1
      <3> HIDE DEF c
      <3> QED BY <2>1, <3>2, <3>3
    <2>2. CASE d \notin b.completed
      BY <1>6, <2>2 DEF TypeOK
    <2> QED BY <2>1, <2>2
  <1>8. ASSUME NEW d \in Domains, NEW r \in rows'[d]
        PROVE  \/ r \in rows[d]
               \/ r \in Row /\ r.h = b.h /\ r.hash = b.hash /\ r.g = gen[d]
    <2>1. gen[d] \in Nat
      BY DEF TypeOK
    <2>2. r \in WrittenRows(d, b)
      BY <1>6, <1>8
    <2>3. CASE r \notin rows[d]
      <3>1. PICK v \in b.recs[d] : r = [h |-> b.h, v |-> v, hash |-> b.hash, g |-> b.guards[d]]
        BY <2>2, <2>3 DEF WrittenRows
      <3>2. v \in Values /\ b.guards[d] = gen[d]
        BY <1>2, <1>3, <3>1
      <3> QED BY <1>2, <2>1, <3>1, <3>2 DEF Row
    <2> QED BY <2>3
  <1>9. TypeOK'
    <2>1. rows' \in [Domains -> SUBSET Row]
      <3>1. rows' = [d \in Domains |-> rows'[d]]
        BY DEF CommitBlock
      <3>2. \A d \in Domains : rows'[d] \subseteq Row
        BY <1>8 DEF TypeOK
      <3> QED BY <3>1, <3>2
    <2>2. cov' \in [Domains -> CoverageRecord]
      <3>1. cov' = [d \in Domains |-> cov'[d]]
        BY DEF CommitBlock
      <3> QED BY <3>1, <1>7
    <2>3. proven' \in [Domains -> SUBSET Height]
      BY <1>2 DEF TypeOK, CommitBlock
    <2> QED BY <1>2, <1>5, <2>1, <2>2, <2>3 DEF TypeOK, CommitBlock
  <1>10. (MissingIsEmpty /\ CoverageReadable)'
    BY <1>7 DEF TypeOK, MissingIsEmpty, CoverageReadable, Readable, CommitBlock
  <1>11. OneIdentityPerHeight'
    <2> SUFFICES ASSUME NEW d \in Domains, NEW r \in rows'[d] PROVE r.hash = finalized'[r.h]
      BY DEF OneIdentityPerHeight
    <2>1. CASE r \in rows[d]
      <3>1. r.hash = finalized[r.h] /\ r.h \in Height /\ r.hash \in Hashes
        BY <2>1 DEF OneIdentityPerHeight, TypeOK, Row
      <3> QED BY <3>1, <1>4, <1>5, StoreAssumption DEF TypeOK
    <2>2. CASE r.h = b.h /\ r.hash = b.hash
      BY <2>2, <1>2, <1>5 DEF TypeOK
    <2> QED BY <1>8, <2>1, <2>2
  <1>12. OnlyCurrentGeneration'
    BY <1>8 DEF OnlyCurrentGeneration, CommitBlock
  <1>13. CoverageHasEvidence'
    <2> DEFINE Evidence(d, n) ==
                   /\ d # "authorship"
                   /\ \E s \in scans : /\ s.d = d /\ s.g = gen[d] /\ s.finished
                                      /\ n <= s.pin /\ n \notin s.found
    <2>1. scans' = scans /\ gen' = gen
      BY DEF CommitBlock
    <2>2. ASSUME NEW d \in Domains, NEW n \in Covered(cov'[d])
          PROVE  n \in proven'[d] \/ Evidence(d, n)
      <3>1. CASE n \in Covered(cov[d])
        <4>1. n \in proven[d] \/ Evidence(d, n)
          BY <3>1 DEF CoverageHasEvidence
        <4> HIDE DEF Evidence
        <4> QED BY <1>6, <4>1
      <3>2. CASE n \notin Covered(cov[d])
        <4>1. d \in b.completed /\ n = b.h
          BY <1>7, <2>2, <3>2
        <4> QED BY <1>6, <4>1
      <3> QED BY <3>1, <3>2
    <2> QED BY <2>1, <2>2 DEF CoverageHasEvidence, Covered
  <1> QED BY <1>9, <1>10, <1>11, <1>12, <1>13

LEMMA BeginScanKeeps ==
    ASSUME StoreInv, NEW d \in Domains, NEW g \in 1 .. MaxGen, NEW pin \in Height,
           BeginScan(d, g, pin)
    PROVE  StoreInv'
  <1> DEFINE n == [d |-> d, g |-> g, pin |-> pin, cursor |-> {}, found |-> {}, finished |-> FALSE]
  <1>1. n \in Scan /\ n.g = gen[n.d]
    BY StoreAssumption DEF Scan, BeginScan
  <1>2. scans' = scans \cup {n}
    BY DEF BeginScan
  <1> HIDE DEF n
  <1>3. TypeOK'
    BY <1>1, <1>2 DEF StoreInv, TypeOK, BeginScan
  <1>4. (MissingIsEmpty /\ CoverageReadable /\ OneIdentityPerHeight)'
    BY DEF StoreInv, MissingIsEmpty, CoverageReadable, Readable, OneIdentityPerHeight, BeginScan
  <1>5. OnlyCurrentGeneration'
    BY <1>1, <1>2 DEF StoreInv, OnlyCurrentGeneration, BeginScan
  <1>6. CoverageHasEvidence'
    BY <1>2 DEF StoreInv, CoverageHasEvidence, BeginScan
  <1> QED BY <1>3, <1>4, <1>5, <1>6 DEF StoreInv

\* A page replaces an unfinished enumeration only, so no evidence is lost.
LEMMA AppendScanPageKeeps ==
    ASSUME StoreInv, NEW s \in scans, NEW next \in SUBSET Height, NEW heights \in SUBSET Height,
           NEW last \in BOOLEAN, AppendScanPage(s, s.cursor, next, last, heights)
    PROVE  StoreInv'
  <1> DEFINE n == [s EXCEPT !.found = @ \cup heights,
                            !.cursor = IF last THEN {} ELSE next,
                            !.finished = last]
  <1>1. s \in Scan /\ next \in SUBSET Height
    BY StoreAssumption DEF StoreInv, TypeOK
  <1>2. n \in Scan /\ n.d = s.d /\ n.g = s.g
    BY <1>1 DEF Scan
  <1>3. scans' = (scans \ {s}) \cup {n} /\ ~ s.finished /\ s.g = gen[s.d]
    BY DEF AppendScanPage
  <1> HIDE DEF n
  <1>4. TypeOK'
    BY <1>2, <1>3 DEF StoreInv, TypeOK, AppendScanPage
  <1>5. (MissingIsEmpty /\ CoverageReadable /\ OneIdentityPerHeight)'
    BY DEF StoreInv, MissingIsEmpty, CoverageReadable, Readable, OneIdentityPerHeight, AppendScanPage
  <1>6. OnlyCurrentGeneration'
    BY <1>2, <1>3 DEF StoreInv, OnlyCurrentGeneration, AppendScanPage
  <1>7. CoverageHasEvidence'
    BY <1>3 DEF StoreInv, CoverageHasEvidence, AppendScanPage
  <1> QED BY <1>4, <1>5, <1>6, <1>7 DEF StoreInv

LEMMA CommitRangeKeeps ==
    ASSUME StoreInv, NEW s \in scans, NEW d \in Domains, NEW g \in 1 .. MaxGen,
           NEW a \in Height, NEW b \in Height, CommitRange(s, d, g, a, b)
    PROVE  StoreInv'
  <1> USE DEF StoreInv
  <1> DEFINE r == ReadCoverage(d, 0)
  <1>1. RangeAccepted(s, d, g, a, b)
    BY DEF CommitRange
  <1>2. a <= b /\ g = gen[d] /\ s.finished /\ s.d = d /\ s.g = g /\ s.pin >= b /\ d # "authorship"
    BY <1>1 DEF RangeAccepted
  <1>3. 0 \in Height
    BY U64MaxAssumption DEF Height
  <1>4. r \in CoverageRecord /\ ValidCoverage(r) /\ r.gen = gen[d] /\ Covered(r) = Covered(cov[d])
    BY <1>3, ReadCoverageFacts
  <1>5. UncommittedWinners(s, r, a, b) = {}
    BY <1>1 DEF RangeAccepted
  <1>6. cov' = [cov EXCEPT ![d] = Cover(r, a, b)]
    BY DEF CommitRange
  <1> HIDE DEF r
  <1>7. /\ Cover(r, a, b) \in CoverageRecord /\ ValidCoverage(Cover(r, a, b))
        /\ Cover(r, a, b).gen = gen[d]
        /\ Covered(Cover(r, a, b)) = Covered(cov[d]) \cup (a .. b)
    BY <1>2, <1>4, CoverFacts
  <1>8. TypeOK'
    BY <1>6, <1>7 DEF TypeOK, CommitRange
  <1>9. (MissingIsEmpty /\ CoverageReadable)'
    BY <1>6, <1>7 DEF TypeOK, MissingIsEmpty, CoverageReadable, Readable, CommitRange
  <1>10. (OneIdentityPerHeight /\ OnlyCurrentGeneration)'
    BY DEF OneIdentityPerHeight, OnlyCurrentGeneration, CommitRange
  <1>11. \A n \in a .. b : n \in Covered(cov[d]) \/ (n <= s.pin /\ n \notin s.found)
    <2>1. s.pin \in Int /\ a \in Int /\ b \in Int
      BY DEF TypeOK, Scan, Height
    <2>2. \A n \in a .. b : n <= s.pin /\ a <= n /\ n <= b /\ n \in Height
      BY <1>2, <2>1, U64MaxAssumption DEF Height
    <2>3. ASSUME NEW n \in a .. b, n \in s.found PROVE n \in Covered(cov[d])
      <3>1. Contains(r, n, n)
        BY <1>5, <2>2, <2>3 DEF UncommittedWinners
      <3> QED BY <2>2, <3>1, <1>4 DEF Covered
    <2> QED BY <2>2, <2>3
  <1>12. CoverageHasEvidence'
    BY <1>2, <1>6, <1>7, <1>11 DEF TypeOK, CoverageHasEvidence, CommitRange
  <1> QED BY <1>8, <1>9, <1>10, <1>12

LEMMA MarkUnavailableKeeps ==
    ASSUME StoreInv, NEW d \in Domains, NEW g \in 1 .. MaxGen, NEW h \in Height, NEW x \in Hashes,
           MarkUnavailable(d, g, h, x)
    PROVE  StoreInv'
  <1> USE DEF StoreInv
  <1>1. g \in Nat /\ g = gen[d]
    BY DEF MarkUnavailable
  <1>2. finalized[h] = NoHash \/ finalized[h] = x
    BY DEF MarkUnavailable, Identities
  <1>3. finalized' = [finalized EXCEPT ![h] = x]
    <2>1. finalized' = [finalized EXCEPT ![h] = IF finalized[h] = NoHash THEN x ELSE finalized[h]]
      BY DEF MarkUnavailable
    <2> QED BY <1>2, <2>1
  <1>4. marks' = [marks EXCEPT ![d] = marks[d] \cup {[h |-> h, g |-> g]}]
    BY DEF MarkUnavailable
  <1>5. TypeOK'
    BY <1>1, <1>3, <1>4 DEF TypeOK, Marker, MarkUnavailable
  <1>6. (MissingIsEmpty /\ CoverageReadable /\ CoverageHasEvidence)'
    BY DEF MissingIsEmpty, CoverageReadable, Readable, CoverageHasEvidence, MarkUnavailable
  <1>7. OneIdentityPerHeight'
    <2> SUFFICES ASSUME NEW e \in Domains, NEW r \in rows[e] PROVE r.hash = finalized'[r.h]
      BY DEF OneIdentityPerHeight, MarkUnavailable
    <2>1. r.hash = finalized[r.h] /\ r.h \in Height /\ r.hash \in Hashes
      BY DEF OneIdentityPerHeight, TypeOK, Row
    <2> QED BY <2>1, <1>2, <1>3, StoreAssumption DEF TypeOK
  <1>8. OnlyCurrentGeneration'
    BY <1>1, <1>4 DEF TypeOK, OnlyCurrentGeneration, MarkUnavailable
  <1> QED BY <1>5, <1>6, <1>7, <1>8

LEMMA SetFinalizedTargetKeeps ==
    ASSUME StoreInv, NEW h \in Height, NEW x \in Hashes, SetFinalizedTarget(h, x)
    PROVE  StoreInv'
  BY StoreAssumption
     DEF StoreInv, SetFinalizedTarget, TypeOK, OptHeight, MissingIsEmpty, CoverageReadable, Readable,
         OneIdentityPerHeight, OnlyCurrentGeneration, CoverageHasEvidence

\* A reindex drops what a domain owns together with the coverage it backs.
LEMMA ReindexKeeps ==
    ASSUME StoreInv, NEW D \in SUBSET Domains, Reindex(D)
    PROVE  StoreInv'
  <1> USE DEF StoreInv
  <1>1. \A d \in D : /\ cov'[d] = ReindexedCoverage(d) /\ gen'[d] = gen[d] + 1
                     /\ rows'[d] = {} /\ marks'[d] = {} /\ proven'[d] = {}
    BY DEF Reindex
  <1>2. \A d \in Domains \ D : /\ cov'[d] = cov[d] /\ gen'[d] = gen[d]
                               /\ rows'[d] = rows[d] /\ marks'[d] = marks[d] /\ proven'[d] = proven[d]
    BY DEF Reindex
  <1>3. \A d \in D : /\ cov'[d] \in CoverageRecord /\ ValidCoverage(cov'[d]) /\ Covered(cov'[d]) = {}
                     /\ cov'[d].gen = gen'[d] \/ cov'[d] = Missing
    BY <1>1, ReindexedFacts
  <1>4. scans' = {s \in scans : s.d \notin D}
    BY DEF Reindex
  <1>5. TypeOK'
    <2>1. cov' = [d \in Domains |-> cov'[d]] /\ gen' = [d \in Domains |-> gen'[d]]
          /\ rows' = [d \in Domains |-> rows'[d]] /\ marks' = [d \in Domains |-> marks'[d]]
          /\ proven' = [d \in Domains |-> proven'[d]]
      BY DEF Reindex
    <2>2. \A d \in Domains : gen'[d] \in Nat \ {0} /\ cov'[d] \in CoverageRecord
      BY <1>1, <1>2, <1>3 DEF TypeOK
    <2>3. \A d \in Domains : rows'[d] \subseteq Row /\ marks'[d] \subseteq Marker
                             /\ proven'[d] \subseteq Height
      BY <1>1, <1>2 DEF TypeOK
    <2>4. gen' \in [Domains -> Nat \ {0}] /\ cov' \in [Domains -> CoverageRecord]
      BY <2>1, <2>2
    <2>5. rows' \in [Domains -> SUBSET Row] /\ marks' \in [Domains -> SUBSET Marker]
          /\ proven' \in [Domains -> SUBSET Height]
      BY <2>1, <2>3
    <2> QED BY <1>4, <2>4, <2>5 DEF TypeOK, Reindex
  <1>6. (MissingIsEmpty /\ CoverageReadable)'
    <2>1. Missing.gen = 0
      BY DEF Missing, EmptyCoverage
    <2>2. \A d \in Domains : gen'[d] # 0
      BY <1>1, <1>2 DEF TypeOK
    <2> QED BY <1>2, <1>3, <2>1, <2>2 DEF MissingIsEmpty, CoverageReadable, Readable
  <1>7. OneIdentityPerHeight'
    BY <1>1, <1>2 DEF OneIdentityPerHeight, Reindex
  <1>8. OnlyCurrentGeneration'
    <2>1. \A s \in scans : s.d \in Domains
      BY DEF TypeOK, Scan
    <2> QED BY <1>1, <1>2, <1>4, <2>1 DEF OnlyCurrentGeneration
  <1>9. CoverageHasEvidence'
    BY <1>1, <1>2, <1>3, <1>4 DEF CoverageHasEvidence
  <1> QED BY <1>5, <1>6, <1>7, <1>8, <1>9

LEMMA StoreInvariance == StoreSpec => []StoreInv
  <1>1. StoreInv /\ [StoreNext]_storeVars => StoreInv'
    <2> SUFFICES ASSUME StoreInv, [StoreNext]_storeVars PROVE StoreInv'
      OBVIOUS
    <2>1. CASE StoreNext
      BY <2>1, StoreAssumption, InitializeCoverageKeeps, SetPrunedFloorKeeps, CommitBlockKeeps, BeginScanKeeps,
         AppendScanPageKeeps, CommitRangeKeeps, MarkUnavailableKeeps, SetFinalizedTargetKeeps,
         ReindexKeeps
         DEF StoreNext
    <2>2. CASE UNCHANGED storeVars
      BY <2>2 DEF storeVars, StoreInv, TypeOK, MissingIsEmpty, CoverageReadable, Readable,
                  OneIdentityPerHeight, OnlyCurrentGeneration, CoverageHasEvidence
    <2> QED BY <2>1, <2>2
  <1> QED BY <1>1, StoreInitEstablishes, PTL DEF StoreSpec

-----------------------------------------------------------------------------
\* Every operation of the store keeps every table within its type.
THEOREM StoreTypeCorrect == StoreSpec => []TypeOK
  BY StoreInvariance, PTL DEF StoreInv

\* No caller can drive the store into coverage it will refuse to read.
THEOREM StoreAlwaysReadable == StoreSpec => []CoverageReadable
  BY StoreInvariance, PTL DEF StoreInv

\* All rows of a height come from one finalized block, whoever wrote them.
THEOREM StoreKeepsOneIdentity == StoreSpec => []OneIdentityPerHeight
  BY StoreInvariance, PTL DEF StoreInv

\* A commit decoded before a reindex can never land after it.
THEOREM StoreIsFenced == StoreSpec => []OnlyCurrentGeneration
  BY StoreInvariance, PTL DEF StoreInv

\* Coverage is never claimed without a commit or an exhausted enumeration.
THEOREM StoreCoverageIsBacked == StoreSpec => []CoverageHasEvidence
  BY StoreInvariance, PTL DEF StoreInv

\* Identities, targets and records only move forward within a generation.
THEOREM StoreHistoryStable == StoreSpec => HistoryNeverRewritten
  <1> DEFINE Forward ==
        /\ \A h \in Height : finalized[h] # NoHash => finalized'[h] = finalized[h]
        /\ target'.h > target.h \/ target' = target
        /\ \A d \in Domains : gen'[d] = gen[d] =>
              /\ \A r \in rows[d] : \E x \in rows'[d] : x.h = r.h
              /\ d # "winners" => rows[d] \subseteq rows'[d]
              /\ d \in {"difficulty", "authorship"} =>
                    \A r \in rows[d], x \in rows'[d] \ rows[d] : x.h = r.h => x.v = r.v
  <1>1. ASSUME StoreInv, StoreNext PROVE Forward
    <2>1. TypeOK
      BY <1>1 DEF StoreInv
    <2>2. ASSUME NEW b \in Batch, CommitBlock(b) PROVE Forward
      <3>1. ASSUME NEW d \in Domains, NEW r \in rows[d]
            PROVE  /\ \E x \in rows'[d] : x.h = r.h
                   /\ d # "winners" => r \in rows'[d]
        <4>1. rows'[d] = WrittenRows(d, b)
          BY <2>2 DEF CommitBlock
        <4>2. CASE r \in WrittenRows(d, b)
          BY <4>1, <4>2
        <4>3. CASE r \notin WrittenRows(d, b)
          <5>1. d = "winners" /\ r.h = b.h /\ b.recs[d] # {}
            BY <3>1, <4>3 DEF WrittenRows
          <5>2. PICK v \in b.recs[d] : TRUE
            BY <5>1
          <5>3. [h |-> b.h, v |-> v, hash |-> b.hash, g |-> b.guards[d]] \in rows'[d]
            BY <4>1, <5>2 DEF WrittenRows
          <5> QED BY <5>1, <5>3
        <4> QED BY <4>2, <4>3
      <3>2. \A h \in Height : finalized[h] # NoHash => finalized'[h] = finalized[h]
        BY <2>1, <2>2 DEF CommitBlock, TypeOK
      <3>3. target' = target
        BY <2>2 DEF CommitBlock
      <3>4. ASSUME NEW d \in Domains \cap {"difficulty", "authorship"},
                   NEW r \in rows[d], NEW x \in rows'[d] \ rows[d], x.h = r.h
            PROVE  x.v = r.v
        <4>1. PICK v \in b.recs[d] : x = [h |-> b.h, v |-> v, hash |-> b.hash, g |-> b.guards[d]]
          BY <2>2 DEF CommitBlock, WrittenRows
        <4>2. r.v \in b.recs[d]
          BY <2>2, <3>4, <4>1 DEF CommitBlock, CommitAccepted, ConflictingRecord
        <4>3. r.v = v
          BY <4>2 DEF Batch, Records
        <4> QED BY <4>1, <4>3
      <3> QED BY <3>1, <3>2, <3>3, <3>4
    <2>3. ASSUME NEW D \in SUBSET Domains, Reindex(D) PROVE Forward
      BY <2>1, <2>3 DEF Reindex, TypeOK
    <2>4. ASSUME NEW d \in Domains, NEW g \in 1 .. MaxGen, NEW h \in Height, NEW x \in Hashes,
                 MarkUnavailable(d, g, h, x)
          PROVE  Forward
      BY <2>1, <2>4 DEF MarkUnavailable, TypeOK
    <2>5. ASSUME NEW h \in Targets, NEW x \in Hashes, SetFinalizedTarget(h, x) PROVE Forward
      BY <2>5 DEF SetFinalizedTarget
    <2>6. CASE UNCHANGED <<gen, rows, finalized, target>>
      BY <2>6
    <2> HIDE DEF Forward
    <2> QED BY <1>1, <2>2, <2>3, <2>4, <2>5, <2>6
        DEF StoreNext, InitializeCoverage, SetPrunedFloor, BeginScan, AppendScanPage, CommitRange
  <1>2. StoreInv /\ [StoreNext]_storeVars => [Forward]_storeVars
    BY <1>1
  <1> QED BY <1>2, StoreInvariance, PTL DEF StoreSpec, HistoryNeverRewritten

\* The store implements the ledger: completed heights accumulate within a
\* generation and are forgotten only, and all together, by the next one.
THEOREM StoreImplementsLedger == StoreSpec => RefinesLedger
  <1> DEFINE done == [d \in Domains |-> Covered(cov[d])]
  <1>1. StoreInit => Ledger!Init
    <2>1. Covered(Missing) = {}
      BY EmptyCoverageFacts, U64MaxAssumption DEF Missing, Height
    <2> QED BY <2>1 DEF StoreInit, Ledger!Init
  <1>2. ASSUME StoreInv, StoreNext PROVE [Ledger!Next]_(Ledger!vars)
    <2>1. TypeOK /\ MissingIsEmpty /\ CoverageReadable /\ 0 \in Height
      BY <1>2, U64MaxAssumption DEF StoreInv, Height
    <2>2. ASSUME NEW d \in Domains, NEW c, cov' = [cov EXCEPT ![d] = c], UNCHANGED gen,
                 Covered(cov[d]) \subseteq Covered(c)
          PROVE  Ledger!Record
      <3>1. \A e \in Domains : /\ Covered(cov[e]) \subseteq Covered(cov'[e])
                               /\ Covered(cov'[e]) \subseteq Height
        BY <2>1, <2>2 DEF TypeOK, Covered
      <3> QED BY <2>2, <3>1 DEF Ledger!Record
    <2>3. ASSUME NEW d \in Domains, NEW g \in 1 .. MaxGen, NEW h \in Starts,
                 InitializeCoverage(d, g, h)
          PROVE  Ledger!Record
      <3>1. Covered(cov[d]) = {}
        BY <2>1, <2>3, EmptyCoverageFacts DEF MissingIsEmpty, InitializeCoverage, Missing
      <3> QED BY <2>2, <2>3, <3>1 DEF InitializeCoverage
    <2>4. ASSUME NEW d \in Domains, NEW g \in 1 .. MaxGen, NEW f \in Floors, SetPrunedFloor(d, g, f)
          PROVE  Ledger!Record
      <3>1. f \in OptHeight
        BY StoreAssumption
      <3>2. Covered([ReadCoverage(d, 0) EXCEPT !.floor = f]) = Covered(cov[d])
        BY <2>1, <3>1, ReadCoverageFacts, FloorFacts
      <3> QED BY <2>2, <2>4, <3>2 DEF SetPrunedFloor
    <2>5. ASSUME NEW b \in Batch, CommitBlock(b) PROVE Ledger!Record
      <3>1. ASSUME NEW d \in Domains PROVE Covered(cov[d]) \subseteq Covered(cov'[d])
        <4>1. CASE d \in b.completed
          BY <1>2, <2>5, <4>1, CommittedCoverage DEF CommitBlock
        <4>2. CASE d \notin b.completed
          BY <2>5, <4>2 DEF CommitBlock
        <4> QED BY <4>1, <4>2
      <3>2. gen' = gen /\ \A d \in Domains : Covered(cov'[d]) \subseteq Height
        BY <2>5 DEF CommitBlock, Covered
      <3> QED BY <3>1, <3>2 DEF Ledger!Record
    <2>6. ASSUME NEW s \in scans, NEW d \in Domains, NEW g \in 1 .. MaxGen,
                 NEW a \in Height, NEW b \in Height, CommitRange(s, d, g, a, b)
          PROVE  Ledger!Record
      <3>1. a <= b
        BY <2>6 DEF CommitRange, RangeAccepted
      <3>2. Covered(Cover(ReadCoverage(d, 0), a, b)) = Covered(cov[d]) \cup (a .. b)
        BY <2>1, <3>1, ReadCoverageFacts, CoverFacts
      <3> QED BY <2>2, <2>6, <3>2 DEF CommitRange
    <2>7. ASSUME NEW D \in SUBSET Domains, Reindex(D) PROVE Ledger!Forget(D)
      <3>1. \A d \in D : Covered(cov'[d]) = {}
        BY <2>1, <2>7, ReindexedFacts DEF Reindex
      <3>2. \A d \in Domains \ D : cov'[d] = cov[d]
        BY <2>7 DEF Reindex
      <3>3. [d \in Domains |-> Covered(cov'[d])]
               = [d \in Domains |-> IF d \in D THEN {} ELSE done[d]]
        BY <3>1, <3>2
      <3> QED BY <2>7, <3>3 DEF Ledger!Forget, Reindex
    <2>8. CASE UNCHANGED <<gen, cov>>
      BY <2>8 DEF Ledger!vars
    <2> QED BY <1>2, <2>3, <2>4, <2>5, <2>6, <2>7, <2>8
        DEF StoreNext, BeginScan, AppendScanPage, MarkUnavailable, SetFinalizedTarget, Ledger!Next
  <1>3. ASSUME UNCHANGED storeVars PROVE UNCHANGED Ledger!vars
    BY <1>3 DEF storeVars, Ledger!vars
  <1>4. StoreInv /\ [StoreNext]_storeVars => [Ledger!Next]_(Ledger!vars)
    BY <1>2, <1>3
  <1> QED BY <1>1, <1>4, StoreInvariance, PTL DEF StoreSpec, RefinesLedger, Ledger!Spec
=============================================================================
