----------------------------- MODULE IntervalSet -----------------------------
(***************************************************************************)
(* IntervalSetImpl: a std::set of half-open intervals under an order in    *)
(* which overlapping and touching intervals are equivalent, and            *)
(* StringUtil::removeCharacters(), which cuts its intervals from a string. *)
(***************************************************************************)
EXTENDS Integers, FiniteSets, Sequences

CONSTANT MaxValue       \* the values are 0..MaxValue

VARIABLES
  intervals,    \* intervals_, as pairs <<first, second>>
  inserted      \* history: the values that were inserted since the last clear()

vars == <<intervals, inserted>>

Value == 0..MaxValue

\* The order of the std::set: a.second < b.first.
Compare(a, b) == a[2] < b[1]

\* The first and the last element of a part of the std::set.
First(S) == CHOOSE e \in S : \A f \in S : e[1] <= f[1]
Last(S) == CHOOSE e \in S : \A f \in S : f[1] <= e[1]

\* What lower_bound(x) is at or before, and what upper_bound(x) is behind.
FromLowerBound(x) == {e \in intervals : ~Compare(e, x)}
BeforeUpperBound(x) == {e \in intervals : ~Compare(x, e)}

\* Mutant of Reaches: an interval that only touches its successor is not merged.
ReachesInto(right, e) == right > e[1]

\* Does an interval that ends at right overlap or touch e, which ends behind it?
Reaches(right, e) == right >= e[1]

\* The intervals that [left, right) is combined with, and the combined one:
\* left_pos is the first interval that does not end before left, right_pos (after
\* the decrement) the last that does not begin behind right.
Merged(left, right) ==
  LET from == FromLowerBound(<<left, left>>)
      upto == BeforeUpperBound(<<right, right>>)
      merge == /\ from # {} /\ Reaches(right, First(from))
               /\ upto # {} /\ Last(upto)[2] >= left
  IN  IF merge
      THEN [erase |-> from \cap upto,
            by |-> << IF First(from)[1] < left THEN First(from)[1] ELSE left,
                      IF Last(upto)[2] > right THEN Last(upto)[2] ELSE right >>]
      ELSE [erase |-> {}, by |-> <<left, right>>]

\* std::set::insert() does nothing when an equivalent element is there.
SetInsert(S, x) ==
  IF \E e \in S : ~Compare(e, x) /\ ~Compare(x, e) THEN S ELSE S \cup {x}

Insert(left, right) ==
  /\ left <= right
  /\ intervals' = IF left = right THEN intervals
                  ELSE LET m == Merged(left, right)
                       IN  SetInsert(intervals \ m.erase, m.by)
  /\ inserted' = inserted \cup left..(right - 1)

Clear == intervals' = {} /\ inserted' = {}

Test(value) ==
  LET from == FromLowerBound(<<value, value + 1>>)
  IN  from # {} /\ value >= First(from)[1] /\ value < First(from)[2]

ToVector ==
  LET Sorted[S \in SUBSET intervals] ==
        IF S = {} THEN <<>> ELSE <<First(S)>> \o Sorted[S \ {First(S)}]
  IN  Sorted[intervals]

\* removeCharacters(): the positions of str that are kept, in their order.  The
\* loop keeps what is between the end of the last interval (pos) and the next one.
RemoveCharacters(size) ==
  LET v == ToVector
      pos(i) == IF i = 0 THEN 0 ELSE v[i][2]
      kept == {p \in 0..(size - 1) : \E i \in DOMAIN v : pos(i - 1) <= p /\ p < v[i][1]}
  IN  kept \cup pos(Len(v))..(size - 1)

Init == intervals = {} /\ inserted = {}

Next ==
  \/ \E left, right \in Value : Insert(left, right)
  \/ Clear

Spec == Init /\ [][Next]_vars

------------------------------------------------------------------------------
\* The intervals never overlap nor touch ("no overlapping intervals remain"), cover
\* exactly what was inserted, in whatever order overlapping pieces arrived, and
\* test() agrees with them: it looks at one interval only, which is enough because
\* touching intervals were merged.
IntervalsAreMerged ==
  /\ \A a, b \in intervals : a # b => Compare(a, b) \/ Compare(b, a)
  /\ inserted = UNION {a[1]..(a[2] - 1) : a \in intervals}
  /\ \A v \in Value : Test(v) <=> v \in inserted

\* So do toVector() and removeCharacters(), which walk along the intervals.
IntervalsAreExact ==
  /\ IntervalsAreMerged
  /\ RemoveCharacters(MaxValue + 1) = Value \ inserted
==============================================================================
