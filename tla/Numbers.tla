------------------------------- MODULE Numbers -------------------------------
(***************************************************************************)
(* Arithmetic helpers: IntUtil, Primes, WeightedClusterUtil, the clamped   *)
(* ClosedIntervalValue with RandomGenerator::bernoulli(), Welford's        *)
(* running statistics, and the case-insensitive hash.  They are evaluated  *)
(* for every short sequence of small numbers `input`.  Floating point      *)
(* numbers are exact fractions <<numerator, denominator>> here.            *)
(***************************************************************************)
EXTENDS Integers, Sequences, SequencesExt, FiniteSetsExt

CONSTANTS
  MaxNumber,    \* the numbers are 0..MaxNumber
  MaxNumbers,   \* the longest input
  Word          \* 2^64 in the code: unsigned integers are 0..Word-1

VARIABLE input

\* IntUtil::roundUpToMultiple()
RoundUpToMultiple(val, multiple) ==
  ((((val + multiple - 1) % Word) \div multiple) * multiple) % Word

\* Primes: odd factors up to the square root.
Sqrt(x) == Max({r \in 0..x : r * r <= x})
IsPrime(x) ==
  IF x # 0 /\ x < 4 THEN TRUE
  ELSE x % 2 # 0 /\ \A factor \in {f \in 3..Sqrt(x) : f % 2 = 1} : x % factor # 0

\* findPrimeLargerThan(): odd candidates above x.
FirstCandidate(x) == x + (x % 2) + 1
FindPrimeLargerThan(x) ==
  CHOOSE p \in FirstCandidate(x)..(2 * x + 3) :
    /\ (p - FirstCandidate(x)) % 2 = 0 /\ IsPrime(p)
    /\ \A q \in FirstCandidate(x)..(p - 1) : (q - FirstCandidate(x)) % 2 = 0 => ~IsPrime(q)

\* pickCluster(): the cluster whose interval holds the selected value, 0 when the
\* loop ends without one.
Begin(weights, i) == FoldLeft(LAMBDA a, b : a + b, 0, SubSeq(weights, 1, i - 1))
PickCluster(weights, total, random) ==
  LET selected == random % total
      hit == {i \in DOMAIN weights : Begin(weights, i) <= selected /\
                                     selected < Begin(weights, i) + weights[i]}
  IN  IF hit = {} THEN 0 ELSE Min(hit)

\* ClosedIntervalValue of the interval lo..hi.
ClosedIntervalValue(lo, hi, value) == Max({lo, Min({hi, value})})
Invert(lo, hi, v) ==
  IF v = hi THEN lo ELSE IF v = lo THEN hi ELSE ClosedIntervalValue(lo, hi, hi - (v - lo))

\* RandomGenerator::bernoulli() with probability p / one.
Bernoulli(p, one, random) ==
  IF p = 0 THEN FALSE ELSE IF p = one THEN TRUE ELSE random < (p * (Word - 1)) \div one

\* WelfordStandardDeviation::update() on fractions.
Minus(f, g) == <<f[1] * g[2] - g[1] * f[2], f[2] * g[2]>>
Plus(f, g) == <<f[1] * g[2] + g[1] * f[2], f[2] * g[2]>>
Times(f, g) == <<f[1] * g[1], f[2] * g[2]>>
Update(w, new_value) ==
  LET count == w.count + 1
      delta == Minus(<<new_value, 1>>, w.mean)
      mean == Plus(w.mean, Times(delta, <<1, count>>))
      delta2 == Minus(<<new_value, 1>>, mean)
  IN  [count |-> count, mean |-> mean, m2 |-> Plus(w.m2, Times(delta, delta2))]
Welford(samples) == FoldLeft(Update, [count |-> 0, mean |-> <<0, 1>>, m2 |-> <<0, 1>>], samples)
\* computeVariance(): NaN, the empty sequence here, for fewer than two samples.
ComputeVariance(w) == IF w.count < 2 THEN <<>> ELSE <<w.m2[1], w.m2[2] * (w.count - 1)>>

\* absl::ascii_tolower() on small codes: an odd number is the upper case of the
\* number before it.
Lower(c) == c - (c % 2)
\* HashUtil::djb2CaseInsensitiveHash(): hash * 33 + c.
Djb2CaseInsensitiveHash(s) == FoldLeft(LAMBDA hash, c : (33 * hash + Lower(c)) % Word, (5381 % Word), s)

Init == input = <<>>
\* The caller passes another input.
Next == \E n \in 0..MaxNumber : Len(input) < MaxNumbers /\ input' = Append(input, n)
Spec == Init /\ [][Next]_input
------------------------------------------------------------------------------
Prime(x) == x > 1 /\ \A d \in 2..(x - 1) : x % d # 0
Total(s) == FoldLeft(LAMBDA a, b : a + b, 0, s)
\* The number that the digits of the input spell.
Spelled == FoldLeft(LAMBDA a, b : (MaxNumber + 1) * a + b, 0, input)
SameFraction(f, g) == f[1] * g[2] = g[1] * f[2]

\* The integer helpers return what their comments say as long as nothing overflows:
\* the least multiple that is not below the value; the next prime (above 1: the
\* code takes 1 for a prime and never considers 2); a cluster for every random value,
\* each for as many values as its weight says; and the hash ignores the case, as the
\* hash of a set whose equality ignores it has to.
IntegersAreExact ==
  /\ Len(input) = 2 /\ input[2] > 0 /\ input[1] + input[2] - 1 < Word =>
       RoundUpToMultiple(input[1], input[2]) =
         Min({m \in input[1]..(input[1] + input[2]) : m % input[2] = 0})
  /\ Spelled # 1 => (IsPrime(Spelled) <=> Prime(Spelled))
  /\ Spelled > 1 =>
       FindPrimeLargerThan(Spelled) = Min({p \in (Spelled + 1)..(2 * Spelled + 2) : Prime(p)})
  /\ Total(input) > 0 => \A i \in DOMAIN input :
       input[i] = Cardinality({r \in 0..(Total(input) - 1) : PickCluster(input, Total(input), r) = i})
  /\ \A s \in [1..Len(input) -> 0..1] :   \* any change of case
       Djb2CaseInsensitiveHash([i \in DOMAIN input |-> Lower(input[i]) + s[i]]) =
         Djb2CaseInsensitiveHash(input)

\* Clamped values stay in their interval and inversion reverses their order;
\* bernoulli() is certain at both ends, for the largest random number too, and
\* grows with the probability; the running statistics are those of the samples.
FractionsAreExact ==
  /\ Len(input) = 2 =>
       LET v == ClosedIntervalValue(1, MaxNumber - 1, input[1])
           w == ClosedIntervalValue(1, MaxNumber - 1, input[2])
           inv(x) == Invert(1, MaxNumber - 1, x)
       IN  /\ v \in 1..(MaxNumber - 1) /\ inv(inv(v)) = v
           /\ v <= w <=> inv(w) <= inv(v)
           /\ \A random \in 0..(Word - 1) :
                /\ ~Bernoulli(0, MaxNumber, random) /\ Bernoulli(MaxNumber, MaxNumber, random)
                /\ input[1] <= input[2] /\ Bernoulli(input[1], MaxNumber, random) =>
                     Bernoulli(input[2], MaxNumber, random)
  /\ LET w == Welford(input)
         n == Len(input)
         squares == Total([i \in DOMAIN input |-> input[i] * input[i]])
     IN  /\ n > 0 => SameFraction(w.mean, <<Total(input), n>>)
         /\ n < 2 <=> ComputeVariance(w) = <<>>
         /\ n > 1 => SameFraction(ComputeVariance(w),
                       <<n * squares - Total(input) * Total(input), n * (n - 1)>>)
==============================================================================
