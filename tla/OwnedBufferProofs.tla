--------------------------- MODULE OwnedBufferProofs ---------------------------
(***************************************************************************)
(* Proofs about module OwnedBuffer.                                        *)
(***************************************************************************)
EXTENDS OwnedBuffer, SequenceTheorems, FiniteSetTheorems, TLAPS

------------------------------------------------------------------------------
(* Sums of sequences *)

Adding == INSTANCE FoldTheorems WITH Op <- +

\* Total is the fold that FoldTheorems speaks of.
LEMMA TotalIsFold == \A w : Total(w) = Adding!Fold(0, w)
BY DEF Total, FoldLeft, MapThenFoldSet, Max, Adding!Fold,
       Adding!MapThenFoldSet, Adding!Latest

\* The recursion equations of Total.
LEMMA TotalIs ==
  /\ Total(<<>>) = 0
  /\ \A w \in Seq(Int), n \in Int : Total(Append(w, n)) = Total(w) + n
<1>1. Total(<<>>) = 0
  BY TotalIsFold, Adding!FoldOfNone
<1>2. ASSUME NEW w \in Seq(Int), NEW n \in Int
      PROVE  Total(Append(w, n)) = Total(w) + n
  <2>1. Adding!Fold(0, Append(w, n)) = Adding!Fold(0, w) + n
    BY Adding!FoldOfAppend
  <2> QED
    BY <2>1, TotalIsFold
<1> QED
  BY <1>1, <1>2

\* What the elements ss weigh together, w being the weight of each.
Weigh(w, ss) == Total([i \in DOMAIN ss |-> w[ss[i]]])

\* The recursion equations of Weigh.
LEMMA WeighIs ==
  ASSUME NEW T, NEW w \in [T -> Int]
  PROVE  /\ Weigh(w, <<>>) = 0
         /\ \A ss \in Seq(T), s \in T : Weigh(w, Append(ss, s)) = Weigh(w, ss) + w[s]
<1>1. [i \in DOMAIN <<>> |-> w[<<>>[i]]] = <<>>
  OBVIOUS
<1>2. ASSUME NEW ss \in Seq(T), NEW s \in T
      PROVE  Weigh(w, Append(ss, s)) = Weigh(w, ss) + w[s]
  <2> DEFINE of(tt) == [i \in DOMAIN tt |-> w[tt[i]]]
  <2>1. of(ss) \in Seq(Int) /\ Len(of(ss)) = Len(ss)
    OBVIOUS
  <2>2. of(Append(ss, s)) = Append(of(ss), w[s])
    <3>1. of(Append(ss, s)) \in Seq(Int)
      OBVIOUS
    <3>2. Len(of(Append(ss, s))) = Len(ss) + 1 /\ Len(Append(of(ss), w[s])) = Len(ss) + 1
      BY <2>1
    <3>3. ASSUME NEW i \in 1..(Len(ss) + 1)
          PROVE  of(Append(ss, s))[i] = Append(of(ss), w[s])[i]
      BY <2>1
    <3> QED
      BY <2>1, <3>1, <3>2, <3>3
  <2> HIDE DEF of
  <2>3. Total(Append(of(ss), w[s])) = Total(of(ss)) + w[s]
    BY <2>1, TotalIs
  <2> QED
    BY <2>2, <2>3 DEF Weigh, of
<1> QED
  BY <1>1, <1>2, TotalIs DEF Weigh

\* Weights are integers, and natural numbers if each is one.
LEMMA WeighType ==
  ASSUME NEW T, NEW w \in [T -> Int], NEW ss \in Seq(T)
  PROVE  Weigh(w, ss) \in Int /\ ((\A s \in T : w[s] \in Nat) => Weigh(w, ss) \in Nat)
<1> DEFINE S == {tt \in Seq(T) : /\ Weigh(w, tt) \in Int
                                 /\ (\A s \in T : w[s] \in Nat) => Weigh(w, tt) \in Nat}
<1>1. <<>> \in S
  BY WeighIs
<1>2. ASSUME NEW tt \in Seq(T), NEW s \in T, tt \in S
      PROVE  Append(tt, s) \in S
  <2>1. Weigh(w, Append(tt, s)) = Weigh(w, tt) + w[s]
    BY WeighIs
  <2>2. Weigh(w, tt) \in Int /\ w[s] \in Int /\ Append(tt, s) \in Seq(T)
    BY <1>2
  <2>3. (\A u \in T : w[u] \in Nat) => Weigh(w, tt) \in Nat /\ w[s] \in Nat
    BY <1>2
  <2> QED
    BY <2>1, <2>2, <2>3
<1> HIDE DEF S
<1>3. ss \in S
  BY <1>1, <1>2, Adding!SequenceInduction
<1> QED
  BY <1>3 DEF S

\* Sequences behind each other weigh what they weigh together.
LEMMA WeighConcat ==
  ASSUME NEW T, NEW w \in [T -> Int], NEW ss \in Seq(T), NEW tt \in Seq(T)
  PROVE  Weigh(w, ss \o tt) = Weigh(w, ss) + Weigh(w, tt)
<1> DEFINE S == {uu \in Seq(T) : Weigh(w, ss \o uu) = Weigh(w, ss) + Weigh(w, uu)}
<1>1. <<>> \in S
  BY WeighIs, WeighType
<1>2. ASSUME NEW uu \in Seq(T), NEW u \in T, uu \in S
      PROVE  Append(uu, u) \in S
  <2>1. ss \o Append(uu, u) = Append(ss \o uu, u) /\ ss \o uu \in Seq(T) /\ Append(uu, u) \in Seq(T)
    OBVIOUS
  <2>2. /\ Weigh(w, Append(ss \o uu, u)) = Weigh(w, ss \o uu) + w[u]
        /\ Weigh(w, Append(uu, u)) = Weigh(w, uu) + w[u]
    BY <2>1, WeighIs
  <2>3. Weigh(w, ss) \in Int /\ Weigh(w, uu) \in Int /\ w[u] \in Int
    BY WeighType
  <2>4. Weigh(w, ss \o uu) = Weigh(w, ss) + Weigh(w, uu)
    BY <1>2
  <2>5. Weigh(w, ss \o Append(uu, u)) = Weigh(w, ss) + Weigh(w, Append(uu, u))
    BY <2>1, <2>2, <2>3, <2>4
  <2> QED
    BY <2>1, <2>5
<1> HIDE DEF S
<1>3. tt \in S
  BY <1>1, <1>2, Adding!SequenceInduction
<1> QED
  BY <1>3 DEF S

\* A sequence is its first k elements and the others.
LEMMA SplitAt ==
  ASSUME NEW T, NEW ss \in Seq(T), NEW k \in 0..Len(ss)
  PROVE  /\ SubSeq(ss, 1, k) \in Seq(T) /\ SubSeq(ss, k + 1, Len(ss)) \in Seq(T)
         /\ Len(SubSeq(ss, 1, k)) = k /\ Len(SubSeq(ss, k + 1, Len(ss))) = Len(ss) - k
         /\ \A i \in 1..k : SubSeq(ss, 1, k)[i] = ss[i]
         /\ \A i \in 1..(Len(ss) - k) : SubSeq(ss, k + 1, Len(ss))[i] = ss[k + i]
         /\ ss = SubSeq(ss, 1, k) \o SubSeq(ss, k + 1, Len(ss))
<1> DEFINE x == SubSeq(ss, 1, k)
           y == SubSeq(ss, k + 1, Len(ss))
<1>1. x \in Seq(T) /\ Len(x) = k /\ \A i \in 1..k : x[i] = ss[i]
  OBVIOUS
<1>2. y \in Seq(T) /\ Len(y) = Len(ss) - k /\ \A i \in 1..(Len(ss) - k) : y[i] = ss[k + i]
  OBVIOUS
<1>3. x \o y = SubSeq(ss, 1, Len(ss))
  <2>1. 1 \in 1..(Len(ss) + 1) /\ k \in (1 - 1)..Len(ss) /\ Len(ss) \in k..Len(ss)
    OBVIOUS
  <2> QED
    BY <2>1, ConcatAdjacentSubSeq
<1>4. SubSeq(ss, 1, Len(ss)) = ss
  BY SubSeqFull
<1> QED
  BY <1>1, <1>2, <1>3, <1>4

\* One element, and the two parts of a sequence.
LEMMA WeighParts ==
  ASSUME NEW T, NEW w \in [T -> Int], NEW ss \in Seq(T)
  PROVE  /\ \A s \in T : Weigh(w, <<s>>) = w[s]
         /\ \A k \in 0..Len(ss) :
              Weigh(w, ss) = Weigh(w, SubSeq(ss, 1, k)) + Weigh(w, SubSeq(ss, k + 1, Len(ss)))
         /\ \A k \in 0..(Len(ss) - 1) :
              Weigh(w, SubSeq(ss, 1, k + 1)) = Weigh(w, SubSeq(ss, 1, k)) + w[ss[k + 1]]
<1>1. ASSUME NEW s \in T
      PROVE  Weigh(w, <<s>>) = w[s]
  <2>1. <<s>> = Append(<<>>, s) /\ <<>> \in Seq(T) /\ w[s] \in Int
    OBVIOUS
  <2>2. Weigh(w, Append(<<>>, s)) = 0 + w[s]
    BY <2>1, WeighIs
  <2>3. 0 + w[s] = w[s]
    BY <2>1
  <2> QED
    BY <2>1, <2>2, <2>3
<1>2. ASSUME NEW k \in 0..Len(ss)
      PROVE  Weigh(w, ss) = Weigh(w, SubSeq(ss, 1, k)) + Weigh(w, SubSeq(ss, k + 1, Len(ss)))
  <2>1. /\ SubSeq(ss, 1, k) \in Seq(T) /\ SubSeq(ss, k + 1, Len(ss)) \in Seq(T)
        /\ ss = SubSeq(ss, 1, k) \o SubSeq(ss, k + 1, Len(ss))
    BY SplitAt
  <2> QED
    BY <2>1, WeighConcat
<1>3. ASSUME NEW k \in 0..(Len(ss) - 1)
      PROVE  Weigh(w, SubSeq(ss, 1, k + 1)) = Weigh(w, SubSeq(ss, 1, k)) + w[ss[k + 1]]
  <2>1. /\ SubSeq(ss, 1, k) \in Seq(T) /\ ss[k + 1] \in T
        /\ SubSeq(ss, 1, k + 1) = Append(SubSeq(ss, 1, k), ss[k + 1])
    OBVIOUS
  <2> QED
    BY <2>1, WeighIs
<1> QED
  BY <1>1, <1>2, <1>3

\* One element replaced.
LEMMA WeighReplaced ==
  ASSUME NEW T, NEW w \in [T -> Int], NEW ss \in Seq(T), NEW i \in 1..Len(ss), NEW s \in T
  PROVE  /\ [ss EXCEPT ![i] = s] \in Seq(T)
         /\ Weigh(w, [ss EXCEPT ![i] = s]) = (Weigh(w, ss) - w[ss[i]]) + w[s]
<1> DEFINE tt == [ss EXCEPT ![i] = s]
           x == SubSeq(ss, 1, i - 1)
           y == SubSeq(ss, i + 1, Len(ss))
<1>1. tt \in Seq(T) /\ Len(tt) = Len(ss) /\ tt[i] = s /\ \A j \in 1..Len(ss) : j # i => tt[j] = ss[j]
  OBVIOUS
<1>2. x \in Seq(T) /\ y \in Seq(T) /\ i - 1 \in 0..(Len(ss) - 1) /\ i \in 0..Len(ss)
      /\ (i - 1) + 1 = i /\ ss[i] \in T
  OBVIOUS
<1>3. SubSeq(tt, 1, i - 1) = x /\ SubSeq(tt, i + 1, Len(tt)) = y
  OBVIOUS
<1> HIDE DEF tt, x, y
<1>4. /\ Weigh(w, ss) = Weigh(w, SubSeq(ss, 1, i)) + Weigh(w, y)
      /\ Weigh(w, SubSeq(ss, 1, i)) = Weigh(w, x) + w[ss[i]]
  BY <1>2, WeighParts DEF x, y
<1>5. /\ Weigh(w, tt) = Weigh(w, SubSeq(tt, 1, i)) + Weigh(w, y)
      /\ Weigh(w, SubSeq(tt, 1, i)) = Weigh(w, x) + w[s]
  <2>1. i - 1 \in 0..(Len(tt) - 1) /\ i \in 0..Len(tt)
    BY <1>1, <1>2
  <2>2. /\ Weigh(w, tt) = Weigh(w, SubSeq(tt, 1, i)) + Weigh(w, SubSeq(tt, i + 1, Len(tt)))
        /\ Weigh(w, SubSeq(tt, 1, (i - 1) + 1)) = Weigh(w, SubSeq(tt, 1, i - 1)) + w[tt[(i - 1) + 1]]
    BY <1>1, <2>1, WeighParts
  <2> QED
    BY <1>1, <1>2, <1>3, <2>2
<1>6. Weigh(w, x) \in Int /\ Weigh(w, y) \in Int /\ w[s] \in Int /\ w[ss[i]] \in Int
  BY <1>2, WeighType
<1>7. Weigh(w, tt) = (Weigh(w, ss) - w[ss[i]]) + w[s]
  BY <1>4, <1>5, <1>6
<1> QED
  BY <1>1, <1>7 DEF tt

------------------------------------------------------------------------------
(* How often an element is in a sequence *)

Count(ts, t) == Cardinality({j \in DOMAIN ts : ts[j] = t})

\* Counts are numbers, and nothing is counted in <<>>.
LEMMA CountType ==
  ASSUME NEW T, NEW ts \in Seq(T), NEW t
  PROVE  /\ Count(<<>>, t) = 0
         /\ Count(ts, t) \in Nat
         /\ IsFiniteSet({j \in DOMAIN ts : ts[j] = t})
<1>1. {j \in DOMAIN <<>> : <<>>[j] = t} = {}
  OBVIOUS
<1>2. IsFiniteSet(1..Len(ts)) /\ {j \in DOMAIN ts : ts[j] = t} \in SUBSET (1..Len(ts))
  BY FS_Interval
<1> QED
  BY <1>1, <1>2, FS_EmptySet, FS_Subset, FS_CardinalityType DEF Count

\* Counting element by element.
LEMMA CountIs ==
  ASSUME NEW T, NEW ts \in Seq(T), NEW u \in T, NEW t
  PROVE  Count(Append(ts, u), t) = Count(ts, t) + (IF u = t THEN 1 ELSE 0)
<1> DEFINE P == {j \in DOMAIN ts : ts[j] = t}
           Q == {j \in DOMAIN Append(ts, u) : Append(ts, u)[j] = t}
<1>1. IsFiniteSet(P) /\ Cardinality(P) \in Nat
  BY CountType DEF Count
<1>2. Q = IF u = t THEN P \cup {Len(ts) + 1} ELSE P
  OBVIOUS
<1>3. Len(ts) + 1 \notin P
  OBVIOUS
<1>4. Cardinality(Q) = Cardinality(P) + (IF u = t THEN 1 ELSE 0)
  <2> HIDE DEF P, Q
  <2>1. CASE u = t
    BY <1>1, <1>2, <1>3, <2>1, FS_AddElement
  <2>2. CASE u # t
    BY <1>1, <1>2, <2>2
  <2> QED
    BY <2>1, <2>2
<1> QED
  BY <1>4 DEF Count

\* Counting in two sequences behind each other.
LEMMA CountConcat ==
  ASSUME NEW T, NEW ts \in Seq(T), NEW us \in Seq(T), NEW t
  PROVE  Count(ts \o us, t) = Count(ts, t) + Count(us, t)
<1> DEFINE S == {vs \in Seq(T) : Count(ts \o vs, t) = Count(ts, t) + Count(vs, t)}
<1>1. <<>> \in S
  <2>1. Count(<<>>, t) = 0 /\ Count(ts, t) \in Nat /\ ts \o <<>> = ts
    BY CountType, ConcatEmptySeq
  <2> QED
    BY <2>1
<1>2. ASSUME NEW vs \in Seq(T), NEW v \in T, vs \in S
      PROVE  Append(vs, v) \in S
  <2>1. ts \o Append(vs, v) = Append(ts \o vs, v) /\ ts \o vs \in Seq(T) /\ Append(vs, v) \in Seq(T)
    OBVIOUS
  <2>2. /\ Count(Append(ts \o vs, v), t) = Count(ts \o vs, t) + (IF v = t THEN 1 ELSE 0)
        /\ Count(Append(vs, v), t) = Count(vs, t) + (IF v = t THEN 1 ELSE 0)
    <3>1. ASSUME NEW ws \in Seq(T)
          PROVE  Count(Append(ws, v), t) = Count(ws, t) + (IF v = t THEN 1 ELSE 0)
      BY CountIs
    <3> QED
      BY <2>1, <3>1
  <2>3. /\ Count(ts \o vs, t) = Count(ts, t) + Count(vs, t)
        /\ Count(ts, t) \in Nat /\ Count(vs, t) \in Nat
    BY <1>2, CountType
  <2>4. Count(ts \o Append(vs, v), t) = Count(ts, t) + Count(Append(vs, v), t)
    BY <2>1, <2>2, <2>3
  <2> QED
    BY <2>1, <2>4
<1> HIDE DEF S
<1>3. us \in S
  BY <1>1, <1>2, Adding!SequenceInduction
<1> QED
  BY <1>3 DEF S

------------------------------------------------------------------------------
(* Slices: their bytes, charges and trackers *)

Byte == Nat \ {0}

Payer == Accounts \cup {None}

\* Bytes behind each other.
LEMMA Concatenation ==
  /\ <<>> \in Seq(Byte) /\ Len(<<>>) = 0
  /\ \A x \in Seq(Byte) : x \o <<>> = x /\ <<>> \o x = x
  /\ \A x, y \in Seq(Byte) : x \o y \in Seq(Byte) /\ Len(x \o y) = Len(x) + Len(y)
  /\ \A x, y, z \in Seq(Byte) : (x \o y) \o z = x \o (y \o z)
<1>1. \A x \in Seq(Byte) : x \o <<>> = x /\ <<>> \o x = x
  BY ConcatEmptySeq
<1>2. \A x, y \in Seq(Byte) : x \o y \in Seq(Byte) /\ Len(x \o y) = Len(x) + Len(y)
  BY ConcatProperties
<1>3. \A x, y, z \in Seq(Byte) : (x \o y) \o z = x \o (y \o z)
  BY ConcatAssociative
<1>4. <<>> \in Seq(Byte) /\ Len(<<>>) = 0
  OBVIOUS
<1> QED
  BY <1>1, <1>2, <1>3, <1>4

\* Three sequences of bytes behind each other.
LEMMA Associative ==
  ASSUME NEW x \in Seq(Byte), NEW y \in Seq(Byte), NEW z \in Seq(Byte)
  PROVE  (x \o y) \o z = x \o (y \o z)
BY Concatenation, ZenonT(30)

\* Bytes taken apart.
LEMMA BytesSplit ==
  ASSUME NEW x \in Seq(Byte), NEW k \in 0..Len(x)
  PROVE  /\ SubSeq(x, 1, k) \in Seq(Byte) /\ SubSeq(x, k + 1, Len(x)) \in Seq(Byte)
         /\ Len(SubSeq(x, 1, k)) = k /\ Len(SubSeq(x, k + 1, Len(x))) = Len(x) - k
         /\ Len(SubSeq(x, k + 1, Len(x))) \in Nat
         /\ SubSeq(x, 1, k) \o SubSeq(x, k + 1, Len(x)) = x
<1>1. /\ SubSeq(x, 1, k) \in Seq(Byte) /\ SubSeq(x, k + 1, Len(x)) \in Seq(Byte)
      /\ Len(SubSeq(x, 1, k)) = k /\ Len(SubSeq(x, k + 1, Len(x))) = Len(x) - k
      /\ x = SubSeq(x, 1, k) \o SubSeq(x, k + 1, Len(x))
  BY SplitAt, ZenonT(30)
<1>2. Len(x) - k \in Nat
  OBVIOUS
<1> QED
  BY <1>1, <1>2, Zenon

\* What makes a record a slice.
LEMMA SliceIs ==
  /\ \A s \in Slice : /\ s.data \in Seq(Byte) /\ s.off \in Nat /\ s.cap \in Nat
                      /\ s.owned \in BOOLEAN /\ s.trackers \in Seq(Callbacks)
                      /\ s.account \in Payer /\ s.off + Len(s.data) <= s.cap
  /\ \A data \in Seq(Byte), off, cap \in Nat, owned \in BOOLEAN,
        trackers \in Seq(Callbacks), a \in Payer :
       off + Len(data) <= cap =>
         [data |-> data, off |-> off, cap |-> cap, owned |-> owned,
          trackers |-> trackers, account |-> a] \in Slice
BY SMTT(30) DEF Slice, Byte, Payer, ReservableSize

\* The bytes of a slice, what it charges account a, and how often it has tracker t.
SizeOf == [s \in Slice |-> Len(s.data)]

ChargeOf(a) == [s \in Slice |-> IF s.account = a THEN s.cap ELSE 0]

MarksOf(t) == [s \in Slice |-> Count(s.trackers, t)]

\* They are weights.
LEMMA WeightsOfSlices ==
  /\ SizeOf \in [Slice -> Int] /\ \A s \in Slice : SizeOf[s] = Len(s.data) /\ SizeOf[s] \in Nat
  /\ \A a : /\ ChargeOf(a) \in [Slice -> Int]
            /\ \A s \in Slice : /\ ChargeOf(a)[s] = IF s.account = a THEN s.cap ELSE 0
                                /\ ChargeOf(a)[s] \in Nat
  /\ \A t : /\ MarksOf(t) \in [Slice -> Int]
            /\ \A s \in Slice : MarksOf(t)[s] = Count(s.trackers, t) /\ MarksOf(t)[s] \in Nat
<1>1. \A s \in Slice : Len(s.data) \in Nat /\ s.cap \in Nat
  BY SliceIs
<1>2. \A s \in Slice : \A t : Count(s.trackers, t) \in Nat
  BY SliceIs, CountType
<1>3. /\ SizeOf \in [Slice -> Int]
      /\ \A s \in Slice : SizeOf[s] = Len(s.data) /\ SizeOf[s] \in Nat
  BY <1>1 DEF SizeOf
<1>4. ASSUME NEW a
      PROVE  /\ ChargeOf(a) \in [Slice -> Int]
             /\ \A s \in Slice : /\ ChargeOf(a)[s] = IF s.account = a THEN s.cap ELSE 0
                                 /\ ChargeOf(a)[s] \in Nat
  BY <1>1 DEF ChargeOf
<1>5. ASSUME NEW t
      PROVE  /\ MarksOf(t) \in [Slice -> Int]
             /\ \A s \in Slice : MarksOf(t)[s] = Count(s.trackers, t) /\ MarksOf(t)[s] \in Nat
  BY <1>2 DEF MarksOf
<1> QED
  BY <1>3, <1>4, <1>5

\* The sums of the model weigh slices.
LEMMA SumsWeigh ==
  ASSUME NEW ss \in Seq(Slice)
  PROVE  /\ Size(ss) = Weigh(SizeOf, ss)
         /\ \A a : ChargedTo(ss, a) = Weigh(ChargeOf(a), ss)
         /\ \A t : Attached(ss, t) = Weigh(MarksOf(t), ss)
<1>1. \A i \in DOMAIN ss : ss[i] \in Slice
  OBVIOUS
<1>2. Size(ss) = Weigh(SizeOf, ss)
  <2>1. [i \in DOMAIN ss |-> DataSize(ss[i])] = [i \in DOMAIN ss |-> SizeOf[ss[i]]]
    BY <1>1 DEF DataSize, SizeOf
  <2> QED
    BY <2>1 DEF Size, Weigh
<1>3. ASSUME NEW a
      PROVE  ChargedTo(ss, a) = Weigh(ChargeOf(a), ss)
  <2>1. [i \in DOMAIN ss |-> IF ss[i].account = a THEN ss[i].cap ELSE 0]
          = [i \in DOMAIN ss |-> ChargeOf(a)[ss[i]]]
    BY <1>1 DEF ChargeOf
  <2> QED
    BY <2>1 DEF ChargedTo, Weigh
<1>4. ASSUME NEW t
      PROVE  Attached(ss, t) = Weigh(MarksOf(t), ss)
  <2>1. [i \in DOMAIN ss |-> Cardinality({j \in DOMAIN ss[i].trackers : ss[i].trackers[j] = t})]
          = [i \in DOMAIN ss |-> MarksOf(t)[ss[i]]]
    BY <1>1 DEF MarksOf, Count
  <2> QED
    BY <2>1 DEF Attached, Weigh
<1> QED
  BY <1>2, <1>3, <1>4

Joining == INSTANCE FoldTheorems WITH Op <- Joined

\* The recursion equations of Flat.
LEMMA FlatIs ==
  /\ Flat(<<>>) = <<>>
  /\ \A ss \in Seq(Slice), s \in Slice : Flat(Append(ss, s)) = Flat(ss) \o s.data
<1>1. \A ss : Flat(ss) = Joining!Fold(<<>>, ss)
  BY DEF Flat, FoldLeft, MapThenFoldSet, Max, Joining!Fold,
       Joining!MapThenFoldSet, Joining!Latest
<1>2. ASSUME NEW ss \in Seq(Slice), NEW s \in Slice
      PROVE  Flat(Append(ss, s)) = Flat(ss) \o s.data
  <2>1. Joining!Fold(<<>>, Append(ss, s)) = Joined(Joining!Fold(<<>>, ss), s)
    BY Joining!FoldOfAppend
  <2> QED
    BY <1>1, <2>1 DEF Joined
<1> QED
  BY <1>1, <1>2, Joining!FoldOfNone

\* Slices hold as many bytes as their sizes say.
LEMMA FlatType ==
  ASSUME NEW ss \in Seq(Slice)
  PROVE  Flat(ss) \in Seq(Byte) /\ Len(Flat(ss)) = Weigh(SizeOf, ss)
<1> DEFINE S == {tt \in Seq(Slice) : Flat(tt) \in Seq(Byte) /\ Len(Flat(tt)) = Weigh(SizeOf, tt)}
<1>0. SizeOf \in [Slice -> Int] /\ \A s \in Slice : SizeOf[s] = Len(s.data)
  BY WeightsOfSlices
<1>1. <<>> \in S
  <2>1. Weigh(SizeOf, <<>>) = 0
    BY <1>0, WeighIs
  <2>2. Flat(<<>>) = <<>>
    BY FlatIs
  <2>3. <<>> \in Seq(Byte) /\ Len(<<>>) = 0 /\ <<>> \in Seq(Slice)
    OBVIOUS
  <2> QED
    BY <2>1, <2>2, <2>3, Zenon
<1>2. ASSUME NEW tt \in Seq(Slice), NEW s \in Slice, tt \in S
      PROVE  Append(tt, s) \in S
  <2>1. /\ Flat(Append(tt, s)) = Flat(tt) \o s.data
        /\ Weigh(SizeOf, Append(tt, s)) = Weigh(SizeOf, tt) + Len(s.data)
    <3>1. Flat(Append(tt, s)) = Flat(tt) \o s.data
      BY FlatIs
    <3>2. Weigh(SizeOf, Append(tt, s)) = Weigh(SizeOf, tt) + SizeOf[s]
      BY <1>0, WeighIs
    <3> QED
      BY <1>0, <3>1, <3>2
  <2>2. s.data \in Seq(Byte) /\ Flat(tt) \in Seq(Byte) /\ Len(Flat(tt)) = Weigh(SizeOf, tt)
    BY <1>2, SliceIs
  <2>3. /\ Flat(tt) \o s.data \in Seq(Byte)
        /\ Len(Flat(tt) \o s.data) = Weigh(SizeOf, tt) + Len(s.data)
        /\ Append(tt, s) \in Seq(Slice)
    <3>1. Append(tt, s) \in Seq(Slice)
      OBVIOUS
    <3>2. Flat(tt) \o s.data \in Seq(Byte) /\ Len(Flat(tt) \o s.data) = Len(Flat(tt)) + Len(s.data)
      BY <2>2, Concatenation, Zenon
    <3> QED
      BY <2>2, <3>1, <3>2, Zenon
  <2> QED
    BY <2>1, <2>3, Zenon
<1> HIDE DEF S
<1>3. ss \in S
  BY <1>1, <1>2, Adding!SequenceInduction
<1> QED
  BY <1>3 DEF S

\* The bytes of slices behind each other.
LEMMA FlatConcat ==
  ASSUME NEW ss \in Seq(Slice), NEW tt \in Seq(Slice)
  PROVE  Flat(ss \o tt) = Flat(ss) \o Flat(tt)
<1> DEFINE S == {uu \in Seq(Slice) : Flat(ss \o uu) = Flat(ss) \o Flat(uu)}
<1>1. <<>> \in S
  <2>1. Flat(ss) \in Seq(Byte)
    BY FlatType
  <2>2. ss \o <<>> = ss /\ <<>> \in Seq(Slice)
    BY ConcatEmptySeq
  <2>3. Flat(ss) \o <<>> = Flat(ss)
    BY <2>1, Concatenation, Zenon
  <2> QED
    BY <2>2, <2>3, FlatIs, Zenon
<1>2. ASSUME NEW uu \in Seq(Slice), NEW u \in Slice, uu \in S
      PROVE  Append(uu, u) \in S
  <2>1. /\ ss \o Append(uu, u) = Append(ss \o uu, u)
        /\ ss \o uu \in Seq(Slice) /\ Append(uu, u) \in Seq(Slice)
    OBVIOUS
  <2>2. \A vv \in Seq(Slice) : Flat(Append(vv, u)) = Flat(vv) \o u.data
    BY FlatIs
  <2>3. /\ Flat(ss) \in Seq(Byte) /\ Flat(uu) \in Seq(Byte) /\ u.data \in Seq(Byte)
        /\ Flat(ss \o uu) = Flat(ss) \o Flat(uu)
    BY <1>2, FlatType, SliceIs
  <2>4. (Flat(ss) \o Flat(uu)) \o u.data = Flat(ss) \o (Flat(uu) \o u.data)
    BY <2>3, Concatenation, Zenon
  <2>5. Flat(ss \o Append(uu, u)) = Flat(ss) \o Flat(Append(uu, u))
    <3>1. Flat(ss \o Append(uu, u)) = (Flat(ss) \o Flat(uu)) \o u.data
      BY <2>1, <2>2, <2>3, Zenon
    <3>2. Flat(Append(uu, u)) = Flat(uu) \o u.data
      BY <2>2, Zenon
    <3> QED
      BY <2>4, <3>1, <3>2, Zenon
  <2> QED
    BY <2>1, <2>5
<1> HIDE DEF S
<1>3. tt \in S
  BY <1>1, <1>2, Adding!SequenceInduction
<1> QED
  BY <1>3 DEF S

------------------------------------------------------------------------------
(* Charging, calling trackers and destroying slices *)

\* The buffers that the methods of the model work on.
Context ==
  [slices : Seq(Slice), length : Int, account : Payer, balance : [Accounts -> Int],
   ran : [Callbacks -> Nat], written : BOOLEAN]

\* d is c but for the balances and the numbers of calls.
OnlyAccounts(c, d) ==
  /\ d \in Context
  /\ d.slices = c.slices /\ d.length = c.length /\ d.account = c.account /\ d.written = c.written

\* charge() and credit() change one balance.
LEMMA ChargeIs ==
  ASSUME NEW c \in Context, NEW a \in Payer, NEW n \in Int
  PROVE  LET d == Charge(c, a, n)
         IN /\ OnlyAccounts(c, d)
            /\ d.ran = c.ran
            /\ \A x \in Accounts : d.balance[x] = c.balance[x] + (IF x = a THEN n ELSE 0)
<1>1. CASE a = None
  BY <1>1, BufferAssumption DEF Charge, OnlyAccounts, Context, BufferAssumption
<1>2. CASE a # None
  <2> DEFINE f == [c.balance EXCEPT ![a] = c.balance[a] + n]
             d == [c EXCEPT !.balance = f]
  <2>1. a \in Accounts /\ c.balance \in [Accounts -> Int]
    BY <1>2 DEF Payer, Context
  <2>2. /\ f \in [Accounts -> Int]
        /\ \A x \in Accounts : f[x] = c.balance[x] + (IF x = a THEN n ELSE 0)
    BY <2>1
  <2>3. Charge(c, a, n) = d
    BY <1>2 DEF Charge
  <2> HIDE DEF f
  <2>4. OnlyAccounts(c, d) /\ d.ran = c.ran /\ d.balance = f
    BY <2>2 DEF OnlyAccounts, Context
  <2> HIDE DEF d
  <2> QED
    BY <2>2, <2>3, <2>4
<1> QED
  BY <1>1, <1>2

Calling == INSTANCE FoldTheorems WITH Op <- CallTracker

\* The trackers of a slice are each called as often as they are attached.
LEMMA CallTrackersIs ==
  ASSUME NEW c \in Context, NEW ts \in Seq(Callbacks)
  PROVE  LET d == CallTrackers(c, ts)
         IN /\ OnlyAccounts(c, d)
            /\ d.balance = c.balance
            /\ \A t \in Callbacks : d.ran[t] = c.ran[t] + Count(ts, t)
<1> DEFINE Good(us) == LET d == CallTrackers(c, us)
                       IN /\ OnlyAccounts(c, d)
                          /\ d.balance = c.balance
                          /\ \A t \in Callbacks : d.ran[t] = c.ran[t] + Count(us, t)
           S == {us \in Seq(Callbacks) : Good(us)}
<1>1. \A us : CallTrackers(c, us) = Calling!Fold(c, us)
  BY DEF CallTrackers, FoldLeft, MapThenFoldSet, Max, Calling!Fold,
       Calling!MapThenFoldSet, Calling!Latest
<1>2. Good(<<>>)
  <2>1. CallTrackers(c, <<>>) = c
    BY <1>1, Calling!FoldOfNone
  <2>2. \A t \in Callbacks : Count(<<>>, t) = 0
    BY CountType
  <2>3. OnlyAccounts(c, c) /\ c.ran \in [Callbacks -> Nat]
    BY DEF OnlyAccounts, Context
  <2> QED
    BY <2>1, <2>2, <2>3
<1>3. ASSUME NEW us \in Seq(Callbacks), NEW u \in Callbacks, Good(us)
      PROVE  Good(Append(us, u))
  <2> DEFINE d == CallTrackers(c, us)
             e == CallTracker(d, u)
  <2>1. CallTrackers(c, Append(us, u)) = e
    <3>1. Calling!Fold(c, Append(us, u)) = CallTracker(Calling!Fold(c, us), u)
      BY Calling!FoldOfAppend
    <3> QED
      BY <1>1, <3>1
  <2>2. \A t \in Callbacks : Count(Append(us, u), t) = Count(us, t) + (IF u = t THEN 1 ELSE 0)
    BY CountIs
  <2>3. /\ OnlyAccounts(c, d) /\ d.balance = c.balance
        /\ \A t \in Callbacks : d.ran[t] = c.ran[t] + Count(us, t)
    BY <1>3
  <2>4. \A t \in Callbacks : Count(us, t) \in Nat /\ c.ran[t] \in Nat
    BY CountType DEF Context
  <2> HIDE DEF d
  <2>5. /\ e.slices = d.slices /\ e.length = d.length /\ e.account = d.account
        /\ e.written = d.written /\ e.balance = d.balance /\ e \in Context
        /\ \A t \in Callbacks : e.ran[t] = d.ran[t] + (IF u = t THEN 1 ELSE 0)
    <3> DEFINE f == [d.ran EXCEPT ![u] = d.ran[u] + 1]
    <3>1. d \in Context /\ d.ran \in [Callbacks -> Nat]
      BY <2>3 DEF OnlyAccounts, Context
    <3>2. f \in [Callbacks -> Nat] /\ \A t \in Callbacks : f[t] = d.ran[t] + (IF u = t THEN 1 ELSE 0)
      BY <3>1
    <3>3. e = [d EXCEPT !.ran = f]
      BY DEF CallTracker
    <3> HIDE DEF f, e
    <3> QED
      BY <3>1, <3>2, <3>3 DEF Context
  <2> HIDE DEF e
  <2>6. ASSUME NEW t \in Callbacks
        PROVE  e.ran[t] = c.ran[t] + Count(Append(us, u), t)
    <3>1. Count(Append(us, u), t) = Count(us, t) + (IF u = t THEN 1 ELSE 0)
      BY <2>2
    <3>2. e.ran[t] = (c.ran[t] + Count(us, t)) + (IF u = t THEN 1 ELSE 0)
      <4>1. d.ran[t] = c.ran[t] + Count(us, t)
        BY <2>3, Zenon
      <4>2. e.ran[t] = d.ran[t] + (IF u = t THEN 1 ELSE 0)
        BY <2>5, Zenon
      <4> QED
        BY <4>1, <4>2, Zenon
    <3>3. Count(us, t) \in Nat /\ c.ran[t] \in Nat
      BY <2>4
    <3> DEFINE before == Count(us, t)
               one == IF u = t THEN 1 ELSE 0
               all == Count(Append(us, u), t)
    <3>4. all = before + one /\ e.ran[t] = (c.ran[t] + before) + one
      BY <3>1, <3>2, Zenon
    <3>5. before \in Nat /\ one \in Nat /\ c.ran[t] \in Nat
      BY <3>3
    <3> HIDE DEF before, one, all
    <3>6. e.ran[t] = c.ran[t] + all
      BY <3>4, <3>5
    <3> QED
      BY <3>6, Zenon DEF all
  <2>7. OnlyAccounts(c, e) /\ e.balance = c.balance
    BY <2>3, <2>5 DEF OnlyAccounts
  <2> QED
    BY <2>1, <2>6, <2>7
<1> HIDE DEF Good
<1>4. <<>> \in S /\ \A us \in Seq(Callbacks), u \in Callbacks : us \in S => Append(us, u) \in S
  BY <1>2, <1>3
<1> HIDE DEF S
<1>5. ts \in S
  BY <1>4, Calling!SequenceInduction
<1> QED
  BY <1>5 DEF S, Good

\* A slice is destroyed: its trackers are called and its charge is credited.
LEMMA ReleaseIs ==
  ASSUME NEW c \in Context, NEW s \in Slice
  PROVE  LET d == Release(c, s)
         IN /\ OnlyAccounts(c, d)
            /\ \A a \in Accounts : d.balance[a] = c.balance[a] - ChargeOf(a)[s]
            /\ \A t \in Callbacks : d.ran[t] = c.ran[t] + MarksOf(t)[s]
<1> DEFINE d == CallTrackers(c, s.trackers)
           e == Charge(d, s.account, -s.cap)
<1>1. s.trackers \in Seq(Callbacks) /\ s.account \in Payer /\ s.cap \in Nat /\ -s.cap \in Int
  BY SliceIs
<1>2. /\ OnlyAccounts(c, d) /\ d.balance = c.balance
      /\ \A t \in Callbacks : d.ran[t] = c.ran[t] + Count(s.trackers, t)
  BY <1>1, CallTrackersIs
<1>3. d \in Context
  BY <1>2 DEF OnlyAccounts
<1> HIDE DEF d
<1>4. /\ OnlyAccounts(d, e) /\ e.ran = d.ran
      /\ \A x \in Accounts : e.balance[x] = d.balance[x] + (IF x = s.account THEN -s.cap ELSE 0)
  BY <1>1, <1>3, ChargeIs
<1>5. \A a \in Accounts : c.balance[a] \in Int
  BY DEF Context
<1> HIDE DEF e
<1>6. \A a \in Accounts : e.balance[a] = c.balance[a] - ChargeOf(a)[s]
  <2> SUFFICES ASSUME NEW a \in Accounts
               PROVE  e.balance[a] = c.balance[a] - ChargeOf(a)[s]
    OBVIOUS
  <2>1. ChargeOf(a)[s] = IF s.account = a THEN s.cap ELSE 0
    BY WeightsOfSlices
  <2> QED
    BY <1>1, <1>2, <1>4, <1>5, <2>1
<1>7. \A t \in Callbacks : e.ran[t] = c.ran[t] + MarksOf(t)[s]
  BY <1>2, <1>4, WeightsOfSlices
<1>8. OnlyAccounts(c, e)
  BY <1>2, <1>4 DEF OnlyAccounts
<1> QED
  BY <1>6, <1>7, <1>8 DEF Release, d, e
Releasing == INSTANCE FoldTheorems WITH Op <- Release

\* Slices are destroyed one after the other.
LEMMA ReleaseAllIs ==
  ASSUME NEW c \in Context, NEW ss \in Seq(Slice)
  PROVE  LET d == ReleaseAll(c, ss)
         IN /\ OnlyAccounts(c, d)
            /\ \A a \in Accounts : d.balance[a] = c.balance[a] - Weigh(ChargeOf(a), ss)
            /\ \A t \in Callbacks : d.ran[t] = c.ran[t] + Weigh(MarksOf(t), ss)
<1> DEFINE Good(tt) ==
             LET d == ReleaseAll(c, tt)
             IN /\ OnlyAccounts(c, d)
                /\ \A a \in Accounts : d.balance[a] = c.balance[a] - Weigh(ChargeOf(a), tt)
                /\ \A t \in Callbacks : d.ran[t] = c.ran[t] + Weigh(MarksOf(t), tt)
           S == {tt \in Seq(Slice) : Good(tt)}
<1>1. \A tt : ReleaseAll(c, tt) = Releasing!Fold(c, tt)
  BY DEF ReleaseAll, FoldLeft, MapThenFoldSet, Max, Releasing!Fold,
       Releasing!MapThenFoldSet, Releasing!Latest
<1>2. ASSUME NEW w \in [Slice -> Int]
      PROVE  /\ Weigh(w, <<>>) = 0
             /\ \A tt \in Seq(Slice) : Weigh(w, tt) \in Int
             /\ \A tt \in Seq(Slice), s \in Slice : Weigh(w, Append(tt, s)) = Weigh(w, tt) + w[s]
  BY WeighIs, WeighType
<1>3. /\ \A a : ChargeOf(a) \in [Slice -> Int]
      /\ \A t : MarksOf(t) \in [Slice -> Int]
  BY WeightsOfSlices
<1>4. /\ \A a \in Accounts : c.balance[a] \in Int
      /\ \A t \in Callbacks : c.ran[t] \in Int
  BY DEF Context
<1>5. Good(<<>>)
  <2>1. ReleaseAll(c, <<>>) = c
    BY <1>1, Releasing!FoldOfNone
  <2>2. OnlyAccounts(c, c)
    BY DEF OnlyAccounts
  <2>3. /\ \A a : Weigh(ChargeOf(a), <<>>) = 0
        /\ \A t : Weigh(MarksOf(t), <<>>) = 0
    BY <1>2, <1>3
  <2> QED
    BY <1>4, <2>1, <2>2, <2>3
<1>6. ASSUME NEW tt \in Seq(Slice), NEW s \in Slice, Good(tt)
      PROVE  Good(Append(tt, s))
  <2> DEFINE d == ReleaseAll(c, tt)
             e == Release(d, s)
  <2>1. ReleaseAll(c, Append(tt, s)) = e
    <3>1. Releasing!Fold(c, Append(tt, s)) = Release(Releasing!Fold(c, tt), s)
      BY Releasing!FoldOfAppend
    <3> QED
      BY <1>1, <3>1
  <2>2. /\ OnlyAccounts(c, d)
        /\ \A a \in Accounts : d.balance[a] = c.balance[a] - Weigh(ChargeOf(a), tt)
        /\ \A t \in Callbacks : d.ran[t] = c.ran[t] + Weigh(MarksOf(t), tt)
    BY <1>6
  <2> HIDE DEF d
  <2>3. d \in Context
    BY <2>2 DEF OnlyAccounts
  <2>4. /\ OnlyAccounts(d, e)
        /\ \A a \in Accounts : e.balance[a] = d.balance[a] - ChargeOf(a)[s]
        /\ \A t \in Callbacks : e.ran[t] = d.ran[t] + MarksOf(t)[s]
    BY <2>3, ReleaseIs
  <2> HIDE DEF e
  <2>5. OnlyAccounts(c, e)
    BY <2>2, <2>4 DEF OnlyAccounts
  <2>6. ASSUME NEW a \in Accounts
        PROVE  e.balance[a] = c.balance[a] - Weigh(ChargeOf(a), Append(tt, s))
    <3>1. Weigh(ChargeOf(a), Append(tt, s)) = Weigh(ChargeOf(a), tt) + ChargeOf(a)[s]
      BY <1>2, <1>3
    <3>2. Weigh(ChargeOf(a), tt) \in Int /\ ChargeOf(a)[s] \in Int
      BY <1>2, <1>3
    <3>3. e.balance[a] = (c.balance[a] - Weigh(ChargeOf(a), tt)) - ChargeOf(a)[s]
      BY <2>2, <2>4, Zenon
    <3> QED
      BY <1>4, <3>1, <3>2, <3>3
  <2>7. ASSUME NEW t \in Callbacks
        PROVE  e.ran[t] = c.ran[t] + Weigh(MarksOf(t), Append(tt, s))
    <3>1. Weigh(MarksOf(t), Append(tt, s)) = Weigh(MarksOf(t), tt) + MarksOf(t)[s]
      BY <1>2, <1>3
    <3>2. Weigh(MarksOf(t), tt) \in Int /\ MarksOf(t)[s] \in Int
      BY <1>2, <1>3
    <3>3. e.ran[t] = (c.ran[t] + Weigh(MarksOf(t), tt)) + MarksOf(t)[s]
      BY <2>2, <2>4, Zenon
    <3> QED
      BY <1>4, <3>1, <3>2, <3>3
  <2> QED
    BY <2>1, <2>5, <2>6, <2>7
<1> HIDE DEF Good
<1>7. <<>> \in S /\ \A tt \in Seq(Slice), s \in Slice : tt \in S => Append(tt, s) \in S
  BY <1>5, <1>6
<1> HIDE DEF S
<1>8. ss \in S
  BY <1>7, Releasing!SequenceInduction
<1> QED
  BY <1>8 DEF S, Good

------------------------------------------------------------------------------
(* What the methods of a buffer do to its bytes, its charges and its trackers *)

\* What the slices of c and the accounts disagree about.
Debt(c, a) == c.balance[a] - Weigh(ChargeOf(a), c.slices)

\* How often t has been called or is attached in c.
Marks(c, t) == c.ran[t] + Weigh(MarksOf(t), c.slices)

\* Buffer c becomes d, which takes over the slices ss: their charges, so that
\* nothing is charged twice or never credited, and their trackers, which are
\* attached to a slice or have been called.
TakesOver(c, d, ss) ==
  /\ d \in Context /\ d.account = c.account
  /\ \A a \in Accounts : Debt(d, a) = Debt(c, a) - Weigh(ChargeOf(a), ss)
  /\ \A t \in Callbacks : Marks(d, t) = Marks(c, t) + Weigh(MarksOf(t), ss)

\* Debts and marks are numbers.
LEMMA DebtType ==
  ASSUME NEW c \in Context
  PROVE  /\ \A a \in Accounts : Debt(c, a) \in Int /\ c.balance[a] \in Int
         /\ \A t \in Callbacks : Marks(c, t) \in Int /\ c.ran[t] \in Int
         /\ c.slices \in Seq(Slice) /\ Flat(c.slices) \in Seq(Byte) /\ c.length \in Int
<1>1. c.slices \in Seq(Slice) /\ c.length \in Int
  BY DEF Context
<1>2. /\ \A a : Weigh(ChargeOf(a), c.slices) \in Int
      /\ \A t : Weigh(MarksOf(t), c.slices) \in Int
  BY <1>1, WeighType, WeightsOfSlices
<1>3. /\ \A a \in Accounts : c.balance[a] \in Int
      /\ \A t \in Callbacks : c.ran[t] \in Int
  BY DEF Context
<1> QED
  BY <1>1, <1>2, <1>3, FlatType DEF Debt, Marks

\* The laws of the weights of slices.
IsWeight(w) ==
  /\ w \in [Slice -> Int]
  /\ Weigh(w, <<>>) = 0
  /\ \A s \in Slice : w[s] \in Nat /\ Weigh(w, <<s>>) = w[s]
  /\ \A ss \in Seq(Slice) : Weigh(w, ss) \in Nat
  /\ \A ss \in Seq(Slice), s \in Slice : Weigh(w, Append(ss, s)) = Weigh(w, ss) + w[s]
  /\ \A ss, tt \in Seq(Slice) : Weigh(w, ss \o tt) = Weigh(w, ss) + Weigh(w, tt)

\* Sizes, charges and marks obey them.
LEMMA SliceWeights ==
  IsWeight(SizeOf) /\ (\A a : IsWeight(ChargeOf(a))) /\ (\A t : IsWeight(MarksOf(t)))
<1>1. ASSUME NEW w \in [Slice -> Int], \A s \in Slice : w[s] \in Nat
      PROVE  IsWeight(w)
  <2>1. /\ Weigh(w, <<>>) = 0
        /\ \A ss \in Seq(Slice), s \in Slice : Weigh(w, Append(ss, s)) = Weigh(w, ss) + w[s]
    BY WeighIs
  <2>2. \A ss \in Seq(Slice) : Weigh(w, ss) \in Nat
    BY <1>1, WeighType
  <2>3. \A ss, tt \in Seq(Slice) : Weigh(w, ss \o tt) = Weigh(w, ss) + Weigh(w, tt)
    BY WeighConcat
  <2>4. \A s \in Slice : Weigh(w, <<s>>) = w[s]
    <3>1. <<>> \in Seq(Slice)
      OBVIOUS
    <3> QED
      BY <3>1, WeighParts
  <2> QED
    BY <1>1, <2>1, <2>2, <2>3, <2>4 DEF IsWeight
<1> QED
  BY <1>1, WeightsOfSlices

\* The sums of charges and of marks are numbers.
LEMMA SliceSums ==
  /\ \A a : /\ Weigh(ChargeOf(a), <<>>) = 0
            /\ \A ss \in Seq(Slice) : Weigh(ChargeOf(a), ss) \in Nat /\ Weigh(ChargeOf(a), ss) \in Int
  /\ \A t : /\ Weigh(MarksOf(t), <<>>) = 0
            /\ \A ss \in Seq(Slice) : Weigh(MarksOf(t), ss) \in Nat /\ Weigh(MarksOf(t), ss) \in Int
<1>1. ASSUME NEW w, IsWeight(w)
      PROVE  /\ Weigh(w, <<>>) = 0
             /\ \A ss \in Seq(Slice) : Weigh(w, ss) \in Nat /\ Weigh(w, ss) \in Int
  BY <1>1 DEF IsWeight
<1> QED
  BY <1>1, SliceWeights

\* One method after another.
LEMMA TakesOverTwice ==
  ASSUME NEW c \in Context, NEW d, NEW e, NEW ss \in Seq(Slice), NEW tt \in Seq(Slice),
         TakesOver(c, d, ss), TakesOver(d, e, tt)
  PROVE  TakesOver(c, e, ss \o tt)
<1>1. d \in Context /\ e \in Context
  BY DEF TakesOver
<1>2. /\ \A a : /\ Weigh(ChargeOf(a), ss \o tt) = Weigh(ChargeOf(a), ss) + Weigh(ChargeOf(a), tt)
                /\ Weigh(ChargeOf(a), ss) \in Int /\ Weigh(ChargeOf(a), tt) \in Int
      /\ \A t : /\ Weigh(MarksOf(t), ss \o tt) = Weigh(MarksOf(t), ss) + Weigh(MarksOf(t), tt)
                /\ Weigh(MarksOf(t), ss) \in Int /\ Weigh(MarksOf(t), tt) \in Int
  BY SliceWeights DEF IsWeight
<1>3. \A a \in Accounts : Debt(e, a) = Debt(c, a) - Weigh(ChargeOf(a), ss \o tt)
  <2> SUFFICES ASSUME NEW a \in Accounts
               PROVE  Debt(e, a) = Debt(c, a) - Weigh(ChargeOf(a), ss \o tt)
    OBVIOUS
  <2>1. /\ Debt(d, a) = Debt(c, a) - Weigh(ChargeOf(a), ss)
        /\ Debt(e, a) = Debt(d, a) - Weigh(ChargeOf(a), tt)
    BY DEF TakesOver
  <2> QED
    BY <1>2, <2>1, DebtType
<1>4. \A t \in Callbacks : Marks(e, t) = Marks(c, t) + Weigh(MarksOf(t), ss \o tt)
  <2> SUFFICES ASSUME NEW t \in Callbacks
               PROVE  Marks(e, t) = Marks(c, t) + Weigh(MarksOf(t), ss \o tt)
    OBVIOUS
  <2>1. /\ Marks(d, t) = Marks(c, t) + Weigh(MarksOf(t), ss)
        /\ Marks(e, t) = Marks(d, t) + Weigh(MarksOf(t), tt)
    BY DEF TakesOver
  <2> QED
    BY <1>2, <2>1, DebtType
<1> QED
  BY <1>1, <1>3, <1>4 DEF TakesOver

\* d is c but for the slices, the length and whether foreign storage was written.
SameAccounts(c, d) ==
  /\ d \in Context
  /\ d.account = c.account /\ d.balance = c.balance /\ d.ran = c.ran

\* The length does not matter for any of this.
LEMMA TakesOverToo ==
  ASSUME NEW c, NEW d, NEW e, NEW ss,
         TakesOver(c, d, ss), SameAccounts(d, e), d.slices = e.slices
  PROVE  TakesOver(c, e, ss)
<1>1. /\ \A a : Debt(e, a) = Debt(d, a)
      /\ \A t : Marks(e, t) = Marks(d, t)
  BY DEF Debt, Marks, SameAccounts
<1> QED
  BY <1>1 DEF TakesOver, SameAccounts

\* The slices tt weigh as much as rr and ss together, but for n charged to p.
Balanced(tt, rr, ss, p, n) ==
  /\ \A a \in Accounts : Weigh(ChargeOf(a), tt) =
       (Weigh(ChargeOf(a), rr) + Weigh(ChargeOf(a), ss)) + (IF a = p THEN n ELSE 0)
  /\ \A t \in Callbacks : Weigh(MarksOf(t), tt) = Weigh(MarksOf(t), rr) + Weigh(MarksOf(t), ss)

\* A buffer gets the slices tt in place of its own, taking over the slices ss,
\* and n is charged to p for the rest of the difference.
LEMMA Rewritten ==
  ASSUME NEW c \in Context, NEW b, NEW ss \in Seq(Slice), NEW p \in Payer, NEW n \in Int,
         SameAccounts(c, b), Balanced(b.slices, c.slices, ss, p, n)
  PROVE  LET d == Charge(b, p, n)
         IN TakesOver(c, d, ss) /\ d.length = b.length /\ d.slices = b.slices
<1> DEFINE d == Charge(b, p, n)
           tt == b.slices
<1>1. b \in Context /\ b.account = c.account /\ b.balance = c.balance /\ b.ran = c.ran
  BY DEF SameAccounts
<1>2. /\ OnlyAccounts(b, d) /\ d.ran = b.ran
      /\ \A x \in Accounts : d.balance[x] = b.balance[x] + (IF x = p THEN n ELSE 0)
  BY <1>1, ChargeIs
<1> HIDE DEF d
<1>3. d \in Context /\ d.account = c.account /\ d.slices = tt /\ d.length = b.length
  BY <1>1, <1>2 DEF OnlyAccounts
<1>4. /\ \A a : Weigh(ChargeOf(a), tt) \in Int /\ Weigh(ChargeOf(a), c.slices) \in Int /\ Weigh(ChargeOf(a), ss) \in Int
      /\ \A t : Weigh(MarksOf(t), tt) \in Int /\ Weigh(MarksOf(t), c.slices) \in Int /\ Weigh(MarksOf(t), ss) \in Int
  <2>1. c.slices \in Seq(Slice) /\ tt \in Seq(Slice)
    BY <1>1, DebtType
  <2> QED
    BY <2>1, SliceSums
<1>5. ASSUME NEW a \in Accounts
      PROVE  Debt(d, a) = Debt(c, a) - Weigh(ChargeOf(a), ss)
  <2>1. d.balance[a] = c.balance[a] + (IF a = p THEN n ELSE 0)
    BY <1>1, <1>2, Zenon
  <2>2. Debt(d, a) = d.balance[a] - Weigh(ChargeOf(a), tt)
    BY <1>3 DEF Debt
  <2>3. Weigh(ChargeOf(a), tt) = (Weigh(ChargeOf(a), c.slices) + Weigh(ChargeOf(a), ss))
                                   + (IF a = p THEN n ELSE 0)
    BY DEF Balanced
  <2>4. c.balance[a] \in Int
    BY DebtType
  <2>5. (IF a = p THEN n ELSE 0) \in Int
    OBVIOUS
  <2> QED
    BY <1>4, <2>1, <2>2, <2>3, <2>4, <2>5 DEF Debt
<1>6. ASSUME NEW t \in Callbacks
      PROVE  Marks(d, t) = Marks(c, t) + Weigh(MarksOf(t), ss)
  <2>1. d.ran[t] = c.ran[t]
    BY <1>1, <1>2, Zenon
  <2>2. Marks(d, t) = d.ran[t] + Weigh(MarksOf(t), tt)
    BY <1>3 DEF Marks
  <2>3. Weigh(MarksOf(t), tt) = Weigh(MarksOf(t), c.slices) + Weigh(MarksOf(t), ss)
    BY DEF Balanced
  <2>4. c.ran[t] \in Int
    BY DebtType
  <2> QED
    BY <1>4, <2>1, <2>2, <2>3, <2>4 DEF Marks
<1> QED
  BY <1>3, <1>5, <1>6 DEF TakesOver, d

\* The slices ss of a buffer are destroyed; it keeps the others.
LEMMA Dropped ==
  ASSUME NEW c \in Context, NEW d, NEW ss \in Seq(Slice),
         SameAccounts(ReleaseAll(c, ss), d), Balanced(c.slices, ss, d.slices, None, 0)
  PROVE  TakesOver(c, d, <<>>)
<1> DEFINE b == ReleaseAll(c, ss)
           tt == d.slices
<1>1. /\ OnlyAccounts(c, b)
      /\ \A a \in Accounts : b.balance[a] = c.balance[a] - Weigh(ChargeOf(a), ss)
      /\ \A t \in Callbacks : b.ran[t] = c.ran[t] + Weigh(MarksOf(t), ss)
  BY ReleaseAllIs
<1> HIDE DEF b
<1>2. d \in Context /\ d.account = c.account /\ d.balance = b.balance /\ d.ran = b.ran
  BY <1>1 DEF OnlyAccounts, SameAccounts, b
<1>3. /\ \A a : /\ Weigh(ChargeOf(a), tt) \in Int /\ Weigh(ChargeOf(a), c.slices) \in Int
                /\ Weigh(ChargeOf(a), ss) \in Int /\ Weigh(ChargeOf(a), <<>>) = 0
      /\ \A t : /\ Weigh(MarksOf(t), tt) \in Int /\ Weigh(MarksOf(t), c.slices) \in Int
                /\ Weigh(MarksOf(t), ss) \in Int /\ Weigh(MarksOf(t), <<>>) = 0
  <2>1. c.slices \in Seq(Slice) /\ tt \in Seq(Slice)
    BY <1>2, DebtType
  <2> QED
    BY <2>1, SliceSums
<1>4. ASSUME NEW a \in Accounts
      PROVE  Debt(d, a) = Debt(c, a) - Weigh(ChargeOf(a), <<>>)
  <2>1. d.balance[a] = c.balance[a] - Weigh(ChargeOf(a), ss)
    BY <1>1, <1>2, Zenon
  <2>2. Debt(d, a) = d.balance[a] - Weigh(ChargeOf(a), tt)
    BY <1>2 DEF Debt
  <2>3. Weigh(ChargeOf(a), c.slices) = Weigh(ChargeOf(a), ss) + Weigh(ChargeOf(a), tt)
    BY <1>3 DEF Balanced
  <2>4. c.balance[a] \in Int
    BY DebtType
  <2> QED
    BY <1>3, <2>1, <2>2, <2>3, <2>4 DEF Debt
<1>5. ASSUME NEW t \in Callbacks
      PROVE  Marks(d, t) = Marks(c, t) + Weigh(MarksOf(t), <<>>)
  <2>1. d.ran[t] = c.ran[t] + Weigh(MarksOf(t), ss)
    BY <1>1, <1>2, Zenon
  <2>2. Marks(d, t) = d.ran[t] + Weigh(MarksOf(t), tt)
    BY <1>2 DEF Marks
  <2>3. Weigh(MarksOf(t), c.slices) = Weigh(MarksOf(t), ss) + Weigh(MarksOf(t), tt)
    BY DEF Balanced
  <2>4. c.ran[t] \in Int
    BY DebtType
  <2> QED
    BY <1>3, <2>1, <2>2, <2>3, <2>4 DEF Marks
<1> QED
  BY <1>2, <1>4, <1>5 DEF TakesOver

\* The first and the last slice of a buffer, and what replaces them.
LEMMA Ends ==
  ASSUME NEW ss \in Seq(Slice), ss # <<>>
  PROVE  /\ Len(ss) \in DOMAIN ss /\ 1 \in DOMAIN ss
         /\ Last(ss) = ss[Len(ss)] /\ Last(ss) \in Slice
         /\ SubSeq(ss, 1, Len(ss) - 1) \in Seq(Slice)
         /\ ss = Append(SubSeq(ss, 1, Len(ss) - 1), Last(ss))
         /\ \A s \in Slice : [ss EXCEPT ![Len(ss)] = s] = Append(SubSeq(ss, 1, Len(ss) - 1), s)
         /\ Head(ss) = ss[1] /\ Head(ss) \in Slice /\ Tail(ss) \in Seq(Slice)
         /\ ss = <<Head(ss)>> \o Tail(ss)
         /\ \A s \in Slice : [ss EXCEPT ![1] = s] = <<s>> \o Tail(ss)
<1>1. Len(ss) \in Nat \ {0} /\ DOMAIN ss = 1..Len(ss)
  OBVIOUS
<1>2. Last(ss) = ss[Len(ss)] /\ Last(ss) \in Slice /\ Head(ss) = ss[1] /\ Head(ss) \in Slice
  BY <1>1 DEF Last
<1>3. SubSeq(ss, 1, Len(ss) - 1) \in Seq(Slice) /\ Tail(ss) \in Seq(Slice)
  BY <1>1
<1>4. ss = Append(SubSeq(ss, 1, Len(ss) - 1), Last(ss))
  BY <1>1, <1>2
<1>5. ASSUME NEW s \in Slice
      PROVE  [ss EXCEPT ![Len(ss)] = s] = Append(SubSeq(ss, 1, Len(ss) - 1), s)
  BY <1>1
<1>6. ss = <<Head(ss)>> \o Tail(ss)
  BY <1>1
<1>7. ASSUME NEW s \in Slice
      PROVE  [ss EXCEPT ![1] = s] = <<s>> \o Tail(ss)
  BY <1>1
<1> QED
  BY <1>1, <1>2, <1>3, <1>4, <1>5, <1>6, <1>7

\* The smaller and the larger of two numbers.
LEMMA MinMaxOfTwo ==
  ASSUME NEW m \in Int, NEW n \in Int
  PROVE  /\ Min({m, n}) = IF m <= n THEN m ELSE n
         /\ Max({m, n}) = IF m <= n THEN n ELSE m
BY DEF Min, Max

\* A new slice has room for what it was made for.
LEMMA SliceSizeSuffices ==
  ASSUME NEW n \in Nat
  PROVE  SliceSize(n) \in Nat /\ n <= SliceSize(n)
<1> DEFINE m == n + (PageSize - 1)
           q == m \div PageSize
<1>1. PageSize \in Nat \ {0} /\ m \in Nat
  BY BufferAssumption DEF BufferAssumption
<1> HIDE DEF m
<1>2. q \in Nat /\ q * PageSize <= m /\ m < q * PageSize + PageSize
  BY <1>1, Z3
<1>3. SliceSize(n) = q * PageSize
  BY DEF SliceSize, m
<1> HIDE DEF q
<1>4. q * PageSize \in Nat
  BY <1>1, <1>2
<1> QED
  BY <1>1, <1>2, <1>3, <1>4 DEF m

\* A slice's bytes, alone and behind others.
LEMMA FlatEnds ==
  ASSUME NEW s \in Slice
  PROVE  /\ s.data \in Seq(Byte) /\ <<s>> \in Seq(Slice) /\ Flat(<<s>>) = s.data
         /\ \A ss \in Seq(Slice) : /\ Append(ss, s) \in Seq(Slice) /\ <<s>> \o ss \in Seq(Slice)
                                   /\ Flat(Append(ss, s)) = Flat(ss) \o s.data
                                   /\ Flat(<<s>> \o ss) = s.data \o Flat(ss)
<1>1. s.data \in Seq(Byte) /\ <<s>> \in Seq(Slice) /\ <<>> \in Seq(Slice) /\ <<s>> = Append(<<>>, s)
  BY SliceIs
<1>2. \A ss \in Seq(Slice) : Append(ss, s) \in Seq(Slice) /\ <<s>> \o ss \in Seq(Slice)
  OBVIOUS
<1>3. \A ss \in Seq(Slice) : Flat(Append(ss, s)) = Flat(ss) \o s.data
  BY FlatIs
<1>4. Flat(<<s>>) = s.data
  <2>1. Flat(Append(<<>>, s)) = Flat(<<>>) \o s.data
    BY <1>1, <1>3, Zenon
  <2>2. Flat(<<>>) = <<>>
    BY FlatIs
  <2>3. <<>> \o s.data = s.data
    BY <1>1, Concatenation, Zenon
  <2> QED
    BY <1>1, <2>1, <2>2, <2>3, Zenon
<1>5. \A ss \in Seq(Slice) : Flat(<<s>> \o ss) = s.data \o Flat(ss)
  BY <1>1, <1>4, FlatConcat, Zenon
<1> QED
  BY <1>1, <1>2, <1>3, <1>4, <1>5, Zenon

\* s holds data, is charged to p and has no trackers.
IsNewSlice(s, cap, p, data) ==
  /\ s \in Slice /\ s.data = data /\ s.cap = cap /\ s.owned = TRUE
  /\ \A t : MarksOf(t)[s] = 0
  /\ \A a : ChargeOf(a)[s] = IF a = p THEN cap ELSE 0

\* New slices, with their data at the start of the storage or elsewhere.
LEMMA NewSliceIs ==
  ASSUME NEW cap \in Nat, NEW p \in Payer, NEW data \in Seq(Byte), Len(data) <= cap
  PROVE  /\ IsNewSlice(NewSlice(cap, p, data), cap, p, data)
         /\ NewSlice(cap, p, data).off = 0
         /\ IsNewSlice([NewSlice(cap, p, data) EXCEPT !.off = cap - Len(data)], cap, p, data)
<1> DEFINE u == NewSlice(cap, p, data)
           v == [u EXCEPT !.off = cap - Len(data)]
           All == [data : Seq(Byte), off : Nat, cap : Nat, owned : BOOLEAN,
                   trackers : Seq(Callbacks), account : Payer]
<1>1. <<>> \in Seq(Callbacks) /\ cap - Len(data) \in Nat /\ Len(data) \in Nat
  OBVIOUS
<1>2. /\ u.data = data /\ u.account = p /\ u.cap = cap /\ u.trackers = <<>> /\ u.owned = TRUE
      /\ u.off = 0 /\ u \in All
  BY <1>1 DEF NewSlice
<1> HIDE DEF u
<1>3. /\ v.data = data /\ v.account = p /\ v.cap = cap /\ v.trackers = <<>> /\ v.owned = TRUE
      /\ v.off = cap - Len(data) /\ v \in All
  BY <1>1, <1>2
<1> HIDE DEF v
<1>4. ASSUME NEW s \in All, s.data = data, s.account = p, s.cap = cap, s.trackers = <<>>,
             s.owned = TRUE, s.off \in {0, cap - Len(data)}
      PROVE  IsNewSlice(s, cap, p, data)
  <2>1. s \in Slice
    BY <1>1, <1>4 DEF Slice, Byte, Payer, ReservableSize
  <2>2. \A t : Count(<<>>, t) = 0
    BY <1>1, CountType
  <2>3. \A t : MarksOf(t)[s] = Count(s.trackers, t)
    BY <2>1, WeightsOfSlices
  <2>4. \A t : MarksOf(t)[s] = 0
    BY <1>4, <2>2, <2>3, Zenon
  <2>5. \A a : ChargeOf(a)[s] = IF a = p THEN cap ELSE 0
    BY <1>4, <2>1, WeightsOfSlices
  <2> QED
    BY <1>4, <2>1, <2>4, <2>5 DEF IsNewSlice
<1>5. IsNewSlice(u, cap, p, data)
  BY <1>2, <1>4
<1>6. IsNewSlice(v, cap, p, data)
  BY <1>3, <1>4
<1> QED
  BY <1>2, <1>5, <1>6 DEF u, v

\* A new last slice.
LEMMA EmplaceBackNewIs ==
  ASSUME NEW c \in Context, NEW cap \in Nat, NEW data \in Seq(Byte), Len(data) <= cap
  PROVE  LET d == EmplaceBackNew(c, cap, data)
         IN /\ TakesOver(c, d, <<>>) /\ Flat(d.slices) = Flat(c.slices) \o data
            /\ d.length = c.length /\ d.slices # <<>>
            /\ d.slices = Append(c.slices, NewSlice(cap, c.account, data))
<1> DEFINE s == NewSlice(cap, c.account, data)
           tt == Append(c.slices, s)
           d == EmplaceBackNew(c, cap, data)
<1>1. c.slices \in Seq(Slice) /\ c.account \in Payer /\ c.written \in BOOLEAN
  BY DEF Context
<1>2. IsNewSlice(s, cap, c.account, data)
  BY <1>1, NewSliceIs
<1> HIDE DEF s
<1>3. tt \in Seq(Slice) /\ tt # <<>> /\ Flat(tt) = Flat(c.slices) \o data
  <2>1. tt \in Seq(Slice) /\ Flat(tt) = Flat(c.slices) \o data
    BY <1>1, <1>2, FlatEnds DEF IsNewSlice
  <2>2. Len(tt) = Len(c.slices) + 1 /\ Len(c.slices) \in Nat
    BY <1>1, <1>2 DEF IsNewSlice
  <2> QED
    BY <2>1, <2>2
<1>4. <<>> \in Seq(Slice)
  OBVIOUS
<1>5. ASSUME NEW a \in Accounts
      PROVE  Weigh(ChargeOf(a), tt) = (Weigh(ChargeOf(a), c.slices) + Weigh(ChargeOf(a), <<>>))
                                        + (IF a = c.account THEN cap ELSE 0)
  BY <1>1, <1>2, SliceWeights, SliceSums DEF IsWeight, IsNewSlice
<1>6. ASSUME NEW t \in Callbacks
      PROVE  Weigh(MarksOf(t), tt) = Weigh(MarksOf(t), c.slices) + Weigh(MarksOf(t), <<>>)
  BY <1>1, <1>2, SliceWeights, SliceSums DEF IsWeight, IsNewSlice
<1>7. Balanced(tt, c.slices, <<>>, c.account, cap)
  BY <1>5, <1>6 DEF Balanced
<1> DEFINE b == [c EXCEPT !.slices = tt]
<1> HIDE DEF tt
<1>8. SameAccounts(c, b) /\ b.slices = tt /\ b.length = c.length
  BY <1>3 DEF SameAccounts, Context
<1> HIDE DEF b
<1>9. /\ TakesOver(c, Charge(b, c.account, cap), <<>>)
      /\ Charge(b, c.account, cap).length = b.length /\ Charge(b, c.account, cap).slices = b.slices
  <2>1. cap \in Int
    OBVIOUS
  <2> QED
    BY <1>1, <1>4, <1>7, <1>8, <2>1, Rewritten
<1> QED
  BY <1>3, <1>8, <1>9 DEF EmplaceBackNew, b, tt, s

\* Slices with the same storage and trackers weigh the same.
LEMMA SameWeights ==
  ASSUME NEW s \in Slice, NEW u \in Slice, u.cap = s.cap, u.account = s.account
  PROVE  /\ \A a : ChargeOf(a)[u] = ChargeOf(a)[s]
         /\ u.trackers = s.trackers => \A t : MarksOf(t)[u] = MarksOf(t)[s]
BY WeightsOfSlices

ReplaceBack(ss, u) == [ss EXCEPT ![Len(ss)] = u]

ReplaceFront(ss, u) == [ss EXCEPT ![1] = u]

\* The last slice replaced.
LEMMA BackReplaced ==
  ASSUME NEW ss \in Seq(Slice), ss # <<>>, NEW u \in Slice
  PROVE  /\ ReplaceBack(ss, u) \in Seq(Slice) /\ ReplaceBack(ss, u) # <<>>
         /\ Last(ss) \in Slice /\ Last(ss) = ss[Len(ss)]
         /\ \A data \in Seq(Byte) :
              u.data = Last(ss).data \o data => Flat(ReplaceBack(ss, u)) = Flat(ss) \o data
         /\ \A w : IsWeight(w) => Weigh(w, ReplaceBack(ss, u)) = (Weigh(w, ss) - w[Last(ss)]) + w[u]
<1> DEFINE f == SubSeq(ss, 1, Len(ss) - 1)
           tt == ReplaceBack(ss, u)
<1>1. /\ f \in Seq(Slice) /\ Last(ss) \in Slice /\ ss = Append(f, Last(ss)) /\ tt = Append(f, u)
      /\ Last(ss) = ss[Len(ss)]
  BY Ends DEF ReplaceBack
<1> HIDE DEF f, tt
<1>2. tt \in Seq(Slice) /\ tt # <<>>
  BY <1>1
<1>3. ASSUME NEW w, IsWeight(w)
      PROVE  Weigh(w, tt) = (Weigh(w, ss) - w[Last(ss)]) + w[u]
  <2>1. Weigh(w, Append(f, Last(ss))) = Weigh(w, f) + w[Last(ss)] /\ Weigh(w, Append(f, u)) = Weigh(w, f) + w[u]
    BY <1>1, <1>3 DEF IsWeight
  <2>2. Weigh(w, f) \in Int /\ w[Last(ss)] \in Int /\ w[u] \in Int
    BY <1>1, <1>3 DEF IsWeight
  <2>3. Weigh(w, ss) = Weigh(w, f) + w[Last(ss)] /\ Weigh(w, tt) = Weigh(w, f) + w[u]
    BY <1>1, <2>1, Zenon
  <2> QED
    BY <2>2, <2>3
<1>4. ASSUME NEW data \in Seq(Byte), u.data = Last(ss).data \o data
      PROVE  Flat(tt) = Flat(ss) \o data
  <2>1. /\ Flat(f) \in Seq(Byte) /\ Last(ss).data \in Seq(Byte)
        /\ Flat(Append(f, u)) = Flat(f) \o u.data
        /\ Flat(Append(f, Last(ss))) = Flat(f) \o Last(ss).data
    BY <1>1, FlatType, FlatEnds
  <2>2. (Flat(f) \o Last(ss).data) \o data = Flat(f) \o (Last(ss).data \o data)
    BY <2>1, Concatenation, Zenon
  <2> QED
    BY <1>1, <1>4, <2>1, <2>2, Zenon
<1> QED
  BY <1>1, <1>2, <1>3, <1>4 DEF tt

\* The first slice replaced.
LEMMA FrontReplaced ==
  ASSUME NEW ss \in Seq(Slice), ss # <<>>, NEW u \in Slice
  PROVE  /\ ReplaceFront(ss, u) \in Seq(Slice) /\ ReplaceFront(ss, u) # <<>>
         /\ Head(ss) \in Slice /\ Head(ss) = ss[1] /\ Tail(ss) \in Seq(Slice)
         /\ ReplaceFront(ss, u) = <<u>> \o Tail(ss)
         /\ Flat(ss) = Head(ss).data \o Flat(Tail(ss))
         /\ Flat(ReplaceFront(ss, u)) = u.data \o Flat(Tail(ss))
         /\ \A w : IsWeight(w) => Weigh(w, ReplaceFront(ss, u)) = (Weigh(w, ss) - w[Head(ss)]) + w[u]
<1> DEFINE f == Tail(ss)
           tt == ReplaceFront(ss, u)
<1>1. /\ f \in Seq(Slice) /\ Head(ss) \in Slice /\ ss = <<Head(ss)>> \o f /\ tt = <<u>> \o f
      /\ Head(ss) = ss[1]
  BY Ends DEF ReplaceFront
<1> HIDE DEF f, tt
<1>2. tt \in Seq(Slice) /\ tt # <<>>
  BY <1>1
<1>3. ASSUME NEW w, IsWeight(w)
      PROVE  Weigh(w, tt) = (Weigh(w, ss) - w[Head(ss)]) + w[u]
  <2>1. \A s \in Slice : Weigh(w, <<s>> \o f) = w[s] + Weigh(w, f)
    <3>1. \A s \in Slice : <<s>> \in Seq(Slice)
      OBVIOUS
    <3> QED
      BY <1>1, <1>3, <3>1, ZenonT(30) DEF IsWeight
  <2>2. Weigh(w, f) \in Int /\ w[Head(ss)] \in Int /\ w[u] \in Int
    BY <1>1, <1>3 DEF IsWeight
  <2>3. Weigh(w, <<Head(ss)>> \o f) = w[Head(ss)] + Weigh(w, f) /\ Weigh(w, <<u>> \o f) = w[u] + Weigh(w, f)
    BY <1>1, <2>1
  <2>4. Weigh(w, ss) = w[Head(ss)] + Weigh(w, f) /\ Weigh(w, tt) = w[u] + Weigh(w, f)
    BY <1>1, <2>3, Zenon
  <2> QED
    BY <2>2, <2>4
<1>4. /\ Flat(<<u>> \o f) = u.data \o Flat(f)
      /\ Flat(<<Head(ss)>> \o f) = Head(ss).data \o Flat(f)
  BY <1>1, FlatEnds
<1> QED
  BY <1>1, <1>2, <1>3, <1>4 DEF tt, f

\* The last slice takes data.
LEMMA AppendToBackIs ==
  ASSUME NEW c \in Context, NEW data \in Seq(Byte),
         data = <<>> \/ (c.slices # <<>> /\ Len(data) <= BackRoom(c))
  PROVE  LET d == AppendToBack(c, data)
         IN /\ TakesOver(c, d, <<>>) /\ Flat(d.slices) = Flat(c.slices) \o data
            /\ d.length = c.length /\ (c.slices # <<>> => d.slices # <<>>)
<1> DEFINE d == AppendToBack(c, data)
<1>1. c.slices \in Seq(Slice) /\ Flat(c.slices) \in Seq(Byte) /\ <<>> \in Seq(Slice) /\ None \in Payer
  BY DebtType DEF Payer
<1>2. CASE data = <<>>
  <2>1. d = c
    BY <1>2 DEF AppendToBack
  <2>2. Flat(c.slices) \o data = Flat(c.slices)
    BY <1>1, <1>2, Concatenation, Zenon
  <2>3. TakesOver(c, c, <<>>)
    BY DebtType, SliceSums DEF TakesOver
  <2> QED
    BY <2>1, <2>2, <2>3
<1>3. CASE data # <<>>
  <2> DEFINE s == Last(c.slices)
             u == [s EXCEPT !.data = @ \o data]
             tt == ReplaceBack(c.slices, u)
  <2>1. /\ c.slices # <<>> /\ s \in Slice /\ s = c.slices[Len(c.slices)]
        /\ (s.off + Len(s.data)) + Len(data) <= s.cap
    <3>1. c.slices # <<>> /\ Len(data) <= ReservableSize(Last(c.slices))
      BY <1>3 DEF BackRoom
    <3>2. s \in Slice /\ s = c.slices[Len(c.slices)]
      BY <1>1, <3>1, Ends
    <3>3. s.off \in Nat /\ s.cap \in Nat /\ Len(s.data) \in Nat /\ Len(data) \in Nat
      BY <3>2, SliceIs
    <3> HIDE DEF s
    <3>4. Len(data) <= s.cap - (s.off + Len(s.data))
      BY <3>1 DEF ReservableSize, s
    <3> QED
      BY <3>1, <3>2, <3>3, <3>4
  <2>2. /\ u \in Slice /\ u.data = s.data \o data /\ u.cap = s.cap /\ u.account = s.account
        /\ u.trackers = s.trackers
    <3> HIDE DEF s
    <3>1. /\ s.data \o data \in Seq(Byte) /\ Len(s.data \o data) = Len(s.data) + Len(data)
          /\ s.off \in Nat /\ s.cap \in Nat /\ Len(s.data) \in Nat /\ Len(data) \in Nat
      BY <2>1, SliceIs
    <3> DEFINE x == s.data \o data
    <3>2. u = [s EXCEPT !.data = x]
      OBVIOUS
    <3> HIDE DEF x, u
    <3>3. /\ u.data = x /\ u.cap = s.cap /\ u.account = s.account /\ u.trackers = s.trackers
          /\ u.off = s.off /\ u.owned = s.owned
          /\ u \in [data : Seq(Nat \ {0}), off : Nat, cap : Nat, owned : BOOLEAN,
                    trackers : Seq(Callbacks), account : Accounts \cup {None}]
      BY <2>1, <3>1, <3>2 DEF Slice, Byte, x
    <3>4. Len(u.data) = Len(s.data) + Len(data)
      BY <3>1, <3>3, Zenon DEF x
    <3>5. u.cap - (u.off + Len(u.data)) \in Nat
      <4>1. s.cap - (s.off + (Len(s.data) + Len(data))) \in Nat
        <5>1. (s.off + Len(s.data)) + Len(data) <= s.cap
          BY <2>1, Zenon
        <5>2. s.off \in Nat /\ s.cap \in Nat /\ Len(s.data) \in Nat /\ Len(data) \in Nat
          BY <3>1, Zenon
        <5> QED
          BY <5>1, <5>2
      <4> QED
        BY <3>3, <3>4, <4>1, Zenon
    <3> QED
      BY <3>3, <3>5 DEF Slice, ReservableSize, x
  <2>3. d = [c EXCEPT !.slices = tt, !.written = @ \/ ~s.owned]
    BY <1>3, <2>1 DEF AppendToBack, ReplaceBack
  <2> HIDE DEF s, u
  <2>4. /\ tt \in Seq(Slice) /\ tt # <<>> /\ Flat(tt) = Flat(c.slices) \o data
        /\ \A w : IsWeight(w) => Weigh(w, tt) = (Weigh(w, c.slices) - w[s]) + w[u]
    BY <1>1, <2>1, <2>2, BackReplaced DEF s
  <2> HIDE DEF tt, d
  <2>5. SameAccounts(c, d) /\ d.slices = tt /\ d.length = c.length
    BY <2>3, <2>4 DEF SameAccounts, Context
  <2>6. Balanced(tt, c.slices, <<>>, None, 0)
    <3>1. /\ \A a : ChargeOf(a)[u] = ChargeOf(a)[s] /\ ChargeOf(a)[s] \in Int
          /\ \A t : MarksOf(t)[u] = MarksOf(t)[s] /\ MarksOf(t)[s] \in Int
      BY <2>1, <2>2, SameWeights, WeightsOfSlices
    <3>2. /\ \A a : Weigh(ChargeOf(a), tt) = (Weigh(ChargeOf(a), c.slices) - ChargeOf(a)[s]) + ChargeOf(a)[u]
          /\ \A t : Weigh(MarksOf(t), tt) = (Weigh(MarksOf(t), c.slices) - MarksOf(t)[s]) + MarksOf(t)[u]
      BY <2>4, SliceWeights
    <3>3. /\ \A a : Weigh(ChargeOf(a), c.slices) \in Int /\ Weigh(ChargeOf(a), <<>>) = 0
          /\ \A t : Weigh(MarksOf(t), c.slices) \in Int /\ Weigh(MarksOf(t), <<>>) = 0
      BY <1>1, SliceSums
    <3> QED
      BY <3>1, <3>2, <3>3 DEF Balanced
  <2>7. TakesOver(c, Charge(d, None, 0), <<>>)
    <3>1. 0 \in Int /\ Balanced(d.slices, c.slices, <<>>, None, 0)
      BY <2>5, <2>6
    <3> QED
      BY <1>1, <2>5, <3>1, Rewritten
  <2> QED
    BY <2>4, <2>5, <2>7 DEF d, Charge
<1> QED
  BY <1>2, <1>3

\* A method that takes over no slices, before another one.
LEMMA TakesNothingBefore ==
  ASSUME NEW c \in Context, NEW d, NEW e, NEW ss \in Seq(Slice),
         TakesOver(c, d, <<>>), TakesOver(d, e, ss)
  PROVE  TakesOver(c, e, ss)
<1>1. <<>> \in Seq(Slice) /\ <<>> \o ss = ss
  BY ConcatEmptySeq
<1>2. TakesOver(c, e, <<>> \o ss)
  BY <1>1, TakesOverTwice
<1> QED
  BY <1>1, <1>2, Zenon

\* A method that takes over no slices, after another one.
LEMMA TakesNothingAfter ==
  ASSUME NEW c \in Context, NEW d, NEW e, NEW ss \in Seq(Slice),
         TakesOver(c, d, ss), TakesOver(d, e, <<>>)
  PROVE  TakesOver(c, e, ss)
<1>1. <<>> \in Seq(Slice) /\ ss \o <<>> = ss
  BY ConcatEmptySeq
<1>2. TakesOver(c, e, ss \o <<>>)
  BY <1>1, TakesOverTwice
<1> QED
  BY <1>1, <1>2, Zenon

\* Nothing done.
LEMMA TakesNothing ==
  ASSUME NEW c \in Context
  PROVE  TakesOver(c, c, <<>>)
BY DebtType, SliceSums DEF TakesOver

\* What can be reserved in the last slice.
LEMMA BackRoomType ==
  ASSUME NEW c \in Context
  PROVE  BackRoom(c) \in Nat /\ (c.slices = <<>> => BackRoom(c) = 0)
<1>1. CASE c.slices = <<>>
  BY <1>1 DEF BackRoom
<1>2. CASE c.slices # <<>>
  <2>1. Last(c.slices) \in Slice
    BY <1>2, DebtType, Ends
  <2> QED
    BY <1>2, <2>1 DEF BackRoom, Slice
<1> QED
  BY <1>1, <1>2

\* addImpl() puts data behind what is there.
LEMMA AddImplIs ==
  ASSUME NEW c \in Context, NEW data \in Seq(Byte)
  PROVE  LET d == AddImpl(c, data)
         IN /\ TakesOver(c, d, <<>>) /\ Flat(d.slices) = Flat(c.slices) \o data
            /\ d.length = c.length + Len(data) /\ (c.slices # <<>> => d.slices # <<>>)
<1> DEFINE n == Min({BackRoom(c), Len(data)})
           x == SubSeq(data, 1, n)
           y == SubSeq(data, n + 1, Len(data))
           filled == AppendToBack(c, x)
           new == EmplaceBackNew(filled, SliceSize(Len(y)), y)
           added == IF y = <<>> THEN filled ELSE new
           d == AddImpl(c, data)
<1>1. d = [added EXCEPT !.length = @ + Len(data)]
  BY DEF AddImpl
<1>2. /\ n \in 0..Len(data) /\ n <= BackRoom(c) /\ BackRoom(c) \in Nat /\ Len(data) \in Nat
      /\ (c.slices = <<>> => n = 0)
  BY BackRoomType, MinMaxOfTwo
<1> HIDE DEF n
<1>3. x \in Seq(Byte) /\ y \in Seq(Byte) /\ Len(x) = n /\ Len(y) \in Nat /\ x \o y = data
  BY <1>2, BytesSplit
<1> HIDE DEF x, y
<1>4. x = <<>> \/ (c.slices # <<>> /\ Len(x) <= BackRoom(c))
  BY <1>2, <1>3
<1>5. /\ TakesOver(c, filled, <<>>) /\ Flat(filled.slices) = Flat(c.slices) \o x
      /\ filled.length = c.length /\ (c.slices # <<>> => filled.slices # <<>>)
  BY <1>3, <1>4, AppendToBackIs
<1>6. filled \in Context /\ Flat(filled.slices) = Flat(c.slices) \o x
  BY <1>5 DEF TakesOver
<1> HIDE DEF filled
<1>7. <<>> \in Seq(Slice) /\ Flat(c.slices) \in Seq(Byte)
  BY DebtType
<1>8. (Flat(c.slices) \o x) \o y = Flat(c.slices) \o data
  <2> DEFINE z == Flat(c.slices)
  <2>1. z \in Seq(Byte) /\ x \in Seq(Byte) /\ y \in Seq(Byte)
    BY <1>3, <1>7
  <2> HIDE DEF z
  <2>2. (z \o x) \o y = z \o (x \o y)
    BY <2>1, Associative, Zenon
  <2>3. (z \o x) \o y = z \o data
    BY <1>3, <2>2, Zenon
  <2> QED
    BY <2>3 DEF z
<1>9. /\ TakesOver(c, added, <<>>) /\ Flat(added.slices) = Flat(c.slices) \o data
      /\ added.length = c.length /\ (c.slices # <<>> => added.slices # <<>>)
  <2>1. CASE y = <<>>
    <3>1. (Flat(c.slices) \o x) \o y = Flat(c.slices) \o x
      <4>1. Flat(c.slices) \o x \in Seq(Byte)
        BY <1>3, <1>7, Concatenation, Zenon
      <4> QED
        BY <2>1, <4>1, Concatenation, Zenon
    <3>2. added = filled
      BY <2>1
    <3> QED
      BY <1>5, <1>8, <3>1, <3>2, Zenon
  <2>2. CASE y # <<>>
    <3>1. SliceSize(Len(y)) \in Nat /\ Len(y) <= SliceSize(Len(y))
      BY <1>3, SliceSizeSuffices
    <3>2. /\ TakesOver(filled, new, <<>>) /\ Flat(new.slices) = Flat(filled.slices) \o y /\ new.length = filled.length
          /\ new.slices # <<>>
      BY <1>3, <1>6, <3>1, EmplaceBackNewIs
    <3>4. added = new
      BY <2>2
    <3> HIDE DEF new, added
    <3>5. TakesOver(filled, new, <<>>) /\ Flat(new.slices) = Flat(c.slices) \o data
      BY <1>6, <1>8, <3>2, Zenon
    <3>6. TakesOver(c, new, <<>>) /\ Flat(new.slices) = Flat(c.slices) \o data
      BY <1>5, <1>7, <3>5, TakesNothingAfter
    <3> QED
      BY <1>5, <3>2, <3>4, <3>6
  <2> QED
    BY <2>1, <2>2
<1> HIDE DEF added
<1>10. SameAccounts(added, d) /\ d.slices = added.slices /\ d.length = added.length + Len(data)
  <2>1. added \in Context /\ added.length + Len(data) \in Int
    BY <1>9, DebtType, <1>2 DEF TakesOver
  <2> HIDE DEF d
  <2> QED
    BY <1>1, <2>1 DEF SameAccounts, Context
<1> HIDE DEF d
<1>11. TakesOver(c, d, <<>>) /\ Flat(d.slices) = Flat(c.slices) \o data
  BY <1>9, <1>10, TakesOverToo
<1> QED
  BY <1>9, <1>10, <1>11 DEF d

\* Slices copied.
Copying == INSTANCE FoldTheorems WITH Op <- AddSlice

\* The slices of another buffer are copied behind what is there.
LEMMA AddSlicesIs ==
  ASSUME NEW c \in Context, NEW ss \in Seq(Slice)
  PROVE  LET d == AddSlices(c, ss)
         IN /\ TakesOver(c, d, <<>>) /\ Flat(d.slices) = Flat(c.slices) \o Flat(ss)
            /\ d.length = c.length + Len(Flat(ss))
<1> DEFINE Good(tt) == LET d == AddSlices(c, tt)
                       IN /\ TakesOver(c, d, <<>>) /\ Flat(d.slices) = Flat(c.slices) \o Flat(tt)
                          /\ d.length = c.length + Len(Flat(tt))
           S == {tt \in Seq(Slice) : Good(tt)}
<1>1. \A tt : AddSlices(c, tt) = Copying!Fold(c, tt)
  BY DEF AddSlices, FoldLeft, MapThenFoldSet, Max, Copying!Fold,
       Copying!MapThenFoldSet, Copying!Latest
<1>2. Flat(c.slices) \in Seq(Byte) /\ c.length \in Int /\ <<>> \in Seq(Slice)
  BY DebtType
<1>3. Good(<<>>)
  <2>1. AddSlices(c, <<>>) = c
    BY <1>1, Copying!FoldOfNone
  <2>2. Flat(<<>>) = <<>> /\ Flat(c.slices) \o <<>> = Flat(c.slices) /\ Len(<<>>) = 0
    BY <1>2, FlatIs, Concatenation, Zenon
  <2>3. Flat(c.slices) = Flat(c.slices) \o Flat(<<>>)
    BY <2>2, Zenon
  <2>4. c.length = c.length + 0
    BY <1>2
  <2>5. c.length = c.length + Len(Flat(<<>>))
    BY <2>2, <2>4, Zenon
  <2>6. TakesOver(c, c, <<>>)
    BY TakesNothing
  <2> QED
    BY <2>1, <2>3, <2>5, <2>6
<1>4. ASSUME NEW tt \in Seq(Slice), NEW s \in Slice, Good(tt)
      PROVE  Good(Append(tt, s))
  <2> DEFINE d == AddSlices(c, tt)
             e == AddImpl(d, s.data)
  <2>1. AddSlices(c, Append(tt, s)) = e
    <3>1. Copying!Fold(c, Append(tt, s)) = AddSlice(Copying!Fold(c, tt), s)
      BY Copying!FoldOfAppend
    <3> QED
      BY <1>1, <3>1 DEF AddSlice
  <2>2. TakesOver(c, d, <<>>) /\ Flat(d.slices) = Flat(c.slices) \o Flat(tt) /\ d.length = c.length + Len(Flat(tt))
    BY <1>4
  <2> HIDE DEF d
  <2>3. d \in Context /\ Flat(d.slices) = Flat(c.slices) \o Flat(tt)
    BY <2>2 DEF TakesOver
  <2>4. s.data \in Seq(Byte) /\ Flat(tt) \in Seq(Byte) /\ Flat(Append(tt, s)) = Flat(tt) \o s.data
    BY FlatEnds, FlatType
  <2>5. TakesOver(d, e, <<>>) /\ Flat(e.slices) = Flat(d.slices) \o s.data /\ e.length = d.length + Len(s.data)
    BY <2>3, <2>4, AddImplIs
  <2> HIDE DEF e
  <2>6. Flat(d.slices) \o s.data = Flat(c.slices) \o Flat(Append(tt, s))
    <3>1. (Flat(c.slices) \o Flat(tt)) \o s.data = Flat(c.slices) \o (Flat(tt) \o s.data)
      BY <1>2, <2>4, Concatenation, Zenon
    <3> QED
      BY <2>3, <2>4, <3>1, Zenon
  <2>7. TakesOver(d, e, <<>>) /\ Flat(e.slices) = Flat(c.slices) \o Flat(Append(tt, s))
    BY <2>5, <2>6, Zenon
  <2>8. TakesOver(c, e, <<>>) /\ Flat(e.slices) = Flat(c.slices) \o Flat(Append(tt, s))
    BY <1>2, <2>2, <2>7, TakesNothingAfter
  <2>9. e.length = c.length + Len(Flat(Append(tt, s)))
    <3>1. Len(Flat(Append(tt, s))) = Len(Flat(tt)) + Len(s.data)
      BY <2>4, Concatenation, Zenon
    <3>2. Len(Flat(tt)) \in Int /\ Len(s.data) \in Int
      BY <2>4
    <3>3. e.length = (c.length + Len(Flat(tt))) + Len(s.data)
      BY <2>2, <2>5, Zenon
    <3> QED
      BY <1>2, <3>1, <3>2, <3>3
  <2> QED
    BY <2>1, <2>8, <2>9, Zenon
<1> HIDE DEF Good
<1>5. <<>> \in S /\ \A tt \in Seq(Slice), s \in Slice : tt \in S => Append(tt, s) \in S
  BY <1>2, <1>3, <1>4
<1> HIDE DEF S
<1>6. ss \in S
  BY <1>5, Copying!SequenceInduction
<1> QED
  BY <1>6 DEF S, Good

\* A slice that comes into a buffer is charged to the buffer's account, unless
\* it is charged already or is not the buffer's own.
LEMMA ChargedIs ==
  ASSUME NEW c \in Context, NEW s \in Slice
  PROVE  LET u == MaybeCharged(c, s)
             d == ChargeFor(c, s)
         IN /\ u \in Slice /\ u.data = s.data /\ u.trackers = s.trackers
            /\ OnlyAccounts(c, d) /\ d.ran = c.ran
            /\ \A a \in Accounts : d.balance[a] = (c.balance[a] + ChargeOf(a)[u]) - ChargeOf(a)[s]
<1> DEFINE u == MaybeCharged(c, s)
           d == ChargeFor(c, s)
<1>1. /\ \A a \in Accounts : c.balance[a] \in Int
      /\ \A a : \A x \in Slice : ChargeOf(a)[x] \in Int /\ ChargeOf(a)[x] = IF x.account = a THEN x.cap ELSE 0
      /\ c.account \in Payer /\ s.account \in Payer /\ s.cap \in Nat
  BY DebtType, WeightsOfSlices, SliceIs DEF Context
<1>2. CASE s.account # None \/ ~s.owned \/ c.account = None
  <2>1. u = s
    BY <1>2 DEF MaybeCharged
  <2>2. d = c
    BY <2>1 DEF ChargeFor
  <2>3. OnlyAccounts(c, c)
    BY DEF OnlyAccounts
  <2>4. \A a \in Accounts : c.balance[a] = (c.balance[a] + ChargeOf(a)[s]) - ChargeOf(a)[s]
    BY <1>1
  <2> QED
    BY <2>1, <2>2, <2>3, <2>4
<1>3. CASE ~(s.account # None \/ ~s.owned \/ c.account = None)
  <2> DEFINE p == c.account
             v == [s EXCEPT !.account = p]
  <2>1. u = v /\ s.account = None /\ p # None /\ p \in Payer
    BY <1>1, <1>3 DEF MaybeCharged
  <2> HIDE DEF p
  <2>2. /\ v.account = p /\ v.data = s.data /\ v.trackers = s.trackers /\ v.cap = s.cap
        /\ v \in Slice
    BY <2>1 DEF Slice, ReservableSize, Payer
  <2> HIDE DEF v
  <2>3. d = Charge(c, p, s.cap)
    BY <2>1, <2>2 DEF ChargeFor, p
  <2>4. s.cap \in Int
    BY <1>1
  <2>5. /\ OnlyAccounts(c, Charge(c, p, s.cap)) /\ Charge(c, p, s.cap).ran = c.ran
        /\ \A x \in Accounts : Charge(c, p, s.cap).balance[x] = c.balance[x] + (IF x = p THEN s.cap ELSE 0)
    BY <2>1, <2>4, ChargeIs
  <2> HIDE DEF d, u
  <2>6. ASSUME NEW a \in Accounts
        PROVE  d.balance[a] = (c.balance[a] + ChargeOf(a)[u]) - ChargeOf(a)[s]
    <3>1. d.balance[a] = c.balance[a] + (IF a = p THEN s.cap ELSE 0)
      BY <2>3, <2>5, Zenon
    <3>2. ChargeOf(a)[u] = IF a = p THEN s.cap ELSE 0
      BY <1>1, <2>1, <2>2
    <3>3. ChargeOf(a)[s] = 0
      BY <1>1, <2>1, BufferAssumption DEF BufferAssumption
    <3> QED
      BY <1>1, <3>1, <3>2, <3>3
  <2> QED
    BY <2>1, <2>2, <2>3, <2>5, <2>6 DEF d, u
<1> QED
  BY <1>2, <1>3

\* A slice becomes the last one.
LEMMA TakeSliceIs ==
  ASSUME NEW c \in Context, NEW s \in Slice
  PROVE  LET e == TakeSlice(c, s)
         IN /\ TakesOver(c, e, <<s>>) /\ Flat(e.slices) = Flat(c.slices) \o s.data
            /\ e.length = c.length + Len(s.data)
<1> DEFINE u == MaybeCharged(c, s)
           d == ChargeFor(c, s)
           tt == Append(c.slices, u)
           n == c.length + Len(s.data)
           e == TakeSlice(c, s)
<1>1. /\ u \in Slice /\ u.data = s.data /\ u.trackers = s.trackers
      /\ OnlyAccounts(c, d) /\ d.ran = c.ran
      /\ \A a \in Accounts : d.balance[a] = (c.balance[a] + ChargeOf(a)[u]) - ChargeOf(a)[s]
  BY ChargedIs
<1>2. /\ d \in Context /\ d.slices = c.slices /\ d.length = c.length /\ d.account = c.account
  BY <1>1 DEF OnlyAccounts
<1>3. e = [d EXCEPT !.slices = tt, !.length = n]
  BY <1>2 DEF TakeSlice, DataSize
<1> HIDE DEF u, d
<1>4. tt \in Seq(Slice) /\ n \in Int /\ Flat(tt) = Flat(c.slices) \o s.data /\ c.slices \in Seq(Slice)
  <2>1. c.slices \in Seq(Slice) /\ c.length \in Int /\ Len(s.data) \in Int
    BY DebtType, SliceIs
  <2>2. tt \in Seq(Slice) /\ Flat(tt) = Flat(c.slices) \o u.data
    BY <1>1, <2>1, FlatEnds
  <2> QED
    BY <1>1, <2>1, <2>2
<1>5. /\ \A a : Weigh(ChargeOf(a), tt) = Weigh(ChargeOf(a), c.slices) + ChargeOf(a)[u]
      /\ \A t : Weigh(MarksOf(t), tt) = Weigh(MarksOf(t), c.slices) + MarksOf(t)[u]
  BY <1>1, <1>4, SliceWeights DEF IsWeight
<1> HIDE DEF tt, n, e
<1>6. /\ e \in Context /\ e.slices = tt /\ e.length = n /\ e.account = c.account
      /\ e.balance = d.balance /\ e.ran = c.ran
  BY <1>1, <1>2, <1>3, <1>4 DEF Context
<1>7. ASSUME NEW a \in Accounts
      PROVE  Debt(e, a) = Debt(c, a) - Weigh(ChargeOf(a), <<s>>)
  <2>1. /\ Weigh(ChargeOf(a), <<s>>) = ChargeOf(a)[s] /\ ChargeOf(a)[s] \in Int /\ ChargeOf(a)[u] \in Int
        /\ Weigh(ChargeOf(a), c.slices) \in Int
    <3>1. IsWeight(ChargeOf(a))
      BY SliceWeights, Zenon
    <3> QED
      BY <1>1, <1>4, <3>1, SMTT(30) DEF IsWeight
  <2>2. e.balance[a] = (c.balance[a] + ChargeOf(a)[u]) - ChargeOf(a)[s] /\ c.balance[a] \in Int
    BY <1>1, <1>6, DebtType
  <2>3. Debt(e, a) = e.balance[a] - (Weigh(ChargeOf(a), c.slices) + ChargeOf(a)[u])
    BY <1>5, <1>6 DEF Debt
  <2> QED
    BY <2>1, <2>2, <2>3 DEF Debt
<1>8. ASSUME NEW t \in Callbacks
      PROVE  Marks(e, t) = Marks(c, t) + Weigh(MarksOf(t), <<s>>)
  <2>1. /\ Weigh(MarksOf(t), <<s>>) = MarksOf(t)[s] /\ MarksOf(t)[s] \in Int
        /\ Weigh(MarksOf(t), c.slices) \in Int
    <3>1. IsWeight(MarksOf(t))
      BY SliceWeights, Zenon
    <3> QED
      BY <1>1, <1>4, <3>1, SMTT(30) DEF IsWeight
  <2>2. e.ran[t] = c.ran[t] /\ c.ran[t] \in Int
    BY <1>6, DebtType
  <2>3. MarksOf(t)[u] = MarksOf(t)[s]
    BY <1>1, WeightsOfSlices
  <2>4. Marks(e, t) = e.ran[t] + (Weigh(MarksOf(t), c.slices) + MarksOf(t)[s])
    BY <1>5, <1>6, <2>3 DEF Marks
  <2> QED
    BY <2>1, <2>2, <2>4 DEF Marks
<1> QED
  BY <1>4, <1>6, <1>7, <1>8 DEF TakesOver, e, n

\* A slice is coalesced into the last one, or becomes the last one.
LEMMA CoalesceOrAddSliceIs ==
  ASSUME NEW c \in Context, NEW s \in Slice
  PROVE  LET e == CoalesceOrAddSlice(c, s)
         IN /\ TakesOver(c, e, <<s>>) /\ Flat(e.slices) = Flat(c.slices) \o s.data
            /\ e.length = c.length + Len(s.data)
<1> DEFINE e == CoalesceOrAddSlice(c, s)
<1>1. CASE ~CanCoalesce(c, s)
  BY <1>1, TakeSliceIs DEF CoalesceOrAddSlice
<1>2. CASE CanCoalesce(c, s)
  <2> DEFINE d == AddImpl(c, s.data)
             x == Last(d.slices)
             v == [x EXCEPT !.trackers = x.trackers \o s.trackers]
             tt == ReplaceBack(d.slices, v)
             b == [d EXCEPT !.slices = tt]
  <2>1. c.slices # <<>> /\ s.data \in Seq(Byte) /\ s.trackers \in Seq(Callbacks) /\ s.account \in Payer /\ s.cap \in Nat
    BY <1>2, SliceIs DEF CanCoalesce
  <2>2. /\ TakesOver(c, d, <<>>) /\ Flat(d.slices) = Flat(c.slices) \o s.data
        /\ d.length = c.length + Len(s.data) /\ d.slices # <<>>
    BY <2>1, AddImplIs
  <2>3. d \in Context /\ d.slices \in Seq(Slice) /\ x \in Slice /\ x = d.slices[Len(d.slices)]
    BY <2>2, DebtType, Ends DEF TakesOver
  <2>4. e = Charge(b, s.account, -s.cap)
    BY <1>2, <2>3 DEF CoalesceOrAddSlice, ReplaceBack
  <2> HIDE DEF d
  <2>5. /\ v \in Slice /\ v.data = x.data /\ v.cap = x.cap /\ v.account = x.account
        /\ v.trackers = x.trackers \o s.trackers
    <3> HIDE DEF x
    <3> DEFINE ts == x.trackers \o s.trackers
    <3>1. ts \in Seq(Callbacks)
      BY <2>1, <2>3, SliceIs
    <3>2. v = [x EXCEPT !.trackers = ts]
      OBVIOUS
    <3> HIDE DEF ts, v
    <3>3. /\ v.data = x.data /\ v.cap = x.cap /\ v.account = x.account /\ v.trackers = ts
          /\ v.off = x.off /\ v \in Slice
      BY <2>3, <3>1, <3>2 DEF Slice, ReservableSize
    <3> QED
      BY <3>3 DEF ts
  <2>6. v.data = x.data \o <<>> /\ <<>> \in Seq(Byte)
    BY <2>3, <2>5, SliceIs, Concatenation, Zenon
  <2> HIDE DEF v
  <2>7. /\ tt \in Seq(Slice) /\ Flat(tt) = Flat(d.slices) \o <<>>
        /\ \A w : IsWeight(w) => Weigh(w, tt) = (Weigh(w, d.slices) - w[x]) + w[v]
    BY <2>2, <2>3, <2>5, <2>6, BackReplaced
  <2> HIDE DEF x, tt
  <2>8. Flat(tt) = Flat(c.slices) \o s.data
    <3>1. Flat(d.slices) \in Seq(Byte)
      BY <2>3, FlatType
    <3>2. Flat(d.slices) \o <<>> = Flat(d.slices)
      BY <3>1, Concatenation, Zenon
    <3> QED
      BY <2>2, <2>7, <3>2, Zenon
  <2>9. SameAccounts(d, b) /\ b.slices = tt /\ b.length = d.length
    BY <2>3, <2>7 DEF SameAccounts, Context
  <2> HIDE DEF b
  <2>10. Balanced(b.slices, d.slices, <<s>>, s.account, -s.cap)
    <3>1. ASSUME NEW a \in Accounts
          PROVE  Weigh(ChargeOf(a), tt) = (Weigh(ChargeOf(a), d.slices) + Weigh(ChargeOf(a), <<s>>))
                                             + (IF a = s.account THEN -s.cap ELSE 0)
      <4>1. Weigh(ChargeOf(a), tt) = (Weigh(ChargeOf(a), d.slices) - ChargeOf(a)[x]) + ChargeOf(a)[v]
        BY <2>7, SliceWeights
      <4>2. ChargeOf(a)[v] = ChargeOf(a)[x] /\ ChargeOf(a)[x] \in Int /\ Weigh(ChargeOf(a), d.slices) \in Int
        <5>1. ChargeOf(a)[v] = ChargeOf(a)[x]
          BY <2>3, <2>5, SameWeights
        <5>2. ChargeOf(a)[x] \in Int
          BY <2>3, WeightsOfSlices
        <5>3. Weigh(ChargeOf(a), d.slices) \in Int
          BY <2>3, SliceSums
        <5> QED
          BY <5>1, <5>2, <5>3
      <4>3. Weigh(ChargeOf(a), <<s>>) = ChargeOf(a)[s]
        BY SliceWeights DEF IsWeight
      <4>4. ChargeOf(a)[s] = IF s.account = a THEN s.cap ELSE 0
        BY WeightsOfSlices
      <4>5. s.cap \in Int
        BY SliceIs
      <4> QED
        BY <4>1, <4>2, <4>3, <4>4, <4>5
    <3>2. ASSUME NEW t \in Callbacks
          PROVE  Weigh(MarksOf(t), tt) = Weigh(MarksOf(t), d.slices) + Weigh(MarksOf(t), <<s>>)
      <4>1. Weigh(MarksOf(t), tt) = (Weigh(MarksOf(t), d.slices) - MarksOf(t)[x]) + MarksOf(t)[v]
        BY <2>7, SliceWeights
      <4>2. /\ MarksOf(t)[v] = Count(v.trackers, t) /\ MarksOf(t)[x] = Count(x.trackers, t)
            /\ MarksOf(t)[s] = Count(s.trackers, t) /\ MarksOf(t)[x] \in Int /\ MarksOf(t)[s] \in Int
            /\ Weigh(MarksOf(t), d.slices) \in Int
        <5>1. \A y \in Slice : MarksOf(t)[y] = Count(y.trackers, t) /\ MarksOf(t)[y] \in Int
          BY WeightsOfSlices
        <5>2. Weigh(MarksOf(t), d.slices) \in Int
          BY <2>3, SliceSums
        <5> QED
          BY <2>3, <2>5, <5>1, <5>2
      <4>3. Weigh(MarksOf(t), <<s>>) = MarksOf(t)[s]
        BY SliceWeights DEF IsWeight
      <4>4. Count(x.trackers \o s.trackers, t) = Count(x.trackers, t) + Count(s.trackers, t)
        <5>1. x.trackers \in Seq(Callbacks)
          BY <2>3, SliceIs
        <5> QED
          BY <2>1, <5>1, CountConcat
      <4>5. MarksOf(t)[v] = MarksOf(t)[x] + MarksOf(t)[s]
        BY <2>5, <4>2, <4>4, Zenon
      <4> QED
        BY <4>1, <4>2, <4>3, <4>5
    <3> QED
      BY <2>9, <3>1, <3>2 DEF Balanced
  <2>11. /\ TakesOver(d, Charge(b, s.account, -s.cap), <<s>>)
         /\ Charge(b, s.account, -s.cap).length = b.length /\ Charge(b, s.account, -s.cap).slices = b.slices
    <3>1. <<s>> \in Seq(Slice) /\ -s.cap \in Int
      BY <2>1
    <3> QED
      BY <2>1, <2>3, <2>9, <2>10, <3>1, Rewritten, ZenonT(30)
  <2> HIDE DEF e
  <2>12. TakesOver(c, e, <<s>>)
    <3>1. <<s>> \in Seq(Slice) /\ TakesOver(d, e, <<s>>)
      BY <2>4, <2>11
    <3> QED
      BY <2>2, <3>1, TakesNothingBefore
  <2>13. e.slices = tt /\ e.length = c.length + Len(s.data)
    BY <2>2, <2>4, <2>9, <2>11, Zenon
  <2> QED
    BY <2>8, <2>12, <2>13 DEF e
<1> QED
  BY <1>1, <1>2

Coalescing == INSTANCE FoldTheorems WITH Op <- CoalesceOrAddSlice

\* move() of all slices of another buffer.
LEMMA CoalesceOrAddSlicesIs ==
  ASSUME NEW c \in Context, NEW ss \in Seq(Slice)
  PROVE  LET d == CoalesceOrAddSlices(c, ss)
         IN /\ TakesOver(c, d, ss) /\ Flat(d.slices) = Flat(c.slices) \o Flat(ss)
            /\ d.length = c.length + Len(Flat(ss))
<1> DEFINE Good(tt) == LET d == CoalesceOrAddSlices(c, tt)
                       IN /\ TakesOver(c, d, tt) /\ Flat(d.slices) = Flat(c.slices) \o Flat(tt)
                          /\ d.length = c.length + Len(Flat(tt))
           S == {tt \in Seq(Slice) : Good(tt)}
<1>1. \A tt : CoalesceOrAddSlices(c, tt) = Coalescing!Fold(c, tt)
  BY DEF CoalesceOrAddSlices, FoldLeft, MapThenFoldSet, Max, Coalescing!Fold,
       Coalescing!MapThenFoldSet, Coalescing!Latest
<1>2. Flat(c.slices) \in Seq(Byte) /\ c.length \in Int /\ <<>> \in Seq(Slice)
  BY DebtType
<1>3. Good(<<>>)
  <2>1. CoalesceOrAddSlices(c, <<>>) = c
    BY <1>1, Coalescing!FoldOfNone
  <2>2. Flat(<<>>) = <<>> /\ Flat(c.slices) \o <<>> = Flat(c.slices) /\ Len(<<>>) = 0
    BY <1>2, FlatIs, Concatenation, Zenon
  <2>3. Flat(c.slices) = Flat(c.slices) \o Flat(<<>>)
    BY <2>2, Zenon
  <2>4. c.length = c.length + 0
    BY <1>2
  <2>5. c.length = c.length + Len(Flat(<<>>))
    BY <2>2, <2>4, Zenon
  <2>6. TakesOver(c, c, <<>>)
    BY TakesNothing
  <2> QED
    BY <2>1, <2>3, <2>5, <2>6
<1>4. ASSUME NEW tt \in Seq(Slice), NEW s \in Slice, Good(tt)
      PROVE  Good(Append(tt, s))
  <2> DEFINE d == CoalesceOrAddSlices(c, tt)
             e == CoalesceOrAddSlice(d, s)
  <2>1. CoalesceOrAddSlices(c, Append(tt, s)) = e
    <3>1. Coalescing!Fold(c, Append(tt, s)) = CoalesceOrAddSlice(Coalescing!Fold(c, tt), s)
      BY Coalescing!FoldOfAppend
    <3> QED
      BY <1>1, <3>1
  <2>2. /\ TakesOver(c, d, tt) /\ Flat(d.slices) = Flat(c.slices) \o Flat(tt)
        /\ d.length = c.length + Len(Flat(tt))
    BY <1>4
  <2> HIDE DEF d
  <2>3. d \in Context
    BY <2>2 DEF TakesOver
  <2>4. s.data \in Seq(Byte) /\ Flat(tt) \in Seq(Byte) /\ Flat(Append(tt, s)) = Flat(tt) \o s.data
    BY FlatEnds, FlatType
  <2>5. /\ TakesOver(d, e, <<s>>) /\ Flat(e.slices) = Flat(d.slices) \o s.data
        /\ e.length = d.length + Len(s.data)
    BY <2>3, CoalesceOrAddSliceIs
  <2> HIDE DEF e
  <2>6. Flat(e.slices) = Flat(c.slices) \o Flat(Append(tt, s))
    <3>1. (Flat(c.slices) \o Flat(tt)) \o s.data = Flat(c.slices) \o (Flat(tt) \o s.data)
      BY <1>2, <2>4, Concatenation, Zenon
    <3> QED
      BY <2>2, <2>4, <2>5, <3>1, Zenon
  <2>7. TakesOver(c, e, Append(tt, s))
    <3>1. tt \o <<s>> = Append(tt, s) /\ <<s>> \in Seq(Slice)
      OBVIOUS
    <3>2. TakesOver(c, e, tt \o <<s>>)
      BY <2>2, <2>5, <3>1, TakesOverTwice
    <3> QED
      BY <3>1, <3>2, Zenon
  <2>8. e.length = c.length + Len(Flat(Append(tt, s)))
    <3>1. Len(Flat(Append(tt, s))) = Len(Flat(tt)) + Len(s.data)
      BY <2>4, Concatenation, Zenon
    <3>2. Len(Flat(tt)) \in Int /\ Len(s.data) \in Int
      BY <2>4
    <3>3. e.length = (c.length + Len(Flat(tt))) + Len(s.data)
      BY <2>2, <2>5, Zenon
    <3> QED
      BY <1>2, <3>1, <3>2, <3>3
  <2> QED
    BY <2>1, <2>6, <2>7, <2>8, Zenon
<1> HIDE DEF Good
<1>5. <<>> \in S /\ \A tt \in Seq(Slice), s \in Slice : tt \in S => Append(tt, s) \in S
  BY <1>2, <1>3, <1>4
<1> HIDE DEF S
<1>6. ss \in S
  BY <1>5, Coalescing!SequenceInduction
<1> QED
  BY <1>6 DEF S, Good

\* move(rhs, length) destroys an empty slice, and moves any other one.
LEMMA MoveSliceIs ==
  ASSUME NEW c \in Context, NEW s \in Slice
  PROVE  LET e == MoveSlice(c, s)
         IN /\ TakesOver(c, e, <<s>>) /\ Flat(e.slices) = Flat(c.slices) \o s.data
            /\ e.length = c.length + Len(s.data)
<1>1. CASE DataSize(s) # 0
  BY <1>1, CoalesceOrAddSliceIs DEF MoveSlice
<1>2. CASE DataSize(s) = 0
  <2> DEFINE e == Release(c, s)
  <2>1. MoveSlice(c, s) = e
    BY <1>2 DEF MoveSlice
  <2>2. /\ OnlyAccounts(c, e)
        /\ \A a \in Accounts : e.balance[a] = c.balance[a] - ChargeOf(a)[s]
        /\ \A t \in Callbacks : e.ran[t] = c.ran[t] + MarksOf(t)[s]
    BY ReleaseIs
  <2> HIDE DEF e
  <2>3. /\ e \in Context /\ e.slices = c.slices /\ e.length = c.length /\ e.account = c.account
    BY <2>2 DEF OnlyAccounts
  <2>4. c.slices \in Seq(Slice) /\ Flat(c.slices) \in Seq(Byte) /\ c.length \in Int
    BY DebtType
  <2>5. s.data = <<>> /\ Len(s.data) = 0
    BY <1>2, SliceIs DEF DataSize
  <2>6. Flat(e.slices) = Flat(c.slices) \o s.data
    BY <2>3, <2>4, <2>5, Concatenation, Zenon
  <2>7. e.length = c.length + Len(s.data)
    BY <2>3, <2>4, <2>5
  <2>8. ASSUME NEW a \in Accounts
        PROVE  Debt(e, a) = Debt(c, a) - Weigh(ChargeOf(a), <<s>>)
    <3>1. Weigh(ChargeOf(a), <<s>>) = ChargeOf(a)[s] /\ ChargeOf(a)[s] \in Int
      BY SliceWeights DEF IsWeight
    <3>2. Weigh(ChargeOf(a), c.slices) \in Int /\ c.balance[a] \in Int
      BY <2>4, SliceSums, DebtType
    <3>3. e.balance[a] = c.balance[a] - ChargeOf(a)[s]
      BY <2>2
    <3> QED
      BY <2>3, <3>1, <3>2, <3>3 DEF Debt
  <2>9. ASSUME NEW t \in Callbacks
        PROVE  Marks(e, t) = Marks(c, t) + Weigh(MarksOf(t), <<s>>)
    <3>1. Weigh(MarksOf(t), <<s>>) = MarksOf(t)[s] /\ MarksOf(t)[s] \in Int
      BY SliceWeights DEF IsWeight
    <3>2. Weigh(MarksOf(t), c.slices) \in Int /\ c.ran[t] \in Int
      BY <2>4, SliceSums, DebtType
    <3>3. e.ran[t] = c.ran[t] + MarksOf(t)[s]
      BY <2>2
    <3> QED
      BY <2>3, <3>1, <3>2, <3>3 DEF Marks
  <2>10. TakesOver(c, e, <<s>>)
    BY <2>3, <2>8, <2>9 DEF TakesOver
  <2> QED
    BY <2>1, <2>6, <2>7, <2>10
<1> QED
  BY <1>1, <1>2

Moving == INSTANCE FoldTheorems WITH Op <- MoveSlice

\* move(rhs, length) of whole slices.
LEMMA MoveSlicesIs ==
  ASSUME NEW c \in Context, NEW ss \in Seq(Slice)
  PROVE  LET d == MoveSlices(c, ss)
         IN /\ TakesOver(c, d, ss) /\ Flat(d.slices) = Flat(c.slices) \o Flat(ss)
            /\ d.length = c.length + Len(Flat(ss))
<1> DEFINE Good(tt) == LET d == MoveSlices(c, tt)
                       IN /\ TakesOver(c, d, tt) /\ Flat(d.slices) = Flat(c.slices) \o Flat(tt)
                          /\ d.length = c.length + Len(Flat(tt))
           S == {tt \in Seq(Slice) : Good(tt)}
<1>1. \A tt : MoveSlices(c, tt) = Moving!Fold(c, tt)
  BY DEF MoveSlices, FoldLeft, MapThenFoldSet, Max, Moving!Fold,
       Moving!MapThenFoldSet, Moving!Latest
<1>2. Flat(c.slices) \in Seq(Byte) /\ c.length \in Int /\ <<>> \in Seq(Slice)
  BY DebtType
<1>3. Good(<<>>)
  <2>1. MoveSlices(c, <<>>) = c
    BY <1>1, Moving!FoldOfNone
  <2>2. Flat(<<>>) = <<>> /\ Flat(c.slices) \o <<>> = Flat(c.slices) /\ Len(<<>>) = 0
    BY <1>2, FlatIs, Concatenation, Zenon
  <2>3. Flat(c.slices) = Flat(c.slices) \o Flat(<<>>)
    BY <2>2, Zenon
  <2>4. c.length = c.length + 0
    BY <1>2
  <2>5. c.length = c.length + Len(Flat(<<>>))
    BY <2>2, <2>4, Zenon
  <2>6. TakesOver(c, c, <<>>)
    BY TakesNothing
  <2> QED
    BY <2>1, <2>3, <2>5, <2>6
<1>4. ASSUME NEW tt \in Seq(Slice), NEW s \in Slice, Good(tt)
      PROVE  Good(Append(tt, s))
  <2> DEFINE d == MoveSlices(c, tt)
             e == MoveSlice(d, s)
  <2>1. MoveSlices(c, Append(tt, s)) = e
    <3>1. Moving!Fold(c, Append(tt, s)) = MoveSlice(Moving!Fold(c, tt), s)
      BY Moving!FoldOfAppend
    <3> QED
      BY <1>1, <3>1
  <2>2. /\ TakesOver(c, d, tt) /\ Flat(d.slices) = Flat(c.slices) \o Flat(tt)
        /\ d.length = c.length + Len(Flat(tt))
    BY <1>4
  <2> HIDE DEF d
  <2>3. d \in Context
    BY <2>2 DEF TakesOver
  <2>4. s.data \in Seq(Byte) /\ Flat(tt) \in Seq(Byte) /\ Flat(Append(tt, s)) = Flat(tt) \o s.data
    BY FlatEnds, FlatType
  <2>5. /\ TakesOver(d, e, <<s>>) /\ Flat(e.slices) = Flat(d.slices) \o s.data
        /\ e.length = d.length + Len(s.data)
    BY <2>3, MoveSliceIs
  <2> HIDE DEF e
  <2>6. Flat(e.slices) = Flat(c.slices) \o Flat(Append(tt, s))
    <3>1. (Flat(c.slices) \o Flat(tt)) \o s.data = Flat(c.slices) \o (Flat(tt) \o s.data)
      BY <1>2, <2>4, Concatenation, Zenon
    <3> QED
      BY <2>2, <2>4, <2>5, <3>1, Zenon
  <2>7. TakesOver(c, e, Append(tt, s))
    <3>1. tt \o <<s>> = Append(tt, s) /\ <<s>> \in Seq(Slice)
      OBVIOUS
    <3>2. TakesOver(c, e, tt \o <<s>>)
      BY <2>2, <2>5, <3>1, TakesOverTwice
    <3> QED
      BY <3>1, <3>2, Zenon
  <2>8. e.length = c.length + Len(Flat(Append(tt, s)))
    <3>1. Len(Flat(Append(tt, s))) = Len(Flat(tt)) + Len(s.data)
      BY <2>4, Concatenation, Zenon
    <3>2. Len(Flat(tt)) \in Int /\ Len(s.data) \in Int
      BY <2>4
    <3>3. e.length = (c.length + Len(Flat(tt))) + Len(s.data)
      BY <2>2, <2>5, Zenon
    <3> QED
      BY <1>2, <3>1, <3>2, <3>3
  <2> QED
    BY <2>1, <2>6, <2>7, <2>8, Zenon
<1> HIDE DEF Good
<1>5. <<>> \in S /\ \A tt \in Seq(Slice), s \in Slice : tt \in S => Append(tt, s) \in S
  BY <1>2, <1>3, <1>4
<1> HIDE DEF S
<1>6. ss \in S
  BY <1>5, Moving!SequenceInduction
<1> QED
  BY <1>6 DEF S, Good

------------------------------------------------------------------------------
(* Draining *)

\* A set of positions that has every position before one of its own.
LEMMA PrefixSet ==
  ASSUME NEW m \in Nat, NEW W \in SUBSET (1..m), \A i \in W : \A j \in 1..i : j \in W
  PROVE  \E k \in 0..m : W = 1..k /\ Cardinality(W) = k
<1>1. \E k \in 0..m : W = 1..k
  <2> SUFFICES ASSUME \A k \in 0..m : W # 1..k
               PROVE  FALSE
    OBVIOUS
  <2> DEFINE S == {j \in Nat : j <= m => 1..j \subseteq W}
  <2>1. 0 \in S
    OBVIOUS
  <2>2. ASSUME NEW j \in Nat, j \in S
        PROVE  j + 1 \in S
    <3> SUFFICES ASSUME j + 1 <= m
                 PROVE  1..(j + 1) \subseteq W
      OBVIOUS
    <3>1. 1..j \subseteq W /\ j \in 0..m
      BY <2>2
    <3>2. j + 1 \in W
      <4>1. PICK i \in W : i \notin 1..j
        BY <3>1
      <4>2. i \in Nat /\ i >= j + 1
        BY <4>1
      <4> QED
        BY <4>1, <4>2
    <3> QED
      BY <3>1, <3>2
  <2> HIDE DEF S
  <2>3. m \in S
    BY <2>1, <2>2, Adding!SetInduction
  <2>4. 1..m \subseteq W /\ m \in 0..m
    BY <2>3 DEF S
  <2>5. W = 1..m
    BY <2>4
  <2> QED
    BY <2>4, <2>5
<1>2. PICK k \in 0..m : W = 1..k
  BY <1>1
<1>3. Cardinality(1..k) = k
  BY FS_Interval
<1> QED
  BY <1>2, <1>3

\* Where the first i slices end.
LEMMA EndIs ==
  ASSUME NEW ss \in Seq(Slice)
  PROVE  /\ End(ss, 0) = 0
         /\ \A i \in 0..Len(ss) : /\ End(ss, i) \in Nat
                                  /\ End(ss, i) = Len(Flat(SubSeq(ss, 1, i)))
                                  /\ End(ss, i) = Weigh(SizeOf, SubSeq(ss, 1, i))
         /\ \A i \in 0..(Len(ss) - 1) : End(ss, i + 1) = End(ss, i) + Len(ss[i + 1].data)
         /\ \A i, j \in 0..Len(ss) : i <= j => End(ss, i) <= End(ss, j)
<1>1. ASSUME NEW i \in 0..Len(ss)
      PROVE  /\ SubSeq(ss, 1, i) \in Seq(Slice) /\ Len(SubSeq(ss, 1, i)) = i
             /\ End(ss, i) = Weigh(SizeOf, SubSeq(ss, 1, i))
             /\ End(ss, i) \in Nat /\ End(ss, i) = Len(Flat(SubSeq(ss, 1, i)))
  <2>1. SubSeq(ss, 1, i) \in Seq(Slice) /\ Len(SubSeq(ss, 1, i)) = i
    BY SplitAt
  <2>2. Size(SubSeq(ss, 1, i)) = Weigh(SizeOf, SubSeq(ss, 1, i))
    BY <2>1, SumsWeigh
  <2>3. Weigh(SizeOf, SubSeq(ss, 1, i)) \in Nat
    BY <2>1, SliceWeights DEF IsWeight
  <2>4. Len(Flat(SubSeq(ss, 1, i))) = Weigh(SizeOf, SubSeq(ss, 1, i))
    BY <2>1, FlatType
  <2> QED
    BY <2>1, <2>2, <2>3, <2>4 DEF End
<1>2. ASSUME NEW i \in 0..(Len(ss) - 1)
      PROVE  End(ss, i + 1) = End(ss, i) + Len(ss[i + 1].data)
  <2>1. SizeOf \in [Slice -> Int] /\ ss[i + 1] \in Slice /\ i \in 0..Len(ss) /\ i + 1 \in 0..Len(ss)
    BY WeightsOfSlices
  <2>2. Weigh(SizeOf, SubSeq(ss, 1, i + 1)) = Weigh(SizeOf, SubSeq(ss, 1, i)) + SizeOf[ss[i + 1]]
    BY <2>1, WeighParts
  <2>3. SizeOf[ss[i + 1]] = Len(ss[i + 1].data)
    BY <2>1, WeightsOfSlices
  <2> QED
    BY <1>1, <2>1, <2>2, <2>3
<1>3. ASSUME NEW i \in 0..Len(ss), NEW j \in 0..Len(ss), i <= j
      PROVE  End(ss, i) <= End(ss, j)
  <2> DEFINE tt == SubSeq(ss, 1, j)
  <2>1. tt \in Seq(Slice) /\ Len(tt) = j
    BY <1>1
  <2>2. SubSeq(tt, 1, i) = SubSeq(ss, 1, i)
    BY <1>3
  <2> HIDE DEF tt
  <2>3. /\ SizeOf \in [Slice -> Int] /\ i \in 0..Len(tt)
        /\ SubSeq(tt, i + 1, Len(tt)) \in Seq(Slice)
    BY <1>3, <2>1, WeightsOfSlices, SplitAt
  <2>4. Weigh(SizeOf, tt) = Weigh(SizeOf, SubSeq(tt, 1, i)) + Weigh(SizeOf, SubSeq(tt, i + 1, Len(tt)))
    BY <2>1, <2>3, WeighParts
  <2>5. Weigh(SizeOf, SubSeq(tt, i + 1, Len(tt))) \in Nat
    BY <2>3, SliceWeights DEF IsWeight
  <2>6. End(ss, j) = Weigh(SizeOf, tt) /\ End(ss, i) = Weigh(SizeOf, SubSeq(tt, 1, i)) /\ End(ss, i) \in Nat
    BY <1>1, <2>2 DEF tt
  <2> QED
    BY <2>4, <2>5, <2>6
<1>4. End(ss, 0) = 0
  <2>1. SubSeq(ss, 1, 0) = <<>> /\ 0 \in 0..Len(ss)
    OBVIOUS
  <2>2. Weigh(SizeOf, <<>>) = 0
    BY SliceWeights DEF IsWeight
  <2> QED
    BY <1>1, <2>1, <2>2
<1> QED
  BY <1>1, <1>2, <1>3, <1>4

\* The two parts of a sequence of slices weigh what it weighs, and hold its bytes.
LEMMA Parted ==
  ASSUME NEW ss \in Seq(Slice), NEW k \in 0..Len(ss)
  PROVE  LET x == SubSeq(ss, 1, k)
             y == SubSeq(ss, k + 1, Len(ss))
         IN /\ x \in Seq(Slice) /\ y \in Seq(Slice) /\ Len(x) = k /\ Len(y) = Len(ss) - k
            /\ Flat(ss) = Flat(x) \o Flat(y)
            /\ \A w : IsWeight(w) => Weigh(w, ss) = Weigh(w, x) + Weigh(w, y)
<1> DEFINE x == SubSeq(ss, 1, k)
           y == SubSeq(ss, k + 1, Len(ss))
<1>1. x \in Seq(Slice) /\ y \in Seq(Slice) /\ Len(x) = k /\ Len(y) = Len(ss) - k /\ ss = x \o y
  BY SplitAt, ZenonT(30)
<1> HIDE DEF x, y
<1>2. Flat(x \o y) = Flat(x) \o Flat(y)
  BY <1>1, FlatConcat
<1>3. ASSUME NEW w, IsWeight(w)
      PROVE  Weigh(w, x \o y) = Weigh(w, x) + Weigh(w, y)
  BY <1>1, <1>3 DEF IsWeight
<1> QED
  BY <1>1, <1>2, <1>3 DEF x, y

\* drain() of a part of a slice's bytes.
LEMMA DrainedIs ==
  ASSUME NEW s \in Slice, NEW n \in 0..Len(s.data)
  PROVE  LET u == Drained(s, n)
         IN /\ u \in Slice /\ u.cap = s.cap /\ u.account = s.account /\ u.trackers = s.trackers
            /\ u.data = SubSeq(s.data, n + 1, Len(s.data))
<1> DEFINE u == Drained(s, n)
           x == SubSeq(s.data, n + 1, Len(s.data))
           All == [data : Seq(Nat \ {0}), off : Nat, cap : Nat, owned : BOOLEAN,
                   trackers : Seq(Callbacks), account : Accounts \cup {None}]
<1>1. /\ s.data \in Seq(Byte) /\ s.off \in Nat /\ s.cap \in Nat /\ s.off + Len(s.data) <= s.cap
      /\ Len(s.data) \in Nat
  BY SliceIs
<1>2. x \in Seq(Byte) /\ Len(x) = Len(s.data) - n
  BY <1>1, BytesSplit
<1>3. CASE n = Len(s.data)
  <2>1. x = <<>>
    BY <1>2, <1>3
  <2>2. u = [s EXCEPT !.data = <<>>, !.off = 0]
    BY <1>3 DEF Drained, DataSize
  <2>3. <<>> \in Seq(Nat \ {0}) /\ Len(<<>>) = 0
    OBVIOUS
  <2> HIDE DEF u, x
  <2>4. /\ u \in All /\ u.cap = s.cap /\ u.account = s.account /\ u.trackers = s.trackers
        /\ u.data = <<>> /\ u.off = 0
    BY <2>2, <2>3 DEF Slice
  <2>5. ReservableSize(u) \in Nat
    <3>1. s.cap - (0 + 0) \in Nat
      BY <1>1
    <3>2. ReservableSize(u) = s.cap - (0 + 0)
      BY <2>3, <2>4, Zenon DEF ReservableSize
    <3> QED
      BY <3>1, <3>2
  <2> QED
    BY <2>1, <2>4, <2>5 DEF Slice, u, x
<1>4. CASE n # Len(s.data)
  <2>1. u = [s EXCEPT !.data = x, !.off = s.off + n]
    BY <1>4 DEF Drained, DataSize
  <2> HIDE DEF u, x
  <2>2. /\ u \in All /\ u.cap = s.cap /\ u.account = s.account /\ u.trackers = s.trackers
        /\ u.data = x /\ u.off = s.off + n
    <3> DEFINE m == s.off + n
    <3>1. m \in Nat /\ x \in Seq(Nat \ {0})
      BY <1>1, <1>2 DEF Byte
    <3>2. u = [s EXCEPT !.data = x, !.off = m]
      BY <2>1
    <3> HIDE DEF m
    <3>3. /\ u \in All /\ u.cap = s.cap /\ u.account = s.account /\ u.trackers = s.trackers
          /\ u.data = x /\ u.off = m
      BY <3>1, <3>2 DEF Slice
    <3> QED
      BY <3>3 DEF m
  <2>3. ReservableSize(u) \in Nat
    <3>1. s.cap - ((s.off + n) + (Len(s.data) - n)) \in Nat
      BY <1>1
    <3>2. ReservableSize(u) = s.cap - ((s.off + n) + (Len(s.data) - n))
      BY <1>2, <2>2, Zenon DEF ReservableSize
    <3> QED
      BY <3>1, <3>2
  <2> QED
    BY <2>2, <2>3 DEF Slice, u, x
<1> QED
  BY <1>3, <1>4

\* The bytes of a slice of which a part is drained, with the slices behind it.
LEMMA FrontDrained ==
  ASSUME NEW ss \in Seq(Slice), ss # <<>>, NEW n \in 0..Len(Head(ss).data)
  PROVE  LET u == Drained(Head(ss), n)
             tt == <<u>> \o Tail(ss)
         IN /\ tt \in Seq(Slice)
            /\ Head(ss).data \in Seq(Byte)
            /\ Flat(ss) = SubSeq(Head(ss).data, 1, n) \o Flat(tt)
            /\ \A a : Weigh(ChargeOf(a), tt) = Weigh(ChargeOf(a), ss)
            /\ \A t : Weigh(MarksOf(t), tt) = Weigh(MarksOf(t), ss)
<1> DEFINE s == Head(ss)
           u == Drained(s, n)
           tt == <<u>> \o Tail(ss)
           x == SubSeq(s.data, 1, n)
           y == SubSeq(s.data, n + 1, Len(s.data))
<1>1. s \in Slice
  BY Ends
<1>2. /\ u \in Slice /\ u.cap = s.cap /\ u.account = s.account /\ u.trackers = s.trackers
      /\ u.data = y
  BY <1>1, DrainedIs
<1>3. s.data \in Seq(Byte) /\ x \in Seq(Byte) /\ y \in Seq(Byte) /\ x \o y = s.data
  BY <1>1, SliceIs, BytesSplit
<1> HIDE DEF u, x, y
<1>4. /\ tt \in Seq(Slice) /\ Tail(ss) \in Seq(Slice)
      /\ Flat(ss) = s.data \o Flat(Tail(ss)) /\ Flat(tt) = u.data \o Flat(Tail(ss))
      /\ \A w : IsWeight(w) => Weigh(w, tt) = (Weigh(w, ss) - w[s]) + w[u]
  <2> DEFINE rr == ReplaceFront(ss, u)
  <2>1. /\ rr \in Seq(Slice) /\ Tail(ss) \in Seq(Slice) /\ rr = tt
        /\ Flat(ss) = s.data \o Flat(Tail(ss)) /\ Flat(rr) = u.data \o Flat(Tail(ss))
        /\ \A w : IsWeight(w) => Weigh(w, rr) = (Weigh(w, ss) - w[s]) + w[u]
    <3> HIDE DEF s
    <3>1. u \in Slice
      BY <1>2
    <3> QED
      BY <3>1, FrontReplaced DEF s
  <2> HIDE DEF rr, tt, s
  <2> QED
    BY <2>1
<1> HIDE DEF tt
<1>5. Flat(ss) = x \o Flat(tt)
  <2>1. Flat(Tail(ss)) \in Seq(Byte)
    BY <1>4, FlatType
  <2>2. (x \o y) \o Flat(Tail(ss)) = x \o (y \o Flat(Tail(ss)))
    BY <1>3, <2>1, Concatenation, Zenon
  <2> QED
    BY <1>2, <1>3, <1>4, <2>2, Zenon
<1> HIDE DEF s
<1>6. ASSUME NEW a
      PROVE  Weigh(ChargeOf(a), tt) = Weigh(ChargeOf(a), ss)
  <2>1. Weigh(ChargeOf(a), tt) = (Weigh(ChargeOf(a), ss) - ChargeOf(a)[s]) + ChargeOf(a)[u]
    BY <1>4, SliceWeights
  <2>2. ChargeOf(a)[u] = ChargeOf(a)[s]
    BY <1>1, <1>2, SameWeights
  <2>3. ChargeOf(a)[s] \in Int /\ Weigh(ChargeOf(a), ss) \in Int
    BY <1>1, WeightsOfSlices, SliceSums
  <2> QED
    BY <2>1, <2>2, <2>3
<1>7. ASSUME NEW t
      PROVE  Weigh(MarksOf(t), tt) = Weigh(MarksOf(t), ss)
  <2>1. Weigh(MarksOf(t), tt) = (Weigh(MarksOf(t), ss) - MarksOf(t)[s]) + MarksOf(t)[u]
    BY <1>4, SliceWeights
  <2>2. MarksOf(t)[u] = MarksOf(t)[s]
    BY <1>1, <1>2, SameWeights
  <2>3. MarksOf(t)[s] \in Int /\ Weigh(MarksOf(t), ss) \in Int
    BY <1>1, WeightsOfSlices, SliceSums
  <2> QED
    BY <2>1, <2>2, <2>3
<1> QED
  BY <1>3, <1>4, <1>5, <1>6, <1>7 DEF tt, u, x, s

\* Nothing is charged for the difference.
LEMMA BalancedIs ==
  ASSUME NEW rr, NEW ss \in Seq(Slice), NEW tt \in Seq(Slice),
         \A w : IsWeight(w) => Weigh(w, rr) = Weigh(w, ss) + Weigh(w, tt)
  PROVE  Balanced(rr, ss, tt, None, 0)
<1>1. ASSUME NEW a \in Accounts
      PROVE  Weigh(ChargeOf(a), rr) = (Weigh(ChargeOf(a), ss) + Weigh(ChargeOf(a), tt)) + (IF a = None THEN 0 ELSE 0)
  <2>1. Weigh(ChargeOf(a), rr) = Weigh(ChargeOf(a), ss) + Weigh(ChargeOf(a), tt)
    BY SliceWeights
  <2>2. Weigh(ChargeOf(a), ss) \in Int /\ Weigh(ChargeOf(a), tt) \in Int
    BY SliceSums
  <2> QED
    BY <2>1, <2>2
<1>2. ASSUME NEW t \in Callbacks
      PROVE  Weigh(MarksOf(t), rr) = Weigh(MarksOf(t), ss) + Weigh(MarksOf(t), tt)
  BY SliceWeights
<1> QED
  BY <1>1, <1>2 DEF Balanced

\* The slices tt are the last ones of ss, the first of them drained in part.
IsRest(ss, tt) ==
  \/ tt = <<>>
  \/ \E k \in 0..(Len(ss) - 1) :
       LET left == SubSeq(ss, k + 1, Len(ss))
       IN \E n \in 0..Len(Head(left).data) : tt = <<Drained(Head(left), n)>> \o Tail(left)

\* drain() takes the first n bytes, or all if there are fewer.
LEMMA DrainImplIs ==
  ASSUME NEW c \in Context, NEW n \in Nat
  PROVE  LET d == DrainImpl(c, n)
         IN /\ TakesOver(c, d, <<>>)
            /\ \E x \in Seq(Byte) : /\ Flat(c.slices) = x \o Flat(d.slices)
                                    /\ d.length = c.length - Len(x)
                                    /\ Len(x) = n \/ (Len(x) <= n /\ d.slices = <<>>)
            /\ IsRest(c.slices, d.slices)
<1> DEFINE ss == c.slices
           W == {i \in DOMAIN ss : End(ss, i) <= n}
           whole == Cardinality(W)
           first == SubSeq(ss, 1, whole)
           left == SubSeq(ss, whole + 1, Len(ss))
           part == n - End(ss, whole)
           rest == IF left = <<>> THEN <<>> ELSE <<Drained(Head(left), part)>> \o Tail(left)
           b == ReleaseAll(c, first)
           gone == IF left = <<>> THEN End(ss, whole) ELSE n
           d == DrainImpl(c, n)
<1>1. d = [b EXCEPT !.slices = rest, !.length = @ - gone]
  BY DEF DrainImpl
<1>2. ss \in Seq(Slice) /\ Len(ss) \in Nat /\ DOMAIN ss = 1..Len(ss) /\ Flat(ss) \in Seq(Byte) /\ c.length \in Int
  BY DebtType
<1> HIDE DEF ss
<1>3. /\ End(ss, 0) = 0
      /\ \A i \in 0..Len(ss) : End(ss, i) \in Nat /\ End(ss, i) = Len(Flat(SubSeq(ss, 1, i)))
      /\ \A i \in 0..(Len(ss) - 1) : End(ss, i + 1) = End(ss, i) + Len(ss[i + 1].data)
      /\ \A i, j \in 0..Len(ss) : i <= j => End(ss, i) <= End(ss, j)
  BY <1>2, EndIs
<1>4. whole \in 0..Len(ss) /\ W = 1..whole
  <2>1. W \in SUBSET (1..Len(ss))
    BY <1>2
  <2>2. ASSUME NEW i \in W, NEW j \in 1..i
        PROVE  j \in W
    <3>1. i \in 0..Len(ss) /\ j \in 0..Len(ss) /\ j <= i /\ j \in DOMAIN ss /\ End(ss, i) <= n
      BY <1>2
    <3>2. End(ss, j) <= End(ss, i) /\ End(ss, j) \in Nat /\ End(ss, i) \in Nat
      BY <1>3, <3>1
    <3>3. End(ss, j) <= n
      BY <3>1, <3>2
    <3> QED
      BY <3>1, <3>3
  <2> HIDE DEF W
  <2>3. \E k \in 0..Len(ss) : W = 1..k /\ Cardinality(W) = k
    BY <1>2, <2>1, <2>2, PrefixSet
  <2> QED
    BY <2>3
<1> HIDE DEF whole
<1>5. End(ss, whole) <= n /\ End(ss, whole) \in Nat
  <2>1. CASE whole = 0
    BY <1>3, <2>1
  <2>2. CASE whole # 0
    <3>1. whole \in W
      BY <1>4, <2>2
    <3> QED
      BY <1>3, <1>4, <3>1
  <2> QED
    BY <2>1, <2>2
<1>6. /\ first \in Seq(Slice) /\ left \in Seq(Slice) /\ Len(left) = Len(ss) - whole
      /\ Flat(ss) = Flat(first) \o Flat(left)
      /\ \A w : IsWeight(w) => Weigh(w, ss) = Weigh(w, first) + Weigh(w, left)
  BY <1>2, <1>4, Parted
<1>7. Flat(first) \in Seq(Byte) /\ Len(Flat(first)) = End(ss, whole) /\ Flat(left) \in Seq(Byte)
  BY <1>3, <1>4, <1>6, FlatType
<1>8. CASE left = <<>>
  <2>1. rest = <<>> /\ gone = End(ss, whole)
    BY <1>8
  <2>2. /\ OnlyAccounts(c, b)
    BY <1>6, ReleaseAllIs
  <2>3. <<>> \in Seq(Slice)
    OBVIOUS
  <2> HIDE DEF first, left, rest, gone, b, d
  <2>4. c.length - gone \in Int
    BY <1>2, <1>5, <2>1
  <2>5. SameAccounts(b, d) /\ d.slices = <<>> /\ d.length = c.length - gone
    BY <1>1, <2>1, <2>2, <2>3, <2>4 DEF OnlyAccounts, SameAccounts, Context
  <2>6. Balanced(ss, first, left, None, 0)
    BY <1>6, BalancedIs
  <2>7. Balanced(c.slices, first, d.slices, None, 0)
    BY <1>8, <2>5, <2>6 DEF ss
  <2>8. TakesOver(c, d, <<>>)
    BY <1>6, <2>5, <2>7, Dropped DEF b
  <2>9. Flat(ss) = Flat(first) \o Flat(d.slices)
    BY <1>6, <1>8, <2>5, Zenon
  <2>10. Len(Flat(first)) <= n /\ d.length = c.length - Len(Flat(first))
    BY <1>5, <1>7, <2>1, <2>5
  <2>11. IsRest(c.slices, d.slices)
    BY <2>5 DEF IsRest
  <2> QED
    BY <1>7, <2>5, <2>8, <2>9, <2>10, <2>11 DEF ss, d
<1>9. CASE left # <<>>
  <2> DEFINE h == Head(left)
             x == SubSeq(h.data, 1, part)
  <2>1. whole \in 0..(Len(ss) - 1) /\ h = ss[whole + 1] /\ h \in Slice
    <3>1. Len(left) # 0 /\ Len(left) \in Nat
      BY <1>6, <1>9
    <3>2. whole \in 0..(Len(ss) - 1)
      <4>1. whole \in 0..Len(ss) /\ Len(left) = Len(ss) - whole /\ Len(ss) \in Nat
        BY <1>2, <1>4, <1>6, Zenon
      <4> HIDE DEF left, ss
      <4> QED
        BY <3>1, <4>1
    <3>3. h \in Slice
      BY <1>6, <1>9, Ends
    <3>4. h = ss[whole + 1]
      BY <1>2, <3>2
    <3> QED
      BY <3>2, <3>3, <3>4
  <2>2. part \in 0..Len(h.data)
    <3>1. whole + 1 \notin W /\ whole + 1 \in DOMAIN ss
      BY <1>2, <1>4, <2>1
    <3>2. ~(End(ss, whole + 1) <= n)
      BY <3>1
    <3>3. End(ss, whole + 1) = End(ss, whole) + Len(h.data)
      BY <1>3, <2>1
    <3>4. Len(h.data) \in Nat
      BY <2>1, SliceIs
    <3> DEFINE e == End(ss, whole)
               l == Len(h.data)
    <3>5. e \in Nat /\ e <= n /\ l \in Nat /\ ~(e + l <= n)
      BY <1>5, <3>2, <3>3, <3>4
    <3>6. part = n - e
      OBVIOUS
    <3> HIDE DEF e, part
    <3> HIDE DEF l
    <3>7. part \in 0..l
      BY <3>5, <3>6
    <3> QED
      BY <3>7 DEF l
  <2>3. rest = <<Drained(h, part)>> \o Tail(left) /\ gone = n
    BY <1>9
  <2>4. /\ rest \in Seq(Slice) /\ h.data \in Seq(Byte)
        /\ Flat(left) = x \o Flat(rest)
        /\ \A a : Weigh(ChargeOf(a), rest) = Weigh(ChargeOf(a), left)
        /\ \A t : Weigh(MarksOf(t), rest) = Weigh(MarksOf(t), left)
    <3> HIDE DEF left, part
    <3> QED
      BY <1>6, <1>9, <2>2, <2>3, FrontDrained
  <2>5. x \in Seq(Byte) /\ Len(x) = part
    BY <2>2, <2>4, BytesSplit
  <2>6. OnlyAccounts(c, b)
    BY <1>6, ReleaseAllIs
  <2> HIDE DEF first, left, rest, gone, b, d, h, x
  <2>7. c.length - gone \in Int
    BY <1>2, <2>3
  <2>8. SameAccounts(b, d) /\ d.slices = rest /\ d.length = c.length - gone
    BY <1>1, <2>4, <2>6, <2>7 DEF OnlyAccounts, SameAccounts, Context
  <2>9. Balanced(ss, first, left, None, 0)
    BY <1>6, BalancedIs
  <2>10. Balanced(c.slices, first, d.slices, None, 0)
    BY <2>4, <2>8, <2>9 DEF ss, Balanced
  <2>11. TakesOver(c, d, <<>>)
    BY <1>6, <2>8, <2>10, Dropped DEF b
  <2> DEFINE y == Flat(first) \o x
  <2>12. y \in Seq(Byte) /\ Len(y) = Len(Flat(first)) + Len(x)
    BY <1>7, <2>5, Concatenation, Zenon
  <2>13. Flat(ss) = y \o Flat(d.slices)
    <3>1. Flat(rest) \in Seq(Byte)
      BY <2>4, FlatType
    <3>2. (Flat(first) \o x) \o Flat(rest) = Flat(first) \o (x \o Flat(rest))
      BY <1>7, <2>5, <3>1, Associative, Zenon
    <3> QED
      BY <1>6, <2>4, <2>8, <3>2, Zenon
  <2> HIDE DEF y
  <2>14. Len(y) = n
    BY <1>5, <1>7, <2>5, <2>12
  <2>15. d.length = c.length - Len(y)
    BY <2>3, <2>8, <2>14, Zenon
  <2>16. IsRest(ss, d.slices)
    BY <2>1, <2>2, <2>3, <2>8, Zenon DEF IsRest, left, h
  <2> QED
    BY <2>11, <2>12, <2>13, <2>14, <2>15, <2>16 DEF ss, d
<1> QED
  BY <1>8, <1>9

\* Slices without bytes.
LEMMA EmptySlices ==
  ASSUME NEW ss \in Seq(Slice), \A i \in 1..Len(ss) : Len(ss[i].data) = 0
  PROVE  Flat(ss) = <<>>
<1> DEFINE S == {tt \in Seq(Slice) : (\A i \in 1..Len(tt) : Len(tt[i].data) = 0) => Flat(tt) = <<>>}
<1>1. <<>> \in S
  <2>1. <<>> \in Seq(Slice)
    OBVIOUS
  <2>2. Flat(<<>>) = <<>>
    BY FlatIs
  <2> QED
    BY <2>1, <2>2, Zenon
<1>2. ASSUME NEW tt \in Seq(Slice), NEW s \in Slice, tt \in S
      PROVE  Append(tt, s) \in S
  <2>1. Append(tt, s) \in Seq(Slice) /\ Len(Append(tt, s)) = Len(tt) + 1 /\ Append(tt, s)[Len(tt) + 1] = s
        /\ \A i \in 1..Len(tt) : i \in 1..(Len(tt) + 1) /\ Append(tt, s)[i] = tt[i]
        /\ Len(tt) + 1 \in 1..(Len(tt) + 1)
    OBVIOUS
  <2>2. ASSUME \A i \in 1..Len(Append(tt, s)) : Len(Append(tt, s)[i].data) = 0
        PROVE  Flat(Append(tt, s)) = <<>>
    <3>1. Flat(tt) = <<>>
      BY <1>2, <2>1, <2>2
    <3>2. s.data = <<>>
      <4>1. Len(s.data) = 0 /\ s.data \in Seq(Byte)
        BY <2>1, <2>2, SliceIs
      <4> QED
        BY <4>1
    <3>3. Flat(Append(tt, s)) = Flat(tt) \o s.data
      BY FlatIs
    <3>4. <<>> \o <<>> = <<>>
      BY Concatenation, Zenon
    <3> QED
      BY <3>1, <3>2, <3>3, <3>4, Zenon
  <2> QED
    BY <2>1, <2>2, Zenon
<1> HIDE DEF S
<1>3. ss \in S
  BY <1>1, <1>2, Adding!SequenceInduction
<1> QED
  BY <1>3 DEF S

\* The smallest and the largest of some positions.
LEMMA Extremes ==
  ASSUME NEW m \in Nat, NEW W \in SUBSET (0..m), W # {}
  PROVE  /\ Max(W) \in W /\ \A y \in W : y <= Max(W)
         /\ Min(W) \in W /\ \A y \in W : Min(W) <= y
<1> DEFINE Has(V) == (\E x \in V : \A y \in V : x >= y) /\ (\E x \in V : \A y \in V : x <= y)
           S == {n \in Nat : \A V \in SUBSET (0..n) : V # {} => Has(V)}
<1>1. 0 \in S
  <2>1. ASSUME NEW V \in SUBSET (0..0), V # {}
        PROVE  Has(V)
    <3>1. \A x \in V : x = 0
      OBVIOUS
    <3>2. PICK x \in V : TRUE
      BY <2>1
    <3>3. (\A y \in V : x >= y) /\ (\A y \in V : x <= y)
      BY <3>1, <3>2
    <3> QED
      BY <3>2, <3>3, Zenon
  <2> QED
    BY <2>1
<1>2. ASSUME NEW n \in Nat, n \in S
      PROVE  n + 1 \in S
  <2> SUFFICES ASSUME NEW V \in SUBSET (0..(n + 1)), V # {}
               PROVE  Has(V)
    OBVIOUS
  <2> DEFINE U == V \cap (0..n)
  <2>1. U # {} => Has(U)
    BY <1>2
  <2>2. \A x \in V : x \in U \/ x = n + 1
    OBVIOUS
  <2>3. \A x \in U : x \in V /\ x < n + 1 /\ x \in Nat
    OBVIOUS
  <2>4. \A x \in V : x \in Nat
    OBVIOUS
  <2> HIDE DEF U
  <2>5. \E x \in V : \A y \in V : x >= y
    <3>1. CASE n + 1 \in V
      BY <2>2, <2>3, <3>1
    <3>2. CASE n + 1 \notin V
      BY <2>1, <2>2, <2>3, <3>2
    <3> QED
      BY <3>1, <3>2
  <2>6. \E x \in V : \A y \in V : x <= y
    <3>1. CASE U # {}
      BY <2>1, <2>2, <2>3, <3>1
    <3>2. CASE U = {}
      <4>1. \A x \in V : x = n + 1
        BY <2>2, <3>2
      <4>2. PICK x \in V : TRUE
        OBVIOUS
      <4>3. \A y \in V : x <= y
        BY <4>1, <4>2
      <4> QED
        BY <4>2, <4>3, Zenon
    <3> QED
      BY <3>1, <3>2
  <2> QED
    BY <2>5, <2>6
<1> HIDE DEF S
<1>3. m \in S
  BY <1>1, <1>2, Adding!SetInduction
<1>4. Has(W)
  BY <1>3 DEF S
<1>5. \A y \in W : y \in Nat
  OBVIOUS
<1>6. Max(W) \in W /\ \A y \in W : Max(W) >= y
  BY <1>4 DEF Max
<1>7. Min(W) \in W /\ \A y \in W : Min(W) <= y
  BY <1>4 DEF Min
<1> QED
  BY <1>5, <1>6, <1>7

\* The empty slices at the back go before a reservation.
LEMMA WithoutEmptyBackIs ==
  ASSUME NEW c \in Context
  PROVE  LET d == WithoutEmptyBack(c)
         IN /\ TakesOver(c, d, <<>>) /\ Flat(d.slices) = Flat(c.slices) /\ d.length = c.length
<1> DEFINE ss == c.slices
           keep == {0} \cup {i \in DOMAIN ss : DataSize(ss[i]) > 0}
           k == Max(keep)
           x == SubSeq(ss, 1, k)
           y == SubSeq(ss, k + 1, Len(ss))
           b == ReleaseAll(c, y)
           d == WithoutEmptyBack(c)
<1>1. ss \in Seq(Slice) /\ Len(ss) \in Nat /\ DOMAIN ss = 1..Len(ss)
  BY DebtType
<1>2. OnlyAccounts(c, b) /\ y \in Seq(Slice) /\ k \in 0..Len(ss) /\ \A i \in keep : i <= k
  <2>1. keep \in SUBSET (0..Len(ss)) /\ keep # {}
    BY <1>1
  <2> HIDE DEF keep
  <2>2. k \in keep /\ \A i \in keep : i <= k
    BY <1>1, <2>1, Extremes
  <2>3. k \in 0..Len(ss)
    BY <2>1, <2>2
  <2> HIDE DEF k
  <2>4. y \in Seq(Slice)
    BY <1>1, <2>3, SplitAt
  <2> HIDE DEF y
  <2>5. OnlyAccounts(c, b)
    BY <2>4, ReleaseAllIs
  <2> QED
    BY <2>2, <2>3, <2>4, <2>5
<1>3. d = [b EXCEPT !.slices = x]
  <2>1. b.slices = ss
    BY <1>2 DEF OnlyAccounts
  <2> QED
    BY <2>1 DEF WithoutEmptyBack
<1> HIDE DEF k, ss
<1>4. /\ x \in Seq(Slice) /\ Len(y) = Len(ss) - k
      /\ Flat(ss) = Flat(x) \o Flat(y)
      /\ \A w : IsWeight(w) => Weigh(w, ss) = Weigh(w, x) + Weigh(w, y)
  BY <1>1, <1>2, Parted
<1>5. Flat(y) = <<>>
  <2>1. ASSUME NEW i \in 1..Len(y)
        PROVE  Len(y[i].data) = 0
    <3>1. y[i] = ss[k + i] /\ k + i \in DOMAIN ss /\ k + i > k /\ k \in Nat
      <4>1. i \in 1..(Len(ss) - k)
        BY <1>4
      <4>2. y[i] = ss[k + i]
        BY <1>1, <1>2, <4>1, SplitAt
      <4> HIDE DEF y
      <4>3. k \in 0..Len(ss)
        BY <1>2
      <4> QED
        BY <1>1, <4>1, <4>2, <4>3
    <3>2. ~(DataSize(ss[k + i]) > 0)
      BY <1>2, <3>1
    <3>3. ss[k + i] \in Slice
      BY <1>1, <3>1
    <3>4. Len(ss[k + i].data) \in Nat
      BY <3>3, SliceIs
    <3>5. Len(ss[k + i].data) = 0
      BY <3>2, <3>4 DEF DataSize
    <3> QED
      BY <3>1, <3>5
  <2> HIDE DEF y
  <2> QED
    BY <1>2, <2>1, EmptySlices
<1> HIDE DEF x, y, d, b, keep
<1>6. SameAccounts(b, d) /\ d.slices = x /\ d.length = c.length
  BY <1>2, <1>3, <1>4 DEF OnlyAccounts, SameAccounts, Context
<1>7. Balanced(c.slices, y, d.slices, None, 0)
  <2>1. ASSUME NEW w, IsWeight(w)
        PROVE  Weigh(w, ss) = Weigh(w, y) + Weigh(w, x)
    <3>1. Weigh(w, x) \in Int /\ Weigh(w, y) \in Int
      BY <1>2, <1>4, <2>1 DEF IsWeight
    <3> QED
      BY <1>4, <2>1, <3>1
  <2>2. Balanced(ss, y, x, None, 0)
    BY <1>2, <1>4, <2>1, BalancedIs
  <2> QED
    BY <1>6, <2>2 DEF ss
<1>8. TakesOver(c, d, <<>>)
  BY <1>2, <1>6, <1>7, Dropped DEF b
<1>9. Flat(ss) = Flat(x)
  <2>1. Flat(x) \in Seq(Byte)
    BY <1>4, FlatType
  <2>2. Flat(x) \o <<>> = Flat(x)
    BY <2>1, Concatenation, Zenon
  <2> QED
    BY <1>4, <1>5, <2>2, Zenon
<1> QED
  BY <1>6, <1>8, <1>9 DEF ss, d

\* A prefix and the element behind it.
LEMMA PrefixGrows ==
  ASSUME NEW T, NEW ss \in Seq(T), NEW k \in 1..Len(ss)
  PROVE  LET z == SubSeq(ss, 1, k - 1)
         IN /\ z \in Seq(T) /\ Len(z) = k - 1 /\ \A i \in 1..(k - 1) : z[i] = ss[i]
            /\ SubSeq(ss, 1, k) = Append(z, ss[k])
<1>1. PICK j \in 0..(Len(ss) - 1) : k = j + 1
  <2>1. k - 1 \in 0..(Len(ss) - 1) /\ k = (k - 1) + 1
    OBVIOUS
  <2> QED
    BY <2>1
<1>2. /\ SubSeq(ss, 1, j) \in Seq(T) /\ Len(SubSeq(ss, 1, j)) = j
      /\ \A i \in 1..j : SubSeq(ss, 1, j)[i] = ss[i]
  OBVIOUS
<1>3. SubSeq(ss, 1, j + 1) = Append(SubSeq(ss, 1, j), ss[j + 1])
  OBVIOUS
<1>4. k - 1 = j
  BY <1>1
<1> QED
  BY <1>1, <1>2, <1>3, <1>4, Zenon

\* extractMutableFrontSlice() takes out the first slice that holds bytes, and the
\* empty ones in front of it.
LEMMA ExtractIs ==
  ASSUME NEW c \in Context, Flat(c.slices) # <<>>
  PROVE  LET d == Extracted(c)
         IN /\ TakesOver(c, d, <<>>)
            /\ \E x \in Seq(Byte) : Flat(c.slices) = x \o Flat(d.slices) /\ d.length = c.length - Len(x)
<1> DEFINE ss == c.slices
           held == {i \in DOMAIN ss : DataSize(ss[i]) > 0}
           k == Min(held)
           d == Extracted(c)
           x == SubSeq(ss, 1, k)
           y == SubSeq(ss, k + 1, Len(ss))
           b == ReleaseAll(c, x)
<1>1. ss \in Seq(Slice) /\ Len(ss) \in Nat /\ DOMAIN ss = 1..Len(ss) /\ c.length \in Int
  BY DebtType
<1>2. \A i \in 1..Len(ss) : ss[i] \in Slice /\ DataSize(ss[i]) = Len(ss[i].data) /\ Len(ss[i].data) \in Nat
                            /\ ss[i].data \in Seq(Byte)
  BY <1>1, SliceIs DEF DataSize
<1>3. k \in 1..Len(ss) /\ \A i \in held : k <= i
  <2>1. held # {}
    <3> SUFFICES ASSUME held = {}
                 PROVE  FALSE
      OBVIOUS
    <3>1. \A i \in 1..Len(ss) : Len(ss[i].data) = 0
      <4> SUFFICES ASSUME NEW i \in 1..Len(ss)
                   PROVE  Len(ss[i].data) = 0
        OBVIOUS
      <4> HIDE DEF k
      <4>1. ~(DataSize(ss[i]) > 0)
        BY <1>1
      <4> HIDE DEF ss, held
      <4>2. DataSize(ss[i]) = Len(ss[i].data) /\ Len(ss[i].data) \in Nat
        BY <1>2
      <4> QED
        BY <4>1, <4>2
    <3> QED
      BY <1>1, <3>1, EmptySlices
  <2>2. held \in SUBSET (0..Len(ss)) /\ k = Min(held)
    BY <1>1
  <2>3. k \in held /\ \A i \in held : k <= i
    <3> HIDE DEF held, ss
    <3>1. Min(held) \in held /\ \A i \in held : Min(held) <= i
      BY <1>1, <2>1, <2>2, Extremes
    <3> QED
      BY <2>2, <3>1
  <2> QED
    BY <1>1, <2>3
<1>4. /\ x \in Seq(Slice) /\ y \in Seq(Slice) /\ Len(y) = Len(ss) - k
      /\ Flat(ss) = Flat(x) \o Flat(y)
      /\ \A w : IsWeight(w) => Weigh(w, ss) = Weigh(w, x) + Weigh(w, y)
  <2>1. k \in 0..Len(ss)
    BY <1>3
  <2> QED
    BY <1>1, <2>1, Parted
<1>5. OnlyAccounts(c, b)
  <2> HIDE DEF x
  <2> QED
    BY <1>4, ReleaseAllIs
<1>6. d = [b EXCEPT !.slices = y, !.length = c.length - Len(ss[k].data)]
  BY <1>5 DEF OnlyAccounts, DataSize, Extracted
<1> HIDE DEF k, d
<1>7. Flat(x) = ss[k].data
  <2> DEFINE z == SubSeq(ss, 1, k - 1)
  <2> HIDE DEF ss
  <2>1. z \in Seq(Slice) /\ Len(z) = k - 1 /\ (\A i \in 1..(k - 1) : z[i] = ss[i])
        /\ x = Append(z, ss[k])
    BY <1>1, <1>3, PrefixGrows
  <2>2. \A i \in 1..Len(z) : Len(z[i].data) = 0
    <3> SUFFICES ASSUME NEW i \in 1..Len(z)
                 PROVE  Len(z[i].data) = 0
      OBVIOUS
    <3>1. i \in 1..Len(ss) /\ i < k /\ z[i] = ss[i] /\ k \in Nat
      <4>1. i \in 1..(k - 1) /\ k \in 1..Len(ss)
        BY <1>3, <2>1
      <4> HIDE DEF z
      <4>2. z[i] = ss[i]
        BY <2>1, <4>1
      <4> QED
        BY <1>1, <4>1, <4>2
    <3>2. i \notin held
      <4> HIDE DEF held, z, ss
      <4>1. ~(k <= i)
        BY <3>1
      <4> QED
        BY <1>3, <4>1, Zenon
    <3>3. ~(DataSize(ss[i]) > 0)
      BY <1>1, <3>1, <3>2
    <3>4. Len(ss[i].data) = 0
      BY <1>2, <3>1, <3>3
    <3> QED
      BY <3>1, <3>4
  <2> HIDE DEF z
  <2>3. Flat(z) = <<>>
    BY <2>1, <2>2, EmptySlices
  <2>4. ss[k] \in Slice /\ ss[k].data \in Seq(Byte)
    BY <1>2, <1>3
  <2>5. Flat(Append(z, ss[k])) = Flat(z) \o ss[k].data
    BY <2>1, <2>4, FlatEnds
  <2>6. <<>> \o ss[k].data = ss[k].data
    BY <2>4, Concatenation, Zenon
  <2> QED
    BY <2>1, <2>3, <2>5, <2>6, Zenon
<1>8. ss[k].data \in Seq(Byte) /\ c.length - Len(ss[k].data) \in Int
  <2> HIDE DEF ss
  <2>1. ss[k].data \in Seq(Byte) /\ Len(ss[k].data) \in Nat
    BY <1>2, <1>3
  <2> QED
    BY <1>1, <2>1
<1> HIDE DEF x, y, b, ss, held
<1>9. SameAccounts(b, d) /\ d.slices = y /\ d.length = c.length - Len(ss[k].data)
  BY <1>4, <1>5, <1>6, <1>8 DEF OnlyAccounts, SameAccounts, Context
<1>10. Balanced(c.slices, x, d.slices, None, 0)
  <2>1. Balanced(ss, x, y, None, 0)
    BY <1>4, BalancedIs
  <2> QED
    BY <1>9, <2>1 DEF ss
<1>11. TakesOver(c, d, <<>>)
  BY <1>4, <1>9, <1>10, Dropped DEF b
<1>12. Flat(ss) = ss[k].data \o Flat(d.slices)
  BY <1>4, <1>7, <1>9, Zenon
<1> QED
  BY <1>8, <1>9, <1>11, <1>12 DEF ss, d

\* A new slice in front, charged to account_.
LEMMA EmplaceFrontNewIs ==
  ASSUME NEW c \in Context, NEW cap \in Nat, NEW data \in Seq(Byte), NEW s,
         IsNewSlice(s, cap, c.account, data)
  PROVE  LET d == EmplaceFrontNew(c, s)
         IN /\ TakesOver(c, d, <<>>) /\ Flat(d.slices) = data \o Flat(c.slices)
            /\ d.length = c.length
<1> DEFINE tt == <<s>> \o c.slices
           d == EmplaceFrontNew(c, s)
<1>1. c.slices \in Seq(Slice) /\ c.account \in Payer /\ s \in Slice /\ s.cap = cap /\ s.data = data
  BY DEF Context, IsNewSlice
<1>2. tt \in Seq(Slice) /\ Flat(tt) = data \o Flat(c.slices) /\ <<s>> \in Seq(Slice) /\ <<>> \in Seq(Slice)
  <2>1. <<>> \in Seq(Slice)
    OBVIOUS
  <2> QED
    BY <1>1, <2>1, FlatEnds, Zenon
<1>3. ASSUME NEW a \in Accounts
      PROVE  Weigh(ChargeOf(a), tt) = (Weigh(ChargeOf(a), c.slices) + Weigh(ChargeOf(a), <<>>))
                                        + (IF a = c.account THEN cap ELSE 0)
  <2>1. Weigh(ChargeOf(a), tt) = Weigh(ChargeOf(a), <<s>>) + Weigh(ChargeOf(a), c.slices)
    BY <1>1, <1>2, SliceWeights DEF IsWeight
  <2>2. Weigh(ChargeOf(a), <<s>>) = IF a = c.account THEN cap ELSE 0
    BY <1>1, SliceWeights DEF IsWeight, IsNewSlice
  <2>3. Weigh(ChargeOf(a), c.slices) \in Int /\ Weigh(ChargeOf(a), <<>>) = 0
    BY <1>1, SliceSums
  <2> QED
    BY <2>1, <2>2, <2>3
<1>4. ASSUME NEW t \in Callbacks
      PROVE  Weigh(MarksOf(t), tt) = Weigh(MarksOf(t), c.slices) + Weigh(MarksOf(t), <<>>)
  <2>1. Weigh(MarksOf(t), tt) = Weigh(MarksOf(t), <<s>>) + Weigh(MarksOf(t), c.slices)
    BY <1>1, <1>2, SliceWeights DEF IsWeight
  <2>2. Weigh(MarksOf(t), <<s>>) = 0
    BY <1>1, SliceWeights DEF IsWeight, IsNewSlice
  <2>3. Weigh(MarksOf(t), c.slices) \in Int /\ Weigh(MarksOf(t), <<>>) = 0
    BY <1>1, SliceSums
  <2> QED
    BY <2>1, <2>2, <2>3
<1>5. Balanced(tt, c.slices, <<>>, c.account, cap)
  BY <1>3, <1>4 DEF Balanced
<1> DEFINE b == [c EXCEPT !.slices = tt]
<1> HIDE DEF tt
<1>6. SameAccounts(c, b) /\ b.slices = tt /\ b.length = c.length
  BY <1>2 DEF SameAccounts, Context
<1> HIDE DEF b
<1>7. /\ TakesOver(c, Charge(b, c.account, cap), <<>>)
      /\ Charge(b, c.account, cap).length = b.length /\ Charge(b, c.account, cap).slices = b.slices
  <2>1. cap \in Int /\ <<>> \in Seq(Slice) /\ c.account \in Payer
    BY <1>1
  <2>2. SameAccounts(c, b) /\ Balanced(b.slices, c.slices, <<>>, c.account, cap)
    BY <1>5, <1>6, Zenon
  <2> QED
    BY <2>1, <2>2, Rewritten
<1> QED
  BY <1>1, <1>2, <1>6, <1>7 DEF EmplaceFrontNew, b, tt

\* What can be prepended to the first slice.
LEMMA FrontRoomType ==
  ASSUME NEW c \in Context
  PROVE  FrontRoom(c) \in Nat /\ (c.slices = <<>> => FrontRoom(c) = 0)
<1>1. CASE c.slices = <<>>
  BY <1>1 DEF FrontRoom
<1>2. CASE c.slices # <<>>
  <2>1. Head(c.slices) \in Slice
    BY <1>2, DebtType, Ends
  <2> QED
    BY <1>2, <2>1 DEF FrontRoom, Slice
<1> QED
  BY <1>1, <1>2

\* The first slice takes data.
LEMMA PrependToFrontIs ==
  ASSUME NEW c \in Context, NEW data \in Seq(Byte),
         data = <<>> \/ (c.slices # <<>> /\ Len(data) <= FrontRoom(c))
  PROVE  LET d == PrependToFront(c, data)
         IN /\ TakesOver(c, d, <<>>) /\ Flat(d.slices) = data \o Flat(c.slices)
            /\ d.length = c.length
<1> DEFINE d == PrependToFront(c, data)
<1>1. c.slices \in Seq(Slice) /\ Flat(c.slices) \in Seq(Byte) /\ <<>> \in Seq(Slice) /\ None \in Payer
  BY DebtType DEF Payer
<1>2. CASE data = <<>>
  <2>1. d = c
    BY <1>2 DEF PrependToFront
  <2>2. data \o Flat(c.slices) = Flat(c.slices)
    BY <1>1, <1>2, Concatenation, Zenon
  <2> QED
    BY <2>1, <2>2, TakesNothing
<1>3. CASE data # <<>>
  <2> DEFINE s == Head(c.slices)
             off == (IF DataSize(s) = 0 THEN s.cap ELSE s.off) - Len(data)
             x == data \o s.data
             u == [s EXCEPT !.data = x, !.off = off]
             tt == ReplaceFront(c.slices, u)
  <2>1. c.slices # <<>> /\ Len(data) <= FrontRoom(c) /\ s \in Slice /\ s = c.slices[1]
    BY <1>1, <1>3, Ends
  <2>2. /\ s.off \in Nat /\ s.cap \in Nat /\ Len(s.data) \in Nat /\ Len(data) \in Nat
        /\ s.data \in Seq(Byte) /\ s.off + Len(s.data) <= s.cap
    <3> HIDE DEF s
    <3> QED
      BY <2>1, SliceIs
  <2>3. off \in Nat /\ off + (Len(data) + Len(s.data)) <= s.cap
    <3> HIDE DEF s
    <3>1. CASE Len(s.data) = 0
      <4>1. off = s.cap - Len(data) /\ FrontRoom(c) = s.cap - (s.off + Len(s.data))
        BY <2>1, <3>1, Zenon DEF FrontRoom, DataSize, ReservableSize, s
      <4>2. Len(data) <= s.cap - (s.off + Len(s.data))
        BY <2>1, <4>1
      <4>3. off = s.cap - Len(data)
        BY <4>1
      <4> HIDE DEF off
      <4> QED
        BY <2>2, <3>1, <4>2, <4>3
    <3>2. CASE Len(s.data) # 0
      <4>1. off = s.off - Len(data) /\ FrontRoom(c) = s.off
        BY <2>1, <3>2, Zenon DEF FrontRoom, DataSize, s
      <4> QED
        BY <2>1, <2>2, <3>2, <4>1
    <3> QED
      BY <3>1, <3>2
  <2>4. x \in Seq(Byte) /\ Len(x) = Len(data) + Len(s.data)
    <3> HIDE DEF s
    <3> QED
      BY <2>2, Concatenation, Zenon
  <2>5. d = [c EXCEPT !.slices = tt, !.written = @ \/ ~s.owned]
    BY <1>3, <2>1 DEF PrependToFront, ReplaceFront
  <2> HIDE DEF s, off, x
  <2>6. /\ u \in Slice /\ u.data = x /\ u.cap = s.cap /\ u.account = s.account
        /\ u.trackers = s.trackers
    <3>1. /\ u.data = x /\ u.cap = s.cap /\ u.account = s.account /\ u.trackers = s.trackers
          /\ u.off = off /\ u.owned = s.owned
          /\ u \in [data : Seq(Nat \ {0}), off : Nat, cap : Nat, owned : BOOLEAN,
                    trackers : Seq(Callbacks), account : Accounts \cup {None}]
      BY <2>1, <2>3, <2>4 DEF Slice, Byte
    <3> HIDE DEF u
    <3>2. s.cap - (off + (Len(data) + Len(s.data))) \in Nat
      BY <2>2, <2>3
    <3>3. u.cap - (u.off + Len(u.data)) \in Nat
      BY <2>4, <3>1, <3>2, Zenon
    <3> QED
      BY <3>1, <3>3 DEF Slice, ReservableSize
  <2> HIDE DEF u
  <2>7. /\ tt \in Seq(Slice)
        /\ Flat(c.slices) = s.data \o Flat(Tail(c.slices)) /\ Tail(c.slices) \in Seq(Slice)
        /\ Flat(tt) = u.data \o Flat(Tail(c.slices))
        /\ \A w : IsWeight(w) => Weigh(w, tt) = (Weigh(w, c.slices) - w[s]) + w[u]
    BY <1>1, <2>1, <2>6, FrontReplaced DEF s
  <2>8. Flat(tt) = data \o Flat(c.slices)
    <3>1. Flat(Tail(c.slices)) \in Seq(Byte)
      BY <2>7, FlatType
    <3>2. (data \o s.data) \o Flat(Tail(c.slices)) = data \o (s.data \o Flat(Tail(c.slices)))
      BY <2>2, <3>1, Associative, Zenon
    <3> QED
      BY <2>6, <2>7, <3>2, Zenon DEF x
  <2> HIDE DEF tt, d
  <2>9. SameAccounts(c, d) /\ d.slices = tt /\ d.length = c.length
    BY <2>5, <2>7 DEF SameAccounts, Context
  <2>10. Balanced(tt, c.slices, <<>>, None, 0)
    <3>1. /\ \A a : ChargeOf(a)[u] = ChargeOf(a)[s] /\ ChargeOf(a)[s] \in Int
          /\ \A t : MarksOf(t)[u] = MarksOf(t)[s] /\ MarksOf(t)[s] \in Int
      <4>1. /\ \A a : ChargeOf(a)[u] = ChargeOf(a)[s]
            /\ \A t : MarksOf(t)[u] = MarksOf(t)[s]
        BY <2>1, <2>6, SameWeights, Zenon
      <4>2. /\ \A a : ChargeOf(a)[s] \in Int
            /\ \A t : MarksOf(t)[s] \in Int
        BY <2>1, WeightsOfSlices
      <4> QED
        BY <4>1, <4>2, Zenon
    <3>2. /\ \A a : Weigh(ChargeOf(a), tt) = (Weigh(ChargeOf(a), c.slices) - ChargeOf(a)[s]) + ChargeOf(a)[u]
          /\ \A t : Weigh(MarksOf(t), tt) = (Weigh(MarksOf(t), c.slices) - MarksOf(t)[s]) + MarksOf(t)[u]
      BY <2>7, SliceWeights
    <3>3. /\ \A a : Weigh(ChargeOf(a), c.slices) \in Int /\ Weigh(ChargeOf(a), <<>>) = 0
          /\ \A t : Weigh(MarksOf(t), c.slices) \in Int /\ Weigh(MarksOf(t), <<>>) = 0
      BY <1>1, SliceSums
    <3> QED
      BY <3>1, <3>2, <3>3 DEF Balanced
  <2>11. TakesOver(c, Charge(d, None, 0), <<>>)
    <3>1. 0 \in Int /\ Balanced(d.slices, c.slices, <<>>, None, 0)
      BY <2>9, <2>10
    <3> QED
      BY <1>1, <2>9, <3>1, Rewritten
  <2> QED
    BY <2>8, <2>9, <2>11 DEF d, Charge
<1> QED
  BY <1>2, <1>3

\* prepend() puts data before what is there.
LEMMA PrependImplIs ==
  ASSUME NEW c \in Context, NEW data \in Seq(Byte)
  PROVE  LET d == PrependImpl(c, data)
         IN /\ TakesOver(c, d, <<>>) /\ Flat(d.slices) = data \o Flat(c.slices)
            /\ d.length = c.length + Len(data)
<1> DEFINE n == Min({FrontRoom(c), Len(data)})
           k == Len(data) - n
           x == SubSeq(data, 1, k)
           y == SubSeq(data, k + 1, Len(data))
           cap == SliceSize(Len(x))
           filled == PrependToFront(c, y)
           s == [NewSlice(cap, c.account, x) EXCEPT !.off = cap - Len(x)]
           new == EmplaceFrontNew(filled, s)
           added == IF x = <<>> THEN filled ELSE new
           d == PrependImpl(c, data)
<1>1. d = [added EXCEPT !.length = @ + Len(data)]
  BY DEF PrependImpl
<1>2. /\ n \in 0..Len(data) /\ n <= FrontRoom(c) /\ FrontRoom(c) \in Nat /\ Len(data) \in Nat
      /\ (c.slices = <<>> => n = 0)
  BY FrontRoomType, MinMaxOfTwo
<1> HIDE DEF n
<1>3. k \in 0..Len(data) /\ Len(data) - k = n
  BY <1>2
<1> HIDE DEF k
<1>4. x \in Seq(Byte) /\ y \in Seq(Byte) /\ Len(y) = n /\ Len(x) \in Nat /\ x \o y = data
  <2>1. x \in Seq(Byte) /\ y \in Seq(Byte) /\ Len(x) = k /\ Len(y) = Len(data) - k /\ x \o y = data
    BY <1>3, BytesSplit, Zenon
  <2> HIDE DEF x, y
  <2>2. k \in Nat
    BY <1>3
  <2> QED
    BY <1>3, <2>1, <2>2
<1> HIDE DEF x, y
<1>5. y = <<>> \/ (c.slices # <<>> /\ Len(y) <= FrontRoom(c))
  BY <1>2, <1>4
<1>6. /\ TakesOver(c, filled, <<>>) /\ Flat(filled.slices) = y \o Flat(c.slices)
      /\ filled.length = c.length
  BY <1>4, <1>5, PrependToFrontIs
<1>7. filled \in Context /\ filled.account = c.account
  BY <1>6 DEF TakesOver
<1> HIDE DEF filled
<1>8. <<>> \in Seq(Slice) /\ Flat(c.slices) \in Seq(Byte) /\ c.account \in Payer
  <2>1. c.account \in Payer
    BY DEF Context
  <2>2. <<>> \in Seq(Slice)
    OBVIOUS
  <2> QED
    BY <2>1, <2>2, DebtType
<1>9. x \o (y \o Flat(c.slices)) = data \o Flat(c.slices)
  <2>1. (x \o y) \o Flat(c.slices) = x \o (y \o Flat(c.slices))
    <3>1. x \in Seq(Byte) /\ y \in Seq(Byte) /\ Flat(c.slices) \in Seq(Byte)
      BY <1>4, <1>8, Zenon
    <3>2. \A u, v, w \in Seq(Byte) : (u \o v) \o w = u \o (v \o w)
      BY Concatenation, Zenon
    <3> QED
      BY <3>1, <3>2, Zenon
  <2> QED
    BY <1>4, <2>1, Zenon
<1>10. /\ TakesOver(c, added, <<>>) /\ Flat(added.slices) = data \o Flat(c.slices)
       /\ added.length = c.length
  <2>1. CASE x = <<>>
    <3>1. x \o (y \o Flat(c.slices)) = y \o Flat(c.slices)
      <4>1. y \o Flat(c.slices) \in Seq(Byte)
        BY <1>4, <1>8, Concatenation, Zenon
      <4> QED
        BY <2>1, <4>1, Concatenation, Zenon
    <3>2. added = filled
      BY <2>1
    <3> QED
      BY <1>6, <1>9, <3>1, <3>2, Zenon
  <2>2. CASE x # <<>>
    <3>1. cap \in Nat /\ Len(x) <= cap
      BY <1>4, SliceSizeSuffices
    <3> HIDE DEF cap
    <3>2. IsNewSlice(s, cap, filled.account, x)
      <4>1. IsNewSlice(s, cap, c.account, x)
        BY <1>4, <1>8, <3>1, NewSliceIs
      <4> HIDE DEF s
      <4> QED
        BY <1>7, <4>1
    <3> HIDE DEF s
    <3>3. /\ TakesOver(filled, new, <<>>) /\ Flat(new.slices) = x \o Flat(filled.slices)
          /\ new.length = filled.length
      BY <1>4, <1>7, <3>1, <3>2, EmplaceFrontNewIs
    <3>4. added = new
      BY <2>2
    <3> HIDE DEF new, added
    <3>5. TakesOver(filled, new, <<>>) /\ Flat(new.slices) = data \o Flat(c.slices)
      BY <1>6, <1>9, <3>3, Zenon
    <3>6. TakesOver(c, new, <<>>)
      BY <1>6, <1>8, <3>5, TakesNothingAfter
    <3> QED
      BY <1>6, <3>3, <3>4, <3>5, <3>6
  <2> QED
    BY <2>1, <2>2
<1> HIDE DEF added
<1>11. SameAccounts(added, d) /\ d.slices = added.slices /\ d.length = added.length + Len(data)
  <2>1. added \in Context /\ added.length + Len(data) \in Int
    BY <1>10, DebtType, <1>2 DEF TakesOver
  <2> HIDE DEF d
  <2> QED
    BY <1>1, <2>1 DEF SameAccounts, Context
<1> HIDE DEF d
<1>12. TakesOver(c, d, <<>>) /\ Flat(d.slices) = data \o Flat(c.slices)
  BY <1>10, <1>11, TakesOverToo
<1> QED
  BY <1>10, <1>11, <1>12 DEF d

\* The first bytes of a sequence in two parts.
LEMMA FirstBytes ==
  ASSUME NEW x \in Seq(Byte), NEW y \in Seq(Byte)
  PROVE  SubSeq(x \o y, 1, Len(x)) = x
<1> DEFINE z == x \o y
           m == Len(x)
<1>1. z \in Seq(Byte) /\ Len(z) = m + Len(y) /\ m \in Nat /\ Len(y) \in Nat
      /\ \A i \in 1..m : z[i] = x[i]
  OBVIOUS
<1>2. m \in 0..Len(z) /\ x \in Seq(Byte) /\ Len(x) = m
  BY <1>1
<1> HIDE DEF z, m
<1>3. SubSeq(z, 1, m) \in Seq(Byte) /\ Len(SubSeq(z, 1, m)) = m /\ \A i \in 1..m : SubSeq(z, 1, m)[i] = z[i]
  BY <1>1, <1>2
<1> DEFINE u == SubSeq(z, 1, m)
<1> HIDE DEF u
<1>4. u \in Seq(Byte) /\ Len(u) = m /\ \A i \in 1..m : u[i] = x[i]
  BY <1>1, <1>3 DEF u
<1>5. u = x
  BY <1>2, <1>4
<1> QED
  BY <1>5 DEF u, z, m

\* linearize() changes the slices and not their bytes.
LEMMA LinearizedIs ==
  ASSUME NEW c \in Context, NEW n \in Nat, n <= Len(Flat(c.slices))
  PROVE  LET d == Linearized(c, n)
         IN TakesOver(c, d, <<>>) /\ Flat(d.slices) = Flat(c.slices) /\ d.length = c.length
<1> DEFINE F == Flat(c.slices)
           data == SubSeq(F, 1, n)
           cap == SliceSize(n)
           s == NewSlice(cap, c.account, data)
           b == Charge(c, c.account, cap)
           e == DrainImpl(b, n)
           tt == <<s>> \o e.slices
           d == Linearized(c, n)
<1>1. F \in Seq(Byte) /\ c.account \in Payer /\ <<>> \in Seq(Slice) /\ c.length \in Int
  <2>1. c.account \in Payer
    BY DEF Context
  <2>2. <<>> \in Seq(Slice)
    OBVIOUS
  <2> QED
    BY <2>1, <2>2, DebtType
<1>2. cap \in Nat /\ n <= cap /\ cap \in Int
  BY SliceSizeSuffices
<1>3. data \in Seq(Byte) /\ Len(data) = n
  <2> HIDE DEF F
  <2>1. n \in 0..Len(F)
    BY <1>1 DEF F
  <2> QED
    BY <1>1, <2>1, BytesSplit, Zenon
<1>4. IsNewSlice(s, cap, c.account, data)
  <2> HIDE DEF data, cap
  <2>1. Len(data) <= cap
    BY <1>2, <1>3
  <2> QED
    BY <1>1, <1>2, <1>3, <2>1, NewSliceIs
<1>5. d = [e EXCEPT !.slices = tt, !.length = @ + n]
  BY DEF Linearized, NewSlice
<1> HIDE DEF cap, s, data, d
<1>6. /\ OnlyAccounts(c, b) /\ b.ran = c.ran
      /\ \A x \in Accounts : b.balance[x] = c.balance[x] + (IF x = c.account THEN cap ELSE 0)
  BY <1>1, <1>2, ChargeIs
<1>7. b \in Context /\ b.slices = c.slices /\ b.length = c.length /\ b.account = c.account
  BY <1>6 DEF OnlyAccounts
<1> HIDE DEF b
<1>8. /\ TakesOver(b, e, <<>>)
      /\ \E x \in Seq(Byte) : /\ Flat(b.slices) = x \o Flat(e.slices)
                              /\ e.length = b.length - Len(x)
                              /\ Len(x) = n \/ (Len(x) <= n /\ e.slices = <<>>)
  BY <1>7, DrainImplIs
<1> HIDE DEF e
<1>9. e \in Context /\ e.account = b.account /\ e.slices \in Seq(Slice) /\ Flat(e.slices) \in Seq(Byte)
  <2>1. e \in Context /\ e.account = b.account
    BY <1>8 DEF TakesOver
  <2> QED
    BY <2>1, DebtType
<1>10. F = data \o Flat(e.slices) /\ e.length = c.length - n
  <2>1. PICK x \in Seq(Byte) : /\ Flat(b.slices) = x \o Flat(e.slices)
                               /\ e.length = b.length - Len(x)
                               /\ Len(x) = n \/ (Len(x) <= n /\ e.slices = <<>>)
    BY <1>8
  <2>2. F = x \o Flat(e.slices) /\ e.length = c.length - Len(x)
    BY <1>7, <2>1
  <2>3. Len(F) = Len(x) + Len(Flat(e.slices))
    <3>1. Len(x \o Flat(e.slices)) = Len(x) + Len(Flat(e.slices))
      BY <1>9, Concatenation, Zenon
    <3> QED
      BY <2>2, <3>1, Zenon
  <2>4. Len(x) = n
    <3>1. CASE e.slices = <<>> /\ Len(x) <= n
      <4>1. Flat(e.slices) = <<>> /\ Len(<<>>) = 0
        BY <3>1, FlatIs, Concatenation, Zenon
      <4>2. Len(F) = Len(x) + 0
        BY <2>3, <4>1, Zenon
      <4>3. Len(x) \in Nat /\ n <= Len(F)
        OBVIOUS
      <4> HIDE DEF F
      <4> QED
        BY <3>1, <4>2, <4>3
    <3> QED
      BY <2>1, <3>1
  <2>5. SubSeq(x \o Flat(e.slices), 1, Len(x)) = x
    BY <1>9, FirstBytes
  <2>6. data = x
    BY <2>2, <2>4, <2>5, Zenon DEF data
  <2> QED
    BY <2>2, <2>4, <2>6, Zenon
<1>11. s \in Slice /\ s.data = data
  BY <1>4 DEF IsNewSlice
<1>12. tt \in Seq(Slice) /\ Flat(tt) = data \o Flat(e.slices) /\ <<s>> \in Seq(Slice)
  BY <1>9, <1>11, FlatEnds
<1>13. \A w : IsWeight(w) => Weigh(w, tt) = w[s] + Weigh(w, e.slices)
  BY <1>9, <1>11, <1>12 DEF IsWeight
<1> HIDE DEF tt
<1>14. /\ d \in Context /\ d.account = c.account /\ d.balance = e.balance /\ d.ran = e.ran
       /\ d.slices = tt /\ d.length = c.length
  <2>1. e.length + n = c.length /\ e.length \in Int
    BY <1>1, <1>10
  <2> HIDE DEF F
  <2>2. d = [e EXCEPT !.slices = tt, !.length = c.length]
    BY <1>5, <2>1
  <2> QED
    BY <1>1, <1>7, <1>9, <1>12, <2>2 DEF Context
<1>15. ASSUME NEW a \in Accounts
       PROVE  Debt(d, a) = Debt(c, a) - Weigh(ChargeOf(a), <<>>)
  <2> DEFINE m == IF a = c.account THEN cap ELSE 0
  <2>1. Weigh(ChargeOf(a), tt) = m + Weigh(ChargeOf(a), e.slices)
    <3>1. ChargeOf(a)[s] = m
      BY <1>4 DEF IsNewSlice
    <3> QED
      BY <1>13, <3>1, SliceWeights
  <2>2. Weigh(ChargeOf(a), <<>>) = 0 /\ Weigh(ChargeOf(a), e.slices) \in Int
        /\ Weigh(ChargeOf(a), c.slices) \in Int
    BY <1>1, <1>9, SliceSums, DebtType
  <2>3. Debt(e, a) = Debt(b, a) - Weigh(ChargeOf(a), <<>>)
    BY <1>8 DEF TakesOver
  <2>4. b.balance[a] = c.balance[a] + m /\ c.balance[a] \in Int /\ e.balance[a] \in Int
    BY <1>6, <1>9, DebtType
  <2>5. m \in Int
    BY <1>2
  <2> HIDE DEF m
  <2>6. e.balance[a] - Weigh(ChargeOf(a), e.slices) = (b.balance[a] - Weigh(ChargeOf(a), c.slices)) - 0
    BY <1>7, <2>2, <2>3 DEF Debt
  <2>7. Debt(d, a) = e.balance[a] - (m + Weigh(ChargeOf(a), e.slices))
    BY <1>14, <2>1 DEF Debt
  <2>8. Debt(c, a) = c.balance[a] - Weigh(ChargeOf(a), c.slices)
    BY DEF Debt
  <2> DEFINE x == e.balance[a]
             y == c.balance[a]
             v == Weigh(ChargeOf(a), e.slices)
             w == Weigh(ChargeOf(a), c.slices)
  <2>9. /\ x \in Int /\ y \in Int /\ v \in Int /\ w \in Int /\ m \in Int
        /\ x - v = ((y + m) - w) - 0 /\ Debt(d, a) = x - (m + v) /\ Debt(c, a) = y - w
    BY <2>2, <2>4, <2>5, <2>6, <2>7, <2>8, Zenon
  <2> HIDE DEF x, y, v, w
  <2>10. x - (m + v) = y - w
    BY <2>9
  <2> QED
    BY <2>2, <2>9, <2>10
<1>16. ASSUME NEW t \in Callbacks
       PROVE  Marks(d, t) = Marks(c, t) + Weigh(MarksOf(t), <<>>)
  <2>1. Weigh(MarksOf(t), tt) = 0 + Weigh(MarksOf(t), e.slices)
    <3>1. MarksOf(t)[s] = 0
      BY <1>4 DEF IsNewSlice
    <3> QED
      BY <1>13, <3>1, SliceWeights
  <2>2. Weigh(MarksOf(t), e.slices) \in Int
    BY <1>9, SliceSums
  <2>3. Marks(e, t) = Marks(b, t) + Weigh(MarksOf(t), <<>>)
    BY <1>8 DEF TakesOver
  <2>4. Marks(b, t) = Marks(c, t)
    BY <1>6, <1>7 DEF Marks
  <2>5. Weigh(MarksOf(t), tt) = Weigh(MarksOf(t), e.slices)
    BY <2>1, <2>2
  <2>6. Marks(d, t) = Marks(e, t)
    BY <1>14, <2>5 DEF Marks
  <2> QED
    BY <2>3, <2>4, <2>6
<1> QED
  BY <1>10, <1>12, <1>14, <1>15, <1>16 DEF TakesOver, d

\* The slices ss, charged to the account of c unless they are charged already.
Taken(c, ss) == [i \in DOMAIN ss |-> MaybeCharged(c, ss[i])]

Charging == INSTANCE FoldTheorems WITH Op <- ChargeFor

\* prepend(Instance&) charges slice after slice to the account of the buffer
\* they come into, and changes neither their bytes nor their trackers.
LEMMA ChargeForAllIs ==
  ASSUME NEW c \in Context, NEW ss \in Seq(Slice)
  PROVE  LET d == ChargeForAll(c, ss)
         IN /\ OnlyAccounts(c, d) /\ d.ran = c.ran
            /\ Taken(c, ss) \in Seq(Slice) /\ Flat(Taken(c, ss)) = Flat(ss)
            /\ \A t : Weigh(MarksOf(t), Taken(c, ss)) = Weigh(MarksOf(t), ss)
            /\ \A a \in Accounts :
                 d.balance[a] = (c.balance[a] + Weigh(ChargeOf(a), Taken(c, ss))) - Weigh(ChargeOf(a), ss)
<1> DEFINE Good(tt) ==
             LET d == ChargeForAll(c, tt)
             IN /\ OnlyAccounts(c, d) /\ d.ran = c.ran
                /\ Taken(c, tt) \in Seq(Slice) /\ Flat(Taken(c, tt)) = Flat(tt)
                /\ \A t : Weigh(MarksOf(t), Taken(c, tt)) = Weigh(MarksOf(t), tt)
                /\ \A a \in Accounts :
                     d.balance[a] = (c.balance[a] + Weigh(ChargeOf(a), Taken(c, tt))) - Weigh(ChargeOf(a), tt)
           S == {tt \in Seq(Slice) : Good(tt)}
<1>1. \A tt : ChargeForAll(c, tt) = Charging!Fold(c, tt)
  BY DEF ChargeForAll, FoldLeft, MapThenFoldSet, Max, Charging!Fold,
       Charging!MapThenFoldSet, Charging!Latest
<1>2. <<>> \in Seq(Slice)
  OBVIOUS
<1>3. Good(<<>>)
  <2>1. ChargeForAll(c, <<>>) = c
    BY <1>1, Charging!FoldOfNone
  <2>2. Taken(c, <<>>) = <<>>
    BY DEF Taken
  <2>3. OnlyAccounts(c, c)
    BY DEF OnlyAccounts
  <2>4. ASSUME NEW a \in Accounts
        PROVE  c.balance[a] = (c.balance[a] + Weigh(ChargeOf(a), <<>>)) - Weigh(ChargeOf(a), <<>>)
    <3>1. c.balance[a] \in Int /\ Weigh(ChargeOf(a), <<>>) = 0
      BY DebtType, SliceSums
    <3> QED
      BY <3>1
  <2> QED
    BY <1>2, <2>1, <2>2, <2>3, <2>4
<1>4. ASSUME NEW tt \in Seq(Slice), NEW s \in Slice, Good(tt)
      PROVE  Good(Append(tt, s))
  <2> DEFINE d == ChargeForAll(c, tt)
             e == ChargeFor(d, s)
             u == MaybeCharged(d, s)
             vv == Taken(c, tt)
  <2>1. ChargeForAll(c, Append(tt, s)) = e
    <3>1. Charging!Fold(c, Append(tt, s)) = ChargeFor(Charging!Fold(c, tt), s)
      BY Charging!FoldOfAppend
    <3> QED
      BY <1>1, <3>1
  <2>2. /\ OnlyAccounts(c, d) /\ d.ran = c.ran
        /\ vv \in Seq(Slice) /\ Flat(vv) = Flat(tt)
        /\ \A t : Weigh(MarksOf(t), vv) = Weigh(MarksOf(t), tt)
        /\ \A a \in Accounts :
             d.balance[a] = (c.balance[a] + Weigh(ChargeOf(a), vv)) - Weigh(ChargeOf(a), tt)
    BY <1>4
  <2> HIDE DEF d
  <2>3. d \in Context /\ d.account = c.account
    BY <2>2 DEF OnlyAccounts
  <2>4. u = MaybeCharged(c, s)
    BY <2>3 DEF MaybeCharged
  <2>5. /\ u \in Slice /\ u.data = s.data /\ u.trackers = s.trackers
        /\ OnlyAccounts(d, e) /\ e.ran = d.ran
        /\ \A a \in Accounts : e.balance[a] = (d.balance[a] + ChargeOf(a)[u]) - ChargeOf(a)[s]
    BY <2>3, ChargedIs
  <2> HIDE DEF e, u
  <2>6. Taken(c, Append(tt, s)) = Append(vv, u)
    <3> DEFINE ww == Append(tt, s)
    <3>1. /\ Len(ww) = Len(tt) + 1 /\ Len(tt) \in Nat /\ DOMAIN ww = 1..(Len(tt) + 1)
          /\ DOMAIN tt = 1..Len(tt) /\ ww[Len(tt) + 1] = s /\ \A i \in 1..Len(tt) : ww[i] = tt[i]
      OBVIOUS
    <3>2. vv = [i \in 1..Len(tt) |-> MaybeCharged(c, tt[i])]
      BY <3>1, Zenon DEF Taken
    <3>3. Taken(c, ww) = [i \in 1..(Len(tt) + 1) |-> MaybeCharged(c, ww[i])]
      BY <3>1, Zenon DEF Taken
    <3> HIDE DEF ww, vv
    <3>4. Append(vv, u) = [i \in 1..(Len(tt) + 1) |-> IF i = Len(tt) + 1 THEN u ELSE vv[i]]
      BY <2>2, <2>5, <3>1, <3>2
    <3>5. ASSUME NEW i \in 1..(Len(tt) + 1)
          PROVE  MaybeCharged(c, ww[i]) = IF i = Len(tt) + 1 THEN u ELSE vv[i]
      <4>1. CASE i = Len(tt) + 1
        BY <2>4, <3>1, <4>1
      <4>2. CASE i # Len(tt) + 1
        <5>1. i \in 1..Len(tt)
          BY <3>1, <4>2
        <5>2. vv[i] = MaybeCharged(c, tt[i])
          BY <3>2, <5>1
        <5> QED
          BY <3>1, <4>2, <5>1, <5>2
      <4> QED
        BY <4>1, <4>2
    <3>6. Taken(c, ww) = Append(vv, u)
      BY <3>3, <3>4, <3>5
    <3> QED
      BY <3>6 DEF ww
  <2> HIDE DEF vv
  <2>7. OnlyAccounts(c, e) /\ e.ran = c.ran
    BY <2>2, <2>5 DEF OnlyAccounts
  <2>8. Append(vv, u) \in Seq(Slice) /\ Flat(Append(vv, u)) = Flat(Append(tt, s))
    <3>1. Append(vv, u) \in Seq(Slice) /\ Flat(Append(vv, u)) = Flat(vv) \o u.data
      BY <2>2, <2>5, FlatEnds
    <3>2. Flat(Append(tt, s)) = Flat(tt) \o s.data
      BY FlatEnds
    <3> QED
      BY <2>2, <2>5, <3>1, <3>2, Zenon
  <2>9. ASSUME NEW t
        PROVE  Weigh(MarksOf(t), Append(vv, u)) = Weigh(MarksOf(t), Append(tt, s))
    <3>1. Weigh(MarksOf(t), Append(vv, u)) = Weigh(MarksOf(t), vv) + MarksOf(t)[u]
      BY <2>2, <2>5, SliceWeights DEF IsWeight
    <3>2. Weigh(MarksOf(t), Append(tt, s)) = Weigh(MarksOf(t), tt) + MarksOf(t)[s]
      BY SliceWeights DEF IsWeight
    <3>3. MarksOf(t)[u] = MarksOf(t)[s]
      BY <2>5, WeightsOfSlices
    <3>4. Weigh(MarksOf(t), vv) = Weigh(MarksOf(t), tt)
      BY <2>2
    <3> QED
      BY <3>1, <3>2, <3>3, <3>4, Zenon
  <2>10. ASSUME NEW a \in Accounts
         PROVE  e.balance[a] = (c.balance[a] + Weigh(ChargeOf(a), Append(vv, u))) - Weigh(ChargeOf(a), Append(tt, s))
    <3>1. Weigh(ChargeOf(a), Append(vv, u)) = Weigh(ChargeOf(a), vv) + ChargeOf(a)[u]
      BY <2>2, <2>5, SliceWeights DEF IsWeight
    <3>2. Weigh(ChargeOf(a), Append(tt, s)) = Weigh(ChargeOf(a), tt) + ChargeOf(a)[s]
      BY SliceWeights DEF IsWeight
    <3>3. /\ e.balance[a] = (d.balance[a] + ChargeOf(a)[u]) - ChargeOf(a)[s]
          /\ d.balance[a] = (c.balance[a] + Weigh(ChargeOf(a), vv)) - Weigh(ChargeOf(a), tt)
      BY <2>2, <2>5
    <3>4. /\ ChargeOf(a)[u] \in Int /\ ChargeOf(a)[s] \in Int
          /\ Weigh(ChargeOf(a), vv) \in Int /\ Weigh(ChargeOf(a), tt) \in Int
      BY <2>2, <2>5, WeightsOfSlices, SliceSums
    <3>5. c.balance[a] \in Int
      BY DebtType
    <3> DEFINE p == ChargeOf(a)[u]
               q == ChargeOf(a)[s]
               m == Weigh(ChargeOf(a), vv)
               n == Weigh(ChargeOf(a), tt)
               b == c.balance[a]
    <3>6. /\ p \in Int /\ q \in Int /\ m \in Int /\ n \in Int /\ b \in Int
          /\ e.balance[a] = (((b + m) - n) + p) - q
          /\ Weigh(ChargeOf(a), Append(vv, u)) = m + p
          /\ Weigh(ChargeOf(a), Append(tt, s)) = n + q
      BY <3>1, <3>2, <3>3, <3>4, <3>5, Zenon
    <3> HIDE DEF p, q, m, n, b
    <3>7. e.balance[a] = (b + (m + p)) - (n + q)
      BY <3>6
    <3> QED
      BY <3>6, <3>7, Zenon DEF b
  <2> QED
    BY <2>1, <2>6, <2>7, <2>8, <2>9, <2>10
<1> HIDE DEF Good
<1>5. <<>> \in S /\ \A tt \in Seq(Slice), s \in Slice : tt \in S => Append(tt, s) \in S
  BY <1>2, <1>3, <1>4
<1> HIDE DEF S
<1>6. ss \in S
  BY <1>5, Charging!SequenceInduction
<1> QED
  BY <1>6 DEF S, Good

\* prepend(Instance&) takes over the slices of the other buffer.
LEMMA PrependSlicesIs ==
  ASSUME NEW c \in Context, NEW ss \in Seq(Slice)
  PROVE  LET e == PrependSlices(c, ss)
         IN /\ TakesOver(c, e, ss) /\ Flat(e.slices) = Flat(ss) \o Flat(c.slices)
            /\ e.length = c.length + Len(Flat(ss))
<1> DEFINE vv == Taken(c, ss)
           d == ChargeForAll(c, ss)
           tt == vv \o c.slices
           n == c.length + Len(Flat(ss))
           e == PrependSlices(c, ss)
<1>1. /\ OnlyAccounts(c, d) /\ d.ran = c.ran
      /\ vv \in Seq(Slice) /\ Flat(vv) = Flat(ss)
      /\ \A t : Weigh(MarksOf(t), vv) = Weigh(MarksOf(t), ss)
      /\ \A a \in Accounts :
           d.balance[a] = (c.balance[a] + Weigh(ChargeOf(a), vv)) - Weigh(ChargeOf(a), ss)
  BY ChargeForAllIs
<1>2. /\ d \in Context /\ d.slices = c.slices /\ d.length = c.length /\ d.account = c.account
  BY <1>1 DEF OnlyAccounts
<1>3. Size(ss) = Len(Flat(ss)) /\ Len(Flat(ss)) \in Int
  BY SumsWeigh, FlatType
<1>4. e = [d EXCEPT !.slices = tt, !.length = n]
  BY <1>2, <1>3 DEF PrependSlices, Taken
<1> HIDE DEF vv, d
<1>5. tt \in Seq(Slice) /\ n \in Int /\ Flat(tt) = Flat(ss) \o Flat(c.slices) /\ c.slices \in Seq(Slice)
  <2>1. c.slices \in Seq(Slice) /\ c.length \in Int
    BY DebtType
  <2>2. Flat(tt) = Flat(vv) \o Flat(c.slices)
    BY <1>1, <2>1, FlatConcat
  <2>3. tt \in Seq(Slice)
    BY <1>1, <2>1
  <2>4. n \in Int
    BY <1>3, <2>1
  <2> QED
    BY <1>1, <2>1, <2>2, <2>3, <2>4, Zenon
<1>6. \A w : IsWeight(w) => Weigh(w, tt) = Weigh(w, vv) + Weigh(w, c.slices)
  BY <1>1, <1>5 DEF IsWeight
<1> HIDE DEF tt, n, e
<1>7. /\ e \in Context /\ e.slices = tt /\ e.length = n /\ e.account = c.account
      /\ e.balance = d.balance /\ e.ran = c.ran
  BY <1>1, <1>2, <1>4, <1>5 DEF Context
<1>8. ASSUME NEW a \in Accounts
      PROVE  Debt(e, a) = Debt(c, a) - Weigh(ChargeOf(a), ss)
  <2>1. /\ Weigh(ChargeOf(a), ss) \in Int /\ Weigh(ChargeOf(a), vv) \in Int
        /\ Weigh(ChargeOf(a), c.slices) \in Int
    BY <1>1, <1>5, SliceSums
  <2>2. e.balance[a] = (c.balance[a] + Weigh(ChargeOf(a), vv)) - Weigh(ChargeOf(a), ss) /\ c.balance[a] \in Int
    BY <1>1, <1>7, DebtType
  <2>3. Debt(e, a) = e.balance[a] - (Weigh(ChargeOf(a), vv) + Weigh(ChargeOf(a), c.slices))
    BY <1>6, <1>7, SliceWeights DEF Debt
  <2>4. Debt(c, a) = c.balance[a] - Weigh(ChargeOf(a), c.slices)
    BY DEF Debt
  <2> QED
    BY <2>1, <2>2, <2>3, <2>4
<1>9. ASSUME NEW t \in Callbacks
      PROVE  Marks(e, t) = Marks(c, t) + Weigh(MarksOf(t), ss)
  <2>1. Weigh(MarksOf(t), ss) \in Int /\ Weigh(MarksOf(t), c.slices) \in Int
    BY <1>5, SliceSums
  <2>2. e.ran[t] = c.ran[t] /\ c.ran[t] \in Int
    BY <1>7, DebtType
  <2>3. Marks(e, t) = e.ran[t] + (Weigh(MarksOf(t), ss) + Weigh(MarksOf(t), c.slices))
    BY <1>1, <1>6, <1>7, SliceWeights DEF Marks
  <2>4. Marks(c, t) = c.ran[t] + Weigh(MarksOf(t), c.slices)
    BY DEF Marks
  <2> QED
    BY <2>1, <2>2, <2>3, <2>4
<1> QED
  BY <1>5, <1>7, <1>8, <1>9 DEF TakesOver, e, n

\* Only the length differs.
LEMMA Lengthened ==
  ASSUME NEW c \in Context, NEW d, NEW n \in Int, TakesOver(c, d, <<>>)
  PROVE  LET e == [d EXCEPT !.length = @ + n]
         IN TakesOver(c, e, <<>>) /\ e.slices = d.slices /\ e.length = d.length + n
<1> DEFINE m == d.length + n
           e == [d EXCEPT !.length = m]
<1>1. d \in Context /\ m \in Int
  <2>1. d \in Context
    BY DEF TakesOver
  <2> QED
    BY <2>1, DebtType
<1> HIDE DEF m
<1>2. SameAccounts(d, e) /\ e.slices = d.slices /\ e.length = m
  BY <1>1 DEF SameAccounts, Context
<1> HIDE DEF e
<1>3. TakesOver(c, e, <<>>)
  BY <1>2, TakesOverToo
<1> QED
  BY <1>2, <1>3 DEF e, m

\* reserveSingleSlice() and commit() put data behind what is there.
LEMMA CommittedSingleIs ==
  ASSUME NEW c \in Context, NEW room \in Nat \ {0}, NEW separate \in BOOLEAN, NEW data \in Seq(Byte),
         Len(data) <= room
  PROVE  LET e == CommittedSingle(c, room, separate, data)
         IN /\ TakesOver(c, e, <<>>) /\ Flat(e.slices) = Flat(c.slices) \o data
            /\ e.length = c.length + Len(data)
<1> DEFINE d == IF ~separate /\ BackRoom(c) >= room THEN AppendToBack(c, data)
                ELSE IF data = <<>> THEN c ELSE EmplaceBackNew(c, SliceSize(room), data)
           e == CommittedSingle(c, room, separate, data)
<1>1. TakesOver(c, d, <<>>) /\ Flat(d.slices) = Flat(c.slices) \o data /\ d.length = c.length
  <2>1. CASE ~separate /\ BackRoom(c) >= room
    <3>1. BackRoom(c) \in Nat /\ (c.slices = <<>> => BackRoom(c) = 0) /\ Len(data) \in Nat
      BY BackRoomType
    <3>2. c.slices # <<>> /\ Len(data) <= BackRoom(c)
      BY <2>1, <3>1
    <3>3. /\ TakesOver(c, AppendToBack(c, data), <<>>)
          /\ Flat(AppendToBack(c, data).slices) = Flat(c.slices) \o data
          /\ AppendToBack(c, data).length = c.length
      BY <3>2, AppendToBackIs
    <3> QED
      BY <2>1, <3>3
  <2>2. CASE ~(~separate /\ BackRoom(c) >= room) /\ data = <<>>
    <3>1. Flat(c.slices) \o data = Flat(c.slices)
      <4>1. Flat(c.slices) \in Seq(Byte)
        BY DebtType
      <4> QED
        BY <2>2, <4>1, Concatenation, Zenon
    <3> QED
      BY <2>2, <3>1, TakesNothing
  <2>3. CASE ~(~separate /\ BackRoom(c) >= room) /\ data # <<>>
    <3>1. SliceSize(room) \in Nat /\ Len(data) <= SliceSize(room)
      <4>1. SliceSize(room) \in Nat /\ room <= SliceSize(room)
        BY SliceSizeSuffices
      <4> QED
        BY <4>1
    <3> DEFINE x == EmplaceBackNew(c, SliceSize(room), data)
    <3>2. TakesOver(c, x, <<>>) /\ Flat(x.slices) = Flat(c.slices) \o data /\ x.length = c.length
      BY <3>1, EmplaceBackNewIs
    <3>3. d = x
      BY <2>3, Zenon
    <3> HIDE DEF x, d
    <3> QED
      BY <3>2, <3>3
  <2> QED
    BY <2>1, <2>2, <2>3
<1>2. e = [d EXCEPT !.length = @ + Len(data)]
  BY Zenon DEF CommittedSingle
<1>3. Len(data) \in Int
  OBVIOUS
<1> HIDE DEF d, e
<1>4. TakesOver(c, e, <<>>) /\ e.slices = d.slices /\ e.length = d.length + Len(data)
  BY <1>1, <1>2, <1>3, Lengthened, Zenon
<1> QED
  BY <1>1, <1>4 DEF e

\* addFragments() puts both fragments behind what is there.
LEMMA AddTwoIs ==
  ASSUME NEW c \in Context, NEW data \in Seq(Byte), NEW m \in 0..Len(data)
  PROVE  LET e == AddTwo(c, data, m)
         IN /\ TakesOver(c, e, <<>>) /\ Flat(e.slices) = Flat(c.slices) \o data
            /\ e.length = c.length + Len(data)
<1> DEFINE new == EmplaceBackNew(c, SliceSize(Len(data)), <<>>)
           d == IF c.slices = <<>> THEN new ELSE c
           both == AppendToBack(d, data)
           x == SubSeq(data, 1, m)
           y == SubSeq(data, m + 1, Len(data))
           one == AddImpl(d, x)
           two == AddImpl(one, y)
           e == AddTwo(c, data, m)
<1>1. Flat(c.slices) \in Seq(Byte) /\ <<>> \in Seq(Slice) /\ <<>> \in Seq(Byte) /\ Len(data) \in Nat
      /\ c.length \in Int
  <2>1. <<>> \in Seq(Slice)
    OBVIOUS
  <2>2. <<>> \in Seq(Byte)
    OBVIOUS
  <2> QED
    BY <2>1, <2>2, DebtType
<1>2. TakesOver(c, d, <<>>) /\ Flat(d.slices) = Flat(c.slices) /\ d.length = c.length /\ d.slices # <<>>
  <2>1. CASE c.slices = <<>>
    <3>1. SliceSize(Len(data)) \in Nat /\ Len(<<>>) <= SliceSize(Len(data))
      BY <1>1, SliceSizeSuffices
    <3>2. TakesOver(c, new, <<>>) /\ Flat(new.slices) = Flat(c.slices) \o <<>> /\ new.length = c.length
          /\ new.slices # <<>>
      BY <1>1, <3>1, EmplaceBackNewIs
    <3>3. Flat(c.slices) \o <<>> = Flat(c.slices)
      BY <1>1, Concatenation, Zenon
    <3>4. d = new
      BY <2>1, Zenon
    <3> HIDE DEF new, d
    <3> QED
      BY <3>2, <3>3, <3>4, Zenon
  <2>2. CASE c.slices # <<>>
    BY <2>2, TakesNothing
  <2> QED
    BY <2>1, <2>2
<1>3. d \in Context
  BY <1>2 DEF TakesOver
<1>4. e = IF BackRoom(d) >= Len(data) THEN [both EXCEPT !.length = @ + Len(data)] ELSE two
  BY Zenon DEF AddTwo
<1> HIDE DEF d, e
<1>5. CASE BackRoom(d) >= Len(data)
  <2>1. Len(data) <= BackRoom(d)
    BY <1>1, <1>3, <1>5, BackRoomType
  <2>2. TakesOver(d, both, <<>>) /\ Flat(both.slices) = Flat(d.slices) \o data /\ both.length = d.length
    BY <1>2, <1>3, <2>1, AppendToBackIs
  <2> HIDE DEF both
  <2>3. TakesOver(c, both, <<>>)
    BY <1>1, <1>2, <2>2, TakesNothingAfter
  <2>4. e = [both EXCEPT !.length = @ + Len(data)]
    BY <1>4, <1>5, Zenon
  <2>5. Len(data) \in Int
    BY <1>1
  <2>6. TakesOver(c, e, <<>>) /\ e.slices = both.slices /\ e.length = both.length + Len(data)
    BY <2>3, <2>4, <2>5, Lengthened, Zenon
  <2>7. Flat(e.slices) = Flat(c.slices) \o data /\ e.length = c.length + Len(data)
    BY <1>2, <2>2, <2>6, Zenon
  <2> QED
    BY <2>6, <2>7 DEF e
<1>6. CASE ~(BackRoom(d) >= Len(data))
  <2>1. x \in Seq(Byte) /\ y \in Seq(Byte) /\ Len(x) = m /\ Len(y) = Len(data) - m /\ x \o y = data
    BY BytesSplit, Zenon
  <2> HIDE DEF x, y
  <2>2. TakesOver(d, one, <<>>) /\ Flat(one.slices) = Flat(d.slices) \o x /\ one.length = d.length + Len(x)
    BY <1>3, <2>1, AddImplIs
  <2> HIDE DEF one
  <2>3. one \in Context
    BY <2>2 DEF TakesOver
  <2>4. TakesOver(one, two, <<>>) /\ Flat(two.slices) = Flat(one.slices) \o y /\ two.length = one.length + Len(y)
    BY <2>1, <2>3, AddImplIs
  <2> HIDE DEF two
  <2>5. TakesOver(c, one, <<>>)
    BY <1>1, <1>2, <2>2, TakesNothingAfter
  <2>6. TakesOver(c, two, <<>>)
    BY <1>1, <2>4, <2>5, TakesNothingAfter
  <2>7. Flat(two.slices) = Flat(c.slices) \o data
    <3>1. x \in Seq(Byte) /\ y \in Seq(Byte) /\ Flat(c.slices) \in Seq(Byte)
      BY <1>1, <2>1, Zenon
    <3>2. \A u, v, w \in Seq(Byte) : (u \o v) \o w = u \o (v \o w)
      BY Concatenation, Zenon
    <3>3. (Flat(c.slices) \o x) \o y = Flat(c.slices) \o (x \o y)
      BY <3>1, <3>2, Zenon
    <3>4. Flat(one.slices) = Flat(c.slices) \o x
      BY <1>2, <2>2, Zenon
    <3> QED
      BY <2>1, <2>4, <3>3, <3>4, Zenon
  <2>8. two.length = c.length + Len(data)
    <3>1. two.length = (c.length + m) + (Len(data) - m)
      BY <1>2, <2>1, <2>2, <2>4, Zenon
    <3> QED
      BY <1>1, <3>1
  <2>9. e = two
    BY <1>4, <1>6, Zenon
  <2> QED
    BY <2>6, <2>7, <2>8, <2>9 DEF e
<1> QED
  BY <1>5, <1>6

\* The bytes reserved before each default slice.
LEMMA ReservedIs ==
  ASSUME NEW first \in Nat
  PROVE  /\ DefaultSliceSize \in Nat
         /\ Reserved(first, 1) = first
         /\ \A j \in Nat \ {0} : /\ Reserved(first, j) \in Nat
                                 /\ Reserved(first, j + 1) = Reserved(first, j) + DefaultSliceSize
         /\ \A i, j \in Nat \ {0} : i <= j => Reserved(first, i) <= Reserved(first, j)
<1>1. DefaultSliceSize \in Nat
  BY BufferAssumption DEF BufferAssumption
<1> DEFINE D == DefaultSliceSize
<1> HIDE DEF D
<1>2. D \in Nat
  BY <1>1 DEF D
<1>3. \A i \in Nat : i * D \in Nat /\ (i + 1) * D = i * D + D
  BY <1>2
<1>4. 0 * D = 0
  BY <1>2
<1>5. \A i, j \in Nat : i <= j => i * D <= j * D
  <2> SUFFICES ASSUME NEW i \in Nat, NEW j \in Nat, i <= j
               PROVE  i * D <= j * D
    OBVIOUS
  <2>1. j - i \in Nat
    OBVIOUS
  <2>2. (j - i) * D \in Nat
    BY <1>3, <2>1
  <2>3. j * D = i * D + (j - i) * D
    BY <1>2
  <2>4. i * D \in Nat
    BY <1>3
  <2> QED
    BY <2>2, <2>3, <2>4
<1>6. \A j : Reserved(first, j) = first + (j - 1) * D
  BY DEF Reserved, D
<1>7. \A j \in Nat \ {0} : j - 1 \in Nat /\ (j + 1) - 1 = (j - 1) + 1
  OBVIOUS
<1>8. Reserved(first, 1) = first
  BY <1>4, <1>6
<1>9. ASSUME NEW j \in Nat \ {0}
      PROVE  Reserved(first, j) \in Nat /\ Reserved(first, j + 1) = Reserved(first, j) + D
  <2> DEFINE i == j - 1
  <2>1. i \in Nat /\ (j + 1) - 1 = i + 1
    BY <1>7
  <2>2. Reserved(first, j) = first + i * D /\ Reserved(first, j + 1) = first + (i + 1) * D
    BY <1>6, <2>1, Zenon
  <2> HIDE DEF i
  <2> QED
    BY <1>2, <1>3, <2>1, <2>2
<1>10. ASSUME NEW i \in Nat \ {0}, NEW j \in Nat \ {0}, i <= j
       PROVE  Reserved(first, i) <= Reserved(first, j)
  <2>1. i - 1 \in Nat /\ j - 1 \in Nat /\ i - 1 <= j - 1
    BY <1>10
  <2>2. (i - 1) * D <= (j - 1) * D /\ (i - 1) * D \in Nat /\ (j - 1) * D \in Nat
    BY <1>3, <1>5, <2>1
  <2> QED
    BY <1>6, <2>2
<1> QED
  BY <1>1, <1>8, <1>9, <1>10 DEF D

\* A commit() uses the first of the default slices, as many as it needs.
LEMMA UsedIs ==
  ASSUME NEW first \in Nat, NEW n \in Nat, NEW fresh \in Nat, n <= Reserved(first, fresh + 1)
  PROVE  LET k == Used(n, first, fresh)
         IN /\ k \in 0..fresh /\ n <= Reserved(first, k + 1)
            /\ \A j \in 1..k : Reserved(first, j) < n
<1> DEFINE W == {j \in 1..fresh : Reserved(first, j) < n}
<1>1. W \in SUBSET (1..fresh) /\ \A i \in W : \A j \in 1..i : j \in W
  <2> SUFFICES ASSUME NEW i \in W, NEW j \in 1..i
               PROVE  j \in W
    OBVIOUS
  <2>1. i \in Nat \ {0} /\ j \in Nat \ {0} /\ j <= i /\ j \in 1..fresh
    OBVIOUS
  <2>2. Reserved(first, j) <= Reserved(first, i) /\ Reserved(first, j) \in Nat /\ Reserved(first, i) \in Nat
    BY <2>1, ReservedIs
  <2>3. Reserved(first, i) < n
    OBVIOUS
  <2>4. Reserved(first, j) < n
    BY <2>2, <2>3
  <2> QED
    BY <2>1, <2>4
<1>2. PICK k \in 0..fresh : W = 1..k /\ Cardinality(W) = k
  <2> HIDE DEF W
  <2> QED
    BY <1>1, PrefixSet
<1>3. Used(n, first, fresh) = k
  BY <1>2 DEF Used
<1>4. \A j \in 1..k : Reserved(first, j) < n
  BY <1>2
<1>5. n <= Reserved(first, k + 1)
  <2>1. CASE k = fresh
    BY <2>1
  <2>2. CASE k # fresh
    <3>1. k + 1 \in 1..fresh /\ k + 1 \notin 1..k /\ k + 1 \in Nat \ {0}
      BY <2>2
    <3>2. ~(Reserved(first, k + 1) < n)
      BY <1>2, <3>1
    <3>3. Reserved(first, k + 1) \in Nat
      BY <3>1, ReservedIs
    <3> QED
      BY <3>2, <3>3
  <2> QED
    BY <2>1, <2>2
<1> QED
  BY <1>3, <1>4, <1>5

\* Parts of data that follow each other.
LEMMA Consecutive ==
  ASSUME NEW x \in Seq(Byte), NEW i \in 0..Len(x), NEW j \in i..Len(x)
  PROVE  /\ SubSeq(x, 1, i) \in Seq(Byte) /\ SubSeq(x, i + 1, j) \in Seq(Byte)
         /\ Len(SubSeq(x, i + 1, j)) = j - i
         /\ SubSeq(x, 1, i) \o SubSeq(x, i + 1, j) = SubSeq(x, 1, j)
<1>1. SubSeq(x, 1, i) \in Seq(Byte)
  OBVIOUS
<1>2. SubSeq(x, i + 1, j) \in Seq(Byte) /\ Len(SubSeq(x, i + 1, j)) = j - i
  OBVIOUS
<1>3. 1 \in 1..(Len(x) + 1) /\ i \in (1 - 1)..Len(x)
  OBVIOUS
<1>4. SubSeq(x, 1, i) \o SubSeq(x, i + 1, j) = SubSeq(x, 1, j)
  BY <1>3, ConcatAdjacentSubSeq
<1> QED
  BY <1>1, <1>2, <1>4

\* One more element.
LEMMA AppendIs ==
  ASSUME NEW T, NEW ss \in Seq(T), NEW s \in T
  PROVE  Append(ss, s) = [i \in 1..(Len(ss) + 1) |-> IF i = Len(ss) + 1 THEN s ELSE ss[i]]
<1> DEFINE tt == Append(ss, s)
<1>1. tt \in Seq(T) /\ Len(tt) = Len(ss) + 1 /\ Len(ss) \in Nat
  OBVIOUS
<1>2. \A i \in 1..(Len(ss) + 1) : tt[i] = IF i = Len(ss) + 1 THEN s ELSE ss[i]
  OBVIOUS
<1>3. tt = [i \in 1..(Len(ss) + 1) |-> tt[i]]
  <2> HIDE DEF tt
  <2> QED
    BY <1>1
<1> HIDE DEF tt
<1>4. tt = [i \in 1..(Len(ss) + 1) |-> IF i = Len(ss) + 1 THEN s ELSE ss[i]]
  BY <1>2, <1>3
<1> QED
  BY <1>4 DEF tt

Emplacing == INSTANCE FoldTheorems WITH Op <- EmplaceDefault

\* The first k chunks of a commit().
Chunks(data, first, k) == [j \in 1..k |-> Chunk(data, first, j)]

\* One more default slice is filled.
LEMMA ChunkIs ==
  ASSUME NEW data \in Seq(Byte), NEW first \in Nat, NEW k \in Nat, Reserved(first, k + 1) < Len(data)
  PROVE  LET upto(i) == Min({Len(data), Reserved(first, i + 1)})
             x == Chunk(data, first, k + 1)
         IN /\ x \in Seq(Byte) /\ Len(x) <= DefaultSliceSize
            /\ SubSeq(data, 1, upto(k)) \o x = SubSeq(data, 1, upto(k + 1))
            /\ SubSeq(data, 1, upto(k)) \in Seq(Byte)
<1> DEFINE n == Len(data)
           D == DefaultSliceSize
           r == Reserved(first, k + 1)
           q == Min({n, r + D})
           x == SubSeq(data, r + 1, q)
<1>1. n \in Nat /\ D \in Nat /\ r \in Nat /\ r < n /\ k + 1 \in Nat \ {0}
      /\ Reserved(first, (k + 1) + 1) = r + D
  <2>1. k + 1 \in Nat \ {0} /\ n \in Nat
    OBVIOUS
  <2> QED
    BY <2>1, ReservedIs
<1>2. Chunk(data, first, k + 1) = x
  BY DEF Chunk
<1> HIDE DEF D, r
<1>3. Min({n, r}) = r /\ q \in r..n /\ q - r <= D /\ r \in 0..n
  <2> HIDE DEF n
  <2>1. Min({n, r}) = IF n <= r THEN n ELSE r
    BY <1>1, MinMaxOfTwo
  <2>2. r + D \in Int /\ n \in Int
    BY <1>1
  <2>3. Min({n, r + D}) = IF n <= r + D THEN n ELSE r + D
    BY <2>2, MinMaxOfTwo
  <2> QED
    BY <1>1, <2>1, <2>3
<1> HIDE DEF q
<1>4. /\ SubSeq(data, 1, r) \in Seq(Byte) /\ x \in Seq(Byte) /\ Len(x) = q - r
      /\ SubSeq(data, 1, r) \o x = SubSeq(data, 1, q)
  BY <1>3, Consecutive
<1> HIDE DEF x
<1>5. Min({Len(data), Reserved(first, k + 1)}) = r /\ Min({Len(data), Reserved(first, (k + 1) + 1)}) = q
  BY <1>1, <1>3, Zenon DEF r, q
<1>6. Len(x) <= DefaultSliceSize
  BY <1>3, <1>4 DEF D
<1> QED
  BY <1>2, <1>4, <1>5, <1>6, Zenon

\* One more chunk.
LEMMA ChunksGrow ==
  ASSUME NEW T, NEW data, NEW first, NEW k \in Nat,
         Chunks(data, first, k) \in Seq(T), Chunk(data, first, k + 1) \in T
  PROVE  /\ Chunks(data, first, k + 1) = Append(Chunks(data, first, k), Chunk(data, first, k + 1))
         /\ Append(Chunks(data, first, k), Chunk(data, first, k + 1)) \in Seq(T)
<1> DEFINE cc == Chunks(data, first, k)
           x == Chunk(data, first, k + 1)
<1>1. DOMAIN cc = 1..k /\ Len(cc) = k
  BY DEF Chunks
<1>2. \A i \in 1..k : cc[i] = Chunk(data, first, i)
  BY DEF Chunks
<1>3. Chunks(data, first, k + 1) = [i \in 1..(k + 1) |-> Chunk(data, first, i)]
  BY DEF Chunks
<1> HIDE DEF cc, x
<1>4. cc \in Seq(T) /\ x \in T
  BY DEF cc, x
<1>5. Append(cc, x) = [i \in 1..(k + 1) |-> IF i = k + 1 THEN x ELSE cc[i]]
  BY <1>1, <1>4, AppendIs
<1>6. ASSUME NEW i \in 1..(k + 1)
      PROVE  Chunk(data, first, i) = IF i = k + 1 THEN x ELSE cc[i]
  <2>1. i = k + 1 \/ i \in 1..k
    OBVIOUS
  <2>2. x = Chunk(data, first, k + 1)
    BY DEF x
  <2> QED
    BY <1>2, <2>1, <2>2
<1>7. Chunks(data, first, k + 1) = Append(cc, x)
  BY <1>3, <1>5, <1>6
<1>8. Append(cc, x) \in Seq(T)
  BY <1>4
<1> QED
  BY <1>7, <1>8 DEF cc, x

\* commit() of a reservation puts data behind what is there.
LEMMA CommittedIs ==
  ASSUME NEW c \in Context, NEW data \in Seq(Byte), NEW first \in Nat, NEW fresh \in Nat,
         first = 0 \/ (c.slices # <<>> /\ first <= BackRoom(c)),
         Len(data) <= Reserved(first, fresh + 1)
  PROVE  LET d == Committed(c, data, first, fresh)
         IN /\ TakesOver(c, d, <<>>) /\ Flat(d.slices) = Flat(c.slices) \o data
            /\ d.length = c.length + Len(data)
<1> DEFINE n == Len(data)
           used == Used(n, first, fresh)
           upto(k) == Min({n, Reserved(first, k + 1)})
           b == AppendToBack(c, SubSeq(data, 1, Min({first, n})))
           after(k) == EmplaceDefaults(b, Chunks(data, first, k))
           Good(k) == /\ Chunks(data, first, k) \in Seq(Seq(Byte))
                      /\ TakesOver(c, after(k), <<>>) /\ after(k).length = c.length
                      /\ Flat(after(k).slices) = Flat(c.slices) \o SubSeq(data, 1, upto(k))
           S == {k \in Nat : k <= used => Good(k)}
           d == Committed(c, data, first, fresh)
<1>1. n \in Nat /\ Flat(c.slices) \in Seq(Byte) /\ <<>> \in Seq(Slice)
  <2>1. <<>> \in Seq(Slice)
    OBVIOUS
  <2> QED
    BY <2>1, DebtType
<1>2. used \in 0..fresh /\ n <= Reserved(first, used + 1) /\ \A j \in 1..used : Reserved(first, j) < n
  <2> HIDE DEF n
  <2> QED
    BY <1>1, UsedIs DEF n
<1>3. d = [after(used) EXCEPT !.length = @ + n]
  BY Zenon DEF Committed, Chunks
<1> HIDE DEF used, d
<1>4. 0 \in S
  <2> DEFINE m == Min({first, n})
  <2>1. m \in 0..n /\ m <= first /\ upto(0) = m
    <3>1. Reserved(first, 0 + 1) = first
      BY ReservedIs
    <3> HIDE DEF n
    <3>2. m = IF first <= n THEN first ELSE n
      BY <1>1, MinMaxOfTwo
    <3>3. Min({n, first}) = IF n <= first THEN n ELSE first
      BY <1>1, MinMaxOfTwo
    <3>4. upto(0) = Min({n, first})
      BY <3>1, Zenon
    <3> HIDE DEF m
    <3> QED
      BY <1>1, <3>2, <3>3, <3>4
  <2> HIDE DEF m
  <2> DEFINE x == SubSeq(data, 1, m)
  <2>2. x \in Seq(Byte) /\ Len(x) = m
    BY <2>1, BytesSplit
  <2> HIDE DEF x
  <2>3. x = <<>> \/ (c.slices # <<>> /\ Len(x) <= BackRoom(c))
    BY <2>1, <2>2, BackRoomType
  <2>4. TakesOver(c, AppendToBack(c, x), <<>>) /\ Flat(AppendToBack(c, x).slices) = Flat(c.slices) \o x
        /\ AppendToBack(c, x).length = c.length
    BY <2>2, <2>3, AppendToBackIs
  <2>5. Chunks(data, first, 0) = <<>> /\ <<>> \in Seq(Seq(Byte))
    BY DEF Chunks
  <2>6. EmplaceDefaults(b, <<>>) = b
    <3>1. EmplaceDefaults(b, <<>>) = Emplacing!Fold(b, <<>>)
      BY DEF EmplaceDefaults, FoldLeft, MapThenFoldSet, Max, Emplacing!Fold,
       Emplacing!MapThenFoldSet, Emplacing!Latest
    <3> QED
      BY <3>1, Emplacing!FoldOfNone
  <2>7. after(0) = b
    BY <2>5, <2>6, Zenon
  <2>8. b = AppendToBack(c, x)
    BY DEF x, m
  <2>9. Good(0)
    <3>1. SubSeq(data, 1, upto(0)) = x
      BY <2>1, Zenon DEF x
    <3> QED
      BY <2>4, <2>5, <2>7, <2>8, <3>1, Zenon
  <2> HIDE DEF Good
  <2> QED
    BY <2>9
<1>5. ASSUME NEW k \in Nat, k \in S
      PROVE  k + 1 \in S
  <2> HIDE DEF Good
  <2> SUFFICES ASSUME k + 1 <= used
               PROVE  Good(k + 1)
    OBVIOUS
  <2>1. k <= used /\ k + 1 \in 1..used
    BY <1>2
  <2>2. Good(k) /\ Reserved(first, k + 1) < Len(data)
    BY <1>2, <1>5, <2>1
  <2> DEFINE x == Chunk(data, first, k + 1)
             cc == Chunks(data, first, k)
             y == SubSeq(data, 1, upto(k))
             z == SubSeq(data, 1, upto(k + 1))
             e == after(k)
             f == EmplaceBackNew(e, DefaultSliceSize, x)
  <2>3. x \in Seq(Byte) /\ Len(x) <= DefaultSliceSize /\ y \o x = z /\ y \in Seq(Byte)
    BY <2>2, ChunkIs
  <2>4. /\ cc \in Seq(Seq(Byte)) /\ TakesOver(c, e, <<>>) /\ e.length = c.length
        /\ Flat(e.slices) = Flat(c.slices) \o y
    BY <2>2 DEF Good
  <2>5. Chunks(data, first, k + 1) = Append(cc, x) /\ Append(cc, x) \in Seq(Seq(Byte))
    <3>1. cc \in Seq(Seq(Byte)) /\ x \in Seq(Byte)
      BY <2>3, <2>4
    <3> QED
      BY <3>1, ChunksGrow, Zenon
  <2>6. after(k + 1) = f
    <3>1. \A u, w : EmplaceDefaults(u, w) = Emplacing!Fold(u, w)
      BY DEF EmplaceDefaults, FoldLeft, MapThenFoldSet, Max, Emplacing!Fold,
       Emplacing!MapThenFoldSet, Emplacing!Latest
    <3> HIDE DEF cc, x, b
    <3>2. Emplacing!Fold(b, Append(cc, x)) = EmplaceDefault(Emplacing!Fold(b, cc), x)
      BY <2>3, <2>4, Emplacing!FoldOfAppend
    <3>3. EmplaceDefaults(b, Append(cc, x)) = EmplaceDefault(EmplaceDefaults(b, cc), x)
      BY <3>1, <3>2, Zenon
    <3>4. EmplaceDefaults(b, Chunks(data, first, k + 1)) = EmplaceDefault(EmplaceDefaults(b, cc), x)
      BY <2>5, <3>3, Zenon
    <3> QED
      BY <3>4, Zenon DEF EmplaceDefault, cc
  <2> HIDE DEF x, e, y, z
  <2>7. e \in Context /\ DefaultSliceSize \in Nat
    BY <2>4, ReservedIs DEF TakesOver
  <2>8. TakesOver(e, f, <<>>) /\ Flat(f.slices) = Flat(e.slices) \o x /\ f.length = e.length
    BY <2>3, <2>7, EmplaceBackNewIs
  <2> HIDE DEF f
  <2>9. TakesOver(c, f, <<>>)
    BY <1>1, <2>4, <2>8, TakesNothingAfter
  <2>10. Flat(f.slices) = Flat(c.slices) \o z
    <3>1. \A u, v, w \in Seq(Byte) : (u \o v) \o w = u \o (v \o w)
      BY Concatenation, Zenon
    <3>2. (Flat(c.slices) \o y) \o x = Flat(c.slices) \o (y \o x)
      BY <1>1, <2>3, <3>1, Zenon
    <3>3. Flat(f.slices) = (Flat(c.slices) \o y) \o x
      BY <2>4, <2>8, Zenon
    <3> QED
      BY <2>3, <3>2, <3>3, Zenon
  <2>11. Chunks(data, first, k + 1) \in Seq(Seq(Byte))
    BY <2>5, Zenon
  <2>12. f.length = c.length
    BY <2>4, <2>8, Zenon
  <2> QED
    BY <2>6, <2>9, <2>10, <2>11, <2>12, Zenon DEF z, Good
<1> HIDE DEF S
<1>6. used \in S
  <2>1. used \in Nat
    BY <1>2
  <2> QED
    BY <1>4, <1>5, <2>1, Emplacing!SetInduction
<1>7. Good(used)
  <2>1. used <= used
    BY <1>2
  <2> QED
    BY <1>6, <2>1 DEF S
<1>8. SubSeq(data, 1, upto(used)) = data
  <2>1. Reserved(first, used + 1) \in Nat
    <3>1. used + 1 \in Nat \ {0}
      BY <1>2
    <3> QED
      BY <3>1, ReservedIs
  <2>2. upto(used) = n
    <3> HIDE DEF n
    <3> QED
      BY <1>1, <1>2, <2>1, MinMaxOfTwo
  <2>3. SubSeq(data, 1, Len(data)) = data
    OBVIOUS
  <2> QED
    BY <2>2, <2>3, Zenon
<1>9. TakesOver(c, after(used), <<>>) /\ after(used).length = c.length
      /\ Flat(after(used).slices) = Flat(c.slices) \o data
  BY <1>7, <1>8, Zenon
<1> DEFINE e == after(used)
<1>10. d = [e EXCEPT !.length = @ + n] /\ n \in Int
  BY <1>1, <1>3
<1> HIDE DEF e, n
<1>11. TakesOver(c, e, <<>>)
  BY <1>9 DEF e
<1>12. TakesOver(c, d, <<>>) /\ d.slices = e.slices /\ d.length = e.length + n
  BY <1>10, <1>11, Lengthened, Zenon
<1> QED
  BY <1>9, <1>12, Zenon DEF d, e, n

\* How far move(rhs, length) gets.
LEMMA WholeIs ==
  ASSUME NEW ss \in Seq(Slice), NEW n \in Nat
  PROVE  LET k == Whole(ss, n)
         IN /\ k \in 0..Len(ss) /\ Part(ss, n) \in Nat
            /\ Part(ss, n) # 0 => k < Len(ss) /\ Part(ss, n) <= Len(ss[k + 1].data)
<1> DEFINE W == {i \in DOMAIN ss : End(ss, i - 1) < n /\ End(ss, i) <= n}
<1>1. Len(ss) \in Nat /\ DOMAIN ss = 1..Len(ss)
  OBVIOUS
<1>2. /\ End(ss, 0) = 0
      /\ \A i \in 0..Len(ss) : End(ss, i) \in Nat
      /\ \A i \in 0..(Len(ss) - 1) : End(ss, i + 1) = End(ss, i) + Len(ss[i + 1].data)
      /\ \A i, j \in 0..Len(ss) : i <= j => End(ss, i) <= End(ss, j)
  BY EndIs
<1>3. W \in SUBSET (1..Len(ss)) /\ \A i \in W : \A j \in 1..i : j \in W
  <2> SUFFICES ASSUME NEW i \in W, NEW j \in 1..i
               PROVE  j \in W
    BY <1>1
  <2>1. /\ i \in 0..Len(ss) /\ j \in 0..Len(ss) /\ j <= i /\ j \in 1..Len(ss)
        /\ i - 1 \in 0..Len(ss) /\ j - 1 \in 0..Len(ss) /\ j - 1 <= i - 1
    BY <1>1
  <2>2. End(ss, i - 1) < n /\ End(ss, i) <= n
    OBVIOUS
  <2>3. End(ss, j) <= End(ss, i) /\ End(ss, j - 1) <= End(ss, i - 1)
    BY <1>2, <2>1
  <2>4. End(ss, j) \in Nat /\ End(ss, i) \in Nat /\ End(ss, j - 1) \in Nat /\ End(ss, i - 1) \in Nat
    BY <1>2, <2>1
  <2>5. End(ss, j - 1) < n /\ End(ss, j) <= n
    BY <2>2, <2>3, <2>4
  <2> QED
    BY <1>1, <2>1, <2>5
<1>4. PICK k \in 0..Len(ss) : W = 1..k /\ Cardinality(W) = k
  <2> HIDE DEF W
  <2> QED
    BY <1>1, <1>3, PrefixSet
<1>5. Whole(ss, n) = k
  BY <1>4 DEF Whole
<1>6. End(ss, k) <= n /\ End(ss, k) \in Nat
  <2>1. CASE k = 0
    BY <1>2, <2>1
  <2>2. CASE k # 0
    <3>1. k \in W
      BY <1>4, <2>2
    <3> QED
      BY <1>2, <3>1
  <2> QED
    BY <2>1, <2>2
<1>7. CASE k = Len(ss)
  BY <1>5, <1>7 DEF Part
<1>8. CASE k # Len(ss)
  <2>1. k + 1 \in 1..Len(ss) /\ k + 1 \notin W /\ (k + 1) - 1 = k /\ k \in 0..(Len(ss) - 1) /\ k < Len(ss)
    <3> HIDE DEF W
    <3>1. k \in Nat /\ k <= Len(ss)
      BY <1>1
    <3>2. k + 1 \in 1..Len(ss) /\ k + 1 \notin 1..k /\ (k + 1) - 1 = k /\ k \in 0..(Len(ss) - 1) /\ k < Len(ss)
      <4> DEFINE m == Len(ss)
      <4>1. m \in Nat /\ k <= m /\ k # m
        BY <1>1, <1>8, <3>1
      <4> HIDE DEF m
      <4>2. k + 1 \in 1..m /\ k \in 0..(m - 1) /\ k < m
        BY <3>1, <4>1
      <4>3. k + 1 \notin 1..k /\ (k + 1) - 1 = k
        BY <3>1
      <4> QED
        BY <4>2, <4>3 DEF m
    <3> QED
      BY <1>4, <3>2, Zenon
  <2>2. ~(End(ss, k) < n) \/ ~(End(ss, k + 1) <= n)
    BY <1>1, <2>1
  <2>3. Part(ss, n) = n - End(ss, k)
    BY <1>5, <1>8 DEF Part
  <2>4. End(ss, k + 1) = End(ss, k) + Len(ss[k + 1].data)
    BY <1>2, <2>1
  <2>5. Len(ss[k + 1].data) \in Nat
    <3>1. ss[k + 1] \in Slice
      BY <2>1
    <3> QED
      BY <3>1, SliceIs
  <2> HIDE DEF W
  <2>6. /\ Part(ss, n) \in Nat
        /\ Part(ss, n) # 0 => Part(ss, n) <= Len(ss[k + 1].data)
    BY <1>6, <2>2, <2>3, <2>4, <2>5
  <2> QED
    BY <1>5, <2>1, <2>6
<1> QED
  BY <1>7, <1>8

\* move(rhs, length) takes over the slices it moves whole and copies a part of
\* the next one; the bytes leave the front of one buffer for the end of the other.
LEMMA MovedIs ==
  ASSUME NEW c \in Context, NEW ss \in Seq(Slice), NEW n \in Nat
  PROVE  LET d == Moved(c, ss, n)
             tt == MovedFrom(ss, n)
             first == SubSeq(ss, 1, Whole(ss, n))
         IN /\ first \in Seq(Slice) /\ tt \in Seq(Slice)
            /\ TakesOver(c, d, first) /\ Balanced(ss, first, tt, None, 0)
            /\ \E x \in Seq(Byte) :
                 /\ Flat(ss) = x \o Flat(tt) /\ Flat(d.slices) = Flat(c.slices) \o x
                 /\ d.length = c.length + Len(x) /\ Len(x) = End(ss, Whole(ss, n)) + Part(ss, n)
<1> DEFINE k == Whole(ss, n)
           p == Part(ss, n)
           x == SubSeq(ss, 1, k)
           left == SubSeq(ss, k + 1, Len(ss))
           e == MoveSlices(c, x)
           d == Moved(c, ss, n)
           tt == MovedFrom(ss, n)
<1>1. k \in 0..Len(ss) /\ p \in Nat /\ (p # 0 => k < Len(ss) /\ p <= Len(ss[k + 1].data))
  BY WholeIs
<1>2. d = IF p = 0 THEN e ELSE AddImpl(e, SubSeq(ss[k + 1].data, 1, p))
  BY Zenon DEF Moved, PartData
<1>3. tt = IF p = 0 THEN left ELSE <<Drained(Head(left), p)>> \o Tail(left)
  BY Zenon DEF MovedFrom
<1> HIDE DEF k, p, d, tt
<1>4. /\ x \in Seq(Slice) /\ left \in Seq(Slice) /\ Len(left) = Len(ss) - k
      /\ Flat(ss) = Flat(x) \o Flat(left)
      /\ \A w : IsWeight(w) => Weigh(w, ss) = Weigh(w, x) + Weigh(w, left)
  BY <1>1, Parted
<1>5. Balanced(ss, x, left, None, 0)
  <2> HIDE DEF x, left
  <2> QED
    BY <1>4, BalancedIs
<1>6. Len(Flat(x)) = End(ss, k) /\ End(ss, k) \in Nat
  BY <1>1, EndIs
<1>7. p # 0 => left[1] = ss[k + 1] /\ left # <<>>
  <2> HIDE DEF k
  <2> SUFFICES ASSUME p # 0
               PROVE  left[1] = ss[k + 1] /\ left # <<>>
    OBVIOUS
  <2>1. 1 \in 1..(Len(ss) - k) /\ Len(ss) - k \in Nat
    BY <1>1
  <2>2. left[1] = ss[k + 1]
    BY <1>1, <2>1, SplitAt
  <2> HIDE DEF left
  <2>3. Len(left) # 0
    BY <1>4, <2>1
  <2> QED
    BY <2>2, <2>3
<1> HIDE DEF x, left
<1>8. /\ TakesOver(c, e, x) /\ Flat(e.slices) = Flat(c.slices) \o Flat(x)
      /\ e.length = c.length + Len(Flat(x))
  BY <1>4, MoveSlicesIs
<1> HIDE DEF e
<1>9. Flat(x) \in Seq(Byte) /\ Flat(c.slices) \in Seq(Byte) /\ c.length \in Int /\ <<>> \in Seq(Slice)
  <2>1. <<>> \in Seq(Slice)
    OBVIOUS
  <2> QED
    BY <1>4, <2>1, DebtType, FlatType
<1>10. CASE p = 0
  <2>1. d = e /\ tt = left
    BY <1>2, <1>3, <1>10, Zenon
  <2>2. Len(Flat(x)) = End(ss, k) + p
    BY <1>6, <1>10
  <2>3. /\ x \in Seq(Slice) /\ tt \in Seq(Slice) /\ TakesOver(c, d, x) /\ Balanced(ss, x, tt, None, 0)
        /\ Flat(ss) = Flat(x) \o Flat(tt) /\ Flat(d.slices) = Flat(c.slices) \o Flat(x)
        /\ d.length = c.length + Len(Flat(x))
    BY <1>4, <1>5, <1>8, <2>1, Zenon
  <2> QED
    BY <1>9, <2>2, <2>3, Zenon DEF d, tt, x, k, p
<1>11. CASE p # 0
  <2> DEFINE s == Head(left)
             y == SubSeq(s.data, 1, p)
             z == Flat(x) \o y
  <2>1. s = ss[k + 1] /\ s \in Slice /\ left # <<>>
    BY <1>4, <1>7, <1>11, Ends
  <2>2. p \in 0..Len(s.data) /\ s.data \in Seq(Byte)
    <3> HIDE DEF s
    <3>1. s.data \in Seq(Byte) /\ Len(s.data) \in Nat
      BY <2>1, SliceIs
    <3> QED
      BY <1>1, <1>11, <2>1, <3>1
  <2>3. tt = <<Drained(Head(left), p)>> \o Tail(left)
    BY <1>3, <1>11, Zenon
  <2>4. /\ tt \in Seq(Slice)
        /\ Flat(left) = y \o Flat(tt)
        /\ \A a : Weigh(ChargeOf(a), tt) = Weigh(ChargeOf(a), left)
        /\ \A t : Weigh(MarksOf(t), tt) = Weigh(MarksOf(t), left)
    BY <1>4, <2>1, <2>2, <2>3, FrontDrained, Zenon
  <2>5. y \in Seq(Byte) /\ Len(y) = p
    <3> HIDE DEF s
    <3> QED
      BY <2>2, BytesSplit
  <2>6. d = AddImpl(e, y)
    BY <1>2, <1>11, <2>1, Zenon
  <2>7. e \in Context
    BY <1>8 DEF TakesOver
  <2> HIDE DEF y, s
  <2>8. TakesOver(e, d, <<>>) /\ Flat(d.slices) = Flat(e.slices) \o y /\ d.length = e.length + Len(y)
    BY <2>5, <2>6, <2>7, AddImplIs
  <2>9. TakesOver(c, d, x)
    BY <1>4, <1>8, <2>8, TakesNothingAfter
  <2>10. Balanced(ss, x, tt, None, 0)
    BY <1>5, <2>4 DEF Balanced
  <2>11. \A u, v, w \in Seq(Byte) : (u \o v) \o w = u \o (v \o w)
    BY Concatenation, Zenon
  <2>12. z \in Seq(Byte) /\ Len(z) = Len(Flat(x)) + Len(y)
    BY <1>9, <2>5, Concatenation, Zenon
  <2>13. Flat(ss) = z \o Flat(tt)
    <3>1. Flat(tt) \in Seq(Byte)
      BY <2>4, FlatType
    <3>2. (Flat(x) \o y) \o Flat(tt) = Flat(x) \o (y \o Flat(tt))
      BY <1>9, <2>5, <2>11, <3>1, Zenon
    <3> QED
      BY <1>4, <2>4, <3>2, Zenon
  <2>14. Flat(d.slices) = Flat(c.slices) \o z
    <3>1. (Flat(c.slices) \o Flat(x)) \o y = Flat(c.slices) \o (Flat(x) \o y)
      BY <1>9, <2>5, <2>11, Zenon
    <3> QED
      BY <1>8, <2>8, <3>1, Zenon
  <2> HIDE DEF z
  <2>15. d.length = c.length + Len(z) /\ Len(z) = End(ss, k) + p
    <3>1. d.length = (c.length + Len(Flat(x))) + Len(y) /\ Len(Flat(x)) \in Nat /\ Len(y) \in Nat
      BY <1>6, <1>8, <2>5, <2>8, <1>1, Zenon
    <3> QED
      BY <1>6, <1>9, <2>5, <2>12, <3>1
  <2> QED
    BY <1>4, <2>4, <2>9, <2>10, <2>12, <2>13, <2>14, <2>15, Zenon DEF d, tt, x, k, p
<1> QED
  BY <1>10, <1>11

------------------------------------------------------------------------------
(* Sums over the buffers *)

\* As many pairs <<b, i>> as w counts for b, for every b in B.
Rows(w, B) == UNION {{b} \X (1..w[b]) : b \in B}

\* There are finitely many.
LEMMA RowsFinite ==
  ASSUME NEW w, NEW B, IsFiniteSet(B), \A b \in B : w[b] \in Nat
  PROVE  IsFiniteSet(Rows(w, B)) /\ Cardinality(Rows(w, B)) \in Nat
<1> DEFINE row(b) == {b} \X (1..w[b])
           R == {row(b) : b \in B}
           f == [b \in B |-> row(b)]
<1>1. f \in Surjection(B, R)
  BY DEF Surjection
<1>2. IsFiniteSet(R)
  <2> HIDE DEF f, R
  <2> QED
    BY <1>1, FS_Surjection
<1>3. ASSUME NEW T \in R
      PROVE  IsFiniteSet(T)
  <2>1. PICK b \in B : T = row(b)
    OBVIOUS
  <2>2. IsFiniteSet({b}) /\ IsFiniteSet(1..w[b])
    <3>1. w[b] \in Int /\ 1 \in Int
      OBVIOUS
    <3> QED
      BY <3>1, FS_Singleton, FS_Interval
  <2>3. IsFiniteSet({b} \X (1..w[b]))
    BY <2>2, FS_Product
  <2> QED
    BY <2>1, <2>3
<1> HIDE DEF R
<1>4. IsFiniteSet(UNION R)
  BY <1>2, <1>3, FS_UNION
<1>5. Cardinality(UNION R) \in Nat
  BY <1>4, FS_CardinalityType
<1> QED
  BY <1>4, <1>5 DEF R, Rows

\* One buffer's share of a sum.
LEMMA OverallSplit ==
  ASSUME NEW w \in [Buffers -> Nat], NEW b \in Buffers
  PROVE  /\ Cardinality(Rows(w, Buffers \ {b})) \in Nat
         /\ Overall(w) = Cardinality(Rows(w, Buffers \ {b})) + w[b]
<1> DEFINE B == Buffers \ {b}
           x == Rows(w, B)
           y == {b} \X (1..w[b])
<1>1. IsFiniteSet(Buffers) /\ IsFiniteSet(B)
  BY BufferAssumption, FS_RemoveElement DEF BufferAssumption
<1>2. IsFiniteSet(x) /\ Cardinality(x) \in Nat
  <2>1. \A u \in B : w[u] \in Nat
    OBVIOUS
  <2> HIDE DEF B
  <2> QED
    BY <1>1, <2>1, RowsFinite
<1>3. IsFiniteSet(y) /\ Cardinality(y) = w[b]
  <2>1. IsFiniteSet({b}) /\ Cardinality({b}) = 1
    BY FS_Singleton
  <2>2. w[b] \in Int /\ 1 \in Int /\ w[b] \in Nat
    OBVIOUS
  <2>3. IsFiniteSet(1..w[b]) /\ Cardinality(1..w[b]) = w[b]
    <3>1. IsFiniteSet(1..w[b]) /\ Cardinality(1..w[b]) = IF 1 > w[b] THEN 0 ELSE w[b] - 1 + 1
      BY <2>2, FS_Interval
    <3> QED
      BY <2>2, <3>1
  <2>4. IsFiniteSet({b} \X (1..w[b])) /\ Cardinality({b} \X (1..w[b])) = Cardinality({b}) * Cardinality(1..w[b])
    BY <2>1, <2>3, FS_Product
  <2> QED
    BY <2>1, <2>2, <2>3, <2>4
<1>4. x \cap y = {}
  BY DEF Rows
<1>5. Rows(w, Buffers) = x \cup y
  BY DEF Rows
<1>6. Overall(w) = Cardinality(x \cup y)
  BY <1>5 DEF Overall, Rows
<1> HIDE DEF x, y
<1>7. Cardinality(x \cup y) = Cardinality(x) + Cardinality(y) - Cardinality(x \cap y)
  BY <1>2, <1>3, FS_Union
<1>8. Cardinality(x \cap y) = 0
  BY <1>4, FS_EmptySet
<1>9. Overall(w) = Cardinality(x) + w[b]
  BY <1>2, <1>3, <1>6, <1>7, <1>8
<1> QED
  BY <1>2, <1>9 DEF x

\* A sum is a number.
LEMMA OverallType ==
  ASSUME NEW w \in [Buffers -> Nat]
  PROVE  Overall(w) \in Nat
<1>1. IsFiniteSet(Buffers) /\ \A b \in Buffers : w[b] \in Nat
  BY BufferAssumption DEF BufferAssumption
<1> QED
  BY <1>1, RowsFinite DEF Overall, Rows

\* One share changes.
LEMMA OverallChanged ==
  ASSUME NEW v \in [Buffers -> Nat], NEW w \in [Buffers -> Nat], NEW b \in Buffers,
         \A x \in Buffers \ {b} : w[x] = v[x]
  PROVE  Overall(w) = (Overall(v) - v[b]) + w[b]
<1>1. Rows(v, Buffers \ {b}) = Rows(w, Buffers \ {b})
  BY DEF Rows
<1> DEFINE m == Cardinality(Rows(v, Buffers \ {b}))
<1>2. m \in Nat /\ Overall(v) = m + v[b]
  BY OverallSplit
<1>3. Overall(w) = m + w[b]
  BY <1>1, OverallSplit
<1>4. v[b] \in Nat /\ w[b] \in Nat
  OBVIOUS
<1> HIDE DEF m
<1> QED
  BY <1>2, <1>3, <1>4

\* Two shares change.
LEMMA OverallChangedTwice ==
  ASSUME NEW v \in [Buffers -> Nat], NEW w \in [Buffers -> Nat], NEW b \in Buffers, NEW r \in Buffers,
         b # r, \A x \in Buffers \ {b, r} : w[x] = v[x]
  PROVE  Overall(w) = (((Overall(v) - v[b]) + w[b]) - v[r]) + w[r]
<1> DEFINE u == [v EXCEPT ![b] = w[b]]
<1>1. u \in [Buffers -> Nat] /\ u[b] = w[b] /\ u[r] = v[r]
  OBVIOUS
<1>2. (\A x \in Buffers \ {b} : u[x] = v[x]) /\ (\A x \in Buffers \ {r} : w[x] = u[x])
  OBVIOUS
<1> HIDE DEF u
<1>3. Overall(u) = (Overall(v) - v[b]) + u[b]
  BY <1>1, <1>2, OverallChanged
<1>4. Overall(w) = (Overall(u) - u[r]) + w[r]
  BY <1>1, <1>2, OverallChanged
<1> QED
  BY <1>1, <1>3, <1>4

\* Nothing in any buffer.
LEMMA OverallNone ==
  ASSUME NEW w \in [Buffers -> Nat], \A b \in Buffers : w[b] = 0
  PROVE  Overall(w) = 0
<1>1. Rows(w, Buffers) = {}
  <2>1. \A b \in Buffers : 1..w[b] = {}
    OBVIOUS
  <2> QED
    BY <2>1 DEF Rows
<1> QED
  BY <1>1, FS_EmptySet DEF Overall, Rows
------------------------------------------------------------------------------
(* The buffers together *)

\* What account a has been charged for the slices ss[b] of each buffer b, and
\* how often tracker t is attached to them.
Charges(ss, a) == [b \in Buffers |-> Weigh(ChargeOf(a), ss[b])]
Markings(ss, t) == [b \in Buffers |-> Weigh(MarksOf(t), ss[b])]

AllSlices == [Buffers -> Seq(Slice)]

\* They are numbers for each buffer.
LEMMA SharesType ==
  ASSUME NEW ss \in AllSlices
  PROVE  /\ \A a : Charges(ss, a) \in [Buffers -> Nat] /\ Overall(Charges(ss, a)) \in Nat
         /\ \A t : Markings(ss, t) \in [Buffers -> Nat] /\ Overall(Markings(ss, t)) \in Nat
<1>1. \A b \in Buffers : ss[b] \in Seq(Slice)
  BY DEF AllSlices
<1>2. ASSUME NEW a
      PROVE  Charges(ss, a) \in [Buffers -> Nat]
  <2>1. \A b \in Buffers : Weigh(ChargeOf(a), ss[b]) \in Nat
    BY <1>1, SliceSums, Zenon
  <2> QED
    BY <2>1 DEF Charges
<1>3. ASSUME NEW t
      PROVE  Markings(ss, t) \in [Buffers -> Nat]
  <2>1. \A b \in Buffers : Weigh(MarksOf(t), ss[b]) \in Nat
    BY <1>1, SliceSums, Zenon
  <2> QED
    BY <2>1 DEF Markings
<1> QED
  BY <1>2, <1>3, OverallType, Zenon

\* A buffer takes over the slices rr: what the accounts are charged beyond
\* the slices of all buffers falls, and the trackers that have run or are
\* attached grow, by what rr brings.
LEMMA OneBuffer ==
  ASSUME NEW ss \in AllSlices, NEW b \in Buffers, NEW c \in Context, NEW d, NEW rr \in Seq(Slice),
         c.slices = ss[b], TakesOver(c, d, rr), NEW zz \in AllSlices,
         zz[b] = d.slices, \A x \in Buffers \ {b} : zz[x] = ss[x]
  PROVE  /\ \A a \in Accounts : d.balance[a] - Overall(Charges(zz, a)) =
              (c.balance[a] - Overall(Charges(ss, a))) - Weigh(ChargeOf(a), rr)
         /\ \A t \in Callbacks : d.ran[t] + Overall(Markings(zz, t)) =
              (c.ran[t] + Overall(Markings(ss, t))) + Weigh(MarksOf(t), rr)
<1>0. d \in Context
  BY DEF TakesOver
<1>1. d.slices \in Seq(Slice) /\ ss[b] \in Seq(Slice)
  BY <1>0, DebtType, Zenon DEF AllSlices
<1>2. zz \in AllSlices /\ zz[b] = d.slices /\ \A x \in Buffers \ {b} : zz[x] = ss[x]
  OBVIOUS
<1>3. ASSUME NEW a \in Accounts
      PROVE  d.balance[a] - Overall(Charges(zz, a)) =
               (c.balance[a] - Overall(Charges(ss, a))) - Weigh(ChargeOf(a), rr)
  <2>1. /\ Charges(ss, a) \in [Buffers -> Nat] /\ Charges(zz, a) \in [Buffers -> Nat]
        /\ Overall(Charges(ss, a)) \in Nat /\ Overall(Charges(zz, a)) \in Nat
    BY <1>2, SharesType, Zenon
  <2>2. /\ \A x \in Buffers \ {b} : Charges(zz, a)[x] = Charges(ss, a)[x]
        /\ Charges(zz, a)[b] = Weigh(ChargeOf(a), d.slices)
        /\ Charges(ss, a)[b] = Weigh(ChargeOf(a), c.slices)
    BY <1>2, Zenon DEF Charges
  <2>3. Overall(Charges(zz, a)) =
          (Overall(Charges(ss, a)) - Weigh(ChargeOf(a), c.slices)) + Weigh(ChargeOf(a), d.slices)
    <3>1. Overall(Charges(zz, a)) = (Overall(Charges(ss, a)) - Charges(ss, a)[b]) + Charges(zz, a)[b]
      BY <2>1, <2>2, OverallChanged, Zenon
    <3> QED
      BY <3>1, <2>2, Zenon
  <2>4. d.balance[a] - Weigh(ChargeOf(a), d.slices) =
          (c.balance[a] - Weigh(ChargeOf(a), c.slices)) - Weigh(ChargeOf(a), rr)
    BY Zenon DEF TakesOver, Debt
  <2>5. d.balance[a] \in Int /\ c.balance[a] \in Int
    BY <1>0, DebtType, Zenon
  <2>6. /\ Weigh(ChargeOf(a), d.slices) \in Int /\ Weigh(ChargeOf(a), c.slices) \in Int
        /\ Weigh(ChargeOf(a), rr) \in Int
    BY <1>1, SliceSums, Zenon
  <2>7. Overall(Charges(ss, a)) \in Int /\ Overall(Charges(zz, a)) \in Int
    BY <2>1
  <2> DEFINE u == d.balance[a]
             v == c.balance[a]
             z == Overall(Charges(zz, a))
             o == Overall(Charges(ss, a))
             x == Weigh(ChargeOf(a), c.slices)
             y == Weigh(ChargeOf(a), d.slices)
             n == Weigh(ChargeOf(a), rr)
  <2>8. u \in Int /\ v \in Int /\ z \in Int /\ o \in Int /\ x \in Int /\ y \in Int /\ n \in Int
    BY <2>5, <2>6, <2>7, Zenon
  <2>9. z = (o - x) + y /\ u - y = (v - x) - n
    BY <2>3, <2>4, Zenon
  <2> HIDE DEF u, v, z, o, x, y, n
  <2>10. u - z = (v - o) - n
    BY <2>8, <2>9
  <2> QED
    BY <2>10 DEF u, v, z, o, n
<1>4. ASSUME NEW t \in Callbacks
      PROVE  d.ran[t] + Overall(Markings(zz, t)) =
               (c.ran[t] + Overall(Markings(ss, t))) + Weigh(MarksOf(t), rr)
  <2>1. /\ Markings(ss, t) \in [Buffers -> Nat] /\ Markings(zz, t) \in [Buffers -> Nat]
        /\ Overall(Markings(ss, t)) \in Nat /\ Overall(Markings(zz, t)) \in Nat
    BY <1>2, SharesType, Zenon
  <2>2. /\ \A x \in Buffers \ {b} : Markings(zz, t)[x] = Markings(ss, t)[x]
        /\ Markings(zz, t)[b] = Weigh(MarksOf(t), d.slices)
        /\ Markings(ss, t)[b] = Weigh(MarksOf(t), c.slices)
    BY <1>2, Zenon DEF Markings
  <2>3. Overall(Markings(zz, t)) =
          (Overall(Markings(ss, t)) - Weigh(MarksOf(t), c.slices)) + Weigh(MarksOf(t), d.slices)
    <3>1. Overall(Markings(zz, t)) = (Overall(Markings(ss, t)) - Markings(ss, t)[b]) + Markings(zz, t)[b]
      BY <2>1, <2>2, OverallChanged, Zenon
    <3> QED
      BY <3>1, <2>2, Zenon
  <2>4. d.ran[t] + Weigh(MarksOf(t), d.slices) =
          (c.ran[t] + Weigh(MarksOf(t), c.slices)) + Weigh(MarksOf(t), rr)
    BY Zenon DEF TakesOver, Marks
  <2>5. d.ran[t] \in Int /\ c.ran[t] \in Int
    BY <1>0, DebtType, Zenon
  <2>6. /\ Weigh(MarksOf(t), d.slices) \in Int /\ Weigh(MarksOf(t), c.slices) \in Int
        /\ Weigh(MarksOf(t), rr) \in Int
    BY <1>1, SliceSums, Zenon
  <2>7. Overall(Markings(ss, t)) \in Int /\ Overall(Markings(zz, t)) \in Int
    BY <2>1
  <2> DEFINE u == d.ran[t]
             v == c.ran[t]
             z == Overall(Markings(zz, t))
             o == Overall(Markings(ss, t))
             x == Weigh(MarksOf(t), c.slices)
             y == Weigh(MarksOf(t), d.slices)
             n == Weigh(MarksOf(t), rr)
  <2>8. u \in Int /\ v \in Int /\ z \in Int /\ o \in Int /\ x \in Int /\ y \in Int /\ n \in Int
    BY <2>5, <2>6, <2>7, Zenon
  <2>9. z = (o - x) + y /\ u + y = (v + x) + n
    BY <2>3, <2>4, Zenon
  <2> HIDE DEF u, v, z, o, x, y, n
  <2>10. u + z = (v + o) + n
    BY <2>8, <2>9
  <2> QED
    BY <2>10 DEF u, v, z, o, n
<1> QED
  BY <1>3, <1>4

\* Another buffer gives up the slices rr and keeps tt: nothing changes overall.
LEMMA TwoBuffers ==
  ASSUME NEW ss \in AllSlices, NEW b \in Buffers, NEW r \in Buffers, b # r,
         NEW c \in Context, NEW d, NEW rr \in Seq(Slice), NEW tt \in Seq(Slice),
         c.slices = ss[b], TakesOver(c, d, rr), Balanced(ss[r], rr, tt, None, 0), NEW zz \in AllSlices,
         zz[b] = d.slices, zz[r] = tt, \A x \in Buffers \ {b, r} : zz[x] = ss[x]
  PROVE  /\ \A a \in Accounts : d.balance[a] - Overall(Charges(zz, a)) =
              c.balance[a] - Overall(Charges(ss, a))
         /\ \A t \in Callbacks : d.ran[t] + Overall(Markings(zz, t)) =
              c.ran[t] + Overall(Markings(ss, t))
<1>0. d \in Context /\ ss[r] \in Seq(Slice)
  BY DEF TakesOver, AllSlices
<1> DEFINE mm == [ss EXCEPT ![b] = d.slices]
<1>1. /\ mm \in AllSlices
      /\ \A a \in Accounts : d.balance[a] - Overall(Charges(mm, a)) =
           (c.balance[a] - Overall(Charges(ss, a))) - Weigh(ChargeOf(a), rr)
      /\ \A t \in Callbacks : d.ran[t] + Overall(Markings(mm, t)) =
           (c.ran[t] + Overall(Markings(ss, t))) + Weigh(MarksOf(t), rr)
  <2>1. d.slices \in Seq(Slice)
    BY <1>0, DebtType, Zenon
  <2>2. mm \in AllSlices /\ mm[b] = d.slices /\ \A x \in Buffers \ {b} : mm[x] = ss[x]
    BY <2>1 DEF AllSlices
  <2>3. \A zz1 \in AllSlices :
          zz1[b] = d.slices /\ (\A x \in Buffers \ {b} : zz1[x] = ss[x]) =>
            /\ \A a \in Accounts : d.balance[a] - Overall(Charges(zz1, a)) =
                 (c.balance[a] - Overall(Charges(ss, a))) - Weigh(ChargeOf(a), rr)
            /\ \A t \in Callbacks : d.ran[t] + Overall(Markings(zz1, t)) =
                 (c.ran[t] + Overall(Markings(ss, t))) + Weigh(MarksOf(t), rr)
    BY OneBuffer
  <2> HIDE DEF mm
  <2> QED
    BY <2>2, <2>3, Zenon
<1>2. mm[r] = ss[r] /\ zz[r] = tt /\ \A x \in Buffers \ {r} : zz[x] = mm[x]
  BY DEF AllSlices
<1> HIDE DEF mm
<1>3. ASSUME NEW a \in Accounts
      PROVE  d.balance[a] - Overall(Charges(zz, a)) = c.balance[a] - Overall(Charges(ss, a))
  <2>1. /\ Charges(mm, a) \in [Buffers -> Nat] /\ Charges(zz, a) \in [Buffers -> Nat]
        /\ Overall(Charges(ss, a)) \in Nat /\ Overall(Charges(mm, a)) \in Nat /\ Overall(Charges(zz, a)) \in Nat
    BY <1>1, <1>2, SharesType, Zenon
  <2>2. /\ \A x \in Buffers \ {r} : Charges(zz, a)[x] = Charges(mm, a)[x]
        /\ Charges(zz, a)[r] = Weigh(ChargeOf(a), tt)
        /\ Charges(mm, a)[r] = Weigh(ChargeOf(a), ss[r])
    BY <1>2, Zenon DEF Charges
  <2>3. Overall(Charges(zz, a)) =
          (Overall(Charges(mm, a)) - Weigh(ChargeOf(a), ss[r])) + Weigh(ChargeOf(a), tt)
    <3>1. Overall(Charges(zz, a)) = (Overall(Charges(mm, a)) - Charges(mm, a)[r]) + Charges(zz, a)[r]
      BY <2>1, <2>2, OverallChanged, Zenon
    <3> QED
      BY <3>1, <2>2, Zenon
  <2>4. Weigh(ChargeOf(a), ss[r]) = (Weigh(ChargeOf(a), rr) + Weigh(ChargeOf(a), tt)) + (IF a = None THEN 0 ELSE 0)
    BY Zenon DEF Balanced
  <2>5. d.balance[a] - Overall(Charges(mm, a)) =
          (c.balance[a] - Overall(Charges(ss, a))) - Weigh(ChargeOf(a), rr)
    BY <1>1, Zenon
  <2>6. d.balance[a] \in Int /\ c.balance[a] \in Int
    BY <1>0, DebtType, Zenon
  <2>7. /\ Weigh(ChargeOf(a), ss[r]) \in Int /\ Weigh(ChargeOf(a), tt) \in Int
        /\ Weigh(ChargeOf(a), rr) \in Int
    BY <1>0, SliceSums, Zenon
  <2>8. Overall(Charges(ss, a)) \in Int /\ Overall(Charges(mm, a)) \in Int /\ Overall(Charges(zz, a)) \in Int
    BY <2>1
  <2> DEFINE u == d.balance[a]
             v == c.balance[a]
             z == Overall(Charges(zz, a))
             m == Overall(Charges(mm, a))
             o == Overall(Charges(ss, a))
             x == Weigh(ChargeOf(a), ss[r])
             y == Weigh(ChargeOf(a), tt)
             n == Weigh(ChargeOf(a), rr)
  <2>9. /\ u \in Int /\ v \in Int /\ z \in Int /\ m \in Int /\ o \in Int
        /\ x \in Int /\ y \in Int /\ n \in Int
    BY <2>6, <2>7, <2>8, Zenon
  <2>10. z = (m - x) + y /\ u - m = (v - o) - n
    BY <2>3, <2>5, Zenon
  <2>11. x = (n + y) + (IF a = None THEN 0 ELSE 0)
    BY <2>4, Zenon
  <2> HIDE DEF u, v, z, m, o, x, y, n
  <2>12. u - z = v - o
    BY <2>9, <2>10, <2>11
  <2> QED
    BY <2>12 DEF u, v, z, o
<1>4. ASSUME NEW t \in Callbacks
      PROVE  d.ran[t] + Overall(Markings(zz, t)) = c.ran[t] + Overall(Markings(ss, t))
  <2>1. /\ Markings(mm, t) \in [Buffers -> Nat] /\ Markings(zz, t) \in [Buffers -> Nat]
        /\ Overall(Markings(ss, t)) \in Nat /\ Overall(Markings(mm, t)) \in Nat /\ Overall(Markings(zz, t)) \in Nat
    BY <1>1, <1>2, SharesType, Zenon
  <2>2. /\ \A x \in Buffers \ {r} : Markings(zz, t)[x] = Markings(mm, t)[x]
        /\ Markings(zz, t)[r] = Weigh(MarksOf(t), tt)
        /\ Markings(mm, t)[r] = Weigh(MarksOf(t), ss[r])
    BY <1>2, Zenon DEF Markings
  <2>3. Overall(Markings(zz, t)) =
          (Overall(Markings(mm, t)) - Weigh(MarksOf(t), ss[r])) + Weigh(MarksOf(t), tt)
    <3>1. Overall(Markings(zz, t)) = (Overall(Markings(mm, t)) - Markings(mm, t)[r]) + Markings(zz, t)[r]
      BY <2>1, <2>2, OverallChanged, Zenon
    <3> QED
      BY <3>1, <2>2, Zenon
  <2>4. Weigh(MarksOf(t), ss[r]) = Weigh(MarksOf(t), rr) + Weigh(MarksOf(t), tt)
    BY Zenon DEF Balanced
  <2>5. d.ran[t] + Overall(Markings(mm, t)) =
          (c.ran[t] + Overall(Markings(ss, t))) + Weigh(MarksOf(t), rr)
    BY <1>1, Zenon
  <2>6. d.ran[t] \in Int /\ c.ran[t] \in Int
    BY <1>0, DebtType, Zenon
  <2>7. /\ Weigh(MarksOf(t), ss[r]) \in Int /\ Weigh(MarksOf(t), tt) \in Int
        /\ Weigh(MarksOf(t), rr) \in Int
    BY <1>0, SliceSums, Zenon
  <2>8. Overall(Markings(ss, t)) \in Int /\ Overall(Markings(mm, t)) \in Int /\ Overall(Markings(zz, t)) \in Int
    BY <2>1
  <2> DEFINE u == d.ran[t]
             v == c.ran[t]
             z == Overall(Markings(zz, t))
             m == Overall(Markings(mm, t))
             o == Overall(Markings(ss, t))
             x == Weigh(MarksOf(t), ss[r])
             y == Weigh(MarksOf(t), tt)
             n == Weigh(MarksOf(t), rr)
  <2>9. /\ u \in Int /\ v \in Int /\ z \in Int /\ m \in Int /\ o \in Int
        /\ x \in Int /\ y \in Int /\ n \in Int
    BY <2>6, <2>7, <2>8, Zenon
  <2>10. z = (m - x) + y /\ u + m = (v + o) + n
    BY <2>3, <2>5, Zenon
  <2>11. x = n + y
    BY <2>4, Zenon
  <2> HIDE DEF u, v, z, m, o, x, y, n
  <2>12. u + z = v + o
    BY <2>9, <2>10, <2>11
  <2> QED
    BY <2>12 DEF u, v, z, o
<1> QED
  BY <1>3, <1>4, Zenon

------------------------------------------------------------------------------
(* The invariant *)

\* The slices, lengths and accounts.
Memory ==
  /\ slices \in AllSlices /\ length \in [Buffers -> Int] /\ balance \in [Accounts -> Int]
  /\ ran \in [Callbacks -> Nat] /\ written \in BOOLEAN
  /\ \A b \in Buffers : length[b] = Len(Flat(slices[b]))
  /\ \A a \in Accounts : balance[a] = Overall(Charges(slices, a))

\* The drain trackers.
Calls ==
  \A t \in Callbacks : ran[t] + Overall(Markings(slices, t)) = IF tracked[t] = -1 THEN 0 ELSE 1

\* The types of the other variables.
Others ==
  /\ account \in [Buffers -> Payer]
  /\ freeList \in 0..MaxSlices
  /\ next \in 1..(MaxBytes + 1)
  /\ tracked \in [Callbacks -> Nat \cup {-1}]
  /\ copied \in SUBSET Nat /\ detached \in SUBSET Nat

Inv == Memory /\ Calls /\ Others

\* A buffer as the methods see it.
LEMMA BufferIs ==
  ASSUME Inv, NEW b \in Buffers
  PROVE  /\ Buffer(b) \in Context /\ Buffer(b).slices = slices[b] /\ Buffer(b).length = length[b]
         /\ Buffer(b).balance = balance /\ Buffer(b).ran = ran
         /\ slices[b] \in Seq(Slice) /\ length[b] = Len(Flat(slices[b]))
<1>1. /\ slices[b] \in Seq(Slice) /\ length[b] \in Int /\ account[b] \in Payer
      /\ balance \in [Accounts -> Int] /\ ran \in [Callbacks -> Nat] /\ written \in BOOLEAN
  BY DEF Inv, Memory, Others, AllSlices
<1>2. Buffer(b) \in Context
  BY <1>1 DEF Buffer, Context
<1>3. /\ Buffer(b).slices = slices[b] /\ Buffer(b).length = length[b]
      /\ Buffer(b).balance = balance /\ Buffer(b).ran = ran
  BY DEF Buffer
<1>4. length[b] = Len(Flat(slices[b]))
  BY Zenon DEF Inv, Memory
<1> QED
  BY <1>1, <1>2, <1>3, <1>4, Zenon

\* A method of b that takes over the slices rr, which charge no account.
LEMMA PutIs ==
  ASSUME Inv, NEW b \in Buffers, NEW d, NEW rr \in Seq(Slice), TakesOver(Buffer(b), d, rr),
         \A a \in Accounts : Weigh(ChargeOf(a), rr) = 0,
         d.length = Len(Flat(d.slices)), Put(b, d)
  PROVE  /\ Memory'
         /\ \A t \in Callbacks : ran'[t] + Overall(Markings(slices', t)) =
              (ran[t] + Overall(Markings(slices, t))) + Weigh(MarksOf(t), rr)
<1>0. /\ Buffer(b) \in Context /\ Buffer(b).slices = slices[b]
      /\ Buffer(b).balance = balance /\ Buffer(b).ran = ran
  BY BufferIs, Zenon
<1>1. /\ slices \in AllSlices /\ length \in [Buffers -> Int] /\ balance \in [Accounts -> Int]
      /\ ran \in [Callbacks -> Nat]
      /\ \A x \in Buffers : length[x] = Len(Flat(slices[x]))
      /\ \A a \in Accounts : balance[a] = Overall(Charges(slices, a))
  BY Zenon DEF Inv, Memory
<1>2. d \in Context
  BY Zenon DEF TakesOver
<1>3. d.slices \in Seq(Slice) /\ d.length \in Int /\ d.balance \in [Accounts -> Int]
      /\ d.ran \in [Callbacks -> Nat] /\ d.written \in BOOLEAN
  BY <1>2 DEF Context
<1>4. slices' \in AllSlices /\ slices'[b] = d.slices /\ \A x \in Buffers \ {b} : slices'[x] = slices[x]
  <2>1. slices' = [slices EXCEPT ![b] = d.slices]
    BY Zenon DEF Put
  <2> QED
    BY <2>1, <1>1, <1>3 DEF AllSlices
<1>5. length' \in [Buffers -> Int] /\ length'[b] = d.length /\ \A x \in Buffers \ {b} : length'[x] = length[x]
  <2>1. length' = [length EXCEPT ![b] = d.length]
    BY Zenon DEF Put
  <2> QED
    BY <2>1, <1>1, <1>3
<1>6. balance' = d.balance /\ ran' = d.ran /\ written' = d.written
  BY Zenon DEF Put
<1>7. /\ \A a \in Accounts : d.balance[a] - Overall(Charges(slices', a)) =
           (Buffer(b).balance[a] - Overall(Charges(slices, a))) - Weigh(ChargeOf(a), rr)
      /\ \A t \in Callbacks : d.ran[t] + Overall(Markings(slices', t)) =
           (Buffer(b).ran[t] + Overall(Markings(slices, t))) + Weigh(MarksOf(t), rr)
  <2> DEFINE c == Buffer(b)
             zz == slices'
  <2>1. c \in Context /\ c.slices = slices[b] /\ TakesOver(c, d, rr) /\ slices \in AllSlices
    BY <1>0, <1>1, Zenon
  <2>2. zz \in AllSlices /\ zz[b] = d.slices /\ \A x \in Buffers \ {b} : zz[x] = slices[x]
    BY <1>4, Zenon
  <2> HIDE DEF c, zz
  <2>3. /\ \A a \in Accounts : d.balance[a] - Overall(Charges(zz, a)) =
             (c.balance[a] - Overall(Charges(slices, a))) - Weigh(ChargeOf(a), rr)
        /\ \A t \in Callbacks : d.ran[t] + Overall(Markings(zz, t)) =
             (c.ran[t] + Overall(Markings(slices, t))) + Weigh(MarksOf(t), rr)
    BY <2>1, <2>2, OneBuffer
  <2> QED
    BY <2>3, Zenon DEF c, zz
<1>8. \A x \in Buffers : length'[x] = Len(Flat(slices'[x]))
  BY <1>1, <1>4, <1>5, Zenon
<1>9. ASSUME NEW a \in Accounts
      PROVE  balance'[a] = Overall(Charges(slices', a))
  <2>1. balance'[a] - Overall(Charges(slices', a)) = (balance[a] - Overall(Charges(slices, a))) - 0
    BY <1>0, <1>6, <1>7, Zenon
  <2>2. balance[a] = Overall(Charges(slices, a))
    BY <1>1, Zenon
  <2>3. Overall(Charges(slices, a)) \in Nat /\ Overall(Charges(slices', a)) \in Nat
    BY <1>1, <1>4, SharesType, Zenon
  <2>4. balance'[a] \in Int
    BY <1>3, <1>6
  <2> DEFINE u == balance'[a]
             v == balance[a]
             o == Overall(Charges(slices, a))
             z == Overall(Charges(slices', a))
  <2>5. u - z = (v - o) - 0 /\ v = o /\ o \in Nat /\ z \in Nat /\ u \in Int
    BY <2>1, <2>2, <2>3, <2>4, Zenon
  <2> HIDE DEF u, v, o, z
  <2>6. u = z
    BY <2>5
  <2> QED
    BY <2>6 DEF u, z
<1>10. \A t \in Callbacks : ran'[t] + Overall(Markings(slices', t)) =
         (ran[t] + Overall(Markings(slices, t))) + Weigh(MarksOf(t), rr)
  BY <1>0, <1>6, <1>7, Zenon
<1>11. balance' \in [Accounts -> Int] /\ ran' \in [Callbacks -> Nat] /\ written' \in BOOLEAN
  BY <1>3, <1>6
<1>12. Memory'
  BY <1>4, <1>5, <1>8, <1>9, <1>11, Zenon DEF Memory
<1> QED
  BY <1>10, <1>12, Zenon

\* A method of b that takes over no slice and adds no tracker.
LEMMA PutNothing ==
  ASSUME Inv, NEW b \in Buffers, NEW d, TakesOver(Buffer(b), d, <<>>),
         d.length = Len(Flat(d.slices)), Put(b, d), tracked' = tracked
  PROVE  Memory' /\ Calls'
<1>1. <<>> \in Seq(Slice) /\ (\A a \in Accounts : Weigh(ChargeOf(a), <<>>) = 0)
  BY SliceSums
<1>2. /\ Memory'
      /\ \A t \in Callbacks : ran'[t] + Overall(Markings(slices', t)) =
           (ran[t] + Overall(Markings(slices, t))) + Weigh(MarksOf(t), <<>>)
  BY <1>1, PutIs, Zenon
<1>3. ASSUME NEW t \in Callbacks
      PROVE  ran'[t] + Overall(Markings(slices', t)) = IF tracked'[t] = -1 THEN 0 ELSE 1
  <2>1. ran[t] + Overall(Markings(slices, t)) = IF tracked[t] = -1 THEN 0 ELSE 1
    BY Zenon DEF Inv, Calls
  <2>2. ran'[t] + Overall(Markings(slices', t)) = (ran[t] + Overall(Markings(slices, t))) + 0
    BY <1>2, SliceSums, Zenon
  <2> DEFINE x == ran[t] + Overall(Markings(slices, t))
             y == ran'[t] + Overall(Markings(slices', t))
  <2>3. x = (IF tracked[t] = -1 THEN 0 ELSE 1) /\ y = x + 0
    BY <2>1, <2>2, Zenon
  <2> HIDE DEF x, y
  <2>4. y = IF tracked'[t] = -1 THEN 0 ELSE 1
    BY <2>3
  <2> QED
    BY <2>4 DEF y
<1>4. Calls'
  BY <1>3, Zenon DEF Calls
<1> QED
  BY <1>2, <1>4, Zenon

\* A method of b that takes over the slices rr of the buffer r, which keeps tt.
LEMMA PutBothIs ==
  ASSUME Inv, NEW b \in Buffers, NEW r \in Buffers, b # r, NEW d,
         NEW rr \in Seq(Slice), NEW tt \in Seq(Slice), NEW n,
         TakesOver(Buffer(b), d, rr), Balanced(slices[r], rr, tt, None, 0),
         d.length = Len(Flat(d.slices)), n = Len(Flat(tt)),
         PutBoth(b, d, r, tt, n), tracked' = tracked
  PROVE  Memory' /\ Calls'
<1>0. /\ Buffer(b) \in Context /\ Buffer(b).slices = slices[b]
      /\ Buffer(b).balance = balance /\ Buffer(b).ran = ran
  BY BufferIs, Zenon
<1>1. /\ slices \in AllSlices /\ length \in [Buffers -> Int] /\ balance \in [Accounts -> Int]
      /\ ran \in [Callbacks -> Nat]
      /\ \A x \in Buffers : length[x] = Len(Flat(slices[x]))
      /\ \A a \in Accounts : balance[a] = Overall(Charges(slices, a))
  BY Zenon DEF Inv, Memory
<1>2. d \in Context
  BY Zenon DEF TakesOver
<1>3. d.slices \in Seq(Slice) /\ d.length \in Int /\ d.balance \in [Accounts -> Int]
      /\ d.ran \in [Callbacks -> Nat] /\ d.written \in BOOLEAN
  BY <1>2 DEF Context
<1>n. n \in Int
  <2>1. Flat(tt) \in Seq(Byte)
    BY FlatType, Zenon
  <2> QED
    BY <2>1
<1>4. /\ slices' \in AllSlices /\ slices'[b] = d.slices /\ slices'[r] = tt
      /\ \A x \in Buffers \ {b, r} : slices'[x] = slices[x]
  <2>1. slices' = [slices EXCEPT ![b] = d.slices, ![r] = tt]
    BY Zenon DEF PutBoth
  <2> QED
    BY <2>1, <1>1, <1>3 DEF AllSlices
<1>5. /\ length' \in [Buffers -> Int] /\ length'[b] = d.length /\ length'[r] = n
      /\ \A x \in Buffers \ {b, r} : length'[x] = length[x]
  <2>1. length' = [length EXCEPT ![b] = d.length, ![r] = n]
    BY Zenon DEF PutBoth
  <2> QED
    BY <2>1, <1>1, <1>3, <1>n
<1>6. balance' = d.balance /\ ran' = d.ran /\ written' = d.written
  BY Zenon DEF PutBoth
<1>7. /\ \A a \in Accounts : d.balance[a] - Overall(Charges(slices', a)) =
           Buffer(b).balance[a] - Overall(Charges(slices, a))
      /\ \A t \in Callbacks : d.ran[t] + Overall(Markings(slices', t)) =
           Buffer(b).ran[t] + Overall(Markings(slices, t))
  <2> DEFINE c == Buffer(b)
             zz == slices'
  <2>1. /\ c \in Context /\ c.slices = slices[b] /\ TakesOver(c, d, rr) /\ slices \in AllSlices
        /\ Balanced(slices[r], rr, tt, None, 0)
    BY <1>0, <1>1, Zenon
  <2>2. /\ zz \in AllSlices /\ zz[b] = d.slices /\ zz[r] = tt
        /\ \A x \in Buffers \ {b, r} : zz[x] = slices[x]
    BY <1>4, Zenon
  <2> HIDE DEF c, zz
  <2>3. /\ \A a \in Accounts : d.balance[a] - Overall(Charges(zz, a)) =
             c.balance[a] - Overall(Charges(slices, a))
        /\ \A t \in Callbacks : d.ran[t] + Overall(Markings(zz, t)) =
             c.ran[t] + Overall(Markings(slices, t))
    BY <2>1, <2>2, TwoBuffers
  <2> QED
    BY <2>3, Zenon DEF c, zz
<1>8. \A x \in Buffers : length'[x] = Len(Flat(slices'[x]))
  BY <1>1, <1>4, <1>5, Zenon
<1>9. ASSUME NEW a \in Accounts
      PROVE  balance'[a] = Overall(Charges(slices', a))
  <2>1. balance'[a] - Overall(Charges(slices', a)) = balance[a] - Overall(Charges(slices, a))
    BY <1>0, <1>6, <1>7, Zenon
  <2>2. balance[a] = Overall(Charges(slices, a))
    BY <1>1, Zenon
  <2>3. Overall(Charges(slices, a)) \in Nat /\ Overall(Charges(slices', a)) \in Nat
    BY <1>1, <1>4, SharesType, Zenon
  <2>4. balance'[a] \in Int
    BY <1>3, <1>6
  <2> DEFINE u == balance'[a]
             v == balance[a]
             o == Overall(Charges(slices, a))
             z == Overall(Charges(slices', a))
  <2>5. u - z = v - o /\ v = o /\ o \in Nat /\ z \in Nat /\ u \in Int
    BY <2>1, <2>2, <2>3, <2>4, Zenon
  <2> HIDE DEF u, v, o, z
  <2>6. u = z
    BY <2>5
  <2> QED
    BY <2>6 DEF u, z
<1>10. ASSUME NEW t \in Callbacks
       PROVE  ran'[t] + Overall(Markings(slices', t)) = IF tracked'[t] = -1 THEN 0 ELSE 1
  <2>1. ran[t] + Overall(Markings(slices, t)) = IF tracked[t] = -1 THEN 0 ELSE 1
    BY Zenon DEF Inv, Calls
  <2>2. ran'[t] + Overall(Markings(slices', t)) = ran[t] + Overall(Markings(slices, t))
    BY <1>0, <1>6, <1>7, Zenon
  <2> QED
    BY <2>1, <2>2, Zenon
<1>11. balance' \in [Accounts -> Int] /\ ran' \in [Callbacks -> Nat] /\ written' \in BOOLEAN
  BY <1>3, <1>6
<1>12. Memory'
  BY <1>4, <1>5, <1>8, <1>9, <1>11, Zenon DEF Memory
<1>13. Calls'
  BY <1>10, Zenon DEF Calls
<1> QED
  BY <1>12, <1>13, Zenon

\* All of another buffer's slices are taken over.
LEMMA AllTaken ==
  ASSUME NEW ss \in Seq(Slice)
  PROVE  Balanced(ss, ss, <<>>, None, 0) /\ Len(Flat(ss)) - Size(ss) = Len(Flat(<<>>))
<1>1. <<>> \in Seq(Slice)
  OBVIOUS
<1>2. \A w : IsWeight(w) => Weigh(w, ss) = Weigh(w, ss) + Weigh(w, <<>>)
  <2> SUFFICES ASSUME NEW w, IsWeight(w)
               PROVE  Weigh(w, ss) = Weigh(w, ss) + Weigh(w, <<>>)
    OBVIOUS
  <2>1. Weigh(w, ss) \in Nat /\ Weigh(w, <<>>) = 0
    BY Zenon DEF IsWeight
  <2> QED
    BY <2>1
<1>3. Balanced(ss, ss, <<>>, None, 0)
  BY <1>1, <1>2, BalancedIs, Zenon
<1>4. Flat(ss) \in Seq(Byte) /\ Size(ss) = Len(Flat(ss))
  BY FlatType, SumsWeigh, Zenon
<1>5. Flat(<<>>) = <<>>
  BY FlatIs, Zenon
<1>6. Len(Flat(ss)) - Size(ss) = Len(Flat(<<>>))
  BY <1>4, <1>5
<1> QED
  BY <1>3, <1>6

\* The bytes that enter.
LEMMA FreshIs ==
  ASSUME Others, NEW n \in Entering
  PROVE  /\ n \in Nat /\ next + n \in 1..(MaxBytes + 1)
         /\ Fresh(n) \in Seq(Byte) /\ Len(Fresh(n)) = n
<1>1. MaxBytes \in Nat /\ next \in 1..(MaxBytes + 1) /\ n \in 0..(MaxBytes - (next - 1))
  BY BufferAssumption, Zenon DEF Others, Entering
<1>2. n \in Nat /\ next + n \in 1..(MaxBytes + 1)
  BY <1>1
<1>3. \A i \in 1..n : next + (i - 1) \in Byte
  BY <1>1 DEF Byte
<1>4. Fresh(n) \in Seq(Byte) /\ Len(Fresh(n)) = n
  BY <1>2, <1>3 DEF Fresh
<1> QED
  BY <1>2, <1>4
------------------------------------------------------------------------------
(* What a step does to the bytes *)

\* The bytes of the buffers that are not in B stay where they are.
Keeps(B) == \A x \in Buffers \ B : Flat(slices'[x]) = Flat(slices[x])

\* n new bytes enter behind or in front of those of b.
Enters(b, n) ==
  /\ n \in Nat /\ n <= MaxBytes /\ next' = next + n /\ Keeps({b})
  /\ \/ Flat(slices'[b]) = Flat(slices[b]) \o Fresh(n)
     \/ Flat(slices'[b]) = Fresh(n) \o Flat(slices[b])

\* Bytes at the front of b leave.
Leaves(b) ==
  /\ next' = next /\ Keeps({b})
  /\ \E x \in Seq(Byte) : Flat(slices[b]) = x \o Flat(slices'[b])

\* Bytes at the front of r go behind those of b.
MovesOver(b, r) ==
  /\ next' = next /\ Keeps({b, r})
  /\ \E x \in Seq(Byte) : /\ Flat(slices[r]) = x \o Flat(slices'[r])
                          /\ Flat(slices'[b]) = Flat(slices[b]) \o x

\* The bytes of r go in front of those of b.
GoesInFront(b, r) ==
  /\ next' = next /\ Keeps({b, r})
  /\ Flat(slices'[r]) = <<>> /\ Flat(slices'[b]) = Flat(slices[r]) \o Flat(slices[b])

\* The bytes of r are copied behind those of b.
Copies(b, r) ==
  /\ next' = next /\ Keeps({b}) /\ Bytes(slices[r]) \subseteq copied'
  /\ Flat(slices'[b]) = Flat(slices[b]) \o Flat(slices[r])

\* Every step does one of these.
Step ==
  \E b \in Buffers :
    \/ \E n \in Nat : Enters(b, n)
    \/ Leaves(b)
    \/ \E r \in Buffers \ {b} : MovesOver(b, r) \/ GoesInFront(b, r) \/ Copies(b, r)

\* The slices after a method of one buffer, and after one of two buffers.
LEMMA PutKeeps ==
  ASSUME Inv, NEW b \in Buffers, NEW d
  PROVE  /\ Put(b, d) => slices'[b] = d.slices /\ Keeps({b})
         /\ \A r \in Buffers : \A tt, n : b # r /\ PutBoth(b, d, r, tt, n) =>
              slices'[b] = d.slices /\ slices'[r] = tt /\ Keeps({b, r})
<1>1. slices \in AllSlices
  BY Zenon DEF Inv, Memory
<1>2. ASSUME Put(b, d)
      PROVE  slices'[b] = d.slices /\ Keeps({b})
  <2>1. slices' = [slices EXCEPT ![b] = d.slices]
    BY <1>2, Zenon DEF Put
  <2>2. slices'[b] = d.slices /\ \A x \in Buffers \ {b} : slices'[x] = slices[x]
    BY <1>1, <2>1 DEF AllSlices
  <2> QED
    BY <2>2, Zenon DEF Keeps
<1>3. ASSUME NEW r \in Buffers, NEW tt, NEW n, b # r, PutBoth(b, d, r, tt, n)
      PROVE  slices'[b] = d.slices /\ slices'[r] = tt /\ Keeps({b, r})
  <2>1. slices' = [slices EXCEPT ![b] = d.slices, ![r] = tt]
    BY <1>3, Zenon DEF PutBoth
  <2>2. slices'[b] = d.slices /\ slices'[r] = tt /\ \A x \in Buffers \ {b, r} : slices'[x] = slices[x]
    BY <1>1, <1>3, <2>1 DEF AllSlices
  <2> QED
    BY <2>2, Zenon DEF Keeps
<1> QED
  BY <1>2, <1>3, Zenon

\* A method that adds n new bytes to b.
LEMMA EnterStep ==
  ASSUME Inv, NEW b \in Buffers, NEW n \in Entering, NEW d,
         TakesOver(Buffer(b), d, <<>>), d.length = Buffer(b).length + Len(Fresh(n)),
         \/ Flat(d.slices) = Flat(Buffer(b).slices) \o Fresh(n)
         \/ Flat(d.slices) = Fresh(n) \o Flat(Buffer(b).slices),
         Put(b, d), next' = next + n, freeList' \in 0..MaxSlices,
         account' = account, tracked' = tracked, copied' = copied, detached' = detached
  PROVE  Inv' /\ Step
<1>1. /\ n \in Nat /\ next + n \in 1..(MaxBytes + 1)
      /\ Fresh(n) \in Seq(Byte) /\ Len(Fresh(n)) = n
  BY FreshIs, Zenon DEF Inv
<1>2. /\ Buffer(b).slices = slices[b] /\ Buffer(b).length = length[b]
      /\ slices[b] \in Seq(Slice) /\ length[b] = Len(Flat(slices[b]))
  BY BufferIs, Zenon
<1>3. Flat(slices[b]) \in Seq(Byte)
  BY <1>2, FlatType, Zenon
<1>4. \/ Flat(d.slices) = Flat(slices[b]) \o Fresh(n)
      \/ Flat(d.slices) = Fresh(n) \o Flat(slices[b])
  BY <1>2, Zenon
<1>5. d.length = Len(Flat(d.slices))
  <2> DEFINE x == Flat(slices[b])
             y == Fresh(n)
             z == Flat(d.slices)
  <2>1. x \in Seq(Byte) /\ y \in Seq(Byte) /\ (z = x \o y \/ z = y \o x) /\ d.length = Len(x) + Len(y)
    BY <1>1, <1>2, <1>3, <1>4, Zenon
  <2> HIDE DEF x, y, z
  <2>2. Len(x \o y) = Len(x) + Len(y) /\ Len(y \o x) = Len(x) + Len(y)
    BY <2>1
  <2>3. d.length = Len(z)
    BY <2>1, <2>2, Zenon
  <2> QED
    BY <2>3 DEF z
<1>6. Memory' /\ Calls'
  BY <1>5, PutNothing, Zenon
<1>7. Others'
  <2>1. next' \in 1..(MaxBytes + 1)
    BY <1>1, Zenon
  <2> QED
    BY <2>1, Zenon DEF Inv, Others
<1>8. slices'[b] = d.slices /\ Keeps({b})
  BY PutKeeps, Zenon
<1>9. n <= MaxBytes
  <2>1. MaxBytes \in Nat /\ next \in 1..(MaxBytes + 1)
    BY BufferAssumption, Zenon DEF Inv, Others
  <2> QED
    BY <1>1, <2>1
<1>10. Enters(b, n)
  BY <1>1, <1>4, <1>8, <1>9, Zenon DEF Enters
<1> QED
  BY <1>1, <1>6, <1>7, <1>10, Zenon DEF Inv, Step

\* A method after which bytes at the front of b are gone, if any.
LEMMA LeaveStep ==
  ASSUME Inv, NEW b \in Buffers, NEW d, TakesOver(Buffer(b), d, <<>>),
         NEW x \in Seq(Byte), Flat(Buffer(b).slices) = x \o Flat(d.slices),
         d.length = Buffer(b).length - Len(x),
         Put(b, d), next' = next, freeList' = freeList, account' \in [Buffers -> Payer],
         tracked' = tracked, copied' = copied, detached' \in SUBSET Nat
  PROVE  Inv' /\ Step
<1>1. /\ Buffer(b).slices = slices[b] /\ Buffer(b).length = length[b]
      /\ length[b] = Len(Flat(slices[b]))
  BY BufferIs, Zenon
<1>2. d \in Context
  BY Zenon DEF TakesOver
<1>3. Flat(d.slices) \in Seq(Byte)
  BY <1>2, DebtType, Zenon
<1>4. d.length = Len(Flat(d.slices))
  <2> DEFINE y == Flat(d.slices)
             z == Flat(slices[b])
  <2>1. y \in Seq(Byte) /\ z = x \o y /\ d.length = Len(z) - Len(x)
    BY <1>1, <1>3, Zenon
  <2> HIDE DEF y, z
  <2>2. d.length = Len(y)
    BY <2>1
  <2> QED
    BY <2>2 DEF y
<1>5. Memory' /\ Calls'
  BY <1>4, PutNothing, Zenon
<1>6. Others'
  BY Zenon DEF Inv, Others
<1>7. slices'[b] = d.slices /\ Keeps({b})
  BY PutKeeps, Zenon
<1>8. Leaves(b)
  BY <1>1, <1>7, Zenon DEF Leaves
<1> QED
  BY <1>5, <1>6, <1>8, Zenon DEF Inv, Step
------------------------------------------------------------------------------
(* Every action keeps the invariant *)

\* OwnedImpl::add().
LEMMA AddStep ==
  ASSUME Inv, NEW b \in Buffers, NEW n \in Entering, Add(b, n)
  PROVE  Inv' /\ Step
<1> DEFINE c == Buffer(b)
           data == Fresh(n)
           d == AddImpl(c, data)
<1>1. c \in Context /\ data \in Seq(Byte)
  BY BufferIs, FreshIs, Zenon DEF Inv
<1>2. Put(b, d) /\ next' = next + n /\ freeList' = freeList /\ account' = account
      /\ tracked' = tracked /\ copied' = copied /\ detached' = detached
  BY Zenon DEF Add, ghosts
<1>3. freeList' \in 0..MaxSlices
  BY <1>2, Zenon DEF Inv, Others
<1>4. /\ TakesOver(c, d, <<>>) /\ Flat(d.slices) = Flat(c.slices) \o data
      /\ d.length = c.length + Len(data)
  BY <1>1, AddImplIs, Zenon
<1> HIDE DEF d
<1> QED
  BY <1>2, <1>3, <1>4, EnterStep, Zenon

\* OwnedImpl::prepend(absl::string_view).
LEMMA PrependStep ==
  ASSUME Inv, NEW b \in Buffers, NEW n \in Entering, Prepend(b, n)
  PROVE  Inv' /\ Step
<1> DEFINE c == Buffer(b)
           data == Fresh(n)
           d == PrependImpl(c, data)
<1>1. c \in Context /\ data \in Seq(Byte)
  BY BufferIs, FreshIs, Zenon DEF Inv
<1>2. Put(b, d) /\ next' = next + n /\ freeList' = freeList /\ account' = account
      /\ tracked' = tracked /\ copied' = copied /\ detached' = detached
  BY Zenon DEF Prepend, ghosts
<1>3. freeList' \in 0..MaxSlices
  BY <1>2, Zenon DEF Inv, Others
<1>4. /\ TakesOver(c, d, <<>>) /\ Flat(d.slices) = data \o Flat(c.slices)
      /\ d.length = c.length + Len(data)
  BY <1>1, PrependImplIs, Zenon
<1> HIDE DEF d
<1> QED
  BY <1>2, <1>3, <1>4, EnterStep, Zenon

\* OwnedImpl::addFragments().
LEMMA AddFragmentsStep ==
  ASSUME Inv, NEW b \in Buffers, NEW m \in Entering, NEW n \in Entering, AddFragments(b, m, n)
  PROVE  Inv' /\ Step
<1> DEFINE c == Buffer(b)
           data == Fresh(n)
           d == AddTwo(c, data, m)
<1>1. c \in Context /\ data \in Seq(Byte) /\ Len(data) = n /\ m \in Nat /\ n \in Nat
  BY BufferIs, FreshIs, Zenon DEF Inv
<1>2. m <= n /\ Put(b, d) /\ next' = next + n /\ freeList' = freeList /\ account' = account
      /\ tracked' = tracked /\ copied' = copied /\ detached' = detached
  BY Zenon DEF AddFragments, ghosts
<1>3. freeList' \in 0..MaxSlices
  BY <1>2, Zenon DEF Inv, Others
<1>4. m \in 0..Len(data)
  <2> HIDE DEF data
  <2> QED
    BY <1>1, <1>2
<1>5. /\ TakesOver(c, d, <<>>) /\ Flat(d.slices) = Flat(c.slices) \o data
      /\ d.length = c.length + Len(data)
  BY <1>1, <1>4, AddTwoIs, Zenon
<1> HIDE DEF d
<1> QED
  BY <1>2, <1>3, <1>5, EnterStep, Zenon

\* OwnedImpl::reserveSingleSlice() and commit().
LEMMA ReserveSingleSliceStep ==
  ASSUME Inv, NEW b \in Buffers, NEW n \in Entering, NEW room \in Rooms, NEW separate \in BOOLEAN,
         ReserveSingleSliceAndCommit(b, room, separate, n)
  PROVE  Inv' /\ Step
<1> DEFINE c == Buffer(b)
           data == Fresh(n)
           e == WithoutEmptyBack(c)
           d == CommittedSingle(e, room, separate, data)
<1>1. c \in Context /\ data \in Seq(Byte) /\ Len(data) = n /\ n \in Nat
  BY BufferIs, FreshIs, Zenon DEF Inv
<1>2. room > 0 /\ n <= room /\ Put(b, d) /\ next' = next + n /\ freeList' = freeList
      /\ account' = account /\ tracked' = tracked /\ copied' = copied /\ detached' = detached
  BY Zenon DEF ReserveSingleSliceAndCommit, ghosts
<1>3. freeList' \in 0..MaxSlices
  BY <1>2, Zenon DEF Inv, Others
<1>4. room \in Nat \ {0} /\ Len(data) <= room
  <2>1. Len(data) = n
    BY <1>1, Zenon
  <2> HIDE DEF data
  <2> QED
    BY <2>1, <1>2, BufferAssumption
<1>5. TakesOver(c, e, <<>>) /\ Flat(e.slices) = Flat(c.slices) /\ e.length = c.length
  BY <1>1, WithoutEmptyBackIs, Zenon
<1>6. e \in Context
  BY <1>5, Zenon DEF TakesOver
<1> HIDE DEF e
<1>7. /\ TakesOver(e, d, <<>>) /\ Flat(d.slices) = Flat(e.slices) \o data
      /\ d.length = e.length + Len(data)
  BY <1>1, <1>4, <1>6, CommittedSingleIs, Zenon
<1> HIDE DEF d
<1>8. <<>> \in Seq(Slice)
  OBVIOUS
<1>9. TakesOver(c, d, <<>>)
  BY <1>1, <1>5, <1>7, <1>8, TakesNothingAfter, Zenon
<1>10. Flat(d.slices) = Flat(c.slices) \o data /\ d.length = c.length + Len(data)
  BY <1>5, <1>7, Zenon
<1> QED
  BY <1>2, <1>3, <1>9, <1>10, EnterStep, Zenon

\* OwnedImpl::drain().
LEMMA DrainStep ==
  ASSUME Inv, NEW b \in Buffers, NEW n \in 0..MaxBytes, Drain(b, n)
  PROVE  Inv' /\ Step
<1> DEFINE c == Buffer(b)
           d == DrainImpl(c, n)
<1>1. c \in Context
  BY BufferIs, Zenon
<1>2. Put(b, d) /\ next' = next /\ freeList' = freeList /\ account' = account
      /\ tracked' = tracked /\ copied' = copied /\ detached' = detached
  BY Zenon DEF Drain, ghosts
<1>3. account' \in [Buffers -> Payer] /\ detached' \in SUBSET Nat
  BY <1>2, Zenon DEF Inv, Others
<1>4. n \in Nat
  BY BufferAssumption
<1>5. TakesOver(c, d, <<>>)
  BY <1>1, <1>4, DrainImplIs, Zenon
<1>6. PICK x \in Seq(Byte) : Flat(c.slices) = x \o Flat(d.slices) /\ d.length = c.length - Len(x)
  BY <1>1, <1>4, DrainImplIs, Zenon
<1> HIDE DEF d
<1> QED
  BY <1>2, <1>3, <1>5, <1>6, LeaveStep, Zenon

\* OwnedImpl::extractMutableFrontSlice().
LEMMA ExtractStep ==
  ASSUME Inv, NEW b \in Buffers, ExtractMutableFrontSlice(b)
  PROVE  Inv' /\ Step
<1> DEFINE c == Buffer(b)
           d == Extracted(c)
<1>1. c \in Context /\ c.slices = slices[b] /\ length[b] = Len(Flat(slices[b]))
  BY BufferIs, Zenon
<1>2. length[b] > 0 /\ Put(b, d) /\ next' = next /\ freeList' = freeList /\ account' = account
      /\ tracked' = tracked /\ copied' = copied /\ detached' = detached
  BY Zenon DEF ExtractMutableFrontSlice, ghosts
<1>3. account' \in [Buffers -> Payer] /\ detached' \in SUBSET Nat
  BY <1>2, Zenon DEF Inv, Others
<1>4. Flat(c.slices) # <<>>
  <2>1. Len(<<>>) = 0 /\ ~(0 > 0)
    OBVIOUS
  <2> QED
    BY <1>1, <1>2, <2>1, Zenon
<1>5. TakesOver(c, d, <<>>)
  BY <1>1, <1>4, ExtractIs, Zenon
<1>6. PICK x \in Seq(Byte) : Flat(c.slices) = x \o Flat(d.slices) /\ d.length = c.length - Len(x)
  BY <1>1, <1>4, ExtractIs, Zenon
<1> HIDE DEF d
<1> QED
  BY <1>2, <1>3, <1>5, <1>6, LeaveStep, Zenon

\* Bytes to remember are numbers.
LEMMA NotedType ==
  ASSUME NEW data \in Seq(Byte)
  PROVE  Noted(Range(data)) \in SUBSET Nat
<1>1. \A i \in DOMAIN data : data[i] \in Nat
  BY DEF Byte
<1>2. Range(data) \in SUBSET Nat
  BY <1>1 DEF Range
<1> QED
  BY <1>2 DEF Noted

\* OwnedImpl::linearize().
LEMMA LinearizeStep ==
  ASSUME Inv, NEW b \in Buffers, NEW n \in 0..MaxBytes, Linearize(b, n)
  PROVE  Inv' /\ Step
<1> DEFINE c == Buffer(b)
           d == Linearized(c, n)
           data == SubSeq(Flat(slices[b]), 1, n)
<1>1. /\ c \in Context /\ c.slices = slices[b] /\ length[b] = Len(Flat(slices[b]))
      /\ slices[b] \in Seq(Slice)
  BY BufferIs, Zenon
<1>2. n <= length[b] /\ Put(b, d) /\ next' = next /\ freeList' = freeList /\ account' = account
      /\ tracked' = tracked /\ copied' = copied /\ detached' = detached \cup Noted(Range(data))
  BY Zenon DEF Linearize
<1>3. n \in Nat /\ n <= Len(Flat(c.slices))
  BY <1>1, <1>2, BufferAssumption
<1>4. Flat(slices[b]) \in Seq(Byte)
  BY <1>1, FlatType, Zenon
<1>5. data \in Seq(Byte)
  <2>1. n \in 0..Len(Flat(slices[b]))
    BY <1>1, <1>2, <1>3, <1>4
  <2> QED
    BY <1>4, <2>1, BytesSplit, Zenon
<1> HIDE DEF data
<1>6. account' \in [Buffers -> Payer] /\ detached \in SUBSET Nat
  BY <1>2, Zenon DEF Inv, Others
<1>7. detached' \in SUBSET Nat
  <2>1. Noted(Range(data)) \in SUBSET Nat
    BY <1>5, NotedType, Zenon
  <2> QED
    BY <1>2, <1>6, <2>1
<1>8. TakesOver(c, d, <<>>) /\ Flat(d.slices) = Flat(c.slices) /\ d.length = c.length
  BY <1>1, <1>3, LinearizedIs, Zenon
<1>9. <<>> \in Seq(Byte) /\ Flat(c.slices) = <<>> \o Flat(d.slices) /\ d.length = c.length - Len(<<>>)
  <2>1. Flat(d.slices) \in Seq(Byte) /\ c.length \in Int
    BY <1>1, <1>8, DebtType, Zenon
  <2>2. Len(<<>>) = 0 /\ \A k \in Int : k - 0 = k
    OBVIOUS
  <2>3. d.length = c.length - Len(<<>>)
    BY <1>8, <2>1, <2>2, Zenon
  <2> HIDE DEF d
  <2> QED
    BY <2>1, <2>3, <1>8, Concatenation, Zenon
<1> HIDE DEF d
<1> QED
  BY <1>2, <1>6, <1>7, <1>8, <1>9, LeaveStep, Zenon

\* OwnedImpl::~OwnedImpl().
LEMMA DestroyStep ==
  ASSUME Inv, NEW b \in Buffers, Destroy(b)
  PROVE  Inv' /\ Step
<1> DEFINE c == Buffer(b)
           e == ReleaseAll(c, slices[b])
           d == [e EXCEPT !.slices = <<>>, !.length = 0]
<1>1. /\ c \in Context /\ c.slices = slices[b] /\ length[b] = Len(Flat(slices[b]))
      /\ slices[b] \in Seq(Slice) /\ c.length = length[b]
  BY BufferIs, Zenon
<1>2. Put(b, d) /\ next' = next /\ freeList' = freeList /\ account' = [account EXCEPT ![b] = None]
      /\ tracked' = tracked /\ copied' = copied /\ detached' = detached
  BY Zenon DEF Destroy, ghosts
<1>3. account' \in [Buffers -> Payer] /\ detached' \in SUBSET Nat
  BY <1>2 DEF Inv, Others, Payer
<1>4. e \in Context
  BY <1>1, ReleaseAllIs, Zenon DEF OnlyAccounts
<1>5. SameAccounts(e, d) /\ d.slices = <<>> /\ d.length = 0
  <2> HIDE DEF e
  <2>1. <<>> \in Seq(Slice) /\ 0 \in Int
    OBVIOUS
  <2>2. d \in Context
    BY <1>4, <2>1 DEF Context
  <2>3. d.account = e.account /\ d.balance = e.balance /\ d.ran = e.ran
    BY <1>4 DEF Context
  <2>4. d.slices = <<>> /\ d.length = 0
    BY <1>4 DEF Context
  <2> QED
    BY <2>2, <2>3, <2>4, Zenon DEF SameAccounts
<1> HIDE DEF d
<1>6. Balanced(c.slices, slices[b], d.slices, None, 0)
  BY <1>1, <1>5, AllTaken, Zenon
<1>7. TakesOver(c, d, <<>>)
  BY <1>1, <1>5, <1>6, Dropped, Zenon
<1>8. /\ Flat(slices[b]) \in Seq(Byte) /\ Flat(c.slices) = Flat(slices[b]) \o Flat(d.slices)
      /\ d.length = c.length - Len(Flat(slices[b]))
  <2>1. Flat(slices[b]) \in Seq(Byte) /\ Flat(<<>>) = <<>>
    BY <1>1, FlatType, FlatIs, Zenon
  <2>2. Flat(slices[b]) \o <<>> = Flat(slices[b])
    BY <2>1, Concatenation, Zenon
  <2>3. 0 = Len(Flat(slices[b])) - Len(Flat(slices[b]))
    BY <2>1
  <2> QED
    BY <1>1, <1>5, <2>1, <2>2, <2>3, Zenon
<1> QED
  BY <1>2, <1>3, <1>7, <1>8, LeaveStep, Zenon

\* OwnedImpl::reserveForRead() and commit().
LEMMA ReserveForReadStep ==
  ASSUME Inv, NEW b \in Buffers, NEW n \in Entering, ReserveForReadAndCommit(b, n)
  PROVE  Inv' /\ Step
<1> DEFINE c0 == Buffer(b)
           data == Fresh(n)
           c == WithoutEmptyBack(c0)
           max == MaxSlices * DefaultSliceSize
           reuse == BackRoom(c) >= max \/ BackRoom(c) >= MinReuse
           first == IF reuse THEN Min({BackRoom(c), max}) ELSE 0
           left(j) == max - Reserved(first, j)
           top == MaxSlices - (IF reuse THEN 1 ELSE 0)
           J == {j \in 1..top :
                  /\ left(j) > 0
                  /\ ~(DefaultSliceSize > left(j) /\ Reserved(first, j) >= DefaultSliceSize)}
           fresh == Cardinality(J)
           d == Committed(c, data, first, fresh)
<1>1. c0 \in Context /\ data \in Seq(Byte) /\ Len(data) = n /\ n \in Nat
  BY BufferIs, FreshIs, Zenon DEF Inv
<1>2. /\ n <= Reserved(first, fresh + 1) /\ Put(b, d) /\ next' = next + n
      /\ account' = account /\ tracked' = tracked /\ copied' = copied /\ detached' = detached
      /\ freeList' = Min({MaxSlices, Max({0, freeList - fresh}) + (fresh - Used(n, first, fresh))})
  BY Zenon DEF ReserveForReadAndCommit, ghosts
<1>3. TakesOver(c0, c, <<>>) /\ Flat(c.slices) = Flat(c0.slices) /\ c.length = c0.length
  BY <1>1, WithoutEmptyBackIs, Zenon
<1>4. c \in Context
  BY <1>3, Zenon DEF TakesOver
<1> HIDE DEF c
<1>5. BackRoom(c) \in Nat /\ (c.slices = <<>> => BackRoom(c) = 0)
  BY <1>4, BackRoomType, Zenon
<1>6. MaxSlices \in Nat \ {0} /\ DefaultSliceSize \in Nat \ {0} /\ MinReuse \in Nat \ {0} /\ max \in Nat \ {0}
  <2>1. MaxSlices \in Nat \ {0} /\ DefaultSliceSize \in Nat \ {0} /\ MinReuse \in Nat \ {0}
    BY BufferAssumption
  <2> QED
    BY <2>1
<1> HIDE DEF max
<1>7. first \in Nat /\ (first = 0 \/ (c.slices # <<>> /\ first <= BackRoom(c)))
  <2>1. Min({BackRoom(c), max}) = IF BackRoom(c) <= max THEN BackRoom(c) ELSE max
    BY <1>5, <1>6, MinMaxOfTwo
  <2> DEFINE y == Min({BackRoom(c), max})
             x == BackRoom(c)
  <2>2. y = (IF x <= max THEN x ELSE max) /\ x \in Nat /\ (c.slices = <<>> => x = 0)
    BY <1>5, <2>1, Zenon
  <2> HIDE DEF x, y
  <2>3. y \in Nat /\ y <= x /\ (c.slices = <<>> => y = 0)
    BY <1>6, <2>2
  <2>4. first = y \/ first = 0
    BY Zenon DEF y
  <2> HIDE DEF first
  <2> QED
    BY <2>3, <2>4 DEF x
<1>8. fresh \in Nat
  <2>1. top \in Int
    BY <1>6
  <2> HIDE DEF top
  <2>2. IsFiniteSet(1..top)
    BY <2>1, FS_Interval
  <2>3. J \subseteq 1..top
    OBVIOUS
  <2> HIDE DEF J
  <2> QED
    BY <2>2, <2>3, FS_Subset, FS_CardinalityType, Zenon
<1> HIDE DEF first, fresh
<1>9. Len(data) <= Reserved(first, fresh + 1)
  BY <1>1, <1>2, Zenon
<1>10. /\ TakesOver(c, d, <<>>) /\ Flat(d.slices) = Flat(c.slices) \o data
       /\ d.length = c.length + Len(data)
  BY <1>1, <1>4, <1>7, <1>8, <1>9, CommittedIs, Zenon
<1>11. Used(n, first, fresh) \in 0..fresh
  BY <1>1, <1>2, <1>7, <1>8, UsedIs, Zenon
<1>12. freeList' \in 0..MaxSlices
  <2> DEFINE u == Used(n, first, fresh)
             y == Max({0, freeList - fresh})
             z == y + (fresh - u)
  <2>1. freeList \in 0..MaxSlices
    BY Zenon DEF Inv, Others
  <2>2. 0 \in Int /\ freeList - fresh \in Int
    BY <2>1, <1>6, <1>8
  <2>3. y = IF 0 <= freeList - fresh THEN freeList - fresh ELSE 0
    BY <2>2, MinMaxOfTwo, Zenon
  <2>4. y \in Nat
    <3> HIDE DEF y
    <3> QED
      BY <2>2, <2>3
  <2>5. u \in 0..fresh
    BY <1>11
  <2> HIDE DEF u, y
  <2>6. z \in Nat
    BY <1>8, <2>4, <2>5
  <2>7. freeList' = Min({MaxSlices, z})
    BY <1>2, Zenon DEF u, y
  <2> HIDE DEF z
  <2>8. Min({MaxSlices, z}) = IF MaxSlices <= z THEN MaxSlices ELSE z
    BY <1>6, <2>6, MinMaxOfTwo
  <2>9. freeList' = IF MaxSlices <= z THEN MaxSlices ELSE z
    BY <2>7, <2>8, Zenon
  <2> QED
    BY <1>6, <2>6, <2>9
<1> HIDE DEF d
<1>13. <<>> \in Seq(Slice)
  OBVIOUS
<1>14. TakesOver(c0, d, <<>>)
  BY <1>1, <1>3, <1>10, <1>13, TakesNothingAfter, Zenon
<1>15. Flat(d.slices) = Flat(c0.slices) \o data /\ d.length = c0.length + Len(data)
  BY <1>3, <1>10, Zenon
<1> QED
  BY <1>2, <1>12, <1>14, <1>15, EnterStep, Zenon

\* OwnedImpl::move(Instance&).
LEMMA MoveStep ==
  ASSUME Inv, NEW b \in Buffers, NEW r \in Buffers \ {b}, Move(b, r)
  PROVE  Inv' /\ Step
<1> DEFINE c == Buffer(b)
           ss == slices[r]
           d == CoalesceOrAddSlices(c, ss)
           n == length[r] - Size(ss)
<1>0. r \in Buffers /\ b # r
  OBVIOUS
<1>1. c \in Context /\ c.slices = slices[b] /\ c.length = length[b] /\ length[b] = Len(Flat(slices[b]))
  BY BufferIs, Zenon
<1>2. ss \in Seq(Slice) /\ length[r] = Len(Flat(ss))
  BY <1>0, BufferIs, Zenon
<1>3. PutBoth(b, d, r, <<>>, n) /\ next' = next /\ freeList' = freeList /\ account' = account
      /\ tracked' = tracked /\ copied' = copied /\ detached' = detached
  BY Zenon DEF Move, ghosts
<1>4. /\ TakesOver(c, d, ss) /\ Flat(d.slices) = Flat(c.slices) \o Flat(ss)
      /\ d.length = c.length + Len(Flat(ss))
  BY <1>1, <1>2, CoalesceOrAddSlicesIs, Zenon
<1>5. Balanced(ss, ss, <<>>, None, 0) /\ n = Len(Flat(<<>>)) /\ <<>> \in Seq(Slice)
  <2>1. <<>> \in Seq(Slice)
    OBVIOUS
  <2> QED
    BY <1>2, <2>1, AllTaken, Zenon
<1>6. Flat(slices[b]) \in Seq(Byte) /\ Flat(ss) \in Seq(Byte) /\ Flat(<<>>) = <<>>
  BY <1>1, <1>2, DebtType, FlatType, FlatIs, Zenon
<1> HIDE DEF d, n
<1>7. d.length = Len(Flat(d.slices))
  <2> DEFINE u == Flat(slices[b])
             v == Flat(ss)
             z == Flat(d.slices)
  <2>1. u \in Seq(Byte) /\ v \in Seq(Byte) /\ z = u \o v /\ d.length = Len(u) + Len(v)
    BY <1>1, <1>4, <1>6, Zenon
  <2> HIDE DEF u, v, z
  <2>2. d.length = Len(z)
    BY <2>1
  <2> QED
    BY <2>2 DEF z
<1>8. Memory' /\ Calls'
  BY <1>0, <1>2, <1>3, <1>4, <1>5, <1>7, PutBothIs, Zenon
<1>9. Others'
  BY <1>3, Zenon DEF Inv, Others
<1>10. slices'[b] = d.slices /\ slices'[r] = <<>> /\ Keeps({b, r})
  BY <1>0, <1>3, PutKeeps, Zenon
<1>11. Flat(ss) = Flat(ss) \o Flat(slices'[r]) /\ Flat(slices'[b]) = Flat(slices[b]) \o Flat(ss)
  <2>1. Flat(ss) \o <<>> = Flat(ss)
    BY <1>6, Concatenation, Zenon
  <2>2. Flat(slices'[r]) = <<>>
    BY <1>6, <1>10, Zenon
  <2>3. Flat(slices'[b]) = Flat(slices[b]) \o Flat(ss)
    BY <1>1, <1>4, <1>10, Zenon
  <2> QED
    BY <2>1, <2>2, <2>3, Zenon
<1>12. MovesOver(b, r)
  BY <1>3, <1>6, <1>10, <1>11, Zenon DEF MovesOver
<1> QED
  BY <1>8, <1>9, <1>12, Zenon DEF Inv, Step

\* OwnedImpl::move(Instance&, uint64_t).
LEMMA MoveLengthStep ==
  ASSUME Inv, NEW b \in Buffers, NEW r \in Buffers \ {b}, NEW k \in 1..MaxBytes, MoveLength(b, r, k)
  PROVE  Inv' /\ Step
<1> DEFINE c == Buffer(b)
           ss == slices[r]
           d == Moved(c, ss, k)
           tt == MovedFrom(ss, k)
           rr == SubSeq(ss, 1, Whole(ss, k))
           n == length[r] - (End(ss, Whole(ss, k)) + Part(ss, k))
<1>0. r \in Buffers /\ b # r /\ k \in Nat
  BY BufferAssumption
<1>1. c \in Context /\ c.slices = slices[b] /\ c.length = length[b] /\ length[b] = Len(Flat(slices[b]))
  BY BufferIs, Zenon
<1>2. ss \in Seq(Slice) /\ length[r] = Len(Flat(ss))
  BY <1>0, BufferIs, Zenon
<1>3. PutBoth(b, d, r, tt, n) /\ next' = next /\ freeList' = freeList /\ account' = account
      /\ tracked' = tracked /\ copied' = copied /\ detached' = detached \cup Noted(Range(PartData(ss, k)))
  BY Zenon DEF MoveLength
<1>4. rr \in Seq(Slice) /\ tt \in Seq(Slice) /\ TakesOver(c, d, rr) /\ Balanced(ss, rr, tt, None, 0)
  BY <1>0, <1>1, <1>2, MovedIs, Zenon
<1>5. PICK x \in Seq(Byte) :
        /\ Flat(ss) = x \o Flat(tt) /\ Flat(d.slices) = Flat(c.slices) \o x
        /\ d.length = c.length + Len(x) /\ Len(x) = End(ss, Whole(ss, k)) + Part(ss, k)
  BY <1>0, <1>1, <1>2, MovedIs, Zenon
<1>6. Flat(slices[b]) \in Seq(Byte) /\ Flat(tt) \in Seq(Byte)
  BY <1>1, <1>4, DebtType, FlatType, Zenon
<1>7. PartData(ss, k) \in Seq(Byte)
  <2>1. CASE Part(ss, k) = 0
    BY <2>1, Concatenation, Zenon DEF PartData
  <2>2. CASE Part(ss, k) # 0
    <3> DEFINE w == Whole(ss, k)
               p == Part(ss, k)
    <3>1. w \in 0..Len(ss) /\ p \in Nat /\ w < Len(ss) /\ p <= Len(ss[w + 1].data)
      BY <1>0, <1>2, <2>2, WholeIs, Zenon
    <3> HIDE DEF w, p, ss
    <3>2. ss[w + 1] \in Slice
      BY <1>2, <3>1
    <3>3. ss[w + 1].data \in Seq(Byte)
      BY <3>2, SliceIs, Zenon
    <3>4. p \in 0..Len(ss[w + 1].data)
      BY <3>1, <3>3
    <3>5. SubSeq(ss[w + 1].data, 1, p) \in Seq(Byte)
      BY <3>3, <3>4, BytesSplit, Zenon
    <3> QED
      BY <2>2, <3>5, Zenon DEF PartData, w, p, ss
  <2> QED
    BY <2>1, <2>2
<1> HIDE DEF d, tt, rr
<1>8. d.length = Len(Flat(d.slices))
  <2> DEFINE u == Flat(slices[b])
             z == Flat(d.slices)
  <2>1. u \in Seq(Byte) /\ x \in Seq(Byte) /\ z = u \o x /\ d.length = Len(u) + Len(x)
    BY <1>1, <1>5, <1>6, Zenon
  <2> HIDE DEF u, z
  <2>2. d.length = Len(z)
    BY <2>1
  <2> QED
    BY <2>2 DEF z
<1>9. n = Len(Flat(tt))
  <2> DEFINE y == Flat(tt)
             z == Flat(ss)
             m == End(ss, Whole(ss, k)) + Part(ss, k)
  <2>1. y \in Seq(Byte) /\ z = x \o y /\ n = Len(z) - m /\ Len(x) = m
    BY <1>2, <1>5, <1>6, Zenon
  <2> HIDE DEF y, z, m, n
  <2>2. n = Len(y)
    BY <2>1
  <2> QED
    BY <2>2 DEF y
<1> HIDE DEF n
<1>10. Memory' /\ Calls'
  BY <1>0, <1>3, <1>4, <1>8, <1>9, PutBothIs, Zenon
<1>11. detached' \in SUBSET Nat
  <2>1. Noted(Range(PartData(ss, k))) \in SUBSET Nat
    BY <1>7, NotedType, Zenon
  <2>2. detached \in SUBSET Nat
    BY Zenon DEF Inv, Others
  <2> QED
    BY <1>3, <2>1, <2>2
<1>12. Others'
  BY <1>3, <1>11, Zenon DEF Inv, Others
<1>13. slices'[b] = d.slices /\ slices'[r] = tt /\ Keeps({b, r})
  BY <1>0, <1>3, PutKeeps, Zenon
<1>14. MovesOver(b, r)
  BY <1>1, <1>3, <1>5, <1>13, Zenon DEF MovesOver
<1> QED
  BY <1>10, <1>12, <1>14, Zenon DEF Inv, Step

\* OwnedImpl::prepend(Instance&).
LEMMA PrependInstanceStep ==
  ASSUME Inv, NEW b \in Buffers, NEW r \in Buffers \ {b}, PrependInstance(b, r)
  PROVE  Inv' /\ Step
<1> DEFINE c == Buffer(b)
           ss == slices[r]
           d == PrependSlices(c, ss)
           n == length[r] - Size(ss)
<1>0. r \in Buffers /\ b # r
  OBVIOUS
<1>1. c \in Context /\ c.slices = slices[b] /\ c.length = length[b] /\ length[b] = Len(Flat(slices[b]))
  BY BufferIs, Zenon
<1>2. ss \in Seq(Slice) /\ length[r] = Len(Flat(ss))
  BY <1>0, BufferIs, Zenon
<1>3. PutBoth(b, d, r, <<>>, n) /\ next' = next /\ freeList' = freeList /\ account' = account
      /\ tracked' = tracked /\ copied' = copied /\ detached' = detached
  BY Zenon DEF PrependInstance, ghosts
<1>4. /\ TakesOver(c, d, ss) /\ Flat(d.slices) = Flat(ss) \o Flat(c.slices)
      /\ d.length = c.length + Len(Flat(ss))
  BY <1>1, <1>2, PrependSlicesIs, Zenon
<1>5. Balanced(ss, ss, <<>>, None, 0) /\ n = Len(Flat(<<>>)) /\ <<>> \in Seq(Slice)
  <2>1. <<>> \in Seq(Slice)
    OBVIOUS
  <2> QED
    BY <1>2, <2>1, AllTaken, Zenon
<1>6. Flat(slices[b]) \in Seq(Byte) /\ Flat(ss) \in Seq(Byte) /\ Flat(<<>>) = <<>>
  BY <1>1, <1>2, DebtType, FlatType, FlatIs, Zenon
<1> HIDE DEF d, n
<1>7. d.length = Len(Flat(d.slices))
  <2> DEFINE x == Flat(slices[b])
             y == Flat(ss)
             z == Flat(d.slices)
  <2>1. x \in Seq(Byte) /\ y \in Seq(Byte) /\ z = y \o x /\ d.length = Len(x) + Len(y)
    BY <1>1, <1>4, <1>6, Zenon
  <2> HIDE DEF x, y, z
  <2>2. d.length = Len(z)
    BY <2>1
  <2> QED
    BY <2>2 DEF z
<1>8. Memory' /\ Calls'
  BY <1>0, <1>2, <1>3, <1>4, <1>5, <1>7, PutBothIs, Zenon
<1>9. Others'
  BY <1>3, Zenon DEF Inv, Others
<1>10. slices'[b] = d.slices /\ slices'[r] = <<>> /\ Keeps({b, r})
  BY <1>0, <1>3, PutKeeps, Zenon
<1>11. GoesInFront(b, r)
  BY <1>1, <1>3, <1>4, <1>6, <1>10, Zenon DEF GoesInFront
<1> QED
  BY <1>8, <1>9, <1>11, Zenon DEF Inv, Step

\* OwnedImpl::add(const Instance&).
LEMMA AddInstanceStep ==
  ASSUME Inv, NEW b \in Buffers, NEW r \in Buffers \ {b}, AddInstance(b, r)
  PROVE  Inv' /\ Step
<1> DEFINE c == Buffer(b)
           ss == slices[r]
           d == AddSlices(c, ss)
<1>0. r \in Buffers /\ b # r
  OBVIOUS
<1>1. c \in Context /\ c.slices = slices[b] /\ c.length = length[b] /\ length[b] = Len(Flat(slices[b]))
  BY BufferIs, Zenon
<1>2. ss \in Seq(Slice)
  BY <1>0, BufferIs, Zenon
<1>3. Put(b, d) /\ next' = next /\ freeList' = freeList /\ account' = account
      /\ tracked' = tracked /\ copied' = copied \cup Bytes(ss) /\ detached' = detached
  BY Zenon DEF AddInstance
<1>4. /\ TakesOver(c, d, <<>>) /\ Flat(d.slices) = Flat(c.slices) \o Flat(ss)
      /\ d.length = c.length + Len(Flat(ss))
  BY <1>1, <1>2, AddSlicesIs, Zenon
<1>5. Flat(slices[b]) \in Seq(Byte) /\ Flat(ss) \in Seq(Byte)
  BY <1>1, <1>2, DebtType, FlatType, Zenon
<1> HIDE DEF d
<1>6. d.length = Len(Flat(d.slices))
  <2> DEFINE u == Flat(slices[b])
             v == Flat(ss)
             z == Flat(d.slices)
  <2>1. u \in Seq(Byte) /\ v \in Seq(Byte) /\ z = u \o v /\ d.length = Len(u) + Len(v)
    BY <1>1, <1>4, <1>5, Zenon
  <2> HIDE DEF u, v, z
  <2>2. d.length = Len(z)
    BY <2>1
  <2> QED
    BY <2>2 DEF z
<1>7. Memory' /\ Calls'
  BY <1>3, <1>4, <1>6, PutNothing, Zenon
<1>8. copied' \in SUBSET Nat
  <2>1. copied \in SUBSET Nat
    BY Zenon DEF Inv, Others
  <2>2. ASSUME NEW i \in DOMAIN ss
        PROVE  Range(ss[i].data) \subseteq Nat
    <3>1. ss[i] \in Slice
      BY <1>2
    <3>2. ss[i].data \in Seq(Byte)
      BY <3>1, SliceIs, Zenon
    <3> DEFINE y == ss[i].data
    <3> HIDE DEF y
    <3>3. y \in Seq(Byte)
      BY <3>2 DEF y
    <3>4. \A j \in DOMAIN y : y[j] \in Nat
      BY <3>3 DEF Byte
    <3>5. Range(y) \subseteq Nat
      BY <3>4 DEF Range
    <3> QED
      BY <3>5 DEF y
  <2> HIDE DEF ss
  <2>3. Bytes(ss) \subseteq Nat
    BY <2>2, Zenon DEF Bytes
  <2> QED
    BY <1>3, <2>1, <2>3 
<1>9. Others'
  BY <1>3, <1>8, Zenon DEF Inv, Others
<1>10. slices'[b] = d.slices /\ Keeps({b})
  BY <1>3, PutKeeps, Zenon
<1>11. Copies(b, r)
  <2>1. Bytes(slices[r]) \subseteq copied'
    BY <1>3
  <2> QED
    BY <1>1, <1>3, <1>4, <1>10, <2>1, Zenon DEF Copies
<1> QED
  BY <1>7, <1>9, <1>11, Zenon DEF Inv, Step

\* What a slice with one tracker f, which charges no account, brings along.
LEMMA OneTracker ==
  ASSUME NEW s \in Slice, NEW f \in Callbacks, s.trackers = <<f>>, s.account = None
  PROVE  /\ <<s>> \in Seq(Slice)
         /\ \A a \in Accounts : Weigh(ChargeOf(a), <<s>>) = 0
         /\ \A t : Weigh(MarksOf(t), <<s>>) = IF f = t THEN 1 ELSE 0
<1>1. <<s>> \in Seq(Slice)
  OBVIOUS
<1>2. ASSUME NEW a \in Accounts
      PROVE  Weigh(ChargeOf(a), <<s>>) = 0
  <2>1. Weigh(ChargeOf(a), <<s>>) = ChargeOf(a)[s]
    BY SliceWeights, Zenon DEF IsWeight
  <2>2. a # None
    BY BufferAssumption, Zenon
  <2>3. ChargeOf(a)[s] = IF s.account = a THEN s.cap ELSE 0
    BY WeightsOfSlices, Zenon
  <2> QED
    BY <2>1, <2>2, <2>3, Zenon
<1>3. ASSUME NEW t
      PROVE  Weigh(MarksOf(t), <<s>>) = IF f = t THEN 1 ELSE 0
  <2>1. Weigh(MarksOf(t), <<s>>) = MarksOf(t)[s]
    BY SliceWeights, Zenon DEF IsWeight
  <2>2. MarksOf(t)[s] = Count(<<f>>, t)
    BY WeightsOfSlices, Zenon
  <2>3. <<>> \in Seq(Callbacks) /\ Append(<<>>, f) = <<f>>
    OBVIOUS
  <2>4. Count(Append(<<>>, f), t) = Count(<<>>, t) + (IF f = t THEN 1 ELSE 0)
    <3>1. \A ts \in Seq(Callbacks), u \in Callbacks :
            Count(Append(ts, u), t) = Count(ts, t) + (IF u = t THEN 1 ELSE 0)
      BY CountIs
    <3> QED
      BY <2>3, <3>1, Zenon
  <2>5. Count(<<>>, t) = 0
    BY <2>3, CountType, Zenon
  <2>6. Count(<<f>>, t) = 0 + (IF f = t THEN 1 ELSE 0)
    BY <2>3, <2>4, <2>5, Zenon
  <2>7. 0 + (IF f = t THEN 1 ELSE 0) = IF f = t THEN 1 ELSE 0
    OBVIOUS
  <2> QED
    BY <2>1, <2>2, <2>6, <2>7, Zenon
<1> QED
  BY <1>1, <1>2, <1>3, Zenon

\* A method that gives b the tracker f, which was not added before.
LEMMA TrackerStep ==
  ASSUME Inv, NEW b \in Buffers, NEW d, NEW s \in Slice, NEW f \in Callbacks, NEW k \in Nat,
         s.trackers = <<f>>, s.account = None, TakesOver(Buffer(b), d, <<s>>),
         d.length = Len(Flat(d.slices)), Put(b, d),
         tracked[f] = -1, tracked' = [tracked EXCEPT ![f] = k]
  PROVE  Memory' /\ Calls' /\ tracked' \in [Callbacks -> Nat \cup {-1}]
<1>1. /\ <<s>> \in Seq(Slice)
      /\ \A a \in Accounts : Weigh(ChargeOf(a), <<s>>) = 0
      /\ \A t : Weigh(MarksOf(t), <<s>>) = IF f = t THEN 1 ELSE 0
  BY OneTracker, Zenon
<1> DEFINE rr == <<s>>
<1> HIDE DEF rr
<1>2. /\ Memory'
      /\ \A t \in Callbacks : ran'[t] + Overall(Markings(slices', t)) =
           (ran[t] + Overall(Markings(slices, t))) + Weigh(MarksOf(t), rr)
  <2>1. rr \in Seq(Slice) /\ (\A a \in Accounts : Weigh(ChargeOf(a), rr) = 0) /\ TakesOver(Buffer(b), d, rr)
    BY <1>1, Zenon DEF rr
  <2> QED
    BY <2>1, PutIs, Zenon
<1>3. tracked \in [Callbacks -> Nat \cup {-1}]
  BY Zenon DEF Inv, Others
<1>4. /\ tracked' \in [Callbacks -> Nat \cup {-1}] /\ tracked'[f] = k
      /\ \A t \in Callbacks \ {f} : tracked'[t] = tracked[t]
  BY <1>3
<1>5. ASSUME NEW t \in Callbacks
      PROVE  ran'[t] + Overall(Markings(slices', t)) = IF tracked'[t] = -1 THEN 0 ELSE 1
  <2> DEFINE x == ran[t] + Overall(Markings(slices, t))
             y == ran'[t] + Overall(Markings(slices', t))
             w == Weigh(MarksOf(t), rr)
  <2>1. x = (IF tracked[t] = -1 THEN 0 ELSE 1) /\ y = x + w
    BY <1>2, Zenon DEF Inv, Calls
  <2>2. w = IF f = t THEN 1 ELSE 0
    BY <1>1, Zenon DEF rr
  <2> HIDE DEF x, y, w
  <2>3. CASE f = t
    <3>1. x = 0 /\ w = 1
      BY <2>1, <2>2, <2>3, Zenon
    <3>2. y = 1
      BY <2>1, <3>1
    <3>3. tracked'[t] = k /\ k # -1
      BY <1>4, <2>3
    <3> QED
      BY <3>2, <3>3 DEF y
  <2>4. CASE f # t
    <3>1. w = 0 /\ tracked'[t] = tracked[t]
      BY <1>4, <2>2, <2>4, Zenon
    <3>2. y = x
      BY <2>1, <3>1
    <3> QED
      BY <2>1, <3>1, <3>2, Zenon DEF y
  <2> QED
    BY <2>3, <2>4
<1>6. Calls'
  BY <1>5, Zenon DEF Calls
<1> QED
  BY <1>2, <1>4, <1>6, Zenon

\* OwnedImpl::addBufferFragment().
LEMMA AddBufferFragmentStep ==
  ASSUME Inv, NEW b \in Buffers, NEW f \in Fragments, NEW n \in Entering, AddBufferFragment(b, f, n)
  PROVE  Inv' /\ Step
<1> DEFINE c == Buffer(b)
           data == Fresh(n)
           s == FragmentSlice(data, f)
           d == AddFragment(c, data, f)
           k == IF n = 0 THEN 0 ELSE next + (n - 1)
<1>0. f \in Callbacks
  BY DEF Callbacks
<1>1. /\ n \in Nat /\ data \in Seq(Byte) /\ Len(data) = n /\ next + n \in 1..(MaxBytes + 1)
      /\ next \in 1..(MaxBytes + 1) /\ MaxBytes \in Nat
  BY FreshIs, BufferAssumption, Zenon DEF Inv, Others
<1>2. /\ c \in Context /\ c.slices = slices[b] /\ c.length = length[b]
      /\ length[b] = Len(Flat(slices[b])) /\ slices[b] \in Seq(Slice)
  BY BufferIs, Zenon
<1>3. /\ tracked[f] = -1 /\ Put(b, d) /\ tracked' = [tracked EXCEPT ![f] = k] /\ next' = next + n
      /\ account' = account /\ freeList' = freeList /\ copied' = copied /\ detached' = detached
  BY Zenon DEF AddBufferFragment
<1>4. k \in Nat /\ n <= MaxBytes
  BY <1>1
<1> HIDE DEF k, c, data
<1>5. s \in Slice /\ s.trackers = <<f>> /\ s.account = None /\ s.data = data
  <2>1. /\ <<f>> \in Seq(Callbacks) /\ None \in Payer /\ 0 \in Nat /\ FALSE \in BOOLEAN
        /\ Len(data) \in Nat /\ 0 + Len(data) <= Len(data)
    BY <1>0, <1>1 DEF Payer
  <2>2. s \in Slice
    BY <1>1, <2>1, SliceIs, Zenon DEF FragmentSlice
  <2>3. s.trackers = <<f>> /\ s.account = None /\ s.data = data
    BY DEF FragmentSlice
  <2> QED
    BY <2>2, <2>3
<1> HIDE DEF s
<1>6. /\ d \in Context /\ d.slices = Append(c.slices, s) /\ d.length = c.length + Len(data)
      /\ d.account = c.account /\ d.balance = c.balance /\ d.ran = c.ran
  <2>1. d = [c EXCEPT !.slices = Append(c.slices, s), !.length = c.length + Len(data)]
    BY <1>2 DEF AddFragment, s, Context
  <2>2. c.slices \in Seq(Slice) /\ Append(c.slices, s) \in Seq(Slice) /\ c.length + Len(data) \in Int
    <3>1. c.slices \in Seq(Slice) /\ c.length \in Int
      BY <1>2, DebtType, Zenon
    <3>2. Len(data) \in Int
      BY <1>1
    <3>3. Append(c.slices, s) \in Seq(Slice)
      BY <1>5, <3>1, FlatEnds, Zenon
    <3> QED
      BY <3>1, <3>2, <3>3
  <2> DEFINE xx == Append(c.slices, s)
             m == c.length + Len(data)
  <2>3. xx \in Seq(Slice) /\ m \in Int /\ d = [c EXCEPT !.slices = xx, !.length = m]
    BY <2>1, <2>2, Zenon
  <2> HIDE DEF xx, m, d
  <2>4. d \in Context
    BY <1>2, <2>3 DEF Context
  <2>5. d.slices = xx /\ d.length = m
    BY <1>2, <2>3 DEF Context
  <2>6. d.account = c.account /\ d.balance = c.balance /\ d.ran = c.ran
    BY <1>2, <2>3 DEF Context
  <2> QED
    BY <2>4, <2>5, <2>6, Zenon DEF xx, m
<1> HIDE DEF d
<1>7. SameAccounts(c, d)
  BY <1>6, Zenon DEF SameAccounts
<1>8. TakesOver(c, d, <<s>>)
  <2>1. <<s>> \in Seq(Slice) /\ Append(c.slices, s) = c.slices \o <<s>> /\ c.slices \in Seq(Slice)
    <3>1. c.slices \in Seq(Slice)
      BY <1>2, DebtType, Zenon
    <3> DEFINE yy == c.slices
    <3> HIDE DEF yy
    <3>2. yy \in Seq(Slice)
      BY <3>1 DEF yy
    <3>3. <<s>> \in Seq(Slice) /\ Append(yy, s) = yy \o <<s>>
      BY <1>5, <3>2
    <3> QED
      BY <3>1, <3>3 DEF yy
  <2>2. \A w : IsWeight(w) => Weigh(w, d.slices) = Weigh(w, c.slices) + Weigh(w, <<s>>)
    <3> DEFINE yy == c.slices
               zz == <<s>>
    <3>1. yy \in Seq(Slice) /\ zz \in Seq(Slice) /\ d.slices = yy \o zz
      BY <1>6, <2>1, Zenon
    <3> HIDE DEF yy, zz
    <3>2. \A w : IsWeight(w) => Weigh(w, yy \o zz) = Weigh(w, yy) + Weigh(w, zz)
      BY <3>1, Zenon DEF IsWeight
    <3> QED
      BY <3>1, <3>2, Zenon DEF yy, zz
  <2>3. Balanced(d.slices, c.slices, <<s>>, None, 0)
    BY <2>1, <2>2, BalancedIs, Zenon
  <2>4. None \in Payer /\ 0 \in Int
    BY DEF Payer
  <2>5. TakesOver(c, Charge(d, None, 0), <<s>>)
    BY <1>2, <1>7, <2>1, <2>3, <2>4, Rewritten, Zenon
  <2>6. Charge(d, None, 0) = d
    BY DEF Charge
  <2> QED
    BY <2>5, <2>6, Zenon
<1>9. Flat(d.slices) = Flat(slices[b]) \o data
  BY <1>2, <1>5, <1>6, FlatIs, Zenon
<1>10. d.length = Len(Flat(d.slices))
  <2> DEFINE x == Flat(slices[b])
             z == Flat(d.slices)
  <2>1. x \in Seq(Byte) /\ data \in Seq(Byte) /\ z = x \o data /\ d.length = Len(x) + Len(data)
    BY <1>1, <1>2, <1>6, <1>9, FlatType, Zenon
  <2> HIDE DEF x, z
  <2>2. d.length = Len(z)
    BY <2>1
  <2> QED
    BY <2>2 DEF z
<1>11. Memory' /\ Calls' /\ tracked' \in [Callbacks -> Nat \cup {-1}]
  <2>1. TakesOver(Buffer(b), d, <<s>>)
    BY <1>8 DEF c
  <2> QED
    BY <1>0, <1>3, <1>4, <1>5, <1>10, <2>1, TrackerStep, Zenon
<1>12. Others'
  BY <1>1, <1>3, <1>11, Zenon DEF Inv, Others
<1>13. slices'[b] = d.slices /\ Keeps({b})
  BY <1>3, PutKeeps, Zenon
<1>14. Enters(b, n)
  BY <1>1, <1>3, <1>4, <1>9, <1>13, Zenon DEF Enters, data
<1> QED
  BY <1>1, <1>11, <1>12, <1>14, Zenon DEF Inv, Step

\* OwnedImpl::addDrainTracker().
LEMMA AddDrainTrackerStep ==
  ASSUME Inv, NEW b \in Buffers, NEW t \in Trackers, AddDrainTracker(b, t)
  PROVE  Inv' /\ Step
<1> DEFINE c == Buffer(b)
           ss == slices[b]
           back == Last(ss)
           ts == back.trackers
           u == [back EXCEPT !.trackers = Append(ts, t)]
           zz == ReplaceBack(ss, u)
           d == [c EXCEPT !.slices = zz]
           s == FragmentSlice(<<>>, t)
           k == IF back.data = <<>> THEN 0 ELSE Last(back.data)
<1>0. t \in Callbacks
  BY DEF Callbacks
<1>1. /\ c \in Context /\ c.slices = ss /\ c.length = length[b]
      /\ length[b] = Len(Flat(ss)) /\ ss \in Seq(Slice)
  BY BufferIs, Zenon
<1>2. /\ ss # <<>> /\ tracked[t] = -1 /\ tracked' = [tracked EXCEPT ![t] = k]
      /\ length' = length /\ balance' = balance /\ ran' = ran /\ written' = written
      /\ account' = account /\ freeList' = freeList /\ next' = next
      /\ copied' = copied /\ detached' = detached
  BY Zenon DEF AddDrainTracker
<1>3. slices' = [slices EXCEPT ![b] = zz]
  <2>1. slices' = [slices EXCEPT ![b][Len(slices[b])].trackers = Append(@, t)]
    BY Zenon DEF AddDrainTracker
  <2>2. slices \in AllSlices /\ Len(ss) \in DOMAIN ss /\ Last(ss) = ss[Len(ss)]
    BY <1>1, <1>2, Ends, Zenon DEF Inv, Memory
  <2> QED
    BY <2>1, <2>2 DEF ReplaceBack, AllSlices
<1>4. back \in Slice
  BY <1>1, <1>2, Ends, Zenon
<1> HIDE DEF back
<1>5. ts \in Seq(Callbacks) /\ Append(ts, t) \in Seq(Callbacks) /\ back.data \in Seq(Byte)
  <2>1. ts \in Seq(Callbacks) /\ back.data \in Seq(Byte)
    BY <1>4, SliceIs, Zenon
  <2> HIDE DEF ts
  <2> QED
    BY <1>0, <2>1
<1>6. u \in Slice /\ u.data = back.data /\ u.cap = back.cap /\ u.account = back.account
      /\ u.trackers = Append(ts, t)
  <2> DEFINE xs == Append(ts, t)
  <2>1. xs \in Seq(Callbacks)
    BY <1>5
  <2> HIDE DEF xs
  <2>2. [back EXCEPT !.trackers = xs] \in Slice
    BY <1>4, <2>1 DEF Slice, ReservableSize
  <2>3. /\ [back EXCEPT !.trackers = xs].data = back.data /\ [back EXCEPT !.trackers = xs].cap = back.cap
        /\ [back EXCEPT !.trackers = xs].account = back.account /\ [back EXCEPT !.trackers = xs].trackers = xs
    BY <1>4 DEF Slice
  <2> QED
    BY <2>2, <2>3 DEF xs
<1>7. k \in Nat
  <2> DEFINE y == back.data
  <2>1. y \in Seq(Byte)
    BY <1>5
  <2> HIDE DEF y
  <2>2. y # <<>> => Last(y) \in Nat
    BY <2>1 DEF Last, Byte
  <2> QED
    BY <2>2 DEF y
<1>8. s \in Slice /\ s.trackers = <<t>> /\ s.account = None
  <2>1. /\ <<t>> \in Seq(Callbacks) /\ None \in Payer /\ 0 \in Nat /\ FALSE \in BOOLEAN /\ <<>> \in Seq(Byte)
        /\ Len(<<>>) \in Nat /\ 0 + Len(<<>>) <= Len(<<>>)
    BY <1>0 DEF Payer
  <2>2. s \in Slice
    BY <2>1, SliceIs, Zenon DEF FragmentSlice
  <2>3. s.trackers = <<t>> /\ s.account = None
    BY DEF FragmentSlice
  <2> QED
    BY <2>2, <2>3
<1> HIDE DEF u, s, k
<1>9. /\ zz \in Seq(Slice) /\ Flat(zz) = Flat(ss)
      /\ \A w : IsWeight(w) => Weigh(w, zz) = (Weigh(w, ss) - w[back]) + w[u]
  <2>1. /\ zz \in Seq(Slice)
        /\ \A data \in Seq(Byte) : u.data = Last(ss).data \o data => Flat(zz) = Flat(ss) \o data
        /\ \A w : IsWeight(w) => Weigh(w, zz) = (Weigh(w, ss) - w[Last(ss)]) + w[u]
    BY <1>1, <1>2, <1>6, BackReplaced, Zenon
  <2>2. back.data \o <<>> = back.data /\ <<>> \in Seq(Byte)
    BY <1>5, Concatenation, Zenon
  <2>3. Flat(ss) \in Seq(Byte)
    BY <1>1, FlatType, Zenon
  <2>4. Flat(zz) = Flat(ss) \o <<>>
    BY <2>1, <2>2, <1>6, Zenon DEF back
  <2>5. Flat(ss) \o <<>> = Flat(ss)
    BY <2>3, Concatenation, Zenon
  <2>6. \A w : IsWeight(w) => Weigh(w, zz) = (Weigh(w, ss) - w[back]) + w[u]
    BY <2>1, Zenon DEF back
  <2> QED
    BY <2>1, <2>4, <2>5, <2>6, Zenon
<1> HIDE DEF zz
<1>10. /\ d \in Context /\ d.slices = zz /\ d.length = c.length /\ d.written = c.written
       /\ d.account = c.account /\ d.balance = c.balance /\ d.ran = c.ran
  <2>1. d \in Context
    BY <1>1, <1>9 DEF Context
  <2>2. d.slices = zz /\ d.length = c.length /\ d.written = c.written
    BY <1>1 DEF Context
  <2>3. d.account = c.account /\ d.balance = c.balance /\ d.ran = c.ran
    BY <1>1 DEF Context
  <2> QED
    BY <2>1, <2>2, <2>3, Zenon
<1> HIDE DEF d
<1>11. Balanced(zz, ss, <<s>>, None, 0)
  <2>0. /\ \A a \in Accounts : Weigh(ChargeOf(a), <<s>>) = 0
        /\ \A x : Weigh(MarksOf(x), <<s>>) = IF t = x THEN 1 ELSE 0
    BY <1>0, <1>8, OneTracker, Zenon
  <2>1. ASSUME NEW a \in Accounts
        PROVE  Weigh(ChargeOf(a), zz) =
                 (Weigh(ChargeOf(a), ss) + Weigh(ChargeOf(a), <<s>>)) + (IF a = None THEN 0 ELSE 0)
    <3>1. IsWeight(ChargeOf(a))
      BY SliceWeights, Zenon
    <3>2. Weigh(ChargeOf(a), zz) = (Weigh(ChargeOf(a), ss) - ChargeOf(a)[back]) + ChargeOf(a)[u]
      BY <1>9, <3>1, Zenon
    <3>3. ChargeOf(a)[u] = ChargeOf(a)[back]
      BY <1>4, <1>6, SameWeights, Zenon
    <3>4. ChargeOf(a)[back] \in Nat /\ Weigh(ChargeOf(a), ss) \in Nat
      BY <1>1, <1>4, <3>1, Zenon DEF IsWeight
    <3> DEFINE x == Weigh(ChargeOf(a), zz)
               y == Weigh(ChargeOf(a), ss)
               v == ChargeOf(a)[back]
               w == Weigh(ChargeOf(a), <<s>>)
    <3>5. x = (y - v) + v /\ v \in Nat /\ y \in Nat /\ w = 0
      BY <2>0, <3>2, <3>3, <3>4, Zenon
    <3> HIDE DEF x, y, v, w
    <3>6. x = (y + w) + (IF a = None THEN 0 ELSE 0)
      BY <3>5
    <3> QED
      BY <3>6 DEF x, y, w
  <2>2. ASSUME NEW x \in Callbacks
        PROVE  Weigh(MarksOf(x), zz) = Weigh(MarksOf(x), ss) + Weigh(MarksOf(x), <<s>>)
    <3>1. IsWeight(MarksOf(x))
      BY SliceWeights, Zenon
    <3>2. Weigh(MarksOf(x), zz) = (Weigh(MarksOf(x), ss) - MarksOf(x)[back]) + MarksOf(x)[u]
      BY <1>9, <3>1, Zenon
    <3>3. MarksOf(x)[u] = Count(Append(ts, t), x) /\ MarksOf(x)[back] = Count(ts, x)
      <4>1. \A z \in Slice : MarksOf(x)[z] = Count(z.trackers, x)
        BY WeightsOfSlices, Zenon
      <4> QED
        BY <1>4, <1>6, <4>1, Zenon
    <3>4. MarksOf(x)[back] \in Nat /\ Weigh(MarksOf(x), ss) \in Nat
      BY <1>1, <1>4, <3>1, Zenon DEF IsWeight
    <3>5. Count(Append(ts, t), x) = Count(ts, x) + (IF t = x THEN 1 ELSE 0)
      <4>1. \A us \in Seq(Callbacks), v \in Callbacks :
              Count(Append(us, v), x) = Count(us, x) + (IF v = x THEN 1 ELSE 0)
        BY CountIs
      <4> QED
        BY <1>0, <1>5, <4>1, Zenon
    <3> DEFINE m == Weigh(MarksOf(x), zz)
               y == Weigh(MarksOf(x), ss)
               v == MarksOf(x)[back]
               o == MarksOf(x)[u]
               w == Weigh(MarksOf(x), <<s>>)
    <3>6. /\ m = (y - v) + o /\ v \in Nat /\ y \in Nat /\ w = (IF t = x THEN 1 ELSE 0)
          /\ o = v + (IF t = x THEN 1 ELSE 0)
      BY <2>0, <3>2, <3>3, <3>4, <3>5, Zenon
    <3> HIDE DEF m, y, v, o, w
    <3>7. m = y + w
      BY <3>6
    <3> QED
      BY <3>7 DEF m, y, w
  <2> QED
    BY <2>1, <2>2, Zenon DEF Balanced
<1>12. TakesOver(c, d, <<s>>)
  <2>1. SameAccounts(c, d)
    BY <1>10, Zenon DEF SameAccounts
  <2>2. Balanced(d.slices, c.slices, <<s>>, None, 0)
    BY <1>1, <1>10, <1>11, Zenon
  <2>3. None \in Payer /\ 0 \in Int /\ <<s>> \in Seq(Slice)
    BY <1>8 DEF Payer
  <2>4. TakesOver(c, Charge(d, None, 0), <<s>>)
    BY <1>1, <2>1, <2>2, <2>3, Rewritten, Zenon
  <2>5. Charge(d, None, 0) = d
    BY DEF Charge
  <2> QED
    BY <2>4, <2>5, Zenon
<1>13. Put(b, d)
  <2>1. length \in [Buffers -> Int]
    BY Zenon DEF Inv, Memory
  <2>2. length' = [length EXCEPT ![b] = d.length]
    BY <1>1, <1>2, <1>10, <2>1
  <2>3. c.balance = balance /\ c.ran = ran /\ c.written = written
    BY DEF Buffer
  <2> QED
    BY <1>2, <1>3, <1>10, <2>2, <2>3, Zenon DEF Put
<1>14. d.length = Len(Flat(d.slices))
  BY <1>1, <1>9, <1>10, Zenon
<1>15. Memory' /\ Calls' /\ tracked' \in [Callbacks -> Nat \cup {-1}]
  BY <1>0, <1>2, <1>7, <1>8, <1>12, <1>13, <1>14, TrackerStep, Zenon
<1>16. Others'
  BY <1>2, <1>15, Zenon DEF Inv, Others
<1>17. slices'[b] = d.slices /\ Keeps({b})
  BY <1>13, PutKeeps, Zenon
<1>18. Leaves(b)
  <2>1. Flat(ss) \in Seq(Byte) /\ <<>> \in Seq(Byte)
    BY <1>1, FlatType, Concatenation, Zenon
  <2>2. Flat(ss) = <<>> \o Flat(ss)
    BY <2>1, Concatenation, Zenon
  <2> QED
    BY <1>2, <1>9, <1>10, <1>17, <2>1, <2>2, Zenon DEF Leaves
<1> QED
  BY <1>15, <1>16, <1>18, Zenon DEF Inv, Step

\* OwnedImpl::bindAccount().
LEMMA BindAccountStep ==
  ASSUME Inv, NEW b \in Buffers, NEW a \in Accounts, BindAccount(b, a)
  PROVE  Inv' /\ Step
<1>1. /\ account' = [account EXCEPT ![b] = a]
      /\ slices' = slices /\ length' = length /\ balance' = balance /\ ran' = ran /\ written' = written
      /\ freeList' = freeList /\ next' = next /\ tracked' = tracked /\ copied' = copied
      /\ detached' = detached
  BY Zenon DEF BindAccount, memory, ghosts
<1>2. Memory' /\ Calls'
  BY <1>1, Zenon DEF Inv, Memory, Calls
<1>3. account' \in [Buffers -> Payer]
  BY <1>1 DEF Inv, Others, Payer
<1>4. Others'
  BY <1>1, <1>3, Zenon DEF Inv, Others
<1>5. Leaves(b)
  <2>1. slices[b] \in Seq(Slice)
    BY BufferIs, Zenon
  <2>2. Flat(slices[b]) \in Seq(Byte) /\ <<>> \in Seq(Byte)
    BY <2>1, FlatType, Concatenation, Zenon
  <2>3. Flat(slices[b]) = <<>> \o Flat(slices[b])
    BY <2>2, Concatenation, Zenon
  <2> QED
    BY <1>1, <2>2, <2>3, Zenon DEF Leaves, Keeps
<1> QED
  BY <1>2, <1>4, <1>5, Zenon DEF Inv, Step

\* Every step keeps the invariant and does one of the things that Step names.
LEMMA NextStep ==
  ASSUME Inv, Next
  PROVE  Inv' /\ Step
<1>1. PICK b \in Buffers :
        \/ \E t \in Trackers : AddDrainTracker(b, t)
        \/ \E a \in Accounts : BindAccount(b, a)
        \/ \E f \in Fragments, n \in Entering : AddBufferFragment(b, f, n)
        \/ \E n \in Entering : Add(b, n) \/ Prepend(b, n)
        \/ \E m, n \in Entering : AddFragments(b, m, n)
        \/ \E n \in Entering : Rooms # {} /\ ReserveForReadAndCommit(b, n)
        \/ \E n \in Entering, room \in Rooms, separate \in BOOLEAN :
             ReserveSingleSliceAndCommit(b, room, separate, n)
        \/ \E n \in 0..MaxBytes : Drain(b, n) \/ Linearize(b, n)
        \/ ExtractMutableFrontSlice(b)
        \/ Destroy(b)
        \/ \E r \in Buffers \ {b} :
             \/ AddInstance(b, r) \/ PrependInstance(b, r) \/ Move(b, r)
             \/ \E n \in 1..MaxBytes : MoveLength(b, r, n)
  BY Zenon DEF Next
<1>2. CASE \E t \in Trackers : AddDrainTracker(b, t)
  BY <1>2, AddDrainTrackerStep, Zenon
<1>3. CASE \E a \in Accounts : BindAccount(b, a)
  BY <1>3, BindAccountStep, Zenon
<1>4. CASE \E f \in Fragments, n \in Entering : AddBufferFragment(b, f, n)
  BY <1>4, AddBufferFragmentStep, Zenon
<1>5. CASE \E n \in Entering : Add(b, n) \/ Prepend(b, n)
  BY <1>5, AddStep, PrependStep, Zenon
<1>6. CASE \E m, n \in Entering : AddFragments(b, m, n)
  BY <1>6, AddFragmentsStep, Zenon
<1>7. CASE \E n \in Entering : Rooms # {} /\ ReserveForReadAndCommit(b, n)
  BY <1>7, ReserveForReadStep, Zenon
<1>8. CASE \E n \in Entering, room \in Rooms, separate \in BOOLEAN :
             ReserveSingleSliceAndCommit(b, room, separate, n)
  BY <1>8, ReserveSingleSliceStep, Zenon
<1>9. CASE \E n \in 0..MaxBytes : Drain(b, n) \/ Linearize(b, n)
  BY <1>9, DrainStep, LinearizeStep, Zenon
<1>10. CASE ExtractMutableFrontSlice(b)
  BY <1>10, ExtractStep, Zenon
<1>11. CASE Destroy(b)
  BY <1>11, DestroyStep, Zenon
<1>12. CASE \E r \in Buffers \ {b} :
              \/ AddInstance(b, r) \/ PrependInstance(b, r) \/ Move(b, r)
              \/ \E n \in 1..MaxBytes : MoveLength(b, r, n)
  <2>1. PICK r \in Buffers \ {b} :
          \/ AddInstance(b, r) \/ PrependInstance(b, r) \/ Move(b, r)
          \/ \E n \in 1..MaxBytes : MoveLength(b, r, n)
    BY <1>12, Zenon
  <2>2. CASE AddInstance(b, r)
    BY <2>2, AddInstanceStep, Zenon
  <2>3. CASE PrependInstance(b, r)
    BY <2>3, PrependInstanceStep, Zenon
  <2>4. CASE Move(b, r)
    BY <2>4, MoveStep, Zenon
  <2>5. CASE \E n \in 1..MaxBytes : MoveLength(b, r, n)
    BY <2>5, MoveLengthStep, Zenon
  <2> QED
    BY <2>1, <2>2, <2>3, <2>4, <2>5, Zenon
<1> QED
  BY <1>1, <1>2, <1>3, <1>4, <1>5, <1>6, <1>7, <1>8, <1>9, <1>10, <1>11, <1>12, Zenon
------------------------------------------------------------------------------
(* The theorems *)

\* New buffers are empty.
LEMMA InitInv ==
  ASSUME Init
  PROVE  Inv
<1>1. /\ slices = [b \in Buffers |-> <<>>] /\ length = [b \in Buffers |-> 0]
      /\ account = [b \in Buffers |-> None] /\ balance = [a \in Accounts |-> 0]
      /\ ran = [t \in Callbacks |-> 0] /\ freeList = 0 /\ next = 1
      /\ tracked = [t \in Callbacks |-> -1] /\ copied = {} /\ detached = {} /\ written = FALSE
  BY Zenon DEF Init
<1>2. slices \in AllSlices /\ \A b \in Buffers : slices[b] = <<>>
  BY <1>1 DEF AllSlices
<1>3. /\ length \in [Buffers -> Int] /\ balance \in [Accounts -> Int]
      /\ ran \in [Callbacks -> Nat] /\ written \in BOOLEAN
  <2>1. length \in [Buffers -> Int] /\ balance \in [Accounts -> Int] /\ ran \in [Callbacks -> Nat]
    BY <1>1
  <2>2. written \in BOOLEAN
    BY <1>1, Zenon
  <2> QED
    BY <2>1, <2>2, Zenon
<1>4. ASSUME NEW b \in Buffers
      PROVE  length[b] = Len(Flat(slices[b]))
  <2>1. Flat(slices[b]) = <<>>
    BY <1>2, FlatIs, Zenon
  <2> QED
    BY <1>1, <2>1
<1>5. ASSUME NEW a \in Accounts
      PROVE  balance[a] = Overall(Charges(slices, a))
  <2>1. Charges(slices, a) \in [Buffers -> Nat]
    BY <1>2, SharesType, Zenon
  <2>2. \A b \in Buffers : Charges(slices, a)[b] = 0
    BY <1>2, SliceSums, Zenon DEF Charges
  <2>3. Overall(Charges(slices, a)) = 0
    BY <2>1, <2>2, OverallNone, Zenon
  <2> QED
    BY <1>1, <2>3
<1>6. ASSUME NEW t \in Callbacks
      PROVE  ran[t] + Overall(Markings(slices, t)) = IF tracked[t] = -1 THEN 0 ELSE 1
  <2>1. Markings(slices, t) \in [Buffers -> Nat]
    BY <1>2, SharesType, Zenon
  <2>2. \A b \in Buffers : Markings(slices, t)[b] = 0
    BY <1>2, SliceSums, Zenon DEF Markings
  <2>3. Overall(Markings(slices, t)) = 0
    BY <2>1, <2>2, OverallNone, Zenon
  <2>4. ran[t] = 0 /\ tracked[t] = -1
    BY <1>1
  <2> QED
    BY <2>3, <2>4
<1>7. Others
  <2>1. MaxBytes \in Nat /\ MaxSlices \in Nat
    BY BufferAssumption
  <2> QED
    BY <1>1, <2>1 DEF Others, Payer
<1>8. Memory /\ Calls
  BY <1>2, <1>3, <1>4, <1>5, <1>6, Zenon DEF Memory, Calls
<1> QED
  BY <1>7, <1>8 DEF Inv

\* A step that changes no variable.
LEMMA Stutters ==
  ASSUME Inv, UNCHANGED vars
  PROVE  Inv'
BY Zenon DEF vars, memory, ghosts, Inv, Memory, Calls, Others

\* The invariant holds whatever methods are called.
LEMMA Invariance == Spec => []Inv
<1>1. Init => Inv
  BY InitInv
<1>2. Inv /\ [Next]_vars => Inv'
  BY NextStep, Stutters, Zenon
<1> QED
  BY <1>1, <1>2, PTL DEF Spec

\* The invariant in the words of module OwnedBuffer.
LEMMA InvMeans ==
  ASSUME Inv
  PROVE  TypeOK /\ LengthIsSumOfSlices /\ AccountsBalance /\ TrackersRunOnce
<1>1. /\ slices \in AllSlices /\ length \in [Buffers -> Int] /\ balance \in [Accounts -> Int]
      /\ ran \in [Callbacks -> Nat] /\ written \in BOOLEAN
      /\ \A b \in Buffers : length[b] = Len(Flat(slices[b]))
      /\ \A a \in Accounts : balance[a] = Overall(Charges(slices, a))
      /\ \A t \in Callbacks : ran[t] + Overall(Markings(slices, t)) = IF tracked[t] = -1 THEN 0 ELSE 1
  BY Zenon DEF Inv, Memory, Calls
<1>2. \A b \in Buffers : slices[b] \in Seq(Slice)
  BY <1>1 DEF AllSlices
<1>3. LengthIsSumOfSlices
  <2>1. ASSUME NEW b \in Buffers
        PROVE  length[b] = Size(slices[b])
    BY <1>1, <1>2, FlatType, SumsWeigh, Zenon
  <2> QED
    BY <2>1, Zenon DEF LengthIsSumOfSlices
<1>4. AccountsBalance
  <2>1. ASSUME NEW a \in Accounts
        PROVE  balance[a] = Overall([b \in Buffers |-> ChargedTo(slices[b], a)])
    <3>1. \A b \in Buffers : ChargedTo(slices[b], a) = Weigh(ChargeOf(a), slices[b])
      BY <1>2, SumsWeigh, Zenon
    <3>2. [b \in Buffers |-> ChargedTo(slices[b], a)] = Charges(slices, a)
      BY <3>1 DEF Charges
    <3> QED
      BY <1>1, <3>2, Zenon
  <2> QED
    BY <2>1, Zenon DEF AccountsBalance
<1>5. TrackersRunOnce
  <2>1. ASSUME NEW t \in Callbacks
        PROVE  Overall([b \in Buffers |-> Attached(slices[b], t)]) + ran[t]
                 = IF tracked[t] = -1 THEN 0 ELSE 1
    <3>1. \A b \in Buffers : Attached(slices[b], t) = Weigh(MarksOf(t), slices[b])
      BY <1>2, SumsWeigh, Zenon
    <3>2. [b \in Buffers |-> Attached(slices[b], t)] = Markings(slices, t)
      BY <3>1 DEF Markings
    <3>3. Overall(Markings(slices, t)) \in Nat /\ ran[t] \in Nat
      <4>1. Overall(Markings(slices, t)) \in Nat
        BY <1>1, SharesType, Zenon
      <4> QED
        BY <1>1, <4>1
    <3> DEFINE m == Overall(Markings(slices, t))
               r == ran[t]
    <3>4. m \in Nat /\ r \in Nat /\ r + m = IF tracked[t] = -1 THEN 0 ELSE 1
      BY <1>1, <3>3, Zenon
    <3> HIDE DEF m, r
    <3>5. m + r = IF tracked[t] = -1 THEN 0 ELSE 1
      BY <3>4
    <3> QED
      BY <3>2, <3>5, Zenon DEF m, r
  <2> QED
    BY <2>1, Zenon DEF TrackersRunOnce
<1>6. TypeOK
  <2>1. ASSUME NEW b \in Buffers
        PROVE  length[b] \in Nat
    <3>1. Flat(slices[b]) \in Seq(Byte)
      BY <1>2, FlatType, Zenon
    <3> QED
      BY <1>1, <3>1
  <2>2. ASSUME NEW a \in Accounts
        PROVE  balance[a] \in Nat
    BY <1>1, SharesType, Zenon
  <2>3. length \in [Buffers -> Nat] /\ balance \in [Accounts -> Nat]
    BY <1>1, <2>1, <2>2
  <2> QED
    BY <1>1, <2>3, Zenon DEF TypeOK, Inv, Others, AllSlices, Payer
<1> QED
  BY <1>3, <1>4, <1>5, <1>6

\* Whatever methods are called on whichever buffers, every variable has its
\* type: the sections of a slice always fit into its storage, no length and no
\* account ever falls below 0, and the free list never outgrows free_list_max_.
THEOREM TypeCorrect == Spec => []TypeOK
BY Invariance, InvMeans, PTL

\* For every number of buffers and all sizes, length_ is what the slices hold.
THEOREM LengthsAreExact == Spec => []LengthIsSumOfSlices
BY Invariance, InvMeans, PTL

\* For every set of accounts, an account is charged exactly for the storage
\* of the slices that name it.
THEOREM ChargesAreExact == Spec => []AccountsBalance
BY Invariance, InvMeans, PTL

\* Every drain tracker is attached to one slice or has run, exactly once.
THEOREM NoTrackerIsLost == Spec => []TrackersRunOnce
BY Invariance, InvMeans, PTL
------------------------------------------------------------------------------
(* The refinement of ByteBuffers *)

\* A sequence of bytes without those at its front.
LEMMA LastBytes ==
  ASSUME NEW x \in Seq(Byte), NEW y \in Seq(Byte)
  PROVE  SubSeq(x \o y, Len(x) + 1, Len(x \o y)) = y
<1>1. Len(x \o y) = Len(x) + Len(y)
  OBVIOUS
<1> DEFINE z == SubSeq(x \o y, Len(x) + 1, Len(x \o y))
<1>2. x \o y \in Seq(Byte) /\ Len(x) \in 0..Len(x \o y)
  BY <1>1
<1>3. z \in Seq(Byte) /\ Len(z) = Len(y)
  BY <1>1
<1>4. \A i \in 1..Len(y) : z[i] = y[i]
  BY <1>1
<1> HIDE DEF z
<1>5. z = y
  BY <1>3, <1>4
<1> QED
  BY <1>5 DEF z

\* Each of the things that Step names is a step of the queues or none.
LEMMA StepRefines ==
  ASSUME Inv, Inv', Step
  PROVE  [Contents!Next]_(Contents!vars)
<1> DEFINE con == [b \in Buffers |-> Flat(slices[b])]
           new == [b \in Buffers |-> Flat(slices'[b])]
<1>1. /\ \A b \in Buffers : con[b] = Flat(slices[b]) /\ con[b] \in Seq(Byte)
      /\ \A b \in Buffers : new[b] = Flat(slices'[b]) /\ new[b] \in Seq(Byte)
  <2>1. ASSUME NEW b \in Buffers
        PROVE  Flat(slices[b]) \in Seq(Byte) /\ Flat(slices'[b]) \in Seq(Byte)
    <3>1. slices[b] \in Seq(Slice) /\ slices'[b] \in Seq(Slice)
      BY DEF Inv, Memory, AllSlices
    <3> QED
      BY <3>1, FlatType, Zenon
  <2> QED
    BY <2>1
<1>2. DOMAIN con = Buffers /\ DOMAIN new = Buffers /\ con = [b \in Buffers |-> con[b]] /\ new = [b \in Buffers |-> new[b]]
  OBVIOUS
<1>3. ASSUME NEW B, Keeps(B)
      PROVE  \A x \in Buffers \ B : new[x] = con[x]
  BY <1>1, <1>3, Zenon DEF Keeps
<1> HIDE DEF con, new
<1>4. SUFFICES \/ new = con /\ next' = next
               \/ \E b \in Buffers : \E n \in 1..MaxBytes :
                    /\ \/ new = [con EXCEPT ![b] = con[b] \o Fresh(n)]
                       \/ new = [con EXCEPT ![b] = Fresh(n) \o con[b]]
                    /\ next' = next + n
               \/ next' = next /\ \E b \in Buffers :
                    \/ \E n \in 0..Len(con[b]) :
                         new = [con EXCEPT ![b] = SubSeq(con[b], n + 1, Len(con[b]))]
                    \/ \E r \in Buffers \ {b} :
                         \/ \E n \in 0..Len(con[r]) :
                              new = [con EXCEPT ![b] = con[b] \o SubSeq(con[r], 1, n),
                                                ![r] = SubSeq(con[r], n + 1, Len(con[r]))]
                         \/ new = [con EXCEPT ![b] = con[b] \o con[r]]
                         \/ new = [con EXCEPT ![b] = con[r] \o con[b], ![r] = <<>>]
  <2>1. CASE new = con /\ next' = next
    BY <2>1, Zenon DEF con, new, Contents!vars
  <2>2. ASSUME NEW b \in Buffers, NEW n \in 1..MaxBytes,
               \/ new = [con EXCEPT ![b] = con[b] \o Fresh(n)]
               \/ new = [con EXCEPT ![b] = Fresh(n) \o con[b]],
               next' = next + n
        PROVE  Contents!Next
    <3>1. Contents!Enters(b)
      BY <2>2, Zenon DEF con, new, Contents!Enters, Contents!Fresh, Fresh
    <3> QED
      BY <3>1, Zenon DEF Contents!Next
  <2>3. ASSUME NEW b \in Buffers, next' = next, NEW n \in 0..Len(con[b]),
               new = [con EXCEPT ![b] = SubSeq(con[b], n + 1, Len(con[b]))]
        PROVE  Contents!Next
    <3>1. Contents!Drain(b)
      BY <2>3, Zenon DEF con, new, Contents!Drain
    <3> QED
      BY <3>1, Zenon DEF Contents!Next
  <2>4. ASSUME NEW b \in Buffers, NEW r \in Buffers \ {b}, next' = next,
               \/ \E n \in 0..Len(con[r]) :
                    new = [con EXCEPT ![b] = con[b] \o SubSeq(con[r], 1, n),
                                      ![r] = SubSeq(con[r], n + 1, Len(con[r]))]
               \/ new = [con EXCEPT ![b] = con[b] \o con[r]]
               \/ new = [con EXCEPT ![b] = con[r] \o con[b], ![r] = <<>>]
        PROVE  Contents!Next
    <3>1. Contents!Transfer(b, r)
      BY <2>4 DEF con, new, Contents!Transfer
    <3> QED
      BY <3>1, Zenon DEF Contents!Next
  <2> QED
    BY <1>4, <2>1, <2>2, <2>3, <2>4, Zenon
<1>5. PICK b \in Buffers :
        \/ \E n \in Nat : Enters(b, n)
        \/ Leaves(b)
        \/ \E r \in Buffers \ {b} : MovesOver(b, r) \/ GoesInFront(b, r) \/ Copies(b, r)
  BY Zenon DEF Step
<1>6. ASSUME NEW n \in Nat, Enters(b, n)
      PROVE  \/ new = con /\ next' = next
             \/ /\ n \in 1..MaxBytes
                /\ \/ new = [con EXCEPT ![b] = con[b] \o Fresh(n)]
                   \/ new = [con EXCEPT ![b] = Fresh(n) \o con[b]]
                /\ next' = next + n
  <2>1. /\ n <= MaxBytes /\ next' = next + n /\ \A x \in Buffers \ {b} : new[x] = con[x]
        /\ new[b] = con[b] \o Fresh(n) \/ new[b] = Fresh(n) \o con[b]
    BY <1>1, <1>3, <1>6, Zenon DEF Enters
  <2>2. CASE n = 0
    <3>1. Fresh(n) = <<>>
      BY <2>2 DEF Fresh
    <3>2. new[b] = con[b]
      BY <1>1, <2>1, <3>1, Concatenation, Zenon
    <3>3. new = con
      BY <1>2, <2>1, <3>2
    <3>4. next \in Int
      BY BufferAssumption DEF Inv, Others
    <3> QED
      BY <2>1, <2>2, <3>3, <3>4
  <2>3. CASE n # 0
    <3>1. n \in 1..MaxBytes
      BY <2>1, <2>3, BufferAssumption
    <3> DEFINE y == Fresh(n)
    <3> HIDE DEF y
    <3>2. \A z : new[b] = z => new = [con EXCEPT ![b] = z]
      BY <1>2, <2>1
    <3> QED
      BY <2>1, <3>1, <3>2, Zenon
  <2> QED
    BY <2>2, <2>3
<1>7. ASSUME Leaves(b)
      PROVE  next' = next /\ \E n \in 0..Len(con[b]) :
               new = [con EXCEPT ![b] = SubSeq(con[b], n + 1, Len(con[b]))]
  <2>1. next' = next /\ \A y \in Buffers \ {b} : new[y] = con[y]
    BY <1>3, <1>7, Zenon DEF Leaves
  <2>2. PICK x \in Seq(Byte) : con[b] = x \o new[b]
    BY <1>1, <1>7, Zenon DEF Leaves
  <2>3. SubSeq(con[b], Len(x) + 1, Len(con[b])) = new[b]
    BY <1>1, <2>2, LastBytes, Zenon
  <2>4. Len(x) \in 0..Len(con[b])
    BY <1>1, <2>2
  <2>5. new = [con EXCEPT ![b] = new[b]]
    BY <1>2, <2>1
  <2> QED
    BY <2>1, <2>3, <2>4, <2>5, Zenon
<1>8. ASSUME NEW r \in Buffers \ {b}, MovesOver(b, r)
      PROVE  next' = next /\ \E n \in 0..Len(con[r]) :
               new = [con EXCEPT ![b] = con[b] \o SubSeq(con[r], 1, n),
                                 ![r] = SubSeq(con[r], n + 1, Len(con[r]))]
  <2>1. next' = next /\ \A y \in Buffers \ {b, r} : new[y] = con[y]
    BY <1>3, <1>8, Zenon DEF MovesOver
  <2>2. PICK x \in Seq(Byte) : con[r] = x \o new[r] /\ new[b] = con[b] \o x
    BY <1>1, <1>8, Zenon DEF MovesOver
  <2>3. SubSeq(con[r], Len(x) + 1, Len(con[r])) = new[r]
    BY <1>1, <2>2, LastBytes, Zenon
  <2>4. SubSeq(con[r], 1, Len(x)) = x
    <3>1. new[r] \in Seq(Byte)
      BY <1>1
    <3>2. SubSeq(x \o new[r], 1, Len(x)) = x
      BY <3>1, FirstBytes
    <3> QED
      BY <2>2, <3>2, Zenon
  <2>5. Len(x) \in 0..Len(con[r])
    BY <1>1, <2>2
  <2>6. new = [con EXCEPT ![b] = new[b], ![r] = new[r]]
    BY <1>2, <2>1
  <2>7. new = [con EXCEPT ![b] = con[b] \o SubSeq(con[r], 1, Len(x)),
                          ![r] = SubSeq(con[r], Len(x) + 1, Len(con[r]))]
    BY <2>2, <2>3, <2>4, <2>6, Zenon
  <2> QED
    BY <2>1, <2>5, <2>7, Zenon
<1>9. ASSUME NEW r \in Buffers \ {b}, GoesInFront(b, r)
      PROVE  next' = next /\ new = [con EXCEPT ![b] = con[r] \o con[b], ![r] = <<>>]
  <2>1. next' = next /\ \A y \in Buffers \ {b, r} : new[y] = con[y]
    BY <1>3, <1>9, Zenon DEF GoesInFront
  <2>2. new[r] = <<>> /\ new[b] = con[r] \o con[b]
    BY <1>1, <1>9, Zenon DEF GoesInFront
  <2>3. new = [con EXCEPT ![b] = new[b], ![r] = new[r]]
    BY <1>2, <2>1
  <2> QED
    BY <2>1, <2>2, <2>3, Zenon
<1>10. ASSUME NEW r \in Buffers \ {b}, Copies(b, r)
       PROVE  next' = next /\ new = [con EXCEPT ![b] = con[b] \o con[r]]
  <2>1. next' = next /\ \A y \in Buffers \ {b} : new[y] = con[y]
    BY <1>3, <1>10, Zenon DEF Copies
  <2>2. new[b] = con[b] \o con[r]
    BY <1>1, <1>10, Zenon DEF Copies
  <2>3. new = [con EXCEPT ![b] = new[b]]
    BY <1>2, <2>1
  <2> QED
    BY <2>1, <2>2, <2>3, Zenon
<1> QED
  BY <1>5, <1>6, <1>7, <1>8, <1>9, <1>10, Zenon

\* OwnedImpl implements the queues of bytes of module ByteBuffers: whatever
\* slices are split, shared out, coalesced, linearized, moved or drained, no
\* byte is lost, doubled or out of place, for every number of buffers and all
\* sizes of slices.
THEOREM ContentsAreQueues == Spec => ContentSpec
<1>1. Init => Contents!Init
  <2> SUFFICES ASSUME Init
               PROVE  Contents!Init
    OBVIOUS
  <2>1. slices = [b \in Buffers |-> <<>>] /\ next = 1
    BY Zenon DEF Init
  <2>2. \A b \in Buffers : Flat(slices[b]) = <<>>
    BY <2>1, FlatIs
  <2> QED
    BY <2>1, <2>2 DEF Contents!Init
<1>2. Inv /\ Inv' /\ [Next]_vars => [Contents!Next]_(Contents!vars)
  <2> SUFFICES ASSUME Inv, Inv', [Next]_vars
               PROVE  [Contents!Next]_(Contents!vars)
    OBVIOUS
  <2>1. CASE Next
    BY <2>1, NextStep, StepRefines, Zenon
  <2>2. CASE UNCHANGED vars
    <3>1. slices' = slices /\ next' = next
      BY <2>2, Zenon DEF vars, memory
    <3> QED
      BY <3>1, Zenon DEF Contents!vars
  <2> QED
    BY <2>1, <2>2, Zenon
<1> QED
  BY <1>1, <1>2, Invariance, PTL DEF Spec, ContentSpec, Contents!Spec
==============================================================================
