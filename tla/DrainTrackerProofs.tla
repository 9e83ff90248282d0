-------------------------- MODULE DrainTrackerProofs --------------------------
(***************************************************************************)
(* Proofs about the drain trackers of module OwnedBuffer: a tracker does   *)
(* not run while the byte that it was added behind is in a buffer.  The    *)
(* slices are sets here: all that counts is which bytes and which trackers *)
(* are together in a slice.                                                *)
(***************************************************************************)
EXTENDS OwnedBufferProofs

------------------------------------------------------------------------------
(* The elements of sequences *)

\* What a sequence holds that was put together or cut off.
LEMMA RangeIs ==
  ASSUME NEW T
  PROVE  /\ Range(<<>>) = {}
         /\ \A x \in Seq(T) : Range(x) \subseteq T
         /\ \A x \in Seq(T), s \in T : Range(Append(x, s)) = Range(x) \cup {s}
         /\ \A s \in T : Range(<<s>>) = {s}
         /\ \A x, y \in Seq(T) : Range(x \o y) = Range(x) \cup Range(y)
<1>1. Range(<<>>) = {}
  BY DEF Range
<1>2. ASSUME NEW x \in Seq(T)
      PROVE  Range(x) \subseteq T
  BY DEF Range
<1>3. ASSUME NEW x \in Seq(T), NEW s \in T
      PROVE  Range(Append(x, s)) = Range(x) \cup {s}
  <2> DEFINE z == Append(x, s)
  <2>1. /\ DOMAIN z = 1..(Len(x) + 1) /\ DOMAIN x = 1..Len(x) /\ Len(x) \in Nat
        /\ z[Len(x) + 1] = s /\ \A i \in 1..Len(x) : z[i] = x[i]
    OBVIOUS
  <2> HIDE DEF z
  <2>2. Range(z) = Range(x) \cup {s}
    BY <2>1 DEF Range
  <2> QED
    BY <2>2 DEF z
<1>4. ASSUME NEW s \in T
      PROVE  Range(<<s>>) = {s}
  BY DEF Range
<1>5. ASSUME NEW x \in Seq(T), NEW y \in Seq(T)
      PROVE  Range(x \o y) = Range(x) \cup Range(y)
  <2> DEFINE z == x \o y
             m == Len(x)
             n == Len(y)
  <2>1. /\ DOMAIN z = 1..(m + n) /\ DOMAIN x = 1..m /\ DOMAIN y = 1..n /\ m \in Nat /\ n \in Nat
        /\ \A i \in 1..m : z[i] = x[i]
        /\ \A i \in 1..n : z[m + i] = y[i]
    OBVIOUS
  <2> HIDE DEF z, m, n
  <2>2. /\ \A i \in 1..m : i \in 1..(m + n)
        /\ \A i \in 1..n : m + i \in 1..(m + n)
        /\ \A i \in 1..(m + n) : i \in 1..m \/ (i - m \in 1..n /\ m + (i - m) = i)
    BY <2>1
  <2>3. Range(x) \subseteq Range(z) /\ Range(y) \subseteq Range(z)
    BY <2>1, <2>2 DEF Range
  <2>4. ASSUME NEW i \in 1..(m + n)
        PROVE  z[i] \in Range(x) \cup Range(y)
    <3>1. CASE i \in 1..m
      BY <2>1, <3>1 DEF Range
    <3>2. CASE i - m \in 1..n /\ m + (i - m) = i
      <4>1. z[i] = y[i - m]
        BY <2>1, <3>2
      <4> QED
        BY <2>1, <3>2, <4>1 DEF Range
    <3> QED
      BY <2>2, <3>1, <3>2
  <2>5. Range(z) \subseteq Range(x) \cup Range(y)
    BY <2>1, <2>4 DEF Range
  <2>6. Range(z) = Range(x) \cup Range(y)
    BY <2>3, <2>5
  <2> QED
    BY <2>6 DEF z
<1> QED
  BY <1>1, <1>2, <1>3, <1>4, <1>5

\* What a part of a sequence holds.
LEMMA RangeOfParts ==
  ASSUME NEW T, NEW x \in Seq(T), NEW k \in 0..Len(x)
  PROVE  /\ SubSeq(x, 1, k) \in Seq(T) /\ SubSeq(x, k + 1, Len(x)) \in Seq(T)
         /\ Range(SubSeq(x, 1, k)) \subseteq Range(x)
         /\ Range(SubSeq(x, k + 1, Len(x))) \subseteq Range(x)
         /\ Range(x) = Range(SubSeq(x, 1, k)) \cup Range(SubSeq(x, k + 1, Len(x)))
<1> DEFINE y == SubSeq(x, 1, k)
           z == SubSeq(x, k + 1, Len(x))
<1>1. y \in Seq(T) /\ z \in Seq(T) /\ x = y \o z
  BY SplitAt
<1> HIDE DEF y, z
<1>2. Range(x) = Range(y) \cup Range(z)
  BY <1>1, RangeIs
<1>3. Range(y) \subseteq Range(x) /\ Range(z) \subseteq Range(x)
  BY <1>2
<1> QED
  BY <1>1, <1>2, <1>3 DEF y, z

\* The bytes of slices are those of their content.
LEMMA BytesAreFlat ==
  ASSUME NEW ss \in Seq(Slice)
  PROVE  Bytes(ss) = Range(Flat(ss)) /\ Bytes(ss) = UNION {Range(s.data) : s \in Range(ss)}
<1>1. \A tt \in Seq(Slice) : Bytes(tt) = UNION {Range(s.data) : s \in Range(tt)}
  BY DEF Bytes, Range
<1> DEFINE S == {tt \in Seq(Slice) : Bytes(tt) = Range(Flat(tt))}
<1>2. <<>> \in S
  <2>1. <<>> \in Seq(Slice) /\ Flat(<<>>) = <<>> /\ Range(<<>>) = {}
    BY FlatIs, RangeIs
  <2>2. Bytes(<<>>) = {}
    BY <1>1, <2>1
  <2> QED
    BY <2>1, <2>2
<1>3. ASSUME NEW tt \in Seq(Slice), NEW s \in Slice, tt \in S
      PROVE  Append(tt, s) \in S
  <2>1. Append(tt, s) \in Seq(Slice) /\ Range(Append(tt, s)) = Range(tt) \cup {s}
    BY RangeIs
  <2>2. Bytes(Append(tt, s)) = Bytes(tt) \cup Range(s.data)
    <3> DEFINE z == Append(tt, s)
    <3>1. /\ Range(z) = Range(tt) \cup {s}
          /\ Bytes(z) = UNION {Range(u.data) : u \in Range(z)}
          /\ Bytes(tt) = UNION {Range(u.data) : u \in Range(tt)}
      BY <1>1, <2>1
    <3> HIDE DEF z
    <3>2. Bytes(z) = Bytes(tt) \cup Range(s.data)
      BY <3>1
    <3> QED
      BY <3>2 DEF z
  <2>3. Flat(Append(tt, s)) = Flat(tt) \o s.data /\ Flat(tt) \in Seq(Byte) /\ s.data \in Seq(Byte)
    BY FlatIs, FlatType, SliceIs
  <2>4. Range(Flat(Append(tt, s))) = Range(Flat(tt)) \cup Range(s.data)
    BY <2>3, RangeIs
  <2> QED
    BY <1>3, <2>1, <2>2, <2>4
<1> HIDE DEF S
<1>4. Seq(Slice) \subseteq S
  BY <1>2, <1>3, Adding!SequenceInduction
<1> QED
  BY <1>1, <1>4 DEF S

------------------------------------------------------------------------------
(* Trackers follow bytes *)

\* The slices V come from the slices S and from the bytes N: a byte of V that is not
\* one of N was in a slice of S, and the trackers of that slice are with it.
Follows(S, V, N) ==
  \A v \in V : \A k \in Range(v.data) \ N :
    \E s \in S : k \in Range(s.data) /\ Range(s.trackers) \subseteq Range(v.trackers)

\* Slices that stay.
LEMMA FollowsSame ==
  ASSUME NEW S, NEW V, V \subseteq S, NEW N
  PROVE  Follows(S, V, N)
BY Zenon DEF Follows

\* Two changes one after the other.
LEMMA FollowsOn ==
  ASSUME NEW S, NEW V, NEW W, NEW M, NEW N, Follows(S, V, M), Follows(V, W, N)
  PROVE  Follows(S, W, M \cup N)
<1> SUFFICES ASSUME NEW w \in W, NEW k \in Range(w.data), k \notin M, k \notin N
             PROVE  \E s \in S : k \in Range(s.data) /\ Range(s.trackers) \subseteq Range(w.trackers)
  BY Zenon DEF Follows
<1>1. PICK v \in V : k \in Range(v.data) /\ Range(v.trackers) \subseteq Range(w.trackers)
  BY Zenon DEF Follows
<1>2. PICK s \in S : k \in Range(s.data) /\ Range(s.trackers) \subseteq Range(v.trackers)
  BY <1>1, Zenon DEF Follows
<1> QED
  BY <1>1, <1>2, Zenon

\* Slices and bytes that do not matter.
LEMMA FollowsMore ==
  ASSUME NEW S, NEW R, NEW V, NEW W, NEW M, NEW N, Follows(S, V, M),
         S \subseteq R, W \subseteq V, M \subseteq N
  PROVE  Follows(R, W, N)
BY Zenon DEF Follows

\* Slices of two kinds.
LEMMA FollowsBoth ==
  ASSUME NEW S, NEW V, NEW W, NEW N, Follows(S, V, N), Follows(S, W, N)
  PROVE  Follows(S, V \cup W, N)
BY Zenon DEF Follows

\* A slice that takes over the content and the trackers of two others, or new bytes.
LEMMA FollowsMerged ==
  ASSUME NEW S, NEW r \in S, NEW s \in S, NEW v, NEW N,
         Range(v.data) \subseteq Range(r.data) \cup Range(s.data) \cup N,
         Range(r.trackers) \subseteq Range(v.trackers),
         Range(s.trackers) \subseteq Range(v.trackers)
  PROVE  Follows(S, {v}, N)
BY Zenon DEF Follows

\* A slice of new bytes.
LEMMA FollowsNew ==
  ASSUME NEW S, NEW v, NEW N, Range(v.data) \subseteq N
  PROVE  Follows(S, {v}, N)
BY Zenon DEF Follows

\* One slice is replaced by another.
LEMMA RangeReplaced ==
  ASSUME NEW T, NEW ss \in Seq(T), NEW i \in 1..Len(ss), NEW u \in T
  PROVE  Range([ss EXCEPT ![i] = u]) \subseteq Range(ss) \cup {u}
BY DEF Range

\* The last slice is replaced by one with more bytes or trackers.
LEMMA BackReplacedFollows ==
  ASSUME NEW ss \in Seq(Slice), ss # <<>>, NEW u \in Slice, NEW N,
         Range(u.data) \subseteq Range(Last(ss).data) \cup N,
         Range(Last(ss).trackers) \subseteq Range(u.trackers)
  PROVE  Follows(Range(ss), Range(ReplaceBack(ss, u)), N)
<1>1. Len(ss) \in 1..Len(ss) /\ Last(ss) = ss[Len(ss)] /\ DOMAIN ss = 1..Len(ss)
  <2>1. Len(ss) \in DOMAIN ss /\ Last(ss) = ss[Len(ss)]
    BY Ends, Zenon
  <2> QED
    BY <2>1
<1>2. Last(ss) \in Range(ss)
  BY <1>1, Zenon DEF Range
<1>3. Range(ReplaceBack(ss, u)) \subseteq Range(ss) \cup {u}
  BY <1>1, RangeReplaced DEF ReplaceBack
<1>4. Follows(Range(ss), {u}, N)
  BY <1>2, FollowsMerged
<1>5. Follows(Range(ss), Range(ss), N)
  BY FollowsSame
<1>6. Follows(Range(ss), Range(ss) \cup {u}, N)
  BY <1>4, <1>5, FollowsBoth, Zenon
<1> QED
  BY <1>3, <1>6, FollowsMore

------------------------------------------------------------------------------
(* The private methods *)

\* Slice::append() on the last slice.
LEMMA AppendToBackFollows ==
  ASSUME NEW c \in Context, NEW data \in Seq(Byte),
         data = <<>> \/ (c.slices # <<>> /\ Len(data) <= BackRoom(c))
  PROVE  LET d == AppendToBack(c, data)
         IN Follows(Range(c.slices), Range(d.slices), Range(data))
<1> DEFINE d == AppendToBack(c, data)
<1>1. CASE data = <<>>
  BY <1>1, FollowsSame DEF AppendToBack
<1>2. CASE data # <<>>
  <2> DEFINE s == Last(c.slices)
             u == [s EXCEPT !.data = @ \o data]
  <2>1. c.slices \in Seq(Slice) /\ c.slices # <<>> /\ s \in Slice /\ s = c.slices[Len(c.slices)]
    BY <1>2, DebtType, Ends
  <2>2. d.slices = ReplaceBack(c.slices, u)
    BY <1>2, <2>1 DEF AppendToBack, ReplaceBack, Context
  <2>3. u.data = s.data \o data /\ u.trackers = s.trackers /\ s.data \in Seq(Byte)
    BY <2>1, SliceIs DEF Slice
  <2>4. u \in Slice
    <3>1. d \in Context
      BY AppendToBackIs DEF TakesOver
    <3>2. d.slices \in Seq(Slice) /\ d.slices # <<>>
      BY <2>1, <3>1, DebtType, AppendToBackIs
    <3> QED
      BY <2>1, <2>2, <3>2 DEF ReplaceBack
  <2>5. Range(u.data) \subseteq Range(s.data) \cup Range(data)
    BY <2>3, RangeIs
  <2> HIDE DEF s, u, d
  <2>6. Range(s.trackers) \subseteq Range(u.trackers)
    BY <2>3
  <2> QED
    BY <2>1, <2>2, <2>4, <2>5, <2>6, BackReplacedFollows DEF s, d
<1> QED
  BY <1>1, <1>2

\* Slices in front of others.
LEMMA FollowsConcat ==
  ASSUME NEW S, NEW N, NEW ss \in Seq(Slice), NEW tt \in Seq(Slice),
         Follows(S, Range(ss), N), Follows(S, Range(tt), N)
  PROVE  Follows(S, Range(ss \o tt), N)
<1>1. Range(ss \o tt) = Range(ss) \cup Range(tt)
  BY RangeIs
<1>2. Follows(S, Range(ss) \cup Range(tt), N)
  BY FollowsBoth
<1> QED
  BY <1>1, <1>2

\* A slice behind others.
LEMMA FollowsAppend ==
  ASSUME NEW S, NEW N, NEW ss \in Seq(Slice), NEW u \in Slice,
         Follows(S, Range(ss), N), Follows(S, {u}, N)
  PROVE  Follows(S, Range(Append(ss, u)), N)
<1>1. Range(Append(ss, u)) = Range(ss) \cup {u}
  BY RangeIs
<1>2. Follows(S, Range(ss) \cup {u}, N)
  BY FollowsBoth
<1> QED
  BY <1>1, <1>2

\* What a slice and those behind it are.
LEMMA RangeInFront ==
  ASSUME NEW ss \in Seq(Slice), NEW u \in Slice
  PROVE  Range(<<u>> \o ss) = {u} \cup Range(ss) /\ <<u>> \o ss \in Seq(Slice)
<1> DEFINE one == <<u>>
<1>1. one \in Seq(Slice) /\ Range(one) = {u}
  BY RangeIs
<1> HIDE DEF one
<1>2. Range(one \o ss) = Range(one) \cup Range(ss) /\ one \o ss \in Seq(Slice)
  BY <1>1, RangeIs
<1>3. Range(one \o ss) = {u} \cup Range(ss)
  BY <1>1, <1>2
<1> QED
  BY <1>2, <1>3 DEF one

\* A slice in front of others.
LEMMA FollowsInFront ==
  ASSUME NEW S, NEW N, NEW ss \in Seq(Slice), NEW u \in Slice,
         Follows(S, Range(ss), N), Follows(S, {u}, N)
  PROVE  Follows(S, Range(<<u>> \o ss), N) /\ <<u>> \o ss \in Seq(Slice)
<1> DEFINE tt == <<u>> \o ss
<1>1. Range(tt) = {u} \cup Range(ss) /\ tt \in Seq(Slice)
  BY RangeInFront
<1> HIDE DEF tt
<1>2. Follows(S, {u} \cup Range(ss), N)
  BY FollowsBoth
<1>3. Follows(S, Range(tt), N)
  BY <1>1, <1>2
<1> QED
  BY <1>1, <1>3 DEF tt

\* A new last slice.
LEMMA EmplaceBackNewFollows ==
  ASSUME NEW c \in Context, NEW cap \in Nat, NEW data \in Seq(Byte), Len(data) <= cap
  PROVE  LET d == EmplaceBackNew(c, cap, data)
         IN d \in Context /\ Follows(Range(c.slices), Range(d.slices), Range(data))
<1> DEFINE d == EmplaceBackNew(c, cap, data)
           u == NewSlice(cap, c.account, data)
<1>1. c.slices \in Seq(Slice) /\ c.account \in Payer
  BY DebtType DEF Context
<1>2. d.slices = Append(c.slices, u) /\ d \in Context
  BY EmplaceBackNewIs DEF TakesOver
<1>3. u \in Slice /\ u.data = data
  <2>1. IsNewSlice(u, cap, c.account, data)
    BY <1>1, NewSliceIs, Zenon
  <2> QED
    BY <2>1, Zenon DEF IsNewSlice
<1> HIDE DEF d, u
<1>4. Follows(Range(c.slices), {u}, Range(data))
  BY <1>3, FollowsNew
<1>5. Follows(Range(c.slices), Range(c.slices), Range(data))
  BY FollowsSame
<1>6. Follows(Range(c.slices), Range(Append(c.slices, u)), Range(data))
  BY <1>1, <1>3, <1>4, <1>5, FollowsAppend
<1> QED
  BY <1>2, <1>6 DEF d

\* Slices that took the bytes x, then the bytes y.
LEMMA FollowsOneByOne ==
  ASSUME NEW S, NEW V, NEW W, NEW x \in Seq(Byte), NEW y \in Seq(Byte),
         Follows(S, V, Range(x)), Follows(V, W, Range(y))
  PROVE  Follows(S, W, Range(x \o y))
<1>1. Range(x \o y) = Range(x) \cup Range(y)
  BY RangeIs
<1>2. Follows(S, W, Range(x) \cup Range(y))
  BY FollowsOn
<1> QED
  BY <1>1, <1>2

\* OwnedImpl::addImpl().
LEMMA AddImplFollows ==
  ASSUME NEW c \in Context, NEW data \in Seq(Byte)
  PROVE  LET d == AddImpl(c, data)
         IN d \in Context /\ Follows(Range(c.slices), Range(d.slices), Range(data))
<1> DEFINE n == Min({BackRoom(c), Len(data)})
           x == SubSeq(data, 1, n)
           y == SubSeq(data, n + 1, Len(data))
           filled == AppendToBack(c, x)
           new == EmplaceBackNew(filled, SliceSize(Len(y)), y)
           added == IF y = <<>> THEN filled ELSE new
           d == AddImpl(c, data)
<1>1. d = [added EXCEPT !.length = @ + Len(data)]
  BY DEF AddImpl
<1>2. /\ n \in 0..Len(data) /\ n <= BackRoom(c) /\ BackRoom(c) \in Nat /\ Len(data) \in Nat
      /\ (c.slices = <<>> => n = 0)
  BY BackRoomType, MinMaxOfTwo
<1> HIDE DEF n
<1>3. x \in Seq(Byte) /\ y \in Seq(Byte) /\ Len(x) = n /\ Len(y) \in Nat /\ x \o y = data
  BY <1>2, BytesSplit
<1> HIDE DEF x, y
<1>4. x = <<>> \/ (c.slices # <<>> /\ Len(x) <= BackRoom(c))
  BY <1>2, <1>3
<1>5. filled \in Context /\ Follows(Range(c.slices), Range(filled.slices), Range(x))
  BY <1>3, <1>4, AppendToBackIs, AppendToBackFollows DEF TakesOver
<1> HIDE DEF filled
<1>6. added \in Context /\ Follows(Range(c.slices), Range(added.slices), Range(data))
  <2>1. CASE y = <<>>
    <3>1. x \o y = x
      BY <1>3, <2>1, Concatenation, Zenon
    <3>2. added = filled
      BY <2>1, Zenon
    <3> QED
      BY <1>3, <1>5, <3>1, <3>2, Zenon
  <2>2. CASE y # <<>>
    <3>1. SliceSize(Len(y)) \in Nat /\ Len(y) <= SliceSize(Len(y))
      BY <1>3, SliceSizeSuffices
    <3>2. new \in Context /\ Follows(Range(filled.slices), Range(new.slices), Range(y))
      BY <1>3, <1>5, <3>1, EmplaceBackNewFollows
    <3>3. added = new
      BY <2>2, Zenon
    <3> HIDE DEF new, added
    <3>4. Follows(Range(c.slices), Range(new.slices), Range(x \o y))
      BY <1>3, <1>5, <3>2, FollowsOneByOne
    <3> QED
      BY <1>3, <3>2, <3>3, <3>4, Zenon
  <2> QED
    BY <2>1, <2>2
<1> HIDE DEF added
<1>7. d.slices = added.slices
  BY <1>1, <1>6 DEF Context
<1>8. d \in Context
  BY AddImplIs DEF TakesOver
<1> QED
  BY <1>6, <1>7, <1>8, Zenon

\* Slices of another buffer are copied, one after the other.
LEMMA AddSlicesFollows ==
  ASSUME NEW c \in Context, NEW ss \in Seq(Slice)
  PROVE  LET d == AddSlices(c, ss)
         IN d \in Context /\ Follows(Range(c.slices), Range(d.slices), Bytes(ss))
<1> DEFINE Good(tt) == LET d == AddSlices(c, tt)
                       IN d \in Context /\ Follows(Range(c.slices), Range(d.slices), Range(Flat(tt)))
           S == {tt \in Seq(Slice) : Good(tt)}
<1>1. \A tt : AddSlices(c, tt) = Copying!Fold(c, tt)
  BY DEF AddSlices, FoldLeft, MapThenFoldSet, Max, Copying!Fold,
       Copying!MapThenFoldSet, Copying!Latest
<1>2. Good(<<>>)
  <2>1. AddSlices(c, <<>>) = c
    BY <1>1, Copying!FoldOfNone
  <2>2. Follows(Range(c.slices), Range(c.slices), Range(Flat(<<>>)))
    BY FollowsSame
  <2> QED
    BY <2>1, <2>2
<1>3. ASSUME NEW tt \in Seq(Slice), NEW s \in Slice, Good(tt)
      PROVE  Good(Append(tt, s))
  <2> DEFINE d == AddSlices(c, tt)
             e == AddImpl(d, s.data)
  <2>1. AddSlices(c, Append(tt, s)) = e
    <3>1. Copying!Fold(c, Append(tt, s)) = AddSlice(Copying!Fold(c, tt), s)
      BY Copying!FoldOfAppend
    <3> QED
      BY <1>1, <3>1 DEF AddSlice
  <2>2. d \in Context /\ Follows(Range(c.slices), Range(d.slices), Range(Flat(tt)))
    BY <1>3
  <2> HIDE DEF d
  <2>3. s.data \in Seq(Byte) /\ Flat(tt) \in Seq(Byte) /\ Flat(Append(tt, s)) = Flat(tt) \o s.data
    BY FlatEnds, FlatType
  <2>4. e \in Context /\ Follows(Range(d.slices), Range(e.slices), Range(s.data))
    BY <2>2, <2>3, AddImplFollows
  <2> HIDE DEF e
  <2>5. Follows(Range(c.slices), Range(e.slices), Range(Flat(tt) \o s.data))
    BY <2>2, <2>3, <2>4, FollowsOneByOne
  <2> QED
    BY <2>1, <2>3, <2>4, <2>5, Zenon
<1> HIDE DEF Good
<1>4. <<>> \in S /\ \A tt \in Seq(Slice), s \in Slice : tt \in S => Append(tt, s) \in S
  BY <1>2, <1>3
<1> HIDE DEF S
<1>5. ss \in S
  BY <1>4, Copying!SequenceInduction
<1>6. Bytes(ss) = Range(Flat(ss))
  BY BytesAreFlat
<1> QED
  BY <1>5, <1>6 DEF S, Good

\* A slice of another buffer becomes the last one.
LEMMA TakeSliceFollows ==
  ASSUME NEW c \in Context, NEW s \in Slice
  PROVE  LET e == TakeSlice(c, s)
         IN e \in Context /\ Follows(Range(c.slices) \cup {s}, Range(e.slices), {})
<1> DEFINE u == MaybeCharged(c, s)
           d == ChargeFor(c, s)
           e == TakeSlice(c, s)
           S == Range(c.slices) \cup {s}
<1>1. /\ u \in Slice /\ u.data = s.data /\ u.trackers = s.trackers
      /\ d \in Context /\ d.slices = c.slices /\ c.slices \in Seq(Slice)
  BY ChargedIs, DebtType DEF OnlyAccounts
<1>2. e.slices = Append(d.slices, u)
  BY <1>1 DEF TakeSlice, Context
<1>3. e \in Context
  BY TakeSliceIs DEF TakesOver
<1> HIDE DEF u, d, e
<1>4. Follows(S, {u}, {}) /\ Follows(S, Range(c.slices), {})
  <2>1. s \in S /\ Range(c.slices) \subseteq S
    OBVIOUS
  <2> HIDE DEF S
  <2>2. Range(u.data) \subseteq Range(s.data) \cup Range(s.data) \cup {} /\ Range(s.trackers) \subseteq Range(u.trackers)
    BY <1>1, Zenon
  <2> QED
    BY <2>1, <2>2, FollowsMerged, FollowsSame
<1> HIDE DEF S
<1>5. Follows(S, Range(Append(c.slices, u)), {})
  BY <1>1, <1>4, FollowsAppend
<1> QED
  BY <1>1, <1>2, <1>3, <1>5 DEF e, S

\* The last slice takes over the content and the trackers of another one.
LEMMA BackMergedFollows ==
  ASSUME NEW ss \in Seq(Slice), ss # <<>>, NEW s \in Slice, NEW v \in Slice,
         Range(v.data) \subseteq Range(Last(ss).data) \cup Range(s.data),
         Range(Last(ss).trackers) \subseteq Range(v.trackers),
         Range(s.trackers) \subseteq Range(v.trackers)
  PROVE  Follows(Range(ss) \cup {s}, Range(ReplaceBack(ss, v)), {})
<1> DEFINE S == Range(ss) \cup {s}
<1>1. Len(ss) \in 1..Len(ss) /\ Last(ss) = ss[Len(ss)] /\ DOMAIN ss = 1..Len(ss)
  <2>1. Len(ss) \in DOMAIN ss /\ Last(ss) = ss[Len(ss)]
    BY Ends, Zenon
  <2> QED
    BY <2>1
<1>2. Last(ss) \in S /\ s \in S /\ Range(ss) \subseteq S
  BY <1>1, Zenon DEF Range
<1>3. Range(ReplaceBack(ss, v)) \subseteq Range(ss) \cup {v}
  BY <1>1, RangeReplaced DEF ReplaceBack
<1> HIDE DEF S
<1>4. Follows(S, {v}, {})
  <2>1. Range(v.data) \subseteq Range(Last(ss).data) \cup Range(s.data) \cup {}
    OBVIOUS
  <2> QED
    BY <1>2, <2>1, FollowsMerged
<1>5. Follows(S, Range(ss), {})
  BY <1>2, FollowsSame
<1>6. Follows(S, Range(ss) \cup {v}, {})
  BY <1>4, <1>5, FollowsBoth, Zenon
<1> QED
  BY <1>3, <1>6, FollowsMore DEF S

\* Data that fits goes into the last slice as a whole.
LEMMA AddImplFits ==
  ASSUME NEW c \in Context, NEW data \in Seq(Byte), c.slices # <<>>, Len(data) <= BackRoom(c)
  PROVE  LET d == AddImpl(c, data)
         IN \E x \in Slice : /\ d.slices = ReplaceBack(c.slices, x)
                             /\ Range(x.data) \subseteq Range(Last(c.slices).data) \cup Range(data)
                             /\ x.trackers = Last(c.slices).trackers
<1> DEFINE d == AddImpl(c, data)
           s == Last(c.slices)
           u == [s EXCEPT !.data = @ \o data]
           n == Min({BackRoom(c), Len(data)})
<1>1. c.slices \in Seq(Slice) /\ s \in Slice /\ s = c.slices[Len(c.slices)] /\ Len(c.slices) \in DOMAIN c.slices
  BY DebtType, Ends
<1>2. n = Len(data) /\ Len(data) \in Nat
  BY BackRoomType, MinMaxOfTwo
<1>3. SubSeq(data, 1, n) = data /\ SubSeq(data, n + 1, Len(data)) = <<>>
  <2> HIDE DEF n
  <2>1. SubSeq(data, 1, Len(data)) = data
    BY SubSeqFull
  <2>2. SubSeq(data, Len(data) + 1, Len(data)) = <<>>
    OBVIOUS
  <2> QED
    BY <1>2, <2>1, <2>2
<1>4. d = [AppendToBack(c, data) EXCEPT !.length = @ + Len(data)]
  <2> HIDE DEF n
  <2> QED
    BY <1>3 DEF AddImpl, n
<1>5. AppendToBack(c, data) \in Context
  BY AppendToBackIs DEF TakesOver
<1>6. d.slices = AppendToBack(c, data).slices
  BY <1>4, <1>5 DEF Context
<1> HIDE DEF d, n
<1>7. CASE data = <<>>
  <2>1. AppendToBack(c, data) = c
    BY <1>7 DEF AppendToBack
  <2>2. ReplaceBack(c.slices, s) = c.slices
    BY <1>1 DEF ReplaceBack
  <2>3. Range(s.data) \subseteq Range(Last(c.slices).data) \cup Range(data)
    BY DEF s
  <2> HIDE DEF s
  <2>4. d.slices = ReplaceBack(c.slices, s) /\ s.trackers = Last(c.slices).trackers
    BY <1>6, <2>1, <2>2 DEF s
  <2> QED
    BY <1>1, <2>3, <2>4 DEF d
<1>8. CASE data # <<>>
  <2>1. AppendToBack(c, data).slices = ReplaceBack(c.slices, u)
    BY <1>1, <1>8 DEF AppendToBack, ReplaceBack, Context
  <2>2. u.data = s.data \o data /\ u.trackers = s.trackers /\ s.data \in Seq(Byte)
    BY <1>1, SliceIs DEF Slice
  <2>3. u \in Slice
    <3>1. d \in Context /\ d.slices \in Seq(Slice) /\ d.slices # <<>>
      BY AddImplIs, DebtType DEF TakesOver, d
    <3> QED
      BY <1>1, <1>6, <2>1, <3>1 DEF ReplaceBack
  <2>4. Range(u.data) \subseteq Range(s.data) \cup Range(data)
    BY <2>2, RangeIs
  <2> HIDE DEF u
  <2> QED
    BY <1>6, <2>1, <2>2, <2>3, <2>4 DEF d, s
<1> QED
  BY <1>7, <1>8

\* move() of one slice.
LEMMA CoalesceOrAddSliceFollows ==
  ASSUME NEW c \in Context, NEW s \in Slice
  PROVE  LET e == CoalesceOrAddSlice(c, s)
         IN e \in Context /\ Follows(Range(c.slices) \cup {s}, Range(e.slices), {})
<1> DEFINE e == CoalesceOrAddSlice(c, s)
<1>1. CASE ~CanCoalesce(c, s)
  BY <1>1, TakeSliceFollows DEF CoalesceOrAddSlice
<1>2. CASE CanCoalesce(c, s)
  <2> DEFINE d == AddImpl(c, s.data)
             x == Last(d.slices)
             v == [x EXCEPT !.trackers = x.trackers \o s.trackers]
             b == [d EXCEPT !.slices = ReplaceBack(d.slices, v)]
  <2>1. /\ c.slices # <<>> /\ c.slices \in Seq(Slice) /\ s.data \in Seq(Byte) /\ Len(s.data) <= BackRoom(c)
        /\ s.trackers \in Seq(Callbacks) /\ s.account \in Payer /\ -s.cap \in Int
    BY <1>2, SliceIs, DebtType, BackRoomType DEF CanCoalesce, DataSize
  <2>2. d \in Context /\ d.slices \in Seq(Slice) /\ d.slices # <<>>
    BY <2>1, AddImplIs, DebtType DEF TakesOver
  <2>3. x \in Slice /\ x = d.slices[Len(d.slices)]
    BY <2>2, Ends
  <2>4. PICK y \in Slice : /\ d.slices = ReplaceBack(c.slices, y)
                           /\ Range(y.data) \subseteq Range(Last(c.slices).data) \cup Range(s.data)
                           /\ y.trackers = Last(c.slices).trackers
    BY <2>1, AddImplFits
  <2>5. e = Charge(b, s.account, -s.cap)
    BY <1>2, <2>3 DEF CoalesceOrAddSlice, ReplaceBack
  <2> HIDE DEF d
  <2>6. x = y /\ ReplaceBack(d.slices, v) = ReplaceBack(c.slices, v)
    BY <2>1, <2>3, <2>4 DEF ReplaceBack
  <2> HIDE DEF x
  <2>7. v \in Slice /\ v.data = x.data /\ v.trackers = x.trackers \o s.trackers /\ x.trackers \in Seq(Callbacks)
    <3>1. x.trackers \in Seq(Callbacks) /\ x.trackers \o s.trackers \in Seq(Callbacks)
      BY <2>1, <2>3, SliceIs
    <3> QED
      BY <2>3, <3>1 DEF Slice, ReservableSize
  <2> HIDE DEF v
  <2>8. ReplaceBack(d.slices, v) \in Seq(Slice)
    BY <2>2, <2>7, BackReplaced
  <2>9. b \in Context /\ b.slices = ReplaceBack(c.slices, v)
    BY <2>2, <2>6, <2>8 DEF Context
  <2> HIDE DEF b, e
  <2>10. e \in Context /\ e.slices = b.slices
    <3>1. OnlyAccounts(b, Charge(b, s.account, -s.cap))
      BY <2>1, <2>9, ChargeIs
    <3> QED
      BY <2>5, <3>1 DEF OnlyAccounts
  <2>11. Range(v.trackers) = Range(x.trackers) \cup Range(s.trackers)
    BY <2>1, <2>7, RangeIs
  <2>12. /\ Range(v.data) \subseteq Range(Last(c.slices).data) \cup Range(s.data)
         /\ Range(Last(c.slices).trackers) \subseteq Range(v.trackers)
         /\ Range(s.trackers) \subseteq Range(v.trackers)
    BY <2>4, <2>6, <2>7, <2>11
  <2>13. Follows(Range(c.slices) \cup {s}, Range(ReplaceBack(c.slices, v)), {})
    BY <2>1, <2>7, <2>12, BackMergedFollows
  <2> QED
    BY <2>9, <2>10, <2>13 DEF e
<1> QED
  BY <1>1, <1>2

\* A slice comes to those that came before.
LEMMA FollowsTaken ==
  ASSUME NEW S, NEW V, NEW W, NEW s, Follows(S, V, {}), Follows(V \cup {s}, W, {})
  PROVE  Follows(S \cup {s}, W, {})
<1> DEFINE U == S \cup {s}
<1>1. S \subseteq U /\ {s} \subseteq U
  OBVIOUS
<1> HIDE DEF U
<1>2. Follows(U, V, {})
  BY <1>1, FollowsMore
<1>3. Follows(U, {s}, {})
  BY <1>1, FollowsSame
<1>4. Follows(U, V \cup {s}, {})
  BY <1>2, <1>3, FollowsBoth, Zenon
<1>5. Follows(U, W, {} \cup {})
  BY <1>4, FollowsOn
<1>6. {} \cup {} = {}
  OBVIOUS
<1> QED
  BY <1>5, <1>6 DEF U

\* move() of slices, one after the other.
LEMMA CoalesceOrAddSlicesFollows ==
  ASSUME NEW c \in Context, NEW ss \in Seq(Slice)
  PROVE  LET d == CoalesceOrAddSlices(c, ss)
         IN d \in Context /\ Follows(Range(c.slices) \cup Range(ss), Range(d.slices), {})
<1> DEFINE Good(tt) == LET d == CoalesceOrAddSlices(c, tt)
                       IN d \in Context /\ Follows(Range(c.slices) \cup Range(tt), Range(d.slices), {})
           S == {tt \in Seq(Slice) : Good(tt)}
<1>1. \A tt : CoalesceOrAddSlices(c, tt) = Coalescing!Fold(c, tt)
  BY DEF CoalesceOrAddSlices, FoldLeft, MapThenFoldSet, Max, Coalescing!Fold,
       Coalescing!MapThenFoldSet, Coalescing!Latest
<1>2. Good(<<>>)
  <2>1. CoalesceOrAddSlices(c, <<>>) = c
    BY <1>1, Coalescing!FoldOfNone
  <2>2. Follows(Range(c.slices) \cup Range(<<>>), Range(c.slices), {})
    BY FollowsSame
  <2> QED
    BY <2>1, <2>2
<1>3. ASSUME NEW tt \in Seq(Slice), NEW s \in Slice, Good(tt)
      PROVE  Good(Append(tt, s))
  <2> DEFINE d == CoalesceOrAddSlices(c, tt)
             e == CoalesceOrAddSlice(d, s)
  <2>1. CoalesceOrAddSlices(c, Append(tt, s)) = e
    <3>1. Coalescing!Fold(c, Append(tt, s)) = CoalesceOrAddSlice(Coalescing!Fold(c, tt), s)
      BY Coalescing!FoldOfAppend
    <3> QED
      BY <1>1, <3>1
  <2>2. d \in Context /\ Follows(Range(c.slices) \cup Range(tt), Range(d.slices), {})
    BY <1>3
  <2> HIDE DEF d
  <2>3. e \in Context /\ Follows(Range(d.slices) \cup {s}, Range(e.slices), {})
    BY <2>2, CoalesceOrAddSliceFollows
  <2> HIDE DEF e
  <2>4. Follows((Range(c.slices) \cup Range(tt)) \cup {s}, Range(e.slices), {})
    BY <2>2, <2>3, FollowsTaken
  <2>5. Range(c.slices) \cup Range(Append(tt, s)) = (Range(c.slices) \cup Range(tt)) \cup {s}
    <3>1. Range(Append(tt, s)) = Range(tt) \cup {s}
      BY RangeIs
    <3> QED
      BY <3>1
  <2> QED
    BY <2>1, <2>3, <2>4, <2>5, Zenon
<1> HIDE DEF Good
<1>4. <<>> \in S /\ \A tt \in Seq(Slice), s \in Slice : tt \in S => Append(tt, s) \in S
  BY <1>2, <1>3
<1> HIDE DEF S
<1>5. ss \in S
  BY <1>4, Coalescing!SequenceInduction
<1> QED
  BY <1>5 DEF S, Good

\* move(rhs, length) of whole slices, one after the other.
LEMMA MoveSlicesFollows ==
  ASSUME NEW c \in Context, NEW ss \in Seq(Slice)
  PROVE  LET d == MoveSlices(c, ss)
         IN d \in Context /\ Follows(Range(c.slices) \cup Range(ss), Range(d.slices), {})
<1> DEFINE Good(tt) == LET d == MoveSlices(c, tt)
                       IN d \in Context /\ Follows(Range(c.slices) \cup Range(tt), Range(d.slices), {})
           S == {tt \in Seq(Slice) : Good(tt)}
<1>1. \A tt : MoveSlices(c, tt) = Moving!Fold(c, tt)
  BY DEF MoveSlices, FoldLeft, MapThenFoldSet, Max, Moving!Fold,
       Moving!MapThenFoldSet, Moving!Latest
<1>2. Good(<<>>)
  <2>1. MoveSlices(c, <<>>) = c
    BY <1>1, Moving!FoldOfNone
  <2>2. Follows(Range(c.slices) \cup Range(<<>>), Range(c.slices), {})
    BY FollowsSame
  <2> QED
    BY <2>1, <2>2
<1>3. ASSUME NEW tt \in Seq(Slice), NEW s \in Slice, Good(tt)
      PROVE  Good(Append(tt, s))
  <2> DEFINE d == MoveSlices(c, tt)
             e == MoveSlice(d, s)
  <2>1. MoveSlices(c, Append(tt, s)) = e
    <3>1. Moving!Fold(c, Append(tt, s)) = MoveSlice(Moving!Fold(c, tt), s)
      BY Moving!FoldOfAppend
    <3> QED
      BY <1>1, <3>1
  <2>2. d \in Context /\ Follows(Range(c.slices) \cup Range(tt), Range(d.slices), {})
    BY <1>3
  <2> HIDE DEF d
  <2>3. e \in Context /\ Follows(Range(d.slices) \cup {s}, Range(e.slices), {})
    <3>1. CASE DataSize(s) = 0
      <4>1. e \in Context /\ e.slices = d.slices
        BY <2>2, <3>1, ReleaseIs DEF MoveSlice, OnlyAccounts
      <4>2. Follows(Range(d.slices) \cup {s}, Range(d.slices), {})
        BY FollowsSame
      <4> QED
        BY <4>1, <4>2
    <3>2. CASE DataSize(s) # 0
      BY <2>2, <3>2, CoalesceOrAddSliceFollows DEF MoveSlice
    <3> QED
      BY <3>1, <3>2
  <2> HIDE DEF e
  <2>4. Follows((Range(c.slices) \cup Range(tt)) \cup {s}, Range(e.slices), {})
    BY <2>2, <2>3, FollowsTaken
  <2>5. Range(c.slices) \cup Range(Append(tt, s)) = (Range(c.slices) \cup Range(tt)) \cup {s}
    <3>1. Range(Append(tt, s)) = Range(tt) \cup {s}
      BY RangeIs
    <3> QED
      BY <3>1
  <2> QED
    BY <2>1, <2>3, <2>4, <2>5, Zenon
<1> HIDE DEF Good
<1>4. <<>> \in S /\ \A tt \in Seq(Slice), s \in Slice : tt \in S => Append(tt, s) \in S
  BY <1>2, <1>3
<1> HIDE DEF S
<1>5. ss \in S
  BY <1>4, Moving!SequenceInduction
<1> QED
  BY <1>5 DEF S, Good

\* The first slice is drained in part.
LEMMA FrontDrainedFollows ==
  ASSUME NEW ss \in Seq(Slice), ss # <<>>, NEW n \in 0..Len(Head(ss).data)
  PROVE  LET tt == <<Drained(Head(ss), n)>> \o Tail(ss)
         IN tt \in Seq(Slice) /\ Follows(Range(ss), Range(tt), {})
<1> DEFINE s == Head(ss)
           u == Drained(s, n)
           tt == <<u>> \o Tail(ss)
<1>1. s \in Slice /\ Tail(ss) \in Seq(Slice) /\ ss = <<s>> \o Tail(ss)
  BY Ends
<1> HIDE DEF s
<1>2. n \in 0..Len(s.data) /\ s.data \in Seq(Byte)
  BY <1>1, SliceIs DEF s
<1>3. u \in Slice /\ u.trackers = s.trackers /\ u.data = SubSeq(s.data, n + 1, Len(s.data))
  BY <1>1, <1>2, DrainedIs
<1>4. Range(u.data) \subseteq Range(s.data)
  BY <1>2, <1>3, RangeOfParts
<1> HIDE DEF u
<1>5. s \in Range(ss) /\ Range(Tail(ss)) \subseteq Range(ss)
  <2>1. Range(<<s>> \o Tail(ss)) = {s} \cup Range(Tail(ss))
    BY <1>1, RangeInFront
  <2> QED
    BY <1>1, <2>1
<1>6. Follows(Range(ss), {u}, {})
  <2>1. /\ Range(u.data) \subseteq Range(s.data) \cup Range(s.data) \cup {}
        /\ Range(s.trackers) \subseteq Range(u.trackers)
    BY <1>3, <1>4
  <2> QED
    BY <1>5, <2>1, FollowsMerged
<1>7. Follows(Range(ss), Range(Tail(ss)), {})
  BY <1>5, FollowsSame
<1>8. Follows(Range(ss), Range(<<u>> \o Tail(ss)), {}) /\ <<u>> \o Tail(ss) \in Seq(Slice)
  BY <1>1, <1>3, <1>6, <1>7, FollowsInFront
<1> QED
  BY <1>8 DEF u, s

\* A rest of slices, the first of them drained in part.
LEMMA PartFollows ==
  ASSUME NEW ss \in Seq(Slice), NEW k \in 0..(Len(ss) - 1),
         NEW n \in 0..Len(Head(SubSeq(ss, k + 1, Len(ss))).data)
  PROVE  LET left == SubSeq(ss, k + 1, Len(ss))
             tt == <<Drained(Head(left), n)>> \o Tail(left)
         IN Follows(Range(ss), Range(tt), {})
<1> DEFINE left == SubSeq(ss, k + 1, Len(ss))
           tt == <<Drained(Head(left), n)>> \o Tail(left)
<1>1. k \in 0..Len(ss) /\ Len(ss) - k # 0
  OBVIOUS
<1>2. left \in Seq(Slice) /\ left # <<>> /\ Range(left) \subseteq Range(ss)
  <2>1. left \in Seq(Slice) /\ Len(left) = Len(ss) - k
    BY <1>1, SplitAt
  <2>2. Range(left) \subseteq Range(ss)
    BY <1>1, RangeOfParts
  <2> HIDE DEF left
  <2> QED
    BY <1>1, <2>1, <2>2
<1>3. n \in 0..Len(Head(left).data)
  OBVIOUS
<1> HIDE DEF left
<1>4. Follows(Range(left), Range(tt), {})
  BY <1>2, <1>3, FrontDrainedFollows
<1> HIDE DEF tt
<1>5. Follows(Range(ss), Range(tt), {})
  BY <1>2, <1>4, FollowsMore
<1> QED
  BY <1>5 DEF tt, left

\* drain().
LEMMA DrainImplFollows ==
  ASSUME NEW c \in Context, NEW n \in Nat
  PROVE  LET d == DrainImpl(c, n)
         IN d \in Context /\ Follows(Range(c.slices), Range(d.slices), {})
<1> DEFINE d == DrainImpl(c, n)
<1>1. d \in Context /\ IsRest(c.slices, d.slices) /\ c.slices \in Seq(Slice)
  BY DrainImplIs, DebtType DEF TakesOver
<1> HIDE DEF d
<1>2. CASE d.slices = <<>>
  <2>1. Range(<<>>) = {}
    BY DEF Range
  <2> QED
    BY <1>1, <1>2, <2>1, FollowsSame DEF d
<1>3. CASE d.slices # <<>>
  <2>1. PICK k \in 0..(Len(c.slices) - 1) :
          LET left == SubSeq(c.slices, k + 1, Len(c.slices))
          IN \E m \in 0..Len(Head(left).data) : d.slices = <<Drained(Head(left), m)>> \o Tail(left)
    BY <1>1, <1>3 DEF IsRest
  <2> DEFINE left == SubSeq(c.slices, k + 1, Len(c.slices))
  <2>2. PICK m \in 0..Len(Head(left).data) : d.slices = <<Drained(Head(left), m)>> \o Tail(left)
    BY <2>1
  <2>3. Follows(Range(c.slices), Range(<<Drained(Head(left), m)>> \o Tail(left)), {})
    BY <1>1, PartFollows
  <2> QED
    BY <1>1, <2>2, <2>3 DEF d
<1> QED
  BY <1>2, <1>3

\* Empty slices at the back are dropped.
LEMMA WithoutEmptyBackFollows ==
  ASSUME NEW c \in Context
  PROVE  LET d == WithoutEmptyBack(c)
         IN d \in Context /\ Follows(Range(c.slices), Range(d.slices), {})
<1> DEFINE ss == c.slices
           keep == {0} \cup {i \in DOMAIN ss : DataSize(ss[i]) > 0}
           k == Max(keep)
           y == SubSeq(ss, k + 1, Len(ss))
           b == ReleaseAll(c, y)
           d == WithoutEmptyBack(c)
<1>1. ss \in Seq(Slice) /\ Len(ss) \in Nat /\ DOMAIN ss = 1..Len(ss)
  BY DebtType
<1>2. k \in 0..Len(ss)
  <2>1. keep \in SUBSET (0..Len(ss)) /\ keep # {}
    BY <1>1
  <2> HIDE DEF keep, ss
  <2>2. k \in keep
    BY <1>1, <2>1, Extremes
  <2> QED
    BY <2>1, <2>2
<1>3. d = [b EXCEPT !.slices = SubSeq(@, 1, k)]
  BY DEF WithoutEmptyBack
<1> HIDE DEF k
<1>4. b \in Context /\ b.slices = ss
  <2>1. y \in Seq(Slice)
    BY <1>1, <1>2, SplitAt
  <2> HIDE DEF y
  <2> QED
    BY <2>1, ReleaseAllIs DEF OnlyAccounts
<1> HIDE DEF b
<1>5. d.slices = SubSeq(ss, 1, k)
  BY <1>3, <1>4 DEF Context
<1>6. d \in Context
  BY WithoutEmptyBackIs DEF TakesOver
<1>7. Range(SubSeq(ss, 1, k)) \subseteq Range(ss)
  BY <1>1, <1>2, RangeOfParts
<1> HIDE DEF d
<1>8. Range(d.slices) \subseteq Range(c.slices)
  BY <1>5, <1>7
<1> QED
  BY <1>6, <1>8, FollowsSame DEF d

\* The first slice with data, and those before it, leave the buffer.
LEMMA ExtractedFollows ==
  ASSUME NEW c \in Context, Flat(c.slices) # <<>>
  PROVE  LET d == Extracted(c)
         IN d \in Context /\ Follows(Range(c.slices), Range(d.slices), {})
<1> DEFINE ss == c.slices
           held == {i \in DOMAIN ss : DataSize(ss[i]) > 0}
           k == Min(held)
           x == SubSeq(ss, 1, k)
           b == ReleaseAll(c, x)
           d == Extracted(c)
<1>1. ss \in Seq(Slice) /\ Len(ss) \in Nat /\ DOMAIN ss = 1..Len(ss)
  BY DebtType
<1>2. held # {}
  <2> SUFFICES ASSUME held = {}
               PROVE  FALSE
    OBVIOUS
  <2>1. ASSUME NEW i \in 1..Len(ss)
        PROVE  Len(ss[i].data) = 0
    <3> HIDE DEF k
    <3>1. ~(DataSize(ss[i]) > 0)
      BY <1>1
    <3>2. ss[i] \in Slice
      BY <1>1
    <3> HIDE DEF ss, held
    <3>3. Len(ss[i].data) \in Nat
      BY <3>2, SliceIs
    <3> QED
      BY <3>1, <3>3 DEF DataSize
  <2> QED
    BY <1>1, <2>1, EmptySlices
<1>3. k \in 0..Len(ss)
  <2>1. held \in SUBSET (0..Len(ss))
    BY <1>1
  <2> HIDE DEF held, ss
  <2>2. k \in held
    BY <1>1, <1>2, <2>1, Extremes
  <2> QED
    BY <2>1, <2>2
<1>4. d = [b EXCEPT !.slices = SubSeq(@, k + 1, Len(@)), !.length = @ - DataSize(ss[k])]
  BY DEF Extracted
<1> HIDE DEF k
<1>5. b \in Context /\ b.slices = ss
  <2>1. x \in Seq(Slice)
    BY <1>1, <1>3, SplitAt
  <2> HIDE DEF x
  <2> QED
    BY <2>1, ReleaseAllIs DEF OnlyAccounts
<1> HIDE DEF b
<1>6. d.slices = SubSeq(ss, k + 1, Len(ss))
  BY <1>4, <1>5 DEF Context
<1>7. d \in Context
  BY ExtractIs DEF TakesOver
<1>8. Range(SubSeq(ss, k + 1, Len(ss))) \subseteq Range(ss)
  BY <1>1, <1>3, RangeOfParts
<1> HIDE DEF d
<1>9. Range(d.slices) \subseteq Range(c.slices)
  BY <1>6, <1>8
<1> QED
  BY <1>7, <1>9, FollowsSame DEF d

\* Slice::prepend() on the first slice.
LEMMA PrependToFrontFollows ==
  ASSUME NEW c \in Context, NEW data \in Seq(Byte),
         data = <<>> \/ (c.slices # <<>> /\ Len(data) <= FrontRoom(c))
  PROVE  LET d == PrependToFront(c, data)
         IN d \in Context /\ Follows(Range(c.slices), Range(d.slices), Range(data))
<1> DEFINE d == PrependToFront(c, data)
<1>1. d \in Context /\ c.slices \in Seq(Slice) /\ d.slices \in Seq(Slice)
  BY PrependToFrontIs, DebtType DEF TakesOver
<1>2. CASE data = <<>>
  BY <1>1, <1>2, FollowsSame DEF PrependToFront
<1>3. CASE data # <<>>
  <2> DEFINE s == Head(c.slices)
             off == (IF DataSize(s) = 0 THEN s.cap ELSE s.off) - Len(data)
             u == [s EXCEPT !.data = data \o @, !.off = off]
  <2>1. c.slices # <<>> /\ s \in Slice /\ s = c.slices[1] /\ 1 \in DOMAIN c.slices
    BY <1>1, <1>3, Ends
  <2>2. d.slices = ReplaceFront(c.slices, u)
    BY <1>3, <2>1 DEF PrependToFront, ReplaceFront, Context
  <2>3. u.data = data \o s.data /\ u.trackers = s.trackers /\ s.data \in Seq(Byte)
    BY <2>1, SliceIs DEF Slice
  <2>4. u \in Slice
    BY <1>1, <2>1, <2>2 DEF ReplaceFront
  <2>5. Range(u.data) \subseteq Range(s.data) \cup Range(s.data) \cup Range(data)
    BY <2>3, RangeIs
  <2>6. Range(s.trackers) \subseteq Range(u.trackers)
    BY <2>3
  <2> HIDE DEF s, u, d
  <2>7. s \in Range(c.slices)
    BY <2>1 DEF Range
  <2>8. Range(d.slices) \subseteq Range(c.slices) \cup {u}
    <3>1. 1 \in 1..Len(c.slices)
      BY <1>1, <2>1
    <3> QED
      BY <1>1, <2>2, <2>4, <3>1, RangeReplaced DEF ReplaceFront
  <2>9. Follows(Range(c.slices), {u}, Range(data))
    BY <2>5, <2>6, <2>7, FollowsMerged
  <2>10. Follows(Range(c.slices), Range(c.slices), Range(data))
    BY FollowsSame
  <2>11. Follows(Range(c.slices), Range(c.slices) \cup {u}, Range(data))
    BY <2>9, <2>10, FollowsBoth, Zenon
  <2>12. Follows(Range(c.slices), Range(d.slices), Range(data))
    BY <2>8, <2>11, FollowsMore
  <2> QED
    BY <1>1, <2>12 DEF d
<1> QED
  BY <1>2, <1>3

\* A new first slice.
LEMMA EmplaceFrontNewFollows ==
  ASSUME NEW c \in Context, NEW cap \in Nat, NEW data \in Seq(Byte), NEW s,
         IsNewSlice(s, cap, c.account, data)
  PROVE  LET d == EmplaceFrontNew(c, s)
         IN d \in Context /\ Follows(Range(c.slices), Range(d.slices), Range(data))
<1> DEFINE tt == <<s>> \o c.slices
           b == [c EXCEPT !.slices = tt]
           d == EmplaceFrontNew(c, s)
<1>1. c.slices \in Seq(Slice) /\ c.account \in Payer /\ s \in Slice /\ s.cap = cap /\ s.data = data
  BY DEF Context, IsNewSlice
<1>2. Follows(Range(c.slices), {s}, Range(data)) /\ Follows(Range(c.slices), Range(c.slices), Range(data))
  <2>1. Range(s.data) \subseteq Range(data)
    BY <1>1
  <2> QED
    BY <2>1, FollowsNew, FollowsSame
<1>3. tt \in Seq(Slice) /\ Follows(Range(c.slices), Range(tt), Range(data))
  BY <1>1, <1>2, FollowsInFront
<1> HIDE DEF tt
<1>4. b \in Context /\ b.slices = tt
  BY <1>3 DEF Context
<1>5. d = Charge(b, c.account, cap)
  BY <1>1 DEF EmplaceFrontNew, tt
<1> HIDE DEF b, d
<1>6. d \in Context /\ d.slices = b.slices
  <2>1. OnlyAccounts(b, Charge(b, c.account, cap))
    BY <1>1, <1>4, ChargeIs
  <2> QED
    BY <1>5, <2>1 DEF OnlyAccounts
<1>7. Follows(Range(c.slices), Range(d.slices), Range(data))
  BY <1>3, <1>4, <1>6
<1> QED
  BY <1>6, <1>7 DEF d

\* prepend() of data.
LEMMA PrependImplFollows ==
  ASSUME NEW c \in Context, NEW data \in Seq(Byte)
  PROVE  LET d == PrependImpl(c, data)
         IN d \in Context /\ Follows(Range(c.slices), Range(d.slices), Range(data))
<1> DEFINE n == Min({FrontRoom(c), Len(data)})
           k == Len(data) - n
           x == SubSeq(data, 1, k)
           y == SubSeq(data, k + 1, Len(data))
           cap == SliceSize(Len(x))
           filled == PrependToFront(c, y)
           s == [NewSlice(cap, c.account, x) EXCEPT !.off = cap - Len(x)]
           new == EmplaceFrontNew(filled, s)
           added == IF x = <<>> THEN filled ELSE new
           d == PrependImpl(c, data)
<1>1. d = [added EXCEPT !.length = @ + Len(data)]
  BY DEF PrependImpl
<1>2. /\ n \in 0..Len(data) /\ n <= FrontRoom(c) /\ FrontRoom(c) \in Nat /\ Len(data) \in Nat
      /\ (c.slices = <<>> => n = 0)
  BY FrontRoomType, MinMaxOfTwo
<1> HIDE DEF n
<1>3. k \in 0..Len(data) /\ Len(data) - k = n
  BY <1>2
<1> HIDE DEF k
<1>4. x \in Seq(Byte) /\ y \in Seq(Byte) /\ Len(y) = n /\ Len(x) \in Nat /\ x \o y = data
  <2>1. x \in Seq(Byte) /\ y \in Seq(Byte) /\ Len(x) = k /\ Len(y) = Len(data) - k /\ x \o y = data
    BY <1>3, BytesSplit, Zenon
  <2> HIDE DEF x, y
  <2>2. k \in Nat
    BY <1>3
  <2> QED
    BY <1>3, <2>1, <2>2
<1> HIDE DEF x, y
<1>5. y = <<>> \/ (c.slices # <<>> /\ Len(y) <= FrontRoom(c))
  BY <1>2, <1>4
<1>6. filled \in Context /\ filled.account = c.account
  BY <1>4, <1>5, PrependToFrontIs DEF TakesOver
<1>7. Follows(Range(c.slices), Range(filled.slices), Range(y))
  BY <1>4, <1>5, PrependToFrontFollows
<1> HIDE DEF filled
<1>8. Range(data) = Range(x) \cup Range(y)
  <2>1. x \in Seq(Byte) /\ y \in Seq(Byte)
    BY <1>4
  <2>2. Range(x \o y) = Range(x) \cup Range(y)
    BY <2>1, RangeIs
  <2> QED
    BY <1>4, <2>2, Zenon
<1>9. added \in Context /\ Follows(Range(c.slices), Range(added.slices), Range(data))
  <2>1. CASE x = <<>>
    <3>1. Range(y) \subseteq Range(data)
      BY <1>8
    <3>2. added = filled
      BY <2>1, Zenon
    <3> HIDE DEF added
    <3>3. Follows(Range(c.slices), Range(filled.slices), Range(data))
      BY <1>7, <3>1, FollowsMore
    <3> QED
      BY <1>6, <3>2, <3>3, Zenon
  <2>2. CASE x # <<>>
    <3>1. cap \in Nat /\ Len(x) <= cap /\ c.account \in Payer
      BY <1>4, SliceSizeSuffices DEF Context
    <3> HIDE DEF cap
    <3>2. IsNewSlice(s, cap, c.account, x)
      BY <1>4, <3>1, NewSliceIs
    <3> HIDE DEF s
    <3>3. IsNewSlice(s, cap, filled.account, x)
      BY <1>6, <3>2
    <3>4. new \in Context /\ Follows(Range(filled.slices), Range(new.slices), Range(x))
      BY <1>4, <1>6, <3>1, <3>3, EmplaceFrontNewFollows
    <3>5. added = new
      BY <2>2, Zenon
    <3> HIDE DEF new, added
    <3>6. Follows(Range(c.slices), Range(new.slices), Range(y) \cup Range(x))
      BY <1>7, <3>4, FollowsOn
    <3>7. Range(y) \cup Range(x) = Range(data)
      BY <1>8
    <3> QED
      BY <3>4, <3>5, <3>6, <3>7, Zenon
  <2> QED
    BY <2>1, <2>2
<1> HIDE DEF added
<1>10. d.slices = added.slices
  BY <1>1, <1>9 DEF Context
<1>11. d \in Context
  BY PrependImplIs DEF TakesOver
<1> QED
  BY <1>9, <1>10, <1>11, Zenon

\* linearize(): the bytes of the new slice have lost their trackers.
LEMMA LinearizedFollows ==
  ASSUME NEW c \in Context, NEW n \in Nat, n <= Len(Flat(c.slices))
  PROVE  LET d == Linearized(c, n)
         IN d \in Context /\ Follows(Range(c.slices), Range(d.slices), Range(SubSeq(Flat(c.slices), 1, n)))
<1> DEFINE data == SubSeq(Flat(c.slices), 1, n)
           cap == SliceSize(n)
           s == NewSlice(cap, c.account, data)
           b == Charge(c, c.account, cap)
           e == DrainImpl(b, n)
           d == Linearized(c, n)
<1>1. Flat(c.slices) \in Seq(Byte) /\ c.account \in Payer
  BY DebtType DEF Context
<1>2. cap \in Nat /\ n <= cap /\ cap \in Int
  BY SliceSizeSuffices
<1>3. data \in Seq(Byte) /\ Len(data) = n
  <2>1. n \in 0..Len(Flat(c.slices))
    BY <1>1
  <2> QED
    BY <1>1, <2>1, BytesSplit, Zenon
<1>4. s \in Slice /\ s.data = data
  <2> HIDE DEF data, cap
  <2>1. Len(data) <= cap
    BY <1>2, <1>3
  <2>2. IsNewSlice(s, cap, c.account, data)
    BY <1>1, <1>2, <1>3, <2>1, NewSliceIs
  <2> QED
    BY <2>2 DEF IsNewSlice
<1>5. d = [e EXCEPT !.slices = <<s>> \o @, !.length = @ + n]
  BY DEF Linearized, NewSlice
<1> HIDE DEF cap, s, data
<1>6. b \in Context /\ b.slices = c.slices
  BY <1>1, <1>2, ChargeIs DEF OnlyAccounts
<1> HIDE DEF b
<1>7. e \in Context /\ Follows(Range(c.slices), Range(e.slices), {})
  <2>1. e \in Context /\ Follows(Range(b.slices), Range(e.slices), {})
    BY <1>6, DrainImplFollows
  <2> QED
    BY <1>6, <2>1
<1> HIDE DEF e
<1>8. e.slices \in Seq(Slice)
  BY <1>7, DebtType
<1>9. d.slices = <<s>> \o e.slices
  BY <1>5, <1>7 DEF Context
<1>10. Follows(Range(c.slices), Range(e.slices), Range(data)) /\ Follows(Range(c.slices), {s}, Range(data))
  <2>1. {} \subseteq Range(data) /\ Range(s.data) \subseteq Range(data)
    BY <1>4
  <2> QED
    BY <1>7, <2>1, FollowsMore, FollowsNew
<1>11. Follows(Range(c.slices), Range(<<s>> \o e.slices), Range(data))
  BY <1>4, <1>8, <1>10, FollowsInFront
<1>12. d \in Context
  BY LinearizedIs DEF TakesOver
<1> QED
  BY <1>9, <1>11, <1>12 DEF data

\* prepend(Instance&): the slices of the other buffer, charged, become the first ones.
LEMMA PrependSlicesFollows ==
  ASSUME NEW c \in Context, NEW ss \in Seq(Slice)
  PROVE  LET e == PrependSlices(c, ss)
         IN e \in Context /\ Follows(Range(c.slices) \cup Range(ss), Range(e.slices), {})
<1> DEFINE vv == Taken(c, ss)
           d == ChargeForAll(c, ss)
           e == PrependSlices(c, ss)
           S == Range(c.slices) \cup Range(ss)
<1>1. d \in Context /\ d.slices = c.slices /\ c.slices \in Seq(Slice) /\ vv \in Seq(Slice)
  BY ChargeForAllIs, DebtType DEF OnlyAccounts
<1>2. e = [d EXCEPT !.slices = vv \o @, !.length = @ + Size(ss)]
  BY DEF PrependSlices, Taken
<1>3. e \in Context
  BY PrependSlicesIs DEF TakesOver
<1>4. Follows(S, Range(vv), {})
  <2>1. ASSUME NEW v \in Range(vv)
        PROVE  \E s \in S : Range(s.data) = Range(v.data) /\ Range(s.trackers) = Range(v.trackers)
    <3>1. PICK i \in DOMAIN ss : v = MaybeCharged(c, ss[i])
      BY DEF Taken, Range
    <3>2. ss[i] \in Slice /\ ss[i] \in S
      BY DEF Range
    <3> DEFINE s == ss[i]
    <3>3. s \in Slice /\ s \in S /\ v = MaybeCharged(c, s)
      BY <3>1, <3>2
    <3> HIDE DEF s, S, vv
    <3>4. v.data = s.data /\ v.trackers = s.trackers
      BY <3>3, ChargedIs
    <3> QED
      BY <3>3, <3>4
  <2> HIDE DEF vv, S
  <2> QED
    BY <2>1, Zenon DEF Follows
<1> HIDE DEF vv, d
<1>5. Follows(S, Range(c.slices), {})
  <2>1. Range(c.slices) \subseteq S
    OBVIOUS
  <2> QED
    BY <2>1, FollowsSame
<1> HIDE DEF S
<1>6. Follows(S, Range(vv \o c.slices), {})
  BY <1>1, <1>4, <1>5, FollowsConcat
<1> HIDE DEF e
<1>7. e.slices = vv \o c.slices
  BY <1>1, <1>2 DEF Context
<1> QED
  BY <1>3, <1>6, <1>7 DEF e, S

\* The number of bytes is noted in the buffer.
LEMMA LengthenedFollows ==
  ASSUME NEW c \in Context, NEW d \in Context, NEW n \in Nat, NEW N, Follows(Range(c.slices), Range(d.slices), N)
  PROVE  LET e == [d EXCEPT !.length = @ + n]
         IN e \in Context /\ Follows(Range(c.slices), Range(e.slices), N)
<1> DEFINE e == [d EXCEPT !.length = @ + n]
<1>1. e.slices = d.slices /\ e \in Context
  <2>1. d.length + n \in Int
    BY DebtType
  <2> QED
    BY <2>1 DEF Context
<1> HIDE DEF e
<1> QED
  BY <1>1 DEF e

\* reserveSingleSlice() and commit().
LEMMA CommittedSingleFollows ==
  ASSUME NEW c \in Context, NEW room \in Nat \ {0}, NEW separate \in BOOLEAN, NEW data \in Seq(Byte),
         Len(data) <= room
  PROVE  LET e == CommittedSingle(c, room, separate, data)
         IN e \in Context /\ Follows(Range(c.slices), Range(e.slices), Range(data))
<1> DEFINE d == IF ~separate /\ BackRoom(c) >= room THEN AppendToBack(c, data)
                ELSE IF data = <<>> THEN c ELSE EmplaceBackNew(c, SliceSize(room), data)
           e == CommittedSingle(c, room, separate, data)
<1>1. d \in Context /\ Follows(Range(c.slices), Range(d.slices), Range(data))
  <2>1. CASE ~separate /\ BackRoom(c) >= room
    <3>1. BackRoom(c) \in Nat /\ (c.slices = <<>> => BackRoom(c) = 0) /\ Len(data) \in Nat
      BY BackRoomType
    <3>2. c.slices # <<>> /\ Len(data) <= BackRoom(c)
      BY <2>1, <3>1
    <3>3. AppendToBack(c, data) \in Context
      BY <3>2, AppendToBackIs DEF TakesOver
    <3>4. Follows(Range(c.slices), Range(AppendToBack(c, data).slices), Range(data))
      BY <3>2, AppendToBackFollows
    <3> QED
      BY <2>1, <3>3, <3>4
  <2>2. CASE ~(~separate /\ BackRoom(c) >= room) /\ data = <<>>
    <3>1. d = c
      BY <2>2, Zenon
    <3> HIDE DEF d
    <3>2. Follows(Range(c.slices), Range(c.slices), Range(data))
      BY FollowsSame
    <3> QED
      BY <3>1, <3>2
  <2>3. CASE ~(~separate /\ BackRoom(c) >= room) /\ data # <<>>
    <3>1. SliceSize(room) \in Nat /\ Len(data) <= SliceSize(room)
      <4>1. SliceSize(room) \in Nat /\ room <= SliceSize(room)
        BY SliceSizeSuffices
      <4> QED
        BY <4>1
    <3> DEFINE x == EmplaceBackNew(c, SliceSize(room), data)
    <3>2. x \in Context /\ Follows(Range(c.slices), Range(x.slices), Range(data))
      BY <3>1, EmplaceBackNewFollows
    <3>3. d = x
      BY <2>3, Zenon
    <3> HIDE DEF x, d
    <3> QED
      BY <3>2, <3>3
  <2> QED
    BY <2>1, <2>2, <2>3
<1>2. e = [d EXCEPT !.length = @ + Len(data)] /\ Len(data) \in Nat
  BY DEF CommittedSingle
<1> HIDE DEF d, e
<1>3. e \in Context /\ Follows(Range(c.slices), Range(e.slices), Range(data))
  BY <1>1, <1>2, LengthenedFollows
<1> QED
  BY <1>3 DEF e

\* addFragments().
LEMMA AddTwoFollows ==
  ASSUME NEW c \in Context, NEW data \in Seq(Byte), NEW m \in 0..Len(data)
  PROVE  LET e == AddTwo(c, data, m)
         IN e \in Context /\ Follows(Range(c.slices), Range(e.slices), Range(data))
<1> DEFINE new == EmplaceBackNew(c, SliceSize(Len(data)), <<>>)
           d == IF c.slices = <<>> THEN new ELSE c
           both == AppendToBack(d, data)
           x == SubSeq(data, 1, m)
           y == SubSeq(data, m + 1, Len(data))
           one == AddImpl(d, x)
           two == AddImpl(one, y)
           e == AddTwo(c, data, m)
<1>1. <<>> \in Seq(Byte) /\ Len(data) \in Nat /\ Range(<<>>) = {}
  BY RangeIs
<1>2. d \in Context /\ Follows(Range(c.slices), Range(d.slices), {}) /\ d.slices # <<>>
  <2>1. CASE c.slices = <<>>
    <3>1. SliceSize(Len(data)) \in Nat /\ Len(<<>>) <= SliceSize(Len(data))
      BY <1>1, SliceSizeSuffices
    <3>2. new \in Context /\ Follows(Range(c.slices), Range(new.slices), Range(<<>>)) /\ new.slices # <<>>
      BY <1>1, <3>1, EmplaceBackNewFollows, EmplaceBackNewIs
    <3>3. d = new
      BY <2>1, Zenon
    <3> HIDE DEF new, d
    <3> QED
      BY <1>1, <3>2, <3>3, Zenon
  <2>2. CASE c.slices # <<>>
    <3>1. d = c
      BY <2>2, Zenon
    <3> HIDE DEF d
    <3>2. Follows(Range(c.slices), Range(c.slices), {})
      BY FollowsSame
    <3> QED
      BY <2>2, <3>1, <3>2
  <2> QED
    BY <2>1, <2>2
<1>3. e = IF BackRoom(d) >= Len(data) THEN [both EXCEPT !.length = @ + Len(data)] ELSE two
  BY Zenon DEF AddTwo
<1> HIDE DEF d, e
<1>4. ASSUME NEW f \in Context, Follows(Range(d.slices), Range(f.slices), Range(data))
      PROVE  Follows(Range(c.slices), Range(f.slices), Range(data))
  <2>1. Follows(Range(c.slices), Range(f.slices), {} \cup Range(data))
    BY <1>2, <1>4, FollowsOn
  <2>2. {} \cup Range(data) = Range(data)
    OBVIOUS
  <2> QED
    BY <2>1, <2>2, Zenon
<1>5. CASE BackRoom(d) >= Len(data)
  <2>1. Len(data) <= BackRoom(d)
    BY <1>1, <1>2, <1>5, BackRoomType
  <2>2. both \in Context
    BY <1>2, <2>1, AppendToBackIs DEF TakesOver
  <2>3. Follows(Range(d.slices), Range(both.slices), Range(data))
    BY <1>2, <2>1, AppendToBackFollows
  <2> HIDE DEF both
  <2>4. Follows(Range(c.slices), Range(both.slices), Range(data))
    BY <1>4, <2>2, <2>3
  <2>5. e = [both EXCEPT !.length = @ + Len(data)]
    BY <1>3, <1>5, Zenon
  <2>6. e \in Context /\ Follows(Range(c.slices), Range(e.slices), Range(data))
    BY <1>1, <2>2, <2>4, <2>5, LengthenedFollows
  <2> QED
    BY <2>6 DEF e
<1>6. CASE ~(BackRoom(d) >= Len(data))
  <2>1. x \in Seq(Byte) /\ y \in Seq(Byte) /\ x \o y = data
    BY BytesSplit, Zenon
  <2> HIDE DEF x, y
  <2>2. one \in Context /\ Follows(Range(d.slices), Range(one.slices), Range(x))
    BY <1>2, <2>1, AddImplFollows
  <2> HIDE DEF one
  <2>3. two \in Context /\ Follows(Range(one.slices), Range(two.slices), Range(y))
    BY <2>1, <2>2, AddImplFollows
  <2> HIDE DEF two
  <2>4. Follows(Range(d.slices), Range(two.slices), Range(x \o y))
    BY <2>1, <2>2, <2>3, FollowsOneByOne
  <2>5. Follows(Range(d.slices), Range(two.slices), Range(data))
    BY <2>1, <2>4, Zenon
  <2>6. Follows(Range(c.slices), Range(two.slices), Range(data))
    BY <1>4, <2>3, <2>5
  <2>7. e = two
    BY <1>3, <1>6, Zenon
  <2> QED
    BY <2>3, <2>6, <2>7 DEF e
<1> QED
  BY <1>5, <1>6

\* The default slices of a reservation take over data of at most their size.
LEMMA EmplaceDefaultsFollows ==
  ASSUME NEW c \in Context, NEW N, NEW cc \in Seq({x \in Seq(Byte) : Len(x) <= DefaultSliceSize /\ Range(x) \subseteq N})
  PROVE  LET d == EmplaceDefaults(c, cc)
         IN d \in Context /\ Follows(Range(c.slices), Range(d.slices), N)
<1> DEFINE T == {x \in Seq(Byte) : Len(x) <= DefaultSliceSize /\ Range(x) \subseteq N}
           Good(tt) == LET d == EmplaceDefaults(c, tt)
                       IN d \in Context /\ Follows(Range(c.slices), Range(d.slices), N)
           S == {tt \in Seq(T) : Good(tt)}
<1>1. \A tt : EmplaceDefaults(c, tt) = Emplacing!Fold(c, tt)
  BY DEF EmplaceDefaults, FoldLeft, MapThenFoldSet, Max, Emplacing!Fold,
       Emplacing!MapThenFoldSet, Emplacing!Latest
<1>2. Good(<<>>)
  <2>1. EmplaceDefaults(c, <<>>) = c
    BY <1>1, Emplacing!FoldOfNone
  <2>2. Follows(Range(c.slices), Range(c.slices), N)
    BY FollowsSame
  <2> QED
    BY <2>1, <2>2
<1>3. ASSUME NEW tt \in Seq(T), NEW x \in T, Good(tt)
      PROVE  Good(Append(tt, x))
  <2> DEFINE d == EmplaceDefaults(c, tt)
             e == EmplaceBackNew(d, DefaultSliceSize, x)
  <2>1. EmplaceDefaults(c, Append(tt, x)) = e
    <3> HIDE DEF T
    <3>1. Emplacing!Fold(c, Append(tt, x)) = EmplaceDefault(Emplacing!Fold(c, tt), x)
      BY Emplacing!FoldOfAppend
    <3> QED
      BY <1>1, <3>1 DEF EmplaceDefault
  <2>2. d \in Context /\ Follows(Range(c.slices), Range(d.slices), N)
    BY <1>3
  <2> HIDE DEF d
  <2>3. x \in Seq(Byte) /\ Len(x) <= DefaultSliceSize /\ Range(x) \subseteq N
    BY <1>3
  <2>4. DefaultSliceSize \in Nat
    BY BufferAssumption
  <2>5. e \in Context /\ Follows(Range(d.slices), Range(e.slices), Range(x))
    BY <2>2, <2>3, <2>4, EmplaceBackNewFollows
  <2> HIDE DEF e
  <2>6. Follows(Range(d.slices), Range(e.slices), N)
    BY <2>3, <2>5, FollowsMore
  <2>7. Follows(Range(c.slices), Range(e.slices), N \cup N)
    BY <2>2, <2>6, FollowsOn
  <2>8. N \cup N = N
    OBVIOUS
  <2> QED
    BY <2>1, <2>5, <2>7, <2>8, Zenon
<1> HIDE DEF Good, T
<1>4. <<>> \in S /\ \A tt \in Seq(T), x \in T : tt \in S => Append(tt, x) \in S
  BY <1>2, <1>3
<1> HIDE DEF S
<1>5. cc \in Seq(T)
  BY DEF T
<1>6. cc \in S
  BY <1>4, <1>5, Emplacing!SequenceInduction
<1> QED
  BY <1>6 DEF S, Good

\* What commit() finds in the default slices is part of what is committed.
LEMMA ChunksArePart ==
  ASSUME NEW data \in Seq(Byte), NEW first \in Nat, NEW fresh \in Nat, Len(data) <= Reserved(first, fresh + 1)
  PROVE  Chunks(data, first, Used(Len(data), first, fresh)) \in
           Seq({x \in Seq(Byte) : Len(x) <= DefaultSliceSize /\ Range(x) \subseteq Range(data)})
<1> DEFINE n == Len(data)
           used == Used(n, first, fresh)
           T == {x \in Seq(Byte) : Len(x) <= DefaultSliceSize /\ Range(x) \subseteq Range(data)}
<1>1. n \in Nat
  OBVIOUS
<1>2. used \in Nat /\ \A j \in 1..used : Reserved(first, j) < n
  <2> HIDE DEF n
  <2>1. used \in 0..fresh /\ \A j \in 1..used : Reserved(first, j) < n
    BY <1>1, UsedIs DEF n
  <2> QED
    BY <2>1
<1> HIDE DEF used
<1>3. ASSUME NEW j \in 1..used
      PROVE  Chunk(data, first, j) \in T
  <2> DEFINE k == j - 1
             upto(i) == Min({n, Reserved(first, i + 1)})
             x == Chunk(data, first, j)
             y == SubSeq(data, 1, upto(k))
             z == SubSeq(data, 1, upto(k + 1))
  <2>1. k \in Nat /\ k + 1 = j /\ j \in Nat \ {0} /\ (k + 1) + 1 \in Nat \ {0}
    BY <1>2
  <2>2. Reserved(first, k + 1) < n
    BY <1>2, <2>1
  <2> HIDE DEF k
  <2>3. x \in Seq(Byte) /\ Len(x) <= DefaultSliceSize /\ y \o x = z /\ y \in Seq(Byte)
    <3> HIDE DEF n
    <3>1. /\ Chunk(data, first, k + 1) \in Seq(Byte) /\ Len(Chunk(data, first, k + 1)) <= DefaultSliceSize
          /\ y \o Chunk(data, first, k + 1) = z /\ y \in Seq(Byte)
      BY <2>1, <2>2, ChunkIs DEF n
    <3> QED
      BY <2>1, <3>1
  <2>4. upto(k + 1) \in 0..n
    <3>1. Reserved(first, (k + 1) + 1) \in Nat
      BY <2>1, ReservedIs
    <3> HIDE DEF n
    <3>2. upto(k + 1) = IF n <= Reserved(first, (k + 1) + 1) THEN n ELSE Reserved(first, (k + 1) + 1)
      BY <1>1, <3>1, MinMaxOfTwo
    <3> QED
      BY <1>1, <3>1, <3>2
  <2>5. Range(z) \subseteq Range(data)
    <3> DEFINE m == upto(k + 1)
    <3>1. m \in 0..Len(data)
      BY <2>4
    <3> HIDE DEF m
    <3>2. Range(SubSeq(data, 1, m)) \subseteq Range(data)
      BY <3>1, RangeOfParts
    <3> QED
      BY <3>2 DEF m
  <2> HIDE DEF x, y, z
  <2>6. Range(y \o x) = Range(y) \cup Range(x)
    <3>1. x \in Seq(Byte) /\ y \in Seq(Byte)
      BY <2>3
    <3> QED
      BY <3>1, RangeIs
  <2>7. Range(x) \subseteq Range(data)
    <3>1. Range(z) = Range(y) \cup Range(x)
      BY <2>3, <2>6, Zenon
    <3> QED
      BY <2>5, <3>1, Zenon
  <2> QED
    BY <2>3, <2>7 DEF x
<1> HIDE DEF T, n
<1>4. Chunks(data, first, used) \in Seq(T)
  BY <1>2, <1>3 DEF Chunks
<1> QED
  BY <1>4 DEF T, used, n

\* reserveForRead() and commit().
LEMMA CommittedFollows ==
  ASSUME NEW c \in Context, NEW data \in Seq(Byte), NEW first \in Nat, NEW fresh \in Nat,
         first = 0 \/ (c.slices # <<>> /\ first <= BackRoom(c)),
         Len(data) <= Reserved(first, fresh + 1)
  PROVE  LET d == Committed(c, data, first, fresh)
         IN d \in Context /\ Follows(Range(c.slices), Range(d.slices), Range(data))
<1> DEFINE n == Len(data)
           m == Min({first, n})
           x == SubSeq(data, 1, m)
           b == AppendToBack(c, x)
           cc == Chunks(data, first, Used(n, first, fresh))
           e == EmplaceDefaults(b, cc)
           d == Committed(c, data, first, fresh)
<1>1. d = [e EXCEPT !.length = @ + n] /\ n \in Nat
  BY DEF Committed, Chunks
<1>2. m \in 0..n /\ m <= first
  <2> HIDE DEF n, d
  <2>1. m = IF first <= n THEN first ELSE n
    BY <1>1, MinMaxOfTwo
  <2> HIDE DEF m
  <2> QED
    BY <1>1, <2>1
<1> HIDE DEF m
<1>3. x \in Seq(Byte) /\ Len(x) = m /\ Range(x) \subseteq Range(data)
  <2>1. Range(x) \subseteq Range(data)
    BY <1>2, RangeOfParts
  <2> QED
    BY <1>2, <2>1, BytesSplit, Zenon
<1> HIDE DEF x
<1>4. x = <<>> \/ (c.slices # <<>> /\ Len(x) <= BackRoom(c))
  BY <1>2, <1>3, BackRoomType
<1>5. b \in Context
  BY <1>3, <1>4, AppendToBackIs DEF TakesOver
<1>6. Follows(Range(c.slices), Range(b.slices), Range(x))
  BY <1>3, <1>4, AppendToBackFollows
<1> HIDE DEF b
<1>7. Follows(Range(c.slices), Range(b.slices), Range(data))
  BY <1>3, <1>6, FollowsMore
<1>8. cc \in Seq({y \in Seq(Byte) : Len(y) <= DefaultSliceSize /\ Range(y) \subseteq Range(data)})
  BY ChunksArePart
<1> HIDE DEF cc
<1>9. e \in Context /\ Follows(Range(b.slices), Range(e.slices), Range(data))
  BY <1>5, <1>8, EmplaceDefaultsFollows
<1> HIDE DEF e
<1>10. Follows(Range(c.slices), Range(e.slices), Range(data))
  <2>1. Follows(Range(c.slices), Range(e.slices), Range(data) \cup Range(data))
    BY <1>7, <1>9, FollowsOn
  <2>2. Range(data) \cup Range(data) = Range(data)
    OBVIOUS
  <2> QED
    BY <2>1, <2>2, Zenon
<1> HIDE DEF d, n
<1>11. d \in Context /\ Follows(Range(c.slices), Range(d.slices), Range(data))
  BY <1>1, <1>9, <1>10, LengthenedFollows
<1> QED
  BY <1>11 DEF d

\* move(rhs, length): the bytes of a part of a slice have lost their trackers.
LEMMA MovedFollows ==
  ASSUME NEW c \in Context, NEW ss \in Seq(Slice), NEW n \in Nat
  PROVE  LET d == Moved(c, ss, n)
             tt == MovedFrom(ss, n)
         IN /\ Follows(Range(c.slices) \cup Range(ss), Range(d.slices), Range(PartData(ss, n)))
            /\ Follows(Range(ss), Range(tt), {})
<1> DEFINE k == Whole(ss, n)
           p == Part(ss, n)
           x == SubSeq(ss, 1, k)
           left == SubSeq(ss, k + 1, Len(ss))
           data == PartData(ss, n)
           e == MoveSlices(c, x)
           d == Moved(c, ss, n)
           tt == MovedFrom(ss, n)
           S == Range(c.slices) \cup Range(ss)
<1>1. k \in 0..Len(ss) /\ p \in Nat /\ (p # 0 => k < Len(ss) /\ p <= Len(ss[k + 1].data))
  BY WholeIs
<1>2. d = IF p = 0 THEN e ELSE AddImpl(e, data)
  BY Zenon DEF Moved
<1>3. tt = IF p = 0 THEN left ELSE <<Drained(Head(left), p)>> \o Tail(left)
  BY Zenon DEF MovedFrom
<1>4. data = IF p = 0 THEN <<>> ELSE SubSeq(ss[k + 1].data, 1, p)
  BY Zenon DEF PartData
<1> HIDE DEF k, p, d, tt, data
<1>5. x \in Seq(Slice) /\ left \in Seq(Slice) /\ Range(x) \subseteq Range(ss) /\ Range(left) \subseteq Range(ss)
  BY <1>1, RangeOfParts
<1>6. p # 0 => left[1] = ss[k + 1] /\ left # <<>>
  <2> SUFFICES ASSUME p # 0
               PROVE  left[1] = ss[k + 1] /\ left # <<>>
    OBVIOUS
  <2>1. 1 \in 1..(Len(ss) - k) /\ Len(ss) - k \in Nat /\ Len(left) = Len(ss) - k
    BY <1>1, SplitAt
  <2>2. left[1] = ss[k + 1]
    BY <1>1, <2>1, SplitAt
  <2> HIDE DEF left
  <2>3. Len(left) # 0
    BY <2>1
  <2> QED
    BY <2>2, <2>3
<1> HIDE DEF x, left
<1>7. e \in Context /\ Follows(S, Range(e.slices), {})
  <2>1. e \in Context /\ Follows(Range(c.slices) \cup Range(x), Range(e.slices), {})
    BY <1>5, MoveSlicesFollows
  <2>2. Range(c.slices) \cup Range(x) \subseteq S
    BY <1>5
  <2> HIDE DEF e, S
  <2> QED
    BY <2>1, <2>2, FollowsMore
<1> HIDE DEF e, S
<1>8. CASE p = 0
  <2>1. d = e /\ tt = left
    BY <1>2, <1>3, <1>8, Zenon
  <2>2. {} \subseteq Range(data)
    OBVIOUS
  <2>3. Follows(S, Range(e.slices), Range(data))
    BY <1>7, <2>2, FollowsMore
  <2>4. Follows(Range(ss), Range(left), {})
    BY <1>5, FollowsSame
  <2> QED
    BY <2>1, <2>3, <2>4 DEF S, d, tt, data
<1>9. CASE p # 0
  <2> DEFINE s == Head(left)
  <2>1. s = ss[k + 1] /\ s \in Slice /\ left # <<>>
    BY <1>5, <1>6, <1>9, Ends
  <2>2. p \in 0..Len(s.data) /\ s.data \in Seq(Byte)
    <3> HIDE DEF s
    <3>1. s.data \in Seq(Byte) /\ Len(s.data) \in Nat
      BY <2>1, SliceIs
    <3> QED
      BY <1>1, <1>9, <2>1, <3>1
  <2>3. data \in Seq(Byte)
    <3>1. data = SubSeq(s.data, 1, p)
      BY <1>4, <1>9, <2>1, Zenon
    <3> HIDE DEF s
    <3> QED
      BY <2>2, <3>1, BytesSplit
  <2>4. d = AddImpl(e, data) /\ tt = <<Drained(Head(left), p)>> \o Tail(left)
    BY <1>2, <1>3, <1>9, Zenon
  <2>5. Follows(Range(e.slices), Range(d.slices), Range(data))
    BY <1>7, <2>3, <2>4, AddImplFollows
  <2>6. Follows(S, Range(d.slices), Range(data))
    <3>1. Follows(S, Range(d.slices), {} \cup Range(data))
      BY <1>7, <2>5, FollowsOn
    <3>2. {} \cup Range(data) = Range(data)
      OBVIOUS
    <3> QED
      BY <3>1, <3>2, Zenon
  <2>7. Follows(Range(left), Range(tt), {})
    <3>1. p \in 0..Len(Head(left).data)
      BY <2>2
    <3> QED
      BY <1>5, <2>1, <2>4, <3>1, FrontDrainedFollows
  <2>8. Follows(Range(ss), Range(tt), {})
    BY <1>5, <2>7, FollowsMore
  <2> QED
    BY <2>6, <2>8 DEF S, d, tt, data
<1> QED
  BY <1>8, <1>9

------------------------------------------------------------------------------
(* No byte is in two places *)

\* What is counted is there.
LEMMA CountRange ==
  ASSUME NEW x \in Seq(Byte), NEW k
  PROVE  Count(x, k) \in Nat /\ (k \notin Range(x) <=> Count(x, k) = 0)
<1> DEFINE P == {j \in DOMAIN x : x[j] = k}
<1>1. IsFiniteSet(P) /\ Count(x, k) \in Nat /\ Count(x, k) = Cardinality(P)
  BY CountType, Zenon DEF Count
<1>2. k \notin Range(x) <=> P = {}
  BY DEF Range
<1> HIDE DEF P
<1>3. Cardinality(P) = 0 <=> P = {}
  BY <1>1, FS_EmptySet
<1> QED
  BY <1>1, <1>2, <1>3, Zenon

\* Every new byte enters once.
LEMMA CountFresh ==
  ASSUME Others, NEW n \in Nat, NEW k \in Byte
  PROVE  /\ Fresh(n) \in Seq(Byte)
         /\ Count(Fresh(n), k) \in {0, 1}
         /\ k < next \/ k >= next + n => Count(Fresh(n), k) = 0
<1> DEFINE x == Fresh(n)
           P == {j \in DOMAIN x : x[j] = k}
           i == (k - next) + 1
<1>1. next \in Nat \ {0} /\ k \in Nat
  BY BufferAssumption DEF Others, Byte
<1>2. x \in Seq(Byte) /\ DOMAIN x = 1..n /\ \A j \in 1..n : x[j] = next + (j - 1)
  BY <1>1 DEF Fresh, Byte
<1> HIDE DEF x
<1>3. P \subseteq {i} /\ (k < next \/ k >= next + n => P = {})
  BY <1>1, <1>2
<1>4. Count(x, k) = Cardinality(P)
  BY DEF Count
<1> HIDE DEF P, i
<1>5. IsFiniteSet({i}) /\ Cardinality({i}) = 1 /\ Cardinality({}) = 0
  BY FS_Singleton, FS_EmptySet
<1>6. P = {} \/ P = {i}
  BY <1>3
<1>7. Cardinality(P) \in {0, 1}
  BY <1>5, <1>6, Zenon
<1>8. k < next \/ k >= next + n => Cardinality(P) = 0
  BY <1>3, <1>5, Zenon
<1> QED
  BY <1>2, <1>4, <1>7, <1>8, Zenon DEF x

\* No share, and no two shares together, are more than the sum.
LEMMA ShareBound ==
  ASSUME NEW w \in [Buffers -> Nat], NEW b \in Buffers
  PROVE  w[b] <= Overall(w) /\ \A x \in Buffers \ {b} : w[b] + w[x] <= Overall(w)
<1>1. ASSUME NEW v \in [Buffers -> Nat], NEW x \in Buffers
      PROVE  v[x] <= Overall(v) /\ v[x] \in Nat /\ Overall(v) \in Nat
  <2> DEFINE m == Cardinality(Rows(v, Buffers \ {x}))
  <2>1. m \in Nat /\ Overall(v) = m + v[x]
    BY OverallSplit, Zenon
  <2>2. v[x] \in Nat
    OBVIOUS
  <2> HIDE DEF m
  <2> QED
    BY <2>1, <2>2
<1>2. ASSUME NEW x \in Buffers \ {b}
      PROVE  w[b] + w[x] <= Overall(w)
  <2> DEFINE v == [w EXCEPT ![b] = 0]
  <2>1. /\ v \in [Buffers -> Nat] /\ v[b] = 0 /\ v[x] = w[x] /\ x \in Buffers
        /\ \A y \in Buffers \ {b} : v[y] = w[y]
    OBVIOUS
  <2> HIDE DEF v
  <2>2. Overall(v) = (Overall(w) - w[b]) + v[b]
    BY <2>1, OverallChanged, Zenon
  <2>3. v[x] <= Overall(v) /\ v[x] \in Nat /\ Overall(v) \in Nat
    BY <1>1, <2>1, Zenon
  <2>4. w[b] \in Nat /\ Overall(w) \in Nat
    BY <1>1, Zenon
  <2> QED
    BY <2>1, <2>2, <2>3, <2>4
<1> QED
  BY <1>1, <1>2, Zenon

\* How often byte k is in the slices ss[b] of each buffer b.
Occurs(ss, k) == [b \in Buffers |-> Count(Flat(ss[b]), k)]

\* That is a number for each buffer.
LEMMA OccursType ==
  ASSUME NEW ss \in AllSlices, NEW k
  PROVE  /\ \A b \in Buffers : /\ ss[b] \in Seq(Slice) /\ Flat(ss[b]) \in Seq(Byte)
                               /\ Occurs(ss, k)[b] = Count(Flat(ss[b]), k) /\ Occurs(ss, k)[b] \in Nat
                               /\ Occurs(ss, k)[b] <= Overall(Occurs(ss, k))
         /\ Occurs(ss, k) \in [Buffers -> Nat] /\ Overall(Occurs(ss, k)) \in Nat
<1>1. ASSUME NEW b \in Buffers
      PROVE  ss[b] \in Seq(Slice) /\ Flat(ss[b]) \in Seq(Byte) /\ Count(Flat(ss[b]), k) \in Nat
  <2>1. ss[b] \in Seq(Slice)
    BY DEF AllSlices
  <2>2. Flat(ss[b]) \in Seq(Byte)
    BY <2>1, FlatType, Zenon
  <2> QED
    BY <2>1, <2>2, CountRange, Zenon
<1>2. Occurs(ss, k) \in [Buffers -> Nat]
  BY <1>1 DEF Occurs
<1>3. \A b \in Buffers : Occurs(ss, k)[b] = Count(Flat(ss[b]), k)
  BY DEF Occurs
<1>4. Overall(Occurs(ss, k)) \in Nat
  BY <1>2, OverallType, Zenon
<1>5. \A b \in Buffers : Occurs(ss, k)[b] <= Overall(Occurs(ss, k))
  BY <1>2, ShareBound, Zenon
<1> QED
  BY <1>1, <1>2, <1>3, <1>4, <1>5, Zenon

\* A byte that add(const Instance&) has not copied is in the buffers at most
\* once, and one that has not entered yet is not there.
Unique ==
  \A k \in Byte : /\ k \notin copied => Overall(Occurs(slices, k)) <= 1
                  /\ k >= next => Overall(Occurs(slices, k)) = 0

\* Whatever a step does to the bytes, none is then in two places.
LEMMA UniqueStep ==
  ASSUME Inv, Inv', Unique, Step, copied \subseteq copied'
  PROVE  Unique'
<1> SUFFICES ASSUME NEW k \in Byte
             PROVE  /\ k \notin copied' => Overall(Occurs(slices', k)) <= 1
                    /\ k >= next' => Overall(Occurs(slices', k)) = 0
  BY Zenon DEF Unique
<1> DEFINE v == Occurs(slices, k)
           w == Occurs(slices', k)
           o == Overall(v)
           p == Overall(w)
<1>1. slices \in AllSlices /\ slices' \in AllSlices
  BY Zenon DEF Inv, Memory
<1>2. /\ v \in [Buffers -> Nat] /\ w \in [Buffers -> Nat] /\ o \in Nat /\ p \in Nat
      /\ \A x \in Buffers : v[x] = Count(Flat(slices[x]), k) /\ Flat(slices[x]) \in Seq(Byte)
                            /\ slices[x] \in Seq(Slice) /\ v[x] \in Nat /\ v[x] <= o
      /\ \A x \in Buffers : w[x] = Count(Flat(slices'[x]), k) /\ Flat(slices'[x]) \in Seq(Byte)
                            /\ w[x] \in Nat
  BY <1>1, OccursType, Zenon
<1>3. (k \notin copied => o <= 1) /\ (k >= next => o = 0) /\ k \in Nat /\ next \in Nat
  <2>1. k \in Nat /\ next \in Nat
    BY BufferAssumption DEF Byte, Inv, Others
  <2> QED
    BY <2>1, Zenon DEF Unique
<1>4. \A x, y \in Seq(Byte) : /\ Count(x \o y, k) = Count(x, k) + Count(y, k)
                              /\ Count(x, k) \in Nat /\ Count(y, k) \in Nat
  <2> SUFFICES ASSUME NEW x \in Seq(Byte), NEW y \in Seq(Byte)
               PROVE  /\ Count(x \o y, k) = Count(x, k) + Count(y, k)
                      /\ Count(x, k) \in Nat /\ Count(y, k) \in Nat
    OBVIOUS
  <2>1. Count(x \o y, k) = Count(x, k) + Count(y, k)
    BY CountConcat
  <2>2. Count(x, k) \in Nat /\ Count(y, k) \in Nat
    BY CountRange, Zenon
  <2> QED
    BY <2>1, <2>2
<1>5. ASSUME NEW B, Keeps(B)
      PROVE  \A x \in Buffers \ B : w[x] = v[x]
  <2>1. \A x \in Buffers \ B : Flat(slices'[x]) = Flat(slices[x])
    BY <1>5, Zenon DEF Keeps
  <2> HIDE DEF v, w
  <2> QED
    BY <1>2, <2>1, Zenon
<1> HIDE DEF v, w
<1>6. ASSUME NEW b \in Buffers, Keeps({b})
      PROVE  p = (o - v[b]) + w[b]
  BY <1>2, <1>5, <1>6, OverallChanged, Zenon
<1>7. ASSUME NEW b \in Buffers, NEW r \in Buffers \ {b}, Keeps({b, r})
      PROVE  p = (((o - v[b]) + w[b]) - v[r]) + w[r]
  <2>1. r \in Buffers /\ b # r
    OBVIOUS
  <2>2. \A x \in Buffers \ {b, r} : w[x] = v[x]
    BY <1>5, <1>7, Zenon
  <2> QED
    BY <1>2, <2>1, <2>2, OverallChangedTwice
<1> HIDE DEF o, p
<1>8. SUFFICES (k \notin copied' => p <= 1) /\ (k >= next' => p = 0)
  BY <1>8, Zenon DEF p, w
<1>9. PICK b \in Buffers :
        \/ \E n \in Nat : Enters(b, n)
        \/ Leaves(b)
        \/ \E r \in Buffers \ {b} : MovesOver(b, r) \/ GoesInFront(b, r) \/ Copies(b, r)
  BY Zenon DEF Step
<1>10. v[b] \in Nat /\ w[b] \in Nat /\ o \in Nat
  BY <1>2, Zenon
<1>11. k \notin copied' => k \notin copied
  OBVIOUS
<1>12. ASSUME NEW n \in Nat, Enters(b, n)
       PROVE  (k \notin copied' => p <= 1) /\ (k >= next' => p = 0)
  <2> DEFINE f == Count(Fresh(n), k)
  <2>1. Fresh(n) \in Seq(Byte) /\ f \in {0, 1} /\ (k < next \/ k >= next + n => f = 0)
    BY CountFresh, Zenon DEF Inv
  <2>2. next' = next + n /\ p = (o - v[b]) + w[b]
    BY <1>6, <1>12, Zenon DEF Enters
  <2>3. w[b] = v[b] + f \/ w[b] = f + v[b]
    <3>1. Flat(slices'[b]) = Flat(slices[b]) \o Fresh(n) \/ Flat(slices'[b]) = Fresh(n) \o Flat(slices[b])
      BY <1>12, Zenon DEF Enters
    <3> QED
      BY <1>2, <1>4, <2>1, <3>1, Zenon
  <2> HIDE DEF f
  <2>4. p = o + f
    BY <1>10, <2>1, <2>2, <2>3
  <2> QED
    BY <1>3, <1>10, <1>11, <2>1, <2>2, <2>4
<1>13. ASSUME Leaves(b)
       PROVE  (k \notin copied' => p <= 1) /\ (k >= next' => p = 0)
  <2>1. PICK x \in Seq(Byte) : Flat(slices[b]) = x \o Flat(slices'[b])
    BY <1>13, Zenon DEF Leaves
  <2>2. next' = next /\ p = (o - v[b]) + w[b]
    BY <1>6, <1>13, Zenon DEF Leaves
  <2>3. v[b] = Count(x, k) + w[b] /\ Count(x, k) \in Nat /\ v[b] <= o
    BY <1>2, <1>4, <2>1, Zenon
  <2>4. p <= o /\ p \in Nat
    BY <1>2, <1>10, <2>2, <2>3
  <2> QED
    BY <1>3, <1>10, <1>11, <2>2, <2>4
<1>14. ASSUME NEW r \in Buffers \ {b}, MovesOver(b, r)
       PROVE  (k \notin copied' => p <= 1) /\ (k >= next' => p = 0)
  <2>0. r \in Buffers /\ v[r] \in Nat /\ w[r] \in Nat
    BY <1>2
  <2>1. PICK x \in Seq(Byte) : Flat(slices[r]) = x \o Flat(slices'[r]) /\ Flat(slices'[b]) = Flat(slices[b]) \o x
    BY <1>14, Zenon DEF MovesOver
  <2>2. next' = next /\ p = (((o - v[b]) + w[b]) - v[r]) + w[r]
    BY <1>7, <1>14, Zenon DEF MovesOver
  <2> DEFINE m == Count(x, k)
  <2>3. v[r] = m + w[r] /\ m \in Nat
    <3>1. Flat(slices'[r]) \in Seq(Byte) /\ v[r] = Count(Flat(slices[r]), k) /\ w[r] = Count(Flat(slices'[r]), k)
      BY <1>2, <2>0, Zenon
    <3>2. Flat(slices[r]) = x \o Flat(slices'[r])
      BY <2>1
    <3> QED
      BY <1>4, <3>1, <3>2, Zenon
  <2>4. w[b] = v[b] + m
    <3>1. Flat(slices[b]) \in Seq(Byte) /\ v[b] = Count(Flat(slices[b]), k) /\ w[b] = Count(Flat(slices'[b]), k)
      BY <1>2, Zenon
    <3>2. Flat(slices'[b]) = Flat(slices[b]) \o x
      BY <2>1
    <3> QED
      BY <1>4, <3>1, <3>2, Zenon
  <2> HIDE DEF m
  <2>5. ASSUME NEW g \in Nat, NEW h \in Nat, NEW h1 \in Nat, NEW i \in Nat, NEW j \in Nat, NEW j1 \in Nat,
               h1 = h + i, j1 = i + j
        PROVE  (((g - h) + h1) - j1) + j = g
    BY <2>5
  <2>6. p = o
    <3>1. o \in Nat /\ v[b] \in Nat /\ w[b] \in Nat /\ m \in Nat /\ v[r] \in Nat /\ w[r] \in Nat
      BY <1>10, <2>0, <2>3, Zenon
    <3>2. (((o - v[b]) + w[b]) - v[r]) + w[r] = o
      BY <2>3, <2>4, <2>5, <3>1
    <3> QED
      BY <2>2, <3>2, Zenon
  <2> QED
    BY <1>3, <1>11, <2>2, <2>6, Zenon
<1>15. ASSUME NEW r \in Buffers \ {b}, GoesInFront(b, r)
       PROVE  (k \notin copied' => p <= 1) /\ (k >= next' => p = 0)
  <2>0. r \in Buffers /\ v[r] \in Nat /\ w[r] \in Nat
    BY <1>2
  <2>1. Flat(slices'[r]) = <<>> /\ Flat(slices'[b]) = Flat(slices[r]) \o Flat(slices[b])
    BY <1>15, Zenon DEF GoesInFront
  <2>2. next' = next /\ p = (((o - v[b]) + w[b]) - v[r]) + w[r]
    BY <1>7, <1>15, Zenon DEF GoesInFront
  <2>3. w[b] = v[r] + v[b]
    <3>1. Flat(slices[r]) \in Seq(Byte) /\ v[r] = Count(Flat(slices[r]), k)
      BY <1>2, <2>0, Zenon
    <3>2. /\ Flat(slices[b]) \in Seq(Byte) /\ v[b] = Count(Flat(slices[b]), k)
          /\ w[b] = Count(Flat(slices'[b]), k)
      BY <1>2, Zenon
    <3>3. Flat(slices'[b]) = Flat(slices[r]) \o Flat(slices[b])
      BY <2>1, Zenon
    <3> QED
      BY <1>4, <3>1, <3>2, <3>3, Zenon
  <2>4. w[r] = 0
    <3>1. <<>> \in Seq(Byte)
      OBVIOUS
    <3>2. Count(<<>>, k) = 0
      BY <3>1, CountType, Zenon
    <3> QED
      BY <1>2, <2>0, <2>1, <3>2, Zenon
  <2>5. p = o
    BY <1>10, <2>0, <2>2, <2>3, <2>4
  <2> QED
    BY <1>3, <1>11, <2>2, <2>5, Zenon
<1>16. ASSUME NEW r \in Buffers \ {b}, Copies(b, r)
       PROVE  (k \notin copied' => p <= 1) /\ (k >= next' => p = 0)
  <2>0. r \in Buffers /\ v[r] \in Nat /\ v[r] <= o
    BY <1>2
  <2>1. Flat(slices'[b]) = Flat(slices[b]) \o Flat(slices[r]) /\ Bytes(slices[r]) \subseteq copied'
    BY <1>16, Zenon DEF Copies
  <2>2. next' = next /\ p = (o - v[b]) + w[b]
    BY <1>6, <1>16, Zenon DEF Copies
  <2>3. w[b] = v[b] + v[r]
    BY <1>2, <1>4, <2>0, <2>1, Zenon
  <2>4. k \notin copied' => v[r] = 0
    <3>1. Bytes(slices[r]) = Range(Flat(slices[r]))
      BY <1>2, <2>0, BytesAreFlat, Zenon
    <3>2. k \notin Range(Flat(slices[r])) <=> Count(Flat(slices[r]), k) = 0
      BY <1>2, <2>0, CountRange, Zenon
    <3> QED
      BY <1>2, <2>0, <2>1, <3>1, <3>2, Zenon
  <2>5. p = o + v[r]
    BY <1>10, <2>0, <2>2, <2>3
  <2> QED
    BY <1>3, <1>10, <1>11, <2>0, <2>2, <2>4, <2>5
<1> QED
  BY <1>9, <1>12, <1>13, <1>14, <1>15, <1>16, Zenon

------------------------------------------------------------------------------
(* Trackers stay with the bytes they were added behind *)

\* The slices of all buffers.
All(ss) == UNION {Range(ss[b]) : b \in Buffers}

\* The slice that holds the byte behind which t was added also has t.
Together ==
  \A s \in All(slices), t \in Callbacks :
    tracked[t] \in Range(s.data) \ (copied \cup detached) => t \in Range(s.trackers)

\* That byte has entered.
Known == \A t \in Callbacks : tracked[t] < next

TrackerInv == Inv /\ Unique /\ Known /\ Together

\* The slices of one buffer change: the trackers follow the bytes in all buffers.
LEMMA OneFollows ==
  ASSUME slices \in AllSlices, NEW b \in Buffers, NEW zz, NEW N, slices' = [slices EXCEPT ![b] = zz],
         Follows(Range(slices[b]), Range(zz), N)
  PROVE  Follows(All(slices), All(slices'), N)
<1>2. slices'[b] = zz /\ \A x \in Buffers \ {b} : slices'[x] = slices[x]
  BY DEF AllSlices
<1> DEFINE V == UNION {Range(slices[x]) : x \in Buffers \ {b}}
<1>3. Range(slices[b]) \subseteq All(slices) /\ V \subseteq All(slices)
  BY DEF All
<1>4. All(slices') \subseteq Range(zz) \cup V
  <2> SUFFICES ASSUME NEW x \in Buffers, NEW s \in Range(slices'[x])
               PROVE  s \in Range(zz) \cup V
    BY Zenon DEF All
  <2>1. CASE x = b
    BY <1>2, <2>1, Zenon
  <2>2. CASE x # b
    BY <1>2, <2>2, Zenon
  <2> QED
    BY <2>1, <2>2
<1> HIDE DEF V
<1>5. Follows(All(slices), Range(zz), N)
  <2>1. Range(zz) \subseteq Range(zz) /\ N \subseteq N
    OBVIOUS
  <2> QED
    BY <1>3, <2>1, FollowsMore, Zenon
<1>6. Follows(All(slices), V, N)
  BY <1>3, FollowsSame, Zenon
<1>7. Follows(All(slices), Range(zz) \cup V, N)
  BY <1>5, <1>6, FollowsBoth, Zenon
<1>8. All(slices) \subseteq All(slices) /\ N \subseteq N
  OBVIOUS
<1> QED
  BY <1>4, <1>7, <1>8, FollowsMore, Zenon

\* A method of one buffer.
LEMMA PutFollows ==
  ASSUME slices \in AllSlices, NEW b \in Buffers, NEW d, NEW N, Put(b, d),
         Follows(Range(slices[b]), Range(d.slices), N)
  PROVE  Follows(All(slices), All(slices'), N)
<1>1. slices' = [slices EXCEPT ![b] = d.slices]
  BY Zenon DEF Put
<1> QED
  BY <1>1, OneFollows, Zenon

\* A method of two buffers, the same.
LEMMA PutBothFollows ==
  ASSUME slices \in AllSlices, NEW b \in Buffers, NEW r \in Buffers, b # r, NEW d, NEW tt, NEW n, NEW N,
         PutBoth(b, d, r, tt, n),
         Follows(Range(slices[b]) \cup Range(slices[r]), Range(d.slices), N),
         Follows(Range(slices[r]), Range(tt), {})
  PROVE  Follows(All(slices), All(slices'), N)
<1>1. slices' = [slices EXCEPT ![b] = d.slices, ![r] = tt]
  BY Zenon DEF PutBoth
<1>2. /\ slices'[b] = d.slices /\ slices'[r] = tt
      /\ \A x \in Buffers \ {b, r} : slices'[x] = slices[x]
  BY <1>1 DEF AllSlices
<1> DEFINE V == UNION {Range(slices[x]) : x \in Buffers \ {b, r}}
           S == Range(slices[b]) \cup Range(slices[r])
<1>3. S \subseteq All(slices) /\ Range(slices[r]) \subseteq All(slices) /\ V \subseteq All(slices)
  BY DEF All
<1>4. All(slices') \subseteq (Range(d.slices) \cup Range(tt)) \cup V
  <2> SUFFICES ASSUME NEW x \in Buffers, NEW s \in Range(slices'[x])
               PROVE  s \in (Range(d.slices) \cup Range(tt)) \cup V
    BY Zenon DEF All
  <2>1. CASE x = b
    BY <1>2, <2>1, Zenon
  <2>2. CASE x = r
    BY <1>2, <2>2, Zenon
  <2>3. CASE x # b /\ x # r
    BY <1>2, <2>3, Zenon
  <2> QED
    BY <2>1, <2>2, <2>3
<1> HIDE DEF V
<1>5. \A R : R \subseteq R
  OBVIOUS
<1>6. Follows(S, Range(d.slices), N)
  OBVIOUS
<1> HIDE DEF S
<1>7. Follows(All(slices), Range(d.slices), N)
  BY <1>3, <1>5, <1>6, FollowsMore, Zenon
<1>8. Follows(All(slices), Range(tt), N)
  <2> DEFINE M == {}
             R == Range(slices[r])
             W == Range(tt)
             T == All(slices)
  <2>1. Follows(R, W, M) /\ R \subseteq T /\ W \subseteq W /\ M \subseteq N
    BY <1>3
  <2> HIDE DEF M, R, W, T
  <2>2. Follows(T, W, N)
    BY <2>1, FollowsMore, Zenon
  <2> QED
    BY <2>2 DEF W, T
<1>9. Follows(All(slices), V, N)
  BY <1>3, FollowsSame, Zenon
<1>10. Follows(All(slices), (Range(d.slices) \cup Range(tt)) \cup V, N)
  <2> DEFINE W == Range(d.slices) \cup Range(tt)
  <2>1. Follows(All(slices), W, N)
    BY <1>7, <1>8, FollowsBoth, Zenon
  <2> HIDE DEF W
  <2>2. Follows(All(slices), W \cup V, N)
    BY <1>9, <2>1, FollowsBoth, Zenon
  <2> QED
    BY <2>2 DEF W
<1> QED
  BY <1>4, <1>5, <1>10, FollowsMore, Zenon

\* A step that adds no tracker: bytes that do not come from a slice are new,
\* copied or detached.
LEMMA TogetherStays ==
  ASSUME TrackerInv, NEW N, Follows(All(slices), All(slices'), N), tracked' = tracked,
         copied \subseteq copied', detached \subseteq detached',
         \A k \in N : k \in Nat /\ (k >= next \/ k \in copied' \/ k \in detached' \/ Callbacks = {})
  PROVE  Together'
<1> SUFFICES ASSUME NEW s \in All(slices'), NEW t \in Callbacks,
                    tracked[t] \in Range(s.data), tracked[t] \notin copied', tracked[t] \notin detached'
             PROVE  t \in Range(s.trackers)
  BY Zenon DEF Together
<1>1. tracked[t] \notin N
  <2>1. tracked[t] < next /\ next \in Nat
    BY BufferAssumption DEF TrackerInv, Known, Inv, Others
  <2>2. Callbacks # {}
    OBVIOUS
  <2>3. tracked[t] \in Nat => ~(tracked[t] >= next)
    BY <2>1
  <2> QED
    BY <2>2, <2>3, Zenon
<1>2. PICK u \in All(slices) : tracked[t] \in Range(u.data) /\ Range(u.trackers) \subseteq Range(s.trackers)
  BY <1>1, Zenon DEF Follows
<1>3. tracked[t] \notin copied /\ tracked[t] \notin detached
  BY Zenon
<1>4. t \in Range(u.trackers)
  BY <1>2, <1>3, Zenon DEF TrackerInv, Together
<1> QED
  BY <1>2, <1>4

\* A method of one buffer that brings in new bytes only.
LEMMA NewBytes ==
  ASSUME TrackerInv, NEW b \in Buffers, NEW n \in Entering, NEW d, Put(b, d),
         Follows(Range(slices[b]), Range(d.slices), Range(Fresh(n))),
         tracked' = tracked, copied' = copied, detached' = detached
  PROVE  Together'
<1> DEFINE N == Range(Fresh(n))
<1>1. slices \in AllSlices /\ Others
  BY Zenon DEF TrackerInv, Inv, Memory
<1>2. Follows(All(slices), All(slices'), N)
  BY <1>1, PutFollows, Zenon
<1>3. \A k \in N : k \in Nat /\ k >= next
  <2>1. next \in Nat /\ n \in Nat
    BY <1>1, FreshIs, BufferAssumption DEF Others
  <2>2. DOMAIN Fresh(n) = 1..n /\ \A i \in 1..n : Fresh(n)[i] = next + (i - 1)
    BY DEF Fresh
  <2>3. \A i \in 1..n : next + (i - 1) \in Nat /\ next + (i - 1) >= next
    BY <2>1
  <2> QED
    BY <2>2, <2>3, Zenon DEF Range
<1> HIDE DEF N
<1>4. copied \subseteq copied' /\ detached \subseteq detached'
  OBVIOUS
<1> QED
  BY <1>2, <1>3, <1>4, TogetherStays, Zenon

\* A method of one buffer that brings in no bytes.
LEMMA NoBytes ==
  ASSUME TrackerInv, NEW b \in Buffers, NEW d, Put(b, d),
         Follows(Range(slices[b]), Range(d.slices), {}),
         tracked' = tracked, copied' = copied, detached' = detached
  PROVE  Together'
<1>1. slices \in AllSlices
  BY Zenon DEF TrackerInv, Inv, Memory
<1>2. Follows(All(slices), All(slices'), {})
  BY <1>1, PutFollows, Zenon
<1>3. copied \subseteq copied' /\ detached \subseteq detached'
  OBVIOUS
<1> DEFINE N == {}
<1>4. Follows(All(slices), All(slices'), N)
       /\ \A k \in N : k \in Nat /\ (k >= next \/ k \in copied' \/ k \in detached' \/ Callbacks = {})
  BY <1>2, Zenon
<1> HIDE DEF N
<1> QED
  BY <1>3, <1>4, TogetherStays, Zenon

\* A method of two buffers that brings in no bytes.
LEMMA NoBytesInBoth ==
  ASSUME TrackerInv, NEW b \in Buffers, NEW r \in Buffers \ {b}, NEW d, NEW n,
         PutBoth(b, d, r, <<>>, n),
         Follows(Range(slices[b]) \cup Range(slices[r]), Range(d.slices), {}),
         tracked' = tracked, copied' = copied, detached' = detached
  PROVE  Together'
<1>0. r \in Buffers /\ b # r
  OBVIOUS
<1>1. slices \in AllSlices
  BY Zenon DEF TrackerInv, Inv, Memory
<1>2. Follows(Range(slices[r]), Range(<<>>), {})
  BY RangeIs DEF Follows
<1>3. Follows(All(slices), All(slices'), {})
  BY <1>0, <1>1, <1>2, PutBothFollows, Zenon
<1>4. copied \subseteq copied' /\ detached \subseteq detached'
  OBVIOUS
<1> DEFINE N == {}
<1>5. Follows(All(slices), All(slices'), N)
       /\ \A k \in N : k \in Nat /\ (k >= next \/ k \in copied' \/ k \in detached' \/ Callbacks = {})
  BY <1>3, Zenon
<1> HIDE DEF N
<1> QED
  BY <1>4, <1>5, TogetherStays, Zenon

\* Bytes that are copied away from their slice are remembered.
LEMMA NotedBytes ==
  ASSUME NEW data \in Seq(Byte), Noted(Range(data)) \subseteq detached'
  PROVE  \A k \in Range(data) : k \in Nat /\ (k >= next \/ k \in copied' \/ k \in detached' \/ Callbacks = {})
<1>1. Range(data) \subseteq Byte
  BY RangeIs
<1>2. \A k \in Range(data) : k \in Nat
  BY <1>1 DEF Byte
<1>3. CASE Callbacks = {}
  BY <1>2, <1>3, Zenon
<1>4. CASE Callbacks # {}
  BY <1>2, <1>4, Zenon DEF Noted
<1> QED
  BY <1>3, <1>4

\* The trackers stay with their bytes in every method that adds none.
LEMMA TogetherAdd ==
  ASSUME TrackerInv, NEW b \in Buffers, NEW n \in Entering, Add(b, n) \/ Prepend(b, n)
  PROVE  Together'
<1> DEFINE c == Buffer(b)
           data == Fresh(n)
<1>0. Inv
  BY Zenon DEF TrackerInv
<1>1. c \in Context /\ c.slices = slices[b] /\ data \in Seq(Byte)
  BY <1>0, BufferIs, FreshIs, Zenon DEF Inv
<1>2. tracked' = tracked /\ copied' = copied /\ detached' = detached
  BY Zenon DEF Add, Prepend, ghosts
<1>3. CASE Add(b, n)
  <2> DEFINE d == AddImpl(c, data)
  <2>1. Put(b, d)
    BY <1>3, Zenon DEF Add
  <2>2. Follows(Range(slices[b]), Range(d.slices), Range(data))
    BY <1>1, AddImplFollows, Zenon
  <2> HIDE DEF d
  <2> QED
    BY <1>2, <2>1, <2>2, NewBytes, Zenon
<1>4. CASE Prepend(b, n)
  <2> DEFINE d == PrependImpl(c, data)
  <2>1. Put(b, d)
    BY <1>4, Zenon DEF Prepend
  <2>2. Follows(Range(slices[b]), Range(d.slices), Range(data))
    BY <1>1, PrependImplFollows, Zenon
  <2> HIDE DEF d
  <2> QED
    BY <1>2, <2>1, <2>2, NewBytes, Zenon
<1> QED
  BY <1>3, <1>4

\* OwnedImpl::addFragments().
LEMMA TogetherAddFragments ==
  ASSUME TrackerInv, NEW b \in Buffers, NEW m \in Entering, NEW n \in Entering, AddFragments(b, m, n)
  PROVE  Together'
<1> DEFINE c == Buffer(b)
           data == Fresh(n)
           d == AddTwo(c, data, m)
<1>0. Inv
  BY Zenon DEF TrackerInv
<1>1. /\ c \in Context /\ c.slices = slices[b] /\ data \in Seq(Byte)
      /\ Len(data) = n /\ n \in Nat /\ m \in Nat
  BY <1>0, BufferIs, FreshIs, Zenon DEF Inv
<1>2. m <= n /\ Put(b, d) /\ tracked' = tracked /\ copied' = copied /\ detached' = detached
  BY Zenon DEF AddFragments, ghosts
<1> HIDE DEF data
<1>3. m \in 0..Len(data)
  BY <1>1, <1>2
<1>4. Follows(Range(slices[b]), Range(d.slices), Range(data))
  BY <1>1, <1>3, AddTwoFollows, Zenon
<1> HIDE DEF d
<1> QED
  BY <1>2, <1>4, NewBytes, Zenon DEF data

\* OwnedImpl::reserveSingleSlice() and commit().
LEMMA TogetherReserveSingleSlice ==
  ASSUME TrackerInv, NEW b \in Buffers, NEW n \in Entering, NEW room \in Rooms, NEW separate \in BOOLEAN,
         ReserveSingleSliceAndCommit(b, room, separate, n)
  PROVE  Together'
<1> DEFINE c == Buffer(b)
           data == Fresh(n)
           e == WithoutEmptyBack(c)
           d == CommittedSingle(e, room, separate, data)
<1>0. Inv
  BY Zenon DEF TrackerInv
<1>1. c \in Context /\ c.slices = slices[b] /\ data \in Seq(Byte) /\ Len(data) = n /\ n \in Nat
  BY <1>0, BufferIs, FreshIs, Zenon DEF Inv
<1>2. room > 0 /\ n <= room /\ Put(b, d) /\ tracked' = tracked /\ copied' = copied /\ detached' = detached
  BY Zenon DEF ReserveSingleSliceAndCommit, ghosts
<1> HIDE DEF data
<1>3. room \in Nat \ {0} /\ Len(data) <= room
  BY <1>1, <1>2, BufferAssumption
<1>4. e \in Context /\ Follows(Range(slices[b]), Range(e.slices), {})
  BY <1>1, WithoutEmptyBackFollows, Zenon
<1> HIDE DEF e
<1>5. Follows(Range(e.slices), Range(d.slices), Range(data))
  BY <1>1, <1>3, <1>4, CommittedSingleFollows, Zenon
<1> HIDE DEF d
<1>6. Follows(Range(slices[b]), Range(d.slices), Range(data))
  <2>1. Follows(Range(slices[b]), Range(d.slices), {} \cup Range(data))
    BY <1>4, <1>5, FollowsOn, Zenon
  <2>2. {} \cup Range(data) = Range(data)
    OBVIOUS
  <2> QED
    BY <2>1, <2>2, Zenon
<1> QED
  BY <1>2, <1>6, NewBytes, Zenon DEF data

\* OwnedImpl::reserveForRead() and commit().
LEMMA TogetherReserveForRead ==
  ASSUME TrackerInv, NEW b \in Buffers, NEW n \in Entering, ReserveForReadAndCommit(b, n)
  PROVE  Together'
<1> DEFINE c0 == Buffer(b)
           data == Fresh(n)
           c == WithoutEmptyBack(c0)
           max == MaxSlices * DefaultSliceSize
           reuse == BackRoom(c) >= max \/ BackRoom(c) >= MinReuse
           first == IF reuse THEN Min({BackRoom(c), max}) ELSE 0
           left(j) == max - Reserved(first, j)
           top == MaxSlices - (IF reuse THEN 1 ELSE 0)
           J == {j \in 1..top :
                  /\ left(j) > 0
                  /\ ~(DefaultSliceSize > left(j) /\ Reserved(first, j) >= DefaultSliceSize)}
           fresh == Cardinality(J)
           d == Committed(c, data, first, fresh)
<1>0. Inv
  BY Zenon DEF TrackerInv
<1>1. c0 \in Context /\ c0.slices = slices[b] /\ data \in Seq(Byte) /\ Len(data) = n /\ n \in Nat
  BY <1>0, BufferIs, FreshIs, Zenon DEF Inv
<1>2. /\ n <= Reserved(first, fresh + 1) /\ Put(b, d)
      /\ tracked' = tracked /\ copied' = copied /\ detached' = detached
  BY Zenon DEF ReserveForReadAndCommit, ghosts
<1>3. c \in Context /\ Follows(Range(slices[b]), Range(c.slices), {})
  BY <1>1, WithoutEmptyBackFollows, Zenon
<1> HIDE DEF c
<1>4. BackRoom(c) \in Nat /\ (c.slices = <<>> => BackRoom(c) = 0)
  BY <1>3, BackRoomType, Zenon
<1>5. MaxSlices \in Nat \ {0} /\ max \in Nat
  <2>1. MaxSlices \in Nat \ {0} /\ DefaultSliceSize \in Nat
    BY BufferAssumption
  <2> QED
    BY <2>1
<1> HIDE DEF max
<1>6. first \in Nat /\ (first = 0 \/ (c.slices # <<>> /\ first <= BackRoom(c)))
  <2> DEFINE y == Min({BackRoom(c), max})
             x == BackRoom(c)
  <2>1. y = (IF x <= max THEN x ELSE max) /\ x \in Nat /\ (c.slices = <<>> => x = 0)
    BY <1>4, <1>5, MinMaxOfTwo
  <2> HIDE DEF x, y
  <2>2. y \in Nat /\ y <= x /\ (c.slices = <<>> => y = 0)
    BY <1>5, <2>1
  <2>3. first = y \/ first = 0
    BY Zenon DEF y
  <2> HIDE DEF first
  <2> QED
    BY <2>2, <2>3 DEF x
<1>7. fresh \in Nat
  <2>1. top \in Int
    BY <1>5
  <2> HIDE DEF top
  <2>2. IsFiniteSet(1..top)
    BY <2>1, FS_Interval
  <2>3. J \subseteq 1..top
    OBVIOUS
  <2> HIDE DEF J
  <2> QED
    BY <2>2, <2>3, FS_Subset, FS_CardinalityType, Zenon
<1> HIDE DEF first, fresh, data
<1>8. Len(data) <= Reserved(first, fresh + 1)
  BY <1>1, <1>2, Zenon
<1>9. Follows(Range(c.slices), Range(d.slices), Range(data))
  BY <1>1, <1>3, <1>6, <1>7, <1>8, CommittedFollows, Zenon
<1> HIDE DEF d
<1>10. Follows(Range(slices[b]), Range(d.slices), Range(data))
  <2>1. Follows(Range(slices[b]), Range(d.slices), {} \cup Range(data))
    BY <1>3, <1>9, FollowsOn, Zenon
  <2>2. {} \cup Range(data) = Range(data)
    OBVIOUS
  <2> QED
    BY <2>1, <2>2, Zenon
<1> QED
  BY <1>2, <1>10, NewBytes, Zenon DEF data

\* OwnedImpl::drain().
LEMMA TogetherDrain ==
  ASSUME TrackerInv, NEW b \in Buffers, NEW n \in 0..MaxBytes, Drain(b, n)
  PROVE  Together'
<1> DEFINE c == Buffer(b)
           d == DrainImpl(c, n)
<1>1. c \in Context /\ c.slices = slices[b]
  BY BufferIs, Zenon DEF TrackerInv
<1>2. Put(b, d) /\ tracked' = tracked /\ copied' = copied /\ detached' = detached
  BY Zenon DEF Drain, ghosts
<1>3. n \in Nat
  BY BufferAssumption
<1>4. Follows(Range(slices[b]), Range(d.slices), {})
  BY <1>1, <1>3, DrainImplFollows, Zenon
<1> HIDE DEF d
<1> QED
  BY <1>2, <1>4, NoBytes, Zenon

\* OwnedImpl::extractMutableFrontSlice().
LEMMA TogetherExtract ==
  ASSUME TrackerInv, NEW b \in Buffers, ExtractMutableFrontSlice(b)
  PROVE  Together'
<1> DEFINE c == Buffer(b)
           d == Extracted(c)
<1>1. c \in Context /\ c.slices = slices[b] /\ length[b] = Len(Flat(slices[b]))
  BY BufferIs, Zenon DEF TrackerInv
<1>2. length[b] > 0 /\ Put(b, d) /\ tracked' = tracked /\ copied' = copied /\ detached' = detached
  BY Zenon DEF ExtractMutableFrontSlice, ghosts
<1>3. Flat(c.slices) # <<>>
  <2>1. Len(<<>>) = 0 /\ ~(0 > 0)
    OBVIOUS
  <2> QED
    BY <1>1, <1>2, <2>1, Zenon
<1>4. Follows(Range(slices[b]), Range(d.slices), {})
  BY <1>1, <1>3, ExtractedFollows, Zenon
<1> HIDE DEF d
<1> QED
  BY <1>2, <1>4, NoBytes, Zenon

\* OwnedImpl::~OwnedImpl().
LEMMA TogetherDestroy ==
  ASSUME TrackerInv, NEW b \in Buffers, Destroy(b)
  PROVE  Together'
<1> DEFINE c == Buffer(b)
           e == ReleaseAll(c, slices[b])
           d == [e EXCEPT !.slices = <<>>, !.length = 0]
<1>1. c \in Context /\ slices[b] \in Seq(Slice)
  BY BufferIs, Zenon DEF TrackerInv
<1>2. Put(b, d) /\ tracked' = tracked /\ copied' = copied /\ detached' = detached
  BY Zenon DEF Destroy, ghosts
<1>3. e \in Context
  BY <1>1, ReleaseAllIs, Zenon DEF OnlyAccounts
<1> HIDE DEF e
<1>4. d.slices = <<>>
  BY <1>3 DEF Context
<1> HIDE DEF d
<1>5. Range(d.slices) = {}
  BY <1>4, RangeIs, Zenon
<1>6. Follows(Range(slices[b]), Range(d.slices), {})
  BY <1>5, Zenon DEF Follows
<1> QED
  BY <1>2, <1>6, NoBytes, Zenon

\* OwnedImpl::linearize().
LEMMA TogetherLinearize ==
  ASSUME TrackerInv, NEW b \in Buffers, NEW n \in 0..MaxBytes, Linearize(b, n)
  PROVE  Together'
<1> DEFINE c == Buffer(b)
           d == Linearized(c, n)
           data == SubSeq(Flat(slices[b]), 1, n)
<1>1. /\ c \in Context /\ c.slices = slices[b] /\ length[b] = Len(Flat(slices[b]))
      /\ slices[b] \in Seq(Slice) /\ slices \in AllSlices
  BY BufferIs, Zenon DEF TrackerInv, Inv, Memory
<1>2. /\ n <= length[b] /\ Put(b, d) /\ tracked' = tracked /\ copied' = copied
      /\ detached' = detached \cup Noted(Range(data))
  BY Zenon DEF Linearize
<1>3. n \in Nat /\ n <= Len(Flat(c.slices))
  BY <1>1, <1>2, BufferAssumption
<1>4. Flat(slices[b]) \in Seq(Byte)
  BY <1>1, FlatType, Zenon
<1>5. data \in Seq(Byte)
  <2>1. n \in 0..Len(Flat(slices[b]))
    BY <1>1, <1>2, <1>3, <1>4
  <2> QED
    BY <1>4, <2>1, BytesSplit, Zenon
<1>6. Follows(Range(slices[b]), Range(d.slices), Range(data))
  BY <1>1, <1>3, LinearizedFollows, Zenon
<1> HIDE DEF d, data
<1>7. Follows(All(slices), All(slices'), Range(data))
  BY <1>1, <1>2, <1>6, PutFollows, Zenon
<1>8. copied \subseteq copied' /\ detached \subseteq detached' /\ Noted(Range(data)) \subseteq detached'
  BY <1>2, Zenon
<1>9. \A k \in Range(data) : k \in Nat /\ (k >= next \/ k \in copied' \/ k \in detached' \/ Callbacks = {})
  BY <1>5, <1>8, NotedBytes, Zenon
<1> QED
  BY <1>2, <1>7, <1>8, <1>9, TogetherStays, Zenon

\* OwnedImpl::move(Instance&) and prepend(Instance&).
LEMMA TogetherMove ==
  ASSUME TrackerInv, NEW b \in Buffers, NEW r \in Buffers \ {b}, Move(b, r) \/ PrependInstance(b, r)
  PROVE  Together'
<1> DEFINE c == Buffer(b)
           ss == slices[r]
           n == length[r] - Size(ss)
<1>0. r \in Buffers
  OBVIOUS
<1>1. c \in Context /\ c.slices = slices[b] /\ ss \in Seq(Slice)
  BY <1>0, BufferIs, Zenon DEF TrackerInv
<1>2. tracked' = tracked /\ copied' = copied /\ detached' = detached
  BY Zenon DEF Move, PrependInstance, ghosts
<1>3. CASE Move(b, r)
  <2> DEFINE d == CoalesceOrAddSlices(c, ss)
  <2>1. PutBoth(b, d, r, <<>>, n)
    BY <1>3, Zenon DEF Move
  <2>2. Follows(Range(slices[b]) \cup Range(slices[r]), Range(d.slices), {})
    BY <1>1, CoalesceOrAddSlicesFollows, Zenon
  <2> HIDE DEF d
  <2> QED
    BY <1>2, <2>1, <2>2, NoBytesInBoth, Zenon
<1>4. CASE PrependInstance(b, r)
  <2> DEFINE d == PrependSlices(c, ss)
  <2>1. PutBoth(b, d, r, <<>>, n)
    BY <1>4, Zenon DEF PrependInstance
  <2>2. Follows(Range(slices[b]) \cup Range(slices[r]), Range(d.slices), {})
    BY <1>1, PrependSlicesFollows, Zenon
  <2> HIDE DEF d
  <2> QED
    BY <1>2, <2>1, <2>2, NoBytesInBoth, Zenon
<1> QED
  BY <1>3, <1>4

\* The part of a slice that move(rhs, length) copies.
LEMMA PartDataType ==
  ASSUME NEW ss \in Seq(Slice), NEW k \in Nat
  PROVE  PartData(ss, k) \in Seq(Byte)
<1>1. CASE Part(ss, k) = 0
  BY <1>1, Concatenation, Zenon DEF PartData
<1>2. CASE Part(ss, k) # 0
  <2> DEFINE w == Whole(ss, k)
             p == Part(ss, k)
  <2>1. w \in 0..Len(ss) /\ p \in Nat /\ w < Len(ss) /\ p <= Len(ss[w + 1].data)
    BY <1>2, WholeIs, Zenon
  <2> HIDE DEF w, p
  <2>2. ss[w + 1] \in Slice
    BY <2>1
  <2>3. ss[w + 1].data \in Seq(Byte)
    BY <2>2, SliceIs, Zenon
  <2>4. p \in 0..Len(ss[w + 1].data)
    BY <2>1, <2>3
  <2>5. SubSeq(ss[w + 1].data, 1, p) \in Seq(Byte)
    BY <2>3, <2>4, BytesSplit, Zenon
  <2> QED
    BY <1>2, <2>5, Zenon DEF PartData, w, p
<1> QED
  BY <1>1, <1>2

\* OwnedImpl::move(Instance&, uint64_t).
LEMMA TogetherMoveLength ==
  ASSUME TrackerInv, NEW b \in Buffers, NEW r \in Buffers \ {b}, NEW k \in 1..MaxBytes, MoveLength(b, r, k)
  PROVE  Together'
<1> DEFINE c == Buffer(b)
           ss == slices[r]
           d == Moved(c, ss, k)
           tt == MovedFrom(ss, k)
           n == length[r] - (End(ss, Whole(ss, k)) + Part(ss, k))
           data == PartData(ss, k)
<1>0. r \in Buffers /\ b # r /\ k \in Nat
  BY BufferAssumption
<1>1. c \in Context /\ c.slices = slices[b] /\ ss \in Seq(Slice) /\ slices \in AllSlices
  BY <1>0, BufferIs, Zenon DEF TrackerInv, Inv, Memory
<1>2. /\ PutBoth(b, d, r, tt, n) /\ tracked' = tracked /\ copied' = copied
      /\ detached' = detached \cup Noted(Range(data))
  BY Zenon DEF MoveLength
<1>3. data \in Seq(Byte)
  BY <1>0, <1>1, PartDataType, Zenon
<1>4. /\ Follows(Range(slices[b]) \cup Range(slices[r]), Range(d.slices), Range(data))
      /\ Follows(Range(slices[r]), Range(tt), {})
  BY <1>0, <1>1, MovedFollows, Zenon
<1> HIDE DEF d, tt, data, n
<1>5. Follows(All(slices), All(slices'), Range(data))
  BY <1>0, <1>1, <1>2, <1>4, PutBothFollows, Zenon
<1>6. copied \subseteq copied' /\ detached \subseteq detached' /\ Noted(Range(data)) \subseteq detached'
  BY <1>2, Zenon
<1>7. \A j \in Range(data) : j \in Nat /\ (j >= next \/ j \in copied' \/ j \in detached' \/ Callbacks = {})
  BY <1>3, <1>6, NotedBytes, Zenon
<1> QED
  BY <1>2, <1>5, <1>6, <1>7, TogetherStays, Zenon

\* OwnedImpl::add(const Instance&).
LEMMA TogetherAddInstance ==
  ASSUME TrackerInv, NEW b \in Buffers, NEW r \in Buffers \ {b}, AddInstance(b, r)
  PROVE  Together'
<1> DEFINE c == Buffer(b)
           ss == slices[r]
           d == AddSlices(c, ss)
           N == Bytes(ss)
<1>0. r \in Buffers
  OBVIOUS
<1>1. c \in Context /\ c.slices = slices[b] /\ ss \in Seq(Slice) /\ slices \in AllSlices
  BY <1>0, BufferIs, Zenon DEF TrackerInv, Inv, Memory
<1>2. Put(b, d) /\ tracked' = tracked /\ copied' = copied \cup N /\ detached' = detached
  BY Zenon DEF AddInstance
<1>3. Follows(Range(slices[b]), Range(d.slices), N)
  BY <1>1, AddSlicesFollows, Zenon
<1>4. N \subseteq Nat
  <2>1. Flat(ss) \in Seq(Byte) /\ N = Range(Flat(ss))
    BY <1>1, FlatType, BytesAreFlat, Zenon
  <2>2. Range(Flat(ss)) \subseteq Byte
    BY <2>1, RangeIs
  <2> QED
    BY <2>1, <2>2 DEF Byte
<1> HIDE DEF d, N
<1>5. Follows(All(slices), All(slices'), N)
  BY <1>1, <1>2, <1>3, PutFollows, Zenon
<1>6. copied \subseteq copied' /\ detached \subseteq detached'
  BY <1>2, Zenon
<1>7. \A k \in N : k \in Nat /\ (k >= next \/ k \in copied' \/ k \in detached' \/ Callbacks = {})
  BY <1>2, <1>4, Zenon
<1> QED
  BY <1>2, <1>5, <1>6, <1>7, TogetherStays, Zenon

\* OwnedImpl::bindAccount().
LEMMA TogetherBindAccount ==
  ASSUME TrackerInv, NEW b \in Buffers, NEW a \in Accounts, BindAccount(b, a)
  PROVE  Together'
BY Zenon DEF TrackerInv, Together, All, BindAccount, memory, ghosts

\* A byte in a slice.
LEMMA HeldByte ==
  ASSUME NEW tt \in Seq(Slice), NEW s \in Range(tt), NEW k \in Range(s.data)
  PROVE  k \in Byte /\ Count(Flat(tt), k) \in Nat \ {0}
<1>1. Flat(tt) \in Seq(Byte)
  BY FlatType, Zenon
<1>2. k \in Range(Flat(tt))
  <2>1. Range(Flat(tt)) = UNION {Range(u.data) : u \in Range(tt)}
    BY BytesAreFlat, Zenon
  <2> QED
    BY <2>1, Zenon
<1>3. Range(Flat(tt)) \subseteq Byte
  BY <1>1, RangeIs
<1>4. Count(Flat(tt), k) \in Nat /\ Count(Flat(tt), k) # 0
  BY <1>1, <1>2, CountRange, Zenon
<1> QED
  BY <1>2, <1>3, <1>4

\* It has entered.
LEMMA OldByte ==
  ASSUME TrackerInv, NEW s \in All(slices), NEW k \in Range(s.data)
  PROVE  k \in Byte /\ k < next
<1>1. PICK x \in Buffers : s \in Range(slices[x])
  BY Zenon DEF All
<1>2. slices \in AllSlices /\ slices[x] \in Seq(Slice) /\ next \in Nat
  BY BufferAssumption DEF TrackerInv, Inv, Memory, Others, AllSlices
<1>3. k \in Byte /\ Count(Flat(slices[x]), k) \in Nat \ {0}
  BY <1>1, <1>2, HeldByte, Zenon
<1> DEFINE w == Occurs(slices, k)
           m == Count(Flat(slices[x]), k)
           o == Overall(w)
<1>4. m <= o /\ o \in Nat
  <2>1. w[x] = m /\ w[x] <= o /\ o \in Nat
    BY <1>2, OccursType, Zenon
  <2> QED
    BY <2>1, Zenon
<1>5. k >= next => o = 0
  BY <1>3, Zenon DEF TrackerInv, Unique
<1>6. k \in Nat /\ m \in Nat \ {0}
  BY <1>3 DEF Byte
<1> HIDE DEF m, o
<1>7. k < next
  BY <1>2, <1>4, <1>5, <1>6
<1> QED
  BY <1>3, <1>7

\* A byte of the last slice that was not copied is in no other slice.
LEMMA OnlyInBack ==
  ASSUME TrackerInv, NEW b \in Buffers, slices[b] # <<>>, NEW k \in Range(Last(slices[b]).data), k \notin copied
  PROVE  LET f == SubSeq(slices[b], 1, Len(slices[b]) - 1)
         IN /\ \A s \in Range(f) : k \notin Range(s.data)
            /\ \A x \in Buffers \ {b} : \A s \in Range(slices[x]) : k \notin Range(s.data)
<1> DEFINE ss == slices[b]
           back == Last(ss)
           f == SubSeq(ss, 1, Len(ss) - 1)
           w == Occurs(slices, k)
           o == Overall(w)
<1>1. slices \in AllSlices /\ \A x \in Buffers : slices[x] \in Seq(Slice)
  BY DEF TrackerInv, Inv, Memory, AllSlices
<1>2. back \in Slice /\ f \in Seq(Slice) /\ ss = Append(f, back)
  BY <1>1, Ends, Zenon
<1>3. Flat(ss) = Flat(f) \o back.data /\ Flat(f) \in Seq(Byte) /\ back.data \in Seq(Byte)
  <2> HIDE DEF f, back
  <2> QED
    BY <1>2, FlatEnds, FlatType, Zenon
<1>4. w \in [Buffers -> Nat] /\ o \in Nat /\ \A x \in Buffers : w[x] = Count(Flat(slices[x]), k) /\ w[x] \in Nat
  BY <1>1, OccursType, Zenon
<1>5. o <= 1
  <2>1. Range(back.data) \subseteq Byte
    BY <1>3, RangeIs
  <2>2. k \in Byte
    BY <2>1
  <2> QED
    BY <2>2, Zenon DEF TrackerInv, Unique
<1>6. Count(back.data, k) \in Nat \ {0}
  <2>1. Count(back.data, k) \in Nat /\ Count(back.data, k) # 0
    BY <1>3, CountRange, Zenon
  <2> QED
    BY <2>1
<1>7. w[b] = Count(Flat(f), k) + Count(back.data, k) /\ Count(Flat(f), k) \in Nat
  <2> DEFINE x == Flat(f)
             y == back.data
  <2>1. x \in Seq(Byte) /\ y \in Seq(Byte) /\ Flat(ss) = x \o y
    BY <1>3
  <2> HIDE DEF x, y
  <2>2. Count(x \o y, k) = Count(x, k) + Count(y, k)
    BY <2>1, CountConcat
  <2>3. Count(x, k) \in Nat
    BY <2>1, CountRange, Zenon
  <2> QED
    BY <1>4, <2>1, <2>2, <2>3, Zenon DEF x, y
<1> HIDE DEF w
<1>8. w[b] <= o /\ \A x \in Buffers \ {b} : w[b] + w[x] <= o
  BY <1>4, ShareBound, Zenon
<1> HIDE DEF o, f, back
<1>9. ASSUME NEW s \in Range(f), k \in Range(s.data)
      PROVE  FALSE
  <2> DEFINE m == Count(Flat(f), k)
             n == Count(back.data, k)
  <2>1. m \in Nat \ {0}
    BY <1>2, <1>9, HeldByte, Zenon
  <2>2. n \in Nat \ {0} /\ w[b] = m + n /\ w[b] <= o /\ o <= 1 /\ o \in Nat
    BY <1>4, <1>5, <1>6, <1>7, <1>8, Zenon
  <2> HIDE DEF m, n
  <2> QED
    BY <2>1, <2>2
<1>10. ASSUME NEW x \in Buffers \ {b}, NEW s \in Range(slices[x]), k \in Range(s.data)
       PROVE  FALSE
  <2> DEFINE m == Count(Flat(f), k)
             n == Count(back.data, k)
  <2>1. w[x] \in Nat \ {0}
    BY <1>1, <1>4, <1>10, HeldByte, Zenon
  <2>2. n \in Nat \ {0} /\ m \in Nat /\ w[b] = m + n /\ w[b] + w[x] <= o /\ o <= 1 /\ o \in Nat
    BY <1>4, <1>5, <1>6, <1>7, <1>8, Zenon
  <2> HIDE DEF m, n
  <2> QED
    BY <2>1, <2>2
<1> QED
  BY <1>9, <1>10, Zenon DEF f

\* A step that adds the tracker t behind the byte k.
LEMMA TrackerAdded ==
  ASSUME TrackerInv, NEW N, Follows(All(slices), All(slices'), N), \A j \in N : j \in Nat /\ j >= next,
         NEW t \in Callbacks, NEW k, tracked' = [tracked EXCEPT ![t] = k],
         copied' = copied, detached' = detached,
         \A s \in All(slices') : k \in Range(s.data) \ copied => t \in Range(s.trackers)
  PROVE  Together'
<1> SUFFICES ASSUME NEW s \in All(slices'), NEW x \in Callbacks,
                    tracked'[x] \in Range(s.data), tracked'[x] \notin copied, tracked'[x] \notin detached
             PROVE  x \in Range(s.trackers)
  BY Zenon DEF Together
<1>1. tracked \in [Callbacks -> Nat \cup {-1}]
  BY Zenon DEF TrackerInv, Inv, Others
<1>2. tracked'[t] = k /\ (x # t => tracked'[x] = tracked[x])
  BY <1>1
<1>3. CASE x = t
  BY <1>2, <1>3, Zenon
<1>4. CASE x # t
  <2>1. tracked[x] < next /\ next \in Nat
    BY BufferAssumption DEF TrackerInv, Known, Inv, Others
  <2>2. tracked[x] \in Nat => ~(tracked[x] >= next)
    BY <2>1
  <2>3. tracked[x] \notin N
    BY <2>2, Zenon
  <2>4. PICK u \in All(slices) : tracked[x] \in Range(u.data) /\ Range(u.trackers) \subseteq Range(s.trackers)
    BY <1>2, <1>4, <2>3, Zenon DEF Follows
  <2>5. x \in Range(u.trackers)
    BY <1>2, <1>4, <2>4, Zenon DEF TrackerInv, Together
  <2> QED
    BY <2>4, <2>5
<1> QED
  BY <1>3, <1>4

\* OwnedImpl::addBufferFragment().
LEMMA TogetherAddBufferFragment ==
  ASSUME TrackerInv, NEW b \in Buffers, NEW f \in Fragments, NEW n \in Entering, AddBufferFragment(b, f, n)
  PROVE  Together' /\ Known'
<1> DEFINE c == Buffer(b)
           data == Fresh(n)
           s == FragmentSlice(data, f)
           d == AddFragment(c, data, f)
           k == IF n = 0 THEN 0 ELSE next + (n - 1)
           zz == Append(slices[b], s)
<1>0. f \in Callbacks /\ Inv
  BY Zenon DEF Callbacks, TrackerInv
<1>1. n \in Nat /\ data \in Seq(Byte) /\ Len(data) = n /\ next \in Nat \ {0}
  <2>1. n \in Nat /\ data \in Seq(Byte) /\ Len(data) = n
    BY <1>0, FreshIs, Zenon DEF Inv
  <2>2. next \in Nat \ {0}
    BY <1>0, BufferAssumption DEF Inv, Others
  <2> QED
    BY <2>1, <2>2
<1>2. c \in Context /\ c.slices = slices[b] /\ slices[b] \in Seq(Slice) /\ slices \in AllSlices
  BY <1>0, BufferIs, Zenon DEF Inv, Memory
<1>3. /\ Put(b, d) /\ tracked' = [tracked EXCEPT ![f] = k] /\ next' = next + n
      /\ copied' = copied /\ detached' = detached
  BY Zenon DEF AddBufferFragment
<1>4. \A j \in Range(data) : j \in Nat /\ j >= next
  <2>1. DOMAIN data = 1..n /\ \A i \in 1..n : data[i] = next + (i - 1)
    BY DEF Fresh
  <2>2. \A i \in 1..n : next + (i - 1) \in Nat /\ next + (i - 1) >= next
    BY <1>1
  <2> QED
    BY <2>1, <2>2, Zenon DEF Range
<1> HIDE DEF c, data
<1>5. s \in Slice /\ s.data = data /\ f \in Range(s.trackers)
  <2>1. /\ <<f>> \in Seq(Callbacks) /\ None \in Payer /\ 0 \in Nat /\ FALSE \in BOOLEAN
        /\ Len(data) \in Nat /\ 0 + Len(data) <= Len(data)
    BY <1>0, <1>1 DEF Payer
  <2>2. s \in Slice
    BY <1>1, <2>1, SliceIs, Zenon DEF FragmentSlice
  <2>3. s.trackers = <<f>> /\ s.data = data
    BY DEF FragmentSlice
  <2>4. Range(<<f>>) = {f}
    BY <1>0, RangeIs
  <2> QED
    BY <2>2, <2>3, <2>4, Zenon
<1>6. d.slices = zz
  BY <1>2 DEF AddFragment, Context
<1> HIDE DEF s, d
<1>7. slices' = [slices EXCEPT ![b] = zz]
  BY <1>3, <1>6, Zenon DEF Put
<1>8. Follows(Range(slices[b]), Range(zz), Range(data))
  <2>1. Follows(Range(slices[b]), {s}, Range(data))
    BY <1>5, FollowsNew
  <2>2. Follows(Range(slices[b]), Range(slices[b]), Range(data))
    BY FollowsSame
  <2> QED
    BY <1>2, <1>5, <2>1, <2>2, FollowsAppend, Zenon
<1>9. Follows(All(slices), All(slices'), Range(data))
  BY <1>2, <1>7, <1>8, OneFollows, Zenon
<1>10. Range(zz) = Range(slices[b]) \cup {s}
  BY <1>2, <1>5, RangeIs
<1> HIDE DEF zz
<1>11. k \in Nat /\ (k = 0 \/ k >= next) /\ k < next + n
  BY <1>1
<1> HIDE DEF k
<1>12. All(slices') \subseteq All(slices) \cup {s}
  <2>1. slices'[b] = zz /\ \A x \in Buffers \ {b} : slices'[x] = slices[x]
    BY <1>2, <1>7 DEF AllSlices
  <2> SUFFICES ASSUME NEW x \in Buffers, NEW u \in Range(slices'[x])
               PROVE  u \in All(slices) \cup {s}
    BY Zenon DEF All
  <2>2. CASE x = b
    BY <1>10, <2>1, <2>2, Zenon DEF All
  <2>3. CASE x # b
    BY <2>1, <2>3, Zenon DEF All
  <2> QED
    BY <2>2, <2>3
<1>13. ASSUME NEW u \in All(slices'), k \in Range(u.data)
       PROVE  f \in Range(u.trackers)
  <2>1. CASE u = s
    BY <1>5, <2>1, Zenon
  <2>2. CASE u \in All(slices)
    <3>1. k \in Byte /\ k < next
      BY <1>13, <2>2, OldByte, Zenon
    <3> QED
      BY <1>1, <1>11, <3>1 DEF Byte
  <2> QED
    BY <1>12, <2>1, <2>2, Zenon
<1>14. Together'
  BY <1>0, <1>3, <1>4, <1>9, <1>13, TrackerAdded, Zenon
<1>15. Known'
  <2>1. tracked \in [Callbacks -> Nat \cup {-1}] /\ \A t \in Callbacks : tracked[t] < next
    BY Zenon DEF TrackerInv, Inv, Others, Known
  <2>2. \A t \in Callbacks : tracked'[t] < next + n
    BY <1>1, <1>3, <1>11, <2>1
  <2> QED
    BY <1>3, <2>2, Zenon DEF Known
<1> QED
  BY <1>14, <1>15

\* OwnedImpl::addDrainTracker().
LEMMA TogetherAddDrainTracker ==
  ASSUME TrackerInv, NEW b \in Buffers, NEW t \in Trackers, AddDrainTracker(b, t)
  PROVE  Together' /\ Known'
<1> DEFINE ss == slices[b]
           back == Last(ss)
           ts == back.trackers
           u == [back EXCEPT !.trackers = Append(ts, t)]
           zz == ReplaceBack(ss, u)
           f == SubSeq(ss, 1, Len(ss) - 1)
           k == IF back.data = <<>> THEN 0 ELSE Last(back.data)
<1>0. t \in Callbacks
  BY DEF Callbacks
<1>1. ss \in Seq(Slice) /\ slices \in AllSlices /\ next \in Nat \ {0}
  BY BufferAssumption DEF TrackerInv, Inv, Memory, Others, AllSlices
<1>2. /\ ss # <<>> /\ tracked' = [tracked EXCEPT ![t] = k] /\ next' = next
      /\ copied' = copied /\ detached' = detached
  BY Zenon DEF AddDrainTracker
<1>3. slices' = [slices EXCEPT ![b] = zz]
  <2>1. slices' = [slices EXCEPT ![b][Len(slices[b])].trackers = Append(@, t)]
    BY Zenon DEF AddDrainTracker
  <2>2. Len(ss) \in DOMAIN ss /\ Last(ss) = ss[Len(ss)]
    BY <1>1, <1>2, Ends, Zenon
  <2> QED
    BY <1>1, <2>1, <2>2 DEF ReplaceBack, AllSlices
<1>4. back \in Slice /\ f \in Seq(Slice) /\ \A s \in Slice : ReplaceBack(ss, s) = Append(f, s)
  BY <1>1, <1>2, Ends, Zenon DEF ReplaceBack
<1>5. back \in All(slices)
  <2>1. Len(ss) \in DOMAIN ss /\ Last(ss) = ss[Len(ss)]
    BY <1>1, <1>2, Ends, Zenon
  <2>2. back \in Range(ss)
    BY <2>1, Zenon DEF Range
  <2> QED
    BY <2>2, Zenon DEF All
<1>6. \A s \in Range(f) : s \in All(slices)
  <2>1. Len(ss) - 1 \in 0..Len(ss)
    BY <1>1, <1>2
  <2>2. Range(f) \subseteq Range(ss)
    BY <1>1, <2>1, RangeOfParts, Zenon
  <2> QED
    BY <2>2, Zenon DEF All
<1> HIDE DEF back
<1>7. ts \in Seq(Callbacks) /\ Append(ts, t) \in Seq(Callbacks) /\ back.data \in Seq(Byte)
      /\ Range(Append(ts, t)) = Range(ts) \cup {t}
  <2>1. ts \in Seq(Callbacks) /\ back.data \in Seq(Byte)
    BY <1>4, SliceIs, Zenon
  <2> HIDE DEF ts
  <2>2. Append(ts, t) \in Seq(Callbacks)
    BY <1>0, <2>1
  <2>3. Range(Append(ts, t)) = Range(ts) \cup {t}
    BY <1>0, <2>1, RangeIs
  <2> QED
    BY <2>1, <2>2, <2>3
<1>8. u \in Slice /\ u.data = back.data /\ u.trackers = Append(ts, t)
  <2> DEFINE xs == Append(ts, t)
  <2>1. xs \in Seq(Callbacks)
    BY <1>7
  <2> HIDE DEF xs
  <2>2. [back EXCEPT !.trackers = xs] \in Slice
    BY <1>4, <2>1 DEF Slice, ReservableSize
  <2>3. [back EXCEPT !.trackers = xs].data = back.data /\ [back EXCEPT !.trackers = xs].trackers = xs
    BY <1>4 DEF Slice
  <2> QED
    BY <2>2, <2>3 DEF xs
<1>9. Range(ts) \subseteq Range(u.trackers) /\ t \in Range(u.trackers)
  BY <1>7, <1>8, Zenon
<1> HIDE DEF u
<1>10. Follows(Range(ss), Range(zz), {})
  <2> DEFINE N == {}
  <2>1. Range(u.data) \subseteq Range(Last(ss).data) \cup N /\ Range(Last(ss).trackers) \subseteq Range(u.trackers)
    BY <1>8, <1>9, Zenon DEF back
  <2> HIDE DEF N
  <2>2. Follows(Range(ss), Range(zz), N)
    BY <1>1, <1>2, <1>8, <2>1, BackReplacedFollows, Zenon
  <2> QED
    BY <2>2 DEF N
<1>11. Range(zz) = Range(f) \cup {u}
  <2> HIDE DEF f
  <2>1. zz = Append(f, u)
    BY <1>4, <1>8, Zenon
  <2>2. Range(Append(f, u)) = Range(f) \cup {u}
    BY <1>4, <1>8, RangeIs
  <2> QED
    BY <2>1, <2>2, Zenon
<1> HIDE DEF zz
<1>12. Follows(All(slices), All(slices'), {})
  BY <1>1, <1>3, <1>10, OneFollows, Zenon
<1>13. /\ slices'[b] = zz /\ \A x \in Buffers \ {b} : slices'[x] = slices[x]
  BY <1>1, <1>3 DEF AllSlices
<1>14. back.data = <<>> \/ Last(back.data) \in Range(back.data)
  <2> DEFINE y == back.data
  <2>1. y \in Seq(Byte)
    BY <1>7
  <2> HIDE DEF y
  <2>2. y = <<>> \/ (Len(y) \in DOMAIN y /\ Last(y) = y[Len(y)])
    BY <2>1 DEF Last
  <2>3. y = <<>> \/ Last(y) \in Range(y)
    BY <2>2, Zenon DEF Range
  <2> QED
    BY <2>3 DEF y
<1>15. ASSUME NEW v \in All(slices'), k \in Range(v.data) \ copied
       PROVE  t \in Range(v.trackers)
  <2>1. PICK x \in Buffers : v \in Range(slices'[x])
    BY Zenon DEF All
  <2>2. CASE v = u
    BY <1>9, <2>2, Zenon
  <2>3. CASE v # u
    <3>1. v \in Range(f) \/ (x \in Buffers \ {b} /\ v \in Range(slices[x]))
      <4>1. CASE x = b
        BY <1>11, <1>13, <2>1, <2>3, <4>1, Zenon
      <4>2. CASE x # b
        BY <1>13, <2>1, <4>2, Zenon
      <4> QED
        BY <4>1, <4>2
    <3>2. v \in All(slices)
      BY <1>6, <3>1, Zenon DEF All
    <3>3. k \in Byte
      BY <1>15, <3>2, OldByte, Zenon
    <3>4. back.data # <<>>
      BY <3>3 DEF Byte
    <3>5. k \in Range(Last(slices[b]).data)
      BY <1>14, <3>4, Zenon DEF back
    <3>6. k \notin Range(v.data)
      <4> HIDE DEF k
      <4>1. /\ \A s \in Range(f) : k \notin Range(s.data)
            /\ \A y \in Buffers \ {b} : \A s \in Range(slices[y]) : k \notin Range(s.data)
        BY <1>2, <1>15, <3>5, OnlyInBack, Zenon
      <4> QED
        BY <3>1, <4>1, Zenon
    <3> QED
      BY <1>15, <3>6, Zenon
  <2> QED
    BY <2>2, <2>3
<1>16. k < next
  <2>1. CASE back.data = <<>>
    BY <1>1, <2>1
  <2>2. CASE back.data # <<>>
    <3>1. k \in Range(back.data)
      BY <1>14, <2>2, Zenon
    <3> HIDE DEF k
    <3> QED
      BY <1>5, <3>1, OldByte, Zenon
  <2> QED
    BY <2>1, <2>2
<1> HIDE DEF k
<1>17. Together'
  <2> DEFINE N == {}
  <2>1. Follows(All(slices), All(slices'), N) /\ \A j \in N : j \in Nat /\ j >= next
    BY <1>12, Zenon
  <2> HIDE DEF N
  <2> QED
    BY <1>0, <1>2, <1>15, <2>1, TrackerAdded, Zenon
<1>18. Known'
  <2>1. tracked \in [Callbacks -> Nat \cup {-1}] /\ \A x \in Callbacks : tracked[x] < next
    BY Zenon DEF TrackerInv, Inv, Others, Known
  <2>2. \A x \in Callbacks : tracked'[x] < next
    BY <1>2, <1>16, <2>1
  <2> QED
    BY <1>2, <2>2, Zenon DEF Known
<1> QED
  BY <1>17, <1>18

------------------------------------------------------------------------------
(* The theorem *)

\* Bytes that have entered stay old.
LEMMA KnownStays ==
  ASSUME TrackerInv, Step, tracked' = tracked
  PROVE  Known'
<1>1. next \in Nat /\ \A t \in Callbacks : tracked[t] < next /\ tracked[t] \in Int
  BY BufferAssumption DEF TrackerInv, Inv, Others, Known
<1>2. \E n \in Nat : next' = next + n
  <2>1. next' = next \/ \E n \in Nat : next' = next + n
    BY Zenon DEF Step, Enters, Leaves, MovesOver, GoesInFront, Copies
  <2> QED
    BY <1>1, <2>1
<1>3. \A t \in Callbacks : tracked[t] < next'
  BY <1>1, <1>2
<1> QED
  BY <1>3, Zenon DEF Known

\* Every method keeps the trackers with their bytes.
LEMMA TogetherStep ==
  ASSUME TrackerInv, Next
  PROVE  Together' /\ copied \subseteq copied' /\ (Known' \/ tracked' = tracked)
<1>1. PICK b \in Buffers :
        \/ \E t \in Trackers : AddDrainTracker(b, t)
        \/ \E a \in Accounts : BindAccount(b, a)
        \/ \E f \in Fragments, n \in Entering : AddBufferFragment(b, f, n)
        \/ \E n \in Entering : Add(b, n) \/ Prepend(b, n)
        \/ \E m, n \in Entering : AddFragments(b, m, n)
        \/ \E n \in Entering : Rooms # {} /\ ReserveForReadAndCommit(b, n)
        \/ \E n \in Entering, room \in Rooms, separate \in BOOLEAN :
             ReserveSingleSliceAndCommit(b, room, separate, n)
        \/ \E n \in 0..MaxBytes : Drain(b, n) \/ Linearize(b, n)
        \/ ExtractMutableFrontSlice(b)
        \/ Destroy(b)
        \/ \E r \in Buffers \ {b} :
             \/ AddInstance(b, r) \/ PrependInstance(b, r) \/ Move(b, r)
             \/ \E n \in 1..MaxBytes : MoveLength(b, r, n)
  BY Zenon DEF Next
<1>2. CASE \E t \in Trackers : AddDrainTracker(b, t)
  BY <1>2, TogetherAddDrainTracker, Zenon DEF AddDrainTracker
<1>3. CASE \E a \in Accounts : BindAccount(b, a)
  BY <1>3, TogetherBindAccount, Zenon DEF BindAccount, ghosts
<1>4. CASE \E f \in Fragments, n \in Entering : AddBufferFragment(b, f, n)
  BY <1>4, TogetherAddBufferFragment, Zenon DEF AddBufferFragment
<1>5. CASE \E n \in Entering : Add(b, n) \/ Prepend(b, n)
  BY <1>5, TogetherAdd, Zenon DEF Add, Prepend, ghosts
<1>6. CASE \E m, n \in Entering : AddFragments(b, m, n)
  BY <1>6, TogetherAddFragments, Zenon DEF AddFragments, ghosts
<1>7. CASE \E n \in Entering : Rooms # {} /\ ReserveForReadAndCommit(b, n)
  BY <1>7, TogetherReserveForRead, Zenon DEF ReserveForReadAndCommit, ghosts
<1>8. CASE \E n \in Entering, room \in Rooms, separate \in BOOLEAN :
             ReserveSingleSliceAndCommit(b, room, separate, n)
  BY <1>8, TogetherReserveSingleSlice, Zenon DEF ReserveSingleSliceAndCommit, ghosts
<1>9. CASE \E n \in 0..MaxBytes : Drain(b, n) \/ Linearize(b, n)
  BY <1>9, TogetherDrain, TogetherLinearize, Zenon DEF Drain, Linearize, ghosts
<1>10. CASE ExtractMutableFrontSlice(b)
  BY <1>10, TogetherExtract, Zenon DEF ExtractMutableFrontSlice, ghosts
<1>11. CASE Destroy(b)
  BY <1>11, TogetherDestroy, Zenon DEF Destroy, ghosts
<1>12. CASE \E r \in Buffers \ {b} :
              \/ AddInstance(b, r) \/ PrependInstance(b, r) \/ Move(b, r)
              \/ \E n \in 1..MaxBytes : MoveLength(b, r, n)
  <2>1. PICK r \in Buffers \ {b} :
          \/ AddInstance(b, r) \/ PrependInstance(b, r) \/ Move(b, r)
          \/ \E n \in 1..MaxBytes : MoveLength(b, r, n)
    BY <1>12, Zenon
  <2>2. CASE AddInstance(b, r)
    BY <2>2, TogetherAddInstance, Zenon DEF AddInstance
  <2>3. CASE PrependInstance(b, r) \/ Move(b, r)
    BY <2>3, TogetherMove, Zenon DEF PrependInstance, Move, ghosts
  <2>4. CASE \E n \in 1..MaxBytes : MoveLength(b, r, n)
    BY <2>4, TogetherMoveLength, Zenon DEF MoveLength
  <2> QED
    BY <2>1, <2>2, <2>3, <2>4, Zenon
<1> QED
  BY <1>1, <1>2, <1>3, <1>4, <1>5, <1>6, <1>7, <1>8, <1>9, <1>10, <1>11, <1>12, Zenon

\* The stronger invariant.
LEMMA TrackerInvariance == Spec => []TrackerInv
<1>1. Init => TrackerInv
  <2> SUFFICES ASSUME Init
               PROVE  TrackerInv
    OBVIOUS
  <2>1. Inv
    BY InitInv
  <2>2. /\ slices = [b \in Buffers |-> <<>>] /\ next = 1 /\ tracked = [t \in Callbacks |-> -1]
    BY Zenon DEF Init
  <2>3. \A b \in Buffers : slices[b] = <<>>
    BY <2>2
  <2>4. Unique
    <3> SUFFICES ASSUME NEW k \in Byte
                 PROVE  Overall(Occurs(slices, k)) = 0
      BY DEF Unique
    <3>1. Occurs(slices, k) \in [Buffers -> Nat] /\ \A b \in Buffers : Occurs(slices, k)[b] = Count(Flat(slices[b]), k)
      BY <2>1, OccursType, Zenon DEF Inv, Memory
    <3>2. <<>> \in Seq(Byte)
      OBVIOUS
    <3>3. Flat(<<>>) = <<>> /\ Count(<<>>, k) = 0
      BY <3>2, FlatIs, CountType, Zenon
    <3>4. \A b \in Buffers : Occurs(slices, k)[b] = 0
      BY <2>3, <3>1, <3>3, Zenon
    <3> QED
      BY <3>1, <3>4, OverallNone, Zenon
  <2>5. Known
    BY <2>2 DEF Known
  <2>6. Together
    <3>1. Range(<<>>) = {}
      BY RangeIs, Zenon
    <3>2. All(slices) = {}
      BY <2>3, <3>1, Zenon DEF All
    <3> QED
      BY <3>2, Zenon DEF Together
  <2> QED
    BY <2>1, <2>4, <2>5, <2>6, Zenon DEF TrackerInv
<1>2. TrackerInv /\ [Next]_vars => TrackerInv'
  <2> SUFFICES ASSUME TrackerInv, [Next]_vars
               PROVE  TrackerInv'
    OBVIOUS
  <2>0. Inv
    BY Zenon DEF TrackerInv
  <2>1. CASE Next
    <3>1. Inv' /\ Step
      BY <2>0, <2>1, NextStep, Zenon
    <3>2. Together' /\ copied \subseteq copied' /\ (Known' \/ tracked' = tracked)
      BY <2>1, TogetherStep, Zenon
    <3>3. Known'
      BY <3>1, <3>2, KnownStays, Zenon
    <3>4. Unique'
      BY <2>0, <3>1, <3>2, UniqueStep, Zenon DEF TrackerInv
    <3> QED
      BY <3>1, <3>2, <3>3, <3>4, Zenon DEF TrackerInv
  <2>2. CASE UNCHANGED vars
    <3>1. Inv'
      BY <2>0, <2>2, Stutters, Zenon
    <3>2. slices' = slices /\ next' = next /\ tracked' = tracked /\ copied' = copied /\ detached' = detached
      BY <2>2, Zenon DEF vars, memory, ghosts
    <3>3. Unique' /\ Known' /\ Together'
      BY <3>2, Zenon DEF TrackerInv, Unique, Known, Together, Occurs, All
    <3> QED
      BY <3>1, <3>3, Zenon DEF TrackerInv
  <2> QED
    BY <2>1, <2>2
<1> QED
  BY <1>1, <1>2, PTL DEF Spec

\* A tracker that has run is attached to no slice.
LEMMA RanIsDetached ==
  ASSUME Inv, NEW t \in Callbacks, ran[t] > 0, NEW s \in All(slices)
  PROVE  t \notin Range(s.trackers)
<1>1. slices \in AllSlices /\ ran[t] \in Nat
  BY DEF Inv, Memory
<1>2. PICK b \in Buffers : s \in Range(slices[b])
  BY Zenon DEF All
<1>3. slices[b] \in Seq(Slice)
  BY <1>1 DEF AllSlices
<1> DEFINE w == Markings(slices, t)
           o == Overall(w)
<1>4. w \in [Buffers -> Nat] /\ o \in Nat /\ w[b] = Weigh(MarksOf(t), slices[b])
  <2>1. w \in [Buffers -> Nat] /\ o \in Nat
    BY <1>1, SharesType, Zenon
  <2>2. w[b] = Weigh(MarksOf(t), slices[b])
    BY DEF Markings
  <2> QED
    BY <2>1, <2>2
<1>5. ran[t] + o = IF tracked[t] = -1 THEN 0 ELSE 1
  BY Zenon DEF Inv, Calls
<1> HIDE DEF w
<1>6. w[b] <= o
  BY <1>4, ShareBound, Zenon
<1>7. w[b] \in Nat
  BY <1>4
<1> HIDE DEF o
<1>8. w[b] = 0
  BY <1>1, <1>4, <1>5, <1>6, <1>7
<1>9. PICK i \in DOMAIN slices[b] : s = slices[b][i]
  BY <1>2, Zenon DEF Range
<1>10. s \in Slice
  BY <1>3, <1>9
<1>11. MarksOf(t)[s] = 0
  <2> DEFINE ss == slices[b]
             x == SubSeq(ss, 1, i)
             y == SubSeq(ss, i + 1, Len(ss))
             z == SubSeq(x, 1, Len(x) - 1)
             m == MarksOf(t)
  <2>1. i \in 1..Len(ss) /\ ss \in Seq(Slice)
    BY <1>3, <1>9
  <2>2. i \in 0..Len(ss)
    BY <2>1
  <2>3. IsWeight(m)
    BY SliceWeights, Zenon
  <2>4. x \in Seq(Slice) /\ y \in Seq(Slice) /\ Len(x) = i /\ Weigh(m, ss) = Weigh(m, x) + Weigh(m, y)
    BY <2>1, <2>2, <2>3, Parted, Zenon
  <2>5. x[i] = s /\ x # <<>>
    BY <1>9, <2>1, <2>4
  <2> HIDE DEF ss, x, y, m
  <2>6. z \in Seq(Slice) /\ x = Append(z, s)
    BY <2>4, <2>5, Ends, Zenon
  <2> HIDE DEF z
  <2>7. Weigh(m, x) = Weigh(m, z) + m[s] /\ Weigh(m, z) \in Nat /\ Weigh(m, y) \in Nat /\ m[s] \in Nat
    BY <1>10, <2>3, <2>4, <2>6, Zenon DEF IsWeight
  <2>8. Weigh(m, ss) = 0
    BY <1>4, <1>8, Zenon DEF ss, m
  <2>9. m[s] = 0
    BY <2>4, <2>7, <2>8
  <2> QED
    BY <2>9 DEF m
<1>12. Count(s.trackers, t) = 0 /\ s.trackers \in Seq(Callbacks)
  BY <1>10, <1>11, WeightsOfSlices, SliceIs, Zenon
<1> DEFINE P == {j \in DOMAIN s.trackers : s.trackers[j] = t}
<1>13. IsFiniteSet(P) /\ Cardinality(P) = 0
  BY <1>12, CountType, Zenon DEF Count
<1>14. P = {}
  <2> HIDE DEF P
  <2> QED
    BY <1>13, FS_EmptySet, Zenon
<1> QED
  BY <1>14, Zenon DEF Range

\* A drain tracker never runs while the byte it was added behind is still in a
\* buffer, unless add(const Instance&) copied that byte or linearize() or a
\* move() of a part of its slice took it away from its slice: for every number
\* of buffers, trackers and fragments, and for all sizes.
THEOREM TrackersRunLate == Spec => []TrackersRunAfterLastByte
<1>1. TrackerInv => TrackersRunAfterLastByte
  <2> SUFFICES ASSUME TrackerInv, NEW t \in Callbacks, ran[t] > 0,
                      tracked[t] \in InAnyBuffer, tracked[t] \notin copied, tracked[t] \notin detached
               PROVE  FALSE
    BY Zenon DEF TrackersRunAfterLastByte
  <2>1. PICK b \in Buffers : tracked[t] \in Bytes(slices[b])
    BY Zenon DEF InAnyBuffer
  <2>2. slices[b] \in Seq(Slice)
    BY DEF TrackerInv, Inv, Memory, AllSlices
  <2>3. PICK s \in Range(slices[b]) : tracked[t] \in Range(s.data)
    <3>1. Bytes(slices[b]) = UNION {Range(u.data) : u \in Range(slices[b])}
      BY <2>2, BytesAreFlat, Zenon
    <3>2. tracked[t] \in UNION {Range(u.data) : u \in Range(slices[b])}
      BY <2>1, <3>1, Zenon
    <3> QED
      BY <3>2, Zenon
  <2>4. s \in All(slices)
    BY <2>3, Zenon DEF All
  <2>5. t \in Range(s.trackers)
    BY <2>3, <2>4, Zenon DEF TrackerInv, Together
  <2> QED
    BY <2>4, <2>5, RanIsDetached, Zenon DEF TrackerInv
<1> QED
  BY <1>1, TrackerInvariance, PTL
===============================================================================
