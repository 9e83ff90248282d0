----------------------------- MODULE MemoryProofs -----------------------------
(***************************************************************************)
(* Proofs about the memory of buffers.                                     *)
(*                                                                         *)
(* Module SliceDeque: for every inline capacity and every bound on the     *)
(* size, the ring implements the double-ended queue of SliceSequence.  The *)
(* inductive invariant is RingOK: seen from start, the first size slots    *)
(* hold slices and the others hold none.  It is stated on positions rather *)
(* than on slots, so that the four lemmas on the ring only need the fact   *)
(* that positions and slots correspond one to one.                         *)
(*                                                                         *)
(* Module BufferStorage: for any buffers, blocks and requests, a block has *)
(* one owner and reservations stay within their limits.  The inductive     *)
(* invariant is StorageInv, with AllFit for the limits.                    *)
(***************************************************************************)
EXTENDS Integers, SliceDeque, SequenceTheorems, FiniteSetTheorems, WellFoundedInduction, TLAPS

\* The inductive invariant, for any ring r that starts at st and holds sz slices.
RingOK(r, st, sz, cap) ==
  /\ cap \in Nat \ {0}
  /\ st \in 0..(cap - 1)
  /\ sz \in 0..cap
  /\ r \in [0..(cap - 1) -> Slices \cup {NoSlice}]
  /\ \A i \in 0..(sz - 1) : r[InternalIndex(st, cap, i)] \in Slices
  /\ \A i \in sz..(cap - 1) : r[InternalIndex(st, cap, i)] = NoSlice

IndInv == RingOK(ring, start, size, capacity) /\ destroyed \in SUBSET Slices

\* r2 is r, starting at st, with s as its new last slice.
PushedBack(r, r2, st, sz, cap, s) ==
  /\ RingOK(r2, st, sz + 1, cap)
  /\ r[InternalIndex(st, cap, sz)] = NoSlice
  /\ r2[InternalIndex(st, cap, sz)] = s
  /\ \A i \in 0..(sz - 1) :
       r2[InternalIndex(st, cap, i)] = r[InternalIndex(st, cap, i)]

\* r2, starting at st2, is r, starting at st, with s as its new first slice.
PushedFront(r, st, r2, st2, sz, cap, s) ==
  /\ RingOK(r2, st2, sz + 1, cap)
  /\ r[st2] = NoSlice
  /\ r2[InternalIndex(st2, cap, 0)] = s
  /\ \A i \in 1..sz :
       r2[InternalIndex(st2, cap, i)] = r[InternalIndex(st, cap, i - 1)]

\* r2, starting at st2, is r, starting at st, without its first slice.
PoppedFront(r, st, r2, st2, sz, cap) ==
  /\ RingOK(r2, st2, sz - 1, cap)
  /\ r[st] \in Slices
  /\ InternalIndex(st, cap, 0) = st
  /\ \A i \in 0..(sz - 2) :
       r2[InternalIndex(st2, cap, i)] = r[InternalIndex(st, cap, i + 1)]

\* r2 is r without its last slice.
PoppedBack(r, r2, st, sz, cap) ==
  /\ RingOK(r2, st, sz - 1, cap)
  /\ r[InternalIndex(st, cap, sz - 1)] \in Slices
  /\ \A i \in 0..(sz - 2) :
       r2[InternalIndex(st, cap, i)] = r[InternalIndex(st, cap, i)]

\* v is the sequence of the sz slices of the ring r.
IsView(v, r, st, sz, cap) ==
  /\ v \in Seq(Slices) /\ Len(v) = sz /\ sz \in Nat
  /\ \A i \in 1..sz : v[i] = r[InternalIndex(st, cap, i - 1)]

\* internalIndex() maps the positions 0 .. capacity - 1 into the ring, and
\* two positions never share a slot.
LEMMA IndexInjective ==
  ASSUME NEW cap \in Nat \ {0}, NEW st \in 0..(cap - 1),
         NEW i \in 0..(cap - 1), NEW k \in 0..(cap - 1)
  PROVE  /\ InternalIndex(st, cap, i) \in 0..(cap - 1)
         /\ InternalIndex(st, cap, i) = InternalIndex(st, cap, k) => i = k
BY DEF InternalIndex

\* Every slot of the ring is the slot of some position.
LEMMA IndexOnto ==
  ASSUME NEW cap \in Nat \ {0}, NEW st \in 0..(cap - 1), NEW j \in 0..(cap - 1)
  PROVE  \E i \in 0..(cap - 1) : InternalIndex(st, cap, i) = j
<1>1. CASE j >= st
  <2>1. j - st \in 0..(cap - 1) /\ InternalIndex(st, cap, j - st) = j
    BY <1>1 DEF InternalIndex
  <2> QED BY <2>1
<1>2. CASE j < st
  <2>1. (j + cap) - st \in 0..(cap - 1) /\ InternalIndex(st, cap, (j + cap) - st) = j
    BY <1>2 DEF InternalIndex
  <2> QED BY <2>1
<1> QED BY <1>1, <1>2

\* emplace_back() after growRing(): the slot it assigns is vacant, and every
\* queued slice keeps its position.
LEMMA PushBackRing ==
  ASSUME NEW r, NEW st, NEW sz, NEW cap, RingOK(r, st, sz, cap), sz < cap,
         NEW s \in Slices, NEW r2,
         r2 = [r EXCEPT ![InternalIndex(st, cap, sz)] = s]
  PROVE  PushedBack(r, r2, st, sz, cap, s)
<1> DEFINE ix(i) == InternalIndex(st, cap, i)
<1>1. /\ cap \in Nat \ {0} /\ st \in 0..(cap - 1) /\ sz \in 0..(cap - 1) /\ sz + 1 \in 0..cap
      /\ r \in [0..(cap - 1) -> Slices \cup {NoSlice}]
  BY DEF RingOK
<1>2. \A i \in 0..(cap - 1) : ix(i) \in 0..(cap - 1)
  BY <1>1, IndexInjective
<1>3. \A i \in 0..(cap - 1) : i # sz => ix(i) # ix(sz)
  BY <1>1, IndexInjective
<1>4. r2 \in [0..(cap - 1) -> Slices \cup {NoSlice}]
  BY <1>1
<1>5. r2[ix(sz)] = s
  BY <1>1, <1>2
<1>6. \A i \in 0..(cap - 1) : i # sz => r2[ix(i)] = r[ix(i)]
  BY <1>1, <1>2, <1>3
<1>7. \A i \in 0..(sz - 1) : r2[ix(i)] = r[ix(i)] /\ r[ix(i)] \in Slices
  BY <1>1, <1>6 DEF RingOK
<1>8. \A i \in 0..((sz + 1) - 1) : r2[ix(i)] \in Slices
  <2> SUFFICES ASSUME NEW i \in 0..((sz + 1) - 1) PROVE r2[ix(i)] \in Slices
    OBVIOUS
  <2>1. CASE i = sz BY <1>5, <2>1
  <2>2. CASE i # sz BY <1>1, <1>7, <2>2
  <2> QED BY <2>1, <2>2
<1>9. \A i \in (sz + 1)..(cap - 1) : r2[ix(i)] = NoSlice
  <2> SUFFICES ASSUME NEW i \in (sz + 1)..(cap - 1) PROVE r2[ix(i)] = NoSlice
    OBVIOUS
  <2>1. i \in 0..(cap - 1) /\ i # sz /\ i \in sz..(cap - 1) BY <1>1
  <2> QED BY <1>6, <2>1 DEF RingOK
<1>10. r[ix(sz)] = NoSlice
  <2>1. sz \in sz..(cap - 1) BY <1>1
  <2> QED BY <2>1 DEF RingOK
<1> QED BY <1>1, <1>4, <1>5, <1>7, <1>8, <1>9, <1>10 DEF RingOK, PushedBack

\* Moving the start of the ring one slot back, as emplace_front() does, makes
\* position i the position i + 1 and gives the last position to the new slice.
LEMMA ShiftBack ==
  ASSUME NEW cap \in Nat \ {0}, NEW st \in 0..(cap - 1), NEW st2,
         st2 = IF st = 0 THEN cap - 1 ELSE st - 1
  PROVE  /\ st2 \in 0..(cap - 1)
         /\ InternalIndex(st2, cap, 0) = st2
         /\ InternalIndex(st, cap, cap - 1) = st2
         /\ \A i \in 1..(cap - 1) :
              InternalIndex(st2, cap, i) = InternalIndex(st, cap, i - 1)
<1>1. CASE st = 0 BY <1>1 DEF InternalIndex
<1>2. CASE st # 0 BY <1>2 DEF InternalIndex
<1> QED BY <1>1, <1>2

\* emplace_front() after growRing(): the slot it assigns is vacant, and every
\* queued slice moves one position up.
LEMMA PushFrontRing ==
  ASSUME NEW r, NEW st, NEW sz, NEW cap, RingOK(r, st, sz, cap), sz < cap,
         NEW s \in Slices, NEW st2, st2 = IF st = 0 THEN cap - 1 ELSE st - 1,
         NEW r2, r2 = [r EXCEPT ![st2] = s]
  PROVE  PushedFront(r, st, r2, st2, sz, cap, s)
<1> DEFINE ix(i) == InternalIndex(st, cap, i)
           ix2(i) == InternalIndex(st2, cap, i)
<1>1. /\ cap \in Nat \ {0} /\ st \in 0..(cap - 1) /\ sz \in 0..(cap - 1) /\ sz + 1 \in 0..cap
      /\ r \in [0..(cap - 1) -> Slices \cup {NoSlice}]
  BY DEF RingOK
<1>a. cap \in Nat \ {0} /\ st \in 0..(cap - 1)
  BY <1>1
<1>2. /\ st2 \in 0..(cap - 1) /\ ix2(0) = st2 /\ ix(cap - 1) = st2
      /\ \A i \in 1..(cap - 1) : ix2(i) = ix(i - 1)
  BY <1>a, ShiftBack
<1>3. \A i \in 0..(cap - 1) : ix2(i) \in 0..(cap - 1) /\ (i # 0 => ix2(i) # ix2(0))
  <2> SUFFICES ASSUME NEW i \in 0..(cap - 1)
               PROVE  ix2(i) \in 0..(cap - 1) /\ (i # 0 => ix2(i) # ix2(0))
    OBVIOUS
  <2>1. 0 \in 0..(cap - 1) /\ st2 \in 0..(cap - 1) BY <1>a, <1>2
  <2>2. /\ InternalIndex(st2, cap, i) \in 0..(cap - 1)
        /\ InternalIndex(st2, cap, i) = InternalIndex(st2, cap, 0) => i = 0
    BY <1>a, <2>1, IndexInjective, Zenon
  <2> QED BY <2>2, Zenon
<1>4. r2 \in [0..(cap - 1) -> Slices \cup {NoSlice}]
  BY <1>1
<1>5. r2[ix2(0)] = s
  BY <1>1, <1>2
<1>6. \A i \in 1..(cap - 1) : r2[ix2(i)] = r[ix(i - 1)]
  <2> SUFFICES ASSUME NEW i \in 1..(cap - 1) PROVE r2[ix2(i)] = r[ix(i - 1)]
    OBVIOUS
  <2>1. i \in 0..(cap - 1) /\ i # 0 BY <1>1
  <2>2. ix2(i) \in 0..(cap - 1) /\ ix2(i) # st2 /\ ix2(i) = ix(i - 1) BY <1>2, <1>3, <2>1
  <2> HIDE DEF ix, ix2
  <2> QED BY <1>1, <2>2
<1>7. r[st2] = NoSlice
  <2>1. cap - 1 \in sz..(cap - 1) BY <1>1
  <2> QED BY <1>2, <2>1 DEF RingOK
<1>8. \A i \in 0..((sz + 1) - 1) : r2[ix2(i)] \in Slices
  <2> SUFFICES ASSUME NEW i \in 0..((sz + 1) - 1) PROVE r2[ix2(i)] \in Slices
    OBVIOUS
  <2>1. CASE i = 0 BY <1>5, <2>1
  <2>2. CASE i # 0
    <3>1. i \in 1..(cap - 1) /\ i - 1 \in 0..(sz - 1) BY <1>1, <2>2
    <3> QED BY <1>6, <3>1 DEF RingOK
  <2> QED BY <2>1, <2>2
<1>9. \A i \in (sz + 1)..(cap - 1) : r2[ix2(i)] = NoSlice
  <2> SUFFICES ASSUME NEW i \in (sz + 1)..(cap - 1) PROVE r2[ix2(i)] = NoSlice
    OBVIOUS
  <2>1. i \in 1..(cap - 1) /\ i - 1 \in sz..(cap - 1) BY <1>1
  <2> QED BY <1>6, <2>1 DEF RingOK
<1>10. \A i \in 1..sz : i \in 1..(cap - 1)
  BY <1>1
<1> QED BY <1>1, <1>2, <1>4, <1>5, <1>6, <1>7, <1>8, <1>9, <1>10 DEF RingOK, PushedFront

\* Moving the start of the ring one slot forward, as pop_front() does.
LEMMA ShiftForward ==
  ASSUME NEW cap \in Nat \ {0}, NEW st \in 0..(cap - 1), NEW st2,
         st2 = IF st + 1 = cap THEN 0 ELSE st + 1
  PROVE  /\ st2 \in 0..(cap - 1)
         /\ InternalIndex(st, cap, 0) = st
         /\ InternalIndex(st2, cap, cap - 1) = st
         /\ \A i \in 0..(cap - 2) :
              InternalIndex(st2, cap, i) = InternalIndex(st, cap, i + 1)
<1>1. CASE st + 1 = cap BY <1>1 DEF InternalIndex
<1>2. CASE st + 1 # cap BY <1>2 DEF InternalIndex
<1> QED BY <1>1, <1>2

\* pop_front(): the slot of the front slice becomes vacant, and every other
\* slice moves one position down.
LEMMA PopFrontRing ==
  ASSUME NEW r, NEW st, NEW sz, NEW cap, RingOK(r, st, sz, cap), sz # 0,
         NEW st2, st2 = IF st + 1 = cap THEN 0 ELSE st + 1,
         NEW r2, r2 = [r EXCEPT ![st] = NoSlice]
  PROVE  PoppedFront(r, st, r2, st2, sz, cap)
<1> DEFINE ix(i) == InternalIndex(st, cap, i)
           ix2(i) == InternalIndex(st2, cap, i)
<1>1. /\ cap \in Nat \ {0} /\ st \in 0..(cap - 1) /\ sz \in 1..cap /\ sz - 1 \in 0..cap
      /\ r \in [0..(cap - 1) -> Slices \cup {NoSlice}]
  BY DEF RingOK
<1>2. /\ st2 \in 0..(cap - 1) /\ ix(0) = st /\ ix2(cap - 1) = st
      /\ \A i \in 0..(cap - 2) : ix2(i) = ix(i + 1)
  BY <1>1, ShiftForward
<1>3. \A i \in 0..(cap - 1) : ix(i) \in 0..(cap - 1) /\ (i # 0 => ix(i) # ix(0))
  <2>1. 0 \in 0..(cap - 1) BY <1>1
  <2> QED BY <1>1, <2>1, IndexInjective
<1>4. r2 \in [0..(cap - 1) -> Slices \cup {NoSlice}]
  BY <1>1
<1>5. \A i \in 0..(cap - 2) : r2[ix2(i)] = r[ix(i + 1)]
  <2> SUFFICES ASSUME NEW i \in 0..(cap - 2) PROVE r2[ix2(i)] = r[ix(i + 1)]
    OBVIOUS
  <2>1. i + 1 \in 0..(cap - 1) /\ i + 1 # 0 BY <1>1
  <2>2. ix(i + 1) \in 0..(cap - 1) /\ ix(i + 1) # st /\ ix2(i) = ix(i + 1) BY <1>2, <1>3, <2>1
  <2> HIDE DEF ix, ix2
  <2> QED BY <1>1, <2>2
<1>6. r2[ix2(cap - 1)] = NoSlice
  BY <1>1, <1>2
<1>7. r[st] \in Slices
  <2>1. 0 \in 0..(sz - 1) BY <1>1
  <2> QED BY <1>2, <2>1 DEF RingOK
<1>8. \A i \in 0..((sz - 1) - 1) : r2[ix2(i)] \in Slices
  <2> SUFFICES ASSUME NEW i \in 0..((sz - 1) - 1) PROVE r2[ix2(i)] \in Slices
    OBVIOUS
  <2>1. i \in 0..(cap - 2) /\ i + 1 \in 0..(sz - 1) BY <1>1
  <2> QED BY <1>5, <2>1 DEF RingOK
<1>9. \A i \in (sz - 1)..(cap - 1) : r2[ix2(i)] = NoSlice
  <2> SUFFICES ASSUME NEW i \in (sz - 1)..(cap - 1) PROVE r2[ix2(i)] = NoSlice
    OBVIOUS
  <2>1. CASE i = cap - 1 BY <1>6, <2>1
  <2>2. CASE i # cap - 1
    <3>1. i \in 0..(cap - 2) /\ i + 1 \in sz..(cap - 1) BY <1>1, <2>2
    <3> QED BY <1>5, <3>1 DEF RingOK
  <2> QED BY <2>1, <2>2
<1>10. \A i \in 0..(sz - 2) : i \in 0..(cap - 2)
  BY <1>1
<1> QED BY <1>1, <1>2, <1>4, <1>5, <1>7, <1>8, <1>9, <1>10 DEF RingOK, PoppedFront

\* pop_back(): the slot of the back slice becomes vacant, and no other slice
\* changes position.
LEMMA PopBackRing ==
  ASSUME NEW r, NEW st, NEW sz, NEW cap, RingOK(r, st, sz, cap), sz # 0,
         NEW r2, r2 = [r EXCEPT ![InternalIndex(st, cap, sz - 1)] = NoSlice]
  PROVE  PoppedBack(r, r2, st, sz, cap)
<1> DEFINE ix(i) == InternalIndex(st, cap, i)
<1>1. /\ cap \in Nat \ {0} /\ st \in 0..(cap - 1) /\ sz \in 1..cap /\ sz - 1 \in 0..cap
      /\ sz - 1 \in 0..(cap - 1)
      /\ r \in [0..(cap - 1) -> Slices \cup {NoSlice}]
  BY DEF RingOK
<1>2. \A i \in 0..(cap - 1) : ix(i) \in 0..(cap - 1) /\ (i # sz - 1 => ix(i) # ix(sz - 1))
  BY <1>1, IndexInjective
<1>3. r2 \in [0..(cap - 1) -> Slices \cup {NoSlice}]
  BY <1>1
<1>4. r2[ix(sz - 1)] = NoSlice
  BY <1>1, <1>2
<1>5. \A i \in 0..(cap - 1) : i # sz - 1 => r2[ix(i)] = r[ix(i)]
  BY <1>1, <1>2
<1>6. r[ix(sz - 1)] \in Slices
  <2>1. sz - 1 \in 0..(sz - 1) BY <1>1
  <2> QED BY <2>1 DEF RingOK
<1>7. \A i \in 0..(sz - 2) : r2[ix(i)] = r[ix(i)]
  BY <1>1, <1>5
<1>8. \A i \in 0..((sz - 1) - 1) : r2[ix(i)] \in Slices
  <2> SUFFICES ASSUME NEW i \in 0..((sz - 1) - 1) PROVE r2[ix(i)] \in Slices
    OBVIOUS
  <2>1. i \in 0..(sz - 2) /\ i \in 0..(sz - 1) BY <1>1
  <2> QED BY <1>7, <2>1 DEF RingOK
<1>9. \A i \in (sz - 1)..(cap - 1) : r2[ix(i)] = NoSlice
  <2> SUFFICES ASSUME NEW i \in (sz - 1)..(cap - 1) PROVE r2[ix(i)] = NoSlice
    OBVIOUS
  <2>1. CASE i = sz - 1 BY <1>4, <2>1
  <2>2. CASE i # sz - 1
    <3>1. i \in 0..(cap - 1) /\ i \in sz..(cap - 1) BY <1>1, <2>2
    <3> QED BY <1>5, <2>2, <3>1 DEF RingOK
  <2> QED BY <2>1, <2>2
<1> QED BY <1>1, <1>3, <1>6, <1>7, <1>8, <1>9 DEF RingOK, PoppedBack

\* growRing(): whether or not the ring was full, there is a vacant position
\* afterwards and every queued slice is at the position it had.
LEMMA GrowRing ==
  ASSUME RingOK(ring, start, size, capacity)
  PROVE  /\ RingOK(GrownRing, GrownStart, size, GrownCapacity)
         /\ size < GrownCapacity
         /\ \A i \in 0..(size - 1) :
              GrownRing[InternalIndex(GrownStart, GrownCapacity, i)]
                = ring[InternalIndex(start, capacity, i)]
<1>1. /\ capacity \in Nat \ {0} /\ start \in 0..(capacity - 1) /\ size \in 0..capacity
      /\ ring \in [0..(capacity - 1) -> Slices \cup {NoSlice}]
  BY DEF RingOK
<1>2. CASE ~Full
  <2>1. GrownRing = ring /\ GrownStart = start /\ GrownCapacity = capacity
    BY <1>2 DEF GrownRing, GrownStart, GrownCapacity
  <2>2. size < capacity
    BY <1>1, <1>2 DEF Full
  <2> QED BY <2>1, <2>2
<1>3. CASE Full
  <2> DEFINE old(i) == ring[InternalIndex(start, capacity, i)]
  <2>1. /\ GrownStart = 0 /\ GrownCapacity = capacity * 2 /\ size = capacity
        /\ GrownRing = [i \in 0..(GrownCapacity - 1) |-> IF i < size THEN old(i) ELSE NoSlice]
    BY <1>1, <1>3 DEF Full, GrownStart, GrownCapacity, GrownRing
  <2>2. /\ GrownCapacity \in Nat \ {0} /\ size < GrownCapacity /\ size \in 0..GrownCapacity
        /\ GrownStart \in 0..(GrownCapacity - 1)
    BY <1>1, <2>1
  <2>3. \A i \in 0..(GrownCapacity - 1) : InternalIndex(GrownStart, GrownCapacity, i) = i
    BY <2>1, <2>2 DEF InternalIndex
  <2>4. \A i \in 0..(size - 1) : old(i) \in Slices
    BY DEF RingOK
  <2>5. \A i \in 0..(size - 1) : i \in 0..(GrownCapacity - 1) /\ i < size
    BY <2>2
  <2>6. \A i \in size..(GrownCapacity - 1) : i \in 0..(GrownCapacity - 1) /\ ~(i < size)
    BY <2>2
  <2>7. \A i \in 0..(size - 1) : GrownRing[i] = old(i)
    BY <2>1, <2>5
  <2>8. \A i \in size..(GrownCapacity - 1) : GrownRing[i] = NoSlice
    BY <2>1, <2>6
  <2>9. GrownRing \in [0..(GrownCapacity - 1) -> Slices \cup {NoSlice}]
    <3> SUFFICES ASSUME NEW i \in 0..(GrownCapacity - 1)
                 PROVE  (IF i < size THEN old(i) ELSE NoSlice) \in Slices \cup {NoSlice}
      BY <2>1
    <3>1. i < size => i \in 0..(size - 1) BY <2>2
    <3> QED BY <2>4, <3>1
  <2>10. \A i \in 0..(size - 1) :
           GrownRing[InternalIndex(GrownStart, GrownCapacity, i)] = old(i)
    BY <2>3, <2>5, <2>7
  <2>11. \A i \in size..(GrownCapacity - 1) :
           GrownRing[InternalIndex(GrownStart, GrownCapacity, i)] = NoSlice
    BY <2>3, <2>6, <2>8
  <2> QED BY <2>2, <2>4, <2>9, <2>10, <2>11 DEF RingOK
<1> QED BY <1>2, <1>3

\* The deque starts empty, in its inline ring.
LEMMA InitInv == Init => IndInv
<1> SUFFICES ASSUME Init PROVE IndInv
  OBVIOUS
<1>1. /\ capacity \in Nat \ {0} /\ start \in 0..(capacity - 1) /\ size \in 0..capacity
      /\ ring \in [0..(capacity - 1) -> Slices \cup {NoSlice}]
      /\ size = 0 /\ destroyed = {}
  BY DequeAssumption DEF Init
<1>2. \A j \in 0..(capacity - 1) : ring[j] = NoSlice
  BY DEF Init
<1>3. \A i \in 0..(capacity - 1) : InternalIndex(start, capacity, i) \in 0..(capacity - 1)
  BY <1>1, IndexInjective
<1>4. \A i \in 0..(size - 1) : FALSE
  BY <1>1
<1>5. \A i \in size..(capacity - 1) : ring[InternalIndex(start, capacity, i)] = NoSlice
  BY <1>1, <1>2, <1>3
<1> QED BY <1>1, <1>4, <1>5 DEF IndInv, RingOK

\* Iterating over a well-formed ring visits a sequence of size slices.
LEMMA ViewIsSequence ==
  ASSUME NEW r, NEW st, NEW sz, NEW cap, RingOK(r, st, sz, cap), NEW v,
         v = [i \in 1..sz |-> r[InternalIndex(st, cap, i - 1)]]
  PROVE  IsView(v, r, st, sz, cap)
<1>1. sz \in Nat
  BY DEF RingOK
<1>2. \A i \in 1..sz : i - 1 \in 0..(sz - 1)
  BY <1>1
<1>3. \A i \in 1..sz : r[InternalIndex(st, cap, i - 1)] \in Slices
  BY <1>2 DEF RingOK
<1> QED BY <1>1, <1>3 DEF IsView

\* A step of emplace_back() as the abstract queue sees it.
LEMMA EmplaceBackStep ==
  ASSUME IndInv, NEW s \in Slices, EmplaceBack(s)
  PROVE  IndInv' /\ View' = Append(View, s) /\ destroyed' = {}
<1> DEFINE slot == InternalIndex(GrownStart, GrownCapacity, size)
<1>1. /\ RingOK(GrownRing, GrownStart, size, GrownCapacity) /\ size < GrownCapacity
      /\ \A i \in 0..(size - 1) :
           GrownRing[InternalIndex(GrownStart, GrownCapacity, i)]
             = ring[InternalIndex(start, capacity, i)]
  BY GrowRing DEF IndInv
<1>2. /\ ring' = [GrownRing EXCEPT ![slot] = s] /\ destroyed' = {GrownRing[slot]} \ {NoSlice}
      /\ start' = GrownStart /\ capacity' = GrownCapacity /\ size' = size + 1
  BY DEF EmplaceBack, Assign
<1>3. /\ RingOK(ring', GrownStart, size + 1, GrownCapacity)
      /\ GrownRing[slot] = NoSlice /\ ring'[slot] = s
      /\ \A i \in 0..(size - 1) :
           ring'[InternalIndex(GrownStart, GrownCapacity, i)]
             = GrownRing[InternalIndex(GrownStart, GrownCapacity, i)]
  <2>1. PushedBack(GrownRing, ring', GrownStart, size, GrownCapacity, s)
    BY <1>1, <1>2, PushBackRing
  <2> QED BY <2>1 DEF PushedBack
<1>4. destroyed' = {}
  BY <1>2, <1>3
<1>5. /\ View \in Seq(Slices) /\ Len(View) = size /\ size \in Nat
      /\ \A i \in 1..size : View[i] = ring[InternalIndex(start, capacity, i - 1)]
  <2>1. IsView(View, ring, start, size, capacity)
    BY ViewIsSequence DEF IndInv, View, Slot
  <2> QED BY <2>1 DEF IsView
<1>6. RingOK(ring', start', size', capacity')
  BY <1>2, <1>3
<1>7. /\ View' \in Seq(Slices) /\ Len(View') = size'
      /\ \A i \in 1..size' : View'[i] = ring'[InternalIndex(start', capacity', i - 1)]
  <2>1. IsView(View', ring', start', size', capacity')
    BY <1>6, ViewIsSequence DEF View, Slot
  <2> QED BY <2>1 DEF IsView
<1>8. /\ Append(View, s) \in Seq(Slices) /\ Len(Append(View, s)) = size + 1
      /\ Append(View, s)[size + 1] = s
      /\ \A i \in 1..size : Append(View, s)[i] = View[i]
  BY <1>5, AppendProperties
<1>9. \A i \in 1..(size + 1) : View'[i] = Append(View, s)[i]
  <2> SUFFICES ASSUME NEW i \in 1..(size + 1) PROVE View'[i] = Append(View, s)[i]
    OBVIOUS
  <2>1. View'[i] = ring'[InternalIndex(GrownStart, GrownCapacity, i - 1)]
    BY <1>2, <1>7
  <2>2. CASE i = size + 1
    <3>1. i - 1 = size BY <1>5, <2>2
    <3> QED BY <1>3, <1>8, <2>1, <2>2, <3>1
  <2>3. CASE i # size + 1
    <3>1. i - 1 \in 0..(size - 1) /\ i \in 1..size BY <1>5, <2>3
    <3> QED BY <1>1, <1>3, <1>5, <1>8, <2>1, <3>1
  <2> QED BY <2>2, <2>3
<1>10. View' = Append(View, s)
  BY <1>2, <1>7, <1>8, <1>9, SeqEqual
<1> QED BY <1>4, <1>6, <1>10 DEF IndInv

\* A step of emplace_front() as the abstract queue sees it.
LEMMA EmplaceFrontStep ==
  ASSUME IndInv, NEW s \in Slices, EmplaceFront(s)
  PROVE  IndInv' /\ View' = <<s>> \o View /\ destroyed' = {}
<1>1. /\ RingOK(GrownRing, GrownStart, size, GrownCapacity) /\ size < GrownCapacity
      /\ \A i \in 0..(size - 1) :
           GrownRing[InternalIndex(GrownStart, GrownCapacity, i)]
             = ring[InternalIndex(start, capacity, i)]
  BY GrowRing DEF IndInv
<1>2. /\ ring' = [GrownRing EXCEPT ![start'] = s] /\ destroyed' = {GrownRing[start']} \ {NoSlice}
      /\ start' = IF GrownStart = 0 THEN GrownCapacity - 1 ELSE GrownStart - 1
      /\ capacity' = GrownCapacity /\ size' = size + 1
  BY DEF EmplaceFront, Assign
<1>3. /\ RingOK(ring', start', size + 1, GrownCapacity)
      /\ GrownRing[start'] = NoSlice /\ ring'[InternalIndex(start', GrownCapacity, 0)] = s
      /\ \A i \in 1..size :
           ring'[InternalIndex(start', GrownCapacity, i)]
             = GrownRing[InternalIndex(GrownStart, GrownCapacity, i - 1)]
  <2>1. PushedFront(GrownRing, GrownStart, ring', start', size, GrownCapacity, s)
    BY <1>1, <1>2, PushFrontRing
  <2> QED BY <2>1 DEF PushedFront
<1>4. destroyed' = {}
  BY <1>2, <1>3
<1>5. /\ View \in Seq(Slices) /\ Len(View) = size /\ size \in Nat
      /\ \A i \in 1..size : View[i] = ring[InternalIndex(start, capacity, i - 1)]
  <2>1. IsView(View, ring, start, size, capacity)
    BY ViewIsSequence DEF IndInv, View, Slot
  <2> QED BY <2>1 DEF IsView
<1>6. RingOK(ring', start', size', capacity')
  BY <1>2, <1>3
<1>7. /\ View' \in Seq(Slices) /\ Len(View') = size'
      /\ \A i \in 1..size' : View'[i] = ring'[InternalIndex(start', capacity', i - 1)]
  <2>1. IsView(View', ring', start', size', capacity')
    BY <1>6, ViewIsSequence DEF View, Slot
  <2> QED BY <2>1 DEF IsView
<1>8. /\ <<s>> \o View \in Seq(Slices) /\ Len(<<s>> \o View) = size + 1
      /\ (<<s>> \o View)[1] = s
      /\ \A i \in 2..(size + 1) : (<<s>> \o View)[i] = View[i - 1]
  <2>1. <<s>> \in Seq(Slices) /\ Len(<<s>>) = 1 /\ <<s>>[1] = s
    OBVIOUS
  <2> QED BY <1>5, <2>1, ConcatProperties
<1>9. \A i \in 1..(size + 1) : View'[i] = (<<s>> \o View)[i]
  <2> SUFFICES ASSUME NEW i \in 1..(size + 1) PROVE View'[i] = (<<s>> \o View)[i]
    OBVIOUS
  <2>1. View'[i] = ring'[InternalIndex(start', GrownCapacity, i - 1)]
    BY <1>2, <1>7
  <2>2. CASE i = 1
    <3>1. i - 1 = 0 BY <2>2
    <3> QED BY <1>3, <1>8, <2>1, <2>2, <3>1
  <2>3. CASE i # 1
    <3>1. i - 1 \in 1..size /\ (i - 1) - 1 \in 0..(size - 1) /\ i \in 2..(size + 1)
      BY <1>5, <2>3
    <3>2. View'[i] = ring[InternalIndex(start, capacity, (i - 1) - 1)]
      BY <1>1, <1>3, <2>1, <3>1
    <3> QED BY <1>5, <1>8, <3>1, <3>2
  <2> QED BY <2>2, <2>3
<1>10. View' = <<s>> \o View
  BY <1>2, <1>7, <1>8, <1>9, SeqEqual
<1> QED BY <1>4, <1>6, <1>10 DEF IndInv

\* A step of pop_front() as the abstract queue sees it.
LEMMA PopFrontStep ==
  ASSUME IndInv, PopFront
  PROVE  IndInv' /\ View # <<>> /\ View' = Tail(View) /\ destroyed' = {Head(View)}
<1>1. /\ ring' = [ring EXCEPT ![start] = NoSlice] /\ destroyed' = {ring[start]} \ {NoSlice}
      /\ start' = IF start + 1 = capacity THEN 0 ELSE start + 1
      /\ capacity' = capacity /\ size' = size - 1 /\ size # 0
  BY DEF PopFront, Assign
<1>2. PoppedFront(ring, start, ring', start', size, capacity)
  BY <1>1, PopFrontRing DEF IndInv
<1>3. /\ View \in Seq(Slices) /\ Len(View) = size /\ size \in Nat
      /\ \A i \in 1..size : View[i] = ring[InternalIndex(start, capacity, i - 1)]
  <2>1. IsView(View, ring, start, size, capacity)
    BY ViewIsSequence DEF IndInv, View, Slot
  <2> QED BY <2>1 DEF IsView
<1>4. RingOK(ring', start', size', capacity')
  BY <1>1, <1>2 DEF PoppedFront
<1>5. /\ View' \in Seq(Slices) /\ Len(View') = size'
      /\ \A i \in 1..size' : View'[i] = ring'[InternalIndex(start', capacity', i - 1)]
  <2>1. IsView(View', ring', start', size', capacity')
    BY <1>4, ViewIsSequence DEF View, Slot
  <2> QED BY <2>1 DEF IsView
<1>6. View # <<>>
  BY <1>1, <1>3
<1>7. /\ Head(View) = View[1] /\ Tail(View) \in Seq(Slices) /\ Len(Tail(View)) = size - 1
      /\ \A i \in 1..(size - 1) : Tail(View)[i] = View[i + 1]
  BY <1>3, <1>6, HeadTailProperties
<1>8. ring[start] \in Slices /\ View[1] = ring[start]
  <2>1. 1 \in 1..size /\ 1 - 1 = 0 BY <1>1, <1>3
  <2> QED BY <1>2, <1>3, <2>1 DEF PoppedFront
<1>9. destroyed' = {Head(View)}
  BY <1>1, <1>7, <1>8, DequeAssumption
<1>10. \A i \in 1..(size - 1) : View'[i] = Tail(View)[i]
  <2> SUFFICES ASSUME NEW i \in 1..(size - 1) PROVE View'[i] = Tail(View)[i]
    OBVIOUS
  <2>1. i - 1 \in 0..(size - 2) /\ (i - 1) + 1 = (i + 1) - 1 /\ i + 1 \in 1..size
    BY <1>1, <1>3
  <2>2. View'[i] = ring[InternalIndex(start, capacity, (i + 1) - 1)]
    BY <1>1, <1>2, <1>5, <2>1 DEF PoppedFront
  <2> QED BY <1>3, <1>7, <2>1, <2>2
<1>11. View' = Tail(View)
  BY <1>1, <1>5, <1>7, <1>10, SeqEqual
<1>12. destroyed' \in SUBSET Slices
  BY <1>7, <1>8, <1>9
<1> QED BY <1>4, <1>6, <1>9, <1>11, <1>12 DEF IndInv

\* A step of pop_back() as the abstract queue sees it.
LEMMA PopBackStep ==
  ASSUME IndInv, PopBack
  PROVE  /\ IndInv' /\ View # <<>> /\ View' = SubSeq(View, 1, Len(View) - 1)
         /\ destroyed' = {View[Len(View)]}
<1> DEFINE slot == InternalIndex(start, capacity, size - 1)
<1>1. /\ ring' = [ring EXCEPT ![slot] = NoSlice] /\ destroyed' = {ring[slot]} \ {NoSlice}
      /\ start' = start /\ capacity' = capacity /\ size' = size - 1 /\ size # 0
  BY DEF PopBack, Assign
<1>2. PoppedBack(ring, ring', start, size, capacity)
  BY <1>1, PopBackRing DEF IndInv
<1>3. /\ View \in Seq(Slices) /\ Len(View) = size /\ size \in Nat
      /\ \A i \in 1..size : View[i] = ring[InternalIndex(start, capacity, i - 1)]
  <2>1. IsView(View, ring, start, size, capacity)
    BY ViewIsSequence DEF IndInv, View, Slot
  <2> QED BY <2>1 DEF IsView
<1>4. RingOK(ring', start', size', capacity')
  BY <1>1, <1>2 DEF PoppedBack
<1>5. /\ View' \in Seq(Slices) /\ Len(View') = size'
      /\ \A i \in 1..size' : View'[i] = ring'[InternalIndex(start', capacity', i - 1)]
  <2>1. IsView(View', ring', start', size', capacity')
    BY <1>4, ViewIsSequence DEF View, Slot
  <2> QED BY <2>1 DEF IsView
<1>6. View # <<>>
  BY <1>1, <1>3
<1>7. /\ SubSeq(View, 1, size - 1) \in Seq(Slices) /\ Len(SubSeq(View, 1, size - 1)) = size - 1
      /\ \A i \in 1..(size - 1) : SubSeq(View, 1, size - 1)[i] = View[i]
  BY <1>1, <1>3
<1>8. ring[slot] \in Slices /\ View[size] = ring[slot]
  <2>1. size \in 1..size BY <1>1, <1>3
  <2> QED BY <1>2, <1>3, <2>1 DEF PoppedBack
<1>9. destroyed' = {View[Len(View)]}
  BY <1>1, <1>3, <1>8, DequeAssumption
<1>10. \A i \in 1..(size - 1) : View'[i] = SubSeq(View, 1, size - 1)[i]
  <2> SUFFICES ASSUME NEW i \in 1..(size - 1) PROVE View'[i] = SubSeq(View, 1, size - 1)[i]
    OBVIOUS
  <2>1. i - 1 \in 0..(size - 2) /\ i \in 1..size
    BY <1>1, <1>3
  <2>2. View'[i] = ring[InternalIndex(start, capacity, i - 1)]
    BY <1>1, <1>2, <1>5, <2>1 DEF PoppedBack
  <2> QED BY <1>3, <1>7, <2>1, <2>2
<1>11. View' = SubSeq(View, 1, size - 1)
  BY <1>1, <1>5, <1>7, <1>10, SeqEqual
<1>12. destroyed' \in SUBSET Slices
  BY <1>1, <1>8, DequeAssumption
<1> QED BY <1>3, <1>4, <1>6, <1>9, <1>11, <1>12 DEF IndInv

\* Every step keeps the ring well formed and is a step of the abstract queue.
LEMMA NextStep ==
  ASSUME IndInv, [Next]_vars
  PROVE  IndInv' /\ [Sequence!Next]_(Sequence!vars)
<1>1. ASSUME NEW s \in Slices, EmplaceBack(s) PROVE IndInv' /\ [Sequence!Next]_(Sequence!vars)
  <2>1. IndInv' /\ View' = Append(View, s) /\ destroyed' = {}
    BY <1>1, EmplaceBackStep
  <2>2. Sequence!PushBack BY <2>1 DEF Sequence!PushBack
  <2> QED BY <2>1, <2>2 DEF Sequence!Next
<1>2. ASSUME NEW s \in Slices, EmplaceFront(s) PROVE IndInv' /\ [Sequence!Next]_(Sequence!vars)
  <2>1. IndInv' /\ View' = <<s>> \o View /\ destroyed' = {}
    BY <1>2, EmplaceFrontStep
  <2>2. Sequence!PushFront BY <2>1 DEF Sequence!PushFront
  <2> QED BY <2>1, <2>2 DEF Sequence!Next
<1>3. CASE PopFront
  <2>1. IndInv' /\ Sequence!PopFront
    BY <1>3, PopFrontStep DEF Sequence!PopFront
  <2> QED BY <2>1 DEF Sequence!Next
<1>4. CASE PopBack
  <2>1. IndInv' /\ Sequence!PopBack
    BY <1>4, PopBackStep DEF Sequence!PopBack
  <2> QED BY <2>1 DEF Sequence!Next
<1>5. CASE UNCHANGED vars
  <2>1. IndInv' BY <1>5 DEF vars, IndInv
  <2>2. UNCHANGED Sequence!vars BY <1>5 DEF vars, Sequence!vars, View, Slot
  <2> QED BY <2>1, <2>2
<1> QED BY <1>1, <1>2, <1>3, <1>4, <1>5 DEF Next

\* The ring always has exactly capacity slots and start_, size_ stay in range.
THEOREM TypeCorrect == Spec => []TypeOK
<1>1. IndInv => TypeOK
  BY DEF IndInv, RingOK, TypeOK
<1> QED BY <1>1, InitInv, NextStep, PTL DEF Spec

\* No popped slice lingers in a slot and no queued slot is vacant, whatever
\* the wrap-around and however often the ring has grown.
THEOREM PoppedSlotsAreEmpty == Spec => []VacantSlotsAreEmpty
<1>1. IndInv => VacantSlotsAreEmpty
  <2> SUFFICES ASSUME IndInv, NEW j \in 0..(capacity - 1)
               PROVE  ring[j] = NoSlice <=> j \notin Used
    BY DEF VacantSlotsAreEmpty
  <2>1. capacity \in Nat \ {0} /\ start \in 0..(capacity - 1) /\ size \in 0..capacity
    BY DEF IndInv, RingOK
  <2>2. PICK k \in 0..(capacity - 1) : InternalIndex(start, capacity, k) = j
    BY <2>1, IndexOnto
  <2>3. CASE k < size
    <3>1. k \in 0..(size - 1) /\ k + 1 \in 1..size /\ (k + 1) - 1 = k BY <2>1, <2>3
    <3>2. ring[j] # NoSlice BY <2>2, <3>1, DequeAssumption DEF IndInv, RingOK
    <3>3. Slot(k + 1) = j BY <2>2, <3>1 DEF Slot
    <3> QED BY <3>1, <3>2, <3>3 DEF Used
  <2>4. CASE k >= size
    <3>1. k \in size..(capacity - 1) BY <2>1, <2>4
    <3>2. ring[j] = NoSlice BY <2>2, <3>1 DEF IndInv, RingOK
    <3>3. ASSUME NEW i \in 1..size, Slot(i) = j PROVE FALSE
      <4>1. i - 1 \in 0..(capacity - 1) /\ i - 1 # k BY <2>1, <2>4
      <4> QED BY <2>1, <2>2, <3>3, <4>1, IndexInjective DEF Slot
    <3> QED BY <3>2, <3>3 DEF Used
  <2> QED BY <2>1, <2>3, <2>4
<1> QED BY <1>1, InitInv, NextStep, PTL DEF Spec

\* For every inline capacity the ring implements the double-ended queue: the
\* slices visited are those of the queue, in order, and a slice is destroyed
\* exactly by the pop that removes it.
THEOREM ImplementsSequence == Spec => SequenceSpec
<1>1. Init => Sequence!Init
  <2> SUFFICES ASSUME Init PROVE View = <<>> /\ destroyed = {}
    BY DEF Sequence!Init
  <2>1. size = 0 /\ destroyed = {} BY DEF Init
  <2>2. 1..size = {} BY <2>1
  <2> QED BY <2>1, <2>2 DEF View
<1> QED BY <1>1, InitInv, NextStep, PTL DEF Spec, SequenceSpec, Sequence!Spec

------------------------------------------------------------------------------
(* Blocks of memory *)

CONSTANTS Buffer, Block, NULL, MAX_SLICES, SliceBytes, Fill, Request
VARIABLES slices, reservation, free_list, extracted, external

\* Module BufferStorage, and its loops as folds: newStorage(), the destructor of the owner of
\* a reservation, commit(), and the sum of Reservation::length().
Storage == INSTANCE BufferStorage
Taking == INSTANCE FoldTheorems WITH Op <- Storage!Take
Recycling == INSTANCE FoldTheorems WITH Op <- Storage!Recycle
Placing == INSTANCE FoldTheorems WITH Op <- Storage!Place
Lengths == INSTANCE FoldTheorems WITH Op <- +

\* The types of storages, slices and reservations, and of the raw slices of commit() with
\* their storages.
Memory == Block \cup {NULL}
SliceType == [mem : Block, cap : Int, used : Int, releasor : {"own", "given", "none"}]
ReservationType ==
  [kind : {"none", "single", "multiple"}, raw : Seq(Int), owned : Seq(Memory), wanted : Int]
PieceType == [len : Int, mem : Memory]

\* The non-null blocks of a sequence, and the blocks of a sequence of slices.
BlocksOf(list) == {list[i] : i \in DOMAIN list} \ {NULL}
MemsOf(list) == [i \in DOMAIN list |-> list[i].mem]

\* The types of the variables; every raw slice of a reservation has an entry of its owner.
StorageTypes ==
  /\ slices \in [Buffer -> Seq(SliceType)]
  /\ reservation \in [Buffer -> ReservationType]
  /\ \A b \in Buffer : Len(reservation[b].raw) = Len(reservation[b].owned)
  /\ free_list \in Seq(Block)
  /\ extracted \subseteq Block
  /\ external = [m \in DOMAIN external |-> external[m]] /\ DOMAIN external \subseteq Block

\* A slice does not own its memory exactly if that is the block of a caller.
OwnersAgree ==
  \A b \in Buffer : \A i \in DOMAIN slices[b] :
    slices[b][i].releasor = "own" <=> slices[b][i].mem \notin DOMAIN external

\* The folds of the module are those that FoldTheorems speaks of.
LEMMA StorageFolds ==
  /\ \A n : Storage!TakeStorages(n)
              = Taking!Fold([owned |-> <<>>, list |-> free_list], [i \in 1..n |-> i])
  /\ \A list : Storage!GiveBack(list) = Recycling!Fold(free_list, Storage!Reverse(list))
  /\ \A b, length : Storage!Placed(b, length)
       = Placing!Fold([slices |-> slices[b], left |-> <<>>, remaining |-> length],
           [i \in DOMAIN reservation[b].raw |->
              [len |-> reservation[b].raw[i], mem |-> reservation[b].owned[i]]])
<1>1. \A n : Storage!TakeStorages(n)
              = Taking!Fold([owned |-> <<>>, list |-> free_list], [i \in 1..n |-> i])
  BY DEF Storage!TakeStorages, Storage!FoldLeft, Storage!MapThenFoldSet, Storage!Max,
         Taking!Fold, Taking!MapThenFoldSet, Taking!Latest
<1>2. \A list : Storage!GiveBack(list) = Recycling!Fold(free_list, Storage!Reverse(list))
  BY DEF Storage!GiveBack, Storage!FoldLeft, Storage!MapThenFoldSet, Storage!Max,
         Recycling!Fold, Recycling!MapThenFoldSet, Recycling!Latest
<1>3. \A b, length : Storage!Placed(b, length)
       = Placing!Fold([slices |-> slices[b], left |-> <<>>, remaining |-> length],
           [i \in DOMAIN reservation[b].raw |->
              [len |-> reservation[b].raw[i], mem |-> reservation[b].owned[i]]])
  BY DEF Storage!Placed, Storage!FoldLeft, Storage!MapThenFoldSet, Storage!Max,
         Placing!Fold, Placing!MapThenFoldSet, Placing!Latest
<1> QED
  BY <1>1, <1>2, <1>3

\* A sequence with a block behind it.
LEMMA AppendedBlock ==
  ASSUME NEW list \in Seq(Memory), NEW m \in Memory
  PROVE  /\ BlocksOf(Append(list, m)) = BlocksOf(list) \cup ({m} \ {NULL})
         /\ Storage!NoBlockTwice(Append(list, m))
              <=> Storage!NoBlockTwice(list) /\ m \notin BlocksOf(list)
<1> DEFINE n == Len(list)
           l == Append(list, m)
<1>1. /\ n \in Nat /\ DOMAIN list = 1..n /\ DOMAIN l = 1..(n + 1)
      /\ \A i \in 1..n : l[i] = list[i]
      /\ l[n + 1] = m
  OBVIOUS
<1> HIDE DEF n, l
<1>2. \A i \in 1..(n + 1) : i \in 1..n \/ i = n + 1
  BY <1>1
<1>3. \A i \in 1..n : i \in 1..(n + 1) /\ i # n + 1
  BY <1>1
<1>4. n + 1 \in 1..(n + 1)
  BY <1>1
<1>5. BlocksOf(l) = BlocksOf(list) \cup ({m} \ {NULL})
  BY <1>1, <1>2, <1>3, <1>4 DEF BlocksOf
<1>6. ASSUME Storage!NoBlockTwice(l)
      PROVE  Storage!NoBlockTwice(list) /\ m \notin BlocksOf(list)
  BY <1>1, <1>3, <1>4, <1>6 DEF BlocksOf, Storage!NoBlockTwice
<1>7. ASSUME Storage!NoBlockTwice(list), m \notin BlocksOf(list)
      PROVE  Storage!NoBlockTwice(l)
  BY <1>1, <1>2, <1>7 DEF BlocksOf, Storage!NoBlockTwice
<1> QED
  BY <1>5, <1>6, <1>7 DEF l

\* The destructor of OwnedImplReservationSlicesOwnerMultiple adds to the free list only
\* blocks that it owned, each once, and not more than fit.
LEMMA RecycledAll ==
  ASSUME Storage!StorageSizes, NEW list \in Seq(Block), Storage!NoBlockTwice(list),
         Len(list) <= MAX_SLICES,
         NEW ms \in Seq(Memory), Storage!NoBlockTwice(ms), BlocksOf(ms) \cap BlocksOf(list) = {}
  PROVE  LET r == Recycling!Fold(list, ms) IN
         /\ r \in Seq(Block) /\ Storage!NoBlockTwice(r) /\ Len(r) <= MAX_SLICES
         /\ BlocksOf(r) \subseteq BlocksOf(list) \cup BlocksOf(ms)
<1> DEFINE Good(r, ss) == /\ r \in Seq(Block) /\ Storage!NoBlockTwice(r) /\ Len(r) <= MAX_SLICES
                          /\ BlocksOf(r) \subseteq BlocksOf(list) \cup BlocksOf(ss)
           Fits(ss) == Storage!NoBlockTwice(ss) /\ BlocksOf(ss) \cap BlocksOf(list) = {}
           S == {ss \in Seq(Memory) : Fits(ss) => Good(Recycling!Fold(list, ss), ss)}
<1>1. <<>> \in S
  BY Recycling!FoldOfNone
<1>2. ASSUME NEW ss \in Seq(Memory), NEW m \in Memory, ss \in S
      PROVE  Append(ss, m) \in S
  <2> DEFINE r == Recycling!Fold(list, ss)
             q == Recycling!Fold(list, Append(ss, m))
  <2>1. q = Storage!Recycle(r, m)
    BY Recycling!FoldOfAppend
  <2>2. Append(ss, m) \in Seq(Memory)
    OBVIOUS
  <2> HIDE DEF r, q
  <2> SUFFICES ASSUME Fits(Append(ss, m))
               PROVE  Good(q, Append(ss, m))
    BY <2>2 DEF q
  <2>3. /\ Storage!NoBlockTwice(ss) /\ m \notin BlocksOf(ss)
        /\ BlocksOf(Append(ss, m)) = BlocksOf(ss) \cup ({m} \ {NULL})
    BY AppendedBlock
  <2>4. Fits(ss)
    BY <2>3
  <2>5. Good(r, ss)
    BY <1>2, <2>4 DEF r
  <2>6. CASE m # NULL /\ Storage!HasRoom(r)
    <3>1. q = Append(r, m) /\ m \in Block /\ Len(r) < MAX_SLICES
      BY <2>1, <2>6 DEF Storage!Recycle, Storage!HasRoom, Memory
    <3>2. r \in Seq(Memory)
      BY <2>5 DEF Memory
    <3>3. m \notin BlocksOf(r)
      BY <2>3, <2>5, <2>6
    <3>4. Storage!NoBlockTwice(q) /\ BlocksOf(q) = BlocksOf(r) \cup ({m} \ {NULL})
      BY <2>5, <3>1, <3>2, <3>3, AppendedBlock
    <3>5. q \in Seq(Block) /\ Len(q) <= MAX_SLICES
      BY <2>5, <3>1 DEF Storage!StorageSizes
    <3> QED
      BY <2>3, <2>5, <3>4, <3>5
  <2>7. CASE ~(m # NULL /\ Storage!HasRoom(r))
    BY <2>1, <2>3, <2>5, <2>7 DEF Storage!Recycle
  <2> QED
    BY <2>6, <2>7
<1> HIDE DEF S
<1>3. ms \in S
  BY <1>1, <1>2, Recycling!SequenceInduction
<1> QED
  BY <1>3 DEF S

\* What newStorage() has taken after n turns: storages that were in the free list, and
\* new ones.
Taken(s, n) ==
  /\ s \in [owned : Seq(Block), list : Seq(Block)]
  /\ Len(s.owned) = n /\ Len(s.list) <= Len(free_list)
  /\ Storage!NoBlockTwice(s.owned) /\ Storage!NoBlockTwice(s.list)
  /\ BlocksOf(s.owned) \cap BlocksOf(s.list) = {}
  /\ BlocksOf(s.list) \subseteq BlocksOf(free_list)
  /\ BlocksOf(s.owned) \subseteq BlocksOf(free_list) \cup (Block \ Storage!Held)

\* The module's view of finite sets is the one of the theorems.
LEMMA StorageSets ==
  \A S : (Storage!IsFiniteSet(S) <=> IsFiniteSet(S)) /\ Storage!Cardinality(S) = Cardinality(S)
BY Zenon DEF Storage!Cardinality, Cardinality, Storage!IsFiniteSet, IsFiniteSet

\* While fewer storages were taken than there are blocks, there is a new one.
LEMMA BlockIsLeft ==
  ASSUME Storage!StorageSizes, NEW n \in Nat, NEW owned \in Seq(Block), Len(owned) < n,
         Storage!MemoryLeft(n)
  PROVE  Block \ (Storage!Held \cup Storage!ToSet(owned)) # {}
<1> DEFINE T == Storage!ToSet(owned)
           F == Block \ Storage!Held
<1>1. IsFiniteSet(1..Len(owned)) /\ Cardinality(1..Len(owned)) = Len(owned)
  <2>1. Len(owned) \in Nat /\ Len(owned) \in Int /\ 1 \in Int
    OBVIOUS
  <2>2. /\ IsFiniteSet(1..Len(owned))
        /\ Cardinality(1..Len(owned)) = IF 1 > Len(owned) THEN 0 ELSE Len(owned) - 1 + 1
    BY <2>1, FS_Interval
  <2> QED
    BY <2>1, <2>2
<1>2. owned \in Surjection(1..Len(owned), T)
  BY DEF Surjection, Storage!ToSet
<1>3. IsFiniteSet(T) /\ Cardinality(T) <= Len(owned)
  BY <1>1, <1>2, FS_Surjection
<1>4. IsFiniteSet(F)
  BY StorageSets, FS_Subset DEF Storage!StorageSizes
<1>5. Cardinality(F) \in Nat /\ Cardinality(T) \in Nat
  BY <1>3, <1>4, FS_CardinalityType
<1>6. Cardinality(F) >= n
  BY StorageSets DEF Storage!MemoryLeft
<1>7. F \subseteq T => Cardinality(F) <= Cardinality(T)
  BY <1>3, FS_Subset
<1>8. ~(F \subseteq T)
  BY <1>3, <1>5, <1>6, <1>7
<1> QED
  BY <1>8

\* One turn of the loop of reserveWithMaxLength().
LEMMA TakenNext ==
  ASSUME Storage!StorageSizes, NEW k \in Nat, Storage!MemoryLeft(k), NEW n \in Nat, n < k,
         free_list \in Seq(Block), NEW s, Taken(s, n), NEW i
  PROVE  Taken(Storage!Take(s, i), n + 1)
<1> DEFINE t == Storage!Take(s, i)
<1>1. /\ s.owned \in Seq(Block) /\ s.list \in Seq(Block) /\ s.owned \in Seq(Memory)
      /\ s.list \in Seq(Memory) /\ Len(s.owned) = n /\ NULL \notin Block
  BY DEF Taken, Memory, Storage!StorageSizes
<1>2. ASSUME NEW m \in Block, NEW list \in Seq(Block), t = [owned |-> Append(s.owned, m), list |-> list],
             Len(list) <= Len(free_list), Storage!NoBlockTwice(list), m \notin BlocksOf(list),
             BlocksOf(list) \subseteq BlocksOf(s.list), m \notin BlocksOf(s.owned),
             m \in BlocksOf(free_list) \cup (Block \ Storage!Held)
      PROVE  Taken(t, n + 1)
  <2>1. /\ BlocksOf(t.owned) = BlocksOf(s.owned) \cup ({m} \ {NULL})
        /\ Storage!NoBlockTwice(t.owned)
    BY <1>1, <1>2, AppendedBlock DEF Taken, Memory
  <2>2. t \in [owned : Seq(Block), list : Seq(Block)] /\ Len(t.owned) = n + 1 /\ t.list = list
    BY <1>1, <1>2
  <2> HIDE DEF t
  <2> QED
    BY <1>2, <2>1, <2>2 DEF Taken
<1>3. CASE s.list # <<>>
  <2> DEFINE m == s.list[Len(s.list)]
             list == SubSeq(s.list, 1, Len(s.list) - 1)
  <2>1. /\ Len(s.list) \in Nat /\ Len(s.list) >= 1 /\ m \in Block /\ list \in Seq(Block)
        /\ Len(list) = Len(s.list) - 1
    BY <1>1, <1>3
  <2>2. t = [owned |-> Append(s.owned, m), list |-> list]
    BY <1>1, <1>3 DEF Taken, Storage!Take, Storage!Popped, Storage!Last, Storage!Front
  <2>3. s.list = Append(list, m)
    BY <1>1, <2>1
  <2> HIDE DEF m, list
  <2>4. list \in Seq(Memory) /\ m \in Memory
    BY <2>1 DEF Memory
  <2>5. /\ BlocksOf(s.list) = BlocksOf(list) \cup ({m} \ {NULL})
        /\ Storage!NoBlockTwice(list) /\ m \notin BlocksOf(list)
    BY <2>3, <2>4, AppendedBlock DEF Taken
  <2>6. m \in BlocksOf(s.list)
    BY <1>1, <2>1, <2>5
  <2> QED
    BY <1>1, <1>2, <2>1, <2>2, <2>5, <2>6 DEF Taken
<1>4. CASE s.list = <<>>
  <2> DEFINE F == Block \ (Storage!Held \cup Storage!ToSet(s.owned))
             m == CHOOSE m \in F : TRUE
  <2>1. F # {}
    BY <1>1, BlockIsLeft
  <2>2. m \in F
    BY <2>1
  <2>3. t = [owned |-> Append(s.owned, m), list |-> s.list]
    BY <1>1, <1>4 DEF Taken, Storage!Take
  <2>4. m \in Block /\ m \notin Storage!Held /\ m \notin Storage!ToSet(s.owned)
    BY <2>2
  <2> HIDE DEF m, F
  <2>5. m \notin BlocksOf(s.owned)
    BY <2>4 DEF BlocksOf, Storage!ToSet
  <2>6. BlocksOf(s.list) = {}
    BY <1>4 DEF BlocksOf
  <2> QED
    BY <1>1, <1>2, <2>3, <2>4, <2>5, <2>6 DEF Taken
<1> QED
  BY <1>3, <1>4

\* The loop of reserveWithMaxLength().
LEMMA TakenAll ==
  ASSUME Storage!StorageSizes, NEW k \in Nat, Storage!MemoryLeft(k),
         free_list \in Seq(Block), Storage!NoBlockTwice(free_list)
  PROVE  Taken(Storage!TakeStorages(k), k)
<1> DEFINE c == [owned |-> <<>>, list |-> free_list]
           Upto(n) == [i \in 1..n |-> i]
           S == {n \in Nat : n <= k => Taken(Taking!Fold(c, Upto(n)), n)}
<1>1. 0 \in S
  <2>1. Upto(0) = <<>>
    OBVIOUS
  <2>2. Taken(c, 0)
    BY DEF Taken, Storage!NoBlockTwice, BlocksOf
  <2> HIDE DEF c
  <2> QED
    BY <2>1, <2>2, Taking!FoldOfNone
<1>2. ASSUME NEW n \in Nat, n \in S
      PROVE  n + 1 \in S
  <2> SUFFICES ASSUME n + 1 <= k
               PROVE  Taken(Taking!Fold(c, Upto(n + 1)), n + 1)
    OBVIOUS
  <2>1. Upto(n + 1) = Append(Upto(n), n + 1) /\ Upto(n) \in Seq(Nat) /\ n < k /\ n + 1 \in Nat
    OBVIOUS
  <2>2. Taken(Taking!Fold(c, Upto(n)), n)
    BY <1>2
  <2> HIDE DEF c, Upto
  <2>3. Taking!Fold(c, Upto(n + 1)) = Storage!Take(Taking!Fold(c, Upto(n)), n + 1)
    BY <2>1, Taking!FoldOfAppend
  <2> QED
    BY <2>1, <2>2, <2>3, TakenNext
<1> HIDE DEF S
<1>3. k \in S
  BY <1>1, <1>2, Taking!SetInduction
<1>4. Taken(Taking!Fold(c, Upto(k)), k)
  BY <1>3 DEF S
<1> QED
  BY <1>4, StorageFolds

\* What commit() has done after the pieces ps: s.slices are the slices ss and new ones,
\* s.left the storages that did not move.
PlacedPart(s, ss, ps) ==
  /\ s \in [slices : Seq(SliceType), left : Seq(Memory), remaining : Int]
  /\ Storage!NoBlockTwice(MemsOf(s.slices)) /\ Storage!NoBlockTwice(s.left)
  /\ BlocksOf(MemsOf(s.slices)) \cap BlocksOf(s.left) = {}
  /\ BlocksOf(s.left) \subseteq BlocksOf(MemsOf(ps))
  /\ \A i \in DOMAIN s.slices :
       \/ \E j \in DOMAIN ss : /\ s.slices[i].mem = ss[j].mem
                               /\ s.slices[i].releasor = ss[j].releasor
       \/ s.slices[i].mem \in BlocksOf(MemsOf(ps)) /\ s.slices[i].releasor = "own"

\* The blocks of slices or pieces.
LEMMA MemsAre ==
  /\ \A ss \in Seq(SliceType) : MemsOf(ss) \in Seq(Block) /\ MemsOf(ss) \in Seq(Memory)
  /\ \A ss \in Seq(SliceType), s \in SliceType : MemsOf(Append(ss, s)) = Append(MemsOf(ss), s.mem)
  /\ \A ps \in Seq(PieceType) : MemsOf(ps) \in Seq(Memory)
  /\ \A ps \in Seq(PieceType), p \in PieceType : MemsOf(Append(ps, p)) = Append(MemsOf(ps), p.mem)
<1>1. ASSUME NEW ss \in Seq(SliceType)
      PROVE  MemsOf(ss) \in Seq(Block) /\ MemsOf(ss) \in Seq(Memory)
  <2>1. DOMAIN ss = 1..Len(ss) /\ Len(ss) \in Nat /\ \A i \in 1..Len(ss) : ss[i] \in SliceType
    OBVIOUS
  <2>2. \A i \in 1..Len(ss) : ss[i].mem \in Block /\ ss[i].mem \in Memory
    BY <2>1 DEF SliceType, Memory
  <2>3. MemsOf(ss) = [i \in 1..Len(ss) |-> ss[i].mem]
    BY <2>1 DEF MemsOf
  <2> QED
    BY <2>1, <2>2, <2>3
<1>2. ASSUME NEW ps \in Seq(PieceType)
      PROVE  MemsOf(ps) \in Seq(Memory)
  <2>1. DOMAIN ps = 1..Len(ps) /\ Len(ps) \in Nat /\ \A i \in 1..Len(ps) : ps[i] \in PieceType
    OBVIOUS
  <2>2. \A i \in 1..Len(ps) : ps[i].mem \in Memory
    BY <2>1 DEF PieceType
  <2>3. MemsOf(ps) = [i \in 1..Len(ps) |-> ps[i].mem]
    BY <2>1 DEF MemsOf
  <2> QED
    BY <2>1, <2>2, <2>3
<1>3. ASSUME NEW ss \in Seq(SliceType), NEW s \in SliceType
      PROVE  MemsOf(Append(ss, s)) = Append(MemsOf(ss), s.mem)
  <2> DEFINE ms == MemsOf(ss)
             n == Len(ss)
  <2>1. ms \in Seq(Block) /\ Len(ms) = n /\ n \in Nat /\ \A i \in 1..n : ms[i] = ss[i].mem
    <3>1. ms \in Seq(Block) /\ n \in Nat /\ DOMAIN ss = 1..n
      BY <1>1
    <3>2. DOMAIN ms = 1..n /\ \A i \in 1..n : ms[i] = ss[i].mem
      BY <3>1 DEF MemsOf
    <3> HIDE DEF ms, n
    <3> QED
      BY <3>1, <3>2
  <2>2. /\ DOMAIN Append(ss, s) = 1..(n + 1) /\ Append(ss, s)[n + 1] = s
        /\ \A i \in 1..n : Append(ss, s)[i] = ss[i]
    OBVIOUS
  <2> HIDE DEF ms
  <2>3. Append(ms, s.mem) = [i \in 1..(n + 1) |-> IF i = n + 1 THEN s.mem ELSE ms[i]]
    BY <2>1
  <2>4. [i \in 1..(n + 1) |-> Append(ss, s)[i].mem]
          = [i \in 1..(n + 1) |-> IF i = n + 1 THEN s.mem ELSE ms[i]]
    <3>1. \A i \in 1..(n + 1) : i = n + 1 \/ i \in 1..n
      BY <2>1
    <3> HIDE DEF n
    <3> QED
      BY <2>1, <2>2, <3>1
  <2> QED
    BY <2>2, <2>3, <2>4 DEF ms, MemsOf
<1>4. ASSUME NEW ps \in Seq(PieceType), NEW p \in PieceType
      PROVE  MemsOf(Append(ps, p)) = Append(MemsOf(ps), p.mem)
  <2> DEFINE ms == MemsOf(ps)
             n == Len(ps)
  <2>1. ms \in Seq(Memory) /\ Len(ms) = n /\ n \in Nat /\ \A i \in 1..n : ms[i] = ps[i].mem
    <3>1. ms \in Seq(Memory) /\ n \in Nat /\ DOMAIN ps = 1..n
      BY <1>2
    <3>2. DOMAIN ms = 1..n /\ \A i \in 1..n : ms[i] = ps[i].mem
      BY <3>1 DEF MemsOf
    <3> HIDE DEF ms, n
    <3> QED
      BY <3>1, <3>2
  <2>2. /\ DOMAIN Append(ps, p) = 1..(n + 1) /\ Append(ps, p)[n + 1] = p
        /\ \A i \in 1..n : Append(ps, p)[i] = ps[i]
    OBVIOUS
  <2> HIDE DEF ms
  <2>3. Append(ms, p.mem) = [i \in 1..(n + 1) |-> IF i = n + 1 THEN p.mem ELSE ms[i]]
    BY <2>1
  <2>4. [i \in 1..(n + 1) |-> Append(ps, p)[i].mem]
          = [i \in 1..(n + 1) |-> IF i = n + 1 THEN p.mem ELSE ms[i]]
    <3>1. \A i \in 1..(n + 1) : i = n + 1 \/ i \in 1..n
      BY <2>1
    <3> HIDE DEF n
    <3> QED
      BY <2>1, <2>2, <3>1
  <2> QED
    BY <2>2, <2>3, <2>4 DEF ms, MemsOf
<1> QED
  BY <1>1, <1>2, <1>3, <1>4

\* One turn of the loop of commit().
LEMMA PlacedNext ==
  ASSUME Storage!StorageSizes, NEW ss \in Seq(SliceType), NEW ps \in Seq(PieceType),
         NEW p \in PieceType, NEW s, PlacedPart(s, ss, ps),
         p.mem \notin BlocksOf(MemsOf(ps)), p.mem \notin BlocksOf(MemsOf(ss))
  PROVE  PlacedPart(Storage!Place(s, p), ss, Append(ps, p))
<1> DEFINE t == Storage!Place(s, p)
           ms == BlocksOf(MemsOf(ps))
           all == BlocksOf(MemsOf(Append(ps, p)))
<1> SUFFICES PlacedPart(t, ss, Append(ps, p))
  OBVIOUS
<1>1. /\ s.slices \in Seq(SliceType) /\ s.left \in Seq(Memory) /\ s.remaining \in Int
      /\ p.len \in Int /\ p.mem \in Memory /\ NULL \in Memory /\ NULL \notin Block
      /\ \A list \in Seq(Block) : list \in Seq(Memory)
  BY DEF PlacedPart, PieceType, Memory, Storage!StorageSizes
<1>2. all = ms \cup ({p.mem} \ {NULL})
  <2>1. MemsOf(ps) \in Seq(Memory) /\ MemsOf(Append(ps, p)) = Append(MemsOf(ps), p.mem)
    BY MemsAre
  <2> QED
    BY <1>1, <2>1, AppendedBlock
<1>3. MemsOf(s.slices) \in Seq(Memory)
  BY <1>1, MemsAre
<1>4. p.mem \notin BlocksOf(MemsOf(s.slices)) /\ p.mem \notin BlocksOf(s.left)
  <2>1. ASSUME p.mem \in BlocksOf(MemsOf(s.slices))
        PROVE  FALSE
    <3>1. PICK i \in DOMAIN s.slices : s.slices[i].mem = p.mem /\ p.mem # NULL
      BY <2>1 DEF BlocksOf, MemsOf
    <3>2. p.mem \in BlocksOf(MemsOf(ss)) \/ p.mem \in ms
      BY <3>1 DEF PlacedPart, BlocksOf, MemsOf
    <3> QED
      BY <3>2
  <2> QED
    BY <2>1 DEF PlacedPart
<1> HIDE DEF ms, all
<1>5. CASE s.remaining = 0
  <2>1. t = [s EXCEPT !.left = Append(s.left, p.mem)]
    BY <1>5 DEF Storage!Place
  <2>2. /\ t \in [slices : Seq(SliceType), left : Seq(Memory), remaining : Int]
        /\ t.slices = s.slices /\ t.left = Append(s.left, p.mem)
    <3>1. s \in [slices : Seq(SliceType), left : Seq(Memory), remaining : Int]
      BY DEF PlacedPart
    <3>2. Append(s.left, p.mem) \in Seq(Memory)
      BY <1>1
    <3> QED
      BY <2>1, <3>1, <3>2
  <2>3. /\ Storage!NoBlockTwice(t.left)
        /\ BlocksOf(t.left) = BlocksOf(s.left) \cup ({p.mem} \ {NULL})
    BY <1>1, <1>4, <2>2, AppendedBlock DEF PlacedPart
  <2> HIDE DEF t
  <2> QED
    BY <1>2, <1>4, <2>2, <2>3 DEF PlacedPart, ms, all
<1>6. CASE s.remaining # 0
  <2> DEFINE len == Storage!Min({p.len, s.remaining})
  <2>1. len \in Int
    <3>1. \A m, n \in Int : Storage!Min({m, n}) = IF m <= n THEN m ELSE n
      BY DEF Storage!Min
    <3> QED
      BY <1>1, <3>1
  <2> HIDE DEF len
  <2>2. /\ Append(s.left, NULL) \in Seq(Memory) /\ Storage!NoBlockTwice(Append(s.left, NULL))
        /\ BlocksOf(Append(s.left, NULL)) = BlocksOf(s.left)
    <3>1. NULL \notin BlocksOf(s.left)
      BY DEF BlocksOf
    <3> QED
      <4>1. Storage!NoBlockTwice(s.left) /\ s.left \in Seq(Memory)
        BY <1>1 DEF PlacedPart
      <4>2. Append(s.left, NULL) \in Seq(Memory)
        BY <1>1
      <4>3. NULL \in Memory
        BY DEF Memory
      <4>4. /\ BlocksOf(Append(s.left, NULL)) = BlocksOf(s.left) \cup ({NULL} \ {NULL})
            /\ Storage!NoBlockTwice(Append(s.left, NULL))
        BY <3>1, <4>1, <4>3, AppendedBlock
      <4> QED
        BY <4>2, <4>4
  <2>3. CASE p.mem = NULL
    <3> DEFINE n == Len(s.slices)
               ts == [s.slices EXCEPT ![n].used = @ + len]
    <3>1. t = [slices |-> ts, left |-> Append(s.left, NULL), remaining |-> s.remaining - len]
      BY <1>6, <2>3 DEF Storage!Place, len
    <3>2. /\ ts \in Seq(SliceType) /\ DOMAIN ts = DOMAIN s.slices
          /\ \A i \in DOMAIN ts : ts[i].mem = s.slices[i].mem /\ ts[i].releasor = s.slices[i].releasor
      <4>1. n \in Nat /\ DOMAIN s.slices = 1..n /\ \A i \in 1..n : s.slices[i] \in SliceType
        BY <1>1
      <4>2. DOMAIN ts = DOMAIN s.slices
        OBVIOUS
      <4>3. ASSUME NEW i \in 1..n
            PROVE  /\ ts[i] \in SliceType
                   /\ ts[i].mem = s.slices[i].mem /\ ts[i].releasor = s.slices[i].releasor
        <5>1. CASE i = n
          <6>1. ts[i] = [s.slices[i] EXCEPT !.used = @ + len]
            BY <4>1, <5>1
          <6> HIDE DEF ts
          <6> QED
            BY <2>1, <4>1, <6>1 DEF SliceType
        <5>2. CASE i # n
          BY <4>1, <5>2
        <5> QED
          BY <5>1, <5>2
      <4>4. s.slices \in [1..n -> SliceType]
        BY <1>1
      <4>5. ts = [i \in 1..n |-> ts[i]]
        BY <4>4
      <4> HIDE DEF ts, n
      <4>6. ts \in Seq(SliceType)
        BY <4>1, <4>3, <4>5
      <4> QED
        BY <4>1, <4>2, <4>3, <4>6
    <3> HIDE DEF ts
    <3>3. MemsOf(ts) = MemsOf(s.slices)
      BY <3>2 DEF MemsOf
    <3>4. /\ t \in [slices : Seq(SliceType), left : Seq(Memory), remaining : Int]
          /\ t.slices = ts /\ t.left = Append(s.left, NULL)
      BY <1>1, <2>1, <2>2, <3>1, <3>2
    <3> HIDE DEF t
    <3>5. \A i \in DOMAIN t.slices :
            \/ \E j \in DOMAIN ss : /\ t.slices[i].mem = ss[j].mem
                                    /\ t.slices[i].releasor = ss[j].releasor
            \/ t.slices[i].mem \in all /\ t.slices[i].releasor = "own"
      BY <1>2, <3>2, <3>4 DEF PlacedPart, ms
    <3>6. /\ Storage!NoBlockTwice(MemsOf(t.slices)) /\ Storage!NoBlockTwice(t.left)
          /\ BlocksOf(MemsOf(t.slices)) \cap BlocksOf(t.left) = {}
          /\ BlocksOf(t.left) \subseteq all
      BY <1>2, <2>2, <3>3, <3>4 DEF PlacedPart, ms
    <3> QED
      BY <3>4, <3>5, <3>6 DEF PlacedPart, all
  <2>4. CASE p.mem # NULL
    <3> DEFINE new == Storage!NewSlice(p.mem, len)
               ts == Append(s.slices, new)
    <3>1. t = [slices |-> ts, left |-> Append(s.left, NULL), remaining |-> s.remaining - len]
      BY <1>6, <2>4 DEF Storage!Place, len
    <3>2. new \in SliceType /\ new.mem = p.mem /\ new.releasor = "own"
      BY <1>1, <2>1, <2>4 DEF Storage!NewSlice, SliceType, Memory, Storage!StorageSizes
    <3> HIDE DEF new
    <3>3. /\ ts \in Seq(SliceType)
          /\ \A i \in DOMAIN ts : (i \in DOMAIN s.slices /\ ts[i] = s.slices[i]) \/ ts[i] = new
      BY <1>1, <3>2
    <3>4. MemsOf(ts) = Append(MemsOf(s.slices), p.mem)
      BY <1>1, <3>2, MemsAre
    <3> HIDE DEF ts
    <3>5. /\ Storage!NoBlockTwice(MemsOf(ts))
          /\ BlocksOf(MemsOf(ts)) = BlocksOf(MemsOf(s.slices)) \cup ({p.mem} \ {NULL})
      BY <1>1, <1>3, <1>4, <3>4, AppendedBlock DEF PlacedPart
    <3>6. /\ t \in [slices : Seq(SliceType), left : Seq(Memory), remaining : Int]
          /\ t.slices = ts /\ t.left = Append(s.left, NULL)
      BY <1>1, <2>1, <2>2, <3>1, <3>3
    <3> HIDE DEF t
    <3>7. \A i \in DOMAIN t.slices :
            \/ \E j \in DOMAIN ss : /\ t.slices[i].mem = ss[j].mem
                                    /\ t.slices[i].releasor = ss[j].releasor
            \/ t.slices[i].mem \in all /\ t.slices[i].releasor = "own"
      BY <1>2, <2>4, <3>2, <3>3, <3>6 DEF PlacedPart, ms
    <3>8. /\ Storage!NoBlockTwice(MemsOf(t.slices)) /\ Storage!NoBlockTwice(t.left)
          /\ BlocksOf(MemsOf(t.slices)) \cap BlocksOf(t.left) = {}
          /\ BlocksOf(t.left) \subseteq all
      BY <1>2, <1>4, <2>2, <3>5, <3>6 DEF PlacedPart, ms
    <3> QED
      BY <3>6, <3>7, <3>8 DEF PlacedPart, all
  <2> QED
    BY <2>3, <2>4
<1> QED
  BY <1>5, <1>6

\* The loop of commit().
LEMMA PlacedAll ==
  ASSUME Storage!StorageSizes, NEW ss \in Seq(SliceType), NEW ps \in Seq(PieceType),
         NEW length \in Int, Storage!NoBlockTwice(MemsOf(ss)), Storage!NoBlockTwice(MemsOf(ps)),
         BlocksOf(MemsOf(ps)) \cap BlocksOf(MemsOf(ss)) = {}
  PROVE  PlacedPart(Placing!Fold([slices |-> ss, left |-> <<>>, remaining |-> length], ps), ss, ps)
<1> DEFINE c == [slices |-> ss, left |-> <<>>, remaining |-> length]
           Fits(qs) == /\ Storage!NoBlockTwice(MemsOf(qs))
                       /\ BlocksOf(MemsOf(qs)) \cap BlocksOf(MemsOf(ss)) = {}
           S == {qs \in Seq(PieceType) : Fits(qs) => PlacedPart(Placing!Fold(c, qs), ss, qs)}
<1>1. <<>> \in S
  <2>1. PlacedPart(c, ss, <<>>)
    BY DEF PlacedPart, Storage!NoBlockTwice, BlocksOf, MemsOf
  <2> HIDE DEF c
  <2> QED
    BY <2>1, Placing!FoldOfNone
<1>2. ASSUME NEW qs \in Seq(PieceType), NEW p \in PieceType, qs \in S
      PROVE  Append(qs, p) \in S
  <2>1. Append(qs, p) \in Seq(PieceType)
    OBVIOUS
  <2> SUFFICES ASSUME Fits(Append(qs, p))
               PROVE  PlacedPart(Placing!Fold(c, Append(qs, p)), ss, Append(qs, p))
    BY <2>1
  <2>2. MemsOf(Append(qs, p)) = Append(MemsOf(qs), p.mem) /\ MemsOf(qs) \in Seq(Memory) /\ p.mem \in Memory
    BY MemsAre DEF PieceType
  <2>3. /\ Storage!NoBlockTwice(MemsOf(qs)) /\ p.mem \notin BlocksOf(MemsOf(qs))
        /\ BlocksOf(MemsOf(Append(qs, p))) = BlocksOf(MemsOf(qs)) \cup ({p.mem} \ {NULL})
    BY <2>2, AppendedBlock
  <2>4. NULL \notin BlocksOf(MemsOf(ss))
    BY DEF BlocksOf
  <2>5. Fits(qs) /\ p.mem \notin BlocksOf(MemsOf(ss))
    BY <2>3, <2>4
  <2> HIDE DEF c
  <2>6. Placing!Fold(c, Append(qs, p)) = Storage!Place(Placing!Fold(c, qs), p)
    BY Placing!FoldOfAppend
  <2>7. PlacedPart(Placing!Fold(c, qs), ss, qs)
    BY <1>2, <2>5
  <2> QED
    BY <2>3, <2>5, <2>6, <2>7, PlacedNext
<1> HIDE DEF S
<1>3. ps \in S
  BY <1>1, <1>2, Placing!SequenceInduction
<1> QED
  BY <1>3 DEF S

\* The blocks of the places.
FreeBlocks == BlocksOf(free_list)
SliceBlocks == [b \in Buffer |-> BlocksOf(MemsOf(slices[b]))]
ReservedBlocks == [b \in Buffer |-> BlocksOf(reservation[b].owned)]

\* Blocks F that are free, S[b] in the slices and R[b] in the reservation of b, E extracted
\* and DOMAIN X of callers are apart, except for the fragments.
Apart(F, S, R, E, X) ==
  /\ F \cap E = {} /\ F \cap DOMAIN X = {} /\ E \cap DOMAIN X = {}
  /\ \A b \in Buffer :
       /\ F \cap S[b] = {} /\ F \cap R[b] = {}
       /\ S[b] \cap E = {} /\ R[b] \cap E = {} /\ R[b] \cap DOMAIN X = {}
       /\ \A m \in S[b] \cap DOMAIN X : X[m] = "in buffer"
  /\ \A b, c \in Buffer :
       /\ S[b] \cap R[c] = {}
       /\ b # c => S[b] \cap S[c] = {} /\ R[b] \cap R[c] = {}

\* No place has a block twice.
NothingTwice ==
  /\ Storage!NoBlockTwice(free_list)
  /\ \A b \in Buffer : /\ Storage!NoBlockTwice(MemsOf(slices[b]))
                       /\ Storage!NoBlockTwice(reservation[b].owned)

\* What MemoryHasOneOwner says (lemma OneOwnerIs).
OwnedApart ==
  /\ Apart(FreeBlocks, SliceBlocks, ReservedBlocks, extracted, external)
  /\ NothingTwice
  /\ Len(free_list) <= MAX_SLICES

\* What is at each place.
LEMMA PlacesAre ==
  /\ Storage!Content(<<"free">>) = free_list
  /\ Storage!Blocks(<<"free">>) = FreeBlocks
  /\ \A b \in Buffer : /\ Storage!Content(<<"slices", b>>) = MemsOf(slices[b])
                       /\ Storage!Content(<<"reserved", b>>) = reservation[b].owned
                       /\ Storage!Blocks(<<"slices", b>>) = SliceBlocks[b]
                       /\ Storage!Blocks(<<"reserved", b>>) = ReservedBlocks[b]
<1>1. Storage!Content(<<"free">>) = free_list
  BY DEF Storage!Content
<1>2. ASSUME NEW b \in Buffer
      PROVE  /\ Storage!Content(<<"slices", b>>) = MemsOf(slices[b])
             /\ Storage!Content(<<"reserved", b>>) = reservation[b].owned
  BY DEF Storage!Content, MemsOf
<1>3. \A p : Storage!Blocks(p) = BlocksOf(Storage!Content(p))
  BY DEF Storage!Blocks, Storage!ToSet, BlocksOf
<1> QED
  BY <1>1, <1>2, <1>3 DEF FreeBlocks, SliceBlocks, ReservedBlocks

\* The places, one by one.
LEMMA PlaceCases ==
  \A p \in Storage!Places :
    \/ p = <<"free">>
    \/ \E b \in Buffer : p = <<"slices", b>>
    \/ \E b \in Buffer : p = <<"reserved", b>>
BY DEF Storage!Places

\* Each of them is a place.
LEMMA ArePlaces ==
  /\ <<"free">> \in Storage!Places
  /\ \A b \in Buffer : <<"slices", b>> \in Storage!Places /\ <<"reserved", b>> \in Storage!Places
BY DEF Storage!Places

\* The property, place by place.
LEMMA OneOwnerIs == Storage!MemoryHasOneOwner <=> OwnedApart
<1>1. ASSUME Storage!MemoryHasOneOwner
      PROVE  OwnedApart
  <2>0. /\ \A p \in Storage!Places : p[1] = "slices" \/ Storage!Blocks(p) \cap DOMAIN external = {}
        /\ \A p \in Storage!Places : Storage!Blocks(p) \cap extracted = {}
        /\ \A p, q \in Storage!Places : p # q => Storage!Blocks(p) \cap Storage!Blocks(q) = {}
        /\ \A p \in Storage!Places : \A m \in Storage!Blocks(p) \cap DOMAIN external : external[m] = "in buffer"
        /\ \A p \in Storage!Places : Storage!NoBlockTwice(Storage!Content(p))
    BY <1>1 DEF Storage!MemoryHasOneOwner
  <2>1. NothingTwice
    BY <2>0, PlacesAre, ArePlaces DEF NothingTwice
  <2>2. /\ FreeBlocks \cap extracted = {} /\ FreeBlocks \cap DOMAIN external = {}
        /\ extracted \cap DOMAIN external = {} /\ Len(free_list) <= MAX_SLICES
    <3>1. <<"free">>[1] # "slices"
      OBVIOUS
    <3> QED
      BY <1>1, <2>0, <3>1, PlacesAre, ArePlaces DEF Storage!MemoryHasOneOwner
  <2>3. ASSUME NEW b \in Buffer
        PROVE  /\ FreeBlocks \cap SliceBlocks[b] = {} /\ FreeBlocks \cap ReservedBlocks[b] = {}
               /\ SliceBlocks[b] \cap extracted = {} /\ ReservedBlocks[b] \cap extracted = {}
               /\ ReservedBlocks[b] \cap DOMAIN external = {}
               /\ \A m \in SliceBlocks[b] \cap DOMAIN external : external[m] = "in buffer"
    <3>1. /\ <<"free">> # <<"slices", b>> /\ <<"free">> # <<"reserved", b>>
          /\ <<"reserved", b>>[1] # "slices"
      OBVIOUS
    <3> QED
      BY <2>0, <3>1, PlacesAre, ArePlaces
  <2>4. ASSUME NEW b \in Buffer, NEW c \in Buffer
        PROVE  /\ SliceBlocks[b] \cap ReservedBlocks[c] = {}
               /\ b # c => /\ SliceBlocks[b] \cap SliceBlocks[c] = {}
                           /\ ReservedBlocks[b] \cap ReservedBlocks[c] = {}
    <3>1. /\ <<"slices", b>> # <<"reserved", c>>
          /\ b # c => <<"slices", b>> # <<"slices", c>> /\ <<"reserved", b>> # <<"reserved", c>>
      OBVIOUS
    <3> QED
      BY <2>0, <3>1, PlacesAre, ArePlaces
  <2> QED
    BY <2>1, <2>2, <2>3, <2>4 DEF OwnedApart, Apart
<1>2. ASSUME OwnedApart
      PROVE  Storage!MemoryHasOneOwner
  <2>1. ASSUME NEW p \in Storage!Places
        PROVE  /\ Storage!NoBlockTwice(Storage!Content(p))
               /\ Storage!Blocks(p) \cap extracted = {}
               /\ \A m \in Storage!Blocks(p) \cap DOMAIN external :
                    p[1] = "slices" /\ external[m] = "in buffer"
    <3>1. CASE p = <<"free">>
      BY <1>2, <3>1, PlacesAre DEF OwnedApart, Apart, NothingTwice
    <3>2. ASSUME NEW b \in Buffer, p = <<"slices", b>>
          PROVE  <2>1!2
      BY <1>2, <3>2, PlacesAre DEF OwnedApart, Apart, NothingTwice
    <3>3. ASSUME NEW b \in Buffer, p = <<"reserved", b>>
          PROVE  <2>1!2
      BY <1>2, <3>3, PlacesAre DEF OwnedApart, Apart, NothingTwice
    <3> QED
      BY <3>1, <3>2, <3>3, PlaceCases
  <2>2. ASSUME NEW p \in Storage!Places, NEW q \in Storage!Places, p # q
        PROVE  Storage!Blocks(p) \cap Storage!Blocks(q) = {}
    <3>1. CASE p = <<"free">>
      BY <1>2, <2>2, <3>1, PlacesAre, PlaceCases DEF OwnedApart, Apart
    <3>2. ASSUME NEW b \in Buffer, p = <<"slices", b>>
          PROVE  Storage!Blocks(p) \cap Storage!Blocks(q) = {}
      <4>1. CASE q = <<"free">>
        <5>1. FreeBlocks \cap SliceBlocks[b] = {}
          BY <1>2 DEF OwnedApart, Apart
        <5> QED
          BY <3>2, <4>1, <5>1, PlacesAre
      <4>2. ASSUME NEW c \in Buffer, q = <<"slices", c>>
            PROVE  Storage!Blocks(p) \cap Storage!Blocks(q) = {}
        <5>1. b # c
          BY <2>2, <3>2, <4>2
        <5> QED
          BY <1>2, <3>2, <4>2, <5>1, PlacesAre DEF OwnedApart, Apart
      <4>3. ASSUME NEW c \in Buffer, q = <<"reserved", c>>
            PROVE  Storage!Blocks(p) \cap Storage!Blocks(q) = {}
        BY <1>2, <2>2, <3>2, <4>3, PlacesAre DEF OwnedApart, Apart
      <4> QED
        BY <4>1, <4>2, <4>3, PlaceCases
    <3>3. ASSUME NEW b \in Buffer, p = <<"reserved", b>>
          PROVE  Storage!Blocks(p) \cap Storage!Blocks(q) = {}
      <4>1. CASE q = <<"free">>
        <5>1. FreeBlocks \cap ReservedBlocks[b] = {}
          BY <1>2 DEF OwnedApart, Apart
        <5> QED
          BY <3>3, <4>1, <5>1, PlacesAre
      <4>2. ASSUME NEW c \in Buffer, q = <<"slices", c>>
            PROVE  Storage!Blocks(p) \cap Storage!Blocks(q) = {}
        <5>1. SliceBlocks[c] \cap ReservedBlocks[b] = {}
          BY <1>2 DEF OwnedApart, Apart
        <5> QED
          BY <3>3, <4>2, <5>1, PlacesAre
      <4>3. ASSUME NEW c \in Buffer, q = <<"reserved", c>>
            PROVE  Storage!Blocks(p) \cap Storage!Blocks(q) = {}
        <5>1. b # c
          BY <2>2, <3>3, <4>3
        <5>2. ReservedBlocks[b] \cap ReservedBlocks[c] = {}
          BY <1>2, <5>1 DEF OwnedApart, Apart
        <5> QED
          BY <3>3, <4>3, <5>2, PlacesAre
      <4> QED
        BY <4>1, <4>2, <4>3, PlaceCases
    <3> QED
      BY <3>1, <3>2, <3>3, PlaceCases
  <2> QED
    BY <1>2, <2>1, <2>2 DEF OwnedApart, Apart, Storage!MemoryHasOneOwner
<1> QED
  BY <1>1, <1>2

\* What is held is at one of the places.
LEMMA HeldIs ==
  Storage!Held = extracted \cup DOMAIN external \cup FreeBlocks
                   \cup UNION {SliceBlocks[b] \cup ReservedBlocks[b] : b \in Buffer}
<1> DEFINE U == UNION {Storage!Blocks(p) : p \in Storage!Places}
           V == FreeBlocks \cup UNION {SliceBlocks[b] \cup ReservedBlocks[b] : b \in Buffer}
<1>1. ASSUME NEW m \in U
      PROVE  m \in V
  <2>1. PICK p \in Storage!Places : m \in Storage!Blocks(p)
    OBVIOUS
  <2>2. CASE p = <<"free">>
    BY <2>1, <2>2, PlacesAre
  <2>3. ASSUME NEW b \in Buffer, p = <<"slices", b>> \/ p = <<"reserved", b>>
        PROVE  m \in V
    <3>1. m \in SliceBlocks[b] \cup ReservedBlocks[b]
      BY <2>1, <2>3, PlacesAre
    <3> QED
      BY <3>1
  <2> QED
    BY <2>2, <2>3, PlaceCases
<1>2. ASSUME NEW m \in V
      PROVE  m \in U
  <2>1. m \in FreeBlocks \/ \E b \in Buffer : m \in SliceBlocks[b] \/ m \in ReservedBlocks[b]
    OBVIOUS
  <2>2. \E p \in Storage!Places : m \in Storage!Blocks(p)
    BY <2>1, PlacesAre, ArePlaces
  <2> QED
    BY <2>2
<1>3. U = V
  BY <1>1, <1>2
<1> QED
  BY <1>3 DEF Storage!Held

\* The inductive invariant.
StorageInv == StorageTypes /\ OwnedApart /\ OwnersAgree

\* Blocks that are free, in slices or in the reservation of b, or new, can change their
\* place; a free or reserved block comes from neither a slice nor a caller.
LEMMA MovedApart ==
  ASSUME NEW F, NEW S, NEW R, NEW E, NEW X, NEW N, Apart(F, S, R, E, X), NEW b \in Buffer,
         NEW F2, NEW S2, NEW R2, DOMAIN S = Buffer, DOMAIN R = Buffer,
         N \cap (F \cup E \cup DOMAIN X) = {}, \A c \in Buffer : N \cap (S[c] \cup R[c]) = {},
         F2 \subseteq F \cup R[b] \cup N, R2 \subseteq F \cup R[b] \cup N,
         S2 \subseteq S[b] \cup R[b] \cup N,
         F2 \cap S2 = {}, F2 \cap R2 = {}, S2 \cap R2 = {}
  PROVE  Apart(F2, [S EXCEPT ![b] = S2], [R EXCEPT ![b] = R2], E, X)
<1> DEFINE S1 == [S EXCEPT ![b] = S2]
           R1 == [R EXCEPT ![b] = R2]
<1>1. /\ \A c \in Buffer : c # b => S1[c] = S[c] /\ R1[c] = R[c]
      /\ S1[b] = S2 /\ R1[b] = R2
  OBVIOUS
<1> HIDE DEF S1, R1
<1>2. F2 \cap E = {} /\ F2 \cap DOMAIN X = {} /\ E \cap DOMAIN X = {}
  BY DEF Apart
<1>3. ASSUME NEW c \in Buffer
      PROVE  /\ F2 \cap S1[c] = {} /\ F2 \cap R1[c] = {}
             /\ S1[c] \cap E = {} /\ R1[c] \cap E = {} /\ R1[c] \cap DOMAIN X = {}
             /\ \A m \in S1[c] \cap DOMAIN X : X[m] = "in buffer"
  <2>1. CASE c = b
    BY <1>1, <2>1 DEF Apart
  <2>2. CASE c # b
    <3>1. /\ F \cap S[c] = {} /\ F \cap R[c] = {} /\ S[c] \cap E = {} /\ R[c] \cap E = {}
          /\ R[c] \cap DOMAIN X = {} /\ \A m \in S[c] \cap DOMAIN X : X[m] = "in buffer"
          /\ R[b] \cap S[c] = {} /\ R[b] \cap R[c] = {} /\ N \cap (S[c] \cup R[c]) = {}
      BY <2>2 DEF Apart
    <3> QED
      BY <1>1, <2>2, <3>1
  <2> QED
    BY <2>1, <2>2
<1>4. ASSUME NEW c \in Buffer, NEW d \in Buffer
      PROVE  /\ S1[c] \cap R1[d] = {}
             /\ c # d => S1[c] \cap S1[d] = {} /\ R1[c] \cap R1[d] = {}
  <2>1. CASE c # b /\ d # b
    BY <1>1, <2>1 DEF Apart
  <2>2. \A e \in Buffer : e # b => /\ S2 \cap S[e] = {} /\ S2 \cap R[e] = {}
                                   /\ R2 \cap S[e] = {} /\ R2 \cap R[e] = {}
    <3> SUFFICES ASSUME NEW e \in Buffer, e # b
                 PROVE  /\ S2 \cap S[e] = {} /\ S2 \cap R[e] = {}
                        /\ R2 \cap S[e] = {} /\ R2 \cap R[e] = {}
      OBVIOUS
    <3>1. /\ S[b] \cap S[e] = {} /\ S[b] \cap R[e] = {} /\ R[b] \cap S[e] = {} /\ R[b] \cap R[e] = {}
          /\ F \cap S[e] = {} /\ F \cap R[e] = {} /\ N \cap (S[e] \cup R[e]) = {}
      BY DEF Apart
    <3> QED
      BY <3>1
  <2>3. CASE c = b /\ d = b
    BY <1>1, <2>3
  <2>4. CASE c = b /\ d # b
    BY <1>1, <2>2, <2>4
  <2>5. CASE c # b /\ d = b
    BY <1>1, <2>2, <2>5
  <2> QED
    BY <2>1, <2>3, <2>4, <2>5
<1>5. Apart(F2, S1, R1, E, X)
  BY <1>2, <1>3, <1>4 DEF Apart
<1> QED
  BY <1>5 DEF S1, R1

\* The slices, the reservation and the free list after a step of the buffer b.
Becomes(b, ss, r, list) ==
  /\ ss \in Seq(SliceType) /\ r \in ReservationType /\ list \in Seq(Block)
  /\ Len(r.raw) = Len(r.owned) /\ Len(list) <= MAX_SLICES
  /\ Storage!NoBlockTwice(MemsOf(ss)) /\ Storage!NoBlockTwice(r.owned)
  /\ Storage!NoBlockTwice(list)
  /\ slices' = [slices EXCEPT ![b] = ss]
  /\ reservation' = [reservation EXCEPT ![b] = r]
  /\ free_list' = list

\* The slices own their memory exactly if it is not of one of the callers X.
Owning(ss, X) == \A i \in DOMAIN ss : ss[i].releasor = "own" <=> ss[i].mem \notin X

\* The invariant holds again when the blocks are apart.
LEMMA InvAgain ==
  ASSUME StorageInv, NEW b \in Buffer, NEW ss, NEW r, NEW list, Becomes(b, ss, r, list),
         extracted' \subseteq Block, DOMAIN external' \subseteq Block,
         external' = [m \in DOMAIN external' |-> external'[m]],
         Apart(BlocksOf(list), [SliceBlocks EXCEPT ![b] = BlocksOf(MemsOf(ss))],
               [ReservedBlocks EXCEPT ![b] = BlocksOf(r.owned)], extracted', external'),
         Owning(ss, DOMAIN external'),
         \A c \in Buffer \ {b} : Owning(slices[c], DOMAIN external')
  PROVE  StorageInv'
<1>1. StorageTypes'
  BY DEF StorageInv, StorageTypes, Becomes
<1>2. /\ \A c \in Buffer : c # b => slices'[c] = slices[c] /\ reservation'[c] = reservation[c]
      /\ slices'[b] = ss /\ reservation'[b] = r /\ free_list' = list
  BY DEF StorageInv, StorageTypes, Becomes
<1>3. OwnersAgree'
  BY <1>2 DEF OwnersAgree, Owning
<1>4. NothingTwice'
  BY <1>2 DEF NothingTwice, StorageInv, OwnedApart, Becomes
<1>5. /\ FreeBlocks' = BlocksOf(list)
      /\ SliceBlocks' = [SliceBlocks EXCEPT ![b] = BlocksOf(MemsOf(ss))]
      /\ ReservedBlocks' = [ReservedBlocks EXCEPT ![b] = BlocksOf(r.owned)]
  BY <1>2 DEF FreeBlocks, SliceBlocks, ReservedBlocks
<1>6. Apart(FreeBlocks', SliceBlocks', ReservedBlocks', extracted', external')
  BY <1>5
<1>7. OwnedApart'
  BY <1>2, <1>4, <1>6 DEF OwnedApart, Becomes
<1> QED
  BY <1>1, <1>3, <1>7 DEF StorageInv

\* A step that moves blocks of b and takes new ones, but leaves callers alone.
LEMMA MoveStep ==
  ASSUME StorageInv, NEW b \in Buffer, NEW ss, NEW r, NEW list, Becomes(b, ss, r, list),
         UNCHANGED <<extracted, external>>, NEW N, N \cap Storage!Held = {},
         BlocksOf(list) \subseteq FreeBlocks \cup ReservedBlocks[b] \cup N,
         BlocksOf(r.owned) \subseteq FreeBlocks \cup ReservedBlocks[b] \cup N,
         BlocksOf(MemsOf(ss)) \subseteq SliceBlocks[b] \cup ReservedBlocks[b] \cup N,
         BlocksOf(list) \cap BlocksOf(MemsOf(ss)) = {}, BlocksOf(list) \cap BlocksOf(r.owned) = {},
         BlocksOf(MemsOf(ss)) \cap BlocksOf(r.owned) = {},
         Owning(ss, DOMAIN external)
  PROVE  StorageInv'
<1>1. Apart(FreeBlocks, SliceBlocks, ReservedBlocks, extracted, external)
  BY DEF StorageInv, OwnedApart
<1>2. /\ N \cap (FreeBlocks \cup extracted \cup DOMAIN external) = {}
      /\ \A c \in Buffer : N \cap (SliceBlocks[c] \cup ReservedBlocks[c]) = {}
  BY HeldIs
<1>3. DOMAIN SliceBlocks = Buffer /\ DOMAIN ReservedBlocks = Buffer
  BY DEF SliceBlocks, ReservedBlocks
<1>4. Apart(BlocksOf(list), [SliceBlocks EXCEPT ![b] = BlocksOf(MemsOf(ss))],
            [ReservedBlocks EXCEPT ![b] = BlocksOf(r.owned)], extracted, external)
  BY <1>1, <1>2, <1>3, MovedApart
<1>5. \A c \in Buffer \ {b} : Owning(slices[c], DOMAIN external)
  BY DEF StorageInv, OwnersAgree, Owning
<1>6. /\ extracted \subseteq Block /\ DOMAIN external \subseteq Block
      /\ external = [m \in DOMAIN external |-> external[m]]
  BY DEF StorageInv, StorageTypes
<1> QED
  BY <1>4, <1>5, <1>6, InvAgain

\* Every set of numbers has a smallest one.
LEMMA SmallestNumber ==
  ASSUME NEW S, S \subseteq Nat, S # {}
  PROVE  \E x \in S : \A y \in S : x <= y
<1> DEFINE R == OpToRel(<, Nat)
<1>1. PICK x \in S : \A y \in S : <<y, x>> \notin R
  <2>1. IsWellFoundedOn(R, Nat)
    BY NatLessThanWellFounded
  <2> HIDE DEF R
  <2> QED
    BY <2>1, WFMin
<1>2. \A y \in S : ~(y < x)
  BY <1>1 DEF OpToRel
<1> QED
  BY <1>2

\* A bounded set of numbers has a largest one.
LEMMA LargestNumber ==
  ASSUME NEW n \in Nat, NEW S, S \subseteq 0..n, S # {}
  PROVE  \E x \in S : \A y \in S : x >= y
<1> DEFINE T == {n - y : y \in S}
<1>1. T \subseteq Nat /\ T # {}
  <2>1. \A y \in S : n - y \in Nat
    OBVIOUS
  <2> QED
    BY <2>1
<1>2. PICK t \in T : \A u \in T : t <= u
  <2> HIDE DEF T
  <2> QED
    BY <1>1, SmallestNumber
<1>3. PICK x \in S : t = n - x
  OBVIOUS
<1>4. \A y \in S : x >= y
  <2>1. ASSUME NEW y \in S
        PROVE  x >= y
    <3>1. n - y \in T /\ x \in Int /\ y \in Int
      OBVIOUS
    <3>2. n - x <= n - y
      BY <1>2, <1>3, <3>1
    <3> QED
      BY <3>1, <3>2
  <2> QED
    BY <2>1
<1> QED
  BY <1>4

\* What reserveWithMaxLength() removes are slices at the end.
LEMMA WithoutEmptyIs ==
  ASSUME NEW ss \in Seq(SliceType), Storage!NoBlockTwice(MemsOf(ss))
  PROVE  LET tt == Storage!WithoutEmpty(ss) IN
         /\ tt \in Seq(SliceType) /\ Storage!NoBlockTwice(MemsOf(tt))
         /\ BlocksOf(MemsOf(tt)) \subseteq BlocksOf(MemsOf(ss))
         /\ \A X : Owning(ss, X) => Owning(tt, X)
<1> DEFINE n == Len(ss)
           S == {0} \cup {i \in DOMAIN ss : ss[i].used > 0}
           k == Storage!Max(S)
           tt == SubSeq(ss, 1, k)
<1>1. n \in Nat /\ DOMAIN ss = 1..n /\ S \subseteq 0..n /\ S # {}
  OBVIOUS
<1>2. k \in S
  <2>1. \E x \in S : \A y \in S : x >= y
    BY <1>1, LargestNumber
  <2> HIDE DEF S
  <2> QED
    BY <2>1 DEF Storage!Max
<1>3. k \in 0..n
  BY <1>1, <1>2
<1> HIDE DEF k, S
<1>4. /\ tt \in Seq(SliceType) /\ DOMAIN tt = 1..k /\ Len(tt) = k
      /\ \A i \in 1..k : tt[i] = ss[i] /\ i \in DOMAIN ss
  BY <1>1, <1>3
<1>5. Storage!WithoutEmpty(ss) = tt
  BY DEF Storage!WithoutEmpty, k, S
<1> HIDE DEF tt, n
<1>6. /\ DOMAIN MemsOf(tt) = 1..k
      /\ \A i \in 1..k : i \in DOMAIN MemsOf(ss) /\ MemsOf(tt)[i] = MemsOf(ss)[i]
  BY <1>4 DEF MemsOf
<1>7. Storage!NoBlockTwice(MemsOf(tt))
  BY <1>6 DEF Storage!NoBlockTwice
<1>8. BlocksOf(MemsOf(tt)) \subseteq BlocksOf(MemsOf(ss))
  BY <1>6 DEF BlocksOf
<1>9. \A X : Owning(ss, X) => Owning(tt, X)
  BY <1>4 DEF Owning
<1> QED
  BY <1>4, <1>5, <1>7, <1>8, <1>9

\* The number of blocks that reserveWithMaxLength() takes is at most the room there is.
LEMMA BlocksForIs ==
  ASSUME NEW reserved, NEW max_length, NEW room \in Nat
  PROVE  Storage!BlocksFor(reserved, max_length, room) \in 0..room
<1> DEFINE S == {n \in 0..room : ~Storage!GoesOn(n, reserved, max_length, room)}
<1>1. ~Storage!GoesOn(room, reserved, max_length, room) /\ room \in 0..room
  BY DEF Storage!GoesOn
<1>2. S \subseteq Nat /\ S # {} /\ S \subseteq 0..room
  BY <1>1
<1>3. Storage!BlocksFor(reserved, max_length, room) = Storage!Min(S)
  BY DEF Storage!BlocksFor
<1> HIDE DEF S
<1>4. \E x \in S : \A y \in S : x <= y
  BY <1>2, SmallestNumber
<1>5. Storage!Min(S) \in S
  BY <1>4 DEF Storage!Min
<1> QED
  BY <1>2, <1>3, <1>5

\* The space behind the bytes of the last slice is a number.
LEMMA ReservableIs ==
  ASSUME NEW ss \in Seq(SliceType)
  PROVE  Storage!Reservable(ss) \in Int
<1>1. CASE ss = <<>>
  BY <1>1 DEF Storage!Reservable
<1>2. CASE ss # <<>>
  <2>1. Len(ss) \in 1..Len(ss) /\ ss[Len(ss)] \in SliceType
    BY <1>2
  <2> QED
    BY <1>2, <2>1 DEF Storage!Reservable, Storage!Last, SliceType
<1> QED
  BY <1>1, <1>2

\* A buffer and its reservation before a step.
LEMMA BeforeStep ==
  ASSUME StorageInv, NEW b \in Buffer
  PROVE  /\ slices[b] \in Seq(SliceType) /\ Storage!NoBlockTwice(MemsOf(slices[b]))
         /\ Owning(slices[b], DOMAIN external)
         /\ reservation[b] \in ReservationType /\ Storage!NoBlockTwice(reservation[b].owned)
         /\ Len(reservation[b].raw) = Len(reservation[b].owned)
         /\ reservation[b].raw \in Seq(Int) /\ reservation[b].owned \in Seq(Memory)
         /\ free_list \in Seq(Block) /\ Storage!NoBlockTwice(free_list) /\ Len(free_list) <= MAX_SLICES
         /\ SliceBlocks[b] = BlocksOf(MemsOf(slices[b])) /\ ReservedBlocks[b] = BlocksOf(reservation[b].owned)
         /\ FreeBlocks \cap SliceBlocks[b] = {} /\ FreeBlocks \cap ReservedBlocks[b] = {}
         /\ SliceBlocks[b] \cap ReservedBlocks[b] = {}
<1>1. reservation[b] \in ReservationType
  BY DEF StorageInv, StorageTypes
<1>2. reservation[b].raw \in Seq(Int) /\ reservation[b].owned \in Seq(Memory)
  BY <1>1 DEF ReservationType
<1>3. /\ slices[b] \in Seq(SliceType) /\ Len(reservation[b].raw) = Len(reservation[b].owned)
      /\ free_list \in Seq(Block) /\ Owning(slices[b], DOMAIN external)
  BY DEF StorageInv, StorageTypes, OwnersAgree, Owning
<1>4. /\ Storage!NoBlockTwice(MemsOf(slices[b])) /\ Storage!NoBlockTwice(reservation[b].owned)
      /\ Storage!NoBlockTwice(free_list) /\ Len(free_list) <= MAX_SLICES
      /\ FreeBlocks \cap SliceBlocks[b] = {} /\ FreeBlocks \cap ReservedBlocks[b] = {}
      /\ SliceBlocks[b] \cap ReservedBlocks[b] = {}
  BY DEF StorageInv, OwnedApart, NothingTwice, Apart
<1> QED
  BY <1>1, <1>2, <1>3, <1>4 DEF SliceBlocks, ReservedBlocks

\* newStorage() of Slice returns a block that nobody holds.
LEMMA NewMemoryIs ==
  ASSUME Storage!StorageSizes, NEW n \in Nat, n >= 1, Storage!MemoryLeft(n)
  PROVE  Storage!NewMemory \in Block \ Storage!Held
<1>1. <<>> \in Seq(Block) /\ Len(<<>>) < n
  OBVIOUS
<1>2. Block \ (Storage!Held \cup Storage!ToSet(<<>>)) # {}
  BY <1>1, BlockIsLeft
<1> QED
  BY <1>2 DEF Storage!NewMemory

\* Slices with one more at the end.
LEMMA AppendedSlice ==
  ASSUME Storage!StorageSizes, NEW ss \in Seq(SliceType), NEW s \in SliceType,
         Storage!NoBlockTwice(MemsOf(ss)), s.mem \notin BlocksOf(MemsOf(ss))
  PROVE  LET tt == Append(ss, s) IN
         /\ tt \in Seq(SliceType) /\ Storage!NoBlockTwice(MemsOf(tt))
         /\ BlocksOf(MemsOf(tt)) = BlocksOf(MemsOf(ss)) \cup {s.mem}
         /\ \A X : Owning(ss, X) /\ (s.releasor = "own" <=> s.mem \notin X) => Owning(tt, X)
<1> DEFINE tt == Append(ss, s)
<1>1. MemsOf(tt) = Append(MemsOf(ss), s.mem) /\ MemsOf(ss) \in Seq(Memory)
  BY MemsAre
<1>2. s.mem \in Memory /\ s.mem # NULL
  BY DEF SliceType, Memory, Storage!StorageSizes
<1>3. /\ tt \in Seq(SliceType)
      /\ \A i \in DOMAIN tt : (i \in DOMAIN ss /\ tt[i] = ss[i]) \/ tt[i] = s
  <2>1. /\ Len(ss) \in Nat /\ DOMAIN ss = 1..Len(ss) /\ DOMAIN tt = 1..(Len(ss) + 1)
        /\ \A i \in 1..Len(ss) : tt[i] = ss[i]
        /\ tt[Len(ss) + 1] = s /\ tt \in Seq(SliceType)
    OBVIOUS
  <2> HIDE DEF tt
  <2> QED
    BY <2>1
<1> HIDE DEF tt
<1>4. Storage!NoBlockTwice(MemsOf(tt)) /\ BlocksOf(MemsOf(tt)) = BlocksOf(MemsOf(ss)) \cup {s.mem}
  BY <1>1, <1>2, AppendedBlock
<1>5. \A X : Owning(ss, X) /\ (s.releasor = "own" <=> s.mem \notin X) => Owning(tt, X)
  BY <1>3 DEF Owning
<1> QED
  BY <1>3, <1>4, <1>5 DEF tt

\* add() with a new slice.
LEMMA AddSliceStep ==
  ASSUME Storage!StorageSizes, StorageInv, NEW b \in Buffer, NEW n \in Fill, Storage!AddSlice(b, n)
  PROVE  StorageInv'
<1> DEFINE m == Storage!NewMemory
           s == Storage!NewSlice(m, n)
           ss == Append(slices[b], s)
           r == reservation[b]
           N == {m}
<1>1. m \in Block \ Storage!Held /\ m # NULL
  BY NewMemoryIs DEF Storage!AddSlice, Storage!StorageSizes
<1>2. s \in SliceType /\ s.mem = m /\ s.releasor = "own"
  BY <1>1 DEF Storage!NewSlice, SliceType, Storage!StorageSizes
<1>3. slices' = [slices EXCEPT ![b] = ss] /\ UNCHANGED <<reservation, free_list, extracted, external>>
  BY DEF Storage!AddSlice
<1> HIDE DEF m, s
<1>4. m \notin SliceBlocks[b] /\ m \notin FreeBlocks /\ m \notin ReservedBlocks[b] /\ m \notin DOMAIN external
  BY <1>1, HeldIs
<1>5. /\ ss \in Seq(SliceType) /\ Storage!NoBlockTwice(MemsOf(ss))
      /\ BlocksOf(MemsOf(ss)) = SliceBlocks[b] \cup {m}
      /\ Owning(ss, DOMAIN external)
  BY <1>2, <1>4, BeforeStep, AppendedSlice
<1> HIDE DEF ss
<1>6. Becomes(b, ss, r, free_list)
  BY <1>3, <1>5, BeforeStep DEF Becomes, StorageInv, StorageTypes
<1>7. N \cap Storage!Held = {}
  BY <1>1
<1>8. /\ BlocksOf(free_list) = FreeBlocks /\ BlocksOf(r.owned) = ReservedBlocks[b]
      /\ BlocksOf(MemsOf(ss)) = SliceBlocks[b] \cup N
  BY <1>5 DEF FreeBlocks, ReservedBlocks
<1>9. /\ FreeBlocks \cap BlocksOf(MemsOf(ss)) = {} /\ FreeBlocks \cap ReservedBlocks[b] = {}
      /\ BlocksOf(MemsOf(ss)) \cap ReservedBlocks[b] = {}
  BY <1>4, <1>5, BeforeStep
<1>10. UNCHANGED <<extracted, external>>
  BY <1>3
<1> HIDE DEF r, N
<1>11. /\ BlocksOf(free_list) \subseteq FreeBlocks \cup ReservedBlocks[b] \cup N
       /\ BlocksOf(r.owned) \subseteq FreeBlocks \cup ReservedBlocks[b] \cup N
       /\ BlocksOf(MemsOf(ss)) \subseteq SliceBlocks[b] \cup ReservedBlocks[b] \cup N
       /\ BlocksOf(free_list) \cap BlocksOf(MemsOf(ss)) = {} /\ BlocksOf(free_list) \cap BlocksOf(r.owned) = {}
       /\ BlocksOf(MemsOf(ss)) \cap BlocksOf(r.owned) = {}
  BY <1>8, <1>9
<1> QED
  BY <1>5, <1>6, <1>7, <1>10, <1>11, MoveStep

\* A reservation of several slices.
LEMMA ReserveStep ==
  ASSUME Storage!StorageSizes, StorageInv, NEW b \in Buffer, NEW max_length \in Request,
         Storage!Reserve(b, max_length)
  PROVE  StorageInv'
<1> DEFINE ss == Storage!WithoutEmpty(slices[b])
           reservable == Storage!Reservable(ss)
           tail == reservable >= max_length \/ reservable >= SliceBytes \div 8
           reserved == IF tail THEN Storage!Min({reservable, max_length}) ELSE 0
           first == IF tail THEN 1 ELSE 0
           n == Storage!BlocksFor(reserved, max_length, MAX_SLICES - first)
           taken == Storage!TakeStorages(n)
           raw == (IF tail THEN <<reserved>> ELSE <<>>) \o [i \in 1..n |-> SliceBytes]
           owned == (IF tail THEN <<NULL>> ELSE <<>>) \o taken.owned
           r == [kind |-> "multiple", wanted |-> max_length, raw |-> raw, owned |-> owned]
<1>1. /\ Storage!MemoryLeft(n)
      /\ slices' = [slices EXCEPT ![b] = ss]
      /\ free_list' = taken.list
      /\ reservation' = [reservation EXCEPT ![b] = r]
      /\ UNCHANGED <<extracted, external>>
      /\ reservation[b] = Storage!NoReservation
  BY DEF Storage!Reserve, Storage!Idle
<1>2. /\ ss \in Seq(SliceType) /\ Storage!NoBlockTwice(MemsOf(ss))
      /\ BlocksOf(MemsOf(ss)) \subseteq SliceBlocks[b]
      /\ Owning(ss, DOMAIN external)
  BY BeforeStep, WithoutEmptyIs
<1> HIDE DEF ss
<1>3. reservable \in Int /\ max_length \in Int
  <2>1. max_length \in Int
    BY DEF Storage!StorageSizes
  <2>2. reservable \in Int
    BY <1>2, ReservableIs
  <2> QED
    BY <2>1, <2>2
<1> HIDE DEF reservable, tail
<1>4. reserved \in Int
  <2>1. \A k, l \in Int : Storage!Min({k, l}) = IF k <= l THEN k ELSE l
    BY DEF Storage!Min
  <2> QED
    BY <1>3, <2>1
<1> HIDE DEF reserved
<1>5. MAX_SLICES - first \in Nat
  BY DEF Storage!StorageSizes
<1>6. n \in Nat
  BY <1>5, BlocksForIs
<1> HIDE DEF n
<1>7. Taken(taken, n)
  BY <1>1, <1>6, BeforeStep, TakenAll
<1> HIDE DEF taken
<1>8. /\ taken.owned \in Seq(Block) /\ taken.list \in Seq(Block) /\ Len(taken.owned) = n
      /\ taken.owned \in Seq(Memory)
  BY <1>7 DEF Taken, Memory
<1>9. /\ owned \in Seq(Memory) /\ BlocksOf(owned) = BlocksOf(taken.owned)
      /\ Storage!NoBlockTwice(owned) /\ raw \in Seq(Int) /\ Len(raw) = Len(owned)
  <2> DEFINE fill == [i \in 1..n |-> SliceBytes]
  <2>1. fill \in Seq(Int) /\ Len(fill) = n
    BY <1>6 DEF Storage!StorageSizes
  <2> HIDE DEF fill
  <2>2. CASE tail
    <3>1. <<NULL>> \in Seq(Memory) /\ <<reserved>> \in Seq(Int)
      BY <1>4 DEF Memory
    <3>2. /\ owned \in Seq(Memory) /\ raw \in Seq(Int) /\ Len(owned) = n + 1 /\ Len(raw) = n + 1
      BY <1>6, <1>8, <2>1, <2>2, <3>1 DEF fill
    <3>3. /\ DOMAIN owned = 1..(n + 1) /\ owned[1] = NULL
          /\ \A i \in 1..n : owned[i + 1] = taken.owned[i]
          /\ DOMAIN taken.owned = 1..n
      BY <1>6, <1>8, <2>2
    <3> HIDE DEF owned, raw
    <3>4. \A i \in 1..(n + 1) : i # 1 => i - 1 \in 1..n /\ i = (i - 1) + 1
      BY <1>6
    <3>5. \A i \in 1..n : i + 1 \in 1..(n + 1)
      BY <1>6
    <3>6. BlocksOf(owned) = BlocksOf(taken.owned)
      BY <3>3, <3>4, <3>5 DEF BlocksOf
    <3>7. Storage!NoBlockTwice(owned)
      <4> SUFFICES ASSUME NEW i \in DOMAIN owned, NEW j \in DOMAIN owned, owned[i] = owned[j],
                          owned[i] # NULL
                   PROVE  i = j
        BY DEF Storage!NoBlockTwice
      <4>1. i - 1 \in 1..n /\ j - 1 \in 1..n /\ i \in Int /\ j \in Int
        BY <3>3, <3>4
      <4>2. owned[i] = taken.owned[i - 1] /\ owned[j] = taken.owned[j - 1]
        BY <3>3, <3>4, <4>1
      <4>3. i - 1 = j - 1
        BY <1>7, <3>3, <4>1, <4>2 DEF Taken, Storage!NoBlockTwice
      <4> QED
        BY <4>1, <4>3
    <3> QED
      BY <3>2, <3>6, <3>7
  <2>3. CASE ~tail
    <3>1. owned = taken.owned /\ raw = fill
      BY <1>8, <2>1, <2>3 DEF fill
    <3> QED
      BY <1>7, <1>8, <2>1, <3>1 DEF Taken
  <2> QED
    BY <2>2, <2>3
<1> HIDE DEF owned, raw
<1>10. r \in ReservationType /\ r.raw = raw /\ r.owned = owned
  BY <1>3, <1>9 DEF ReservationType
<1> HIDE DEF r
<1>11. Becomes(b, ss, r, taken.list)
  <2>1. Len(taken.list) <= MAX_SLICES
    BY <1>7, <1>8, BeforeStep DEF Taken, Storage!StorageSizes
  <2> QED
    BY <1>1, <1>2, <1>7, <1>8, <1>9, <1>10, <2>1 DEF Becomes, Taken
<1> DEFINE N == Block \ Storage!Held
<1>12. N \cap Storage!Held = {} /\ N \cap SliceBlocks[b] = {}
  BY HeldIs
<1>13. /\ BlocksOf(taken.list) \subseteq FreeBlocks /\ BlocksOf(r.owned) \subseteq FreeBlocks \cup N
       /\ BlocksOf(taken.list) \cap BlocksOf(r.owned) = {}
  BY <1>7, <1>9, <1>10 DEF Taken, FreeBlocks
<1> HIDE DEF N
<1>14. /\ BlocksOf(taken.list) \cap BlocksOf(MemsOf(ss)) = {}
       /\ BlocksOf(MemsOf(ss)) \cap BlocksOf(r.owned) = {}
  BY <1>2, <1>12, <1>13, BeforeStep
<1> QED
  BY <1>1, <1>2, <1>11, <1>12, <1>13, <1>14, MoveStep

\* A reservation of a single slice.
LEMMA ReserveSingleSliceStep ==
  ASSUME Storage!StorageSizes, StorageInv, NEW b \in Buffer, NEW length \in Request,
         NEW separate_slice \in BOOLEAN, Storage!ReserveSingleSlice(b, length, separate_slice)
  PROVE  StorageInv'
<1> DEFINE ss == Storage!WithoutEmpty(slices[b])
           tail == ~separate_slice /\ Storage!Reservable(ss) >= length
           m == IF tail THEN NULL ELSE Storage!NewMemory
           r == Storage!SingleSlice(length, m)
           N == {m} \ {NULL}
<1>1. /\ slices' = [slices EXCEPT ![b] = ss] /\ Storage!MemoryLeft(1)
      /\ reservation' = [reservation EXCEPT ![b] = r]
      /\ UNCHANGED <<free_list, extracted, external>>
  BY DEF Storage!ReserveSingleSlice
<1>2. /\ ss \in Seq(SliceType) /\ Storage!NoBlockTwice(MemsOf(ss))
      /\ BlocksOf(MemsOf(ss)) \subseteq SliceBlocks[b]
      /\ Owning(ss, DOMAIN external)
  BY BeforeStep, WithoutEmptyIs
<1> HIDE DEF ss, tail
<1>3. Storage!NewMemory \in Block \ Storage!Held
  BY <1>1, NewMemoryIs
<1>4. m \in Memory /\ N \cap Storage!Held = {}
  BY <1>3 DEF Memory
<1> HIDE DEF m
<1>5. r.raw = <<length>> /\ r.owned = <<m>> /\ r \in ReservationType
  <2>1. length \in Int
    BY DEF Storage!StorageSizes
  <2>2. <<length>> \in Seq(Int) /\ <<m>> \in Seq(Memory)
    BY <1>4, <2>1
  <2> QED
    BY <2>1, <2>2 DEF Storage!SingleSlice, ReservationType
<1>6. BlocksOf(r.owned) = N /\ Storage!NoBlockTwice(r.owned) /\ Len(r.raw) = Len(r.owned)
  BY <1>5 DEF BlocksOf, Storage!NoBlockTwice
<1> HIDE DEF r
<1>7. Becomes(b, ss, r, free_list)
  BY <1>1, <1>2, <1>5, <1>6, BeforeStep DEF Becomes
<1> HIDE DEF N
<1>8. N \cap SliceBlocks[b] = {} /\ N \cap FreeBlocks = {}
  BY <1>4, HeldIs
<1>9. BlocksOf(free_list) = FreeBlocks /\ FreeBlocks \cap SliceBlocks[b] = {}
  BY BeforeStep DEF FreeBlocks
<1>10. /\ BlocksOf(free_list) \subseteq FreeBlocks \cup ReservedBlocks[b] \cup N
       /\ BlocksOf(r.owned) \subseteq FreeBlocks \cup ReservedBlocks[b] \cup N
       /\ BlocksOf(MemsOf(ss)) \subseteq SliceBlocks[b] \cup ReservedBlocks[b] \cup N
       /\ BlocksOf(free_list) \cap BlocksOf(MemsOf(ss)) = {} /\ BlocksOf(free_list) \cap BlocksOf(r.owned) = {}
       /\ BlocksOf(MemsOf(ss)) \cap BlocksOf(r.owned) = {}
  BY <1>2, <1>6, <1>8, <1>9
<1>11. UNCHANGED <<extracted, external>>
  BY <1>1
<1> QED
  BY <1>2, <1>4, <1>7, <1>10, <1>11, MoveStep

\* The storages that an owner gives back.
LEMMA GivenBack ==
  ASSUME Storage!StorageSizes, StorageInv, NEW left \in Seq(Memory), Storage!NoBlockTwice(left),
         BlocksOf(left) \cap FreeBlocks = {}
  PROVE  LET list == Storage!GiveBack(left) IN
         /\ list \in Seq(Block) /\ Storage!NoBlockTwice(list) /\ Len(list) <= MAX_SLICES
         /\ BlocksOf(list) \subseteq FreeBlocks \cup BlocksOf(left)
<1> DEFINE ms == Storage!Reverse(left)
           n == Len(left)
<1>1. n \in Nat /\ DOMAIN left = 1..n
  OBVIOUS
<1>2. /\ ms \in Seq(Memory) /\ DOMAIN ms = 1..n
      /\ \A i \in 1..n : ms[i] = left[n - i + 1]
  BY DEF Storage!Reverse
<1> HIDE DEF ms, n
<1>3. \A i \in 1..n : n - i + 1 \in 1..n /\ i = n - (n - i + 1) + 1
  BY <1>1
<1>4. BlocksOf(ms) = BlocksOf(left)
  BY <1>1, <1>2, <1>3 DEF BlocksOf
<1>5. Storage!NoBlockTwice(ms)
  <2> SUFFICES ASSUME NEW i \in 1..n, NEW j \in 1..n, ms[i] = ms[j], ms[i] # NULL
               PROVE  i = j
    BY <1>2 DEF Storage!NoBlockTwice
  <2>1. n - i + 1 = n - j + 1
    BY <1>1, <1>2, <1>3 DEF Storage!NoBlockTwice
  <2> QED
    BY <1>1, <2>1
<1>6. free_list \in Seq(Block) /\ Storage!NoBlockTwice(free_list) /\ Len(free_list) <= MAX_SLICES
  BY DEF StorageInv, StorageTypes, OwnedApart, NothingTwice
<1>7. BlocksOf(ms) \cap BlocksOf(free_list) = {}
  BY <1>4 DEF FreeBlocks
<1>8. Storage!GiveBack(left) = Recycling!Fold(free_list, ms)
  BY StorageFolds DEF ms
<1> QED
  BY <1>2, <1>4, <1>5, <1>6, <1>7, <1>8, RecycledAll DEF FreeBlocks

\* A reservation ends: the slices become ss, and the storages left are given back, or freed
\* with the reservation.
LEMMA ReservationEnds ==
  ASSUME Storage!StorageSizes, StorageInv, NEW b \in Buffer, NEW ss \in Seq(SliceType),
         Storage!NoBlockTwice(MemsOf(ss)), Owning(ss, DOMAIN external),
         NEW left \in Seq(Memory), Storage!NoBlockTwice(left),
         BlocksOf(left) \subseteq ReservedBlocks[b],
         BlocksOf(MemsOf(ss)) \subseteq SliceBlocks[b] \cup ReservedBlocks[b],
         BlocksOf(MemsOf(ss)) \cap BlocksOf(left) = {},
         slices' = [slices EXCEPT ![b] = ss],
         reservation' = [reservation EXCEPT ![b] = Storage!NoReservation],
         free_list' = Storage!GiveBack(left) \/ free_list' = free_list,
         UNCHANGED <<extracted, external>>
  PROVE  StorageInv'
<1> DEFINE r == Storage!NoReservation
           N == {}
<1>1. BlocksOf(left) \cap FreeBlocks = {}
  BY BeforeStep
<1>2. /\ free_list' \in Seq(Block) /\ Storage!NoBlockTwice(free_list') /\ Len(free_list') <= MAX_SLICES
      /\ BlocksOf(free_list') \subseteq FreeBlocks \cup BlocksOf(left)
  BY <1>1, BeforeStep, GivenBack DEF FreeBlocks
<1>3. r \in ReservationType /\ r.raw = <<>> /\ r.owned = <<>>
  BY DEF ReservationType, Storage!NoReservation
<1>4. BlocksOf(r.owned) = {} /\ Storage!NoBlockTwice(r.owned) /\ Len(r.raw) = Len(r.owned)
  BY <1>3 DEF BlocksOf, Storage!NoBlockTwice
<1> HIDE DEF r
<1> DEFINE list == free_list'
<1>5. Becomes(b, ss, r, list)
  BY <1>2, <1>3, <1>4 DEF Becomes, r
<1>6. /\ BlocksOf(list) \subseteq FreeBlocks \cup ReservedBlocks[b] \cup N
      /\ BlocksOf(r.owned) \subseteq FreeBlocks \cup ReservedBlocks[b] \cup N
      /\ BlocksOf(MemsOf(ss)) \subseteq SliceBlocks[b] \cup ReservedBlocks[b] \cup N
      /\ BlocksOf(list) \cap BlocksOf(r.owned) = {}
      /\ BlocksOf(MemsOf(ss)) \cap BlocksOf(r.owned) = {} /\ N \cap Storage!Held = {}
  BY <1>2, <1>4
<1>7. BlocksOf(list) \cap BlocksOf(MemsOf(ss)) = {}
  BY <1>2, BeforeStep
<1> HIDE DEF N, list
<1> QED
  BY <1>5, <1>6, <1>7, MoveStep

\* commit(): the storages that are filled become slices.
LEMMA CommitStep ==
  ASSUME Storage!StorageSizes, StorageInv, NEW b \in Buffer, NEW length \in Int,
         Storage!Commit(b, length)
  PROVE  StorageInv'
<1> DEFINE raw == reservation[b].raw
           owned == reservation[b].owned
           ps == [i \in DOMAIN raw |-> [len |-> raw[i], mem |-> owned[i]]]
           done == Storage!Placed(b, length)
<1>1. /\ slices' = [slices EXCEPT ![b] = done.slices]
      /\ free_list' = Storage!GiveBack(done.left) \/ free_list' = free_list
      /\ reservation' = [reservation EXCEPT ![b] = Storage!NoReservation]
      /\ UNCHANGED <<extracted, external>>
  BY DEF Storage!Commit, Storage!CommitSlices
<1>2. ps \in Seq(PieceType) /\ MemsOf(ps) = owned
  <2>1. /\ raw \in Seq(Int) /\ owned \in Seq(Memory) /\ Len(raw) = Len(owned)
    BY BeforeStep
  <2> HIDE DEF raw, owned
  <2>2. /\ Len(raw) \in Nat /\ DOMAIN raw = 1..Len(raw) /\ DOMAIN owned = 1..Len(raw)
        /\ \A i \in 1..Len(raw) : raw[i] \in Int /\ owned[i] \in Memory
        /\ owned = [i \in 1..Len(raw) |-> owned[i]]
    BY <2>1
  <2>3. \A i \in 1..Len(raw) : [len |-> raw[i], mem |-> owned[i]] \in PieceType
    BY <2>2 DEF PieceType
  <2>4. ps \in Seq(PieceType) /\ DOMAIN ps = 1..Len(raw)
    BY <2>2, <2>3
  <2>5. MemsOf(ps) = [i \in 1..Len(raw) |-> owned[i]]
    BY <2>2 DEF MemsOf
  <2> QED
    BY <2>2, <2>4, <2>5
<1>3. done = Placing!Fold([slices |-> slices[b], left |-> <<>>, remaining |-> length], ps)
  BY StorageFolds
<1> HIDE DEF ps, done
<1>4. BlocksOf(MemsOf(ps)) = ReservedBlocks[b] /\ Storage!NoBlockTwice(MemsOf(ps))
  BY <1>2, BeforeStep
<1>5. PlacedPart(done, slices[b], ps)
  <2>1. BlocksOf(MemsOf(ps)) \cap BlocksOf(MemsOf(slices[b])) = {}
    BY <1>4, BeforeStep
  <2>2. slices[b] \in Seq(SliceType) /\ Storage!NoBlockTwice(MemsOf(slices[b]))
    BY BeforeStep
  <2> QED
    BY <1>2, <1>3, <1>4, <2>1, <2>2, PlacedAll
<1> DEFINE ss == done.slices
           left == done.left
<1>6. /\ ss \in Seq(SliceType) /\ left \in Seq(Memory)
      /\ Storage!NoBlockTwice(MemsOf(ss)) /\ Storage!NoBlockTwice(left)
      /\ BlocksOf(MemsOf(ss)) \cap BlocksOf(left) = {}
      /\ BlocksOf(left) \subseteq ReservedBlocks[b]
      /\ \A i \in DOMAIN ss :
           \/ \E j \in DOMAIN slices[b] : /\ ss[i].mem = slices[b][j].mem
                                          /\ ss[i].releasor = slices[b][j].releasor
           \/ ss[i].mem \in ReservedBlocks[b] /\ ss[i].releasor = "own"
  BY <1>4, <1>5 DEF PlacedPart
<1> HIDE DEF ss, left
<1>7. BlocksOf(MemsOf(ss)) \subseteq SliceBlocks[b] \cup ReservedBlocks[b]
  <2>1. ASSUME NEW m \in BlocksOf(MemsOf(ss))
        PROVE  m \in SliceBlocks[b] \cup ReservedBlocks[b]
    <3>1. PICK i \in DOMAIN ss : m = ss[i].mem /\ m # NULL
      BY DEF BlocksOf, MemsOf
    <3>2. ASSUME NEW j \in DOMAIN slices[b], m = slices[b][j].mem
          PROVE  m \in BlocksOf(MemsOf(slices[b]))
      BY <3>1, <3>2 DEF BlocksOf, MemsOf
    <3> QED
      BY <1>6, <3>1, <3>2, BeforeStep
  <2> QED
    BY <2>1
<1>8. Owning(ss, DOMAIN external)
  <2>1. ReservedBlocks[b] \cap DOMAIN external = {}
    BY DEF StorageInv, OwnedApart, Apart
  <2> QED
    BY <1>6, <2>1, BeforeStep DEF Owning
<1>9. /\ slices' = [slices EXCEPT ![b] = ss]
      /\ free_list' = Storage!GiveBack(left) \/ free_list' = free_list
  BY <1>1 DEF ss, left
<1> QED
  BY <1>1, <1>6, <1>7, <1>8, <1>9, ReservationEnds

\* A reservation that is not committed.
LEMMA DiscardStep ==
  ASSUME Storage!StorageSizes, StorageInv, NEW b \in Buffer, Storage!Discard(b)
  PROVE  StorageInv'
<1> DEFINE ss == slices[b]
           left == reservation[b].owned
<1>1. slices' = [slices EXCEPT ![b] = ss]
  BY DEF Storage!Discard, StorageInv, StorageTypes
<1>2. /\ free_list' = Storage!GiveBack(left) \/ free_list' = free_list
      /\ reservation' = [reservation EXCEPT ![b] = Storage!NoReservation]
      /\ UNCHANGED <<extracted, external>>
  BY DEF Storage!Discard
<1>3. /\ ss \in Seq(SliceType) /\ Storage!NoBlockTwice(MemsOf(ss)) /\ Owning(ss, DOMAIN external)
      /\ left \in Seq(Memory) /\ Storage!NoBlockTwice(left)
      /\ BlocksOf(left) = ReservedBlocks[b] /\ BlocksOf(MemsOf(ss)) = SliceBlocks[b]
      /\ SliceBlocks[b] \cap ReservedBlocks[b] = {}
  BY BeforeStep
<1> HIDE DEF ss, left
<1>4. /\ BlocksOf(left) \subseteq ReservedBlocks[b]
      /\ BlocksOf(MemsOf(ss)) \subseteq SliceBlocks[b] \cup ReservedBlocks[b]
      /\ BlocksOf(MemsOf(ss)) \cap BlocksOf(left) = {}
  BY <1>3
<1> QED
  BY <1>1, <1>2, <1>3, <1>4, ReservationEnds

\* The first slice of a buffer leaves it.
LEMMA WithoutFront ==
  ASSUME Storage!StorageSizes, NEW ss \in Seq(SliceType), ss # <<>>,
         Storage!NoBlockTwice(MemsOf(ss))
  PROVE  LET tt == Tail(ss)
             s == Head(ss)
         IN  /\ tt \in Seq(SliceType) /\ Storage!NoBlockTwice(MemsOf(tt))
             /\ s \in SliceType /\ s.mem \in Block /\ s.mem \in BlocksOf(MemsOf(ss))
             /\ BlocksOf(MemsOf(tt)) \subseteq BlocksOf(MemsOf(ss)) \ {s.mem}
             /\ \A X : Owning(ss, X) => /\ s.releasor = "own" <=> s.mem \notin X
                                        /\ Owning(tt, X)
<1> DEFINE tt == Tail(ss)
           s == Head(ss)
           n == Len(ss)
<1>1. /\ n \in Nat \ {0} /\ DOMAIN ss = 1..n /\ s = ss[1]
      /\ tt \in Seq(SliceType) /\ DOMAIN tt = 1..(n - 1) /\ s \in SliceType
      /\ \A i \in 1..(n - 1) : tt[i] = ss[i + 1]
  OBVIOUS
<1>2. \A i \in 1..(n - 1) : i + 1 \in 1..n /\ i + 1 # 1 /\ i \in Int
  BY <1>1
<1>3. 1 \in 1..n
  BY <1>1
<1>4. s.mem \in Block /\ NULL \notin Block
  BY <1>1 DEF SliceType, Storage!StorageSizes
<1> HIDE DEF tt, s, n
<1>5. \A i, j \in 1..n : ss[i].mem = ss[j].mem /\ ss[i].mem # NULL => i = j
  BY <1>1 DEF MemsOf, Storage!NoBlockTwice
<1>6. Storage!NoBlockTwice(MemsOf(tt))
  <2> SUFFICES ASSUME NEW i \in 1..(n - 1), NEW j \in 1..(n - 1), tt[i].mem = tt[j].mem, tt[i].mem # NULL
               PROVE  i = j
    BY <1>1 DEF MemsOf, Storage!NoBlockTwice
  <2>1. i + 1 = j + 1
    BY <1>1, <1>2, <1>5
  <2> QED
    BY <1>2, <2>1
<1>7. s.mem \in BlocksOf(MemsOf(ss))
  BY <1>1, <1>3, <1>4 DEF BlocksOf, MemsOf
<1>8. BlocksOf(MemsOf(tt)) \subseteq BlocksOf(MemsOf(ss)) \ {s.mem}
  <2> SUFFICES ASSUME NEW m \in BlocksOf(MemsOf(tt))
               PROVE  m \in BlocksOf(MemsOf(ss)) /\ m # s.mem
    OBVIOUS
  <2>1. PICK i \in 1..(n - 1) : m = tt[i].mem /\ m # NULL
    BY <1>1 DEF BlocksOf, MemsOf
  <2>2. m = ss[i + 1].mem /\ i + 1 \in 1..n
    BY <1>1, <1>2, <2>1
  <2>3. m \in BlocksOf(MemsOf(ss))
    BY <1>1, <2>1, <2>2 DEF BlocksOf, MemsOf
  <2>4. m # s.mem
    BY <1>1, <1>2, <1>3, <1>5, <2>1, <2>2
  <2> QED
    BY <2>3, <2>4
<1>9. \A X : Owning(ss, X) => (s.releasor = "own" <=> s.mem \notin X) /\ Owning(tt, X)
  BY <1>1, <1>2, <1>3 DEF Owning
<1> QED
  BY <1>1, <1>4, <1>6, <1>7, <1>8, <1>9 DEF tt, s

\* The first slice of b goes: its memory m is freed, extracted, or left to the caller, and
\* other callers are left alone.
LEMMA FrontGone ==
  ASSUME Storage!StorageSizes, StorageInv, NEW b \in Buffer, slices[b] # <<>>,
         slices' = [slices EXCEPT ![b] = Tail(slices[b])], UNCHANGED <<reservation, free_list>>,
         NEW m, m = Head(slices[b]).mem,
         \A k : k # m => /\ k \in DOMAIN external <=> k \in DOMAIN external'
                         /\ k \in DOMAIN external => external'[k] = external[k],
         m \in DOMAIN external' => m \in DOMAIN external,
         external' = [k \in DOMAIN external' |-> external'[k]],
         \A k \in extracted' :
            k \in extracted \/ k \in Block \ Storage!Held \/ (k = m /\ m \notin DOMAIN external')
  PROVE  StorageInv'
<1> DEFINE ss == slices[b]
           tt == Tail(ss)
           r == reservation[b]
           S2 == BlocksOf(MemsOf(tt))
           S1 == [SliceBlocks EXCEPT ![b] = S2]
<1>1. /\ tt \in Seq(SliceType) /\ Storage!NoBlockTwice(MemsOf(tt))
      /\ m \in Block /\ m \in SliceBlocks[b]
      /\ S2 \subseteq SliceBlocks[b] \ {m}
      /\ \A X : Owning(ss, X) => Owning(tt, X)
  <2>1. ss \in Seq(SliceType) /\ Storage!NoBlockTwice(MemsOf(ss)) /\ SliceBlocks[b] = BlocksOf(MemsOf(ss))
    BY BeforeStep
  <2> QED
    BY <2>1, WithoutFront
<1> HIDE DEF tt
<1>2. Becomes(b, tt, r, free_list)
  <2>1. reservation = [reservation EXCEPT ![b] = r]
    BY DEF StorageInv, StorageTypes
  <2> QED
    BY <1>1, <2>1, BeforeStep DEF Becomes, tt
<1>3. Apart(FreeBlocks, SliceBlocks, ReservedBlocks, extracted, external)
  BY DEF StorageInv, OwnedApart
<1>4. \A k \in Block \ Storage!Held :
        /\ k \notin FreeBlocks /\ k \notin DOMAIN external /\ k \notin extracted
        /\ \A c \in Buffer : k \notin SliceBlocks[c] /\ k \notin ReservedBlocks[c]
  BY HeldIs
<1>5. /\ \A c \in Buffer : c # b => S1[c] = SliceBlocks[c]
      /\ S1[b] = S2 /\ DOMAIN SliceBlocks = Buffer
  BY DEF SliceBlocks
<1>6. \A c \in Buffer : S1[c] \subseteq SliceBlocks[c] /\ m \notin S1[c]
  <2>1. ASSUME NEW c \in Buffer, c # b
        PROVE  m \notin SliceBlocks[c]
    BY <1>1, <1>3, <2>1 DEF Apart
  <2> QED
    BY <1>1, <1>5, <2>1
<1>7. /\ m \notin FreeBlocks /\ m \notin extracted /\ \A c \in Buffer : m \notin ReservedBlocks[c]
  <2>1. /\ FreeBlocks \cap SliceBlocks[b] = {} /\ SliceBlocks[b] \cap extracted = {}
        /\ \A c \in Buffer : SliceBlocks[b] \cap ReservedBlocks[c] = {}
    BY <1>3 DEF Apart
  <2> QED
    BY <1>1, <2>1
<1> HIDE DEF S1, S2
<1>8. Apart(FreeBlocks, S1, ReservedBlocks, extracted', external')
  <2>1. \A k \in DOMAIN external' : k \in DOMAIN external
    OBVIOUS
  <2>2. FreeBlocks \cap extracted' = {} /\ FreeBlocks \cap DOMAIN external' = {}
    <3>1. FreeBlocks \cap extracted = {} /\ FreeBlocks \cap DOMAIN external = {}
      BY <1>3 DEF Apart
    <3>2. ASSUME NEW k \in FreeBlocks
          PROVE  k \notin extracted' /\ k \notin DOMAIN external'
      <4>1. k # m /\ k \notin Block \ Storage!Held /\ k \notin extracted
        BY <1>4, <1>7, <3>1
      <4> QED
        BY <2>1, <3>1, <4>1
    <3> QED
      BY <3>2
  <2>3. extracted' \cap DOMAIN external' = {}
    <3>1. extracted \cap DOMAIN external = {}
      BY <1>3 DEF Apart
    <3>2. ASSUME NEW k \in extracted', k \in DOMAIN external'
          PROVE  FALSE
      <4>1. k \in DOMAIN external
        BY <2>1, <3>2
      <4>2. k \notin extracted /\ k \notin Block \ Storage!Held
        BY <1>4, <3>1, <4>1
      <4> QED
        BY <3>2, <4>2
    <3> QED
      BY <3>2
  <2>4. ASSUME NEW c \in Buffer
        PROVE  /\ FreeBlocks \cap S1[c] = {} /\ FreeBlocks \cap ReservedBlocks[c] = {}
               /\ S1[c] \cap extracted' = {} /\ ReservedBlocks[c] \cap extracted' = {}
               /\ ReservedBlocks[c] \cap DOMAIN external' = {}
               /\ \A k \in S1[c] \cap DOMAIN external' : external'[k] = "in buffer"
    <3>1. /\ FreeBlocks \cap SliceBlocks[c] = {} /\ FreeBlocks \cap ReservedBlocks[c] = {}
          /\ SliceBlocks[c] \cap extracted = {} /\ ReservedBlocks[c] \cap extracted = {}
          /\ ReservedBlocks[c] \cap DOMAIN external = {}
          /\ \A k \in SliceBlocks[c] \cap DOMAIN external : external[k] = "in buffer"
      BY <1>3 DEF Apart
    <3>2. S1[c] \subseteq SliceBlocks[c] /\ m \notin S1[c] /\ m \notin ReservedBlocks[c]
      BY <1>6, <1>7
    <3>3. \A k \in Block \ Storage!Held : k \notin SliceBlocks[c] /\ k \notin ReservedBlocks[c]
      BY <1>4
    <3>4. ASSUME NEW k \in SliceBlocks[c] \cup ReservedBlocks[c], k # m
          PROVE  k \notin extracted'
      <4>1. k \notin extracted /\ k \notin Block \ Storage!Held
        BY <3>1, <3>3
      <4> QED
        BY <3>4, <4>1
    <3>5. \A k \in S1[c] \cap DOMAIN external' : external'[k] = "in buffer"
      <4> SUFFICES ASSUME NEW k \in S1[c], k \in DOMAIN external'
                   PROVE  external'[k] = "in buffer"
        OBVIOUS
      <4>1. k # m /\ k \in SliceBlocks[c] /\ k \in DOMAIN external
        BY <2>1, <3>2
      <4> QED
        BY <3>1, <4>1
    <3>6. S1[c] \cap extracted' = {} /\ ReservedBlocks[c] \cap extracted' = {}
      BY <3>2, <3>4
    <3>7. FreeBlocks \cap S1[c] = {} /\ ReservedBlocks[c] \cap DOMAIN external' = {}
      BY <2>1, <3>1, <3>2
    <3> QED
      BY <3>1, <3>5, <3>6, <3>7
  <2>5. ASSUME NEW c \in Buffer, NEW d \in Buffer
        PROVE  /\ S1[c] \cap ReservedBlocks[d] = {}
               /\ c # d => S1[c] \cap S1[d] = {} /\ ReservedBlocks[c] \cap ReservedBlocks[d] = {}
    <3>1. /\ SliceBlocks[c] \cap ReservedBlocks[d] = {}
          /\ c # d => /\ SliceBlocks[c] \cap SliceBlocks[d] = {}
                      /\ ReservedBlocks[c] \cap ReservedBlocks[d] = {}
      BY <1>3 DEF Apart
    <3> QED
      BY <1>6, <3>1
  <2> QED
    BY <2>2, <2>3, <2>4, <2>5 DEF Apart
<1>9. ASSUME NEW c \in Buffer, NEW uu \in Seq(SliceType), Owning(uu, DOMAIN external),
             BlocksOf(MemsOf(uu)) = S1[c]
      PROVE  Owning(uu, DOMAIN external')
  <2> SUFFICES ASSUME NEW i \in DOMAIN uu
               PROVE  uu[i].releasor = "own" <=> uu[i].mem \notin DOMAIN external'
    BY DEF Owning
  <2>1. uu[i] \in SliceType
    OBVIOUS
  <2>2. uu[i].mem # NULL
    BY <2>1 DEF SliceType, Storage!StorageSizes
  <2>3. uu[i].mem \in S1[c]
    BY <1>9, <2>2 DEF BlocksOf, MemsOf
  <2>4. uu[i].mem # m
    BY <1>6, <2>3
  <2> QED
    BY <1>9, <2>4 DEF Owning
<1>10. Owning(tt, DOMAIN external')
  <2>1. Owning(tt, DOMAIN external)
    BY <1>1, BeforeStep
  <2> QED
    BY <1>1, <1>5, <1>9, <2>1 DEF S2
<1>11. \A c \in Buffer \ {b} : Owning(slices[c], DOMAIN external')
  <2> SUFFICES ASSUME NEW c \in Buffer, c # b
               PROVE  Owning(slices[c], DOMAIN external')
    OBVIOUS
  <2>1. slices[c] \in Seq(SliceType) /\ Owning(slices[c], DOMAIN external)
        /\ SliceBlocks[c] = BlocksOf(MemsOf(slices[c]))
    BY BeforeStep
  <2> QED
    BY <1>5, <1>9, <2>1
<1>12. extracted' \subseteq Block /\ DOMAIN external' \subseteq Block
  BY <1>1 DEF StorageInv, StorageTypes
<1>13. Apart(BlocksOf(free_list), [SliceBlocks EXCEPT ![b] = BlocksOf(MemsOf(tt))],
             [ReservedBlocks EXCEPT ![b] = BlocksOf(r.owned)], extracted', external')
  <2>1. [ReservedBlocks EXCEPT ![b] = BlocksOf(r.owned)] = ReservedBlocks
    BY DEF ReservedBlocks
  <2> QED
    BY <1>8, <2>1 DEF FreeBlocks, S1, S2
<1> HIDE DEF r
<1> QED
  BY <1>2, <1>10, <1>11, <1>12, <1>13, InvAgain

\* The destructor of a slice, for the block that it holds and no other.
LEMMA SliceDestroyed ==
  ASSUME StorageInv, NEW s, s.releasor = "own" <=> s.mem \notin DOMAIN external,
         Storage!DestroySlice(s)
  PROVE  /\ \A k : k # s.mem => /\ k \in DOMAIN external <=> k \in DOMAIN external'
                                /\ k \in DOMAIN external => external'[k] = external[k]
         /\ s.mem \in DOMAIN external' => s.mem \in DOMAIN external
         /\ external' = [k \in DOMAIN external' |-> external'[k]]
<1>1. external = [k \in DOMAIN external |-> external[k]]
  BY DEF StorageInv, StorageTypes
<1>2. CASE s.releasor = "own"
  BY <1>1, <1>2 DEF Storage!DestroySlice
<1>3. CASE s.releasor = "given"
  BY <1>1, <1>3 DEF Storage!DestroySlice, Storage!Done
<1>4. CASE s.releasor \notin {"own", "given"}
  <2>1. external' = [external EXCEPT ![s.mem] = "kept"]
    BY <1>4 DEF Storage!DestroySlice, Storage!Done
  <2> QED
    BY <1>1, <2>1
<1> QED
  BY <1>2, <1>3, <1>4

\* drain() of a whole slice.
LEMMA DrainFrontStep ==
  ASSUME Storage!StorageSizes, StorageInv, NEW b \in Buffer, Storage!DrainFront(b)
  PROVE  StorageInv'
<1> DEFINE s == Head(slices[b])
           m == s.mem
<1>1. /\ slices[b] # <<>> /\ slices' = [slices EXCEPT ![b] = Tail(slices[b])]
      /\ UNCHANGED <<reservation, free_list>> /\ extracted' = extracted
      /\ Storage!DestroySlice(s)
  BY DEF Storage!DrainFront
<1>2. s.releasor = "own" <=> s.mem \notin DOMAIN external
  BY <1>1, BeforeStep, WithoutFront
<1>3. /\ \A k : k # m => /\ k \in DOMAIN external <=> k \in DOMAIN external'
                         /\ k \in DOMAIN external => external'[k] = external[k]
      /\ m \in DOMAIN external' => m \in DOMAIN external
      /\ external' = [k \in DOMAIN external' |-> external'[k]]
  <2> HIDE DEF s
  <2> QED
    BY <1>1, <1>2, SliceDestroyed
<1>4. m = Head(slices[b]).mem
  OBVIOUS
<1>5. \A k \in extracted' :
        k \in extracted \/ k \in Block \ Storage!Held \/ (k = m /\ m \notin DOMAIN external')
  BY <1>1
<1> HIDE DEF s, m
<1> QED
  BY <1>1, <1>3, <1>4, <1>5, FrontGone

\* extractMutableFrontSlice().
LEMMA ExtractStep ==
  ASSUME Storage!StorageSizes, StorageInv, NEW b \in Buffer, Storage!ExtractMutableFrontSlice(b)
  PROVE  StorageInv'
<1> DEFINE s == Head(slices[b])
           m == s.mem
<1>1. /\ slices[b] # <<>> /\ slices' = [slices EXCEPT ![b] = Tail(slices[b])]
      /\ UNCHANGED <<reservation, free_list>> /\ Storage!MemoryLeft(1)
  BY DEF Storage!ExtractMutableFrontSlice
<1>2. s.releasor = "own" <=> s.mem \notin DOMAIN external
  BY <1>1, BeforeStep, WithoutFront
<1>3. Storage!NewMemory \in Block \ Storage!Held
  BY <1>1, NewMemoryIs
<1>4. /\ Storage!DestroySlice(s)
      /\ \A k \in extracted' :
           k \in extracted \/ k \in Block \ Storage!Held \/ (k = m /\ m \notin DOMAIN external')
  <2>1. CASE s.releasor = "own"
    <3>1. extracted' = extracted \cup {m} /\ external' = external
      BY <2>1 DEF Storage!ExtractMutableFrontSlice, Storage!IsMutable
    <3> HIDE DEF s
    <3> QED
      BY <1>2, <2>1, <3>1 DEF Storage!DestroySlice
  <2>2. CASE s.releasor # "own"
    <3>1. extracted' = extracted \cup {Storage!NewMemory} /\ Storage!DestroySlice(s)
      BY <2>2 DEF Storage!ExtractMutableFrontSlice, Storage!IsMutable
    <3>2. \A k \in extracted' : k \in extracted \/ k \in Block \ Storage!Held
      BY <1>3, <3>1
    <3> HIDE DEF s
    <3> QED
      BY <3>1, <3>2
  <2> QED
    BY <2>1, <2>2
<1>5. /\ \A k : k # m => /\ k \in DOMAIN external <=> k \in DOMAIN external'
                         /\ k \in DOMAIN external => external'[k] = external[k]
      /\ m \in DOMAIN external' => m \in DOMAIN external
      /\ external' = [k \in DOMAIN external' |-> external'[k]]
  <2> HIDE DEF s
  <2> QED
    BY <1>2, <1>4, SliceDestroyed
<1>6. m = Head(slices[b]).mem
  OBVIOUS
<1> HIDE DEF s, m
<1> QED
  BY <1>1, <1>4, <1>5, <1>6, FrontGone

\* A step of callers alone.
LEMMA CallerStep ==
  ASSUME Storage!StorageSizes, StorageInv, UNCHANGED <<slices, reservation, free_list>>,
         extracted' \subseteq Block, DOMAIN external' \subseteq Block,
         external' = [m \in DOMAIN external' |-> external'[m]],
         Apart(FreeBlocks, SliceBlocks, ReservedBlocks, extracted', external'),
         \A b \in Buffer : \A m \in SliceBlocks[b] : m \in DOMAIN external <=> m \in DOMAIN external'
  PROVE  StorageInv'
<1>1. StorageTypes'
  BY DEF StorageInv, StorageTypes
<1>2. /\ FreeBlocks' = FreeBlocks /\ SliceBlocks' = SliceBlocks /\ ReservedBlocks' = ReservedBlocks
      /\ NothingTwice'
  BY DEF FreeBlocks, SliceBlocks, ReservedBlocks, NothingTwice, StorageInv, OwnedApart
<1>3. OwnedApart'
  BY <1>2 DEF StorageInv, OwnedApart
<1>4. OwnersAgree'
  <2> SUFFICES ASSUME NEW b \in Buffer, NEW i \in DOMAIN slices[b]
               PROVE  slices[b][i].releasor = "own" <=> slices[b][i].mem \notin DOMAIN external'
    BY DEF OwnersAgree
  <2>1. slices[b] \in Seq(SliceType)
    BY BeforeStep
  <2>2. slices[b][i] \in SliceType
    BY <2>1
  <2>3. slices[b][i].mem # NULL
    BY <2>2 DEF SliceType, Storage!StorageSizes
  <2>4. slices[b][i].mem \in SliceBlocks[b]
    BY <2>3 DEF SliceBlocks, BlocksOf, MemsOf
  <2> QED
    BY <2>4 DEF StorageInv, OwnersAgree
<1> QED
  BY <1>1, <1>3, <1>4 DEF StorageInv

\* The blocks of callers and extracted blocks before a step.
LEMMA BeforeCaller ==
  ASSUME StorageInv
  PROVE  /\ Apart(FreeBlocks, SliceBlocks, ReservedBlocks, extracted, external)
         /\ extracted \subseteq Block /\ DOMAIN external \subseteq Block
         /\ external = [m \in DOMAIN external |-> external[m]]
BY DEF StorageInv, StorageTypes, OwnedApart

\* A fragment that is not in a buffer is in no slice.
LEMMA NotInSlices ==
  ASSUME StorageInv, NEW m \in DOMAIN external, external[m] # "in buffer"
  PROVE  \A b \in Buffer : m \notin SliceBlocks[b]
BY BeforeCaller DEF Apart

\* A caller makes a fragment.
LEMMA MakeFragmentStep ==
  ASSUME Storage!StorageSizes, StorageInv, Storage!MakeFragment
  PROVE  StorageInv'
<1> DEFINE n == Storage!NewMemory
<1>1. n \in Block \ Storage!Held
  BY NewMemoryIs DEF Storage!MakeFragment
<1>2. /\ external' = [m \in DOMAIN external \cup {n} |-> IF m = n THEN "made" ELSE external[m]]
      /\ UNCHANGED <<slices, reservation, free_list, extracted>>
  BY DEF Storage!MakeFragment
<1> HIDE DEF n
<1>3. /\ n \notin FreeBlocks /\ n \notin extracted /\ n \notin DOMAIN external
      /\ \A b \in Buffer : n \notin SliceBlocks[b] /\ n \notin ReservedBlocks[b]
  BY <1>1, HeldIs
<1>4. /\ DOMAIN external' = DOMAIN external \cup {n}
      /\ \A m \in DOMAIN external : external'[m] = external[m]
      /\ external' = [m \in DOMAIN external' |-> external'[m]]
  BY <1>2, <1>3
<1>5. Apart(FreeBlocks, SliceBlocks, ReservedBlocks, extracted', external')
  <2>1. /\ FreeBlocks \cap extracted' = {} /\ FreeBlocks \cap DOMAIN external' = {}
        /\ extracted' \cap DOMAIN external' = {}
    <3>1. /\ FreeBlocks \cap extracted = {} /\ FreeBlocks \cap DOMAIN external = {}
          /\ extracted \cap DOMAIN external = {} /\ extracted' = extracted
      BY <1>2, BeforeCaller DEF Apart
    <3> QED
      BY <1>3, <1>4, <3>1
  <2>2. ASSUME NEW b \in Buffer
        PROVE  /\ SliceBlocks[b] \cap extracted' = {} /\ ReservedBlocks[b] \cap extracted' = {}
               /\ ReservedBlocks[b] \cap DOMAIN external' = {}
               /\ \A m \in SliceBlocks[b] \cap DOMAIN external' : external'[m] = "in buffer"
    <3>1. /\ SliceBlocks[b] \cap extracted = {} /\ ReservedBlocks[b] \cap extracted = {}
          /\ ReservedBlocks[b] \cap DOMAIN external = {} /\ extracted' = extracted
          /\ \A m \in SliceBlocks[b] \cap DOMAIN external : external[m] = "in buffer"
      BY <1>2, BeforeCaller DEF Apart
    <3>2. n \notin SliceBlocks[b] /\ n \notin ReservedBlocks[b]
      BY <1>3
    <3> QED
      BY <1>4, <3>1, <3>2
  <2> QED
    BY <2>1, <2>2, BeforeCaller DEF Apart
<1>6. extracted' \subseteq Block /\ DOMAIN external' \subseteq Block
  BY <1>1, <1>2, <1>4, BeforeCaller
<1>7. \A b \in Buffer : \A m \in SliceBlocks[b] : m \in DOMAIN external <=> m \in DOMAIN external'
  BY <1>3, <1>4
<1> QED
  BY <1>2, <1>4, <1>5, <1>6, <1>7, CallerStep

\* A caller deletes a fragment that it kept.
LEMMA DeleteKeptStep ==
  ASSUME Storage!StorageSizes, StorageInv, NEW m \in DOMAIN external, Storage!DeleteKept(m)
  PROVE  StorageInv'
<1>1. /\ external' = [k \in DOMAIN external \ {m} |-> external[k]]
      /\ UNCHANGED <<slices, reservation, free_list, extracted>> /\ external[m] = "kept"
  BY DEF Storage!DeleteKept
<1>2. \A b \in Buffer : m \notin SliceBlocks[b]
  BY <1>1, NotInSlices
<1>3. /\ DOMAIN external' = DOMAIN external \ {m}
      /\ \A k \in DOMAIN external' : external'[k] = external[k]
      /\ external' = [k \in DOMAIN external' |-> external'[k]]
  BY <1>1
<1>4. Apart(FreeBlocks, SliceBlocks, ReservedBlocks, extracted', external')
  BY <1>1, <1>3, BeforeCaller DEF Apart
<1>5. extracted' \subseteq Block /\ DOMAIN external' \subseteq Block
  BY <1>1, <1>3, BeforeCaller
<1>6. \A b \in Buffer : \A k \in SliceBlocks[b] : k \in DOMAIN external <=> k \in DOMAIN external'
  BY <1>2, <1>3
<1> QED
  BY <1>1, <1>3, <1>4, <1>5, <1>6, CallerStep

\* A caller deletes what it extracted.
LEMMA DeleteSliceDataStep ==
  ASSUME Storage!StorageSizes, StorageInv, NEW m, Storage!DeleteSliceData(m)
  PROVE  StorageInv'
<1>1. extracted' = extracted \ {m} /\ UNCHANGED <<slices, reservation, free_list, external>>
  BY DEF Storage!DeleteSliceData
<1>2. Apart(FreeBlocks, SliceBlocks, ReservedBlocks, extracted', external')
  BY <1>1, BeforeCaller DEF Apart
<1>3. /\ extracted' \subseteq Block /\ DOMAIN external' \subseteq Block
      /\ external' = [k \in DOMAIN external' |-> external'[k]]
      /\ \A b \in Buffer : \A k \in SliceBlocks[b] : k \in DOMAIN external <=> k \in DOMAIN external'
  BY <1>1, BeforeCaller
<1> QED
  BY <1>1, <1>2, <1>3, CallerStep

\* addBufferFragment(): the block of the caller is in no place yet.
LEMMA AddBufferFragmentStep ==
  ASSUME Storage!StorageSizes, StorageInv, NEW b \in Buffer, NEW m \in DOMAIN external,
         NEW releasor \in {"given", "none"}, Storage!AddBufferFragment(b, m, releasor)
  PROVE  StorageInv'
<1> DEFINE s == [mem |-> m, cap |-> SliceBytes, used |-> SliceBytes, releasor |-> releasor]
           ss == Append(slices[b], s)
           r == reservation[b]
           S2 == SliceBlocks[b] \cup {m}
           S1 == [SliceBlocks EXCEPT ![b] = S2]
<1>1. /\ external' = [external EXCEPT ![m] = "in buffer"] /\ external[m] = "made"
      /\ slices' = [slices EXCEPT ![b] = ss]
      /\ UNCHANGED <<reservation, free_list, extracted>>
  BY DEF Storage!AddBufferFragment
<1>2. s \in SliceType /\ s.mem = m /\ s.releasor # "own"
  BY BeforeCaller DEF SliceType, Storage!StorageSizes
<1> HIDE DEF s
<1>3. \A c \in Buffer : m \notin SliceBlocks[c]
  BY <1>1, NotInSlices
<1>4. /\ ss \in Seq(SliceType) /\ Storage!NoBlockTwice(MemsOf(ss))
      /\ BlocksOf(MemsOf(ss)) = S2 /\ Owning(ss, DOMAIN external)
  BY <1>2, <1>3, BeforeStep, AppendedSlice
<1> HIDE DEF ss
<1>5. /\ DOMAIN external' = DOMAIN external /\ external'[m] = "in buffer"
      /\ \A k \in DOMAIN external : k # m => external'[k] = external[k]
      /\ external' = [k \in DOMAIN external' |-> external'[k]]
  BY <1>1, BeforeCaller
<1>6. Becomes(b, ss, r, free_list)
  <2>1. reservation = [reservation EXCEPT ![b] = r]
    BY DEF StorageInv, StorageTypes
  <2> QED
    BY <1>1, <1>4, <2>1, BeforeStep DEF Becomes
<1>7. /\ \A c \in Buffer : c # b => S1[c] = SliceBlocks[c]
      /\ S1[b] = S2
  BY DEF SliceBlocks
<1>8. m \notin FreeBlocks /\ m \notin extracted /\ \A c \in Buffer : m \notin ReservedBlocks[c]
  BY BeforeCaller DEF Apart
<1>9. Apart(FreeBlocks, S1, ReservedBlocks, extracted', external')
  <2>1. /\ FreeBlocks \cap extracted' = {} /\ FreeBlocks \cap DOMAIN external' = {}
        /\ extracted' \cap DOMAIN external' = {}
    BY <1>1, <1>5, BeforeCaller DEF Apart
  <2>2. ASSUME NEW c \in Buffer
        PROVE  /\ FreeBlocks \cap S1[c] = {} /\ FreeBlocks \cap ReservedBlocks[c] = {}
               /\ S1[c] \cap extracted' = {} /\ ReservedBlocks[c] \cap extracted' = {}
               /\ ReservedBlocks[c] \cap DOMAIN external' = {}
               /\ \A k \in S1[c] \cap DOMAIN external' : external'[k] = "in buffer"
    <3>1. /\ FreeBlocks \cap SliceBlocks[c] = {} /\ FreeBlocks \cap ReservedBlocks[c] = {}
          /\ SliceBlocks[c] \cap extracted = {} /\ ReservedBlocks[c] \cap extracted = {}
          /\ ReservedBlocks[c] \cap DOMAIN external = {}
          /\ \A k \in SliceBlocks[c] \cap DOMAIN external : external[k] = "in buffer"
      BY BeforeCaller DEF Apart
    <3>2. S1[c] \subseteq SliceBlocks[c] \cup {m}
      BY <1>7
    <3> HIDE DEF S1
    <3>3. /\ FreeBlocks \cap S1[c] = {} /\ S1[c] \cap extracted = {}
      BY <1>8, <3>1, <3>2
    <3>4. \A k \in S1[c] \cap DOMAIN external' : external'[k] = "in buffer"
      <4> SUFFICES ASSUME NEW k \in S1[c], k \in DOMAIN external, k # m
                   PROVE  external'[k] = "in buffer"
        BY <1>5
      <4>1. k \in SliceBlocks[c]
        BY <3>2
      <4> QED
        BY <1>5, <3>1, <4>1
    <3>5. extracted' = extracted /\ DOMAIN external' = DOMAIN external
      BY <1>1, <1>5
    <3> QED
      BY <3>1, <3>3, <3>4, <3>5
  <2>3. ASSUME NEW c \in Buffer, NEW d \in Buffer
        PROVE  /\ S1[c] \cap ReservedBlocks[d] = {}
               /\ c # d => S1[c] \cap S1[d] = {} /\ ReservedBlocks[c] \cap ReservedBlocks[d] = {}
    <3>1. /\ SliceBlocks[c] \cap ReservedBlocks[d] = {}
          /\ c # d => /\ SliceBlocks[c] \cap SliceBlocks[d] = {}
                      /\ ReservedBlocks[c] \cap ReservedBlocks[d] = {}
      BY BeforeCaller DEF Apart
    <3>2. m \notin SliceBlocks[c] /\ m \notin SliceBlocks[d] /\ m \notin ReservedBlocks[d]
      BY <1>3, <1>8
    <3> HIDE DEF S1
    <3>3. S1[c] \cap ReservedBlocks[d] = {}
      BY <1>7, <3>1, <3>2
    <3>4. ASSUME c # d
          PROVE  S1[c] \cap S1[d] = {}
      BY <1>7, <3>1, <3>2, <3>4
    <3> QED
      BY <3>1, <3>3, <3>4
  <2> QED
    BY <2>1, <2>2, <2>3 DEF Apart
<1>10. Apart(BlocksOf(free_list), [SliceBlocks EXCEPT ![b] = BlocksOf(MemsOf(ss))],
             [ReservedBlocks EXCEPT ![b] = BlocksOf(r.owned)], extracted', external')
  <2>1. [ReservedBlocks EXCEPT ![b] = BlocksOf(r.owned)] = ReservedBlocks
    BY DEF ReservedBlocks
  <2> QED
    BY <1>4, <1>9, <2>1 DEF FreeBlocks
<1>11. extracted' \subseteq Block /\ DOMAIN external' \subseteq Block
  BY <1>1, <1>5, BeforeCaller
<1>12. Owning(ss, DOMAIN external') /\ \A c \in Buffer \ {b} : Owning(slices[c], DOMAIN external')
  BY <1>4, <1>5, BeforeStep
<1> HIDE DEF r
<1> QED
  BY <1>5, <1>6, <1>10, <1>11, <1>12, InvAgain

\* Nothing is held in the beginning.
LEMMA StorageInit ==
  ASSUME Storage!StorageSizes, Storage!Init
  PROVE  StorageInv
<1> USE DEF Storage!Init
<1>1. StorageTypes
  BY DEF StorageTypes, ReservationType, Storage!NoReservation
<1>2. /\ \A b \in Buffer : MemsOf(slices[b]) = <<>> /\ reservation[b].owned = <<>>
      /\ free_list = <<>> /\ extracted = {} /\ DOMAIN external = {}
  BY DEF MemsOf, Storage!NoReservation
<1>3. BlocksOf(<<>>) = {} /\ Storage!NoBlockTwice(<<>>) /\ Len(<<>>) <= MAX_SLICES
  BY DEF BlocksOf, Storage!NoBlockTwice, Storage!StorageSizes
<1>4. OwnedApart
  BY <1>2, <1>3 DEF OwnedApart, Apart, NothingTwice, FreeBlocks, SliceBlocks, ReservedBlocks
<1>5. OwnersAgree
  BY DEF OwnersAgree
<1> QED
  BY <1>1, <1>4, <1>5 DEF StorageInv

\* Every step keeps blocks in one place.
LEMMA StorageStep ==
  ASSUME Storage!StorageSizes, StorageInv, [Storage!Next]_Storage!vars
  PROVE  StorageInv'
<1>1. CASE UNCHANGED Storage!vars
  BY <1>1 DEF Storage!vars, StorageInv, StorageTypes, OwnedApart, OwnersAgree, Apart, NothingTwice,
              FreeBlocks, SliceBlocks, ReservedBlocks
<1>2. ASSUME NEW b \in Buffer, NEW n \in Request, Storage!Reserve(b, n)
      PROVE  StorageInv'
  BY <1>2, ReserveStep
<1>3. ASSUME NEW b \in Buffer, NEW n \in Request, NEW separate \in BOOLEAN,
             Storage!ReserveSingleSlice(b, n, separate)
      PROVE  StorageInv'
  BY <1>3, ReserveSingleSliceStep
<1>4. ASSUME NEW b \in Buffer, NEW n \in Request \cup {0}, Storage!Commit(b, n)
      PROVE  StorageInv'
  <2>1. n \in Int
    BY DEF Storage!StorageSizes
  <2> QED
    BY <1>4, <2>1, CommitStep
<1>5. ASSUME NEW b \in Buffer, Storage!Discard(b)
      PROVE  StorageInv'
  BY <1>5, DiscardStep
<1>6. ASSUME NEW b \in Buffer, NEW n \in Fill, Storage!AddSlice(b, n)
      PROVE  StorageInv'
  BY <1>6, AddSliceStep
<1>7. ASSUME NEW b \in Buffer, NEW m \in DOMAIN external, NEW releasor \in {"given", "none"},
             Storage!AddBufferFragment(b, m, releasor)
      PROVE  StorageInv'
  BY <1>7, AddBufferFragmentStep
<1>8. ASSUME NEW b \in Buffer, Storage!DrainFront(b)
      PROVE  StorageInv'
  BY <1>8, DrainFrontStep
<1>9. ASSUME NEW b \in Buffer, Storage!ExtractMutableFrontSlice(b)
      PROVE  StorageInv'
  BY <1>9, ExtractStep
<1>10. ASSUME Storage!MakeFragment
       PROVE  StorageInv'
  BY <1>10, MakeFragmentStep
<1>11. ASSUME NEW m \in DOMAIN external, Storage!DeleteKept(m)
       PROVE  StorageInv'
  BY <1>11, DeleteKeptStep
<1>12. ASSUME NEW m \in Block, Storage!DeleteSliceData(m)
       PROVE  StorageInv'
  BY <1>12, DeleteSliceDataStep
<1> QED
  BY <1>1, <1>2, <1>3, <1>4, <1>5, <1>6, <1>7, <1>8, <1>9, <1>10, <1>11, <1>12
     DEF Storage!Next

\* Reservation, OwnedImplReservationSlicesOwnerMultiple, the free list, fragments and
\* extracted slices: for any number of buffers, blocks and steps, a block has one owner.
THEOREM BlocksHaveOneOwner ==
  ASSUME Storage!StorageSizes
  PROVE  Storage!Spec => []Storage!MemoryHasOneOwner
<1>1. Storage!Init => StorageInv
  BY StorageInit
<1>2. StorageInv /\ [Storage!Next]_Storage!vars => StorageInv'
  BY StorageStep
<1>3. StorageInv => Storage!MemoryHasOneOwner
  BY OneOwnerIs DEF StorageInv
<1> QED
  BY <1>1, <1>2, <1>3, PTL DEF Storage!Spec

\* The recursion equations of Length.
LEMMA LengthIs ==
  /\ Storage!Length(<<>>) = 0
  /\ \A raw \in Seq(Int), n \in Int : Storage!Length(Append(raw, n)) = Storage!Length(raw) + n
<1>1. \A raw : Storage!Length(raw) = Lengths!Fold(0, raw)
  BY DEF Storage!Length, Storage!FoldLeft, Storage!MapThenFoldSet, Storage!Max,
         Lengths!Fold, Lengths!MapThenFoldSet, Lengths!Latest
<1>2. ASSUME NEW raw \in Seq(Int), NEW n \in Int
      PROVE  Storage!Length(Append(raw, n)) = Storage!Length(raw) + n
  <2>1. Lengths!Fold(0, Append(raw, n)) = Lengths!Fold(0, raw) + n
    BY Lengths!FoldOfAppend
  <2> QED
    BY <1>1, <2>1
<1> QED
  BY <1>1, <1>2, Lengths!FoldOfNone

\* The length of one raw slice.
LEMMA LengthOfOne ==
  ASSUME NEW n \in Int
  PROVE  Storage!Length(<<n>>) = n
<1>1. <<n>> = Append(<<>>, n) /\ <<>> \in Seq(Int)
  OBVIOUS
<1> DEFINE none == <<>>
<1>2. none \in Seq(Int)
  OBVIOUS
<1> HIDE DEF none
<1>3. Storage!Length(Append(none, n)) = Storage!Length(none) + n
  BY <1>2, LengthIs
<1>4. Storage!Length(none) = 0
  BY LengthIs DEF none
<1>5. <<n>> = Append(none, n)
  BY <1>1 DEF none
<1>6. Storage!Length(<<n>>) = Storage!Length(Append(none, n))
  BY <1>5, Zenon
<1>7. Storage!Length(none) + n = n
  BY <1>4
<1> QED
  BY <1>3, <1>6, <1>7, Zenon

\* The length of n whole slices behind some others.
LEMMA LengthOfWhole ==
  ASSUME Storage!StorageSizes, NEW raw \in Seq(Int), Storage!Length(raw) \in Int, NEW n \in Nat
  PROVE  Storage!Length(raw \o [i \in 1..n |-> SliceBytes]) = Storage!Length(raw) + n * SliceBytes
<1> DEFINE Whole(k) == [i \in 1..k |-> SliceBytes]
           l == Storage!Length(raw)
           S == {k \in Nat : Storage!Length(raw \o Whole(k)) = l + k * SliceBytes}
<1>0. SliceBytes \in Nat
  BY DEF Storage!StorageSizes
<1>1. 0 \in S
  <2>1. raw \o Whole(0) = raw /\ l + 0 * SliceBytes = l
    BY <1>0
  <2> QED
    BY <2>1
<1>2. ASSUME NEW k \in Nat, k \in S
      PROVE  k + 1 \in S
  <2>1. Whole(k) \in Seq(Int) /\ Len(Whole(k)) = k /\ Whole(k + 1) = Append(Whole(k), SliceBytes)
    BY <1>0
  <2> HIDE DEF Whole
  <2>2. raw \o Whole(k + 1) = Append(raw \o Whole(k), SliceBytes) /\ raw \o Whole(k) \in Seq(Int)
    <3>1. raw \o Whole(k) \in Seq(Int) /\ SliceBytes \in Int /\ <<SliceBytes>> \in Seq(Int)
      BY <1>0, <2>1
    <3>2. Whole(k + 1) = Whole(k) \o <<SliceBytes>>
      BY <2>1, <3>1, AppendIsConcat
    <3>3. Append(raw \o Whole(k), SliceBytes) = (raw \o Whole(k)) \o <<SliceBytes>>
      BY <3>1, AppendIsConcat
    <3>4. raw \o (Whole(k) \o <<SliceBytes>>) = (raw \o Whole(k)) \o <<SliceBytes>>
      BY <2>1, <3>1, ConcatAssociative
    <3> QED
      BY <3>1, <3>2, <3>3, <3>4
  <2>3. Storage!Length(raw \o Whole(k + 1)) = Storage!Length(raw \o Whole(k)) + SliceBytes
    <3>1. SliceBytes \in Int
      BY <1>0
    <3> QED
      BY <2>2, <3>1, LengthIs
  <2>4. Storage!Length(raw \o Whole(k)) = l + k * SliceBytes
    BY <1>2
  <2>5. l + k * SliceBytes + SliceBytes = l + (k + 1) * SliceBytes
    BY <1>0
  <2> HIDE DEF l
  <2> QED
    BY <2>3, <2>4, <2>5
<1> HIDE DEF S
<1>3. n \in S
  BY <1>1, <1>2, Lengths!SetInduction
<1> QED
  BY <1>3 DEF S

\* What ReservationsFit says of the reservation r of a buffer with the slices ss.
Fitting(r, ss) ==
  r.kind # "none" =>
    /\ Len(r.raw) = Len(r.owned) /\ Len(r.raw) \in 1..MAX_SLICES
    /\ r.wanted - Storage!Length(r.raw) >= SliceBytes => Len(r.raw) = MAX_SLICES
    /\ Storage!Length(r.raw) > r.wanted => Storage!Length(r.raw) - Storage!Last(r.raw) < SliceBytes
    /\ \A i \in DOMAIN r.raw : r.owned[i] = NULL => i = 1 /\ r.raw[1] <= Storage!Reservable(ss)

\* The loop of reserveWithMaxLength() ends with the first number of blocks for which it does
\* not go on.
LEMMA LoopEnds ==
  ASSUME NEW reserved \in Int, NEW max_length \in Int, NEW room \in Nat, Storage!StorageSizes
  PROVE  LET n == Storage!BlocksFor(reserved, max_length, room) IN
         /\ n \in 0..room /\ ~Storage!GoesOn(n, reserved, max_length, room)
         /\ n > 0 => Storage!GoesOn(n - 1, reserved, max_length, room)
<1> DEFINE S == {n \in 0..room : ~Storage!GoesOn(n, reserved, max_length, room)}
           n == Storage!Min(S)
<1>1. Storage!BlocksFor(reserved, max_length, room) = n
  BY DEF Storage!BlocksFor
<1>2. ~Storage!GoesOn(room, reserved, max_length, room) /\ room \in 0..room
  BY DEF Storage!GoesOn
<1>3. S \subseteq Nat /\ S # {}
  BY <1>2
<1>4. \E x \in S : \A y \in S : x <= y
  <2> HIDE DEF S
  <2> QED
    BY <1>3, SmallestNumber
<1>5. n \in S /\ \A y \in S : n <= y
  <2> HIDE DEF S
  <2> QED
    BY <1>4 DEF Storage!Min
<1> HIDE DEF n
<1>6. n \in 0..room
  BY <1>5
<1>7. ASSUME n > 0
      PROVE  Storage!GoesOn(n - 1, reserved, max_length, room)
  <2>1. n - 1 \in 0..room /\ ~(n <= n - 1)
    BY <1>6, <1>7
  <2> QED
    BY <1>5, <2>1
<1> QED
  BY <1>1, <1>5, <1>6, <1>7

\* A new reservation of several slices fits.
LEMMA ReserveFits ==
  ASSUME Storage!StorageSizes, StorageInv, NEW b \in Buffer, NEW max_length \in Request,
         Storage!Reserve(b, max_length)
  PROVE  Fitting(reservation'[b], slices'[b])
<1> DEFINE ss == Storage!WithoutEmpty(slices[b])
           reservable == Storage!Reservable(ss)
           tail == reservable >= max_length \/ reservable >= SliceBytes \div 8
           reserved == IF tail THEN Storage!Min({reservable, max_length}) ELSE 0
           first == IF tail THEN 1 ELSE 0
           room == MAX_SLICES - first
           n == Storage!BlocksFor(reserved, max_length, room)
           taken == Storage!TakeStorages(n)
           whole == [i \in 1..n |-> SliceBytes]
           raw == (IF tail THEN <<reserved>> ELSE <<>>) \o whole
           owned == (IF tail THEN <<NULL>> ELSE <<>>) \o taken.owned
           r == [kind |-> "multiple", wanted |-> max_length, raw |-> raw, owned |-> owned]
<1>1. Storage!MemoryLeft(n) /\ max_length > 0 /\ slices'[b] = ss /\ reservation'[b] = r
  BY DEF Storage!Reserve, StorageInv, StorageTypes
<1>2. ss \in Seq(SliceType)
  BY BeforeStep, WithoutEmptyIs
<1> HIDE DEF ss
<1>3. /\ reservable \in Int /\ max_length \in Int /\ SliceBytes \in Nat \ {0}
      /\ MAX_SLICES \in Nat \ {0}
  BY <1>2, ReservableIs DEF Storage!StorageSizes
<1> HIDE DEF reservable, tail
<1>4. /\ reserved \in Int /\ reserved <= max_length
      /\ tail => reserved <= reservable
  <2>1. \A k, l \in Int : Storage!Min({k, l}) = IF k <= l THEN k ELSE l
    BY DEF Storage!Min
  <2> QED
    BY <1>1, <1>3, <2>1
<1>5. ~tail => reserved = 0
  OBVIOUS
<1> HIDE DEF reserved
<1>6. room \in Nat /\ first \in {0, 1} /\ first + room = MAX_SLICES /\ (tail <=> first = 1)
  BY <1>3
<1> HIDE DEF room, first
<1>7. /\ n \in 0..room /\ ~Storage!GoesOn(n, reserved, max_length, room)
      /\ n > 0 => Storage!GoesOn(n - 1, reserved, max_length, room)
  BY <1>3, <1>4, <1>6, LoopEnds
<1> HIDE DEF n
<1>8. n \in Nat /\ n <= room
  BY <1>6, <1>7
<1>9. Taken(taken, n)
  BY <1>1, <1>8, BeforeStep, TakenAll
<1> HIDE DEF taken
<1>10. taken.owned \in Seq(Block) /\ Len(taken.owned) = n
  BY <1>9 DEF Taken
<1>11. whole \in Seq(Int) /\ Len(whole) = n /\ \A i \in 1..n : whole[i] = SliceBytes
  BY <1>3, <1>8
<1>12. Storage!Length(raw) = reserved + n * SliceBytes
  <2>1. Storage!Length(<<>>) = 0 /\ Storage!Length(<<reserved>>) = reserved
    BY <1>4, LengthIs, LengthOfOne
  <2>2. CASE tail
    <3>1. raw = <<reserved>> \o whole
      BY <2>2
    <3>2. <<reserved>> \in Seq(Int)
      BY <1>4
    <3> QED
      BY <1>4, <1>8, <2>1, <3>1, <3>2, LengthOfWhole
  <2>3. CASE ~tail
    <3>1. raw = <<>> \o whole /\ <<>> \in Seq(Int)
      BY <2>3
    <3> DEFINE none == <<>>
    <3>2. none \in Seq(Int) /\ Storage!Length(none) = 0
      BY <2>1
    <3> HIDE DEF none
    <3>3. Storage!Length(none \o whole) = 0 + n * SliceBytes
      BY <1>8, <3>2, LengthOfWhole
    <3> QED
      BY <1>3, <1>5, <1>8, <2>3, <3>1, <3>3 DEF none
  <2> QED
    BY <2>2, <2>3
<1> HIDE DEF whole
<1>13. /\ Len(raw) = first + n /\ Len(owned) = first + n
       /\ n > 0 => Storage!Last(raw) = SliceBytes
       /\ tail => raw[1] = reserved
       /\ \A i \in 1..(first + n) : owned[i] = NULL => i = 1 /\ tail
       /\ DOMAIN raw = 1..(first + n)
  <2>0. NULL \notin Block /\ DOMAIN taken.owned = 1..n /\ \A i \in 1..n : taken.owned[i] \in Block
    BY <1>10 DEF Storage!StorageSizes
  <2>1. CASE tail
    <3>0. raw = <<reserved>> \o whole /\ owned = <<NULL>> \o taken.owned /\ first = 1
      BY <1>6, <2>1
    <3> HIDE DEF raw, owned
    <3>1. /\ Len(raw) = 1 + n /\ raw[1] = reserved /\ DOMAIN raw = 1..(1 + n)
          /\ \A i \in 1..n : raw[i + 1] = SliceBytes
      BY <1>4, <1>8, <1>11, <3>0
    <3>2. /\ Len(owned) = 1 + n /\ \A i \in 1..n : owned[i + 1] = taken.owned[i]
      BY <1>8, <1>10, <3>0
    <3>3. \A i \in 1..(1 + n) : i # 1 => owned[i] \in Block
      <4>1. \A i \in 1..(1 + n) : i # 1 => i - 1 \in 1..n /\ i = (i - 1) + 1
        BY <1>8
      <4> QED
        BY <2>0, <3>2, <4>1
    <3>4. n > 0 => Storage!Last(raw) = SliceBytes
      <4>1. n > 0 => n \in 1..n /\ Len(raw) = n + 1
        BY <1>8, <3>1
      <4> QED
        BY <3>1, <4>1 DEF Storage!Last
    <3> QED
      BY <2>0, <2>1, <3>0, <3>1, <3>2, <3>3, <3>4
  <2>2. CASE ~tail
    <3>1. raw = whole /\ owned = taken.owned /\ first = 0
      BY <1>6, <1>10, <1>11, <2>2
    <3> HIDE DEF raw, owned
    <3>2. n > 0 => n \in 1..n
      BY <1>8
    <3> QED
      BY <1>8, <1>10, <1>11, <2>0, <2>2, <3>1, <3>2 DEF Storage!Last
  <2> QED
    BY <2>1, <2>2
<1> HIDE DEF raw, owned
<1>14. first + n \in 1..MAX_SLICES
  <2>1. ASSUME n = 0, ~tail
        PROVE  FALSE
    <3>1. room \in Nat \ {0} /\ reserved = 0 /\ 0 * SliceBytes = 0
      BY <1>3, <1>5, <1>6, <2>1
    <3>2. Storage!GoesOn(0, 0, max_length, room)
      BY <1>1, <1>3, <3>1 DEF Storage!GoesOn
    <3> QED
      BY <1>7, <2>1, <3>1, <3>2
  <2> QED
    BY <1>3, <1>6, <1>8, <2>1
<1> DEFINE L == reserved + n * SliceBytes
<1>15. L \in Int
  BY <1>3, <1>4, <1>8
<1>16. max_length - L >= SliceBytes => n = room
  <2>1. ~(/\ L < max_length /\ n < room
          /\ ~(SliceBytes > max_length - L /\ L >= SliceBytes))
    BY <1>7 DEF Storage!GoesOn
  <2> HIDE DEF L
  <2> QED
    BY <1>3, <1>6, <1>8, <1>15, <2>1
<1>17. L > max_length => n > 0 /\ L - SliceBytes < SliceBytes
  <2>1. n = 0 => L = reserved
    BY <1>3, <1>4, <1>8
  <2>2. ASSUME n > 0, L > max_length
        PROVE  L - SliceBytes < SliceBytes
    <3> DEFINE M == reserved + (n - 1) * SliceBytes
    <3>1. M \in Int /\ M = L - SliceBytes
      BY <1>3, <1>4, <1>8
    <3>2. M < max_length /\ ~(SliceBytes > max_length - M /\ M >= SliceBytes)
      BY <1>7, <2>2 DEF Storage!GoesOn
    <3> HIDE DEF L, M
    <3> QED
      BY <1>3, <1>15, <2>2, <3>1, <3>2
  <2> HIDE DEF L
  <2> QED
    BY <1>3, <1>4, <1>8, <1>15, <2>1, <2>2
<1>18. /\ r.raw = raw /\ r.owned = owned /\ r.wanted = max_length
  OBVIOUS
<1> HIDE DEF r
<1>19. Fitting(r, ss)
  BY <1>3, <1>4, <1>6, <1>12, <1>13, <1>14, <1>15, <1>16, <1>17, <1>18 DEF Fitting, reservable
<1> QED
  BY <1>1, <1>19

\* A new reservation of a single slice fits.
LEMMA ReserveSingleFits ==
  ASSUME Storage!StorageSizes, StorageInv, NEW b \in Buffer, NEW length \in Request,
         NEW separate_slice \in BOOLEAN, Storage!ReserveSingleSlice(b, length, separate_slice)
  PROVE  Fitting(reservation'[b], slices'[b])
<1> DEFINE ss == Storage!WithoutEmpty(slices[b])
           tail == ~separate_slice /\ Storage!Reservable(ss) >= length
           m == IF tail THEN NULL ELSE Storage!NewMemory
           r == Storage!SingleSlice(length, m)
<1>1. /\ slices'[b] = ss /\ reservation'[b] = r /\ Storage!MemoryLeft(1) /\ length \in 1..SliceBytes
  BY DEF Storage!ReserveSingleSlice, StorageInv, StorageTypes
<1>2. ss \in Seq(SliceType) /\ Storage!Reservable(ss) \in Int
  BY BeforeStep, WithoutEmptyIs, ReservableIs
<1>3. m = NULL => tail
  BY <1>1, NewMemoryIs DEF Storage!StorageSizes
<1>4. length \in Int /\ length >= 1 /\ SliceBytes \in Nat \ {0} /\ MAX_SLICES \in Nat \ {0}
  BY <1>1 DEF Storage!StorageSizes
<1>5. Storage!Length(<<length>>) = length
  BY <1>4, LengthOfOne
<1>6. m = NULL => length <= Storage!Reservable(ss)
  BY <1>2, <1>3, <1>4
<1> HIDE DEF m, ss
<1>7. r.raw = <<length>> /\ r.owned = <<m>> /\ r.wanted = length
  BY DEF Storage!SingleSlice
<1> HIDE DEF r
<1>8. /\ Len(r.raw) = 1 /\ Len(r.owned) = 1 /\ DOMAIN r.raw = {1} /\ r.raw[1] = length /\ r.owned[1] = m
  BY <1>7
<1>9. Fitting(r, ss)
  BY <1>4, <1>5, <1>6, <1>7, <1>8 DEF Fitting
<1> QED
  BY <1>1, <1>9

\* ReservationsFit, buffer by buffer.
AllFit == \A b \in Buffer : Fitting(reservation[b], slices[b])

\* Every step keeps reservations in the limits: none changes the slices of a buffer that
\* has one.
LEMMA FitStep ==
  ASSUME Storage!StorageSizes, StorageInv, AllFit, [Storage!Next]_Storage!vars
  PROVE  AllFit'
<1>1. ASSUME NEW b \in Buffer, Fitting(reservation'[b], slices'[b]),
             \A c \in Buffer : c # b => reservation'[c] = reservation[c] /\ slices'[c] = slices[c]
      PROVE  AllFit'
  BY <1>1 DEF AllFit
<1>2. ASSUME UNCHANGED <<reservation, slices>>
      PROVE  AllFit'
  BY <1>2 DEF AllFit
<1>3. \A ss : Fitting(Storage!NoReservation, ss)
  BY DEF Fitting, Storage!NoReservation
<1>4. /\ DOMAIN slices = Buffer /\ DOMAIN reservation = Buffer
  BY DEF StorageInv, StorageTypes
<1>5. ASSUME NEW b \in Buffer, NEW ss, slices' = [slices EXCEPT ![b] = ss],
             \/ reservation' = reservation /\ reservation[b] = Storage!NoReservation
             \/ reservation' = [reservation EXCEPT ![b] = Storage!NoReservation]
      PROVE  AllFit'
  BY <1>1, <1>3, <1>4, <1>5
<1>6. ASSUME NEW b \in Buffer, NEW n \in Request, Storage!Reserve(b, n)
      PROVE  AllFit'
  BY <1>1, <1>4, <1>6, ReserveFits DEF Storage!Reserve
<1>7. ASSUME NEW b \in Buffer, NEW n \in Request, NEW separate \in BOOLEAN,
             Storage!ReserveSingleSlice(b, n, separate)
      PROVE  AllFit'
  BY <1>1, <1>4, <1>7, ReserveSingleFits DEF Storage!ReserveSingleSlice
<1>8. ASSUME NEW b \in Buffer, NEW n, Storage!Commit(b, n)
      PROVE  AllFit'
  BY <1>5, <1>8 DEF Storage!Commit, Storage!CommitSlices
<1>9. ASSUME NEW b \in Buffer, Storage!Discard(b)
      PROVE  AllFit'
  BY <1>1, <1>3, <1>4, <1>9 DEF Storage!Discard
<1>10. ASSUME NEW b \in Buffer, NEW n, Storage!AddSlice(b, n)
       PROVE  AllFit'
  BY <1>5, <1>10 DEF Storage!AddSlice, Storage!Idle
<1>11. ASSUME NEW b \in Buffer, NEW m, NEW releasor, Storage!AddBufferFragment(b, m, releasor)
       PROVE  AllFit'
  BY <1>5, <1>11 DEF Storage!AddBufferFragment, Storage!Idle
<1>12. ASSUME NEW b \in Buffer, Storage!DrainFront(b)
       PROVE  AllFit'
  BY <1>5, <1>12 DEF Storage!DrainFront, Storage!Idle
<1>13. ASSUME NEW b \in Buffer, Storage!ExtractMutableFrontSlice(b)
       PROVE  AllFit'
  BY <1>5, <1>13 DEF Storage!ExtractMutableFrontSlice, Storage!Idle
<1>14. ASSUME Storage!MakeFragment \/ (\E m : Storage!DeleteKept(m) \/ Storage!DeleteSliceData(m))
              \/ UNCHANGED Storage!vars
       PROVE  AllFit'
  BY <1>2, <1>14 DEF Storage!MakeFragment, Storage!DeleteKept, Storage!DeleteSliceData, Storage!vars
<1> QED
  BY <1>6, <1>7, <1>8, <1>9, <1>10, <1>11, <1>12, <1>13, <1>14 DEF Storage!Next

\* reserveWithMaxLength(), reserveForRead() and reserveSingleSlice(): for every request and
\* every state of the last slice, the reservation has as many slices as allowed or misses
\* less than one, exceeds the request only for its first whole slice, and its space in the
\* buffer stays there until the commit.
THEOREM ReservationsStayInLimits ==
  ASSUME Storage!StorageSizes
  PROVE  Storage!Spec => []Storage!ReservationsFit
<1>1. Storage!Init => StorageInv /\ AllFit
  <2>1. Storage!Init => AllFit
    BY DEF Storage!Init, AllFit, Fitting, Storage!NoReservation
  <2> QED
    BY <2>1, StorageInit
<1>2. StorageInv /\ AllFit /\ [Storage!Next]_Storage!vars => (StorageInv /\ AllFit)'
  <2>1. ASSUME StorageInv, AllFit, [Storage!Next]_Storage!vars
        PROVE  StorageInv' /\ AllFit'
    BY <2>1, StorageStep, FitStep
  <2> QED
    BY <2>1
<1>3. AllFit => Storage!ReservationsFit
  BY DEF AllFit, Fitting, Storage!ReservationsFit
<1> QED
  BY <1>1, <1>2, <1>3, PTL DEF Storage!Spec
==============================================================================
