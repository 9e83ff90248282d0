----------------------------- MODULE OwnedBuffer -----------------------------
(***************************************************************************)
(* Buffer::OwnedImpl (BufferImpl.h, BufferImpl.cpp): buffers that exchange *)
(* slices.  slices[b] is the SliceDeque of b (module SliceDeque shows that *)
(* it is a sequence).  A slice has the section of its storage that holds   *)
(* data, after off = data_ bytes of drained section; what is left behind   *)
(* it can be reserved.  A slice made from a BufferFragment does not own    *)
(* its storage.  Sizes are those of the code scaled down: only their order *)
(* (CopyThreshold and MinReuse below a page, a page below the default      *)
(* slice) matters.                                                         *)
(*                                                                         *)
(* A drain tracker is a callback: what is kept is how often it ran.        *)
(* Buffers belong to one thread at a time, so every method is one action.  *)
(* An action that takes a reservation and commits it is one action too:    *)
(* the caller must not use the buffer in between (Buffer.h).               *)
(***************************************************************************)
EXTENDS Integers, Sequences, FiniteSets, FiniteSetsExt, SequencesExt

CONSTANTS
  Buffers, Accounts,
  Trackers,          \* callbacks for addDrainTracker()
  Fragments,         \* BufferFragments, with the tracker that calls done()
  None,              \* a null BufferMemoryAccountSharedPtr
  PageSize,          \* 4096: slices are allocated in pages (Slice::sliceSize)
  DefaultSliceSize,  \* Slice::default_slice_size_, 4 pages
  MinReuse,          \* default_slice_size_ / 8
  MaxSlices,         \* Reservation::MAX_SLICES_, free_list_max_
  CopyThreshold,     \* smaller slices are copied by move()
  Rooms,             \* bound: the lengths that callers ask reserveSingleSlice() for;
                     \* without any, callers use no reservations at all
  MaxBytes,          \* bound: how many bytes ever enter the buffers
  MaxCopied,         \* bound: how many bytes add(const Instance&) copies, each once
  MaxQueue           \* bound: how many slices prepend(Instance&) may bring together

ASSUME BufferAssumption ==
  /\ {PageSize, DefaultSliceSize, MinReuse, MaxSlices, CopyThreshold} \subseteq Nat \ {0}
  /\ DefaultSliceSize % PageSize = 0
  /\ Rooms \subseteq Nat
  /\ MaxBytes \in Nat
  /\ IsFiniteSet(Buffers)
  /\ None \notin Accounts

VARIABLES
  slices, length, account,   \* slices_, length_ and account_ of each buffer
  balance,      \* balance[a]: what account a was charged and not credited
  ran,          \* ran[t]: how often drain tracker t was called
  freeList,     \* size of the thread's free list of default slices
  next,         \* the number of the next byte to enter (as in ByteBuffers)
  tracked,      \* tracked[t]: the last byte of the slice t was added to; 0 if
                \* that slice was empty, -1 before t is added
  copied,       \* bytes that add(const Instance&) has copied
  detached,     \* bytes copied away from their slice by linearize() or by a
                \* move() of a part of that slice
  written       \* TRUE once storage that no slice owns was written to

Callbacks == Trackers \cup Fragments

memory == <<slices, length, balance, ran, written>>
ghosts == <<tracked, copied, detached>>
vars == <<memory, account, freeList, next, ghosts>>

Init ==
  /\ slices = [b \in Buffers |-> <<>>]
  /\ length = [b \in Buffers |-> 0]
  /\ account = [b \in Buffers |-> None]
  /\ balance = [a \in Accounts |-> 0]
  /\ ran = [t \in Callbacks |-> 0]
  /\ freeList = 0
  /\ next = 1
  /\ tracked = [t \in Callbacks |-> -1]
  /\ copied = {}
  /\ detached = {}
  /\ written = FALSE

------------------------------------------------------------------------------
\* Slices.

SliceSize(n) == ((n + (PageSize - 1)) \div PageSize) * PageSize

DataSize(s) == Len(s.data)

ReservableSize(s) == s.cap - (s.off + Len(s.data))

\* Slice(min_capacity, account) and Slice(storage, used_size, account).
NewSlice(cap, a, data) ==
  [data |-> data, off |-> 0, cap |-> cap, owned |-> TRUE, trackers |-> <<>>, account |-> a]

\* Slice(fragment): its first drain tracker calls fragment.done().
FragmentSlice(data, f) ==
  [data |-> data, off |-> 0, cap |-> Len(data), owned |-> FALSE,
   trackers |-> <<f>>, account |-> None]

\* A slip: one byte too few drained.
DrainedShort(s, n) ==
  [s EXCEPT !.data = SubSeq(@, Max({1, n}), Len(@)), !.off = @ + Max({0, n - 1})]

\* A slip: the wrong end drained.
DrainedFromEnd(s, n) == [s EXCEPT !.data = SubSeq(@, 1, Len(@) - n)]

\* Slice::drain() of n bytes.
Drained(s, n) ==
  IF n = DataSize(s) THEN [s EXCEPT !.data = <<>>, !.off = 0]
  ELSE [s EXCEPT !.data = SubSeq(@, n + 1, Len(@)), !.off = @ + n]

\* The methods work on a buffer together with the state it shares with others.
Buffer(b) ==
  [slices |-> slices[b], length |-> length[b], account |-> account[b],
   balance |-> balance, ran |-> ran, written |-> written]

\* BufferMemoryAccount::charge(n); credit(n) is the charge of -n.
Charge(c, a, n) == IF a = None THEN c ELSE [c EXCEPT !.balance[a] = @ + n]

CallTracker(c, t) == [c EXCEPT !.ran[t] = @ + 1]

CallTrackers(c, ts) == FoldLeft(CallTracker, c, ts)

\* Slice::callAndClearDrainTrackersAndCharges(), by the destruction of s.
Release(c, s) == Charge(CallTrackers(c, s.trackers), s.account, -s.cap)

ReleaseAll(c, ss) == FoldLeft(Release, c, ss)

\* Slice(cap, account_) with data in it becomes the last slice.
EmplaceBackNew(c, cap, data) ==
  Charge([c EXCEPT !.slices = Append(@, NewSlice(cap, c.account, data))], c.account, cap)

\* Slice::maybeChargeAccount().
MaybeCharged(c, s) ==
  IF s.account # None \/ ~s.owned \/ c.account = None THEN s
  ELSE [s EXCEPT !.account = c.account]

\* A slip: a slice that is already charged for is charged again.
ChargeForAlways(c, s) == Charge(c, c.account, s.cap)

ChargeFor(c, s) == IF MaybeCharged(c, s) = s THEN c ELSE Charge(c, c.account, s.cap)

ChargeForAll(c, ss) == FoldLeft(ChargeFor, c, ss)

\* Slice::append(), or reserve() and commit(), on the last slice.
AppendToBack(c, data) ==
  IF data = <<>> THEN c
  ELSE [c EXCEPT !.slices[Len(c.slices)].data = @ \o data,
                 !.written = @ \/ ~Last(c.slices).owned]

BackRoom(c) == IF c.slices = <<>> THEN 0 ELSE ReservableSize(Last(c.slices))

------------------------------------------------------------------------------
\* OwnedImpl's private methods, on a buffer c.

\* The last slice takes what it can, a new one the rest.
AddImpl(c, data) ==
  LET n == Min({BackRoom(c), Len(data)})
      rest == SubSeq(data, n + 1, Len(data))
      filled == AppendToBack(c, SubSeq(data, 1, n))
      added == IF rest = <<>> THEN filled
               ELSE EmplaceBackNew(filled, SliceSize(Len(rest)), rest)
  IN [added EXCEPT !.length = @ + Len(data)]

AddSlice(c, s) == AddImpl(c, s.data)

AddSlices(c, ss) == FoldLeft(AddSlice, c, ss)

\* The sum of a sequence of numbers.
Total(w) == FoldLeft(+, 0, w)

\* How many bytes the slices ss hold.
Size(ss) == Total([i \in DOMAIN ss |-> DataSize(ss[i])])

\* How many bytes the first i slices hold.
End(ss, i) == Size(SubSeq(ss, 1, i))

Joined(data, s) == data \o s.data

\* The bytes of the slices ss, in order: what copyOut() and toString() read.
Flat(ss) == FoldLeft(Joined, <<>>, ss)

\* Whole slices are destroyed while they fit, then a part of the next one is
\* drained; slices that are then in front and empty go too.
DrainImpl(c, n) ==
  LET whole == Cardinality({i \in DOMAIN c.slices : End(c.slices, i) <= n})
      left == SubSeq(c.slices, whole + 1, Len(c.slices))
      part == n - End(c.slices, whole)
      rest == IF left = <<>> THEN <<>> ELSE <<Drained(Head(left), part)>> \o Tail(left)
  IN [ReleaseAll(c, SubSeq(c.slices, 1, whole))
        EXCEPT !.slices = rest,
               !.length = @ - (IF left = <<>> THEN End(c.slices, whole) ELSE n)]

\* s can be copied into the last slice.
CanCoalesce(c, s) ==
  /\ s.owned /\ c.slices # <<>>
  /\ DataSize(s) < CopyThreshold /\ BackRoom(c) >= DataSize(s)

\* s itself becomes the last slice.
TakeSlice(c, s) ==
  [ChargeFor(c, s) EXCEPT !.slices = Append(@, MaybeCharged(c, s)), !.length = @ + DataSize(s)]

\* A slip: a coalesced slice keeps its trackers, and is then destroyed.
CoalesceRunsTrackers(c, s) ==
  IF CanCoalesce(c, s) THEN Release(AddImpl(c, s.data), s)
  ELSE TakeSlice(c, s)

\* The last slice takes over the bytes and the trackers of s, which is then
\* destroyed by the caller's pop_front(); or s becomes the last slice.
CoalesceOrAddSlice(c, s) ==
  IF CanCoalesce(c, s)
  THEN LET added == AddImpl(c, s.data)
       IN Charge([added EXCEPT !.slices[Len(added.slices)].trackers = @ \o s.trackers],
                 s.account, -s.cap)
  ELSE TakeSlice(c, s)

CoalesceOrAddSlices(c, ss) == FoldLeft(CoalesceOrAddSlice, c, ss)

\* A slip: the slices are dropped without being destroyed.
WithoutEmptyBackSilently(c) ==
  [c EXCEPT !.slices = SelectSeq(@, LAMBDA s : DataSize(s) > 0)]

\* Both kinds of reservation first drop the empty slices at the back.
WithoutEmptyBack(c) ==
  LET keep == {0} \cup {i \in DOMAIN c.slices : DataSize(c.slices[i]) > 0}
  IN [ReleaseAll(c, SubSeq(c.slices, Max(keep) + 1, Len(c.slices)))
        EXCEPT !.slices = SubSeq(@, 1, Max(keep))]

\* What Slice::prepend() has room for in the first slice: in front of its
\* content, or behind it if it has none.
FrontRoom(c) ==
  IF c.slices = <<>> THEN 0
  ELSE LET front == Head(c.slices)
       IN IF DataSize(front) = 0 THEN ReservableSize(front) ELSE front.off

\* Slice::prepend(): data goes in front of the first slice's content, or to
\* the end of an empty slice.
PrependToFront(c, data) ==
  LET front == Head(c.slices)
  IN IF data = <<>> THEN c
     ELSE [c EXCEPT !.slices[1].data = data \o @,
                    !.slices[1].off = (IF DataSize(front) = 0 THEN front.cap ELSE @) - Len(data),
                    !.written = @ \/ ~front.owned]

\* The new slice s becomes the first one.
EmplaceFrontNew(c, s) == Charge([c EXCEPT !.slices = <<s>> \o @], c.account, s.cap)

\* The first slice takes what it can, a new one the rest, at its end.
PrependImpl(c, data) ==
  LET n == Min({FrontRoom(c), Len(data)})
      rest == SubSeq(data, 1, Len(data) - n)
      cap == SliceSize(Len(rest))
      filled == PrependToFront(c, SubSeq(data, (Len(data) - n) + 1, Len(data)))
      added == IF rest = <<>> THEN filled
               ELSE EmplaceFrontNew(filled, [NewSlice(cap, c.account, rest) EXCEPT !.off = cap - Len(rest)])
  IN [added EXCEPT !.length = @ + Len(data)]

------------------------------------------------------------------------------
\* OwnedImpl's public methods.

Fresh(n) == [i \in 1..n |-> next + (i - 1)]

\* How many bytes can still enter.
Entering == 0..(MaxBytes - (next - 1))

Bytes(ss) == UNION {Range(ss[i].data) : i \in DOMAIN ss}

\* The bytes to remember in detached: only trackers care.
Noted(data) == IF Callbacks = {} THEN {} ELSE data

\* The method leaves buffer b, and what it shares with others, as c.
Put(b, c) ==
  /\ slices' = [slices EXCEPT ![b] = c.slices]
  /\ length' = [length EXCEPT ![b] = c.length]
  /\ balance' = c.balance
  /\ ran' = c.ran
  /\ written' = c.written

\* The method also leaves buffer r with the slices ss and the length n.
PutBoth(b, c, r, ss, n) ==
  /\ slices' = [slices EXCEPT ![b] = c.slices, ![r] = ss]
  /\ length' = [length EXCEPT ![b] = c.length, ![r] = n]
  /\ balance' = c.balance
  /\ ran' = c.ran
  /\ written' = c.written

AddDrainTracker(b, t) ==
  /\ slices[b] # <<>> /\ tracked[t] = -1
  /\ LET back == Last(slices[b]) IN
     /\ slices' = [slices EXCEPT ![b][Len(slices[b])].trackers = Append(@, t)]
     /\ tracked' = [tracked EXCEPT ![t] = IF back.data = <<>> THEN 0 ELSE Last(back.data)]
  /\ UNCHANGED <<length, balance, ran, written, account, freeList, next, copied, detached>>

BindAccount(b, a) ==
  /\ slices[b] = <<>>
  /\ account' = [account EXCEPT ![b] = a]
  /\ UNCHANGED <<memory, freeList, next, ghosts>>

Add(b, n) ==
  /\ n > 0
  /\ Put(b, AddImpl(Buffer(b), Fresh(n)))
  /\ next' = next + n
  /\ UNCHANGED <<account, freeList, ghosts>>

AddFragment(c, data, f) ==
  [c EXCEPT !.slices = Append(@, FragmentSlice(data, f)), !.length = @ + Len(data)]

AddBufferFragment(b, f, n) ==
  /\ tracked[f] = -1
  /\ Put(b, AddFragment(Buffer(b), Fresh(n), f))
  /\ tracked' = [tracked EXCEPT ![f] = IF n = 0 THEN 0 ELSE next + (n - 1)]
  /\ next' = next + n
  /\ UNCHANGED <<account, freeList, copied, detached>>

\* addFragments() of two fragments, the first of m bytes: both go into the
\* last slice if they fit (an empty buffer gets a slice that fits), else one
\* after the other through addImpl().
AddTwo(c, data, m) ==
  LET d == IF c.slices = <<>> THEN EmplaceBackNew(c, SliceSize(Len(data)), <<>>) ELSE c
  IN IF BackRoom(d) >= Len(data) THEN [AppendToBack(d, data) EXCEPT !.length = @ + Len(data)]
     ELSE AddImpl(AddImpl(d, SubSeq(data, 1, m)), SubSeq(data, m + 1, Len(data)))

AddFragments(b, m, n) ==
  /\ m <= n
  /\ Put(b, AddTwo(Buffer(b), Fresh(n), m))
  /\ next' = next + n
  /\ UNCHANGED <<account, freeList, ghosts>>

\* add(const Instance&): r keeps its bytes.
AddInstance(b, r) ==
  /\ length[r] > 0 /\ Bytes(slices[r]) \cap copied = {}
  /\ Cardinality(copied \cup Bytes(slices[r])) <= MaxCopied
  /\ Put(b, AddSlices(Buffer(b), slices[r]))
  /\ copied' = copied \cup Bytes(slices[r])
  /\ UNCHANGED <<account, freeList, next, tracked, detached>>

Prepend(b, n) ==
  /\ n > 0
  /\ Put(b, PrependImpl(Buffer(b), Fresh(n)))
  /\ next' = next + n
  /\ UNCHANGED <<account, freeList, ghosts>>

\* The slices ss become the first ones, one after the other from their back.
PrependSlices(c, ss) ==
  LET taken == [i \in DOMAIN ss |-> MaybeCharged(c, ss[i])]
  IN [ChargeForAll(c, ss) EXCEPT !.slices = taken \o @, !.length = @ + Size(ss)]

\* prepend(Instance&): slice after slice from the back of r to the front of b.
PrependInstance(b, r) ==
  /\ slices[r] # <<>> /\ Len(slices[b]) + Len(slices[r]) <= MaxQueue
  /\ PutBoth(b, PrependSlices(Buffer(b), slices[r]), r, <<>>, length[r] - Size(slices[r]))
  /\ UNCHANGED <<account, freeList, next, ghosts>>

Drain(b, n) ==
  /\ Put(b, DrainImpl(Buffer(b), n))
  /\ UNCHANGED <<account, freeList, next, ghosts>>

\* Empty slices in front are dropped; the first other one leaves the buffer,
\* itself or, if it does not own its storage, as a copy: either way its
\* trackers run and its charge is credited.
Extracted(c) ==
  LET k == Min({i \in DOMAIN c.slices : DataSize(c.slices[i]) > 0})
  IN [ReleaseAll(c, SubSeq(c.slices, 1, k))
        EXCEPT !.slices = SubSeq(@, k + 1, Len(@)),
               !.length = @ - DataSize(c.slices[k])]

ExtractMutableFrontSlice(b) ==
  /\ length[b] > 0
  /\ Put(b, Extracted(Buffer(b)))
  /\ UNCHANGED <<account, freeList, next, ghosts>>

\* The first n bytes are copied to a new slice, then drained, and the new
\* slice becomes the first one.
Linearized(c, n) ==
  LET new == NewSlice(SliceSize(n), c.account, SubSeq(Flat(c.slices), 1, n))
      d == DrainImpl(Charge(c, c.account, new.cap), n)
  IN [d EXCEPT !.slices = <<new>> \o @, !.length = @ + n]

Linearize(b, n) ==
  /\ n <= length[b] /\ slices[b] # <<>> /\ DataSize(Head(slices[b])) < n
  /\ Put(b, Linearized(Buffer(b), n))
  /\ detached' = detached \cup Noted(Range(SubSeq(Flat(slices[b]), 1, n)))
  /\ UNCHANGED <<account, freeList, next, tracked, copied>>

Move(b, r) ==
  /\ slices[r] # <<>>
  /\ PutBoth(b, CoalesceOrAddSlices(Buffer(b), slices[r]),
             r, <<>>, length[r] - Size(slices[r]))
  /\ UNCHANGED <<account, freeList, next, ghosts>>

\* move() of one slice by move(rhs, length): an empty slice is only popped.
MoveSlice(c, s) == IF DataSize(s) = 0 THEN Release(c, s) ELSE CoalesceOrAddSlice(c, s)

MoveSlices(c, ss) == FoldLeft(MoveSlice, c, ss)

\* move(rhs, length) of n bytes takes slices of ss whole while they fit, then
\* a part of the next one.
Whole(ss, n) == Cardinality({i \in DOMAIN ss : End(ss, i - 1) < n /\ End(ss, i) <= n})

Part(ss, n) == IF Whole(ss, n) = Len(ss) THEN 0 ELSE n - End(ss, Whole(ss, n))

\* The bytes of that part.
PartData(ss, n) == IF Part(ss, n) = 0 THEN <<>> ELSE SubSeq(ss[Whole(ss, n) + 1].data, 1, Part(ss, n))

\* What move(rhs, length) makes of the buffer and of the other one's slices.
Moved(c, ss, n) ==
  LET moved == MoveSlices(c, SubSeq(ss, 1, Whole(ss, n)))
  IN IF Part(ss, n) = 0 THEN moved ELSE AddImpl(moved, PartData(ss, n))

MovedFrom(ss, n) ==
  LET left == SubSeq(ss, Whole(ss, n) + 1, Len(ss))
  IN IF Part(ss, n) = 0 THEN left ELSE <<Drained(Head(left), Part(ss, n))>> \o Tail(left)

MoveLength(b, r, n) ==
  LET ss == slices[r]
  IN /\ ss # <<>> /\ n > 0
     /\ PutBoth(b, Moved(Buffer(b), ss, n),
                r, MovedFrom(ss, n), length[r] - (End(ss, Whole(ss, n)) + Part(ss, n)))
     /\ detached' = detached \cup Noted(Range(PartData(ss, n)))
     /\ UNCHANGED <<account, freeList, next, tracked, copied>>

\* commit() puts the default slices that were filled at the end.
EmplaceDefault(c, data) == EmplaceBackNew(c, DefaultSliceSize, data)

EmplaceDefaults(c, chunks) == FoldLeft(EmplaceDefault, c, chunks)

\* How many bytes are reserved before the j-th default slice, if the last
\* slice of the buffer provides the first ones.
Reserved(first, j) == first + (j - 1) * DefaultSliceSize

\* How many of fresh default slices a commit() of n bytes uses.
Used(n, first, fresh) == Cardinality({j \in 1..fresh : Reserved(first, j) < n})

\* What a commit() of data finds in the j-th default slice.
Chunk(data, first, j) ==
  SubSeq(data, Reserved(first, j) + 1, Min({Len(data), Reserved(first, j) + DefaultSliceSize}))

\* commit() of data to the reservation.
Committed(c, data, first, fresh) ==
  LET committed == EmplaceDefaults(AppendToBack(c, SubSeq(data, 1, Min({first, Len(data)}))),
                     [j \in 1..Used(Len(data), first, fresh) |-> Chunk(data, first, j)])
  IN [committed EXCEPT !.length = @ + Len(data)]

\* reserveForRead(): room in the last slice if there is enough of it, then
\* default slices, from the free list first; n bytes are committed, and the
\* slices not needed return to the free list while it has room.
ReserveForReadAndCommit(b, n) ==
  LET c == WithoutEmptyBack(Buffer(b))
      max == MaxSlices * DefaultSliceSize
      reuse == BackRoom(c) >= max \/ BackRoom(c) >= MinReuse
      first == IF reuse THEN Min({BackRoom(c), max}) ELSE 0
      left(j) == max - Reserved(first, j)
      fresh == Cardinality({j \in 1..(MaxSlices - (IF reuse THEN 1 ELSE 0)) :
                  /\ left(j) > 0
                  /\ ~(DefaultSliceSize > left(j) /\ Reserved(first, j) >= DefaultSliceSize)})
  IN /\ n <= Reserved(first, fresh + 1)
     /\ Put(b, Committed(c, Fresh(n), first, fresh))
     /\ freeList' = Min({MaxSlices, Max({0, freeList - fresh}) + (fresh - Used(n, first, fresh))})
     /\ next' = next + n
     /\ UNCHANGED <<account, ghosts>>

\* reserveSingleSlice(room, separate) and commit() of data.
CommittedSingle(c, room, separate, data) ==
  LET d == IF ~separate /\ BackRoom(c) >= room THEN AppendToBack(c, data)
           ELSE IF data = <<>> THEN c ELSE EmplaceBackNew(c, SliceSize(room), data)
  IN [d EXCEPT !.length = @ + Len(data)]

ReserveSingleSliceAndCommit(b, room, separate, n) ==
  /\ room > 0 /\ n <= room
  /\ Put(b, CommittedSingle(WithoutEmptyBack(Buffer(b)), room, separate, Fresh(n)))
  /\ next' = next + n
  /\ UNCHANGED <<account, freeList, ghosts>>

\* The buffer is destroyed, and the name b is used for a new one.
Destroy(b) ==
  /\ Put(b, [ReleaseAll(Buffer(b), slices[b]) EXCEPT !.slices = <<>>, !.length = 0])
  /\ account' = [account EXCEPT ![b] = None]
  /\ UNCHANGED <<freeList, next, ghosts>>

Next ==
  \E b \in Buffers :
    \/ \E t \in Trackers : AddDrainTracker(b, t)
    \/ \E a \in Accounts : BindAccount(b, a)
    \/ \E f \in Fragments, n \in Entering : AddBufferFragment(b, f, n)
    \/ \E n \in Entering : Add(b, n) \/ Prepend(b, n)
    \/ \E m, n \in Entering : AddFragments(b, m, n)
    \/ \E n \in Entering : Rooms # {} /\ ReserveForReadAndCommit(b, n)
    \/ \E n \in Entering, room \in Rooms, separate \in BOOLEAN :
         ReserveSingleSliceAndCommit(b, room, separate, n)
    \/ \E n \in 0..MaxBytes : Drain(b, n) \/ Linearize(b, n)
    \/ ExtractMutableFrontSlice(b)
    \/ Destroy(b)
    \/ \E r \in Buffers \ {b} :
         \/ AddInstance(b, r) \/ PrependInstance(b, r) \/ Move(b, r)
         \/ \E n \in 1..MaxBytes : MoveLength(b, r, n)

Spec == Init /\ [][Next]_vars

------------------------------------------------------------------------------

\* The sections of a slice fit into its storage; bytes are numbered from 1.
Slice ==
  {s \in [data : Seq(Nat \ {0}), off : Nat, cap : Nat, owned : BOOLEAN,
          trackers : Seq(Callbacks), account : Accounts \cup {None}] : ReservableSize(s) \in Nat}

\* Every variable has its type, and a slice's sections fit into its storage.
TypeOK ==
  /\ slices \in [Buffers -> Seq(Slice)]
  /\ length \in [Buffers -> Nat]
  /\ account \in [Buffers -> Accounts \cup {None}]
  /\ balance \in [Accounts -> Nat]
  /\ ran \in [Callbacks -> Nat]
  /\ freeList \in 0..MaxSlices
  /\ next \in 1..(MaxBytes + 1)
  /\ tracked \in [Callbacks -> Nat \cup {-1}]
  /\ copied \in SUBSET Nat /\ detached \in SUBSET Nat
  /\ written \in BOOLEAN

\* length_ is the number of bytes in the slices, whatever was added, moved,
\* split, detached or drained: the assertion of OwnedImpl::length().
LengthIsSumOfSlices == \A b \in Buffers : length[b] = Size(slices[b])

\* The sum of the numbers w[b] of all buffers b.
Overall(w) == Cardinality(UNION {{b} \X (1..w[b]) : b \in Buffers})

\* What the storage of the slices ss has been charged to account a.
ChargedTo(ss, a) == Total([i \in DOMAIN ss |-> IF ss[i].account = a THEN ss[i].cap ELSE 0])

\* An account is charged exactly for the storage of the slices that name it,
\* in whichever buffer they are now: nothing is charged twice or never
\* credited when slices are coalesced, moved, extracted or destroyed.
AccountsBalance ==
  \A a \in Accounts : balance[a] = Overall([b \in Buffers |-> ChargedTo(slices[b], a)])

\* How often tracker t is attached to the slices ss.
Attached(ss, t) ==
  Total([i \in DOMAIN ss |-> Cardinality({j \in DOMAIN ss[i].trackers : ss[i].trackers[j] = t})])

\* A drain tracker is at any time attached to exactly one slice or has been
\* called, and it is called once (fragment.done() is one, and frees memory).
TrackersRunOnce ==
  \A t \in Callbacks :
    Overall([b \in Buffers |-> Attached(slices[b], t)]) + ran[t] = IF tracked[t] = -1 THEN 0 ELSE 1

InAnyBuffer == UNION {Bytes(slices[b]) : b \in Buffers}

\* A tracker does not run while the byte it was added behind is still in a
\* buffer: not when that byte's slice is moved, coalesced into another one,
\* drained in part or has other bytes added around it.  The cases in which
\* the code does call it too early (DrainTrackersFollowBytes) are left out.
TrackersRunAfterLastByte ==
  \A t \in Callbacks : ran[t] > 0 => tracked[t] \notin InAnyBuffer \ (copied \cup detached)

\* What Buffer.h says of addDrainTracker(): "the function is called only
\* after the last byte is drained from all buffers".  A copy made by
\* add(const Instance&) is another byte.
DrainTrackersFollowBytes ==
  \A t \in Trackers : ran[t] > 0 => tracked[t] \notin InAnyBuffer \ copied

\* What BufferImpl.h says of a slice made from a fragment: it is an
\* "immutable Slice"; nothing is written into memory the buffer does not own.
FragmentsAreImmutable == ~written

Contents == INSTANCE ByteBuffers WITH content <- [b \in Buffers |-> Flat(slices[b])]

\* However slices are split, shared out and coalesced, every buffer is the
\* queue of bytes that module ByteBuffers describes.
ContentSpec == Contents!Spec
==============================================================================
