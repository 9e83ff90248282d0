---------------------------- MODULE BufferStorage ----------------------------
(***************************************************************************)
(* Who owns the memory of buffers: slices, reservations that were not      *)
(* committed yet, the free list of the thread, slices that were extracted, *)
(* and the callers that handed fragments over.  The buffers are those of   *)
(* one thread and share its free list; a buffer is not changed between     *)
(* a reservation and its commit().                                         *)
(***************************************************************************)
EXTENDS Integers, Sequences, SequencesExt, FiniteSets, FiniteSetsExt

CONSTANTS
  Buffer,
  Block, NULL,      \* blocks of memory, and the null pointer
  MAX_SLICES,       \* Reservation::MAX_SLICES_, also the limit of the free list
  SliceBytes,       \* Slice::default_slice_size_
  Fill,             \* the bytes that add() leaves in a new slice
  Request           \* lengths to reserve

VARIABLES
  slices,       \* buffer -> slices: the block, its capacity, the bytes used, its fragment
  reservation,  \* buffer -> its Reservation or ReservationSingleSlice
  free_list,    \* free_list_
  extracted,    \* the blocks of SliceData objects
  external      \* the blocks of callers: block -> "made", "in buffer" or "kept"

vars == <<slices, reservation, free_list, extracted, external>>

\* Memory is finite, and the limits of the code are not zero.
StorageSizes ==
  /\ NULL \notin Block /\ IsFiniteSet(Block)
  /\ MAX_SLICES \in Nat \ {0} /\ SliceBytes \in Nat \ {0}
  /\ Fill \subseteq Nat /\ Request \subseteq Nat

------------------------------------------------------------------------------
(* Memory *)

\* RawSlices and the SizedStorages of slices_owner_; without a block the space is in the
\* last slice of the buffer.  wanted is the length that was asked for.
NoReservation == [kind |-> "none", raw |-> <<>>, owned |-> <<>>, wanted |-> 0]

\* Reservation::length()
Length(raw) == FoldLeft(+, 0, raw)

\* A ReservationSingleSlice: one RawSlice and its owner.
SingleSlice(length, mem) == [kind |-> "single", raw |-> <<length>>, owned |-> <<mem>>, wanted |-> length]

\* Where blocks are, and the sequence of the blocks of each place.
Places == {<<"free">>} \cup ({"slices", "reserved"} \X Buffer)
Content(p) ==
  CASE p[1] = "free" -> free_list
    [] p[1] = "slices" -> [i \in DOMAIN slices[p[2]] |-> slices[p[2]][i].mem]
    [] p[1] = "reserved" -> reservation[p[2]].owned
Blocks(p) == ToSet(Content(p)) \ {NULL}
Held == extracted \cup DOMAIN external \cup UNION {Blocks(p) : p \in Places}

\* new uint8_t[]
NewMemory == CHOOSE m \in Block \ Held : TRUE
MemoryLeft(n) == Cardinality(Block \ Held) >= n

NewSlice(mem, used) == [mem |-> mem, cap |-> SliceBytes, used |-> used, releasor |-> "own"]

\* The releasor, if there is one, lets the caller delete the block; else it keeps it.
Done(mem, releasor) ==
  external' = IF releasor = "given" THEN [m \in DOMAIN external \ {mem} |-> external[m]]
              ELSE [external EXCEPT ![mem] = "kept"]

\* The destructor of a slice frees its storage or runs the drain tracker that calls done().
DestroySlice(s) == IF s.releasor = "own" THEN UNCHANGED external ELSE Done(s.mem, s.releasor)

WithoutEmpty(list) ==
  LET full == {i \in DOMAIN list : list[i].used > 0} IN SubSeq(list, 1, Max({0} \cup full))

------------------------------------------------------------------------------
(* Reservations *)

\* Mutant of Popped: newStorage() does not take the block off the list.
NotPopped(list) == list

\* newStorage(): the newest block of the free list, or a new one, for the i-th storage.
Popped(list) == Front(list)
Take(state, i) ==
  IF state.list # <<>>
  THEN [state EXCEPT !.owned = Append(@, Last(state.list)), !.list = Popped(state.list)]
  ELSE [state EXCEPT !.owned = Append(@, CHOOSE m \in Block \ (Held \cup ToSet(state.owned)) : TRUE)]

TakeStorages(n) == FoldLeft(Take, [owned |-> <<>>, list |-> free_list], [i \in 1..n |-> i])

\* The loop of reserveWithMaxLength() goes on when n blocks were taken in addition to some
\* reserved bytes; and the number of blocks that it takes.
GoesOn(n, reserved, max_length, room) ==
  LET r == reserved + n * SliceBytes IN
  /\ r < max_length /\ n < room
  /\ ~(SliceBytes > max_length - r /\ r >= SliceBytes)
BlocksFor(reserved, max_length, room) ==
  Min({n \in 0..room : ~GoesOn(n, reserved, max_length, room)})

Reservable(list) == IF list = <<>> THEN 0 ELSE Last(list).cap - Last(list).used

Idle(b) == reservation[b] = NoReservation

\* reserveWithMaxLength() and reserveForRead()
Reserve(b, max_length) ==
  LET list == WithoutEmpty(slices[b])
      reservable == Reservable(list)
      tail == reservable >= max_length \/ reservable >= SliceBytes \div 8
      reserved == IF tail THEN Min({reservable, max_length}) ELSE 0
      first == IF tail THEN 1 ELSE 0
      n == BlocksFor(reserved, max_length, MAX_SLICES - first)
      taken == TakeStorages(n)
  IN  /\ Idle(b) /\ MemoryLeft(n) /\ max_length > 0
      /\ slices' = [slices EXCEPT ![b] = list]
      /\ free_list' = taken.list
      /\ reservation' = [reservation EXCEPT ![b] =
           [kind |-> "multiple", wanted |-> max_length,
            raw |-> (IF tail THEN <<reserved>> ELSE <<>>) \o [i \in 1..n |-> SliceBytes],
            owned |-> (IF tail THEN <<NULL>> ELSE <<>>) \o taken.owned]]
      /\ UNCHANGED <<extracted, external>>

\* reserveSingleSlice(); its storage comes from newStorage() of Slice.
ReserveSingleSlice(b, length, separate_slice) ==
  LET list == WithoutEmpty(slices[b])
      tail == ~separate_slice /\ Reservable(list) >= length
  IN  /\ Idle(b) /\ MemoryLeft(1) /\ length \in 1..SliceBytes
      /\ slices' = [slices EXCEPT ![b] = list]
      /\ reservation' = [reservation EXCEPT ![b] =
           SingleSlice(length, IF tail THEN NULL ELSE NewMemory)]
      /\ UNCHANGED <<free_list, extracted, external>>

\* free_list_ref_.size() < free_list_max_
HasRoom(list) == Len(list) < MAX_SLICES

\* The destructor of the owner, after a commit() or without one: the last storage first;
\* those beyond the limit are freed.
Recycle(list, mem) == IF mem # NULL /\ HasRoom(list) THEN Append(list, mem) ELSE list
GiveBack(owned) == FoldLeft(Recycle, free_list, Reverse(owned))

\* One turn of the loop of commit(): a raw slice is filled if bytes remain; its storage, if
\* it has one, moves into a new slice.
Place(state, piece) ==
  LET len == Min({piece.len, state.remaining}) IN
  IF state.remaining = 0 THEN [state EXCEPT !.left = Append(@, piece.mem)]
  ELSE [slices |-> IF piece.mem = NULL
                   THEN [state.slices EXCEPT ![Len(state.slices)].used = @ + len]
                   ELSE Append(state.slices, NewSlice(piece.mem, len)),
        left |-> Append(state.left, NULL),
        remaining |-> state.remaining - len]

\* commit() of the buffer; the owner goes with the storages that are left.
Placed(b, length) ==
  FoldLeft(Place, [slices |-> slices[b], left |-> <<>>, remaining |-> length],
           [i \in DOMAIN reservation[b].raw |->
              [len |-> reservation[b].raw[i], mem |-> reservation[b].owned[i]]])
CommitSlices(b, length) ==
  LET done == Placed(b, length) IN
  /\ slices' = [slices EXCEPT ![b] = done.slices]
  /\ free_list' = IF reservation[b].kind = "multiple" THEN GiveBack(done.left) ELSE free_list

\* commit() of the reservation, which leaves it empty.
Commit(b, length) ==
  /\ ~Idle(b) /\ length <= Length(reservation[b].raw)
  /\ CommitSlices(b, length)
  /\ reservation' = [reservation EXCEPT ![b] = NoReservation]
  /\ UNCHANGED <<extracted, external>>

\* The destructor of a Reservation that is not committed.
Discard(b) ==
  /\ ~Idle(b)
  /\ free_list' = IF reservation[b].kind = "multiple" THEN GiveBack(reservation[b].owned) ELSE free_list
  /\ reservation' = [reservation EXCEPT ![b] = NoReservation]
  /\ UNCHANGED <<slices, extracted, external>>

------------------------------------------------------------------------------
(* Slices and fragments *)

\* add(), where a new slice is needed.
AddSlice(b, n) ==
  /\ Idle(b) /\ MemoryLeft(1)
  /\ slices' = [slices EXCEPT ![b] = Append(@, NewSlice(NewMemory, n))]
  /\ UNCHANGED <<reservation, free_list, extracted, external>>

\* The caller makes a fragment: BufferFragmentImpl, or OwnedBufferFragmentImpl::create(),
\* which copies and always has a releasor.
MakeFragment ==
  /\ MemoryLeft(1)
  /\ external' = [m \in DOMAIN external \cup {NewMemory} |->
                    IF m = NewMemory THEN "made" ELSE external[m]]
  /\ UNCHANGED <<slices, reservation, free_list, extracted>>

\* addBufferFragment(): the slice is full and does not own its memory.
AddBufferFragment(b, m, releasor) ==
  /\ Idle(b) /\ external[m] = "made"
  /\ external' = [external EXCEPT ![m] = "in buffer"]
  /\ slices' = [slices EXCEPT ![b] =
       Append(@, [mem |-> m, cap |-> SliceBytes, used |-> SliceBytes, releasor |-> releasor])]
  /\ UNCHANGED <<reservation, free_list, extracted>>

\* A caller deletes a block that it kept.
DeleteKept(m) ==
  /\ external[m] = "kept"
  /\ external' = [k \in DOMAIN external \ {m} |-> external[k]]
  /\ UNCHANGED <<slices, reservation, free_list, extracted>>

\* drain() of a whole slice.
DrainFront(b) ==
  /\ Idle(b) /\ slices[b] # <<>>
  /\ DestroySlice(Head(slices[b]))
  /\ slices' = [slices EXCEPT ![b] = Tail(@)]
  /\ UNCHANGED <<reservation, free_list, extracted>>

\* storage_ != nullptr
IsMutable(s) == s.releasor = "own"

\* extractMutableFrontSlice(): the memory of a fragment is copied, then done() is called.
ExtractMutableFrontSlice(b) ==
  /\ Idle(b) /\ slices[b] # <<>> /\ MemoryLeft(1)
  /\ LET s == Head(slices[b]) IN
     IF IsMutable(s) THEN extracted' = extracted \cup {s.mem} /\ UNCHANGED external
     ELSE extracted' = extracted \cup {NewMemory} /\ DestroySlice(s)
  /\ slices' = [slices EXCEPT ![b] = Tail(@)]
  /\ UNCHANGED <<reservation, free_list>>

\* The caller of extractMutableFrontSlice() is done with the SliceData.
DeleteSliceData(m) ==
  /\ m \in extracted /\ extracted' = extracted \ {m}
  /\ UNCHANGED <<slices, reservation, free_list, external>>

Init ==
  /\ slices = [b \in Buffer |-> <<>>] /\ reservation = [b \in Buffer |-> NoReservation]
  /\ free_list = <<>> /\ extracted = {} /\ external = [m \in {} |-> "made"]

Next ==
  \/ \E b \in Buffer :
       \/ \E n \in Request : Reserve(b, n)
       \/ \E n \in Request, separate \in BOOLEAN : ReserveSingleSlice(b, n, separate)
       \/ \E n \in Request \cup {0} : Commit(b, n)
       \/ Discard(b)
       \/ \E n \in Fill : AddSlice(b, n)
       \/ \E m \in DOMAIN external, releasor \in {"given", "none"} : AddBufferFragment(b, m, releasor)
       \/ DrainFront(b) \/ ExtractMutableFrontSlice(b)
  \/ MakeFragment
  \/ \E m \in DOMAIN external : DeleteKept(m)
  \/ \E m \in Block : DeleteSliceData(m)

Spec == Init /\ [][Next]_vars
------------------------------------------------------------------------------
\* However reservations of several buffers, commits, fragments and extracted slices
\* interleave, a block is in one place only, and once; a caller's block is never one that
\* the buffer gives away as its own or recycles; and the free list stays within its limit.
NoBlockTwice(list) ==
  \A i, j \in DOMAIN list : list[i] = list[j] /\ list[i] # NULL => i = j
MemoryHasOneOwner ==
  /\ \A p \in Places :
       /\ NoBlockTwice(Content(p))
       /\ \A q \in Places \ {p} : Blocks(p) \cap Blocks(q) = {}
       /\ Blocks(p) \cap extracted = {}
       /\ \A m \in Blocks(p) \cap DOMAIN external : p[1] = "slices" /\ external[m] = "in buffer"
  /\ extracted \cap DOMAIN external = {}
  /\ Len(free_list) <= MAX_SLICES

\* A reservation has at most MAX_SLICES raw slices with a storage for each; it falls
\* short of what was asked for by a whole slice only if it has that many, and exceeds it
\* only if less than one slice was reserved before the last one; the space in front of
\* its own storages is still there in the buffer.
ReservationsFit ==
  \A b \in Buffer :
    LET r == reservation[b]
        length == Length(r.raw)
    IN  r.kind # "none" =>
        /\ Len(r.raw) = Len(r.owned) /\ Len(r.raw) \in 1..MAX_SLICES
        /\ r.wanted - length >= SliceBytes => Len(r.raw) = MAX_SLICES
        /\ length > r.wanted => length - Last(r.raw) < SliceBytes
        /\ \A i \in DOMAIN r.raw : r.owned[i] = NULL => i = 1 /\ r.raw[1] <= Reservable(slices[b])
==============================================================================
