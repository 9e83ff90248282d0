----------------------------- MODULE BufferReads -----------------------------
(***************************************************************************)
(* What reads a buffer and leaves it as it is: copyOut(),                  *)
(* copyOutToSlices(), getRawSlices(), frontSlice(), startsWith(),          *)
(* toString(), and the integers of Buffer.h, which are read and written    *)
(* across the borders of slices, some of them empty.                       *)
(***************************************************************************)
EXTENDS Integers, Sequences, SequencesExt, FiniteSetsExt

CONSTANTS
  Base,        \* the values of a byte are 0..Base-1 (256 in the code)
  Width,       \* sizeof(T)
  MaxSlices, MaxBytes

VARIABLE slices   \* slices_: the bytes of each slice

Init == slices = <<>>
\* The caller passes another buffer.
Next ==
  \/ Len(slices) < MaxSlices /\ slices' = Append(slices, <<>>)
  \/ /\ slices # <<>> /\ Len(FlattenSeq(slices)) < MaxBytes
     /\ \E byte \in 0..(Base - 1) : slices' = [slices EXCEPT ![Len(slices)] = Append(@, byte)]
Spec == Init /\ [][Next]_slices

Minimum(a, b) == IF a < b THEN a ELSE b
Length == FoldLeft(LAMBDA n, s : n + Len(s), 0, slices)

------------------------------------------------------------------------------
(* OwnedImpl *)

\* Mutant of Skipped: the offset is applied to every slice.
SkippedAgain(bytes_to_skip) == bytes_to_skip

\* bytes_to_skip after a slice that was copied from.
Skipped(bytes_to_skip) == 0

CopyOut(start, size) ==
  LET Copy(state, slice) ==
        IF state.size = 0 THEN state
        ELSE IF Len(slice) <= state.bytes_to_skip
        THEN [state EXCEPT !.bytes_to_skip = @ - Len(slice)]
        ELSE LET copy_size == Minimum(state.size, Len(slice) - state.bytes_to_skip)
                 skip == state.bytes_to_skip
             IN  [bytes_to_skip |-> Skipped(skip), size |-> state.size - copy_size,
                  dest |-> state.dest \o SubSeq(slice, skip + 1, skip + copy_size)]
  IN  FoldLeft(Copy, [bytes_to_skip |-> start, size |-> size, dest |-> <<>>], slices).dest

\* One turn of the loop of copyOutToSlices(), for destinations of the lengths lens.
CopyTurn(lens, total, state) ==
  LET source == slices[state.src]
      copied == Minimum(Len(source) - state.src_offset,
                        Minimum(lens[state.dst] - state.dst_offset, total - state.read))
      src_ends == state.src_offset + copied = Len(source)
      dst_ends == state.dst_offset + copied = lens[state.dst]
  IN  [src |-> IF src_ends THEN state.src + 1 ELSE state.src,
       src_offset |-> IF src_ends THEN 0 ELSE state.src_offset + copied,
       dst |-> IF dst_ends THEN state.dst + 1 ELSE state.dst,
       dst_offset |-> IF dst_ends THEN 0 ELSE state.dst_offset + copied,
       read |-> state.read + copied,
       mem |-> [state.mem EXCEPT ![state.dst] =
                  @ \o SubSeq(source, state.src_offset + 1, state.src_offset + copied)]]

\* The memory filled, as one sequence for each destination.
RECURSIVE CopyLoop(_, _, _)
CopyLoop(lens, total, state) ==
  IF state.dst > Len(lens) \/ state.read = total THEN state
  ELSE CopyLoop(lens, total, CopyTurn(lens, total, state))
CopyOutToSlices(size, lens) ==
  CopyLoop(lens, Minimum(size, Length),
           [src |-> 1, src_offset |-> 0, dst |-> 1, dst_offset |-> 0, read |-> 0,
            mem |-> [i \in DOMAIN lens |-> <<>>]])

GetRawSlices(max_slices) ==
  LET max_out == Minimum(Len(slices), max_slices)
      Add(raw, slice) == IF Len(raw) >= max_out \/ slice = <<>> THEN raw ELSE Append(raw, slice)
  IN  FoldLeft(Add, <<>>, slices)

FrontSlice ==
  LET full == {i \in DOMAIN slices : slices[i] # <<>>}
  IN  IF full = {} THEN <<>> ELSE slices[Min(full)]

\* startsWith(): compares a slice at a time; "more" while the prefix is not used up.
StartsWith(data) ==
  LET Compare(state, slice) ==
        IF state.answer # "more" THEN state
        ELSE IF Len(slice) >= Len(state.prefix)
        THEN [state EXCEPT !.answer = IF SubSeq(slice, 1, Len(state.prefix)) = state.prefix THEN "yes" ELSE "no"]
        ELSE IF SubSeq(state.prefix, 1, Len(slice)) # slice THEN [state EXCEPT !.answer = "no"]
        ELSE [state EXCEPT !.prefix = SubSeq(@, Len(slice) + 1, Len(@))]
  IN  /\ Length >= Len(data)
      /\ data = <<>> \/ FoldLeft(Compare, [prefix |-> data, answer |-> "more"], slices).answer = "yes"

AsString == FlattenSeq(GetRawSlices(Len(slices)))

------------------------------------------------------------------------------
(* Integers, on a little-endian host: byte 1 of an integer in memory counts least. *)

ValueOf(bytes) == FoldRight(LAMBDA byte, value : byte + Base * value, bytes, 0)
BytesOf(value) == [i \in 1..Width |-> (value \div Base^(i - 1)) % Base]

\* toEndianness() and fromEndianness() swap the bytes of a big-endian integer.
Endianness(order, value) ==
  IF order = "BigEndian" THEN ValueOf(Reverse(BytesOf(value))) ELSE value
\* As a signed T.
Signed(value) == IF value >= Base^Width \div 2 THEN value - Base^Width ELSE value

Displacement(order, size) == IF order = "BigEndian" THEN Width - size ELSE 0

\* peekInt(): the bytes go where they belong in a zero, and the sign is extended.
PeekInt(order, size, signed, start) ==
  LET displacement == Displacement(order, size)
      read == CopyOut(start, size)
      bytes == [i \in 1..Width |->
                  IF i - displacement \in DOMAIN read THEN read[i - displacement] ELSE 0]
      most_significant == IF order = "BigEndian" THEN displacement + 1 ELSE size
      extends == signed /\ size < Width /\ bytes[most_significant] >= Base \div 2
      value == Endianness(order, ValueOf(bytes)) + (IF extends THEN Base^Width - Base^size ELSE 0)
  IN  IF signed THEN Signed(value) ELSE value

\* writeInt(): what it adds to the buffer.
WriteInt(order, size, value) ==
  SubSeq(BytesOf(Endianness(order, value % Base^Width)), Displacement(order, size) + 1,
         Displacement(order, size) + size)

\* pushScalarToByteVector()
PushScalarToByteVector(value) == BytesOf(value)

------------------------------------------------------------------------------
Flat == FlattenSeq(slices)
Part(start, size) == SubSeq(Flat, start + 1, start + size)
Places(n) == UNION {[1..k -> 0..2] : k \in 0..n}

\* Every read sees the bytes of the buffer in order, however they are divided among slices: copies
\* start and end anywhere and fill the destinations one after the other as far as they
\* go, empty slices never show, and a prefix may cross borders.
ReadsSeeTheContent ==
  /\ \A start \in 0..Length : \A size \in 0..(Length - start) : CopyOut(start, size) = Part(start, size)
  /\ \A size \in 0..MaxBytes : \A lens \in Places(2) :
       LET copy == CopyOutToSlices(size, lens)
           room == FoldLeft(LAMBDA a, b : a + b, 0, lens)
       IN  /\ copy.read = Min({size, room, Length})
           /\ FlattenSeq(copy.mem) = Part(0, copy.read)
           /\ \A i \in DOMAIN lens : Len(copy.mem[i]) <= lens[i]
           /\ \A i, j \in DOMAIN lens : i < j /\ copy.mem[j] # <<>> => Len(copy.mem[i]) = lens[i]
  /\ AsString = Flat /\ FlattenSeq(GetRawSlices(1)) = FrontSlice
  /\ \A max \in 0..Len(slices) :
       LET raw == GetRawSlices(max)
       IN  IsPrefix(FlattenSeq(raw), Flat) /\ Len(raw) <= max /\ <<>> \notin ToSet(raw)
  /\ \A size \in 0..Length : StartsWith(Part(0, size))
  /\ \A data \in UNION {[1..k -> 0..(Base - 1)] : k \in 0..2} : StartsWith(data) <=> IsPrefix(data, Flat)

\* An integer of any size up to that of its type is read back as it was written, in
\* either byte order and with its sign, wherever slices divide it.
IntegersAreReadBack ==
  \A order \in {"Host", "LittleEndian", "BigEndian"}, size \in 1..Width :
    \A start \in 0..(Length - size) :
      LET unsigned == PeekInt(order, size, FALSE, start)
          signed == PeekInt(order, size, TRUE, start)
      IN  /\ WriteInt(order, size, unsigned) = Part(start, size)
          /\ WriteInt(order, size, signed) = Part(start, size)
          /\ unsigned \in 0..(Base^size - 1)
          /\ signed \in -(Base^size \div 2)..(Base^size \div 2 - 1)
==============================================================================
