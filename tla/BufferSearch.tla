----------------------------- MODULE BufferSearch -----------------------------
(***************************************************************************)
(* OwnedImpl::search() (BufferImpl.cpp): looks for a needle in a buffer    *)
(* whose bytes lie in several slices, some of them empty, so that a match  *)
(* may begin in one slice and end in a later one.  One step is one turn of *)
(* one of its three nested loops.  Positions count from 0, as in the code; *)
(* left_to_search is unsigned, of Word values.                             *)
(***************************************************************************)
EXTENDS Integers, Sequences, FiniteSets, FiniteSetsExt

CONSTANTS
  Byte,         \* the values of a byte
  MaxSlice,     \* bound: the longest slice
  MaxSlices,    \* bound: the number of slices
  MaxBytes,     \* bound: the longest buffer
  MaxNeedle,    \* bound: the longest needle
  Word          \* 2^64 in the code

Upto(n) == UNION {[1..k -> Byte] : k \in 0..n}

VARIABLES
  hay, needle, from, limit,   \* slices_ and the arguments data, start, length
  slice_index, start, left_to_search, offset, haystack,
  first_byte_match, saved_left_to_search, i, match_index, match_next,
  result, pc

input == <<hay, needle, from, limit>>
match == <<first_byte_match, saved_left_to_search, i, match_index, match_next>>
vars == <<input, slice_index, start, left_to_search, offset, haystack, match, result, pc>>

Size(k) == Len(hay[k])

Total == LET sum[k \in 0..Len(hay)] == IF k = 0 THEN 0 ELSE sum[k - 1] + Size(k)
         IN sum[Len(hay)]

Init ==
  /\ hay = <<>> /\ needle = <<>> /\ from = 0 /\ limit = 0
  /\ slice_index = 1 /\ start = 0 /\ left_to_search = 0 /\ offset = 0 /\ haystack = 0
  /\ first_byte_match = 0 /\ saved_left_to_search = 0
  /\ i = 0 /\ match_index = 0 /\ match_next = 0
  /\ result = -1 /\ pc = "out"

\* search() is called.  The empty needle is found at once; otherwise left_to_search
\* is set, and wraps around if start is behind the end of the buffer.
Search ==
  /\ pc = "out"
  /\ hay' \in [1..MaxSlices -> Upto(MaxSlice)] /\ Total' <= MaxBytes
  /\ needle' \in Upto(MaxNeedle)
  /\ from' \in 0..(MaxBytes + 1)
  /\ limit' \in 0..MaxBytes
  /\ start' = from'
  /\ left_to_search' = IF limit' = 0 THEN (Total' - from') % Word ELSE limit'
  /\ result' = IF needle' = <<>> /\ from' <= Total' THEN from' ELSE -1
  /\ pc' = IF needle' = <<>> THEN "done" ELSE "slice"
  /\ UNCHANGED <<slice_index, offset, haystack, match>>

\* The outer loop: a slice that lies before start is skipped.
NextSlice ==
  /\ pc = "slice"
  /\ slice_index <= Len(hay) /\ left_to_search > 0
  /\ IF Size(slice_index) <= start
     THEN /\ start' = start - Size(slice_index)
          /\ offset' = offset + Size(slice_index)
          /\ slice_index' = slice_index + 1
          /\ UNCHANGED <<haystack, pc>>
     ELSE /\ haystack' = start
          /\ pc' = "scan"
          /\ UNCHANGED <<slice_index, start, offset>>
  /\ UNCHANGED <<input, left_to_search, match, result>>

NotFound ==
  /\ pc = "slice"
  /\ ~(slice_index <= Len(hay) /\ left_to_search > 0)
  /\ pc' = "done"
  /\ UNCHANGED <<input, slice_index, start, left_to_search, offset, haystack, match, result>>

\* slice_search_limit
Searched == Min({Size(slice_index) - haystack, left_to_search})

\* The middle loop: memchr() for the first byte of the needle in what is left
\* of the slice.
Scan ==
  LET found == {p \in haystack..(haystack + Searched - 1) :
                  hay[slice_index][p + 1] = needle[1]}
  IN /\ pc = "scan"
     /\ IF haystack < Size(slice_index) /\ found # {}
        THEN /\ first_byte_match' = Min(found)
             /\ left_to_search' = left_to_search - (Min(found) - haystack + 1)
             /\ saved_left_to_search' = left_to_search'
             /\ i' = 1 /\ match_index' = slice_index /\ match_next' = Min(found) + 1
             /\ pc' = "match"
             /\ UNCHANGED <<slice_index, start, offset>>
        ELSE /\ left_to_search' = left_to_search - Searched
             /\ start' = 0
             /\ offset' = offset + Size(slice_index)
             /\ slice_index' = slice_index + 1
             /\ pc' = "slice"
             /\ UNCHANGED match
     /\ UNCHANGED <<input, haystack, result>>

\* A slip: scanning goes on at the byte that was just tried.
MatchFailsSameByte ==
  /\ haystack' = first_byte_match
  /\ left_to_search' = saved_left_to_search + 1
  /\ pc' = "scan"
  /\ UNCHANGED result

\* The attempt to match ends: all of the needle matched, or scanning goes on
\* behind its first byte with left_to_search as it was there.
MatchFails ==
  /\ haystack' = first_byte_match + 1
  /\ left_to_search' = saved_left_to_search
  /\ pc' = "scan"
  /\ UNCHANGED result

MatchEnds ==
  /\ pc = "match"
  /\ \/ /\ i = Len(needle)
        /\ result' = offset + first_byte_match
        /\ pc' = "done"
        /\ UNCHANGED <<haystack, left_to_search>>
     \/ /\ i < Len(needle)
        /\ \/ left_to_search = 0
           \/ match_next >= Size(match_index) /\ match_index = Len(hay)
        /\ MatchFails
  /\ UNCHANGED <<input, slice_index, start, offset, match>>

\* The match goes on in the next slice.
NextMatchSlice ==
  /\ match_index < Len(hay)
  /\ match_index' = match_index + 1
  /\ match_next' = 0
  /\ UNCHANGED <<i, left_to_search, haystack, pc, result>>

\* The inner loop: the next byte of the needle.
MatchByte ==
  /\ pc = "match"
  /\ i < Len(needle) /\ left_to_search > 0
  /\ \/ match_next >= Size(match_index) /\ NextMatchSlice
     \/ /\ match_next < Size(match_index)
        /\ hay[match_index][match_next + 1] = needle[i + 1]
        /\ left_to_search' = left_to_search - 1
        /\ i' = i + 1 /\ match_next' = match_next + 1
        /\ UNCHANGED <<match_index, haystack, pc, result>>
     \/ /\ match_next < Size(match_index)
        /\ hay[match_index][match_next + 1] # needle[i + 1]
        /\ MatchFails
        /\ match_next' = match_next + 1
        /\ UNCHANGED <<i, match_index>>
  /\ UNCHANGED <<input, slice_index, start, offset, first_byte_match, saved_left_to_search>>

Next == Search \/ NextSlice \/ NotFound \/ Scan \/ MatchEnds \/ MatchByte

Spec == Init /\ [][Next]_vars

------------------------------------------------------------------------------
\* What Buffer.h says: the first position from start on at which the needle
\* lies, within length bytes from start if length is not zero.

Flat == LET prefix[k \in 0..Len(hay)] == IF k = 0 THEN <<>> ELSE prefix[k - 1] \o hay[k]
        IN prefix[Len(hay)]

SearchEnd == IF limit = 0 THEN Total ELSE Min({Total, from + limit})

Matches ==
  {p \in from..(SearchEnd - Len(needle)) :
     \A j \in DOMAIN needle : Flat[p + j] = needle[j]}

\* search() returns what its documentation says for every way in which the
\* bytes are divided among slices, wherever the match crosses their borders
\* and wherever start and length fall.
FindsFirstMatch ==
  pc = "done" =>
    result = IF needle = <<>> THEN (IF from <= Total THEN from ELSE -1)
             ELSE IF Matches = {} THEN -1 ELSE Min(Matches)

\* left_to_search only wraps around when start is behind the end, and then
\* no byte is looked at: otherwise it never exceeds what the caller allowed,
\* so that no subtraction from it has wrapped.
LeftToSearchStaysInRange ==
  left_to_search \in 0..(IF from > Total THEN Word - 1 ELSE Max({limit, Total - from}))

\* How far the loops have got: slices done, bytes of the slice passed, and how far
\* the attempt to match at hand has come.
Progress ==
  <<IF pc = "done" THEN Len(hay) + 2 ELSE slice_index, IF pc = "slice" THEN 0 ELSE 1,
    haystack, IF pc = "match" THEN 1 ELSE 0, i + match_index>>

\* Every turn of the nested loops gets further, so that search() ends: a partial match
\* that is given up does not start again at the same byte, and an empty slice is not
\* tried again.
Progresses ==
  [][pc # "out" => \E k \in 1..5 : /\ \A j \in 1..(k - 1) : Progress[j] = Progress'[j]
                                   /\ Progress[k] < Progress'[k]]_vars
==============================================================================
