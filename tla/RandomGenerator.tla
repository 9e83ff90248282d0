--------------------------- MODULE RandomGenerator ---------------------------
(***************************************************************************)
(* RandomGeneratorImpl on one thread: random() and uuid() each take from a *)
(* thread-local buffer that RAND_bytes() fills.  Words and bytes are       *)
(* numbered in the order RAND_bytes() produced them.                       *)
(***************************************************************************)
EXTENDS Naturals, Sequences, FiniteSets

CONSTANTS
  Prefetch,     \* words that random() fetches at once, 256 in the code
  BufferSize,   \* bytes that uuid() fetches at once, 2048 in the code
  MaxFetches    \* bound on the calls of RAND_bytes()

VARIABLES
  words, words_idx,     \* random(): buffered, buffered_idx
  bytes, bytes_idx,     \* uuid(): buffered, buffered_idx
  fetched,              \* how often RAND_bytes() was called
  failed,               \* history: did a call of RAND_bytes() fail?
  given                 \* history: words and first bytes of uuids handed out, in order

\* What CommonProofs assumes of the constants: a pool holds a word, or a uuid.
PoolSizes == Prefetch \in Nat \ {0} /\ BufferSize \in Nat /\ BufferSize >= 16

vars == <<words, words_idx, bytes, bytes_idx, fetched, failed, given>>

UuidBytes == 16
UuidLength == 36

Init ==
  /\ words = [i \in 1..Prefetch |-> 0] /\ words_idx = Prefetch
  /\ bytes = [i \in 1..BufferSize |-> 0] /\ bytes_idx = BufferSize
  /\ fetched = 0 /\ failed = FALSE /\ given = <<>>

\* RAND_bytes(): the buffer is new, or as it was when the call fails; the result
\* is not looked at.
RandBytes(buffer, ok) ==
  IF ok THEN [i \in DOMAIN buffer |-> fetched * (Prefetch + BufferSize) + i] ELSE buffer

\* Mutant of WordsUsedUp: one word too many is read.
WordsUsedUpLate == words_idx > Prefetch

WordsUsedUp == words_idx >= Prefetch

Random ==
  \E ok \in BOOLEAN :
    /\ words' = IF WordsUsedUp THEN RandBytes(words, ok) ELSE words
    /\ words_idx' = IF WordsUsedUp THEN 1 ELSE words_idx + 1
    /\ fetched' = fetched + (IF WordsUsedUp THEN 1 ELSE 0)
    /\ failed' = (failed \/ (WordsUsedUp /\ ~ok))
    /\ given' = Append(given, [kind |-> "word", at |-> words_idx',
                 what |-> IF words_idx' \in DOMAIN words' THEN words'[words_idx'] ELSE 0])
    /\ UNCHANGED <<bytes, bytes_idx>>

BytesUsedUp == bytes_idx + UuidBytes > BufferSize

Uuid ==
  \E ok \in BOOLEAN :
    /\ bytes' = IF BytesUsedUp THEN RandBytes(bytes, ok) ELSE bytes
    /\ bytes_idx' = (IF BytesUsedUp THEN 0 ELSE bytes_idx) + UuidBytes
    /\ fetched' = fetched + (IF BytesUsedUp THEN 1 ELSE 0)
    /\ failed' = (failed \/ (BytesUsedUp /\ ~ok))
    /\ given' = Append(given, [kind |-> "uuid", at |-> bytes_idx',
                               what |-> bytes'[bytes_idx' - UuidBytes + 1]])
    /\ UNCHANGED <<words, words_idx>>

\* How far the loops of uuid() move the two hex digits of byte i: by one for each
\* hyphen in front of it.
Shift(i) == CASE i < 4 -> 0 [] i \in 4..5 -> 1 [] i \in 6..7 -> 2 [] i \in 8..9 -> 3 [] OTHER -> 4

\* The text of a uuid: which half of which byte is at a position, or a hyphen.
Hyphen == <<UuidBytes, 0>>
UuidText ==
  [p \in 0..(UuidLength - 1) |->
     {d \in (0..(UuidBytes - 1)) \X (0..1) : 2 * d[1] + Shift(d[1]) + d[2] = p} \cup
     (IF p \in {8, 13, 18, 23} THEN {Hyphen} ELSE {})]

Next == fetched < MaxFetches /\ (Random \/ Uuid)
Spec == Init /\ [][Next]_vars
------------------------------------------------------------------------------
\* random() and uuid() stay inside their buffers and never hand out the same
\* random data twice, across refills, unless RAND_bytes() failed.  (Its result is
\* ignored: the assertion on it is commented out.)
DataIsFresh ==
  /\ \A i \in DOMAIN given :
       given[i].at \in 1..(IF given[i].kind = "word" THEN Prefetch ELSE BufferSize)
  /\ ~failed => \A i, j \in DOMAIN given :
       i # j /\ given[i].kind = given[j].kind => given[i].what # given[j].what

\* Also, each of the 36 characters of a uuid is written exactly once, in groups of
\* 8, 4, 4, 4 and 12.
RandomDataIsUsedOnce ==
  /\ DataIsFresh
  /\ \A p \in DOMAIN UuidText :
       /\ Cardinality(UuidText[p]) = 1
       /\ UuidText[p] = {Hyphen} <=> p \in {8, 13, 18, 23}
==============================================================================
