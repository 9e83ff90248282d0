--------------------------- MODULE TrieLookupTable ---------------------------
(***************************************************************************)
(* TrieLookupTable: a tree of TrieEntry with one branch per byte.  A node  *)
(* is named by the bytes on its way from the root; NoValue is nullptr.     *)
(***************************************************************************)
EXTENDS Naturals, Sequences, FiniteSets

CONSTANTS
  Byte,         \* the bytes of keys
  MaxKey,       \* the longest key
  TrieValue,    \* the values of entries
  NoValue       \* nullptr, not one of them

VARIABLES
  entries,      \* the nodes with their value_
  table         \* history: what add() stored last for each key

\* What CommonProofs assumes of the constants: nullptr is no value.
ValuesAreNotNull == NoValue \notin TrieValue /\ MaxKey \in Nat

vars == <<entries, table>>

Key == UNION {[1..n -> Byte] : n \in 0..MaxKey}

Prefix(key, n) == SubSeq(key, 1, n)

Init ==
  /\ entries = [k \in {<<>>} |-> NoValue]
  /\ table = [k \in {} |-> NoValue]

\* add(): creates the nodes on the way; an existing value stays when
\* overwrite_existing is false, and the answer is then false.
Add(key, value, overwrite_existing) ==
  LET made == DOMAIN entries \cup {Prefix(key, n) : n \in 1..Len(key)}
      current == IF key \in DOMAIN entries THEN entries[key] ELSE NoValue
      kept == current # NoValue /\ ~overwrite_existing
  IN  /\ entries' = [k \in made |->
                       IF k = key /\ ~kept THEN value
                       ELSE IF k \in DOMAIN entries THEN entries[k] ELSE NoValue]
      /\ table' = IF key \in DOMAIN table /\ ~overwrite_existing THEN table
                  ELSE [k \in DOMAIN table \cup {key} |-> IF k = key THEN value ELSE table[k]]

Find(key) == IF key \in DOMAIN entries THEN entries[key] ELSE NoValue

\* The nodes with a value that the loop of findLongestPrefix() has been at when it
\* has used n bytes: it looks at a node only when another byte follows.
Passed(key, n) == {m \in 0..(n - 1) : entries[Prefix(key, m)] # NoValue}

\* findLongestPrefix(): a byte without a branch ends the search with the last value
\* that was passed; the end of the key ends it at the node that was reached.
FindLongestPrefix(key) ==
  LET missing == {n \in 1..Len(key) : Prefix(key, n) \notin DOMAIN entries}
      stop == CHOOSE n \in missing : \A m \in missing : n <= m
  IN  IF missing = {} THEN entries[key]
      ELSE LET passed == Passed(key, stop)
           IN  IF passed = {} THEN NoValue
               ELSE entries[Prefix(key, CHOOSE m \in passed : \A o \in passed : o <= m)]

Next ==
  \E key \in Key, value \in TrieValue, overwrite \in BOOLEAN : Add(key, value, overwrite)

Spec == Init /\ [][Next]_vars
------------------------------------------------------------------------------
\* The stored keys that are prefixes of key, and the value of the longest.
StoredPrefixes(key) == {n \in 0..Len(key) : Prefix(key, n) \in DOMAIN table}
LongestStored(key) ==
  LET stored == StoredPrefixes(key)
  IN  IF stored = {} THEN NoValue
      ELSE table[Prefix(key, CHOOSE n \in stored : \A m \in stored : m <= n)]

\* find() returns what was stored under the key and nothing for other keys, inner
\* nodes included; findLongestPrefix() returns the value of the longest stored
\* prefix when the key leaves the trie, or is stored itself.
LookupsAgree ==
  \A key \in Key :
    /\ Find(key) = (IF key \in DOMAIN table THEN table[key] ELSE NoValue)
    /\ key \notin DOMAIN entries \/ key \in DOMAIN table =>
         FindLongestPrefix(key) = LongestStored(key)
==============================================================================
