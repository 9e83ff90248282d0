----------------------------- MODULE ByteBuffers -----------------------------
(***************************************************************************)
(* What Buffer::Instance promises about content: every buffer is a queue   *)
(* of bytes.  Bytes are numbered in the order in which they enter the      *)
(* system, so that a byte that is lost, doubled or out of place shows.     *)
(***************************************************************************)
EXTENDS Naturals, Sequences

CONSTANTS
  Buffers,    \* the buffers
  MaxBytes    \* bound: how many bytes ever enter the system

VARIABLES
  content,    \* content[b]: the bytes of buffer b, front first
  next        \* the number of the next byte to enter

vars == <<content, next>>

Init == content = [b \in Buffers |-> <<>>] /\ next = 1

Fresh(n) == [i \in 1..n |-> next + (i - 1)]

Enters(b) ==
  \E n \in 1..MaxBytes :
    /\ \/ content' = [content EXCEPT ![b] = @ \o Fresh(n)]
       \/ content' = [content EXCEPT ![b] = Fresh(n) \o @]
    /\ next' = next + n

Drain(b) ==
  /\ \E n \in 0..Len(content[b]) :
       content' = [content EXCEPT ![b] = SubSeq(@, n + 1, Len(@))]
  /\ UNCHANGED next

\* Bytes of r are added behind those of b, and leave r or not.
Transfer(b, r) ==
  /\ \/ \E n \in 0..Len(content[r]) :
          content' = [content EXCEPT ![b] = @ \o SubSeq(content[r], 1, n),
                                     ![r] = SubSeq(@, n + 1, Len(@))]
     \/ content' = [content EXCEPT ![b] = @ \o content[r]]
     \/ content' = [content EXCEPT ![b] = content[r] \o @, ![r] = <<>>]
  /\ UNCHANGED next

Next ==
  \/ \E b \in Buffers : Enters(b) \/ Drain(b)
  \/ \E b \in Buffers : \E r \in Buffers \ {b} : Transfer(b, r)

Spec == Init /\ [][Next]_vars
==============================================================================
