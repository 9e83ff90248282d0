------------------------------ MODULE UdpSocket ------------------------------
(***************************************************************************)
(* Utility::readPacketsFromSocket(), readFromSocket() in its three forms   *)
(* (recvmsg with GRO, recvmmsg, recvmsg) and writeToSocket(), over a       *)
(* socket whose queue and drop counter the kernel changes between any two  *)
(* system calls.  A byte of a datagram is the datagram's number.           *)
(***************************************************************************)
EXTENDS Integers, Sequences, SequencesExt, FiniteSetsExt

CONSTANTS
  MaxDatagrams,         \* the datagrams that arrive
  MaxDatagramSize,      \* maxDatagramSize(): larger datagrams are truncated
  NumPerReceive,        \* NUM_DATAGRAMS_PER_RECEIVE
  Expected,             \* numPacketsExpectedPerEventLoop(), below MAX_NUM_PACKETS_PER_EVENT_LOOP
  MaxDrops,             \* the datagrams that the kernel drops
  Uint32                \* 2^32 in the code: counters wrap around at it

VARIABLES
  form,                 \* "gro", "mmsg" or "msg": what prefer_gro and the handle support
  arrived,              \* the sizes of the datagrams so far
  queue,                \* the datagrams in the socket, as sequences of bytes
  dropped,              \* history: all datagrams lost
  packets_dropped,      \* the caller's copy of the kernel's counter
  num_reads,            \* the reads left in this call, 0 outside of it
  processed,            \* the payloads given to processPacket()
  truncated,            \* history: datagrams that did not fit
  reported,             \* history: the sum of what onDatagramsDropped() was told
  sending, sent, write_results  \* writeToSocket(): in its loop, datagrams sent, results

udpVars == <<form, arrived, queue, dropped, packets_dropped, num_reads, processed, truncated, reported>>
vars == <<udpVars, sending, sent, write_results>>

\* The kernel.  A datagram of more than 2 bytes does not fit where MaxDatagramSize = 2.
Arrive(size) ==
  /\ Len(arrived) < MaxDatagrams
  /\ arrived' = Append(arrived, size)
  /\ queue' = Append(queue, [b \in 1..size |-> Len(arrived) + 1])
  /\ UNCHANGED <<form, dropped, packets_dropped, num_reads, processed, truncated, reported>>

Overflow ==
  /\ dropped < MaxDrops
  /\ dropped' = dropped + 1
  /\ UNCHANGED <<form, arrived, queue, packets_dropped, num_reads, processed, truncated, reported>>

\* GRO: the first n datagrams can be one message when all but the last have one size
\* and the last is not larger and not empty.
Coalesced(n) ==
  \/ n = 1
  \/ /\ \A i \in 1..(n - 1) : Len(queue[i]) = Len(queue[1])
     /\ Len(queue[n]) \in 1..Len(queue[1])

\* Mutant of BytesToCopy: the last segment is taken for a full one.
WholeBuffer(length, gso_size) == IF length < 2 * gso_size THEN length ELSE gso_size

\* The loop of readFromSocket() that cuts a GRO message into datagrams.
BytesToCopy(length, gso_size) == Min({length, gso_size})
Segments[buffer \in Seq(Nat), gso_size \in Nat] ==
  IF buffer = <<>> THEN <<>>
  ELSE LET n == BytesToCopy(Len(buffer), gso_size)
       IN  <<SubSeq(buffer, 1, n)>> \o Segments[SubSeq(buffer, n + 1, Len(buffer)), gso_size]

\* receiveMessage(): a message that does not fit is truncated_and_dropped_.
ReceiveMessage(max_rx_datagram_size, message) ==
  IF Len(message) > max_rx_datagram_size THEN <<>> ELSE <<message>>

\* The part with recvmmsg(): a buffer for each message; those that do not fit are skipped.
ReceiveMany(messages) == SelectSeq(messages, LAMBDA d : Len(d) <= MaxDatagramSize)

\* readFromSocket(): what n messages off the queue become.
ReadFromSocket(n) ==
  LET gso_size == IF n = 1 THEN 0 ELSE Len(queue[1])
      received == ReceiveMessage(NumPerReceive * MaxDatagramSize, FlattenSeq(SubSeq(queue, 1, n)))
  IN  CASE form = "gro" -> IF gso_size = 0 \/ received = <<>> THEN received
                           ELSE Segments[received[1], gso_size]
        [] form = "mmsg" -> ReceiveMany(SubSeq(queue, 1, n))
        [] form = "msg" -> ReceiveMessage(MaxDatagramSize, queue[1])

\* The datagrams dropped since the last read, across a wrap-around.
Delta(new, old) ==
  IF new > old THEN new - old ELSE (new + (Uint32 - 1 - old) + 1) % Uint32

\* readPacketsFromSocket(): how many reads this call makes.
ReadPacketsFromSocket ==
  /\ num_reads = 0
  /\ num_reads' = Max({1, IF form = "msg" THEN Expected ELSE Expected \div NumPerReceive})
  /\ UNCHANGED <<form, arrived, queue, dropped, packets_dropped, processed, truncated, reported>>

\* One iteration of its loop: the kernel hands over n messages and its counter.
Read(n) ==
  LET payloads == ReadFromSocket(n)
      lost == n - Len(payloads)
      now == (dropped + lost) % Uint32
  IN  /\ num_reads > 0 /\ n \in 1..Len(queue)
      /\ IF form = "gro" THEN Coalesced(n)
         ELSE n = IF form = "msg" THEN 1 ELSE Min({NumPerReceive, Len(queue)})
      /\ queue' = SubSeq(queue, n + 1, Len(queue))
      /\ processed' = processed \o payloads
      /\ truncated' = truncated + lost
      /\ dropped' = dropped + lost
      /\ packets_dropped' = now
      /\ reported' = IF now # packets_dropped THEN reported + Delta(now, packets_dropped) ELSE reported
      /\ num_reads' = num_reads - 1
      /\ UNCHANGED <<form, arrived>>

\* EAGAIN, or another error: the call returns it.
ReadFails ==
  /\ num_reads > 0
  /\ num_reads' = 0
  /\ UNCHANGED <<form, arrived, queue, dropped, packets_dropped, processed, truncated, reported>>

\* IoCallResult, from how sendmsg() ended: ok(), or an error code of which some matter.
IoErrorCode == {"Again", "Interrupt", "MessageTooBig", "UnknownError"}
Ok(result) == result \notin IoErrorCode

\* writeToSocket(): sendmsg() again as long as it is interrupted.
Retry(result) == ~Ok(result) /\ result = "Interrupt"
WriteToSocket == ~sending /\ sending' = TRUE /\ write_results = <<>> /\ UNCHANGED <<sent, write_results>>
SendMsg(result) ==
  /\ sending
  /\ sent' = IF Ok(result) THEN sent + 1 ELSE sent
  /\ sending' = Retry(result)
  /\ write_results' = IF Retry(result) THEN write_results ELSE Append(write_results, result)

\* prefer_gro_ of ResolvedUdpSocketConfig: what is configured, or the default.
PreferGro(config, default) == IF config = <<>> THEN default ELSE config[1]
ReadForm(prefer_gro, supportsUdpGro, supportsMmsg) ==
  IF prefer_gro /\ supportsUdpGro THEN "gro" ELSE IF supportsMmsg THEN "mmsg" ELSE "msg"

Init ==
  /\ \E gro, mmsg, default \in BOOLEAN : \E config \in {<<>>, <<FALSE>>, <<TRUE>>} :
       form = ReadForm(PreferGro(config, default), gro, mmsg)
  /\ arrived = <<>> /\ queue = <<>> /\ processed = <<>>
  /\ dropped = 0 /\ packets_dropped = 0 /\ num_reads = 0 /\ truncated = 0 /\ reported = 0
  /\ sending = FALSE /\ sent = 0 /\ write_results = <<>>

Next ==
  \/ /\ \/ \E size \in 0..(MaxDatagramSize + 1) : Arrive(size)
        \/ Overflow
        \/ ReadPacketsFromSocket
        \/ \E n \in 1..MaxDatagrams : Read(n)
        \/ ReadFails
     /\ UNCHANGED <<sending, sent, write_results>>
  \/ /\ \/ WriteToSocket
        \/ \E result \in IoErrorCode \cup {"ok"} : SendMsg(result)
     /\ UNCHANGED udpVars

Spec == Init /\ [][Next]_vars
------------------------------------------------------------------------------
\* Every payload that the processor gets is one datagram, whole: GRO messages are
\* cut where the datagrams were joined, nothing is delivered twice or out of order,
\* and what is neither delivered nor in the socket did not fit.  A write that was
\* interrupted is repeated until it is over, and not after that.
DatagramsStayWhole ==
  /\ \A k \in DOMAIN processed : \E d \in DOMAIN arrived :
       processed[k] = [b \in 1..arrived[d] |-> d]
  /\ \A k, l \in DOMAIN processed : k < l /\ processed[k] # <<>> /\ processed[l] # <<>> =>
       processed[k][1] < processed[l][1]
  /\ Len(processed) + Len(queue) + truncated = Len(arrived)
  /\ sent = Cardinality({i \in DOMAIN write_results : write_results[i] = "ok"})
  /\ \A i \in DOMAIN write_results : write_results[i] # "Interrupt"

\* The drops that the processor was told of are those that the counter showed, also
\* when the counter wrapped around between two reads; none is told twice.
DropsAreReported ==
  /\ reported <= dropped
  /\ (dropped - reported < Uint32 => (reported % Uint32) = packets_dropped)
==============================================================================
