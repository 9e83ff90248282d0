------------------------------ MODULE SysCalls ------------------------------
(***************************************************************************)
(* OsSysCallsImpl: system calls wrapped into a result with an error code,  *)
(* the probes for kernel features, accept() with its fallback, and the     *)
(* socket options that are set through them (SocketOptionImpl).  errno is  *)
(* state: a call that succeeds leaves the value of an earlier failure.     *)
(***************************************************************************)
EXTENDS Integers, FiniteSets, Sequences, SequencesExt

CONSTANTS
  Errno,        \* error codes, positive
  EINVAL,       \* the code of a kernel without accept4()
  NOT_SUP,      \* SOCKET_ERROR_NOT_SUP
  Platform      \* the option macros that the platform's headers define

VARIABLES
  errno,
  result,       \* the last result: its call, return_value_ and errno_
  cause,        \* history: the code of the kernel call that decided it, 0 if it succeeded
  supported     \* the answer of a probe, cached in a static, or "unknown"

vars == <<errno, result, cause, supported>>

\* The wrappers that only differ in the call that they make.
BufferCalls == {"bind", "chmod", "ioctl", "close", "writev", "readv", "pwrite", "pread", "recv", "recvmsg"}
SocketCalls == {"ftruncate", "mmap", "stat", "setsockopt", "getsockopt", "socket", "sendmsg",
                "getsockname", "gethostname", "getpeername"}
FileCalls == {"connect", "open", "unlink", "linkat", "mkstemp", "shutdown", "socketpair", "listen",
              "write", "duplicate"}
\* The return value is whether the call succeeded.
TcpInfoCall == "socketTcpInfo"
\* recvmmsg() and getaddrinfo() return errno also when they succeed.
BareCalls == {"recvmmsg", "getaddrinfo"}

\* Mutant of ErrnoOf: errno is passed on as it is.
ErrnoAsItIs(rc, e) == e

ErrnoOf(rc, e) == IF rc # -1 THEN 0 ELSE e

\* errno after kernel calls with these codes, 0 for one that succeeded.
Leaves(codes) ==
  LET failures == SelectSeq(codes, LAMBDA e : e # 0)
  IN  errno' = IF failures = <<>> THEN errno ELSE Last(failures)

\* A wrapper makes kernel calls and returns what the i-th left.
Returns(call, codes, i) ==
  LET rc == IF codes[i] = 0 THEN 0 ELSE -1 IN
  /\ Leaves(codes)
  /\ result' = [call |-> call, return_value |-> rc,
                errno |-> IF call \in BareCalls THEN errno' ELSE ErrnoOf(rc, errno')]
  /\ cause' = codes[i]
  /\ UNCHANGED supported

Code == Errno \cup {0}
Call(call) == \E e \in Code : Returns(call, <<e>>, 1)

\* F_GETFL, and F_SETFL if that succeeded
Fcntls == {<<get>> : get \in Errno} \cup {<<0, set>> : set \in Code}
SetSocketBlocking == \E codes \in Fcntls : Returns("setsocketblocking", codes, Len(codes))

\* accept4(), and accept() after EINVAL; what setsocketblocking() says is ignored.
Accept ==
  \/ \E e \in Code \ {EINVAL} : Returns("accept", <<e>>, 1)
  \/ \E e \in Errno : Returns("accept", <<EINVAL, e>>, 2)
  \/ \E codes \in Fcntls : Returns("accept", <<EINVAL, 0>> \o codes, 2)

\* Of the interfaces, getifaddrs() collects those whose address can be made: none, as
\* CreateInstancePtr of Addresses says.
Getifaddrs == \E e \in Code : Returns("getifaddrs", <<e>>, 1)

\* socket(), and the option if there is one; for supportsIpTransparent() again for IPv6 if
\* that went well.
Asked == {<<open>> : open \in Errno} \cup {<<0, option>> : option \in Code}
AskedTwice == (Asked \ {<<0, 0>>}) \cup {<<0, 0>> \o codes : codes \in Asked}

\* supportsUdpGro(), supportsUdpGso(), supportsIpTransparent(): every socket that is
\* opened is asked and closed, the answer is computed once.
Probe(codes) ==
  /\ supported = "unknown"
  /\ supported' = IF \A i \in DOMAIN codes : codes[i] = 0 THEN "yes" ELSE "no"
  /\ Leaves(codes)
  /\ UNCHANGED <<result, cause>>

\* supportsMptcp(), asked every time.
SupportsMptcp == \E e \in Code : Leaves(<<e>>) /\ UNCHANGED <<result, cause, supported>>

------------------------------------------------------------------------------
(* Socket options *)

Options ==
  {"IP_TRANSPARENT", "IPV6_TRANSPARENT", "IP_FREEBIND", "IPV6_FREEBIND", "SO_KEEPALIVE", "SO_MARK",
   "SO_NOSIGPIPE", "SO_REUSEPORT", "SO_ORIGINAL_DST", "IP6T_SO_ORIGINAL_DST", "UDP_GRO", "TCP_KEEPCNT",
   "TCP_KEEPIDLE", "TCP_KEEPINTVL", "TCP_FASTOPEN", "SO_ATTACH_REUSEPORT_CBPF"}

\* The SocketOptionName of an option, "" for an empty one; macOS has its own name for one.
SocketOptionName(o) ==
  IF o \in Platform THEN o
  ELSE IF o = "TCP_KEEPIDLE" /\ "TCP_KEEPALIVE" \in Platform THEN "TCP_KEEPALIVE" ELSE ""

\* in_state_, optname_, value_ and socket_type_ ("any" if it is not present).
SocketOptionImpl ==
  [in_state : {"bound", "listening"}, optname : {SocketOptionName(o) : o \in Options},
   value : {0, 1}, type : {"any", "Stream", "Datagram"}]

IsSupported(option) == option.optname # ""

\* Does setOption() call setSocketOption(), and may the caller go on if that returns rc?
Applies(option, state, socketType) ==
  option.in_state = state /\ IsSupported(option) /\ option.type \in {"any", socketType}
SetOption(option, state, socketType, rc) ==
  \/ option.in_state # state
  \/ IsSupported(option) /\ (Applies(option, state, socketType) => rc = 0)

HashKey(option) == IF IsSupported(option) THEN <<option.optname, option.value>> ELSE <<>>
GetOptionDetails(option, state) ==
  IF state # option.in_state \/ ~IsSupported(option) THEN <<>>
  ELSE <<[name |-> option.optname, value |-> option.value]>>

SetSocketOption(optname) ==
  IF optname = ""
  THEN /\ result' = [call |-> "setSocketOption", return_value |-> -1, errno |-> NOT_SUP]
       /\ cause' = NOT_SUP
       /\ UNCHANGED <<errno, supported>>
  ELSE \E e \in Code : Returns("setSocketOption", <<e>>, 1)

Init ==
  /\ errno = 0 /\ cause = 0 /\ supported = "unknown"
  /\ result = [call |-> "none", return_value |-> 0, errno |-> 0]
Next ==
  \/ \E call \in BufferCalls \cup SocketCalls \cup FileCalls \cup BareCalls \cup {TcpInfoCall} : Call(call)
  \/ SetSocketBlocking
  \/ Accept
  \/ Getifaddrs
  \/ \E o \in Options : SetSocketOption(SocketOptionName(o))
  \/ \E codes \in Asked \cup AskedTwice : Probe(codes)
  \/ SupportsMptcp
Spec == Init /\ [][Next]_vars
------------------------------------------------------------------------------
\* A result carries the code of the kernel call that decided it, and none when that
\* succeeded, whatever errno was left by earlier calls, by a probe or by the other
\* attempts of the same wrapper (recvmmsg() and getaddrinfo() are the exceptions in
\* the code).  An option that could not be set lets the caller go on only where it
\* does not apply, an option without details is not set, and options that hash alike
\* set the same.
ErrorsAreTheirOwn ==
  /\ result.call \notin BareCalls => result.errno = cause
  /\ result.call = "setSocketOption" /\ result.errno # 0 =>
       \A option \in SocketOptionImpl, state \in {"bound", "listening"} :
         /\ SetOption(option, state, "Stream", result.return_value) =>
              state # option.in_state \/ option.type = "Datagram"
         /\ Applies(option, state, "Stream") => GetOptionDetails(option, state) # <<>>
         /\ \A other \in SocketOptionImpl :
              HashKey(option) = HashKey(other) /\ other.in_state = option.in_state =>
                GetOptionDetails(option, state) = GetOptionDetails(other, state)
==============================================================================
