----------------------------- MODULE AddressText -----------------------------
(***************************************************************************)
(* The texts that Network::Utility parses: URLs, addresses with ports and  *)
(* lists of port ranges.  A text is a sequence of tokens: "tcp://" and the *)
(* like a scheme, "1.2.3.4" a dotted quad, "::1" an IPv6 address (without  *)
(* colons of its own: "::1" ":" stands for "::1:"), numbers, and "[" "]"   *)
(* ":" "%" "-" "," as they are.                                            *)
(***************************************************************************)
EXTENDS Addresses

CONSTANTS
  Tokens,       \* sets of tokens that a text is made of
  MaxTokens     \* the longest text

VARIABLE text

Quad == "1.2.3.4"
V6Text == "::1"
Numbers == [t \in {"0", "80", "65535", "65536"} |->
              CASE t = "0" -> 0 [] t = "80" -> 80 [] t = "65535" -> 65535 [] t = "65536" -> 65536]
IsNumber(t) == t \in DOMAIN Numbers
HasColon(t) == t \in {":", V6Text}

From(s, i) == SubSeq(s, i, Len(s))
Error == [type |-> "error"]

\* parseV4Address(): inet_pton(AF_INET)
ParseV4Address(s, port) ==
  IF s = <<Quad>> THEN [family |-> "AF_INET", address |-> <<1, 2, 3, 4>>, port |-> port] ELSE Error
\* parseV6Address(): inet_pton(AF_INET6) without a scope, getaddrinfo() with one.
ParseV6Address(s, port) ==
  LET sa(scope) == [family |-> "AF_INET6", address |-> LoopbackV6, scope |-> scope, port |-> port]
  IN  IF s = <<V6Text>> THEN sa(0)
      ELSE IF Len(s) = 3 /\ s[1] = V6Text /\ s[2] = "%" /\ IsNumber(s[3]) THEN sa(Numbers[s[3]])
      ELSE Error

\* !(port64 > 65535)
PortFits(n) == n <= 65535

\* The port behind the address, an Error unless SimpleAtoi() takes all of it.
PortOf(s, Parsed(_)) ==
  IF Len(s) = 1 /\ IsNumber(s[1]) /\ PortFits(Numbers[s[1]]) THEN Parsed(Numbers[s[1]] % 65536)
  ELSE Error

\* parseInternetAddressAndPortNoThrow() up to createInstancePtr(): the last "]:"
\* behind a bracket, else the last colon.
SockAddrAndPort(s) ==
  LET closing == {i \in 1..(Len(s) - 1) : s[i] = "]" /\ s[i + 1] = ":"}
      colons == {i \in DOMAIN s : HasColon(s[i])}
  IN  IF s = <<>> THEN Error
      ELSE IF s[1] = "["
      THEN IF closing = {} THEN Error
           ELSE PortOf(From(s, Max(closing) + 2),
                       LAMBDA port : ParseV6Address(SubSeq(s, 2, Max(closing) - 1), port))
      ELSE IF colons = {} \/ s[Max(colons)] = V6Text THEN Error    \* "1" is the port, ":" no quad
      ELSE PortOf(From(s, Max(colons) + 1),
                  LAMBDA port : ParseV4Address(SubSeq(s, 1, Max(colons) - 1), port))

\* instanceOrNull(createInstancePtr())
InstanceOrNull(sa, v6only) ==
  IF sa = Error THEN NoAddress ELSE CreateInstancePtr(InstanceFor(sa, v6only))
ParseInternetAddressNoThrow(s, port, v6only) ==
  LET sa4 == ParseV4Address(s, port)
  IN  IF sa4 # Error THEN InstanceOrNull(sa4, v6only) ELSE InstanceOrNull(ParseV6Address(s, port), v6only)
ParseInternetAddressAndPortNoThrow(s, v6only) == InstanceOrNull(SockAddrAndPort(s), v6only)
\* The variants that throw: throwWithMalformedIp().
OrThrow(address) == IF address = NoAddress THEN "malformed IP address" ELSE address

\* socketTypeFromUrl() and the urlIs...Scheme() functions
SocketTypeFromUrl(s) ==
  CASE s # <<>> /\ s[1] \in {"tcp://", "unix://"} -> "Stream"
    [] s # <<>> /\ s[1] = "udp://" -> "Datagram"
    [] OTHER -> "unknown protocol scheme"
ResolveUrl(s) ==
  CASE SocketTypeFromUrl(s) = "unknown protocol scheme" -> SocketTypeFromUrl(s)
    [] s # <<>> /\ s[1] = "unix://" -> PipeInstance(From(s, 2), FALSE)
    [] OTHER -> OrThrow(ParseInternetAddressAndPortNoThrow(From(s, 2), TRUE))
\* protobufAddressSocketType()
ProtobufAddressSocketType(case, protocol) ==
  IF case = "kSocketAddress" /\ protocol = "UDP" THEN "Datagram" ELSE "Stream"

------------------------------------------------------------------------------
(* Port ranges.  std::stringstream reads a uint32_t: "-n" wraps around.    *)
\* TLC's integers end earlier than uint32_t: what matters is that no wrapped value
\* is a port.
Uint32 == 2^30 - 1
Fail == [ok |-> FALSE]
ReadUint(s) ==
  CASE s # <<>> /\ IsNumber(s[1]) -> [ok |-> TRUE, value |-> Numbers[s[1]], rest |-> Tail(s)]
    [] Len(s) > 1 /\ s[1] = "-" /\ IsNumber(s[2]) ->
         [ok |-> TRUE, value |-> IF Numbers[s[2]] = 0 THEN 0 ELSE Uint32 - Numbers[s[2]] + 1,
          rest |-> From(s, 3)]
    [] OTHER -> Fail
\* One element of parsePortRangeList(), a PortRange or an exception (Fail).
ParsePortRange(s) ==
  LET first == ReadUint(s)
      second == IF first.ok /\ first.rest # <<>> THEN ReadUint(Tail(first.rest)) ELSE Fail
      last == IF \E i \in DOMAIN s : s[i] = "-" THEN second ELSE first
  IN  IF /\ first.ok /\ last.ok /\ last.rest = <<>>             \* !ss.fail() && ss.eof()
         /\ PortFits(first.value) /\ PortFits(last.value)
      THEN [ok |-> TRUE, min |-> first.value, max |-> last.value] ELSE Fail
\* splitToken(string, ","): empty pieces are dropped.
Pieces(s) ==
  LET cuts == {0, Len(s) + 1} \cup {i \in DOMAIN s : s[i] = ","}
      next(c) == Min({d \in cuts : d > c})
  IN  {SubSeq(s, c + 1, next(c) - 1) : c \in cuts \ {Len(s) + 1}} \ {<<>>}
PortRanges(s) == {ParsePortRange(p) : p \in Pieces(s)}
\* portInRangeList() of an IP address
PortInRangeList(port, list) == \E p \in list : port >= p.min /\ port <= p.max

TextInit == text = <<>>
\* The caller passes another text.  Two numbers side by side would be one number.
TextNext ==
  \E T \in Tokens : \E t \in T :
    /\ Len(text) < MaxTokens /\ \A i \in DOMAIN text : text[i] \in T
    /\ text # <<>> /\ IsNumber(t) => ~IsNumber(Last(text)) /\ Last(text) # V6Text
    /\ text' = Append(text, t)
TextSpec == Init /\ TextInit /\ [][TextNext /\ UNCHANGED vars]_<<vars, text>>
------------------------------------------------------------------------------
\* The grammar: an IPv6 address with or without a scope; an address and a port, with brackets for IPv6.
WellFormedV6(s) == s = <<V6Text>> \/ (Len(s) = 3 /\ s[1] = V6Text /\ s[2] = "%" /\ IsNumber(s[3]))
WellFormed(s) ==
  LET n == Len(s)
      port == n > 2 /\ s[n - 1] = ":" /\ s[n] \in {"0", "80", "65535"}
  IN  /\ port
      /\ \/ SubSeq(s, 1, n - 2) = <<Quad>>
         \/ s[1] = "[" /\ s[n - 2] = "]" /\ WellFormedV6(SubSeq(s, 2, n - 3))

\* Exactly the texts of the grammar give a socket address, with the port that they
\* end in, whatever brackets, colons and numbers surround it; and a list of port
\* ranges that is accepted holds the ports that it spells and no others: no sign,
\* missing end or number above 65535 widens a range.
TextsParseExactly ==
  /\ SockAddrAndPort(text) # Error <=> WellFormed(text)
  /\ WellFormed(text) => SockAddrAndPort(text).port = Numbers[Last(text)]
  /\ ParseV6Address(text, 0) # Error <=> WellFormedV6(text)
  /\ Fail \notin PortRanges(text) => \A port \in {0, 1, 80, 81, 65535} :
       PortInRangeList(port, PortRanges(text)) <=>
         \E p \in Pieces(text) : Numbers[SelectSeq(p, IsNumber)[1]] <= port /\ port <= Numbers[Last(p)]

\* What Utility.h says of parseInternetAddressAndPortNoThrow(): "pointer to the
\* Instance, or a nullptr in case of a malformed IP address".  The code returns a
\* nullptr for every address, because validateProtocolSupported() never agrees.
WellFormedIsParsed == WellFormed(text) => ParseInternetAddressAndPortNoThrow(text, TRUE) # NoAddress
==============================================================================
