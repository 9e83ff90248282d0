------------------------------ MODULE Addresses ------------------------------
(***************************************************************************)
(* Network addresses (AddressImpl) and the functions of Network::Utility   *)
(* that build, copy, classify and convert them, evaluated for every pair   *)
(* of addresses that the program can hold.                                 *)
(***************************************************************************)
EXTENDS Integers, Sequences, SequencesExt, FiniteSetsExt

CONSTANTS
  V4,           \* IPv4 addresses: four bytes, in network order
  V6,           \* IPv6 addresses, in short: the first 16 bits and the rest
  Port, Scope,  \* ports and scope ids
  Path          \* paths of pipes and names of internal listeners

VARIABLES left, right   \* two addresses

vars == <<left, right>>

NoAddress == [type |-> "null"]
Crash == [type |-> "crash"]     \* a StatusOr without a value is dereferenced

------------------------------------------------------------------------------
(* Instances.  A text of an address is the address it spells, or Garbled.  *)
Garbled == <<"garbled">>
AnyV4 == <<0, 0, 0, 0>>
LoopbackV4 == <<127, 0, 0, 1>>
AnyV6 == <<0, 0>>
LoopbackV6 == <<0, 1>>
Mapped == 65535                 \* ::ffff:0:0/96, the first number of a mapped address

\* sockaddrToString(): the digits are written from the last one to the first, into
\* a buffer of 16 characters.
Decimal[n \in Nat] == IF n < 10 THEN <<n>> ELSE Append(Decimal[n \div 10], n % 10)
Dot == 10
SockaddrToString(a) ==
  FoldLeft(LAMBDA s, octet : s \o <<Dot>> \o Decimal[octet], Decimal[a[1]], Tail(a))

\* Ipv4Instance(text, port): inet_pton leaves the zeroed address alone when it fails,
\* and nothing is thrown.  The name has the port as it was given, of 32 bits.
Ipv4Instance(text, port) ==
  [type |-> "ip", version |-> 4, address |-> IF text = Garbled THEN AnyV4 ELSE text,
   scope |-> 0, v6only |-> TRUE, friendly_address |-> text, port |-> port % 65536,
   name_port |-> port]
\* Ipv4Instance(sockaddr), initHelper()
Ipv4FromSockaddr(a, port) == Ipv4Instance(a, port % 65536)

\* Ipv6Helper::makeFriendlyAddress()
MakeFriendlyAddress(a, scope) == IF scope = 0 THEN a ELSE <<a, "%", scope>>
\* Ipv6Instance(sockaddr, v6only), initHelper()
Ipv6FromSockaddr(a, scope, port, v6only) ==
  [type |-> "ip", version |-> 6, address |-> a, scope |-> scope, v6only |-> v6only,
   friendly_address |-> MakeFriendlyAddress(a, scope), port |-> port % 65536,
   name_port |-> port % 65536]
\* Ipv6Instance(text, port): inet_pton does not take a scope.
Ipv6Instance(text, port) ==
  Ipv6FromSockaddr(IF text \in V6 THEN text ELSE AnyV6, 0, port, TRUE)

\* PipeInstance(path): an abstract name is kept, any other path is not copied.
PipeInstance(path, abstract) ==
  [type |-> "pipe", abstract |-> abstract, friendly_address |-> IF abstract THEN path ELSE ""]
\* PipeInstance(sockaddr_un, ss_len, mode), initHelper(): a path that begins with a
\* null byte, as the empty one does, is an abstract name.
PipeFromSockaddr(path, abstract) ==
  [type |-> "pipe", abstract |-> abstract \/ path = "",
   friendly_address |-> IF path = "" THEN "@@@" ELSE path]
EnvoyInternalInstance(address_id) == [type |-> "internal", friendly_address |-> address_id]

\* asString(): the name that maps of addresses are keyed by.
AsString(i) == IF i.type = "ip" THEN <<i.version, i.friendly_address, i.name_port>>
               ELSE <<IF i.type = "internal" THEN "envoy://" ELSE "", i.friendly_address>>

SameScope(a, b) == a.version = 6 => a.scope = b.scope
\* operator== of each class
IpEquals(a, b) ==
  /\ b.type = "ip" /\ a.version = b.version
  /\ a.address = b.address /\ a.port = b.port /\ SameScope(a, b)
PipeEquals(a, b) == AsString(a) = AsString(b)
InternalEquals(a, b) == b.type = "internal" /\ AsString(a) = AsString(b)
Equals(a, b) ==
  CASE a.type = "ip" -> IpEquals(a, b)
    [] a.type = "pipe" -> PipeEquals(a, b)
    [] a.type = "internal" -> InternalEquals(a, b)

\* validateProtocolSupported(): the question to the socket interface is commented
\* out, what is left is the error.  The constructors that throw go on nevertheless
\* (throwOnError() does nothing); InstanceFactory::createInstancePtr() gives up.
ValidateProtocolSupported(version) == FALSE
CreateInstancePtr(i) ==
  IF i.type = "ip" /\ ~ValidateProtocolSupported(i.version) THEN NoAddress ELSE i

\* ipv6ToIpv4CompatibleAddress(): the last four bytes.
Ipv4OfMapped(a) == a[2]
IsV4Mapped(a) == a[1] = Mapped
V4CompatibleAddress(i) ==
  IF ~i.v6only /\ IsV4Mapped(i.address)
  THEN CreateInstancePtr(Ipv4FromSockaddr(Ipv4OfMapped(i.address), i.port)) ELSE NoAddress

\* forceV6(), where there is no Runtime to ask.
ForceV6 == FALSE

\* The instance that addressFromSockAddr() asks the factory for: a mapped address of
\* a dual-stack socket becomes an IPv4 address.
InstanceFor(ss, v6only) ==
  CASE ss.family = "AF_INET" -> Ipv4FromSockaddr(ss.address, ss.port)
    [] ss.family = "AF_INET6" -> IF (~v6only \/ ForceV6) /\ IsV4Mapped(ss.address)
                                 THEN Ipv4FromSockaddr(Ipv4OfMapped(ss.address), ss.port)
                                 ELSE Ipv6FromSockaddr(ss.address, ss.scope, ss.port, v6only)
    [] ss.family = "AF_UNIX" -> PipeFromSockaddr(ss.path, ss.abstract)
    [] OTHER -> NoAddress
AddressFromSockAddr(ss, v6only) == CreateInstancePtr(InstanceFor(ss, v6only))
\* addressFromSockAddrOrThrow(), addressFromSockAddrOrDie(): they do neither.
AddressFromSockAddrOrDie(ss, v6only) ==
  LET address == AddressFromSockAddr(ss, v6only) IN IF address = NoAddress THEN Crash ELSE address
\* sockAddr() of an instance
SockAddr(i) ==
  CASE i.type = "ip" -> [family |-> IF i.version = 4 THEN "AF_INET" ELSE "AF_INET6",
                         address |-> i.address, scope |-> i.scope, port |-> i.port]
    [] i.type = "pipe" -> [family |-> "AF_UNIX", path |-> i.friendly_address, abstract |-> i.abstract]
    [] i.type = "internal" -> [family |-> "null"]

------------------------------------------------------------------------------
(* Network::Utility *)
CopyInternetAddressAndPort(i) ==
  IF i.version = 4 THEN Ipv4Instance(i.friendly_address, i.port) ELSE Ipv6Instance(i.friendly_address, i.port)
GetAddressWithPort(i, port) ==
  IF i.version = 4 THEN Ipv4Instance(i.friendly_address, port) ELSE Ipv6Instance(i.friendly_address, port)

IsAnyAddress(i) == i.address = IF i.version = 4 THEN AnyV4 ELSE AnyV6
IsUnicastAddress(i) ==
  /\ ~IsAnyAddress(i)
  /\ IF i.version = 4 THEN i.address # <<255, 255, 255, 255>> /\ i.address[1] \div 16 # 14
     ELSE i.address[1] \div 256 # 255
IsLoopbackAddress(i) ==
  i.type = "ip" /\ i.address = IF i.version = 4 THEN LoopbackV4 ELSE LoopbackV6

\* Mutant of IsPrivate: the last block of 172.16.0.0/12 is left out.
IsPrivateShort(b) ==
  b[1] = 10 \/ (b[1] = 192 /\ b[2] = 168) \/ (b[1] = 172 /\ b[2] >= 16 /\ b[2] < 31)

\* The bytes that isInternalAddress() looks at.
IsPrivate(b) ==
  b[1] = 10 \/ (b[1] = 192 /\ b[2] = 168) \/ (b[1] = 172 /\ b[2] >= 16 /\ b[2] <= 31)
IsInternalAddress(i) ==
  /\ i.type = "ip"
  /\ IF i.version = 4 THEN IsPrivate(i.address) \/ i.address = LoopbackV4
     ELSE i.address[1] \div 256 = 253 \/ i.address = LoopbackV6

\* isSameIpOrLoopback(): remote is looked at first.
IsSameIpOrLoopback(remote, local) ==
  \/ remote.type = "pipe" \/ IsLoopbackAddress(remote)
  \/ remote.type = "ip" /\ local.type = "ip" /\ remote.friendly_address = local.friendly_address

\* getLocalAddress(): the first interface of getifaddrs() that fits, else the loopback
\* address.
GetLocalAddress(version, interfaces) ==
  LET fits == {n \in DOMAIN interfaces :
                 ~IsLoopbackAddress(interfaces[n]) /\ interfaces[n].version = version}
  IN  IF fits # {} THEN interfaces[Min(fits)]
      ELSE IF version = 4 THEN Ipv4Instance(LoopbackV4, 0) ELSE Ipv6Instance(LoopbackV6, 0)

\* getOriginalDst(): status and transparent are what the two getsockopt() calls say.
GetOriginalDst(local, status, supported, transparent, ss) ==
  IF local.type # "ip" THEN NoAddress
  ELSE IF status # 0 THEN IF supported /\ transparent THEN local ELSE NoAddress
  ELSE AddressFromSockAddrOrDie(ss, TRUE)

\* flipOrder(): 128 bits as 16 bytes; Ip6ntohl() and Ip6htonl() on this machine.
FlipOrder(bytes) == FoldLeft(LAMBDA result, b : <<b>> \o result, <<>>, bytes)

------------------------------------------------------------------------------
(* The objects of each class *)
Ipv4Instances == {Ipv4Instance(a, p) : a \in V4 \cup {Garbled}, p \in Port}
Ipv6Instances == {Ipv6FromSockaddr(a, s, p, o) : a \in V6, s \in Scope, p \in Port, o \in BOOLEAN}
PipeInstances == {PipeInstance(f, ab) : f \in Path, ab \in BOOLEAN}
EnvoyInternalInstances == {EnvoyInternalInstance(f) : f \in Path}
Addressable == Ipv4Instances \cup Ipv6Instances \cup PipeInstances \cup EnvoyInternalInstances

Init == left = NoAddress /\ right = NoAddress
\* The caller passes another pair of addresses.
Next ==
  \/ left = NoAddress /\ left' \in Addressable /\ UNCHANGED right
  \/ left # NoAddress /\ right = NoAddress /\ right' \in Addressable /\ UNCHANGED left
Spec == Init /\ [][Next]_vars

\* Not built from a text that is no address (Ipv4Instance), nor from a path, which
\* PipeInstance does not copy.
Kept(i) ==
  /\ i.type = "ip" => i.friendly_address # Garbled
  /\ i.type = "pipe" => i.abstract
Number(a) == 256 * a[1] + a[2]

\* Two addresses have the same name exactly when they are equal (the maps of listeners
\* are keyed by the name), and equality is symmetric; an address survives the way
\* through its sockaddr, and a copy is equal to the original unless that has a scope,
\* which the copy loses.  Said only of objects whose constructor kept what it was given:
\* Address.h:183 promises more, "/foo" as the name of a pipe, and the code does not
\* do that (AddressImpl.cpp:383).
NamesIdentifyAddresses ==
  right # NoAddress /\ Kept(left) /\ Kept(right) =>
    /\ AsString(left) = AsString(right) <=> Equals(left, right)
    /\ Equals(left, right) <=> Equals(right, left)
    /\ left.type \in {"ip", "pipe"} => Equals(InstanceFor(SockAddr(left), TRUE), left)
    /\ left.type = "ip" => /\ left.scope = 0 <=> Equals(CopyInternetAddressAndPort(left), left)
                           /\ GetAddressWithPort(left, 7).port = 7
    /\ left.type = "ip" /\ right.type = "ip" /\ left.port = right.port =>
         IsSameIpOrLoopback(left, right) = (Equals(left, right) \/ IsLoopbackAddress(left))

\* The address classes are what their RFCs say, read as ranges of numbers; an address
\* text fits into the 15 characters of its buffer and no two addresses share one; a
\* mapped address becomes the IPv4 address in it only for a dual-stack socket;
\* byte order conversion undoes itself; and of the interfaces that getifaddrs() lists,
\* the local address is the first of its version that is no loopback address.
AddressClassesAreExact ==
  left.type = "ip" =>
    /\ left.version = 4 =>
         LET n == Number(left.address) IN
         /\ IsInternalAddress(left) <=>
              \/ n \div 256 = 10 \/ n = 49320 \/ n \in 44048..44063 \/ left.address = LoopbackV4
         /\ IsUnicastAddress(left) <=>
              left.address \notin {AnyV4, <<255, 255, 255, 255>>} /\ n \notin 57344..61439
         /\ Len(SockaddrToString(left.address)) \in 7..15
         /\ right.type = "ip" /\ right.version = 4 /\ left.address # right.address =>
              SockaddrToString(left.address) # SockaddrToString(right.address)
    /\ left.version = 6 =>
         /\ FlipOrder(FlipOrder(left.address)) = left.address
         /\ InstanceFor(SockAddr(left), left.v6only).version =
              IF left.address[1] = Mapped /\ ~left.v6only THEN 4 ELSE 6
    /\ LET local == GetLocalAddress(left.version, <<left, right>>) IN
       right.type = "ip" =>
         /\ local.version = left.version
         /\ ~IsLoopbackAddress(left) => local = left
         /\ IsLoopbackAddress(left) /\ right.version = left.version /\ ~IsLoopbackAddress(right) =>
              local = right
         /\ IsLoopbackAddress(local) =>
              IsLoopbackAddress(left) /\ (right.version = left.version => IsLoopbackAddress(right))
==============================================================================
