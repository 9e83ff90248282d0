-------------------------- MODULE ConnectionHandler --------------------------
(***************************************************************************)
(* ConnectionHandlerImpl: the listeners of one worker, found by tag and by *)
(* address.  A dual-stack listener on [::] also answers for 0.0.0.0.       *)
(***************************************************************************)
EXTENDS Integers, Sequences, SequencesExt, FiniteSetsExt

CONSTANTS
  Configs,      \* what a listener is configured with: its type and its addresses
  Tags,         \* what listenerTag() may return; nothing makes two listeners differ in it
  MaxListeners  \* bound on the listeners that are added

VARIABLES
  listener_map_by_tag,          \* tag -> per_address_details_list_
  tcp_listener_map_by_address,  \* asString() -> details
  internal_listener_map_by_address,
  crashed,                      \* a null pointer or an empty optional was dereferenced
  added,                        \* history: the tag and the details of each listener, in order
  overridden                    \* history: the tag that the last call overrides, "none"

vars == <<listener_map_by_tag, tcp_listener_map_by_address,
          internal_listener_map_by_address, crashed, added, overridden>>

A == INSTANCE Addresses WITH V4 <- {}, V6 <- {}, Port <- {}, Scope <- {}, Path <- {},
                             left <- 0, right <- 0

Assign(map, key, value) ==
  [k \in DOMAIN map \cup {key} |-> IF k = key THEN value ELSE map[k]]
NULL == [type |-> "null"]
Ipv4Any(port) == A!AsString(A!Ipv4Instance(A!AnyV4, port))

\* Mutant of MayTakeIpv4Any: a listener on [::] takes 0.0.0.0 from any other.
AlwaysTakesIpv4Any(map, address) == TRUE

\* [::] takes 0.0.0.0 unless another address holds it.
MayTakeIpv4Any(map, address) ==
  LET key == Ipv4Any(address.port)
  IN  key \notin DOMAIN map \/ A!Equals(map[key].address, address)

\* The addresses for which the handler also looks for IPv4.
DualStack(address) == address.type = "ip" /\ address.version = 6 /\ ~address.v6only

\* One round of the loop at the end of addListener() for a TCP listener.  It crashes
\* on an address that has no v4CompatibleAddress().
AddByAddress(by, details) ==
  LET address == details.address
      own == Assign(by.map, A!AsString(address), details)
      compatible == A!V4CompatibleAddress(address)
  IN  CASE by.crash -> by
        [] ~by.crash /\ ~DualStack(address) -> [by EXCEPT !.map = own]
        [] ~by.crash /\ DualStack(address) /\ A!IsAnyAddress(address) ->
             [by EXCEPT !.map = IF MayTakeIpv4Any(own, address)
                                THEN Assign(own, Ipv4Any(address.port), details) ELSE own]
        [] OTHER -> IF compatible = A!NoAddress THEN [map |-> own, crash |-> TRUE]
                    ELSE [by EXCEPT !.map = Assign(own, A!AsString(compatible), details)]

\* addActiveListener(): the object for one address, by its type in typed_listener_.
\* It has a listener_tag_, which nobody sets.
AddActiveListener(object, type, address) == [object |-> object, type |-> type, address |-> address]

\* addListener() without an overridden listener.  An internal listener takes its first
\* address only.  emplace() does nothing if there is a listener with this tag.
AddListener(config, tag) ==
  LET used == IF config.type = "internal" THEN SubSeq(config.addresses, 1, 1) ELSE config.addresses
      details == [i \in DOMAIN used |-> AddActiveListener(<<Len(added) + 1, i>>, config.type, used[i])]
      unchanged == [map |-> tcp_listener_map_by_address, crash |-> FALSE]
      by == IF config.type = "tcp" THEN FoldLeft(AddByAddress, unchanged, details) ELSE unchanged
  IN  /\ ~crashed /\ Len(added) < MaxListeners
      /\ crashed' = by.crash
      /\ tcp_listener_map_by_address' = by.map
      /\ internal_listener_map_by_address' =
           IF config.type = "internal"
           THEN Assign(internal_listener_map_by_address, used[1].friendly_address, details[1])
           ELSE internal_listener_map_by_address
      /\ listener_map_by_tag' =
           IF by.crash \/ tag \in DOMAIN listener_map_by_tag THEN listener_map_by_tag
           ELSE Assign(listener_map_by_tag, tag, details)
      /\ added' = Append(added, [tag |-> tag, details |-> details])
      /\ overridden' = "none"

\* findActiveListenerByTag(), <<>> for nullopt
FindActiveListenerByTag(tag) ==
  IF tag \in DOMAIN listener_map_by_tag THEN listener_map_by_tag[tag] ELSE <<>>

\* addListener() with an overridden listener: the update of its config is commented
\* out; an unknown tag dereferences an empty optional.
OverrideListener(tag) ==
  /\ ~crashed
  /\ crashed' = (FindActiveListenerByTag(tag) = <<>>)
  /\ overridden' = tag
  /\ UNCHANGED <<listener_map_by_tag, tcp_listener_map_by_address, internal_listener_map_by_address,
                 added>>

\* findPerAddressActiveListenerDetails(findActiveListenerByTag(tag), address): the first
\* details with the address.
FindPerAddress(tag, address) ==
  LET list == FindActiveListenerByTag(tag)
      same == {i \in DOMAIN list : A!Equals(list[i].address, address)}
  IN  IF same = {} THEN NULL ELSE list[Min(same)]

\* tcpListener(), udpListener() and internalListener()
TypedListener(details, type) == IF details.type = type THEN details ELSE NULL
FindByAddress(address_id) ==
  IF address_id \in DOMAIN internal_listener_map_by_address
  THEN TypedListener(internal_listener_map_by_address[address_id], "internal") ELSE NULL

EmptyMap == [k \in {} |-> NULL]
Init ==
  /\ listener_map_by_tag = EmptyMap /\ tcp_listener_map_by_address = EmptyMap
  /\ internal_listener_map_by_address = EmptyMap /\ crashed = FALSE
  /\ added = <<>> /\ overridden = "none"

Next == \E tag \in Tags :
  \/ \E config \in Configs : AddListener(config, tag)
  \/ OverrideListener(tag)

Spec == Init /\ [][Next]_vars
------------------------------------------------------------------------------
\* What was added, of one type, in the order in which it was.
Details(type) ==
  SelectSeq(FlattenSeq([n \in DOMAIN added |-> added[n].details]), LAMBDA d : d.type = type)
LastOf(list, places) == list[Max(places)]

\* The listener that should get the connections to this name: the last one that was
\* added with this very address, else, for 0.0.0.0, the last one on a dual-stack [::].
TcpListenerFor(key) ==
  LET list == Details("tcp")
      named == {n \in DOMAIN list : A!AsString(list[n].address) = key}
      standIns == {n \in DOMAIN list :
                     DualStack(list[n].address) /\ A!IsAnyAddress(list[n].address) /\
                     Ipv4Any(list[n].address.port) = key}
  IN  IF named # {} THEN LastOf(list, named)
      ELSE IF standIns # {} THEN LastOf(list, standIns) ELSE NULL

\* However often listeners are added and overridden, in whatever order and with whatever
\* tags, a connection is for the last listener with its address, and [::] stands in for
\* 0.0.0.0 until a listener has that address itself, which then keeps it.  The
\* listener of a tag is the first with that tag: a later one is reached by address only.
\* The handler crashes exactly when it overrides a tag that nobody has, or is given a
\* dual-stack TCP listener on an address other than [::] (mapped or not: AddressImpl
\* makes no IPv4 address, see CreateInstancePtr), which the comment at
\* ConnectionHanlderImpl.cpp:116 says was rejected early.
AddressesLeadToTheirListener ==
  LET tcp == Details("tcp")
      internal == Details("internal")
      tags == {added[n].tag : n \in DOMAIN added}
      First(tag) == added[Min({n \in DOMAIN added : added[n].tag = tag})].details
  IN
  /\ crashed <=>
       \/ overridden \notin tags \cup {"none"}
       \/ \E n \in DOMAIN tcp : DualStack(tcp[n].address) /\ ~A!IsAnyAddress(tcp[n].address)
  /\ ~crashed =>
       /\ \A key \in DOMAIN tcp_listener_map_by_address :
            tcp_listener_map_by_address[key] = TcpListenerFor(key)
       /\ \A n \in DOMAIN tcp :
            /\ A!AsString(tcp[n].address) \in DOMAIN tcp_listener_map_by_address
            /\ DualStack(tcp[n].address) =>
                 Ipv4Any(tcp[n].address.port) \in DOMAIN tcp_listener_map_by_address
       /\ \A n \in DOMAIN internal :
            LET id == internal[n].address.friendly_address IN
            FindByAddress(id) =
              LastOf(internal, {m \in DOMAIN internal : internal[m].address.friendly_address = id})
       /\ DOMAIN listener_map_by_tag = tags
       /\ \A tag \in tags :
            /\ FindActiveListenerByTag(tag) = First(tag)
            /\ \A i \in DOMAIN First(tag) :
                 A!AsString(FindPerAddress(tag, First(tag)[i].address).address) =
                   A!AsString(First(tag)[i].address)
==============================================================================
