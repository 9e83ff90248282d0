--------------------------- MODULE ListenerManager ---------------------------
(***************************************************************************)
(* ListenerManagerImpl and ListenerImpl: the active and the warming        *)
(* listeners, updates by name before and after the workers were started,   *)
(* and the references to listeners that startWorkers() posts to workers.   *)
(***************************************************************************)
EXTENDS Integers, Sequences, SequencesExt, FiniteSetsExt

CONSTANTS
  Names,        \* names of listeners; addOrUpdateListener() only uses "listener_0"
  Workers,      \* workers_
  MaxUpdates,   \* calls of addOrUpdateListener()
  AddressLists  \* lists of addresses that are compared (no listener has any)

VARIABLES
  active_listeners, warming_listeners,  \* sequences of listeners
  workers_started,
  posts,        \* worker -> the listeners that it was posted and has not added yet
  handled,      \* worker -> the listeners that its handler holds on to
  destroyed,    \* history: the listeners that were destroyed
  made,         \* history: the number of listeners made, which tells them apart
  stop_listeners_type

vars == <<active_listeners, warming_listeners, workers_started, posts, handled,
          destroyed, made, stop_listeners_type>>

A == INSTANCE Addresses WITH V4 <- {}, V6 <- {}, Port <- {}, Scope <- {}, Path <- {},
                             left <- 0, right <- 0

------------------------------------------------------------------------------
(* ListenerImpl *)

\* The constructor: a stream listener that binds and reuses its port.  Nothing fills
\* addresses_.
NewListener(name) ==
  [id |-> made + 1, name |-> name, socket_type |-> "Stream", addresses |-> <<>>,
   bind_to_port |-> TRUE, reuse_port |-> TRUE, socket_factories |-> <<>>]

HasDuplicatedAddress(this, other) ==
  /\ this.socket_type = other.socket_type
  /\ \E i \in DOMAIN other.addresses :
       LET a == other.addresses[i] IN
       /\ a.type # "ip" \/ a.port # 0 \/ ~this.bind_to_port
       /\ \E j \in DOMAIN this.addresses : A!Equals(a, this.addresses[j])

\* other_addresses.erase(iter)
Erased(addresses, i) == RemoveAt(addresses, i)

\* One round of hasCompatibleAddress(): an address takes an equal one of the other
\* listener's away; found tells whether every address so far had one.
Match(state, address) ==
  LET same == {i \in DOMAIN state.left : A!Equals(address, state.left[i])} IN
  IF state.found /\ same # {} THEN [state EXCEPT !.left = Erased(@, Min(same))]
  ELSE [state EXCEPT !.found = FALSE]
HasCompatibleAddress(this, other) ==
  /\ this.socket_type = other.socket_type
  /\ Len(this.addresses) = Len(other.addresses)
  /\ FoldLeft(Match, [found |-> TRUE, left |-> other.addresses], this.addresses).found

\* addSocketFactory(), for the addresses of a loop, and cloneSocketFactoryFrom():
\* factories are known by their address.
AddSocketFactories(l, addresses) == [l EXCEPT !.socket_factories = @ \o addresses]
CloneSocketFactoryFrom(l, other) == AddSocketFactories(l, other.socket_factories)

\* socketOptionsEqual(): the comparison is commented out.
SocketOptionsEqual(this, other) == FALSE

------------------------------------------------------------------------------
(* ListenerManagerImpl *)

\* createListenSocketFactory(): one factory for each address.
CreateListenSocketFactory(l) == AddSocketFactories(l, l.addresses)
\* setNewOrDrainingSocketFactory(): a duplicate address makes a message, which goes
\* nowhere.
SetNewOrDrainingSocketFactory(l) == CreateListenSocketFactory(l)
\* setupSocketFactoryForListener(): update is the runtime flag.  The exceptions for a
\* changed reuse port cannot occur, as every listener reuses its port.
SetupSocketFactoryForListener(new, existing, update) ==
  LET same_socket_options == update => SocketOptionsEqual(existing, new)
  IN  IF ~(HasCompatibleAddress(existing, new) /\ same_socket_options)
      THEN SetNewOrDrainingSocketFactory(new)
      ELSE CloneSocketFactoryFrom(new, existing)

\* getListenerByName(): the position of the last listener with the name, 0 for end().
GetListenerByName(listeners, name) ==
  Max({0} \cup {i \in DOMAIN listeners : listeners[i].name = name})

\* Mutant of Warms: an update replaces the active listener at any time.
NeverWarms(existing) == FALSE

\* Does the new listener have to wait, because workers may use the existing one?
Warms(existing) == workers_started

\* addOrUpdateListenerInternal(): a warming listener is replaced; an active one only
\* as long as no worker knows it; a new one goes to the end of a list.
AddOrUpdateListener(name, update) ==
  LET warm == GetListenerByName(warming_listeners, name)
      act == GetListenerByName(active_listeners, name)
      existing == IF warm # 0 THEN warming_listeners[warm] ELSE active_listeners[act]
      new == IF warm # 0 \/ act # 0 THEN SetupSocketFactoryForListener(NewListener(name), existing, update)
             ELSE SetNewOrDrainingSocketFactory(NewListener(name))
  IN  /\ made < MaxUpdates
      /\ made' = made + 1
      /\ CASE warm # 0 ->
                /\ warming_listeners' = [warming_listeners EXCEPT ![warm] = new]
                /\ destroyed' = destroyed \cup {existing.id}
                /\ UNCHANGED active_listeners
           [] warm = 0 /\ Warms(act) ->
                warming_listeners' = Append(warming_listeners, new) /\ UNCHANGED <<active_listeners, destroyed>>
           [] warm = 0 /\ ~Warms(act) /\ act # 0 ->
                /\ active_listeners' = [active_listeners EXCEPT ![act] = new]
                /\ destroyed' = destroyed \cup {existing.id}
                /\ UNCHANGED warming_listeners
           [] OTHER ->
                active_listeners' = Append(active_listeners, new) /\ UNCHANGED <<warming_listeners, destroyed>>
      /\ UNCHANGED <<workers_started, posts, handled, stop_listeners_type>>

\* startWorkers(): every worker is posted every active listener, by reference
\* (addListenerToWorker()).
StartWorkers ==
  /\ ~workers_started
  /\ workers_started' = TRUE
  /\ posts' = [w \in Workers |-> [i \in DOMAIN active_listeners |-> active_listeners[i].id]]
  /\ UNCHANGED <<active_listeners, warming_listeners, handled, destroyed, made, stop_listeners_type>>

\* The callback of WorkerImpl::addListener() on the worker's thread.
WorkerAddsListener(w) ==
  /\ posts[w] # <<>>
  /\ posts' = [posts EXCEPT ![w] = Tail(@)]
  /\ handled' = [handled EXCEPT ![w] = @ \cup {Head(posts[w])}]
  /\ UNCHANGED <<active_listeners, warming_listeners, workers_started, destroyed, made, stop_listeners_type>>

\* stopListeners() records the type; what it did with listeners is commented out.
StopListeners(type) ==
  /\ stop_listeners_type' = type
  /\ UNCHANGED <<active_listeners, warming_listeners, workers_started, posts, handled, destroyed, made>>

Init ==
  /\ active_listeners = <<>> /\ warming_listeners = <<>> /\ workers_started = FALSE
  /\ posts = [w \in Workers |-> <<>>] /\ handled = [w \in Workers |-> {}]
  /\ destroyed = {} /\ made = 0 /\ stop_listeners_type = "none"

Next ==
  \/ \E name \in Names, update \in BOOLEAN : AddOrUpdateListener(name, update)
  \/ StartWorkers
  \/ \E w \in Workers : WorkerAddsListener(w)
  \/ \E type \in {"InboundOnly", "All"} : StopListeners(type)

Spec == Init /\ [][Next]_vars
------------------------------------------------------------------------------
\* A listener that a worker was posted a reference to, or has added, is never
\* destroyed: once the workers are started updates wait in the warming list, however
\* long the post of startWorkers() takes.  Each list has one listener of a name.
ListenersOutlivePosts ==
  /\ \A w \in Workers : (ToSet(posts[w]) \cup handled[w]) \cap destroyed = {}
  /\ \A list \in {active_listeners, warming_listeners} : \A i, j \in DOMAIN list :
       list[i].name = list[j].name => i = j

Listener(addresses, binds) == [NewListener("x") EXCEPT !.addresses = addresses, !.bind_to_port = binds]
Times(a, list) == Cardinality({i \in DOMAIN list : A!Equals(a, list[i])})

\* The sockets of a listener are taken over exactly when the two listeners have the same addresses,
\* each as many times, in whatever order; a listener that is updated to its own
\* addresses is a duplicate of itself only for the addresses that it really binds.
AddressListsAreCompared ==
  \A a, b \in AddressLists :
    LET one == Listener(a, TRUE)  other == Listener(b, TRUE) IN
    /\ HasCompatibleAddress(one, other) <=>
         Len(a) = Len(b) /\ \A i \in DOMAIN a : Times(a[i], a) = Times(a[i], b)
    /\ HasDuplicatedAddress(one, other) <=> HasDuplicatedAddress(other, one)
    /\ HasDuplicatedAddress(Listener(a, FALSE), other) <=> \E i \in DOMAIN a : Times(a[i], b) > 0
==============================================================================
