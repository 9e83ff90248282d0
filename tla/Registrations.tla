---------------------------- MODULE Registrations ----------------------------
(***************************************************************************)
(* Objects whose lifetime registers something: the actions of Assert.cpp,  *)
(* the loaders of ThreadsafeSingleton.h and the elements and clean-ups of  *)
(* Cleanup.h.  An object is known by its place in born; a pointer to one   *)
(* is that number, and 0 is nullptr.                                       *)
(***************************************************************************)
EXTENDS Integers, Sequences, SequencesExt, FiniteSetsExt, Bitwise

CONSTANTS
  Key,         \* keys of the map of lists
  Bug,         \* places in the code that have an ENVOY_BUG
  MaxObjects,  \* bound on the objects constructed
  MaxHits      \* bound on the hits of a bug

VARIABLES
  born,       \* the objects constructed: kind, key, and the pointer saved by the constructor
  dead,       \* the objects destroyed
  cancelled,  \* the objects whose cancelled_ is set
  head,       \* the newest debug action, bug action, and the loader of the singleton
  container,  \* the list of the RaiiListElements
  map,        \* the map of the RaiiMapOfListElements: key -> list
  ran,        \* history: the clean-ups whose function ran, in order
  counters, logged,  \* counters_, and history: the hits that were logged since they were cleared
  build,      \* "debug" (no NDEBUG), "logged" (ENVOY_LOG_FAST_DEBUG_ASSERT_IN_RELEASE), "release"
  aborted,    \* has ::abort() been called?
  notified,   \* history: the actions that the last failure ran
  disordered  \* history: the lists of which another than the newest was destroyed

vars ==
  <<born, dead, cancelled, head, container, map, ran, counters, logged, build, aborted, notified,
    disordered>>

Alive(o) == o \in DOMAIN born \ dead
NoKey == [k \in {} |-> <<>>]
NoHits == [b \in Bug |-> 0]

\* invoke(): an action and then the ones it links to.
Invoked(list) ==
  LET chain[o \in Nat] == IF o = 0 THEN <<>> ELSE <<o>> \o chain[born[o].saved] IN chain[head[list]]

\* No condition fails.
Quiet == ~aborted /\ UNCHANGED <<build, aborted, notified, disordered>>

\* A condition that does not hold: ::abort(), the actions, or nothing at all.
Fail(aborts, list) ==
  /\ ~aborted /\ aborted' = aborts
  /\ notified' = IF aborts \/ list = "none" THEN <<>> ELSE Invoked(list)
  /\ UNCHANGED build
Abort ==
  Fail(TRUE, "none") /\ UNCHANGED <<born, dead, cancelled, head, container, map, ran, counters, logged, disordered>>

Construct(kind, key, saved) ==
  /\ Len(born) < MaxObjects /\ Quiet
  /\ born' = Append(born, [kind |-> kind, key |-> key, saved |-> saved])
This == Len(born) + 1

\* ActionRegistrationImpl and EnvoyBugRegistrationImpl; the latter starts counting anew.
AddAction(list) ==
  /\ Construct(list, "", head[list])
  /\ head' = [head EXCEPT ![list] = This]
  /\ counters' = IF list = "bug" THEN NoHits ELSE counters
  /\ logged' = IF list = "bug" THEN NoHits ELSE logged
  /\ UNCHANGED <<dead, cancelled, container, map, ran>>

\* ScopedInjectableLoader: initialize() has a RELEASE_ASSERT that there is no loader yet.
\* StackedScopedInjectableLoader puts the one there is aside.
AddLoader(kind) ==
  \/ kind = "scoped" /\ head.loader # 0 /\ Abort
  \/ /\ kind = "scoped" => head.loader = 0
     /\ Construct(kind, "", IF kind = "scoped" THEN 0 ELSE head.loader)
     /\ head' = [head EXCEPT !.loader = This]
     /\ UNCHANGED <<dead, cancelled, container, map, ran, counters, logged>>

\* RaiiListElement, RaiiMapOfListElement and Cleanup.
AddElement(kind, key) ==
  /\ kind = "map" <=> key \in Key
  /\ Construct(kind, key, 0)
  /\ container' = IF kind = "list" THEN <<This>> \o container ELSE container
  /\ map' = IF kind # "map" THEN map
            ELSE [k \in DOMAIN map \cup {key} |->
                    (IF k = key THEN <<This>> ELSE <<>>) \o (IF k \in DOMAIN map THEN map[k] ELSE <<>>)]
  /\ UNCHANGED <<dead, cancelled, head, ran, counters, logged>>

Cancel(o) ==
  /\ Alive(o) /\ Quiet /\ born[o].kind \in {"list", "map", "cleanup"} /\ o \notin cancelled
  /\ cancelled' = cancelled \cup {o}
  /\ UNCHANGED <<born, dead, head, container, map, ran, counters, logged>>

\* erase() of both elements.
Without(list, o) == SelectSeq(list, LAMBDA e : e # o)
Erase(o) ==
  /\ container' = IF born[o].kind = "list" THEN Without(container, o) ELSE container
  /\ map' = IF born[o].kind # "map" THEN map
            ELSE LET less == [map EXCEPT ![born[o].key] = Without(@, o)]
                 IN  [k \in {j \in DOMAIN map : less[j] # <<>>} |-> less[k]]
\* RaiiListElement::erase(), which is public: the destructor does not erase again.
EraseNow(o) ==
  /\ Alive(o) /\ Quiet /\ born[o].kind = "list" /\ o \notin cancelled
  /\ Erase(o)
  /\ cancelled' = cancelled \cup {o}
  /\ UNCHANGED <<born, dead, head, ran, counters, logged>>

\* Mutant of RestoredBy: the destructor of an action ends the list.
RestoredByNull(o) == 0

\* What the destructor makes the head: next_action_ or original_loader_ (nullptr for
\* clear()).
RestoredBy(o) == born[o].saved

\* The destructors.  Those of actions ASSERT that the newest of its list goes first, those
\* of loaders do not; where nothing aborts, the head is replaced in either case, so that
\* it can lose actions, or point to one that is dead.
Destroy(o) ==
  LET list == CASE born[o].kind \in {"debug", "bug"} -> born[o].kind
                [] born[o].kind \in {"scoped", "stacked"} -> "loader"
                [] OTHER -> "none"
      newest == list # "none" => head[list] = o
      fails == ~newest /\ list # "loader"
  IN
  /\ Alive(o)
  /\ \/ fails /\ build = "debug" /\ Abort
     \/ /\ IF fails THEN build # "debug" /\ Fail(FALSE, IF build = "logged" THEN "debug" ELSE "none")
           ELSE ~aborted /\ UNCHANGED <<build, aborted, notified>>
        /\ dead' = dead \cup {o}
        /\ head' = IF list = "none" THEN head ELSE [head EXCEPT ![list] = RestoredBy(o)]
        /\ disordered' = IF newest THEN disordered ELSE disordered \cup {list}
        /\ IF o \in cancelled THEN UNCHANGED <<container, map>> ELSE Erase(o)
        /\ ran' = IF born[o].kind = "cleanup" /\ o \notin cancelled THEN Append(ran, o) ELSE ran
        /\ UNCHANGED <<born, cancelled, counters, logged>>

\* A failing RELEASE_ASSERT (or SECURITY_ASSERT), KNOWN_ISSUE_ASSERT, ASSERT or SLOW_ASSERT.
AssertFails(macro) ==
  /\ Fail(\/ macro = "RELEASE_ASSERT"
          \/ macro = "KNOWN_ISSUE_ASSERT" /\ build # "release"
          \/ build = "debug",
          IF macro = "ASSERT" /\ build = "logged" THEN "debug" ELSE "none")
  /\ UNCHANGED <<born, dead, cancelled, head, container, map, ran, counters, logged, disordered>>

\* shouldLogAndInvoke(): the counter is a power of two.
ShouldLogAndInvoke(counter_value) == counter_value & (counter_value - 1) = 0

\* ENVOY_BUG and ENVOY_BUG_ACTION
HitBug(bug) ==
  LET counter_value == counters[bug] + 1
      logs == ShouldLogAndInvoke(counter_value)
  IN  /\ counters[bug] < MaxHits
      /\ counters' = [counters EXCEPT ![bug] = counter_value]
      /\ logged' = [logged EXCEPT ![bug] = IF logs THEN @ + 1 ELSE @]
      /\ Fail(logs /\ build = "debug", IF logs THEN "bug" ELSE "none")
      /\ UNCHANGED <<born, dead, cancelled, head, container, map, ran, disordered>>
ResetEnvoyBugCounters ==
  /\ Quiet
  /\ counters' = NoHits /\ logged' = NoHits
  /\ UNCHANGED <<born, dead, cancelled, head, container, map, ran>>

Init ==
  /\ born = <<>> /\ dead = {} /\ cancelled = {}
  /\ head = [debug |-> 0, bug |-> 0, loader |-> 0]
  /\ container = <<>> /\ map = NoKey /\ ran = <<>>
  /\ counters = NoHits /\ logged = NoHits
  /\ build \in {"debug", "logged", "release"} /\ aborted = FALSE /\ notified = <<>>
  /\ disordered = {}

Next ==
  \/ \E list \in {"debug", "bug"} : AddAction(list)
  \/ \E kind \in {"scoped", "stacked"} : AddLoader(kind)
  \/ \E kind \in {"list", "map", "cleanup"}, key \in Key \cup {""} : AddElement(kind, key)
  \/ \E o \in DOMAIN born : Cancel(o) \/ EraseNow(o) \/ Destroy(o)
  \/ \E bug \in Bug : HitBug(bug)
  \/ \E macro \in {"RELEASE_ASSERT", "KNOWN_ISSUE_ASSERT", "ASSERT", "SLOW_ASSERT"} : AssertFails(macro)
  \/ ResetEnvoyBugCounters

Spec == Init /\ [][Next]_vars
------------------------------------------------------------------------------
NewestFirst(objects) == Reverse(SetToSortSeq(objects, <))
OfKind(kinds) == {o \in DOMAIN born : born[o].kind \in kinds}
\* An element stays until it is erased: destroyed or erased without having been cancelled.
Stays(o) == o \notin dead \/ o \in cancelled

\* A failed assertion or bug runs every registered action, the newest first and none
\* that was destroyed, and the singleton is the newest loader that lives, as long as
\* the newest of that list was always destroyed first; for actions a debug build sees to
\* that, no other build does (Assert.cpp:21, 78), nor does any for loaders.  No key of the map
\* is left without elements, and none with elements is dropped; a clean-up runs once,
\* on destruction, unless it was cancelled; and after n hits of a bug since
\* the counters were cleared, the hits 1, 2, 4, 8... up to n were logged.
\* Actions are run only by builds that go on after a failure.
RegistrationsNest ==
  /\ build = "debug" => disordered \subseteq {"loader"}
  /\ \A list \in {"debug", "bug"} \ disordered : Invoked(list) = NewestFirst(OfKind({list}) \ dead)
  /\ "loader" \notin disordered => head.loader = Max({0} \cup (OfKind({"scoped", "stacked"}) \ dead))
  /\ ToSet(container) \subseteq {o \in OfKind({"list"}) : Stays(o)}
  /\ {o \in OfKind({"list"}) : Stays(o)} \ cancelled \subseteq ToSet(container)
  /\ \A k \in Key :
       LET elements == {o \in OfKind({"map"}) : born[o].key = k /\ Stays(o)} IN
       IF elements = {} THEN k \notin DOMAIN map ELSE k \in DOMAIN map /\ map[k] = NewestFirst(elements)
  /\ IsInjective(ran) /\ ToSet(ran) = (OfKind({"cleanup"}) \cap dead) \ cancelled
  /\ \A b \in Bug : logged[b] = Cardinality({k \in 0..MaxHits : 2^k <= counters[b]})
  /\ notified # <<>> => build # "debug" /\ ~aborted /\ \A i \in 2..Len(notified) : notified[i] < notified[i - 1]
==============================================================================
