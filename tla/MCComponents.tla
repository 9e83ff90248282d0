----------------------------- MODULE MCComponents -----------------------------
(***************************************************************************)
(* The components that share no state with each other, side by side: the   *)
(* ring of slices (which this module extends), storing, reading, searching *)
(* buffers, containers, strings, numbers, times, addresses, sockets, the   *)
(* connection handler, the listener manager, threads, locks, registrations *)
(* and timers.  A behaviour belongs to one of them, which the variable     *)
(* part names; the others stay as they begin.  The bounds of each one are  *)
(* in its INSTANCE.                                                        *)
(***************************************************************************)
EXTENDS SliceDeque, Integers

VARIABLES
  part,
  intervals, inserted,
  entries, table,
  formatted, seconds_length, log, ret,
  source, input,
  words, words_idx, bytes, bytes_idx, fetched, failed, given,
  left, right, text,
  form, arrived, queue, dropped, packets_dropped, num_reads, processed, truncated, reported,
  sending, sent, write_results,
  listener_map_by_tag, tcp_listener_map_by_address, internal_listener_map_by_address, crashed,
  added, overridden,
  errno, result, cause, supported,
  active_listeners, warming_listeners, workers_started, posts, handled, torn_down, made,
  stop_listeners_type,
  main_threads_to_usage_count, skip_asserts, life, mains, skips,
  holder, guard, forgotten, data, mutex, call, got, objects, deleted, once, instance,
  born, dead, cancelled, head, container, map, ran, counters, logged, build, aborted,
  notified, disordered,
  now, cached, approximate_monotonic_time, phase, deadline, active, due, fired,
  owned_slices, reservation, free_list, extracted, external,
  slices,
  hay, needle, from, limit, slice_index, search_start, left_to_search, offset, haystack,
  first_byte_match, saved_left_to_search, i, match_index, match_next, position, pc

intervalVars == <<intervals, inserted>>
trieVars == <<entries, table>>
dateVars == <<formatted, seconds_length, log, ret>>
randomVars == <<words, words_idx, bytes, bytes_idx, fetched, failed, given>>
addressVars == <<left, right>>
udpVars ==
  <<form, arrived, queue, dropped, packets_dropped, num_reads, processed, truncated, reported,
    sending, sent, write_results>>
handlerVars ==
  <<listener_map_by_tag, tcp_listener_map_by_address, internal_listener_map_by_address, crashed,
    added, overridden>>
callVars == <<errno, result, cause, supported>>
listenerVars ==
  <<active_listeners, warming_listeners, workers_started, posts, handled, torn_down, made,
    stop_listeners_type>>
threadVars == <<main_threads_to_usage_count, skip_asserts, life, mains, skips>>
lockVars == <<holder, guard, forgotten, data, mutex, call, got, objects, deleted, once, instance>>
registrationVars ==
  <<born, dead, cancelled, head, container, map, ran, counters, logged, build,
    aborted, notified, disordered>>
timerVars ==
  <<now, cached, approximate_monotonic_time, phase, deadline, active, due, fired>>
storageVars == <<owned_slices, reservation, free_list, extracted, external>>
searchVars ==
  <<hay, needle, from, limit, slice_index, search_start, left_to_search, offset, haystack,
    first_byte_match, saved_left_to_search, i, match_index, match_next, position, pc>>

\* Intervals may overlap, touch and lie inside each other.
Intervals == INSTANCE IntervalSet WITH MaxValue <- 6

\* A key can be a prefix of two others, and a prefix of it can be absent.
Trie == INSTANCE TrieLookupTable WITH
  Byte <- {1, 2}, MaxKey <- 2, TrieValue <- {"x", "y"}, NoValue <- "none"

\* Each specifier first, last and next to another; seconds of one and two digits.
Dates == INSTANCE DateFormatter WITH
  Formats <- {<<"Y", "c", "f">>, <<"s", "c", "1f", "Y", "f", "c">>, <<"c", "s">>, <<"1f", "s", "1f">>},
  Seconds <- {8, 9, 10}, Digits <- 3

\* Blanks, delimiters and letters of either case; what is escaped; numerals beyond Word.
Strings == INSTANCE StringUtil WITH
  Alphabets <- {{"_", ",", "a", "A", "n"}, {"\n", "n", "bs"}, {"0", "1", "9", "-"}},
  MaxLength <- 4, Word <- 100

Ints == INSTANCE Numbers WITH MaxNumber <- 4, MaxNumbers <- 3, Word <- 32

\* Three fetches, so that each buffer is used up and filled again; a rest of one byte.
Randoms == INSTANCE RandomGenerator WITH Prefetch <- 2, BufferSize <- 33, MaxFetches <- 3

\* Both sides of every border between classes of addresses, ports of 16 bits, and texts
\* of up to five tokens, the shortest that hold a bracketed address with a port.
Addr == INSTANCE AddressText WITH
  V4 <- {<<0, 0, 0, 0>>, <<127, 0, 0, 1>>, <<127, 0, 0, 2>>, <<172, 15, 0, 1>>, <<172, 16, 0, 1>>,
         <<172, 31, 255, 255>>, <<172, 32, 0, 0>>, <<10, 0, 0, 1>>, <<192, 168, 0, 1>>,
         <<192, 169, 0, 1>>, <<223, 255, 0, 1>>, <<224, 0, 0, 1>>, <<239, 255, 255, 255>>,
         <<255, 255, 255, 255>>, <<1, 11, 1, 1>>, <<11, 1, 1, 1>>},
  V6 <- {<<0, 0>>, <<0, 1>>, <<64768, 1>>, <<65280, 1>>, <<65535, <<10, 0, 0, 1>>>>, <<8193, 1>>},
  Port <- {0, 80}, Scope <- {0, 2}, Path <- {"p", "q"},
  Tokens <- {{"1.2.3.4", "[", "]", ":", "::1", "80", "65536"}, {"::1", "%", "80"},
             {"0", "80", "65536", "-", ","}},
  MaxTokens <- 5

\* Three datagrams, so that two can be joined and a third is shorter; a drop counter
\* that wraps around.
Udp == INSTANCE UdpSocket WITH
  MaxDatagrams <- 3, MaxDatagramSize <- 2, NumPerReceive <- 2, Expected <- 2,
  MaxDrops <- 3, Uint32 <- 3

\* Three listeners: two that want 0.0.0.0 and a third that takes it in between, with equal
\* and with different tags.
Any4 == Addr!Ipv4Instance(<<0, 0, 0, 0>>, 80)
V6At80(address, v6only) == Addr!Ipv6FromSockaddr(address, 0, 80, v6only)
Any6(v6only) == V6At80(<<0, 0>>, v6only)
Config(type, addresses) == [type |-> type, addresses |-> addresses]
Handler == INSTANCE ConnectionHandler WITH
  Configs <- {Config("tcp", <<Any4>>), Config("tcp", <<Any6(TRUE)>>), Config("tcp", <<Any6(FALSE)>>),
              Config("tcp", <<Any4, Any6(FALSE)>>), Config("tcp", <<Any6(FALSE), Any4>>),
              Config("tcp", <<V6At80(<<65535, <<10, 0, 0, 1>>>>, FALSE)>>),
              Config("tcp", <<V6At80(<<8193, 1>>, FALSE)>>), Config("tcp", <<V6At80(<<8193, 1>>, TRUE)>>),
              Config("udp", <<Any4, V6At80(<<8193, 1>>, FALSE)>>),
              Config("internal", <<Addr!EnvoyInternalInstance("i"), Any4>>)},
  Tags <- {"tag1", "tag2"}, MaxListeners <- 3

\* One code that stands for a missing system call and one that does not; a platform
\* without some of the options.
Calls == INSTANCE SysCalls WITH
  Errno <- {11, 22}, EINVAL <- 22, NOT_SUP <- 95,
  Platform <- {"IP_TRANSPARENT", "SO_KEEPALIVE", "UDP_GRO", "TCP_KEEPALIVE"}

\* Updates before and after the workers start; lists with the same address twice.
Listed == {Addr!Ipv4Instance(<<10, 0, 0, 1>>, 80), Addr!Ipv4Instance(<<10, 0, 0, 1>>, 0),
           Addr!PipeInstance("p", TRUE)}
Listeners == INSTANCE ListenerManager WITH
  Names <- {"listener_0"}, Workers <- {"w1", "w2"}, MaxUpdates <- 4,
  AddressLists <- UNION {[1..n -> Listed] : n \in 0..2}, destroyed <- torn_down

\* Two main threads next to the test thread, each of which may nest.
Registry == INSTANCE Threads WITH
  Thread <- {"t0", "t1", "t2"}, TestThread <- "t0", MaxNested <- 2, Uint32 <- 8

\* One thread in the lock, one that waits for it and one that has been there.
Lock == INSTANCE Locks WITH
  Thread <- {"t0", "t1", "t2"}, NoThread <- "nobody", Index <- {1}, MaxMade <- 2,
  DeleteOnDestruct <- TRUE, made <- objects

\* Three objects: the middle one of a chain can go first where the code allows it.
Registered == INSTANCE Registrations WITH
  Key <- {"k"}, Bug <- {"b"}, MaxObjects <- 3, MaxHits <- 3

\* Two timers that can expire together; a duration that is clipped.
Clocked == INSTANCE Timers WITH
  Timer <- {"t1", "t2"}, Millis <- 2, Micros <- 4, ClipTo <- 1, Duration <- {0, 1, 4},
  MaxTime <- 4, Factor <- {<<-1, 2>>, <<1, 2>>, <<2, 3>>, <<3, 2>>}, None <- -1

\* Bytes of two bits; three slices, so that an integer or a copy spans a whole slice.
Reads == INSTANCE BufferReads WITH Base <- 4, Width <- 3, MaxSlices <- 3, MaxBytes <- 3

\* Two buffers, of which one can reserve what the other gave back; requests below and
\* above a slice; three blocks, one more than the free list holds.
Storage == INSTANCE BufferStorage WITH
  Buffer <- {"b1", "b2"}, Block <- {"m1", "m2", "m3"}, NULL <- "null", MAX_SLICES <- 2,
  SliceBytes <- 8, Fill <- {0, 7}, Request <- {2, 16}, slices <- owned_slices

\* The instances satisfy what the proofs about these modules assume of the constants.
ASSUME ComponentsAssumption ==
  /\ Registry!CountersFit /\ Lock!ThreadIds /\ Lock!Slots /\ Clocked!TimeUnits
  /\ Randoms!PoolSizes /\ Trie!ValuesAreNotNull /\ Storage!StorageSizes

\* A needle of three bytes can begin in the first slice and end in the third.
Searches == INSTANCE BufferSearch WITH
  Byte <- {"a", "b"}, MaxSlice <- 2, MaxSlices <- 3, MaxBytes <- 4, MaxNeedle <- 3, Word <- 64,
  start <- search_start, result <- position

------------------------------------------------------------------------------
Parts ==
  {"deque", "intervals", "trie", "dates", "strings", "numbers", "random", "addresses", "texts",
   "udp", "handler", "calls", "listeners", "threads", "guards", "objects", "registrations",
   "timers", "storage", "reads", "search"}

ComponentsInit ==
  /\ part \in Parts
  /\ Init
  /\ Intervals!Init /\ Trie!Init /\ Dates!Init /\ Strings!Init /\ Ints!Init /\ Randoms!Init
  /\ Addr!Init /\ Addr!TextInit
  /\ Udp!Init /\ (part = "udp" \/ form = "gro")
  /\ Handler!Init /\ Calls!Init /\ Listeners!Init
  /\ Registry!Init /\ Lock!Init /\ Clocked!Init
  /\ Registered!Init /\ (part = "registrations" \/ build = "debug")
  /\ Storage!Init /\ Reads!Init /\ Searches!Init

\* A step of one part.
Others(p) ==
  /\ IF p = "deque" THEN TRUE ELSE UNCHANGED vars
  /\ IF p = "intervals" THEN TRUE ELSE UNCHANGED intervalVars
  /\ IF p = "trie" THEN TRUE ELSE UNCHANGED trieVars
  /\ IF p = "dates" THEN TRUE ELSE UNCHANGED dateVars
  /\ IF p = "strings" THEN TRUE ELSE UNCHANGED source
  /\ IF p = "numbers" THEN TRUE ELSE UNCHANGED input
  /\ IF p = "random" THEN TRUE ELSE UNCHANGED randomVars
  /\ IF p = "addresses" THEN TRUE ELSE UNCHANGED addressVars
  /\ IF p = "texts" THEN TRUE ELSE UNCHANGED text
  /\ IF p = "udp" THEN TRUE ELSE UNCHANGED udpVars
  /\ IF p = "handler" THEN TRUE ELSE UNCHANGED handlerVars
  /\ IF p = "calls" THEN TRUE ELSE UNCHANGED callVars
  /\ IF p = "listeners" THEN TRUE ELSE UNCHANGED listenerVars
  /\ IF p = "threads" THEN TRUE ELSE UNCHANGED threadVars
  /\ IF p \in {"guards", "objects"} THEN TRUE ELSE UNCHANGED lockVars
  /\ IF p = "registrations" THEN TRUE ELSE UNCHANGED registrationVars
  /\ IF p = "timers" THEN TRUE ELSE UNCHANGED timerVars
  /\ IF p = "storage" THEN TRUE ELSE UNCHANGED storageVars
  /\ IF p = "reads" THEN TRUE ELSE UNCHANGED slices
  /\ IF p = "search" THEN TRUE ELSE UNCHANGED searchVars
  /\ UNCHANGED part

ComponentsNext ==
  \/ part = "deque" /\ Next /\ Others("deque")
  \/ part = "intervals" /\ Intervals!Next /\ Others("intervals")
  \/ part = "trie" /\ Trie!Next /\ Others("trie")
  \/ part = "dates" /\ Dates!Next /\ Others("dates")
  \/ part = "strings" /\ Strings!Next /\ Others("strings")
  \/ part = "numbers" /\ Ints!Next /\ Others("numbers")
  \/ part = "random" /\ Randoms!Next /\ Others("random")
  \/ part = "addresses" /\ Addr!Next /\ Others("addresses")
  \/ part = "texts" /\ Addr!TextNext /\ Others("texts")
  \/ part = "udp" /\ Udp!Next /\ Others("udp")
  \/ part = "handler" /\ Handler!Next /\ Others("handler")
  \/ part = "calls" /\ Calls!Next /\ Others("calls")
  \/ part = "listeners" /\ Listeners!Next /\ Others("listeners")
  \/ part = "threads" /\ Registry!Next /\ Others("threads")
  \/ part = "guards" /\ Lock!GuardNext /\ Others("guards")
  \/ part = "objects" /\ Lock!ObjectNext /\ Others("objects")
  \/ part = "registrations" /\ Registered!Next /\ Others("registrations")
  \/ part = "timers" /\ Clocked!Next /\ Others("timers")
  \/ part = "storage" /\ Storage!Next /\ Others("storage")
  \/ part = "reads" /\ Reads!Next /\ Others("reads")
  \/ part = "search" /\ Searches!Next /\ Others("search")

ComponentsVars ==
  <<part, vars, intervalVars, trieVars, dateVars, source, input, randomVars, addressVars,
    text, udpVars, handlerVars, callVars, listenerVars, threadVars, lockVars,
    registrationVars, timerVars, storageVars, slices, searchVars>>

ComponentsSpec == ComponentsInit /\ [][ComponentsNext]_ComponentsVars

------------------------------------------------------------------------------
\* IntervalSet and TrieLookupTable of Utility.h answer like the set of what was
\* inserted and the table of what was added, in whatever order (IntervalsAreExact,
\* LookupsAgree).
ContainersAreExact ==
  /\ part = "intervals" => Intervals!IntervalsAreExact
  /\ part = "trie" => Trie!LookupsAgree

\* fromTime() returns the text of this format and second whatever the thread's cache
\* holds (CachedTimesAreFresh of DateFormatter).
CachedTimesAreFresh == part = "dates" => Dates!CachedTimesAreFresh

\* The pure functions of Utility.cpp, Utility.h, Interval_value.h, RandomGenerator.h
\* and Hash.h return what their definitions say (modules StringUtil and Numbers, which
\* name the arguments that are left out).
FunctionsAgree ==
  /\ part = "strings" => Strings!StringFunctionsAgree /\ Strings!ConversionsAreExact
  /\ part = "numbers" => Ints!IntegersAreExact /\ Ints!FractionsAreExact

\* random() and uuid() hand out each random byte once, across refills.
RandomDataIsUsedOnce == part = "random" => Randoms!RandomDataIsUsedOnce

\* Names of addresses, classes of addresses and texts of addresses and ports mean what
\* they say (modules Addresses and AddressText).
AddressesAreExact ==
  /\ part = "addresses" => Addr!NamesIdentifyAddresses /\ Addr!AddressClassesAreExact
  /\ part = "texts" => Addr!TextsParseExactly

\* Datagrams are passed on whole, in order and once, however the kernel joined them,
\* and every drop that its counter shows is reported once (module UdpSocket).
DatagramsAreAccountedFor == part = "udp" => Udp!DatagramsStayWhole /\ Udp!DropsAreReported

\* The maps of addListener() lead to the listener with the address in question, in
\* whatever order listeners are added and with whatever tags (module ConnectionHandler).
AddressesLeadToTheirListener == part = "handler" => Handler!AddressesLeadToTheirListener

\* A system call's result carries its own error code (module SysCalls).
ErrorsAreTheirOwn == part = "calls" => Calls!ErrorsAreTheirOwn

\* Listeners that workers were posted are not destroyed by updates, and sockets are taken
\* over only by a listener with the same addresses (module ListenerManager).
ListenersAreReplacedSafely ==
  part = "listeners" => Listeners!ListenersOutlivePosts /\ Listeners!AddressListsAreCompared

\* The checks for the main thread see exactly the threads with a MainThread object,
\* however these nest (module Threads).  Guards hold their lock until they release it,
\* once, and only a second tryLock() makes one forget it; AtomicPtrArray and the singleton make one object however many threads ask at
\* once (module Locks).
ThreadsAreKeptApart ==
  /\ part = "threads" => Registry!ThreadChecksAreExact
  /\ part = "guards" => Lock!GuardsOwnTheirLock
  /\ part = "objects" => Lock!ObjectsAreMadeOnce

\* Scoped registrations (assertion actions, singleton loaders, list elements,
\* clean-ups) nest, and bugs are logged at powers of two (module Registrations).
RegistrationsNest == part = "registrations" => Registered!RegistrationsNest

\* A block of memory belongs to one slice, reservation, list or caller, and a reservation
\* has the space that it shows (module BufferStorage).
MemoryIsOwnedOnce == part = "storage" => Storage!MemoryHasOneOwner /\ Storage!ReservationsFit

\* A timer runs only while it is enabled, never early (module Timers).
TimersRunWhenDue == part = "timers" => Clocked!TimersRunWhenDue

\* copyOut(), copyOutToSlices(), peekInt() and search() see the bytes of the buffer, not the borders of
\* its slices (modules BufferReads and BufferSearch).
BufferReadsAreExact ==
  /\ part = "reads" => Reads!ReadsSeeTheContent /\ Reads!IntegersAreReadBack
  /\ part = "search" => Searches!FindsFirstMatch /\ Searches!LeftToSearchStaysInRange

\* Every turn of the loops of search() gets further, so that it ends (module
\* BufferSearch).
Progresses == Searches!Progresses
==============================================================================
