SPECIFICATION ComponentsSpec
CONSTANTS
  Slices = {s1, s2, s3}
  NoSlice = NoSlice
  InlineRingCapacity = 2
  MaxSize = 5
INVARIANTS
  VacantSlotsAreEmpty ContainersAreExact CachedTimesAreFresh FunctionsAgree
  RandomDataIsUsedOnce AddressesAreExact DatagramsAreAccountedFor AddressesLeadToTheirListener
  ErrorsAreTheirOwn ListenersAreReplacedSafely ThreadsAreKeptApart MemoryIsOwnedOnce
  RegistrationsNest TimersRunWhenDue BufferReadsAreExact
PROPERTIES SequenceSpec Progresses
CHECK_DEADLOCK FALSE
