SPECIFICATION Spec
CONSTANTS
  Buffers = {b1, b2}
  Trackers = {t1}
  Fragments = {}
  Accounts = {}
  None = None
  PageSize = 2
  DefaultSliceSize = 4
  MinReuse = 1
  MaxSlices = 2
  CopyThreshold = 2
  Rooms = {}
  MaxBytes = 3
  MaxCopied = 0
  MaxQueue = 2
SYMMETRY Sym
INVARIANT DrainTrackersFollowBytes
