SPECIFICATION Spec
CONSTANTS
  Buffers = {b1,b2}
  Trackers = {}
  Fragments = {}
  Accounts = {a1}
  None = None
  PageSize = 2
  DefaultSliceSize = 4
  MinReuse = 1
  MaxSlices = 2
  CopyThreshold = 2
  Rooms = {}
  MaxBytes = 2
  MaxCopied = 2
  MaxQueue = 2
SYMMETRY Sym
INVARIANTS LengthIsSumOfSlices AccountsBalance
PROPERTY ContentSpec
