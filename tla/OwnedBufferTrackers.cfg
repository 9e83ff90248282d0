SPECIFICATION Spec
CONSTANTS
  Buffers = {b1,b2}
  Trackers = {t1}
  Fragments = {t1}
  Accounts = {}
  None = None
  PageSize = 2
  DefaultSliceSize = 4
  MinReuse = 1
  MaxSlices = 2
  CopyThreshold = 2
  Rooms = {1,3}
  MaxBytes = 2
  MaxCopied = 0
  MaxQueue = 2
SYMMETRY Sym
INVARIANTS LengthIsSumOfSlices TrackersRunOnce TrackersRunAfterLastByte
PROPERTY ContentSpec
