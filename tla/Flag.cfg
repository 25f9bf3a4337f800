SPECIFICATION Spec
CONSTANTS
  MB_CUR_MAX = 6
  MAX_FLAGS_IN_GROUP = 6
  MaxArgs = 7
INVARIANTS
  StaysInBuffer
  FullGroupAccepted
