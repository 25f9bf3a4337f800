SPECIFICATION Spec
CONSTANTS
  SZ = 5
  Sizes = {1, 3}
  MaxSegments = 3
  MaxRequests = 3
INVARIANTS
  TypeOK
  AnswerIsOwn
  RoomIsExact
PROPERTY ReceiveEnds
