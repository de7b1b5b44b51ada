SPECIFICATION FairSpec
CONSTANTS
  MaxEvents = 3
  MaxFailures = 2
  Barriers = {b1, b2}
CHECK_DEADLOCK FALSE
INVARIANTS NothingLost
PROPERTIES FlushIsDurable RevokedWritesNothing BufferDrains CallersSettle
