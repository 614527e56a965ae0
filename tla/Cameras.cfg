SPECIFICATION FairSpec
CONSTANTS
  a = a
  b = b
  Streams <- MCStreams
  RingSize = 2
  MaxSize = 3
  MaxWritten = 3
  MaxRequests = 2
  MaxFailures = 1
INVARIANT TypeOK
INVARIANT CameraRunsForHolders
INVARIANT ReferencesAreStreams
INVARIANT OnlyLappedCrashes
PROPERTY ReadsInOrder
PROPERTY NeverBackwards
PROPERTY AbandonedEnds
CHECK_DEADLOCK FALSE
