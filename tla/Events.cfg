SPECIFICATION FairSpec
CONSTANTS
  a = a
  b = b
  Clients <- MCClients
  MaxRequests <- MCRequests
  MaxChanges = 2
INVARIANT OncePerSubscription
INVARIANT LastEventIsCurrent
INVARIANT OnlyCutCrashes
INVARIANT OneWrite
PROPERTY ImplementsChannel
CHECK_DEADLOCK FALSE
