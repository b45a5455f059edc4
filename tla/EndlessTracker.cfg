\* One session, five calls with the same VisitedAddressTracker.
SPECIFICATION Spec
CONSTANTS
  s1 = s1
  s2 = s2
  Sessions = {s1}
  Code <- MCCode
  Known = {0, 3, 10}
  Calls <- TrackerCalls
  MaxCalls = 5
  NoCall = NoCall
  UIntSpan = 8
  VmaSpan = 16
  Reach = 2
PROPERTIES
  TrackerPreventsLoops
CHECK_DEADLOCK FALSE
