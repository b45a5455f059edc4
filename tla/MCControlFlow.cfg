\* Two sessions share the trackers.
SPECIFICATION Spec
CONSTANTS
  s1 = s1
  s2 = s2
  Sessions = {s1, s2}
  Code <- MCCode
  Known = {0, 3, 10}
  Calls <- MCCalls
  MaxCalls = 3
  NoCall = NoCall
  UIntSpan = 8
  VmaSpan = 16
  Reach = 2
INVARIANTS
  TypeOK
  OncePerCall
  NoStray
  NothingMissed
  ContainingSound
PROPERTIES
  Terminates
CHECK_DEADLOCK FALSE
