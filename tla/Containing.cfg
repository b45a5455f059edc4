\* One session, one call; the second instruction has two bytes.
SPECIFICATION Spec
CONSTANTS
  s1 = s1
  s2 = s2
  Sessions = {s1}
  Code <- PairCode
  Known = {}
  Calls <- PairCalls
  MaxCalls = 1
  NoCall = NoCall
  UIntSpan = 8
  VmaSpan = 16
  Reach = 2
INVARIANTS
  ContainingFinds
CHECK_DEADLOCK FALSE
