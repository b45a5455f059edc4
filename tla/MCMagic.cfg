\* Three threads, four calls.
SPECIFICATION Spec
CONSTANTS
  plain = plain
  mime = mime
  t1 = t1
  t2 = t2
  t3 = t3
  Threads = {t1, t2, t3}
  Flags = {plain, mime}
  Requests <- MCRequests
  MaxCalls = 4
  NoRequest = NoRequest
INVARIANTS
  TypeOK
  AloneOnOwnHandle
  HandlesAccounted
PROPERTIES
  FaultNeedsOverlap
CHECK_DEADLOCK FALSE
