\* Two sessions share one Disassembler.
SPECIFICATION Spec
CONSTANTS
  o1 = o1
  o2 = o2
  none = none
  x86 = x86
  arm = arm
  s1 = s1
  s2 = s2
  Sessions = {s1, s2}
  Objects = {o1, o2}
  Responds <- MCResponds
  Options = {none}
  Archs = {x86, arm}
  BfdArch = x86
  Initial <- MCInitial
  Assignments <- MCAssignments
  Calls <- MCCalls
  MaxCalls = 3
  MaxItems = 1
  Default = Default
  Nil = Nil
  Absent = Absent
  Bad = Bad
  NoCall = NoCall
INVARIANTS
  TypeOK
  InstanceRooted
  FreedOnlyIfReplaced
  OffForAReason
  DupsAccounted
  BufsAccounted
PROPERTIES
  EnabledOnlyByReturn
  
CHECK_DEADLOCK FALSE
