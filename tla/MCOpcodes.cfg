\* Two calls of one disassembler, every pair of them, whatever it was created for.
SPECIFICATION Spec
CONSTANTS
  x86 = x86
  arm = arm
  elf = elf
  UIntSpan = 16
  Functions = {x86, arm, Generic, Invalid, NoFunction}
  Generic = Generic
  Invalid = Invalid
  NoFunction = NoFunction
  Object = Object
  FnForBfd <- MCFnForBfd
  Bfds = {elf}
  Initials = {Generic, x86, arm, NoFunction}
  Calls <- MCCalls
  MaxCalls = 2
  Nil = Nil
INVARIANTS
  TypeOK
  NeverTwice
  FaultsExplained
  BuffersAccounted
PROPERTIES
  AllBytes
  Terminates
CHECK_DEADLOCK FALSE
