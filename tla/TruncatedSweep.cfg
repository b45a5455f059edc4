\* One sweep of an array that ends within an instruction, by an object created for an
\* arm file.
SPECIFICATION Spec
CONSTANTS
  x86 = x86
  arm = arm
  elf = elf
  UIntSpan = 16
  Functions = {x86, arm, Generic, Invalid, NoFunction}
  Generic = Generic
  Invalid = Invalid
  NoFunction = NoFunction
  Object = Object
  FnForBfd <- MCFnForBfd
  Bfds = {elf}
  Initials = {arm}
  Calls <- CutCalls
  MaxCalls = 1
  Nil = Nil
PROPERTIES
  SweepEnds
CHECK_DEADLOCK FALSE
