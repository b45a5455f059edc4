SPECIFICATION Spec
CONSTANTS
  Nil = Nil
  UIntSpan = 8
  VmaSpan = 32
  Reach = 4
  Levels = {"basic", "mnemonic", "operands"}
  Categories = {"unknown", "cflow", "stack"}
  FlagsOf <- MCFlagsOf
  RegFlags = {"general", "segment"}
  OpFlags = {"r", "w", "x", "signed"}
  Addresses = {3, 29}
  Decodings <- MCDecodings
  Edits <- MCEdits
  MaxCalls = 2
  MaxFills = 2
\* A program may stop disassembling, and a crash ends it.
CHECK_DEADLOCK FALSE
INVARIANTS
  TypeOK
  ArrivesAsDecoded
  LevelsKept
  AliasesSound
  UnaidedNeedsRoles
  FlowAgrees
