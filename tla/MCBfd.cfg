SPECIFICATION Spec
CONSTANTS
  Nil = Nil
  Targets = {t1, t2}
  Ios = {io1}
  Fds = {fd3, fd4}
  Temps = {tmp1}
  Files = {"program", "object", "text", "broken"}
  Layout <- MCLayout
  Addresses = {0, 1, 2, 3}
  MaxOpens = 3
SYMMETRY Symmetry
\* A program may run out of descriptors and targets, and a fault ends it.
CHECK_DEADLOCK FALSE
INVARIANTS
  TypeOK
  OwnFile
  DescriptorsAccounted
  TablesSound
  TempAccounted
