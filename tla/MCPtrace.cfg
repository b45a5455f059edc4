SPECIFICATION Spec
CONSTANTS
  Nil = Nil
  Procs = {p1}
  Targets = {t1, t2}
  RegSets = {r1}
  Values <- MCValues
SYMMETRY Symmetry
\* A program without RegSet::Ext may be left with nothing to do.
CHECK_DEADLOCK FALSE
INVARIANTS
  TypeOK
  ErrorsExplained
  TargetsAccounted
PROPERTIES
  EditsOnly
