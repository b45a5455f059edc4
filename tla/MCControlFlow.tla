--------------------------- MODULE MCControlFlow ---------------------------
(***************************************************************************)
(* A target with a loop, a branch to the upper half of the int range, one  *)
(* beyond it, and one whose target is not known.  An int has three bits,   *)
(* an address four.                                                        *)
(***************************************************************************)
EXTENDS ControlFlow

CONSTANTS s1, s2

Insn(next) == [size |-> 1, next |-> next, branch |-> FALSE, target |-> InvalidAddr,
               convertible |-> TRUE]
Jump(next, target) == [Insn(next) EXCEPT !.branch = TRUE, !.target = target]

MCCode ==
  [a \in {0, 1, 2, 3, 5, 6, 10} |->
    CASE a = 0  -> [Jump(InvalidAddr, 10) EXCEPT !.convertible = FALSE]
      [] a = 1  -> Insn(2)
      [] a = 2  -> Jump(3, 5)
      [] a = 3  -> [Jump(InvalidAddr, 1) EXCEPT !.size = 2]
      [] a = 5  -> Insn(6)
      [] a = 6  -> Jump(InvalidAddr, InvalidAddr)
      [] a = 10 -> Jump(InvalidAddr, 2)]

Call(start, tracker, resolver) == [start |-> start, tracker |-> tracker, resolver |-> resolver]

MCCalls ==
  {Call(1, "marking", "operand"), Call(5, "marking", "operand"),
   Call(0, "marking", "operand"), Call(1, "marking", "default"),
   Call(0, "default", "default"),
   Call(0, "default", "builtin"), Call(1, "default", "builtin"), Call(1, "builtin", "default"),
   Call(0, "builtin", "default")}

\* Two instructions, the second of two bytes, and a call that shows both.
PairCode  == [a \in {1, 2} |-> IF a = 1 THEN Insn(2) ELSE [Insn(InvalidAddr) EXCEPT !.size = 2]]
PairCalls == {Call(1, "default", "default")}

\* A VisitedAddressTracker on the loop, a second time.
TrackerCalls == {Call(1, "builtin", "default")}
=============================================================================
