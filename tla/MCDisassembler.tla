--------------------------- MODULE MCDisassembler ---------------------------
(***************************************************************************)
(* A small program around one Disassembler: two sessions, two callback     *)
(* objects (o2 cannot resolve), hashes and calls that take every path.     *)
(***************************************************************************)
EXTENDS Disassembler

CONSTANTS o1, o2, s1, s2, none, x86, arm

MCResponds == [resolver |-> {o1}, handler |-> {o1, o2}, decoder |-> {o1, o2}]
MCInitial  == [debug |-> FALSE, options |-> none, arch |-> x86]

NoArgs == [cb |-> [k \in Kinds |-> Absent], syntax |-> FALSE, debug |-> Absent,
           options |-> Absent, arch |-> Absent]
With(k, v) == [NoArgs EXCEPT !.cb[k] = v]

MCAssignments ==
  {NoArgs, With("decoder", Nil), With("decoder", o2), With("resolver", o2),
   [NoArgs EXCEPT !.options = Bad], [NoArgs EXCEPT !.debug = Nil]}

Linear == [target |-> "buffer", strategy |-> "linear", number |-> "ok", args |-> NoArgs]

MCCalls ==
  {[Linear EXCEPT !.args = [With("decoder", o1) EXCEPT !.debug = FALSE]],
   [Linear EXCEPT !.args = [With("decoder", o2) EXCEPT !.syntax = TRUE]],
   [Linear EXCEPT !.number = "bad buffer_vma"], [Linear EXCEPT !.target = "invalid"],
   [Linear EXCEPT !.strategy = "unknown"],
   [Linear EXCEPT !.strategy = "symbol"],
   [Linear EXCEPT !.target = "target", !.strategy = "entry",
                  !.args = [With("resolver", o1) EXCEPT !.arch = arm,
                                                     !.debug = TRUE]]}
=============================================================================
