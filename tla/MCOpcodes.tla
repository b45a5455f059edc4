----------------------------- MODULE MCOpcodes -----------------------------
(***************************************************************************)
(* One disassembler used for strings, arrays, files and Bfd objects of     *)
(* five bytes, and for a string as long as four bits can count, which a    *)
(* sweep from an offset may go round until the position wraps.             *)
(***************************************************************************)
EXTENDS OpcodesDisassembler

CONSTANTS x86, arm, elf

\* Arch.c compares the architecture of an entry with the machine of the file too: no
\* file has both, and fn_for_bfd falls back to the generic function.
MCFnForBfd == [b \in Bfds |-> Invalid]

Target(kind, base, sizes) ==
  [kind |-> kind, size |-> Len(sizes), sizes |-> [f \in Decoders |-> sizes], base |-> base,
   bfd |-> elf, good |-> TRUE, readable |-> TRUE]

Whole == <<2, 1, 1, 2, 1>>
\* x86 takes what is left of an instruction for an instruction, arm fails.
Cut   == [Target("array", 0, <<1, 2, 1, 1>>) EXCEPT !.sizes[arm] = <<1, 2, 1, -1>>]
Long  == <<2, 1, 2, 1, 1, 2, 2, 1, 1, 1, 2, 1, 1, 2, 1>>

Sweep(t) == [op |-> "disasm", target |-> t, buffer_vma |-> Nil, vma |-> Nil, length |-> Nil,
             number |-> "ok"]

MCTargets ==
  {Target("string", 0, Whole), Target("string", 0, <<>>), Cut,
   Target("io", 0, Whole), Target("section", 3, Whole), Target("symbol", 13, Whole)}
Bad == {[Target(k, 0, Whole) EXCEPT !.good = FALSE] : k \in {"array", "io", "symbol", "other"}}
Unreadable ==
  {[Target(k, 3, Whole) EXCEPT !.readable = FALSE, !.good = g] :
     k \in {"section", "symbol"}, g \in BOOLEAN}

MCCalls ==
  {Sweep(t) : t \in MCTargets \cup Bad \cup Unreadable}
  \cup {[Sweep(t) EXCEPT !.buffer_vma = b, !.vma = v, !.length = n] :
          t \in MCTargets, b \in {Nil, 2, 14}, v \in {Nil, 0, 1, 4, 15}, n \in {Nil, 2, 7}}
  \cup {[Sweep(Target("string", 0, Whole)) EXCEPT !.length = n] : n \in {-3, 9, Object}}
  \cup {[Sweep(t) EXCEPT !.op = "disasm_insn", !.vma = v] : t \in MCTargets, v \in {Nil, 1, 5}}
  \cup {[Sweep(t) EXCEPT !.number = "bad"] : t \in MCTargets \cup Unreadable}
  \cup {[Sweep(Target("string", 0, Long)) EXCEPT !.buffer_vma = b, !.vma = v] :
          b \in {4, 8, 9, 10, 15}, v \in {0, 14}}

\* An array that ends in the middle of an instruction.
CutCalls == {Sweep(Cut)}
=============================================================================
