----------------------------- MODULE MCDecoding -----------------------------
(* A small instance of Decoding: three kinds of instructions, and operands of *)
(* every class with the offsets and displacements that are converted oddly.   *)
EXTENDS Decoding

MCFlagsOf == [cflow   |-> {"call", "callcc", "jmp", "jmpcc", "ret"},
              stack   |-> {"push", "pop"}, unknown |-> {}]

Reg(n) == [id |-> n, flags |-> {"general"}]
Seg    == [id |-> 9, flags |-> {"segment"}]

Register(n)  == [cat |-> "register", flags |-> {"r", "w"}, val |-> Reg(n)]
Immediate(n) == [cat |-> "immediate", flags |-> {"r", "signed"}, val |-> [vma |-> 5, num |-> n]]
Absolute(n)  == [cat |-> "absolute", flags |-> {"x"}, val |-> [segment |-> Seg, offset |-> n]]
Expr(d)      == [cat |-> "expr", flags |-> {"r"},
                 val |-> [base |-> Reg(1), index |-> Nil, scale |-> 4, shift |-> "lsl", disp |-> d]]
Other        == [cat |-> "unknown", flags |-> {}, val |-> Nil]

AbsDisp(n) == [kind |-> "abs", abs |-> [segment |-> Seg, offset |-> n]]

Role(t, d, s) == [k \in Roles |-> IF k = "target" THEN t ELSE IF k = "dest" THEN d ELSE s]
All  == {"basic", "mnemonic", "operands"}
D(l, c, f, ops, role) == [levels |-> l, category |-> c, flags |-> f, ops |-> ops, role |-> role]

MCDecodings ==
  {D({"basic"}, "unknown", {}, <<>>, Role(0, 0, 0)),
   D({"basic", "mnemonic"}, "cflow", {"ret"}, <<>>, Role(0, 0, 0)),
   D(All, "cflow", {"jmpcc"}, <<Immediate(30)>>, Role(1, 0, 0)),
   D(All, "cflow", {"callcc"}, <<Absolute(9)>>, Role(1, 1, 1)),
   D(All, "stack", {"push"}, <<Other, Register(2)>>, Role(0, 0, 2)),
   D(All, "unknown", {}, <<Register(1), Immediate(30)>>, Role(1, 1, 2))}
  \cup {D(All, "cflow", {"jmp"}, <<Absolute(n)>>, Role(1, 0, 0)) : n \in {2, 8, 27}}
  \cup {D(All, "unknown", {}, <<Register(1), Expr(d)>>, Role(0, 1, 2)) :
          d \in {Nil, [kind |-> "s", num |-> 30], [kind |-> "u", num |-> 3], AbsDisp(7), AbsDisp(8)}}

MCEdits == [category: {"cflow", "stack"}, flags: {{"jmp"}, {"callcc", "push"}, {}}]
=============================================================================
