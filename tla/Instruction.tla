---------------------------- MODULE Instruction ----------------------------
(***************************************************************************)
(* Instructions and operands on their way between libopdis and Ruby        *)
(* (opdis/module/Model.c).  A C instruction is turned into an              *)
(* Opdis::Instruction by fill_ruby_insn and back by insn_to_c; the two     *)
(* directions do not mirror each other, and what is lost in between is     *)
(* kept here.  Names of flags stand for the bits they are printed for;     *)
(* ascii strings, bytes, prefixes and sizes, which are copied, are left    *)
(* out.                                                                    *)
(***************************************************************************)
EXTENDS Disassembly, Sequences, FiniteSets

CONSTANTS
  Levels,      \* decode levels: the bits of opdis_insn_decode_t
  Categories,  \* instruction categories
  FlagsOf,     \* FlagsOf[c]: the flags an instruction of category c can have
  RegFlags,
  OpFlags,
  Nil

Roles  == {"target", "dest", "src"}
Shifts == {"asl", "lsl", "lsr", "ror", "rrx"}
\* The flags libopdis takes for a branch, and those after which it does not go on.
BranchFlags == {"call", "callcc", "jmp", "jmpcc"}
StopFlags   == {"ret", "jmp"}

ASSUME InstructionAssumption ==
  /\ {"unknown", "cflow"} \subseteq Categories
  /\ FlagsOf \in [Categories -> SUBSET UNION {FlagsOf[c] : c \in Categories}]
  /\ BranchFlags \cup StopFlags \subseteq FlagsOf["cflow"]
  /\ "invalid" \notin Levels /\ Nil \notin Int

---------------------------------------------------------------------------
(* Registers and numbers *)

RegFromC(r) == [id |-> r.id, purpose |-> r.flags \cap RegFlags]
RegToC(r)   == [id |-> r.id, flags |-> r.purpose \cap RegFlags]

\* A 64-bit pattern as a signed number; NUM2ULL takes it back.
Signed(n)   == IF n < VmaSpan \div 2 THEN n ELSE n - VmaSpan
Unsigned(n) == n % VmaSpan

\* The bits of a C number taken for a VALUE: 0, 2 and 4 are false, true and nil, an
\* odd pattern is a Fixnum, any other the address of an object.
AsValue(n) ==
  IF n % 2 = 1 THEN [type |-> "fixnum", num |-> (Signed(n) - 1) \div 2]
  ELSE [type |-> IF n \in {0, 2, 4} THEN "special" ELSE "object", num |-> n]

\* fill_ruby_absaddr stores the C offset itself; absaddr_to_c applies NUM2OFFT.
AbsFromC(a) == [segment |-> RegFromC(a.segment), offset |-> AsValue(a.offset)]
AbsToC(a)   == [segment |-> RegToC(a.segment), offset |-> Unsigned(a.offset.num)]

OptFromC(r) == IF r = Nil THEN Nil ELSE RegFromC(r)
OptToC(r)   == IF r = Nil THEN Nil ELSE RegToC(r)

---------------------------------------------------------------------------
(* Operands *)

DispFromC(d) ==
  CASE d = Nil        -> Nil
    [] d # Nil /\ d.kind = "abs" -> [kind |-> "abs", abs |-> AbsFromC(d.abs)]
    [] d # Nil /\ d.kind = "s"   -> [kind |-> "num", num |-> Signed(d.num)]
    [] d # Nil /\ d.kind = "u"   -> [kind |-> "num", num |-> d.num]

\* Every number becomes an unsigned displacement.
DispToC(d) ==
  CASE d = Nil        -> Nil
    [] d # Nil /\ d.kind = "abs" -> [kind |-> "abs", abs |-> AbsToC(d.abs)]
    [] d # Nil /\ d.kind = "num" -> [kind |-> "u", num |-> Unsigned(d.num)]

\* The scale of an expression is not read from C.
ExprFromC(e) ==
  [base |-> OptFromC(e.base), index |-> OptFromC(e.index), scale |-> Nil,
   shift |-> e.shift, disp |-> DispFromC(e.disp)]
ExprToC(e) ==
  [base |-> OptToC(e.base), index |-> OptToC(e.index),
   scale |-> IF e.scale = Nil THEN 1 ELSE e.scale,
   shift |-> IF e.shift \in Shifts THEN e.shift ELSE "asl", disp |-> DispToC(e.disp)]

ImmFromC(n, flags) ==
  [vma |-> n.vma, signed |-> Signed(n.num), unsigned |-> n.num,
   value |-> IF "signed" \in flags THEN Signed(n.num) ELSE n.num]
\* Variant for the mutation run: the attribute that programs see first.
ImmToCValue(v) == [vma |-> 0, num |-> Unsigned(v.value)]
\* Only the unsigned attribute is read back.
ImmToC(v) == [vma |-> 0, num |-> Unsigned(v.unsigned)]

\* op_from_c and op_to_c; the class of the Ruby operand is the category.
OpFromC(o) ==
  [cat |-> o.cat, flags |-> o.flags \cap OpFlags,
   val |-> CASE o.cat = "register"  -> RegFromC(o.val)
             [] o.cat = "immediate" -> ImmFromC(o.val, o.flags)
             [] o.cat = "absolute"  -> AbsFromC(o.val)
             [] o.cat = "expr"      -> ExprFromC(o.val)
             [] o.cat = "unknown"   -> Nil]
OpToC(o) ==
  [cat |-> o.cat, flags |-> o.flags \cap OpFlags,
   val |-> CASE o.cat = "register"  -> RegToC(o.val)
             [] o.cat = "immediate" -> ImmToC(o.val)
             [] o.cat = "absolute"  -> AbsToC(o.val)
             [] o.cat = "expr"      -> ExprToC(o.val)
             [] o.cat = "unknown"   -> Nil]

\* The VALUEs that NUM2OFFT meets in an operand.
OffsetsIn(o) ==
  CASE o.cat = "absolute" -> {o.val.offset}
    [] o.cat = "expr" /\ o.val.disp # Nil /\ o.val.disp.kind = "abs" -> {o.val.disp.abs.offset}
    [] OTHER -> {}
Fine(o) == \A v \in OffsetsIn(o) : v.type = "fixnum"
Wild(o) == \E v \in OffsetsIn(o) : v.type = "object"

---------------------------------------------------------------------------
(* Instructions.  role[k] is the position of the operand that insn->target,*)
(* dest or src points to, 0 for NULL; idx[k] is the Ruby attribute.        *)

BlankC == [vma |-> 0, status |-> {}, category |-> "unknown", flags |-> {}, ops |-> <<>>,
           role |-> [k \in Roles |-> 0]]
\* cls_insn_init leaves the other attributes unset.
NewInsn == [vma |-> Nil, status |-> {}, category |-> Nil, flags |-> {}, ops |-> <<>>,
            idx |-> [k \in Roles |-> Nil]]

\* set_insn_status and insn_status_code: the value 0 has a name of its own.
StatusNames(s) == IF s = {} THEN {"invalid"} ELSE s \cap Levels
\* Variant for the mutation run: a name that is no level ends the loop.
StatusBitsStrict(names) == IF "invalid" \in names THEN {} ELSE names \cap Levels
StatusBits(names) == names \cap Levels

\* Variant for the mutation run: an index is one past the operand.
FillRubyShifted(c, r) ==
  [vma |-> Signed(c.vma), status |-> r.status \cup StatusNames(c.status),
   category |-> c.category, flags |-> c.flags,
   ops |-> [i \in DOMAIN c.ops |-> OpFromC(c.ops[i])],
   idx |-> [k \in Roles |-> IF c.role[k] # 0 THEN c.role[k] + 1 ELSE r.idx[k]]]

\* fill_ruby_insn: the address is taken for an off_t; names are appended to the status the object has, the operands
\* are replaced, and an index is only set, never cleared.
FillRuby(c, r) ==
  [vma |-> Signed(c.vma), status |-> r.status \cup StatusNames(c.status),
   category |-> c.category, flags |-> c.flags,
   ops |-> [i \in DOMAIN c.ops |-> OpFromC(c.ops[i])],
   idx |-> [k \in Roles |-> IF c.role[k] # 0 THEN c.role[k] ELSE r.idx[k]]]

InsnFromC(c) == FillRuby(c, NewInsn)

\* insn_to_c over a C instruction without operands.  Each operand asks for all three
\* indices with NUM2INT.
\* Variant for the mutation run: one index is enough.
IndicesSetOne(r) == \E k \in Roles : r.idx[k] # Nil
IndicesSet(r) == \A k \in Roles : r.idx[k] # Nil
Convertible(r) == \A i \in DOMAIN r.ops : Fine(r.ops[i]) /\ IndicesSet(r)
\* An address that is no object's is dereferenced before anything raises.
Crashes(r) ==
  \E i \in DOMAIN r.ops : Wild(r.ops[i]) /\ \A j \in 1 .. i - 1 : Fine(r.ops[j]) /\ IndicesSet(r)

\* Variant for the mutation run: a branch of the switch is missing.
FlagsToCShort(r) == (r.flags \cap FlagsOf[r.category]) \ {"callcc"}
\* insn_set_flags keeps the flags of the instruction's category.
FlagsToC(r) == r.flags \cap FlagsOf[r.category]

InsnToC(r, c) ==
  [vma |-> Unsigned(r.vma), status |-> StatusBits(r.status), category |-> r.category,
   flags |-> FlagsToC(r), ops |-> [i \in DOMAIN r.ops |-> OpToC(r.ops[i])],
   role |-> [k \in Roles |-> IF r.idx[k] \in DOMAIN r.ops THEN r.idx[k] ELSE c.role[k]]]

\* branch? and fallthrough?
Branch(r)      == r.category = "cflow" /\ r.flags \cap BranchFlags # {}
Fallthrough(r) == ~(r.category = "cflow" /\ r.flags \cap StopFlags # {})
=============================================================================
