------------------------------ MODULE Decoding ------------------------------
(***************************************************************************)
(* The decoder callback of a disassembly (local_decoder, opdis/module/     *)
(* Opdis.c) and the built-in decoder classes (opdis/module/Callbacks.c).   *)
(* libopdis hands over a blank C instruction; a Ruby object is made of it  *)
(* and given to the program's decode method, which may call built-in       *)
(* decoders, through super or on another decoder object, and edit the      *)
(* object; what it leaves goes back to libopdis.  Each built-in call       *)
(* converts the object to C and back.                                      *)
(***************************************************************************)
EXTENDS Instruction

CONSTANTS
  Addresses,  \* addresses of the instructions of the target
  Decodings,  \* what libopdis' decoders find: levels, category, flags, ops, role
  Edits,      \* category and flags the program may give an instruction
  MaxCalls,   \* bound: decoder callbacks
  MaxFills    \* bound: successful built-in calls in one callback

\* The operands libopdis makes.  Its registers and displacements turn into Ruby objects,
\* which Nil is not.
IsReg(r) == r = [id |-> r.id, flags |-> r.flags] /\ r.flags \subseteq RegFlags
IsAbs(a) == a = [segment |-> a.segment, offset |-> a.offset] /\ IsReg(a.segment)
            /\ a.offset \in Vmas
IsDisp(d) ==
  \/ d.kind \in {"s", "u"} /\ d.num \in Vmas
  \/ d.kind = "abs" /\ IsAbs(d.abs)
IsOperand(o) ==
  /\ o.flags \subseteq OpFlags
  /\ \/ o.cat = "register" /\ IsReg(o.val)
     \/ o.cat = "immediate" /\ o.val.num \in Vmas
     \/ o.cat = "absolute" /\ IsAbs(o.val)
     \/ /\ o.cat = "expr" /\ o.val.shift \in Shifts
        /\ \A r \in {o.val.base, o.val.index} : r = Nil \/ (IsReg(r) /\ RegFromC(r) # Nil)
        /\ \A d \in {o.val.disp} : d = Nil \/ (IsDisp(d) /\ DispFromC(d) # Nil)
     \/ o.cat = "unknown" /\ o.val = Nil

ASSUME DecodingAssumption ==
  /\ Addresses \subseteq Vmas /\ MaxCalls \in Nat /\ MaxFills \in Nat
  /\ \A d \in Decodings :
       /\ "basic" \in d.levels /\ d.levels \subseteq Levels
       /\ d.category \in Categories /\ d.flags \subseteq FlagsOf[d.category]
       /\ d.ops \in Seq({d.ops[i] : i \in DOMAIN d.ops})
       /\ \A i \in DOMAIN d.ops : IsOperand(d.ops[i])
       /\ \A k \in Roles : d.role[k] \in 0 .. Len(d.ops)
  /\ \A e \in Edits : e.category \in Categories

VARIABLES
  pc,      \* "decode" while the program's method runs; then how the callback ended
  vma,     \* address of the instruction
  insn,    \* the Ruby object
  out,     \* libopdis' instruction
  last,    \* history: what the last successful built-in call found
  levels,  \* history: the levels built-in calls reported in this callback
  fills,   \* history: successful built-in calls in this callback
  edited,  \* history: what the program changed in this callback
  calls

history == <<last, levels, fills, edited>>
vars == <<pc, vma, insn, out, history, calls>>

\* local_decoder results in 0, and libopdis refuses the instruction, when the method
\* returns nil or false; it results in 1 for anything else.
Answers  == {"returned", "refused"}
Answered == pc \in Answers

\* Before the first callback: as after one that decoded nothing.
Init ==
  /\ pc = "returned" /\ vma \in Addresses /\ insn = InsnFromC(BlankC) /\ out = BlankC
  /\ calls = 0
  /\ last = Nil /\ levels = {} /\ fills = 0 /\ edited = {}

\* libopdis calls the decoder with an instruction it has just allocated.
Decode(v) ==
  /\ Answered \/ pc = "raised"
  /\ calls < MaxCalls /\ calls' = calls + 1
  /\ pc' = "decode" /\ vma' = v
  /\ out' = BlankC /\ insn' = InsnFromC(BlankC)
  /\ last' = Nil /\ levels' = {} /\ fills' = 0 /\ edited' = {}

---------------------------------------------------------------------------
(* Built-in decoders *)

\* Variant for the mutation run: the address is taken from the hash as it is.
HashVmaSigned(v) == ToInt(v) % VmaSpan
\* The address goes through the hash: INT2NUM, then NUM2UINT.
HashVma(v) == ToUInt(ToInt(v))

\* libopdis' generic decoder fills address and string; the x86 decoders also
\* mnemonic, flags and the operands, the next free ones.
Decoded(c, d) ==
  IF d.levels = {"basic"} THEN [c EXCEPT !.vma = HashVma(vma), !.status = @ \cup d.levels]
  ELSE [vma |-> HashVma(vma), status |-> c.status \cup d.levels,
        category |-> d.category, flags |-> d.flags, ops |-> c.ops \o d.ops,
        role |-> [k \in Roles |-> IF d.role[k] = 0 THEN c.role[k] ELSE Len(c.ops) + d.role[k]]]

Builtin(d) ==
  /\ pc = "decode" /\ fills < MaxFills /\ Convertible(insn)
  /\ insn' = FillRuby(Decoded(InsnToC(insn, BlankC), d), insn)
  /\ last' = d /\ levels' = levels \cup d.levels /\ fills' = fills + 1
  /\ UNCHANGED <<pc, vma, out, edited, calls>>

\* The decoder of libopdis fails: the object is left as it is, and decode returns
\* it all the same.
BuiltinFails ==
  /\ pc = "decode" /\ Convertible(insn)
  /\ edited' = edited \cup {"failure"}
  /\ UNCHANGED <<pc, vma, insn, out, last, levels, fills, calls>>

\* insn_to_c raises TypeError in a built-in decoder and the program does not rescue
\* it.  When it does, nothing has changed but the C copy, which is lost.
BuiltinRaises ==
  /\ pc = "decode" /\ ~Convertible(insn) /\ ~Crashes(insn)
  /\ pc' = "raised"
  /\ UNCHANGED <<vma, insn, out, history, calls>>

---------------------------------------------------------------------------
(* What decode methods of programs do with the object *)

Edit(what) == pc = "decode" /\ what \notin edited /\ edited' = edited \cup {what}
Rest == UNCHANGED <<pc, vma, out, last, levels, fills, calls>>

\* The indices are public attributes; a program may set those that are unset.
SetIndices(i) ==
  /\ Edit("indices") /\ i \in DOMAIN insn.ops
  /\ insn' = [insn EXCEPT !.idx = [k \in Roles |-> IF @[k] = Nil THEN i ELSE @[k]]]
  /\ Rest

SetValue(i) ==
  /\ Edit("value") /\ i \in DOMAIN insn.ops /\ insn.ops[i].cat = "immediate"
  /\ insn' = [insn EXCEPT !.ops[i].val.value = 1] /\ Rest

SetFlags(e) ==
  /\ Edit("flags") /\ insn' = [insn EXCEPT !.category = e.category, !.flags = e.flags] /\ Rest

ClearOperands ==
  /\ Edit("operands") /\ insn.ops # <<>> /\ insn' = [insn EXCEPT !.ops = <<>>] /\ Rest

---------------------------------------------------------------------------
(* The way back *)

\* What libopdis' control flow makes of its instruction.
Follows(c) == c.category = "cflow" /\ c.flags \cap BranchFlags # {}
GoesOn(c)  == ~(c.category = "cflow" /\ c.flags \cap StopFlags # {})

\* The object goes back to libopdis whatever the method returns.
Return ==
  /\ pc = "decode" /\ Convertible(insn)
  /\ out' = InsnToC(insn, out) /\ pc' \in Answers
  /\ UNCHANGED <<vma, insn, history, calls>>

\* The exception unwinds libopdis: its instruction is gone.
ReturnRaises ==
  /\ pc = "decode" /\ ~Convertible(insn) /\ ~Crashes(insn)
  /\ out' = BlankC /\ pc' = "raised"
  /\ UNCHANGED <<vma, insn, history, calls>>

\* A number is taken for the address of an object.
Crash ==
  /\ pc = "decode" /\ Crashes(insn) /\ pc' = "crashed"
  /\ UNCHANGED <<vma, insn, out, history, calls>>

Next ==
  \/ \E v \in Addresses : Decode(v)
  \/ \E d \in Decodings : Builtin(d)
  \/ BuiltinFails
  \/ BuiltinRaises
  \/ \E i \in DOMAIN insn.ops : SetIndices(i) \/ SetValue(i)
  \/ \E e \in Edits : SetFlags(e)
  \/ ClearOperands
  \/ Return
  \/ ReturnRaises
  \/ Crash

Spec == Init /\ [][Next]_vars

---------------------------------------------------------------------------
(* Properties *)

\* The instruction of libopdis stays within its types, a Ruby object has been filled
\* at least once, and no call leaves its instruction half written.
TypeOK ==
  /\ pc \in {"decode", "raised", "crashed"} \cup Answers /\ vma \in Addresses
  /\ out.vma \in Vmas /\ out.status \subseteq Levels
  /\ out.flags \subseteq FlagsOf[out.category]
  /\ \A k \in Roles : out.role[k] \in 0 .. Len(out.ops)
  /\ insn.vma \in 0 .. UIntSpan - 1 /\ insn.status # {} /\ insn.category \in Categories
  /\ calls \in 0 .. MaxCalls /\ fills \in 0 .. MaxFills
  /\ ~Answered => out.ops = <<>>

\* What survives of an operand: the numbers of an expression lose their sign and
\* the scale is 1; an absolute offset n comes back as (n-1)/2; an immediate loses its
\* address.
SameDisp(d, e) ==
  CASE d = Nil -> e = Nil
    [] d # Nil /\ d.kind = "abs" ->
         e.kind = "abs" /\ e.abs.segment = d.abs.segment
         /\ (2 * e.abs.offset + 1) % VmaSpan = d.abs.offset
    [] d # Nil /\ d.kind \in {"s", "u"} -> e = [kind |-> "u", num |-> d.num]
SameOperand(o, p) ==
  /\ p.cat = o.cat /\ p.flags = o.flags
  /\ CASE o.cat \in {"register", "unknown"} -> p.val = o.val
       [] o.cat = "immediate" -> p.val = [vma |-> 0, num |-> o.val.num]
       [] o.cat = "absolute"  ->
            p.val.segment = o.val.segment /\ (2 * p.val.offset + 1) % VmaSpan = o.val.offset
       [] o.cat = "expr" ->
            /\ p.val.base = o.val.base /\ p.val.index = o.val.index
            /\ p.val.shift = o.val.shift /\ p.val.scale = 1
            /\ SameDisp(o.val.disp, p.val.disp)

\* What one built-in call found reaches libopdis whatever the program did to the
\* indices and to the value of an immediate: the lower 32 bits of the address, the
\* category, the flags, the operands in their order, and those that have a role.
\* About local_decoder (Opdis.c) over fill_ruby_insn and insn_to_c (Model.c).
ArrivesAsDecoded ==
  Answered /\ fills = 1 /\ edited \subseteq {"indices", "value", "failure"} =>
    /\ out.vma = vma % UIntSpan
    /\ last.levels # {"basic"} =>
         /\ out.category = last.category /\ out.flags = last.flags
         /\ Len(out.ops) = Len(last.ops)
         /\ \A i \in DOMAIN last.ops : SameOperand(last.ops[i], out.ops[i])
         /\ \A k \in Roles : last.role[k] # 0 => out.role[k] = last.role[k]

\* libopdis learns exactly the levels that the built-in calls of the callback
\* reported, although the object's list still says "invalid" and holds names twice.
\* About set_insn_status and insn_status_code (Model.c).
LevelsKept == Answered => out.status = levels

\* Unless a program empties the operands or sets an index, target, dest and src name
\* operands of the object, over any number of fills; after one fill, those that
\* the decoder meant.  About set_attr_if_alias and get_aliased_operand (Model.c).
AliasesSound ==
  edited \cap {"indices", "operands"} = {} =>
    \A k \in Roles : insn.idx[k] # Nil =>
      insn.idx[k] \in DOMAIN insn.ops /\ (fills = 1 => insn.idx[k] = last.role[k])

\* A decode method that leaves the indices alone gets an instruction with operands
\* back to libopdis only if the decoder gave it a target, a dest and a src; for any
\* other it raises.  About insn_to_c (Model.c) and the decoder of
\* opdis/examples/x86_decoder.rb.
UnaidedNeedsRoles ==
  Answered /\ fills = 1 /\ edited \cap {"indices", "operands"} = {} /\ out.ops # <<>> =>
    \A k \in Roles : last.role[k] # 0

\* branch? and fallthrough? of the object tell what libopdis will do with the
\* instruction it gets back, also when the program gave it flags of other
\* categories.  About cls_insn_branch, cls_insn_fallthrough and insn_set_flags.
FlowAgrees ==
  Answered => Branch(insn) = Follows(out) /\ Fallthrough(insn) = GoesOn(out)
=============================================================================
