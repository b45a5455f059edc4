--------------------------- MODULE DecodingProofs ---------------------------
(***************************************************************************)
(* Theorems about Decoding, for every width, every set of addresses,       *)
(* decodings and edits, and any number of built-in calls.                  *)
(***************************************************************************)
EXTENDS Decoding, SequenceTheorems, TLAPS

USE DEF Answered, Answers

IsSeq(s) == s \in Seq({s[i] : i \in DOMAIN s})

\* The Ruby object is an instruction, filled at least once.
Shape ==
  /\ insn = [vma |-> insn.vma, status |-> insn.status, category |-> insn.category,
             flags |-> insn.flags, ops |-> insn.ops, idx |-> insn.idx]
  /\ IsSeq(insn.ops) /\ insn.idx \in [Roles -> Nat \cup {Nil}]
  /\ insn.vma \in 0 .. UIntSpan - 1 /\ insn.category \in Categories

\* The names in its status are those of the levels, beside "invalid".
Named == pc = "decode" => insn.status \cap Levels = levels /\ insn.status # {}

\* Before the first fill there is nothing to refer to.
Untouched == fills = 0 => insn.ops = <<>> /\ \A k \in Roles : insn.idx[k] = Nil

\* What is returned with operands had all its indices.
Sent == Answered /\ out.ops # <<>> => IndicesSet(insn)

IInv == TypeOK /\ Shape /\ Named /\ Untouched /\ AliasesSound /\ Sent /\ LevelsKept /\ FlowAgrees

---------------------------------------------------------------------------
LEMMA Widths ==
  /\ UIntSpan \in Nat \ {0} /\ VmaSpan \in Nat \ {0} /\ UIntSpan < VmaSpan
  /\ UIntSpan \div 2 \in Nat /\ UIntSpan \div 2 < UIntSpan
BY WidthAssumption

LEMMA Wrapped ==
  ASSUME NEW x \in Int, NEW n \in Nat \ {0}
  PROVE  x % n \in 0 .. n - 1 /\ (x \in 0 .. n - 1 => x % n = x)
OBVIOUS

LEMMA Up == ASSUME NEW n \in Nat \ {0}, NEW x \in 0 .. n - 1 PROVE (x + n) % n = x
OBVIOUS

\* Half of the addresses are more than an unsigned int has values.
LEMMA Positive ==
  ASSUME NEW n \in 0 .. UIntSpan - 1 PROVE Signed(n) = n
<1>1. VmaSpan >= 2 * UIntSpan
  <2> SUFFICES ASSUME VmaSpan - UIntSpan \in 0 .. UIntSpan - 1 PROVE FALSE BY Widths
  <2>1. ((VmaSpan - UIntSpan) + UIntSpan) % UIntSpan = VmaSpan - UIntSpan BY Widths, Up
  <2>2. VmaSpan % UIntSpan = VmaSpan - UIntSpan BY <2>1, Widths
  <2> QED BY <2>2, WidthAssumption
<1>2. n < VmaSpan \div 2 BY <1>1, Widths
<1> QED BY <1>2 DEF Signed

LEMMA HashFacts ==
  ASSUME NEW v \in Vmas PROVE HashVma(v) \in 0 .. UIntSpan - 1
<1>1. v \in Int /\ v % UIntSpan \in 0 .. UIntSpan - 1 BY Widths, Wrapped DEF Vmas
<1>2. ToInt(v) \in Int BY <1>1, Widths DEF ToInt
<1> QED BY <1>2, Widths, Wrapped DEF HashVma, ToUInt

LEMMA SeqFacts ==
  ASSUME NEW s, IsSeq(s)
  PROVE  Len(s) \in Nat /\ DOMAIN s = 1 .. Len(s)
BY DEF IsSeq

\* A sequence made from another one, operand by operand.
LEMMA MappedSeq ==
  ASSUME NEW n \in Nat, NEW s, DOMAIN s = 1 .. n, s = [i \in 1 .. n |-> s[i]]
  PROVE  IsSeq(s) /\ Len(s) = n
BY DEF IsSeq

LEMMA BlankFacts ==
  /\ BlankC.vma = 0 /\ BlankC.status = {} /\ BlankC.category = "unknown" /\ BlankC.flags = {}
  /\ BlankC.ops = <<>> /\ \A k \in Roles : BlankC.role[k] = 0
BY DEF BlankC

\* What an object made of a blank instruction is.
LEMMA NewFacts ==
  ASSUME NEW r, r = InsnFromC(BlankC)
  PROVE  /\ r = [vma |-> 0, status |-> {"invalid"}, category |-> "unknown", flags |-> {},
                 ops |-> <<>>, idx |-> [k \in Roles |-> Nil]]
         /\ r.vma = 0 /\ r.status = {"invalid"} /\ r.category = "unknown" /\ r.flags = {}
         /\ r.ops = <<>> /\ \A k \in Roles : r.idx[k] = Nil
<1>1. StatusNames({}) = {"invalid"} BY DEF StatusNames
<1>2. DOMAIN BlankC.ops = {} BY DEF BlankC
<1>3. [i \in DOMAIN BlankC.ops |-> OpFromC(BlankC.ops[i])] = <<>> BY <1>2
<1>4. [k \in Roles |-> IF BlankC.role[k] # 0 THEN BlankC.role[k] ELSE NewInsn.idx[k]]
        = [k \in Roles |-> Nil]
  BY DEF BlankC, NewInsn
<1>5. NewInsn.status = {} BY DEF NewInsn
<1>6. r = [vma |-> 0, status |-> {} \cup {"invalid"}, category |-> "unknown", flags |-> {},
           ops |-> <<>>, idx |-> [k \in Roles |-> Nil]]
  <2>1. Signed(0) = 0 BY Positive, Widths
  <2> QED BY <1>1, <1>3, <1>4, <1>5, <2>1, BlankFacts DEF InsnFromC, FillRuby
<1> QED BY <1>6

\* What is given back to libopdis.
LEMMA ToCFacts ==
  ASSUME Shape, NEW c, NEW r, r = InsnToC(insn, c)
  PROVE  /\ r.vma \in Vmas /\ r.status = insn.status \cap Levels
         /\ r.category = insn.category /\ r.flags = insn.flags \cap FlagsOf[insn.category]
         /\ IsSeq(r.ops) /\ Len(r.ops) = Len(insn.ops) /\ DOMAIN r.ops = 1 .. Len(insn.ops)
         /\ Len(insn.ops) \in Nat
         /\ \A k \in Roles :
              r.role[k] = IF insn.idx[k] \in 1 .. Len(insn.ops) THEN insn.idx[k] ELSE c.role[k]
<1>1. PICK n : n = Len(insn.ops) OBVIOUS
<1>2. n \in Nat /\ DOMAIN insn.ops = 1 .. n BY <1>1, SeqFacts DEF Shape
<1>3. PICK ops : ops = [i \in 1 .. n |-> OpToC(insn.ops[i])] OBVIOUS
<1>4. DOMAIN ops = 1 .. n /\ ops = [i \in 1 .. n |-> ops[i]] BY <1>3
<1>5. IsSeq(ops) /\ Len(ops) = n BY <1>2, <1>4, MappedSeq
<1>6. PICK role : role = [k \in Roles |-> IF insn.idx[k] \in 1 .. n THEN insn.idx[k] ELSE c.role[k]]
  OBVIOUS
<1>7. r = [vma |-> Unsigned(insn.vma), status |-> StatusBits(insn.status),
           category |-> insn.category, flags |-> FlagsToC(insn), ops |-> ops, role |-> role]
  BY <1>2, <1>3, <1>6 DEF InsnToC
<1>8. Unsigned(insn.vma) \in Vmas
  <2>1. insn.vma \in Int BY Widths DEF Shape
  <2> QED BY <2>1, Widths, Wrapped DEF Unsigned, Vmas
<1>9. \A k \in Roles :
        r.role[k] = IF insn.idx[k] \in 1 .. n THEN insn.idx[k] ELSE c.role[k]
  BY <1>6, <1>7
<1> QED BY <1>1, <1>2, <1>4, <1>5, <1>7, <1>8, <1>9 DEF StatusBits, FlagsToC

\* What a successful built-in call leaves in the C copy.
LEMMA DecodedFacts ==
  ASSUME IInv, NEW d \in Decodings, NEW b, b = InsnToC(insn, BlankC), NEW c, c = Decoded(b, d)
  PROVE  /\ c.vma \in 0 .. UIntSpan - 1 /\ c.category \in Categories
         /\ c.status = (insn.status \cap Levels) \cup d.levels
         /\ IsSeq(c.ops) /\ Len(c.ops) \in Nat /\ DOMAIN c.ops = 1 .. Len(c.ops)
         /\ Len(insn.ops) \in Nat /\ Len(c.ops) >= Len(insn.ops)
         /\ \A k \in Roles :
              /\ c.role[k] \in 0 .. Len(c.ops)
              /\ insn.idx[k] \in 1 .. Len(insn.ops) => c.role[k] # 0
              /\ insn.ops = <<>> => c.role[k] \in {0, d.role[k]}
<1>1. /\ b.vma \in Vmas /\ b.status = insn.status \cap Levels
      /\ b.category = insn.category /\ IsSeq(b.ops) /\ Len(b.ops) = Len(insn.ops)
      /\ DOMAIN b.ops = 1 .. Len(insn.ops) /\ Len(insn.ops) \in Nat
      /\ \A k \in Roles :
           b.role[k] = IF insn.idx[k] \in 1 .. Len(insn.ops) THEN insn.idx[k] ELSE 0
  BY ToCFacts, BlankFacts DEF IInv
<1>2. /\ d.levels \subseteq Levels /\ d.category \in Categories /\ IsSeq(d.ops)
      /\ \A k \in Roles : d.role[k] \in 0 .. Len(d.ops)
  BY DecodingAssumption DEF IsSeq
<1>3. HashVma(vma) \in 0 .. UIntSpan - 1
  <2>1. vma \in Vmas BY DecodingAssumption DEF IInv, TypeOK
  <2> QED BY <2>1, HashFacts
<1>4. insn.category \in Categories BY DEF IInv, Shape
<1>5. insn.ops = <<>> => Len(insn.ops) = 0 OBVIOUS
<1>6. CASE d.levels = {"basic"}
  <2>1. b = [vma |-> b.vma, status |-> b.status, category |-> b.category,
             flags |-> b.flags, ops |-> b.ops, role |-> b.role]
    BY DEF InsnToC
  <2>2. c = [b EXCEPT !.vma = HashVma(vma), !.status = @ \cup d.levels] BY <1>6 DEF Decoded
  <2>3. /\ c.vma = HashVma(vma) /\ c.status = b.status \cup d.levels
        /\ c.category = b.category /\ c.ops = b.ops /\ c.role = b.role
    BY <2>1, <2>2
  <2> QED BY <1>1, <1>3, <1>4, <1>5, <2>3
<1>7. CASE d.levels # {"basic"}
  <2>1. PICK ops : ops = b.ops \o d.ops OBVIOUS
  <2>r. PICK role : role = [k \in Roles |->
                             IF d.role[k] = 0 THEN b.role[k] ELSE Len(b.ops) + d.role[k]]
    OBVIOUS
  <2>2. c = [vma |-> HashVma(vma), status |-> b.status \cup d.levels,
             category |-> d.category, flags |-> d.flags, ops |-> ops, role |-> role]
    BY <1>7, <2>1, <2>r DEF Decoded
  <2>3. IsSeq(ops) /\ Len(ops) = Len(b.ops) + Len(d.ops) /\ Len(d.ops) \in Nat
    <3>1. PICK S : S = {b.ops[i] : i \in DOMAIN b.ops} \cup {d.ops[i] : i \in DOMAIN d.ops} OBVIOUS
    <3>2. b.ops \in Seq(S) /\ d.ops \in Seq(S) BY <1>1, <1>2, <3>1 DEF IsSeq
    <3>3. ops \in Seq(S) /\ Len(ops) = Len(b.ops) + Len(d.ops) /\ Len(d.ops) \in Nat
      BY <2>1, <3>2
    <3>4. ops \in [1 .. Len(ops) -> S] /\ Len(ops) \in Nat BY <3>3, LenProperties
    <3>5. DOMAIN ops = 1 .. Len(ops) /\ ops = [i \in 1 .. Len(ops) |-> ops[i]] BY <3>4
    <3> QED BY <3>3, <3>4, <3>5, MappedSeq
  <2>n. PICK n, m :
          n \in Nat /\ m \in Nat /\ n = Len(insn.ops) /\ n = Len(b.ops) /\ m = Len(d.ops) /\ Len(ops) = n + m
    BY <1>1, <2>3
  <2>t. n \in Nat /\ m \in Nat BY <2>n
  <2>4. Len(ops) \in Nat /\ DOMAIN ops = 1 .. Len(ops) BY <2>3, SeqFacts
  <2>5. /\ c.vma = HashVma(vma) /\ c.status = b.status \cup d.levels
        /\ c.category = d.category /\ c.ops = ops
    BY <2>2
  <2>6. ASSUME NEW k \in Roles
        PROVE  /\ c.role[k] \in 0 .. n + m
               /\ insn.idx[k] \in 1 .. n => c.role[k] # 0
               /\ n = 0 => c.role[k] \in {0, d.role[k]}
    <3>1. c.role = role BY <2>2
    <3>2. c.role[k] = IF d.role[k] = 0 THEN b.role[k] ELSE Len(b.ops) + d.role[k]
      BY <2>r, <3>1
    <3>3. b.role[k] = IF insn.idx[k] \in 1 .. n THEN insn.idx[k] ELSE 0 BY <1>1, <2>n
    <3>4. d.role[k] \in 0 .. m BY <1>2, <2>n
    <3>5. c.role[k] = IF d.role[k] = 0 THEN b.role[k] ELSE n + d.role[k] BY <2>n, <3>2
    <3>6. CASE d.role[k] = 0
      <4>1. c.role[k] = b.role[k] BY <3>5, <3>6
      <4>2. b.role[k] \in 0 .. n /\ (insn.idx[k] \in 1 .. n => b.role[k] # 0) BY <2>t, <3>3
      <4>3. n = 0 => b.role[k] = 0 BY <4>2
      <4> QED BY <2>t, <4>1, <4>2, <4>3
    <3>7. CASE d.role[k] # 0
      <4>1. c.role[k] = n + d.role[k] BY <3>5, <3>7
      <4>2. c.role[k] \in 1 .. n + m BY <2>t, <3>4, <3>7, <4>1
      <4> QED BY <2>t, <3>4, <4>1, <4>2
    <3> QED BY <3>6, <3>7
  <2>7. IsSeq(c.ops) /\ Len(c.ops) \in Nat /\ DOMAIN c.ops = 1 .. Len(c.ops)
    BY <2>3, <2>4, <2>5
  <2>8. Len(c.ops) = n + m /\ Len(insn.ops) = n BY <2>n, <2>5
  <2>9. /\ c.vma \in 0 .. UIntSpan - 1 /\ c.category \in Categories
        /\ c.status = (insn.status \cap Levels) \cup d.levels
    BY <1>1, <1>2, <1>3, <2>5
  <2>10. /\ Len(c.ops) \in Nat /\ Len(insn.ops) \in Nat /\ Len(c.ops) >= Len(insn.ops)
    BY <2>t, <2>8
  <2>11. ASSUME NEW k \in Roles
         PROVE  /\ c.role[k] \in 0 .. Len(c.ops)
                /\ insn.idx[k] \in 1 .. Len(insn.ops) => c.role[k] # 0
                /\ insn.ops = <<>> => c.role[k] \in {0, d.role[k]}
    BY <1>5, <2>6, <2>8
  <2> QED BY <2>7, <2>9, <2>10, <2>11
<1> QED BY <1>6, <1>7

LEMMA BuiltinStep ==
  ASSUME IInv, NEW d \in Decodings, Builtin(d) PROVE IInv'
<1>1. PICK b : b = InsnToC(insn, BlankC) OBVIOUS
<1>2. PICK c : c = Decoded(b, d) OBVIOUS
<1>3. /\ pc = "decode" /\ fills < MaxFills /\ insn' = FillRuby(c, insn)
      /\ last' = d /\ levels' = levels \cup d.levels /\ fills' = fills + 1
      /\ pc' = pc /\ vma' = vma /\ out' = out /\ edited' = edited /\ calls' = calls
  BY <1>1, <1>2 DEF Builtin
<1>4. /\ c.vma \in 0 .. UIntSpan - 1 /\ c.category \in Categories
      /\ c.status = (insn.status \cap Levels) \cup d.levels
      /\ IsSeq(c.ops) /\ Len(c.ops) \in Nat /\ DOMAIN c.ops = 1 .. Len(c.ops)
      /\ Len(insn.ops) \in Nat /\ Len(c.ops) >= Len(insn.ops)
      /\ \A k \in Roles :
           /\ c.role[k] \in 0 .. Len(c.ops)
           /\ insn.idx[k] \in 1 .. Len(insn.ops) => c.role[k] # 0
           /\ insn.ops = <<>> => c.role[k] \in {0, d.role[k]}
  BY <1>1, <1>2, DecodedFacts
<1>5. TypeOK /\ Shape /\ Named /\ Untouched /\ AliasesSound BY DEF IInv
<1>6. d.levels \subseteq Levels /\ "basic" \in d.levels BY DecodingAssumption
<1>7. PICK m : m = Len(c.ops) OBVIOUS
<1>8. PICK ops : ops = [i \in 1 .. m |-> OpFromC(c.ops[i])] OBVIOUS
<1>9. DOMAIN ops = 1 .. m /\ IsSeq(ops) /\ Len(ops) = m
  <2>1. DOMAIN ops = 1 .. m /\ ops = [i \in 1 .. m |-> ops[i]] BY <1>8
  <2> QED BY <1>4, <1>7, <2>1, MappedSeq
<1>10. PICK idx : idx = [k \in Roles |-> IF c.role[k] # 0 THEN c.role[k] ELSE insn.idx[k]]
  OBVIOUS
<1>11. PICK st : st = insn.status \cup StatusNames(c.status) OBVIOUS
<1>a. Signed(c.vma) = c.vma BY <1>4, Positive
<1>12. insn' = [vma |-> c.vma, status |-> st, category |-> c.category, flags |-> c.flags,
                ops |-> ops, idx |-> idx]
  BY <1>3, <1>4, <1>7, <1>8, <1>10, <1>11, <1>a DEF FillRuby
<1>13. /\ insn'.vma = c.vma /\ insn'.status = st /\ insn'.category = c.category
       /\ insn'.flags = c.flags /\ insn'.ops = ops /\ insn'.idx = idx
  BY <1>12
<1>14. st \cap Levels = levels' /\ st # {}
  <2>1. StatusNames(c.status) = c.status \cap Levels BY <1>4, <1>6 DEF StatusNames
  <2> QED BY <1>3, <1>4, <1>5, <1>6, <1>11, <2>1 DEF Named
<1>15. \A k \in Roles : idx[k] = IF c.role[k] # 0 THEN c.role[k] ELSE insn.idx[k] BY <1>10
<1>16. Shape'
  <2>1. idx \in [Roles -> Nat \cup {Nil}] BY <1>4, <1>5, <1>10 DEF Shape
  <2> QED BY <1>4, <1>9, <1>12, <1>13, <2>1 DEF Shape
<1>17. TypeOK'
  <2>1. fills' \in 0 .. MaxFills BY <1>3, <1>5, DecodingAssumption DEF TypeOK
  <2>2. insn'.vma \in 0 .. UIntSpan - 1 /\ insn'.status # {} /\ insn'.category \in Categories
    BY <1>4, <1>13, <1>14
  <2> QED BY <1>3, <1>5, <2>1, <2>2 DEF TypeOK
<1>18. AliasesSound'
  <2> SUFFICES ASSUME edited \cap {"indices", "operands"} = {}, NEW k \in Roles, idx[k] # Nil
               PROVE  idx[k] \in 1 .. m /\ (fills' = 1 => idx[k] = d.role[k])
    BY <1>3, <1>9, <1>13 DEF AliasesSound
  <2>1. insn.idx[k] # Nil => insn.idx[k] \in 1 .. Len(insn.ops)
    BY <1>5, SeqFacts DEF AliasesSound, Shape
  <2>2. c.role[k] # 0 BY <1>4, <1>15, <2>1
  <2>3. fills' = 1 => insn.ops = <<>>
    BY <1>3, <1>5, DecodingAssumption DEF Untouched, TypeOK
  <2> QED BY <1>4, <1>7, <1>15, <2>2, <2>3
<1>19. Untouched' BY <1>3, <1>5, DecodingAssumption DEF Untouched, TypeOK
<1>20. Named' BY <1>13, <1>14 DEF Named
<1>21. Sent' /\ LevelsKept' /\ FlowAgrees' BY <1>3 DEF Sent, LevelsKept, FlowAgrees
<1> QED BY <1>16, <1>17, <1>18, <1>19, <1>20, <1>21 DEF IInv

---------------------------------------------------------------------------
LEMMA EmptyOps == IsSeq(<<>>) /\ Len(<<>>) = 0 /\ DOMAIN <<>> = {}
<1>1. <<>> \in Seq({}) /\ Len(<<>>) = 0 BY EmptySeq
<1>2. DOMAIN <<>> = 1 .. 0 BY <1>1, LenProperties
<1>3. DOMAIN <<>> = {} BY <1>2
<1> QED BY <1>1, <1>3, EmptySeq DEF IsSeq

LEMMA DecodeStep ==
  ASSUME IInv, NEW v \in Addresses, Decode(v) PROVE IInv'
<1>1. /\ calls < MaxCalls /\ calls' = calls + 1 /\ pc' = "decode" /\ vma' = v /\ out' = BlankC
      /\ insn' = InsnFromC(BlankC)
      /\ last' = Nil /\ levels' = {} /\ fills' = 0 /\ edited' = {}
  BY DEF Decode
<1>2. /\ insn' = [vma |-> 0, status |-> {"invalid"}, category |-> "unknown", flags |-> {},
                  ops |-> <<>>, idx |-> [k \in Roles |-> Nil]]
      /\ insn'.vma = 0 /\ insn'.status = {"invalid"} /\ insn'.category = "unknown"
      /\ insn'.flags = {} /\ insn'.ops = <<>> /\ \A k \in Roles : insn'.idx[k] = Nil
  BY <1>1, NewFacts
<1>3. Shape'
  <2>1. insn'.idx = [k \in Roles |-> Nil] BY <1>2
  <2>2. insn'.idx \in [Roles -> Nat \cup {Nil}] BY <2>1
  <2>3. 0 \in 0 .. UIntSpan - 1 /\ "unknown" \in Categories
    BY Widths, InstructionAssumption
  <2>4. IsSeq(insn'.ops) BY <1>2, EmptyOps
  <2>5. insn' = [vma |-> insn'.vma, status |-> insn'.status, category |-> insn'.category,
                 flags |-> insn'.flags, ops |-> insn'.ops, idx |-> insn'.idx]
    BY <1>2
  <2> QED BY <1>2, <2>2, <2>3, <2>4, <2>5 DEF Shape
<1>4. TypeOK'
  <2>1. calls' \in 0 .. MaxCalls /\ fills' \in 0 .. MaxFills
    BY <1>1, DecodingAssumption DEF IInv, TypeOK
  <2>2. /\ out'.vma \in Vmas /\ out'.status \subseteq Levels
        /\ out'.flags \subseteq FlagsOf[out'.category]
        /\ out'.ops = <<>> /\ \A k \in Roles : out'.role[k] \in 0 .. Len(out'.ops)
    BY <1>1, BlankFacts, EmptyOps, Widths DEF Vmas
  <2> QED BY <1>1, <1>2, <1>3, <2>1, <2>2 DEF TypeOK, Shape
<1>5. Named' BY <1>1, <1>2, InstructionAssumption DEF Named
<1>6. Untouched' /\ AliasesSound' BY <1>2 DEF Untouched, AliasesSound
<1>7. Sent' /\ LevelsKept' /\ FlowAgrees' BY <1>1 DEF Sent, LevelsKept, FlowAgrees
<1> QED BY <1>3, <1>4, <1>5, <1>6, <1>7 DEF IInv

\* A decode method edits the object: the status stays, and so do the operands and the
\* indices unless it is them that it edits.
LEMMA EditStep ==
  ASSUME IInv, pc = "decode", Rest, edited \subseteq edited',
         NEW category \in Categories, NEW flags, NEW ops, IsSeq(ops),
         NEW idx \in [Roles -> Nat \cup {Nil}],
         insn' = [vma |-> insn.vma, status |-> insn.status, category |-> category,
                  flags |-> flags, ops |-> ops, idx |-> idx],
         fills = 0 => ops = <<>> /\ idx = insn.idx,
         edited' \cap {"indices", "operands"} = {} =>
           idx = insn.idx /\ DOMAIN ops = DOMAIN insn.ops
  PROVE  IInv'
<1>1. /\ pc' = pc /\ vma' = vma /\ out' = out /\ last' = last /\ levels' = levels
      /\ fills' = fills /\ calls' = calls
  BY DEF Rest
<1>2. /\ insn'.vma = insn.vma /\ insn'.status = insn.status /\ insn'.category = category
      /\ insn'.flags = flags /\ insn'.ops = ops /\ insn'.idx = idx
  OBVIOUS
<1>3. Shape' BY <1>2 DEF IInv, Shape
<1>4. TypeOK' BY <1>1, <1>2 DEF IInv, TypeOK
<1>5. Named' /\ Untouched' BY <1>1, <1>2 DEF IInv, Named, Untouched
<1>6. AliasesSound'
  <2>1. edited' \cap {"indices", "operands"} = {} => edited \cap {"indices", "operands"} = {}
    OBVIOUS
  <2> QED BY <1>1, <1>2, <2>1 DEF IInv, AliasesSound
<1>7. Sent' /\ LevelsKept' /\ FlowAgrees' BY <1>1 DEF Sent, LevelsKept, FlowAgrees
<1> QED BY <1>3, <1>4, <1>5, <1>6, <1>7 DEF IInv

LEMMA EditsStep ==
  ASSUME IInv,
         \/ \E i \in DOMAIN insn.ops : SetIndices(i) \/ SetValue(i)
         \/ \E e \in Edits : SetFlags(e)
         \/ ClearOperands
  PROVE  IInv'
<1>0. /\ insn = [vma |-> insn.vma, status |-> insn.status, category |-> insn.category,
                 flags |-> insn.flags, ops |-> insn.ops, idx |-> insn.idx]
      /\ IsSeq(insn.ops) /\ insn.idx \in [Roles -> Nat \cup {Nil}] /\ insn.category \in Categories
      /\ DOMAIN insn.ops = 1 .. Len(insn.ops) /\ Len(insn.ops) \in Nat
      /\ (fills = 0 => insn.ops = <<>>)
  BY SeqFacts DEF IInv, Shape, Untouched
<1>1. ASSUME NEW i \in DOMAIN insn.ops, SetIndices(i) PROVE IInv'
  <2>1. /\ pc = "decode" /\ edited' = edited \cup {"indices"} /\ Rest
        /\ insn' = [insn EXCEPT !.idx = [k \in Roles |-> IF @[k] = Nil THEN i ELSE @[k]]]
    BY <1>1 DEF SetIndices, Edit
  <2>2. PICK idx : idx = [k \in Roles |-> IF insn.idx[k] = Nil THEN i ELSE insn.idx[k]] OBVIOUS
  <2>3. insn' = [vma |-> insn.vma, status |-> insn.status, category |-> insn.category,
                 flags |-> insn.flags, ops |-> insn.ops, idx |-> idx]
    BY <1>0, <2>1, <2>2
  <2>4. idx \in [Roles -> Nat \cup {Nil}] BY <1>0, <2>2
  <2>5. fills # 0 BY <1>0, <1>1, EmptyOps
  <2> QED BY <1>0, <2>1, <2>3, <2>4, <2>5, EditStep
<1>2. ASSUME NEW i \in DOMAIN insn.ops, SetValue(i) PROVE IInv'
  <2>1. /\ pc = "decode" /\ edited' = edited \cup {"value"} /\ Rest
        /\ insn' = [insn EXCEPT !.ops[i].val.value = 1]
    BY <1>2 DEF SetValue, Edit
  <2>2. PICK ops : ops = [insn.ops EXCEPT ![i].val.value = 1] OBVIOUS
  <2>3. insn' = [vma |-> insn.vma, status |-> insn.status, category |-> insn.category,
                 flags |-> insn.flags, ops |-> ops, idx |-> insn.idx]
    BY <1>0, <2>1, <2>2
  <2>4. DOMAIN ops = DOMAIN insn.ops /\ ops = [j \in DOMAIN insn.ops |-> ops[j]] BY <2>2
  <2>5. IsSeq(ops) BY <1>0, <2>4, MappedSeq
  <2>6. fills # 0 BY <1>0, <1>2, EmptyOps
  <2> QED BY <1>0, <2>1, <2>3, <2>4, <2>5, <2>6, EditStep
<1>3. ASSUME NEW e \in Edits, SetFlags(e) PROVE IInv'
  <2>1. /\ pc = "decode" /\ edited' = edited \cup {"flags"} /\ Rest
        /\ insn' = [insn EXCEPT !.category = e.category, !.flags = e.flags]
    BY <1>3 DEF SetFlags, Edit
  <2>2. insn' = [vma |-> insn.vma, status |-> insn.status, category |-> e.category,
                 flags |-> e.flags, ops |-> insn.ops, idx |-> insn.idx]
    BY <1>0, <2>1
  <2>3. e.category \in Categories BY DecodingAssumption
  <2> QED BY <1>0, <2>1, <2>2, <2>3, EditStep
<1>4. CASE ClearOperands
  <2>0. PICK ops : ops = <<>> OBVIOUS
  <2>1. /\ pc = "decode" /\ edited' = edited \cup {"operands"} /\ Rest
        /\ insn' = [insn EXCEPT !.ops = ops]
    BY <1>4, <2>0 DEF ClearOperands, Edit
  <2>2. insn' = [vma |-> insn.vma, status |-> insn.status, category |-> insn.category,
                 flags |-> insn.flags, ops |-> ops, idx |-> insn.idx]
    BY <1>0, <2>1
  <2>3. IsSeq(ops) BY <2>0, EmptyOps
  <2> QED BY <1>0, <2>0, <2>1, <2>2, <2>3, EditStep
<1> QED BY <1>1, <1>2, <1>3, <1>4

LEMMA ReturnStep ==
  ASSUME IInv, Return PROVE IInv'
<1>1. /\ pc = "decode" /\ Convertible(insn) /\ out' = InsnToC(insn, out) /\ pc' \in Answers
      /\ vma' = vma /\ insn' = insn /\ last' = last /\ levels' = levels /\ fills' = fills
      /\ edited' = edited /\ calls' = calls
  BY DEF Return, history
<1>2. TypeOK /\ Shape /\ Named /\ Untouched /\ AliasesSound BY DEF IInv
<1>3. PICK c : c = InsnToC(insn, out) OBVIOUS
<1>4. /\ c.vma \in Vmas /\ c.status = insn.status \cap Levels
      /\ c.category = insn.category /\ c.flags = insn.flags \cap FlagsOf[insn.category]
      /\ IsSeq(c.ops) /\ Len(c.ops) = Len(insn.ops) /\ DOMAIN c.ops = 1 .. Len(insn.ops)
      /\ Len(insn.ops) \in Nat
      /\ \A k \in Roles :
           c.role[k] = IF insn.idx[k] \in 1 .. Len(insn.ops) THEN insn.idx[k] ELSE out.role[k]
  BY <1>2, <1>3, ToCFacts
<1>5. out' = c BY <1>1, <1>3
<1>6. TypeOK'
  <2>1. \A k \in Roles : out.role[k] = 0
    <3>1. out.ops = <<>> BY <1>1, <1>2 DEF TypeOK
    <3>2. \A k \in Roles : out.role[k] \in 0 .. 0 BY <1>2, <3>1, EmptyOps DEF TypeOK
    <3> QED BY <3>2
  <2>2. PICK n : n = Len(insn.ops) OBVIOUS
  <2>3. n \in Nat BY <1>4, <2>2
  <2>4. \A k \in Roles : c.role[k] = IF insn.idx[k] \in 1 .. n THEN insn.idx[k] ELSE 0
    BY <1>4, <2>1, <2>2
  <2>5. \A k \in Roles : c.role[k] \in 0 .. n BY <2>3, <2>4
  <2>6. \A k \in Roles : c.role[k] \in 0 .. Len(c.ops) BY <1>4, <2>2, <2>5
  <2> QED BY <1>1, <1>2, <1>4, <1>5, <2>6 DEF TypeOK
<1>7. Sent'
  <2>1. c.ops # <<>> => DOMAIN insn.ops # {}
    <3>1. DOMAIN insn.ops = DOMAIN c.ops BY <1>2, <1>4, SeqFacts DEF Shape
    <3> SUFFICES ASSUME DOMAIN insn.ops = {} PROVE c.ops = <<>> OBVIOUS
    <3>2. DOMAIN c.ops = {} /\ Len(c.ops) \in Nat /\ DOMAIN c.ops = 1 .. Len(c.ops)
      BY <1>4, <3>1
    <3>3. PICK n : n = Len(c.ops) OBVIOUS
    <3>4. n \in Nat /\ 1 .. n = {} BY <3>2, <3>3
    <3>5. n = 0 BY <3>4
    <3> QED BY <1>4, <3>3, <3>5, EmptySeq DEF IsSeq
  <2> QED BY <1>1, <1>5, <2>1 DEF Sent, Convertible
<1>8. LevelsKept' BY <1>1, <1>2, <1>4, <1>5 DEF LevelsKept, Named
<1>9. FlowAgrees'
  <2>1. insn.category = "cflow" =>
          /\ c.flags \cap BranchFlags = insn.flags \cap BranchFlags
          /\ c.flags \cap StopFlags = insn.flags \cap StopFlags
    BY <1>4, InstructionAssumption
  <2> QED BY <1>1, <1>4, <1>5, <2>1 DEF FlowAgrees, Branch, Fallthrough, Follows, GoesOn
<1>10. Named' /\ Untouched' /\ AliasesSound' /\ Shape'
  BY <1>1, <1>2 DEF Named, Untouched, AliasesSound, Shape
<1> QED BY <1>6, <1>7, <1>8, <1>9, <1>10 DEF IInv

\* The other ends of a callback, and a call that fails.
LEMMA FailStep ==
  ASSUME IInv, BuiltinFails \/ BuiltinRaises \/ ReturnRaises \/ Crash PROVE IInv'
<1>1. /\ pc = "decode" /\ pc' \in {"decode", "raised", "crashed"} /\ out' \in {out, BlankC}
      /\ vma' = vma /\ insn' = insn /\ last' = last /\ levels' = levels /\ fills' = fills
      /\ edited' \in {edited, edited \cup {"failure"}} /\ calls' = calls
  BY DEF BuiltinFails, BuiltinRaises, ReturnRaises, Crash, history
<1>2. TypeOK /\ Shape /\ Named /\ Untouched /\ AliasesSound BY DEF IInv
<1>3. TypeOK'
  <2>1. /\ out'.vma \in Vmas /\ out'.status \subseteq Levels
        /\ out'.flags \subseteq FlagsOf[out'.category]
        /\ \A k \in Roles : out'.role[k] \in 0 .. Len(out'.ops)
        /\ out'.ops = <<>>
    <3>1. CASE out' = out BY <1>1, <1>2, <3>1 DEF TypeOK
    <3>2. CASE out' = BlankC BY <3>2, BlankFacts, EmptyOps, Widths DEF Vmas
    <3> QED BY <1>1, <3>1, <3>2
  <2> QED BY <1>1, <1>2, <2>1 DEF TypeOK
<1>4. AliasesSound'
  <2>1. edited' \cap {"indices", "operands"} = edited \cap {"indices", "operands"} BY <1>1
  <2> QED BY <1>1, <1>2, <2>1 DEF AliasesSound
<1>5. Shape' /\ Named' /\ Untouched' BY <1>1, <1>2 DEF Shape, Named, Untouched
<1>6. Sent' /\ LevelsKept' /\ FlowAgrees' BY <1>1 DEF Sent, LevelsKept, FlowAgrees
<1> QED BY <1>3, <1>4, <1>5, <1>6 DEF IInv

---------------------------------------------------------------------------
(* Operands there and back.                                                *)

LEMMA Same == ASSUME NEW n \in Nat \ {0}, NEW x \in 0 .. n - 1 PROVE x % n = x
OBVIOUS

LEMMA Down == ASSUME NEW n \in Nat \ {0}, NEW x \in 0 .. n - 1 PROVE (x - n) % n = x
OBVIOUS

LEMMA Half ==
  ASSUME NEW s \in Int, s % 2 = 1
  PROVE  (s - 1) \div 2 \in Int /\ 2 * ((s - 1) \div 2) + 1 = s
OBVIOUS

LEMMA Parity ==
  ASSUME NEW v \in Nat, v % 2 = 0, NEW n \in Int, n % 2 = 1 PROVE (n - v) % 2 = 1
OBVIOUS

LEMMA EvenMultiple ==
  ASSUME NEW v \in Nat, NEW u \in Nat \ {0}, u % 2 = 0, v % u = 0 PROVE v % 2 = 0
<1>1. PICK j : j = u \div 2 OBVIOUS
<1>2. PICK k : k = v \div u OBVIOUS
<1>3. j \in Int /\ u = 2 * j BY <1>1
<1>4. k \in Int /\ v = u * k BY <1>2
<1>5. PICK m : m = j * k OBVIOUS
<1>6. m \in Int /\ v = 2 * m BY <1>3, <1>4, <1>5
<1> QED BY <1>6

LEMMA VmaSpanEven == VmaSpan % 2 = 0
<1>1. /\ UIntSpan \in Nat \ {0} /\ VmaSpan \in Nat /\ UIntSpan % 2 = 0
      /\ VmaSpan % UIntSpan = 0
  BY WidthAssumption
<1> QED BY <1>1, EvenMultiple

LEMMA UnsignedSigned ==
  ASSUME NEW n \in Vmas PROVE Unsigned(Signed(n)) = n /\ Unsigned(n) = n /\ Signed(n) \in Int
<1>1. n \in 0 .. VmaSpan - 1 /\ VmaSpan \in Nat \ {0} BY Widths DEF Vmas
<1>2. n % VmaSpan = n BY <1>1, Same
<1>3. (n - VmaSpan) % VmaSpan = n BY <1>1, Down
<1> QED BY <1>1, <1>2, <1>3 DEF Unsigned, Signed

\* An odd offset: libopdis gets what is left of half of it.
LEMMA OffsetBack ==
  ASSUME NEW n \in Vmas, AsValue(n).type = "fixnum"
  PROVE  (2 * Unsigned(AsValue(n).num) + 1) % VmaSpan = n
<1>1. n \in 0 .. VmaSpan - 1 /\ VmaSpan \in Nat \ {0} BY Widths DEF Vmas
<1>2. n % 2 = 1
  <2> SUFFICES ASSUME n % 2 # 1 PROVE FALSE OBVIOUS
  <2>1. AsValue(n) = [type |-> IF n \in {0, 2, 4} THEN "special" ELSE "object", num |-> n]
    BY DEF AsValue
  <2> QED BY <2>1
<1>3. AsValue(n).num = (Signed(n) - 1) \div 2 BY <1>2 DEF AsValue
<1>4. PICK h : h = (Signed(n) - 1) \div 2 OBVIOUS
<1>5. h \in Int /\ 2 * h + 1 = Signed(n)
  <2>1. (n - VmaSpan) % 2 = 1 BY <1>1, <1>2, VmaSpanEven, Parity
  <2>2. Signed(n) \in Int /\ Signed(n) % 2 = 1 BY <1>1, <1>2, <2>1 DEF Signed
  <2> QED BY <1>4, <2>2, Half
<1>6. CASE Signed(n) = n
  <2>1. h \in 0 .. VmaSpan - 1 /\ 2 * h + 1 = n BY <1>1, <1>5, <1>6
  <2>2. h % VmaSpan = h BY <1>1, <2>1, Same
  <2>3. 2 * Unsigned(AsValue(n).num) + 1 = n BY <1>3, <1>4, <2>1, <2>2 DEF Unsigned
  <2>4. n % VmaSpan = n BY <1>1, Same
  <2> QED BY <2>3, <2>4
<1>7. CASE Signed(n) = n - VmaSpan /\ Signed(n) # n
  <2>0. ~(n < VmaSpan \div 2) BY <1>7 DEF Signed
  <2>1. 2 * h + 1 = n - VmaSpan BY <1>5, <1>7
  <2>2. h + VmaSpan \in 0 .. VmaSpan - 1
    <3>1. h < 0 BY <1>1, <1>5, <2>1
    <3>2. h + VmaSpan >= 0 BY <1>1, <1>5, <2>1
    <3> QED BY <1>1, <1>5, <3>1, <3>2
  <2>3. Unsigned(h) = h + VmaSpan
    <3>1. PICK y : y = h + VmaSpan OBVIOUS
    <3>2. y \in 0 .. VmaSpan - 1 /\ y - VmaSpan = h BY <1>1, <1>5, <2>2, <3>1
    <3>3. (y - VmaSpan) % VmaSpan = y BY <1>1, <3>2, Down
    <3> QED BY <3>1, <3>2, <3>3 DEF Unsigned
  <2>4. 2 * (h + VmaSpan) + 1 = n + VmaSpan BY <1>1, <1>5, <2>1
  <2>5. 2 * Unsigned(AsValue(n).num) + 1 = n + VmaSpan BY <1>3, <1>4, <2>3, <2>4
  <2>6. (n + VmaSpan) % VmaSpan = n BY <1>1, Up
  <2> QED BY <2>5, <2>6
<1> QED BY <1>6, <1>7 DEF Signed

\* What a Ruby operand made of o may have become when it is converted back.
Alike(o, p) ==
  \E v : p = [cat |-> o.cat, flags |-> o.flags,
              val |-> IF o.cat = "immediate" THEN [OpFromC(o).val EXCEPT !.value = v]
                      ELSE OpFromC(o).val]

LEMMA RegBack ==
  ASSUME NEW r, IsReg(r) PROVE RegToC(RegFromC(r)) = r
<1>1. PICK i : i = r.id OBVIOUS
<1>2. PICK F : F = r.flags OBVIOUS
<1>3. r = [id |-> i, flags |-> F] /\ F \subseteq RegFlags BY <1>1, <1>2 DEF IsReg
<1>4. F \cap RegFlags = F BY <1>3
<1>5. RegFromC(r) = [id |-> i, purpose |-> F] BY <1>3, <1>4 DEF RegFromC
<1> QED BY <1>3, <1>4, <1>5 DEF RegToC

LEMMA AbsBack ==
  ASSUME NEW a, IsAbs(a), AbsFromC(a).offset.type = "fixnum"
  PROVE  /\ AbsToC(AbsFromC(a)).segment = a.segment
         /\ (2 * AbsToC(AbsFromC(a)).offset + 1) % VmaSpan = a.offset
<1>1. IsReg(a.segment) /\ a.offset \in Vmas BY DEF IsAbs
<1>2. PICK x : x = AbsFromC(a) OBVIOUS
<1>3. x.segment = RegFromC(a.segment) /\ x.offset = AsValue(a.offset) BY <1>2 DEF AbsFromC
<1>4. /\ AbsToC(x).segment = RegToC(x.segment)
      /\ AbsToC(x).offset = Unsigned(x.offset.num)
  BY DEF AbsToC
<1> QED BY <1>1, <1>2, <1>3, <1>4, RegBack, OffsetBack

LEMMA OptBack ==
  ASSUME NEW r, r = Nil \/ (IsReg(r) /\ RegFromC(r) # Nil)
  PROVE  OptToC(OptFromC(r)) = r
<1>1. CASE r = Nil BY <1>1 DEF OptFromC, OptToC
<1>2. CASE r # Nil /\ IsReg(r) /\ RegFromC(r) # Nil
  <2>1. OptFromC(r) = RegFromC(r) BY <1>2 DEF OptFromC
  <2> QED BY <1>2, <2>1, RegBack DEF OptToC
<1> QED BY <1>1, <1>2

LEMMA DispBack ==
  ASSUME NEW d, d = Nil \/ (IsDisp(d) /\ DispFromC(d) # Nil), NEW e, e = DispFromC(d),
         e # Nil /\ e.kind = "abs" => e.abs.offset.type = "fixnum"
  PROVE  SameDisp(d, DispToC(e))
<1>1. CASE d = Nil
  <2>1. e = Nil BY <1>1 DEF DispFromC
  <2>2. DispToC(e) = Nil BY <2>1 DEF DispToC
  <2> QED BY <1>1, <2>2 DEF SameDisp
<1>2. CASE d # Nil /\ e # Nil /\ d.kind = "abs" /\ IsAbs(d.abs)
  <2>1. PICK x : x = AbsFromC(d.abs) OBVIOUS
  <2>2. e = [kind |-> "abs", abs |-> x] BY <1>2, <2>1 DEF DispFromC
  <2>3. x.offset.type = "fixnum" BY <1>2, <2>2
  <2>4. PICK y : y = AbsToC(x) OBVIOUS
  <2>5. DispToC(e) = [kind |-> "abs", abs |-> y] BY <1>2, <2>2, <2>4 DEF DispToC
  <2>6. y.segment = d.abs.segment /\ (2 * y.offset + 1) % VmaSpan = d.abs.offset
    BY <1>2, <2>1, <2>3, <2>4, AbsBack
  <2> QED BY <1>2, <2>5, <2>6 DEF SameDisp
<1>3. CASE d # Nil /\ e # Nil /\ d.kind \in {"s", "u"} /\ d.num \in Vmas
  <2>1. PICK n : n = IF d.kind = "s" THEN Signed(d.num) ELSE d.num OBVIOUS
  <2>2. e = [kind |-> "num", num |-> n] BY <1>3, <2>1 DEF DispFromC
  <2>3. DispToC(e) = [kind |-> "u", num |-> Unsigned(n)] BY <1>3, <2>2 DEF DispToC
  <2>4. Unsigned(n) = d.num BY <1>3, <2>1, UnsignedSigned
  <2> QED BY <1>3, <2>3, <2>4 DEF SameDisp
<1> QED BY <1>1, <1>2, <1>3 DEF IsDisp

LEMMA OperandBack ==
  ASSUME NEW o, IsOperand(o), NEW p, Alike(o, p), Fine(p)
  PROVE  SameOperand(o, OpToC(p))
<1>1. PICK v :
        p = [cat |-> o.cat, flags |-> o.flags,
             val |-> IF o.cat = "immediate" THEN [OpFromC(o).val EXCEPT !.value = v]
                     ELSE OpFromC(o).val]
  BY DEF Alike
<1>2. p.cat = o.cat /\ p.flags = o.flags /\ o.flags \cap OpFlags = o.flags
  BY <1>1 DEF IsOperand
<1>3. PICK q : q = OpToC(p) OBVIOUS
<1>4. q.cat = o.cat /\ q.flags = o.flags BY <1>2, <1>3 DEF OpToC
<1>5. CASE o.cat = "register" /\ IsReg(o.val)
  <2>1. p.val = RegFromC(o.val) BY <1>1, <1>5 DEF OpFromC
  <2>2. q.val = RegToC(p.val) BY <1>2, <1>3, <1>5 DEF OpToC
  <2> QED BY <1>3, <1>4, <1>5, <2>1, <2>2, RegBack DEF SameOperand
<1>6. CASE o.cat = "immediate" /\ o.val.num \in Vmas
  <2>1. OpFromC(o).val = ImmFromC(o.val, o.flags) BY <1>6 DEF OpFromC
  <2>2. p.val.unsigned = o.val.num BY <1>1, <1>6, <2>1 DEF ImmFromC
  <2>3. q.val = [vma |-> 0, num |-> Unsigned(p.val.unsigned)]
    BY <1>2, <1>3, <1>6 DEF OpToC, ImmToC
  <2>4. q.val = [vma |-> 0, num |-> o.val.num] BY <1>6, <2>2, <2>3, UnsignedSigned
  <2> QED BY <1>3, <1>4, <1>6, <2>4 DEF SameOperand
<1>7. CASE o.cat = "absolute" /\ IsAbs(o.val)
  <2>1. p.val = AbsFromC(o.val) BY <1>1, <1>7 DEF OpFromC
  <2>2. q.val = AbsToC(p.val) BY <1>2, <1>3, <1>7 DEF OpToC
  <2>3. p.val.offset.type = "fixnum" BY <1>2, <1>7 DEF Fine, OffsetsIn
  <2>4. q.val.segment = o.val.segment /\ (2 * q.val.offset + 1) % VmaSpan = o.val.offset
    BY <1>7, <2>1, <2>2, <2>3, AbsBack
  <2> QED BY <1>3, <1>4, <1>7, <2>4 DEF SameOperand
<1>8. CASE o.cat = "unknown" /\ o.val = Nil
  <2>1. q.val = Nil BY <1>2, <1>3, <1>8 DEF OpToC
  <2> QED BY <1>3, <1>4, <1>8, <2>1 DEF SameOperand
<1>9. CASE /\ o.cat = "expr" /\ o.val.shift \in Shifts
           /\ \A r \in {o.val.base, o.val.index} : r = Nil \/ (IsReg(r) /\ RegFromC(r) # Nil)
           /\ \A d \in {o.val.disp} : d = Nil \/ (IsDisp(d) /\ DispFromC(d) # Nil)
  <2>1. p.val = ExprFromC(o.val) BY <1>1, <1>9 DEF OpFromC
  <2>2. /\ p.val.base = OptFromC(o.val.base) /\ p.val.index = OptFromC(o.val.index)
        /\ p.val.scale = Nil /\ p.val.shift = o.val.shift /\ p.val.disp = DispFromC(o.val.disp)
    BY <2>1 DEF ExprFromC
  <2>3. q.val = ExprToC(p.val) BY <1>2, <1>3, <1>9 DEF OpToC
  <2>4. /\ q.val.base = OptToC(p.val.base) /\ q.val.index = OptToC(p.val.index)
        /\ q.val.scale = 1 /\ q.val.shift = o.val.shift /\ q.val.disp = DispToC(p.val.disp)
    BY <1>9, <2>2, <2>3 DEF ExprToC
  <2>5. q.val.base = o.val.base /\ q.val.index = o.val.index
    BY <1>9, <2>2, <2>4, OptBack
  <2>6. p.val.disp # Nil /\ p.val.disp.kind = "abs" => p.val.disp.abs.offset.type = "fixnum"
    BY <1>2, <1>9 DEF Fine, OffsetsIn
  <2>7. SameDisp(o.val.disp, q.val.disp) BY <1>9, <2>2, <2>4, <2>6, DispBack
  <2> QED BY <1>3, <1>4, <1>9, <2>4, <2>5, <2>7 DEF SameOperand
<1> QED BY <1>5, <1>6, <1>7, <1>8, <1>9 DEF IsOperand

---------------------------------------------------------------------------
LEMMA InitInv == Init => IInv
<1> SUFFICES ASSUME Init PROVE IInv OBVIOUS
<1>1. /\ pc = "returned" /\ vma \in Addresses /\ insn = InsnFromC(BlankC) /\ out = BlankC
      /\ calls = 0 /\ last = Nil /\ levels = {} /\ fills = 0 /\ edited = {}
  BY DEF Init
<1>2. /\ insn = [vma |-> 0, status |-> {"invalid"}, category |-> "unknown", flags |-> {},
                 ops |-> <<>>, idx |-> [k \in Roles |-> Nil]]
      /\ insn.vma = 0 /\ insn.status = {"invalid"} /\ insn.category = "unknown"
      /\ insn.flags = {} /\ insn.ops = <<>> /\ \A k \in Roles : insn.idx[k] = Nil
  BY <1>1, NewFacts
<1>3. Shape
  <2>1. insn.idx = [k \in Roles |-> Nil] BY <1>2
  <2>2. insn.idx \in [Roles -> Nat \cup {Nil}] BY <2>1
  <2>3. 0 \in 0 .. UIntSpan - 1 /\ "unknown" \in Categories
    BY Widths, InstructionAssumption
  <2>4. IsSeq(insn.ops) BY <1>2, EmptyOps
  <2>5. insn = [vma |-> insn.vma, status |-> insn.status, category |-> insn.category,
                flags |-> insn.flags, ops |-> insn.ops, idx |-> insn.idx]
    BY <1>2
  <2> QED BY <1>2, <2>2, <2>3, <2>4, <2>5 DEF Shape
<1>4. TypeOK
  <2>1. calls \in 0 .. MaxCalls /\ fills \in 0 .. MaxFills BY <1>1, DecodingAssumption
  <2>2. /\ out.vma \in Vmas /\ out.status \subseteq Levels
        /\ out.flags \subseteq FlagsOf[out.category]
        /\ out.ops = <<>> /\ \A k \in Roles : out.role[k] \in 0 .. Len(out.ops)
    BY <1>1, BlankFacts, EmptyOps, Widths DEF Vmas
  <2> QED BY <1>1, <1>2, <1>3, <2>1, <2>2 DEF TypeOK, Shape
<1>5. Named /\ Untouched /\ AliasesSound BY <1>1, <1>2 DEF Named, Untouched, AliasesSound
<1>6. Sent /\ LevelsKept BY <1>1, BlankFacts DEF Sent, LevelsKept
<1>7. FlowAgrees
  BY <1>1, <1>2, BlankFacts DEF FlowAgrees, Branch, Fallthrough, Follows, GoesOn
<1> QED BY <1>3, <1>4, <1>5, <1>6, <1>7 DEF IInv

LEMMA NextInv == IInv /\ [Next]_vars => IInv'
<1> SUFFICES ASSUME IInv, [Next]_vars PROVE IInv' OBVIOUS
<1>1. CASE Next
  BY <1>1, DecodeStep, BuiltinStep, FailStep, EditsStep, ReturnStep DEF Next
<1>2. CASE UNCHANGED vars
  <2>1. /\ pc' = pc /\ vma' = vma /\ insn' = insn /\ out' = out /\ last' = last
        /\ levels' = levels /\ fills' = fills /\ edited' = edited /\ calls' = calls
    BY <1>2 DEF vars, history
  <2> QED BY <2>1 DEF IInv, TypeOK, Shape, Named, Untouched, AliasesSound, Sent, LevelsKept,
                      FlowAgrees
<1> QED BY <1>1, <1>2

\* The inductive invariant.
THEOREM Invariant == Spec => []IInv
<1> QED BY InitInv, NextInv, PTL DEF Spec

\* libopdis' instruction stays within its types, whatever a decode method does.
THEOREM TypeCorrect == Spec => []TypeOK
<1>1. IInv => TypeOK BY DEF IInv
<1> QED BY <1>1, Invariant, PTL

\* The levels reported back to libopdis are those of the built-in calls, for any number
\* of fills of one object (set_insn_status, insn_status_code).
THEOREM StatusExact == Spec => []LevelsKept
<1>1. IInv => LevelsKept BY DEF IInv
<1> QED BY <1>1, Invariant, PTL

\* branch? and fallthrough? agree with what libopdis makes of the instruction.
THEOREM PredicatesAgree == Spec => []FlowAgrees
<1>1. IInv => FlowAgrees BY DEF IInv
<1> QED BY <1>1, Invariant, PTL

\* target, dest and src name operands of the object (set_attr_if_alias).
THEOREM AliasesName == Spec => []AliasesSound
<1>1. IInv => AliasesSound BY DEF IInv
<1> QED BY <1>1, Invariant, PTL

\* Operands reach libopdis unaided only where the decoder set all three (insn_to_c).
THEOREM RolesNeeded == Spec => []UnaidedNeedsRoles
<1>1. ASSUME IInv, Answered, fills = 1, edited \cap {"indices", "operands"} = {},
             out.ops # <<>>, NEW k \in Roles
      PROVE  last.role[k] # 0
  <2>1. insn.idx[k] # Nil BY <1>1 DEF IInv, Sent, IndicesSet
  <2>2. insn.idx[k] \in DOMAIN insn.ops /\ insn.idx[k] = last.role[k]
    BY <1>1, <2>1 DEF IInv, AliasesSound
  <2>3. DOMAIN insn.ops = 1 .. Len(insn.ops) /\ Len(insn.ops) \in Nat
    BY <1>1, SeqFacts DEF IInv, Shape
  <2> QED BY <2>2, <2>3
<1>2. IInv => UnaidedNeedsRoles BY <1>1 DEF UnaidedNeedsRoles
<1> QED BY <1>2, Invariant, PTL

---------------------------------------------------------------------------
(* What one built-in call found, on its way through the object.            *)

Left == {"indices", "value", "failure"}
Carried ==
  pc = "decode" /\ fills = 1 /\ edited \subseteq Left =>
    /\ last \in Decodings /\ insn.vma = vma % UIntSpan
    /\ last.levels # {"basic"} =>
         /\ insn.category = last.category /\ insn.flags = last.flags
         /\ Len(insn.ops) = Len(last.ops)
         /\ \A i \in 1 .. Len(last.ops) : Alike(last.ops[i], insn.ops[i])
         /\ \A k \in Roles : last.role[k] # 0 => insn.idx[k] = last.role[k]

LEMMA HashValue ==
  ASSUME NEW v \in Vmas PROVE HashVma(v) = v % UIntSpan
<1>1. PICK low : low = v % UIntSpan OBVIOUS
<1>2. low \in 0 .. UIntSpan - 1 /\ UIntSpan \in Nat \ {0} BY <1>1, Widths, Wrapped DEF Vmas
<1>3. CASE low < UIntSpan \div 2
  <2>1. ToInt(v) = low BY <1>1, <1>3 DEF ToInt
  <2>2. low % UIntSpan = low BY <1>2, Same
  <2> QED BY <1>1, <2>1, <2>2 DEF HashVma, ToUInt
<1>4. CASE ~(low < UIntSpan \div 2)
  <2>1. ToInt(v) = low - UIntSpan BY <1>1, <1>4 DEF ToInt
  <2>2. (low - UIntSpan) % UIntSpan = low BY <1>2, Down
  <2> QED BY <1>1, <2>1, <2>2 DEF HashVma, ToUInt
<1> QED BY <1>3, <1>4

LEMMA MadeAlike ==
  ASSUME NEW o, IsOperand(o) PROVE Alike(o, OpFromC(o))
<1>1. PICK p : p = OpFromC(o) OBVIOUS
<1>2. PICK w : w = p.val OBVIOUS
<1>3. o.flags \cap OpFlags = o.flags BY DEF IsOperand
<1>4. p = [cat |-> o.cat, flags |-> o.flags, val |-> w] BY <1>1, <1>2, <1>3 DEF OpFromC
<1>5. CASE o.cat = "immediate"
  <2>1. w = ImmFromC(o.val, o.flags) BY <1>1, <1>2, <1>5 DEF OpFromC
  <2>2. [w EXCEPT !.value = w.value] = w BY <2>1 DEF ImmFromC
  <2>3. p = [cat |-> o.cat, flags |-> o.flags, val |-> [w EXCEPT !.value = w.value]]
    BY <1>4, <2>2
  <2> QED BY <1>1, <1>2, <1>5, <2>3 DEF Alike
<1>6. CASE o.cat # "immediate" BY <1>1, <1>2, <1>4, <1>6 DEF Alike
<1> QED BY <1>5, <1>6

\* The first built-in call of a callback.
LEMMA CarriedBuiltin ==
  ASSUME IInv, NEW d \in Decodings, Builtin(d) PROVE Carried'
<1>1. /\ pc = "decode" /\ insn' = FillRuby(Decoded(InsnToC(insn, BlankC), d), insn)
      /\ last' = d /\ fills' = fills + 1 /\ vma' = vma /\ fills \in Nat
  BY DecodingAssumption DEF Builtin, IInv, TypeOK
<1> SUFFICES ASSUME fills = 0
             PROVE  /\ insn'.vma = vma % UIntSpan
                    /\ d.levels # {"basic"} =>
                         /\ insn'.category = d.category /\ insn'.flags = d.flags
                         /\ Len(insn'.ops) = Len(d.ops)
                         /\ \A i \in 1 .. Len(d.ops) : Alike(d.ops[i], insn'.ops[i])
                         /\ \A k \in Roles : d.role[k] # 0 => insn'.idx[k] = d.role[k]
  BY <1>1 DEF Carried
<1>2. PICK b : b = InsnToC(insn, BlankC) OBVIOUS
<1>3. PICK c : c = Decoded(b, d) OBVIOUS
<1>4. insn' = FillRuby(c, insn) BY <1>1, <1>2, <1>3
<1>5. /\ insn'.vma = Signed(c.vma) /\ insn'.category = c.category /\ insn'.flags = c.flags
      /\ insn'.ops = [i \in DOMAIN c.ops |-> OpFromC(c.ops[i])]
      /\ insn'.idx = [k \in Roles |-> IF c.role[k] # 0 THEN c.role[k] ELSE insn.idx[k]]
  BY <1>4 DEF FillRuby
<1>6. vma \in Vmas BY DecodingAssumption DEF IInv, TypeOK
<1>7. insn'.vma = vma % UIntSpan
  <2>0. SUFFICES c.vma = vma % UIntSpan
    <3>1. vma % UIntSpan \in 0 .. UIntSpan - 1 BY <1>6, Widths, Wrapped DEF Vmas
    <3> QED BY <1>5, <3>1, Positive
  <2>1. CASE d.levels = {"basic"}
    <3>1. b = [vma |-> b.vma, status |-> b.status, category |-> b.category,
               flags |-> b.flags, ops |-> b.ops, role |-> b.role]
      BY <1>2 DEF InsnToC
    <3>2. c.vma = HashVma(vma) BY <1>3, <2>1, <3>1 DEF Decoded
    <3> QED BY <1>6, <3>2, HashValue
  <2>2. CASE d.levels # {"basic"}
    <3>1. c.vma = HashVma(vma) BY <1>3, <2>2 DEF Decoded
    <3> QED BY <1>6, <3>1, HashValue
  <2> QED BY <2>1, <2>2
<1>8. ASSUME d.levels # {"basic"}
      PROVE  /\ insn'.category = d.category /\ insn'.flags = d.flags
             /\ Len(insn'.ops) = Len(d.ops)
             /\ \A i \in 1 .. Len(d.ops) : Alike(d.ops[i], insn'.ops[i])
             /\ \A k \in Roles : d.role[k] # 0 => insn'.idx[k] = d.role[k]
  <2>1. insn.ops = <<>> BY DEF IInv, Untouched
  <2>2. IsSeq(b.ops) /\ Len(b.ops) = 0 /\ DOMAIN b.ops = {}
    BY <1>2, <2>1, ToCFacts, EmptyOps DEF IInv
  <2>3. b.ops = <<>> BY <2>2, EmptySeq DEF IsSeq
  <2>4. IsSeq(d.ops) /\ (\A i \in DOMAIN d.ops : IsOperand(d.ops[i]))
        /\ \A k \in Roles : d.role[k] \in 0 .. Len(d.ops)
    BY DecodingAssumption DEF IsSeq
  <2>5. Len(d.ops) \in Nat /\ DOMAIN d.ops = 1 .. Len(d.ops) BY <2>4, SeqFacts
  <2>6. b.ops \o d.ops = d.ops
    <3>1. <<>> \o d.ops = d.ops BY <2>4, ConcatEmptySeq DEF IsSeq
    <3> QED BY <2>3, <3>1
  <2>r. PICK role : role = [k \in Roles |->
                             IF d.role[k] = 0 THEN b.role[k] ELSE Len(b.ops) + d.role[k]]
    OBVIOUS
  <2>7. c = [vma |-> HashVma(vma), status |-> b.status \cup d.levels,
             category |-> d.category, flags |-> d.flags, ops |-> d.ops, role |-> role]
    BY <1>3, <1>8, <2>6, <2>r DEF Decoded
  <2>8. c.category = d.category /\ c.flags = d.flags /\ c.ops = d.ops /\ c.role = role
    BY <2>7
  <2>9. ASSUME NEW k \in Roles, d.role[k] # 0 PROVE insn'.idx[k] = d.role[k]
    <3>1. d.role[k] \in Int BY <2>4, <2>5
    <3>2. role[k] = 0 + d.role[k] BY <2>2, <2>9, <2>r
    <3>3. c.role[k] = d.role[k] BY <2>8, <3>1, <3>2
    <3> QED BY <1>5, <2>9, <3>3
  <2>10. PICK n : n = Len(d.ops) OBVIOUS
  <2>11. PICK ops : ops = [i \in 1 .. n |-> OpFromC(d.ops[i])] OBVIOUS
  <2>12. insn'.ops = ops BY <1>5, <2>5, <2>8, <2>10, <2>11
  <2>13. Len(ops) = n
    <3>1. n \in Nat /\ DOMAIN ops = 1 .. n /\ ops = [i \in 1 .. n |-> ops[i]]
      BY <2>5, <2>10, <2>11
    <3> QED BY <3>1, MappedSeq
  <2>14. \A i \in 1 .. n : Alike(d.ops[i], ops[i])
    <3>1. \A i \in 1 .. n : IsOperand(d.ops[i]) BY <2>4, <2>5, <2>10
    <3>2. \A i \in 1 .. n : ops[i] = OpFromC(d.ops[i]) BY <2>11
    <3>3. \A i \in 1 .. n : Alike(d.ops[i], OpFromC(d.ops[i])) BY <3>1, MadeAlike
    <3> QED BY <3>2, <3>3
  <2> QED BY <1>5, <2>8, <2>9, <2>10, <2>12, <2>13, <2>14
<1> QED BY <1>5, <1>7, <1>8

LEMMA CarriedEdits ==
  ASSUME IInv, Carried,
         \/ \E i \in DOMAIN insn.ops : SetIndices(i) \/ SetValue(i)
         \/ \E e \in Edits : SetFlags(e)
         \/ ClearOperands
  PROVE  Carried'
<1>0. /\ insn = [vma |-> insn.vma, status |-> insn.status, category |-> insn.category,
                 flags |-> insn.flags, ops |-> insn.ops, idx |-> insn.idx]
      /\ IsSeq(insn.ops) /\ DOMAIN insn.ops = 1 .. Len(insn.ops) /\ Len(insn.ops) \in Nat
  BY SeqFacts DEF IInv, Shape
<1>1. ASSUME NEW i \in DOMAIN insn.ops, SetIndices(i) PROVE Carried'
  <2>1. /\ pc = "decode" /\ edited' = edited \cup {"indices"}
        /\ insn' = [insn EXCEPT !.idx = [k \in Roles |-> IF @[k] = Nil THEN i ELSE @[k]]]
        /\ pc' = pc /\ vma' = vma /\ last' = last /\ fills' = fills
    BY <1>1 DEF SetIndices, Edit, Rest
  <2>2. PICK idx : idx = [k \in Roles |-> IF insn.idx[k] = Nil THEN i ELSE insn.idx[k]] OBVIOUS
  <2>3. insn' = [vma |-> insn.vma, status |-> insn.status, category |-> insn.category,
                 flags |-> insn.flags, ops |-> insn.ops, idx |-> idx]
    BY <1>0, <2>1, <2>2
  <2>4. /\ insn'.vma = insn.vma /\ insn'.category = insn.category /\ insn'.flags = insn.flags
        /\ insn'.ops = insn.ops /\ insn'.idx = idx
    BY <2>3
  <2>5. last \in Decodings =>
          \A k \in Roles : last.role[k] # 0 /\ insn.idx[k] = last.role[k] => idx[k] = last.role[k]
    <3>1. SUFFICES ASSUME last \in Decodings, NEW k \in Roles, insn.idx[k] = last.role[k]
                   PROVE  idx[k] = last.role[k]
      OBVIOUS
    <3>2. last.role[k] \in 0 .. Len(last.ops) BY <3>1, DecodingAssumption
    <3>3. last.role[k] # Nil BY <3>2, InstructionAssumption
    <3> QED BY <2>2, <3>1, <3>3
  <2> QED BY <2>1, <2>4, <2>5 DEF Carried
<1>2. ASSUME NEW i \in DOMAIN insn.ops, SetValue(i) PROVE Carried'
  <2>1. /\ pc = "decode" /\ edited' = edited \cup {"value"}
        /\ insn.ops[i].cat = "immediate" /\ insn' = [insn EXCEPT !.ops[i].val.value = 1]
        /\ pc' = pc /\ vma' = vma /\ last' = last /\ fills' = fills
    BY <1>2 DEF SetValue, Edit, Rest
  <2>2. PICK ops : ops = [insn.ops EXCEPT ![i].val.value = 1] OBVIOUS
  <2>3. insn' = [vma |-> insn.vma, status |-> insn.status, category |-> insn.category,
                 flags |-> insn.flags, ops |-> ops, idx |-> insn.idx]
    BY <1>0, <2>1, <2>2
  <2>4. /\ insn'.vma = insn.vma /\ insn'.category = insn.category /\ insn'.flags = insn.flags
        /\ insn'.ops = ops /\ insn'.idx = insn.idx
    BY <2>3
  <2>5. Len(ops) = Len(insn.ops)
    <3>1. PICK n : n = Len(insn.ops) OBVIOUS
    <3>2. n \in Nat /\ DOMAIN ops = 1 .. n /\ ops = [j \in 1 .. n |-> ops[j]]
      BY <1>0, <2>2, <3>1
    <3> QED BY <3>1, <3>2, MappedSeq
  <2>6. ASSUME NEW o, Alike(o, insn.ops[i]) PROVE Alike(o, ops[i])
    <3>1. PICK p : p = insn.ops[i] OBVIOUS
    <3>2. PICK w : w = OpFromC(o).val OBVIOUS
    <3>3. PICK v : p = [cat |-> o.cat, flags |-> o.flags,
                        val |-> IF o.cat = "immediate" THEN [w EXCEPT !.value = v] ELSE w]
      BY <2>6, <3>1, <3>2 DEF Alike
    <3>4. o.cat = "immediate" BY <2>1, <3>1, <3>3
    <3>5. p = [cat |-> o.cat, flags |-> o.flags, val |-> [w EXCEPT !.value = v]]
      BY <3>3, <3>4
    <3>6. ops[i] = [p EXCEPT !.val.value = 1] BY <2>2, <3>1
    <3>7. ops[i] = [cat |-> o.cat, flags |-> o.flags, val |-> [w EXCEPT !.value = 1]]
      <4>1. [[w EXCEPT !.value = v] EXCEPT !.value = 1] = [w EXCEPT !.value = 1] OBVIOUS
      <4> QED BY <3>5, <3>6, <4>1
    <3> QED BY <3>2, <3>4, <3>7 DEF Alike
  <2>7. \A j \in 1 .. Len(insn.ops) : j # i => ops[j] = insn.ops[j] BY <1>0, <2>2
  <2>8. Len(insn.ops) = Len(last.ops) =>
          ((\A j \in 1 .. Len(last.ops) : Alike(last.ops[j], insn.ops[j])) =>
             \A j \in 1 .. Len(last.ops) : Alike(last.ops[j], ops[j]))
    BY <2>6, <2>7
  <2> QED BY <2>1, <2>4, <2>5, <2>8 DEF Carried, Left
<1>3. ASSUME NEW e \in Edits, SetFlags(e) PROVE Carried'
  BY <1>3 DEF SetFlags, Edit, Carried, Left
<1>4. CASE ClearOperands BY <1>4 DEF ClearOperands, Edit, Carried, Left
<1> QED BY <1>1, <1>2, <1>3, <1>4

LEMMA CarriedReturn ==
  ASSUME IInv, Carried, Return PROVE ArrivesAsDecoded'
<1>1. /\ pc = "decode" /\ Convertible(insn) /\ out' = InsnToC(insn, out)
      /\ vma' = vma /\ last' = last /\ fills' = fills /\ edited' = edited
  BY DEF Return, history
<1> SUFFICES ASSUME fills = 1, edited \subseteq Left
             PROVE  /\ out'.vma = vma % UIntSpan
                    /\ last.levels # {"basic"} =>
                         /\ out'.category = last.category /\ out'.flags = last.flags
                         /\ Len(out'.ops) = Len(last.ops)
                         /\ \A i \in DOMAIN last.ops : SameOperand(last.ops[i], out'.ops[i])
                         /\ \A k \in Roles : last.role[k] # 0 => out'.role[k] = last.role[k]
  BY <1>1 DEF ArrivesAsDecoded, Left
<1>2. PICK c : c = InsnToC(insn, out) OBVIOUS
<1>3. /\ c.category = insn.category /\ c.flags = insn.flags \cap FlagsOf[insn.category]
      /\ Len(c.ops) = Len(insn.ops) /\ Len(insn.ops) \in Nat
      /\ \A k \in Roles :
           c.role[k] = IF insn.idx[k] \in 1 .. Len(insn.ops) THEN insn.idx[k] ELSE out.role[k]
  BY <1>2, ToCFacts DEF IInv
<1>4. /\ c.vma = Unsigned(insn.vma) /\ c.ops = [i \in DOMAIN insn.ops |-> OpToC(insn.ops[i])]
  BY <1>2 DEF InsnToC
<1>5. last \in Decodings /\ insn.vma = vma % UIntSpan BY <1>1 DEF Carried
<1>6. c.vma = vma % UIntSpan
  <2>1. insn.vma \in 0 .. VmaSpan - 1 BY Widths DEF IInv, Shape
  <2>2. insn.vma % VmaSpan = insn.vma BY <2>1, Widths, Same
  <2> QED BY <1>4, <1>5, <2>2 DEF Unsigned
<1>7. ASSUME last.levels # {"basic"}
      PROVE  /\ c.category = last.category /\ c.flags = last.flags
             /\ Len(c.ops) = Len(last.ops)
             /\ \A i \in DOMAIN last.ops : SameOperand(last.ops[i], c.ops[i])
             /\ \A k \in Roles : last.role[k] # 0 => c.role[k] = last.role[k]
  <2>1. /\ insn.category = last.category /\ insn.flags = last.flags
        /\ Len(insn.ops) = Len(last.ops)
        /\ \A i \in 1 .. Len(last.ops) : Alike(last.ops[i], insn.ops[i])
        /\ \A k \in Roles : last.role[k] # 0 => insn.idx[k] = last.role[k]
    BY <1>1, <1>7 DEF Carried
  <2>2. /\ last.flags \subseteq FlagsOf[last.category] /\ IsSeq(last.ops)
        /\ (\A i \in DOMAIN last.ops : IsOperand(last.ops[i]))
        /\ \A k \in Roles : last.role[k] \in 0 .. Len(last.ops)
    BY <1>5, DecodingAssumption DEF IsSeq
  <2>3. DOMAIN last.ops = 1 .. Len(last.ops) /\ DOMAIN insn.ops = 1 .. Len(insn.ops)
    BY <2>2, SeqFacts DEF IInv, Shape
  <2>4. ASSUME NEW i \in DOMAIN last.ops PROVE SameOperand(last.ops[i], c.ops[i])
    <3>1. i \in 1 .. Len(last.ops) /\ i \in DOMAIN insn.ops BY <2>1, <2>3
    <3>2. Fine(insn.ops[i]) BY <1>1, <3>1 DEF Convertible
    <3>3. c.ops[i] = OpToC(insn.ops[i]) BY <1>4, <3>1
    <3>4. Alike(last.ops[i], insn.ops[i]) /\ IsOperand(last.ops[i]) BY <2>1, <2>2, <3>1
    <3>5. SameOperand(last.ops[i], OpToC(insn.ops[i])) BY <3>2, <3>4, OperandBack
    <3> QED BY <3>3, <3>5
  <2>5. \A k \in Roles : last.role[k] # 0 => c.role[k] = last.role[k]
    <3>1. PICK n : n = Len(insn.ops) OBVIOUS
    <3>2. n \in Nat /\ \A k \in Roles : last.role[k] \in 0 .. n BY <1>3, <2>1, <2>2, <3>1
    <3>3. \A k \in Roles : last.role[k] # 0 => last.role[k] \in 1 .. n BY <3>2
    <3> QED BY <1>3, <2>1, <3>1, <3>3
  <2> QED BY <1>3, <2>1, <2>2, <2>4, <2>5
<1> QED BY <1>1, <1>2, <1>6, <1>7

LEMMA CarriedStep ==
  ASSUME IInv, Carried, ArrivesAsDecoded, [Next]_vars PROVE Carried' /\ ArrivesAsDecoded'
<1>1. ASSUME NEW v \in Addresses, Decode(v) PROVE Carried' /\ ArrivesAsDecoded'
  BY <1>1 DEF Decode, Carried, ArrivesAsDecoded
<1>2. ASSUME NEW d \in Decodings, Builtin(d) PROVE Carried' /\ ArrivesAsDecoded'
  <2>1. pc' = "decode" BY <1>2 DEF Builtin
  <2> QED BY <1>2, <2>1, CarriedBuiltin DEF ArrivesAsDecoded
<1>3. ASSUME \/ \E i \in DOMAIN insn.ops : SetIndices(i) \/ SetValue(i)
             \/ \E e \in Edits : SetFlags(e)
             \/ ClearOperands
      PROVE  Carried' /\ ArrivesAsDecoded'
  <2>1. pc' = "decode"
    BY <1>3 DEF SetIndices, SetValue, SetFlags, ClearOperands, Edit, Rest
  <2> QED BY <1>3, <2>1, CarriedEdits DEF ArrivesAsDecoded
<1>4. CASE BuiltinFails
  <2>1. /\ pc = "decode" /\ pc' = pc /\ vma' = vma /\ insn' = insn /\ last' = last
        /\ fills' = fills /\ edited \subseteq edited'
    BY <1>4 DEF BuiltinFails
  <2> QED BY <2>1 DEF Carried, ArrivesAsDecoded
<1>5. CASE BuiltinRaises \/ ReturnRaises \/ Crash
  BY <1>5 DEF BuiltinRaises, ReturnRaises, Crash, Carried, ArrivesAsDecoded
<1>6. CASE Return
  <2>1. pc' # "decode" BY <1>6 DEF Return, Answers
  <2> QED BY <1>6, <2>1, CarriedReturn DEF Carried
<1>7. CASE UNCHANGED vars
  BY <1>7 DEF vars, history, Carried, ArrivesAsDecoded
<1> QED BY <1>1, <1>2, <1>3, <1>4, <1>5, <1>6, <1>7 DEF Next

\* What the decoder found reaches libopdis through the Ruby object and the program's
\* decode method, up to the numbers that conversion is known to change: for every
\* width, every operand and any number of operands.
THEOREM DecodedArrives == Spec => []ArrivesAsDecoded
<1>1. Init => Carried /\ ArrivesAsDecoded BY DEF Init, Carried, ArrivesAsDecoded
<1>2. IInv /\ Carried /\ ArrivesAsDecoded /\ [Next]_vars => (Carried /\ ArrivesAsDecoded)'
  BY CarriedStep
<1> QED BY <1>1, <1>2, Invariant, PTL DEF Spec
=============================================================================
