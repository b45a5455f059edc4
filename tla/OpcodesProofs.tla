--------------------------- MODULE OpcodesProofs ---------------------------
(***************************************************************************)
(* Theorems about OpcodesDisassembler, for every width of an unsigned int, *)
(* every set of calls and any number of them.                              *)
(***************************************************************************)
EXTENDS OpcodesDisassembler, TLAPS

\* What a call has to do with the object between its first and its last instruction.
Frame ==
  /\ pc = "idle" => call = NoCall /\ decoded = {} /\ ~again /\ fault = "none"
  /\ pc = "sweep" =>
       /\ call \in Calls /\ info.length = call.target.size /\ info.vma = BaseOf(call)
       /\ vma = (IF call.vma = Nil THEN BaseOf(call) ELSE call.vma)
       /\ length = LengthOf(call) /\ buffer = (IF Loaded(call.target) THEN "current" ELSE "none")
       /\ (alive \/ call.target.kind = "io") /\ raised < calls
       /\ (info.fn = NoFunction => ~BfdObject(call.target))
  /\ FaultsExplained

\* A sweep of whole instructions that starts within the buffer is ahead of what it has
\* decoded: the addition of a size does not wrap.
Ordered == ~Truncated /\ info.vma <= vma
Ahead ==
  pc = "sweep" /\ Ordered /\ call.op = "disasm" =>
    \A o \in decoded : o < vma - info.vma + pos

\* A plain sweep has decoded what lies behind it.
Swept ==
  pc = "sweep" /\ Plain =>
    pos <= call.target.size /\ Bytes(decoded) = 0 .. pos - 1

Types == TypeOK /\ Frame
IInv  == Types /\ Ahead /\ NeverTwice /\ BuffersAccounted /\ Swept

---------------------------------------------------------------------------
\* The numbers.
LEMMA Numbers ==
  /\ UIntSpan \in Nat \ {0, 1} /\ MaxCalls \in Nat
  /\ UInts = 0 .. UIntSpan - 1 /\ UInts \subseteq Nat /\ 0 \in UInts
<1>1. UIntSpan \in Nat \ {0, 1} /\ MaxCalls \in Nat BY OpcodesAssumption
<1> QED BY <1>1 DEF UInts

LEMMA Counters ==
  ASSUME TypeOK
  PROVE  /\ info.vma \in Nat /\ info.length \in Nat /\ vma \in Nat /\ pos \in Nat
         /\ pos \in UInts /\ length \in UInts /\ allocated \in Nat
         /\ calls \in 0 .. MaxCalls /\ raised \in 0 .. calls
BY Numbers DEF TypeOK

\* What the constants say of a call.
LEMMA CallTypes ==
  ASSUME NEW c \in Calls
  PROVE  /\ c \in Requests /\ c.target \in Targets /\ c.target.base \in Nat
         /\ c.target.size \in UInts /\ UIntSpan \in Nat /\ BaseOf(c) \in Nat
         /\ \A f \in Decoders, i \in 1 .. c.target.size :
              /\ c.target.sizes[f][i] \in {-1} \cup (Nat \ {0})
              /\ c.target.sizes[f][i] <= c.target.size - (i - 1)
<1>1. c \in Requests /\ c.target.size < UIntSpan /\ UIntSpan \in Nat
  BY OpcodesAssumption
<1>2. c.target \in Targets /\ c.buffer_vma \in Optional BY <1>1 DEF Requests
<1>3. /\ c.target.sizes \in [Decoders -> Seq({-1} \cup (Nat \ {0}))]
      /\ c.target.base \in Nat /\ c.target.size \in Nat
  BY <1>2 DEF Targets
<1>4. c.target.size \in UInts BY <1>1, <1>3 DEF UInts
<1>5. BaseOf(c) \in Nat BY <1>1, <1>2, <1>3 DEF BaseOf, Optional, UInts
<1>6. ASSUME NEW f \in Decoders, NEW i \in 1 .. c.target.size
      PROVE  /\ c.target.sizes[f][i] \in {-1} \cup (Nat \ {0})
             /\ c.target.sizes[f][i] <= c.target.size - (i - 1)
  <2> DEFINE z == c.target.sizes[f]
  <2>1. z \in Seq({-1} \cup (Nat \ {0})) BY <1>3
  <2>2. Len(z) = c.target.size /\ \A j \in DOMAIN z : z[j] <= Len(z) - (j - 1)
    BY OpcodesAssumption
  <2>3. i \in DOMAIN z /\ z[i] \in {-1} \cup (Nat \ {0}) BY <2>1, <2>2
  <2> QED BY <2>2, <2>3
<1> QED BY <1>1, <1>2, <1>3, <1>4, <1>5, <1>6

\* What is left of a length fits an unsigned int.
LEMMA LengthTypes == ASSUME NEW c \in Calls PROVE LengthOf(c) \in UInts
<1>1. c.target.size \in UInts /\ c.length \in Int \cup {Nil, Object}
  BY CallTypes DEF Requests
<1>2. UIntSpan \in Nat \ {0, 1} /\ Nil \notin Int /\ Object \notin Int /\ Nil # Object
  BY OpcodesAssumption
<1>3. CASE c.length = Nil
  <2>1. LengthOf(c) = c.target.size BY <1>2, <1>3 DEF LengthOf
  <2> QED BY <1>1, <2>1
<1>4. CASE c.length = Object
  <2>1. LengthOf(c) = 0 BY <1>2, <1>4 DEF LengthOf
  <2> QED BY <2>1, Numbers
<1>5. CASE c.length \in Int
  <2> DEFINE n == UIntSpan \div 2
  <2>1. n \in Nat \ {0} /\ n <= UIntSpan BY <1>2
  <2>2. c.length % n \in 0 .. n - 1 BY <1>5, <2>1
  <2>3. c.length % n \in UInts BY <1>2, <2>1, <2>2 DEF UInts
  <2>4. LengthOf(c) = c.length % n BY <1>2, <1>5 DEF LengthOf
  <2> QED BY <2>3, <2>4
<1> QED BY <1>1, <1>3, <1>4, <1>5

\* What a function answers within the buffer of a call.
LEMMA AnswerTypes ==
  ASSUME call \in Calls, NEW o \in 0 .. call.target.size - 1
  PROVE  /\ AnswerAt(o) \in {-1} \cup (Nat \ {0}) /\ AnswerAt(o) <= call.target.size - o
         /\ ~Truncated => AnswerAt(o) \in Nat \ {0}
<1>1. call.target.size \in Nat BY CallTypes, OpcodesAssumption DEF UInts
<1>2. o + 1 \in 1 .. call.target.size /\ (o + 1) - 1 = o BY <1>1
<1>3. CASE info.fn \in Decoders
  <2>1. /\ call.target.sizes[info.fn][o + 1] \in {-1} \cup (Nat \ {0})
        /\ call.target.sizes[info.fn][o + 1] <= call.target.size - ((o + 1) - 1)
    BY <1>2, <1>3, CallTypes
  <2>2. AnswerAt(o) = call.target.sizes[info.fn][o + 1] BY <1>3 DEF AnswerAt
  <2>3. ~Truncated => AnswerAt(o) # -1 BY <1>2, <1>3 DEF Truncated
  <2> QED BY <1>1, <1>2, <2>1, <2>2, <2>3
<1>4. CASE info.fn \notin Decoders
  <2>1. AnswerAt(o) = 1 BY <1>4 DEF AnswerAt
  <2> QED BY <1>1, <2>1
<1> QED BY <1>3, <1>4

LEMMA NoCallSize == NoCall.target.size = 0
BY DEF NoCall, NoTarget

\* Where disasm_insn looks is never below the buffer.
LEMMA OffsetOK ==
  ASSUME TypeOK PROVE Offset \in Nat /\ (info.vma <= vma => Offset = vma - info.vma + pos)
<1>1. info.vma \in Nat /\ vma \in Nat /\ pos \in Nat BY Counters
<1> QED BY <1>1 DEF Offset, Rebased

\* What a sum of unsigned ints is.
LEMMA Wrapped ==
  ASSUME NEW x \in Int, NEW n \in Nat \ {0}
  PROVE  x % n \in 0 .. n - 1 /\ (x \in 0 .. n - 1 => x % n = x)
OBVIOUS

---------------------------------------------------------------------------
\* A call that raises before its first instruction leaves the object idle.
LEMMA RaisesStep ==
  ASSUME IInv, NEW c \in Calls, LoadRaises(c) \/ ConfigRaises(c) \/ ArgumentRaises(c)
  PROVE  IInv'
<1>1. /\ pc = "idle" /\ calls < MaxCalls /\ calls' = calls + 1 /\ raised' = raised + 1
      /\ allocated' \in {allocated, allocated + 1} /\ UNCHANGED <<pc, work, fault>>
  BY DEF LoadRaises, ConfigRaises, ArgumentRaises, Callable
<1>2. info' \in [vma: Nat, length: UInts, fn: Functions] /\ buffer' \in {"none", "current", "old"}
  <2>0. info \in [vma: Nat, length: UInts, fn: Functions] /\ buffer \in {"none", "current", "old"}
    BY DEF IInv, Types, TypeOK
  <2>1. CASE LoadRaises(c) BY <2>0, <2>1 DEF LoadRaises
  <2>2. CASE ConfigRaises(c)
    <3>1. 0 \in UInts BY OpcodesAssumption DEF UInts
    <3> QED BY <2>0, <2>2, <3>1 DEF ConfigRaises
  <2>3. CASE ArgumentRaises(c)
    <3>1. FnAfter(c.target) \in Functions
      <4>1. c.target.bfd \in Bfds BY CallTypes DEF Targets
      <4>2. info.fn \in Functions BY <2>0
      <4> QED BY <4>1, <4>2, OpcodesAssumption DEF FnAfter
    <3>2. Configured(c) \in [vma: Nat, length: UInts, fn: Functions]
      BY <3>1, CallTypes DEF Configured
    <3> QED BY <2>3, <3>2 DEF ArgumentRaises
  <2> QED BY <2>1, <2>2, <2>3
<1>3. TypeOK'
  <2>1. calls' \in 0 .. MaxCalls /\ raised' \in 0 .. calls' /\ allocated' \in Nat
    BY <1>1, Counters, Numbers DEF IInv, Types
  <2> QED BY <1>1, <1>2, <2>1 DEF IInv, Types, TypeOK, work
<1>4. Frame'
  <2>1. pc' = "idle" /\ call' = call /\ decoded' = decoded /\ again' = again /\ fault' = fault
    BY <1>1 DEF work
  <2>2. FaultsExplained' BY <2>1 DEF IInv, Types, Frame, FaultsExplained
  <2> QED BY <1>1, <2>1, <2>2 DEF IInv, Types, Frame
<1>5. Ahead' /\ Swept' /\ NeverTwice'
  BY <1>1 DEF IInv, Types, Frame, Ahead, Swept, NeverTwice, work
<1>6. BuffersAccounted'
  <2>1. BuffersAccounted /\ allocated \in Nat /\ raised \in Nat BY Counters DEF IInv, Types
  <2>2. pc # "sweep" /\ pc' # "sweep" BY <1>1
  <2> QED BY <1>1, <2>1, <2>2 DEF BuffersAccounted
<1> QED BY <1>3, <1>4, <1>5, <1>6 DEF IInv, Types

\* Everything up to the first instruction.
LEMMA BeginStep ==
  ASSUME IInv, NEW c \in Calls, Begin(c) PROVE IInv'
<1>1. /\ pc = "idle" /\ calls < MaxCalls /\ calls' = calls + 1
      /\ allocated' = (IF Mallocs(c.target) THEN allocated + 1 ELSE allocated)
      /\ info' = Configured(c) /\ buffer' = (IF Loaded(c.target) THEN "current" ELSE "none")
      /\ pc' = "sweep" /\ call' = c
      /\ vma' = (IF c.vma = Nil THEN BaseOf(c) ELSE c.vma)
      /\ length' = LengthOf(c)
      /\ pos' = 0 /\ alive' = TRUE /\ decoded' = {} /\ again' = FALSE
      /\ fault' = (IF LengthCrashes(c) THEN "length" ELSE "none") /\ UNCHANGED raised
  BY DEF Begin, Callable
<1>2. /\ c.vma \in Optional /\ LengthOf(c) \in UInts /\ c.target.size \in UInts
      /\ BaseOf(c) \in Nat /\ c.target.bfd \in Bfds
  BY CallTypes, LengthTypes DEF Requests, Targets
<1>3. info' \in [vma: Nat, length: UInts, fn: Functions]
  <2>1. FnAfter(c.target) \in Functions
    <3>1. info.fn \in Functions BY DEF IInv, Types, TypeOK
    <3> QED BY <1>2, <3>1, OpcodesAssumption DEF FnAfter
  <2> QED BY <1>1, <1>2, <2>1 DEF Configured
<1>4. TypeOK'
  <2>1. calls' \in 0 .. MaxCalls /\ raised' \in 0 .. calls' /\ allocated' \in Nat
    BY <1>1, Counters, Numbers DEF IInv, Types
  <2>2. vma' \in Nat /\ length' \in UInts /\ pos' \in UInts
    BY <1>1, <1>2, OpcodesAssumption DEF Optional, UInts
  <2> QED BY <1>1, <1>3, <2>1, <2>2 DEF TypeOK
<1>5. Frame'
  <2>1. info'.length = c.target.size /\ info'.vma = BaseOf(c) BY <1>1 DEF Configured
  <2>2. BaseOf(call)' = BaseOf(c) /\ LengthOf(call)' = LengthOf(c)
    BY <1>1 DEF BaseOf, LengthOf
  <2>3. call'.target.size = c.target.size BY <1>1
  <2>4. raised' < calls' BY <1>1, Counters, Numbers DEF IInv, Types
  <2>5. Loaded(call.target)' = Loaded(c.target) BY <1>1 DEF Loaded
  <2>6. FaultsExplained' BY <1>1 DEF FaultsExplained, LengthCrashes
  <2>7. info'.fn = NoFunction => ~BfdObject(call'.target)
    <3>1. FnForBfd[c.target.bfd] # NoFunction BY <1>2, OpcodesAssumption
    <3>2. info'.fn = FnAfter(c.target) BY <1>1 DEF Configured
    <3> QED BY <1>1, <3>1, <3>2 DEF FnAfter
  <2> QED BY <1>1, <2>1, <2>2, <2>3, <2>4, <2>5, <2>6, <2>7 DEF Frame
<1>6. Ahead' /\ NeverTwice' BY <1>1 DEF Ahead, NeverTwice
<1>7. Swept'
  <2>2. c.target.size \in Nat BY <1>2, OpcodesAssumption DEF UInts
  <2>3. Bytes(decoded)' = {} BY <1>1 DEF Bytes
  <2> QED BY <1>1, <2>2, <2>3 DEF Swept
<1>8. BuffersAccounted'
  <2>1. BuffersAccounted /\ allocated \in Nat /\ raised \in Nat BY Counters DEF IInv, Types
  <2>2. pc # "sweep" /\ Mallocs(call.target)' = Mallocs(c.target) BY <1>1 DEF Mallocs, BfdObject
  <2> QED BY <1>1, <2>1, <2>2 DEF BuffersAccounted
<1> QED BY <1>4, <1>5, <1>6, <1>7, <1>8 DEF IInv, Types

\* The collector.
LEMMA CollectStep == ASSUME IInv, Collect PROVE IInv'
<1>1. /\ fault = "none" /\ pc = "sweep" /\ call.target.kind = "io" /\ alive' = FALSE
      /\ UNCHANGED <<info, buffer, pc, call, vma, length, pos, decoded, again, allocated, calls,
                     raised, fault>>
  BY DEF Collect
<1>2. TypeOK' BY <1>1 DEF IInv, Types, TypeOK
<1>3. Frame' BY <1>1 DEF IInv, Types, Frame, FaultsExplained, BaseOf, LengthOf, Loaded
<1>4. Ahead' /\ NeverTwice' /\ Swept' /\ BuffersAccounted'
  BY <1>1 DEF IInv, Ahead, Ordered, NeverTwice, Swept, BuffersAccounted, Bytes, Truncated,
            Plain, AnswerAt
<1> QED BY <1>2, <1>3, <1>4 DEF IInv, Types

\* The end of a call, by return or exception.
LEMMA LeaveStep == ASSUME IInv, Exceeds \/ Return PROVE IInv'
<1>1. /\ pc = "sweep" /\ fault = "none" /\ Leave /\ UNCHANGED <<info, calls, fault>>
      /\ \/ raised' = raised + 1 /\ allocated' = allocated
         \/ raised' = raised /\ allocated' = IF Mallocs(call.target) THEN allocated - 1 ELSE allocated
  BY DEF Exceeds, Return
<1>2. /\ pc' = "idle" /\ call' = NoCall /\ vma' = 0 /\ length' = 0 /\ pos' = 0
      /\ alive' = FALSE /\ decoded' = {} /\ again' = FALSE /\ buffer' \in {"none", "old"}
  BY <1>1 DEF Leave
<1>3. raised' \in 0 .. calls' /\ allocated' \in Nat
  BY <1>1 DEF IInv, Types, TypeOK, Frame, BuffersAccounted
<1>4. TypeOK'
  <2>1. 0 \in UInts BY OpcodesAssumption DEF UInts
  <2> QED BY <1>1, <1>2, <1>3, <2>1 DEF IInv, Types, TypeOK
<1>5. Frame' BY <1>1, <1>2 DEF Frame, FaultsExplained
<1>6. Ahead' /\ NeverTwice' /\ Swept' BY <1>2 DEF Ahead, NeverTwice, Swept
<1>7. BuffersAccounted'
  BY <1>1, <1>2 DEF IInv, Types, TypeOK, BuffersAccounted
<1> QED BY <1>4, <1>5, <1>6, <1>7 DEF IInv, Types

\* One instruction.
LEMMA DecodeStep == ASSUME IInv, Decode PROVE IInv'
<1> DEFINE p == IF call.op = "disasm" THEN (pos + Answer) % UIntSpan ELSE pos
<1>1. /\ fault = "none" /\ pc = "sweep" /\ More /\ Offset < info.length /\ pos' = p
      /\ again' = (again \/ Offset \in decoded) /\ decoded' = decoded \cup {Offset}
      /\ UNCHANGED <<info, buffer, pc, call, vma, length, alive, allocated, calls, raised, fault>>
  BY DEF Decode, Consume
<1>2. /\ call \in Calls /\ info.length = call.target.size /\ info.vma = BaseOf(call)
      /\ vma = (IF call.vma = Nil THEN BaseOf(call) ELSE call.vma)
  BY <1>1 DEF IInv, Types, Frame
<1>3. /\ pos \in UInts /\ vma \in Nat /\ info.vma \in Nat /\ decoded \subseteq 0 .. call.target.size - 1
      /\ call.target.size \in Nat /\ call.target.size < UIntSpan /\ UIntSpan \in Nat \ {0}
      /\ UInts = 0 .. UIntSpan - 1
  <2>1. TypeOK /\ call.target.size \in UInts BY <1>2, CallTypes DEF IInv, Types
  <2>2. decoded \subseteq 0 .. call.target.size - 1 BY <2>1 DEF TypeOK
  <2>3. vma \in Nat /\ info.vma \in Nat /\ pos \in UInts BY <2>1, Counters
  <2> QED BY <2>1, <2>2, <2>3, Numbers
<1>4. PICK o \in 0 .. call.target.size - 1 : o = Offset
  BY <1>1, <1>2, <1>3, OffsetOK DEF IInv, Types
<1>5. PICK a \in {-1} \cup (Nat \ {0}) : a = Answer /\ a <= call.target.size - o
  BY <1>2, <1>4, AnswerTypes DEF Answer
<1>6. p \in UInts
  <2>1. pos + a \in Int /\ UIntSpan \in Nat \ {0} BY <1>3, <1>5
  <2>2. (pos + a) % UIntSpan \in 0 .. UIntSpan - 1 BY <2>1, Wrapped
  <2> QED BY <1>3, <1>5, <2>2
<1>7. ASSUME call.op = "disasm", ~Truncated, info.vma <= vma
      PROVE  /\ p = pos + a /\ a > 0 /\ o = vma - info.vma + pos
             /\ \A x \in decoded : x < o
  <2>1. o = vma - info.vma + pos BY <1>4, <1>7, OffsetOK DEF IInv, Types
  <2>2. a > 0 BY <1>2, <1>4, <1>5, <1>7, AnswerTypes DEF Answer
  <2>3. pos + a \in 0 .. UIntSpan - 1 BY <1>3, <1>5, <1>7, <2>1, <2>2
  <2>4. (pos + a) % UIntSpan = pos + a
    <3>1. pos + a \in Int /\ UIntSpan \in Nat \ {0} BY <1>3, <1>5
    <3> QED BY <2>3, <3>1, Wrapped
  <2>5. \A x \in decoded : x < o BY <1>1, <1>7, <2>1 DEF IInv, Ahead, Ordered
  <2> QED BY <1>5, <1>7, <2>1, <2>2, <2>4, <2>5
<1> HIDE DEF p
<1>8. TypeOK'
  <2>1. decoded' \subseteq 0 .. call'.target.size - 1 BY <1>1, <1>3, <1>4
  <2>2. again' \in BOOLEAN BY <1>1 DEF IInv, Types, TypeOK
  <2> QED BY <1>1, <1>6, <2>1, <2>2 DEF IInv, Types, TypeOK
<1>9. Frame' BY <1>1 DEF IInv, Types, Frame, FaultsExplained, BaseOf, LengthOf, Loaded
<1>a. Truncated' = Truncated /\ Plain' = Plain BY <1>1 DEF Truncated, Plain, AnswerAt
<1>10. Ahead'
  <2>1. SUFFICES ASSUME Ordered', call'.op = "disasm", NEW x \in decoded'
                 PROVE  x < vma' - info'.vma + pos'
    BY DEF Ahead
  <2>2. ~Truncated /\ info.vma <= vma /\ call.op = "disasm"
    BY <1>1, <1>a, <2>1 DEF Ordered
  <2>3. p = pos + a /\ a > 0 /\ o = vma - info.vma + pos /\ \A y \in decoded : y < o
    BY <1>7, <2>2
  <2>4. x \in Int /\ x <= o BY <1>1, <1>3, <1>4, <2>1, <2>3
  <2> QED BY <1>1, <1>3, <1>4, <1>5, <2>3, <2>4
<1>11. NeverTwice'
  <2>1. SUFFICES ASSUME again', ~Truncated, ~(call.vma # Nil /\ call.vma < info.vma)
                 PROVE  FALSE
    BY <1>1, <1>a DEF NeverTwice
  <2>2. ~again BY <2>1 DEF IInv, NeverTwice
  <2>3. o \in decoded BY <1>1, <1>4, <2>1, <2>2
  <2>4. call.op = "disasm" BY <1>1, <2>3 DEF More
  <2>5. info.vma <= vma BY <1>2, <1>3, <2>1
  <2> QED BY <1>4, <1>7, <2>1, <2>3, <2>4, <2>5
<1>12. Swept'
  <2>1. SUFFICES ASSUME Plain
                 PROVE  p <= call.target.size /\ Bytes(decoded)' = 0 .. p - 1
    BY <1>1, <1>a DEF Swept
  <2>2. call.op = "disasm" /\ ~Truncated /\ vma = info.vma BY <1>2, <2>1 DEF Plain
  <2>3. p = pos + a /\ a > 0 /\ o = pos BY <1>3, <1>7, <2>2
  <2>4. Bytes(decoded) = 0 .. pos - 1 BY <1>1, <2>1 DEF IInv, Swept
  <2>5. Bytes(decoded)' = Bytes(decoded) \cup (o .. o + a - 1)
    BY <1>1, <1>4, <1>5 DEF Bytes, Answer, AnswerAt
  <2>6. 0 .. p - 1 = (0 .. pos - 1) \cup (pos .. pos + a - 1) BY <1>3, <1>5, <2>3
  <2> QED BY <1>3, <1>4, <1>5, <2>3, <2>4, <2>5, <2>6
<1>13. BuffersAccounted' BY <1>1 DEF IInv, BuffersAccounted
<1> QED BY <1>8, <1>9, <1>10, <1>11, <1>12, <1>13 DEF IInv, Types

\* No function to call, a buffer that was not loaded, or a string of IO#read that has been
\* freed.
LEMMA CrashStep == ASSUME IInv, DecodeCrashes PROVE IInv'
<1>1. /\ pc = "sweep" /\ (info.fn = NoFunction \/ ~Readable)
      /\ fault' = (IF info.fn = NoFunction THEN "no function"
                   ELSE IF buffer = "none" THEN "no buffer" ELSE "freed")
      /\ UNCHANGED <<info, buffer, pc, work, allocated, calls, raised>>
  BY DEF DecodeCrashes
<1>2. FaultsExplained'
  <2>1. info.fn = NoFunction => ~BfdObject(call.target) BY <1>1 DEF IInv, Types, Frame
  <2>2. buffer = (IF Loaded(call.target) THEN "current" ELSE "none")
        /\ (alive \/ call.target.kind = "io")
    BY <1>1 DEF IInv, Types, Frame
  <2>3. call' = call BY <1>1 DEF work
  <2> QED BY <1>1, <2>1, <2>2, <2>3 DEF FaultsExplained, Readable, Loaded, BfdObject
<1>3. TypeOK' BY <1>1 DEF IInv, Types, TypeOK, work
<1>4. Frame' BY <1>1, <1>2 DEF IInv, Types, Frame, FaultsExplained, BaseOf, LengthOf, Loaded, work
<1>5. Ahead' /\ NeverTwice' /\ Swept' /\ BuffersAccounted'
  BY <1>1 DEF IInv, Ahead, Ordered, NeverTwice, Swept, BuffersAccounted, Bytes, Truncated,
            Plain, AnswerAt, work
<1> QED BY <1>3, <1>4, <1>5 DEF IInv, Types

---------------------------------------------------------------------------
LEMMA Initially == Init => IInv
<1> SUFFICES ASSUME Init PROVE IInv OBVIOUS
<1>1. TypeOK
  <2>1. 0 \in UInts /\ Initials \subseteq Functions /\ MaxCalls \in Nat BY OpcodesAssumption DEF UInts
  <2>2. info \in [vma: Nat, length: UInts, fn: Functions] BY <2>1 DEF Init
  <2>3. calls \in 0 .. MaxCalls /\ raised \in 0 .. calls /\ allocated \in Nat BY <2>1 DEF Init
  <2> QED BY <2>1, <2>2, <2>3 DEF Init, TypeOK
<1>2. Frame /\ Ahead /\ NeverTwice /\ Swept /\ BuffersAccounted
  BY DEF Init, Frame, FaultsExplained, Ahead, NeverTwice, Swept, BuffersAccounted
<1> QED BY <1>1, <1>2 DEF IInv, Types

LEMMA Inductive == IInv /\ [Next]_vars => IInv'
<1> SUFFICES ASSUME IInv, [Next]_vars PROVE IInv' OBVIOUS
<1>1. ASSUME NEW c \in Calls, LoadRaises(c) \/ ConfigRaises(c) \/ ArgumentRaises(c) PROVE IInv'
  BY <1>1, RaisesStep
<1>2. ASSUME NEW c \in Calls, Begin(c) PROVE IInv' BY <1>2, BeginStep
<1>3. CASE Collect BY <1>3, CollectStep
<1>4. CASE Exceeds \/ Return BY <1>4, LeaveStep
<1>5. CASE Decode BY <1>5, DecodeStep
<1>6. CASE DecodeCrashes BY <1>6, CrashStep
<1>7. CASE UNCHANGED vars
  <2>1. UNCHANGED <<info, buffer, pc, work, allocated, calls, raised, fault>> BY <1>7 DEF vars
  <2>2. TypeOK' BY <2>1 DEF IInv, Types, TypeOK, work
  <2>3. Frame' BY <2>1 DEF IInv, Types, Frame, FaultsExplained, BaseOf, LengthOf, Loaded, work
  <2>4. Ahead' /\ NeverTwice' /\ Swept' /\ BuffersAccounted'
    BY <2>1 DEF IInv, Ahead, Ordered, NeverTwice, Swept, BuffersAccounted, Bytes, Truncated,
            Plain, AnswerAt, work
  <2> QED BY <2>2, <2>3, <2>4 DEF IInv, Types
<1> QED BY <1>1, <1>2, <1>3, <1>4, <1>5, <1>6, <1>7 DEF Next, Run

LEMMA Invariant == Spec => []IInv
BY Initially, Inductive, PTL DEF Spec

\* The types: in particular the position stays an unsigned int and no offset outside the
\* buffer is decoded (disasm_insn).
THEOREM TypeCorrect == Spec => []TypeOK
<1>1. IInv => TypeOK BY DEF IInv, Types
<1> QED BY <1>1, Invariant, PTL

\* A sweep of whole instructions decodes no offset twice: the position does not wrap
\* (disasm_buffer).
THEOREM NothingTwice == Spec => []NeverTwice
<1>1. IInv => NeverTwice BY DEF IInv
<1> QED BY <1>1, Invariant, PTL

\* The process crashes only for a length that is an object, an object without a function,
\* a section that was not loaded, or a string of IO#read (load_target, cls_disasm_dis).
THEOREM CrashesExplained == Spec => []FaultsExplained
<1>1. IInv => FaultsExplained BY DEF IInv, Types, Frame
<1> QED BY <1>1, Invariant, PTL

\* Buffers are freed once, and lost only to exceptions (load_target, unload_target).
THEOREM BuffersCounted == Spec => []BuffersAccounted
<1>1. IInv => BuffersAccounted BY DEF IInv
<1> QED BY <1>1, Invariant, PTL

\* A plain sweep returns when every byte has been covered, and does not raise.
THEOREM PlainSweepComplete == Spec => AllBytes
<1>1. IInv /\ [Next]_vars =>
        [(pc = "sweep" /\ Plain /\ pc' = "idle") =>
           raised' = raised /\ Bytes(decoded) = 0 .. call.target.size - 1]_vars
  <2>1. SUFFICES ASSUME IInv, Next, pc = "sweep", Plain, pc' = "idle"
                 PROVE  raised' = raised /\ Bytes(decoded) = 0 .. call.target.size - 1
    OBVIOUS
  <2>a. /\ call \in Calls /\ call.op = "disasm" /\ vma = info.vma /\ length = call.target.size
        /\ info.length = call.target.size
    <3>1. /\ call \in Calls /\ info.length = call.target.size /\ info.vma = BaseOf(call)
          /\ vma = (IF call.vma = Nil THEN BaseOf(call) ELSE call.vma) /\ length = LengthOf(call)
      BY <2>1 DEF IInv, Types, Frame
    <3>2. call.op = "disasm" /\ call.vma = Nil /\ call.length = Nil BY <2>1 DEF Plain
    <3>3. LengthOf(call) = call.target.size BY <3>2, OpcodesAssumption DEF LengthOf
    <3> QED BY <3>1, <3>2, <3>3
  <2>b. pos <= call.target.size /\ Bytes(decoded) = 0 .. pos - 1
    BY <2>1 DEF IInv, Swept
  <2>c. pos \in UInts /\ info.vma \in Nat BY <2>1 DEF IInv, Types, TypeOK
  <2>d. call.target.size \in UInts BY <2>a, CallTypes
  <2>2. /\ call.op = "disasm" /\ vma = info.vma /\ length = call.target.size
        /\ info.length = call.target.size /\ call.target.size \in Nat /\ pos \in Nat
        /\ pos <= call.target.size /\ Bytes(decoded) = 0 .. pos - 1
    BY <2>a, <2>b, <2>c, <2>d, OpcodesAssumption DEF UInts
  <2>3. Exceeds \/ Return
    <3>1. pc # "idle" /\ pc # pc' BY <2>1
    <3> QED BY <2>1, <3>1
        DEF Next, Run, LoadRaises, ConfigRaises, ArgumentRaises, Begin, Callable, Collect, Decode,
            Consume, DecodeCrashes, work
  <2>4. Offset = pos BY <2>1, <2>2, <2>c, OffsetOK DEF IInv, Types
  <2>5. ~Exceeds BY <2>2, <2>4 DEF Exceeds, More
  <2>6. Return BY <2>3, <2>5
  <2>7. raised' = raised /\ pos >= call.target.size BY <2>2, <2>6 DEF Return, More
  <2> QED BY <2>2, <2>7
<1> QED BY <1>1, Invariant, PTL DEF AllBytes, Spec

---------------------------------------------------------------------------
(* Progress.                                                               *)

\* A sweep from an offset does not reach the buffer's own address if the buffer ends
\* before it.
Below ==
  pc = "sweep" /\ call.op = "disasm" /\ ~Truncated
  /\ vma < info.vma /\ info.length < info.vma =>
    vma + pos < info.vma

\* How far a call is from its end.
Rank == IF call.op = "disasm" THEN UIntSpan - pos ELSE IF decoded = {} THEN 1 ELSE 0

\* Each instruction brings a sweep over whole instructions nearer to its end, and the
\* collector does not change it.
Closer ==
  pc = "sweep" /\ ~Truncated /\ Counted =>
    \/ pc' = "idle" \/ fault' # "none"
    \/ /\ UNCHANGED <<pc, call, info, vma, length>>
       /\ Rank \in Nat /\ Rank' \in Nat
       /\ IF Run THEN Rank' < Rank ELSE Rank' = Rank

LEMMA NoWrap ==
  ASSUME NEW x \in Nat, NEW y \in Nat, NEW n \in Nat, x + y \in 0 .. n - 1
  PROVE  (x + y) % n = x + y
OBVIOUS

LEMMA Nearer ==
  ASSUME NEW x \in Nat, NEW y \in Nat, NEW n \in Nat, x < y, y < n
  PROVE  n - y \in Nat /\ n - y < n - x
OBVIOUS

\* One instruction of a sweep over whole instructions: its size is added to the position
\* as it is.
LEMMA Forward ==
  ASSUME IInv, Below, Decode, call.op = "disasm", ~Truncated, Counted
  PROVE  /\ pos \in Nat /\ pos' \in Nat /\ pos < pos' /\ pos' < UIntSpan
         /\ vma < info.vma /\ info.length < info.vma => vma + pos' < info.vma
<1>1. /\ pc = "sweep" /\ More /\ Offset < info.length
      /\ pos' = (pos + Answer) % UIntSpan /\ UNCHANGED <<info, call, vma, length>>
  BY DEF Decode, Consume
<1>2. call \in Calls /\ info.length = call.target.size BY <1>1 DEF IInv, Types, Frame
<1>3. /\ pos \in 0 .. UIntSpan - 1 /\ vma \in Nat /\ info.vma \in Nat
      /\ call.target.size \in Nat /\ call.target.size < UIntSpan /\ UIntSpan \in Nat \ {0}
  <2>1. TypeOK /\ call.target.size \in UInts BY <1>2, CallTypes DEF IInv, Types
  <2>2. decoded \subseteq 0 .. call.target.size - 1 BY <2>1 DEF TypeOK
  <2>3. vma \in Nat /\ info.vma \in Nat /\ pos \in UInts BY <2>1, Counters
  <2> QED BY <2>1, <2>2, <2>3, Numbers
<1>4. PICK o \in 0 .. call.target.size - 1 : o = Offset
  BY <1>1, <1>2, <1>3, OffsetOK DEF IInv, Types
<1>5. PICK a \in Nat \ {0} : a = Answer /\ a <= call.target.size - o
  BY <1>2, <1>4, AnswerTypes DEF Answer
<1>6. CASE info.vma <= vma
  <2>1. o = (vma - info.vma) + pos BY <1>4, <1>6, OffsetOK DEF IInv, Types
  <2>2. pos + a \in 0 .. UIntSpan - 1 BY <1>3, <1>4, <1>5, <1>6, <2>1
  <2>3. (pos + a) % UIntSpan = pos + a BY <1>3, <1>5, <2>2, NoWrap
  <2> QED BY <1>1, <1>3, <1>5, <1>6, <2>2, <2>3
<1>7. CASE vma + pos < info.vma
  <2>1. o = vma + pos BY <1>3, <1>4, <1>7 DEF Offset, Rebased
  <2>2. pos + a \in 0 .. UIntSpan - 1 BY <1>3, <1>4, <1>5, <2>1
  <2>3. (pos + a) % UIntSpan = pos + a BY <1>3, <1>5, <2>2, NoWrap
  <2>4. vma + (pos + a) <= call.target.size BY <1>3, <1>4, <1>5, <2>1
  <2> QED BY <1>1, <1>2, <1>3, <1>5, <2>2, <2>3, <2>4
<1>8. CASE vma < info.vma /\ ~(vma + pos < info.vma)
  <2>1. o = vma + pos - info.vma BY <1>3, <1>4, <1>8 DEF Offset, Rebased
  <2>2. info.vma <= info.length BY <1>1, <1>2, <1>3, <1>8 DEF Below
  <2>3. call.target.size + (info.vma - vma) < UIntSpan BY <1>2, <1>8, <2>2 DEF Counted
  <2>4. pos + a \in 0 .. UIntSpan - 1 BY <1>3, <1>4, <1>5, <2>1, <2>3
  <2>5. (pos + a) % UIntSpan = pos + a BY <1>3, <1>5, <2>4, NoWrap
  <2> QED BY <1>1, <1>2, <1>3, <1>5, <2>2, <2>4, <2>5
<1> QED BY <1>3, <1>6, <1>7, <1>8

LEMMA BelowStep == IInv /\ Below /\ [Next]_vars => Below'
<1> SUFFICES ASSUME IInv, Below, [Next]_vars PROVE Below' OBVIOUS
<1>1. ASSUME NEW c \in Calls, LoadRaises(c) \/ ConfigRaises(c) \/ ArgumentRaises(c)
      PROVE  pc' # "sweep"
  BY <1>1 DEF LoadRaises, ConfigRaises, ArgumentRaises, Callable
<1>2. ASSUME NEW c \in Calls, Begin(c) PROVE Below'
  <2>1. pos' = 0 BY <1>2 DEF Begin
  <2>2. IInv' BY <1>2, BeginStep
  <2>3. vma' \in Nat BY <2>2 DEF IInv, Types, TypeOK
  <2> QED BY <2>1, <2>3 DEF Below
<1>3. CASE Exceeds \/ Return BY <1>3 DEF Exceeds, Return, Leave, Below
<1>4. CASE Collect \/ DecodeCrashes \/ UNCHANGED vars
  <2>1. UNCHANGED <<info, pc, call, vma, pos>> BY <1>4 DEF Collect, DecodeCrashes, vars, work
  <2>2. Truncated' = Truncated BY <2>1 DEF Truncated, AnswerAt
  <2> QED BY <2>1, <2>2 DEF Below
<1>5. CASE Decode
  <2>1. pc = "sweep" /\ UNCHANGED <<info, pc, call, vma>> BY <1>5 DEF Decode, Consume
  <2>2. SUFFICES ASSUME call.op = "disasm", ~Truncated, vma < info.vma,
                        info.length < info.vma
                 PROVE  vma + pos' < info.vma
    <3>1. Truncated' = Truncated BY <2>1 DEF Truncated, AnswerAt
    <3> QED BY <2>1, <3>1 DEF Below
  <2>3. info.vma \in Int /\ info.length \in Int BY Counters DEF IInv, Types
  <2>4. Counted BY <2>2, <2>3 DEF Counted
  <2> QED BY <1>5, <2>2, <2>4, Forward
<1> QED BY <1>1, <1>2, <1>3, <1>4, <1>5 DEF Next, Run, Below

\* What makes a sweep end (cls_disasm_dis): each instruction of a sweep whose positions
\* an unsigned int can count moves the position forward and never past UINT_MAX, wherever
\* the sweep was told to start and whatever the address of its buffer.
THEOREM EveryInstructionCloser == Spec => [][Closer]_vars
<1>1. Init => Below BY DEF Init, Below
<1>2. IInv /\ Below /\ [Next]_vars => [Closer]_vars
  <2> SUFFICES ASSUME IInv, Below, Next, pc = "sweep", ~Truncated, Counted
               PROVE  Closer
    BY DEF Closer
  <2>1. pos \in Nat /\ pos < UIntSpan /\ UIntSpan \in Nat BY Counters, Numbers DEF IInv, Types
  <2>2. Rank \in Nat BY <2>1 DEF Rank
  <2>3. ~\E c \in Calls : LoadRaises(c) \/ ConfigRaises(c) \/ ArgumentRaises(c) \/ Begin(c)
    BY DEF LoadRaises, ConfigRaises, ArgumentRaises, Begin, Callable
  <2>4. CASE Exceeds \/ Return BY <2>4 DEF Exceeds, Return, Leave, Closer
  <2>5. CASE DecodeCrashes BY <2>5 DEF DecodeCrashes, Closer
  <2>6. CASE Decode
    <3>1. UNCHANGED <<pc, call, info, vma, length>> /\ More /\ decoded' # {}
      BY <2>6 DEF Decode, Consume
    <3>2. CASE call.op = "disasm"
      <4>1. pos' \in Nat /\ pos < pos' /\ pos' < UIntSpan BY <2>6, <3>2, Forward
      <4>2. UIntSpan - pos' \in Nat /\ UIntSpan - pos' < UIntSpan - pos
        BY <2>1, <4>1, Nearer
      <4>3. Rank' \in Nat /\ Rank' < Rank BY <3>1, <3>2, <4>2 DEF Rank
      <4> QED BY <2>2, <2>6, <3>1, <4>3 DEF Closer, Run
    <3>3. CASE call.op # "disasm"
      <4>1. decoded = {} BY <3>1, <3>3 DEF More
      <4>2. Rank = 1 /\ Rank' = 0 BY <3>1, <3>3, <4>1 DEF Rank
      <4>3. Rank \in Nat /\ Rank' \in Nat /\ Rank' < Rank BY <4>2
      <4> QED BY <2>6, <3>1, <4>3 DEF Closer, Run
    <3> QED BY <3>2, <3>3
  <2>7. CASE Collect /\ ~Run
    <3>1. UNCHANGED <<pc, call, info, vma, length, pos, decoded>> BY <2>7 DEF Collect
    <3>2. Rank' = Rank BY <3>1 DEF Rank
    <3> QED BY <2>2, <2>7, <3>1, <3>2 DEF Closer
  <2> QED BY <2>3, <2>4, <2>5, <2>6, <2>7 DEF Next, Run
<1> QED BY <1>1, <1>2, BelowStep, Invariant, PTL DEF Spec
=============================================================================
