------------------------ MODULE OpcodesDisassembler ------------------------
(***************************************************************************)
(* Opcodes::Disassembler (opcodes/module/Opcodes.c): one disassemble_info  *)
(* is kept in the object and configured anew by each call, which sweeps a  *)
(* buffer (disasm) or decodes one instruction (disasm_insn).  Addresses    *)
(* below the buffer's are taken as offsets into it; the position of the    *)
(* sweep is an unsigned int to which libopcodes' answer, -1 included, is   *)
(* added.  What an instruction is, is abstracted to its size, which the    *)
(* function in info->application_data finds.                               *)
(***************************************************************************)
EXTENDS Integers, Sequences, FiniteSets

CONSTANTS
  UIntSpan,   \* how many values an unsigned int has (2^32)
  Functions,  \* what info->application_data may be
  Generic,    \* generic_print_address_wrapper of Opcodes.c
  Invalid,    \* that of Arch.c, the function of Opcodes_disasm_invalid
  NoFunction, \* NULL: libopcodes' disassembler() knows none for a file
  FnForBfd,   \* FnForBfd[b]: what fn_for_bfd finds for a Bfd target
  Bfds,
  Initials,   \* the functions the object may have been created with
  Calls,      \* the calls the program makes
  MaxCalls,   \* bound: calls begun
  Object,     \* a length that is an object of the heap, no Fixnum
  Nil

\* The functions of libopcodes, which read the buffer; the wrappers print the address.
Decoders == Functions \ {Generic, Invalid, NoFunction}

\* sizes[f][o + 1]: what function f answers for offset o, -1 when it fails.  base: the
\* address of a section or the value of a symbol.  good: an array has only numbers, an
\* IO can be read, a symbol lies in its section.  readable: the file of a Bfd object
\* holds the contents of the section.
Kinds   == {"string", "array", "io", "section", "symbol", "other"}
Targets == [kind: Kinds, size: Nat, sizes: [Decoders -> Seq({-1} \cup (Nat \ {0}))],
            base: Nat, bfd: Bfds, good: BOOLEAN, readable: BOOLEAN]
UInts   == 0 .. UIntSpan - 1
Optional == UInts \cup {Nil}
\* number: NUM2UINT takes the numbers, StringValueCStr the options.
Requests == [op: {"disasm", "disasm_insn"}, target: Targets, buffer_vma: Optional,
             vma: Optional, length: Int \cup {Nil, Object}, number: {"ok", "bad"}]

ASSUME OpcodesAssumption ==
  /\ UIntSpan \in Nat \ {0, 1}
  /\ MaxCalls \in Nat /\ Nil \notin Int /\ Object \notin Int /\ Nil # Object
  /\ {Generic, Invalid, NoFunction} \cup Initials \subseteq Functions
  /\ FnForBfd \in [Bfds -> Functions \ {NoFunction}]
  /\ \A c \in Calls : c \in Requests /\ c.target.size < UIntSpan
  \* libopcodes reads an instruction through the buffer, or fails
  /\ \A c \in Calls, f \in Decoders : LET z == c.target.sizes[f] IN
       /\ Len(z) = c.target.size
       /\ \A i \in DOMAIN z : z[i] <= Len(z) - (i - 1)

VARIABLES
  info,      \* disassemble_info: buffer_vma, buffer_length, application_data
  buffer,    \* info->buffer: "none", or the target of the current or of an old call
  pc, call,
  vma,       \* where the call starts
  length,    \* how many bytes it was asked for
  pos,       \* how many it counts as done
  alive,     \* the bytes the call works on have not been freed
  decoded,   \* history: the offsets decoded in this call
  again,     \* history: some offset was decoded twice in this call
  allocated, \* buffers malloc'ed and not freed
  calls, raised,
  fault      \* what crashed the process

work == <<call, vma, length, pos, alive, decoded, again>>
vars == <<info, buffer, pc, work, allocated, calls, raised, fault>>

BfdObject(t) == t.kind \in {"section", "symbol"}
\* A failed bfd_malloc_and_get_section leaves a NULL pointer and goes unnoticed.
Loaded(t)  == BfdObject(t) => t.readable
Mallocs(t) == t.kind = "array" \/ (BfdObject(t) /\ t.readable)
NoTarget == [kind |-> "other", size |-> 0, sizes |-> [f \in Decoders |-> <<>>], base |-> 0,
             bfd |-> CHOOSE b \in Bfds : TRUE, good |-> FALSE, readable |-> FALSE]
NoCall == [op |-> "disasm", target |-> NoTarget, buffer_vma |-> Nil, vma |-> Nil,
           length |-> Nil, number |-> "ok"]

Init ==
  /\ \E fn \in Initials : info = [vma |-> 0, length |-> 0, fn |-> fn]
  /\ buffer = "none"
  /\ pc = "idle" /\ call = NoCall /\ vma = 0 /\ length = 0 /\ pos = 0
  /\ alive = FALSE /\ decoded = {} /\ again = FALSE
  /\ allocated = 0 /\ calls = 0 /\ raised = 0 /\ fault = "none"

\* The call is over; info keeps the pointer to whatever it disassembled.
Leave ==
  /\ pc' = "idle" /\ call' = NoCall /\ vma' = 0 /\ length' = 0 /\ pos' = 0
  /\ alive' = FALSE /\ decoded' = {} /\ again' = FALSE
  /\ buffer' = IF buffer = "none" THEN "none" ELSE "old"

-----------------------------------------------------------------------------
(* load_target, config_libopcodes_for_target, disasm_init.                 *)

Callable == fault = "none" /\ pc = "idle" /\ calls < MaxCalls

\* load_target gives up, on IO#read's exception too: nothing of info has been touched,
\* an array is allocated.
LoadRaises(c) ==
  /\ Callable /\ ~c.target.good /\ c.target.kind \in {"array", "io", "other"}
  /\ calls' = calls + 1 /\ raised' = raised + 1
  /\ allocated' = IF Mallocs(c.target) THEN allocated + 1 ELSE allocated
  /\ UNCHANGED <<info, buffer, pc, work, fault>>

\* "Invalid symbol value": the buffer fields have been cleared.
ConfigRaises(c) ==
  /\ Callable /\ ~c.target.good /\ c.target.kind = "symbol"
  /\ calls' = calls + 1 /\ raised' = raised + 1
  /\ allocated' = IF Mallocs(c.target) THEN allocated + 1 ELSE allocated
  /\ info' = [info EXCEPT !.vma = 0, !.length = 0] /\ buffer' = "none"
  /\ UNCHANGED <<pc, work, fault>>

\* A Bfd object chooses the function if there is none but the generic one of this file:
\* that of Arch.c, which fn_for_bfd yields for want of a better one, is kept.
FnAfter(t) ==
  IF BfdObject(t) /\ info.fn \in {Generic, NoFunction} THEN FnForBfd[t.bfd] ELSE info.fn

BaseOf(c) ==
  IF c.buffer_vma # Nil THEN c.buffer_vma ELSE IF BfdObject(c.target) THEN c.target.base ELSE 0

Configured(c) == [vma |-> BaseOf(c), length |-> c.target.size, fn |-> FnAfter(c.target)]

\* The VALUE of the length is put into an unsigned int before NUM2UINT reads it: of a
\* Fixnum all but the highest bit of the number is left, of any other object a part of
\* its address.
LengthOf(c) ==
  CASE c.length = Nil    -> c.target.size
    [] c.length = Object -> 0
    [] OTHER             -> c.length % (UIntSpan \div 2)
LengthCrashes(c) == c.op = "disasm" /\ c.length = Object

\* A number that NUM2UINT rejects is met when everything is configured.
ArgumentRaises(c) ==
  /\ Callable /\ c.target.good /\ c.number = "bad"
  /\ calls' = calls + 1 /\ raised' = raised + 1
  /\ allocated' = IF Mallocs(c.target) THEN allocated + 1 ELSE allocated
  /\ info' = Configured(c) /\ buffer' = IF Loaded(c.target) THEN "old" ELSE "none"
  /\ UNCHANGED <<pc, work, fault>>

\* Variant for the mutation run: the old buffer is kept when there is one.
BeginStale(c) ==
  /\ Callable /\ c.target.good /\ c.number = "ok"
  /\ calls' = calls + 1
  /\ allocated' = IF Mallocs(c.target) THEN allocated + 1 ELSE allocated
  /\ info' = Configured(c)
  /\ buffer' = IF buffer # "none" THEN buffer ELSE IF Loaded(c.target) THEN "current" ELSE "none"
  /\ pc' = "sweep" /\ call' = c
  /\ vma' = IF c.vma = Nil THEN BaseOf(c) ELSE c.vma
  /\ length' = LengthOf(c)
  /\ pos' = 0 /\ alive' = TRUE /\ decoded' = {} /\ again' = FALSE
  /\ fault' = IF LengthCrashes(c) THEN "length" ELSE "none"
  /\ UNCHANGED raised

Begin(c) ==
  /\ Callable /\ c.target.good /\ c.number = "ok"
  /\ calls' = calls + 1
  /\ allocated' = IF Mallocs(c.target) THEN allocated + 1 ELSE allocated
  /\ info' = Configured(c) /\ buffer' = IF Loaded(c.target) THEN "current" ELSE "none"
  /\ pc' = "sweep" /\ call' = c
  /\ vma' = IF c.vma = Nil THEN BaseOf(c) ELSE c.vma
  /\ length' = LengthOf(c)
  /\ pos' = 0 /\ alive' = TRUE /\ decoded' = {} /\ again' = FALSE
  /\ fault' = IF LengthCrashes(c) THEN "length" ELSE "none"
  /\ UNCHANGED raised

\* The string IO#read returned is referred to by nothing but a char pointer: the
\* collector may free it as soon as the sweep allocates its first array.
Collect ==
  /\ fault = "none" /\ pc = "sweep" /\ call.target.kind = "io" /\ alive
  /\ alive' = FALSE
  /\ UNCHANGED <<info, buffer, pc, call, vma, length, pos, decoded, again, allocated, calls,
                 raised, fault>>

-----------------------------------------------------------------------------
(* disasm_insn.                                                            *)

\* Small addresses are offsets into the buffer.
Rebased(a) == IF a < info.vma THEN a + info.vma ELSE a
Offset == Rebased(vma + pos) - info.vma

More == IF call.op = "disasm" THEN pos < length ELSE decoded = {}

\* "VMA exceeds buffer length": the array of instructions is lost with the buffer.
Exceeds ==
  /\ fault = "none" /\ pc = "sweep" /\ More
  /\ Offset >= info.length
  /\ raised' = raised + 1
  /\ Leave
  /\ UNCHANGED <<info, allocated, calls, fault>>

\* A wrapper prints the address as one byte; a decoder has the size of the instruction.
AnswerAt(o) == IF info.fn \in Decoders THEN call.target.sizes[info.fn][o + 1] ELSE 1
Answer == AnswerAt(Offset)

\* Only a decoder reads the buffer.
Readable == info.fn \in Decoders => buffer = "current" /\ alive

\* The function is called for the offset; the position becomes p.
Consume(p) ==
  /\ fault = "none" /\ pc = "sweep" /\ More
  /\ Offset < info.length /\ info.fn # NoFunction /\ Readable
  /\ pos' = p
  /\ again' = (again \/ Offset \in decoded)
  /\ decoded' = decoded \cup {Offset}
  /\ UNCHANGED <<info, buffer, pc, call, length, alive, allocated, calls, raised, fault>>

\* Variants for the mutation runs: the position is signed; it is not passed on to
\* disasm_insn; the size is added to the start as well.
DecodeSigned == Consume(IF call.op = "disasm" THEN pos + Answer ELSE pos) /\ UNCHANGED vma
DecodeUncounted == Consume(pos) /\ UNCHANGED vma
DecodeSkips ==
  Consume(IF call.op = "disasm" THEN (pos + Answer) % UIntSpan ELSE pos) /\ vma' = vma + Answer

Decode ==
  Consume(IF call.op = "disasm" THEN (pos + Answer) % UIntSpan ELSE pos) /\ UNCHANGED vma

\* There is no function to call, or it reads freed memory or what NULL points to.
DecodeCrashes ==
  /\ fault = "none" /\ pc = "sweep" /\ More
  /\ Offset < info.length /\ (info.fn = NoFunction \/ ~Readable)
  /\ fault' = IF info.fn = NoFunction THEN "no function"
              ELSE IF buffer = "none" THEN "no buffer" ELSE "freed"
  /\ UNCHANGED <<info, buffer, pc, work, allocated, calls, raised>>

\* Variant for the mutation run: nothing is unloaded.
ReturnLoaded ==
  /\ fault = "none" /\ pc = "sweep" /\ ~More
  /\ Leave
  /\ UNCHANGED <<info, allocated, calls, raised, fault>>

\* unload_target
Return ==
  /\ fault = "none" /\ pc = "sweep" /\ ~More
  /\ allocated' = IF Mallocs(call.target) THEN allocated - 1 ELSE allocated
  /\ Leave
  /\ UNCHANGED <<info, calls, raised, fault>>

Run == Exceeds \/ Decode \/ DecodeCrashes \/ Return

Next ==
  \/ \E c \in Calls : LoadRaises(c) \/ ConfigRaises(c) \/ ArgumentRaises(c) \/ Begin(c)
  \/ Run \/ Collect

\* A call is sequential C code.
Spec == Init /\ [][Next]_vars /\ WF_vars(Run)
-----------------------------------------------------------------------------
(* Properties.                                                             *)

\* The function answers -1 somewhere in the buffer of the call.
Truncated == info.fn \in Decoders /\ \E i \in 1 .. call.target.size : AnswerAt(i - 1) = -1
Plain == call.op = "disasm" /\ call.vma = Nil /\ call.length = Nil /\ ~Truncated
Bytes(offsets) == UNION {o .. o + AnswerAt(o) - 1 : o \in offsets}

TypeOK ==
  /\ info \in [vma: Nat, length: UInts, fn: Functions]
  /\ buffer \in {"none", "current", "old"} /\ pc \in {"idle", "sweep"}
  /\ call \in Calls \cup {NoCall}
  /\ vma \in Nat /\ length \in UInts /\ pos \in UInts
  /\ alive \in BOOLEAN /\ again \in BOOLEAN
  /\ fault \in {"none", "length", "no function", "no buffer", "freed"}
  /\ decoded \subseteq 0 .. call.target.size - 1
  /\ allocated \in Nat /\ calls \in 0 .. MaxCalls /\ raised \in 0 .. calls

\* A call that says neither where to start nor how much sweeps the whole buffer:
\* it is not stopped by the length check and returns only when the instructions
\* cover every byte, whatever the addresses of the buffer.
AllBytes ==
  [][(pc = "sweep" /\ Plain /\ pc' = "idle") =>
       raised' = raised /\ Bytes(decoded) = 0 .. call.target.size - 1]_vars

\* No byte is the start of two instructions of one call, unless an instruction is
\* cut off by the end of the buffer (-1 moves back) or the start was given as an
\* offset (once past the buffer's own address, offsets are no longer rebased).
NeverTwice ==
  again => Truncated \/ (call.vma # Nil /\ call.vma < info.vma)

\* What crashes the process, and nothing else does: a length that is an object of its
\* own; an object created for a file that libopcodes has no function for and used on
\* anything but a Bfd object; a section whose contents could not be loaded; the string
\* read from an IO, freed during the sweep.  The pointer that an earlier call left in
\* the object, returned from or abandoned by an exception, is not used again.
FaultsExplained ==
  /\ fault = "length" => call.length = Object
  /\ fault = "no function" => ~BfdObject(call.target)
  /\ fault = "no buffer" => BfdObject(call.target) /\ ~call.target.readable
  /\ fault = "freed" => call.target.kind = "io"

\* Buffers: one for a call in progress on an array or a Bfd object, at most one
\* lost by each exception; none is freed twice.
BuffersAccounted ==
  LET current == IF pc = "sweep" /\ Mallocs(call.target) THEN 1 ELSE 0 IN
  allocated \in current .. current + raised

\* A sweep that starts below the buffer's own address, at an offset, begins again at
\* the buffer's start when it passes that address; the position goes on.  It may then
\* exceed an unsigned int and start over, unless the buffer ends before the address or
\* both together can be counted.
Counted ==
  vma < info.vma /\ info.vma <= info.length => info.length + (info.vma - vma) < UIntSpan

\* A sweep over complete instructions ends, wherever it is told to start, if its
\* positions can be counted.
Terminates ==
  (pc = "sweep" /\ ~Truncated /\ Counted) ~> (pc = "idle" \/ fault # "none")

\* lib/Opcodes.rb on disasm: "Disassemble all bytes in a buffer".
SweepEnds == (pc = "sweep") ~> (pc = "idle" \/ fault # "none")
=============================================================================
