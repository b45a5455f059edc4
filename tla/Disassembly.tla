---------------------------- MODULE Disassembly ----------------------------
(***************************************************************************)
(* Addresses on their way between C and Ruby (opdis/module/Opdis.c,        *)
(* Callbacks.c), and the Disassembly object that collects the output: a    *)
(* Hash from addresses to instructions, with the method containing().      *)
(* An instruction is represented by its address in libopdis.               *)
(***************************************************************************)
EXTENDS Integers

CONSTANTS
  UIntSpan,  \* how many values an unsigned int has (2^32)
  VmaSpan,   \* how many an opdis_vma_t has (2^64)
  Reach      \* how far back containing() looks (32)

ASSUME WidthAssumption ==
  /\ UIntSpan \in Nat /\ VmaSpan \in Nat /\ Reach \in Nat
  /\ UIntSpan >= 2 /\ UIntSpan % 2 = 0 /\ VmaSpan % UIntSpan = 0
  /\ UIntSpan < VmaSpan /\ Reach < VmaSpan

Vmas == 0 .. VmaSpan - 1
InvalidAddr == VmaSpan - 1   \* OPDIS_INVALID_ADDR is (opdis_vma_t) -1

\* INT2NUM: a C int is what remains of the value.
ToInt(v) ==
  LET low == v % UIntSpan IN IF low < UIntSpan \div 2 THEN low ELSE low - UIntSpan

\* NUM2UINT: raises RangeError outside of -2^31 .. 2^32 - 1, else wraps.
FitsUInt(n) == n \in -(UIntSpan \div 2) .. UIntSpan - 1
ToUInt(n) == n % UIntSpan

Empty == [k \in {} |-> 0]

\* Variant for the mutation run: unsigned keys.
RecordUnsigned(output, v) ==
  [k \in DOMAIN output \cup {ToUInt(v)} |-> IF k = ToUInt(v) THEN v ELSE output[k]]

\* rb_hash_aset(output, INT2NUM(i->vma), insn)
Record(output, v) ==
  [k \in DOMAIN output \cup {ToInt(v)} |-> IF k = ToInt(v) THEN v ELSE output[k]]

\* What containing() gives for an address: an instruction, or one of these.
NotFound == -1
Raised   == -2   \* rb_funcall of "@size", which is no method

\* Variant for the mutation run: the first entry found is given, whatever its size.
ContainingNearest(output, v) ==
  LET min  == (v - Reach) % VmaSpan
      hits == {a \in min .. v : a \in DOMAIN output}
  IN  IF hits = {} THEN NotFound
      ELSE output[CHOOSE a \in hits : \A b \in hits : b <= a]

\* The loop goes down from the address to min and ends at the first entry.  min
\* is unsigned: below Reach it wraps, and the loop is not entered.
Containing(output, v) ==
  LET min  == (v - Reach) % VmaSpan
      hits == {a \in min .. v : a \in DOMAIN output}
  IN  IF hits = {} THEN NotFound ELSE IF v \in hits THEN output[v] ELSE Raised
=============================================================================
