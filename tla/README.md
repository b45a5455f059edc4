# Verification of opdis-ruby

TLA+ models of the Ruby bindings in this repository (`src/opdis`, `src/opcodes`,
`src/magic`, `src/bfd`, `src/ptrace`), the TLC configurations that check them, and
proofs for TLAPS.  The reference is the source; where a doc or a comment and the source
disagree, the model follows the source.  Five runs show such a disagreement; section 3 lists
those that no run shows.

## 1. The system

Five Ruby extensions, each a thin Ruby file over a C module that wraps one C library.
`Opdis` and `Opcodes` take targets from `Bfd`; otherwise they are independent.  None
starts a thread of its own.  Concurrency is that of Ruby: C code runs to the next point
where it enters the interpreter (a callback, the block, `IO#read`, `rb_thread_schedule`),
and another thread may run there.  An exception is a `longjmp`: the C code behind it never
runs.

| component | state it keeps | operations | interaction | what makes it correct |
|---|---|---|---|---|
| `Opdis::Disassembler` (`opdis/module/Opdis.c`) | an `opdis_t` (callbacks, settings), instance variables with the callback objects; per call: a duplicate, a buffer, the output | `new`, the setters, `disassemble` with an argument hash and six strategies | calls user callbacks and the block; switches the process-wide collector; is shared by threads | a call works on what it began with; callbacks stay alive; the switch and the C allocations are given back |
| callbacks (`opdis/module/Callbacks.c`) | a `VisitedAddressTracker`'s tree | `visited?`, `resolve`, `decode` | called by libopdis during a strategy, through `local_handler`, `local_resolver`, `local_decoder` | control flow ends, shows everything once, goes nowhere else |
| `Opdis::Disassembly` (`Opdis.c` 46-103) | a Hash of 32-bit keys, `@errors` | `containing` | filled by `local_display`, `local_error` | an address finds its instruction and no other |
| instruction model (`opdis/module/Model.c`) | Ruby objects for instructions and operands | conversion both ways, predicates | each callback converts | converting there and back changes nothing |
| `Opcodes::Disassembler` (`opcodes/module/Opcodes.c`) | one `disassemble_info`, configured anew by each call | `disasm`, `disasm_insn`, `usage` | reads strings, arrays, files, Bfd sections and symbols | a sweep decodes every byte once, ends, and reads only its own buffer |
| `Bfd` (`bfd/module/BFD.c`, `bfd/lib/BFD.rb`) | a `bfd *`, sections and symbols loaded on first use, a temporary file | `new`, `from_buffer`, `close`, `sections`, `symbols`, `section_for_vma` | gives targets to the disassemblers | what was opened is closed once; lazy and eager reads agree |
| `Magic` (`magic/module/Magic.c`) | a static libmagic handle | `identify` | yields to the scheduler twice while it uses the handle | each call is answered by its own, open handle, and closes it |
| `Ptrace` (`ptrace/module/Ptrace.c`, `ptrace/lib/Ptrace.rb`) | a pid, `@valid`, options, register sets | `attach`, `launch`, `step`, `peek`, `poke`, registers | one `ptrace` call per method | errors are told from values; a process launched is waited for |

Constant tables (architectures, system calls, ptrace commands), compatibility shims, the
build files and the rdoc sources have no behaviour of their own.

**What is hard here.**  The collector switch, Magic's static variable and the trackers are
shared by threads that do not know of each other; pointers to Ruby objects are kept where
the collector does not look; exceptions skip the end of C functions; addresses pass
through `int` and `unsigned int`; a sweep counts in `unsigned int` and is told -1; the
argument hash of a call acts on the instance while the call works on a duplicate.
Instructions lose numbers on their way through Ruby; a target and an IO both own one
descriptor; processes die between any two requests.  `PROJECT.json` lists every such hazard
at its line with the properties that cover it, or why none does.

## 2. The modules

| module | models | built on | theorems in |
|---|---|---|---|
| `Disassembler` | sessions of one `Opdis::Disassembler` | | `DisassemblerProofs` |
| `CallSnapshot` | abstract: what duplicating the `opdis_t` promises | | `DisassemblerProofs` |
| `Disassembly` | address conversions, the output hash, `containing` | | |
| `ControlFlow` | control-flow disassembly through Ruby callbacks | `Disassembly` | `ControlFlowProofs` |
| `Exploration` | abstract: what control-flow disassembly promises a caller | | `ControlFlowProofs` |
| `Instruction` | instructions and operands converted to Ruby and back | `Disassembly` | |
| `Decoding` | the decoder callback and the built-in decoders | `Instruction` | `DecodingProofs` |
| `OpcodesDisassembler` | `Opcodes::Disassembler` | | `OpcodesProofs` |
| `Bfd` | targets, their tables, descriptors and temporary files | | `BfdProofs`, `BfdTableProofs` |
| `Magic` | `Magic.identify` | | `MagicProofs` |
| `Ptrace` | `Ptrace::Target`, `MemArea`, `RegSet` over `Ptrace::Debugger` | | `PtraceProofs` |
| `MC*` | small instances for TLC | each its module | |

`Disassembler` leaves open what a strategy visits and keeps who owns what; `ControlFlow`
is the inside of one strategy and keeps what is visited; `Decoding` is the inside of one
decoder callback and keeps what becomes of the instruction.  They meet at the states
`strategy` and `display` of a session: a step of `ControlFlow` from `work` to `work` over
`display` is `Decode` and `Display` there, and the whole of `Decoding` from `decode` to
`returned`, `refused` or `raised` is one `Decode`.  `ControlFlow` takes from `Instruction` that an
instruction with operands and an unset index raises on its way to the tracker
(`convertible`), and from `FlowAgrees` that branches are what the Ruby object says.

### Disassembler

`callback`, `attr`, `settings` are the object: the callback pointers of its `opdis_t`, the
instance variables beside them, the other fields.  `dup` is the duplicate of each session,
`dups` and `bufs` count what the process has allocated, `gcEnabled` is Ruby's switch,
`heap` and `held` are the callback objects not freed, and those the program refers to.
The actions follow `cls_disasm_disassemble`: `Begin` (duplicate), `LoadBuffer`/`LoadBfd`,
`Arguments` (the hash goes to the instance), `Start` (collector off), `Decode`, `Report`,
`Display`, `Finish`; each has its `...Raises` counterpart for the exceptions met there,
with what they skip.  `Assign` is a setter of any thread; `Forget`, `ReadAttr`, `Collect`
are the program and the collector.  `Reachable` is the mark phase: the program's
references, the instance variables, and the hashes on the stacks of running calls, but no
`opdis_t`, as `Data_Wrap_Struct` is given no mark function.  `fault` is set when a freed
object is called; nothing happens after that.

Three details of the setters are easily missed.  `nil` restores the default callback but
leaves the instance variable, so that the old object stays alive; and `syntax=` compares
what `rb_any_to_s` makes of its argument (`#<String:0x...>`) with the two names, so that it
always raises; and a key whose value is `false` counts as missing, so that `debug: false` in
a hash leaves debugging on.

### ControlFlow and Disassembly

An address is a number below `VmaSpan`, an `int` has `UIntSpan` values.  `ToInt` and
`ToUInt` are `INT2NUM` and `NUM2UINT` as Ruby 1.9 and later define them for a C `int`:
the key of an instruction is the low half of its address, read as signed.  A call has a
tracker (libopdis' own, the tracker of `examples/visited_handler.rb` that marks what its
block was shown, or `VisitedAddressTracker`) and a resolver (libopdis' own, one that
answers with the operand's address as `examples/resolver.rb` does, or `AddressResolver`).
`seen` is the tree of the duplicate, `visited` that of the `VisitedAddressTracker`,
`marked` the array of the example's tracker; the last two are shared by all sessions.
Each callback is a step, because another thread can run in it.

libopdis is not in the repository.  The model assumes of it: the work list is taken in any
order; the handler is asked before an instruction is shown; the resolver is asked about
branches only; `opdis_default_handler` answers 1 for an address it has not seen and
remembers it; `opdis_default_resolver` answers with a target it knows or
`OPDIS_INVALID_ADDR`, which is not followed.

`Exploration` is what a caller may rely on: the instructions that control flow reaches
are shown one at a time, and the answer is what was shown, all of it for a caller with a
tracker of its own.  `AskedFor`, `ShownTo` and `GivenTo` map `ControlFlow` to it
(`ExplorationSpec`).  The mapping leaves out the calls for which the code keeps no such
promise, those with `VisitedAddressTracker` or `AddressResolver`.

### Instruction and Decoding

`Instruction` has no state: it translates `Model.c` as operators, a pair for each class of
operand (`RegFromC`/`RegToC`, ...), `FillRuby` (`fill_ruby_insn`) and `InsnToC`
(`insn_to_c`).  A C number is a residue modulo `VmaSpan`, an `int` one modulo `UIntSpan`.
The two directions do not mirror each other and the module keeps each difference: the
offset of an absolute address is stored as if it were a Ruby value (`AsValue`: odd ones
are Fixnums, some even ones are `false`, `nil`, or taken for an object's address), the
scale of an expression is not read, displacements come back unsigned, an index is set but
never cleared, and the names of decode levels pile up with "invalid" among them.  `role` of
a C instruction says which operand `target`, `dest` and `src` point to, 0 for NULL, and
`idx` is the Ruby attribute.  Positions count from 1, as sequences do, where Ruby counts
from 0.  Strings, bytes, prefixes, sizes and the isa are copied and left out; two
categories of flags stand for all of them.

`Decoding` is `local_decoder` over the two: `Decode` makes the Ruby object of a blank
instruction and calls the program's `decode`; `Builtin` is `invoke_builtin_decoder`
(convert to C, take the address out of the hash, decode, convert back), any number of times,
with `BuiltinFails` and `BuiltinRaises`; `SetIndices`, `SetValue`, `SetFlags` and
`ClearOperands` are what decode methods do to the object; `Return` and `ReturnRaises`
convert what they leave, and the method's own result decides whether libopdis is told 1
(`returned`) or 0 (`refused`).  `Crash` is an offset taken for the address of an object.  What the
decoders of libopdis find is a constant, `Decodings`, with the shape that `IsOperand`
states.

### OpcodesDisassembler

`info` is the `disassemble_info` in the object; `buffer` says whether its pointer belongs
to the running call, to an old one, or is NULL.  A target is the sizes that each decoder of
libopcodes answers for each offset, -1 where it fails.  `info.fn` is the function kept in the
object: one of those `Decoders`, a wrapper that prints the address and answers 1 (`Generic` in
this file, `Invalid` in `Arch.c`), or none.  An object may be created with any of them
(`Initials`): with an architecture's name, with nothing, or with `:bfd`, which takes what
libopcodes' `disassembler()` has for the file.  x86 answers the rest of a truncated
instruction; ARM, which an object gets only through `:bfd`, answers -1.  `Begin` is
everything up to the first instruction, with its three exceptions; a section whose contents
cannot be loaded leaves NULL with the section's length (`Loaded`), and a length is first
squeezed into an `unsigned int` as a Ruby value (`LengthOf`).  `Decode` is one iteration, with
the offset rule (`Rebased`) and the `unsigned int` position; `DecodeCrashes` is one that has
no function, or reads through NULL or a freed string; `Collect` frees the string that
`IO#read` returned, to which nothing but a `char *` refers.

### Magic

`magic_dict` is the static variable; handles are numbered as they are opened.  A call has
three steps, separated by the two calls of the scheduler: `Open`, `Load` and `Apply`, with
their exceptions.  `Load` loads into the handle the variable holds then and passes that
one on by value; `Apply` closes whichever the variable holds at the end.  `own` and
`alone` are history: the handle a call opened, and whether another call has run since.
`magic_open` is taken to succeed; it answers NULL only when memory is exhausted.

### Bfd

`fds` is the process' table of descriptors with the file each refers to, `io` the IO
objects of the program, `tgt` the targets with their lazy hashes, `contents` the
`@contents` of sections, `temp` the temporary files, `tempFile` the `@temp_file` of the
class.  `NewFromPath` and `PathRejected` are `Target.new` with a path; `NewFromIo` shares
the IO's descriptor (`bfd_fdopenr`), which `CloseIo` and `Collect` both close.  A number is
reused as soon as it is free.  `from_buffer` sets `@temp_file` on the class, so that `Close` of a target does nothing
unless the program has set it with `temp_file=` (`SetTempFile`).  `LoadSections` and `LoadSymbols` build the hashes with `Filled`, which puts what
`symbol_new` and `add_section_to_hash` make into a hash in the order of the loops; a table
whose size is -1 is left out
because `malloc` fails, and one that cannot be read counts -1 symbols and is a `fault`.
Flags and sizes come from headers that libbfd reads when it opens a file; symbols and
contents it reads through the descriptor on first use, so that a closed or reused one gives
none or those of another file (`LayoutsSeen`, `Read`).  `FromBuffer` and the actions
after it are `Target.from_buffer`, with and without a block; `Finalize` is the finalizer of
the `Tempfile`, which is garbage from the first line on.  That a program drops a target
and the collector frees it is one action; the descriptor of the `File` that writes the
buffer is left out.

### Ptrace

`proc` is the kernel's view of the processes (running, stopped, zombie, gone; traced;
child; `adrift` after a `sysemu` that nobody waited for), `cell` what they hold: a word of
memory and one register of each kind that the C code treats differently (`cs` for those
`set_regs` keeps, `xmm` for those no hash has).  `tgt` are the Target objects with `@valid`,
`rs` the RegSets with their hash, `call` the method that blocks in `Process.waitpid`.
`Attach`, `Launch`, `Resume`, `Kill` and `Detach` are the methods up to their wait;
`Begun`, `Returned`, `WaitRaises` and the `Syscall...` actions are what follows it;
`Refused` and `Unknown` the two ways to fail before.  `Peek` and `Poke` may also meet an
address that is not mapped (`EIO`, `EFAULT`).  `Stops` and `Dies` are the process
and act between any two steps.  `Err` records the exception a method passed on and the
process it was about.  `ext` and `sysemu` are chosen at the start: whether the program has
defined the constant `RegSet::Ext`, without which `Target.new` raises `NameError`, and
whether the system has `PT_SYSEMU`.  The model assumes what `ptrace(2)` and `wait(2)`
document of the kernel, has one tracing thread, since the kernel takes requests from no
other, and gives no process number twice.

## 3. What is checked

| run | instance | checks |
|---|---|---|
| `sessions` | 2 sessions, 2 objects, 7 kinds of call, 6 assignments, 3 calls in all, 1 item each | the types; `InstanceRooted`, `FreedOnlyIfReplaced`: which callbacks can be freed; `OffForAReason`, `EnabledOnlyByReturn`: when the collector is off and what switches it on; `DupsAccounted`, `BufsAccounted`: what is allocated; `SnapshotSpec`: `CallSnapshot` is implemented |
| `magic` | 3 threads, 7 requests, 4 calls | `AloneOnOwnHandle`, `FaultNeedsOverlap`, `HandlesAccounted` |
| `control_flow` | 2 sessions, 7 instructions with a loop, 3-bit `int`, 4-bit addresses, 9 kinds of call, 3 calls | `OncePerCall`, `NoStray`, `NothingMissed`, `Terminates`: what is shown, and that loops end; `ContainingSound`: what `containing` gives holds the address, in 32 bits |
| `decoding` | 14 decodings with operands of every class, 5-bit numbers, 3-bit `int`, 2 callbacks with 2 built-in calls each, every edit once | `ArrivesAsDecoded`: what survives the way to Ruby and back; `LevelsKept`, `AliasesSound`, `UnaidedNeedsRoles`: status, indices and when the way back raises; `FlowAgrees`: `branch?` and `fallthrough?` against libopdis |
| `opcodes` | every pair of some 320 calls over buffers of up to 5 bytes and one of 15 bytes, four functions to begin with, 4-bit `unsigned int` | `NeverTwice`, `AllBytes`, `Terminates`: what a sweep covers; `FaultsExplained`: what crashes it; `BuffersAccounted` |
| `bfd` | 2 targets, 1 IO, 2 descriptors, 1 temporary file, 4 files, 3 opens | `OwnFile`, `DescriptorsAccounted`: whose file is read, who owns a descriptor; `TablesSound`: the lazy tables and `section_for_vma`; `TempAccounted`: what deletes temporary files |
| `ptrace` | 1 process, 2 Targets, 1 RegSet, values 0 and -1 | `ErrorsExplained`: what an exception says of the process; `TargetsAccounted`: no live process stays under trace without a Target that takes requests; `EditsOnly`: what writing registers changes |

Five runs show a violation; each counterexample is a behaviour of the code that a comment
or a doc says it does not have:

| run | property | what happens |
|---|---|---|
| `gc_overlap` | `GcOffInStrategy` | the first of two sessions to return enables the collector under the other |
| `containing` | `ContainingFinds` | `containing` raises for an address inside an instruction, because it calls a method `@size` |
| `freed_callback` | `NoFault` | a callback replaced during a call is collected and then called |
| `endless_tracker` | `TrackerPreventsLoops` | `VisitedAddressTracker` answers the wrong way round: once it knows a loop, the loop is followed for ever |
| `truncated_sweep` | `SweepEnds` | a buffer that ends within an instruction is swept for ever by an object made with `:bfd` for an ARM file |

What the passing runs say has its limits written into the properties, because the code
has them.  `NoStray` covers `AddressResolver` only until a branch whose target is unknown or
lies beyond 32 bits (`Carried`): it puts `OPDIS_INVALID_ADDR` into an `int`, which comes back
as 0xFFFFFFFF and is followed.  `OncePerCall`, `NothingMissed` and
`Terminates` leave `VisitedAddressTracker` out (`endless_tracker`), and `NothingMissed`
holds only when no call raised, because the block marks an instruction before it is stored,
and for a shared tracker only when the calls resolve branches alike: a tracker knows what
was shown and not where it was thought to lead, so a call that resolves a branch differently
stops there and what it alone would have found is lost.  `ContainingSound` says that no
wrong instruction is given as far as 32 bits tell: keys are ints, so one that lies 2^32 away
is given too.  It says nothing of the calls that raise (`containing` run) nor of addresses
below 32, where the bound wraps and nothing is found.  Mending line 76 alone would break it:
line 77 takes the address just behind an instruction for one inside it.
`NeverTwice` and `Terminates` of `opcodes` leave out decoders that answer -1 somewhere.  A start given
as an offset below the buffer's own address is taken as an address again once the sweep
has passed that address, so that it decodes the buffer a second time: `NeverTwice` leaves
such starts out, and `Terminates` those for which the positions of both rounds together
exceed an `unsigned int` (`Counted`), because the position may then start over.  `FaultNeedsOverlap` does not say that overlapping calls of
`Magic.identify` are sound; they are not, one may be answered under the options of the
other, or by a closed handle.  `ArrivesAsDecoded` is about one built-in call; a second
one appends its operands and keeps indices of the first.  `OwnFile` does not cover a number
that was once given to `Target.new` as an IO: two owners close it, and the second may close
another's file.  `TablesSound` leaves the symbols of such a target out, as they are read
then.  `EditsOnly` asks for a hash read since the process last ran; any other
writes old values, or 0 for what it lacks.

Documents and code disagree in more places, which no run shows.  Opdis.c:592 and
rdoc_input/Opdis.rb:158 promise the arguments of `disassemble` to the call they are given to;
the duplicate is taken before they are applied, so that they act on the next call only, which
`SnapshotSpec` implies.  Ptrace.rb:475 says that `detach` makes the Target invalid; for an
attached process `waitpid` raises `Errno::ECHILD` first, and for a child it waits until that
has ended.  `TargetsAccounted` asks for no more than that a process still traced has a usable
Target, and holds whichever is done.  BFD.rb:77-82 and 99-101 say that `close` deletes the
temporary file of `from_buffer`; it does so only for a program that sets `temp_file` on the
target itself.  `TempAccounted` allows both.
`Model.h:124-127` swap the two names of port input and output.  `Callbacks.rb:61` has `decode`
report a failure; the object is returned as it was.  A failing `exec` of `Target.launch` raises
in the child, and the parent gets a Target of a process that has ended.

**Bounds.**  `MaxCalls` and `MaxItems` cap counters that the code does not; the state is
otherwise finite.  Two sessions are enough for every overlap of two calls and for a call
inside the block of another; a third call in `sessions` is one that begins after a hash or
an exception has left its mark while the second still runs, and in `control_flow` one that
shares the tracker with two that ran.  Two callback objects, one of which cannot resolve,
give a replacement, a refusal and a nil of each.  `magic` has a third thread because the
handle in the variable can then belong to none of two callers.  A 3-bit `int` in 4-bit
addresses has, as 32 and 64 bits have, positive keys, negative keys, and addresses beyond
both; `Reach` = 2 stands for the 32 of `containing`.  `opcodes` lets the address of the
buffer lie so that its end wraps (13 + 5, 14 + 5 over 16) and requests start below, at and
above it; a buffer of 15 bytes is as long as its address or longer, so that a sweep from an
offset goes round in it, with positions that wrap and positions that do not.  `decoding` has, in 5 bits, offsets of each Ruby kind (odd, `false`, `nil`,
an object) and displacements on both sides of the sign; two built-in calls are what a
decode method that calls `super` after another decoder makes, and properties about more are
proved.  In `bfd` two descriptors and three opens let a number go from an IO to a target
and on to a third file; the four files are an object with overlapping sections of one name,
one without a dynamic table, a text, and one with a broken table.  `ptrace` has one process,
because no action relates two of them but through the Targets, and the theorems hold for any
number; 0 and -1 are the values that the code treats specially.  Targets, and descriptors of
`bfd`, are symmetric: no action or property tells them apart.

**Fairness.**  `Disassembler`, `Magic`, `Decoding`, `Bfd` and
`Ptrace` state none: their properties are safety, and a traced process need not ever stop.
`ControlFlow` assumes weak fairness of each session's steps: a session is sequential C
code and Ruby runs a ready thread again.  This does not decide which address a strategy
takes next, nor that the block ever raises or returns first.  `OpcodesDisassembler`
assumes it of the running call.  Deadlock is not checked: when the bound on calls is
reached, or a fault has happened, the program is over.

## 4. What is proved

For all values of the constants that satisfy the named assumptions (finite sets of
sessions and threads; objects, `nil` and the default callback distinct; hashes, requests,
targets and decodings well-formed; `int` narrower than an address).  Every invariant and
action property of a passing run is proved.

`DisassemblerProofs`.  The inductive invariant is `Types /\ Frames /\ Rooted /\
DupsAccounted /\ BufsAccounted`.  `Frames` says what the C frame of a session holds at each
point (an idle one has no call, no duplicate, no buffer), which the counting needs.
`Rooted` strengthens `InstanceRooted`: a pointer to an object equals the instance variable
beside it, and what the program, the instance variables and the frames refer to is in the
heap; `InstanceRooted` alone is not inductive, since a freed object could be read back
through an attribute and be assigned.  From it:

- `TypeCorrect`, `InstanceCallbacksAlive`, `CallbacksFreedByReplacement`,
  `DuplicatesAccounted`, `BuffersAccounted`: the invariants of `sessions`;
- `CollectorOffForAReason`, `CollectorOnByReturn`: the two statements on the collector
  switch, by what a step does to it (`SwitchStep`) and how a strategy is left
  (`StrategyExit`);
- `SoleSessionCollectorOff`: the comment at Opdis.c:601 does hold for programs that never
  have two calls in progress, so that overlap is the only reason for `gc_overlap`;
- `CallsWorkOnSnapshot`: `Disassembler` implements `CallSnapshot`, step by step;
- `OneObjectPerKindSafe`: the counterpart of `freed_callback`.  A program that gives a
  Disassembler at most one object for each kind of callback never has a freed one called,
  whatever else it assigns (`nil`, which keeps the instance variable) and drops.  Its
  invariant `FromHashes` says that every pointer comes from a hash of the program; with
  `Rooted`, the object a duplicate points at is then the one the instance variable keeps.

`MagicProofs`.  The inductive invariant is `TypeOK /\ Solitude /\ AloneOnOwnHandle /\
HandlesAccounted /\ opened = begun`, where `Solitude` says that the variable holds the newest
handle and that a call marked `alone` is the only one in progress.  It gives `TypeCorrect`, `LoneCallsSound`, `OpenHandlesCounted` and
`FaultsNeedOverlap`.  `CallsInTurnSafe` adds that a program that makes its calls one after the
other never meets a closed handle at all, even if a call that is rejected at once (by a
`:magic_file` that is no string) runs in between and leaves its handle in the variable.

`ControlFlowProofs`.  The inductive invariant has a part `Good` for each session, `Sound` for
each result, and `Shared`.  `Tracked` ties the tracker to the output: what a call has shown
and the instruction it holds is what its own tree has, or is among the marked; `OncePerCall`
is not inductive without it, as a step only sees the tracker's answer.  `OnPath` extends
`NoStray` by the held instruction, and its resolver step is arithmetic: an address below
2^32 comes back from `int` and `unsigned int`, and others raise.  `Complete` and `Shared`
are cover arguments: whatever follows from an instruction that is settled is known to the
tracker or still in a work list (`Ahead`); with a shared tracker, in the work list or the
hand of some session (`Covered`).  When all work lists are empty the shown set is closed under
control flow and contains the start, so it contains `Reached`.  That gives `ShownOnce`,
`StaysOnPath`, `AllShown` and `TypeCorrect`.  `AnswerHoldsAddress` needs of the invariant that
a key is the `int` of the address filed under it: an answer lies at its own key.

`EveryStepCloser` is the safety half of `Terminates`.  The rank of a call is five for each
instruction it has neither shown nor in hand, one for each address in its work list, and the
steps left of the instruction in hand; a call begins with five times the size of the target
and one, each step of its own ends it or lowers the rank, and no other session touches it,
although a tracker is shared.  `ExplorationImplemented` shows that each step of a call is a
step of `Exploration` or none; that an answer is complete uses the same cover argument.

`DecodingProofs`.  `Shape` gives the Ruby object its form, `Named` ties its status to the
levels reported, `Untouched` says that an object not yet filled has neither operands nor
indices, `Sent` that what returned with operands had all its indices.  A second invariant,
`Carried`, says that after one built-in call the object is the image of what was decoded, up
to the edits, and `DecodedArrives` follows by converting operand by operand; its leaf facts
are arithmetic (`2 * ((n-1)/2) + 1` is `n` for the odd offsets that survive).  `StatusExact`,
`AliasesName`, `RolesNeeded`, `PredicatesAgree`, `TypeCorrect` follow from the first.

`OpcodesProofs`.  `Frame` says what a running call has configured and that its buffer is its
own; `Ahead`, for a sweep of whole instructions that starts in the buffer, that all decoded
offsets lie below the position, which therefore does not wrap; `Swept`, that a plain sweep has
covered exactly the bytes behind it.  From them `NothingTwice`, `CrashesExplained`,
`BuffersCounted`, `PlainSweepComplete` and `TypeCorrect`.  `EveryInstructionCloser` is the
safety half of `Terminates`: each instruction moves the position forward and not past
`UINT_MAX`, in a sweep from an offset too if its positions can be counted.  It was the
attempt to prove this without `Counted` that showed the second round of such sweeps.

`BfdProofs`.  Two inductive invariants, one for descriptors and one for temporary files.
`OneOwner` strengthens `OwnFile`: a number not given away as an IO has one owner among
targets and IOs, so that nobody else closes it.  They give `FilesKept`, `DescriptorsCounted`
and `TempFilesCounted`.

`BfdTableProofs`.  `TypeCorrect` and `TablesRight` hold for tables of every length.  What the
loops leave in a hash (`Filled`, a recursive function) is shown without an induction
theorem: the positions where the claim fails form a subset of the natural numbers, `Least`
(from the library's well-foundedness of `<`) picks the first one, and the one before it
refutes it.  `FilledOK` says that a hash has the keys of the pairs, each with its last value;
`SymbolHashOK` and the lemmas on sections read `symbols` and `section_for_vma` off it.
`TablesInv` says which hashes a live target can hold; that the symbols are the file's own
takes `OneOwner` of `BfdProofs`.

`PtraceProofs`.  `Attended` says which processes may be running: those some method waits for,
those `sysemu` let go, and those that are not traced; `CallOK` what the waiting method did
before; `Owned` is `TargetsAccounted` with the processes that are waited for, as that
property itself only speaks of the moments between two methods.  They give
`TargetsStayAccounted`, `ErrorsStayExplained` and `TypeCorrect`; `WritesOnlyEdits` needs
`Current` as well: a hash read since the process last ran agrees with it but for what the
program edited.

**Only model-checked:** that calls end (`Terminates` of `control_flow` and `opcodes`) and the
liveness violations.  Liveness under fairness, and the ENABLED in it, are out of the prover's
reach; what is proved of `Terminates` is that each step comes closer to the end, so that only
"a ready step is taken" is left to TLC.  `ExplorationSpec` and the hypotheses
`OneObjectPerKindSafe` and `CallsInTurnSafe` have no run; they are theorems.  The modules
have no RECURSIVE operator.

## 5. What is not modelled

- Tables of architectures, system calls and ptrace commands; shims; build files; tests.
- In `Opcodes`, the array of tokens an instruction is returned as, and the rule by which the
  decoder function of the first Bfd object is kept has no property of its own; in `Opdis`,
  the wording of errors, the lists of strategies, syntaxes and architectures, and `usage`.
- In `Bfd`, names of formats and the numeric attributes of sections and symbols, filled
  once.
- In `Ptrace`, `fpxregs` (nothing on x86-64), setting signal information (compiled out),
  `signal`, `event_msg` and `options=` (stubs), `Options.write` (raises `TypeError` before
  any request), `Target.new` called by the program itself, requests of a second thread, and
  registers of other processors.
- Concurrent closing of a descriptor or growing of an Array while `Magic` is in the
  scheduler.
- The getter `architecture` of `Opdis::Disassembler`, which passes a NULL `opdis_t` on.
- Exhausted memory: `malloc`, `calloc` and `magic_open` succeed where they are asked for a
  size that exists.  The buffer that `Section#contents` allocates (BFD.c:109) is never freed; a
  leak of each first read, and nothing depends on it.
- What the C libraries and the kernel do, beyond what the code relies on; each assumption is
  at its definition, marked external in `PROJECT.json`.

## 6. Plan

Done in this order: `Disassembler` with `CallSnapshot` and proofs, `Magic` with proofs,
`Disassembly` and `ControlFlow`, `OpcodesDisassembler`; then `Instruction` and `Decoding`,
`Bfd`, `Ptrace`; then the proofs of `Ptrace`, `OpcodesDisassembler`, `Bfd`, `ControlFlow` and
`Decoding`.  Then every remaining safety property, the ranks behind `Terminates`, `Exploration`, and
the conditions under which the violations do not happen.  What could follow: a composition
of `ControlFlow` and `Decoding` in which a decode method changes the flags that control
flow follows; Bfd targets passed to a running disassembly and collected under it; a
property of the decoder function that `OpcodesDisassembler` keeps; abstract specifications
of `Bfd` and `Ptrace::Target` and their refinement.
