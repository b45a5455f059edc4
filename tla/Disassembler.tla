---------------------------- MODULE Disassembler ----------------------------
(***************************************************************************)
(* One Opdis::Disassembler object shared by the threads of a Ruby program  *)
(* (opdis/module/Opdis.c).  A call of disassemble() is a session: it       *)
(* duplicates the C opdis_t, loads its target, applies its argument hash,  *)
(* switches the garbage collector off, lets libopdis run a strategy that   *)
(* calls back into Ruby, and switches the collector on again.              *)
(*                                                                         *)
(* Ruby threads interleave only where the code lets them: the scheduler    *)
(* calls, IO#read of a target, the user's callbacks and block.  Those      *)
(* points separate the steps of a session.  A call made from inside the    *)
(* block of another call is one of these interleavings.  A Ruby exception  *)
(* is a longjmp: what the C code would have done after it is skipped.      *)
(***************************************************************************)
EXTENDS Integers, FiniteSets

CONSTANTS
  Sessions,     \* activations of disassemble(), one per thread or nesting level
  Objects,      \* Ruby objects offered as callbacks
  Responds,     \* Responds[k]: the objects that have the method callback k needs
  Options,      \* libopcodes option strings
  Archs,        \* architectures known to opdis
  BfdArch,      \* the architecture recorded in the BFD targets
  Initial,      \* the settings of a fresh opdis_t
  Assignments,  \* argument hashes given to new() and to the setters
  Calls,        \* the calls of disassemble() a program makes
  MaxCalls,     \* bound: calls begun
  MaxItems,     \* bound: instructions and errors one session produces
  Default,      \* libopdis' own callback
  Nil,          \* Ruby's nil
  Absent,       \* a key missing from the argument hash (or an unknown arch name)
  Bad,          \* a value StringValueCStr or NUM2UINT rejects with TypeError
  NoCall        \* the call of an idle session

Kinds      == {"resolver", "handler", "decoder"}
BfdTargets == {"target", "symbol", "section"}
Strategies == {"single", "linear", "cflow", "symbol", "section", "entry"}
Pointers   == [Kinds -> Objects \cup {Default}]
Settings   == [debug: BOOLEAN, options: Options, arch: Archs]
Hashes     == [cb: [Kinds -> Objects \cup {Nil, Absent}], syntax: BOOLEAN,
               debug: BOOLEAN \cup {Nil, Absent}, options: Options \cup {Absent, Bad},
               arch: Archs \cup {Absent, Bad}]
CallHashes == [target: BfdTargets \cup {"buffer", "invalid"},
               strategy: Strategies \cup {"unknown", "not a string"},
               number: {"ok", "bad vma", "bad buffer_vma"}, args: Hashes]

ASSUME ObjectsAssumption ==
  /\ Default \notin Objects /\ Nil \notin Objects /\ Absent \notin Objects
  /\ Nil # Absent
  /\ Responds \in [Kinds -> SUBSET Objects]
ASSUME SettingsAssumption ==
  /\ Bad \notin Options \cup Archs /\ Absent \notin Options \cup Archs \cup BOOLEAN
  /\ BfdArch \in Archs /\ Initial \in Settings
ASSUME CallsAssumption ==
  /\ IsFiniteSet(Sessions)
  /\ Assignments \subseteq Hashes /\ Calls \subseteq CallHashes
  /\ NoCall \notin Calls \cup Pointers /\ MaxCalls \in Nat /\ MaxItems \in Nat

VARIABLES
  callback,   \* the instance's opdis_t: which callback each kind points at
  attr,       \* its instance variables @resolver, @addr_tracker, @insn_decoder
  settings,   \* the rest of its opdis_t
  heap,       \* the objects the collector has not freed
  held,       \* the objects the program itself still refers to
  gcEnabled,  \* Ruby's process-wide collector switch
  pc,         \* where each session is
  call,       \* the arguments of each session, on its C stack
  dup,        \* its duplicate of the opdis_t
  buffer,     \* whether its target is an opdis_buf_t it allocated
  items,      \* entries it has put in its Disassembly (instructions and errors)
  dups, bufs, \* opdis_t duplicates and opdis_buf_t the process has allocated
  calls,      \* calls begun
  abandoned,  \* calls left by an exception
  fault       \* a freed object was called: undefined behaviour

instance == <<callback, attr, settings>>
session  == <<pc, call, dup, buffer, items>>
vars == <<instance, heap, held, gcEnabled, session, dups, bufs, calls, abandoned, fault>>

-----------------------------------------------------------------------------
(* The setters, and the argument hash that drives them.                    *)

CallbackAfter(k, v, old) ==
  IF v = Nil THEN Default ELSE IF v \in Responds[k] THEN v ELSE old

\* Variants of AttrAfter for the mutation runs: the setter forgets the
\* instance variable; nil also clears it.
AttrNeverSet(k, v, old) == old
AttrCleared(k, v, old) ==
  IF v = Nil THEN Nil ELSE IF v \in Responds[k] THEN v ELSE old

\* Setting nil restores the default callback and leaves the instance variable.
AttrAfter(k, v, old) == IF v \in Responds[k] THEN v ELSE old

\* syntax= compares "#<String:0x...>" with the two names: it always raises, and
\* handle_args calls it after the callbacks and before the other settings.  It takes a
\* key set to false for a missing one, so only nil switches debug off.
SettingsAfter(a, s) ==
  IF a.syntax THEN s
  ELSE [debug   |-> IF a.debug \in {FALSE, Absent} THEN s.debug ELSE a.debug = TRUE,
        options |-> IF a.options \in Options THEN a.options ELSE s.options,
        arch    |-> IF a.options # Bad /\ a.arch \in Archs THEN a.arch ELSE s.arch]

HashRaises(a) == a.syntax \/ a.options = Bad \/ a.arch = Bad

Named(a) == {a.cb[k] : k \in Kinds} \cap Objects

\* Each key is applied to the instance in turn; an exception keeps what the
\* earlier keys did.
HandleArgs(a) ==
  /\ callback' = [k \in Kinds |-> CallbackAfter(k, a.cb[k], callback[k])]
  /\ attr'     = [k \in Kinds |-> AttrAfter(k, a.cb[k], attr[k])]
  /\ settings' = SettingsAfter(a, settings)

-----------------------------------------------------------------------------
Blank == [cb |-> [k \in Kinds |-> Default], settings |-> Initial]

\* Disassembler.new(args); hashes that make it raise give no object to model.
Init ==
  \E a \in {h \in Assignments : ~HashRaises(h)} :
    /\ callback = [k \in Kinds |-> CallbackAfter(k, a.cb[k], Default)]
    /\ attr     = [k \in Kinds |-> AttrAfter(k, a.cb[k], Nil)]
    /\ settings = SettingsAfter(a, Initial)
    /\ heap = Objects /\ held = Objects /\ gcEnabled = TRUE
    /\ pc     = [s \in Sessions |-> "idle"]
    /\ call   = [s \in Sessions |-> NoCall]
    /\ dup    = [s \in Sessions |-> Blank]
    /\ buffer = [s \in Sessions |-> FALSE]
    /\ items  = [s \in Sessions |-> 0]
    /\ dups = 0 /\ bufs = 0 /\ calls = 0 /\ abandoned = 0 /\ fault = FALSE

\* A setter called by any thread at any time: a hash with one key.  The setter debug=
\* takes false as it takes nil.
Assign(a) ==
  /\ ~fault /\ Named(a) \subseteq held
  /\ HandleArgs(a)
  /\ UNCHANGED <<heap, held, gcEnabled, session, dups, bufs, calls, abandoned, fault>>

-----------------------------------------------------------------------------
(* The life of a session.                                                  *)

Active(s)     == pc[s] # "idle"
InStrategy(s) == pc[s] \in {"strategy", "display"}

\* A crashed process takes no step.
Goto(s, label) == ~fault /\ pc' = [pc EXCEPT ![s] = label]

\* The C frame of the call is gone.
Leave(s) ==
  /\ Goto(s, "idle")
  /\ call'   = [call EXCEPT ![s] = NoCall]
  /\ dup'    = [dup EXCEPT ![s] = Blank]
  /\ buffer' = [buffer EXCEPT ![s] = FALSE]
  /\ items'  = [items EXCEPT ![s] = 0]

\* An exception skips opdis_term() and whatever else was still to come.
Abandon(s) ==
  /\ Leave(s)
  /\ abandoned' = abandoned + 1
  /\ UNCHANGED <<heap, held, dups, calls, fault>>

Begin(s, c) ==
  /\ pc[s] = "idle" /\ calls < MaxCalls
  /\ Named(c.args) \subseteq held
  /\ Goto(s, "load")
  /\ call' = [call EXCEPT ![s] = c]
  /\ dup'  = [dup EXCEPT ![s] = [cb |-> callback, settings |-> settings]]
  /\ dups' = dups + 1 /\ calls' = calls + 1
  /\ UNCHANGED <<instance, heap, held, gcEnabled, buffer, items, bufs, abandoned, fault>>

\* vma, length or the target itself is rejected before anything is allocated;
\* a bad buffer_vma is met when the buffer already is.
LoadRaises(s) ==
  /\ pc[s] = "load"
  /\ \/ /\ call[s].number = "bad vma" \/ call[s].target = "invalid"
        /\ bufs' = bufs
     \/ /\ call[s].number = "bad buffer_vma" /\ call[s].target = "buffer"
        /\ bufs' = bufs + 1
  /\ Abandon(s)
  /\ UNCHANGED <<instance, gcEnabled>>

LoadBuffer(s) ==
  /\ pc[s] = "load" /\ call[s].target = "buffer" /\ call[s].number = "ok"
  /\ Goto(s, "args")
  /\ buffer' = [buffer EXCEPT ![s] = TRUE]
  /\ bufs' = bufs + 1
  /\ UNCHANGED <<instance, heap, held, gcEnabled, call, dup, items, dups, calls,
                 abandoned, fault>>

\* Variant for the mutation run: the duplicate is taken again after the load.
LoadBfdLateDup(s) ==
  /\ pc[s] = "load" /\ call[s].target \in BfdTargets /\ call[s].number # "bad vma"
  /\ Goto(s, "args")
  /\ dup' = [dup EXCEPT ![s] = [cb |-> callback,
                                settings |-> [settings EXCEPT !.arch = BfdArch]]]
  /\ UNCHANGED <<instance, heap, held, gcEnabled, call, buffer, items, dups, bufs,
                 calls, abandoned, fault>>

\* A Bfd target configures the duplicate (opdis_config_from_bfd).
LoadBfd(s) ==
  /\ pc[s] = "load" /\ call[s].target \in BfdTargets /\ call[s].number # "bad vma"
  /\ Goto(s, "args")
  /\ dup' = [dup EXCEPT ![s].settings.arch = BfdArch]
  /\ UNCHANGED <<instance, heap, held, gcEnabled, call, buffer, items, dups, bufs,
                 calls, abandoned, fault>>

\* The argument hash goes to the instance, not to the duplicate in use.
Arguments(s) ==
  /\ pc[s] = "args"
  /\ HandleArgs(call[s].args)
  /\ ~HashRaises(call[s].args) /\ call[s].strategy # "not a string"
  /\ Goto(s, "start")
  /\ UNCHANGED <<heap, held, gcEnabled, call, dup, buffer, items, dups, bufs, calls,
                 abandoned, fault>>

ArgumentsRaise(s) ==
  /\ pc[s] = "args"
  /\ HandleArgs(call[s].args)
  /\ HashRaises(call[s].args) \/ call[s].strategy = "not a string"
  /\ Abandon(s)
  /\ UNCHANGED <<gcEnabled, bufs>>

\* The targets that a strategy demands; the others take any.
Demands == [symbol |-> {"symbol"}, section |-> {"section"}, entry |-> BfdTargets]
Fits(c) ==
  /\ c.strategy \in Strategies
  /\ c.strategy \in DOMAIN Demands => c.target \in Demands[c.strategy]

\* rb_gc_disable(), then the strategy is told by its name.
Start(s) ==
  /\ pc[s] = "start" /\ Fits(call[s])
  /\ gcEnabled' = FALSE
  /\ Goto(s, "strategy")
  /\ UNCHANGED <<instance, heap, held, call, dup, buffer, items, dups, bufs, calls,
                 abandoned, fault>>

\* Only the unknown strategy frees the buffer; none enables the collector.
StartRaises(s) ==
  /\ pc[s] = "start" /\ ~Fits(call[s])
  /\ gcEnabled' = FALSE
  /\ bufs' = IF call[s].strategy = "unknown" /\ buffer[s] THEN bufs - 1 ELSE bufs
  /\ Abandon(s)
  /\ UNCHANGED instance

-----------------------------------------------------------------------------
(* libopdis runs the strategy on the duplicate.  Which instructions it     *)
(* visits is external and left open; linear strategies only decode.        *)

Uses(strategy) ==
  IF strategy \in {"cflow", "symbol", "entry"} THEN Kinds ELSE {"decoder"}

Freed(s, k) == dup[s].cb[k] \in Objects \ heap

\* A callback runs: local_decoder, local_handler and local_resolver call the
\* object the duplicate points at.
Decode(s) ==
  /\ pc[s] = "strategy" /\ items[s] < MaxItems /\ ~Freed(s, "decoder")
  /\ Goto(s, "display")
  /\ UNCHANGED <<instance, heap, held, gcEnabled, call, dup, buffer, items, dups, bufs,
                 calls, abandoned, fault>>

\* local_error: the message goes to Disassembly.errors.
Report(s) ==
  /\ ~fault /\ pc[s] = "strategy" /\ items[s] < MaxItems /\ ~Freed(s, "decoder")
  /\ items' = [items EXCEPT ![s] = @ + 1]
  /\ UNCHANGED <<instance, heap, held, gcEnabled, pc, call, dup, buffer, dups, bufs,
                 calls, abandoned, fault>>

CallbackRaises(s) ==
  /\ pc[s] = "strategy"
  /\ \E k \in Uses(call[s].strategy) : dup[s].cb[k] \in Objects /\ ~Freed(s, k)
  /\ Abandon(s)
  /\ UNCHANGED <<instance, gcEnabled, bufs>>

CallFreed(s) ==
  /\ ~fault /\ pc[s] = "strategy"
  /\ \E k \in Uses(call[s].strategy) : Freed(s, k)
  /\ fault' = TRUE
  /\ UNCHANGED <<instance, heap, held, gcEnabled, session, dups, bufs, calls, abandoned>>

\* local_display: an instruction, or the error that it cannot be converted; the
\* block has run and the scheduler follows.
Display(s) ==
  /\ pc[s] = "display"
  /\ items' = [items EXCEPT ![s] = @ + 1]
  /\ Goto(s, "strategy")
  /\ UNCHANGED <<instance, heap, held, gcEnabled, call, dup, buffer, dups, bufs,
                 calls, abandoned, fault>>

\* Variant for the mutation run: an ensure clause that enables the collector.
BlockRaisesEnsure(s) ==
  /\ pc[s] = "display"
  /\ Abandon(s)
  /\ gcEnabled' = TRUE
  /\ UNCHANGED <<instance, bufs>>

\* The block raises, breaks or throws: nothing is undone.
BlockRaises(s) ==
  /\ pc[s] = "display"
  /\ Abandon(s)
  /\ UNCHANGED <<instance, gcEnabled, bufs>>

\* Variants for the mutation runs: the buffer is freed without looking; the
\* collector is enabled only beside the buffer; the duplicate is not freed.
FinishFreesAlways(s) ==
  /\ pc[s] = "strategy" /\ Leave(s)
  /\ bufs' = bufs - 1 /\ dups' = dups - 1 /\ gcEnabled' = TRUE
  /\ UNCHANGED <<instance, heap, held, calls, abandoned, fault>>
FinishBufferOnly(s) ==
  /\ pc[s] = "strategy" /\ Leave(s)
  /\ bufs' = IF buffer[s] THEN bufs - 1 ELSE bufs
  /\ gcEnabled' = (gcEnabled \/ buffer[s])
  /\ dups' = dups - 1
  /\ UNCHANGED <<instance, heap, held, calls, abandoned, fault>>
FinishKeepsDup(s) ==
  /\ pc[s] = "strategy" /\ Leave(s)
  /\ bufs' = IF buffer[s] THEN bufs - 1 ELSE bufs
  /\ gcEnabled' = TRUE
  /\ UNCHANGED <<instance, heap, held, dups, calls, abandoned, fault>>

\* The strategy is over: opdis_buf_free, rb_gc_enable, opdis_term, return.
Finish(s) ==
  /\ pc[s] = "strategy" /\ Leave(s)
  /\ bufs' = IF buffer[s] THEN bufs - 1 ELSE bufs
  /\ gcEnabled' = TRUE
  /\ dups' = dups - 1
  /\ UNCHANGED <<instance, heap, held, calls, abandoned, fault>>

-----------------------------------------------------------------------------
(* The Ruby runtime and the program around the calls.                      *)

\* What the mark phase reaches: the program's references, the instance
\* variables, and the argument hashes on the stacks of the running calls.  A
\* Disassembler has no mark function: the opdis_t of it and its duplicates do
\* not keep an object alive.
Reachable ==
  held \cup {attr[k] : k \in Kinds}
       \cup UNION {Named(call[s].args) : s \in {t \in Sessions : Active(t)}}

Collect(o) ==
  /\ ~fault /\ gcEnabled /\ o \in heap \ Reachable
  /\ heap' = heap \ {o}
  /\ UNCHANGED <<instance, held, gcEnabled, session, dups, bufs, calls, abandoned, fault>>

\* The program forgets an object, or reads it back through the attribute.
Forget(o) ==
  /\ ~fault /\ o \in held
  /\ held' = held \ {o}
  /\ UNCHANGED <<instance, heap, gcEnabled, session, dups, bufs, calls, abandoned, fault>>

ReadAttr(k) ==
  /\ ~fault /\ attr[k] \in Objects
  /\ held' = held \cup {attr[k]}
  /\ UNCHANGED <<instance, heap, gcEnabled, session, dups, bufs, calls, abandoned, fault>>

Step(s) ==
  \/ \E c \in Calls : Begin(s, c)
  \/ LoadRaises(s) \/ LoadBuffer(s) \/ LoadBfd(s)
  \/ Arguments(s) \/ ArgumentsRaise(s)
  \/ Start(s) \/ StartRaises(s)
  \/ Decode(s) \/ Report(s) \/ CallbackRaises(s) \/ CallFreed(s)
  \/ Display(s) \/ BlockRaises(s) \/ Finish(s)

Next ==
  \/ \E s \in Sessions : Step(s)
  \/ \E a \in Assignments : Assign(a)
  \/ \E o \in Objects : Collect(o) \/ Forget(o)
  \/ \E k \in Kinds : ReadAttr(k)

Spec == Init /\ [][Next]_vars
-----------------------------------------------------------------------------
(* Properties.                                                             *)

Busy  == {s \in Sessions : Active(s)}
InUse == {s \in Sessions : buffer[s]}

\* Every variable stays in its type: in particular no allocation counter goes
\* below zero, whatever order sessions return, raise and free in.
TypeOK ==
  /\ callback \in Pointers /\ attr \in [Kinds -> Objects \cup {Nil}]
  /\ settings \in Settings
  /\ heap \subseteq Objects /\ held \subseteq Objects /\ gcEnabled \in BOOLEAN
  /\ pc \in [Sessions -> {"idle", "load", "args", "start", "strategy", "display"}]
  /\ call \in [Sessions -> Calls \cup {NoCall}]
  /\ dup \in [Sessions -> [cb: Pointers, settings: Settings]]
  /\ buffer \in [Sessions -> BOOLEAN] /\ items \in [Sessions -> Nat]
  /\ dups \in Nat /\ bufs \in Nat /\ calls \in Nat /\ abandoned \in Nat
  /\ fault \in BOOLEAN

\* A callback the instance would hand to the next call is alive: although the
\* opdis_t is not marked, the instance variable beside it keeps the object, over
\* every order of setters (nil, refused objects), calls that apply their hash to
\* the instance or abandon it half way, forgetting and collecting.
InstanceRooted ==
  \A k \in Kinds : callback[k] \in Objects => callback[k] \in heap

\* A running session's callback can be freed only after the instance has been
\* given another object for that kind: nil and refused objects free nothing.
FreedOnlyIfReplaced ==
  \A s \in Sessions, k \in Kinds :
    Active(s) /\ Freed(s, k) => attr[k] \in Objects \ {dup[s].cb[k]}

\* The collector is off only while some strategy runs, or because a call was
\* left by an exception: calls that all return leave the switch as it was.
OffForAReason ==
  gcEnabled \/ abandoned > 0 \/ \E s \in Sessions : InStrategy(s)

\* The collector comes on under a session in its strategy only when another call
\* returns from its own; an exception in another call never does it.
EnabledOnlyByReturn ==
  [][(~gcEnabled /\ gcEnabled' /\ \E s \in Sessions : InStrategy(s) /\ InStrategy(s)')
     => \E t \in Sessions : InStrategy(t) /\ ~Active(t)' /\ abandoned' = abandoned]_vars

\* opdis_t duplicates: one for each call in progress, one lost by each call left
\* by an exception, none by a call that returned.
DupsAccounted == dups = Cardinality(Busy) + abandoned

\* opdis_buf_t: every buffer of a running call is allocated, and at most one is
\* lost by a call left by an exception; with TypeOK, none is freed twice.
BufsAccounted == bufs \in Cardinality(InUse) .. Cardinality(InUse) + abandoned

\* A running call keeps the callbacks the instance had when it began, whatever
\* other threads assign meanwhile ("duplicate opdis_t in order to be threadsafe").
Snapshot == INSTANCE CallSnapshot WITH
  Callers <- Sessions, Values <- Pointers, None <- NoCall, current <- callback,
  running <- [s \in Sessions |-> IF Active(s) THEN dup[s].cb ELSE NoCall]
SnapshotSpec == Snapshot!Spec

\* The comment at Opdis.c:601: the collector is disabled while a strategy runs.
\* Broken by two sessions, and by a call made in the block of another.
GcOffInStrategy == \A s \in Sessions : InStrategy(s) => ~gcEnabled

\* The comment at Opdis.c:679: with a duplicate, calls are safe beside other
\* threads: no session calls a freed object.
NoFault == ~fault
=============================================================================
