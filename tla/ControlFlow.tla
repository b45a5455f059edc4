---------------------------- MODULE ControlFlow ----------------------------
(***************************************************************************)
(* Control-flow disassembly through Ruby callbacks: local_handler,         *)
(* local_resolver and local_display (opdis/module/Opdis.c) around the      *)
(* strategy of libopdis, with the callback classes of Callbacks.c and the  *)
(* tracker of opdis/examples/visited_handler.rb.  Sessions are threads     *)
(* that may share a tracker; every callback into Ruby is a point where     *)
(* another thread may run.                                                 *)
(*                                                                         *)
(* The strategy itself is external.  It takes addresses from a work list   *)
(* in any order; it asks the handler about an instruction before it shows  *)
(* it (a tracker that marks what the block was shown would otherwise stop  *)
(* at once); it goes on to the next instruction and to what the resolver   *)
(* answers.                                                                *)
(***************************************************************************)
EXTENDS Disassembly, FiniteSets

CONSTANTS
  Sessions,
  Code,      \* the target: a function from addresses to instructions
  Known,     \* the branches whose target libopdis' default resolver knows
  Calls,     \* the calls the program makes
  MaxCalls,  \* bound: calls begun
  NoCall

\* next: the address after it, if it falls through.  target: what the operand of
\* a branch refers to, if that is an address.  Both may be InvalidAddr.
\* convertible: it has no operand, or its target, dest and src are all set
\* (Opdis_insnToC raises otherwise).
Instructions == [size: Nat \ {0}, next: Vmas, branch: BOOLEAN, target: Vmas,
                 convertible: BOOLEAN]
Trackers     == {"default", "marking", "builtin"}
Resolvers    == {"default", "operand", "builtin"}

ASSUME CodeAssumption ==
  /\ DOMAIN Code \subseteq Vmas \ {InvalidAddr}
  /\ \A a \in DOMAIN Code : Code[a] \in Instructions
  /\ Known \subseteq DOMAIN Code
ASSUME CallAssumption ==
  /\ Calls \subseteq [start: Vmas \ {InvalidAddr}, tracker: Trackers, resolver: Resolvers]
  /\ NoCall \notin Calls /\ MaxCalls \in Nat

VARIABLES
  pc, call,
  todo,       \* the strategy's work list
  insn,       \* the instruction being handled
  seen,       \* the tree of the duplicate, used by the default handler
  output,     \* the Disassembly of the call
  errors,     \* the addresses reported to its errors
  shown,      \* history: the instructions recorded in this call
  marked,     \* @visited_addresses of the example's tracker
  visited,    \* the tree of a VisitedAddressTracker
  calls, abandoned,
  results     \* history: what the calls that returned did

local == <<pc, call, todo, insn, seen, output, errors, shown>>
vars  == <<local, marked, visited, calls, abandoned, results>>

Init ==
  /\ pc     = [s \in Sessions |-> "idle"]
  /\ call   = [s \in Sessions |-> NoCall]
  /\ todo   = [s \in Sessions |-> {}]
  /\ insn   = [s \in Sessions |-> InvalidAddr]
  /\ seen   = [s \in Sessions |-> {}]
  /\ output = [s \in Sessions |-> Empty]
  /\ errors = [s \in Sessions |-> {}]
  /\ shown  = [s \in Sessions |-> {}]
  /\ marked = {} /\ visited = {} /\ calls = 0 /\ abandoned = 0 /\ results = {}

Leave(s) ==
  /\ pc'     = [pc EXCEPT ![s] = "idle"]
  /\ call'   = [call EXCEPT ![s] = NoCall]
  /\ todo'   = [todo EXCEPT ![s] = {}]
  /\ insn'   = [insn EXCEPT ![s] = InvalidAddr]
  /\ seen'   = [seen EXCEPT ![s] = {}]
  /\ output' = [output EXCEPT ![s] = Empty]
  /\ errors' = [errors EXCEPT ![s] = {}]
  /\ shown'  = [shown EXCEPT ![s] = {}]

\* A callback raised: the caller gets no Disassembly.
Abandon(s) ==
  /\ Leave(s)
  /\ abandoned' = abandoned + 1
  /\ UNCHANGED <<calls, results>>

Begin(s, c) ==
  /\ pc[s] = "idle" /\ calls < MaxCalls
  /\ calls' = calls + 1
  /\ pc'   = [pc EXCEPT ![s] = "work"]
  /\ call' = [call EXCEPT ![s] = c]
  /\ todo' = [todo EXCEPT ![s] = {c.start}]
  /\ UNCHANGED <<insn, seen, output, errors, shown, marked, visited, abandoned, results>>

\* An address without code: libopdis reports opdis_error_bounds.
Bounds(s, a) ==
  /\ pc[s] = "work" /\ a \in todo[s] \ DOMAIN Code
  /\ errors' = [errors EXCEPT ![s] = @ \cup {a}]
  /\ todo'   = [todo EXCEPT ![s] = @ \ {a}]
  /\ UNCHANGED <<pc, call, insn, seen, output, shown, marked, visited, calls, abandoned,
                 results>>

-----------------------------------------------------------------------------
(* The handler.                                                            *)

\* Variants for the mutation runs: the answer of visited? is passed on as it is;
\* the answer of a Ruby tracker is dropped; the default handler forgets.
ContinueInverted(s, a) ==
  CASE call[s].tracker = "default" -> a \notin seen[s]
    [] call[s].tracker = "marking" -> a \in marked
    [] call[s].tracker = "builtin" -> a \in visited
ContinueAlways(s, a) ==
  CASE call[s].tracker = "default" -> a \notin seen[s]
    [] call[s].tracker = "marking" -> TRUE
    [] call[s].tracker = "builtin" -> a \in visited
ContinueForgetful(s, a) ==
  CASE call[s].tracker = "default" -> TRUE
    [] call[s].tracker = "marking" -> a \notin marked
    [] call[s].tracker = "builtin" -> a \in visited

\* local_handler: TRUE means already visited, so continue = 0.  But visited? of
\* the VisitedAddressTracker answers TRUE when opdis_default_handler gives 1, that
\* is for an address it has not seen.
Continue(s, a) ==
  CASE call[s].tracker = "default" -> a \notin seen[s]
    [] call[s].tracker = "marking" -> a \notin marked
    [] call[s].tracker = "builtin" -> a \in visited

\* The two tree handlers add the address when they are asked.
Remember(s, a) ==
  /\ seen'    = IF call[s].tracker = "default" THEN [seen EXCEPT ![s] = @ \cup {a}] ELSE seen
  /\ visited' = IF call[s].tracker = "builtin" THEN visited \cup {a} ELSE visited

Asks(s, a) ==
  /\ pc[s] = "work" /\ a \in todo[s] \cap DOMAIN Code
  /\ call[s].tracker = "builtin" => Code[a].convertible

Handle(s, a) ==
  /\ Asks(s, a) /\ Continue(s, a) /\ Remember(s, a)
  /\ pc'   = [pc EXCEPT ![s] = "display"]
  /\ insn' = [insn EXCEPT ![s] = a]
  /\ todo' = [todo EXCEPT ![s] = @ \ {a}]
  /\ UNCHANGED <<call, output, errors, shown, marked, calls, abandoned, results>>

Stop(s, a) ==
  /\ Asks(s, a) /\ ~Continue(s, a) /\ Remember(s, a)
  /\ todo' = [todo EXCEPT ![s] = @ \ {a}]
  /\ UNCHANGED <<pc, call, insn, output, errors, shown, marked, calls, abandoned, results>>

\* Opdis_insnToC: TypeError from NUM2INT(nil).
AskRaises(s, a) ==
  /\ pc[s] = "work" /\ a \in todo[s] \cap DOMAIN Code
  /\ call[s].tracker = "builtin" /\ ~Code[a].convertible
  /\ Abandon(s)
  /\ UNCHANGED <<marked, visited>>

-----------------------------------------------------------------------------
(* local_display: the block, then the entry.                               *)

Visit(s) == IF call[s].tracker = "marking" THEN marked \cup {insn[s]} ELSE marked

Block(s) ==
  /\ pc[s] = "display"
  /\ pc'     = [pc EXCEPT ![s] = "record"]
  /\ marked' = Visit(s)
  /\ UNCHANGED <<call, todo, insn, seen, output, errors, shown, visited, calls, abandoned,
                 results>>

BlockRaises(s) ==
  /\ pc[s] = "display"
  /\ marked' \in {marked, Visit(s)}
  /\ Abandon(s)
  /\ UNCHANGED visited

Store(s) ==
  /\ pc[s] = "record"
  /\ pc'     = [pc EXCEPT ![s] = "advance"]
  /\ output' = [output EXCEPT ![s] = Record(@, insn[s])]
  /\ shown'  = [shown EXCEPT ![s] = @ \cup {insn[s]}]
  /\ UNCHANGED <<call, todo, insn, seen, errors, marked, visited, calls, abandoned, results>>

-----------------------------------------------------------------------------
(* The resolver.                                                           *)

\* opdis_default_resolver (external).
DefaultResolver(a) == IF a \in Known THEN Code[a].target ELSE InvalidAddr

\* local_resolver raises when NUM2UINT does: for an address beyond 32 bits.  The
\* built-in resolver raises when Opdis_insnToC does.
ResolverRaises(r, a) ==
  /\ Code[a].branch
  /\ \/ r = "operand" /\ Code[a].target # InvalidAddr /\ ~FitsUInt(Code[a].target)
     \/ r = "builtin" /\ ~Code[a].convertible

\* Variant for the mutation run: NUM2INT for NUM2UINT.
ResolveSigned(r, a) ==
  CASE r = "default" -> DefaultResolver(a)
    [] r = "operand" -> IF Code[a].target = InvalidAddr THEN InvalidAddr
                        ELSE ToInt(Code[a].target) % VmaSpan
    [] r = "builtin" -> ToUInt(ToInt(DefaultResolver(a)))

\* What libopdis is told.  The operand's own VMA is nil or a number for
\* NUM2UINT; AddressResolver#resolve puts the default's answer in an int first.
Resolve(r, a) ==
  CASE r = "default" -> DefaultResolver(a)
    [] r = "operand" -> IF Code[a].target = InvalidAddr THEN InvalidAddr
                        ELSE ToUInt(Code[a].target)
    [] r = "builtin" -> ToUInt(ToInt(DefaultResolver(a)))

\* The resolver is asked about branches only.
Successors(r, a) ==
  ({Code[a].next} \cup IF Code[a].branch THEN {Resolve(r, a)} ELSE {}) \ {InvalidAddr}

Advance(s) ==
  /\ pc[s] = "advance" /\ ~ResolverRaises(call[s].resolver, insn[s])
  /\ pc'   = [pc EXCEPT ![s] = "work"]
  /\ todo' = [todo EXCEPT ![s] = @ \cup Successors(call[s].resolver, insn[s])]
  /\ insn' = [insn EXCEPT ![s] = InvalidAddr]
  /\ UNCHANGED <<call, seen, output, errors, shown, marked, visited, calls, abandoned,
                 results>>

ResolveRaises(s) ==
  /\ pc[s] = "advance" /\ ResolverRaises(call[s].resolver, insn[s])
  /\ Abandon(s)
  /\ UNCHANGED <<marked, visited>>

Return(s) ==
  /\ pc[s] = "work" /\ todo[s] = {}
  /\ results' = results \cup {[call |-> call[s], output |-> output[s], shown |-> shown[s]]}
  /\ Leave(s)
  /\ UNCHANGED <<marked, visited, calls, abandoned>>

Step(s) ==
  \/ \E a \in todo[s] : \/ Bounds(s, a) \/ Handle(s, a) \/ Stop(s, a) \/ AskRaises(s, a)
  \/ Block(s) \/ BlockRaises(s) \/ Store(s) \/ Advance(s) \/ ResolveRaises(s) \/ Return(s)

Next == \E s \in Sessions : Step(s) \/ \E c \in Calls : Begin(s, c)

\* A thread in a call keeps running: the strategy is sequential C code and the
\* callbacks return.
Spec == Init /\ [][Next]_vars /\ \A s \in Sessions : WF_vars(Step(s))
-----------------------------------------------------------------------------
(* Properties.                                                             *)

\* What control flow reaches from the start of a call, by the addresses that its
\* resolver can tell and without any conversion of them; addresses outside of
\* the code included.
Targets(r, a) == IF r = "operand" THEN {Code[a].target} ELSE {DefaultResolver(a)}
Edges(r, a) ==
  ({Code[a].next} \cup IF Code[a].branch THEN Targets(r, a) ELSE {}) \ {InvalidAddr}
Mentioned == DOMAIN Code \cup {c.start : c \in Calls}
             \cup UNION {Edges(r, a) : r \in Resolvers, a \in DOMAIN Code}
Closed(c, S) ==
  c.start \in S /\ \A a \in S \cap DOMAIN Code : Edges(c.resolver, a) \subseteq S
Reached ==
  [c \in Calls |-> {a \in Mentioned : \A S \in SUBSET Mentioned : Closed(c, S) => a \in S}]

TypeOK ==
  /\ pc \in [Sessions -> {"idle", "work", "display", "record", "advance"}]
  /\ call \in [Sessions -> Calls \cup {NoCall}]
  /\ todo \in [Sessions -> SUBSET Vmas] /\ insn \in [Sessions -> Vmas]
  /\ \A s \in Sessions : pc[s] \in {"display", "record", "advance"} => insn[s] \in DOMAIN Code
  /\ seen \in [Sessions -> SUBSET DOMAIN Code] /\ errors \in [Sessions -> SUBSET Vmas]
  /\ shown \in [Sessions -> SUBSET DOMAIN Code]
  /\ DOMAIN output = Sessions
  /\ \A s \in Sessions : \A k \in DOMAIN output[s] :
       k \in Int /\ output[s][k] \in shown[s] /\ ToInt(output[s][k]) = k
  /\ marked \subseteq DOMAIN Code /\ visited \subseteq DOMAIN Code
  /\ calls \in 0 .. MaxCalls /\ abandoned \in Nat

\* A call shows no instruction twice, although the tracker learns of it only in
\* the block and another session may use the tracker in between.
OncePerCall ==
  \A s \in Sessions :
    pc[s] \in {"display", "record"} /\ call[s].tracker # "builtin" => insn[s] \notin shown[s]

\* A call with the built-in resolver has met only branches whose target the default
\* resolver knows and an int can carry.
Carried(s) ==
  call[s].resolver = "builtin" =>
    \A a \in shown[s] : Code[a].branch => DefaultResolver(a) < UIntSpan

\* A resolver of the program leads a call to no address that control flow does not
\* reach: NUM2UINT raises for what it would change.  The built-in resolver does, but only
\* after a branch whose target is unknown, for which it answers 0xFFFFFFFF, or lies beyond
\* 32 bits, which the int it goes through cuts off; until then, an address in the upper
\* half of the 32 bits included, it leads nowhere else either.
NoStray ==
  \A s \in Sessions : pc[s] # "idle" /\ Carried(s) =>
    todo[s] \cup shown[s] \cup errors[s] \subseteq Reached[call[s]]

\* Calls that share a tracker leave nothing out between them: when all have
\* returned, what one did not show because the tracker knew it, another did.  It
\* takes the same resolver in all of them: the tracker knows the instructions
\* shown, not where their branches were thought to go.
Sharing == {q \in results : q.call.tracker = "marking"}
NothingMissed ==
  (abandoned = 0 /\ \A s \in Sessions : pc[s] = "idle") =>
    \A r \in {q \in results : q.call.resolver # "builtin"} :
      LET shownBy(S) == UNION {q.shown : q \in S} IN
      /\ r.call.tracker = "default" =>
           Reached[r.call] \cap DOMAIN Code \subseteq r.shown
      /\ r \in Sharing /\ (\A q \in Sharing : q.call.resolver = r.call.resolver) =>
           Reached[r.call] \cap DOMAIN Code \subseteq shownBy(Sharing)

\* The instruction that containing() gives was shown by the call and has the address
\* asked for among its bytes, of which only the low 32 bits are compared: the keys of the
\* output are ints, and one that lies 2^32 further on is given too.
Holds(x, v) == \E i \in 0 .. Code[x].size - 1 : (x + i) % UIntSpan = v % UIntSpan
ContainingSound ==
  \A r \in results : \A v \in Vmas :
    LET x == Containing(r.output, v) IN
    x \notin {NotFound, Raised} => x \in r.shown /\ Holds(x, v)

\* rdoc_input/Opdis.rb on containing(): it "Returns the Instruction object containing
\* VMA", and Opdis.c:58 means to walk back to it.
ContainingFinds ==
  \A r \in results : \A x \in r.shown : \A v \in x .. x + Code[x].size - 1 :
    Containing(r.output, v) = x

\* Exploration is promised to the calls in which no address goes through an int on its
\* way to libopdis and whose tracker answers as it should.
Faithful(c)  == c \in Calls /\ c.tracker # "builtin" /\ c.resolver # "builtin"
AskedFor     == [s \in Sessions |-> IF Faithful(call[s]) THEN call[s] ELSE NoCall]
ShownTo      == [s \in Sessions |-> IF Faithful(call[s]) THEN shown[s] ELSE {}]
GivenTo      == {[request |-> q.call, shown |-> q.shown] :
                   q \in {p \in results : Faithful(p.call)}}
Explores == INSTANCE Exploration WITH
  Callers <- Sessions, Requests <- {c \in Calls : Faithful(c)}, None <- NoCall,
  Reachable <- [c \in Calls |-> Reached[c] \cap DOMAIN Code],
  Alone <- {c \in Calls : c.tracker = "default"},
  request <- AskedFor, shown <- ShownTo, given <- GivenTo

\* The callbacks around libopdis implement Exploration, for any number of sessions.
ExplorationSpec == Explores!Spec

\* Control-flow disassembly of a loop ends.
Terminates ==
  \A s \in Sessions : (pc[s] # "idle" /\ call[s].tracker # "builtin") ~> (pc[s] = "idle")

\* Callbacks.rb on VisitedAddressTracker: it "is used to prevent endless loops in
\* control-flow analysis".
TrackerPreventsLoops ==
  \A s \in Sessions : (pc[s] # "idle") ~> (pc[s] = "idle")
=============================================================================
