------------------------- MODULE ControlFlowProofs -------------------------
(***************************************************************************)
(* Theorems about ControlFlow, for every target, every set of calls and    *)
(* sessions, and every width of an int and of an address.                  *)
(***************************************************************************)
EXTENDS ControlFlow, FiniteSetTheorems, TLAPS

\* The instruction a session has asked its tracker about and not recorded yet, and
\* those whose successors are in its work list.
Held(s)    == IF pc[s] \in {"display", "record"} THEN {insn[s]} ELSE {}
Settled(s) == IF pc[s] = "advance" THEN shown[s] \ {insn[s]} ELSE shown[s]

Frame(s) ==
  /\ pc[s] = "idle" =>
       /\ call[s] = NoCall /\ todo[s] = {} /\ seen[s] = {} /\ shown[s] = {}
       /\ errors[s] = {} /\ output[s] = Empty
  /\ pc[s] # "idle" => call[s] \in Calls
  /\ pc[s] = "advance" => insn[s] \in shown[s]

\* What the tracker of a call knows of the instructions it has shown.
Tracked(s) ==
  pc[s] # "idle" =>
    /\ call[s].tracker = "default" => seen[s] = shown[s] \cup Held(s)
    /\ call[s].tracker = "marking" =>
         shown[s] \subseteq marked /\ (pc[s] = "record" => insn[s] \in marked)
    /\ call[s].tracker # "builtin" => Held(s) \cap shown[s] = {}

OnPath(s) ==
  pc[s] # "idle" /\ Carried(s) =>
    todo[s] \cup shown[s] \cup errors[s] \cup Held(s) \subseteq Reached[call[s]]

\* A call with its own tracker has shown, or will, whatever follows from its start.
Ahead(s, x) == x \notin DOMAIN Code \/ x \in todo[s] \cup seen[s]
Complete(s) ==
  pc[s] # "idle" /\ call[s].tracker = "default" /\ call[s].resolver # "builtin" =>
    /\ Ahead(s, call[s].start)
    /\ \A a \in Settled(s) : \A x \in Edges(call[s].resolver, a) : Ahead(s, x)

\* The same of all calls that share the tracker that marks: what one of them leaves
\* to the others is kept by one of them.
Marking  == {s \in Sessions : pc[s] # "idle" /\ call[s].tracker = "marking"}
Kept(x)  == \/ \E q \in Sharing : x \in q.shown
            \/ \E s \in Marking : x \in shown[s] \cup Held(s)
Covered(x) == x \notin DOMAIN Code \/ Kept(x) \/ \E s \in Marking : x \in todo[s]
Shared ==
  abandoned = 0 =>
    /\ \A x \in marked : Kept(x)
    /\ \A s \in Marking :
         /\ Covered(call[s].start)
         /\ call[s].resolver # "builtin" =>
              \A a \in Settled(s) : \A x \in Edges(call[s].resolver, a) : Covered(x)
    /\ \A q \in Sharing :
         /\ Covered(q.call.start)
         /\ q.call.resolver # "builtin" =>
              \A a \in q.shown : \A x \in Edges(q.call.resolver, a) : Covered(x)

Listed(out, S) ==
  \A k \in DOMAIN out : k \in Int /\ out[k] \in S /\ ToInt(out[k]) = k
Sound(q) ==
  /\ q.call \in Calls /\ q.shown \subseteq DOMAIN Code /\ Listed(q.output, q.shown)
  /\ q.call.tracker = "default" /\ q.call.resolver # "builtin" =>
       Reached[q.call] \cap DOMAIN Code \subseteq q.shown

Good(s) == Frame(s) /\ Tracked(s) /\ OnPath(s) /\ Complete(s)
IInv == TypeOK /\ (\A s \in Sessions : Good(s)) /\ (\A q \in results : Sound(q)) /\ Shared

---------------------------------------------------------------------------
(* Addresses.                                                              *)

LEMMA Wrapped ==
  ASSUME NEW x \in Int, NEW n \in Nat \ {0}
  PROVE  x % n \in 0 .. n - 1 /\ (x \in 0 .. n - 1 => x % n = x)
OBVIOUS

LEMMA Widths ==
  /\ UIntSpan \in Nat \ {0} /\ VmaSpan \in Nat \ {0} /\ UIntSpan < VmaSpan
  /\ UIntSpan \div 2 \in Nat /\ UIntSpan \div 2 < UIntSpan /\ InvalidAddr \in Vmas
<1>1. /\ UIntSpan \in Nat \ {0} /\ VmaSpan \in Nat \ {0} /\ UIntSpan < VmaSpan /\ UIntSpan >= 2
  BY WidthAssumption
<1>2. UIntSpan \div 2 \in Nat /\ UIntSpan \div 2 < UIntSpan BY <1>1
<1> QED BY <1>1, <1>2 DEF InvalidAddr, Vmas

\* A key of the output is a number; one that is an address agrees with it.
LEMMA ToIntFacts ==
  ASSUME NEW v \in Vmas
  PROVE  /\ ToInt(v) \in Int
         /\ ToInt(v) >= 0 => ToInt(v) = v % UIntSpan
<1>1. v \in Int BY Widths DEF Vmas
<1>2. v % UIntSpan \in 0 .. UIntSpan - 1 BY <1>1, Widths, Wrapped
<1>3. CASE v % UIntSpan < UIntSpan \div 2
  <2>1. ToInt(v) = v % UIntSpan BY <1>3 DEF ToInt
  <2> QED BY <2>1, <1>2, Widths
<1>4. CASE ~(v % UIntSpan < UIntSpan \div 2)
  <2>1. ToInt(v) = (v % UIntSpan) - UIntSpan BY <1>4 DEF ToInt
  <2> QED BY <2>1, <1>2, Widths
<1> QED BY <1>3, <1>4

LEMMA ToUIntFacts ==
  ASSUME NEW n \in Int
  PROVE  ToUInt(n) \in Vmas /\ (n \in 0 .. UIntSpan - 1 => ToUInt(n) = n)
<1>1. n % UIntSpan \in 0 .. UIntSpan - 1 /\ (n \in 0 .. UIntSpan - 1 => n % UIntSpan = n)
  BY Widths, Wrapped
<1> QED BY <1>1, Widths DEF ToUInt, Vmas

\* What an int can carry comes back as it was.
LEMMA ThroughInt ==
  ASSUME NEW v \in Vmas, v < UIntSpan PROVE ToUInt(ToInt(v)) = v
<1>1. v \in 0 .. UIntSpan - 1 /\ UIntSpan \in Nat \ {0} BY Widths DEF Vmas
<1>2. v % UIntSpan = v BY <1>1
<1>3. CASE v < UIntSpan \div 2
  <2>1. ToInt(v) = v BY <1>2, <1>3 DEF ToInt
  <2> QED BY <1>2, <2>1 DEF ToUInt
<1>4. CASE ~(v < UIntSpan \div 2)
  <2>1. ToInt(v) = v - UIntSpan BY <1>2, <1>4 DEF ToInt
  <2>2. (v - UIntSpan) % UIntSpan = v BY <1>1
  <2> QED BY <2>1, <2>2 DEF ToUInt
<1> QED BY <1>3, <1>4

LEMMA CodeFacts ==
  ASSUME NEW a \in DOMAIN Code
  PROVE  /\ a \in Vmas /\ a # InvalidAddr
         /\ Code[a].next \in Vmas /\ Code[a].target \in Vmas /\ DefaultResolver(a) \in Vmas
<1>1. Code[a] \in Instructions /\ a \in Vmas \ {InvalidAddr} BY CodeAssumption
<1>2. Code[a].next \in Vmas /\ Code[a].target \in Vmas BY <1>1 DEF Instructions
<1> QED BY <1>1, <1>2, Widths DEF DefaultResolver

LEMMA CallFacts ==
  ASSUME NEW c \in Calls
  PROVE  /\ c.start \in Vmas /\ c.tracker \in Trackers /\ c.resolver \in Resolvers
         /\ c # NoCall
BY CallAssumption

\* libopdis is told where the branch goes, through an int if that can carry it.
LEMMA SuccessorFacts ==
  ASSUME NEW a \in DOMAIN Code, NEW r \in Resolvers
  PROVE  /\ Successors(r, a) \subseteq Vmas
         /\ ~ResolverRaises(r, a)
            /\ (r = "builtin" /\ Code[a].branch => DefaultResolver(a) < UIntSpan) =>
              Successors(r, a) = Edges(r, a)
<1>1. /\ Code[a].next \in Vmas /\ Code[a].target \in Vmas /\ DefaultResolver(a) \in Vmas
  BY CodeFacts
<1>2. Code[a].target \in Int /\ DefaultResolver(a) \in Int BY <1>1, Widths DEF Vmas
<1>3. CASE r = "default"
  <2>1. Resolve(r, a) = DefaultResolver(a) /\ Targets(r, a) = {DefaultResolver(a)}
    BY <1>3 DEF Resolve, Targets
  <2> QED BY <2>1, <1>1 DEF Successors, Edges
<1>4. CASE r = "operand"
  <2>1. Resolve(r, a) = IF Code[a].target = InvalidAddr THEN InvalidAddr
                        ELSE ToUInt(Code[a].target)
    BY <1>4 DEF Resolve
  <2>2. Resolve(r, a) \in Vmas BY <2>1, <1>2, Widths, ToUIntFacts
  <2>3. Targets(r, a) = {Code[a].target} BY <1>4 DEF Targets
  <2>4. Code[a].branch /\ ~ResolverRaises(r, a) => Resolve(r, a) = Code[a].target
    <3>1. SUFFICES ASSUME Code[a].branch, ~ResolverRaises(r, a), Code[a].target # InvalidAddr
                   PROVE  ToUInt(Code[a].target) = Code[a].target
      BY <2>1
    <3>2. FitsUInt(Code[a].target) BY <3>1, <1>4 DEF ResolverRaises
    <3>3. Code[a].target \in 0 .. UIntSpan - 1
      BY <3>2, <1>1, Widths DEF FitsUInt, Vmas
    <3> QED BY <3>3, <1>2, ToUIntFacts
  <2> QED BY <2>2, <2>3, <2>4, <1>1 DEF Successors, Edges
<1>5. CASE r = "builtin"
  <2>1. Resolve(r, a) = ToUInt(ToInt(DefaultResolver(a))) BY <1>5 DEF Resolve
  <2>2. Resolve(r, a) \in Vmas BY <2>1, <1>1, ToIntFacts, ToUIntFacts
  <2>3. Targets(r, a) = {DefaultResolver(a)} BY <1>5 DEF Targets
  <2>4. DefaultResolver(a) < UIntSpan => Resolve(r, a) = DefaultResolver(a)
    BY <2>1, <1>1, ThroughInt
  <2> QED BY <2>2, <2>3, <2>4, <1>1, <1>5 DEF Successors, Edges
<1> QED BY <1>3, <1>4, <1>5 DEF Resolvers

---------------------------------------------------------------------------
(* What control flow reaches.                                              *)

LEMMA EdgesMentioned ==
  ASSUME NEW a \in DOMAIN Code, NEW r \in Resolvers PROVE Edges(r, a) \subseteq Mentioned
BY DEF Mentioned

LEMMA ReachedFacts ==
  ASSUME NEW c \in Calls
  PROVE  /\ c.start \in Reached[c]
         /\ \A a \in Reached[c] \cap DOMAIN Code : Edges(c.resolver, a) \subseteq Reached[c]
         /\ \A S \in SUBSET Mentioned : Closed(c, S) => Reached[c] \subseteq S
<1>1. Reached[c] = {a \in Mentioned : \A S \in SUBSET Mentioned : Closed(c, S) => a \in S}
  BY DEF Reached
<1>2. c.start \in Mentioned BY DEF Mentioned
<1>3. c.start \in Reached[c] BY <1>1, <1>2 DEF Closed
<1>4. ASSUME NEW a \in Reached[c] \cap DOMAIN Code, NEW x \in Edges(c.resolver, a)
      PROVE  x \in Reached[c]
  <2>1. x \in Mentioned BY CallFacts, EdgesMentioned
  <2>2. ASSUME NEW S \in SUBSET Mentioned, Closed(c, S) PROVE x \in S
    <3>1. a \in S BY <1>1, <2>2
    <3> QED BY <3>1, <2>2 DEF Closed
  <2> QED BY <1>1, <2>1, <2>2
<1> QED BY <1>1, <1>3, <1>4

\* A set that has the start, and what follows from its members, as far as there is
\* code, has all the code that is reached.
LEMMA ReachedWithin ==
  ASSUME NEW c \in Calls, NEW K,
         c.start \in DOMAIN Code => c.start \in K,
         \A a \in K \cap DOMAIN Code : \A x \in Edges(c.resolver, a) :
           x \in DOMAIN Code => x \in K
  PROVE  Reached[c] \cap DOMAIN Code \subseteq K
<1> DEFINE S == {x \in Mentioned : x \in DOMAIN Code => x \in K}
<1>1. c.start \in S BY DEF Mentioned
<1>2. ASSUME NEW a \in S \cap DOMAIN Code, NEW x \in Edges(c.resolver, a) PROVE x \in S
  BY CallFacts, EdgesMentioned
<1>3. Closed(c, S) BY <1>1, <1>2 DEF Closed
<1>4. Reached[c] \subseteq S BY <1>3, ReachedFacts
<1> QED BY <1>4

---------------------------------------------------------------------------
(* One session steps, the others keep their calls.                         *)

Others(s) ==
  \A t \in Sessions \ {s} :
    /\ pc'[t] = pc[t] /\ call'[t] = call[t] /\ todo'[t] = todo[t] /\ insn'[t] = insn[t]
    /\ seen'[t] = seen[t] /\ output'[t] = output[t] /\ errors'[t] = errors[t]
    /\ shown'[t] = shown[t]

LEMMA OthersGood ==
  ASSUME IInv, NEW s \in Sessions, Others(s), marked \subseteq marked'
  PROVE  \A t \in Sessions \ {s} : Good(t)'
<1> TAKE t \in Sessions \ {s}
<1>1. /\ pc'[t] = pc[t] /\ call'[t] = call[t] /\ todo'[t] = todo[t] /\ insn'[t] = insn[t]
      /\ seen'[t] = seen[t] /\ output'[t] = output[t] /\ errors'[t] = errors[t]
      /\ shown'[t] = shown[t]
  BY DEF Others
<1>2. Frame(t) /\ Tracked(t) /\ OnPath(t) /\ Complete(t) BY DEF IInv, Good
<1>3. Held(t)' = Held(t) /\ Settled(t)' = Settled(t) BY <1>1 DEF Held, Settled
<1>4. Frame(t)' BY <1>1, <1>2 DEF Frame
<1>5. Tracked(t)' BY <1>1, <1>2, <1>3 DEF Tracked
<1>6. OnPath(t)' BY <1>1, <1>2, <1>3 DEF OnPath, Carried
<1>7. \A x : Ahead(t, x)' <=> Ahead(t, x) BY <1>1 DEF Ahead
<1>8. Complete(t)'
  <2> SUFFICES ASSUME pc'[t] # "idle", call'[t].tracker = "default",
                      call'[t].resolver # "builtin"
               PROVE  /\ Ahead(t, call[t].start)'
                      /\ \A a \in Settled(t)' : \A x \in Edges(call[t].resolver, a)' : Ahead(t, x)'
    BY DEF Complete
  <2> QED BY <1>1, <1>2, <1>3, <1>7 DEF Complete, Ahead
<1> QED BY <1>4, <1>5, <1>6, <1>8 DEF Good

LEMMA Assemble ==
  ASSUME IInv, NEW s \in Sessions, Others(s), marked \subseteq marked', results' = results,
         TypeOK', Good(s)', Shared'
  PROVE  IInv'
<1>1. \A t \in Sessions : Good(t)' BY OthersGood
<1>2. \A q \in results' : Sound(q)' BY DEF IInv, Sound, Listed
<1> QED BY <1>1, <1>2 DEF IInv

\* What is kept or covered stays so, if what the session had stays so.
LEMMA CoverGrows ==
  ASSUME NEW s \in Sessions, Others(s), results \subseteq results',
         s \in Marking => \A x \in shown[s] \cup Held(s) : Kept(x)'
  PROVE  /\ \A x : Kept(x) => Kept(x)'
         /\ (s \in Marking => \A x \in todo[s] : Covered(x)') =>
              \A x : Covered(x) => Covered(x)'
<1>1. \A t \in Marking \ {s} :
        t \in Marking' /\ shown'[t] = shown[t] /\ Held(t)' = Held(t) /\ todo'[t] = todo[t]
  BY DEF Marking, Others, Held
<1>2. ASSUME NEW x, Kept(x) PROVE Kept(x)'
  <2>1. CASE \E q \in Sharing : x \in q.shown BY <2>1 DEF Kept, Sharing
  <2>2. CASE \E t \in Marking : x \in shown[t] \cup Held(t)
    <3>1. PICK t \in Marking : x \in shown[t] \cup Held(t) BY <2>2
    <3>2. CASE t = s BY <3>1, <3>2
    <3>3. CASE t # s BY <3>1, <3>3, <1>1 DEF Kept
    <3> QED BY <3>2, <3>3
  <2> QED BY <1>2, <2>1, <2>2 DEF Kept
<1>3. ASSUME s \in Marking => \A x \in todo[s] : Covered(x)', NEW x, Covered(x)
      PROVE  Covered(x)'
  <2>1. CASE x \notin DOMAIN Code BY <2>1 DEF Covered
  <2>2. CASE Kept(x) BY <2>2, <1>2 DEF Covered
  <2>3. CASE \E t \in Marking : x \in todo[t]
    <3>1. PICK t \in Marking : x \in todo[t] BY <2>3
    <3>2. CASE t = s BY <3>1, <3>2, <1>3
    <3>3. CASE t # s BY <3>1, <3>3, <1>1 DEF Covered
    <3> QED BY <3>2, <3>3
  <2> QED BY <1>3, <2>1, <2>2, <2>3 DEF Covered
<1> QED BY <1>2, <1>3

\* A session goes on with its call.
LEMMA RunningShared ==
  ASSUME IInv, NEW s \in Sessions, Others(s), pc[s] # "idle", pc'[s] # "idle",
         call' = call, results' = results, abandoned' = abandoned,
         s \in Marking => shown[s] \cup Held(s) \subseteq shown'[s] \cup Held(s)',
         s \in Marking /\ abandoned = 0 =>
           \A x \in todo[s] \ todo'[s] : x \notin DOMAIN Code \/ x \in Held(s)' \/ x \in marked,
         \A x \in marked' \ marked : s \in Marking /\ x \in Held(s)',
         s \in Marking /\ call[s].resolver # "builtin" =>
           \A a \in Settled(s)' \ Settled(s) : Edges(call[s].resolver, a) \subseteq todo'[s]
  PROVE  Shared'
<1> SUFFICES ASSUME abandoned = 0
             PROVE  /\ \A x \in marked' : Kept(x)'
                    /\ \A t \in Marking' :
                         /\ Covered(call[t].start)'
                         /\ call[t].resolver # "builtin" =>
                              \A a \in Settled(t)' : \A x \in Edges(call[t].resolver, a) :
                                Covered(x)'
                    /\ \A q \in Sharing :
                         /\ Covered(q.call.start)'
                         /\ q.call.resolver # "builtin" =>
                              \A a \in q.shown : \A x \in Edges(q.call.resolver, a) : Covered(x)'
  BY DEF Shared, Sharing, Covered
<1>1. Shared BY DEF IInv
<1>2. s \in Marking <=> s \in Marking' BY DEF Marking
<1>3. s \in Marking => \A x \in shown'[s] \cup Held(s)' : Kept(x)' BY <1>2 DEF Kept
<1>4. \A x : Kept(x) => Kept(x)' BY <1>3, CoverGrows
<1>5. s \in Marking => \A x \in todo[s] : Covered(x)'
  <2> SUFFICES ASSUME s \in Marking, NEW x \in todo[s] PROVE Covered(x)' OBVIOUS
  <2>1. CASE x \in todo'[s] BY <2>1, <1>2 DEF Covered
  <2>2. CASE x \notin DOMAIN Code BY <2>2 DEF Covered
  <2>3. CASE x \in Held(s)' BY <2>3, <1>3 DEF Covered
  <2>4. CASE x \in marked BY <2>4, <1>1, <1>4 DEF Covered, Shared
  <2> QED BY <2>1, <2>2, <2>3, <2>4
<1>6. \A x : Covered(x) => Covered(x)' BY <1>3, <1>5, CoverGrows
<1>7. \A x \in marked' : Kept(x)' BY <1>1, <1>3, <1>4 DEF Shared
<1>8. ASSUME NEW t \in Marking'
      PROVE  /\ Covered(call[t].start)'
             /\ call[t].resolver # "builtin" =>
                  \A a \in Settled(t)' : \A x \in Edges(call[t].resolver, a) : Covered(x)'
  <2>1. t \in Marking BY <1>2, <1>8 DEF Marking, Others
  <2>2. Covered(call[t].start) /\
          (call[t].resolver # "builtin" =>
             \A a \in Settled(t) : \A x \in Edges(call[t].resolver, a) : Covered(x))
    BY <1>1, <2>1 DEF Shared
  <2>3. Covered(call[t].start)'
    <3>1. PICK v : v = call[t].start OBVIOUS
    <3>2. v = call'[t].start BY <3>1
    <3>3. Covered(v)' BY <2>2, <3>1, <1>6
    <3> QED BY <3>2, <3>3 DEF Covered, Kept
  <2>4. ASSUME call[t].resolver # "builtin", NEW a \in Settled(t)',
               NEW x \in Edges(call[t].resolver, a)
        PROVE  Covered(x)'
    <3>1. CASE a \in Settled(t) BY <3>1, <2>2, <2>4, <1>6
    <3>2. CASE a \notin Settled(t)
      <4>1. t = s BY <3>2, <2>1, <2>4 DEF Others, Settled, Marking
      <4>2. x \in todo'[s] BY <3>2, <4>1, <2>1, <2>4
      <4> QED BY <4>1, <4>2, <1>2, <2>1 DEF Covered
    <3> QED BY <3>1, <3>2
  <2> QED BY <2>3, <2>4
<1>9. ASSUME NEW q \in Sharing
      PROVE  /\ Covered(q.call.start)'
             /\ q.call.resolver # "builtin" =>
                  \A a \in q.shown : \A x \in Edges(q.call.resolver, a) : Covered(x)'
  BY <1>1, <1>6 DEF Shared
<1> QED BY <1>7, <1>8, <1>9

---------------------------------------------------------------------------
(* The steps of a call.                                                    *)

\* What the invariant says of one running session.
LEMMA Running ==
  ASSUME IInv, NEW s \in Sessions, pc[s] # "idle"
  PROVE  /\ TypeOK /\ Good(s) /\ Frame(s) /\ Tracked(s) /\ OnPath(s) /\ Complete(s)
         /\ call[s] \in Calls /\ call[s].tracker \in Trackers /\ call[s].resolver \in Resolvers
<1>1. TypeOK /\ Good(s) BY DEF IInv
<1>2. Frame(s) /\ Tracked(s) /\ OnPath(s) /\ Complete(s) BY <1>1 DEF Good
<1> QED BY <1>1, <1>2, CallFacts DEF Frame

LEMMA BoundsStep ==
  ASSUME IInv, NEW s \in Sessions, NEW a \in todo[s], Bounds(s, a) PROVE IInv'
<1>1. pc[s] = "work" /\ a \notin DOMAIN Code BY DEF Bounds
<1>2. TypeOK /\ Frame(s) /\ Tracked(s) /\ OnPath(s) /\ Complete(s) /\ call[s] \in Calls
  BY <1>1, Running
<1>3. /\ pc' = pc /\ call' = call /\ insn' = insn /\ seen' = seen /\ output' = output
      /\ shown' = shown /\ marked' = marked /\ visited' = visited /\ calls' = calls
      /\ abandoned' = abandoned /\ results' = results
      /\ errors' = [errors EXCEPT ![s] = @ \cup {a}] /\ todo' = [todo EXCEPT ![s] = @ \ {a}]
  BY DEF Bounds
<1>4. todo'[s] = todo[s] \ {a} /\ errors'[s] = errors[s] \cup {a} /\ Others(s)
  BY <1>2, <1>3 DEF TypeOK, Others
<1>5. TypeOK'
  <2>1. todo' \in [Sessions -> SUBSET Vmas] /\ errors' \in [Sessions -> SUBSET Vmas]
    BY <1>2, <1>3 DEF TypeOK
  <2> QED BY <1>2, <1>3, <2>1 DEF TypeOK
<1>6. Held(s)' = Held(s) /\ Settled(s)' = Settled(s) BY <1>3 DEF Held, Settled
<1>7. Good(s)'
  <2>1. Frame(s)' BY <1>1, <1>2, <1>3 DEF Frame
  <2>2. Tracked(s)' BY <1>2, <1>3, <1>6 DEF Tracked
  <2>3. OnPath(s)' BY <1>2, <1>3, <1>4, <1>6 DEF OnPath, Carried
  <2>4. \A x : Ahead(s, x) => Ahead(s, x)' BY <1>1, <1>3, <1>4 DEF Ahead
  <2>5. Complete(s)'
    <3> SUFFICES ASSUME call[s].tracker = "default", call[s].resolver # "builtin"
                 PROVE  /\ Ahead(s, call[s].start)'
                        /\ \A b \in Settled(s) : \A x \in Edges(call[s].resolver, b) : Ahead(s, x)'
      BY <1>3, <1>6 DEF Complete, Ahead
    <3>1. PICK v : v = call[s].start OBVIOUS
    <3>2. Ahead(s, v)' BY <1>1, <1>2, <2>4, <3>1 DEF Complete
    <3> QED BY <1>1, <1>2, <1>3, <2>4, <3>1, <3>2 DEF Complete, Ahead
  <2> QED BY <2>1, <2>2, <2>3, <2>5 DEF Good
<1>8. Shared'
  <2>1. \A x \in todo[s] \ todo'[s] : x \notin DOMAIN Code BY <1>1, <1>4
  <2> QED BY <1>1, <1>3, <1>4, <1>6, <2>1, RunningShared
<1> QED BY <1>3, <1>4, <1>5, <1>7, <1>8, Assemble

\* The handler is asked: what both answers have in common.
LEMMA AskFacts ==
  ASSUME IInv, NEW s \in Sessions, NEW a \in todo[s], Asks(s, a), Remember(s, a)
  PROVE  /\ pc[s] = "work" /\ a \in DOMAIN Code
         /\ seen' \in [Sessions -> SUBSET DOMAIN Code] /\ visited' \subseteq DOMAIN Code
         /\ seen'[s] = IF call[s].tracker = "default" THEN seen[s] \cup {a} ELSE seen[s]
         /\ \A t \in Sessions \ {s} : seen'[t] = seen[t]
<1>1. pc[s] = "work" /\ a \in DOMAIN Code BY DEF Asks
<1>2. seen \in [Sessions -> SUBSET DOMAIN Code] /\ visited \subseteq DOMAIN Code
  BY DEF IInv, TypeOK
<1>3. visited' \subseteq DOMAIN Code BY <1>1, <1>2 DEF Remember
<1>4. CASE call[s].tracker = "default"
  <2>1. seen' = [seen EXCEPT ![s] = @ \cup {a}] BY <1>4 DEF Remember
  <2> QED BY <1>1, <1>2, <1>3, <1>4, <2>1
<1>5. CASE call[s].tracker # "default"
  <2>1. seen' = seen BY <1>5 DEF Remember
  <2> QED BY <1>1, <1>2, <1>3, <1>5, <2>1
<1> QED BY <1>4, <1>5

LEMMA HandleStep ==
  ASSUME IInv, NEW s \in Sessions, NEW a \in todo[s], Handle(s, a) PROVE IInv'
<1>1. /\ pc[s] = "work" /\ a \in DOMAIN Code
      /\ seen' \in [Sessions -> SUBSET DOMAIN Code] /\ visited' \subseteq DOMAIN Code
      /\ seen'[s] = IF call[s].tracker = "default" THEN seen[s] \cup {a} ELSE seen[s]
      /\ \A t \in Sessions \ {s} : seen'[t] = seen[t]
  BY AskFacts DEF Handle
<1>2. /\ TypeOK /\ Frame(s) /\ Tracked(s) /\ OnPath(s) /\ Complete(s) /\ call[s] \in Calls
      /\ call[s].tracker \in Trackers
  BY <1>1, Running
<1>3. /\ call' = call /\ output' = output /\ errors' = errors /\ shown' = shown
      /\ marked' = marked /\ calls' = calls /\ abandoned' = abandoned /\ results' = results
      /\ pc' = [pc EXCEPT ![s] = "display"] /\ insn' = [insn EXCEPT ![s] = a]
      /\ todo' = [todo EXCEPT ![s] = @ \ {a}]
  BY DEF Handle
<1>4. /\ pc'[s] = "display" /\ insn'[s] = a /\ todo'[s] = todo[s] \ {a} /\ Others(s)
  BY <1>1, <1>2, <1>3 DEF TypeOK, Others
<1>5. TypeOK'
  <2>1. /\ pc' \in [Sessions -> {"idle", "work", "display", "record", "advance"}]
        /\ todo' \in [Sessions -> SUBSET Vmas] /\ insn' \in [Sessions -> Vmas]
    BY <1>1, <1>2, <1>3, CodeFacts DEF TypeOK
  <2>2. \A t \in Sessions : pc'[t] \in {"display", "record", "advance"} => insn'[t] \in DOMAIN Code
    BY <1>1, <1>2, <1>4 DEF TypeOK, Others
  <2> QED BY <1>1, <1>2, <1>3, <2>1, <2>2 DEF TypeOK
<1>6. Held(s) = {} /\ Held(s)' = {a} /\ Settled(s)' = shown[s] /\ Settled(s) = shown[s]
  BY <1>1, <1>3, <1>4 DEF Held, Settled
<1>7. Good(s)'
  <2>1. Frame(s)' BY <1>2, <1>3, <1>4 DEF Frame
  <2>2. Continue(s, a) BY DEF Handle
  <2>3. call[s].tracker # "builtin" => a \notin shown[s]
    <3>1. CASE call[s].tracker = "default"
      BY <1>1, <1>2, <1>6, <2>2, <3>1 DEF Continue, Tracked
    <3>2. CASE call[s].tracker = "marking"
      BY <1>1, <1>2, <2>2, <3>2 DEF Continue, Tracked
    <3> QED BY <1>2, <3>1, <3>2 DEF Trackers
  <2>4. Tracked(s)' BY <1>1, <1>2, <1>3, <1>4, <1>6, <2>3 DEF Tracked
  <2>5. OnPath(s)' BY <1>1, <1>2, <1>3, <1>4, <1>6 DEF OnPath, Carried
  <2>6. call[s].tracker = "default" => \A x : Ahead(s, x) => Ahead(s, x)'
    BY <1>1, <1>3, <1>4 DEF Ahead
  <2>7. Complete(s)'
    <3> SUFFICES ASSUME call[s].tracker = "default", call[s].resolver # "builtin"
                 PROVE  /\ Ahead(s, call[s].start)'
                        /\ \A b \in shown[s] : \A x \in Edges(call[s].resolver, b) : Ahead(s, x)'
      BY <1>3, <1>6 DEF Complete, Ahead
    <3>1. PICK v : v = call[s].start OBVIOUS
    <3>2. Ahead(s, v)' BY <1>1, <1>2, <2>6, <3>1 DEF Complete
    <3> QED BY <1>1, <1>2, <1>3, <1>6, <2>6, <3>1, <3>2 DEF Complete, Ahead
  <2> QED BY <2>1, <2>4, <2>5, <2>7 DEF Good
<1>8. Shared'
  <2>1. \A x \in todo[s] \ todo'[s] : x \in Held(s)' BY <1>4, <1>6
  <2> QED BY <1>1, <1>3, <1>4, <1>6, <2>1, RunningShared
<1> QED BY <1>3, <1>4, <1>5, <1>7, <1>8, Assemble

LEMMA StopStep ==
  ASSUME IInv, NEW s \in Sessions, NEW a \in todo[s], Stop(s, a) PROVE IInv'
<1>1. /\ pc[s] = "work" /\ a \in DOMAIN Code
      /\ seen' \in [Sessions -> SUBSET DOMAIN Code] /\ visited' \subseteq DOMAIN Code
      /\ seen'[s] = IF call[s].tracker = "default" THEN seen[s] \cup {a} ELSE seen[s]
      /\ \A t \in Sessions \ {s} : seen'[t] = seen[t]
  BY AskFacts DEF Stop
<1>2. /\ TypeOK /\ Frame(s) /\ Tracked(s) /\ OnPath(s) /\ Complete(s) /\ call[s] \in Calls
  BY <1>1, Running
<1>3. /\ pc' = pc /\ call' = call /\ insn' = insn /\ output' = output /\ errors' = errors
      /\ shown' = shown /\ marked' = marked /\ calls' = calls /\ abandoned' = abandoned
      /\ results' = results /\ todo' = [todo EXCEPT ![s] = @ \ {a}]
  BY DEF Stop
<1>4. todo'[s] = todo[s] \ {a} /\ Others(s) BY <1>1, <1>2, <1>3 DEF TypeOK, Others
<1>5. TypeOK'
  <2>1. todo' \in [Sessions -> SUBSET Vmas] BY <1>2, <1>3 DEF TypeOK
  <2> QED BY <1>1, <1>2, <1>3, <2>1 DEF TypeOK
<1>6. Held(s)' = Held(s) /\ Settled(s)' = Settled(s) BY <1>3 DEF Held, Settled
<1>7. call[s].tracker = "default" => a \in seen[s] BY DEF Stop, Continue
<1>8. call[s].tracker = "marking" => a \in marked BY DEF Stop, Continue
<1>9. Good(s)'
  <2>1. Frame(s)' BY <1>1, <1>2, <1>3 DEF Frame
  <2>2. Tracked(s)' BY <1>1, <1>2, <1>3, <1>6, <1>7 DEF Tracked
  <2>3. OnPath(s)' BY <1>2, <1>3, <1>4, <1>6 DEF OnPath, Carried
  <2>4. call[s].tracker = "default" => \A x : Ahead(s, x) => Ahead(s, x)'
    BY <1>1, <1>4, <1>7 DEF Ahead
  <2>5. Complete(s)'
    <3> SUFFICES ASSUME call[s].tracker = "default", call[s].resolver # "builtin"
                 PROVE  /\ Ahead(s, call[s].start)'
                        /\ \A b \in Settled(s) : \A x \in Edges(call[s].resolver, b) : Ahead(s, x)'
      BY <1>3, <1>6 DEF Complete, Ahead
    <3>1. PICK v : v = call[s].start OBVIOUS
    <3>2. Ahead(s, v)' BY <1>1, <1>2, <2>4, <3>1 DEF Complete
    <3> QED BY <1>1, <1>2, <1>3, <2>4, <3>1, <3>2 DEF Complete, Ahead
  <2> QED BY <2>1, <2>2, <2>3, <2>5 DEF Good
<1>10. Shared'
  <2>1. s \in Marking => \A x \in todo[s] \ todo'[s] : x \in marked
    BY <1>4, <1>8 DEF Marking
  <2> QED BY <1>1, <1>3, <1>4, <1>6, <2>1, RunningShared
<1> QED BY <1>3, <1>4, <1>5, <1>9, <1>10, Assemble

LEMMA BlockStep ==
  ASSUME IInv, NEW s \in Sessions, Block(s) PROVE IInv'
<1>1. pc[s] = "display" BY DEF Block
<1>2. /\ TypeOK /\ Frame(s) /\ Tracked(s) /\ OnPath(s) /\ Complete(s) /\ call[s] \in Calls
  BY <1>1, Running
<1>3. /\ call' = call /\ todo' = todo /\ insn' = insn /\ seen' = seen /\ output' = output
      /\ errors' = errors /\ shown' = shown /\ visited' = visited /\ calls' = calls
      /\ abandoned' = abandoned /\ results' = results
      /\ pc' = [pc EXCEPT ![s] = "record"] /\ marked' = Visit(s)
  BY DEF Block
<1>4. pc'[s] = "record" /\ Others(s) BY <1>2, <1>3 DEF TypeOK, Others
<1>5. insn[s] \in DOMAIN Code BY <1>1, <1>2 DEF TypeOK
<1>6. marked' = IF call[s].tracker = "marking" THEN marked \cup {insn[s]} ELSE marked
  BY <1>3 DEF Visit
<1>7. TypeOK'
  <2>1. /\ pc' \in [Sessions -> {"idle", "work", "display", "record", "advance"}]
        /\ marked' \subseteq DOMAIN Code
    BY <1>2, <1>3, <1>5, <1>6 DEF TypeOK
  <2>2. \A t \in Sessions : pc'[t] \in {"display", "record", "advance"} => insn'[t] \in DOMAIN Code
    BY <1>2, <1>3, <1>4, <1>5 DEF TypeOK, Others
  <2> QED BY <1>2, <1>3, <2>1, <2>2 DEF TypeOK
<1>8. Held(s) = {insn[s]} /\ Held(s)' = {insn[s]} /\ Settled(s)' = Settled(s)
  BY <1>1, <1>3, <1>4 DEF Held, Settled
<1>9. Good(s)'
  <2>1. Frame(s)' BY <1>1, <1>2, <1>3, <1>4 DEF Frame
  <2>2. Tracked(s)' BY <1>1, <1>2, <1>3, <1>4, <1>6, <1>8 DEF Tracked
  <2>3. OnPath(s)' BY <1>1, <1>2, <1>3, <1>4, <1>8 DEF OnPath, Carried
  <2>4. Complete(s)' BY <1>1, <1>2, <1>3, <1>8 DEF Complete, Ahead
  <2> QED BY <2>1, <2>2, <2>3, <2>4 DEF Good
<1>10. Shared'
  <2>1. \A x \in marked' \ marked : s \in Marking /\ x \in Held(s)'
    BY <1>1, <1>6, <1>8 DEF Marking
  <2> QED BY <1>1, <1>3, <1>4, <1>8, <2>1, RunningShared
<1> QED BY <1>3, <1>4, <1>6, <1>7, <1>9, <1>10, Assemble

\* rb_hash_aset on a sound output.
LEMMA RecordFacts ==
  ASSUME NEW out, NEW S, Listed(out, S), NEW v \in Vmas
  PROVE  Listed(Record(out, v), S \cup {v})
BY ToIntFacts DEF Listed, Record

LEMMA StoreStep ==
  ASSUME IInv, NEW s \in Sessions, Store(s) PROVE IInv'
<1>1. pc[s] = "record" BY DEF Store
<1>2. /\ TypeOK /\ Frame(s) /\ Tracked(s) /\ OnPath(s) /\ Complete(s) /\ call[s] \in Calls
  BY <1>1, Running
<1>3. /\ call' = call /\ todo' = todo /\ insn' = insn /\ seen' = seen /\ errors' = errors
      /\ marked' = marked /\ visited' = visited /\ calls' = calls /\ abandoned' = abandoned
      /\ results' = results
      /\ pc' = [pc EXCEPT ![s] = "advance"] /\ output' = [output EXCEPT ![s] = Record(@, insn[s])]
      /\ shown' = [shown EXCEPT ![s] = @ \cup {insn[s]}]
  BY DEF Store
<1>4. /\ pc'[s] = "advance" /\ output'[s] = Record(output[s], insn[s])
      /\ shown'[s] = shown[s] \cup {insn[s]} /\ Others(s)
  BY <1>2, <1>3 DEF TypeOK, Others
<1>5. insn[s] \in DOMAIN Code /\ insn[s] \in Vmas BY <1>1, <1>2, CodeFacts DEF TypeOK
<1>6. TypeOK'
  <2>1. /\ pc' \in [Sessions -> {"idle", "work", "display", "record", "advance"}]
        /\ shown' \in [Sessions -> SUBSET DOMAIN Code] /\ DOMAIN output' = Sessions
    BY <1>2, <1>3, <1>5 DEF TypeOK
  <2>2. \A t \in Sessions : pc'[t] \in {"display", "record", "advance"} => insn'[t] \in DOMAIN Code
    BY <1>2, <1>3, <1>4, <1>5 DEF TypeOK, Others
  <2>3. \A t \in Sessions : Listed(output'[t], shown'[t])
    <3>1. \A t \in Sessions : Listed(output[t], shown[t]) BY <1>2 DEF TypeOK, Listed
    <3>2. Listed(output'[s], shown'[s]) BY <1>4, <1>5, <3>1, RecordFacts
    <3> QED BY <1>4, <3>1, <3>2 DEF Others
  <2> QED BY <1>2, <1>3, <2>1, <2>2, <2>3 DEF TypeOK, Listed
<1>7. Held(s) = {insn[s]} /\ Held(s)' = {} /\ Settled(s) = shown[s] /\ Settled(s)' \subseteq shown[s]
  BY <1>1, <1>3, <1>4 DEF Held, Settled
<1>8. Good(s)'
  <2>1. Frame(s)' BY <1>1, <1>2, <1>3, <1>4 DEF Frame
  <2>2. Tracked(s)' BY <1>1, <1>2, <1>3, <1>4, <1>7 DEF Tracked
  <2>3. OnPath(s)' BY <1>1, <1>2, <1>3, <1>4, <1>7 DEF OnPath, Carried
  <2>4. Complete(s)' BY <1>1, <1>2, <1>3, <1>7 DEF Complete, Ahead
  <2> QED BY <2>1, <2>2, <2>3, <2>4 DEF Good
<1>9. Shared' BY <1>1, <1>3, <1>4, <1>7, RunningShared
<1> QED BY <1>3, <1>4, <1>6, <1>8, <1>9, Assemble

LEMMA AdvanceStep ==
  ASSUME IInv, NEW s \in Sessions, Advance(s) PROVE IInv'
<1>1. pc[s] = "advance" /\ ~ResolverRaises(call[s].resolver, insn[s]) BY DEF Advance
<1>2. /\ TypeOK /\ Frame(s) /\ Tracked(s) /\ OnPath(s) /\ Complete(s) /\ call[s] \in Calls
      /\ call[s].resolver \in Resolvers
  BY <1>1, Running
<1>3. PICK r : r = call[s].resolver OBVIOUS
<1>4. PICK i : i = insn[s] OBVIOUS
<1>5. i \in DOMAIN Code /\ i \in shown[s] BY <1>1, <1>2, <1>4 DEF TypeOK, Frame
<1>6. PICK T : T = Successors(r, i) OBVIOUS
<1>7. T \subseteq Vmas /\ (r # "builtin" \/ Carried(s) => T = Edges(r, i))
  BY <1>1, <1>2, <1>3, <1>4, <1>5, <1>6, SuccessorFacts DEF Carried
<1>8. /\ call' = call /\ seen' = seen /\ output' = output /\ errors' = errors /\ shown' = shown
      /\ marked' = marked /\ visited' = visited /\ calls' = calls /\ abandoned' = abandoned
      /\ results' = results
      /\ pc' = [pc EXCEPT ![s] = "work"] /\ insn' = [insn EXCEPT ![s] = InvalidAddr]
      /\ todo' = [todo EXCEPT ![s] = @ \cup T]
  BY <1>3, <1>4, <1>6 DEF Advance
<1>9. pc'[s] = "work" /\ todo'[s] = todo[s] \cup T /\ Others(s)
  BY <1>2, <1>8 DEF TypeOK, Others
<1>10. TypeOK'
  <2>1. /\ pc' \in [Sessions -> {"idle", "work", "display", "record", "advance"}]
        /\ todo' \in [Sessions -> SUBSET Vmas] /\ insn' \in [Sessions -> Vmas]
    BY <1>2, <1>7, <1>8, Widths DEF TypeOK
  <2>2. \A t \in Sessions : pc'[t] \in {"display", "record", "advance"} => insn'[t] \in DOMAIN Code
    BY <1>2, <1>9 DEF TypeOK, Others
  <2> QED BY <1>2, <1>8, <2>1, <2>2 DEF TypeOK
<1>11. Held(s) = {} /\ Held(s)' = {} /\ Settled(s) = shown[s] \ {i} /\ Settled(s)' = shown[s]
  BY <1>1, <1>4, <1>8, <1>9 DEF Held, Settled
<1>12. Good(s)'
  <2>1. Frame(s)' BY <1>1, <1>2, <1>8, <1>9 DEF Frame
  <2>2. Tracked(s)' BY <1>1, <1>2, <1>8, <1>9, <1>11 DEF Tracked
  <2>3. OnPath(s)'
    <3>1. Carried(s) => T \subseteq Reached[call[s]]
      <4>1. Carried(s) => i \in Reached[call[s]] BY <1>1, <1>2, <1>5 DEF OnPath
      <4> QED BY <4>1, <1>2, <1>3, <1>5, <1>7, ReachedFacts
    <3>2. Carried(s)' <=> Carried(s) BY <1>8 DEF Carried
    <3> QED BY <1>1, <1>2, <1>3, <1>8, <1>9, <1>11, <3>1, <3>2 DEF OnPath
  <2>4. \A x : Ahead(s, x) => Ahead(s, x)' BY <1>8, <1>9 DEF Ahead
  <2>5. \A x \in T : Ahead(s, x)' BY <1>9 DEF Ahead
  <2>6. Complete(s)'
    <3> SUFFICES ASSUME call[s].tracker = "default", r # "builtin"
                 PROVE  /\ Ahead(s, call[s].start)'
                        /\ \A b \in shown[s] : \A x \in Edges(r, b) : Ahead(s, x)'
      BY <1>3, <1>8, <1>11 DEF Complete, Ahead
    <3>1. PICK v : v = call[s].start OBVIOUS
    <3>2. Ahead(s, v)' BY <1>1, <1>2, <1>3, <2>4, <3>1 DEF Complete
    <3>3. \A b \in shown[s] \ {i} : \A x \in Edges(r, b) : Ahead(s, x)'
      BY <1>1, <1>2, <1>3, <1>11, <2>4 DEF Complete
    <3> QED BY <1>7, <1>8, <2>5, <3>1, <3>2, <3>3 DEF Ahead
  <2> QED BY <2>1, <2>2, <2>3, <2>6 DEF Good
<1>13. Shared'
  <2>1. r # "builtin" => \A b \in Settled(s)' \ Settled(s) : Edges(r, b) \subseteq todo'[s]
    BY <1>7, <1>9, <1>11
  <2> QED BY <1>1, <1>3, <1>8, <1>9, <1>11, <2>1, RunningShared
<1> QED BY <1>8, <1>9, <1>10, <1>12, <1>13, Assemble

---------------------------------------------------------------------------
(* The ends of a call.                                                     *)

LEMMA LeaveFacts ==
  ASSUME IInv, NEW s \in Sessions, Leave(s), marked \subseteq marked', marked' \subseteq DOMAIN Code,
         visited' = visited, calls' = calls, abandoned' \in Nat
  PROVE  /\ pc'[s] = "idle" /\ shown'[s] = {} /\ Others(s)
         /\ TypeOK' /\ \A t \in Sessions : Good(t)'
<1>1. TypeOK BY DEF IInv
<1>2. /\ pc' = [pc EXCEPT ![s] = "idle"] /\ call' = [call EXCEPT ![s] = NoCall]
      /\ todo' = [todo EXCEPT ![s] = {}] /\ insn' = [insn EXCEPT ![s] = InvalidAddr]
      /\ seen' = [seen EXCEPT ![s] = {}] /\ output' = [output EXCEPT ![s] = Empty]
      /\ errors' = [errors EXCEPT ![s] = {}] /\ shown' = [shown EXCEPT ![s] = {}]
  BY DEF Leave
<1>3. /\ pc'[s] = "idle" /\ call'[s] = NoCall /\ todo'[s] = {} /\ output'[s] = Empty
      /\ seen'[s] = {} /\ errors'[s] = {} /\ shown'[s] = {}
  BY <1>1, <1>2 DEF TypeOK
<1>4. Others(s) BY <1>1, <1>2 DEF TypeOK, Others
<1>5. TypeOK'
  <2>1. /\ pc' \in [Sessions -> {"idle", "work", "display", "record", "advance"}]
        /\ call' \in [Sessions -> Calls \cup {NoCall}]
        /\ todo' \in [Sessions -> SUBSET Vmas] /\ insn' \in [Sessions -> Vmas]
    BY <1>1, <1>2, Widths DEF TypeOK
  <2>2. /\ seen' \in [Sessions -> SUBSET DOMAIN Code] /\ errors' \in [Sessions -> SUBSET Vmas]
        /\ shown' \in [Sessions -> SUBSET DOMAIN Code] /\ DOMAIN output' = Sessions
    BY <1>1, <1>2 DEF TypeOK
  <2>3. \A t \in Sessions : pc'[t] \in {"display", "record", "advance"} => insn'[t] \in DOMAIN Code
    BY <1>1, <1>3, <1>4 DEF TypeOK, Others
  <2>4. \A t \in Sessions : Listed(output'[t], shown'[t])
    <3>1. \A t \in Sessions : Listed(output[t], shown[t]) BY <1>1 DEF TypeOK, Listed
    <3>2. Listed(output'[s], shown'[s]) BY <1>3 DEF Listed, Empty
    <3> QED BY <1>4, <3>1, <3>2 DEF Others
  <2> QED BY <1>1, <2>1, <2>2, <2>3, <2>4 DEF TypeOK, Listed
<1>6. Good(s)'
  <2>1. Frame(s)' BY <1>3 DEF Frame, Empty
  <2> QED BY <1>3, <2>1 DEF Good, Tracked, OnPath, Complete, Carried
<1> QED BY <1>3, <1>4, <1>5, <1>6, OthersGood

LEMMA AbandonStep ==
  ASSUME IInv, NEW s \in Sessions, Abandon(s), marked \subseteq marked',
         marked' \subseteq DOMAIN Code, visited' = visited
  PROVE  IInv'
<1>1. /\ Leave(s) /\ calls' = calls /\ abandoned' = abandoned + 1 /\ results' = results
  BY DEF Abandon
<1>2. abandoned' \in Nat /\ abandoned' # 0 BY <1>1 DEF IInv, TypeOK
<1>3. TypeOK' /\ \A t \in Sessions : Good(t)' BY <1>1, <1>2, LeaveFacts
<1>4. Shared' BY <1>2 DEF Shared
<1>5. \A q \in results' : Sound(q)' BY <1>1 DEF IInv, Sound, Listed
<1> QED BY <1>3, <1>4, <1>5 DEF IInv

LEMMA RaiseStep ==
  ASSUME IInv, NEW s \in Sessions,
         (\E a \in todo[s] : AskRaises(s, a)) \/ BlockRaises(s) \/ ResolveRaises(s)
  PROVE  IInv'
<1>1. marked \subseteq DOMAIN Code BY DEF IInv, TypeOK
<1>2. CASE \E a \in todo[s] : AskRaises(s, a) BY <1>1, <1>2, AbandonStep DEF AskRaises
<1>3. CASE ResolveRaises(s) BY <1>1, <1>3, AbandonStep DEF ResolveRaises
<1>4. CASE BlockRaises(s)
  <2>1. insn[s] \in DOMAIN Code BY <1>4 DEF IInv, TypeOK, BlockRaises
  <2>2. marked \subseteq marked' /\ marked' \subseteq DOMAIN Code
    BY <1>1, <1>4, <2>1 DEF BlockRaises, Visit
  <2> QED BY <1>4, <2>2, AbandonStep DEF BlockRaises
<1> QED BY <1>2, <1>3, <1>4

LEMMA BeginStep ==
  ASSUME IInv, NEW s \in Sessions, NEW c \in Calls, Begin(s, c) PROVE IInv'
<1>1. pc[s] = "idle" /\ calls < MaxCalls BY DEF Begin
<1>2. TypeOK /\ Frame(s) BY DEF IInv, Good
<1>3. /\ insn' = insn /\ seen' = seen /\ output' = output /\ errors' = errors /\ shown' = shown
      /\ marked' = marked /\ visited' = visited /\ abandoned' = abandoned /\ results' = results
      /\ calls' = calls + 1 /\ pc' = [pc EXCEPT ![s] = "work"] /\ call' = [call EXCEPT ![s] = c]
      /\ todo' = [todo EXCEPT ![s] = {c.start}]
  BY DEF Begin
<1>4. pc'[s] = "work" /\ call'[s] = c /\ todo'[s] = {c.start} /\ Others(s)
  BY <1>2, <1>3 DEF TypeOK, Others
<1>5. shown[s] = {} /\ errors[s] = {} BY <1>1, <1>2 DEF Frame
<1>6. Held(s)' = {} /\ Settled(s)' = {} BY <1>3, <1>4, <1>5 DEF Held, Settled
<1>7. TypeOK'
  <2>1. /\ pc' \in [Sessions -> {"idle", "work", "display", "record", "advance"}]
        /\ call' \in [Sessions -> Calls \cup {NoCall}] /\ todo' \in [Sessions -> SUBSET Vmas]
    BY <1>2, <1>3, CallFacts DEF TypeOK
  <2>2. \A t \in Sessions : pc'[t] \in {"display", "record", "advance"} => insn'[t] \in DOMAIN Code
    BY <1>2, <1>3, <1>4 DEF TypeOK, Others
  <2>3. calls' \in 0 .. MaxCalls BY <1>1, <1>2, <1>3, CallAssumption DEF TypeOK
  <2> QED BY <1>2, <1>3, <2>1, <2>2, <2>3 DEF TypeOK
<1>8. Good(s)'
  <2>1. Frame(s)' BY <1>4 DEF Frame
  <2>2. seen[s] = {} BY <1>1, <1>2 DEF Frame
  <2>3. Tracked(s)' BY <1>3, <1>4, <1>5, <1>6, <2>2 DEF Tracked
  <2>4. OnPath(s)' BY <1>3, <1>4, <1>5, <1>6, ReachedFacts DEF OnPath, Carried
  <2>5. Complete(s)' BY <1>4, <1>6 DEF Complete, Ahead
  <2> QED BY <2>1, <2>3, <2>4, <2>5 DEF Good
<1>9. Shared'
  <2>1. s \notin Marking BY <1>1 DEF Marking
  <2>2. \A x : (Kept(x) => Kept(x)') /\ (Covered(x) => Covered(x)')
    BY <1>3, <1>4, <2>1, CoverGrows
  <2> SUFFICES ASSUME abandoned = 0
               PROVE  /\ \A x \in marked : Kept(x)'
                      /\ \A t \in Marking' :
                           /\ Covered(call[t].start)'
                           /\ call'[t].resolver # "builtin" =>
                                \A a \in Settled(t)' : \A x \in Edges(call'[t].resolver, a) :
                                  Covered(x)'
                      /\ \A q \in Sharing :
                           /\ Covered(q.call.start)'
                           /\ q.call.resolver # "builtin" =>
                                \A a \in q.shown : \A x \in Edges(q.call.resolver, a) : Covered(x)'
    BY <1>3 DEF Shared, Sharing, Covered, Edges, Targets
  <2>3. Shared BY DEF IInv
  <2>4. ASSUME NEW t \in Marking'
        PROVE  /\ Covered(call[t].start)'
               /\ call'[t].resolver # "builtin" =>
                    \A a \in Settled(t)' : \A x \in Edges(call'[t].resolver, a) : Covered(x)'
    <3>1. CASE t = s
      <4>1. s \in Marking' BY <2>4, <3>1
      <4>2. Covered(c.start)' BY <1>4, <4>1 DEF Covered
      <4> QED BY <1>4, <1>6, <3>1, <4>2
    <3>2. CASE t # s
      <4>1. t \in Marking /\ call'[t] = call[t] /\ Settled(t)' = Settled(t)
        BY <1>4, <2>4, <3>2 DEF Marking, Others, Settled
      <4>2. PICK d : d = call[t] OBVIOUS
      <4>3. call'[t] = d BY <4>1, <4>2
      <4>4. /\ Covered(d.start)
            /\ d.resolver # "builtin" =>
                 \A a \in Settled(t) : \A x \in Edges(d.resolver, a) : Covered(x)
        BY <2>3, <4>1, <4>2 DEF Shared
      <4>5. /\ Covered(d.start)'
            /\ d.resolver # "builtin" =>
                 \A a \in Settled(t) : \A x \in Edges(d.resolver, a) : Covered(x)'
        BY <2>2, <4>4
      <4> QED BY <4>1, <4>3, <4>5
    <3> QED BY <3>1, <3>2
  <2> QED BY <2>2, <2>3, <2>4 DEF Shared
<1> QED BY <1>3, <1>4, <1>7, <1>8, <1>9, Assemble

LEMMA ReturnStep ==
  ASSUME IInv, NEW s \in Sessions, Return(s) PROVE IInv'
<1>1. pc[s] = "work" /\ todo[s] = {} /\ Leave(s) BY DEF Return
<1>2. /\ TypeOK /\ Frame(s) /\ Tracked(s) /\ OnPath(s) /\ Complete(s) /\ call[s] \in Calls
      /\ call[s].tracker \in Trackers
  BY <1>1, Running
<1>3. PICK c : c = call[s] OBVIOUS
<1>4. PICK S : S = shown[s] OBVIOUS
<1>5. PICK out : out = output[s] OBVIOUS
<1>6. PICK q : q = [call |-> c, output |-> out, shown |-> S] OBVIOUS
<1>7. q.call = c /\ q.output = out /\ q.shown = S BY <1>6
<1>8. /\ marked' = marked /\ visited' = visited /\ calls' = calls /\ abandoned' = abandoned
      /\ results' = results \cup {q}
  BY <1>3, <1>4, <1>5, <1>6 DEF Return
<1>9. /\ pc'[s] = "idle" /\ shown'[s] = {} /\ Others(s)
      /\ TypeOK' /\ \A t \in Sessions : Good(t)'
  BY <1>1, <1>2, <1>8, LeaveFacts DEF TypeOK
<1>10. Held(s) = {} /\ Settled(s) = S BY <1>1, <1>4 DEF Held, Settled
<1>11. Sound(q)
  <2>1. S \subseteq DOMAIN Code /\ Listed(out, S) BY <1>2, <1>4, <1>5 DEF TypeOK, Listed
  <2>2. ASSUME c.tracker = "default", c.resolver # "builtin"
        PROVE  Reached[c] \cap DOMAIN Code \subseteq S
    <3>1. seen[s] = S BY <1>1, <1>2, <1>3, <1>4, <1>10, <2>2 DEF Tracked
    <3>2. \A x : Ahead(s, x) => x \notin DOMAIN Code \/ x \in S BY <1>1, <3>1 DEF Ahead
    <3>3. /\ Ahead(s, c.start)
          /\ \A a \in S : \A x \in Edges(c.resolver, a) : Ahead(s, x)
      BY <1>1, <1>2, <1>3, <1>10, <2>2 DEF Complete
    <3> QED BY <1>2, <1>3, <3>2, <3>3, ReachedWithin
  <2> QED BY <1>2, <1>3, <1>7, <2>1, <2>2 DEF Sound
<1>12. \A p \in results' : Sound(p)' BY <1>8, <1>11 DEF IInv, Sound, Listed
<1>13. Shared'
  <2>1. s \in Marking => q \in Sharing'
    BY <1>3, <1>7, <1>8 DEF Marking, Sharing
  <2>2. s \in Marking => \A x \in shown[s] \cup Held(s) : Kept(x)'
    BY <1>4, <1>7, <1>10, <2>1 DEF Kept
  <2>3. \A x : (Kept(x) => Kept(x)') /\ (Covered(x) => Covered(x)')
    BY <1>1, <1>8, <1>9, <2>2, CoverGrows
  <2> SUFFICES ASSUME abandoned = 0
               PROVE  /\ \A x \in marked : Kept(x)'
                      /\ \A t \in Marking' :
                           /\ Covered(call[t].start)'
                           /\ call'[t].resolver # "builtin" =>
                                \A a \in Settled(t)' : \A x \in Edges(call'[t].resolver, a) :
                                  Covered(x)'
                      /\ \A p \in Sharing' :
                           /\ Covered(p.call.start)'
                           /\ p.call.resolver # "builtin" =>
                                \A a \in p.shown : \A x \in Edges(p.call.resolver, a) : Covered(x)'
    BY <1>8 DEF Shared, Covered, Edges, Targets
  <2>4. Shared BY DEF IInv
  <2>5. ASSUME NEW t \in Marking'
        PROVE  /\ Covered(call[t].start)'
               /\ call'[t].resolver # "builtin" =>
                    \A a \in Settled(t)' : \A x \in Edges(call'[t].resolver, a) : Covered(x)'
    <3>1. t \in Marking /\ call'[t] = call[t] /\ Settled(t)' = Settled(t)
      BY <1>9, <2>5 DEF Marking, Others, Settled
    <3>2. PICK d : d = call[t] OBVIOUS
    <3>3. call'[t] = d BY <3>1, <3>2
    <3>4. /\ Covered(d.start)
          /\ d.resolver # "builtin" =>
               \A a \in Settled(t) : \A x \in Edges(d.resolver, a) : Covered(x)
      BY <2>4, <3>1, <3>2 DEF Shared
    <3>5. /\ Covered(d.start)'
          /\ d.resolver # "builtin" =>
               \A a \in Settled(t) : \A x \in Edges(d.resolver, a) : Covered(x)'
      BY <2>3, <3>4
    <3> QED BY <3>1, <3>3, <3>5
  <2>6. ASSUME NEW p \in Sharing'
        PROVE  /\ Covered(p.call.start)'
               /\ p.call.resolver # "builtin" =>
                    \A a \in p.shown : \A x \in Edges(p.call.resolver, a) : Covered(x)'
    <3>1. CASE p \in Sharing BY <2>3, <2>4, <3>1 DEF Shared
    <3>2. CASE p \notin Sharing
      <4>1. p = q /\ s \in Marking
        BY <1>1, <1>3, <1>7, <1>8, <2>6, <3>2 DEF Sharing, Marking
      <4>2. /\ Covered(c.start)
            /\ c.resolver # "builtin" =>
                 \A a \in S : \A x \in Edges(c.resolver, a) : Covered(x)
        BY <1>3, <1>10, <2>4, <4>1 DEF Shared
      <4> QED BY <1>7, <2>3, <4>1, <4>2
    <3> QED BY <3>1, <3>2
  <2> QED BY <2>3, <2>4, <2>5, <2>6 DEF Shared
<1> QED BY <1>9, <1>12, <1>13 DEF IInv

---------------------------------------------------------------------------
(* The invariant and what follows from it.                                 *)

LEMMA InitInv == Init => IInv
<1> SUFFICES ASSUME Init PROVE IInv OBVIOUS
<1>1. TypeOK
  <2>1. /\ pc \in [Sessions -> {"idle", "work", "display", "record", "advance"}]
        /\ call \in [Sessions -> Calls \cup {NoCall}]
        /\ todo \in [Sessions -> SUBSET Vmas] /\ insn \in [Sessions -> Vmas]
        /\ seen \in [Sessions -> SUBSET DOMAIN Code] /\ errors \in [Sessions -> SUBSET Vmas]
        /\ shown \in [Sessions -> SUBSET DOMAIN Code] /\ DOMAIN output = Sessions
    BY Widths DEF Init
  <2>2. \A s \in Sessions : pc[s] = "idle" /\ DOMAIN output[s] = {} BY DEF Init, Empty
  <2>3. calls \in 0 .. MaxCalls /\ abandoned \in Nat /\ marked = {} /\ visited = {}
    BY CallAssumption DEF Init
  <2> QED BY <2>1, <2>2, <2>3 DEF TypeOK
<1>2. ASSUME NEW s \in Sessions PROVE Good(s)
  <2>1. /\ pc[s] = "idle" /\ call[s] = NoCall /\ todo[s] = {} /\ seen[s] = {} /\ shown[s] = {}
        /\ errors[s] = {} /\ output[s] = Empty
    BY DEF Init
  <2>2. Frame(s) BY <2>1 DEF Frame
  <2> QED BY <2>1, <2>2 DEF Good, Tracked, OnPath, Complete, Carried
<1>3. results = {} /\ Shared
  <2>1. results = {} /\ marked = {} /\ Marking = {} /\ Sharing = {}
    BY DEF Init, Marking, Sharing
  <2> QED BY <2>1 DEF Shared
<1> QED BY <1>1, <1>2, <1>3 DEF IInv

LEMMA NextInv == IInv /\ [Next]_vars => IInv'
<1> SUFFICES ASSUME IInv, [Next]_vars PROVE IInv' OBVIOUS
<1>1. ASSUME NEW s \in Sessions, NEW c \in Calls, Begin(s, c) PROVE IInv'
  BY <1>1, BeginStep
<1>2. ASSUME NEW s \in Sessions, Step(s) PROVE IInv'
  <2>1. ASSUME NEW a \in todo[s],
               Bounds(s, a) \/ Handle(s, a) \/ Stop(s, a) \/ AskRaises(s, a)
        PROVE  IInv'
    BY <2>1, BoundsStep, HandleStep, StopStep, RaiseStep
  <2>2. CASE Block(s) BY <2>2, BlockStep
  <2>3. CASE Store(s) BY <2>3, StoreStep
  <2>4. CASE Advance(s) BY <2>4, AdvanceStep
  <2>5. CASE Return(s) BY <2>5, ReturnStep
  <2>6. CASE BlockRaises(s) \/ ResolveRaises(s) BY <2>6, RaiseStep
  <2> QED BY <1>2, <2>1, <2>2, <2>3, <2>4, <2>5, <2>6 DEF Step
<1>3. CASE UNCHANGED vars
  <2>1. /\ pc' = pc /\ call' = call /\ todo' = todo /\ insn' = insn /\ seen' = seen
        /\ output' = output /\ errors' = errors /\ shown' = shown /\ marked' = marked
        /\ visited' = visited /\ calls' = calls /\ abandoned' = abandoned /\ results' = results
    BY <1>3 DEF vars, local
  <2>2. TypeOK' BY <2>1 DEF IInv, TypeOK
  <2>3. \A s \in Sessions : Held(s)' = Held(s) /\ Settled(s)' = Settled(s)
    BY <2>1 DEF Held, Settled
  <2>4. ASSUME NEW s \in Sessions PROVE Good(s)'
    BY <2>1, <2>3, <2>4 DEF IInv, Good, Frame, Tracked, OnPath, Complete, Ahead, Carried
  <2>5. \A q \in results' : Sound(q)' BY <2>1 DEF IInv, Sound, Listed
  <2>6. Marking' = Marking /\ Sharing' = Sharing BY <2>1 DEF Marking, Sharing
  <2>7. \A x : (Kept(x)' <=> Kept(x)) /\ (Covered(x)' <=> Covered(x))
    BY <2>1, <2>3, <2>6 DEF Kept, Covered, Marking
  <2>8. Shared' BY <2>1, <2>3, <2>6, <2>7 DEF IInv, Shared, Marking
  <2> QED BY <2>2, <2>4, <2>5, <2>8 DEF IInv
<1> QED BY <1>1, <1>2, <1>3 DEF Next

\* The inductive invariant.
THEOREM Invariant == Spec => []IInv
<1> QED BY InitInv, NextInv, PTL DEF Spec

\* Every variable has its type: addresses stay addresses on their way through int and
\* unsigned int, and each key of an output is the int of the address it is filed under.
THEOREM TypeCorrect == Spec => []TypeOK
<1>1. IInv => TypeOK BY DEF IInv
<1> QED BY <1>1, Invariant, PTL

\* No call shows an instruction twice, however sessions that share a tracker interleave
\* between the answer of visited? and the visit in the block (local_handler).
THEOREM ShownOnce == Spec => []OncePerCall
<1>1. IInv => OncePerCall BY DEF IInv, Good, Tracked, Held, OncePerCall
<1> QED BY <1>1, Invariant, PTL

\* The conversions of local_resolver lead a call to no address that control flow does
\* not reach, whatever the widths; those of AddressResolver#resolve do only after a branch
\* whose target is unknown or does not fit an int.
THEOREM StaysOnPath == Spec => []NoStray
<1>1. IInv => NoStray BY DEF IInv, Good, OnPath, NoStray
<1> QED BY <1>1, Invariant, PTL

\* What containing() answers is an instruction that the call showed and that has the
\* address asked for among its bytes, in the bits an int keeps (cls_output_contain).
THEOREM AnswerHoldsAddress == Spec => []ContainingSound
<1>1. ASSUME IInv, NEW r \in results, NEW v \in Vmas,
             Containing(r.output, v) \notin {NotFound, Raised}
      PROVE  /\ Containing(r.output, v) \in r.shown
             /\ Holds(Containing(r.output, v), v)
  <2>1. Sound(r) BY <1>1 DEF IInv
  <2>2. v \in DOMAIN r.output /\ Containing(r.output, v) = r.output[v]
    BY <1>1 DEF Containing
  <2>3. r.output[v] \in r.shown /\ r.output[v] \in DOMAIN Code /\ ToInt(r.output[v]) = v
    BY <2>1, <2>2 DEF Sound, Listed
  <2>4. r.output[v] \in Vmas /\ v >= 0 BY <2>3, CodeFacts, Widths DEF Vmas
  <2> DEFINE x == r.output[v]
  <2>5. x % UIntSpan = v /\ x \in Nat BY <2>3, <2>4, ToIntFacts, Widths DEF Vmas
  <2>6. v % UIntSpan = v
    <3>1. UIntSpan \in Nat \ {0} /\ x \in Int BY <2>5, Widths
    <3>2. x % UIntSpan \in 0 .. UIntSpan - 1 BY <3>1, Wrapped
    <3>3. v \in Int /\ v \in 0 .. UIntSpan - 1 BY <2>5, <3>1, <3>2
    <3> QED BY <3>1, <3>3, Wrapped
  <2>7. Code[x].size \in Nat \ {0} BY <2>3, CodeAssumption DEF Instructions
  <2>8. 0 \in 0 .. Code[x].size - 1 /\ (x + 0) % UIntSpan = v % UIntSpan BY <2>5, <2>6, <2>7
  <2> QED BY <2>2, <2>3, <2>8 DEF Holds
<1>2. IInv => ContainingSound BY <1>1 DEF ContainingSound
<1> QED BY <1>2, Invariant, PTL

\* Whatever control flow reaches is shown: by the call itself with its own tracker, by
\* one of the calls that share the marking tracker otherwise, if none was abandoned and
\* they follow branches alike.
THEOREM AllShown == Spec => []NothingMissed
<1>1. ASSUME IInv, abandoned = 0, \A s \in Sessions : pc[s] = "idle",
             NEW r \in results, r.call.resolver # "builtin"
      PROVE  /\ r.call.tracker = "default" => Reached[r.call] \cap DOMAIN Code \subseteq r.shown
             /\ r \in Sharing /\ (\A q \in Sharing : q.call.resolver = r.call.resolver) =>
                  Reached[r.call] \cap DOMAIN Code \subseteq UNION {q.shown : q \in Sharing}
  <2>1. Sound(r) /\ r.call \in Calls /\ Shared BY <1>1 DEF IInv, Sound
  <2>2. r.call.tracker = "default" => Reached[r.call] \cap DOMAIN Code \subseteq r.shown
    BY <1>1, <2>1 DEF Sound
  <2>3. ASSUME r \in Sharing, \A q \in Sharing : q.call.resolver = r.call.resolver
        PROVE  Reached[r.call] \cap DOMAIN Code \subseteq UNION {q.shown : q \in Sharing}
    <3>1. PICK K : K = UNION {q.shown : q \in Sharing} OBVIOUS
    <3>2. \A x : Covered(x) => x \notin DOMAIN Code \/ x \in K
      BY <1>1, <3>1 DEF Covered, Kept, Marking
    <3>3. r.call.start \in DOMAIN Code => r.call.start \in K
      BY <1>1, <2>1, <2>3, <3>2 DEF Shared
    <3>4. \A a \in K : \A x \in Edges(r.call.resolver, a) : x \in DOMAIN Code => x \in K
      <4> TAKE a \in K
      <4>1. PICK q \in Sharing : a \in q.shown BY <3>1
      <4>2. q.call.resolver = r.call.resolver BY <2>3
      <4> QED BY <1>1, <2>1, <3>2, <4>1, <4>2 DEF Shared
    <3> QED BY <2>1, <3>1, <3>3, <3>4, ReachedWithin
  <2> QED BY <2>2, <2>3
<1>2. IInv => NothingMissed BY <1>1 DEF NothingMissed
<1> QED BY <1>2, Invariant, PTL

---------------------------------------------------------------------------
(* Progress.  How much a call still has to do: the instructions it has not *)
(* shown, its work list, and the callbacks left for the current            *)
(* instruction.                                                            *)

Left(s) == DOMAIN Code \ (shown[s] \cup Held(s))
Phase   == [idle |-> 0, work |-> 0, advance |-> 3, record |-> 4, display |-> 5]
Rank(s) == 5 * Cardinality(Left(s)) + Cardinality(todo[s]) + Phase[pc[s]]

Own(s) == <<pc[s], call[s], todo[s], insn[s], seen[s], output[s], errors[s], shown[s]>>

\* A call begins with no more to do than the size of the target allows; each of its
\* steps ends it or leaves less to do; no other session adds to it.
Closer ==
  \A s \in Sessions :
    /\ \A c \in Calls : Begin(s, c) => Rank(s)' = 5 * Cardinality(DOMAIN Code) + 1
    /\ pc[s] # "idle" /\ call[s].tracker # "builtin" =>
         IF Step(s) THEN pc'[s] = "idle" \/ Rank(s)' < Rank(s) ELSE UNCHANGED Own(s)

LEMMA FiniteVmas ==
  ASSUME NEW S \in SUBSET Vmas PROVE IsFiniteSet(S) /\ Cardinality(S) \in Nat
<1>1. IsFiniteSet(Vmas)
  <2>1. 0 \in Int /\ VmaSpan - 1 \in Int BY Widths
  <2> QED BY <2>1, FS_Interval DEF Vmas
<1>2. IsFiniteSet(S) BY <1>1, FS_Subset
<1> QED BY <1>2, FS_CardinalityType

LEMMA LeftFacts ==
  ASSUME NEW s \in Sessions
  PROVE  IsFiniteSet(Left(s)) /\ Cardinality(Left(s)) \in Nat
<1>1. Left(s) \in SUBSET Vmas BY CodeFacts DEF Left
<1> QED BY <1>1, FiniteVmas

\* A step that shortens the work list and leaves the rest.
LEMMA WorkShrinks ==
  ASSUME TypeOK, NEW s \in Sessions, NEW a \in todo[s],
         todo' = [todo EXCEPT ![s] = @ \ {a}],
         pc'[s] = pc[s], Left(s)' = Left(s), Phase[pc[s]] \in Nat
  PROVE  Rank(s)' < Rank(s)
<1>1. todo'[s] = todo[s] \ {a} /\ todo[s] \in SUBSET Vmas BY DEF TypeOK
<1>2. IsFiniteSet(todo[s]) /\ Cardinality(todo[s]) \in Nat BY <1>1, FiniteVmas
<1>3. Cardinality(todo'[s]) = Cardinality(todo[s]) - 1
  <2>1. Cardinality(todo[s] \ {a}) = Cardinality(todo[s]) - 1 BY <1>2, FS_RemoveElement
  <2> QED BY <1>1, <2>1
<1>4. Cardinality(Left(s)) \in Nat BY LeftFacts
<1>5. PICK n : n = Cardinality(Left(s)) OBVIOUS
<1>6. Cardinality(Left(s)') = n BY <1>5
<1>7. Rank(s) = 5 * n + Cardinality(todo[s]) + Phase[pc[s]] BY <1>5 DEF Rank
<1>8. Rank(s)' = 5 * n + (Cardinality(todo[s]) - 1) + Phase[pc[s]]
  BY <1>3, <1>6 DEF Rank, Phase
<1> QED BY <1>2, <1>4, <1>5, <1>7, <1>8

LEMMA HandleCloser ==
  ASSUME IInv, NEW s \in Sessions, NEW a \in todo[s], Handle(s, a), call[s].tracker # "builtin"
  PROVE  Rank(s)' < Rank(s)
<1>1. IInv' BY HandleStep
<1>2. /\ TypeOK /\ pc[s] = "work" /\ a \in DOMAIN Code /\ shown' = shown /\ call' = call
      /\ pc' = [pc EXCEPT ![s] = "display"] /\ insn' = [insn EXCEPT ![s] = a]
      /\ todo' = [todo EXCEPT ![s] = @ \ {a}]
  BY DEF IInv, Handle, Asks
<1>3. /\ pc'[s] = "display" /\ insn'[s] = a /\ todo'[s] = todo[s] \ {a}
      /\ todo[s] \in SUBSET Vmas
  BY <1>2 DEF TypeOK
<1>4. Held(s) = {} /\ Held(s)' = {a} BY <1>2, <1>3 DEF Held
<1>5. a \notin shown[s]
  <2>1. Tracked(s)' BY <1>1 DEF IInv, Good
  <2> QED BY <1>2, <1>3, <1>4, <2>1 DEF Tracked
<1>6. Left(s)' = Left(s) \ {a} /\ a \in Left(s) BY <1>2, <1>4, <1>5 DEF Left
<1>7. IsFiniteSet(Left(s)) /\ Cardinality(Left(s)) \in Nat BY LeftFacts
<1>8. PICK S : S = Left(s) OBVIOUS
<1>9. Cardinality(S \ {a}) = Cardinality(S) - 1 BY <1>6, <1>7, <1>8, FS_RemoveElement
<1>10. IsFiniteSet(todo[s]) /\ Cardinality(todo[s]) \in Nat BY <1>3, FiniteVmas
<1>11. Cardinality(todo'[s]) = Cardinality(todo[s]) - 1
  <2>1. Cardinality(todo[s] \ {a}) = Cardinality(todo[s]) - 1 BY <1>10, FS_RemoveElement
  <2> QED BY <1>3, <2>1
<1>12. Rank(s) = 5 * Cardinality(S) + Cardinality(todo[s])
  BY <1>2, <1>7, <1>8, <1>10 DEF Rank, Phase
<1>13. Rank(s)' = 5 * Cardinality(S \ {a}) + Cardinality(todo'[s]) + 5
  BY <1>3, <1>6, <1>8 DEF Rank, Phase
<1> QED BY <1>7, <1>8, <1>9, <1>10, <1>11, <1>12, <1>13

LEMMA DisplayCloser ==
  ASSUME IInv, NEW s \in Sessions, Block(s) \/ Store(s)
  PROVE  Rank(s)' < Rank(s)
<1>1. TypeOK /\ todo' = todo /\ insn' = insn BY DEF IInv, Block, Store
<1>2. todo[s] \in SUBSET Vmas BY <1>1 DEF TypeOK
<1>3. Cardinality(todo[s]) \in Nat BY <1>2, FiniteVmas
<1>4. PICK n : n = Cardinality(Left(s)) OBVIOUS
<1>5. n \in Nat BY <1>4, LeftFacts
<1>6. CASE Block(s)
  <2>1. pc[s] = "display" /\ pc'[s] = "record" /\ shown' = shown
    BY <1>1, <1>6 DEF Block, TypeOK
  <2>2. Held(s)' = Held(s) BY <1>1, <2>1 DEF Held
  <2>3. Left(s)' = Left(s) BY <2>1, <2>2 DEF Left
  <2>4. Rank(s) = 5 * n + Cardinality(todo[s]) + 5 BY <1>4, <2>1 DEF Rank, Phase
  <2>5. Rank(s)' = 5 * n + Cardinality(todo[s]) + 4
    BY <1>1, <1>4, <2>1, <2>3 DEF Rank, Phase
  <2> QED BY <1>3, <1>5, <2>4, <2>5
<1>7. CASE Store(s)
  <2>1. pc[s] = "record" /\ pc'[s] = "advance" /\ shown'[s] = shown[s] \cup {insn[s]}
    BY <1>1, <1>7 DEF Store, TypeOK
  <2>2. Held(s) = {insn[s]} /\ Held(s)' = {} BY <2>1 DEF Held
  <2>3. Left(s)' = Left(s) BY <2>1, <2>2 DEF Left
  <2>4. Rank(s) = 5 * n + Cardinality(todo[s]) + 4 BY <1>4, <2>1 DEF Rank, Phase
  <2>5. Rank(s)' = 5 * n + Cardinality(todo[s]) + 3
    BY <1>1, <1>4, <2>1, <2>3 DEF Rank, Phase
  <2> QED BY <1>3, <1>5, <2>4, <2>5
<1> QED BY <1>6, <1>7

LEMMA AdvanceCloser ==
  ASSUME IInv, NEW s \in Sessions, Advance(s)
  PROVE  Rank(s)' < Rank(s)
<1>1. pc[s] = "advance" BY DEF Advance
<1>2. TypeOK /\ call[s].resolver \in Resolvers BY <1>1, Running
<1>3. PICK T : T = Successors(call[s].resolver, insn[s]) OBVIOUS
<1>4. /\ shown' = shown /\ pc'[s] = "work" /\ todo'[s] = todo[s] \cup T
      /\ todo[s] \in SUBSET Vmas
  BY <1>2, <1>3 DEF Advance, TypeOK
<1>5. PICK x, y : T \subseteq {x} \cup {y}
  <2>1. T \subseteq {Code[insn[s]].next} \cup {Resolve(call[s].resolver, insn[s])}
    BY <1>3 DEF Successors
  <2> QED BY <2>1
<1>6. IsFiniteSet(todo[s]) /\ Cardinality(todo[s]) \in Nat BY <1>4, FiniteVmas
<1>7. PICK U : U = (todo[s] \cup {x}) \cup {y} OBVIOUS
<1>8. IsFiniteSet(U) /\ Cardinality(U) \in Nat /\ Cardinality(U) <= Cardinality(todo[s]) + 2
  <2>1. PICK V : V = todo[s] \cup {x} OBVIOUS
  <2>2. /\ IsFiniteSet(V)
        /\ Cardinality(V) = IF x \in todo[s] THEN Cardinality(todo[s]) ELSE Cardinality(todo[s]) + 1
    BY <1>6, <2>1, FS_AddElement
  <2>3. /\ IsFiniteSet(U)
        /\ Cardinality(U) = IF y \in V THEN Cardinality(V) ELSE Cardinality(V) + 1
    BY <1>7, <2>1, <2>2, FS_AddElement
  <2> QED BY <1>6, <2>2, <2>3
<1>9. todo'[s] \in SUBSET U BY <1>4, <1>5, <1>7
<1>10. Cardinality(todo'[s]) \in Nat /\ Cardinality(todo'[s]) <= Cardinality(U)
  BY <1>8, <1>9, FS_Subset, FS_CardinalityType
<1>11. Held(s) = {} /\ Held(s)' = {} BY <1>1, <1>4 DEF Held
<1>12. Left(s)' = Left(s) BY <1>4, <1>11 DEF Left
<1>13. PICK n : n = Cardinality(Left(s)) OBVIOUS
<1>14. n \in Nat BY <1>13, LeftFacts
<1>15. Rank(s) = 5 * n + Cardinality(todo[s]) + 3 BY <1>1, <1>13 DEF Rank, Phase
<1>16. Rank(s)' = 5 * n + Cardinality(todo'[s])
  BY <1>4, <1>10, <1>12, <1>13, <1>14 DEF Rank, Phase
<1> QED BY <1>6, <1>8, <1>10, <1>14, <1>15, <1>16

LEMMA BeginRank ==
  ASSUME IInv, NEW s \in Sessions, NEW c \in Calls, Begin(s, c)
  PROVE  Rank(s)' = 5 * Cardinality(DOMAIN Code) + 1
<1>1. TypeOK /\ Frame(s) BY DEF IInv, Good
<1>2. pc'[s] = "work" /\ todo'[s] = {c.start} /\ shown' = shown /\ shown[s] = {}
  BY <1>1 DEF Begin, TypeOK, Frame
<1>3. Left(s)' = DOMAIN Code BY <1>2 DEF Left, Held
<1>4. Cardinality({c.start}) = 1 BY FS_Singleton
<1>5. DOMAIN Code \in SUBSET Vmas BY CodeFacts
<1>6. Cardinality(DOMAIN Code) \in Nat BY <1>5, FiniteVmas
<1> QED BY <1>2, <1>3, <1>4, <1>6 DEF Rank, Phase

\* Each step of one session is a step of no other: those of its own calls, or none.
LEMMA StepCloser ==
  ASSUME IInv, NEW s \in Sessions, Step(s), call[s].tracker # "builtin"
  PROVE  pc'[s] = "idle" \/ Rank(s)' < Rank(s)
<1>1. TypeOK BY DEF IInv
<1>2. ASSUME NEW a \in todo[s], Bounds(s, a) \/ Stop(s, a) PROVE Rank(s)' < Rank(s)
  <2>1. /\ pc[s] = "work" /\ pc' = pc /\ insn' = insn /\ shown' = shown
        /\ todo' = [todo EXCEPT ![s] = @ \ {a}]
    BY <1>2 DEF Bounds, Stop, Asks
  <2>2. Left(s)' = Left(s) BY <2>1 DEF Left, Held
  <2>3. Phase[pc[s]] \in Nat BY <2>1 DEF Phase
  <2> QED BY <1>1, <2>1, <2>2, <2>3, WorkShrinks
<1>3. ASSUME NEW a \in todo[s], Handle(s, a) PROVE Rank(s)' < Rank(s) BY <1>3, HandleCloser
<1>4. ASSUME Leave(s) PROVE pc'[s] = "idle" BY <1>1, <1>4 DEF Leave, TypeOK
<1>5. ASSUME \/ \E a \in todo[s] : AskRaises(s, a)
             \/ BlockRaises(s) \/ ResolveRaises(s) \/ Return(s)
      PROVE  Leave(s)
  BY <1>5 DEF AskRaises, BlockRaises, ResolveRaises, Return, Abandon
<1> QED BY <1>2, <1>3, <1>4, <1>5, DisplayCloser, AdvanceCloser DEF Step

LEMMA OthersUntouched ==
  ASSUME IInv, NEW t \in Sessions, Step(t) \/ \E c \in Calls : Begin(t, c)
  PROVE  Others(t)
<1>1. TypeOK BY DEF IInv
<1>2. ASSUME NEW a \in todo[t], Bounds(t, a) PROVE Others(t)
  BY <1>1, <1>2 DEF Bounds, Others, TypeOK
<1>3. ASSUME NEW a \in todo[t], Handle(t, a) \/ Stop(t, a) PROVE Others(t)
  <2>1. \A s \in Sessions \ {t} : seen'[s] = seen[s]
    BY <1>3, AskFacts DEF Handle, Stop
  <2> QED BY <1>1, <1>3, <2>1 DEF Handle, Stop, Others, TypeOK
<1>4. ASSUME Block(t) \/ Store(t) \/ Advance(t) PROVE Others(t)
  BY <1>1, <1>4 DEF Block, Store, Advance, Others, TypeOK
<1>5. ASSUME Leave(t) PROVE Others(t) BY <1>1, <1>5 DEF Leave, Others, TypeOK
<1>6. ASSUME \/ \E a \in todo[t] : AskRaises(t, a)
             \/ BlockRaises(t) \/ ResolveRaises(t) \/ Return(t)
      PROVE  Leave(t)
  BY <1>6 DEF AskRaises, BlockRaises, ResolveRaises, Return, Abandon
<1>7. ASSUME NEW c \in Calls, Begin(t, c) PROVE Others(t)
  BY <1>1, <1>7 DEF Begin, Others, TypeOK
<1> QED BY <1>2, <1>3, <1>4, <1>5, <1>6, <1>7 DEF Step

\* What makes control-flow disassembly end, for every target, every width and however
\* the sessions interleave: each step of a call leaves less to do, and nothing that
\* another session does, by the tracker they share either, adds to it.  (That the steps
\* are taken is the fairness of Spec.)
THEOREM EveryStepCloser == Spec => [][Closer]_vars
<1>1. IInv /\ [Next]_vars => [Closer]_vars
  <2> SUFFICES ASSUME IInv, Next PROVE Closer OBVIOUS
  <2> SUFFICES ASSUME NEW s \in Sessions
               PROVE  /\ \A c \in Calls : Begin(s, c) =>
                           Rank(s)' = 5 * Cardinality(DOMAIN Code) + 1
                      /\ pc[s] # "idle" /\ call[s].tracker # "builtin" =>
                           IF Step(s) THEN pc'[s] = "idle" \/ Rank(s)' < Rank(s)
                           ELSE UNCHANGED Own(s)
    BY DEF Closer
  <2>1. ASSUME pc[s] # "idle", ~Step(s) PROVE UNCHANGED Own(s)
    <3>1. PICK t \in Sessions : Step(t) \/ \E c \in Calls : Begin(t, c) BY DEF Next
    <3>2. t # s BY <2>1, <3>1 DEF Begin
    <3>3. Others(t) BY <3>1, OthersUntouched
    <3> QED BY <3>2, <3>3 DEF Others, Own
  <2> QED BY <2>1, BeginRank, StepCloser
<1> QED BY <1>1, Invariant, PTL DEF Spec

---------------------------------------------------------------------------
(* The refinement of Exploration.                                          *)

Abstract == <<AskedFor, ShownTo, GivenTo>>

\* A session that is in no call Exploration speaks of asks for nothing there.
LEMMA AskedFacts ==
  ASSUME NEW s \in Sessions
  PROVE  /\ Faithful(call[s]) => AskedFor[s] = call[s] /\ ShownTo[s] = shown[s]
                                   /\ AskedFor[s] # NoCall
         /\ ~Faithful(call[s]) => AskedFor[s] = NoCall /\ ShownTo[s] = {}
<1>1. ~Faithful(NoCall) BY CallAssumption DEF Faithful
<1> QED BY <1>1 DEF AskedFor, ShownTo

\* One entry changes, or none.
LEMMA AskedChanges ==
  ASSUME NEW s \in Sessions, Others(s)
  PROVE  /\ AskedFor' = [AskedFor EXCEPT ![s] = IF Faithful(call'[s]) THEN call'[s] ELSE NoCall]
         /\ ShownTo' = [ShownTo EXCEPT ![s] = IF Faithful(call'[s]) THEN shown'[s] ELSE {}]
BY DEF AskedFor, ShownTo, Others, Faithful

LEMMA AskedKept ==
  ASSUME NEW s \in Sessions, Others(s), call'[s] = call[s],
         Faithful(call[s]) => shown'[s] = shown[s]
  PROVE  AskedFor' = AskedFor /\ ShownTo' = ShownTo
BY DEF AskedFor, ShownTo, Others, Faithful

LEMMA GivenKept == ASSUME results' = results PROVE GivenTo' = GivenTo
BY DEF GivenTo

\* A call begins: it asks, unless Exploration does not speak of it.
LEMMA BeginExplores ==
  ASSUME IInv, NEW s \in Sessions, NEW c \in Calls, Begin(s, c)
  PROVE  Explores!Next \/ UNCHANGED Abstract
<1>1. TypeOK /\ Frame(s) BY DEF IInv, Good
<1>2. /\ Others(s) /\ results' = results /\ call[s] = NoCall /\ call'[s] = c
      /\ shown[s] = {} /\ shown'[s] = {}
  BY <1>1, OthersUntouched DEF Begin, TypeOK, Frame
<1>3. GivenTo' = GivenTo BY <1>2, GivenKept
<1>4. AskedFor[s] = NoCall /\ ShownTo[s] = {}
  BY <1>2, AskedFacts, CallAssumption DEF Faithful
<1>5. CASE Faithful(c)
  <2>1. AskedFor' = [AskedFor EXCEPT ![s] = c] /\ ShownTo' = ShownTo
    BY <1>2, <1>4, <1>5, AskedChanges DEF ShownTo
  <2>2. Explores!Ask(s) BY <1>3, <1>4, <1>5, <2>1 DEF Explores!Ask
  <2> QED BY <2>2 DEF Explores!Next
<1>6. CASE ~Faithful(c)
  <2>1. AskedFor' = AskedFor /\ ShownTo' = ShownTo
    BY <1>2, <1>4, <1>6, AskedChanges DEF ShownTo, AskedFor
  <2> QED BY <1>3, <2>1 DEF Abstract
<1> QED BY <1>5, <1>6

\* An instruction is recorded: it is one that is reached and was not shown before.
LEMMA StoreExplores ==
  ASSUME IInv, NEW s \in Sessions, Store(s)
  PROVE  Explores!Next \/ UNCHANGED Abstract
<1>1. pc[s] = "record" BY DEF Store
<1>2. TypeOK /\ OnPath(s) /\ Tracked(s) BY <1>1, Running
<1>3. /\ Others(s) /\ results' = results /\ call' = call /\ insn[s] \in DOMAIN Code
      /\ shown'[s] = shown[s] \cup {insn[s]}
  BY <1>1, <1>2, OthersUntouched DEF Store, Step, TypeOK
<1>4. GivenTo' = GivenTo BY <1>3, GivenKept
<1>5. CASE Faithful(call[s])
  <2>1. AskedFor[s] = call[s] /\ ShownTo[s] = shown[s] /\ AskedFor[s] # NoCall
    BY <1>5, AskedFacts
  <2>2. insn[s] \in Reached[call[s]] BY <1>1, <1>2, <1>5 DEF OnPath, Held, Faithful, Carried
  <2>3. insn[s] \notin shown[s] BY <1>1, <1>2, <1>5 DEF Tracked, Held, Faithful
  <2>4. /\ AskedFor' = AskedFor
        /\ ShownTo' = [ShownTo EXCEPT ![s] = @ \cup {insn[s]}]
    BY <1>3, <1>5, <2>1, AskedChanges DEF AskedFor, ShownTo
  <2>5. PICK i : i = insn[s] OBVIOUS
  <2>6. i \in [c \in Calls |-> Reached[c] \cap DOMAIN Code][AskedFor[s]] \ ShownTo[s]
    BY <1>3, <1>5, <2>1, <2>2, <2>3, <2>5 DEF Faithful
  <2>7. Explores!Show(s) BY <1>4, <2>1, <2>4, <2>5, <2>6 DEF Explores!Show
  <2> QED BY <2>7 DEF Explores!Next
<1>6. CASE ~Faithful(call[s]) BY <1>3, <1>4, <1>6, AskedKept DEF Abstract
<1> QED BY <1>5, <1>6

\* A call ends: the entry of the session is cleared.
LEMMA LeaveExplores ==
  ASSUME IInv, NEW s \in Sessions, Leave(s)
  PROVE  /\ Faithful(call[s]) => Explores!End(s)
         /\ ~Faithful(call[s]) => AskedFor' = AskedFor /\ ShownTo' = ShownTo
<1>1. TypeOK BY DEF IInv
<1>2. call'[s] = NoCall /\ Others(s) BY <1>1 DEF Leave, TypeOK, Others
<1>3. ~Faithful(call'[s]) BY <1>2, CallAssumption DEF Faithful
<1>4. /\ AskedFor' = [AskedFor EXCEPT ![s] = NoCall] /\ ShownTo' = [ShownTo EXCEPT ![s] = {}]
  BY <1>2, <1>3, AskedChanges
<1>5. ASSUME Faithful(call[s]) PROVE Explores!End(s)
  BY <1>4, <1>5, AskedFacts DEF Explores!End
<1>6. ASSUME ~Faithful(call[s]) PROVE AskedFor' = AskedFor /\ ShownTo' = ShownTo
  BY <1>4, <1>6, AskedFacts DEF AskedFor, ShownTo
<1> QED BY <1>5, <1>6

LEMMA ReturnExplores ==
  ASSUME IInv, NEW s \in Sessions, Return(s)
  PROVE  Explores!Next \/ UNCHANGED Abstract
<1>1. pc[s] = "work" /\ Leave(s) BY DEF Return
<1>2. OnPath(s) /\ TypeOK /\ call[s] \in Calls BY <1>1, Running
<1>3. PICK q : q = [call |-> call[s], output |-> output[s], shown |-> shown[s]] OBVIOUS
<1>4. q.call = call[s] /\ q.shown = shown[s] /\ results' = results \cup {q}
  BY <1>3 DEF Return
<1>5. CASE Faithful(call[s])
  <2>1. AskedFor[s] = call[s] /\ ShownTo[s] = shown[s] BY <1>5, AskedFacts
  <2>2. GivenTo' = GivenTo \cup {[request |-> AskedFor[s], shown |-> ShownTo[s]]}
    BY <1>4, <1>5, <2>1 DEF GivenTo, Faithful
  <2>3. ASSUME call[s].tracker = "default"
        PROVE  shown[s] = Reached[call[s]] \cap DOMAIN Code
    <3>1. IInv' BY ReturnStep
    <3>2. Sound(q)' BY <1>4, <3>1 DEF IInv
    <3>3. Sound(q) BY <3>2 DEF Sound, Listed
    <3>4. Reached[call[s]] \cap DOMAIN Code \subseteq shown[s]
      BY <1>4, <1>5, <2>3, <3>3 DEF Sound, Faithful
    <3>5. shown[s] \subseteq Reached[call[s]] BY <1>1, <1>2, <1>5 DEF OnPath, Faithful, Carried
    <3> QED BY <1>2, <3>4, <3>5 DEF TypeOK
  <2>4. AskedFor[s] \in {c \in Calls : c.tracker = "default"} =>
          ShownTo[s] = [c \in Calls |-> Reached[c] \cap DOMAIN Code][AskedFor[s]]
    BY <1>2, <2>1, <2>3
  <2>5. Explores!End(s) BY <1>1, <1>5, LeaveExplores
  <2>6. Explores!Answer(s) BY <2>2, <2>4, <2>5 DEF Explores!Answer
  <2> QED BY <2>6 DEF Explores!Next
<1>6. CASE ~Faithful(call[s])
  <2>1. GivenTo' = GivenTo BY <1>4, <1>6 DEF GivenTo, Faithful
  <2> QED BY <1>1, <1>6, <2>1, LeaveExplores DEF Abstract
<1> QED BY <1>5, <1>6

LEMMA AbandonExplores ==
  ASSUME IInv, NEW s \in Sessions, Abandon(s)
  PROVE  Explores!Next \/ UNCHANGED Abstract
<1>1. Leave(s) /\ GivenTo' = GivenTo BY GivenKept DEF Abandon
<1>2. CASE Faithful(call[s])
  <2>1. Explores!GiveUp(s) BY <1>1, <1>2, LeaveExplores DEF Explores!GiveUp
  <2> QED BY <2>1 DEF Explores!Next
<1>3. CASE ~Faithful(call[s]) BY <1>1, <1>3, LeaveExplores DEF Abstract
<1> QED BY <1>2, <1>3

\* The callbacks around libopdis (local_handler, local_resolver, local_display) implement
\* Exploration for every target, width and number of sessions: each step of a call is a
\* step of the caller there, or none.
THEOREM ExplorationImplemented == Spec => ExplorationSpec
<1> DEFINE ANext == Explores!Next
<1>1. Init => Explores!Init
  <2> SUFFICES ASSUME Init PROVE Explores!Init OBVIOUS
  <2>1. \A s \in Sessions : ~Faithful(call[s]) BY CallAssumption DEF Init, Faithful
  <2>2. GivenTo = {} BY DEF Init, GivenTo
  <2> QED BY <2>1, <2>2 DEF Explores!Init, AskedFor, ShownTo
<1>2. IInv /\ [Next]_vars => [ANext]_Abstract
  <2> SUFFICES ASSUME IInv, [Next]_vars PROVE ANext \/ UNCHANGED Abstract OBVIOUS
  <2>1. ASSUME NEW s \in Sessions, NEW c \in Calls, Begin(s, c)
        PROVE  ANext \/ UNCHANGED Abstract
    BY <2>1, BeginExplores
  <2>2. ASSUME NEW s \in Sessions, Step(s) PROVE ANext \/ UNCHANGED Abstract
    <3>1. ASSUME \/ \E a \in todo[s] : Bounds(s, a) \/ Handle(s, a) \/ Stop(s, a)
                 \/ Block(s) \/ Advance(s)
          PROVE  UNCHANGED Abstract
      <4>1. Others(s) BY <2>2, OthersUntouched
      <4>2. call' = call /\ shown' = shown /\ results' = results
        BY <3>1 DEF Bounds, Handle, Stop, Block, Advance
      <4> QED BY <4>1, <4>2, AskedKept, GivenKept DEF Abstract
    <3>2. ASSUME \/ \E a \in todo[s] : AskRaises(s, a)
                 \/ BlockRaises(s) \/ ResolveRaises(s)
          PROVE  Abandon(s)
      BY <3>2 DEF AskRaises, BlockRaises, ResolveRaises
    <3> QED BY <2>2, <3>1, <3>2, StoreExplores, ReturnExplores, AbandonExplores DEF Step
  <2>3. CASE UNCHANGED vars
    <3>1. call' = call /\ shown' = shown /\ results' = results BY <2>3 DEF vars, local
    <3>2. AskedFor' = AskedFor /\ ShownTo' = ShownTo BY <3>1 DEF AskedFor, ShownTo, Faithful
    <3> QED BY <3>1, <3>2, GivenKept DEF Abstract
  <2> QED BY <2>1, <2>2, <2>3 DEF Next
<1> HIDE DEF ANext, Abstract
<1>3. Spec => Explores!Init /\ [][ANext]_Abstract BY <1>1, <1>2, Invariant, PTL DEF Spec
<1> QED BY <1>3, PTL DEF ExplorationSpec, Explores!Spec, Explores!vars, ANext, Abstract
=============================================================================
