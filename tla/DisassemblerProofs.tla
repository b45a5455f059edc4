------------------------- MODULE DisassemblerProofs -------------------------
(***************************************************************************)
(* Theorems about Disassembler for any sessions, objects, hashes and       *)
(* calls.  The inductive invariant IInv is the conjunction of the types,   *)
(* what the frame of a call holds (Frames), what keeps objects alive       *)
(* (Rooted) and the two allocation counts.                                 *)
(***************************************************************************)
EXTENDS Disassembler, FiniteSetTheorems, TLAPS

Labels == {"idle", "load", "args", "start", "strategy", "display"}

\* TypeOK, with the allocation counters integers: that they stay natural
\* follows from the counts and is no fact about types.
Types ==
  /\ callback \in Pointers /\ attr \in [Kinds -> Objects \cup {Nil}]
  /\ settings \in Settings
  /\ heap \subseteq Objects /\ held \subseteq Objects /\ gcEnabled \in BOOLEAN
  /\ pc \in [Sessions -> Labels]
  /\ call \in [Sessions -> Calls \cup {NoCall}]
  /\ dup \in [Sessions -> [cb: Pointers, settings: Settings]]
  /\ buffer \in [Sessions -> BOOLEAN] /\ items \in [Sessions -> Nat]
  /\ dups \in Int /\ bufs \in Int /\ calls \in Nat /\ abandoned \in Nat
  /\ fault \in BOOLEAN

\* A call in progress has its arguments on the stack; a buffer exists only
\* after the load.
Frames ==
  \A s \in Sessions : /\ Active(s) => call[s] \in Calls
                      /\ pc[s] \in {"idle", "load"} => ~buffer[s]

\* Whatever the mark phase starts from is alive; the instance's pointer and its
\* variable agree; a kind for which a running call has an object keeps one.
Rooted ==
  /\ held \subseteq heap
  /\ \A k \in Kinds : attr[k] \in Objects => attr[k] \in heap
  /\ \A s \in Sessions : Active(s) => Named(call[s].args) \subseteq heap
  /\ \A k \in Kinds : callback[k] \in Objects => attr[k] = callback[k]
  /\ \A s \in Sessions, k \in Kinds :
       Active(s) /\ dup[s].cb[k] \in Objects => attr[k] \in Objects

IInv == Types /\ Frames /\ Rooted /\ DupsAccounted /\ BufsAccounted

-----------------------------------------------------------------------------
(* The argument hash.                                                      *)

LEMMA CallArgs == \A c \in Calls : c.args \in Hashes
  BY CallsAssumption DEF CallHashes

\* An argument hash leaves a well-typed instance.
LEMMA HandleArgsTypes ==
  ASSUME NEW a \in Hashes, Types, HandleArgs(a)
  PROVE  /\ callback' \in Pointers
         /\ attr' \in [Kinds -> Objects \cup {Nil}]
         /\ settings' \in Settings
<1>1. callback' \in Pointers
  BY ObjectsAssumption DEF HandleArgs, CallbackAfter, Pointers, Types
<1>2. attr' \in [Kinds -> Objects \cup {Nil}]
  BY ObjectsAssumption DEF HandleArgs, AttrAfter, Types
<1>3. settings' \in Settings
  BY SettingsAssumption DEF HandleArgs, SettingsAfter, Settings, Hashes, Types
<1> QED BY <1>1, <1>2, <1>3

\* An argument hash whose objects are alive keeps pointer and variable in
\* agreement, the variable alive, and never takes the last object of a kind away.
LEMMA HandleArgsRoots ==
  ASSUME NEW a \in Hashes, Types, Rooted, HandleArgs(a), Named(a) \subseteq heap
  PROVE  \A k \in Kinds : /\ attr'[k] \in Objects => attr'[k] \in heap
                          /\ callback'[k] \in Objects => attr'[k] = callback'[k]
                          /\ attr[k] \in Objects => attr'[k] \in Objects
<1> SUFFICES ASSUME NEW k \in Kinds
             PROVE  /\ attr'[k] \in Objects => attr'[k] \in heap
                    /\ callback'[k] \in Objects => attr'[k] = callback'[k]
                    /\ attr[k] \in Objects => attr'[k] \in Objects
  OBVIOUS
<1>1. /\ attr'[k] = AttrAfter(k, a.cb[k], attr[k])
      /\ callback'[k] = CallbackAfter(k, a.cb[k], callback[k])
  BY DEF HandleArgs
<1>2. a.cb[k] \in Responds[k] => a.cb[k] \in Objects /\ a.cb[k] \in heap /\ a.cb[k] # Nil
  BY ObjectsAssumption DEF Named
<1> QED BY <1>1, <1>2, ObjectsAssumption DEF AttrAfter, CallbackAfter, Rooted

-----------------------------------------------------------------------------
(* Types.                                                                  *)

\* The frame of a call that ends keeps its variables in their types.
LEMMA LeaveTypes ==
  ASSUME NEW s \in Sessions, Types, Leave(s)
  PROVE  /\ pc' \in [Sessions -> Labels] /\ call' \in [Sessions -> Calls \cup {NoCall}]
         /\ dup' \in [Sessions -> [cb: Pointers, settings: Settings]]
         /\ buffer' \in [Sessions -> BOOLEAN] /\ items' \in [Sessions -> Nat]
BY SettingsAssumption DEF Leave, Goto, Types, Labels, Blank, Pointers

LEMMA AbandonTypes ==
  ASSUME NEW s \in Sessions, Types, Abandon(s), gcEnabled' \in BOOLEAN, bufs' \in Int,
         callback' \in Pointers, attr' \in [Kinds -> Objects \cup {Nil}],
         settings' \in Settings
  PROVE  Types'
<1>1. Leave(s) BY DEF Abandon
<1>2. abandoned' \in Nat BY DEF Abandon, Types
<1> QED BY <1>1, <1>2, LeaveTypes DEF Abandon, Types

LEMMA TypesStep ==
  ASSUME Types, Frames, [Next]_vars
  PROVE  Types'
<1> USE DEF Goto, Labels
<1>1. ASSUME NEW s \in Sessions, NEW c \in Calls, Begin(s, c) PROVE Types'
  BY <1>1 DEF Begin, Types, instance
<1>2. ASSUME NEW s \in Sessions, LoadRaises(s) PROVE Types'
  <2>1. bufs' \in Int
    <3>1. bufs \in Int BY DEF Types
    <3>2. bufs' = bufs \/ bufs' = bufs + 1 BY <1>2 DEF LoadRaises
    <3> QED BY <3>1, <3>2
  <2>2. Abandon(s) /\ UNCHANGED <<instance, gcEnabled>> BY <1>2 DEF LoadRaises
  <2> QED BY <2>1, <2>2, AbandonTypes DEF Types, instance
<1>3. ASSUME NEW s \in Sessions, LoadBuffer(s) PROVE Types'
  BY <1>3 DEF LoadBuffer, Types, instance
<1>4. ASSUME NEW s \in Sessions, LoadBfd(s) PROVE Types'
  <2> DEFINE new == [dup[s].settings EXCEPT !.arch = BfdArch]
  <2>1. dup[s] \in [cb: Pointers, settings: Settings] BY DEF Types
  <2>2. new \in Settings BY <2>1, SettingsAssumption DEF Settings
  <2>3. dup' = [dup EXCEPT ![s] = [dup[s] EXCEPT !.settings = new]] BY <1>4 DEF LoadBfd
  <2>4. [dup[s] EXCEPT !.settings = new] \in [cb: Pointers, settings: Settings]
    <3> HIDE DEF new
    <3> QED BY <2>1, <2>2
  <2>5. dup' \in [Sessions -> [cb: Pointers, settings: Settings]]
    <3> HIDE DEF new
    <3> QED BY <2>3, <2>4 DEF Types
  <2> QED BY <1>4, <2>5 DEF LoadBfd, Types, instance
<1>5. ASSUME NEW s \in Sessions, Arguments(s) PROVE Types'
  <2>1. call[s].args \in Hashes BY <1>5, CallArgs DEF Arguments, Frames, Active
  <2> QED BY <1>5, <2>1, HandleArgsTypes DEF Arguments, Types
<1>6. ASSUME NEW s \in Sessions, ArgumentsRaise(s) PROVE Types'
  <2>1. call[s].args \in Hashes BY <1>6, CallArgs DEF ArgumentsRaise, Frames, Active
  <2>2. HandleArgs(call[s].args) BY <1>6 DEF ArgumentsRaise
  <2>3. /\ callback' \in Pointers /\ attr' \in [Kinds -> Objects \cup {Nil}]
        /\ settings' \in Settings
    BY <2>1, <2>2, HandleArgsTypes
  <2> QED BY <1>6, <2>3, AbandonTypes DEF ArgumentsRaise, Types
<1>7. ASSUME NEW s \in Sessions, Start(s) PROVE Types'
  BY <1>7 DEF Start, Types, instance
<1>8. ASSUME NEW s \in Sessions, StartRaises(s) PROVE Types'
  <2>1. bufs' \in Int BY <1>8 DEF StartRaises, Types
  <2>2. Abandon(s) /\ UNCHANGED instance /\ gcEnabled' = FALSE BY <1>8 DEF StartRaises
  <2> QED BY <2>1, <2>2, AbandonTypes DEF Types, instance
<1>9. ASSUME NEW s \in Sessions, Decode(s) \/ Report(s) \/ Display(s) PROVE Types'
  BY <1>9 DEF Decode, Report, Display, Types, instance
<1>10. ASSUME NEW s \in Sessions, CallbackRaises(s) \/ BlockRaises(s) PROVE Types'
  BY <1>10, AbandonTypes DEF CallbackRaises, BlockRaises, Types, instance
<1>11. ASSUME NEW s \in Sessions, CallFreed(s) PROVE Types'
  BY <1>11 DEF CallFreed, Types, instance, session
<1>12. ASSUME NEW s \in Sessions, Finish(s) PROVE Types'
  <2>1. Leave(s) BY <1>12 DEF Finish
  <2> QED BY <1>12, <2>1, LeaveTypes DEF Finish, Types, instance
<1>13. ASSUME NEW a \in Assignments, Assign(a) PROVE Types'
  <2>1. a \in Hashes BY CallsAssumption
  <2> QED BY <1>13, <2>1, HandleArgsTypes DEF Assign, Types, session
<1>14. ASSUME NEW o \in Objects, Collect(o) \/ Forget(o) PROVE Types'
  BY <1>14 DEF Collect, Forget, Types, instance, session
<1>15. ASSUME NEW k \in Kinds, ReadAttr(k) PROVE Types'
  BY <1>15 DEF ReadAttr, Types, instance, session
<1>16. CASE UNCHANGED vars
  BY <1>16 DEF vars, Types, instance, session
<1> QED
  BY <1>1, <1>2, <1>3, <1>4, <1>5, <1>6, <1>7, <1>8, <1>9, <1>10, <1>11, <1>12,
     <1>13, <1>14, <1>15, <1>16 DEF Next, Step

-----------------------------------------------------------------------------
(* Frames: what a step of one session does to the frames of all.           *)

LEMMA FramesStep ==
  ASSUME Types, Frames, [Next]_vars
  PROVE  Frames'
<1> USE DEF Goto, Labels, Frames, Active
<1>1. ASSUME NEW s \in Sessions, NEW c \in Calls, Begin(s, c) PROVE Frames'
  BY <1>1 DEF Begin, Types
<1>2. ASSUME NEW s \in Sessions, Leave(s) PROVE Frames'
  BY <1>2 DEF Leave, Types
<1>3. ASSUME NEW s \in Sessions, LoadBuffer(s) \/ LoadBfd(s) \/ Arguments(s) \/ Start(s)
      PROVE  Frames'
  BY <1>3 DEF LoadBuffer, LoadBfd, Arguments, Start, Types
<1>4. ASSUME NEW s \in Sessions, Decode(s) \/ Report(s) \/ Display(s) PROVE Frames'
  BY <1>4 DEF Decode, Report, Display, Types
<1>5. CASE UNCHANGED session
  BY <1>5 DEF session
<1>6. ASSUME NEW s \in Sessions,
             LoadRaises(s) \/ ArgumentsRaise(s) \/ StartRaises(s) \/ CallbackRaises(s)
               \/ BlockRaises(s) \/ Finish(s)
      PROVE  Leave(s)
  BY <1>6 DEF LoadRaises, ArgumentsRaise, StartRaises, CallbackRaises, BlockRaises,
              Finish, Abandon
<1>7. ASSUME NEW s \in Sessions, CallFreed(s) PROVE UNCHANGED session
  BY <1>7 DEF CallFreed
<1>8. ASSUME \/ \E a \in Assignments : Assign(a)
             \/ \E o \in Objects : Collect(o) \/ Forget(o)
             \/ \E k \in Kinds : ReadAttr(k)
             \/ UNCHANGED vars
      PROVE  UNCHANGED session
  BY <1>8 DEF Assign, Collect, Forget, ReadAttr, vars
<1> QED
  BY <1>1, <1>2, <1>3, <1>4, <1>5, <1>6, <1>7, <1>8 DEF Next, Step

-----------------------------------------------------------------------------
(* Rooted: a step changes the instance, the sessions or the heap, seldom   *)
(* two of them.                                                            *)

LEMMA LeaveSessions ==
  ASSUME NEW s \in Sessions, Types, Leave(s)
  PROVE  \A t \in Sessions : /\ Active(t)' => t # s /\ Active(t)
                             /\ t # s => call'[t] = call[t] /\ dup'[t] = dup[t]
BY DEF Leave, Goto, Active, Types

\* The hash of a call in progress, or of a setter, is applied to the instance;
\* no session gains a frame.
LEMMA RootedHandleArgs ==
  ASSUME NEW a \in Hashes, Types, Rooted, HandleArgs(a), Named(a) \subseteq heap,
         UNCHANGED <<heap, held>>,
         \A t \in Sessions : Active(t)' => /\ Active(t)
                                           /\ call'[t] = call[t] /\ dup'[t] = dup[t]
  PROVE  Rooted'
<1>1. \A k \in Kinds : /\ attr'[k] \in Objects => attr'[k] \in heap
                       /\ callback'[k] \in Objects => attr'[k] = callback'[k]
                       /\ attr[k] \in Objects => attr'[k] \in Objects
  BY HandleArgsRoots
<1>2. \A t \in Sessions : Active(t)' => Named(call'[t].args) \subseteq heap
  BY DEF Rooted
<1>3. \A t \in Sessions, k \in Kinds :
        Active(t)' /\ dup'[t].cb[k] \in Objects => attr'[k] \in Objects
  BY <1>1 DEF Rooted
<1>4. \A t \in Sessions : Named(call[t].args)' = Named(call'[t].args)
  BY DEF Named
<1> QED BY <1>1, <1>2, <1>3, <1>4 DEF Rooted

\* The instance and the heap stay, and no session gains a frame.
LEMMA RootedSessions ==
  ASSUME Types, Rooted, UNCHANGED <<instance, heap, held>>,
         \A t \in Sessions : Active(t)' => /\ Active(t)
                                           /\ call'[t] = call[t]
                                           /\ dup'[t].cb = dup[t].cb
  PROVE  Rooted'
<1>1. \A t \in Sessions : Named(call[t].args)' = Named(call'[t].args)
  BY DEF Named
<1> QED BY <1>1 DEF Rooted, instance

LEMMA RootedStep ==
  ASSUME Types, Frames, Rooted, [Next]_vars
  PROVE  Rooted'
<1>1. ASSUME NEW s \in Sessions, NEW c \in Calls, Begin(s, c) PROVE Rooted'
  <2>1. \A t \in Sessions \ {s} : /\ Active(t)' => Active(t)
                                  /\ call'[t] = call[t] /\ dup'[t] = dup[t]
    BY <1>1 DEF Begin, Goto, Active, Types
  <2>2. call'[s] = c /\ dup'[s].cb = callback
    BY <1>1 DEF Begin, Types
  <2>3. UNCHANGED <<callback, attr, heap, held>> /\ Named(c.args) \subseteq held
    BY <1>1 DEF Begin, instance
  <2>4. \A t \in Sessions : Active(t)' => Named(call'[t].args) \subseteq heap
    BY <2>1, <2>2, <2>3 DEF Rooted
  <2>5. \A t \in Sessions, k \in Kinds :
          Active(t)' /\ dup'[t].cb[k] \in Objects => attr[k] \in Objects
    BY <2>1, <2>2 DEF Rooted
  <2>6. \A t \in Sessions : Named(call[t].args)' = Named(call'[t].args)
    BY DEF Named
  <2> QED BY <2>3, <2>4, <2>5, <2>6 DEF Rooted
<1>2. ASSUME NEW s \in Sessions, Leave(s), UNCHANGED <<instance, heap, held>> PROVE Rooted'
  BY <1>2, LeaveSessions, RootedSessions
<1>3. ASSUME NEW s \in Sessions,
             LoadRaises(s) \/ StartRaises(s) \/ CallbackRaises(s) \/ BlockRaises(s)
               \/ Finish(s)
      PROVE  Leave(s) /\ UNCHANGED <<instance, heap, held>>
  BY <1>3 DEF LoadRaises, StartRaises, CallbackRaises, BlockRaises, Finish, Abandon, instance
<1>4. ASSUME NEW s \in Sessions,
             LoadBuffer(s) \/ LoadBfd(s) \/ Start(s) \/ Decode(s) \/ Report(s) \/ Display(s)
      PROVE  Rooted'
  <2>1. UNCHANGED <<instance, heap, held, call>>
    BY <1>4 DEF LoadBuffer, LoadBfd, Start, Decode, Report, Display
  <2>2. \A t \in Sessions : Active(t)' => Active(t)
    BY <1>4 DEF LoadBuffer, LoadBfd, Start, Decode, Report, Display, Goto, Active, Types
  <2>3. \A t \in Sessions : dup'[t].cb = dup[t].cb
    <3>1. CASE LoadBfd(s)
      <4>1. dup' = [dup EXCEPT ![s].settings.arch = BfdArch] BY <3>1 DEF LoadBfd
      <4>2. dup \in [Sessions -> [cb: Pointers, settings: Settings]] BY DEF Types
      <4> QED BY <4>1, <4>2
    <3>2. CASE UNCHANGED dup BY <3>2
    <3> QED BY <1>4, <3>1, <3>2 DEF LoadBuffer, Start, Decode, Report, Display
  <2> QED BY <2>1, <2>2, <2>3, RootedSessions
<1>5. ASSUME NEW s \in Sessions, Arguments(s) \/ ArgumentsRaise(s) PROVE Rooted'
  <2>1. Active(s) /\ HandleArgs(call[s].args) /\ UNCHANGED <<heap, held>>
    BY <1>5 DEF Arguments, ArgumentsRaise, Active, Abandon
  <2>2. call[s].args \in Hashes /\ Named(call[s].args) \subseteq heap
    BY <2>1, CallArgs DEF Frames, Rooted
  <2>3. \A t \in Sessions : Active(t)' => /\ Active(t)
                                          /\ call'[t] = call[t] /\ dup'[t] = dup[t]
    <3>1. CASE Arguments(s) BY <3>1, <2>1 DEF Arguments, Goto, Active, Types
    <3>2. CASE ArgumentsRaise(s)
      BY <3>2, LeaveSessions DEF ArgumentsRaise, Abandon
    <3> QED BY <1>5, <3>1, <3>2
  <2> QED BY <2>1, <2>2, <2>3, RootedHandleArgs
<1>6. ASSUME NEW a \in Assignments, Assign(a) PROVE Rooted'
  <2>1. a \in Hashes /\ HandleArgs(a) /\ Named(a) \subseteq heap
    BY <1>6, CallsAssumption DEF Assign, Rooted
  <2>2. UNCHANGED <<heap, held, pc, call, dup>> BY <1>6 DEF Assign, session
  <2>3. \A t \in Sessions : Active(t)' => /\ Active(t)
                                          /\ call'[t] = call[t] /\ dup'[t] = dup[t]
    BY <2>2 DEF Active
  <2> QED BY <2>1, <2>2, <2>3, RootedHandleArgs
<1>7. ASSUME NEW o \in Objects, Collect(o) PROVE Rooted'
  <2>1. UNCHANGED <<callback, attr, held, pc, call, dup>> /\ heap' = heap \ {o}
    BY <1>7 DEF Collect, instance, session
  <2>2. /\ o \notin held
        /\ \A k \in Kinds : o # attr[k]
        /\ \A t \in Sessions : Active(t) => o \notin Named(call[t].args)
    BY <1>7 DEF Collect, Reachable
  <2>3. \A t \in Sessions : /\ Active(t)' = Active(t)
                            /\ Named(call[t].args)' = Named(call[t].args)
    BY <2>1 DEF Active, Named
  <2> QED BY <2>1, <2>2, <2>3 DEF Rooted
<1>8. ASSUME NEW o \in Objects, Forget(o) PROVE Rooted'
  <2>1. UNCHANGED <<callback, attr, heap, pc, call, dup>> /\ held' = held \ {o}
    BY <1>8 DEF Forget, instance, session
  <2> QED BY <2>1 DEF Rooted, Active, Named
<1>9. ASSUME NEW k \in Kinds, ReadAttr(k) PROVE Rooted'
  <2>1. /\ UNCHANGED <<callback, attr, heap, pc, call, dup>>
        /\ attr[k] \in Objects /\ held' = held \cup {attr[k]}
    BY <1>9 DEF ReadAttr, instance, session
  <2> QED BY <2>1 DEF Rooted, Active, Named
<1>10. CASE UNCHANGED vars
  <2>1. UNCHANGED <<callback, attr, heap, held, pc, call, dup>>
    BY <1>10 DEF vars, instance, session
  <2> QED BY <2>1 DEF Rooted, Active, Named
<1>11. ASSUME NEW s \in Sessions, CallFreed(s) PROVE Rooted'
  <2>1. UNCHANGED <<callback, attr, heap, held, pc, call, dup>>
    BY <1>11 DEF CallFreed, instance, session
  <2> QED BY <2>1 DEF Rooted, Active, Named
<1> QED
  BY <1>1, <1>2, <1>3, <1>4, <1>5, <1>6, <1>7, <1>8, <1>9, <1>10, <1>11 DEF Next, Step

-----------------------------------------------------------------------------
(* The allocation counts.                                                  *)

LEMMA SetsFinite ==
  /\ IsFiniteSet(Busy) /\ Cardinality(Busy) \in Nat
  /\ IsFiniteSet(InUse) /\ Cardinality(InUse) \in Nat
<1>1. Busy \in SUBSET Sessions /\ InUse \in SUBSET Sessions BY DEF Busy, InUse
<1>2. IsFiniteSet(Busy) /\ IsFiniteSet(InUse) BY <1>1, CallsAssumption, FS_Subset
<1> QED BY <1>2, FS_CardinalityType

\* The counts after a session has left: it was busy, and no longer is.
LEMMA LeaveCounts ==
  ASSUME NEW s \in Sessions, Types, Active(s), Leave(s)
  PROVE  /\ Cardinality(Busy)' = Cardinality(Busy) - 1
         /\ Cardinality(InUse)' =
              IF buffer[s] THEN Cardinality(InUse) - 1 ELSE Cardinality(InUse)
<1>1. Busy' = Busy \ {s} /\ s \in Busy
  BY DEF Busy, Active, Leave, Goto, Types
<1>2. InUse' = InUse \ {s} /\ (s \in InUse <=> buffer[s])
  BY DEF InUse, Leave, Types
<1>3. Cardinality(Busy \ {s}) = IF s \in Busy THEN Cardinality(Busy) - 1 ELSE Cardinality(Busy)
  BY SetsFinite, FS_RemoveElement
<1>4. Cardinality(InUse \ {s}) = IF s \in InUse THEN Cardinality(InUse) - 1
                                               ELSE Cardinality(InUse)
  BY SetsFinite, FS_RemoveElement
<1> QED BY <1>1, <1>2, <1>3, <1>4

Accounts == DupsAccounted /\ BufsAccounted

\* No session begins, leaves or allocates.
LEMMA AccountsKept ==
  ASSUME Accounts, UNCHANGED <<dups, bufs, abandoned, buffer>>,
         \A t \in Sessions : Active(t)' = Active(t)
  PROVE  Accounts'
<1>1. Busy' = Busy /\ InUse' = InUse BY DEF Busy, InUse
<1> QED BY <1>1 DEF Accounts, DupsAccounted, BufsAccounted

LEMMA AccountsStep ==
  ASSUME Types, Frames, Accounts, [Next]_vars
  PROVE  Accounts'
<1> USE SetsFinite DEF Accounts, DupsAccounted, BufsAccounted
<1>1. ASSUME NEW s \in Sessions, NEW c \in Calls, Begin(s, c) PROVE Accounts'
  <2>1. Busy' = Busy \cup {s} /\ s \notin Busy /\ InUse' = InUse
    BY <1>1 DEF Begin, Goto, Busy, InUse, Active, Types
  <2>2. Cardinality(Busy)' = Cardinality(Busy) + 1
    BY <2>1, FS_AddElement
  <2>3. dups' = dups + 1 /\ UNCHANGED <<bufs, abandoned>>
    BY <1>1 DEF Begin
  <2>4. abandoned \in Nat BY DEF Types
  <2> QED BY <2>1, <2>2, <2>3, <2>4
<1>2. ASSUME NEW s \in Sessions, LoadBuffer(s) PROVE Accounts'
  <2>1. InUse' = InUse \cup {s} /\ s \notin InUse /\ Busy' = Busy
    BY <1>2 DEF LoadBuffer, Goto, Busy, InUse, Active, Types, Frames
  <2>2. Cardinality(InUse)' = Cardinality(InUse) + 1
    BY <2>1, FS_AddElement
  <2>3. bufs' = bufs + 1 /\ UNCHANGED <<dups, abandoned>>
    BY <1>2 DEF LoadBuffer
  <2>4. abandoned \in Nat BY DEF Types
  <2> QED BY <2>1, <2>2, <2>3, <2>4
<1>3. ASSUME NEW s \in Sessions,
             LoadRaises(s) \/ ArgumentsRaise(s) \/ StartRaises(s) \/ CallbackRaises(s)
               \/ BlockRaises(s)
      PROVE  Accounts'
  <2>1. Active(s) /\ Leave(s) /\ dups' = dups /\ abandoned' = abandoned + 1
    BY <1>3 DEF LoadRaises, ArgumentsRaise, StartRaises, CallbackRaises, BlockRaises,
                Abandon, Active
  <2>2. \/ bufs' = bufs
        \/ bufs' = bufs + 1 /\ ~buffer[s]
        \/ bufs' = bufs - 1 /\ buffer[s]
    BY <1>3 DEF LoadRaises, ArgumentsRaise, StartRaises, CallbackRaises, BlockRaises, Frames
  <2>3. bufs \in Int /\ abandoned \in Nat BY DEF Types
  <2> QED BY <2>1, <2>2, <2>3, LeaveCounts
<1>4. ASSUME NEW s \in Sessions, Finish(s) PROVE Accounts'
  <2>1. Active(s) /\ Leave(s) /\ dups' = dups - 1 /\ abandoned' = abandoned
    BY <1>4 DEF Finish, Active
  <2>2. bufs' = IF buffer[s] THEN bufs - 1 ELSE bufs BY <1>4 DEF Finish
  <2>3. bufs \in Int /\ abandoned \in Nat BY DEF Types
  <2> QED BY <2>1, <2>2, <2>3, LeaveCounts
<1>5. ASSUME NEW s \in Sessions,
             LoadBfd(s) \/ Arguments(s) \/ Start(s) \/ Decode(s) \/ Report(s) \/ Display(s)
               \/ CallFreed(s)
      PROVE  Accounts'
  <2>1. UNCHANGED <<dups, bufs, abandoned, buffer>>
    BY <1>5 DEF LoadBfd, Arguments, Start, Decode, Report, Display, CallFreed, session
  <2>2. \A t \in Sessions : Active(t)' = Active(t)
    BY <1>5 DEF LoadBfd, Arguments, Start, Decode, Report, Display, CallFreed, session,
                Goto, Active, Types
  <2> QED BY <2>1, <2>2, AccountsKept
<1>6. ASSUME \/ \E a \in Assignments : Assign(a)
             \/ \E o \in Objects : Collect(o) \/ Forget(o)
             \/ \E k \in Kinds : ReadAttr(k)
             \/ UNCHANGED vars
      PROVE  Accounts'
  <2>1. UNCHANGED <<dups, bufs, abandoned, buffer, pc>>
    BY <1>6 DEF Assign, Collect, Forget, ReadAttr, vars, session
  <2> QED BY <2>1, AccountsKept DEF Active
<1> QED
  BY <1>1, <1>2, <1>3, <1>4, <1>5, <1>6 DEF Next, Step

-----------------------------------------------------------------------------
(* The theorems.                                                           *)

LEMMA InitIInv == Init => IInv
<1> SUFFICES ASSUME Init PROVE IInv OBVIOUS
<1> PICK a \in Assignments :
      /\ callback = [k \in Kinds |-> CallbackAfter(k, a.cb[k], Default)]
      /\ attr     = [k \in Kinds |-> AttrAfter(k, a.cb[k], Nil)]
      /\ settings = SettingsAfter(a, Initial)
  BY DEF Init
<1>1. a \in Hashes BY CallsAssumption
<1>2. Types
  <2>1. callback \in Pointers
    BY ObjectsAssumption DEF CallbackAfter, Pointers
  <2>2. attr \in [Kinds -> Objects \cup {Nil}]
    BY ObjectsAssumption DEF AttrAfter
  <2>3. settings \in Settings
    BY <1>1, SettingsAssumption DEF SettingsAfter, Settings, Hashes
  <2>4. Blank \in [cb: Pointers, settings: Settings]
    BY SettingsAssumption DEF Blank, Pointers
  <2>5. /\ pc \in [Sessions -> Labels] /\ call \in [Sessions -> Calls \cup {NoCall}]
        /\ buffer \in [Sessions -> BOOLEAN] /\ items \in [Sessions -> Nat]
    BY DEF Init, Labels
  <2>6. dup \in [Sessions -> [cb: Pointers, settings: Settings]]
    BY <2>4 DEF Init
  <2>7. /\ heap = Objects /\ held = Objects /\ gcEnabled \in BOOLEAN
        /\ dups = 0 /\ bufs = 0 /\ calls = 0 /\ abandoned = 0 /\ fault \in BOOLEAN
    BY Zenon DEF Init
  <2> QED BY <2>1, <2>2, <2>3, <2>5, <2>6, <2>7 DEF Types
<1>3. Frames BY DEF Init, Frames, Active
<1>4. Rooted
  BY ObjectsAssumption DEF Init, Rooted, Active, CallbackAfter, AttrAfter
<1>5. DupsAccounted /\ BufsAccounted
  <2>1. Busy = {} /\ InUse = {} BY DEF Init, Busy, InUse, Active
  <2>2. dups = 0 /\ bufs = 0 /\ abandoned = 0 BY DEF Init
  <2> QED BY <2>1, <2>2, FS_EmptySet DEF DupsAccounted, BufsAccounted
<1> QED BY <1>2, <1>3, <1>4, <1>5 DEF IInv

THEOREM Invariance == Spec => []IInv
<1>1. Init => IInv BY InitIInv
<1>2. IInv /\ [Next]_vars => IInv'
  BY TypesStep, FramesStep, RootedStep, AccountsStep DEF IInv, Accounts
<1> QED BY <1>1, <1>2, PTL DEF Spec

\* Every variable keeps its type; no order of returns and exceptions drives an
\* allocation counter below zero, so nothing is freed twice.
THEOREM TypeCorrect == Spec => []TypeOK
<1>1. IInv => TypeOK
  BY SetsFinite DEF IInv, Types, TypeOK, Labels, DupsAccounted, BufsAccounted
<1> QED BY <1>1, Invariance, PTL

\* The callback the instance would hand to the next call is never a freed object.
THEOREM InstanceCallbacksAlive == Spec => []InstanceRooted
<1>1. IInv => InstanceRooted BY DEF IInv, Rooted, InstanceRooted
<1> QED BY <1>1, Invariance, PTL

\* A running call's callback is freed only after the instance got another one.
THEOREM CallbacksFreedByReplacement == Spec => []FreedOnlyIfReplaced
<1>1. IInv => FreedOnlyIfReplaced BY DEF IInv, Rooted, FreedOnlyIfReplaced, Freed
<1> QED BY <1>1, Invariance, PTL

\* Each call in progress owns one duplicate and each exception loses one.
THEOREM DuplicatesAccounted == Spec => []DupsAccounted
<1>1. IInv => DupsAccounted BY DEF IInv
<1> QED BY <1>1, Invariance, PTL

\* Buffers in use are allocated; an exception loses at most one.
THEOREM BuffersAccounted == Spec => []BufsAccounted
<1>1. IInv => BufsAccounted BY DEF IInv
<1> QED BY <1>1, Invariance, PTL

-----------------------------------------------------------------------------
(* The collector's switch.                                                 *)

\* Every step that touches the switch: a session enters its strategy, leaves it
\* by return, or is refused its strategy.
LEMMA SwitchStep ==
  ASSUME Types, [Next]_vars
  PROVE  \/ UNCHANGED gcEnabled
         \/ ~gcEnabled' /\ \E s \in Sessions : Start(s) \/ StartRaises(s)
         \/ gcEnabled' /\ \E s \in Sessions : Finish(s)
<1>1. ASSUME NEW s \in Sessions, Step(s)
      PROVE  UNCHANGED gcEnabled \/ Start(s) \/ StartRaises(s) \/ Finish(s)
  BY <1>1 DEF Step, Begin, LoadRaises, LoadBuffer, LoadBfd, Arguments, ArgumentsRaise,
              Decode, Report, CallbackRaises, CallFreed, Display, BlockRaises, session
<1>2. ASSUME \/ \E a \in Assignments : Assign(a)
             \/ \E o \in Objects : Collect(o) \/ Forget(o)
             \/ \E k \in Kinds : ReadAttr(k)
             \/ UNCHANGED vars
      PROVE  UNCHANGED gcEnabled
  BY <1>2 DEF Assign, Collect, Forget, ReadAttr, vars, session
<1>3. ASSUME NEW s \in Sessions, Start(s) \/ StartRaises(s) PROVE ~gcEnabled'
  BY <1>3 DEF Start, StartRaises
<1>4. ASSUME NEW s \in Sessions, Finish(s) PROVE gcEnabled'
  BY <1>4 DEF Finish
<1> QED BY <1>1, <1>2, <1>3, <1>4 DEF Next

\* A session leaves its strategy only by returning, which enables the collector,
\* or by an exception, which is counted.
LEMMA StrategyExit ==
  ASSUME Types, [Next]_vars, NEW s \in Sessions, InStrategy(s), ~InStrategy(s)'
  PROVE  gcEnabled' \/ abandoned' = abandoned + 1
<1> USE DEF InStrategy, Goto, Types
<1>1. ASSUME NEW t \in Sessions, Step(t)
      PROVE  gcEnabled' \/ abandoned' = abandoned + 1
  <2>1. CASE \/ LoadRaises(t) \/ ArgumentsRaise(t) \/ StartRaises(t) \/ CallbackRaises(t)
             \/ BlockRaises(t)
    BY <2>1 DEF LoadRaises, ArgumentsRaise, StartRaises, CallbackRaises, BlockRaises, Abandon
  <2>2. CASE Finish(t) BY <2>2 DEF Finish
  <2>3. CASE \/ \E c \in Calls : Begin(t, c)
             \/ LoadBuffer(t) \/ LoadBfd(t) \/ Arguments(t) \/ Start(t)
    BY <2>3 DEF Begin, LoadBuffer, LoadBfd, Arguments, Start
  <2>4. CASE Decode(t) \/ Report(t) \/ Display(t) \/ CallFreed(t)
    BY <2>4 DEF Decode, Report, Display, CallFreed, session
  <2> QED BY <1>1, <2>1, <2>2, <2>3, <2>4 DEF Step
<1>2. ASSUME \/ \E a \in Assignments : Assign(a)
             \/ \E o \in Objects : Collect(o) \/ Forget(o)
             \/ \E k \in Kinds : ReadAttr(k)
             \/ UNCHANGED vars
      PROVE  UNCHANGED pc
  BY <1>2 DEF Assign, Collect, Forget, ReadAttr, vars, session
<1> QED BY <1>1, <1>2 DEF Next

LEMMA AbandonedGrows ==
  ASSUME Types, [Next]_vars
  PROVE  abandoned' = abandoned \/ abandoned' = abandoned + 1
BY DEF Next, Step, Begin, LoadRaises, LoadBuffer, LoadBfd, Arguments, ArgumentsRaise, Start,
       StartRaises, Decode, Report, CallbackRaises, CallFreed, Display, BlockRaises, Finish,
       Abandon, Assign, Collect, Forget, ReadAttr, vars

\* The collector is off only under a strategy or after an exception.
THEOREM CollectorOffForAReason == Spec => []OffForAReason
<1>1. Init => OffForAReason BY DEF Init, OffForAReason
<1>2. Types /\ OffForAReason /\ [Next]_vars => OffForAReason'
  <2> SUFFICES ASSUME Types, OffForAReason, [Next]_vars, ~gcEnabled'
               PROVE  abandoned' > 0 \/ \E s \in Sessions : InStrategy(s)'
    BY DEF OffForAReason
  <2> USE DEF Types
  <2>1. abandoned' = abandoned \/ abandoned' = abandoned + 1 BY AbandonedGrows
  <2>2. CASE abandoned > 0 BY <2>1, <2>2
  <2>3. ASSUME NEW s \in Sessions, InStrategy(s)
        PROVE  abandoned' > 0 \/ InStrategy(s)'
    BY <2>3, StrategyExit
  <2>4. ASSUME NEW s \in Sessions, Start(s) PROVE InStrategy(s)'
    BY <2>4 DEF Start, Goto, InStrategy
  <2>5. ASSUME NEW s \in Sessions, StartRaises(s) PROVE abandoned' > 0
    BY <2>5 DEF StartRaises, Abandon
  <2>6. CASE gcEnabled BY <2>4, <2>5, <2>6, SwitchStep
  <2> QED BY <2>2, <2>3, <2>6 DEF OffForAReason
<1>3. IInv => Types BY DEF IInv
<1> QED BY <1>1, <1>2, <1>3, Invariance, PTL DEF Spec

\* Under a session in its strategy, only another call's return enables it.
THEOREM CollectorOnByReturn == Spec => EnabledOnlyByReturn
<1>1. Types /\ [Next]_vars =>
        [(~gcEnabled /\ gcEnabled' /\ \E s \in Sessions : InStrategy(s) /\ InStrategy(s)')
         => \E t \in Sessions : InStrategy(t) /\ ~Active(t)' /\ abandoned' = abandoned]_vars
  <2> SUFFICES ASSUME Types, [Next]_vars, ~gcEnabled, gcEnabled'
               PROVE  \E t \in Sessions : InStrategy(t) /\ ~Active(t)' /\ abandoned' = abandoned
    OBVIOUS
  <2>1. PICK t \in Sessions : Finish(t) BY SwitchStep
  <2>2. InStrategy(t) /\ abandoned' = abandoned BY <2>1 DEF Finish, InStrategy
  <2>3. ~Active(t)' BY <2>1 DEF Finish, Leave, Goto, Active, Types
  <2> QED BY <2>2, <2>3
<1>2. IInv => Types BY DEF IInv
<1> QED BY <1>1, <1>2, Invariance, PTL DEF Spec, EnabledOnlyByReturn

\* With one session, so with no second thread and no call inside a block, the
\* collector is off as long as the strategy runs.
THEOREM SoleSessionCollectorOff ==
  ASSUME \A s, t \in Sessions : s = t
  PROVE  Spec => []GcOffInStrategy
<1>1. Init => GcOffInStrategy BY DEF Init, GcOffInStrategy, InStrategy
<1>2. Types /\ GcOffInStrategy /\ [Next]_vars => GcOffInStrategy'
  <2> SUFFICES ASSUME Types, GcOffInStrategy, [Next]_vars, NEW s \in Sessions, InStrategy(s)'
               PROVE  ~gcEnabled'
    BY DEF GcOffInStrategy
  <2>1. CASE \E t \in Sessions : Finish(t)
    BY <2>1 DEF Finish, Leave, Goto, InStrategy, Types
  <2>2. CASE InStrategy(s) BY <2>1, <2>2, SwitchStep DEF GcOffInStrategy
  <2>3. CASE ~InStrategy(s)
    <3>1. ASSUME NEW t \in Sessions, Step(t) PROVE Start(t)
      BY <3>1, <2>3 DEF Step, Begin, LoadRaises, LoadBuffer, LoadBfd, Arguments,
         ArgumentsRaise, StartRaises, Decode, Report, CallbackRaises, CallFreed, Display,
         BlockRaises, Finish, Abandon, Leave, Goto, InStrategy, session, Types
    <3>2. ASSUME \/ \E a \in Assignments : Assign(a)
                 \/ \E o \in Objects : Collect(o) \/ Forget(o)
                 \/ \E k \in Kinds : ReadAttr(k)
                 \/ UNCHANGED vars
          PROVE  UNCHANGED pc
      BY <3>2 DEF Assign, Collect, Forget, ReadAttr, vars, session
    <3> QED BY <2>3, <3>1, <3>2 DEF Next, Start, InStrategy
  <2> QED BY <2>2, <2>3
<1>3. IInv => Types BY DEF IInv
<1> QED BY <1>1, <1>2, <1>3, Invariance, PTL DEF Spec

-----------------------------------------------------------------------------
(* Programs that give each kind one object at most.                        *)

\* The objects the program's hashes give for kind k and a setter accepts.
Hashed   == Assignments \cup {c.args : c \in Calls}
Given(k) == {a.cb[k] : a \in Hashed} \cap Responds[k]

\* Every pointer and every instance variable holds what a hash gave for its kind.
FromHashes ==
  \A k \in Kinds :
    /\ attr[k] \in Given(k) \cup {Nil}
    /\ callback[k] \in Given(k) \cup {Default}
    /\ \A s \in Sessions : Active(s) => dup[s].cb[k] \in Given(k) \cup {Default}

\* Only Assign, Arguments and ArgumentsRaise change the instance, each by a hash of the
\* program; the rest leaves it.
LEMMA InstanceStep ==
  ASSUME Types, Frames, Next
  PROVE  UNCHANGED instance \/ \E a \in Hashed : HandleArgs(a)
<1>1. ASSUME NEW s \in Sessions, Arguments(s) \/ ArgumentsRaise(s)
      PROVE  \E a \in Hashed : HandleArgs(a)
  <2>1. Active(s) /\ HandleArgs(call[s].args) BY <1>1 DEF Arguments, ArgumentsRaise, Active
  <2>2. call[s].args \in Hashed BY <2>1 DEF Frames, Hashed
  <2> QED BY <2>1, <2>2
<1>2. ASSUME NEW s \in Sessions, Step(s), ~Arguments(s), ~ArgumentsRaise(s)
      PROVE  UNCHANGED instance
  BY <1>2 DEF Step, Begin, LoadRaises, LoadBuffer, LoadBfd, Start, StartRaises, Decode, Report,
     CallbackRaises, CallFreed, Display, BlockRaises, Finish
<1>3. ASSUME NEW a \in Assignments, Assign(a) PROVE HandleArgs(a) /\ a \in Hashed
  BY <1>3 DEF Assign, Hashed
<1>4. ASSUME \/ \E o \in Objects : Collect(o) \/ Forget(o)
             \/ \E k \in Kinds : ReadAttr(k)
      PROVE  UNCHANGED instance
  BY <1>4 DEF Collect, Forget, ReadAttr
<1> QED BY <1>1, <1>2, <1>3, <1>4 DEF Next

\* A duplicate is taken of the instance, and its callbacks stay.
LEMMA DupStep ==
  ASSUME Types, Next, NEW s \in Sessions, Active(s)'
  PROVE  dup'[s].cb = callback \/ (Active(s) /\ dup'[s].cb = dup[s].cb)
<1>1. ASSUME NEW t \in Sessions, NEW c \in Calls, Begin(t, c)
      PROVE  dup'[s].cb = callback \/ (Active(s) /\ dup'[s].cb = dup[s].cb)
  BY <1>1 DEF Begin, Goto, Active, Types
<1>2. ASSUME NEW t \in Sessions, Leave(t) PROVE Active(s) /\ dup'[s].cb = dup[s].cb
  <2>1. s # t BY <1>2 DEF Leave, Goto, Active, Types
  <2> QED BY <1>2, <2>1 DEF Leave, Goto, Active, Types
<1>3. ASSUME NEW t \in Sessions,
             LoadRaises(t) \/ ArgumentsRaise(t) \/ StartRaises(t) \/ CallbackRaises(t)
               \/ BlockRaises(t) \/ Finish(t)
      PROVE  Leave(t)
  BY <1>3 DEF LoadRaises, ArgumentsRaise, StartRaises, CallbackRaises, BlockRaises, Finish,
              Abandon
<1>4. ASSUME NEW t \in Sessions,
             LoadBuffer(t) \/ LoadBfd(t) \/ Arguments(t) \/ Start(t) \/ Decode(t)
               \/ Report(t) \/ Display(t) \/ CallFreed(t)
      PROVE  Active(s) /\ dup'[s].cb = dup[s].cb
  <2>1. Active(s)
    BY <1>4 DEF LoadBuffer, LoadBfd, Arguments, Start, Decode, Report, Display, CallFreed,
       session, Goto, Active, Types
  <2>2. CASE LoadBfd(t) BY <2>1, <2>2 DEF LoadBfd, Types
  <2>3. CASE UNCHANGED dup BY <2>1, <2>3
  <2> QED BY <1>4, <2>2, <2>3
      DEF LoadBuffer, Arguments, Start, Decode, Report, Display, CallFreed, session
<1>5. ASSUME \/ \E a \in Assignments : Assign(a)
             \/ \E o \in Objects : Collect(o) \/ Forget(o)
             \/ \E k \in Kinds : ReadAttr(k)
      PROVE  UNCHANGED <<pc, dup>>
  BY <1>5 DEF Assign, Collect, Forget, ReadAttr, session
<1> QED BY <1>1, <1>2, <1>3, <1>4, <1>5 DEF Next, Step, Active

LEMMA FromHashesStep ==
  ASSUME Types, Frames, FromHashes, [Next]_vars PROVE FromHashes'
<1>1. CASE UNCHANGED vars
  BY <1>1 DEF vars, instance, session, FromHashes, Active
<1>2. CASE Next
  <2> SUFFICES ASSUME NEW k \in Kinds
               PROVE  /\ attr'[k] \in Given(k) \cup {Nil}
                      /\ callback'[k] \in Given(k) \cup {Default}
                      /\ \A s \in Sessions : Active(s)' => dup'[s].cb[k] \in Given(k) \cup {Default}
    BY DEF FromHashes
  <2>1. /\ attr[k] \in Given(k) \cup {Nil} /\ callback[k] \in Given(k) \cup {Default}
        /\ \A s \in Sessions : Active(s) => dup[s].cb[k] \in Given(k) \cup {Default}
    BY DEF FromHashes
  <2>2. attr'[k] \in Given(k) \cup {Nil} /\ callback'[k] \in Given(k) \cup {Default}
    <3>1. CASE UNCHANGED instance BY <2>1, <3>1 DEF instance
    <3>2. ASSUME NEW a \in Hashed, HandleArgs(a)
          PROVE  attr'[k] \in Given(k) \cup {Nil} /\ callback'[k] \in Given(k) \cup {Default}
      BY <2>1, <3>2 DEF HandleArgs, AttrAfter, CallbackAfter, Given
    <3> QED BY <1>2, <3>1, <3>2, InstanceStep
  <2>3. ASSUME NEW s \in Sessions, Active(s)'
        PROVE  dup'[s].cb[k] \in Given(k) \cup {Default}
    BY <1>2, <2>1, <2>3, DupStep
  <2> QED BY <2>2, <2>3
<1> QED BY <1>1, <1>2

\* The comment at Opdis.c:679, where it holds: a program that gives a Disassembler no
\* more than one object for each kind, and nil as often as it likes, never has a freed
\* object called, with any number of sessions and whatever it forgets.
THEOREM OneObjectPerKindSafe ==
  ASSUME \A k \in Kinds : \A x, y \in Given(k) : x = y
  PROVE  Spec => []NoFault
<1>1. Init => FromHashes
  <2> SUFFICES ASSUME Init PROVE FromHashes OBVIOUS
  <2>1. PICK a \in Assignments :
          /\ callback = [k \in Kinds |-> CallbackAfter(k, a.cb[k], Default)]
          /\ attr     = [k \in Kinds |-> AttrAfter(k, a.cb[k], Nil)]
    BY DEF Init
  <2>2. \A s \in Sessions : ~Active(s) BY DEF Init, Active
  <2> QED BY <2>1, <2>2 DEF FromHashes, CallbackAfter, AttrAfter, Given, Hashed
<1>2. IInv /\ FromHashes /\ [Next]_vars => FromHashes'
  BY FromHashesStep DEF IInv
<1>3. Init => NoFault BY DEF Init, NoFault
<1>4. IInv /\ FromHashes /\ NoFault /\ [Next]_vars => NoFault'
  <2> SUFFICES ASSUME IInv, FromHashes, NoFault, [Next]_vars PROVE NoFault' OBVIOUS
  <2>1. ASSUME NEW s \in Sessions, CallFreed(s) PROVE FALSE
    <3>1. PICK k \in Kinds : Freed(s, k)
      <4>1. Uses(call[s].strategy) \subseteq Kinds BY DEF Uses, Kinds
      <4> QED BY <2>1, <4>1 DEF CallFreed
    <3>2. Active(s) BY <2>1 DEF CallFreed, Active
    <3>3. dup[s].cb[k] \in Objects \ heap BY <3>1 DEF Freed
    <3>4. attr[k] \in Objects /\ attr[k] \in heap BY <3>2, <3>3 DEF IInv, Rooted
    <3>5. attr[k] \in Given(k) /\ dup[s].cb[k] \in Given(k)
      BY <3>2, <3>3, <3>4, ObjectsAssumption DEF FromHashes
    <3>6. attr[k] = dup[s].cb[k] BY <3>5
    <3> QED BY <3>3, <3>4, <3>6
  <2>2. ASSUME NEW s \in Sessions, Step(s) PROVE fault' = fault
    BY <2>1, <2>2 DEF Step, Begin, LoadRaises, LoadBuffer, LoadBfd, Arguments, ArgumentsRaise,
       Start, StartRaises, Decode, Report, CallbackRaises, Display, BlockRaises, Finish, Abandon
  <2>3. ASSUME \/ \E a \in Assignments : Assign(a)
               \/ \E o \in Objects : Collect(o) \/ Forget(o)
               \/ \E k \in Kinds : ReadAttr(k)
               \/ UNCHANGED vars
        PROVE  fault' = fault
    BY <2>3 DEF Assign, Collect, Forget, ReadAttr, vars
  <2> QED BY <2>2, <2>3 DEF Next, NoFault
<1> QED BY <1>1, <1>2, <1>3, <1>4, Invariance, PTL DEF Spec

-----------------------------------------------------------------------------
(* Refinement: a call works on the callbacks it began with.                *)

Running == [s \in Sessions |-> IF Active(s) THEN dup[s].cb ELSE NoCall]

\* No session begins, leaves or changes its duplicate's callbacks.
LEMMA RunningKept ==
  ASSUME \A t \in Sessions : Active(t)' = Active(t),
         \A t \in Sessions : dup'[t].cb = dup[t].cb
  PROVE  Running' = Running
BY DEF Running

\* A session that leaves is taken out of the abstract calls.
LEMMA RunningLeaves ==
  ASSUME NEW s \in Sessions, Types, Active(s), Leave(s)
  PROVE  /\ Running[s] # NoCall
         /\ Running' = [Running EXCEPT ![s] = NoCall]
<1>1. Running[s] = dup[s].cb /\ dup[s].cb \in Pointers BY DEF Running, Types
<1>2. \A t \in Sessions : t # s => Active(t)' = Active(t) /\ dup'[t] = dup[t]
  BY DEF Leave, Goto, Active, Types
<1>3. ~Active(s)' BY DEF Leave, Goto, Active, Types
<1> QED BY <1>1, <1>2, <1>3, CallsAssumption DEF Running

THEOREM CallsWorkOnSnapshot == Spec => SnapshotSpec
<1> DEFINE ANext == Snapshot!Next
           AVars == <<callback, Running>>
<1>1. Init => Snapshot!Init
  <2> SUFFICES ASSUME Init PROVE Snapshot!Init OBVIOUS
  <2>1. callback \in Pointers BY InitIInv DEF IInv, Types
  <2>2. \A s \in Sessions : ~Active(s) BY DEF Init, Active
  <2> QED BY <2>1, <2>2 DEF Snapshot!Init
<1>2. Types /\ Types' /\ [Next]_vars => [ANext]_AVars
  <2> SUFFICES ASSUME Types, Types', [Next]_vars PROVE ANext \/ UNCHANGED AVars
    OBVIOUS
  <2>1. ASSUME NEW s \in Sessions, NEW c \in Calls, Begin(s, c) PROVE ANext
    <3>1. ~Active(s) /\ Active(s)' /\ dup'[s].cb = callback /\ UNCHANGED callback
      BY <2>1 DEF Begin, Goto, Active, Types, instance
    <3>2. \A t \in Sessions : t # s => Active(t)' = Active(t) /\ dup'[t] = dup[t]
      BY <2>1 DEF Begin, Goto, Active, Types
    <3>3. Running[s] = NoCall /\ Running' = [Running EXCEPT ![s] = callback]
      BY <3>1, <3>2 DEF Running
    <3>4. Snapshot!Enter(s) BY <3>1, <3>3 DEF Snapshot!Enter, Running
    <3> QED BY <3>4 DEF Snapshot!Next
  <2>2. ASSUME NEW s \in Sessions, Active(s), Leave(s) PROVE ANext
    <3>1. Running[s] # NoCall /\ Running' = [Running EXCEPT ![s] = NoCall]
      BY <2>2, RunningLeaves
    <3>2. callback' \in Pointers BY DEF Types
    <3>3. Snapshot!Exit(s) BY <3>1 DEF Snapshot!Exit, Running
    <3> QED BY <3>2, <3>3 DEF Snapshot!Next
  <2>3. ASSUME NEW s \in Sessions,
               LoadRaises(s) \/ ArgumentsRaise(s) \/ StartRaises(s) \/ CallbackRaises(s)
                 \/ BlockRaises(s) \/ Finish(s)
        PROVE  Active(s) /\ Leave(s)
    BY <2>3 DEF LoadRaises, ArgumentsRaise, StartRaises, CallbackRaises, BlockRaises, Finish,
                Abandon, Active
  <2>4. ASSUME NEW s \in Sessions,
               LoadBuffer(s) \/ LoadBfd(s) \/ Start(s) \/ Decode(s) \/ Report(s)
                 \/ Display(s) \/ CallFreed(s)
        PROVE  UNCHANGED AVars
    <3>1. UNCHANGED callback
      BY <2>4 DEF LoadBuffer, LoadBfd, Start, Decode, Report, Display, CallFreed, instance
    <3>2. \A t \in Sessions : Active(t)' = Active(t)
      BY <2>4 DEF LoadBuffer, LoadBfd, Start, Decode, Report, Display, CallFreed, session,
                  Goto, Active, Types
    <3>3. \A t \in Sessions : dup'[t].cb = dup[t].cb
      <4>1. CASE LoadBfd(s) BY <4>1 DEF LoadBfd, Types
      <4>2. CASE UNCHANGED dup BY <4>2
      <4> QED BY <2>4, <4>1, <4>2
            DEF LoadBuffer, Start, Decode, Report, Display, CallFreed, session
    <3> QED BY <3>1, <3>2, <3>3, RunningKept
  <2>5. ASSUME UNCHANGED <<pc, dup>> PROVE ANext \/ UNCHANGED AVars
    <3>1. Running' = Running BY <2>5, RunningKept DEF Active
    <3>2. callback' \in Pointers BY DEF Types
    <3>3. Snapshot!Assign BY <3>1, <3>2 DEF Snapshot!Assign, Running
    <3> QED BY <3>3 DEF Snapshot!Next
  <2>6. ASSUME NEW s \in Sessions, Arguments(s) PROVE ANext
    <3>1. \A t \in Sessions : Active(t)' = Active(t) /\ dup'[t].cb = dup[t].cb
      BY <2>6 DEF Arguments, Goto, Active, Types
    <3>2. Running' = Running BY <3>1, RunningKept
    <3>3. callback' \in Pointers BY DEF Types
    <3>4. Snapshot!Assign BY <3>2, <3>3 DEF Snapshot!Assign, Running
    <3> QED BY <3>4 DEF Snapshot!Next
  <2>7. ASSUME \/ \E a \in Assignments : Assign(a)
               \/ \E o \in Objects : Collect(o) \/ Forget(o)
               \/ \E k \in Kinds : ReadAttr(k)
               \/ UNCHANGED vars
        PROVE  UNCHANGED <<pc, dup>>
    BY <2>7 DEF Assign, Collect, Forget, ReadAttr, vars, session
  <2> QED
    BY <2>1, <2>2, <2>3, <2>4, <2>5, <2>6, <2>7 DEF Next, Step
<1>3. IInv => Types BY DEF IInv
<1> HIDE DEF ANext, AVars
<1>4. Spec => Snapshot!Init /\ [][ANext]_AVars
  BY <1>1, <1>2, <1>3, Invariance, PTL DEF Spec
<1> QED BY <1>4, PTL DEF SnapshotSpec, Snapshot!Spec, ANext, AVars, Running

=============================================================================
