----------------------------- MODULE MagicProofs -----------------------------
(***************************************************************************)
(* Theorems about Magic for any threads, requests and number of calls.     *)
(* The inductive invariant says what alone means: the variable holds the   *)
(* newest handle, and a call that is alone opened it.                      *)
(***************************************************************************)
EXTENDS Magic, FiniteSetTheorems, TLAPS

\* A call not overlapped is the only one in progress and opened the newest handle.
Solitude ==
  /\ magic_dict = opened
  /\ \A t \in Threads : Active(t) => /\ request[t] \in Requests
                                     /\ pc[t] = "apply" => request[t].file = "ok"
  /\ \A t, u \in Threads : Active(t) /\ alone[t] /\ Active(u) => u = t

IInv == TypeOK /\ Solitude /\ AloneOnOwnHandle /\ HandlesAccounted /\ opened = begun

LEMMA RequestFields == \A r \in Requests : r.flags \in Flags
  BY MagicAssumption DEF RequestHashes

LEMMA Finite ==
  ASSUME TypeOK
  PROVE  /\ IsFiniteSet(Busy) /\ Cardinality(Busy) \in Nat
         /\ IsFiniteSet(live) /\ Cardinality(live) \in Nat
<1>1. IsFiniteSet(Busy)
  <2>1. Busy \in SUBSET Threads BY DEF Busy
  <2> QED BY <2>1, MagicAssumption, FS_Subset
<1>2. IsFiniteSet(live)
  <2>1. 1 \in Int /\ opened \in Int /\ live \in SUBSET (1 .. opened) BY MagicAssumption DEF TypeOK
  <2>2. IsFiniteSet(1 .. opened) BY <2>1, FS_Interval
  <2> QED BY <2>1, <2>2, FS_Subset
<1> QED BY <1>1, <1>2, FS_CardinalityType

\* The handle just opened is new, and open.
LEMMA OpenedHandle ==
  ASSUME TypeOK, NEW t \in Threads, NEW r \in Requests, MagicOpen(t, r)
  PROVE  /\ opened' \in Nat /\ opened' = opened + 1 /\ magic_dict' = opened'
         /\ live' \subseteq 1 .. opened' /\ opened' \in live'
         /\ flags' \in Seq(Flags) /\ Len(flags') = opened' /\ flags'[opened'] = r.flags
         /\ \A h \in 1 .. opened : flags'[h] = flags[h]
         /\ Cardinality(live)' = Cardinality(live) + 1
<1>1. r.flags \in Flags BY RequestFields
<1>2. opened \in Nat /\ live \subseteq 1 .. opened BY MagicAssumption DEF TypeOK
<1>3. flags \in Seq(Flags) /\ Len(flags) = opened BY DEF TypeOK
<1>4. /\ opened' \in Nat /\ opened' = opened + 1 /\ magic_dict' = opened'
      /\ live' \subseteq 1 .. opened' /\ opened' \in live'
  BY <1>2 DEF MagicOpen
<1>5. /\ flags' \in Seq(Flags) /\ Len(flags') = opened' /\ flags'[opened'] = r.flags
      /\ \A h \in 1 .. opened : flags'[h] = flags[h]
  BY <1>1, <1>2, <1>3 DEF MagicOpen
<1>6. opened + 1 \notin live BY <1>2
<1>7. Cardinality(live)' = Cardinality(live) + 1
  BY <1>6, Finite, FS_AddElement DEF MagicOpen
<1> QED BY <1>4, <1>5, <1>7

LEMMA LeaveFrame ==
  ASSUME TypeOK, NEW t \in Threads, Active(t), Leave(t)
  PROVE  /\ pc' \in [Threads -> {"idle", "load", "apply"}]
         /\ request' \in [Threads -> Requests \cup {NoRequest}]
         /\ passed' \in [Threads -> 0 .. opened] /\ own' \in [Threads -> 0 .. opened]
         /\ alone' \in [Threads -> BOOLEAN]
         /\ ~Active(t)'
         /\ \A u \in Threads \ {t} :
              /\ Active(u)' = Active(u) /\ pc'[u] = pc[u] /\ request'[u] = request[u]
              /\ own'[u] = own[u] /\ passed'[u] = passed[u] /\ alone'[u] = alone[u]
         /\ Cardinality(Busy)' = Cardinality(Busy) - 1
<1>1. 0 \in 0 .. opened BY MagicAssumption DEF TypeOK
<1>2. /\ pc' \in [Threads -> {"idle", "load", "apply"}]
      /\ request' \in [Threads -> Requests \cup {NoRequest}]
      /\ passed' \in [Threads -> 0 .. opened] /\ own' \in [Threads -> 0 .. opened]
      /\ alone' \in [Threads -> BOOLEAN]
  BY <1>1 DEF Leave, TypeOK, NULL
<1>3. /\ ~Active(t)'
      /\ \A u \in Threads \ {t} :
           /\ Active(u)' = Active(u) /\ pc'[u] = pc[u] /\ request'[u] = request[u]
           /\ own'[u] = own[u] /\ passed'[u] = passed[u] /\ alone'[u] = alone[u]
  BY DEF Leave, Active, TypeOK
<1>4. Busy' = Busy \ {t} /\ t \in Busy BY <1>3 DEF Busy
<1>5. Cardinality(Busy \ {t}) = Cardinality(Busy) - 1 BY <1>4, Finite, FS_RemoveElement
<1> QED BY <1>2, <1>3, <1>4, <1>5

-----------------------------------------------------------------------------
(* One lemma per kind of step.                                             *)

LEMMA OpenStep ==
  ASSUME IInv, NEW t \in Threads, NEW r \in Requests, Open(t, r)
  PROVE  IInv'
<1>1. TypeOK BY DEF IInv
<1>2. /\ opened' \in Nat /\ opened' = opened + 1 /\ magic_dict' = opened'
      /\ live' \subseteq 1 .. opened' /\ opened' \in live'
      /\ flags' \in Seq(Flags) /\ Len(flags') = opened' /\ flags'[opened'] = r.flags
      /\ Cardinality(live)' = Cardinality(live) + 1
  BY <1>1, OpenedHandle DEF Open
<1>3. /\ pc' = [pc EXCEPT ![t] = "load"] /\ request' = [request EXCEPT ![t] = r]
      /\ own' = [own EXCEPT ![t] = opened']
      /\ alone' = [u \in Threads |-> u = t /\ \A v \in Threads : ~Active(v)]
      /\ begun' = begun + 1 /\ begun < MaxCalls /\ ~Active(t)
      /\ UNCHANGED <<passed, raised, fault>>
  BY DEF Open, Active
<1>4. begun' \in 0 .. MaxCalls /\ opened' = begun' /\ raised' \in 0 .. begun'
  BY <1>1, <1>2, <1>3, MagicAssumption DEF IInv, TypeOK
<1>5. TypeOK'
  <2>1. /\ pc' \in [Threads -> {"idle", "load", "apply"}]
        /\ request' \in [Threads -> Requests \cup {NoRequest}]
    BY <1>1, <1>3 DEF TypeOK
  <2>2. passed' \in [Threads -> 0 .. opened'] /\ own' \in [Threads -> 0 .. opened']
    BY <1>1, <1>2, <1>3 DEF TypeOK
  <2>3. alone' \in [Threads -> BOOLEAN] BY Zenon, <1>3
  <2>4. fault' \in BOOLEAN
    BY <1>1, <1>3 DEF TypeOK
  <2>5. opened' \in 0 .. begun' /\ magic_dict' \in 0 .. opened' BY <1>2, <1>4
  <2> QED BY <1>2, <1>4, <2>1, <2>2, <2>3, <2>4, <2>5 DEF TypeOK
<1>6. \A u \in Threads : /\ u # t => (Active(u)' <=> Active(u)) /\ pc'[u] = pc[u]
                                     /\ request'[u] = request[u]
                         /\ Active(t)' /\ pc'[t] = "load" /\ request'[t] = r
                         /\ Active(u)' /\ alone'[u] => u = t /\ \A v \in Threads : ~Active(v)
  BY <1>1, <1>3 DEF TypeOK, Active
<1>7. Solitude' BY <1>2, <1>6 DEF IInv, Solitude
<1>8. AloneOnOwnHandle'
  <2>1. own'[t] = opened' BY <1>1, <1>3 DEF TypeOK
  <2> QED BY <1>2, <1>6, <2>1 DEF AloneOnOwnHandle
<1>9. HandlesAccounted'
  <2>1. Busy' = Busy \cup {t} /\ t \notin Busy BY <1>3, <1>6 DEF Busy
  <2>2. Cardinality(Busy)' = Cardinality(Busy) + 1 BY <1>1, <2>1, Finite, FS_AddElement
  <2> QED BY <1>1, <1>2, <1>3, <2>2, Finite DEF IInv, HandlesAccounted, TypeOK
<1> QED BY <1>4, <1>5, <1>7, <1>8, <1>9 DEF IInv

LEMMA OpenRaisesStep ==
  ASSUME IInv, NEW t \in Threads, NEW r \in Requests, OpenRaises(t, r)
  PROVE  IInv'
<1>1. TypeOK BY DEF IInv
<1>2. /\ opened' \in Nat /\ opened' = opened + 1 /\ magic_dict' = opened'
      /\ live' \subseteq 1 .. opened'
      /\ flags' \in Seq(Flags) /\ Len(flags') = opened'
      /\ Cardinality(live)' = Cardinality(live) + 1
  BY <1>1, OpenedHandle DEF OpenRaises
<1>3. /\ alone' = [u \in Threads |-> FALSE] /\ raised' = raised + 1
      /\ begun' = begun + 1 /\ begun < MaxCalls
      /\ UNCHANGED <<pc, request, passed, own, fault>>
  BY DEF OpenRaises
<1>4. begun' \in 0 .. MaxCalls /\ opened' = begun' /\ raised' \in 0 .. begun'
  BY <1>1, <1>2, <1>3, MagicAssumption DEF IInv, TypeOK
<1>5. TypeOK'
  <2>1. passed' \in [Threads -> 0 .. opened'] /\ own' \in [Threads -> 0 .. opened']
    BY <1>1, <1>2, <1>3 DEF TypeOK
  <2>2. alone' \in [Threads -> BOOLEAN] BY Zenon, <1>3
  <2>3. opened' \in 0 .. begun' /\ magic_dict' \in 0 .. opened' BY <1>2, <1>4
  <2>4. /\ pc' \in [Threads -> {"idle", "load", "apply"}]
        /\ request' \in [Threads -> Requests \cup {NoRequest}]
        /\ fault' \in BOOLEAN
    BY <1>1, <1>3 DEF TypeOK
  <2> QED BY <1>2, <1>4, <2>1, <2>2, <2>3, <2>4 DEF TypeOK
<1>6. Solitude' /\ AloneOnOwnHandle'
  BY <1>2, <1>3 DEF IInv, Solitude, AloneOnOwnHandle, Active
<1>7. HandlesAccounted'
  <2>1. Busy' = Busy BY <1>3 DEF Busy, Active
  <2> QED BY <1>1, <1>2, <1>3, <2>1, Finite DEF IInv, HandlesAccounted, TypeOK
<1> QED BY <1>4, <1>5, <1>6, <1>7 DEF IInv

LEMMA LoadStep ==
  ASSUME IInv, NEW t \in Threads, Load(t)
  PROVE  IInv'
<1>1. TypeOK BY DEF IInv
<1>2. /\ pc[t] = "load" /\ pc' = [pc EXCEPT ![t] = "apply"] /\ request[t].file = "ok"
      /\ passed' = [passed EXCEPT ![t] = magic_dict]
      /\ UNCHANGED <<magic_dict, opened, live, flags, begun, request, own, alone,
                     raised, fault>>
  BY DEF Load
<1>3. TypeOK' BY <1>1, <1>2 DEF TypeOK
<1>4. \A u \in Threads : /\ Active(u)' <=> Active(u)
                         /\ u # t => pc'[u] = pc[u] /\ passed'[u] = passed[u]
  BY <1>1, <1>2 DEF TypeOK, Active
<1>5. Solitude' /\ AloneOnOwnHandle'
  BY <1>1, <1>2, <1>4 DEF IInv, TypeOK, Solitude, AloneOnOwnHandle
<1>6. Busy' = Busy BY <1>4 DEF Busy
<1> QED BY <1>2, <1>3, <1>5, <1>6 DEF IInv, HandlesAccounted

\* A call ends: by an exception, which keeps every handle and is counted, or by
\* an answer, which closes the handle in the variable.
LEMMA LeaveStep ==
  ASSUME IInv, NEW t \in Threads, Active(t), Leave(t),
         UNCHANGED <<magic_dict, opened, flags, begun, fault>>,
         \/ live' = live /\ raised' = raised + 1
         \/ live' = live \ {magic_dict} /\ magic_dict \in live /\ raised' = raised
  PROVE  IInv'
<1>1. TypeOK BY DEF IInv
<1>2. /\ pc' \in [Threads -> {"idle", "load", "apply"}]
      /\ request' \in [Threads -> Requests \cup {NoRequest}]
      /\ passed' \in [Threads -> 0 .. opened] /\ own' \in [Threads -> 0 .. opened]
      /\ alone' \in [Threads -> BOOLEAN]
      /\ ~Active(t)'
      /\ \A u \in Threads \ {t} :
           /\ Active(u)' = Active(u) /\ pc'[u] = pc[u] /\ request'[u] = request[u]
           /\ own'[u] = own[u] /\ passed'[u] = passed[u] /\ alone'[u] = alone[u]
      /\ Cardinality(Busy)' = Cardinality(Busy) - 1
  BY <1>1, LeaveFrame
<1>3. HandlesAccounted'
  <2>1. CASE live' = live /\ raised' = raised + 1
    <3>1. Cardinality(live)' = Cardinality(live) BY <2>1
    <3>2. Cardinality(live) = Cardinality(Busy) + raised BY DEF IInv, HandlesAccounted
    <3>3. raised \in Int /\ Cardinality(live) \in Int /\ Cardinality(Busy) \in Int
      BY <1>1, Finite, MagicAssumption DEF TypeOK
    <3>4. Cardinality(Busy)' = Cardinality(Busy) - 1 BY <1>2
    <3>5. Cardinality(live)' = Cardinality(Busy)' + raised' BY <2>1, <3>1, <3>2, <3>3, <3>4
    <3> QED BY <3>5 DEF HandlesAccounted
  <2>2. CASE live' = live \ {magic_dict} /\ magic_dict \in live /\ raised' = raised
    <3>1. Cardinality(live)' = Cardinality(live) - 1
      BY <1>1, <2>2, Finite, FS_RemoveElement
    <3> QED BY <1>1, <1>2, <2>2, <3>1, Finite DEF IInv, HandlesAccounted, TypeOK
  <2> QED BY <2>1, <2>2
\* No more calls raise than were begun: the open handles count them.
<1>4. raised' \in 0 .. begun
  <2>1. raised \in Nat /\ begun \in Nat /\ opened = begun
    BY <1>1, MagicAssumption DEF IInv, TypeOK
  <2>2. Cardinality(live) <= opened
    <3>1. live \in SUBSET (1 .. opened) /\ opened \in Nat BY <1>1, MagicAssumption DEF TypeOK
    <3>2. IsFiniteSet(1 .. opened) /\ Cardinality(1 .. opened) = opened
      BY <3>1, FS_Interval
    <3>3. Cardinality(live) <= Cardinality(1 .. opened) BY <3>1, <3>2, FS_Subset
    <3> QED BY <3>2, <3>3
  <2>3. Cardinality(Busy) >= 1
    <3>1. t \in Busy BY DEF Busy
    <3>2. Cardinality(Busy) # 0 BY <1>1, <3>1, Finite, FS_EmptySet
    <3> QED BY <1>1, <3>2, Finite
  <2>4. Cardinality(live) = Cardinality(Busy) + raised BY DEF IInv, HandlesAccounted
  <2>5. Cardinality(live) \in Nat /\ Cardinality(Busy) \in Nat
    BY <1>1, Finite
  <2>6. raised + 1 <= begun BY <2>1, <2>2, <2>3, <2>4, <2>5
  <2>7. raised' \in {raised, raised + 1} BY <1>1
  <2> QED BY <2>1, <2>5, <2>4, <2>2, <2>3, <2>6, <2>7
<1>5. TypeOK'
  BY <1>1, <1>2, <1>4 DEF TypeOK
<1>6. Solitude' BY <1>2 DEF IInv, Solitude
\* Another call that is alone cannot be in progress beside t.
<1>7. AloneOnOwnHandle'
  <2> SUFFICES ASSUME NEW u \in Threads, Active(u)', alone'[u] PROVE FALSE
    BY DEF AloneOnOwnHandle
  <2>1. u # t /\ Active(u) /\ alone[u] BY <1>2
  <2> QED BY <2>1 DEF IInv, Solitude
<1> QED BY <1>3, <1>5, <1>6, <1>7 DEF IInv

LEMMA CrashStep ==
  ASSUME IInv, Crash
  PROVE  IInv'
BY DEF IInv, Crash, frame, TypeOK, Solitude, AloneOnOwnHandle, HandlesAccounted, Active, Busy

THEOREM Invariance == Spec => []IInv
<1>1. Init => IInv
  <2> SUFFICES ASSUME Init PROVE IInv OBVIOUS
  <2>1. TypeOK
    <3>1. alone \in [Threads -> BOOLEAN] /\ fault \in BOOLEAN BY Zenon DEF Init
    <3>2. 0 \in 0 .. MaxCalls /\ 0 \in 0 .. 0 BY MagicAssumption
    <3>3. flags \in Seq(Flags) /\ Len(flags) = 0 BY DEF Init
    <3>4. begun \in 0 .. MaxCalls /\ opened \in 0 .. begun /\ raised \in 0 .. begun
      BY <3>2 DEF Init
    <3>5. magic_dict \in 0 .. opened /\ Len(flags) = opened /\ live \subseteq 1 .. opened
      BY <3>2, <3>3 DEF Init, NULL
    <3>6. /\ pc \in [Threads -> {"idle", "load", "apply"}]
          /\ request \in [Threads -> Requests \cup {NoRequest}]
          /\ passed \in [Threads -> 0 .. opened] /\ own \in [Threads -> 0 .. opened]
      BY <3>2 DEF Init, NULL
    <3> QED BY <3>1, <3>3, <3>4, <3>5, <3>6 DEF TypeOK
  <2>2. Solitude /\ AloneOnOwnHandle BY DEF Init, Solitude, AloneOnOwnHandle, Active, NULL
  <2>3. Busy = {} /\ live = {} /\ raised = 0 BY DEF Init, Busy, Active
  <2>4. HandlesAccounted BY <2>3, FS_EmptySet DEF HandlesAccounted
  <2> QED BY <2>1, <2>2, <2>4 DEF IInv, Init
<1>2. IInv /\ [Next]_vars => IInv'
  <2> SUFFICES ASSUME IInv, [Next]_vars PROVE IInv' OBVIOUS
  <2>1. ASSUME NEW t \in Threads, LoadRaises(t) \/ ApplyRaises(t) PROVE IInv'
    BY <2>1, LeaveStep DEF LoadRaises, ApplyRaises, Raise, Active, IInv, TypeOK
  <2>2. ASSUME NEW t \in Threads, Apply(t) PROVE IInv'
    <3>1. /\ Active(t) /\ Leave(t) /\ live' = live \ {magic_dict} /\ magic_dict \in live
          /\ UNCHANGED <<magic_dict, opened, flags, begun, fault, raised>>
      BY <2>2 DEF Apply, Applicable, Active
    <3> QED BY <3>1, LeaveStep
  <2>3. ASSUME NEW t \in Threads, LoadClosed(t) \/ ApplyClosed(t) PROVE IInv'
    BY <2>3, CrashStep DEF LoadClosed, ApplyClosed
  <2>4. CASE UNCHANGED vars
    BY <2>4 DEF vars, IInv, frame, TypeOK, Solitude, AloneOnOwnHandle, HandlesAccounted,
                Active, Busy
  <2> QED BY <2>1, <2>2, <2>3, <2>4, OpenStep, OpenRaisesStep, LoadStep DEF Next
<1> QED BY <1>1, <1>2, PTL DEF Spec

\* Types hold for any number of threads and calls.
THEOREM TypeCorrect == Spec => []TypeOK
<1>1. IInv => TypeOK BY DEF IInv
<1> QED BY <1>1, Invariance, PTL

\* A call that nothing overlaps works on the handle it opened.
THEOREM LoneCallsSound == Spec => []AloneOnOwnHandle
<1>1. IInv => AloneOnOwnHandle BY DEF IInv
<1> QED BY <1>1, Invariance, PTL

\* One open handle per call in progress or left by an exception.
THEOREM OpenHandlesCounted == Spec => []HandlesAccounted
<1>1. IInv => HandlesAccounted BY DEF IInv
<1> QED BY <1>1, Invariance, PTL

\* Only an overlapped call can hand libmagic a closed handle.
THEOREM FaultsNeedOverlap == Spec => FaultNeedsOverlap
<1>1. IInv /\ [Next]_vars => [fault' => \E t \in Threads : Active(t) /\ ~alone[t]]_fault
  <2> SUFFICES ASSUME IInv, [Next]_vars, fault', fault' # fault
               PROVE  \E t \in Threads : Active(t) /\ ~alone[t]
    OBVIOUS
  <2>1. PICK t \in Threads : LoadClosed(t) \/ ApplyClosed(t)
    BY DEF Next, Open, OpenRaises, Load, LoadRaises, ApplyRaises, Apply, Raise, vars
  <2>2. Active(t) BY <2>1 DEF LoadClosed, ApplyClosed, Applicable, Active
  <2>3. ~alone[t]
    BY <2>1, <2>2 DEF LoadClosed, ApplyClosed, Applicable, IInv, AloneOnOwnHandle
  <2> QED BY <2>2, <2>3
<1> QED BY <1>1, Invariance, PTL DEF Spec, FaultNeedsOverlap

-----------------------------------------------------------------------------
(* Programs that do not call identify() while it works.                    *)

InTurn == \A t, u \in Threads : Active(t) /\ Active(u) => t = u

\* What a call in progress needs of the variable and of what it passed by value.
HandlesOpen ==
  \A t \in Threads : Active(t) => /\ magic_dict \in live
                                  /\ pc[t] = "apply" => passed[t] \in live

LEMMA HandlesOpenStep ==
  ASSUME IInv, InTurn, InTurn', HandlesOpen, [Next]_vars
  PROVE  HandlesOpen'
<1>1. TypeOK BY DEF IInv
<1>2. ASSUME NEW t \in Threads, NEW r \in Requests, Open(t, r) \/ OpenRaises(t, r)
      PROVE  HandlesOpen'
  <2>1. MagicOpen(t, r) /\ UNCHANGED passed BY <1>2 DEF Open, OpenRaises
  <2>2. magic_dict' \in live' /\ live \subseteq live' BY <2>1 DEF MagicOpen
  <2>3. \A u \in Threads : pc'[u] = "apply" => pc[u] = "apply"
    BY <1>1, <1>2 DEF Open, OpenRaises, TypeOK
  <2> QED BY <2>1, <2>2, <2>3 DEF HandlesOpen, Active
<1>3. ASSUME NEW t \in Threads, Load(t) PROVE HandlesOpen'
  <2>1. magic_dict \in live /\ UNCHANGED <<magic_dict, live>> BY <1>3 DEF Load
  <2>2. \A u \in Threads : Active(u)' => Active(u) BY <1>1, <1>3 DEF Load, TypeOK, Active
  <2>3. \A u \in Threads : u # t => passed'[u] = passed[u] /\ pc'[u] = pc[u]
    BY <1>1, <1>3 DEF Load, TypeOK
  <2>4. passed'[t] = magic_dict BY <1>1, <1>3 DEF Load, TypeOK
  <2> QED BY <2>1, <2>2, <2>3, <2>4 DEF HandlesOpen
\* The call that ends was the only one.
<1>4. ASSUME NEW t \in Threads, LoadRaises(t) \/ ApplyRaises(t) \/ Apply(t)
      PROVE  HandlesOpen'
  <2>1. Active(t) /\ Leave(t)
    BY <1>4 DEF LoadRaises, ApplyRaises, Apply, Applicable, Raise, Active
  <2>2. \A u \in Threads : ~Active(u)' BY <1>1, <2>1, LeaveFrame DEF InTurn
  <2> QED BY <2>2 DEF HandlesOpen
<1>5. ASSUME NEW t \in Threads, LoadClosed(t) \/ ApplyClosed(t) PROVE HandlesOpen'
  BY <1>5 DEF LoadClosed, ApplyClosed, Crash, frame, HandlesOpen, Active
<1>6. CASE UNCHANGED vars BY <1>6 DEF vars, frame, HandlesOpen, Active
<1> QED BY <1>2, <1>3, <1>4, <1>5, <1>6 DEF Next

\* One static variable for all handles (Magic.c:76) is enough for a program that makes its
\* calls one after the other: libmagic never meets a closed handle there, whatever the
\* calls raise and whatever a call rejected at once leaves in the variable.
THEOREM CallsInTurnSafe == Spec /\ []InTurn => []~fault
<1>1. Init => HandlesOpen /\ ~fault BY DEF Init, HandlesOpen, Active
<1>2. IInv /\ InTurn /\ InTurn' /\ HandlesOpen /\ [Next]_vars => HandlesOpen'
  BY HandlesOpenStep
<1>3. HandlesOpen /\ ~fault /\ [Next]_vars => ~fault'
  <2> SUFFICES ASSUME HandlesOpen, ~fault, [Next]_vars, fault' PROVE FALSE OBVIOUS
  <2>1. PICK t \in Threads : LoadClosed(t) \/ ApplyClosed(t)
    BY DEF Next, Open, OpenRaises, Load, LoadRaises, ApplyRaises, Apply, Raise, vars
  <2> QED BY <2>1 DEF LoadClosed, ApplyClosed, Applicable, HandlesOpen, Active
<1> QED BY <1>1, <1>2, <1>3, Invariance, PTL DEF Spec

=============================================================================
