------------------------------- MODULE Magic -------------------------------
(***************************************************************************)
(* Magic.ext_identify (magic/module/Magic.c).  The libmagic handle is kept *)
(* in a static variable of magic_method, and the function calls the Ruby   *)
(* scheduler twice while it works with it: two threads share the variable, *)
(* not the handle.                                                         *)
(***************************************************************************)
EXTENDS Integers, Sequences, FiniteSets

CONSTANTS
  Threads,
  Flags,      \* option sets a caller can ask for
  Requests,   \* the calls the program makes
  MaxCalls,   \* bound: calls made, hence handles opened
  NoRequest   \* the request of an idle thread

\* file: the :magic_file option; target: what is identified; sound: fileno()
\* succeeds, every element of an array is a number.
RequestHashes == [flags: Flags, file: {"ok", "rejected", "not a string"},
                  target: {"io", "string", "array", "other"}, sound: BOOLEAN]

ASSUME MagicAssumption ==
  /\ IsFiniteSet(Threads)
  /\ Requests \subseteq RequestHashes /\ NoRequest \notin Requests
  /\ MaxCalls \in Nat

NULL == 0

VARIABLES
  magic_dict,  \* the static variable: a handle or NULL
  opened,      \* handles opened so far, numbered in order
  live,        \* those not closed
  flags,       \* flags[h]: what magic_open was given for handle h
  begun,       \* calls made
  pc,          \* where each thread is
  request,     \* what it was asked
  passed,      \* the handle it passed by value to magic_for_*
  own,         \* history: the handle it opened
  alone,       \* history: no other call has run since it did
  raised,      \* history: calls left by an exception
  fault        \* libmagic was given a closed handle: undefined behaviour

frame == <<pc, request, passed, own, alone>>
vars  == <<magic_dict, opened, live, flags, begun, frame, raised, fault>>

Active(t) == pc[t] # "idle"
Busy == {t \in Threads : Active(t)}

Init ==
  /\ magic_dict = NULL /\ opened = 0 /\ live = {} /\ flags = <<>> /\ begun = 0
  /\ pc      = [t \in Threads |-> "idle"]
  /\ request = [t \in Threads |-> NoRequest]
  /\ passed  = [t \in Threads |-> NULL]
  /\ own     = [t \in Threads |-> NULL]
  /\ alone   = [t \in Threads |-> FALSE]
  /\ raised = 0 /\ fault = FALSE

\* The call is over for thread t.
Leave(t) ==
  /\ pc'      = [pc EXCEPT ![t] = "idle"]
  /\ request' = [request EXCEPT ![t] = NoRequest]
  /\ passed'  = [passed EXCEPT ![t] = NULL]
  /\ own'     = [own EXCEPT ![t] = NULL]
  /\ alone'   = [alone EXCEPT ![t] = FALSE]

\* An exception skips magic_close().
Raise(t) ==
  /\ Leave(t)
  /\ raised' = raised + 1
  /\ UNCHANGED <<live, fault>>

Crash ==
  /\ fault' = TRUE
  /\ UNCHANGED <<magic_dict, opened, live, flags, begun, frame, raised>>

-----------------------------------------------------------------------------
\* Variant for the mutation runs: a handle left in the variable is used again.
OpenCached(t, r) ==
  IF magic_dict = NULL
  THEN /\ opened' = opened + 1 /\ magic_dict' = opened + 1
       /\ live' = live \cup {opened + 1} /\ flags' = Append(flags, r.flags)
  ELSE UNCHANGED <<magic_dict, opened, live, flags>>

\* Variant for the mutation runs: default and user-specified options are opened apart.
OpenTwice(t, r) ==
  /\ opened' = opened + 2 /\ magic_dict' = opened + 2
  /\ live' = live \cup {opened + 1, opened + 2} /\ flags' = flags \o <<r.flags, r.flags>>

\* magic_open(flags): the new handle replaces whatever the variable held.
\* (It is NULL only when memory is exhausted, which is left out.)
MagicOpen(t, r) ==
  /\ opened' = opened + 1 /\ magic_dict' = opened + 1
  /\ live' = live \cup {opened + 1} /\ flags' = Append(flags, r.flags)

\* From the call to the first rb_thread_schedule().
Open(t, r) ==
  /\ ~fault /\ pc[t] = "idle" /\ begun < MaxCalls /\ r.file # "not a string"
  /\ MagicOpen(t, r) /\ begun' = begun + 1
  /\ pc'      = [pc EXCEPT ![t] = "load"]
  /\ request' = [request EXCEPT ![t] = r]
  /\ own'     = [own EXCEPT ![t] = opened']
  /\ alone'   = [u \in Threads |-> u = t /\ \A v \in Threads : ~Active(v)]
  /\ UNCHANGED <<passed, raised, fault>>

\* StringValuePtr rejects the :magic_file option once the handle is open.
OpenRaises(t, r) ==
  /\ ~fault /\ pc[t] = "idle" /\ begun < MaxCalls /\ r.file = "not a string"
  /\ MagicOpen(t, r) /\ begun' = begun + 1
  /\ alone' = [u \in Threads |-> FALSE]
  /\ raised' = raised + 1
  /\ UNCHANGED <<pc, request, passed, own, fault>>

\* magic_load reads the static variable again; then the target is told by its
\* class and the handle is passed on, up to the second rb_thread_schedule().
Load(t) ==
  /\ ~fault /\ pc[t] = "load" /\ magic_dict \in live
  /\ request[t].file = "ok" /\ request[t].target # "other"
  /\ request[t].target = "io" => request[t].sound
  /\ pc'     = [pc EXCEPT ![t] = "apply"]
  /\ passed' = [passed EXCEPT ![t] = magic_dict]
  /\ UNCHANGED <<magic_dict, opened, live, flags, begun, request, own, alone, raised,
                 fault>>

LoadRaises(t) ==
  /\ ~fault /\ pc[t] = "load" /\ magic_dict \in live
  /\ \/ request[t].file = "rejected"
     \/ request[t].file = "ok" /\ request[t].target = "other"
     \/ request[t].file = "ok" /\ request[t].target = "io" /\ ~request[t].sound
  /\ Raise(t)
  /\ UNCHANGED <<magic_dict, opened, flags, begun>>

LoadClosed(t) ==
  /\ ~fault /\ pc[t] = "load" /\ magic_dict \notin live
  /\ Crash

ApplyRaises(t) ==
  /\ ~fault /\ pc[t] = "apply" /\ request[t].target = "array" /\ ~request[t].sound
  /\ Raise(t)
  /\ UNCHANGED <<magic_dict, opened, flags, begun>>

Applicable(t) ==
  ~fault /\ pc[t] = "apply" /\ (request[t].target = "array" => request[t].sound)

\* Variant for the mutation runs: the call returns without magic_close().
ApplyUnclosed(t) ==
  /\ Applicable(t) /\ {passed[t], magic_dict} \subseteq live
  /\ Leave(t)
  /\ UNCHANGED <<magic_dict, opened, live, flags, begun, raised, fault>>

\* The handle passed by value answers, the one in the variable is closed.
Apply(t) ==
  /\ Applicable(t) /\ {passed[t], magic_dict} \subseteq live
  /\ live' = live \ {magic_dict}
  /\ Leave(t)
  /\ UNCHANGED <<magic_dict, opened, flags, begun, raised, fault>>

ApplyClosed(t) ==
  /\ Applicable(t) /\ ~({passed[t], magic_dict} \subseteq live)
  /\ Crash

Next ==
  \E t \in Threads :
    \/ \E r \in Requests : Open(t, r) \/ OpenRaises(t, r)
    \/ Load(t) \/ LoadRaises(t) \/ LoadClosed(t)
    \/ ApplyRaises(t) \/ Apply(t) \/ ApplyClosed(t)

Spec == Init /\ [][Next]_vars
-----------------------------------------------------------------------------
TypeOK ==
  /\ begun \in 0 .. MaxCalls /\ opened \in 0 .. begun /\ raised \in 0 .. begun
  /\ magic_dict \in 0 .. opened
  /\ live \subseteq 1 .. opened
  /\ flags \in Seq(Flags) /\ Len(flags) = opened
  /\ pc \in [Threads -> {"idle", "load", "apply"}]
  /\ request \in [Threads -> Requests \cup {NoRequest}]
  /\ passed \in [Threads -> 0 .. opened] /\ own \in [Threads -> 0 .. opened]
  /\ alone \in [Threads -> BOOLEAN]
  /\ fault \in BOOLEAN

\* A call that no other call overlaps works on the handle it opened, and that
\* handle is open: whatever earlier overlapping calls left in the static variable,
\* closed or leaked, does not reach it.
AloneOnOwnHandle ==
  \A t \in Threads : Active(t) /\ alone[t] =>
    /\ magic_dict = own[t] /\ own[t] \in live
    /\ flags[own[t]] = request[t].flags
    /\ pc[t] = "apply" => passed[t] = own[t]

\* libmagic meets a closed handle only in a call that another one overlapped.
FaultNeedsOverlap ==
  [][fault' => \E t \in Threads : Active(t) /\ ~alone[t]]_fault

\* One handle is open for each call in progress and one is lost by each call left
\* by an exception, although the handle a call closes need not be its own.
HandlesAccounted ==
  Cardinality(live) = Cardinality(Busy) + raised
=============================================================================
