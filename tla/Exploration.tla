---------------------------- MODULE Exploration ----------------------------
(***************************************************************************)
(* What control-flow disassembly promises a caller (local_handler and      *)
(* local_display, Opdis.c:195 and 430): the instructions that control flow *)
(* reaches, and no others, are shown one at a time in whatever order; the  *)
(* caller is given what was shown, which is everything for a caller with a *)
(* tracker of its own.  If a callback raises it is given nothing.          *)
(***************************************************************************)
CONSTANTS
  Callers, Requests, None,
  Reachable,  \* Reachable[r]: the instructions control flow reaches from request r
  Alone       \* the requests that share their tracker with no other

VARIABLES
  request,  \* what each caller asked for
  shown,    \* what it was shown so far
  given     \* the answers: a request and what was shown

vars == <<request, shown, given>>

Init ==
  /\ request = [c \in Callers |-> None] /\ shown = [c \in Callers |-> {}]
  /\ given = {}

Ask(c) ==
  /\ request[c] = None
  /\ \E r \in Requests : request' = [request EXCEPT ![c] = r]
  /\ UNCHANGED <<shown, given>>

Show(c) ==
  /\ request[c] # None
  /\ \E i \in Reachable[request[c]] \ shown[c] : shown' = [shown EXCEPT ![c] = @ \cup {i}]
  /\ UNCHANGED <<request, given>>

End(c) ==
  /\ request[c] # None
  /\ request' = [request EXCEPT ![c] = None] /\ shown' = [shown EXCEPT ![c] = {}]

Answer(c) ==
  /\ End(c)
  /\ request[c] \in Alone => shown[c] = Reachable[request[c]]
  /\ given' = given \cup {[request |-> request[c], shown |-> shown[c]]}

GiveUp(c) == End(c) /\ UNCHANGED given

Next == \E c \in Callers : Ask(c) \/ Show(c) \/ Answer(c) \/ GiveUp(c)

Spec == Init /\ [][Next]_vars
=============================================================================
