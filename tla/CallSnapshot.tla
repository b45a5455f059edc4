---------------------------- MODULE CallSnapshot ----------------------------
(***************************************************************************)
(* What duplicating the opdis_t promises (Opdis.c:679): a call works on    *)
(* the value it found when it began; assigning a new value, by any thread  *)
(* or by the call itself, reaches only later calls.                        *)
(***************************************************************************)
CONSTANTS Callers, Values, None

VARIABLES current, running

Init == current \in Values /\ running = [c \in Callers |-> None]

Assign == current' \in Values /\ UNCHANGED running

Enter(c) ==
  /\ running[c] = None
  /\ running' = [running EXCEPT ![c] = current]
  /\ UNCHANGED current

Exit(c) ==
  /\ running[c] # None
  /\ running' = [running EXCEPT ![c] = None]

\* A call may assign as its last step: an argument hash that raises half way.
Next ==
  \/ Assign
  \/ \E c \in Callers : Enter(c) \/ (Exit(c) /\ current' \in Values)

Spec == Init /\ [][Next]_<<current, running>>
=============================================================================
