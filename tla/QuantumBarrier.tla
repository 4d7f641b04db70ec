--------------------------- MODULE QuantumBarrier ---------------------------
(***************************************************************************)
(* What the synchronisation of net/pdes-wwt.c promises: a process leaves   *)
(* the boundary of a round only when every process has arrived at it, and  *)
(* the processes that have all arrived do leave.  A process may end at any *)
(* time; the others then wait for it at the first boundary it has not      *)
(* reached.                                                                *)
(***************************************************************************)
EXTENDS Naturals

CONSTANTS Procs, LastRound  \* bound: nobody arrives at a later round

VARIABLES
  at,       \* the round whose boundary p runs towards, or stands at
  arrived,  \* p stands at it
  gone      \* processes that have ended

vars == <<at, arrived, gone>>

Init ==
  /\ at = [p \in Procs |-> 0]
  /\ arrived = [p \in Procs |-> FALSE]
  /\ gone = {}

Arrive(p) ==
  /\ p \notin gone /\ ~arrived[p]
  /\ at[p] <= LastRound
  /\ arrived' = [arrived EXCEPT ![p] = TRUE]
  /\ UNCHANGED <<at, gone>>

Reached(q, r) == at[q] > r \/ (at[q] = r /\ arrived[q])

Leave(p) ==
  /\ p \notin gone /\ arrived[p]
  /\ \A q \in Procs : Reached(q, at[p])
  /\ at' = [at EXCEPT ![p] = @ + 1]
  /\ arrived' = [arrived EXCEPT ![p] = FALSE]
  /\ UNCHANGED gone

End(p) ==
  /\ gone' = gone \cup {p}
  /\ UNCHANGED <<at, arrived>>

Next == \E p \in Procs : Arrive(p) \/ Leave(p) \/ End(p)

Safety == Init /\ [][Next]_vars
Spec == Safety /\ \A p \in Procs : WF_vars(Arrive(p)) /\ WF_vars(Leave(p))
=============================================================================
