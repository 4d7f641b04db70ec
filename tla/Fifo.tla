-------------------------------- MODULE Fifo --------------------------------
(***************************************************************************)
(* What the shared-memory ring of net/pdes-communicator.c promises: a      *)
(* bounded first-in first-out queue of the messages handed to              *)
(* pdes_comm_send.  A send waits for space; nothing is lost, duplicated,   *)
(* altered or overtaken.                                                   *)
(***************************************************************************)
EXTENDS Naturals, Sequences

CONSTANTS Writers, Values, Capacity, None

VARIABLES
  pending,  \* the message each writer is sending, or None
  q,        \* accepted and not yet received
  out       \* the message received last

vars == <<pending, q, out>>

Init ==
  /\ pending = [w \in Writers |-> None]
  /\ q = <<>>
  /\ out = None

Request(w) ==
  /\ pending[w] = None
  /\ \E v \in Values : pending' = [pending EXCEPT ![w] = v]
  /\ UNCHANGED <<q, out>>

Put(w) ==
  /\ pending[w] # None
  /\ Len(q) < Capacity
  /\ q' = Append(q, pending[w])
  /\ pending' = [pending EXCEPT ![w] = None]
  /\ UNCHANGED out

Take ==
  /\ q # <<>>
  /\ out' = Head(q)
  /\ q' = Tail(q)
  /\ UNCHANGED pending

Next == Take \/ \E w \in Writers : Request(w) \/ Put(w)

Safety == Init /\ [][Next]_vars

\* Sends are accepted and messages received in the end.
Spec == Safety /\ WF_vars(Take) /\ \A w \in Writers : WF_vars(Put(w))
=============================================================================
