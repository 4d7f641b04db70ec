------------------------------ MODULE ShmRing ------------------------------
(***************************************************************************)
(* The ring in shared memory of net/pdes-communicator.c: pdes_comm_send,   *)
(* one step per access of a shared index or slot, and pdes_comm_recv.      *)
(* Writers are the threads of the sending process that call                *)
(* pdes_comm_send; the reader is the main thread of the other process.     *)
(* There is no lock: the ring is meant for one writer.                     *)
(***************************************************************************)
EXTENDS Naturals, Sequences

CONSTANTS
  Writers,    \* threads that send
  Values,     \* messages
  RingSize,   \* RING_SIZE, 8192
  None        \* no message

ASSUME RingSizeAssumption == RingSize \in Nat \ {0, 1}
ASSUME NoneAssumption == None \notin Values

Slots == 0 .. RingSize - 1

VARIABLES
  slots,      \* ring->messages
  writeIdx,   \* ring->write_idx
  readIdx,    \* ring->read_idx
  wpc,        \* where each writer is in pdes_comm_send
  msg,        \* its argument
  nextWrite,  \* its local next_write
  rpc,        \* where the reader is in pdes_comm_recv
  got,        \* the reader's copy of the message
  out         \* the message pdes_comm_recv returned last

wvars == <<wpc, msg, nextWrite>>
rvars == <<rpc, got, out>>
vars == <<slots, writeIdx, readIdx, wvars, rvars>>

\* Mutant: the index does not wrap.
SuccUnbounded(i) == i + 1

Succ(i) == (i + 1) % RingSize

TypeOK ==
  /\ slots \in [Slots -> Values \cup {None}]
  /\ writeIdx \in Slots
  /\ readIdx \in Slots
  /\ wpc \in [Writers -> {"idle", "index", "wait", "copy", "publish"}]
  /\ msg \in [Writers -> Values \cup {None}]
  /\ nextWrite \in [Writers -> Slots]
  /\ rpc \in {"idle", "advance"}
  /\ got \in Values \cup {None}
  /\ out \in Values \cup {None}

\* The creator clears the ring.
Init ==
  /\ slots = [i \in Slots |-> None]
  /\ writeIdx = 0
  /\ readIdx = 0
  /\ wpc = [w \in Writers |-> "idle"]
  /\ msg = [w \in Writers |-> None]
  /\ nextWrite = [w \in Writers |-> 0]
  /\ rpc = "idle"
  /\ got = None
  /\ out = None

-----------------------------------------------------------------------------
(* pdes_comm_send *)

Call(w) ==
  /\ wpc[w] = "idle"
  /\ \E v \in Values : msg' = [msg EXCEPT ![w] = v]
  /\ wpc' = [wpc EXCEPT ![w] = "index"]
  /\ UNCHANGED <<slots, writeIdx, readIdx, nextWrite, rvars>>

\* next_write is computed once, before the wait.
Index(w) ==
  /\ wpc[w] = "index"
  /\ nextWrite' = [nextWrite EXCEPT ![w] = Succ(writeIdx)]
  /\ wpc' = [wpc EXCEPT ![w] = "wait"]
  /\ UNCHANGED <<slots, writeIdx, readIdx, msg, rvars>>

\* Mutant of Wait: a full ring is overwritten.
WaitNever(w) ==
  /\ wpc[w] = "wait"
  /\ wpc' = [wpc EXCEPT ![w] = "copy"]
  /\ UNCHANGED <<slots, writeIdx, readIdx, msg, nextWrite, rvars>>

\* The loop that waits for space ends.
Wait(w) ==
  /\ wpc[w] = "wait"
  /\ nextWrite[w] # readIdx
  /\ wpc' = [wpc EXCEPT ![w] = "copy"]
  /\ UNCHANGED <<slots, writeIdx, readIdx, msg, nextWrite, rvars>>

\* Mutant of Copy: the slot is the one at next_write.
CopyNext(w) ==
  /\ wpc[w] = "copy"
  /\ slots' = [slots EXCEPT ![nextWrite[w]] = msg[w]]
  /\ wpc' = [wpc EXCEPT ![w] = "publish"]
  /\ UNCHANGED <<writeIdx, readIdx, msg, nextWrite, rvars>>

\* The slot is the one at write_idx as it is now.
Copy(w) ==
  /\ wpc[w] = "copy"
  /\ slots' = [slots EXCEPT ![writeIdx] = msg[w]]
  /\ wpc' = [wpc EXCEPT ![w] = "publish"]
  /\ UNCHANGED <<writeIdx, readIdx, msg, nextWrite, rvars>>

Publish(w) ==
  /\ wpc[w] = "publish"
  /\ writeIdx' = nextWrite[w]
  /\ msg' = [msg EXCEPT ![w] = None]
  /\ wpc' = [wpc EXCEPT ![w] = "idle"]
  /\ UNCHANGED <<slots, readIdx, nextWrite, rvars>>

Send(w) == Index(w) \/ Wait(w) \/ Copy(w) \/ Publish(w)

-----------------------------------------------------------------------------
(* pdes_comm_recv *)

ReadSlot ==
  /\ rpc = "idle"
  /\ readIdx # writeIdx
  /\ got' = slots[readIdx]
  /\ rpc' = "advance"
  /\ UNCHANGED <<slots, writeIdx, readIdx, wvars, out>>

FreeSlot ==
  /\ rpc = "advance"
  /\ readIdx' = Succ(readIdx)
  /\ out' = got
  /\ rpc' = "idle"
  /\ UNCHANGED <<slots, writeIdx, wvars, got>>

Recv == ReadSlot \/ FreeSlot

-----------------------------------------------------------------------------
Next == Recv \/ \E w \in Writers : Call(w) \/ Send(w)

Spec == Init /\ [][Next]_vars

\* A thread in pdes_comm_send runs; the reader polls again and again.
FairSpec == Spec /\ WF_vars(Recv) /\ \A w \in Writers : WF_vars(Send(w))

\* What is in the ring: from read_idx up to write_idx.
Used == (writeIdx + RingSize - readIdx) % RingSize
Contents == [i \in 1 .. Used |-> slots[(readIdx + i - 1) % RingSize]]

Queue == INSTANCE Fifo WITH
           Capacity <- RingSize - 1, pending <- msg, q <- Contents

\* The ring is a FIFO queue: engine.c:219-223 relies on it when it reasons
\* that PERMISSION is delivered before the END sent after it.
FifoSafety == Queue!Safety

\* And a message that pdes_comm_send waits to place is placed and received.
FifoSpec == Queue!Spec

\* The message the reader is copying is whole: no writer fills the slot before
\* read_idx has moved on (communicator.c:183 "check for race conditions").
CopyIntact == rpc = "advance" => got = slots[readIdx]

\* What the ring is meant for, and the code does not enforce.
OneWriter == \A v, w \in Writers : v = w

\* What makes one writer safe without a lock, the inductive invariant: what it
\* has computed and checked in pdes_comm_send still holds when it publishes,
\* and what the reader has seen when it frees the slot.
SoloInv ==
  /\ \A w \in Writers :
       /\ (wpc[w] = "idle") <=> (msg[w] = None)
       /\ wpc[w] \in {"wait", "copy", "publish"} => nextWrite[w] = Succ(writeIdx)
       /\ wpc[w] \in {"copy", "publish"} => nextWrite[w] # readIdx
       /\ wpc[w] = "publish" => slots[writeIdx] = msg[w]
  /\ rpc = "advance" => readIdx # writeIdx
  /\ CopyIntact
=============================================================================
