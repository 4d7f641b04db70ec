----------------------------- MODULE PdesState -----------------------------
(***************************************************************************)
(* State of a pair of QEMU processes whose virtual machines are simulated  *)
(* in parallel (net/pdes-*.c).  One process is the master, the other the   *)
(* follower; each sends to the other through a shared-memory ring that     *)
(* only it writes (ShmRing specifies the ring itself; here a ring is the   *)
(* bounded FIFO that ShmRing implements).                                  *)
(*                                                                         *)
(* Threads.  A process has a "main" thread of control - everything that    *)
(* runs under QEMU's big lock: timer callbacks, bottom halves, the device  *)
(* backend - and, when QEMU is driven by Flexus (CONFIG_LIBQFLEX), the     *)
(* Flexus thread, which advances virtual time and calls can_stop and       *)
(* finish_initiate_checkpoint.  main[n] is where the main thread of n will *)
(* continue; while polling[n] it is inside pdes_engine_poll.  A blocking   *)
(* pdes_comm_send leaves its message in mainOut / flexusOut: the thread    *)
(* continues only once the ring has accepted it.                           *)
(***************************************************************************)
EXTENDS Integers, Sequences

CONSTANTS
  Master, Follower,  \* the two processes
  ShouldSync,        \* netdev option "sync": conservative barriers or free running
  Quantum,           \* latencyns = quantum_ns, in ticks of virtual time
  RingCap,           \* messages a ring holds: RING_SIZE - 1
  KeyMod,            \* 2^32: sync_counts is keyed by (guint)round
  PauseWaits         \* does flexus_api.pause() wait for the call Flexus is in?

\* Bounds and inputs of an instance.
CONSTANTS
  MaxRound,          \* bound: the clocks stop at quantum boundary MaxRound
  MaxPackets,        \* bound: packets a guest sends per quantum
  StopTimes,         \* virtual times from which Flexus asks can_stop
  InitNodes,         \* nodes whose Flexus signals initiate_checkpoint
  MasterLast         \* the master signals only after the follower is ready

ASSUME NodesAssumption == Master # Follower
ASSUME ModeAssumption == {ShouldSync, PauseWaits, MasterLast} \subseteq BOOLEAN
ASSUME SizeAssumption ==
  /\ Quantum \in Nat \ {0}
  /\ RingCap \in Nat \ {0}
  /\ KeyMod \in Nat \ {0}
ASSUME BoundAssumption ==
  /\ MaxRound \in Nat
  /\ MaxPackets \in Nat
  /\ StopTimes \subseteq Nat
  /\ InitNodes \subseteq {Master, Follower}

Nodes == {Master, Follower}

\* number_of_neighbors is fixed to 1: the other process.
Peer(n) == IF n = Master THEN Follower ELSE Master

VARIABLES
  status,      \* "up", "exited", or the assertion that aborted the process
  main,        \* main thread: where it continues
  polling,     \* main thread: inside pdes_engine_poll
  flexus,      \* Flexus thread: where it continues
  stopAt,      \* virtual time of Flexus's stop cycle (never changes)
  ring,        \* ring[n]: what n has not yet received from its peer
  mainOut,     \* messages the main thread is blocked on sending
  flexusOut,   \* the same for the Flexus thread
  round,       \* current_quantum_round
  finished,    \* finished_quantum
  synced,      \* the keys of sync_counts whose count is not zero
  now,         \* universal virtual time: clock - first_sync_virtual_time
  inflight,    \* due times of the one-shot delivery timers, in arming order
  sent,        \* packets sent since the last quantum boundary (bounds the guest)
  hostPoll,    \* msg_rec_poll_timer is armed
  paused,      \* engine.paused: the CPU or Flexus is told to stand still
  pauseBh,     \* pause_bh is scheduled
  vm,          \* the virtual machine is running
  ex,          \* the exit handshake's fields
  ck           \* the checkpoint's fields

wire  == <<ring, mainOut, flexusOut>>
wwt   == <<round, finished, synced, now, inflight, sent, hostPoll>>
cpu   == <<paused, pauseBh, vm>>
ctl   == <<status, main, polling, flexus, stopAt>>
vars  == <<ctl, wire, wwt, cpu, ex, ck>>

(***************************************************************************)
(* Messages.  val is the round of a SYNC or DRAIN_START, the timestamp of  *)
(* a NORMAL message, and 0 in the messages whose content nobody reads.     *)
(***************************************************************************)
MsgTypes == {"NORMAL", "SYNC", "DRAIN_START", "DRAIN_END", "INIT_STEP",
             "END", "INTENT", "PERMISSION"}
Message  == [type : MsgTypes, val : Nat]
Msg(t, v) == [type |-> t, val |-> v]

MainStates ==
  {"setup",     \* event loop, setup_wwt not yet called
   "run",       \* event loop, quantum timer armed
   "notify",    \* quanta_sync, after its poll
   "armed",     \* event loop, sync_check_timer armed
   "check",     \* is_waiting_for_quanta, after its poll
   "spin",      \* the waiting loop of wwt_sync_check, after its poll
   "boundary",  \* wwt_sync_check, the wait is over
   "permit",    \* the master's exit arm of wwt_sync_check: test
   "grant",     \*   ... set, and tell the follower
   "end",       \*   ... then END, if it has not been sent
   "advance",   \* the rest of wwt_sync_check
   "closing",   \* event loop, only the exit checkpoint is left to run
   "exiting"}   \* about to call exit(0)

Aborts == {"abort_pause", "abort_round", "abort_past", "abort_end", "abort_ckpt"}
Statuses == {"up", "exited"} \cup Aborts

FlexusStates ==
  {"idle",      \* simulating
   "ask",       \* at its stop cycle: about to call can_stop
   "grant",     \* can_stop of the master, after the test
   "end",       \*   ... after PERMISSION
   "answer",    \* can_stop, about to return
   "setflags",  \* set_checkpoint_values_for_master, first stores
   "setround"}  \*   ... and the store of checkpoint_quantum_round

ExitFields ==
  [intent : BOOLEAN, nbrs : Nat, ready : BOOLEAN, permitted : BOOLEAN,
   endSent : BOOLEAN, pairFin : BOOLEAN, notified : BOOLEAN]

\* saved is history: the rounds at which this process took a snapshot.
\* signalled bounds the environment: Flexus raises initiate_checkpoint once.
CkptFields ==
  [initFlag : Nat, masterInit : BOOLEAN, signalled : BOOLEAN, needs : BOOLEAN,
   notified : BOOLEAN, ckround : Nat, bh : {"none", "stay", "exit"},
   saved : SUBSET Nat]

MaxTime == MaxRound * Quantum

\* Mutant of Key: off by one.
KeyBeforeFirst(r) == r - 1

\* (guint)round, the key of sync_counts.
Key(r) == r % KeyMod

\* Types of all variables; the one type invariant of the system.
TypeOK ==
  /\ status \in [Nodes -> Statuses]
  /\ main \in [Nodes -> MainStates]
  /\ polling \in [Nodes -> BOOLEAN]
  /\ flexus \in [Nodes -> FlexusStates]
  /\ stopAt \in [Nodes -> Nat]
  /\ ring \in [Nodes -> Seq(Message)]
  /\ mainOut \in [Nodes -> Seq(Message)]
  /\ flexusOut \in [Nodes -> Seq(Message)]
  /\ round \in [Nodes -> Nat]
  /\ finished \in [Nodes -> BOOLEAN]
  /\ synced \in [Nodes -> SUBSET Nat]
  /\ now \in [Nodes -> Nat]
  /\ inflight \in [Nodes -> Seq(Nat)]
  /\ sent \in [Nodes -> Nat]
  /\ hostPoll \in [Nodes -> BOOLEAN]
  /\ paused \in [Nodes -> BOOLEAN]
  /\ pauseBh \in [Nodes -> BOOLEAN]
  /\ vm \in [Nodes -> BOOLEAN]
  /\ ex \in [Nodes -> ExitFields]
  /\ ck \in [Nodes -> CkptFields]

\* pdes_engine_wwt_create: setup_wwt is scheduled, no quantum has begun.
InitWWT ==
  /\ main = [n \in Nodes |-> "setup"]
  /\ round = [n \in Nodes |-> 0]
  /\ finished = [n \in Nodes |-> FALSE]
  /\ synced = [n \in Nodes |-> {}]
  /\ now = [n \in Nodes |-> 0]
  /\ inflight = [n \in Nodes |-> <<>>]
  /\ sent = [n \in Nodes |-> 0]

\* pdes_engine_create: the rings are empty, the first receive poll (50us) is
\* armed, neither the handshake nor a checkpoint has begun.
InitEngine ==
  /\ ring = [n \in Nodes |-> <<>>]
  /\ mainOut = [n \in Nodes |-> <<>>]
  /\ flexusOut = [n \in Nodes |-> <<>>]
  /\ polling = [n \in Nodes |-> FALSE]
  /\ hostPoll = [n \in Nodes |-> TRUE]
  /\ paused = [n \in Nodes |-> FALSE]
  /\ pauseBh = [n \in Nodes |-> FALSE]
  /\ vm = [n \in Nodes |-> TRUE]
  /\ ex = [n \in Nodes |->
             [intent |-> FALSE, nbrs |-> 0, ready |-> FALSE, permitted |-> FALSE,
              endSent |-> FALSE, pairFin |-> FALSE, notified |-> FALSE]]
  /\ ck = [n \in Nodes |->
             [initFlag |-> 0, masterInit |-> FALSE, signalled |-> FALSE,
              needs |-> FALSE, notified |-> FALSE, ckround |-> 0,
              bh |-> "none", saved |-> {}]]

\* Both processes right after net_init_pdes.
Init ==
  /\ status = [n \in Nodes |-> "up"]
  /\ flexus = [n \in Nodes |-> "idle"]
  /\ stopAt \in [Nodes -> StopTimes]
  /\ InitWWT
  /\ InitEngine

-----------------------------------------------------------------------------
(* Control of the two threads. *)

Up(n) == status[n] = "up"

\* The main thread is not blocked in pdes_comm_send.
MainReady(n) == Up(n) /\ mainOut[n] = <<>>

\* The main thread is in straight-line code of a handler, at point s.
MainAt(n, s) == MainReady(n) /\ ~polling[n] /\ main[n] = s

\* QEMU's main loop may dispatch a timer or a bottom half.
InEventLoop(n) ==
  MainReady(n) /\ ~polling[n] /\ main[n] \in {"setup", "run", "armed", "closing"}

\* A pending bottom half: main_loop_wait dispatches it before any timer.
BhPending(n) == pauseBh[n] \/ ck[n].bh # "none"

\* The Flexus thread is not blocked in pdes_comm_send.
FlexusAt(n, s) == Up(n) /\ flexusOut[n] = <<>> /\ flexus[n] = s

\* The Flexus thread is in none of the engine's functions.
FlexusQuiet(n) == flexus[n] \in {"idle", "ask"} /\ flexusOut[n] = <<>>

Abort(n, why) == status' = [status EXCEPT ![n] = why]

-----------------------------------------------------------------------------
(* pdes_comm_send and pdes_comm_recv (net/pdes-communicator.c). *)

\* Mutant of CommSend: the newest message is received first.
CommSendLifo(n, out) ==
  /\ out[n] # <<>>
  /\ Len(ring[Peer(n)]) < RingCap
  /\ ring' = [ring EXCEPT ![Peer(n)] = <<Head(out[n])>> \o @]

\* The message at the head of out enters the peer's ring, if it has space.
CommSend(n, out) ==
  /\ out[n] # <<>>
  /\ Len(ring[Peer(n)]) < RingCap
  /\ ring' = [ring EXCEPT ![Peer(n)] = Append(@, Head(out[n]))]

MainSend(n) ==
  /\ Up(n)
  /\ CommSend(n, mainOut)
  /\ mainOut' = [mainOut EXCEPT ![n] = Tail(@)]
  /\ UNCHANGED <<ctl, flexusOut, wwt, cpu, ex, ck>>

FlexusSend(n) ==
  /\ Up(n)
  /\ CommSend(n, flexusOut)
  /\ flexusOut' = [flexusOut EXCEPT ![n] = Tail(@)]
  /\ UNCHANGED <<ctl, mainOut, wwt, cpu, ex, ck>>

\* pdes_engine_poll takes the next message, which is of type t.
Receiving(n, t) ==
  /\ MainReady(n)
  /\ polling[n]
  /\ ring[n] # <<>>
  /\ Head(ring[n]).type = t
  /\ ring' = [ring EXCEPT ![n] = Tail(@)]

\* The ring is empty: pdes_engine_poll returns.
PollDone(n) ==
  /\ MainReady(n)
  /\ polling[n]
  /\ ring[n] = <<>>
  /\ polling' = [polling EXCEPT ![n] = FALSE]
  /\ UNCHANGED <<status, main, flexus, stopAt, wire, wwt, cpu, ex, ck>>
=============================================================================
