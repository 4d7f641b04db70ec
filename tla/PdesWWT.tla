------------------------------ MODULE PdesWWT ------------------------------
(***************************************************************************)
(* net/pdes-wwt.c: the Wisconsin-Wind-Tunnel synchronisation.  Virtual     *)
(* time is cut into quanta as long as the network's latency; at the end of *)
(* a quantum the process stops its clock, sends SYNC(round) and waits for  *)
(* the peer's SYNC of the same round.  A packet carries the virtual time   *)
(* at which its receiver has to deliver it, one latency ahead.             *)
(***************************************************************************)
EXTENDS PdesCheckpoint, SequencesExt

-----------------------------------------------------------------------------
(* Messages the WWT callback acts on (wwt_recivied_callback). *)

\* A SYNC may be of the receiver's round or, once the receiver has finished
\* that round, of the next.
ValidRound(n, q) == q = round[n] \/ (finished[n] /\ q = round[n] + 1)

RecvSync(n) ==
  /\ Receiving(n, "SYNC")
  /\ LET q == Head(ring[n]).val IN
       IF ShouldSync /\ ~ValidRound(n, q)
       THEN /\ Abort(n, "abort_round")
            /\ UNCHANGED synced
       ELSE /\ synced' = [synced EXCEPT ![n] = @ \cup {Key(q)}]
            /\ UNCHANGED status
  /\ UNCHANGED <<main, polling, flexus, stopAt, mainOut, flexusOut, round,
                 finished, now, inflight, sent, hostPoll, cpu, ex, ck>>

Later(s, t) == IF s > t THEN s ELSE t

\* When the timer of a packet with timestamp ts expires that n receives now.
DueAt(n, ts) == IF ShouldSync THEN ts ELSE Later(ts, now[n] + 1)

\* A packet gets a one-shot timer; synchronised, it must not be in the past.
RecvNormal(n) ==
  /\ Receiving(n, "NORMAL")
  /\ LET ts == Head(ring[n]).val IN
       IF ShouldSync /\ ts < now[n]
       THEN /\ Abort(n, "abort_past")
            /\ UNCHANGED inflight
       ELSE /\ inflight' = [inflight EXCEPT ![n] = Append(@, DueAt(n, ts))]
            /\ UNCHANGED status
  /\ UNCHANGED <<main, polling, flexus, stopAt, mainOut, flexusOut, round,
                 finished, synced, now, sent, hostPoll, cpu, ex, ck>>

-----------------------------------------------------------------------------
(* Virtual time and the guest. *)

\* setup_wwt: time 0 of the simulation; the quantum timer is armed.
SetupWWT(n) ==
  /\ InEventLoop(n)
  /\ main[n] = "setup"
  /\ main' = [main EXCEPT ![n] = "run"]
  /\ hostPoll' = [hostPoll EXCEPT ![n] = TRUE]
  /\ UNCHANGED <<status, polling, flexus, stopAt, wire, round, finished, synced,
                 now, inflight, sent, cpu, ex, ck>>

\* Mutants of Packet: no latency, and the latency counted twice.
PacketNow(n) == Msg("NORMAL", now[n])
PacketTwice(n) == Msg("NORMAL", now[n] + 2 * Quantum)

\* wwt_send: the packet is due one latency ahead.
Packet(n) == Msg("NORMAL", now[n] + Quantum)

\* The device backend: the guest transmits (pdes_net_receive).
\* Nothing runs before the quantum timer's first expiry, at time 0.
SendPacket(n) ==
  /\ InEventLoop(n)
  /\ vm[n]
  /\ main[n] \in {"run", "armed"}
  /\ round[n] > 0 \/ main[n] = "armed"
  /\ sent[n] < MaxPackets
  /\ sent' = [sent EXCEPT ![n] = @ + 1]
  /\ mainOut' = [mainOut EXCEPT ![n] = <<Packet(n)>>]
  /\ UNCHANGED <<ctl, ring, flexusOut, round, finished, synced, now, inflight,
                 hostPoll, cpu, ex, ck>>

\* The expired timer that is first in QEMU's list: by time, then as armed.
FirstExpired(n, i) ==
  /\ inflight[n][i] <= now[n]
  /\ \A j \in DOMAIN inflight[n] :
       /\ inflight[n][i] <= inflight[n][j]
       /\ j < i => inflight[n][i] < inflight[n][j]

\* process_message_at_virtual_time: the guest gets the packet.
Deliver(n) ==
  /\ InEventLoop(n)
  /\ vm[n]
  /\ main[n] \in {"run", "armed"}
  /\ \E i \in DOMAIN inflight[n] :
       /\ FirstExpired(n, i)
       /\ inflight' = [inflight EXCEPT ![n] = RemoveAt(@, i)]
  /\ UNCHANGED <<ctl, wire, round, finished, synced, now, sent, hostPoll, cpu,
                 ex, ck>>

\* The clock of the virtual machine (icount, or Flexus's cycles).  It stops
\* exactly at the deadline of a virtual timer, and while the CPU is paused.
Tick(n) ==
  /\ Up(n)
  /\ main[n] # "setup"
  /\ mainOut[n] = <<>>
  /\ vm[n] /\ ~paused[n]
  /\ flexus[n] = "idle" /\ flexusOut[n] = <<>>
  /\ now[n] < MaxTime
  /\ main[n] = "run" => now[n] < round[n] * Quantum
  /\ \A i \in DOMAIN inflight[n] : inflight[n][i] > now[n]
  /\ now' = [now EXCEPT ![n] = @ + 1]
  /\ flexus' = [flexus EXCEPT ![n] = IF now[n] + 1 >= stopAt[n] THEN "ask" ELSE @]
  /\ UNCHANGED <<status, main, polling, stopAt, wire, round, finished, synced,
                 inflight, sent, hostPoll, cpu, ex, ck>>

-----------------------------------------------------------------------------
(* The end of a quantum. *)

\* Mutant of QuantaSync: without its poll.
QuantaSyncUnpolled(n) ==
  /\ InEventLoop(n)
  /\ vm[n]
  /\ main[n] = "run"
  /\ now[n] >= round[n] * Quantum
  /\ finished' = [finished EXCEPT ![n] = TRUE]
  /\ sent' = [sent EXCEPT ![n] = 0]
  /\ main' = [main EXCEPT ![n] = "notify"]
  /\ IF ShouldSync THEN Pause(n) ELSE UNCHANGED <<status, paused, pauseBh>>
  /\ UNCHANGED <<polling, flexus, stopAt, wire, round, synced, now, inflight,
                 hostPoll, vm, ex, ck>>

\* quanta_sync up to its poll.
QuantaSync(n) ==
  /\ InEventLoop(n)
  /\ vm[n]
  /\ main[n] = "run"
  /\ now[n] >= round[n] * Quantum
  /\ finished' = [finished EXCEPT ![n] = TRUE]
  /\ sent' = [sent EXCEPT ![n] = 0]
  /\ main' = [main EXCEPT ![n] = "notify"]
  /\ polling' = [polling EXCEPT ![n] = TRUE]
  /\ IF ShouldSync THEN Pause(n) ELSE UNCHANGED <<status, paused, pauseBh>>
  /\ UNCHANGED <<flexus, stopAt, wire, round, synced, now, inflight, hostPoll,
                 vm, ex, ck>>

\* notify_neighbors_for_drain: the round it carries is the current one.
OwesDrainStart(n) == ck[n].needs /\ ~ck[n].notified
DrainStart(n) ==
  IF OwesDrainStart(n) THEN <<Msg("DRAIN_START", round[n])>> ELSE <<>>
AfterDrainStart(n) == [ck[n] EXCEPT !.notified = @ \/ OwesDrainStart(n)]

\* send_sync, unless barriers are off.
SyncMessage(n) == IF ShouldSync THEN <<Msg("SYNC", round[n])>> ELSE <<>>

\* Mutants of NotifyAndSync: wwt_sync_check is called instead of scheduled, and
\* SYNC is sent before DRAIN_START.
NotifyAndCheck(n) ==
  /\ MainAt(n, "notify")
  /\ mainOut' = [mainOut EXCEPT ![n] = DrainStart(n) \o SyncMessage(n)]
  /\ ck' = [ck EXCEPT ![n] = AfterDrainStart(n)]
  /\ main' = [main EXCEPT ![n] = "check"]
  /\ polling' = [polling EXCEPT ![n] = TRUE]
  /\ UNCHANGED <<status, flexus, stopAt, ring, flexusOut, wwt, cpu, ex>>
SyncBeforeNotify(n) ==
  /\ MainAt(n, "notify")
  /\ mainOut' = [mainOut EXCEPT ![n] = SyncMessage(n) \o DrainStart(n)]
  /\ ck' = [ck EXCEPT ![n] = AfterDrainStart(n)]
  /\ main' = [main EXCEPT ![n] = "armed"]
  /\ UNCHANGED <<status, polling, flexus, stopAt, ring, flexusOut, wwt, cpu, ex>>

\* The rest of quanta_sync: DRAIN_START before SYNC, then sync_check_timer.
NotifyAndSync(n) ==
  /\ MainAt(n, "notify")
  /\ mainOut' = [mainOut EXCEPT ![n] = DrainStart(n) \o SyncMessage(n)]
  /\ ck' = [ck EXCEPT ![n] = AfterDrainStart(n)]
  /\ main' = [main EXCEPT ![n] = "armed"]
  /\ UNCHANGED <<status, polling, flexus, stopAt, ring, flexusOut, wwt, cpu, ex>>

-----------------------------------------------------------------------------
(* wwt_sync_check, a timer on the real-time clock. *)

SyncCheck(n) ==
  /\ InEventLoop(n)
  /\ ~BhPending(n)
  /\ main[n] = "armed"
  /\ main' = [main EXCEPT ![n] = "check"]
  /\ polling' = [polling EXCEPT ![n] = TRUE]
  /\ UNCHANGED <<status, flexus, stopAt, wire, wwt, cpu, ex, ck>>

\* Mutant: any SYNC ends the wait.
WaitingForAny(n) == ShouldSync /\ synced[n] = {}

Waiting(n) == ShouldSync /\ Key(round[n]) \notin synced[n]

\* is_waiting_for_quanta after its poll; the loop polls again.
CheckCount(n) ==
  /\ MainAt(n, "check")
  /\ main' = [main EXCEPT ![n] = IF Waiting(n) THEN "spin" ELSE "boundary"]
  /\ polling' = [polling EXCEPT ![n] = Waiting(n)]
  /\ UNCHANGED <<status, flexus, stopAt, wire, wwt, cpu, ex, ck>>

\* Mutant of SpinOn: the loop does not look for the peer's end.
SpinOnForever(n) ==
  /\ MainAt(n, "spin")
  /\ main' = [main EXCEPT ![n] = "check"]
  /\ polling' = [polling EXCEPT ![n] = TRUE]
  /\ UNCHANGED <<status, flexus, stopAt, wire, wwt, cpu, ex, ck>>

\* The loop goes round: is_waiting_for_quanta polls once more.
SpinOn(n) ==
  /\ MainAt(n, "spin")
  /\ ~ex[n].pairFin
  /\ main' = [main EXCEPT ![n] = "check"]
  /\ polling' = [polling EXCEPT ![n] = TRUE]
  /\ UNCHANGED <<status, flexus, stopAt, wire, wwt, cpu, ex, ck>>

\* The peer has ended: flexus_api.stop exits ...
SpinStop(n) ==
  /\ MainAt(n, "spin")
  /\ ex[n].pairFin
  /\ Abort(n, IF ex[n].permitted THEN "exited" ELSE "abort_end")
  /\ UNCHANGED <<main, polling, flexus, stopAt, wire, wwt, cpu, ex, ck>>

\* ... and where there is no flexus_api.stop, pdes_engine_destroy.
SpinDestroy(n) ==
  /\ MainAt(n, "spin")
  /\ ex[n].pairFin /\ ex[n].permitted
  /\ Destroy(n)
  /\ UNCHANGED <<status, polling, flexus, stopAt, ring, flexusOut, wwt, cpu>>

\* sync_checkpoint_check tells the peer of a checkpoint it has not heard of.
BoundaryNotify(n) ==
  /\ MainAt(n, "boundary")
  /\ OwesDrainStart(n)
  /\ mainOut' = [mainOut EXCEPT ![n] = DrainStart(n)]
  /\ ck' = [ck EXCEPT ![n] = AfterDrainStart(n)]
  /\ UNCHANGED <<ctl, ring, flexusOut, wwt, cpu, ex>>

\* This is the round of the checkpoint; the check is repeated after it.
BoundaryCheckpoint(n) ==
  /\ MainAt(n, "boundary")
  /\ ck[n].needs /\ ck[n].notified
  /\ ShouldSync => round[n] = ck[n].ckround
  /\ ck' = [ck EXCEPT ![n].bh = IF @ = "none" THEN "stay" ELSE @]
  /\ main' = [main EXCEPT ![n] = "armed"]
  /\ UNCHANGED <<status, polling, flexus, stopAt, wire, wwt, cpu, ex>>

\* The assertion: its round has not been passed.
BoundaryTooLate(n) ==
  /\ MainAt(n, "boundary")
  /\ ck[n].needs /\ ck[n].notified
  /\ ShouldSync /\ round[n] > ck[n].ckround
  /\ Abort(n, "abort_ckpt")
  /\ UNCHANGED <<main, polling, flexus, stopAt, wire, wwt, cpu, ex, ck>>

\* No checkpoint, or a later round's; sync_check_timer is freed.
BoundaryPass(n) ==
  /\ MainAt(n, "boundary")
  /\ ck[n].needs => ck[n].notified /\ ShouldSync /\ round[n] < ck[n].ckround
  /\ main' = [main EXCEPT ![n] = IF n = Master THEN "permit" ELSE "advance"]
  /\ UNCHANGED <<status, polling, flexus, stopAt, wire, wwt, cpu, ex, ck>>

\* Mutant of Permit: the master's own stop cycle is not awaited.
PermitUnready(n) ==
  /\ MainAt(n, "permit")
  /\ main' = [main EXCEPT ![n] =
       IF ex[n].nbrs >= 1 /\ ~ex[n].permitted THEN "grant" ELSE "advance"]
  /\ UNCHANGED <<status, polling, flexus, stopAt, wire, wwt, cpu, ex, ck>>

\* The master's arm: the flags are read one by one and then set.
Permit(n) ==
  /\ MainAt(n, "permit")
  /\ main' = [main EXCEPT ![n] =
       IF ex[n].nbrs >= 1 /\ ex[n].ready /\ ~ex[n].permitted
       THEN "grant" ELSE "advance"]
  /\ UNCHANGED <<status, polling, flexus, stopAt, wire, wwt, cpu, ex, ck>>

PermitGrant(n) ==
  /\ MainAt(n, "grant")
  /\ ex' = [ex EXCEPT ![n].permitted = TRUE]
  /\ mainOut' = [mainOut EXCEPT ![n] = <<Msg("PERMISSION", 0)>>]
  /\ main' = [main EXCEPT ![n] = "end"]
  /\ UNCHANGED <<status, polling, flexus, stopAt, ring, flexusOut, wwt, cpu, ck>>

PermitEnd(n) ==
  /\ MainAt(n, "end")
  /\ ex' = [ex EXCEPT ![n] = AfterEnd(@)]
  /\ mainOut' = [mainOut EXCEPT ![n] = EndIfPermitted(ex[n])]
  /\ main' = [main EXCEPT ![n] = "advance"]
  /\ UNCHANGED <<status, polling, flexus, stopAt, ring, flexusOut, wwt, cpu, ck>>

\* Mutants of Advance: the counts are reset, or finished_quantum is not.
AdvanceResets(n) ==
  /\ MainAt(n, "advance")
  /\ round' = [round EXCEPT ![n] = @ + 1]
  /\ finished' = [finished EXCEPT ![n] = FALSE]
  /\ synced' = [synced EXCEPT ![n] = {}]
  /\ main' = [main EXCEPT ![n] = "run"]
  /\ IF ShouldSync THEN Play(n) ELSE UNCHANGED <<vm, paused>>
  /\ UNCHANGED <<status, polling, flexus, stopAt, wire, now, inflight, sent,
                 hostPoll, pauseBh, ex, ck>>
AdvanceFinished(n) ==
  /\ MainAt(n, "advance")
  /\ round' = [round EXCEPT ![n] = @ + 1]
  /\ main' = [main EXCEPT ![n] = "run"]
  /\ IF ShouldSync THEN Play(n) ELSE UNCHANGED <<vm, paused>>
  /\ UNCHANGED <<status, polling, flexus, stopAt, wire, finished, synced, now,
                 inflight, sent, hostPoll, pauseBh, ex, ck>>

\* The next quantum begins: its timer is armed, the clock runs again.
Advance(n) ==
  /\ MainAt(n, "advance")
  /\ round' = [round EXCEPT ![n] = @ + 1]
  /\ finished' = [finished EXCEPT ![n] = FALSE]
  /\ main' = [main EXCEPT ![n] = "run"]
  /\ IF ShouldSync THEN Play(n) ELSE UNCHANGED <<vm, paused>>
  /\ UNCHANGED <<status, polling, flexus, stopAt, wire, synced, now, inflight,
                 sent, hostPoll, pauseBh, ex, ck>>
=============================================================================
