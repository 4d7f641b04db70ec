----------------------------- MODULE PdesSystem -----------------------------
(***************************************************************************)
(* The two processes together: every step of the main thread, of Flexus,   *)
(* of the clock and of the guest, and the properties of the whole.         *)
(***************************************************************************)
EXTENDS PdesWWT, FiniteSets

Receive(n) ==
  \/ RecvNormal(n) \/ RecvSync(n)
  \/ RecvDrainStart(n) \/ RecvDrainEnd(n) \/ RecvInitStep(n)
  \/ RecvIntent(n) \/ RecvPermission(n) \/ RecvEnd(n)
  \/ PollDone(n)

Dispatch(n) ==
  \/ HostPoll(n) \/ PauseBh(n) \/ CheckpointBH(n)
  \/ SetupWWT(n) \/ Deliver(n) \/ QuantaSync(n) \/ SyncCheck(n)

Boundary(n) ==
  \/ NotifyAndSync(n)
  \/ CheckCount(n) \/ SpinOn(n) \/ SpinStop(n) \/ SpinDestroy(n)
  \/ BoundaryNotify(n) \/ BoundaryCheckpoint(n) \/ BoundaryTooLate(n)
  \/ BoundaryPass(n)
  \/ Permit(n) \/ PermitGrant(n) \/ PermitEnd(n)
  \/ Advance(n) \/ Exit(n)

\* Everything under QEMU's big lock, the guest's transmissions excepted.
MainThread(n) == MainSend(n) \/ Receive(n) \/ Dispatch(n) \/ Boundary(n)

FlexusThread(n) ==
  \/ FlexusSend(n)
  \/ CanStop(n) \/ CanStopGrant(n) \/ CanStopEnd(n) \/ CanStopAnswer(n)
  \/ SetCheckpointFlags(n) \/ SetCheckpointRound(n)

Next ==
  \E n \in Nodes :
    MainThread(n) \/ FlexusThread(n) \/ Tick(n) \/ SendPacket(n) \/ FinishInitiate(n)

Spec == Init /\ [][Next]_vars

\* Threads are scheduled and clocks run; no guest has to send, no Flexus has
\* to ask for a checkpoint.
Fairness ==
  \A n \in Nodes :
    WF_vars(MainThread(n)) /\ WF_vars(FlexusThread(n)) /\ WF_vars(Tick(n))

FairSpec == Spec /\ Fairness

-----------------------------------------------------------------------------
(* The barrier. *)

\* n has issued SYNC for its current round (it may still be blocked sending).
Announced(n) == main[n] \notin {"setup", "run", "notify"}
AnnouncedRounds(n) == IF Announced(n) THEN round[n] + 1 ELSE round[n]

\* wwt.c:198: no SYNC of another round than the current one, or the next once
\* the current one is finished, is ever received - in particular none that the
\* 50us or 500ms host-clock poll picks up while the guest runs.
SyncRoundValid == \A n \in Nodes : status[n] # "abort_round"

\* wwt.c:221: no packet arrives after the virtual time it has to be delivered
\* at, whatever the order in which the two processes poll and run.
NoPastPacket == \A n \in Nodes : status[n] # "abort_past"

\* wwt.c:173: "time difference between nodes can not be more than quanta".
Lockstep == \A m, n \in Nodes : now[m] <= now[n] + Quantum

\* engine.c:360: pause_bh of the previous boundary has run when the next
\* boundary pauses.
NoStalePause == \A n \in Nodes : status[n] # "abort_pause"

\* The delivery timers of n expire in the order in which its peer sent the
\* packets, though each is armed by itself when its message is polled
\* (wwt.c:203-231).
PacketsInOrder ==
  \A n \in Nodes : \A i, j \in DOMAIN inflight[n] :
    i < j => inflight[n][i] <= inflight[n][j]

\* A packet is received at most one quantum before the quantum it is due in:
\* a delivery timer never reaches further than that beyond the boundary.
DueSoon ==
  \A n \in Nodes : \A i \in DOMAIN inflight[n] :
    inflight[n][i] <= (AnnouncedRounds(n) + 1) * Quantum

\* communicator.c:172: a sender that finds its ring full waits inside the
\* send, where it does not poll; both main threads must not wait like that.
BlockedSending(n) ==
  Up(n) /\ mainOut[n] # <<>> /\ Len(ring[Peer(n)]) >= RingCap
NoMutualBlock == ~ \A n \in Nodes : BlockedSending(n)

\* The main threads at the two ends of a quantum never miss each other: every
\* quantum ends, unless a process does (wwt.c:543: "it will cause deadlock").
Progress ==
  \A n \in Nodes : <>(round[n] = MaxRound + 1 \/ \E m \in Nodes : ~Up(m))

\* The boundary is the abstract barrier.
Barrier ==
  INSTANCE QuantumBarrier WITH
    Procs <- Nodes, LastRound <- MaxRound,
    at <- round, arrived <- [n \in Nodes |-> Announced(n)],
    gone <- {n \in Nodes : ~Up(n)}

\* The boundary of quanta_sync and wwt_sync_check implements the abstract
\* barrier: its safety, and with fairness its progress.
BarrierSafety == Barrier!Safety
BarrierSpec == Barrier!Spec

-----------------------------------------------------------------------------
(* The exit handshake. *)

OfType(s, t) == {i \in DOMAIN s : s[i].type = t}
InTransit(n, t) ==
  Cardinality(OfType(ring[Peer(n)], t)) + Cardinality(OfType(mainOut[n], t))
    + Cardinality(OfType(flexusOut[n], t))

\* engine.c:224 and wwt.c:357: END is received only after the handshake.
EndAfterPermission == \A n \in Nodes : status[n] # "abort_end"

\* No simulation is cut short: a process exits through the handshake only
\* when both have reached their stop cycles (engine.c:485 "Both sides exit
\* together").
NotCutShort ==
  (\E n \in Nodes : status[n] = "exited") => \A n \in Nodes : now[n] >= stopAt[n]

\* engine.c:107: "send END exactly once".
EndSentOnce ==
  \A n \in Nodes :
    InTransit(n, "END") + (IF ex[Peer(n)].pairFin THEN 1 ELSE 0) <= 1

\* Permission is granted once, though two threads of the master test for it
\* (wwt.c:429 "we don't miss an INTENT or double-flip the flag").
PermissionSentOnce ==
  InTransit(Master, "PERMISSION") + (IF ex[Follower].permitted THEN 1 ELSE 0) <= 1

\* A process that has exited has told its peer: END is in the ring or read.
NoOrphan ==
  \A n \in Nodes :
    status[n] = "exited" => OfType(ring[Peer(n)], "END") # {} \/ ex[Peer(n)].pairFin

\* Bound: the handshake is over four quanta after both Flexus have reached their
\* stop cycles; only then do the clocks, which stop at MaxTime, not cut it short.
HandshakeFits == \A n \in Nodes : stopAt[n] + 4 * Quantum <= MaxTime
Exited == \A n \in Nodes : status[n] = "exited"

\* When both Flexus are at their stop cycles the handshake completes and both
\* processes exit (engine.c:485 "Both sides exit together"); the one that is left
\* does not spin at a barrier that its peer will never reach (wwt.c:353-355).
ExitReached == HandshakeFits => <>Exited

-----------------------------------------------------------------------------
(* The checkpoint. *)

\* The snapshots form a cut: when the master has taken its own at round r, the
\* follower has taken its at r or has not yet left the boundary of r
\* (wwt.c:520 "or else ... the neighbor might move to the next quantum").
SameCut ==
  \A r \in ck[Master].saved :
    round[Follower] <= r \/ r \in ck[Follower].saved

\* wwt.c:331: the round of the checkpoint has not been passed at a boundary.
CheckpointNotPassed == \A n \in Nodes : status[n] # "abort_ckpt"

\* The follower completes every checkpoint of the master, at the same round.
CheckpointCompletes ==
  \A r \in 0..MaxRound :
    [](r \in ck[Master].saved => <>(r \in ck[Follower].saved))

\* Without barriers the two snapshots may be of different rounds, but the
\* follower that has not taken its own knows, or will when it polls: the request
\* is neither lost on the way nor dropped by a snapshot taken for an earlier one.
CheckpointNotLost ==
  ck[Master].saved # {} =>
    \/ ck[Follower].saved # {}
    \/ ck[Follower].needs
    \/ OfType(ring[Follower], "DRAIN_START") # {}

\* engine.c:132 "Notify neighbors that we are ending the simulation": a
\* process that has exited has sent END.
EndAnnounced ==
  \A n \in Nodes : status[n] = "exited" => ex[n].endSent
=============================================================================
