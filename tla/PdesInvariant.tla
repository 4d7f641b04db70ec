--------------------------- MODULE PdesInvariant ---------------------------
(***************************************************************************)
(* The inductive invariant from which PdesSyncProofs derives that every    *)
(* SYNC is received in its round.  It follows the rounds of the SYNC messages   *)
(* of each process n along their way: announced by n, blocked in mainOut,  *)
(* in the ring of its peer, counted in the peer's sync_counts.             *)
(***************************************************************************)
EXTENDS PdesSystem

IsSync(m) == m.type = "SYNC"

\* finished_quantum is set from quanta_sync to the end of wwt_sync_check.
FinishedInv ==
  \A n \in Nodes : finished[n] <=> main[n] \notin {"setup", "run"}

\* A SYNC is sent by the main thread only, from quanta_sync, and one at a time.
FlexusSendsNone(n) == \A i \in DOMAIN flexusOut[n] : ~IsSync(flexusOut[n][i])
SendsAnnounced(n) ==
  \A i \in DOMAIN mainOut[n] : IsSync(mainOut[n][i]) =>
    /\ mainOut[n][i].val < AnnouncedRounds(n)
    /\ mainOut[n][i].val \notin synced[Peer(n)]
SendsOne(n) ==
  \A i, j \in DOMAIN mainOut[n] :
    IsSync(mainOut[n][i]) /\ IsSync(mainOut[n][j]) => i = j
SendingInv ==
  \A n \in Nodes : FlexusSendsNone(n) /\ SendsAnnounced(n) /\ SendsOne(n)

\* The SYNC messages in the ring of n are of different rounds, which its peer
\* has announced and n has not counted yet.
RingAnnounced(n) ==
  \A i \in DOMAIN ring[n] : IsSync(ring[n][i]) =>
    /\ ring[n][i].val < AnnouncedRounds(Peer(n))
    /\ ring[n][i].val \notin synced[n]
RingDistinct(n) ==
  \A i, j \in DOMAIN ring[n] :
    /\ IsSync(ring[n][i]) /\ IsSync(ring[n][j])
    /\ ring[n][i].val = ring[n][j].val
    => i = j
RingOrSending(n) ==
  \A i \in DOMAIN ring[n], j \in DOMAIN mainOut[Peer(n)] :
    IsSync(ring[n][i]) /\ IsSync(mainOut[Peer(n)][j])
      => ring[n][i].val # mainOut[Peer(n)][j].val
RingInv ==
  \A n \in Nodes : RingAnnounced(n) /\ RingDistinct(n) /\ RingOrSending(n)

\* n counts only rounds its peer has announced, and every round it has left.
CountInv ==
  \A n \in Nodes :
    /\ \A q \in synced[n] : q < AnnouncedRounds(Peer(n))
    /\ ShouldSync => \A q \in 0 .. round[n] - 1 : q \in synced[n]

\* Past the wait of wwt_sync_check, the peer's SYNC of this round is counted.
PassedWait == {"boundary", "permit", "grant", "end", "advance"}
WaitInv ==
  \A n \in Nodes : ShouldSync /\ main[n] \in PassedWait => round[n] \in synced[n]

\* The clocks' bound bounds the rounds, hence the keys of sync_counts.
BoundInv ==
  \A n \in Nodes :
    /\ now[n] <= MaxTime
    /\ AnnouncedRounds(n) <= MaxRound + 1
    /\ main[n] = "notify" => round[n] <= MaxRound

\* The checkpoint's bottom half runs before the main thread leaves the boundary
\* at which it was scheduled, or after pdes_engine_destroy.
BhInv == \A n \in Nodes : ck[n].bh # "none" => main[n] \in {"armed", "closing"}

\* The assumption under which no key of sync_counts is used twice.
KeysSuffice == MaxRound < KeyMod

SyncInv ==
  /\ TypeOK
  /\ FinishedInv /\ SendingInv /\ RingInv /\ CountInv /\ WaitInv /\ BoundInv
  /\ SyncRoundValid

\* wwt.c:193-200, 247: a SYNC is announced, sent, received and counted in its
\* own round, whatever the two processes and their Flexus do in between.
InductiveInv == SyncInv /\ BhInv

-----------------------------------------------------------------------------
(* The invariant from which PdesTimeProofs derives how far the clocks can be *)
(* apart and that no packet is late.                                         *)

\* The bottom half of a pause has run before wwt_sync_check begins.
PauseInv == \A n \in Nodes : pauseBh[n] => main[n] \in {"notify", "armed"}

\* With barriers the clock of n is in the quantum that ends at round[n], at its
\* end from quanta_sync on; it stands still from there to the next quantum.
ClockInv ==
  ShouldSync => \A n \in Nodes :
    /\ now[n] <= round[n] * Quantum
    /\ round[n] * Quantum <= now[n] + Quantum
    /\ main[n] \notin {"setup", "run"} => paused[n] /\ round[n] * Quantum <= now[n]

IsNormal(m) == m.type = "NORMAL"

\* A packet is sent by the main thread, and due after the rounds announced.
SentDue(n) ==
  /\ \A i \in DOMAIN flexusOut[n] : ~IsNormal(flexusOut[n][i])
  /\ \A i \in DOMAIN mainOut[n] :
       IsNormal(mainOut[n][i]) => AnnouncedRounds(n) * Quantum <= mainOut[n][i].val

\* A packet in the ring of n is due after the rounds its peer has announced, or
\* there is a SYNC behind it, in the ring or blocked, whose round it is due after.
DueAfterRing(n, i) ==
  \E j \in DOMAIN ring[n] :
    i < j /\ IsSync(ring[n][j]) /\ ring[n][j].val * Quantum <= ring[n][i].val
DueAfterSending(n, i) ==
  \E j \in DOMAIN mainOut[Peer(n)] :
    /\ IsSync(mainOut[Peer(n)][j])
    /\ mainOut[Peer(n)][j].val * Quantum <= ring[n][i].val
RingDue(n) ==
  \A i \in DOMAIN ring[n] : IsNormal(ring[n][i]) =>
    \/ AnnouncedRounds(Peer(n)) * Quantum <= ring[n][i].val
    \/ DueAfterRing(n, i)
    \/ DueAfterSending(n, i)
DueInv == ShouldSync => \A n \in Nodes : SentDue(n) /\ RingDue(n)

\* wwt.c:217-223: virtual time and the packets, between the boundaries.
TimeInv == PauseInv /\ ClockInv /\ DueInv

-----------------------------------------------------------------------------
(* The invariant from which PdesTimeProofs derives that packets are        *)
(* delivered in order, with barriers or without: they are sorted all the way *)
(* from the sender's clock over mainOut and the ring to the delivery timers. *)

\* A packet is sent by the main thread, alone, and due at most one latency after
\* the present of its sender.
SendsOnePacket(n) ==
  /\ \A i \in DOMAIN flexusOut[n] : ~IsNormal(flexusOut[n][i])
  /\ \A i, j \in DOMAIN mainOut[n] : IsNormal(mainOut[n][i]) => i = j
  /\ \A i \in DOMAIN mainOut[n] :
       IsNormal(mainOut[n][i]) => mainOut[n][i].val <= now[n] + Quantum

RingSorted(n) ==
  /\ \A i, j \in DOMAIN ring[n] :
       i < j /\ IsNormal(ring[n][i]) /\ IsNormal(ring[n][j])
         => ring[n][i].val <= ring[n][j].val
  /\ \A i \in DOMAIN ring[n], j \in DOMAIN mainOut[Peer(n)] :
       IsNormal(ring[n][i]) /\ IsNormal(mainOut[Peer(n)][j])
         => ring[n][i].val <= mainOut[Peer(n)][j].val
  /\ \A i \in DOMAIN ring[n] :
       IsNormal(ring[n][i]) => ring[n][i].val <= now[Peer(n)] + Quantum

\* No timer of n expires after those that packets on the way will get.
TimersFirst(n) ==
  \A k \in DOMAIN inflight[n] :
    /\ \A i \in DOMAIN ring[n] :
         IsNormal(ring[n][i]) => inflight[n][k] <= DueAt(n, ring[n][i].val)
    /\ \A j \in DOMAIN mainOut[Peer(n)] :
         IsNormal(mainOut[Peer(n)][j])
           => inflight[n][k] <= DueAt(n, mainOut[Peer(n)][j].val)
    /\ inflight[n][k] <= DueAt(n, now[Peer(n)] + Quantum)

\* wwt.c:203-231, 246-268: a packet overtakes none that was sent before it.
PacketInv ==
  /\ PacketsInOrder
  /\ \A n \in Nodes : SendsOnePacket(n) /\ RingSorted(n) /\ TimersFirst(n)

-----------------------------------------------------------------------------
(* The invariant from which PdesExitProofs derives that PERMISSION arrives   *)
(* before END, for a pause that waits and with barriers.                     *)

Carries(s, t) == \E i \in DOMAIN s : s[i].type = t
PermissionFirst(s) ==
  \A i \in DOMAIN s : s[i].type = "END" =>
    \E j \in DOMAIN s : j < i /\ s[j].type = "PERMISSION"

\* A paused Flexus is out of the engine, and only the master grants permission:
\* so of its two threads, which both do, never both are at it.
GrantAlone ==
  /\ \A n \in Nodes : paused[n] => FlexusQuiet(n)
  /\ main[Follower] \notin {"permit", "grant", "end"}
  /\ flexus[Follower] \notin {"grant", "end"}
  /\ Carries(mainOut[Master], "PERMISSION") => main[Master] = "end"

\* PERMISSION is in the follower's ring, or has been read.
Told == ex[Follower].permitted \/ Carries(ring[Follower], "PERMISSION")

\* The master has permission if and only if it has told the follower, or is about to.
PermissionInv ==
  /\ ~Carries(mainOut[Follower], "PERMISSION")
  /\ ~Carries(flexusOut[Follower], "PERMISSION")
  /\ ~Carries(ring[Master], "PERMISSION")
  /\ ex[Master].permitted <=>
       \/ Told
       \/ Carries(mainOut[Master], "PERMISSION")
       \/ Carries(flexusOut[Master], "PERMISSION")

\* Only who has permission sends END, and the master only behind PERMISSION.
EndInv ==
  /\ \A n \in Nodes :
       /\ \/ Carries(mainOut[n], "END")
          \/ Carries(flexusOut[n], "END")
          \/ Carries(ring[Peer(n)], "END")
          => ex[n].permitted
       /\ ex[n].pairFin => ex[n].permitted
  /\ Carries(mainOut[Master], "END") \/ Carries(flexusOut[Master], "END") => Told
  /\ ex[Follower].permitted \/ PermissionFirst(ring[Follower])

\* engine.c:104-137, 219-229, 459-484: the messages of the exit handshake and the
\* flags of both processes agree while END and PERMISSION are under way.
HandshakeInv == GrantAlone /\ PermissionInv /\ EndInv /\ EndAfterPermission

-----------------------------------------------------------------------------
(* The invariant from which PdesExitProofs derives that nobody exits before  *)
(* both have simulated all their cycles, unless a checkpoint is the reason:  *)
(* what each flag and each message on the way tells about the two clocks.    *)

Reached(n) == now[n] >= stopAt[n]
BothReached == \A n \in Nodes : Reached(n)

\* A message of type t from n is blocked, or in its peer's ring.
UnderWay(n, t) ==
  Carries(mainOut[n], t) \/ Carries(flexusOut[n], t) \/ Carries(ring[Peer(n)], t)

\* can_stop is called at the stop cycle only; INTENT tells the peer so.
AskInv(n) ==
  /\ flexus[n] \in {"ask", "grant", "end", "answer"} => Reached(n)
  /\ ex[n].ready \/ UnderWay(n, "INTENT") => Reached(n)
  /\ ex[n].nbrs # 0 => Reached(Peer(n))

\* Permission, in every place it can be, is granted when both are there.
GrantInv(n) ==
  \/ ex[n].permitted
  \/ UnderWay(n, "PERMISSION")
  \/ main[n] = "grant"
  \/ flexus[n] \in {"grant", "end"}
  => BothReached

\* Only who has permission leaves.
LeaveInv(n) ==
  status[n] = "exited" \/ main[n] \in {"closing", "exiting"} => BothReached

\* Nobody has asked for a checkpoint, after which a process exits on its own.
NoRequest(n) ==
  /\ ~ck[n].needs /\ ~ck[n].masterInit /\ ck[n].bh = "none"
  /\ flexus[n] \notin {"setflags", "setround"}
  /\ ~UnderWay(n, "DRAIN_START")

\* engine.c:459-484, wwt.c:427-440: what the exit handshake has established.
StopInv ==
  InitNodes = {} =>
    \A n \in Nodes : AskInv(n) /\ GrantInv(n) /\ LeaveInv(n) /\ NoRequest(n)

-----------------------------------------------------------------------------
(* The invariant from which PdesOnceProofs derives that END and PERMISSION   *)
(* are sent once, and END before its sender is gone.                         *)

One(s, t) == \A i, j \in DOMAIN s : s[i].type = t /\ s[j].type = t => i = j

\* A message of type t is in one place at most, once: blocked in one of its
\* sender's threads (a, b), in the ring (r), or received.
OnceIn(a, b, r, t, received) ==
  /\ One(a, t) /\ One(b, t) /\ One(r, t)
  /\ Carries(a, t) => ~Carries(b, t) /\ ~Carries(r, t)
  /\ Carries(b, t) => ~Carries(r, t)
  /\ received => ~Carries(a, t) /\ ~Carries(b, t) /\ ~Carries(r, t)
Once(n, t, received) == OnceIn(mainOut[n], flexusOut[n], ring[Peer(n)], t, received)

EndOnce ==
  \A n \in Nodes :
    /\ Once(n, "END", ex[Peer(n)].pairFin)
    /\ UnderWay(n, "END") \/ ex[Peer(n)].pairFin => ex[n].endSent

\* Between the test and the store of permitted_to_exit nobody else stores it.
PermissionOnce ==
  /\ Once(Master, "PERMISSION", ex[Follower].permitted)
  /\ main[Master] = "grant" \/ flexus[Master] = "grant" => ~ex[Master].permitted

\* Who has permission says END at once; who is gone has been heard, or will be.
EndTold ==
  /\ \A n \in Nodes :
       /\ ex[n].permitted /\ main[n] # "end" /\ flexus[n] # "end" => ex[n].endSent
       /\ ex[n].endSent => UnderWay(n, "END") \/ ex[Peer(n)].pairFin
       /\ main[n] \in {"closing", "exiting"} => ex[n].permitted
       /\ status[n] = "exited" =>
            ex[n].endSent /\ ~Carries(mainOut[n], "END") /\ ~Carries(flexusOut[n], "END")
  /\ Carries(mainOut[Master], "END") => main[Master] \notin {"setup", "run"}
  /\ Carries(mainOut[Follower], "END") => ~ex[Follower].pairFin

\* engine.c:104-137: END once in any case, PERMISSION where pause waits, and END
\* before its sender has exited where no checkpoint ends the simulation.
OnceInv ==
  /\ EndOnce
  /\ ShouldSync /\ PauseWaits => PermissionOnce /\ (InitNodes = {} => EndTold)

-----------------------------------------------------------------------------
(* The invariant from which PdesCutProofs derives that the snapshots form a  *)
(* cut, for a pause that waits, with barriers and a master that signals last:*)
(* the master's request reaches the follower before the SYNC of its round.   *)

SettingCheckpoint(n) == flexus[n] \in {"setflags", "setround"}

\* The master has its request out, or has taken its snapshot.
Asked == ck[Master].saved # {} \/ (ck[Master].needs /\ Announced(Master))

\* The master requests once, while its main thread runs: so the round is the
\* one that it announces next, and it leaves no boundary before the snapshot.
RequestInv ==
  LET c == ck[Master] IN
  /\ ~SettingCheckpoint(Follower)
  /\ SettingCheckpoint(Master) =>
       main[Master] = "run" /\ c.signalled /\ c.masterInit /\ c.saved = {}
  /\ c.masterInit => c.initFlag >= 1
  /\ c.needs => c.signalled /\ c.masterInit /\ c.saved = {}
  /\ c.needs => main[Master] \notin {"setup", "permit", "grant", "end", "advance", "exiting"}
  /\ c.needs => (c.notified <=> Announced(Master))
  /\ c.needs /\ flexus[Master] # "setround" => c.ckround = round[Master]
  /\ c.saved # {} => c.saved = {round[Master]} /\ c.signalled /\ main[Master] = "exiting"
  /\ c.bh # "none" => c.needs

IsDrainStart(m) == m.type = "DRAIN_START"
IsSyncOf(m, r) == IsSync(m) /\ m.val = r

\* A DRAIN_START to the follower is of the master's round, and the SYNC of that
\* round is behind it.
DrainInv ==
  LET r == round[Master] IN
  /\ \A i \in DOMAIN flexusOut[Master] : ~IsDrainStart(flexusOut[Master][i])
  /\ \A i \in DOMAIN mainOut[Master] : IsDrainStart(mainOut[Master][i]) =>
       /\ Asked /\ mainOut[Master][i].val = r /\ r \notin synced[Follower]
       /\ \A j \in DOMAIN ring[Follower] : ~IsSyncOf(ring[Follower][j], r)
       /\ \A j \in DOMAIN mainOut[Master] : j < i => ~IsSyncOf(mainOut[Master][j], r)
  /\ \A i \in DOMAIN ring[Follower] : IsDrainStart(ring[Follower][i]) =>
       /\ Asked /\ ring[Follower][i].val = r /\ r \notin synced[Follower]
       /\ \A j \in DOMAIN ring[Follower] : j < i => ~IsSyncOf(ring[Follower][j], r)

\* The follower that has adopted the request has not left the boundary of its
\* round, nor will before its snapshot.
AdoptedInv ==
  LET c == ck[Follower] IN
  /\ c.needs => Asked /\ c.ckround = round[Master] /\ round[Follower] <= round[Master]
  /\ c.needs /\ main[Follower] = "advance" => round[Follower] < round[Master]
  /\ c.bh # "none" => c.needs
  /\ c.bh # "none" => main[Follower] = "closing" \/ round[Follower] = round[Master]

\* Where the master's request is: on its way, adopted, carried out, or too late
\* for a follower that leaves through pdes_engine_destroy.
RequestKept ==
  Asked =>
    \/ Carries(mainOut[Master], "DRAIN_START")
    \/ Carries(ring[Follower], "DRAIN_START")
    \/ ck[Follower].needs
    \/ round[Master] \in ck[Follower].saved
    \/ main[Follower] \in {"closing", "exiting"} /\ round[Follower] <= round[Master]

\* wwt.c:315-349, 511-530; engine.c:256-291: the request, DRAIN_START and the
\* boundaries of both processes.
CutInv == RequestInv /\ DrainInv /\ AdoptedInv /\ RequestKept /\ CheckpointNotPassed

\* The follower has the request, has carried one out, or finds it in its ring.
DrainHeard ==
  \/ ck[Follower].needs
  \/ ck[Follower].saved # {}
  \/ Carries(ring[Follower], "DRAIN_START")

\* The same request without barriers, where nobody waits and nothing holds the
\* follower back: notified, or scheduled to be carried out, the master has told it.
RequestTold ==
  /\ ck[Master].notified \/ ck[Master].bh # "none" =>
       Carries(mainOut[Master], "DRAIN_START") \/ DrainHeard
  /\ ck[Master].saved # {} => DrainHeard
  /\ \A n \in Nodes : main[n] # "spin"

-----------------------------------------------------------------------------
(* The invariant from which PdesOnceProofs derives that the main threads are *)
(* never both blocked: how much of what n has sent its peer can have unread. *)

Bit(b) == IF b THEN 1 ELSE 0

\* The messages of the handshake and the checkpoint n has sent, read or not.
ExitSaid(n) ==
  Bit(IF n = Master THEN ex[n].permitted ELSE ex[n].intent) + Bit(ex[n].endSent)
CkptSaid(n) ==
  Bit(IF n = Master THEN ck[n].saved # {} ELSE ck[n].signalled)
    + Bit(ck[n].notified \/ ck[n].saved # {})
Said(n) == ExitSaid(n) + CkptSaid(n)

\* There is one request, and nobody who has taken its snapshot has another.
RequestOnce ==
  LET c == ck[Master] IN
  /\ flexus[Follower] # "setflags"
  /\ flexus[Master] = "setflags" => c.signalled /\ c.initFlag >= 1 /\ ~c.needs /\ c.saved = {}
  /\ c.masterInit \/ c.needs \/ c.saved # {} => c.signalled
  /\ c.needs \/ c.saved # {} => c.initFlag >= 1
  /\ \A n \in Nodes :
       /\ ck[n].signalled => n \in InitNodes
       /\ ck[n].needs => ck[n].saved = {}
       /\ ck[n].notified => ck[n].needs

\* The master's DRAIN_START is sent once, and the follower adopts it once.
Adopted == ck[Follower].needs \/ ck[Follower].saved # {}
DrainOnce ==
  /\ Once(Master, "DRAIN_START", Adopted)
  /\ UnderWay(Master, "DRAIN_START") \/ Adopted => ck[Master].notified \/ ck[Master].saved # {}

\* Who says anything of the exit has permission, or is at its stop cycle.
SpeaksAtStop ==
  \A n \in Nodes :
    /\ stopAt[n] \in StopTimes
    /\ ex[n].endSent => ex[n].permitted
    /\ flexus[n] = "ask" \/ ex[n].intent => Reached(n)

\* At most these packets of n are behind its last SYNC; quanta_sync begins to
\* count anew.
SinceSync(n) == IF main[n] = "notify" THEN MaxPackets ELSE sent[n]
Unsent(n) == Len(mainOut[n]) + Len(flexusOut[n])
Unread(n) == Len(ring[Peer(n)]) + Unsent(n)

\* Behind a SYNC blocked in a, or the SYNC of round v in r, are at most k messages.
BehindIn(a, b, r, v, k) ==
  /\ \A i \in DOMAIN a : IsSync(a[i]) => Len(a) - i + Len(b) <= k
  /\ \A i \in DOMAIN r : IsSyncOf(r[i], v) => Len(r) - i + Len(a) + Len(b) <= k
LastSyncRead(n) ==
  AnnouncedRounds(n) = 0 \/ AnnouncedRounds(n) - 1 \in synced[Peer(n)]
Behind(n) ==
  LET k == SinceSync(n) + Said(n) IN
  /\ BehindIn(mainOut[n], flexusOut[n], ring[Peer(n)], AnnouncedRounds(n) - 1, k)
  /\ LastSyncRead(n) => Unread(n) <= k

\* What n has said since quanta_sync began.
SaidHere(n) == Bit(Announced(n)) + sent[n] + Said(n)
PastPoll(n) == Announced(n) \/ (main[n] = "notify" /\ ~polling[n])

\* Of two processes at the boundary of the same round, the one whose poll was
\* the later has read all that the other sent before that boundary.
MetInv ==
  /\ \A n \in Nodes :
       finished[n] => Unsent(n) <= SaidHere(n)
  /\ round[Master] = round[Follower] /\ (\A n \in Nodes : PastPoll(n)) =>
       \E n \in Nodes : Unread(n) <= SaidHere(n)

\* engine.c:104-137, 256-291, 459-484: each message of the handshake and of the
\* checkpoint is said once.
SpeechInv == RequestOnce /\ DrainOnce /\ SpeaksAtStop

\* communicator.c:172, wwt.c:320-349: what of n can be unread at once.
Bounded == MetInv /\ \A n \in Nodes : sent[n] <= MaxPackets /\ Behind(n)

BlockInv == SpeechInv /\ (ShouldSync /\ PauseWaits => Bounded)

\* The assumption under which a ring holds all that can be unread: the packets
\* of one quantum, a SYNC, and the messages of the handshake and the checkpoint.
ControlMessages ==
  IF InitNodes # {} THEN 4 ELSE IF \E t \in StopTimes : t <= MaxTime THEN 2 ELSE 0
RingSuffices == RingCap >= MaxPackets + 1 + ControlMessages
=============================================================================
