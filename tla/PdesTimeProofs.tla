--------------------------- MODULE PdesTimeProofs ---------------------------
(***************************************************************************)
(* TimeInv is inductive, next to SyncInv: with barriers on the clocks of   *)
(* the two processes are never more than a quantum apart, no packet is     *)
(* received after the time it is due at, and a boundary never pauses while *)
(* the bottom half of an earlier pause is pending.  PacketInv is           *)
(* inductive, with barriers and without: packets stay sorted from their    *)
(* sender to the delivery timers of the receiver.  With barriers, those do *)
(* not reach beyond the quantum that follows its next boundary.            *)
(***************************************************************************)
EXTENDS PdesSyncProofs, SequenceTheorems

\* What the invariant takes from the barrier's.
Base == SyncInv /\ BhInv /\ TimeInv /\ TypeOK'

-----------------------------------------------------------------------------
(* Arithmetic. *)

\* The end of a later quantum is later.
LEMMA MulMono ==
  ASSUME NEW a \in Nat, NEW b \in Nat, a <= b PROVE a * Quantum <= b * Quantum
<1>1. PICK d \in Nat : b = a + d
  <2>1. b = a + (b - a) /\ b - a \in Nat
    OBVIOUS
  <2>2. QED
    BY <2>1
<1>2. (a + d) * Quantum = a * Quantum + d * Quantum
  BY SizeAssumption
<1>3. a * Quantum \in Nat /\ d * Quantum \in Nat
  BY SizeAssumption
<1>4. QED
  BY <1>1, <1>2, <1>3

\* The next quantum ends one latency later.
LEMMA MulNext ==
  \A a \in Nat : (a + 1) * Quantum = a * Quantum + Quantum /\ a * Quantum \in Nat
BY SizeAssumption

-----------------------------------------------------------------------------
(* Steps that leave the clocks, the rounds and the rings alone. *)

NoNormal(s) == \A i \in DOMAIN s : ~IsNormal(s[i])

\* The main thread stays on its side of the boundary's announcement, and passes
\* sync_check_timer only without a pause pending.
KeepsPlace(m) ==
  \/ main'[m] = main[m]
  \/ /\ {main[m], main'[m]} \cap {"setup", "run", "notify"} = {}
     /\ pauseBh[m] => main'[m] = "armed"

\* The main thread sends no packet, and nothing while a message is blocked.
KeepsMain(m) == mainOut'[m] = mainOut[m] \/ (mainOut[m] = <<>> /\ NoNormal(mainOut'[m]))
KeepsFlexus(m) == flexusOut'[m] = flexusOut[m] \/ NoNormal(flexusOut'[m])

\* The places, for a step that moves no clock and no round.
LEMMA PlaceQuiet ==
  ASSUME Base, UNCHANGED <<round, now, paused, pauseBh>>, \A m \in Nodes : KeepsPlace(m)
  PROVE  /\ PauseInv' /\ ClockInv'
         /\ \A m \in Nodes : AnnouncedRounds(m)' = AnnouncedRounds(m)
<1>1. PauseInv'
  BY DEF Base, TimeInv, PauseInv, KeepsPlace
<1>2. ClockInv'
  BY DEF Base, TimeInv, ClockInv, KeepsPlace
<1>3. \A m \in Nodes : AnnouncedRounds(m)' = AnnouncedRounds(m)
  BY DEF AnnouncedRounds, Announced, KeepsPlace
<1>4. QED
  BY <1>1, <1>2, <1>3

\* The packets, for a step that announces no round and neither takes a message
\* from a ring nor puts one there.
LEMMA DueQuiet ==
  ASSUME Base, UNCHANGED ring,
         \A m \in Nodes : AnnouncedRounds(m)' = AnnouncedRounds(m),
         \A m \in Nodes : KeepsMain(m) /\ KeepsFlexus(m)
  PROVE  DueInv'
<1> SUFFICES ASSUME ShouldSync, NEW n \in Nodes PROVE SentDue(n)' /\ RingDue(n)'
  BY DEF DueInv
<1>1. SentDue(n) /\ RingDue(n)
  BY DEF Base, TimeInv, DueInv
<1>2. SentDue(n)'
  BY <1>1 DEF SentDue, KeepsMain, KeepsFlexus, NoNormal
<1>3. RingDue(n)'
  <2>1. Peer(n) \in Nodes
    BY PeerNodes
  <2>2. \A i \in DOMAIN ring[n] : DueAfterSending(n, i) => DueAfterSending(n, i)'
    BY <2>1 DEF DueAfterSending, KeepsMain
  <2>3. \A i \in DOMAIN ring[n] : DueAfterRing(n, i) => DueAfterRing(n, i)'
    BY DEF DueAfterRing
  <2>4. QED
    BY <1>1, <2>1, <2>2, <2>3 DEF RingDue
<1>4. QED
  BY <1>2, <1>3

\* Most handlers of the engine.
LEMMA TimeQuiet ==
  ASSUME Base, UNCHANGED <<round, now, paused, pauseBh, ring>>,
         \A m \in Nodes : KeepsPlace(m) /\ KeepsMain(m) /\ KeepsFlexus(m)
  PROVE  TimeInv'
BY PlaceQuiet, DueQuiet DEF TimeInv

-----------------------------------------------------------------------------
(* Sending and receiving. *)

\* A message leaves the ring of n; a SYNC has no packet before it.
LEMMA ReceiveTime ==
  ASSUME Base, NEW n \in Nodes, NEW t \in MsgTypes, Receiving(n, t),
         UNCHANGED <<main, round, now, paused, pauseBh, flexusOut>>,
         \A m \in Nodes : KeepsMain(m)
  PROVE  TimeInv'
<1>0. TypeOK /\ TypeOK'
  BY DEF Base, SyncInv
<1>1. PauseInv' /\ ClockInv' /\ \A m \in Nodes : AnnouncedRounds(m)' = AnnouncedRounds(m)
  BY PlaceQuiet DEF KeepsPlace
<1>2. /\ ring[n] \in Seq(Message) /\ ring[n] # <<>>
      /\ ring'[n] = Tail(ring[n])
      /\ \A m \in Nodes \ {n} : ring'[m] = ring[m]
  BY <1>0 DEF Receiving, TypeOK
<1>3. \A i \in DOMAIN ring'[n] :
        i + 1 \in DOMAIN ring[n] /\ ring'[n][i] = ring[n][i + 1] /\ i \in Nat \ {0}
  <2>1. \A i \in DOMAIN Tail(ring[n]) : i \in Nat \ {0}
    BY <1>2
  <2>2. QED
    BY <1>2, <2>1, TailElements
<1>4. ASSUME ShouldSync, NEW m \in Nodes PROVE SentDue(m)' /\ RingDue(m)'
  <2>1. SentDue(m) /\ RingDue(m) /\ Peer(m) \in Nodes
    BY <1>4, PeerNodes DEF Base, TimeInv, DueInv
  <2>2. SentDue(m)'
    BY <1>1, <2>1 DEF SentDue, KeepsMain, NoNormal
  <2>3. \A i : DueAfterSending(m, i) =>
          \E j \in DOMAIN mainOut'[Peer(m)] :
            /\ IsSync(mainOut'[Peer(m)][j])
            /\ mainOut'[Peer(m)][j].val * Quantum <= ring[m][i].val
    BY <2>1 DEF DueAfterSending, KeepsMain
  <2>4. CASE m # n
    <3>1. ring'[m] = ring[m]
      BY <1>2, <2>4
    <3>2. \A i \in DOMAIN ring[m] : DueAfterRing(m, i) => DueAfterRing(m, i)'
      BY <3>1 DEF DueAfterRing
    <3>3. \A i \in DOMAIN ring[m] : DueAfterSending(m, i) => DueAfterSending(m, i)'
      BY <2>3, <3>1 DEF DueAfterSending
    <3>4. QED
      BY <1>1, <2>1, <2>2, <3>1, <3>2, <3>3 DEF RingDue
  <2>5. CASE m = n
    <3> SUFFICES ASSUME NEW i \in DOMAIN ring'[n], IsNormal(ring'[n][i])
                 PROVE  \/ AnnouncedRounds(Peer(n))' * Quantum <= ring'[n][i].val
                        \/ DueAfterRing(n, i)'
                        \/ DueAfterSending(n, i)'
      BY <2>2, <2>5 DEF RingDue
    <3>1. i + 1 \in DOMAIN ring[n] /\ ring'[n][i] = ring[n][i + 1] /\ i \in Nat \ {0}
      BY <1>3
    <3>2. CASE AnnouncedRounds(Peer(n)) * Quantum <= ring[n][i + 1].val
      BY <1>1, <2>1, <2>5, <3>1, <3>2
    <3>3. CASE DueAfterRing(n, i + 1)
      <4>1. PICK j \in DOMAIN ring[n] :
              i + 1 < j /\ IsSync(ring[n][j]) /\ ring[n][j].val * Quantum <= ring[n][i + 1].val
        BY <3>3 DEF DueAfterRing
      <4>2. j - 1 \in DOMAIN ring'[n] /\ ring'[n][j - 1] = ring[n][j] /\ i < j - 1
        BY <1>2, <3>1, <4>1
      <4>3. QED
        BY <3>1, <4>1, <4>2 DEF DueAfterRing
    <3>4. CASE DueAfterSending(n, i + 1)
      BY <2>3, <2>5, <3>1, <3>4 DEF DueAfterSending
    <3>5. QED
      BY <2>1, <2>5, <3>1, <3>2, <3>3, <3>4 DEF RingDue
  <2>6. QED
    BY <2>4, <2>5
<1>5. QED
  BY <1>1, <1>4 DEF TimeInv, DueInv

\* The head of a queue of n enters the ring of its peer: a packet is due after
\* the rounds n has announced, and a SYNC goes behind the packets it follows.
LEMMA MainSendTime == ASSUME Base, NEW n \in Nodes, MainSend(n) PROVE TimeInv'
<1> DEFINE h == Head(mainOut[n])
           p == Peer(n)
<1>0. TypeOK /\ TypeOK' /\ UNCHANGED <<main, round, now, paused, pauseBh, flexusOut>>
  BY DEF Base, SyncInv, MainSend, ctl, wwt, cpu
<1>1. PauseInv' /\ ClockInv' /\ \A m \in Nodes : AnnouncedRounds(m)' = AnnouncedRounds(m)
  BY <1>0, PlaceQuiet DEF KeepsPlace
<1>2. /\ mainOut[n] \in Seq(Message) /\ mainOut[n] # <<>>
      /\ mainOut'[n] = Tail(mainOut[n])
      /\ \A m \in Nodes \ {n} : mainOut'[m] = mainOut[m]
  BY <1>0 DEF MainSend, CommSend, TypeOK
<1>3. /\ p \in Nodes /\ p # n /\ Peer(p) = n
      /\ ring[p] \in Seq(Message)
      /\ ring'[p] = Append(ring[p], h)
      /\ \A m \in Nodes \ {p} : ring'[m] = ring[m]
  BY <1>0, PeerNodes DEF MainSend, CommSend, TypeOK
<1>4. \A i \in DOMAIN mainOut'[n] : i + 1 \in DOMAIN mainOut[n] /\ mainOut'[n][i] = mainOut[n][i + 1]
  BY <1>2, TailElements
<1>5. 1 \in DOMAIN mainOut[n] /\ h = mainOut[n][1] /\ h \in Message
  BY <1>2
<1>6. \A j \in DOMAIN mainOut[n] :
        \/ mainOut[n][j] = h
        \/ j - 1 \in DOMAIN mainOut'[n] /\ mainOut'[n][j - 1] = mainOut[n][j]
  <2> SUFFICES ASSUME NEW j \in DOMAIN mainOut[n], j # 1
               PROVE  j - 1 \in DOMAIN mainOut'[n] /\ mainOut'[n][j - 1] = mainOut[n][j]
    BY <1>5
  <2>1. j - 1 \in 1 .. Len(mainOut[n]) - 1
    BY <1>2
  <2>2. QED
    BY <1>2, <2>1
<1>7. /\ \A i \in DOMAIN ring'[p] :
           \/ i \in DOMAIN ring[p] /\ ring'[p][i] = ring[p][i]
           \/ i = Len(ring[p]) + 1 /\ ring'[p][i] = h
      /\ \A i \in DOMAIN ring[p] :
           i \in DOMAIN ring'[p] /\ ring'[p][i] = ring[p][i] /\ i < Len(ring[p]) + 1
      /\ Len(ring[p]) + 1 \in DOMAIN ring'[p] /\ ring'[p][Len(ring[p]) + 1] = h
  BY <1>3, <1>5, AppendElements
<1>8. ASSUME ShouldSync, NEW m \in Nodes PROVE SentDue(m)' /\ RingDue(m)'
  <2>1. SentDue(m) /\ RingDue(m) /\ SentDue(n) /\ Peer(m) \in Nodes
    BY <1>8, PeerNodes DEF Base, TimeInv, DueInv
  <2>2. SentDue(m)'
    <3>1. CASE m # n
      BY <1>0, <1>1, <1>2, <2>1, <3>1 DEF SentDue
    <3>2. CASE m = n
      BY <1>0, <1>1, <1>4, <2>1, <3>2 DEF SentDue
    <3>3. QED
      BY <3>1, <3>2
  <2>3. CASE m # p
    <3>1. Peer(m) # n /\ ring'[m] = ring[m] /\ mainOut'[Peer(m)] = mainOut[Peer(m)]
      BY <1>2, <1>3, <2>1, <2>3, PeerNodes
    <3>2. QED
      BY <1>1, <2>1, <2>2, <3>1 DEF RingDue, DueAfterRing, DueAfterSending
  <2>4. CASE m = p
    <3> SUFFICES ASSUME NEW i \in DOMAIN ring'[p], IsNormal(ring'[p][i])
                 PROVE  \/ AnnouncedRounds(n)' * Quantum <= ring'[p][i].val
                        \/ DueAfterRing(p, i)'
                        \/ DueAfterSending(p, i)'
      BY <1>3, <2>2, <2>4 DEF RingDue
    <3>1. CASE ring'[p][i] = h
      BY <1>1, <1>5, <2>1, <3>1 DEF SentDue
    <3>2. CASE i \in DOMAIN ring[p] /\ ring'[p][i] = ring[p][i]
      <4>1. CASE AnnouncedRounds(n) * Quantum <= ring[p][i].val
        BY <1>1, <3>2, <4>1
      <4>2. CASE DueAfterRing(p, i)
        BY <1>7, <3>2, <4>2 DEF DueAfterRing
      <4>3. CASE DueAfterSending(p, i)
        <5>1. PICK j \in DOMAIN mainOut[n] :
                IsSync(mainOut[n][j]) /\ mainOut[n][j].val * Quantum <= ring[p][i].val
          BY <1>3, <4>3 DEF DueAfterSending
        <5>2. CASE mainOut[n][j] = h
          BY <1>7, <3>2, <5>1, <5>2 DEF DueAfterRing
        <5>3. CASE j - 1 \in DOMAIN mainOut'[n] /\ mainOut'[n][j - 1] = mainOut[n][j]
          BY <1>3, <3>2, <5>1, <5>3 DEF DueAfterSending
        <5>4. QED
          BY <1>6, <5>2, <5>3
      <4>4. QED
        BY <1>3, <2>1, <2>4, <3>2, <4>1, <4>2, <4>3 DEF RingDue
    <3>3. QED
      BY <1>7, <3>1, <3>2
  <2>5. QED
    BY <2>2, <2>3, <2>4
<1>9. QED
  BY <1>1, <1>8 DEF TimeInv, DueInv

\* What Flexus sends is no packet and goes behind what is there.
LEMMA FlexusSendTime == ASSUME Base, NEW n \in Nodes, FlexusSend(n) PROVE TimeInv'
<1> DEFINE h == Head(flexusOut[n])
           p == Peer(n)
<1>0. TypeOK /\ TypeOK' /\ UNCHANGED <<main, round, now, paused, pauseBh, mainOut>>
  BY DEF Base, SyncInv, FlexusSend, ctl, wwt, cpu
<1>1. PauseInv' /\ ClockInv' /\ \A m \in Nodes : AnnouncedRounds(m)' = AnnouncedRounds(m)
  BY <1>0, PlaceQuiet DEF KeepsPlace
<1>2. /\ flexusOut[n] \in Seq(Message) /\ flexusOut[n] # <<>>
      /\ flexusOut'[n] = Tail(flexusOut[n])
      /\ \A m \in Nodes \ {n} : flexusOut'[m] = flexusOut[m]
  BY <1>0 DEF FlexusSend, CommSend, TypeOK
<1>3. /\ p \in Nodes /\ ring[p] \in Seq(Message)
      /\ ring'[p] = Append(ring[p], h)
      /\ \A m \in Nodes \ {p} : ring'[m] = ring[m]
  BY <1>0, PeerNodes DEF FlexusSend, CommSend, TypeOK
<1>4. 1 \in DOMAIN flexusOut[n] /\ h = flexusOut[n][1] /\ h \in Message
  BY <1>2
<1>5. /\ \A i \in DOMAIN ring'[p] :
           \/ i \in DOMAIN ring[p] /\ ring'[p][i] = ring[p][i]
           \/ i = Len(ring[p]) + 1 /\ ring'[p][i] = h
      /\ \A i \in DOMAIN ring[p] : i \in DOMAIN ring'[p] /\ ring'[p][i] = ring[p][i]
  BY <1>3, <1>4, AppendElements
<1>6. ASSUME ShouldSync, NEW m \in Nodes PROVE SentDue(m)' /\ RingDue(m)'
  <2>1. SentDue(m) /\ RingDue(m) /\ SentDue(n) /\ Peer(m) \in Nodes
    BY <1>6, PeerNodes DEF Base, TimeInv, DueInv
  <2>2. SentDue(m)'
    <3>1. \A i \in DOMAIN flexusOut'[n] : ~IsNormal(flexusOut'[n][i])
      BY <1>2, <2>1, TailElements DEF SentDue
    <3>2. QED
      BY <1>0, <1>1, <1>2, <2>1, <3>1 DEF SentDue
  <2>3. ~IsNormal(h)
    BY <1>4, <2>1 DEF SentDue
  <2>4. \A i \in DOMAIN ring'[m] : IsNormal(ring'[m][i]) =>
          i \in DOMAIN ring[m] /\ ring'[m][i] = ring[m][i]
    BY <1>3, <1>5, <2>3
  <2>5. \A i \in DOMAIN ring[m] : i \in DOMAIN ring'[m] /\ ring'[m][i] = ring[m][i]
    BY <1>3, <1>5
  <2>6. \A i \in DOMAIN ring[m] : DueAfterRing(m, i) => DueAfterRing(m, i)'
    BY <2>5 DEF DueAfterRing
  <2>7. \A i \in DOMAIN ring[m] : DueAfterSending(m, i) => DueAfterSending(m, i)'
    BY <1>0, <2>5 DEF DueAfterSending
  <2>8. QED
    BY <1>1, <2>1, <2>2, <2>4, <2>6, <2>7 DEF RingDue
<1>7. QED
  BY <1>1, <1>6 DEF TimeInv, DueInv

-----------------------------------------------------------------------------
(* The clock, the guest and the steps of a round. *)

\* The clock stops at the end of the quantum, and is paused beyond it.
LEMMA TickTime == ASSUME Base, NEW n \in Nodes, Tick(n) PROVE TimeInv'
<1>0. TypeOK /\ UNCHANGED <<main, round, paused, pauseBh, ring, mainOut, flexusOut>>
  BY DEF Base, SyncInv, Tick, wire, cpu
<1>1. /\ now'[n] = now[n] + 1 /\ ~paused[n] /\ main[n] # "setup"
      /\ main[n] = "run" => now[n] < round[n] * Quantum
      /\ \A m \in Nodes \ {n} : now'[m] = now[m]
  BY <1>0 DEF Tick, TypeOK
<1>2. \A m \in Nodes : AnnouncedRounds(m)' = AnnouncedRounds(m)
  BY <1>0 DEF AnnouncedRounds, Announced
<1>3. PauseInv'
  BY <1>0 DEF Base, TimeInv, PauseInv
<1>4. ClockInv'
  <2> SUFFICES ASSUME ShouldSync, NEW m \in Nodes
               PROVE  /\ now'[m] <= round[m] * Quantum
                      /\ round[m] * Quantum <= now'[m] + Quantum
                      /\ main[m] \notin {"setup", "run"} =>
                           paused[m] /\ round[m] * Quantum <= now'[m]
    BY <1>0 DEF ClockInv
  <2>1. /\ now[m] <= round[m] * Quantum
        /\ round[m] * Quantum <= now[m] + Quantum
        /\ main[m] \notin {"setup", "run"} => paused[m] /\ round[m] * Quantum <= now[m]
    BY DEF Base, TimeInv, ClockInv
  <2>2. CASE m # n
    BY <1>1, <2>1, <2>2
  <2>3. CASE m = n
    <3>1. round[n] * Quantum \in Nat /\ now[n] \in Nat
      BY <1>0, MulNext DEF TypeOK
    <3>2. QED
      BY <1>1, <2>1, <2>3, <3>1, SizeAssumption
  <2>4. QED
    BY <2>2, <2>3
<1>5. DueInv'
  BY <1>0, <1>2, DueQuiet DEF KeepsMain, KeepsFlexus
<1>6. QED
  BY <1>3, <1>4, <1>5 DEF TimeInv

\* A packet is due one latency ahead, which is after the rounds announced.
LEMMA SendPacketTime == ASSUME Base, NEW n \in Nodes, SendPacket(n) PROVE TimeInv'
<1> DEFINE p == Peer(n)
<1>0. TypeOK /\ TypeOK' /\ UNCHANGED <<main, round, now, paused, pauseBh, ring, flexusOut>>
  BY DEF Base, SyncInv, SendPacket, Packet, ctl, cpu
<1>1. PauseInv' /\ ClockInv' /\ \A m \in Nodes : AnnouncedRounds(m)' = AnnouncedRounds(m)
  BY <1>0, PlaceQuiet DEF KeepsPlace
<1>2. /\ mainOut[n] = <<>> /\ main[n] \in {"run", "armed"}
      /\ mainOut'[n] = <<Msg("NORMAL", now[n] + Quantum)>>
      /\ \A m \in Nodes \ {n} : mainOut'[m] = mainOut[m]
  BY <1>0 DEF SendPacket, Packet, InEventLoop, MainReady, TypeOK
<1>3. ShouldSync => AnnouncedRounds(n) * Quantum <= now[n] + Quantum
  <2> SUFFICES ASSUME ShouldSync PROVE AnnouncedRounds(n) * Quantum <= now[n] + Quantum
    OBVIOUS
  <2>1. /\ round[n] * Quantum <= now[n] + Quantum
        /\ main[n] \notin {"setup", "run"} => round[n] * Quantum <= now[n]
    BY DEF Base, TimeInv, ClockInv
  <2>2. round[n] \in Nat /\ now[n] \in Nat
    BY <1>0 DEF TypeOK
  <2>3. CASE main[n] = "run"
    BY <2>1, <2>3 DEF AnnouncedRounds, Announced
  <2>4. CASE main[n] = "armed"
    <3>1. AnnouncedRounds(n) = round[n] + 1
      BY <2>4 DEF AnnouncedRounds, Announced
    <3>2. (round[n] + 1) * Quantum = round[n] * Quantum + Quantum /\ round[n] * Quantum \in Nat
      BY <2>2, MulNext
    <3>3. round[n] * Quantum + Quantum <= now[n] + Quantum
      BY <2>1, <2>2, <2>4, <3>2, SizeAssumption
    <3>4. QED
      BY <3>1, <3>2, <3>3
  <2>5. QED
    BY <1>2, <2>3, <2>4
<1>4. ASSUME ShouldSync, NEW m \in Nodes PROVE SentDue(m)' /\ RingDue(m)'
  <2>1. SentDue(m) /\ RingDue(m) /\ Peer(m) \in Nodes
    BY <1>4, PeerNodes DEF Base, TimeInv, DueInv
  <2>2. SentDue(m)'
    <3>1. CASE m # n
      BY <1>0, <1>1, <1>2, <2>1, <3>1 DEF SentDue
    <3>2. CASE m = n
      BY <1>0, <1>1, <1>2, <1>3, <1>4, <2>1, <3>2 DEF SentDue, Msg
    <3>3. QED
      BY <3>1, <3>2
  <2>3. \A i \in DOMAIN ring[m] : DueAfterSending(m, i) => DueAfterSending(m, i)'
    BY <1>0, <1>2, <2>1 DEF DueAfterSending
  <2>4. QED
    BY <1>0, <1>1, <2>1, <2>2, <2>3 DEF RingDue, DueAfterRing
<1>5. QED
  BY <1>1, <1>4 DEF TimeInv, DueInv

\* A step that leaves the messages where they are and announces no round.
LEMMA DueSame ==
  ASSUME Base, UNCHANGED <<ring, mainOut, flexusOut>>,
         \A m \in Nodes : AnnouncedRounds(m)' = AnnouncedRounds(m)
  PROVE  DueInv'
BY DueQuiet DEF KeepsMain, KeepsFlexus

\* setup_wwt arms the first quantum, at whose end the clock stands.
LEMMA SetupTime == ASSUME Base, NEW n \in Nodes, SetupWWT(n) PROVE TimeInv'
<1>0. TypeOK /\ UNCHANGED <<round, now, paused, pauseBh, ring, mainOut, flexusOut>>
  BY DEF Base, SyncInv, SetupWWT, wire, cpu
<1>1. /\ main[n] = "setup" /\ main'[n] = "run"
      /\ \A m \in Nodes \ {n} : main'[m] = main[m]
  BY <1>0 DEF SetupWWT, TypeOK
<1>2. PauseInv'
  BY <1>0, <1>1 DEF Base, TimeInv, PauseInv
<1>3. ClockInv'
  BY <1>0, <1>1 DEF Base, TimeInv, ClockInv
<1>4. \A m \in Nodes : AnnouncedRounds(m)' = AnnouncedRounds(m)
  BY <1>0, <1>1 DEF AnnouncedRounds, Announced
<1>5. QED
  BY <1>0, <1>2, <1>3, <1>4, DueSame DEF TimeInv

\* quanta_sync runs at the end of the quantum and pauses the clock.
LEMMA QuantaSyncTime == ASSUME Base, NEW n \in Nodes, QuantaSync(n) PROVE TimeInv'
<1>0. TypeOK /\ UNCHANGED <<round, now, ring, mainOut, flexusOut>>
  BY DEF Base, SyncInv, QuantaSync, Pause, wire
<1>1. /\ main[n] = "run" /\ main'[n] = "notify" /\ now[n] >= round[n] * Quantum
      /\ ShouldSync => paused'[n]
      /\ \A m \in Nodes \ {n} :
           main'[m] = main[m] /\ paused'[m] = paused[m] /\ pauseBh'[m] = pauseBh[m]
  BY <1>0 DEF QuantaSync, Pause, TypeOK
<1>2. PauseInv'
  BY <1>1 DEF Base, TimeInv, PauseInv
<1>3. ClockInv'
  <2> SUFFICES ASSUME ShouldSync, NEW m \in Nodes
               PROVE  /\ now[m] <= round[m] * Quantum
                      /\ round[m] * Quantum <= now[m] + Quantum
                      /\ main'[m] \notin {"setup", "run"} =>
                           paused'[m] /\ round[m] * Quantum <= now[m]
    BY <1>0 DEF ClockInv
  <2>1. /\ now[m] <= round[m] * Quantum
        /\ round[m] * Quantum <= now[m] + Quantum
        /\ main[m] \notin {"setup", "run"} => paused[m] /\ round[m] * Quantum <= now[m]
    BY DEF Base, TimeInv, ClockInv
  <2>2. round[n] * Quantum \in Nat /\ now[n] \in Nat
    BY <1>0, MulNext DEF TypeOK
  <2>3. round[n] * Quantum <= now[n]
    BY <1>1, <2>2
  <2>4. QED
    BY <1>1, <2>1, <2>3
<1>4. \A m \in Nodes : AnnouncedRounds(m)' = AnnouncedRounds(m)
  BY <1>0, <1>1 DEF AnnouncedRounds, Announced
<1>5. QED
  BY <1>0, <1>2, <1>3, <1>4, DueSame DEF TimeInv

\* The next quantum begins where the last has ended.
LEMMA AdvanceTime == ASSUME Base, NEW n \in Nodes, Advance(n) PROVE TimeInv'
<1>0. TypeOK /\ UNCHANGED <<now, pauseBh, ring, mainOut, flexusOut>>
  BY DEF Base, SyncInv, Advance, Play, wire
<1>1. /\ main[n] = "advance" /\ main'[n] = "run" /\ round'[n] = round[n] + 1
      /\ \A m \in Nodes \ {n} :
           main'[m] = main[m] /\ paused'[m] = paused[m] /\ round'[m] = round[m]
  BY <1>0 DEF Advance, Play, MainAt, TypeOK
<1>2. PauseInv'
  BY <1>0, <1>1 DEF Base, TimeInv, PauseInv
<1>3. ClockInv'
  <2> SUFFICES ASSUME ShouldSync, NEW m \in Nodes
               PROVE  /\ now[m] <= round'[m] * Quantum
                      /\ round'[m] * Quantum <= now[m] + Quantum
                      /\ main'[m] \notin {"setup", "run"} =>
                           paused'[m] /\ round'[m] * Quantum <= now[m]
    BY <1>0 DEF ClockInv
  <2>1. /\ now[m] <= round[m] * Quantum
        /\ round[m] * Quantum <= now[m] + Quantum
        /\ main[m] \notin {"setup", "run"} => paused[m] /\ round[m] * Quantum <= now[m]
    BY DEF Base, TimeInv, ClockInv
  <2>2. CASE m # n
    BY <1>1, <2>1, <2>2
  <2>3. CASE m = n
    <3>1. /\ (round[n] + 1) * Quantum = round[n] * Quantum + Quantum
          /\ round[n] * Quantum \in Nat /\ now[n] \in Nat
      BY <1>0, MulNext DEF TypeOK
    <3>2. /\ now[n] <= round[n] * Quantum + Quantum
          /\ round[n] * Quantum + Quantum <= now[n] + Quantum
      BY <1>1, <2>1, <2>3, <3>1, SizeAssumption
    <3>3. round'[m] * Quantum = round[n] * Quantum + Quantum
      BY <1>1, <2>3, <3>1
    <3>4. QED
      BY <1>1, <2>3, <3>2, <3>3
  <2>4. QED
    BY <2>2, <2>3
<1>4. \A m \in Nodes : AnnouncedRounds(m)' = AnnouncedRounds(m)
  BY <1>0, <1>1 DEF AnnouncedRounds, Announced
<1>5. QED
  BY <1>0, <1>2, <1>3, <1>4, DueSame DEF TimeInv

\* What notify_neighbors_for_drain sends is not a packet; and what else the main
\* thread sends for the checkpoint and the end.
LEMMA NoPacket ==
  ASSUME NEW n \in Nodes
  PROVE  /\ NoNormal(<<>>)
         /\ \A t \in MsgTypes \ {"NORMAL"}, v \in Nat : NoNormal(<<Msg(t, v)>>)
         /\ NoNormal(DrainStart(n)) /\ NoNormal(DrainMessages(n))
         /\ \A e \in ExitFields : NoNormal(EndIfPermitted(e)) /\ NoNormal(NotifyEndMessages(e))
<1>1. NoNormal(<<>>)
  BY DEF NoNormal
<1>2. ASSUME NEW t, NEW v, t # "NORMAL" PROVE NoNormal(<<Msg(t, v)>>)
  BY <1>2 DEF NoNormal, IsNormal, Msg
<1>3. NoNormal(DrainStart(n)) /\ NoNormal(DrainMessages(n))
  BY <1>1, <1>2 DEF DrainStart, DrainMessages
<1>4. \A e : NoNormal(EndIfPermitted(e)) /\ NoNormal(NotifyEndMessages(e))
  BY <1>1, <1>2 DEF EndIfPermitted, NotifyEndMessages
<1>5. QED
  BY <1>1, <1>2, <1>3, <1>4

\* Two lists without packets, sent together.
LEMMA NoPacketJoined ==
  ASSUME NEW s \in Seq(Message), NEW t \in Seq(Message), NoNormal(s), NoNormal(t)
  PROVE  NoNormal(s \o t)
BY JoinElements DEF NoNormal

\* A packet that was due after the rounds announced is due after the SYNC that
\* now announces one more behind it.
LEMMA NotifyAndSyncTime == ASSUME Base, NEW n \in Nodes, NotifyAndSync(n) PROVE TimeInv'
<1> DEFINE p == Peer(n)
           d == DrainStart(n)
<1>0. TypeOK /\ TypeOK' /\ UNCHANGED <<round, now, paused, pauseBh, ring, flexusOut>>
  BY DEF Base, SyncInv, NotifyAndSync, SyncMessage, wwt, cpu
<1>1. /\ main[n] = "notify" /\ main'[n] = "armed" /\ mainOut[n] = <<>>
      /\ \A m \in Nodes \ {n} : main'[m] = main[m] /\ mainOut'[m] = mainOut[m]
  BY <1>0 DEF NotifyAndSync, SyncMessage, MainAt, MainReady, TypeOK
<1>2. /\ AnnouncedRounds(n) = round[n] /\ round[n] \in Nat
      /\ \A m \in Nodes \ {n} : AnnouncedRounds(m)' = AnnouncedRounds(m)
      /\ p \in Nodes /\ p # n /\ Peer(p) = n
  BY <1>0, <1>1, PeerNodes DEF AnnouncedRounds, Announced, TypeOK
<1>3. PauseInv'
  BY <1>0, <1>1 DEF Base, TimeInv, PauseInv
<1>4. ClockInv'
  BY <1>0, <1>1 DEF Base, TimeInv, ClockInv
<1>5. ASSUME ShouldSync PROVE mainOut'[n] = d \o <<Msg("SYNC", round[n])>>
  BY <1>0, <1>5 DEF NotifyAndSync, SyncMessage, TypeOK
<1>6. d \in Seq(Message) /\ NoNormal(d) /\ <<Msg("SYNC", round[n])>> \in Seq(Message)
      /\ NoNormal(<<Msg("SYNC", round[n])>>)
  BY <1>0, <1>2, NoPacket, DrainType, MsgSeq DEF MsgTypes
<1>7. ASSUME ShouldSync, NEW m \in Nodes PROVE SentDue(m)' /\ RingDue(m)'
  <2>1. SentDue(m) /\ RingDue(m) /\ Peer(m) \in Nodes
    BY <1>7, PeerNodes DEF Base, TimeInv, DueInv
  <2>2. SentDue(m)'
    <3>1. CASE m # n
      BY <1>0, <1>1, <1>2, <2>1, <3>1 DEF SentDue
    <3>2. CASE m = n
      <4>1. NoNormal(mainOut'[n])
        BY <1>5, <1>6, <1>7, NoPacketJoined
      <4>2. QED
        BY <1>0, <2>1, <3>2, <4>1 DEF SentDue, NoNormal
    <3>3. QED
      BY <3>1, <3>2
  <2>3. CASE m = n
    BY <1>0, <1>1, <1>2, <2>1, <2>2, <2>3 DEF RingDue, DueAfterRing, DueAfterSending
  <2>4. CASE m # n
    <3>1. m = p /\ Peer(m) = n
      BY <1>2, <2>4, PeerNodes DEF Nodes
    <3>2. \A i : ~DueAfterSending(m, i)
      BY <1>1, <3>1 DEF DueAfterSending
    <3>3. PICK j \in DOMAIN mainOut'[n] : mainOut'[n][j] = Msg("SYNC", round[n])
      <4> DEFINE s == <<Msg("SYNC", round[n])>>
      <4>1. Len(d) + 1 \in DOMAIN (d \o s) /\ (d \o s)[Len(d) + 1] = s[1]
        BY <1>6
      <4>2. QED
        BY <1>5, <1>7, <4>1
    <3>4. ASSUME NEW i \in DOMAIN ring[m], round[n] * Quantum <= ring[m][i].val
          PROVE  DueAfterSending(m, i)'
      BY <1>0, <3>1, <3>3, <3>4 DEF DueAfterSending, IsSync, Msg
    <3>5. QED
      BY <1>0, <1>2, <2>1, <2>2, <3>1, <3>2, <3>4 DEF RingDue, DueAfterRing
  <2>5. QED
    BY <2>2, <2>3, <2>4
<1>8. QED
  BY <1>3, <1>4, <1>7 DEF TimeInv, DueInv

-----------------------------------------------------------------------------
(* The other steps. *)

\* A message that is no packet is left for n's main thread, or Flexus, to send.
LEMMA KeepsWhen ==
  ASSUME TypeOK, NEW n \in Nodes, NEW s, NoNormal(s)
  PROVE  /\ mainOut[n] = <<>> /\ mainOut' = [mainOut EXCEPT ![n] = s]
              => \A m \in Nodes : KeepsMain(m)
         /\ flexusOut' = [flexusOut EXCEPT ![n] = s] => \A m \in Nodes : KeepsFlexus(m)
BY DEF TypeOK, KeepsMain, KeepsFlexus

\* Receiving a message of any type.
LEMMA ReceiveAnyTime == ASSUME Base, NEW n \in Nodes, Receive(n) PROVE TimeInv'
<1>0. TypeOK
  BY DEF Base, SyncInv
<1> DEFINE Keeps == \A m \in Nodes : KeepsMain(m)
           Took == \E t \in MsgTypes : Receiving(n, t)
           Rest == UNCHANGED <<main, round, now, paused, pauseBh, flexusOut>>
<1>1. Took /\ Rest /\ Keeps => TimeInv'
  BY ReceiveTime
<1>2. UNCHANGED mainOut => Keeps
  BY DEF KeepsMain
<1>3. CASE RecvNormal(n) \/ RecvSync(n) \/ RecvEnd(n)
  BY <1>1, <1>2, <1>3 DEF RecvNormal, RecvSync, RecvEnd, MsgTypes, cpu, wwt
<1>4. CASE RecvDrainStart(n) \/ RecvDrainEnd(n) \/ RecvInitStep(n) \/ RecvIntent(n)
  BY <1>1, <1>2, <1>4 DEF RecvDrainStart, RecvDrainEnd, RecvInitStep, RecvIntent,
     MsgTypes, ctl, cpu, wwt
<1>5. CASE RecvPermission(n)
  <2> DEFINE e == [ex[n] EXCEPT !.permitted = TRUE]
  <2>1. ex[n] \in ExitFields
    BY <1>0 DEF TypeOK
  <2>2. e \in ExitFields
    BY <2>1 DEF ExitFields
  <2>3. mainOut[n] = <<>> /\ mainOut' = [mainOut EXCEPT ![n] = EndIfPermitted(e)]
    BY <1>5 DEF RecvPermission, Receiving, MainReady
  <2>4. Keeps
    BY <1>0, <2>2, <2>3, NoPacket, KeepsWhen
  <2>5. QED
    BY <1>1, <1>5, <2>4 DEF RecvPermission, MsgTypes, ctl, cpu, wwt
<1>6. CASE PollDone(n)
  BY <1>6, TimeQuiet DEF PollDone, wire, cpu, wwt, KeepsPlace, KeepsMain, KeepsFlexus
<1>7. QED
  BY <1>3, <1>4, <1>5, <1>6 DEF Receive

\* The checkpoint is taken once the pause's own bottom half has run.
LEMMA CheckpointTime == ASSUME Base, NEW n \in Nodes, CheckpointBH(n) PROVE TimeInv'
<1>0. TypeOK /\ UNCHANGED <<round, now, paused, pauseBh, ring, flexusOut>>
  BY DEF Base, SyncInv, CheckpointBH, cpu, wwt
<1>1. main[n] \in {"armed", "closing"} /\ ~pauseBh[n] /\ mainOut[n] = <<>>
  BY DEF CheckpointBH, Base, BhInv, InEventLoop, MainReady
<1>2. \A m \in Nodes : KeepsPlace(m)
  BY <1>0, <1>1 DEF CheckpointBH, TypeOK, KeepsPlace
<1>3. \A m \in Nodes : KeepsMain(m)
  <2> DEFINE s == DrainMessages(n) \o NotifyEndMessages(ex[n])
  <2>1. ex[n] \in ExitFields
    BY <1>0 DEF TypeOK
  <2>2. NoNormal(s)
    BY <1>0, <2>1, NoPacket, NoPacketJoined, EndType, DrainType
  <2>3. UNCHANGED mainOut \/ mainOut' = [mainOut EXCEPT ![n] = s]
    BY Zenon DEF CheckpointBH
  <2>4. UNCHANGED mainOut => \A m \in Nodes : KeepsMain(m)
    BY DEF KeepsMain
  <2>5. QED
    BY <1>0, <1>1, <2>2, <2>3, <2>4, KeepsWhen
<1>4. QED
  BY <1>0, <1>2, <1>3, TimeQuiet DEF KeepsFlexus

\* What QEMU's main loop dispatches.
LEMMA DispatchTime == ASSUME Base, NEW n \in Nodes, Dispatch(n) PROVE TimeInv'
<1>0. TypeOK
  BY DEF Base, SyncInv
<1>1. CASE HostPoll(n)
  BY <1>1, TimeQuiet DEF HostPoll, wire, cpu, KeepsPlace, KeepsMain, KeepsFlexus
<1>2. CASE PauseBh(n)
  <2>1. UNCHANGED <<main, round, now, paused, ring, mainOut, flexusOut>>
    BY <1>2 DEF PauseBh, ctl, wire, wwt
  <2>2. \A m \in Nodes : pauseBh'[m] => pauseBh[m]
    BY <1>0, <1>2 DEF PauseBh, TypeOK
  <2>3. \A m \in Nodes : AnnouncedRounds(m)' = AnnouncedRounds(m)
    BY <2>1 DEF AnnouncedRounds, Announced
  <2>4. PauseInv' /\ ClockInv'
    BY <2>1, <2>2 DEF Base, TimeInv, PauseInv, ClockInv
  <2>5. QED
    BY <2>1, <2>3, <2>4, DueSame DEF TimeInv
<1>3. CASE CheckpointBH(n)
  BY <1>3, CheckpointTime
<1>4. CASE SetupWWT(n)
  BY <1>4, SetupTime
<1>5. CASE Deliver(n)
  BY <1>5, TimeQuiet DEF Deliver, ctl, wire, cpu, KeepsPlace, KeepsMain, KeepsFlexus
<1>6. CASE QuantaSync(n)
  BY <1>6, QuantaSyncTime
<1>7. CASE SyncCheck(n)
  <2>1. \A m \in Nodes : KeepsPlace(m)
    BY <1>0, <1>7 DEF SyncCheck, BhPending, TypeOK, KeepsPlace
  <2>2. QED
    BY <1>7, <2>1, TimeQuiet DEF SyncCheck, wire, cpu, wwt, KeepsMain, KeepsFlexus
<1>8. QED
  BY <1>1, <1>2, <1>3, <1>4, <1>5, <1>6, <1>7 DEF Dispatch

\* wwt_sync_check, during which no pause is pending.
LEMMA BoundaryTime == ASSUME Base, NEW n \in Nodes, Boundary(n) PROVE TimeInv'
<1>0. TypeOK
  BY DEF Base, SyncInv
<1> DEFINE Quietly == UNCHANGED <<round, now, paused, pauseBh, ring, flexusOut>>
           Places == \A m \in Nodes : KeepsPlace(m)
           Keeps == \A m \in Nodes : KeepsMain(m)
<1>1. Quietly /\ Places /\ Keeps => TimeInv'
  BY TimeQuiet DEF KeepsFlexus
<1>2. UNCHANGED mainOut => Keeps
  BY DEF KeepsMain
<1>3. UNCHANGED main => Places
  BY DEF KeepsPlace
<1>4. ASSUME main[n] \in PassedWait \cup {"check", "spin"}, NEW s \in MainStates,
             s \notin {"setup", "run", "notify"}, main' = [main EXCEPT ![n] = s]
      PROVE  Places
  <2>1. ~pauseBh[n]
    BY <1>4 DEF Base, TimeInv, PauseInv, PassedWait
  <2>2. QED
    BY <1>0, <1>4, <2>1 DEF TypeOK, KeepsPlace, PassedWait
<1>5. CASE NotifyAndSync(n)
  BY <1>5, NotifyAndSyncTime
<1>6. CASE Advance(n)
  BY <1>6, AdvanceTime
<1>7. CASE CheckCount(n) \/ SpinOn(n) \/ BoundaryCheckpoint(n) \/ BoundaryPass(n) \/ Permit(n)
  <2>1. Places
    BY <1>4, <1>7 DEF CheckCount, SpinOn, BoundaryCheckpoint, BoundaryPass, Permit, MainAt,
       PassedWait, MainStates
  <2>2. QED
    BY <1>1, <1>2, <1>7, <2>1 DEF CheckCount, SpinOn, BoundaryCheckpoint, BoundaryPass,
       Permit, wire, wwt, cpu
<1>8. CASE SpinStop(n) \/ BoundaryTooLate(n) \/ Exit(n)
  BY <1>1, <1>2, <1>3, <1>8 DEF SpinStop, BoundaryTooLate, Exit, wire, wwt, cpu
<1>9. CASE SpinDestroy(n)
  <2>0. \/ main' = [main EXCEPT ![n] = "closing"]
        \/ main' = [main EXCEPT ![n] = "exiting"]
    BY <1>9, Zenon DEF SpinDestroy, Destroy, CloseAfterCheckpoint, CloseNow
  <2>1. Places
    BY <1>4, <1>9, <2>0 DEF SpinDestroy, MainAt, MainStates
  <2>2. ex[n] \in ExitFields
    BY <1>0 DEF TypeOK
  <2>3. Keeps
    BY <1>0, <1>9, <2>2, NoPacket, KeepsWhen DEF SpinDestroy, Destroy, MainAt, MainReady
  <2>4. QED
    BY <1>1, <1>9, <2>1, <2>3 DEF SpinDestroy, wwt, cpu
<1>10. CASE BoundaryNotify(n)
  <2>1. Keeps
    BY <1>0, <1>10, NoPacket, KeepsWhen DEF BoundaryNotify, MainAt, MainReady
  <2>2. QED
    BY <1>1, <1>3, <1>10, <2>1 DEF BoundaryNotify, ctl, wwt, cpu
<1>11. CASE PermitGrant(n)
  <2>1. Places
    BY <1>4, <1>11 DEF PermitGrant, MainAt, PassedWait, MainStates
  <2>2. NoNormal(<<Msg("PERMISSION", 0)>>)
    BY NoPacket DEF MsgTypes
  <2>3. Keeps
    BY <1>0, <1>11, <2>2, KeepsWhen DEF PermitGrant, MainAt, MainReady
  <2>4. QED
    BY <1>1, <1>11, <2>1, <2>3 DEF PermitGrant, wwt, cpu
<1>12. CASE PermitEnd(n)
  <2>1. Places
    BY <1>4, <1>12 DEF PermitEnd, MainAt, PassedWait, MainStates
  <2>2. ex[n] \in ExitFields
    BY <1>0 DEF TypeOK
  <2>3. Keeps
    BY <1>0, <1>12, <2>2, NoPacket, KeepsWhen DEF PermitEnd, MainAt, MainReady
  <2>4. QED
    BY <1>1, <1>12, <2>1, <2>3 DEF PermitEnd, wwt, cpu
<1>13. QED
  BY <1>5, <1>6, <1>7, <1>8, <1>9, <1>10, <1>11, <1>12 DEF Boundary

\* Flexus sends no packet and moves no clock but by Tick.
LEMMA FlexusTime ==
  ASSUME Base, NEW n \in Nodes, FlexusThread(n) \/ FinishInitiate(n) PROVE TimeInv'
<1>0. TypeOK
  BY DEF Base, SyncInv
<1> DEFINE Quietly == UNCHANGED <<main, round, now, paused, pauseBh, ring, mainOut>>
           Keeps == \A m \in Nodes : KeepsFlexus(m)
<1>1. Quietly /\ Keeps => TimeInv'
  BY TimeQuiet DEF KeepsPlace, KeepsMain
<1>2. UNCHANGED flexusOut => Keeps
  BY DEF KeepsFlexus
<1>3. ASSUME NEW t \in MsgTypes \ {"NORMAL"},
             flexusOut' \in {[flexusOut EXCEPT ![n] = <<>>],
                             [flexusOut EXCEPT ![n] = <<Msg(t, 0)>>]}
      PROVE  Keeps
  BY <1>0, <1>3, NoPacket, KeepsWhen
<1>4. CASE FlexusSend(n)
  BY <1>4, FlexusSendTime
<1>5. CASE CanStop(n)
  <2>1. \/ UNCHANGED flexusOut
        \/ flexusOut' = [flexusOut EXCEPT ![n] = <<>>]
        \/ flexusOut' = [flexusOut EXCEPT ![n] = <<Msg("INTENT", 0)>>]
    BY <1>5, Zenon DEF CanStop
  <2>2. Keeps
    BY <1>2, <1>3, <2>1 DEF MsgTypes
  <2>3. QED
    BY <1>1, <1>5, <2>2 DEF CanStop, wwt, cpu
<1>6. CASE CanStopGrant(n)
  <2>1. Keeps
    BY <1>3, <1>6 DEF CanStopGrant, MsgTypes
  <2>2. QED
    BY <1>1, <1>6, <2>1 DEF CanStopGrant, wwt, cpu
<1>7. CASE CanStopEnd(n)
  <2>1. ex[n] \in ExitFields
    BY <1>0 DEF TypeOK
  <2>2. Keeps
    BY <1>0, <1>7, <2>1, NoPacket, KeepsWhen DEF CanStopEnd
  <2>3. QED
    BY <1>1, <1>7, <2>2 DEF CanStopEnd, wwt, cpu
<1>8. CASE CanStopAnswer(n) \/ SetCheckpointFlags(n) \/ SetCheckpointRound(n)
  BY <1>1, <1>2, <1>8 DEF CanStopAnswer, SetCheckpointFlags, SetCheckpointRound, wire, wwt, cpu
<1>9. CASE FinishInitiate(n)
  <2>1. \/ UNCHANGED flexusOut
        \/ flexusOut' = [flexusOut EXCEPT ![n] = <<Msg("INIT_STEP", 0)>>]
    BY <1>9, Zenon DEF FinishInitiate
  <2>2. Keeps
    BY <1>2, <1>3, <2>1 DEF MsgTypes
  <2>3. QED
    BY <1>1, <1>9, <2>2 DEF FinishInitiate, wwt, cpu
<1>10. QED
  BY <1>4, <1>5, <1>6, <1>7, <1>8, <1>9 DEF FlexusThread

\* The first quantum is of length 0: both clocks stand at its end.
LEMMA TimeInitial == Init => TimeInv
<1> SUFFICES ASSUME Init PROVE TimeInv
  OBVIOUS
<1>1. PauseInv
  BY DEF Init, InitWWT, InitEngine, PauseInv
<1>2. ClockInv
  <2>1. 0 * Quantum = 0 /\ 0 <= Quantum
    BY SizeAssumption
  <2>2. \A n \in Nodes : round[n] = 0 /\ now[n] = 0 /\ main[n] = "setup"
    BY DEF Init, InitWWT, InitEngine
  <2>3. QED
    BY <2>1, <2>2, SizeAssumption DEF ClockInv
<1>3. DueInv
  BY DEF Init, InitWWT, InitEngine, DueInv, SentDue, RingDue
<1>4. QED
  BY <1>1, <1>2, <1>3 DEF TimeInv

\* Every step keeps it.
LEMMA TimeStep == ASSUME SyncInv, BhInv, TimeInv, [Next]_vars PROVE TimeInv'
<1>0. Base
  BY TypeStep DEF Base, SyncInv
<1>1. CASE UNCHANGED vars
  <2>1. UNCHANGED <<main, round, now, paused, pauseBh, ring, mainOut, flexusOut>>
    BY <1>1 DEF vars, ctl, wire, wwt, cpu
  <2>2. QED
    BY <1>0, <2>1, TimeQuiet DEF KeepsPlace, KeepsMain, KeepsFlexus
<1>2. ASSUME NEW n \in Nodes, MainThread(n) PROVE TimeInv'
  BY <1>0, <1>2, MainSendTime, ReceiveAnyTime, DispatchTime, BoundaryTime DEF MainThread
<1>3. ASSUME NEW n \in Nodes, FlexusThread(n) \/ FinishInitiate(n) PROVE TimeInv'
  BY <1>0, <1>3, FlexusTime
<1>4. ASSUME NEW n \in Nodes, Tick(n) \/ SendPacket(n) PROVE TimeInv'
  BY <1>0, <1>4, TickTime, SendPacketTime
<1>5. QED
  BY <1>1, <1>2, <1>3, <1>4 DEF Next

-----------------------------------------------------------------------------
(* What follows from it. *)

\* A process is at most one round ahead of what its peer has announced.
LEMMA PeerAnnounced ==
  ASSUME SyncInv, ShouldSync, NEW n \in Nodes
  PROVE  round[n] <= AnnouncedRounds(Peer(n)) /\ AnnouncedRounds(Peer(n)) \in Nat
<1>0. Peer(n) \in Nodes /\ round[n] \in Nat /\ round[Peer(n)] \in Nat
  BY PeerNodes DEF SyncInv, TypeOK
<1>1. AnnouncedRounds(Peer(n)) \in Nat
  BY <1>0 DEF AnnouncedRounds
<1>2. CASE round[n] = 0
  BY <1>0, <1>1, <1>2
<1>3. CASE round[n] # 0
  <2>1. round[n] - 1 \in synced[n]
    BY <1>0, <1>3 DEF SyncInv, CountInv
  <2>2. round[n] - 1 < AnnouncedRounds(Peer(n))
    BY <2>1 DEF SyncInv, CountInv
  <2>3. QED
    BY <1>0, <1>1, <2>2
<1>4. QED
  BY <1>2, <1>3

\* The packet at the head of the ring of n is not late.
LEMMA HeadNotLate ==
  ASSUME SyncInv, TimeInv, ShouldSync, NEW n \in Nodes, Receiving(n, "NORMAL")
  PROVE  now[n] <= Head(ring[n]).val
<1> DEFINE p == Peer(n)
<1>0. TypeOK
  BY DEF SyncInv
<1>1. 1 \in DOMAIN ring[n] /\ Head(ring[n]) = ring[n][1] /\ ring[n] \in Seq(Message)
  <2>1. ring[n] \in Seq(Message) /\ ring[n] # <<>>
    BY <1>0 DEF Receiving, TypeOK
  <2>2. QED
    BY <2>1
<1>2. ring[n][1].val \in Nat /\ IsNormal(ring[n][1])
  <2>1. ring[n][1] \in Message
    BY <1>1
  <2>2. QED
    BY <1>1, <2>1 DEF Message, Receiving, IsNormal
<1>3. now[n] \in Nat /\ round[n] \in Nat /\ now[n] <= round[n] * Quantum
  BY <1>0 DEF TypeOK, TimeInv, ClockInv
<1>4. round[n] * Quantum \in Nat
  BY <1>3, MulNext
<1>5. ASSUME NEW q \in Nat, round[n] <= q, q * Quantum <= ring[n][1].val
      PROVE  now[n] <= ring[n][1].val
  <2>1. round[n] * Quantum <= q * Quantum /\ q * Quantum \in Nat
    BY <1>3, <1>5, MulMono, MulNext
  <2>2. QED
    BY <1>2, <1>3, <1>4, <1>5, <2>1
<1>6. ASSUME NEW m \in Message, IsSync(m), m.val \notin synced[n] PROVE round[n] <= m.val /\ m.val \in Nat
  <2>1. m.val \in Nat
    BY DEF Message
  <2>2. QED
    BY <1>3, <1>6, <2>1 DEF SyncInv, CountInv
<1>7. RingDue(n) /\ RingAnnounced(n) /\ SendsAnnounced(p) /\ Peer(p) = n /\ p \in Nodes
  BY PeerNodes DEF TimeInv, DueInv, SyncInv, RingInv, SendingInv
<1>8. CASE AnnouncedRounds(p) * Quantum <= ring[n][1].val
  BY <1>5, <1>8, PeerAnnounced
<1>9. CASE DueAfterRing(n, 1)
  <2>1. PICK j \in DOMAIN ring[n] :
          IsSync(ring[n][j]) /\ ring[n][j].val * Quantum <= ring[n][1].val
    BY <1>9 DEF DueAfterRing
  <2>2. ring[n][j] \in Message /\ ring[n][j].val \notin synced[n]
    BY <1>1, <1>7, <2>1 DEF RingAnnounced
  <2>3. QED
    BY <1>5, <1>6, <2>1, <2>2
<1>10. CASE DueAfterSending(n, 1)
  <2>1. PICK j \in DOMAIN mainOut[p] :
          IsSync(mainOut[p][j]) /\ mainOut[p][j].val * Quantum <= ring[n][1].val
    BY <1>10 DEF DueAfterSending
  <2>2. mainOut[p] \in Seq(Message)
    BY <1>0, <1>7 DEF TypeOK
  <2>3. mainOut[p][j] \in Message /\ mainOut[p][j].val \notin synced[n]
    BY <1>7, <2>1, <2>2 DEF SendsAnnounced
  <2>4. QED
    BY <1>5, <1>6, <2>1, <2>3
<1>11. QED
  BY <1>1, <1>2, <1>7, <1>8, <1>9, <1>10 DEF RingDue

\* Neither assertion fails at any step.
LEMMA AssertionsHold ==
  ASSUME SyncInv, TimeInv, NoPastPacket, NoStalePause, [Next]_vars
  PROVE  NoPastPacket' /\ NoStalePause'
<1>0. TypeOK
  BY DEF SyncInv
<1> DEFINE Fine == \A m \in Nodes :
             status'[m] = status[m] \/ status'[m] \notin {"abort_past", "abort_pause"}
<1>1. Fine => NoPastPacket' /\ NoStalePause'
  BY DEF NoPastPacket, NoStalePause
<1>2. ASSUME NEW n, NEW s, s \notin {"abort_past", "abort_pause"},
             status' = status \/ status' = [status EXCEPT ![n] = s]
      PROVE  Fine
  BY <1>0, <1>2 DEF TypeOK
<1>3. CASE UNCHANGED status
  BY <1>1, <1>3
<1>4. ASSUME NEW n \in Nodes, Receive(n) PROVE Fine
  <2>1. CASE RecvNormal(n)
    <3>1. ~(ShouldSync /\ Head(ring[n]).val < now[n])
      <4>1. Head(ring[n]).val \in Nat /\ now[n] \in Nat
        BY <1>0, <2>1, ReceiveType DEF RecvNormal, MsgTypes, TypeOK
      <4>2. QED
        BY <2>1, <4>1, HeadNotLate DEF RecvNormal
    <3>2. QED
      BY <2>1, <3>1 DEF RecvNormal
  <2>2. CASE RecvSync(n)
    BY <1>2, <2>2 DEF RecvSync, Abort
  <2>3. CASE RecvEnd(n)
    BY <1>2, <2>3 DEF RecvEnd, Abort
  <2>4. QED
    BY <1>4, <2>1, <2>2, <2>3 DEF Receive, RecvDrainStart, RecvDrainEnd, RecvInitStep,
       RecvIntent, RecvPermission, PollDone, ctl
<1>5. ASSUME NEW n \in Nodes, Dispatch(n) PROVE Fine
  <2>1. CASE QuantaSync(n)
    <3>1. main[n] = "run" /\ ~pauseBh[n]
      BY <2>1 DEF QuantaSync, Pause, TimeInv, PauseInv
    <3>2. QED
      BY <2>1, <3>1 DEF QuantaSync, Pause
  <2>2. QED
    BY <1>5, <2>1 DEF Dispatch, HostPoll, PauseBh, CheckpointBH, SetupWWT, Deliver,
       SyncCheck, ctl
<1>6. ASSUME NEW n \in Nodes, Boundary(n) PROVE Fine
  <2>1. CASE SpinStop(n)
    <3>1. status' = [status EXCEPT ![n] = "exited"] \/ status' = [status EXCEPT ![n] = "abort_end"]
      BY <2>1, Zenon DEF SpinStop, Abort
    <3>2. QED
      BY <1>2, <3>1
  <2>2. CASE BoundaryTooLate(n) \/ Exit(n)
    BY <1>2, <2>2 DEF BoundaryTooLate, Exit, Abort
  <2>3. QED
    BY <1>6, <2>1, <2>2 DEF Boundary, ctl, NotifyAndSync, SyncMessage, CheckCount, SpinOn, SpinDestroy,
       BoundaryNotify, BoundaryCheckpoint, BoundaryPass, Permit, PermitGrant, PermitEnd,
       Advance
<1>7. ASSUME NEW n \in Nodes, FlexusThread(n) PROVE Fine
  BY <1>2, <1>7 DEF FlexusThread, FlexusSend, CanStop, CanStopGrant, CanStopEnd,
     CanStopAnswer, SetCheckpointFlags, SetCheckpointRound, ctl
<1>8. ASSUME NEW n \in Nodes, MainSend(n) \/ Tick(n) \/ SendPacket(n) \/ FinishInitiate(n)
      PROVE  UNCHANGED status
  BY <1>8 DEF MainSend, Tick, SendPacket, Packet, FinishInitiate, ctl
<1>9. QED
  BY <1>1, <1>3, <1>4, <1>5, <1>6, <1>7, <1>8 DEF Next, MainThread, vars, ctl

-----------------------------------------------------------------------------
(* The theorems. *)

\* All of it together is inductive.
TimedInv == InductiveInv /\ TimeInv /\ NoPastPacket /\ NoStalePause

\* Places, clocks and due times agree in every reachable state, for every
\* latency, ring size, mode and bound (pdes-wwt.c:217-223, 258-268, 531-543).
LEMMA TimedInductive == ASSUME KeysSuffice PROVE Spec => []TimedInv
<1>1. Init => TimedInv
  BY SyncInitial, TimeInitial DEF TimedInv, InductiveInv, Init, NoPastPacket,
     NoStalePause
<1>2. TimedInv /\ [Next]_vars => TimedInv'
  BY SyncStep, TimeStep, AssertionsHold DEF TimedInv, InductiveInv
<1>3. QED
  BY <1>1, <1>2, PTL DEF Spec

\* The invariant that the packets' due times and the clocks obey.
THEOREM TimeInductive == ASSUME KeysSuffice PROVE Spec => []TimeInv
<1>1. TimedInv => TimeInv
  BY DEF TimedInv
<1>2. QED
  BY <1>1, TimedInductive, PTL

\* pdes-wwt.c:221: with barriers no packet is received after its due time.
THEOREM NoPacketLate == ASSUME KeysSuffice PROVE Spec => []NoPastPacket
<1>1. TimedInv => NoPastPacket
  BY DEF TimedInv
<1>2. QED
  BY <1>1, TimedInductive, PTL

\* pdes-engine.c:360: a boundary never finds the last pause's bottom half pending.
THEOREM PauseIsFresh == ASSUME KeysSuffice PROVE Spec => []NoStalePause
<1>1. TimedInv => NoStalePause
  BY DEF TimedInv
<1>2. QED
  BY <1>1, TimedInductive, PTL

\* pdes-wwt.c:173: with barriers the clocks are never more than a quantum apart.
THEOREM ClocksInLockstep == ASSUME KeysSuffice, ShouldSync PROVE Spec => []Lockstep
<1>1. ASSUME SyncInv, TimeInv PROVE Lockstep
  <2> SUFFICES ASSUME NEW m \in Nodes, NEW n \in Nodes PROVE now[m] <= now[n] + Quantum
    BY DEF Lockstep
  <2>1. /\ round[m] \in Nat /\ round[n] \in Nat /\ now[m] \in Nat /\ now[n] \in Nat
        /\ Quantum \in Nat
    BY <1>1, SizeAssumption DEF SyncInv, TypeOK
  <2>2. /\ now[m] <= round[m] * Quantum
        /\ round[n] * Quantum <= now[n] + Quantum
        /\ main[n] \notin {"setup", "run"} => round[n] * Quantum <= now[n]
    BY <1>1 DEF TimeInv, ClockInv
  <2>3. CASE m = n
    BY <2>1, <2>3
  <2>4. CASE m # n
    <3>1. round[m] <= AnnouncedRounds(n) /\ AnnouncedRounds(n) \in Nat
      BY <1>1, <2>4, PeerAnnounced DEF Nodes, Peer
    <3>2. /\ round[m] * Quantum <= AnnouncedRounds(n) * Quantum
          /\ round[m] * Quantum \in Nat /\ AnnouncedRounds(n) * Quantum \in Nat
          /\ round[n] * Quantum \in Nat
      BY <2>1, <3>1, MulMono, MulNext
    <3>3. AnnouncedRounds(n) * Quantum <= now[n] + Quantum
      <4>1. CASE Announced(n)
        <5>1. AnnouncedRounds(n) * Quantum = round[n] * Quantum + Quantum
          BY <2>1, <4>1, MulNext DEF AnnouncedRounds
        <5>2. round[n] * Quantum <= now[n]
          BY <2>2, <4>1 DEF Announced
        <5>3. QED
          BY <2>1, <3>2, <5>1, <5>2
      <4>2. CASE ~Announced(n)
        BY <2>2, <4>2 DEF AnnouncedRounds
      <4>3. QED
        BY <4>1, <4>2
    <3>4. QED
      BY <2>1, <2>2, <3>2, <3>3
  <2>5. QED
    BY <2>3, <2>4
<1>2. TimedInv => Lockstep
  BY <1>1 DEF TimedInv, InductiveInv
<1>3. QED
  BY <1>2, TimedInductive, PTL

-----------------------------------------------------------------------------
(* The order of packets. *)

\* The parts of PacketInv for one process.
Sorted(n) ==
  \A i, j \in DOMAIN inflight[n] : i < j => inflight[n][i] <= inflight[n][j]
Packets(n) == Sorted(n) /\ SendsOnePacket(n) /\ RingSorted(n) /\ TimersFirst(n)

LEMMA PacketsOfAll == PacketInv <=> \A n \in Nodes : Packets(n)
BY DEF PacketInv, PacketsInOrder, Packets, Sorted

LEMMA PacketsOfAllNext == PacketInv' <=> \A n \in Nodes : Packets(n)'
BY DEF PacketInv, PacketsInOrder, Packets, Sorted

-----------------------------------------------------------------------------
(* Due times. *)

\* A later timestamp is not due earlier, and a due time is a time.
LEMMA DueMono ==
  ASSUME TypeOK, NEW n \in Nodes, NEW s \in Nat, NEW t \in Nat, s <= t
  PROVE  DueAt(n, s) <= DueAt(n, t) /\ DueAt(n, s) \in Nat /\ DueAt(n, t) \in Nat
BY DEF TypeOK, DueAt, Later

\* What is not late stays so while the receiver's clock runs.
LEMMA DueLater ==
  ASSUME TypeOK, TypeOK', NEW n \in Nodes, NEW s \in Nat, now[n] <= now'[n]
  PROVE  DueAt(n, s) <= DueAt(n, s)' /\ DueAt(n, s) \in Nat /\ DueAt(n, s)' \in Nat
<1>1. now[n] \in Nat /\ now'[n] \in Nat
  BY DEF TypeOK
<1>2. QED
  BY <1>1 DEF DueAt, Later

-----------------------------------------------------------------------------
(* Steps that neither send nor receive nor deliver a packet. *)

Silent ==
  /\ UNCHANGED <<ring, now, inflight>>
  /\ \A m \in Nodes : KeepsMain(m) /\ KeepsFlexus(m)

LEMMA SilentStep == ASSUME PacketInv, Silent PROVE PacketInv'
<1> SUFFICES ASSUME NEW n \in Nodes PROVE Packets(n)'
  BY PacketsOfAllNext
<1>1. Packets(n) /\ Peer(n) \in Nodes
  BY PacketsOfAll, PeerNodes
<1>2. Sorted(n)'
  BY <1>1 DEF Packets, Sorted, Silent
<1>3. SendsOnePacket(n)'
  BY <1>1 DEF Packets, SendsOnePacket, Silent, KeepsMain, KeepsFlexus, NoNormal
<1>4. mainOut'[Peer(n)] = mainOut[Peer(n)] \/ NoNormal(mainOut'[Peer(n)])
  BY <1>1 DEF Silent, KeepsMain
<1>5. RingSorted(n)'
  BY <1>1, <1>4 DEF Packets, RingSorted, Silent, NoNormal
<1>6. TimersFirst(n)'
  BY <1>1, <1>4 DEF Packets, TimersFirst, Silent, NoNormal, DueAt
<1>7. QED
  BY <1>2, <1>3, <1>5, <1>6 DEF Packets

-----------------------------------------------------------------------------
(* A packet's way. *)

\* The guest of n transmits: no earlier packet is due later than a latency ahead.
LEMMA SendPacketOrder ==
  ASSUME TypeOK, PacketInv, NEW n \in Nodes, SendPacket(n) PROVE PacketInv'
<1>0. UNCHANGED <<now, ring, flexusOut, inflight>>
  BY DEF SendPacket
<1>1. /\ mainOut'[n] = <<Msg("NORMAL", now[n] + Quantum)>>
      /\ \A m \in Nodes \ {n} : mainOut'[m] = mainOut[m]
  BY DEF SendPacket, Packet, TypeOK
<1>2. now[n] + Quantum \in Nat
  BY SizeAssumption DEF TypeOK
<1>3. \A j \in DOMAIN mainOut'[n] : j = 1 /\ mainOut'[n][j].val = now[n] + Quantum
  BY <1>1 DEF Msg
<1> SUFFICES ASSUME NEW m \in Nodes PROVE Packets(m)'
  BY PacketsOfAllNext
<1>4. Packets(m) /\ Peer(m) \in Nodes
  BY PacketsOfAll, PeerNodes
<1>5. Sorted(m)'
  BY <1>0, <1>4 DEF Packets, Sorted
<1>6. SendsOnePacket(m)'
  <2>1. CASE m = n
    BY <1>0, <1>2, <1>3, <1>4, <2>1 DEF Packets, SendsOnePacket
  <2>2. CASE m # n
    BY <1>0, <1>1, <1>4, <2>2 DEF Packets, SendsOnePacket
  <2>3. QED
    BY <2>1, <2>2
<1>7. RingSorted(m)' /\ TimersFirst(m)'
  <2>1. CASE Peer(m) = n
    <3>1. RingSorted(m)'
      BY <1>0, <1>3, <1>4, <2>1 DEF Packets, RingSorted
    <3>2. TimersFirst(m)'
      BY <1>0, <1>3, <1>4, <2>1 DEF Packets, TimersFirst, DueAt
    <3>3. QED
      BY <3>1, <3>2
  <2>2. CASE Peer(m) # n
    BY <1>0, <1>1, <1>4, <2>2 DEF Packets, RingSorted, TimersFirst, DueAt
  <2>3. QED
    BY <2>1, <2>2
<1>8. QED
  BY <1>5, <1>6, <1>7 DEF Packets

\* The main thread of n goes on: the packet that was blocked, if it was one, is
\* the last of the ring, and none is left behind it.
LEMMA MainSendOrder ==
  ASSUME TypeOK, PacketInv, NEW n \in Nodes, MainSend(n) PROVE PacketInv'
<1> DEFINE h == Head(mainOut[n])
           p == Peer(n)
<1>0. UNCHANGED <<now, flexusOut, inflight>>
  BY DEF MainSend, wwt
<1>1. /\ mainOut[n] \in Seq(Message) /\ mainOut[n] # <<>>
      /\ mainOut'[n] = Tail(mainOut[n])
      /\ \A m \in Nodes \ {n} : mainOut'[m] = mainOut[m]
  BY DEF MainSend, CommSend, TypeOK
<1>2. /\ p \in Nodes /\ p # n /\ Peer(p) = n
      /\ ring[p] \in Seq(Message)
      /\ ring'[p] = Append(ring[p], h)
      /\ \A m \in Nodes \ {p} : ring'[m] = ring[m]
  BY PeerNodes DEF MainSend, CommSend, TypeOK
<1>3. \A i \in DOMAIN mainOut'[n] :
        i + 1 \in DOMAIN mainOut[n] /\ mainOut'[n][i] = mainOut[n][i + 1] /\ i + 1 # 1
  <2>1. \A i \in DOMAIN mainOut'[n] : i \in Nat \ {0}
    BY <1>1
  <2>2. QED
    BY <1>1, <2>1, TailElements
<1>4. 1 \in DOMAIN mainOut[n] /\ h = mainOut[n][1] /\ h \in Message
  BY <1>1
<1>5. /\ \A i \in DOMAIN ring'[p] :
           \/ i \in DOMAIN ring[p] /\ ring'[p][i] = ring[p][i]
           \/ i = Len(ring[p]) + 1 /\ ring'[p][i] = h
      /\ \A i \in DOMAIN ring[p] : i \in Nat /\ i <= Len(ring[p])
      /\ Len(ring[p]) \in Nat
  <2>1. Len(ring[p]) \in Nat /\ DOMAIN ring[p] = 1 .. Len(ring[p])
    BY <1>2
  <2>2. QED
    BY <1>2, <1>4, <2>1, AppendElements
<1> SUFFICES ASSUME NEW m \in Nodes PROVE Packets(m)'
  BY PacketsOfAllNext
<1>6. Packets(m) /\ Packets(n) /\ Packets(p) /\ Peer(m) \in Nodes
  BY <1>2, PacketsOfAll, PeerNodes
<1>7. Sorted(m)'
  BY <1>0, <1>6 DEF Packets, Sorted
<1>8. SendsOnePacket(m)'
  <2>1. CASE m # n
    BY <1>0, <1>1, <1>6, <2>1 DEF Packets, SendsOnePacket
  <2>2. CASE m = n
    <3>1. /\ \A i, j \in DOMAIN mainOut'[n] : IsNormal(mainOut'[n][i]) => i + 1 = j + 1
          /\ \A i \in DOMAIN mainOut'[n] :
               IsNormal(mainOut'[n][i]) => mainOut'[n][i].val <= now[n] + Quantum
      BY <1>3, <1>6 DEF Packets, SendsOnePacket
    <3>2. \A i \in DOMAIN mainOut'[n] : i \in Int
      BY <1>1
    <3>3. QED
      BY <1>0, <1>6, <2>2, <3>1, <3>2 DEF Packets, SendsOnePacket
  <2>3. QED
    BY <2>1, <2>2
<1>9. CASE m # p
  <2>1. Peer(m) # n /\ ring'[m] = ring[m] /\ mainOut'[Peer(m)] = mainOut[Peer(m)]
    BY <1>1, <1>2, <1>6, <1>9, PeerNodes
  <2>2. QED
    BY <1>0, <1>6, <1>7, <1>8, <2>1 DEF Packets, RingSorted, TimersFirst, DueAt
<1>10. CASE m = p
  <2>1. IsNormal(h) => mainOut'[n] = <<>>
    <3>1. IsNormal(h) => \A j \in DOMAIN mainOut[n] : j = 1
      BY <1>4, <1>6 DEF Packets, SendsOnePacket
    <3>2. IsNormal(h) => DOMAIN mainOut'[n] = {}
      BY <1>3, <3>1
    <3>3. mainOut'[n] \in Seq(Message)
      BY <1>1
    <3>4. mainOut'[n] # <<>> => 1 \in DOMAIN mainOut'[n]
      BY <3>3
    <3>5. QED
      BY <3>2, <3>4
  <2>2. \A i \in DOMAIN ring[p] : IsNormal(ring[p][i]) /\ IsNormal(h) => ring[p][i].val <= h.val
    BY <1>2, <1>4, <1>6 DEF Packets, RingSorted
  <2>3. IsNormal(h) => h.val <= now[n] + Quantum
    BY <1>4, <1>6 DEF Packets, SendsOnePacket
  <2>4. RingSorted(p)'
    <3>1. ASSUME NEW i \in DOMAIN ring'[p], NEW j \in DOMAIN ring'[p], i < j,
                 IsNormal(ring'[p][i]), IsNormal(ring'[p][j])
          PROVE  ring'[p][i].val <= ring'[p][j].val
      <4>1. i \in DOMAIN ring[p] /\ ring'[p][i] = ring[p][i]
        BY <1>2, <1>4, <1>5, <3>1
      <4>2. CASE j \in DOMAIN ring[p] /\ ring'[p][j] = ring[p][j]
        BY <1>6, <3>1, <4>1, <4>2 DEF Packets, RingSorted
      <4>3. CASE ring'[p][j] = h
        BY <2>2, <3>1, <4>1, <4>3
      <4>4. QED
        BY <1>5, <4>2, <4>3
    <3>2. ASSUME NEW i \in DOMAIN ring'[p], NEW j \in DOMAIN mainOut'[n],
                 IsNormal(ring'[p][i]), IsNormal(mainOut'[n][j])
          PROVE  ring'[p][i].val <= mainOut'[n][j].val
      <4>1. ~IsNormal(h)
        BY <2>1, <3>2
      <4>2. i \in DOMAIN ring[p] /\ ring'[p][i] = ring[p][i]
        BY <1>5, <3>2, <4>1
      <4>3. QED
        BY <1>2, <1>3, <1>6, <3>2, <4>2 DEF Packets, RingSorted
    <3>3. ASSUME NEW i \in DOMAIN ring'[p], IsNormal(ring'[p][i])
          PROVE  ring'[p][i].val <= now'[n] + Quantum
      BY <1>0, <1>2, <1>5, <1>6, <2>3, <3>3 DEF Packets, RingSorted
    <3>4. QED
      BY <1>2, <3>1, <3>2, <3>3 DEF RingSorted
  <2>5. TimersFirst(p)'
    <3> SUFFICES ASSUME NEW k \in DOMAIN inflight[p]
                 PROVE  /\ \A i \in DOMAIN ring'[p] : IsNormal(ring'[p][i])
                             => inflight[p][k] <= DueAt(p, ring'[p][i].val)
                        /\ \A j \in DOMAIN mainOut'[n] : IsNormal(mainOut'[n][j])
                             => inflight[p][k] <= DueAt(p, mainOut'[n][j].val)
                        /\ inflight[p][k] <= DueAt(p, now[n] + Quantum)
      BY <1>0, <1>2 DEF TimersFirst, DueAt
    <3>1. /\ \A i \in DOMAIN ring[p] :
               IsNormal(ring[p][i]) => inflight[p][k] <= DueAt(p, ring[p][i].val)
          /\ \A j \in DOMAIN mainOut[n] :
               IsNormal(mainOut[n][j]) => inflight[p][k] <= DueAt(p, mainOut[n][j].val)
          /\ inflight[p][k] <= DueAt(p, now[n] + Quantum)
      BY <1>2, <1>6 DEF Packets, TimersFirst
    <3>2. QED
      BY <1>3, <1>4, <1>5, <3>1
  <2>6. QED
    BY <1>7, <1>8, <1>10, <2>4, <2>5 DEF Packets
<1>11. QED
  BY <1>9, <1>10

\* What Flexus sends is no packet.
LEMMA FlexusSendOrder ==
  ASSUME TypeOK, PacketInv, NEW n \in Nodes, FlexusSend(n) PROVE PacketInv'
<1> DEFINE h == Head(flexusOut[n])
           p == Peer(n)
<1>0. UNCHANGED <<now, mainOut, inflight>>
  BY DEF FlexusSend, wwt
<1>1. /\ flexusOut[n] \in Seq(Message) /\ flexusOut[n] # <<>>
      /\ flexusOut'[n] = Tail(flexusOut[n])
      /\ \A m \in Nodes \ {n} : flexusOut'[m] = flexusOut[m]
  BY DEF FlexusSend, CommSend, TypeOK
<1>2. /\ p \in Nodes /\ ring[p] \in Seq(Message)
      /\ ring'[p] = Append(ring[p], h)
      /\ \A m \in Nodes \ {p} : ring'[m] = ring[m]
  BY PeerNodes DEF FlexusSend, CommSend, TypeOK
<1>3. 1 \in DOMAIN flexusOut[n] /\ h = flexusOut[n][1] /\ h \in Message
  BY <1>1
<1> SUFFICES ASSUME NEW m \in Nodes PROVE Packets(m)'
  BY PacketsOfAllNext
<1>4. Packets(m) /\ Packets(n) /\ Peer(m) \in Nodes
  BY PacketsOfAll, PeerNodes
<1>5. ~IsNormal(h)
  BY <1>3, <1>4 DEF Packets, SendsOnePacket
<1>6. \A i \in DOMAIN ring'[m] : IsNormal(ring'[m][i]) =>
        i \in DOMAIN ring[m] /\ ring'[m][i] = ring[m][i]
  BY <1>2, <1>3, <1>5, AppendElements
<1>7. Sorted(m)'
  BY <1>0, <1>4 DEF Packets, Sorted
<1>8. SendsOnePacket(m)'
  <2>1. \A i \in DOMAIN flexusOut'[n] : ~IsNormal(flexusOut'[n][i])
    BY <1>1, <1>4, TailElements DEF Packets, SendsOnePacket
  <2>2. QED
    BY <1>0, <1>1, <1>4, <2>1 DEF Packets, SendsOnePacket
<1>9. RingSorted(m)'
  BY <1>0, <1>4, <1>6 DEF Packets, RingSorted
<1>10. TimersFirst(m)'
  BY <1>0, <1>4, <1>6 DEF Packets, TimersFirst, DueAt
<1>11. QED
  BY <1>7, <1>8, <1>9, <1>10 DEF Packets

\* The receiver of a packet that was sent before those on the way arms a timer
\* that expires before theirs.
LEMMA RecvNormalOrder ==
  ASSUME TypeOK, TypeOK', PacketInv, NEW n \in Nodes, RecvNormal(n) PROVE PacketInv'
<1> DEFINE p == Peer(n)
           h == Head(ring[n])
<1>0. UNCHANGED <<now, mainOut, flexusOut>>
  BY DEF RecvNormal
<1>1. /\ ring[n] \in Seq(Message) /\ ring[n] # <<>>
      /\ ring'[n] = Tail(ring[n])
      /\ \A m \in Nodes \ {n} : ring'[m] = ring[m] /\ inflight'[m] = inflight[m]
  <2>1. /\ ring[n] \in Seq(Message) /\ ring[n] # <<>> /\ ring' = [ring EXCEPT ![n] = Tail(ring[n])]
    BY DEF RecvNormal, Receiving, TypeOK
  <2>2. \/ UNCHANGED inflight
        \/ inflight' = [inflight EXCEPT ![n] = Append(inflight[n], DueAt(n, h.val))]
    BY Zenon DEF RecvNormal, h
  <2>3. QED
    BY <2>1, <2>2 DEF TypeOK
<1>2. \A i \in DOMAIN ring'[n] :
        i + 1 \in DOMAIN ring[n] /\ ring'[n][i] = ring[n][i + 1] /\ i \in Nat \ {0}
  <2>1. \A i \in DOMAIN ring'[n] : i \in Nat \ {0}
    BY <1>1
  <2>2. QED
    BY <1>1, <2>1, TailElements
<1>3. 1 \in DOMAIN ring[n] /\ h = ring[n][1] /\ IsNormal(h) /\ h.val \in Nat
  <2>1. 1 \in DOMAIN ring[n] /\ h = ring[n][1] /\ h \in Message
    BY <1>1
  <2>2. QED
    BY <2>1 DEF RecvNormal, Receiving, IsNormal, Message
<1>4. /\ p \in Nodes /\ now[p] + Quantum \in Nat
      /\ mainOut[p] \in Seq(Message) /\ \A m \in Message : m.val \in Nat
  <2>1. p \in Nodes
    BY PeerNodes
  <2>2. \A m \in Message : m.val \in Nat
    BY DEF Message
  <2>3. now[p] \in Nat /\ mainOut[p] \in Seq(Message)
    BY <2>1 DEF TypeOK
  <2>4. QED
    BY <2>1, <2>2, <2>3, SizeAssumption
<1> SUFFICES ASSUME NEW m \in Nodes PROVE Packets(m)'
  BY PacketsOfAllNext
<1>5. Packets(m) /\ Packets(n) /\ Peer(m) \in Nodes
  BY PacketsOfAll, PeerNodes
<1>6. SendsOnePacket(m)'
  BY <1>0, <1>5 DEF Packets, SendsOnePacket
<1>7. CASE m # n
  BY <1>0, <1>1, <1>5, <1>6, <1>7 DEF Packets, Sorted, RingSorted, TimersFirst, DueAt
<1>8. CASE m = n
  <2> DEFINE d == DueAt(n, h.val)
  <2>1. RingSorted(n)'
    <3>1. \A i, j \in DOMAIN ring'[n] :
            i < j /\ IsNormal(ring'[n][i]) /\ IsNormal(ring'[n][j])
              => ring'[n][i].val <= ring'[n][j].val
      <4> SUFFICES ASSUME NEW i \in DOMAIN ring'[n], NEW j \in DOMAIN ring'[n], i < j,
                          IsNormal(ring'[n][i]), IsNormal(ring'[n][j])
                   PROVE  ring'[n][i].val <= ring'[n][j].val
        OBVIOUS
      <4>1. i + 1 \in DOMAIN ring[n] /\ j + 1 \in DOMAIN ring[n] /\ i + 1 < j + 1
        BY <1>2
      <4>2. QED
        BY <1>2, <1>5, <4>1 DEF Packets, RingSorted
    <3>2. QED
      BY <1>0, <1>2, <1>5, <3>1 DEF Packets, RingSorted
  <2>2. /\ \A i \in DOMAIN ring'[n] : IsNormal(ring'[n][i]) => h.val <= ring'[n][i].val
        /\ \A j \in DOMAIN mainOut[p] : IsNormal(mainOut[p][j]) => h.val <= mainOut[p][j].val
        /\ h.val <= now[p] + Quantum
    <3>1. ASSUME NEW i \in DOMAIN ring'[n], IsNormal(ring'[n][i]) PROVE h.val <= ring'[n][i].val
      <4>1. i + 1 \in DOMAIN ring[n] /\ ring'[n][i] = ring[n][i + 1] /\ 1 < i + 1
        BY <1>2
      <4>2. QED
        BY <1>3, <1>5, <3>1, <4>1 DEF Packets, RingSorted
    <3>2. QED
      BY <1>3, <1>5, <3>1 DEF Packets, RingSorted
  <2>3. /\ \A i \in DOMAIN ring'[n] : IsNormal(ring'[n][i]) => d <= DueAt(n, ring'[n][i].val)
        /\ \A j \in DOMAIN mainOut[p] :
             IsNormal(mainOut[p][j]) => d <= DueAt(n, mainOut[p][j].val)
        /\ d <= DueAt(n, now[p] + Quantum)
    <3>1. \A i \in DOMAIN ring'[n] : ring'[n][i].val \in Nat
      <4>1. \A i \in DOMAIN ring[n] : ring[n][i] \in Message
        BY <1>1
      <4>2. QED
        BY <1>2, <1>4, <4>1
    <3>2. \A j \in DOMAIN mainOut[p] : mainOut[p][j].val \in Nat
      BY <1>4
    <3>3. QED
      BY <1>3, <1>4, <2>2, <3>1, <3>2, DueMono
  <2>4. \A k \in DOMAIN inflight[n] : inflight[n][k] <= d
    BY <1>3, <1>5 DEF Packets, TimersFirst
  <2>5. TimersFirst(n) /\ Sorted(n)
    BY <1>5 DEF Packets
  <2>6. /\ \A i \in DOMAIN ring'[n] : \A k \in DOMAIN inflight[n] :
             IsNormal(ring'[n][i]) => inflight[n][k] <= DueAt(n, ring'[n][i].val)
        /\ \A j \in DOMAIN mainOut[p] : \A k \in DOMAIN inflight[n] :
             IsNormal(mainOut[p][j]) => inflight[n][k] <= DueAt(n, mainOut[p][j].val)
        /\ \A k \in DOMAIN inflight[n] : inflight[n][k] <= DueAt(n, now[p] + Quantum)
    BY <1>2, <2>5 DEF TimersFirst
  <2>7. CASE inflight'[n] = inflight[n]
    BY <1>0, <1>6, <1>8, <2>1, <2>5, <2>6, <2>7 DEF Packets, Sorted, TimersFirst, DueAt
  <2>8. CASE inflight'[n] = Append(inflight[n], d)
    <3>1. inflight[n] \in Seq(Nat) /\ d \in Nat
      <4>1. h.val <= h.val
        BY <1>3
      <4>2. QED
        BY <1>3, <4>1, DueMono DEF TypeOK
    <3>2. /\ \A k \in DOMAIN inflight'[n] :
               \/ k \in DOMAIN inflight[n] /\ inflight'[n][k] = inflight[n][k]
               \/ k = Len(inflight[n]) + 1 /\ inflight'[n][k] = d
          /\ Len(inflight[n]) \in Nat
          /\ \A k \in DOMAIN inflight[n] : k \in Nat /\ k <= Len(inflight[n])
      BY <2>8, <3>1
    <3>3. Sorted(n)'
      <4> SUFFICES ASSUME NEW i \in DOMAIN inflight'[n], NEW j \in DOMAIN inflight'[n], i < j
                   PROVE  inflight'[n][i] <= inflight'[n][j]
        BY DEF Sorted
      <4>1. i \in DOMAIN inflight[n] /\ inflight'[n][i] = inflight[n][i]
        BY <3>2
      <4>2. QED
        BY <2>4, <2>5, <3>2, <4>1 DEF Sorted
    <3>4. TimersFirst(n)'
      BY <1>0, <2>3, <2>6, <3>2 DEF TimersFirst, DueAt
    <3>5. QED
      BY <1>6, <1>8, <2>1, <3>3, <3>4 DEF Packets
  <2>9. inflight'[n] = inflight[n] \/ inflight'[n] = Append(inflight[n], d)
    BY DEF RecvNormal, TypeOK
  <2>10. QED
    BY <2>7, <2>8, <2>9
<1>9. QED
  BY <1>7, <1>8

\* Another message leaves the ring of n, and the main thread may answer.
LEMMA RecvOtherOrder ==
  ASSUME TypeOK, PacketInv, NEW n \in Nodes, NEW t \in MsgTypes, Receiving(n, t),
         UNCHANGED <<now, inflight, flexusOut>>, \A m \in Nodes : KeepsMain(m)
  PROVE  PacketInv'
<1>1. /\ ring[n] \in Seq(Message) /\ ring[n] # <<>>
      /\ ring'[n] = Tail(ring[n])
      /\ \A m \in Nodes \ {n} : ring'[m] = ring[m]
  BY DEF Receiving, TypeOK
<1>2. \A i \in DOMAIN ring'[n] :
        i + 1 \in DOMAIN ring[n] /\ ring'[n][i] = ring[n][i + 1] /\ i \in Nat \ {0}
  <2>1. \A i \in DOMAIN ring'[n] : i \in Nat \ {0}
    BY <1>1
  <2>2. QED
    BY <1>1, <2>1, TailElements
<1> SUFFICES ASSUME NEW m \in Nodes PROVE Packets(m)'
  BY PacketsOfAllNext
<1>3. Packets(m) /\ Packets(n) /\ Peer(m) \in Nodes
  BY PacketsOfAll, PeerNodes
<1>4. Sorted(m)'
  BY <1>3 DEF Packets, Sorted
<1>5. SendsOnePacket(m)'
  BY <1>3 DEF Packets, SendsOnePacket, KeepsMain, NoNormal
<1>6. mainOut'[Peer(m)] = mainOut[Peer(m)] \/ NoNormal(mainOut'[Peer(m)])
  BY <1>3 DEF KeepsMain
<1>7. CASE m # n
  BY <1>1, <1>3, <1>4, <1>5, <1>6, <1>7 DEF Packets, RingSorted, TimersFirst, NoNormal, DueAt
<1>8. CASE m = n
  <2>1. \A i, j \in DOMAIN ring'[n] :
          i < j /\ IsNormal(ring'[n][i]) /\ IsNormal(ring'[n][j])
            => ring'[n][i].val <= ring'[n][j].val
    <3> SUFFICES ASSUME NEW i \in DOMAIN ring'[n], NEW j \in DOMAIN ring'[n], i < j,
                        IsNormal(ring'[n][i]), IsNormal(ring'[n][j])
                 PROVE  ring'[n][i].val <= ring'[n][j].val
      OBVIOUS
    <3>1. i + 1 \in DOMAIN ring[n] /\ j + 1 \in DOMAIN ring[n] /\ i + 1 < j + 1
      BY <1>2
    <3>2. QED
      BY <1>2, <1>3, <3>1 DEF Packets, RingSorted
  <2>2. RingSorted(n)'
    BY <1>2, <1>3, <1>6, <1>8, <2>1 DEF Packets, RingSorted, NoNormal
  <2>3. TimersFirst(n)'
    BY <1>2, <1>3, <1>6, <1>8 DEF Packets, TimersFirst, NoNormal, DueAt
  <2>4. QED
    BY <1>4, <1>5, <1>8, <2>2, <2>3 DEF Packets
<1>9. QED
  BY <1>7, <1>8

\* What is left of a list of timers, with its positions.
LEMMA CutElements ==
  ASSUME NEW s \in Seq(Nat), NEW c \in DOMAIN s
  PROVE  \A k \in DOMAIN RemoveAt(s, c) :
           \/ k < c /\ k \in DOMAIN s /\ RemoveAt(s, c)[k] = s[k]
           \/ c <= k /\ k + 1 \in DOMAIN s /\ RemoveAt(s, c)[k] = s[k + 1]
<1> DEFINE a == SubSeq(s, 1, c - 1)
           b == SubSeq(s, c + 1, Len(s))
<1> HIDE DEF a, b
<1>1. Len(s) \in Nat /\ DOMAIN s = 1 .. Len(s) /\ c \in 1 .. Len(s) /\ c \in Int
  OBVIOUS
<1>2. /\ a \in Seq(Nat) /\ Len(a) = c - 1
      /\ \A k \in 1 .. c - 1 : a[k] = s[k]
  <2>1. \A i \in 1 .. c - 1 : s[i] \in Nat
    BY <1>1
  <2>2. /\ a \in Seq(Nat)
        /\ Len(a) = IF 1 <= c - 1 THEN (c - 1) - 1 + 1 ELSE 0
        /\ \A k \in 1 .. (c - 1) - 1 + 1 : a[k] = s[1 + k - 1]
    BY <1>1, <2>1, SubSeqProperties DEF a
  <2>3. QED
    BY <1>1, <2>2
<1>3. /\ b \in Seq(Nat) /\ Len(b) = Len(s) - c
      /\ \A k \in 1 .. Len(s) - c : b[k] = s[c + k]
  <2>1. \A i \in c + 1 .. Len(s) : s[i] \in Nat
    BY <1>1
  <2>2. /\ b \in Seq(Nat)
        /\ Len(b) = IF c + 1 <= Len(s) THEN Len(s) - (c + 1) + 1 ELSE 0
        /\ \A k \in 1 .. Len(s) - (c + 1) + 1 : b[k] = s[c + 1 + k - 1]
    <3> DEFINE l == c + 1
               m == Len(s)
    <3>1. l \in Int /\ m \in Int /\ \A i \in l .. m : s[i] \in Nat
      BY <1>1, <2>1
    <3>2. b = SubSeq(s, l, m)
      BY DEF b
    <3> HIDE DEF l, m
    <3>3. /\ b \in Seq(Nat) /\ Len(b) = IF l <= m THEN m - l + 1 ELSE 0
          /\ \A k \in 1 .. m - l + 1 : b[k] = s[l + k - 1]
      BY <3>1, <3>2, SubSeqProperties
    <3>4. QED
      BY <3>3 DEF l, m
  <2>3. PICK e \in Nat : e = Len(s)
    BY <1>1
  <2>4. Len(b) = e - c
    <3>1. Len(b) = IF c + 1 <= e THEN e - (c + 1) + 1 ELSE 0
      BY <2>2, <2>3
    <3>2. c \in Nat /\ c <= e
      BY <1>1, <2>3
    <3>3. QED
      BY ONLY <3>1, <3>2, <2>3
  <2>5. ASSUME NEW k \in 1 .. e - c PROVE b[k] = s[c + k]
    <3>1. k \in 1 .. e - (c + 1) + 1 /\ c + 1 + k - 1 = c + k
      BY <1>1
    <3>2. QED
      BY <2>2, <2>3, <3>1
  <2>6. QED
    BY <2>2, <2>3, <2>4, <2>5
<1>4. /\ DOMAIN RemoveAt(s, c) = 1 .. Len(s) - 1
      /\ \A k \in 1 .. Len(s) - 1 :
           RemoveAt(s, c)[k] = IF k <= c - 1 THEN a[k] ELSE b[k - (c - 1)]
  <2>1. /\ a \o b \in Seq(Nat) /\ Len(a \o b) = Len(a) + Len(b)
        /\ \A k \in 1 .. Len(a) + Len(b) :
             (a \o b)[k] = IF k <= Len(a) THEN a[k] ELSE b[k - Len(a)]
    BY <1>2, <1>3, ConcatProperties
  <2>2. Len(a) + Len(b) = Len(s) - 1
    BY <1>1, <1>2, <1>3
  <2>3. DOMAIN (a \o b) = 1 .. Len(a \o b)
    BY <2>1, LenProperties
  <2>4. QED
    BY <1>2, <2>1, <2>2, <2>3 DEF RemoveAt, a, b
<1> SUFFICES ASSUME NEW k \in 1 .. Len(s) - 1
             PROVE  \/ k < c /\ k \in DOMAIN s /\ RemoveAt(s, c)[k] = s[k]
                    \/ c <= k /\ k + 1 \in DOMAIN s /\ RemoveAt(s, c)[k] = s[k + 1]
  BY <1>4
<1>5. CASE k < c
  BY <1>1, <1>2, <1>4, <1>5
<1>6. CASE c <= k
  <2>1. /\ k - (c - 1) \in 1 .. Len(s) - c /\ c + (k - (c - 1)) = k + 1
        /\ k + 1 \in DOMAIN s /\ ~(k <= c - 1)
    BY <1>1, <1>6
  <2>2. b[k - (c - 1)] = s[k + 1]
    BY <1>3, <2>1
  <2>3. QED
    BY <1>4, <1>6, <2>1, <2>2
<1>7. QED
  BY <1>1, <1>5, <1>6

\* A delivery takes a timer out and leaves the others in their order.
LEMMA DeliverOrder ==
  ASSUME TypeOK, PacketInv, NEW n \in Nodes, Deliver(n) PROVE PacketInv'
<1>0. UNCHANGED <<now, ring, mainOut, flexusOut>>
  BY DEF Deliver, wire
<1>1. PICK c \in DOMAIN inflight[n] : inflight' = [inflight EXCEPT ![n] = RemoveAt(@, c)]
  BY DEF Deliver
<1>2. /\ inflight[n] \in Seq(Nat)
      /\ inflight'[n] = RemoveAt(inflight[n], c)
      /\ \A m \in Nodes \ {n} : inflight'[m] = inflight[m]
  BY <1>1 DEF TypeOK
<1>3. \A k \in DOMAIN inflight'[n] :
        \/ k < c /\ k \in DOMAIN inflight[n] /\ inflight'[n][k] = inflight[n][k]
        \/ c <= k /\ k + 1 \in DOMAIN inflight[n] /\ inflight'[n][k] = inflight[n][k + 1]
  BY <1>2, CutElements
<1>4. \A k \in DOMAIN inflight'[n] : k \in Nat
  BY <1>2 DEF RemoveAt
<1> SUFFICES ASSUME NEW m \in Nodes PROVE Packets(m)'
  BY PacketsOfAllNext
<1>5. Packets(m) /\ Packets(n) /\ Peer(m) \in Nodes
  BY PacketsOfAll, PeerNodes
<1>6. SendsOnePacket(m)' /\ RingSorted(m)'
  BY <1>0, <1>5 DEF Packets, SendsOnePacket, RingSorted
<1>7. CASE m # n
  BY <1>0, <1>2, <1>5, <1>6, <1>7 DEF Packets, Sorted, TimersFirst, DueAt
<1>8. CASE m = n
  <2>1. Sorted(n)'
    <3> SUFFICES ASSUME NEW i \in DOMAIN inflight'[n], NEW j \in DOMAIN inflight'[n], i < j
                 PROVE  inflight'[n][i] <= inflight'[n][j]
      BY DEF Sorted
    <3>1. i \in Nat /\ j \in Nat /\ c \in Nat
      BY <1>2, <1>4
    <3>2. PICK a \in DOMAIN inflight[n], b \in DOMAIN inflight[n] :
            a < b /\ inflight'[n][i] = inflight[n][a] /\ inflight'[n][j] = inflight[n][b]
      <4>1. CASE j < c
        BY <1>3, <3>1, <4>1
      <4>2. CASE c <= j
        BY <1>3, <3>1, <4>2
      <4>3. QED
        BY <3>1, <4>1, <4>2
    <3>3. QED
      BY <1>5, <3>2 DEF Packets, Sorted
  <2>2. TimersFirst(n)'
    <3>1. \A k \in DOMAIN inflight'[n] : \E a \in DOMAIN inflight[n] : inflight'[n][k] = inflight[n][a]
      BY <1>3
    <3>2. QED
      BY <1>0, <1>5, <3>1 DEF Packets, TimersFirst, DueAt
  <2>3. QED
    BY <1>6, <1>8, <2>1, <2>2 DEF Packets
<1>9. QED
  BY <1>7, <1>8

\* Time passes: the sender's next packet is due later, and so is, without
\* barriers, one that arrives.
LEMMA TickOrder ==
  ASSUME TypeOK, TypeOK', PacketInv, NEW n \in Nodes, Tick(n) PROVE PacketInv'
<1>0. UNCHANGED <<ring, mainOut, flexusOut, inflight>>
  BY DEF Tick, wire
<1>1. \A m \in Nodes : now[m] \in Nat /\ now'[m] \in Nat /\ now[m] <= now'[m]
  <2>1. now' = [now EXCEPT ![n] = now[n] + 1]
    BY DEF Tick
  <2>2. now \in [Nodes -> Nat]
    BY DEF TypeOK
  <2>3. QED
    BY <2>1, <2>2
<1>2. Quantum \in Nat
  BY SizeAssumption
<1> SUFFICES ASSUME NEW m \in Nodes PROVE Packets(m)'
  BY PacketsOfAllNext
<1> DEFINE p == Peer(m)
<1>3. Packets(m) /\ p \in Nodes
  BY PacketsOfAll, PeerNodes
<1>4. /\ ring[m] \in Seq(Message) /\ mainOut[m] \in Seq(Message)
      /\ mainOut[p] \in Seq(Message) /\ inflight[m] \in Seq(Nat)
  BY <1>3 DEF TypeOK
<1>5. /\ \A i \in DOMAIN ring[m] : ring[m][i].val \in Nat
      /\ \A i \in DOMAIN mainOut[m] : mainOut[m][i].val \in Nat
      /\ \A i \in DOMAIN mainOut[p] : mainOut[p][i].val \in Nat
      /\ \A i \in DOMAIN inflight[m] : inflight[m][i] \in Nat
  <2>1. \A x \in Message : x.val \in Nat
    BY DEF Message
  <2>2. QED
    BY <1>4, <2>1
<1>6. Sorted(m)'
  BY <1>0, <1>3 DEF Packets, Sorted
<1>7. SendsOnePacket(m)'
  BY <1>0, <1>1, <1>2, <1>3, <1>5 DEF Packets, SendsOnePacket
<1>8. RingSorted(m)'
  BY <1>0, <1>1, <1>2, <1>3, <1>5 DEF Packets, RingSorted
<1>9. ASSUME NEW k \in DOMAIN inflight[m], NEW s \in Nat, NEW t \in Nat, s <= t,
             inflight[m][k] <= DueAt(m, s)
      PROVE  inflight[m][k] <= DueAt(m, t)'
  <2>1. /\ DueAt(m, s) <= DueAt(m, t) /\ DueAt(m, t) <= DueAt(m, t)'
        /\ DueAt(m, s) \in Nat /\ DueAt(m, t) \in Nat /\ DueAt(m, t)' \in Nat
    BY <1>1, <1>9, DueMono, DueLater
  <2>2. QED
    BY <1>5, <1>9, <2>1
<1>10. TimersFirst(m)'
  <2> SUFFICES ASSUME NEW k \in DOMAIN inflight[m]
               PROVE  /\ \A i \in DOMAIN ring[m] : IsNormal(ring[m][i])
                           => inflight[m][k] <= DueAt(m, ring[m][i].val)'
                      /\ \A j \in DOMAIN mainOut[p] : IsNormal(mainOut[p][j])
                           => inflight[m][k] <= DueAt(m, mainOut[p][j].val)'
                      /\ inflight[m][k] <= DueAt(m, now[p] + Quantum)'
    BY <1>0 DEF TimersFirst, DueAt
  <2>1. /\ \A i \in DOMAIN ring[m] : IsNormal(ring[m][i])
             => inflight[m][k] <= DueAt(m, ring[m][i].val)
        /\ \A j \in DOMAIN mainOut[p] : IsNormal(mainOut[p][j])
             => inflight[m][k] <= DueAt(m, mainOut[p][j].val)
        /\ inflight[m][k] <= DueAt(m, now[p] + Quantum)
    BY <1>3 DEF Packets, TimersFirst
  <2>2. /\ now[p] + Quantum \in Nat /\ now'[p] + Quantum \in Nat
        /\ now[p] + Quantum <= now'[p] + Quantum
    BY <1>1, <1>2, <1>3
  <2>3. ASSUME NEW i \in DOMAIN ring[m], IsNormal(ring[m][i])
        PROVE  inflight[m][k] <= DueAt(m, ring[m][i].val)'
    BY <1>0, <1>5, <1>9, <2>1, <2>3 DEF DueAt
  <2>4. ASSUME NEW j \in DOMAIN mainOut[p], IsNormal(mainOut[p][j])
        PROVE  inflight[m][k] <= DueAt(m, mainOut[p][j].val)'
    BY <1>0, <1>5, <1>9, <2>1, <2>4 DEF DueAt
  <2>5. inflight[m][k] <= DueAt(m, now[p] + Quantum)'
    BY <1>9, <2>1, <2>2 DEF DueAt
  <2>6. QED
    BY <2>3, <2>4, <2>5
<1>11. QED
  BY <1>6, <1>7, <1>8, <1>10 DEF Packets

-----------------------------------------------------------------------------
(* All steps. *)

\* The main thread of n sends s, or Flexus does, and s holds no packet.
LEMMA MainSendsPackets ==
  ASSUME TypeOK, PacketInv, NEW n \in Nodes, NEW s, NoNormal(s), mainOut[n] = <<>>,
         mainOut' = [mainOut EXCEPT ![n] = s], UNCHANGED <<ring, now, inflight, flexusOut>>
  PROVE  PacketInv'
BY KeepsWhen, SilentStep DEF Silent, KeepsFlexus

LEMMA FlexusSendsPackets ==
  ASSUME TypeOK, PacketInv, NEW n \in Nodes, NEW s, NoNormal(s),
         flexusOut' = [flexusOut EXCEPT ![n] = s], UNCHANGED <<ring, now, inflight, mainOut>>
  PROVE  PacketInv'
BY KeepsWhen, SilentStep DEF Silent, KeepsMain

LEMMA NothingSaid ==
  ASSUME PacketInv, UNCHANGED <<ring, now, inflight, mainOut, flexusOut>> PROVE PacketInv'
BY SilentStep DEF Silent, KeepsMain, KeepsFlexus

\* Receiving a message of any type.
LEMMA ReceiveAnyOrder ==
  ASSUME TypeOK, TypeOK', PacketInv, NEW n \in Nodes, Receive(n) PROVE PacketInv'
<1> DEFINE Keeps == \A m \in Nodes : KeepsMain(m)
           Took == \E t \in MsgTypes : Receiving(n, t)
           Rest == UNCHANGED <<now, inflight, flexusOut>>
<1>1. Took /\ Rest /\ Keeps => PacketInv'
  BY RecvOtherOrder
<1>2. UNCHANGED mainOut => Keeps
  BY DEF KeepsMain
<1>3. CASE RecvNormal(n)
  BY <1>3, RecvNormalOrder
<1>4. CASE RecvSync(n) \/ RecvEnd(n)
  BY <1>1, <1>2, <1>4 DEF RecvSync, RecvEnd, MsgTypes, wwt
<1>5. CASE RecvDrainStart(n) \/ RecvDrainEnd(n) \/ RecvInitStep(n) \/ RecvIntent(n)
  BY <1>1, <1>2, <1>5 DEF RecvDrainStart, RecvDrainEnd, RecvInitStep, RecvIntent,
     MsgTypes, wwt
<1>6. CASE RecvPermission(n)
  <2> DEFINE e == [ex[n] EXCEPT !.permitted = TRUE]
  <2>1. ex[n] \in ExitFields
    BY DEF TypeOK
  <2>2. e \in ExitFields
    BY <2>1 DEF ExitFields
  <2>3. mainOut[n] = <<>> /\ mainOut' = [mainOut EXCEPT ![n] = EndIfPermitted(e)]
    BY <1>6 DEF RecvPermission, Receiving, MainReady
  <2>4. Keeps
    BY <2>2, <2>3, NoPacket, KeepsWhen
  <2>5. QED
    BY <1>1, <1>6, <2>4 DEF RecvPermission, MsgTypes, wwt
<1>7. CASE PollDone(n)
  BY <1>7, NothingSaid DEF PollDone, wire, wwt
<1>8. QED
  BY <1>3, <1>4, <1>5, <1>6, <1>7 DEF Receive

\* What QEMU's main loop dispatches.
LEMMA DispatchOrder ==
  ASSUME TypeOK, PacketInv, NEW n \in Nodes, Dispatch(n) PROVE PacketInv'
<1>1. CASE Deliver(n)
  BY <1>1, DeliverOrder
<1>2. CASE HostPoll(n) \/ PauseBh(n) \/ SetupWWT(n) \/ QuantaSync(n) \/ SyncCheck(n)
  BY <1>2, NothingSaid DEF HostPoll, PauseBh, SetupWWT, QuantaSync, SyncCheck, wire, wwt
<1>3. CASE CheckpointBH(n)
  <2> DEFINE s == DrainMessages(n) \o NotifyEndMessages(ex[n])
  <2>1. ex[n] \in ExitFields /\ mainOut[n] = <<>>
    BY <1>3 DEF TypeOK, CheckpointBH, InEventLoop, MainReady
  <2>2. NoNormal(s)
    BY <2>1, NoPacket, NoPacketJoined, EndType, DrainType
  <2>3. UNCHANGED mainOut \/ mainOut' = [mainOut EXCEPT ![n] = s]
    BY <1>3, Zenon DEF CheckpointBH
  <2>4. UNCHANGED <<ring, now, inflight, flexusOut>>
    BY <1>3 DEF CheckpointBH, wwt
  <2>5. QED
    BY <2>1, <2>2, <2>3, <2>4, MainSendsPackets, NothingSaid
<1>4. QED
  BY <1>1, <1>2, <1>3 DEF Dispatch

\* quanta_sync and wwt_sync_check.
LEMMA BoundaryOrder ==
  ASSUME TypeOK, PacketInv, NEW n \in Nodes, Boundary(n) PROVE PacketInv'
<1> DEFINE Quietly == UNCHANGED <<ring, now, inflight, flexusOut>>
           Says(s) == mainOut' = [mainOut EXCEPT ![n] = s]
<1>1. ex[n] \in ExitFields /\ round[n] \in Nat
  BY DEF TypeOK
<1>2. CASE NotifyAndSync(n)
  <2>1. SyncMessage(n) \in Seq(Message) /\ NoNormal(SyncMessage(n))
    BY <1>1, NoPacket, MsgSeq DEF SyncMessage, MsgTypes
  <2>2. NoNormal(DrainStart(n) \o SyncMessage(n))
    BY <2>1, NoPacket, NoPacketJoined, DrainType
  <2>3. mainOut[n] = <<>> /\ Says(DrainStart(n) \o SyncMessage(n)) /\ Quietly
    BY <1>2 DEF NotifyAndSync, MainAt, MainReady, wwt
  <2>4. QED
    BY <2>2, <2>3, MainSendsPackets
<1>3. CASE \/ CheckCount(n) \/ SpinOn(n) \/ SpinStop(n) \/ BoundaryCheckpoint(n)
           \/ BoundaryTooLate(n) \/ BoundaryPass(n) \/ Permit(n) \/ Advance(n) \/ Exit(n)
  BY <1>3, NothingSaid DEF CheckCount, SpinOn, SpinStop, BoundaryCheckpoint,
     BoundaryTooLate, BoundaryPass, Permit, Advance, Exit, wire, wwt
<1>4. CASE SpinDestroy(n)
  <2>1. mainOut[n] = <<>> /\ Says(NotifyEndMessages(ex[n])) /\ Quietly
    BY <1>4 DEF SpinDestroy, Destroy, MainAt, MainReady, wwt
  <2>2. QED
    BY <1>1, <2>1, NoPacket, MainSendsPackets
<1>5. CASE BoundaryNotify(n)
  <2>1. mainOut[n] = <<>> /\ Says(DrainStart(n)) /\ Quietly
    BY <1>5 DEF BoundaryNotify, MainAt, MainReady, wwt
  <2>2. QED
    BY <2>1, NoPacket, MainSendsPackets
<1>6. CASE PermitGrant(n)
  <2>1. mainOut[n] = <<>> /\ Says(<<Msg("PERMISSION", 0)>>) /\ Quietly
    BY <1>6 DEF PermitGrant, MainAt, MainReady, wwt
  <2>2. NoNormal(<<Msg("PERMISSION", 0)>>)
    BY NoPacket DEF MsgTypes
  <2>3. QED
    BY <2>1, <2>2, MainSendsPackets
<1>7. CASE PermitEnd(n)
  <2>1. mainOut[n] = <<>> /\ Says(EndIfPermitted(ex[n])) /\ Quietly
    BY <1>7 DEF PermitEnd, MainAt, MainReady, wwt
  <2>2. QED
    BY <1>1, <2>1, NoPacket, MainSendsPackets
<1>8. QED
  BY <1>2, <1>3, <1>4, <1>5, <1>6, <1>7 DEF Boundary

\* Flexus.
LEMMA FlexusOrder ==
  ASSUME TypeOK, PacketInv, NEW n \in Nodes, FlexusThread(n) \/ FinishInitiate(n)
  PROVE  PacketInv'
<1> DEFINE Quietly == UNCHANGED <<ring, now, inflight, mainOut>>
           Says(s) == flexusOut' = [flexusOut EXCEPT ![n] = s]
<1>1. Quietly /\ UNCHANGED flexusOut => PacketInv'
  BY NothingSaid
<1>2. ASSUME Quietly, NEW t \in MsgTypes \ {"NORMAL"}, Says(<<>>) \/ Says(<<Msg(t, 0)>>)
      PROVE  PacketInv'
  BY <1>2, NoPacket, FlexusSendsPackets
<1>3. CASE FlexusSend(n)
  BY <1>3, FlexusSendOrder
<1>4. CASE CanStop(n)
  <2>1. UNCHANGED flexusOut \/ Says(<<>>) \/ Says(<<Msg("INTENT", 0)>>)
    BY <1>4, Zenon DEF CanStop
  <2>2. Quietly
    BY <1>4 DEF CanStop, wwt
  <2>3. QED
    BY <1>1, <1>2, <2>1, <2>2 DEF MsgTypes
<1>5. CASE CanStopGrant(n)
  BY <1>2, <1>5 DEF CanStopGrant, MsgTypes, wwt
<1>6. CASE CanStopEnd(n)
  <2>1. Says(EndIfPermitted(ex[n])) /\ Quietly /\ ex[n] \in ExitFields
    BY <1>6 DEF CanStopEnd, TypeOK, wwt
  <2>2. QED
    BY <2>1, NoPacket, FlexusSendsPackets
<1>7. CASE CanStopAnswer(n) \/ SetCheckpointFlags(n) \/ SetCheckpointRound(n)
  BY <1>1, <1>7 DEF CanStopAnswer, SetCheckpointFlags, SetCheckpointRound, wire, wwt
<1>8. CASE FinishInitiate(n)
  <2>1. UNCHANGED flexusOut \/ Says(<<Msg("INIT_STEP", 0)>>)
    BY <1>8, Zenon DEF FinishInitiate
  <2>2. Quietly
    BY <1>8 DEF FinishInitiate, wwt
  <2>3. QED
    BY <1>1, <1>2, <2>1, <2>2 DEF MsgTypes
<1>9. QED
  BY <1>3, <1>4, <1>5, <1>6, <1>7, <1>8 DEF FlexusThread

\* At first there is no packet.
LEMMA PacketInitial == Init => PacketInv
BY DEF Init, InitWWT, InitEngine, PacketInv, PacketsInOrder, SendsOnePacket, RingSorted,
   TimersFirst

\* Every step keeps the packets sorted.
LEMMA PacketStep == ASSUME TypeOK, PacketInv, [Next]_vars PROVE PacketInv'
<1>0. TypeOK'
  BY TypeStep
<1>1. CASE UNCHANGED vars
  BY <1>1, NothingSaid DEF vars, wire, wwt
<1>2. ASSUME NEW n \in Nodes, MainThread(n) PROVE PacketInv'
  BY <1>0, <1>2, MainSendOrder, ReceiveAnyOrder, DispatchOrder, BoundaryOrder DEF MainThread
<1>3. ASSUME NEW n \in Nodes, FlexusThread(n) \/ FinishInitiate(n) PROVE PacketInv'
  BY <1>3, FlexusOrder
<1>4. ASSUME NEW n \in Nodes, Tick(n) \/ SendPacket(n) PROVE PacketInv'
  BY <1>0, <1>4, TickOrder, SendPacketOrder
<1>5. QED
  BY <1>1, <1>2, <1>3, <1>4 DEF Next

-----------------------------------------------------------------------------
(* The theorems. *)

\* From the sender's clock to the receiver's timers packets stay sorted, for every
\* latency, ring size, mode and number of rounds (pdes-wwt.c:203-231, 246-268).
THEOREM PacketInductive == Spec => []PacketInv
<1>1. Init => TypeOK /\ PacketInv
  BY InitType, PacketInitial
<1>2. TypeOK /\ PacketInv /\ [Next]_vars => TypeOK' /\ PacketInv'
  BY TypeStep, PacketStep
<1>3. QED
  BY <1>1, <1>2, PTL DEF Spec

\* pdes-wwt.c:203-231: the delivery timers expire in the order in which the packets
\* were sent, with barriers or without.
THEOREM NoPacketOvertakes == Spec => []PacketsInOrder
<1>1. PacketInv => PacketsInOrder
  BY DEF PacketInv
<1>2. QED
  BY <1>1, PacketInductive, PTL

\* pdes-wwt.c:246-268: with barriers a packet is received at most one quantum
\* before the quantum it is due in.
THEOREM TimersReachOneQuantum ==
  ASSUME KeysSuffice, ShouldSync PROVE Spec => []DueSoon
<1>1. ASSUME SyncInv, TimeInv, PacketInv PROVE DueSoon
  <2> SUFFICES ASSUME NEW n \in Nodes, NEW i \in DOMAIN inflight[n]
               PROVE  inflight[n][i] <= (AnnouncedRounds(n) + 1) * Quantum
    BY DEF DueSoon
  <2> DEFINE p == Peer(n)
             a == AnnouncedRounds(n)
  <2>1. p \in Nodes /\ Peer(p) = n /\ Quantum \in Nat
    BY PeerNodes, SizeAssumption
  <2>2. now[p] \in Nat /\ round[p] \in Nat /\ inflight[n] \in Seq(Nat)
    BY <1>1, <2>1 DEF SyncInv, TypeOK
  <2>3. inflight[n][i] <= now[p] + Quantum
    BY <1>1 DEF PacketInv, TimersFirst, DueAt
  <2>4. now[p] <= round[p] * Quantum
    BY <1>1, <2>1 DEF TimeInv, ClockInv
  <2>5. round[p] <= a /\ a \in Nat
    BY <1>1, <2>1, PeerAnnounced
  <2>6. round[p] * Quantum <= a * Quantum /\ round[p] * Quantum \in Nat
    BY <2>2, <2>5, MulMono, MulNext
  <2>7. (a + 1) * Quantum = a * Quantum + Quantum /\ a * Quantum \in Nat
    BY <2>5, MulNext
  <2>8. inflight[n][i] \in Nat
    BY <2>2
  <2>9. QED
    BY <2>1, <2>2, <2>3, <2>4, <2>6, <2>7, <2>8
<1>2. TimedInv /\ PacketInv => DueSoon
  BY <1>1 DEF TimedInv, InductiveInv
<1>3. QED
  BY <1>2, TimedInductive, PacketInductive, PTL
=============================================================================
