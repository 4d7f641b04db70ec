---------------------------- MODULE PdesCutProofs ---------------------------
(***************************************************************************)
(* CutInv is inductive with barriers, a pause that waits and a master that *)
(* signals last: DRAIN_START is ahead of the SYNC of its round all the way *)
(* to the follower, so the two snapshots are of the same round.            *)
(* RequestTold is inductive without barriers: the follower hears of every  *)
(* checkpoint, if not in time for the same round.                          *)
(***************************************************************************)
EXTENDS PdesExitProofs

\* What is known before a step.
CutBase ==
  /\ TypeOK /\ TypeOK' /\ SyncInv /\ BhInv /\ ClockInv /\ GrantAlone /\ CutInv
  /\ ShouldSync /\ PauseWaits /\ MasterLast /\ KeysSuffice

-----------------------------------------------------------------------------
(* DRAIN_START under way. *)

\* A step that sends the follower no DRAIN_START; it may receive one.
KeepsDrains ==
  /\ mainOut'[Master] = mainOut[Master] \/ ~Carries(mainOut'[Master], "DRAIN_START")
  /\ flexusOut'[Master] = flexusOut[Master] \/ ~Carries(flexusOut'[Master], "DRAIN_START")
  /\ \/ ring'[Follower] = ring[Follower]
     \/ ring[Follower] # <<>> /\ ring'[Follower] = Tail(ring[Follower])

\* DRAIN_START has left the master and has not been received.
Draining ==
  Carries(mainOut[Master], "DRAIN_START") \/ Carries(ring[Follower], "DRAIN_START")

\* The SYNC of the master's round is not counted while DRAIN_START is ahead of it.
CountsNone ==
  Draining => (round[Master] \in synced'[Follower] => round[Master] \in synced[Follower])

\* Nobody takes the request back, or its round.
KeepsAsked == Asked => Asked' /\ round'[Master] = round[Master]

LEMMA DrainKept ==
  ASSUME CutBase, KeepsDrains, CountsNone, KeepsAsked PROVE DrainInv'
<1> DEFINE r == round[Master]
<1>1. DrainInv /\ TypeOK /\ TypeOK'
  BY DEF CutBase, CutInv
<1>2. ring[Follower] \in Seq(Message) /\ mainOut[Master] \in Seq(Message)
  BY <1>1, TwoNodes DEF TypeOK
<1>3. ~Draining \/ (Asked /\ r \notin synced[Follower])
  BY <1>1 DEF DrainInv, Draining, Carries, IsDrainStart
<1>4. Draining => Asked' /\ round'[Master] = r /\ r \notin synced'[Follower]
  BY <1>3 DEF CountsNone, KeepsAsked
<1>5. ASSUME NEW i \in DOMAIN flexusOut'[Master] PROVE ~IsDrainStart(flexusOut'[Master][i])
  BY <1>1, <1>5 DEF KeepsDrains, DrainInv, Carries, IsDrainStart
<1>6. \A j \in DOMAIN ring'[Follower] :
        \/ ring'[Follower] = ring[Follower]
        \/ j + 1 \in DOMAIN ring[Follower] /\ ring'[Follower][j] = ring[Follower][j + 1]
  BY <1>2, TailElements DEF KeepsDrains
<1>7. ASSUME NEW i \in DOMAIN mainOut'[Master], IsDrainStart(mainOut'[Master][i])
      PROVE  /\ Asked' /\ mainOut'[Master][i].val = round'[Master]
             /\ round'[Master] \notin synced'[Follower]
             /\ \A j \in DOMAIN ring'[Follower] : ~IsSyncOf(ring'[Follower][j], round'[Master])
             /\ \A j \in DOMAIN mainOut'[Master] :
                  j < i => ~IsSyncOf(mainOut'[Master][j], round'[Master])
  <2>1. mainOut'[Master] = mainOut[Master]
    BY <1>7 DEF KeepsDrains, Carries, IsDrainStart
  <2>2. i \in DOMAIN mainOut[Master] /\ IsDrainStart(mainOut[Master][i])
    BY <1>7, <2>1
  <2>3. Draining
    BY <2>2 DEF Draining, Carries, IsDrainStart
  <2>4. Asked' /\ round'[Master] = r /\ r \notin synced'[Follower]
    BY <1>4, <2>3
  <2>5. /\ mainOut[Master][i].val = r
        /\ \A j \in DOMAIN ring[Follower] : ~IsSyncOf(ring[Follower][j], r)
        /\ \A j \in DOMAIN mainOut[Master] : j < i => ~IsSyncOf(mainOut[Master][j], r)
    BY <1>1, <2>2 DEF DrainInv
  <2>6. \A j \in DOMAIN ring'[Follower] : ~IsSyncOf(ring'[Follower][j], r)
    BY <1>6, <2>5
  <2>7. QED
    BY <2>1, <2>4, <2>5, <2>6
<1>8. ASSUME NEW i \in DOMAIN ring'[Follower], IsDrainStart(ring'[Follower][i])
      PROVE  /\ Asked' /\ ring'[Follower][i].val = round'[Master]
             /\ round'[Master] \notin synced'[Follower]
             /\ \A j \in DOMAIN ring'[Follower] :
                  j < i => ~IsSyncOf(ring'[Follower][j], round'[Master])
  <2>1. CASE ring'[Follower] = ring[Follower]
    <3>1. Draining
      BY <1>8, <2>1 DEF Draining, Carries, IsDrainStart
    <3>2. Asked' /\ round'[Master] = r /\ r \notin synced'[Follower]
      BY <1>4, <3>1
    <3>3. QED
      BY <1>1, <1>8, <2>1, <3>2 DEF DrainInv
  <2>2. CASE ring[Follower] # <<>> /\ ring'[Follower] = Tail(ring[Follower])
    <3>1. /\ i + 1 \in DOMAIN ring[Follower] /\ ring'[Follower][i] = ring[Follower][i + 1]
          /\ \A j \in DOMAIN ring'[Follower] :
               j + 1 \in DOMAIN ring[Follower] /\ ring'[Follower][j] = ring[Follower][j + 1]
      BY <1>2, <1>8, <2>2, TailElements
    <3>2. Draining
      BY <1>8, <3>1 DEF Draining, Carries, IsDrainStart
    <3>3. Asked' /\ round'[Master] = r /\ r \notin synced'[Follower]
      BY <1>4, <3>2
    <3>4. /\ ring[Follower][i + 1].val = r
          /\ \A j \in DOMAIN ring[Follower] : j < i + 1 => ~IsSyncOf(ring[Follower][j], r)
      BY <1>1, <1>8, <3>1 DEF DrainInv
    <3>5. ASSUME NEW j \in DOMAIN ring'[Follower], j < i
          PROVE  ~IsSyncOf(ring'[Follower][j], r)
      <4>1. i \in Int /\ j \in Int
        <5>1. ring'[Follower] \in Seq(Message)
          BY <1>1, TwoNodes DEF TypeOK
        <5>2. QED
          BY <5>1
      <4>2. j + 1 < i + 1
        BY <3>5, <4>1
      <4>3. QED
        BY <3>1, <3>4, <4>2
    <3>6. QED
      BY <3>1, <3>3, <3>4, <3>5
  <2>3. QED
    BY <2>1, <2>2 DEF KeepsDrains
<1>9. QED
  BY <1>5, <1>7, <1>8 DEF DrainInv

-----------------------------------------------------------------------------
(* Steps that leave the request alone. *)

\* What the invariant reads of the checkpoint's fields stays.
KeepsRequest ==
  /\ \A n \in Nodes :
       /\ ck'[n].needs = ck[n].needs /\ ck'[n].ckround = ck[n].ckround
       /\ ck'[n].bh = ck[n].bh /\ ck'[n].saved = ck[n].saved
  /\ ck'[Master].signalled = ck[Master].signalled
  /\ ck'[Master].masterInit = ck[Master].masterInit
  /\ ck'[Master].notified = ck[Master].notified
  /\ ck[Master].initFlag >= 1 => ck'[Master].initFlag >= 1

\* Neither Flexus begins or ends to set the master's request.
KeepsSetting ==
  \A n \in Nodes :
    flexus'[n] = flexus[n] \/ (~SettingCheckpoint(n) /\ ~SettingCheckpoint(n)')

\* The main thread of n goes where the request lets it.
Moves(n) ==
  \/ main'[n] = main[n]
  \/ /\ ~SettingCheckpoint(n) /\ main[n] \notin {"closing", "exiting"}
     /\ n = Master /\ ck[n].needs =>
          /\ Announced(n)' = Announced(n)
          /\ main'[n] \notin {"setup", "permit", "grant", "end", "advance", "exiting"}
     /\ n = Follower /\ ck[n].needs /\ main'[n] = "advance" => round[n] < ck[n].ckround

LEMMA RequestStays ==
  ASSUME CutBase, KeepsRequest, KeepsSetting, Moves(Master), UNCHANGED round
  PROVE  RequestInv'
<1>1. RequestInv /\ CutInv
  BY DEF CutBase, CutInv
<1>2. ~SettingCheckpoint(Follower)'
  BY <1>1, TwoNodes DEF RequestInv, KeepsSetting, SettingCheckpoint
<1>3. SettingCheckpoint(Master)' => SettingCheckpoint(Master) /\ flexus'[Master] = flexus[Master]
  BY TwoNodes DEF KeepsSetting, SettingCheckpoint
<1>4. /\ ck'[Master].needs = ck[Master].needs /\ ck'[Master].ckround = ck[Master].ckround
      /\ ck'[Master].bh = ck[Master].bh /\ ck'[Master].saved = ck[Master].saved
      /\ ck'[Master].signalled = ck[Master].signalled
      /\ ck'[Master].masterInit = ck[Master].masterInit
      /\ ck'[Master].notified = ck[Master].notified
      /\ ck[Master].initFlag >= 1 => ck'[Master].initFlag >= 1
  BY TwoNodes DEF KeepsRequest
<1>5. SettingCheckpoint(Master) => main'[Master] = main[Master]
  BY DEF Moves
<1>6. ck[Master].needs => Announced(Master)' = Announced(Master)
  BY DEF Moves, Announced
<1>7. ck[Master].needs =>
        main'[Master] \notin {"setup", "permit", "grant", "end", "advance", "exiting"}
  BY <1>1 DEF Moves, RequestInv
<1>8. ck[Master].saved # {} => main'[Master] = "exiting"
  BY <1>1 DEF Moves, RequestInv
<1>9. flexus'[Master] # "setround" => flexus[Master] # "setround"
  BY TwoNodes DEF KeepsSetting, SettingCheckpoint
<1>10. QED
  BY <1>1, <1>2, <1>3, <1>4, <1>5, <1>6, <1>7, <1>8, <1>9 DEF RequestInv

\* So nobody takes it back, and nobody makes one.
LEMMA AskedStays ==
  ASSUME CutBase, KeepsRequest, Moves(Master), UNCHANGED round PROVE Asked' <=> Asked
<1>1. ck'[Master].needs = ck[Master].needs /\ ck'[Master].saved = ck[Master].saved
  BY TwoNodes DEF KeepsRequest
<1>2. ck[Master].needs => Announced(Master)' = Announced(Master)
  BY DEF Moves, Announced
<1>3. QED
  BY <1>1, <1>2 DEF Asked

\* What the follower has adopted.
LEMMA AdoptedStays ==
  ASSUME CutBase, KeepsRequest, Moves(Follower), UNCHANGED round, Asked' <=> Asked
  PROVE  AdoptedInv'
<1>1. AdoptedInv
  BY DEF CutBase, CutInv
<1>2. /\ ck'[Follower].needs = ck[Follower].needs /\ ck'[Follower].ckround = ck[Follower].ckround
      /\ ck'[Follower].bh = ck[Follower].bh
  BY TwoNodes DEF KeepsRequest
<1>3. ck[Follower].needs /\ main'[Follower] = "advance" => round[Follower] < round[Master]
  BY <1>1 DEF Moves, AdoptedInv
<1>4. main[Follower] = "closing" => main'[Follower] = "closing"
  BY DEF Moves
<1>5. QED
  BY <1>1, <1>2, <1>3, <1>4 DEF AdoptedInv

\* Nothing of the checkpoint happens in this step.
LEMMA CutStays ==
  ASSUME CutBase, KeepsRequest, KeepsSetting, UNCHANGED round,
         \A n \in Nodes : Moves(n),
         KeepsDrains, CountsNone,
         Carries(mainOut[Master], "DRAIN_START") => mainOut'[Master] = mainOut[Master],
         Carries(ring[Follower], "DRAIN_START") => Carries(ring'[Follower], "DRAIN_START"),
         \A n \in Nodes : status'[n] = status[n] \/ status'[n] # "abort_ckpt"
  PROVE  CutInv'
<1>1. Moves(Master) /\ Moves(Follower)
  BY TwoNodes
<1>2. Asked' <=> Asked
  BY <1>1, AskedStays
<1>3. RequestInv' /\ AdoptedInv'
  BY <1>1, <1>2, RequestStays, AdoptedStays
<1>4. DrainInv'
  BY <1>2, DrainKept DEF KeepsAsked
<1>5. RequestKept'
  <2>1. RequestKept
    BY DEF CutBase, CutInv
  <2>2. ck'[Follower].needs = ck[Follower].needs /\ ck'[Follower].saved = ck[Follower].saved
    BY TwoNodes DEF KeepsRequest
  <2>3. main[Follower] \in {"closing", "exiting"} => main'[Follower] = main[Follower]
    BY <1>1 DEF Moves
  <2>4. QED
    BY <1>2, <2>1, <2>2, <2>3 DEF RequestKept
<1>6. CheckpointNotPassed'
  BY DEF CutBase, CutInv, CheckpointNotPassed
<1>7. QED
  BY <1>3, <1>4, <1>5, <1>6 DEF CutInv

-----------------------------------------------------------------------------
(* What is received. *)

\* A message other than the request leaves the ring of n, and n says s or nothing.
LEMMA TakesAnyCut ==
  ASSUME CutBase, NEW n \in Nodes, NEW t \in MsgTypes, Receiving(n, t),
         n = Follower => t # "DRAIN_START",
         KeepsRequest, UNCHANGED <<main, flexus, round, flexusOut>>, CountsNone,
         NEW s, ~Carries(s, "DRAIN_START"),
         mainOut' = mainOut \/ mainOut' = [mainOut EXCEPT ![n] = s],
         \A m \in Nodes : status'[m] = status[m] \/ status'[m] # "abort_ckpt"
  PROVE  CutInv'
<1>1. /\ ring \in [Nodes -> Seq(Message)] /\ mainOut \in [Nodes -> Seq(Message)]
      /\ ring' = [ring EXCEPT ![n] = Tail(ring[n])] /\ ring[n] # <<>> /\ Head(ring[n]).type = t
      /\ mainOut[n] = <<>>
  BY DEF CutBase, TypeOK, Receiving, MainReady
<1>2. KeepsSetting /\ \A m \in Nodes : Moves(m)
  BY DEF KeepsSetting, Moves
<1>3. \/ ring'[Follower] = ring[Follower]
      \/ n = Follower /\ ring[Follower] # <<>> /\ ring'[Follower] = Tail(ring[Follower])
  BY <1>1, TwoNodes
<1>4. \/ mainOut'[Master] = mainOut[Master]
      \/ n = Master /\ mainOut'[Master] = s
  BY <1>1, TwoNodes
<1>5. Carries(mainOut[Master], "DRAIN_START") => mainOut'[Master] = mainOut[Master]
  BY <1>1, <1>4, CarriesNothing
<1>6. Carries(ring[Follower], "DRAIN_START") => Carries(ring'[Follower], "DRAIN_START")
  <2>1. ASSUME n = Follower
        PROVE  Carries(ring[n], "DRAIN_START") => Carries(Tail(ring[n]), "DRAIN_START")
    BY <1>1, <2>1, CarriesTail
  <2>2. QED
    BY <1>1, <1>3, <2>1
<1>7. KeepsDrains
  BY <1>3, <1>4 DEF KeepsDrains
<1>8. QED
  BY <1>2, <1>5, <1>6, <1>7, CutStays

\* The SYNC that the follower counts is of an earlier round than a request under
\* way.
LEMMA CountsBefore ==
  ASSUME CutBase, NEW n \in Nodes, RecvSync(n) PROVE CountsNone
<1> DEFINE h == Head(ring[n])
<1>1. /\ TypeOK /\ DrainInv /\ SyncInv
      /\ ring[n] \in Seq(Message) /\ ring[n] # <<>> /\ h.type = "SYNC"
  BY DEF CutBase, CutInv, TypeOK, RecvSync, Receiving
<1>2. CASE synced'[Follower] = synced[Follower]
  BY <1>2 DEF CountsNone
<1>3. CASE n = Follower /\ synced' = [synced EXCEPT ![n] = synced[n] \cup {Key(h.val)}]
  <2>1. 1 \in DOMAIN ring[n] /\ h = ring[n][1] /\ \A i \in DOMAIN ring[n] : i # 1 => 1 < i
    BY <1>1
  <2>2. h.val \in Nat
    <3>1. h \in Message
      BY <1>1
    <3>2. QED
      BY <3>1 DEF Message
  <2>3. h.val < AnnouncedRounds(Master)
    BY <1>1, <1>3, <2>1, TwoNodes DEF SyncInv, RingInv, RingAnnounced, IsSync
  <2>4. h.val \in 0 .. MaxRound
    <3>1. AnnouncedRounds(Master) <= MaxRound + 1
      BY <1>1, TwoNodes DEF SyncInv, BoundInv
    <3>2. AnnouncedRounds(Master) \in Nat /\ MaxRound \in Nat
      <4>1. round[Master] \in Nat
        BY <1>1, TwoNodes DEF TypeOK
      <4>2. QED
        BY <4>1, BoundAssumption DEF AnnouncedRounds
    <3>3. QED
      BY <2>2, <2>3, <3>1, <3>2
  <2>5. Key(h.val) = h.val
    BY <2>4, KeyId DEF CutBase
  <2>6. Draining => h.val # round[Master]
    <3>1. CASE Carries(mainOut[Master], "DRAIN_START")
      <4>1. ~IsSyncOf(ring[Follower][1], round[Master])
        BY <1>1, <1>3, <2>1, <3>1 DEF DrainInv, Carries, IsDrainStart
      <4>2. QED
        BY <1>1, <1>3, <2>1, <4>1 DEF IsSyncOf, IsSync
    <3>2. CASE Carries(ring[Follower], "DRAIN_START")
      <4>1. PICK i \in DOMAIN ring[Follower] : ring[Follower][i].type = "DRAIN_START"
        BY <3>2 DEF Carries
      <4>2. 1 < i
        BY <1>1, <1>3, <2>1, <4>1
      <4>3. ~IsSyncOf(ring[Follower][1], round[Master])
        BY <1>1, <1>3, <2>1, <4>1, <4>2 DEF DrainInv, IsDrainStart
      <4>4. QED
        BY <1>1, <1>3, <2>1, <4>3 DEF IsSyncOf, IsSync
    <3>3. QED
      BY <3>1, <3>2 DEF Draining
  <2>7. synced'[Follower] = synced[Follower] \cup {h.val}
    BY <1>1, <1>3, <2>5 DEF TypeOK
  <2>8. QED
    BY <2>6, <2>7 DEF CountsNone
<1>4. QED
  <2>1. UNCHANGED synced \/ synced' = [synced EXCEPT ![n] = synced[n] \cup {Key(h.val)}]
    BY Zenon DEF RecvSync
  <2>2. n # Follower => synced'[Follower] = synced[Follower]
    BY <1>1, <2>1, TwoNodes DEF TypeOK
  <2>3. QED
    BY <1>2, <1>3, <2>1, <2>2

\* The follower adopts the request of a round it has not left.
LEMMA AdoptsCut == ASSUME CutBase, RecvDrainStart(Follower) PROVE CutInv'
<1> DEFINE r == round[Master]
           h == Head(ring[Follower])
<1>1. /\ TypeOK /\ TypeOK' /\ CutInv /\ DrainInv /\ AdoptedInv /\ RequestKept /\ SyncInv
      /\ ring[Follower] \in Seq(Message) /\ ring[Follower] # <<>> /\ h.type = "DRAIN_START"
      /\ ring'[Follower] = Tail(ring[Follower])
  BY TwoNodes DEF CutBase, CutInv, TypeOK, RecvDrainStart, Receiving
<1>2. UNCHANGED <<status, main, flexus, round, synced, mainOut, flexusOut>>
  BY DEF RecvDrainStart, ctl, wwt
<1>3. 1 \in DOMAIN ring[Follower] /\ h = ring[Follower][1]
  BY <1>1
<1>4. Asked /\ h.val = r /\ r \notin synced[Follower]
  BY <1>1, <1>3 DEF DrainInv, IsDrainStart
<1>5. round[Follower] \in Nat /\ r \in Nat
  BY <1>1, TwoNodes DEF TypeOK
<1>6. round[Follower] <= r
  <2>1. \A q \in 0 .. round[Follower] - 1 : q \in synced[Follower]
    BY <1>1, TwoNodes DEF SyncInv, CountInv, CutBase
  <2>2. QED
    BY <1>4, <1>5, <2>1
<1>7. main[Follower] = "advance" => round[Follower] < r
  <2>1. main[Follower] = "advance" => round[Follower] \in synced[Follower]
    BY <1>1, TwoNodes DEF SyncInv, WaitInv, PassedWait, CutBase
  <2>2. QED
    BY <1>4, <1>5, <1>6, <2>1
<1>8. /\ ck' = [ck EXCEPT ![Follower] = [ck[Follower] EXCEPT !.needs = TRUE, !.ckround = r]]
      /\ ck[Follower] \in CkptFields
  BY <1>1, <1>4, TwoNodes DEF RecvDrainStart, TypeOK
<1>9. /\ ck'[Master] = ck[Master]
      /\ ck'[Follower].needs /\ ck'[Follower].ckround = r
      /\ ck'[Follower].bh = ck[Follower].bh /\ ck'[Follower].saved = ck[Follower].saved
  BY <1>1, <1>8, TwoNodes DEF CkptFields, TypeOK
<1>10. Asked'
  BY <1>2, <1>4, <1>9 DEF Asked, Announced
<1>11. RequestInv'
  BY <1>1, <1>2, <1>9 DEF CutInv, RequestInv, SettingCheckpoint, Announced
<1>12. DrainInv'
  BY <1>1, <1>2, <1>10, DrainKept DEF KeepsDrains, CountsNone, KeepsAsked
<1>13. AdoptedInv'
  BY <1>1, <1>2, <1>6, <1>7, <1>9, <1>10 DEF AdoptedInv
<1>14. RequestKept'
  BY <1>9 DEF RequestKept
<1>15. CheckpointNotPassed'
  BY <1>1, <1>2 DEF CutInv, CheckpointNotPassed
<1>16. QED
  BY <1>11, <1>12, <1>13, <1>14, <1>15 DEF CutInv

\* The master was ready before it got the follower's INIT_STEP, or is not yet: so
\* this message does not request the checkpoint.
LEMMA InitStepKeeps ==
  ASSUME CutBase, NEW n \in Nodes, RecvInitStep(n) PROVE KeepsRequest
<1> DEFINE c == [ck[n] EXCEPT !.initFlag = ck[n].initFlag + 1]
<1>1. TypeOK /\ RequestInv /\ ck[n] \in CkptFields
  BY DEF CutBase, CutInv, TypeOK
<1>2. /\ c.initFlag = ck[n].initFlag + 1 /\ c.masterInit = ck[n].masterInit
      /\ c.needs = ck[n].needs /\ c.notified = ck[n].notified /\ c.ckround = ck[n].ckround
      /\ c.bh = ck[n].bh /\ c.saved = ck[n].saved /\ c.signalled = ck[n].signalled
      /\ ck[n].initFlag \in Nat
  BY <1>1 DEF CkptFields
<1>3. ~(n = Master /\ c.initFlag = 1 /\ c.masterInit)
  BY <1>1, <1>2 DEF RequestInv
<1>4. ck' = [ck EXCEPT ![n] = c]
  BY <1>3, Zenon DEF RecvInitStep
<1>5. ck'[n] = c /\ \A m \in Nodes \ {n} : ck'[m] = ck[m]
  BY <1>1, <1>4 DEF TypeOK
<1> HIDE DEF c
<1>6. QED
  BY <1>2, <1>5, TwoNodes DEF KeepsRequest

\* What the functions that send say to the follower.
LEMMA SpeechCut ==
  ASSUME TypeOK, NEW n \in Nodes
  PROVE  /\ \A t \in MsgTypes \ {"DRAIN_START"}, v \in Nat :
              ~Carries(<<Msg(t, v)>>, "DRAIN_START")
         /\ ~Carries(<<>>, "DRAIN_START")
         /\ ~Carries(EndIfPermitted(ex[n]), "DRAIN_START")
         /\ ~Carries(NotifyEndMessages(ex[n]), "DRAIN_START")
         /\ ~Carries(DrainMessages(n) \o NotifyEndMessages(ex[n]), "DRAIN_START")
         /\ ~ck[n].needs => ~Carries(DrainStart(n) \o SyncMessage(n), "DRAIN_START")
<1>1. /\ \A t \in MsgTypes \ {"DRAIN_START"}, v \in Nat : ~Carries(<<Msg(t, v)>>, "DRAIN_START")
      /\ ~Carries(<<>>, "DRAIN_START")
  BY CarriesNothing, CarriesOne DEF MsgTypes
<1>2. \A e : ~Carries(EndIfPermitted(e), "DRAIN_START")
  BY <1>1 DEF EndIfPermitted, MsgTypes
<1>3. \A e : ~Carries(NotifyEndMessages(e), "DRAIN_START")
  BY <1>1, <1>2 DEF NotifyEndMessages
<1>4. ~Carries(DrainMessages(n), "DRAIN_START")
  BY <1>1 DEF DrainMessages, MsgTypes
<1>5. ~Carries(DrainMessages(n) \o NotifyEndMessages(ex[n]), "DRAIN_START")
  <2>1. ex[n] \in ExitFields
    BY DEF TypeOK
  <2>2. DrainMessages(n) \in Seq(Message) /\ NotifyEndMessages(ex[n]) \in Seq(Message)
    BY <2>1, DrainType, EndType
  <2>3. QED
    BY <1>3, <1>4, <2>2, CarriesJoined
<1>6. ASSUME ~ck[n].needs PROVE ~Carries(DrainStart(n) \o SyncMessage(n), "DRAIN_START")
  <2>1. DrainStart(n) = <<>>
    BY <1>6 DEF DrainStart, OwesDrainStart
  <2>2. round[n] \in Nat
    BY DEF TypeOK
  <2>3. SyncMessage(n) \in Seq(Message) /\ ~Carries(SyncMessage(n), "DRAIN_START")
    BY <1>1, <2>2, MsgSeq DEF SyncMessage, MsgTypes
  <2>4. DrainStart(n) \o SyncMessage(n) = SyncMessage(n)
    BY <2>1, <2>3
  <2>5. QED
    BY <2>3, <2>4
<1>7. QED
  BY <1>1, <1>2, <1>3, <1>5, <1>6

LEMMA ReceiveCut == ASSUME CutBase, NEW n \in Nodes, Receive(n) PROVE CutInv'
<1>0. TypeOK /\ ex[n] \in ExitFields /\ ~Carries(<<>>, "DRAIN_START")
  BY CarriesNothing DEF CutBase, TypeOK
<1>1. UNCHANGED ck => KeepsRequest
  BY DEF KeepsRequest
<1>2. UNCHANGED synced => CountsNone
  BY DEF CountsNone
<1>3. CASE RecvNormal(n)
  <2>1. \A m \in Nodes : status'[m] = status[m] \/ status'[m] # "abort_ckpt"
    BY <1>0, <1>3 DEF RecvNormal, Abort, TypeOK
  <2>2. Receiving(n, "NORMAL") /\ UNCHANGED <<main, flexus, round, synced, ck, mainOut, flexusOut>>
    BY <1>3 DEF RecvNormal
  <2>3. QED
    BY <1>0, <1>1, <1>2, <2>1, <2>2, TakesAnyCut DEF MsgTypes
<1>4. CASE RecvSync(n)
  <2>1. \A m \in Nodes : status'[m] = status[m] \/ status'[m] # "abort_ckpt"
    BY <1>0, <1>4 DEF RecvSync, Abort, TypeOK
  <2>2. Receiving(n, "SYNC") /\ UNCHANGED <<main, flexus, round, ck, mainOut, flexusOut>>
    BY <1>4 DEF RecvSync
  <2>3. QED
    BY <1>0, <1>1, <1>4, <2>1, <2>2, CountsBefore, TakesAnyCut DEF MsgTypes
<1>5. CASE RecvDrainStart(n)
  <2>1. CASE n = Follower
    BY <1>5, <2>1, AdoptsCut
  <2>2. CASE n = Master
    <3>1. /\ Receiving(n, "DRAIN_START")
          /\ UNCHANGED <<status, main, flexus, round, synced, ck, mainOut, flexusOut>>
      BY <1>5, <2>2 DEF RecvDrainStart, ctl, wwt
    <3>2. QED
      BY <1>0, <1>1, <1>2, <2>2, <3>1, TwoNodes, TakesAnyCut DEF MsgTypes
  <2>3. QED
    BY <2>1, <2>2, TwoNodes
<1>6. CASE RecvDrainEnd(n)
  <2>1. /\ Receiving(n, "DRAIN_END")
        /\ UNCHANGED <<status, main, flexus, round, synced, ck, mainOut, flexusOut>>
    BY <1>6 DEF RecvDrainEnd, ctl, wwt
  <2>2. QED
    BY <1>0, <1>1, <1>2, <2>1, TakesAnyCut DEF MsgTypes
<1>7. CASE RecvInitStep(n)
  <2>1. /\ Receiving(n, "INIT_STEP")
        /\ UNCHANGED <<status, main, flexus, round, synced, mainOut, flexusOut>>
    BY <1>7 DEF RecvInitStep, ctl, wwt
  <2>2. QED
    BY <1>0, <1>2, <1>7, <2>1, InitStepKeeps, TakesAnyCut DEF MsgTypes
<1>8. CASE RecvIntent(n)
  <2>1. /\ Receiving(n, "INTENT")
        /\ UNCHANGED <<status, main, flexus, round, synced, ck, mainOut, flexusOut>>
    BY <1>8 DEF RecvIntent, ctl, wwt
  <2>2. QED
    BY <1>0, <1>1, <1>2, <2>1, TakesAnyCut DEF MsgTypes
<1>9. CASE RecvPermission(n)
  <2> DEFINE e == [ex[n] EXCEPT !.permitted = TRUE]
             s == EndIfPermitted(e)
  <2>1. /\ Receiving(n, "PERMISSION") /\ mainOut' = [mainOut EXCEPT ![n] = s]
        /\ UNCHANGED <<status, main, flexus, round, synced, ck, flexusOut>>
    BY <1>9 DEF RecvPermission, ctl, wwt
  <2>2. ~Carries(s, "DRAIN_START")
    BY <1>0, CarriesOne DEF EndIfPermitted, MsgTypes
  <2> HIDE DEF s
  <2>3. QED
    BY <1>0, <1>1, <1>2, <2>1, <2>2, TakesAnyCut DEF MsgTypes
<1>10. CASE RecvEnd(n)
  <2>1. \A m \in Nodes : status'[m] = status[m] \/ status'[m] # "abort_ckpt"
    BY <1>0, <1>10 DEF RecvEnd, Abort, TypeOK
  <2>2. /\ Receiving(n, "END")
        /\ UNCHANGED <<main, flexus, round, synced, ck, mainOut, flexusOut>>
    BY <1>10 DEF RecvEnd, wwt
  <2>3. QED
    BY <1>0, <1>1, <1>2, <2>1, <2>2, TakesAnyCut DEF MsgTypes
<1>11. CASE PollDone(n)
  <2>1. UNCHANGED <<status, main, flexus, ring, round, synced, ck, mainOut, flexusOut>>
    BY <1>11 DEF PollDone, wire, wwt
  <2>2. QED
    BY <1>1, <1>2, <2>1, CutStays DEF KeepsSetting, Moves, KeepsDrains
<1>12. QED
  BY <1>3, <1>4, <1>5, <1>6, <1>7, <1>8, <1>9, <1>10, <1>11 DEF Receive

-----------------------------------------------------------------------------
(* A blocked message enters the follower's ring. *)

\* The message h is no SYNC of a request that is still blocked behind it; the
\* messages that are left move up by d.
LEMMA DrainEnters ==
  ASSUME CutBase, NEW h \in Message, ring'[Follower] = Append(ring[Follower], h),
         UNCHANGED <<round, synced>>, Asked' <=> Asked,
         NEW d \in {0, 1},
         \A i \in DOMAIN mainOut'[Master] :
           i + d \in DOMAIN mainOut[Master] /\ mainOut'[Master][i] = mainOut[Master][i + d],
         IsDrainStart(h) =>
           /\ Asked /\ h.val = round[Master] /\ round[Master] \notin synced[Follower]
           /\ \A j \in DOMAIN ring[Follower] : ~IsSyncOf(ring[Follower][j], round[Master]),
         IsSyncOf(h, round[Master]) => ~Carries(mainOut'[Master], "DRAIN_START"),
         ~Carries(flexusOut'[Master], "DRAIN_START")
  PROVE  DrainInv'
<1> DEFINE r == round[Master]
<1>1. DrainInv /\ TypeOK /\ TypeOK'
  BY DEF CutBase, CutInv
<1>2. ring[Follower] \in Seq(Message) /\ mainOut'[Master] \in Seq(Message)
  BY <1>1, TwoNodes DEF TypeOK
<1>3. \A j \in DOMAIN ring'[Follower] :
        \/ j \in DOMAIN ring[Follower] /\ ring'[Follower][j] = ring[Follower][j]
        \/ j = Len(ring[Follower]) + 1 /\ ring'[Follower][j] = h
  BY <1>2, AppendElements
<1>4. ASSUME NEW i \in DOMAIN mainOut'[Master], IsDrainStart(mainOut'[Master][i])
      PROVE  /\ Asked' /\ mainOut'[Master][i].val = r /\ r \notin synced'[Follower]
             /\ \A j \in DOMAIN ring'[Follower] : ~IsSyncOf(ring'[Follower][j], r)
             /\ \A j \in DOMAIN mainOut'[Master] : j < i => ~IsSyncOf(mainOut'[Master][j], r)
  <2>1. i + d \in DOMAIN mainOut[Master] /\ mainOut'[Master][i] = mainOut[Master][i + d]
    OBVIOUS
  <2>2. /\ Asked /\ mainOut[Master][i + d].val = r /\ r \notin synced[Follower]
        /\ \A j \in DOMAIN ring[Follower] : ~IsSyncOf(ring[Follower][j], r)
        /\ \A j \in DOMAIN mainOut[Master] : j < i + d => ~IsSyncOf(mainOut[Master][j], r)
    BY <1>1, <1>4, <2>1 DEF DrainInv
  <2>3. ~IsSyncOf(h, r)
    BY <1>4 DEF Carries, IsDrainStart
  <2>4. \A j \in DOMAIN ring'[Follower] : ~IsSyncOf(ring'[Follower][j], r)
    BY <1>3, <2>2, <2>3
  <2>5. ASSUME NEW j \in DOMAIN mainOut'[Master], j < i PROVE ~IsSyncOf(mainOut'[Master][j], r)
    <3>1. i \in Int /\ j \in Int /\ d \in Int
      BY <1>2
    <3>2. j + d < i + d
      BY <2>5, <3>1
    <3>3. QED
      BY <2>2, <3>2
  <2>6. QED
    BY <2>1, <2>2, <2>4, <2>5
<1>5. ASSUME NEW i \in DOMAIN ring'[Follower], IsDrainStart(ring'[Follower][i])
      PROVE  /\ Asked' /\ ring'[Follower][i].val = r /\ r \notin synced'[Follower]
             /\ \A j \in DOMAIN ring'[Follower] : j < i => ~IsSyncOf(ring'[Follower][j], r)
  <2>1. Len(ring[Follower]) \in Nat /\ \A j \in DOMAIN ring[Follower] : j \in Int /\ j <= Len(ring[Follower])
    BY <1>2
  <2>2. CASE i \in DOMAIN ring[Follower] /\ ring'[Follower][i] = ring[Follower][i]
    <3>1. /\ Asked /\ ring[Follower][i].val = r /\ r \notin synced[Follower]
          /\ \A j \in DOMAIN ring[Follower] : j < i => ~IsSyncOf(ring[Follower][j], r)
      BY <1>1, <1>5, <2>2 DEF DrainInv
    <3>2. \A j \in DOMAIN ring'[Follower] : j < i => j # Len(ring[Follower]) + 1
      BY <2>1, <2>2
    <3>3. \A j \in DOMAIN ring'[Follower] : j < i => ~IsSyncOf(ring'[Follower][j], r)
      BY <1>3, <3>1, <3>2
    <3>4. QED
      BY <2>2, <3>1, <3>3
  <2>3. CASE i = Len(ring[Follower]) + 1 /\ ring'[Follower][i] = h
    <3>1. \A j \in DOMAIN ring'[Follower] : j < i => j # Len(ring[Follower]) + 1
      BY <2>1, <2>3
    <3>2. QED
      BY <1>3, <1>5, <2>3, <3>1
  <2>4. QED
    BY <1>3, <2>2, <2>3
<1>6. QED
  BY <1>4, <1>5 DEF DrainInv, Carries, IsDrainStart

\* The rest of the invariant, for a step in which a message enters that ring.
LEMMA CutEnters ==
  ASSUME CutBase, UNCHANGED <<status, main, flexus, round, ck>>, DrainInv',
         Draining => Draining'
  PROVE  CutInv'
<1>1. KeepsRequest /\ KeepsSetting /\ Moves(Master) /\ Moves(Follower)
  BY DEF KeepsRequest, KeepsSetting, Moves
<1>2. Asked' <=> Asked
  BY <1>1, AskedStays
<1>3. RequestInv' /\ AdoptedInv'
  BY <1>1, <1>2, RequestStays, AdoptedStays
<1>4. RequestKept'
  BY <1>2 DEF CutBase, CutInv, RequestKept, Draining
<1>5. CheckpointNotPassed'
  BY DEF CutBase, CutInv, CheckpointNotPassed
<1>6. QED
  BY <1>3, <1>4, <1>5 DEF CutInv

LEMMA MainSendCut == ASSUME CutBase, NEW n \in Nodes, MainSend(n) PROVE CutInv'
<1> DEFINE h == Head(mainOut[n])
           p == Peer(n)
<1>1. TypeOK /\ DrainInv /\ UNCHANGED <<status, main, flexus, flexusOut, round, synced, ck>>
  BY DEF CutBase, CutInv, MainSend, ctl, wwt
<1>2. /\ mainOut[n] \in Seq(Message) /\ mainOut[n] # <<>>
      /\ mainOut'[n] = Tail(mainOut[n])
      /\ \A m \in Nodes \ {n} : mainOut'[m] = mainOut[m]
  BY <1>1 DEF MainSend, CommSend, TypeOK
<1>3. /\ p \in Nodes /\ ring[p] \in Seq(Message) /\ h \in Message
      /\ ring'[p] = Append(ring[p], h)
      /\ \A m \in Nodes \ {p} : ring'[m] = ring[m]
  <2>1. p \in Nodes /\ ring \in [Nodes -> Seq(Message)] /\ h \in Message
    BY <1>1, <1>2, PeerNodes DEF TypeOK
  <2>2. ring' = [ring EXCEPT ![p] = Append(ring[p], h)]
    BY DEF MainSend, CommSend
  <2>3. QED
    BY <2>1, <2>2
<1>4. KeepsRequest /\ Moves(Master)
  BY <1>1 DEF KeepsRequest, Moves
<1>5. Asked' <=> Asked
  BY <1>1, <1>4, AskedStays
<1>6. CASE n = Follower
  <2>1. ring'[Follower] = ring[Follower] /\ mainOut'[Master] = mainOut[Master]
    BY <1>2, <1>3, <1>6, TwoNodes
  <2>2. DrainInv'
    BY <1>1, <1>5, <2>1, DrainKept DEF KeepsDrains, CountsNone, KeepsAsked
  <2>3. QED
    BY <1>1, <2>1, <2>2, CutEnters DEF Draining
<1>7. CASE n = Master
  <2>1. p = Follower
    BY <1>7, TwoNodes
  <2>2. \A i \in DOMAIN mainOut'[Master] :
          i + 1 \in DOMAIN mainOut[Master] /\ mainOut'[Master][i] = mainOut[Master][i + 1]
    BY <1>2, <1>7, TailElements
  <2>3. /\ 1 \in DOMAIN mainOut[Master] /\ h = mainOut[Master][1]
        /\ \A i \in DOMAIN mainOut'[Master] : 1 < i + 1
    <3>1. mainOut'[Master] \in Seq(Message)
      BY TwoNodes DEF CutBase, TypeOK
    <3>2. QED
      BY <1>2, <1>7, <3>1
  <2>4. IsDrainStart(h) =>
          /\ Asked /\ h.val = round[Master] /\ round[Master] \notin synced[Follower]
          /\ \A j \in DOMAIN ring[Follower] : ~IsSyncOf(ring[Follower][j], round[Master])
    BY <1>1, <2>3 DEF DrainInv
  <2>5. IsSyncOf(h, round[Master]) => ~Carries(mainOut'[Master], "DRAIN_START")
    BY <1>1, <2>2, <2>3 DEF DrainInv, Carries, IsDrainStart
  <2>6. ~Carries(flexusOut'[Master], "DRAIN_START")
    BY <1>1 DEF DrainInv, Carries, IsDrainStart
  <2>7. /\ Carries(mainOut[Master], "DRAIN_START")
             => h.type = "DRAIN_START" \/ Carries(mainOut'[Master], "DRAIN_START")
        /\ Carries(ring'[Follower], "DRAIN_START")
             <=> Carries(ring[Follower], "DRAIN_START") \/ h.type = "DRAIN_START"
    <3>1. /\ ring[Follower] \in Seq(Message) /\ h \in Message
          /\ ring'[Follower] = Append(ring[Follower], h)
      BY <1>3, <2>1
    <3>2. /\ mainOut[Master] \in Seq(Message) /\ mainOut[Master] # <<>>
          /\ h = Head(mainOut[Master]) /\ mainOut'[Master] = Tail(mainOut[Master])
      BY <1>2, <1>7
    <3> HIDE DEF h, p
    <3>3. QED
      BY <3>1, <3>2, CarriesTail, CarriesAppend
  <2> HIDE DEF h
  <2>8. DrainInv'
    BY <1>1, <1>3, <1>5, <2>1, <2>2, <2>4, <2>5, <2>6, DrainEnters
  <2>9. QED
    BY <1>1, <2>7, <2>8, CutEnters DEF Draining
<1>8. QED
  BY <1>6, <1>7, TwoNodes

LEMMA FlexusSendCut == ASSUME CutBase, NEW n \in Nodes, FlexusSend(n) PROVE CutInv'
<1> DEFINE h == Head(flexusOut[n])
           p == Peer(n)
<1>1. /\ TypeOK /\ DrainInv /\ SyncInv
      /\ UNCHANGED <<status, main, flexus, mainOut, round, synced, ck>>
  BY DEF CutBase, CutInv, FlexusSend, ctl, wwt
<1>2. /\ flexusOut[n] \in Seq(Message) /\ flexusOut[n] # <<>>
      /\ flexusOut'[n] = Tail(flexusOut[n])
      /\ \A m \in Nodes \ {n} : flexusOut'[m] = flexusOut[m]
  BY <1>1 DEF FlexusSend, CommSend, TypeOK
<1>3. /\ p \in Nodes /\ ring[p] \in Seq(Message) /\ h \in Message
      /\ ring'[p] = Append(ring[p], h)
      /\ \A m \in Nodes \ {p} : ring'[m] = ring[m]
  <2>1. p \in Nodes /\ ring \in [Nodes -> Seq(Message)] /\ h \in Message
    BY <1>1, <1>2, PeerNodes DEF TypeOK
  <2>2. ring' = [ring EXCEPT ![p] = Append(ring[p], h)]
    BY DEF FlexusSend, CommSend
  <2>3. QED
    BY <2>1, <2>2
<1>4. KeepsRequest /\ Moves(Master)
  BY <1>1 DEF KeepsRequest, Moves
<1>5. Asked' <=> Asked
  BY <1>1, <1>4, AskedStays
<1>6. CASE n = Follower
  <2>1. ring'[Follower] = ring[Follower] /\ flexusOut'[Master] = flexusOut[Master]
    BY <1>2, <1>3, <1>6, TwoNodes
  <2>2. DrainInv'
    BY <1>1, <1>5, <2>1, DrainKept DEF KeepsDrains, CountsNone, KeepsAsked
  <2>3. QED
    BY <1>1, <2>1, <2>2, CutEnters DEF Draining
<1>7. CASE n = Master
  <2>1. p = Follower
    BY <1>7, TwoNodes
  <2>2. \A i \in DOMAIN mainOut'[Master] :
          i + 0 \in DOMAIN mainOut[Master] /\ mainOut'[Master][i] = mainOut[Master][i + 0]
    <3>1. mainOut[Master] \in Seq(Message)
      BY <1>1, TwoNodes DEF TypeOK
    <3>2. \A i \in DOMAIN mainOut[Master] : i + 0 = i
      BY <3>1
    <3>3. QED
      BY <1>1, <3>2
  <2>3. ~Carries(flexusOut[Master], "DRAIN_START")
    BY <1>1 DEF DrainInv, Carries, IsDrainStart
  <2>4. h.type # "DRAIN_START" /\ ~Carries(flexusOut'[Master], "DRAIN_START")
    BY <1>2, <1>7, <2>3, CarriesTail
  <2>5. ~IsSync(h)
    <3>1. 1 \in DOMAIN flexusOut[n] /\ h = flexusOut[n][1]
      BY <1>2
    <3>2. QED
      BY <1>1, <3>1 DEF SyncInv, SendingInv, FlexusSendsNone
  <2>6. Carries(ring[Follower], "DRAIN_START") => Carries(ring'[Follower], "DRAIN_START")
    <3>1. /\ ring[Follower] \in Seq(Message) /\ h \in Message
          /\ ring'[Follower] = Append(ring[Follower], h)
      BY <1>3, <2>1
    <3> HIDE DEF h, p
    <3>2. QED
      BY <3>1, CarriesAppend
  <2> HIDE DEF h
  <2>7. DrainInv'
    BY <1>1, <1>3, <1>5, <2>1, <2>2, <2>4, <2>5, DrainEnters DEF IsDrainStart, IsSyncOf
  <2>8. QED
    BY <1>1, <2>6, <2>7, CutEnters DEF Draining
<1>8. QED
  BY <1>6, <1>7, TwoNodes

-----------------------------------------------------------------------------
(* The main thread, when it receives nothing. *)

\* The master sets its request only while its main thread is in the event loop of
\* a quantum.
LEMMA NotSetting ==
  ASSUME CutBase, NEW n \in Nodes, main[n] # "run" PROVE ~SettingCheckpoint(n)
BY TwoNodes DEF CutBase, CutInv, RequestInv

\* The main thread of n goes to c and says s, or nothing.
LEMMA SaysCut ==
  ASSUME CutBase, NEW n \in Nodes, mainOut[n] = <<>>,
         KeepsRequest, KeepsSetting, UNCHANGED <<ring, flexusOut, round, synced>>,
         NEW c, main' = [main EXCEPT ![n] = c], Moves(n),
         NEW s, n = Master => ~Carries(s, "DRAIN_START"),
         mainOut' = mainOut \/ mainOut' = [mainOut EXCEPT ![n] = s],
         \A m \in Nodes : status'[m] = status[m] \/ status'[m] # "abort_ckpt"
  PROVE  CutInv'
<1>1. \A m \in Nodes : Moves(m)
  <2>1. \A m \in Nodes \ {n} : main'[m] = main[m]
    BY DEF CutBase, TypeOK
  <2>2. QED
    BY <2>1 DEF Moves
<1>2. mainOut'[Master] = mainOut[Master] \/ (n = Master /\ mainOut'[Master] = s)
  BY TwoNodes DEF CutBase, TypeOK
<1>3. KeepsDrains /\ CountsNone
  BY <1>2 DEF KeepsDrains, CountsNone
<1>4. Carries(mainOut[Master], "DRAIN_START") => mainOut'[Master] = mainOut[Master]
  BY <1>2, CarriesNothing
<1>5. QED
  BY <1>1, <1>3, <1>4, CutStays

\* The same where the main thread stays where it is and says nothing.
LEMMA QuietCut ==
  ASSUME CutBase, KeepsRequest, KeepsSetting,
         UNCHANGED <<main, ring, mainOut, flexusOut, round, synced>>,
         \A m \in Nodes : status'[m] = status[m] \/ status'[m] # "abort_ckpt"
  PROVE  CutInv'
BY CutStays DEF Moves, KeepsDrains, CountsNone

\* The master's snapshot: of the round that it has told the follower.
LEMMA MasterSavesCut == ASSUME CutBase, CheckpointBH(Master) PROVE CutInv'
<1> DEFINE r == round[Master]
           s == DrainMessages(Master) \o NotifyEndMessages(ex[Master])
<1>1. /\ TypeOK /\ CutInv /\ RequestInv /\ BhInv /\ ck[Master] \in CkptFields
      /\ ck[Master].needs /\ ck[Master].bh # "none"
      /\ mainOut[Master] = <<>>
      /\ UNCHANGED <<status, flexus, ring, flexusOut, round, synced>>
  BY TwoNodes DEF CutBase, CutInv, TypeOK, CheckpointBH, InEventLoop, MainReady, wwt
<1>2. main[Master] \in {"armed", "closing"} /\ main' = [main EXCEPT ![Master] = "exiting"]
  BY <1>1, TwoNodes DEF BhInv, CheckpointBH
<1>3. main'[Master] = "exiting" /\ main'[Follower] = main[Follower]
  BY <1>1, <1>2, TwoNodes DEF TypeOK
<1>4. ~SettingCheckpoint(Master) /\ ~SettingCheckpoint(Master)'
  BY <1>1, <1>2, TwoNodes, NotSetting DEF SettingCheckpoint
<1>5. Asked
  BY <1>1, <1>2 DEF Asked, Announced
<1>6. Validated(Master) /\ ck[Master].saved = {}
  BY <1>1 DEF RequestInv, Validated
<1>7. /\ ck' = [ck EXCEPT ![Master] = AfterSnapshot(Master)]
      /\ mainOut' = [mainOut EXCEPT ![Master] = s]
  BY TwoNodes DEF CheckpointBH
<1>8. /\ ck'[Master] = AfterSnapshot(Master) /\ ck'[Follower] = ck[Follower]
      /\ mainOut'[Master] = s
  BY <1>1, <1>7, TwoNodes DEF TypeOK
<1>9. /\ ~ck'[Master].needs /\ ck'[Master].bh = "none"
      /\ ck'[Master].saved = {r}
      /\ ck'[Master].signalled = ck[Master].signalled
      /\ ck'[Master].masterInit = ck[Master].masterInit
      /\ ck'[Master].initFlag = ck[Master].initFlag
  BY <1>1, <1>6, <1>8 DEF AfterSnapshot, CkptFields
<1>10. Asked'
  BY <1>9 DEF Asked
<1>11. RequestInv'
  BY <1>1, <1>3, <1>4, <1>9 DEF RequestInv, SettingCheckpoint
<1>12. ~Carries(s, "DRAIN_START")
  BY <1>1, TwoNodes, SpeechCut
<1>13. DrainInv'
  BY <1>1, <1>8, <1>10, <1>12, DrainKept DEF KeepsDrains, CountsNone, KeepsAsked
<1>14. AdoptedInv'
  BY <1>1, <1>3, <1>8, <1>10 DEF CutInv, AdoptedInv
<1>15. RequestKept'
  BY <1>1, <1>3, <1>5, <1>8, CarriesNothing DEF CutInv, RequestKept
<1>16. QED
  BY <1>1, <1>11, <1>13, <1>14, <1>15 DEF CutInv, CheckpointNotPassed

\* The follower's snapshot: of the same round, unless it is about to leave.
LEMMA FollowerSavesCut == ASSUME CutBase, CheckpointBH(Follower) PROVE CutInv'
<1>1. /\ TypeOK /\ CutInv /\ AdoptedInv /\ ck[Follower] \in CkptFields
      /\ ck[Follower].needs /\ ck[Follower].bh # "none"
      /\ UNCHANGED <<status, flexus, ring, mainOut, flexusOut, round, synced>>
  BY TwoNodes DEF CutBase, CutInv, TypeOK, CheckpointBH, wwt
<1>2. \/ main' = [main EXCEPT ![Follower] = "exiting"]
      \/ main' = [main EXCEPT ![Follower] = main[Follower]]
  BY Zenon DEF CheckpointBH
<1>3. /\ main'[Master] = main[Master]
      /\ main'[Follower] \in {main[Follower], "exiting"}
  BY <1>1, <1>2, TwoNodes DEF TypeOK
<1>4. ck' = [ck EXCEPT ![Follower] = AfterSnapshot(Follower)]
  BY DEF CheckpointBH
<1>5. ck'[Follower] = AfterSnapshot(Follower) /\ ck'[Master] = ck[Master]
  BY <1>1, <1>4, TwoNodes DEF TypeOK
<1>6. /\ ~ck'[Follower].needs /\ ck'[Follower].bh = "none"
      /\ ck'[Follower].saved = ck[Follower].saved \cup {round[Follower]}
  BY <1>1, <1>5, TwoNodes DEF AfterSnapshot, CkptFields, Validated
<1>7. Asked' <=> Asked
  BY <1>1, <1>3, <1>5 DEF Asked, Announced
<1>8. RequestInv'
  BY <1>1, <1>3, <1>5 DEF CutInv, RequestInv, SettingCheckpoint, Announced
<1>9. DrainInv'
  BY <1>1, <1>7, DrainKept DEF KeepsDrains, CountsNone, KeepsAsked
<1>10. AdoptedInv'
  BY <1>6 DEF AdoptedInv
<1>11. RequestKept'
  <2>1. round[Follower] <= round[Master]
    BY <1>1 DEF AdoptedInv
  <2>2. main[Follower] = "closing" \/ round[Follower] = round[Master]
    BY <1>1 DEF AdoptedInv
  <2>3. QED
    BY <1>1, <1>3, <1>6, <2>1, <2>2 DEF RequestKept
<1>12. QED
  BY <1>1, <1>8, <1>9, <1>10, <1>11 DEF CutInv, CheckpointNotPassed

LEMMA DispatchCut == ASSUME CutBase, NEW n \in Nodes, Dispatch(n) PROVE CutInv'
<1>0. TypeOK /\ RequestInv
  BY DEF CutBase, CutInv
<1>1. UNCHANGED ck => KeepsRequest
  BY DEF KeepsRequest
<1>2. UNCHANGED flexus => KeepsSetting
  BY DEF KeepsSetting
<1>3. CASE HostPoll(n)
  BY <1>1, <1>2, <1>3, QuietCut DEF HostPoll, wire
<1>4. CASE PauseBh(n)
  BY <1>1, <1>2, <1>4, QuietCut DEF PauseBh, ctl, wire, wwt
<1>5. CASE Deliver(n)
  BY <1>1, <1>2, <1>5, QuietCut DEF Deliver, ctl, wire
<1>6. CASE CheckpointBH(n)
  BY <1>6, MasterSavesCut, FollowerSavesCut, TwoNodes
<1>7. CASE SetupWWT(n)
  <2>1. /\ mainOut[n] = <<>> /\ main[n] = "setup" /\ main' = [main EXCEPT ![n] = "run"]
        /\ UNCHANGED <<status, flexus, ring, mainOut, flexusOut, round, synced, ck>>
    BY <1>7 DEF SetupWWT, InEventLoop, MainReady, wire
  <2>2. main'[n] = "run"
    BY <1>0, <2>1 DEF TypeOK
  <2>3. Moves(n)
    BY <1>0, <2>1, <2>2, NotSetting DEF Moves, RequestInv
  <2>4. QED
    BY <1>1, <1>2, <2>1, <2>3, CarriesNothing, SaysCut
<1>8. CASE QuantaSync(n)
  <2>1. /\ mainOut[n] = <<>> /\ main[n] = "run" /\ main' = [main EXCEPT ![n] = "notify"]
        /\ FlexusQuiet(n)
        /\ UNCHANGED <<flexus, ring, mainOut, flexusOut, round, synced, ck>>
    BY <1>8 DEF QuantaSync, Pause, InEventLoop, MainReady, wire, CutBase
  <2>2. main'[n] = "notify"
    BY <1>0, <2>1 DEF TypeOK
  <2>3. Moves(n)
    BY <2>1, <2>2 DEF Moves, SettingCheckpoint, FlexusQuiet, Announced
  <2>4. UNCHANGED status \/ status' = [status EXCEPT ![n] = "abort_pause"]
    BY <1>8, Zenon DEF QuantaSync, Pause, Abort, CutBase
  <2>5. \A m \in Nodes : status'[m] = status[m] \/ status'[m] # "abort_ckpt"
    BY <1>0, <2>4 DEF TypeOK
  <2>6. QED
    BY <1>1, <1>2, <2>1, <2>3, <2>5, CarriesNothing, SaysCut
<1>9. CASE SyncCheck(n)
  <2>1. /\ mainOut[n] = <<>> /\ main[n] = "armed" /\ main' = [main EXCEPT ![n] = "check"]
        /\ UNCHANGED <<status, flexus, ring, mainOut, flexusOut, round, synced, ck>>
    BY <1>9 DEF SyncCheck, InEventLoop, MainReady, wire, wwt
  <2>2. main'[n] = "check"
    BY <1>0, <2>1 DEF TypeOK
  <2>3. Moves(n)
    BY <2>1, <2>2, NotSetting DEF Moves, Announced
  <2>4. QED
    BY <1>1, <1>2, <2>1, <2>3, CarriesNothing, SaysCut
<1>10. QED
  BY <1>3, <1>4, <1>5, <1>6, <1>7, <1>8, <1>9 DEF Dispatch

-----------------------------------------------------------------------------
(* The boundary of a quantum. *)

\* DRAIN_START goes out before the SYNC of the same round, which is new.
LEMMA RequestsCut ==
  ASSUME CutBase, NotifyAndSync(Master), ck[Master].needs PROVE CutInv'
<1> DEFINE r == round[Master]
           s == <<Msg("DRAIN_START", r)>> \o <<Msg("SYNC", r)>>
<1>1. /\ TypeOK /\ CutInv /\ RequestInv /\ DrainInv /\ AdoptedInv /\ SyncInv
      /\ ck[Master] \in CkptFields /\ r \in Nat
      /\ main[Master] = "notify" /\ mainOut[Master] = <<>>
      /\ UNCHANGED <<status, flexus, ring, flexusOut, round, synced>>
  BY TwoNodes DEF CutBase, CutInv, TypeOK, NotifyAndSync, MainAt, MainReady, wwt
<1>2. main' = [main EXCEPT ![Master] = "armed"]
  BY DEF NotifyAndSync
<1>3. main'[Master] = "armed" /\ main'[Follower] = main[Follower]
  BY <1>1, <1>2, TwoNodes DEF TypeOK
<1>4. OwesDrainStart(Master) /\ ck[Master].saved = {}
  BY <1>1 DEF RequestInv, Announced, OwesDrainStart
<1>5. mainOut' = [mainOut EXCEPT ![Master] = s]
  BY <1>4 DEF NotifyAndSync, DrainStart, SyncMessage, CutBase
<1>6. ck' = [ck EXCEPT ![Master] = AfterDrainStart(Master)]
  BY DEF NotifyAndSync
<1>7. /\ ck'[Master] = AfterDrainStart(Master) /\ ck'[Follower] = ck[Follower]
      /\ mainOut'[Master] = s
  BY <1>1, <1>5, <1>6, TwoNodes DEF TypeOK
<1>8. /\ ck'[Master].needs /\ ck'[Master].notified
      /\ ck'[Master].saved = {} /\ ck'[Master].signalled = ck[Master].signalled
      /\ ck'[Master].masterInit = ck[Master].masterInit
      /\ ck'[Master].initFlag = ck[Master].initFlag
      /\ ck'[Master].ckround = ck[Master].ckround /\ ck'[Master].bh = ck[Master].bh
  BY <1>1, <1>4, <1>7 DEF AfterDrainStart, CkptFields
<1>9. ~Asked /\ Asked'
  BY <1>1, <1>3, <1>4, <1>8 DEF Asked, Announced
<1>10. RequestInv'
  BY <1>1, <1>3, <1>8 DEF RequestInv, SettingCheckpoint, Announced
<1>11. AdoptedInv'
  BY <1>1, <1>3, <1>7, <1>9 DEF AdoptedInv
<1>12. DOMAIN s = {1, 2} /\ s[1] = Msg("DRAIN_START", r) /\ s[2] = Msg("SYNC", r)
  OBVIOUS
<1> HIDE DEF s
<1>13. AnnouncedRounds(Master) = r
  BY <1>1 DEF AnnouncedRounds, Announced
<1>14. r \notin synced[Follower]
  BY <1>1, <1>13, TwoNodes DEF SyncInv, CountInv
<1>15. \A j \in DOMAIN ring[Follower] : ~IsSyncOf(ring[Follower][j], r)
  BY <1>1, <1>13, TwoNodes DEF SyncInv, RingInv, RingAnnounced, IsSyncOf
<1>16. \A i \in DOMAIN ring[Follower] : ~IsDrainStart(ring[Follower][i])
  BY <1>1, <1>9 DEF DrainInv
<1>17. DrainInv'
  BY <1>1, <1>7, <1>9, <1>12, <1>14, <1>15, <1>16
     DEF DrainInv, IsDrainStart, IsSyncOf, IsSync, Msg
<1>18. RequestKept'
  BY <1>7, <1>12 DEF RequestKept, Carries, Msg
<1>19. QED
  BY <1>1, <1>10, <1>11, <1>17, <1>18 DEF CutInv, CheckpointNotPassed

\* The bottom half is scheduled, at the round of the checkpoint or to exit.
LEMMA SchedulesCut ==
  ASSUME CutBase, NEW n \in Nodes, mainOut[n] = <<>>, main[n] \in {"spin", "boundary"},
         ck[n].needs, NEW b, ck' = [ck EXCEPT ![n].bh = b],
         NEW c \in {"armed", "closing"}, main' = [main EXCEPT ![n] = c],
         c = "closing" \/ round[n] = ck[n].ckround,
         UNCHANGED <<status, flexus, ring, flexusOut, round, synced>>,
         NEW s, ~Carries(s, "DRAIN_START"),
         mainOut' = mainOut \/ mainOut' = [mainOut EXCEPT ![n] = s]
  PROVE  CutInv'
<1>1. /\ TypeOK /\ CutInv /\ RequestInv /\ DrainInv /\ AdoptedInv
      /\ \A m \in Nodes : ck[m] \in CkptFields
  BY DEF CutBase, CutInv, TypeOK
<1>2. /\ main'[n] = c /\ \A m \in Nodes \ {n} : main'[m] = main[m] /\ ck'[m] = ck[m]
      /\ ck'[n] = [ck[n] EXCEPT !.bh = b]
  BY <1>1 DEF TypeOK
<1>3. /\ \A m \in Nodes :
           /\ ck'[m].needs = ck[m].needs /\ ck'[m].ckround = ck[m].ckround
           /\ ck'[m].saved = ck[m].saved /\ ck'[m].signalled = ck[m].signalled
           /\ ck'[m].masterInit = ck[m].masterInit /\ ck'[m].initFlag = ck[m].initFlag
           /\ ck'[m].notified = ck[m].notified
           /\ m # n => ck'[m].bh = ck[m].bh
  BY <1>1, <1>2 DEF CkptFields
<1>4. mainOut'[Master] = mainOut[Master] \/ (n = Master /\ mainOut'[Master] = s)
  BY <1>1, TwoNodes DEF TypeOK
<1>5. Announced(Master)' = Announced(Master)
  BY <1>2, TwoNodes DEF Announced
<1>6. Asked' <=> Asked
  BY <1>3, <1>5, TwoNodes DEF Asked
<1>7. RequestInv'
  BY <1>1, <1>2, <1>3, <1>5, TwoNodes DEF RequestInv, SettingCheckpoint
<1>8. DrainInv'
  BY <1>1, <1>4, <1>6, DrainKept DEF KeepsDrains, CountsNone, KeepsAsked
<1>9. AdoptedInv'
  BY <1>1, <1>2, <1>3, <1>6, TwoNodes DEF AdoptedInv
<1>10. RequestKept'
  BY <1>1, <1>2, <1>3, <1>4, <1>6, CarriesNothing, TwoNodes DEF CutInv, RequestKept
<1>11. QED
  BY <1>1, <1>7, <1>8, <1>9, <1>10 DEF CutInv, CheckpointNotPassed

\* The assertion on the checkpoint's round holds.
LEMMA NeverTooLate == ASSUME CutBase, NEW n \in Nodes, BoundaryTooLate(n) PROVE FALSE
<1>1. /\ TypeOK /\ RequestInv /\ AdoptedInv
      /\ main[n] = "boundary" /\ ck[n].needs /\ round[n] > ck[n].ckround
      /\ round[n] \in Nat /\ ck[n].ckround \in Nat
  BY DEF CutBase, CutInv, BoundaryTooLate, MainAt, TypeOK, CkptFields
<1>2. CASE n = Master
  <2>1. flexus[n] # "setround"
    BY <1>1, NotSetting DEF SettingCheckpoint
  <2>2. QED
    BY <1>1, <1>2, <2>1 DEF RequestInv
<1>3. CASE n = Follower
  BY <1>1, <1>3 DEF AdoptedInv
<1>4. QED
  BY <1>2, <1>3, TwoNodes

\* The master leaves the boundary only if it has made no request.
LEMMA MasterPasses ==
  ASSUME CutBase, BoundaryPass(Master) PROVE ~ck[Master].needs
<1>1. /\ TypeOK /\ RequestInv /\ main[Master] = "boundary"
      /\ ck[Master].needs => round[Master] < ck[Master].ckround
      /\ round[Master] \in Nat
  BY TwoNodes DEF CutBase, CutInv, BoundaryPass, MainAt, TypeOK
<1>2. flexus[Master] # "setround"
  BY <1>1, TwoNodes, NotSetting DEF SettingCheckpoint
<1>3. QED
  BY <1>1, <1>2 DEF RequestInv

\* A new round begins.
LEMMA AdvanceCut == ASSUME CutBase, NEW n \in Nodes, Advance(n) PROVE CutInv'
<1>1. /\ TypeOK /\ CutInv /\ RequestInv /\ DrainInv /\ AdoptedInv /\ RequestKept
      /\ main[n] = "advance"
      /\ UNCHANGED <<status, flexus, ring, mainOut, flexusOut, synced, ck>>
  BY DEF CutBase, CutInv, Advance, Play, MainAt, wire
<1>2. /\ main'[n] = "run" /\ \A m \in Nodes \ {n} : main'[m] = main[m] /\ round'[m] = round[m]
      /\ round'[n] = round[n] + 1
      /\ \A m \in Nodes : round[m] \in Nat
  BY <1>1 DEF Advance, Play, TypeOK
<1>3. ~SettingCheckpoint(n)
  BY <1>1, NotSetting
<1>4. CASE n = Master
  <2>1. ~ck[Master].needs /\ ck[Master].saved = {} /\ ~Asked
    BY <1>1, <1>4 DEF RequestInv, Asked
  <2>2. ~Asked'
    BY <1>1, <2>1 DEF Asked
  <2>3. RequestInv'
    BY <1>1, <1>2, <1>3, <1>4, <2>1 DEF RequestInv, SettingCheckpoint
  <2>4. DrainInv'
    BY <1>1, <2>1, DrainKept DEF KeepsDrains, CountsNone, KeepsAsked
  <2>5. AdoptedInv' /\ RequestKept'
    BY <1>1, <2>1, <2>2 DEF AdoptedInv, RequestKept
  <2>6. QED
    BY <1>1, <2>3, <2>4, <2>5 DEF CutInv, CheckpointNotPassed
<1>5. CASE n = Follower
  <2>1. main'[Master] = main[Master] /\ round'[Master] = round[Master]
    BY <1>2, <1>5, TwoNodes
  <2>2. Asked' <=> Asked
    BY <1>1, <2>1 DEF Asked, Announced
  <2>3. RequestInv'
    BY <1>1, <2>1 DEF RequestInv, SettingCheckpoint, Announced
  <2>4. DrainInv'
    BY <1>1, <2>1, <2>2, DrainKept DEF KeepsDrains, CountsNone, KeepsAsked
  <2>5. AdoptedInv'
    <3>1. ck[Follower].bh = "none"
      BY <1>1, <1>5 DEF CutBase, BhInv
    <3>2. ck[Follower].needs => round[Follower] + 1 <= round[Master]
      BY <1>1, <1>2, <1>5, TwoNodes DEF AdoptedInv
    <3>3. QED
      BY <1>1, <1>2, <1>5, <2>1, <2>2, <3>1, <3>2 DEF AdoptedInv
  <2>6. RequestKept'
    BY <1>1, <1>5, <2>1, <2>2 DEF RequestKept
  <2>7. QED
    BY <1>1, <2>3, <2>4, <2>5, <2>6 DEF CutInv, CheckpointNotPassed
<1>6. QED
  BY <1>4, <1>5, TwoNodes

LEMMA BoundaryCut == ASSUME CutBase, NEW n \in Nodes, Boundary(n) PROVE CutInv'
<1>0. /\ TypeOK /\ RequestInv /\ ck[n] \in CkptFields
      /\ ~Carries(<<>>, "DRAIN_START")
      /\ main[Follower] \notin {"permit", "grant", "end"}
  BY CarriesNothing DEF CutBase, CutInv, TypeOK, GrantAlone
<1>1. UNCHANGED ck => KeepsRequest
  BY DEF KeepsRequest
<1>2. UNCHANGED flexus => KeepsSetting
  BY DEF KeepsSetting
<1>3. ASSUME NEW s, ck' = [ck EXCEPT ![n] = AfterDrainStart(n)], n = Master => ~ck[n].needs
      PROVE  KeepsRequest
  <2>1. ck'[n] = AfterDrainStart(n) /\ \A m \in Nodes \ {n} : ck'[m] = ck[m]
    BY <1>0, <1>3 DEF TypeOK
  <2>2. /\ ck'[n].needs = ck[n].needs /\ ck'[n].ckround = ck[n].ckround
        /\ ck'[n].bh = ck[n].bh /\ ck'[n].saved = ck[n].saved
        /\ ck'[n].signalled = ck[n].signalled /\ ck'[n].masterInit = ck[n].masterInit
        /\ ck'[n].initFlag = ck[n].initFlag
        /\ n = Master => ck'[n].notified = ck[n].notified
    BY <1>0, <1>3, <2>1 DEF AfterDrainStart, OwesDrainStart, CkptFields
  <2>3. QED
    BY <2>1, <2>2, TwoNodes DEF KeepsRequest
<1>4. CASE NotifyAndSync(n)
  <2>1. CASE n = Master /\ ck[n].needs
    BY <1>4, <2>1, RequestsCut
  <2>2. CASE ~(n = Master /\ ck[n].needs)
    <3> DEFINE s == DrainStart(n) \o SyncMessage(n)
    <3>1. /\ mainOut[n] = <<>> /\ main[n] = "notify" /\ main' = [main EXCEPT ![n] = "armed"]
          /\ mainOut' = [mainOut EXCEPT ![n] = s]
          /\ ck' = [ck EXCEPT ![n] = AfterDrainStart(n)]
          /\ UNCHANGED <<status, flexus, ring, flexusOut, round, synced>>
      BY <1>4 DEF NotifyAndSync, MainAt, MainReady, wwt
    <3>2. n = Master => ~Carries(s, "DRAIN_START")
      BY <1>0, <2>2, SpeechCut
    <3> HIDE DEF s
    <3>3. main'[n] = "armed"
      BY <1>0, <3>1 DEF TypeOK
    <3>4. Moves(n)
      BY <2>2, <3>1, <3>3, NotSetting DEF Moves
    <3>5. KeepsRequest
      BY <1>3, <2>2, <3>1
    <3>6. QED
      BY <1>2, <3>1, <3>2, <3>4, <3>5, SaysCut
  <2>3. QED
    BY <2>1, <2>2
<1>5. CASE CheckCount(n) \/ SpinOn(n)
  <2>1. /\ mainOut[n] = <<>> /\ main[n] \in {"check", "spin"}
        /\ UNCHANGED <<status, flexus, ring, mainOut, flexusOut, round, synced, ck>>
    BY <1>5 DEF CheckCount, SpinOn, MainAt, MainReady, wire, wwt
  <2>2. PICK c \in {"check", "spin", "boundary"} : main' = [main EXCEPT ![n] = c]
    BY <1>5 DEF CheckCount, SpinOn
  <2>3. main'[n] = c
    BY <1>0, <2>2 DEF TypeOK
  <2>4. Moves(n)
    BY <2>1, <2>3, NotSetting DEF Moves, Announced
  <2>5. QED
    BY <1>0, <1>1, <1>2, <2>1, <2>2, <2>4, SaysCut
<1>6. CASE SpinStop(n) \/ Exit(n)
  <2>1. \E a \in {"abort_end", "exited"} : status' = [status EXCEPT ![n] = a]
    BY <1>6 DEF SpinStop, Exit, Abort
  <2>2. \A m \in Nodes : status'[m] = status[m] \/ status'[m] # "abort_ckpt"
    BY <1>0, <2>1 DEF TypeOK
  <2>3. UNCHANGED <<main, flexus, ring, mainOut, flexusOut, round, synced, ck>>
    BY <1>6 DEF SpinStop, Exit, wire, wwt
  <2>4. QED
    BY <1>1, <1>2, <2>2, <2>3, QuietCut
<1>7. CASE SpinDestroy(n)
  <2> DEFINE s == NotifyEndMessages(ex[n])
  <2>1. /\ mainOut[n] = <<>> /\ main[n] = "spin"
        /\ mainOut' = [mainOut EXCEPT ![n] = s]
        /\ UNCHANGED <<status, flexus, ring, flexusOut, round, synced>>
    BY <1>7 DEF SpinDestroy, Destroy, MainAt, MainReady, wwt
  <2>2. ~Carries(s, "DRAIN_START")
    BY <1>0, SpeechCut
  <2> HIDE DEF s
  <2>3. CASE ck[n].needs
    <3> DEFINE b == IF ck[n].bh = "none" THEN "exit" ELSE ck[n].bh
    <3>1. ck' = [ck EXCEPT ![n].bh = b] /\ main' = [main EXCEPT ![n] = "closing"]
      BY <1>7, <2>3 DEF SpinDestroy, Destroy, CloseAfterCheckpoint
    <3> HIDE DEF b
    <3>2. QED
      BY <2>1, <2>2, <2>3, <3>1, SchedulesCut
  <2>4. CASE ~ck[n].needs
    <3>1. UNCHANGED ck /\ main' = [main EXCEPT ![n] = "exiting"]
      BY <1>7, <2>4 DEF SpinDestroy, Destroy, CloseNow
    <3>2. main'[n] = "exiting"
      BY <1>0, <3>1 DEF TypeOK
    <3>3. Moves(n)
      BY <2>1, <2>4, <3>2, NotSetting DEF Moves
    <3>4. QED
      BY <1>1, <1>2, <2>1, <2>2, <3>1, <3>3, SaysCut
  <2>5. QED
    BY <2>3, <2>4
<1>8. CASE BoundaryNotify(n)
  <2> DEFINE s == DrainStart(n)
  <2>1. /\ mainOut[n] = <<>> /\ main[n] = "boundary"
        /\ ck[n].needs /\ ~ck[n].notified
        /\ mainOut' = [mainOut EXCEPT ![n] = s]
        /\ ck' = [ck EXCEPT ![n] = AfterDrainStart(n)]
        /\ UNCHANGED <<status, main, flexus, ring, flexusOut, round, synced>>
    BY <1>8 DEF BoundaryNotify, OwesDrainStart, MainAt, MainReady, ctl, wwt
  <2> HIDE DEF s
  <2>2. n # Master
    BY <1>0, <2>1 DEF RequestInv, Announced
  <2>3. KeepsRequest
    BY <1>3, <2>1, <2>2
  <2>4. main' = [main EXCEPT ![n] = main[n]] /\ Moves(n)
    BY <1>0, <2>1 DEF TypeOK, Moves
  <2>5. QED
    BY <1>2, <2>1, <2>2, <2>3, <2>4, SaysCut
<1>9. CASE BoundaryCheckpoint(n)
  <2> DEFINE b == IF ck[n].bh = "none" THEN "stay" ELSE ck[n].bh
  <2>1. /\ mainOut[n] = <<>> /\ main[n] = "boundary"
        /\ ck[n].needs /\ round[n] = ck[n].ckround
        /\ ck' = [ck EXCEPT ![n].bh = b] /\ main' = [main EXCEPT ![n] = "armed"]
        /\ UNCHANGED <<status, flexus, ring, mainOut, flexusOut, round, synced>>
    BY <1>9 DEF BoundaryCheckpoint, MainAt, MainReady, wire, wwt, CutBase
  <2> HIDE DEF b
  <2>2. QED
    BY <1>0, <2>1, SchedulesCut
<1>10. CASE BoundaryTooLate(n)
  BY <1>10, NeverTooLate
<1>11. CASE BoundaryPass(n)
  <2>1. /\ mainOut[n] = <<>> /\ main[n] = "boundary"
        /\ ck[n].needs => round[n] < ck[n].ckround
        /\ UNCHANGED <<status, flexus, ring, mainOut, flexusOut, round, synced, ck>>
    BY <1>11 DEF BoundaryPass, MainAt, MainReady, wire, wwt
  <2>2. PICK c \in {"permit", "advance"} : main' = [main EXCEPT ![n] = c]
    BY <1>11 DEF BoundaryPass
  <2>3. Moves(n)
    <3>1. n = Master => ~ck[n].needs
      BY <1>11, MasterPasses
    <3>2. main'[n] = c
      BY <1>0, <2>2 DEF TypeOK
    <3>3. QED
      BY <2>1, <3>1, <3>2, NotSetting DEF Moves
  <2>4. QED
    BY <1>0, <1>1, <1>2, <2>1, <2>2, <2>3, SaysCut
<1>12. CASE Permit(n) \/ PermitGrant(n) \/ PermitEnd(n)
  <2>1. /\ mainOut[n] = <<>> /\ main[n] \in {"permit", "grant", "end"}
        /\ UNCHANGED <<status, flexus, ring, flexusOut, round, synced, ck>>
    BY <1>12 DEF Permit, PermitGrant, PermitEnd, MainAt, MainReady, wire, wwt
  <2>2. n = Master /\ ~ck[n].needs
    BY <1>0, <2>1, TwoNodes DEF RequestInv
  <2>3. PICK c \in {"grant", "end", "advance"} : main' = [main EXCEPT ![n] = c]
    BY <1>12 DEF Permit, PermitGrant, PermitEnd
  <2>4. Moves(n)
    BY <2>1, <2>2, TwoNodes, NotSetting DEF Moves
  <2>5. PICK s : ~Carries(s, "DRAIN_START")
                 /\ (mainOut' = mainOut \/ mainOut' = [mainOut EXCEPT ![n] = s])
    <3>1. CASE Permit(n)
      BY <1>0, <3>1 DEF Permit, wire
    <3>2. CASE PermitGrant(n)
      BY <1>0, <3>2, SpeechCut DEF PermitGrant, MsgTypes
    <3>3. CASE PermitEnd(n)
      BY <1>0, <3>3, SpeechCut DEF PermitEnd
    <3>4. QED
      BY <1>12, <3>1, <3>2, <3>3
  <2>6. QED
    BY <1>1, <1>2, <2>1, <2>3, <2>4, <2>5, SaysCut
<1>13. CASE Advance(n)
  BY <1>13, AdvanceCut
<1>14. QED
  BY <1>4, <1>5, <1>6, <1>7, <1>8, <1>9, <1>10, <1>11, <1>12, <1>13 DEF Boundary

-----------------------------------------------------------------------------
(* Flexus, the clock and the guest. *)

\* A step of the master's Flexus between its signal and the end of its stores.
LEMMA SetsCut ==
  ASSUME CutBase, ck'[Follower] = ck[Follower],
         UNCHANGED <<status, main, ring, mainOut, flexusOut, round, synced>>,
         RequestInv', main[Master] = "run", ck'[Master].saved = {}, ck[Master].saved = {}
  PROVE  CutInv'
<1>1. CutInv
  BY DEF CutBase
<1>2. ~Asked /\ ~Asked'
  BY DEF Asked, Announced
<1>3. DrainInv'
  BY <1>2, DrainKept DEF KeepsDrains, CountsNone, KeepsAsked
<1>4. AdoptedInv' /\ RequestKept'
  BY <1>1, <1>2 DEF CutInv, AdoptedInv, RequestKept
<1>5. QED
  BY <1>1, <1>3, <1>4 DEF CutInv, CheckpointNotPassed

\* The other steps of Flexus, which may tell the peer something else.
LEMMA FlexusSaysCut ==
  ASSUME CutBase, NEW n \in Nodes, KeepsRequest, KeepsSetting,
         UNCHANGED <<main, ring, mainOut, round, synced>>,
         NEW s, ~Carries(s, "DRAIN_START"),
         flexusOut' = flexusOut \/ flexusOut' = [flexusOut EXCEPT ![n] = s],
         \A m \in Nodes : status'[m] = status[m] \/ status'[m] # "abort_ckpt"
  PROVE  CutInv'
<1>1. flexusOut'[Master] = flexusOut[Master] \/ flexusOut'[Master] = s
  BY TwoNodes DEF CutBase, TypeOK
<1>2. KeepsDrains /\ CountsNone /\ \A m \in Nodes : Moves(m)
  BY <1>1 DEF KeepsDrains, CountsNone, Moves
<1>3. QED
  BY <1>2, CutStays

\* The master signals while its main thread runs, after the follower.
LEMMA MasterSignalsCut == ASSUME CutBase, FinishInitiate(Master) PROVE CutInv'
<1> DEFINE c == [ck[Master] EXCEPT !.signalled = TRUE, !.masterInit = TRUE]
<1>1. /\ TypeOK /\ RequestInv /\ ck[Master] \in CkptFields
      /\ main[Master] # "setup" /\ ~paused[Master]
      /\ ~ck[Master].signalled /\ ck[Master].initFlag >= 1
      /\ ck' = [ck EXCEPT ![Master] = c]
      /\ flexus' = [flexus EXCEPT ![Master] = IF ck[Master].initFlag >= 1 THEN "setflags" ELSE "idle"]
      /\ UNCHANGED <<status, main, ring, mainOut, flexusOut, round, synced>>
  BY TwoNodes DEF CutBase, CutInv, TypeOK, FinishInitiate, wwt
<1>2. main[Master] = "run"
  BY <1>1, TwoNodes DEF CutBase, ClockInv
<1>3. ~ck[Master].needs /\ ck[Master].saved = {} /\ ck[Master].bh = "none"
  BY <1>1 DEF RequestInv
<1>4. ck'[Master] = c /\ ck'[Follower] = ck[Follower]
  BY <1>1, TwoNodes DEF TypeOK
<1>5. /\ ck'[Master].signalled /\ ck'[Master].masterInit
      /\ ck'[Master].initFlag = ck[Master].initFlag
      /\ ~ck'[Master].needs /\ ck'[Master].saved = {} /\ ck'[Master].bh = "none"
  <2>1. /\ c.signalled /\ c.masterInit /\ c.initFlag = ck[Master].initFlag
        /\ c.needs = ck[Master].needs /\ c.saved = ck[Master].saved /\ c.bh = ck[Master].bh
    BY <1>1 DEF CkptFields
  <2> HIDE DEF c
  <2>2. QED
    BY <2>1, <1>3, <1>4
<1>6. flexus'[Master] = "setflags" /\ flexus'[Follower] = flexus[Follower]
  BY <1>1, TwoNodes DEF TypeOK
<1>7. RequestInv'
  BY <1>1, <1>2, <1>5, <1>6 DEF RequestInv, SettingCheckpoint
<1>8. QED
  BY <1>1, <1>2, <1>3, <1>4, <1>5, <1>7, SetsCut

LEMMA SetFlagsCut == ASSUME CutBase, NEW n \in Nodes, SetCheckpointFlags(n) PROVE CutInv'
<1> DEFINE c == [ck[n] EXCEPT !.notified = FALSE, !.needs = TRUE]
<1>1. /\ TypeOK /\ RequestInv /\ ck[n] \in CkptFields /\ flexus[n] = "setflags"
      /\ flexus' = [flexus EXCEPT ![n] = "setround"] /\ ck' = [ck EXCEPT ![n] = c]
      /\ UNCHANGED <<status, main, ring, mainOut, flexusOut, round, synced>>
  BY DEF CutBase, CutInv, TypeOK, SetCheckpointFlags, FlexusAt, wire, wwt
<1>2. n = Master
  BY <1>1, TwoNodes DEF RequestInv, SettingCheckpoint
<1>3. /\ main[Master] = "run" /\ ck[Master].signalled /\ ck[Master].masterInit
      /\ ck[Master].saved = {}
  BY <1>1, <1>2 DEF RequestInv, SettingCheckpoint
<1>4. /\ ck'[Master] = c /\ ck'[Follower] = ck[Follower]
      /\ flexus'[Master] = "setround" /\ flexus'[Follower] = flexus[Follower]
  BY <1>1, <1>2, TwoNodes DEF TypeOK
<1>5. /\ ck'[Master].needs /\ ~ck'[Master].notified /\ ck'[Master].saved = {}
      /\ ck'[Master].signalled /\ ck'[Master].masterInit
      /\ ck'[Master].initFlag = ck[Master].initFlag
  <2>1. /\ c.needs /\ ~c.notified /\ c.saved = ck[n].saved
        /\ c.signalled = ck[n].signalled /\ c.masterInit = ck[n].masterInit
        /\ c.initFlag = ck[n].initFlag
    BY <1>1 DEF CkptFields
  <2> HIDE DEF c
  <2>2. QED
    BY <2>1, <1>2, <1>3, <1>4
<1>6. RequestInv'
  BY <1>1, <1>3, <1>4, <1>5 DEF RequestInv, SettingCheckpoint, Announced
<1>7. QED
  BY <1>1, <1>3, <1>4, <1>5, <1>6, SetsCut

LEMMA SetRoundCut == ASSUME CutBase, NEW n \in Nodes, SetCheckpointRound(n) PROVE CutInv'
<1>1. /\ TypeOK /\ RequestInv /\ ck[n] \in CkptFields /\ flexus[n] = "setround"
      /\ flexus' = [flexus EXCEPT ![n] = "idle"]
      /\ ck' = [ck EXCEPT ![n].ckround = round[n]]
      /\ UNCHANGED <<status, main, ring, mainOut, flexusOut, round, synced>>
  BY DEF CutBase, CutInv, TypeOK, SetCheckpointRound, FlexusAt, wire, wwt
<1>2. n = Master
  BY <1>1, TwoNodes DEF RequestInv, SettingCheckpoint
<1>3. main[Master] = "run" /\ ck[Master].saved = {}
  BY <1>1, <1>2 DEF RequestInv, SettingCheckpoint
<1>4. /\ ck'[Master] = [ck[Master] EXCEPT !.ckround = round[Master]]
      /\ ck'[Follower] = ck[Follower]
      /\ flexus'[Master] = "idle" /\ flexus'[Follower] = flexus[Follower]
  BY <1>1, <1>2, TwoNodes DEF TypeOK
<1>5. /\ ck'[Master].needs = ck[Master].needs /\ ck'[Master].notified = ck[Master].notified
      /\ ck'[Master].saved = {} /\ ck'[Master].signalled = ck[Master].signalled
      /\ ck'[Master].masterInit = ck[Master].masterInit
      /\ ck'[Master].initFlag = ck[Master].initFlag /\ ck'[Master].bh = ck[Master].bh
      /\ ck'[Master].ckround = round[Master]
  BY <1>1, <1>2, <1>3, <1>4 DEF CkptFields
<1>6. RequestInv'
  BY <1>1, <1>3, <1>4, <1>5 DEF RequestInv, SettingCheckpoint, Announced
<1>7. QED
  BY <1>1, <1>3, <1>4, <1>5, <1>6, SetsCut

LEMMA FlexusCut ==
  ASSUME CutBase, NEW n \in Nodes, FlexusThread(n) \/ FinishInitiate(n) PROVE CutInv'
<1>0. TypeOK /\ RequestInv /\ ck[n] \in CkptFields /\ ~Carries(<<>>, "DRAIN_START")
  BY CarriesNothing DEF CutBase, CutInv, TypeOK
<1>1. UNCHANGED ck => KeepsRequest
  BY DEF KeepsRequest
<1>2. ASSUME NEW f \in FlexusStates \ {"setflags", "setround"}, flexus' = [flexus EXCEPT ![n] = f],
             ~SettingCheckpoint(n)
      PROVE  KeepsSetting
  BY <1>0, <1>2 DEF KeepsSetting, SettingCheckpoint, TypeOK
<1>3. CASE FlexusSend(n)
  BY <1>3, FlexusSendCut
<1>4. CASE CanStop(n) \/ CanStopGrant(n) \/ CanStopEnd(n)
  <2>1. /\ flexus[n] \in {"ask", "grant", "end"}
        /\ UNCHANGED <<status, main, ring, mainOut, round, synced, ck>>
    BY <1>4 DEF CanStop, CanStopGrant, CanStopEnd, FlexusAt, wwt
  <2>2. PICK f \in {"grant", "answer", "end"} : flexus' = [flexus EXCEPT ![n] = f]
    BY <1>4 DEF CanStop, CanStopGrant, CanStopEnd
  <2>3. PICK s : ~Carries(s, "DRAIN_START")
                 /\ (flexusOut' = flexusOut \/ flexusOut' = [flexusOut EXCEPT ![n] = s])
    <3>1. CASE CanStop(n)
      <4> DEFINE s == IF ex[n].intent THEN <<>> ELSE <<Msg("INTENT", 0)>>
      <4>1. flexusOut' = flexusOut \/ flexusOut' = [flexusOut EXCEPT ![n] = s]
        BY <3>1, Zenon DEF CanStop
      <4>2. ~Carries(s, "DRAIN_START")
        BY <1>0, SpeechCut DEF MsgTypes
      <4>3. QED
        BY <4>1, <4>2
    <3>2. CASE CanStopGrant(n)
      BY <1>0, <3>2, SpeechCut DEF CanStopGrant, MsgTypes
    <3>3. CASE CanStopEnd(n)
      BY <1>0, <3>3, SpeechCut DEF CanStopEnd
    <3>4. QED
      BY <1>4, <3>1, <3>2, <3>3
  <2>4. KeepsSetting
    BY <1>2, <2>1, <2>2 DEF SettingCheckpoint, FlexusStates
  <2>5. QED
    BY <1>1, <2>1, <2>3, <2>4, FlexusSaysCut
<1>5. CASE CanStopAnswer(n)
  <2>1. /\ flexus[n] = "answer" /\ flexus' = [flexus EXCEPT ![n] = "idle"]
        /\ UNCHANGED <<main, ring, mainOut, flexusOut, round, synced, ck>>
    BY <1>5 DEF CanStopAnswer, FlexusAt, wire, wwt
  <2>2. UNCHANGED status \/ status' = [status EXCEPT ![n] = "exited"]
    BY <1>5, Zenon DEF CanStopAnswer
  <2>3. \A m \in Nodes : status'[m] = status[m] \/ status'[m] # "abort_ckpt"
    BY <1>0, <2>2 DEF TypeOK
  <2>4. KeepsSetting
    BY <1>2, <2>1 DEF SettingCheckpoint, FlexusStates
  <2>5. QED
    BY <1>0, <1>1, <2>1, <2>3, <2>4, FlexusSaysCut
<1>6. CASE SetCheckpointFlags(n)
  BY <1>6, SetFlagsCut
<1>7. CASE SetCheckpointRound(n)
  BY <1>7, SetRoundCut
<1>8. CASE FinishInitiate(n)
  <2>1. CASE n = Master
    BY <1>8, <2>1, MasterSignalsCut
  <2>2. CASE n = Follower
    <3>1. /\ ck' = [ck EXCEPT ![n].signalled = TRUE]
          /\ flexusOut' = [flexusOut EXCEPT ![n] = <<Msg("INIT_STEP", 0)>>]
          /\ UNCHANGED <<status, main, flexus, ring, mainOut, round, synced>>
      BY <1>8, <2>2, TwoNodes DEF FinishInitiate, wwt
    <3>2. ck'[n] = [ck[n] EXCEPT !.signalled = TRUE] /\ ck'[Master] = ck[Master]
      BY <1>0, <2>2, <3>1, TwoNodes DEF TypeOK
    <3>3. /\ ck'[n].needs = ck[n].needs /\ ck'[n].ckround = ck[n].ckround
          /\ ck'[n].bh = ck[n].bh /\ ck'[n].saved = ck[n].saved
      BY <1>0, <3>2 DEF CkptFields
    <3>4. KeepsRequest
      BY <2>2, <3>2, <3>3, TwoNodes DEF KeepsRequest
    <3>5. KeepsSetting
      BY <3>1 DEF KeepsSetting
    <3>6. ~Carries(<<Msg("INIT_STEP", 0)>>, "DRAIN_START")
      BY <1>0, SpeechCut DEF MsgTypes
    <3>7. QED
      BY <3>1, <3>4, <3>5, <3>6, FlexusSaysCut
  <2>3. QED
    BY <2>1, <2>2, TwoNodes
<1>9. QED
  BY <1>3, <1>4, <1>5, <1>6, <1>7, <1>8 DEF FlexusThread

LEMMA TickCut ==
  ASSUME CutBase, NEW n \in Nodes, Tick(n) \/ SendPacket(n) PROVE CutInv'
<1>0. TypeOK /\ ~Carries(<<>>, "DRAIN_START")
  BY CarriesNothing DEF CutBase, TypeOK
<1>1. UNCHANGED ck => KeepsRequest
  BY DEF KeepsRequest
<1>2. CASE Tick(n)
  <2>1. /\ flexus[n] = "idle" /\ \E f \in {"ask", "idle"} : flexus' = [flexus EXCEPT ![n] = f]
        /\ UNCHANGED <<status, main, ring, mainOut, flexusOut, round, synced, ck>>
    BY <1>2 DEF Tick, wire
  <2>2. KeepsSetting
    BY <1>0, <2>1 DEF KeepsSetting, SettingCheckpoint, TypeOK
  <2>3. QED
    BY <1>1, <2>1, <2>2, QuietCut
<1>3. CASE SendPacket(n)
  <2> DEFINE s == <<Packet(n)>>
  <2>1. /\ mainOut[n] = <<>> /\ mainOut' = [mainOut EXCEPT ![n] = s]
        /\ UNCHANGED <<status, main, flexus, ring, flexusOut, round, synced, ck>>
    BY <1>3 DEF SendPacket, InEventLoop, MainReady, ctl
  <2>2. now[n] + Quantum \in Nat
    BY <1>0, SizeAssumption DEF TypeOK
  <2>3. ~Carries(s, "DRAIN_START")
    BY <2>2, CarriesOne DEF Packet, MsgTypes
  <2> HIDE DEF s
  <2>4. main' = [main EXCEPT ![n] = main[n]] /\ Moves(n) /\ KeepsSetting
    BY <1>0, <2>1 DEF TypeOK, Moves, KeepsSetting
  <2>5. QED
    BY <1>1, <2>1, <2>3, <2>4, SaysCut
<1>4. QED
  BY <1>2, <1>3

-----------------------------------------------------------------------------
(* The theorems. *)

LEMMA CutInitial == Init => CutInv
<1> SUFFICES ASSUME Init PROVE CutInv
  OBVIOUS
<1>1. /\ \A n \in Nodes : /\ main[n] = "setup" /\ flexus[n] = "idle" /\ status[n] = "up"
                          /\ ring[n] = <<>> /\ mainOut[n] = <<>> /\ flexusOut[n] = <<>>
                          /\ ~ck[n].needs /\ ~ck[n].masterInit /\ ck[n].bh = "none"
                          /\ ck[n].saved = {}
  BY DEF Init, InitWWT, InitEngine
<1>2. ~Asked
  BY <1>1, TwoNodes DEF Asked
<1>3. RequestInv
  BY <1>1, TwoNodes DEF RequestInv, SettingCheckpoint
<1>4. DrainInv
  BY <1>1, TwoNodes DEF DrainInv
<1>5. AdoptedInv /\ RequestKept
  BY <1>1, <1>2, TwoNodes DEF AdoptedInv, RequestKept
<1>6. QED
  BY <1>1, <1>3, <1>4, <1>5 DEF CutInv, CheckpointNotPassed

LEMMA CutStep ==
  ASSUME ShouldSync, PauseWaits, MasterLast, KeysSuffice, TimedInv, HandshakeInv, CutInv,
         [Next]_vars
  PROVE  CutInv'
<1>0. CutBase
  BY TypeStep DEF CutBase, TimedInv, InductiveInv, SyncInv, TimeInv, HandshakeInv
<1>1. CASE UNCHANGED vars
  <2>1. UNCHANGED <<status, main, flexus, ring, mainOut, flexusOut, round, synced, ck>>
    BY <1>1 DEF vars, ctl, wire, wwt
  <2>2. KeepsRequest /\ KeepsSetting
    BY <2>1 DEF KeepsRequest, KeepsSetting
  <2>3. QED
    BY <1>0, <2>1, <2>2, QuietCut
<1>2. ASSUME NEW n \in Nodes, MainThread(n) PROVE CutInv'
  BY <1>0, <1>2, MainSendCut, ReceiveCut, DispatchCut, BoundaryCut DEF MainThread
<1>3. ASSUME NEW n \in Nodes, FlexusThread(n) \/ FinishInitiate(n) PROVE CutInv'
  BY <1>0, <1>3, FlexusCut
<1>4. ASSUME NEW n \in Nodes, Tick(n) \/ SendPacket(n) PROVE CutInv'
  BY <1>0, <1>4, TickCut
<1>5. QED
  BY <1>1, <1>2, <1>3, <1>4 DEF Next

\* With barriers, a pause that waits and a master that signals last, the request,
\* DRAIN_START and the boundaries of both processes agree in every reachable state
\* (pdes-wwt.c:315-349, 511-530, pdes-engine.c:256-291).
THEOREM CutInductive ==
  ASSUME KeysSuffice, ShouldSync, PauseWaits, MasterLast PROVE Spec => []CutInv
<1>1. Init => CutInv
  BY CutInitial
<1>2. TimedInv /\ HandshakeInv /\ CutInv /\ [Next]_vars => CutInv'
  BY CutStep
<1>3. QED
  BY <1>1, <1>2, TimedInductive, HandshakeInductive, PTL DEF Spec

\* pdes-wwt.c:520: when the master has taken its snapshot at a round, the follower
\* has taken its own at that round or has not left the boundary of it.
THEOREM SnapshotsAreACut ==
  ASSUME KeysSuffice, ShouldSync, PauseWaits, MasterLast PROVE Spec => []SameCut
<1>1. CutInv /\ SyncInv => SameCut
  <2> SUFFICES ASSUME CutInv, SyncInv, NEW q \in ck[Master].saved
               PROVE  round[Follower] <= q \/ q \in ck[Follower].saved
    BY DEF SameCut
  <2>1. q = round[Master] /\ Asked
    BY DEF CutInv, RequestInv, Asked
  <2>2. round[Follower] \in Nat /\ round[Master] \in Nat
    BY TwoNodes DEF SyncInv, TypeOK
  <2>3. CASE Carries(mainOut[Master], "DRAIN_START") \/ Carries(ring[Follower], "DRAIN_START")
    <3>1. round[Master] \notin synced[Follower]
      BY <2>3 DEF CutInv, DrainInv, Carries, IsDrainStart
    <3>2. \A i \in 0 .. round[Follower] - 1 : i \in synced[Follower]
      BY TwoNodes DEF SyncInv, CountInv
    <3>3. QED
      BY <2>1, <2>2, <3>1, <3>2
  <2>4. CASE ck[Follower].needs \/ round[Master] \in ck[Follower].saved
    BY <2>1, <2>4 DEF CutInv, AdoptedInv
  <2>5. QED
    BY <2>1, <2>3, <2>4 DEF CutInv, RequestKept
<1>2. TimedInv => SyncInv
  BY DEF TimedInv, InductiveInv
<1>3. QED
  BY <1>1, <1>2, CutInductive, TimedInductive, PTL

\* pdes-wwt.c:331: no process finds at a boundary that it has passed the round of
\* the checkpoint it needs.
THEOREM CheckpointInTime ==
  ASSUME KeysSuffice, ShouldSync, PauseWaits, MasterLast PROVE Spec => []CheckpointNotPassed
<1>1. CutInv => CheckpointNotPassed
  BY DEF CutInv
<1>2. QED
  BY <1>1, CutInductive, PTL

-----------------------------------------------------------------------------
(* Without barriers. *)

\* What is known before a step.
ToldBase == TypeOK /\ TypeOK' /\ RequestTold /\ ~ShouldSync

\* The master neither tells nor takes its snapshot, the follower forgets nothing.
KeepsTold ==
  /\ ck[Follower].needs => ck'[Follower].needs
  /\ ck[Follower].saved # {} => ck'[Follower].saved # {}
  /\ ck'[Master].notified => ck[Master].notified
  /\ ck'[Master].bh # "none" => ck[Master].bh # "none" \/ ck[Master].notified
  /\ ck'[Master].saved = ck[Master].saved

NeverSpins == \A n \in Nodes : main'[n] # "spin"

LEMMA ToldStays ==
  ASSUME ToldBase, KeepsTold, NeverSpins, UNCHANGED ring,
         mainOut'[Master] = mainOut[Master] \/ mainOut[Master] = <<>>
  PROVE  RequestTold'
<1>1. RequestTold /\ TypeOK
  BY DEF ToldBase
<1>2. DrainHeard => DrainHeard'
  BY DEF DrainHeard, KeepsTold
<1>3. Carries(mainOut[Master], "DRAIN_START") => Carries(mainOut'[Master], "DRAIN_START")
  BY CarriesNothing
<1>4. QED
  BY <1>1, <1>2, <1>3 DEF RequestTold, KeepsTold, NeverSpins

\* A main thread that goes anywhere but into the waiting loop.
LEMMA NotSpinning ==
  ASSUME ToldBase, NEW n \in Nodes, NEW s \in MainStates \ {"spin"},
         main' = main \/ main' = [main EXCEPT ![n] = s]
  PROVE  NeverSpins
BY DEF ToldBase, RequestTold, NeverSpins, TypeOK

\* A main thread that says something was not blocked.
LEMMA SaysTold ==
  ASSUME ToldBase, NEW n \in Nodes, mainOut[n] = <<>>, NEW s,
         mainOut' = mainOut \/ mainOut' = [mainOut EXCEPT ![n] = s]
  PROVE  mainOut'[Master] = mainOut[Master] \/ mainOut[Master] = <<>>
BY TwoNodes DEF ToldBase, TypeOK

\* The head of a blocked send enters the ring of the peer.
LEMMA MainSendTold == ASSUME ToldBase, NEW n \in Nodes, MainSend(n) PROVE RequestTold'
<1>1. /\ TypeOK /\ RequestTold /\ mainOut[n] # <<>> /\ mainOut[n] \in Seq(Message)
      /\ ring' = [ring EXCEPT ![Peer(n)] = Append(@, Head(mainOut[n]))]
      /\ mainOut' = [mainOut EXCEPT ![n] = Tail(@)]
      /\ UNCHANGED <<main, ck>>
  BY DEF ToldBase, TypeOK, MainSend, CommSend, ctl
<1>2. CASE n = Master
  <2> DEFINE m == Head(mainOut[Master])
  <2>1. m \in Message /\ ring[Follower] \in Seq(Message)
    BY <1>1, <1>2, TwoNodes DEF TypeOK
  <2>2. /\ ring'[Follower] = Append(ring[Follower], m)
        /\ mainOut'[Master] = Tail(mainOut[Master])
    BY <1>1, <1>2, TwoNodes DEF TypeOK
  <2>3. /\ Carries(ring[Follower], "DRAIN_START") => Carries(ring'[Follower], "DRAIN_START")
        /\ m.type = "DRAIN_START" => Carries(ring'[Follower], "DRAIN_START")
    <3> HIDE DEF m
    <3>1. QED
      BY <2>1, <2>2, CarriesAppend
  <2>4. Carries(mainOut[Master], "DRAIN_START") =>
          m.type = "DRAIN_START" \/ Carries(mainOut'[Master], "DRAIN_START")
    BY <1>1, <1>2, <2>2, CarriesTail
  <2>5. DrainHeard => DrainHeard'
    BY <1>1, <2>3 DEF DrainHeard
  <2>6. Carries(mainOut[Master], "DRAIN_START") =>
          Carries(mainOut'[Master], "DRAIN_START") \/ DrainHeard'
    BY <2>3, <2>4 DEF DrainHeard
  <2>7. QED
    BY <1>1, <2>5, <2>6 DEF RequestTold
<1>3. CASE n = Follower
  <2>1. mainOut'[Master] = mainOut[Master] /\ ring'[Follower] = ring[Follower]
    BY <1>1, <1>3, TwoNodes DEF TypeOK
  <2>2. QED
    BY <1>1, <2>1 DEF RequestTold, DrainHeard
<1>4. QED
  BY <1>2, <1>3, TwoNodes

LEMMA FlexusSendTold == ASSUME ToldBase, NEW n \in Nodes, FlexusSend(n) PROVE RequestTold'
<1>1. /\ TypeOK /\ RequestTold /\ flexusOut[n] # <<>> /\ flexusOut[n] \in Seq(Message)
      /\ ring' = [ring EXCEPT ![Peer(n)] = Append(@, Head(flexusOut[n]))]
      /\ UNCHANGED <<main, mainOut, ck>>
  BY DEF ToldBase, TypeOK, FlexusSend, CommSend, ctl
<1>2. Carries(ring[Follower], "DRAIN_START") => Carries(ring'[Follower], "DRAIN_START")
  <2> DEFINE m == Head(flexusOut[n])
  <2>1. ring[Follower] \in Seq(Message)
    BY <1>1, TwoNodes DEF TypeOK
  <2>2. m \in Message
    BY <1>1
  <2>3. ring'[Follower] = ring[Follower] \/ ring'[Follower] = Append(ring[Follower], m)
    BY <1>1, TwoNodes DEF TypeOK
  <2> HIDE DEF m
  <2>4. Carries(ring[Follower], "DRAIN_START") =>
          Carries(Append(ring[Follower], m), "DRAIN_START")
    BY <2>1, <2>2, CarriesAppend
  <2>5. QED
    BY <2>3, <2>4
<1>3. DrainHeard => DrainHeard'
  BY <1>1, <1>2 DEF DrainHeard
<1>4. QED
  BY <1>1, <1>3 DEF RequestTold

\* The follower takes a message: what it takes out of the ring it adopts.
LEMMA ReceiveTold == ASSUME ToldBase, NEW n \in Nodes, Receive(n) PROVE RequestTold'
<1>1. TypeOK /\ TypeOK' /\ RequestTold /\ ck[n] \in CkptFields /\ ring[n] \in Seq(Message)
  BY DEF ToldBase, TypeOK
<1>2. /\ main' = main /\ mainOut[n] = <<>>
      /\ \E s : mainOut' = mainOut \/ mainOut' = [mainOut EXCEPT ![n] = s]
  <2>1. main' = main /\ mainOut[n] = <<>>
    BY DEF Receive, RecvNormal, RecvSync, RecvDrainStart, RecvDrainEnd, RecvInitStep, RecvIntent,
           RecvPermission, RecvEnd, PollDone, Receiving, MainReady, ctl
  <2>2. mainOut' = mainOut \/ RecvPermission(n)
    BY DEF Receive, RecvNormal, RecvSync, RecvDrainStart, RecvDrainEnd, RecvInitStep, RecvIntent,
           RecvEnd, PollDone, wire
  <2>3. RecvPermission(n) => \E s : mainOut' = [mainOut EXCEPT ![n] = s]
    BY DEF RecvPermission
  <2>4. QED
    BY <2>1, <2>2, <2>3
<1>3. NeverSpins
  BY <1>1, <1>2 DEF RequestTold, NeverSpins
<1>4. mainOut'[Master] = mainOut[Master] \/ mainOut[Master] = <<>>
  BY <1>2, SaysTold
<1>5. CASE RecvDrainStart(n) /\ n = Follower
  <2>1. ck' = [ck EXCEPT ![n] = [@ EXCEPT !.needs = TRUE, !.ckround = Head(ring[n]).val]]
    BY <1>5, TwoNodes DEF RecvDrainStart
  <2>2. ck'[Follower].needs /\ ck'[Master] = ck[Master]
    BY <1>1, <1>5, <2>1, TwoNodes DEF TypeOK, CkptFields
  <2>3. DrainHeard'
    BY <2>2 DEF DrainHeard
  <2>4. QED
    BY <1>3, <2>3 DEF RequestTold, NeverSpins
<1>6. CASE ~(RecvDrainStart(n) /\ n = Follower)
  <2>1. KeepsTold
    <3>1. CASE RecvInitStep(n)
      <4> DEFINE c == [ck[n] EXCEPT !.initFlag = @ + 1]
                 d == IF n = Master /\ c.initFlag = 1 /\ c.masterInit
                      THEN CheckpointValues(c, round[n]) ELSE c
      <4>1. /\ c.bh = ck[n].bh /\ c.saved = ck[n].saved /\ c.needs = ck[n].needs
            /\ c.notified = ck[n].notified /\ c \in CkptFields
        BY <1>1 DEF CkptFields
      <4>2. round[n] \in Nat
        BY <1>1 DEF TypeOK
      <4>3. ck' = [ck EXCEPT ![n] = d]
        BY <3>1 DEF RecvInitStep
      <4> HIDE DEF c
      <4>4. /\ d.bh = ck[n].bh /\ d.saved = ck[n].saved
            /\ ck[n].needs => d.needs
            /\ d.notified => ck[n].notified
        BY <4>1, <4>2 DEF CheckpointValues, CkptFields
      <4> HIDE DEF d
      <4>5. ck'[n] = d /\ \A m \in Nodes \ {n} : ck'[m] = ck[m]
        BY <1>1, <4>3 DEF TypeOK
      <4>6. CASE n = Master
        BY <4>4, <4>5, <4>6, TwoNodes DEF KeepsTold
      <4>7. CASE n = Follower
        BY <4>4, <4>5, <4>7, TwoNodes DEF KeepsTold
      <4>8. QED
        BY <4>6, <4>7, TwoNodes
    <3>2. CASE ~RecvInitStep(n)
      <4>1. ck' = ck
        BY <1>6, <3>2, TwoNodes DEF Receive, RecvNormal, RecvSync, RecvDrainStart, RecvDrainEnd,
           RecvIntent, RecvPermission, RecvEnd, PollDone
      <4>2. QED
        BY <4>1 DEF KeepsTold
    <3>3. QED
      BY <3>1, <3>2
  <2>2. Carries(ring[Follower], "DRAIN_START") => Carries(ring'[Follower], "DRAIN_START")
    <3>1. \/ ring' = ring
          \/ /\ ring' = [ring EXCEPT ![n] = Tail(@)] /\ ring[n] # <<>>
             /\ n = Follower => Head(ring[n]).type # "DRAIN_START"
      BY <1>6 DEF Receive, RecvNormal, RecvSync, RecvDrainStart, RecvDrainEnd, RecvInitStep,
         RecvIntent, RecvPermission, RecvEnd, PollDone, Receiving, wire
    <3>2. CASE n = Follower
      <4>1. \/ ring'[Follower] = ring[Follower]
            \/ /\ ring'[Follower] = Tail(ring[Follower]) /\ ring[Follower] # <<>>
               /\ Head(ring[Follower]).type # "DRAIN_START"
        BY <1>1, <3>1, <3>2 DEF TypeOK
      <4>2. QED
        BY <1>1, <3>2, <4>1, CarriesTail
    <3>3. CASE n = Master
      BY <1>1, <3>1, <3>3, TwoNodes DEF TypeOK
    <3>4. QED
      BY <3>2, <3>3, TwoNodes
  <2>3. DrainHeard => DrainHeard'
    BY <2>1, <2>2 DEF DrainHeard, KeepsTold
  <2>4. Carries(mainOut[Master], "DRAIN_START") => Carries(mainOut'[Master], "DRAIN_START")
    BY <1>4, CarriesNothing
  <2>5. QED
    BY <1>1, <1>3, <2>1, <2>3, <2>4 DEF RequestTold, KeepsTold, NeverSpins
<1>7. QED
  BY <1>5, <1>6

\* The snapshots: the master takes one when the follower has heard, and the
\* follower forgets the request when it has taken its own.
LEMMA SavesTold == ASSUME ToldBase, NEW n \in Nodes, CheckpointBH(n) PROVE RequestTold'
<1>1. /\ TypeOK /\ RequestTold /\ ck[n] \in CkptFields
      /\ mainOut[n] = <<>> /\ ck[n].bh # "none"
      /\ ck' = [ck EXCEPT ![n] = AfterSnapshot(n)]
      /\ UNCHANGED ring
  BY DEF ToldBase, TypeOK, CheckpointBH, InEventLoop, MainReady
<1>2. ck'[n] = AfterSnapshot(n) /\ \A m \in Nodes \ {n} : ck'[m] = ck[m]
  BY <1>1 DEF TypeOK
<1>3. NeverSpins
  <2>1. \/ main' = [main EXCEPT ![n] = "exiting"]
        \/ main' = [main EXCEPT ![n] = main[n]]
    BY Zenon DEF CheckpointBH
  <2>2. main[n] \in MainStates \ {"spin"}
    BY <1>1 DEF TypeOK, RequestTold
  <2>3. QED
    BY <2>1, <2>2, NotSpinning DEF MainStates
<1>4. /\ ~ck'[n].notified /\ ck'[n].bh = "none"
      /\ Validated(n) => ck'[n].saved = ck[n].saved \cup {round[n]}
      /\ ~Validated(n) => ck'[n].saved = ck[n].saved
  <2>0. ck'[n] = AfterSnapshot(n) /\ ck[n] \in CkptFields
    BY <1>1, <1>2
  <2>1. ~ck'[n].notified /\ ck'[n].bh = "none"
    BY <2>0 DEF AfterSnapshot, CkptFields
  <2>2. ck'[n].saved = IF Validated(n) THEN ck[n].saved \cup {round[n]} ELSE ck[n].saved
    BY <2>0 DEF AfterSnapshot, CkptFields
  <2>3. QED
    BY <2>1, <2>2
<1>5. CASE n = Master
  <2>1. DrainHeard
    BY <1>1, <1>5, CarriesNothing DEF RequestTold
  <2>2. DrainHeard'
    BY <1>1, <1>2, <1>5, <2>1, TwoNodes DEF DrainHeard
  <2>3. QED
    BY <1>3, <2>2 DEF RequestTold, NeverSpins
<1>6. CASE n = Follower
  <2>1. ck'[Follower].saved # {}
    BY <1>4, <1>6, TwoNodes DEF Validated
  <2>2. DrainHeard'
    BY <2>1 DEF DrainHeard
  <2>3. QED
    BY <1>3, <2>2 DEF RequestTold, NeverSpins
<1>7. QED
  BY <1>5, <1>6, TwoNodes

LEMMA DispatchTold == ASSUME ToldBase, NEW n \in Nodes, Dispatch(n) PROVE RequestTold'
<1>1. CASE CheckpointBH(n)
  BY <1>1, SavesTold
<1>2. CASE ~CheckpointBH(n)
  <2>1. UNCHANGED <<ring, mainOut, ck>>
    BY <1>2 DEF Dispatch, HostPoll, PauseBh, SetupWWT, Deliver, QuantaSync, SyncCheck, wire
  <2>2. \E s \in {"run", "notify", "check"} : main' = main \/ main' = [main EXCEPT ![n] = s]
    BY <1>2 DEF Dispatch, HostPoll, PauseBh, SetupWWT, Deliver, QuantaSync, SyncCheck, ctl
  <2>3. NeverSpins
    BY <2>2, NotSpinning DEF MainStates
  <2>4. KeepsTold
    BY <2>1 DEF KeepsTold
  <2>5. QED
    BY <2>1, <2>3, <2>4, ToldStays
<1>3. QED
  BY <1>1, <1>2

\* The master that notes that it has told the follower tells it.
LEMMA TellsTold ==
  ASSUME ToldBase, NEW n \in Nodes, mainOut[n] = <<>>, NeverSpins, UNCHANGED ring,
         NEW u \in Seq(Message), mainOut' = [mainOut EXCEPT ![n] = DrainStart(n) \o u],
         ck' = [ck EXCEPT ![n] = AfterDrainStart(n)]
  PROVE  RequestTold'
<1>1. TypeOK /\ RequestTold /\ ck[n] \in CkptFields /\ round[n] \in Nat
  BY DEF ToldBase, TypeOK
<1>2. /\ ck'[n] = AfterDrainStart(n) /\ mainOut'[n] = DrainStart(n) \o u
      /\ \A m \in Nodes \ {n} : ck'[m] = ck[m] /\ mainOut'[m] = mainOut[m]
  BY <1>1 DEF TypeOK
<1>3. /\ ck'[n].needs = ck[n].needs /\ ck'[n].bh = ck[n].bh /\ ck'[n].saved = ck[n].saved
      /\ ck'[n].notified => ck[n].notified \/ OwesDrainStart(n)
  BY <1>1, <1>2 DEF AfterDrainStart, CkptFields
<1>4. CASE n = Master /\ OwesDrainStart(n)
  <2> DEFINE m == Msg("DRAIN_START", round[n])
             w == <<m>> \o u
  <2>1. mainOut'[Master] = w
    BY <1>2, <1>4 DEF DrainStart
  <2>2. m \in Message /\ m.type = "DRAIN_START"
    BY <1>1 DEF Msg, Message, MsgTypes
  <2>3. Carries(mainOut'[Master], "DRAIN_START")
    <3> HIDE DEF m
    <3>1. 1 \in DOMAIN w /\ w[1] = m
      BY <2>2
    <3> HIDE DEF w
    <3>2. QED
      BY <2>1, <2>2, <3>1 DEF Carries
  <2>4. DrainHeard => DrainHeard'
    BY <1>2, <1>3, <1>4, TwoNodes DEF DrainHeard
  <2>5. QED
    BY <1>1, <1>3, <1>4, <2>3, <2>4 DEF RequestTold, NeverSpins
<1>5. CASE ~(n = Master /\ OwesDrainStart(n))
  <2>1. mainOut'[Master] = mainOut[Master] \/ mainOut[Master] = <<>>
    BY <1>2, TwoNodes
  <2>2. KeepsTold
    <3>1. CASE n = Master
      BY <1>2, <1>3, <1>5, <3>1, TwoNodes DEF KeepsTold
    <3>2. CASE n = Follower
      BY <1>2, <1>3, <3>2, TwoNodes DEF KeepsTold
    <3>3. QED
      BY <3>1, <3>2, TwoNodes
  <2>3. QED
    BY <2>1, <2>2, ToldStays
<1>6. QED
  BY <1>4, <1>5

LEMMA BoundaryTold == ASSUME ToldBase, NEW n \in Nodes, Boundary(n) PROVE RequestTold'
<1>0. TypeOK /\ RequestTold /\ ~ShouldSync /\ ck[n] \in CkptFields /\ round[n] \in Nat
  BY DEF ToldBase, TypeOK
<1>1. mainOut[n] = <<>> /\ main[n] # "spin" /\ UNCHANGED ring
  BY <1>0 DEF Boundary, NotifyAndSync, CheckCount, SpinOn, SpinStop, SpinDestroy, BoundaryNotify,
     BoundaryCheckpoint, BoundaryTooLate, BoundaryPass, Permit, PermitGrant, PermitEnd, Advance,
     Exit, MainAt, MainReady, RequestTold, wire
<1>2. CASE NotifyAndSync(n)
  <2>1. SyncMessage(n) \in Seq(Message)
    BY <1>0 DEF SyncMessage
  <2>2. main' = [main EXCEPT ![n] = "armed"]
    BY <1>2 DEF NotifyAndSync
  <2>3. NeverSpins
    BY <2>2, NotSpinning DEF MainStates
  <2>4. /\ mainOut' = [mainOut EXCEPT ![n] = DrainStart(n) \o SyncMessage(n)]
        /\ ck' = [ck EXCEPT ![n] = AfterDrainStart(n)]
    BY <1>2 DEF NotifyAndSync
  <2>5. QED
    BY <1>1, <2>1, <2>3, <2>4, TellsTold
<1>3. CASE BoundaryNotify(n)
  <2>1. DrainStart(n) \o <<>> = DrainStart(n)
    <3>1. DrainStart(n) \in Seq(Message)
      BY <1>0, MsgSeq DEF DrainStart, MsgTypes
    <3>2. QED
      BY <3>1
  <2>2. NeverSpins
    BY <1>0, <1>3 DEF BoundaryNotify, ctl, RequestTold, NeverSpins
  <2>3. /\ mainOut' = [mainOut EXCEPT ![n] = DrainStart(n) \o <<>>]
        /\ ck' = [ck EXCEPT ![n] = AfterDrainStart(n)]
    BY <1>3, <2>1 DEF BoundaryNotify
  <2>4. <<>> \in Seq(Message)
    OBVIOUS
  <2>5. QED
    BY <1>1, <2>2, <2>3, <2>4, TellsTold
<1>4. CASE BoundaryCheckpoint(n)
  <2> DEFINE c == [ck[n] EXCEPT !.bh = IF @ = "none" THEN "stay" ELSE @]
  <2>1. /\ ck[n].notified /\ ck' = [ck EXCEPT ![n] = c] /\ UNCHANGED mainOut
        /\ main' = [main EXCEPT ![n] = "armed"]
    BY <1>4 DEF BoundaryCheckpoint, wire
  <2>2. /\ c.needs = ck[n].needs /\ c.saved = ck[n].saved /\ c.notified = ck[n].notified
    BY <1>0 DEF CkptFields
  <2> HIDE DEF c
  <2>3. ck'[n] = c /\ \A m \in Nodes \ {n} : ck'[m] = ck[m]
    BY <1>0, <2>1 DEF TypeOK
  <2>4. KeepsTold
    <3>1. CASE n = Master
      BY <2>1, <2>2, <2>3, <3>1, TwoNodes DEF KeepsTold
    <3>2. CASE n = Follower
      BY <2>2, <2>3, <3>2, TwoNodes DEF KeepsTold
    <3>3. QED
      BY <3>1, <3>2, TwoNodes
  <2>5. NeverSpins
    BY <2>1, NotSpinning DEF MainStates
  <2>6. QED
    BY <1>1, <2>1, <2>4, <2>5, ToldStays
<1>5. CASE \/ CheckCount(n) \/ BoundaryTooLate(n) \/ BoundaryPass(n) \/ Permit(n)
           \/ PermitGrant(n) \/ PermitEnd(n) \/ Advance(n) \/ Exit(n)
  <2>1. UNCHANGED ck
    BY <1>5 DEF CheckCount, BoundaryTooLate, BoundaryPass, Permit, PermitGrant, PermitEnd,
       Advance, Exit
  <2>2. ~Waiting(n)
    BY <1>0 DEF Waiting
  <2>3. \E s \in {"boundary", "permit", "grant", "end", "advance", "run"} :
          main' = main \/ main' = [main EXCEPT ![n] = s]
    BY <1>5, <2>2 DEF CheckCount, BoundaryTooLate, BoundaryPass, Permit, PermitGrant, PermitEnd,
       Advance, Exit
  <2>4. NeverSpins
    BY <2>3, NotSpinning DEF MainStates
  <2>5. \E s : mainOut' = mainOut \/ mainOut' = [mainOut EXCEPT ![n] = s]
    BY <1>5 DEF CheckCount, BoundaryTooLate, BoundaryPass, Permit, PermitGrant, PermitEnd,
       Advance, Exit, wire
  <2>6. KeepsTold
    BY <2>1 DEF KeepsTold
  <2>7. QED
    BY <1>1, <2>4, <2>5, <2>6, SaysTold, ToldStays
<1>6. QED
  BY <1>1, <1>2, <1>3, <1>4, <1>5 DEF Boundary, SpinOn, SpinStop, SpinDestroy, MainAt

LEMMA FlexusTold ==
  ASSUME ToldBase, NEW n \in Nodes, FlexusThread(n) \/ FinishInitiate(n)
  PROVE  RequestTold'
<1>0. TypeOK /\ RequestTold /\ ck[n] \in CkptFields /\ round[n] \in Nat
  BY DEF ToldBase, TypeOK
<1>1. CASE FlexusSend(n)
  BY <1>1, FlexusSendTold
<1>2. CASE ~FlexusSend(n)
  <2>1. UNCHANGED <<main, ring, mainOut>>
    BY <1>2 DEF FlexusThread, CanStop, CanStopGrant, CanStopEnd, CanStopAnswer,
       SetCheckpointFlags, SetCheckpointRound, FinishInitiate, wire
  <2>2. PICK c \in {ck[n],
                    [ck[n] EXCEPT !.signalled = TRUE, !.masterInit = TRUE],
                    [ck[n] EXCEPT !.signalled = TRUE],
                    [ck[n] EXCEPT !.notified = FALSE, !.needs = TRUE],
                    [ck[n] EXCEPT !.ckround = round[n]]} :
           ck' = [ck EXCEPT ![n] = c]
    <3>1. UNCHANGED ck => ck' = [ck EXCEPT ![n] = ck[n]]
      BY <1>0 DEF TypeOK
    <3>2. CASE CanStop(n) \/ CanStopGrant(n) \/ CanStopEnd(n) \/ CanStopAnswer(n)
      BY <3>1, <3>2 DEF CanStop, CanStopGrant, CanStopEnd, CanStopAnswer
    <3>3. CASE SetCheckpointFlags(n)
      BY <3>3 DEF SetCheckpointFlags
    <3>4. CASE SetCheckpointRound(n)
      BY <3>4 DEF SetCheckpointRound
    <3>5. CASE FinishInitiate(n)
      BY <3>5, Zenon DEF FinishInitiate
    <3>6. QED
      BY <1>2, <3>2, <3>3, <3>4, <3>5 DEF FlexusThread
  <2>3. /\ ck[n].needs => c.needs
        /\ c.saved = ck[n].saved /\ c.bh = ck[n].bh
        /\ c.notified => ck[n].notified
    BY <1>0, <2>2 DEF CkptFields
  <2>4. ck'[n] = c /\ \A m \in Nodes \ {n} : ck'[m] = ck[m]
    BY <1>0, <2>2 DEF TypeOK
  <2>5. KeepsTold
    <3>1. CASE n = Master
      BY <2>3, <2>4, <3>1, TwoNodes DEF KeepsTold
    <3>2. CASE n = Follower
      BY <2>3, <2>4, <3>2, TwoNodes DEF KeepsTold
    <3>3. QED
      BY <3>1, <3>2, TwoNodes
  <2>6. NeverSpins
    BY <1>0, <2>1 DEF RequestTold, NeverSpins
  <2>7. QED
    BY <2>1, <2>5, <2>6, ToldStays
<1>3. QED
  BY <1>1, <1>2

LEMMA ToldInitial == Init => RequestTold
BY TwoNodes DEF Init, InitWWT, InitEngine, RequestTold

LEMMA ToldStep == ASSUME ~ShouldSync, TypeOK, RequestTold, [Next]_vars PROVE RequestTold'
<1>0. ToldBase
  BY TypeStep DEF ToldBase
<1>1. CASE UNCHANGED vars
  <2>1. UNCHANGED <<main, ring, mainOut, ck>>
    BY <1>1 DEF vars, ctl, wire
  <2>2. KeepsTold /\ NeverSpins
    BY <2>1 DEF KeepsTold, NeverSpins, RequestTold
  <2>3. QED
    BY <1>0, <2>1, <2>2, ToldStays
<1>2. ASSUME NEW n \in Nodes, MainThread(n) PROVE RequestTold'
  BY <1>0, <1>2, MainSendTold, ReceiveTold, DispatchTold, BoundaryTold DEF MainThread
<1>3. ASSUME NEW n \in Nodes, FlexusThread(n) \/ FinishInitiate(n) PROVE RequestTold'
  BY <1>0, <1>3, FlexusTold
<1>4. ASSUME NEW n \in Nodes, Tick(n) \/ SendPacket(n) PROVE RequestTold'
  <2>1. UNCHANGED <<main, ring, ck>>
    BY <1>4 DEF Tick, SendPacket, ctl, wire
  <2>2. mainOut[n] = <<>> /\ \E s : mainOut' = mainOut \/ mainOut' = [mainOut EXCEPT ![n] = s]
    BY <1>4 DEF Tick, SendPacket, InEventLoop, MainReady, wire
  <2>3. KeepsTold /\ NeverSpins
    BY <2>1 DEF KeepsTold, NeverSpins, RequestTold
  <2>4. QED
    BY <1>0, <2>1, <2>2, <2>3, SaysTold, ToldStays
<1>5. QED
  BY <1>1, <1>2, <1>3, <1>4 DEF Next

\* Without barriers, and however the two processes run, the follower is told of
\* the checkpoint before the master takes its snapshot, and keeps the request until
\* it has taken its own (pdes-wwt.c:511-530, pdes-engine.c:256-291).
THEOREM CheckpointIsNotLost == ASSUME ~ShouldSync PROVE Spec => []CheckpointNotLost
<1>1. TypeOK /\ RequestTold /\ [Next]_vars => RequestTold'
  BY ToldStep
<1>2. RequestTold => CheckpointNotLost
  BY DEF RequestTold, DrainHeard, CheckpointNotLost, Carries, OfType
<1>3. QED
  BY <1>1, <1>2, ToldInitial, TypeCorrect, PTL DEF Spec
=============================================================================
