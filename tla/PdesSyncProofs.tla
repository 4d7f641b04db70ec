--------------------------- MODULE PdesSyncProofs ---------------------------
(***************************************************************************)
(* PdesSystem keeps the types of its variables, for every value of its     *)
(* constants.  SyncInv is inductive as long as no key of sync_counts is    *)
(* used twice, so the assertion on the round of a received SYNC never      *)
(* fails, and the boundary of a quantum is a barrier.                      *)
(***************************************************************************)
EXTENDS PdesInvariant, TLAPS

-----------------------------------------------------------------------------
(* Types.  One lemma per action, one step per variable it changes. *)

\* The peer is the other process, and its peer is the first.
LEMMA PeerNodes ==
  \A n \in Nodes : Peer(n) \in Nodes /\ Peer(n) # n /\ Peer(Peer(n)) = n
BY NodesAssumption DEF Nodes, Peer

\* create_message makes a message.
LEMMA MsgSeq == \A t \in MsgTypes, v \in Nat : <<Msg(t, v)>> \in Seq(Message)
BY DEF Msg, Message

\* (guint)round is a number.
LEMMA KeyType == \A r \in Nat : Key(r) \in Nat
BY SizeAssumption DEF Key

\* pdes_comm_recv takes a message and leaves messages.
LEMMA ReceiveType ==
  ASSUME TypeOK, NEW n \in Nodes, NEW t \in MsgTypes, Receiving(n, t)
  PROVE  ring' \in [Nodes -> Seq(Message)] /\ Head(ring[n]).val \in Nat
<1>1. ring[n] \in Seq(Message) /\ ring[n] # <<>>
  BY DEF Receiving, TypeOK
<1>2. Head(ring[n]) \in Message /\ Tail(ring[n]) \in Seq(Message)
  BY <1>1
<1>3. QED
  BY <1>2 DEF Receiving, TypeOK, Message

\* pdes_comm_send adds a message.
LEMMA SendType ==
  ASSUME TypeOK, NEW n \in Nodes, NEW out \in [Nodes -> Seq(Message)],
         CommSend(n, out)
  PROVE  ring' \in [Nodes -> Seq(Message)]
<1>1. Head(out[n]) \in Message
  BY DEF CommSend
<1>2. QED
  BY <1>1, PeerNodes DEF CommSend, TypeOK

\* A delivery timer that has fired is gone from the list.
LEMMA CutType ==
  ASSUME NEW s \in Seq(Nat), NEW i \in DOMAIN s PROVE RemoveAt(s, i) \in Seq(Nat)
<1>1. SubSeq(s, 1, i - 1) \in Seq(Nat) /\ SubSeq(s, i + 1, Len(s)) \in Seq(Nat)
  OBVIOUS
<1>2. QED
  BY <1>1 DEF RemoveAt

\* _send_end_if_handshake_complete and notify_neighbours_of_end keep the types of
\* the handshake's fields and send messages.
LEMMA EndType ==
  ASSUME NEW e \in ExitFields
  PROVE  /\ AfterEnd(e) \in ExitFields
         /\ NotifyEndFields(e) \in ExitFields
         /\ EndIfPermitted(e) \in Seq(Message)
         /\ NotifyEndMessages(e) \in Seq(Message)
<1>1. AfterEnd(e) \in ExitFields
  BY DEF AfterEnd, ExitFields
<1>2. NotifyEndFields(e) \in ExitFields
  BY <1>1 DEF NotifyEndFields, ExitFields
<1>3. EndIfPermitted(e) \in Seq(Message)
  BY MsgSeq DEF EndIfPermitted, MsgTypes
<1>4. QED
  BY <1>1, <1>2, <1>3 DEF NotifyEndMessages

\* The functions of the checkpoint keep the types of its fields and send messages.
LEMMA DrainType ==
  ASSUME TypeOK, NEW n \in Nodes
  PROVE  /\ DrainMessages(n) \in Seq(Message)
         /\ DrainStart(n) \in Seq(Message)
         /\ AfterSnapshot(n) \in CkptFields
         /\ AfterDrainStart(n) \in CkptFields
<1>1. DrainMessages(n) \in Seq(Message)
  BY MsgSeq DEF DrainMessages, MsgTypes
<1>2. DrainStart(n) \in Seq(Message)
  BY MsgSeq DEF DrainStart, MsgTypes, TypeOK
<1>3. AfterSnapshot(n) \in CkptFields
  <2> DEFINE c == ck[n]
  <2>1. c \in CkptFields /\ round[n] \in Nat
    BY DEF TypeOK
  <2>2. (c.masterInit \/ ~Validated(n)) \in BOOLEAN
    BY <2>1 DEF CkptFields
  <2>3. (IF Validated(n) THEN c.saved \cup {round[n]} ELSE c.saved) \in SUBSET Nat
    BY <2>1 DEF CkptFields
  <2>4. QED
    BY <2>1, <2>2, <2>3 DEF AfterSnapshot, CkptFields
<1>4. AfterDrainStart(n) \in CkptFields
  <2> DEFINE c == ck[n]
  <2>1. c \in CkptFields
    BY DEF TypeOK
  <2>2. (c.notified \/ OwesDrainStart(n)) \in BOOLEAN
    BY <2>1 DEF OwesDrainStart, CkptFields
  <2>3. QED
    BY <2>1, <2>2 DEF AfterDrainStart, CkptFields
<1>5. QED
  BY <1>1, <1>2, <1>3, <1>4

\* MainSend keeps the types of all variables.
LEMMA TyMainSend ==
  ASSUME TypeOK, NEW n \in Nodes, MainSend(n) PROVE TypeOK'
<1>1. ring' \in [Nodes -> Seq(Message)]
  BY SendType DEF MainSend, TypeOK
<1>2. mainOut' \in [Nodes -> Seq(Message)]
  BY DEF MainSend, CommSend, TypeOK
<1>3. QED
  BY <1>1, <1>2 DEF MainSend, TypeOK, ctl, wire, wwt, cpu

\* RecvNormal keeps the types of all variables.
LEMMA TyRecvNormal ==
  ASSUME TypeOK, NEW n \in Nodes, RecvNormal(n) PROVE TypeOK'
<1>1. ring' \in [Nodes -> Seq(Message)]
  BY ReceiveType DEF RecvNormal, MsgTypes, TypeOK
<1>2. status' \in [Nodes -> Statuses]
  BY DEF RecvNormal, Abort, TypeOK, Statuses, Aborts
<1>3. inflight' \in [Nodes -> Seq(Nat)]
  <2>1. Head(ring[n]).val \in Nat
    BY ReceiveType DEF RecvNormal, MsgTypes
  <2>2. DueAt(n, Head(ring[n]).val) \in Nat
    BY <2>1 DEF DueAt, Later, TypeOK
  <2>3. CASE ShouldSync /\ Head(ring[n]).val < now[n]
    BY <2>3 DEF RecvNormal, TypeOK
  <2>4. CASE ~(ShouldSync /\ Head(ring[n]).val < now[n])
    <3> DEFINE due == DueAt(n, Head(ring[n]).val)
    <3>1. inflight' = [inflight EXCEPT ![n] = Append(inflight[n], due)]
      BY <2>4, Zenon DEF RecvNormal
    <3>2. inflight[n] \in Seq(Nat) /\ due \in Nat
      BY <2>2 DEF TypeOK
    <3>3. Append(inflight[n], due) \in Seq(Nat)
      BY <3>2
    <3>4. QED
      BY <3>1, <3>3 DEF TypeOK
  <2>5. QED
    BY <2>3, <2>4
<1>4. QED
  BY <1>1, <1>2, <1>3 DEF RecvNormal, TypeOK, ctl, wire, wwt, cpu

\* RecvSync keeps the types of all variables.
LEMMA TyRecvSync ==
  ASSUME TypeOK, NEW n \in Nodes, RecvSync(n) PROVE TypeOK'
<1>1. ring' \in [Nodes -> Seq(Message)]
  BY ReceiveType DEF RecvSync, MsgTypes, TypeOK
<1>2. status' \in [Nodes -> Statuses]
  BY DEF RecvSync, Abort, TypeOK, Statuses, Aborts
<1>3. synced' \in [Nodes -> SUBSET Nat]
  <2>1. Key(Head(ring[n]).val) \in Nat
    BY ReceiveType, KeyType DEF RecvSync, MsgTypes
  <2>2. CASE ShouldSync /\ ~ValidRound(n, Head(ring[n]).val)
    BY <2>2 DEF RecvSync, TypeOK
  <2>3. CASE ~(ShouldSync /\ ~ValidRound(n, Head(ring[n]).val))
    <3> DEFINE k == Key(Head(ring[n]).val)
    <3>1. synced' = [synced EXCEPT ![n] = synced[n] \cup {k}]
      BY <2>3, Zenon DEF RecvSync
    <3>2. synced[n] \cup {k} \in SUBSET Nat
      BY <2>1 DEF TypeOK
    <3>3. QED
      BY <3>1, <3>2 DEF TypeOK
  <2>4. QED
    BY <2>2, <2>3
<1>4. QED
  BY <1>1, <1>2, <1>3 DEF RecvSync, TypeOK, ctl, wire, wwt, cpu

\* RecvDrainStart keeps the types of all variables.
LEMMA TyRecvDrainStart ==
  ASSUME TypeOK, NEW n \in Nodes, RecvDrainStart(n) PROVE TypeOK'
<1>1. ring' \in [Nodes -> Seq(Message)]
  BY ReceiveType DEF RecvDrainStart, MsgTypes, TypeOK
<1>2. ck' \in [Nodes -> CkptFields]
  <2>1. ck[n] \in CkptFields
    BY DEF TypeOK
  <2>2. [ck[n] EXCEPT !.needs = TRUE, !.ckround = Head(ring[n]).val] \in CkptFields
    BY <2>1, ReceiveType DEF CkptFields, RecvDrainStart, MsgTypes
  <2>3. QED
    BY <2>1, <2>2 DEF RecvDrainStart, TypeOK
<1>3. QED
  BY <1>1, <1>2 DEF RecvDrainStart, TypeOK, ctl, wire, wwt, cpu

\* RecvDrainEnd keeps the types of all variables.
LEMMA TyRecvDrainEnd ==
  ASSUME TypeOK, NEW n \in Nodes, RecvDrainEnd(n) PROVE TypeOK'
<1>1. ring' \in [Nodes -> Seq(Message)]
  BY ReceiveType DEF RecvDrainEnd, MsgTypes, TypeOK
<1>2. QED
  BY <1>1 DEF RecvDrainEnd, TypeOK, ctl, wire, wwt, cpu

\* RecvInitStep keeps the types of all variables.
LEMMA TyRecvInitStep ==
  ASSUME TypeOK, NEW n \in Nodes, RecvInitStep(n) PROVE TypeOK'
<1>1. ring' \in [Nodes -> Seq(Message)]
  BY ReceiveType DEF RecvInitStep, MsgTypes, TypeOK
<1>2. ck' \in [Nodes -> CkptFields]
  <2>1. ck[n] \in CkptFields
    BY DEF TypeOK
  <2>2. [ck[n] EXCEPT !.initFlag = @ + 1] \in CkptFields
    BY <2>1 DEF CkptFields
  <2>3. CheckpointValues([ck[n] EXCEPT !.initFlag = @ + 1], round[n]) \in CkptFields
    BY <2>2 DEF CkptFields, CheckpointValues, TypeOK
  <2>4. QED
    BY <2>1, <2>2, <2>3 DEF RecvInitStep, TypeOK
<1>3. QED
  BY <1>1, <1>2 DEF RecvInitStep, TypeOK, ctl, wire, wwt, cpu

\* RecvIntent keeps the types of all variables.
LEMMA TyRecvIntent ==
  ASSUME TypeOK, NEW n \in Nodes, RecvIntent(n) PROVE TypeOK'
<1>1. ring' \in [Nodes -> Seq(Message)]
  BY ReceiveType DEF RecvIntent, MsgTypes, TypeOK
<1>2. ex' \in [Nodes -> ExitFields]
  <2>1. ex[n] \in ExitFields
    BY DEF TypeOK
  <2>2. [ex[n] EXCEPT !.nbrs = IF n = Master THEN @ + 1 ELSE @] \in ExitFields
    BY <2>1 DEF ExitFields
  <2>3. QED
    BY <2>1, <2>2 DEF RecvIntent, TypeOK
<1>3. QED
  BY <1>1, <1>2 DEF RecvIntent, TypeOK, ctl, wire, wwt, cpu

\* RecvPermission keeps the types of all variables.
LEMMA TyRecvPermission ==
  ASSUME TypeOK, NEW n \in Nodes, RecvPermission(n) PROVE TypeOK'
<1>1. ring' \in [Nodes -> Seq(Message)]
  BY ReceiveType DEF RecvPermission, MsgTypes, TypeOK
<1>2. ex' \in [Nodes -> ExitFields]
  <2>1. ex[n] \in ExitFields
    BY DEF TypeOK
  <2>2. [ex[n] EXCEPT !.permitted = TRUE] \in ExitFields
    BY <2>1 DEF ExitFields
  <2>3. QED
    BY <2>1, <2>2, EndType DEF RecvPermission, TypeOK
<1>3. mainOut' \in [Nodes -> Seq(Message)]
  <2> DEFINE e == ex[n]
  <2>0. e \in ExitFields
    BY DEF TypeOK
  <2>1. [e EXCEPT !.permitted = TRUE] \in ExitFields
    BY <2>0 DEF ExitFields
  <2>2. EndIfPermitted([ex[n] EXCEPT !.permitted = TRUE]) \in Seq(Message)
    BY <2>1, EndType
  <2>3. QED
    BY <2>2 DEF RecvPermission, TypeOK
<1>4. QED
  BY <1>1, <1>2, <1>3 DEF RecvPermission, TypeOK, ctl, wire, wwt, cpu

\* RecvEnd keeps the types of all variables.
LEMMA TyRecvEnd ==
  ASSUME TypeOK, NEW n \in Nodes, RecvEnd(n) PROVE TypeOK'
<1>1. ring' \in [Nodes -> Seq(Message)]
  BY ReceiveType DEF RecvEnd, MsgTypes, TypeOK
<1>2. status' \in [Nodes -> Statuses]
  BY DEF RecvEnd, Abort, TypeOK, Statuses, Aborts
<1>3. ex' \in [Nodes -> ExitFields]
  <2>1. ex[n] \in ExitFields
    BY DEF TypeOK
  <2>2. [ex[n] EXCEPT !.pairFin = TRUE] \in ExitFields
    BY <2>1 DEF ExitFields
  <2>3. QED
    <3>1. CASE ex[n].permitted
      BY <2>2, <3>1 DEF RecvEnd, TypeOK
    <3>2. CASE ~ex[n].permitted
      BY <3>2 DEF RecvEnd, TypeOK
    <3>3. QED
      BY <3>1, <3>2
<1>4. QED
  BY <1>1, <1>2, <1>3 DEF RecvEnd, TypeOK, ctl, wire, wwt, cpu

\* PollDone keeps the types of all variables.
LEMMA TyPollDone ==
  ASSUME TypeOK, NEW n \in Nodes, PollDone(n) PROVE TypeOK'
BY DEF PollDone, TypeOK, MainStates, FlexusStates, Statuses, ctl, wire, wwt, cpu

\* HostPoll keeps the types of all variables.
LEMMA TyHostPoll ==
  ASSUME TypeOK, NEW n \in Nodes, HostPoll(n) PROVE TypeOK'
BY DEF HostPoll, TypeOK, MainStates, FlexusStates, Statuses, ctl, wire, wwt, cpu

\* PauseBh keeps the types of all variables.
LEMMA TyPauseBh ==
  ASSUME TypeOK, NEW n \in Nodes, PauseBh(n) PROVE TypeOK'
BY DEF PauseBh, TypeOK, MainStates, FlexusStates, Statuses, ctl, wire, wwt, cpu

\* CheckpointBH keeps the types of all variables.
LEMMA TyCheckpointBH ==
  ASSUME TypeOK, NEW n \in Nodes, CheckpointBH(n) PROVE TypeOK'
<1>1. ex' \in [Nodes -> ExitFields]
  <2>1. ex[n] \in ExitFields
    BY DEF TypeOK
  <2>2. NotifyEndFields(ex[n]) \in ExitFields
    BY <2>1, EndType
  <2>3. ex' = ex \/ ex' = [ex EXCEPT ![n] = NotifyEndFields(ex[n])]
    BY DEF CheckpointBH
  <2>4. ex \in [Nodes -> ExitFields]
    BY DEF TypeOK
  <2>5. QED
    BY <2>2, <2>3, <2>4
<1>2. mainOut' \in [Nodes -> Seq(Message)]
  <2>1. ex[n] \in ExitFields
    BY DEF TypeOK
  <2>2. NotifyEndMessages(ex[n]) \in Seq(Message)
    BY <2>1, EndType
  <2>3. DrainMessages(n) \o NotifyEndMessages(ex[n]) \in Seq(Message)
    BY <2>2, DrainType
  <2>4. \/ mainOut' = mainOut
        \/ mainOut' = [mainOut EXCEPT ![n] =
                         DrainMessages(n) \o NotifyEndMessages(ex[n])]
    BY DEF CheckpointBH
  <2>5. mainOut \in [Nodes -> Seq(Message)]
    BY DEF TypeOK
  <2>6. QED
    BY <2>3, <2>4, <2>5
<1>3. ck' \in [Nodes -> CkptFields]
  BY DrainType DEF CheckpointBH, TypeOK
<1>4. main' \in [Nodes -> MainStates]
  BY DEF CheckpointBH, TypeOK, MainStates
<1>5. QED
  BY <1>1, <1>2, <1>3, <1>4 DEF CheckpointBH, TypeOK, ctl, wire, wwt, cpu

\* SetupWWT keeps the types of all variables.
LEMMA TySetupWWT ==
  ASSUME TypeOK, NEW n \in Nodes, SetupWWT(n) PROVE TypeOK'
BY DEF SetupWWT, TypeOK, MainStates, FlexusStates, Statuses, ctl, wire, wwt, cpu

\* Deliver keeps the types of all variables.
LEMMA TyDeliver ==
  ASSUME TypeOK, NEW n \in Nodes, Deliver(n) PROVE TypeOK'
<1>1. inflight' \in [Nodes -> Seq(Nat)]
  BY CutType DEF Deliver, TypeOK
<1>2. QED
  BY <1>1 DEF Deliver, TypeOK, ctl, wire, wwt, cpu

\* QuantaSync keeps the types of all variables.
LEMMA TyQuantaSync ==
  ASSUME TypeOK, NEW n \in Nodes, QuantaSync(n) PROVE TypeOK'
<1>1. status' \in [Nodes -> Statuses]
  BY DEF QuantaSync, Pause, Abort, TypeOK, Statuses, Aborts
<1>2. main' \in [Nodes -> MainStates]
  BY DEF QuantaSync, Pause, TypeOK, MainStates
<1>3. QED
  BY <1>1, <1>2 DEF QuantaSync, Pause, TypeOK, ctl, wire, wwt, cpu

\* SyncCheck keeps the types of all variables.
LEMMA TySyncCheck ==
  ASSUME TypeOK, NEW n \in Nodes, SyncCheck(n) PROVE TypeOK'
BY DEF SyncCheck, TypeOK, MainStates, FlexusStates, Statuses, ctl, wire, wwt, cpu

\* NotifyAndSync keeps the types of all variables.
LEMMA TyNotifyAndSync ==
  ASSUME TypeOK, NEW n \in Nodes, NotifyAndSync(n) PROVE TypeOK'
<1>1. mainOut' \in [Nodes -> Seq(Message)]
  BY DrainType, MsgSeq DEF NotifyAndSync, SyncMessage, TypeOK, MsgTypes
<1>2. ck' \in [Nodes -> CkptFields]
  BY DrainType DEF NotifyAndSync, SyncMessage, TypeOK
<1>3. main' \in [Nodes -> MainStates]
  BY DEF NotifyAndSync, SyncMessage, TypeOK, MainStates
<1>4. QED
  BY <1>1, <1>2, <1>3 DEF NotifyAndSync, SyncMessage, TypeOK, ctl, wire, wwt, cpu

\* CheckCount keeps the types of all variables.
LEMMA TyCheckCount ==
  ASSUME TypeOK, NEW n \in Nodes, CheckCount(n) PROVE TypeOK'
<1>1. main' \in [Nodes -> MainStates]
  BY DEF CheckCount, TypeOK, MainStates
<1>2. polling' \in [Nodes -> BOOLEAN]
  BY DEF CheckCount, TypeOK, Waiting
<1>3. QED
  BY <1>1, <1>2 DEF CheckCount, TypeOK, ctl, wire, wwt, cpu

\* SpinOn keeps the types of all variables.
LEMMA TySpinOn ==
  ASSUME TypeOK, NEW n \in Nodes, SpinOn(n) PROVE TypeOK'
BY DEF SpinOn, TypeOK, MainStates, FlexusStates, Statuses, ctl, wire, wwt, cpu

\* SpinStop keeps the types of all variables.
LEMMA TySpinStop ==
  ASSUME TypeOK, NEW n \in Nodes, SpinStop(n) PROVE TypeOK'
<1>1. status' \in [Nodes -> Statuses]
  BY DEF SpinStop, Abort, TypeOK, Statuses, Aborts
<1>2. QED
  BY <1>1 DEF SpinStop, TypeOK, ctl, wire, wwt, cpu

\* SpinDestroy keeps the types of all variables.
LEMMA TySpinDestroy ==
  ASSUME TypeOK, NEW n \in Nodes, SpinDestroy(n) PROVE TypeOK'
<1>1. ex' \in [Nodes -> ExitFields]
  BY EndType DEF SpinDestroy, Destroy, TypeOK
<1>2. mainOut' \in [Nodes -> Seq(Message)]
  BY EndType DEF SpinDestroy, Destroy, TypeOK
<1>3. ck' \in [Nodes -> CkptFields]
  <2>1. ck[n] \in CkptFields
    BY DEF TypeOK
  <2>2. [ck[n] EXCEPT !.bh = IF @ = "none" THEN "exit" ELSE @] \in CkptFields
    BY <2>1 DEF CkptFields
  <2>3. QED
    BY <2>1, <2>2 DEF SpinDestroy, Destroy, CloseNow, CloseAfterCheckpoint, TypeOK
<1>4. main' \in [Nodes -> MainStates]
  BY DEF SpinDestroy, Destroy, CloseNow, CloseAfterCheckpoint, TypeOK, MainStates
<1>5. QED
  BY <1>1, <1>2, <1>3, <1>4 DEF SpinDestroy, TypeOK, ctl, wire, wwt, cpu

\* BoundaryNotify keeps the types of all variables.
LEMMA TyBoundaryNotify ==
  ASSUME TypeOK, NEW n \in Nodes, BoundaryNotify(n) PROVE TypeOK'
<1>1. mainOut' \in [Nodes -> Seq(Message)]
  BY DrainType DEF BoundaryNotify, TypeOK
<1>2. ck' \in [Nodes -> CkptFields]
  BY DrainType DEF BoundaryNotify, TypeOK
<1>3. QED
  BY <1>1, <1>2 DEF BoundaryNotify, TypeOK, ctl, wire, wwt, cpu

\* BoundaryCheckpoint keeps the types of all variables.
LEMMA TyBoundaryCheckpoint ==
  ASSUME TypeOK, NEW n \in Nodes, BoundaryCheckpoint(n) PROVE TypeOK'
<1>1. ck' \in [Nodes -> CkptFields]
  <2>1. ck[n] \in CkptFields
    BY DEF TypeOK
  <2>2. [ck[n] EXCEPT !.bh = IF @ = "none" THEN "stay" ELSE @] \in CkptFields
    BY <2>1 DEF CkptFields
  <2>3. QED
    BY <2>1, <2>2 DEF BoundaryCheckpoint, TypeOK
<1>2. main' \in [Nodes -> MainStates]
  BY DEF BoundaryCheckpoint, TypeOK, MainStates
<1>3. QED
  BY <1>1, <1>2 DEF BoundaryCheckpoint, TypeOK, ctl, wire, wwt, cpu

\* BoundaryTooLate keeps the types of all variables.
LEMMA TyBoundaryTooLate ==
  ASSUME TypeOK, NEW n \in Nodes, BoundaryTooLate(n) PROVE TypeOK'
<1>1. status' \in [Nodes -> Statuses]
  BY DEF BoundaryTooLate, Abort, TypeOK, Statuses, Aborts
<1>2. QED
  BY <1>1 DEF BoundaryTooLate, TypeOK, ctl, wire, wwt, cpu

\* BoundaryPass keeps the types of all variables.
LEMMA TyBoundaryPass ==
  ASSUME TypeOK, NEW n \in Nodes, BoundaryPass(n) PROVE TypeOK'
BY DEF BoundaryPass, TypeOK, MainStates, FlexusStates, Statuses, ctl, wire, wwt, cpu

\* Permit keeps the types of all variables.
LEMMA TyPermit ==
  ASSUME TypeOK, NEW n \in Nodes, Permit(n) PROVE TypeOK'
BY DEF Permit, TypeOK, MainStates, FlexusStates, Statuses, ctl, wire, wwt, cpu

\* PermitGrant keeps the types of all variables.
LEMMA TyPermitGrant ==
  ASSUME TypeOK, NEW n \in Nodes, PermitGrant(n) PROVE TypeOK'
<1>1. ex' \in [Nodes -> ExitFields]
  <2>1. ex[n] \in ExitFields
    BY DEF TypeOK
  <2>2. [ex[n] EXCEPT !.permitted = TRUE] \in ExitFields
    BY <2>1 DEF ExitFields
  <2>3. ex' = [ex EXCEPT ![n] = [ex[n] EXCEPT !.permitted = TRUE]]
    BY DEF PermitGrant
  <2>4. QED
    BY <2>2, <2>3 DEF TypeOK
<1>2. mainOut' \in [Nodes -> Seq(Message)]
  BY MsgSeq DEF PermitGrant, TypeOK, MsgTypes
<1>3. main' \in [Nodes -> MainStates]
  BY DEF PermitGrant, TypeOK, MainStates
<1>4. QED
  BY <1>1, <1>2, <1>3 DEF PermitGrant, TypeOK, ctl, wire, wwt, cpu

\* PermitEnd keeps the types of all variables.
LEMMA TyPermitEnd ==
  ASSUME TypeOK, NEW n \in Nodes, PermitEnd(n) PROVE TypeOK'
<1>1. ex' \in [Nodes -> ExitFields]
  BY EndType DEF PermitEnd, TypeOK
<1>2. mainOut' \in [Nodes -> Seq(Message)]
  BY EndType DEF PermitEnd, TypeOK
<1>3. main' \in [Nodes -> MainStates]
  BY DEF PermitEnd, TypeOK, MainStates
<1>4. QED
  BY <1>1, <1>2, <1>3 DEF PermitEnd, TypeOK, ctl, wire, wwt, cpu

\* Advance keeps the types of all variables.
LEMMA TyAdvance ==
  ASSUME TypeOK, NEW n \in Nodes, Advance(n) PROVE TypeOK'
<1>1. vm' \in [Nodes -> BOOLEAN] /\ paused' \in [Nodes -> BOOLEAN]
  BY DEF Advance, Play, TypeOK
<1>2. /\ round' \in [Nodes -> Nat] /\ finished' \in [Nodes -> BOOLEAN]
      /\ main' \in [Nodes -> MainStates]
  BY DEF Advance, TypeOK, MainStates
<1>3. UNCHANGED <<status, polling, flexus, stopAt, wire, synced, now, inflight, sent,
                  hostPoll, pauseBh, ex, ck>>
  BY DEF Advance
<1>4. QED
  BY <1>1, <1>2, <1>3 DEF TypeOK, wire

\* Exit keeps the types of all variables.
LEMMA TyExit ==
  ASSUME TypeOK, NEW n \in Nodes, Exit(n) PROVE TypeOK'
BY DEF Exit, TypeOK, MainStates, FlexusStates, Statuses, ctl, wire, wwt, cpu

\* FlexusSend keeps the types of all variables.
LEMMA TyFlexusSend ==
  ASSUME TypeOK, NEW n \in Nodes, FlexusSend(n) PROVE TypeOK'
<1>1. ring' \in [Nodes -> Seq(Message)]
  BY SendType DEF FlexusSend, TypeOK
<1>2. flexusOut' \in [Nodes -> Seq(Message)]
  BY DEF FlexusSend, CommSend, TypeOK
<1>3. QED
  BY <1>1, <1>2 DEF FlexusSend, TypeOK, ctl, wire, wwt, cpu

\* CanStop keeps the types of all variables.
LEMMA TyCanStop ==
  ASSUME TypeOK, NEW n \in Nodes, CanStop(n) PROVE TypeOK'
<1>1. ex' \in [Nodes -> ExitFields]
  <2>1. ex[n] \in ExitFields
    BY DEF TypeOK
  <2>2. [ex[n] EXCEPT !.intent = TRUE] \in ExitFields
    BY <2>1 DEF ExitFields
  <2>3. QED
    <3>1. CASE n = Master
      BY <3>1 DEF CanStop, TypeOK
    <3>2. CASE n # Master
      <4>1. ex' = [ex EXCEPT ![n] = [ex[n] EXCEPT !.intent = TRUE]]
        BY <3>2 DEF CanStop
      <4>2. QED
        BY <2>2, <4>1 DEF TypeOK
    <3>3. QED
      BY <3>1, <3>2
<1>2. flexusOut' \in [Nodes -> Seq(Message)]
  <2>1. <<Msg("INTENT", 0)>> \in Seq(Message) /\ <<>> \in Seq(Message)
    BY MsgSeq DEF MsgTypes
  <2>2. CASE n = Master
    BY <2>2 DEF CanStop, TypeOK
  <2>3. CASE n # Master
    BY <2>1, <2>3 DEF CanStop, TypeOK
  <2>4. QED
    BY <2>2, <2>3
<1>3. flexus' \in [Nodes -> FlexusStates]
  BY DEF CanStop, TypeOK, FlexusStates
<1>4. QED
  BY <1>1, <1>2, <1>3 DEF CanStop, TypeOK, ctl, wire, wwt, cpu

\* CanStopGrant keeps the types of all variables.
LEMMA TyCanStopGrant ==
  ASSUME TypeOK, NEW n \in Nodes, CanStopGrant(n) PROVE TypeOK'
<1>1. ex' \in [Nodes -> ExitFields]
  <2>1. ex[n] \in ExitFields
    BY DEF TypeOK
  <2>2. [ex[n] EXCEPT !.permitted = TRUE] \in ExitFields
    BY <2>1 DEF ExitFields
  <2>3. ex' = [ex EXCEPT ![n] = [ex[n] EXCEPT !.permitted = TRUE]]
    BY DEF CanStopGrant
  <2>4. QED
    BY <2>2, <2>3 DEF TypeOK
<1>2. flexusOut' \in [Nodes -> Seq(Message)]
  BY MsgSeq DEF CanStopGrant, TypeOK, MsgTypes
<1>3. flexus' \in [Nodes -> FlexusStates]
  BY DEF CanStopGrant, TypeOK, FlexusStates
<1>4. QED
  BY <1>1, <1>2, <1>3 DEF CanStopGrant, TypeOK, ctl, wire, wwt, cpu

\* CanStopEnd keeps the types of all variables.
LEMMA TyCanStopEnd ==
  ASSUME TypeOK, NEW n \in Nodes, CanStopEnd(n) PROVE TypeOK'
<1>1. ex' \in [Nodes -> ExitFields]
  BY EndType DEF CanStopEnd, TypeOK
<1>2. flexusOut' \in [Nodes -> Seq(Message)]
  BY EndType DEF CanStopEnd, TypeOK
<1>3. flexus' \in [Nodes -> FlexusStates]
  BY DEF CanStopEnd, TypeOK, FlexusStates
<1>4. QED
  BY <1>1, <1>2, <1>3 DEF CanStopEnd, TypeOK, ctl, wire, wwt, cpu

\* CanStopAnswer keeps the types of all variables.
LEMMA TyCanStopAnswer ==
  ASSUME TypeOK, NEW n \in Nodes, CanStopAnswer(n) PROVE TypeOK'
<1>1. ex' \in [Nodes -> ExitFields]
  <2>1. ex[n] \in ExitFields
    BY DEF TypeOK
  <2>2. [ex[n] EXCEPT !.ready = TRUE] \in ExitFields
    BY <2>1 DEF ExitFields
  <2>3. ex' = [ex EXCEPT ![n] = [ex[n] EXCEPT !.ready = TRUE]]
    BY DEF CanStopAnswer
  <2>4. QED
    BY <2>2, <2>3 DEF TypeOK
<1>2. status' \in [Nodes -> Statuses]
  BY DEF CanStopAnswer, TypeOK, Statuses
<1>3. flexus' \in [Nodes -> FlexusStates]
  BY DEF CanStopAnswer, TypeOK, FlexusStates
<1>4. QED
  BY <1>1, <1>2, <1>3 DEF CanStopAnswer, TypeOK, ctl, wire, wwt, cpu

\* SetCheckpointFlags keeps the types of all variables.
LEMMA TySetCheckpointFlags ==
  ASSUME TypeOK, NEW n \in Nodes, SetCheckpointFlags(n) PROVE TypeOK'
<1>1. ck' \in [Nodes -> CkptFields]
  <2>1. ck[n] \in CkptFields
    BY DEF TypeOK
  <2>2. [ck[n] EXCEPT !.notified = FALSE, !.needs = TRUE] \in CkptFields
    BY <2>1 DEF CkptFields
  <2>3. QED
    BY <2>1, <2>2 DEF SetCheckpointFlags, TypeOK
<1>2. flexus' \in [Nodes -> FlexusStates]
  BY DEF SetCheckpointFlags, TypeOK, FlexusStates
<1>3. QED
  BY <1>1, <1>2 DEF SetCheckpointFlags, TypeOK, ctl, wire, wwt, cpu

\* SetCheckpointRound keeps the types of all variables.
LEMMA TySetCheckpointRound ==
  ASSUME TypeOK, NEW n \in Nodes, SetCheckpointRound(n) PROVE TypeOK'
<1>1. ck' \in [Nodes -> CkptFields]
  <2>1. ck[n] \in CkptFields
    BY DEF TypeOK
  <2>2. [ck[n] EXCEPT !.ckround = round[n]] \in CkptFields
    BY <2>1 DEF CkptFields, TypeOK
  <2>3. QED
    BY <2>1, <2>2 DEF SetCheckpointRound, TypeOK
<1>2. flexus' \in [Nodes -> FlexusStates]
  BY DEF SetCheckpointRound, TypeOK, FlexusStates
<1>3. QED
  BY <1>1, <1>2 DEF SetCheckpointRound, TypeOK, ctl, wire, wwt, cpu

\* Tick keeps the types of all variables.
LEMMA TyTick ==
  ASSUME TypeOK, NEW n \in Nodes, Tick(n) PROVE TypeOK'
BY DEF Tick, TypeOK, MainStates, FlexusStates, Statuses, ctl, wire, wwt, cpu

\* SendPacket keeps the types of all variables.
LEMMA TySendPacket ==
  ASSUME TypeOK, NEW n \in Nodes, SendPacket(n) PROVE TypeOK'
<1>1. mainOut' \in [Nodes -> Seq(Message)]
  BY MsgSeq, SizeAssumption DEF SendPacket, Packet, TypeOK, MsgTypes
<1>2. QED
  BY <1>1 DEF SendPacket, Packet, TypeOK, ctl, wire, wwt, cpu

\* FinishInitiate keeps the types of all variables.
LEMMA TyFinishInitiate ==
  ASSUME TypeOK, NEW n \in Nodes, FinishInitiate(n) PROVE TypeOK'
<1>1. ck' \in [Nodes -> CkptFields]
  <2>1. ck[n] \in CkptFields
    BY DEF TypeOK
  <2>2. [ck[n] EXCEPT !.signalled = TRUE, !.masterInit = TRUE] \in CkptFields
    BY <2>1 DEF CkptFields
  <2>3. [ck[n] EXCEPT !.signalled = TRUE] \in CkptFields
    BY <2>1 DEF CkptFields
  <2>4. QED
    <3>1. CASE n = Master
      BY <2>2, <3>1 DEF FinishInitiate, TypeOK
    <3>2. CASE n # Master
      <4>1. ck' = [ck EXCEPT ![n] = [ck[n] EXCEPT !.signalled = TRUE]]
        BY <3>2, Zenon DEF FinishInitiate
      <4>2. QED
        BY <2>3, <4>1 DEF TypeOK
    <3>3. QED
      BY <3>1, <3>2
<1>2. flexusOut' \in [Nodes -> Seq(Message)]
  <2>1. <<Msg("INIT_STEP", 0)>> \in Seq(Message) /\ <<>> \in Seq(Message)
    BY MsgSeq DEF MsgTypes
  <2>2. CASE n = Master
    BY <2>2 DEF FinishInitiate, TypeOK
  <2>3. CASE n # Master
    BY <2>1, <2>3 DEF FinishInitiate, TypeOK
  <2>4. QED
    BY <2>2, <2>3
<1>3. flexus' \in [Nodes -> FlexusStates]
  BY DEF FinishInitiate, TypeOK, FlexusStates
<1>4. QED
  BY <1>1, <1>2, <1>3 DEF FinishInitiate, TypeOK, ctl, wire, wwt, cpu

\* The initial state has the types.
LEMMA InitType == Init => TypeOK
<1> SUFFICES ASSUME Init PROVE TypeOK
  OBVIOUS
<1>1. status \in [Nodes -> Statuses] /\ main \in [Nodes -> MainStates]
      /\ flexus \in [Nodes -> FlexusStates]
  BY DEF Init, InitWWT, InitEngine, Statuses, MainStates, FlexusStates
<1>2. stopAt \in [Nodes -> Nat]
  BY BoundAssumption DEF Init, InitWWT, InitEngine
<1>3. ex \in [Nodes -> ExitFields]
  BY DEF Init, InitWWT, InitEngine, ExitFields
<1>4. ck \in [Nodes -> CkptFields]
  <2> DEFINE c == [initFlag |-> 0, masterInit |-> FALSE, signalled |-> FALSE,
                   needs |-> FALSE, notified |-> FALSE, ckround |-> 0,
                   bh |-> "none", saved |-> {}]
  <2>1. c \in CkptFields
    BY DEF CkptFields
  <2>2. ck = [n \in Nodes |-> c]
    BY DEF Init, InitWWT, InitEngine
  <2>3. QED
    BY <2>1, <2>2
<1>5. QED
  BY <1>1, <1>2, <1>3, <1>4 DEF Init, InitWWT, InitEngine, TypeOK

\* Every step keeps the types: one case per action.
LEMMA TypeStep == TypeOK /\ [Next]_vars => TypeOK'
<1> SUFFICES ASSUME TypeOK, [Next]_vars PROVE TypeOK'
  OBVIOUS
<1>1. CASE UNCHANGED vars
  BY <1>1 DEF TypeOK, vars, ctl, wire, wwt, cpu
<1>2. ASSUME NEW n \in Nodes, MainSend(n) PROVE TypeOK'
  BY <1>2, TyMainSend
<1>3. ASSUME NEW n \in Nodes, Receive(n) PROVE TypeOK'
  BY <1>3, TyRecvNormal, TyRecvSync, TyRecvDrainStart, TyRecvDrainEnd,
  TyRecvInitStep, TyRecvIntent, TyRecvPermission, TyRecvEnd, TyPollDone
     DEF Receive
<1>4. ASSUME NEW n \in Nodes, Dispatch(n) PROVE TypeOK'
  BY <1>4, TyHostPoll, TyPauseBh, TyCheckpointBH, TySetupWWT, TyDeliver,
  TyQuantaSync, TySyncCheck
     DEF Dispatch
<1>5. ASSUME NEW n \in Nodes, Boundary(n) PROVE TypeOK'
  BY <1>5, TyNotifyAndSync, TyCheckCount, TySpinOn, TySpinStop,
  TySpinDestroy, TyBoundaryNotify, TyBoundaryCheckpoint, TyBoundaryTooLate,
  TyBoundaryPass, TyPermit, TyPermitGrant, TyPermitEnd, TyAdvance, TyExit
     DEF Boundary
<1>6. ASSUME NEW n \in Nodes, FlexusThread(n) PROVE TypeOK'
  BY <1>6, TyFlexusSend, TyCanStop, TyCanStopGrant, TyCanStopEnd,
  TyCanStopAnswer, TySetCheckpointFlags, TySetCheckpointRound
     DEF FlexusThread
<1>7. ASSUME NEW n \in Nodes, Tick(n) PROVE TypeOK'
  BY <1>7, TyTick
<1>8. ASSUME NEW n \in Nodes, SendPacket(n) PROVE TypeOK'
  BY <1>8, TySendPacket
<1>9. ASSUME NEW n \in Nodes, FinishInitiate(n) PROVE TypeOK'
  BY <1>9, TyFinishInitiate
<1>10. QED
  BY <1>1, <1>2, <1>3, <1>4, <1>5, <1>6, <1>7, <1>8, <1>9 DEF Next, MainThread

\* Every variable keeps its type.
THEOREM TypeCorrect == Spec => []TypeOK
<1>1. QED
  BY InitType, TypeStep, PTL DEF Spec


-----------------------------------------------------------------------------
(* SYNC. *)

-----------------------------------------------------------------------------
(* Arithmetic. *)

\* Rounds up to MaxRound are their own keys.
LEMMA KeyId == ASSUME KeysSuffice PROVE \A q \in 0 .. MaxRound : Key(q) = q
BY SizeAssumption, BoundAssumption DEF KeysSuffice, Key

\* The quantum timer of a round later than MaxRound does not expire.
LEMMA RoundBound ==
  ASSUME NEW r \in Nat, r * Quantum <= MaxRound * Quantum PROVE r <= MaxRound
BY SizeAssumption, BoundAssumption

-----------------------------------------------------------------------------
(* Steps that leave the rounds, the rings and the counts alone. *)

NoSync(s) == \A i \in DOMAIN s : ~IsSync(s[i])

\* The main thread neither arrives at nor leaves a boundary nor passes a wait.
SamePlace(n) ==
  \/ main'[n] = main[n]
  \/ /\ {main[n], main'[n]} \cap {"setup", "run", "notify"} = {}
     /\ main'[n] \in PassedWait =>
          main[n] \in PassedWait \/ (ShouldSync => round[n] \in synced[n])

\* A step that changes no round, ring or count, sends no SYNC and passes no
\* wait without a count keeps the invariant: most handlers of the engine.
LEMMA Quiet ==
  ASSUME SyncInv, TypeOK',
         UNCHANGED <<round, finished, synced, ring, now>>,
         \A n \in Nodes : SamePlace(n),
         \A n \in Nodes : status'[n] = status[n] \/ status'[n] # "abort_round",
         \A n \in Nodes : mainOut'[n] = mainOut[n] \/ NoSync(mainOut'[n]),
         \A n \in Nodes : flexusOut'[n] = flexusOut[n] \/ NoSync(flexusOut'[n])
  PROVE  SyncInv'
<1>1. \A n \in Nodes : AnnouncedRounds(n)' = AnnouncedRounds(n)
  BY DEF AnnouncedRounds, Announced, SamePlace
<1>2. FinishedInv'
  BY DEF SyncInv, FinishedInv, SamePlace
<1>3. SendingInv'
  BY <1>1 DEF SyncInv, SendingInv, NoSync, FlexusSendsNone, SendsAnnounced,
     SendsOne
<1>4. RingInv'
  BY <1>1, PeerNodes DEF SyncInv, RingInv, NoSync, RingAnnounced, RingDistinct,
     RingOrSending
<1>5. CountInv'
  BY <1>1, PeerNodes DEF SyncInv, CountInv
<1>6. WaitInv'
  BY DEF SyncInv, WaitInv, SamePlace
<1>7. BoundInv'
  BY <1>1 DEF SyncInv, BoundInv, SamePlace, MaxTime
<1>8. SyncRoundValid'
  BY DEF SyncInv, SyncRoundValid
<1>9. QED
  BY <1>2, <1>3, <1>4, <1>5, <1>6, <1>7, <1>8 DEF SyncInv

-----------------------------------------------------------------------------
(* Sending and receiving. *)

\* What is left in a ring after a receive, with its positions.
LEMMA TailElements ==
  ASSUME NEW s \in Seq(Message), s # <<>>
  PROVE  \A i \in DOMAIN Tail(s) : i + 1 \in DOMAIN s /\ Tail(s)[i] = s[i + 1]
OBVIOUS

\* What is in a ring after a send, with its positions.
LEMMA AppendElements ==
  ASSUME NEW s \in Seq(Message), NEW m \in Message
  PROVE  \A i \in DOMAIN Append(s, m) :
           \/ i \in DOMAIN s /\ Append(s, m)[i] = s[i]
           \/ i = Len(s) + 1 /\ i \notin DOMAIN s /\ Append(s, m)[i] = m
OBVIOUS

\* A message other than SYNC leaves the ring of n.
LEMMA ReceiveOther ==
  ASSUME SyncInv, TypeOK', NEW n \in Nodes, NEW t \in MsgTypes \ {"SYNC"},
         Receiving(n, t),
         UNCHANGED <<main, round, finished, synced, now>>,
         \A m \in Nodes : status'[m] = status[m] \/ status'[m] # "abort_round",
         \A m \in Nodes : mainOut'[m] = mainOut[m] \/ NoSync(mainOut'[m]),
         flexusOut' = flexusOut
  PROVE  SyncInv'
<1>1. \A m \in Nodes : AnnouncedRounds(m)' = AnnouncedRounds(m)
  BY DEF AnnouncedRounds, Announced
<1>2. \A m \in Nodes :
        /\ ring[m] \in Seq(Message) /\ ring'[m] \in Seq(Message)
        /\ ring'[m] = ring[m] \/ (ring[m] # <<>> /\ ring'[m] = Tail(ring[m]))
  BY DEF SyncInv, Receiving, TypeOK
<1>3. FinishedInv' /\ CountInv' /\ WaitInv' /\ BoundInv' /\ SyncRoundValid'
  BY <1>1, PeerNodes DEF SyncInv, FinishedInv, CountInv, WaitInv, BoundInv,
     SyncRoundValid, MaxTime
<1>4. SendingInv'
  BY <1>1 DEF SyncInv, SendingInv, NoSync, FlexusSendsNone, SendsAnnounced,
     SendsOne
<1>5. ASSUME NEW m \in Nodes PROVE RingAnnounced(m)' /\ RingDistinct(m)' /\ RingOrSending(m)'
  <2>1. RingAnnounced(m) /\ RingDistinct(m) /\ RingOrSending(m)
    BY DEF SyncInv, RingInv
  <2>2. CASE ring'[m] = ring[m]
    BY <1>1, <2>1, <2>2, PeerNodes DEF NoSync, RingAnnounced, RingDistinct, RingOrSending
  <2>3. CASE ring[m] # <<>> /\ ring'[m] = Tail(ring[m])
    <3>1. \A i \in DOMAIN ring'[m] : i + 1 \in DOMAIN ring[m] /\ ring'[m][i] = ring[m][i + 1]
      BY <1>2, <2>3, TailElements
    <3>2. DOMAIN ring'[m] \subseteq Int
      BY <1>2
    <3>3. RingAnnounced(m)'
      BY <1>1, <2>1, <3>1, PeerNodes DEF RingAnnounced
    <3>4. RingDistinct(m)'
      BY <2>1, <3>1, <3>2 DEF RingDistinct
    <3>5. RingOrSending(m)'
      BY <2>1, <3>1, PeerNodes DEF NoSync, RingOrSending
    <3>6. QED
      BY <3>3, <3>4, <3>5
  <2>4. QED
    BY <1>2, <2>2, <2>3
<1>6. QED
  BY <1>3, <1>4, <1>5 DEF SyncInv, RingInv

\* The head of a queue of n enters the ring of its peer.
LEMMA MainSendStep == ASSUME SyncInv, TypeOK', NEW n \in Nodes, MainSend(n) PROVE SyncInv'
<1> DEFINE h == Head(mainOut[n])
           p == Peer(n)
<1>0. TypeOK /\ UNCHANGED <<main, round, finished, synced, now, status, flexusOut>>
  BY DEF SyncInv, MainSend, ctl, wwt
<1>1. \A m \in Nodes : AnnouncedRounds(m)' = AnnouncedRounds(m)
  BY <1>0 DEF AnnouncedRounds, Announced
<1>2. /\ mainOut[n] \in Seq(Message) /\ mainOut[n] # <<>>
      /\ mainOut'[n] = Tail(mainOut[n])
      /\ \A m \in Nodes \ {n} : mainOut'[m] = mainOut[m]
  BY <1>0 DEF MainSend, CommSend, TypeOK
<1>3. /\ ring[p] \in Seq(Message)
      /\ ring'[p] = Append(ring[p], h)
      /\ \A m \in Nodes \ {p} : ring'[m] = ring[m]
  BY <1>0, PeerNodes DEF MainSend, CommSend, TypeOK
<1>4. \A i \in DOMAIN mainOut'[n] :
        i + 1 \in DOMAIN mainOut[n] /\ mainOut'[n][i] = mainOut[n][i + 1] /\ i + 1 # 1
  <2>1. mainOut'[n] \in Seq(Message)
    BY DEF TypeOK
  <2>2. \A i \in DOMAIN mainOut'[n] : i \in Nat \ {0}
    BY <2>1
  <2>3. QED
    BY <1>2, <2>2, TailElements
<1>5. 1 \in DOMAIN mainOut[n] /\ h = mainOut[n][1] /\ h \in Message
  BY <1>2
<1>6. \A i \in DOMAIN ring'[p] :
        \/ i \in DOMAIN ring[p] /\ ring'[p][i] = ring[p][i]
        \/ i = Len(ring[p]) + 1 /\ ring'[p][i] = h
  BY <1>3, <1>5, AppendElements
<1>7. FinishedInv' /\ CountInv' /\ WaitInv' /\ BoundInv' /\ SyncRoundValid'
  BY <1>0, <1>1, PeerNodes DEF SyncInv, FinishedInv, CountInv, WaitInv, BoundInv,
     SyncRoundValid, MaxTime
<1>8. ASSUME NEW m \in Nodes PROVE FlexusSendsNone(m)' /\ SendsAnnounced(m)' /\ SendsOne(m)'
  <2>1. FlexusSendsNone(m) /\ SendsAnnounced(m) /\ SendsOne(m)
    BY DEF SyncInv, SendingInv
  <2>2. CASE m # n
    BY <1>0, <1>1, <1>2, <2>1, <2>2 DEF FlexusSendsNone, SendsAnnounced, SendsOne
  <2>3. CASE m = n
    <3>1. FlexusSendsNone(m)' /\ SendsAnnounced(m)'
      BY <1>0, <1>1, <1>4, <2>1, <2>3 DEF FlexusSendsNone, SendsAnnounced
    <3>2. DOMAIN mainOut'[n] \subseteq Int
      <4>1. mainOut'[n] \in Seq(Message)
        BY DEF TypeOK
      <4>2. QED
        BY <4>1
    <3>3. SendsOne(m)'
      BY <1>4, <2>1, <2>3, <3>2 DEF SendsOne
    <3>4. QED
      BY <3>1, <3>3
  <2>4. QED
    BY <2>2, <2>3
<1>9. ASSUME NEW m \in Nodes PROVE RingAnnounced(m)' /\ RingDistinct(m)' /\ RingOrSending(m)'
  <2>1. RingAnnounced(m) /\ RingDistinct(m) /\ RingOrSending(m)
    BY DEF SyncInv, RingInv
  <2>2. CASE m # p
    <3>1. Peer(m) # n /\ Peer(m) \in Nodes
      BY <2>2, PeerNodes
    <3>2. QED
      BY <1>0, <1>1, <1>2, <1>3, <2>1, <2>2, <3>1
         DEF RingAnnounced, RingDistinct, RingOrSending
  <2>3. CASE m = p
    <3>0. Peer(p) = n /\ p \in Nodes
      BY PeerNodes
    <3>1. IsSync(h) => h.val < AnnouncedRounds(n) /\ h.val \notin synced[p]
      BY <1>5 DEF SyncInv, SendingInv, SendsAnnounced
    <3>2. IsSync(h) => \A i \in DOMAIN ring[p] : IsSync(ring[p][i]) => ring[p][i].val # h.val
      BY <1>5, <2>1, <2>3, <3>0 DEF RingOrSending
    <3>3. IsSync(h) => \A j \in DOMAIN mainOut'[n] : ~IsSync(mainOut'[n][j])
      BY <1>4, <1>5 DEF SyncInv, SendingInv, SendsOne
    <3>4. RingAnnounced(m)'
      BY <1>0, <1>1, <1>6, <2>1, <2>3, <3>0, <3>1 DEF RingAnnounced
    <3>5. RingDistinct(m)'
      BY <1>6, <2>1, <2>3, <3>2 DEF RingDistinct
    <3>6. RingOrSending(m)'
      BY <1>4, <1>6, <2>1, <2>3, <3>0, <3>3 DEF RingOrSending
    <3>7. QED
      BY <3>4, <3>5, <3>6
  <2>4. QED
    BY <2>2, <2>3
<1>10. QED
  BY <1>7, <1>8, <1>9 DEF SyncInv, SendingInv, RingInv

\* Flexus sends no SYNC, so its sends leave the rounds in the ring alone.
LEMMA FlexusSendStep ==
  ASSUME SyncInv, TypeOK', NEW n \in Nodes, FlexusSend(n) PROVE SyncInv'
<1> DEFINE h == Head(flexusOut[n])
           p == Peer(n)
<1>0. TypeOK /\ UNCHANGED <<main, round, finished, synced, now, status, mainOut>>
  BY DEF SyncInv, FlexusSend, ctl, wwt
<1>1. \A m \in Nodes : AnnouncedRounds(m)' = AnnouncedRounds(m)
  BY <1>0 DEF AnnouncedRounds, Announced
<1>2. /\ flexusOut[n] \in Seq(Message) /\ flexusOut[n] # <<>>
      /\ flexusOut'[n] = Tail(flexusOut[n])
      /\ \A m \in Nodes \ {n} : flexusOut'[m] = flexusOut[m]
  BY <1>0 DEF FlexusSend, CommSend, TypeOK
<1>3. /\ ring[p] \in Seq(Message)
      /\ ring'[p] = Append(ring[p], h)
      /\ \A m \in Nodes \ {p} : ring'[m] = ring[m]
  BY <1>0, PeerNodes DEF FlexusSend, CommSend, TypeOK
<1>4. 1 \in DOMAIN flexusOut[n] /\ h = flexusOut[n][1] /\ h \in Message
  BY <1>2
<1>5. ~IsSync(h)
  BY <1>4 DEF SyncInv, SendingInv, FlexusSendsNone
<1>6. \A i \in DOMAIN ring'[p] :
        IsSync(ring'[p][i]) => i \in DOMAIN ring[p] /\ ring'[p][i] = ring[p][i]
  BY <1>3, <1>4, <1>5, AppendElements
<1>7. FinishedInv' /\ CountInv' /\ WaitInv' /\ BoundInv' /\ SyncRoundValid'
  BY <1>0, <1>1, PeerNodes DEF SyncInv, FinishedInv, CountInv, WaitInv, BoundInv,
     SyncRoundValid, MaxTime
<1>8. ASSUME NEW m \in Nodes PROVE FlexusSendsNone(m)' /\ SendsAnnounced(m)' /\ SendsOne(m)'
  <2>1. FlexusSendsNone(m) /\ SendsAnnounced(m) /\ SendsOne(m)
    BY DEF SyncInv, SendingInv
  <2>2. \A i \in DOMAIN flexusOut'[n] : ~IsSync(flexusOut'[n][i])
    BY <1>2, TailElements DEF SyncInv, SendingInv, FlexusSendsNone
  <2>3. QED
    BY <1>0, <1>1, <1>2, <2>1, <2>2 DEF FlexusSendsNone, SendsAnnounced, SendsOne
<1>9. ASSUME NEW m \in Nodes PROVE RingAnnounced(m)' /\ RingDistinct(m)' /\ RingOrSending(m)'
  <2>1. RingAnnounced(m) /\ RingDistinct(m) /\ RingOrSending(m)
    BY DEF SyncInv, RingInv
  <2>2. \A i \in DOMAIN ring'[m] :
          IsSync(ring'[m][i]) => i \in DOMAIN ring[m] /\ ring'[m][i] = ring[m][i]
    BY <1>3, <1>6
  <2>3. RingAnnounced(m)'
    BY <1>0, <1>1, <2>1, <2>2, PeerNodes DEF RingAnnounced
  <2>4. RingDistinct(m)'
    BY <2>1, <2>2 DEF RingDistinct
  <2>5. RingOrSending(m)'
    BY <1>0, <2>1, <2>2 DEF RingOrSending
  <2>6. QED
    BY <2>3, <2>4, <2>5
<1>10. QED
  BY <1>7, <1>8, <1>9 DEF SyncInv, SendingInv, RingInv

\* The heart of the argument: a SYNC in the ring of n is of a valid round.
LEMMA RingValid ==
  ASSUME SyncInv, ShouldSync, NEW n \in Nodes, NEW i \in DOMAIN ring[n],
         IsSync(ring[n][i])
  PROVE  ValidRound(n, ring[n][i].val)
<1> DEFINE q == ring[n][i].val
           p == Peer(n)
<1>0. p \in Nodes /\ Peer(p) = n
  BY PeerNodes
<1>1. q \in Nat /\ round[n] \in Nat /\ round[p] \in Nat
  <2>1. ring[n] \in Seq(Message) /\ round[n] \in Nat /\ round[p] \in Nat
    BY <1>0 DEF SyncInv, TypeOK
  <2>2. ring[n][i] \in Message
    BY <2>1
  <2>3. QED
    BY <2>1, <2>2 DEF Message
<1>2. q < AnnouncedRounds(p) /\ q \notin synced[n]
  BY DEF SyncInv, RingInv, RingAnnounced
<1>3. round[n] <= q
  BY <1>1, <1>2 DEF SyncInv, CountInv
<1>4. round[p] <= AnnouncedRounds(n)
  <2>1. CASE round[p] = 0
    BY <1>1, <2>1 DEF AnnouncedRounds
  <2>2. CASE round[p] # 0
    <3>1. round[p] - 1 \in synced[p]
      BY <1>0, <1>1, <2>2 DEF SyncInv, CountInv
    <3>2. round[p] - 1 < AnnouncedRounds(n)
      BY <1>0, <3>1 DEF SyncInv, CountInv
    <3>3. QED
      BY <1>1, <3>2 DEF AnnouncedRounds
  <2>3. QED
    BY <2>1, <2>2
<1>5. q <= AnnouncedRounds(n)
  BY <1>1, <1>2, <1>4 DEF AnnouncedRounds
<1>6. CASE Announced(n)
  <2>1. finished[n]
    BY <1>6 DEF SyncInv, FinishedInv, Announced
  <2>2. QED
    BY <1>1, <1>3, <1>5, <1>6, <2>1 DEF AnnouncedRounds, ValidRound
<1>7. CASE ~Announced(n)
  BY <1>1, <1>3, <1>5, <1>7 DEF AnnouncedRounds, ValidRound
<1>8. QED
  BY <1>6, <1>7

\* RecvSync counts it.
LEMMA RecvSyncStep ==
  ASSUME KeysSuffice, SyncInv, TypeOK', NEW n \in Nodes, RecvSync(n) PROVE SyncInv'
<1> DEFINE h == Head(ring[n])
           q == h.val
           p == Peer(n)
<1>0. TypeOK /\ UNCHANGED <<main, round, finished, now, mainOut, flexusOut>>
  BY DEF SyncInv, RecvSync
<1>1. \A m \in Nodes : AnnouncedRounds(m)' = AnnouncedRounds(m)
  BY <1>0 DEF AnnouncedRounds, Announced
<1>2. /\ ring[n] \in Seq(Message) /\ ring[n] # <<>>
      /\ ring'[n] = Tail(ring[n])
      /\ \A m \in Nodes \ {n} : ring'[m] = ring[m]
  BY <1>0 DEF RecvSync, Receiving, TypeOK
<1>3. 1 \in DOMAIN ring[n] /\ h = ring[n][1] /\ IsSync(h) /\ q \in Nat
  <2>1. 1 \in DOMAIN ring[n] /\ h = ring[n][1] /\ h \in Message
    BY <1>2
  <2>2. IsSync(h)
    BY DEF RecvSync, Receiving, IsSync
  <2>3. QED
    BY <2>1, <2>2 DEF Message
<1>4. q < AnnouncedRounds(p) /\ q \notin synced[n]
  BY <1>3 DEF SyncInv, RingInv, RingAnnounced
<1>5. Key(q) = q
  <2>0. p \in Nodes
    BY PeerNodes
  <2>1. AnnouncedRounds(p) <= MaxRound + 1 /\ AnnouncedRounds(p) \in Nat
    <3>1. round[p] \in Nat
      BY <1>0, <2>0 DEF TypeOK
    <3>2. AnnouncedRounds(p) \in Nat
      BY <3>1 DEF AnnouncedRounds
    <3>3. QED
      BY <2>0, <3>2 DEF SyncInv, BoundInv
  <2>2. q \in 0 .. MaxRound
    BY <1>3, <1>4, <2>1, BoundAssumption
  <2>3. QED
    BY <2>2, KeyId
<1>6. ~(ShouldSync /\ ~ValidRound(n, q))
  BY <1>3, RingValid
<1>7. UNCHANGED status /\ synced' = [synced EXCEPT ![n] = synced[n] \cup {q}]
  BY <1>5, <1>6, Zenon DEF RecvSync
<1>8. /\ synced'[n] = synced[n] \cup {q}
      /\ \A m \in Nodes \ {n} : synced'[m] = synced[m]
  BY <1>0, <1>7 DEF TypeOK
<1>9. \A i \in DOMAIN ring'[n] :
        i + 1 \in DOMAIN ring[n] /\ ring'[n][i] = ring[n][i + 1] /\ i \in Nat \ {0}
  <2>1. \A i \in DOMAIN Tail(ring[n]) : i \in Nat \ {0}
    BY <1>2
  <2>2. QED
    BY <1>2, <2>1, TailElements
<1>10. FinishedInv' /\ WaitInv' /\ BoundInv' /\ SyncRoundValid'
  BY <1>0, <1>1, <1>7, <1>8 DEF SyncInv, FinishedInv, WaitInv, BoundInv,
     SyncRoundValid, MaxTime
<1>11. CountInv'
  BY <1>0, <1>1, <1>4, <1>8, PeerNodes DEF SyncInv, CountInv
<1>12. ASSUME NEW m \in Nodes PROVE FlexusSendsNone(m)' /\ SendsAnnounced(m)' /\ SendsOne(m)'
  <2>1. FlexusSendsNone(m) /\ SendsAnnounced(m) /\ SendsOne(m)
    BY DEF SyncInv, SendingInv
  <2>2. CASE Peer(m) # n
    BY <1>0, <1>1, <1>8, <2>1, <2>2, PeerNodes
       DEF FlexusSendsNone, SendsAnnounced, SendsOne
  <2>3. CASE Peer(m) = n
    <3>1. m = p
      BY <2>3, PeerNodes
    <3>2. \A j \in DOMAIN mainOut[m] : IsSync(mainOut[m][j]) => mainOut[m][j].val # q
      BY <1>3, <3>1 DEF SyncInv, RingInv, RingOrSending
    <3>3. QED
      BY <1>0, <1>1, <1>8, <2>1, <2>3, <3>2
         DEF FlexusSendsNone, SendsAnnounced, SendsOne
  <2>4. QED
    BY <2>2, <2>3
<1>13. ASSUME NEW m \in Nodes PROVE RingAnnounced(m)' /\ RingDistinct(m)' /\ RingOrSending(m)'
  <2>1. RingAnnounced(m) /\ RingDistinct(m) /\ RingOrSending(m)
    BY DEF SyncInv, RingInv
  <2>2. CASE m # n
    <3>1. ring'[m] = ring[m] /\ synced'[m] = synced[m]
      BY <1>2, <1>8, <2>2
    <3>2. RingAnnounced(m)'
      BY <1>1, <2>1, <3>1, PeerNodes DEF RingAnnounced
    <3>3. RingDistinct(m)' /\ RingOrSending(m)'
      BY <1>0, <2>1, <3>1 DEF RingDistinct, RingOrSending
    <3>4. QED
      BY <3>2, <3>3
  <2>3. CASE m = n
    <3>1. \A i \in DOMAIN ring'[n] : IsSync(ring'[n][i]) => ring'[n][i].val # q
      BY <1>3, <1>9, <2>1, <2>3 DEF RingDistinct
    <3>2. RingAnnounced(m)'
      BY <1>1, <1>8, <1>9, <2>1, <2>3, <3>1, PeerNodes DEF RingAnnounced
    <3>3. RingDistinct(m)'
      BY <1>9, <2>1, <2>3 DEF RingDistinct
    <3>4. RingOrSending(m)'
      BY <1>0, <1>9, <2>1, <2>3 DEF RingOrSending
    <3>5. QED
      BY <3>2, <3>3, <3>4
  <2>4. QED
    BY <2>2, <2>3
<1>14. QED
  BY <1>0, <1>10, <1>11, <1>12, <1>13 DEF SyncInv, SendingInv, RingInv
-----------------------------------------------------------------------------
(* The clock, and the four steps of a round. *)

\* The clock's bound holds; the rest does not read the clock.
LEMMA TickStep == ASSUME SyncInv, TypeOK', NEW n \in Nodes, Tick(n) PROVE SyncInv'
<1>0. UNCHANGED <<status, main, round, finished, synced, wire>>
  BY DEF Tick
<1>1. \A m \in Nodes : AnnouncedRounds(m)' = AnnouncedRounds(m)
  BY <1>0 DEF AnnouncedRounds, Announced
<1>2. \A m \in Nodes : now'[m] <= MaxTime
  <2>1. now[n] < MaxTime /\ now[n] \in Nat /\ MaxTime \in Nat
    BY SizeAssumption, BoundAssumption DEF Tick, SyncInv, TypeOK, MaxTime
  <2>2. now' = [now EXCEPT ![n] = now[n] + 1] /\ now \in [Nodes -> Nat]
    BY DEF Tick, SyncInv, TypeOK
  <2>3. QED
    BY <2>1, <2>2 DEF SyncInv, BoundInv
<1>3. BoundInv'
  BY <1>0, <1>1, <1>2 DEF SyncInv, BoundInv, MaxTime
<1>4. FinishedInv' /\ WaitInv' /\ SyncRoundValid'
  BY <1>0 DEF SyncInv, FinishedInv, WaitInv, SyncRoundValid
<1>5. CountInv'
  BY <1>0, <1>1, PeerNodes DEF SyncInv, CountInv
<1>6. SendingInv'
  BY <1>0, <1>1 DEF SyncInv, SendingInv, FlexusSendsNone, SendsAnnounced,
     SendsOne, wire
<1>7. RingInv'
  BY <1>0, <1>1, PeerNodes DEF SyncInv, RingInv, RingAnnounced, RingDistinct,
     RingOrSending, wire
<1>8. QED
  BY <1>3, <1>4, <1>5, <1>6, <1>7 DEF SyncInv

\* A step of the main thread that enters or leaves a quantum without announcing
\* its end: the rings and the counts stay, and so do the announced rounds.
LEMMA SameRings ==
  ASSUME SyncInv, UNCHANGED <<synced, ring, mainOut, flexusOut>>,
         \A m \in Nodes : AnnouncedRounds(m)' = AnnouncedRounds(m)
  PROVE  SendingInv' /\ RingInv'
<1>1. SendingInv'
  BY DEF SyncInv, SendingInv, FlexusSendsNone, SendsAnnounced, SendsOne
<1>2. RingInv'
  BY PeerNodes DEF SyncInv, RingInv, RingAnnounced, RingDistinct, RingOrSending
<1>3. QED
  BY <1>1, <1>2

\* setup_wwt arms the first quantum; nothing has been announced.
LEMMA SetupStep == ASSUME SyncInv, TypeOK', NEW n \in Nodes, SetupWWT(n) PROVE SyncInv'
<1>0. UNCHANGED <<status, round, finished, synced, now, ring, mainOut, flexusOut>>
  BY DEF SetupWWT, wire
<1>1. /\ main[n] = "setup" /\ main'[n] = "run"
      /\ \A m \in Nodes \ {n} : main'[m] = main[m]
  BY DEF SetupWWT, SyncInv, TypeOK
<1>2. \A m \in Nodes : AnnouncedRounds(m)' = AnnouncedRounds(m)
  BY <1>0, <1>1 DEF AnnouncedRounds, Announced
<1>3. FinishedInv' /\ WaitInv' /\ BoundInv' /\ SyncRoundValid'
  BY <1>0, <1>1, <1>2 DEF SyncInv, FinishedInv, WaitInv, BoundInv,
     SyncRoundValid, PassedWait, MaxTime
<1>4. CountInv'
  BY <1>0, <1>2, PeerNodes DEF SyncInv, CountInv
<1>5. QED
  BY <1>0, <1>2, <1>3, <1>4, SameRings DEF SyncInv

\* The quantum timer expires at round * Quantum, so the clock bounds the round.
LEMMA QuantaSyncStep ==
  ASSUME SyncInv, TypeOK', NEW n \in Nodes, QuantaSync(n) PROVE SyncInv'
<1>0. UNCHANGED <<round, synced, now, ring, mainOut, flexusOut>>
  BY DEF QuantaSync, Pause, wire
<1>1. /\ main[n] = "run" /\ main'[n] = "notify"
      /\ \A m \in Nodes \ {n} : main'[m] = main[m]
  BY DEF QuantaSync, Pause, SyncInv, TypeOK
<1>2. finished'[n] = TRUE /\ \A m \in Nodes \ {n} : finished'[m] = finished[m]
  BY DEF QuantaSync, Pause, SyncInv, TypeOK
<1>3. \A m \in Nodes : AnnouncedRounds(m)' = AnnouncedRounds(m)
  BY <1>0, <1>1 DEF AnnouncedRounds, Announced
<1>4. round[n] <= MaxRound
  <2>1. round[n] \in Nat /\ now[n] \in Nat /\ MaxTime \in Nat
    BY SizeAssumption, BoundAssumption DEF SyncInv, TypeOK, MaxTime
  <2>2. round[n] * Quantum <= now[n] /\ now[n] <= MaxTime
    BY <2>1 DEF QuantaSync, Pause, SyncInv, BoundInv
  <2>3. round[n] * Quantum \in Nat
    BY <2>1, SizeAssumption
  <2>4. round[n] * Quantum <= MaxRound * Quantum
    BY <2>1, <2>2, <2>3 DEF MaxTime
  <2>5. QED
    BY <2>1, <2>4, RoundBound
<1>5. BoundInv'
  BY <1>0, <1>1, <1>3, <1>4 DEF SyncInv, BoundInv, MaxTime
<1>6. FinishedInv' /\ WaitInv'
  BY <1>0, <1>1, <1>2 DEF SyncInv, FinishedInv, WaitInv, PassedWait
<1>7. SyncRoundValid'
  <2>1. status' = status \/ status' = [status EXCEPT ![n] = "abort_pause"]
    BY Zenon DEF QuantaSync, Pause, Abort
  <2>2. status \in [Nodes -> Statuses] /\ SyncRoundValid
    BY DEF SyncInv, TypeOK
  <2>3. QED
    BY <2>1, <2>2 DEF SyncRoundValid
<1>8. CountInv'
  BY <1>0, <1>3, PeerNodes DEF SyncInv, CountInv
<1>9. QED
  BY <1>0, <1>3, <1>5, <1>6, <1>7, <1>8, SameRings DEF SyncInv

\* The round ends counted, and the next one begins.
LEMMA AdvanceStep == ASSUME SyncInv, TypeOK', NEW n \in Nodes, Advance(n) PROVE SyncInv'
<1>0. UNCHANGED <<status, synced, now, ring, mainOut, flexusOut>>
  BY DEF Advance, Play, wire
<1>1. /\ main[n] = "advance" /\ main'[n] = "run"
      /\ \A m \in Nodes \ {n} : main'[m] = main[m]
  BY DEF Advance, Play, MainAt, SyncInv, TypeOK
<1>2. finished'[n] = FALSE /\ \A m \in Nodes \ {n} : finished'[m] = finished[m]
  BY DEF Advance, Play, SyncInv, TypeOK
<1>3. /\ round'[n] = round[n] + 1 /\ round[n] \in Nat
      /\ \A m \in Nodes \ {n} : round'[m] = round[m]
  BY DEF Advance, Play, SyncInv, TypeOK
<1>4. \A m \in Nodes : AnnouncedRounds(m)' = AnnouncedRounds(m)
  BY <1>1, <1>3 DEF AnnouncedRounds, Announced
<1>5. FinishedInv' /\ SyncRoundValid'
  BY <1>0, <1>1, <1>2 DEF SyncInv, FinishedInv, SyncRoundValid
<1>6. WaitInv'
  BY <1>0, <1>1, <1>3 DEF SyncInv, WaitInv, PassedWait
<1>7. BoundInv'
  BY <1>0, <1>1, <1>3, <1>4 DEF SyncInv, BoundInv, MaxTime
<1>8. ShouldSync => round[n] \in synced[n]
  BY <1>1 DEF SyncInv, WaitInv, PassedWait
<1>9. CountInv'
  <2>1. ASSUME NEW m \in Nodes PROVE \A q \in synced'[m] : q < AnnouncedRounds(Peer(m))'
    BY <1>0, <1>4, PeerNodes DEF SyncInv, CountInv
  <2>2. ASSUME ShouldSync, NEW m \in Nodes, NEW q \in 0 .. round'[m] - 1
        PROVE  q \in synced'[m]
    <3>1. CASE m # n
      BY <1>0, <1>3, <2>2, <3>1 DEF SyncInv, CountInv
    <3>2. CASE m = n
      <4>1. q = round[n] \/ q \in 0 .. round[n] - 1
        BY <1>3, <2>2, <3>2
      <4>2. QED
        BY <1>0, <1>8, <2>2, <3>2, <4>1 DEF SyncInv, CountInv
    <3>3. QED
      BY <3>1, <3>2
  <2>3. QED
    BY <2>1, <2>2 DEF CountInv
<1>10. QED
  BY <1>0, <1>4, <1>5, <1>6, <1>7, <1>9, SameRings DEF SyncInv

\* Once the wait is over, the peer's SYNC of this round is counted.
LEMMA CheckCountStep ==
  ASSUME KeysSuffice, SyncInv, TypeOK', NEW n \in Nodes, CheckCount(n) PROVE SyncInv'
<1>1. UNCHANGED <<status, round, finished, synced, ring, now, mainOut, flexusOut>>
  BY DEF CheckCount, wire, wwt
<1>2. /\ main[n] = "check" /\ main'[n] = IF Waiting(n) THEN "spin" ELSE "boundary"
      /\ \A m \in Nodes \ {n} : main'[m] = main[m]
  BY DEF CheckCount, MainAt, SyncInv, TypeOK
<1>3. Key(round[n]) = round[n]
  <2>1. round[n] \in Nat
    BY DEF SyncInv, TypeOK
  <2>2. round[n] + 1 <= MaxRound + 1
    BY <1>2 DEF SyncInv, BoundInv, AnnouncedRounds, Announced
  <2>3. QED
    BY <2>1, <2>2, KeyId, BoundAssumption
<1>4. SamePlace(n)
  BY <1>2, <1>3 DEF SamePlace, Waiting, PassedWait
<1>5. \A m \in Nodes : SamePlace(m)
  BY <1>2, <1>4 DEF SamePlace
<1>6. QED
  BY <1>1, <1>5, Quiet

-----------------------------------------------------------------------------
(* The engine's own messages. *)

\* None of the engine's own messages is a SYNC.
LEMMA EngineMessages ==
  ASSUME NEW n \in Nodes
  PROVE  /\ NoSync(<<>>)
         /\ \A t \in MsgTypes \ {"SYNC"}, v \in Nat : NoSync(<<Msg(t, v)>>)
         /\ NoSync(DrainStart(n)) /\ NoSync(DrainMessages(n))
         /\ \A e \in ExitFields : NoSync(EndIfPermitted(e)) /\ NoSync(NotifyEndMessages(e))
<1>1. NoSync(<<>>)
  BY DEF NoSync
<1>2. ASSUME NEW t, NEW v, t # "SYNC" PROVE NoSync(<<Msg(t, v)>>)
  BY <1>2 DEF NoSync, IsSync, Msg
<1>3. NoSync(DrainStart(n)) /\ NoSync(DrainMessages(n))
  BY <1>1, <1>2 DEF DrainStart, DrainMessages
<1>4. \A e : NoSync(EndIfPermitted(e)) /\ NoSync(NotifyEndMessages(e))
  BY <1>1, <1>2 DEF EndIfPermitted, NotifyEndMessages
<1>5. QED
  BY <1>1, <1>2, <1>3, <1>4

\* The elements of two lists of messages sent one after the other.
LEMMA JoinElements ==
  ASSUME NEW s \in Seq(Message), NEW t \in Seq(Message)
  PROVE  \A i \in DOMAIN (s \o t) :
           /\ i \in Int
           /\ \/ i \in DOMAIN s /\ (s \o t)[i] = s[i]
              \/ i - Len(s) \in DOMAIN t /\ (s \o t)[i] = t[i - Len(s)]
OBVIOUS

\* Messages of the checkpoint and of the end, sent together, hold no SYNC.
LEMMA NoSyncJoined ==
  ASSUME NEW s \in Seq(Message), NEW t \in Seq(Message), NoSync(s), NoSync(t)
  PROVE  NoSync(s \o t)
BY JoinElements DEF NoSync

-----------------------------------------------------------------------------
(* The announcement of a round. *)

\* SYNC(round) is new: its round is later than any the peer has heard of.
LEMMA NotifyAndSyncStep ==
  ASSUME SyncInv, TypeOK', NEW n \in Nodes, NotifyAndSync(n) PROVE SyncInv'
<1> DEFINE p == Peer(n)
           out == mainOut'[n]
<1>0. UNCHANGED <<status, round, finished, synced, now, ring, flexusOut>>
  BY DEF NotifyAndSync, SyncMessage, wwt
<1>1. /\ main[n] = "notify" /\ main'[n] = "armed"
      /\ \A m \in Nodes \ {n} : main'[m] = main[m]
  BY DEF NotifyAndSync, SyncMessage, MainAt, SyncInv, TypeOK
<1>2. round[n] \in Nat /\ p \in Nodes /\ p # n /\ Peer(p) = n
  BY PeerNodes DEF SyncInv, TypeOK
<1>3. /\ AnnouncedRounds(n) = round[n] /\ AnnouncedRounds(n)' = round[n] + 1
      /\ \A m \in Nodes \ {n} : AnnouncedRounds(m)' = AnnouncedRounds(m)
  BY <1>0, <1>1 DEF AnnouncedRounds, Announced
<1>4. /\ \A m \in Nodes \ {n} : mainOut'[m] = mainOut[m]
      /\ out = DrainStart(n) \o (IF ShouldSync THEN <<Msg("SYNC", round[n])>> ELSE <<>>)
  BY DEF NotifyAndSync, SyncMessage, SyncInv, TypeOK
<1>5. /\ \A i \in DOMAIN out : IsSync(out[i]) => out[i].val = round[n]
      /\ \A i, j \in DOMAIN out : IsSync(out[i]) /\ IsSync(out[j]) => i = j
  <2> DEFINE d == DrainStart(n)
             t == IF ShouldSync THEN <<Msg("SYNC", round[n])>> ELSE <<>>
  <2>1. d \in Seq(Message) /\ NoSync(d)
    BY EngineMessages, DrainType DEF SyncInv
  <2>2. t \in Seq(Message)
    BY <1>2, MsgSeq DEF MsgTypes
  <2>3. \A i \in DOMAIN t : i = 1 /\ t[i].val = round[n]
    BY DEF Msg
  <2> HIDE DEF d, t
  <2>4. \A i \in DOMAIN out : IsSync(out[i]) =>
          i - Len(d) \in DOMAIN t /\ out[i] = t[i - Len(d)] /\ i \in Int
    BY <1>4, <2>1, <2>2, JoinElements DEF NoSync, d, t
  <2>5. Len(d) \in Nat
    BY <2>1
  <2>6. QED
    BY <2>3, <2>4, <2>5
<1>6. round[n] \notin synced[p]
  BY <1>2, <1>3 DEF SyncInv, CountInv
<1>7. \A i \in DOMAIN ring[p] : IsSync(ring[p][i]) => ring[p][i].val # round[n]
  BY <1>2, <1>3 DEF SyncInv, RingInv, RingAnnounced
<1>8. FinishedInv' /\ WaitInv' /\ SyncRoundValid'
  BY <1>0, <1>1 DEF SyncInv, FinishedInv, WaitInv, PassedWait, SyncRoundValid
<1>9. BoundInv'
  BY <1>0, <1>1, <1>2, <1>3, BoundAssumption DEF SyncInv, BoundInv, MaxTime
<1>10. ASSUME NEW m \in Nodes, NEW v \in Nat, v < AnnouncedRounds(m)
       PROVE  v < AnnouncedRounds(m)'
  BY <1>2, <1>3, <1>10
<1>11. CountInv'
  <2>1. ASSUME NEW m \in Nodes, NEW q \in synced'[m]
        PROVE  q < AnnouncedRounds(Peer(m))'
    <3>1. q \in Nat
      BY <1>0, <2>1 DEF SyncInv, TypeOK
    <3>2. QED
      BY <1>0, <1>10, <2>1, <3>1, PeerNodes DEF SyncInv, CountInv
  <2>2. QED
    BY <1>0, <2>1 DEF SyncInv, CountInv
<1>12. ASSUME NEW m \in Nodes PROVE FlexusSendsNone(m)' /\ SendsAnnounced(m)' /\ SendsOne(m)'
  <2>1. FlexusSendsNone(m) /\ SendsAnnounced(m) /\ SendsOne(m)
    BY DEF SyncInv, SendingInv
  <2>2. FlexusSendsNone(m)'
    BY <1>0, <2>1 DEF FlexusSendsNone
  <2>3. CASE m = n
    <3>1. SendsAnnounced(m)'
      BY <1>0, <1>2, <1>3, <1>5, <1>6, <2>3 DEF SendsAnnounced
    <3>2. SendsOne(m)'
      BY <1>5, <2>3 DEF SendsOne
    <3>3. QED
      BY <2>2, <3>1, <3>2
  <2>4. CASE m # n
    BY <1>0, <1>3, <1>4, <2>1, <2>2, <2>4 DEF SendsAnnounced, SendsOne
  <2>5. QED
    BY <2>3, <2>4
<1>13. ASSUME NEW m \in Nodes PROVE RingAnnounced(m)' /\ RingDistinct(m)' /\ RingOrSending(m)'
  <2>1. RingAnnounced(m) /\ RingDistinct(m) /\ RingOrSending(m)
    BY DEF SyncInv, RingInv
  <2>2. RingAnnounced(m)'
    <3>1. ASSUME NEW i \in DOMAIN ring[m], IsSync(ring[m][i]) PROVE ring[m][i].val \in Nat
      <4>1. ring[m] \in Seq(Message)
        BY DEF SyncInv, TypeOK
      <4>2. ring[m][i] \in Message
        BY <4>1
      <4>3. QED
        BY <4>2 DEF Message
    <3>2. QED
      BY <1>0, <1>10, <2>1, <3>1, PeerNodes DEF RingAnnounced
  <2>3. RingDistinct(m)'
    BY <1>0, <2>1 DEF RingDistinct
  <2>4. CASE Peer(m) = n
    <3>1. m = p
      BY <2>4, PeerNodes
    <3>2. QED
      BY <1>0, <1>5, <1>7, <2>2, <2>3, <2>4, <3>1 DEF RingOrSending
  <2>5. CASE Peer(m) # n
    BY <1>0, <1>4, <2>1, <2>2, <2>3, <2>5, PeerNodes DEF RingOrSending
  <2>6. QED
    BY <2>4, <2>5
<1>14. QED
  BY <1>8, <1>9, <1>11, <1>12, <1>13 DEF SyncInv, SendingInv, RingInv
-----------------------------------------------------------------------------
(* The other steps. *)

\* Receiving a message other than a SYNC.
LEMMA ReceiveStep ==
  ASSUME KeysSuffice, SyncInv, TypeOK', NEW n \in Nodes, Receive(n) PROVE SyncInv'
<1>0. TypeOK
  BY DEF SyncInv
<1>1. CASE RecvNormal(n)
  <2>1. \A m \in Nodes : status'[m] = status[m] \/ status'[m] # "abort_round"
    BY <1>0, <1>1 DEF RecvNormal, Abort, TypeOK
  <2>2. QED
    BY <1>1, <2>1, ReceiveOther DEF RecvNormal, MsgTypes
<1>2. CASE RecvSync(n)
  BY <1>2, RecvSyncStep
<1>3. CASE RecvDrainStart(n)
  BY <1>3, ReceiveOther DEF RecvDrainStart, MsgTypes, ctl, wwt
<1>4. CASE RecvDrainEnd(n)
  BY <1>4, ReceiveOther DEF RecvDrainEnd, MsgTypes, ctl, wwt
<1>5. CASE RecvInitStep(n)
  BY <1>5, ReceiveOther DEF RecvInitStep, MsgTypes, ctl, wwt
<1>6. CASE RecvIntent(n)
  BY <1>6, ReceiveOther DEF RecvIntent, MsgTypes, ctl, wwt
<1>7. CASE RecvPermission(n)
  <2> DEFINE e == [ex[n] EXCEPT !.permitted = TRUE]
  <2>0. ex[n] \in ExitFields
    BY <1>0 DEF TypeOK
  <2>1. e \in ExitFields
    BY <2>0 DEF ExitFields
  <2>2. NoSync(EndIfPermitted(e))
    BY <2>1, EngineMessages
  <2>3. mainOut' = [mainOut EXCEPT ![n] = EndIfPermitted(e)]
    BY <1>7 DEF RecvPermission
  <2>4. \A m \in Nodes : mainOut'[m] = mainOut[m] \/ NoSync(mainOut'[m])
    BY <1>0, <2>2, <2>3 DEF TypeOK
  <2>5. QED
    BY <1>7, <2>4, ReceiveOther DEF RecvPermission, MsgTypes, ctl, wwt
<1>8. CASE RecvEnd(n)
  <2>1. \A m \in Nodes : status'[m] = status[m] \/ status'[m] # "abort_round"
    BY <1>0, <1>8 DEF RecvEnd, Abort, TypeOK
  <2>2. QED
    BY <1>8, <2>1, ReceiveOther DEF RecvEnd, MsgTypes, wwt
<1>9. CASE PollDone(n)
  BY <1>9, Quiet DEF PollDone, wire, wwt, SamePlace
<1>10. QED
  BY <1>1, <1>2, <1>3, <1>4, <1>5, <1>6, <1>7, <1>8, <1>9 DEF Receive

\* A message of the engine's is left for n's main thread to send.
LEMMA SendsNoSync ==
  ASSUME SyncInv, NEW n \in Nodes, NEW s, NoSync(s), mainOut' = [mainOut EXCEPT ![n] = s]
  PROVE  \A m \in Nodes : mainOut'[m] = mainOut[m] \/ NoSync(mainOut'[m])
BY DEF SyncInv, TypeOK

\* The checkpoint is taken at a boundary, and the master exits after it.
LEMMA CheckpointStep ==
  ASSUME SyncInv, BhInv, TypeOK', NEW n \in Nodes, CheckpointBH(n) PROVE SyncInv'
<1>0. TypeOK
  BY DEF SyncInv
<1>1. UNCHANGED <<status, round, finished, synced, ring, now, flexusOut>>
  BY DEF CheckpointBH, wwt
<1>2. main[n] \in {"armed", "closing"}
  BY DEF CheckpointBH, BhInv
<1>3. \A m \in Nodes : SamePlace(m)
  BY <1>0, <1>2 DEF CheckpointBH, TypeOK, SamePlace, PassedWait
<1>4. \A m \in Nodes : mainOut'[m] = mainOut[m] \/ NoSync(mainOut'[m])
  <2> DEFINE s == DrainMessages(n) \o NotifyEndMessages(ex[n])
  <2>1. ex[n] \in ExitFields
    BY <1>0 DEF TypeOK
  <2>2. NoSync(s)
    BY <1>0, <2>1, EngineMessages, NoSyncJoined, EndType, DrainType
  <2>3. UNCHANGED mainOut \/ mainOut' = [mainOut EXCEPT ![n] = s]
    BY Zenon DEF CheckpointBH
  <2>4. QED
    BY <2>2, <2>3, SendsNoSync
<1>5. QED
  BY <1>1, <1>3, <1>4, Quiet

\* What QEMU's main loop dispatches.
LEMMA DispatchStep ==
  ASSUME SyncInv, BhInv, TypeOK', NEW n \in Nodes, Dispatch(n) PROVE SyncInv'
<1>1. CASE HostPoll(n)
  BY <1>1, Quiet DEF HostPoll, wire, SamePlace
<1>2. CASE PauseBh(n)
  BY <1>2, Quiet DEF PauseBh, ctl, wire, wwt, SamePlace
<1>3. CASE CheckpointBH(n)
  BY <1>3, CheckpointStep
<1>4. CASE SetupWWT(n)
  BY <1>4, SetupStep
<1>5. CASE Deliver(n)
  BY <1>5, Quiet DEF Deliver, ctl, wire, SamePlace
<1>6. CASE QuantaSync(n)
  BY <1>6, QuantaSyncStep
<1>7. CASE SyncCheck(n)
  <2>1. \A m \in Nodes : SamePlace(m)
    BY <1>7 DEF SyncCheck, SyncInv, TypeOK, SamePlace, PassedWait
  <2>2. QED
    BY <1>7, <2>1, Quiet DEF SyncCheck, wire, wwt
<1>8. QED
  BY <1>1, <1>2, <1>3, <1>4, <1>5, <1>6, <1>7 DEF Dispatch

\* wwt_sync_check, which leaves the round only in its last step.
LEMMA BoundaryStep ==
  ASSUME KeysSuffice, SyncInv, TypeOK', NEW n \in Nodes, Boundary(n) PROVE SyncInv'
<1>0. TypeOK
  BY DEF SyncInv
<1>1. CASE NotifyAndSync(n)
  BY <1>1, NotifyAndSyncStep
<1>2. CASE CheckCount(n)
  BY <1>2, CheckCountStep
<1>3. CASE SpinOn(n)
  <2>1. \A m \in Nodes : SamePlace(m)
    BY <1>0, <1>3 DEF SpinOn, MainAt, TypeOK, SamePlace, PassedWait
  <2>2. QED
    BY <1>3, <2>1, Quiet DEF SpinOn, wire, wwt
<1>4. CASE SpinStop(n)
  <2>1. \A m \in Nodes : status'[m] = status[m] \/ status'[m] # "abort_round"
    BY <1>0, <1>4 DEF SpinStop, Abort, TypeOK
  <2>2. QED
    BY <1>4, <2>1, Quiet DEF SpinStop, wire, wwt, SamePlace
<1>5. CASE SpinDestroy(n)
  <2>0. \/ main' = [main EXCEPT ![n] = "closing"]
        \/ main' = [main EXCEPT ![n] = "exiting"]
    BY <1>5, Zenon DEF SpinDestroy, Destroy, CloseAfterCheckpoint, CloseNow
  <2>1. \A m \in Nodes : SamePlace(m)
    <3>1. main \in [Nodes -> MainStates] /\ main[n] = "spin"
      BY <1>0, <1>5 DEF SpinDestroy, MainAt, TypeOK
    <3>2. QED
      BY <2>0, <3>1 DEF SamePlace, PassedWait
  <2>2. ex[n] \in ExitFields
    BY <1>0 DEF TypeOK
  <2>3. \A m \in Nodes : mainOut'[m] = mainOut[m] \/ NoSync(mainOut'[m])
    BY <1>5, <2>2, EngineMessages, SendsNoSync DEF SpinDestroy, Destroy
  <2>4. QED
    BY <1>5, <2>1, <2>3, Quiet DEF SpinDestroy, wwt
<1>6. CASE BoundaryNotify(n)
  <2>1. \A m \in Nodes : mainOut'[m] = mainOut[m] \/ NoSync(mainOut'[m])
    BY <1>6, EngineMessages, SendsNoSync DEF BoundaryNotify
  <2>2. QED
    BY <1>6, <2>1, Quiet DEF BoundaryNotify, ctl, wwt, SamePlace
<1>7. CASE BoundaryCheckpoint(n)
  <2>1. \A m \in Nodes : SamePlace(m)
    BY <1>0, <1>7 DEF BoundaryCheckpoint, MainAt, TypeOK, SamePlace, PassedWait
  <2>2. QED
    BY <1>7, <2>1, Quiet DEF BoundaryCheckpoint, wire, wwt
<1>8. CASE BoundaryTooLate(n)
  <2>1. \A m \in Nodes : status'[m] = status[m] \/ status'[m] # "abort_round"
    BY <1>0, <1>8 DEF BoundaryTooLate, Abort, TypeOK
  <2>2. QED
    BY <1>8, <2>1, Quiet DEF BoundaryTooLate, wire, wwt, SamePlace
<1>9. CASE BoundaryPass(n)
  <2>1. \A m \in Nodes : SamePlace(m)
    BY <1>0, <1>9 DEF BoundaryPass, MainAt, TypeOK, SamePlace, PassedWait
  <2>2. QED
    BY <1>9, <2>1, Quiet DEF BoundaryPass, wire, wwt
<1>10. CASE Permit(n)
  <2>1. \A m \in Nodes : SamePlace(m)
    BY <1>0, <1>10 DEF Permit, MainAt, TypeOK, SamePlace, PassedWait
  <2>2. QED
    BY <1>10, <2>1, Quiet DEF Permit, wire, wwt
<1>11. CASE PermitGrant(n)
  <2>1. \A m \in Nodes : SamePlace(m)
    BY <1>0, <1>11 DEF PermitGrant, MainAt, TypeOK, SamePlace, PassedWait
  <2>2. \A m \in Nodes : mainOut'[m] = mainOut[m] \/ NoSync(mainOut'[m])
    BY <1>11, EngineMessages, SendsNoSync DEF PermitGrant, MsgTypes
  <2>3. QED
    BY <1>11, <2>1, <2>2, Quiet DEF PermitGrant, wwt
<1>12. CASE PermitEnd(n)
  <2>1. \A m \in Nodes : SamePlace(m)
    BY <1>0, <1>12 DEF PermitEnd, MainAt, TypeOK, SamePlace, PassedWait
  <2>2. ex[n] \in ExitFields
    BY <1>0 DEF TypeOK
  <2>3. \A m \in Nodes : mainOut'[m] = mainOut[m] \/ NoSync(mainOut'[m])
    BY <1>12, <2>2, EngineMessages, SendsNoSync DEF PermitEnd
  <2>4. QED
    BY <1>12, <2>1, <2>3, Quiet DEF PermitEnd, wwt
<1>13. CASE Advance(n)
  BY <1>13, AdvanceStep
<1>14. CASE Exit(n)
  <2>1. \A m \in Nodes : status'[m] = status[m] \/ status'[m] # "abort_round"
    BY <1>0, <1>14 DEF Exit, TypeOK
  <2>2. QED
    BY <1>14, <2>1, Quiet DEF Exit, wire, wwt, SamePlace
<1>15. QED
  BY <1>1, <1>2, <1>3, <1>4, <1>5, <1>6, <1>7, <1>8, <1>9, <1>10, <1>11, <1>12,
     <1>13, <1>14 DEF Boundary

\* What Flexus does leaves the barrier alone.
LEMMA FlexusStep ==
  ASSUME SyncInv, TypeOK', NEW n \in Nodes, FlexusThread(n) \/ FinishInitiate(n)
  PROVE  SyncInv'
<1>0. TypeOK
  BY DEF SyncInv
<1> DEFINE KeepsOut == \A m \in Nodes : flexusOut'[m] = flexusOut[m] \/ NoSync(flexusOut'[m])
<1>1. CASE FlexusSend(n)
  BY <1>1, FlexusSendStep
<1>2. CASE CanStop(n)
  <2>1. KeepsOut
    <3>1. \/ UNCHANGED flexusOut
          \/ flexusOut' = [flexusOut EXCEPT ![n] = <<>>]
          \/ flexusOut' = [flexusOut EXCEPT ![n] = <<Msg("INTENT", 0)>>]
      BY <1>2, Zenon DEF CanStop
    <3>2. NoSync(<<>>) /\ NoSync(<<Msg("INTENT", 0)>>)
      BY EngineMessages DEF MsgTypes
    <3>3. QED
      BY <1>0, <3>1, <3>2 DEF TypeOK
  <2>2. QED
    BY <1>2, <2>1, Quiet DEF CanStop, wwt, SamePlace
<1>3. CASE CanStopGrant(n)
  <2>1. KeepsOut
    BY <1>0, <1>3, EngineMessages DEF CanStopGrant, TypeOK, MsgTypes
  <2>2. QED
    BY <1>3, <2>1, Quiet DEF CanStopGrant, wwt, SamePlace
<1>4. CASE CanStopEnd(n)
  <2>1. ex[n] \in ExitFields
    BY <1>0 DEF TypeOK
  <2>2. KeepsOut
    BY <1>0, <1>4, <2>1, EngineMessages DEF CanStopEnd, TypeOK
  <2>3. QED
    BY <1>4, <2>2, Quiet DEF CanStopEnd, wwt, SamePlace
<1>5. CASE CanStopAnswer(n)
  <2>1. \A m \in Nodes : status'[m] = status[m] \/ status'[m] # "abort_round"
    BY <1>0, <1>5 DEF CanStopAnswer, TypeOK
  <2>2. QED
    BY <1>5, <2>1, Quiet DEF CanStopAnswer, wire, wwt, SamePlace
<1>6. CASE SetCheckpointFlags(n)
  BY <1>6, Quiet DEF SetCheckpointFlags, wire, wwt, SamePlace
<1>7. CASE SetCheckpointRound(n)
  BY <1>7, Quiet DEF SetCheckpointRound, wire, wwt, SamePlace
<1>8. CASE FinishInitiate(n)
  <2>1. KeepsOut
    <3>1. \/ UNCHANGED flexusOut
          \/ flexusOut' = [flexusOut EXCEPT ![n] = <<Msg("INIT_STEP", 0)>>]
      BY <1>8, Zenon DEF FinishInitiate
    <3>2. NoSync(<<Msg("INIT_STEP", 0)>>)
      BY EngineMessages DEF MsgTypes
    <3>3. QED
      BY <1>0, <3>1, <3>2 DEF TypeOK
  <2>2. QED
    BY <1>8, <2>1, Quiet DEF FinishInitiate, wwt, SamePlace
<1>9. QED
  BY <1>1, <1>2, <1>3, <1>4, <1>5, <1>6, <1>7, <1>8 DEF FlexusThread

\* A packet is not a SYNC.
LEMMA SendPacketStep ==
  ASSUME SyncInv, TypeOK', NEW n \in Nodes, SendPacket(n) PROVE SyncInv'
<1>1. NoSync(<<Msg("NORMAL", now[n] + Quantum)>>)
  BY DEF NoSync, IsSync, Msg
<1>2. \A m \in Nodes : mainOut'[m] = mainOut[m] \/ NoSync(mainOut'[m])
  BY <1>1, SendsNoSync DEF SendPacket, Packet
<1>3. QED
  BY <1>2, Quiet DEF SendPacket, Packet, ctl, SamePlace
-----------------------------------------------------------------------------
(* Where the checkpoint's bottom half is scheduled. *)

\* A step that schedules none and does not move the main thread, or moves it
\* from a place where none is scheduled.
LEMMA BhQuiet ==
  ASSUME BhInv,
         \A n \in Nodes : ck'[n].bh = ck[n].bh,
         \A n \in Nodes : main'[n] = main[n] \/ main[n] \notin {"armed", "closing"}
  PROVE  BhInv'
BY DEF BhInv

\* Only the bottom half's own state decides whether BhInv holds.
LEMMA BhSame ==
  ASSUME TypeOK, TypeOK', NEW n \in Nodes, NEW c, c.bh = ck[n].bh,
         ck' = [ck EXCEPT ![n] = c]
  PROVE  \A m \in Nodes : ck'[m].bh = ck[m].bh
BY DEF TypeOK

\* create_checkpoint_bh is pending only where the main thread awaits it.
LEMMA BhStep == ASSUME TypeOK, TypeOK', BhInv, [Next]_vars PROVE BhInv'
<1>1. CASE UNCHANGED <<main, ck>>
  BY <1>1 DEF BhInv
<1>2. ASSUME NEW n \in Nodes, Receive(n) PROVE BhInv'
  <2>1. CASE RecvDrainStart(n)
    <3> DEFINE c == [ck[n] EXCEPT !.needs = TRUE, !.ckround = Head(ring[n]).val]
    <3>1. ck[n] \in CkptFields
      BY DEF TypeOK
    <3>2. c.bh = ck[n].bh
      BY <3>1 DEF CkptFields
    <3>3. ck' = ck \/ ck' = [ck EXCEPT ![n] = c]
      BY <2>1, Zenon DEF RecvDrainStart
    <3>4. UNCHANGED main
      BY <2>1 DEF RecvDrainStart, ctl
    <3>5. QED
      BY <3>2, <3>3, <3>4, BhSame, BhQuiet
  <2>2. CASE RecvInitStep(n)
    <3> DEFINE c == [ck[n] EXCEPT !.initFlag = @ + 1]
               d == CheckpointValues(c, round[n])
    <3>1. ck[n] \in CkptFields
      BY DEF TypeOK
    <3>2. c.bh = ck[n].bh /\ d.bh = ck[n].bh
      BY <3>1 DEF CkptFields, CheckpointValues
    <3>3. ck' = [ck EXCEPT ![n] = c] \/ ck' = [ck EXCEPT ![n] = d]
      BY <2>2, Zenon DEF RecvInitStep
    <3>4. UNCHANGED main
      BY <2>2 DEF RecvInitStep, ctl
    <3>5. QED
      BY <3>2, <3>3, <3>4, BhSame, BhQuiet
  <2>3. QED
    BY <1>2, <2>1, <2>2 DEF Receive, BhInv, ctl, RecvNormal, RecvSync, RecvDrainEnd,
       RecvIntent, RecvPermission, RecvEnd, PollDone
<1>3. ASSUME NEW n \in Nodes, CheckpointBH(n) PROVE BhInv'
  <2>1. ck[n] \in CkptFields /\ AfterSnapshot(n) \in CkptFields
    BY DrainType DEF TypeOK
  <2>2. AfterSnapshot(n).bh = "none"
    BY <2>1 DEF AfterSnapshot, CkptFields
  <2>3. ck'[n].bh = "none" /\ \A m \in Nodes \ {n} : ck'[m] = ck[m] /\ main'[m] = main[m]
    BY <1>3, <2>2 DEF CheckpointBH, TypeOK
  <2>4. QED
    BY <2>3 DEF BhInv
<1>4. ASSUME NEW n \in Nodes, Dispatch(n) PROVE BhInv'
  <2>1. CASE CheckpointBH(n)
    BY <1>3, <2>1
  <2>2. CASE SyncCheck(n)
    <3>1. ck[n].bh = "none" /\ UNCHANGED ck
      BY <2>2 DEF SyncCheck, BhPending
    <3>2. \A m \in Nodes \ {n} : main'[m] = main[m]
      BY <2>2 DEF SyncCheck, TypeOK
    <3>3. QED
      BY <3>1, <3>2 DEF BhInv
  <2>3. CASE SetupWWT(n) \/ QuantaSync(n)
    BY <2>3, BhQuiet DEF SetupWWT, QuantaSync, Pause, TypeOK
  <2>4. QED
    BY <1>4, <2>1, <2>2, <2>3 DEF Dispatch, BhInv, ctl, HostPoll, PauseBh, Deliver
<1>5. ASSUME NEW n \in Nodes, Boundary(n) PROVE BhInv'
  <2> DEFINE Stays == \A m \in Nodes : main'[m] = main[m] \/ main[m] \notin {"armed", "closing"}
  <2>1. CASE NotifyAndSync(n) \/ BoundaryNotify(n)
    <3>1. Stays
      BY <2>1 DEF NotifyAndSync, SyncMessage, BoundaryNotify, MainAt, TypeOK, ctl
    <3>2. ck[n] \in CkptFields
      BY DEF TypeOK
    <3>3. AfterDrainStart(n).bh = ck[n].bh
      BY <3>2 DEF AfterDrainStart, CkptFields
    <3>4. ck' = [ck EXCEPT ![n] = AfterDrainStart(n)]
      BY <2>1 DEF NotifyAndSync, SyncMessage, BoundaryNotify
    <3>5. QED
      BY <3>1, <3>3, <3>4, BhSame, BhQuiet
  <2>2. CASE SpinDestroy(n)
    <3>1. main[n] = "spin"
      BY <2>2 DEF SpinDestroy, MainAt
    <3>2. CASE CloseAfterCheckpoint(n)
      <4>1. main'[n] = "closing"
        BY <3>2 DEF CloseAfterCheckpoint, TypeOK
      <4>2. \A m \in Nodes \ {n} : ck'[m] = ck[m] /\ main'[m] = main[m]
        BY <3>2 DEF CloseAfterCheckpoint, TypeOK
      <4>3. QED
        BY <4>1, <4>2 DEF BhInv
    <3>3. CASE CloseNow(n)
      <4>1. UNCHANGED ck /\ \A m \in Nodes \ {n} : main'[m] = main[m]
        BY <3>3 DEF CloseNow, TypeOK
      <4>2. QED
        BY <3>1, <4>1 DEF BhInv
    <3>4. QED
      BY <2>2, <3>2, <3>3 DEF SpinDestroy, Destroy
  <2>3. CASE BoundaryCheckpoint(n)
    <3>1. \A m \in Nodes \ {n} : ck'[m] = ck[m] /\ main'[m] = main[m]
      BY <2>3 DEF BoundaryCheckpoint, TypeOK
    <3>2. main'[n] = "armed"
      BY <2>3 DEF BoundaryCheckpoint, TypeOK
    <3>3. QED
      BY <3>1, <3>2 DEF BhInv
  <2>4. CASE UNCHANGED ck /\ Stays
    BY <2>4, BhQuiet
  <2>5. QED
    BY <1>5, <2>1, <2>2, <2>3, <2>4 DEF Boundary, MainAt, TypeOK, CheckCount, SpinOn,
       SpinStop, BoundaryTooLate, BoundaryPass, Permit, PermitGrant, PermitEnd,
       Advance, Exit
<1>6. ASSUME NEW n \in Nodes, FlexusThread(n) \/ FinishInitiate(n) PROVE BhInv'
  <2>1. UNCHANGED main
    BY <1>6 DEF FlexusThread, FlexusSend, CanStop, CanStopGrant, CanStopEnd,
       CanStopAnswer, SetCheckpointFlags, SetCheckpointRound, FinishInitiate, ctl
  <2>2. CASE UNCHANGED ck
    BY <2>1, <2>2 DEF BhInv
  <2>3. CASE \E c : c.bh = ck[n].bh /\ ck' = [ck EXCEPT ![n] = c]
    BY <2>1, <2>3, BhSame, BhQuiet
  <2>4. ck[n] \in CkptFields
    BY DEF TypeOK
  <2>5. CASE SetCheckpointFlags(n)
    <3>1. [ck[n] EXCEPT !.notified = FALSE, !.needs = TRUE].bh = ck[n].bh
      BY <2>4 DEF CkptFields
    <3>2. QED
      BY <2>3, <2>5, <3>1 DEF SetCheckpointFlags
  <2>6. CASE SetCheckpointRound(n)
    <3>1. [ck[n] EXCEPT !.ckround = round[n]].bh = ck[n].bh
      BY <2>4 DEF CkptFields
    <3>2. QED
      BY <2>3, <2>6, <3>1 DEF SetCheckpointRound
  <2>7. CASE FinishInitiate(n)
    <3>1. /\ [ck[n] EXCEPT !.signalled = TRUE, !.masterInit = TRUE].bh = ck[n].bh
          /\ [ck[n] EXCEPT !.signalled = TRUE].bh = ck[n].bh
      BY <2>4 DEF CkptFields
    <3>2. \/ ck' = [ck EXCEPT ![n] = [ck[n] EXCEPT !.signalled = TRUE, !.masterInit = TRUE]]
          \/ ck' = [ck EXCEPT ![n] = [ck[n] EXCEPT !.signalled = TRUE]]
      BY <2>7, Zenon DEF FinishInitiate
    <3>3. QED
      BY <2>3, <3>1, <3>2
  <2>8. QED
    BY <1>6, <2>2, <2>5, <2>6, <2>7 DEF FlexusThread, FlexusSend, CanStop, CanStopGrant,
       CanStopEnd, CanStopAnswer
<1>7. QED
  BY <1>1, <1>2, <1>4, <1>5, <1>6 DEF Next, MainThread, MainSend, Tick, SendPacket, Packet,
     vars, ctl

-----------------------------------------------------------------------------
(* The theorems. *)

\* Before the first quantum nothing is announced, in a ring or counted.
LEMMA SyncInitial == Init => SyncInv /\ BhInv
<1> SUFFICES ASSUME Init PROVE SyncInv /\ BhInv
  OBVIOUS
<1>1. TypeOK
  BY InitType
<1>2. \A n \in Nodes : AnnouncedRounds(n) = 0 /\ Peer(n) \in Nodes
  BY PeerNodes DEF Init, InitWWT, InitEngine, AnnouncedRounds, Announced
<1>3. FinishedInv /\ SyncRoundValid /\ WaitInv
  BY DEF Init, InitWWT, InitEngine, FinishedInv, SyncRoundValid, WaitInv, PassedWait
<1>4. SendingInv
  BY DEF Init, InitWWT, InitEngine, SendingInv, FlexusSendsNone, SendsAnnounced, SendsOne
<1>5. RingInv
  BY DEF Init, InitWWT, InitEngine, RingInv, RingAnnounced, RingDistinct, RingOrSending
<1>6. CountInv
  BY <1>2 DEF Init, InitWWT, InitEngine, CountInv
<1>7. BoundInv
  <2>1. 0 <= MaxTime
    BY SizeAssumption, BoundAssumption DEF MaxTime
  <2>2. QED
    BY <1>2, <2>1, BoundAssumption DEF Init, InitWWT, InitEngine, BoundInv
<1>8. BhInv
  BY DEF Init, InitWWT, InitEngine, BhInv
<1>9. QED
  BY <1>1, <1>3, <1>4, <1>5, <1>6, <1>7, <1>8 DEF SyncInv

\* Every step of the two processes keeps the invariant: one case per action.
LEMMA SyncStep ==
  ASSUME KeysSuffice, SyncInv, BhInv, [Next]_vars PROVE SyncInv' /\ BhInv'
<1>0. TypeOK
  BY DEF SyncInv
<1>1. TypeOK'
  BY <1>0, TypeStep
<1>2. BhInv'
  BY <1>0, <1>1, BhStep
<1>3. CASE UNCHANGED vars
  <2>1. UNCHANGED <<status, main, round, finished, synced, ring, now, mainOut, flexusOut>>
    BY <1>3 DEF vars, ctl, wire, wwt
  <2>2. QED
    BY <1>1, <1>2, <2>1, Quiet DEF SamePlace
<1>4. ASSUME NEW n \in Nodes, MainThread(n) PROVE SyncInv'
  BY <1>1, <1>4, MainSendStep, ReceiveStep, DispatchStep, BoundaryStep DEF MainThread
<1>5. ASSUME NEW n \in Nodes, FlexusThread(n) \/ FinishInitiate(n) PROVE SyncInv'
  BY <1>1, <1>5, FlexusStep
<1>6. ASSUME NEW n \in Nodes, Tick(n) \/ SendPacket(n) PROVE SyncInv'
  BY <1>1, <1>6, TickStep, SendPacketStep
<1>7. QED
  BY <1>2, <1>3, <1>4, <1>5, <1>6 DEF Next

\* The strengthening is an invariant, for every quantum, ring size, mode and
\* bound, if no key of sync_counts is used twice (pdes-utility.c:43-54).
THEOREM SyncInductive == ASSUME KeysSuffice PROVE Spec => []InductiveInv
<1>1. Init => InductiveInv
  BY SyncInitial DEF InductiveInv
<1>2. InductiveInv /\ [Next]_vars => InductiveInv'
  BY SyncStep DEF InductiveInv
<1>3. QED
  BY <1>1, <1>2, PTL DEF Spec

\* The assertion of pdes-wwt.c:198 never fails: a SYNC is received in the round
\* it is of, or one round early by a process that has finished its own.
THEOREM SyncRoundCorrect == ASSUME KeysSuffice PROVE Spec => []SyncRoundValid
<1>1. InductiveInv => SyncRoundValid
  BY DEF InductiveInv, SyncInv
<1>2. QED
  BY <1>1, SyncInductive, PTL

-----------------------------------------------------------------------------
(* The boundary of a quantum implements the abstract barrier: refinement of   *)
(* QuantumBarrier, for every value of the constants with "sync" on.          *)

\* A step after which every process runs in the same round, on the same side
\* of its announcement, is a stutter of the barrier unless a process ends.
Stutters == \A m \in Nodes : round'[m] = round[m] /\ (Announced(m)' <=> Announced(m))

\* The step is one of n, which is up; only n may end with it.
OfNode(n) == Up(n) /\ \A m \in Nodes \ {n} : status'[m] = status[m]

Ended == {m \in Nodes : ~Up(m)}

\* What the barrier sees of a process is unchanged by a step that moves neither
\* the round nor the arrival.
LEMMA StutterMaps ==
  ASSUME TypeOK, TypeOK', Stutters
  PROVE  round' = round /\ [m \in Nodes |-> Announced(m)]' = [m \in Nodes |-> Announced(m)]
<1>1. round' = round
  BY DEF Stutters, TypeOK
<1>2. \A m \in Nodes : Announced(m)' = Announced(m)
  BY DEF Stutters, Announced
<1>3. QED
  BY <1>1, <1>2, Zenon

\* A step of n after which n is still up leaves the set of the ended alone;
\* otherwise n joins it.
LEMMA EndedMaps ==
  ASSUME NEW n \in Nodes, OfNode(n)
  PROVE  Ended' = IF Up(n)' THEN Ended ELSE Ended \cup {n}
BY DEF OfNode, Ended, Up

\* So a step of n that moves neither the round nor the arrival is a stutter of
\* the barrier, or the end of n.
LEMMA StutterOrEnd ==
  ASSUME TypeOK, TypeOK', Stutters, NEW n \in Nodes, OfNode(n)
  PROVE  [Barrier!Next]_(Barrier!vars)
<1>1. round' = round /\ [m \in Nodes |-> Announced(m)]' = [m \in Nodes |-> Announced(m)]
  BY StutterMaps
<1>2. CASE Up(n)'
  <2>1. {m \in Nodes : ~Up(m)}' = {m \in Nodes : ~Up(m)}
    BY <1>2, EndedMaps DEF Ended
  <2>2. QED
    BY <1>1, <2>1 DEF Barrier!vars
<1>3. CASE ~Up(n)'
  <2>1. {m \in Nodes : ~Up(m)}' = {m \in Nodes : ~Up(m)} \cup {n}
    BY <1>3, EndedMaps DEF Ended
  <2>2. QED
    BY <1>1, <2>1 DEF Barrier!Next, Barrier!End
<1>4. QED
  BY <1>2, <1>3

\* Every action is of a process that is up, and no other process ends with it.
LEMMA StepOfNode ==
  ASSUME TypeOK, NEW n \in Nodes,
         MainThread(n) \/ FlexusThread(n) \/ Tick(n) \/ SendPacket(n) \/ FinishInitiate(n)
  PROVE  OfNode(n)
<1>1. ASSUME Up(n), NEW s, status' = status \/ status' = [status EXCEPT ![n] = s]
      PROVE  OfNode(n)
  BY <1>1 DEF OfNode, TypeOK
<1>2. CASE Receive(n)
  BY <1>1, <1>2 DEF Receive, Receiving, MainReady, Abort, ctl, RecvNormal, RecvSync,
     RecvDrainStart, RecvDrainEnd, RecvInitStep, RecvIntent, RecvPermission, RecvEnd, PollDone
<1>3. CASE Dispatch(n)
  BY <1>1, <1>3 DEF Dispatch, InEventLoop, MainReady, Abort, ctl, HostPoll, PauseBh,
     CheckpointBH, SetupWWT, Deliver, QuantaSync, Pause, SyncCheck
<1>4. CASE Boundary(n)
  BY <1>1, <1>4 DEF Boundary, MainAt, MainReady, Abort, ctl, NotifyAndSync, SyncMessage, CheckCount,
     SpinOn, SpinStop, SpinDestroy, BoundaryNotify, BoundaryCheckpoint, BoundaryTooLate,
     BoundaryPass, Permit, PermitGrant, PermitEnd, Advance, Exit
<1>5. CASE FlexusThread(n)
  BY <1>1, <1>5 DEF FlexusThread, FlexusAt, ctl, FlexusSend, CanStop, CanStopGrant,
     CanStopEnd, CanStopAnswer, SetCheckpointFlags, SetCheckpointRound
<1>6. CASE MainSend(n) \/ Tick(n) \/ SendPacket(n) \/ FinishInitiate(n)
  BY <1>1, <1>6 DEF MainSend, Tick, SendPacket, Packet, FinishInitiate, InEventLoop, MainReady,
     FlexusAt, ctl
<1>7. QED
  BY <1>2, <1>3, <1>4, <1>5, <1>6 DEF MainThread

\* quanta_sync's SYNC is the arrival at the barrier.
LEMMA ArriveMaps ==
  ASSUME SyncInv, NEW n \in Nodes, NotifyAndSync(n) PROVE Barrier!Arrive(n)
<1>1. /\ main[n] = "notify" /\ main'[n] = "armed" /\ UNCHANGED round
      /\ \A m \in Nodes \ {n} : main'[m] = main[m]
  BY DEF NotifyAndSync, SyncMessage, MainAt, SyncInv, TypeOK, wwt
<1>2. ~Announced(n) /\ Announced(n)' /\ \A m \in Nodes \ {n} : Announced(m)' = Announced(m)
  BY <1>1 DEF Announced
<1>3. round[n] <= MaxRound
  BY <1>1 DEF SyncInv, BoundInv
<1>4. [m \in Nodes |-> Announced(m)]' = [[m \in Nodes |-> Announced(m)] EXCEPT ![n] = TRUE]
  BY <1>2
<1>5. Up(n) /\ UNCHANGED status
  BY DEF NotifyAndSync, SyncMessage, MainAt, MainReady
<1>6. n \notin {m \in Nodes : ~Up(m)} /\ UNCHANGED {m \in Nodes : ~Up(m)}
  BY <1>5 DEF Up
<1>7. QED
  BY <1>1, <1>2, <1>3, <1>4, <1>6 DEF Barrier!Arrive

\* The end of wwt_sync_check leaves it: by then the peer has announced the
\* round, for its SYNC of that round is counted.
LEMMA LeaveMaps ==
  ASSUME SyncInv, ShouldSync, NEW n \in Nodes, Advance(n) PROVE Barrier!Leave(n)
<1>1. /\ main[n] = "advance" /\ main'[n] = "run"
      /\ \A m \in Nodes \ {n} : main'[m] = main[m]
      /\ round' = [round EXCEPT ![n] = @ + 1]
  BY DEF Advance, Play, MainAt, SyncInv, TypeOK
<1>2. Announced(n) /\ Announced(n)' = FALSE
      /\ \A m \in Nodes \ {n} : Announced(m)' = Announced(m)
  BY <1>1 DEF Announced
<1>3. [m \in Nodes |-> Announced(m)]' = [[m \in Nodes |-> Announced(m)] EXCEPT ![n] = FALSE]
  BY <1>1 DEF Announced
<1>4. ASSUME NEW q \in Nodes PROVE Barrier!Reached(q, round[n])
  <2>1. round[q] \in Nat /\ round[n] \in Nat
    BY DEF SyncInv, TypeOK
  <2>2. CASE q = n
    BY <1>2, <2>2 DEF Barrier!Reached
  <2>3. CASE q # n
    <3>1. q = Peer(n)
      BY <2>3 DEF Nodes, Peer
    <3>2. round[n] < AnnouncedRounds(q)
      BY <1>1, <3>1 DEF SyncInv, WaitInv, PassedWait, CountInv
    <3>3. QED
      BY <2>1, <3>2 DEF AnnouncedRounds, Barrier!Reached
  <2>4. QED
    BY <2>2, <2>3
<1>5. Up(n) /\ UNCHANGED status
  BY DEF Advance, Play, MainAt, MainReady
<1>6. n \notin {m \in Nodes : ~Up(m)} /\ UNCHANGED {m \in Nodes : ~Up(m)}
  BY <1>5 DEF Up
<1>7. QED
  BY <1>1, <1>2, <1>3, <1>4, <1>6 DEF Barrier!Leave

\* Every other step leaves the rounds alone and does not announce one.
LEMMA OthersStutter ==
  ASSUME TypeOK, BhInv, NEW n \in Nodes,
         \/ MainSend(n) \/ Receive(n) \/ Dispatch(n)
         \/ Boundary(n) /\ ~NotifyAndSync(n) /\ ~Advance(n)
         \/ FlexusThread(n) \/ FinishInitiate(n) \/ Tick(n) \/ SendPacket(n)
  PROVE  Stutters
<1>1. CASE UNCHANGED <<main, round>>
  BY <1>1 DEF Stutters, Announced
<1>2. ASSUME UNCHANGED round, NEW s, NEW t, main[n] = s, main' = [main EXCEPT ![n] = t],
             s \in {"setup", "run", "notify"} <=> t \in {"setup", "run", "notify"}
      PROVE  Stutters
  BY <1>2 DEF Stutters, Announced, TypeOK
<1>3. CASE Receive(n)
  BY <1>1, <1>3 DEF Receive, ctl, wwt, RecvNormal, RecvSync, RecvDrainStart,
     RecvDrainEnd, RecvInitStep, RecvIntent, RecvPermission, RecvEnd, PollDone
<1>4. CASE Dispatch(n)
  <2>1. CASE HostPoll(n) \/ PauseBh(n) \/ Deliver(n)
    BY <1>1, <2>1 DEF HostPoll, PauseBh, Deliver, ctl, wwt
  <2>2. CASE SetupWWT(n) \/ QuantaSync(n)
    BY <2>2 DEF SetupWWT, QuantaSync, Pause, Stutters, Announced, TypeOK
  <2>3. CASE SyncCheck(n)
    BY <2>3 DEF SyncCheck, Stutters, Announced, TypeOK, wwt
  <2>4. CASE CheckpointBH(n)
    <3>1. main[n] \in {"armed", "closing"}
      BY <2>4 DEF CheckpointBH, BhInv
    <3>2. QED
      BY <2>4, <3>1 DEF CheckpointBH, Stutters, Announced, TypeOK, wwt
  <2>5. QED
    BY <1>4, <2>1, <2>2, <2>3, <2>4 DEF Dispatch
<1>5. CASE Boundary(n) /\ ~NotifyAndSync(n) /\ ~Advance(n)
  <2>1. CASE SpinStop(n) \/ BoundaryNotify(n) \/ BoundaryTooLate(n) \/ Exit(n)
    BY <1>1, <2>1 DEF SpinStop, BoundaryNotify, BoundaryTooLate, Exit, ctl, wwt
  <2>2. CASE SpinDestroy(n)
    <3>1. main[n] = "spin" /\ UNCHANGED round
      BY <2>2 DEF SpinDestroy, MainAt, wwt
    <3>2. \/ main' = [main EXCEPT ![n] = "closing"]
          \/ main' = [main EXCEPT ![n] = "exiting"]
      BY <2>2, Zenon DEF SpinDestroy, Destroy, CloseAfterCheckpoint, CloseNow
    <3>3. QED
      BY <1>2, <3>1, <3>2
  <2>3. CASE CheckCount(n) \/ SpinOn(n)
    BY <2>3 DEF CheckCount, SpinOn, MainAt, Stutters, Announced, TypeOK, wwt
  <2>4. CASE BoundaryCheckpoint(n) \/ BoundaryPass(n)
    <3>1. /\ main[n] = "boundary" /\ UNCHANGED <<round, wwt>>
          /\ \E c \in {"armed", "permit", "advance"} : main' = [main EXCEPT ![n] = c]
      BY <2>4 DEF BoundaryCheckpoint, BoundaryPass, MainAt, wwt
    <3>2. QED
      BY <3>1 DEF Stutters, Announced, TypeOK, wwt
  <2>5. CASE Permit(n) \/ PermitGrant(n) \/ PermitEnd(n)
    BY <2>5 DEF Permit, PermitGrant, PermitEnd, MainAt, Stutters, Announced, TypeOK, wwt
  <2>6. QED
    BY <1>5, <2>1, <2>2, <2>3, <2>4, <2>5 DEF Boundary
<1>6. CASE MainSend(n) \/ FlexusThread(n) \/ FinishInitiate(n) \/ Tick(n) \/ SendPacket(n)
  BY <1>1, <1>6 DEF MainSend, FlexusThread, FlexusSend, CanStop, CanStopGrant, CanStopEnd,
     CanStopAnswer, SetCheckpointFlags, SetCheckpointRound, FinishInitiate, Tick,
     SendPacket, ctl, wwt
<1>7. QED
  BY <1>3, <1>4, <1>5, <1>6

\* Every step of the system is a step of the barrier or a stutter.
LEMMA StepMaps ==
  ASSUME ShouldSync, InductiveInv, InductiveInv', [Next]_vars
  PROVE  [Barrier!Next]_(Barrier!vars)
<1>0. SyncInv /\ BhInv /\ TypeOK /\ TypeOK'
  BY DEF InductiveInv, SyncInv
<1>1. CASE UNCHANGED vars
  <2>1. Stutters
    BY <1>1 DEF Stutters, Announced, vars, ctl, wwt
  <2>2. UNCHANGED {m \in Nodes : ~Up(m)}
    BY <1>1 DEF vars, ctl, Up
  <2>3. QED
    BY <1>0, <2>1, <2>2, StutterMaps DEF Barrier!vars
<1>2. ASSUME NEW n \in Nodes,
             MainThread(n) \/ FlexusThread(n) \/ Tick(n) \/ SendPacket(n) \/ FinishInitiate(n)
      PROVE  [Barrier!Next]_(Barrier!vars)
  <2>1. CASE NotifyAndSync(n)
    BY <1>0, <2>1, ArriveMaps DEF Barrier!Next
  <2>2. CASE Advance(n)
    BY <1>0, <2>2, LeaveMaps DEF Barrier!Next
  <2>3. CASE ~NotifyAndSync(n) /\ ~Advance(n)
    <3>1. Stutters
      BY <1>0, <1>2, <2>3, OthersStutter DEF MainThread
    <3>2. QED
      BY <1>0, <1>2, <3>1, StepOfNode, StutterOrEnd
  <2>4. QED
    BY <2>1, <2>2, <2>3
<1>3. QED
  BY <1>1, <1>2 DEF Next

\* Both processes start at round 0 of the barrier, not arrived.
LEMMA InitMaps == Init => Barrier!Init
<1> SUFFICES ASSUME Init PROVE Barrier!Init
  OBVIOUS
<1>1. \A m \in Nodes : Announced(m) = FALSE
  BY DEF Init, InitWWT, InitEngine, Announced
<1>2. [m \in Nodes |-> Announced(m)] = [m \in Nodes |-> FALSE]
  BY <1>1, Zenon
<1>3. {m \in Nodes : ~Up(m)} = {}
  BY DEF Init, InitWWT, InitEngine, Up
<1>4. QED
  BY <1>2, <1>3 DEF Init, InitWWT, InitEngine, Barrier!Init

\* quanta_sync and wwt_sync_check are a barrier: no process leaves the boundary
\* of a round before both have announced it (pdes-wwt.c:480 "waits for others
\* sync, then resumes"), for every latency, ring size and guest.
THEOREM BoundaryIsBarrier ==
  ASSUME KeysSuffice, ShouldSync PROVE Spec => BarrierSafety
<1>1. Spec => []InductiveInv
  BY SyncInductive
<1>2. InductiveInv /\ InductiveInv' /\ [Next]_vars => [Barrier!Next]_(Barrier!vars)
  BY StepMaps
<1>3. QED
  BY <1>1, <1>2, InitMaps, PTL DEF Spec, BarrierSafety, Barrier!Safety
=============================================================================
