--------------------------- MODULE PdesExitProofs ---------------------------
(***************************************************************************)
(* HandshakeInv is inductive with barriers and a pause that waits: END of  *)
(* the master never overtakes PERMISSION, although both of its threads     *)
(* send either of them.  StopInv is inductive where no checkpoint is       *)
(* requested, with barriers and without, whatever flexus_api.pause does:   *)
(* nobody exits before both have simulated all their cycles.  Clocks only  *)
(* grow, so whatever a flag or a message tells about them stays true; each *)
(* step is checked for what it sets, and for what it says.                 *)
(***************************************************************************)
EXTENDS PdesTimeProofs

-----------------------------------------------------------------------------
(* Messages under way. *)

LEMMA CarriesNothing == \A t : ~Carries(<<>>, t)
BY DEF Carries

LEMMA CarriesOne == \A t \in MsgTypes, u \in MsgTypes, v \in Nat :
  Carries(<<Msg(t, v)>>, u) <=> t = u
BY DEF Carries, Msg

LEMMA CarriesAppend ==
  ASSUME NEW s \in Seq(Message), NEW m \in Message, NEW t
  PROVE  Carries(Append(s, m), t) <=> Carries(s, t) \/ m.type = t
<1>1. /\ Append(s, m)[Len(s) + 1] = m /\ Len(s) + 1 \in DOMAIN Append(s, m)
      /\ \A i \in DOMAIN s : i \in DOMAIN Append(s, m) /\ Append(s, m)[i] = s[i]
  OBVIOUS
<1>2. QED
  BY <1>1, AppendElements DEF Carries

LEMMA CarriesTail ==
  ASSUME NEW s \in Seq(Message), s # <<>>, NEW t
  PROVE  Carries(s, t) <=> Head(s).type = t \/ Carries(Tail(s), t)
<1>1. /\ 1 \in DOMAIN s /\ Head(s) = s[1]
      /\ \A i \in DOMAIN s : i # 1 => i - 1 \in DOMAIN Tail(s) /\ Tail(s)[i - 1] = s[i]
  OBVIOUS
<1>2. QED
  BY <1>1, TailElements DEF Carries

LEMMA CarriesJoined ==
  ASSUME NEW s \in Seq(Message), NEW u \in Seq(Message), NEW t
  PROVE  Carries(s \o u, t) => Carries(s, t) \/ Carries(u, t)
BY JoinElements DEF Carries

\* END may be appended to what carries PERMISSION.
LEMMA FirstAppend ==
  ASSUME NEW s \in Seq(Message), NEW m \in Message, PermissionFirst(s),
         m.type = "END" => Carries(s, "PERMISSION")
  PROVE  PermissionFirst(Append(s, m))
<1>1. /\ \A i \in DOMAIN s : i \in DOMAIN Append(s, m) /\ Append(s, m)[i] = s[i]
                             /\ i \in Nat /\ i <= Len(s)
      /\ Len(s) \in Nat
  OBVIOUS
<1> SUFFICES ASSUME NEW i \in DOMAIN Append(s, m), Append(s, m)[i].type = "END"
             PROVE  \E j \in DOMAIN Append(s, m) : j < i /\ Append(s, m)[j].type = "PERMISSION"
  BY DEF PermissionFirst
<1>2. CASE i \in DOMAIN s /\ Append(s, m)[i] = s[i]
  BY <1>1, <1>2 DEF PermissionFirst
<1>3. CASE i = Len(s) + 1 /\ Append(s, m)[i] = m
  BY <1>1, <1>3 DEF Carries
<1>4. QED
  BY <1>2, <1>3, AppendElements

\* Taking a message that is not PERMISSION keeps the order; END is never first.
LEMMA FirstTail ==
  ASSUME NEW s \in Seq(Message), s # <<>>, PermissionFirst(s)
  PROVE  /\ Head(s).type # "END"
         /\ Head(s).type # "PERMISSION" => PermissionFirst(Tail(s))
<1>1. /\ 1 \in DOMAIN s /\ Head(s) = s[1]
      /\ \A i \in DOMAIN s : i \in Nat /\ 1 <= i
                             /\ (i # 1 => i - 1 \in DOMAIN Tail(s) /\ Tail(s)[i - 1] = s[i])
  OBVIOUS
<1>2. Head(s).type # "END"
  BY <1>1 DEF PermissionFirst
<1>3. ASSUME Head(s).type # "PERMISSION" PROVE PermissionFirst(Tail(s))
  <2> SUFFICES ASSUME NEW i \in DOMAIN Tail(s), Tail(s)[i].type = "END"
               PROVE  \E j \in DOMAIN Tail(s) : j < i /\ Tail(s)[j].type = "PERMISSION"
    BY DEF PermissionFirst
  <2>1. i + 1 \in DOMAIN s /\ s[i + 1].type = "END"
    BY TailElements
  <2>2. PICK j \in DOMAIN s : j < i + 1 /\ s[j].type = "PERMISSION"
    BY <2>1 DEF PermissionFirst
  <2>3. j # 1 /\ i \in Nat
    BY <1>1, <1>3, <2>2
  <2>4. j - 1 \in DOMAIN Tail(s) /\ Tail(s)[j - 1].type = "PERMISSION"
    BY <1>1, <2>2, <2>3
  <2>5. j - 1 < i
    <3>1. j \in Nat
      BY <1>1, <2>2
    <3>2. QED
      BY <2>2, <2>3, <3>1
  <2>6. QED
    BY <2>4, <2>5
<1>4. QED
  BY <1>2, <1>3

LEMMA FirstNothing == PermissionFirst(<<>>)
BY DEF PermissionFirst

-----------------------------------------------------------------------------
(* What is known before a step, and what the functions that send say. *)

ExitBase ==
  /\ TypeOK /\ TypeOK' /\ BhInv /\ ClockInv /\ HandshakeInv
  /\ ShouldSync /\ PauseWaits

\* From quanta_sync to the next quantum Flexus is out of the engine.
LEMMA Standing ==
  ASSUME ExitBase, NEW n \in Nodes, main[n] \notin {"setup", "run"}
  PROVE  paused[n] /\ FlexusQuiet(n)
BY DEF ExitBase, ClockInv, HandshakeInv, GrantAlone

LEMMA Speech ==
  ASSUME TypeOK, NEW n \in Nodes
  PROVE  /\ \A t \in {"PERMISSION", "END"} :
              /\ ~Carries(<<>>, t)
              /\ ~Carries(DrainStart(n), t)
              /\ ~Carries(DrainStart(n) \o SyncMessage(n), t)
              /\ ~Carries(DrainMessages(n), t)
              /\ ~Carries(<<Msg("INTENT", 0)>>, t)
              /\ ~Carries(<<Msg("INIT_STEP", 0)>>, t)
         /\ ~Carries(<<Msg("PERMISSION", 0)>>, "END")
         /\ Carries(<<Msg("PERMISSION", 0)>>, "PERMISSION")
<1>1. round[n] \in Nat
  BY DEF TypeOK
<1>2. \A t \in {"PERMISSION", "END"} :
        /\ ~Carries(<<>>, t) /\ ~Carries(DrainStart(n), t) /\ ~Carries(SyncMessage(n), t)
        /\ ~Carries(DrainMessages(n), t)
  BY <1>1, CarriesNothing, CarriesOne DEF DrainStart, SyncMessage, DrainMessages, MsgTypes
<1>3. DrainStart(n) \in Seq(Message) /\ SyncMessage(n) \in Seq(Message)
  BY <1>1, DrainType, MsgSeq DEF SyncMessage, MsgTypes
<1>4. \A t \in {"PERMISSION", "END"} : ~Carries(DrainStart(n) \o SyncMessage(n), t)
  BY <1>2, <1>3, CarriesJoined
<1>5. QED
  BY <1>2, <1>4, CarriesOne DEF MsgTypes

LEMMA EndSpeech ==
  ASSUME NEW e \in ExitFields
  PROVE  /\ ~Carries(EndIfPermitted(e), "PERMISSION")
         /\ ~Carries(NotifyEndMessages(e), "PERMISSION")
         /\ Carries(EndIfPermitted(e), "END") => e.permitted
         /\ Carries(NotifyEndMessages(e), "END") => e.permitted
         /\ AfterEnd(e).permitted = e.permitted /\ AfterEnd(e).pairFin = e.pairFin
         /\ NotifyEndFields(e).permitted = e.permitted
         /\ NotifyEndFields(e).pairFin = e.pairFin
<1>1. ~Carries(EndIfPermitted(e), "PERMISSION") /\ (Carries(EndIfPermitted(e), "END") => e.permitted)
  BY CarriesNothing, CarriesOne DEF EndIfPermitted, MsgTypes
<1>2. AfterEnd(e).permitted = e.permitted /\ AfterEnd(e).pairFin = e.pairFin
  BY DEF AfterEnd, ExitFields
<1>3. AfterEnd(e) \in ExitFields
  BY EndType
<1>4. NotifyEndFields(e).permitted = e.permitted /\ NotifyEndFields(e).pairFin = e.pairFin
  BY <1>2, <1>3 DEF NotifyEndFields, ExitFields
<1>5. QED
  BY <1>1, <1>2, <1>4, CarriesNothing DEF NotifyEndMessages

-----------------------------------------------------------------------------
(* GrantAlone *)

\* A step of n that leaves Flexus and the pause alone.
LEMMA GrantKept ==
  ASSUME ExitBase, NEW n \in Nodes, UNCHANGED <<paused, flexus, flexusOut>>,
         \A m \in Nodes \ {n} : main'[m] = main[m] /\ mainOut'[m] = mainOut[m],
         n = Follower => main'[n] \notin {"permit", "grant", "end"},
         n = Master /\ Carries(mainOut'[n], "PERMISSION") => main'[n] = "end"
  PROVE  GrantAlone'
<1>1. Master \in Nodes /\ Follower \in Nodes /\ n \in {Master, Follower} /\ Master # Follower
  BY NodesAssumption DEF Nodes
<1>2. GrantAlone
  BY DEF ExitBase, HandshakeInv
<1>3. QED
  BY <1>1, <1>2 DEF GrantAlone, FlexusQuiet

\* A step of the Flexus of n outside a pause.
LEMMA GrantFlexus ==
  ASSUME ExitBase, NEW n \in Nodes, UNCHANGED <<main, mainOut, paused>>, ~paused[n],
         \A m \in Nodes \ {n} : flexus'[m] = flexus[m] /\ flexusOut'[m] = flexusOut[m],
         n = Follower => flexus'[n] \notin {"grant", "end"}
  PROVE  GrantAlone'
<1>1. Master \in Nodes /\ Follower \in Nodes /\ n \in {Master, Follower} /\ Master # Follower
  BY NodesAssumption DEF Nodes
<1>2. GrantAlone
  BY DEF ExitBase, HandshakeInv
<1>3. QED
  BY <1>1, <1>2 DEF GrantAlone, FlexusQuiet

-----------------------------------------------------------------------------
(* PermissionInv and EndInv *)

MessageInv == PermissionInv /\ EndInv

KeepsFlags ==
  \A m \in Nodes : ex'[m].permitted = ex[m].permitted /\ ex'[m].pairFin = ex[m].pairFin

\* The two processes.
LEMMA TwoNodes ==
  /\ Master \in Nodes /\ Follower \in Nodes /\ Master # Follower
  /\ Peer(Master) = Follower /\ Peer(Follower) = Master
  /\ \A n \in Nodes : n = Master \/ n = Follower
BY NodesAssumption DEF Nodes, Peer

\* A master that has permission and is not in the middle of telling has told.
LEMMA MasterTold ==
  ASSUME ExitBase, ex[Master].permitted, mainOut[Master] = <<>>, flexusOut[Master] = <<>>
  PROVE  Told
BY CarriesNothing DEF ExitBase, HandshakeInv, PermissionInv

\* No message is sent or received.
LEMMA NothingTold ==
  ASSUME ExitBase, KeepsFlags, UNCHANGED <<ring, mainOut, flexusOut>>
  PROVE  MessageInv'
<1>1. PermissionInv /\ EndInv
  BY DEF ExitBase, HandshakeInv
<1>2. QED
  BY <1>1, TwoNodes DEF MessageInv, PermissionInv, EndInv, Told, KeepsFlags

\* The main thread of n says s, which holds END only where it may.
LEMMA MainTells ==
  ASSUME ExitBase, NEW n \in Nodes, NEW s, KeepsFlags, UNCHANGED <<ring, flexusOut>>,
         mainOut[n] = <<>>, mainOut' = [mainOut EXCEPT ![n] = s],
         ~Carries(s, "PERMISSION"),
         Carries(s, "END") => ex[n].permitted /\ (n = Master => Told)
  PROVE  MessageInv'
<1>1. PermissionInv /\ EndInv
  BY DEF ExitBase, HandshakeInv
<1>2. mainOut'[n] = s /\ \A m \in Nodes \ {n} : mainOut'[m] = mainOut[m]
  BY DEF ExitBase, TypeOK
<1>3. ~Carries(mainOut[n], "PERMISSION") /\ ~Carries(mainOut[n], "END")
  BY CarriesNothing
<1>4. PermissionInv'
  BY <1>1, <1>2, <1>3, TwoNodes DEF PermissionInv, Told, KeepsFlags
<1>5. EndInv'
  BY <1>1, <1>2, <1>3, TwoNodes DEF EndInv, Told, KeepsFlags
<1>6. QED
  BY <1>4, <1>5 DEF MessageInv

\* The same for Flexus.
LEMMA FlexusTells ==
  ASSUME ExitBase, NEW n \in Nodes, NEW s, KeepsFlags, UNCHANGED <<ring, mainOut>>,
         flexusOut[n] = <<>>, flexusOut' = [flexusOut EXCEPT ![n] = s],
         ~Carries(s, "PERMISSION"),
         Carries(s, "END") => ex[n].permitted /\ (n = Master => Told)
  PROVE  MessageInv'
<1>1. PermissionInv /\ EndInv
  BY DEF ExitBase, HandshakeInv
<1>2. flexusOut'[n] = s /\ \A m \in Nodes \ {n} : flexusOut'[m] = flexusOut[m]
  BY DEF ExitBase, TypeOK
<1>3. ~Carries(flexusOut[n], "PERMISSION") /\ ~Carries(flexusOut[n], "END")
  BY CarriesNothing
<1>4. PermissionInv'
  BY <1>1, <1>2, <1>3, TwoNodes DEF PermissionInv, Told, KeepsFlags
<1>5. EndInv'
  BY <1>1, <1>2, <1>3, TwoNodes DEF EndInv, Told, KeepsFlags
<1>6. QED
  BY <1>4, <1>5 DEF MessageInv

\* The master grants permission: the flag is set and PERMISSION is on its way,
\* from the main thread or from Flexus.
LEMMA MasterGrants ==
  ASSUME ExitBase, NEW s, UNCHANGED ring,
         ex' = [ex EXCEPT ![Master].permitted = TRUE],
         Carries(s, "PERMISSION"), ~Carries(s, "END"),
         \/ /\ mainOut[Master] = <<>> /\ mainOut' = [mainOut EXCEPT ![Master] = s]
            /\ UNCHANGED flexusOut
         \/ /\ flexusOut[Master] = <<>> /\ flexusOut' = [flexusOut EXCEPT ![Master] = s]
            /\ UNCHANGED mainOut
  PROVE  MessageInv'
<1>1. PermissionInv /\ EndInv
  BY DEF ExitBase, HandshakeInv
<1>2. /\ ex'[Master].permitted /\ ex'[Master].pairFin = ex[Master].pairFin
      /\ ex'[Follower] = ex[Follower]
  BY TwoNodes DEF ExitBase, TypeOK, ExitFields
<1>3. ~Carries(<<>>, "PERMISSION") /\ ~Carries(<<>>, "END")
  BY CarriesNothing
<1>4. /\ mainOut'[Follower] = mainOut[Follower] /\ flexusOut'[Follower] = flexusOut[Follower]
      /\ \/ mainOut'[Master] = s /\ flexusOut'[Master] = flexusOut[Master]
         \/ flexusOut'[Master] = s /\ mainOut'[Master] = mainOut[Master]
  BY TwoNodes DEF ExitBase, TypeOK
<1>5. PermissionInv'
  BY <1>1, <1>2, <1>4, TwoNodes DEF PermissionInv, Told
<1>6. Carries(mainOut'[Master], "END") => Carries(mainOut[Master], "END")
  BY <1>4
<1>7. Carries(flexusOut'[Master], "END") => Carries(flexusOut[Master], "END")
  BY <1>4
<1>8. EndInv'
  BY <1>1, <1>2, <1>4, <1>6, <1>7, TwoNodes DEF EndInv, Told
<1>9. QED
  BY <1>5, <1>8 DEF MessageInv

\* A blocked message enters the ring: what the sender had, the ring has.
LEMMA MainSendTells ==
  ASSUME ExitBase, NEW n \in Nodes, MainSend(n) PROVE MessageInv'
<1> DEFINE h == Head(mainOut[n])
           p == Peer(n)
<1>1. PermissionInv /\ EndInv /\ TypeOK
  BY DEF ExitBase, HandshakeInv
<1>2. /\ UNCHANGED <<flexusOut, ex>> /\ mainOut[n] \in Seq(Message) /\ mainOut[n] # <<>>
      /\ mainOut'[n] = Tail(mainOut[n])
      /\ \A m \in Nodes \ {n} : mainOut'[m] = mainOut[m]
  BY <1>1 DEF MainSend, CommSend, TypeOK
<1>3. /\ p \in Nodes /\ ring[p] \in Seq(Message) /\ h \in Message
      /\ ring'[p] = Append(ring[p], h)
      /\ \A m \in Nodes \ {p} : ring'[m] = ring[m]
  <2>1. p \in Nodes /\ ring \in [Nodes -> Seq(Message)] /\ h \in Message
    BY <1>1, <1>2, PeerNodes DEF TypeOK
  <2>2. ring' = [ring EXCEPT ![p] = Append(ring[p], h)]
    BY DEF MainSend, CommSend
  <2>3. QED
    BY <2>1, <2>2
<1>4. /\ \A t : Carries(mainOut[n], t) <=> h.type = t \/ Carries(mainOut'[n], t)
      /\ \A t : Carries(ring'[p], t) <=> Carries(ring[p], t) \/ h.type = t
  BY <1>2, <1>3, CarriesTail, CarriesAppend
<1>5. PermissionFirst(ring[p]) /\ (h.type = "END" => Carries(ring[p], "PERMISSION"))
        => PermissionFirst(ring'[p])
  BY <1>3, FirstAppend
<1> HIDE DEF h, p
<1>6. CASE n = Master
  <2>1. p = Follower /\ ring'[Master] = ring[Master]
        /\ mainOut'[Follower] = mainOut[Follower]
    BY <1>2, <1>3, <1>6, TwoNodes DEF p
  <2>2. Told => Told'
    BY <1>2, <1>4, <2>1 DEF Told
  <2>3. PermissionInv'
    BY <1>1, <1>2, <1>4, <1>6, <2>1, TwoNodes DEF PermissionInv, Told
  <2>4. ex[Follower].permitted \/ PermissionFirst(ring'[Follower])
    BY <1>1, <1>4, <1>5, <1>6, <2>1 DEF EndInv, Told
  <2>5. EndInv'
    BY <1>1, <1>2, <1>4, <1>6, <2>1, <2>2, <2>4, TwoNodes DEF EndInv
  <2>6. QED
    BY <2>3, <2>5 DEF MessageInv
<1>7. CASE n = Follower
  <2>1. p = Master /\ ring'[Follower] = ring[Follower]
        /\ mainOut'[Master] = mainOut[Master]
    BY <1>2, <1>3, <1>7, TwoNodes DEF p
  <2>2. PermissionInv'
    BY <1>1, <1>2, <1>4, <1>7, <2>1, TwoNodes DEF PermissionInv, Told
  <2>3. EndInv'
    BY <1>1, <1>2, <1>4, <1>7, <2>1, TwoNodes DEF EndInv, Told
  <2>4. QED
    BY <2>2, <2>3 DEF MessageInv
<1>8. QED
  BY <1>6, <1>7, TwoNodes

LEMMA FlexusSendTells ==
  ASSUME ExitBase, NEW n \in Nodes, FlexusSend(n) PROVE MessageInv'
<1> DEFINE h == Head(flexusOut[n])
           p == Peer(n)
<1>1. PermissionInv /\ EndInv /\ TypeOK
  BY DEF ExitBase, HandshakeInv
<1>2. /\ UNCHANGED <<mainOut, ex>> /\ flexusOut[n] \in Seq(Message) /\ flexusOut[n] # <<>>
      /\ flexusOut'[n] = Tail(flexusOut[n])
      /\ \A m \in Nodes \ {n} : flexusOut'[m] = flexusOut[m]
  BY <1>1 DEF FlexusSend, CommSend, TypeOK
<1>3. /\ p \in Nodes /\ ring[p] \in Seq(Message) /\ h \in Message
      /\ ring'[p] = Append(ring[p], h)
      /\ \A m \in Nodes \ {p} : ring'[m] = ring[m]
  <2>1. p \in Nodes /\ ring \in [Nodes -> Seq(Message)] /\ h \in Message
    BY <1>1, <1>2, PeerNodes DEF TypeOK
  <2>2. ring' = [ring EXCEPT ![p] = Append(ring[p], h)]
    BY DEF FlexusSend, CommSend
  <2>3. QED
    BY <2>1, <2>2
<1>4. /\ \A t : Carries(flexusOut[n], t) <=> h.type = t \/ Carries(flexusOut'[n], t)
      /\ \A t : Carries(ring'[p], t) <=> Carries(ring[p], t) \/ h.type = t
  BY <1>2, <1>3, CarriesTail, CarriesAppend
<1>5. PermissionFirst(ring[p]) /\ (h.type = "END" => Carries(ring[p], "PERMISSION"))
        => PermissionFirst(ring'[p])
  BY <1>3, FirstAppend
<1> HIDE DEF h, p
<1>6. CASE n = Master
  <2>1. p = Follower /\ ring'[Master] = ring[Master]
        /\ flexusOut'[Follower] = flexusOut[Follower]
    BY <1>2, <1>3, <1>6, TwoNodes DEF p
  <2>2. Told => Told'
    BY <1>2, <1>4, <2>1 DEF Told
  <2>3. PermissionInv'
    BY <1>1, <1>2, <1>4, <1>6, <2>1, TwoNodes DEF PermissionInv, Told
  <2>4. ex[Follower].permitted \/ PermissionFirst(ring'[Follower])
    BY <1>1, <1>4, <1>5, <1>6, <2>1 DEF EndInv, Told
  <2>5. EndInv'
    BY <1>1, <1>2, <1>4, <1>6, <2>1, <2>2, <2>4, TwoNodes DEF EndInv
  <2>6. QED
    BY <2>3, <2>5 DEF MessageInv
<1>7. CASE n = Follower
  <2>1. p = Master /\ ring'[Follower] = ring[Follower]
        /\ flexusOut'[Master] = flexusOut[Master]
    BY <1>2, <1>3, <1>7, TwoNodes DEF p
  <2>2. PermissionInv'
    BY <1>1, <1>2, <1>4, <1>7, <2>1, TwoNodes DEF PermissionInv, Told
  <2>3. EndInv'
    BY <1>1, <1>2, <1>4, <1>7, <2>1, TwoNodes DEF EndInv, Told
  <2>4. QED
    BY <2>2, <2>3 DEF MessageInv
<1>8. QED
  BY <1>6, <1>7, TwoNodes

\* A message leaves the ring of n.
LEMMA Taken ==
  ASSUME ExitBase, NEW n \in Nodes, NEW t \in MsgTypes, Receiving(n, t)
  PROVE  /\ \A u : Carries(ring[n], u) <=> t = u \/ Carries(ring'[n], u)
         /\ \A m \in Nodes \ {n} : ring'[m] = ring[m]
         /\ PermissionFirst(ring[n]) => t # "END"
         /\ PermissionFirst(ring[n]) /\ t # "PERMISSION" => PermissionFirst(ring'[n])
         /\ mainOut[n] = <<>>
<1>1. /\ ring[n] \in Seq(Message) /\ ring[n] # <<>> /\ Head(ring[n]).type = t
      /\ ring'[n] = Tail(ring[n])
      /\ \A m \in Nodes \ {n} : ring'[m] = ring[m]
      /\ mainOut[n] = <<>>
  BY DEF ExitBase, TypeOK, Receiving, MainReady
<1>2. QED
  BY <1>1, CarriesTail, FirstTail

\* Any other than the two of the handshake that the invariant follows.
LEMMA TakesOther ==
  ASSUME ExitBase, NEW n \in Nodes, NEW t \in MsgTypes \ {"PERMISSION", "END"},
         Receiving(n, t), KeepsFlags, UNCHANGED <<mainOut, flexusOut>>
  PROVE  MessageInv'
<1>1. PermissionInv /\ EndInv
  BY DEF ExitBase, HandshakeInv
<1>2. /\ Carries(ring[n], "PERMISSION") <=> Carries(ring'[n], "PERMISSION")
      /\ Carries(ring[n], "END") <=> Carries(ring'[n], "END")
      /\ \A m \in Nodes \ {n} : ring'[m] = ring[m]
      /\ PermissionFirst(ring[n]) => PermissionFirst(ring'[n])
  BY Taken
<1>3. PermissionInv'
  BY <1>1, <1>2, TwoNodes DEF PermissionInv, Told, KeepsFlags
<1>4. EndInv'
  BY <1>1, <1>2, TwoNodes DEF EndInv, Told, KeepsFlags
<1>5. QED
  BY <1>3, <1>4 DEF MessageInv

\* Only the follower receives PERMISSION; its END may follow.
LEMMA TakesPermission ==
  ASSUME ExitBase, NEW n \in Nodes, RecvPermission(n)
  PROVE  MessageInv' /\ ~Carries(mainOut'[n], "PERMISSION")
<1> DEFINE e == [ex[n] EXCEPT !.permitted = TRUE]
<1>1. PermissionInv /\ EndInv /\ TypeOK
  BY DEF ExitBase, HandshakeInv
<1>2. /\ Receiving(n, "PERMISSION") /\ flexusOut' = flexusOut
      /\ ex' = [ex EXCEPT ![n] = AfterEnd(e)]
      /\ mainOut' = [mainOut EXCEPT ![n] = EndIfPermitted(e)]
  BY DEF RecvPermission
<1>3. /\ \A u : Carries(ring[n], u) <=> "PERMISSION" = u \/ Carries(ring'[n], u)
      /\ \A m \in Nodes \ {n} : ring'[m] = ring[m]
  BY <1>2, Taken DEF MsgTypes
<1>4. n = Follower
  BY <1>1, <1>3, TwoNodes DEF PermissionInv
<1>5. e \in ExitFields /\ e.permitted /\ e.pairFin = ex[n].pairFin
  <2>1. ex[n] \in ExitFields
    BY <1>1 DEF TypeOK
  <2>2. QED
    BY <2>1 DEF ExitFields
<1>6. /\ ~Carries(EndIfPermitted(e), "PERMISSION")
      /\ AfterEnd(e).permitted /\ AfterEnd(e).pairFin = ex[n].pairFin
  BY <1>5, EndSpeech
<1> HIDE DEF e
<1>7. /\ ex'[n].permitted /\ ex'[n].pairFin = ex[n].pairFin
      /\ mainOut'[n] = EndIfPermitted(e)
      /\ \A m \in Nodes \ {n} : ex'[m] = ex[m] /\ mainOut'[m] = mainOut[m]
  BY <1>1, <1>2, <1>6 DEF TypeOK
<1>8. ex[Master].permitted
  BY <1>1, <1>3, <1>4 DEF PermissionInv, Told
<1>9. PermissionInv'
  BY <1>1, <1>2, <1>3, <1>4, <1>6, <1>7, <1>8, TwoNodes DEF PermissionInv, Told
<1>10. EndInv'
  BY <1>1, <1>2, <1>3, <1>4, <1>7, <1>8, TwoNodes DEF EndInv, Told
<1>11. QED
  BY <1>6, <1>7, <1>9, <1>10 DEF MessageInv

\* The assertion of process_message: who receives END has permission.
LEMMA TakesEnd ==
  ASSUME ExitBase, NEW n \in Nodes, RecvEnd(n)
  PROVE  MessageInv' /\ UNCHANGED status
<1>1. PermissionInv /\ EndInv /\ TypeOK
  BY DEF ExitBase, HandshakeInv
<1>2. Receiving(n, "END") /\ UNCHANGED <<mainOut, flexusOut>>
  BY DEF RecvEnd
<1>3. /\ \A u : Carries(ring[n], u) <=> "END" = u \/ Carries(ring'[n], u)
      /\ \A m \in Nodes \ {n} : ring'[m] = ring[m]
      /\ ~PermissionFirst(ring[n])
  BY <1>2, Taken DEF MsgTypes
<1>4. ex[n].permitted
  <2>1. CASE n = Follower
    BY <1>1, <1>3, <2>1 DEF EndInv
  <2>2. CASE n = Master
    <3>1. ex[Follower].permitted
      BY <1>1, <1>3, <2>2, TwoNodes DEF EndInv
    <3>2. QED
      BY <1>1, <2>2, <3>1 DEF PermissionInv, Told
  <2>3. QED
    BY <2>1, <2>2, TwoNodes
<1>5. UNCHANGED status /\ ex' = [ex EXCEPT ![n].pairFin = TRUE]
  BY <1>4 DEF RecvEnd
<1>6. /\ \A m \in Nodes : ex'[m].permitted = ex[m].permitted
      /\ \A m \in Nodes \ {n} : ex'[m].pairFin = ex[m].pairFin
  BY <1>1, <1>5 DEF TypeOK, ExitFields
<1>7. PermissionInv'
  BY <1>1, <1>2, <1>3, <1>6, TwoNodes DEF PermissionInv, Told
<1>8. n = Follower => ex[Follower].permitted
  BY <1>4
<1>9. EndInv'
  BY <1>1, <1>2, <1>3, <1>4, <1>6, <1>8, TwoNodes DEF EndInv, Told
<1>10. QED
  BY <1>5, <1>7, <1>9 DEF MessageInv

-----------------------------------------------------------------------------
(* The steps of the main thread. *)

\* A step of n that says s, or nothing, and goes on where nobody grants.
LEMMA GrantSays ==
  ASSUME ExitBase, NEW n \in Nodes, UNCHANGED <<paused, flexus, flexusOut>>,
         NEW s, ~Carries(s, "PERMISSION"),
         UNCHANGED mainOut \/ mainOut' = [mainOut EXCEPT ![n] = s],
         \/ UNCHANGED main
         \/ /\ mainOut[n] = <<>>
            /\ \E c \in MainStates : main' = [main EXCEPT ![n] = c]
            /\ n = Follower => main'[n] \notin {"permit", "grant", "end"}
  PROVE  GrantAlone'
<1>1. TypeOK /\ GrantAlone
  BY DEF ExitBase, HandshakeInv
<1>2. \A m \in Nodes \ {n} : main'[m] = main[m] /\ mainOut'[m] = mainOut[m]
  BY <1>1 DEF TypeOK
<1>3. n = Follower => main'[n] \notin {"permit", "grant", "end"}
  BY <1>1 DEF GrantAlone
<1>4. mainOut'[n] = mainOut[n] \/ ~Carries(mainOut'[n], "PERMISSION")
  BY <1>1 DEF TypeOK
<1>5. n = Master /\ Carries(mainOut'[n], "PERMISSION") => main'[n] = "end"
  BY <1>1, <1>4, CarriesNothing DEF GrantAlone
<1>6. QED
  BY <1>2, <1>3, <1>5, GrantKept

\* Receiving a message of any type.
LEMMA ReceiveExit ==
  ASSUME ExitBase, NEW n \in Nodes, Receive(n)
  PROVE  /\ GrantAlone' /\ MessageInv'
         /\ \A m \in Nodes : status'[m] = status[m] \/ status'[m] # "abort_end"
<1> DEFINE Fine == \A m \in Nodes : status'[m] = status[m] \/ status'[m] # "abort_end"
<1>0. TypeOK
  BY DEF ExitBase
<1>1. UNCHANGED <<main, mainOut, paused, flexus, flexusOut>> => GrantAlone'
  BY CarriesNothing, GrantSays
<1>2. UNCHANGED ex => KeepsFlags
  BY DEF KeepsFlags
<1>3. CASE RecvNormal(n) \/ RecvSync(n)
  <2>1. \/ UNCHANGED status
        \/ status' = [status EXCEPT ![n] = "abort_past"]
        \/ status' = [status EXCEPT ![n] = "abort_round"]
    BY <1>3, Zenon DEF RecvNormal, RecvSync, Abort
  <2>2. Fine
    BY <1>0, <2>1 DEF TypeOK
  <2>3. QED
    BY <1>1, <1>2, <1>3, <2>2, TakesOther DEF RecvNormal, RecvSync, MsgTypes, cpu
<1>4. CASE RecvDrainStart(n) \/ RecvDrainEnd(n) \/ RecvInitStep(n)
  BY <1>1, <1>2, <1>4, TakesOther DEF RecvDrainStart, RecvDrainEnd, RecvInitStep, MsgTypes,
     ctl, cpu
<1>5. CASE RecvIntent(n)
  <2>1. KeepsFlags
    BY <1>0, <1>5 DEF RecvIntent, KeepsFlags, TypeOK, ExitFields
  <2>2. QED
    BY <1>1, <1>5, <2>1, TakesOther DEF RecvIntent, MsgTypes, ctl, cpu
<1>6. CASE RecvPermission(n)
  <2>1. MessageInv' /\ ~Carries(mainOut'[n], "PERMISSION")
    BY <1>6, TakesPermission
  <2>2. /\ \A m \in Nodes \ {n} : mainOut'[m] = mainOut[m]
        /\ UNCHANGED <<status, main, paused, flexus, flexusOut>>
    BY <1>0, <1>6 DEF RecvPermission, TypeOK, ctl, cpu
  <2>3. main[Follower] \notin {"permit", "grant", "end"}
    BY DEF ExitBase, HandshakeInv, GrantAlone
  <2>4. GrantAlone'
    BY <2>1, <2>2, <2>3, GrantKept
  <2>5. QED
    BY <2>1, <2>2, <2>4
<1>7. CASE RecvEnd(n)
  BY <1>1, <1>7, TakesEnd DEF RecvEnd, cpu
<1>8. CASE PollDone(n)
  BY <1>1, <1>2, <1>8, NothingTold DEF PollDone, wire, cpu
<1>9. QED
  BY <1>3, <1>4, <1>5, <1>6, <1>7, <1>8 DEF Receive

\* pause_bh, the timers and the checkpoint; quanta_sync waits for Flexus.
LEMMA DispatchExit ==
  ASSUME ExitBase, NEW n \in Nodes, Dispatch(n)
  PROVE  /\ GrantAlone' /\ MessageInv'
         /\ \A m \in Nodes : status'[m] = status[m] \/ status'[m] # "abort_end"
<1>0. TypeOK
  BY DEF ExitBase
<1>1. UNCHANGED <<main, mainOut, paused, flexus, flexusOut>> => GrantAlone'
  BY CarriesNothing, GrantSays
<1>2. UNCHANGED ex => KeepsFlags
  BY DEF KeepsFlags
<1>3. CASE HostPoll(n) \/ PauseBh(n) \/ Deliver(n)
  BY <1>1, <1>2, <1>3, NothingTold DEF HostPoll, PauseBh, Deliver, wire, cpu, ctl, wwt
<1>4. CASE SetupWWT(n) \/ SyncCheck(n)
  <2>1. mainOut[n] = <<>>
    BY <1>4 DEF SetupWWT, SyncCheck, InEventLoop, MainReady
  <2>2. \E c \in MainStates : main' = [main EXCEPT ![n] = c] /\ c \notin {"permit", "grant", "end"}
    BY <1>4 DEF SetupWWT, SyncCheck, MainStates
  <2>3. main'[n] \notin {"permit", "grant", "end"}
    BY <1>0, <2>2 DEF TypeOK
  <2>4. GrantAlone'
    BY <1>4, <2>1, <2>2, <2>3, CarriesNothing, GrantSays DEF SetupWWT, SyncCheck, wire, cpu
  <2>5. QED
    BY <1>2, <1>4, <2>4, NothingTold DEF SetupWWT, SyncCheck, wire
<1>5. CASE QuantaSync(n)
  <2>1. /\ main' = [main EXCEPT ![n] = "notify"] /\ paused' = [paused EXCEPT ![n] = TRUE]
        /\ FlexusQuiet(n) /\ mainOut[n] = <<>>
        /\ UNCHANGED <<flexus, ring, mainOut, flexusOut, ex>>
    BY <1>5 DEF QuantaSync, Pause, ExitBase, InEventLoop, MainReady, wire
  <2>2. /\ main'[n] = "notify" /\ \A m \in Nodes \ {n} : main'[m] = main[m] /\ paused'[m] = paused[m]
    BY <1>0, <2>1 DEF TypeOK
  <2>3. GrantAlone
    BY DEF ExitBase, HandshakeInv
  <2>4. GrantAlone'
    BY <2>1, <2>2, <2>3, TwoNodes, CarriesNothing DEF GrantAlone, FlexusQuiet
  <2>5. \/ UNCHANGED status \/ status' = [status EXCEPT ![n] = "abort_pause"]
    BY <1>5, Zenon DEF QuantaSync, Pause, Abort
  <2>6. QED
    BY <1>0, <1>2, <2>1, <2>4, <2>5, NothingTold DEF TypeOK
<1>6. CASE CheckpointBH(n)
  <2> DEFINE s == DrainMessages(n) \o NotifyEndMessages(ex[n])
  <2>1. main[n] \in {"armed", "closing"} /\ mainOut[n] = <<>>
    BY <1>6 DEF CheckpointBH, ExitBase, BhInv, InEventLoop, MainReady
  <2>2. ex[n] \in ExitFields /\ flexusOut[n] = <<>>
    BY <1>0, <2>1, Standing DEF TypeOK, FlexusQuiet
  <2>3. ~Carries(s, "PERMISSION") /\ (Carries(s, "END") => ex[n].permitted)
    <3>1. DrainMessages(n) \in Seq(Message) /\ NotifyEndMessages(ex[n]) \in Seq(Message)
      BY <1>0, <2>2, DrainType, EndType
    <3>2. ~Carries(DrainMessages(n), "PERMISSION") /\ ~Carries(DrainMessages(n), "END")
      BY <1>0, Speech
    <3>3. /\ ~Carries(NotifyEndMessages(ex[n]), "PERMISSION")
          /\ Carries(NotifyEndMessages(ex[n]), "END") => ex[n].permitted
      BY <2>2, EndSpeech
    <3>4. QED
      BY <3>1, <3>2, <3>3, CarriesJoined
  <2>4. /\ UNCHANGED mainOut \/ mainOut' = [mainOut EXCEPT ![n] = s]
        /\ UNCHANGED mainOut \/ n = Master
    BY <1>6, Zenon DEF CheckpointBH
  <2>5. UNCHANGED ex \/ ex' = [ex EXCEPT ![n] = NotifyEndFields(ex[n])]
    BY <1>6, Zenon DEF CheckpointBH
  <2>6. KeepsFlags
    BY <1>0, <2>2, <2>5, EndSpeech DEF KeepsFlags, TypeOK
  <2>7. UNCHANGED <<status, paused, flexus, flexusOut, ring>>
    BY <1>6 DEF CheckpointBH, cpu
  <2>8. MessageInv'
    <3>1. CASE UNCHANGED mainOut
      BY <2>6, <2>7, <3>1, NothingTold
    <3>2. CASE mainOut' = [mainOut EXCEPT ![n] = s] /\ n = Master
      <4>1. Carries(s, "END") => Told
        BY <2>1, <2>2, <2>3, <3>2, MasterTold
      <4>2. QED
        BY <2>1, <2>3, <2>6, <2>7, <3>2, <4>1, MainTells
    <3>3. QED
      BY <2>4, <3>1, <3>2
  <2>9. \E c \in MainStates : main' = [main EXCEPT ![n] = c] /\ c \notin {"permit", "grant", "end"}
    <3>1. main' = [main EXCEPT ![n] = "exiting"] \/ main' = [main EXCEPT ![n] = main[n]]
      BY <1>6, Zenon DEF CheckpointBH
    <3>2. QED
      BY <2>1, <3>1 DEF MainStates
  <2>10. main'[n] \notin {"permit", "grant", "end"}
    BY <1>0, <2>9 DEF TypeOK
  <2> HIDE DEF s
  <2>11. GrantAlone'
    BY <2>1, <2>3, <2>4, <2>7, <2>9, <2>10, GrantSays
  <2>12. QED
    BY <2>7, <2>8, <2>11
<1>7. QED
  BY <1>3, <1>4, <1>5, <1>6 DEF Dispatch

\* A step of wwt_sync_check that sends nothing.
LEMMA MovesExit ==
  ASSUME ExitBase, NEW n \in Nodes, mainOut[n] = <<>>,
         UNCHANGED <<ring, mainOut, flexusOut, paused, flexus, ex>>,
         NEW c \in MainStates, main' = [main EXCEPT ![n] = c],
         n = Follower => c \notin {"permit", "grant", "end"}
  PROVE  GrantAlone' /\ MessageInv'
<1>1. main'[n] = c
  BY DEF ExitBase, TypeOK
<1>2. KeepsFlags
  BY DEF KeepsFlags
<1>3. MessageInv'
  BY <1>2, NothingTold
<1>4. GrantAlone'
  BY <1>1, CarriesNothing, GrantSays
<1>5. QED
  BY <1>3, <1>4

\* A step that also sends s, from where Flexus stands still.
LEMMA SaysExit ==
  ASSUME ExitBase, NEW n \in Nodes, mainOut[n] = <<>>, main[n] \notin {"setup", "run"},
         NEW s, mainOut' = [mainOut EXCEPT ![n] = s],
         ~Carries(s, "PERMISSION"), Carries(s, "END") => ex[n].permitted,
         KeepsFlags, UNCHANGED <<ring, flexusOut, paused, flexus>>,
         NEW c \in MainStates, main' = [main EXCEPT ![n] = c],
         c \notin {"permit", "grant", "end"}
  PROVE  GrantAlone' /\ MessageInv'
<1>1. main'[n] = c
  BY DEF ExitBase, TypeOK
<1>2. GrantAlone'
  BY <1>1, GrantSays
<1>3. n = Master /\ ex[n].permitted => Told
  BY Standing, MasterTold DEF FlexusQuiet
<1>4. MessageInv'
  BY <1>3, MainTells
<1>5. QED
  BY <1>2, <1>4

\* The fields of the peer are left alone, and so are the two flags of n.
LEMMA KeepsFlagsAt ==
  ASSUME TypeOK, NEW n \in Nodes, NEW e, ex' = [ex EXCEPT ![n] = e],
         e.permitted = ex[n].permitted, e.pairFin = ex[n].pairFin
  PROVE  KeepsFlags
BY DEF KeepsFlags, TypeOK

\* The master's arm of wwt_sync_check: Flexus does not do the same meanwhile.
LEMMA PermitExit ==
  ASSUME ExitBase, NEW n \in Nodes, PermitGrant(n) \/ PermitEnd(n) \/ Permit(n)
  PROVE  GrantAlone' /\ MessageInv' /\ UNCHANGED status
<1>0. TypeOK
  BY DEF ExitBase
<1>1. /\ n = Master /\ n # Follower
      /\ paused[n] /\ FlexusQuiet(n) /\ mainOut[n] = <<>> /\ flexusOut[n] = <<>>
  <2>1. main[n] \in {"permit", "grant", "end"} /\ mainOut[n] = <<>>
    BY DEF Permit, PermitGrant, PermitEnd, MainAt, MainReady
  <2>2. main[Follower] \notin {"permit", "grant", "end"}
    BY DEF ExitBase, HandshakeInv, GrantAlone
  <2>3. QED
    BY <2>1, <2>2, Standing, TwoNodes DEF FlexusQuiet
<1>2. CASE Permit(n)
  BY <1>1, <1>2, MovesExit DEF Permit, MainStates, wire, cpu
<1>3. CASE PermitGrant(n)
  <2>1. MessageInv'
    BY <1>1, <1>3, MasterGrants, Speech, <1>0 DEF PermitGrant
  <2>2. /\ main'[n] = "end" /\ UNCHANGED <<status, paused, flexus, flexusOut>>
        /\ \A m \in Nodes \ {n} : main'[m] = main[m] /\ mainOut'[m] = mainOut[m]
    BY <1>0, <1>3 DEF PermitGrant, TypeOK, cpu
  <2>3. QED
    BY <1>1, <2>1, <2>2, GrantKept
<1>4. CASE PermitEnd(n)
  <2>1. ex[n] \in ExitFields
    BY <1>0 DEF TypeOK
  <2>2. KeepsFlags
    BY <1>0, <1>4, <2>1, EndSpeech, KeepsFlagsAt DEF PermitEnd
  <2>3. main[n] = "end" /\ main' = [main EXCEPT ![n] = "advance"]
    BY <1>4 DEF PermitEnd, MainAt
  <2>4. QED
    BY <1>1, <1>4, <2>1, <2>2, <2>3, EndSpeech, SaysExit DEF PermitEnd, MainStates, cpu
<1>5. QED
  BY <1>2, <1>3, <1>4

\* The end of a quantum: END goes out only from where Flexus stands still.
LEMMA BoundaryExit ==
  ASSUME ExitBase, NEW n \in Nodes, Boundary(n)
  PROVE  /\ GrantAlone' /\ MessageInv'
         /\ \A m \in Nodes : status'[m] = status[m] \/ status'[m] # "abort_end"
<1>0. TypeOK /\ ex[n] \in ExitFields
  BY DEF ExitBase, TypeOK
<1>1. UNCHANGED <<main, mainOut, paused, flexus, flexusOut>> => GrantAlone'
  BY CarriesNothing, GrantSays
<1>2. UNCHANGED ex => KeepsFlags
  BY DEF KeepsFlags
<1>3. n = Follower => n # Master
  BY TwoNodes
<1>4. CASE NotifyAndSync(n)
  <2>1. mainOut[n] = <<>> /\ main[n] = "notify"
    BY <1>4 DEF NotifyAndSync, MainAt, MainReady
  <2>2. QED
    BY <1>0, <1>2, <1>4, <2>1, Speech, SaysExit DEF NotifyAndSync, MainStates, cpu
<1>5. CASE CheckCount(n) \/ SpinOn(n) \/ BoundaryCheckpoint(n) \/ BoundaryPass(n)
  <2>1. mainOut[n] = <<>>
    BY <1>5 DEF CheckCount, SpinOn, BoundaryCheckpoint, BoundaryPass, MainAt, MainReady
  <2>2. \E c \in {"spin", "boundary", "check", "armed", "permit", "advance"} :
          main' = [main EXCEPT ![n] = c] /\ (n = Follower => c # "permit")
    BY <1>3, <1>5 DEF CheckCount, SpinOn, BoundaryCheckpoint, BoundaryPass
  <2>3. UNCHANGED <<status, wire, paused, flexus, ex>>
    BY <1>5 DEF CheckCount, SpinOn, BoundaryCheckpoint, BoundaryPass, cpu
  <2>4. QED
    BY <2>1, <2>2, <2>3, MovesExit DEF MainStates, wire
<1>6. CASE SpinStop(n)
  <2>1. ex[n].permitted
    BY <1>6 DEF SpinStop, ExitBase, HandshakeInv, EndInv
  <2>2. status' = [status EXCEPT ![n] = "exited"]
    BY <1>6, <2>1 DEF SpinStop, Abort
  <2>3. QED
    BY <1>0, <1>1, <1>2, <1>6, <2>2, NothingTold DEF SpinStop, wire, cpu, TypeOK
<1>7. CASE SpinDestroy(n)
  <2>1. mainOut[n] = <<>> /\ main[n] = "spin"
    BY <1>7 DEF SpinDestroy, MainAt, MainReady
  <2>2. /\ mainOut' = [mainOut EXCEPT ![n] = NotifyEndMessages(ex[n])]
        /\ ex' = [ex EXCEPT ![n] = NotifyEndFields(ex[n])]
        /\ UNCHANGED <<status, ring, flexusOut, paused, flexus>>
    BY <1>7 DEF SpinDestroy, Destroy, cpu
  <2>3. \E c \in {"closing", "exiting"} : main' = [main EXCEPT ![n] = c]
    BY <1>7, Zenon DEF SpinDestroy, Destroy, CloseAfterCheckpoint, CloseNow
  <2>4. KeepsFlags
    BY <1>0, <2>2, EndSpeech, KeepsFlagsAt
  <2>5. QED
    BY <1>0, <2>1, <2>2, <2>3, <2>4, EndSpeech, SaysExit DEF MainStates
<1>8. CASE BoundaryNotify(n)
  <2>1. mainOut[n] = <<>> /\ main[n] = "boundary"
    BY <1>8 DEF BoundaryNotify, MainAt, MainReady
  <2>2. main' = [main EXCEPT ![n] = "boundary"]
    BY <1>0, <1>8, <2>1 DEF BoundaryNotify, ctl, TypeOK
  <2>3. QED
    BY <1>0, <1>2, <1>8, <2>1, <2>2, Speech, SaysExit DEF BoundaryNotify, MainStates, ctl, cpu
<1>9. CASE BoundaryTooLate(n) \/ Exit(n)
  <2>1. \E s \in {"abort_ckpt", "exited"} : status' = [status EXCEPT ![n] = s]
    BY <1>9 DEF BoundaryTooLate, Exit, Abort
  <2>2. QED
    BY <1>0, <1>1, <1>2, <1>9, <2>1, NothingTold DEF BoundaryTooLate, Exit, wire, cpu, TypeOK
<1>10. CASE Advance(n)
  <2>1. /\ main'[n] = "run" /\ mainOut[n] = <<>> /\ ~paused'[n]
        /\ \A m \in Nodes \ {n} : main'[m] = main[m] /\ paused'[m] = paused[m]
        /\ UNCHANGED <<status, ring, mainOut, flexus, flexusOut, ex>>
    BY <1>0, <1>10 DEF Advance, Play, MainAt, MainReady, TypeOK, ExitBase, wire
  <2>2. GrantAlone
    BY DEF ExitBase, HandshakeInv
  <2>3. GrantAlone'
    BY <2>1, <2>2, TwoNodes, CarriesNothing DEF GrantAlone, FlexusQuiet
  <2>4. QED
    BY <1>2, <2>1, <2>3, NothingTold
<1>11. QED
  BY <1>4, <1>5, <1>6, <1>7, <1>8, <1>9, <1>10, PermitExit DEF Boundary

\* A blocked message that enters the ring.
LEMMA MainSendExit == ASSUME ExitBase, NEW n \in Nodes, MainSend(n) PROVE GrantAlone'
<1>1. /\ TypeOK /\ mainOut[n] \in Seq(Message) /\ mainOut[n] # <<>>
      /\ mainOut'[n] = Tail(mainOut[n])
      /\ \A m \in Nodes \ {n} : mainOut'[m] = mainOut[m]
      /\ UNCHANGED <<main, paused, flexus, flexusOut>>
  BY DEF ExitBase, TypeOK, MainSend, CommSend, ctl, cpu
<1>2. Carries(mainOut'[n], "PERMISSION") => Carries(mainOut[n], "PERMISSION")
  BY <1>1, CarriesTail
<1>3. GrantAlone
  BY DEF ExitBase, HandshakeInv
<1>4. QED
  BY <1>1, <1>2, <1>3, GrantKept DEF GrantAlone

-----------------------------------------------------------------------------
(* The steps of Flexus, of the guest and of the clock. *)

\* A step of Flexus that tells the peer s, or nothing, and takes no part in the
\* follower's place.
LEMMA FlexusSaysExit ==
  ASSUME ExitBase, NEW n \in Nodes, ~paused[n], flexusOut[n] = <<>>,
         UNCHANGED <<ring, mainOut, main, paused>>, KeepsFlags,
         NEW s, ~Carries(s, "PERMISSION"),
         Carries(s, "END") => ex[n].permitted /\ (n = Master => Told),
         UNCHANGED flexusOut \/ flexusOut' = [flexusOut EXCEPT ![n] = s],
         NEW f \in FlexusStates, flexus' = [flexus EXCEPT ![n] = f],
         n = Follower => f \notin {"grant", "end"}
  PROVE  GrantAlone' /\ MessageInv'
<1>1. /\ flexus'[n] = f
      /\ \A m \in Nodes \ {n} : flexus'[m] = flexus[m] /\ flexusOut'[m] = flexusOut[m]
  BY DEF ExitBase, TypeOK
<1>2. GrantAlone'
  BY <1>1, GrantFlexus
<1>3. MessageInv'
  BY NothingTold, FlexusTells
<1>4. QED
  BY <1>2, <1>3

LEMMA FlexusExit ==
  ASSUME ExitBase, NEW n \in Nodes, FlexusThread(n) \/ FinishInitiate(n)
  PROVE  /\ GrantAlone' /\ MessageInv'
         /\ \A m \in Nodes : status'[m] = status[m] \/ status'[m] # "abort_end"
<1>0. TypeOK /\ GrantAlone /\ ex[n] \in ExitFields
  BY DEF ExitBase, HandshakeInv, TypeOK
<1>1. UNCHANGED ex => KeepsFlags
  BY DEF KeepsFlags
<1>2. \A t : ~Carries(<<>>, t)
  BY CarriesNothing
<1>3. n = Follower => n # Master
  BY TwoNodes
<1>4. CASE FlexusSend(n)
  <2>1. /\ flexusOut[n] # <<>> /\ UNCHANGED <<status, main, mainOut, paused, flexus>>
        /\ \A m \in Nodes \ {n} : flexusOut'[m] = flexusOut[m]
    BY <1>0, <1>4 DEF FlexusSend, CommSend, TypeOK, ctl, cpu
  <2>2. ~paused[n]
    BY <1>0, <2>1 DEF GrantAlone, FlexusQuiet
  <2>3. n = Follower => flexus'[n] \notin {"grant", "end"}
    BY <1>0, <2>1 DEF GrantAlone
  <2>4. GrantAlone'
    BY <2>1, <2>2, <2>3, GrantFlexus
  <2>5. QED
    BY <1>4, <2>1, <2>4, FlexusSendTells
<1>5. CASE CanStop(n)
  <2> DEFINE s == IF ex[n].intent THEN <<>> ELSE <<Msg("INTENT", 0)>>
  <2>1. /\ UNCHANGED <<status, ring, mainOut, main, paused>> /\ ~paused[n] /\ flexusOut[n] = <<>>
        /\ UNCHANGED ex \/ ex' = [ex EXCEPT ![n].intent = TRUE]
        /\ UNCHANGED flexusOut \/ flexusOut' = [flexusOut EXCEPT ![n] = s]
    BY <1>5 DEF CanStop, FlexusAt, cpu
  <2>2. ~Carries(s, "PERMISSION") /\ ~Carries(s, "END")
    BY <1>0, Speech
  <2>3. KeepsFlags
    <3>1. [ex[n] EXCEPT !.intent = TRUE].permitted = ex[n].permitted
          /\ [ex[n] EXCEPT !.intent = TRUE].pairFin = ex[n].pairFin
      BY <1>0 DEF ExitFields
    <3>2. QED
      BY <1>0, <1>1, <2>1, <3>1, KeepsFlagsAt
  <2>4. \E f \in {"grant", "answer"} :
          flexus' = [flexus EXCEPT ![n] = f] /\ (n = Follower => f # "grant")
    BY <1>3, <1>5 DEF CanStop
  <2> HIDE DEF s
  <2>5. QED
    BY <2>1, <2>2, <2>3, <2>4, FlexusSaysExit DEF FlexusStates
<1>6. CASE CanStopGrant(n)
  <2>1. /\ flexus[n] = "grant" /\ flexusOut[n] = <<>> /\ n = Master /\ ~paused[n]
        /\ UNCHANGED <<status, ring, mainOut, main, paused>>
        /\ ex' = [ex EXCEPT ![n].permitted = TRUE]
        /\ flexusOut' = [flexusOut EXCEPT ![n] = <<Msg("PERMISSION", 0)>>]
        /\ \A m \in Nodes \ {n} : flexus'[m] = flexus[m] /\ flexusOut'[m] = flexusOut[m]
    <3>1. flexus[n] = "grant" /\ flexusOut[n] = <<>>
      BY <1>6 DEF CanStopGrant, FlexusAt
    <3>2. n = Master /\ ~paused[n]
      BY <1>0, <3>1, TwoNodes DEF GrantAlone, FlexusQuiet
    <3>3. QED
      BY <1>0, <1>6, <3>1, <3>2 DEF CanStopGrant, TypeOK, cpu
  <2>2. GrantAlone'
    BY <1>3, <2>1, GrantFlexus
  <2>3. MessageInv'
    BY <1>0, <2>1, Speech, MasterGrants
  <2>4. QED
    BY <2>1, <2>2, <2>3
<1>7. CASE CanStopEnd(n)
  <2>1. flexus[n] = "end" /\ flexusOut[n] = <<>>
    BY <1>7 DEF CanStopEnd, FlexusAt
  <2>2. n = Master /\ ~paused[n]
    BY <1>0, <2>1, TwoNodes DEF GrantAlone, FlexusQuiet
  <2>3. ~Carries(mainOut[Master], "PERMISSION")
    BY <1>0, <2>2, Standing DEF GrantAlone
  <2>4. ex[n].permitted => Told
    BY <1>2, <2>1, <2>2, <2>3 DEF ExitBase, HandshakeInv, PermissionInv
  <2>5. KeepsFlags
    BY <1>0, <1>7, EndSpeech, KeepsFlagsAt DEF CanStopEnd
  <2>6. QED
    BY <1>0, <1>3, <1>7, <2>1, <2>2, <2>4, <2>5, EndSpeech, FlexusSaysExit DEF CanStopEnd,
       FlexusStates, cpu
<1>8. CASE CanStopAnswer(n)
  <2>1. flexus[n] = "answer"
    BY <1>8 DEF CanStopAnswer, FlexusAt
  <2>2. ~paused[n] /\ flexusOut[n] = <<>>
    BY <1>0, <1>8, <2>1 DEF GrantAlone, FlexusQuiet, CanStopAnswer, FlexusAt
  <2>3. KeepsFlags
    BY <1>0, <1>8 DEF KeepsFlags, CanStopAnswer, TypeOK, ExitFields
  <2>4. UNCHANGED status \/ status' = [status EXCEPT ![n] = "exited"]
    BY <1>8, Zenon DEF CanStopAnswer
  <2>5. \A m \in Nodes : status'[m] = status[m] \/ status'[m] # "abort_end"
    BY <1>0, <2>4 DEF TypeOK
  <2>6. QED
    BY <1>2, <1>8, <2>2, <2>3, <2>5, FlexusSaysExit DEF CanStopAnswer, FlexusStates, wire, cpu
<1>9. CASE SetCheckpointFlags(n) \/ SetCheckpointRound(n)
  <2>1. /\ flexus[n] \in {"setflags", "setround"} /\ flexusOut[n] = <<>>
        /\ UNCHANGED <<status, wire, main, paused, ex>>
        /\ \E f \in {"setround", "idle"} : flexus' = [flexus EXCEPT ![n] = f]
    BY <1>9 DEF SetCheckpointFlags, SetCheckpointRound, FlexusAt, cpu
  <2>2. ~paused[n]
    BY <1>0, <2>1 DEF GrantAlone, FlexusQuiet
  <2>3. QED
    BY <1>1, <1>2, <2>1, <2>2, FlexusSaysExit DEF FlexusStates, wire
<1>10. CASE FinishInitiate(n)
  <2>1. /\ ~paused[n] /\ flexusOut[n] = <<>> /\ flexus[n] = "idle"
        /\ UNCHANGED <<status, ring, mainOut, main, paused, ex>>
    BY <1>10 DEF FinishInitiate, FlexusAt, cpu
  <2>2. UNCHANGED flexusOut \/ flexusOut' = [flexusOut EXCEPT ![n] = <<Msg("INIT_STEP", 0)>>]
    BY <1>10, Zenon DEF FinishInitiate
  <2>3. \E f \in {"setflags", "idle"} : flexus' = [flexus EXCEPT ![n] = f]
    <3>1. flexus = [flexus EXCEPT ![n] = flexus[n]]
      BY <1>0 DEF TypeOK
    <3>2. \/ flexus' = [flexus EXCEPT ![n] = "setflags"]
          \/ flexus' = [flexus EXCEPT ![n] = "idle"]
          \/ UNCHANGED flexus
      BY <1>10, Zenon DEF FinishInitiate
    <3>3. QED
      BY <2>1, <3>1, <3>2
  <2>4. QED
    BY <1>0, <1>1, <2>1, <2>2, <2>3, Speech, FlexusSaysExit DEF FlexusStates
<1>11. QED
  BY <1>4, <1>5, <1>6, <1>7, <1>8, <1>9, <1>10 DEF FlexusThread

\* The clock stands still in a pause, and reaching the stop cycle says nothing.
LEMMA TickExit ==
  ASSUME ExitBase, NEW n \in Nodes, Tick(n) PROVE GrantAlone' /\ MessageInv' /\ UNCHANGED status
<1>0. TypeOK /\ KeepsFlags
  BY DEF ExitBase, Tick, KeepsFlags
<1>1. /\ UNCHANGED <<status, wire, main, paused>> /\ ~paused[n] /\ flexusOut[n] = <<>>
      /\ flexus[n] = "idle"
  BY DEF Tick, wire, cpu
<1>2. \E f \in {"ask", "idle"} : flexus' = [flexus EXCEPT ![n] = f]
  BY <1>1 DEF Tick
<1>3. QED
  BY <1>0, <1>1, <1>2, CarriesNothing, FlexusSaysExit DEF FlexusStates, wire

\* A packet is neither of the two messages.
LEMMA SendPacketExit ==
  ASSUME ExitBase, NEW n \in Nodes, SendPacket(n)
  PROVE  GrantAlone' /\ MessageInv' /\ UNCHANGED status
<1> DEFINE s == <<Packet(n)>>
<1>0. TypeOK /\ KeepsFlags
  BY DEF ExitBase, SendPacket, KeepsFlags
<1>1. /\ UNCHANGED <<status, ring, main, paused, flexus, flexusOut>> /\ mainOut[n] = <<>>
      /\ mainOut' = [mainOut EXCEPT ![n] = s]
  BY DEF SendPacket, InEventLoop, MainReady, ctl, cpu
<1>2. now[n] + Quantum \in Nat
  BY <1>0, SizeAssumption DEF TypeOK
<1>3. ~Carries(s, "PERMISSION") /\ ~Carries(s, "END")
  BY <1>2, CarriesOne DEF Packet, MsgTypes
<1> HIDE DEF s
<1>4. QED
  BY <1>0, <1>1, <1>3, GrantSays, MainTells

-----------------------------------------------------------------------------
(* The theorems. *)

LEMMA HandshakeInitial == Init => HandshakeInv
<1> SUFFICES ASSUME Init PROVE HandshakeInv
  OBVIOUS
<1>1. /\ \A n \in Nodes : /\ ring[n] = <<>> /\ mainOut[n] = <<>> /\ flexusOut[n] = <<>>
                         /\ ~paused[n] /\ main[n] = "setup" /\ flexus[n] = "idle"
                         /\ ~ex[n].permitted /\ ~ex[n].pairFin /\ status[n] = "up"
  BY DEF Init, InitWWT, InitEngine
<1>2. GrantAlone
  BY <1>1, TwoNodes, CarriesNothing DEF GrantAlone
<1>3. PermissionInv
  BY <1>1, TwoNodes, CarriesNothing DEF PermissionInv, Told
<1>4. EndInv
  BY <1>1, TwoNodes, CarriesNothing, FirstNothing DEF EndInv
<1>5. QED
  BY <1>1, <1>2, <1>3, <1>4 DEF HandshakeInv, EndAfterPermission

\* Every step keeps it.
LEMMA HandshakeStep ==
  ASSUME ShouldSync, PauseWaits, TimedInv, HandshakeInv, [Next]_vars
  PROVE  HandshakeInv'
<1> DEFINE Kept == /\ GrantAlone' /\ MessageInv'
                   /\ \A m \in Nodes : status'[m] = status[m] \/ status'[m] # "abort_end"
<1>0. ExitBase
  BY TypeStep DEF ExitBase, TimedInv, InductiveInv, SyncInv, TimeInv
<1>1. CASE UNCHANGED vars
  BY <1>1 DEF vars, ctl, wire, cpu, HandshakeInv, GrantAlone, PermissionInv, EndInv,
     EndAfterPermission, Told, FlexusQuiet
<1>2. ASSUME NEW n \in Nodes, MainThread(n) PROVE Kept
  <2>1. CASE MainSend(n)
    BY <1>0, <2>1, MainSendExit, MainSendTells DEF MainSend, ctl
  <2>2. QED
    BY <1>0, <1>2, <2>1, ReceiveExit, DispatchExit, BoundaryExit DEF MainThread
<1>3. ASSUME NEW n \in Nodes, FlexusThread(n) \/ FinishInitiate(n) PROVE Kept
  BY <1>0, <1>3, FlexusExit
<1>4. ASSUME NEW n \in Nodes, Tick(n) \/ SendPacket(n) PROVE Kept
  BY <1>0, <1>4, TickExit, SendPacketExit
<1>5. CASE Kept
  BY <1>5 DEF HandshakeInv, MessageInv, EndAfterPermission
<1>6. QED
  BY <1>1, <1>2, <1>3, <1>4, <1>5 DEF Next

\* With barriers and a flexus_api.pause that waits, the messages of the handshake
\* and the flags agree in every reachable state (pdes-engine.c:104-137, 219-229,
\* 459-484, pdes-wwt.c:427-440).
THEOREM HandshakeInductive ==
  ASSUME KeysSuffice, ShouldSync, PauseWaits PROVE Spec => []HandshakeInv
<1>1. Init => HandshakeInv
  BY HandshakeInitial
<1>2. TimedInv /\ HandshakeInv /\ [Next]_vars => HandshakeInv'
  BY HandshakeStep
<1>3. QED
  BY <1>1, <1>2, TimedInductive, PTL DEF Spec

\* pdes-engine.c:224 and pdes-wwt.c:357: nobody receives END, or finds its peer
\* gone at a barrier, without having permission to exit.
THEOREM PermissionBeforeEnd ==
  ASSUME KeysSuffice, ShouldSync, PauseWaits PROVE Spec => []EndAfterPermission
<1>1. HandshakeInv => EndAfterPermission
  BY DEF HandshakeInv
<1>2. QED
  BY <1>1, HandshakeInductive, PTL

-----------------------------------------------------------------------------
(* The stop cycles. *)

StopBase == TypeOK /\ TypeOK' /\ InitNodes = {} /\ StopInv

-----------------------------------------------------------------------------
(* What a step adds to the messages under way. *)

\* n has said s in this step and nobody else has said anything.
Adds(n, s) ==
  \A m \in Nodes : \A t :
    UnderWay(m, t)' => UnderWay(m, t) \/ (m = n /\ Carries(s, t))

LEMMA AddsNothing ==
  ASSUME NEW n, UNCHANGED wire PROVE Adds(n, <<>>)
BY DEF Adds, UnderWay, wire

LEMMA AddsMain ==
  ASSUME TypeOK, NEW n \in Nodes, NEW s, UNCHANGED <<ring, flexusOut>>,
         mainOut' = [mainOut EXCEPT ![n] = s]
  PROVE  Adds(n, s)
BY DEF Adds, UnderWay, TypeOK

LEMMA AddsFlexus ==
  ASSUME TypeOK, NEW n \in Nodes, NEW s, UNCHANGED <<ring, mainOut>>,
         flexusOut' = [flexusOut EXCEPT ![n] = s]
  PROVE  Adds(n, s)
BY DEF Adds, UnderWay, TypeOK

\* A message that goes from the sender into the ring is not a new one.
LEMMA AddsSent ==
  ASSUME TypeOK, NEW n \in Nodes, MainSend(n) \/ FlexusSend(n) PROVE Adds(n, <<>>)
<1> SUFFICES ASSUME NEW m \in Nodes, NEW t, UnderWay(m, t)' PROVE UnderWay(m, t)
  BY DEF Adds
<1>1. Peer(n) \in Nodes /\ Peer(m) \in Nodes /\ (m # n => Peer(m) # Peer(n))
  BY TwoNodes
<1>2. ASSUME NEW out \in [Nodes -> Seq(Message)], CommSend(n, out)
      PROVE  /\ \A p \in Nodes \ {Peer(n)} : ring'[p] = ring[p]
             /\ Carries(ring'[Peer(n)], t) => Carries(ring[Peer(n)], t) \/ Carries(out[n], t)
             /\ Carries(Tail(out[n]), t) => Carries(out[n], t)
  <2>1. /\ out[n] \in Seq(Message) /\ out[n] # <<>> /\ Head(out[n]) \in Message
        /\ ring[Peer(n)] \in Seq(Message)
        /\ ring'[Peer(n)] = Append(ring[Peer(n)], Head(out[n]))
        /\ \A p \in Nodes \ {Peer(n)} : ring'[p] = ring[p]
    <3>1. out[n] \in Seq(Message) /\ out[n] # <<>> /\ ring[Peer(n)] \in Seq(Message)
      BY <1>1, <1>2 DEF CommSend, TypeOK
    <3>2. Head(out[n]) \in Message
      BY <3>1
    <3>3. QED
      BY <1>1, <1>2, <3>1, <3>2 DEF CommSend, TypeOK
  <2>2. QED
    BY <2>1, CarriesAppend, CarriesTail
<1>3. CASE MainSend(n)
  <2>1. /\ CommSend(n, mainOut) /\ mainOut \in [Nodes -> Seq(Message)]
        /\ mainOut'[n] = Tail(mainOut[n]) /\ (m # n => mainOut'[m] = mainOut[m])
        /\ flexusOut' = flexusOut
    BY <1>3 DEF MainSend, TypeOK
  <2>2. QED
    BY <1>1, <1>2, <2>1 DEF UnderWay
<1>4. CASE FlexusSend(n)
  <2>1. /\ CommSend(n, flexusOut) /\ flexusOut \in [Nodes -> Seq(Message)]
        /\ flexusOut'[n] = Tail(flexusOut[n]) /\ (m # n => flexusOut'[m] = flexusOut[m])
        /\ mainOut' = mainOut
    BY <1>4 DEF FlexusSend, TypeOK
  <2>2. QED
    BY <1>1, <1>2, <2>1 DEF UnderWay
<1>5. QED
  BY <1>3, <1>4

\* What is received was said; the receiver may answer s.
LEMMA AddsReceived ==
  ASSUME TypeOK, NEW n \in Nodes, NEW t \in MsgTypes, Receiving(n, t), NEW s,
         UNCHANGED flexusOut,
         mainOut' = [mainOut EXCEPT ![n] = s] \/ (UNCHANGED mainOut /\ s = <<>>)
  PROVE  Adds(n, s) /\ UnderWay(Peer(n), t)
<1>1. /\ ring[n] \in Seq(Message) /\ ring[n] # <<>> /\ Head(ring[n]).type = t
      /\ ring'[n] = Tail(ring[n])
      /\ \A m \in Nodes \ {n} : ring'[m] = ring[m]
  BY DEF TypeOK, Receiving
<1>2. /\ Carries(ring[n], t)
      /\ \A m \in Nodes : \A u : Carries(ring'[m], u) => Carries(ring[m], u)
  BY <1>1, CarriesTail
<1>3. \A m \in Nodes : \A u : Carries(mainOut'[m], u)
        => Carries(mainOut[m], u) \/ (m = n /\ Carries(s, u))
  BY DEF TypeOK
<1>4. Peer(Peer(n)) = n /\ \A m \in Nodes : Peer(m) \in Nodes
  BY TwoNodes
<1>5. QED
  BY <1>2, <1>3, <1>4 DEF Adds, UnderWay

-----------------------------------------------------------------------------
(* What has to hold of a step of n that says s. *)

\* It asks to stop, and says so, at the stop cycle.
StepAsks(n, s) ==
  /\ flexus'[n] \in {"ask", "grant", "end", "answer"} => Reached(n)'
  /\ ex'[n].ready \/ Carries(s, "INTENT") => Reached(n)'
  /\ ex'[n].nbrs # 0 => Reached(Peer(n))'

\* It grants, has permission or leaves when both are there.
StepGrants(n, s) ==
  \/ ex'[n].permitted
  \/ Carries(s, "PERMISSION")
  \/ main'[n] \in {"grant", "closing", "exiting"}
  \/ flexus'[n] \in {"grant", "end"}
  \/ status'[n] = "exited"
  => BothReached

StepOwesNothing(n, s) ==
  /\ ~ck'[n].needs /\ ~ck'[n].masterInit /\ ck'[n].bh = "none"
  /\ flexus'[n] \notin {"setflags", "setround"}
  /\ ~Carries(s, "DRAIN_START")

Others(n) ==
  \A m \in Nodes \ {n} :
    /\ flexus'[m] = flexus[m] /\ ex'[m] = ex[m] /\ main'[m] = main[m]
    /\ status'[m] = status[m] /\ ck'[m] = ck[m]

LEMMA StopKept ==
  ASSUME StopBase, NEW n \in Nodes, NEW s, Adds(n, s), Others(n),
         \A m \in Nodes : Reached(m) => Reached(m)',
         StepAsks(n, s), StepGrants(n, s), StepOwesNothing(n, s)
  PROVE  StopInv'
<1> SUFFICES ASSUME NEW m \in Nodes
             PROVE  AskInv(m)' /\ GrantInv(m)' /\ LeaveInv(m)' /\ NoRequest(m)'
  BY DEF StopInv, StopBase
<1>1. AskInv(m) /\ GrantInv(m) /\ LeaveInv(m) /\ NoRequest(m)
  BY DEF StopBase, StopInv
<1>2. BothReached => BothReached'
  BY DEF BothReached
<1>3. \A t : UnderWay(m, t)' => UnderWay(m, t) \/ (m = n /\ Carries(s, t))
  BY DEF Adds
<1>4. Peer(m) \in Nodes
  BY TwoNodes
<1>5. m # n => /\ flexus'[m] = flexus[m] /\ ex'[m] = ex[m] /\ main'[m] = main[m]
               /\ status'[m] = status[m] /\ ck'[m] = ck[m]
  BY DEF Others
<1>6. AskInv(m)'
  BY <1>1, <1>3, <1>4, <1>5 DEF AskInv, StepAsks
<1>7. GrantInv(m)'
  BY <1>1, <1>2, <1>3, <1>5 DEF GrantInv, StepGrants
<1>8. LeaveInv(m)'
  BY <1>1, <1>2, <1>5 DEF LeaveInv, StepGrants
<1>9. NoRequest(m)'
  BY <1>1, <1>3, <1>5 DEF NoRequest, StepOwesNothing
<1>10. QED
  BY <1>6, <1>7, <1>8, <1>9

\* What the invariant says of n.
LEMMA StopAt ==
  ASSUME StopBase, NEW n \in Nodes
  PROVE  /\ AskInv(n) /\ GrantInv(n) /\ LeaveInv(n) /\ NoRequest(n)
         /\ AskInv(Peer(n)) /\ GrantInv(Peer(n)) /\ NoRequest(Peer(n))
         /\ Peer(n) \in Nodes /\ Peer(Peer(n)) = n
BY TwoNodes DEF StopBase, StopInv

\* Nothing that the handshake has asked for or granted changes at n.
KeepsAsking(n) ==
  /\ ex'[n].ready = ex[n].ready /\ ex'[n].nbrs = ex[n].nbrs
  /\ ex'[n].permitted = ex[n].permitted

\* Whoever asks for nothing new.
LEMMA StopQuiet ==
  ASSUME StopBase, NEW n \in Nodes, NEW s, Adds(n, s), Others(n),
         UNCHANGED <<now, stopAt, flexus>>, KeepsAsking(n),
         \A t \in {"INTENT", "PERMISSION", "DRAIN_START"} : ~Carries(s, t),
         main'[n] \in {"grant", "closing", "exiting"} =>
           main'[n] = main[n] \/ BothReached,
         status'[n] = "exited" => status[n] = "exited" \/ BothReached,
         /\ ck'[n].needs = ck[n].needs /\ ck'[n].masterInit = ck[n].masterInit
         /\ ck'[n].bh = ck[n].bh
  PROVE  StopInv'
<1>1. AskInv(n) /\ GrantInv(n) /\ LeaveInv(n) /\ NoRequest(n)
  BY StopAt
<1>2. \A m \in Nodes : Reached(m) <=> Reached(m)'
  BY DEF Reached
<1>3. StepAsks(n, s)
  BY <1>1, <1>2, StopAt DEF AskInv, StepAsks, KeepsAsking
<1>4. StepGrants(n, s)
  BY <1>1 DEF GrantInv, LeaveInv, StepGrants, KeepsAsking
<1>5. StepOwesNothing(n, s)
  BY <1>1 DEF NoRequest, StepOwesNothing
<1>6. QED
  BY <1>2, <1>3, <1>4, <1>5, StopKept

\* In particular whoever sends nothing and stays where it is.
LEMMA StopStays ==
  ASSUME StopBase, NEW n \in Nodes, Adds(n, <<>>),
         UNCHANGED <<now, stopAt, flexus, ex, ck, main>>,
         \A m \in Nodes : status'[m] = "exited" => status[m] = "exited"
  PROVE  StopInv'
<1>1. \A t : ~Carries(<<>>, t)
  BY CarriesNothing
<1>2. \A m \in Nodes : UnderWay(m, "INTENT")' => UnderWay(m, "INTENT")
  BY <1>1 DEF Adds
<1>3. \A m \in Nodes : UnderWay(m, "PERMISSION")' => UnderWay(m, "PERMISSION")
  BY <1>1 DEF Adds
<1>4. \A m \in Nodes : UnderWay(m, "DRAIN_START")' => UnderWay(m, "DRAIN_START")
  BY <1>1 DEF Adds
<1>5. (\A m \in Nodes : Reached(m)' <=> Reached(m)) /\ (BothReached' <=> BothReached)
  BY DEF Reached, BothReached
<1>6. QED
  BY <1>2, <1>3, <1>4, <1>5, TwoNodes DEF StopBase, StopInv, AskInv, GrantInv, LeaveInv, NoRequest

\* The end of the simulation says END only, and changes none of these fields.
LEMMA EndAsks ==
  ASSUME NEW e \in ExitFields
  PROVE  /\ \A t \in {"INTENT", "PERMISSION", "DRAIN_START"} :
              ~Carries(EndIfPermitted(e), t) /\ ~Carries(NotifyEndMessages(e), t)
         /\ AfterEnd(e).ready = e.ready /\ AfterEnd(e).nbrs = e.nbrs
         /\ NotifyEndFields(e).ready = e.ready /\ NotifyEndFields(e).nbrs = e.nbrs
<1>1. \A t \in {"INTENT", "PERMISSION", "DRAIN_START"} : ~Carries(EndIfPermitted(e), t)
  BY CarriesNothing, CarriesOne DEF EndIfPermitted, MsgTypes
<1>2. AfterEnd(e).ready = e.ready /\ AfterEnd(e).nbrs = e.nbrs
  BY DEF AfterEnd, ExitFields
<1>3. AfterEnd(e) \in ExitFields
  BY EndType
<1>4. NotifyEndFields(e).ready = e.ready /\ NotifyEndFields(e).nbrs = e.nbrs
  BY <1>2, <1>3 DEF NotifyEndFields, ExitFields
<1>5. QED
  BY <1>1, <1>2, <1>4, CarriesNothing DEF NotifyEndMessages

LEMMA OthersAt ==
  ASSUME TypeOK, NEW n \in Nodes,
         UNCHANGED flexus \/ \E v : flexus' = [flexus EXCEPT ![n] = v],
         UNCHANGED ex \/ \E v : ex' = [ex EXCEPT ![n] = v],
         UNCHANGED main \/ \E v : main' = [main EXCEPT ![n] = v],
         UNCHANGED status \/ \E v : status' = [status EXCEPT ![n] = v],
         UNCHANGED ck \/ \E v : ck' = [ck EXCEPT ![n] = v]
  PROVE  Others(n)
BY DEF Others, TypeOK

\* A step of the main thread that sends nothing and changes only its place.
LEMMA StopMoves ==
  ASSUME StopBase, NEW n \in Nodes, UNCHANGED <<wire, now, stopAt, flexus, ex, ck>>,
         UNCHANGED status \/ \E v : v # "exited" /\ status' = [status EXCEPT ![n] = v],
         NEW c, main' = [main EXCEPT ![n] = c],
         c \in {"grant", "closing", "exiting"} => BothReached
  PROVE  StopInv'
<1>1. TypeOK /\ KeepsAsking(n)
  BY DEF StopBase, KeepsAsking
<1>2. Others(n)
  BY <1>1, OthersAt
<1>3. main'[n] = c /\ (status'[n] = "exited" => status[n] = "exited")
  BY <1>1 DEF TypeOK
<1>4. QED
  BY <1>1, <1>2, <1>3, AddsNothing, CarriesNothing, StopQuiet

LEMMA ReceiveStop == ASSUME StopBase, NEW n \in Nodes, Receive(n) PROVE StopInv'
<1>0. TypeOK /\ ex[n] \in ExitFields /\ ck[n] \in CkptFields
  BY DEF StopBase, TypeOK
<1>1. UNCHANGED status => \A m \in Nodes : status'[m] = "exited" => status[m] = "exited"
  OBVIOUS
<1>2. CASE RecvNormal(n) \/ RecvSync(n)
  <2>1. \/ UNCHANGED status
        \/ status' = [status EXCEPT ![n] = "abort_past"]
        \/ status' = [status EXCEPT ![n] = "abort_round"]
    BY <1>2, Zenon DEF RecvNormal, RecvSync, Abort
  <2>2. \A m \in Nodes : status'[m] = "exited" => status[m] = "exited"
    BY <1>0, <2>1 DEF TypeOK
  <2>3. Adds(n, <<>>)
    BY <1>0, <1>2, AddsReceived DEF RecvNormal, RecvSync, MsgTypes
  <2>4. QED
    BY <1>2, <2>2, <2>3, StopStays DEF RecvNormal, RecvSync
<1>3. CASE RecvDrainStart(n)
  <2>1. UnderWay(Peer(n), "DRAIN_START")
    BY <1>0, <1>3, AddsReceived DEF RecvDrainStart, MsgTypes
  <2>2. QED
    BY <2>1, StopAt DEF NoRequest
<1>4. CASE RecvDrainEnd(n)
  <2>1. Adds(n, <<>>)
    BY <1>0, <1>4, AddsReceived DEF RecvDrainEnd, MsgTypes
  <2>2. QED
    BY <1>1, <1>4, <2>1, StopStays DEF RecvDrainEnd, ctl, wwt
<1>5. CASE RecvInitStep(n)
  <2> DEFINE c == [ck[n] EXCEPT !.initFlag = @ + 1]
  <2>1. Adds(n, <<>>)
    BY <1>0, <1>5, AddsReceived DEF RecvInitStep, MsgTypes
  <2>2. /\ c.needs = ck[n].needs /\ c.masterInit = ck[n].masterInit /\ c.bh = ck[n].bh
        /\ ~ck[n].masterInit
    BY <1>0, StopAt DEF CkptFields, NoRequest
  <2>3. ck' = [ck EXCEPT ![n] = c]
    BY <1>5, <2>2 DEF RecvInitStep
  <2>4. Others(n) /\ ck'[n] = c /\ KeepsAsking(n)
    BY <1>0, <1>5, <2>3, OthersAt DEF RecvInitStep, ctl, TypeOK, KeepsAsking
  <2> HIDE DEF c
  <2>5. QED
    BY <1>5, <2>1, <2>2, <2>4, CarriesNothing, StopQuiet DEF RecvInitStep, ctl, wwt
<1>6. CASE RecvIntent(n)
  <2> DEFINE v == IF n = Master THEN ex[n].nbrs + 1 ELSE ex[n].nbrs
             e == [ex[n] EXCEPT !.nbrs = v]
  <2>1. Adds(n, <<>>) /\ Reached(Peer(n))
    BY <1>0, <1>6, AddsReceived, StopAt DEF RecvIntent, MsgTypes, AskInv
  <2>2. ex' = [ex EXCEPT ![n] = e] /\ UNCHANGED <<status, main, flexus, ck, now, stopAt>>
    BY <1>6 DEF RecvIntent, ctl, wwt
  <2>3. Others(n) /\ ex'[n] = e
    BY <1>0, <2>2, OthersAt DEF TypeOK
  <2>4. e.ready = ex[n].ready /\ e.permitted = ex[n].permitted
    BY <1>0 DEF ExitFields
  <2>5. \A m \in Nodes : Reached(m) <=> Reached(m)'
    BY <2>2 DEF Reached
  <2> HIDE DEF e
  <2>6. StepAsks(n, <<>>) /\ StepGrants(n, <<>>) /\ StepOwesNothing(n, <<>>)
    BY <2>1, <2>2, <2>3, <2>4, <2>5, StopAt, CarriesNothing
    DEF StepAsks, StepGrants, StepOwesNothing, AskInv, GrantInv, LeaveInv, NoRequest
  <2>7. QED
    BY <2>1, <2>3, <2>5, <2>6, StopKept
<1>7. CASE RecvPermission(n)
  <2> DEFINE e == [ex[n] EXCEPT !.permitted = TRUE]
             s == EndIfPermitted(e)
  <2>1. /\ Receiving(n, "PERMISSION") /\ UNCHANGED <<flexusOut, status, main, flexus, ck, now, stopAt>>
        /\ ex' = [ex EXCEPT ![n] = AfterEnd(e)] /\ mainOut' = [mainOut EXCEPT ![n] = s]
    BY <1>7 DEF RecvPermission, ctl, wwt
  <2>2. e \in ExitFields /\ e.ready = ex[n].ready /\ e.nbrs = ex[n].nbrs
    BY <1>0 DEF ExitFields
  <2>3. /\ \A t \in {"INTENT", "PERMISSION", "DRAIN_START"} : ~Carries(s, t)
        /\ AfterEnd(e).ready = ex[n].ready /\ AfterEnd(e).nbrs = ex[n].nbrs
    BY <2>2, EndAsks
  <2> HIDE DEF s, e
  <2>4. Adds(n, s) /\ BothReached
    BY <1>0, <2>1, AddsReceived, StopAt DEF MsgTypes, GrantInv
  <2>5. Others(n) /\ ex'[n] = AfterEnd(e)
    BY <1>0, <2>1, OthersAt DEF TypeOK
  <2>6. \A m \in Nodes : Reached(m) <=> Reached(m)'
    BY <2>1 DEF Reached
  <2>7. StepAsks(n, s) /\ StepGrants(n, s) /\ StepOwesNothing(n, s)
    BY <2>1, <2>3, <2>4, <2>5, <2>6, StopAt
    DEF StepAsks, StepGrants, StepOwesNothing, AskInv, NoRequest
  <2>8. QED
    BY <2>4, <2>5, <2>6, <2>7, StopKept
<1>8. CASE RecvEnd(n)
  <2>1. Adds(n, <<>>)
    BY <1>0, <1>8, AddsReceived DEF RecvEnd, MsgTypes
  <2>2. \/ UNCHANGED status /\ ex' = [ex EXCEPT ![n].pairFin = TRUE]
        \/ UNCHANGED ex /\ status' = [status EXCEPT ![n] = "abort_end"]
    BY <1>8, Zenon DEF RecvEnd, Abort
  <2>3. /\ UNCHANGED <<main, flexus, ck, now, stopAt>>
        /\ status'[n] = "exited" => status[n] = "exited"
    BY <1>0, <1>8, <2>2 DEF RecvEnd, TypeOK, wwt
  <2>4. Others(n)
    BY <1>0, <2>2, <2>3, OthersAt
  <2>5. KeepsAsking(n)
    BY <1>0, <2>2 DEF KeepsAsking, TypeOK, ExitFields
  <2>6. main'[n] \in {"grant", "closing", "exiting"} => main'[n] = main[n]
    BY <2>3
  <2>7. QED
    BY <2>1, <2>3, <2>4, <2>5, <2>6, CarriesNothing, StopQuiet
<1>9. CASE PollDone(n)
  BY <1>1, <1>9, AddsNothing, StopStays DEF PollDone, wwt
<1>10. QED
  BY <1>2, <1>3, <1>4, <1>5, <1>6, <1>7, <1>8, <1>9 DEF Receive

LEMMA DispatchStop == ASSUME StopBase, NEW n \in Nodes, Dispatch(n) PROVE StopInv'
<1>0. TypeOK /\ NoRequest(n)
  BY StopAt DEF StopBase
<1>1. CASE HostPoll(n) \/ PauseBh(n)
  BY <1>1, AddsNothing, StopStays DEF HostPoll, PauseBh, ctl, wwt
<1>2. CASE Deliver(n)
  BY <1>2, AddsNothing, StopStays DEF Deliver, ctl
<1>3. CASE CheckpointBH(n)
  BY <1>0, <1>3 DEF CheckpointBH, NoRequest
<1>4. CASE SetupWWT(n) \/ SyncCheck(n)
  <2>1. \E c \in {"run", "check"} : main' = [main EXCEPT ![n] = c]
    BY <1>4 DEF SetupWWT, SyncCheck
  <2>2. QED
    BY <1>4, <2>1, StopMoves DEF SetupWWT, SyncCheck, wwt
<1>5. CASE QuantaSync(n)
  <2>1. UNCHANGED status \/ status' = [status EXCEPT ![n] = "abort_pause"]
    BY <1>5, Zenon DEF QuantaSync, Pause, Abort
  <2>2. QED
    BY <1>5, <2>1, StopMoves DEF QuantaSync
<1>6. QED
  BY <1>1, <1>2, <1>3, <1>4, <1>5 DEF Dispatch

\* A step of wwt_sync_check that sends s and changes the exit fields to e.
LEMMA StopSays ==
  ASSUME StopBase, NEW n \in Nodes, UNCHANGED <<ring, flexusOut, status, now, stopAt, flexus>>,
         NEW s, mainOut' = [mainOut EXCEPT ![n] = s],
         \A t \in {"INTENT", "PERMISSION", "DRAIN_START"} : ~Carries(s, t),
         NEW e, ex' = [ex EXCEPT ![n] = e],
         e.ready = ex[n].ready, e.nbrs = ex[n].nbrs, e.permitted = ex[n].permitted,
         NEW c, main' = [main EXCEPT ![n] = c],
         c \in {"grant", "closing", "exiting"} => BothReached,
         NEW k, ck' = [ck EXCEPT ![n] = k],
         k.needs = ck[n].needs, k.masterInit = ck[n].masterInit, k.bh = ck[n].bh
  PROVE  StopInv'
<1>1. TypeOK
  BY DEF StopBase
<1>2. Adds(n, s) /\ Others(n)
  BY <1>1, AddsMain, OthersAt
<1>3. main'[n] = c /\ ex'[n] = e /\ ck'[n] = k
  BY <1>1 DEF TypeOK
<1>4. QED
  BY <1>2, <1>3, StopQuiet DEF KeepsAsking

\* The same function, of which nothing but the place is read.
LEMMA SameAt ==
  ASSUME TypeOK, NEW n \in Nodes
  PROVE  /\ ex = [ex EXCEPT ![n] = ex[n]] /\ ck = [ck EXCEPT ![n] = ck[n]]
         /\ ex[n] \in ExitFields /\ ck[n] \in CkptFields
BY DEF TypeOK

\* The master grants when both are there, and leaves by permission.
LEMMA PermitStop ==
  ASSUME StopBase, NEW n \in Nodes, Permit(n) \/ PermitGrant(n) \/ PermitEnd(n)
  PROVE  StopInv'
<1>0. TypeOK /\ AskInv(n) /\ GrantInv(n) /\ NoRequest(n) /\ ex[n] \in ExitFields
  BY StopAt DEF StopBase, TypeOK
<1>1. CASE Permit(n)
  <2> DEFINE c == IF ex[n].nbrs >= 1 /\ ex[n].ready /\ ~ex[n].permitted
                  THEN "grant" ELSE "advance"
  <2>1. c = "grant" => BothReached
    <3>1. ex[n].nbrs >= 1 => ex[n].nbrs # 0
      BY <1>0 DEF ExitFields
    <3>2. Nodes = {n, Peer(n)}
      BY DEF Nodes, Peer
    <3>3. QED
      BY <1>0, <3>1, <3>2 DEF AskInv, BothReached
  <2>2. main' = [main EXCEPT ![n] = c] /\ c \in {"grant", "advance"}
    BY <1>1 DEF Permit
  <2> HIDE DEF c
  <2>3. QED
    BY <1>1, <2>1, <2>2, StopMoves DEF Permit, wwt
<1>2. CASE PermitGrant(n)
  <2> DEFINE s == <<Msg("PERMISSION", 0)>>
             e == [ex[n] EXCEPT !.permitted = TRUE]
  <2>1. /\ main[n] = "grant" /\ ex' = [ex EXCEPT ![n] = e]
        /\ mainOut' = [mainOut EXCEPT ![n] = s] /\ main' = [main EXCEPT ![n] = "end"]
        /\ UNCHANGED <<status, flexus, stopAt, now, ring, flexusOut, ck>>
    BY <1>2 DEF PermitGrant, MainAt, wwt
  <2>2. e.ready = ex[n].ready /\ e.nbrs = ex[n].nbrs
    BY <1>0 DEF ExitFields
  <2>3. ~Carries(s, "INTENT") /\ ~Carries(s, "DRAIN_START")
    BY CarriesOne DEF MsgTypes
  <2> HIDE DEF s, e
  <2>4. Adds(n, s) /\ Others(n) /\ ex'[n] = e /\ BothReached
    BY <1>0, <2>1, AddsMain, OthersAt DEF TypeOK, GrantInv
  <2>5. \A m \in Nodes : Reached(m) <=> Reached(m)'
    BY <2>1 DEF Reached
  <2>6. StepAsks(n, s) /\ StepGrants(n, s) /\ StepOwesNothing(n, s)
    BY <1>0, <2>1, <2>2, <2>3, <2>4, <2>5, StopAt
    DEF StepAsks, StepGrants, StepOwesNothing, AskInv, NoRequest
  <2>7. QED
    BY <2>4, <2>5, <2>6, StopKept
<1>3. CASE PermitEnd(n)
  <2> DEFINE s == EndIfPermitted(ex[n])
             e == AfterEnd(ex[n])
  <2>1. /\ \A t \in {"INTENT", "PERMISSION", "DRAIN_START"} : ~Carries(s, t)
        /\ e.ready = ex[n].ready /\ e.nbrs = ex[n].nbrs /\ e.permitted = ex[n].permitted
    BY <1>0, EndAsks, EndSpeech
  <2>2. /\ mainOut' = [mainOut EXCEPT ![n] = s] /\ ex' = [ex EXCEPT ![n] = e]
        /\ main' = [main EXCEPT ![n] = "advance"]
        /\ UNCHANGED <<ring, flexusOut, status, now, stopAt, flexus, ck>>
    BY <1>3 DEF PermitEnd, wwt
  <2>3. ck' = [ck EXCEPT ![n] = ck[n]]
    BY <1>0, <2>2, SameAt
  <2> HIDE DEF s, e
  <2>4. QED
    BY <2>1, <2>2, <2>3, StopSays
<1>4. QED
  BY <1>1, <1>2, <1>3

LEMMA BoundaryStop == ASSUME StopBase, NEW n \in Nodes, Boundary(n) PROVE StopInv'
<1>0. TypeOK /\ GrantInv(n) /\ LeaveInv(n) /\ NoRequest(n) /\ ex[n] \in ExitFields
      /\ ck[n] \in CkptFields
  BY StopAt DEF StopBase, TypeOK
<1>1. CASE NotifyAndSync(n)
  <2> DEFINE s == DrainStart(n) \o SyncMessage(n)
  <2>1. ~ck[n].needs
    BY <1>0 DEF NoRequest
  <2>2. \A t \in {"INTENT", "PERMISSION", "DRAIN_START"} :
          ~Carries(DrainStart(n), t) /\ ~Carries(SyncMessage(n), t)
    <3>1. round[n] \in Nat
      BY <1>0 DEF TypeOK
    <3>2. QED
      BY <2>1, <3>1, CarriesNothing, CarriesOne DEF DrainStart, OwesDrainStart, SyncMessage, MsgTypes
  <2>3. DrainStart(n) \in Seq(Message) /\ SyncMessage(n) \in Seq(Message)
    <3>1. round[n] \in Nat
      BY <1>0 DEF TypeOK
    <3>2. QED
      BY <1>0, <3>1, DrainType, MsgSeq DEF SyncMessage, MsgTypes
  <2>4. \A t \in {"INTENT", "PERMISSION", "DRAIN_START"} : ~Carries(s, t)
    BY <2>2, <2>3, CarriesJoined
  <2>5. /\ AfterDrainStart(n).needs = ck[n].needs
        /\ AfterDrainStart(n).masterInit = ck[n].masterInit
        /\ AfterDrainStart(n).bh = ck[n].bh
    BY <1>0 DEF AfterDrainStart, CkptFields
  <2>6. /\ mainOut' = [mainOut EXCEPT ![n] = s] /\ ck' = [ck EXCEPT ![n] = AfterDrainStart(n)]
        /\ main' = [main EXCEPT ![n] = "armed"]
        /\ UNCHANGED <<status, flexus, stopAt, now, ring, flexusOut, ex>>
    BY <1>1 DEF NotifyAndSync, wwt
  <2> HIDE DEF s
  <2>7. ex' = [ex EXCEPT ![n] = ex[n]]
    BY <1>0, <2>6, SameAt
  <2>8. QED
    BY <2>4, <2>5, <2>6, <2>7, StopSays
<1>2. CASE CheckCount(n) \/ SpinOn(n)
  <2>1. \E c \in {"spin", "boundary", "check"} : main' = [main EXCEPT ![n] = c]
    BY <1>2 DEF CheckCount, SpinOn
  <2>2. QED
    BY <1>2, <2>1, StopMoves DEF CheckCount, SpinOn, wwt
<1>3. CASE BoundaryPass(n)
  <2>1. \E c \in {"permit", "advance"} : main' = [main EXCEPT ![n] = c]
    BY <1>3 DEF BoundaryPass
  <2>2. QED
    BY <1>3, <2>1, StopMoves DEF BoundaryPass, wwt
<1>4. CASE BoundaryNotify(n) \/ BoundaryCheckpoint(n) \/ BoundaryTooLate(n)
  BY <1>0, <1>4 DEF BoundaryNotify, BoundaryCheckpoint, BoundaryTooLate, OwesDrainStart, NoRequest
<1>5. CASE SpinStop(n)
  <2>1. \/ ex[n].permitted /\ status' = [status EXCEPT ![n] = "exited"]
        \/ status' = [status EXCEPT ![n] = "abort_end"]
    BY <1>5, Zenon DEF SpinStop, Abort
  <2>2. status'[n] = "exited" => BothReached
    BY <1>0, <2>1 DEF TypeOK, GrantInv
  <2>3. Others(n) /\ KeepsAsking(n) /\ UNCHANGED <<wire, now, stopAt, flexus, ck, main>>
    BY <1>0, <1>5, <2>1, OthersAt DEF SpinStop, KeepsAsking, wwt
  <2>4. QED
    BY <2>2, <2>3, AddsNothing, CarriesNothing, StopQuiet
<1>6. CASE SpinDestroy(n)
  <2>1. BothReached /\ ~ck[n].needs
    BY <1>0, <1>6 DEF SpinDestroy, GrantInv, NoRequest
  <2>2. /\ mainOut' = [mainOut EXCEPT ![n] = NotifyEndMessages(ex[n])]
        /\ ex' = [ex EXCEPT ![n] = NotifyEndFields(ex[n])]
        /\ main' = [main EXCEPT ![n] = "exiting"]
        /\ UNCHANGED <<status, flexus, stopAt, now, ring, flexusOut, ck>>
    BY <1>6, <2>1 DEF SpinDestroy, Destroy, CloseNow, wwt
  <2>3. ck' = [ck EXCEPT ![n] = ck[n]]
    BY <1>0, <2>2, SameAt
  <2> DEFINE s == NotifyEndMessages(ex[n])
             e == NotifyEndFields(ex[n])
  <2>4. /\ \A t \in {"INTENT", "PERMISSION", "DRAIN_START"} : ~Carries(s, t)
        /\ e.ready = ex[n].ready /\ e.nbrs = ex[n].nbrs /\ e.permitted = ex[n].permitted
    BY <1>0, EndAsks, EndSpeech
  <2>5. mainOut' = [mainOut EXCEPT ![n] = s] /\ ex' = [ex EXCEPT ![n] = e]
    BY <2>2
  <2> HIDE DEF s, e
  <2>6. QED
    BY <2>1, <2>2, <2>3, <2>4, <2>5, StopSays
<1>7. CASE Exit(n)
  <2>1. main[n] = "exiting" /\ status' = [status EXCEPT ![n] = "exited"]
    BY <1>7 DEF Exit, MainAt
  <2>2. BothReached
    BY <1>0, <2>1 DEF LeaveInv
  <2>3. Others(n) /\ KeepsAsking(n) /\ UNCHANGED <<wire, now, stopAt, flexus, ck, main>>
    BY <1>0, <1>7, <2>1, OthersAt DEF Exit, KeepsAsking, wwt
  <2>4. QED
    BY <2>2, <2>3, AddsNothing, CarriesNothing, StopQuiet
<1>8. CASE Advance(n)
  BY <1>8, StopMoves DEF Advance
<1>9. QED
  BY <1>1, <1>2, <1>3, <1>4, <1>5, <1>6, <1>7, <1>8, PermitStop DEF Boundary

\* can_stop is called at the stop cycle.
LEMMA FlexusStop ==
  ASSUME StopBase, NEW n \in Nodes, FlexusThread(n) \/ FinishInitiate(n) PROVE StopInv'
<1>0. /\ TypeOK /\ AskInv(n) /\ GrantInv(n) /\ LeaveInv(n) /\ NoRequest(n)
      /\ ex[n] \in ExitFields /\ InitNodes = {}
  BY StopAt DEF StopBase, TypeOK
<1>1. CASE FlexusSend(n)
  BY <1>0, <1>1, AddsSent, StopStays DEF FlexusSend, ctl, wwt
<1>2. CASE CanStop(n)
  <2> DEFINE c == IF ex[n].nbrs >= 1 /\ ~ex[n].permitted THEN "grant" ELSE "answer"
             s == IF ex[n].intent THEN <<>> ELSE <<Msg("INTENT", 0)>>
             e == [ex[n] EXCEPT !.intent = TRUE]
  <2>1. Reached(n) /\ UNCHANGED <<status, main, ring, mainOut, now, stopAt, ck>>
    BY <1>0, <1>2 DEF CanStop, FlexusAt, AskInv, wwt
  <2>2. \A m \in Nodes : Reached(m) <=> Reached(m)'
    BY <2>1 DEF Reached
  <2>3. CASE n = Master
    <3>1. flexus' = [flexus EXCEPT ![n] = c] /\ UNCHANGED <<flexusOut, ex>>
      BY <1>2, <2>3 DEF CanStop
    <3>2. c = "grant" => BothReached
      <4>1. ex[n].nbrs >= 1 => ex[n].nbrs # 0
        BY <1>0 DEF ExitFields
      <4>2. Nodes = {n, Peer(n)}
        BY DEF Nodes, Peer
      <4>3. QED
        BY <1>0, <2>1, <4>1, <4>2 DEF AskInv, BothReached
    <3>3. c \in {"grant", "answer"}
      OBVIOUS
    <3> HIDE DEF c
    <3>4. Others(n) /\ flexus'[n] = c /\ Adds(n, <<>>)
      BY <1>0, <2>1, <3>1, OthersAt, AddsNothing DEF TypeOK, wire
    <3>5. StepAsks(n, <<>>) /\ StepGrants(n, <<>>) /\ StepOwesNothing(n, <<>>)
      BY <1>0, <2>1, <2>2, <3>1, <3>2, <3>3, <3>4, StopAt, CarriesNothing
      DEF StepAsks, StepGrants, StepOwesNothing, AskInv, GrantInv, LeaveInv, NoRequest
    <3>6. QED
      BY <2>2, <3>4, <3>5, StopKept
  <2>4. CASE n # Master
    <3>1. /\ flexus' = [flexus EXCEPT ![n] = "answer"] /\ flexusOut' = [flexusOut EXCEPT ![n] = s]
          /\ ex' = [ex EXCEPT ![n] = e]
      BY <1>2, <2>4 DEF CanStop
    <3>2. ~Carries(s, "PERMISSION") /\ ~Carries(s, "DRAIN_START")
      BY CarriesNothing, CarriesOne DEF MsgTypes
    <3>3. e.ready = ex[n].ready /\ e.nbrs = ex[n].nbrs /\ e.permitted = ex[n].permitted
      BY <1>0 DEF ExitFields
    <3> HIDE DEF s, e
    <3>4. Others(n) /\ flexus'[n] = "answer" /\ ex'[n] = e /\ Adds(n, s)
      BY <1>0, <2>1, <3>1, OthersAt, AddsFlexus DEF TypeOK
    <3>5. StepAsks(n, s) /\ StepGrants(n, s) /\ StepOwesNothing(n, s)
      BY <1>0, <2>1, <2>2, <3>2, <3>3, <3>4, StopAt
      DEF StepAsks, StepGrants, StepOwesNothing, AskInv, GrantInv, LeaveInv, NoRequest
    <3>6. QED
      BY <2>2, <3>4, <3>5, StopKept
  <2>5. QED
    BY <2>3, <2>4
<1>3. CASE CanStopGrant(n)
  <2> DEFINE s == <<Msg("PERMISSION", 0)>>
             e == [ex[n] EXCEPT !.permitted = TRUE]
  <2>1. /\ Reached(n) /\ BothReached /\ UNCHANGED <<status, main, ring, mainOut, now, stopAt, ck>>
        /\ flexus' = [flexus EXCEPT ![n] = "end"] /\ flexusOut' = [flexusOut EXCEPT ![n] = s]
        /\ ex' = [ex EXCEPT ![n] = e]
    BY <1>0, <1>3 DEF CanStopGrant, FlexusAt, AskInv, GrantInv, wwt
  <2>2. \A m \in Nodes : Reached(m) <=> Reached(m)'
    BY <2>1 DEF Reached
  <2>3. ~Carries(s, "INTENT") /\ ~Carries(s, "DRAIN_START")
    BY CarriesOne DEF MsgTypes
  <2>4. e.ready = ex[n].ready /\ e.nbrs = ex[n].nbrs
    BY <1>0 DEF ExitFields
  <2> HIDE DEF s, e
  <2>5. Others(n) /\ flexus'[n] = "end" /\ ex'[n] = e /\ Adds(n, s)
    BY <1>0, <2>1, OthersAt, AddsFlexus DEF TypeOK
  <2>6. StepAsks(n, s) /\ StepGrants(n, s) /\ StepOwesNothing(n, s)
    BY <1>0, <2>1, <2>2, <2>3, <2>4, <2>5, StopAt
    DEF StepAsks, StepGrants, StepOwesNothing, AskInv, NoRequest
  <2>7. QED
    BY <2>2, <2>5, <2>6, StopKept
<1>4. CASE CanStopEnd(n)
  <2> DEFINE s == EndIfPermitted(ex[n])
             e == AfterEnd(ex[n])
  <2>1. /\ Reached(n) /\ BothReached /\ UNCHANGED <<status, main, ring, mainOut, now, stopAt, ck>>
        /\ flexus' = [flexus EXCEPT ![n] = "answer"] /\ flexusOut' = [flexusOut EXCEPT ![n] = s]
        /\ ex' = [ex EXCEPT ![n] = e]
    BY <1>0, <1>4 DEF CanStopEnd, FlexusAt, AskInv, GrantInv, wwt
  <2>2. \A m \in Nodes : Reached(m) <=> Reached(m)'
    BY <2>1 DEF Reached
  <2>3. /\ ~Carries(s, "INTENT") /\ ~Carries(s, "DRAIN_START")
        /\ e.ready = ex[n].ready /\ e.nbrs = ex[n].nbrs
    BY <1>0, EndAsks
  <2> HIDE DEF s, e
  <2>4. Others(n) /\ flexus'[n] = "answer" /\ ex'[n] = e /\ Adds(n, s)
    BY <1>0, <2>1, OthersAt, AddsFlexus DEF TypeOK
  <2>5. StepAsks(n, s) /\ StepGrants(n, s) /\ StepOwesNothing(n, s)
    BY <1>0, <2>1, <2>2, <2>3, <2>4, StopAt
    DEF StepAsks, StepGrants, StepOwesNothing, AskInv, NoRequest
  <2>6. QED
    BY <2>2, <2>4, <2>5, StopKept
<1>5. CASE CanStopAnswer(n)
  <2> DEFINE e == [ex[n] EXCEPT !.ready = TRUE]
  <2>1. /\ Reached(n) /\ UNCHANGED <<wire, main, now, stopAt, ck>>
        /\ flexus' = [flexus EXCEPT ![n] = "idle"] /\ ex' = [ex EXCEPT ![n] = e]
        /\ \/ UNCHANGED status
           \/ ex[n].permitted /\ status' = [status EXCEPT ![n] = "exited"]
    BY <1>0, <1>5 DEF CanStopAnswer, FlexusAt, AskInv, wwt, MayExit
  <2>2. \A m \in Nodes : Reached(m) <=> Reached(m)'
    BY <2>1 DEF Reached
  <2>3. e.permitted = ex[n].permitted /\ e.nbrs = ex[n].nbrs
    BY <1>0 DEF ExitFields
  <2> HIDE DEF e
  <2>4. Others(n) /\ flexus'[n] = "idle" /\ ex'[n] = e /\ Adds(n, <<>>)
    BY <1>0, <2>1, OthersAt, AddsNothing DEF TypeOK
  <2>5. StepAsks(n, <<>>) /\ StepGrants(n, <<>>) /\ StepOwesNothing(n, <<>>)
    BY <1>0, <2>1, <2>2, <2>3, <2>4, StopAt, CarriesNothing
    DEF StepAsks, StepGrants, StepOwesNothing, AskInv, GrantInv, LeaveInv, NoRequest
  <2>6. QED
    BY <2>2, <2>4, <2>5, StopKept
<1>6. CASE SetCheckpointFlags(n) \/ SetCheckpointRound(n)
  BY <1>0, <1>6 DEF SetCheckpointFlags, SetCheckpointRound, FlexusAt, NoRequest
<1>7. CASE FinishInitiate(n)
  BY <1>0, <1>7 DEF FinishInitiate
<1>8. QED
  BY <1>1, <1>2, <1>3, <1>4, <1>5, <1>6, <1>7 DEF FlexusThread

\* The clock grows, and calls can_stop where it reaches the stop cycle.
LEMMA TickStop == ASSUME StopBase, NEW n \in Nodes, Tick(n) PROVE StopInv'
<1>0. TypeOK /\ AskInv(n) /\ GrantInv(n) /\ LeaveInv(n) /\ NoRequest(n)
  BY StopAt DEF StopBase
<1> DEFINE c == IF now[n] + 1 >= stopAt[n] THEN "ask" ELSE flexus[n]
<1>1. /\ flexus[n] = "idle" /\ flexus' = [flexus EXCEPT ![n] = c]
      /\ now' = [now EXCEPT ![n] = now[n] + 1]
      /\ UNCHANGED <<status, main, stopAt, wire, ex, ck>>
  BY DEF Tick
<1>2. \A m \in Nodes : Reached(m) => Reached(m)'
  BY <1>0, <1>1 DEF Reached, TypeOK
<1>3. c = "ask" => Reached(n)'
  BY <1>0, <1>1 DEF Reached, TypeOK
<1>4. c \in {"idle", "ask"}
  BY <1>1
<1> HIDE DEF c
<1>5. Others(n) /\ flexus'[n] = c /\ Adds(n, <<>>)
  BY <1>0, <1>1, OthersAt, AddsNothing DEF TypeOK
<1>6. StepAsks(n, <<>>) /\ StepGrants(n, <<>>) /\ StepOwesNothing(n, <<>>)
  BY <1>0, <1>1, <1>2, <1>3, <1>4, <1>5, StopAt, CarriesNothing
  DEF StepAsks, StepGrants, StepOwesNothing, AskInv, GrantInv, LeaveInv, NoRequest
<1>7. QED
  BY <1>2, <1>5, <1>6, StopKept

LEMMA SendPacketStop == ASSUME StopBase, NEW n \in Nodes, SendPacket(n) PROVE StopInv'
<1> DEFINE s == <<Packet(n)>>
<1>0. TypeOK
  BY DEF StopBase
<1>1. /\ mainOut' = [mainOut EXCEPT ![n] = s]
      /\ UNCHANGED <<status, main, flexus, stopAt, now, ring, flexusOut, ex, ck>>
  BY DEF SendPacket, ctl
<1>2. now[n] + Quantum \in Nat
  BY <1>0, SizeAssumption DEF TypeOK
<1>3. \A t \in {"INTENT", "PERMISSION", "DRAIN_START"} : ~Carries(s, t)
  BY <1>2, CarriesOne DEF Packet, MsgTypes
<1> HIDE DEF s
<1>4. Adds(n, s) /\ Others(n) /\ KeepsAsking(n)
  BY <1>0, <1>1, AddsMain, OthersAt DEF KeepsAsking
<1>5. QED
  BY <1>1, <1>3, <1>4, StopQuiet

-----------------------------------------------------------------------------
(* The theorems. *)

LEMMA StopInitial == Init => StopInv
<1> SUFFICES ASSUME Init, NEW n \in Nodes
             PROVE  AskInv(n) /\ GrantInv(n) /\ LeaveInv(n) /\ NoRequest(n)
  BY DEF StopInv
<1>1. /\ \A m \in Nodes : ring[m] = <<>> /\ mainOut[m] = <<>> /\ flexusOut[m] = <<>>
      /\ Peer(n) \in Nodes
  BY TwoNodes DEF Init, InitEngine
<1>2. \A t : ~UnderWay(n, t)
  BY <1>1, CarriesNothing DEF UnderWay
<1>3. /\ main[n] = "setup" /\ flexus[n] = "idle" /\ status[n] = "up"
      /\ ~ex[n].ready /\ ex[n].nbrs = 0 /\ ~ex[n].permitted
      /\ ~ck[n].needs /\ ~ck[n].masterInit /\ ck[n].bh = "none"
  BY DEF Init, InitWWT, InitEngine
<1>4. QED
  BY <1>2, <1>3 DEF AskInv, GrantInv, LeaveInv, NoRequest

\* Every step keeps it.
LEMMA StopStep == ASSUME TypeOK, StopInv, InitNodes = {}, [Next]_vars PROVE StopInv'
<1>0. StopBase
  BY TypeStep DEF StopBase
<1>1. CASE UNCHANGED vars
  <2>1. PICK n \in Nodes : TRUE
    BY TwoNodes
  <2>2. UNCHANGED <<wire, now, stopAt, flexus, ex, ck, main, status>>
    BY <1>1 DEF vars, ctl, wwt
  <2>3. QED
    BY <1>0, <2>1, <2>2, AddsNothing, StopStays
<1>2. ASSUME NEW n \in Nodes, MainThread(n) PROVE StopInv'
  <2>1. CASE MainSend(n)
    <3>1. UNCHANGED <<now, stopAt, flexus, ex, ck, main, status>>
      BY <2>1 DEF MainSend, ctl, wwt
    <3>2. QED
      BY <1>0, <2>1, <3>1, AddsSent, StopStays
  <2>2. QED
    BY <1>0, <1>2, <2>1, ReceiveStop, DispatchStop, BoundaryStop DEF MainThread
<1>3. ASSUME NEW n \in Nodes, FlexusThread(n) \/ FinishInitiate(n) PROVE StopInv'
  BY <1>0, <1>3, FlexusStop
<1>4. ASSUME NEW n \in Nodes, Tick(n) \/ SendPacket(n) PROVE StopInv'
  BY <1>0, <1>4, TickStop, SendPacketStop
<1>5. QED
  BY <1>1, <1>2, <1>3, <1>4 DEF Next

\* What the flags and messages of the handshake tell about the two clocks is true
\* in every reachable state (pdes-engine.c:459-484, pdes-wwt.c:427-440).
THEOREM StopInductive == Spec => []StopInv
<1>1. CASE InitNodes = {}
  <2>1. Init => TypeOK /\ StopInv
    BY StopInitial, InitType
  <2>2. TypeOK /\ StopInv /\ [Next]_vars => TypeOK' /\ StopInv'
    BY <1>1, StopStep, TypeStep
  <2>3. QED
    BY <2>1, <2>2, PTL DEF Spec
<1>2. CASE InitNodes # {}
  <2>1. StopInv
    BY <1>2 DEF StopInv
  <2>2. QED
    BY <2>1, PTL
<1>3. QED
  BY <1>1, <1>2

\* pdes-engine.c:485: where no checkpoint is requested, a process exits only when
\* both have simulated all their cycles.
THEOREM NobodyIsCutShort == ASSUME InitNodes = {} PROVE Spec => []NotCutShort
<1>1. StopInv => NotCutShort
  BY DEF StopInv, LeaveInv, BothReached, Reached, NotCutShort
<1>2. QED
  BY <1>1, StopInductive, PTL
=============================================================================
