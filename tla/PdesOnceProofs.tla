--------------------------- MODULE PdesOnceProofs ---------------------------
(***************************************************************************)
(* OnceInv is inductive: END and PERMISSION are sent once although two     *)
(* threads send them, and a process that has exited has said END.  From it *)
(* BlockInv, the bound on what a process can have unread: the two main     *)
(* threads are never both blocked in a send.                               *)
(***************************************************************************)
EXTENDS PdesExitProofs, FiniteSetTheorems

-----------------------------------------------------------------------------
(* One place, once. *)

LEMMA OneShort == \A t, x : One(<<>>, t) /\ One(<<x>>, t)
BY DEF One

LEMMA OneAppend ==
  ASSUME NEW s \in Seq(Message), NEW m \in Message, NEW t, One(s, t),
         m.type = t => ~Carries(s, t)
  PROVE  One(Append(s, m), t)
BY AppendElements DEF One, Carries

LEMMA OneTail ==
  ASSUME NEW s \in Seq(Message), s # <<>>, NEW t, One(s, t)
  PROVE  /\ One(Tail(s), t)
         /\ Head(s).type = t => ~Carries(Tail(s), t)
<1>1. /\ 1 \in DOMAIN s /\ Head(s) = s[1]
      /\ \A i \in DOMAIN Tail(s) : i \in Nat /\ i # 0 /\ i + 1 \in DOMAIN s /\ Tail(s)[i] = s[i + 1]
  BY TailElements
<1>2. \A i \in DOMAIN Tail(s) : i + 1 # 1
  BY <1>1
<1>3. \A i, j \in DOMAIN Tail(s) : i + 1 = j + 1 => i = j
  BY <1>1
<1>4. One(Tail(s), t)
  BY <1>1, <1>3 DEF One
<1>5. QED
  BY <1>1, <1>2, <1>4 DEF One, Carries

LEMMA OneJoined ==
  ASSUME NEW s \in Seq(Message), NEW u \in Seq(Message), NEW t,
         One(u, t), ~Carries(s, t)
  PROVE  One(s \o u, t)
<1> SUFFICES ASSUME NEW i \in DOMAIN (s \o u), NEW j \in DOMAIN (s \o u),
                    (s \o u)[i].type = t, (s \o u)[j].type = t
             PROVE  i = j
  BY DEF One
<1>1. \A k \in DOMAIN (s \o u) : (s \o u)[k].type = t =>
        /\ k - Len(s) \in DOMAIN u /\ u[k - Len(s)].type = t
        /\ k \in Nat /\ Len(s) \in Nat
  <2> SUFFICES ASSUME NEW k \in DOMAIN (s \o u), (s \o u)[k].type = t
               PROVE  /\ k - Len(s) \in DOMAIN u /\ u[k - Len(s)].type = t
                      /\ k \in Nat /\ Len(s) \in Nat
    OBVIOUS
  <2>1. k \in DOMAIN s => (s \o u)[k] = s[k]
    OBVIOUS
  <2>2. k \notin DOMAIN s
    BY <2>1 DEF Carries
  <2>3. QED
    BY <2>2
<1>2. i - Len(s) = j - Len(s)
  BY <1>1 DEF One
<1>3. QED
  BY <1>1, <1>2

\* A thread says s: what it says of type t is new and one.
LEMMA OnceSaid ==
  ASSUME NEW a, NEW b, NEW r, NEW t, NEW g, NEW s, OnceIn(a, b, r, t, g), One(s, t)
  PROVE  /\ (Carries(s, t) => ~Carries(b, t) /\ ~Carries(r, t) /\ ~g) => OnceIn(s, b, r, t, g)
         /\ (Carries(s, t) => ~Carries(a, t) /\ ~Carries(r, t) /\ ~g) => OnceIn(a, s, r, t, g)
BY DEF OnceIn

\* The message at the head of what a thread says enters the ring.
LEMMA OnceSent ==
  ASSUME NEW a \in Seq(Message), NEW b \in Seq(Message), NEW r \in Seq(Message),
         NEW t, NEW g, OnceIn(a, b, r, t, g)
  PROVE  /\ a # <<>> => OnceIn(Tail(a), b, Append(r, Head(a)), t, g)
         /\ b # <<>> => OnceIn(a, Tail(b), Append(r, Head(b)), t, g)
<1>1. ASSUME NEW s \in Seq(Message), s # <<>>, One(s, t), Carries(s, t) => ~Carries(r, t)
      PROVE  /\ One(Tail(s), t) /\ One(Append(r, Head(s)), t)
             /\ Carries(Tail(s), t) => ~Carries(Append(r, Head(s)), t)
             /\ Carries(Tail(s), t) => Carries(s, t)
             /\ Carries(Append(r, Head(s)), t) <=> Carries(r, t) \/ Head(s).type = t
             /\ Head(s).type = t => Carries(s, t)
  <2>1. Head(s) \in Message
    BY <1>1
  <2>2. Carries(Append(r, Head(s)), t) <=> Carries(r, t) \/ Head(s).type = t
    BY <2>1, CarriesAppend
  <2>3. Carries(s, t) <=> Head(s).type = t \/ Carries(Tail(s), t)
    BY <1>1, CarriesTail
  <2>4. One(Tail(s), t) /\ (Head(s).type = t => ~Carries(Tail(s), t))
    BY <1>1, OneTail
  <2>5. One(r, t)
    BY DEF OnceIn
  <2>6. One(Append(r, Head(s)), t)
    BY <1>1, <2>1, <2>3, <2>5, OneAppend
  <2>7. QED
    BY <1>1, <2>2, <2>3, <2>4, <2>6
<1>2. QED
  BY <1>1 DEF OnceIn

\* The receiver takes the message at the head of the ring.
LEMMA OnceTaken ==
  ASSUME NEW a, NEW b, NEW r \in Seq(Message), r # <<>>, NEW t, NEW g \in BOOLEAN,
         OnceIn(a, b, r, t, g)
  PROVE  /\ OnceIn(a, b, Tail(r), t, g)
         /\ Head(r).type = t => OnceIn(a, b, Tail(r), t, TRUE)
<1>1. One(Tail(r), t) /\ (Head(r).type = t => ~Carries(Tail(r), t))
  BY OneTail DEF OnceIn
<1>2. Carries(r, t) <=> Head(r).type = t \/ Carries(Tail(r), t)
  BY CarriesTail
<1>3. QED
  BY <1>1, <1>2 DEF OnceIn

-----------------------------------------------------------------------------
(* The places of one type of message after each kind of step. *)

NowOnce(m, t, g) == OnceIn(mainOut'[m], flexusOut'[m], ring'[Peer(m)], t, g)

\* The main thread, or Flexus, of n goes on to say s.
MainSays(n, s) ==
  mainOut[n] = <<>> /\ mainOut' = [mainOut EXCEPT ![n] = s] /\ UNCHANGED <<ring, flexusOut>>
FlexusSays(n, s) ==
  flexusOut[n] = <<>> /\ flexusOut' = [flexusOut EXCEPT ![n] = s] /\ UNCHANGED <<ring, mainOut>>

LEMMA NowSilent ==
  ASSUME NEW m, NEW t, NEW g, Once(m, t, g), UNCHANGED wire
  PROVE  NowOnce(m, t, g)
BY DEF Once, NowOnce, wire

LEMMA NowSaid ==
  ASSUME TypeOK, NEW n \in Nodes, NEW m \in Nodes, NEW t, NEW g, Once(m, t, g),
         NEW s, One(s, t), MainSays(n, s) \/ FlexusSays(n, s),
         m = n /\ Carries(s, t) => ~UnderWay(n, t) /\ ~g
  PROVE  NowOnce(m, t, g)
<1>1. /\ m # n => mainOut'[m] = mainOut[m] /\ flexusOut'[m] = flexusOut[m]
      /\ ring'[Peer(m)] = ring[Peer(m)]
  BY DEF TypeOK, MainSays, FlexusSays
<1>2. \/ mainOut'[n] = s /\ flexusOut'[n] = flexusOut[n]
      \/ mainOut'[n] = mainOut[n] /\ flexusOut'[n] = s
  BY DEF TypeOK, MainSays, FlexusSays
<1>3. CASE m # n
  BY <1>1, <1>3 DEF Once, NowOnce
<1>4. CASE m = n
  BY <1>1, <1>2, <1>4, OnceSaid DEF Once, NowOnce, UnderWay
<1>5. QED
  BY <1>3, <1>4

LEMMA NowSent ==
  ASSUME TypeOK, NEW n \in Nodes, NEW m \in Nodes, NEW t, NEW g, Once(m, t, g),
         MainSend(n) \/ FlexusSend(n)
  PROVE  NowOnce(m, t, g)
<1>1. /\ Peer(n) \in Nodes /\ Peer(m) \in Nodes /\ (m # n => Peer(m) # Peer(n))
      /\ mainOut[n] \in Seq(Message) /\ flexusOut[n] \in Seq(Message)
      /\ ring[Peer(n)] \in Seq(Message)
  BY TwoNodes DEF TypeOK
<1>2. CASE MainSend(n)
  <2>1. /\ mainOut[n] # <<>> /\ ring'[Peer(n)] = Append(ring[Peer(n)], Head(mainOut[n]))
        /\ mainOut'[n] = Tail(mainOut[n]) /\ flexusOut' = flexusOut
        /\ m # n => mainOut'[m] = mainOut[m] /\ ring'[Peer(m)] = ring[Peer(m)]
    BY <1>1, <1>2 DEF MainSend, CommSend, TypeOK
  <2>2. CASE m # n
    BY <2>1, <2>2 DEF Once, NowOnce
  <2>3. CASE m = n
    BY <1>1, <2>1, <2>3, OnceSent DEF Once, NowOnce
  <2>4. QED
    BY <2>2, <2>3
<1>3. CASE FlexusSend(n)
  <2>1. /\ flexusOut[n] # <<>> /\ ring'[Peer(n)] = Append(ring[Peer(n)], Head(flexusOut[n]))
        /\ flexusOut'[n] = Tail(flexusOut[n]) /\ mainOut' = mainOut
        /\ m # n => flexusOut'[m] = flexusOut[m] /\ ring'[Peer(m)] = ring[Peer(m)]
    BY <1>1, <1>3 DEF FlexusSend, CommSend, TypeOK
  <2>2. CASE m # n
    BY <2>1, <2>2 DEF Once, NowOnce
  <2>3. CASE m = n
    BY <1>1, <2>1, <2>3, OnceSent DEF Once, NowOnce
  <2>4. QED
    BY <2>2, <2>3
<1>4. QED
  BY <1>2, <1>3

\* n receives a message of type u, and may answer s.
Takes(n, u, s) ==
  /\ Receiving(n, u)
  /\ UNCHANGED flexusOut
  /\ mainOut' = [mainOut EXCEPT ![n] = s] \/ (UNCHANGED mainOut /\ s = <<>>)

LEMMA NowTaken ==
  ASSUME TypeOK, NEW n \in Nodes, NEW m \in Nodes, NEW t, NEW g \in BOOLEAN, Once(m, t, g),
         NEW u, NEW s, One(s, t), Takes(n, u, s),
         m = n /\ Carries(s, t) => ~UnderWay(n, t) /\ ~g
  PROVE  /\ NowOnce(m, t, g)
         /\ m = Peer(n) /\ t = u => NowOnce(m, t, TRUE)
<1>1. /\ ring[n] \in Seq(Message) /\ ring[n] # <<>> /\ Head(ring[n]).type = u
      /\ ring'[n] = Tail(ring[n]) /\ flexusOut' = flexusOut
      /\ \A p \in Nodes \ {n} : ring'[p] = ring[p] /\ mainOut'[p] = mainOut[p]
      /\ mainOut'[n] = s \/ mainOut'[n] = mainOut[n]
  BY DEF TypeOK, Takes, Receiving
<1>2. Peer(n) # n /\ Peer(m) \in Nodes /\ (Peer(m) = n <=> m # n)
  BY TwoNodes
<1>3. CASE m = n
  <2>1. /\ OnceIn(mainOut[n], flexusOut[n], ring[Peer(n)], t, g)
        /\ flexusOut'[n] = flexusOut[n] /\ ring'[Peer(n)] = ring[Peer(n)]
    BY <1>1, <1>2, <1>3 DEF Once
  <2>2. Carries(s, t) => ~Carries(flexusOut[n], t) /\ ~Carries(ring[Peer(n)], t) /\ ~g
    BY <1>3 DEF UnderWay
  <2>3. OnceIn(s, flexusOut[n], ring[Peer(n)], t, g)
    BY <2>1, <2>2, OnceSaid
  <2>4. NowOnce(n, t, g)
    BY <1>1, <2>1, <2>3 DEF NowOnce
  <2>5. QED
    BY <1>2, <1>3, <2>4
<1>4. CASE m # n
  BY <1>1, <1>2, <1>4, OnceTaken DEF Once, NowOnce
<1>5. QED
  BY <1>2, <1>3, <1>4

-----------------------------------------------------------------------------
(* END *)

OnceBase == TypeOK /\ TypeOK' /\ EndOnce

\* Nobody forgets that END has been sent, or received.
KeepsEnd ==
  \A m \in Nodes : /\ ex[m].endSent => ex'[m].endSent
                   /\ ex'[m].pairFin = ex[m].pairFin

LEMMA OnceAt ==
  ASSUME OnceBase, NEW m \in Nodes
  PROVE  /\ Once(m, "END", ex[Peer(m)].pairFin) /\ ex[Peer(m)].pairFin \in BOOLEAN
         /\ UnderWay(m, "END") \/ ex[Peer(m)].pairFin => ex[m].endSent
         /\ Peer(m) \in Nodes
<1>1. Peer(m) \in Nodes /\ ex[Peer(m)] \in ExitFields
  BY TwoNodes DEF OnceBase, TypeOK
<1>2. ex[Peer(m)].pairFin \in BOOLEAN
  BY <1>1 DEF ExitFields
<1>3. QED
  BY <1>1, <1>2 DEF OnceBase, EndOnce

LEMMA EndOnceSilent == ASSUME OnceBase, KeepsEnd, UNCHANGED wire PROVE EndOnce'
<1> SUFFICES ASSUME NEW m \in Nodes
             PROVE  (Once(m, "END", ex[Peer(m)].pairFin)
                     /\ (UnderWay(m, "END") \/ ex[Peer(m)].pairFin => ex[m].endSent))'
  BY DEF EndOnce
<1>1. QED
  BY OnceAt DEF Once, UnderWay, KeepsEnd, wire

\* A thread of n says s, which holds END once and only for the first time.
LEMMA EndOnceSaid ==
  ASSUME OnceBase, KeepsEnd, NEW n \in Nodes, NEW s, MainSays(n, s) \/ FlexusSays(n, s),
         One(s, "END"), Carries(s, "END") => ~ex[n].endSent /\ ex'[n].endSent
  PROVE  EndOnce'
<1> SUFFICES ASSUME NEW m \in Nodes
             PROVE  (Once(m, "END", ex[Peer(m)].pairFin)
                     /\ (UnderWay(m, "END") \/ ex[Peer(m)].pairFin => ex[m].endSent))'
  BY DEF EndOnce
<1>0. TypeOK
  BY DEF OnceBase
<1>1. NowOnce(m, "END", ex[Peer(m)].pairFin)
  BY <1>0, OnceAt, NowSaid
<1>2. ex'[Peer(m)].pairFin = ex[Peer(m)].pairFin
  BY OnceAt DEF KeepsEnd
<1>3. UnderWay(m, "END")' => UnderWay(m, "END") \/ (m = n /\ Carries(s, "END"))
  BY <1>0 DEF UnderWay, MainSays, FlexusSays, TypeOK
<1>4. QED
  BY <1>1, <1>2, <1>3, OnceAt DEF Once, NowOnce, KeepsEnd

LEMMA EndOnceSent ==
  ASSUME OnceBase, NEW n \in Nodes, MainSend(n) \/ FlexusSend(n) PROVE EndOnce'
<1> SUFFICES ASSUME NEW m \in Nodes
             PROVE  (Once(m, "END", ex[Peer(m)].pairFin)
                     /\ (UnderWay(m, "END") \/ ex[Peer(m)].pairFin => ex[m].endSent))'
  BY DEF EndOnce
<1>0. TypeOK /\ UNCHANGED ex
  BY DEF OnceBase, MainSend, FlexusSend
<1>1. NowOnce(m, "END", ex[Peer(m)].pairFin)
  BY <1>0, OnceAt, NowSent
<1>2. UnderWay(m, "END")' => UnderWay(m, "END")
  BY <1>0, AddsSent, CarriesNothing DEF Adds
<1>3. QED
  BY <1>0, <1>1, <1>2, OnceAt DEF Once, NowOnce

\* A message leaves the ring of n; END does so into pair_has_finished.
LEMMA EndOnceTaken ==
  ASSUME OnceBase, NEW n \in Nodes, NEW u \in MsgTypes, NEW s, Takes(n, u, s),
         One(s, "END"), Carries(s, "END") => ~ex[n].endSent /\ ex'[n].endSent,
         \A m \in Nodes : ex[m].endSent => ex'[m].endSent,
         \A m \in Nodes \ {n} : ex'[m].pairFin = ex[m].pairFin,
         ex'[n].pairFin = ex[n].pairFin \/ (u = "END" /\ ex'[n].pairFin = TRUE)
  PROVE  EndOnce'
<1> SUFFICES ASSUME NEW m \in Nodes
             PROVE  (Once(m, "END", ex[Peer(m)].pairFin)
                     /\ (UnderWay(m, "END") \/ ex[Peer(m)].pairFin => ex[m].endSent))'
  BY DEF EndOnce
<1>0. TypeOK /\ Peer(m) \in Nodes /\ Peer(n) \in Nodes /\ (Peer(m) = n <=> m = Peer(n))
  BY TwoNodes DEF OnceBase
<1>1. /\ NowOnce(m, "END", ex[Peer(m)].pairFin)
      /\ m = Peer(n) /\ u = "END" => NowOnce(m, "END", TRUE)
  <2>1. /\ Once(m, "END", ex[Peer(m)].pairFin) /\ ex[Peer(m)].pairFin \in BOOLEAN
        /\ UnderWay(m, "END") \/ ex[Peer(m)].pairFin => ex[m].endSent
    BY OnceAt
  <2>2. m = n /\ Carries(s, "END") => ~UnderWay(n, "END") /\ ~ex[Peer(m)].pairFin
    BY <2>1
  <2>3. QED
    BY <1>0, <2>1, <2>2, NowTaken
<1>2. Adds(n, s) /\ UnderWay(Peer(n), u)
  BY <1>0, AddsReceived DEF Takes
<1>3. UnderWay(m, "END")' => ex'[m].endSent
  BY <1>2, OnceAt DEF Adds
<1>4. ex'[Peer(m)].pairFin => ex'[m].endSent
  BY <1>0, <1>2, OnceAt
<1>5. Once(m, "END", ex[Peer(m)].pairFin)'
  BY <1>0, <1>1 DEF Once, NowOnce
<1>6. QED
  BY <1>3, <1>4, <1>5

\* The functions that say END say it once, and only for the first time.
LEMMA EndLine ==
  ASSUME NEW e \in ExitFields
  PROVE  /\ One(EndIfPermitted(e), "END") /\ One(NotifyEndMessages(e), "END")
         /\ Carries(EndIfPermitted(e), "END") => ~e.endSent /\ AfterEnd(e).endSent
         /\ Carries(NotifyEndMessages(e), "END") => ~e.endSent /\ NotifyEndFields(e).endSent
         /\ e.endSent => AfterEnd(e).endSent /\ NotifyEndFields(e).endSent
<1>1. AfterEnd(e) \in ExitFields /\ AfterEnd(e).endSent = (e.endSent \/ e.permitted)
  BY EndType DEF AfterEnd, ExitFields
<1>2. One(EndIfPermitted(e), "END") /\ One(NotifyEndMessages(e), "END")
  BY OneShort DEF EndIfPermitted, NotifyEndMessages
<1>3. Carries(EndIfPermitted(e), "END") => e.permitted /\ ~e.endSent
  BY CarriesNothing DEF EndIfPermitted
<1>4. ~e.notified => NotifyEndFields(e).endSent = AfterEnd(e).endSent
  BY <1>1 DEF NotifyEndFields, ExitFields
<1>5. e.notified => NotifyEndFields(e) = e
  BY DEF NotifyEndFields
<1>6. QED
  BY <1>1, <1>2, <1>3, <1>4, <1>5, CarriesNothing DEF NotifyEndMessages

LEMMA KeepsEndAt ==
  ASSUME TypeOK, NEW n \in Nodes, NEW e, ex' = [ex EXCEPT ![n] = e],
         ex[n].endSent => e.endSent, e.pairFin = ex[n].pairFin
  PROVE  KeepsEnd /\ ex'[n] = e
BY DEF KeepsEnd, TypeOK

\* What no step but those of the handshake says.
LEMMA OtherLines ==
  ASSUME TypeOK, NEW n \in Nodes
  PROVE  \A s \in {DrainStart(n), DrainStart(n) \o SyncMessage(n), DrainMessages(n), <<>>,
                   <<Msg("INTENT", 0)>>, <<Msg("INIT_STEP", 0)>>} :
           \A t \in {"END", "PERMISSION"} : One(s, t) /\ ~Carries(s, t)
<1> SUFFICES ASSUME NEW s \in {DrainStart(n), DrainStart(n) \o SyncMessage(n), DrainMessages(n),
                              <<>>, <<Msg("INTENT", 0)>>, <<Msg("INIT_STEP", 0)>>},
                    NEW t \in {"END", "PERMISSION"}
             PROVE  One(s, t) /\ ~Carries(s, t)
  OBVIOUS
<1>1. ~Carries(s, t)
  BY Speech
<1>2. QED
  BY <1>1 DEF One, Carries

LEMMA ReceiveOnce == ASSUME OnceBase, NEW n \in Nodes, Receive(n) PROVE EndOnce'
<1>0. TypeOK /\ ex[n] \in ExitFields /\ One(<<>>, "END") /\ ~Carries(<<>>, "END")
  BY OneShort, CarriesNothing DEF OnceBase, TypeOK
<1>1. ASSUME NEW u \in MsgTypes, Takes(n, u, <<>>), UNCHANGED ex PROVE EndOnce'
  BY <1>0, <1>1, EndOnceTaken
<1>2. CASE RecvNormal(n) \/ RecvSync(n)
  BY <1>1, <1>2 DEF RecvNormal, RecvSync, Takes, MsgTypes
<1>3. CASE RecvDrainStart(n) \/ RecvDrainEnd(n) \/ RecvInitStep(n)
  BY <1>1, <1>3 DEF RecvDrainStart, RecvDrainEnd, RecvInitStep, Takes, MsgTypes
<1>4. CASE RecvIntent(n)
  <2> DEFINE v == IF n = Master THEN ex[n].nbrs + 1 ELSE ex[n].nbrs
             e == [ex[n] EXCEPT !.nbrs = v]
  <2>1. e.endSent = ex[n].endSent /\ e.pairFin = ex[n].pairFin
    BY <1>0 DEF ExitFields
  <2>2. ex' = [ex EXCEPT ![n] = e] /\ Takes(n, "INTENT", <<>>)
    BY <1>4 DEF RecvIntent, Takes
  <2> HIDE DEF e
  <2>3. KeepsEnd
    BY <1>0, <2>1, <2>2, KeepsEndAt
  <2>4. QED
    BY <1>0, <2>2, <2>3, EndOnceTaken DEF KeepsEnd, MsgTypes
<1>5. CASE RecvPermission(n)
  <2> DEFINE e == [ex[n] EXCEPT !.permitted = TRUE]
             s == EndIfPermitted(e)
  <2>1. e \in ExitFields /\ e.endSent = ex[n].endSent /\ e.pairFin = ex[n].pairFin
    BY <1>0 DEF ExitFields
  <2>2. ex' = [ex EXCEPT ![n] = AfterEnd(e)] /\ Takes(n, "PERMISSION", s)
    BY <1>5 DEF RecvPermission, Takes
  <2> HIDE DEF e
  <2>3. KeepsEnd /\ ex'[n] = AfterEnd(e)
    <3>1. AfterEnd(e).pairFin = e.pairFin /\ (e.endSent => AfterEnd(e).endSent)
      BY <2>1, EndLine, EndSpeech
    <3>2. QED
      BY <1>0, <2>1, <2>2, <3>1, KeepsEndAt
  <2>4. One(s, "END") /\ (Carries(s, "END") => ~ex[n].endSent /\ ex'[n].endSent)
    BY <2>1, <2>3, EndLine
  <2> HIDE DEF s
  <2>5. QED
    BY <2>2, <2>3, <2>4, EndOnceTaken DEF KeepsEnd, MsgTypes
<1>6. CASE RecvEnd(n)
  <2>1. Takes(n, "END", <<>>)
    BY <1>6 DEF RecvEnd, Takes
  <2>2. UNCHANGED ex \/ ex' = [ex EXCEPT ![n] = [ex[n] EXCEPT !.pairFin = TRUE]]
    BY <1>6, Zenon DEF RecvEnd
  <2>3. /\ \A m \in Nodes : ex'[m].endSent = ex[m].endSent
        /\ \A m \in Nodes \ {n} : ex'[m].pairFin = ex[m].pairFin
        /\ ex'[n].pairFin = ex[n].pairFin \/ ex'[n].pairFin = TRUE
    <3>1. LET e == [ex[n] EXCEPT !.pairFin = TRUE] IN
            e.endSent = ex[n].endSent /\ e.pairFin = TRUE
      BY <1>0 DEF ExitFields
    <3>2. QED
      BY <1>0, <2>2, <3>1 DEF TypeOK
  <2>4. QED
    BY <1>0, <2>1, <2>3, EndOnceTaken DEF MsgTypes
<1>7. CASE PollDone(n)
  BY <1>7, EndOnceSilent DEF PollDone, KeepsEnd
<1>8. QED
  BY <1>2, <1>3, <1>4, <1>5, <1>6, <1>7 DEF Receive

\* A step of the main thread that says s.
LEMMA MainOnce ==
  ASSUME OnceBase, NEW n \in Nodes, mainOut[n] = <<>>, UNCHANGED <<ring, flexusOut>>,
         NEW s, mainOut' = [mainOut EXCEPT ![n] = s], One(s, "END"),
         NEW e, ex' = [ex EXCEPT ![n] = e], e.pairFin = ex[n].pairFin,
         ex[n].endSent => e.endSent, Carries(s, "END") => ~ex[n].endSent /\ e.endSent
  PROVE  EndOnce'
<1>1. KeepsEnd /\ ex'[n] = e
  BY KeepsEndAt DEF OnceBase
<1>2. MainSays(n, s)
  BY DEF MainSays
<1>3. QED
  BY <1>1, <1>2, EndOnceSaid

LEMMA DispatchOnce == ASSUME OnceBase, NEW n \in Nodes, Dispatch(n) PROVE EndOnce'
<1>0. TypeOK /\ ex[n] \in ExitFields
  BY DEF OnceBase, TypeOK
<1>1. CASE ~CheckpointBH(n)
  <2>1. UNCHANGED wire /\ UNCHANGED ex
    BY <1>1 DEF Dispatch, HostPoll, PauseBh, SetupWWT, Deliver, QuantaSync, SyncCheck
  <2>2. QED
    BY <2>1, EndOnceSilent DEF KeepsEnd
<1>2. CASE CheckpointBH(n)
  <2>1. CASE n = Master
    <3> DEFINE s == DrainMessages(n) \o NotifyEndMessages(ex[n])
               e == NotifyEndFields(ex[n])
    <3>1. /\ mainOut[n] = <<>> /\ UNCHANGED <<ring, flexusOut>>
          /\ mainOut' = [mainOut EXCEPT ![n] = s] /\ ex' = [ex EXCEPT ![n] = e]
      BY <1>2, <2>1 DEF CheckpointBH, InEventLoop, MainReady
    <3>2. DrainMessages(n) \in Seq(Message) /\ NotifyEndMessages(ex[n]) \in Seq(Message)
      BY <1>0, DrainType, EndType
    <3>3. ~Carries(DrainMessages(n), "END")
      BY <1>0, Speech
    <3>4. One(s, "END") /\ (Carries(s, "END") => Carries(NotifyEndMessages(ex[n]), "END"))
      BY <1>0, <3>2, <3>3, EndLine, OneJoined, CarriesJoined
    <3>5. /\ e.pairFin = ex[n].pairFin /\ (ex[n].endSent => e.endSent)
          /\ Carries(s, "END") => ~ex[n].endSent /\ e.endSent
      BY <1>0, <3>4, EndLine, EndSpeech
    <3> HIDE DEF s, e
    <3>6. QED
      BY <3>1, <3>4, <3>5, MainOnce
  <2>2. CASE n # Master
    <3>1. UNCHANGED <<ring, flexusOut, mainOut>> /\ UNCHANGED ex
      BY <1>2, <2>2 DEF CheckpointBH
    <3>2. QED
      BY <3>1, EndOnceSilent DEF KeepsEnd, wire
  <2>3. QED
    BY <2>1, <2>2
<1>3. QED
  BY <1>1, <1>2

LEMMA BoundaryOnce == ASSUME OnceBase, NEW n \in Nodes, Boundary(n) PROVE EndOnce'
<1>0. TypeOK /\ ex[n] \in ExitFields
  BY DEF OnceBase, TypeOK
<1>1. CASE NotifyAndSync(n) \/ BoundaryNotify(n)
  <2>1. \E s \in {DrainStart(n), DrainStart(n) \o SyncMessage(n)} :
          mainOut' = [mainOut EXCEPT ![n] = s]
    BY <1>1 DEF NotifyAndSync, BoundaryNotify
  <2>2. mainOut[n] = <<>> /\ UNCHANGED <<ring, flexusOut>> /\ UNCHANGED ex
    BY <1>1 DEF NotifyAndSync, BoundaryNotify, MainAt, MainReady
  <2>3. ex' = [ex EXCEPT ![n] = ex[n]]
    BY <1>0, <2>2, SameAt
  <2>4. QED
    BY <1>0, <2>1, <2>2, <2>3, OtherLines, MainOnce
<1>2. CASE PermitGrant(n)
  <2> DEFINE e == [ex[n] EXCEPT !.permitted = TRUE]
  <2>1. e.endSent = ex[n].endSent /\ e.pairFin = ex[n].pairFin
    BY <1>0 DEF ExitFields
  <2>2. /\ mainOut[n] = <<>> /\ UNCHANGED <<ring, flexusOut>> /\ ex' = [ex EXCEPT ![n] = e]
        /\ mainOut' = [mainOut EXCEPT ![n] = <<Msg("PERMISSION", 0)>>]
    BY <1>2 DEF PermitGrant, MainAt, MainReady
  <2> HIDE DEF e
  <2>3. QED
    BY <1>0, <2>1, <2>2, OneShort, Speech, MainOnce
<1>3. CASE PermitEnd(n)
  <2>1. /\ mainOut[n] = <<>> /\ UNCHANGED <<ring, flexusOut>>
        /\ ex' = [ex EXCEPT ![n] = AfterEnd(ex[n])]
        /\ mainOut' = [mainOut EXCEPT ![n] = EndIfPermitted(ex[n])]
    BY <1>3 DEF PermitEnd, MainAt, MainReady
  <2>2. QED
    BY <1>0, <2>1, EndLine, EndSpeech, MainOnce
<1>4. CASE SpinDestroy(n)
  <2>1. /\ mainOut[n] = <<>> /\ UNCHANGED <<ring, flexusOut>>
        /\ ex' = [ex EXCEPT ![n] = NotifyEndFields(ex[n])]
        /\ mainOut' = [mainOut EXCEPT ![n] = NotifyEndMessages(ex[n])]
    BY <1>4 DEF SpinDestroy, Destroy, MainAt, MainReady
  <2>2. QED
    BY <1>0, <2>1, EndLine, EndSpeech, MainOnce
<1>5. ASSUME Boundary(n), ~NotifyAndSync(n), ~BoundaryNotify(n), ~PermitGrant(n),
             ~PermitEnd(n), ~SpinDestroy(n)
      PROVE  UNCHANGED wire /\ UNCHANGED ex
  BY <1>5 DEF Boundary, CheckCount, SpinOn, SpinStop, BoundaryCheckpoint, BoundaryTooLate,
     BoundaryPass, Permit, Advance, Exit
<1>6. QED
  BY <1>1, <1>2, <1>3, <1>4, <1>5, EndOnceSilent DEF KeepsEnd

\* A step of Flexus that says s.
LEMMA FlexusOnceSays ==
  ASSUME OnceBase, NEW n \in Nodes, flexusOut[n] = <<>>, UNCHANGED <<ring, mainOut>>,
         NEW s, flexusOut' = [flexusOut EXCEPT ![n] = s], One(s, "END"),
         NEW e, ex' = [ex EXCEPT ![n] = e], e.pairFin = ex[n].pairFin,
         ex[n].endSent => e.endSent, Carries(s, "END") => ~ex[n].endSent /\ e.endSent
  PROVE  EndOnce'
<1>1. KeepsEnd /\ ex'[n] = e
  BY KeepsEndAt DEF OnceBase
<1>2. FlexusSays(n, s)
  BY DEF FlexusSays
<1>3. QED
  BY <1>1, <1>2, EndOnceSaid

LEMMA FlexusOnce ==
  ASSUME OnceBase, NEW n \in Nodes, FlexusThread(n) \/ FinishInitiate(n) PROVE EndOnce'
<1>0. TypeOK /\ ex[n] \in ExitFields
  BY DEF OnceBase, TypeOK
<1>1. CASE FlexusSend(n)
  BY <1>1, EndOnceSent
<1>2. CASE CanStop(n)
  <2>1. CASE n = Master
    <3>1. UNCHANGED wire /\ UNCHANGED ex
      BY <1>2, <2>1 DEF CanStop, wire
    <3>2. QED
      BY <3>1, EndOnceSilent DEF KeepsEnd
  <2>2. CASE n # Master
    <3> DEFINE e == [ex[n] EXCEPT !.intent = TRUE]
               s == IF ex[n].intent THEN <<>> ELSE <<Msg("INTENT", 0)>>
    <3>1. e.endSent = ex[n].endSent /\ e.pairFin = ex[n].pairFin
      BY <1>0 DEF ExitFields
    <3>2. /\ flexusOut[n] = <<>> /\ UNCHANGED <<ring, mainOut>> /\ ex' = [ex EXCEPT ![n] = e]
          /\ flexusOut' = [flexusOut EXCEPT ![n] = s]
      BY <1>2, <2>2 DEF CanStop, FlexusAt
    <3>3. One(s, "END") /\ ~Carries(s, "END")
      BY <1>0, OtherLines
    <3> HIDE DEF e, s
    <3>4. QED
      BY <3>1, <3>2, <3>3, FlexusOnceSays
  <2>3. QED
    BY <2>1, <2>2
<1>3. CASE CanStopGrant(n)
  <2> DEFINE e == [ex[n] EXCEPT !.permitted = TRUE]
  <2>1. e.endSent = ex[n].endSent /\ e.pairFin = ex[n].pairFin
    BY <1>0 DEF ExitFields
  <2>2. /\ flexusOut[n] = <<>> /\ UNCHANGED <<ring, mainOut>> /\ ex' = [ex EXCEPT ![n] = e]
        /\ flexusOut' = [flexusOut EXCEPT ![n] = <<Msg("PERMISSION", 0)>>]
    BY <1>3 DEF CanStopGrant, FlexusAt
  <2> HIDE DEF e
  <2>3. QED
    BY <1>0, <2>1, <2>2, OneShort, Speech, FlexusOnceSays
<1>4. CASE CanStopEnd(n)
  <2>1. /\ flexusOut[n] = <<>> /\ UNCHANGED <<ring, mainOut>>
        /\ ex' = [ex EXCEPT ![n] = AfterEnd(ex[n])]
        /\ flexusOut' = [flexusOut EXCEPT ![n] = EndIfPermitted(ex[n])]
    BY <1>4 DEF CanStopEnd, FlexusAt
  <2>2. QED
    BY <1>0, <2>1, EndLine, EndSpeech, FlexusOnceSays
<1>5. CASE CanStopAnswer(n)
  <2> DEFINE e == [ex[n] EXCEPT !.ready = TRUE]
  <2>1. e.endSent = ex[n].endSent /\ e.pairFin = ex[n].pairFin
    BY <1>0 DEF ExitFields
  <2>2. UNCHANGED wire /\ ex' = [ex EXCEPT ![n] = e]
    BY <1>5 DEF CanStopAnswer
  <2> HIDE DEF e
  <2>3. KeepsEnd
    BY <1>0, <2>1, <2>2, KeepsEndAt
  <2>4. QED
    BY <2>2, <2>3, EndOnceSilent
<1>6. CASE SetCheckpointFlags(n) \/ SetCheckpointRound(n)
  BY <1>6, EndOnceSilent DEF SetCheckpointFlags, SetCheckpointRound, KeepsEnd
<1>7. CASE FinishInitiate(n)
  <2>1. UNCHANGED ex /\ UNCHANGED <<ring, mainOut>> /\ flexusOut[n] = <<>>
    BY <1>7 DEF FinishInitiate, FlexusAt
  <2>2. UNCHANGED flexusOut \/ flexusOut' = [flexusOut EXCEPT ![n] = <<Msg("INIT_STEP", 0)>>]
    BY <1>7, Zenon DEF FinishInitiate
  <2>3. CASE UNCHANGED flexusOut
    BY <2>1, <2>3, EndOnceSilent DEF KeepsEnd, wire
  <2>4. ex' = [ex EXCEPT ![n] = ex[n]]
    BY <1>0, <2>1, SameAt
  <2>5. QED
    BY <1>0, <2>1, <2>2, <2>3, <2>4, OtherLines, FlexusOnceSays
<1>8. QED
  BY <1>1, <1>2, <1>3, <1>4, <1>5, <1>6, <1>7 DEF FlexusThread

LEMMA GuestOnce ==
  ASSUME OnceBase, NEW n \in Nodes, Tick(n) \/ SendPacket(n) PROVE EndOnce'
<1>0. TypeOK /\ ex[n] \in ExitFields
  BY DEF OnceBase, TypeOK
<1>1. CASE Tick(n)
  BY <1>1, EndOnceSilent DEF Tick, KeepsEnd
<1>2. CASE SendPacket(n)
  <2> DEFINE s == <<Packet(n)>>
  <2>1. now[n] + Quantum \in Nat
    BY <1>0, SizeAssumption DEF TypeOK
  <2>2. One(s, "END") /\ ~Carries(s, "END")
    BY <2>1, OneShort, CarriesOne DEF Packet, MsgTypes
  <2>3. mainOut[n] = <<>> /\ UNCHANGED <<ring, flexusOut>> /\ UNCHANGED ex
        /\ mainOut' = [mainOut EXCEPT ![n] = s]
    BY <1>2 DEF SendPacket, InEventLoop, MainReady
  <2>4. ex' = [ex EXCEPT ![n] = ex[n]]
    BY <1>0, <2>3, SameAt
  <2> HIDE DEF s
  <2>5. QED
    BY <2>2, <2>3, <2>4, MainOnce
<1>3. QED
  BY <1>1, <1>2

LEMMA EndOnceStep == ASSUME TypeOK, EndOnce, [Next]_vars PROVE EndOnce'
<1>0. OnceBase
  BY TypeStep DEF OnceBase
<1>1. CASE UNCHANGED vars
  BY <1>0, <1>1, EndOnceSilent DEF vars, KeepsEnd
<1>2. ASSUME NEW n \in Nodes, MainThread(n) PROVE EndOnce'
  BY <1>0, <1>2, EndOnceSent, ReceiveOnce, DispatchOnce, BoundaryOnce DEF MainThread
<1>3. QED
  BY <1>0, <1>1, <1>2, FlexusOnce, GuestOnce DEF Next

LEMMA EndOnceInitial == Init => EndOnce
<1> SUFFICES ASSUME Init, NEW n \in Nodes
             PROVE  /\ Once(n, "END", ex[Peer(n)].pairFin)
                    /\ UnderWay(n, "END") \/ ex[Peer(n)].pairFin => ex[n].endSent
  BY DEF EndOnce
<1>1. Peer(n) \in Nodes
  BY TwoNodes
<1>2. /\ mainOut[n] = <<>> /\ flexusOut[n] = <<>> /\ ring[Peer(n)] = <<>>
      /\ ~ex[Peer(n)].pairFin
  BY <1>1 DEF Init, InitEngine
<1>3. QED
  BY <1>2, CarriesNothing, OneShort DEF Once, OnceIn, UnderWay

\* What is in one place once counts once.
LEMMA OneCount ==
  ASSUME NEW s, NEW t, One(s, t)
  PROVE  Cardinality(OfType(s, t)) = IF Carries(s, t) THEN 1 ELSE 0
<1>1. CASE Carries(s, t)
  <2>1. PICK i \in DOMAIN s : s[i].type = t
    BY <1>1 DEF Carries
  <2>2. OfType(s, t) = {i}
    BY <2>1 DEF One, OfType
  <2>3. QED
    BY <1>1, <2>2, FS_Singleton
<1>2. CASE ~Carries(s, t)
  <2>1. OfType(s, t) = {}
    BY <1>2 DEF Carries, OfType
  <2>2. QED
    BY <1>2, <2>1, FS_EmptySet
<1>3. QED
  BY <1>1, <1>2

LEMMA OnceCount ==
  ASSUME NEW n \in Nodes, NEW t, NEW g \in BOOLEAN, Once(n, t, g)
  PROVE  InTransit(n, t) + (IF g THEN 1 ELSE 0) <= 1
<1>1. /\ Cardinality(OfType(mainOut[n], t)) = IF Carries(mainOut[n], t) THEN 1 ELSE 0
      /\ Cardinality(OfType(flexusOut[n], t)) = IF Carries(flexusOut[n], t) THEN 1 ELSE 0
      /\ Cardinality(OfType(ring[Peer(n)], t)) = IF Carries(ring[Peer(n)], t) THEN 1 ELSE 0
  BY OneCount DEF Once, OnceIn
<1>2. QED
  BY <1>1 DEF InTransit, Once, OnceIn

LEMMA EndCounted == ASSUME TypeOK, EndOnce PROVE EndSentOnce
<1> SUFFICES ASSUME NEW n \in Nodes
             PROVE  InTransit(n, "END") + (IF ex[Peer(n)].pairFin THEN 1 ELSE 0) <= 1
  BY DEF EndSentOnce
<1>1. Once(n, "END", ex[Peer(n)].pairFin) /\ ex[Peer(n)] \in ExitFields
  BY TwoNodes DEF EndOnce, TypeOK
<1>2. QED
  BY <1>1, OnceCount DEF ExitFields

-----------------------------------------------------------------------------
(* What every kind of step leaves on the way. *)

\* In a step n says s, or moves on what it has said, or takes a message of type u.
Speaks(n, u, s) ==
  \/ u = "none" /\ s = <<>> /\ (UNCHANGED wire \/ MainSend(n) \/ FlexusSend(n))
  \/ u = "none" /\ (MainSays(n, s) \/ FlexusSays(n, s))
  \/ u \in MsgTypes /\ Takes(n, u, s)

\* What a thread is blocked on is what it was blocked on, or s.
LEMMA SpokenOut ==
  ASSUME TypeOK, NEW n \in Nodes, NEW u, NEW s, Speaks(n, u, s), NEW m \in Nodes, NEW t
  PROVE  /\ Carries(mainOut'[m], t) => Carries(mainOut[m], t) \/ (m = n /\ Carries(s, t))
         /\ Carries(flexusOut'[m], t) => Carries(flexusOut[m], t) \/ (m = n /\ Carries(s, t))
<1>1. CASE UNCHANGED wire
  BY <1>1 DEF wire
<1>2. CASE MainSend(n) \/ FlexusSend(n)
  <2>1. mainOut[n] \in Seq(Message) /\ flexusOut[n] \in Seq(Message)
    BY DEF TypeOK
  <2>2. /\ mainOut'[m] = mainOut[m] \/ (m = n /\ mainOut[n] # <<>> /\ mainOut'[n] = Tail(mainOut[n]))
        /\ flexusOut'[m] = flexusOut[m]
           \/ (m = n /\ flexusOut[n] # <<>> /\ flexusOut'[n] = Tail(flexusOut[n]))
    BY <1>2 DEF MainSend, FlexusSend, CommSend, TypeOK
  <2>3. QED
    BY <2>1, <2>2, CarriesTail
<1>3. CASE MainSays(n, s) \/ FlexusSays(n, s) \/ Takes(n, u, s)
  BY <1>3 DEF MainSays, FlexusSays, Takes, TypeOK
<1>4. QED
  BY <1>1, <1>2, <1>3 DEF Speaks

\* Nothing is lost but what is taken, and s is under way.
LEMMA SpokenStays ==
  ASSUME TypeOK, NEW n \in Nodes, NEW u, NEW s, Speaks(n, u, s), NEW m \in Nodes, NEW t
  PROVE  /\ UnderWay(m, t) => UnderWay(m, t)' \/ (m = Peer(n) /\ t = u)
         /\ Carries(s, t) => UnderWay(n, t)'
<1>0. /\ Peer(n) \in Nodes /\ Peer(m) \in Nodes /\ (m # n => Peer(m) # Peer(n))
      /\ Peer(n) # n /\ (m = n \/ m = Peer(n)) /\ Peer(Peer(n)) = n
      /\ mainOut[n] \in Seq(Message) /\ flexusOut[n] \in Seq(Message)
      /\ ring[n] \in Seq(Message) /\ ring[Peer(n)] \in Seq(Message)
  BY TwoNodes DEF TypeOK
<1>1. CASE s = <<>> /\ UNCHANGED wire
  BY <1>1, CarriesNothing DEF wire, UnderWay
<1>2. ASSUME NEW out \in [Nodes -> Seq(Message)], CommSend(n, out)
      PROVE  /\ Carries(ring[Peer(n)], t) \/ Carries(out[n], t)
                => Carries(ring'[Peer(n)], t) \/ Carries(Tail(out[n]), t)
             /\ \A p \in Nodes \ {Peer(n)} : ring'[p] = ring[p]
  <2>1. /\ out[n] \in Seq(Message) /\ out[n] # <<>> /\ Head(out[n]) \in Message
        /\ ring'[Peer(n)] = Append(ring[Peer(n)], Head(out[n]))
        /\ \A p \in Nodes \ {Peer(n)} : ring'[p] = ring[p]
    <3>1. out[n] \in Seq(Message) /\ out[n] # <<>>
      BY <1>2 DEF CommSend
    <3>2. Head(out[n]) \in Message
      BY <3>1
    <3>3. QED
      BY <1>0, <1>2, <3>1, <3>2 DEF CommSend, TypeOK
  <2>2. QED
    BY <1>0, <2>1, CarriesAppend, CarriesTail
<1>3. CASE s = <<>> /\ MainSend(n)
  <2>1. /\ CommSend(n, mainOut) /\ mainOut'[n] = Tail(mainOut[n]) /\ flexusOut' = flexusOut
        /\ \A p \in Nodes \ {n} : mainOut'[p] = mainOut[p]
    BY <1>3 DEF MainSend, TypeOK
  <2>2. mainOut \in [Nodes -> Seq(Message)]
    BY DEF TypeOK
  <2>3. QED
    BY <1>0, <1>2, <1>3, <2>1, <2>2, CarriesNothing DEF UnderWay
<1>4. CASE s = <<>> /\ FlexusSend(n)
  <2>1. /\ CommSend(n, flexusOut) /\ flexusOut'[n] = Tail(flexusOut[n]) /\ mainOut' = mainOut
        /\ \A p \in Nodes \ {n} : flexusOut'[p] = flexusOut[p]
    BY <1>4 DEF FlexusSend, TypeOK
  <2>2. flexusOut \in [Nodes -> Seq(Message)]
    BY DEF TypeOK
  <2>3. QED
    BY <1>0, <1>2, <1>4, <2>1, <2>2, CarriesNothing DEF UnderWay
<1>5. CASE MainSays(n, s) \/ FlexusSays(n, s)
  <2>1. /\ ring' = ring
        /\ \/ mainOut[n] = <<>> /\ mainOut'[n] = s /\ flexusOut'[n] = flexusOut[n]
           \/ flexusOut[n] = <<>> /\ flexusOut'[n] = s /\ mainOut'[n] = mainOut[n]
        /\ m # n => mainOut'[m] = mainOut[m] /\ flexusOut'[m] = flexusOut[m]
    BY <1>5 DEF MainSays, FlexusSays, TypeOK
  <2>2. QED
    BY <2>1, CarriesNothing DEF UnderWay
<1>6. CASE Takes(n, u, s)
  <2>1. /\ ring[n] # <<>> /\ Head(ring[n]).type = u /\ ring'[n] = Tail(ring[n])
        /\ \A p \in Nodes \ {n} : ring'[p] = ring[p] /\ mainOut'[p] = mainOut[p]
        /\ flexusOut' = flexusOut /\ mainOut[n] = <<>>
        /\ mainOut'[n] = s \/ (mainOut'[n] = mainOut[n] /\ s = <<>>)
    BY <1>6 DEF Takes, Receiving, MainReady, TypeOK
  <2>2. Carries(ring[n], t) => Carries(ring'[n], t) \/ t = u
    BY <1>0, <2>1, CarriesTail
  <2>3. QED
    BY <1>0, <2>1, <2>2, CarriesNothing DEF UnderWay
<1>7. QED
  BY <1>1, <1>3, <1>4, <1>5, <1>6 DEF Speaks

-----------------------------------------------------------------------------
(* PERMISSION *)

PermBase == ExitBase /\ PermissionOnce

LEMMA PermAt ==
  ASSUME PermBase
  PROVE  /\ TypeOK /\ Once(Master, "PERMISSION", ex[Follower].permitted)
         /\ ex[Follower].permitted \in BOOLEAN
BY TwoNodes DEF PermBase, ExitBase, TypeOK, ExitFields, PermissionOnce

\* Nobody begins to grant what has been granted.
GrantsFresh ==
  /\ main'[Master] = "grant" => main[Master] = "grant" \/ ~ex[Master].permitted
  /\ flexus'[Master] = "grant" => flexus[Master] = "grant" \/ ~ex[Master].permitted

\* A step that says, takes and stores no permission.
LEMMA PermUnsaid ==
  ASSUME PermBase, NEW n \in Nodes, NEW u, NEW s, Speaks(n, u, s), u # "PERMISSION",
         ~Carries(s, "PERMISSION"), GrantsFresh,
         \A m \in Nodes : ex'[m].permitted = ex[m].permitted
  PROVE  PermissionOnce'
<1>0. Master \in Nodes /\ Follower \in Nodes /\ TypeOK
  BY PermAt, TwoNodes
<1>1. One(s, "PERMISSION")
  BY DEF One, Carries
<1>2. Once(Master, "PERMISSION", ex[Follower].permitted) /\ ex[Follower].permitted \in BOOLEAN
  BY PermAt
<1>3. NowOnce(Master, "PERMISSION", ex[Follower].permitted)
  <2>1. CASE UNCHANGED wire
    BY <1>2, <2>1, NowSilent
  <2>2. CASE MainSend(n) \/ FlexusSend(n)
    BY <1>0, <1>2, <2>2, NowSent
  <2>3. CASE MainSays(n, s) \/ FlexusSays(n, s)
    BY <1>0, <1>1, <1>2, <2>3, NowSaid
  <2>4. CASE Takes(n, u, s)
    BY <1>0, <1>1, <1>2, <2>4, NowTaken
  <2>5. QED
    BY <2>1, <2>2, <2>3, <2>4 DEF Speaks
<1>4. QED
  BY <1>0, <1>3 DEF PermissionOnce, PermBase, GrantsFresh, Once, NowOnce

\* The master grants: it has not done so before, and not in both threads.
LEMMA PermSaid ==
  ASSUME PermBase, ~ex[Master].permitted,
         NEW s, One(s, "PERMISSION"), MainSays(Master, s) \/ FlexusSays(Master, s),
         ex'[Follower].permitted = ex[Follower].permitted,
         main'[Master] # "grant", flexus'[Master] # "grant"
  PROVE  PermissionOnce'
<1>0. Master \in Nodes /\ Follower \in Nodes /\ TypeOK /\ Peer(Master) = Follower
  BY PermAt, TwoNodes
<1>1. ~UnderWay(Master, "PERMISSION") /\ ~ex[Follower].permitted
  BY <1>0 DEF PermBase, ExitBase, HandshakeInv, PermissionInv, Told, UnderWay
<1>2. NowOnce(Master, "PERMISSION", ex[Follower].permitted)
  BY <1>0, <1>1, PermAt, NowSaid
<1>3. QED
  BY <1>2 DEF PermissionOnce, Once, NowOnce

\* The follower receives it.
LEMMA PermTaken ==
  ASSUME PermBase, NEW s, Takes(Follower, "PERMISSION", s), ~Carries(s, "PERMISSION"),
         ex'[Follower].permitted = TRUE, ex'[Master] = ex[Master],
         UNCHANGED <<main, flexus>>
  PROVE  PermissionOnce'
<1>0. Master \in Nodes /\ Follower \in Nodes /\ TypeOK /\ Peer(Follower) = Master
      /\ Master # Follower
  BY PermAt, TwoNodes
<1>1. One(s, "PERMISSION")
  BY DEF One, Carries
<1>2. NowOnce(Master, "PERMISSION", TRUE)
  BY <1>0, <1>1, PermAt, NowTaken
<1>3. QED
  BY <1>2 DEF PermissionOnce, PermBase, Once, NowOnce

-----------------------------------------------------------------------------
(* END before its sender is gone. *)

ToldBase == PermBase /\ StopBase /\ HandshakeInv' /\ EndTold

LEMMA ToldAt ==
  ASSUME ToldBase, NEW n \in Nodes
  PROVE  /\ TypeOK /\ ex[n] \in ExitFields /\ ck[n] \in CkptFields
         /\ NoRequest(n) /\ PermBase /\ ExitBase
         /\ ex[n].permitted /\ main[n] # "end" /\ flexus[n] # "end" => ex[n].endSent
         /\ main[n] \in {"closing", "exiting"} => ex[n].permitted
         /\ n = Master /\ Carries(mainOut[n], "END") => main[n] \notin {"setup", "run"}
         /\ n = Follower /\ Carries(mainOut[n], "END") => ~ex[n].pairFin
         /\ ~paused[n] => main[n] \in {"setup", "run"}
         /\ main[n] \notin {"setup", "run"} => FlexusQuiet(n)
         /\ n = Master \/ n = Follower
<1>1. TypeOK /\ NoRequest(n) /\ PermBase /\ ExitBase
  BY DEF ToldBase, PermBase, StopBase, StopInv
<1>2. main[n] \notin {"setup", "run"} => paused[n] /\ FlexusQuiet(n)
  BY <1>1, Standing
<1>3. QED
  BY <1>1, <1>2, TwoNodes DEF TypeOK, ToldBase, EndTold

\* What has to hold of a step of n, in which it says s or takes u.
StepTold(n, u, s) ==
  /\ u = "END" \/ ex[n].pairFin => ex'[n].pairFin
  /\ ex'[n].permitted /\ main'[n] # "end" /\ flexus'[n] # "end" => ex'[n].endSent
  /\ ex'[n].endSent => ex[n].endSent \/ Carries(s, "END")
  /\ main'[n] \in {"closing", "exiting"} => ex'[n].permitted
  /\ status'[n] = "exited" =>
       ex'[n].endSent /\ ~Carries(mainOut'[n], "END") /\ ~Carries(flexusOut'[n], "END")
  /\ n = Master /\ Carries(mainOut'[n], "END") => main'[n] \notin {"setup", "run"}
  /\ n = Follower /\ Carries(mainOut'[n], "END") => ~ex'[n].pairFin

LEMMA ToldKept ==
  ASSUME ToldBase, NEW n \in Nodes, NEW u, NEW s, Speaks(n, u, s), Others(n),
         StepTold(n, u, s)
  PROVE  EndTold'
<1>0. TypeOK /\ EndTold
  BY ToldAt DEF ToldBase
<1>1. \A m \in Nodes :
        /\ UnderWay(m, "END") => UnderWay(m, "END")' \/ (m = Peer(n) /\ "END" = u)
        /\ Carries(s, "END") => UnderWay(n, "END")'
  BY <1>0, SpokenStays
<1>2. \A m \in Nodes \ {n} :
        /\ Carries(mainOut'[m], "END") => Carries(mainOut[m], "END")
        /\ Carries(flexusOut'[m], "END") => Carries(flexusOut[m], "END")
  BY <1>0, SpokenOut
<1>3. \A m \in Nodes : ex[m].pairFin => ex'[m].pairFin
  BY DEF StepTold, Others
<1>4. \A m \in Nodes : Peer(m) \in Nodes /\ (m = Peer(n) => Peer(m) = n) /\ Peer(n) # n
  BY TwoNodes
<1>5. ASSUME NEW m \in Nodes PROVE ex'[m].endSent => UnderWay(m, "END")' \/ ex'[Peer(m)].pairFin
  <2>1. ex'[m].endSent => ex[m].endSent \/ (m = n /\ Carries(s, "END"))
    BY DEF StepTold, Others
  <2>2. ex[m].endSent => UnderWay(m, "END") \/ ex[Peer(m)].pairFin
    BY <1>0 DEF EndTold
  <2>3. m = Peer(n) /\ "END" = u => ex'[Peer(m)].pairFin
    BY <1>4 DEF StepTold
  <2>4. QED
    BY <1>1, <1>3, <1>4, <2>1, <2>2, <2>3
<1>6. ASSUME NEW m \in Nodes
      PROVE  /\ ex'[m].permitted /\ main'[m] # "end" /\ flexus'[m] # "end" => ex'[m].endSent
             /\ main'[m] \in {"closing", "exiting"} => ex'[m].permitted
             /\ status'[m] = "exited" =>
                  ex'[m].endSent /\ ~Carries(mainOut'[m], "END") /\ ~Carries(flexusOut'[m], "END")
  <2>1. CASE m = n
    BY <2>1 DEF StepTold
  <2>2. CASE m # n
    BY <1>0, <1>2, <2>2 DEF Others, EndTold
  <2>3. QED
    BY <2>1, <2>2
<1>7. Carries(mainOut'[Master], "END") => main'[Master] \notin {"setup", "run"}
  BY <1>0, <1>2, TwoNodes DEF Others, EndTold, StepTold
<1>8. Carries(mainOut'[Follower], "END") => ~ex'[Follower].pairFin
  BY <1>0, <1>2, TwoNodes DEF Others, EndTold, StepTold
<1>9. QED
  BY <1>5, <1>6, <1>7, <1>8 DEF EndTold

-----------------------------------------------------------------------------
(* The steps that have nothing to do with either. *)

Quietly(n, u, s) ==
  /\ Speaks(n, u, s) /\ u \notin {"END", "PERMISSION"}
  /\ ~Carries(s, "PERMISSION") /\ ~Carries(s, "END")
  /\ Others(n)
  /\ ex'[n].permitted = ex[n].permitted /\ ex'[n].endSent = ex[n].endSent
  /\ ex'[n].pairFin = ex[n].pairFin
  /\ \/ main'[n] = main[n]
     \/ /\ mainOut[n] = <<>> /\ main[n] # "end"
        /\ main'[n] \notin {"grant", "end", "closing", "exiting"}
  /\ \/ flexus'[n] = flexus[n]
     \/ flexus[n] # "end" /\ flexus'[n] \notin {"grant", "end"}
  /\ status'[n] = "exited" => status[n] = "exited"

LEMMA QuietPerm ==
  ASSUME PermBase, NEW n \in Nodes, NEW u, NEW s, Quietly(n, u, s) PROVE PermissionOnce'
<1>1. \A m \in Nodes : ex'[m].permitted = ex[m].permitted
  BY DEF Quietly, Others
<1>2. GrantsFresh
  BY TwoNodes DEF Quietly, Others, GrantsFresh
<1>3. Speaks(n, u, s) /\ u # "PERMISSION" /\ ~Carries(s, "PERMISSION")
  BY DEF Quietly
<1>4. QED
  BY <1>1, <1>2, <1>3, PermUnsaid

LEMMA QuietTold ==
  ASSUME ToldBase, NEW n \in Nodes, NEW u, NEW s, Quietly(n, u, s) PROVE EndTold'
<1>1. Speaks(n, u, s) /\ Others(n) /\ u # "END" /\ ~Carries(s, "END") /\ TypeOK
  BY ToldAt DEF Quietly
<1>2. /\ Carries(mainOut'[n], "END") => Carries(mainOut[n], "END")
      /\ Carries(flexusOut'[n], "END") => Carries(flexusOut[n], "END")
  BY <1>1, SpokenOut
<1>3. mainOut[n] = <<>> => ~Carries(mainOut[n], "END")
  BY CarriesNothing
<1>4. status'[n] = "exited" =>
        ex[n].endSent /\ ~Carries(mainOut[n], "END") /\ ~Carries(flexusOut[n], "END")
  BY DEF Quietly, ToldBase, EndTold
<1>5. StepTold(n, u, s)
  BY <1>1, <1>2, <1>3, <1>4, ToldAt DEF Quietly, StepTold
<1>6. QED
  BY <1>1, <1>5, ToldKept

LEMMA QuietAt ==
  ASSUME TypeOK, NEW n \in Nodes, NEW u, NEW s, Speaks(n, u, s), u \notin {"END", "PERMISSION"},
         ~Carries(s, "PERMISSION"), ~Carries(s, "END"),
         NEW e, ex' = [ex EXCEPT ![n] = e], e.permitted = ex[n].permitted,
         e.endSent = ex[n].endSent, e.pairFin = ex[n].pairFin,
         \/ UNCHANGED main
         \/ /\ mainOut[n] = <<>> /\ main[n] # "end"
            /\ \E c \in MainStates \ {"grant", "end", "closing", "exiting"} :
                 main' = [main EXCEPT ![n] = c],
         \/ UNCHANGED flexus
         \/ /\ flexus[n] # "end"
            /\ \E f \in FlexusStates \ {"grant", "end"} : flexus' = [flexus EXCEPT ![n] = f],
         UNCHANGED status \/ \E v \in Aborts : status' = [status EXCEPT ![n] = v],
         UNCHANGED ck \/ \E v : ck' = [ck EXCEPT ![n] = v]
  PROVE  Quietly(n, u, s)
<1>1. Others(n)
  BY OthersAt
<1>2. ex'[n] = e
  BY DEF TypeOK
<1>3. \/ main'[n] = main[n]
      \/ /\ mainOut[n] = <<>> /\ main[n] # "end"
         /\ main'[n] \notin {"grant", "end", "closing", "exiting"}
  BY DEF TypeOK
<1>4. \/ flexus'[n] = flexus[n]
      \/ flexus[n] # "end" /\ flexus'[n] \notin {"grant", "end"}
  BY DEF TypeOK
<1>5. status'[n] = "exited" => status[n] = "exited"
  BY DEF TypeOK, Aborts
<1>6. QED
  BY <1>1, <1>2, <1>3, <1>4, <1>5 DEF Quietly

\* The messages that neither callback tells the handshake about.
LEMMA QuietReceive ==
  ASSUME TypeOK, NEW n \in Nodes, Receive(n), ~RecvPermission(n), ~RecvEnd(n)
  PROVE  \E u, s : Quietly(n, u, s)
<1>0. /\ ex[n] \in ExitFields /\ ex = [ex EXCEPT ![n] = ex[n]]
      /\ ~Carries(<<>>, "PERMISSION") /\ ~Carries(<<>>, "END")
      /\ "none" \notin {"END", "PERMISSION"}
  BY SameAt, CarriesNothing
<1>1. CASE RecvNormal(n) \/ RecvSync(n)
  <2>1. \E u \in {"NORMAL", "SYNC"} : Takes(n, u, <<>>)
    BY <1>1 DEF RecvNormal, RecvSync, Takes
  <2>2. PICK u \in {"NORMAL", "SYNC"} : Takes(n, u, <<>>)
    BY <2>1
  <2>3. Speaks(n, u, <<>>)
    BY <2>2 DEF Speaks, MsgTypes
  <2>4. UNCHANGED status \/ \E v \in Aborts : status' = [status EXCEPT ![n] = v]
    BY <1>1, Zenon DEF RecvNormal, RecvSync, Abort, Aborts
  <2>5. UNCHANGED <<main, flexus, ex, ck>>
    BY <1>1 DEF RecvNormal, RecvSync
  <2>6. Quietly(n, u, <<>>)
    BY <1>0, <2>2, <2>3, <2>4, <2>5, QuietAt
  <2>7. QED
    BY <2>6
<1>2. CASE RecvDrainStart(n) \/ RecvDrainEnd(n) \/ RecvInitStep(n)
  <2>1. \E u \in {"DRAIN_START", "DRAIN_END", "INIT_STEP"} : Takes(n, u, <<>>)
    BY <1>2 DEF RecvDrainStart, RecvDrainEnd, RecvInitStep, Takes
  <2>2. PICK u \in {"DRAIN_START", "DRAIN_END", "INIT_STEP"} : Takes(n, u, <<>>)
    BY <2>1
  <2>3. Speaks(n, u, <<>>)
    BY <2>2 DEF Speaks, MsgTypes
  <2>4. UNCHANGED ck \/ \E v : ck' = [ck EXCEPT ![n] = v]
    BY <1>2, Zenon DEF RecvDrainStart, RecvDrainEnd, RecvInitStep
  <2>5. UNCHANGED <<main, flexus, ex, status>>
    BY <1>2 DEF RecvDrainStart, RecvDrainEnd, RecvInitStep, ctl
  <2>6. Quietly(n, u, <<>>)
    BY <1>0, <2>2, <2>3, <2>4, <2>5, QuietAt
  <2>7. QED
    BY <2>6
<1>3. CASE RecvIntent(n)
  <2> DEFINE v == IF n = Master THEN ex[n].nbrs + 1 ELSE ex[n].nbrs
             e == [ex[n] EXCEPT !.nbrs = v]
  <2>1. e.endSent = ex[n].endSent /\ e.pairFin = ex[n].pairFin /\ e.permitted = ex[n].permitted
    BY <1>0 DEF ExitFields
  <2>2. /\ ex' = [ex EXCEPT ![n] = e] /\ Speaks(n, "INTENT", <<>>)
        /\ UNCHANGED <<main, flexus, status, ck>>
    BY <1>3 DEF RecvIntent, Takes, Speaks, MsgTypes, ctl
  <2> HIDE DEF e
  <2>3. "INTENT" \notin {"END", "PERMISSION"}
    OBVIOUS
  <2>4. Quietly(n, "INTENT", <<>>)
    BY <1>0, <2>1, <2>2, <2>3, QuietAt
  <2>5. QED
    BY <2>4
<1>4. CASE PollDone(n)
  <2>1. Speaks(n, "none", <<>>) /\ UNCHANGED <<main, flexus, ex, ck, status>>
    BY <1>4 DEF PollDone, Speaks
  <2>2. Quietly(n, "none", <<>>)
    BY <1>0, <2>1, QuietAt
  <2>3. QED
    BY <2>2
<1>5. QED
  BY <1>1, <1>2, <1>3, <1>4 DEF Receive

LEMMA QuietDispatch ==
  ASSUME TypeOK, NEW n \in Nodes, Dispatch(n), ~CheckpointBH(n)
  PROVE  Quietly(n, "none", <<>>)
<1>0. /\ ex[n] \in ExitFields /\ ex = [ex EXCEPT ![n] = ex[n]]
      /\ ~Carries(<<>>, "PERMISSION") /\ ~Carries(<<>>, "END")
      /\ "none" \notin {"END", "PERMISSION"}
  BY SameAt, CarriesNothing
<1>1. Speaks(n, "none", <<>>) /\ UNCHANGED <<flexus, ex, ck>>
  BY DEF Dispatch, HostPoll, PauseBh, SetupWWT, Deliver, QuantaSync, SyncCheck, Speaks, ctl
<1>2. \/ UNCHANGED main
      \/ /\ mainOut[n] = <<>> /\ main[n] # "end"
         /\ \E c \in MainStates \ {"grant", "end", "closing", "exiting"} :
              main' = [main EXCEPT ![n] = c]
  <2>1. CASE HostPoll(n) \/ PauseBh(n) \/ Deliver(n)
    BY <2>1 DEF HostPoll, PauseBh, Deliver, ctl
  <2>2. CASE SetupWWT(n) \/ QuantaSync(n) \/ SyncCheck(n)
    <3>1. mainOut[n] = <<>> /\ main[n] # "end"
      BY <2>2 DEF SetupWWT, QuantaSync, SyncCheck, InEventLoop, MainReady
    <3>2. \E c \in {"run", "notify", "check"} : main' = [main EXCEPT ![n] = c]
      BY <2>2 DEF SetupWWT, QuantaSync, SyncCheck
    <3>3. QED
      BY <3>1, <3>2 DEF MainStates
  <2>3. QED
    BY <2>1, <2>2 DEF Dispatch
<1>3. UNCHANGED status \/ \E v \in Aborts : status' = [status EXCEPT ![n] = v]
  <2>1. CASE QuantaSync(n)
    BY <2>1, Zenon DEF QuantaSync, Pause, Abort, Aborts
  <2>2. CASE ~QuantaSync(n)
    BY <2>2 DEF Dispatch, HostPoll, PauseBh, SetupWWT, Deliver, SyncCheck, ctl
  <2>3. QED
    BY <2>1, <2>2
<1>4. QED
  BY <1>0, <1>1, <1>2, <1>3, QuietAt

\* The end of a quantum, but for the master's exit arm and the exits.
LEMMA QuietBoundary ==
  ASSUME TypeOK, NEW n \in Nodes,
         \/ NotifyAndSync(n) \/ CheckCount(n) \/ SpinOn(n)
         \/ BoundaryNotify(n) \/ BoundaryCheckpoint(n) \/ BoundaryTooLate(n) \/ BoundaryPass(n)
         \/ Permit(n) /\ main'[n] # "grant"
         \/ Advance(n)
  PROVE  \E s : Quietly(n, "none", s)
<1>0. /\ ex[n] \in ExitFields /\ ex = [ex EXCEPT ![n] = ex[n]]
      /\ ~Carries(<<>>, "PERMISSION") /\ ~Carries(<<>>, "END")
      /\ "none" \notin {"END", "PERMISSION"}
  BY SameAt, CarriesNothing
<1>1. CASE NotifyAndSync(n) \/ BoundaryNotify(n)
  <2>1. PICK s \in {DrainStart(n), DrainStart(n) \o SyncMessage(n)} :
          mainOut' = [mainOut EXCEPT ![n] = s]
    BY <1>1 DEF NotifyAndSync, BoundaryNotify
  <2>2. /\ mainOut[n] = <<>> /\ main[n] # "end"
        /\ UNCHANGED <<ring, flexusOut, ex, flexus, status>>
        /\ ck' = [ck EXCEPT ![n] = AfterDrainStart(n)]
        /\ UNCHANGED main \/ main' = [main EXCEPT ![n] = "armed"]
    BY <1>1 DEF NotifyAndSync, BoundaryNotify, MainAt, MainReady, ctl
  <2>3. Speaks(n, "none", s)
    BY <2>1, <2>2 DEF Speaks, MainSays
  <2>4. ~Carries(s, "PERMISSION") /\ ~Carries(s, "END")
    BY <2>1, OtherLines
  <2>5. Quietly(n, "none", s)
    BY <1>0, <2>2, <2>3, <2>4, QuietAt DEF MainStates
  <2>6. QED
    BY <2>5
<1>2. CASE \/ CheckCount(n) \/ SpinOn(n) \/ BoundaryCheckpoint(n) \/ BoundaryPass(n)
           \/ Permit(n) /\ main'[n] # "grant"
           \/ Advance(n)
  <2>1. /\ mainOut[n] = <<>> /\ main[n] # "end" /\ Speaks(n, "none", <<>>)
        /\ UNCHANGED <<ex, flexus, status>>
    BY <1>2 DEF CheckCount, SpinOn, BoundaryCheckpoint, BoundaryPass, Permit, Advance, MainAt,
       MainReady, Speaks
  <2>2. \E c \in {"spin", "boundary", "check", "armed", "permit", "grant", "advance", "run"} :
          main' = [main EXCEPT ![n] = c] /\ (c = "grant" => main'[n] # "grant")
    BY <1>2 DEF CheckCount, SpinOn, BoundaryCheckpoint, BoundaryPass, Permit, Advance
  <2>3. \E c \in MainStates \ {"grant", "end", "closing", "exiting"} :
          main' = [main EXCEPT ![n] = c]
    BY <2>2 DEF MainStates, TypeOK
  <2>4. UNCHANGED ck \/ \E v : ck' = [ck EXCEPT ![n] = v]
    BY <1>2, Zenon DEF CheckCount, SpinOn, BoundaryCheckpoint, BoundaryPass, Permit, Advance
  <2>5. Quietly(n, "none", <<>>)
    BY <1>0, <2>1, <2>3, <2>4, QuietAt
  <2>6. QED
    BY <2>5
<1>3. CASE BoundaryTooLate(n)
  <2>1. /\ Speaks(n, "none", <<>>) /\ UNCHANGED <<main, ex, flexus, ck>>
        /\ status' = [status EXCEPT ![n] = "abort_ckpt"]
    BY <1>3 DEF BoundaryTooLate, Speaks, Abort
  <2>2. Quietly(n, "none", <<>>)
    BY <1>0, <2>1, QuietAt DEF Aborts
  <2>3. QED
    BY <2>2
<1>4. QED
  BY <1>1, <1>2, <1>3

\* Flexus, but for the master's can_stop and the exit.
LEMMA QuietFlexus ==
  ASSUME TypeOK, NEW n \in Nodes,
         \/ FlexusSend(n) \/ MainSend(n) \/ SetCheckpointFlags(n) \/ SetCheckpointRound(n)
         \/ CanStop(n) /\ flexus'[n] # "grant"
         \/ FinishInitiate(n) \/ Tick(n) \/ SendPacket(n)
  PROVE  \E s : Quietly(n, "none", s)
<1>0. /\ ex[n] \in ExitFields /\ ex = [ex EXCEPT ![n] = ex[n]]
      /\ ~Carries(<<>>, "PERMISSION") /\ ~Carries(<<>>, "END")
      /\ "none" \notin {"END", "PERMISSION"}
  BY SameAt, CarriesNothing
<1>1. CASE MainSend(n) \/ FlexusSend(n)
  <2>1. Speaks(n, "none", <<>>) /\ UNCHANGED <<main, flexus, ex, status, ck>>
    BY <1>1 DEF MainSend, FlexusSend, Speaks, ctl
  <2>2. Quietly(n, "none", <<>>)
    BY <1>0, <2>1, QuietAt
  <2>3. QED
    BY <2>2
<1>2. CASE SetCheckpointFlags(n) \/ SetCheckpointRound(n) \/ Tick(n)
  <2>1. Speaks(n, "none", <<>>) /\ UNCHANGED <<main, ex, status>> /\ flexus[n] # "end"
    BY <1>2 DEF SetCheckpointFlags, SetCheckpointRound, Tick, FlexusAt, Speaks
  <2>2. \E f \in {"setround", "idle", "ask"} : flexus' = [flexus EXCEPT ![n] = f]
    BY <1>2 DEF SetCheckpointFlags, SetCheckpointRound, Tick
  <2>3. UNCHANGED ck \/ \E v : ck' = [ck EXCEPT ![n] = v]
    BY <1>2, Zenon DEF SetCheckpointFlags, SetCheckpointRound, Tick
  <2>4. Quietly(n, "none", <<>>)
    BY <1>0, <2>1, <2>2, <2>3, QuietAt DEF FlexusStates
  <2>5. QED
    BY <2>4
<1>3. CASE CanStop(n) /\ flexus'[n] # "grant"
  <2> DEFINE e == [ex[n] EXCEPT !.intent = TRUE]
             s == IF ex[n].intent THEN <<>> ELSE <<Msg("INTENT", 0)>>
  <2>0. /\ flexusOut[n] = <<>> /\ flexus[n] # "end"
        /\ UNCHANGED <<ring, mainOut, main, status, ck>>
    BY <1>3 DEF CanStop, FlexusAt
  <2>1. CASE n = Master
    <3>1. \E f \in {"grant", "answer"} :
            flexus' = [flexus EXCEPT ![n] = f] /\ (f = "grant" => flexus'[n] # "grant")
      BY <1>3, <2>1 DEF CanStop
    <3>2. flexus' = [flexus EXCEPT ![n] = "answer"]
      BY <3>1 DEF TypeOK
    <3>3. Speaks(n, "none", <<>>) /\ UNCHANGED ex
      BY <1>3, <2>0, <2>1 DEF CanStop, Speaks, wire
    <3>4. Quietly(n, "none", <<>>)
      BY <1>0, <2>0, <3>2, <3>3, QuietAt DEF FlexusStates
    <3>5. QED
      BY <3>4
  <2>2. CASE n # Master
    <3>1. e.endSent = ex[n].endSent /\ e.pairFin = ex[n].pairFin /\ e.permitted = ex[n].permitted
      BY <1>0 DEF ExitFields
    <3>2. /\ ex' = [ex EXCEPT ![n] = e] /\ flexusOut' = [flexusOut EXCEPT ![n] = s]
          /\ flexus' = [flexus EXCEPT ![n] = "answer"]
      BY <1>3, <2>2 DEF CanStop
    <3>3. Speaks(n, "none", s)
      BY <2>0, <3>2 DEF Speaks, FlexusSays
    <3>4. ~Carries(s, "PERMISSION") /\ ~Carries(s, "END")
      BY OtherLines
    <3> HIDE DEF e, s
    <3>5. Quietly(n, "none", s)
      BY <1>0, <2>0, <3>1, <3>2, <3>3, <3>4, QuietAt DEF FlexusStates
    <3>6. QED
      BY <3>5
  <2>3. QED
    BY <2>1, <2>2
<1>4. CASE FinishInitiate(n)
  <2>1. /\ flexusOut[n] = <<>> /\ flexus[n] = "idle"
        /\ UNCHANGED <<ring, mainOut, main, status, ex>>
    BY <1>4 DEF FinishInitiate, FlexusAt
  <2>2. /\ \E s \in {<<>>, <<Msg("INIT_STEP", 0)>>} : flexusOut' = [flexusOut EXCEPT ![n] = s]
        /\ \E v : ck' = [ck EXCEPT ![n] = v]
        /\ UNCHANGED flexus \/ \E f \in {"setflags", "idle"} : flexus' = [flexus EXCEPT ![n] = f]
    <3>1. flexusOut = [flexusOut EXCEPT ![n] = flexusOut[n]]
      BY DEF TypeOK
    <3>2. \/ UNCHANGED flexusOut
          \/ flexusOut' = [flexusOut EXCEPT ![n] = <<Msg("INIT_STEP", 0)>>]
      BY <1>4, Zenon DEF FinishInitiate
    <3>3. \E v : ck' = [ck EXCEPT ![n] = v]
      BY <1>4, Zenon DEF FinishInitiate
    <3>4. UNCHANGED flexus \/ \E f \in {"setflags", "idle"} : flexus' = [flexus EXCEPT ![n] = f]
      BY <1>4 DEF FinishInitiate
    <3>5. QED
      BY <2>1, <3>1, <3>2, <3>3, <3>4
  <2>3. PICK s \in {<<>>, <<Msg("INIT_STEP", 0)>>} : flexusOut' = [flexusOut EXCEPT ![n] = s]
    BY <2>2
  <2>4. Speaks(n, "none", s) /\ ~Carries(s, "PERMISSION") /\ ~Carries(s, "END")
    BY <2>1, <2>3, OtherLines DEF Speaks, FlexusSays
  <2>5. Quietly(n, "none", s)
    BY <1>0, <2>1, <2>2, <2>4, QuietAt DEF FlexusStates
  <2>6. QED
    BY <2>5
<1>5. CASE SendPacket(n)
  <2> DEFINE s == <<Packet(n)>>
  <2>1. now[n] + Quantum \in Nat
    BY SizeAssumption DEF TypeOK
  <2>2. ~Carries(s, "PERMISSION") /\ ~Carries(s, "END")
    BY <2>1, CarriesOne DEF Packet, MsgTypes
  <2>3. /\ Speaks(n, "none", s) /\ UNCHANGED <<main, flexus, ex, status, ck>>
    BY <1>5 DEF SendPacket, InEventLoop, MainReady, Speaks, MainSays, ctl
  <2> HIDE DEF s
  <2>4. Quietly(n, "none", s)
    BY <1>0, <2>2, <2>3, QuietAt
  <2>5. QED
    BY <2>4
<1>6. QED
  BY <1>1, <1>2, <1>3, <1>4, <1>5

-----------------------------------------------------------------------------
(* The steps of the handshake. *)

Loud(n) ==
  \/ RecvPermission(n) \/ RecvEnd(n)
  \/ SpinStop(n) \/ SpinDestroy(n) \/ Exit(n)
  \/ Permit(n) \/ PermitGrant(n) \/ PermitEnd(n)
  \/ CanStop(n) \/ CanStopGrant(n) \/ CanStopEnd(n) \/ CanStopAnswer(n)

\* END goes out with permission, unless it has; and end_sent remembers it.
LEMMA EndGoes ==
  ASSUME NEW e \in ExitFields
  PROVE  /\ AfterEnd(e).permitted => AfterEnd(e).endSent
         /\ AfterEnd(e).endSent => e.endSent \/ Carries(EndIfPermitted(e), "END")
         /\ e.endSent => NotifyEndMessages(e) = <<>> /\ NotifyEndFields(e).endSent
<1>1. AfterEnd(e).permitted = e.permitted /\ AfterEnd(e).endSent = (e.endSent \/ e.permitted)
  BY DEF AfterEnd, ExitFields
<1>2. e.permitted /\ ~e.endSent => Carries(EndIfPermitted(e), "END")
  BY CarriesOne DEF EndIfPermitted, MsgTypes
<1>3. e.endSent => NotifyEndMessages(e) = <<>>
  BY DEF NotifyEndMessages, EndIfPermitted
<1>4. QED
  BY <1>1, <1>2, <1>3, EndLine

\* The two threads of a process grant one after the other, and the master's only.
LEMMA Granting ==
  ASSUME ExitBase, NEW n \in Nodes
  PROVE  /\ main[n] \in {"permit", "grant", "end"} => n = Master
         /\ flexus[n] \in {"grant", "end"} => n = Master
         /\ main[n] \notin {"setup", "run"} => FlexusQuiet(n)
<1>1. GrantAlone
  BY DEF ExitBase, HandshakeInv
<1>2. QED
  BY <1>1, Standing, TwoNodes DEF GrantAlone

\* The step receives PERMISSION, which only the follower does.
LEMMA Granted ==
  ASSUME ExitBase, NEW n \in Nodes, RecvPermission(n)
  PROVE  n = Follower /\ Carries(ring[Follower], "PERMISSION")
<1>1. TypeOK /\ ring[n] \in Seq(Message) /\ ring[n] # <<>> /\ Head(ring[n]).type = "PERMISSION"
  BY DEF ExitBase, TypeOK, RecvPermission, Receiving
<1>2. Carries(ring[n], "PERMISSION")
  BY <1>1, CarriesTail
<1>3. QED
  BY <1>2, TwoNodes DEF ExitBase, HandshakeInv, PermissionInv

LEMMA ReceivePerm ==
  ASSUME PermBase, NEW n \in Nodes, RecvPermission(n) \/ RecvEnd(n) PROVE PermissionOnce'
<1>0. TypeOK /\ ex[n] \in ExitFields /\ ExitBase /\ ~Carries(<<>>, "PERMISSION")
      /\ UNCHANGED <<main, flexus>>
  BY PermAt, CarriesNothing DEF TypeOK, PermBase, RecvPermission, RecvEnd, ctl
<1>1. CASE RecvPermission(n)
  <2> DEFINE e == [ex[n] EXCEPT !.permitted = TRUE]
  <2>1. e \in ExitFields /\ e.permitted = TRUE
    BY <1>0 DEF ExitFields
  <2>2. Takes(n, "PERMISSION", EndIfPermitted(e)) /\ ex' = [ex EXCEPT ![n] = AfterEnd(e)]
    BY <1>1 DEF RecvPermission, Takes
  <2> HIDE DEF e
  <2>3. n = Follower
    BY <1>0, <1>1, Granted
  <2>4. ex'[Follower].permitted = TRUE /\ ex'[Master] = ex[Master]
    BY <1>0, <2>1, <2>2, <2>3, EndSpeech, TwoNodes DEF TypeOK
  <2>5. QED
    BY <1>0, <2>1, <2>2, <2>3, <2>4, EndSpeech, PermTaken
<1>2. CASE RecvEnd(n)
  <2>1. Speaks(n, "END", <<>>)
    BY <1>2 DEF RecvEnd, Takes, Speaks, MsgTypes
  <2>2. UNCHANGED ex \/ ex' = [ex EXCEPT ![n] = [ex[n] EXCEPT !.pairFin = TRUE]]
    BY <1>2, Zenon DEF RecvEnd
  <2>3. [ex[n] EXCEPT !.pairFin = TRUE].permitted = ex[n].permitted
    BY <1>0 DEF ExitFields
  <2>4. \A m \in Nodes : ex'[m].permitted = ex[m].permitted
    BY <1>0, <2>2, <2>3 DEF TypeOK
  <2>5. QED
    BY <1>0, <2>1, <2>4, PermUnsaid DEF GrantsFresh
<1>3. QED
  BY <1>1, <1>2

\* A step that changes the fields of n to e, and says no permission.
LEMMA PermSays ==
  ASSUME PermBase, NEW n \in Nodes, NEW s, Speaks(n, "none", s), ~Carries(s, "PERMISSION"),
         NEW e, ex' = [ex EXCEPT ![n] = e], e.permitted = ex[n].permitted, GrantsFresh
  PROVE  PermissionOnce'
<1>1. \A m \in Nodes : ex'[m].permitted = ex[m].permitted
  BY PermAt DEF TypeOK
<1>2. QED
  BY <1>1, PermUnsaid

\* The end of the simulation: by a checkpoint, in the barrier, or after it.
LEMMA LeavePerm ==
  ASSUME PermBase, NEW n \in Nodes,
         CheckpointBH(n) \/ SpinStop(n) \/ SpinDestroy(n) \/ Exit(n)
  PROVE  PermissionOnce'
<1>0. TypeOK /\ ex[n] \in ExitFields /\ ~Carries(<<>>, "PERMISSION")
      /\ ex = [ex EXCEPT ![n] = ex[n]]
  BY PermAt, CarriesNothing, SameAt
<1>1. GrantsFresh
  <2>1. UNCHANGED flexus
    BY DEF CheckpointBH, SpinStop, SpinDestroy, Exit
  <2>2. UNCHANGED main \/ \E c \in {"closing", "exiting", main[n]} : main' = [main EXCEPT ![n] = c]
    BY DEF CheckpointBH, SpinStop, SpinDestroy, Exit, Destroy, CloseAfterCheckpoint, CloseNow
  <2>3. main'[Master] \in {"closing", "exiting", main[Master]}
    BY <1>0, <2>2, TwoNodes DEF TypeOK
  <2>4. QED
    BY <2>1, <2>3 DEF GrantsFresh
<1>2. CASE SpinStop(n) \/ Exit(n)
  BY <1>0, <1>1, <1>2, PermSays DEF SpinStop, Exit, Speaks
<1>3. CASE SpinDestroy(n)
  <2>1. /\ Speaks(n, "none", NotifyEndMessages(ex[n]))
        /\ ex' = [ex EXCEPT ![n] = NotifyEndFields(ex[n])]
    BY <1>3 DEF SpinDestroy, Destroy, MainAt, MainReady, Speaks, MainSays
  <2>2. QED
    BY <1>0, <1>1, <2>1, EndSpeech, PermSays
<1>4. CASE CheckpointBH(n) /\ n # Master
  BY <1>0, <1>1, <1>4, PermSays DEF CheckpointBH, Speaks, wire
<1>5. CASE CheckpointBH(n) /\ n = Master
  <2> DEFINE s == DrainMessages(n) \o NotifyEndMessages(ex[n])
  <2>1. Speaks(n, "none", s) /\ ex' = [ex EXCEPT ![n] = NotifyEndFields(ex[n])]
    BY <1>5 DEF CheckpointBH, InEventLoop, MainReady, Speaks, MainSays
  <2>2. DrainMessages(n) \in Seq(Message) /\ NotifyEndMessages(ex[n]) \in Seq(Message)
    BY <1>0, DrainType, EndType
  <2>3. ~Carries(s, "PERMISSION")
    BY <1>0, <2>2, Speech, EndSpeech, CarriesJoined
  <2> HIDE DEF s
  <2>4. QED
    BY <1>0, <1>1, <2>1, <2>3, EndSpeech, PermSays
<1>6. QED
  BY <1>2, <1>3, <1>4, <1>5

\* The master's exit arm, and can_stop.
LEMMA GrantPerm ==
  ASSUME PermBase, NEW n \in Nodes,
         \/ Permit(n) \/ PermitGrant(n) \/ PermitEnd(n)
         \/ CanStop(n) \/ CanStopGrant(n) \/ CanStopEnd(n) \/ CanStopAnswer(n)
  PROVE  PermissionOnce'
<1>0. /\ TypeOK /\ ex[n] \in ExitFields /\ ~Carries(<<>>, "PERMISSION") /\ ExitBase
      /\ ex = [ex EXCEPT ![n] = ex[n]] /\ Master # Follower /\ Master \in Nodes
      /\ One(<<Msg("PERMISSION", 0)>>, "PERMISSION")
  BY PermAt, CarriesNothing, SameAt, OneShort, TwoNodes DEF PermBase
<1>1. CASE Permit(n)
  <2>1. /\ main' = [main EXCEPT ![n] = main'[n]] /\ UNCHANGED flexus
        /\ main'[n] = "grant" => ~ex[n].permitted
    BY <1>0, <1>1 DEF Permit, TypeOK
  <2>2. GrantsFresh
    BY <1>0, <2>1 DEF GrantsFresh, TypeOK
  <2>3. QED
    BY <1>0, <1>1, <2>2, PermSays DEF Permit, Speaks
<1>2. CASE PermitGrant(n)
  <2> DEFINE e == [ex[n] EXCEPT !.permitted = TRUE]
  <2>1. main[n] = "grant" /\ mainOut[n] = <<>>
    BY <1>2 DEF PermitGrant, MainAt, MainReady
  <2>2. n = Master /\ flexus[n] # "grant" /\ ~ex[Master].permitted
    BY <1>0, <2>1, Granting DEF FlexusQuiet, PermBase, PermissionOnce
  <2>3. /\ MainSays(Master, <<Msg("PERMISSION", 0)>>) /\ ex' = [ex EXCEPT ![n] = e]
        /\ main' = [main EXCEPT ![n] = "end"] /\ UNCHANGED flexus
    BY <1>2, <2>1, <2>2 DEF PermitGrant, MainSays
  <2> HIDE DEF e
  <2>4. ex'[Follower] = ex[Follower] /\ main'[Master] # "grant"
    BY <1>0, <2>2, <2>3, TwoNodes DEF TypeOK
  <2>5. QED
    BY <1>0, <2>2, <2>3, <2>4, PermSaid
<1>3. CASE CanStopGrant(n)
  <2> DEFINE e == [ex[n] EXCEPT !.permitted = TRUE]
  <2>1. flexus[n] = "grant" /\ flexusOut[n] = <<>>
    BY <1>3 DEF CanStopGrant, FlexusAt
  <2>2. n = Master /\ main[n] # "grant" /\ ~ex[Master].permitted
    BY <1>0, <2>1, Granting DEF FlexusQuiet, PermBase, PermissionOnce
  <2>3. /\ FlexusSays(Master, <<Msg("PERMISSION", 0)>>) /\ ex' = [ex EXCEPT ![n] = e]
        /\ flexus' = [flexus EXCEPT ![n] = "end"] /\ UNCHANGED main
    BY <1>3, <2>1, <2>2 DEF CanStopGrant, FlexusSays
  <2> HIDE DEF e
  <2>4. ex'[Follower] = ex[Follower] /\ flexus'[Master] # "grant"
    BY <1>0, <2>2, <2>3, TwoNodes DEF TypeOK
  <2>5. QED
    BY <1>0, <2>2, <2>3, <2>4, PermSaid
<1>4. CASE PermitEnd(n)
  <2>1. /\ Speaks(n, "none", EndIfPermitted(ex[n])) /\ ex' = [ex EXCEPT ![n] = AfterEnd(ex[n])]
        /\ main' = [main EXCEPT ![n] = "advance"] /\ UNCHANGED flexus
    BY <1>4 DEF PermitEnd, MainAt, MainReady, Speaks, MainSays
  <2>2. GrantsFresh
    BY <1>0, <2>1 DEF GrantsFresh, TypeOK
  <2>3. QED
    BY <1>0, <2>1, <2>2, EndSpeech, PermSays
<1>5. CASE CanStopEnd(n)
  <2>1. /\ Speaks(n, "none", EndIfPermitted(ex[n])) /\ ex' = [ex EXCEPT ![n] = AfterEnd(ex[n])]
        /\ flexus' = [flexus EXCEPT ![n] = "answer"] /\ UNCHANGED main
    BY <1>5 DEF CanStopEnd, FlexusAt, Speaks, FlexusSays
  <2>2. GrantsFresh
    BY <1>0, <2>1 DEF GrantsFresh, TypeOK
  <2>3. QED
    BY <1>0, <2>1, <2>2, EndSpeech, PermSays
<1>6. CASE CanStopAnswer(n)
  <2> DEFINE e == [ex[n] EXCEPT !.ready = TRUE]
  <2>1. /\ Speaks(n, "none", <<>>) /\ ex' = [ex EXCEPT ![n] = e]
        /\ flexus' = [flexus EXCEPT ![n] = "idle"] /\ UNCHANGED main
    BY <1>6 DEF CanStopAnswer, Speaks
  <2>2. GrantsFresh
    BY <1>0, <2>1 DEF GrantsFresh, TypeOK
  <2>3. e.permitted = ex[n].permitted
    BY <1>0 DEF ExitFields
  <2> HIDE DEF e
  <2>4. QED
    BY <1>0, <2>1, <2>2, <2>3, PermSays
<1>7. CASE CanStop(n) /\ flexus'[n] = "grant"
  <2>1. n = Master
    BY <1>0, <1>7 DEF CanStop, TypeOK
  <2>2. /\ Speaks(n, "none", <<>>) /\ UNCHANGED <<ex, main>>
        /\ \E f : flexus' = [flexus EXCEPT ![n] = f] /\ (f = "grant" => ~ex[n].permitted)
    BY <1>7, <2>1 DEF CanStop, Speaks, wire
  <2>3. GrantsFresh
    BY <1>0, <2>1, <2>2 DEF GrantsFresh, TypeOK
  <2>4. QED
    BY <1>0, <2>2, <2>3, PermSays
<1>8. CASE CanStop(n) /\ flexus'[n] # "grant"
  BY <1>0, <1>8, QuietFlexus, QuietPerm
<1>9. QED
  BY <1>1, <1>2, <1>3, <1>4, <1>5, <1>6, <1>7, <1>8

\* Receiving in the handshake: END behind PERMISSION, and that for the first time.
LEMMA ReceiveTold ==
  ASSUME ToldBase, NEW n \in Nodes, RecvPermission(n) \/ RecvEnd(n) PROVE EndTold'
<1>0. /\ TypeOK /\ ex[n] \in ExitFields /\ ExitBase /\ PermBase /\ ~Carries(<<>>, "END")
      /\ UNCHANGED <<main, flexus, ck>> /\ status[n] = "up" /\ mainOut[n] = <<>>
  BY ToldAt, CarriesNothing
  DEF RecvPermission, RecvEnd, Receiving, MainReady, Up, ctl
<1>1. CASE RecvPermission(n)
  <2> DEFINE e == [ex[n] EXCEPT !.permitted = TRUE]
             s == EndIfPermitted(e)
  <2>1. e \in ExitFields /\ e.permitted = TRUE /\ e.endSent = ex[n].endSent
        /\ e.pairFin = ex[n].pairFin
    BY <1>0 DEF ExitFields
  <2>2. Takes(n, "PERMISSION", s) /\ ex' = [ex EXCEPT ![n] = AfterEnd(e)] /\ UNCHANGED status
    BY <1>1 DEF RecvPermission, Takes, ctl
  <2>3. /\ AfterEnd(e).permitted = TRUE /\ AfterEnd(e).endSent
        /\ AfterEnd(e).pairFin = ex[n].pairFin
        /\ AfterEnd(e).endSent => ex[n].endSent \/ Carries(s, "END")
    BY <2>1, EndGoes, EndSpeech
  <2>4. n = Follower /\ ~ex[n].permitted
    <3>1. n = Follower /\ Carries(ring[Follower], "PERMISSION")
      BY <1>0, <1>1, Granted
    <3>2. QED
      BY <3>1, PermAt, <1>0, TwoNodes DEF Once, OnceIn
  <2>5. ~ex[n].pairFin
    BY <1>0, <2>4 DEF ExitBase, HandshakeInv, EndInv
  <2> HIDE DEF e, s
  <2>6. ex'[n] = AfterEnd(e) /\ Others(n) /\ Speaks(n, "PERMISSION", s)
    BY <1>0, <2>2, OthersAt DEF TypeOK, Speaks, MsgTypes
  <2>7. StepTold(n, "PERMISSION", s)
    BY <1>0, <2>2, <2>3, <2>4, <2>5, <2>6, TwoNodes DEF StepTold
  <2>8. QED
    BY <2>6, <2>7, ToldKept
<1>2. CASE RecvEnd(n)
  <2> DEFINE e == [ex[n] EXCEPT !.pairFin = TRUE]
  <2>1. e.permitted = ex[n].permitted /\ e.endSent = ex[n].endSent /\ e.pairFin = TRUE
    BY <1>0 DEF ExitFields
  <2>2. ~(status' = [status EXCEPT ![n] = "abort_end"])
    BY <1>0 DEF TypeOK, ToldBase, HandshakeInv, EndAfterPermission
  <2>3. ex' = [ex EXCEPT ![n] = e] /\ UNCHANGED status
    BY <1>2, <2>2 DEF RecvEnd, Abort
  <2>4. Takes(n, "END", <<>>) /\ UNCHANGED mainOut
    BY <1>2 DEF RecvEnd, Takes
  <2> HIDE DEF e
  <2>5. ex'[n] = e /\ Others(n) /\ Speaks(n, "END", <<>>)
    BY <1>0, <2>3, <2>4, OthersAt DEF TypeOK, Speaks, MsgTypes
  <2>6. StepTold(n, "END", <<>>)
    BY <1>0, <2>1, <2>3, <2>4, <2>5, ToldAt DEF StepTold
  <2>7. QED
    BY <2>5, <2>6, ToldKept
<1>3. QED
  BY <1>1, <1>2

\* Whoever leaves the engine from the main thread has permission, and has said END.
LEMMA LeaveTold ==
  ASSUME ToldBase, NEW n \in Nodes,
         CheckpointBH(n) \/ SpinStop(n) \/ SpinDestroy(n) \/ Exit(n)
  PROVE  EndTold'
<1>0. /\ TypeOK /\ ex[n] \in ExitFields /\ ExitBase /\ PermBase /\ ~Carries(<<>>, "END")
      /\ NoRequest(n)
  BY ToldAt, CarriesNothing
<1>1. CASE CheckpointBH(n)
  BY <1>0, <1>1 DEF CheckpointBH, NoRequest
<1>2. CASE SpinStop(n) \/ Exit(n)
  <2>1. /\ Speaks(n, "none", <<>>) /\ UNCHANGED <<main, flexus, ex, ck, mainOut, flexusOut>>
        /\ mainOut[n] = <<>> /\ main[n] \in {"spin", "exiting"} /\ status[n] = "up"
    BY <1>2 DEF SpinStop, Exit, MainAt, MainReady, Up, Speaks, wire
  <2>2. flexusOut[n] = <<>> /\ flexus[n] # "end"
    BY <2>1, ToldAt DEF FlexusQuiet
  <2>3. \E v : status' = [status EXCEPT ![n] = v] /\ (v = "exited" => ex[n].permitted)
    <3>1. CASE SpinStop(n)
      <4>1. \/ ex[n].permitted /\ status' = [status EXCEPT ![n] = "exited"]
            \/ status' = [status EXCEPT ![n] = "abort_end"]
        BY <3>1, Zenon DEF SpinStop, Abort
      <4>2. QED
        BY <4>1
    <3>2. CASE Exit(n)
      BY <3>2, ToldAt DEF Exit, MainAt
    <3>3. QED
      BY <1>2, <3>1, <3>2
  <2>4. Others(n)
    BY <1>0, <2>1, <2>3, OthersAt
  <2>5. status'[n] = "exited" => ex[n].permitted
    BY <1>0, <2>3 DEF TypeOK
  <2>6. StepTold(n, "none", <<>>)
    BY <1>0, <2>1, <2>2, <2>5, ToldAt DEF StepTold
  <2>7. QED
    BY <2>1, <2>4, <2>6, ToldKept
<1>3. CASE SpinDestroy(n)
  <2>1. /\ mainOut[n] = <<>> /\ main[n] = "spin" /\ status[n] = "up" /\ ex[n].permitted
        /\ UNCHANGED <<status, ring, flexus, flexusOut>>
    BY <1>3 DEF SpinDestroy, MainAt, MainReady, Up
  <2>2. ex[n].endSent
    BY <2>1, ToldAt DEF FlexusQuiet
  <2>3. /\ mainOut' = [mainOut EXCEPT ![n] = <<>>] /\ ex' = [ex EXCEPT ![n] = NotifyEndFields(ex[n])]
        /\ NotifyEndFields(ex[n]).endSent
    BY <1>0, <1>3, <2>2, EndGoes DEF SpinDestroy, Destroy
  <2>4. /\ main' = [main EXCEPT ![n] = "exiting"] /\ UNCHANGED ck
    BY <1>0, <1>3 DEF SpinDestroy, Destroy, CloseNow, NoRequest
  <2>5. /\ ex'[n] = NotifyEndFields(ex[n]) /\ main'[n] = "exiting" /\ mainOut'[n] = <<>>
        /\ Others(n) /\ Speaks(n, "none", <<>>)
    BY <1>0, <2>1, <2>3, <2>4, OthersAt DEF TypeOK, Speaks, MainSays
  <2>6. StepTold(n, "none", <<>>)
    BY <1>0, <2>1, <2>2, <2>3, <2>5, ToldAt, EndSpeech DEF StepTold
  <2>7. QED
    BY <2>5, <2>6, ToldKept
<1>4. QED
  BY <1>1, <1>2, <1>3

\* The master's arm of wwt_sync_check: END behind PERMISSION, before it moves on.
LEMMA PermitTold ==
  ASSUME ToldBase, NEW n \in Nodes, Permit(n) \/ PermitGrant(n) \/ PermitEnd(n)
  PROVE  EndTold'
<1>0. /\ TypeOK /\ ex[n] \in ExitFields /\ ExitBase /\ ~Carries(<<>>, "END")
      /\ mainOut[n] = <<>> /\ main[n] \in {"permit", "grant", "end"} /\ status[n] = "up"
      /\ UNCHANGED <<status, flexus, ck, ring, flexusOut>>
  BY ToldAt, CarriesNothing DEF Permit, PermitGrant, PermitEnd, MainAt, MainReady, Up, wire
<1>1. n = Master /\ n # Follower
  BY <1>0, Granting, TwoNodes
<1>2. CASE Permit(n)
  <2>1. /\ Speaks(n, "none", <<>>) /\ UNCHANGED <<ex, mainOut>> /\ main[n] = "permit"
        /\ \E c \in {"grant", "advance"} : main' = [main EXCEPT ![n] = c]
    BY <1>2 DEF Permit, MainAt, Speaks, wire
  <2>2. Others(n) /\ main'[n] \in {"grant", "advance"}
    BY <1>0, <2>1, OthersAt DEF TypeOK
  <2>3. StepTold(n, "none", <<>>)
    BY <1>0, <1>1, <2>1, <2>2, ToldAt DEF StepTold
  <2>4. QED
    BY <2>1, <2>2, <2>3, ToldKept
<1>3. CASE PermitGrant(n)
  <2> DEFINE e == [ex[n] EXCEPT !.permitted = TRUE]
             s == <<Msg("PERMISSION", 0)>>
  <2>1. e.endSent = ex[n].endSent /\ e.pairFin = ex[n].pairFin
    BY <1>0 DEF ExitFields
  <2>2. /\ mainOut' = [mainOut EXCEPT ![n] = s] /\ ex' = [ex EXCEPT ![n] = e]
        /\ main' = [main EXCEPT ![n] = "end"]
    BY <1>3 DEF PermitGrant
  <2>3. ~Carries(s, "END")
    BY <1>0, Speech
  <2> HIDE DEF e, s
  <2>4. /\ ex'[n] = e /\ main'[n] = "end" /\ Others(n) /\ Speaks(n, "none", s)
    BY <1>0, <2>2, OthersAt DEF TypeOK, Speaks, MainSays
  <2>5. StepTold(n, "none", s)
    BY <1>0, <1>1, <2>1, <2>3, <2>4 DEF StepTold
  <2>6. QED
    BY <2>4, <2>5, ToldKept
<1>4. CASE PermitEnd(n)
  <2> DEFINE e == AfterEnd(ex[n])
             s == EndIfPermitted(ex[n])
  <2>1. /\ e.permitted => e.endSent
        /\ e.endSent => ex[n].endSent \/ Carries(s, "END")
        /\ e.pairFin = ex[n].pairFin
    BY <1>0, EndGoes, EndSpeech
  <2>2. /\ mainOut' = [mainOut EXCEPT ![n] = s] /\ ex' = [ex EXCEPT ![n] = e]
        /\ main' = [main EXCEPT ![n] = "advance"]
    BY <1>4 DEF PermitEnd
  <2> HIDE DEF e, s
  <2>3. /\ ex'[n] = e /\ main'[n] = "advance" /\ Others(n) /\ Speaks(n, "none", s)
    BY <1>0, <2>2, OthersAt DEF TypeOK, Speaks, MainSays
  <2>4. StepTold(n, "none", s)
    BY <1>0, <1>1, <2>1, <2>3 DEF StepTold
  <2>5. QED
    BY <2>3, <2>4, ToldKept
<1>5. QED
  BY <1>2, <1>3, <1>4

\* can_stop: Flexus leaves when the peer has said END, and its own END is on its way.
LEMMA CanStopTold ==
  ASSUME ToldBase, NEW n \in Nodes,
         CanStop(n) \/ CanStopGrant(n) \/ CanStopEnd(n) \/ CanStopAnswer(n)
  PROVE  EndTold'
<1>0. /\ TypeOK /\ ex[n] \in ExitFields /\ ExitBase /\ ~Carries(<<>>, "END")
      /\ flexusOut[n] = <<>> /\ status[n] = "up"
      /\ UNCHANGED <<main, ck, ring, mainOut>>
  BY ToldAt, CarriesNothing
  DEF CanStop, CanStopGrant, CanStopEnd, CanStopAnswer, FlexusAt, Up, wire
<1>1. CASE CanStop(n) /\ flexus'[n] # "grant"
  BY <1>0, <1>1, QuietFlexus, QuietTold
<1>2. CASE CanStop(n) /\ flexus'[n] = "grant"
  <2>1. n = Master
    BY <1>0, <1>2 DEF CanStop, TypeOK
  <2>2. /\ Speaks(n, "none", <<>>) /\ UNCHANGED <<ex, status>> /\ flexus[n] = "ask"
        /\ \E f : flexus' = [flexus EXCEPT ![n] = f]
    BY <1>2, <2>1 DEF CanStop, FlexusAt, Speaks, wire
  <2>3. Others(n)
    BY <1>0, <2>2, OthersAt
  <2>4. StepTold(n, "none", <<>>)
    BY <1>0, <2>2, ToldAt DEF StepTold
  <2>5. QED
    BY <2>2, <2>3, <2>4, ToldKept
<1>3. CASE CanStopGrant(n)
  <2> DEFINE e == [ex[n] EXCEPT !.permitted = TRUE]
             s == <<Msg("PERMISSION", 0)>>
  <2>1. e.endSent = ex[n].endSent /\ e.pairFin = ex[n].pairFin /\ e.permitted = TRUE
    BY <1>0 DEF ExitFields
  <2>2. /\ flexusOut' = [flexusOut EXCEPT ![n] = s] /\ ex' = [ex EXCEPT ![n] = e]
        /\ flexus' = [flexus EXCEPT ![n] = "end"] /\ UNCHANGED status
    BY <1>3 DEF CanStopGrant
  <2> HIDE DEF e, s
  <2>3. /\ ex'[n] = e /\ flexus'[n] = "end" /\ Others(n) /\ Speaks(n, "none", s)
    BY <1>0, <2>2, OthersAt DEF TypeOK, Speaks, FlexusSays
  <2>4. StepTold(n, "none", s)
    BY <1>0, <2>1, <2>2, <2>3, ToldAt DEF StepTold
  <2>5. QED
    BY <2>3, <2>4, ToldKept
<1>4. CASE CanStopEnd(n)
  <2> DEFINE e == AfterEnd(ex[n])
             s == EndIfPermitted(ex[n])
  <2>1. /\ e.permitted => e.endSent
        /\ e.endSent => ex[n].endSent \/ Carries(s, "END")
        /\ e.pairFin = ex[n].pairFin /\ e.permitted = ex[n].permitted
    BY <1>0, EndGoes, EndSpeech
  <2>2. /\ flexusOut' = [flexusOut EXCEPT ![n] = s] /\ ex' = [ex EXCEPT ![n] = e]
        /\ flexus' = [flexus EXCEPT ![n] = "answer"] /\ UNCHANGED status
    BY <1>4 DEF CanStopEnd
  <2> HIDE DEF e, s
  <2>3. /\ ex'[n] = e /\ flexus'[n] = "answer" /\ Others(n) /\ Speaks(n, "none", s)
    BY <1>0, <2>2, OthersAt DEF TypeOK, Speaks, FlexusSays
  <2>4. StepTold(n, "none", s)
    BY <1>0, <2>1, <2>2, <2>3, ToldAt DEF StepTold
  <2>5. QED
    BY <2>3, <2>4, ToldKept
<1>5. CASE CanStopAnswer(n)
  <2> DEFINE e == [ex[n] EXCEPT !.ready = TRUE]
  <2>1. /\ e.endSent = ex[n].endSent /\ e.pairFin = ex[n].pairFin
        /\ e.permitted = ex[n].permitted
    BY <1>0 DEF ExitFields
  <2>2. /\ Speaks(n, "none", <<>>) /\ ex' = [ex EXCEPT ![n] = e] /\ UNCHANGED flexusOut
        /\ flexus' = [flexus EXCEPT ![n] = "idle"] /\ flexus[n] = "answer"
    BY <1>5 DEF CanStopAnswer, FlexusAt, Speaks, wire
  <2>3. \E v : status' = [status EXCEPT ![n] = v]
               /\ (v = "exited" => ex[n].permitted /\ ex[n].pairFin)
    <3>1. status = [status EXCEPT ![n] = "up"]
      BY <1>0 DEF TypeOK
    <3>2. QED
      BY <1>5, <3>1 DEF CanStopAnswer, MayExit
  <2> HIDE DEF e
  <2>4. /\ ex'[n] = e /\ flexus'[n] = "idle" /\ Others(n)
        /\ status'[n] = "exited" => ex[n].permitted /\ ex[n].pairFin
    BY <1>0, <2>2, <2>3, OthersAt DEF TypeOK
  <2>5. main[n] \in {"setup", "run"}
    BY <2>2, ToldAt DEF FlexusQuiet
  <2>6. ex[n].permitted /\ ex[n].pairFin => ex[n].endSent /\ ~Carries(mainOut[n], "END")
    BY <2>2, <2>5, ToldAt
  <2>7. StepTold(n, "none", <<>>)
    BY <1>0, <2>1, <2>2, <2>4, <2>5, <2>6, ToldAt DEF StepTold
  <2>8. QED
    BY <2>2, <2>4, <2>7, ToldKept
<1>6. QED
  BY <1>1, <1>2, <1>3, <1>4, <1>5

-----------------------------------------------------------------------------
(* The theorems. *)

\* Every step is one of these.
LEMMA QuietOrLoud ==
  ASSUME TypeOK, NEW n \in Nodes,
         MainThread(n) \/ FlexusThread(n) \/ Tick(n) \/ SendPacket(n) \/ FinishInitiate(n)
  PROVE  (\E u, s : Quietly(n, u, s)) \/ Loud(n) \/ CheckpointBH(n)
<1>1. CASE Receive(n)
  BY <1>1, QuietReceive DEF Loud
<1>2. CASE Dispatch(n)
  BY <1>2, QuietDispatch
<1>3. CASE Boundary(n)
  BY <1>3, QuietBoundary DEF Boundary, Loud
<1>4. CASE FlexusThread(n)
  BY <1>4, QuietFlexus DEF FlexusThread, Loud
<1>5. CASE MainSend(n) \/ Tick(n) \/ SendPacket(n) \/ FinishInitiate(n)
  BY <1>5, QuietFlexus
<1>6. QED
  BY <1>1, <1>2, <1>3, <1>4, <1>5 DEF MainThread

\* Nothing happens.
LEMMA QuietStutter ==
  ASSUME TypeOK, UNCHANGED vars, NEW n \in Nodes PROVE Quietly(n, "none", <<>>)
<1>1. /\ UNCHANGED <<main, flexus, ex, status, ck>> /\ Speaks(n, "none", <<>>)
      /\ ex = [ex EXCEPT ![n] = ex[n]]
      /\ ~Carries(<<>>, "PERMISSION") /\ ~Carries(<<>>, "END")
      /\ "none" \notin {"END", "PERMISSION"}
  BY SameAt, CarriesNothing DEF vars, ctl, Speaks
<1>2. QED
  BY <1>1, QuietAt

LEMMA PermissionStep ==
  ASSUME ShouldSync, PauseWaits, TimedInv, HandshakeInv, PermissionOnce, [Next]_vars
  PROVE  PermissionOnce'
<1>0. PermBase /\ TypeOK /\ Master \in Nodes
  BY TypeStep, TwoNodes DEF PermBase, ExitBase, TimedInv, InductiveInv, SyncInv, TimeInv
<1>1. CASE UNCHANGED vars
  BY <1>0, <1>1, QuietStutter, QuietPerm
<1>2. ASSUME NEW n \in Nodes,
             MainThread(n) \/ FlexusThread(n) \/ Tick(n) \/ SendPacket(n) \/ FinishInitiate(n)
      PROVE  PermissionOnce'
  <2>1. (\E u, s : Quietly(n, u, s)) \/ Loud(n) \/ CheckpointBH(n)
    BY <1>0, <1>2, QuietOrLoud
  <2>2. QED
    BY <1>0, <2>1, QuietPerm, ReceivePerm, LeavePerm, GrantPerm DEF Loud
<1>3. QED
  BY <1>1, <1>2 DEF Next

LEMMA ToldStep ==
  ASSUME ShouldSync, PauseWaits, InitNodes = {}, TimedInv, HandshakeInv, StopInv,
         PermissionOnce, EndTold, [Next]_vars
  PROVE  EndTold'
<1>0. ToldBase /\ TypeOK /\ Master \in Nodes
  BY TypeStep, HandshakeStep, TwoNodes
  DEF ToldBase, PermBase, StopBase, ExitBase, TimedInv, InductiveInv, SyncInv, TimeInv
<1>1. CASE UNCHANGED vars
  BY <1>0, <1>1, QuietStutter, QuietTold
<1>2. ASSUME NEW n \in Nodes,
             MainThread(n) \/ FlexusThread(n) \/ Tick(n) \/ SendPacket(n) \/ FinishInitiate(n)
      PROVE  EndTold'
  <2>1. (\E u, s : Quietly(n, u, s)) \/ Loud(n) \/ CheckpointBH(n)
    BY <1>0, <1>2, QuietOrLoud
  <2>2. QED
    BY <1>0, <2>1, QuietTold, ReceiveTold, LeaveTold, PermitTold, CanStopTold DEF Loud
<1>3. QED
  BY <1>1, <1>2 DEF Next

LEMMA OnceInitial == Init => PermissionOnce /\ EndTold
<1> SUFFICES ASSUME Init PROVE PermissionOnce /\ EndTold
  OBVIOUS
<1>1. \A n \in Nodes : /\ ring[n] = <<>> /\ mainOut[n] = <<>> /\ flexusOut[n] = <<>>
                       /\ main[n] = "setup" /\ flexus[n] = "idle" /\ status[n] = "up"
                       /\ ~ex[n].permitted /\ ~ex[n].pairFin /\ ~ex[n].endSent
  BY DEF Init, InitWWT, InitEngine
<1>2. PermissionOnce
  BY <1>1, TwoNodes, CarriesNothing, OneShort DEF PermissionOnce, Once, OnceIn
<1>3. EndTold
  BY <1>1, TwoNodes, CarriesNothing DEF EndTold
<1>4. QED
  BY <1>2, <1>3

LEMMA EndOnceInductive == Spec => []EndOnce
<1>1. Init => TypeOK /\ EndOnce
  BY InitType, EndOnceInitial
<1>2. TypeOK /\ EndOnce /\ [Next]_vars => TypeOK' /\ EndOnce'
  BY TypeStep, EndOnceStep
<1>3. QED
  BY <1>1, <1>2, PTL DEF Spec

\* END and PERMISSION are in one place at most, and END has been said by whoever
\* is gone, in every reachable state (pdes-engine.c:104-137, 459-484,
\* pdes-wwt.c:353-361, 427-440).
THEOREM OnceInductive == ASSUME KeysSuffice PROVE Spec => []OnceInv
<1>1. Spec => []EndOnce
  BY EndOnceInductive
<1>2. CASE ~(ShouldSync /\ PauseWaits)
  <2>1. EndOnce => OnceInv
    BY <1>2 DEF OnceInv
  <2>2. QED
    BY <1>1, <2>1, PTL
<1>3. CASE ShouldSync /\ PauseWaits
  <2>1. Init => PermissionOnce /\ EndTold
    BY OnceInitial
  <2>2. TimedInv /\ HandshakeInv /\ PermissionOnce /\ [Next]_vars => PermissionOnce'
    BY <1>3, PermissionStep
  <2>3. Spec => []PermissionOnce
    BY <1>3, <2>1, <2>2, TimedInductive, HandshakeInductive, PTL DEF Spec
  <2>4. CASE InitNodes # {}
    <3>1. EndOnce /\ PermissionOnce => OnceInv
      BY <2>4 DEF OnceInv
    <3>2. QED
      BY <1>1, <2>3, <3>1, PTL
  <2>5. CASE InitNodes = {}
    <3>1. TimedInv /\ HandshakeInv /\ StopInv /\ PermissionOnce /\ EndTold /\ [Next]_vars => EndTold'
      BY <1>3, <2>5, ToldStep
    <3>2. Spec => []EndTold
      BY <1>3, <2>1, <2>3, <3>1, TimedInductive, HandshakeInductive, StopInductive, PTL DEF Spec
    <3>3. EndOnce /\ PermissionOnce /\ EndTold => OnceInv
      BY DEF OnceInv
    <3>4. QED
      BY <1>1, <2>3, <3>2, <3>3, PTL
  <2>6. QED
    BY <2>4, <2>5
<1>4. QED
  BY <1>2, <1>3

\* pdes-engine.c:107: END is sent once, though the main thread and Flexus both send
\* it and each only looks whether it has been; whatever flexus_api.pause does, and
\* with checkpoints.
THEOREM EndIsSentOnce == Spec => []EndSentOnce
<1>1. TypeOK /\ EndOnce => EndSentOnce
  BY EndCounted
<1>2. QED
  BY <1>1, EndOnceInductive, TypeCorrect, PTL

\* pdes-wwt.c:429: PERMISSION is granted once, by one of the master's threads.
THEOREM PermissionIsSentOnce ==
  ASSUME KeysSuffice, ShouldSync, PauseWaits PROVE Spec => []PermissionSentOnce
<1>1. TypeOK /\ OnceInv => PermissionSentOnce
  <2> SUFFICES ASSUME TypeOK, OnceInv PROVE PermissionSentOnce
    OBVIOUS
  <2>1. /\ Once(Master, "PERMISSION", ex[Follower].permitted) /\ Master \in Nodes
        /\ ex[Follower].permitted \in BOOLEAN
    BY TwoNodes DEF OnceInv, PermissionOnce, TypeOK, ExitFields
  <2>2. QED
    BY <2>1, OnceCount DEF PermissionSentOnce
<1>2. QED
  BY <1>1, OnceInductive, TypeCorrect, PTL

\* pdes-engine.c:132: where no checkpoint ends the simulation, a process that has
\* exited has told its peer: END is in the peer's ring, or has been read.
THEOREM NobodyIsOrphaned ==
  ASSUME KeysSuffice, ShouldSync, PauseWaits, InitNodes = {} PROVE Spec => []NoOrphan
<1>1. OnceInv => NoOrphan
  <2> SUFFICES ASSUME OnceInv, NEW n \in Nodes, status[n] = "exited"
               PROVE  OfType(ring[Peer(n)], "END") # {} \/ ex[Peer(n)].pairFin
    BY DEF NoOrphan
  <2>1. Carries(ring[Peer(n)], "END") \/ ex[Peer(n)].pairFin
    BY DEF OnceInv, EndTold, UnderWay
  <2>2. QED
    BY <2>1 DEF Carries, OfType
<1>2. QED
  BY <1>1, OnceInductive, PTL

-----------------------------------------------------------------------------
(* The request, in the flags of both processes. *)

\* What RequestOnce and DrainOnce read of the checkpoint's fields.
SameRequest(c, d) ==
  /\ c.signalled = d.signalled /\ c.needs = d.needs /\ c.saved = d.saved
  /\ c.masterInit = d.masterInit /\ c.initFlag = d.initFlag

\* The fields of n after a step, as far as n itself decides.
RequestAt(n, c, f) ==
  /\ c.signalled => n \in InitNodes
  /\ c.needs => c.saved = {}
  /\ c.notified => c.needs
  /\ n = Follower => f # "setflags"
  /\ n = Master =>
       /\ f = "setflags" => c.signalled /\ c.initFlag >= 1 /\ ~c.needs /\ c.saved = {}
       /\ c.masterInit \/ c.needs \/ c.saved # {} => c.signalled
       /\ c.needs \/ c.saved # {} => c.initFlag >= 1

LEMMA RequestOfAll ==
  RequestOnce <=> \A n \in Nodes : RequestAt(n, ck[n], flexus[n])
BY TwoNodes DEF RequestOnce, RequestAt

LEMMA RequestOfAllNext ==
  RequestOnce' <=> \A n \in Nodes : RequestAt(n, ck'[n], flexus'[n])
BY TwoNodes DEF RequestOnce, RequestAt

\* A step of n leaves c in the checkpoint's fields and f in the Flexus of n.
LEMMA RequestStays ==
  ASSUME TypeOK, RequestOnce, NEW n \in Nodes,
         NEW c, (UNCHANGED ck /\ c = ck[n]) \/ ck' = [ck EXCEPT ![n] = c],
         NEW f, (UNCHANGED flexus /\ f = flexus[n]) \/ flexus' = [flexus EXCEPT ![n] = f],
         RequestAt(n, c, f)
  PROVE  RequestOnce'
<1>1. /\ ck'[n] = c /\ flexus'[n] = f
      /\ \A m \in Nodes \ {n} : ck'[m] = ck[m] /\ flexus'[m] = flexus[m]
  BY DEF TypeOK
<1>2. QED
  BY <1>1, RequestOfAll, RequestOfAllNext

LEMMA RequestSame ==
  ASSUME TypeOK, RequestOnce, NEW n \in Nodes, UNCHANGED ck,
         UNCHANGED flexus \/ \E f \in FlexusStates \ {"setflags"} : flexus' = [flexus EXCEPT ![n] = f]
  PROVE  RequestOnce'
<1>1. RequestAt(n, ck[n], flexus[n])
  BY RequestOfAll
<1>2. ASSUME NEW f \in FlexusStates \ {"setflags"} PROVE RequestAt(n, ck[n], f)
  BY <1>1, <1>2 DEF RequestAt
<1>3. QED
  BY <1>1, <1>2, RequestStays

\* Fields that are not a request, or are one of their node already.
LEMMA RequestKeeps ==
  ASSUME TypeOK, RequestOnce, NEW n \in Nodes,
         NEW c, ck' = [ck EXCEPT ![n] = c], UNCHANGED flexus,
         SameRequest(c, ck[n]), c.notified => c.needs
  PROVE  RequestOnce'
<1>1. RequestAt(n, ck[n], flexus[n])
  BY RequestOfAll
<1>2. RequestAt(n, c, flexus[n])
  BY <1>1 DEF RequestAt, SameRequest
<1>3. QED
  BY <1>2, RequestStays

\* Receiving.
LEMMA InitStepRequest ==
  ASSUME TypeOK, RequestOnce, NEW n \in Nodes, RecvInitStep(n) PROVE RequestOnce'
<1> DEFINE b == [ck[n] EXCEPT !.initFlag = ck[n].initFlag + 1]
           c == IF n = Master /\ b.initFlag = 1 /\ b.masterInit
                THEN CheckpointValues(b, round[n]) ELSE b
<1>1. /\ ck[n] \in CkptFields /\ RequestAt(n, ck[n], flexus[n])
      /\ ck' = [ck EXCEPT ![n] = c] /\ UNCHANGED flexus
  BY RequestOfAll DEF RecvInitStep, TypeOK, ctl
<1>2. /\ b \in CkptFields /\ b.initFlag = ck[n].initFlag + 1 /\ b.notified = ck[n].notified
      /\ b.signalled = ck[n].signalled /\ b.needs = ck[n].needs /\ b.saved = ck[n].saved
      /\ b.masterInit = ck[n].masterInit /\ ck[n].initFlag \in Nat
  BY <1>1 DEF CkptFields
<1> HIDE DEF b
<1>3. CASE c = b
  <2>1. RequestAt(n, b, flexus[n])
    BY <1>1, <1>2 DEF RequestAt
  <2>2. QED
    BY <1>1, <1>3, <2>1, RequestStays
<1>4. CASE c # b
  <2>1. n = Master /\ b.initFlag = 1 /\ b.masterInit /\ c = CheckpointValues(b, round[n])
    BY <1>4
  <2>2. /\ c.initFlag = b.initFlag /\ c.signalled = b.signalled /\ c.saved = b.saved
        /\ c.masterInit = b.masterInit /\ ~c.notified /\ c.needs
    BY <1>2, <2>1 DEF CheckpointValues, CkptFields
  <2> HIDE DEF c
  <2>3. ck[n].initFlag = 0 /\ n # Follower
    BY <1>2, <2>1, TwoNodes
  <2>4. RequestAt(n, c, flexus[n])
    BY <1>1, <1>2, <2>1, <2>2, <2>3 DEF RequestAt
  <2>5. QED
    BY <1>1, <2>4, RequestStays
<1>5. QED
  BY <1>3, <1>4

\* The follower adopts what it has not adopted.
LEMMA DrainStartRequest ==
  ASSUME TypeOK, RequestOnce, DrainOnce, NEW n \in Nodes, RecvDrainStart(n) PROVE RequestOnce'
<1>1. CASE n = Master
  BY <1>1, RequestSame DEF RecvDrainStart, ctl
<1>2. CASE n = Follower
  <2> DEFINE c == [ck[n] EXCEPT !.needs = TRUE, !.ckround = Head(ring[n]).val]
  <2>1. /\ ck[n] \in CkptFields /\ RequestAt(n, ck[n], flexus[n])
        /\ ck' = [ck EXCEPT ![n] = c] /\ UNCHANGED flexus /\ n # Master
    BY <1>2, RequestOfAll, TwoNodes DEF RecvDrainStart, TypeOK, ctl
  <2>2. c.needs /\ c.saved = ck[n].saved /\ c.signalled = ck[n].signalled
    BY <2>1 DEF CkptFields
  <2> HIDE DEF c
  <2>3. Carries(ring[Follower], "DRAIN_START")
    <3>1. ring[n] \in Seq(Message) /\ ring[n] # <<>> /\ Head(ring[n]).type = "DRAIN_START"
      BY DEF RecvDrainStart, Receiving, TypeOK
    <3>2. QED
      BY <1>2, <3>1, CarriesTail
  <2>4. ck[n].saved = {}
    BY <1>2, <2>3, TwoNodes DEF DrainOnce, Once, OnceIn, Adopted
  <2>5. RequestAt(n, c, flexus[n])
    BY <2>1, <2>2, <2>4 DEF RequestAt
  <2>6. QED
    BY <2>1, <2>5, RequestStays
<1>3. QED
  BY <1>1, <1>2, TwoNodes

\* The snapshot.
LEMMA SnapshotFields ==
  ASSUME TypeOK, RequestOnce, NEW n \in Nodes, ck[n].needs
  PROVE  LET c == AfterSnapshot(n) IN
         /\ Validated(n)
         /\ ~c.needs /\ ~c.notified /\ c.saved = {round[n]} /\ c.bh = "none"
         /\ c.masterInit = ck[n].masterInit /\ c.signalled = ck[n].signalled
         /\ c.initFlag = ck[n].initFlag
<1>1. /\ ck[n] \in CkptFields /\ RequestAt(n, ck[n], flexus[n])
  BY RequestOfAll DEF TypeOK
<1>2. Validated(n) /\ ck[n].saved = {}
  BY <1>1 DEF Validated, RequestAt
<1>3. ck[n].masterInit \in BOOLEAN
  BY <1>1 DEF CkptFields
<1>4. QED
  BY <1>1, <1>2, <1>3 DEF AfterSnapshot, CkptFields

LEMMA SnapshotRequest ==
  ASSUME TypeOK, RequestOnce, NEW n \in Nodes, CheckpointBH(n) PROVE RequestOnce'
<1> DEFINE c == AfterSnapshot(n)
<1>1. /\ ck[n].needs /\ RequestAt(n, ck[n], flexus[n])
      /\ ck' = [ck EXCEPT ![n] = c] /\ UNCHANGED flexus
  BY RequestOfAll DEF CheckpointBH
<1>2. /\ ~c.needs /\ ~c.notified /\ c.saved = {round[n]}
      /\ c.masterInit = ck[n].masterInit /\ c.signalled = ck[n].signalled
      /\ c.initFlag = ck[n].initFlag
  BY <1>1, SnapshotFields
<1> HIDE DEF c
<1>3. RequestAt(n, c, flexus[n])
  BY <1>1, <1>2 DEF RequestAt
<1>4. QED
  BY <1>1, <1>3, RequestStays

-----------------------------------------------------------------------------
(* What a step adds to what n has said. *)

Notified(c) == c.notified \/ c.saved # {}
HasAdopted(c) == c.needs \/ c.saved # {}

BlockBase == TypeOK /\ TypeOK' /\ RequestOnce /\ DrainOnce /\ SpeaksAtStop

\* What is under way was under way, or is said.
LEMMA SpeaksAdds ==
  ASSUME TypeOK, NEW n \in Nodes, NEW u, NEW s, Speaks(n, u, s), NEW m \in Nodes, NEW t
  PROVE  /\ UnderWay(m, t)' => UnderWay(m, t) \/ (m = n /\ Carries(s, t))
         /\ m = Peer(n) /\ u = t /\ u # "none" => UnderWay(m, t)
<1>1. CASE UNCHANGED wire /\ u = "none"
  BY <1>1, AddsNothing DEF UnderWay, wire
<1>2. CASE (MainSend(n) \/ FlexusSend(n)) /\ s = <<>> /\ u = "none"
  BY <1>2, AddsSent DEF Adds
<1>3. CASE (MainSays(n, s) \/ FlexusSays(n, s)) /\ u = "none"
  BY <1>3, AddsMain, AddsFlexus DEF Adds, MainSays, FlexusSays
<1>4. CASE Takes(n, u, s) /\ u \in MsgTypes
  BY <1>4, AddsReceived DEF Adds, Takes
<1>5. QED
  BY <1>1, <1>2, <1>3, <1>4 DEF Speaks

\* In a step n says s or takes u; all that it says is accounted for in its
\* fields, but for k messages.  SYNC is said at the end of quanta_sync only.
Turn(n, u, s, k) ==
  /\ Speaks(n, u, s) /\ s \in Seq(Message) /\ Others(n)
  /\ RequestOnce' /\ SpeaksAtStop'
  /\ One(s, "DRAIN_START")
  /\ n = Master /\ Carries(s, "DRAIN_START") => ~Notified(ck[n]) /\ Notified(ck'[n])
  /\ Notified(ck[n]) => Notified(ck'[n])
  /\ n = Follower => (HasAdopted(ck'[n]) <=> HasAdopted(ck[n]) \/ u = "DRAIN_START")
  /\ NoSync(s) \/ (main[n] = "notify" /\ main'[n] = "armed")
  /\ ExitBase /\ PermissionOnce => Said(n)' + k >= Said(n) + Len(s)

LEMMA DrainKept ==
  ASSUME BlockBase, NEW n \in Nodes, NEW u, NEW s, NEW k, Turn(n, u, s, k)
  PROVE  DrainOnce'
<1>0. /\ TypeOK /\ Master \in Nodes /\ Follower \in Nodes /\ Master # Follower
      /\ Peer(Follower) = Master /\ Peer(Master) = Follower /\ (n = Master \/ n = Follower)
      /\ Adopted \in BOOLEAN /\ Once(Master, "DRAIN_START", Adopted)
      /\ UnderWay(Master, "DRAIN_START") \/ Adopted => Notified(ck[Master])
  BY TwoNodes DEF BlockBase, DrainOnce, Notified, TypeOK, CkptFields, Adopted
<1>1. /\ Speaks(n, u, s) /\ One(s, "DRAIN_START") /\ Others(n)
      /\ n = Master /\ Carries(s, "DRAIN_START") => ~Notified(ck[n]) /\ Notified(ck'[n])
      /\ Notified(ck[n]) => Notified(ck'[n])
      /\ n = Follower => (HasAdopted(ck'[n]) <=> HasAdopted(ck[n]) \/ u = "DRAIN_START")
  BY DEF Turn
<1>2. Master = n /\ Carries(s, "DRAIN_START") => ~UnderWay(n, "DRAIN_START") /\ ~Adopted
  BY <1>0, <1>1
<1>3. Adopted' <=> Adopted \/ (n = Follower /\ u = "DRAIN_START")
  BY <1>0, <1>1 DEF Adopted, HasAdopted, Others
<1>4. /\ NowOnce(Master, "DRAIN_START", Adopted)
      /\ n = Follower /\ u = "DRAIN_START" => NowOnce(Master, "DRAIN_START", TRUE)
  <2>1. CASE UNCHANGED wire /\ u = "none"
    BY <1>0, <2>1, NowSilent
  <2>2. CASE (MainSend(n) \/ FlexusSend(n)) /\ u = "none"
    BY <1>0, <2>2, NowSent
  <2>3. CASE (MainSays(n, s) \/ FlexusSays(n, s)) /\ u = "none"
    BY <1>0, <1>1, <1>2, <2>3, NowSaid
  <2>4. CASE Takes(n, u, s)
    BY <1>0, <1>1, <1>2, <2>4, NowTaken
  <2>5. QED
    BY <1>1, <2>1, <2>2, <2>3, <2>4 DEF Speaks
<1>5. Once(Master, "DRAIN_START", Adopted)'
  <2>1. Adopted' = Adopted \/ (n = Follower /\ u = "DRAIN_START" /\ Adopted' = TRUE)
    BY <1>3 DEF Adopted
  <2>2. QED
    BY <1>4, <2>1 DEF Once, NowOnce
<1>6. UnderWay(Master, "DRAIN_START")' \/ Adopted' => Notified(ck'[Master])
  <2>1. Notified(ck[Master]) => Notified(ck'[Master])
    BY <1>0, <1>1 DEF Others
  <2>2. /\ UnderWay(Master, "DRAIN_START")'
             => UnderWay(Master, "DRAIN_START") \/ (n = Master /\ Carries(s, "DRAIN_START"))
        /\ n = Follower /\ u = "DRAIN_START" => UnderWay(Master, "DRAIN_START")
    BY <1>0, <1>1, SpeaksAdds
  <2>3. QED
    BY <1>0, <1>1, <1>3, <2>1, <2>2
<1>7. QED
  BY <1>5, <1>6 DEF DrainOnce, Notified

\* The account of n, in its fields e and c.
FirstSaid(n, e) == Bit(IF n = Master THEN e.permitted ELSE e.intent)
SnapSaid(n, c) == Bit(IF n = Master THEN c.saved # {} ELSE c.signalled)
SaidOf(n, e, c) == FirstSaid(n, e) + Bit(e.endSent) + (SnapSaid(n, c) + Bit(Notified(c)))

LEMMA SaidIs == \A n : Said(n) = SaidOf(n, ex[n], ck[n])
BY DEF Said, ExitSaid, CkptSaid, SaidOf, FirstSaid, SnapSaid, Notified

LEMMA SaidIsNext == \A n : Said(n)' = SaidOf(n, ex'[n], ck'[n])
BY DEF Said, ExitSaid, CkptSaid, SaidOf, FirstSaid, SnapSaid, Notified

LEMMA BitNat == \A b : Bit(b) \in Nat /\ Bit(b) <= 1
BY DEF Bit

\* The parts of the account.
LEMMA SaidNat ==
  ASSUME NEW n, NEW e, NEW c
  PROVE  /\ FirstSaid(n, e) \in Nat /\ SnapSaid(n, c) \in Nat
         /\ Bit(e.endSent) \in Nat /\ Bit(Notified(c)) \in Nat
         /\ SaidOf(n, e, c) = FirstSaid(n, e) + Bit(e.endSent) + (SnapSaid(n, c) + Bit(Notified(c)))
BY BitNat DEF FirstSaid, SnapSaid, SaidOf

\* A step of n that leaves e and c in its fields.
LEMMA TurnAt ==
  ASSUME BlockBase, NEW n \in Nodes, NEW u, NEW s \in Seq(Message), NEW k, Speaks(n, u, s),
         One(s, "DRAIN_START"), NoSync(s) \/ (main[n] = "notify" /\ main'[n] = "armed"),
         RequestOnce', UNCHANGED <<stopAt, now>>,
         NEW e, ex' = [ex EXCEPT ![n] = e], NEW c, ck' = [ck EXCEPT ![n] = c],
         UNCHANGED flexus
           \/ \E f \in FlexusStates \ {"ask"} : flexus' = [flexus EXCEPT ![n] = f],
         UNCHANGED main \/ \E v : main' = [main EXCEPT ![n] = v],
         UNCHANGED status \/ \E v : status' = [status EXCEPT ![n] = v],
         e.endSent => e.permitted,
         e.intent => ex[n].intent \/ flexus[n] = "ask",
         n = Master /\ Carries(s, "DRAIN_START") => ~Notified(ck[n]) /\ Notified(c),
         Notified(ck[n]) => Notified(c),
         n = Follower => (HasAdopted(c) <=> HasAdopted(ck[n]) \/ u = "DRAIN_START"),
         ExitBase /\ PermissionOnce => SaidOf(n, e, c) + k >= SaidOf(n, ex[n], ck[n]) + Len(s)
  PROVE  Turn(n, u, s, k)
<1>1. Others(n)
  BY OthersAt DEF BlockBase
<1>2. ex'[n] = e /\ ck'[n] = c /\ (flexus'[n] = "ask" => flexus[n] = "ask")
  BY DEF BlockBase, TypeOK
<1>3. SpeaksAtStop'
  <2> SUFFICES ASSUME NEW m \in Nodes
               PROVE  /\ stopAt'[m] \in StopTimes
                      /\ ex'[m].endSent => ex'[m].permitted
                      /\ flexus'[m] = "ask" \/ ex'[m].intent => Reached(m)'
    BY DEF SpeaksAtStop
  <2>1. /\ stopAt[m] \in StopTimes /\ (ex[m].endSent => ex[m].permitted)
        /\ flexus[m] = "ask" \/ ex[m].intent => Reached(m)
    BY DEF BlockBase, SpeaksAtStop
  <2>2. Reached(m)' <=> Reached(m)
    BY DEF Reached
  <2>3. CASE m = n
    BY <1>2, <2>1, <2>2, <2>3
  <2>4. CASE m # n
    BY <1>1, <2>1, <2>2, <2>4 DEF Others
  <2>5. QED
    BY <2>3, <2>4
<1>4. Said(n)' = SaidOf(n, e, c) /\ Said(n) = SaidOf(n, ex[n], ck[n])
  BY <1>2, SaidIs, SaidIsNext
<1> HIDE DEF SaidOf
<1>5. QED
  BY <1>1, <1>2, <1>3, <1>4 DEF Turn

\* A step that changes no field of the handshake or the checkpoint.
LEMMA TurnPlain ==
  ASSUME BlockBase, NEW n \in Nodes, NEW u, NEW s \in Seq(Message), NEW k \in Nat, Speaks(n, u, s),
         ~Carries(s, "DRAIN_START"), NoSync(s), n = Master \/ u # "DRAIN_START", Len(s) <= k,
         UNCHANGED <<stopAt, now, ex, ck>>,
         UNCHANGED flexus
           \/ \E f \in FlexusStates \ {"ask", "setflags"} : flexus' = [flexus EXCEPT ![n] = f],
         UNCHANGED main \/ \E v : main' = [main EXCEPT ![n] = v],
         UNCHANGED status \/ \E v : status' = [status EXCEPT ![n] = v]
  PROVE  Turn(n, u, s, k)
<1>0. /\ TypeOK /\ ex = [ex EXCEPT ![n] = ex[n]] /\ ck = [ck EXCEPT ![n] = ck[n]]
      /\ ex[n].endSent => ex[n].permitted
      /\ RequestOnce /\ Master # Follower
  BY SameAt, TwoNodes DEF BlockBase, SpeaksAtStop
<1>1. RequestOnce'
  BY <1>0, RequestSame
<1>2. One(s, "DRAIN_START")
  BY DEF One, Carries
<1>3. SaidOf(n, ex[n], ck[n]) + k >= SaidOf(n, ex[n], ck[n]) + Len(s)
  BY DEF SaidOf, FirstSaid, SnapSaid, Bit
<1>4. QED
  BY <1>0, <1>1, <1>2, <1>3, TurnAt

LEMMA JoinLength ==
  ASSUME NEW s \in Seq(Message), NEW t \in Seq(Message)
  PROVE  /\ s \o t \in Seq(Message) /\ Len(s \o t) = Len(s) + Len(t)
         /\ Len(s) \in Nat /\ Len(t) \in Nat
OBVIOUS

\* One message is none of the master's request, and counts one.
LEMMA OneLine ==
  ASSUME NEW t \in MsgTypes, NEW v \in Nat
  PROVE  /\ <<Msg(t, v)>> \in Seq(Message) /\ Len(<<Msg(t, v)>>) = 1
         /\ One(<<Msg(t, v)>>, "DRAIN_START")
         /\ t # "DRAIN_START" => ~Carries(<<Msg(t, v)>>, "DRAIN_START")
         /\ t # "SYNC" => NoSync(<<Msg(t, v)>>)
<1>1. t # "SYNC" => NoSync(<<Msg(t, v)>>)
  BY DEF NoSync, IsSync, Msg
<1>2. QED
  BY <1>1, MsgSeq, OneShort, CarriesOne DEF MsgTypes

-----------------------------------------------------------------------------
(* Every step, accounted for. *)

LEMMA Silence ==
  /\ <<>> \in Seq(Message) /\ Len(<<>>) = 0 /\ One(<<>>, "DRAIN_START")
  /\ ~Carries(<<>>, "DRAIN_START") /\ NoSync(<<>>)
<1>1. <<>> \in Seq(Message) /\ Len(<<>>) = 0
  OBVIOUS
<1>2. NoSync(<<>>)
  BY DEF NoSync
<1>3. QED
  BY <1>1, <1>2, OneShort, CarriesNothing

LEMMA TurnSilent ==
  ASSUME BlockBase, NEW n \in Nodes, NEW u, Speaks(n, u, <<>>), n = Master \/ u # "DRAIN_START",
         UNCHANGED stopAt, UNCHANGED now, UNCHANGED ex, UNCHANGED ck,
         UNCHANGED flexus
           \/ \E f \in FlexusStates \ {"ask", "setflags"} : flexus' = [flexus EXCEPT ![n] = f],
         UNCHANGED main \/ \E v : main' = [main EXCEPT ![n] = v],
         UNCHANGED status \/ \E v : status' = [status EXCEPT ![n] = v]
  PROVE  Turn(n, u, <<>>, 0)
<1>1. UNCHANGED <<stopAt, now, ex, ck>>
  OBVIOUS
<1>2. Len(<<>>) <= 0 /\ 0 \in Nat
  BY Silence
<1>3. QED
  BY <1>1, <1>2, Silence, TurnPlain

LEMMA MoveTurn ==
  ASSUME BlockBase, NEW n \in Nodes,
         \/ MainSend(n) \/ FlexusSend(n) \/ PollDone(n)
         \/ HostPoll(n) \/ PauseBh(n) \/ SetupWWT(n) \/ Deliver(n) \/ QuantaSync(n) \/ SyncCheck(n)
         \/ CheckCount(n) \/ SpinOn(n) \/ SpinStop(n) \/ BoundaryTooLate(n) \/ BoundaryPass(n)
         \/ Permit(n) \/ Exit(n) \/ Advance(n)
  PROVE  Turn(n, "none", <<>>, 0)
<1>1. CASE MainSend(n) \/ FlexusSend(n)
  <2>1. Speaks(n, "none", <<>>) /\ UNCHANGED <<stopAt, now, ex, ck, flexus, main, status>>
    BY <1>1 DEF MainSend, FlexusSend, Speaks, ctl, wwt
  <2>2. QED
    BY <2>1, TurnSilent
<1>2. CASE PollDone(n) \/ HostPoll(n) \/ PauseBh(n) \/ Deliver(n)
  <2>1. Speaks(n, "none", <<>>) /\ UNCHANGED <<stopAt, now, ex, ck, flexus, main, status>>
    BY <1>2 DEF PollDone, HostPoll, PauseBh, Deliver, Speaks, ctl, wwt
  <2>2. QED
    BY <2>1, TurnSilent
<1>3. CASE SetupWWT(n) \/ SyncCheck(n) \/ CheckCount(n) \/ SpinOn(n) \/ BoundaryPass(n)
           \/ Permit(n) \/ Advance(n)
  <2>1. Speaks(n, "none", <<>>) /\ UNCHANGED <<stopAt, now, ex, ck, flexus, status>>
    BY <1>3 DEF SetupWWT, SyncCheck, CheckCount, SpinOn, BoundaryPass, Permit, Advance, Speaks, wwt
  <2>2. \E v : main' = [main EXCEPT ![n] = v]
    BY <1>3 DEF SetupWWT, SyncCheck, CheckCount, SpinOn, BoundaryPass, Permit, Advance
  <2>3. QED
    BY <2>1, <2>2, TurnSilent
<1>4. CASE SpinStop(n) \/ BoundaryTooLate(n) \/ Exit(n)
  <2>1. Speaks(n, "none", <<>>) /\ UNCHANGED <<stopAt, now, ex, ck, flexus, main>>
    BY <1>4 DEF SpinStop, BoundaryTooLate, Exit, Speaks, wwt
  <2>2. \E v : status' = [status EXCEPT ![n] = v]
    BY <1>4 DEF SpinStop, BoundaryTooLate, Exit, Abort
  <2>3. QED
    BY <2>1, <2>2, TurnSilent
<1>5. CASE QuantaSync(n)
  <2>1. Speaks(n, "none", <<>>) /\ UNCHANGED <<stopAt, now, ex, ck, flexus>>
    BY <1>5 DEF QuantaSync, Speaks
  <2>2. /\ main' = [main EXCEPT ![n] = "notify"]
        /\ UNCHANGED status \/ \E v : status' = [status EXCEPT ![n] = v]
    BY <1>5, Zenon DEF QuantaSync, Pause, Abort
  <2>3. QED
    BY <2>1, <2>2, TurnSilent
<1>6. QED
  BY <1>1, <1>2, <1>3, <1>4, <1>5

LEMMA ReceiveTurn ==
  ASSUME BlockBase, NEW n \in Nodes,
         RecvNormal(n) \/ RecvSync(n) \/ RecvDrainEnd(n)
  PROVE  \E u : Turn(n, u, <<>>, 0)
<1>1. \E u \in MsgTypes \ {"DRAIN_START"} : Takes(n, u, <<>>)
  BY DEF RecvNormal, RecvSync, RecvDrainEnd, Takes, MsgTypes
<1>2. PICK u \in MsgTypes \ {"DRAIN_START"} : Takes(n, u, <<>>)
  BY <1>1
<1>3. UNCHANGED <<stopAt, now, ex, ck, flexus, main>> /\ Speaks(n, u, <<>>)
  BY <1>2 DEF RecvNormal, RecvSync, RecvDrainEnd, Speaks, ctl, wwt
<1>4. UNCHANGED status \/ \E v : status' = [status EXCEPT ![n] = v]
  BY Zenon DEF RecvNormal, RecvSync, RecvDrainEnd, Abort, ctl
<1>5. u # "DRAIN_START"
  BY <1>2
<1>6. Turn(n, u, <<>>, 0)
  BY <1>3, <1>4, <1>5, TurnSilent
<1>7. QED
  BY <1>6

\* The exit's messages.
LEMMA ExitReceiveTurn ==
  ASSUME BlockBase, NEW n \in Nodes, RecvIntent(n) \/ RecvEnd(n)
  PROVE  \E u : Turn(n, u, <<>>, 0)
<1>0. /\ TypeOK /\ ex[n] \in ExitFields /\ ck = [ck EXCEPT ![n] = ck[n]]
      /\ ex = [ex EXCEPT ![n] = ex[n]]
      /\ ex[n].endSent => ex[n].permitted
      /\ RequestOnce /\ Master # Follower
  BY SameAt, TwoNodes DEF BlockBase, SpeaksAtStop
<1>1. \E u \in {"INTENT", "END"} : Takes(n, u, <<>>)
  BY DEF RecvIntent, RecvEnd, Takes
<1>2. PICK u \in {"INTENT", "END"} : Takes(n, u, <<>>)
  BY <1>1
<1>3. UNCHANGED <<stopAt, now, ck, flexus, main>> /\ Speaks(n, u, <<>>)
  BY <1>2 DEF RecvIntent, RecvEnd, Speaks, ctl, wwt, MsgTypes
<1>4. UNCHANGED status \/ \E v : status' = [status EXCEPT ![n] = v]
  BY Zenon DEF RecvIntent, RecvEnd, Abort, ctl
<1>5. RequestOnce' /\ u # "DRAIN_START"
  BY <1>0, <1>2, <1>3, RequestSame
<1>6. \E e : /\ ex' = [ex EXCEPT ![n] = e] /\ e.permitted = ex[n].permitted
             /\ e.endSent = ex[n].endSent /\ e.intent = ex[n].intent
  <2>1. CASE RecvIntent(n)
    <3> DEFINE v == IF n = Master THEN ex[n].nbrs + 1 ELSE ex[n].nbrs
               e == [ex[n] EXCEPT !.nbrs = v]
    <3>1. ex' = [ex EXCEPT ![n] = e]
      BY <2>1 DEF RecvIntent
    <3>2. /\ e.permitted = ex[n].permitted
          /\ e.endSent = ex[n].endSent /\ e.intent = ex[n].intent
      BY <1>0 DEF ExitFields
    <3> HIDE DEF e
    <3>3. QED
      BY <3>1, <3>2
  <2>2. CASE RecvEnd(n)
    <3> DEFINE e == [ex[n] EXCEPT !.pairFin = TRUE]
    <3>1. ex' = [ex EXCEPT ![n] = e] \/ UNCHANGED ex
      BY <2>2 DEF RecvEnd
    <3>2. /\ e.permitted = ex[n].permitted
          /\ e.endSent = ex[n].endSent /\ e.intent = ex[n].intent
      BY <1>0 DEF ExitFields
    <3> HIDE DEF e
    <3>3. QED
      BY <1>0, <3>1, <3>2
  <2>3. QED
    BY <2>1, <2>2
<1>7. PICK e : /\ ex' = [ex EXCEPT ![n] = e] /\ e.permitted = ex[n].permitted
               /\ e.endSent = ex[n].endSent /\ e.intent = ex[n].intent
  BY <1>6
<1>8. SaidOf(n, e, ck[n]) + 0 >= SaidOf(n, ex[n], ck[n]) + Len(<<>>)
  BY <1>7 DEF SaidOf, FirstSaid, SnapSaid, Bit
<1>9. Turn(n, u, <<>>, 0)
  BY <1>0, <1>3, <1>4, <1>5, <1>7, <1>8, Silence, TurnAt
<1>10. QED
  BY <1>9

\* A step that changes the fields of the checkpoint only, and says nothing of it.
LEMMA TurnCkpt ==
  ASSUME BlockBase, NEW n \in Nodes, NEW u, Speaks(n, u, <<>>), RequestOnce',
         UNCHANGED stopAt, UNCHANGED now, UNCHANGED ex, UNCHANGED status,
         NEW c, ck' = [ck EXCEPT ![n] = c],
         UNCHANGED flexus
           \/ \E f \in FlexusStates \ {"ask"} : flexus' = [flexus EXCEPT ![n] = f],
         UNCHANGED main \/ \E v : main' = [main EXCEPT ![n] = v],
         c.saved = ck[n].saved, ck[n].signalled => c.signalled, Notified(c) = Notified(ck[n]),
         n = Follower => (HasAdopted(c) <=> HasAdopted(ck[n]) \/ u = "DRAIN_START")
  PROVE  Turn(n, u, <<>>, 0)
<1>0. /\ ex = [ex EXCEPT ![n] = ex[n]]
      /\ ex[n].endSent => ex[n].permitted
  BY SameAt DEF BlockBase, SpeaksAtStop
<1>1. SaidOf(n, ex[n], c) + 0 >= SaidOf(n, ex[n], ck[n]) + Len(<<>>)
  BY DEF SaidOf, FirstSaid, SnapSaid, Bit
<1>2. UNCHANGED <<stopAt, now>>
  OBVIOUS
<1>3. QED
  BY <1>0, <1>1, <1>2, Silence, TurnAt

LEMMA DrainStartTurn ==
  ASSUME BlockBase, NEW n \in Nodes, RecvDrainStart(n)
  PROVE  Turn(n, "DRAIN_START", <<>>, 0)
<1>0. /\ Speaks(n, "DRAIN_START", <<>>) /\ RequestOnce'
      /\ UNCHANGED stopAt /\ UNCHANGED now /\ UNCHANGED ex /\ UNCHANGED status
      /\ UNCHANGED flexus /\ UNCHANGED main
      /\ ck[n] \in CkptFields
  BY DrainStartRequest DEF RecvDrainStart, Speaks, Takes, MsgTypes, ctl, wwt, BlockBase, TypeOK
<1>1. CASE n = Master
  <2>1. UNCHANGED ck
    BY <1>1 DEF RecvDrainStart
  <2>2. QED
    BY <1>0, <1>1, <2>1, TurnSilent
<1>2. CASE n # Master
  <2> DEFINE c == [ck[n] EXCEPT !.needs = TRUE, !.ckround = Head(ring[n]).val]
  <2>1. ck' = [ck EXCEPT ![n] = c]
    BY <1>2 DEF RecvDrainStart
  <2>2. /\ c.needs = TRUE /\ c.saved = ck[n].saved /\ c.signalled = ck[n].signalled
        /\ c.notified = ck[n].notified
    BY <1>0 DEF CkptFields
  <2> HIDE DEF c
  <2>3. QED
    BY <1>0, <2>1, <2>2, TurnCkpt DEF Notified, HasAdopted
<1>3. QED
  BY <1>1, <1>2

LEMMA InitStepTurn ==
  ASSUME BlockBase, NEW n \in Nodes, RecvInitStep(n)
  PROVE  Turn(n, "INIT_STEP", <<>>, 0)
<1> DEFINE b == [ck[n] EXCEPT !.initFlag = ck[n].initFlag + 1]
           c == IF n = Master /\ b.initFlag = 1 /\ b.masterInit
                THEN CheckpointValues(b, round[n]) ELSE b
<1>0. /\ Speaks(n, "INIT_STEP", <<>>) /\ RequestOnce' /\ "INIT_STEP" # "DRAIN_START"
      /\ UNCHANGED stopAt /\ UNCHANGED now /\ UNCHANGED ex /\ UNCHANGED status
      /\ UNCHANGED flexus /\ UNCHANGED main
      /\ ck[n] \in CkptFields /\ RequestAt(n, ck[n], flexus[n])
      /\ ck' = [ck EXCEPT ![n] = c] /\ Master # Follower
  BY InitStepRequest, RequestOfAll, TwoNodes
  DEF RecvInitStep, Speaks, Takes, MsgTypes, ctl, wwt, BlockBase, TypeOK
<1>1. /\ b \in CkptFields /\ b.initFlag = ck[n].initFlag + 1 /\ b.notified = ck[n].notified
      /\ b.signalled = ck[n].signalled /\ b.needs = ck[n].needs /\ b.saved = ck[n].saved
      /\ ck[n].initFlag \in Nat
  BY <1>0 DEF CkptFields
<1> HIDE DEF b
<1>2. CASE c = b
  BY <1>0, <1>1, <1>2, TurnCkpt DEF Notified, HasAdopted
<1>3. CASE c # b
  <2>1. n = Master /\ b.initFlag = 1 /\ c = CheckpointValues(b, round[n])
    BY <1>3
  <2>2. c.signalled = b.signalled /\ c.saved = b.saved /\ ~c.notified
    BY <1>1, <2>1 DEF CheckpointValues, CkptFields
  <2> HIDE DEF c
  <2>3. ck[n].initFlag = 0
    BY <1>1, <2>1
  <2>4. ~Notified(c) /\ ~Notified(ck[n])
    BY <1>0, <1>1, <2>1, <2>2, <2>3 DEF RequestAt, Notified
  <2>5. Notified(c) = Notified(ck[n])
    BY <2>4 DEF Notified
  <2>6. QED
    BY <1>0, <1>1, <2>1, <2>2, <2>5, TurnCkpt
<1>4. QED
  BY <1>2, <1>3

\* The bottom half is scheduled.
LEMMA ScheduleTurn ==
  ASSUME BlockBase, NEW n \in Nodes, BoundaryCheckpoint(n) PROVE Turn(n, "none", <<>>, 0)
<1> DEFINE c == [ck[n] EXCEPT !.bh = IF @ = "none" THEN "stay" ELSE @]
<1>0. /\ Speaks(n, "none", <<>>) /\ "none" # "DRAIN_START"
      /\ UNCHANGED stopAt /\ UNCHANGED now /\ UNCHANGED ex /\ UNCHANGED status
      /\ UNCHANGED flexus /\ main' = [main EXCEPT ![n] = "armed"]
      /\ ck[n] \in CkptFields /\ ck' = [ck EXCEPT ![n] = c]
      /\ RequestAt(n, ck[n], flexus[n])
  BY RequestOfAll DEF BoundaryCheckpoint, Speaks, wwt, BlockBase, TypeOK
<1>1. /\ SameRequest(c, ck[n]) /\ c.notified = ck[n].notified
      /\ c.signalled = ck[n].signalled /\ c.needs = ck[n].needs /\ c.saved = ck[n].saved
  BY <1>0 DEF CkptFields, SameRequest
<1> HIDE DEF c
<1>2. RequestOnce'
  BY <1>0, <1>1, RequestKeeps DEF BlockBase, RequestAt
<1>3. QED
  BY <1>0, <1>1, <1>2, TurnCkpt DEF Notified, HasAdopted

\* The master requests.
LEMMA SetCheckpointTurn ==
  ASSUME BlockBase, NEW n \in Nodes, SetCheckpointFlags(n) \/ SetCheckpointRound(n)
  PROVE  Turn(n, "none", <<>>, 0)
<1>0. /\ Speaks(n, "none", <<>>) /\ "none" # "DRAIN_START" /\ Master # Follower
      /\ UNCHANGED stopAt /\ UNCHANGED now /\ UNCHANGED ex /\ UNCHANGED status /\ UNCHANGED main
      /\ ck[n] \in CkptFields /\ RequestAt(n, ck[n], flexus[n])
  BY RequestOfAll, TwoNodes DEF SetCheckpointFlags, SetCheckpointRound, Speaks, wwt, BlockBase, TypeOK
<1>1. CASE SetCheckpointFlags(n)
  <2> DEFINE c == [ck[n] EXCEPT !.notified = FALSE, !.needs = TRUE]
  <2>1. /\ ck' = [ck EXCEPT ![n] = c] /\ flexus' = [flexus EXCEPT ![n] = "setround"]
        /\ flexus[n] = "setflags"
    BY <1>1 DEF SetCheckpointFlags, FlexusAt
  <2>2. /\ ~c.notified /\ c.needs /\ c.saved = ck[n].saved /\ c.signalled = ck[n].signalled
        /\ c.initFlag = ck[n].initFlag /\ c.masterInit = ck[n].masterInit
    BY <1>0 DEF CkptFields
  <2> HIDE DEF c
  <2>3. n = Master /\ ~ck[n].needs /\ ~ck[n].notified /\ ck[n].saved = {}
    BY <1>0, <2>1, TwoNodes DEF RequestAt
  <2>4. RequestAt(n, c, "setround")
    BY <1>0, <2>1, <2>2, <2>3 DEF RequestAt
  <2>5. RequestOnce'
    BY <2>1, <2>4, RequestStays DEF BlockBase
  <2>6. Notified(c) = Notified(ck[n])
    BY <2>2, <2>3 DEF Notified
  <2>7. \E f \in FlexusStates \ {"ask"} : flexus' = [flexus EXCEPT ![n] = f]
    BY <2>1 DEF FlexusStates
  <2>8. QED
    BY <1>0, <2>1, <2>2, <2>3, <2>5, <2>6, <2>7, TurnCkpt
<1>2. CASE SetCheckpointRound(n)
  <2> DEFINE c == [ck[n] EXCEPT !.ckround = round[n]]
  <2>1. ck' = [ck EXCEPT ![n] = c] /\ flexus' = [flexus EXCEPT ![n] = "idle"]
    BY <1>2 DEF SetCheckpointRound
  <2>2. /\ c.notified = ck[n].notified /\ c.needs = ck[n].needs /\ c.saved = ck[n].saved
        /\ c.signalled = ck[n].signalled
        /\ c.initFlag = ck[n].initFlag /\ c.masterInit = ck[n].masterInit
    BY <1>0 DEF CkptFields
  <2> HIDE DEF c
  <2>3. RequestAt(n, c, "idle")
    BY <1>0, <2>2 DEF RequestAt
  <2>4. RequestOnce'
    BY <2>1, <2>3, RequestStays DEF BlockBase
  <2>5. \E f \in FlexusStates \ {"ask"} : flexus' = [flexus EXCEPT ![n] = f]
    BY <2>1 DEF FlexusStates
  <2>6. QED
    BY <1>0, <2>1, <2>2, <2>4, <2>5, TurnCkpt DEF Notified, HasAdopted
<1>3. QED
  BY <1>1, <1>2

\* Flexus signals; the follower tells the master.
LEMMA SignalTurn ==
  ASSUME BlockBase, NEW n \in Nodes, FinishInitiate(n)
  PROVE  \E s : Turn(n, "none", s, 0)
<1>0. /\ "none" # "DRAIN_START" /\ Master # Follower
      /\ UNCHANGED stopAt /\ UNCHANGED now /\ UNCHANGED ex /\ UNCHANGED status /\ UNCHANGED main
      /\ UNCHANGED <<ring, mainOut>> /\ flexusOut[n] = <<>>
      /\ ck[n] \in CkptFields /\ RequestAt(n, ck[n], flexus[n])
      /\ n \in InitNodes /\ ~ck[n].signalled
  BY RequestOfAll, TwoNodes DEF FinishInitiate, FlexusAt, wwt, BlockBase, TypeOK
<1>1. CASE n = Master
  <2> DEFINE c == [ck[n] EXCEPT !.signalled = TRUE, !.masterInit = TRUE]
             f == IF ck[n].initFlag >= 1 THEN "setflags" ELSE "idle"
  <2>1. /\ ck' = [ck EXCEPT ![n] = c] /\ flexus' = [flexus EXCEPT ![n] = f]
        /\ UNCHANGED flexusOut
    BY <1>1 DEF FinishInitiate
  <2>2. /\ c.notified = ck[n].notified /\ c.needs = ck[n].needs /\ c.saved = ck[n].saved
        /\ c.signalled /\ c.initFlag = ck[n].initFlag
    BY <1>0 DEF CkptFields
  <2> HIDE DEF c
  <2>3. RequestAt(n, c, f)
    BY <1>0, <1>1, <2>2 DEF RequestAt
  <2>4. f \in FlexusStates \ {"ask"}
    BY DEF FlexusStates
  <2> HIDE DEF f
  <2>5. RequestOnce'
    BY <2>1, <2>3, RequestStays DEF BlockBase
  <2>6. Speaks(n, "none", <<>>)
    BY <1>0, <2>1 DEF Speaks, wire
  <2>7. Turn(n, "none", <<>>, 0)
    BY <1>0, <2>1, <2>2, <2>4, <2>5, <2>6, TurnCkpt DEF Notified, HasAdopted
  <2>8. QED
    BY <2>7
<1>2. CASE n # Master
  <2> DEFINE c == [ck[n] EXCEPT !.signalled = TRUE]
             s == <<Msg("INIT_STEP", 0)>>
  <2>1. /\ ck' = [ck EXCEPT ![n] = c] /\ flexusOut' = [flexusOut EXCEPT ![n] = s]
        /\ UNCHANGED flexus
    BY <1>2 DEF FinishInitiate
  <2>2. /\ c.notified = ck[n].notified /\ c.needs = ck[n].needs /\ c.saved = ck[n].saved
        /\ c.signalled
    BY <1>0 DEF CkptFields
  <2>3. /\ s \in Seq(Message) /\ Len(s) = 1 /\ One(s, "DRAIN_START") /\ ~Carries(s, "DRAIN_START")
        /\ NoSync(s)
    BY OneLine DEF MsgTypes
  <2> HIDE DEF c, s
  <2>4. RequestAt(n, c, flexus[n])
    BY <1>0, <1>2, <2>2 DEF RequestAt
  <2>5. RequestOnce'
    BY <2>1, <2>4, RequestStays DEF BlockBase
  <2>6. Speaks(n, "none", s)
    BY <1>0, <2>1 DEF Speaks, FlexusSays
  <2>7. SaidOf(n, ex[n], c) + 0 >= SaidOf(n, ex[n], ck[n]) + Len(s)
    BY <1>0, <1>2, <2>2, <2>3 DEF SaidOf, FirstSaid, SnapSaid, Bit, Notified
  <2>8. /\ ex' = [ex EXCEPT ![n] = ex[n]] /\ (ex[n].endSent => ex[n].permitted)
        /\ UNCHANGED <<stopAt, now>>
    BY <1>0, SameAt DEF BlockBase, SpeaksAtStop
  <2>9. Turn(n, "none", s, 0)
    BY <1>0, <1>2, <2>1, <2>2, <2>3, <2>5, <2>6, <2>7, <2>8, TurnAt DEF Notified, HasAdopted
  <2>10. QED
    BY <2>9
<1>3. QED
  BY <1>1, <1>2

\* DRAIN_START is owed once, and goes before the SYNC.
LEMMA DrainLine ==
  ASSUME TypeOK, RequestOnce, NEW n \in Nodes
  PROVE  /\ DrainStart(n) \in Seq(Message) /\ SyncMessage(n) \in Seq(Message)
         /\ DrainStart(n) \o SyncMessage(n) \in Seq(Message)
         /\ Len(DrainStart(n)) = Bit(OwesDrainStart(n)) /\ Len(SyncMessage(n)) = Bit(ShouldSync)
         /\ Len(DrainStart(n) \o SyncMessage(n)) = Bit(OwesDrainStart(n)) + Bit(ShouldSync)
         /\ One(DrainStart(n), "DRAIN_START")
         /\ One(DrainStart(n) \o SyncMessage(n), "DRAIN_START")
         /\ Carries(DrainStart(n), "DRAIN_START") => OwesDrainStart(n)
         /\ Carries(DrainStart(n) \o SyncMessage(n), "DRAIN_START") => OwesDrainStart(n)
         /\ OwesDrainStart(n) => ~Notified(ck[n])
         /\ NoSync(DrainStart(n))
<1> DEFINE d == DrainStart(n)
           y == SyncMessage(n)
<1>1. round[n] \in Nat /\ "SYNC" \in MsgTypes /\ "DRAIN_START" \in MsgTypes
  BY DEF TypeOK, MsgTypes
<1>2. /\ d \in Seq(Message) /\ Len(d) = Bit(OwesDrainStart(n)) /\ One(d, "DRAIN_START")
      /\ Carries(d, "DRAIN_START") => OwesDrainStart(n)
  <2>1. CASE OwesDrainStart(n)
    BY <1>1, <2>1, OneLine DEF DrainStart, Bit
  <2>2. CASE ~OwesDrainStart(n)
    BY <2>2, Silence DEF DrainStart, Bit
  <2>3. QED
    BY <2>1, <2>2
<1>3. y \in Seq(Message) /\ Len(y) = Bit(ShouldSync) /\ ~Carries(y, "DRAIN_START")
  <2>1. CASE ShouldSync
    <3>1. y = <<Msg("SYNC", round[n])>>
      BY <2>1 DEF SyncMessage
    <3>2. QED
      BY <1>1, <2>1, <3>1, OneLine DEF Bit
  <2>2. CASE ~ShouldSync
    BY <2>2, Silence DEF SyncMessage, Bit
  <2>3. QED
    BY <2>1, <2>2
<1>4. OwesDrainStart(n) => ~Notified(ck[n])
  BY RequestOfAll DEF RequestAt, OwesDrainStart, Notified
<1>9. NoSync(d)
  BY EngineMessages
<1> HIDE DEF d, y
<1>5. d \o y \in Seq(Message) /\ Len(d \o y) = Len(d) + Len(y)
  BY <1>2, <1>3
<1>6. Carries(d \o y, "DRAIN_START") => OwesDrainStart(n)
  BY <1>2, <1>3, CarriesJoined
<1>7. One(d \o y, "DRAIN_START")
  <2> SUFFICES ASSUME NEW i \in DOMAIN (d \o y), NEW j \in DOMAIN (d \o y),
                      (d \o y)[i].type = "DRAIN_START", (d \o y)[j].type = "DRAIN_START"
               PROVE  i = j
    BY DEF One
  <2>1. \A k \in DOMAIN (d \o y) : (d \o y)[k].type = "DRAIN_START" =>
          k \in DOMAIN d /\ (d \o y)[k] = d[k]
    BY <1>2, <1>3, JoinElements DEF Carries
  <2>2. QED
    BY <1>2, <2>1 DEF One
<1>8. QED
  BY <1>2, <1>3, <1>4, <1>5, <1>6, <1>7, <1>9 DEF d, y

LEMMA NotifyTurn ==
  ASSUME BlockBase, NEW n \in Nodes
  PROVE  /\ NotifyAndSync(n) => Turn(n, "none", DrainStart(n) \o SyncMessage(n), Bit(ShouldSync))
         /\ BoundaryNotify(n) => Turn(n, "none", DrainStart(n), 0)
<1> DEFINE c == AfterDrainStart(n)
<1>0. /\ ck[n] \in CkptFields /\ RequestAt(n, ck[n], flexus[n]) /\ TypeOK /\ RequestOnce
      /\ ex[n].endSent => ex[n].permitted
      /\ "none" # "DRAIN_START"
  BY RequestOfAll DEF BlockBase, TypeOK, SpeaksAtStop
<1>1. /\ SameRequest(c, ck[n]) /\ c.notified = (ck[n].notified \/ OwesDrainStart(n))
      /\ c.signalled = ck[n].signalled /\ c.needs = ck[n].needs /\ c.saved = ck[n].saved
      /\ OwesDrainStart(n) => c.needs
  BY <1>0 DEF CkptFields, SameRequest, AfterDrainStart, OwesDrainStart
<1>2. Notified(c) <=> Notified(ck[n]) \/ OwesDrainStart(n)
  BY <1>1 DEF Notified
<1>3. /\ SaidOf(n, ex[n], c) + 0 >= SaidOf(n, ex[n], ck[n]) + Len(DrainStart(n))
      /\ SaidOf(n, ex[n], c) + Bit(ShouldSync)
           >= SaidOf(n, ex[n], ck[n]) + Len(DrainStart(n) \o SyncMessage(n))
  <2>1. OwesDrainStart(n) => ~Notified(ck[n])
    BY <1>0, DrainLine
  <2>2. Bit(Notified(c)) = Bit(Notified(ck[n])) + Bit(OwesDrainStart(n))
    <3>1. CASE OwesDrainStart(n)
      <4>1. Notified(c) /\ ~Notified(ck[n])
        BY <1>2, <2>1, <3>1
      <4>2. QED
        BY <3>1, <4>1 DEF Bit
    <3>2. CASE ~OwesDrainStart(n)
      <4>1. Notified(c) <=> Notified(ck[n])
        BY <1>2, <3>2
      <4>2. Bit(Notified(c)) = Bit(Notified(ck[n])) /\ Bit(OwesDrainStart(n)) = 0
        BY <3>2, <4>1 DEF Bit
      <4>3. Bit(Notified(ck[n])) \in Nat
        BY DEF Bit
      <4>4. QED
        BY <4>2, <4>3
    <3>3. QED
      BY <3>1, <3>2
  <2>3. SaidOf(n, ex[n], c) = SaidOf(n, ex[n], ck[n]) + Bit(OwesDrainStart(n))
    <3>1. \A b : Bit(b) \in Nat
      BY DEF Bit
    <3>2. QED
      BY <1>1, <2>2, <3>1 DEF SaidOf, FirstSaid, SnapSaid
  <2>4. \A b : Bit(b) \in Nat
    BY DEF Bit
  <2>5. SaidOf(n, ex[n], ck[n]) \in Nat
    BY <2>4 DEF SaidOf, FirstSaid, SnapSaid
  <2>6. /\ Len(DrainStart(n)) = Bit(OwesDrainStart(n))
        /\ Len(DrainStart(n) \o SyncMessage(n)) = Bit(OwesDrainStart(n)) + Bit(ShouldSync)
    BY <1>0, DrainLine
  <2>7. QED
    BY <2>3, <2>4, <2>5, <2>6
<1>4. c.notified => c.needs
  BY <1>0, <1>1 DEF RequestAt
<1> HIDE DEF c
<1>5. ASSUME NEW s \in Seq(Message), MainSays(n, s), One(s, "DRAIN_START"),
             NoSync(s) \/ (main[n] = "notify" /\ main'[n] = "armed"),
             Carries(s, "DRAIN_START") => OwesDrainStart(n), NEW k,
             SaidOf(n, ex[n], c) + k >= SaidOf(n, ex[n], ck[n]) + Len(s),
             ck' = [ck EXCEPT ![n] = c],
             UNCHANGED <<stopAt, now, ex, flexus, status>>,
             UNCHANGED main \/ \E v : main' = [main EXCEPT ![n] = v]
      PROVE  Turn(n, "none", s, k)
  <2>1. RequestOnce'
    BY <1>0, <1>1, <1>4, <1>5, RequestKeeps
  <2>2. Speaks(n, "none", s) /\ ex' = [ex EXCEPT ![n] = ex[n]] /\ UNCHANGED <<stopAt, now>>
    BY <1>0, <1>5, SameAt DEF Speaks
  <2>3. Carries(s, "DRAIN_START") => ~Notified(ck[n]) /\ Notified(c)
    BY <1>0, <1>2, <1>5, DrainLine
  <2>4. n = Follower => (HasAdopted(c) <=> HasAdopted(ck[n]) \/ "none" = "DRAIN_START")
    BY <1>0, <1>1 DEF HasAdopted
  <2>5. QED
    BY <1>0, <1>2, <1>5, <2>1, <2>2, <2>3, <2>4, TurnAt
<1>6. ASSUME NotifyAndSync(n)
      PROVE  Turn(n, "none", DrainStart(n) \o SyncMessage(n), Bit(ShouldSync))
  <2>1. /\ MainSays(n, DrainStart(n) \o SyncMessage(n)) /\ ck' = [ck EXCEPT ![n] = c]
        /\ UNCHANGED <<stopAt, now, ex, flexus, status>>
        /\ main' = [main EXCEPT ![n] = "armed"] /\ main[n] = "notify" /\ main'[n] = "armed"
    BY <1>0, <1>6 DEF NotifyAndSync, MainSays, MainAt, MainReady, wwt, c, TypeOK
  <2>2. QED
    BY <1>0, <1>3, <1>5, <2>1, DrainLine
<1>7. ASSUME BoundaryNotify(n) PROVE Turn(n, "none", DrainStart(n), 0)
  <2>1. /\ MainSays(n, DrainStart(n)) /\ ck' = [ck EXCEPT ![n] = c]
        /\ UNCHANGED <<stopAt, now, ex, flexus, status>> /\ UNCHANGED main
    BY <1>7 DEF BoundaryNotify, MainSays, MainAt, MainReady, wwt, ctl, c
  <2>2. QED
    BY <1>0, <1>3, <1>5, <2>1, DrainLine
<1>8. QED
  BY <1>6, <1>7

\* END is counted when it is said, and said by who has permission.
LEMMA EndPays ==
  ASSUME NEW d \in ExitFields, d.endSent => d.permitted
  PROVE  /\ EndIfPermitted(d) \in Seq(Message) /\ NotifyEndMessages(d) \in Seq(Message)
         /\ One(EndIfPermitted(d), "DRAIN_START") /\ ~Carries(EndIfPermitted(d), "DRAIN_START")
         /\ One(NotifyEndMessages(d), "DRAIN_START")
         /\ ~Carries(NotifyEndMessages(d), "DRAIN_START")
         /\ Bit(AfterEnd(d).endSent) = Bit(d.endSent) + Len(EndIfPermitted(d))
         /\ Bit(NotifyEndFields(d).endSent) = Bit(d.endSent) + Len(NotifyEndMessages(d))
         /\ AfterEnd(d).permitted = d.permitted /\ AfterEnd(d).intent = d.intent
         /\ NotifyEndFields(d).permitted = d.permitted /\ NotifyEndFields(d).intent = d.intent
         /\ AfterEnd(d).endSent => d.permitted
         /\ NotifyEndFields(d).endSent => d.permitted
         /\ NoSync(EndIfPermitted(d)) /\ NoSync(NotifyEndMessages(d))
<1>1. /\ EndIfPermitted(d) \in Seq(Message) /\ One(EndIfPermitted(d), "DRAIN_START")
      /\ ~Carries(EndIfPermitted(d), "DRAIN_START") /\ NoSync(EndIfPermitted(d))
      /\ Len(EndIfPermitted(d)) = Bit(d.permitted /\ ~d.endSent)
  <2>1. CASE d.permitted /\ ~d.endSent
    <3>1. EndIfPermitted(d) = <<Msg("END", 0)>>
      BY <2>1 DEF EndIfPermitted
    <3>2. QED
      BY <2>1, <3>1, OneLine DEF MsgTypes, Bit
  <2>2. CASE ~(d.permitted /\ ~d.endSent)
    <3>1. EndIfPermitted(d) = <<>>
      BY <2>2 DEF EndIfPermitted
    <3>2. QED
      BY <2>2, <3>1, Silence DEF Bit
  <2>3. QED
    BY <2>1, <2>2
<1>2. /\ AfterEnd(d).permitted = d.permitted /\ AfterEnd(d).intent = d.intent
      /\ AfterEnd(d).endSent = (d.endSent \/ d.permitted)
      /\ d.endSent \in BOOLEAN /\ d.permitted \in BOOLEAN
  BY DEF AfterEnd, ExitFields
<1>3. Bit(AfterEnd(d).endSent) = Bit(d.endSent) + Len(EndIfPermitted(d))
  BY <1>1, <1>2 DEF Bit
<1>4. CASE d.notified
  <2>1. NotifyEndFields(d) = d /\ NotifyEndMessages(d) = <<>>
    BY <1>4 DEF NotifyEndFields, NotifyEndMessages
  <2>2. QED
    BY <1>1, <1>2, <1>3, <2>1, Silence, BitNat
<1>5. CASE ~d.notified
  <2>1. /\ NotifyEndMessages(d) = EndIfPermitted(d)
        /\ NotifyEndFields(d) = [AfterEnd(d) EXCEPT !.notified = TRUE]
    BY <1>5 DEF NotifyEndFields, NotifyEndMessages
  <2>2. AfterEnd(d) \in ExitFields
    BY EndType
  <2>3. /\ NotifyEndFields(d).permitted = AfterEnd(d).permitted
        /\ NotifyEndFields(d).intent = AfterEnd(d).intent
        /\ NotifyEndFields(d).endSent = AfterEnd(d).endSent
    BY <2>1, <2>2 DEF ExitFields
  <2>4. QED
    BY <1>1, <1>2, <1>3, <2>1, <2>3
<1>6. QED
  BY <1>4, <1>5

\* pdes_engine_destroy.
LEMMA DestroyTurn ==
  ASSUME BlockBase, NEW n \in Nodes, SpinDestroy(n) PROVE \E s : Turn(n, "none", s, 0)
<1> DEFINE e == NotifyEndFields(ex[n])
           s == NotifyEndMessages(ex[n])
<1>0. /\ "none" # "DRAIN_START" /\ UNCHANGED <<stopAt, now>> /\ UNCHANGED flexus /\ UNCHANGED status
      /\ MainSays(n, s) /\ ex' = [ex EXCEPT ![n] = e]
      /\ ck[n] \in CkptFields /\ ex[n] \in ExitFields /\ RequestAt(n, ck[n], flexus[n])
      /\ ck = [ck EXCEPT ![n] = ck[n]]
      /\ ex[n].endSent => ex[n].permitted
  BY RequestOfAll, SameAt
  DEF SpinDestroy, Destroy, MainSays, MainAt, MainReady, wwt, BlockBase, TypeOK, SpeaksAtStop
<1>1. \E v : main' = [main EXCEPT ![n] = v]
  BY DEF SpinDestroy, Destroy, CloseAfterCheckpoint, CloseNow
<1>2. \E c : /\ ck' = [ck EXCEPT ![n] = c]
             /\ SameRequest(c, ck[n]) /\ c.notified = ck[n].notified
             /\ c.signalled = ck[n].signalled /\ c.needs = ck[n].needs /\ c.saved = ck[n].saved
  <2>1. CASE ck[n].needs
    <3> DEFINE c == [ck[n] EXCEPT !.bh = IF @ = "none" THEN "exit" ELSE @]
    <3>1. ck' = [ck EXCEPT ![n] = c]
      BY <2>1 DEF SpinDestroy, Destroy, CloseAfterCheckpoint
    <3>2. /\ SameRequest(c, ck[n]) /\ c.notified = ck[n].notified
          /\ c.signalled = ck[n].signalled /\ c.needs = ck[n].needs /\ c.saved = ck[n].saved
      BY <1>0 DEF CkptFields, SameRequest
    <3> HIDE DEF c
    <3>3. QED
      BY <3>1, <3>2
  <2>2. CASE ~ck[n].needs
    <3>1. ck' = [ck EXCEPT ![n] = ck[n]]
      BY <1>0, <2>2 DEF SpinDestroy, Destroy, CloseNow
    <3>2. QED
      BY <3>1 DEF SameRequest
  <2>3. QED
    BY <2>1, <2>2
<1>3. PICK c : /\ ck' = [ck EXCEPT ![n] = c]
               /\ SameRequest(c, ck[n]) /\ c.notified = ck[n].notified
               /\ c.signalled = ck[n].signalled /\ c.needs = ck[n].needs /\ c.saved = ck[n].saved
  BY <1>2
<1>4. RequestOnce'
  BY <1>0, <1>3, RequestKeeps DEF BlockBase, RequestAt
<1>5. /\ s \in Seq(Message) /\ One(s, "DRAIN_START") /\ ~Carries(s, "DRAIN_START") /\ NoSync(s)
      /\ Bit(e.endSent) = Bit(ex[n].endSent) + Len(s)
      /\ e.permitted = ex[n].permitted /\ e.intent = ex[n].intent
      /\ e.endSent => ex[n].permitted
  BY <1>0, EndPays
<1> HIDE DEF e, s
<1>6. SaidOf(n, e, c) + 0 >= SaidOf(n, ex[n], ck[n]) + Len(s)
  <2>1. FirstSaid(n, e) = FirstSaid(n, ex[n]) /\ SnapSaid(n, c) = SnapSaid(n, ck[n])
    BY <1>3, <1>5 DEF FirstSaid, SnapSaid
  <2>2. Bit(Notified(c)) = Bit(Notified(ck[n]))
    BY <1>3 DEF Notified
  <2>3. Len(s) \in Nat
    BY <1>5
  <2>4. /\ FirstSaid(n, e) \in Nat /\ SnapSaid(n, c) \in Nat
        /\ Bit(e.endSent) \in Nat /\ Bit(Notified(c)) \in Nat
        /\ SaidOf(n, e, c) = FirstSaid(n, e) + Bit(e.endSent) + (SnapSaid(n, c) + Bit(Notified(c)))
    BY SaidNat
  <2>5. SaidOf(n, ex[n], ck[n]) =
          FirstSaid(n, ex[n]) + Bit(ex[n].endSent) + (SnapSaid(n, ck[n]) + Bit(Notified(ck[n])))
    BY SaidNat
  <2>6. Bit(ex[n].endSent) \in Nat
    BY BitNat
  <2>7. QED
    BY <1>5, <2>1, <2>2, <2>3, <2>4, <2>5, <2>6
<1>7. Speaks(n, "none", s)
  BY <1>0 DEF Speaks
<1>8. /\ Notified(c) = Notified(ck[n]) /\ HasAdopted(c) = HasAdopted(ck[n])
      /\ n = Follower => (HasAdopted(c) <=> HasAdopted(ck[n]) \/ "none" = "DRAIN_START")
  BY <1>0, <1>3 DEF Notified, HasAdopted
<1>9. Turn(n, "none", s, 0)
  BY <1>0, <1>1, <1>3, <1>4, <1>5, <1>6, <1>7, <1>8, TurnAt
<1>10. QED
  BY <1>9

\* The snapshot: the master says DRAIN_END, and END if it may.
LEMMA SnapshotTurn ==
  ASSUME BlockBase, NEW n \in Nodes, CheckpointBH(n) PROVE \E s : Turn(n, "none", s, 0)
<1> DEFINE c == AfterSnapshot(n)
<1>0. /\ "none" # "DRAIN_START" /\ UNCHANGED <<stopAt, now>> /\ UNCHANGED flexus /\ UNCHANGED status
      /\ ck' = [ck EXCEPT ![n] = c] /\ mainOut[n] = <<>> /\ UNCHANGED <<ring, flexusOut>>
      /\ ck[n] \in CkptFields /\ ex[n] \in ExitFields /\ RequestAt(n, ck[n], flexus[n])
      /\ ex = [ex EXCEPT ![n] = ex[n]] /\ ck[n].needs
      /\ ex[n].endSent => ex[n].permitted
  BY RequestOfAll, SameAt
  DEF CheckpointBH, InEventLoop, MainReady, wwt, BlockBase, TypeOK, SpeaksAtStop
<1>1. \E v : main' = [main EXCEPT ![n] = v]
  BY DEF CheckpointBH
<1>2. RequestOnce'
  BY SnapshotRequest DEF BlockBase
<1>3. /\ Validated(n) /\ c.saved = {round[n]} /\ c.signalled = ck[n].signalled
      /\ ck[n].saved = {}
  BY <1>0, SnapshotFields DEF BlockBase, RequestAt
<1> HIDE DEF c
<1>4. Notified(c) /\ HasAdopted(c) /\ HasAdopted(ck[n])
  BY <1>0, <1>3 DEF Notified, HasAdopted
<1>5. Bit(Notified(c)) = 1 /\ Bit(c.saved # {}) = 1 /\ Bit(ck[n].saved # {}) = 0
  BY <1>3, <1>4 DEF Bit
<1>6. CASE n = Master
  <2> DEFINE e == NotifyEndFields(ex[n])
             m == NotifyEndMessages(ex[n])
             d == DrainMessages(n)
             s == d \o m
  <2>1. ex' = [ex EXCEPT ![n] = e] /\ MainSays(n, s)
    BY <1>0, <1>6 DEF CheckpointBH, MainSays
  <2>2. d = <<Msg("DRAIN_END", 0)>>
    BY <1>3, <1>6 DEF DrainMessages
  <2>3. d \in Seq(Message) /\ Len(d) = 1 /\ ~Carries(d, "DRAIN_START") /\ NoSync(d)
    BY <2>2, OneLine DEF MsgTypes
  <2>4. /\ m \in Seq(Message) /\ One(m, "DRAIN_START") /\ ~Carries(m, "DRAIN_START") /\ NoSync(m)
        /\ Bit(e.endSent) = Bit(ex[n].endSent) + Len(m)
        /\ e.permitted = ex[n].permitted /\ e.intent = ex[n].intent
        /\ e.endSent => ex[n].permitted
    BY <1>0, EndPays
  <2> HIDE DEF d, m, e
  <2>5. s \in Seq(Message) /\ Len(s) = 1 + Len(m) /\ Len(m) \in Nat
    <3>1. d \o m \in Seq(Message) /\ Len(d \o m) = Len(d) + Len(m) /\ Len(m) \in Nat
      BY <2>3, <2>4, JoinLength
    <3>2. QED
      BY <2>3, <3>1
  <2>6. One(s, "DRAIN_START") /\ ~Carries(s, "DRAIN_START") /\ NoSync(s)
    <3>1. One(d \o m, "DRAIN_START")
      BY <2>3, <2>4, OneJoined
    <3>2. ~Carries(d \o m, "DRAIN_START")
      BY <2>3, <2>4, CarriesJoined
    <3>3. NoSync(d \o m)
      BY <2>3, <2>4, NoSyncJoined
    <3>4. QED
      BY <3>1, <3>2, <3>3
  <2> HIDE DEF s
  <2>7. SaidOf(n, e, c) + 0 >= SaidOf(n, ex[n], ck[n]) + Len(s)
    <3>1. FirstSaid(n, e) = FirstSaid(n, ex[n])
      BY <2>4, <1>6 DEF FirstSaid
    <3>2. SnapSaid(n, c) >= SnapSaid(n, ck[n]) + 1 /\ Bit(Notified(c)) >= Bit(Notified(ck[n]))
      BY <1>5, <1>6, BitNat DEF SnapSaid
    <3>3. QED
      <4>1. /\ FirstSaid(n, e) \in Nat /\ SnapSaid(n, c) \in Nat
            /\ Bit(e.endSent) \in Nat /\ Bit(Notified(c)) \in Nat
            /\ SaidOf(n, e, c)
                 = FirstSaid(n, e) + Bit(e.endSent) + (SnapSaid(n, c) + Bit(Notified(c)))
        BY SaidNat
      <4>2. /\ SnapSaid(n, ck[n]) \in Nat
            /\ Bit(ex[n].endSent) \in Nat /\ Bit(Notified(ck[n])) \in Nat
            /\ SaidOf(n, ex[n], ck[n]) = FirstSaid(n, ex[n]) + Bit(ex[n].endSent)
                                          + (SnapSaid(n, ck[n]) + Bit(Notified(ck[n])))
        BY SaidNat
      <4>3. /\ SaidOf(n, e, c) = FirstSaid(n, ex[n]) + (Bit(ex[n].endSent) + Len(m))
                                  + (SnapSaid(n, c) + Bit(Notified(c)))
            /\ Len(m) \in Nat /\ Len(s) = 1 + Len(m)
        BY <2>4, <2>5, <3>1, <4>1
      <4>4. SnapSaid(n, c) + Bit(Notified(c)) >= SnapSaid(n, ck[n]) + Bit(Notified(ck[n])) + 1
        BY <3>2, <4>1, <4>2
      <4>5. FirstSaid(n, ex[n]) \in Nat
        BY <3>1, <4>1
      <4> DEFINE f == FirstSaid(n, ex[n])
                 b == Bit(ex[n].endSent)
                 p == SnapSaid(n, ck[n]) + Bit(Notified(ck[n]))
                 q == SnapSaid(n, c) + Bit(Notified(c))
                 k == Len(m)
                 x == SaidOf(n, e, c)
                 y == SaidOf(n, ex[n], ck[n])
                 l == Len(s)
      <4>6. f \in Nat /\ b \in Nat /\ k \in Nat
        BY <4>2, <4>3, <4>5
      <4>7. p \in Nat /\ q \in Nat
        BY <4>1, <4>2
      <4>8. x = f + (b + k) + q /\ l = 1 + k
        BY <4>3
      <4>9. y = f + b + p
        BY <4>2
      <4>10. q >= p + 1
        BY <4>4, <4>1, <4>2
      <4> HIDE DEF f, b, p, q, k, x, y, l
      <4>11. x + 0 >= y + l
        BY <4>6, <4>7, <4>8, <4>9, <4>10
      <4>12. QED
        BY <4>11 DEF x, y, l
  <2>8. Speaks(n, "none", s)
    BY <2>1 DEF Speaks
  <2>9. Turn(n, "none", s, 0)
    BY <1>0, <1>1, <1>2, <1>4, <1>6, <2>1, <2>4, <2>5, <2>6, <2>7, <2>8, TwoNodes, TurnAt
  <2>10. QED
    BY <2>9
<1>7. CASE n # Master
  <2>1. ex' = [ex EXCEPT ![n] = ex[n]] /\ UNCHANGED wire
    BY <1>0, <1>7 DEF CheckpointBH, wire
  <2>2. Speaks(n, "none", <<>>)
    BY <2>1 DEF Speaks
  <2>3. SaidOf(n, ex[n], c) + 0 >= SaidOf(n, ex[n], ck[n]) + Len(<<>>)
    <3>1. SnapSaid(n, c) = SnapSaid(n, ck[n]) /\ Bit(Notified(c)) >= Bit(Notified(ck[n]))
      BY <1>3, <1>5, <1>7, BitNat DEF SnapSaid
    <3>2. QED
      BY <3>1, Silence, BitNat DEF SaidOf, FirstSaid, SnapSaid
  <2>4. Turn(n, "none", <<>>, 0)
    BY <1>0, <1>1, <1>2, <1>4, <1>7, <2>1, <2>2, <2>3, Silence, TurnAt
  <2>5. QED
    BY <2>4
<1>8. QED
  BY <1>6, <1>7

\* A step that changes the fields of the handshake only.
LEMMA TurnExit ==
  ASSUME BlockBase, NEW n \in Nodes, NEW u, NEW s \in Seq(Message), Speaks(n, u, s),
         ~Carries(s, "DRAIN_START"), NoSync(s), u # "DRAIN_START",
         UNCHANGED stopAt, UNCHANGED now, UNCHANGED ck,
         NEW e, ex' = [ex EXCEPT ![n] = e],
         UNCHANGED flexus
           \/ \E f \in FlexusStates \ {"ask", "setflags"} : flexus' = [flexus EXCEPT ![n] = f],
         UNCHANGED main \/ \E v : main' = [main EXCEPT ![n] = v],
         UNCHANGED status \/ \E v : status' = [status EXCEPT ![n] = v],
         e.endSent => e.permitted,
         e.intent => ex[n].intent \/ flexus[n] = "ask",
         ExitBase /\ PermissionOnce =>
           FirstSaid(n, e) + Bit(e.endSent) >= FirstSaid(n, ex[n]) + Bit(ex[n].endSent) + Len(s)
  PROVE  Turn(n, u, s, 0)
<1>0. /\ TypeOK /\ ck = [ck EXCEPT ![n] = ck[n]] /\ RequestOnce
      /\ UNCHANGED <<stopAt, now>> /\ Len(s) \in Nat
  BY SameAt DEF BlockBase
<1>1. RequestOnce'
  BY <1>0, RequestSame
<1>2. One(s, "DRAIN_START")
  BY DEF One, Carries
<1>3. ExitBase /\ PermissionOnce => SaidOf(n, e, ck[n]) + 0 >= SaidOf(n, ex[n], ck[n]) + Len(s)
  <2>1. /\ FirstSaid(n, e) \in Nat /\ SnapSaid(n, ck[n]) \in Nat
        /\ Bit(e.endSent) \in Nat /\ Bit(Notified(ck[n])) \in Nat
        /\ SaidOf(n, e, ck[n])
             = FirstSaid(n, e) + Bit(e.endSent) + (SnapSaid(n, ck[n]) + Bit(Notified(ck[n])))
    BY SaidNat
  <2>2. /\ FirstSaid(n, ex[n]) \in Nat /\ Bit(ex[n].endSent) \in Nat
        /\ SaidOf(n, ex[n], ck[n]) = FirstSaid(n, ex[n]) + Bit(ex[n].endSent)
                                     + (SnapSaid(n, ck[n]) + Bit(Notified(ck[n])))
    BY SaidNat
  <2>3. QED
    BY <1>0, <2>1, <2>2
<1>4. \/ UNCHANGED flexus
      \/ \E f \in FlexusStates \ {"ask"} : flexus' = [flexus EXCEPT ![n] = f]
  OBVIOUS
<1>5. n = Follower => (HasAdopted(ck[n]) <=> HasAdopted(ck[n]) \/ u = "DRAIN_START")
  OBVIOUS
<1>6. QED
  BY <1>0, <1>1, <1>2, <1>3, <1>4, <1>5, TurnAt

LEMMA PermissionTurn ==
  ASSUME BlockBase, NEW n \in Nodes, RecvPermission(n) PROVE \E s : Turn(n, "PERMISSION", s, 0)
<1> DEFINE d == [ex[n] EXCEPT !.permitted = TRUE]
           e == AfterEnd(d)
           s == EndIfPermitted(d)
<1>0. /\ "PERMISSION" # "DRAIN_START" /\ UNCHANGED stopAt /\ UNCHANGED now /\ UNCHANGED ck
      /\ UNCHANGED flexus /\ UNCHANGED main /\ UNCHANGED status
      /\ ex' = [ex EXCEPT ![n] = e] /\ ex[n] \in ExitFields
      /\ Speaks(n, "PERMISSION", s)
  BY DEF RecvPermission, Speaks, Takes, MsgTypes, ctl, wwt, BlockBase, TypeOK
<1>1. /\ d \in ExitFields /\ d.permitted = TRUE /\ d.endSent = ex[n].endSent
      /\ d.intent = ex[n].intent
  BY <1>0 DEF ExitFields
<1>2. /\ s \in Seq(Message) /\ ~Carries(s, "DRAIN_START") /\ NoSync(s)
      /\ Bit(e.endSent) = Bit(d.endSent) + Len(s)
      /\ e.permitted = d.permitted /\ e.intent = d.intent
  BY <1>1, EndPays
<1>3. ASSUME ExitBase
      PROVE  FirstSaid(n, e) + Bit(e.endSent) >= FirstSaid(n, ex[n]) + Bit(ex[n].endSent) + Len(s)
  <2>1. n # Master
    BY <1>3, Granted, TwoNodes
  <2>2. FirstSaid(n, e) = FirstSaid(n, ex[n]) /\ FirstSaid(n, ex[n]) \in Nat
    BY <1>1, <1>2, <2>1, BitNat DEF FirstSaid
  <2>3. Bit(ex[n].endSent) \in Nat /\ Len(s) \in Nat
    BY <1>2, BitNat
  <2>4. QED
    BY <1>1, <1>2, <2>2, <2>3
<1> HIDE DEF d, e, s
<1>4. Turn(n, "PERMISSION", s, 0)
  BY <1>0, <1>1, <1>2, <1>3, TurnExit
<1>5. QED
  BY <1>4

\* The master grants, in either thread: it has not granted before.
LEMMA GrantTurn ==
  ASSUME BlockBase, NEW n \in Nodes, PermitGrant(n) \/ CanStopGrant(n)
  PROVE  \E s : Turn(n, "none", s, 0)
<1> DEFINE e == [ex[n] EXCEPT !.permitted = TRUE]
           s == <<Msg("PERMISSION", 0)>>
<1>0. /\ "none" # "DRAIN_START" /\ UNCHANGED stopAt /\ UNCHANGED now /\ UNCHANGED ck
      /\ UNCHANGED status
      /\ ex' = [ex EXCEPT ![n] = e] /\ ex[n] \in ExitFields
      /\ ex[n].endSent => ex[n].permitted
  BY DEF PermitGrant, CanStopGrant, wwt, BlockBase, TypeOK, SpeaksAtStop
<1>1. e.permitted = TRUE /\ e.endSent = ex[n].endSent /\ e.intent = ex[n].intent
  BY <1>0 DEF ExitFields
<1>2. s \in Seq(Message) /\ ~Carries(s, "DRAIN_START") /\ NoSync(s) /\ Len(s) = 1
  BY OneLine DEF MsgTypes
<1>3. Speaks(n, "none", s)
  BY DEF PermitGrant, CanStopGrant, Speaks, MainSays, FlexusSays, MainAt, MainReady, FlexusAt
<1>4. /\ UNCHANGED flexus
           \/ \E f \in FlexusStates \ {"ask", "setflags"} : flexus' = [flexus EXCEPT ![n] = f]
      /\ UNCHANGED main \/ \E v : main' = [main EXCEPT ![n] = v]
  BY DEF PermitGrant, CanStopGrant, FlexusStates
<1>5. main[n] = "grant" \/ flexus[n] = "grant"
  BY DEF PermitGrant, CanStopGrant, MainAt, FlexusAt
<1> HIDE DEF e, s
<1>6. ASSUME ExitBase, PermissionOnce
      PROVE  FirstSaid(n, e) + Bit(e.endSent) >= FirstSaid(n, ex[n]) + Bit(ex[n].endSent) + Len(s)
  <2>1. n = Master
    BY <1>5, <1>6, Granting
  <2>2. ~ex[n].permitted
    BY <1>5, <1>6, <2>1 DEF PermissionOnce
  <2>3. FirstSaid(n, e) = 1 /\ FirstSaid(n, ex[n]) = 0
    BY <1>1, <2>1, <2>2 DEF FirstSaid, Bit
  <2>4. Bit(e.endSent) = Bit(ex[n].endSent) /\ Bit(e.endSent) \in Nat
    BY <1>1, BitNat
  <2>5. QED
    BY <1>2, <2>3, <2>4
<1>7. Turn(n, "none", s, 0)
  BY <1>0, <1>1, <1>2, <1>3, <1>4, <1>6, TurnExit
<1>8. QED
  BY <1>7

LEMMA EndTurn ==
  ASSUME BlockBase, NEW n \in Nodes, PermitEnd(n) \/ CanStopEnd(n)
  PROVE  \E s : Turn(n, "none", s, 0)
<1> DEFINE e == AfterEnd(ex[n])
           s == EndIfPermitted(ex[n])
<1>0. /\ "none" # "DRAIN_START" /\ UNCHANGED stopAt /\ UNCHANGED now /\ UNCHANGED ck
      /\ UNCHANGED status
      /\ ex' = [ex EXCEPT ![n] = e] /\ ex[n] \in ExitFields
      /\ ex[n].endSent => ex[n].permitted
  BY DEF PermitEnd, CanStopEnd, wwt, BlockBase, TypeOK, SpeaksAtStop
<1>1. /\ s \in Seq(Message) /\ ~Carries(s, "DRAIN_START") /\ NoSync(s)
      /\ Bit(e.endSent) = Bit(ex[n].endSent) + Len(s)
      /\ e.permitted = ex[n].permitted /\ e.intent = ex[n].intent
      /\ e.endSent => ex[n].permitted
  BY <1>0, EndPays
<1>2. Speaks(n, "none", s)
  BY DEF PermitEnd, CanStopEnd, Speaks, MainSays, FlexusSays, MainAt, MainReady, FlexusAt
<1>3. /\ UNCHANGED flexus
           \/ \E f \in FlexusStates \ {"ask", "setflags"} : flexus' = [flexus EXCEPT ![n] = f]
      /\ UNCHANGED main \/ \E v : main' = [main EXCEPT ![n] = v]
  BY DEF PermitEnd, CanStopEnd, FlexusStates
<1> HIDE DEF e, s
<1>4. FirstSaid(n, e) = FirstSaid(n, ex[n]) /\ FirstSaid(n, ex[n]) \in Nat
  BY <1>1, BitNat DEF FirstSaid
<1>5. Bit(ex[n].endSent) \in Nat /\ Len(s) \in Nat
  BY <1>1, BitNat
<1>6. FirstSaid(n, e) + Bit(e.endSent) >= FirstSaid(n, ex[n]) + Bit(ex[n].endSent) + Len(s)
  BY <1>1, <1>4, <1>5
<1>7. Turn(n, "none", s, 0)
  BY <1>0, <1>1, <1>2, <1>3, <1>6, TurnExit
<1>8. QED
  BY <1>7

\* can_stop is called, and returns.
LEMMA CanStopTurn ==
  ASSUME BlockBase, NEW n \in Nodes, CanStop(n) \/ CanStopAnswer(n)
  PROVE  \E s : Turn(n, "none", s, 0)
<1>0. /\ "none" # "DRAIN_START" /\ UNCHANGED stopAt /\ UNCHANGED now /\ UNCHANGED ck /\ UNCHANGED main
      /\ ex[n] \in ExitFields
      /\ ex[n].endSent => ex[n].permitted
      /\ \E f \in {"grant", "answer", "idle"} : flexus' = [flexus EXCEPT ![n] = f]
  BY DEF CanStop, CanStopAnswer, wwt, BlockBase, TypeOK, SpeaksAtStop
<1>1. \E f \in FlexusStates \ {"ask", "setflags"} : flexus' = [flexus EXCEPT ![n] = f]
  BY <1>0 DEF FlexusStates
<1>2. CASE CanStop(n) /\ n = Master
  <2>1. Speaks(n, "none", <<>>) /\ UNCHANGED ex /\ UNCHANGED status
    BY <1>2 DEF CanStop, Speaks, wire
  <2>2. Turn(n, "none", <<>>, 0)
    BY <1>0, <1>1, <2>1, TurnSilent
  <2>3. QED
    BY <2>2
<1>3. CASE CanStop(n) /\ n # Master
  <2> DEFINE e == [ex[n] EXCEPT !.intent = TRUE]
             s == IF ex[n].intent THEN <<>> ELSE <<Msg("INTENT", 0)>>
  <2>1. /\ ex' = [ex EXCEPT ![n] = e] /\ Speaks(n, "none", s) /\ UNCHANGED status
        /\ flexus[n] = "ask"
    BY <1>3 DEF CanStop, Speaks, FlexusSays, FlexusAt
  <2>2. e.intent = TRUE /\ e.permitted = ex[n].permitted /\ e.endSent = ex[n].endSent
    BY <1>0 DEF ExitFields
  <2>3. /\ s \in Seq(Message) /\ ~Carries(s, "DRAIN_START") /\ NoSync(s)
        /\ Len(s) = IF ex[n].intent THEN 0 ELSE 1
    BY OneLine, Silence DEF MsgTypes
  <2> HIDE DEF e, s
  <2>4. FirstSaid(n, e) = FirstSaid(n, ex[n]) + Len(s) /\ FirstSaid(n, ex[n]) \in Nat
    BY <1>3, <2>2, <2>3 DEF FirstSaid, Bit
  <2>5. Bit(e.endSent) = Bit(ex[n].endSent) /\ Bit(e.endSent) \in Nat /\ Len(s) \in Nat
    BY <2>2, <2>3, BitNat
  <2>6. FirstSaid(n, e) + Bit(e.endSent) >= FirstSaid(n, ex[n]) + Bit(ex[n].endSent) + Len(s)
    BY <2>4, <2>5
  <2>7. Turn(n, "none", s, 0)
    BY <1>0, <1>1, <2>1, <2>2, <2>3, <2>6, TurnExit
  <2>8. QED
    BY <2>7
<1>4. CASE CanStopAnswer(n)
  <2> DEFINE e == [ex[n] EXCEPT !.ready = TRUE]
  <2>1. /\ ex' = [ex EXCEPT ![n] = e] /\ Speaks(n, "none", <<>>)
        /\ UNCHANGED status \/ \E v : status' = [status EXCEPT ![n] = v]
    BY <1>4 DEF CanStopAnswer, Speaks
  <2>2. e.intent = ex[n].intent /\ e.permitted = ex[n].permitted /\ e.endSent = ex[n].endSent
    BY <1>0 DEF ExitFields
  <2> HIDE DEF e
  <2>3. FirstSaid(n, e) + Bit(e.endSent) >= FirstSaid(n, ex[n]) + Bit(ex[n].endSent) + Len(<<>>)
    BY <2>2, Silence, BitNat DEF FirstSaid
  <2>4. Turn(n, "none", <<>>, 0)
    BY <1>0, <1>1, <2>1, <2>2, <2>3, Silence, TurnExit
  <2>5. QED
    BY <2>4
<1>5. QED
  BY <1>2, <1>3, <1>4

\* Time passes; Flexus comes to its stop cycle.
LEMMA TickTurn ==
  ASSUME BlockBase, NEW n \in Nodes, Tick(n) PROVE Turn(n, "none", <<>>, 0)
<1>0. /\ Speaks(n, "none", <<>>) /\ UNCHANGED <<stopAt, ex, ck, main, status>>
      /\ now' = [now EXCEPT ![n] = now[n] + 1] /\ now[n] \in Nat /\ stopAt[n] \in Nat
      /\ flexus[n] = "idle"
      /\ flexus' = [flexus EXCEPT ![n] = IF now[n] + 1 >= stopAt[n] THEN "ask" ELSE flexus[n]]
      /\ TypeOK /\ RequestOnce /\ SpeaksAtStop
  BY DEF Tick, Speaks, BlockBase, TypeOK
<1>1. Others(n)
  BY <1>0, OthersAt
<1>2. \E f \in FlexusStates \ {"setflags"} : flexus' = [flexus EXCEPT ![n] = f]
  BY <1>0 DEF FlexusStates
<1>3. RequestOnce'
  BY <1>0, <1>2, RequestSame
<1>4. SpeaksAtStop'
  <2> SUFFICES ASSUME NEW m \in Nodes
               PROVE  /\ stopAt'[m] \in StopTimes
                      /\ ex'[m].endSent => ex'[m].permitted
                      /\ flexus'[m] = "ask" \/ ex'[m].intent => Reached(m)'
    BY DEF SpeaksAtStop
  <2>1. /\ stopAt[m] \in StopTimes /\ (ex[m].endSent => ex[m].permitted)
        /\ flexus[m] = "ask" \/ ex[m].intent => Reached(m)
    BY <1>0 DEF SpeaksAtStop
  <2>2. CASE m = n
    <3>1. /\ now'[n] = now[n] + 1
          /\ flexus'[n] = "ask" => now[n] + 1 >= stopAt[n]
      BY <1>0 DEF TypeOK
    <3>2. QED
      BY <1>0, <2>1, <2>2, <3>1 DEF Reached
  <2>3. CASE m # n
    <3>1. now'[m] = now[m] /\ flexus'[m] = flexus[m]
      BY <1>0, <2>3 DEF TypeOK
    <3>2. QED
      BY <1>0, <2>1, <3>1 DEF Reached
  <2>4. QED
    BY <2>2, <2>3
<1>5. Said(n)' = Said(n)
  BY <1>0 DEF Said, ExitSaid, CkptSaid
<1>6. Said(n)' + 0 >= Said(n) + Len(<<>>)
  <2>1. Said(n) \in Nat
    BY SaidIs, SaidNat
  <2>2. QED
    BY <1>5, <2>1, Silence
<1>7. QED
  BY <1>0, <1>1, <1>3, <1>4, <1>6, Silence DEF Turn

LEMMA SendPacketTurn ==
  ASSUME BlockBase, NEW n \in Nodes, SendPacket(n) PROVE Turn(n, "none", <<Packet(n)>>, 1)
<1> DEFINE s == <<Packet(n)>>
<1>1. now[n] + Quantum \in Nat
  <2>1. now[n] \in Nat
    BY DEF BlockBase, TypeOK
  <2>2. QED
    BY <2>1, SizeAssumption
<1>2. s \in Seq(Message) /\ ~Carries(s, "DRAIN_START") /\ NoSync(s) /\ Len(s) <= 1
  BY <1>1, OneLine DEF Packet, MsgTypes
<1>3. Speaks(n, "none", s) /\ UNCHANGED <<stopAt, now, ex, ck, flexus, main, status>>
  BY DEF SendPacket, InEventLoop, MainReady, Speaks, MainSays, ctl
<1> HIDE DEF s
<1>4. UNCHANGED <<stopAt, now, ex, ck>> /\ UNCHANGED flexus /\ UNCHANGED main /\ UNCHANGED status
      /\ "none" # "DRAIN_START" /\ 1 \in Nat
  BY <1>3
<1>5. Turn(n, "none", s, 1)
  BY <1>2, <1>3, <1>4, TurnPlain
<1>6. QED
  BY <1>5 DEF s

-----------------------------------------------------------------------------
(* Every step is such a turn. *)

\* The main thread stays on its side of the SYNC, and of its poll before it.
Stays(n) ==
  /\ UNCHANGED <<round, finished, synced>>
  /\ \A m \in Nodes \ {n} : polling'[m] = polling[m]
  /\ \/ main'[n] = main[n]
     \/ {main[n], main'[n]} \subseteq {"setup", "run"}
     \/ {main[n], main'[n]} \cap {"setup", "run", "notify"} = {}
  /\ polling'[n] = polling[n] \/ main[n] # "notify"

StayTurn(n) == Stays(n) /\ UNCHANGED sent /\ \E u, s : Turn(n, u, s, 0)

\* The steps that do not stay, and those that are not paid in full.
Marks(n) ==
  SendPacket(n) \/ QuantaSync(n) \/ PollDone(n) \/ NotifyAndSync(n) \/ Advance(n) \/ RecvSync(n)

LEMMA ReceiveStays ==
  ASSUME BlockBase, NEW n \in Nodes, Receive(n) PROVE StayTurn(n) \/ Marks(n)
<1>1. CASE RecvNormal(n) \/ RecvDrainStart(n) \/ RecvDrainEnd(n) \/ RecvInitStep(n)
           \/ RecvIntent(n) \/ RecvPermission(n) \/ RecvEnd(n)
  <2>1. Stays(n) /\ UNCHANGED sent
    <3>1. UNCHANGED round /\ UNCHANGED finished /\ UNCHANGED synced /\ UNCHANGED polling
          /\ UNCHANGED main /\ UNCHANGED sent
      BY <1>1 DEF RecvNormal, RecvDrainStart, RecvDrainEnd, RecvInitStep, RecvIntent,
         RecvPermission, RecvEnd, ctl, wwt
    <3>2. QED
      BY <3>1 DEF Stays
  <2>2. \E u, s : Turn(n, u, s, 0)
    BY <1>1, ReceiveTurn, ExitReceiveTurn, DrainStartTurn, InitStepTurn, PermissionTurn
  <2>3. QED
    BY <2>1, <2>2 DEF StayTurn
<1>2. QED
  BY <1>1 DEF Receive, Marks

LEMMA DispatchStays ==
  ASSUME BlockBase, BhInv, NEW n \in Nodes, Dispatch(n) PROVE StayTurn(n) \/ Marks(n)
<1>0. main \in [Nodes -> MainStates] /\ polling \in [Nodes -> BOOLEAN]
  BY DEF BlockBase, TypeOK
<1>1. CASE HostPoll(n) \/ PauseBh(n) \/ SetupWWT(n) \/ Deliver(n) \/ SyncCheck(n)
  <2>1. Turn(n, "none", <<>>, 0)
    BY <1>1, MoveTurn
  <2>2. UNCHANGED <<round, finished, synced>> /\ UNCHANGED sent
    BY <1>1 DEF HostPoll, PauseBh, SetupWWT, Deliver, SyncCheck, wwt
  <2>3. \A m \in Nodes \ {n} : polling'[m] = polling[m]
    BY <1>0, <1>1 DEF HostPoll, PauseBh, SetupWWT, Deliver, SyncCheck, ctl
  <2>4. main[n] # "notify"
    BY <1>1 DEF HostPoll, PauseBh, SetupWWT, Deliver, SyncCheck, InEventLoop
  <2>5. \/ main'[n] = main[n]
        \/ {main[n], main'[n]} \subseteq {"setup", "run"}
        \/ {main[n], main'[n]} \cap {"setup", "run", "notify"} = {}
    BY <1>0, <1>1 DEF HostPoll, PauseBh, SetupWWT, Deliver, SyncCheck, ctl
  <2>6. QED
    BY <2>1, <2>2, <2>3, <2>4, <2>5 DEF StayTurn, Stays
<1>2. CASE CheckpointBH(n)
  <2>1. UNCHANGED <<round, finished, synced>> /\ UNCHANGED sent /\ UNCHANGED polling
    BY <1>2 DEF CheckpointBH, wwt
  <2>2. main[n] \in {"armed", "closing"}
    BY <1>2 DEF BhInv, CheckpointBH
  <2>3. main'[n] = main[n] \/ main'[n] = "exiting"
    BY <1>0, <1>2 DEF CheckpointBH
  <2>4. Stays(n)
    BY <2>1, <2>2, <2>3 DEF Stays
  <2>5. QED
    BY <1>2, <2>1, <2>4, SnapshotTurn DEF StayTurn
<1>3. QED
  BY <1>1, <1>2 DEF Dispatch, Marks

LEMMA BoundaryStays ==
  ASSUME BlockBase, NEW n \in Nodes, Boundary(n) PROVE StayTurn(n) \/ Marks(n)
<1> DEFINE Rest ==
      \/ CheckCount(n) \/ SpinOn(n) \/ SpinStop(n) \/ SpinDestroy(n) \/ BoundaryNotify(n)
      \/ BoundaryCheckpoint(n) \/ BoundaryTooLate(n) \/ BoundaryPass(n)
      \/ Permit(n) \/ PermitGrant(n) \/ PermitEnd(n) \/ Exit(n)
<1>0. main \in [Nodes -> MainStates] /\ polling \in [Nodes -> BOOLEAN]
  BY DEF BlockBase, TypeOK
<1>1. CASE Rest
  <2>1. \E u, s : Turn(n, u, s, 0)
    BY <1>1, MoveTurn, DestroyTurn, NotifyTurn, ScheduleTurn, GrantTurn, EndTurn
  <2>2. UNCHANGED <<round, finished, synced>> /\ UNCHANGED sent
    BY <1>1 DEF CheckCount, SpinOn, SpinStop, SpinDestroy, BoundaryNotify, BoundaryCheckpoint,
       BoundaryTooLate, BoundaryPass, Permit, PermitGrant, PermitEnd, Exit, wwt
  <2>3. \A m \in Nodes \ {n} : polling'[m] = polling[m]
    BY <1>0, <1>1 DEF CheckCount, SpinOn, SpinStop, SpinDestroy, BoundaryNotify,
       BoundaryCheckpoint, BoundaryTooLate, BoundaryPass, Permit, PermitGrant, PermitEnd, Exit, ctl
  <2>4. main[n] \notin {"setup", "run", "notify"}
    BY <1>1 DEF CheckCount, SpinOn, SpinStop, SpinDestroy, BoundaryNotify, BoundaryCheckpoint,
       BoundaryTooLate, BoundaryPass, Permit, PermitGrant, PermitEnd, Exit, MainAt
  <2>5. main'[n] \notin {"setup", "run", "notify"}
    <3>1. CASE SpinStop(n) \/ BoundaryNotify(n) \/ BoundaryTooLate(n) \/ Exit(n)
      BY <2>4, <3>1 DEF SpinStop, BoundaryNotify, BoundaryTooLate, Exit, ctl
    <3>2. CASE SpinDestroy(n)
      BY <1>0, <3>2 DEF SpinDestroy, Destroy, CloseAfterCheckpoint, CloseNow
    <3>3. CASE CheckCount(n) \/ SpinOn(n) \/ BoundaryCheckpoint(n) \/ BoundaryPass(n)
               \/ Permit(n) \/ PermitGrant(n) \/ PermitEnd(n)
      BY <1>0, <3>3 DEF CheckCount, SpinOn, BoundaryCheckpoint, BoundaryPass, Permit,
         PermitGrant, PermitEnd
    <3>4. QED
      BY <1>1, <3>1, <3>2, <3>3
  <2>6. QED
    BY <2>1, <2>2, <2>3, <2>4, <2>5 DEF StayTurn, Stays
<1>2. QED
  BY <1>1 DEF Boundary, Marks

LEMMA FlexusStays ==
  ASSUME BlockBase, NEW n \in Nodes,
         MainSend(n) \/ FlexusThread(n) \/ Tick(n) \/ FinishInitiate(n)
  PROVE  StayTurn(n)
<1>1. \E u, s : Turn(n, u, s, 0)
  BY MoveTurn, GrantTurn, EndTurn, CanStopTurn, SetCheckpointTurn, TickTurn, SignalTurn
  DEF FlexusThread
<1>2. UNCHANGED <<round, finished, synced>> /\ UNCHANGED sent /\ UNCHANGED main /\ UNCHANGED polling
  BY DEF FlexusThread, MainSend, FlexusSend, CanStop, CanStopGrant, CanStopEnd, CanStopAnswer,
     SetCheckpointFlags, SetCheckpointRound, Tick, FinishInitiate, ctl, wwt
<1>3. QED
  BY <1>1, <1>2 DEF StayTurn, Stays

LEMMA StaysOrMarks ==
  ASSUME BlockBase, BhInv, NEW n \in Nodes,
         MainThread(n) \/ FlexusThread(n) \/ Tick(n) \/ SendPacket(n) \/ FinishInitiate(n)
  PROVE  StayTurn(n) \/ Marks(n)
BY ReceiveStays, DispatchStays, BoundaryStays, FlexusStays DEF MainThread, Marks

LEMMA MarkTurn ==
  ASSUME BlockBase, NEW n \in Nodes, Marks(n) PROVE \E u, s, k : Turn(n, u, s, k)
BY MoveTurn, ReceiveTurn, NotifyTurn, SendPacketTurn DEF Marks

-----------------------------------------------------------------------------
(* What is said once, in every mode. *)

LEMMA TurnKept ==
  ASSUME BlockBase, NEW n \in Nodes, NEW u, NEW s, NEW k, Turn(n, u, s, k)
  PROVE  SpeechInv'
BY DrainKept DEF Turn, SpeechInv

LEMMA SpeechInitial == Init => SpeechInv
<1> SUFFICES ASSUME Init PROVE SpeechInv
  OBVIOUS
<1>1. \A n \in Nodes : /\ ring[n] = <<>> /\ mainOut[n] = <<>> /\ flexusOut[n] = <<>>
                       /\ flexus[n] = "idle" /\ stopAt[n] \in StopTimes
                       /\ ~ex[n].intent /\ ~ex[n].permitted /\ ~ex[n].endSent
                       /\ ~ck[n].masterInit /\ ~ck[n].signalled /\ ~ck[n].needs
                       /\ ~ck[n].notified /\ ck[n].saved = {}
  BY DEF Init, InitWWT, InitEngine
<1>2. RequestOnce /\ SpeaksAtStop
  BY <1>1, TwoNodes DEF RequestOnce, SpeaksAtStop
<1>3. ~Adopted
  BY <1>1, TwoNodes DEF Adopted
<1>4. Once(Master, "DRAIN_START", Adopted) /\ ~UnderWay(Master, "DRAIN_START")
  BY <1>1, <1>3, TwoNodes, CarriesNothing, OneShort DEF Once, OnceIn, UnderWay
<1>5. QED
  BY <1>2, <1>3, <1>4 DEF SpeechInv, DrainOnce

LEMMA StutterTurn ==
  ASSUME BlockBase, UNCHANGED vars, NEW n \in Nodes PROVE StayTurn(n)
<1>1. /\ UNCHANGED stopAt /\ UNCHANGED now /\ UNCHANGED ex /\ UNCHANGED ck /\ UNCHANGED flexus
      /\ UNCHANGED main /\ UNCHANGED status /\ UNCHANGED polling /\ UNCHANGED sent
      /\ UNCHANGED <<round, finished, synced>> /\ UNCHANGED wire
  BY DEF vars, ctl, wwt
<1>2. Speaks(n, "none", <<>>) /\ "none" # "DRAIN_START"
  BY <1>1 DEF Speaks
<1>3. Turn(n, "none", <<>>, 0)
  BY <1>1, <1>2, TurnSilent
<1>4. QED
  BY <1>1, <1>3 DEF StayTurn, Stays

LEMMA SpeechStep ==
  ASSUME TypeOK, BhInv, SpeechInv, [Next]_vars PROVE SpeechInv'
<1>0. BlockBase /\ Master \in Nodes
  BY TypeStep, TwoNodes DEF BlockBase, SpeechInv
<1>1. CASE UNCHANGED vars
  BY <1>0, <1>1, StutterTurn, TurnKept DEF StayTurn
<1>2. ASSUME NEW n \in Nodes,
             MainThread(n) \/ FlexusThread(n) \/ Tick(n) \/ SendPacket(n) \/ FinishInitiate(n)
      PROVE  SpeechInv'
  BY <1>0, <1>2, StaysOrMarks, MarkTurn, TurnKept DEF StayTurn
<1>3. QED
  BY <1>1, <1>2 DEF Next

-----------------------------------------------------------------------------
(* How much is unread, and behind a SYNC, after each kind of step. *)

LEMMA LengthNat == ASSUME NEW s \in Seq(Message) PROVE Len(s) \in Nat
OBVIOUS

LEMMA LengthTail ==
  ASSUME NEW s \in Seq(Message), s # <<>>
  PROVE  Len(Tail(s)) = Len(s) - 1 /\ Len(s) >= 1 /\ 1 \in DOMAIN s /\ s[1] = Head(s)
OBVIOUS

LEMMA LengthAppend ==
  ASSUME NEW s \in Seq(Message), NEW m \in Message PROVE Len(Append(s, m)) = Len(s) + 1
OBVIOUS

LEMMA DomainInt == ASSUME NEW s \in Seq(Message) PROVE \A i \in DOMAIN s : i \in Int
OBVIOUS

\* A message goes from the main thread into the ring.
LEMMA BehindSent ==
  ASSUME NEW a \in Seq(Message), a # <<>>, NEW b \in Seq(Message), NEW r \in Seq(Message),
         NEW v, NEW k \in Nat, BehindIn(a, b, r, v, k)
  PROVE  BehindIn(Tail(a), b, Append(r, Head(a)), v, k)
<1>0. /\ Len(a) \in Nat /\ Len(b) \in Nat /\ Len(r) \in Nat /\ Head(a) \in Message
      /\ Len(Tail(a)) = Len(a) - 1 /\ 1 \in DOMAIN a /\ a[1] = Head(a)
      /\ Len(Append(r, Head(a))) = Len(r) + 1
  BY LengthNat, LengthTail, LengthAppend
<1>1. ASSUME NEW i \in DOMAIN Tail(a), IsSync(Tail(a)[i])
      PROVE  Len(Tail(a)) - i + Len(b) <= k
  <2>1. i + 1 \in DOMAIN a /\ Tail(a)[i] = a[i + 1] /\ i \in Int
    BY TailElements, DomainInt
  <2>2. Len(a) - (i + 1) + Len(b) <= k
    BY <1>1, <2>1 DEF BehindIn
  <2>3. QED
    BY <1>0, <2>1, <2>2
<1>2. ASSUME NEW i \in DOMAIN Append(r, Head(a)), IsSyncOf(Append(r, Head(a))[i], v)
      PROVE  Len(Append(r, Head(a))) - i + Len(Tail(a)) + Len(b) <= k
  <2>1. i \in Int
    BY <1>0, DomainInt
  <2>2. CASE i \in DOMAIN r /\ Append(r, Head(a))[i] = r[i]
    <3>1. Len(r) - i + Len(a) + Len(b) <= k
      BY <1>2, <2>2 DEF BehindIn
    <3>2. QED
      BY <1>0, <2>1, <3>1
  <2>3. CASE i = Len(r) + 1 /\ Append(r, Head(a))[i] = Head(a)
    <3>1. Len(a) - 1 + Len(b) <= k
      BY <1>0, <1>2, <2>3 DEF BehindIn, IsSyncOf
    <3>2. QED
      BY <1>0, <2>3, <3>1
  <2>4. QED
    BY <1>0, <2>2, <2>3, AppendElements
<1>3. QED
  BY <1>1, <1>2 DEF BehindIn

\* A message of Flexus, which is no SYNC, goes into the ring.
LEMMA BehindFlexusSent ==
  ASSUME NEW a \in Seq(Message), NEW b \in Seq(Message), b # <<>>, NEW r \in Seq(Message),
         NEW v, NEW k \in Nat, BehindIn(a, b, r, v, k), ~IsSync(b[1])
  PROVE  BehindIn(a, Tail(b), Append(r, Head(b)), v, k)
<1>0. /\ Len(a) \in Nat /\ Len(b) \in Nat /\ Len(r) \in Nat /\ Head(b) \in Message
      /\ Len(Tail(b)) = Len(b) - 1 /\ b[1] = Head(b)
      /\ Len(Append(r, Head(b))) = Len(r) + 1
  BY LengthNat, LengthTail, LengthAppend
<1>1. ASSUME NEW i \in DOMAIN a, IsSync(a[i]) PROVE Len(a) - i + Len(Tail(b)) <= k
  <2>1. i \in Int
    BY DomainInt
  <2>2. Len(a) - i + Len(b) <= k
    BY <1>1 DEF BehindIn
  <2>3. QED
    BY <1>0, <2>1, <2>2
<1>2. ASSUME NEW i \in DOMAIN Append(r, Head(b)), IsSyncOf(Append(r, Head(b))[i], v)
      PROVE  Len(Append(r, Head(b))) - i + Len(a) + Len(Tail(b)) <= k
  <2>1. i \in Int
    BY <1>0, DomainInt
  <2>2. i \in DOMAIN r /\ Append(r, Head(b))[i] = r[i]
    BY <1>0, <1>2, AppendElements DEF IsSyncOf
  <2>3. Len(r) - i + Len(a) + Len(b) <= k
    BY <1>2, <2>2 DEF BehindIn
  <2>4. QED
    BY <1>0, <2>1, <2>3
<1>3. QED
  BY <1>1, <1>2 DEF BehindIn

\* One of the threads of the sender, blocked on nothing, goes on to say s.
LEMMA BehindSaid ==
  ASSUME NEW a \in Seq(Message), NEW b \in Seq(Message), NEW r \in Seq(Message),
         NEW s \in Seq(Message), NEW v, NEW k \in Nat, BehindIn(a, b, r, v, k)
  PROVE  /\ a = <<>> /\ NoSync(s) => BehindIn(s, b, r, v, k + Len(s))
         /\ b = <<>> => BehindIn(a, s, r, v, k + Len(s))
<1>0. /\ Len(a) \in Nat /\ Len(b) \in Nat /\ Len(r) \in Nat /\ Len(s) \in Nat
      /\ a = <<>> => Len(a) = 0
      /\ b = <<>> => Len(b) = 0
      /\ \A i \in DOMAIN a : i \in Int
      /\ \A i \in DOMAIN r : i \in Int
  BY LengthNat, DomainInt, Silence
<1>1. ASSUME a = <<>>, NoSync(s) PROVE BehindIn(s, b, r, v, k + Len(s))
  BY <1>0, <1>1 DEF BehindIn, NoSync
<1>2. ASSUME b = <<>> PROVE BehindIn(a, s, r, v, k + Len(s))
  BY <1>0, <1>2 DEF BehindIn
<1>3. QED
  BY <1>1, <1>2

\* The receiver takes a message.
LEMMA BehindTaken ==
  ASSUME NEW a \in Seq(Message), NEW b \in Seq(Message), NEW r \in Seq(Message), r # <<>>,
         NEW v, NEW k \in Nat, BehindIn(a, b, r, v, k)
  PROVE  /\ BehindIn(a, b, Tail(r), v, k)
         /\ IsSyncOf(Head(r), v) => Len(Tail(r)) + Len(a) + Len(b) <= k
<1>0. /\ Len(a) \in Nat /\ Len(b) \in Nat /\ Len(r) \in Nat
      /\ Len(Tail(r)) = Len(r) - 1 /\ 1 \in DOMAIN r /\ r[1] = Head(r)
      /\ Tail(r) \in Seq(Message)
  BY LengthNat, LengthTail
<1>1. ASSUME NEW i \in DOMAIN Tail(r), IsSyncOf(Tail(r)[i], v)
      PROVE  Len(Tail(r)) - i + Len(a) + Len(b) <= k
  <2>1. i + 1 \in DOMAIN r /\ Tail(r)[i] = r[i + 1] /\ i \in Int
    BY <1>0, TailElements, DomainInt
  <2>2. Len(r) - (i + 1) + Len(a) + Len(b) <= k
    BY <1>1, <2>1 DEF BehindIn
  <2>3. QED
    BY <1>0, <2>1, <2>2
<1>2. IsSyncOf(Head(r), v) => Len(r) - 1 + Len(a) + Len(b) <= k
  BY <1>0 DEF BehindIn
<1>3. QED
  BY <1>0, <1>1, <1>2 DEF BehindIn

WasBehind(n, v, k) == BehindIn(mainOut[n], flexusOut[n], ring[Peer(n)], v, k)
NowBehind(n, v, k) == BehindIn(mainOut'[n], flexusOut'[n], ring'[Peer(n)], v, k)

\* What of n's messages is behind one of its SYNC, in a step in which n says s.
LEMMA SpokenBehind ==
  ASSUME TypeOK, NEW n \in Nodes, NEW u, NEW s \in Seq(Message), Speaks(n, u, s),
         FlexusSendsNone(n), NoSync(s), NEW v, NEW k \in Nat, WasBehind(n, v, k)
  PROVE  NowBehind(n, v, k + Len(s))
<1>0. /\ mainOut[n] \in Seq(Message) /\ flexusOut[n] \in Seq(Message)
      /\ ring[Peer(n)] \in Seq(Message) /\ Peer(n) \in Nodes /\ Peer(n) # n
  BY TwoNodes DEF TypeOK
<1>k. s = <<>> => k + Len(s) = k
  BY Silence
<1>1. CASE s = <<>> /\ UNCHANGED wire
  <2>1. /\ mainOut'[n] = mainOut[n] /\ flexusOut'[n] = flexusOut[n]
        /\ ring'[Peer(n)] = ring[Peer(n)]
    BY <1>1 DEF wire
  <2>2. QED
    BY <1>k, <1>1, <2>1 DEF WasBehind, NowBehind
<1>2. CASE s = <<>> /\ MainSend(n)
  <2>1. /\ mainOut[n] # <<>> /\ mainOut'[n] = Tail(mainOut[n]) /\ flexusOut'[n] = flexusOut[n]
        /\ ring'[Peer(n)] = Append(ring[Peer(n)], Head(mainOut[n]))
    BY <1>0, <1>2 DEF MainSend, CommSend, TypeOK
  <2>2. QED
    BY <1>0, <1>k, <1>2, <2>1, BehindSent DEF WasBehind, NowBehind
<1>3. CASE s = <<>> /\ FlexusSend(n)
  <2>1. /\ flexusOut[n] # <<>> /\ flexusOut'[n] = Tail(flexusOut[n]) /\ mainOut'[n] = mainOut[n]
        /\ ring'[Peer(n)] = Append(ring[Peer(n)], Head(flexusOut[n]))
    BY <1>0, <1>3 DEF FlexusSend, CommSend, TypeOK
  <2>2. ~IsSync(flexusOut[n][1])
    BY <1>0, <2>1, LengthTail DEF FlexusSendsNone
  <2>3. QED
    BY <1>0, <1>k, <1>3, <2>1, <2>2, BehindFlexusSent DEF WasBehind, NowBehind
<1>4. CASE MainSays(n, s)
  <2>1. /\ mainOut[n] = <<>> /\ mainOut'[n] = s /\ flexusOut'[n] = flexusOut[n]
        /\ ring'[Peer(n)] = ring[Peer(n)]
    BY <1>4 DEF MainSays, TypeOK
  <2>2. QED
    BY <1>0, <2>1, BehindSaid DEF WasBehind, NowBehind
<1>5. CASE FlexusSays(n, s)
  <2>1. /\ flexusOut[n] = <<>> /\ flexusOut'[n] = s /\ mainOut'[n] = mainOut[n]
        /\ ring'[Peer(n)] = ring[Peer(n)]
    BY <1>5 DEF FlexusSays, TypeOK
  <2>2. QED
    BY <1>0, <2>1, BehindSaid DEF WasBehind, NowBehind
<1>6. CASE Takes(n, u, s)
  <2>1. /\ mainOut[n] = <<>> /\ mainOut'[n] = s /\ flexusOut'[n] = flexusOut[n]
        /\ ring'[Peer(n)] = ring[Peer(n)]
    BY <1>0, <1>6 DEF Takes, Receiving, MainReady, TypeOK
  <2>2. QED
    BY <1>0, <2>1, BehindSaid DEF WasBehind, NowBehind
<1>7. QED
  BY <1>1, <1>2, <1>3, <1>4, <1>5, <1>6 DEF Speaks

\* The same of its peer's messages, of which n may take the first.
LEMMA HeardBehind ==
  ASSUME TypeOK, NEW n \in Nodes, NEW u, NEW s, Speaks(n, u, s),
         NEW v, NEW k \in Nat, WasBehind(Peer(n), v, k)
  PROVE  NowBehind(Peer(n), v, k)
<1>0. /\ mainOut[Peer(n)] \in Seq(Message) /\ flexusOut[Peer(n)] \in Seq(Message)
      /\ ring[n] \in Seq(Message) /\ Peer(n) \in Nodes /\ Peer(n) # n /\ Peer(Peer(n)) = n
  BY TwoNodes DEF TypeOK
<1>1. mainOut'[Peer(n)] = mainOut[Peer(n)] /\ flexusOut'[Peer(n)] = flexusOut[Peer(n)]
  BY <1>0 DEF Speaks, wire, MainSend, FlexusSend, MainSays, FlexusSays, Takes, TypeOK
<1>2. ring'[n] = ring[n] \/ (ring[n] # <<>> /\ ring'[n] = Tail(ring[n]))
  BY <1>0 DEF Speaks, wire, MainSend, FlexusSend, CommSend, MainSays, FlexusSays, Takes,
     Receiving, TypeOK
<1>3. QED
  BY <1>0, <1>1, <1>2, BehindTaken DEF WasBehind, NowBehind

LEMMA SumsNat ==
  ASSUME NEW a \in Nat, NEW b \in Nat, NEW c \in Nat
  PROVE  a + b \in Nat /\ c + (a + b) \in Nat
OBVIOUS

LEMMA UnreadNat ==
  ASSUME TypeOK, NEW m \in Nodes
  PROVE  /\ Unsent(m) \in Nat /\ Unread(m) \in Nat /\ Unread(m) = Len(ring[Peer(m)]) + Unsent(m)
         /\ Len(ring[Peer(m)]) \in Nat
<1> DEFINE a == Len(mainOut[m])
           b == Len(flexusOut[m])
           c == Len(ring[Peer(m)])
<1>1. /\ mainOut[m] \in Seq(Message) /\ flexusOut[m] \in Seq(Message)
      /\ ring[Peer(m)] \in Seq(Message)
  BY TwoNodes DEF TypeOK
<1>2. a \in Nat /\ b \in Nat /\ c \in Nat
  BY <1>1, LengthNat
<1>3. Unsent(m) = a + b /\ Unread(m) = c + Unsent(m) /\ c = Len(ring[Peer(m)])
  BY DEF Unsent, Unread
<1>4. c \in Nat /\ Unread(m) = Len(ring[Peer(m)]) + Unsent(m)
  BY <1>2, <1>3
<1>5. a + b \in Nat /\ c + (a + b) \in Nat
  BY <1>2, SumsNat
<1> HIDE DEF a, b, c
<1>6. Unsent(m) \in Nat /\ Unread(m) \in Nat
  BY <1>3, <1>5
<1>7. QED
  BY <1>3, <1>4, <1>6 DEF a, b, c

LEMMA UnreadNatNext ==
  ASSUME TypeOK', NEW m \in Nodes
  PROVE  /\ Unsent(m)' \in Nat /\ Unread(m)' \in Nat
         /\ Unsent(m)' = Len(mainOut'[m]) + Len(flexusOut'[m])
         /\ Unread(m)' = Len(ring'[Peer(m)]) + Unsent(m)' /\ Len(ring'[Peer(m)]) \in Nat
<1> DEFINE a == Len(mainOut'[m])
           b == Len(flexusOut'[m])
           c == Len(ring'[Peer(m)])
<1>1. /\ mainOut'[m] \in Seq(Message) /\ flexusOut'[m] \in Seq(Message)
      /\ ring'[Peer(m)] \in Seq(Message)
  BY TwoNodes DEF TypeOK
<1>2. a \in Nat /\ b \in Nat /\ c \in Nat
  BY <1>1, LengthNat
<1>3. /\ Unsent(m)' = a + b /\ Unread(m)' = c + Unsent(m)'
      /\ a = Len(mainOut'[m]) /\ b = Len(flexusOut'[m]) /\ c = Len(ring'[Peer(m)])
  BY DEF Unsent, Unread
<1>4. c \in Nat /\ Unread(m)' = Len(ring'[Peer(m)]) + Unsent(m)'
  BY <1>2, <1>3
<1>5. a + b \in Nat /\ c + (a + b) \in Nat
  BY <1>2, SumsNat
<1> HIDE DEF a, b, c
<1>6. Unsent(m)' \in Nat /\ Unread(m)' \in Nat
  BY <1>3, <1>5
<1>7. QED
  BY <1>3, <1>4, <1>6 DEF a, b, c

\* Of the three lengths, what one step of one thread makes of them.
LEMMA WireLengths ==
  ASSUME NEW a \in Seq(Message), NEW b \in Seq(Message), NEW r \in Seq(Message),
         NEW s \in Seq(Message)
  PROVE  /\ a # <<>> => /\ Len(Tail(a)) = Len(a) - 1
                        /\ Len(Append(r, Head(a))) = Len(r) + 1
         /\ b # <<>> => /\ Len(Tail(b)) = Len(b) - 1
                        /\ Len(Append(r, Head(b))) = Len(r) + 1
         /\ a = <<>> => Len(a) = 0
         /\ b = <<>> => Len(b) = 0
         /\ Len(a) \in Nat /\ Len(b) \in Nat /\ Len(r) \in Nat /\ Len(s) \in Nat
<1>1. a # <<>> => /\ Len(Tail(a)) = Len(a) - 1 /\ Head(a) \in Message
                  /\ Len(Append(r, Head(a))) = Len(r) + 1
  BY LengthTail, LengthAppend
<1>2. b # <<>> => /\ Len(Tail(b)) = Len(b) - 1 /\ Head(b) \in Message
                  /\ Len(Append(r, Head(b))) = Len(r) + 1
  BY LengthTail, LengthAppend
<1>3. Len(a) \in Nat /\ Len(b) \in Nat /\ Len(r) \in Nat /\ Len(s) \in Nat
  BY LengthNat
<1>4. (a = <<>> => Len(a) = 0) /\ (b = <<>> => Len(b) = 0)
  BY Silence
<1>5. QED
  BY <1>1, <1>2, <1>3, <1>4

LEMMA SumOfThree ==
  ASSUME NEW a \in Int, NEW b \in Int, NEW r \in Int, NEW s \in Nat,
         NEW x \in Int, NEW y \in Int, NEW z \in Int,
         \/ x = a /\ y = b /\ z = r
         \/ x = a - 1 /\ y = b /\ z = r + 1
         \/ x = a /\ y = b - 1 /\ z = r + 1
         \/ a = 0 /\ x = s /\ y = b /\ z = r
         \/ b = 0 /\ x = a /\ y = s /\ z = r
  PROVE  x + y <= a + b + s /\ z + (x + y) <= r + (a + b) + s
OBVIOUS

\* What is unsent and unread grows by what is said.
LEMMA SpokenUnread ==
  ASSUME TypeOK, TypeOK', NEW n \in Nodes, NEW u, NEW s \in Seq(Message), Speaks(n, u, s)
  PROVE  /\ Unsent(n)' <= Unsent(n) + Len(s) /\ Unread(n)' <= Unread(n) + Len(s)
         /\ Unsent(Peer(n))' = Unsent(Peer(n)) /\ Unread(Peer(n))' <= Unread(Peer(n))
<1> DEFINE p == Peer(n)
           a == Len(mainOut[n])
           b == Len(flexusOut[n])
           r == Len(ring[p])
           x == Len(mainOut'[n])
           y == Len(flexusOut'[n])
           z == Len(ring'[p])
           k == Len(s)
<1>0. /\ mainOut[n] \in Seq(Message) /\ flexusOut[n] \in Seq(Message)
      /\ ring[p] \in Seq(Message) /\ ring[n] \in Seq(Message)
      /\ p \in Nodes /\ p # n /\ Peer(p) = n
  BY TwoNodes DEF TypeOK
<1>n. a \in Nat /\ b \in Nat /\ r \in Nat /\ k \in Nat
  BY <1>0, LengthNat
<1>m. x \in Nat /\ y \in Nat /\ z \in Nat
  <2>1. /\ mainOut'[n] \in Seq(Message) /\ flexusOut'[n] \in Seq(Message)
        /\ ring'[p] \in Seq(Message)
    BY <1>0 DEF TypeOK
  <2>2. QED
    BY <2>1, LengthNat
<1>1. \/ x = a /\ y = b /\ z = r
      \/ x = a - 1 /\ y = b /\ z = r + 1
      \/ x = a /\ y = b - 1 /\ z = r + 1
      \/ a = 0 /\ x = k /\ y = b /\ z = r
      \/ b = 0 /\ x = a /\ y = k /\ z = r
  <2>1. CASE UNCHANGED wire
    <3>1. mainOut'[n] = mainOut[n] /\ flexusOut'[n] = flexusOut[n] /\ ring'[p] = ring[p]
      BY <2>1 DEF wire
    <3>2. QED
      BY <3>1
  <2>2. CASE MainSend(n)
    <3>1. /\ mainOut[n] # <<>> /\ mainOut'[n] = Tail(mainOut[n]) /\ flexusOut'[n] = flexusOut[n]
          /\ ring'[p] = Append(ring[p], Head(mainOut[n]))
      BY <1>0, <2>2 DEF MainSend, CommSend, TypeOK
    <3>2. QED
      BY <1>0, <3>1, WireLengths
  <2>3. CASE FlexusSend(n)
    <3>1. /\ flexusOut[n] # <<>> /\ flexusOut'[n] = Tail(flexusOut[n]) /\ mainOut'[n] = mainOut[n]
          /\ ring'[p] = Append(ring[p], Head(flexusOut[n]))
      BY <1>0, <2>3 DEF FlexusSend, CommSend, TypeOK
    <3>2. QED
      BY <1>0, <3>1, WireLengths
  <2>4. CASE MainSays(n, s) \/ FlexusSays(n, s) \/ Takes(n, u, s)
    <3>1. ring'[p] = ring[p]
      BY <1>0, <2>4 DEF MainSays, FlexusSays, Takes, Receiving, TypeOK
    <3>2. \/ mainOut[n] = <<>> /\ mainOut'[n] = s /\ flexusOut'[n] = flexusOut[n]
          \/ flexusOut[n] = <<>> /\ flexusOut'[n] = s /\ mainOut'[n] = mainOut[n]
      BY <2>4 DEF MainSays, FlexusSays, Takes, Receiving, MainReady, TypeOK
    <3>3. mainOut[n] = <<>> => a = 0
      BY <1>0, WireLengths
    <3>4. flexusOut[n] = <<>> => b = 0
      BY <1>0, WireLengths
    <3>5. QED
      BY <3>1, <3>2, <3>3, <3>4
  <2>5. QED
    BY <2>1, <2>2, <2>3, <2>4 DEF Speaks
<1>2. mainOut'[p] = mainOut[p] /\ flexusOut'[p] = flexusOut[p]
  BY <1>0 DEF Speaks, wire, MainSend, FlexusSend, MainSays, FlexusSays, Takes, TypeOK
<1>3. ring'[n] = ring[n] \/ (ring[n] # <<>> /\ ring'[n] = Tail(ring[n]))
  BY <1>0 DEF Speaks, wire, MainSend, FlexusSend, CommSend, MainSays, FlexusSays, Takes,
     Receiving, TypeOK
<1>4. Len(ring'[n]) = Len(ring[n]) \/ Len(ring'[n]) = Len(ring[n]) - 1
  BY <1>0, <1>3, LengthTail
<1>5. Len(ring[n]) \in Nat
  BY <1>0, LengthNat
<1>6. /\ Unsent(n) = a + b /\ Unread(n) = r + (a + b) /\ Unsent(n)' = x + y
      /\ Unread(n)' = z + (x + y)
  BY DEF Unsent, Unread
<1>7. Unsent(p)' = Unsent(p)
  BY <1>2 DEF Unsent
<1>8. Unread(p) = Len(ring[n]) + Unsent(p) /\ Unread(p)' = Len(ring'[n]) + Unsent(p)'
  BY <1>0 DEF Unread
<1>9. Unsent(p) \in Nat
  BY <1>0, UnreadNat
<1>10. Unread(p)' <= Unread(p)
  <2> DEFINE c == Len(ring[n])
             d == Len(ring'[n])
  <2>1. (d = c \/ d = c - 1) /\ c \in Nat /\ Unread(p) = c + Unsent(p) /\ Unread(p)' = d + Unsent(p)
    BY <1>4, <1>5, <1>7, <1>8
  <2> HIDE DEF c, d, p
  <2>2. QED
    BY <1>9, <2>1
<1> HIDE DEF a, b, r, x, y, z, k
<1>11. x + y <= a + b + k /\ z + (x + y) <= r + (a + b) + k
  BY <1>1, <1>n, <1>m, SumOfThree
<1>12. /\ Unsent(n)' <= Unsent(n) + k /\ Unread(n)' <= Unread(n) + k
  BY <1>6, <1>11
<1>13. QED
  BY <1>7, <1>10, <1>12 DEF k

-----------------------------------------------------------------------------
(* What each kind of step leaves behind a SYNC, unsent and unread. *)

LEMMA SaidIsNat == \A n : Said(n) \in Nat /\ Said(n)' \in Nat
BY SaidIs, SaidIsNext, SaidNat

LEMMA SinceNat ==
  ASSUME TypeOK, NEW m \in Nodes
  PROVE  /\ SinceSync(m) \in Nat /\ AnnouncedRounds(m) \in Nat
         /\ SinceSync(m) + Said(m) \in Nat /\ SaidHere(m) \in Nat
<1>1. SinceSync(m) \in Nat /\ AnnouncedRounds(m) \in Nat /\ sent[m] \in Nat
  BY BoundAssumption DEF SinceSync, AnnouncedRounds, TypeOK
<1>2. Said(m) \in Nat /\ Bit(Announced(m)) \in Nat
  BY SaidIsNat, BitNat
<1>3. QED
  BY <1>1, <1>2 DEF SaidHere

LEMMA SinceNatNext ==
  ASSUME TypeOK', NEW m \in Nodes
  PROVE  /\ SinceSync(m)' \in Nat /\ AnnouncedRounds(m)' \in Nat
         /\ SinceSync(m)' + Said(m)' \in Nat /\ SaidHere(m)' \in Nat
<1>1. SinceSync(m)' \in Nat /\ AnnouncedRounds(m)' \in Nat /\ sent'[m] \in Nat
  BY BoundAssumption DEF SinceSync, AnnouncedRounds, Announced, TypeOK
<1>2. Said(m)' \in Nat /\ Bit(Announced(m)') \in Nat
  BY SaidIsNat, BitNat
<1>3. SaidHere(m)' = Bit(Announced(m)') + sent'[m] + Said(m)'
  BY DEF SaidHere, Bit
<1>4. QED
  BY <1>1, <1>2, <1>3

LEMMA BehindMore ==
  ASSUME NEW a \in Seq(Message), NEW b \in Seq(Message), NEW r \in Seq(Message), NEW v,
         NEW k \in Nat, NEW h \in Nat, k <= h, BehindIn(a, b, r, v, k)
  PROVE  BehindIn(a, b, r, v, h)
<1>0. /\ Len(a) \in Nat /\ Len(b) \in Nat /\ Len(r) \in Nat
      /\ \A i \in DOMAIN a : i \in Int
      /\ \A i \in DOMAIN r : i \in Int
  BY LengthNat, DomainInt
<1>1. ASSUME NEW i \in DOMAIN a, IsSync(a[i]) PROVE Len(a) - i + Len(b) <= h
  <2>1. Len(a) - i + Len(b) <= k /\ i \in Int
    BY <1>0, <1>1 DEF BehindIn
  <2>2. QED
    BY <1>0, <2>1
<1>2. ASSUME NEW i \in DOMAIN r, IsSyncOf(r[i], v) PROVE Len(r) - i + Len(a) + Len(b) <= h
  <2>1. Len(r) - i + Len(a) + Len(b) <= k /\ i \in Int
    BY <1>0, <1>2 DEF BehindIn
  <2>2. QED
    BY <1>0, <2>1
<1>3. QED
  BY <1>1, <1>2 DEF BehindIn

LEMMA NowBehindMore ==
  ASSUME TypeOK', NEW n \in Nodes, NEW v, NEW k \in Nat, NEW h \in Nat, k <= h,
         NowBehind(n, v, k)
  PROVE  NowBehind(n, v, h)
<1>1. /\ mainOut'[n] \in Seq(Message) /\ flexusOut'[n] \in Seq(Message)
      /\ ring'[Peer(n)] \in Seq(Message)
  BY TwoNodes DEF TypeOK
<1>2. QED
  BY <1>1, BehindMore DEF NowBehind

\* What Behind says, of the wires before and after a step.
LEMMA BehindIs ==
  ASSUME NEW m
  PROVE  /\ Behind(m) <=> /\ WasBehind(m, AnnouncedRounds(m) - 1, SinceSync(m) + Said(m))
                          /\ LastSyncRead(m) => Unread(m) <= SinceSync(m) + Said(m)
         /\ Behind(m)' <=>
              /\ NowBehind(m, AnnouncedRounds(m)' - 1, SinceSync(m)' + Said(m)')
              /\ LastSyncRead(m)' => Unread(m)' <= SinceSync(m)' + Said(m)'
<1>1. Behind(m) <=> /\ WasBehind(m, AnnouncedRounds(m) - 1, SinceSync(m) + Said(m))
                    /\ LastSyncRead(m) => Unread(m) <= SinceSync(m) + Said(m)
  BY DEF Behind, WasBehind
<1>2. Behind(m)' <=>
              /\ NowBehind(m, AnnouncedRounds(m)' - 1, SinceSync(m)' + Said(m)')
              /\ LastSyncRead(m)' => Unread(m)' <= SinceSync(m)' + Said(m)'
  BY DEF Behind, NowBehind, BehindIn
<1>3. QED
  BY <1>1, <1>2

\* n says s, accounts for it, and announces no round.
LEMMA OwnBehind ==
  ASSUME TypeOK, TypeOK', NEW n \in Nodes, NEW u, NEW s \in Seq(Message), Speaks(n, u, s),
         FlexusSendsNone(n), NoSync(s), Behind(n), NEW k \in Nat,
         Said(n)' + k >= Said(n) + Len(s), SinceSync(n)' >= SinceSync(n) + k,
         AnnouncedRounds(n)' = AnnouncedRounds(n), LastSyncRead(n)' => LastSyncRead(n)
  PROVE  Behind(n)'
<1> DEFINE v == AnnouncedRounds(n) - 1
           g == SinceSync(n) + Said(n)
           h == SinceSync(n)' + Said(n)'
           l == Len(s)
<1>1. g \in Nat /\ h \in Nat /\ l \in Nat
  BY SinceNat, SinceNatNext, LengthNat
<1>2. g + l <= h
  <2> DEFINE a == SinceSync(n)
             b == SinceSync(n)'
             c == Said(n)
             d == Said(n)'
  <2>1. a \in Nat /\ b \in Nat /\ c \in Nat /\ d \in Nat
    BY SinceNat, SinceNatNext, SaidIsNat
  <2>2. d + k >= c + l /\ b >= a + k /\ g = a + c /\ h = b + d
    OBVIOUS
  <2> HIDE DEF a, b, c, d, g, h, l
  <2>3. QED
    BY <1>1, <2>1, <2>2
<1>3. WasBehind(n, v, g) /\ (LastSyncRead(n) => Unread(n) <= g)
  BY BehindIs
<1>4. Unread(n)' <= Unread(n) + l /\ Unread(n) \in Nat /\ Unread(n)' \in Nat
  BY SpokenUnread, UnreadNat, UnreadNatNext
<1> HIDE DEF v, g, h
<1>5. NowBehind(n, v, g + l)
  BY <1>1, <1>3, SpokenBehind
<1> HIDE DEF l
<1>6. g + l \in Nat
  BY <1>1
<1>7. NowBehind(n, v, h)
  BY <1>1, <1>2, <1>5, <1>6, NowBehindMore
<1>8. LastSyncRead(n)' => Unread(n)' <= h
  BY <1>1, <1>2, <1>3, <1>4
<1>9. QED
  BY <1>7, <1>8, BehindIs DEF v, h

\* The peer of n, which does not move, has its SYNC taken at most.
LEMMA PeersBehind ==
  ASSUME TypeOK, TypeOK', NEW n \in Nodes, NEW u, NEW s \in Seq(Message), Speaks(n, u, s),
         Behind(Peer(n)),
         Said(Peer(n))' = Said(Peer(n)), SinceSync(Peer(n))' = SinceSync(Peer(n)),
         AnnouncedRounds(Peer(n))' = AnnouncedRounds(Peer(n)),
         LastSyncRead(Peer(n))' =>
           \/ LastSyncRead(Peer(n))
           \/ /\ ring[n] # <<>> /\ ring'[n] = Tail(ring[n])
              /\ UNCHANGED mainOut /\ UNCHANGED flexusOut
              /\ IsSyncOf(Head(ring[n]), AnnouncedRounds(Peer(n)) - 1)
  PROVE  Behind(Peer(n))'
<1> DEFINE p == Peer(n)
           v == AnnouncedRounds(p) - 1
           g == SinceSync(p) + Said(p)
<1>0. p \in Nodes /\ Peer(p) = n /\ p # n
  BY TwoNodes
<1>1. g \in Nat /\ SinceSync(p)' + Said(p)' = g
  BY <1>0, SinceNat
<1>2. WasBehind(p, v, g) /\ (LastSyncRead(p) => Unread(p) <= g)
  BY BehindIs
<1>3. Unread(p)' <= Unread(p) /\ Unread(p) \in Nat /\ Unread(p)' \in Nat
  BY <1>0, SpokenUnread, UnreadNat, UnreadNatNext
<1>4. NowBehind(p, v, g)
  <2> HIDE DEF v, g
  <2>1. QED
    BY <1>1, <1>2, HeardBehind
<1>5. LastSyncRead(p) => Unread(p)' <= g
  <2> HIDE DEF g, p
  <2>1. QED
    BY <1>1, <1>2, <1>3
<1>6. ASSUME ring[n] # <<>>, ring'[n] = Tail(ring[n]), UNCHANGED mainOut, UNCHANGED flexusOut,
             IsSyncOf(Head(ring[n]), v)
      PROVE  Unread(p)' <= g
  <2>1. /\ mainOut[p] \in Seq(Message) /\ flexusOut[p] \in Seq(Message) /\ ring[n] \in Seq(Message)
    BY <1>0 DEF TypeOK
  <2>2. BehindIn(mainOut[p], flexusOut[p], ring[n], v, g)
    BY <1>0, <1>2 DEF WasBehind
  <2> HIDE DEF g, v, p
  <2>3. Len(Tail(ring[n])) + Len(mainOut[p]) + Len(flexusOut[p]) <= g
    BY <1>1, <1>6, <2>1, <2>2, BehindTaken
  <2>4. Unread(p)' = Len(Tail(ring[n])) + Unsent(p)' /\ Unsent(p)' = Len(mainOut[p]) + Len(flexusOut[p])
    BY <1>0, <1>6, UnreadNatNext
  <2>5. Len(Tail(ring[n])) + (Len(mainOut[p]) + Len(flexusOut[p])) <= g
    <3>1. /\ Len(mainOut[p]) \in Nat /\ Len(flexusOut[p]) \in Nat /\ Len(Tail(ring[n])) \in Nat
      <4>1. Tail(ring[n]) \in Seq(Message)
        BY <1>6, <2>1
      <4>2. QED
        BY <2>1, <4>1, LengthNat
    <3>2. \A x \in Nat, y \in Nat, z \in Nat : z + x + y = z + (x + y)
      OBVIOUS
    <3>3. QED
      BY <2>3, <3>1, <3>2
  <2>6. QED
    BY <2>4, <2>5
<1>7. LastSyncRead(p)' => Unread(p)' <= g
  BY <1>5, <1>6
<1> HIDE DEF g
<1>8. QED
  BY <1>1, <1>4, <1>7, BehindIs

-----------------------------------------------------------------------------
(* What both bounds need of a step of n. *)

PaysBase == BlockBase /\ ExitBase /\ PermissionOnce /\ SyncInv /\ Bounded

\* n steps: its peer's round, poll and packets stay.
PeerFrame(n) ==
  \A m \in Nodes \ {n} :
    /\ round'[m] = round[m] /\ finished'[m] = finished[m]
    /\ polling'[m] = polling[m] /\ sent'[m] = sent[m]

LEMMA PeerSame ==
  ASSUME NEW n \in Nodes, Others(n), PeerFrame(n)
  PROVE  /\ Said(Peer(n))' = Said(Peer(n)) /\ SinceSync(Peer(n))' = SinceSync(Peer(n))
         /\ AnnouncedRounds(Peer(n))' = AnnouncedRounds(Peer(n))
         /\ SaidHere(Peer(n))' = SaidHere(Peer(n))
         /\ PastPoll(Peer(n))' <=> PastPoll(Peer(n))
<1> DEFINE p == Peer(n)
<1>1. p \in Nodes \ {n}
  BY TwoNodes
<1>2. /\ ex'[p] = ex[p] /\ ck'[p] = ck[p] /\ main'[p] = main[p]
      /\ round'[p] = round[p] /\ polling'[p] = polling[p] /\ sent'[p] = sent[p]
  BY <1>1 DEF Others, PeerFrame
<1> HIDE DEF p
<1>3. Said(p)' = Said(p)
  BY <1>2, SaidIs, SaidIsNext
<1>4. Announced(p)' <=> Announced(p)
  BY <1>2 DEF Announced
<1>5. AnnouncedRounds(p)' = AnnouncedRounds(p)
  BY <1>2 DEF AnnouncedRounds, Announced
<1>6. SinceSync(p)' = SinceSync(p)
  BY <1>2 DEF SinceSync
<1>7. SaidHere(p)' = SaidHere(p)
  BY <1>2, <1>3, <1>4 DEF SaidHere, Bit
<1>8. PastPoll(p)' <=> PastPoll(p)
  BY <1>2, <1>4 DEF PastPoll
<1>9. QED
  BY <1>3, <1>5, <1>6, <1>7, <1>8 DEF p

\* The message that n takes is the last SYNC of its peer.
TakesLastSync(n) ==
  /\ ring[n] # <<>> /\ ring'[n] = Tail(ring[n])
  /\ UNCHANGED mainOut /\ UNCHANGED flexusOut
  /\ IsSyncOf(Head(ring[n]), AnnouncedRounds(Peer(n)) - 1)

LEMMA BoundedAfter ==
  ASSUME PaysBase, NEW n \in Nodes, NEW u, NEW s \in Seq(Message), Speaks(n, u, s), Others(n),
         PeerFrame(n), sent'[n] <= MaxPackets, Behind(n)',
         LastSyncRead(Peer(n))' => LastSyncRead(Peer(n)) \/ TakesLastSync(n),
         finished'[n] => Unsent(n)' <= SaidHere(n)',
         round'[Master] = round'[Follower] /\ (\A m \in Nodes : PastPoll(m)') =>
           \E m \in Nodes : Unread(m)' <= SaidHere(m)'
  PROVE  Bounded'
<1> DEFINE p == Peer(n)
<1>0. /\ p \in Nodes \ {n} /\ Peer(p) = n /\ (\A m \in Nodes : m = n \/ m = p)
      /\ TypeOK /\ TypeOK' /\ (\A m \in Nodes : sent[m] <= MaxPackets /\ Behind(m)) /\ MetInv
  BY TwoNodes DEF PaysBase, BlockBase, Bounded
<1>1. Behind(p)'
  BY <1>0, PeerSame, PeersBehind DEF TakesLastSync
<1>2. sent'[p] <= MaxPackets
  BY <1>0 DEF PeerFrame
<1>3. finished'[p] => Unsent(p)' <= SaidHere(p)'
  <2>1. Unsent(p)' = Unsent(p)
    BY <1>0, SpokenUnread
  <2>2. SaidHere(p)' = SaidHere(p) /\ finished'[p] = finished[p]
    BY <1>0, PeerSame DEF PeerFrame
  <2>3. finished[p] => Unsent(p) <= SaidHere(p)
    BY <1>0 DEF MetInv
  <2> HIDE DEF p
  <2>4. QED
    BY <2>1, <2>2, <2>3
<1>4. \A m \in Nodes : Behind(m)' /\ sent'[m] <= MaxPackets
  BY <1>0, <1>1, <1>2
<1>5. \A m \in Nodes : finished'[m] => Unsent(m)' <= SaidHere(m)'
  BY <1>0, <1>3
<1>6. MetInv'
  BY <1>5 DEF MetInv
<1>7. QED
  BY <1>4, <1>6 DEF Bounded

\* n accounts for what it says, at a boundary too.
LEMMA HerePays ==
  ASSUME TypeOK, TypeOK', NEW n \in Nodes, NEW s \in Seq(Message), NEW k \in Nat,
         Said(n)' + k >= Said(n) + Len(s),
         Bit(Announced(n)') + sent'[n] >= Bit(Announced(n)) + sent[n] + k
  PROVE  SaidHere(n)' >= SaidHere(n) + Len(s)
<1> DEFINE a == Bit(Announced(n))
           b == Bit(Announced(n)')
           c == sent[n]
           d == sent'[n]
           e == Said(n)
           f == Said(n)'
           l == Len(s)
<1>1. /\ SaidHere(n) = a + c + e /\ SaidHere(n)' = b + d + f
  BY DEF SaidHere, Bit
<1>2. /\ a \in Nat /\ b \in Nat /\ c \in Nat /\ d \in Nat
      /\ e \in Nat /\ f \in Nat /\ l \in Nat
  BY BitNat, LengthNat, SaidIsNat DEF TypeOK
<1>3. b + d >= a + c + k
  OBVIOUS
<1>4. f + k >= e + l
  OBVIOUS
<1> HIDE DEF a, b, c, d, e, f, l
<1>5. b + d + f >= a + c + e + l
  BY <1>2, <1>3, <1>4
<1>6. QED
  BY <1>1, <1>5 DEF l

LEMMA MetAfter ==
  ASSUME PaysBase, NEW n \in Nodes, NEW u, NEW s \in Seq(Message), Speaks(n, u, s), Others(n),
         PeerFrame(n), SaidHere(n)' >= SaidHere(n) + Len(s)
  PROVE  /\ finished[n] => Unsent(n)' <= SaidHere(n)'
         /\ UNCHANGED round /\ (PastPoll(n)' => PastPoll(n)) =>
              (round'[Master] = round'[Follower] /\ (\A m \in Nodes : PastPoll(m)') =>
                 \E m \in Nodes : Unread(m)' <= SaidHere(m)')
<1> DEFINE p == Peer(n)
<1>0. /\ p \in Nodes \ {n} /\ Peer(p) = n /\ (\A m \in Nodes : m = n \/ m = p)
      /\ TypeOK /\ TypeOK' /\ MetInv
  BY TwoNodes DEF PaysBase, BlockBase, Bounded
<1>1. /\ Unsent(n)' <= Unsent(n) + Len(s) /\ Unread(n)' <= Unread(n) + Len(s)
      /\ Unread(p)' <= Unread(p)
  BY <1>0, SpokenUnread
<1>2. /\ \A m \in Nodes : /\ Unsent(m) \in Nat /\ Unread(m) \in Nat /\ SaidHere(m) \in Nat
                          /\ Unsent(m)' \in Nat /\ Unread(m)' \in Nat /\ SaidHere(m)' \in Nat
      /\ Len(s) \in Nat
  BY <1>0, UnreadNat, UnreadNatNext, SinceNat, SinceNatNext, LengthNat
<1>3. SaidHere(p)' = SaidHere(p) /\ (PastPoll(p)' <=> PastPoll(p))
  BY PeerSame
<1>4. ASSUME finished[n] PROVE Unsent(n)' <= SaidHere(n)'
  <2>1. Unsent(n) <= SaidHere(n)
    BY <1>0, <1>4 DEF MetInv
  <2>2. QED
    BY <1>1, <1>2, <2>1
<1>5. ASSUME UNCHANGED round, PastPoll(n)' => PastPoll(n),
             round'[Master] = round'[Follower], \A m \in Nodes : PastPoll(m)'
      PROVE  \E m \in Nodes : Unread(m)' <= SaidHere(m)'
  <2>1. round[Master] = round[Follower] /\ \A m \in Nodes : PastPoll(m)
    <3>1. PastPoll(n) /\ PastPoll(p)
      BY <1>0, <1>3, <1>5
    <3>2. QED
      BY <1>0, <1>5, <3>1
  <2>2. PICK m \in Nodes : Unread(m) <= SaidHere(m)
    BY <1>0, <2>1 DEF MetInv
  <2>3. CASE m = n
    <3>1. Unread(n) <= SaidHere(n)
      BY <2>2, <2>3
    <3>2. Unread(n)' <= SaidHere(n)'
      BY <1>1, <1>2, <3>1
    <3>3. QED
      BY <3>2
  <2>4. CASE m = p
    <3>1. Unread(p) <= SaidHere(p)
      BY <2>2, <2>4
    <3>2. Unread(p)' <= SaidHere(p)' /\ p \in Nodes
      <4>1. /\ Unread(p) \in Nat /\ Unread(p)' \in Nat /\ SaidHere(p) \in Nat
            /\ Unread(p)' <= Unread(p) /\ SaidHere(p)' = SaidHere(p) /\ p \in Nodes
        BY <1>0, <1>1, <1>2, <1>3
      <4> HIDE DEF p
      <4>2. QED
        BY <3>1, <4>1
    <3>3. QED
      BY <3>2
  <2>5. QED
    BY <1>0, <2>3, <2>4
<1>6. QED
  BY <1>4, <1>5

-----------------------------------------------------------------------------
(* Every step keeps both bounds. *)

LEMMA TurnSays ==
  ASSUME PaysBase, NEW n \in Nodes, NEW u, NEW s, NEW k, Turn(n, u, s, k)
  PROVE  /\ Speaks(n, u, s) /\ s \in Seq(Message) /\ Others(n)
         /\ Said(n)' + k >= Said(n) + Len(s)
         /\ NoSync(s) \/ (main[n] = "notify" /\ main'[n] = "armed")
         /\ TypeOK /\ TypeOK' /\ FlexusSendsNone(n) /\ Behind(n)
         /\ sent[n] \in Nat /\ sent[n] <= MaxPackets
BY DEF Turn, PaysBase, Bounded, BlockBase, SyncInv, SendingInv, TypeOK

\* No round is announced or passed, and what is said is accounted for.
LEMMA PlainPays ==
  ASSUME PaysBase, NEW n \in Nodes, NEW u, NEW s, NEW k \in Nat, Turn(n, u, s, k), NoSync(s),
         PeerFrame(n), UNCHANGED round, finished'[n] => finished[n],
         Announced(n)' <=> Announced(n), PastPoll(n)' => PastPoll(n),
         main'[n] = "notify" <=> main[n] = "notify",
         sent'[n] = sent[n] + k, sent'[n] <= MaxPackets, k = 0 \/ main[n] # "notify",
         LastSyncRead(n)' => LastSyncRead(n),
         LastSyncRead(Peer(n))' => LastSyncRead(Peer(n)) \/ TakesLastSync(n)
  PROVE  Bounded'
<1>0. /\ Speaks(n, u, s) /\ s \in Seq(Message) /\ Others(n) /\ Said(n)' + k >= Said(n) + Len(s)
      /\ TypeOK /\ TypeOK' /\ FlexusSendsNone(n) /\ Behind(n) /\ sent[n] \in Nat
  BY TurnSays
<1>1. AnnouncedRounds(n)' = AnnouncedRounds(n)
  BY DEF AnnouncedRounds
<1>2. SinceSync(n)' >= SinceSync(n) + k
  <2>1. CASE main[n] = "notify"
    BY <2>1, BoundAssumption DEF SinceSync
  <2>2. CASE main[n] # "notify"
    BY <1>0, <2>2 DEF SinceSync
  <2>3. QED
    BY <2>1, <2>2
<1>3. Behind(n)'
  BY <1>0, <1>1, <1>2, OwnBehind
<1>4. Bit(Announced(n)') + sent'[n] >= Bit(Announced(n)) + sent[n] + k
  <2>1. Bit(Announced(n)') = Bit(Announced(n)) /\ Bit(Announced(n)) \in Nat
    BY BitNat DEF Bit
  <2>2. QED
    BY <1>0, <2>1
<1>5. SaidHere(n)' >= SaidHere(n) + Len(s)
  BY <1>0, <1>4, HerePays
<1>6. /\ finished[n] => Unsent(n)' <= SaidHere(n)'
      /\ round'[Master] = round'[Follower] /\ (\A m \in Nodes : PastPoll(m)') =>
           \E m \in Nodes : Unread(m)' <= SaidHere(m)'
  BY <1>0, <1>5, MetAfter
<1>7. QED
  BY <1>0, <1>3, <1>6, BoundedAfter

LEMMA SameReads ==
  ASSUME NEW m, UNCHANGED synced, AnnouncedRounds(m)' = AnnouncedRounds(m)
  PROVE  LastSyncRead(m)' <=> LastSyncRead(m)
BY DEF LastSyncRead

LEMMA StayPays ==
  ASSUME PaysBase, NEW n \in Nodes, StayTurn(n) PROVE Bounded'
<1>1. PICK u, s : Turn(n, u, s, 0)
  BY DEF StayTurn
<1>2. /\ UNCHANGED round /\ UNCHANGED finished /\ UNCHANGED synced /\ UNCHANGED sent
      /\ \A m \in Nodes \ {n} : polling'[m] = polling[m]
      /\ polling'[n] = polling[n] \/ main[n] # "notify"
  BY DEF StayTurn, Stays
<1>3. /\ main'[n] = "notify" <=> main[n] = "notify"
      /\ main[n] \in {"setup", "run"} <=> main'[n] \in {"setup", "run"}
  BY DEF StayTurn, Stays
<1>4. (Announced(n)' <=> Announced(n)) /\ (PastPoll(n)' => PastPoll(n))
  <2>1. Announced(n)' <=> Announced(n)
    BY <1>3 DEF Announced
  <2>2. QED
    BY <1>2, <1>3, <2>1 DEF PastPoll
<1>5. PeerFrame(n) /\ 0 \in Nat /\ TypeOK
  BY <1>2 DEF PeerFrame, PaysBase, BlockBase
<1>6. Others(n) /\ NoSync(s) /\ sent[n] \in Nat /\ sent[n] <= MaxPackets
  BY <1>1, <1>3, TurnSays
<1>7. AnnouncedRounds(n)' = AnnouncedRounds(n)
  BY <1>2, <1>4 DEF AnnouncedRounds
<1>8. AnnouncedRounds(Peer(n))' = AnnouncedRounds(Peer(n))
  BY <1>5, <1>6, PeerSame
<1>9. sent'[n] = sent[n] + 0 /\ sent'[n] <= MaxPackets
  BY <1>2, <1>6
<1>10. QED
  BY <1>1, <1>2, <1>3, <1>4, <1>5, <1>6, <1>7, <1>8, <1>9, SameReads, PlainPays

\* pdes_net_send: one of the packets of the quantum.
LEMMA SendPays ==
  ASSUME PaysBase, NEW n \in Nodes, SendPacket(n) PROVE Bounded'
<1>0. BlockBase /\ TypeOK /\ 1 \in Nat /\ sent[n] \in Nat
  BY DEF PaysBase, BlockBase, TypeOK
<1>1. Turn(n, "none", <<Packet(n)>>, 1)
  BY <1>0, SendPacketTurn
<1>2. /\ UNCHANGED round /\ UNCHANGED finished /\ UNCHANGED synced /\ UNCHANGED main
      /\ UNCHANGED polling /\ sent' = [sent EXCEPT ![n] = sent[n] + 1]
      /\ main[n] \in {"run", "armed"} /\ sent[n] < MaxPackets
  BY DEF SendPacket, ctl
<1>3. sent'[n] = sent[n] + 1 /\ sent'[n] <= MaxPackets
  BY <1>0, <1>2, BoundAssumption DEF TypeOK
<1>4. PeerFrame(n)
  BY <1>0, <1>2 DEF PeerFrame, TypeOK
<1>5. (Announced(n)' <=> Announced(n)) /\ (PastPoll(n)' <=> PastPoll(n))
  BY <1>2 DEF Announced, PastPoll
<1>6. AnnouncedRounds(n)' = AnnouncedRounds(n)
  BY <1>2, <1>5 DEF AnnouncedRounds
<1>7. Others(n) /\ NoSync(<<Packet(n)>>)
  BY <1>1, <1>2, TurnSays
<1>8. AnnouncedRounds(Peer(n))' = AnnouncedRounds(Peer(n))
  BY <1>4, <1>7, PeerSame
<1>9. QED
  BY <1>0, <1>1, <1>2, <1>3, <1>4, <1>5, <1>6, <1>7, <1>8, SameReads, PlainPays

\* wwt_recivied_callback: the count of a round is new only if it was the last
\* round its peer has announced.
LEMMA RecvSyncPays ==
  ASSUME PaysBase, KeysSuffice, NEW n \in Nodes, RecvSync(n) PROVE Bounded'
<1> DEFINE p == Peer(n)
           q == Head(ring[n]).val
<1>0. BlockBase /\ TypeOK /\ 0 \in Nat /\ p \in Nodes /\ Peer(p) = n /\ p # n /\ SyncInv
  BY TwoNodes DEF PaysBase, BlockBase
<1>1. PICK u : Turn(n, u, <<>>, 0)
  BY <1>0, ReceiveTurn
<1>2. /\ UNCHANGED round /\ UNCHANGED finished /\ UNCHANGED sent /\ UNCHANGED main
      /\ UNCHANGED polling /\ UNCHANGED mainOut /\ UNCHANGED flexusOut
      /\ ring[n] # <<>> /\ ring' = [ring EXCEPT ![n] = Tail(ring[n])] /\ Head(ring[n]).type = "SYNC"
      /\ UNCHANGED synced \/ synced' = [synced EXCEPT ![n] = synced[n] \cup {Key(q)}]
  BY DEF RecvSync, Receiving
<1>3. ring[n] \in Seq(Message) /\ ring'[n] = Tail(ring[n]) /\ 1 \in DOMAIN ring[n]
      /\ ring[n][1] = Head(ring[n]) /\ IsSync(Head(ring[n]))
  BY <1>0, <1>2, LengthTail DEF TypeOK, IsSync
<1>4. q < AnnouncedRounds(p) /\ q \in Nat
  <2>1. Head(ring[n]) \in Message
    BY <1>2, <1>3
  <2>2. QED
    BY <1>0, <1>3, <2>1 DEF SyncInv, RingInv, RingAnnounced, Message
<1>5. Key(q) = q
  <2>1. AnnouncedRounds(p) <= MaxRound + 1 /\ AnnouncedRounds(p) \in Nat
    BY <1>0, SinceNat DEF SyncInv, BoundInv
  <2> DEFINE r == AnnouncedRounds(p)
  <2>2. r <= MaxRound + 1 /\ r \in Nat /\ q < r /\ q \in Nat
    BY <1>4, <2>1
  <2> HIDE DEF r, q
  <2>3. q \in 0 .. MaxRound
    BY <2>2, BoundAssumption
  <2>4. QED
    BY <2>3, KeyId
<1>6. /\ \A r : r \in synced'[n] => r \in synced[n] \/ r = q
      /\ synced'[p] = synced[p]
  BY <1>0, <1>2, <1>5 DEF TypeOK
<1>7. PeerFrame(n)
  BY <1>2 DEF PeerFrame
<1>8. /\ (Announced(n)' <=> Announced(n)) /\ (PastPoll(n)' <=> PastPoll(n))
      /\ AnnouncedRounds(n)' = AnnouncedRounds(n)
  BY <1>2 DEF Announced, PastPoll, AnnouncedRounds
<1>9. Others(n) /\ NoSync(<<>>) /\ sent[n] \in Nat /\ sent[n] <= MaxPackets
  BY <1>1, Silence, TurnSays
<1>10. AnnouncedRounds(p)' = AnnouncedRounds(p)
  BY <1>7, <1>9, PeerSame
<1>11. LastSyncRead(n)' => LastSyncRead(n)
  BY <1>6, <1>8 DEF LastSyncRead
<1>12. LastSyncRead(p)' => LastSyncRead(p) \/ TakesLastSync(n)
  <2>1. LastSyncRead(p)' => LastSyncRead(p) \/ AnnouncedRounds(p) - 1 = q
    BY <1>0, <1>6, <1>10 DEF LastSyncRead
  <2>2. AnnouncedRounds(p) - 1 = q => IsSyncOf(Head(ring[n]), AnnouncedRounds(p) - 1)
    BY <1>3 DEF IsSyncOf
  <2>3. AnnouncedRounds(p) - 1 = q => TakesLastSync(n)
    BY <1>2, <1>3, <2>2 DEF TakesLastSync
  <2>4. QED
    BY <2>1, <2>3
<1>13. sent'[n] = sent[n] + 0 /\ sent'[n] <= MaxPackets
  BY <1>2, <1>9
<1>14. QED
  BY <1>0, <1>1, <1>2, <1>7, <1>8, <1>9, <1>11, <1>12, <1>13, PlainPays

\* A step that says nothing, of a process that announces no round.
LEMMA SilentPays ==
  ASSUME PaysBase, NEW n \in Nodes, NEW u, Turn(n, u, <<>>, 0), PeerFrame(n), UNCHANGED synced,
         AnnouncedRounds(n)' = AnnouncedRounds(n), SinceSync(n)' >= SinceSync(n),
         sent'[n] <= MaxPackets,
         finished'[n] => Unsent(n)' <= SaidHere(n)',
         round'[Master] = round'[Follower] /\ (\A m \in Nodes : PastPoll(m)') =>
           \E m \in Nodes : Unread(m)' <= SaidHere(m)'
  PROVE  Bounded'
<1>0. /\ Speaks(n, u, <<>>) /\ <<>> \in Seq(Message) /\ Others(n)
      /\ Said(n)' + 0 >= Said(n) + Len(<<>>) /\ NoSync(<<>>)
      /\ TypeOK /\ TypeOK' /\ FlexusSendsNone(n) /\ Behind(n) /\ 0 \in Nat
  BY TurnSays, Silence
<1>1. SinceSync(n)' >= SinceSync(n) + 0
  BY <1>0, SinceNat
<1>2. LastSyncRead(n)' => LastSyncRead(n)
  BY SameReads
<1>3. Behind(n)'
  BY <1>0, <1>1, <1>2, OwnBehind
<1>4. AnnouncedRounds(Peer(n))' = AnnouncedRounds(Peer(n))
  BY <1>0, PeerSame
<1>5. LastSyncRead(Peer(n))' => LastSyncRead(Peer(n)) \/ TakesLastSync(n)
  BY <1>4, SameReads
<1>6. QED
  BY <1>0, <1>3, <1>5, BoundedAfter

\* pdes_engine_poll returns: the ring is empty, and what the peer has not sent it
\* has said at this boundary.
LEMMA PollPays ==
  ASSUME PaysBase, NEW n \in Nodes, PollDone(n) PROVE Bounded'
<1> DEFINE p == Peer(n)
<1>0. /\ BlockBase /\ TypeOK /\ TypeOK' /\ 0 \in Nat /\ p \in Nodes /\ Peer(p) = n /\ p # n
      /\ SyncInv /\ MetInv
  BY TwoNodes DEF PaysBase, BlockBase, Bounded
<1>1. Turn(n, "none", <<>>, 0)
  BY <1>0, MoveTurn
<1>2. /\ UNCHANGED round /\ UNCHANGED finished /\ UNCHANGED synced /\ UNCHANGED main
      /\ UNCHANGED sent /\ polling' = [polling EXCEPT ![n] = FALSE] /\ UNCHANGED wire
      /\ ring[n] = <<>>
  BY DEF PollDone, wwt
<1>3. PeerFrame(n)
  BY <1>0, <1>2 DEF PeerFrame, TypeOK
<1>4. /\ Announced(n)' <=> Announced(n)
      /\ AnnouncedRounds(n)' = AnnouncedRounds(n) /\ SinceSync(n)' = SinceSync(n)
  BY <1>2 DEF Announced, AnnouncedRounds, SinceSync
<1>5. /\ Others(n) /\ Speaks(n, "none", <<>>) /\ sent[n] \in Nat /\ sent[n] <= MaxPackets
      /\ Said(n)' + 0 >= Said(n) + Len(<<>>) /\ <<>> \in Seq(Message)
  BY <1>1, TurnSays
<1>6. Bit(Announced(n)') + sent'[n] >= Bit(Announced(n)) + sent[n] + 0
  <2>1. Bit(Announced(n)') = Bit(Announced(n)) /\ Bit(Announced(n)) \in Nat
    BY <1>4, BitNat DEF Bit
  <2>2. QED
    BY <1>2, <1>5, <2>1
<1>7. SaidHere(n)' >= SaidHere(n) + Len(<<>>)
  BY <1>0, <1>5, <1>6, HerePays
<1>8. finished'[n] => Unsent(n)' <= SaidHere(n)'
  BY <1>2, <1>3, <1>5, <1>7, MetAfter
<1>9. ASSUME round'[Master] = round'[Follower], \A m \in Nodes : PastPoll(m)'
      PROVE  \E m \in Nodes : Unread(m)' <= SaidHere(m)'
  <2>1. PastPoll(p)
    <3>1. PastPoll(p)' <=> PastPoll(p)
      BY <1>3, <1>5, PeerSame
    <3>2. QED
      BY <1>0, <1>9, <3>1
  <2>2. finished[p]
    BY <1>0, <2>1 DEF SyncInv, FinishedInv, PastPoll, Announced
  <2>3. Unsent(p) <= SaidHere(p)
    BY <1>0, <2>2 DEF MetInv
  <2>4. Unsent(p)' = Unsent(p) /\ Unread(p)' = Unsent(p)' /\ SaidHere(p)' = SaidHere(p)
    <3>1. Unsent(p)' = Unsent(p)
      BY <1>2 DEF Unsent, wire
    <3>2. ring'[n] = <<>>
      BY <1>2 DEF wire
    <3>3. Unread(p)' = Len(<<>>) + Unsent(p)' /\ Unsent(p)' \in Nat
      BY <1>0, <3>2, UnreadNatNext
    <3>4. SaidHere(p)' = SaidHere(p)
      BY <1>3, <1>5, PeerSame
    <3> HIDE DEF p
    <3>5. QED
      BY <3>1, <3>3, <3>4, Silence
  <2>5. Unread(p)' <= SaidHere(p)'
    BY <2>3, <2>4
  <2>6. QED
    BY <1>0, <2>5
<1>10. sent'[n] <= MaxPackets /\ SinceSync(n)' >= SinceSync(n)
  BY <1>0, <1>2, <1>4, <1>5, SinceNat
<1>11. QED
  BY <1>1, <1>2, <1>3, <1>4, <1>8, <1>9, <1>10, SilentPays

\* quanta_sync begins: pdes_pause has waited for Flexus, so nothing is unsent.
LEMMA QuantaPays ==
  ASSUME PaysBase, NEW n \in Nodes, QuantaSync(n) PROVE Bounded'
<1>0. /\ BlockBase /\ TypeOK /\ TypeOK' /\ ShouldSync /\ PauseWaits
  BY DEF PaysBase, BlockBase, ExitBase
<1>1. Turn(n, "none", <<>>, 0)
  BY <1>0, MoveTurn
<1>2. /\ UNCHANGED round /\ UNCHANGED synced /\ UNCHANGED wire
      /\ finished' = [finished EXCEPT ![n] = TRUE] /\ sent' = [sent EXCEPT ![n] = 0]
      /\ main[n] = "run" /\ main' = [main EXCEPT ![n] = "notify"]
      /\ polling' = [polling EXCEPT ![n] = TRUE]
      /\ mainOut[n] = <<>> /\ flexusOut[n] = <<>>
  BY <1>0 DEF QuantaSync, Pause, FlexusQuiet, InEventLoop, MainReady
<1>3. PeerFrame(n)
  BY <1>0, <1>2 DEF PeerFrame, TypeOK
<1>4. /\ main'[n] = "notify" /\ polling'[n] = TRUE /\ sent'[n] = 0
  BY <1>0, <1>2 DEF TypeOK
<1>5. ~Announced(n) /\ ~Announced(n)' /\ ~PastPoll(n)'
  BY <1>2, <1>4 DEF Announced, PastPoll
<1>6. AnnouncedRounds(n)' = AnnouncedRounds(n)
  BY <1>2, <1>5 DEF AnnouncedRounds
<1>7. SinceSync(n)' >= SinceSync(n) /\ sent'[n] <= MaxPackets
  <2>1. SinceSync(n)' = MaxPackets /\ SinceSync(n) = sent[n]
    BY <1>2, <1>4 DEF SinceSync
  <2>2. sent[n] <= MaxPackets
    BY <1>1, TurnSays
  <2>3. QED
    BY <1>4, <2>1, <2>2, BoundAssumption
<1>8. Unsent(n)' <= SaidHere(n)'
  <2>1. mainOut'[n] = <<>> /\ flexusOut'[n] = <<>>
    BY <1>2 DEF wire
  <2>2. Unsent(n)' = Len(<<>>) + Len(<<>>) /\ Unsent(n)' \in Nat
    BY <1>0, <2>1, UnreadNatNext
  <2>3. Unsent(n)' = 0
    BY <2>2, Silence
  <2>4. QED
    BY <1>0, <2>3, SinceNatNext
<1>9. QED
  BY <1>1, <1>2, <1>3, <1>5, <1>6, <1>7, <1>8, SilentPays

\* The next quantum begins: the rounds announced are those announced before.
LEMMA AdvancePays ==
  ASSUME PaysBase, NEW n \in Nodes, Advance(n) PROVE Bounded'
<1>0. BlockBase /\ TypeOK /\ TypeOK'
  BY DEF PaysBase, BlockBase
<1>1. Turn(n, "none", <<>>, 0)
  BY <1>0, MoveTurn
<1>2. /\ UNCHANGED synced /\ UNCHANGED polling /\ UNCHANGED sent
      /\ finished' = [finished EXCEPT ![n] = FALSE] /\ round' = [round EXCEPT ![n] = @ + 1]
      /\ main[n] = "advance" /\ main' = [main EXCEPT ![n] = "run"]
  BY DEF Advance, MainAt
<1>3. PeerFrame(n)
  BY <1>0, <1>2 DEF PeerFrame, TypeOK
<1>4. main'[n] = "run" /\ finished'[n] = FALSE /\ round'[n] = round[n] + 1
  BY <1>0, <1>2 DEF TypeOK
<1>5. Announced(n) /\ ~Announced(n)' /\ ~PastPoll(n)'
  BY <1>2, <1>4 DEF Announced, PastPoll
<1>6. AnnouncedRounds(n)' = AnnouncedRounds(n)
  BY <1>4, <1>5 DEF AnnouncedRounds
<1>7. SinceSync(n)' >= SinceSync(n) /\ sent'[n] <= MaxPackets
  <2>1. SinceSync(n)' = sent[n] /\ SinceSync(n) = sent[n] /\ sent'[n] = sent[n]
    BY <1>2, <1>4 DEF SinceSync
  <2>2. sent[n] <= MaxPackets /\ sent[n] \in Nat
    BY <1>1, TurnSays
  <2>3. QED
    BY <2>1, <2>2
<1>8. QED
  BY <1>1, <1>2, <1>3, <1>4, <1>5, <1>6, <1>7, SilentPays

\* The SYNC goes last, after DRAIN_START, and nothing is behind it.
LEMMA NotifyBehind ==
  ASSUME PaysBase, NEW n \in Nodes, NotifyAndSync(n) PROVE Behind(n)'
<1> DEFINE d == DrainStart(n)
           y == <<Msg("SYNC", round[n])>>
           p == Peer(n)
           h == SinceSync(n)' + Said(n)'
<1>0. /\ TypeOK /\ TypeOK' /\ SyncInv /\ ShouldSync /\ PauseWaits /\ ExitBase /\ RequestOnce
      /\ p \in Nodes /\ Peer(p) = n /\ p # n /\ round[n] \in Nat
  BY TwoNodes DEF PaysBase, BlockBase, ExitBase, TypeOK
<1>1. /\ UNCHANGED round /\ UNCHANGED synced /\ UNCHANGED ring /\ UNCHANGED flexusOut
      /\ main[n] = "notify" /\ main' = [main EXCEPT ![n] = "armed"]
      /\ mainOut' = [mainOut EXCEPT ![n] = d \o y]
  BY <1>0 DEF NotifyAndSync, MainAt, wwt, SyncMessage
<1>2. main'[n] = "armed" /\ mainOut'[n] = d \o y
  BY <1>0, <1>1 DEF TypeOK
<1>3. AnnouncedRounds(n) = round[n] /\ AnnouncedRounds(n)' = round[n] + 1
  BY <1>1, <1>2 DEF AnnouncedRounds, Announced
<1>4. flexusOut[n] = <<>>
  BY <1>0, <1>1, Standing DEF FlexusQuiet
<1>5. h \in Nat
  BY <1>0, SinceNatNext
<1>6. ~LastSyncRead(n)'
  <2>1. round[n] \notin synced[p]
    <3>1. \A q \in synced[p] : q < AnnouncedRounds(n)
      BY <1>0 DEF SyncInv, CountInv
    <3>2. QED
      BY <1>0, <1>3, <3>1
  <2>2. AnnouncedRounds(n)' # 0 /\ AnnouncedRounds(n)' - 1 = round[n]
    BY <1>0, <1>3
  <2>3. LastSyncRead(n)' <=> AnnouncedRounds(n)' = 0 \/ AnnouncedRounds(n)' - 1 \in synced'[p]
    BY DEF LastSyncRead
  <2> HIDE DEF p
  <2>4. AnnouncedRounds(n)' - 1 \notin synced'[p]
    BY <1>1, <2>1, <2>2
  <2>5. QED
    BY <2>2, <2>3, <2>4
<1>7. NowBehind(n, round[n], h)
  <2>0. d \in Seq(Message) /\ y \in Seq(Message) /\ Len(y) = 1 /\ NoSync(d) /\ d \o y \in Seq(Message)
    <3>1. d \in Seq(Message) /\ NoSync(d)
      BY <1>0, DrainLine
    <3>2. "SYNC" \in MsgTypes
      BY DEF MsgTypes
    <3>3. y \in Seq(Message) /\ Len(y) = 1
      BY <1>0, <3>2, OneLine
    <3> HIDE DEF d, y
    <3>4. QED
      BY <3>1, <3>3, JoinLength
  <2>1. ASSUME NEW i \in DOMAIN (d \o y), IsSync((d \o y)[i])
        PROVE  Len(d \o y) - i + Len(<<>>) <= h
    <3>1. i - Len(d) \in DOMAIN y /\ i \in Int
      BY <2>0, <2>1, JoinElements DEF NoSync
    <3>2. i - Len(d) = 1
      BY <2>0, <3>1
    <3>3. Len(d \o y) = Len(d) + 1 /\ Len(d) \in Nat
      BY <2>0, JoinLength
    <3> HIDE DEF d, y, h
    <3>4. QED
      BY <1>5, <3>1, <3>2, <3>3, Silence
  <2>2. \A i \in DOMAIN ring[p] : ~IsSyncOf(ring[p][i], round[n])
    <3>1. \A i \in DOMAIN ring[p] : IsSync(ring[p][i]) => ring[p][i].val < AnnouncedRounds(n)
      BY <1>0 DEF SyncInv, RingInv, RingAnnounced
    <3>2. QED
      BY <1>0, <1>3, <3>1 DEF IsSyncOf
  <2> HIDE DEF d, y, h
  <2>3. BehindIn(d \o y, <<>>, ring[p], round[n], h)
    BY <2>1, <2>2 DEF BehindIn
  <2>4. QED
    BY <1>1, <1>2, <1>4, <2>3 DEF NowBehind
<1>8. AnnouncedRounds(n)' - 1 = round[n]
  BY <1>0, <1>3
<1>9. QED
  BY <1>6, <1>7, <1>8, BehindIs

LEMMA NotifyPays ==
  ASSUME PaysBase, NEW n \in Nodes, NotifyAndSync(n) PROVE Bounded'
<1> DEFINE s == DrainStart(n) \o SyncMessage(n)
<1>0. BlockBase /\ TypeOK /\ TypeOK' /\ ShouldSync /\ SyncInv
  BY DEF PaysBase, BlockBase, ExitBase
<1>1. Turn(n, "none", s, 1)
  BY <1>0, NotifyTurn DEF Bit
<1>2. /\ UNCHANGED round /\ UNCHANGED synced /\ UNCHANGED sent /\ UNCHANGED polling
      /\ UNCHANGED finished /\ main[n] = "notify" /\ ~polling[n]
      /\ main' = [main EXCEPT ![n] = "armed"]
  BY DEF NotifyAndSync, MainAt, wwt
<1>3. main'[n] = "armed"
  BY <1>0, <1>2 DEF TypeOK
<1>4. ~Announced(n) /\ Announced(n)' /\ PastPoll(n)
  BY <1>2, <1>3 DEF Announced, PastPoll
<1>5. PeerFrame(n)
  BY <1>2 DEF PeerFrame
<1> HIDE DEF s
<1>6. /\ Speaks(n, "none", s) /\ s \in Seq(Message) /\ Others(n) /\ Said(n)' + 1 >= Said(n) + Len(s)
      /\ sent[n] \in Nat /\ sent[n] <= MaxPackets /\ 1 \in Nat
  BY <1>1, TurnSays
<1>7. Bit(Announced(n)') + sent'[n] >= Bit(Announced(n)) + sent[n] + 1
  <2>1. Bit(Announced(n)') = 1 /\ Bit(Announced(n)) = 0
    BY <1>4 DEF Bit
  <2>2. QED
    BY <1>2, <1>6, <2>1
<1>8. SaidHere(n)' >= SaidHere(n) + Len(s)
  BY <1>0, <1>6, <1>7, HerePays
<1>9. /\ finished'[n] => Unsent(n)' <= SaidHere(n)'
      /\ round'[Master] = round'[Follower] /\ (\A m \in Nodes : PastPoll(m)') =>
           \E m \in Nodes : Unread(m)' <= SaidHere(m)'
  BY <1>2, <1>4, <1>5, <1>6, <1>8, MetAfter
<1>10. AnnouncedRounds(Peer(n))' = AnnouncedRounds(Peer(n))
  BY <1>5, <1>6, PeerSame
<1>11. LastSyncRead(Peer(n))' => LastSyncRead(Peer(n)) \/ TakesLastSync(n)
  BY <1>2, <1>10, SameReads
<1>12. Behind(n)'
  BY NotifyBehind
<1>13. sent'[n] <= MaxPackets
  BY <1>2, <1>6
<1>14. QED
  BY <1>5, <1>6, <1>9, <1>11, <1>12, <1>13, BoundedAfter

LEMMA BoundedStep ==
  ASSUME KeysSuffice, ShouldSync, PauseWaits, TimedInv, HandshakeInv, PermissionOnce, SpeechInv,
         Bounded, [Next]_vars
  PROVE  Bounded'
<1>0. PaysBase /\ BlockBase /\ BhInv /\ Master \in Nodes
  <2>1. TypeOK /\ SyncInv /\ BhInv /\ ClockInv
    BY DEF TimedInv, InductiveInv, SyncInv, TimeInv
  <2>2. TypeOK'
    BY <2>1, TypeStep
  <2>3. BlockBase /\ ExitBase
    BY <2>1, <2>2 DEF BlockBase, ExitBase, SpeechInv
  <2>4. QED
    BY <2>1, <2>3, TwoNodes DEF PaysBase
<1>1. CASE UNCHANGED vars
  BY <1>0, <1>1, StutterTurn, StayPays
<1>2. ASSUME NEW n \in Nodes,
             MainThread(n) \/ FlexusThread(n) \/ Tick(n) \/ SendPacket(n) \/ FinishInitiate(n)
      PROVE  Bounded'
  <2>1. StayTurn(n) \/ Marks(n)
    BY <1>0, <1>2, StaysOrMarks
  <2>2. QED
    BY <1>0, <2>1, StayPays, SendPays, QuantaPays, PollPays, NotifyPays, AdvancePays, RecvSyncPays
    DEF Marks
<1>3. QED
  BY <1>1, <1>2 DEF Next

LEMMA BoundedInitial == Init => Bounded
<1> SUFFICES ASSUME Init PROVE Bounded
  OBVIOUS
<1>1. /\ TypeOK
      /\ \A n \in Nodes : /\ ring[n] = <<>> /\ mainOut[n] = <<>> /\ flexusOut[n] = <<>>
                          /\ main[n] = "setup" /\ ~finished[n] /\ round[n] = 0 /\ sent[n] = 0
  BY InitType DEF Init, InitWWT, InitEngine
<1>2. MetInv
  <2>1. \A n \in Nodes : ~PastPoll(n)
    BY <1>1 DEF PastPoll, Announced
  <2>2. QED
    BY <1>1, <2>1, TwoNodes DEF MetInv
<1>3. ASSUME NEW n \in Nodes PROVE sent[n] <= MaxPackets /\ Behind(n)
  <2>1. sent[n] <= MaxPackets
    BY <1>1, BoundAssumption
  <2>2. Unread(n) = Len(<<>>) + (Len(<<>>) + Len(<<>>))
    BY <1>1, TwoNodes DEF Unread, Unsent
  <2>3. Unread(n) <= SinceSync(n) + Said(n)
    BY <1>1, <2>2, Silence, SinceNat
  <2>4. \A v, k : BehindIn(<<>>, <<>>, <<>>, v, k)
    BY DEF BehindIn
  <2>5. BehindIn(mainOut[n], flexusOut[n], ring[Peer(n)], AnnouncedRounds(n) - 1,
                 SinceSync(n) + Said(n))
    BY <1>1, <2>4, TwoNodes
  <2>6. QED
    BY <2>1, <2>3, <2>5 DEF Behind
<1>4. QED
  BY <1>2, <1>3 DEF Bounded

\* pdes-engine.c:104-137, 256-291, 459-484, pdes-checkpoint.c: each message of the
\* handshake and of the checkpoint is said once, whatever flexus_api.pause does,
\* with barriers and without.
THEOREM SpeechInductive == Spec => []SpeechInv
<1>1. Init => TypeOK /\ BhInv /\ SpeechInv
  BY InitType, SyncInitial, SpeechInitial DEF InductiveInv
<1>2. TypeOK /\ BhInv /\ SpeechInv /\ [Next]_vars => TypeOK' /\ BhInv' /\ SpeechInv'
  BY TypeStep, BhStep, SpeechStep
<1>3. QED
  BY <1>1, <1>2, PTL DEF Spec

\* pdes-communicator.c:172, pdes-wwt.c:320-349: what of each process can be unread
\* at once, in every reachable state.
THEOREM BlockInductive == ASSUME KeysSuffice PROVE Spec => []BlockInv
<1>1. CASE ~(ShouldSync /\ PauseWaits)
  <2>1. SpeechInv => BlockInv
    BY <1>1 DEF BlockInv, SpeechInv
  <2>2. QED
    BY <2>1, SpeechInductive, PTL
<1>2. CASE ShouldSync /\ PauseWaits
  <2>1. /\ TimedInv /\ HandshakeInv /\ OnceInv /\ SpeechInv /\ Bounded /\ [Next]_vars => Bounded'
        /\ SpeechInv /\ Bounded => BlockInv
    <3>1. OnceInv => PermissionOnce
      BY <1>2 DEF OnceInv
    <3>2. QED
      BY <1>2, <3>1, BoundedStep DEF BlockInv, SpeechInv, Bounded
  <2>2. Spec => []HandshakeInv
    BY <1>2, HandshakeInductive
  <2>3. QED
    BY <2>1, <2>2, BoundedInitial, TimedInductive, OnceInductive, SpeechInductive, PTL DEF Spec
<1>3. QED
  BY <1>1, <1>2

-----------------------------------------------------------------------------
(* A ring holds what can be unread. *)

\* One of the two has at most its SYNC and the packets of one quantum unread,
\* and what it has said of the handshake and the checkpoint.
LEMMA OneIsRead ==
  ASSUME SyncInv, Bounded, ShouldSync
  PROVE  \E n \in Nodes : Unread(n) <= MaxPackets + 1 + Said(n)
<1>0. TypeOK /\ MaxPackets \in Nat
  BY BoundAssumption DEF SyncInv
<1>1. ASSUME NEW n \in Nodes, AnnouncedRounds(n) <= round[Peer(n)]
      PROVE  Unread(n) <= MaxPackets + 1 + Said(n)
  <2>0. /\ Peer(n) \in Nodes /\ round[Peer(n)] \in Nat /\ AnnouncedRounds(n) \in Nat
        /\ Unread(n) \in Nat /\ SinceSync(n) \in Nat /\ Said(n) \in Nat
        /\ sent[n] <= MaxPackets /\ sent[n] \in Nat
    BY <1>0, TwoNodes, SinceNat, UnreadNat, SaidIsNat DEF TypeOK, Bounded
  <2>1. LastSyncRead(n)
    <3>1. CASE AnnouncedRounds(n) = 0
      BY <3>1 DEF LastSyncRead
    <3>2. CASE AnnouncedRounds(n) # 0
      <4>1. AnnouncedRounds(n) - 1 \in 0 .. round[Peer(n)] - 1
        BY <1>1, <2>0, <3>2
      <4>2. AnnouncedRounds(n) - 1 \in synced[Peer(n)]
        BY <2>0, <4>1 DEF SyncInv, CountInv
      <4>3. QED
        BY <4>2 DEF LastSyncRead
    <3>3. QED
      BY <3>1, <3>2
  <2>2. Unread(n) <= SinceSync(n) + Said(n)
    BY <2>1 DEF Bounded, Behind
  <2>3. SinceSync(n) <= MaxPackets
    BY <1>0, <2>0 DEF SinceSync
  <2>4. QED
    BY <1>0, <2>0, <2>2, <2>3
<1>2. ASSUME \A n \in Nodes : ~(AnnouncedRounds(n) <= round[Peer(n)])
      PROVE  \E n \in Nodes : Unread(n) <= MaxPackets + 1 + Said(n)
  <2>1. /\ round[Master] \in Nat /\ round[Follower] \in Nat
        /\ ~(AnnouncedRounds(Master) <= round[Follower])
        /\ ~(AnnouncedRounds(Follower) <= round[Master])
    BY <1>0, <1>2, TwoNodes DEF TypeOK
  <2>2. /\ round[Master] = round[Follower] /\ Announced(Master) /\ Announced(Follower)
    BY <2>1 DEF AnnouncedRounds
  <2>3. \A n \in Nodes : Announced(n) /\ PastPoll(n)
    BY <2>2, TwoNodes DEF PastPoll
  <2>4. PICK n \in Nodes : Unread(n) <= SaidHere(n)
    BY <2>2, <2>3 DEF Bounded, MetInv
  <2>5. SaidHere(n) = 1 + sent[n] + Said(n)
    BY <2>3 DEF SaidHere, Bit
  <2>6. /\ sent[n] <= MaxPackets /\ sent[n] \in Nat /\ Said(n) \in Nat /\ Unread(n) \in Nat
    BY <1>0, UnreadNat, SaidIsNat DEF TypeOK, Bounded
  <2>7. Unread(n) <= MaxPackets + 1 + Said(n)
    BY <1>0, <2>4, <2>5, <2>6
  <2>8. QED
    BY <2>7
<1>3. QED
  BY <1>1, <1>2

\* What a process says of the handshake and the checkpoint: PERMISSION or INTENT,
\* END; INIT_STEP or DRAIN_END, DRAIN_START.
LEMMA FewControls ==
  ASSUME SyncInv, SpeechInv, StopInv, NEW n \in Nodes PROVE Said(n) <= ControlMessages
<1> DEFINE a == Bit(IF n = Master THEN ex[n].permitted ELSE ex[n].intent)
           b == Bit(ex[n].endSent)
           c == Bit(IF n = Master THEN ck[n].saved # {} ELSE ck[n].signalled)
           d == Bit(ck[n].notified \/ ck[n].saved # {})
<1>0. Said(n) = (a + b) + (c + d)
  BY DEF Said, ExitSaid, CkptSaid
<1>1. /\ a \in Nat /\ b \in Nat /\ c \in Nat /\ d \in Nat
      /\ a <= 1 /\ b <= 1 /\ c <= 1 /\ d <= 1
  BY BitNat
<1>2. ASSUME InitNodes = {} PROVE c = 0 /\ d = 0
  <2>1. \A m \in Nodes : ~ck[m].signalled /\ (ck[m].notified => ck[m].needs)
    BY <1>2 DEF SpeechInv, RequestOnce
  <2>2. ~ck[Master].needs /\ ck[Master].saved = {} /\ ~ck[Master].notified
    BY <2>1, TwoNodes DEF SpeechInv, RequestOnce
  <2>3. ~Adopted
    BY <2>2 DEF SpeechInv, DrainOnce
  <2>4. ~ck[n].signalled /\ ~ck[n].needs /\ ck[n].saved = {} /\ ~ck[n].notified
    BY <2>1, <2>2, <2>3, TwoNodes DEF Adopted
  <2>5. QED
    BY <2>4 DEF Bit
<1>3. ASSUME InitNodes = {}, \A t \in StopTimes : ~(t <= MaxTime) PROVE a = 0 /\ b = 0
  <2>1. \A m \in Nodes : ~Reached(m)
    <3> SUFFICES ASSUME NEW m \in Nodes PROVE ~Reached(m)
      OBVIOUS
    <3>1. /\ stopAt[m] \in StopTimes /\ stopAt[m] \in Nat /\ now[m] \in Nat /\ now[m] <= MaxTime
      BY DEF SpeechInv, SpeaksAtStop, SyncInv, BoundInv, TypeOK
    <3>2. MaxTime \in Nat
      BY BoundAssumption, SizeAssumption DEF MaxTime
    <3>3. QED
      BY <1>3, <3>1, <3>2 DEF Reached
  <2>2. ~ex[n].permitted /\ ~ex[n].intent /\ ~ex[n].endSent
    <3>1. ~ex[n].permitted
      BY <1>3, <2>1 DEF StopInv, GrantInv, BothReached
    <3>2. QED
      BY <2>1, <3>1 DEF SpeechInv, SpeaksAtStop
  <2>3. QED
    BY <2>2 DEF Bit
<1> HIDE DEF a, b, c, d
<1>4. CASE InitNodes # {}
  <2>1. ControlMessages = 4
    BY <1>4 DEF ControlMessages
  <2>2. QED
    BY <1>0, <1>1, <2>1
<1>5. CASE InitNodes = {} /\ \E t \in StopTimes : t <= MaxTime
  <2>1. ControlMessages = 2
    BY <1>5 DEF ControlMessages
  <2>2. QED
    BY <1>0, <1>1, <1>2, <1>5, <2>1
<1>6. CASE InitNodes = {} /\ \A t \in StopTimes : ~(t <= MaxTime)
  <2>1. ControlMessages = 0
    BY <1>6 DEF ControlMessages
  <2>2. QED
    BY <1>0, <1>1, <1>2, <1>3, <1>6, <2>1
<1>7. QED
  BY <1>4, <1>5, <1>6

LEMMA BlockedHasUnread ==
  ASSUME TypeOK, NEW n \in Nodes, BlockedSending(n) PROVE Unread(n) >= RingCap + 1
<1> DEFINE x == Len(mainOut[n])
           y == Len(flexusOut[n])
           z == Len(ring[Peer(n)])
<1>1. /\ mainOut[n] \in Seq(Message) /\ mainOut[n] # <<>> /\ flexusOut[n] \in Seq(Message)
      /\ ring[Peer(n)] \in Seq(Message) /\ z >= RingCap
  BY TwoNodes DEF TypeOK, BlockedSending
<1>2. x \in Nat /\ y \in Nat /\ z \in Nat /\ x >= 1
  BY <1>1, LengthNat, LengthTail
<1>3. Unread(n) = z + (x + y) /\ z >= RingCap
  BY <1>1 DEF Unread, Unsent
<1> HIDE DEF x, y, z
<1>4. QED
  BY <1>2, <1>3, SizeAssumption

\* pdes-communicator.c:172: a process whose ring is full waits inside the send,
\* where it does not poll.  If a ring holds the packets of one quantum, a SYNC and
\* the messages of the handshake and the checkpoint, the two main threads never
\* both wait like that.
THEOREM NeverBothBlocked ==
  ASSUME KeysSuffice, ShouldSync, PauseWaits, RingSuffices PROVE Spec => []NoMutualBlock
<1>1. TimedInv /\ StopInv /\ BlockInv => NoMutualBlock
  <2> SUFFICES ASSUME TimedInv, StopInv, BlockInv, \A n \in Nodes : BlockedSending(n)
               PROVE  FALSE
    BY DEF NoMutualBlock
  <2>0. SyncInv /\ TypeOK /\ SpeechInv /\ Bounded
    BY DEF TimedInv, InductiveInv, SyncInv, BlockInv, SpeechInv, Bounded
  <2>1. PICK n \in Nodes : Unread(n) <= MaxPackets + 1 + Said(n)
    BY <2>0, OneIsRead
  <2>2. Unread(n) >= RingCap + 1 /\ Unread(n) \in Nat /\ Said(n) \in Nat
    BY <2>0, BlockedHasUnread, UnreadNat, SaidIsNat
  <2>3. Said(n) <= ControlMessages
    BY <2>0, FewControls
  <2>4. ControlMessages \in Nat /\ RingCap >= MaxPackets + 1 + ControlMessages
    BY DEF ControlMessages, RingSuffices
  <2>5. QED
    BY <2>1, <2>2, <2>3, <2>4, BoundAssumption, SizeAssumption
<1>2. QED
  BY <1>1, TimedInductive, StopInductive, BlockInductive, PTL
=============================================================================
