--------------------------- MODULE RingSetupProofs ---------------------------
(***************************************************************************)
(* SetupInv is inductive: however the two processes come and go while they *)
(* make the two rings, and whatever an earlier run has left in them, the   *)
(* messages of this run are the end of what a process receives.            *)
(***************************************************************************)
EXTENDS RingSetup, SequenceTheorems, TLAPS

\* The two processes.
LEMMA TwoProcs ==
  /\ \A p \in Procs : Peer(p) \in Procs /\ Peer(p) # p /\ Peer(Peer(p)) = p
  /\ \A p, r \in Procs : r = p \/ r = Peer(p)
BY SetupAssumption DEF Procs, Peer

\* A message that a process sends.
LEMMA NewMessage ==
  ASSUME NEW k \in Nat, run \in Nat
  PROVE  [run |-> run, no |-> k] \in Message /\ [run |-> run, no |-> k] # Blank
BY SetupAssumption DEF Message

-----------------------------------------------------------------------------
(* Types. *)

LEMMA CreateType == ASSUME TypeOK, NEW p \in Procs, CreateStep(p) PROVE TypeOK'
<1>0. /\ cur[p] \in Procs /\ Peer(p) \in Procs
      /\ q[cur[p]] \in Seq(Message) /\ Len(q[cur[p]]) <= Capacity
      /\ <<>> \in Seq(Message) /\ Len(<<>>) = 0 /\ 0 <= Capacity
  BY TwoProcs, SetupAssumption DEF TypeOK
<1>1. CASE Open(p)
  <2>1. pc' \in [Procs -> States] /\ creator' \in [Procs -> BOOLEAN]
    BY <1>0, <1>1 DEF Open, Goto, TypeOK, States, Opening
  <2>2. named' \subseteq Procs /\ sized' \subseteq Procs
    BY <1>0, <1>1 DEF Open, objects, TypeOK
  <2>3. q' \in [Procs -> Seq(Message)] /\ \A r \in Procs : Len(q'[r]) <= Capacity
    BY <1>0, <1>1 DEF Open, objects, TypeOK
  <2>4. QED
    BY <1>1, <2>1, <2>2, <2>3 DEF Open, TypeOK
<1>2. CASE Reopen(p)
  BY <1>2 DEF Reopen, Goto, objects, TypeOK, States, Opening
<1>3. CASE Size(p)
  BY <1>0, <1>3 DEF Size, Goto, TypeOK, States, Opening
<1>4. CASE Map(p)
  <2>1. /\ pc' = [pc EXCEPT ![p] = "clear"] \/ pc' = [pc EXCEPT ![p] = "open"]
           \/ pc' = [pc EXCEPT ![p] = "up"]
        /\ cur' = cur \/ cur' = [cur EXCEPT ![p] = Peer(p)]
        /\ UNCHANGED <<run, objects, creator, sent, log>>
    BY <1>4 DEF Map, RingDone, Goto
  <2>2. {"clear", "open", "up"} \subseteq States
    BY DEF States, Opening
  <2>3. pc' \in [Procs -> States]
    BY <2>1, <2>2 DEF TypeOK
  <2>4. cur' \in [Procs -> Procs]
    BY <1>0, <2>1 DEF TypeOK
  <2>5. QED
    BY <2>1, <2>3, <2>4 DEF objects, TypeOK
<1>5. CASE ClearIndices(p)
  BY <1>0, <1>5 DEF ClearIndices, Goto, TypeOK, States, Opening
<1>6. CASE ClearSlots(p)
  <2> DEFINE s == [i \in DOMAIN q[cur[p]] |-> Blank]
  <2>1. s \in Seq(Message) /\ Len(s) = Len(q[cur[p]])
    BY <1>0 DEF Message
  <2>2. q' = [q EXCEPT ![cur[p]] = s]
    BY <1>6 DEF ClearSlots
  <2> HIDE DEF s
  <2>3. q' \in [Procs -> Seq(Message)] /\ \A r \in Procs : Len(q'[r]) <= Capacity
    BY <1>0, <2>1, <2>2 DEF TypeOK
  <2>4. pc' \in [Procs -> States] /\ cur' \in [Procs -> Procs]
    BY <1>0, <1>6 DEF ClearSlots, RingDone, Goto, TypeOK, States, Opening
  <2>5. QED
    BY <1>6, <2>3, <2>4 DEF ClearSlots, TypeOK
<1>7. QED
  BY <1>1, <1>2, <1>3, <1>4, <1>5, <1>6 DEF CreateStep

LEMMA SendType == ASSUME TypeOK, NEW p \in Procs, Send(p) PROVE TypeOK'
<1> DEFINE m == [run |-> run, no |-> sent[p] + 1]
<1>1. /\ q[p] \in Seq(Message) /\ Len(q[p]) < Capacity /\ m \in Message /\ sent[p] + 1 \in Nat
      /\ q' = [q EXCEPT ![p] = Append(q[p], m)] /\ sent' = [sent EXCEPT ![p] = sent[p] + 1]
  BY NewMessage DEF TypeOK, Send
<1> HIDE DEF m
<1>2. Append(q[p], m) \in Seq(Message) /\ Len(Append(q[p], m)) <= Capacity
  BY <1>1, SetupAssumption
<1>3. q' \in [Procs -> Seq(Message)] /\ \A r \in Procs : Len(q'[r]) <= Capacity
  BY <1>1, <1>2 DEF TypeOK
<1>4. QED
  BY <1>1, <1>3 DEF TypeOK, Send

LEMMA RecvType == ASSUME TypeOK, NEW p \in Procs, Recv(p) PROVE TypeOK'
<1> DEFINE s == q[Peer(p)]
<1>1. /\ Peer(p) \in Procs /\ s \in Seq(Message) /\ s # <<>> /\ Len(s) <= Capacity
      /\ log[p] \in Seq(Message)
      /\ q' = [q EXCEPT ![Peer(p)] = Tail(s)]
      /\ log' = [log EXCEPT ![p] = Append(log[p], Head(s))]
  BY TwoProcs DEF TypeOK, Recv
<1> HIDE DEF s
<1>2. /\ Tail(s) \in Seq(Message) /\ Len(Tail(s)) <= Capacity
      /\ Append(log[p], Head(s)) \in Seq(Message)
  BY <1>1, SetupAssumption
<1>3. q' \in [Procs -> Seq(Message)] /\ \A r \in Procs : Len(q'[r]) <= Capacity
  BY <1>1, <1>2 DEF TypeOK
<1>4. QED
  BY <1>1, <1>2, <1>3 DEF TypeOK, Recv

LEMMA TypeStep == ASSUME TypeOK, [Next]_vars PROVE TypeOK'
<1>1. CASE NewRun
  <2>1. <<>> \in Seq(Message)
    OBVIOUS
  <2>2. QED
    BY <1>1, <2>1 DEF NewRun, TypeOK, States, Opening
<1>2. ASSUME NEW p \in Procs, Fail(p) \/ Bus(p) \/ End(p) PROVE TypeOK'
  BY <1>2 DEF Fail, Bus, End, Goto, objects, TypeOK, States, Opening
<1>3. CASE UNCHANGED vars
  BY <1>3 DEF vars, objects, procs, TypeOK
<1>4. QED
  BY <1>1, <1>2, <1>3, CreateType, SendType, RecvType DEF Next

-----------------------------------------------------------------------------
(* The stream of messages to p. *)

LEMMA JoinFirst ==
  ASSUME NEW s \in Seq(Message), NEW t \in Seq(Message), NEW i \in DOMAIN s
  PROVE  i \in DOMAIN (s \o t) /\ (s \o t)[i] = s[i]
OBVIOUS

LEMMA JoinElements ==
  ASSUME NEW s \in Seq(Message), NEW t \in Seq(Message), NEW i \in DOMAIN (s \o t)
  PROVE  \/ i \in DOMAIN s /\ (s \o t)[i] = s[i]
         \/ \E j \in DOMAIN t : (s \o t)[i] = t[j]
<1>1. \/ i \in DOMAIN s /\ (s \o t)[i] = s[i]
      \/ i - Len(s) \in DOMAIN t /\ (s \o t)[i] = t[i - Len(s)]
  OBVIOUS
<1>2. QED
  BY <1>1

LEMMA JoinAppend ==
  ASSUME NEW s \in Seq(Message), NEW t \in Seq(Message), NEW m \in Message
  PROVE  s \o Append(t, m) = Append(s \o t, m)
<1>1. <<m>> \in Seq(Message) /\ s \o t \in Seq(Message)
  BY ConcatProperties
<1>2. Append(t, m) = t \o <<m>> /\ Append(s \o t, m) = (s \o t) \o <<m>>
  BY <1>1, AppendIsConcat
<1>3. QED
  BY <1>1, <1>2, ConcatAssociative

\* What is received stays in the stream.
LEMMA JoinTaken ==
  ASSUME NEW s \in Seq(Message), NEW t \in Seq(Message), t # <<>>
  PROVE  Append(s, Head(t)) \o Tail(t) = s \o t
<1>1. Head(t) \in Message /\ Tail(t) \in Seq(Message) /\ <<Head(t)>> \in Seq(Message)
  BY HeadTailProperties
<1>2. Append(s, Head(t)) = s \o <<Head(t)>>
  BY <1>1, AppendIsConcat
<1>3. <<Head(t)>> \o Tail(t) = t
  <2> DEFINE u == <<Head(t)>> \o Tail(t)
  <2>1. u \in Seq(Message) /\ Len(u) = Len(t) /\ \A i \in 1 .. Len(u) : u[i] = t[i]
    BY <1>1
  <2>2. QED
    BY <2>1, SeqEqual
<1>4. QED
  BY <1>1, <1>2, <1>3, ConcatAssociative

\* What is known before a step, and after it.
Base == SetupInv /\ TypeOK'

StreamOK(p) == StreamInv(p) /\ FirstInv(p)

LEMMA StreamType ==
  ASSUME TypeOK, NEW p \in Procs
  PROVE  /\ log[p] \in Seq(Message) /\ q[Peer(p)] \in Seq(Message)
         /\ Stream(p) \in Seq(Message) /\ Len(Stream(p)) = Len(log[p]) + Len(q[Peer(p)])
         /\ sent[Peer(p)] \in Nat
BY TwoProcs DEF TypeOK, Stream

\* p does not come to depend on what its receive ring has held all the while.
KeepsOpen(p) ==
  ~creator'[p] \/ NotOpened(p)' => ~creator[p] \/ NotOpened(p)

\* Nothing is sent to p; it may receive.
LEMMA StreamKept ==
  ASSUME Base, NEW p \in Procs, UNCHANGED run, Stream(p)' = Stream(p),
         sent'[Peer(p)] = sent[Peer(p)], KeepsOpen(p)
  PROVE  StreamOK(p)'
<1>1. StreamInv(p) /\ FirstInv(p)
  BY DEF Base, SetupInv
<1>2. StreamInv(p)'
  BY <1>1 DEF StreamInv, EndsIn, Current
<1>3. FirstInv(p)'
  BY <1>1 DEF FirstInv, StartsIn, KeepsOpen
<1>4. QED
  BY <1>2, <1>3 DEF StreamOK

\* Its receive ring loses what it holds: nothing has been sent in this run yet, or
\* p itself, which has made the ring, clears it.
LEMMA StreamCleared ==
  ASSUME Base, NEW p \in Procs, UNCHANGED run, log'[p] = log[p],
         sent'[Peer(p)] = sent[Peer(p)],
         \A i \in DOMAIN q'[Peer(p)] : ~Current(q'[Peer(p)][i]),
         sent[Peer(p)] = 0 \/ (log[p] = <<>> /\ creator'[p] /\ ~NotOpened(p)')
  PROVE  StreamOK(p)'
<1>1. TypeOK /\ TypeOK' /\ StreamInv(p)
  BY DEF Base, SetupInv
<1>2. /\ log[p] \in Seq(Message) /\ q[Peer(p)] \in Seq(Message)
      /\ q'[Peer(p)] \in Seq(Message)
  BY <1>1, TwoProcs DEF TypeOK
<1>3. ASSUME NEW i \in DOMAIN log[p] PROVE ~Current(log[p][i])
  <2>1. CASE log[p] = <<>>
    BY <1>3, <2>1
  <2>2. CASE sent[Peer(p)] = 0
    <3>1. i \in DOMAIN Stream(p) /\ Stream(p)[i] = log[p][i]
      BY <1>2, <1>3, JoinFirst DEF Stream
    <3>2. Stream(p) \in Seq(Message)
      BY <1>1, StreamType
    <3>3. Current(Stream(p)[i]) => Stream(p)[i].no >= 1 /\ Stream(p)[i].no + Len(Stream(p)) = i
      BY <1>1, <2>2, <3>1, <3>2 DEF StreamInv, EndsIn
    <3>4. Current(Stream(p)[i]) => Stream(p)[i].no \in Nat
      BY <3>1, <3>2 DEF Current, Message
    <3>5. i \in Nat /\ Len(Stream(p)) \in Nat /\ i <= Len(Stream(p))
      BY <3>1, <3>2
    <3>6. QED
      BY <3>1, <3>3, <3>4, <3>5
  <2>3. QED
    BY <2>1, <2>2
<1>4. ASSUME NEW i \in DOMAIN Stream(p)' PROVE ~Current(Stream(p)[i])'
  <2>1. Stream(p)' = log[p] \o q'[Peer(p)]
    BY DEF Stream
  <2>2. \/ i \in DOMAIN log[p] /\ Stream(p)'[i] = log[p][i]
        \/ \E j \in DOMAIN q'[Peer(p)] : Stream(p)'[i] = q'[Peer(p)][j]
    <3> DEFINE t == q'[Peer(p)]
    <3>1. t \in Seq(Message) /\ i \in DOMAIN (log[p] \o t)
      BY <1>2, <1>4, <2>1
    <3> HIDE DEF t
    <3>2. \/ i \in DOMAIN log[p] /\ (log[p] \o t)[i] = log[p][i]
          \/ \E j \in DOMAIN t : (log[p] \o t)[i] = t[j]
      BY <1>2, <3>1, JoinElements
    <3>3. QED
      BY <2>1, <3>2 DEF t
  <2>3. QED
    BY <1>3, <2>2 DEF Current
<1>5. StreamInv(p)'
  BY <1>4 DEF StreamInv, EndsIn
<1>6. FirstInv(p)'
  BY StreamType, <1>1 DEF FirstInv
<1>7. QED
  BY <1>5, <1>6 DEF StreamOK

LEMMA NextPlace ==
  \A x, n, k, j \in Nat : x + n = k + j => x + (n + 1) = (k + 1) + j
OBVIOUS

\* One more message of this run.
LEMMA StreamGrows ==
  ASSUME Base, NEW p \in Procs, UNCHANGED <<run, log, pc, cur, creator>>,
         q'[Peer(p)] = Append(q[Peer(p)], [run |-> run, no |-> sent[Peer(p)] + 1]),
         sent'[Peer(p)] = sent[Peer(p)] + 1
  PROVE  StreamOK(p)'
<1> DEFINE k == sent[Peer(p)]
           m == [run |-> run, no |-> k + 1]
           s == Stream(p)
           n == Len(s)
<1>1. TypeOK /\ StreamInv(p) /\ FirstInv(p)
  BY DEF Base, SetupInv
<1>2. /\ log[p] \in Seq(Message) /\ q[Peer(p)] \in Seq(Message) /\ s \in Seq(Message)
      /\ k \in Nat /\ n \in Nat
  <2>1. s \in Seq(Message)
    BY <1>1, StreamType
  <2>2. n \in Nat
    BY <2>1
  <2>3. QED
    BY <1>1, <2>1, <2>2, StreamType
<1>3. m \in Message /\ m # Blank /\ m.run = run /\ m.no = k + 1
  BY <1>1, <1>2, NewMessage DEF TypeOK
<1>4. q'[Peer(p)] = Append(q[Peer(p)], m)
  OBVIOUS
<1> HIDE DEF m
<1>5. Stream(p)' = Append(s, m)
  <2>1. log[p] \o Append(q[Peer(p)], m) = Append(log[p] \o q[Peer(p)], m)
    BY <1>2, <1>3, JoinAppend
  <2>2. QED
    BY <1>4, <2>1 DEF Stream
<1> HIDE DEF s, k
<1>6. /\ DOMAIN Append(s, m) = 1 .. n + 1 /\ Len(Append(s, m)) = n + 1
      /\ Append(s, m)[n + 1] = m
      /\ \A i \in 1 .. n : i \in DOMAIN s /\ Append(s, m)[i] = s[i]
  BY <1>2, <1>3
<1>7. StreamInv(p)'
  <2>1. ASSUME NEW i \in 1 .. n + 1, NEW j \in 1 .. n + 1, i <= j, Current(Append(s, m)[i])
        PROVE  /\ Current(Append(s, m)[j]) /\ Append(s, m)[j].no >= 1
               /\ Append(s, m)[j].no + (n + 1) = (k + 1) + j
    <3>1. CASE j = n + 1
      BY <1>2, <1>3, <1>6, <3>1 DEF Current
    <3>2. CASE j # n + 1
      <4>1. i \in 1 .. n /\ j \in 1 .. n
        BY <1>2, <2>1, <3>2
      <4>2. Current(s[i])
        BY <1>6, <2>1, <4>1
      <4>3. Current(s[j]) /\ s[j].no >= 1 /\ s[j].no + n = k + j
        BY <1>1, <1>6, <2>1, <4>1, <4>2 DEF StreamInv, EndsIn, s, k
      <4>4. s[j].no \in Nat
        <5>1. s[j] \in Message /\ s[j] # Blank
          BY <1>2, <1>6, <4>1, <4>3 DEF Current
        <5>2. QED
          BY <5>1 DEF Message
      <4>5. Append(s, m)[j] = s[j] /\ n \in Nat /\ k \in Nat /\ j \in Nat
        BY <1>2, <1>6, <4>1
      <4> HIDE DEF n
      <4> DEFINE x == s[j].no
      <4>6. x \in Nat /\ x + n = k + j
        BY <4>3, <4>4
      <4> HIDE DEF x
      <4>7. x + (n + 1) = (k + 1) + j
        BY <4>5, <4>6, NextPlace
      <4>8. QED
        BY <4>3, <4>5, <4>7 DEF Current, x
    <3>3. QED
      BY <3>1, <3>2
  <2>2. sent'[Peer(p)] = k + 1
    BY DEF k
  <2>3. QED
    BY <1>5, <1>6, <2>1, <2>2 DEF StreamInv, EndsIn, Current
<1>8. FirstInv(p)'
  <2>1. CASE k = 0
    <3>1. Append(s, m)[n + 1] = [run |-> run, no |-> 1]
      BY <1>6, <2>1 DEF m
    <3>2. n + 1 \in DOMAIN Append(s, m)
      BY <1>2, <1>6
    <3>3. QED
      BY <1>5, <3>1, <3>2 DEF FirstInv, StartsIn
  <2>2. CASE k # 0
    <3>1. NotOpened(p)' = NotOpened(p)
      BY DEF NotOpened
    <3>2. ~creator[p] \/ NotOpened(p) => \E i \in DOMAIN s : s[i] = [run |-> run, no |-> 1]
      BY <1>1, <1>2, <2>2 DEF FirstInv, StartsIn, s, k
    <3>3. DOMAIN s = 1 .. n
      BY <1>2
    <3>4. \A i \in DOMAIN s : i \in DOMAIN Append(s, m) /\ Append(s, m)[i] = s[i]
      BY <1>2, <1>6, <3>3
    <3>5. QED
      BY <1>5, <3>1, <3>2, <3>4 DEF FirstInv, StartsIn
  <2>3. QED
    BY <2>1, <2>2
<1>9. QED
  BY <1>7, <1>8 DEF StreamOK

-----------------------------------------------------------------------------
(* The steps. *)

AllOK == \A p \in Procs : OldInv(p) /\ OpeningInv(p) /\ StreamOK(p)

\* No ring changes.
LEMMA QuietStep ==
  ASSUME Base, UNCHANGED <<run, q, sent, log>>,
         \A p \in Procs : KeepsOpen(p) /\ OpeningInv(p)'
  PROVE  AllOK'
<1>1. \A p \in Procs : Stream(p)' = Stream(p)
  BY DEF Stream
<1>2. \A p \in Procs : StreamOK(p)'
  BY <1>1, StreamKept
<1>3. \A p \in Procs : OldInv(p)'
  BY DEF Base, SetupInv, OldInv
<1>4. QED
  BY <1>2, <1>3 DEF AllOK

\* n clears the ring that it is opening.
LEMMA ClearingStep ==
  ASSUME Base, NEW n \in Procs, pc[n] \in Opening, cur'[n] \in Procs,
         UNCHANGED <<run, sent, log>>,
         NEW u, q' = [q EXCEPT ![cur[n]] = u], \A i \in DOMAIN u : u[i] = Blank,
         cur[n] # n => creator'[n] /\ ~NotOpened(n)',
         \A p \in Procs : KeepsOpen(p) /\ OpeningInv(p)'
  PROVE  AllOK'
<1>1. TypeOK /\ OpeningInv(n) /\ \A p \in Procs : OldInv(p)
  BY DEF Base, SetupInv
<1>2. cur[n] \in Procs /\ q'[cur[n]] = u /\ \A r \in Procs : r # cur[n] => q'[r] = q[r]
  BY <1>1 DEF TypeOK
<1>3. ASSUME NEW p \in Procs PROVE OldInv(p)'
  BY <1>1, <1>2 DEF OldInv
<1>4. ASSUME NEW p \in Procs, Peer(p) # cur[n] PROVE StreamOK(p)'
  <2>1. Stream(p)' = Stream(p)
    BY <1>2, <1>4, TwoProcs DEF Stream
  <2>2. QED
    BY <2>1, StreamKept
<1>5. ASSUME NEW p \in Procs, Peer(p) = cur[n] PROVE StreamOK(p)'
  <2>1. \A i \in DOMAIN q'[Peer(p)] : ~Current(q'[Peer(p)][i])
    BY <1>2, <1>5 DEF Current
  <2>2. sent[n] = 0 /\ log[n] = <<>>
    BY <1>1 DEF OpeningInv
  <2>3. sent[Peer(p)] = 0 \/ (log[p] = <<>> /\ creator'[p] /\ ~NotOpened(p)')
    <3>1. CASE p = n
      BY <1>5, <2>2, <3>1, TwoProcs
    <3>2. CASE p # n
      <4>1. Peer(p) = n
        BY <3>2, TwoProcs
      <4>2. QED
        BY <2>2, <4>1
    <3>3. QED
      BY <3>1, <3>2
  <2>4. QED
    BY <2>1, <2>3, StreamCleared
<1>6. QED
  BY <1>3, <1>4, <1>5 DEF AllOK

\* What a step of n leaves of the other process.
LEMMA OtherOpening ==
  ASSUME Base, NEW n \in Procs, UNCHANGED <<run, sent, log>>,
         \A p \in Procs \ {n} : pc'[p] = pc[p] /\ cur'[p] = cur[p] /\ creator'[p] = creator[p],
         KeepsOpen(n), OpeningInv(n)'
  PROVE  \A p \in Procs : KeepsOpen(p) /\ OpeningInv(p)'
<1>1. ASSUME NEW p \in Procs \ {n} PROVE KeepsOpen(p) /\ OpeningInv(p)'
  <2>1. pc'[p] = pc[p] /\ cur'[p] = cur[p] /\ creator'[p] = creator[p]
    OBVIOUS
  <2>2. OpeningInv(p)
    BY DEF Base, SetupInv
  <2>3. QED
    BY <2>1, <2>2 DEF KeepsOpen, NotOpened, OpeningInv
<1>2. QED
  BY <1>1

LEMMA CreateStepOK == ASSUME Base, NEW n \in Procs, CreateStep(n) PROVE AllOK'
<1>0. /\ TypeOK /\ OpeningInv(n) /\ cur[n] \in Procs /\ Peer(n) \in Procs /\ Peer(n) # n
      /\ (cur[n] = n \/ cur[n] = Peer(n))
      /\ UNCHANGED <<run, sent, log>>
  BY TwoProcs DEF Base, SetupInv, TypeOK, CreateStep, Open, Reopen, Size, Map, ClearIndices,
     ClearSlots
<1>1. /\ pc[n] \in Opening /\ sent[n] = 0 /\ log[n] = <<>> /\ cur'[n] \in Procs
      /\ \A p \in Procs \ {n} : pc'[p] = pc[p] /\ cur'[p] = cur[p] /\ creator'[p] = creator[p]
  <2>1. pc[n] \in Opening
    BY DEF CreateStep, Open, Reopen, Size, Map, ClearIndices, ClearSlots, Opening
  <2>2. \E x : pc' = [pc EXCEPT ![n] = x]
    BY DEF CreateStep, Open, Reopen, Size, Map, ClearIndices, ClearSlots, RingDone, Goto
  <2>3. cur' = cur \/ cur' = [cur EXCEPT ![n] = Peer(n)]
    BY DEF CreateStep, Open, Reopen, Size, Map, ClearIndices, ClearSlots, RingDone
  <2>4. creator' = creator \/ creator' = [creator EXCEPT ![n] = cur[n] \notin named]
    BY DEF CreateStep, Open, Reopen, Size, Map, ClearIndices, ClearSlots
  <2>5. QED
    BY <1>0, <2>1, <2>2, <2>3, <2>4 DEF TypeOK, OpeningInv
<1>2. CASE Open(n) /\ cur[n] \in named
  <2>1. /\ pc[n] = "open" /\ pc'[n] = "reopen" /\ UNCHANGED q
    BY <1>0, <1>2 DEF Open, Goto, objects, TypeOK
  <2>2. KeepsOpen(n) /\ OpeningInv(n)'
    BY <1>0, <1>1, <2>1 DEF KeepsOpen, NotOpened, OpeningInv
  <2>3. QED
    BY <1>0, <1>1, <2>1, <2>2, OtherOpening, QuietStep
<1>3. CASE Open(n) /\ cur[n] \notin named
  <2>1. /\ pc[n] = "open" /\ pc'[n] = "size" /\ creator'[n] /\ cur' = cur
        /\ q' = [q EXCEPT ![cur[n]] = <<>>]
    BY <1>0, <1>3 DEF Open, Goto, TypeOK
  <2>2. KeepsOpen(n) /\ OpeningInv(n)'
    BY <1>0, <1>1, <2>1 DEF KeepsOpen, NotOpened, OpeningInv
  <2>3. cur[n] # n => creator'[n] /\ ~NotOpened(n)'
    BY <2>1 DEF NotOpened
  <2>4. \A p \in Procs : KeepsOpen(p) /\ OpeningInv(p)'
    BY <1>0, <1>1, <2>2, OtherOpening
  <2>5. \A i \in DOMAIN <<>> : <<>>[i] = Blank
    OBVIOUS
  <2>6. QED
    <3>1. /\ Base /\ pc[n] \in Opening /\ cur'[n] \in Procs
          /\ UNCHANGED <<run, sent, log>>
      BY <1>0, <1>1, <2>1 DEF TypeOK, Opening
    <3>2. QED
      BY <2>1, <2>3, <2>4, <2>5, <3>1, ClearingStep
<1>4. CASE Reopen(n) \/ Size(n)
  <2>1. /\ pc[n] \in {"reopen", "size"} /\ pc'[n] \in {"map", "mute"}
        /\ UNCHANGED <<q, cur, creator>>
    BY <1>0, <1>4 DEF Reopen, Size, Goto, objects, TypeOK
  <2>2. KeepsOpen(n) /\ OpeningInv(n)'
    BY <1>0, <1>1, <2>1 DEF KeepsOpen, NotOpened, OpeningInv, Opening
  <2>3. QED
    BY <1>0, <1>1, <2>1, <2>2, OtherOpening, QuietStep
<1>5. CASE Map(n)
  <2>1. /\ pc[n] = "map" /\ UNCHANGED <<q, creator>>
        /\ \/ creator[n] /\ pc'[n] = "clear" /\ cur' = cur
           \/ cur[n] = n /\ pc'[n] = "open"
           \/ pc'[n] = "up"
    BY <1>0, <1>5 DEF Map, RingDone, Goto, objects, TypeOK
  <2>2. KeepsOpen(n) /\ OpeningInv(n)'
    BY <1>0, <1>1, <2>1 DEF KeepsOpen, NotOpened, OpeningInv, Opening
  <2>3. QED
    BY <1>0, <1>1, <2>1, <2>2, OtherOpening, QuietStep
<1>6. CASE ClearIndices(n)
  <2>1. /\ pc[n] = "clear" /\ pc'[n] = "blank" /\ UNCHANGED <<cur, creator>> /\ creator[n]
        /\ q' = [q EXCEPT ![cur[n]] = <<>>]
    BY <1>0, <1>6 DEF ClearIndices, Goto, TypeOK, OpeningInv
  <2>2. KeepsOpen(n) /\ OpeningInv(n)'
    BY <1>0, <1>1, <2>1 DEF KeepsOpen, NotOpened, OpeningInv, Opening
  <2>3. cur[n] # n => creator'[n] /\ ~NotOpened(n)'
    BY <2>1 DEF NotOpened
  <2>4. \A p \in Procs : KeepsOpen(p) /\ OpeningInv(p)'
    BY <1>0, <1>1, <2>2, OtherOpening
  <2>5. \A i \in DOMAIN <<>> : <<>>[i] = Blank
    OBVIOUS
  <2>6. QED
    <3>1. /\ Base /\ pc[n] \in Opening /\ cur'[n] \in Procs
          /\ UNCHANGED <<run, sent, log>>
      BY <1>0, <1>1, <2>1 DEF TypeOK, Opening
    <3>2. QED
      BY <2>1, <2>3, <2>4, <2>5, <3>1, ClearingStep
<1>7. CASE ClearSlots(n)
  <2> DEFINE u == [i \in DOMAIN q[cur[n]] |-> Blank]
  <2>1. /\ pc[n] = "blank" /\ UNCHANGED creator /\ creator[n]
        /\ (cur[n] = n /\ pc'[n] = "open") \/ (cur[n] # n /\ pc'[n] = "up")
        /\ q' = [q EXCEPT ![cur[n]] = u]
    BY <1>0, <1>7 DEF ClearSlots, RingDone, Goto, TypeOK, OpeningInv
  <2>2. KeepsOpen(n) /\ OpeningInv(n)'
    BY <1>0, <1>1, <2>1 DEF KeepsOpen, NotOpened, OpeningInv, Opening
  <2>3. cur[n] # n => creator'[n] /\ ~NotOpened(n)'
    BY <2>1 DEF NotOpened, Opening
  <2>4. \A p \in Procs : KeepsOpen(p) /\ OpeningInv(p)'
    BY <1>0, <1>1, <2>2, OtherOpening
  <2>5. \A i \in DOMAIN u : u[i] = Blank
    OBVIOUS
  <2> HIDE DEF u
  <2>6. QED
    <3>1. /\ Base /\ pc[n] \in Opening /\ cur'[n] \in Procs
          /\ UNCHANGED <<run, sent, log>>
      BY <1>0, <1>1, <2>1 DEF TypeOK, Opening
    <3>2. QED
      BY <2>1, <2>3, <2>4, <2>5, <3>1, ClearingStep
<1>8. QED
  BY <1>2, <1>3, <1>4, <1>5, <1>6, <1>7 DEF CreateStep

LEMMA EndsOK ==
  ASSUME Base, NEW n \in Procs, Fail(n) \/ Bus(n) \/ End(n) PROVE AllOK'
<1>0. TypeOK /\ OpeningInv(n) /\ UNCHANGED <<run, q, cur, creator, sent, log>>
  BY DEF Base, SetupInv, Fail, Bus, End, objects
<1>1. /\ pc'[n] \in {"mute", "bus", "ended"}
      /\ \A p \in Procs \ {n} : pc'[p] = pc[p]
  BY <1>0 DEF Fail, Bus, End, Goto, TypeOK
<1>2. KeepsOpen(n) /\ OpeningInv(n)'
  BY <1>0, <1>1 DEF KeepsOpen, NotOpened, OpeningInv, Opening
<1>3. QED
  BY <1>0, <1>1, <1>2, OtherOpening, QuietStep

LEMMA SendOK == ASSUME Base, NEW n \in Procs, Send(n) PROVE AllOK'
<1> DEFINE m == [run |-> run, no |-> sent[n] + 1]
<1>0. /\ TypeOK /\ \A p \in Procs : OldInv(p) /\ OpeningInv(p)
      /\ pc[n] = "up" /\ UNCHANGED <<run, pc, cur, creator, log>>
  BY DEF Base, SetupInv, Send
<1>1. /\ m \in Message /\ m.run = run /\ run \in Nat
      /\ q[n] \in Seq(Message)
      /\ q'[n] = Append(q[n], m) /\ sent'[n] = sent[n] + 1
      /\ \A p \in Procs \ {n} : q'[p] = q[p] /\ sent'[p] = sent[p]
  <2>1. sent[n] \in Nat /\ run \in Nat
    BY <1>0 DEF TypeOK
  <2>2. m \in Message /\ m.run = run
    BY <2>1, NewMessage
  <2>3. q' = [q EXCEPT ![n] = Append(q[n], m)] /\ sent' = [sent EXCEPT ![n] = sent[n] + 1]
    BY DEF Send
  <2>4. QED
    BY <1>0, <2>1, <2>2, <2>3 DEF TypeOK
<1>2. ASSUME NEW p \in Procs PROVE OldInv(p)'
  <2>1. CASE p = n
    <3> HIDE DEF m
    <3>1. \A i \in DOMAIN Append(q[n], m) :
            \/ i \in DOMAIN q[n] /\ Append(q[n], m)[i] = q[n][i]
            \/ Append(q[n], m)[i] = m
      BY <1>1
    <3>2. q'[n] = Append(q[n], m) /\ run' = run
      BY <1>0, <1>1
    <3>3. \A i \in DOMAIN q'[n] : q'[n][i] # Blank => q'[n][i].run <= run
      BY <1>0, <1>1, <3>1, <3>2 DEF OldInv
    <3>4. QED
      BY <2>1, <3>2, <3>3 DEF OldInv
  <2>2. CASE p # n
    BY <1>0, <1>1, <2>2 DEF OldInv
  <2>3. QED
    BY <2>1, <2>2
<1>3. ASSUME NEW p \in Procs PROVE OpeningInv(p)'
  BY <1>0, <1>1 DEF OpeningInv, Opening
<1>4. ASSUME NEW p \in Procs PROVE StreamOK(p)'
  <2>1. CASE p = n
    <3>1. Stream(p)' = Stream(p) /\ sent'[Peer(p)] = sent[Peer(p)] /\ KeepsOpen(p)
      BY <1>0, <1>1, <2>1, TwoProcs DEF Stream, KeepsOpen, NotOpened
    <3>2. QED
      BY <1>0, <3>1, StreamKept
  <2>2. CASE p # n
    <3>1. Peer(p) = n
      BY <2>2, TwoProcs
    <3>2. QED
      BY <1>0, <1>1, <3>1, StreamGrows
  <2>3. QED
    BY <2>1, <2>2
<1>5. QED
  BY <1>2, <1>3, <1>4 DEF AllOK

LEMMA RecvOK == ASSUME Base, NEW n \in Procs, Recv(n) PROVE AllOK'
<1> DEFINE r == Peer(n)
<1>0. /\ TypeOK /\ \A p \in Procs : OldInv(p) /\ OpeningInv(p)
      /\ pc[n] = "up" /\ UNCHANGED <<run, pc, cur, creator, sent>>
      /\ r \in Procs /\ r # n
  BY TwoProcs DEF Base, SetupInv, Recv
<1>1. /\ q[r] \in Seq(Message) /\ q[r] # <<>> /\ log[n] \in Seq(Message)
      /\ q'[r] = Tail(q[r]) /\ log'[n] = Append(log[n], Head(q[r]))
      /\ \A p \in Procs : (p # r => q'[p] = q[p]) /\ (p # n => log'[p] = log[p])
  BY <1>0 DEF TypeOK, Recv
<1>2. ASSUME NEW p \in Procs PROVE OldInv(p)'
  <2>1. CASE p = r
    <3>1. \A i \in DOMAIN Tail(q[r]) : i + 1 \in DOMAIN q[r] /\ Tail(q[r])[i] = q[r][i + 1]
      BY <1>1
    <3>2. \A i \in DOMAIN Tail(q[r]) : Tail(q[r])[i] # Blank => Tail(q[r])[i].run <= run
      BY <1>0, <3>1 DEF OldInv
    <3>3. QED
      BY <1>0, <1>1, <2>1, <3>2 DEF OldInv
  <2>2. CASE p # r
    BY <1>0, <1>1, <2>2 DEF OldInv
  <2>3. QED
    BY <2>1, <2>2
<1>3. ASSUME NEW p \in Procs PROVE OpeningInv(p)'
  BY <1>0, <1>1 DEF OpeningInv, Opening
<1>4. ASSUME NEW p \in Procs PROVE StreamOK(p)'
  <2>1. Stream(p)' = Stream(p)
    <3>1. CASE p = n
      BY <1>1, <3>1, JoinTaken DEF Stream
    <3>2. CASE p # n
      <4>1. Peer(p) = n
        BY <3>2, TwoProcs
      <4>2. QED
        BY <1>0, <1>1, <3>2, <4>1 DEF Stream
    <3>3. QED
      BY <3>1, <3>2
  <2>2. KeepsOpen(p)
    BY <1>0 DEF KeepsOpen, NotOpened
  <2>3. QED
    BY <1>0, <2>1, <2>2, StreamKept
<1>5. QED
  BY <1>2, <1>3, <1>4 DEF AllOK

\* What an earlier run has left is of no later one.
LEMMA NewRunOK == ASSUME Base, NewRun PROVE AllOK'
<1>0. TypeOK /\ \A p \in Procs : OldInv(p)
  BY DEF Base, SetupInv
<1>1. /\ run \in Nat /\ run' = run + 1 /\ UNCHANGED q
      /\ \A p \in Procs :
           /\ pc'[p] = "open" /\ cur'[p] = p /\ sent'[p] = 0 /\ log'[p] = <<>>
           /\ q[p] \in Seq(Message)
  BY <1>0 DEF NewRun, TypeOK
<1>2. ASSUME NEW p \in Procs, NEW i \in DOMAIN q[p], q[p][i] # Blank
      PROVE  q[p][i].run \in Nat /\ q[p][i].run <= run
  <2>1. q[p][i] \in Message
    BY <1>1
  <2>2. QED
    BY <1>0, <1>2, <2>1 DEF Message, OldInv
<1>3. ASSUME NEW p \in Procs PROVE OldInv(p)'
  <2>1. ASSUME NEW i \in DOMAIN q[p], q[p][i] # Blank PROVE q[p][i].run <= run + 1
    BY <1>1, <1>2, <2>1
  <2>2. QED
    BY <1>1, <2>1 DEF OldInv
<1>4. ASSUME NEW p \in Procs PROVE OpeningInv(p)'
  BY <1>1 DEF OpeningInv
<1>5. ASSUME NEW p \in Procs PROVE StreamOK(p)'
  <2>1. Stream(p)' = q[Peer(p)]
    <3>1. q[Peer(p)] \in Seq(Message)
      BY <1>1, TwoProcs
    <3>2. <<>> \o q[Peer(p)] = q[Peer(p)]
      BY <3>1, ConcatEmptySeq
    <3>3. Stream(p)' = <<>> \o q[Peer(p)]
      BY <1>1 DEF Stream
    <3>4. QED
      BY <3>2, <3>3
  <2>2. ASSUME NEW i \in DOMAIN q[Peer(p)], q[Peer(p)][i] # Blank PROVE q[Peer(p)][i].run # run + 1
    BY <1>1, <1>2, <2>2, TwoProcs
  <2>3. StreamInv(p)'
    BY <1>1, <2>1, <2>2 DEF StreamInv, EndsIn, Current
  <2>4. FirstInv(p)'
    BY <1>1, TwoProcs DEF FirstInv
  <2>5. QED
    BY <2>3, <2>4 DEF StreamOK
<1>6. QED
  BY <1>3, <1>4, <1>5 DEF AllOK

-----------------------------------------------------------------------------
(* The theorems. *)

LEMMA SetupInitial == Init => SetupInv
<1> SUFFICES ASSUME Init PROVE SetupInv
  OBVIOUS
<1>1. TypeOK
  <2>1. <<>> \in Seq(Message) /\ Len(<<>>) <= Capacity
    BY SetupAssumption
  <2>2. QED
    BY <2>1 DEF Init, TypeOK, States, Opening
<1>2. ASSUME NEW p \in Procs
      PROVE  /\ pc[p] = "open" /\ sent[p] = 0 /\ log[p] = <<>>
             /\ q[p] = <<>> /\ q[Peer(p)] = <<>> /\ sent[Peer(p)] = 0
  BY TwoProcs DEF Init
<1>3. ASSUME NEW p \in Procs PROVE Stream(p) = <<>>
  BY <1>2 DEF Stream
<1>4. ASSUME NEW p \in Procs PROVE OldInv(p) /\ OpeningInv(p)
  BY <1>2 DEF OldInv, OpeningInv
<1>5. ASSUME NEW p \in Procs PROVE StreamInv(p) /\ FirstInv(p)
  BY <1>2, <1>3 DEF StreamInv, EndsIn, FirstInv
<1>6. QED
  BY <1>1, <1>4, <1>5 DEF SetupInv

LEMMA SetupStep == ASSUME SetupInv, [Next]_vars PROVE SetupInv'
<1>0. Base
  BY TypeStep DEF Base, SetupInv
<1>1. CASE UNCHANGED vars
  <2>1. UNCHANGED <<run, q, pc, cur, creator, sent, log>>
    BY <1>1 DEF vars, objects, procs
  <2>2. \A p \in Procs : KeepsOpen(p) /\ OpeningInv(p)'
    BY <2>1 DEF KeepsOpen, NotOpened, OpeningInv, SetupInv
  <2>3. AllOK'
    BY <1>0, <2>1, <2>2, QuietStep
  <2>4. QED
    BY <1>0, <2>3 DEF AllOK, StreamOK, SetupInv, Base
<1>2. CASE Next
  <2>1. AllOK'
    BY <1>0, <1>2, CreateStepOK, EndsOK, SendOK, RecvOK, NewRunOK DEF Next
  <2>2. QED
    BY <1>0, <2>1 DEF AllOK, StreamOK, SetupInv, Base
<1>3. QED
  BY <1>1, <1>2

\* However the two processes make the rings, fail at it, end and are started again
\* (pdes-communicator.c:27-110).
THEOREM SetupInductive == Spec => []SetupInv
BY SetupInitial, SetupStep, PTL DEF Spec

\* The values that the rings and the processes can have while they are set up
\* (pdes-communicator.c:10-25).
THEOREM SetupTypeCorrect == Spec => []TypeOK
<1>1. SetupInv => TypeOK
  BY DEF SetupInv
<1>2. QED
  BY <1>1, SetupInductive, PTL

\* What p has received is in its stream, at the same place.
LEMMA LogInStream ==
  ASSUME SetupInv, NEW p \in Procs, NEW i \in DOMAIN log[p]
  PROVE  /\ i \in DOMAIN Stream(p) /\ Stream(p)[i] = log[p][i]
         /\ i \in Nat /\ Len(Stream(p)) \in Nat
<1>1. TypeOK /\ log[p] \in Seq(Message) /\ q[Peer(p)] \in Seq(Message)
  BY TwoProcs DEF SetupInv, TypeOK
<1>2. i \in DOMAIN Stream(p) /\ Stream(p)[i] = log[p][i]
  BY <1>1, JoinFirst DEF Stream
<1>3. Stream(p) \in Seq(Message)
  BY <1>1, StreamType
<1>4. QED
  BY <1>1, <1>2, <1>3

\* pdes-communicator.c:40-71: from the first message of this run on, a process
\* receives all that its peer sends, in order.
THEOREM NothingInBetween == Spec => []NoGap
<1>1. SetupInv => NoGap
  <2> SUFFICES ASSUME SetupInv, NEW p \in Procs, NEW i \in DOMAIN log[p], NEW j \in DOMAIN log[p],
                      i < j, Current(log[p][i])
               PROVE  Current(log[p][j]) /\ log[p][j].no = log[p][i].no + j - i
    BY DEF NoGap
  <2> DEFINE n == Len(Stream(p))
             k == sent[Peer(p)]
  <2>1. /\ i \in DOMAIN Stream(p) /\ Stream(p)[i] = log[p][i] /\ i \in Nat
        /\ j \in DOMAIN Stream(p) /\ Stream(p)[j] = log[p][j] /\ j \in Nat
        /\ n \in Nat
    BY LogInStream
  <2>2. TypeOK /\ StreamInv(p) /\ k \in Nat
    BY TwoProcs DEF SetupInv, TypeOK
  <2>3. /\ Current(log[p][j]) /\ log[p][j].no + n = k + j
        /\ log[p][i].no + n = k + i
    BY <2>1, <2>2 DEF StreamInv, EndsIn
  <2>4. log[p][i].no \in Nat /\ log[p][j].no \in Nat
    <3>1. log[p][i] \in Message /\ log[p][j] \in Message
      BY <2>2 DEF TypeOK
    <3>2. QED
      BY <2>3, <3>1 DEF Current, Message
  <2> HIDE DEF n, k
  <2>5. QED
    BY <2>1, <2>2, <2>3, <2>4
<1>2. QED
  BY <1>1, SetupInductive, PTL

\* pdes-communicator.c:40-48: who finds its receive ring made hears the peer from
\* its first message of this run on.
THEOREM FirstIsHeard == Spec => []HeardFromFirst
<1>1. SetupInv => HeardFromFirst
  <2> SUFFICES ASSUME SetupInv, NEW p \in Procs, NEW i \in DOMAIN log[p],
                      ~creator[p], Current(log[p][i])
               PROVE  \E j \in DOMAIN log[p] : log[p][j] = [run |-> run, no |-> 1]
    BY DEF HeardFromFirst
  <2> DEFINE n == Len(Stream(p))
             k == sent[Peer(p)]
  <2>1. /\ i \in DOMAIN Stream(p) /\ Stream(p)[i] = log[p][i] /\ i \in Nat
        /\ n \in Nat /\ i <= n
    <3>1. Stream(p) \in Seq(Message)
      BY StreamType DEF SetupInv
    <3>2. QED
      BY <3>1, LogInStream
  <2>2. /\ TypeOK /\ StreamInv(p) /\ FirstInv(p) /\ k \in Nat
        /\ log[p] \in Seq(Message) /\ q[Peer(p)] \in Seq(Message)
    BY TwoProcs DEF SetupInv, TypeOK
  <2>3. log[p][i].no >= 1 /\ log[p][i].no + n = k + i /\ log[p][i].no \in Nat
    <3>1. log[p][i].no >= 1 /\ log[p][i].no + n = k + i
      BY <2>1, <2>2 DEF StreamInv, EndsIn
    <3>2. log[p][i] \in Message
      BY <2>2
    <3>3. QED
      BY <3>1, <3>2 DEF Current, Message
  <2>4. k > 0
    <3> HIDE DEF n, k
    <3>1. QED
      BY <2>1, <2>2, <2>3
  <2>5. PICK j \in DOMAIN Stream(p) : Stream(p)[j] = [run |-> run, no |-> 1]
    BY <2>2, <2>4 DEF FirstInv, StartsIn
  <2>6. j \in Nat /\ j <= n /\ j >= 1
    <3>1. Stream(p) \in Seq(Message)
      BY <2>2, StreamType
    <3>2. QED
      BY <3>1
  <2>7. j <= i
    <3>1. CASE j <= i
      BY <3>1
    <3>2. CASE i <= j
      <4>1. Stream(p)[j].no + n = k + j /\ Stream(p)[j].no = 1
        BY <2>1, <2>2, <2>5, <3>2 DEF StreamInv, EndsIn
      <4> HIDE DEF n, k
      <4>2. QED
        BY <2>1, <2>2, <2>3, <2>6, <3>2, <4>1
    <3>3. QED
      BY <2>1, <2>6, <3>1, <3>2
  <2>8. j \in DOMAIN log[p]
    BY <2>1, <2>2, <2>6, <2>7
  <2>9. QED
    BY <2>5, <2>8, LogInStream
<1>2. QED
  BY <1>1, SetupInductive, PTL
=============================================================================
