--------------------------- MODULE ShmRingProofs ---------------------------
(***************************************************************************)
(* With one writer the ring of net/pdes-communicator.c is a FIFO queue,    *)
(* for every size of the ring and every set of messages.                   *)
(***************************************************************************)
EXTENDS ShmRing, TLAPS, SequenceTheorems

-----------------------------------------------------------------------------
(* Indices.  UsedOf and ContentsOf are Used and Contents of a given ring,  *)
(* so that the lemmas speak of both states of a step.                      *)

UsedOf(w, r) == (w + RingSize - r) % RingSize
Place(r, i) == (r + i - 1) % RingSize
ContentsOf(s, w, r) == [i \in 1 .. UsedOf(w, r) |-> s[Place(r, i)]]

Data == Values \cup {None}

\* The remainder of communicator.c:167 wraps the last index to the first.
LEMMA SuccWraps ==
  ASSUME NEW i \in Slots
  PROVE  /\ Succ(i) \in Slots
         /\ Succ(i) = IF i = RingSize - 1 THEN 0 ELSE i + 1
BY RingSizeAssumption, SMTT(30) DEF Slots, Succ

\* How many messages lie between the indices; a full ring has one free slot.
LEMMA UsedCounts ==
  ASSUME NEW w \in Slots, NEW r \in Slots
  PROVE  /\ UsedOf(w, r) \in 0 .. RingSize - 1
         /\ UsedOf(w, r) = IF r <= w THEN w - r ELSE w + RingSize - r
BY RingSizeAssumption, SMTT(30) DEF Slots, UsedOf

\* Where the i-th message is.
LEMMA PlaceWraps ==
  ASSUME NEW r \in Slots, NEW i \in 1 .. RingSize
  PROVE  /\ Place(r, i) \in Slots
         /\ Place(r, i) = IF r + i - 1 < RingSize THEN r + i - 1 ELSE r + i - 1 - RingSize
BY RingSizeAssumption, SMTT(30) DEF Slots, Place

\* The contents are a sequence.
LEMMA ContentsSequence ==
  ASSUME NEW s \in [Slots -> Data], NEW w \in Slots, NEW r \in Slots
  PROVE  /\ ContentsOf(s, w, r) \in Seq(Data)
         /\ Len(ContentsOf(s, w, r)) = UsedOf(w, r)
         /\ \A i \in 1 .. UsedOf(w, r) : ContentsOf(s, w, r)[i] = s[Place(r, i)]
<1>1. UsedOf(w, r) \in Nat /\ UsedOf(w, r) < RingSize
  BY UsedCounts, RingSizeAssumption
<1>2. \A i \in 1 .. UsedOf(w, r) : Place(r, i) \in Slots
  BY <1>1, PlaceWraps, RingSizeAssumption
<1>3. ContentsOf(s, w, r) \in [1 .. UsedOf(w, r) -> Data]
  BY <1>2 DEF ContentsOf
<1>4. ContentsOf(s, w, r) \in Seq(Data)
  BY <1>1, <1>3
<1>5. Len(ContentsOf(s, w, r)) = UsedOf(w, r)
  BY <1>1, <1>3, <1>4, LenProperties
<1> QED BY <1>4, <1>5 DEF ContentsOf

\* The slot at write_idx is outside the contents.
LEMMA WriteOutside ==
  ASSUME NEW s \in [Slots -> Data], NEW w \in Slots, NEW r \in Slots, NEW m
  PROVE  ContentsOf([s EXCEPT ![w] = m], w, r) = ContentsOf(s, w, r)
<1>1. ASSUME NEW i \in 1 .. UsedOf(w, r)
      PROVE  Place(r, i) \in Slots /\ Place(r, i) # w
  <2> DEFINE u == UsedOf(w, r)
             p == Place(r, i)
  <2>1. /\ u \in 0 .. RingSize - 1
        /\ u = IF r <= w THEN w - r ELSE w + RingSize - r
    BY UsedCounts
  <2>2. i \in 1 .. RingSize /\ i <= u
    BY <2>1, RingSizeAssumption
  <2>3. p \in Slots /\ p = IF r + i - 1 < RingSize THEN r + i - 1 ELSE r + i - 1 - RingSize
    BY <2>2, PlaceWraps
  <2> HIDE DEF u, p
  <2>4. p # w
    BY <2>1, <2>2, <2>3, RingSizeAssumption DEF Slots
  <2> QED BY <2>3, <2>4 DEF p
<1> QED BY <1>1 DEF ContentsOf

\* write_idx moves one on, when the ring is not full: one message more.
LEMMA WriteAppends ==
  ASSUME NEW s \in [Slots -> Data], NEW w \in Slots, NEW r \in Slots,
         Succ(w) # r
  PROVE  /\ ContentsOf(s, Succ(w), r) = Append(ContentsOf(s, w, r), s[w])
         /\ UsedOf(w, r) < RingSize - 1
<1> DEFINE u == UsedOf(w, r)
           c == ContentsOf(s, w, r)
           d == ContentsOf(s, Succ(w), r)
<1>1. Succ(w) \in Slots BY SuccWraps
<1>2. /\ UsedOf(Succ(w), r) = u + 1
      /\ u \in Nat
      /\ u < RingSize - 1
      /\ Place(r, u + 1) = w
  <2> DEFINE t == Succ(w)
             v == UsedOf(t, r)
  <2>1. t \in Slots /\ t = IF w = RingSize - 1 THEN 0 ELSE w + 1
    BY SuccWraps
  <2>2. /\ u \in 0 .. RingSize - 1
        /\ u = IF r <= w THEN w - r ELSE w + RingSize - r
    BY UsedCounts
  <2>3. v = IF r <= t THEN t - r ELSE t + RingSize - r
    BY <2>1, UsedCounts
  <2> HIDE DEF t, u, v
  <2>4. v = u + 1 /\ u < RingSize - 1
    BY <2>1, <2>2, <2>3, RingSizeAssumption DEF Slots, t
  <2>5. u \in Nat /\ u + 1 \in 1 .. RingSize
    BY <2>2, RingSizeAssumption
  <2>6. Place(r, u + 1) = IF r + u < RingSize THEN r + u ELSE r + u - RingSize
    BY <2>5, PlaceWraps DEF Slots
  <2>7. Place(r, u + 1) = w
    BY <2>2, <2>6, RingSizeAssumption DEF Slots
  <2> QED BY <2>4, <2>5, <2>7 DEF v, t
<1>3. c \in Seq(Data) /\ Len(c) = u /\ \A i \in 1 .. u : c[i] = s[Place(r, i)]
  BY ContentsSequence
<1>4. d \in Seq(Data) /\ Len(d) = u + 1 /\ \A i \in 1 .. u + 1 : d[i] = s[Place(r, i)]
  BY <1>1, <1>2, ContentsSequence
<1>5. s[w] \in Data OBVIOUS
<1>6. /\ Append(c, s[w]) \in Seq(Data)
      /\ Len(Append(c, s[w])) = u + 1
      /\ \A i \in 1 .. u : Append(c, s[w])[i] = c[i]
      /\ Append(c, s[w])[u + 1] = s[w]
  BY <1>3, <1>5, AppendProperties
<1> HIDE DEF c, d, u
<1>7. \A i \in 1 .. u + 1 : d[i] = Append(c, s[w])[i]
  BY <1>2, <1>3, <1>4, <1>6
<1>8. d = Append(c, s[w])
  BY <1>4, <1>6, <1>7, SeqEqual
<1> QED BY <1>2, <1>8 DEF c, d, u

\* read_idx moves one on: the first message, at read_idx, is gone.
LEMMA ReadTakes ==
  ASSUME NEW s \in [Slots -> Data], NEW w \in Slots, NEW r \in Slots, r # w
  PROVE  /\ ContentsOf(s, w, r) # << >>
         /\ Head(ContentsOf(s, w, r)) = s[r]
         /\ ContentsOf(s, w, Succ(r)) = Tail(ContentsOf(s, w, r))
<1> DEFINE u == UsedOf(w, r)
           c == ContentsOf(s, w, r)
           d == ContentsOf(s, w, Succ(r))
<1>1. Succ(r) \in Slots BY SuccWraps
<1>2. /\ UsedOf(w, Succ(r)) = u - 1
      /\ u \in Nat \ {0}
      /\ u < RingSize
      /\ Place(r, 1) = r
  <2> DEFINE t == Succ(r)
             v == UsedOf(w, t)
  <2>1. t \in Slots /\ t = IF r = RingSize - 1 THEN 0 ELSE r + 1
    BY SuccWraps
  <2>2. /\ u \in 0 .. RingSize - 1
        /\ u = IF r <= w THEN w - r ELSE w + RingSize - r
    BY UsedCounts
  <2>3. v = IF t <= w THEN w - t ELSE w + RingSize - t
    BY <2>1, UsedCounts
  <2> HIDE DEF t, u, v
  <2>4. v = u - 1 /\ u \in Nat \ {0} /\ u < RingSize
    BY <2>1, <2>2, <2>3, RingSizeAssumption DEF Slots
  <2>5. Place(r, 1) = r
    BY PlaceWraps, RingSizeAssumption DEF Slots
  <2> QED BY <2>4, <2>5 DEF v, t
<1>3. ASSUME NEW i \in 1 .. u - 1
      PROVE  Place(Succ(r), i) = Place(r, i + 1)
  <2> DEFINE t == Succ(r)
             p == Place(t, i)
             q == Place(r, i + 1)
  <2>1. t \in Slots /\ t = IF r = RingSize - 1 THEN 0 ELSE r + 1
    BY SuccWraps
  <2>2. i \in 1 .. RingSize /\ i + 1 \in 1 .. RingSize /\ i + 1 < RingSize
    BY <1>2, RingSizeAssumption
  <2>3. p = IF t + i - 1 < RingSize THEN t + i - 1 ELSE t + i - 1 - RingSize
    BY <2>1, <2>2, PlaceWraps
  <2>4. q = IF r + (i + 1) - 1 < RingSize THEN r + (i + 1) - 1 ELSE r + (i + 1) - 1 - RingSize
    BY <2>2, PlaceWraps
  <2> HIDE DEF t, p, q
  <2>5. p = q
    BY <2>1, <2>2, <2>3, <2>4, RingSizeAssumption DEF Slots
  <2> QED BY <2>5 DEF p, q, t
<1>4. c \in Seq(Data) /\ Len(c) = u /\ \A i \in 1 .. u : c[i] = s[Place(r, i)]
  BY ContentsSequence
<1>5. d \in Seq(Data) /\ Len(d) = u - 1 /\ \A i \in 1 .. u - 1 : d[i] = s[Place(Succ(r), i)]
  <2> DEFINE t == Succ(r)
  <2>1. t \in Slots
    BY <1>1
  <2> HIDE DEF t
  <2>2. /\ ContentsOf(s, w, t) \in Seq(Data) /\ Len(ContentsOf(s, w, t)) = UsedOf(w, t)
        /\ \A i \in 1 .. UsedOf(w, t) : ContentsOf(s, w, t)[i] = s[Place(t, i)]
    BY <2>1, ContentsSequence
  <2>3. QED
    BY <1>2, <2>2 DEF t
<1> HIDE DEF c, d, u
<1>6. c # << >>
  BY <1>2, <1>4, EmptySeq
<1>7. /\ Tail(c) \in Seq(Data)
      /\ Len(Tail(c)) = u - 1
      /\ \A i \in 1 .. u - 1 : Tail(c)[i] = c[i + 1]
  BY <1>2, <1>4, <1>6, HeadTailProperties
<1>8. Head(c) = s[r]
  <2>1. Head(c) = c[1] BY <1>4, <1>6
  <2> QED BY <2>1, <1>2, <1>4
<1>9. \A i \in 1 .. u - 1 : d[i] = Tail(c)[i]
  BY <1>2, <1>3, <1>4, <1>5, <1>7
<1>10. d = Tail(c)
  BY <1>5, <1>7, <1>9, SeqEqual
<1> QED BY <1>6, <1>8, <1>10 DEF c, d, u

-----------------------------------------------------------------------------
(* Types and the inductive invariant *)

LEMMA TypeInit == Init => TypeOK
BY RingSizeAssumption DEF Init, TypeOK, Slots

LEMMA TypeNext == TypeOK /\ [Next]_vars => TypeOK'
<1> SUFFICES ASSUME TypeOK, [Next]_vars PROVE TypeOK'
  OBVIOUS
<1>1. Succ(writeIdx) \in Slots /\ Succ(readIdx) \in Slots
  BY SuccWraps DEF TypeOK
<1>2. ASSUME NEW w \in Writers, Call(w) PROVE TypeOK'
  BY <1>2 DEF Call, rvars, TypeOK
<1>3. ASSUME NEW w \in Writers, Index(w) PROVE TypeOK'
  BY <1>1, <1>3 DEF Index, rvars, TypeOK
<1>4. ASSUME NEW w \in Writers, Wait(w) PROVE TypeOK'
  BY <1>4 DEF Wait, rvars, TypeOK
<1>5. ASSUME NEW w \in Writers, Copy(w) PROVE TypeOK'
  BY <1>5 DEF Copy, rvars, TypeOK
<1>6. ASSUME NEW w \in Writers, Publish(w) PROVE TypeOK'
  BY <1>6 DEF Publish, rvars, TypeOK
<1>7. CASE ReadSlot
  BY <1>7 DEF ReadSlot, wvars, TypeOK
<1>8. CASE FreeSlot
  BY <1>1, <1>8 DEF FreeSlot, wvars, TypeOK
<1>9. CASE UNCHANGED vars
  BY <1>9 DEF vars, wvars, rvars, TypeOK
<1> QED BY <1>2, <1>3, <1>4, <1>5, <1>6, <1>7, <1>8, <1>9 DEF Next, Recv, Send

\* Both indices always name a slot, and every slot holds a message or nothing,
\* whatever the number of writers.
THEOREM RingTypes == Spec => []TypeOK
<1> QED BY TypeInit, TypeNext, PTL DEF Spec

LEMMA SoloInit == Init => SoloInv
BY NoneAssumption DEF Init, SoloInv, CopyIntact

LEMMA SoloNext ==
  ASSUME OneWriter, TypeOK, SoloInv, [Next]_vars
  PROVE  SoloInv'
<1> USE DEF SoloInv, CopyIntact
<1>1. ASSUME NEW w \in Writers, Call(w) PROVE SoloInv'
  BY <1>1, NoneAssumption DEF OneWriter, TypeOK, Call, rvars
<1>2. ASSUME NEW w \in Writers, Index(w) PROVE SoloInv'
  BY <1>2 DEF OneWriter, TypeOK, Index, rvars
<1>3. ASSUME NEW w \in Writers, Wait(w) PROVE SoloInv'
  BY <1>3 DEF OneWriter, TypeOK, Wait, rvars
<1>4. ASSUME NEW w \in Writers, Copy(w) PROVE SoloInv'
  BY <1>4 DEF OneWriter, TypeOK, Copy, rvars
<1>5. ASSUME NEW w \in Writers, Publish(w) PROVE SoloInv'
  BY <1>5 DEF OneWriter, TypeOK, Publish, rvars
<1>6. CASE ReadSlot
  BY <1>6 DEF TypeOK, ReadSlot, wvars
<1>7. CASE FreeSlot
  <2>1. Succ(readIdx) # Succ(writeIdx)
    <3>1. /\ Succ(readIdx) = IF readIdx = RingSize - 1 THEN 0 ELSE readIdx + 1
          /\ Succ(writeIdx) = IF writeIdx = RingSize - 1 THEN 0 ELSE writeIdx + 1
      BY SuccWraps DEF TypeOK
    <3>2. readIdx # writeIdx
      BY <1>7 DEF FreeSlot
    <3> QED BY <3>1, <3>2, RingSizeAssumption DEF TypeOK, Slots
  <2> QED BY <1>7, <2>1 DEF TypeOK, FreeSlot, wvars
<1>8. CASE UNCHANGED vars
  BY <1>8 DEF vars, wvars, rvars
<1> QED BY <1>1, <1>2, <1>3, <1>4, <1>5, <1>6, <1>7, <1>8 DEF Next, Recv, Send

\* One writer needs no lock: next_write and the test for space, made before the
\* wait and the copy, still hold at the store of write_idx.
THEOREM RingInductive ==
  ASSUME OneWriter
  PROVE  Spec => []SoloInv
<1>1. TypeOK /\ SoloInv /\ [Next]_vars => SoloInv'
  BY SoloNext
<1> QED BY <1>1, RingTypes, SoloInit, PTL DEF Spec

\* The message the reader copies is not overwritten before read_idx moves on.
THEOREM ReaderCopiesWhole ==
  ASSUME OneWriter
  PROVE  Spec => []CopyIntact
<1>1. SoloInv => CopyIntact
  BY DEF SoloInv
<1> QED BY <1>1, RingInductive, PTL

-----------------------------------------------------------------------------
(* The ring implements the queue: the call is a request, the store of      *)
(* write_idx puts the message, the store of read_idx takes it, and the     *)
(* other accesses change nothing that the queue has.                       *)

LEMMA ContentsIs == Contents = ContentsOf(slots, writeIdx, readIdx)
BY DEF Contents, ContentsOf, Used, UsedOf, Place

LEMMA ContentsIsNext == Contents' = ContentsOf(slots', writeIdx', readIdx')
BY DEF Contents, ContentsOf, Used, UsedOf, Place

LEMMA QueueStart == Init => Queue!Init
<1> SUFFICES ASSUME Init PROVE Contents = << >> /\ Queue!Init
  OBVIOUS
<1>1. TypeOK
  BY TypeInit
<1>2. slots \in [Slots -> Data] /\ writeIdx = 0 /\ readIdx = 0 /\ 0 \in Slots
  BY <1>1 DEF Init, TypeOK, Data
<1>3. UsedOf(0, 0) = 0
  BY <1>2, UsedCounts
<1>4. ContentsOf(slots, 0, 0) \in Seq(Data) /\ Len(ContentsOf(slots, 0, 0)) = 0
  BY <1>2, <1>3, ContentsSequence
<1>5. Contents = << >>
  BY <1>2, <1>4, ContentsIs, EmptySeq
<1> QED BY <1>5 DEF Init, Queue!Init

LEMMA QueueStep ==
  ASSUME TypeOK, SoloInv, [Next]_vars
  PROVE  [Queue!Next]_(Queue!vars)
<1>1. /\ slots \in [Slots -> Data]
      /\ writeIdx \in Slots
      /\ readIdx \in Slots
  BY DEF TypeOK, Data
<1>2. ASSUME UNCHANGED <<slots, writeIdx, readIdx>>
      PROVE  UNCHANGED Contents
  BY <1>2 DEF Contents, Used
<1>3. ASSUME NEW w \in Writers, Call(w) PROVE Queue!Request(w)
  <2>1. msg[w] = None
    BY <1>3 DEF Call, SoloInv
  <2> QED BY <1>2, <1>3, <2>1 DEF Call, rvars, Queue!Request
<1>4. ASSUME NEW w \in Writers, Index(w) \/ Wait(w) PROVE UNCHANGED Queue!vars
  BY <1>2, <1>4 DEF Index, Wait, rvars, Queue!vars
<1>5. ASSUME NEW w \in Writers, Copy(w) PROVE UNCHANGED Queue!vars
  <2>1. /\ slots' = [slots EXCEPT ![writeIdx] = msg[w]]
        /\ UNCHANGED <<writeIdx, readIdx, msg, out>>
    BY <1>5 DEF Copy, rvars
  <2>2. ContentsOf(slots', writeIdx', readIdx') = ContentsOf(slots, writeIdx, readIdx)
    BY <1>1, <2>1, WriteOutside
  <2> QED BY <2>1, <2>2, ContentsIs, ContentsIsNext DEF Queue!vars
<1>6. ASSUME NEW w \in Writers, Publish(w) PROVE Queue!Put(w)
  <2>1. /\ writeIdx' = Succ(writeIdx)
        /\ Succ(writeIdx) # readIdx
        /\ slots[writeIdx] = msg[w]
        /\ msg[w] # None
        /\ msg' = [msg EXCEPT ![w] = None]
        /\ UNCHANGED <<slots, readIdx, out>>
    BY <1>6 DEF Publish, SoloInv, rvars
  <2>2. /\ Contents' = Append(Contents, msg[w])
        /\ UsedOf(writeIdx, readIdx) < RingSize - 1
    BY <1>1, <2>1, WriteAppends, ContentsIs, ContentsIsNext
  <2>3. Len(Contents) < RingSize - 1
    BY <1>1, <2>2, ContentsSequence, ContentsIs
  <2> QED BY <2>1, <2>2, <2>3 DEF Queue!Put
<1>7. ASSUME ReadSlot PROVE UNCHANGED Queue!vars
  BY <1>2, <1>7 DEF ReadSlot, wvars, Queue!vars
<1>8. ASSUME FreeSlot PROVE Queue!Take
  <2>1. /\ readIdx' = Succ(readIdx)
        /\ readIdx # writeIdx
        /\ out' = slots[readIdx]
        /\ UNCHANGED <<slots, writeIdx, msg>>
    BY <1>8 DEF FreeSlot, SoloInv, CopyIntact, wvars
  <2>2. /\ Contents # << >>
        /\ Head(Contents) = slots[readIdx]
        /\ Contents' = Tail(Contents)
    BY <1>1, <2>1, ReadTakes, ContentsIs, ContentsIsNext
  <2> QED BY <2>1, <2>2 DEF Queue!Take
<1>9. ASSUME UNCHANGED vars PROVE UNCHANGED Queue!vars
  BY <1>2, <1>9 DEF vars, wvars, rvars, Queue!vars
<1> QED
  BY <1>3, <1>4, <1>5, <1>6, <1>7, <1>8, <1>9 DEF Next, Recv, Send, Queue!Next

\* Nothing that one writer hands to pdes_comm_send is lost, doubled, altered or
\* overtaken on the way to pdes_comm_recv.
THEOREM RingIsFifo ==
  ASSUME OneWriter
  PROVE  Spec => FifoSafety
<1>1. TypeOK /\ SoloInv /\ [Next]_vars => [Queue!Next]_(Queue!vars)
  BY QueueStep
<1> QED
  BY <1>1, QueueStart, RingTypes, RingInductive, PTL DEF Spec, FifoSafety, Queue!Safety
=============================================================================
