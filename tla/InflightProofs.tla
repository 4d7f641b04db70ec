---------------------------- MODULE InflightProofs ----------------------------
(***************************************************************************)
(* PendingInv is inductive: the list of pending messages, the armed timers *)
(* and the file of the last snapshot hold the same packets, equal ones     *)
(* counted, for any contents and any bounds.                               *)
(***************************************************************************)
EXTENDS InflightMessages, SequenceTheorems, FiniteSetTheorems, TLAPS

\* Where x stands in s, and how often.
Places(s, x) == {i \in DOMAIN s : s[i] = x}
Count(s, x)  == Cardinality(Places(s, x))

-----------------------------------------------------------------------------
(* Counting. *)

LEMMA PlacesFinite ==
  ASSUME NEW S, NEW s \in Seq(S), NEW x
  PROVE  IsFiniteSet(Places(s, x)) /\ Count(s, x) \in Nat
<1>1. Len(s) \in Nat /\ DOMAIN s = 1 .. Len(s)
  BY LenProperties
<1>2. IsFiniteSet(1 .. Len(s))
  BY <1>1, FS_Interval
<1>3. Places(s, x) \in SUBSET (1 .. Len(s))
  BY <1>1 DEF Places
<1>4. IsFiniteSet(Places(s, x))
  BY <1>2, <1>3, FS_Subset
<1>5. QED
  BY <1>4, FS_CardinalityType DEF Count

\* Two sets with a bijection between them are as large as each other.
LEMMA SameSize ==
  ASSUME NEW D, NEW E, IsFiniteSet(D), NEW f \in [D -> E],
         \A a, b \in D : f[a] = f[b] => a = b,
         \A e \in E : \E d \in D : f[d] = e
  PROVE  Cardinality(E) = Cardinality(D)
<1>1. f \in Bijection(D, E)
  BY DEF Bijection, Injection, Surjection, IsInjective
<1>2. ExistsBijection(D, E)
  BY <1>1 DEF ExistsBijection
<1>3. QED
  BY <1>2, FS_Bijection

\* Equal counts make equal bags.
LEMMA SameBag ==
  ASSUME NEW S, NEW s \in Seq(S), NEW t \in Seq(S)
  PROVE  ToBag(s) = ToBag(t) <=> \A x \in S : Count(s, x) = Count(t, x)
<1>1. ASSUME NEW u \in Seq(S), NEW x
      PROVE  x \in Range(u) <=> Count(u, x) # 0
  <2>1. x \in Range(u) <=> Places(u, x) # {}
    BY DEF Range, Places
  <2>2. IsFiniteSet(Places(u, x))
    BY PlacesFinite
  <2>3. Count(u, x) = 0 <=> Places(u, x) = {}
    BY <2>2, FS_EmptySet DEF Count
  <2>4. QED
    BY <2>1, <2>3
<1>2. ASSUME NEW u \in Seq(S)
      PROVE  /\ Range(u) \subseteq S
             /\ DOMAIN ToBag(u) = Range(u)
             /\ ToBag(u) = [x \in Range(u) |-> Count(u, x)]
             /\ \A x \in Range(u) : ToBag(u)[x] = Count(u, x)
  <2>1. Range(u) \subseteq S
    BY LenProperties DEF Range
  <2>2. ToBag(u) = [x \in Range(u) |-> Count(u, x)]
    BY DEF ToBag, Count, Places
  <2>3. QED
    BY <2>1, <2>2
<1>3. ASSUME ToBag(s) = ToBag(t), NEW x \in S
      PROVE  Count(s, x) = Count(t, x)
  <2>1. Range(s) = Range(t)
    BY <1>2, <1>3
  <2>2. CASE x \in Range(s)
    BY <1>2, <1>3, <2>1, <2>2
  <2>3. CASE x \notin Range(s)
    <3>1. Count(s, x) = 0 /\ Count(t, x) = 0
      BY <1>1, <2>1, <2>3
    <3>2. QED
      BY <3>1
  <2>4. QED
    BY <2>2, <2>3
<1>4. ASSUME \A x \in S : Count(s, x) = Count(t, x)
      PROVE  ToBag(s) = ToBag(t)
  <2>1. Range(s) \subseteq S /\ Range(t) \subseteq S
    BY <1>2
  <2>2. \A x : x \in Range(s) <=> x \in Range(t)
    <3>1. ASSUME NEW x PROVE x \in Range(s) <=> x \in Range(t)
      <4>1. CASE x \in S
        <5>1. Count(s, x) = Count(t, x)
          BY <1>4, <4>1
        <5>2. QED
          BY <1>1, <5>1
      <4>2. CASE x \notin S
        BY <2>1, <4>2
      <4>3. QED
        BY <4>1, <4>2
    <3>2. QED
      BY <3>1
  <2>3. Range(s) = Range(t)
    BY <2>2
  <2>4. [x \in Range(s) |-> Count(s, x)] = [x \in Range(t) |-> Count(t, x)]
    BY <1>4, <2>1, <2>3
  <2>5. QED
    BY <1>2, <2>4
<1>5. QED
  BY <1>3, <1>4
-----------------------------------------------------------------------------
(* What the list operations do to the counts. *)

One(b) == IF b THEN 1 ELSE 0

\* A packet at the head of the list.
LEMMA CountCons ==
  ASSUME NEW S, NEW s \in Seq(S), NEW p \in S, NEW x
  PROVE  /\ <<p>> \o s \in Seq(S)
         /\ Count(<<p>> \o s, x) = Count(s, x) + One(p = x)
<1> DEFINE t == <<p>> \o s
           f == [i \in Places(s, x) |-> i + 1]
<1>1. /\ t \in Seq(S) /\ Len(t) = Len(s) + 1 /\ t[1] = p
      /\ \A i \in 1 .. Len(s) : t[i + 1] = s[i]
  <2>1. <<p>> \in Seq(S) /\ Len(<<p>>) = 1 /\ <<p>>[1] = p /\ Len(s) \in Nat
    OBVIOUS
  <2>2. /\ t \in Seq(S) /\ Len(t) = Len(<<p>>) + Len(s)
        /\ \A i \in 1 .. Len(<<p>>) + Len(s) :
             t[i] = IF i <= Len(<<p>>) THEN <<p>>[i] ELSE s[i - Len(<<p>>)]
    BY <2>1, ConcatProperties
  <2>3. t[1] = p
    BY <2>1, <2>2
  <2>4. ASSUME NEW i \in 1 .. Len(s) PROVE t[i + 1] = s[i]
    BY <2>1, <2>2
  <2>5. QED
    BY <2>1, <2>2, <2>3, <2>4
<1> HIDE DEF t
<1>2. /\ DOMAIN s = 1 .. Len(s) /\ Len(s) \in Nat /\ DOMAIN t = 1 .. Len(s) + 1
  BY <1>1, LenProperties
<1> DEFINE E == Places(t, x) \ {1}
<1>3. /\ f \in [Places(s, x) -> E]
      /\ \A i, j \in Places(s, x) : f[i] = f[j] => i = j
  BY <1>1, <1>2 DEF Places
<1>4. ASSUME NEW e \in E PROVE \E i \in Places(s, x) : f[i] = e
  <2>1. e - 1 \in Places(s, x)
    BY <1>1, <1>2 DEF Places
  <2>2. f[e - 1] = e
    BY <1>2, <2>1 DEF Places
  <2>3. QED
    BY <2>1, <2>2
<1>5. IsFiniteSet(Places(s, x)) /\ IsFiniteSet(Places(t, x)) /\ Count(s, x) \in Nat /\ Count(t, x) \in Nat
  BY <1>1, PlacesFinite
<1> HIDE DEF f
<1>6. Cardinality(E) = Count(s, x)
  <2> HIDE DEF E
  <2>1. QED
    BY <1>3, <1>4, <1>5, SameSize DEF Count
<1>7. Cardinality(E) = IF 1 \in Places(t, x) THEN Count(t, x) - 1 ELSE Count(t, x)
  BY <1>5, FS_RemoveElement DEF Count
<1>8. 1 \in Places(t, x) <=> p = x
  BY <1>1, <1>2 DEF Places
<1>9. Count(t, x) = Count(s, x) + One(p = x)
  BY <1>5, <1>6, <1>7, <1>8 DEF One
<1>10. QED
  BY <1>1, <1>9 DEF t

\* A timer that is armed last.
LEMMA CountAppend ==
  ASSUME NEW S, NEW s \in Seq(S), NEW p \in S, NEW x
  PROVE  /\ Append(s, p) \in Seq(S)
         /\ Count(Append(s, p), x) = Count(s, x) + One(p = x)
<1> DEFINE t == Append(s, p)
           n == Len(s) + 1
<1>1. /\ t \in Seq(S) /\ Len(t) = n /\ t[n] = p
      /\ \A i \in 1 .. Len(s) : t[i] = s[i]
  BY AppendProperties
<1>2. /\ DOMAIN s = 1 .. Len(s) /\ Len(s) \in Nat /\ DOMAIN t = 1 .. n
  BY <1>1, LenProperties
<1>3. Places(s, x) = Places(t, x) \ {n}
  <2> HIDE DEF t
  <2>1. QED
    BY <1>1, <1>2 DEF Places
<1>4. n \in Places(t, x) <=> p = x
  BY <1>1, <1>2 DEF Places
<1>5. IsFiniteSet(Places(t, x)) /\ Count(s, x) \in Nat /\ Count(t, x) \in Nat
  BY <1>1, PlacesFinite
<1>6. Count(s, x) = IF n \in Places(t, x) THEN Count(t, x) - 1 ELSE Count(t, x)
  BY <1>3, <1>5, FS_RemoveElement DEF Count
<1>7. QED
  BY <1>1, <1>4, <1>5, <1>6 DEF One

\* The file is read from the end into the list.
LEMMA CountReverse ==
  ASSUME NEW S, NEW s \in Seq(S), NEW x
  PROVE  /\ Reverse(s) \in Seq(S) /\ Len(Reverse(s)) = Len(s)
         /\ Count(Reverse(s), x) = Count(s, x)
<1> DEFINE t == Reverse(s)
           f == [i \in Places(s, x) |-> Len(s) - i + 1]
<1>1. DOMAIN s = 1 .. Len(s) /\ Len(s) \in Nat /\ \A i \in 1 .. Len(s) : s[i] \in S
  BY LenProperties
<1>2. \A i \in 1 .. Len(s) : Len(s) - i + 1 \in 1 .. Len(s)
  BY <1>1
<1>3. t = [i \in 1 .. Len(s) |-> s[Len(s) - i + 1]]
  BY DEF Reverse
<1>4. t \in Seq(S) /\ Len(t) = Len(s)
  <2>1. t \in [1 .. Len(s) -> S]
    BY <1>1, <1>2, <1>3
  <2>2. QED
    BY <1>1, <2>1
<1>5. DOMAIN t = 1 .. Len(s) /\ \A i \in 1 .. Len(s) : t[i] = s[Len(s) - i + 1]
  BY <1>3
<1> HIDE DEF t
<1>6. ASSUME NEW i \in 1 .. Len(s)
      PROVE  Len(s) - (Len(s) - i + 1) + 1 = i /\ t[Len(s) - i + 1] = s[i]
  BY <1>1, <1>2, <1>5
<1>7. ASSUME NEW i \in Places(s, x) PROVE Len(s) - i + 1 \in Places(t, x)
  BY <1>1, <1>2, <1>5, <1>6 DEF Places
<1>8. /\ f \in [Places(s, x) -> Places(t, x)]
      /\ \A i, j \in Places(s, x) : f[i] = f[j] => i = j
  <2>1. f \in [Places(s, x) -> Places(t, x)]
    BY <1>7
  <2>2. ASSUME NEW i \in Places(s, x), NEW j \in Places(s, x), f[i] = f[j] PROVE i = j
    <3>1. i \in 1 .. Len(s) /\ j \in 1 .. Len(s)
      BY <1>1 DEF Places
    <3>2. Len(s) - i + 1 = Len(s) - j + 1
      BY <2>2
    <3>3. QED
      BY <1>1, <3>1, <3>2
  <2>3. QED
    BY <2>1, <2>2
<1>9. ASSUME NEW e \in Places(t, x) PROVE \E i \in Places(s, x) : f[i] = e
  <2>1. e \in 1 .. Len(s) /\ t[e] = x
    BY <1>5 DEF Places
  <2>2. Len(s) - e + 1 \in Places(s, x)
    BY <1>1, <1>2, <1>5, <2>1 DEF Places
  <2>3. f[Len(s) - e + 1] = e
    BY <1>6, <2>1, <2>2
  <2>4. QED
    BY <2>2, <2>3
<1>10. IsFiniteSet(Places(s, x))
  BY PlacesFinite
<1> HIDE DEF f
<1>11. Count(t, x) = Count(s, x)
  BY <1>8, <1>9, <1>10, SameSize DEF Count
<1>12. QED
  BY <1>4, <1>11 DEF t

\* What is left when one element is taken out.
LEMMA RestElements ==
  ASSUME NEW S, NEW s \in Seq(S), NEW c \in DOMAIN s
  PROVE  /\ RemoveAt(s, c) \in Seq(S) /\ Len(RemoveAt(s, c)) = Len(s) - 1
         /\ \A k \in 1 .. Len(s) - 1 :
              RemoveAt(s, c)[k] = IF k < c THEN s[k] ELSE s[k + 1]
<1> DEFINE a == SubSeq(s, 1, c - 1)
           b == SubSeq(s, c + 1, Len(s))
<1> HIDE DEF a, b
<1>1. Len(s) \in Nat /\ DOMAIN s = 1 .. Len(s) /\ c \in 1 .. Len(s) /\ c \in Int
  OBVIOUS
<1>2. /\ a \in Seq(S) /\ Len(a) = c - 1
      /\ \A k \in 1 .. c - 1 : a[k] = s[k]
  <2>1. \A i \in 1 .. c - 1 : s[i] \in S
    BY <1>1
  <2>2. /\ a \in Seq(S)
        /\ Len(a) = IF 1 <= c - 1 THEN (c - 1) - 1 + 1 ELSE 0
        /\ \A k \in 1 .. (c - 1) - 1 + 1 : a[k] = s[1 + k - 1]
    BY <1>1, <2>1, SubSeqProperties DEF a
  <2>3. QED
    BY <1>1, <2>2
<1>3. /\ b \in Seq(S) /\ Len(b) = Len(s) - c
      /\ \A k \in 1 .. Len(s) - c : b[k] = s[c + k]
  <2>1. \A i \in c + 1 .. Len(s) : s[i] \in S
    BY <1>1
  <2>2. /\ b \in Seq(S)
        /\ Len(b) = IF c + 1 <= Len(s) THEN Len(s) - (c + 1) + 1 ELSE 0
        /\ \A k \in 1 .. Len(s) - (c + 1) + 1 : b[k] = s[c + 1 + k - 1]
    <3> DEFINE l == c + 1
               m == Len(s)
    <3>1. l \in Int /\ m \in Int /\ \A i \in l .. m : s[i] \in S
      BY <1>1, <2>1
    <3>2. b = SubSeq(s, l, m)
      BY DEF b
    <3> HIDE DEF l, m
    <3>3. /\ b \in Seq(S) /\ Len(b) = IF l <= m THEN m - l + 1 ELSE 0
          /\ \A k \in 1 .. m - l + 1 : b[k] = s[l + k - 1]
      BY <3>1, <3>2, SubSeqProperties
    <3>4. QED
      BY <3>3 DEF l, m
  <2>3. PICK e \in Nat : e = Len(s)
    BY <1>1
  <2>4. Len(b) = e - c
    <3>1. Len(b) = IF c + 1 <= e THEN e - (c + 1) + 1 ELSE 0
      BY <2>2, <2>3
    <3>2. c \in Nat /\ c <= e
      BY <1>1, <2>3
    <3>3. QED
      BY ONLY <3>1, <3>2, <2>3
  <2>5. ASSUME NEW k \in 1 .. e - c PROVE b[k] = s[c + k]
    <3>1. k \in 1 .. e - (c + 1) + 1 /\ c + 1 + k - 1 = c + k
      BY <1>1
    <3>2. QED
      BY <2>2, <2>3, <3>1
  <2>6. QED
    BY <2>2, <2>3, <2>4, <2>5
<1>4. /\ RemoveAt(s, c) \in Seq(S) /\ Len(RemoveAt(s, c)) = Len(s) - 1
      /\ \A k \in 1 .. Len(s) - 1 :
           RemoveAt(s, c)[k] = IF k <= c - 1 THEN a[k] ELSE b[k - (c - 1)]
  <2>1. /\ a \o b \in Seq(S) /\ Len(a \o b) = Len(a) + Len(b)
        /\ \A k \in 1 .. Len(a) + Len(b) :
             (a \o b)[k] = IF k <= Len(a) THEN a[k] ELSE b[k - Len(a)]
    BY <1>2, <1>3, ConcatProperties
  <2>2. Len(a) + Len(b) = Len(s) - 1
    BY <1>1, <1>2, <1>3
  <2>3. DOMAIN (a \o b) = 1 .. Len(a \o b)
    BY <2>1, LenProperties
  <2>4. QED
    BY <1>2, <2>1, <2>2, <2>3 DEF RemoveAt, a, b
<1>5. ASSUME NEW k \in 1 .. Len(s) - 1
      PROVE  RemoveAt(s, c)[k] = IF k < c THEN s[k] ELSE s[k + 1]
  <2>1. CASE k < c
    BY <1>1, <1>2, <1>4, <2>1
  <2>2. CASE ~(k < c)
    <3>1. /\ k - (c - 1) \in 1 .. Len(s) - c /\ c + (k - (c - 1)) = k + 1
          /\ ~(k <= c - 1)
      BY <1>1, <2>2
    <3>2. b[k - (c - 1)] = s[k + 1]
      BY <1>3, <3>1
    <3>3. QED
      BY <1>4, <2>2, <3>1, <3>2
  <2>3. QED
    BY <2>1, <2>2
<1>6. \A k \in 1 .. Len(s) - 1 :
        RemoveAt(s, c)[k] = IF k < c THEN s[k] ELSE s[k + 1]
  BY <1>5
<1>7. QED
  BY <1>4, <1>6

\* Taking one out changes the count of its like by one.
LEMMA CountRemove ==
  ASSUME NEW S, NEW s \in Seq(S), NEW c \in DOMAIN s, NEW x
  PROVE  /\ RemoveAt(s, c) \in Seq(S)
         /\ Count(RemoveAt(s, c), x) = Count(s, x) - One(s[c] = x)
<1> DEFINE t == RemoveAt(s, c)
           E == Places(s, x) \ {c}
           f == [i \in Places(t, x) |-> IF i < c THEN i ELSE i + 1]
<1>1. /\ Len(s) \in Nat /\ DOMAIN s = 1 .. Len(s) /\ c \in 1 .. Len(s)
      /\ t \in Seq(S) /\ Len(t) = Len(s) - 1
      /\ \A k \in 1 .. Len(s) - 1 : t[k] = IF k < c THEN s[k] ELSE s[k + 1]
  <2>1. Len(s) \in Nat /\ DOMAIN s = 1 .. Len(s) /\ c \in 1 .. Len(s)
    BY LenProperties
  <2>2. /\ RemoveAt(s, c) \in Seq(S) /\ Len(RemoveAt(s, c)) = Len(s) - 1
        /\ \A k \in 1 .. Len(s) - 1 :
             RemoveAt(s, c)[k] = IF k < c THEN s[k] ELSE s[k + 1]
    BY RestElements
  <2>3. QED
    BY <2>1, <2>2
<1> HIDE DEF t
<1>2. DOMAIN t = 1 .. Len(s) - 1
  BY <1>1, LenProperties
<1>3. ASSUME NEW i \in Places(t, x)
      PROVE  i \in 1 .. Len(s) - 1 /\ f[i] = (IF i < c THEN i ELSE i + 1) /\ f[i] \in E
  <2>1. i \in 1 .. Len(s) - 1 /\ t[i] = x /\ f[i] = (IF i < c THEN i ELSE i + 1)
    BY <1>2 DEF Places
  <2>2. CASE i < c
    BY <1>1, <2>1, <2>2 DEF Places
  <2>3. CASE ~(i < c)
    BY <1>1, <2>1, <2>3 DEF Places
  <2>4. QED
    BY <2>1, <2>2, <2>3
<1>4. /\ f \in [Places(t, x) -> E]
      /\ \A i, j \in Places(t, x) : f[i] = f[j] => i = j
  <2>1. f \in [Places(t, x) -> E]
    BY <1>3
  <2> HIDE DEF f, E
  <2>2. ASSUME NEW i \in Places(t, x), NEW j \in Places(t, x), f[i] = f[j] PROVE i = j
    BY <1>1, <1>3, <2>2
  <2>3. QED
    BY <2>1, <2>2
<1>5. ASSUME NEW e \in E PROVE \E i \in Places(t, x) : f[i] = e
  <2>1. e \in 1 .. Len(s) /\ e # c /\ s[e] = x
    BY <1>1 DEF Places
  <2>2. CASE e < c
    <3>1. e \in Places(t, x)
      BY <1>1, <1>2, <2>1, <2>2 DEF Places
    <3>2. QED
      BY <2>2, <3>1
  <2>3. CASE ~(e < c)
    <3>1. e - 1 \in 1 .. Len(s) - 1 /\ ~(e - 1 < c) /\ (e - 1) + 1 = e
      BY <1>1, <2>1, <2>3
    <3>2. e - 1 \in Places(t, x)
      BY <1>1, <1>2, <2>1, <3>1 DEF Places
    <3>3. QED
      BY <3>1, <3>2
  <2>4. QED
    BY <2>2, <2>3
<1>6. IsFiniteSet(Places(s, x)) /\ IsFiniteSet(Places(t, x)) /\ Count(s, x) \in Nat
  BY <1>1, PlacesFinite
<1> HIDE DEF f
<1>7. Cardinality(E) = Count(t, x)
  <2> HIDE DEF E
  <2>1. QED
    BY <1>4, <1>5, <1>6, SameSize DEF Count
<1>8. Cardinality(E) = IF c \in Places(s, x) THEN Count(s, x) - 1 ELSE Count(s, x)
  BY <1>6, FS_RemoveElement DEF Count
<1>9. c \in Places(s, x) <=> s[c] = x
  BY <1>1 DEF Places
<1>10. Count(t, x) = Count(s, x) - One(s[c] = x)
  BY <1>6, <1>7, <1>8, <1>9 DEF One
<1>11. QED
  BY <1>1, <1>10 DEF t

\* There is a least element.
LEMMA LeastOne ==
  ASSUME NEW I \in SUBSET Nat, I # {} PROVE \E x \in I : \A y \in I : x <= y
<1> DEFINE R == OpToRel(<, Nat)
<1>1. IsWellFoundedOn(R, Nat)
  BY NatLessThanWellFounded
<1> HIDE DEF R
<1>2. PICK x \in I : \A y \in I : <<y, x>> \notin R
  BY <1>1, WFMin
<1>3. ASSUME NEW y \in I PROVE x <= y
  <2>1. <<y, x>> \notin OpToRel(<, Nat)
    BY <1>2 DEF R
  <2>2. ~(y < x)
    BY <2>1 DEF OpToRel
  <2>3. QED
    BY <2>2
<1>4. QED
  BY <1>3

\* pdes_inflight_remove takes one match out, if there is one.
LEMMA RemovesMatch ==
  ASSUME NEW s \in Seq(Packet), NEW p \in Packet, \E i \in DOMAIN s : Matches(s[i], p)
  PROVE  \E i \in DOMAIN s :
           Matches(s[i], p) /\ RemoveFirstMatch(s, LAMBDA e : Matches(e, p)) = RemoveAt(s, i)
<1> DEFINE I == {i \in 1 .. Len(s) : Matches(s[i], p)}
           r == RemoveFirstMatch(s, LAMBDA e : Matches(e, p))
           k == SelectInSeq(s, LAMBDA e : Matches(e, p))
<1>0. DOMAIN s = 1 .. Len(s) /\ I # {} /\ I \in SUBSET Nat
  BY LenProperties
<1>1. (\E i \in 1 .. Len(s) : Matches(s[i], p)) => r = RemoveAt(s, k)
  BY Zenon DEF RemoveFirstMatch
<1>2. I # {} => k = Min(I)
  BY Zenon DEF SelectInSeq
<1> HIDE DEF r, k
<1>3. Min(I) \in I
  <2> HIDE DEF I
  <2>1. \E i \in I : \A j \in I : i <= j
    BY <1>0, LeastOne
  <2>2. QED
    BY <2>1 DEF Min
<1>4. k \in DOMAIN s /\ Matches(s[k], p)
  BY <1>0, <1>2, <1>3
<1>5. r = RemoveAt(s, k)
  BY <1>0, <1>1
<1>6. \E i \in DOMAIN s : Matches(s[i], p) /\ r = RemoveAt(s, i)
  BY <1>4, <1>5
<1>7. QED
  BY Zenon, <1>6 DEF r

-----------------------------------------------------------------------------
(* The same, of bags. *)

LEMMA BagAdd ==
  ASSUME NEW S, NEW s \in Seq(S), NEW t \in Seq(S), ToBag(s) = ToBag(t), NEW p \in S
  PROVE  ToBag(<<p>> \o s) = ToBag(Append(t, p))
<1>1. <<p>> \o s \in Seq(S) /\ Append(t, p) \in Seq(S)
  BY CountCons, CountAppend
<1>2. ASSUME NEW x \in S PROVE Count(<<p>> \o s, x) = Count(Append(t, p), x)
  <2>1. Count(s, x) = Count(t, x)
    BY SameBag
  <2>2. /\ Count(<<p>> \o s, x) = Count(s, x) + One(p = x)
        /\ Count(Append(t, p), x) = Count(t, x) + One(p = x)
    BY CountCons, CountAppend
  <2>3. QED
    BY <2>1, <2>2
<1>3. QED
  <2> DEFINE u == <<p>> \o s
             v == Append(t, p)
  <2> HIDE DEF u, v
  <2>1. u \in Seq(S) /\ v \in Seq(S) /\ \A x \in S : Count(u, x) = Count(v, x)
    BY <1>1, <1>2 DEF u, v
  <2>2. ToBag(u) = ToBag(v)
    BY <2>1, SameBag
  <2>3. QED
    BY <2>2 DEF u, v

LEMMA BagRemove ==
  ASSUME NEW S, NEW s \in Seq(S), NEW t \in Seq(S), ToBag(s) = ToBag(t),
         NEW i \in DOMAIN s, NEW j \in DOMAIN t, s[i] = t[j]
  PROVE  ToBag(RemoveAt(s, i)) = ToBag(RemoveAt(t, j))
<1>1. RemoveAt(s, i) \in Seq(S) /\ RemoveAt(t, j) \in Seq(S)
  BY CountRemove
<1>2. ASSUME NEW x \in S PROVE Count(RemoveAt(s, i), x) = Count(RemoveAt(t, j), x)
  <2>1. Count(s, x) = Count(t, x)
    BY SameBag
  <2>2. /\ Count(RemoveAt(s, i), x) = Count(s, x) - One(s[i] = x)
        /\ Count(RemoveAt(t, j), x) = Count(t, x) - One(t[j] = x)
    BY CountRemove
  <2>3. QED
    BY <2>1, <2>2
<1>3. QED
  BY <1>1, <1>2, SameBag

LEMMA BagReverse ==
  ASSUME NEW S, NEW s \in Seq(S)
  PROVE  /\ Reverse(s) \in Seq(S) /\ Len(Reverse(s)) = Len(s)
         /\ ToBag(Reverse(s)) = ToBag(s)
<1>1. /\ Reverse(s) \in Seq(S) /\ Len(Reverse(s)) = Len(s)
      /\ \A x \in S : Count(Reverse(s), x) = Count(s, x)
  BY CountReverse
<1>2. QED
  BY <1>1, SameBag

\* Equal bags have the same elements.
LEMMA BagElements ==
  ASSUME NEW s, NEW t, ToBag(s) = ToBag(t), NEW i \in DOMAIN s
  PROVE  \E j \in DOMAIN t : t[j] = s[i]
<1>1. DOMAIN ToBag(s) = Range(s) /\ DOMAIN ToBag(t) = Range(t)
  BY DEF ToBag
<1>2. Range(s) = Range(t)
  BY <1>1
<1>3. s[i] \in Range(t)
  BY <1>2 DEF Range
<1>4. QED
  BY <1>3 DEF Range

\* A bag without elements.
LEMMA BagEmpty == ToBag(<<>>) = EmptyBag
<1>1. Range(<<>>) = {}
  BY DEF Range
<1>2. ToBag(<<>>) = [x \in {} |-> Cardinality(Places(<<>>, x))]
  BY <1>1 DEF ToBag, Places
<1>3. EmptyBag = [x \in {} |-> 1]
  BY DEF EmptyBag, SetToBag
<1>4. QED
  BY <1>2, <1>3

-----------------------------------------------------------------------------
(* When packets are due. *)

LEMMA PacketParts ==
  ASSUME NEW e \in Packet, NEW p \in Packet
  PROVE  e.due \in Nat /\ (Matches(e, p) => e = p) /\ Matches(p, p)
<1>1. /\ e = [data |-> e.data, due |-> e.due] /\ e.due \in 0 .. MaxTime
      /\ p = [data |-> p.data, due |-> p.due]
  BY DEF Packet
<1>2. QED
  BY <1>1 DEF Matches

LEMMA DueBag ==
  ASSUME NEW s, NEW t, ToBag(s) = ToBag(t), NEW n, DueFrom(t, n)
  PROVE  DueFrom(s, n)
<1>1. SUFFICES ASSUME NEW i \in DOMAIN s PROVE s[i].due >= n
  BY DEF DueFrom
<1>2. PICK j \in DOMAIN t : t[j] = s[i]
  BY BagElements
<1>3. QED
  BY <1>2 DEF DueFrom

LEMMA DueAppend ==
  ASSUME NEW s \in Seq(Packet), NEW p \in Packet, NEW n, DueFrom(s, n), p.due >= n
  PROVE  DueFrom(Append(s, p), n)
<1>1. /\ Append(s, p) \in Seq(Packet) /\ Len(Append(s, p)) = Len(s) + 1
      /\ \A i \in 1 .. Len(s) : Append(s, p)[i] = s[i]
      /\ Append(s, p)[Len(s) + 1] = p
  BY AppendProperties
<1>2. DOMAIN s = 1 .. Len(s) /\ Len(s) \in Nat
  BY LenProperties
<1>3. DOMAIN Append(s, p) = 1 .. Len(s) + 1
  BY <1>1, LenProperties
<1>4. SUFFICES ASSUME NEW i \in 1 .. Len(s) + 1 PROVE Append(s, p)[i].due >= n
  BY <1>3 DEF DueFrom
<1>5. CASE i \in 1 .. Len(s)
  BY <1>1, <1>2, <1>5 DEF DueFrom
<1>6. CASE i = Len(s) + 1
  BY <1>1, <1>6
<1>7. QED
  BY <1>2, <1>5, <1>6

LEMMA DueRemove ==
  ASSUME NEW s \in Seq(Packet), NEW c \in DOMAIN s, NEW n, DueFrom(s, n)
  PROVE  DueFrom(RemoveAt(s, c), n)
<1>1. /\ RemoveAt(s, c) \in Seq(Packet) /\ Len(RemoveAt(s, c)) = Len(s) - 1
      /\ \A k \in 1 .. Len(s) - 1 :
           RemoveAt(s, c)[k] = IF k < c THEN s[k] ELSE s[k + 1]
  BY RestElements
<1>2. DOMAIN s = 1 .. Len(s) /\ Len(s) \in Nat /\ c \in 1 .. Len(s)
  BY LenProperties
<1>3. DOMAIN RemoveAt(s, c) = 1 .. Len(s) - 1
  BY <1>1, LenProperties
<1>4. SUFFICES ASSUME NEW i \in 1 .. Len(s) - 1 PROVE RemoveAt(s, c)[i].due >= n
  BY <1>3 DEF DueFrom
<1>5. PICK k \in DOMAIN s : RemoveAt(s, c)[i] = s[k]
  BY <1>1, <1>2
<1>6. QED
  BY <1>5 DEF DueFrom

-----------------------------------------------------------------------------
(* The steps. *)

LEMMA InitPending == Init => PendingInv
<1> SUFFICES ASSUME Init PROVE PendingInv
  OBVIOUS
<1>1. <<>> \in Seq(Packet) /\ Len(<<>>) = 0 /\ DOMAIN <<>> = {}
  OBVIOUS
<1>2. 0 \in 0 .. MaxTime /\ 0 \in 0 .. MaxPackets
  BY InflightAssumption
<1>3. TypeOK
  BY <1>1, <1>2 DEF Init, TypeOK, NoSnap
<1>4. ListIsPending /\ NothingLate
  BY <1>1 DEF Init, ListIsPending, NothingLate
<1>5. FileInv
  BY DEF Init, FileInv
<1>6. QED
  BY <1>3, <1>4, <1>5 DEF PendingInv

\* Only a step that moves the file or the snapshot can disturb FileInv, as
\* long as an absent list stays empty.
LEMMA FileStays ==
  ASSUME FileInv, UNCHANGED <<recorded, file, snap, stale>>, ~recorded => list' = <<>>
  PROVE  FileInv'
BY DEF FileInv, DueFrom

LEMMA ReceivePending == ASSUME PendingInv, Receive PROVE PendingInv'
<1>0. /\ timers \in Seq(Packet) /\ list \in Seq(Packet) /\ count = Len(list)
      /\ now \in Nat /\ arrived \in 0 .. MaxPackets /\ Len(list) \in Nat
  BY InflightAssumption DEF PendingInv, TypeOK
<1>1. PICK p \in Packet :
        /\ p.due >= now
        /\ timers' = Append(timers, p)
        /\ IF recorded THEN Add(p) ELSE UNCHANGED <<list, count>>
  BY DEF Receive
<1>2. timers' \in Seq(Packet)
  BY <1>0, <1>1, CountAppend
<1>3. list' \in Seq(Packet) /\ count' = Len(list')
  <2>1. CASE recorded
    <3>1. list' = <<p>> \o list /\ count' = count + 1
      BY <1>1, <2>1 DEF Add
    <3>2. <<p>> \in Seq(Packet) /\ Len(<<p>>) = 1
      OBVIOUS
    <3>3. <<p>> \o list \in Seq(Packet) /\ Len(<<p>> \o list) = 1 + Len(list)
      BY <1>0, <3>2, ConcatProperties
    <3>4. QED
      BY <1>0, <3>1, <3>3
  <2>2. CASE ~recorded
    BY <1>0, <1>1, <2>2
  <2>3. QED
    BY <2>1, <2>2
<1>4. TypeOK'
  <2>1. arrived' \in 0 .. MaxPackets
    BY <1>0, InflightAssumption DEF Receive
  <2>2. QED
    BY <1>2, <1>3, <2>1 DEF PendingInv, TypeOK, Receive
<1>5. ListIsPending'
  <2>1. CASE recorded
    <3>1. ToBag(list) = ToBag(timers) /\ status # "aborted"
      BY <2>1 DEF PendingInv, ListIsPending
    <3>2. ToBag(<<p>> \o list) = ToBag(Append(timers, p))
      BY <1>0, <3>1, BagAdd
    <3>3. list' = <<p>> \o list /\ status' = status
      BY <1>1, <2>1 DEF Add, Receive
    <3>4. QED
      BY <1>1, <3>1, <3>2, <3>3 DEF ListIsPending
  <2>2. CASE ~recorded
    BY <2>2 DEF Receive, ListIsPending
  <2>3. QED
    BY <2>1, <2>2
<1>6. NothingLate'
  <2>1. now' = now /\ stale' = stale
    BY DEF Receive
  <2>2. CASE stale
    BY <2>1, <2>2 DEF NothingLate
  <2>3. CASE ~stale
    <3>1. DueFrom(timers, now)
      BY <2>3 DEF PendingInv, NothingLate, DueFrom
    <3>2. DueFrom(Append(timers, p), now)
      BY <1>0, <1>1, <3>1, DueAppend
    <3>3. QED
      BY <1>1, <2>1, <3>2 DEF NothingLate, DueFrom
  <2>4. QED
    BY <2>2, <2>3
<1>7. FileInv'
  <2>1. ~recorded => list' = <<>>
    BY <1>1 DEF PendingInv, FileInv
  <2>2. QED
    BY <2>1, FileStays DEF PendingInv, Receive
<1>8. QED
  BY <1>4, <1>5, <1>6, <1>7 DEF PendingInv

LEMMA DeliverPending == ASSUME PendingInv, Deliver PROVE PendingInv'
<1>0. /\ timers \in Seq(Packet) /\ list \in Seq(Packet) /\ count = Len(list)
      /\ Len(list) \in Nat
  BY DEF PendingInv, TypeOK
<1>1. PICK i \in DOMAIN timers :
        /\ timers' = RemoveAt(timers, i)
        /\ IF recorded THEN RemovePending(timers[i])
                       ELSE UNCHANGED <<status, list, count>>
  BY Zenon DEF Deliver
<1>2. UNCHANGED <<recorded, now, file, arrived, snap, stale>> /\ status = "run"
  BY DEF Deliver
<1> DEFINE p == timers[i]
<1>3. p \in Packet
  BY <1>0, LenProperties
<1>4. timers' \in Seq(Packet)
  BY <1>0, <1>1, CountRemove
<1>5. ASSUME recorded
      PROVE  /\ \E k \in DOMAIN list : list[k] = p /\ list' = RemoveAt(list, k)
             /\ count' = count - 1 /\ status' = "run"
  <2>1. ToBag(list) = ToBag(timers)
    BY <1>5 DEF PendingInv, ListIsPending
  <2>2. PICK j \in DOMAIN list : list[j] = p
    BY <2>1, BagElements
  <2>3. \E k \in DOMAIN list : Matches(list[k], p)
    BY <1>3, <2>2, PacketParts
  <2>4. RemovePending(p)
    BY <1>1, <1>5
  <2> HIDE DEF p
  <2>5. PICK k \in DOMAIN list :
          Matches(list[k], p) /\ RemoveFirstMatch(list, LAMBDA e : Matches(e, p)) = RemoveAt(list, k)
    BY <1>0, <1>3, <2>3, RemovesMatch, Zenon
  <2>6. list' = RemoveAt(list, k)
    BY <2>4, <2>5, Zenon DEF RemovePending
  <2>7. list[k] = p
    <3>1. list[k] \in Packet
      BY <1>0, LenProperties
    <3>2. Matches(list[k], p)
      BY <2>5, Zenon
    <3>3. QED
      BY <1>3, <3>1, <3>2, PacketParts
  <2>8. /\ count' = IF Found(p) THEN count - 1 ELSE count
        /\ status' = IF Found(p) THEN status ELSE "aborted"
    BY <2>4, Zenon DEF RemovePending
  <2>9. Found(p)
    BY <2>3 DEF Found
  <2>10. QED
    BY ONLY <1>2, <2>6, <2>7, <2>8, <2>9, k \in DOMAIN list
<1>6. ASSUME ~recorded PROVE UNCHANGED <<status, list, count>>
  BY <1>1, <1>6, Zenon
<1> HIDE DEF p
<1>7. TypeOK'
  <2>1. list' \in Seq(Packet) /\ count' = Len(list') /\ status' = "run"
    <3>1. CASE recorded
      <4>1. PICK k \in DOMAIN list : list' = RemoveAt(list, k)
        BY <1>5, <3>1
      <4>2. list' \in Seq(Packet) /\ Len(list') = Len(list) - 1
        BY <1>0, <4>1, RestElements
      <4>3. QED
        BY <1>0, <1>5, <3>1, <4>2
    <3>2. CASE ~recorded
      BY <1>0, <1>2, <1>6, <3>2
    <3>3. QED
      BY <3>1, <3>2
  <2>2. QED
    BY <1>2, <1>4, <2>1 DEF PendingInv, TypeOK
<1>8. ListIsPending'
  <2>1. SUFFICES ASSUME recorded PROVE ToBag(list') = ToBag(timers') /\ status' # "aborted"
    BY <1>2 DEF ListIsPending
  <2>2. PICK k \in DOMAIN list : list[k] = timers[i] /\ list' = RemoveAt(list, k)
    BY <1>5, <2>1 DEF p
  <2>3. ToBag(list) = ToBag(timers)
    BY <2>1 DEF PendingInv, ListIsPending
  <2>4. ToBag(RemoveAt(list, k)) = ToBag(RemoveAt(timers, i))
    BY <1>0, <2>2, <2>3, BagRemove
  <2>5. timers' = RemoveAt(timers, i)
    BY <1>1, Zenon
  <2>6. status' = "run"
    BY <1>5, <2>1
  <2>7. QED
    BY <2>2, <2>4, <2>5, <2>6
<1>9. NothingLate'
  <2>1. timers' = RemoveAt(timers, i)
    BY <1>1, Zenon
  <2>2. CASE stale
    BY <1>2, <2>2 DEF NothingLate
  <2>3. CASE ~stale
    <3>1. DueFrom(timers, now)
      BY <2>3 DEF PendingInv, NothingLate, DueFrom
    <3>2. DueFrom(RemoveAt(timers, i), now)
      BY <1>0, <3>1, DueRemove
    <3>3. QED
      BY <1>2, <2>1, <3>2 DEF NothingLate, DueFrom
  <2>4. QED
    BY <2>2, <2>3
<1>10. FileInv'
  <2>1. ~recorded => list' = <<>>
    BY <1>6 DEF PendingInv, FileInv
  <2>2. QED
    BY <1>2, <2>1, FileStays DEF PendingInv
<1>11. QED
  BY <1>7, <1>8, <1>9, <1>10 DEF PendingInv

\* The clock passes no timer.
LEMMA TickPending == ASSUME PendingInv, Tick PROVE PendingInv'
<1>0. /\ timers \in Seq(Packet) /\ now \in Nat /\ now' = now + 1 /\ now' \in 0 .. MaxTime
      /\ \A i \in DOMAIN timers : timers[i].due > now
      /\ UNCHANGED <<recorded, status, timers, list, count, file, arrived, snap, stale>>
  BY InflightAssumption DEF PendingInv, TypeOK, Tick
<1>1. TypeOK' /\ ListIsPending'
  BY <1>0 DEF PendingInv, TypeOK, ListIsPending
<1>2. ASSUME NEW i \in DOMAIN timers PROVE timers[i].due >= now + 1
  <2>1. timers[i] \in Packet
    BY <1>0, LenProperties
  <2>2. timers[i].due \in Nat
    BY <2>1, PacketParts
  <2>3. QED
    BY <1>0, <2>2
<1>3. NothingLate'
  BY <1>0, <1>2 DEF NothingLate
<1>4. FileInv'
  BY <1>0, FileStays DEF PendingInv, FileInv
<1>5. QED
  BY <1>1, <1>3, <1>4 DEF PendingInv

LEMMA SavePending == ASSUME PendingInv, Save PROVE PendingInv'
<1>0. timers \in Seq(Packet) /\ list \in Seq(Packet) /\ now \in 0 .. MaxTime
  BY DEF PendingInv, TypeOK
<1>1. PICK written \in BOOLEAN :
        /\ file' = IF written THEN list ELSE file
        /\ snap' = [timers |-> timers, now |-> now, written |-> written]
  BY DEF Save
<1>2. UNCHANGED <<recorded, status, now, timers, list, count, arrived, stale>>
  BY DEF Save, process
<1>3. TypeOK'
  BY <1>0, <1>1, <1>2 DEF PendingInv, TypeOK
<1>4. ListIsPending' /\ NothingLate'
  BY <1>2 DEF PendingInv, ListIsPending, NothingLate
<1>5. FileInv'
  <2>1. ~recorded => list' = <<>> /\ file' \in {NoFile, <<>>}
    BY <1>1, <1>2 DEF PendingInv, FileInv
  <2>2. ASSUME snap'.written
        PROVE  /\ recorded => ToBag(file') = ToBag(snap'.timers)
               /\ ~stale => DueFrom(file', snap'.now)
    <3>1. file' = list /\ snap'.timers = timers /\ snap'.now = now
      BY <1>1, <2>2
    <3>2. recorded => ToBag(list) = ToBag(timers)
      BY DEF PendingInv, ListIsPending
    <3>3. ASSUME ~stale PROVE DueFrom(list, now)
      <4>1. DueFrom(timers, now)
        BY <3>3 DEF PendingInv, NothingLate, DueFrom
      <4>2. CASE recorded
        BY <3>2, <4>1, <4>2, DueBag
      <4>3. CASE ~recorded
        <5>1. list = <<>>
          BY <4>3 DEF PendingInv, FileInv
        <5>2. DOMAIN list = {}
          BY <5>1
        <5>3. QED
          BY <5>2 DEF DueFrom
      <4>4. QED
        BY <4>2, <4>3
    <3>4. QED
      BY <3>1, <3>2, <3>3
  <2>3. QED
    BY <1>2, <2>1, <2>2 DEF FileInv, DueFrom
<1>6. QED
  BY <1>3, <1>4, <1>5 DEF PendingInv

\* The file and the snapshot are left as they are, and what is known of them
\* remains true.
LEMMA RestartFile ==
  ASSUME FileInv, Restarted, ~recorded => list' = <<>>
  PROVE  FileInv'
<1>1. UNCHANGED <<recorded, file, snap>> /\ (~stale' => ~stale)
  BY DEF Restarted
<1>2. QED
  BY <1>1 DEF FileInv, DueFrom

LEMMA RestorePending == ASSUME PendingInv, Restore PROVE PendingInv'
<1>0. /\ file \in Seq(Packet) /\ Restarted /\ file # NoFile /\ timers' = file
      /\ list' = Reverse(file) /\ count' = Len(file) /\ status' = "run"
  BY DEF PendingInv, TypeOK, Restore
<1>1. /\ Reverse(file) \in Seq(Packet) /\ Len(Reverse(file)) = Len(file)
      /\ ToBag(Reverse(file)) = ToBag(file)
  BY <1>0, BagReverse
<1>2. /\ UNCHANGED <<recorded, file, arrived, snap>> /\ now' = snap.now
      /\ stale' = (stale \/ ~snap.written)
  BY <1>0 DEF Restarted
<1>3. TypeOK'
  <2>1. snap.now \in 0 .. MaxTime /\ snap.written \in BOOLEAN
    BY DEF PendingInv, TypeOK
  <2>2. now' \in 0 .. MaxTime /\ stale' \in BOOLEAN
    BY <1>2, <2>1
  <2>3. QED
    BY <1>0, <1>1, <1>2, <2>2 DEF PendingInv, TypeOK
<1>4. ListIsPending'
  BY <1>0, <1>1 DEF ListIsPending
<1>5. NothingLate'
  <2>1. ASSUME ~stale' PROVE DueFrom(file, snap.now)
    BY <1>0, <1>2, <2>1 DEF PendingInv, FileInv
  <2>2. QED
    BY <1>0, <1>2, <2>1 DEF NothingLate, DueFrom
<1>6. ASSUME ~recorded PROVE list' = <<>>
  <2>1. file = <<>>
    BY <1>0, <1>6 DEF PendingInv, FileInv
  <2>2. Len(list') = 0 /\ list' \in Seq(Packet)
    BY <1>0, <1>1, <2>1
  <2>3. QED
    BY <2>2, EmptySeq
<1>7. FileInv'
  BY <1>0, <1>6, RestartFile DEF PendingInv
<1>8. QED
  BY <1>3, <1>4, <1>5, <1>7 DEF PendingInv

\* A process that comes up with nothing.
LEMMA NothingPending ==
  ASSUME PendingInv, Restarted, timers' = <<>>, list' = <<>>, count' = 0,
         status' \in {"run", "dead"}
  PROVE  PendingInv'
<1>1. <<>> \in Seq(Packet) /\ Len(<<>>) = 0 /\ DOMAIN <<>> = {}
  OBVIOUS
<1>2. TypeOK'
  <2>1. snap.now \in 0 .. MaxTime /\ snap.written \in BOOLEAN
    BY DEF PendingInv, TypeOK
  <2>2. now' \in 0 .. MaxTime /\ stale' \in BOOLEAN
    BY <2>1 DEF Restarted
  <2>3. QED
    BY <1>1, <2>2 DEF PendingInv, TypeOK, Restarted
<1>3. ListIsPending' /\ NothingLate'
  BY <1>1 DEF ListIsPending, NothingLate
<1>4. FileInv'
  BY RestartFile DEF PendingInv
<1>5. QED
  BY <1>2, <1>3, <1>4 DEF PendingInv

LEMMA NextPending == PendingInv /\ [Next]_vars => PendingInv'
<1> SUFFICES ASSUME PendingInv, [Next]_vars PROVE PendingInv'
  OBVIOUS
<1>1. CASE Receive
  BY <1>1, ReceivePending
<1>2. CASE Deliver
  BY <1>2, DeliverPending
<1>3. CASE Tick
  BY <1>3, TickPending
<1>4. CASE Save
  BY <1>4, SavePending
<1>5. CASE Restore
  BY <1>5, RestorePending
<1>6. CASE RestoreNothing
  <2>1. /\ Restarted /\ timers' = <<>> /\ list' = <<>> /\ count' = 0
        /\ status' \in {"run", "dead"}
    BY <1>6 DEF RestoreNothing
  <2>2. QED
    BY <2>1, NothingPending
<1>7. CASE RestoreDies
  <2>1. /\ Restarted /\ timers' = <<>> /\ list' = <<>> /\ count' = 0
        /\ status' \in {"run", "dead"}
    BY <1>7 DEF RestoreDies
  <2>2. QED
    BY <2>1, NothingPending
<1>8. CASE UNCHANGED vars
  BY <1>8 DEF PendingInv, TypeOK, ListIsPending, NothingLate, FileInv, DueFrom, vars, process
<1>9. QED
  BY <1>1, <1>2, <1>3, <1>4, <1>5, <1>6, <1>7, <1>8 DEF Next

-----------------------------------------------------------------------------
(* The theorems. *)

\* What the list, the timers, the file and the snapshot have to do with each
\* other, through arrivals, deliveries, snapshots and restarts.
THEOREM PendingInductive == Spec => []PendingInv
<1>1. QED
  BY InitPending, NextPending, PTL DEF Spec

\* pending_count is the length of the list, and every due time is in range.
THEOREM PendingTypeCorrect == Spec => []TypeOK
<1>1. PendingInv => TypeOK
  BY DEF PendingInv
<1>2. QED
  BY <1>1, PendingInductive, PTL

\* With the calls of pdes-wwt.c:233 and pdes-utility.c:23 in place the list
\* holds the packets whose timer is armed, and pdes_inflight_remove finds its
\* packet at every delivery.
THEOREM ListHoldsTimers == Spec => []ListIsPending
<1>1. PendingInv => ListIsPending
  BY DEF PendingInv
<1>2. QED
  BY <1>1, PendingInductive, PTL

\* No timer is armed for a time that is past, unless the process was restored
\* with an older file than its snapshot.
THEOREM NoneIsLate == Spec => []NothingLate
<1>1. PendingInv => NothingLate
  BY DEF PendingInv
<1>2. QED
  BY <1>1, PendingInductive, PTL

\* pdes_inflight_restore_and_schedule arms a timer for every packet that was
\* under way at the snapshot; without the two calls it arms none.
THEOREM AllIsRestored == Spec => RestoreComplete
<1>1. ASSUME PendingInv, Restore, snap.written
      PROVE  ToBag(timers') = IF recorded THEN ToBag(snap.timers) ELSE EmptyBag
  <2>1. timers' = file /\ file # NoFile
    BY <1>1 DEF Restore
  <2>2. CASE recorded
    BY <1>1, <2>1, <2>2 DEF PendingInv, FileInv
  <2>3. CASE ~recorded
    <3>1. file = <<>>
      BY <1>1, <2>1, <2>3 DEF PendingInv, FileInv
    <3>2. QED
      BY <2>1, <2>3, <3>1, BagEmpty
  <2>4. QED
    BY <2>2, <2>3
<1>2. PendingInv /\ [Next]_vars =>
        [Restore /\ snap.written =>
           ToBag(timers') = IF recorded THEN ToBag(snap.timers) ELSE EmptyBag]_vars
  BY <1>1
<1>3. QED
  BY <1>2, PendingInductive, PTL DEF Spec, RestoreComplete
===============================================================================
