--------------------------- MODULE Ingress_proofs ---------------------------
(***************************************************************************)
(* No message is answered twice or lost, a batch speaks in the order of    *)
(* receipt and a conversation has one running response, for any number of  *)
(* events, senders, threads, relays and faults.                            *)
(***************************************************************************)
EXTENDS Ingress, TLAPS, WellFoundedInduction, SequenceTheorems, FiniteSetTheorems

-----------------------------------------------------------------------------
(* Sequences of queued events.                                             *)

Elems(q) == {q[i] : i \in DOMAIN q}
Ordered(q) == \A i, j \in DOMAIN q : i < j => q[i].n < q[j].n

\* A set of numbers has a smallest one, which is what Min chooses.
LEMMA MinOf ==
    ASSUME NEW S \in SUBSET Nat, S # {}
    PROVE  Min(S) \in S /\ \A i \in S : Min(S) <= i
<1> DEFINE Less == {p \in Nat \X Nat : p[1] < p[2]}
<1>1. IsWellFoundedOn(Less, Nat)
  BY NatLessThanWellFounded DEF OpToRel
<1>2. PICK x \in S : \A y \in S : ~(<<y, x>> \in Less)
  <2> HIDE DEF Less
  <2> QED BY <1>1, WFMin
<1>3. \A y \in S : x <= y
  <2> TAKE y \in S
  <2>1. ~(<<y, x>> \in Less)
    BY <1>2
  <2> QED BY <2>1
<1> QED BY <1>3 DEF Min

\* The events of a queue, by position.
LEMMA QueueFacts ==
    ASSUME NEW S, NEW q \in Seq(S)
    PROVE  /\ Len(q) \in Nat /\ DOMAIN q = 1..Len(q) /\ Elems(q) \subseteq S
           /\ \A i \in 1..Len(q) : q[i] \in S /\ q[i] \in Elems(q)
           /\ q # <<>> => Len(q) > 0
           /\ Elems(<<>>) = {}
  BY DEF Elems

LEMMA PartFacts ==
    ASSUME NEW S, NEW q \in Seq(S), NEW m \in 1..(Len(q) + 1), NEW n \in 0..Len(q), NEW p, p = SubSeq(q, m, n)
    PROVE  /\ p \in Seq(S) /\ Len(p) = IF m <= n THEN n - m + 1 ELSE 0
           /\ \A i \in 1..Len(p) : p[i] = q[m + i - 1] /\ m + i - 1 \in 1..Len(q)
<1>1. Len(q) \in Nat /\ \A i \in m..n : q[i] \in S
  BY LenProperties, ElementOfSeq
<1>2. /\ SubSeq(q, m, n) \in Seq(S)
      /\ Len(SubSeq(q, m, n)) = IF m <= n THEN n - m + 1 ELSE 0
      /\ \A i \in 1..(n - m + 1) : SubSeq(q, m, n)[i] = q[m + i - 1]
  BY <1>1, SubSeqProperties
<1> QED BY <1>1, <1>2

\* A run at the front and what is behind it are queues in order, and share nothing.
CutOf(q, r, p, l) ==
    /\ p \in Seq(Queued) /\ l \in Seq(Queued) /\ Ordered(p) /\ Ordered(l)
    /\ Elems(p) \cup Elems(l) = Elems(q)
    /\ \A e \in Elems(p), f \in Elems(l) : e.n < f.n
    /\ r > 0 => p # <<>>
LEMMA CutFacts ==
    ASSUME NEW q \in Seq(Queued), Ordered(q), NEW r \in 0..Len(q),
           NEW p, p = SubSeq(q, 1, r), NEW l, l = SubSeq(q, r + 1, Len(q))
    PROVE  CutOf(q, r, p, l)
<1>0. /\ Len(q) \in Nat /\ DOMAIN q = 1..Len(q) /\ \A i \in 1..Len(q) : q[i] \in Queued
  BY QueueFacts
<1>1. /\ Len(q) \in Nat /\ DOMAIN q = 1..Len(q) /\ \A i \in 1..Len(q) : q[i].n \in Nat
  BY <1>0 DEF Queued
<1>2. /\ p \in Seq(Queued) /\ Len(p) = r /\ DOMAIN p = 1..r /\ \A i \in 1..r : p[i] = q[i]
  <2>1. /\ p \in Seq(Queued) /\ Len(p) = IF 1 <= r THEN r - 1 + 1 ELSE 0
        /\ \A i \in 1..Len(p) : p[i] = q[1 + i - 1]
    BY <1>1, PartFacts
  <2>2. Len(p) = r
    BY <1>1, <2>1
  <2> QED BY <1>1, <2>1, <2>2
<1>3. /\ l \in Seq(Queued) /\ Len(l) = Len(q) - r /\ DOMAIN l = 1..(Len(q) - r)
      /\ \A i \in 1..(Len(q) - r) : l[i] = q[r + i]
  <2>1. /\ l \in Seq(Queued) /\ Len(l) = IF r + 1 <= Len(q) THEN Len(q) - (r + 1) + 1 ELSE 0
        /\ \A i \in 1..Len(l) : l[i] = q[r + 1 + i - 1]
    <3>1. r + 1 \in 1..(Len(q) + 1) /\ Len(q) \in 0..Len(q)
      BY <1>1
    <3> QED BY <3>1, PartFacts
  <2>2. Len(l) = Len(q) - r
    <3>1. Len(l) = IF r + 1 <= Len(q) THEN Len(q) - (r + 1) + 1 ELSE 0
      BY <2>1
    <3>2. Len(q) \in Nat /\ r \in Nat /\ r <= Len(q)
      BY <1>1
    <3> HIDE <2>1, <1>1
    <3> QED BY <3>1, <3>2
  <2>3. DOMAIN l = 1..Len(l)
    BY <2>1, LenProperties
  <2>4. ASSUME NEW i \in 1..(Len(q) - r)
        PROVE  l[i] = q[r + i]
    <3>1. r + 1 + i - 1 = r + i
      BY <1>1
    <3> QED BY <2>1, <2>2, <3>1
  <2> QED BY <2>1, <2>2, <2>3, <2>4
<1>4. Ordered(p) /\ Ordered(l)
  <2>0. \A i, j \in 1..Len(q) : i < j => q[i].n < q[j].n
    BY <1>1 DEF Ordered
  <2>1. \A i, j \in 1..r : i < j => p[i].n < p[j].n
    BY <1>1, <1>2, <2>0
  <2>2. ASSUME NEW i \in 1..(Len(q) - r), NEW j \in 1..(Len(q) - r), i < j
        PROVE  l[i].n < l[j].n
    <3>1. r + i \in 1..Len(q) /\ r + j \in 1..Len(q) /\ r + i < r + j
      BY <1>1, <2>2
    <3>2. q[r + i].n < q[r + j].n
      BY <2>0, <3>1
    <3> QED BY <1>3, <3>2
  <2> QED BY <1>2, <1>3, <2>1, <2>2 DEF Ordered
<1>5. Elems(p) \cup Elems(l) = Elems(q)
  <2>1. ASSUME NEW i \in 1..Len(q)
        PROVE  q[i] \in Elems(p) \cup Elems(l)
    <3>1. CASE i <= r
      <4>1. i \in 1..r
        BY <1>1, <3>1
      <4> QED BY <1>2, <4>1 DEF Elems
    <3>2. CASE i > r
      <4>1. i - r \in 1..(Len(q) - r) /\ r + (i - r) = i
        BY <1>1, <3>2
      <4>2. l[i - r] = q[i]
        BY <1>3, <4>1
      <4> QED BY <1>3, <4>1, <4>2 DEF Elems
    <3> QED BY <1>1, <3>1, <3>2
  <2>2. ASSUME NEW i \in 1..r
        PROVE  p[i] \in Elems(q)
    <3>1. i \in 1..Len(q)
      BY <1>1
    <3> QED BY <1>1, <1>2, <3>1 DEF Elems
  <2>3. ASSUME NEW i \in 1..(Len(q) - r)
        PROVE  l[i] \in Elems(q)
    <3>1. r + i \in 1..Len(q)
      BY <1>1
    <3> QED BY <1>1, <1>3, <3>1 DEF Elems
  <2>4. Elems(p) = {p[i] : i \in 1..r} /\ Elems(l) = {l[i] : i \in 1..(Len(q) - r)}
        /\ Elems(q) = {q[i] : i \in 1..Len(q)}
    BY <1>1, <1>2, <1>3 DEF Elems
  <2>5. Elems(p) \subseteq Elems(q)
    BY <2>2, <2>4
  <2>6. Elems(l) \subseteq Elems(q)
    BY <2>3, <2>4
  <2>7. Elems(q) \subseteq Elems(p) \cup Elems(l)
    BY <2>1, <2>4
  <2> QED BY <2>5, <2>6, <2>7
<1>6. ASSUME NEW e \in Elems(p), NEW f \in Elems(l)
      PROVE  e.n < f.n
  <2>1. PICK i \in 1..r : e = q[i]
    BY <1>2 DEF Elems
  <2>2. PICK j \in 1..(Len(q) - r) : f = q[r + j]
    BY <1>3 DEF Elems
  <2>3. i \in 1..Len(q) /\ r + j \in 1..Len(q) /\ i < r + j
    BY <1>1
  <2>4. q[i].n < q[r + j].n
    BY <1>1, <2>3 DEF Ordered
  <2> QED BY <2>1, <2>2, <2>4
<1>7. r > 0 => p # <<>>
  BY <1>2
<1> QED BY <1>2, <1>3, <1>4, <1>5, <1>6, <1>7 DEF CutOf


\* Inserting puts the event between what is before it and what is behind it.
LEMMA InsertAtFacts ==
    ASSUME NEW S, NEW q \in Seq(S), NEW e \in S, NEW at \in 1..(Len(q) + 1), NEW p, p = InsertAt(q, at, e)
    PROVE  /\ p \in Seq(S) /\ Len(p) = Len(q) + 1
           /\ \A i \in 1..(Len(q) + 1) : p[i] = IF i < at THEN q[i] ELSE IF i = at THEN e ELSE q[i - 1]
<1> DEFINE a == SubSeq(q, 1, at - 1)
           b == SubSeq(q, at, Len(q))
           ae == a \o <<e>>
<1>1. Len(q) \in Nat /\ at \in Nat /\ at >= 1 /\ at - 1 \in 0..Len(q) /\ 1 \in 1..(Len(q) + 1) /\ Len(q) \in 0..Len(q)
  BY LenProperties
<1>2. /\ a \in Seq(S) /\ Len(a) = IF 1 <= at - 1 THEN at - 1 - 1 + 1 ELSE 0
      /\ \A i \in 1..Len(a) : a[i] = q[1 + i - 1]
  BY <1>1, PartFacts
<1>3. /\ b \in Seq(S) /\ Len(b) = IF at <= Len(q) THEN Len(q) - at + 1 ELSE 0
      /\ \A i \in 1..Len(b) : b[i] = q[at + i - 1]
  BY <1>1, PartFacts
<1>4. p = ae \o b
  BY DEF InsertAt
<1> HIDE DEF a, b, ae
<1>5. Len(a) = at - 1
  <2>1. Len(a) = IF 1 <= at - 1 THEN at - 1 - 1 + 1 ELSE 0
    BY <1>2
  <2> QED BY <1>1, <2>1
<1>6. Len(b) = Len(q) - at + 1
  <2>1. Len(b) = IF at <= Len(q) THEN Len(q) - at + 1 ELSE 0
    BY <1>3
  <2> QED BY <1>1, <2>1
<1>7. /\ ae \in Seq(S) /\ Len(ae) = at
      /\ \A i \in 1..at : ae[i] = IF i <= at - 1 THEN a[i] ELSE <<e>>[i - (at - 1)]
  <2>1. <<e>> \in Seq(S) /\ Len(<<e>>) = 1
    OBVIOUS
  <2>2. /\ ae \in Seq(S) /\ Len(ae) = Len(a) + Len(<<e>>)
        /\ \A i \in 1..(Len(a) + Len(<<e>>)) : ae[i] = IF i <= Len(a) THEN a[i] ELSE <<e>>[i - Len(a)]
    BY <1>2, <2>1, ConcatProperties DEF ae
  <2>3. Len(a) + Len(<<e>>) = at
    BY <1>1, <1>5, <2>1
  <2> QED BY <1>5, <2>2, <2>3
<1>8. /\ p \in Seq(S) /\ Len(p) = Len(q) + 1
      /\ \A i \in 1..(Len(q) + 1) : p[i] = IF i <= at THEN ae[i] ELSE b[i - at]
  <2>1. /\ p \in Seq(S) /\ Len(p) = Len(ae) + Len(b)
        /\ \A i \in 1..(Len(ae) + Len(b)) : p[i] = IF i <= Len(ae) THEN ae[i] ELSE b[i - Len(ae)]
    <3>1. /\ ae \o b \in Seq(S) /\ Len(ae \o b) = Len(ae) + Len(b)
          /\ \A i \in 1..(Len(ae) + Len(b)) : (ae \o b)[i] = IF i <= Len(ae) THEN ae[i] ELSE b[i - Len(ae)]
      BY <1>3, <1>7, ConcatProperties
    <3> QED BY <1>4, <3>1, Zenon
  <2>2. Len(ae) + Len(b) = Len(q) + 1 /\ Len(ae) = at
    BY <1>1, <1>6, <1>7
  <2> QED BY <2>1, <2>2
<1>9. ASSUME NEW i \in 1..(Len(q) + 1)
      PROVE  p[i] = IF i < at THEN q[i] ELSE IF i = at THEN e ELSE q[i - 1]
  <2>1. CASE i < at
    <3>1. i \in 1..at /\ i <= at - 1 /\ i \in 1..Len(a) /\ 1 + i - 1 = i /\ i <= at
      BY <1>1, <1>5, <2>1
    <3>2. p[i] = ae[i] /\ ae[i] = a[i] /\ a[i] = q[i]
      <4>1. p[i] = ae[i]
        BY <1>8, <3>1
      <4>2. ae[i] = a[i]
        BY <1>7, <3>1
      <4>3. a[i] = q[i]
        BY <1>2, <3>1
      <4> QED BY <4>1, <4>2, <4>3
    <3> QED BY <2>1, <3>2
  <2>2. CASE i = at
    <3>1. i \in 1..at /\ ~(i <= at - 1) /\ i - (at - 1) = 1 /\ i <= at /\ ~(i < at)
      BY <1>1, <2>2
    <3>2. p[i] = ae[i]
      BY <1>8, <3>1
    <3>3. ae[i] = <<e>>[1]
      BY <1>7, <3>1
    <3> QED BY <2>2, <3>1, <3>2, <3>3
  <2>3. CASE i > at
    <3>1. i - at \in 1..Len(b) /\ ~(i <= at) /\ at + (i - at) - 1 = i - 1 /\ ~(i < at) /\ i # at
      BY <1>1, <1>6, <2>3
    <3>2. p[i] = b[i - at]
      BY <1>8, <3>1
    <3>3. b[i - at] = q[i - 1]
      BY <1>3, <3>1
    <3> QED BY <3>1, <3>2, <3>3
  <2> QED BY <1>1, <2>1, <2>2, <2>3
<1> QED BY <1>8, <1>9

\* A queue in order of receipt stays in order when an event with a receipt of its own comes in.
LEMMA InsertFacts ==
    ASSUME NEW q \in Seq(Queued), Ordered(q), NEW e \in Queued, \A f \in Elems(q) : f.n # e.n,
           NEW p, p = Insert(q, e)
    PROVE  p \in Seq(Queued) /\ Ordered(p) /\ Elems(p) = Elems(q) \cup {e} /\ p # <<>>
<1> DEFINE later == {i \in DOMAIN q : q[i].n > e.n}
           at == IF later = {} THEN Len(q) + 1 ELSE Min(later)
<1>0. /\ Len(q) \in Nat /\ DOMAIN q = 1..Len(q) /\ \A i \in 1..Len(q) : q[i] \in Queued /\ q[i] \in Elems(q)
  BY QueueFacts
<1>1. e.n \in Nat /\ \A i \in 1..Len(q) : q[i].n \in Nat /\ q[i].n # e.n
  BY <1>0 DEF Queued
<1>2. \A i, j \in 1..Len(q) : i < j => q[i].n < q[j].n
  BY <1>0 DEF Ordered
<1>3. p = InsertAt(q, at, e)
  BY DEF Insert
<1>4. /\ at \in 1..(Len(q) + 1)
      /\ \A i \in 1..Len(q) : (i < at => q[i].n < e.n) /\ (i >= at => q[i].n > e.n)
  <2>1. CASE later = {}
    <3>1. at = Len(q) + 1
      BY <2>1
    <3>2. \A i \in 1..Len(q) : ~(q[i].n > e.n)
      BY <1>0, <2>1
    <3> HIDE DEF at, later
    <3>3. \A i \in 1..Len(q) : q[i].n < e.n
      BY <1>1, <3>2
    <3> QED BY <1>0, <3>1, <3>3
  <2>2. CASE later # {}
    <3>1. later \in SUBSET Nat /\ at = Min(later)
      BY <1>0, <2>2
    <3>2. at \in later /\ \A i \in later : at <= i
      <4> HIDE DEF later, at
      <4> QED BY <2>2, <3>1, MinOf
    <3>3. at \in 1..Len(q) /\ q[at].n > e.n /\ \A i \in 1..Len(q) : q[i].n > e.n => at <= i
      BY <1>0, <3>2
    <3> HIDE DEF at, later
    <3>4. ASSUME NEW i \in 1..Len(q)
          PROVE  (i < at => q[i].n < e.n) /\ (i >= at => q[i].n > e.n)
      <4>1. CASE i < at
        <5>1. ~(q[i].n > e.n) /\ ~(i >= at)
          BY <1>0, <3>3, <4>1
        <5> QED BY <1>1, <5>1
      <4>2. CASE i = at
        BY <1>0, <3>3, <4>2
      <4>3. CASE i > at
        <5>1. q[at].n < q[i].n /\ ~(i < at)
          BY <1>0, <1>2, <3>3, <4>3
        <5> QED BY <1>1, <3>3, <5>1
      <4> QED BY <1>0, <3>3, <4>1, <4>2, <4>3
    <3> QED BY <1>0, <3>3, <3>4
  <2> QED BY <2>1, <2>2
<1> HIDE DEF at, later
<1>5. /\ p \in Seq(Queued) /\ Len(p) = Len(q) + 1 /\ DOMAIN p = 1..(Len(q) + 1)
      /\ \A i \in 1..(Len(q) + 1) : p[i] = IF i < at THEN q[i] ELSE IF i = at THEN e ELSE q[i - 1]
  <2>1. /\ p \in Seq(Queued) /\ Len(p) = Len(q) + 1
        /\ \A i \in 1..(Len(q) + 1) : p[i] = IF i < at THEN q[i] ELSE IF i = at THEN e ELSE q[i - 1]
    <3>1. at \in 1..(Len(q) + 1) /\ e \in Queued /\ q \in Seq(Queued)
      BY <1>4
    <3> HIDE <1>4
    <3> QED BY <1>3, <3>1, InsertAtFacts, SMTT(40)
  <2> QED BY <2>1, LenProperties
<1>6. ASSUME NEW i \in 1..Len(p)
      PROVE  \/ i < at /\ i \in 1..Len(q) /\ p[i] = q[i] /\ q[i].n < e.n
             \/ i = at /\ p[i] = e
             \/ i > at /\ i - 1 \in 1..Len(q) /\ p[i] = q[i - 1] /\ q[i - 1].n > e.n
  <2>1. i \in 1..(Len(q) + 1) /\ i \in Nat /\ at \in Nat /\ i >= 1 /\ at >= 1
    BY <1>0, <1>4, <1>5
  <2>2. CASE i < at
    <3>1. i \in 1..Len(q)
      BY <1>0, <1>4, <2>1, <2>2
    <3> QED BY <1>4, <1>5, <2>1, <2>2, <3>1
  <2>3. CASE i = at
    BY <1>5, <2>1, <2>3
  <2>4. CASE i > at
    <3>1. i - 1 \in 1..Len(q) /\ i - 1 >= at /\ ~(i < at) /\ i # at
      BY <1>0, <1>4, <2>1, <2>4
    <3> QED BY <1>4, <1>5, <2>1, <2>4, <3>1
  <2> QED BY <2>1, <2>2, <2>3, <2>4
<1>7. ASSUME NEW i \in 1..Len(p), NEW j \in 1..Len(p), i < j
      PROVE  p[i].n < p[j].n
  <2>0. i \in Nat /\ j \in Nat /\ at \in Nat /\ i < j
    BY <1>4, <1>7
  <2>1. CASE j < at \/ i > at
    <3>1. CASE j < at
      <4>1. /\ i \in 1..Len(q) /\ p[i] = q[i] /\ j \in 1..Len(q) /\ p[j] = q[j]
        BY <1>6, <2>0, <3>1
      <4> QED BY <1>2, <1>7, <4>1
    <3>2. CASE i > at
      <4>1. /\ i - 1 \in 1..Len(q) /\ p[i] = q[i - 1] /\ j - 1 \in 1..Len(q) /\ p[j] = q[j - 1] /\ i - 1 < j - 1
        BY <1>6, <2>0, <3>2
      <4> QED BY <1>2, <4>1
    <3> QED BY <2>1, <3>1, <3>2
  <2>2. CASE i < at /\ j = at
    BY <1>6, <2>0, <2>2
  <2>3. CASE i = at /\ j > at
    BY <1>1, <1>6, <2>0, <2>3, SMTT(40)
  <2>4. CASE i < at /\ j > at
    <3>1. /\ i \in 1..Len(q) /\ p[i] = q[i] /\ q[i].n < e.n
          /\ j - 1 \in 1..Len(q) /\ p[j] = q[j - 1] /\ q[j - 1].n > e.n
      BY <1>6, <2>0, <2>4
    <3> QED BY <1>1, <3>1
  <2> QED BY <2>0, <2>1, <2>2, <2>3, <2>4
<1>8. Ordered(p)
  BY <1>5, <1>7 DEF Ordered
<1>9. Elems(p) \subseteq Elems(q) \cup {e}
  <2>1. \A i \in 1..Len(p) : p[i] \in Elems(q) \cup {e}
    BY <1>0, <1>6
  <2> QED BY <1>5, <2>1 DEF Elems
<1>10. Elems(q) \cup {e} \subseteq Elems(p)
  <2>1. e \in Elems(p)
    <3>1. at \in 1..(Len(q) + 1) /\ ~(at < at)
      BY <1>0, <1>4
    <3>2. p[at] = e
      BY <1>5, <3>1
    <3> QED BY <1>5, <3>1, <3>2 DEF Elems
  <2>2. ASSUME NEW i \in 1..Len(q)
        PROVE  q[i] \in Elems(p)
    <3>0. i \in Nat /\ at \in Nat /\ i \in 1..(Len(q) + 1) /\ i + 1 \in 1..(Len(q) + 1) /\ (i + 1) - 1 = i
      BY <1>0, <1>4
    <3>1. CASE i < at
      <4>1. p[i] = q[i]
        BY <1>5, <3>0, <3>1
      <4> QED BY <1>5, <3>0, <4>1 DEF Elems
    <3>2. CASE i >= at
      <4>1. ~(i + 1 < at) /\ i + 1 # at
        BY <3>0, <3>2
      <4>2. p[i + 1] = q[i]
        BY <1>5, <3>0, <4>1
      <4> QED BY <1>5, <3>0, <4>2 DEF Elems
    <3> QED BY <3>0, <3>1, <3>2
  <2> QED BY <1>0, <2>1, <2>2 DEF Elems
<1>11. p # <<>>
  BY <1>0, <1>5
<1> QED BY <1>5, <1>8, <1>9, <1>10, <1>11

Appended(S, q, e, p) ==
    /\ p \in Seq(S) /\ Len(p) = Len(q) + 1 /\ p # <<>> /\ Elems(p) = Elems(q) \cup {e}
    /\ \A i \in 1..Len(p) : p[i] = IF i = Len(q) + 1 THEN e ELSE q[i]
    /\ q # <<>> => Head(p) = Head(q)
LEMMA AppendFacts ==
    ASSUME NEW S, NEW q \in Seq(S), NEW e \in S, NEW p, p = Append(q, e)
    PROVE  Appended(S, q, e, p)
<1>1. Len(q) \in Nat /\ DOMAIN q = 1..Len(q) /\ p \in Seq(S) /\ Len(p) = Len(q) + 1 /\ DOMAIN p = 1..(Len(q) + 1)
  OBVIOUS
<1>2. \A i \in 1..(Len(q) + 1) : p[i] = IF i = Len(q) + 1 THEN e ELSE q[i]
  OBVIOUS
<1>3. Elems(p) \subseteq Elems(q) \cup {e}
  BY <1>1, <1>2 DEF Elems
<1>4. \A i \in 1..Len(q) : i \in 1..(Len(q) + 1) /\ p[i] = q[i]
  BY <1>1, <1>2
<1>5. p[Len(q) + 1] = e /\ Len(q) + 1 \in 1..(Len(q) + 1)
  BY <1>1, <1>2
<1>6. Elems(q) \cup {e} \subseteq Elems(p)
  BY <1>1, <1>4, <1>5 DEF Elems
<1>7. q # <<>> => Head(p) = Head(q)
  BY <1>1, <1>4
<1> QED BY <1>1, <1>2, <1>3, <1>6, <1>7 DEF Appended

LEMMA PopFacts ==
    ASSUME NEW S, NEW q \in Seq(S), q # <<>>, NEW p, p = Tail(q)
    PROVE  /\ p \in Seq(S) /\ Len(p) = Len(q) - 1 /\ Elems(q) = Elems(p) \cup {Head(q)} /\ Head(q) \in S
           /\ 1 \in DOMAIN q /\ Head(q) = q[1]
           /\ \A i \in 1..Len(p) : p[i] = q[i + 1] /\ i + 1 \in DOMAIN q /\ i + 1 # 1
<1>1. /\ Len(q) \in Nat /\ DOMAIN q = 1..Len(q) /\ Len(q) > 0 /\ p \in Seq(S) /\ Len(p) = Len(q) - 1
      /\ DOMAIN p = 1..(Len(q) - 1) /\ Head(q) = q[1] /\ Head(q) \in S
      /\ \A i \in 1..(Len(q) - 1) : p[i] = q[i + 1]
  OBVIOUS
<1>2. \A i \in 1..(Len(q) - 1) : i + 1 \in 1..Len(q) /\ i + 1 # 1
  BY <1>1
<1>3. Elems(p) \cup {Head(q)} \subseteq Elems(q)
  BY <1>1, <1>2 DEF Elems
<1>4. ASSUME NEW i \in 1..Len(q)
      PROVE  q[i] \in Elems(p) \cup {Head(q)}
  <2>1. CASE i = 1
    BY <1>1, <2>1
  <2>2. CASE i # 1
    <3>1. i - 1 \in 1..(Len(q) - 1) /\ (i - 1) + 1 = i
      BY <1>1, <2>2
    <3>2. p[i - 1] = q[i]
      BY <1>1, <3>1
    <3> QED BY <1>1, <3>1, <3>2 DEF Elems
  <2> QED BY <2>1, <2>2
<1>5. Elems(q) \subseteq Elems(p) \cup {Head(q)}
  BY <1>1, <1>4 DEF Elems
<1> QED BY <1>1, <1>2, <1>3, <1>5

LEMMA MaxOf ==
    ASSUME NEW m \in Nat, NEW S \in SUBSET (0..m), S # {}
    PROVE  \E i \in S : \A j \in S : j <= i
<1> DEFINE T == {m - i : i \in S}
<1>0. \A i \in S : m - i \in Nat
  OBVIOUS
<1>1. T \in SUBSET Nat /\ T # {}
  BY <1>0
<1>2. Min(T) \in T /\ \A i \in T : Min(T) <= i
  <2> HIDE DEF T
  <2> QED BY <1>1, MinOf
<1>3. PICK i \in S : Min(T) = m - i
  BY <1>2
<1>4. ASSUME NEW j \in S
      PROVE  j <= i
  <2>1. m - i <= m - j
    BY <1>2, <1>3
  <2> QED BY <2>1
<1> QED BY <1>4

\* The front run lies in the queue, and a normal event received in time starts it.
LEMMA FrontRunFacts ==
    ASSUME NEW q \in Seq(Queued), NEW c, NEW cut, NEW r, r = FrontRun(q, c, cut)
    PROVE  /\ r \in 0..Len(q)
           /\ \A j \in 1..r : IsNormal(q[j])
           /\ q # <<>> /\ IsNormal(q[1]) /\ q[1].n <= cut => r > 0
<1> DEFINE fits(i) == \A j \in 1..i : IsNormal(q[j]) /\ q[j].n <= cut
           runs == {i \in 0..Len(q) : fits(i) /\ (i <= 1 \/ c)}
<1>1. Len(q) \in Nat /\ (q # <<>> => Len(q) > 0)
  BY QueueFacts
<1>2. fits(0)
  OBVIOUS
<1>3. r = CHOOSE i \in runs : \A j \in runs : j <= i
  BY DEF FrontRun
<1>4. 0 \in runs
  BY <1>1, <1>2
<1>5. q # <<>> /\ IsNormal(q[1]) /\ q[1].n <= cut => 1 \in runs
  <2> SUFFICES ASSUME q # <<>>, IsNormal(q[1]), q[1].n <= cut
               PROVE  1 \in runs
    OBVIOUS
  <2>1. \A j \in 1..1 : j = 1
    OBVIOUS
  <2>2. fits(1)
    BY <2>1
  <2> HIDE DEF fits
  <2> QED BY <1>1, <2>2
<1>6. runs \in SUBSET (0..Len(q)) /\ \A i \in runs : \A j \in 1..i : IsNormal(q[j])
  OBVIOUS
<1> HIDE DEF runs
<1>7. \E i \in runs : \A j \in runs : j <= i
  BY <1>1, <1>4, <1>6, MaxOf
<1>8. r \in runs /\ \A j \in runs : j <= r
  BY <1>3, <1>7
<1>9. r \in 0..Len(q) /\ \A j \in 1..r : IsNormal(q[j])
  BY <1>6, <1>8
<1>10. 1 \in runs => r > 0
  BY <1>1, <1>8, <1>9
<1> QED BY <1>5, <1>9, <1>10

Joined(a, b, p) ==
    /\ DOMAIN p = 1..(Len(a) + Len(b)) /\ Len(a) \in Nat /\ Len(b) \in Nat
    /\ \A i \in 1..Len(b) : p[Len(a) + i] = b[i] /\ Len(a) + i \in 1..(Len(a) + Len(b))
LEMMA JoinFacts ==
    ASSUME NEW S, NEW a \in Seq(S), NEW b \in Seq(S), NEW p, p = a \o b
    PROVE  Joined(a, b, p)
<1>1. Len(a) \in Nat /\ Len(b) \in Nat
  OBVIOUS
<1>2. p \in Seq(S) /\ Len(p) = Len(a) + Len(b) /\ \A i \in 1..(Len(a) + Len(b)) : p[i] = IF i <= Len(a) THEN a[i] ELSE b[i - Len(a)]
  BY ConcatProperties
<1>3. DOMAIN p = 1..(Len(a) + Len(b))
  BY <1>2
<1>4. ASSUME NEW i \in 1..Len(b)
      PROVE  p[Len(a) + i] = b[i] /\ Len(a) + i \in 1..(Len(a) + Len(b))
  <2>1. Len(a) + i \in 1..(Len(a) + Len(b)) /\ ~(Len(a) + i <= Len(a)) /\ (Len(a) + i) - Len(a) = i
    BY <1>1
  <2>2. p[Len(a) + i] = b[(Len(a) + i) - Len(a)]
    BY <1>2, <2>1
  <2> QED BY <2>1, <2>2
<1> QED BY <1>1, <1>3, <1>4 DEF Joined

\* Who gives up waiting for a lock leaves the others in their places.
LEMMA RemoveFacts ==
    ASSUME NEW q \in Seq(Sources), NEW s, NEW p, p = RemoveFirst(q, s)
    PROVE  /\ p \in Seq(Sources)
           /\ q # <<>> /\ Head(q) # s => p # <<>> /\ Head(p) = Head(q)
           /\ \A e \in Elems(q) : e # s => e \in Elems(p)
<1> DEFINE I == {i \in 1..Len(q) : q[i] = s}
<1>0. Len(q) \in Nat /\ (q # <<>> => Len(q) > 0 /\ Head(q) = q[1])
  OBVIOUS
<1>1. CASE I = {}
  <2>1. p = q
    BY <1>1 DEF RemoveFirst
  <2> QED BY <2>1
<1>2. CASE I # {}
  <2>1. p = RemoveAt(q, Min(I))
    BY <1>2 DEF RemoveFirst, SelectInSeq
  <2>2. I \in SUBSET Nat
    BY <1>0
  <2>3. Min(I) \in I
    <3> HIDE DEF I
    <3> QED BY <1>2, <2>2, MinOf
  <2>4. PICK at \in 1..Len(q) : at = Min(I) /\ q[at] = s
    BY <2>3
  <2> HIDE DEF I
  <2> DEFINE a == SubSeq(q, 1, at - 1)
             b == SubSeq(q, at + 1, Len(q))
  <2>5. at - 1 \in 0..Len(q) /\ at + 1 \in 1..(Len(q) + 1) /\ 1 \in 1..(Len(q) + 1) /\ Len(q) \in 0..Len(q)
    BY <1>0
  <2>6. a \in Seq(Sources) /\ Len(a) = (IF 1 <= at - 1 THEN at - 1 - 1 + 1 ELSE 0) /\ \A i \in 1..Len(a) : a[i] = q[1 + i - 1]
    BY <2>5, PartFacts
  <2>7. /\ b \in Seq(Sources) /\ Len(b) = (IF at + 1 <= Len(q) THEN Len(q) - (at + 1) + 1 ELSE 0)
        /\ \A i \in 1..Len(b) : b[i] = q[at + 1 + i - 1]
    BY <2>5, PartFacts
  <2>8. p = a \o b
    BY <2>1, <2>4 DEF RemoveAt
  <2> HIDE DEF a, b
  <2>9. p \in Seq(Sources)
    BY <2>6, <2>7, <2>8
  <2>10. ASSUME q # <<>>, Head(q) # s
         PROVE  p # <<>> /\ Head(p) = Head(q)
    <3>1. at # 1 /\ at \in Nat /\ at >= 1
      BY <1>0, <2>4, <2>10
    <3>2. Len(a) = IF 1 <= at - 1 THEN at - 1 - 1 + 1 ELSE 0
      BY <2>6
    <3>3. Len(a) > 0 /\ Len(a) \in Nat
      BY <3>1, <3>2
    <3>4. a[1] = q[1]
      BY <2>6, <3>3
    <3>5. p \in Seq(Sources) /\ Len(p) > 0 /\ p[1] = a[1]
      BY <2>6, <2>7, <2>8, <2>9, <3>3
    <3> QED BY <1>0, <2>10, <3>4, <3>5
  <2>11. ASSUME NEW j \in 1..Len(q), q[j] # s
         PROVE  q[j] \in Elems(p)
    <3>9. Joined(a, b, p)
      <4>1. a \in Seq(Sources) /\ b \in Seq(Sources)
        BY <2>6, <2>7
      <4> QED BY <2>8, <4>1, JoinFacts, Zenon
    <3>0. DOMAIN p = 1..(Len(a) + Len(b)) /\ Len(a) \in Nat /\ Len(b) \in Nat
      BY <3>9 DEF Joined
    <3>1. at \in Nat /\ j \in Nat /\ j # at
      BY <2>4, <2>11
    <3>2. CASE j < at
      <4>1. j \in 1..Len(a) /\ 1 + j - 1 = j
        BY <1>0, <2>6, <3>1, <3>2
      <4>2. p[j] = q[j]
        BY <2>6, <2>7, <2>8, <4>1
      <4> QED BY <3>0, <4>1, <4>2 DEF Elems
    <3>3. CASE j > at
      <4>1. j - at \in 1..Len(b) /\ at + 1 + (j - at) - 1 = j
        BY <1>0, <2>7, <3>1, <3>3
      <4>2. b[j - at] = q[j]
        BY <2>7, <4>1
      <4>3. p[Len(a) + (j - at)] = b[j - at] /\ Len(a) + (j - at) \in 1..(Len(a) + Len(b))
        BY <3>9, <4>1 DEF Joined
      <4> QED BY <3>0, <4>2, <4>3 DEF Elems
    <3> QED BY <3>1, <3>2, <3>3
  <2>12. \A e \in Elems(q) : e # s => e \in Elems(p)
    BY <2>11 DEF Elems
  <2> QED BY <2>9, <2>10, <2>12
<1> QED BY <1>1, <1>2

-----------------------------------------------------------------------------
(* The invariant.                                                          *)

\* Receipts are stamped by one clock, so that a stamp names its event.
Stamps ==
    /\ \A s \in Sources : slot[s] <= clock
    /\ \A s, r \in Sources : s # r /\ slot[s] = slot[r] => slot[s] = 0
    /\ \A s \in Sources : pc[s] \notin {"offered", "done"} => slot[s] > 0

\* A handler whose receipt has not been in the lane yet.
Unentered(s) == pc[s] = "prechecked" \/ (pc[s] = "contended" /\ ClaimsFirst(s))

\* A slot that is not released is the slot its event has now, and says how far the event has come.
SlotShape(x, e) ==
    /\ Sender[e.src] = x /\ e.n > 0 /\ e.n <= clock
    /\ \A s \in Sources : e.n = slot[s] => e.src = s /\ ~Unentered(s)
    /\ e.state # "released" => e.n = slot[e.src]
    /\ e.state = "open" => pc[e.src] = "resolve"
    /\ e.state = "loaded" => pc[e.src] = "deferred"
LaneShape == \A x \in Senders : \A e \in Elems(lanes[x]) : SlotShape(x, e)
LanesDistinct ==
    \A x \in Senders : \A i, j \in DOMAIN lanes[x] : i # j => lanes[x][i].n # lanes[x][j].n

\* A handler at work holds a slot, and so does a readiness task.
InHand(s) == \E e \in Elems(lanes[Sender[s]]) : e.src = s /\ e.n = slot[s] /\ e.state = "open"
ResolveHasSlot == \A s \in Sources : pc[s] = "resolve" => InHand(s)
RunningInLane == \A s \in Sources : ready[s] = "running" => InLane(s)

LanesInv == Stamps /\ LaneShape /\ LanesDistinct /\ ResolveHasSlot

InQueue(s) == \E k \in Keys : s \in Srcs(gates[k].queue)

\* What has left the lane is deferred under its present receipt.
Placed(e, outcome) == e.n = slot[e.src] /\ pc[e.src] = "deferred" /\ ready[e.src] = outcome
Places ==
    /\ \A e \in settling : Placed(e, "none")
    /\ \A k \in Keys : \A e \in Elems(gates[k].queue) : Placed(e, "payload")
    /\ \A t \in turns : \A e \in Elems(t.batch) : Placed(e, "payload")

\* An event is in one place at most: lane, settlement, one gate or one batch.
OnePlace ==
    /\ \A s \in Sources : InLane(s) => ~InSettling(s) /\ ~InQueue(s) /\ ~InTurn(s)
    /\ \A s \in Sources : InQueue(s) => ~InTurn(s)
    /\ \A k, l \in Keys : k # l => Srcs(gates[k].queue) \cap Srcs(gates[l].queue) = {}
    /\ \A t, u \in turns : t # u => Srcs(t.batch) \cap Srcs(u.batch) = {}
    /\ \A t \in turns : t.batch # <<>>

PlacesInv == RunningInLane /\ Places /\ OnePlace /\ BurstInOrder

\* The claims are those of the events on their way and of the batches that may be answered.
InClaimed(s) == \E t \in turns : t.pc = "claimed" /\ s \in Srcs(t.batch)
Loaded(s) == InLane(s) /\ ready[s] \in {"running", "payload"}
Holds(s) == pc[s] = "resolve" \/ Loaded(s) \/ InQueue(s) \/ InClaimed(s)
Members(S) == {Record({s}) : s \in S}
Holders == {s \in Sources : Holds(s)}
ClaimsExact == claims = Members(Holders) \cup Answering

\* Claims and terminal records exclude each other, and what has a record is done.
Apart(r, d) == r # d => r.sources \cap d.sources = {} /\ r.aliases \cap d.aliases = {}
Exclusive == \A r, d \in claims \cup completed : Apart(r, d)
CompletedIsDone == \A d \in completed : \A s \in d.sources : pc[s] = "done"

ClaimsInv == ClaimsExact /\ Exclusive /\ CompletedIsDone

\* An announcement is that of an event on its way, or of a response that waits for the lock.
Announced(s) ==
    Loaded(s) \/ InQueue(s) \/ InClaimed(s) \/ \E t \in turns : t.pc = "queue" /\ s = Lead(t)
NoticeShape == \A s \in notices : Announced(s)

\* A queue has a task, the number of roots is bounded, a response is in the line for its lock from
\* its beginning to its end, and one that runs is at the head of the line.
Drained == \A k \in Keys : gates[k].queue # <<>> => gates[k].pc # "none"
LockShape ==
    \A t \in turns :
        /\ t.pc \in {"queue", "run"} => Lead(t) \in Elems(locks[Conversation(t)])
        /\ t.pc = "run" => Head(locks[Conversation(t)]) = Lead(t)
RootsInv == IsFiniteSet(turns) /\ RootsBounded

Flow == PlacesInv /\ ClaimsInv /\ NoticeShape /\ Drained /\ LockShape /\ RootsInv

IInv == TypeOK /\ LanesInv /\ Flow

\* A relay is alone in its batch.
Alone(t) == \A s \in Srcs(t.batch) : Kind[s] = "relay" => Srcs(t.batch) = {s}
RelaysAlone == \A t \in turns : Alone(t)

\* A deferred event is in some place, or it is a relay another turn was faster than.
NotLost ==
    \A s \in Sources :
        pc[s] = "deferred" => InLane(s) \/ InQueue(s) \/ InTurn(s) \/ InSettling(s) \/ Outranked(s)

-----------------------------------------------------------------------------
(* Types.                                                                  *)

LEMMA TrafficTypes ==
    ASSUME TypeOK
    PROVE  /\ Sender \in [Sources -> Senders] /\ Kind \in [Sources -> Kinds]
           /\ Thread \in [Sources -> Conversations] /\ MaxFaults \in Nat
  BY IngressAssumption DEF TypeOK, Sender, Kind, Thread, MaxFaults, Conversations

LEMMA LaneTypes ==
    ASSUME TypeOK, NEW x \in Senders
    PROVE  /\ lanes[x] \in Seq(LaneSlots) /\ Len(lanes[x]) \in Nat /\ DOMAIN lanes[x] = 1..Len(lanes[x])
           /\ \A i \in DOMAIN lanes[x] : lanes[x][i] \in Elems(lanes[x])
           /\ \A e \in Elems(lanes[x]) :
                /\ e \in LaneSlots /\ e.n \in Nat /\ e.src \in Sources
                /\ e.state \in {"open", "loaded", "released"}
<1>1. lanes[x] \in Seq(LaneSlots)
  BY DEF TypeOK
<1>2. /\ Len(lanes[x]) \in Nat /\ DOMAIN lanes[x] = 1..Len(lanes[x])
      /\ \A i \in DOMAIN lanes[x] : lanes[x][i] \in Elems(lanes[x])
      /\ \A e \in Elems(lanes[x]) : e \in LaneSlots
  BY <1>1, QueueFacts
<1> QED BY <1>1, <1>2 DEF LaneSlots

LEMMA QueueTypes ==
    ASSUME NEW q \in Seq(Queued)
    PROVE  /\ \A e \in Elems(q) : e \in Queued /\ e.n \in Nat /\ e.src \in Sources
           /\ Srcs(q) = {e.src : e \in Elems(q)} /\ Srcs(q) \subseteq Sources
           /\ q # <<>> => Last(q) \in Elems(q) /\ Last(q).src \in Srcs(q) /\ Srcs(q) # {}
<1>1. /\ Len(q) \in Nat /\ DOMAIN q = 1..Len(q) /\ \A e \in Elems(q) : e \in Queued
      /\ \A i \in 1..Len(q) : q[i] \in Elems(q)
      /\ q # <<>> => Len(q) > 0
  BY QueueFacts
<1>2. \A e \in Elems(q) : e \in Queued /\ e.n \in Nat /\ e.src \in Sources
  BY <1>1 DEF Queued
<1>3. Srcs(q) = {e.src : e \in Elems(q)}
  BY DEF Srcs, Elems
<1>4. q # <<>> => Last(q) \in Elems(q)
  <2>1. q # <<>> => Len(q) \in 1..Len(q)
    BY <1>1
  <2> QED BY <1>1, <2>1 DEF Last
<1> QED BY <1>2, <1>3, <1>4

LEMMA GateTypes ==
    ASSUME TypeOK, NEW k \in Keys
    PROVE  /\ gates[k] \in GateEntries /\ gates[k].queue \in Seq(Queued) /\ gates[k].claimed \in Seq(Queued)
           /\ gates[k].waits \subseteq Nat /\ gates[k].cut \in Nat
<1>1. gates[k] \in GateEntries
  BY DEF TypeOK
<1> QED BY <1>1 DEF GateEntries

LEMMA TurnTypes ==
    ASSUME TypeOK, NEW t \in turns
    PROVE  /\ t \in Batches /\ t.key \in Keys /\ t.batch \in Seq(Queued) /\ t.root \in BOOLEAN
           /\ t.pc \in InDispatch \cup {"run"} /\ t.key.thread \in Conversations
<1>1. t \in Batches
  BY DEF TypeOK
<1>2. t.key \in Keys /\ t.batch \in Seq(Queued) /\ t.root \in BOOLEAN /\ t.pc \in InDispatch \cup {"run"}
  BY <1>1 DEF Batches
<1> QED BY <1>1, <1>2 DEF Keys

\* A batch that is not empty has a lead, and its response a conversation.
LEMMA LeadTypes ==
    ASSUME TypeOK, NEW t \in turns, t.batch # <<>>
    PROVE  Lead(t) \in Srcs(t.batch) /\ Lead(t) \in Sources /\ Conversation(t) \in Conversations
<1>1. t.batch \in Seq(Queued) /\ t.key.thread \in Conversations
  BY TurnTypes
<1>2. Lead(t) \in Srcs(t.batch) /\ Lead(t) \in Sources
  BY <1>1, QueueTypes DEF Lead
<1> QED BY <1>1, <1>2 DEF Conversation, ConversationOf, Conversations, Lead

-----------------------------------------------------------------------------
(* Steps.                                                                  *)

\* The steps of a handler, of a batch and of the rest.
HandlerStep(s) ==
    \/ Precheck(s) \/ ClaimLive(s) \/ ClaimAgain(s) \/ Submit(s)
    \/ Consume(s) \/ Command(s) \/ ResolveFails(s)
BatchStep(t) ==
    \/ StartTurn(t) \/ Ignore(t) \/ Route(t) \/ Respond(t)
    \/ Begin(t) \/ Acquire(t) \/ Finish(t) \/ TurnFails(t)

LEMMA StepCases ==
    ASSUME [Next]_vars
    PROVE  \/ \E s \in Sources : HandlerStep(s)
           \/ \E s \in Sources, outcome \in {"payload", "none", "failed"} : VoiceReady(s, outcome)
           \/ \E e \in settling, ok \in BOOLEAN : SettleIgnored(e, ok)
           \/ \E x \in Senders : Lane(x)
           \/ \E k \in Keys : Gate(k)
           \/ \E t \in turns : BatchStep(t)
           \/ \E s \in Sources : Reoffer(s)
           \/ UNCHANGED vars
  BY DEF Next, Handler, Resolve, Voice, TurnStep, HandlerStep, BatchStep

\* The traffic is what it was, and so is what it says of each event.
LEMMA TrafficSame ==
    ASSUME [Next]_vars
    PROVE  traffic' = traffic
<1>1. ASSUME NEW s \in Sources, HandlerStep(s) PROVE traffic' = traffic
  BY <1>1 DEF HandlerStep, Precheck, ClaimLive, ClaimAgain, Submit, Consume, Command, ResolveFails, Leave
<1>2. ASSUME NEW s \in Sources, NEW outcome, VoiceReady(s, outcome) PROVE traffic' = traffic
  BY <1>2 DEF VoiceReady
<1>3. ASSUME NEW e, NEW ok, SettleIgnored(e, ok) PROVE traffic' = traffic
  BY <1>3 DEF SettleIgnored
<1>4. ASSUME NEW x, Lane(x) PROVE traffic' = traffic
  BY <1>4 DEF Lane
<1>5. ASSUME NEW k, Gate(k) PROVE traffic' = traffic
  BY <1>5 DEF Gate
<1>6. ASSUME NEW t, BatchStep(t) PROVE traffic' = traffic
  BY <1>6 DEF BatchStep, StartTurn, Ignore, Route, Settle, Respond, Begin, Acquire, Finish, TurnFails
<1>7. CASE UNCHANGED vars
  BY <1>7 DEF vars
<1>8. ASSUME NEW s, Reoffer(s) PROVE traffic' = traffic
  BY <1>8 DEF Reoffer
<1> QED BY <1>1, <1>2, <1>3, <1>4, <1>5, <1>6, <1>7, <1>8, StepCases

LEMMA TrafficKept ==
    ASSUME traffic' = traffic
    PROVE  /\ Sender' = Sender /\ Kind' = Kind /\ Thread' = Thread /\ Alias' = Alias
           /\ RoomMode' = RoomMode /\ MaxFaults' = MaxFaults
           /\ \A s : ClaimsFirst(s)' = ClaimsFirst(s)
           /\ \A S : Record(S)' = Record(S)
  BY DEF Sender, Kind, Thread, Alias, RoomMode, MaxFaults, ClaimsFirst, Record

\* Where the handlers and the lanes stay as they are.
Stays == UNCHANGED <<pc, clock, slot, lanes>>

\* Events that have left the lane are done or offered anew.
Vacates(S, where) ==
    /\ pc' = [s \in Sources |-> IF s \in S THEN where ELSE pc[s]]
    /\ UNCHANGED <<clock, slot, lanes>>

LEMMA LaneCases ==
    ASSUME TypeOK, PlacesInv, [Next]_vars
    PROVE  \/ \E s \in Sources : \/ Precheck(s) \/ ClaimLive(s) \/ ClaimAgain(s) \/ Submit(s)
                                 \/ \E where \in {"done", "offered"} : Leave(s, where)
           \/ \E x \in Senders : Lane(x)
           \/ \E S \in SUBSET Sources, where \in {"done", "offered"} :
                /\ \A s \in S : pc[s] = "deferred" /\ ~InLane(s)
                /\ Vacates(S, where)
           \/ Stays
<1> DEFINE Goal ==
           \/ \E s \in Sources : \/ Precheck(s) \/ ClaimLive(s) \/ ClaimAgain(s) \/ Submit(s)
                                 \/ \E where \in {"done", "offered"} : Leave(s, where)
           \/ \E x \in Senders : Lane(x)
           \/ \E S \in SUBSET Sources, where \in {"done", "offered"} :
                /\ \A s \in S : pc[s] = "deferred" /\ ~InLane(s)
                /\ Vacates(S, where)
           \/ Stays
<1>1. ASSUME NEW s \in Sources, HandlerStep(s) PROVE Goal
  BY <1>1 DEF HandlerStep, Consume, Command, ResolveFails
<1>2. ASSUME NEW s \in Sources, NEW outcome, VoiceReady(s, outcome) PROVE Goal
  BY <1>2 DEF VoiceReady, Stays
<1>3. ASSUME NEW e \in settling, NEW ok \in BOOLEAN, SettleIgnored(e, ok) PROVE Goal
  <2>1. e.src \in Sources /\ pc[e.src] = "deferred" /\ ~InLane(e.src) /\ pc \in [Sources -> {"offered", "prechecked", "contended", "resolve", "deferred", "done"}]
    BY DEF TypeOK, Queued, PlacesInv, Places, Placed, OnePlace, InSettling
  <2> DEFINE where == IF ok THEN "done" ELSE "offered"
  <2>2. pc' = [pc EXCEPT ![e.src] = where] /\ UNCHANGED <<clock, slot, lanes>>
    BY <1>3 DEF SettleIgnored, Goto
  <2>3. where \in {"done", "offered"}
    OBVIOUS
  <2> HIDE DEF where
  <2>4. pc' = [s \in Sources |-> IF s \in {e.src} THEN where ELSE pc[s]]
    BY <2>1, <2>2
  <2>5. Vacates({e.src}, where)
    BY <2>2, <2>4 DEF Vacates
  <2> QED BY <2>1, <2>3, <2>5
<1>4. ASSUME NEW x \in Senders, Lane(x) PROVE Goal
  BY <1>4
<1>5. ASSUME NEW k, Gate(k) PROVE Goal
  BY <1>5 DEF Gate, Stays
<1>6. ASSUME NEW t \in turns, BatchStep(t) PROVE Goal
  <2>1. CASE StartTurn(t) \/ Respond(t) \/ Begin(t) \/ Acquire(t)
    BY <2>1 DEF StartTurn, Respond, Begin, Acquire, Stays
  <2>2. CASE Ignore(t) \/ Route(t) \/ Finish(t) \/ TurnFails(t)
    <3>1. PICK where \in {"done", "offered"} : Vacates(Srcs(t.batch), where)
      BY <2>2 DEF Ignore, Route, Settle, Finish, TurnFails, Gone, Vacates
    <3>2. t.batch \in Seq(Queued)
      BY TurnTypes
    <3>3. Srcs(t.batch) \subseteq Sources /\ Srcs(t.batch) = {e.src : e \in Elems(t.batch)}
      BY <3>2, QueueTypes
    <3>4. \A s \in Srcs(t.batch) : pc[s] = "deferred" /\ ~InLane(s)
      BY <3>3 DEF PlacesInv, Places, Placed, OnePlace, InTurn
    <3> QED BY <3>1, <3>3, <3>4
  <2> QED BY <1>6, <2>1, <2>2 DEF BatchStep
<1>7. CASE UNCHANGED vars
  BY <1>7 DEF vars, Stays
<1>8. ASSUME NEW s \in Sources, Reoffer(s) PROVE Goal
  <2>1. pc[s] = "deferred" /\ ~InLane(s) /\ pc' = [pc EXCEPT ![s] = "offered"] /\ UNCHANGED <<clock, slot, lanes>>
    BY <1>8 DEF Reoffer, HasLiveOwner, Goto
  <2>2. pc' = [r \in Sources |-> IF r \in {s} THEN "offered" ELSE pc[r]]
    BY <2>1 DEF TypeOK
  <2>3. Vacates({s}, "offered")
    BY <2>1, <2>2 DEF Vacates
  <2> QED BY <2>1, <2>3
<1> QED BY <1>1, <1>2, <1>3, <1>4, <1>5, <1>6, <1>7, <1>8, StepCases

-----------------------------------------------------------------------------
(* What the operations on lanes do.                                        *)

LEMMA InLaneElems ==
    /\ \A s : InLane(s) <=> \E x \in Senders : \E e \in Elems(lanes[x]) : e.src = s /\ e.state = "loaded"
    /\ \A s : InLane(s)' <=> \E x \in Senders : \E e \in Elems(lanes'[x]) : e.src = s /\ e.state = "loaded"
  BY DEF InLane, Elems

\* A new slot goes to the end of the sender's lane.
LEMMA EnterEffect ==
    ASSUME TypeOK, NEW s \in Sources, NEW n \in Nat, NEW st \in {"open", "released"},
           lanes' = [lanes EXCEPT ![Sender[s]] = Append(@, [n |-> n, src |-> s, state |-> st])]
    PROVE  /\ lanes' \in [Senders -> Seq(LaneSlots)]
           /\ \A x \in Senders : x # Sender[s] => lanes'[x] = lanes[x]
           /\ Elems(lanes'[Sender[s]]) = Elems(lanes[Sender[s]]) \cup {[n |-> n, src |-> s, state |-> st]}
           /\ LanesDistinct /\ (\A e \in Elems(lanes[Sender[s]]) : e.n # n) => LanesDistinct'
           /\ \A r \in Sources : InLane(r)' <=> InLane(r)
<1> DEFINE x == Sender[s]
           new == [n |-> n, src |-> s, state |-> st]
<1>1. x \in Senders /\ lanes \in [Senders -> Seq(LaneSlots)] /\ new \in LaneSlots
  BY TrafficTypes DEF TypeOK, LaneSlots
<1>2. new.n = n /\ new.src = s /\ new.state = st
  OBVIOUS
<1> HIDE DEF new, x
<1>3. lanes' = [lanes EXCEPT ![x] = Append(@, new)]
  BY DEF new, x
<1>4. lanes'[x] = Append(lanes[x], new) /\ \A y \in Senders : y # x => lanes'[y] = lanes[y]
  BY <1>1, <1>3
<1>5. lanes[x] \in Seq(LaneSlots)
  BY <1>1
<1>6. /\ lanes'[x] \in Seq(LaneSlots) /\ Len(lanes'[x]) = Len(lanes[x]) + 1
      /\ Elems(lanes'[x]) = Elems(lanes[x]) \cup {new}
      /\ \A i \in 1..Len(lanes'[x]) : lanes'[x][i] = IF i = Len(lanes[x]) + 1 THEN new ELSE lanes[x][i]
  <2> DEFINE q == lanes[x]
             p == lanes'[x]
  <2>1. q \in Seq(LaneSlots) /\ new \in LaneSlots /\ p = Append(q, new)
    BY <1>1, <1>4, <1>5
  <2> HIDE DEF p, q
  <2>2. /\ p \in Seq(LaneSlots) /\ Len(p) = Len(q) + 1 /\ Elems(p) = Elems(q) \cup {new}
        /\ \A i \in 1..Len(p) : p[i] = IF i = Len(q) + 1 THEN new ELSE q[i]
    <3>1. Appended(LaneSlots, q, new, p)
      BY <2>1, AppendFacts, Zenon
    <3> QED BY <3>1 DEF Appended
  <2> QED BY <2>2, Zenon DEF p, q
<1>7. lanes' \in [Senders -> Seq(LaneSlots)]
  <2>1. lanes' = [y \in Senders |-> lanes'[y]]
    BY <1>1, <1>3
  <2>2. \A y \in Senders : lanes'[y] \in Seq(LaneSlots)
    BY <1>1, <1>4, <1>6
  <2> HIDE <1>3, <1>4
  <2> QED BY <2>1, <2>2
<1>8. ASSUME LanesDistinct, \A e \in Elems(lanes[x]) : e.n # n
      PROVE  LanesDistinct'
  <2>1. ASSUME NEW y \in Senders, NEW i \in DOMAIN lanes'[y], NEW j \in DOMAIN lanes'[y], i # j
        PROVE  lanes'[y][i].n # lanes'[y][j].n
    <3>1. CASE y # x
      BY <1>4, <1>8, <2>1, <3>1 DEF LanesDistinct
    <3>2. CASE y = x
      <4>1. /\ DOMAIN lanes'[x] = 1..Len(lanes'[x]) /\ DOMAIN lanes[x] = 1..Len(lanes[x]) /\ Len(lanes[x]) \in Nat
            /\ \A m \in 1..Len(lanes[x]) : lanes[x][m] \in Elems(lanes[x])
        BY <1>5, <1>6, QueueFacts
      <4>2. \A m \in DOMAIN lanes'[x] : m = Len(lanes[x]) + 1 \/ m \in DOMAIN lanes[x]
        BY <1>6, <4>1
      <4>3. \A m \in DOMAIN lanes'[x] :
              \/ m = Len(lanes[x]) + 1 /\ lanes'[x][m].n = n
              \/ m \in DOMAIN lanes[x] /\ lanes'[x][m] = lanes[x][m] /\ lanes[x][m].n # n
        <5> TAKE m \in DOMAIN lanes'[x]
        <5>1. CASE m = Len(lanes[x]) + 1
          BY <1>2, <1>6, <4>1, <5>1
        <5>2. CASE m \in DOMAIN lanes[x]
          <6>1. m # Len(lanes[x]) + 1
            BY <4>1, <5>2
          <6> QED BY <1>6, <1>8, <4>1, <5>2, <6>1
        <5> QED BY <4>2, <5>1, <5>2
      <4>4. \A m, o \in DOMAIN lanes[x] : m # o => lanes[x][m].n # lanes[x][o].n
        BY <1>1, <1>8 DEF LanesDistinct
      <4> QED BY <2>1, <3>2, <4>3, <4>4
    <3> QED BY <3>1, <3>2
  <2> QED BY <2>1 DEF LanesDistinct
<1>9. ASSUME NEW r \in Sources
      PROVE  InLane(r)' <=> InLane(r)
  <2>1. new.state # "loaded"
    BY <1>2
  <2>2. Elems(lanes'[x]) = Elems(lanes[x]) \cup {new}
    BY <1>6
  <2>3. ASSUME NEW y \in Senders
        PROVE  (\E e \in Elems(lanes'[y]) : e.src = r /\ e.state = "loaded")
                 <=> (\E e \in Elems(lanes[y]) : e.src = r /\ e.state = "loaded")
    <3>1. CASE y = x
      BY <2>1, <2>2, <3>1
    <3>2. CASE y # x
      BY <1>4, <3>2
    <3> QED BY <3>1, <3>2
  <2> QED BY <2>3, InLaneElems
<1> QED BY <1>4, <1>6, <1>7, <1>8, <1>9 DEF x, new

\* The worker takes the slot at the head of the lane.
LEMMA PopEffect ==
    ASSUME TypeOK, NEW x \in Senders, lanes[x] # <<>>, lanes' = [lanes EXCEPT ![x] = Tail(@)]
    PROVE  /\ lanes' \in [Senders -> Seq(LaneSlots)]
           /\ \A y \in Senders : y # x => lanes'[y] = lanes[y]
           /\ Elems(lanes[x]) = Elems(lanes'[x]) \cup {Head(lanes[x])}
           /\ LanesDistinct => LanesDistinct' /\ \A e \in Elems(lanes'[x]) : e.n # Head(lanes[x]).n
<1>1. lanes \in [Senders -> Seq(LaneSlots)] /\ lanes[x] \in Seq(LaneSlots)
  BY DEF TypeOK
<1>2. lanes'[x] = Tail(lanes[x]) /\ \A y \in Senders : y # x => lanes'[y] = lanes[y]
  BY <1>1
<1>3. /\ lanes'[x] \in Seq(LaneSlots) /\ Len(lanes'[x]) = Len(lanes[x]) - 1
      /\ Elems(lanes[x]) = Elems(lanes'[x]) \cup {Head(lanes[x])}
      /\ 1 \in DOMAIN lanes[x] /\ Head(lanes[x]) = lanes[x][1]
      /\ \A i \in 1..Len(lanes'[x]) : lanes'[x][i] = lanes[x][i + 1] /\ i + 1 \in DOMAIN lanes[x] /\ i + 1 # 1
  <2> DEFINE q == lanes[x]
             p == lanes'[x]
  <2>1. q \in Seq(LaneSlots) /\ q # <<>> /\ p = Tail(q)
    BY <1>1, <1>2
  <2> HIDE DEF p, q
  <2>2. /\ p \in Seq(LaneSlots) /\ Len(p) = Len(q) - 1 /\ Elems(q) = Elems(p) \cup {Head(q)}
        /\ 1 \in DOMAIN q /\ Head(q) = q[1]
        /\ \A i \in 1..Len(p) : p[i] = q[i + 1] /\ i + 1 \in DOMAIN q /\ i + 1 # 1
    BY <2>1, PopFacts
  <2> QED BY <2>2, Zenon DEF p, q
<1>4. lanes' \in [Senders -> Seq(LaneSlots)]
  <2>1. lanes' = [y \in Senders |-> lanes'[y]]
    BY <1>1
  <2>2. \A y \in Senders : lanes'[y] \in Seq(LaneSlots)
    BY <1>1, <1>2, <1>3
  <2> HIDE <1>1, <1>2
  <2> QED BY <2>1, <2>2, Zenon
<1>5. ASSUME LanesDistinct
      PROVE  LanesDistinct' /\ \A e \in Elems(lanes'[x]) : e.n # Head(lanes[x]).n
  <2>0. DOMAIN lanes'[x] = 1..Len(lanes'[x]) /\ Len(lanes'[x]) \in Nat
    BY <1>3, QueueFacts
  <2>1. \A i, j \in DOMAIN lanes[x] : i # j => lanes[x][i].n # lanes[x][j].n
    BY <1>5 DEF LanesDistinct
  <2>2. ASSUME NEW y \in Senders, NEW i \in DOMAIN lanes'[y], NEW j \in DOMAIN lanes'[y], i # j
        PROVE  lanes'[y][i].n # lanes'[y][j].n
    <3>1. CASE y # x
      BY <1>2, <1>5, <2>2, <3>1 DEF LanesDistinct
    <3>2. CASE y = x
      <4>1. i + 1 # j + 1 /\ i \in 1..Len(lanes'[x]) /\ j \in 1..Len(lanes'[x])
        BY <2>0, <2>2, <3>2
      <4>2. /\ i + 1 \in DOMAIN lanes[x] /\ j + 1 \in DOMAIN lanes[x]
            /\ lanes'[x][i] = lanes[x][i + 1] /\ lanes'[x][j] = lanes[x][j + 1]
        BY <1>3, <4>1
      <4> QED BY <2>1, <3>2, <4>1, <4>2
    <3> QED BY <3>1, <3>2
  <2>3. LanesDistinct'
    BY <2>2 DEF LanesDistinct
  <2>4. \A i \in 1..Len(lanes'[x]) : lanes'[x][i].n # Head(lanes[x]).n
    BY <1>3, <2>1
  <2>5. \A e \in Elems(lanes'[x]) : e.n # Head(lanes[x]).n
    BY <2>0, <2>4 DEF Elems
  <2> QED BY <2>3, <2>5
<1> QED BY <1>2, <1>3, <1>4, <1>5

\* Marking a slot changes the state of the slot with this receipt.
LEMMA MarkEffect ==
    ASSUME TypeOK, NEW s \in Sources, NEW st \in {"loaded", "released"}, lanes' = SetSlot(lanes, s, st)
    PROVE  /\ lanes' \in [Senders -> Seq(LaneSlots)]
           /\ \A x \in Senders : x # Sender[s] => lanes'[x] = lanes[x]
           /\ \A f \in Elems(lanes'[Sender[s]]) : \E e \in Elems(lanes[Sender[s]]) :
                f.n = e.n /\ f.src = e.src /\ f.state = IF e.n = slot[s] THEN st ELSE e.state
           /\ \A e \in Elems(lanes[Sender[s]]) : \E f \in Elems(lanes'[Sender[s]]) :
                f.n = e.n /\ f.src = e.src /\ f.state = IF e.n = slot[s] THEN st ELSE e.state
           /\ LanesDistinct => LanesDistinct'
<1> DEFINE x == Sender[s]
           q == lanes[x]
           p == [i \in DOMAIN q |-> IF q[i].n = slot[s] THEN [q[i] EXCEPT !.state = st] ELSE q[i]]
<1>1. x \in Senders /\ lanes \in [Senders -> Seq(LaneSlots)]
  BY TrafficTypes DEF TypeOK
<1>2. /\ q \in Seq(LaneSlots) /\ Len(q) \in Nat /\ DOMAIN q = 1..Len(q)
      /\ \A i \in 1..Len(q) : q[i] \in LaneSlots
  BY <1>1, QueueFacts
<1>3. lanes' = [lanes EXCEPT ![x] = p]
  BY DEF SetSlot
<1>4. lanes'[x] = p /\ \A y \in Senders : y # x => lanes'[y] = lanes[y]
  BY <1>1, <1>3
<1>5. ASSUME NEW i \in 1..Len(q)
      PROVE  /\ p[i] \in LaneSlots /\ p[i].n = q[i].n /\ p[i].src = q[i].src
             /\ p[i].state = IF q[i].n = slot[s] THEN st ELSE q[i].state
  <2>1. p[i] = IF q[i].n = slot[s] THEN [q[i] EXCEPT !.state = st] ELSE q[i]
    BY <1>2
  <2>2. q[i] \in LaneSlots
    BY <1>2
  <2> HIDE DEF p, q
  <2> QED BY <2>1, <2>2 DEF LaneSlots
<1>6. DOMAIN p = 1..Len(q)
  BY <1>2
<1>7. p \in Seq(LaneSlots) /\ Len(p) = Len(q)
  <2>1. p \in [1..Len(q) -> LaneSlots]
    BY <1>2, <1>5
  <2> HIDE DEF p, q
  <2> QED BY <1>2, <2>1
<1> HIDE DEF p, q, x
<1>8. lanes' \in [Senders -> Seq(LaneSlots)]
  BY <1>1, <1>3, <1>7
<1>9. Elems(p) = {p[i] : i \in 1..Len(q)} /\ Elems(q) = {q[i] : i \in 1..Len(q)}
  BY <1>2, <1>6 DEF Elems
<1>10. \A f \in Elems(p) : \E e \in Elems(q) :
         f.n = e.n /\ f.src = e.src /\ f.state = IF e.n = slot[s] THEN st ELSE e.state
  BY <1>5, <1>9
<1>11. \A e \in Elems(q) : \E f \in Elems(p) :
         f.n = e.n /\ f.src = e.src /\ f.state = IF e.n = slot[s] THEN st ELSE e.state
  BY <1>5, <1>9
<1>12. ASSUME LanesDistinct
       PROVE  LanesDistinct'
  <2>1. ASSUME NEW y \in Senders, NEW i \in DOMAIN lanes'[y], NEW j \in DOMAIN lanes'[y], i # j
        PROVE  lanes'[y][i].n # lanes'[y][j].n
    <3>1. CASE y # x
      BY <1>4, <1>12, <2>1, <3>1 DEF LanesDistinct
    <3>2. CASE y = x
      <4>1. i \in 1..Len(q) /\ j \in 1..Len(q) /\ lanes'[y] = p
        BY <1>4, <1>6, <3>2
      <4>2. \A m, o \in 1..Len(q) : m # o => q[m].n # q[o].n
        BY <1>1, <1>2, <1>12 DEF LanesDistinct, q
      <4> QED BY <1>5, <2>1, <4>1, <4>2
    <3> QED BY <3>1, <3>2
  <2> QED BY <2>1 DEF LanesDistinct
<1> QED BY <1>4, <1>8, <1>10, <1>11, <1>12 DEF x, q

-----------------------------------------------------------------------------
(* Receipts and lanes.                                                     *)

LaneStates == {"offered", "prechecked", "contended", "resolve", "deferred", "done"}

LEMMA StampTypes ==
    ASSUME TypeOK
    PROVE  /\ pc \in [Sources -> LaneStates] /\ clock \in Nat /\ slot \in [Sources -> Nat]
           /\ \A s \in Sources : slot[s] \in Nat /\ Sender[s] \in Senders
  BY TrafficTypes DEF TypeOK, LaneStates

LEMMA StaysLanes ==
    ASSUME LanesInv, Stays, traffic' = traffic
    PROVE  LanesInv'
  BY TrafficKept DEF LanesInv, Stays, Stamps, LaneShape, SlotShape, Unentered, LanesDistinct, ResolveHasSlot, InHand

LEMMA VacatesLanes ==
    ASSUME TypeOK, LanesInv, traffic' = traffic, NEW S \in SUBSET Sources, NEW where \in {"done", "offered"},
           \A s \in S : pc[s] = "deferred" /\ ~InLane(s), Vacates(S, where)
    PROVE  LanesInv'
<1>1. \A s \in Sources : pc'[s] = IF s \in S THEN where ELSE pc[s]
  BY DEF Vacates
<1>2. UNCHANGED <<clock, slot, lanes>>
  BY DEF Vacates
<1>3. Stamps'
  BY <1>1, <1>2 DEF LanesInv, Stamps
<1>4. ASSUME NEW x \in Senders, NEW e \in Elems(lanes[x])
      PROVE  SlotShape(x, e)'
  <2>1. SlotShape(x, e) /\ e.src \in Sources
    BY LaneTypes DEF LanesInv, LaneShape
  <2>2. \A s \in Sources : Unentered(s)' => Unentered(s)
    BY <1>1, TrafficKept DEF Unentered
  <2>3. e.state = "loaded" => e.src \notin S
    BY InLaneElems
  <2>4. e.state = "open" => e.src \notin S
    BY <2>1 DEF SlotShape
  <2> QED BY <1>1, <1>2, <2>1, <2>2, <2>3, <2>4, TrafficKept DEF SlotShape
<1>5. LaneShape'
  BY <1>2, <1>4 DEF LaneShape
<1>6. ResolveHasSlot'
  BY <1>1, <1>2, TrafficKept DEF LanesInv, ResolveHasSlot, InHand
<1>7. LanesDistinct'
  BY <1>2 DEF LanesInv, LanesDistinct
<1> QED BY <1>3, <1>5, <1>6, <1>7 DEF LanesInv

LEMMA PrecheckLanes ==
    ASSUME TypeOK, LanesInv, traffic' = traffic, NEW s \in Sources, Precheck(s)
    PROVE  LanesInv'
<1>0. /\ pc \in [Sources -> LaneStates] /\ clock \in Nat /\ slot \in [Sources -> Nat]
      /\ \A r \in Sources : slot[r] \in Nat /\ Sender[r] \in Senders
  BY StampTypes
<1>1. /\ pc[s] = "offered" /\ clock' = clock + 1 /\ lanes' = lanes
      /\ pc'[s] \in {"done", "prechecked"} /\ \A r \in Sources : r # s => pc'[r] = pc[r]
      /\ slot'[s] = clock + 1 /\ \A r \in Sources : r # s => slot'[r] = slot[r]
  BY <1>0 DEF Precheck, Goto
<1>2. \A r \in Sources : slot[r] <= clock /\ (pc[r] \notin {"offered", "done"} => slot[r] > 0)
  BY DEF LanesInv, Stamps
<1>3. Stamps'
  <2>1. \A r \in Sources : slot'[r] <= clock'
    BY <1>0, <1>1, <1>2
  <2>2. \A r, u \in Sources : r # u /\ slot'[r] = slot'[u] => slot'[r] = 0
    BY <1>0, <1>1, <1>2 DEF LanesInv, Stamps
  <2>3. \A r \in Sources : pc'[r] \notin {"offered", "done"} => slot'[r] > 0
    BY <1>0, <1>1, <1>2
  <2> QED BY <2>1, <2>2, <2>3 DEF Stamps
<1>4. ASSUME NEW x \in Senders, NEW e \in Elems(lanes[x])
      PROVE  SlotShape(x, e)'
  <2>1. SlotShape(x, e) /\ e.src \in Sources /\ e.n \in Nat /\ e.state \in {"open", "loaded", "released"}
    BY LaneTypes DEF LanesInv, LaneShape
  <2>2. e.n <= clock /\ e.n # slot'[s]
    BY <1>0, <1>1, <2>1 DEF SlotShape
  <2>3. e.state # "released" => e.src # s
    BY <1>1, <2>1 DEF SlotShape
  <2>4. \A r \in Sources : r # s => (Unentered(r)' <=> Unentered(r))
    BY <1>1, TrafficKept DEF Unentered
  <2>5. \A r \in Sources : e.n = slot'[r] => e.src = r /\ ~Unentered(r)'
    BY <1>1, <2>1, <2>2, <2>4 DEF SlotShape
  <2>6. e.n > 0 /\ e.n <= clock' /\ Sender'[e.src] = x
    BY <1>0, <1>1, <2>1, <2>2, TrafficKept DEF SlotShape
  <2>7. /\ e.state # "released" => e.n = slot'[e.src]
        /\ e.state = "open" => pc'[e.src] = "resolve"
        /\ e.state = "loaded" => pc'[e.src] = "deferred"
    BY <1>1, <2>1, <2>3 DEF SlotShape
  <2> QED BY <2>5, <2>6, <2>7 DEF SlotShape
<1>5. LaneShape'
  BY <1>1, <1>4 DEF LaneShape
<1>6. ResolveHasSlot'
  BY <1>1, TrafficKept DEF LanesInv, ResolveHasSlot, InHand
<1>7. LanesDistinct'
  BY <1>1 DEF LanesInv, LanesDistinct
<1> QED BY <1>3, <1>5, <1>6, <1>7 DEF LanesInv

\* An event with its receipt of before, or with a new one, enters the lane: with a claim it is
\* at work, without one its slot is released at once.
LEMMA EnterLanes ==
    ASSUME TypeOK, LanesInv, traffic' = traffic, NEW s \in Sources, NEW n \in Nat, NEW st \in {"open", "released"},
           lanes' = [lanes EXCEPT ![Sender[s]] = Append(@, [n |-> n, src |-> s, state |-> st])],
           pc[s] \in {"prechecked", "contended"},
           pc' = [pc EXCEPT ![s] = IF st = "open" THEN "resolve" ELSE "contended"],
           slot' = [slot EXCEPT ![s] = n],
           \/ n = slot[s] /\ Unentered(s) /\ clock' = clock /\ (st = "released" => ~ClaimsFirst(s))
           \/ n = clock + 1 /\ st = "open" /\ clock' = n
    PROVE  LanesInv'
<1> DEFINE new == [n |-> n, src |-> s, state |-> st]
<1>0. /\ pc \in [Sources -> LaneStates] /\ clock \in Nat /\ slot \in [Sources -> Nat]
      /\ \A r \in Sources : slot[r] \in Nat /\ Sender[r] \in Senders
  BY StampTypes
<1>1. /\ pc'[s] = (IF st = "open" THEN "resolve" ELSE "contended") /\ \A r \in Sources : r # s => pc'[r] = pc[r]
      /\ slot'[s] = n /\ \A r \in Sources : r # s => slot'[r] = slot[r]
  BY <1>0
<1>2. \A r \in Sources : slot[r] <= clock /\ (pc[r] \notin {"offered", "done"} => slot[r] > 0)
  BY DEF LanesInv, Stamps
<1>3. n > 0 /\ n <= clock' /\ clock <= clock' /\ clock' \in Nat
  BY <1>0, <1>2
<1>4. \A r \in Sources : r # s => slot[r] # n
  BY <1>0, <1>2, <1>3 DEF LanesInv, Stamps
<1>5. ASSUME NEW x \in Senders, NEW e \in Elems(lanes[x])
      PROVE  e.n # n /\ SlotShape(x, e)'
  <2>1. SlotShape(x, e) /\ e.src \in Sources /\ e.n \in Nat /\ e.state \in {"open", "loaded", "released"}
    BY LaneTypes DEF LanesInv, LaneShape
  <2>2. e.n <= clock /\ e.n # n
    BY <1>0, <2>1 DEF SlotShape
  <2>3. e.state # "released" => e.src # s
    BY <2>1 DEF SlotShape
  <2>4. \A r \in Sources : r # s => (Unentered(r)' <=> Unentered(r))
    BY <1>1, TrafficKept DEF Unentered
  <2>5. \A r \in Sources : e.n = slot'[r] => e.src = r /\ ~Unentered(r)'
    BY <1>1, <2>1, <2>2, <2>4 DEF SlotShape
  <2>6. e.n > 0 /\ e.n <= clock' /\ Sender'[e.src] = x
    BY <1>0, <1>3, <2>1, <2>2, TrafficKept DEF SlotShape
  <2>7. /\ e.state # "released" => e.n = slot'[e.src]
        /\ e.state = "open" => pc'[e.src] = "resolve"
        /\ e.state = "loaded" => pc'[e.src] = "deferred"
    BY <1>1, <2>1, <2>3 DEF SlotShape
  <2> QED BY <2>2, <2>5, <2>6, <2>7 DEF SlotShape
<1>6. Sender[s] \in Senders /\ \A e \in Elems(lanes[Sender[s]]) : e.n # n
  BY <1>0, <1>5
<1>7. /\ \A x \in Senders : x # Sender[s] => lanes'[x] = lanes[x]
      /\ Elems(lanes'[Sender[s]]) = Elems(lanes[Sender[s]]) \cup {new}
      /\ LanesDistinct'
  BY <1>6, EnterEffect DEF LanesInv
<1>8. ASSUME NEW x \in Senders, x = Sender[s], NEW f, f = new
      PROVE  SlotShape(x, f)'
  <2>1. f.n = n /\ f.src = s /\ f.state = st
    BY <1>8
  <2> HIDE DEF new
  <2>2. ~Unentered(s)'
    BY <1>1, TrafficKept DEF Unentered
  <2>3. \A r \in Sources : n = slot'[r] => r = s
    BY <1>1, <1>4
  <2> QED BY <1>1, <1>3, <1>8, <2>1, <2>2, <2>3, TrafficKept DEF SlotShape
<1> HIDE DEF new
<1>9. LaneShape'
  <2>1. ASSUME NEW x \in Senders, NEW f \in Elems(lanes'[x])
        PROVE  SlotShape(x, f)'
    <3>1. CASE x # Sender[s]
      BY <1>5, <1>7, <3>1
    <3>2. CASE x = Sender[s]
      <4>1. f = new \/ f \in Elems(lanes[x])
        BY <1>7, <3>2
      <4> QED BY <1>5, <1>8, <3>2, <4>1
    <3> QED BY <3>1, <3>2
  <2> QED BY <2>1 DEF LaneShape
<1>10. ResolveHasSlot'
  <2>1. ASSUME NEW r \in Sources, pc'[r] = "resolve"
        PROVE  InHand(r)'
    <3>1. CASE r = s
      <4>1. new \in Elems(lanes'[Sender[s]]) /\ new.src = s /\ new.n = n /\ new.state = "open"
        BY <1>1, <1>7, <2>1, <3>1 DEF new
      <4> QED BY <1>1, <3>1, <4>1, TrafficKept DEF InHand
    <3>2. CASE r # s
      <4>1. pc[r] = "resolve" /\ slot'[r] = slot[r]
        BY <1>1, <2>1, <3>2
      <4>2. PICK e \in Elems(lanes[Sender[r]]) : e.src = r /\ e.n = slot[r] /\ e.state = "open"
        BY <4>1 DEF LanesInv, ResolveHasSlot, InHand
      <4>3. e \in Elems(lanes'[Sender[r]])
        BY <1>0, <1>7
      <4> QED BY <4>1, <4>2, <4>3, TrafficKept DEF InHand
    <3> QED BY <3>1, <3>2
  <2> QED BY <2>1 DEF ResolveHasSlot
<1>11. Stamps'
  <2>1. \A r \in Sources : slot'[r] <= clock'
    BY <1>0, <1>1, <1>2, <1>3
  <2>2. \A r, u \in Sources : r # u /\ slot'[r] = slot'[u] => slot'[r] = 0
    BY <1>1, <1>4 DEF LanesInv, Stamps
  <2>3. \A r \in Sources : pc'[r] \notin {"offered", "done"} => slot'[r] > 0
    BY <1>0, <1>1, <1>2, <1>3
  <2> QED BY <2>1, <2>2, <2>3 DEF Stamps
<1> QED BY <1>7, <1>9, <1>10, <1>11 DEF LanesInv

\* The slot of a handler that is done with its event is loaded or released.
LEMMA MarkLanes ==
    ASSUME TypeOK, LanesInv, traffic' = traffic, NEW s \in Sources, NEW st \in {"loaded", "released"},
           lanes' = SetSlot(lanes, s, st), pc[s] = "resolve", UNCHANGED <<clock, slot>>,
           NEW where \in {"deferred", "done", "offered"}, pc' = [pc EXCEPT ![s] = where],
           st = "loaded" => where = "deferred", where = "deferred" => st = "loaded"
    PROVE  /\ LanesInv'
           /\ \A r \in Sources : InLane(r)' <=> IF r = s THEN st = "loaded" ELSE InLane(r)
<1>0. /\ pc \in [Sources -> LaneStates] /\ clock \in Nat /\ slot \in [Sources -> Nat]
      /\ \A r \in Sources : slot[r] \in Nat /\ Sender[r] \in Senders
  BY StampTypes
<1>1. pc'[s] = where /\ \A r \in Sources : r # s => pc'[r] = pc[r]
  BY <1>0
<1>2. /\ \A x \in Senders : x # Sender[s] => lanes'[x] = lanes[x]
      /\ \A f \in Elems(lanes'[Sender[s]]) : \E e \in Elems(lanes[Sender[s]]) :
           f.n = e.n /\ f.src = e.src /\ f.state = IF e.n = slot[s] THEN st ELSE e.state
      /\ \A e \in Elems(lanes[Sender[s]]) : \E f \in Elems(lanes'[Sender[s]]) :
           f.n = e.n /\ f.src = e.src /\ f.state = IF e.n = slot[s] THEN st ELSE e.state
      /\ LanesDistinct'
  BY MarkEffect DEF LanesInv
<1>3. ASSUME NEW x \in Senders, NEW f \in Elems(lanes'[x])
      PROVE  \E e \in Elems(lanes[x]) :
               /\ f.n = e.n /\ f.src = e.src
               /\ IF e.n = slot[s] THEN e.src = s /\ f.state = st ELSE f.state = e.state /\ (f.state # "released" => e.src # s)
  <2>1. CASE x = Sender[s]
    <3>1. PICK e \in Elems(lanes[x]) : f.n = e.n /\ f.src = e.src /\ f.state = IF e.n = slot[s] THEN st ELSE e.state
      BY <1>2, <2>1
    <3>2. SlotShape(x, e)
      BY DEF LanesInv, LaneShape
    <3> QED BY <3>1, <3>2 DEF SlotShape
  <2>2. CASE x # Sender[s]
    <3>1. f \in Elems(lanes[x])
      BY <1>2, <2>2
    <3>2. SlotShape(x, f) /\ f.src # s
      BY <2>2, <3>1 DEF LanesInv, LaneShape, SlotShape
    <3>3. f.n # slot[s]
      BY <3>2 DEF SlotShape
    <3> QED BY <3>1, <3>2, <3>3
  <2> QED BY <2>1, <2>2
<1>4. ASSUME NEW x \in Senders, NEW f \in Elems(lanes'[x])
      PROVE  SlotShape(x, f)'
  <2>1. PICK e \in Elems(lanes[x]) :
          /\ f.n = e.n /\ f.src = e.src
          /\ IF e.n = slot[s] THEN e.src = s /\ f.state = st ELSE f.state = e.state /\ (f.state # "released" => e.src # s)
    BY <1>3
  <2>2. SlotShape(x, e) /\ e.src \in Sources /\ e.n \in Nat
    BY LaneTypes DEF LanesInv, LaneShape
  <2>3. \A r \in Sources : Unentered(r)' => Unentered(r)
    BY <1>1, TrafficKept DEF Unentered
  <2>4. /\ Sender'[f.src] = x /\ f.n > 0 /\ f.n <= clock'
        /\ \A r \in Sources : f.n = slot'[r] => f.src = r /\ ~Unentered(r)'
    BY <2>1, <2>2, <2>3, TrafficKept DEF SlotShape
  <2>5. /\ f.state # "released" => f.n = slot'[f.src]
        /\ f.state = "open" => pc'[f.src] = "resolve"
        /\ f.state = "loaded" => pc'[f.src] = "deferred"
    <3>1. CASE e.n = slot[s]
      BY <1>1, <2>1, <2>2, <3>1
    <3>2. CASE e.n # slot[s]
      BY <1>1, <2>1, <2>2, <3>2 DEF SlotShape
    <3> QED BY <3>1, <3>2
  <2> QED BY <2>4, <2>5 DEF SlotShape
<1>5. LaneShape'
  BY <1>4 DEF LaneShape
<1>6. ResolveHasSlot'
  <2>1. ASSUME NEW r \in Sources, pc'[r] = "resolve"
        PROVE  InHand(r)'
    <3>1. r # s /\ pc[r] = "resolve"
      BY <1>1, <2>1
    <3>2. PICK e \in Elems(lanes[Sender[r]]) : e.src = r /\ e.n = slot[r] /\ e.state = "open"
      BY <3>1 DEF LanesInv, ResolveHasSlot, InHand
    <3>3. \E f \in Elems(lanes'[Sender[r]]) : f.src = r /\ f.n = slot[r] /\ f.state = "open"
      <4>0. e.n # slot[s]
        BY <1>0, <3>1, <3>2 DEF LanesInv, LaneShape, SlotShape
      <4>1. CASE Sender[r] = Sender[s]
        BY <1>2, <3>2, <4>0, <4>1
      <4>2. CASE Sender[r] # Sender[s]
        BY <1>0, <1>2, <3>2, <4>2
      <4> QED BY <4>1, <4>2
    <3> QED BY <3>3, TrafficKept DEF InHand
  <2> QED BY <2>1 DEF ResolveHasSlot
<1>7. Stamps'
  BY <1>1 DEF LanesInv, Stamps
<1>8. ASSUME NEW r \in Sources
      PROVE  InLane(r)' <=> IF r = s THEN st = "loaded" ELSE InLane(r)
  <2>1. ASSUME InLane(r)'
        PROVE  IF r = s THEN st = "loaded" ELSE InLane(r)
    <3>0. PICK x \in Senders : \E f \in Elems(lanes'[x]) : f.src = r /\ f.state = "loaded"
      BY <2>1, InLaneElems
    <3>1. PICK f \in Elems(lanes'[x]) : f.src = r /\ f.state = "loaded"
      BY <3>0
    <3>2. PICK e \in Elems(lanes[x]) :
            /\ f.n = e.n /\ f.src = e.src
            /\ IF e.n = slot[s] THEN e.src = s /\ f.state = st ELSE f.state = e.state /\ (f.state # "released" => e.src # s)
      BY <1>3
    <3>3. CASE r = s
      BY <3>1, <3>2, <3>3
    <3>4. CASE r # s
      <4>1. e.src = r /\ e.state = "loaded"
        BY <3>1, <3>2, <3>4
      <4>2. InLane(r)
        BY <4>1, InLaneElems
      <4> QED BY <3>4, <4>2
    <3> QED BY <3>3, <3>4
  <2>2. ASSUME r = s, st = "loaded"
        PROVE  InLane(r)'
    <3>1. PICK e \in Elems(lanes[Sender[s]]) : e.src = s /\ e.n = slot[s]
      BY DEF LanesInv, ResolveHasSlot, InHand
    <3>2. PICK f \in Elems(lanes'[Sender[s]]) : f.src = e.src /\ f.state = IF e.n = slot[s] THEN st ELSE e.state
      BY <1>2
    <3>3. Sender[s] \in Senders
      BY <1>0
    <3> QED BY <2>2, <3>1, <3>2, <3>3, InLaneElems
  <2>3. ASSUME r # s, InLane(r)
        PROVE  InLane(r)'
    <3>0. PICK x \in Senders : \E e \in Elems(lanes[x]) : e.src = r /\ e.state = "loaded"
      BY <2>3, InLaneElems
    <3>1. PICK e \in Elems(lanes[x]) : e.src = r /\ e.state = "loaded"
      BY <3>0
    <3>2. SlotShape(x, e)
      BY DEF LanesInv, LaneShape
    <3>3. e.n # slot[s]
      BY <2>3, <3>1, <3>2 DEF SlotShape
    <3>4. \E f \in Elems(lanes'[x]) : f.src = r /\ f.state = "loaded"
      <4>1. CASE x = Sender[s]
        BY <1>2, <3>1, <3>3, <4>1
      <4>2. CASE x # Sender[s]
        BY <1>2, <3>1, <4>2
      <4> QED BY <4>1, <4>2
    <3> QED BY <3>4, InLaneElems
  <2> QED BY <2>1, <2>2, <2>3
<1> QED BY <1>2, <1>5, <1>6, <1>7, <1>8 DEF LanesInv

\* The lane gives up the slot at its head; what was loaded leaves the lane.
LEMMA PopLanes ==
    ASSUME TypeOK, LanesInv, traffic' = traffic, NEW x \in Senders, Lane(x)
    PROVE  /\ LanesInv'
           /\ LET e == Head(lanes[x]) IN
              /\ e \in Elems(lanes[x]) /\ SlotShape(x, e) /\ e.src \in Sources /\ e.n \in Nat
              /\ \A r \in Sources : InLane(r)' <=> InLane(r) /\ ~(r = e.src /\ e.state = "loaded")
<1> DEFINE e == Head(lanes[x])
<1>0. /\ pc \in [Sources -> LaneStates] /\ clock \in Nat /\ slot \in [Sources -> Nat]
      /\ \A r \in Sources : slot[r] \in Nat /\ Sender[r] \in Senders
  BY StampTypes
<1>1. /\ lanes[x] # <<>> /\ lanes' = [lanes EXCEPT ![x] = Tail(@)] /\ UNCHANGED <<clock, slot>>
      /\ pc' = pc \/ (pc' = [pc EXCEPT ![e.src] = "offered"] /\ e.state = "loaded")
      /\ e.state # "open"
  BY DEF Lane, Goto
<1>2. /\ \A y \in Senders : y # x => lanes'[y] = lanes[y]
      /\ Elems(lanes[x]) = Elems(lanes'[x]) \cup {e}
      /\ LanesDistinct' /\ \A f \in Elems(lanes'[x]) : f.n # e.n
  BY <1>1, PopEffect DEF LanesInv
<1> HIDE DEF e
<1>3. e \in Elems(lanes[x]) /\ SlotShape(x, e) /\ e.src \in Sources /\ e.n \in Nat
  BY <1>2, LaneTypes DEF LanesInv, LaneShape
<1>4. ASSUME NEW y \in Senders, NEW f \in Elems(lanes'[y]), f.state # "released", e.state = "loaded"
      PROVE  f.src # e.src
  <2>1. f \in Elems(lanes[y]) /\ SlotShape(y, f)
    BY <1>2 DEF LanesInv, LaneShape
  <2>2. CASE y = x
    BY <1>2, <1>3, <1>4, <2>1, <2>2 DEF SlotShape
  <2>3. CASE y # x
    BY <1>3, <2>1, <2>3 DEF SlotShape
  <2> QED BY <2>2, <2>3
<1>5. \A r \in Sources : pc'[r] = pc[r] \/ (r = e.src /\ e.state = "loaded" /\ pc'[r] = "offered")
  BY <1>0, <1>1
<1>6. ASSUME NEW y \in Senders, NEW f \in Elems(lanes'[y])
      PROVE  SlotShape(y, f)'
  <2>1. f \in Elems(lanes[y])
    BY <1>2
  <2>2. SlotShape(y, f) /\ f.src \in Sources /\ f.n \in Nat
    BY <2>1, LaneTypes DEF LanesInv, LaneShape
  <2>3. \A r \in Sources : Unentered(r)' => Unentered(r)
    BY <1>5, TrafficKept DEF Unentered
  <2>4. /\ Sender'[f.src] = y /\ f.n > 0 /\ f.n <= clock'
        /\ \A r \in Sources : f.n = slot'[r] => f.src = r /\ ~Unentered(r)'
    BY <1>1, <2>2, <2>3, TrafficKept DEF SlotShape
  <2>5. f.state # "released" => pc'[f.src] = pc[f.src]
    BY <1>4, <1>5, <2>2
  <2>6. /\ f.state # "released" => f.n = slot'[f.src]
        /\ f.state = "open" => pc'[f.src] = "resolve"
        /\ f.state = "loaded" => pc'[f.src] = "deferred"
    BY <1>1, <2>2, <2>5 DEF SlotShape
  <2> QED BY <2>4, <2>6 DEF SlotShape
<1>7. LaneShape'
  BY <1>6 DEF LaneShape
<1>8. ResolveHasSlot'
  <2>1. ASSUME NEW r \in Sources, pc'[r] = "resolve"
        PROVE  InHand(r)'
    <3>1. pc[r] = "resolve" /\ Sender[r] \in Senders
      BY <1>0, <1>5, <2>1
    <3>2. PICK f \in Elems(lanes[Sender[r]]) : f.src = r /\ f.n = slot[r] /\ f.state = "open"
      BY <3>1 DEF LanesInv, ResolveHasSlot, InHand
    <3>3. f # e
      BY <1>1, <3>2
    <3>4. f \in Elems(lanes'[Sender[r]])
      BY <1>2, <3>1, <3>2, <3>3
    <3> QED BY <1>1, <3>2, <3>4, TrafficKept DEF InHand
  <2> QED BY <2>1 DEF ResolveHasSlot
<1>9. Stamps'
  BY <1>1, <1>5 DEF LanesInv, Stamps
<1>10. ASSUME NEW r \in Sources
       PROVE  InLane(r)' <=> InLane(r) /\ ~(r = e.src /\ e.state = "loaded")
  <2>1. ASSUME InLane(r)'
        PROVE  InLane(r) /\ ~(r = e.src /\ e.state = "loaded")
    <3>0. PICK y \in Senders : \E f \in Elems(lanes'[y]) : f.src = r /\ f.state = "loaded"
      BY <2>1, InLaneElems
    <3>1. PICK f \in Elems(lanes'[y]) : f.src = r /\ f.state = "loaded"
      BY <3>0
    <3>2. f \in Elems(lanes[y])
      BY <1>2
    <3> QED BY <1>4, <3>1, <3>2, InLaneElems
  <2>2. ASSUME InLane(r), ~(r = e.src /\ e.state = "loaded")
        PROVE  InLane(r)'
    <3>0. PICK y \in Senders : \E f \in Elems(lanes[y]) : f.src = r /\ f.state = "loaded"
      BY <2>2, InLaneElems
    <3>1. PICK f \in Elems(lanes[y]) : f.src = r /\ f.state = "loaded"
      BY <3>0
    <3>2. f \in Elems(lanes'[y])
      BY <1>2, <2>2, <3>1
    <3> QED BY <3>1, <3>2, InLaneElems
  <2> QED BY <2>1, <2>2
<1> QED BY <1>2, <1>3, <1>7, <1>8, <1>9, <1>10 DEF LanesInv, e

LaneTypes1 ==
    /\ pc \in [Sources -> LaneStates] /\ clock \in Nat /\ slot \in [Sources -> Nat]
    /\ lanes \in [Senders -> Seq(LaneSlots)]

\* A slot that is written with the receipt it had stays as it is.
LEMMA SameSlot ==
    ASSUME TypeOK, NEW s \in Sources
    PROVE  slot = [slot EXCEPT ![s] = slot[s]]
  BY DEF TypeOK

LEMMA ClaimLiveLanes ==
    ASSUME TypeOK, LanesInv, traffic' = traffic, NEW s \in Sources, ClaimLive(s)
    PROVE  LanesInv' /\ LaneTypes1' /\ \A r \in Sources : InLane(r)' <=> InLane(r)
<1>0. /\ pc \in [Sources -> LaneStates] /\ clock \in Nat /\ slot \in [Sources -> Nat]
      /\ lanes \in [Senders -> Seq(LaneSlots)] /\ slot[s] \in Nat
  BY StampTypes DEF TypeOK
<1>1. pc[s] = "prechecked" /\ UNCHANGED <<clock, slot>> /\ Unentered(s)
  BY DEF ClaimLive, Unentered
<1>2. slot' = [slot EXCEPT ![s] = slot[s]]
  BY <1>1, SameSlot
<1>3. CASE lanes' = EnterLane(s, slot[s]) /\ pc' = [pc EXCEPT ![s] = "resolve"]
  <2>1. lanes' = [lanes EXCEPT ![Sender[s]] = Append(@, [n |-> slot[s], src |-> s, state |-> "open"])]
    BY <1>3 DEF EnterLane
  <2>2. pc' = [pc EXCEPT ![s] = IF "open" = "open" THEN "resolve" ELSE "contended"]
    BY <1>3
  <2>3. LanesInv'
    BY <1>0, <1>1, <1>2, <2>1, <2>2, EnterLanes
  <2>4. lanes' \in [Senders -> Seq(LaneSlots)] /\ \A r \in Sources : InLane(r)' <=> InLane(r)
    BY <1>0, <2>1, EnterEffect
  <2>5. pc' \in [Sources -> LaneStates]
    BY <1>0, <1>3 DEF LaneStates
  <2> QED BY <1>0, <1>1, <2>3, <2>4, <2>5 DEF LaneTypes1
<1>4. CASE Contend(s)
  <2>1. pc' = [pc EXCEPT ![s] = "contended"]
    BY <1>4 DEF Contend, Goto
  <2>2. pc' \in [Sources -> LaneStates]
    BY <1>0, <2>1 DEF LaneStates
  <2>3. CASE ClaimsFirst(s)
    <3>1. lanes' = lanes
      BY <1>4, <2>3 DEF Contend
    <3>2. \A r \in Sources : pc'[r] = IF r = s THEN "contended" ELSE pc[r]
      BY <1>0, <2>1
    <3>3. \A r \in Sources : Unentered(r)' <=> Unentered(r)
      BY <1>1, <2>3, <3>2, TrafficKept DEF Unentered
    <3>4. LaneShape'
      <4>1. ASSUME NEW x \in Senders, NEW e \in Elems(lanes[x])
            PROVE  SlotShape(x, e)'
        <5>1. SlotShape(x, e) /\ e.src \in Sources
          BY LaneTypes DEF LanesInv, LaneShape
        <5>2. e.state \in {"open", "loaded"} => e.src # s
          BY <1>1, <5>1 DEF SlotShape
        <5> QED BY <1>1, <3>2, <3>3, <5>1, <5>2, TrafficKept DEF SlotShape
      <4> QED BY <3>1, <4>1 DEF LaneShape
    <3>5. Stamps' /\ LanesDistinct' /\ ResolveHasSlot'
      BY <1>1, <3>1, <3>2, TrafficKept DEF LanesInv, Stamps, LanesDistinct, ResolveHasSlot, InHand
    <3>6. \A r \in Sources : InLane(r)' <=> InLane(r)
      BY <3>1 DEF InLane
    <3> QED BY <1>0, <1>1, <2>2, <3>1, <3>4, <3>5, <3>6 DEF LanesInv, LaneTypes1
  <2>4. CASE ~ClaimsFirst(s)
    <3>1. lanes' = [lanes EXCEPT ![Sender[s]] = Append(@, [n |-> slot[s], src |-> s, state |-> "released"])]
      BY <1>4, <2>4 DEF Contend
    <3>2. pc' = [pc EXCEPT ![s] = IF "released" = "open" THEN "resolve" ELSE "contended"]
      BY <2>1
    <3>3. LanesInv'
      BY <1>0, <1>1, <1>2, <2>4, <3>1, <3>2, EnterLanes
    <3>4. lanes' \in [Senders -> Seq(LaneSlots)] /\ \A r \in Sources : InLane(r)' <=> InLane(r)
      BY <1>0, <3>1, EnterEffect
    <3> QED BY <1>0, <1>1, <2>2, <3>3, <3>4 DEF LaneTypes1
  <2> QED BY <2>3, <2>4
<1> QED BY <1>3, <1>4 DEF ClaimLive, Goto

LEMMA ClaimAgainLanes ==
    ASSUME TypeOK, LanesInv, traffic' = traffic, NEW s \in Sources, ClaimAgain(s)
    PROVE  LanesInv' /\ LaneTypes1' /\ \A r \in Sources : InLane(r)' <=> InLane(r)
<1>0. /\ pc \in [Sources -> LaneStates] /\ clock \in Nat /\ slot \in [Sources -> Nat]
      /\ lanes \in [Senders -> Seq(LaneSlots)] /\ slot[s] \in Nat
  BY StampTypes DEF TypeOK
<1> DEFINE n == IF ClaimsFirst(s) THEN slot[s] ELSE clock + 1
<1>1. pc[s] = "contended"
  BY DEF ClaimAgain
<1>2. CASE pc' = [pc EXCEPT ![s] = "done"] /\ UNCHANGED <<clock, slot, lanes>>
  <2>1. \A r \in Sources : pc'[r] = IF r = s THEN "done" ELSE pc[r]
    BY <1>0, <1>2
  <2>2. \A r \in Sources : Unentered(r)' => Unentered(r)
    BY <2>1, TrafficKept DEF Unentered
  <2>3. LaneShape'
    <3>1. ASSUME NEW x \in Senders, NEW e \in Elems(lanes[x])
          PROVE  SlotShape(x, e)'
      <4>1. SlotShape(x, e) /\ e.src \in Sources
        BY LaneTypes DEF LanesInv, LaneShape
      <4>2. e.state \in {"open", "loaded"} => e.src # s
        BY <1>1, <4>1 DEF SlotShape
      <4> QED BY <1>2, <2>1, <2>2, <4>1, <4>2, TrafficKept DEF SlotShape
    <3> QED BY <1>2, <3>1 DEF LaneShape
  <2>4. Stamps' /\ LanesDistinct' /\ ResolveHasSlot'
    BY <1>2, <2>1, TrafficKept DEF LanesInv, Stamps, LanesDistinct, ResolveHasSlot, InHand
  <2>5. \A r \in Sources : InLane(r)' <=> InLane(r)
    BY <1>2 DEF InLane
  <2>6. pc' \in [Sources -> LaneStates]
    BY <1>0, <1>2 DEF LaneStates
  <2> QED BY <1>0, <1>2, <2>3, <2>4, <2>5, <2>6 DEF LanesInv, LaneTypes1
<1>3. CASE /\ pc' = [pc EXCEPT ![s] = "resolve"] /\ clock' = (IF n > clock THEN n ELSE clock)
           /\ slot' = [slot EXCEPT ![s] = n] /\ lanes' = EnterLane(s, n)
  <2>1. n \in Nat
    BY <1>0
  <2>2. \/ n = slot[s] /\ Unentered(s) /\ clock' = clock
        \/ n = clock + 1 /\ clock' = n
    <3>1. slot[s] <= clock
      BY DEF LanesInv, Stamps
    <3>2. CASE ClaimsFirst(s)
      <4>1. n = slot[s] /\ ~(n > clock)
        BY <1>0, <3>1, <3>2
      <4> HIDE DEF n
      <4> QED BY <1>1, <1>3, <3>2, <4>1 DEF Unentered
    <3>3. CASE ~ClaimsFirst(s)
      <4>1. n = clock + 1 /\ n > clock
        BY <1>0, <3>3
      <4> HIDE DEF n
      <4> QED BY <1>3, <4>1
    <3> QED BY <3>2, <3>3
  <2> HIDE DEF n
  <2>3. lanes' = [lanes EXCEPT ![Sender[s]] = Append(@, [n |-> n, src |-> s, state |-> "open"])]
    BY <1>3 DEF EnterLane
  <2>4. pc' = [pc EXCEPT ![s] = IF "open" = "open" THEN "resolve" ELSE "contended"]
    BY <1>3
  <2>5. LanesInv'
    BY <1>1, <1>3, <2>1, <2>2, <2>3, <2>4, EnterLanes
  <2>6. lanes' \in [Senders -> Seq(LaneSlots)] /\ \A r \in Sources : InLane(r)' <=> InLane(r)
    BY <2>1, <2>3, EnterEffect
  <2>7. pc' \in [Sources -> LaneStates] /\ slot' \in [Sources -> Nat]
    BY <1>0, <1>3, <2>1 DEF LaneStates
  <2>8. clock' \in Nat
    BY <1>0, <2>1, <2>2
  <2> QED BY <2>5, <2>6, <2>7, <2>8 DEF LaneTypes1
<1> QED BY <1>2, <1>3 DEF ClaimAgain, KeepSlots, Goto

LEMMA LanesStep ==
    ASSUME TypeOK, LanesInv, PlacesInv, [Next]_vars
    PROVE  LanesInv' /\ LaneTypes1'
<1>0. /\ pc \in [Sources -> LaneStates] /\ clock \in Nat /\ slot \in [Sources -> Nat]
      /\ lanes \in [Senders -> Seq(LaneSlots)] /\ traffic' = traffic
  BY StampTypes, TrafficSame DEF TypeOK
<1>1. ASSUME NEW s \in Sources, Precheck(s)
      PROVE  LanesInv' /\ LaneTypes1'
  <2>1. LanesInv'
    BY <1>0, <1>1, PrecheckLanes
  <2>2. LaneTypes1'
    BY <1>0, <1>1 DEF Precheck, Goto, LaneTypes1, LaneStates
  <2> QED BY <2>1, <2>2
<1>2. ASSUME NEW s \in Sources, ClaimLive(s) \/ ClaimAgain(s)
      PROVE  LanesInv' /\ LaneTypes1'
  BY <1>0, <1>2, ClaimLiveLanes, ClaimAgainLanes
<1>3. ASSUME NEW s \in Sources, Submit(s)
      PROVE  LanesInv' /\ LaneTypes1'
  <2>1. /\ pc[s] = "resolve" /\ lanes' = SetSlot(lanes, s, "loaded") /\ UNCHANGED <<clock, slot>>
        /\ pc' = [pc EXCEPT ![s] = "deferred"]
    BY <1>3 DEF Submit, Goto
  <2>2. LanesInv'
    BY <1>0, <2>1, MarkLanes
  <2>3. lanes' \in [Senders -> Seq(LaneSlots)]
    BY <2>1, MarkEffect
  <2> QED BY <1>0, <2>1, <2>2, <2>3 DEF LaneTypes1, LaneStates
<1>4. ASSUME NEW s \in Sources, NEW where \in {"done", "offered"}, Leave(s, where)
      PROVE  LanesInv' /\ LaneTypes1'
  <2>1. /\ pc[s] = "resolve" /\ lanes' = SetSlot(lanes, s, "released") /\ UNCHANGED <<clock, slot>>
        /\ pc' = [pc EXCEPT ![s] = where]
    BY <1>4 DEF Leave, Goto
  <2>2. LanesInv'
    BY <1>0, <2>1, MarkLanes
  <2>3. lanes' \in [Senders -> Seq(LaneSlots)]
    BY <2>1, MarkEffect
  <2> QED BY <1>0, <2>1, <2>2, <2>3 DEF LaneTypes1, LaneStates
<1>5. ASSUME NEW x \in Senders, Lane(x)
      PROVE  LanesInv' /\ LaneTypes1'
  <2>1. LanesInv'
    BY <1>0, <1>5, PopLanes
  <2>2. /\ lanes[x] # <<>> /\ lanes' = [lanes EXCEPT ![x] = Tail(@)] /\ UNCHANGED <<clock, slot>>
        /\ pc' = pc \/ (pc' = [pc EXCEPT ![Head(lanes[x]).src] = "offered"])
    BY <1>5 DEF Lane, Goto
  <2>3. lanes' \in [Senders -> Seq(LaneSlots)]
    BY <2>2, PopEffect
  <2> QED BY <1>0, <2>1, <2>2, <2>3 DEF LaneTypes1, LaneStates
<1>6. ASSUME NEW S \in SUBSET Sources, NEW where \in {"done", "offered"},
             \A s \in S : pc[s] = "deferred" /\ ~InLane(s), Vacates(S, where)
      PROVE  LanesInv' /\ LaneTypes1'
  <2>1. LanesInv'
    BY <1>0, <1>6, VacatesLanes
  <2>2. LaneTypes1'
    BY <1>0, <1>6 DEF Vacates, LaneTypes1, LaneStates
  <2> QED BY <2>1, <2>2
<1>7. CASE Stays
  BY <1>0, <1>7, StaysLanes DEF Stays, LaneTypes1
<1> QED BY <1>1, <1>2, <1>3, <1>4, <1>5, <1>6, <1>7, LaneCases

-----------------------------------------------------------------------------
(* What the operations on gates do.                                        *)

LEMMA FilledFacts ==
    ASSUME NEW g \in GateEntries, NEW q \in Seq(Queued)
    PROVE  Filled(g, q) \in GateEntries /\ Filled(g, q).queue = q /\ Filled(g, q).pc # "none"
<1> DEFINE a == [g EXCEPT !.queue = q]
           w == [a EXCEPT !.pc = IF @ = "none" THEN "loop" ELSE @]
<1>1. a \in GateEntries /\ a.queue = q
  BY DEF GateEntries
<1>2. Filled(g, q) = w
  BY DEF Filled, GateEntries
<1> HIDE DEF a
<1>3. w \in GateEntries /\ w.queue = a.queue /\ w.pc # "none"
  BY <1>1 DEF GateEntries
<1> QED BY <1>1, <1>2, <1>3

LEMMA KeyFacts ==
    ASSUME NEW k \in Keys, NEW rk, rk = [k EXCEPT !.thread = NoThread]
    PROVE  rk \in Keys /\ (k.thread # NoThread => rk # k)
  BY DEF Keys, Conversations

\* What is moved to a thread is a run at the front of the room's queue, and the thread's gate was idle.
LEMMA PromotedFacts ==
    ASSUME TypeOK, NEW k \in Keys, NEW rk, rk = [k EXCEPT !.thread = NoThread], NEW r, r = Promoted(gates, k)
    PROVE  /\ r \in 0..Len(gates[rk].queue)
           /\ r # 0 => k.thread # NoThread /\ gates[k].pc = "none"
<1>1. rk \in Keys
  BY KeyFacts
<1>2. gates[rk].queue \in Seq(Queued)
  BY <1>1, GateTypes
<1>3. Len(gates[rk].queue) \in Nat
  BY <1>2
<1> DEFINE f == FrontRun(gates[rk].queue, TRUE, clock)
<1>4. f \in 0..Len(gates[rk].queue)
  BY <1>2, FrontRunFacts
<1>5. r = f \/ r = 0
  BY DEF Promoted
<1>6. r # 0 => k.thread # NoThread /\ gates[k].pc = "none"
  BY DEF Promoted
<1> HIDE DEF f
<1> QED BY <1>3, <1>4, <1>5, <1>6

QueuesApart == \A l, m \in Keys : l # m => Elems(gates[l].queue) \cap Elems(gates[m].queue) = {}

\* The queues of all gates after an admission: nothing but the event is new, nothing is lost or doubled.
Admits(e) ==
    /\ gates' \in [Keys -> GateEntries]
    /\ \A l \in Keys : Ordered(gates'[l].queue)
    /\ \A l \in Keys : \A f \in Elems(gates'[l].queue) : f = e \/ \E m \in Keys : f \in Elems(gates[m].queue)
    /\ \A m \in Keys : \A f \in Elems(gates[m].queue) : \E l \in Keys : f \in Elems(gates'[l].queue)
    /\ \E l \in Keys : e \in Elems(gates'[l].queue)
    /\ QueuesApart'
    /\ Drained'

\* From queues q to queues p, the event goes to k and the front of the room's queue may go there, too.
LEMMA AdmitQueues ==
    ASSUME TypeOK, Drained, QueuesApart, \A l \in Keys : Ordered(gates[l].queue), NEW e \in Queued,
           \A l \in Keys : \A f \in Elems(gates[l].queue) : f.n # e.n,
           gates' \in [Keys -> GateEntries], NEW k \in Keys, NEW rk \in Keys, NEW r \in 0..Len(gates[rk].queue),
           r # 0 => rk # k /\ gates[k].queue = <<>>,
           \A l \in Keys : l \notin {k, rk} => gates'[l] = gates[l],
           r = 0 /\ rk # k => gates'[rk] = gates[rk],
           r # 0 => gates'[rk].queue = SubSeq(gates[rk].queue, r + 1, Len(gates[rk].queue)) /\ gates'[rk].pc # "none",
           gates'[k].queue = Insert(IF r = 0 THEN gates[k].queue ELSE SubSeq(gates[rk].queue, 1, r), e),
           gates'[k].pc # "none"
    PROVE  Admits(e)
<1>0. \A l \in Keys : gates[l].queue \in Seq(Queued) /\ gates'[l].queue \in Seq(Queued)
  <2>1. \A l \in Keys : gates'[l] \in GateEntries
    OBVIOUS
  <2> QED BY <2>1, GateTypes DEF GateEntries
<1>1. CASE r = 0
  <2>1. gates[k].queue \in Seq(Queued) /\ Ordered(gates[k].queue) /\ gates'[k].queue = Insert(gates[k].queue, e)
    BY <1>0, <1>1
  <2>2. Ordered(gates'[k].queue) /\ Elems(gates'[k].queue) = Elems(gates[k].queue) \cup {e}
    BY <2>1, InsertFacts
  <2>3. \A l \in Keys : l # k => gates'[l] = gates[l]
    BY <1>1
  <2>4. e \notin Elems(gates[k].queue) /\ \A l \in Keys : e \notin Elems(gates[l].queue)
    OBVIOUS
  <2>5. \A l \in Keys : Ordered(gates'[l].queue)
    BY <2>2, <2>3
  <2>6. \A l \in Keys : \A f \in Elems(gates'[l].queue) : f = e \/ \E m \in Keys : f \in Elems(gates[m].queue)
    BY <2>2, <2>3
  <2>7. \A m \in Keys : \A f \in Elems(gates[m].queue) : f \in Elems(gates'[m].queue)
    BY <2>2, <2>3
  <2>8. QueuesApart'
    <3>1. ASSUME NEW l \in Keys, NEW m \in Keys, l # m, NEW f, f \in Elems(gates'[l].queue), f \in Elems(gates'[m].queue)
          PROVE  FALSE
      <4>1. f \in Elems(gates[l].queue) \/ (l = k /\ f = e)
        BY <2>2, <2>3, <3>1
      <4>2. f \in Elems(gates[m].queue) \/ (m = k /\ f = e)
        BY <2>2, <2>3, <3>1
      <4> QED BY <2>4, <3>1, <4>1, <4>2 DEF QueuesApart
    <3> QED BY <3>1 DEF QueuesApart
  <2>9. Drained'
    BY <2>3 DEF Drained
  <2>10. e \in Elems(gates'[k].queue)
    BY <2>2
  <2> QED BY <2>5, <2>6, <2>7, <2>8, <2>9, <2>10 DEF Admits
<1>2. CASE r # 0
  <2> DEFINE q == gates[rk].queue
             p == SubSeq(q, 1, r)
             l0 == SubSeq(q, r + 1, Len(q))
  <2>1. q \in Seq(Queued) /\ Ordered(q) /\ r \in 0..Len(q)
    BY <1>0
  <2>2. /\ p \in Seq(Queued) /\ Ordered(p) /\ Ordered(l0)
        /\ Elems(p) \cup Elems(l0) = Elems(q)
        /\ \A f \in Elems(p), h \in Elems(l0) : f.n < h.n
    <3>1. p = SubSeq(q, 1, r) /\ l0 = SubSeq(q, r + 1, Len(q))
      OBVIOUS
    <3> HIDE DEF p, l0, q
    <3>2. CutOf(q, r, p, l0)
      BY <2>1, <3>1, CutFacts
    <3> QED BY <3>2 DEF CutOf
  <2>3. gates'[k].queue = Insert(p, e) /\ gates'[rk].queue = l0 /\ rk # k /\ gates[k].queue = <<>> /\ gates'[rk].pc # "none"
    BY <1>2
  <2>4. \A f \in Elems(q) : f.n # e.n /\ f.n \in Nat
    BY <1>0, QueueTypes
  <2> HIDE DEF p, l0
  <2>5. Ordered(gates'[k].queue) /\ Elems(gates'[k].queue) = Elems(p) \cup {e}
    BY <2>2, <2>3, <2>4, InsertFacts
  <2>6. \A l \in Keys : l \notin {k, rk} => gates'[l] = gates[l]
    OBVIOUS
  <2>7. \A l \in Keys : Ordered(gates'[l].queue)
    BY <2>2, <2>3, <2>5, <2>6
  <2>8. Elems(gates[k].queue) = {}
    BY <2>3 DEF Elems
  <2>9. ASSUME NEW l \in Keys, NEW f \in Elems(gates'[l].queue)
        PROVE  \/ f = e /\ l = k
               \/ f \in Elems(p) /\ l = k
               \/ f \in Elems(l0) /\ l = rk
               \/ f \in Elems(gates[l].queue) /\ l \notin {k, rk}
    BY <2>3, <2>5, <2>6
  <2>10. ASSUME NEW l \in Keys, NEW f \in Elems(gates'[l].queue)
         PROVE  f = e \/ \E m \in Keys : f \in Elems(gates[m].queue)
    BY <2>2, <2>9
  <2>11. ASSUME NEW m \in Keys, NEW f \in Elems(gates[m].queue)
         PROVE  \E l \in Keys : f \in Elems(gates'[l].queue)
    <3>1. CASE m = rk
      BY <2>2, <2>3, <2>5, <3>1
    <3>2. CASE m = k
      BY <2>8, <3>2
    <3>3. CASE m \notin {k, rk}
      BY <2>6, <3>3
    <3> QED BY <3>1, <3>2, <3>3
  <2>12. QueuesApart'
    <3>1. ASSUME NEW l \in Keys, NEW m \in Keys, l # m, NEW f, f \in Elems(gates'[l].queue), f \in Elems(gates'[m].queue)
          PROVE  FALSE
      <4>1. \/ f = e /\ l = k
            \/ f \in Elems(p) /\ l = k
            \/ f \in Elems(l0) /\ l = rk
            \/ f \in Elems(gates[l].queue) /\ l \notin {k, rk}
        BY <2>9, <3>1
      <4>2. \/ f = e /\ m = k
            \/ f \in Elems(p) /\ m = k
            \/ f \in Elems(l0) /\ m = rk
            \/ f \in Elems(gates[m].queue) /\ m \notin {k, rk}
        BY <2>9, <3>1
      <4>3. \A h \in Keys : e \notin Elems(gates[h].queue)
        OBVIOUS
      <4>4. e \notin Elems(p) /\ e \notin Elems(l0) /\ Elems(p) \subseteq Elems(gates[rk].queue) /\ Elems(l0) \subseteq Elems(gates[rk].queue)
        BY <2>2, <4>3
      <4>5. \A h \in Elems(p) : h \notin Elems(l0)
        BY <2>2, <2>4
      <4>6. \A h, o \in Keys : h # o => ~(f \in Elems(gates[h].queue) /\ f \in Elems(gates[o].queue))
        BY DEF QueuesApart
      <4> QED BY <2>3, <3>1, <4>1, <4>2, <4>3, <4>4, <4>5, <4>6
    <3> QED BY <3>1 DEF QueuesApart
  <2>13. Drained'
    BY <2>3, <2>6 DEF Drained
  <2>14. e \in Elems(gates'[k].queue)
    BY <2>5
  <2> QED BY <2>7, <2>10, <2>11, <2>12, <2>13, <2>14 DEF Admits
<1> QED BY <1>1, <1>2

LEMMA AdmittedEffect ==
    ASSUME TypeOK, Drained, QueuesApart, \A l \in Keys : Ordered(gates[l].queue), NEW e \in Queued,
           \A l \in Keys : \A f \in Elems(gates[l].queue) : f.n # e.n,
           gates' = Admitted(gates, e)
    PROVE  Admits(e)
<1> DEFINE own == OwnKey(e.src)
           k == IF Busy(own.thread) THEN FollowUpKey(own.thread) ELSE own
           rk == [k EXCEPT !.thread = NoThread]
           r == Promoted(gates, k)
           room == gates[rk].queue
           burst == SubSeq(room, 1, r)
           rest == SubSeq(room, r + 1, Len(room))
           queue == IF r = 0 THEN gates[k].queue ELSE burst
           a == IF r = 0 THEN gates[rk] ELSE Filled(gates[rk], rest)
           g1 == [gates EXCEPT ![rk] = a]
           b == Filled(gates[k], Insert(queue, e))
<1>1. own \in Keys /\ own.thread \in Conversations /\ FollowUpKey(own.thread) \in Keys
  <2>1. e.src \in Sources
    BY DEF Queued
  <2> QED BY <2>1, TrafficTypes DEF OwnKey, FollowUpKey, Keys, Owners
<1>2. k \in Keys
  BY <1>1
<1>3. gates' = [gates EXCEPT ![rk] = IF r = 0 THEN @ ELSE Filled(@, rest), ![k] = Filled(gates[k], Insert(queue, e))]
  BY DEF Admitted
<1> HIDE DEF own, k
<1>4. rk \in Keys /\ (k.thread # NoThread => rk # k)
  BY <1>2, KeyFacts
<1>5. r \in 0..Len(room) /\ (r # 0 => k.thread # NoThread /\ gates[k].pc = "none")
  BY <1>2, PromotedFacts
<1>6. /\ gates \in [Keys -> GateEntries] /\ gates[k] \in GateEntries /\ gates[rk] \in GateEntries
      /\ gates[k].queue \in Seq(Queued) /\ room \in Seq(Queued) /\ Ordered(gates[k].queue) /\ Ordered(room)
  BY <1>2, <1>4, GateTypes DEF TypeOK
<1>7. burst = SubSeq(room, 1, r) /\ rest = SubSeq(room, r + 1, Len(room))
  OBVIOUS
<1>8. r # 0 => rk # k /\ gates[k].queue = <<>>
  BY <1>2, <1>4, <1>5 DEF Drained
<1>9. \A f \in Elems(gates[k].queue) \cup Elems(room) : f.n # e.n
  BY <1>2, <1>4
<1> HIDE DEF rk, r, burst, rest
<1>10. burst \in Seq(Queued) /\ rest \in Seq(Queued) /\ Ordered(burst) /\ Elems(burst) \subseteq Elems(room)
  <2> HIDE DEF room
  <2>1. CutOf(room, r, burst, rest)
    BY <1>5, <1>6, <1>7, CutFacts
  <2> QED BY <2>1 DEF CutOf
<1>11. queue \in Seq(Queued) /\ Ordered(queue) /\ \A f \in Elems(queue) : f.n # e.n
  BY <1>6, <1>9, <1>10
<1>12. Insert(queue, e) \in Seq(Queued)
  <2> HIDE DEF queue
  <2> QED BY <1>11, InsertFacts
<1>13. a \in GateEntries /\ (r # 0 => a.queue = rest /\ a.pc # "none")
  BY <1>6, <1>10, FilledFacts
<1>14. gates' = [g1 EXCEPT ![k] = b]
  <2>1. gates' = [gates EXCEPT ![rk] = a, ![k] = b]
    BY <1>3, Zenon
  <2> HIDE DEF a, b
  <2> QED BY <2>1
<1> HIDE DEF a, room, queue
<1>15. g1 \in [Keys -> GateEntries] /\ g1[rk] = a /\ \A l \in Keys : l # rk => g1[l] = gates[l]
  BY <1>2, <1>4, <1>6, <1>13
<1> HIDE DEF g1
<1>16. b \in GateEntries /\ b.queue = Insert(queue, e) /\ b.pc # "none"
  BY <1>6, <1>12, FilledFacts
<1> HIDE DEF b
<1>17. gates' \in [Keys -> GateEntries] /\ gates'[k] = b /\ \A l \in Keys : l # k => gates'[l] = g1[l]
  BY <1>2, <1>14, <1>15, <1>16
<1>18. gates'[k].queue = Insert(IF r = 0 THEN gates[k].queue ELSE SubSeq(gates[rk].queue, 1, r), e)
  BY <1>7, <1>16, <1>17 DEF queue, room
<1>19. /\ \A l \in Keys : l \notin {k, rk} => gates'[l] = gates[l]
       /\ r = 0 /\ rk # k => gates'[rk] = gates[rk]
       /\ r # 0 => gates'[rk].queue = SubSeq(gates[rk].queue, r + 1, Len(gates[rk].queue)) /\ gates'[rk].pc # "none"
       /\ gates'[k].pc # "none"
  BY <1>4, <1>7, <1>8, <1>13, <1>15, <1>16, <1>17 DEF a, room
<1>20. r \in 0..Len(gates[rk].queue)
  BY <1>5 DEF room
<1> QED BY <1>2, <1>4, <1>8, <1>17, <1>18, <1>19, <1>20, AdmitQueues

\* A gate that waits, goes on or ends keeps its queue, and only an empty one ends.
GateIdles ==
    /\ turns' = turns /\ gates' \in [Keys -> GateEntries] /\ Drained'
    /\ \A l \in Keys : gates'[l].queue = gates[l].queue

\* Replacing one entry by one with the same queue.
LEMMA IdleFacts ==
    ASSUME TypeOK, Drained, NEW k \in Keys, NEW w \in GateEntries, w.queue = gates[k].queue,
           w.queue # <<>> => w.pc # "none", gates' = [gates EXCEPT ![k] = w], turns' = turns
    PROVE  GateIdles
<1>1. gates \in [Keys -> GateEntries]
  BY DEF TypeOK
<1>2. gates' \in [Keys -> GateEntries] /\ gates'[k] = w /\ \A l \in Keys : l # k => gates'[l] = gates[l]
  BY <1>1
<1> QED BY <1>2 DEF GateIdles, Drained

GateWaits == {"loop", "debounce", "lanes", "capacity"}

LEMMA ParkFacts ==
    ASSUME TypeOK, Drained, NEW k \in Keys, NEW where \in GateWaits, NEW waits \in SUBSET Nat, NEW cut \in Nat,
           Park(k, where, waits, cut)
    PROVE  GateIdles
<1> DEFINE a == [gates[k] EXCEPT !.pc = where]
           b == [a EXCEPT !.waits = waits]
           w == [b EXCEPT !.cut = cut]
<1>1. gates[k] \in GateEntries
  BY GateTypes
<1>2. a \in GateEntries /\ a.queue = gates[k].queue /\ a.pc = where
  BY <1>1 DEF GateEntries, GateWaits
<1>3. gates' = [gates EXCEPT ![k] = [gates[k] EXCEPT !.pc = where, !.waits = waits, !.cut = cut]] /\ turns' = turns
  BY DEF Park
<1>4. [gates[k] EXCEPT !.pc = where, !.waits = waits, !.cut = cut] = w
  BY <1>1 DEF GateEntries
<1> HIDE DEF a
<1>5. b \in GateEntries /\ b.queue = a.queue /\ b.pc = a.pc
  BY <1>2 DEF GateEntries
<1> HIDE DEF b
<1>6. w \in GateEntries /\ w.queue = b.queue /\ w.pc = b.pc
  BY <1>5 DEF GateEntries
<1> HIDE DEF w
<1>7. gates' = [gates EXCEPT ![k] = w]
  BY <1>3, <1>4, Zenon
<1>8. w.pc # "none"
  BY <1>2, <1>5, <1>6 DEF GateWaits
<1> QED BY <1>2, <1>3, <1>5, <1>6, <1>7, <1>8, IdleFacts, ZenonT(60)

\* A claim takes one event or a run of normal ones, and a root only while there is room for it.
GateClaims(k) ==
    \E r \in 1..Len(gates[k].queue) :
        /\ ClaimFront(k, r)
        /\ r = 1 \/ \A j \in 1..r : IsNormal(gates[k].queue[j])
        /\ ParallelRoot(k) /\ IsNormal(Head(gates[k].queue)) => ~AtCapacity(k)

LEMMA ClaimableEffect ==
    ASSUME TypeOK, Drained, NEW k \in Keys, NEW cut \in Nat, Claimable(k, cut), ~AtCapacity(k)
    PROVE  GateIdles \/ GateClaims(k)
<1> DEFINE q == gates[k].queue
           r == Run(k, q, cut)
<1>1. q \in Seq(Queued) /\ Len(q) \in Nat
  BY GateTypes, QueueFacts
<1>2. r \in 0..Len(q) /\ \A j \in 1..r : IsNormal(q[j])
  BY <1>1, FrontRunFacts DEF Run
<1>3. CASE r = 0
  <2>1. Park(k, "loop", {}, 0)
    BY <1>3 DEF Claimable
  <2> QED BY <2>1, ParkFacts DEF GateWaits
<1>4. CASE r # 0
  <2>1. ClaimFront(k, r)
    BY <1>4 DEF Claimable
  <2> HIDE DEF r
  <2>2. r \in 1..Len(q)
    BY <1>1, <1>2, <1>4
  <2> QED BY <1>2, <2>1, <2>2 DEF GateClaims
<1> QED BY <1>3, <1>4

LEMMA AfterDebounceEffect ==
    ASSUME TypeOK, Drained, NEW k \in Keys, NEW cut \in Nat, AfterDebounce(k, cut)
    PROVE  GateIdles \/ GateClaims(k)
<1> DEFINE waits == IF IsFollowUp(k) THEN {} ELSE Undelivered(k.owner, cut)
<1>1. waits \in SUBSET Nat
  <2>1. CASE IsFollowUp(k)
    BY <2>1
  <2>2. CASE ~IsFollowUp(k)
    <3>1. k.owner \in Senders
      BY <2>2 DEF IsFollowUp, Keys, Owners
    <3>2. \A i \in DOMAIN lanes[k.owner] : lanes[k.owner][i].n \in Nat
      BY <3>1, LaneTypes
    <3> QED BY <2>2, <3>2 DEF Undelivered
  <2> QED BY <2>1, <2>2
<1>2. \/ Park(k, "lanes", waits, 0)
      \/ Park(k, "capacity", {}, cut)
      \/ ~AtCapacity(k) /\ Claimable(k, cut)
  BY DEF AfterDebounce
<1> HIDE DEF waits
<1>3. ASSUME Park(k, "lanes", waits, 0) \/ Park(k, "capacity", {}, cut)
      PROVE  GateIdles
  BY <1>1, <1>3, ParkFacts DEF GateWaits
<1> QED BY <1>2, <1>3, ClaimableEffect

LEMMA GateEffect ==
    ASSUME TypeOK, Drained, Stamps, Places, NEW k \in Keys, Gate(k)
    PROVE  /\ GateIdles \/ GateClaims(k)
           /\ UNCHANGED <<traffic, pc, clock, slot, lanes, settling, ready, claims, completed, notices, locks, faults>>
<1> DEFINE q == gates[k].queue
<1>1. /\ q \in Seq(Queued) /\ Len(q) \in Nat /\ gates[k] \in GateEntries /\ gates[k].cut \in Nat /\ clock \in Nat
      /\ q # <<>> => Len(q) > 0
  BY GateTypes, QueueFacts DEF TypeOK
<1>2. q # <<>> => q[1] \in Elems(q) /\ q[1] \in Queued
  BY <1>1, QueueFacts
<1>3. q # <<>> => q[1].n \in Nat /\ q[1].n <= clock
  BY <1>2 DEF Queued, Places, Placed, Stamps
<1>4. q # <<>> => Cuts(k) \subseteq Nat
  BY <1>1, <1>3 DEF Cuts
<1>0. UNCHANGED <<traffic, pc, clock, slot, lanes, settling, ready, claims, completed, notices, locks, faults>>
  BY DEF Gate
<1> SUFFICES GateIdles \/ GateClaims(k)
  BY <1>0
<1>5. CASE Iterate(k)
  <2>1. CASE q = <<>> /\ gates' = [gates EXCEPT ![k] = NoGate] /\ turns' = turns
    <3>1. NoGate \in GateEntries /\ NoGate.queue = <<>>
      BY DEF NoGate, GateEntries
    <3> QED BY <2>1, <3>1, IdleFacts
  <2>2. CASE q # <<>> /\ ~IsNormal(q[1]) /\ ClaimFront(k, 1)
    <3>1. 1 \in 1..Len(q) /\ Head(q) = q[1]
      BY <1>1, <2>2
    <3> QED BY <2>2, <3>1 DEF GateClaims
  <2>3. CASE q # <<>> /\ IsNormal(q[1]) /\ IsFollowUp(k) /\ ClaimFront(k, FrontRun(q, TRUE, clock))
    <3> DEFINE r == FrontRun(q, TRUE, clock)
    <3>1. r \in 0..Len(q) /\ r > 0 /\ \A j \in 1..r : IsNormal(q[j])
      BY <1>1, <1>3, <2>3, FrontRunFacts
    <3>2. ClaimFront(k, r)
      BY <2>3
    <3> HIDE DEF r
    <3>3. r \in 1..Len(q)
      BY <1>1, <3>1
    <3> QED BY <2>3, <3>1, <3>2, <3>3 DEF GateClaims, ParallelRoot
  <2>4. CASE q # <<>> /\ \E cut \in Cuts(k) : AfterDebounce(k, cut)
    BY <1>4, <2>4, AfterDebounceEffect
  <2>5. CASE Park(k, "debounce", {}, 0)
    BY <2>5, ParkFacts DEF GateWaits
  <2> QED BY <1>5, <2>1, <2>2, <2>3, <2>4, <2>5 DEF Iterate
<1>6. CASE Debounce(k)
  <2>1. CASE Park(k, "loop", {}, 0)
    BY <2>1, ParkFacts DEF GateWaits
  <2>2. CASE q # <<>> /\ \E cut \in Cuts(k) : AfterDebounce(k, cut)
    BY <1>4, <2>2, AfterDebounceEffect
  <2> QED BY <1>6, <2>1, <2>2 DEF Debounce
<1>7. CASE LanesSettled(k)
  <2>1. Park(k, "loop", {}, 0)
    BY <1>7 DEF LanesSettled
  <2> QED BY <2>1, ParkFacts DEF GateWaits
<1>8. CASE RootFree(k)
  BY <1>1, <1>8, ClaimableEffect DEF RootFree
<1>9. CASE Dispatched(k)
  <2> DEFINE a == [gates[k] EXCEPT !.claimed = <<>>]
             w == [a EXCEPT !.pc = "loop"]
  <2>1. gates' = [gates EXCEPT ![k] = [gates[k] EXCEPT !.claimed = <<>>, !.pc = "loop"]] /\ turns' = turns
    BY <1>9 DEF Dispatched
  <2>2. [gates[k] EXCEPT !.claimed = <<>>, !.pc = "loop"] = w
    BY <1>1 DEF GateEntries
  <2>3. <<>> \in Seq(Queued)
    OBVIOUS
  <2>4. a \in GateEntries /\ a.queue = gates[k].queue
    BY <1>1, <2>3 DEF GateEntries
  <2> HIDE DEF a
  <2>5. w \in GateEntries /\ w.queue = a.queue /\ w.pc # "none"
    BY <2>4 DEF GateEntries
  <2> HIDE DEF w
  <2>6. gates' = [gates EXCEPT ![k] = w]
    BY <2>1, <2>2, Zenon
  <2> QED BY <2>1, <2>4, <2>5, <2>6, IdleFacts
<1> QED BY <1>5, <1>6, <1>7, <1>8, <1>9 DEF Gate

\* The claimed run becomes a new batch; what is behind it stays in the queue.
ClaimsRun(k, t) ==
    /\ turns' = turns \cup {t} /\ t \in Batches /\ t.pc = "claimed" /\ t.batch # <<>>
    /\ t.root = (ParallelRoot(k) /\ IsNormal(Head(gates[k].queue)))
    /\ gates' \in [Keys -> GateEntries] /\ \A l \in Keys : l # k => gates'[l] = gates[l]
    /\ Ordered(t.batch) /\ Ordered(gates'[k].queue)
    /\ Elems(t.batch) \cup Elems(gates'[k].queue) = Elems(gates[k].queue)
    /\ \A e \in Elems(t.batch), f \in Elems(gates'[k].queue) : e.n < f.n
    /\ Drained'

LEMMA ClaimFrontEffect ==
    ASSUME TypeOK, Drained, NEW k \in Keys, NEW r \in 1..Len(gates[k].queue), Ordered(gates[k].queue), ClaimFront(k, r)
    PROVE  \E t : ClaimsRun(k, t)
<1> DEFINE q == gates[k].queue
           batch == SubSeq(q, 1, r)
           rest == SubSeq(q, r + 1, Len(q))
           root == ParallelRoot(k) /\ IsNormal(Head(q))
           w == [queue |-> rest, claimed |-> IF root THEN <<>> ELSE batch,
                 pc |-> IF root THEN "loop" ELSE "dispatch", waits |-> {}, cut |-> 0]
           t == NewTurn(k, batch, root)
<1>1. q \in Seq(Queued) /\ Len(q) \in Nat /\ gates \in [Keys -> GateEntries] /\ Ordered(q) /\ r \in 0..Len(q) /\ r > 0
  BY GateTypes, QueueFacts DEF TypeOK
<1>2. batch = SubSeq(q, 1, r) /\ rest = SubSeq(q, r + 1, Len(q)) /\ root \in BOOLEAN
  OBVIOUS
<1>3. gates' = [gates EXCEPT ![k] = w] /\ turns' = turns \cup {t}
  BY DEF ClaimFront
<1> HIDE DEF batch, rest, q
<1>4. CutOf(q, r, batch, rest)
  BY <1>1, <1>2, CutFacts
<1>5. /\ batch \in Seq(Queued) /\ rest \in Seq(Queued) /\ Ordered(batch) /\ Ordered(rest)
      /\ Elems(batch) \cup Elems(rest) = Elems(q) /\ batch # <<>>
      /\ \A e \in Elems(batch), f \in Elems(rest) : e.n < f.n
  BY <1>1, <1>4 DEF CutOf
<1> HIDE DEF root
<1>6. w \in GateEntries /\ w.queue = rest /\ w.pc # "none"
  <2>1. <<>> \in Seq(Queued)
    OBVIOUS
  <2> QED BY <1>2, <1>5, <2>1 DEF GateEntries
<1>7. t \in Batches /\ t.pc = "claimed" /\ t.batch = batch /\ t.root = root
  BY <1>2, <1>5 DEF NewTurn, Batches, InDispatch
<1> HIDE DEF w, t
<1>8. gates' \in [Keys -> GateEntries] /\ gates'[k] = w /\ \A l \in Keys : l # k => gates'[l] = gates[l]
  BY <1>1, <1>3, <1>6
<1>9. Drained'
  BY <1>6, <1>8 DEF Drained
<1> QED BY <1>3, <1>5, <1>6, <1>7, <1>8, <1>9 DEF ClaimsRun, root, q

-----------------------------------------------------------------------------
(* Where the events are.                                                   *)

LEMMA SameQueued ==
    ASSUME NEW e \in Queued, NEW f \in Queued, e.n = f.n, e.src = f.src
    PROVE  e = f
  BY DEF Queued

LEMMA SrcElems == \A q : Srcs(q) = {e.src : e \in Elems(q)}
  BY DEF Srcs, Elems

\* An event that has left the lane and is not finished.
Somewhere(s) == InSettling(s) \/ InQueue(s) \/ InTurn(s)

LEMMA PlaceFacts ==
    ASSUME TypeOK, PlacesInv, NEW s \in Sources
    PROVE  /\ InSettling(s) => pc[s] = "deferred" /\ ready[s] = "none" /\ ~InLane(s)
           /\ InQueue(s) => pc[s] = "deferred" /\ ready[s] = "payload" /\ ~InLane(s) /\ ~InTurn(s)
           /\ InTurn(s) => pc[s] = "deferred" /\ ready[s] = "payload" /\ ~InLane(s)
           /\ ready[s] = "running" => InLane(s)
<1>1. InSettling(s) => pc[s] = "deferred" /\ ready[s] = "none"
  BY DEF PlacesInv, Places, Placed, InSettling
<1>2. InQueue(s) => pc[s] = "deferred" /\ ready[s] = "payload"
  BY SrcElems DEF PlacesInv, Places, Placed, InQueue
<1>3. InTurn(s) => pc[s] = "deferred" /\ ready[s] = "payload"
  BY SrcElems DEF PlacesInv, Places, Placed, InTurn
<1> QED BY <1>1, <1>2, <1>3 DEF PlacesInv, OnePlace, RunningInLane

\* An event that is loaded in a lane is deferred, and its slot is the one it has now.
LEMMA LoadedFacts ==
    ASSUME TypeOK, LanesInv, NEW s \in Sources, InLane(s)
    PROVE  pc[s] = "deferred"
<1>1. PICK x \in Senders : \E e \in Elems(lanes[x]) : e.src = s /\ e.state = "loaded"
  BY InLaneElems
<1>2. PICK e \in Elems(lanes[x]) : e.src = s /\ e.state = "loaded"
  BY <1>1
<1>3. SlotShape(x, e)
  BY DEF LanesInv, LaneShape
<1> QED BY <1>2, <1>3 DEF SlotShape

\* Nothing new arrives anywhere, and what stays is as it was.
LEMMA PlacesKept ==
    ASSUME TypeOK, PlacesInv, settling' \subseteq settling,
           \A k \in Keys : gates'[k].queue = gates[k].queue,
           \A u \in turns' : \E t \in turns : u.batch = t.batch,
           \A u, v \in turns' : u # v => Srcs(u.batch) \cap Srcs(v.batch) = {},
           \A s \in Sources : InLane(s)' => InLane(s) \/ ~Somewhere(s)',
           \A s \in Sources : Somewhere(s)' => pc'[s] = pc[s] /\ slot'[s] = slot[s] /\ ready'[s] = ready[s],
           \A s \in Sources : ready'[s] = "running" => InLane(s)'
    PROVE  PlacesInv'
<1>1. \A s \in Sources : InSettling(s)' => InSettling(s)
  BY DEF InSettling
<1>2. \A s \in Sources : InQueue(s)' <=> InQueue(s)
  BY DEF InQueue
<1>3. \A s \in Sources : InTurn(s)' => InTurn(s)
  BY DEF InTurn
<1>4. RunningInLane'
  BY DEF RunningInLane
<1>5. \A e \in settling' : Placed(e, "none")'
  <2> TAKE e \in settling'
  <2>1. e.src \in Sources /\ Placed(e, "none")
    BY DEF TypeOK, Queued, PlacesInv, Places
  <2>2. Somewhere(e.src)'
    BY DEF Somewhere, InSettling
  <2> QED BY <2>1, <2>2 DEF Placed
<1>6. ASSUME NEW k \in Keys, NEW e \in Elems(gates'[k].queue)
      PROVE  Placed(e, "payload")'
  <2>1. e \in Elems(gates[k].queue) /\ gates[k].queue \in Seq(Queued)
    BY <1>6, GateTypes
  <2>2. e.src \in Sources /\ Placed(e, "payload")
    BY <2>1, QueueTypes DEF PlacesInv, Places
  <2>3. Somewhere(e.src)'
    BY SrcElems DEF Somewhere, InQueue
  <2> QED BY <2>2, <2>3 DEF Placed
<1>7. ASSUME NEW u \in turns', NEW e \in Elems(u.batch)
      PROVE  Placed(e, "payload")'
  <2>1. PICK t \in turns : u.batch = t.batch
    OBVIOUS
  <2>2. e \in Elems(t.batch) /\ t.batch \in Seq(Queued)
    BY <2>1, TurnTypes
  <2>3. e.src \in Sources /\ Placed(e, "payload")
    BY <2>2, QueueTypes DEF PlacesInv, Places
  <2>4. Somewhere(e.src)'
    BY SrcElems DEF Somewhere, InTurn
  <2> QED BY <2>3, <2>4 DEF Placed
<1>8. Places'
  BY <1>5, <1>6, <1>7 DEF Places
<1>9. BurstInOrder'
  BY DEF PlacesInv, BurstInOrder
<1>10. OnePlace'
  <2>1. \A s \in Sources : InLane(s)' => ~InSettling(s)' /\ ~InQueue(s)' /\ ~InTurn(s)'
    BY <1>1, <1>2, <1>3 DEF PlacesInv, OnePlace, Somewhere
  <2>2. \A s \in Sources : InQueue(s)' => ~InTurn(s)'
    BY <1>2, <1>3 DEF PlacesInv, OnePlace
  <2>3. \A k, l \in Keys : k # l => Srcs(gates'[k].queue) \cap Srcs(gates'[l].queue) = {}
    BY DEF PlacesInv, OnePlace
  <2>4. \A t \in turns' : t.batch # <<>>
    BY DEF PlacesInv, OnePlace
  <2> QED BY <2>1, <2>2, <2>3, <2>4 DEF OnePlace
<1> QED BY <1>4, <1>8, <1>9, <1>10 DEF PlacesInv

-----------------------------------------------------------------------------
(* Claims and terminal records.                                            *)

LEMMA RecordFacts ==
    /\ \A S : Record(S).sources = S /\ Record(S).aliases = UNION {Alias[s] : s \in S}
    /\ \A S, T : Record(S) = Record(T) => S = T
<1>1. \A S : Record(S).sources = S /\ Record(S).aliases = UNION {Alias[s] : s \in S}
  BY DEF Record
<1>2. ASSUME NEW S, NEW T, Record(S) = Record(T)
      PROVE  S = T
  <2>1. Record(S).sources = Record(T).sources
    BY <1>2
  <2> QED BY <1>1, <2>1
<1> QED BY <1>1, <1>2

LEMMA RecordsKept ==
    ASSUME traffic' = traffic
    PROVE  /\ \A t : BatchRecord(t)' = BatchRecord(t) /\ Conversation(t)' = Conversation(t)
           /\ \A S : Members(S)' = Members(S)
<1>1. RoomMode' = RoomMode /\ \A S : Record(S)' = Record(S)
  BY TrafficKept
<1> QED BY <1>1 DEF BatchRecord, Members, Conversation, ConversationOf

\* A batch has members and a lead, and no other batch has any of them.
LEMMA TurnsApart ==
    ASSUME TypeOK, PlacesInv, NEW t \in turns
    PROVE  /\ Srcs(t.batch) \subseteq Sources /\ Srcs(t.batch) # {} /\ Lead(t) \in Srcs(t.batch)
           /\ Conversation(t) \in Conversations
           /\ \A u \in turns : Srcs(t.batch) \cap Srcs(u.batch) # {} => u = t
           /\ \A u \in turns : Lead(u) = Lead(t) => u = t
           /\ \A u \in turns : BatchRecord(u) = BatchRecord(t) => u = t
<1>1. \A u \in turns : /\ Srcs(u.batch) \subseteq Sources /\ Srcs(u.batch) # {} /\ Lead(u) \in Srcs(u.batch)
                       /\ Conversation(u) \in Conversations
  <2> TAKE u \in turns
  <2>1. u.batch \in Seq(Queued) /\ u.batch # <<>>
    BY TurnTypes DEF PlacesInv, OnePlace
  <2> QED BY <2>1, QueueTypes, LeadTypes
<1>2. \A u \in turns : Srcs(t.batch) \cap Srcs(u.batch) # {} => u = t
  BY DEF PlacesInv, OnePlace
<1>3. \A u \in turns : BatchRecord(u) = BatchRecord(t) => Srcs(u.batch) = Srcs(t.batch)
  BY RecordFacts DEF BatchRecord
<1> QED BY <1>1, <1>2, <1>3

\* An event that holds its own claim is in no batch that holds one.
LEMMA HoldersApart ==
    ASSUME TypeOK, PlacesInv, NEW s \in Holders
    PROVE  /\ \A t \in turns : t.pc # "claimed" => s \notin Srcs(t.batch)
           /\ \A c \in Answering : s \notin c.sources
           /\ Record({s}) \notin Answering
<1>1. ASSUME NEW t \in turns, t.pc # "claimed", s \in Srcs(t.batch)
      PROVE  FALSE
  <2>1. s \in Sources /\ InTurn(s) /\ Holds(s)
    BY <1>1 DEF Holders, InTurn
  <2>2. pc[s] = "deferred" /\ ~InLane(s) /\ ~InQueue(s)
    BY <2>1, PlaceFacts
  <2>3. InClaimed(s)
    BY <2>1, <2>2 DEF Holds, Loaded
  <2>4. PICK u \in turns : u.pc = "claimed" /\ s \in Srcs(u.batch)
    BY <2>3 DEF InClaimed
  <2> QED BY <1>1, <2>4, TurnsApart
<1>2. \A c \in Answering : s \notin c.sources
  BY <1>1, RecordFacts DEF Answering, BatchRecord
<1>3. Record({s}).sources = {s}
  BY RecordFacts
<1> QED BY <1>1, <1>2, <1>3

\* The claims follow the events and batches that hold them.
ClaimFlow(D, A, gone, fresh, drop) ==
    /\ Holders' = (Holders \ D) \cup A
    /\ Answering' = (Answering \ gone) \cup fresh
    /\ claims' = (claims \ drop) \cup (Members(A) \cup fresh)
    /\ Members(D) \cup gone \subseteq drop
    /\ Members(Holders \ D) \cap drop = {} /\ (Answering \ gone) \cap drop = {}
LEMMA ClaimsFlow ==
    ASSUME ClaimsExact, traffic' = traffic, NEW D, NEW A, NEW gone, NEW fresh, NEW drop,
           ClaimFlow(D, A, gone, fresh, drop)
    PROVE  ClaimsExact'
<1>0. /\ Holders' = (Holders \ D) \cup A
      /\ Answering' = (Answering \ gone) \cup fresh
      /\ claims' = (claims \ drop) \cup (Members(A) \cup fresh)
      /\ Members(D) \cup gone \subseteq drop
      /\ Members(Holders \ D) \cap drop = {} /\ (Answering \ gone) \cap drop = {}
  BY DEF ClaimFlow
<1>1. claims = Members(Holders) \cup Answering
  BY DEF ClaimsExact
<1>2. Members(Holders) \subseteq Members(Holders \ D) \cup Members(D) /\ Members(Holders \ D) \subseteq Members(Holders)
  BY DEF Members
<1>3. claims \ drop = Members(Holders \ D) \cup (Answering \ gone)
  BY <1>0, <1>1, <1>2
<1>4. Members((Holders \ D) \cup A) = Members(Holders \ D) \cup Members(A)
  BY DEF Members
<1>5. claims' = Members(Holders') \cup Answering'
  BY <1>0, <1>3, <1>4
<1>6. Members(Holders)' = Members(Holders')
  BY TrafficKept DEF Members
<1> QED BY <1>5, <1>6 DEF ClaimsExact

LEMMA ExclusiveKept ==
    ASSUME Exclusive, claims' \cup completed' \subseteq claims \cup completed
    PROVE  Exclusive'
  BY DEF Exclusive, Apart

\* A new claim that was refused by nobody excludes the others.
LEMMA ExclusiveNew ==
    ASSUME Exclusive, NEW r, NEW held \in SUBSET claims, claims' = held \cup {r}, completed' = completed,
           \A c \in held \cup completed : c.sources \cap r.sources = {} /\ c.aliases \cap r.aliases = {}
    PROVE  Exclusive'
<1>1. \A c \in held \cup completed : Apart(c, r) /\ Apart(r, c)
  BY DEF Apart
<1>2. Apart(r, r)
  BY DEF Apart
<1>3. \A c, d \in held \cup completed : Apart(c, d)
  BY DEF Exclusive
<1>4. \A c, d \in claims' \cup completed' : Apart(c, d)
  <2>1. claims' \cup completed' = (held \cup completed) \cup {r}
    OBVIOUS
  <2>2. ASSUME NEW c \in claims' \cup completed', NEW d \in claims' \cup completed'
        PROVE  Apart(c, d)
    <3>1. (c \in held \cup completed \/ c = r) /\ (d \in held \cup completed \/ d = r)
      BY <2>1
    <3> QED BY <1>1, <1>2, <1>3, <3>1
  <2> QED BY <2>2
<1> QED BY <1>4 DEF Exclusive, Apart

\* A claim of events that are not done can only be refused by another claim or by what its events relay.
LEMMA FreshClaim ==
    ASSUME CompletedIsDone, NEW S, S # {}, \A s \in S : pc[s] # "done", NEW held, CanClaim(held, Record(S))
    PROVE  \A c \in held \cup completed :
               c.sources \cap Record(S).sources = {} /\ c.aliases \cap Record(S).aliases = {}
<1> DEFINE r == Record(S)
<1>1. r.sources = S
  BY RecordFacts
<1>2. CanClaim(held, r)
  OBVIOUS
<1> HIDE DEF r
<1>3. \A c \in held : c.sources \cap r.sources = {} /\ c.aliases \cap r.aliases = {}
  BY <1>2 DEF CanClaim
<1>4. \A d \in completed : d.sources \cap r.sources = {}
  BY <1>1 DEF CompletedIsDone
<1>5. \A d \in completed : r.aliases \cap Indexed(d) # {} => d.sources = r.sources
  BY <1>2 DEF CanClaim
<1>6. \A d \in completed : r.aliases \cap Indexed(d) = {}
  BY <1>1, <1>4, <1>5
<1>7. \A d \in completed : d.aliases \cap r.aliases = {}
  BY <1>6 DEF Indexed
<1> QED BY <1>3, <1>4, <1>7 DEF r

-----------------------------------------------------------------------------
(* Steps of a handler, of a readiness task and of the settlement.          *)

LEMMA LineSame ==
    ASSUME Drained, LockShape, RootsInv, UNCHANGED <<traffic, gates, turns, locks>>
    PROVE  Drained' /\ LockShape' /\ RootsInv'
<1>1. Drained'
  BY DEF Drained
<1>2. LockShape'
  BY RecordsKept DEF LockShape, Lead
<1>3. RootsInv'
  BY DEF RootsInv, RootsBounded, Roots
<1> QED BY <1>1, <1>2, <1>3

LEMMA BatchesSame ==
    ASSUME UNCHANGED <<traffic, gates, turns>>
    PROVE  /\ Answering' = Answering
           /\ \A s : InQueue(s)' <=> InQueue(s)
           /\ \A s : InTurn(s)' <=> InTurn(s)
           /\ \A s : InClaimed(s)' <=> InClaimed(s)
           /\ \A s : (\E t \in turns : t.pc = "queue" /\ s = Lead(t))' <=> (\E t \in turns : t.pc = "queue" /\ s = Lead(t))
<1>1. Answering' = Answering
  BY RecordsKept DEF Answering
<1> QED BY <1>1 DEF InQueue, InTurn, InClaimed, Lead

\* A handler that is not at work yet goes on without a claim, or takes one.
LEMMA HandlerFlow ==
    ASSUME TypeOK, LanesInv, Flow, NEW s \in Sources, pc[s] \in {"offered", "prechecked", "contended"},
           \A r \in Sources : r # s => pc'[r] = pc[r] /\ slot'[r] = slot[r],
           \A r \in Sources : InLane(r)' <=> InLane(r),
           UNCHANGED <<traffic, settling, ready, completed, notices, gates, turns, locks>>,
           \/ pc'[s] # "resolve" /\ claims' = claims
           \/ pc'[s] = "resolve" /\ CanClaim(claims, Record({s})) /\ claims' = claims \cup {Record({s})}
    PROVE  Flow'
<1>0. PlacesInv /\ ClaimsInv /\ NoticeShape /\ Drained /\ LockShape /\ RootsInv
  BY DEF Flow
<1>1. Drained' /\ LockShape' /\ RootsInv'
  BY <1>0, LineSame
<1>2. /\ Answering' = Answering
      /\ \A r \in Sources : /\ InQueue(r)' <=> InQueue(r)
                            /\ InTurn(r)' <=> InTurn(r)
                            /\ InClaimed(r)' <=> InClaimed(r)
                            /\ InSettling(r)' <=> InSettling(r)
                            /\ Loaded(r)' <=> Loaded(r)
      /\ \A r : (\E t \in turns : t.pc = "queue" /\ r = Lead(t))' <=> (\E t \in turns : t.pc = "queue" /\ r = Lead(t))
  BY BatchesSame DEF InSettling, Loaded
<1>3. ~InSettling(s) /\ ~InQueue(s) /\ ~InTurn(s) /\ ~InLane(s)
  BY <1>0, PlaceFacts, LoadedFacts
<1>4. PlacesInv'
  <2>1. \A r \in Sources : Somewhere(r)' => r # s
    BY <1>2, <1>3 DEF Somewhere
  <2>2. \A r \in Sources : ready'[r] = "running" => InLane(r)'
    BY <1>0, PlaceFacts
  <2>3. \A u, v \in turns' : u # v => Srcs(u.batch) \cap Srcs(v.batch) = {}
    BY <1>0 DEF PlacesInv, OnePlace
  <2> QED BY <1>0, <2>1, <2>2, <2>3, PlacesKept
<1>5. NoticeShape'
  <2>1. notices \subseteq Sources
    BY DEF TypeOK
  <2> QED BY <1>0, <1>2, <2>1 DEF NoticeShape, Announced
<1>6. CompletedIsDone'
  <2>1. ASSUME NEW d \in completed, NEW r \in d.sources
        PROVE  pc'[r] = "done"
    <3>1. d \in {Record(S) : S \in SUBSET Sources}
      BY DEF TypeOK
    <3>2. r \in Sources
      BY <3>1, RecordFacts
    <3>3. pc[r] = "done"
      BY <1>0 DEF ClaimsInv, CompletedIsDone
    <3> QED BY <3>2, <3>3
  <2> QED BY <2>1 DEF CompletedIsDone
<1>7. s \notin Holders /\ \A r \in Sources : r # s => (Holds(r)' <=> Holds(r))
  <2>1. ~Holds(s)
    <3>1. ~InClaimed(s)
      BY <1>3 DEF InTurn, InClaimed
    <3> QED BY <1>3, <3>1 DEF Holds, Loaded
  <2> QED BY <1>2, <2>1 DEF Holders, Holds
<1>8. Holds(s)' <=> pc'[s] = "resolve"
  <2>1. ~InClaimed(s)
    BY <1>3 DEF InTurn, InClaimed
  <2> QED BY <1>2, <1>3, <2>1 DEF Holds, Loaded
<1>9. CASE pc'[s] # "resolve" /\ claims' = claims
  <2>1. Holders' = (Holders \ {}) \cup {}
    BY <1>7, <1>8, <1>9 DEF Holders
  <2>2. Members({}) = {}
    BY DEF Members
  <2>3. ClaimFlow({}, {}, {}, {}, {})
    BY <1>2, <1>9, <2>1, <2>2 DEF ClaimFlow
  <2>4. ClaimsExact'
    BY <1>0, <2>3, ClaimsFlow DEF ClaimsInv
  <2>5. Exclusive'
    BY <1>0, <1>9, ExclusiveKept DEF ClaimsInv
  <2> QED BY <1>1, <1>4, <1>5, <1>6, <2>4, <2>5 DEF Flow, ClaimsInv
<1>10. CASE pc'[s] = "resolve" /\ CanClaim(claims, Record({s})) /\ claims' = claims \cup {Record({s})}
  <2>1. Holders' = (Holders \ {}) \cup {s}
    BY <1>7, <1>8, <1>10 DEF Holders
  <2>2. Members({}) = {} /\ Members({s}) = {Record({s})}
    BY DEF Members
  <2>3. ClaimFlow({}, {s}, {}, {}, {})
    BY <1>2, <1>10, <2>1, <2>2 DEF ClaimFlow
  <2>4. ClaimsExact'
    BY <1>0, <2>3, ClaimsFlow DEF ClaimsInv
  <2>5. Exclusive'
    <3>1. CompletedIsDone /\ Exclusive
      BY <1>0 DEF ClaimsInv
    <3>2. \A c \in claims \cup completed :
             c.sources \cap Record({s}).sources = {} /\ c.aliases \cap Record({s}).aliases = {}
      BY <1>10, <3>1, FreshClaim
    <3> QED BY <1>10, <3>1, <3>2, ExclusiveNew
  <2> QED BY <1>1, <1>4, <1>5, <1>6, <2>4, <2>5 DEF Flow, ClaimsInv
<1> QED BY <1>9, <1>10

\* Some events give up their claims; what is recorded was claimed.
LEMMA QuietClaims ==
    ASSUME TypeOK, PlacesInv, ClaimsInv, traffic' = traffic, Answering' = Answering, NEW D \in SUBSET Holders,
           Holders' = Holders \ D, claims' = claims \ Members(D), completed' \subseteq completed \cup claims
    PROVE  ClaimsExact' /\ Exclusive'
<1>1. Members({}) = {}
  BY DEF Members
<1>2. Members(Holders \ D) \cap Members(D) = {}
  <2>1. \A s, r : Record({s}) = Record({r}) => s = r
    BY RecordFacts
  <2> QED BY <2>1 DEF Members
<1>3. Answering \cap Members(D) = {}
  <2>1. \A s \in D : Record({s}) \notin Answering
    BY HoldersApart
  <2> QED BY <2>1 DEF Members
<1>4. ClaimFlow(D, {}, {}, {}, Members(D))
  BY <1>1, <1>2, <1>3 DEF ClaimFlow
<1>5. ClaimsExact'
  BY <1>4, ClaimsFlow DEF ClaimsInv
<1>6. Exclusive'
  BY ExclusiveKept DEF ClaimsInv
<1> QED BY <1>5, <1>6

\* Sources of terminal records stay done where no event that is done changes.
LEMMA DoneKept ==
    ASSUME TypeOK, ClaimsInv, completed' = completed, \A s \in Sources : pc[s] = "done" => pc'[s] = "done"
    PROVE  CompletedIsDone'
<1>1. ASSUME NEW d \in completed, NEW r \in d.sources
      PROVE  pc'[r] = "done"
  <2>1. d \in {Record(S) : S \in SUBSET Sources}
    BY DEF TypeOK
  <2>2. r \in Sources
    BY <2>1, RecordFacts
  <2>3. pc[r] = "done"
    BY DEF ClaimsInv, CompletedIsDone
  <2> QED BY <2>2, <2>3
<1> QED BY <1>1 DEF CompletedIsDone

\* The event of a handler at work is loaded into its lane.
LEMMA SubmitFlow ==
    ASSUME TypeOK, LanesInv, Flow, NEW s \in Sources, Submit(s)
    PROVE  Flow'
<1>0. PlacesInv /\ ClaimsInv /\ NoticeShape /\ Drained /\ LockShape /\ RootsInv
  BY DEF Flow
<1>1. /\ pc[s] = "resolve" /\ lanes' = SetSlot(lanes, s, "loaded") /\ pc' = [pc EXCEPT ![s] = "deferred"]
      /\ UNCHANGED <<traffic, clock, slot, settling, claims, completed, gates, turns, locks>>
      /\ notices' \subseteq notices \cup {s}
  BY DEF Submit, Goto, Noticed
<1>2. /\ pc'[s] = "deferred" /\ ready'[s] \in {"running", "payload"}
      /\ \A r \in Sources : r # s => pc'[r] = pc[r] /\ ready'[r] = ready[r]
  BY <1>1 DEF TypeOK, Submit
<1>3. \A r \in Sources : InLane(r)' <=> IF r = s THEN TRUE ELSE InLane(r)
  BY <1>1, MarkLanes
<1>4. Drained' /\ LockShape' /\ RootsInv'
  BY <1>0, <1>1, LineSame
<1>5. /\ Answering' = Answering
      /\ \A r \in Sources : /\ InQueue(r)' <=> InQueue(r)
                            /\ InTurn(r)' <=> InTurn(r)
                            /\ InClaimed(r)' <=> InClaimed(r)
                            /\ InSettling(r)' <=> InSettling(r)
                            /\ r # s => (Loaded(r)' <=> Loaded(r))
      /\ \A r : (\E t \in turns : t.pc = "queue" /\ r = Lead(t))' <=> (\E t \in turns : t.pc = "queue" /\ r = Lead(t))
  BY <1>1, <1>2, <1>3, BatchesSame DEF InSettling, Loaded
<1>6. ~InSettling(s) /\ ~InQueue(s) /\ ~InTurn(s) /\ ~InLane(s)
  BY <1>0, <1>1, PlaceFacts, LoadedFacts
<1>7. PlacesInv'
  <2>1. \A r \in Sources : Somewhere(r)' => r # s
    BY <1>5, <1>6 DEF Somewhere
  <2>2. \A r \in Sources : ready'[r] = "running" => InLane(r)'
    BY <1>0, <1>2, <1>3, PlaceFacts
  <2>3. \A u, v \in turns' : u # v => Srcs(u.batch) \cap Srcs(v.batch) = {}
    BY <1>0, <1>1 DEF PlacesInv, OnePlace
  <2>4. \A r \in Sources : Somewhere(r)' => pc'[r] = pc[r] /\ slot'[r] = slot[r] /\ ready'[r] = ready[r]
    BY <1>1, <1>2, <2>1
  <2>5. \A r \in Sources : InLane(r)' => InLane(r) \/ ~Somewhere(r)'
    BY <1>3, <2>1
  <2> QED BY <1>0, <1>1, <2>2, <2>3, <2>4, <2>5, PlacesKept
<1>8. Loaded(s)'
  BY <1>2, <1>3 DEF Loaded
<1>9. NoticeShape'
  <2>1. notices \subseteq Sources
    BY DEF TypeOK
  <2> QED BY <1>0, <1>1, <1>5, <1>8, <2>1 DEF NoticeShape, Announced
<1>10. Holders' = Holders
  <2>1. Holds(s) /\ Holds(s)'
    BY <1>1, <1>8 DEF Holds
  <2>2. \A r \in Sources : r # s => (Holds(r)' <=> Holds(r))
    BY <1>2, <1>5 DEF Holds
  <2> QED BY <2>1, <2>2 DEF Holders
<1>11. ClaimsExact' /\ Exclusive'
  <2>1. Members({}) = {} /\ {} \in SUBSET Holders
    BY DEF Members
  <2>2. Holders' = Holders \ {} /\ claims' = claims \ Members({}) /\ completed' \subseteq completed \cup claims
    BY <1>1, <1>10, <2>1
  <2> QED BY <1>0, <1>1, <1>5, <2>1, <2>2, QuietClaims
<1>12. CompletedIsDone'
  BY <1>0, <1>1, <1>2, DoneKept
<1> QED BY <1>4, <1>7, <1>9, <1>11, <1>12 DEF Flow, ClaimsInv

\* A handler leaves: its claim and its slot go, and a terminal record may come.
LEMMA LeaveFlow ==
    ASSUME TypeOK, LanesInv, Flow, NEW s \in Sources, NEW where \in {"done", "offered"}, Leave(s, where),
           completed' = completed \/ (completed' = completed \cup {Record({s})} /\ where = "done")
    PROVE  Flow'
<1>0. PlacesInv /\ ClaimsInv /\ NoticeShape /\ Drained /\ LockShape /\ RootsInv
  BY DEF Flow
<1>1. /\ pc[s] = "resolve" /\ lanes' = SetSlot(lanes, s, "released") /\ pc' = [pc EXCEPT ![s] = where]
      /\ UNCHANGED <<traffic, clock, slot, settling, ready, notices, gates, turns, locks>>
      /\ claims' = claims \ {Record({s})}
  BY DEF Leave, Goto
<1>2. pc'[s] = where /\ \A r \in Sources : r # s => pc'[r] = pc[r]
  BY <1>1 DEF TypeOK
<1>3. ~InSettling(s) /\ ~InQueue(s) /\ ~InTurn(s) /\ ~InLane(s) /\ ~InClaimed(s)
  <2>1. ~InSettling(s) /\ ~InQueue(s) /\ ~InTurn(s) /\ ~InLane(s)
    BY <1>0, <1>1, PlaceFacts, LoadedFacts
  <2> QED BY <2>1 DEF InTurn, InClaimed
<1>4. \A r \in Sources : InLane(r)' <=> InLane(r)
  <2>1. \A r \in Sources : InLane(r)' <=> IF r = s THEN "released" = "loaded" ELSE InLane(r)
    BY <1>1, MarkLanes
  <2> QED BY <1>3, <2>1
<1>5. Drained' /\ LockShape' /\ RootsInv'
  BY <1>0, <1>1, LineSame
<1>6. /\ Answering' = Answering
      /\ \A r \in Sources : /\ InQueue(r)' <=> InQueue(r)
                            /\ InTurn(r)' <=> InTurn(r)
                            /\ InClaimed(r)' <=> InClaimed(r)
                            /\ InSettling(r)' <=> InSettling(r)
                            /\ Loaded(r)' <=> Loaded(r)
      /\ \A r : (\E t \in turns : t.pc = "queue" /\ r = Lead(t))' <=> (\E t \in turns : t.pc = "queue" /\ r = Lead(t))
  BY <1>1, <1>4, BatchesSame DEF InSettling, Loaded
<1>7. PlacesInv'
  <2>1. \A r \in Sources : Somewhere(r)' => r # s
    BY <1>3, <1>6 DEF Somewhere
  <2>2. \A r \in Sources : ready'[r] = "running" => InLane(r)'
    BY <1>0, <1>1, <1>4, PlaceFacts
  <2>3. \A u, v \in turns' : u # v => Srcs(u.batch) \cap Srcs(v.batch) = {}
    BY <1>0, <1>1 DEF PlacesInv, OnePlace
  <2>4. \A r \in Sources : Somewhere(r)' => pc'[r] = pc[r] /\ slot'[r] = slot[r] /\ ready'[r] = ready[r]
    BY <1>1, <1>2, <2>1
  <2> QED BY <1>0, <1>1, <1>4, <2>2, <2>3, <2>4, PlacesKept
<1>8. NoticeShape'
  <2>1. notices \subseteq Sources
    BY DEF TypeOK
  <2> QED BY <1>0, <1>1, <1>6, <2>1 DEF NoticeShape, Announced
<1>9. s \in Holders /\ Holders' = Holders \ {s}
  <2>1. Holds(s) /\ ~Holds(s)'
    BY <1>1, <1>2, <1>3, <1>6 DEF Holds, Loaded
  <2>2. \A r \in Sources : r # s => (Holds(r)' <=> Holds(r))
    BY <1>2, <1>6 DEF Holds
  <2> QED BY <2>1, <2>2 DEF Holders
<1>10. Members({s}) = {Record({s})} /\ Record({s}) \in claims
  BY <1>0, <1>9 DEF Members, ClaimsInv, ClaimsExact
<1>11. ClaimsExact' /\ Exclusive'
  <2>1. {s} \in SUBSET Holders /\ claims' = claims \ Members({s}) /\ completed' \subseteq completed \cup claims
    BY <1>1, <1>9, <1>10
  <2> QED BY <1>0, <1>1, <1>6, <1>9, <2>1, QuietClaims
<1>12. CompletedIsDone'
  <2>1. \A r \in Sources : pc[r] = "done" => pc'[r] = "done"
    BY <1>1, <1>2
  <2>2. CASE completed' = completed
    BY <1>0, <2>1, <2>2, DoneKept
  <2>3. CASE completed' = completed \cup {Record({s})} /\ where = "done"
    <3>1. ASSUME NEW d \in completed', NEW r \in d.sources
          PROVE  pc'[r] = "done"
      <4>1. CASE d = Record({s})
        BY <1>2, <2>3, <4>1, <3>1, RecordFacts
      <4>2. CASE d \in completed
        <5>1. d \in {Record(S) : S \in SUBSET Sources}
          BY <4>2 DEF TypeOK
        <5>2. r \in Sources
          BY <3>1, <5>1, RecordFacts
        <5>3. pc[r] = "done"
          BY <1>0, <3>1, <4>2 DEF ClaimsInv, CompletedIsDone
        <5> QED BY <2>1, <5>2, <5>3
      <4> QED BY <2>3, <3>1, <4>1, <4>2
    <3> QED BY <3>1 DEF CompletedIsDone
  <2> QED BY <2>2, <2>3
<1> QED BY <1>5, <1>7, <1>8, <1>11, <1>12 DEF Flow, ClaimsInv

\* The readiness task ends: with nothing to deliver, claim and notice go.
LEMMA VoiceFlow ==
    ASSUME TypeOK, LanesInv, Flow, NEW s \in Sources, NEW outcome \in {"payload", "none", "failed"},
           VoiceReady(s, outcome)
    PROVE  Flow'
<1>0. PlacesInv /\ ClaimsInv /\ NoticeShape /\ Drained /\ LockShape /\ RootsInv
  BY DEF Flow
<1>1. /\ ready[s] = "running" /\ ready' = [ready EXCEPT ![s] = outcome]
      /\ UNCHANGED <<traffic, pc, clock, slot, lanes, settling, completed, gates, turns, locks>>
      /\ claims' = IF outcome = "payload" THEN claims ELSE claims \ {Record({s})}
      /\ notices' \subseteq IF outcome = "payload" THEN notices \cup {s} ELSE notices \ {s}
  BY DEF VoiceReady, VoiceGivesUp, Noticed
<1>2. ready'[s] = outcome /\ \A r \in Sources : r # s => ready'[r] = ready[r]
  BY <1>1 DEF TypeOK
<1>3. InLane(s) /\ pc[s] = "deferred" /\ ~InSettling(s) /\ ~InQueue(s) /\ ~InTurn(s) /\ ~InClaimed(s)
  <2>1. InLane(s)
    BY <1>0, <1>1, PlaceFacts
  <2>2. ~InSettling(s) /\ ~InQueue(s) /\ ~InTurn(s)
    BY <1>0, <2>1 DEF PlacesInv, OnePlace
  <2> QED BY <2>1, <2>2, LoadedFacts DEF InTurn, InClaimed
<1>4. \A r \in Sources : InLane(r)' <=> InLane(r)
  BY <1>1 DEF InLane
<1>5. Drained' /\ LockShape' /\ RootsInv'
  BY <1>0, <1>1, LineSame
<1>6. /\ Answering' = Answering
      /\ \A r \in Sources : /\ InQueue(r)' <=> InQueue(r)
                            /\ InTurn(r)' <=> InTurn(r)
                            /\ InClaimed(r)' <=> InClaimed(r)
                            /\ InSettling(r)' <=> InSettling(r)
                            /\ r # s => (Loaded(r)' <=> Loaded(r))
      /\ \A r : (\E t \in turns : t.pc = "queue" /\ r = Lead(t))' <=> (\E t \in turns : t.pc = "queue" /\ r = Lead(t))
  BY <1>1, <1>2, <1>4, BatchesSame DEF InSettling, Loaded
<1>7. PlacesInv'
  <2>1. \A r \in Sources : Somewhere(r)' => r # s
    BY <1>3, <1>6 DEF Somewhere
  <2>2. \A r \in Sources : ready'[r] = "running" => InLane(r)'
    BY <1>0, <1>2, <1>3, <1>4, PlaceFacts
  <2>3. \A u, v \in turns' : u # v => Srcs(u.batch) \cap Srcs(v.batch) = {}
    BY <1>0, <1>1 DEF PlacesInv, OnePlace
  <2>4. \A r \in Sources : Somewhere(r)' => pc'[r] = pc[r] /\ slot'[r] = slot[r] /\ ready'[r] = ready[r]
    BY <1>1, <1>2, <2>1
  <2> QED BY <1>0, <1>1, <1>4, <2>2, <2>3, <2>4, PlacesKept
<1>8. Loaded(s) /\ (Loaded(s)' <=> outcome = "payload")
  BY <1>1, <1>2, <1>3, <1>4 DEF Loaded
<1>9. NoticeShape'
  <2>1. notices \subseteq Sources
    BY DEF TypeOK
  <2>2. \A r \in notices : r # s => Announced(r)'
    BY <1>0, <1>6, <2>1 DEF NoticeShape, Announced
  <2>3. outcome = "payload" => Announced(s)'
    BY <1>8 DEF Announced
  <2> QED BY <1>1, <2>2, <2>3 DEF NoticeShape
<1>10. s \in Holders /\ Holders' = IF outcome = "payload" THEN Holders ELSE Holders \ {s}
  <2>1. Holds(s) /\ (Holds(s)' <=> outcome = "payload")
    BY <1>1, <1>3, <1>6, <1>8 DEF Holds
  <2>2. \A r \in Sources : r # s => (Holds(r)' <=> Holds(r))
    BY <1>1, <1>6 DEF Holds
  <2> QED BY <2>1, <2>2 DEF Holders
<1>11. ClaimsExact' /\ Exclusive'
  <2> DEFINE D == IF outcome = "payload" THEN {} ELSE {s}
  <2>1. Members({s}) = {Record({s})} /\ Members({}) = {}
    BY DEF Members
  <2>2. D \in SUBSET Holders /\ Holders' = Holders \ D /\ claims' = claims \ Members(D) /\ completed' \subseteq completed \cup claims
    BY <1>1, <1>10, <2>1
  <2> HIDE DEF D
  <2> QED BY <1>0, <1>1, <1>6, <2>2, QuietClaims
<1>12. CompletedIsDone'
  BY <1>0, <1>1, DoneKept
<1> QED BY <1>5, <1>7, <1>9, <1>11, <1>12 DEF Flow, ClaimsInv

\* An event that holds nothing leaves the lane or the settlement, or nothing happens at all.
LEMMA QuietFlow ==
    ASSUME TypeOK, LanesInv, Flow,
           UNCHANGED <<traffic, ready, claims, completed, notices, gates, turns, locks, slot>>,
           settling' \subseteq settling,
           \A r \in Sources : InLane(r)' => InLane(r),
           \A r \in Sources : InLane(r) /\ ~InLane(r)' => ready[r] \notin {"running", "payload"},
           \A r \in Sources : pc'[r] # pc[r] => ~Somewhere(r)' /\ pc[r] = "deferred" /\ pc'[r] # "resolve"
    PROVE  Flow'
<1>0. PlacesInv /\ ClaimsInv /\ NoticeShape /\ Drained /\ LockShape /\ RootsInv
  BY DEF Flow
<1>1. Drained' /\ LockShape' /\ RootsInv'
  BY <1>0, LineSame
<1>2. /\ Answering' = Answering
      /\ \A r \in Sources : /\ InQueue(r)' <=> InQueue(r)
                            /\ InTurn(r)' <=> InTurn(r)
                            /\ InClaimed(r)' <=> InClaimed(r)
                            /\ Loaded(r)' <=> Loaded(r)
      /\ \A r : (\E t \in turns : t.pc = "queue" /\ r = Lead(t))' <=> (\E t \in turns : t.pc = "queue" /\ r = Lead(t))
  BY BatchesSame DEF Loaded
<1>3. PlacesInv'
  <2>1. \A r \in Sources : ready'[r] = "running" => InLane(r)'
    BY <1>0, PlaceFacts
  <2>2. \A u, v \in turns' : u # v => Srcs(u.batch) \cap Srcs(v.batch) = {}
    BY <1>0 DEF PlacesInv, OnePlace
  <2>3. \A r \in Sources : Somewhere(r)' => pc'[r] = pc[r] /\ slot'[r] = slot[r] /\ ready'[r] = ready[r]
    OBVIOUS
  <2> QED BY <1>0, <2>1, <2>2, <2>3, PlacesKept
<1>4. NoticeShape'
  <2>1. notices \subseteq Sources
    BY DEF TypeOK
  <2> QED BY <1>0, <1>2, <2>1 DEF NoticeShape, Announced
<1>5. Holders' = Holders
  BY <1>2 DEF Holders, Holds
<1>6. ClaimsExact' /\ Exclusive'
  <2>1. Members({}) = {} /\ {} \in SUBSET Holders
    BY DEF Members
  <2>2. Holders' = Holders \ {} /\ claims' = claims \ Members({}) /\ completed' \subseteq completed \cup claims
    BY <1>5, <2>1
  <2> QED BY <1>0, <1>2, <2>1, <2>2, QuietClaims
<1>7. CompletedIsDone'
  BY <1>0, DoneKept
<1> QED BY <1>1, <1>3, <1>4, <1>6, <1>7 DEF Flow, ClaimsInv

LEMMA SettleFlow ==
    ASSUME TypeOK, LanesInv, Flow, NEW e \in settling, NEW ok \in BOOLEAN, SettleIgnored(e, ok)
    PROVE  Flow'
<1>0. PlacesInv
  BY DEF Flow
<1>1. /\ UNCHANGED <<traffic, ready, claims, completed, notices, gates, turns, locks, slot, lanes>>
      /\ settling' = settling \ {e} /\ pc' = [pc EXCEPT ![e.src] = IF ok THEN "done" ELSE "offered"]
  BY DEF SettleIgnored, Goto
<1>2. e.src \in Sources /\ pc[e.src] = "deferred" /\ ready[e.src] = "none" /\ ~InLane(e.src)
  <2>1. e.src \in Sources /\ InSettling(e.src)
    BY DEF TypeOK, Queued, InSettling
  <2> QED BY <1>0, <2>1, PlaceFacts
<1>3. ~InQueue(e.src) /\ ~InTurn(e.src)
  BY <1>0, <1>2, PlaceFacts
<1>4. ~Somewhere(e.src)'
  <2>1. ~InQueue(e.src)' /\ ~InTurn(e.src)'
    BY <1>1, <1>3 DEF InQueue, InTurn
  <2>2. ASSUME NEW f \in settling', f.src = e.src
        PROVE  FALSE
    <3>1. f \in settling /\ f # e
      BY <1>1, <2>2
    <3>2. f.n = slot[f.src] /\ e.n = slot[e.src]
      BY <1>0, <3>1 DEF PlacesInv, Places, Placed
    <3>3. f = e
      BY <2>2, <3>1, <3>2, SameQueued DEF TypeOK
    <3> QED BY <3>1, <3>3
  <2>3. ~InSettling(e.src)'
    BY <2>2 DEF InSettling
  <2> QED BY <2>1, <2>3 DEF Somewhere
<1>5. \A r \in Sources : InLane(r)' <=> InLane(r)
  BY <1>1 DEF InLane
<1>6. \A r \in Sources : pc'[r] # pc[r] => r = e.src /\ pc'[r] # "resolve"
  BY <1>1, <1>2 DEF TypeOK
<1> QED BY <1>1, <1>2, <1>4, <1>5, <1>6, QuietFlow

-----------------------------------------------------------------------------
(* Steps of a lane.                                                        *)

\* The slot was released, or its readiness task failed and the event is offered again.
LEMMA LaneDropFlow ==
    ASSUME TypeOK, LanesInv, Flow, NEW x \in Senders, Lane(x), UNCHANGED <<gates, settling>>,
           \/ Head(lanes[x]).state = "released" /\ pc' = pc
           \/ /\ Head(lanes[x]).state = "loaded" /\ ready[Head(lanes[x]).src] = "failed"
              /\ pc' = [pc EXCEPT ![Head(lanes[x]).src] = "offered"]
    PROVE  Flow'
<1>9. PICK e : e = Head(lanes[x])
  OBVIOUS
<1>0. PlacesInv
  BY DEF Flow
<1>1. UNCHANGED <<traffic, clock, slot, ready, claims, completed, notices, turns, locks>>
  BY DEF Lane
<1>2. /\ e \in Elems(lanes[x]) /\ e.src \in Sources
      /\ \A r \in Sources : InLane(r)' <=> InLane(r) /\ ~(r = e.src /\ e.state = "loaded")
  BY <1>1, <1>9, PopLanes
<1>3. e.state = "loaded" => InLane(e.src) /\ pc[e.src] = "deferred"
  BY <1>2, InLaneElems, LoadedFacts
<1>4. e.state = "loaded" => ~Somewhere(e.src)'
  <2>1. \A r \in Sources : Somewhere(r)' <=> Somewhere(r)
    BY <1>1 DEF Somewhere, InSettling, InQueue, InTurn
  <2> QED BY <1>0, <1>2, <1>3, <2>1 DEF Somewhere, PlacesInv, OnePlace
<1>5. \/ e.state = "released" /\ pc' = pc
      \/ e.state = "loaded" /\ ready[e.src] = "failed" /\ pc' = [pc EXCEPT ![e.src] = "offered"]
  BY <1>9
<1>6. \A r \in Sources : pc'[r] # pc[r] => r = e.src /\ e.state = "loaded" /\ pc'[r] # "resolve"
  BY <1>5 DEF TypeOK
<1>7. \A r \in Sources : InLane(r) /\ ~InLane(r)' => ready[r] \notin {"running", "payload"}
  BY <1>2, <1>5
<1>8. \A r \in Sources : pc'[r] # pc[r] => ~Somewhere(r)' /\ pc[r] = "deferred" /\ pc'[r] # "resolve"
  BY <1>3, <1>4, <1>6
<1> QED BY <1>1, <1>2, <1>7, <1>8, QuietFlow

\* An ignored event is settled by the journal.
LEMMA LaneIgnoreFlow ==
    ASSUME TypeOK, LanesInv, Flow, NEW x \in Senders, Lane(x), UNCHANGED <<gates, pc>>,
           Head(lanes[x]).state = "loaded", ready[Head(lanes[x]).src] = "none",
           settling' = settling \cup {[n |-> Head(lanes[x]).n, src |-> Head(lanes[x]).src]}
    PROVE  Flow'
<1>17. PICK e : e = Head(lanes[x])
  OBVIOUS
<1>18. PICK q : q = [n |-> e.n, src |-> e.src]
  OBVIOUS
<1>0. PlacesInv /\ ClaimsInv /\ NoticeShape /\ Drained /\ LockShape /\ RootsInv
  BY DEF Flow
<1>1. UNCHANGED <<traffic, clock, slot, ready, claims, completed, notices, turns, locks>>
  BY DEF Lane
<1>2. /\ e \in Elems(lanes[x]) /\ SlotShape(x, e) /\ e.src \in Sources /\ e.n \in Nat
      /\ \A r \in Sources : InLane(r)' <=> InLane(r) /\ ~(r = e.src /\ e.state = "loaded")
  BY <1>1, <1>17, PopLanes
<1>3. e.state = "loaded" /\ ready[e.src] = "none"
  BY <1>17
<1>4. InLane(e.src) /\ pc[e.src] = "deferred" /\ e.n = slot[e.src]
  BY <1>2, <1>3, InLaneElems, LoadedFacts DEF SlotShape
<1>5. q.n = e.n /\ q.src = e.src /\ settling' = settling \cup {q}
  BY <1>17, <1>18
<1>6. ~InSettling(e.src) /\ ~InQueue(e.src) /\ ~InTurn(e.src)
  BY <1>0, <1>2, <1>4 DEF PlacesInv, OnePlace
<1>7. Drained' /\ LockShape' /\ RootsInv'
  BY <1>0, <1>1, LineSame
<1>8. /\ Answering' = Answering
      /\ \A r \in Sources : /\ InQueue(r)' <=> InQueue(r)
                            /\ InTurn(r)' <=> InTurn(r)
                            /\ InClaimed(r)' <=> InClaimed(r)
                            /\ Loaded(r)' <=> Loaded(r)
                            /\ InSettling(r)' => InSettling(r) \/ r = e.src
      /\ \A r : (\E t \in turns : t.pc = "queue" /\ r = Lead(t))' <=> (\E t \in turns : t.pc = "queue" /\ r = Lead(t))
  BY <1>1, <1>2, <1>3, <1>5, BatchesSame DEF Loaded, InSettling
<1>9. Places'
  <2>1. Placed(q, "none")'
    BY <1>1, <1>3, <1>4, <1>5 DEF Placed
  <2> QED BY <1>0, <1>1, <1>5, <2>1 DEF PlacesInv, Places, Placed
<1>10. RunningInLane'
  BY <1>0, <1>1, <1>2, <1>3 DEF PlacesInv, RunningInLane
<1>11. BurstInOrder'
  BY <1>0, <1>1 DEF PlacesInv, BurstInOrder
<1>12. OnePlace'
  <2>1. \A r \in Sources : InLane(r)' => ~InSettling(r)' /\ ~InQueue(r)' /\ ~InTurn(r)'
    BY <1>0, <1>2, <1>3, <1>8 DEF PlacesInv, OnePlace
  <2>2. \A r \in Sources : InQueue(r)' => ~InTurn(r)'
    BY <1>0, <1>8 DEF PlacesInv, OnePlace
  <2> QED BY <1>0, <1>1, <2>1, <2>2 DEF PlacesInv, OnePlace
<1>13. NoticeShape'
  <2>1. notices \subseteq Sources
    BY DEF TypeOK
  <2> QED BY <1>0, <1>1, <1>8, <2>1 DEF NoticeShape, Announced
<1>14. Holders' = Holders
  BY <1>8 DEF Holders, Holds
<1>15. ClaimsExact' /\ Exclusive'
  <2>1. Members({}) = {} /\ {} \in SUBSET Holders
    BY DEF Members
  <2>2. Holders' = Holders \ {} /\ claims' = claims \ Members({}) /\ completed' \subseteq completed \cup claims
    BY <1>1, <1>14, <2>1
  <2> QED BY <1>0, <1>1, <1>8, <2>1, <2>2, QuietClaims
<1>16. CompletedIsDone'
  BY <1>0, <1>1, DoneKept
<1> QED BY <1>7, <1>9, <1>10, <1>11, <1>12, <1>13, <1>15, <1>16 DEF Flow, PlacesInv, ClaimsInv

\* Queues whose entries are all the present receipts of their events share an event only if they share an entry.
LEMMA QueuesToSrcs ==
    ASSUME gates' \in [Keys -> GateEntries], QueuesApart',
           \A l \in Keys : \A f \in Elems(gates'[l].queue) : Placed(f, "payload")'
    PROVE  \A k, l \in Keys : k # l => Srcs(gates'[k].queue) \cap Srcs(gates'[l].queue) = {}
<1>0. \A l \in Keys : gates'[l].queue \in Seq(Queued)
  <2>1. \A l \in Keys : gates'[l] \in GateEntries
    OBVIOUS
  <2> QED BY <2>1 DEF GateEntries
<1>1. ASSUME NEW k \in Keys, NEW l \in Keys, k # l,
             NEW f \in Elems(gates'[k].queue), NEW h \in Elems(gates'[l].queue), f.src = h.src
      PROVE  FALSE
  <2>1. f \in Queued /\ h \in Queued
    BY <1>0, QueueTypes
  <2>2. f.n = h.n
    BY <1>1 DEF Placed
  <2>3. f = h
    BY <1>1, <2>1, <2>2, SameQueued
  <2> QED BY <1>1, <2>3 DEF QueuesApart
<1> QED BY <1>1, SrcElems

LEMMA QueuesOrdered ==
    /\ BurstInOrder <=> (\A k \in Keys : Ordered(gates[k].queue)) /\ (\A t \in turns : Ordered(t.batch))
    /\ BurstInOrder' <=> (\A k \in Keys : Ordered(gates'[k].queue)) /\ (\A t \in turns' : Ordered(t.batch))
  BY DEF BurstInOrder, Ordered

\* Events change places: the claims and the announcements stay with them.
LEMMA MoveFlow ==
    ASSUME TypeOK, Flow, UNCHANGED <<traffic, claims, completed, notices, pc>>, Answering' = Answering,
           \A r \in Sources : Holds(r)' <=> Holds(r), \A r \in Sources : Announced(r) => Announced(r)',
           PlacesInv', Drained', LockShape', RootsInv'
    PROVE  Flow'
<1>0. PlacesInv /\ ClaimsInv /\ NoticeShape
  BY DEF Flow
<1>1. ClaimsExact' /\ Exclusive'
  <2>1. Members({}) = {} /\ {} \in SUBSET Holders /\ Holders' = Holders
    BY DEF Members, Holders
  <2>2. Holders' = Holders \ {} /\ claims' = claims \ Members({}) /\ completed' \subseteq completed \cup claims
    BY <2>1
  <2> QED BY <1>0, <2>1, <2>2, QuietClaims
<1>2. CompletedIsDone'
  BY <1>0, DoneKept
<1>3. NoticeShape'
  BY <1>0 DEF TypeOK, NoticeShape
<1> QED BY <1>1, <1>2, <1>3 DEF Flow, ClaimsInv

\* A ready event is admitted to a gate.
LEMMA LaneAdmitFlow ==
    ASSUME TypeOK, LanesInv, Flow, NEW x \in Senders, Lane(x), UNCHANGED <<settling, pc>>,
           Head(lanes[x]).state = "loaded", ready[Head(lanes[x]).src] = "payload",
           gates' = Admitted(gates, [n |-> Head(lanes[x]).n, src |-> Head(lanes[x]).src])
    PROVE  Flow' /\ gates' \in [Keys -> GateEntries] /\ \A r \in Sources : InQueue(r)' <=> InQueue(r) \/ r = Head(lanes[x]).src
<1>17. PICK e : e = Head(lanes[x])
  OBVIOUS
<1>18. PICK q : q = [n |-> e.n, src |-> e.src]
  OBVIOUS
<1>0. PlacesInv /\ ClaimsInv /\ NoticeShape /\ Drained /\ LockShape /\ RootsInv
  BY DEF Flow
<1>1. UNCHANGED <<traffic, clock, slot, ready, claims, completed, notices, turns, locks>>
  BY DEF Lane
<1>2. /\ e \in Elems(lanes[x]) /\ SlotShape(x, e) /\ e.src \in Sources /\ e.n \in Nat
      /\ \A r \in Sources : InLane(r)' <=> InLane(r) /\ ~(r = e.src /\ e.state = "loaded")
  BY <1>1, <1>17, PopLanes
<1>3. e.state = "loaded" /\ ready[e.src] = "payload"
  BY <1>17
<1>4. InLane(e.src) /\ pc[e.src] = "deferred" /\ e.n = slot[e.src] /\ e.n > 0
  BY <1>2, <1>3, InLaneElems, LoadedFacts DEF SlotShape
<1>5. q.n = e.n /\ q.src = e.src /\ q \in Queued /\ gates' = Admitted(gates, q)
  BY <1>2, <1>17, <1>18 DEF Queued
<1>6. ~InSettling(e.src) /\ ~InQueue(e.src) /\ ~InTurn(e.src)
  BY <1>0, <1>2, <1>4 DEF PlacesInv, OnePlace
<1>7. \A l \in Keys : gates[l].queue \in Seq(Queued)
  BY GateTypes
<1>8. ASSUME NEW l \in Keys, NEW f \in Elems(gates[l].queue)
      PROVE  f.n # q.n
  <2>1. f.src \in Sources /\ f.n = slot[f.src] /\ InQueue(f.src)
    BY <1>0, <1>7, QueueTypes, SrcElems DEF PlacesInv, Places, Placed, InQueue
  <2>2. f.src # e.src
    BY <1>6, <2>1
  <2> QED BY <1>2, <1>4, <1>5, <2>1, <2>2 DEF LanesInv, Stamps
<1>9. QueuesApart
  <2>1. ASSUME NEW l \in Keys, NEW m \in Keys, l # m, NEW f \in Elems(gates[l].queue), f \in Elems(gates[m].queue)
        PROVE  FALSE
    <3>1. f.src \in Srcs(gates[l].queue) /\ f.src \in Srcs(gates[m].queue)
      BY <2>1, SrcElems
    <3> QED BY <1>0, <2>1, <3>1 DEF PlacesInv, OnePlace
  <2> QED BY <2>1 DEF QueuesApart
<1>10. Admits(q)
  <2>1. \A l \in Keys : Ordered(gates[l].queue)
    BY <1>0, QueuesOrdered DEF PlacesInv
  <2> QED BY <1>0, <1>5, <1>8, <1>9, <2>1, AdmittedEffect
<1>11. \A r \in Sources : InQueue(r)' <=> InQueue(r) \/ r = e.src
  <2>1. \A l \in Keys : \A f \in Elems(gates'[l].queue) : f = q \/ \E m \in Keys : f \in Elems(gates[m].queue)
    BY <1>10 DEF Admits
  <2>2. \A m \in Keys : \A f \in Elems(gates[m].queue) : \E l \in Keys : f \in Elems(gates'[l].queue)
    BY <1>10 DEF Admits
  <2>3. \E l \in Keys : q \in Elems(gates'[l].queue)
    BY <1>10 DEF Admits
  <2>4. ASSUME NEW r \in Sources, InQueue(r)'
        PROVE  InQueue(r) \/ r = e.src
    <3>1. PICK l \in Keys : r \in Srcs(gates'[l].queue)
      BY <2>4 DEF InQueue
    <3>2. PICK f \in Elems(gates'[l].queue) : f.src = r
      BY <3>1, SrcElems
    <3> QED BY <1>5, <2>1, <3>2, SrcElems DEF InQueue
  <2>5. ASSUME NEW r \in Sources, InQueue(r)
        PROVE  InQueue(r)'
    <3>1. PICK l \in Keys : r \in Srcs(gates[l].queue)
      BY <2>5 DEF InQueue
    <3>2. PICK f \in Elems(gates[l].queue) : f.src = r
      BY <3>1, SrcElems
    <3>3. PICK m \in Keys : f \in Elems(gates'[m].queue)
      BY <2>2
    <3> QED BY <3>2, <3>3, SrcElems DEF InQueue
  <2>6. InQueue(e.src)'
    BY <1>5, <2>3, SrcElems DEF InQueue
  <2> QED BY <2>4, <2>5, <2>6
<1>12. ASSUME NEW l \in Keys, NEW f \in Elems(gates'[l].queue)
       PROVE  Placed(f, "payload")'
  <2>1. f = q \/ \E m \in Keys : f \in Elems(gates[m].queue)
    BY <1>10 DEF Admits
  <2>2. CASE f = q
    BY <1>1, <1>3, <1>4, <1>5, <2>2 DEF Placed
  <2>3. CASE \E m \in Keys : f \in Elems(gates[m].queue)
    BY <1>0, <1>1, <2>3 DEF PlacesInv, Places, Placed
  <2> QED BY <2>1, <2>2, <2>3
<1>13. /\ gates' \in [Keys -> GateEntries] /\ QueuesApart' /\ Drained'
       /\ \A l \in Keys : Ordered(gates'[l].queue)
  BY <1>10 DEF Admits
<1>14. PlacesInv'
  <2>1. Places'
    BY <1>0, <1>1, <1>12 DEF PlacesInv, Places, Placed
  <2>2. BurstInOrder'
    BY <1>0, <1>1, <1>13, QueuesOrdered DEF PlacesInv
  <2>3. RunningInLane'
    BY <1>0, <1>1, <1>2, <1>3 DEF PlacesInv, RunningInLane
  <2>4. \A k, l \in Keys : k # l => Srcs(gates'[k].queue) \cap Srcs(gates'[l].queue) = {}
    BY <1>12, <1>13, QueuesToSrcs
  <2>5. \A r \in Sources : (InSettling(r)' <=> InSettling(r)) /\ (InTurn(r)' <=> InTurn(r))
    BY <1>1 DEF InSettling, InTurn
  <2>6. \A r \in Sources : InLane(r)' => ~InSettling(r)' /\ ~InQueue(r)' /\ ~InTurn(r)'
    BY <1>0, <1>2, <1>3, <1>11, <2>5 DEF PlacesInv, OnePlace
  <2>7. \A r \in Sources : InQueue(r)' => ~InTurn(r)'
    BY <1>0, <1>6, <1>11, <2>5 DEF PlacesInv, OnePlace
  <2>8. OnePlace'
    BY <1>0, <1>1, <2>4, <2>6, <2>7 DEF PlacesInv, OnePlace
  <2> QED BY <2>1, <2>2, <2>3, <2>8 DEF PlacesInv
<1>15. LockShape' /\ RootsInv' /\ Answering' = Answering
  <2>1. LockShape'
    BY <1>0, <1>1, RecordsKept DEF LockShape, Lead
  <2>2. RootsInv'
    BY <1>0, <1>1 DEF RootsInv, RootsBounded, Roots
  <2>3. Answering' = Answering
    BY <1>1, RecordsKept DEF Answering
  <2> QED BY <2>1, <2>2, <2>3
<1>16. \A r \in Sources : (Holds(r)' <=> Holds(r)) /\ (Announced(r) => Announced(r)')
  <2>1. ASSUME NEW r \in Sources
        PROVE  (Holds(r)' <=> Holds(r)) /\ (Announced(r) => Announced(r)')
    <3>1. /\ InClaimed(r)' <=> InClaimed(r)
          /\ (\E t \in turns : t.pc = "queue" /\ r = Lead(t))' <=> (\E t \in turns : t.pc = "queue" /\ r = Lead(t))
      BY <1>1 DEF InClaimed, Lead
    <3>2. Loaded(r)' <=> Loaded(r) /\ r # e.src
      BY <1>1, <1>2, <1>3 DEF Loaded
    <3>3. Loaded(e.src)
      BY <1>3, <1>4 DEF Loaded
    <3> QED BY <1>11, <3>1, <3>2, <3>3 DEF Holds, Announced
  <2> QED BY <2>1
<1>19. Flow'
  BY <1>1, <1>13, <1>14, <1>15, <1>16, MoveFlow
<1> QED BY <1>11, <1>13, <1>17, <1>19

LEMMA LaneFlow ==
    ASSUME TypeOK, LanesInv, Flow, NEW x \in Senders, Lane(x)
    PROVE  Flow'
  BY LaneDropFlow, LaneIgnoreFlow, LaneAdmitFlow DEF Lane, Goto

-----------------------------------------------------------------------------
(* Steps of a gate.                                                        *)

LEMMA GateIdleFlow ==
    ASSUME TypeOK, LanesInv, Flow, GateIdles,
           UNCHANGED <<traffic, pc, clock, slot, lanes, settling, ready, claims, completed, notices, locks>>
    PROVE  Flow'
<1>0. PlacesInv /\ ClaimsInv /\ NoticeShape /\ Drained /\ LockShape /\ RootsInv
  BY DEF Flow
<1>1. turns' = turns /\ Drained' /\ \A l \in Keys : gates'[l].queue = gates[l].queue
  BY DEF GateIdles
<1>2. LockShape' /\ RootsInv' /\ Answering' = Answering
  <2>1. LockShape'
    BY <1>0, <1>1, RecordsKept DEF LockShape, Lead
  <2>2. RootsInv'
    BY <1>0, <1>1 DEF RootsInv, RootsBounded, Roots
  <2>3. Answering' = Answering
    BY <1>1, RecordsKept DEF Answering
  <2> QED BY <2>1, <2>2, <2>3
<1>3. \A r \in Sources : InLane(r)' <=> InLane(r)
  BY DEF InLane
<1>4. PlacesInv'
  <2>1. \A r \in Sources : ready'[r] = "running" => InLane(r)'
    BY <1>0, <1>3, PlaceFacts
  <2>2. \A u, v \in turns' : u # v => Srcs(u.batch) \cap Srcs(v.batch) = {}
    BY <1>0, <1>1 DEF PlacesInv, OnePlace
  <2> QED BY <1>0, <1>1, <1>3, <2>1, <2>2, PlacesKept
<1>5. \A r \in Sources : (Holds(r)' <=> Holds(r)) /\ (Announced(r) => Announced(r)')
  <2>1. ASSUME NEW r \in Sources
        PROVE  (Holds(r)' <=> Holds(r)) /\ (Announced(r) => Announced(r)')
    <3>1. /\ InClaimed(r)' <=> InClaimed(r)
          /\ InQueue(r)' <=> InQueue(r)
          /\ Loaded(r)' <=> Loaded(r)
          /\ (\E t \in turns : t.pc = "queue" /\ r = Lead(t))' <=> (\E t \in turns : t.pc = "queue" /\ r = Lead(t))
      BY <1>1, <1>3 DEF InClaimed, InQueue, Loaded, Lead
    <3> QED BY <3>1 DEF Holds, Announced
  <2> QED BY <2>1
<1> QED BY <1>1, <1>2, <1>4, <1>5, MoveFlow

\* One more root while there is room for one.
LEMMA RootsAdd ==
    ASSUME RootsInv, NEW t, turns' = turns \cup {t}, t.root => Cardinality(Roots) < MaxRoots
    PROVE  RootsInv'
<1>0. MaxRoots \in Nat /\ IsFiniteSet(turns) /\ Cardinality(Roots) <= MaxRoots
  BY IngressAssumption DEF RootsInv, RootsBounded
<1>1. IsFiniteSet(turns')
  BY <1>0, FS_AddElement
<1>2. IsFiniteSet(Roots) /\ Roots \subseteq turns
  BY <1>0, FS_Subset DEF Roots
<1>3. Cardinality(Roots) \in Nat
  BY <1>2, FS_CardinalityType
<1>4. Roots' \subseteq Roots \cup {t} /\ (~t.root => Roots' \subseteq Roots)
  BY DEF Roots
<1>5. CASE t.root
  <2> DEFINE R == Roots \cup {t}
  <2>1. IsFiniteSet(R) /\ Cardinality(R) \in {Cardinality(Roots), Cardinality(Roots) + 1}
    BY <1>2, FS_AddElement
  <2>2. Cardinality(Roots') <= Cardinality(R)
    <3> HIDE DEF R
    <3>1. Roots' \subseteq R
      BY <1>4 DEF R
    <3> QED BY <2>1, <3>1, FS_Subset
  <2>3. IsFiniteSet(Roots')
    BY <1>4, <2>1, FS_Subset
  <2>4. Cardinality(Roots') \in Nat
    BY <2>3, FS_CardinalityType
  <2>5. Cardinality(Roots) < MaxRoots
    BY <1>5
  <2> HIDE DEF R
  <2>6. Cardinality(Roots') <= MaxRoots
    BY <1>0, <1>3, <2>1, <2>2, <2>4, <2>5
  <2> QED BY <1>1, <2>6 DEF RootsInv, RootsBounded
<1>6. CASE ~t.root
  <2>1. IsFiniteSet(Roots') /\ Cardinality(Roots') <= Cardinality(Roots)
    BY <1>2, <1>4, <1>6, FS_Subset
  <2>2. Cardinality(Roots') \in Nat
    BY <2>1, FS_CardinalityType
  <2>3. Cardinality(Roots') <= MaxRoots
    BY <1>0, <1>3, <2>1, <2>2
  <2> QED BY <1>1, <2>3 DEF RootsInv, RootsBounded
<1> QED BY <1>5, <1>6

\* A run at the front of a queue becomes a batch.
LEMMA GateClaimFlow ==
    ASSUME TypeOK, LanesInv, Flow, NEW k \in Keys, NEW t, ClaimsRun(k, t), t.root => ~AtCapacity(k),
           UNCHANGED <<traffic, pc, clock, slot, lanes, settling, ready, claims, completed, notices, locks>>
    PROVE  Flow'
<1>0. PlacesInv /\ ClaimsInv /\ NoticeShape /\ Drained /\ LockShape /\ RootsInv
  BY DEF Flow
<1>1. /\ turns' = turns \cup {t} /\ t \in Batches /\ t.pc = "claimed" /\ t.batch # <<>>
      /\ gates' \in [Keys -> GateEntries] /\ \A l \in Keys : l # k => gates'[l] = gates[l]
      /\ Ordered(t.batch) /\ Ordered(gates'[k].queue)
      /\ Elems(t.batch) \cup Elems(gates'[k].queue) = Elems(gates[k].queue)
      /\ \A e \in Elems(t.batch), f \in Elems(gates'[k].queue) : e.n < f.n
      /\ Drained'
  BY DEF ClaimsRun
<1>2. /\ t.batch \in Seq(Queued) /\ gates[k].queue \in Seq(Queued)
      /\ \A l \in Keys : gates'[l].queue \in Seq(Queued)
  <2>1. \A l \in Keys : gates'[l] \in GateEntries
    BY <1>1
  <2> QED BY <1>1, <2>1, GateTypes DEF Batches, GateEntries
<1>3. \A e \in Elems(gates[k].queue) : Placed(e, "payload") /\ e.n \in Nat /\ e.src \in Sources
  BY <1>0, <1>2, QueueTypes DEF PlacesInv, Places
<1>4. Srcs(t.batch) \cup Srcs(gates'[k].queue) = Srcs(gates[k].queue)
  BY <1>1, SrcElems
<1>5. Srcs(t.batch) \cap Srcs(gates'[k].queue) = {}
  <2>1. ASSUME NEW e \in Elems(t.batch), NEW f \in Elems(gates'[k].queue), e.src = f.src
        PROVE  FALSE
    <3>1. e \in Elems(gates[k].queue) /\ f \in Elems(gates[k].queue)
      BY <1>1
    <3>2. e.n = f.n /\ e.n \in Nat
      BY <1>3, <2>1, <3>1 DEF Placed
    <3>3. e.n < f.n
      BY <1>1
    <3> QED BY <3>2, <3>3
  <2> QED BY <2>1, SrcElems
<1>6. \A r \in Sources : /\ InLane(r)' <=> InLane(r)
                         /\ InSettling(r)' <=> InSettling(r)
                         /\ InTurn(r)' <=> InTurn(r) \/ r \in Srcs(t.batch)
                         /\ InClaimed(r)' <=> InClaimed(r) \/ r \in Srcs(t.batch)
  <2>1. \A r \in Sources : (InLane(r)' <=> InLane(r)) /\ (InSettling(r)' <=> InSettling(r))
    BY DEF InLane, InSettling
  <2>2. \A r \in Sources : (InTurn(r)' <=> InTurn(r) \/ r \in Srcs(t.batch)) /\ (InClaimed(r)' <=> InClaimed(r) \/ r \in Srcs(t.batch))
    BY <1>1 DEF InTurn, InClaimed
  <2> QED BY <2>1, <2>2
<1>7. \A r \in Sources : InQueue(r) <=> InQueue(r)' \/ r \in Srcs(t.batch)
  BY <1>1, <1>4 DEF InQueue
<1>8. \A r \in Srcs(t.batch) : r \in Srcs(gates[k].queue) /\ ~(\E l \in Keys : r \in Srcs(gates'[l].queue))
  <2>1. \A l \in Keys : l # k => Srcs(gates[k].queue) \cap Srcs(gates[l].queue) = {}
    BY <1>0 DEF PlacesInv, OnePlace
  <2> QED BY <1>1, <1>4, <1>5, <2>1
<1>9. \A r \in Srcs(t.batch) : r \in Sources /\ InQueue(r) /\ ~InTurn(r) /\ ~InQueue(r)'
  <2>1. \A r \in Srcs(t.batch) : r \in Sources /\ InQueue(r)
    BY <1>2, <1>8, QueueTypes DEF InQueue
  <2>2. \A r \in Srcs(t.batch) : ~InQueue(r)'
    BY <1>8 DEF InQueue
  <2> QED BY <1>0, <2>1, <2>2, PlaceFacts
<1>10. PlacesInv'
  <2>1. Places'
    <3>1. \A l \in Keys : \A f \in Elems(gates'[l].queue) : Placed(f, "payload")
      <4>1. \A f \in Elems(gates'[k].queue) : Placed(f, "payload")
        BY <1>1, <1>3
      <4>2. \A l \in Keys : l # k => \A f \in Elems(gates'[l].queue) : Placed(f, "payload")
        BY <1>0, <1>1 DEF PlacesInv, Places
      <4> QED BY <4>1, <4>2
    <3>2. \A u \in turns' : \A f \in Elems(u.batch) : Placed(f, "payload")
      BY <1>0, <1>1, <1>3 DEF PlacesInv, Places
    <3>3. \A f \in settling : Placed(f, "none")
      BY <1>0 DEF PlacesInv, Places
    <3> QED BY <3>1, <3>2, <3>3 DEF Places, Placed
  <2>2. BurstInOrder'
    BY <1>0, <1>1, QueuesOrdered DEF PlacesInv
  <2>3. RunningInLane'
    BY <1>0, <1>6 DEF PlacesInv, RunningInLane
  <2>4. \A m, l \in Keys : m # l => Srcs(gates'[m].queue) \cap Srcs(gates'[l].queue) = {}
    <3>1. \A l \in Keys : Srcs(gates'[l].queue) \subseteq Srcs(gates[l].queue)
      BY <1>1, <1>4
    <3> QED BY <1>0, <3>1 DEF PlacesInv, OnePlace
  <2>5. \A r \in Sources : InLane(r)' => ~InSettling(r)' /\ ~InQueue(r)' /\ ~InTurn(r)'
    BY <1>0, <1>6, <1>7, <1>9 DEF PlacesInv, OnePlace
  <2>6. \A r \in Sources : InQueue(r)' => ~InTurn(r)'
    BY <1>0, <1>6, <1>7, <1>9 DEF PlacesInv, OnePlace
  <2>7. \A u \in turns : Srcs(u.batch) \cap Srcs(t.batch) = {}
    BY <1>9 DEF InTurn
  <2>8. \A u, v \in turns' : u # v => Srcs(u.batch) \cap Srcs(v.batch) = {}
    BY <1>0, <1>1, <2>7 DEF PlacesInv, OnePlace
  <2>9. \A u \in turns' : u.batch # <<>>
    BY <1>0, <1>1 DEF PlacesInv, OnePlace
  <2>10. OnePlace'
    BY <2>4, <2>5, <2>6, <2>8, <2>9 DEF OnePlace
  <2> QED BY <2>1, <2>2, <2>3, <2>10 DEF PlacesInv
<1>11. LockShape' /\ Answering' = Answering
  <2>1. LockShape'
    BY <1>0, <1>1, RecordsKept DEF LockShape, Lead
  <2>2. {u \in turns' : u.pc # "claimed"} = {u \in turns : u.pc # "claimed"}
    BY <1>1
  <2>3. Answering' = Answering
    BY <2>2, RecordsKept DEF Answering
  <2> QED BY <2>1, <2>3
<1>12. RootsInv'
  <2>1. t.root => Cardinality(Roots) < MaxRoots
    <3>1. t.root => ParallelRoot(k)
      BY DEF ClaimsRun
    <3>2. IsFiniteSet(Roots)
      BY <1>0, FS_Subset DEF RootsInv, Roots
    <3>3. Cardinality(Roots) \in Nat /\ MaxRoots \in Nat
      BY <3>2, FS_CardinalityType, IngressAssumption
    <3> QED BY <3>1, <3>3 DEF AtCapacity
  <2> QED BY <1>0, <1>1, <2>1, RootsAdd
<1>13. \A r \in Sources : (Holds(r)' <=> Holds(r)) /\ (Announced(r) => Announced(r)')
  <2>1. ASSUME NEW r \in Sources
        PROVE  (Holds(r)' <=> Holds(r)) /\ (Announced(r) => Announced(r)')
    <3>1. (\E u \in turns : u.pc = "queue" /\ r = Lead(u)) => (\E u \in turns : u.pc = "queue" /\ r = Lead(u))'
      BY <1>1 DEF Lead
    <3>2. Loaded(r)' <=> Loaded(r)
      BY <1>6 DEF Loaded
    <3> QED BY <1>6, <1>7, <1>9, <3>1, <3>2 DEF Holds, Announced
  <2> QED BY <2>1
<1> QED BY <1>1, <1>10, <1>11, <1>12, <1>13, MoveFlow

LEMMA GateFlow ==
    ASSUME TypeOK, LanesInv, Flow, NEW k \in Keys, Gate(k)
    PROVE  Flow' /\ gates' \in [Keys -> GateEntries] /\ turns' \subseteq Batches
<1>0. PlacesInv /\ Drained /\ Stamps /\ Places
  BY DEF Flow, LanesInv, PlacesInv
<1>1. /\ GateIdles \/ GateClaims(k)
      /\ UNCHANGED <<traffic, pc, clock, slot, lanes, settling, ready, claims, completed, notices, locks, faults>>
  BY <1>0, GateEffect
<1>2. CASE GateIdles
  BY <1>1, <1>2, GateIdleFlow DEF GateIdles, TypeOK
<1>3. CASE GateClaims(k)
  <2>1. PICK r \in 1..Len(gates[k].queue) :
           ClaimFront(k, r) /\ (ParallelRoot(k) /\ IsNormal(Head(gates[k].queue)) => ~AtCapacity(k))
    BY <1>3 DEF GateClaims
  <2>2. Ordered(gates[k].queue)
    BY <1>0, QueuesOrdered DEF PlacesInv
  <2>3. PICK t : ClaimsRun(k, t)
    BY <1>0, <2>1, <2>2, ClaimFrontEffect
  <2>4. t.root => ~AtCapacity(k)
    BY <2>1, <2>3 DEF ClaimsRun
  <2>5. Flow'
    BY <1>1, <2>3, <2>4, GateClaimFlow
  <2> QED BY <2>3, <2>5 DEF ClaimsRun, TypeOK
<1> QED BY <1>1, <1>2, <1>3

-----------------------------------------------------------------------------
(* Steps of a batch.                                                       *)

\* The batch goes on (N is the batch at its next place) or ends (N is empty).
Turned(t, N) ==
    /\ turns' = (turns \ {t}) \cup N
    /\ \A u \in N : /\ u \in Batches /\ u.batch = t.batch /\ u.key = t.key /\ u.root = t.root
                    /\ u.pc # "claimed" /\ (u.pc \in InDispatch => t.pc \in InDispatch)
    /\ \A u, v \in N : u = v

LEMMA MoveTurns ==
    ASSUME TypeOK, NEW t \in turns, NEW where \in {"prepare", "task", "queue", "run"}, Move(t, where),
           t.pc \in InDispatch
    PROVE  \E u : Turned(t, {u}) /\ u.pc = where
<1> DEFINE u == [t EXCEPT !.pc = where]
<1>1. turns' = (turns \ {t}) \cup {u}
  BY DEF Move
<1>2. t \in Batches
  BY TurnTypes
<1>3. u \in Batches /\ u.batch = t.batch /\ u.key = t.key /\ u.root = t.root /\ u.pc = where
  BY <1>2 DEF Batches, InDispatch
<1> HIDE DEF u
<1> QED BY <1>1, <1>3 DEF Turned

LEMMA GoneTurns ==
    ASSUME NEW t, turns' = turns \ {t}
    PROVE  Turned(t, {})
  BY DEF Turned

\* What a step of a batch leaves alone.
BatchQuiet == UNCHANGED <<traffic, clock, slot, lanes, settling, ready, gates>>

\* Where the events are after the step.
LEMMA TurnedPlaces ==
    ASSUME TypeOK, LanesInv, PlacesInv, NEW t \in turns, NEW N, Turned(t, N), BatchQuiet,
           \/ pc' = pc
           \/ N = {} /\ \E where : pc' = [s \in Sources |-> IF s \in Srcs(t.batch) THEN where ELSE pc[s]]
    PROVE  /\ PlacesInv'
           /\ \A r \in Sources : /\ InLane(r)' <=> InLane(r)
                                 /\ InQueue(r)' <=> InQueue(r)
                                 /\ InTurn(r)' <=> InTurn(r) /\ (N # {} \/ r \notin Srcs(t.batch))
                                 /\ InClaimed(r)' <=> InClaimed(r) /\ ~(t.pc = "claimed" /\ r \in Srcs(t.batch))
<1>1. /\ turns' = (turns \ {t}) \cup N
      /\ \A u \in N : u.batch = t.batch /\ u.pc # "claimed"
      /\ \A u, v \in N : u = v
  BY DEF Turned
<1>2. UNCHANGED <<traffic, clock, slot, lanes, settling, ready, gates>>
  BY DEF BatchQuiet
<1>3. \A u \in turns : u # t => Srcs(u.batch) \cap Srcs(t.batch) = {}
  BY DEF PlacesInv, OnePlace
<1>4. \A r \in Sources : (InLane(r)' <=> InLane(r)) /\ (InQueue(r)' <=> InQueue(r)) /\ (InSettling(r)' <=> InSettling(r))
  BY <1>2 DEF InLane, InQueue, InSettling
<1>5. ASSUME NEW r \in Sources
      PROVE  InTurn(r)' <=> InTurn(r) /\ (N # {} \/ r \notin Srcs(t.batch))
  BY <1>1, <1>3 DEF InTurn
<1>6. ASSUME NEW r \in Sources
      PROVE  InClaimed(r)' <=> InClaimed(r) /\ ~(t.pc = "claimed" /\ r \in Srcs(t.batch))
  BY <1>1, <1>3 DEF InClaimed
<1>7. \A u \in turns' : \E v \in turns : u.batch = v.batch
  BY <1>1
<1>8. \A u, v \in turns' : u # v => Srcs(u.batch) \cap Srcs(v.batch) = {}
  <2>1. ASSUME NEW u \in turns', NEW v \in turns', u # v
        PROVE  Srcs(u.batch) \cap Srcs(v.batch) = {}
    <3>1. (u \in turns /\ u # t) \/ u \in N
      BY <1>1
    <3>2. (v \in turns /\ v # t) \/ v \in N
      BY <1>1
    <3>3. CASE u \in turns /\ u # t /\ v \in turns /\ v # t
      BY <2>1, <3>3 DEF PlacesInv, OnePlace
    <3>4. CASE u \in turns /\ u # t /\ v \in N
      BY <1>1, <1>3, <3>4
    <3>5. CASE u \in N /\ v \in turns /\ v # t
      BY <1>1, <1>3, <3>5
    <3> QED BY <1>1, <2>1, <3>1, <3>2, <3>3, <3>4, <3>5
  <2> QED BY <2>1
<1>9. \A r \in Sources : Somewhere(r)' => pc'[r] = pc[r]
  <2>1. CASE pc' = pc
    BY <2>1
  <2>2. CASE N = {} /\ \E where : pc' = [s \in Sources |-> IF s \in Srcs(t.batch) THEN where ELSE pc[s]]
    <3>1. \A r \in Srcs(t.batch) : r \in Sources => ~Somewhere(r)'
      <4>1. \A r \in Srcs(t.batch) : r \in Sources => InTurn(r)
        BY DEF InTurn
      <4>2. \A r \in Srcs(t.batch) : r \in Sources => ~InQueue(r) /\ ~InSettling(r)
        BY <4>1, PlaceFacts
      <4>3. \A r \in Srcs(t.batch) : r \in Sources => ~InTurn(r)'
        BY <1>5, <2>2
      <4> QED BY <1>4, <4>2, <4>3 DEF Somewhere
    <3> QED BY <2>2, <3>1
  <2> QED BY <2>1, <2>2
<1>10. \A r \in Sources : ready'[r] = "running" => InLane(r)'
  BY <1>2, <1>4, PlaceFacts
<1>11. PlacesInv'
  BY <1>2, <1>4, <1>7, <1>8, <1>9, <1>10, PlacesKept
<1> QED BY <1>4, <1>5, <1>6, <1>11

LEMMA TurnedRoots ==
    ASSUME RootsInv, NEW t \in turns, NEW N, Turned(t, N)
    PROVE  RootsInv'
<1>0. MaxRoots \in Nat /\ IsFiniteSet(turns) /\ Cardinality(Roots) <= MaxRoots
  BY IngressAssumption DEF RootsInv, RootsBounded
<1>1. /\ turns' = (turns \ {t}) \cup N
      /\ \A u \in N : u.root = t.root /\ (u.pc \in InDispatch => t.pc \in InDispatch)
      /\ \A u, v \in N : u = v
  BY DEF Turned
<1>2. IsFiniteSet(Roots) /\ Roots \subseteq turns
  BY <1>0, FS_Subset DEF Roots
<1>3. Cardinality(Roots) \in Nat
  BY <1>2, FS_CardinalityType
<1>4. IsFiniteSet(turns \ {t})
  BY <1>0, FS_Subset
<1>5. CASE N = {}
  <2>1. IsFiniteSet(turns') /\ Roots' \subseteq Roots
    BY <1>1, <1>4, <1>5 DEF Roots
  <2>2. IsFiniteSet(Roots') /\ Cardinality(Roots') <= Cardinality(Roots)
    BY <1>2, <2>1, FS_Subset
  <2>3. Cardinality(Roots') \in Nat
    BY <2>2, FS_CardinalityType
  <2>4. Cardinality(Roots') <= MaxRoots
    BY <1>0, <1>3, <2>2, <2>3
  <2> QED BY <2>1, <2>4 DEF RootsInv, RootsBounded
<1>6. CASE N # {}
  <2>1. PICK u \in N : N = {u}
    BY <1>1, <1>6
  <2>2. turns' = (turns \ {t}) \cup {u} /\ u.root = t.root /\ (u.pc \in InDispatch => t.pc \in InDispatch)
    BY <1>1, <2>1
  <2>3. IsFiniteSet(turns')
    BY <1>4, <2>2, FS_AddElement
  <2>4. CASE t \in Roots
    <3>1. IsFiniteSet(Roots \ {t}) /\ Cardinality(Roots \ {t}) = Cardinality(Roots) - 1
      BY <1>2, <2>4, FS_RemoveElement
    <3> DEFINE R == (Roots \ {t}) \cup {u}
    <3>2. IsFiniteSet(R) /\ Cardinality(R) \in {Cardinality(Roots \ {t}), Cardinality(Roots \ {t}) + 1}
      BY <3>1, FS_AddElement
    <3>3. Roots' \subseteq R
      BY <2>2 DEF Roots
    <3> HIDE DEF R
    <3>4. IsFiniteSet(Roots') /\ Cardinality(Roots') <= Cardinality(R)
      BY <3>2, <3>3, FS_Subset
    <3>5. Cardinality(Roots') \in Nat
      BY <3>4, FS_CardinalityType
    <3>6. Cardinality(Roots') <= MaxRoots
      BY <1>0, <1>3, <3>1, <3>2, <3>4, <3>5
    <3> QED BY <2>3, <3>6 DEF RootsInv, RootsBounded
  <2>5. CASE t \notin Roots
    <3>1. Roots' \subseteq Roots
      BY <2>2, <2>5 DEF Roots
    <3>2. IsFiniteSet(Roots') /\ Cardinality(Roots') <= Cardinality(Roots)
      BY <1>2, <3>1, FS_Subset
    <3>3. Cardinality(Roots') \in Nat
      BY <3>2, FS_CardinalityType
    <3>4. Cardinality(Roots') <= MaxRoots
      BY <1>0, <1>3, <3>2, <3>3
    <3> QED BY <2>3, <3>4 DEF RootsInv, RootsBounded
  <2> QED BY <2>4, <2>5
<1> QED BY <1>5, <1>6

\* The events of a batch hold their claims one by one until the batch takes them over.
Handing(t) == IF t.pc = "claimed" THEN Srcs(t.batch) ELSE {}

\* What a batch may give up is its own: the claims of its members and its own claim.
Own(t) == Members(Srcs(t.batch)) \cup {BatchRecord(t)}

LEMMA OwnClaims ==
    ASSUME TypeOK, PlacesInv, NEW t \in turns
    PROVE  /\ Members(Handing(t)) \cup {BatchRecord(t)} \subseteq Own(t)
           /\ Members(Holders \ Handing(t)) \cap Own(t) = {}
           /\ (Answering \ {BatchRecord(t)}) \cap Own(t) = {}
           /\ Handing(t) \subseteq Holders
           /\ t.pc = "claimed" => BatchRecord(t) \notin Answering
           /\ t.pc # "claimed" => BatchRecord(t) \in Answering
           /\ \A r \in Holders : BatchRecord(t) = Record({r}) => r \in Handing(t)
<1> DEFINE S == Srcs(t.batch)
           B == BatchRecord(t)
           own == Own(t)
<1>9. own = Members(S) \cup {B} /\ B = Record(S)
  BY DEF Own, BatchRecord
<1>10. \A s, r : (Record({s}) = Record({r}) => s = r) /\ (Record({s}) = Record(S) => {s} = S)
  BY RecordFacts
<1> HIDE DEF own
<1>0. S \subseteq Sources /\ S # {} /\ B.sources = S /\ \A s : Record({s}).sources = {s}
  BY TurnsApart, RecordFacts DEF BatchRecord
<1>1. Members(Handing(t)) \subseteq Members(S)
  BY DEF Members, Handing
<1>2. \A r \in Holders : r \in S => r \in Handing(t)
  BY HoldersApart DEF Handing
<1>3. \A r \in Holders : r \notin Handing(t) => Record({r}) \notin own
  <2>1. ASSUME NEW r \in Holders, r \notin S
        PROVE  Record({r}) # B /\ Record({r}) \notin Members(S)
    BY <1>9, <1>10, <2>1 DEF Members
  <2> QED BY <1>2, <1>9, <2>1
<1>4. \A c \in Answering : c \in own => c = B
  <2>1. ASSUME NEW u \in turns, BatchRecord(u) \in Members(S)
        PROVE  u = t
    <3>1. PICK s \in S : BatchRecord(u) = Record({s})
      BY <2>1 DEF Members
    <3>2. BatchRecord(u).sources = Srcs(u.batch)
      BY RecordFacts DEF BatchRecord
    <3>3. {s} = Srcs(u.batch)
      BY <3>1, <3>2, RecordFacts
    <3> QED BY <3>3, TurnsApart
  <2>2. \A c \in Answering : \E u \in turns : c = BatchRecord(u)
    BY DEF Answering
  <2> QED BY <1>9, <2>1, <2>2
<1>5. ASSUME t.pc = "claimed"
      PROVE  Handing(t) \subseteq Holders /\ B \notin Answering
  <2>1. \A s \in S : Holds(s)
    BY <1>5 DEF Holds, InClaimed
  <2>2. ASSUME NEW u \in turns, u.pc # "claimed", B = BatchRecord(u)
        PROVE  FALSE
    BY <1>5, <2>2, TurnsApart
  <2> QED BY <1>0, <2>1, <2>2 DEF Handing, Holders, Answering
<1>6. t.pc # "claimed" => Handing(t) = {} /\ B \in Answering
  BY DEF Handing, Answering
<1>7. \A r \in Holders : B = Record({r}) => r \in Handing(t)
  BY <1>0, <1>2
<1>8. Members(Holders \ Handing(t)) \cap own = {}
  BY <1>3 DEF Members
<1> QED BY <1>1, <1>4, <1>5, <1>6, <1>7, <1>8, <1>9 DEF own

LEMMA TurnedAnswering ==
    ASSUME TypeOK, PlacesInv, NEW t \in turns, NEW N, Turned(t, N), traffic' = traffic
    PROVE  Answering' = (Answering \ {BatchRecord(t)}) \cup {BatchRecord(u) : u \in N}
<1>1. /\ turns' = (turns \ {t}) \cup N
      /\ \A u \in N : u.batch = t.batch /\ u.pc # "claimed"
  BY DEF Turned
<1>2. Answering' = {BatchRecord(u) : u \in {v \in turns' : v.pc # "claimed"}}
  BY RecordsKept DEF Answering
<1>3. {v \in turns' : v.pc # "claimed"} = ({v \in turns : v.pc # "claimed"} \ {t}) \cup N
  BY <1>1
<1>4. \A u \in turns : BatchRecord(u) = BatchRecord(t) => u = t
  BY TurnsApart
<1>5. {BatchRecord(u) : u \in {v \in turns : v.pc # "claimed"} \ {t}} = Answering \ {BatchRecord(t)}
  BY <1>4 DEF Answering
<1> QED BY <1>2, <1>3, <1>5

LEMMA TurnedHolders ==
    ASSUME \A r \in Sources : pc'[r] = "resolve" <=> pc[r] = "resolve", ready' = ready, NEW t \in turns, TypeOK, PlacesInv,
           \A r \in Sources : /\ InLane(r)' <=> InLane(r)
                              /\ InQueue(r)' <=> InQueue(r)
                              /\ InClaimed(r)' <=> InClaimed(r) /\ ~(t.pc = "claimed" /\ r \in Srcs(t.batch))
    PROVE  Holders' = Holders \ Handing(t)
<1>1. ASSUME NEW r \in Sources, r \notin Handing(t)
      PROVE  Holds(r)' <=> Holds(r)
  BY <1>1 DEF Holds, Loaded, Handing
<1>2. ASSUME NEW r \in Handing(t)
      PROVE  r \in Sources /\ ~Holds(r)'
  <2>1. t.pc = "claimed" /\ r \in Srcs(t.batch)
    BY <1>2 DEF Handing
  <2>2. r \in Sources /\ InTurn(r)
    BY <2>1, TurnsApart DEF InTurn
  <2>3. pc[r] = "deferred" /\ ~InLane(r) /\ ~InQueue(r)
    BY <2>2, PlaceFacts
  <2> QED BY <2>1, <2>2, <2>3 DEF Holds, Loaded
<1> QED BY <1>1, <1>2 DEF Holders

LEMMA TurnedClaims ==
    ASSUME TypeOK, PlacesInv, ClaimsExact, NEW t \in turns, NEW N, Turned(t, N), traffic' = traffic,
           Holders' = Holders \ Handing(t),
           \/ t.pc = "claimed" /\ N # {} /\ claims' = (claims \ Members(Srcs(t.batch))) \cup {BatchRecord(t)}
           \/ t.pc = "claimed" /\ N = {} /\ claims' = claims \ Members(Srcs(t.batch))
           \/ t.pc # "claimed" /\ N = {} /\ claims' = claims \ {BatchRecord(t)}
           \/ t.pc # "claimed" /\ N # {} /\ claims' = claims
           \/ N = {} /\ claims' = claims \ (Members(Srcs(t.batch)) \cup {BatchRecord(t)})
    PROVE  ClaimsExact'
<1> DEFINE M == Members(Srcs(t.batch))
           B == BatchRecord(t)
           own == Own(t)
           fresh == {BatchRecord(u) : u \in N}
<1>1. /\ Members(Handing(t)) \cup {B} \subseteq own
      /\ Members(Holders \ Handing(t)) \cap own = {}
      /\ (Answering \ {B}) \cap own = {}
      /\ t.pc = "claimed" => B \notin Answering
      /\ t.pc # "claimed" => B \in Answering
      /\ \A r \in Holders : B = Record({r}) => r \in Handing(t)
  BY OwnClaims
<1>11. own = M \cup {B}
  BY DEF Own
<1>2. claims = Members(Holders) \cup Answering
  BY DEF ClaimsExact
<1>3. Members(Holders) \subseteq Members(Holders \ Handing(t)) \cup Members(Handing(t))
  BY DEF Members
<1>4. t.pc = "claimed" => claims \ M = claims \ own
  <2> SUFFICES ASSUME t.pc = "claimed" PROVE B \in claims => B \in M
    BY <1>11
  <2>1. Members(Handing(t)) \subseteq M
    BY DEF Handing
  <2>2. B \in Members(Holders) => B \in Members(Handing(t))
    BY <1>1 DEF Members
  <2> QED BY <1>1, <1>2, <2>1, <2>2
<1>5. t.pc # "claimed" => claims \ {B} = claims \ own /\ B \in claims
  <2> SUFFICES ASSUME t.pc # "claimed" PROVE B \in claims /\ \A c \in claims : c \in own => c = B
    BY <1>11
  <2>1. Handing(t) = {} /\ Members({}) = {}
    BY DEF Handing, Members
  <2> QED BY <1>1, <1>2, <1>3, <2>1
<1>6. fresh = IF N = {} THEN {} ELSE {B}
  <2>1. \A u \in N : BatchRecord(u) = B
    BY DEF Turned, BatchRecord
  <2> QED BY <2>1
<1>7. Answering' = (Answering \ {B}) \cup fresh
  BY TurnedAnswering
<1>8. claims' = (claims \ own) \cup fresh
  <2> HIDE DEF M, B, own, fresh
  <2>1. own = M \cup {B}
    BY <1>11
  <2>2. \/ t.pc = "claimed" /\ N # {} /\ claims' = (claims \ M) \cup {B}
        \/ t.pc = "claimed" /\ N = {} /\ claims' = claims \ M
        \/ t.pc # "claimed" /\ N = {} /\ claims' = claims \ {B}
        \/ t.pc # "claimed" /\ N # {} /\ claims' = claims
        \/ N = {} /\ claims' = claims \ (M \cup {B})
    BY DEF M, B
  <2> QED BY <1>4, <1>5, <1>6, <2>1, <2>2
<1>9. Members({}) = {}
  BY DEF Members
<1>10. ClaimFlow(Handing(t), {}, {B}, fresh, own)
  <2> HIDE DEF M, B, own, fresh
  <2> QED BY <1>1, <1>7, <1>8, <1>9 DEF ClaimFlow
<1> HIDE DEF M, B, own, fresh
<1> QED BY <1>10, ClaimsFlow

\* An announcement ends only with the batch or the wait it stands for.
LEMMA TurnedNotices ==
    ASSUME TypeOK, PlacesInv, NEW t \in turns, NEW N, Turned(t, N), ready' = ready,
           \A r \in Sources : /\ InLane(r)' <=> InLane(r)
                              /\ InQueue(r)' <=> InQueue(r)
                              /\ InClaimed(r)' <=> InClaimed(r) /\ ~(t.pc = "claimed" /\ r \in Srcs(t.batch)),
           NEW r \in Sources, Announced(r),
           t.pc = "claimed" => r \notin Srcs(t.batch), t.pc = "queue" => r # Lead(t)
    PROVE  Announced(r)'
<1>1. CASE Loaded(r) \/ InQueue(r)
  BY <1>1 DEF Announced, Loaded
<1>2. CASE InClaimed(r)
  BY <1>2 DEF Announced
<1>3. CASE \E u \in turns : u.pc = "queue" /\ r = Lead(u)
  <2>1. PICK u \in turns : u.pc = "queue" /\ r = Lead(u)
    BY <1>3
  <2>2. u # t
    BY <2>1
  <2>3. u \in turns'
    BY <2>2 DEF Turned
  <2> QED BY <2>1, <2>3 DEF Announced, Lead
<1> QED BY <1>1, <1>2, <1>3 DEF Announced

LockTypes == locks \in [Conversations -> Seq(Sources)]

\* The lock of a conversation: the line of the other batches is as it was, and heads stay heads.
LockLine(t) ==
    /\ LockTypes'
    /\ \A u \in turns : u # t /\ u.pc \in {"queue", "run"} =>
        /\ Lead(u) \in Elems(locks'[Conversation(u)])
        /\ u.pc = "run" => Head(locks'[Conversation(u)]) = Lead(u)

LEMMA LineKept ==
    ASSUME TypeOK, PlacesInv, LockShape, NEW t \in turns, locks' = locks
    PROVE  LockLine(t)
  BY DEF LockLine, LockShape, LockTypes, TypeOK

\* One line of one conversation changes to p.
LEMMA LineChanged ==
    ASSUME TypeOK, PlacesInv, LockShape, NEW t \in turns, NEW p \in Seq(Sources),
           locks' = [locks EXCEPT ![Conversation(t)] = p],
           \A s \in Elems(locks[Conversation(t)]) : s # Lead(t) => s \in Elems(p),
           Head(locks[Conversation(t)]) # Lead(t) /\ locks[Conversation(t)] # <<>> => Head(p) = Head(locks[Conversation(t)])
    PROVE  LockLine(t) /\ locks'[Conversation(t)] = p
<1>1. Conversation(t) \in Conversations /\ locks \in [Conversations -> Seq(Sources)]
  BY TurnsApart DEF TypeOK
<1>2. /\ LockTypes' /\ locks'[Conversation(t)] = p
      /\ \A c \in Conversations : c # Conversation(t) => locks'[c] = locks[c]
  BY <1>1 DEF LockTypes
<1>3. ASSUME NEW u \in turns, u # t, u.pc \in {"queue", "run"}
      PROVE  Lead(u) \in Elems(locks'[Conversation(u)]) /\ (u.pc = "run" => Head(locks'[Conversation(u)]) = Lead(u))
  <2>1. Conversation(u) \in Conversations /\ Lead(u) # Lead(t)
    BY <1>3, TurnsApart
  <2>2. Lead(u) \in Elems(locks[Conversation(u)]) /\ (u.pc = "run" => Head(locks[Conversation(u)]) = Lead(u))
    BY <1>3 DEF LockShape
  <2>3. CASE Conversation(u) # Conversation(t)
    BY <1>2, <2>1, <2>2, <2>3
  <2>4. CASE Conversation(u) = Conversation(t)
    <3>1. locks[Conversation(t)] # <<>>
      BY <2>2, <2>4 DEF Elems
    <3> QED BY <1>2, <2>1, <2>2, <2>4, <3>1
  <2> QED BY <2>3, <2>4
<1> QED BY <1>2, <1>3 DEF LockLine

LEMMA LineJoined ==
    ASSUME TypeOK, PlacesInv, LockShape, NEW t \in turns,
           locks' = [locks EXCEPT ![Conversation(t)] = Append(@, Lead(t))]
    PROVE  LockLine(t) /\ Lead(t) \in Elems(locks'[Conversation(t)])
<1> DEFINE c == Conversation(t)
           q == locks[c]
           p == Append(q, Lead(t))
<1>1. c \in Conversations /\ q \in Seq(Sources) /\ Lead(t) \in Sources
  BY TurnsApart DEF TypeOK
<1>2. p = Append(q, Lead(t)) /\ locks' = [locks EXCEPT ![c] = p]
  OBVIOUS
<1> HIDE DEF p, q, c
<1>3. Appended(Sources, q, Lead(t), p)
  BY <1>1, <1>2, AppendFacts, Zenon
<1>4. p \in Seq(Sources) /\ Elems(p) = Elems(q) \cup {Lead(t)} /\ (q # <<>> => Head(p) = Head(q))
  BY <1>3 DEF Appended
<1>5. LockLine(t) /\ locks'[Conversation(t)] = p
  BY <1>2, <1>4, LineChanged DEF c, q
<1> QED BY <1>4, <1>5

LEMMA LineLeft ==
    ASSUME TypeOK, PlacesInv, LockShape, NEW t \in turns,
           \/ t.pc = "run" /\ locks' = [locks EXCEPT ![Conversation(t)] = Tail(@)]
           \/ locks' = [locks EXCEPT ![Conversation(t)] = RemoveFirst(@, Lead(t))]
    PROVE  LockLine(t)
<1> DEFINE c == Conversation(t)
           q == locks[c]
<1>1. c \in Conversations /\ q \in Seq(Sources) /\ Lead(t) \in Sources
  BY TurnsApart DEF TypeOK
<1>2. CASE t.pc = "run" /\ locks' = [locks EXCEPT ![Conversation(t)] = Tail(@)]
  <2> DEFINE p == Tail(q)
  <2>1. Lead(t) \in Elems(q) /\ Head(q) = Lead(t)
    BY <1>2 DEF LockShape
  <2>2. q # <<>>
    BY <2>1 DEF Elems
  <2>3. p = Tail(q) /\ locks' = [locks EXCEPT ![c] = p]
    BY <1>2
  <2> HIDE DEF p, q, c
  <2>4. p \in Seq(Sources) /\ Elems(q) = Elems(p) \cup {Head(q)}
    BY <1>1, <2>2, <2>3, PopFacts
  <2> QED BY <2>1, <2>3, <2>4, LineChanged DEF c, q
<1>3. CASE locks' = [locks EXCEPT ![Conversation(t)] = RemoveFirst(@, Lead(t))]
  <2> DEFINE p == RemoveFirst(q, Lead(t))
  <2>1. p = RemoveFirst(q, Lead(t)) /\ locks' = [locks EXCEPT ![c] = p]
    BY <1>3
  <2> HIDE DEF p, q, c
  <2>2. /\ p \in Seq(Sources)
        /\ q # <<>> /\ Head(q) # Lead(t) => p # <<>> /\ Head(p) = Head(q)
        /\ \A e \in Elems(q) : e # Lead(t) => e \in Elems(p)
    BY <1>1, <2>1, RemoveFacts
  <2> QED BY <2>1, <2>2, LineChanged DEF c, q
<1> QED BY <1>2, <1>3

LEMMA TurnedLocks ==
    ASSUME NEW t \in turns, LockLine(t), NEW N, Turned(t, N), traffic' = traffic,
           \A u \in N : /\ u.pc \in {"queue", "run"} => Lead(t) \in Elems(locks'[Conversation(t)])
                        /\ u.pc = "run" => Head(locks'[Conversation(t)]) = Lead(t)
    PROVE  LockShape'
<1>1. /\ turns' = (turns \ {t}) \cup N
      /\ \A u \in N : Lead(u) = Lead(t) /\ Conversation(u) = Conversation(t)
  BY DEF Turned, Lead, Conversation
<1>2. \A u \in turns' : /\ u.pc \in {"queue", "run"} => Lead(u) \in Elems(locks'[Conversation(u)])
                        /\ u.pc = "run" => Head(locks'[Conversation(u)]) = Lead(u)
  <2> TAKE u \in turns'
  <2>1. CASE u \in N
    BY <1>1, <2>1
  <2>2. CASE u \in turns /\ u # t
    BY <2>2 DEF LockLine
  <2> QED BY <1>1, <2>1, <2>2
<1> QED BY <1>2, RecordsKept DEF LockShape, Lead

LEMMA TurnedFlow ==
    ASSUME TypeOK, LanesInv, Flow, NEW t \in turns, NEW N, Turned(t, N), BatchQuiet,
           \/ pc' = pc
           \/ N = {} /\ \E where \in {"done", "offered"} :
                            pc' = [s \in Sources |-> IF s \in Srcs(t.batch) THEN where ELSE pc[s]],
           \/ t.pc = "claimed" /\ N # {} /\ claims' = (claims \ Members(Srcs(t.batch))) \cup {BatchRecord(t)}
           \/ t.pc = "claimed" /\ N = {} /\ claims' = claims \ Members(Srcs(t.batch))
           \/ t.pc # "claimed" /\ N = {} /\ claims' = claims \ {BatchRecord(t)}
           \/ t.pc # "claimed" /\ N # {} /\ claims' = claims
           \/ N = {} /\ claims' = claims \ (Members(Srcs(t.batch)) \cup {BatchRecord(t)}),
           Exclusive', CompletedIsDone', LockLine(t),
           \A u \in N : /\ u.pc \in {"queue", "run"} => Lead(t) \in Elems(locks'[Conversation(t)])
                        /\ u.pc = "run" => Head(locks'[Conversation(t)]) = Lead(t),
           \A r \in notices' : \/ /\ r \in notices
                                  /\ t.pc = "claimed" => r \notin Srcs(t.batch)
                                  /\ t.pc = "queue" => r # Lead(t)
                               \/ r = Lead(t) /\ \E u \in N : u.pc = "queue"
    PROVE  Flow'
<1>0. PlacesInv /\ ClaimsInv /\ NoticeShape /\ Drained /\ LockShape /\ RootsInv
  BY DEF Flow
<1>1. UNCHANGED <<traffic, clock, slot, lanes, settling, ready, gates>>
  BY DEF BatchQuiet
<1>2. /\ PlacesInv'
      /\ \A r \in Sources : /\ InLane(r)' <=> InLane(r)
                            /\ InQueue(r)' <=> InQueue(r)
                            /\ InClaimed(r)' <=> InClaimed(r) /\ ~(t.pc = "claimed" /\ r \in Srcs(t.batch))
  BY <1>0, TurnedPlaces
<1>3. \A r \in Sources : pc'[r] = "resolve" <=> pc[r] = "resolve"
  <2>1. \A r \in Sources : r \in Srcs(t.batch) => pc[r] = "deferred"
    <3>1. \A r \in Sources : r \in Srcs(t.batch) => InTurn(r)
      BY DEF InTurn
    <3> QED BY <1>0, <3>1, PlaceFacts
  <2> QED BY <2>1
<1>4. Holders' = Holders \ Handing(t)
  BY <1>0, <1>1, <1>2, <1>3, TurnedHolders
<1>5. ClaimsExact'
  BY <1>0, <1>1, <1>4, TurnedClaims DEF ClaimsInv
<1>6. LockShape'
  BY <1>1, TurnedLocks
<1>7. RootsInv'
  BY <1>0, TurnedRoots
<1>8. Drained'
  BY <1>0, <1>1 DEF Drained
<1>9. ASSUME NEW r \in notices'
      PROVE  Announced(r)'
  <2>1. CASE r = Lead(t) /\ \E u \in N : u.pc = "queue"
    <3>1. PICK u \in N : u.pc = "queue"
      BY <2>1
    <3>2. u \in turns' /\ u.batch = t.batch
      BY DEF Turned
    <3> QED BY <2>1, <3>1, <3>2 DEF Announced, Lead
  <2>2. CASE /\ r \in notices
             /\ t.pc = "claimed" => r \notin Srcs(t.batch)
             /\ t.pc = "queue" => r # Lead(t)
    <3>1. r \in Sources /\ Announced(r)
      BY <1>0, <2>2 DEF TypeOK, NoticeShape
    <3> QED BY <1>0, <1>1, <1>2, <2>2, <3>1, TurnedNotices
  <2> QED BY <1>9, <2>1, <2>2
<1>10. NoticeShape'
  BY <1>9 DEF NoticeShape
<1> QED BY <1>2, <1>5, <1>6, <1>7, <1>8, <1>10 DEF Flow, ClaimsInv

\* The members of a batch hand their claims over to the batch, or the batch is refused.
LEMMA StartFlow ==
    ASSUME TypeOK, LanesInv, Flow, NEW t \in turns, StartTurn(t)
    PROVE  Flow'
<1> DEFINE S == Srcs(t.batch)
<1>0. PlacesInv /\ ClaimsInv /\ LockShape
  BY DEF Flow
<1>1. /\ t.pc = "claimed" /\ BatchQuiet /\ UNCHANGED <<pc, completed, locks>>
      /\ notices' = notices \ S /\ MemberClaims(t) = Members(S)
  BY DEF StartTurn, BatchQuiet, MemberClaims, Members
<1>2. LockLine(t)
  BY <1>0, <1>1, LineKept
<1>3. CompletedIsDone'
  BY <1>0, <1>1, DoneKept
<1>4. CASE CanClaim(claims \ MemberClaims(t), BatchRecord(t)) /\ claims' = Swap(t) /\ Move(t, "prepare")
  <2>1. PICK u : Turned(t, {u}) /\ u.pc = "prepare"
    BY <1>1, <1>4, MoveTurns DEF InDispatch
  <2>2. claims' = (claims \ Members(S)) \cup {BatchRecord(t)}
    BY <1>1, <1>4 DEF Swap
  <2>3. Exclusive'
    <3>1. S # {} /\ \A s \in S : pc[s] # "done"
      <4>1. S # {} /\ S \subseteq Sources /\ \A s \in S : InTurn(s)
        BY <1>0, TurnsApart DEF InTurn
      <4> QED BY <1>0, <4>1, PlaceFacts
    <3>2. CompletedIsDone /\ Exclusive
      BY <1>0 DEF ClaimsInv
    <3> DEFINE r == BatchRecord(t)
               held == claims \ Members(S)
    <3>3. r = Record(S) /\ CanClaim(held, Record(S))
      BY <1>1, <1>4 DEF BatchRecord
    <3> HIDE DEF r, held
    <3>4. \A c \in held \cup completed : c.sources \cap r.sources = {} /\ c.aliases \cap r.aliases = {}
      BY <3>1, <3>2, <3>3, FreshClaim
    <3>5. held \in SUBSET claims /\ claims' = held \cup {r} /\ completed' = completed
      BY <1>1, <2>2 DEF r, held
    <3> QED BY <3>2, <3>4, <3>5, ExclusiveNew
  <2> DEFINE N == {u}
  <2>4. /\ Turned(t, N) /\ N # {} /\ \A v \in N : v.pc = "prepare"
    BY <2>1
  <2> HIDE DEF N
  <2> QED BY <1>1, <1>2, <1>3, <2>2, <2>3, <2>4, TurnedFlow
<1>5. CASE claims' = claims \ MemberClaims(t) /\ turns' = turns \ {t}
  <2>1. Turned(t, {})
    BY <1>5, GoneTurns
  <2>2. claims' = claims \ Members(S)
    BY <1>1, <1>5
  <2>3. Exclusive'
    BY <1>0, <1>1, <2>2, ExclusiveKept DEF ClaimsInv
  <2> QED BY <1>1, <1>2, <1>3, <2>1, <2>2, <2>3, TurnedFlow
<1> QED BY <1>4, <1>5 DEF StartTurn

\* A batch ends: answered, handed on, ignored or failed.
LEMMA EndFlow ==
    ASSUME TypeOK, LanesInv, Flow, NEW t \in turns, Ignore(t) \/ Route(t) \/ Finish(t) \/ TurnFails(t)
    PROVE  Flow'
<1> DEFINE S == Srcs(t.batch)
           B == BatchRecord(t)
<1>0. PlacesInv /\ ClaimsInv /\ LockShape
  BY DEF Flow
<1>1. /\ BatchQuiet /\ turns' = turns \ {t} /\ MemberClaims(t) = Members(S)
      /\ \E where \in {"done", "offered"} : pc' = [s \in Sources |-> IF s \in S THEN where ELSE pc[s]]
      /\ notices' \subseteq notices
  BY DEF Ignore, Route, Settle, Finish, TurnFails, Gone, BatchQuiet, MemberClaims, Members
<1>2. \/ t.pc \in {"prepare", "run"} /\ claims' = claims \ {B} /\ completed' \subseteq completed \cup {B}
          /\ pc' = [s \in Sources |-> IF s \in S THEN "done" ELSE pc[s]]
      \/ /\ claims' = claims \ (Members(S) \cup {B}) /\ completed' = completed
         /\ notices' = notices \ S
  BY <1>1 DEF Ignore, Route, Settle, Finish, TurnFails, Gone
<1>3. \/ locks' = locks
      \/ t.pc = "run" /\ locks' = [locks EXCEPT ![Conversation(t)] = Tail(@)]
      \/ locks' = [locks EXCEPT ![Conversation(t)] = RemoveFirst(@, Lead(t))]
  BY DEF Ignore, Route, Settle, Finish, TurnFails
<1>4. LockLine(t)
  BY <1>0, <1>3, LineKept, LineLeft
<1>5. Turned(t, {})
  BY <1>1, GoneTurns
<1>6. S \subseteq Sources /\ B.sources = S /\ Lead(t) \in S /\ \A s \in S : pc[s] = "deferred"
  <2>1. S \subseteq Sources /\ Lead(t) \in S /\ \A s \in S : InTurn(s)
    BY <1>0, TurnsApart DEF InTurn
  <2> QED BY <1>0, <2>1, PlaceFacts, RecordFacts DEF BatchRecord
<1>7. t.pc # "claimed" => B \in claims
  BY <1>0, OwnClaims DEF ClaimsInv, ClaimsExact
<1>8. Exclusive'
  BY <1>0, <1>2, <1>7, ExclusiveKept DEF ClaimsInv
<1>9. \A s \in Sources : pc[s] = "done" => pc'[s] = "done"
  BY <1>1, <1>6
<1>10. CompletedIsDone'
  <2>1. CASE completed' = completed
    BY <1>0, <1>9, <2>1, DoneKept
  <2>2. CASE completed' \subseteq completed \cup {B} /\ pc' = [s \in Sources |-> IF s \in S THEN "done" ELSE pc[s]]
    <3>1. ASSUME NEW d \in completed', NEW r \in d.sources
          PROVE  pc'[r] = "done"
      <4>1. CASE d = B
        <5>1. r \in S /\ r \in Sources
          BY <1>6, <3>1, <4>1
        <5> QED BY <2>2, <5>1
      <4>2. CASE d \in completed
        <5>1. d \in {Record(T) : T \in SUBSET Sources}
          BY <4>2 DEF TypeOK
        <5>2. r \in Sources
          BY <3>1, <5>1, RecordFacts
        <5>3. pc[r] = "done"
          BY <1>0, <3>1, <4>2 DEF ClaimsInv, CompletedIsDone
        <5> QED BY <1>9, <5>2, <5>3
      <4> QED BY <2>2, <3>1, <4>1, <4>2
    <3> QED BY <3>1 DEF CompletedIsDone
  <2> QED BY <1>2, <2>1, <2>2
<1>11. \A r \in notices' : r \in notices /\ (t.pc = "claimed" => r \notin S) /\ (t.pc = "queue" => r # Lead(t))
  BY <1>1, <1>2, <1>6
<1>12. \/ t.pc # "claimed" /\ claims' = claims \ {B}
       \/ claims' = claims \ (Members(S) \cup {B})
  BY <1>2
<1> QED BY <1>1, <1>4, <1>5, <1>8, <1>10, <1>11, <1>12, TurnedFlow

\* A response is started, waits for the lock of its conversation and gets it.
LEMMA RespondFlow ==
    ASSUME TypeOK, LanesInv, Flow, NEW t \in turns, Respond(t) \/ Begin(t) \/ Acquire(t)
    PROVE  Flow'
<1>0. PlacesInv /\ ClaimsInv /\ LockShape
  BY DEF Flow
<1>1. /\ BatchQuiet /\ UNCHANGED <<pc, claims, completed>>
      /\ t.pc \in {"prepare", "task", "queue"}
  BY DEF Respond, Begin, Acquire, BatchQuiet
<1>2. CompletedIsDone' /\ Exclusive'
  BY <1>0, <1>1, DoneKept, ExclusiveKept DEF ClaimsInv
<1>3. CASE Respond(t)
  <2>1. t.pc = "prepare" /\ Move(t, "task") /\ UNCHANGED <<notices, locks>>
    BY <1>3 DEF Respond
  <2>2. PICK u : Turned(t, {u}) /\ u.pc = "task"
    BY <2>1, MoveTurns DEF InDispatch
  <2>3. LockLine(t)
    BY <1>0, <2>1, LineKept
  <2> DEFINE N == {u}
  <2>4. Turned(t, N) /\ N # {} /\ \A v \in N : v.pc = "task"
    BY <2>2
  <2> HIDE DEF N
  <2> QED BY <1>1, <1>2, <2>1, <2>3, <2>4, TurnedFlow
<1>4. CASE Begin(t)
  <2>1. /\ t.pc = "task" /\ Move(t, "queue") /\ notices' \subseteq notices \cup {Lead(t)}
        /\ locks' = [locks EXCEPT ![Conversation(t)] = Append(@, Lead(t))]
    BY <1>4 DEF Begin
  <2>2. PICK u : Turned(t, {u}) /\ u.pc = "queue"
    BY <2>1, MoveTurns DEF InDispatch
  <2>3. LockLine(t) /\ Lead(t) \in Elems(locks'[Conversation(t)])
    BY <1>0, <2>1, LineJoined
  <2> DEFINE N == {u}
  <2>4. Turned(t, N) /\ N # {} /\ (\A v \in N : v.pc = "queue") /\ (\E v \in N : v.pc = "queue")
    BY <2>2
  <2> HIDE DEF N
  <2>5. \A v \in N : /\ v.pc \in {"queue", "run"} => Lead(t) \in Elems(locks'[Conversation(t)])
                     /\ v.pc = "run" => Head(locks'[Conversation(t)]) = Lead(t)
    BY <2>3, <2>4
  <2>6. \A r \in notices' : \/ /\ r \in notices
                               /\ t.pc = "claimed" => r \notin Srcs(t.batch)
                               /\ t.pc = "queue" => r # Lead(t)
                            \/ r = Lead(t) /\ \E v \in N : v.pc = "queue"
    BY <2>1, <2>4
  <2> QED BY <1>1, <1>2, <2>1, <2>3, <2>4, <2>5, <2>6, TurnedFlow
<1>5. CASE Acquire(t)
  <2>1. /\ t.pc = "queue" /\ Move(t, "run") /\ notices' = notices \ {Lead(t)} /\ locks' = locks
        /\ Head(locks[Conversation(t)]) = Lead(t)
    BY <1>5 DEF Acquire
  <2>2. PICK u : Turned(t, {u}) /\ u.pc = "run"
    BY <2>1, MoveTurns DEF InDispatch
  <2>3. LockLine(t) /\ Lead(t) \in Elems(locks'[Conversation(t)])
    BY <1>0, <2>1, LineKept DEF LockShape
  <2> DEFINE N == {u}
  <2>4. Turned(t, N) /\ N # {} /\ \A v \in N : v.pc = "run"
    BY <2>2
  <2> HIDE DEF N
  <2>5. \A v \in N : /\ v.pc \in {"queue", "run"} => Lead(t) \in Elems(locks'[Conversation(t)])
                     /\ v.pc = "run" => Head(locks'[Conversation(t)]) = Lead(t)
    BY <2>1, <2>3
  <2>6. \A r \in notices' : \/ /\ r \in notices
                               /\ t.pc = "claimed" => r \notin Srcs(t.batch)
                               /\ t.pc = "queue" => r # Lead(t)
                            \/ r = Lead(t) /\ \E v \in N : v.pc = "queue"
    BY <2>1
  <2> QED BY <1>1, <1>2, <2>1, <2>3, <2>4, <2>5, <2>6, TurnedFlow
<1> QED BY <1>3, <1>4, <1>5

-----------------------------------------------------------------------------
(* All steps.                                                              *)

LEMMA FlowStep ==
    ASSUME TypeOK, LanesInv, Flow, [Next]_vars
    PROVE  Flow'
<1>0. traffic' = traffic /\ pc \in [Sources -> LaneStates] /\ slot \in [Sources -> Nat]
  BY TrafficSame, StampTypes
<1>1. ASSUME NEW s \in Sources, Precheck(s)
      PROVE  Flow'
  <2>1. /\ pc[s] = "offered" /\ pc'[s] # "resolve" /\ claims' = claims
        /\ \A r \in Sources : r # s => pc'[r] = pc[r] /\ slot'[r] = slot[r]
        /\ UNCHANGED <<traffic, lanes, settling, ready, completed, notices, gates, turns, locks>>
    BY <1>0, <1>1 DEF Precheck, Goto
  <2>2. \A r \in Sources : InLane(r)' <=> InLane(r)
    BY <2>1 DEF InLane
  <2> QED BY <2>1, <2>2, HandlerFlow
<1>2. ASSUME NEW s \in Sources, ClaimLive(s)
      PROVE  Flow'
  <2>1. /\ pc[s] = "prechecked" /\ UNCHANGED <<traffic, slot, settling, ready, completed, notices, gates, turns, locks>>
        /\ \/ pc' = [pc EXCEPT ![s] = "contended"] /\ claims' = claims
           \/ pc' = [pc EXCEPT ![s] = "resolve"] /\ CanClaim(claims, Record({s})) /\ claims' = claims \cup {Record({s})}
    BY <1>2 DEF ClaimLive, Contend, Goto
  <2>2. \A r \in Sources : InLane(r)' <=> InLane(r)
    BY <1>0, <1>2, ClaimLiveLanes
  <2>3. /\ \A r \in Sources : r # s => pc'[r] = pc[r] /\ slot'[r] = slot[r]
        /\ \/ pc'[s] # "resolve" /\ claims' = claims
           \/ pc'[s] = "resolve" /\ CanClaim(claims, Record({s})) /\ claims' = claims \cup {Record({s})}
    BY <1>0, <2>1
  <2> QED BY <2>1, <2>2, <2>3, HandlerFlow
<1>3. ASSUME NEW s \in Sources, ClaimAgain(s)
      PROVE  Flow'
  <2>1. /\ pc[s] = "contended" /\ UNCHANGED <<traffic, settling, ready, completed, notices, gates, turns, locks>>
        /\ slot' = slot \/ \E n : slot' = [slot EXCEPT ![s] = n]
        /\ \/ pc' = [pc EXCEPT ![s] = "done"] /\ claims' = claims
           \/ pc' = [pc EXCEPT ![s] = "resolve"] /\ CanClaim(claims, Record({s})) /\ claims' = claims \cup {Record({s})}
    BY <1>3 DEF ClaimAgain, KeepSlots, Goto
  <2>2. \A r \in Sources : InLane(r)' <=> InLane(r)
    BY <1>0, <1>3, ClaimAgainLanes
  <2>3. /\ \A r \in Sources : r # s => pc'[r] = pc[r] /\ slot'[r] = slot[r]
        /\ \/ pc'[s] # "resolve" /\ claims' = claims
           \/ pc'[s] = "resolve" /\ CanClaim(claims, Record({s})) /\ claims' = claims \cup {Record({s})}
    BY <1>0, <2>1
  <2> QED BY <2>1, <2>2, <2>3, HandlerFlow
<1>4. ASSUME NEW s \in Sources, Consume(s) \/ Command(s) \/ ResolveFails(s)
      PROVE  Flow'
  BY <1>4, LeaveFlow DEF Consume, Command, ResolveFails
<1>5. ASSUME NEW s \in Sources, HandlerStep(s)
      PROVE  Flow'
  BY <1>1, <1>2, <1>3, <1>4, <1>5, SubmitFlow DEF HandlerStep
<1>6. ASSUME NEW t \in turns, BatchStep(t)
      PROVE  Flow'
  BY <1>6, StartFlow, EndFlow, RespondFlow DEF BatchStep
<1>7. CASE UNCHANGED vars
  <2>1. UNCHANGED <<traffic, pc, slot, lanes, settling, ready, claims, completed, notices, gates, turns, locks>>
    BY <1>7 DEF vars
  <2>2. \A r \in Sources : InLane(r)' <=> InLane(r)
    BY <2>1 DEF InLane
  <2> QED BY <2>1, <2>2, QuietFlow
<1>8. ASSUME NEW s \in Sources, Reoffer(s)
      PROVE  Flow'
  <2>1. /\ pc[s] = "deferred" /\ pc' = [pc EXCEPT ![s] = "offered"]
        /\ UNCHANGED <<traffic, ready, claims, completed, notices, gates, turns, locks, slot, lanes, settling>>
        /\ ~InSettling(s) /\ ~InGate(s) /\ ~InTurn(s)
    BY <1>8 DEF Reoffer, HasLiveOwner, Goto
  <2>2. \A r \in Sources : InLane(r)' <=> InLane(r)
    BY <2>1 DEF InLane
  <2>3. ~Somewhere(s)'
    BY <2>1 DEF Somewhere, InSettling, InQueue, InGate, InTurn
  <2>4. \A r \in Sources : pc'[r] # pc[r] => r = s /\ pc'[r] # "resolve"
    BY <1>0, <2>1
  <2> QED BY <2>1, <2>2, <2>3, <2>4, QuietFlow
<1> QED BY <1>5, <1>6, <1>7, <1>8, StepCases, VoiceFlow, SettleFlow, LaneFlow, GateFlow

Records == {Record(S) : S \in SUBSET Sources}

\* The types of what is not a handler or a lane.
FlowTypes ==
    /\ settling \subseteq Queued
    /\ ready \in [Sources -> {"none", "running", "payload", "failed"}]
    /\ claims \cup completed \subseteq Records
    /\ notices \subseteq Sources
    /\ gates \in [Keys -> GateEntries]
    /\ turns \subseteq Batches
    /\ LockTypes
    /\ faults \in 0..MaxFaults

LEMMA SplitTypes ==
    /\ TypeOK <=> traffic \in Traffics /\ LaneTypes1 /\ FlowTypes
    /\ TypeOK' <=> traffic' \in Traffics /\ LaneTypes1' /\ FlowTypes'
  BY DEF TypeOK, LaneTypes1, LaneStates, FlowTypes, LockTypes, Records

LEMMA RecordTypes ==
    ASSUME traffic' = traffic
    PROVE  /\ Records' = Records /\ MaxFaults' = MaxFaults
           /\ \A s \in Sources : Record({s}) \in Records
           /\ \A S \in SUBSET Sources : Record(S) \in Records
<1>1. \A S : Record(S)' = Record(S)
  BY TrafficKept
<1> QED BY <1>1, TrafficKept DEF Records

LEMMA TypesStep ==
    ASSUME TypeOK, LanesInv, Flow, [Next]_vars
    PROVE  TypeOK'
<1>0. /\ traffic' = traffic /\ traffic' \in Traffics /\ MaxFaults \in Nat
      /\ PlacesInv /\ ClaimsInv /\ LockShape
  BY TrafficSame, TrafficTypes DEF TypeOK, Flow
<1>1. LaneTypes1'
  BY <1>0, LanesStep
<1>2. /\ Records' = Records /\ MaxFaults' = MaxFaults
      /\ \A s \in Sources : Record({s}) \in Records
      /\ \A S \in SUBSET Sources : Record(S) \in Records
  BY <1>0, RecordTypes
<1>3. FlowTypes
  BY SplitTypes
<1>4. faults \in Nat /\ (faults < MaxFaults => faults + 1 \in 0..MaxFaults)
  BY <1>0, <1>3 DEF FlowTypes
<1>5. ASSUME NEW s \in Sources, HandlerStep(s)
      PROVE  FlowTypes'
  <2>1. UNCHANGED <<settling, gates, turns, locks>>
    BY <1>5 DEF HandlerStep, Precheck, ClaimLive, ClaimAgain, Submit, Consume, Command, ResolveFails, Leave
  <2>2. ready' \in [Sources -> {"none", "running", "payload", "failed"}]
    BY <1>3, <1>5 DEF HandlerStep, Precheck, ClaimLive, ClaimAgain, Submit, Consume, Command, ResolveFails, Leave, FlowTypes
  <2>3. claims' \cup completed' \subseteq claims \cup completed \cup {Record({s})}
    BY <1>5 DEF HandlerStep, Precheck, ClaimLive, Contend, ClaimAgain, Submit, Consume, Command, ResolveFails, Leave
  <2>4. notices' \subseteq notices \cup {s}
    BY <1>5 DEF HandlerStep, Precheck, ClaimLive, ClaimAgain, Submit, Noticed, Consume, Command, ResolveFails, Leave
  <2>5. faults' = faults \/ (faults < MaxFaults /\ faults' = faults + 1)
    BY <1>5 DEF HandlerStep, Precheck, ClaimLive, ClaimAgain, Submit, Consume, Command, ResolveFails, Leave
  <2>6. claims' \cup completed' \subseteq Records' /\ notices' \subseteq Sources
    BY <1>2, <1>3, <2>3, <2>4 DEF FlowTypes
  <2>7. faults' \in 0..MaxFaults'
    BY <1>2, <1>3, <1>4, <2>5 DEF FlowTypes
  <2> QED BY <1>3, <2>1, <2>2, <2>6, <2>7 DEF FlowTypes, LockTypes
<1>6. ASSUME NEW s \in Sources, NEW outcome \in {"payload", "none", "failed"}, VoiceReady(s, outcome)
      PROVE  FlowTypes'
  <2>1. UNCHANGED <<settling, completed, gates, turns, locks>>
    BY <1>6 DEF VoiceReady
  <2>2. ready' \in [Sources -> {"none", "running", "payload", "failed"}]
    BY <1>3, <1>6 DEF VoiceReady, FlowTypes
  <2>3. claims' \subseteq claims /\ notices' \subseteq notices \cup {s}
    BY <1>6 DEF VoiceReady, VoiceGivesUp, Noticed
  <2>4. faults' = faults \/ (faults < MaxFaults /\ faults' = faults + 1)
    BY <1>6 DEF VoiceReady
  <2>5. claims' \cup completed' \subseteq Records' /\ notices' \subseteq Sources
    BY <1>2, <1>3, <2>1, <2>3 DEF FlowTypes
  <2>6. faults' \in 0..MaxFaults'
    BY <1>2, <1>3, <1>4, <2>4 DEF FlowTypes
  <2> QED BY <1>3, <2>1, <2>2, <2>5, <2>6 DEF FlowTypes, LockTypes
<1>7. ASSUME NEW e \in settling, NEW ok \in BOOLEAN, SettleIgnored(e, ok)
      PROVE  FlowTypes'
  <2>1. UNCHANGED <<ready, claims, completed, notices, gates, turns, locks>> /\ settling' \subseteq settling
    BY <1>7 DEF SettleIgnored
  <2>2. faults' = faults \/ (faults < MaxFaults /\ faults' = faults + 1)
    BY <1>7 DEF SettleIgnored
  <2>3. faults' \in 0..MaxFaults'
    BY <1>2, <1>3, <1>4, <2>2 DEF FlowTypes
  <2> QED BY <1>2, <1>3, <2>1, <2>3 DEF FlowTypes, LockTypes
<1>8. ASSUME NEW x \in Senders, Lane(x)
      PROVE  FlowTypes'
  <2>1. UNCHANGED <<ready, claims, completed, notices, turns, locks, faults>>
    BY <1>8 DEF Lane
  <2>2. settling' \subseteq Queued
    <3>1. Head(lanes[x]).src \in Sources /\ Head(lanes[x]).n \in Nat
      BY <1>0, <1>8, PopLanes
    <3>2. [n |-> Head(lanes[x]).n, src |-> Head(lanes[x]).src] \in Queued
      BY <3>1 DEF Queued
    <3>3. settling' = settling \/ settling' = settling \cup {[n |-> Head(lanes[x]).n, src |-> Head(lanes[x]).src]}
      BY <1>8 DEF Lane
    <3> QED BY <1>3, <3>2, <3>3 DEF FlowTypes
  <2>3. gates' \in [Keys -> GateEntries]
    <3>1. \/ gates' = gates
          \/ /\ UNCHANGED <<settling, pc>> /\ Head(lanes[x]).state = "loaded" /\ ready[Head(lanes[x]).src] = "payload"
             /\ gates' = Admitted(gates, [n |-> Head(lanes[x]).n, src |-> Head(lanes[x]).src])
      BY <1>8 DEF Lane
    <3> QED BY <1>3, <1>8, <3>1, LaneAdmitFlow DEF FlowTypes
  <2> QED BY <1>2, <1>3, <2>1, <2>2, <2>3 DEF FlowTypes, LockTypes
<1>9. ASSUME NEW k \in Keys, Gate(k)
      PROVE  FlowTypes'
  <2>1. UNCHANGED <<settling, ready, claims, completed, notices, locks, faults>>
    BY <1>9 DEF Gate
  <2>2. gates' \in [Keys -> GateEntries] /\ turns' \subseteq Batches
    BY <1>9, GateFlow
  <2> QED BY <1>2, <1>3, <2>1, <2>2 DEF FlowTypes, LockTypes
<1>10. ASSUME NEW t \in turns, BatchStep(t)
       PROVE  FlowTypes'
  <2>0. Srcs(t.batch) \in SUBSET Sources /\ Lead(t) \in Sources
    BY <1>0, TurnsApart
  <2>1. UNCHANGED <<settling, ready, gates>>
    BY <1>10 DEF BatchStep, StartTurn, Ignore, Route, Settle, Respond, Begin, Acquire, Finish, TurnFails
  <2>2. claims' \cup completed' \subseteq claims \cup completed \cup {Record(Srcs(t.batch))}
    BY <1>10 DEF BatchStep, StartTurn, Swap, Ignore, Route, Settle, Respond, Begin, Acquire, Finish, TurnFails, BatchRecord
  <2>3. notices' \subseteq notices \cup {Lead(t)}
    BY <1>10 DEF BatchStep, StartTurn, Ignore, Route, Settle, Respond, Begin, Acquire, Finish, TurnFails
  <2>4. faults' = faults \/ (faults < MaxFaults /\ faults' = faults + 1)
    BY <1>10 DEF BatchStep, StartTurn, Ignore, Route, Settle, Respond, Begin, Acquire, Finish, TurnFails
  <2>5. claims' \cup completed' \subseteq Records' /\ notices' \subseteq Sources
    BY <1>2, <1>3, <2>0, <2>2, <2>3 DEF FlowTypes
  <2>6. faults' \in 0..MaxFaults'
    BY <1>2, <1>3, <1>4, <2>4 DEF FlowTypes
  <2>7. turns' \subseteq Batches
    <3>1. \/ turns' = turns \ {t}
          \/ \E where \in {"prepare", "task", "queue", "run"} : Move(t, where)
      BY <1>10 DEF BatchStep, StartTurn, Ignore, Route, Settle, Respond, Begin, Acquire, Finish, TurnFails, Gone
    <3>2. ASSUME NEW where \in {"prepare", "task", "queue", "run"}, Move(t, where)
          PROVE  turns' \subseteq Batches
      <4>1. t \in Batches
        BY TurnTypes
      <4>2. [t EXCEPT !.pc = where] \in Batches
        BY <4>1 DEF Batches, InDispatch
      <4> QED BY <1>3, <3>2, <4>2 DEF Move, FlowTypes
    <3> QED BY <1>3, <3>1, <3>2 DEF FlowTypes
  <2>8. LockTypes'
    <3>1. \/ locks' = locks
          \/ locks' = [locks EXCEPT ![Conversation(t)] = Append(@, Lead(t))]
          \/ t.pc = "run" /\ locks' = [locks EXCEPT ![Conversation(t)] = Tail(@)]
          \/ locks' = [locks EXCEPT ![Conversation(t)] = RemoveFirst(@, Lead(t))]
      BY <1>10 DEF BatchStep, StartTurn, Ignore, Route, Settle, Respond, Begin, Acquire, Finish, TurnFails
    <3>2. LockLine(t)
      BY <1>0, <3>1, LineKept, LineJoined, LineLeft
    <3> QED BY <3>2 DEF LockLine
  <2> QED BY <1>3, <2>1, <2>5, <2>6, <2>7, <2>8 DEF FlowTypes
<1>11. ASSUME UNCHANGED vars
       PROVE  FlowTypes'
  BY <1>2, <1>3, <1>11 DEF vars, FlowTypes, LockTypes
<1>12. ASSUME NEW s \in Sources, Reoffer(s)
       PROVE  FlowTypes'
  BY <1>2, <1>3, <1>12 DEF Reoffer, FlowTypes, LockTypes
<1>13. FlowTypes'
  BY <1>5, <1>6, <1>7, <1>8, <1>9, <1>10, <1>11, <1>12, StepCases
<1> QED BY <1>0, <1>1, <1>13, SplitTypes

\* At the beginning nothing is held, queued or announced.
LEMMA Beginning ==
    ASSUME Init
    PROVE  IInv /\ NotLost /\ RelaysAlone
<1>1. /\ traffic \in Traffics /\ clock = 0 /\ settling = {} /\ claims = {} /\ completed = {} /\ notices = {}
      /\ turns = {} /\ faults = 0
      /\ pc \in [Sources -> {"offered", "done"}] /\ slot = [s \in Sources |-> 0] /\ ready = [s \in Sources |-> "none"]
      /\ lanes = [x \in Senders |-> <<>>] /\ gates = [k \in Keys |-> NoGate] /\ locks = [c \in Conversations |-> <<>>]
  BY DEF Init
<1>2. MaxFaults \in Nat /\ MaxRoots \in Nat
  BY <1>1, IngressAssumption DEF MaxFaults
<1>3. <<>> \in Seq(Queued) /\ <<>> \in Seq(LaneSlots) /\ <<>> \in Seq(Sources) /\ DOMAIN <<>> = {}
  OBVIOUS
<1>4. NoGate \in GateEntries /\ NoGate.queue = <<>> /\ NoGate.claimed = <<>>
  BY <1>3 DEF NoGate, GateEntries
<1>5. TypeOK
  <2>1. pc \in [Sources -> {"offered", "prechecked", "contended", "resolve", "deferred", "done"}]
    BY <1>1
  <2>2. clock \in Nat /\ slot \in [Sources -> Nat] /\ faults \in 0..MaxFaults
    BY <1>1, <1>2
  <2>3. /\ lanes \in [Senders -> Seq(LaneSlots)] /\ gates \in [Keys -> GateEntries]
        /\ locks \in [Conversations -> Seq(Sources)]
        /\ ready \in [Sources -> {"none", "running", "payload", "failed"}]
    BY <1>1, <1>3, <1>4
  <2> QED BY <1>1, <2>1, <2>2, <2>3 DEF TypeOK
<1>6. \A x \in Senders : lanes[x] = <<>> /\ Elems(lanes[x]) = {} /\ DOMAIN lanes[x] = {}
  BY <1>1, <1>3 DEF Elems
<1>7. \A k \in Keys : /\ gates[k].queue = <<>> /\ Elems(gates[k].queue) = {} /\ Srcs(gates[k].queue) = {}
                     /\ DOMAIN gates[k].queue = {}
  BY <1>1, <1>3, <1>4 DEF Elems, Srcs
<1>8. \A s \in Sources : /\ pc[s] \in {"offered", "done"} /\ slot[s] = 0 /\ ready[s] = "none"
                         /\ ~InLane(s) /\ ~InQueue(s) /\ ~InTurn(s) /\ ~InSettling(s) /\ ~InClaimed(s)
  BY <1>1, <1>6, <1>7 DEF InLane, InQueue, InTurn, InSettling, InClaimed
<1>9. LanesInv
  <2>1. Stamps
    BY <1>1, <1>8 DEF Stamps
  <2>2. LaneShape /\ LanesDistinct /\ ResolveHasSlot
    BY <1>6, <1>8 DEF LaneShape, LanesDistinct, ResolveHasSlot
  <2> QED BY <2>1, <2>2 DEF LanesInv
<1>10. PlacesInv
  <2>1. RunningInLane
    BY <1>8 DEF RunningInLane
  <2>2. Places
    BY <1>1, <1>7 DEF Places
  <2>3. OnePlace
    BY <1>1, <1>7, <1>8 DEF OnePlace
  <2>4. BurstInOrder
    BY <1>1, <1>7 DEF BurstInOrder
  <2> QED BY <2>1, <2>2, <2>3, <2>4 DEF PlacesInv
<1>11. ClaimsInv
  <2>1. Holders = {} /\ Answering = {}
    BY <1>1, <1>8 DEF Holders, Holds, Loaded, Answering
  <2>2. ClaimsExact
    BY <1>1, <2>1 DEF ClaimsExact, Members
  <2> QED BY <1>1, <2>2 DEF ClaimsInv, Exclusive, CompletedIsDone
<1>12. NoticeShape /\ Drained /\ LockShape
  BY <1>1, <1>7 DEF NoticeShape, Drained, LockShape
<1>13. RootsInv
  <2>1. Roots = {}
    BY <1>1 DEF Roots
  <2>2. IsFiniteSet({}) /\ Cardinality({}) = 0
    BY FS_EmptySet
  <2>3. 0 <= MaxRoots
    BY <1>2
  <2> QED BY <1>1, <2>1, <2>2, <2>3 DEF RootsInv, RootsBounded
<1>14. NotLost /\ RelaysAlone
  BY <1>1, <1>8 DEF NotLost, RelaysAlone
<1> QED BY <1>5, <1>9, <1>10, <1>11, <1>12, <1>13, <1>14 DEF IInv, Flow

LEMMA Inductive ==
    ASSUME IInv, [Next]_vars
    PROVE  IInv'
<1>1. TypeOK /\ LanesInv /\ Flow /\ PlacesInv
  BY DEF IInv, Flow
<1>2. TypeOK'
  BY <1>1, TypesStep
<1>3. LanesInv'
  BY <1>1, LanesStep
<1>4. Flow'
  BY <1>1, FlowStep
<1> QED BY <1>2, <1>3, <1>4 DEF IInv

LEMMA AlwaysIInv == Spec => []IInv
<1>1. Init => IInv
  BY Beginning
<1>2. IInv /\ [Next]_vars => IInv'
  BY Inductive
<1> QED BY <1>1, <1>2, PTL DEF Spec

-----------------------------------------------------------------------------
(* Nothing is lost.                                                        *)

\* A gate claims a relay alone.
LEMMA ClaimAlone ==
    ASSUME TypeOK, NEW k \in Keys, NEW r \in 1..Len(gates[k].queue), ClaimFront(k, r), traffic' = traffic,
           r = 1 \/ \A j \in 1..r : IsNormal(gates[k].queue[j])
    PROVE  \A u \in turns' : u \in turns \/ Alone(u)'
<1> DEFINE q == gates[k].queue
           batch == SubSeq(q, 1, r)
           root == ParallelRoot(k) /\ IsNormal(Head(q))
           t == NewTurn(k, batch, root)
<1>1. q \in Seq(Queued) /\ Len(q) \in Nat
  BY GateTypes, QueueFacts
<1>2. turns' = turns \cup {t}
  BY DEF ClaimFront
<1>3. t.batch = batch
  BY DEF NewTurn
<1>4. DOMAIN batch = 1..r /\ \A i \in 1..r : batch[i] = q[i]
  BY <1>1
<1> HIDE DEF q, batch, root, t
<1>5. ASSUME NEW s \in Srcs(t.batch), Kind'[s] = "relay"
      PROVE  Srcs(t.batch) = {s}
  <2>1. PICK i \in 1..r : s = q[i].src
    BY <1>3, <1>4 DEF Srcs
  <2>2. Kind[s] = "relay"
    BY <1>5, TrafficKept
  <2>3. r = 1
    BY <2>1, <2>2 DEF IsNormal, q
  <2>4. \A j \in 1..r : j = 1
    BY <2>3
  <2>5. Srcs(t.batch) = {q[1].src} /\ s = q[1].src
    BY <1>3, <1>4, <2>1, <2>3, <2>4 DEF Srcs
  <2> QED BY <2>5
<1>6. ASSUME NEW u \in turns', u \notin turns
      PROVE  Alone(u)'
  <2>1. u = t
    BY <1>2, <1>6
  <2>2. \A s \in Srcs(u.batch) : Kind'[s] = "relay" => Srcs(u.batch) = {s}
    BY <1>5, <2>1
  <2> QED BY <2>2 DEF Alone, Srcs
<1> QED BY <1>6

LEMMA RelaysAloneStep ==
    ASSUME IInv, RelaysAlone, [Next]_vars
    PROVE  RelaysAlone'
<1>0. /\ TypeOK /\ PlacesInv /\ traffic' = traffic /\ Drained /\ Stamps /\ Places
      /\ Kind' = Kind
  BY TrafficSame, TrafficKept DEF IInv, Flow, LanesInv, PlacesInv
<1>1. ASSUME \A u \in turns' : \E t \in turns : u.batch = t.batch
      PROVE  RelaysAlone'
  BY <1>0, <1>1 DEF RelaysAlone, Alone, Srcs
<1>2. ASSUME NEW k \in Keys, Gate(k)
      PROVE  RelaysAlone'
  <2>1. GateIdles \/ GateClaims(k)
    BY <1>0, <1>2, GateEffect
  <2>2. CASE GateIdles
    BY <1>1, <2>2 DEF GateIdles
  <2>3. CASE GateClaims(k)
    <3>1. PICK r \in 1..Len(gates[k].queue) :
             ClaimFront(k, r) /\ (r = 1 \/ \A j \in 1..r : IsNormal(gates[k].queue[j]))
      BY <2>3 DEF GateClaims
    <3>2. \A u \in turns' : u \in turns \/ Alone(u)'
      BY <1>0, <3>1, ClaimAlone
    <3>3. \A u \in turns : Alone(u)'
      BY <1>0 DEF RelaysAlone, Alone, Srcs
    <3> QED BY <3>2, <3>3 DEF RelaysAlone
  <2> QED BY <2>1, <2>2, <2>3
<1>3. ASSUME NEW t \in turns, BatchStep(t)
      PROVE  RelaysAlone'
  <2>1. \/ turns' = turns \ {t}
        \/ \E where \in {"prepare", "task", "queue", "run"} : Move(t, where)
    BY <1>3 DEF BatchStep, StartTurn, Ignore, Route, Settle, Respond, Begin, Acquire, Finish, TurnFails, Gone
  <2>2. \A where : [t EXCEPT !.pc = where].batch = t.batch
    BY <1>0, TurnTypes DEF Batches
  <2> QED BY <1>1, <2>1, <2>2 DEF Move
<1>4. ASSUME turns' = turns
      PROVE  RelaysAlone'
  BY <1>1, <1>4
<1>5. ASSUME NEW s \in Sources, HandlerStep(s) \/ Reoffer(s)
      PROVE  turns' = turns
  BY <1>5 DEF HandlerStep, Precheck, ClaimLive, ClaimAgain, Submit, Consume, Command, ResolveFails, Leave, Reoffer
<1>6. ASSUME NEW s \in Sources, NEW outcome, VoiceReady(s, outcome)
      PROVE  turns' = turns
  BY <1>6 DEF VoiceReady
<1>7. ASSUME NEW e \in settling, NEW ok \in BOOLEAN, SettleIgnored(e, ok)
      PROVE  turns' = turns
  BY <1>7 DEF SettleIgnored
<1>8. ASSUME NEW x \in Senders, Lane(x)
      PROVE  turns' = turns
  BY <1>8 DEF Lane
<1> QED BY <1>2, <1>3, <1>4, <1>5, <1>6, <1>7, <1>8, StepCases DEF vars

\* A batch takes over the claims of its members, unless it is a relay whose original was answered
\* meanwhile by another turn.
LEMMA BatchTakesOver ==
    ASSUME IInv, RelaysAlone, NEW t \in turns, t.pc = "claimed"
    PROVE  CanClaim(claims \ MemberClaims(t), BatchRecord(t)) \/ \A s \in Srcs(t.batch) : Outranked(s)
<1> DEFINE S == Srcs(t.batch)
           R == Record(S)
<1>0. TypeOK /\ PlacesInv /\ ClaimsExact /\ Exclusive /\ CompletedIsDone
  BY DEF IInv, Flow, ClaimsInv
<1>1. S \subseteq Sources
  BY <1>0, TurnsApart
<1>2. R.sources = S /\ R.aliases = UNION {Alias[s] : s \in S}
  BY RecordFacts
<1>3. ASSUME NEW s \in S
      PROVE  /\ Record({s}) \in claims /\ Record({s}) \in MemberClaims(t)
             /\ Record({s}).sources = {s} /\ Record({s}).aliases = Alias[s]
             /\ pc[s] # "done"
  <2>1. s \in Sources /\ InTurn(s) /\ InClaimed(s)
    BY <1>1 DEF InTurn, InClaimed
  <2>2. Record({s}) \in claims
    BY <1>0, <2>1 DEF ClaimsExact, Members, Holders, Holds
  <2>3. Record({s}).sources = {s} /\ Record({s}).aliases = UNION {Alias[u] : u \in {s}}
    BY RecordFacts
  <2>4. UNION {Alias[u] : u \in {s}} = Alias[s]
    OBVIOUS
  <2>5. pc[s] # "done"
    BY <1>0, <2>1, PlaceFacts
  <2> QED BY <2>2, <2>3, <2>4, <2>5 DEF MemberClaims
<1>4. ASSUME NEW s \in S, Alias[s] # {}
      PROVE  S = {s}
  <2>1. Kind[s] = "relay"
    BY <1>0, <1>1, <1>4, IngressAssumption DEF TypeOK, Kind, Alias
  <2> QED BY <2>1 DEF RelaysAlone, Alone
<1> HIDE DEF S, R
<1>5. ASSUME NEW c \in claims \ MemberClaims(t), NEW s \in S
      PROVE  s \notin c.sources /\ Alias[s] \cap c.aliases = {}
  <2>1. c # Record({s}) /\ Record({s}) \in claims
    BY <1>3
  <2>2. c.sources \cap Record({s}).sources = {} /\ c.aliases \cap Record({s}).aliases = {}
    BY <1>0, <2>1 DEF Exclusive, Apart
  <2> QED BY <1>3, <2>2
<1>6. \A c \in claims \ MemberClaims(t) : c.sources \cap R.sources = {} /\ c.aliases \cap R.aliases = {}
  BY <1>2, <1>5
<1>7. ASSUME NEW d \in completed, R.aliases \cap Indexed(d) # {}
      PROVE  \A s \in S : Outranked(s)
  <2>1. PICK s \in S : Alias[s] \cap Indexed(d) # {}
    BY <1>2, <1>7
  <2>2. s \notin d.sources
    BY <1>0, <1>3 DEF CompletedIsDone
  <2>3. Outranked(s)
    BY <2>1, <2>2 DEF Outranked
  <2>4. S = {s}
    BY <1>4, <2>1
  <2> QED BY <2>3, <2>4
<1>8. BatchRecord(t) = R
  BY DEF BatchRecord, R, S
<1> QED BY <1>6, <1>7, <1>8 DEF CanClaim, S

\* A terminal record is never taken back.
LEMMA CompletedGrows ==
    ASSUME [Next]_vars
    PROVE  completed \subseteq completed'
<1>1. ASSUME NEW s \in Sources, HandlerStep(s) \/ Reoffer(s) PROVE completed \subseteq completed'
  BY <1>1 DEF HandlerStep, Precheck, ClaimLive, ClaimAgain, Submit, Consume, Command, ResolveFails, Leave, Reoffer
<1>2. ASSUME NEW s \in Sources, NEW outcome, VoiceReady(s, outcome) PROVE completed \subseteq completed'
  BY <1>2 DEF VoiceReady
<1>3. ASSUME NEW e, NEW ok, SettleIgnored(e, ok) PROVE completed \subseteq completed'
  BY <1>3 DEF SettleIgnored
<1>4. ASSUME NEW x, Lane(x) PROVE completed \subseteq completed'
  BY <1>4 DEF Lane
<1>5. ASSUME NEW k, Gate(k) PROVE completed \subseteq completed'
  BY <1>5 DEF Gate
<1>6. ASSUME NEW t, BatchStep(t) PROVE completed \subseteq completed'
  BY <1>6 DEF BatchStep, StartTurn, Ignore, Route, Settle, Respond, Begin, Acquire, Finish, TurnFails
<1> QED BY <1>1, <1>2, <1>3, <1>4, <1>5, <1>6, StepCases DEF vars

\* Nothing leaves its place unless it goes to another or is deferred no more.
LEMMA NotLostStep ==
    ASSUME IInv, NotLost, RelaysAlone, [Next]_vars
    PROVE  NotLost'
<1> DEFINE Kept(r) == InLane(r) \/ InQueue(r) \/ InTurn(r) \/ InSettling(r) \/ Outranked(r)
<1>9. \A r \in Sources : Outranked(r) => Outranked(r)'
  <2>1. completed \subseteq completed'
    BY CompletedGrows
  <2>2. Alias' = Alias
    BY TrafficSame, TrafficKept
  <2> QED BY <2>1, <2>2 DEF Outranked, Indexed
<1>0. /\ TypeOK /\ LanesInv /\ Flow /\ PlacesInv /\ traffic' = traffic
      /\ pc \in [Sources -> LaneStates]
      /\ \A r \in Sources : pc[r] = "deferred" => Kept(r)
      /\ \A r \in Sources : Outranked(r) => Outranked(r)'
  BY <1>9, TrafficSame, StampTypes DEF IInv, Flow, NotLost
<1>1. ASSUME NEW s \in Sources, HandlerStep(s)
      PROVE  NotLost'
  <2>1. UNCHANGED <<settling, gates, turns>>
    BY <1>1 DEF HandlerStep, Precheck, ClaimLive, ClaimAgain, Submit, Consume, Command, ResolveFails, Leave
  <2>2. \A r \in Sources : (InQueue(r)' <=> InQueue(r)) /\ (InTurn(r)' <=> InTurn(r)) /\ (InSettling(r)' <=> InSettling(r))
    BY <2>1 DEF InQueue, InTurn, InSettling
  <2>3. ASSUME Precheck(s) \/ ClaimLive(s) \/ ClaimAgain(s)
        PROVE  NotLost'
    <3>1. \A r \in Sources : InLane(r)' <=> InLane(r)
      <4>1. Precheck(s) => lanes' = lanes
        BY DEF Precheck
      <4> QED BY <1>0, <2>3, <4>1, ClaimLiveLanes, ClaimAgainLanes DEF InLane
    <3>2. \A r \in Sources : pc'[r] = "deferred" => pc[r] = "deferred"
      BY <1>0, <2>3 DEF Precheck, ClaimLive, Contend, ClaimAgain, Goto
    <3> QED BY <1>0, <2>2, <3>1, <3>2 DEF NotLost
  <2>4. ASSUME Submit(s)
        PROVE  NotLost'
    <3>1. /\ pc[s] = "resolve" /\ lanes' = SetSlot(lanes, s, "loaded") /\ pc' = [pc EXCEPT ![s] = "deferred"]
          /\ UNCHANGED <<clock, slot>>
      BY <2>4 DEF Submit, Goto
    <3>2. \A r \in Sources : InLane(r)' <=> IF r = s THEN TRUE ELSE InLane(r)
      BY <1>0, <3>1, MarkLanes
    <3>3. \A r \in Sources : r # s => pc'[r] = pc[r]
      BY <1>0, <3>1
    <3> QED BY <1>0, <2>2, <3>2, <3>3 DEF NotLost
  <2>5. ASSUME NEW where \in {"done", "offered"}, Leave(s, where)
        PROVE  NotLost'
    <3>1. /\ pc[s] = "resolve" /\ lanes' = SetSlot(lanes, s, "released") /\ pc' = [pc EXCEPT ![s] = where]
          /\ UNCHANGED <<clock, slot>>
      BY <2>5 DEF Leave, Goto
    <3>2. \A r \in Sources : InLane(r)' <=> IF r = s THEN "released" = "loaded" ELSE InLane(r)
      BY <1>0, <3>1, MarkLanes
    <3>3. pc'[s] # "deferred" /\ \A r \in Sources : r # s => pc'[r] = pc[r]
      BY <1>0, <3>1
    <3> QED BY <1>0, <2>2, <3>2, <3>3 DEF NotLost
  <2> QED BY <1>1, <2>3, <2>4, <2>5 DEF HandlerStep, Consume, Command, ResolveFails
<1>2. ASSUME UNCHANGED <<pc, lanes, settling, gates, turns>>
      PROVE  NotLost'
  BY <1>0, <1>2 DEF NotLost, InLane, InQueue, InTurn, InSettling
<1>3. ASSUME NEW e \in settling, NEW ok \in BOOLEAN, SettleIgnored(e, ok)
      PROVE  NotLost'
  <2>1. /\ UNCHANGED <<lanes, gates, turns>> /\ settling' = settling \ {e}
        /\ pc' = [pc EXCEPT ![e.src] = IF ok THEN "done" ELSE "offered"]
    BY <1>3 DEF SettleIgnored, Goto
  <2>2. \A r \in Sources : /\ InLane(r)' <=> InLane(r)
                           /\ InQueue(r)' <=> InQueue(r)
                           /\ InTurn(r)' <=> InTurn(r)
                           /\ r # e.src => (InSettling(r)' <=> InSettling(r))
    BY <2>1 DEF InLane, InQueue, InTurn, InSettling
  <2>3. \A r \in Sources : pc'[r] = "deferred" => pc[r] = "deferred" /\ r # e.src
    BY <1>0, <2>1
  <2> QED BY <1>0, <2>2, <2>3 DEF NotLost
<1>4. ASSUME NEW x \in Senders, Lane(x)
      PROVE  NotLost'
  <2>1. PICK e : e = Head(lanes[x])
    OBVIOUS
  <2>2. /\ e.src \in Sources
        /\ \A r \in Sources : InLane(r)' <=> InLane(r) /\ ~(r = e.src /\ e.state = "loaded")
    BY <1>0, <1>4, <2>1, PopLanes
  <2>3. turns' = turns /\ \A r \in Sources : InTurn(r)' <=> InTurn(r)
    BY <1>4 DEF Lane, InTurn
  <2>4. \/ e.state = "released" /\ UNCHANGED <<gates, settling, pc>>
        \/ /\ e.state = "loaded" /\ ready[e.src] = "payload" /\ gates' = Admitted(gates, [n |-> e.n, src |-> e.src])
           /\ UNCHANGED <<settling, pc>>
        \/ settling' = settling \cup {[n |-> e.n, src |-> e.src]} /\ UNCHANGED <<gates, pc>>
        \/ pc' = [pc EXCEPT ![e.src] = "offered"] /\ UNCHANGED <<gates, settling>>
    BY <1>4, <2>1 DEF Lane, Goto
  <2>5. ASSUME UNCHANGED gates
        PROVE  \A r \in Sources : InQueue(r)' <=> InQueue(r)
    BY <2>5 DEF InQueue
  <2>6. ASSUME UNCHANGED settling
        PROVE  \A r \in Sources : InSettling(r)' <=> InSettling(r)
    BY <2>6 DEF InSettling
  <2>7. CASE e.state = "released" /\ UNCHANGED <<gates, settling, pc>>
    BY <1>0, <2>2, <2>3, <2>5, <2>6, <2>7 DEF NotLost
  <2>8. CASE /\ e.state = "loaded" /\ ready[e.src] = "payload" /\ gates' = Admitted(gates, [n |-> e.n, src |-> e.src])
             /\ UNCHANGED <<settling, pc>>
    <3>1. \A r \in Sources : InQueue(r)' <=> InQueue(r) \/ r = e.src
      BY <1>0, <1>4, <2>1, <2>8, LaneAdmitFlow
    <3> QED BY <1>0, <2>2, <2>3, <2>6, <2>8, <3>1 DEF NotLost
  <2>9. CASE settling' = settling \cup {[n |-> e.n, src |-> e.src]} /\ UNCHANGED <<gates, pc>>
    <3>1. PICK q : q = [n |-> e.n, src |-> e.src]
      OBVIOUS
    <3>2. settling' = settling \cup {q} /\ q.src = e.src
      BY <2>9, <3>1
    <3>3. \A r \in Sources : InSettling(r)' <=> InSettling(r) \/ r = e.src
      BY <3>2 DEF InSettling
    <3> QED BY <1>0, <2>2, <2>3, <2>5, <2>9, <3>3 DEF NotLost
  <2>10. CASE pc' = [pc EXCEPT ![e.src] = "offered"] /\ UNCHANGED <<gates, settling>>
    <3>1. \A r \in Sources : pc'[r] = "deferred" => pc[r] = "deferred" /\ r # e.src
      BY <1>0, <2>10
    <3> QED BY <1>0, <2>2, <2>3, <2>5, <2>6, <2>10, <3>1 DEF NotLost
  <2> QED BY <2>4, <2>7, <2>8, <2>9, <2>10
<1>5. ASSUME NEW k \in Keys, Gate(k)
      PROVE  NotLost'
  <2>0. Drained /\ Stamps /\ Places
    BY <1>0 DEF Flow, LanesInv, PlacesInv
  <2>1. /\ GateIdles \/ GateClaims(k)
        /\ UNCHANGED <<pc, lanes, settling>>
    BY <1>0, <1>5, <2>0, GateEffect
  <2>2. \A r \in Sources : (InLane(r)' <=> InLane(r)) /\ (InSettling(r)' <=> InSettling(r))
    BY <2>1 DEF InLane, InSettling
  <2>3. CASE GateIdles
    <3>1. \A r \in Sources : (InQueue(r)' <=> InQueue(r)) /\ (InTurn(r)' <=> InTurn(r))
      BY <2>3 DEF GateIdles, InQueue, InTurn
    <3> QED BY <1>0, <2>1, <2>2, <3>1 DEF NotLost
  <2>4. CASE GateClaims(k)
    <3>1. PICK n \in 1..Len(gates[k].queue) : ClaimFront(k, n)
      BY <2>4 DEF GateClaims
    <3>2. Ordered(gates[k].queue)
      BY <1>0, QueuesOrdered DEF PlacesInv
    <3>3. PICK t : ClaimsRun(k, t)
      BY <1>0, <2>0, <3>1, <3>2, ClaimFrontEffect
    <3>4. /\ turns' = turns \cup {t} /\ \A l \in Keys : l # k => gates'[l] = gates[l]
          /\ Srcs(t.batch) \cup Srcs(gates'[k].queue) = Srcs(gates[k].queue)
      BY <3>3, SrcElems DEF ClaimsRun
    <3>5. \A r \in Sources : InQueue(r) => InQueue(r)' \/ r \in Srcs(t.batch)
      BY <3>4 DEF InQueue
    <3>6. \A r \in Sources : InTurn(r)' <=> InTurn(r) \/ r \in Srcs(t.batch)
      BY <3>4 DEF InTurn
    <3> QED BY <1>0, <2>1, <2>2, <3>5, <3>6 DEF NotLost
  <2> QED BY <2>1, <2>3, <2>4
<1>6. ASSUME NEW t \in turns, BatchStep(t)
      PROVE  NotLost'
  <2>1. UNCHANGED <<lanes, settling, gates>>
    BY <1>6 DEF BatchStep, StartTurn, Ignore, Route, Settle, Respond, Begin, Acquire, Finish, TurnFails
  <2>2. \A r \in Sources : (InLane(r)' <=> InLane(r)) /\ (InSettling(r)' <=> InSettling(r)) /\ (InQueue(r)' <=> InQueue(r))
    BY <2>1 DEF InLane, InSettling, InQueue
  <2>3. \/ pc' = pc /\ \E where \in {"prepare", "task", "queue", "run"} : Move(t, where)
        \/ \E where \in {"done", "offered"} : Gone(t, where)
        \/ pc' = pc /\ turns' = turns \ {t} /\ \A r \in Srcs(t.batch) : Outranked(r)
    <3>1. StartTurn(t) => /\ pc' = pc
                          /\ \/ Move(t, "prepare")
                             \/ turns' = turns \ {t} /\ \A r \in Srcs(t.batch) : Outranked(r)
      BY <1>6, BatchTakesOver DEF StartTurn
    <3>2. Respond(t) \/ Begin(t) \/ Acquire(t) => pc' = pc /\ (Move(t, "task") \/ Move(t, "queue") \/ Move(t, "run"))
      BY DEF Respond, Begin, Acquire
    <3>3. Ignore(t) \/ Route(t) \/ Finish(t) \/ TurnFails(t) => Gone(t, "done") \/ Gone(t, "offered")
      BY DEF Ignore, Route, Settle, Finish, TurnFails
    <3> QED BY <1>6, <3>1, <3>2, <3>3 DEF BatchStep
  <2>4. ASSUME NEW where \in {"prepare", "task", "queue", "run"}, Move(t, where), pc' = pc
        PROVE  NotLost'
    <3>1. [t EXCEPT !.pc = where].batch = t.batch
      BY <1>0, TurnTypes DEF Batches
    <3>2. \A r \in Sources : InTurn(r) => InTurn(r)'
      BY <2>4, <3>1 DEF Move, InTurn
    <3> QED BY <1>0, <2>2, <2>4, <3>2 DEF NotLost
  <2>5. ASSUME NEW where \in {"done", "offered"}, Gone(t, where)
        PROVE  NotLost'
    <3>1. \A r \in Sources : pc'[r] = "deferred" => pc[r] = "deferred" /\ r \notin Srcs(t.batch)
      BY <2>5 DEF Gone
    <3>2. \A r \in Sources : InTurn(r) /\ r \notin Srcs(t.batch) => InTurn(r)'
      BY <2>5 DEF Gone, InTurn
    <3> QED BY <1>0, <2>2, <3>1, <3>2 DEF NotLost
  <2>6. CASE pc' = pc /\ turns' = turns \ {t} /\ \A r \in Srcs(t.batch) : Outranked(r)
    <3>1. \A r \in Sources : InTurn(r) => InTurn(r)' \/ Outranked(r)
      BY <2>6 DEF InTurn
    <3> QED BY <1>0, <2>2, <2>6, <3>1 DEF NotLost
  <2> QED BY <2>3, <2>4, <2>5, <2>6
<1>7. ASSUME NEW s \in Sources, NEW outcome \in {"payload", "none", "failed"}, VoiceReady(s, outcome)
      PROVE  NotLost'
  BY <1>2, <1>7 DEF VoiceReady
<1>8. ASSUME UNCHANGED vars
      PROVE  NotLost'
  BY <1>2, <1>8 DEF vars
<1>10. ASSUME NEW s \in Sources, Reoffer(s)
       PROVE  NotLost'
  <2>1. UNCHANGED <<lanes, settling, gates, turns>> /\ pc' = [pc EXCEPT ![s] = "offered"]
    BY <1>10 DEF Reoffer, Goto
  <2>2. \A r \in Sources : /\ InLane(r)' <=> InLane(r)
                           /\ InQueue(r)' <=> InQueue(r)
                           /\ InTurn(r)' <=> InTurn(r)
                           /\ InSettling(r)' <=> InSettling(r)
    BY <2>1 DEF InLane, InQueue, InTurn, InSettling
  <2>3. \A r \in Sources : pc'[r] = "deferred" => pc[r] = "deferred"
    BY <1>0, <2>1
  <2> QED BY <1>0, <2>2, <2>3 DEF NotLost
<1> QED BY <1>1, <1>3, <1>4, <1>5, <1>6, <1>7, <1>8, <1>10, StepCases

-----------------------------------------------------------------------------
(* The theorems.                                                           *)

LEMMA ClaimsAndWork ==
    ASSUME IInv
    PROVE  HeldIsOwned /\ WorkIsClaimed
<1>0. TypeOK /\ PlacesInv /\ ClaimsExact /\ NoticeShape
  BY DEF IInv, Flow, ClaimsInv
<1>1. \A s \in Sources : Holds(s) => Working(s)
  BY DEF Holds, Loaded, InQueue, InClaimed, Working, InGate, InTurn
<1>2. \A c \in claims : \A s \in c.sources : Working(s)
  <2>1. ASSUME NEW c \in Members(Holders), NEW s \in c.sources
        PROVE  Working(s)
    <3>1. PICK r \in Sources : Holds(r) /\ c = Record({r})
      BY DEF Members, Holders
    <3>2. s = r
      BY <3>1, RecordFacts
    <3> QED BY <1>1, <3>1, <3>2
  <2>2. ASSUME NEW c \in Answering, NEW s \in c.sources
        PROVE  Working(s)
    <3>1. PICK t \in turns : c = BatchRecord(t)
      BY DEF Answering
    <3>2. s \in Srcs(t.batch)
      BY <3>1, RecordFacts DEF BatchRecord
    <3> QED BY <3>2 DEF Working, InTurn
  <2> QED BY <1>0, <2>1, <2>2 DEF ClaimsExact
<1>3. ASSUME NEW s \in notices
      PROVE  Working(s)
  <2>1. Announced(s)
    BY <1>0 DEF NoticeShape
  <2>2. (\E t \in turns : t.pc = "queue" /\ s = Lead(t)) => InTurn(s)
    BY <1>0, TurnsApart DEF InTurn
  <2> QED BY <2>1, <2>2 DEF Announced, Loaded, InQueue, InClaimed, Working, InGate, InTurn
<1>4. ASSUME NEW s \in Sources, Loaded(s) \/ InQueue(s) \/ InTurn(s)
      PROVE  \E c \in claims : s \in c.sources
  <2>1. CASE Holds(s)
    <3>1. Record({s}) \in claims
      BY <1>0, <2>1 DEF ClaimsExact, Members, Holders
    <3> QED BY <3>1, RecordFacts
  <2>2. CASE ~Holds(s)
    <3>1. PICK t \in turns : s \in Srcs(t.batch) /\ t.pc # "claimed"
      BY <1>4, <2>2 DEF Holds, InTurn, InClaimed
    <3>2. BatchRecord(t) \in claims
      BY <1>0, <3>1 DEF ClaimsExact, Answering
    <3> QED BY <3>1, <3>2, RecordFacts DEF BatchRecord
  <2> QED BY <2>1, <2>2
<1> QED BY <1>2, <1>3, <1>4 DEF HeldIsOwned, WorkIsClaimed, Loaded, InQueue

\* No message is answered twice, under its own name or as two relays of one original: the claims of
\* TurnStore and the handover from the members of a batch to the batch (turn_store.py, try_claim_turn).
THEOREM NeverAnsweredTwice == Spec => []AnsweredOnce
<1>1. IInv => AnsweredOnce
  <2>1. IInv => Answering \cup completed \subseteq claims \cup completed
    BY DEF IInv, Flow, ClaimsInv, ClaimsExact
  <2> QED BY <2>1 DEF IInv, Flow, ClaimsInv, Exclusive, Apart, AnsweredOnce
<1> QED BY <1>1, AlwaysIInv, PTL

\* A batch speaks in the order its messages were received: the insertion by receipt, the cut at the
\* front and the promotion of a room's uploads to a thread (coalescing.py).
THEOREM BatchesInOrder == Spec => []BurstInOrder
<1>1. IInv => BurstInOrder
  BY DEF IInv, Flow, PlacesInv
<1> QED BY <1>1, AlwaysIInv, PTL

\* One conversation has one running response at a time.
OneResponse ==
    \A t, u \in turns :
        t.pc = "run" /\ u.pc = "run" /\ Conversation(t) = Conversation(u) => t = u

\* The lock of a conversation excludes: two batches never run a response in one conversation, although
\* a failing batch may leave the line from the middle (response_lifecycle.py, run_locked_response).
THEOREM ResponsesExclude == Spec => []OneResponse
<1>1. ASSUME IInv, NEW t \in turns, NEW u \in turns, t.pc = "run", u.pc = "run", Conversation(t) = Conversation(u)
      PROVE  t = u
  <2>1. TypeOK /\ PlacesInv /\ LockShape
    BY <1>1 DEF IInv, Flow
  <2>2. Lead(t) = Lead(u)
    BY <1>1, <2>1 DEF LockShape
  <2> QED BY <2>1, <2>2, TurnsApart
<1>2. IInv => OneResponse
  BY <1>1 DEF OneResponse
<1> QED BY <1>2, AlwaysIInv, PTL

\* Whatever the traffic: no claim and no announcement outlives its work, work that may lead to an
\* answer is claimed at every await, the roots are bounded and every queue has a task to drain it.
THEOREM WorkAndClaims == Spec => [](TypeOK /\ RootsBounded /\ HeldIsOwned /\ WorkIsClaimed /\ Drained)
<1>1. IInv => TypeOK /\ RootsBounded /\ Drained
  BY DEF IInv, Flow, RootsInv
<1>2. IInv => HeldIsOwned /\ WorkIsClaimed
  BY ClaimsAndWork
<1> QED BY <1>1, <1>2, AlwaysIInv, PTL

\* The invariant of ingress for any traffic, relays offered beside their originals included: nothing is
\* lost on the way from the handler to the end of the turn, and a batch is refused (dropped without a word
\* to the journal, text_ingress_dispatch.py, dispatch_text_message) only as a relay whose original another
\* turn has answered.
THEOREM IngressCorrect == Spec => []IngressInv
<1>1. Init => IInv /\ NotLost /\ RelaysAlone
  BY Beginning
<1>2. IInv /\ NotLost /\ RelaysAlone /\ [Next]_vars => (IInv /\ NotLost /\ RelaysAlone)'
  BY Inductive, NotLostStep, RelaysAloneStep
<1>3. IInv /\ NotLost => IngressInv
  <2>1. ASSUME IInv, NotLost
        PROVE  IngressInv
    <3>1. TypeOK /\ RootsBounded /\ Drained
      BY <2>1 DEF IInv, Flow, RootsInv
    <3>2. HeldIsOwned /\ WorkIsClaimed
      BY <2>1, ClaimsAndWork
    <3>3. NothingStranded
      BY <2>1, <3>1 DEF NothingStranded, NotLost, Drained, InQueue, InGate
    <3> QED BY <3>1, <3>2, <3>3 DEF IngressInv
  <2> QED BY <2>1
<1> QED BY <1>1, <1>2, <1>3, PTL DEF Spec
=============================================================================
