---------------------------- MODULE OsTimerProofs ----------------------------
(* A timer that was armed before is not used any more once it is stopped, for *)
(* any number of timers, any offsets, periods and lag.  How long a node stays *)
(* in the queue does not matter, only which timers are in it.                 *)
EXTENDS OsTimer, SequenceTheorems, WellFoundedInduction, TLAPS

-----------------------------------------------------------------------------
(* Smallest and greatest numbers                                              *)

LEMMA SmallestIn ==
  ASSUME NEW S \in SUBSET Nat, S # {}
  PROVE  \E x \in S : \A y \in S : x =< y
<1>1. \E x \in S : \A y \in S : ~ (<<y, x>> \in OpToRel(<, Nat))
  BY NatLessThanWellFounded, WFMin
<1>2. \A x, y \in Nat : <<y, x>> \in OpToRel(<, Nat) <=> y < x
  BY DEF OpToRel
<1>3. PICK x \in S : \A y \in S : ~ (<<y, x>> \in OpToRel(<, Nat))
  BY <1>1
<1>4. \A y \in S : ~ (y < x)
  BY <1>2, <1>3
<1>5. \A y \in S : x =< y
  BY <1>4
<1> QED
  BY <1>3, <1>5

LEMMA MinIsIn == ASSUME NEW S \in SUBSET Nat, S # {} PROVE Min(S) \in S
<1> QED
  BY SmallestIn DEF Min

LEMMA MaxIsIn ==
  ASSUME NEW n \in Nat, NEW S \in SUBSET (0..n), S # {}
  PROVE  Max(S) \in S /\ \A y \in S : Max(S) >= y
<1> DEFINE T == {n - x : x \in S}
<1>1. T \in SUBSET Nat /\ T # {}
  <2>1. \A x \in S : n - x \in Nat
    OBVIOUS
  <2> QED
    BY <2>1
<1>2. PICK t \in T : \A y \in T : t =< y
  BY <1>1, SmallestIn
<1>3. PICK x \in S : t = n - x
  BY <1>2
<1>4. \A y \in S : n - x =< n - y
  BY <1>2, <1>3
<1>5. \A y \in S : x >= y
  BY <1>4
<1> QED
  BY <1>5 DEF Max

-----------------------------------------------------------------------------
(* The differential queue                                                     *)

IsNode(n) == n = [timer |-> n.timer, expiry |-> n.expiry, left |-> n.left]
IsQueue(q) == q \in Seq({q[i] : i \in DOMAIN q}) /\ \A i \in DOMAIN q : IsNode(q[i])

\* The places of a timer in the queue.
Places(q, tm) == {i \in DOMAIN q : q[i].timer = tm}
AtMostOnce(q, tm) == \A i, j \in Places(q, tm) : i = j

\* What the ways to get a queue r from q mean for the timers: a node is added,
\* the first node of a timer is removed, or the first node of the queue leaves.
Kept(q, r, tm) == /\ Places(r, tm) = {} <=> Places(q, tm) = {}
                  /\ AtMostOnce(q, tm) => AtMostOnce(r, tm)
Added(q, x, r) ==
  /\ IsQueue(r) /\ Places(r, x) # {}
  /\ Places(q, x) = {} => AtMostOnce(r, x)
  /\ \A tm : tm # x => Kept(q, r, tm)
Removed(q, x, r) ==
  /\ IsQueue(r)
  /\ x # None /\ AtMostOnce(q, x) => Places(r, x) = {}
  /\ \A tm : tm # x \/ tm = None => Kept(q, r, tm)
Left(q, x, r) ==
  /\ IsQueue(r) /\ Places(q, x) # {}
  /\ AtMostOnce(q, x) => Places(r, x) = {}
  /\ \A tm : tm # x => Kept(q, r, tm)

LEMMA QueueFacts ==
  ASSUME NEW q, IsQueue(q)
  PROVE  /\ Len(q) \in Nat /\ DOMAIN q = 1..Len(q)
         /\ q = [i \in 1..Len(q) |-> q[i]]
<1> QED
  BY DEF IsQueue

LEMMA QueueIs ==
  ASSUME NEW n \in Nat, NEW f, f = [i \in 1..n |-> f[i]], \A i \in 1..n : IsNode(f[i])
  PROVE  IsQueue(f) /\ Len(f) = n
<1> DEFINE S == {f[i] : i \in 1..n}
<1>1. f \in [1..n -> S]
  OBVIOUS
<1> HIDE DEF S
<1>2. f \in Seq(S) /\ Len(f) = n
  BY <1>1, SMTT(60)
<1> USE DEF S
<1>3. DOMAIN f = 1..n
  BY <1>1
<1> QED
  BY <1>2, <1>3 DEF IsQueue

\* The places that a node may take: all nodes before it are due before it.
DueBefore(q, node) == {n \in 0..Len(q) : \A i \in 1..n : node.expiry > Due(q, i)}

\* r is q with a new node after the k-th one; the others stay in order, and the
\* one after it counts from it.
InsertedAfter(q, node, r, k) ==
  LET difference == node.expiry - Due(q, k) IN
  /\ IsQueue(r) /\ Len(r) = Len(q) + 1
  /\ \A i \in 1..k : r[i] = q[i]
  /\ r[k + 1] = [node EXCEPT !.expiry = difference]
  /\ \A i \in (k + 1)..Len(q) :
       r[i + 1] = IF i = k + 1 THEN [q[k + 1] EXCEPT !.expiry = @ - difference] ELSE q[i]

\* An insertion is one.
LEMMA InsertPlaces ==
  ASSUME NEW q, IsQueue(q), NEW node, IsNode(node), NEW r, r = insertQ(q, node)
  PROVE  /\ Max(DueBefore(q, node)) \in DueBefore(q, node)
         /\ InsertedAfter(q, node, r, Max(DueBefore(q, node)))
<1> DEFINE D == DueBefore(q, node)
           k == Max(D)
           difference == node.expiry - Due(q, k)
           here == [node EXCEPT !.expiry = difference]
           next == [q[k + 1] EXCEPT !.expiry = @ - difference]
           rest == [i \in 1..(Len(q) - k) |-> IF i = 1 THEN next ELSE q[k + i]]
           S == {q[i] : i \in DOMAIN q} \cup {here, next}
<1>1. Len(q) \in Nat /\ DOMAIN q = 1..Len(q)
  BY QueueFacts
<1>2. k \in 0..Len(q) /\ k \in D
  <2>1. D \in SUBSET (0..Len(q)) /\ D # {}
    <3>1. 0 \in D
      BY <1>1 DEF DueBefore
    <3> QED
      BY <3>1 DEF DueBefore
  <2> QED
    BY <1>1, <2>1, MaxIsIn
<1>3. r = SubSeq(q, 1, k) \o <<here>> \o rest
  BY DEF insertQ, DueBefore
<1>4. IsNode(here) /\ here.timer = node.timer
  BY DEF IsNode
<1>5. \A i \in 1..Len(q) : IsNode(q[i])
  BY <1>1 DEF IsQueue
<1>6. k < Len(q) => IsNode(next) /\ next.timer = q[k + 1].timer
  <2> SUFFICES ASSUME k < Len(q) PROVE IsNode(next) /\ next.timer = q[k + 1].timer
    OBVIOUS
  <2>1. k + 1 \in 1..Len(q)
    BY <1>1, <1>2
  <2>2. IsNode(q[k + 1])
    BY <1>5, <2>1
  <2> HIDE DEF k
  <2> QED
    BY <2>2 DEF IsNode
<1> DEFINE Here(n) == [node EXCEPT !.expiry = node.expiry - Due(q, n)]
           Behind(n) == [q[n + 1] EXCEPT !.expiry = @ - (node.expiry - Due(q, n))]
<1>a. here = Here(k) /\ next = Behind(k)
  OBVIOUS
<1> HIDE DEF k, here, next
<1>7. \A i \in 1..Len(q) : q[i] \in S
  BY <1>1
<1>8. here \in S /\ next \in S
  OBVIOUS
<1> HIDE DEF S
<1> DEFINE before == SubSeq(q, 1, k)
<1>9. /\ before \in Seq(S) /\ Len(before) = k
      /\ \A i \in 1..k : before[i] = q[i]
  <2>1. \A i \in 1..k : q[i] \in S
    BY <1>1, <1>2, <1>7
  <2>2. /\ before \in Seq(S) /\ Len(before) = IF 1 <= k THEN k - 1 + 1 ELSE 0
        /\ \A i \in 1..(k - 1 + 1) : before[i] = q[1 + i - 1]
    BY <1>2, <2>1, SubSeqProperties
  <2> HIDE DEF before
  <2> QED
    BY <1>1, <1>2, <2>2
<1>10. /\ rest \in Seq(S) /\ Len(rest) = Len(q) - k
       /\ \A i \in 1..(Len(q) - k) : rest[i] = IF i = 1 THEN next ELSE q[k + i]
  <2>1. \A i \in 1..(Len(q) - k) : (IF i = 1 THEN next ELSE q[k + i]) \in S
    BY <1>1, <1>2, <1>7, <1>8
  <2>2. rest \in [1..(Len(q) - k) -> S]
    BY <2>1
  <2>3. Len(q) - k \in Nat
    BY <1>1, <1>2
  <2> QED
    BY <2>2, <2>3
<1> HIDE DEF before, rest
<1> DEFINE left == before \o <<here>>
<1>11. /\ left \in Seq(S) /\ Len(left) = k + 1 /\ left[k + 1] = here
       /\ \A i \in 1..k : left[i] = q[i]
  <2>1. <<here>> \in Seq(S) /\ Len(<<here>>) = 1 /\ <<here>>[1] = here
    BY <1>8
  <2>2. /\ left \in Seq(S) /\ Len(left) = Len(before) + Len(<<here>>)
        /\ \A i \in 1..(Len(before) + Len(<<here>>)) :
             left[i] = IF i <= Len(before) THEN before[i] ELSE <<here>>[i - Len(before)]
    BY <1>9, <2>1, ConcatProperties
  <2> HIDE DEF left
  <2> QED
    BY <1>2, <1>9, <2>1, <2>2
<1> HIDE DEF left
<1>12. /\ r \in Seq(S) /\ Len(r) = Len(q) + 1
       /\ \A i \in 1..(Len(q) + 1) : r[i] = IF i <= k + 1 THEN left[i] ELSE rest[i - (k + 1)]
  <2>1. r = left \o rest
    BY <1>3 DEF left, before
  <2>2. /\ left \o rest \in Seq(S) /\ Len(left \o rest) = Len(left) + Len(rest)
        /\ \A i \in 1..(Len(left) + Len(rest)) :
             (left \o rest)[i] = IF i <= Len(left) THEN left[i] ELSE rest[i - Len(left)]
    BY <1>10, <1>11, ConcatProperties
  <2>3. Len(left) + Len(rest) = Len(q) + 1
    BY <1>1, <1>2, <1>10, <1>11
  <2> QED
    BY <1>11, <2>1, <2>2, <2>3
<1>13. \A i \in 1..k : r[i] = q[i]
  BY <1>1, <1>2, <1>11, <1>12
<1>14. r[k + 1] = here
  BY <1>1, <1>2, <1>11, <1>12
<1>15. \A i \in (k + 1)..Len(q) : r[i + 1] = IF i = k + 1 THEN next ELSE q[i]
  <2> SUFFICES ASSUME NEW i \in (k + 1)..Len(q)
               PROVE  r[i + 1] = IF i = k + 1 THEN next ELSE q[i]
    OBVIOUS
  <2>1. i - k \in 1..(Len(q) - k) /\ k + (i - k) = i /\ (i + 1) - (k + 1) = i - k
    BY <1>1, <1>2
  <2>2. r[i + 1] = rest[i - k]
    BY <1>1, <1>2, <1>12, <2>1
  <2>3. rest[i - k] = IF i - k = 1 THEN next ELSE q[i]
    BY <1>10, <2>1
  <2> QED
    BY <1>1, <1>2, <2>2, <2>3
<1>16. \A i \in (k + 1)..Len(q) : r[i + 1].timer = q[i].timer /\ IsNode(r[i + 1])
  <2> SUFFICES ASSUME NEW i \in (k + 1)..Len(q)
               PROVE  r[i + 1].timer = q[i].timer /\ IsNode(r[i + 1])
    OBVIOUS
  <2>1. k < Len(q) /\ i \in 1..Len(q)
    BY <1>1, <1>2
  <2>2. CASE i = k + 1
    BY <1>6, <1>15, <2>1, <2>2
  <2>3. CASE i # k + 1
    BY <1>5, <1>15, <2>1, <2>3
  <2> QED
    BY <2>2, <2>3
<1>17. \A i \in 1..Len(r) : IsNode(r[i])
  <2> SUFFICES ASSUME NEW i \in 1..Len(r) PROVE IsNode(r[i])
    OBVIOUS
  <2>1. CASE i <= k
    BY <1>1, <1>2, <1>5, <1>12, <1>13, <2>1
  <2>2. CASE i = k + 1
    BY <1>4, <1>14, <2>2
  <2>3. CASE i > k + 1
    <3>1. i - 1 \in (k + 1)..Len(q) /\ (i - 1) + 1 = i
      BY <1>1, <1>2, <1>12, <2>3
    <3> QED
      BY <1>16, <3>1
  <2> QED
    BY <1>1, <1>2, <1>12, <2>1, <2>2, <2>3
<1>18. IsQueue(r)
  BY <1>1, <1>12, <1>17, QueueIs
<1>19. InsertedAfter(q, node, r, k)
  BY <1>a, <1>12, <1>13, <1>14, <1>15, <1>18 DEF InsertedAfter
<1> QED
  BY <1>2, <1>19 DEF k

\* What an insertion means for a timer.
LEMMA InsertTimers ==
  ASSUME NEW q, IsQueue(q), NEW node, IsNode(node), NEW r, r = insertQ(q, node)
  PROVE  Added(q, node.timer, r)
<1>0. PICK k \in 0..Len(q) : InsertedAfter(q, node, r, k)
  BY InsertPlaces DEF DueBefore
<1>1. /\ IsQueue(r) /\ Len(r) = Len(q) + 1
      /\ \A i \in 1..k : r[i].timer = q[i].timer
      /\ r[k + 1].timer = node.timer
      /\ \A i \in (k + 1)..Len(q) : r[i + 1].timer = q[i].timer
  <2>1. [node EXCEPT !.expiry = node.expiry - Due(q, k)].timer = node.timer
    BY DEF IsNode
  <2>2. ASSUME NEW i \in (k + 1)..Len(q)
        PROVE  r[i + 1].timer = q[i].timer
    <3>1. IsNode(q[i])
      BY QueueFacts DEF IsQueue
    <3>2. CASE i = k + 1
      <4> DEFINE e == q[i].expiry - (node.expiry - Due(q, k))
      <4>1. r[i + 1] = [q[i] EXCEPT !.expiry = e]
        BY <1>0, <3>2 DEF InsertedAfter
      <4> HIDE DEF e
      <4> QED
        BY <3>1, <4>1 DEF IsNode
    <3>3. CASE i # k + 1
      BY <1>0, <3>3 DEF InsertedAfter
    <3> QED
      BY <3>2, <3>3
  <2>3. r[k + 1].timer = node.timer
    BY <1>0, <2>1 DEF InsertedAfter
  <2>4. IsQueue(r) /\ Len(r) = Len(q) + 1 /\ \A i \in 1..k : r[i].timer = q[i].timer
    BY <1>0 DEF InsertedAfter
  <2> QED
    BY <2>2, <2>3, <2>4
<1>2. Len(q) \in Nat /\ DOMAIN q = 1..Len(q) /\ DOMAIN r = 1..(Len(q) + 1)
  <2>1. Len(q) \in Nat /\ DOMAIN q = 1..Len(q)
    BY QueueFacts
  <2>2. DOMAIN r = 1..Len(r)
    BY <1>1, QueueFacts
  <2> QED
    BY <1>1, <2>1, <2>2
\* Where the i-th node of r comes from, and the i-th of q goes to.
<1> DEFINE from(i) == IF i <= k THEN i ELSE i - 1
           to(i) == IF i <= k THEN i ELSE i + 1
<1>3. \A i \in DOMAIN r : i # k + 1 => from(i) \in DOMAIN q /\ r[i].timer = q[from(i)].timer
  <2> SUFFICES ASSUME NEW i \in 1..(Len(q) + 1), i # k + 1
               PROVE  from(i) \in 1..Len(q) /\ r[i].timer = q[from(i)].timer
    BY <1>2
  <2>1. CASE i <= k
    BY <1>1, <1>2, <2>1
  <2>2. CASE i > k
    <3>1. i - 1 \in (k + 1)..Len(q) /\ (i - 1) + 1 = i
      BY <1>2, <2>2
    <3>2. r[i].timer = q[i - 1].timer
      BY <1>1, <3>1
    <3> QED
      BY <1>2, <2>2, <3>1, <3>2
  <2> QED
    BY <1>2, <2>1, <2>2
<1>4. \A i \in DOMAIN q : to(i) \in DOMAIN r /\ r[to(i)].timer = q[i].timer
  <2> SUFFICES ASSUME NEW i \in 1..Len(q)
               PROVE  to(i) \in 1..(Len(q) + 1) /\ r[to(i)].timer = q[i].timer
    BY <1>2
  <2>1. CASE i <= k
    BY <1>1, <1>2, <2>1
  <2>2. CASE i > k
    BY <1>1, <1>2, <2>2
  <2> QED
    BY <1>2, <2>1, <2>2
<1>5. \A i, j \in DOMAIN r : i # k + 1 /\ j # k + 1 /\ from(i) = from(j) => i = j
  BY <1>2
<1>6. k + 1 \in DOMAIN r
  BY <1>2
<1> HIDE DEF from, to
<1>7. Places(r, node.timer) # {}
  BY <1>1, <1>6 DEF Places
<1>8. Places(q, node.timer) = {} => AtMostOnce(r, node.timer)
  BY <1>3 DEF Places, AtMostOnce
<1>9. ASSUME NEW tm, tm # node.timer
      PROVE  /\ Places(r, tm) = {} <=> Places(q, tm) = {}
             /\ AtMostOnce(q, tm) => AtMostOnce(r, tm)
  <2>1. \A i \in Places(r, tm) : i # k + 1 /\ from(i) \in Places(q, tm)
    BY <1>1, <1>3, <1>9 DEF Places
  <2>2. \A i \in Places(q, tm) : to(i) \in Places(r, tm)
    BY <1>4 DEF Places
  <2>3. AtMostOnce(q, tm) => AtMostOnce(r, tm)
    <3> SUFFICES ASSUME AtMostOnce(q, tm), NEW i \in Places(r, tm), NEW j \in Places(r, tm)
                 PROVE  i = j
      BY DEF AtMostOnce
    <3>1. from(i) = from(j)
      BY <2>1 DEF AtMostOnce
    <3>2. i \in DOMAIN r /\ j \in DOMAIN r
      BY DEF Places
    <3> QED
      BY <1>5, <2>1, <3>1, <3>2
  <2> QED
    BY <2>1, <2>2, <2>3
<1> QED
  BY <1>1, <1>7, <1>8, <1>9 DEF Added, Kept

\* What a removal means for a timer: nothing, if it is another's.
LEMMA RemoveTimers ==
  ASSUME NEW q, IsQueue(q), NEW x, NEW r, r = RemoveNode(q, x)
  PROVE  Removed(q, x, r)
<1> DEFINE k == Min(Places(q, x))
<1>1. CASE Places(q, x) = {} \/ x = None
  <2>1. r = q
    BY <1>1 DEF RemoveNode, Places
  <2> QED
    BY <1>1, <2>1 DEF Removed, Kept
<1>2. CASE Places(q, x) # {} /\ x # None
  <2>1. Len(q) \in Nat /\ DOMAIN q = 1..Len(q) /\ \A i \in 1..Len(q) : IsNode(q[i])
    BY QueueFacts DEF IsQueue
  <2>2. k \in Places(q, x)
    <3>1. Places(q, x) \in SUBSET Nat
      BY <2>1 DEF Places
    <3> QED
      BY <1>2, <3>1, MinIsIn
  <2>3. k \in 1..Len(q) /\ q[k].timer = x
    BY <2>1, <2>2 DEF Places
  <2>4. r = [i \in 1..(Len(q) - 1) |->
              IF i < k THEN q[i]
              ELSE [q[i + 1] EXCEPT !.expiry = IF i = k THEN @ + q[k].expiry ELSE @]]
    BY <1>2 DEF RemoveNode, Places
  <2> HIDE DEF k
  <2> DEFINE from(i) == IF i < k THEN i ELSE i + 1
             to(i) == IF i < k THEN i ELSE i - 1
  <2>5. \A i \in 1..(Len(q) - 1) : /\ from(i) \in 1..Len(q) /\ from(i) # k
                                   /\ IsNode(r[i]) /\ r[i].timer = q[from(i)].timer
    <3> SUFFICES ASSUME NEW i \in 1..(Len(q) - 1)
                 PROVE  /\ from(i) \in 1..Len(q) /\ from(i) # k
                        /\ IsNode(r[i]) /\ r[i].timer = q[from(i)].timer
      OBVIOUS
    <3>1. from(i) \in 1..Len(q) /\ from(i) # k
      BY <2>1, <2>3
    <3>2. CASE i < k
      BY <2>1, <2>3, <2>4, <3>1, <3>2
    <3>3. CASE ~(i < k)
      <4>1. i + 1 \in 1..Len(q)
        BY <2>1
      <4>2. r[i] = [q[i + 1] EXCEPT !.expiry = IF i = k THEN @ + q[k].expiry ELSE @]
        BY <2>4, <3>3
      <4> DEFINE e == IF i = k THEN q[i + 1].expiry + q[k].expiry ELSE q[i + 1].expiry
      <4>3. r[i] = [q[i + 1] EXCEPT !.expiry = e]
        BY <4>2
      <4>4. IsNode(q[i + 1])
        BY <2>1, <4>1
      <4> HIDE DEF e
      <4>5. IsNode(r[i]) /\ r[i].timer = q[i + 1].timer
        BY <4>3, <4>4 DEF IsNode
      <4> QED
        BY <3>1, <3>3, <4>5
    <3> QED
      BY <3>2, <3>3
  <2>6. \A i \in 1..Len(q) : i # k =>
          to(i) \in 1..(Len(q) - 1) /\ from(to(i)) = i /\ r[to(i)].timer = q[i].timer
    <3>1. \A i \in 1..Len(q) : i # k => to(i) \in 1..(Len(q) - 1) /\ from(to(i)) = i
      BY <2>1, <2>3
    <3> HIDE DEF from, to
    <3> QED
      BY <2>5, <3>1
  <2>7. \A i, j \in 1..(Len(q) - 1) : from(i) = from(j) => i = j
    BY <2>1, <2>3
  <2>8. Len(q) - 1 \in Nat
    BY <2>1, <2>3
  <2>9. r = [i \in 1..(Len(q) - 1) |-> r[i]]
    BY <2>4
  <2>10. IsQueue(r) /\ Len(r) = Len(q) - 1
    BY <2>5, <2>8, <2>9, QueueIs
  <2>11. DOMAIN r = 1..(Len(q) - 1)
    BY <2>10, QueueFacts
  <2> HIDE DEF from, to
  <2>12. ASSUME NEW tm PROVE \A i \in Places(r, tm) : from(i) \in Places(q, tm) /\ from(i) # k
    BY <2>1, <2>5, <2>11 DEF Places
  <2>13. x # None /\ AtMostOnce(q, x) => Places(r, x) = {}
    BY <2>2, <2>12 DEF AtMostOnce
  <2>14. ASSUME NEW tm, tm # x \/ tm = None
         PROVE  /\ Places(r, tm) = {} <=> Places(q, tm) = {}
                /\ AtMostOnce(q, tm) => AtMostOnce(r, tm)
    <3>1. tm # x
      BY <1>2, <2>14
    <3>2. \A i \in Places(q, tm) : to(i) \in Places(r, tm)
      BY <2>1, <2>3, <2>6, <2>11, <3>1 DEF Places
    <3>3. AtMostOnce(q, tm) => AtMostOnce(r, tm)
      <4> SUFFICES ASSUME AtMostOnce(q, tm), NEW i \in Places(r, tm), NEW j \in Places(r, tm)
                   PROVE  i = j
        BY DEF AtMostOnce
      <4>1. from(i) = from(j)
        BY <2>12 DEF AtMostOnce
      <4>2. i \in DOMAIN r /\ j \in DOMAIN r
        BY DEF Places
      <4> QED
        BY <2>7, <2>11, <4>1, <4>2
    <3> QED
      BY <2>12, <3>2, <3>3
  <2> QED
    BY <2>10, <2>13, <2>14 DEF Removed, Kept
<1> QED
  BY <1>1, <1>2

\* A queue with the same timers in the same places.
LEMMA SameTimers ==
  ASSUME NEW q, IsQueue(q), NEW f, f = [i \in DOMAIN q |-> f[i]],
         \A i \in DOMAIN q : IsNode(f[i]) /\ f[i].timer = q[i].timer
  PROVE  IsQueue(f) /\ \A tm : Places(f, tm) = Places(q, tm)
<1>1. Len(q) \in Nat /\ DOMAIN q = 1..Len(q)
  BY QueueFacts
<1>2. IsQueue(f)
  BY <1>1, QueueIs
<1>3. DOMAIN f = DOMAIN q
  OBVIOUS
<1>4. ASSUME NEW tm PROVE Places(f, tm) = Places(q, tm)
  BY <1>3 DEF Places
<1> QED
  BY <1>2, <1>4

\* The first node leaves.
LEMMA TailTimers ==
  ASSUME NEW q, IsQueue(q), q # <<>>
  PROVE  IsNode(Head(q)) /\ Left(q, Head(q).timer, Tail(q))
<1> DEFINE r == Tail(q)
<1>1. Len(q) \in Nat /\ DOMAIN q = 1..Len(q) /\ \A i \in 1..Len(q) : IsNode(q[i])
  BY QueueFacts DEF IsQueue
<1>2. q \in Seq({q[i] : i \in DOMAIN q})
  BY DEF IsQueue
<1>3. /\ Len(q) - 1 \in Nat /\ Len(r) = Len(q) - 1 /\ Head(q) = q[1]
      /\ r = [i \in 1..(Len(q) - 1) |-> r[i]]
      /\ \A i \in 1..(Len(q) - 1) : r[i] = q[i + 1]
  <2> DEFINE S == {q[i] : i \in DOMAIN q}
  <2>1. q \in Seq(S)
    BY <1>2
  <2> HIDE DEF S
  <2>2. Len(q) # 0
    BY <2>1, EmptySeq
  <2>3. Len(q) - 1 \in Nat
    BY <1>1, <2>2
  <2>4. Head(q) = q[1]
    BY <2>1, <2>2
  <2>5. /\ r \in Seq(S) /\ Len(r) = Len(q) - 1
        /\ \A i \in 1..Len(r) : r[i] = q[i + 1]
    BY <2>1, HeadTailProperties
  <2> HIDE DEF r
  <2>6. r = [i \in 1..Len(r) |-> r[i]]
    <3>1. r \in [1..Len(r) -> S]
      BY <2>5, LenProperties
    <3> QED
      BY <3>1
  <2> QED
    BY <2>3, <2>4, <2>5, <2>6
<1> HIDE DEF r
<1>4. \A i \in 1..(Len(q) - 1) : i + 1 \in 1..Len(q) /\ r[i] = q[i + 1]
  BY <1>1, <1>3
<1>5. r = [i \in 1..(Len(q) - 1) |-> r[i]]
  BY <1>3
<1>6. IsQueue(r) /\ DOMAIN r = 1..(Len(q) - 1)
  BY <1>1, <1>3, <1>4, <1>5, QueueIs
<1>7. 1 \in 1..Len(q)
  BY <1>1, <1>3
<1>8. Places(q, Head(q).timer) # {} /\ 1 \in Places(q, Head(q).timer)
  BY <1>1, <1>3, <1>7 DEF Places
<1>9. ASSUME NEW tm PROVE \A i \in Places(r, tm) : i \in Nat /\ i >= 1 /\ i + 1 \in Places(q, tm)
  BY <1>1, <1>4, <1>6 DEF Places
<1>10. AtMostOnce(q, Head(q).timer) => Places(r, Head(q).timer) = {}
  <2> SUFFICES ASSUME AtMostOnce(q, Head(q).timer), NEW i \in Places(r, Head(q).timer) PROVE FALSE
    OBVIOUS
  <2>1. i + 1 = 1 /\ i \in Nat /\ i >= 1
    BY <1>8, <1>9 DEF AtMostOnce
  <2> QED
    BY <2>1
<1>11. ASSUME NEW tm, AtMostOnce(q, tm) PROVE AtMostOnce(r, tm)
  <2> SUFFICES ASSUME NEW i \in Places(r, tm), NEW j \in Places(r, tm) PROVE i = j
    BY DEF AtMostOnce
  <2>1. i + 1 = j + 1 /\ i \in Nat /\ j \in Nat
    BY <1>9, <1>11 DEF AtMostOnce
  <2> QED
    BY <2>1
<1>12. ASSUME NEW tm, tm # Head(q).timer, Places(q, tm) # {} PROVE Places(r, tm) # {}
  <2>1. PICK i \in 1..Len(q) : q[i].timer = tm
    BY <1>1, <1>12 DEF Places
  <2>2. i # 1
    BY <1>3, <1>12, <2>1
  <2>3. i - 1 \in 1..(Len(q) - 1) /\ (i - 1) + 1 = i
    BY <1>1, <2>2
  <2>4. r[i - 1] = q[i]
    BY <1>4, <2>3
  <2> QED
    BY <1>6, <2>1, <2>3, <2>4 DEF Places
<1> QED
  BY <1>1, <1>3, <1>6, <1>7, <1>8, <1>9, <1>10, <1>11, <1>12 DEF r, Left, Kept

-----------------------------------------------------------------------------
(* Messages in a queue                                                        *)

In(q, m) == \E i \in DOMAIN q : q[i] = m
Once(q, m) == \A i, j \in DOMAIN q : q[i] = m /\ q[j] = m => i = j
Before(q, m, n) == \A i, j \in DOMAIN q : q[i] = m /\ q[j] = n => i < j

\* r is q with the message e at the end.
Appended(q, e, r) ==
  /\ \A m : In(r, m) <=> In(q, m) \/ m = e
  /\ \A m : Once(q, m) /\ m # e => Once(r, m)
  /\ ~In(q, e) => Once(r, e)
  /\ \A m, n : Before(q, m, n) /\ m # e => Before(r, m, n)
  /\ \A n : ~In(q, n) /\ n # e => Before(r, e, n)

\* r is q without its first message e.
Taken(q, e, r) ==
  /\ In(q, e)
  /\ \A m : In(r, m) => In(q, m)
  /\ \A m : In(q, m) => In(r, m) \/ m = e
  /\ \A m : Once(q, m) => Once(r, m)
  /\ Once(q, e) => ~In(r, e)
  /\ \A m, n : Before(q, m, n) => Before(r, m, n)
  /\ \A m : Before(q, m, e) => ~In(q, m)

LEMMA AppendFacts ==
  ASSUME NEW S, NEW q \in Seq(S), NEW e \in S, NEW r, r = Append(q, e)
  PROVE  r \in Seq(S) /\ Appended(q, e, r)
<1>1. /\ Len(q) \in Nat /\ DOMAIN q = 1..Len(q)
      /\ r \in Seq(S) /\ DOMAIN r = 1..(Len(q) + 1)
      /\ \A i \in 1..Len(q) : r[i] = q[i]
      /\ r[Len(q) + 1] = e
  BY AppendProperties, LenProperties
<1>2. ASSUME NEW m PROVE In(r, m) <=> In(q, m) \/ m = e
  BY <1>1 DEF In
<1>3. ASSUME NEW m, Once(q, m), m # e PROVE Once(r, m)
  BY <1>1, <1>3 DEF Once
<1>4. ASSUME ~In(q, e) PROVE Once(r, e)
  BY <1>1, <1>4 DEF In, Once
<1>5. ASSUME NEW m, NEW n, Before(q, m, n), m # e PROVE Before(r, m, n)
  BY <1>1, <1>5 DEF Before
<1>6. ASSUME NEW n, ~In(q, n), n # e PROVE Before(r, e, n)
  BY <1>1, <1>6 DEF In, Before
<1> QED
  BY <1>1, <1>2, <1>3, <1>4, <1>5, <1>6 DEF Appended

LEMMA TailFacts ==
  ASSUME NEW S, NEW q \in Seq(S), q # <<>>, NEW r, r = Tail(q), NEW e, e = Head(q)
  PROVE  r \in Seq(S) /\ e \in S /\ Taken(q, e, r)
<1>1. Len(q) \in Nat \ {0} /\ DOMAIN q = 1..Len(q)
  BY EmptySeq, LenProperties
<1>2. r \in Seq(S) /\ e \in S /\ Len(r) = Len(q) - 1 /\ e = q[1]
      /\ \A i \in 1..Len(r) : r[i] = q[i + 1]
  <2>1. /\ e \in S /\ r \in Seq(S) /\ Len(r) = Len(q) - 1
        /\ \A i \in 1..Len(r) : r[i] = q[i + 1]
    BY HeadTailProperties
  <2>2. e = q[1]
    BY <1>1
  <2> QED
    BY <2>1, <2>2
<1>3. DOMAIN r = 1..(Len(q) - 1)
  BY <1>2, LenProperties
<1>4. In(q, e)
  BY <1>1, <1>2 DEF In
<1>5. \A i \in DOMAIN r : i + 1 \in DOMAIN q /\ r[i] = q[i + 1]
  BY <1>1, <1>2, <1>3
<1>6. ASSUME NEW m, In(r, m) PROVE In(q, m)
  BY <1>5, <1>6 DEF In
<1>7. ASSUME NEW m, In(q, m), m # e PROVE In(r, m)
  <2>1. PICK i \in DOMAIN q : q[i] = m
    BY <1>7 DEF In
  <2>2. i # 1
    BY <1>2, <1>7, <2>1
  <2>3. i - 1 \in DOMAIN r /\ (i - 1) + 1 = i
    BY <1>1, <1>3, <2>2
  <2> QED
    BY <1>5, <2>1, <2>3 DEF In
<1>8. ASSUME NEW m, Once(q, m) PROVE Once(r, m)
  <2> SUFFICES ASSUME NEW i \in DOMAIN r, NEW j \in DOMAIN r, r[i] = m, r[j] = m PROVE i = j
    BY DEF Once
  <2>1. i + 1 = j + 1
    BY <1>5, <1>8 DEF Once
  <2> QED
    BY <1>3, <2>1
<1>9. ASSUME Once(q, e) PROVE ~In(r, e)
  <2> SUFFICES ASSUME NEW i \in DOMAIN r, r[i] = e PROVE FALSE
    BY DEF In
  <2>1. i + 1 = 1
    BY <1>1, <1>2, <1>5, <1>9 DEF Once
  <2> QED
    BY <1>3, <2>1
<1>10. ASSUME NEW m, NEW n, Before(q, m, n) PROVE Before(r, m, n)
  <2> SUFFICES ASSUME NEW i \in DOMAIN r, NEW j \in DOMAIN r, r[i] = m, r[j] = n PROVE i < j
    BY DEF Before
  <2>1. i + 1 < j + 1
    BY <1>5, <1>10 DEF Before
  <2> QED
    BY <1>3, <2>1
<1>11. ASSUME NEW m, Before(q, m, e) PROVE ~In(q, m)
  <2> SUFFICES ASSUME NEW i \in DOMAIN q, q[i] = m PROVE FALSE
    BY DEF In
  <2>1. i < 1
    BY <1>1, <1>2, <1>11 DEF Before
  <2> QED
    BY <1>1, <2>1
<1> QED
  BY <1>2, <1>4, <1>6, <1>7, <1>8, <1>9, <1>10, <1>11 DEF Taken

-----------------------------------------------------------------------------
(* The inductive invariant                                                    *)

Messages == [type : {"START", "STOP"}, timer : Timers]
Requests == [type : {"ADD", "REMOVE"}, timer : Timers \cup {None}]
START(tm) == [type |-> "START", timer |-> tm]
STOP(tm) == [type |-> "STOP", timer |-> tm]
ADD(tm) == [type |-> "ADD", timer |-> tm]
REMOVE(tm) == [type |-> "REMOVE", timer |-> tm]

\* Types, without the times.
ShapeInv ==
  /\ mState \in [Timers -> {"CREATED", "STARTED", "STOPPED"}]
  /\ mTimerId \in [Timers -> Timers \cup {None}]
  /\ owner \in [Timers -> {"idle", "stopping", "waiting"}]
  /\ taskQ \in Seq(Messages) /\ requestQ \in Seq(Requests)
  /\ task \in [timer : Timers \cup {None}, synch : BOOLEAN]
  /\ IsQueue(timerQ) /\ IsNode(firing)

\* The dummy timer is always there.
DummyInv ==
  /\ thread \in {"wait", "serve"} => firing.timer = None /\ Places(timerQ, None) # {}
  /\ thread \in {"wait", "serve", "fire"}
  /\ firing.timer = None \/ Places(timerQ, None) # {}

\* A known timer has its id, no timer has another's.
IdInv ==
  /\ \A tm \in Timers : mTimerId[tm] \in {tm, None}
  /\ \A tm \in Known : mTimerId[tm] = tm /\ mState[tm] # "CREATED"

\* A removal is requested for the timer that OsTimerTask waits for, once.
RequestInv ==
  \A x \in Timers \cup {None} : In(requestQ, REMOVE(x)) =>
    /\ task.timer # None /\ ~task.synch /\ x \in {task.timer, None}
    /\ task.timer \in Known => x = task.timer
    /\ Once(requestQ, REMOVE(x))
    /\ \A y \in Timers \cup {None} : In(requestQ, REMOVE(y)) => y = x

\* What makes a timer fire: a message, a request or a node.
Armed(tm) ==
  \/ In(taskQ, START(tm)) \/ In(requestQ, ADD(tm))
  \/ Places(timerQ, tm) # {} \/ firing.timer = tm

\* There is one of them at most, and none when the timer is stopped.
ArmedOnce(tm) ==
  /\ Once(taskQ, START(tm)) /\ Once(requestQ, ADD(tm)) /\ AtMostOnce(timerQ, tm)
  /\ In(taskQ, START(tm)) =>
       ~In(requestQ, ADD(tm)) /\ Places(timerQ, tm) = {} /\ firing.timer # tm
  /\ In(requestQ, ADD(tm)) => Places(timerQ, tm) = {} /\ firing.timer # tm
  /\ Places(timerQ, tm) # {} => firing.timer # tm
  /\ mState[tm] = "STOPPED" => ~Armed(tm)

\* A stop comes after the start it is about, and when it is done the timer is
\* not armed.
StopInv(tm) ==
  /\ Once(taskQ, STOP(tm))
  /\ owner[tm] # "waiting" => ~In(taskQ, STOP(tm)) /\ task.timer # tm
  /\ task.timer = tm => ~In(taskQ, STOP(tm)) /\ ~In(taskQ, START(tm))
  /\ Before(taskQ, START(tm), STOP(tm))
  /\ Before(requestQ, ADD(tm), REMOVE(tm))
  /\ task.timer = tm /\ task.synch => ~Armed(tm)

GlobalInv == ShapeInv /\ DummyInv /\ IdInv /\ RequestInv
Inv == GlobalInv /\ \A tm \in Known : ArmedOnce(tm) /\ StopInv(tm)

\* Messages are equal only if they say the same of the same timer.
LEMMA MessageFacts ==
  \A x, y : /\ START(x) # STOP(y) /\ ADD(x) # REMOVE(y)
            /\ START(x) = START(y) <=> x = y
            /\ STOP(x) = STOP(y) <=> x = y
            /\ ADD(x) = ADD(y) <=> x = y
            /\ REMOVE(x) = REMOVE(y) <=> x = y
            /\ START(x).timer = x /\ STOP(x).timer = x
            /\ ADD(x).timer = x /\ REMOVE(x).timer = x
            /\ START(x).type = "START" /\ STOP(x).type = "STOP"
            /\ ADD(x).type = "ADD" /\ REMOVE(x).type = "REMOVE"
<1> QED
  BY DEF START, STOP, ADD, REMOVE

LEMMA MessageKinds ==
  /\ \A m \in Messages : m.timer \in Timers /\ (m = START(m.timer) \/ m = STOP(m.timer))
  /\ \A m \in Requests : m.timer \in Timers \cup {None} /\ (m = ADD(m.timer) \/ m = REMOVE(m.timer))
  /\ \A x \in Timers : START(x) \in Messages /\ STOP(x) \in Messages /\ ADD(x) \in Requests
  /\ \A x \in Timers \cup {None} : REMOVE(x) \in Requests
<1> QED
  BY DEF Messages, Requests, START, STOP, ADD, REMOVE

\* The invariant says that a stopped timer is not used.
LEMMA InvStopped == Inv => StoppedIsUnused
<1> SUFFICES ASSUME Inv, NEW tm \in Known, mState[tm] = "STOPPED", owner[tm] = "idle"
             PROVE  Unused(tm)
  BY DEF StoppedIsUnused, StopIsFinal, Known
<1>1. ~Armed(tm) /\ ~In(taskQ, STOP(tm)) /\ task.timer # tm
  BY DEF Inv, ArmedOnce, StopInv
<1>2. tm # None /\ tm \in Timers
  BY TimersAssumption DEF Known
<1>3. ~In(requestQ, REMOVE(tm))
  BY <1>1, <1>2 DEF Inv, GlobalInv, RequestInv
<1>4. tm \notin {node.timer : node \in Nodes}
  BY <1>1 DEF Armed, Places, Nodes
<1>5. ASSUME NEW i \in DOMAIN taskQ PROVE taskQ[i].timer # tm
  <2>1. taskQ[i] \in Messages
    BY LenProperties, ElementOfSeq DEF Inv, GlobalInv, ShapeInv
  <2> QED
    BY <1>1, <2>1, MessageKinds DEF Armed, In
<1>6. ASSUME NEW i \in DOMAIN requestQ PROVE requestQ[i].timer # tm
  <2>1. requestQ[i] \in Requests
    BY LenProperties, ElementOfSeq DEF Inv, GlobalInv, ShapeInv
  <2> QED
    BY <1>1, <1>3, <2>1, MessageKinds DEF Armed, In
<1> QED
  BY <1>1, <1>4, <1>5, <1>6 DEF Unused, Armed

LEMMA InitInv == Init => Inv
<1> SUFFICES ASSUME Init PROVE Inv
  OBVIOUS
<1> USE DEF Init
<1>1. /\ IsQueue(timerQ) /\ Places(timerQ, None) = {1} /\ AtMostOnce(timerQ, None)
      /\ \A tm \in Timers : Places(timerQ, tm) = {}
  <2> DEFINE dummy == [timer |-> None, expiry |-> Heartbeat, left |-> Heartbeat]
  <2>1. timerQ = <<dummy>> /\ IsNode(dummy) /\ dummy.timer = None
    BY DEF IsNode
  <2> HIDE DEF dummy
  <2>2. DOMAIN timerQ = {1} /\ timerQ[1] = dummy /\ timerQ \in Seq({dummy})
    BY <2>1
  <2>3. IsQueue(timerQ)
    BY <2>1, <2>2 DEF IsQueue
  <2> QED
    BY <2>1, <2>2, <2>3, TimersAssumption DEF Places, AtMostOnce
<1>2. IsNode(firing) /\ firing.timer = None /\ task.timer = None
  BY DEF IsNode, NoNode, NoTask
<1>3. \A m : ~In(taskQ, m) /\ ~In(requestQ, m) /\ Once(taskQ, m) /\ Once(requestQ, m)
  BY DEF In, Once
<1>4. \A m, n : Before(taskQ, m, n) /\ Before(requestQ, m, n)
  BY DEF Before
<1>5. ShapeInv
  <2>1. taskQ \in Seq(Messages) /\ requestQ \in Seq(Requests)
    OBVIOUS
  <2> QED
    BY <1>1, <1>2, <2>1, TimersAssumption DEF ShapeInv, NoTask
<1>6. DummyInv
  BY <1>1, <1>2 DEF DummyInv
<1>7. IdInv
  BY TimersAssumption DEF IdInv, Known
<1>8. RequestInv
  BY <1>3 DEF RequestInv
<1>9. ASSUME NEW tm \in Known PROVE ArmedOnce(tm) /\ StopInv(tm)
  <2>1. tm \in Timers /\ tm # None
    BY TimersAssumption DEF Known
  <2>2. ~Armed(tm) /\ AtMostOnce(timerQ, tm)
    BY <1>1, <1>2, <1>3, <2>1 DEF Armed, AtMostOnce
  <2> QED
    BY <1>1, <1>2, <1>3, <1>4, <2>1, <2>2 DEF ArmedOnce, StopInv
<1> QED
  BY <1>5, <1>6, <1>7, <1>8, <1>9 DEF Inv, GlobalInv

-----------------------------------------------------------------------------
(* The owner's steps                                                          *)

LEMMA StartStep ==
  ASSUME Inv, NEW x \in Timers, NEW offset, doStartTimer(x, offset) PROVE Inv'
<1> USE DEF Inv, GlobalInv
<1>1. /\ owner[x] = "idle" /\ mState[x] \in {"CREATED", "STOPPED"}
      /\ mState' = [mState EXCEPT ![x] = "STARTED"]
      /\ taskQ' = Append(taskQ, START(x))
      /\ UNCHANGED <<mTimerId, owner, task, requestQ, timerQ, firing, thread>>
  BY DEF doStartTimer, START, threads
<1>2. taskQ \in Seq(Messages) /\ START(x) \in Messages
  BY MessageKinds DEF ShapeInv
<1>3. taskQ' \in Seq(Messages) /\ Appended(taskQ, START(x), taskQ')
  BY <1>1, <1>2, AppendFacts
<1> USE DEF Appended
<1>4. GlobalInv'
  <2>1. ShapeInv'
    BY <1>1, <1>3 DEF ShapeInv
  <2>2. DummyInv'
    BY <1>1 DEF DummyInv
  <2>3. IdInv'
    BY <1>1 DEF IdInv, ShapeInv, Known
  <2>4. RequestInv'
    BY <1>1 DEF RequestInv
  <2> QED
    BY <2>1, <2>2, <2>3, <2>4
<1>5. ASSUME NEW tm \in Known PROVE ArmedOnce(tm)' /\ StopInv(tm)'
  <2>1. ArmedOnce(tm) /\ StopInv(tm) /\ tm \in Timers
    BY DEF Known
  <2>2. CASE tm = x
    <3>1. ~Armed(tm)
      BY <1>1, <2>1, <2>2 DEF IdInv, ArmedOnce
    <3>2. ~In(taskQ, STOP(tm)) /\ task.timer # tm
      BY <1>1, <2>1, <2>2 DEF StopInv
    <3>3. mState'[tm] = "STARTED"
      BY <1>1, <2>1, <2>2 DEF ShapeInv
    <3>4. ArmedOnce(tm)'
      BY <1>1, <1>3, <2>1, <2>2, <3>1, <3>3 DEF ArmedOnce, Armed
    <3>5. StopInv(tm)'
      BY <1>1, <1>3, <2>1, <2>2, <3>2, MessageFacts DEF StopInv
    <3> QED
      BY <3>4, <3>5
  <2>3. CASE tm # x
    <3>1. mState'[tm] = mState[tm]
      BY <1>1, <2>3
    <3>2. /\ In(taskQ', START(tm)) <=> In(taskQ, START(tm))
          /\ In(taskQ', STOP(tm)) <=> In(taskQ, STOP(tm))
          /\ Once(taskQ, START(tm)) => Once(taskQ', START(tm))
          /\ Once(taskQ, STOP(tm)) => Once(taskQ', STOP(tm))
          /\ Before(taskQ, START(tm), STOP(tm)) => Before(taskQ', START(tm), STOP(tm))
      BY <1>3, <2>3, MessageFacts
    <3>3. Armed(tm)' <=> Armed(tm)
      BY <1>1, <3>2 DEF Armed
    <3> QED
      BY <1>1, <2>1, <3>1, <3>2, <3>3 DEF ArmedOnce, StopInv
  <2> QED
    BY <2>2, <2>3
<1> QED
  BY <1>4, <1>5

LEMMA DoStopStep ==
  ASSUME Inv, NEW x \in Timers, doStopTimer(x) PROVE Inv'
<1> USE DEF Inv, GlobalInv
<1>1. /\ owner[x] = "idle" /\ owner' = [owner EXCEPT ![x] = "stopping"]
      /\ UNCHANGED <<mState, mTimerId, taskQ, task, requestQ, timerQ, firing, thread>>
  BY DEF doStopTimer, threads, tasks
<1>2. GlobalInv'
  BY <1>1 DEF ShapeInv, DummyInv, IdInv, RequestInv
<1>3. ASSUME NEW tm \in Known PROVE ArmedOnce(tm)' /\ StopInv(tm)'
  <2>1. ArmedOnce(tm) /\ StopInv(tm) /\ tm \in Timers
    BY DEF Known
  <2>2. owner'[tm] # "waiting" => owner[tm] # "waiting"
    BY <1>1, <2>1 DEF ShapeInv
  <2>3. Armed(tm)' <=> Armed(tm)
    BY <1>1 DEF Armed
  <2> QED
    BY <1>1, <2>1, <2>2, <2>3 DEF ArmedOnce, StopInv
<1> QED
  BY <1>2, <1>3

LEMMA StopStep ==
  ASSUME Inv, NEW x \in Timers, stopTimer(x) PROVE Inv'
<1> USE DEF Inv, GlobalInv
<1>1. /\ owner[x] = "stopping" /\ owner' = [owner EXCEPT ![x] = "waiting"]
      /\ taskQ' = Append(taskQ, STOP(x))
      /\ UNCHANGED <<mState, mTimerId, task, requestQ, timerQ, firing, thread>>
  BY DEF stopTimer, STOP, threads
<1>2. taskQ \in Seq(Messages) /\ STOP(x) \in Messages
  BY MessageKinds DEF ShapeInv
<1>3. taskQ' \in Seq(Messages) /\ Appended(taskQ, STOP(x), taskQ')
  BY <1>1, <1>2, AppendFacts
<1> USE DEF Appended
<1>4. GlobalInv'
  BY <1>1, <1>3 DEF ShapeInv, DummyInv, IdInv, RequestInv
<1>5. ASSUME NEW tm \in Known PROVE ArmedOnce(tm)' /\ StopInv(tm)'
  <2>1. ArmedOnce(tm) /\ StopInv(tm) /\ tm \in Timers
    BY DEF Known
  <2>2. /\ In(taskQ', START(tm)) <=> In(taskQ, START(tm))
        /\ Once(taskQ, START(tm)) => Once(taskQ', START(tm))
        /\ Before(taskQ, START(tm), STOP(tm)) => Before(taskQ', START(tm), STOP(tm))
    BY <1>3, MessageFacts
  <2>3. Armed(tm)' <=> Armed(tm)
    BY <1>1, <2>2 DEF Armed
  <2>4. ArmedOnce(tm)'
    BY <1>1, <2>1, <2>2, <2>3 DEF ArmedOnce
  <2>5. CASE tm = x
    <3>1. ~In(taskQ, STOP(tm)) /\ task.timer # tm
      BY <1>1, <2>1, <2>5 DEF StopInv
    <3>2. owner'[tm] = "waiting"
      BY <1>1, <2>1, <2>5 DEF ShapeInv
    <3> QED
      BY <1>1, <1>3, <2>1, <2>2, <2>4, <2>5, <3>1, <3>2 DEF StopInv
  <2>6. CASE tm # x
    <3>1. owner'[tm] = owner[tm]
      BY <1>1, <2>6
    <3>2. /\ In(taskQ', STOP(tm)) <=> In(taskQ, STOP(tm))
          /\ Once(taskQ, STOP(tm)) => Once(taskQ', STOP(tm))
      BY <1>3, <2>6, MessageFacts
    <3> QED
      BY <1>1, <2>1, <2>2, <2>3, <2>4, <3>1, <3>2 DEF StopInv
  <2> QED
    BY <2>5, <2>6
<1> QED
  BY <1>4, <1>5

-----------------------------------------------------------------------------
(* OsTimerTask's steps                                                        *)

LEMMA HandleStep ==
  ASSUME Inv, handleMessage PROVE Inv'
<1> USE DEF Inv, GlobalInv
<1> DEFINE msg == Head(taskQ)
           x == msg.timer
<1>1. /\ task.timer = None /\ taskQ # <<>> /\ taskQ' = Tail(taskQ)
      /\ UNCHANGED <<mState, mTimerId, owner, timerQ, firing, thread>>
  BY DEF handleMessage, owners
<1>2. taskQ \in Seq(Messages) /\ requestQ \in Seq(Requests)
  BY DEF ShapeInv
<1>3. taskQ' \in Seq(Messages) /\ msg \in Messages /\ Taken(taskQ, msg, taskQ')
  BY <1>1, <1>2, TailFacts
<1> USE DEF Taken
<1>4. x \in Timers /\ (msg = START(x) \/ msg = STOP(x))
  BY <1>3, MessageKinds
<1>5. \A y \in Timers \cup {None} : ~In(requestQ, REMOVE(y))
  BY <1>1 DEF RequestInv
<1>6. CASE msg = START(x)
  <2>1. requestQ' = Append(requestQ, ADD(x)) /\ task' = task
    BY <1>6, MessageFacts DEF handleMessage, ADD, START
  <2>2. ADD(x) \in Requests
    BY <1>4, MessageKinds
  <2>3. requestQ' \in Seq(Requests) /\ Appended(requestQ, ADD(x), requestQ')
    BY <1>2, <2>1, <2>2, AppendFacts
  <2> USE DEF Appended
  <2>4. \A y \in Timers \cup {None} : ~In(requestQ', REMOVE(y))
    BY <1>5, <2>3, MessageFacts
  <2>5. GlobalInv'
    <3>1. RequestInv'
      BY <2>4 DEF RequestInv
    <3>2. ShapeInv'
      BY <1>1, <1>3, <2>1, <2>3 DEF ShapeInv
    <3> QED
      BY <1>1, <3>1, <3>2 DEF DummyInv, IdInv
  <2>6. ASSUME NEW tm \in Known PROVE ArmedOnce(tm)' /\ StopInv(tm)'
    <3>1. ArmedOnce(tm) /\ StopInv(tm) /\ tm \in Timers /\ tm # None
      BY TimersAssumption DEF Known
    <3>2. Before(requestQ', ADD(tm), REMOVE(tm))
      BY <2>4, <3>1 DEF Before, In
    <3>3. StopInv(tm)'
      BY <1>1, <1>3, <2>1, <3>1, <3>2 DEF StopInv
    <3>4. CASE tm = x
      <4>1. /\ In(taskQ, START(tm)) /\ ~In(taskQ', START(tm)) /\ Once(taskQ', START(tm))
        BY <1>3, <1>6, <3>1, <3>4 DEF ArmedOnce
      <4>2. /\ ~In(requestQ, ADD(tm)) /\ Places(timerQ, tm) = {} /\ firing.timer # tm
            /\ mState[tm] # "STOPPED"
        BY <3>1, <4>1 DEF ArmedOnce, Armed
      <4> QED
        BY <1>1, <2>3, <3>1, <3>3, <3>4, <4>1, <4>2 DEF ArmedOnce
    <3>5. CASE tm # x
      <4>1. /\ In(requestQ', ADD(tm)) <=> In(requestQ, ADD(tm))
            /\ Once(requestQ, ADD(tm)) => Once(requestQ', ADD(tm))
        BY <2>3, <3>5, MessageFacts
      <4>2. Armed(tm)' => Armed(tm)
        BY <1>1, <1>3, <4>1 DEF Armed
      <4> QED
        BY <1>1, <1>3, <3>1, <3>3, <4>1, <4>2 DEF ArmedOnce
    <3> QED
      BY <3>4, <3>5
  <2> QED
    BY <2>5, <2>6
<1>7. CASE msg = STOP(x)
  <2> DEFINE id == mTimerId[x]
  <2>1. requestQ' = Append(requestQ, REMOVE(id)) /\ task' = [timer |-> x, synch |-> FALSE]
    BY <1>7, MessageFacts DEF handleMessage, REMOVE, STOP
  <2>2. id \in {x, None} /\ (x \in Known => id = x) /\ id \in Timers \cup {None}
    BY <1>4 DEF IdInv
  <2> HIDE DEF id
  <2>3. REMOVE(id) \in Requests
    BY <2>2, MessageKinds
  <2>4. requestQ' \in Seq(Requests) /\ Appended(requestQ, REMOVE(id), requestQ')
    BY <1>2, <2>1, <2>3, AppendFacts
  <2> USE DEF Appended
  <2>5. task'.timer = x /\ ~task'.synch /\ x # None
    BY <1>4, <2>1, TimersAssumption
  <2>6. GlobalInv'
    <3>1. \A y \in Timers \cup {None} : In(requestQ', REMOVE(y)) => y = id
      BY <1>5, <2>4, MessageFacts
    <3>2. Once(requestQ', REMOVE(id))
      BY <1>5, <2>2, <2>4
    <3>3. RequestInv'
      BY <2>2, <2>5, <3>1, <3>2 DEF RequestInv, Known
    <3>4. ShapeInv'
      BY <1>1, <1>3, <1>4, <2>1, <2>4 DEF ShapeInv
    <3> QED
      BY <1>1, <3>3, <3>4 DEF DummyInv, IdInv
  <2>7. ASSUME NEW tm \in Known PROVE ArmedOnce(tm)' /\ StopInv(tm)'
    <3>1. ArmedOnce(tm) /\ StopInv(tm) /\ tm \in Timers /\ tm # None
      BY TimersAssumption DEF Known
    <3>2. /\ In(requestQ', ADD(tm)) <=> In(requestQ, ADD(tm))
          /\ Once(requestQ, ADD(tm)) => Once(requestQ', ADD(tm))
          /\ Before(requestQ, ADD(tm), REMOVE(tm)) => Before(requestQ', ADD(tm), REMOVE(tm))
      BY <2>4, MessageFacts
    <3>3. Armed(tm)' => Armed(tm)
      BY <1>1, <1>3, <3>2 DEF Armed
    <3>4. ArmedOnce(tm)'
      BY <1>1, <1>3, <3>1, <3>2, <3>3 DEF ArmedOnce
    <3>5. CASE tm = x
      <4>1. In(taskQ, STOP(tm)) /\ ~In(taskQ', STOP(tm)) /\ owner[tm] = "waiting"
        BY <1>3, <1>7, <3>1, <3>5 DEF StopInv
      <4>2. ~In(taskQ, START(tm))
        BY <1>3, <1>7, <3>1, <3>5 DEF StopInv
      <4> QED
        BY <1>1, <1>3, <2>5, <3>1, <3>2, <3>4, <4>1, <4>2 DEF StopInv
    <3>6. CASE tm # x
      <4>1. task'.timer # tm
        BY <2>5, <3>6
      <4> QED
        BY <1>1, <1>3, <3>1, <3>2, <3>4, <4>1 DEF StopInv
    <3> QED
      BY <3>5, <3>6
  <2> QED
    BY <2>6, <2>7
<1> QED
  BY <1>4, <1>6, <1>7

LEMMA DoneStep ==
  ASSUME Inv, RemovalDone PROVE Inv'
<1> USE DEF Inv, GlobalInv
<1> DEFINE x == task.timer
<1>1. /\ x # None /\ task.synch
      /\ mState' = [mState EXCEPT ![x] = "STOPPED"]
      /\ owner' = [owner EXCEPT ![x] = "idle"]
      /\ task' = NoTask
      /\ UNCHANGED <<mTimerId, taskQ, requestQ, timerQ, firing, thread>>
  BY DEF RemovalDone, threads
<1>2. x \in Timers
  BY <1>1 DEF ShapeInv
<1>3. task'.timer = None
  BY <1>1 DEF NoTask
<1>4. \A y \in Timers \cup {None} : ~In(requestQ', REMOVE(y))
  BY <1>1 DEF RequestInv
<1>5. GlobalInv'
  <2>1. RequestInv'
    BY <1>4 DEF RequestInv
  <2>2. ShapeInv'
    BY <1>1, TimersAssumption DEF ShapeInv, NoTask
  <2>3. IdInv'
    BY <1>1 DEF IdInv, ShapeInv, Known
  <2> QED
    BY <1>1, <2>1, <2>2, <2>3 DEF DummyInv
<1>6. ASSUME NEW tm \in Known PROVE ArmedOnce(tm)' /\ StopInv(tm)'
  <2>1. ArmedOnce(tm) /\ StopInv(tm) /\ tm \in Timers /\ tm # None
    BY TimersAssumption DEF Known
  <2>2. Armed(tm)' <=> Armed(tm)
    BY <1>1 DEF Armed
  <2>3. CASE tm = x
    <3>1. ~Armed(tm) /\ ~In(taskQ, STOP(tm))
      BY <1>1, <2>1, <2>3 DEF StopInv
    <3> QED
      BY <1>1, <1>3, <2>1, <2>2, <3>1 DEF ArmedOnce, StopInv
  <2>4. CASE tm # x
    <3>1. mState'[tm] = mState[tm] /\ owner'[tm] = owner[tm]
      BY <1>1, <2>4
    <3> QED
      BY <1>1, <1>3, <2>1, <2>2, <3>1 DEF ArmedOnce, StopInv
  <2> QED
    BY <2>3, <2>4
<1> QED
  BY <1>5, <1>6

-----------------------------------------------------------------------------
(* The thread's steps                                                         *)

LEMMA ServeStep ==
  ASSUME Inv, doServiceRequests PROVE Inv'
<1> USE DEF Inv, GlobalInv
<1> DEFINE msg == Head(requestQ)
           x == msg.timer
<1>1. /\ thread \in {"wait", "serve"} /\ requestQ # <<>>
      /\ requestQ' = Tail(requestQ) /\ thread' = "serve"
      /\ UNCHANGED <<owner, taskQ, firing>>
  BY DEF doServiceRequests
<1>2. taskQ \in Seq(Messages) /\ requestQ \in Seq(Requests)
  BY DEF ShapeInv
<1>3. requestQ' \in Seq(Requests) /\ msg \in Requests /\ Taken(requestQ, msg, requestQ')
  BY <1>1, <1>2, TailFacts
<1> USE DEF Taken
<1>4. x \in Timers \cup {None} /\ (msg = ADD(x) \/ msg = REMOVE(x))
  BY <1>3, MessageKinds
<1>5. firing.timer = None /\ Places(timerQ, None) # {}
  BY <1>1 DEF DummyInv
<1>6. CASE msg = ADD(x)
  <2>1. doAddTimer(x) /\ task' = task
    BY <1>6, MessageFacts DEF doServiceRequests
  <2>2. \A y \in Timers \cup {None} :
          /\ In(requestQ', REMOVE(y)) <=> In(requestQ, REMOVE(y))
          /\ Once(requestQ, REMOVE(y)) => Once(requestQ', REMOVE(y))
    BY <1>3, <1>6, MessageFacts
  <2>3. RequestInv'
    BY <2>1, <2>2 DEF RequestInv
  <2>4. ASSUME NEW tm \in Known
        PROVE  /\ tm \in Timers /\ tm # None /\ ArmedOnce(tm) /\ StopInv(tm)
               /\ tm # x => ~In(requestQ, ADD(tm)) <=> ~In(requestQ', ADD(tm))
               /\ Once(requestQ', ADD(tm))
               /\ tm = x => In(requestQ, ADD(tm)) /\ ~In(requestQ', ADD(tm))
    <3>1. tm \in Timers /\ tm # None /\ ArmedOnce(tm) /\ StopInv(tm)
      BY TimersAssumption DEF Known
    <3> QED
      BY <1>3, <1>6, <3>1, MessageFacts DEF ArmedOnce
  <2>5. CASE x \notin Periodic /\ mExpiresAt[x] <= 0
    <3>1. mState' = [mState EXCEPT ![x] = "STOPPED"] /\ UNCHANGED <<mTimerId, timerQ>>
      BY <2>1, <2>5 DEF doAddTimer
    <3>2. GlobalInv'
      <4>1. ShapeInv'
        BY <1>1, <1>3, <2>1, <3>1 DEF ShapeInv
      <4>2. IdInv'
        BY <3>1 DEF IdInv, ShapeInv, Known
      <4>3. DummyInv'
        BY <1>1, <1>5, <3>1 DEF DummyInv
      <4> QED
        BY <2>3, <4>1, <4>2, <4>3
    <3>3. ASSUME NEW tm \in Known PROVE ArmedOnce(tm)' /\ StopInv(tm)'
      <4>1. ArmedOnce(tm) /\ StopInv(tm) /\ tm # None /\ Once(requestQ', ADD(tm))
        BY <2>4
      <4>2. Armed(tm)' => Armed(tm)
        BY <1>1, <1>3, <3>1 DEF Armed
      <4>3. StopInv(tm)'
        BY <1>1, <1>3, <2>1, <4>1, <4>2 DEF StopInv
      <4>4. CASE tm = x
        <5>1. In(requestQ, ADD(tm)) /\ ~In(requestQ', ADD(tm))
          BY <2>4, <4>4
        <5>2. ~Armed(tm)'
          BY <1>1, <3>1, <4>1, <5>1 DEF ArmedOnce, Armed
        <5> QED
          BY <1>1, <3>1, <4>1, <4>3, <5>1, <5>2 DEF ArmedOnce, Armed
      <4>5. CASE tm # x
        <5>1. mState'[tm] = mState[tm]
          BY <3>1, <4>5
        <5> QED
          BY <1>1, <1>3, <3>1, <4>1, <4>2, <4>3, <5>1 DEF ArmedOnce
      <4> QED
        BY <4>4, <4>5
    <3> QED
      BY <3>2, <3>3
  <2>6. CASE ~(x \notin Periodic /\ mExpiresAt[x] <= 0)
    <3> DEFINE node == Node(x, FirstExpiry(mExpiresAt[x]))
    <3>1. /\ mTimerId' = [mTimerId EXCEPT ![x] = x]
          /\ timerQ' = insertQ(timerQ, node)
          /\ mState' = mState
      BY <2>1, <2>6 DEF doAddTimer
    <3>2. IsNode(node) /\ node.timer = x
      BY DEF Node, IsNode
    <3> HIDE DEF node
    <3>3. IsQueue(timerQ)
      BY DEF ShapeInv
    <3>4. Added(timerQ, x, timerQ')
      BY <3>1, <3>2, <3>3, InsertTimers
    <3> USE DEF Added, Kept
    <3>5. GlobalInv'
      <4>1. ShapeInv'
        BY <1>1, <1>3, <1>4, <2>1, <3>1, <3>4 DEF ShapeInv
      <4>2. IdInv'
        BY <1>4, <3>1 DEF IdInv, ShapeInv, Known
      <4>3. Places(timerQ', None) # {}
        BY <1>5, <3>4
      <4>4. DummyInv'
        BY <1>1, <1>5, <4>3 DEF DummyInv
      <4> QED
        BY <2>3, <4>1, <4>2, <4>4
    <3>6. ASSUME NEW tm \in Known PROVE ArmedOnce(tm)' /\ StopInv(tm)'
      <4>1. ArmedOnce(tm) /\ StopInv(tm) /\ tm # None /\ Once(requestQ', ADD(tm))
        BY <2>4
      <4>2. CASE tm = x
        <5>1. In(requestQ, ADD(tm)) /\ ~In(requestQ', ADD(tm))
          BY <2>4, <4>2
        <5>2. /\ Places(timerQ, tm) = {} /\ ~In(taskQ, START(tm))
              /\ mState[tm] # "STOPPED" /\ firing.timer # tm
          BY <4>1, <5>1 DEF ArmedOnce, Armed
        <5>3. AtMostOnce(timerQ', tm)
          BY <3>4, <4>2, <5>2
        <5>4. ArmedOnce(tm)'
          BY <1>1, <3>1, <4>1, <5>1, <5>2, <5>3 DEF ArmedOnce
        <5>5. Armed(tm)
          BY <5>1 DEF Armed
        <5> QED
          BY <1>1, <1>3, <2>1, <4>1, <5>4, <5>5 DEF StopInv
      <4>3. CASE tm # x
        <5>1. /\ Places(timerQ', tm) = {} <=> Places(timerQ, tm) = {}
              /\ AtMostOnce(timerQ, tm) => AtMostOnce(timerQ', tm)
          BY <3>4, <4>3
        <5>2. Armed(tm)' => Armed(tm)
          BY <1>1, <1>3, <5>1 DEF Armed
        <5> QED
          BY <1>1, <1>3, <2>1, <3>1, <4>1, <5>1, <5>2 DEF ArmedOnce, StopInv
      <4> QED
        BY <4>2, <4>3
    <3> QED
      BY <3>5, <3>6
  <2> QED
    BY <2>5, <2>6
<1>7. CASE msg = REMOVE(x)
  <2>1. /\ timerQ' = RemoveNode(timerQ, x)
        /\ task' = [task EXCEPT !.synch = TRUE]
        /\ UNCHANGED <<mState, mTimerId>>
    BY <1>7, MessageFacts DEF doServiceRequests
  <2>2. IsQueue(timerQ)
    BY DEF ShapeInv
  <2>3. Removed(timerQ, x, timerQ')
    BY <2>1, <2>2, RemoveTimers
  <2> USE DEF Removed, Kept
  <2>4. In(requestQ, REMOVE(x))
    BY <1>3, <1>7
  <2>5. /\ x \in {task.timer, None} /\ (task.timer \in Known => x = task.timer)
        /\ Once(requestQ, REMOVE(x))
        /\ \A y \in Timers \cup {None} : In(requestQ, REMOVE(y)) => y = x
    BY <1>4, <2>4 DEF RequestInv
  <2>6. task'.timer = task.timer /\ task'.synch = TRUE
    BY <2>1 DEF ShapeInv
  <2>7. GlobalInv'
    <3>1. \A y \in Timers \cup {None} : ~In(requestQ', REMOVE(y))
      BY <1>3, <1>7, <2>5
    <3>2. RequestInv'
      BY <3>1 DEF RequestInv
    <3>3. ShapeInv'
      BY <1>1, <1>3, <2>1, <2>3 DEF ShapeInv
    <3>4. Places(timerQ', None) # {}
      BY <1>5, <2>3
    <3>5. DummyInv'
      BY <1>1, <1>5, <3>4 DEF DummyInv
    <3> QED
      BY <2>1, <3>2, <3>3, <3>5 DEF IdInv
  <2>8. ASSUME NEW tm \in Known PROVE ArmedOnce(tm)' /\ StopInv(tm)'
    <3>1. ArmedOnce(tm) /\ StopInv(tm) /\ tm \in Timers /\ tm # None
      BY TimersAssumption DEF Known
    <3>2. /\ In(requestQ', ADD(tm)) <=> In(requestQ, ADD(tm))
          /\ Once(requestQ', ADD(tm))
      BY <1>3, <1>7, <3>1, MessageFacts DEF ArmedOnce
    <3>3. CASE tm = task.timer
      <4>1. x = tm
        BY <2>5, <3>3
      <4>2. ~In(requestQ, ADD(tm))
        BY <1>3, <1>7, <3>1, <4>1 DEF StopInv
      <4>3. ~In(taskQ, START(tm)) /\ ~In(taskQ, STOP(tm))
        BY <3>1, <3>3 DEF StopInv
      <4>4. Places(timerQ', tm) = {}
        BY <2>3, <3>1, <4>1 DEF ArmedOnce
      <4>5. AtMostOnce(timerQ', tm)
        BY <4>4 DEF AtMostOnce
      <4>6. ~Armed(tm)'
        BY <1>1, <1>5, <3>1, <3>2, <4>2, <4>3, <4>4 DEF Armed
      <4> QED
        BY <1>1, <1>3, <2>1, <2>6, <3>1, <3>2, <4>2, <4>3, <4>4, <4>5, <4>6 DEF ArmedOnce, StopInv
    <3>4. CASE tm # task.timer
      <4>1. tm # x
        BY <2>5, <3>1, <3>4
      <4>2. /\ Places(timerQ', tm) = {} <=> Places(timerQ, tm) = {}
            /\ AtMostOnce(timerQ, tm) => AtMostOnce(timerQ', tm)
        BY <2>3, <4>1
      <4>3. Armed(tm)' <=> Armed(tm)
        BY <1>1, <3>2, <4>2 DEF Armed
      <4> QED
        BY <1>1, <1>3, <2>1, <2>6, <3>1, <3>2, <3>4, <4>2, <4>3 DEF ArmedOnce, StopInv
    <3> QED
      BY <3>3, <3>4
  <2> QED
    BY <2>7, <2>8
<1> QED
  BY <1>4, <1>6, <1>7

\* A step of the thread that leaves requests and messages alone and moves no
\* timer in or out of the queue.
LEMMA QuietStep ==
  ASSUME Inv, UNCHANGED <<mState, mTimerId, owner, taskQ, task, requestQ>>,
         firing'.timer = firing.timer, IsNode(firing'), IsQueue(timerQ'),
         \A tm : Places(timerQ', tm) = Places(timerQ, tm),
         thread' \in {"wait", "serve"} => firing.timer = None /\ Places(timerQ, None) # {},
         thread' \in {"wait", "serve", "fire"}
  PROVE  Inv'
<1> USE DEF Inv, GlobalInv
<1>1. GlobalInv'
  <2>1. ShapeInv'
    BY DEF ShapeInv
  <2>2. DummyInv'
    BY DEF DummyInv
  <2>3. IdInv' /\ RequestInv'
    BY DEF IdInv, RequestInv
  <2> QED
    BY <2>1, <2>2, <2>3
<1>2. ASSUME NEW tm \in Known PROVE ArmedOnce(tm)' /\ StopInv(tm)'
  <2>1. ArmedOnce(tm) /\ StopInv(tm)
    OBVIOUS
  <2>2. Places(timerQ', tm) = Places(timerQ, tm)
    OBVIOUS
  <2>3. Armed(tm)' <=> Armed(tm)
    BY <2>2 DEF Armed
  <2>4. AtMostOnce(timerQ', tm) <=> AtMostOnce(timerQ, tm)
    BY <2>2 DEF AtMostOnce
  <2> QED
    BY <2>1, <2>2, <2>3, <2>4 DEF ArmedOnce, StopInv
<1> QED
  BY <1>1, <1>2

LEMMA SettleStep ==
  ASSUME Inv, Settle PROVE Inv'
<1> USE DEF Inv, GlobalInv
<1>1. /\ thread \in {"wait", "serve"} /\ UpdateReference
      /\ UNCHANGED <<mState, mTimerId, owner, taskQ, task, requestQ>>
  BY DEF Settle, owners, tasks
<1>2. firing.timer = None /\ Places(timerQ, None) # {} /\ IsQueue(timerQ) /\ IsNode(firing)
  BY <1>1 DEF DummyInv, ShapeInv
<1>3. timerQ # <<>>
  BY <1>2 DEF Places
<1> DEFINE first == Head(timerQ)
<1>4. CASE first.expiry > lag
  <2>1. /\ timerQ' = [timerQ EXCEPT ![1].expiry = @ - lag]
        /\ thread' = "wait" /\ firing' = firing
    BY <1>1, <1>4 DEF UpdateReference
  <2>2. timerQ' = [i \in DOMAIN timerQ |-> timerQ'[i]]
    BY <1>2, <2>1, QueueFacts
  <2>3. ASSUME NEW i \in DOMAIN timerQ
        PROVE  IsNode(timerQ'[i]) /\ timerQ'[i].timer = timerQ[i].timer
    <3>1. IsNode(timerQ[i])
      BY <1>2 DEF IsQueue
    <3>2. CASE i = 1
      <4>1. timerQ'[i] = [timerQ[i] EXCEPT !.expiry = timerQ[i].expiry - lag]
        BY <2>1, <3>2
      <4> QED
        BY <3>1, <4>1 DEF IsNode
    <3>3. CASE i # 1
      BY <2>1, <3>1, <3>3
    <3> QED
      BY <3>2, <3>3
  <2>4. IsQueue(timerQ') /\ \A tm : Places(timerQ', tm) = Places(timerQ, tm)
    BY <1>2, <2>2, <2>3, SameTimers
  <2> QED
    BY <1>1, <1>2, <2>1, <2>4, QuietStep
<1>5. CASE ~(first.expiry > lag)
  <2>1. timerQ' = Tail(timerQ) /\ firing' = first /\ thread' = "fire"
    BY <1>1, <1>5 DEF UpdateReference
  <2>2. IsNode(first) /\ Left(timerQ, first.timer, timerQ')
    BY <1>2, <1>3, <2>1, TailTimers
  <2> USE DEF Left, Kept
  <2> HIDE DEF first
  <2>3. GlobalInv'
    <3>1. ShapeInv'
      BY <1>1, <2>1, <2>2 DEF ShapeInv
    <3>2. DummyInv'
      BY <1>2, <2>1, <2>2 DEF DummyInv
    <3> QED
      BY <1>1, <3>1, <3>2 DEF IdInv, RequestInv
  <2>4. ASSUME NEW tm \in Known PROVE ArmedOnce(tm)' /\ StopInv(tm)'
    <3>1. ArmedOnce(tm) /\ StopInv(tm) /\ tm # None
      BY TimersAssumption DEF Known
    <3>2. CASE tm = first.timer
      <4>1. Places(timerQ, tm) # {} /\ Places(timerQ', tm) = {}
        BY <2>2, <3>1, <3>2 DEF ArmedOnce
      <4>2. Armed(tm) /\ AtMostOnce(timerQ', tm)
        BY <4>1 DEF Armed, AtMostOnce
      <4> QED
        BY <1>1, <2>1, <3>1, <3>2, <4>1, <4>2 DEF ArmedOnce, StopInv
    <3>3. CASE tm # first.timer
      <4>1. /\ Places(timerQ', tm) = {} <=> Places(timerQ, tm) = {}
            /\ AtMostOnce(timerQ, tm) => AtMostOnce(timerQ', tm)
        BY <2>2, <3>3
      <4>2. Armed(tm)' => Armed(tm)
        BY <1>1, <2>1, <3>3, <4>1 DEF Armed
      <4> QED
        BY <1>1, <2>1, <3>1, <3>3, <4>1, <4>2 DEF ArmedOnce, StopInv
    <3> QED
      BY <3>2, <3>3
  <2> QED
    BY <2>3, <2>4
<1> QED
  BY <1>4, <1>5

LEMMA FireStep ==
  ASSUME Inv, Fire PROVE Inv'
<1> USE DEF Inv, GlobalInv
<1> DEFINE x == firing.timer
<1>1. /\ thread = "fire" /\ firing' = NoNode /\ thread' = "serve"
      /\ UNCHANGED <<mTimerId, owner, taskQ, task, requestQ>>
  BY DEF Fire, owners, tasks
<1>2. IsQueue(timerQ) /\ IsNode(firing) /\ (x = None \/ Places(timerQ, None) # {})
  BY DEF ShapeInv, DummyInv
<1>3. firing'.timer = None /\ IsNode(firing')
  BY <1>1 DEF NoNode, IsNode
<1>4. CASE x \in Periodic \cup {None}
  <2> DEFINE period == IF x = None THEN Heartbeat ELSE Period
             node == [firing EXCEPT !.expiry = period, !.left = @ + period]
  <2>1. timerQ' = insertQ(timerQ, node) /\ mState' = mState
    BY <1>1, <1>4 DEF Fire
  <2>2. IsNode(node) /\ node.timer = x
    <3> DEFINE left == firing.left + period
    <3>1. node = [firing EXCEPT !.expiry = period, !.left = left]
      OBVIOUS
    <3> HIDE DEF node, period, left
    <3> QED
      BY <1>2, <3>1 DEF IsNode
  <2> HIDE DEF node
  <2>3. Added(timerQ, x, timerQ')
    BY <1>2, <2>1, <2>2, InsertTimers
  <2> USE DEF Added, Kept
  <2>4. GlobalInv'
    <3>1. ShapeInv'
      BY <1>1, <1>3, <2>1, <2>3 DEF ShapeInv
    <3>2. Places(timerQ', None) # {}
      BY <1>2, <2>3
    <3>3. DummyInv'
      BY <1>1, <1>3, <3>2 DEF DummyInv
    <3> QED
      BY <1>1, <2>1, <3>1, <3>3 DEF IdInv, RequestInv
  <2>5. ASSUME NEW tm \in Known PROVE ArmedOnce(tm)' /\ StopInv(tm)'
    <3>1. ArmedOnce(tm) /\ StopInv(tm) /\ tm # None
      BY TimersAssumption DEF Known
    <3>2. CASE tm = x
      <4>1. /\ ~In(taskQ, START(tm)) /\ ~In(requestQ, ADD(tm))
            /\ Places(timerQ, tm) = {} /\ Armed(tm)
        BY <3>1, <3>2 DEF ArmedOnce, Armed
      <4>2. AtMostOnce(timerQ', tm)
        BY <2>3, <3>2, <4>1
      <4> QED
        BY <1>1, <1>3, <2>1, <3>1, <4>1, <4>2 DEF ArmedOnce, StopInv
    <3>3. CASE tm # x
      <4>1. /\ Places(timerQ', tm) = {} <=> Places(timerQ, tm) = {}
            /\ AtMostOnce(timerQ, tm) => AtMostOnce(timerQ', tm)
        BY <2>3, <3>3
      <4>2. Armed(tm)' => Armed(tm)
        BY <1>1, <1>3, <3>1, <4>1 DEF Armed
      <4> QED
        BY <1>1, <1>3, <2>1, <3>1, <4>1, <4>2 DEF ArmedOnce, StopInv
    <3> QED
      BY <3>2, <3>3
  <2> QED
    BY <2>4, <2>5
<1>5. CASE x \notin Periodic \cup {None}
  <2>1. mState' = [mState EXCEPT ![x] = "STOPPED"] /\ timerQ' = timerQ
    BY <1>1, <1>5 DEF Fire
  <2>2. GlobalInv'
    <3>1. ShapeInv'
      BY <1>1, <1>3, <2>1 DEF ShapeInv
    <3>2. DummyInv'
      BY <1>1, <1>2, <1>3, <1>5, <2>1 DEF DummyInv
    <3>3. IdInv'
      BY <1>1, <2>1 DEF IdInv, ShapeInv, Known
    <3> QED
      BY <1>1, <3>1, <3>2, <3>3 DEF RequestInv
  <2>3. ASSUME NEW tm \in Known PROVE ArmedOnce(tm)' /\ StopInv(tm)'
    <3>1. ArmedOnce(tm) /\ StopInv(tm) /\ tm # None
      BY TimersAssumption DEF Known
    <3>2. Armed(tm)' => Armed(tm)
      BY <1>1, <1>3, <2>1, <3>1 DEF Armed
    <3>3. CASE tm = x
      <4>1. ~Armed(tm)'
        BY <1>1, <1>3, <2>1, <3>1, <3>3 DEF ArmedOnce, Armed
      <4> QED
        BY <1>1, <1>3, <2>1, <3>1, <4>1 DEF ArmedOnce, StopInv, Armed
    <3>4. CASE tm # x
      <4>1. mState'[tm] = mState[tm]
        BY <2>1, <3>4
      <4> QED
        BY <1>1, <1>3, <2>1, <3>1, <3>2, <4>1 DEF ArmedOnce, StopInv
    <3> QED
      BY <3>3, <3>4
  <2> QED
    BY <2>2, <2>3
<1> QED
  BY <1>4, <1>5

LEMMA TickStep ==
  ASSUME Inv, Tick PROVE Inv'
<1>1. /\ UNCHANGED <<mState, mTimerId, owner, taskQ, task, requestQ, thread>>
      /\ timerQ' = [i \in DOMAIN timerQ |-> [timerQ[i] EXCEPT !.left = @ - 1]]
      /\ firing' = IF thread = "fire" THEN [firing EXCEPT !.left = @ - 1] ELSE firing
  BY DEF Tick, owners, tasks
<1>2. IsQueue(timerQ) /\ IsNode(firing) /\ DummyInv
  BY DEF Inv, GlobalInv, ShapeInv
<1>3. IsNode(firing') /\ firing'.timer = firing.timer
  BY <1>1, <1>2 DEF IsNode
<1>4. ASSUME NEW i \in DOMAIN timerQ
      PROVE  IsNode(timerQ'[i]) /\ timerQ'[i].timer = timerQ[i].timer
  BY <1>1, <1>2 DEF IsQueue, IsNode
<1>5. timerQ' = [i \in DOMAIN timerQ |-> timerQ'[i]]
  BY <1>1
<1>6. IsQueue(timerQ') /\ \A tm : Places(timerQ', tm) = Places(timerQ, tm)
  BY <1>2, <1>4, <1>5, SameTimers
<1> QED
  BY <1>1, <1>2, <1>3, <1>6, QuietStep DEF DummyInv

-----------------------------------------------------------------------------
LEMMA NextInv == Inv /\ [Next]_vars => Inv'
<1> SUFFICES ASSUME Inv, [Next]_vars PROVE Inv'
  OBVIOUS
<1>1. CASE \E tm \in Timers : \E offset \in Offsets : doStartTimer(tm, offset)
  BY <1>1, StartStep
<1>2. CASE \E tm \in Timers : doStopTimer(tm)
  BY <1>2, DoStopStep
<1>3. CASE \E tm \in Timers : stopTimer(tm)
  BY <1>3, StopStep
<1>4. CASE handleMessage
  BY <1>4, HandleStep
<1>5. CASE RemovalDone
  BY <1>5, DoneStep
<1>6. CASE doServiceRequests
  BY <1>6, ServeStep
<1>7. CASE Settle
  BY <1>7, SettleStep
<1>8. CASE Fire
  BY <1>8, FireStep
<1>9. CASE Tick
  BY <1>9, TickStep
<1>10. CASE UNCHANGED vars
  <2>1. /\ UNCHANGED <<mState, mTimerId, owner, taskQ, task, requestQ, timerQ, firing, thread>>
    BY <1>10 DEF vars, owners, tasks, threads
  <2> QED
    BY <2>1, QuietStep DEF Inv, GlobalInv, ShapeInv, DummyInv
<1> QED
  BY <1>1, <1>2, <1>3, <1>4, <1>5, <1>6, <1>7, <1>8, <1>9, <1>10 DEF Next

\* A timer that was armed before is not used by the task or the thread any more
\* once stop has returned or it has fired for the last time, whatever the
\* order of starts, stops, requests and expiries (OsTimer::stop, ~OsTimer).
THEOREM StopIsFinalForKnown == Spec => []StoppedIsUnused
<1>1. Init => Inv
  BY InitInv
<1>2. Inv /\ [Next]_vars => Inv'
  BY NextInv
<1>3. Inv => StoppedIsUnused
  BY InvStopped
<1> QED
  BY <1>1, <1>2, <1>3, PTL DEF Spec

\* The queue is never empty when the thread looks at its first timer, because
\* the thread's own timer is never removed (OsSysSoftTimer::run, "should always
\* be the case, as we have a dummy timer").
THEOREM DummyStays == Spec => [](thread # "fire" => timerQ # <<>>)
<1>1. Init => Inv
  BY InitInv
<1>2. Inv /\ [Next]_vars => Inv'
  BY NextInv
<1>3. Inv => (thread # "fire" => timerQ # <<>>)
  BY DEF Inv, GlobalInv, DummyInv, Places
<1> QED
  BY <1>1, <1>2, <1>3, PTL DEF Spec
=============================================================================
