------------------------- MODULE OsTimerQueueProofs -------------------------
(* The differential queue of the timer thread, for any number of timers, any  *)
(* offsets, periods and lag: no operation moves a timer that it is not about. *)
(* Due is a sum over the queue; that the sum exists and is unique is proved   *)
(* here, so that the rest need not know how it is defined.                    *)
EXTENDS OsTimerProofs

TimedNode == [timer : Timers \cup {None}, expiry : Nat, left : Int]
Queues == Seq(TimedNode)

\* d gives the sums of the differences of q.
IsSum(q, d) == d[0] = 0 /\ \A i \in 1..Len(q) : d[i] = q[i].expiry + d[i - 1]

LEMMA QueuesAre ==
  ASSUME NEW q \in Queues
  PROVE  /\ Len(q) \in Nat /\ DOMAIN q = 1..Len(q) /\ IsQueue(q)
         /\ \A i \in 1..Len(q) : q[i] \in TimedNode /\ q[i].expiry \in Nat /\ q[i].left \in Int
<1>1. Len(q) \in Nat /\ DOMAIN q = 1..Len(q) /\ \A i \in 1..Len(q) : q[i] \in TimedNode
  BY LenProperties, ElementOfSeq DEF Queues
<1>2. \A n \in TimedNode : IsNode(n) /\ n.expiry \in Nat /\ n.left \in Int
  BY DEF TimedNode, IsNode
<1>3. q = [i \in 1..Len(q) |-> q[i]]
  BY LenProperties DEF Queues
<1> QED
  BY <1>1, <1>2, <1>3, QueueIs

\* a queue has sums ...
LEMMA SumExists ==
  ASSUME NEW q \in Queues
  PROVE  \E d \in [0..Len(q) -> Nat] : IsSum(q, d)
<1> DEFINE Sums(m) == {d \in [0..m -> Nat] :
                         d[0] = 0 /\ \A i \in 1..m : d[i] = q[i].expiry + d[i - 1]}
           Missing == {m \in 0..Len(q) : Sums(m) = {}}
<1>1. Len(q) \in Nat /\ \A i \in 1..Len(q) : q[i].expiry \in Nat
  BY QueuesAre
<1>2. SUFFICES ASSUME Missing # {} PROVE FALSE
  <2>1. Len(q) \notin Missing
    BY <1>2
  <2>2. Sums(Len(q)) # {}
    BY <1>1, <2>1
  <2> QED
    BY <2>2 DEF IsSum
<1>3. PICK m \in Missing : \A n \in Missing : m =< n
  <2>1. Missing \in SUBSET Nat
    BY <1>1
  <2> HIDE DEF Missing
  <2> QED
    BY <1>2, <2>1, SmallestIn
<1>4. CASE m = 0
  <2>1. [i \in 0..0 |-> 0] \in Sums(0)
    OBVIOUS
  <2> QED
    BY <1>3, <1>4, <2>1
<1>5. CASE m # 0
  <2>1. m \in 1..Len(q) /\ m - 1 \in 0..Len(q) /\ m - 1 \notin Missing
    <3>1. m \in 0..Len(q)
      BY <1>3
    <3>2. m \in 1..Len(q) /\ m - 1 \in 0..Len(q) /\ ~(m =< m - 1)
      BY <1>1, <1>5, <3>1
    <3> HIDE DEF Missing
    <3> QED
      BY <1>3, <3>2
  <2>2. PICK d : d \in Sums(m - 1)
    BY <2>1
  <2> DEFINE e == [i \in 0..m |-> IF i = m THEN q[m].expiry + d[m - 1] ELSE d[i]]
  <2>3. d \in [0..(m - 1) -> Nat] /\ d[0] = 0 /\ \A i \in 1..(m - 1) : d[i] = q[i].expiry + d[i - 1]
    BY <2>2
  <2>4. e \in [0..m -> Nat]
    BY <1>1, <2>1, <2>3
  <2>5. e[0] = 0 /\ \A i \in 1..m : e[i] = q[i].expiry + e[i - 1]
    <3>1. m \in Nat /\ m # 0
      BY <1>1, <2>1
    <3>2. e[0] = 0
      BY <2>3, <3>1
    <3>3. ASSUME NEW i \in 1..m
          PROVE  e[i] = q[i].expiry + e[i - 1]
      <4>1. i - 1 \in 0..m /\ i - 1 # m /\ e[i - 1] = d[i - 1]
        BY <3>1
      <4>2. CASE i = m
        BY <4>1, <4>2
      <4>3. CASE i # m
        <5>1. i \in 1..(m - 1) /\ i \in 0..m
          BY <3>1, <4>3
        <5>2. e[i] = d[i]
          BY <4>3, <5>1
        <5> HIDE DEF e
        <5> QED
          BY <2>3, <4>1, <5>1, <5>2
      <4> QED
        BY <4>2, <4>3
    <3> QED
      BY <3>2, <3>3
  <2> HIDE DEF e
  <2>6. e \in Sums(m)
    BY <2>4, <2>5
  <2> QED
    BY <1>3, <2>6
<1> QED
  BY <1>4, <1>5

\* ... and no others.
LEMMA SumUnique ==
  ASSUME NEW q \in Queues, NEW d, NEW e, IsSum(q, d), IsSum(q, e)
  PROVE  \A i \in 0..Len(q) : d[i] = e[i]
<1> DEFINE Different == {i \in 0..Len(q) : d[i] # e[i]}
<1>1. Len(q) \in Nat
  BY QueuesAre
<1>2. SUFFICES ASSUME Different # {} PROVE FALSE
  OBVIOUS
<1>3. PICK m \in Different : \A n \in Different : m =< n
  <2>1. Different \in SUBSET Nat
    BY <1>1
  <2> HIDE DEF Different
  <2> QED
    BY <1>2, <2>1, SmallestIn
<1>4. m # 0
  BY <1>3 DEF IsSum
<1>5. m \in 1..Len(q) /\ m - 1 \in 0..Len(q) /\ m - 1 \notin Different
  BY <1>1, <1>3, <1>4
<1>6. d[m - 1] = e[m - 1]
  BY <1>5
<1> QED
  BY <1>3, <1>5, <1>6 DEF IsSum

\* Whatever has the sums has what Due computes.
LEMMA DueIs ==
  ASSUME NEW q \in Queues, NEW d \in [0..Len(q) -> Int], IsSum(q, d)
  PROVE  \A i \in 0..Len(q) : Due(q, i) = d[i]
<1> DEFINE Eq(f) == f = [n \in 0..Len(q) |-> IF n = 0 THEN 0 ELSE q[n].expiry + f[n - 1]]
           due == CHOOSE f : Eq(f)
<1>1. Len(q) \in Nat
  BY QueuesAre
<1>2. Eq(d)
  BY <1>1 DEF IsSum
<1>3. Eq(due)
  BY <1>2
<1>4. \A i \in 0..Len(q) : Due(q, i) = due[i]
  BY DEF Due
<1> HIDE DEF due
<1>5. IsSum(q, due)
  BY <1>1, <1>3 DEF IsSum
<1> QED
  BY <1>4, <1>5, SumUnique

LEMMA DueFacts ==
  ASSUME NEW q \in Queues
  PROVE  /\ \A i \in 0..Len(q) : Due(q, i) \in Nat
         /\ Due(q, 0) = 0
         /\ \A i \in 1..Len(q) : Due(q, i) = q[i].expiry + Due(q, i - 1)
<1>1. Len(q) \in Nat
  BY QueuesAre
<1>2. PICK d \in [0..Len(q) -> Nat] : IsSum(q, d)
  BY SumExists
<1>3. \A i \in 0..Len(q) : Due(q, i) = d[i]
  BY <1>2, DueIs
<1> QED
  BY <1>1, <1>2, <1>3, SMTT(60) DEF IsSum

\* One node further: its own account is the difference of the two sums.
LEMMA DueStep ==
  ASSUME NEW q \in Queues, NEW i \in 1..Len(q)
  PROVE  /\ q[i].expiry \in Nat /\ Due(q, i) \in Nat /\ Due(q, i - 1) \in Nat
         /\ Due(q, i) = q[i].expiry + Due(q, i - 1)
         /\ q[i].expiry = Due(q, i) - Due(q, i - 1)
<1>1. Len(q) \in Nat /\ q[i].expiry \in Nat
  BY QueuesAre
<1>2. i \in 0..Len(q) /\ i - 1 \in 0..Len(q)
  BY <1>1
<1>3. Due(q, i) \in Nat /\ Due(q, i - 1) \in Nat /\ Due(q, i) = q[i].expiry + Due(q, i - 1)
  BY <1>2, DueFacts
<1> QED
  BY <1>1, <1>3

-----------------------------------------------------------------------------
(* The operations.  Every node keeps the ticks that are left until it is due. *)

\* Every node is due when its own account says, l ticks after the reference.
Timely(q, l) == \A i \in 1..Len(q) : q[i].left = Due(q, i) - l

\* A queue whose nodes have these sums.
LEMMA TimelyIs ==
  ASSUME NEW n \in Nat, NEW q, q = [i \in 1..n |-> q[i]], \A i \in 1..n : q[i] \in TimedNode,
         NEW d \in [0..n -> Int], d[0] = 0, NEW l \in Int,
         \A i \in 1..n : q[i].expiry = d[i] - d[i - 1] /\ q[i].left = d[i] - l
  PROVE  q \in Queues /\ Len(q) = n /\ Timely(q, l)
<1>1. q \in [1..n -> TimedNode]
  OBVIOUS
<1>2. q \in Queues /\ Len(q) = n
  BY <1>1 DEF Queues
<1>3. IsSum(q, d)
  <2>1. ASSUME NEW i \in 1..n PROVE d[i] = q[i].expiry + d[i - 1]
    <3>1. d[i] \in Int /\ d[i - 1] \in Int
      OBVIOUS
    <3> QED
      BY <3>1
  <2> QED
    BY <1>2, <2>1 DEF IsSum
<1>4. \A i \in 0..n : Due(q, i) = d[i]
  BY <1>2, <1>3, DueIs
<1> QED
  BY <1>2, <1>4 DEF Timely

\* A node is added.
LEMMA InsertTimely ==
  ASSUME NEW q \in Queues, NEW l \in Int, Timely(q, l),
         NEW node \in TimedNode, node.left = node.expiry - l
  PROVE  insertQ(q, node) \in Queues /\ Timely(insertQ(q, node), l)
<1> DEFINE r == insertQ(q, node)
           k == Max(DueBefore(q, node))
           difference == node.expiry - Due(q, k)
<1>1. /\ Len(q) \in Nat /\ DOMAIN q = 1..Len(q) /\ IsQueue(q)
      /\ \A i \in 1..Len(q) : q[i] \in TimedNode /\ q[i].expiry \in Nat /\ q[i].left \in Int
  BY QueuesAre
<1>2. /\ \A i \in 0..Len(q) : Due(q, i) \in Nat
      /\ Due(q, 0) = 0
      /\ \A i \in 1..Len(q) : Due(q, i) = q[i].expiry + Due(q, i - 1)
  BY DueFacts
<1>3. IsNode(node) /\ node.expiry \in Nat /\ node.left \in Int /\ node.timer \in Timers \cup {None}
  BY DEF TimedNode, IsNode
<1>4. k \in DueBefore(q, node) /\ InsertedAfter(q, node, r, k)
  BY <1>1, <1>3, InsertPlaces
<1>5. k \in 0..Len(q) /\ \A i \in 1..k : node.expiry > Due(q, i)
  BY <1>4 DEF DueBefore
<1>6. k + 1 \notin DueBefore(q, node)
  <2>1. DueBefore(q, node) \in SUBSET (0..Len(q))
    BY DEF DueBefore
  <2>2. \A y \in DueBefore(q, node) : k >= y
    BY <1>1, <1>4, <2>1, MaxIsIn
  <2> HIDE DEF k
  <2> QED
    BY <1>1, <1>5, <2>2
<1> HIDE DEF k, r
<1>7. difference \in Nat
  <2>1. k = 0 \/ k \in 1..k
    BY <1>1, <1>5
  <2> QED
    BY <1>1, <1>2, <1>3, <1>5, <2>1
<1>8. k < Len(q) => node.expiry =< Due(q, k + 1)
  <2> SUFFICES ASSUME k < Len(q), node.expiry > Due(q, k + 1) PROVE FALSE
    BY <1>1, <1>2, <1>3, <1>5
  <2>1. k + 1 \in 0..Len(q) /\ \A i \in 1..(k + 1) : i \in 1..k \/ i = k + 1
    BY <1>1, <1>5
  <2> QED
    BY <1>5, <1>6, <2>1 DEF DueBefore
<1> DEFINE d == [i \in 0..(Len(q) + 1) |->
                   IF i =< k THEN Due(q, i) ELSE IF i = k + 1 THEN node.expiry ELSE Due(q, i - 1)]
<1>9. d \in [0..(Len(q) + 1) -> Int] /\ d[0] = 0
  BY <1>1, <1>2, <1>3, <1>5
<1>10. Len(r) = Len(q) + 1 /\ r = [i \in 1..(Len(q) + 1) |-> r[i]]
  BY <1>4, QueueFacts DEF InsertedAfter
<1>11. ASSUME NEW i \in 1..(Len(q) + 1)
       PROVE  r[i] \in TimedNode /\ r[i].expiry = d[i] - d[i - 1] /\ r[i].left = d[i] - l
  <2>1. CASE i =< k
    <3>1. i \in 1..Len(q) /\ i \in 1..k /\ i - 1 =< k
      BY <1>1, <1>5, <2>1
    <3>2. d[i] = Due(q, i) /\ d[i - 1] = Due(q, i - 1)
      BY <1>1, <2>1, <3>1
    <3>3. r[i] = q[i] /\ q[i] \in TimedNode /\ q[i].left = Due(q, i) - l
      BY <1>1, <1>4, <3>1 DEF InsertedAfter, Timely
    <3>4. q[i].expiry = Due(q, i) - Due(q, i - 1)
      BY <3>1, DueStep
    <3> QED
      BY <3>2, <3>3, <3>4
  <2>2. CASE i = k + 1
    <3>1. d[i] = node.expiry /\ d[i - 1] = Due(q, k)
      BY <1>1, <1>5, <2>2
    <3>2. r[i] = [node EXCEPT !.expiry = difference]
      BY <1>4, <2>2 DEF InsertedAfter
    <3>3. r[i] \in TimedNode /\ r[i].expiry = difference /\ r[i].left = node.left
      <4> HIDE DEF difference
      <4> QED
        BY <1>7, <3>2 DEF TimedNode
    <3> QED
      BY <3>1, <3>3
  <2>3. CASE i = k + 2
    <3>1. k + 1 \in 1..Len(q) /\ k < Len(q) /\ k + 1 \in (k + 1)..Len(q)
      BY <1>1, <1>5, <2>3
    <3>2. d[i] = Due(q, k + 1) /\ d[i - 1] = node.expiry
      BY <1>1, <1>5, <2>3
    <3>3. r[(k + 1) + 1] = [q[k + 1] EXCEPT !.expiry = @ - difference]
      BY <1>4, <3>1 DEF InsertedAfter
    <3> DEFINE e == q[k + 1].expiry - difference
    <3>4. r[i] = [q[k + 1] EXCEPT !.expiry = e]
      BY <1>5, <2>3, <3>3
    <3>5. e = Due(q, k + 1) - node.expiry /\ e \in Nat
      <4>1. k \in 0..Len(q) /\ k + 1 \in 0..Len(q) /\ (k + 1) - 1 = k
        BY <1>1, <1>5, <3>1
      <4>2. Due(q, k + 1) = q[k + 1].expiry + Due(q, k)
        BY <1>2, <3>1, <4>1
      <4>3. Due(q, k) \in Nat /\ Due(q, k + 1) \in Nat /\ q[k + 1].expiry \in Nat
        BY <1>1, <1>2, <3>1, <4>1
      <4>4. node.expiry \in Nat /\ node.expiry =< Due(q, k + 1)
        BY <1>3, <1>8, <3>1
      <4>5. e = q[k + 1].expiry - (node.expiry - Due(q, k))
        OBVIOUS
      <4> HIDE DEF e
      <4> QED
        BY <4>2, <4>3, <4>4, <4>5, SMTT(60)
    <3>6. q[k + 1] \in TimedNode /\ q[k + 1].left = Due(q, k + 1) - l
      BY <1>1, <3>1 DEF Timely
    <3> HIDE DEF e
    <3>7. r[i] \in TimedNode /\ r[i].expiry = e /\ r[i].left = q[k + 1].left
      BY <3>4, <3>5, <3>6 DEF TimedNode
    <3> QED
      BY <3>2, <3>5, <3>6, <3>7
  <2>4. CASE i > k + 2
    <3>1. i - 1 \in 1..Len(q) /\ i - 1 \in (k + 1)..Len(q) /\ i - 1 # k + 1 /\ (i - 1) + 1 = i
      BY <1>1, <1>5, <2>4
    <3>2. d[i] = Due(q, i - 1) /\ d[i - 1] = Due(q, (i - 1) - 1)
      BY <1>1, <1>5, <2>4
    <3>3. r[i] = q[i - 1]
      BY <1>4, <3>1 DEF InsertedAfter
    <3>4. q[i - 1] \in TimedNode /\ q[i - 1].left = Due(q, i - 1) - l
      BY <1>1, <3>1 DEF Timely
    <3>5. q[i - 1].expiry = Due(q, i - 1) - Due(q, (i - 1) - 1)
      BY <3>1, DueStep
    <3> QED
      BY <3>2, <3>3, <3>4, <3>5
  <2> QED
    BY <1>1, <1>5, <2>1, <2>2, <2>3, <2>4
<1> HIDE DEF d
<1>12. Len(q) + 1 \in Nat
  BY <1>1
<1> QED
  BY <1>9, <1>10, <1>11, <1>12, TimelyIs DEF r

\* The first node of a timer is removed, if there is one.
LEMMA RemoveTimely ==
  ASSUME NEW q \in Queues, NEW l \in Int, Timely(q, l), NEW x
  PROVE  RemoveNode(q, x) \in Queues /\ Timely(RemoveNode(q, x), l)
<1> DEFINE r == RemoveNode(q, x)
           k == Min(Places(q, x))
<1>1. /\ Len(q) \in Nat /\ DOMAIN q = 1..Len(q)
      /\ \A i \in 1..Len(q) : q[i] \in TimedNode /\ q[i].expiry \in Nat /\ q[i].left \in Int
  BY QueuesAre
<1>2. /\ \A i \in 0..Len(q) : Due(q, i) \in Nat
      /\ Due(q, 0) = 0
      /\ \A i \in 1..Len(q) : Due(q, i) = q[i].expiry + Due(q, i - 1)
  BY DueFacts
<1>3. CASE Places(q, x) = {} \/ x = None
  BY <1>3 DEF RemoveNode, Places
<1>4. CASE ~(Places(q, x) = {} \/ x = None)
  <2>1. k \in 1..Len(q)
    <3>1. Places(q, x) \in SUBSET Nat
      BY <1>1 DEF Places
    <3>2. k \in Places(q, x)
      BY <1>4, <3>1, MinIsIn
    <3> QED
      BY <1>1, <3>2 DEF Places
  <2>2. r = [i \in 1..(Len(q) - 1) |->
              IF i < k THEN q[i]
              ELSE [q[i + 1] EXCEPT !.expiry = IF i = k THEN @ + q[k].expiry ELSE @]]
    BY <1>4 DEF RemoveNode, Places
  <2> HIDE DEF k
  <2>3. Len(q) - 1 \in Nat
    BY <1>1, <2>1
  <2> DEFINE d == [i \in 0..(Len(q) - 1) |-> IF i < k THEN Due(q, i) ELSE Due(q, i + 1)]
  <2>4. d \in [0..(Len(q) - 1) -> Int] /\ d[0] = 0
    BY <1>1, <1>2, <2>1
  <2>5. r = [i \in 1..(Len(q) - 1) |-> r[i]]
    BY <2>2
  <2>6. ASSUME NEW i \in 1..(Len(q) - 1)
        PROVE  r[i] \in TimedNode /\ r[i].expiry = d[i] - d[i - 1] /\ r[i].left = d[i] - l
    <3>1. /\ i \in 1..Len(q) /\ i + 1 \in 1..Len(q) /\ (i + 1) - 1 = i
          /\ i - 1 \in 0..Len(q) /\ i - 1 \in 0..(Len(q) - 1)
      BY <1>1
    <3>2. CASE i < k
      <4>1. d[i] = Due(q, i) /\ d[i - 1] = Due(q, i - 1)
        BY <2>1, <3>1, <3>2
      <4>2. r[i] = q[i] /\ q[i] \in TimedNode /\ q[i].left = Due(q, i) - l
        BY <1>1, <2>2, <3>1, <3>2 DEF Timely
      <4>3. q[i].expiry = Due(q, i) - Due(q, i - 1)
        BY <3>1, DueStep
      <4> QED
        BY <4>1, <4>2, <4>3
    <3>3. CASE ~(i < k)
      <4> DEFINE e == IF i = k THEN q[i + 1].expiry + q[k].expiry ELSE q[i + 1].expiry
      <4>1. r[i] = [q[i + 1] EXCEPT !.expiry = e]
        BY <2>2, <3>3
      <4>2. e \in Nat
        BY <1>1, <2>1, <3>1, SMTT(60)
      <4>3. d[i] = Due(q, i + 1) /\ d[i - 1] = IF i = k THEN Due(q, i - 1) ELSE Due(q, i)
        BY <2>1, <3>1, <3>3
      <4>4. e = d[i] - d[i - 1]
        <5>1. /\ Due(q, i + 1) = q[i + 1].expiry + Due(q, i)
              /\ Due(q, i) = q[i].expiry + Due(q, i - 1)
              /\ Due(q, i + 1) \in Nat /\ Due(q, i) \in Nat /\ Due(q, i - 1) \in Nat
              /\ q[i].expiry \in Nat /\ q[i + 1].expiry \in Nat
          BY <1>1, <3>1, DueStep
        <5> HIDE DEF d
        <5>2. CASE i = k
          <6>1. e = q[i + 1].expiry + q[i].expiry /\ d[i - 1] = Due(q, i - 1)
            BY <4>3, <5>2
          <6> HIDE DEF e
          <6> QED
            BY <4>3, <5>1, <6>1, SMTT(60)
        <5>3. CASE i # k
          <6>1. e = q[i + 1].expiry /\ d[i - 1] = Due(q, i)
            BY <4>3, <5>3
          <6> HIDE DEF e
          <6> QED
            BY <4>3, <5>1, <6>1, SMTT(60)
        <5> QED
          BY <5>2, <5>3
      <4>5. q[i + 1] \in TimedNode /\ q[i + 1].left = Due(q, i + 1) - l
        BY <1>1, <3>1 DEF Timely
      <4> HIDE DEF e, d
      <4>6. r[i] \in TimedNode /\ r[i].expiry = e /\ r[i].left = q[i + 1].left
        BY <4>1, <4>2, <4>5 DEF TimedNode
      <4> QED
        BY <4>3, <4>4, <4>5, <4>6
    <3> QED
      BY <3>2, <3>3
  <2> HIDE DEF d, r
  <2> QED
    BY <2>3, <2>4, <2>5, <2>6, TimelyIs DEF r
<1> QED
  BY <1>3, <1>4

\* The first node leaves the queue, and the reference becomes when it was due.
LEMMA TailTimely ==
  ASSUME NEW q \in Queues, NEW l \in Int, Timely(q, l), q # <<>>
  PROVE  /\ Head(q) \in TimedNode /\ Head(q).left = Head(q).expiry - l
         /\ Tail(q) \in Queues /\ Timely(Tail(q), l - Head(q).expiry)
<1> DEFINE r == Tail(q)
<1>1. /\ Len(q) \in Nat /\ DOMAIN q = 1..Len(q)
      /\ \A i \in 1..Len(q) : q[i] \in TimedNode /\ q[i].expiry \in Nat /\ q[i].left \in Int
  BY QueuesAre
<1>2. /\ \A i \in 0..Len(q) : Due(q, i) \in Nat
      /\ Due(q, 0) = 0
      /\ \A i \in 1..Len(q) : Due(q, i) = q[i].expiry + Due(q, i - 1)
  BY DueFacts
<1>3. Len(q) # 0 /\ Head(q) = q[1]
  BY EmptySeq DEF Queues
<1>4. /\ r \in Queues /\ Len(r) = Len(q) - 1
      /\ \A i \in 1..Len(r) : r[i] = q[i + 1]
  BY HeadTailProperties DEF Queues
<1>5. Len(q) - 1 \in Nat /\ 1 \in 1..Len(q)
  BY <1>1, <1>3
<1>6. Due(q, 1) = q[1].expiry
  BY <1>1, <1>2, <1>5
<1> DEFINE m == l - q[1].expiry
           d == [i \in 0..(Len(q) - 1) |-> Due(q, i + 1) - Due(q, 1)]
<1>7. m \in Int
  BY <1>1, <1>5
<1>8. d \in [0..(Len(q) - 1) -> Int] /\ d[0] = 0
  <2>1. \A i \in 0..(Len(q) - 1) : Due(q, i + 1) - Due(q, 1) \in Int
    <3>1. \A i \in 0..(Len(q) - 1) : i + 1 \in 0..Len(q)
      BY <1>1
    <3> QED
      BY <1>2, <1>5, <3>1
  <2>2. 0 \in 0..(Len(q) - 1) /\ 0 + 1 = 1 /\ Due(q, 1) \in Int
    BY <1>2, <1>5
  <2>3. d[0] = Due(q, 1) - Due(q, 1)
    BY <2>2
  <2>4. d[0] = 0
    BY <2>2, <2>3
  <2> QED
    BY <2>1, <2>4
<1>9. r = [i \in 1..(Len(q) - 1) |-> r[i]]
  <2> HIDE DEF r
  <2>1. r \in [1..Len(r) -> TimedNode]
    BY <1>4, LenProperties DEF Queues
  <2> QED
    BY <1>4, <2>1
<1> HIDE DEF r
<1>10. ASSUME NEW i \in 1..(Len(q) - 1)
       PROVE  r[i] \in TimedNode /\ r[i].expiry = d[i] - d[i - 1] /\ r[i].left = d[i] - m
  <2>1. i \in 1..Len(q) /\ i + 1 \in 1..Len(q) /\ (i + 1) - 1 = i /\ i - 1 \in 0..(Len(q) - 1)
    BY <1>1
  <2>2. r[i] = q[i + 1] /\ q[i + 1] \in TimedNode /\ q[i + 1].left = Due(q, i + 1) - l
    BY <1>1, <1>4, <2>1 DEF Timely
  <2>3. d[i] = Due(q, i + 1) - Due(q, 1) /\ d[i - 1] = Due(q, i) - Due(q, 1)
    BY <2>1
  <2>4. Due(q, i + 1) = q[i + 1].expiry + Due(q, i) /\ q[i + 1].expiry \in Nat
    BY <1>1, <1>2, <2>1
  <2>5. Due(q, i + 1) \in Nat /\ Due(q, i) \in Nat /\ Due(q, 1) \in Nat
    BY <1>2, <1>5, <2>1
  <2> HIDE DEF d
  <2>6. q[i + 1].expiry = d[i] - d[i - 1]
    BY <2>3, <2>4, <2>5, SMTT(60)
  <2>7. m = l - Due(q, 1)
    BY <1>6
  <2> HIDE DEF m
  <2>8. q[i + 1].left = d[i] - m
    BY <2>2, <2>3, <2>5, <2>7
  <2> QED
    BY <2>2, <2>6, <2>8
<1> HIDE DEF d
<1>11. Timely(r, m)
  BY <1>5, <1>7, <1>8, <1>9, <1>10, TimelyIs
<1>12. q[1] \in TimedNode /\ q[1].left = q[1].expiry - l
  BY <1>1, <1>5, <1>6 DEF Timely
<1> QED
  BY <1>3, <1>4, <1>11, <1>12 DEF r

\* The first node is charged with the ticks since the reference.
LEMMA ChargeTimely ==
  ASSUME NEW q \in Queues, NEW l \in Int, Timely(q, l), q # <<>>, Head(q).expiry > l
  PROVE  LET r == [q EXCEPT ![1].expiry = @ - l]
         IN  r \in Queues /\ Timely(r, 0)
<1> DEFINE r == [q EXCEPT ![1].expiry = @ - l]
<1>1. /\ Len(q) \in Nat /\ DOMAIN q = 1..Len(q)
      /\ \A i \in 1..Len(q) : q[i] \in TimedNode /\ q[i].expiry \in Nat /\ q[i].left \in Int
  BY QueuesAre
<1>2. /\ \A i \in 0..Len(q) : Due(q, i) \in Nat
      /\ Due(q, 0) = 0
      /\ \A i \in 1..Len(q) : Due(q, i) = q[i].expiry + Due(q, i - 1)
  BY DueFacts
<1>3. Len(q) # 0 /\ Head(q) = q[1]
  BY EmptySeq DEF Queues
<1>4. 1 \in 1..Len(q)
  BY <1>1, <1>3
<1> DEFINE d == [i \in 0..Len(q) |-> IF i = 0 THEN 0 ELSE Due(q, i) - l]
<1>5. d \in [0..Len(q) -> Int] /\ d[0] = 0
  BY <1>1, <1>2
<1>6. r = [i \in 1..Len(q) |-> r[i]]
  BY <1>1
<1> DEFINE now == 0
<1>7. ASSUME NEW i \in 1..Len(q)
      PROVE  r[i] \in TimedNode /\ r[i].expiry = d[i] - d[i - 1] /\ r[i].left = d[i] - now
  <2>1. /\ q[i] \in TimedNode /\ q[i].expiry \in Nat /\ q[i].left = Due(q, i) - l
        /\ Due(q, i) = q[i].expiry + Due(q, i - 1)
        /\ i - 1 \in 0..Len(q) /\ Due(q, i) \in Nat /\ Due(q, i - 1) \in Nat
    BY <1>1, <1>2 DEF Timely
  <2>2. d[i] = Due(q, i) - l /\ d[i - 1] = IF i = 1 THEN 0 ELSE Due(q, i - 1) - l
    BY <2>1
  <2>3. CASE i = 1
    <3> DEFINE e == q[1].expiry - l
    <3>1. r[1] = [q[1] EXCEPT !.expiry = e]
      BY <1>1, <1>4
    <3>2. e \in Nat /\ e = q[1].expiry - l
      BY <1>3, <2>1, <2>3
    <3> HIDE DEF e, d
    <3>3. r[1] \in TimedNode /\ r[1].expiry = e /\ r[1].left = q[1].left
      BY <2>1, <2>3, <3>1, <3>2 DEF TimedNode
    <3> QED
      BY <1>2, <2>1, <2>2, <2>3, <3>2, <3>3
  <2>4. CASE i # 1
    <3>1. r[i] = q[i]
      BY <1>1, <2>4
    <3> HIDE DEF d
    <3> QED
      BY <2>1, <2>2, <2>4, <3>1, SMTT(60)
  <2> QED
    BY <2>3, <2>4
<1>8. now \in Int
  OBVIOUS
<1> HIDE DEF d, now, r
<1>9. r \in Queues /\ Timely(r, now)
  BY <1>1, <1>5, <1>6, <1>7, <1>8, TimelyIs
<1> QED
  BY <1>9 DEF now, r

\* A tick passes.
LEMMA TickTimely ==
  ASSUME NEW q \in Queues, NEW l \in Int, Timely(q, l)
  PROVE  LET r == [i \in DOMAIN q |-> [q[i] EXCEPT !.left = @ - 1]]
         IN  r \in Queues /\ Timely(r, l + 1)
<1> DEFINE r == [i \in DOMAIN q |-> [q[i] EXCEPT !.left = @ - 1]]
<1>1. /\ Len(q) \in Nat /\ DOMAIN q = 1..Len(q)
      /\ \A i \in 1..Len(q) : q[i] \in TimedNode /\ q[i].expiry \in Nat /\ q[i].left \in Int
  BY QueuesAre
<1>2. /\ \A i \in 0..Len(q) : Due(q, i) \in Nat
      /\ Due(q, 0) = 0
      /\ \A i \in 1..Len(q) : Due(q, i) = q[i].expiry + Due(q, i - 1)
  BY DueFacts
<1> DEFINE d == [i \in 0..Len(q) |-> Due(q, i)]
           now == l + 1
<1>3. d \in [0..Len(q) -> Int] /\ d[0] = 0
  BY <1>1, <1>2
<1>4. r = [i \in 1..Len(q) |-> r[i]]
  BY <1>1
<1>5. ASSUME NEW i \in 1..Len(q)
      PROVE  r[i] \in TimedNode /\ r[i].expiry = d[i] - d[i - 1] /\ r[i].left = d[i] - now
  <2>1. /\ q[i] \in TimedNode /\ q[i].expiry \in Nat /\ q[i].left = Due(q, i) - l
        /\ Due(q, i) = q[i].expiry + Due(q, i - 1)
        /\ i - 1 \in 0..Len(q) /\ Due(q, i) \in Nat /\ Due(q, i - 1) \in Nat
    BY <1>1, <1>2 DEF Timely
  <2>2. d[i] = Due(q, i) /\ d[i - 1] = Due(q, i - 1)
    BY <2>1
  <2> DEFINE t == q[i].left - 1
  <2>3. r[i] = [q[i] EXCEPT !.left = t]
    BY <1>1
  <2>4. t \in Int /\ t = d[i] - now
    BY <2>1, <2>2
  <2> HIDE DEF t, d
  <2>5. r[i] \in TimedNode /\ r[i].expiry = q[i].expiry /\ r[i].left = t
    BY <2>1, <2>3, <2>4 DEF TimedNode
  <2> QED
    BY <2>1, <2>2, <2>4, <2>5, SMTT(60)
<1>6. now \in Int
  OBVIOUS
<1> HIDE DEF d, now, r
<1>7. r \in Queues /\ Timely(r, now)
  BY <1>1, <1>3, <1>4, <1>5, <1>6, TimelyIs
<1> QED
  BY <1>7 DEF now, r

-----------------------------------------------------------------------------
(* The inductive invariant: the times, next to Inv, which has the rest        *)

\* The dummy timer is never requested: its time is not in mExpiresAt.
TimeInv ==
  /\ mExpiresAt \in [Timers -> Int] /\ lag \in 0..MaxLag
  /\ timerQ \in Queues /\ Timely(timerQ, lag)
  /\ firing \in TimedNode /\ (thread = "fire" => firing.left = -lag)
  /\ ~In(requestQ, ADD(None))

\* A timer is never put in the queue as already over.
LEMMA FirstExpiryIsNat == \A offset \in Int : FirstExpiry(offset) \in Nat \ {0}
<1> SUFFICES ASSUME NEW offset \in Int PROVE FirstExpiry(offset) \in Nat \ {0}
  OBVIOUS
<1>1. offset % Period \in Nat /\ Period \in Nat \ {0}
  BY TimesAssumption
<1> QED
  BY <1>1 DEF FirstExpiry

LEMMA InitTime == Init => TimeInv
<1> SUFFICES ASSUME Init PROVE TimeInv
  OBVIOUS
<1> USE DEF Init
<1> DEFINE dummy == [timer |-> None, expiry |-> Heartbeat, left |-> Heartbeat]
           d == [i \in 0..1 |-> IF i = 0 THEN 0 ELSE Heartbeat]
<1>1. dummy \in TimedNode /\ dummy.expiry = Heartbeat /\ dummy.left = Heartbeat
  BY TimesAssumption DEF TimedNode
<1>2. /\ timerQ = [i \in 1..1 |-> timerQ[i]] /\ timerQ[1] = dummy
      /\ d \in [0..1 -> Int] /\ d[0] = 0 /\ d[1] = Heartbeat
  BY TimesAssumption
<1>3. timerQ \in Queues /\ Timely(timerQ, lag)
  <2> HIDE DEF dummy, d, Init
  <2>1. \A i \in 1..1 : i = 1 /\ i - 1 = 0
    OBVIOUS
  <2>2. ASSUME NEW i \in 1..1
        PROVE  /\ timerQ[i] \in TimedNode /\ timerQ[i].expiry = d[i] - d[i - 1]
               /\ timerQ[i].left = d[i] - lag
    <3>1. i = 1 /\ i - 1 = 0 /\ lag = 0 /\ Heartbeat \in Int
      BY <2>1, TimesAssumption DEF Init
    <3> QED
      BY <1>1, <1>2, <3>1
  <2>3. lag \in Int /\ 1 \in Nat
    BY DEF Init
  <2> QED
    BY <1>2, <2>2, <2>3, TimelyIs
<1>4. firing \in TimedNode
  BY DEF NoNode, TimedNode
<1>5. ~In(requestQ, ADD(None))
  BY DEF In
<1> QED
  BY <1>3, <1>4, <1>5, TimesAssumption DEF TimeInv

\* A step that leaves the queue alone.
LEMMA QuietTime ==
  ASSUME TimeInv, UNCHANGED threads, mExpiresAt' \in [Timers -> Int]
  PROVE  TimeInv'
<1> QED
  BY DEF TimeInv, threads, In

LEMMA StartTime ==
  ASSUME TimeInv, NEW x \in Timers, NEW offset \in Offsets, doStartTimer(x, offset)
  PROVE  TimeInv'
<1>1. mExpiresAt' \in [Timers -> Int]
  BY TimesAssumption DEF doStartTimer, TimeInv
<1> QED
  BY <1>1, QuietTime DEF doStartTimer

LEMMA HandleTime == ASSUME Inv, TimeInv, handleMessage PROVE TimeInv'
<1> DEFINE msg == Head(taskQ)
           x == msg.timer
<1>1. /\ taskQ # <<>> /\ UNCHANGED <<mExpiresAt, timerQ, firing, thread, lag>>
  BY DEF handleMessage, owners
<1>2. taskQ \in Seq(Messages) /\ requestQ \in Seq(Requests) /\ IdInv
  BY DEF Inv, GlobalInv, ShapeInv
<1>3. msg \in Messages
  BY <1>1, <1>2, TailFacts
<1>4. x \in Timers /\ x # None /\ (msg = START(x) \/ msg = STOP(x))
  BY <1>3, MessageKinds, TimersAssumption
<1> HIDE DEF msg, x
<1>5. PICK e \in Requests : e # ADD(None) /\ requestQ' = Append(requestQ, e)
  <2>1. CASE msg = START(x)
    <3>1. requestQ' = Append(requestQ, ADD(x))
      BY <2>1, MessageFacts DEF handleMessage, ADD, START, msg
    <3> QED
      BY <1>4, <3>1, MessageFacts, MessageKinds
  <2>2. CASE msg = STOP(x)
    <3>1. requestQ' = Append(requestQ, REMOVE(mTimerId[x]))
      BY <2>2, MessageFacts DEF handleMessage, REMOVE, STOP, msg
    <3>2. mTimerId[x] \in Timers \cup {None}
      BY <1>2, <1>4 DEF IdInv
    <3> QED
      BY <3>1, <3>2, MessageFacts, MessageKinds
  <2> QED
    BY <1>4, <2>1, <2>2
<1>6. ~In(requestQ', ADD(None))
  <2>1. Appended(requestQ, e, requestQ')
    BY <1>2, <1>5, AppendFacts
  <2> QED
    BY <1>5, <2>1 DEF Appended, TimeInv
<1> QED
  BY <1>1, <1>6 DEF TimeInv

LEMMA ServeTime == ASSUME Inv, TimeInv, doServiceRequests PROVE TimeInv'
<1> DEFINE msg == Head(requestQ)
           x == msg.timer
<1>1. /\ requestQ # <<>> /\ requestQ' = Tail(requestQ) /\ thread' = "serve"
      /\ UNCHANGED <<firing, lag>>
  BY DEF doServiceRequests
<1>2. requestQ \in Seq(Requests)
  BY DEF Inv, GlobalInv, ShapeInv
<1>3. msg \in Requests /\ Taken(requestQ, msg, requestQ')
  BY <1>1, <1>2, TailFacts
<1>4. x \in Timers \cup {None} /\ (msg = ADD(x) \/ msg = REMOVE(x))
  BY <1>3, MessageKinds
<1>5. ~In(requestQ', ADD(None)) /\ (msg = ADD(x) => x \in Timers)
  BY <1>3, <1>4 DEF Taken, TimeInv
<1>6. timerQ \in Queues /\ Timely(timerQ, lag) /\ lag \in Int /\ mExpiresAt \in [Timers -> Int]
  BY TimesAssumption DEF TimeInv
<1>7. mExpiresAt' \in [Timers -> Int] /\ timerQ' \in Queues /\ Timely(timerQ', lag)
  <2>1. CASE msg = ADD(x)
    <3>1. doAddTimer(x)
      BY <2>1, MessageFacts DEF doServiceRequests
    <3> DEFINE expiry == FirstExpiry(mExpiresAt[x])
               node == Node(x, expiry)
    <3>2. CASE x \notin Periodic /\ mExpiresAt[x] <= 0
      BY <1>6, <3>1, <3>2 DEF doAddTimer
    <3>3. CASE ~(x \notin Periodic /\ mExpiresAt[x] <= 0)
      <4>1. /\ mExpiresAt' = [mExpiresAt EXCEPT ![x] = expiry]
            /\ timerQ' = insertQ(timerQ, node)
        BY <3>1, <3>3 DEF doAddTimer
      <4>2. expiry \in Nat
        BY <1>5, <1>6, <2>1, FirstExpiryIsNat
      <4> HIDE DEF expiry
      <4>3. node \in TimedNode /\ node.left = node.expiry - lag
        BY <1>4, <1>6, <4>2 DEF Node, TimedNode
      <4> HIDE DEF node
      <4>4. timerQ' \in Queues /\ Timely(timerQ', lag)
        BY <1>6, <4>1, <4>3, InsertTimely
      <4>5. mExpiresAt' \in [Timers -> Int]
        <5>1. expiry \in Int /\ mExpiresAt' = [mExpiresAt EXCEPT ![x] = expiry]
          BY <4>1, <4>2
        <5> HIDE DEF x
        <5> QED
          BY <1>6, <5>1
      <4> QED
        BY <4>4, <4>5
    <3> QED
      BY <3>2, <3>3
  <2>2. CASE msg = REMOVE(x)
    <3>1. timerQ' = RemoveNode(timerQ, x) /\ mExpiresAt' = mExpiresAt
      BY <2>2, MessageFacts DEF doServiceRequests
    <3> QED
      BY <1>6, <3>1, RemoveTimely
  <2> QED
    BY <1>4, <2>1, <2>2
<1> QED
  BY <1>1, <1>5, <1>7 DEF TimeInv

LEMMA SettleTime == ASSUME Inv, TimeInv, Settle PROVE TimeInv'
<1> DEFINE first == Head(timerQ)
<1>1. thread \in {"wait", "serve"} /\ UpdateReference /\ UNCHANGED <<mExpiresAt, requestQ>>
  BY DEF Settle, owners
<1>2. timerQ # <<>>
  BY <1>1 DEF Inv, GlobalInv, DummyInv, Places
<1>3. timerQ \in Queues /\ Timely(timerQ, lag) /\ lag \in 0..MaxLag /\ MaxLag \in Nat
  BY TimesAssumption DEF TimeInv
<1>4. lag \in Int
  BY <1>3
<1>5. first \in TimedNode /\ first.left = first.expiry - lag /\ first.expiry \in Nat
  BY <1>2, <1>3, <1>4, TailTimely DEF TimedNode
<1>6. CASE first.expiry > lag
  <2>1. /\ timerQ' = [timerQ EXCEPT ![1].expiry = @ - lag]
        /\ lag' = 0 /\ thread' = "wait" /\ firing' = firing
    BY <1>1, <1>6 DEF UpdateReference
  <2>2. timerQ' \in Queues /\ Timely(timerQ', 0)
    BY <1>2, <1>3, <1>4, <1>6, <2>1, ChargeTimely
  <2> QED
    BY <1>1, <1>3, <2>1, <2>2 DEF TimeInv
<1>7. CASE ~(first.expiry > lag)
  <2>1. /\ timerQ' = Tail(timerQ) /\ firing' = first
        /\ lag' = lag - first.expiry /\ thread' = "fire"
    BY <1>1, <1>7 DEF UpdateReference
  <2>2. timerQ' \in Queues /\ Timely(timerQ', lag')
    BY <1>2, <1>3, <1>4, <2>1, TailTimely
  <2> HIDE DEF first
  <2>3. lag' \in 0..MaxLag /\ firing'.left = -lag'
    BY <1>3, <1>5, <1>7, <2>1
  <2> QED
    BY <1>1, <1>5, <2>1, <2>2, <2>3 DEF TimeInv
<1> QED
  BY <1>6, <1>7

LEMMA FireTime == ASSUME TimeInv, Fire PROVE TimeInv'
<1>1. /\ thread = "fire" /\ firing' = NoNode /\ thread' = "serve"
      /\ UNCHANGED <<mExpiresAt, requestQ, lag>>
  BY DEF Fire, owners
<1>2. NoNode \in TimedNode
  BY DEF NoNode, TimedNode
<1>3. /\ timerQ \in Queues /\ Timely(timerQ, lag) /\ lag \in Int
      /\ firing \in TimedNode /\ firing.left = -lag
  BY <1>1, TimesAssumption DEF TimeInv
<1>4. CASE firing.timer \in Periodic \cup {None}
  <2> DEFINE period == IF firing.timer = None THEN Heartbeat ELSE Period
             left == firing.left + period
             node == [firing EXCEPT !.expiry = period, !.left = left]
  <2>1. timerQ' = insertQ(timerQ, node)
    BY <1>1, <1>4 DEF Fire
  <2>2. period \in Nat /\ left \in Int /\ left = period - lag
    <3>1. period \in Nat
      BY TimesAssumption
    <3> HIDE DEF period
    <3> QED
      BY <1>3, <3>1
  <2> HIDE DEF period, left
  <2>3. node \in TimedNode /\ node.left = node.expiry - lag
    BY <1>3, <2>2 DEF TimedNode
  <2> HIDE DEF node
  <2>4. timerQ' \in Queues /\ Timely(timerQ', lag)
    BY <1>3, <2>1, <2>3, InsertTimely
  <2> QED
    BY <1>1, <1>2, <2>4 DEF TimeInv
<1>5. CASE firing.timer \notin Periodic \cup {None}
  <2>1. timerQ' = timerQ
    BY <1>1, <1>5 DEF Fire
  <2> QED
    BY <1>1, <1>2, <2>1 DEF TimeInv
<1> QED
  BY <1>4, <1>5

LEMMA TickTime == ASSUME TimeInv, Tick PROVE TimeInv'
<1>1. /\ lag < MaxLag /\ lag' = lag + 1
      /\ timerQ' = [i \in DOMAIN timerQ |-> [timerQ[i] EXCEPT !.left = @ - 1]]
      /\ firing' = IF thread = "fire" THEN [firing EXCEPT !.left = @ - 1] ELSE firing
      /\ UNCHANGED <<mExpiresAt, requestQ, thread>>
  BY DEF Tick, owners
<1>2. timerQ \in Queues /\ Timely(timerQ, lag) /\ lag \in 0..MaxLag /\ MaxLag \in Nat
  BY TimesAssumption DEF TimeInv
<1>3. lag \in Int /\ lag' \in 0..MaxLag
  BY <1>1, <1>2
<1>4. timerQ' \in Queues /\ Timely(timerQ', lag')
  BY <1>1, <1>2, <1>3, TickTimely
<1>5. firing' \in TimedNode /\ (thread = "fire" => firing'.left = -lag')
  <2>1. CASE thread = "fire"
    <3> DEFINE left == firing.left - 1
    <3>1. firing' = [firing EXCEPT !.left = left]
      BY <1>1, <2>1
    <3>2. firing \in TimedNode /\ firing.left = -lag
      BY <2>1 DEF TimeInv
    <3>3. left \in Int /\ left = -lag'
      BY <1>1, <1>3, <3>2
    <3> HIDE DEF left
    <3> QED
      BY <3>1, <3>2, <3>3 DEF TimedNode
  <2>2. CASE thread # "fire"
    BY <1>1, <2>2 DEF TimeInv
  <2> QED
    BY <2>1, <2>2
<1> QED
  BY <1>1, <1>3, <1>4, <1>5 DEF TimeInv

LEMMA NextTime == Inv /\ TimeInv /\ [Next]_vars => TimeInv'
<1> SUFFICES ASSUME Inv, TimeInv, [Next]_vars PROVE TimeInv'
  OBVIOUS
<1>0. mExpiresAt \in [Timers -> Int]
  BY DEF TimeInv
<1>1. CASE \E tm \in Timers : \E offset \in Offsets : doStartTimer(tm, offset)
  BY <1>1, StartTime
<1>2. CASE \E tm \in Timers : doStopTimer(tm) \/ stopTimer(tm)
  BY <1>0, <1>2, QuietTime DEF doStopTimer, stopTimer
<1>3. CASE handleMessage
  BY <1>3, HandleTime
<1>4. CASE RemovalDone
  BY <1>0, <1>4, QuietTime DEF RemovalDone
<1>5. CASE doServiceRequests
  BY <1>5, ServeTime
<1>6. CASE Settle
  BY <1>6, SettleTime
<1>7. CASE Fire
  BY <1>7, FireTime
<1>8. CASE Tick
  BY <1>8, TickTime
<1>9. CASE UNCHANGED vars
  BY <1>0, <1>9, QuietTime DEF vars, owners
<1> QED
  BY <1>1, <1>2, <1>3, <1>4, <1>5, <1>6, <1>7, <1>8, <1>9 DEF Next

\* The invariants are inductive together.
LEMMA BothInvariants == Spec => [](Inv /\ TimeInv)
<1>1. Init => Inv /\ TimeInv
  BY InitInv, InitTime
<1>2. Inv /\ TimeInv /\ [Next]_vars => Inv' /\ TimeInv'
  BY NextInv, NextTime
<1> QED
  BY <1>1, <1>2, PTL DEF Spec

-----------------------------------------------------------------------------
(* What they say of the queue                                                 *)

LEMMA InvTypes == Inv /\ TimeInv => TypeOK
<1> SUFFICES ASSUME Inv, TimeInv PROVE TypeOK
  OBVIOUS
<1>1. timerQ \in Seq(NodeType) /\ firing \in NodeType
  <2>1. \A n \in TimedNode : n \in NodeType
    BY DEF TimedNode, NodeType
  <2>2. timerQ \in Seq(TimedNode) /\ firing \in TimedNode
    BY DEF TimeInv, Queues
  <2>3. \A i \in 1..Len(timerQ) : timerQ[i] \in NodeType
    BY <2>1, <2>2, ElementOfSeq
  <2>4. timerQ \in [1..Len(timerQ) -> NodeType] /\ Len(timerQ) \in Nat
    BY <2>2, <2>3, LenProperties
  <2> QED
    BY <2>1, <2>2, <2>4
<1>2. thread # "fire" => None \in {node.timer : node \in Nodes}
  BY DEF Inv, GlobalInv, DummyInv, Places, Nodes
<1>3. /\ taskQ \in Seq([type : {"START", "STOP"}, timer : Timers])
      /\ requestQ \in Seq([type : {"ADD", "REMOVE"}, timer : Timers \cup {None}])
  BY DEF Inv, GlobalInv, ShapeInv, Messages, Requests
<1> QED
  BY <1>1, <1>2, <1>3 DEF TypeOK, Inv, GlobalInv, ShapeInv, DummyInv, TimeInv

LEMMA InvDue == Inv /\ TimeInv => DueKept
<1> SUFFICES ASSUME Inv, TimeInv PROVE DueKept
  OBVIOUS
<1>1. timerQ \in Queues /\ Timely(timerQ, lag)
  BY DEF TimeInv
<1>2. DOMAIN timerQ = 1..Len(timerQ)
  BY <1>1, QueuesAre
<1> QED
  BY <1>1, <1>2 DEF DueKept, Timely, TimeInv

\* A later node is not due earlier.
LEMMA DueGrows ==
  ASSUME NEW q \in Queues, NEW i \in 0..Len(q), NEW j \in i..Len(q)
  PROVE  Due(q, i) =< Due(q, j)
<1> DEFINE Early == {n \in i..Len(q) : Due(q, n) < Due(q, i)}
<1>1. /\ Len(q) \in Nat /\ \A n \in 0..Len(q) : Due(q, n) \in Nat
      /\ \A n \in 1..Len(q) : q[n].expiry \in Nat /\ Due(q, n) = q[n].expiry + Due(q, n - 1)
  BY QueuesAre, DueFacts
<1>2. SUFFICES ASSUME Early # {} PROVE FALSE
  <2>1. j \notin Early
    BY <1>2
  <2>2. Due(q, i) \in Nat /\ Due(q, j) \in Nat
    BY <1>1
  <2> QED
    BY <2>1, <2>2
<1>3. PICK m \in Early : \A n \in Early : m =< n
  <2>1. Early \in SUBSET Nat
    BY <1>1
  <2> HIDE DEF Early
  <2> QED
    BY <1>2, <2>1, SmallestIn
<1>4. m \in i..Len(q) /\ m # i /\ Due(q, m) < Due(q, i)
  BY <1>1, <1>3
<1>5. m - 1 \in i..Len(q) /\ m \in 1..Len(q) /\ ~(m =< m - 1)
  BY <1>1, <1>4, SMTT(60)
<1>6. Due(q, m - 1) =< Due(q, m)
  <2>1. Due(q, m - 1) \in Nat /\ q[m].expiry \in Nat /\ Due(q, m) = q[m].expiry + Due(q, m - 1)
    BY <1>1, <1>5
  <2> QED
    BY <2>1
<1>7. m - 1 \in Early
  <2>1. Due(q, m - 1) \in Nat /\ Due(q, m) \in Nat /\ Due(q, i) \in Nat
    BY <1>1, <1>5
  <2> QED
    BY <1>4, <1>5, <1>6, <2>1
<1> QED
  BY <1>3, <1>5, <1>7

\* Timers, messages and nodes have their types whatever the offsets are, and
\* the thread's dummy timer is in the queue whenever the thread looks at it
\* (OsSysSoftTimer::run).
THEOREM TypeCorrect == Spec => []TypeOK
<1> QED
  BY BothInvariants, InvTypes, PTL

\* No insertion, removal, charge or expiry moves another timer: each node is due
\* when it was to be due when it was added (OsSysSoftTimer::insertQ,
\* RemoveNode in doServiceRequests, run).
THEOREM DifferencesKept == Spec => []DueKept
<1> QED
  BY BothInvariants, InvDue, PTL

\* The nodes are in the order in which they are due.
NextIsFirst ==
  /\ \A i, j \in DOMAIN timerQ : i <= j => timerQ[i].left <= timerQ[j].left
  /\ thread = "fire" =>
       firing.left <= 0 /\ \A i \in DOMAIN timerQ : firing.left <= timerQ[i].left

LEMMA InvFirst == Inv /\ TimeInv => NextIsFirst
<1> SUFFICES ASSUME TimeInv PROVE NextIsFirst
  OBVIOUS
<1>1. timerQ \in Queues /\ Timely(timerQ, lag) /\ lag \in Nat
  BY TimesAssumption DEF TimeInv
<1>2. /\ Len(timerQ) \in Nat /\ DOMAIN timerQ = 1..Len(timerQ)
      /\ \A i \in 0..Len(timerQ) : Due(timerQ, i) \in Nat
  BY <1>1, QueuesAre, DueFacts
<1>3. \A i \in 1..Len(timerQ) : timerQ[i].left = Due(timerQ, i) - lag
  BY <1>1 DEF Timely
<1>4. ASSUME NEW i \in 1..Len(timerQ), NEW j \in 1..Len(timerQ), i <= j
      PROVE  timerQ[i].left <= timerQ[j].left
  <2>1. i \in 0..Len(timerQ) /\ j \in i..Len(timerQ) /\ j \in 0..Len(timerQ)
    BY <1>2, <1>4
  <2>2. Due(timerQ, i) =< Due(timerQ, j)
    BY <1>1, <2>1, DueGrows
  <2> QED
    BY <1>1, <1>2, <1>3, <2>1, <2>2
<1>5. ASSUME thread = "fire"
      PROVE  firing.left <= 0 /\ \A i \in 1..Len(timerQ) : firing.left <= timerQ[i].left
  <2>1. firing.left = -lag
    BY <1>5 DEF TimeInv
  <2>2. \A i \in 1..Len(timerQ) : i \in 0..Len(timerQ)
    BY <1>2
  <2> QED
    BY <1>1, <1>2, <1>3, <2>1, <2>2
<1> QED
  BY <1>2, <1>4, <1>5 DEF NextIsFirst

\* The thread may wait for the first timer of the queue alone: no other is due
\* before it.  And no timer is fired before the time it was set for, which the
\* thread counted from its reference, nor while one that was due before it is in
\* the queue (OsSysSoftTimer::run).
THEOREM QueueInOrder == Spec => []NextIsFirst
<1> QED
  BY InvFirst, BothInvariants, PTL

-----------------------------------------------------------------------------
(* The alarm clock.  What a queue is to it: which timers are due when.        *)

Mark(node) == [timer |-> node.timer, left |-> node.left]
Marks(q) == {Mark(q[i]) : i \in DOMAIN q}
Others(q, x) == {m \in Marks(q) : m.timer # x}

\* A change of the difference is none of the alarm.
LEMMA MarkKept ==
  ASSUME NEW n, IsNode(n), NEW e, NEW m, m = [n EXCEPT !.expiry = e]
  PROVE  Mark(m) = Mark(n)
<1> QED
  BY DEF IsNode, Mark

\* An insertion adds the new node's alarm and keeps the others.
LEMMA InsertMarks ==
  ASSUME NEW q, IsQueue(q), NEW node, IsNode(node), NEW r, r = insertQ(q, node)
  PROVE  Marks(r) = Marks(q) \cup {Mark(node)}
<1>0. PICK k \in 0..Len(q) : InsertedAfter(q, node, r, k)
  BY InsertPlaces DEF DueBefore
<1>1. Len(q) \in Nat /\ DOMAIN q = 1..Len(q) /\ \A i \in 1..Len(q) : IsNode(q[i])
  BY QueueFacts DEF IsQueue
<1>2. DOMAIN r = 1..(Len(q) + 1)
  BY <1>0, QueueFacts DEF InsertedAfter
<1>3. /\ \A i \in 1..k : Mark(r[i]) = Mark(q[i])
      /\ Mark(r[k + 1]) = Mark(node)
      /\ \A i \in (k + 1)..Len(q) : Mark(r[i + 1]) = Mark(q[i])
  <2>1. Mark(r[k + 1]) = Mark(node)
    <3> DEFINE e == node.expiry - Due(q, k)
    <3>1. r[k + 1] = [node EXCEPT !.expiry = e]
      BY <1>0 DEF InsertedAfter
    <3> HIDE DEF e
    <3> QED
      BY <3>1, MarkKept
  <2>2. ASSUME NEW i \in (k + 1)..Len(q) PROVE Mark(r[i + 1]) = Mark(q[i])
    <3>1. IsNode(q[i])
      BY <1>1
    <3>2. CASE i = k + 1
      <4> DEFINE e == q[i].expiry - (node.expiry - Due(q, k))
      <4>1. r[i + 1] = [q[i] EXCEPT !.expiry = e]
        BY <1>0, <3>2 DEF InsertedAfter
      <4> HIDE DEF e
      <4> QED
        BY <3>1, <4>1, MarkKept
    <3>3. CASE i # k + 1
      BY <1>0, <3>3 DEF InsertedAfter
    <3> QED
      BY <3>2, <3>3
  <2> QED
    BY <1>0, <2>1, <2>2 DEF InsertedAfter
<1>4. \A i \in DOMAIN q : \E j \in DOMAIN r : Mark(r[j]) = Mark(q[i])
  <2> SUFFICES ASSUME NEW i \in 1..Len(q) PROVE \E j \in 1..(Len(q) + 1) : Mark(r[j]) = Mark(q[i])
    BY <1>1, <1>2
  <2>1. CASE i <= k
    BY <1>1, <1>3, <2>1
  <2>2. CASE i > k
    <3>1. i \in (k + 1)..Len(q) /\ i + 1 \in 1..(Len(q) + 1)
      BY <1>1, <2>2
    <3> QED
      BY <1>3, <3>1
  <2> QED
    BY <1>1, <2>1, <2>2
<1>5. k + 1 \in DOMAIN r
  BY <1>1, <1>2
<1>6. \A j \in DOMAIN r : Mark(r[j]) = Mark(node) \/ \E i \in DOMAIN q : Mark(r[j]) = Mark(q[i])
  <2> SUFFICES ASSUME NEW j \in 1..(Len(q) + 1), j # k + 1
               PROVE  \E i \in 1..Len(q) : Mark(r[j]) = Mark(q[i])
    BY <1>1, <1>2, <1>3
  <2>1. CASE j <= k
    BY <1>1, <1>3, <2>1
  <2>2. CASE j > k
    <3>1. j - 1 \in (k + 1)..Len(q) /\ j - 1 \in 1..Len(q) /\ (j - 1) + 1 = j
      BY <1>1, <2>2
    <3> QED
      BY <1>3, <3>1
  <2> QED
    BY <1>1, <2>1, <2>2
<1> QED
  BY <1>3, <1>4, <1>5, <1>6 DEF Marks

\* A removal keeps the alarms of the other timers.
LEMMA RemoveMarks ==
  ASSUME NEW q, IsQueue(q), NEW x, NEW r, r = RemoveNode(q, x)
  PROVE  Others(r, x) = Others(q, x)
<1> DEFINE k == Min(Places(q, x))
<1>1. CASE Places(q, x) = {} \/ x = None
  BY <1>1 DEF RemoveNode, Places
<1>2. CASE Places(q, x) # {} /\ x # None
  <2>1. Len(q) \in Nat /\ DOMAIN q = 1..Len(q) /\ \A i \in 1..Len(q) : IsNode(q[i])
    BY QueueFacts DEF IsQueue
  <2>2. k \in Places(q, x)
    <3>1. Places(q, x) \in SUBSET Nat
      BY <2>1 DEF Places
    <3> QED
      BY <1>2, <3>1, MinIsIn
  <2>3. k \in 1..Len(q) /\ q[k].timer = x
    BY <2>1, <2>2 DEF Places
  <2>4. r = [i \in 1..(Len(q) - 1) |->
              IF i < k THEN q[i]
              ELSE [q[i + 1] EXCEPT !.expiry = IF i = k THEN @ + q[k].expiry ELSE @]]
    BY <1>2 DEF RemoveNode, Places
  <2> HIDE DEF k
  <2> DEFINE from(i) == IF i < k THEN i ELSE i + 1
             to(i) == IF i < k THEN i ELSE i - 1
  <2>5. DOMAIN r = 1..(Len(q) - 1)
    BY <2>4
  <2>6. \A i \in 1..(Len(q) - 1) : from(i) \in 1..Len(q) /\ Mark(r[i]) = Mark(q[from(i)])
    <3> SUFFICES ASSUME NEW i \in 1..(Len(q) - 1)
                 PROVE  from(i) \in 1..Len(q) /\ Mark(r[i]) = Mark(q[from(i)])
      OBVIOUS
    <3>1. from(i) \in 1..Len(q)
      BY <2>1, <2>3
    <3>2. CASE i < k
      BY <2>4, <3>1, <3>2
    <3>3. CASE ~(i < k)
      <4> DEFINE e == IF i = k THEN q[i + 1].expiry + q[k].expiry ELSE q[i + 1].expiry
      <4>1. r[i] = [q[i + 1] EXCEPT !.expiry = e]
        BY <2>4, <3>3
      <4>2. IsNode(q[i + 1])
        BY <2>1
      <4> HIDE DEF e
      <4>3. Mark(r[i]) = Mark(q[i + 1])
        BY <4>1, <4>2 DEF IsNode, Mark
      <4> QED
        BY <3>1, <3>3, <4>3
    <3> QED
      BY <3>2, <3>3
  <2>7. \A i \in 1..Len(q) : i # k => to(i) \in 1..(Len(q) - 1) /\ from(to(i)) = i
    BY <2>1, <2>3
  <2>8. \A i \in 1..Len(q) : Mark(q[i]).timer # x => i # k
    BY <2>3 DEF Mark
  <2> HIDE DEF from, to
  <2>9. \A i \in 1..Len(q) : Mark(q[i]).timer # x =>
          to(i) \in 1..(Len(q) - 1) /\ Mark(r[to(i)]) = Mark(q[i])
    BY <2>6, <2>7, <2>8
  <2> QED
    BY <2>1, <2>5, <2>6, <2>9 DEF Others, Marks
<1> QED
  BY <1>1, <1>2

\* The first node takes its alarm along.
LEMMA TailMarks ==
  ASSUME NEW q \in Queues, q # <<>>
  PROVE  Marks(q) = Marks(Tail(q)) \cup {Mark(Head(q))}
<1> DEFINE r == Tail(q)
<1>1. Len(q) \in Nat \ {0} /\ DOMAIN q = 1..Len(q)
  BY EmptySeq, LenProperties DEF Queues
<1>2. /\ r \in Queues /\ Len(r) = Len(q) - 1 /\ Head(q) = q[1]
      /\ \A i \in 1..Len(r) : r[i] = q[i + 1]
  BY <1>1, HeadTailProperties DEF Queues
<1>3. DOMAIN r = 1..(Len(q) - 1)
  BY <1>2, QueuesAre
<1> HIDE DEF r
<1>4. \A i \in DOMAIN q : i = 1 \/ (i - 1 \in DOMAIN r /\ r[i - 1] = q[i])
  <2> SUFFICES ASSUME NEW i \in 1..Len(q), i # 1 PROVE i - 1 \in DOMAIN r /\ r[i - 1] = q[i]
    BY <1>1
  <2>1. i - 1 \in 1..Len(r) /\ (i - 1) + 1 = i
    BY <1>1, <1>2
  <2> QED
    BY <1>2, <1>3, <2>1
<1>5. \A i \in DOMAIN r : i + 1 \in DOMAIN q /\ r[i] = q[i + 1]
  BY <1>1, <1>2, <1>3
<1>6. 1 \in DOMAIN q
  BY <1>1
<1> QED
  BY <1>2, <1>4, <1>5, <1>6 DEF Marks, r

\* The charge of the first node is none of its alarm.
LEMMA ChargeMarks ==
  ASSUME NEW q \in Queues, q # <<>>, NEW l
  PROVE  Marks([q EXCEPT ![1].expiry = @ - l]) = Marks(q)
<1> DEFINE r == [q EXCEPT ![1].expiry = @ - l]
<1>1. Len(q) \in Nat \ {0} /\ DOMAIN q = 1..Len(q) /\ \A i \in 1..Len(q) : IsNode(q[i])
  BY EmptySeq, LenProperties, QueuesAre DEF Queues, IsQueue
<1>2. DOMAIN r = DOMAIN q /\ 1 \in DOMAIN q
  BY <1>1
<1>3. \A i \in DOMAIN q : Mark(r[i]) = Mark(q[i])
  <2> DEFINE e == q[1].expiry - l
  <2>1. r[1] = [q[1] EXCEPT !.expiry = e]
    BY <1>2
  <2>2. \A i \in DOMAIN q : i # 1 => r[i] = q[i]
    BY <1>2
  <2> HIDE DEF r, e
  <2>3. Mark(r[1]) = Mark(q[1])
    BY <1>1, <1>2, <2>1, MarkKept
  <2> QED
    BY <2>2, <2>3
<1> HIDE DEF r
<1> QED
  BY <1>2, <1>3 DEF Marks, r

\* A tick is one for every alarm.
LEMMA TickMarks ==
  ASSUME NEW q \in Queues
  PROVE  Marks([i \in DOMAIN q |-> [q[i] EXCEPT !.left = @ - 1]])
           = {[timer |-> m.timer, left |-> m.left - 1] : m \in Marks(q)}
<1> DEFINE r == [i \in DOMAIN q |-> [q[i] EXCEPT !.left = @ - 1]]
<1>1. DOMAIN q = 1..Len(q) /\ \A i \in 1..Len(q) : q[i] \in TimedNode
  BY QueuesAre
<1>2. \A i \in DOMAIN q : Mark(r[i]) = [timer |-> Mark(q[i]).timer, left |-> Mark(q[i]).left - 1]
  <2> SUFFICES ASSUME NEW i \in DOMAIN q
               PROVE  Mark(r[i]) = [timer |-> Mark(q[i]).timer, left |-> Mark(q[i]).left - 1]
    OBVIOUS
  <2> DEFINE t == q[i].left - 1
  <2>1. r[i] = [q[i] EXCEPT !.left = t] /\ q[i] \in TimedNode
    BY <1>1
  <2> HIDE DEF r
  <2> QED
    BY <2>1 DEF Mark, TimedNode
<1>3. DOMAIN r = DOMAIN q
  OBVIOUS
<1> HIDE DEF r
<1> QED
  BY <1>2, <1>3 DEF Marks, r

\* The alarms are the known ones among those of the queue and the firing node.
KnownMarks(q, n) == {m \in Marks(q) \cup {Mark(n)} : m.timer \in Known}

LEMMA AlarmsAre ==
  Alarms = KnownMarks(timerQ, firing) /\ Alarms' = KnownMarks(timerQ', firing')
<1>1. \A n : Mark(n).timer = n.timer
  BY DEF Mark
<1>2. Alarms = KnownMarks(timerQ, firing)
  BY <1>1 DEF Alarms, Nodes, KnownMarks, Marks, Mark
<1>3. Alarms' = KnownMarks(timerQ', firing')
  BY <1>1 DEF Alarms, Nodes, KnownMarks, Marks, Mark
<1> QED
  BY <1>2, <1>3

LEMMA OrderedIs ==
  ASSUME NEW tm
  PROVE  /\ Ordered(tm) <=> In(taskQ, START(tm)) \/ In(requestQ, ADD(tm))
         /\ Ordered(tm)' <=> In(taskQ', START(tm)) \/ In(requestQ', ADD(tm))
<1> QED
  BY DEF Ordered, In, START, ADD

\* A timer is idle to its owner exactly when it is not armed.
LEMMA IdleIs ==
  ASSUME NEW tm \in Known
  PROVE  Clock!Idle(tm) <=> ~Armed(tm)
<1>1. Clock!Of(tm) = {} <=> Places(timerQ, tm) = {} /\ firing.timer # tm
  <2>1. Clock!Of(tm) = {} <=> \A m \in Marks(timerQ) \cup {Mark(firing)} : m.timer # tm
    BY AlarmsAre DEF Clock!Of, KnownMarks
  <2>2. \A n : Mark(n).timer = n.timer
    BY DEF Mark
  <2>3. (\A m \in Marks(timerQ) : m.timer # tm) <=> Places(timerQ, tm) = {}
    BY <2>2 DEF Marks, Places
  <2> QED
    BY <2>1, <2>2, <2>3
<1>2. (\A o \in Orders : o.timer # tm) <=> ~Ordered(tm)
  <2>1. \A o \in Orders : o.timer \in Known /\ Ordered(o.timer)
    BY DEF Orders
  <2>2. Ordered(tm) => [timer |-> tm, offset |-> mExpiresAt[tm]] \in Orders
    BY DEF Orders
  <2> QED
    BY <2>1, <2>2
<1> QED
  BY <1>1, <1>2, OrderedIs DEF Clock!Idle, Armed

\* A step that neither gives nor takes an order.
LEMMA OrdersKept ==
  ASSUME \A tm \in Known : Ordered(tm)' <=> Ordered(tm),
         \A tm \in Known : mExpiresAt'[tm] = mExpiresAt[tm]
  PROVE  Orders' = Orders
<1> QED
  BY DEF Orders

\* A step that takes one order.
LEMMA OrderTaken ==
  ASSUME NEW x \in Known, Ordered(x),
         \A tm \in Known : Ordered(tm)' <=> Ordered(tm) /\ tm # x,
         \A tm \in Known : tm # x => mExpiresAt'[tm] = mExpiresAt[tm]
  PROVE  LET o == [timer |-> x, offset |-> mExpiresAt[x]]
         IN  o \in Orders /\ Orders' = Orders \ {o}
<1> QED
  BY DEF Orders

ClockVars == <<Orders, Alarms, Stopping>>
LEMMA KnownFacts == \A tm \in Known : tm \in Timers /\ tm # None
<1> QED
  BY TimersAssumption DEF Known

LEMMA StartClock ==
  ASSUME Inv, TimeInv, NEW x \in Timers, NEW offset \in Offsets, doStartTimer(x, offset)
  PROVE  Clock!Next \/ UNCHANGED ClockVars
<1>1. /\ owner[x] = "idle" /\ mState[x] \in {"CREATED", "STOPPED"}
      /\ mExpiresAt' = [mExpiresAt EXCEPT ![x] = offset]
      /\ taskQ' = Append(taskQ, START(x))
      /\ UNCHANGED <<owner, requestQ, timerQ, firing>>
  BY DEF doStartTimer, START, threads
<1>2. Alarms' = Alarms /\ Stopping' = Stopping
  BY <1>1, AlarmsAre DEF Stopping
<1>3. \A m : In(taskQ', m) <=> In(taskQ, m) \/ m = START(x)
  <2>1. taskQ \in Seq(Messages) /\ START(x) \in Messages
    BY MessageKinds DEF Inv, GlobalInv, ShapeInv
  <2>2. Appended(taskQ, START(x), taskQ')
    BY <1>1, <2>1, AppendFacts
  <2> QED
    BY <2>2 DEF Appended
<1>4. ASSUME NEW tm \in Known PROVE Ordered(tm)' <=> Ordered(tm) \/ tm = x
  BY <1>1, <1>3, OrderedIs, MessageFacts
<1>5. mExpiresAt'[x] = offset /\ \A tm \in Timers : tm # x => mExpiresAt'[tm] = mExpiresAt[tm]
  BY <1>1 DEF TimeInv
<1>6. CASE x \notin Known
  <2>1. Orders' = Orders
    BY <1>4, <1>5, <1>6, KnownFacts, OrdersKept
  <2> QED
    BY <1>2, <2>1 DEF ClockVars
<1>7. CASE x \in Known
  <2>1. ~Armed(x)
    BY <1>1, <1>7 DEF Inv, GlobalInv, IdInv, ArmedOnce
  <2>2. ~Ordered(x)
    BY <2>1, OrderedIs DEF Armed
  <2>3. Orders' = Orders \cup {[timer |-> x, offset |-> offset]}
    BY <1>4, <1>5, <1>7, <2>2, KnownFacts DEF Orders
  <2>4. Clock!Order(x, offset)
    BY <1>1, <1>2, <1>7, <2>1, <2>3, IdleIs DEF Clock!Order, Stopping
  <2> QED
    BY <1>7, <2>4 DEF Clock!Next
<1> QED
  BY <1>6, <1>7

LEMMA StopClock ==
  ASSUME Inv, NEW x \in Timers, doStopTimer(x) \/ stopTimer(x)
  PROVE  Clock!Next \/ UNCHANGED ClockVars
<1>1. /\ \A tm \in Timers : tm # x => owner'[tm] = owner[tm]
      /\ owner'[x] # "idle"
      /\ taskQ' = taskQ \/ taskQ' = Append(taskQ, STOP(x))
      /\ UNCHANGED <<mExpiresAt, requestQ, timerQ, firing>>
  BY DEF doStopTimer, stopTimer, threads, tasks, STOP, Inv, GlobalInv, ShapeInv
<1>2. Alarms' = Alarms
  BY <1>1, AlarmsAre
<1>3. \A m : m # STOP(x) => (In(taskQ', m) <=> In(taskQ, m))
  <2>1. taskQ \in Seq(Messages) /\ STOP(x) \in Messages
    BY MessageKinds DEF Inv, GlobalInv, ShapeInv
  <2> QED
    BY <1>1, <2>1, AppendFacts DEF Appended
<1>4. Orders' = Orders
  <2>1. \A tm \in Known : Ordered(tm)' <=> Ordered(tm)
    BY <1>1, <1>3, OrderedIs, MessageFacts
  <2> QED
    BY <1>1, <2>1, OrdersKept
<1>5. CASE x \in Known
  <2>1. Stopping' = Stopping \cup {x}
    BY <1>1, <1>5, KnownFacts DEF Stopping
  <2>2. Clock!AskStop(x)
    BY <1>2, <1>4, <2>1 DEF Clock!AskStop
  <2> QED
    BY <1>5, <2>2 DEF Clock!Next
<1>6. CASE x \notin Known
  <2>1. Stopping' = Stopping
    BY <1>1, <1>6, KnownFacts DEF Stopping
  <2> QED
    BY <1>2, <1>4, <2>1 DEF ClockVars
<1> QED
  BY <1>5, <1>6

LEMMA HandleClock ==
  ASSUME Inv, handleMessage
  PROVE  UNCHANGED ClockVars
<1> DEFINE msg == Head(taskQ)
           x == msg.timer
<1>1. /\ taskQ # <<>> /\ taskQ' = Tail(taskQ)
      /\ UNCHANGED <<mExpiresAt, owner, timerQ, firing>>
  BY DEF handleMessage, owners
<1>2. taskQ \in Seq(Messages) /\ requestQ \in Seq(Requests)
  BY DEF Inv, GlobalInv, ShapeInv
<1>3. msg \in Messages /\ Taken(taskQ, msg, taskQ')
  BY <1>1, <1>2, TailFacts
<1>4. x \in Timers /\ (msg = START(x) \/ msg = STOP(x))
  BY <1>3, MessageKinds
<1>5. Alarms' = Alarms /\ Stopping' = Stopping
  BY <1>1, AlarmsAre DEF Stopping
<1>6. ASSUME NEW tm \in Known PROVE Ordered(tm)' <=> Ordered(tm)
  <2>0. Once(taskQ, START(tm))
    BY DEF Inv, ArmedOnce
  <2>1. CASE msg = START(x)
    <3>1. requestQ' = Append(requestQ, ADD(x))
      BY <2>1, MessageFacts DEF handleMessage, ADD
    <3> HIDE DEF msg, x
    <3>2. ADD(x) \in Requests
      BY <1>4, MessageKinds
    <3>3. Appended(requestQ, ADD(x), requestQ')
      BY <1>2, <3>1, <3>2, AppendFacts
    <3>4. \A m : In(requestQ', m) <=> In(requestQ, m) \/ m = ADD(x)
      BY <3>3 DEF Appended
    <3> QED
      BY <1>3, <2>0, <2>1, <3>4, OrderedIs, MessageFacts DEF Taken
  <2>2. CASE msg = STOP(x)
    <3>1. requestQ' = Append(requestQ, REMOVE(mTimerId[x]))
      BY <2>2, MessageFacts DEF handleMessage, REMOVE
    <3>2. mTimerId[x] \in Timers \cup {None}
      BY <1>4 DEF Inv, GlobalInv, ShapeInv
    <3> HIDE DEF msg, x
    <3>3. REMOVE(mTimerId[x]) \in Requests
      BY <3>2, MessageKinds
    <3>4. Appended(requestQ, REMOVE(mTimerId[x]), requestQ')
      BY <1>2, <3>1, <3>3, AppendFacts
    <3>5. \A m : In(requestQ', m) <=> In(requestQ, m) \/ m = REMOVE(mTimerId[x])
      BY <3>4 DEF Appended
    <3> QED
      BY <1>3, <2>2, <3>5, OrderedIs, MessageFacts DEF Taken
  <2> QED
    BY <1>4, <2>1, <2>2
<1> QED
  BY <1>1, <1>5, <1>6, OrdersKept DEF ClockVars

LEMMA DoneClock ==
  ASSUME Inv, RemovalDone
  PROVE  Clock!Next \/ UNCHANGED ClockVars
<1> DEFINE x == task.timer
<1>1. /\ x \in Timers /\ task.synch
      /\ owner' = [owner EXCEPT ![x] = "idle"]
      /\ UNCHANGED <<mExpiresAt, taskQ, requestQ, timerQ, firing>>
  BY DEF RemovalDone, threads, Inv, GlobalInv, ShapeInv
<1>2. Alarms' = Alarms
  BY <1>1, AlarmsAre
<1>3. Orders' = Orders
  BY <1>1, OrderedIs, OrdersKept
<1>4. owner'[x] = "idle" /\ \A tm \in Timers : tm # x => owner'[tm] = owner[tm]
  BY <1>1 DEF Inv, GlobalInv, ShapeInv
<1>5. CASE x \in Known
  <2>1. ~Armed(x) /\ owner[x] = "waiting"
    BY <1>1, <1>5 DEF Inv, StopInv
  <2> HIDE DEF x
  <2>2. x \in Stopping /\ Stopping' = Stopping \ {x}
    BY <1>4, <1>5, <2>1, KnownFacts DEF Stopping
  <2>3. Clock!Return(x)
    BY <1>2, <1>3, <1>5, <2>1, <2>2, IdleIs DEF Clock!Return
  <2> QED
    BY <1>5, <2>3 DEF Clock!Next
<1>6. CASE x \notin Known
  <2>1. Stopping' = Stopping
    BY <1>4, <1>6, KnownFacts DEF Stopping
  <2> QED
    BY <1>2, <1>3, <2>1 DEF ClockVars
<1> QED
  BY <1>5, <1>6

\* A timer with its first expiry is an alarm that is set for the time asked.
LEMMA FirstIsFirst ==
  ASSUME NEW offset \in Int
  PROVE  FirstExpiry(offset) \in Clock!First(offset)
<1>1. offset % Period \in 0..(Period - 1) /\ Period \in Nat \ {0}
  BY TimesAssumption
<1> QED
  BY <1>1 DEF FirstExpiry, Clock!First

\* An ADD sets the alarm that was ordered, or rings it at once.
LEMMA AddClock ==
  ASSUME Inv, TimeInv, doServiceRequests, NEW x \in Timers, Head(requestQ) = ADD(x)
  PROVE  Clock!Next \/ UNCHANGED ClockVars
<1> DEFINE first == FirstExpiry(mExpiresAt[x])
           node == Node(x, first)
<1>1. /\ requestQ # <<>> /\ requestQ' = Tail(requestQ)
      /\ doAddTimer(x)
      /\ UNCHANGED <<owner, taskQ, firing, lag>>
  BY MessageFacts DEF doServiceRequests
<1>2. requestQ \in Seq(Requests) /\ IsQueue(timerQ)
  BY DEF Inv, GlobalInv, ShapeInv
<1>3. Taken(requestQ, ADD(x), requestQ')
  BY <1>1, <1>2, TailFacts
<1>4. Stopping' = Stopping
  BY <1>1 DEF Stopping
<1>5. /\ mExpiresAt \in [Timers -> Int] /\ lag \in 0..MaxLag /\ MaxLag \in Nat
      /\ mExpiresAt[x] \in Int
  BY TimesAssumption DEF TimeInv
<1>6. \A tm \in Timers : tm # x => mExpiresAt'[tm] = mExpiresAt[tm]
  BY <1>1, <1>5 DEF doAddTimer
<1>7. ASSUME NEW tm \in Known PROVE Ordered(tm)' <=> Ordered(tm) /\ tm # x
  <2>1. /\ Once(requestQ, ADD(tm))
        /\ In(requestQ, ADD(tm)) => ~In(taskQ, START(tm))
    BY DEF Inv, ArmedOnce
  <2> QED
    BY <1>1, <1>3, <2>1, OrderedIs, MessageFacts DEF Taken
<1>8. CASE x \notin Known
  <2>1. Orders' = Orders
    BY <1>6, <1>7, <1>8, KnownFacts, OrdersKept
  <2>2. Alarms' = Alarms
    <3>1. CASE timerQ' = timerQ
      BY <1>1, <3>1, AlarmsAre
    <3>2. CASE timerQ' # timerQ
      <4>1. timerQ' = insertQ(timerQ, node)
        BY <1>1, <3>2 DEF doAddTimer
      <4>2. IsNode(node) /\ Mark(node).timer = x
        BY DEF Node, IsNode, Mark
      <4> HIDE DEF node
      <4>3. Marks(timerQ') = Marks(timerQ) \cup {Mark(node)}
        BY <1>2, <4>1, <4>2, InsertMarks
      <4> QED
        BY <1>1, <1>8, <4>2, <4>3, AlarmsAre DEF KnownMarks
    <3> QED
      BY <3>1, <3>2
  <2> QED
    BY <1>4, <2>1, <2>2 DEF ClockVars
<1>9. CASE x \in Known
  <2> DEFINE o == [timer |-> x, offset |-> mExpiresAt[x]]
  <2>1. Ordered(x)
    BY <1>3, OrderedIs DEF Taken
  <2>2. o \in Orders /\ Orders' = Orders \ {o}
    BY <1>6, <1>7, <1>9, <2>1, KnownFacts, OrderTaken
  <2>3. CASE x \notin Periodic /\ mExpiresAt[x] <= 0
    <3>1. timerQ' = timerQ
      BY <1>1, <2>3 DEF doAddTimer
    <3>2. Alarms' = Alarms
      BY <1>1, <3>1, AlarmsAre
    <3>3. Clock!RingAtOnce(o)
      BY <1>4, <2>2, <2>3, <3>2 DEF Clock!RingAtOnce
    <3> QED
      BY <2>2, <3>3 DEF Clock!Next
  <2>4. CASE ~(x \notin Periodic /\ mExpiresAt[x] <= 0)
    <3>1. timerQ' = insertQ(timerQ, node)
      BY <1>1, <2>4 DEF doAddTimer
    <3>2. IsNode(node) /\ Mark(node) = [timer |-> x, left |-> first - lag]
      BY DEF Node, IsNode, Mark
    <3> HIDE DEF node
    <3>3. Marks(timerQ') = Marks(timerQ) \cup {Mark(node)}
      BY <1>2, <3>1, <3>2, InsertMarks
    <3>4. Alarms' = Alarms \cup {[timer |-> x, left |-> first - lag]}
      BY <1>1, <1>9, <3>2, <3>3, AlarmsAre DEF KnownMarks
    <3>5. first \in Clock!First(mExpiresAt[x])
      BY <1>5, FirstIsFirst
    <3> HIDE DEF first
    <3>6. Clock!Arm(o)
      BY <1>4, <1>5, <2>2, <3>4, <3>5 DEF Clock!Arm
    <3> QED
      BY <2>2, <3>6 DEF Clock!Next
  <2> QED
    BY <2>3, <2>4
<1> QED
  BY <1>8, <1>9

\* A REMOVE takes away the alarm of a timer that is being stopped.
LEMMA RemoveClock ==
  ASSUME Inv, doServiceRequests, NEW x \in Timers \cup {None}, Head(requestQ) = REMOVE(x)
  PROVE  Clock!Next \/ UNCHANGED ClockVars
<1>1. /\ requestQ # <<>> /\ requestQ' = Tail(requestQ)
      /\ timerQ' = RemoveNode(timerQ, x)
      /\ UNCHANGED <<owner, taskQ, firing, mExpiresAt>>
      /\ thread \in {"wait", "serve"}
  BY MessageFacts DEF doServiceRequests
<1>2. requestQ \in Seq(Requests) /\ IsQueue(timerQ)
  BY DEF Inv, GlobalInv, ShapeInv
<1>3. Taken(requestQ, REMOVE(x), requestQ')
  BY <1>1, <1>2, TailFacts
<1>4. Stopping' = Stopping
  BY <1>1 DEF Stopping
<1>5. Orders' = Orders
  <2>1. \A tm \in Known : Ordered(tm)' <=> Ordered(tm)
    BY <1>1, <1>3, OrderedIs, MessageFacts DEF Taken
  <2> QED
    BY <1>1, <2>1, OrdersKept
<1>6. /\ Others(timerQ', x) = Others(timerQ, x)
      /\ Removed(timerQ, x, timerQ')
  BY <1>1, <1>2, RemoveMarks, RemoveTimers
<1>7. firing.timer = None /\ Mark(firing).timer = None
  BY <1>1 DEF Inv, GlobalInv, DummyInv, Mark
<1>8. CASE x \notin Known
  <2>1. Alarms' = Alarms
    BY <1>1, <1>6, <1>8, AlarmsAre DEF KnownMarks, Others
  <2> QED
    BY <1>4, <1>5, <2>1 DEF ClockVars
<1>9. CASE x \in Known
  <2>1. x # None /\ x \in Timers
    BY <1>9, KnownFacts
  <2>2. In(requestQ, REMOVE(x))
    BY <1>3 DEF Taken
  <2>3. task.timer = x
    BY <2>1, <2>2 DEF Inv, GlobalInv, RequestInv
  <2>4. x \in Stopping
    BY <1>9, <2>3 DEF Inv, StopInv, Stopping
  <2>5. Places(timerQ', x) = {}
    BY <1>6, <1>9, <2>1 DEF Inv, ArmedOnce, Removed
  <2>6. \A m \in Marks(timerQ') : m.timer # x
    BY <2>5 DEF Marks, Mark, Places
  <2>7. Marks(timerQ') = Others(timerQ, x)
    BY <1>6, <2>6 DEF Others
  <2>8. Alarms' = Alarms \ Clock!Of(x)
    BY <1>1, <1>7, <2>1, <2>7, AlarmsAre DEF KnownMarks, Others, Clock!Of
  <2>9. Clock!Disarm(x)
    BY <1>4, <1>5, <2>4, <2>8 DEF Clock!Disarm
  <2> QED
    BY <1>9, <2>9 DEF Clock!Next
<1> QED
  BY <1>8, <1>9

LEMMA SettleClock ==
  ASSUME Inv, TimeInv, Settle
  PROVE  UNCHANGED ClockVars
<1> DEFINE first == Head(timerQ)
<1>1. /\ thread \in {"wait", "serve"} /\ UpdateReference
      /\ UNCHANGED <<mExpiresAt, owner, taskQ, requestQ>>
  BY DEF Settle, owners, tasks
<1>2. timerQ # <<>> /\ timerQ \in Queues
  BY <1>1 DEF Inv, GlobalInv, DummyInv, Places, TimeInv
<1>3. firing.timer = None
  BY <1>1 DEF Inv, GlobalInv, DummyInv
<1>4. Orders' = Orders /\ Stopping' = Stopping
  BY <1>1, OrderedIs, OrdersKept DEF Stopping
<1>5. Alarms' = Alarms
  <2>1. CASE first.expiry > lag
    <3>1. timerQ' = [timerQ EXCEPT ![1].expiry = @ - lag] /\ firing' = firing
      BY <1>1, <2>1 DEF UpdateReference
    <3>2. Marks(timerQ') = Marks(timerQ)
      BY <1>2, <3>1, ChargeMarks
    <3> QED
      BY <3>1, <3>2, AlarmsAre DEF KnownMarks
  <2>2. CASE ~(first.expiry > lag)
    <3>1. timerQ' = Tail(timerQ) /\ firing' = first
      BY <1>1, <2>2 DEF UpdateReference
    <3>2. Marks(timerQ) = Marks(timerQ') \cup {Mark(firing')}
      BY <1>2, <3>1, TailMarks
    <3>3. Mark(firing).timer \notin Known
      BY <1>3, KnownFacts DEF Mark
    <3> QED
      BY <3>2, <3>3, AlarmsAre DEF KnownMarks
  <2> QED
    BY <2>1, <2>2
<1> QED
  BY <1>4, <1>5 DEF ClockVars

LEMMA FireClock ==
  ASSUME Inv, TimeInv, Fire
  PROVE  Clock!Next \/ UNCHANGED ClockVars
<1> DEFINE x == firing.timer
           period == IF x = None THEN Heartbeat ELSE Period
           left == firing.left + period
           node == [firing EXCEPT !.expiry = period, !.left = left]
<1>1. /\ thread = "fire" /\ firing' = NoNode
      /\ UNCHANGED <<mExpiresAt, owner, taskQ, requestQ>>
  BY DEF Fire, owners, tasks
<1>2. Orders' = Orders /\ Stopping' = Stopping
  BY <1>1, OrderedIs, OrdersKept DEF Stopping
<1>3. /\ IsQueue(timerQ) /\ firing \in TimedNode /\ firing.left = -lag
      /\ firing.left \in Int /\ lag \in 0..MaxLag /\ MaxLag \in Nat
  <2>1. firing \in TimedNode /\ firing.left = -lag /\ lag \in 0..MaxLag
    BY <1>1 DEF TimeInv
  <2> QED
    BY <2>1, TimesAssumption DEF Inv, GlobalInv, ShapeInv
<1>4. Mark(NoNode).timer \notin Known
  BY KnownFacts DEF Mark, NoNode
<1>5. IF x \in Periodic \cup {None}
        THEN Marks(timerQ') = Marks(timerQ) \cup {[timer |-> x, left |-> left]}
        ELSE timerQ' = timerQ
  <2>1. CASE x \in Periodic \cup {None}
    <3>1. timerQ' = insertQ(timerQ, node)
      BY <1>1, <2>1 DEF Fire
    <3>2. period \in Nat /\ left \in Int
      <4>1. period \in Nat
        BY TimesAssumption
      <4> HIDE DEF period
      <4> QED
        BY <1>3, <4>1
    <3> HIDE DEF left, period
    <3>3. node \in TimedNode /\ node.timer = x /\ node.left = left
      BY <1>3, <3>2 DEF TimedNode
    <3> HIDE DEF node
    <3>4. IsNode(node) /\ Mark(node) = [timer |-> x, left |-> left]
      BY <3>3 DEF Mark, IsNode, TimedNode
    <3>5. Marks(timerQ') = Marks(timerQ) \cup {Mark(node)}
      BY <1>3, <3>1, <3>4, InsertMarks
    <3> QED
      BY <2>1, <3>4, <3>5
  <2>2. CASE x \notin Periodic \cup {None}
    BY <1>1, <2>2 DEF Fire
  <2> QED
    BY <2>1, <2>2
<1>6. CASE x \notin Known
  <2>1. Mark(firing).timer \notin Known
    BY <1>6 DEF Mark
  <2>2. Alarms' = Alarms
    BY <1>1, <1>4, <1>5, <1>6, <2>1, AlarmsAre DEF KnownMarks
  <2> QED
    BY <1>2, <2>2 DEF ClockVars
<1>7. CASE x \in Known
  <2> DEFINE a == Mark(firing)
  <2>1. a \in Alarms /\ a.timer = x /\ a.left = firing.left
    BY <1>7, AlarmsAre DEF KnownMarks, Mark
  <2>2. Places(timerQ, x) = {}
    BY <1>7 DEF Inv, ArmedOnce
  <2>3. a \notin Marks(timerQ)
    BY <2>1, <2>2 DEF Marks, Mark, Places
  <2>4. KnownMarks(timerQ, NoNode) = Alarms \ {a}
    BY <1>4, <2>3, AlarmsAre DEF KnownMarks
  <2>5. \A b \in Alarms : a.left <= b.left
    <3>1. \A i \in DOMAIN timerQ : firing.left <= timerQ[i].left
      BY <1>1, InvFirst DEF NextIsFirst
    <3>2. \A m \in Marks(timerQ) : firing.left <= m.left
      BY <3>1 DEF Marks, Mark
    <3> QED
      BY <1>3, <2>1, <3>2, AlarmsAre DEF KnownMarks
  <2>6. Alarms' = (Alarms \ {a}) \cup
                    {[timer |-> tm, left |-> a.left + Period] : tm \in (Periodic \cap Known) \cap {a.timer}}
    <3>1. CASE x \in Periodic
      <4>1. left = a.left + Period
        BY <1>7, <2>1, KnownFacts
      <4> HIDE DEF a, left, x
      <4>2. Alarms' = KnownMarks(timerQ, NoNode) \cup {[timer |-> x, left |-> left]}
        BY <1>1, <1>5, <1>7, <3>1, AlarmsAre DEF KnownMarks
      <4> QED
        BY <1>7, <2>1, <2>4, <3>1, <4>1, <4>2
    <3>2. CASE x \notin Periodic
      <4>1. Alarms' = KnownMarks(timerQ, NoNode)
        BY <1>1, <1>5, <1>7, <3>2, KnownFacts, AlarmsAre
      <4> QED
        BY <2>1, <2>4, <3>2, <4>1
    <3> QED
      BY <3>1, <3>2
  <2>7. a.left \in (-MaxLag)..0
    BY <1>3, <2>1
  <2> HIDE DEF a
  <2>8. Clock!Ring(a)
    BY <1>2, <2>5, <2>6, <2>7 DEF Clock!Ring
  <2> QED
    BY <2>1, <2>8 DEF Clock!Next
<1> QED
  BY <1>6, <1>7

LEMMA TickClock ==
  ASSUME Inv, TimeInv, Tick
  PROVE  Clock!Next
<1>1. /\ timerQ' = [i \in DOMAIN timerQ |-> [timerQ[i] EXCEPT !.left = @ - 1]]
      /\ firing' = IF thread = "fire" THEN [firing EXCEPT !.left = @ - 1] ELSE firing
      /\ UNCHANGED <<mExpiresAt, owner, taskQ, requestQ>>
  BY DEF Tick, owners, tasks
<1>2. Orders' = Orders /\ Stopping' = Stopping
  BY <1>1, OrderedIs, OrdersKept DEF Stopping
<1> DEFINE sooner(m) == [timer |-> m.timer, left |-> m.left - 1]
<1>3. Marks(timerQ') = {sooner(m) : m \in Marks(timerQ)}
  BY <1>1, TickMarks DEF TimeInv
<1>4. Mark(firing').timer = Mark(firing).timer /\
      (firing.timer \in Known => Mark(firing') = sooner(Mark(firing)))
  <2>1. firing \in TimedNode
    BY DEF TimeInv
  <2>2. CASE thread = "fire"
    <3> DEFINE t == firing.left - 1
    <3>1. firing' = [firing EXCEPT !.left = t]
      BY <1>1, <2>2
    <3> HIDE DEF t
    <3>2. Mark(firing') = [timer |-> firing.timer, left |-> t]
      BY <2>1, <3>1 DEF Mark, TimedNode
    <3> QED
      BY <3>2 DEF Mark, t
  <2>3. CASE thread # "fire"
    <3>1. firing.timer = None /\ firing' = firing
      BY <1>1, <2>3 DEF Inv, GlobalInv, DummyInv
    <3> QED
      BY <3>1, KnownFacts
  <2> QED
    BY <2>2, <2>3
<1>5. Alarms' = {sooner(a) : a \in Alarms}
  <2>1. \A m : sooner(m).timer = m.timer
    OBVIOUS
  <2>2. Mark(firing).timer = firing.timer
    BY DEF Mark
  <2> HIDE DEF sooner
  <2> QED
    BY <1>3, <1>4, <2>1, <2>2, AlarmsAre DEF KnownMarks
<1>6. Clock!Tick
  BY <1>2, <1>5 DEF Clock!Tick
<1> QED
  BY <1>6 DEF Clock!Next

LEMMA InitClock == Init => Clock!Init
<1> SUFFICES ASSUME Init PROVE Clock!Init
  OBVIOUS
<1>1. Orders = {} /\ Stopping = {}
  BY OrderedIs, KnownFacts DEF Init, Orders, Ordered, Stopping
<1>2. \A i \in DOMAIN timerQ : timerQ[i].timer = None
  BY DEF Init
<1>3. firing.timer = None
  BY DEF Init, NoNode
<1>4. Alarms = {}
  BY <1>2, <1>3, KnownFacts, AlarmsAre DEF KnownMarks, Marks, Mark
<1> QED
  BY <1>1, <1>4 DEF Clock!Init

LEMMA ClockStep == Inv /\ TimeInv /\ [Next]_vars => [Clock!Next]_(Clock!vars)
<1> SUFFICES ASSUME Inv, TimeInv, [Next]_vars
             PROVE  Clock!Next \/ UNCHANGED ClockVars
  BY DEF ClockVars, Clock!vars
<1>1. CASE \E tm \in Timers : \E offset \in Offsets : doStartTimer(tm, offset)
  BY <1>1, StartClock
<1>2. CASE \E tm \in Timers : doStopTimer(tm) \/ stopTimer(tm)
  BY <1>2, StopClock
<1>3. CASE handleMessage
  BY <1>3, HandleClock
<1>4. CASE RemovalDone
  BY <1>4, DoneClock
<1>5. CASE doServiceRequests
  <2> DEFINE msg == Head(requestQ)
  <2>1. requestQ \in Seq(Requests) /\ requestQ # <<>>
    BY <1>5 DEF doServiceRequests, Inv, GlobalInv, ShapeInv
  <2>2. msg \in Requests /\ In(requestQ, msg)
    <3>1. msg \in Requests /\ Taken(requestQ, msg, Tail(requestQ))
      BY <2>1, TailFacts
    <3> QED
      BY <3>1 DEF Taken
  <2> HIDE DEF msg
  <2>3. PICK x \in Timers \cup {None} : msg = ADD(x) \/ msg = REMOVE(x)
    BY <2>2, MessageKinds
  <2>4. msg = ADD(x) => x \in Timers
    BY <2>2, <2>3 DEF TimeInv
  <2> QED
    BY <1>5, <2>3, <2>4, AddClock, RemoveClock DEF msg
<1>6. CASE Settle
  BY <1>6, SettleClock
<1>7. CASE Fire
  BY <1>7, FireClock
<1>8. CASE Tick
  BY <1>8, TickClock
<1>9. CASE UNCHANGED vars
  <2>1. UNCHANGED <<mExpiresAt, owner, taskQ, requestQ, timerQ, firing>>
    BY <1>9 DEF vars, owners, tasks, threads
  <2> QED
    BY <2>1, OrderedIs, OrdersKept, AlarmsAre DEF ClockVars, Stopping
<1> QED
  BY <1>1, <1>2, <1>3, <1>4, <1>5, <1>6, <1>7, <1>8, <1>9 DEF Next

\* The calls of the owners, the task that forwards them and the thread with its
\* differential queue implement the alarm clock, for any number of timers, any
\* offsets, periods and lag: no alarm is lost, moved by another, rung out of
\* order or early by more than the lag, a periodic one does not drift, and a stop
\* returns when its timer is neither ordered nor set (OsTimer::stop,
\* OsSysSoftTimer::run).
THEOREM ImplementsAlarmClock == Spec => ClockSpec
<1> QED
  BY BothInvariants, InitClock, ClockStep, PTL DEF Spec, ClockSpec, Clock!Spec
=============================================================================
