----------------------- MODULE SipRefreshManagerProofs -----------------------
(* Theorems about SipRefreshManager, for any number of states, any expiration *)
(* that is asked for and granted, and any length of the queue.                *)
EXTENDS SipRefreshManager, SequenceTheorems, TLAPS

\* The task sends one request at a time.
OneUnsent ==
  \A s \in States : \A i, j \in DOMAIN flights[s] :
    ~flights[s][i].sent /\ ~flights[s][j].sent => i = j

\* The last request of a dialog is behind all the others.
LastIsLast == \A s \in States : \A i \in DOMAIN flights[s] : flights[s][i].last => i = Len(flights[s])

\* Before the initial request there is none of the dialog.
InitialIsFirst ==
  \A s \in States :
    initiating[s] = "send" => mRequestState[s] = "PENDING" /\ flights[s] = <<>>

LastAnswer(m) == m.kind \in {"success", "failure"} /\ m.last

\* No request is behind the one that is answered, so the server still stands by
\* what it answered, counted from when that request was sent.
Holds(m) ==
  /\ m.state \in mRefreshes /\ flights[m.state] = <<>> /\ initiating[m.state] # "send"
  /\ m.kind = "success" /\ m.granted # None => m.granted - age[m.state] <= binding[m.state]
AnswersHold == \A i \in DOMAIN queue : LastAnswer(queue[i]) => Holds(queue[i])

SafeInv == LastIsLast /\ InitialIsFirst /\ AnswersHold
TypeInv == TypeOK /\ OneUnsent
Inv == TypeInv /\ RefreshGoesOn /\ SafeInv

-----------------------------------------------------------------------------
(* The operators                                                              *)

\* Every timer that is set runs for at least one tick.
LEMMA ResendTimes ==
  ASSUME TypeOK, NEW s \in States
  PROVE  /\ calculateResendTime(TRUE) \in Nat \ {0} /\ calculateResendTime(FALSE) \in Nat \ {0}
         /\ ResendTime(s, TRUE) \in Nat \ {0} /\ ResendTime(s, FALSE) \in Nat \ {0}
<1>1. \A n \in Nat : MaxOf(MinRefresh, n \div 100) \in Nat \ {0}
  BY TimesAssumption DEF MaxOf
<1>a. 55 * Requested \in Nat /\ 10 * Requested \in Nat
  BY GrantedAssumption
<1>2. calculateResendTime(TRUE) \in Nat \ {0}
  <2>1. calculateResendTime(TRUE) = MaxOf(MinRefresh, (55 * Requested) \div 100)
    BY DEF calculateResendTime
  <2> QED
    BY <1>1, <1>a, <2>1
<1>3. calculateResendTime(FALSE) \in Nat \ {0}
  <2>1. calculateResendTime(FALSE) = MaxOf(MinRefresh, (10 * Requested) \div 100)
    BY DEF calculateResendTime
  <2> QED
    BY <1>1, <1>a, <2>1
<1>4. ResendTime(s, TRUE) = calculateResendTime(TRUE)
  BY DEF ResendTime
<1>5. ResendTime(s, FALSE) = IF age[s] > LongAgo
                               THEN MaxOf(MinError, calculateResendTime(FALSE) - age[s])
                               ELSE calculateResendTime(FALSE)
  BY DEF ResendTime
<1>6. \A n \in Int : MaxOf(MinError, n) \in Nat \ {0}
  BY TimesAssumption DEF MaxOf
<1>7. age[s] \in Int
  BY DEF TypeOK
<1> DEFINE ticks == calculateResendTime(FALSE)
<1>8. MaxOf(MinError, ticks - age[s]) \in Nat \ {0}
  <2>0. ticks \in Nat \ {0}
    BY <1>3
  <2> HIDE DEF ticks
  <2>1. ticks \in Int
    BY <2>0
  <2>2. ticks - age[s] \in Int
    BY <1>7, <2>1
  <2> QED
    BY <1>6, <2>2
<1> QED
  BY <1>2, <1>3, <1>4, <1>5, <1>8

LEMMA AppendsMessage ==
  ASSUME NEW m \in Message, NEW q \in Seq(Message)
  PROVE  Append(q, m) \in Seq(Message)
<1> QED
  BY AppendProperties

\* The requests behind the k-th one.
LEMMA RestAfter ==
  ASSUME NEW q \in Seq(Request), NEW k \in 1..Len(q)
  PROVE  /\ SubSeq(q, k + 1, Len(q)) \in Seq(Request)
         /\ Len(SubSeq(q, k + 1, Len(q))) = Len(q) - k
         /\ \A i \in 1..(Len(q) - k) : SubSeq(q, k + 1, Len(q))[i] = q[k + i]
<1> DEFINE rest == SubSeq(q, k + 1, Len(q))
<1>1. Len(q) \in Nat /\ \A i \in 1..Len(q) : q[i] \in Request
  OBVIOUS
<1>2. \A i \in (k + 1)..Len(q) : q[i] \in Request
  BY <1>1
<1>3. /\ rest \in Seq(Request)
      /\ Len(rest) = IF k + 1 <= Len(q) THEN Len(q) - (k + 1) + 1 ELSE 0
      /\ \A i \in 1..(Len(q) - (k + 1) + 1) : rest[i] = q[(k + 1) + i - 1]
  BY <1>1, <1>2, SubSeqProperties
<1> HIDE DEF rest
<1>4. /\ rest \in Seq(Request) /\ Len(rest) = Len(q) - k
      /\ \A i \in 1..(Len(q) - k) : rest[i] = q[k + i]
  BY <1>1, <1>3
<1> QED
  BY <1>4 DEF rest

\* The queue without one element.
LEMMA WithoutOne ==
  ASSUME NEW q \in Seq(Request), NEW k \in 1..Len(q)
  PROVE  LET r == SubSeq(q, 1, k - 1) \o SubSeq(q, k + 1, Len(q)) IN
           /\ r \in Seq(Request)
           /\ \A i \in DOMAIN r :
                \E j \in DOMAIN q : j # k /\ r[i] = q[j] /\ (j = Len(q) => i = Len(r))
<1> DEFINE before == SubSeq(q, 1, k - 1)
           after == SubSeq(q, k + 1, Len(q))
<1>1. Len(q) \in Nat /\ \A i \in 1..Len(q) : q[i] \in Request
  OBVIOUS
<1>2. /\ before \in Seq(Request) /\ Len(before) = k - 1
      /\ \A i \in 1..(k - 1) : before[i] = q[i]
  <2>1. \A i \in 1..(k - 1) : q[i] \in Request
    BY <1>1
  <2>2. /\ before \in Seq(Request) /\ Len(before) = IF 1 <= k - 1 THEN k - 1 - 1 + 1 ELSE 0
        /\ \A i \in 1..(k - 1 - 1 + 1) : before[i] = q[1 + i - 1]
    BY <1>1, <2>1, SubSeqProperties
  <2> HIDE DEF before
  <2> QED
    BY <1>1, <2>2
<1>3. /\ after \in Seq(Request) /\ Len(after) = Len(q) - k
      /\ \A i \in 1..(Len(q) - k) : after[i] = q[k + i]
  BY RestAfter
<1> HIDE DEF before, after
<1> DEFINE r == before \o after
<1>4. /\ r \in Seq(Request) /\ Len(r) = Len(before) + Len(after)
      /\ \A i \in 1..(Len(before) + Len(after)) :
           r[i] = IF i <= Len(before) THEN before[i] ELSE after[i - Len(before)]
  BY <1>2, <1>3, ConcatProperties
<1> HIDE DEF r
<1>5. \A i \in DOMAIN r : \E j \in DOMAIN q : j # k /\ r[i] = q[j] /\ (j = Len(q) => i = Len(r))
  <2> SUFFICES ASSUME NEW i \in DOMAIN r
               PROVE  \E j \in DOMAIN q : j # k /\ r[i] = q[j] /\ (j = Len(q) => i = Len(r))
    OBVIOUS
  <2>0. Len(r) = Len(q) - 1
    BY <1>1, <1>2, <1>3, <1>4
  <2>1. i \in 1..((k - 1) + (Len(q) - k))
    BY <1>1, <1>2, <1>3, <1>4
  <2>2. CASE i <= k - 1
    <3>1. r[i] = q[i] /\ i # k /\ i \in DOMAIN q
      BY SMTT(60), <1>1, <1>2, <1>3, <1>4, <2>1, <2>2
    <3>2. i # Len(q)
      BY <1>1, <2>2
    <3> QED
      BY <3>1, <3>2
  <2>3. CASE i > k - 1
    <3>1. i - (k - 1) \in 1..(Len(q) - k) /\ k + (i - (k - 1)) = i + 1 /\ i + 1 \in (k + 1)..Len(q)
      BY <1>1, <2>1, <2>3
    <3>2. r[i] = after[i - (k - 1)]
      BY <1>1, <1>2, <1>3, <1>4, <2>1, <2>3, SMTT(60)
    <3>3. r[i] = q[i + 1]
      BY <1>3, <3>1, <3>2
    <3>4. i + 1 # k /\ i + 1 \in DOMAIN q
      BY <1>1, <2>3, <3>1
    <3>5. i + 1 = Len(q) => i = Len(r)
      BY <1>1, <2>0, <2>1
    <3> QED
      BY <3>3, <3>4, <3>5
  <2> QED
    BY <1>1, <2>1, <2>2, <2>3
<1> QED
  BY <1>4, <1>5 DEF r, before, after

\* A request overtakes the responses to the ones before it.
LEMMA OvertakenFacts ==
  ASSUME NEW q \in Seq(Message), NEW s
  PROVE  /\ Overtaken(q, s) \in Seq(Message)
         /\ DOMAIN Overtaken(q, s) = DOMAIN q
         /\ \A i \in DOMAIN q :
              /\ Overtaken(q, s)[i].kind = q[i].kind
              /\ Overtaken(q, s)[i].state = q[i].state
              /\ Overtaken(q, s)[i].last => q[i].state # s /\ Overtaken(q, s)[i] = q[i]
<1> DEFINE r == Overtaken(q, s)
<1>1. DOMAIN q = 1..Len(q) /\ Len(q) \in Nat /\ \A i \in 1..Len(q) : q[i] \in Message
  OBVIOUS
<1>2. r = [i \in 1..Len(q) |-> IF q[i].state = s THEN [q[i] EXCEPT !.last = FALSE] ELSE q[i]]
  BY <1>1 DEF Overtaken
<1>3. \A i \in 1..Len(q) :
        /\ r[i] \in Message
        /\ r[i].kind = q[i].kind /\ r[i].state = q[i].state
        /\ r[i].last => q[i].state # s /\ r[i] = q[i]
  <2> SUFFICES ASSUME NEW i \in 1..Len(q)
               PROVE  /\ r[i] \in Message
                      /\ r[i].kind = q[i].kind /\ r[i].state = q[i].state
                      /\ r[i].last => q[i].state # s /\ r[i] = q[i]
    OBVIOUS
  <2>1. q[i] \in Message
    BY <1>1
  <2>2. r[i] = IF q[i].state = s THEN [q[i] EXCEPT !.last = FALSE] ELSE q[i]
    BY <1>2
  <2> HIDE DEF r
  <2> QED
    BY <2>1, <2>2 DEF Message
<1>4. r \in Seq(Message)
  BY <1>1, <1>2, <1>3
<1>5. DOMAIN r = DOMAIN q
  BY <1>1, <1>2
<1> QED
  BY <1>1, <1>3, <1>4, <1>5

\* A request that is sent on a dialog is the last one there.
LEMMA SetForResendFacts ==
  ASSUME TypeOK, NEW s \in States, NEW expireNow \in BOOLEAN, NEW sent \in BOOLEAN,
         setForResend(s, expireNow, sent)
  PROVE  /\ flights' \in [States -> Seq(Request)]
         /\ \A u \in States \ {s} : flights'[u] = flights[u]
         /\ Len(flights'[s]) = Len(flights[s]) + 1
         /\ flights'[s][Len(flights[s]) + 1] =
              [expireNow |-> expireNow, sent |-> sent, last |-> TRUE]
         /\ \A i \in DOMAIN flights[s] :
              /\ ~flights'[s][i].last
              /\ flights'[s][i].sent = flights[s][i].sent
<1> DEFINE q == flights[s]
           r == [i \in DOMAIN q |-> [q[i] EXCEPT !.last = FALSE]]
           request == [expireNow |-> expireNow, sent |-> sent, last |-> TRUE]
<1>1. flights \in [States -> Seq(Request)] /\ q \in Seq(Request)
  BY DEF TypeOK
<1>2. DOMAIN q = 1..Len(q) /\ Len(q) \in Nat /\ \A i \in 1..Len(q) : q[i] \in Request
  BY <1>1
<1>3. \A i \in 1..Len(q) :
        r[i] \in Request /\ ~r[i].last /\ r[i].sent = q[i].sent
  BY <1>2 DEF Request
<1>4. r \in Seq(Request) /\ Len(r) = Len(q)
  <2>1. r = [i \in 1..Len(q) |-> r[i]]
    BY <1>2
  <2> HIDE DEF q, r
  <2>2. \A i \in 1..Len(q) : r[i] \in Request
    BY <1>3
  <2> QED
    BY <1>2, <2>1, <2>2
<1>5. flights' = [flights EXCEPT ![s] = Append(r, request)]
  BY <1>1 DEF setForResend
<1>6. request \in Request
  BY DEF Request
<1> HIDE DEF q, r, request
<1>7. /\ Append(r, request) \in Seq(Request)
      /\ Len(Append(r, request)) = Len(q) + 1
      /\ Append(r, request)[Len(q) + 1] = request
      /\ \A i \in 1..Len(q) : Append(r, request)[i] = r[i]
  BY <1>2, <1>4, <1>6
<1>8. /\ flights' \in [States -> Seq(Request)]
      /\ \A u \in States \ {s} : flights'[u] = flights[u]
      /\ flights'[s] = Append(r, request)
  BY <1>1, <1>5, <1>7
<1> QED
  BY <1>2, <1>3, <1>7, <1>8 DEF q, request

-----------------------------------------------------------------------------
(* The type invariant                                                         *)

LEMMA InitInv == Init => Inv
<1> SUFFICES ASSUME Init PROVE Inv
  OBVIOUS
<1>1. TypeOK
  BY GrantedAssumption DEF Init, TypeOK
<1>2. OneUnsent /\ RefreshGoesOn /\ SafeInv
  BY DEF Init, OneUnsent, RefreshGoesOn, SafeInv, LastIsLast, InitialIsFirst, AnswersHold
<1> QED
  BY <1>1, <1>2 DEF Inv, TypeInv

\* What the head of a queue is, and what taking it leaves.
LEMMA ReceivesFacts ==
  ASSUME TypeOK, NEW kinds, Receives(kinds)
  PROVE  /\ Head(queue) \in Message /\ Head(queue) = queue[1] /\ Head(queue).kind \in kinds
         /\ sending = None /\ Tail(queue) \in Seq(Message)
         /\ 1 \in DOMAIN queue
         /\ \A i \in DOMAIN Tail(queue) : i + 1 \in DOMAIN queue /\ Tail(queue)[i] = queue[i + 1]
         /\ \A i \in DOMAIN queue : i = 1 \/ (i - 1 \in DOMAIN Tail(queue)
                                          /\ Tail(queue)[i - 1] = queue[i])
<1>1. queue \in Seq(Message) /\ queue # <<>>
  BY DEF TypeOK, Receives
<1> QED
  BY <1>1 DEF Receives

\* A request that is sent at once leaves the type invariant as it is.
LEMMA SendsNow ==
  ASSUME TypeInv, NEW s \in States, NEW expireNow \in BOOLEAN,
         setForResend(s, expireNow, TRUE)
  PROVE  /\ flights' \in [States -> Seq(Request)]
         /\ OneUnsent'
         /\ \A u \in States : (\E i \in DOMAIN flights'[u] : ~flights'[u][i].sent) => sending = u
<1> USE DEF TypeInv
<1>1. /\ flights' \in [States -> Seq(Request)]
      /\ \A u \in States \ {s} : flights'[u] = flights[u]
      /\ Len(flights'[s]) = Len(flights[s]) + 1
      /\ flights'[s][Len(flights[s]) + 1].sent
      /\ \A i \in DOMAIN flights[s] : flights'[s][i].sent = flights[s][i].sent
  <2>1. TypeOK /\ TRUE \in BOOLEAN
    OBVIOUS
  <2>2. /\ flights' \in [States -> Seq(Request)]
        /\ \A u \in States \ {s} : flights'[u] = flights[u]
        /\ Len(flights'[s]) = Len(flights[s]) + 1
        /\ flights'[s][Len(flights[s]) + 1] =
             [expireNow |-> expireNow, sent |-> TRUE, last |-> TRUE]
        /\ \A i \in DOMAIN flights[s] : flights'[s][i].sent = flights[s][i].sent
    BY <2>1, SetForResendFacts
  <2> QED
    BY <2>2
<1>2. /\ flights[s] \in Seq(Request) /\ flights'[s] \in Seq(Request)
  BY <1>1 DEF TypeOK
<1>3. \A i \in DOMAIN flights'[s] :
        ~flights'[s][i].sent => i \in DOMAIN flights[s] /\ ~flights[s][i].sent
  BY <1>1, <1>2
<1>4. OneUnsent'
  BY <1>1, <1>3 DEF OneUnsent
<1> QED
  BY <1>1, <1>3, <1>4 DEF TypeOK

\* What a server does, and what the client gets of it.
LEMMA ServeFacts ==
  ASSUME TypeOK, NEW s \in States, Serve(s)
  PROVE  \E i \in 1..Len(flights[s]), ticks \in 0..Longest, m \in Message :
           /\ flights' = [flights EXCEPT ![s] = SubSeq(flights[s], i + 1, Len(flights[s]))]
           /\ binding' = [binding EXCEPT ![s] = ticks]
           /\ \/ queue' = queue
              \/ flights[s][i].last /\ s \in mRefreshes /\ queue' = Append(queue, m)
           /\ m.state = s /\ m.kind \in {"success", "failure"}
           /\ m.kind = "success" /\ m.granted # None => m.granted = ticks
<1>1. flights[s] \in Seq(Request) /\ binding[s] \in 0..Longest
  BY DEF TypeOK
<1>2. PICK i \in DOMAIN flights[s], granted \in Granted, taken \in BOOLEAN,
           kind \in {"success", "failure"} :
        LET request == flights[s][i]
            given == IF request.expireNow THEN 0 ELSE granted IN
        /\ request.sent /\ (kind = "success" => taken)
        /\ binding' = [binding EXCEPT ![s] = IF taken THEN given ELSE @]
        /\ flights' = [flights EXCEPT ![s] = SubSeq(@, i + 1, Len(@))]
        /\ IF request.last /\ s \in mRefreshes
             THEN \E said \in IF kind = "success" THEN {given, None} ELSE {0} :
                    queue' = Append(queue, Answer(kind, s, said))
             ELSE UNCHANGED queue
  BY Zenon DEF Serve
<1> DEFINE given == IF flights[s][i].expireNow THEN 0 ELSE granted
           ticks == IF taken THEN given ELSE binding[s]
<1>3. given \in 0..Longest /\ ticks \in 0..Longest /\ 0 \in 0..Longest /\ i \in 1..Len(flights[s])
  BY <1>1, GrantedAssumption
<1>4. \E m \in Message :
        /\ \/ queue' = queue
           \/ flights[s][i].last /\ s \in mRefreshes /\ queue' = Append(queue, m)
        /\ m.state = s /\ m.kind \in {"success", "failure"}
        /\ m.kind = "success" /\ m.granted # None => m.granted = ticks
  <2>1. CASE flights[s][i].last /\ s \in mRefreshes
    <3>1. PICK said \in IF kind = "success" THEN {given, None} ELSE {0} :
                 queue' = Append(queue, Answer(kind, s, said))
      BY <1>2, <2>1
    <3>2. said \in (0..Longest) \cup {None} /\ (kind = "success" => said \in {ticks, None})
      BY <1>2, <1>3
    <3> HIDE DEF given, ticks
    <3>3. Answer(kind, s, said) \in Message
      BY <3>2 DEF Answer, Message
    <3> QED
      BY <2>1, <3>1, <3>2, <3>3 DEF Answer
  <2>2. CASE ~(flights[s][i].last /\ s \in mRefreshes)
    <3>1. queue' = queue
      BY <1>2, <2>2
    <3>2. Answer("failure", s, 0) \in Message
      BY <1>3 DEF Answer, Message
    <3> QED
      BY <3>1, <3>2 DEF Answer
  <2> QED
    BY <2>1, <2>2
<1>5. /\ binding' = [binding EXCEPT ![s] = ticks]
      /\ flights' = [flights EXCEPT ![s] = SubSeq(flights[s], i + 1, Len(flights[s]))]
  BY <1>2
<1> HIDE DEF given, ticks
<1> QED
  BY <1>3, <1>4, <1>5

LEMMA TypeStep == TypeInv /\ [Next]_vars => TypeInv'
<1> SUFFICES ASSUME TypeInv, [Next]_vars PROVE TypeInv'
  OBVIOUS
<1> USE DEF TypeInv
<1>0. CASE UNCHANGED vars
  BY <1>0 DEF vars, fields, starts, servers, TypeOK, OneUnsent
<1>1. ASSUME NEW s \in States, initiateRefresh(s) PROVE TypeInv'
  <2> DEFINE ticks == calculateResendTime(TRUE)
  <2>1. ticks \in Nat \ {0}
    BY ResendTimes
  <2>2. /\ mRefreshes' = mRefreshes \cup {s}
        /\ mRequestState' = [mRequestState EXCEPT ![s] = "PENDING"]
        /\ mExpiration' = [mExpiration EXCEPT ![s] = 0]
        /\ age' = [age EXCEPT ![s] = 0]
        /\ mpRefreshTimer' = [mpRefreshTimer EXCEPT ![s] = ticks]
        /\ initiating' = [initiating EXCEPT ![s] = "send"]
        /\ mReset' = [mReset EXCEPT ![s] = FALSE]
        /\ UNCHANGED <<queue, sending, flights, binding>>
    BY <1>1 DEF initiateRefresh, servers
  <2> HIDE DEF ticks
  <2>i. ticks \in Int
    BY <2>1
  <2> QED
    <3>1. /\ mRefreshes' \subseteq States
          /\ mRequestState' \in [States -> {"UNKNOWN", "PENDING", "FAILED", "SUCCEEDED"}]
          /\ mExpiration' \in [States -> 0..Longest] /\ age' \in [States -> 0..Longest]
          /\ mpRefreshTimer' \in [States -> Int]
      BY <2>i, <2>2, GrantedAssumption, SMTT(60) DEF TypeOK
    <3>2. /\ initiating' \in [States -> {"idle", "send", "failed"}]
          /\ mReset' \in [States -> BOOLEAN]
      BY <2>2 DEF TypeOK
    <3>3. \A u \in mRefreshes' : mRequestState'[u] # "UNKNOWN"
      BY <2>2 DEF TypeOK
    <3> QED
      BY <2>2, <3>1, <3>2, <3>3 DEF TypeOK, OneUnsent
<1>2. ASSUME NEW s \in States, SendInitial(s) PROVE TypeInv'
  <2>1. CASE UNCHANGED flights
    BY <1>2, <2>1 DEF SendInitial, fields, TypeOK, OneUnsent
  <2>2. CASE setForResend(s, FALSE, TRUE)
    <3>1. /\ flights' \in [States -> Seq(Request)]
          /\ OneUnsent'
          /\ \A u \in States : (\E i \in DOMAIN flights'[u] : ~flights'[u][i].sent) => sending = u
      BY <2>2, SendsNow
    <3> QED
      BY <1>2, <3>1 DEF SendInitial, fields, TypeOK
  <2> QED
    BY <1>2, <2>1, <2>2 DEF SendInitial
<1>3. ASSUME NEW s \in States, InitialFailed(s) PROVE TypeInv'
  <2>1. Event("interrupted", s) \in Message
    BY GrantedAssumption DEF Event, Message
  <2>2. queue' \in Seq(Message) /\ mpRefreshTimer' \in [States -> Int]
    <3>1. CASE mReset[s]
      BY <1>3, <3>1 DEF InitialFailed, TypeOK
    <3>2. CASE ~mReset[s]
      <4>1. mpRefreshTimer' \in [States -> Int]
        BY <1>3, <3>2 DEF InitialFailed, TypeOK
      <4>2. queue' = Append(queue, Event("interrupted", s)) /\ queue \in Seq(Message)
        BY <1>3, <3>2 DEF InitialFailed, TypeOK
      <4> QED
        BY <2>1, <4>1, <4>2, AppendsMessage
    <3> QED
      BY <3>1, <3>2
  <2> QED
    BY <1>3, <2>2 DEF InitialFailed, servers, TypeOK, OneUnsent
<1>4. ASSUME NEW s \in States, stopRefresh(s) PROVE TypeInv'
  <2>1. /\ flights' \in [States -> Seq(Request)]
        /\ OneUnsent'
        /\ \A u \in States : (\E i \in DOMAIN flights'[u] : ~flights'[u][i].sent) => sending = u
    <3>1. CASE UNCHANGED flights
      BY <3>1 DEF TypeOK, OneUnsent
    <3>2. CASE setForResend(s, TRUE, TRUE)
      BY <3>2, SendsNow
    <3> QED
      BY <1>4, <3>1, <3>2 DEF stopRefresh
  <2>2. queue' \in Seq(Message)
    BY <1>4, OvertakenFacts DEF stopRefresh, TypeOK
  <2> QED
    <3>1. /\ mRefreshes' = mRefreshes \ {s}
          /\ mRequestState' = [mRequestState EXCEPT ![s] = "UNKNOWN"]
          /\ mExpiration' = [mExpiration EXCEPT ![s] = 0]
          /\ mpRefreshTimer' = [mpRefreshTimer EXCEPT ![s] = -1]
          /\ UNCHANGED <<age, starts, sending, binding>>
      BY <1>4 DEF stopRefresh
    <3> QED
      BY SMTT(60), <2>1, <2>2, <3>1, GrantedAssumption DEF starts, TypeOK
<1>5. CASE IgnoreTimer \/ IgnoreResponse
  <2>1. queue' \in Seq(Message)
    BY <1>5, ReceivesFacts DEF IgnoreTimer, IgnoreResponse
  <2> QED
    BY <1>5, <2>1 DEF IgnoreTimer, IgnoreResponse, fields, starts, servers, TypeOK, OneUnsent
<1>6. CASE Reschedule
  <2>1. queue' \in Seq(Message) /\ Head(queue).state \in States
    BY <1>6, ReceivesFacts DEF Reschedule, Message
  <2> DEFINE ticks == ResendTime(Head(queue).state, FALSE)
  <2>2. ticks \in Nat \ {0}
    BY <2>1, ResendTimes
  <2>3. /\ mpRefreshTimer' = [mpRefreshTimer EXCEPT ![Head(queue).state] = ticks]
        /\ mReset' = [mReset EXCEPT ![Head(queue).state] = TRUE]
        /\ UNCHANGED <<mRefreshes, fields, initiating, sending, servers>>
    BY <1>6 DEF Reschedule, setRefreshTimer
  <2> HIDE DEF ticks
  <2>i. ticks \in Int
    BY <2>2
  <2> QED
    BY <2>i, <2>1, <2>2, <2>3 DEF fields, servers, TypeOK, OneUnsent
<1>7. CASE Refresh
  <2> DEFINE s == Head(queue).state
  <2>1. s \in States /\ sending = None /\ Tail(queue) \in Seq(Message)
    BY <1>7, ReceivesFacts DEF Refresh, Message
  <2> DEFINE ticks == ResendTime(s, TRUE)
  <2>2. ticks \in Nat \ {0}
    BY <2>1, ResendTimes
  <2>3. queue' \in Seq(Message)
    BY <1>7, <2>1, OvertakenFacts DEF Refresh
  <2> HIDE DEF s
  <2>4. /\ flights' \in [States -> Seq(Request)]
        /\ \A u \in States \ {s} : flights'[u] = flights[u]
        /\ Len(flights'[s]) = Len(flights[s]) + 1
        /\ \A i \in DOMAIN flights[s] : flights'[s][i].sent = flights[s][i].sent
    BY <1>7, <2>1, SetForResendFacts DEF Refresh, s
  <2>5. \A u \in States : \A i \in DOMAIN flights[u] : flights[u][i].sent
    BY <2>1, NoneAssumption DEF TypeOK
  <2>6. \A u \in States : \A i \in DOMAIN flights'[u] :
          ~flights'[u][i].sent => u = s /\ i = Len(flights[s]) + 1
    <3>1. /\ flights[s] \in Seq(Request) /\ flights'[s] \in Seq(Request)
      BY <2>1, <2>4 DEF TypeOK
    <3> QED
      BY <2>4, <2>5, <3>1
  <2>7. OneUnsent'
    BY <2>6 DEF OneUnsent
  <2>8. /\ sending' = s /\ age' = [age EXCEPT ![s] = 0]
        /\ mpRefreshTimer' = [mpRefreshTimer EXCEPT ![s] = ticks]
        /\ mReset' = [mReset EXCEPT ![s] = TRUE]
        /\ UNCHANGED <<mRefreshes, mRequestState, mExpiration, initiating, binding>>
    BY <1>7 DEF Refresh, setRefreshTimer, s
  <2> HIDE DEF ticks
  <2>i. ticks \in Int
    BY <2>2
  <2> QED
    BY <2>i, <2>1, <2>2, <2>3, <2>4, <2>6, <2>7, <2>8, GrantedAssumption DEF TypeOK
<1>8. CASE SendRefresh
  <2> DEFINE s == sending
             requests == flights[s]
             sent == [i \in DOMAIN requests |-> [requests[i] EXCEPT !.sent = TRUE]]
  <2>1. s \in States /\ requests \in Seq(Request)
    BY <1>8 DEF SendRefresh, TypeOK
  <2>2. PICK q \in {sent} \cup Withdrawn(requests) : flights' = [flights EXCEPT ![s] = q]
    BY <1>8 DEF SendRefresh
  <2>3. q \in Seq(Request) /\ \A i \in DOMAIN q : q[i].sent
    <3>1. DOMAIN requests = 1..Len(requests) /\ Len(requests) \in Nat
          /\ \A i \in 1..Len(requests) : requests[i] \in Request
      BY <2>1
    <3>2. CASE q = sent
      <4>1. \A i \in 1..Len(requests) : sent[i] \in Request /\ sent[i].sent
        BY <3>1 DEF Request
      <4>2. sent = [i \in 1..Len(requests) |-> sent[i]]
        BY <3>1
      <4> HIDE DEF sent, requests
      <4> QED
        BY <3>1, <3>2, <4>1, <4>2
    <3>3. CASE q \in Withdrawn(requests)
      <4> DEFINE unsent == {i \in DOMAIN requests : ~requests[i].sent}
      <4>1. CASE unsent = {}
        BY <2>1, <3>3, <4>1 DEF Withdrawn
      <4>2. CASE unsent # {}
        <5>1. PICK k \in unsent :
                q = SubSeq(requests, 1, k - 1) \o SubSeq(requests, k + 1, Len(requests))
          BY <3>3, <4>2 DEF Withdrawn
        <5>2. k \in 1..Len(requests) /\ \A i \in 1..Len(requests) : i # k => requests[i].sent
          BY <2>1, <3>1, <5>1 DEF OneUnsent
        <5> HIDE DEF requests, unsent
        <5> DEFINE r == SubSeq(requests, 1, k - 1) \o SubSeq(requests, k + 1, Len(requests))
        <5>c. /\ r \in Seq(Request)
              /\ \A i \in DOMAIN r : \E j \in DOMAIN requests :
                   j # k /\ r[i] = requests[j] /\ (j = Len(requests) => i = Len(r))
          BY <2>1, <5>2, WithoutOne
        <5>a. /\ r \in Seq(Request)
              /\ \A i \in DOMAIN r : \E j \in DOMAIN requests : j # k /\ r[i] = requests[j]
          <6> HIDE DEF r
          <6> QED
            BY <5>c
        <5>b. q = r
          BY <5>1
        <5> HIDE DEF r
        <5>3. /\ q \in Seq(Request)
              /\ \A i \in DOMAIN q : \E j \in DOMAIN requests : j # k /\ q[i] = requests[j]
          BY <5>a, <5>b
        <5> QED
          BY <3>1, <5>2, <5>3
      <4> QED
        BY <4>1, <4>2
    <3> QED
      BY <3>2, <3>3
  <2> HIDE DEF s
  <2>4. /\ flights' \in [States -> Seq(Request)] /\ flights'[s] = q
        /\ \A u \in States \ {s} : flights'[u] = flights[u]
    BY <2>1, <2>2, <2>3 DEF TypeOK
  <2>5. \A u \in States : \A i \in DOMAIN flights'[u] : flights'[u][i].sent
    <3>1. \A u \in States \ {s} : \A i \in DOMAIN flights[u] : flights[u][i].sent
      BY DEF TypeOK, s
    <3> QED
      BY <2>3, <2>4, <3>1
  <2> QED
    BY <1>8, <2>4, <2>5 DEF SendRefresh, fields, starts, TypeOK, OneUnsent
<1>9. CASE RequestSucceeded
  <2>1. queue' \in Seq(Message) /\ Head(queue) \in Message
    BY <1>9, ReceivesFacts DEF RequestSucceeded
  <2> DEFINE s == Head(queue).state
             expiration == MaxOf(0, Accepted(Head(queue).granted) - age[s])
  <2>2. s \in States /\ expiration \in 0..Longest
    <3>1. s \in States /\ Accepted(Head(queue).granted) \in 0..Longest /\ Longest \in Nat
      BY <2>1, GrantedAssumption DEF Message, Accepted
    <3>2. age[s] \in 0..Longest
      BY <3>1 DEF TypeOK
    <3> QED
      BY <3>1, <3>2 DEF MaxOf
  <2>3. /\ mExpiration' = [mExpiration EXCEPT ![s] = expiration]
        /\ mRequestState' = [mRequestState EXCEPT ![s] = "SUCCEEDED"]
        /\ UNCHANGED <<mRefreshes, age, mpRefreshTimer, starts, sending, servers>>
    BY <1>9 DEF RequestSucceeded
  <2> HIDE DEF s, expiration
  <2> QED
    BY <2>1, <2>2, <2>3 DEF starts, servers, TypeOK, OneUnsent
<1>10. CASE RequestFailed
  <2>1. Tail(queue) \in Seq(Message) /\ Head(queue).state \in States
    BY <1>10, ReceivesFacts DEF RequestFailed, Message
  <2>2. Event("interrupted", Head(queue).state) \in Message
    BY <2>1, GrantedAssumption DEF Event, Message
  <2>3. queue' \in Seq(Message)
    BY <1>10, <2>1, <2>2 DEF RequestFailed
  <2>4. /\ mRequestState' = [mRequestState EXCEPT ![Head(queue).state] = "FAILED"]
        /\ mpRefreshTimer' = [mpRefreshTimer EXCEPT ![Head(queue).state] = -1]
        /\ UNCHANGED <<mRefreshes, mExpiration, age, starts, sending, servers>>
    BY <1>10 DEF RequestFailed
  <2>5. /\ mRequestState' \in [States -> {"UNKNOWN", "PENDING", "FAILED", "SUCCEEDED"}]
        /\ mpRefreshTimer' \in [States -> Int]
        /\ \A u \in mRefreshes : mRequestState'[u] # "UNKNOWN"
    BY <2>1, <2>4 DEF TypeOK
  <2>6. UNCHANGED <<mRefreshes, mExpiration, age, initiating, mReset, sending, flights, binding>>
    BY <2>4 DEF starts, servers
  <2>7. OneUnsent'
    BY <2>6 DEF OneUnsent
  <2> QED
    BY <2>3, <2>5, <2>6, <2>7 DEF TypeOK
<1>11. ASSUME NEW s \in States, TimerFires(s) PROVE TypeInv'
  <2>1. Event("timer", s) \in Message
    BY GrantedAssumption DEF Event, Message
  <2>2. queue' \in Seq(Message)
    BY <1>11, <2>1 DEF TimerFires, TypeOK
  <2> QED
    BY SMTT(60), <1>11, <2>2 DEF TimerFires, fields, starts, servers, TypeOK, OneUnsent
<1>12. ASSUME NEW s \in States, Serve(s) PROVE TypeInv'
  <2>1. PICK i \in 1..Len(flights[s]), ticks \in 0..Longest, m \in Message :
          /\ flights' = [flights EXCEPT ![s] = SubSeq(flights[s], i + 1, Len(flights[s]))]
          /\ binding' = [binding EXCEPT ![s] = ticks]
          /\ queue' = queue \/ queue' = Append(queue, m)
    BY <1>12, ServeFacts
  <2>3. queue' \in Seq(Message)
    BY <2>1, AppendsMessage DEF TypeOK
  <2>4. binding' \in [States -> 0..Longest]
    BY <2>1 DEF TypeOK
  <2> DEFINE q == flights[s]
             rest == SubSeq(q, i + 1, Len(q))
  <2>5. q \in Seq(Request) /\ i \in 1..Len(q)
    BY DEF TypeOK
  <2>6. flights' = [flights EXCEPT ![s] = rest]
    BY <2>1
  <2> HIDE DEF q
  <2>7. rest \in Seq(Request) /\ \A j \in DOMAIN rest : i + j \in DOMAIN q /\ rest[j] = q[i + j]
    <3>1. /\ rest \in Seq(Request) /\ Len(rest) = Len(q) - i
          /\ \A j \in 1..(Len(q) - i) : rest[j] = q[i + j]
      BY <2>5, RestAfter
    <3> HIDE DEF rest
    <3> QED
      BY <2>5, <3>1
  <2> HIDE DEF rest
  <2>8. /\ flights' \in [States -> Seq(Request)] /\ flights'[s] = rest
        /\ \A u \in States \ {s} : flights'[u] = flights[u]
    BY <2>6, <2>7 DEF TypeOK
  <2>9. OneUnsent'
    <3>1. \A j, k \in DOMAIN q : ~q[j].sent /\ ~q[k].sent => j = k
      BY DEF OneUnsent, q
    <3>2. DOMAIN rest \subseteq Nat /\ i \in Nat
      BY <2>5, <2>7
    <3>3. \A j, k \in DOMAIN rest : ~rest[j].sent /\ ~rest[k].sent => j = k
      BY <2>7, <3>1, <3>2
    <3>4. \A u \in States \ {s} : \A j, k \in DOMAIN flights'[u] :
            ~flights'[u][j].sent /\ ~flights'[u][k].sent => j = k
      BY <2>8 DEF OneUnsent
    <3> QED
      BY <2>8, <3>3, <3>4 DEF OneUnsent
  <2>10. \A u \in States : (\E j \in DOMAIN flights'[u] : ~flights'[u][j].sent) => sending = u
    <3>1. \A u \in States \ {s} : (\E j \in DOMAIN flights'[u] : ~flights'[u][j].sent) => sending = u
      BY <2>8 DEF TypeOK
    <3>2. (\E j \in DOMAIN rest : ~rest[j].sent) => \E j \in DOMAIN q : ~q[j].sent
      BY <2>7
    <3>3. (\E j \in DOMAIN q : ~q[j].sent) => sending = s
      BY DEF TypeOK, q
    <3> QED
      BY <2>8, <3>1, <3>2, <3>3
  <2> QED
    BY <1>12, <2>3, <2>4, <2>8, <2>9, <2>10 DEF Serve, fields, starts, TypeOK
<1>13. CASE Tick
  <2>1. /\ mExpiration' \in [States -> 0..Longest] /\ age' \in [States -> 0..Longest]
        /\ mpRefreshTimer' \in [States -> Int] /\ binding' \in [States -> 0..Longest]
    <3>1. \A s \in States : mExpiration[s] \in 0..Longest /\ age[s] \in 0..Longest
                            /\ mpRefreshTimer[s] \in Int /\ binding[s] \in 0..Longest
      BY DEF TypeOK
    <3>2. \A n \in 0..Longest : MaxOf(0, n - 1) \in 0..Longest
      BY GrantedAssumption DEF MaxOf
    <3>3. \A n \in 0..Longest : (IF n < Longest THEN n + 1 ELSE n) \in 0..Longest
      BY GrantedAssumption
    <3>4. mExpiration' \in [States -> 0..Longest] /\ binding' \in [States -> 0..Longest]
      BY <1>13, <3>1, <3>2 DEF Tick
    <3>5. age' \in [States -> 0..Longest]
      BY <1>13, <3>1, <3>3 DEF Tick
    <3>6. mpRefreshTimer' \in [States -> Int]
      BY <1>13, <3>1 DEF Tick
    <3> QED
      BY <3>4, <3>5, <3>6
  <2> QED
    BY <1>13, <2>1 DEF Tick, starts, TypeOK, OneUnsent
<1> QED
  BY <1>0, <1>1, <1>2, <1>3, <1>4, <1>5, <1>6, <1>7, <1>8, <1>9, <1>10, <1>11, <1>12, <1>13
  DEF Next, handleMessage

-----------------------------------------------------------------------------
(* No refresh is forgotten                                                    *)

Within(q, s) == \E i \in DOMAIN q : q[i].state = s /\ q[i].kind \in {"timer", "interrupted"}

LEMMA WithinAppend ==
  ASSUME NEW q \in Seq(Message), NEW m \in Message, NEW s
  PROVE  /\ Within(q, s) => Within(Append(q, m), s)
         /\ m.state = s /\ m.kind \in {"timer", "interrupted"} => Within(Append(q, m), s)
<1> DEFINE r == Append(q, m)
<1>1. /\ r \in Seq(Message) /\ Len(r) = Len(q) + 1 /\ r[Len(q) + 1] = m
      /\ \A i \in 1..Len(q) : r[i] = q[i]
  BY AppendProperties
<1>2. Len(q) \in Nat /\ DOMAIN q = 1..Len(q)
  OBVIOUS
<1> HIDE DEF r
<1>3. DOMAIN r = 1..(Len(q) + 1)
  BY <1>1
<1>4. (\A i \in DOMAIN q : i \in DOMAIN r) /\ Len(q) + 1 \in DOMAIN r
  BY <1>2, <1>3
<1>5. Within(q, s) => Within(r, s)
  BY <1>1, <1>2, <1>4 DEF Within
<1>6. m.state = s /\ m.kind \in {"timer", "interrupted"} => Within(r, s)
  BY <1>1, <1>4 DEF Within
<1> QED
  BY <1>5, <1>6 DEF r

LEMMA WithinTail ==
  ASSUME TypeOK, NEW kinds, Receives(kinds), NEW s,
         Head(queue).state # s \/ Head(queue).kind \notin {"timer", "interrupted"}
  PROVE  Within(queue, s) => Within(Tail(queue), s)
<1> SUFFICES ASSUME Within(queue, s) PROVE Within(Tail(queue), s)
  OBVIOUS
<1>1. PICK i \in DOMAIN queue : queue[i].state = s /\ queue[i].kind \in {"timer", "interrupted"}
  BY DEF Within
<1>2. Head(queue) = queue[1]
  BY ReceivesFacts
<1>3. i # 1
  BY <1>1, <1>2
<1>4. i - 1 \in DOMAIN Tail(queue) /\ Tail(queue)[i - 1] = queue[i]
  BY <1>3, ReceivesFacts
<1> QED
  BY <1>1, <1>4 DEF Within

LEMMA WithinOvertaken ==
  ASSUME NEW q \in Seq(Message), NEW t, NEW s
  PROVE  Within(q, s) => Within(Overtaken(q, t), s)
<1> QED
  BY OvertakenFacts, SMTT(60) DEF Within

GoesOn(s) == mpRefreshTimer[s] >= 0 \/ Within(queue, s)

LEMMA GoesOnStep == TypeInv /\ RefreshGoesOn /\ [Next]_vars => RefreshGoesOn'
<1> SUFFICES ASSUME TypeInv, RefreshGoesOn, [Next]_vars, NEW s \in mRefreshes'
             PROVE  GoesOn(s)'
  BY DEF RefreshGoesOn, InQueue, GoesOn, Within
<1> USE DEF TypeInv
<1>a. s \in mRefreshes => GoesOn(s)
  BY DEF RefreshGoesOn, InQueue, GoesOn, Within
<1>b. /\ queue \in Seq(Message) /\ mRefreshes \subseteq States
      /\ mpRefreshTimer \in [States -> Int]
  BY DEF TypeOK
<1>c. ASSUME NEW u \in States PROVE Event("timer", u) \in Message /\ Event("interrupted", u) \in Message
  BY GrantedAssumption DEF Event, Message
<1>0. CASE UNCHANGED vars
  BY <1>0, <1>a DEF vars, GoesOn
<1>1. ASSUME NEW u \in States, initiateRefresh(u) PROVE GoesOn(s)'
  <2>1. calculateResendTime(TRUE) \in Nat \ {0}
    BY <1>1, ResendTimes
  <2> DEFINE ticks == calculateResendTime(TRUE)
  <2>2. /\ mRefreshes' = mRefreshes \cup {u} /\ queue' = queue
        /\ mpRefreshTimer' = [mpRefreshTimer EXCEPT ![u] = ticks]
    BY <1>1 DEF initiateRefresh
  <2>3. ticks \in Nat \ {0}
    BY <2>1
  <2> HIDE DEF ticks
  <2>4. CASE s = u
    BY <1>b, <2>2, <2>3, <2>4 DEF GoesOn
  <2>5. CASE s # u
    BY <1>a, <1>b, <2>2, <2>5 DEF GoesOn
  <2> QED
    BY <2>4, <2>5
<1>2. ASSUME NEW u \in States, SendInitial(u) PROVE GoesOn(s)'
  BY <1>2, <1>a DEF SendInitial, GoesOn
<1>3. ASSUME NEW u \in States, InitialFailed(u) PROVE GoesOn(s)'
  <2>1. mRefreshes' = mRefreshes
    BY <1>3 DEF InitialFailed
  <2>2. CASE mReset[u]
    BY <1>3, <1>a, <2>1, <2>2 DEF InitialFailed, GoesOn
  <2>3. CASE ~mReset[u]
    <3>1. /\ queue' = Append(queue, Event("interrupted", u))
          /\ mpRefreshTimer' = [mpRefreshTimer EXCEPT ![u] = -1]
      BY <1>3, <2>3 DEF InitialFailed
    <3>2. Event("interrupted", u).state = u /\ Event("interrupted", u).kind \in {"timer", "interrupted"}
      BY DEF Event
    <3>3. Within(queue', u) /\ (Within(queue, s) => Within(queue', s))
      BY <1>b, <1>c, <3>1, <3>2, WithinAppend
    <3>4. s # u => mpRefreshTimer'[s] = mpRefreshTimer[s]
      BY <1>b, <2>1, <3>1
    <3> QED
      BY <1>a, <2>1, <3>3, <3>4 DEF GoesOn, Within
  <2> QED
    BY <2>2, <2>3
<1>4. ASSUME NEW u \in States, stopRefresh(u) PROVE GoesOn(s)'
  <2>1. /\ mRefreshes' = mRefreshes \ {u} /\ queue' = Overtaken(queue, u)
        /\ mpRefreshTimer' = [mpRefreshTimer EXCEPT ![u] = -1]
    BY <1>4 DEF stopRefresh
  <2>2. Within(queue, s) => Within(queue', s)
    BY <1>b, <2>1, WithinOvertaken
  <2>3. s \in mRefreshes /\ mpRefreshTimer'[s] = mpRefreshTimer[s]
    BY <1>b, <2>1
  <2> QED
    BY <1>a, <2>2, <2>3 DEF GoesOn, Within
<1>5. CASE IgnoreTimer
  <2>1. /\ queue' = Tail(queue) /\ Head(queue).state \notin mRefreshes
        /\ Receives({"timer", "interrupted"}) /\ UNCHANGED <<mRefreshes, mpRefreshTimer>>
    BY <1>5 DEF IgnoreTimer
  <2>2. Within(queue, s) => Within(queue', s)
    BY <2>1, WithinTail
  <2> QED
    BY <1>a, <2>1, <2>2 DEF GoesOn, Within
<1>6. CASE IgnoreResponse \/ RequestSucceeded
  <2>1. /\ queue' = Tail(queue) /\ Receives({"success", "failure"})
        /\ UNCHANGED <<mRefreshes, mpRefreshTimer>>
    BY <1>6 DEF IgnoreResponse, RequestSucceeded, Receives
  <2>2. Head(queue).kind \in {"success", "failure"}
    BY <2>1, ReceivesFacts
  <2>3. Within(queue, s) => Within(queue', s)
    BY <2>1, <2>2, WithinTail
  <2> QED
    BY <1>a, <2>1, <2>3 DEF GoesOn, Within
<1>7. CASE Reschedule \/ Refresh
  <2> DEFINE u == Head(queue).state
             early == ResendTime(u, FALSE)
             late == ResendTime(u, TRUE)
  <2>1. /\ Receives({"timer", "interrupted"})
        /\ \/ mpRefreshTimer' = [mpRefreshTimer EXCEPT ![u] = early]
           \/ mpRefreshTimer' = [mpRefreshTimer EXCEPT ![u] = late]
        /\ queue' \in {Tail(queue), Overtaken(Tail(queue), u)}
        /\ UNCHANGED mRefreshes
    <3>1. CASE Reschedule
      BY <3>1 DEF Reschedule, setRefreshTimer
    <3>2. CASE Refresh
      <4>1. Receives({"timer"})
        BY <3>2 DEF Refresh
      <4>2. Receives({"timer", "interrupted"})
        BY <4>1 DEF Receives
      <4> QED
        BY <3>2, <4>2 DEF Refresh, setRefreshTimer
    <3> QED
      BY <1>7, <3>1, <3>2
  <2>2. u \in States /\ Tail(queue) \in Seq(Message)
    BY <2>1, ReceivesFacts DEF Message
  <2>3. early \in Nat \ {0} /\ late \in Nat \ {0}
    BY <2>2, ResendTimes
  <2>4. s # u => (Within(queue, s) => Within(Tail(queue), s))
    BY <2>1, WithinTail
  <2>5. s # u => (Within(queue, s) => Within(queue', s))
    <3>1. Within(Tail(queue), s) => Within(Overtaken(Tail(queue), u), s)
      BY <2>2, WithinOvertaken
    <3> QED
      BY <2>1, <2>4, <3>1
  <2> HIDE DEF u, early, late
  <2>6. CASE s = u
    BY <1>b, <2>1, <2>2, <2>3, <2>6 DEF GoesOn
  <2>7. CASE s # u
    <3>1. mpRefreshTimer'[s] = mpRefreshTimer[s]
      BY <1>b, <2>1, <2>7
    <3> QED
      BY <1>a, <2>1, <2>5, <2>7, <3>1 DEF GoesOn, Within
  <2> QED
    BY <2>6, <2>7
<1>8. CASE SendRefresh
  BY <1>8, <1>a DEF SendRefresh, GoesOn
<1>9. CASE RequestFailed
  <2> DEFINE u == Head(queue).state
             event == Event("interrupted", u)
  <2>1. /\ Receives({"failure"}) /\ queue' = Append(Tail(queue), event)
        /\ mpRefreshTimer' = [mpRefreshTimer EXCEPT ![u] = -1] /\ UNCHANGED mRefreshes
    BY <1>9 DEF RequestFailed
  <2>2. Head(queue).kind = "failure" /\ u \in States /\ Tail(queue) \in Seq(Message)
    <3>1. Head(queue).kind \in {"failure"} /\ Tail(queue) \in Seq(Message)
      BY <2>1, ReceivesFacts
    <3>2. Head(queue) \in Message
      BY <2>1, ReceivesFacts
    <3> QED
      BY <3>1, <3>2 DEF Message
  <2>3. event \in Message /\ event.state = u /\ event.kind \in {"timer", "interrupted"}
    BY <1>c, <2>2 DEF Event
  <2>4. Within(queue, s) => Within(Tail(queue), s)
    BY <2>1, <2>2, WithinTail
  <2>5. Within(queue', u) /\ (Within(queue, s) => Within(queue', s))
    BY <2>1, <2>2, <2>3, <2>4, WithinAppend
  <2> HIDE DEF u
  <2>6. s # u => mpRefreshTimer'[s] = mpRefreshTimer[s]
    BY <1>b, <2>1
  <2> QED
    BY <1>a, <2>1, <2>5, <2>6 DEF GoesOn, Within
<1>10. ASSUME NEW u \in States, TimerFires(u) PROVE GoesOn(s)'
  <2>1. /\ queue' = Append(queue, Event("timer", u)) /\ UNCHANGED mRefreshes
        /\ mpRefreshTimer' = [mpRefreshTimer EXCEPT ![u] = -1]
    BY <1>10 DEF TimerFires
  <2>2. Event("timer", u).state = u /\ Event("timer", u).kind \in {"timer", "interrupted"}
    BY DEF Event
  <2>3. Within(queue', u) /\ (Within(queue, s) => Within(queue', s))
    BY <1>b, <1>c, <2>1, <2>2, WithinAppend
  <2>4. s # u => mpRefreshTimer'[s] = mpRefreshTimer[s]
    BY <1>b, <2>1
  <2> QED
    BY <1>a, <2>1, <2>3, <2>4 DEF GoesOn, Within
<1>11. ASSUME NEW u \in States, Serve(u) PROVE GoesOn(s)'
  <2>1. PICK m \in Message : queue' = queue \/ queue' = Append(queue, m)
    BY <1>11, ServeFacts
  <2>2. Within(queue, s) => Within(queue', s)
    <3>1. Within(queue, s) => Within(Append(queue, m), s)
      BY <1>b, WithinAppend
    <3>2. queue' = queue \/ queue' = Append(queue, m)
      BY <2>1
    <3> QED
      BY <3>1, <3>2
  <2>3. UNCHANGED <<mRefreshes, mpRefreshTimer>>
    BY <1>11 DEF Serve
  <2> QED
    BY <1>a, <2>2, <2>3 DEF GoesOn, Within
<1>12. CASE Tick
  <2>1. /\ UNCHANGED <<mRefreshes, queue>>
        /\ mpRefreshTimer' = [u \in States |->
             IF mpRefreshTimer[u] > 0 THEN mpRefreshTimer[u] - 1 ELSE mpRefreshTimer[u]]
    BY <1>12 DEF Tick
  <2>2. s \in States /\ mpRefreshTimer[s] \in Int
    BY <1>b, <2>1
  <2>3. mpRefreshTimer[s] >= 0 => mpRefreshTimer'[s] >= 0
    BY <2>1, <2>2
  <2> QED
    BY <1>a, <2>1, <2>3 DEF GoesOn
<1> QED
  BY <1>0, <1>1, <1>2, <1>3, <1>4, <1>5, <1>6, <1>7, <1>8, <1>9, <1>10, <1>11, <1>12
  DEF Next, handleMessage

-----------------------------------------------------------------------------
(* What the application is told                                               *)

\* Every answer to a last request that is in q was in the queue.
Inherited(q) ==
  \A i \in DOMAIN q : LastAnswer(q[i]) => \E j \in DOMAIN queue : q[i] = queue[j]

LEMMA InheritedTail ==
  ASSUME TypeOK, NEW kinds, Receives(kinds)
  PROVE  Inherited(Tail(queue))
<1>1. \A i \in DOMAIN Tail(queue) : i + 1 \in DOMAIN queue /\ Tail(queue)[i] = queue[i + 1]
  BY ReceivesFacts
<1> QED
  BY <1>1 DEF Inherited

LEMMA InheritedOvertaken ==
  ASSUME NEW q \in Seq(Message), NEW s, Inherited(q)
  PROVE  /\ Inherited(Overtaken(q, s))
         /\ \A i \in DOMAIN Overtaken(q, s) :
              LastAnswer(Overtaken(q, s)[i]) => Overtaken(q, s)[i].state # s
<1> DEFINE r == Overtaken(q, s)
<1>1. /\ DOMAIN r = DOMAIN q
      /\ \A i \in DOMAIN q : r[i].last => q[i].state # s /\ r[i] = q[i]
  BY OvertakenFacts
<1> HIDE DEF r
<1>2. \A i \in DOMAIN r : LastAnswer(r[i]) => LastAnswer(q[i]) /\ r[i].state # s /\ r[i] = q[i]
  BY <1>1 DEF LastAnswer
<1>3. Inherited(r)
  BY <1>1, <1>2 DEF Inherited
<1> QED
  BY <1>2, <1>3 DEF r

LEMMA InheritedAppend ==
  ASSUME NEW q \in Seq(Message), NEW m \in Message, Inherited(q), ~LastAnswer(m)
  PROVE  Inherited(Append(q, m))
<1> DEFINE r == Append(q, m)
<1>1. /\ r \in Seq(Message) /\ Len(r) = Len(q) + 1 /\ r[Len(q) + 1] = m
      /\ \A i \in 1..Len(q) : r[i] = q[i]
  BY AppendProperties
<1> HIDE DEF r
<1>2. \A i \in DOMAIN r : r[i] = m \/ (i \in DOMAIN q /\ r[i] = q[i])
  BY <1>1
<1>3. Inherited(r)
  BY <1>2 DEF Inherited
<1> QED
  BY <1>3 DEF r

\* What a step leaves of a state with an answered last request.
Keeps(s) ==
  s \in mRefreshes /\ flights[s] = <<>> /\ initiating[s] # "send" =>
    /\ s \in mRefreshes' /\ flights'[s] = <<>> /\ initiating'[s] # "send"
    /\ age'[s] = age[s] /\ binding'[s] = binding[s]

LEMMA AnswersKept ==
  ASSUME AnswersHold, Inherited(queue'),
         \A i \in DOMAIN queue' : LastAnswer(queue'[i]) => Keeps(queue'[i].state)
  PROVE  AnswersHold'
<1> SUFFICES ASSUME NEW i \in DOMAIN queue', LastAnswer(queue'[i]) PROVE Holds(queue[i])'
  BY DEF AnswersHold, LastAnswer
<1>1. PICK j \in DOMAIN queue : queue'[i] = queue[j]
  BY DEF Inherited
<1>2. LastAnswer(queue[j])
  BY <1>1
<1>3. Holds(queue[j]) /\ Keeps(queue[j].state)
  BY <1>1, <1>2 DEF AnswersHold
<1> QED
  BY <1>1, <1>3 DEF Holds, Keeps

\* The copy of a request is sent or not: the last request stays behind the others.
LEMMA SentLast ==
  ASSUME TypeInv, LastIsLast, NEW s \in States,
         NEW q \in {[i \in DOMAIN flights[s] |-> [flights[s][i] EXCEPT !.sent = TRUE]]}
                   \cup Withdrawn(flights[s])
  PROVE  /\ \A i \in DOMAIN q : q[i].last => i = Len(q)
         /\ flights[s] = <<>> => q = <<>>
<1> DEFINE requests == flights[s]
           sent == [i \in DOMAIN requests |-> [requests[i] EXCEPT !.sent = TRUE]]
           unsent == {i \in DOMAIN requests : ~requests[i].sent}
<1>1. requests \in Seq(Request)
  BY DEF TypeInv, TypeOK
<1>2. \A i \in DOMAIN requests : requests[i].last => i = Len(requests)
  BY DEF LastIsLast
<1>3. CASE q = sent
  <2> HIDE DEF requests
  <2>1. Len(requests) \in Nat /\ DOMAIN requests = 1..Len(requests)
    BY <1>1
  <2>2. q = [i \in 1..Len(requests) |-> [requests[i] EXCEPT !.sent = TRUE]]
    BY <1>3, <2>1
  <2>3. \A i \in 1..Len(requests) : q[i].last = requests[i].last
    <3>1. \A i \in 1..Len(requests) : requests[i] \in Request
      BY <1>1
    <3> QED
      BY <2>2, <3>1 DEF Request
  <2>4. DOMAIN q = 1..Len(requests) /\ Len(q) = Len(requests)
    BY <2>1, <2>2
  <2>5. requests = <<>> => q = <<>>
    BY <2>1, <2>2
  <2> QED
    BY <1>2, <2>1, <2>3, <2>4, <2>5 DEF requests
<1>4. CASE q \in Withdrawn(requests) /\ unsent = {}
  <2>1. q = requests
    BY <1>4 DEF Withdrawn
  <2> QED
    BY <1>2, <2>1
<1>5. CASE q \in Withdrawn(requests) /\ unsent # {}
  <2>1. PICK k \in unsent :
          q = SubSeq(requests, 1, k - 1) \o SubSeq(requests, k + 1, Len(requests))
    BY <1>5 DEF Withdrawn
  <2>2. k \in 1..Len(requests) /\ requests # <<>>
    BY <1>1
  <2> HIDE DEF requests, unsent
  <2> DEFINE r == SubSeq(requests, 1, k - 1) \o SubSeq(requests, k + 1, Len(requests))
  <2>3. \A i \in DOMAIN r :
          \E j \in DOMAIN requests : r[i] = requests[j] /\ (j = Len(requests) => i = Len(r))
    BY <1>1, <2>2, WithoutOne
  <2>4. q = r
    BY <2>1
  <2> HIDE DEF r
  <2> QED
    BY <1>2, <2>2, <2>3, <2>4 DEF requests
<1> QED
  BY <1>3, <1>4, <1>5

LEMMA LastStep == TypeInv /\ LastIsLast /\ [Next]_vars => LastIsLast'
<1> SUFFICES ASSUME TypeInv, LastIsLast, [Next]_vars PROVE LastIsLast'
  OBVIOUS
<1> USE DEF TypeInv
<1>1. ASSUME flights' = flights PROVE LastIsLast'
  BY <1>1 DEF LastIsLast
<1>2. ASSUME NEW s \in States, NEW expireNow \in BOOLEAN, NEW sent \in BOOLEAN,
             setForResend(s, expireNow, sent)
      PROVE  LastIsLast'
  <2>1. /\ \A u \in States \ {s} : flights'[u] = flights[u]
        /\ flights[s] \in Seq(Request) /\ flights'[s] \in Seq(Request)
        /\ Len(flights'[s]) = Len(flights[s]) + 1
        /\ \A i \in DOMAIN flights[s] : ~flights'[s][i].last
    BY <1>2, SetForResendFacts DEF TypeOK
  <2>2. \A i \in DOMAIN flights'[s] : i \in DOMAIN flights[s] \/ i = Len(flights'[s])
    BY <2>1
  <2> QED
    BY <2>1, <2>2 DEF LastIsLast
<1>3. ASSUME NEW s \in States, SendInitial(s) PROVE LastIsLast'
  BY <1>1, <1>2, <1>3 DEF SendInitial
<1>4. ASSUME NEW s \in States, stopRefresh(s) PROVE LastIsLast'
  <2>1. setForResend(s, TRUE, TRUE) \/ flights' = flights
    BY <1>4 DEF stopRefresh
  <2> QED
    BY <1>1, <1>2, <2>1
<1>5. CASE Refresh
  <2>1. Head(queue).state \in States /\ setForResend(Head(queue).state, FALSE, FALSE)
    BY <1>5, ReceivesFacts DEF Refresh, Message
  <2> QED
    BY <1>2, <2>1
<1>6. CASE SendRefresh
  <2>1. PICK q \in {[i \in DOMAIN flights[sending] |-> [flights[sending][i] EXCEPT !.sent = TRUE]]}
                    \cup Withdrawn(flights[sending]) :
              flights' = [flights EXCEPT ![sending] = q]
    BY <1>6 DEF SendRefresh
  <2>2. sending \in States
    BY <1>6 DEF SendRefresh, TypeOK
  <2>3. \A i \in DOMAIN q : q[i].last => i = Len(q)
    BY <2>1, <2>2, SentLast
  <2>4. flights'[sending] = q /\ \A u \in States \ {sending} : flights'[u] = flights[u]
    BY <2>1, <2>2 DEF TypeOK
  <2> QED
    BY <2>3, <2>4 DEF LastIsLast
<1>7. ASSUME NEW s \in States, Serve(s) PROVE LastIsLast'
  <2> DEFINE q == flights[s]
  <2>1. PICK i \in 1..Len(q) : flights' = [flights EXCEPT ![s] = SubSeq(q, i + 1, Len(q))]
    BY <1>7, ServeFacts
  <2> DEFINE rest == SubSeq(q, i + 1, Len(q))
  <2>2. q \in Seq(Request) /\ \A j \in DOMAIN q : q[j].last => j = Len(q)
    BY DEF LastIsLast, TypeOK
  <2>3. flights'[s] = rest /\ \A u \in States \ {s} : flights'[u] = flights[u]
    BY <2>1 DEF TypeOK
  <2> HIDE DEF q
  <2>4. /\ Len(q) \in Nat /\ Len(rest) = Len(q) - i /\ DOMAIN rest = 1..(Len(q) - i)
        /\ \A j \in 1..(Len(q) - i) : i + j \in DOMAIN q /\ rest[j] = q[i + j]
    <3>1. Len(q) \in Nat /\ DOMAIN q = 1..Len(q) /\ i \in 1..Len(q)
      BY <2>2 DEF q
    <3>2. /\ rest \in Seq(Request) /\ Len(rest) = Len(q) - i
          /\ \A j \in 1..(Len(q) - i) : rest[j] = q[i + j]
      BY <2>2, <3>1, RestAfter
    <3> HIDE DEF rest
    <3> QED
      BY <3>1, <3>2
  <2> HIDE DEF rest
  <2>5. \A j \in DOMAIN rest : rest[j].last => j = Len(rest)
    BY <2>2, <2>4
  <2> QED
    BY <2>3, <2>5 DEF LastIsLast
<1> QED
  BY <1>1, <1>3, <1>4, <1>5, <1>6, <1>7
  DEF Next, handleMessage, vars, servers, initiateRefresh, InitialFailed, IgnoreTimer, Reschedule,
      IgnoreResponse, RequestSucceeded, RequestFailed, TimerFires, Tick

LEMMA FirstStep == TypeInv /\ InitialIsFirst /\ AnswersHold /\ [Next]_vars => InitialIsFirst'
<1> SUFFICES ASSUME TypeInv, InitialIsFirst, AnswersHold, [Next]_vars PROVE InitialIsFirst'
  OBVIOUS
<1> USE DEF TypeInv
<1>a. /\ initiating \in [States -> {"idle", "send", "failed"}] /\ mRefreshes \subseteq States
      /\ mRequestState \in [States -> {"UNKNOWN", "PENDING", "FAILED", "SUCCEEDED"}]
      /\ flights \in [States -> Seq(Request)]
  BY DEF TypeOK
<1>1. ASSUME UNCHANGED <<initiating, mRequestState, flights>> PROVE InitialIsFirst'
  BY <1>1 DEF InitialIsFirst
<1>2. ASSUME NEW s \in States, initiating'[s] # "send",
             \A u \in States \ {s} : /\ initiating'[u] = initiating[u] /\ flights'[u] = flights[u]
                                     /\ mRequestState'[u] = mRequestState[u]
      PROVE  InitialIsFirst'
  BY <1>2 DEF InitialIsFirst
<1>3. ASSUME NEW s \in States, initiateRefresh(s) PROVE InitialIsFirst'
  <2>1. /\ flights[s] = <<>> /\ flights' = flights
        /\ initiating' = [initiating EXCEPT ![s] = "send"]
        /\ mRequestState' = [mRequestState EXCEPT ![s] = "PENDING"]
    BY <1>3 DEF initiateRefresh, servers
  <2> QED
    BY <1>a, <2>1 DEF InitialIsFirst
<1>4. ASSUME NEW s \in States, SendInitial(s) PROVE InitialIsFirst'
  <2>1. /\ initiating' \in {[initiating EXCEPT ![s] = "idle"], [initiating EXCEPT ![s] = "failed"]}
        /\ mRequestState' = mRequestState
    BY <1>4 DEF SendInitial, fields
  <2>2. \A u \in States \ {s} : flights'[u] = flights[u]
    BY <1>4, SetForResendFacts DEF SendInitial
  <2> QED
    BY <1>a, <1>2, <2>1, <2>2
<1>5. ASSUME NEW s \in States, InitialFailed(s) PROVE InitialIsFirst'
  <2>1. /\ initiating' = [initiating EXCEPT ![s] = "idle"] /\ flights' = flights
        /\ mRequestState' = [mRequestState EXCEPT ![s] = "FAILED"]
    BY <1>5 DEF InitialFailed, servers
  <2> QED
    BY <1>a, <1>2, <2>1
<1>6. ASSUME NEW s \in States, stopRefresh(s) PROVE InitialIsFirst'
  <2>1. /\ initiating[s] = "idle" /\ initiating' = initiating
        /\ mRequestState' = [mRequestState EXCEPT ![s] = "UNKNOWN"]
    BY <1>6 DEF stopRefresh, starts
  <2>2. setForResend(s, TRUE, TRUE) \/ flights' = flights
    BY <1>6 DEF stopRefresh
  <2>3. \A u \in States \ {s} : flights'[u] = flights[u]
    BY <2>2, SetForResendFacts
  <2> QED
    BY <1>a, <1>2, <2>1, <2>3
<1>7. CASE Refresh
  <2> DEFINE s == Head(queue).state
  <2>1. s \in States /\ setForResend(s, FALSE, FALSE)
    BY <1>7, ReceivesFacts DEF Refresh, Message
  <2>2. mRequestState[s] # "PENDING" /\ UNCHANGED <<initiating, mRequestState>>
    BY <1>7 DEF Refresh
  <2>3. initiating[s] # "send"
    BY <2>1, <2>2 DEF InitialIsFirst
  <2> HIDE DEF s
  <2>4. \A u \in States \ {s} : flights'[u] = flights[u]
    BY <2>1, SetForResendFacts
  <2> QED
    BY <1>2, <2>1, <2>2, <2>3, <2>4
<1>8. CASE SendRefresh
  <2>1. UNCHANGED <<initiating, mRequestState>> /\ sending \in States
    BY <1>8 DEF SendRefresh, fields, starts, TypeOK
  <2>2. CASE initiating[sending] = "send"
    <3>1. flights[sending] = <<>> /\ Withdrawn(<<>>) = {<<>>}
      BY <2>1, <2>2 DEF InitialIsFirst, Withdrawn
    <3>2. PICK q \in {[i \in DOMAIN flights[sending] |-> [flights[sending][i] EXCEPT !.sent = TRUE]]}
                    \cup Withdrawn(flights[sending]) :
              flights' = [flights EXCEPT ![sending] = q]
      BY <1>8 DEF SendRefresh
    <3>3. q = <<>>
      BY <3>1, <3>2
    <3> QED
      BY <1>a, <2>1, <3>1, <3>2, <3>3 DEF InitialIsFirst
  <2>3. CASE initiating[sending] # "send"
    <3>1. \A u \in States \ {sending} : flights'[u] = flights[u]
      BY <1>a, <1>8 DEF SendRefresh
    <3> QED
      BY <1>2, <2>1, <2>3, <3>1
  <2> QED
    BY <2>2, <2>3
<1>9. CASE RequestSucceeded \/ RequestFailed
  <2> DEFINE s == Head(queue).state
  <2>1. /\ Receives({"success", "failure"}) /\ Head(queue).last
        /\ UNCHANGED <<initiating, flights>>
        /\ \E r \in {"SUCCEEDED", "FAILED"} : mRequestState' = [mRequestState EXCEPT ![s] = r]
    BY <1>9 DEF RequestSucceeded, RequestFailed, Receives, starts, servers
  <2>2. /\ Head(queue) = queue[1] /\ 1 \in DOMAIN queue /\ s \in States
        /\ Head(queue).kind \in {"success", "failure"}
    BY <2>1, ReceivesFacts DEF Message
  <2>3. initiating[s] # "send"
    BY <2>1, <2>2 DEF AnswersHold, LastAnswer, Holds
  <2> HIDE DEF s
  <2> QED
    BY <1>a, <1>2, <2>1, <2>2, <2>3
<1>10. ASSUME NEW s \in States, Serve(s) PROVE InitialIsFirst'
  <2>1. PICK i \in 1..Len(flights[s]) :
          flights' = [flights EXCEPT ![s] = SubSeq(flights[s], i + 1, Len(flights[s]))]
    BY <1>10, ServeFacts
  <2>2. UNCHANGED <<initiating, mRequestState>>
    BY <1>10 DEF Serve, fields, starts
  <2>3. flights[s] # <<>>
    BY <2>1
  <2>4. initiating[s] # "send"
    BY <2>3 DEF InitialIsFirst
  <2> QED
    BY <1>a, <1>2, <2>1, <2>2, <2>4
<1> QED
  BY <1>1, <1>3, <1>4, <1>5, <1>6, <1>7, <1>8, <1>9, <1>10
  DEF Next, handleMessage, vars, fields, starts, servers, IgnoreTimer, Reschedule, setRefreshTimer,
      IgnoreResponse, TimerFires, Tick

LEMMA AnswersStep ==
  TypeInv /\ LastIsLast /\ InitialIsFirst /\ AnswersHold /\ [Next]_vars => AnswersHold'
<1> SUFFICES ASSUME TypeInv, LastIsLast, InitialIsFirst, AnswersHold, [Next]_vars
             PROVE  AnswersHold'
  OBVIOUS
<1> USE DEF TypeInv
<1>a. /\ queue \in Seq(Message) /\ mRefreshes \subseteq States /\ Longest \in Nat
      /\ age \in [States -> 0..Longest] /\ binding \in [States -> 0..Longest]
      /\ initiating \in [States -> {"idle", "send", "failed"}]
  BY GrantedAssumption DEF TypeOK
<1>b. Inherited(queue)
  BY DEF Inherited
<1>c. ASSUME NEW s \in States, NEW kind \in {"timer", "interrupted"}
      PROVE  Event(kind, s) \in Message /\ ~LastAnswer(Event(kind, s))
  BY <1>c, GrantedAssumption DEF Event, Message, LastAnswer
<1>d. ASSUME UNCHANGED <<mRefreshes, flights, initiating, age, binding>>, NEW s PROVE Keeps(s)
  BY <1>d DEF Keeps
<1>0. CASE UNCHANGED vars
  BY <1>0 DEF vars, fields, starts, servers, AnswersHold, Holds
<1>1. ASSUME NEW s \in States, initiateRefresh(s) PROVE AnswersHold'
  <2>1. /\ s \notin mRefreshes /\ mRefreshes' = mRefreshes \cup {s}
        /\ age' = [age EXCEPT ![s] = 0] /\ initiating' = [initiating EXCEPT ![s] = "send"]
        /\ UNCHANGED <<queue, flights, binding>>
    BY <1>1 DEF initiateRefresh, servers
  <2>2. ASSUME NEW u PROVE Keeps(u)
    BY <1>a, <2>1 DEF Keeps
  <2> QED
    BY <1>b, <2>1, <2>2, AnswersKept
<1>2. ASSUME NEW s \in States, SendInitial(s) PROVE AnswersHold'
  <2>1. /\ initiating[s] = "send" /\ UNCHANGED <<mRefreshes, age, binding, queue>>
        /\ initiating' \in {[initiating EXCEPT ![s] = "idle"], [initiating EXCEPT ![s] = "failed"]}
    BY <1>2 DEF SendInitial, fields
  <2>2. \A u \in States \ {s} : flights'[u] = flights[u]
    BY <1>2, SetForResendFacts DEF SendInitial
  <2>3. ASSUME NEW u PROVE Keeps(u)
    BY <1>a, <2>1, <2>2 DEF Keeps
  <2> QED
    BY <1>b, <2>1, <2>3, AnswersKept
<1>3. ASSUME NEW s \in States, InitialFailed(s) PROVE AnswersHold'
  <2>1. /\ queue' \in {queue, Append(queue, Event("interrupted", s))}
        /\ initiating' = [initiating EXCEPT ![s] = "idle"]
        /\ UNCHANGED <<mRefreshes, flights, age, binding>>
    BY <1>3 DEF InitialFailed, servers
  <2>2. Inherited(queue')
    BY <1>a, <1>b, <1>c, <2>1, InheritedAppend
  <2>3. ASSUME NEW u PROVE Keeps(u)
    BY <1>a, <2>1 DEF Keeps
  <2> QED
    BY <2>2, <2>3, AnswersKept
<1>4. ASSUME NEW s \in States, stopRefresh(s) PROVE AnswersHold'
  <2>1. /\ mRefreshes' = mRefreshes \ {s} /\ queue' = Overtaken(queue, s)
        /\ UNCHANGED <<age, binding, initiating>>
    BY <1>4 DEF stopRefresh, starts
  <2>2. setForResend(s, TRUE, TRUE) \/ flights' = flights
    BY <1>4 DEF stopRefresh
  <2>3. \A u \in States \ {s} : flights'[u] = flights[u]
    BY <2>2, SetForResendFacts
  <2>4. Inherited(queue') /\ \A i \in DOMAIN queue' : LastAnswer(queue'[i]) => queue'[i].state # s
    BY <1>a, <1>b, <2>1, InheritedOvertaken
  <2>5. ASSUME NEW u, u # s PROVE Keeps(u)
    BY <1>a, <2>1, <2>3, <2>5 DEF Keeps
  <2> QED
    BY <2>4, <2>5, AnswersKept
<1>5. CASE IgnoreTimer \/ IgnoreResponse \/ Reschedule \/ RequestSucceeded
  <2>1. /\ Receives({"timer", "interrupted"}) \/ Receives({"success", "failure"})
        /\ queue' = Tail(queue)
        /\ UNCHANGED <<mRefreshes, flights, initiating, age, binding>>
    BY <1>5 DEF IgnoreTimer, IgnoreResponse, Reschedule, RequestSucceeded, Receives, fields, starts,
                servers
  <2>2. Inherited(queue')
    BY <2>1, InheritedTail
  <2> QED
    BY <1>d, <2>1, <2>2, AnswersKept
<1>6. CASE RequestFailed
  <2>1. /\ Receives({"failure"}) /\ queue' = Append(Tail(queue), Event("interrupted", Head(queue).state))
        /\ UNCHANGED <<mRefreshes, flights, initiating, age, binding>>
    BY <1>6 DEF RequestFailed, starts, servers
  <2>2. Head(queue).state \in States /\ Tail(queue) \in Seq(Message) /\ Inherited(Tail(queue))
    BY <2>1, ReceivesFacts, InheritedTail DEF Message
  <2>3. Inherited(queue')
    BY <1>c, <2>1, <2>2, InheritedAppend
  <2> QED
    BY <1>d, <2>1, <2>3, AnswersKept
<1>7. CASE Refresh
  <2> DEFINE s == Head(queue).state
  <2>1. /\ Receives({"timer"}) /\ queue' = Overtaken(Tail(queue), s)
        /\ setForResend(s, FALSE, FALSE) /\ age' = [age EXCEPT ![s] = 0]
        /\ UNCHANGED <<mRefreshes, initiating, binding>>
    BY <1>7 DEF Refresh
  <2>2. s \in States /\ Tail(queue) \in Seq(Message) /\ Inherited(Tail(queue))
    BY <2>1, ReceivesFacts, InheritedTail DEF Message
  <2>3. Inherited(queue') /\ \A i \in DOMAIN queue' : LastAnswer(queue'[i]) => queue'[i].state # s
    BY <2>1, <2>2, InheritedOvertaken
  <2> HIDE DEF s
  <2>4. \A u \in States \ {s} : flights'[u] = flights[u]
    BY <2>1, <2>2, SetForResendFacts
  <2>5. ASSUME NEW u, u # s PROVE Keeps(u)
    BY <1>a, <2>1, <2>4, <2>5 DEF Keeps
  <2> QED
    BY <2>3, <2>5, AnswersKept
<1>8. CASE SendRefresh
  <2>1. UNCHANGED <<mRefreshes, initiating, age, binding, queue>> /\ sending \in States
    BY <1>8 DEF SendRefresh, fields, starts, TypeOK
  <2>2. PICK q \in {[i \in DOMAIN flights[sending] |-> [flights[sending][i] EXCEPT !.sent = TRUE]]}
                    \cup Withdrawn(flights[sending]) :
              flights' = [flights EXCEPT ![sending] = q]
    BY <1>8 DEF SendRefresh
  <2>3. flights[sending] = <<>> => q = <<>>
    BY <2>1, <2>2, SentLast
  <2>4. flights'[sending] = q /\ \A u \in States \ {sending} : flights'[u] = flights[u]
    BY <2>1, <2>2 DEF TypeOK
  <2>5. ASSUME NEW u PROVE Keeps(u)
    BY <1>a, <2>1, <2>3, <2>4 DEF Keeps
  <2> QED
    BY <1>b, <2>1, <2>5, AnswersKept
<1>9. ASSUME NEW s \in States, TimerFires(s) PROVE AnswersHold'
  <2>1. /\ queue' = Append(queue, Event("timer", s))
        /\ UNCHANGED <<mRefreshes, flights, initiating, age, binding>>
    BY <1>9 DEF TimerFires, fields, starts, servers
  <2>2. Inherited(queue')
    BY <1>a, <1>b, <1>c, <2>1, InheritedAppend
  <2> QED
    BY <1>d, <2>1, <2>2, AnswersKept
<1>10. ASSUME NEW s \in States, Serve(s) PROVE AnswersHold'
  <2> DEFINE q == flights[s]
  <2>1. PICK i \in 1..Len(q), ticks \in 0..Longest, m \in Message :
          /\ flights' = [flights EXCEPT ![s] = SubSeq(q, i + 1, Len(q))]
          /\ binding' = [binding EXCEPT ![s] = ticks]
          /\ \/ queue' = queue
             \/ q[i].last /\ s \in mRefreshes /\ queue' = Append(queue, m)
          /\ m.state = s /\ m.kind \in {"success", "failure"}
          /\ m.kind = "success" /\ m.granted # None => m.granted = ticks
    BY <1>10, ServeFacts
  <2>2. UNCHANGED <<mRefreshes, initiating, age>>
    BY <1>10 DEF Serve, fields, starts
  <2>3. q \in Seq(Request) /\ q # <<>>
    BY <2>1 DEF TypeOK
  <2>4. ASSUME NEW u PROVE Keeps(u)
    BY <1>a, <2>1, <2>2, <2>3 DEF Keeps, TypeOK
  <2>5. CASE queue' = queue
    BY <1>b, <2>4, <2>5, AnswersKept
  <2>6. CASE q[i].last /\ s \in mRefreshes /\ queue' = Append(queue, m)
    <3>1. Holds(m)'
      <4>1. i = Len(q)
        BY <2>3, <2>6 DEF LastIsLast
      <4>2. flights'[s] = <<>>
        <5>1. flights'[s] = SubSeq(q, i + 1, Len(q))
          BY <2>1 DEF TypeOK
        <5> HIDE DEF q
        <5> QED
          BY <2>3, <4>1, <5>1
      <4>3. initiating[s] # "send"
        BY <2>3 DEF InitialIsFirst
      <4>4. binding'[s] = ticks /\ age'[s] \in Nat
        BY <1>a, <2>1, <2>2
      <4> HIDE DEF q
      <4> QED
        BY <2>1, <2>2, <2>6, <4>2, <4>3, <4>4 DEF Holds
    <3>2. \A j \in DOMAIN queue' : queue'[j] = m \/ (j \in DOMAIN queue /\ queue'[j] = queue[j])
      <4>1. /\ queue' \in Seq(Message) /\ Len(queue') = Len(queue) + 1 /\ queue'[Len(queue) + 1] = m
            /\ \A j \in 1..Len(queue) : queue'[j] = queue[j]
        BY <1>a, <2>6, AppendProperties
      <4> QED
        BY <1>a, <4>1
    <3>3. ASSUME NEW j \in DOMAIN queue, LastAnswer(queue[j]) PROVE Holds(queue[j]) /\ Keeps(queue[j].state)
      BY <2>4, <3>3 DEF AnswersHold
    <3> SUFFICES ASSUME NEW j \in DOMAIN queue', LastAnswer(queue'[j]) PROVE Holds(queue[j])'
      BY DEF AnswersHold, LastAnswer
    <3> HIDE DEF q
    <3>4. CASE queue'[j] = m
      BY <3>1, <3>4 DEF Holds
    <3>5. CASE j \in DOMAIN queue /\ queue'[j] = queue[j]
      <4>1. Holds(queue[j]) /\ Keeps(queue[j].state)
        BY <3>3, <3>5 DEF LastAnswer
      <4> QED
        BY <3>5, <4>1 DEF Holds, Keeps
    <3> QED
      BY <3>2, <3>4, <3>5
  <2> HIDE DEF q
  <2> QED
    BY <2>1, <2>5, <2>6
<1>11. CASE Tick
  <2>1. /\ binding' = [s \in States |-> MaxOf(0, binding[s] - 1)]
        /\ age' = [s \in States |-> IF age[s] < Longest THEN age[s] + 1 ELSE age[s]]
        /\ UNCHANGED <<mRefreshes, initiating, queue, flights>>
    BY <1>11 DEF Tick, starts
  <2> SUFFICES ASSUME NEW i \in DOMAIN queue, LastAnswer(queue[i]) PROVE Holds(queue[i])'
    BY <2>1 DEF AnswersHold, LastAnswer
  <2> DEFINE s == queue[i].state
             g == queue[i].granted
  <2>2. Holds(queue[i]) /\ queue[i] \in Message
    BY <1>a DEF AnswersHold
  <2>3. s \in States /\ g \in (0..Longest) \cup {None}
    BY <2>2 DEF Message
  <2>4. ASSUME g # None, g - age[s] <= binding[s] PROVE g - age'[s] <= binding'[s]
    <3> HIDE DEF s, g
    <3>1. age[s] \in 0..Longest /\ binding[s] \in 0..Longest /\ g \in 0..Longest
      BY <1>a, <2>3, <2>4
    <3>2. /\ age'[s] = IF age[s] < Longest THEN age[s] + 1 ELSE age[s]
          /\ binding'[s] = MaxOf(0, binding[s] - 1)
      BY <2>1, <2>3
    <3> QED
      BY <1>a, <2>4, <3>1, <3>2 DEF MaxOf
  <2> QED
    BY <2>1, <2>2, <2>4 DEF Holds
<1> QED
  BY <1>0, <1>1, <1>2, <1>3, <1>4, <1>5, <1>6, <1>7, <1>8, <1>9, <1>10, <1>11
  DEF Next, handleMessage

LEMMA SafeStep == TypeInv /\ SafeInv /\ [Next]_vars => SafeInv'
<1> QED
  BY LastStep, FirstStep, AnswersStep DEF SafeInv

\* A step that tells the application nothing new.
LEMMA NothingTold ==
  ASSUME \A s \in mRefreshes : mExpiration[s] \in Int /\ mExpiration'[s] \in Int
                               /\ mExpiration'[s] <= mExpiration[s] /\ ~Hears(s)
  PROVE  ToldSafely
<1> SUFFICES ASSUME NEW s \in mRefreshes PROVE ~(Hears(s) \/ mExpiration'[s] > mExpiration[s])
  BY DEF ToldSafely
<1> QED
  OBVIOUS

LEMMA ToldStep == Inv /\ [Next]_vars => [ToldSafely]_vars
<1> SUFFICES ASSUME Inv, Next PROVE ToldSafely
  OBVIOUS
<1>a. /\ queue \in Seq(Message) /\ mRefreshes \subseteq States
      /\ mExpiration \in [States -> 0..Longest] /\ Longest \in Nat
  BY GrantedAssumption DEF Inv, TypeInv, TypeOK
<1>b. ASSUME \A s \in mRefreshes : mExpiration'[s] \in Int /\ mExpiration'[s] <= mExpiration[s],
             queue' \in Seq(Message), Len(queue') >= Len(queue)
      PROVE  ToldSafely
  <2>1. ASSUME NEW s PROVE ~Hears(s)
    <3>1. ~(Len(queue') < Len(queue))
      BY <1>a, <1>b
    <3> QED
      BY <3>1 DEF Hears
  <2> QED
    BY <1>a, <1>b, <2>1, NothingTold
<1>c. ASSUME mExpiration' = mExpiration, \A s \in mRefreshes : ~Hears(s) PROVE ToldSafely
  BY <1>a, <1>c, NothingTold
<1>d. ASSUME mExpiration' = mExpiration, NEW m \in Message, queue' \in {queue, Append(queue, m)}
      PROVE  ToldSafely
  <2>1. queue' \in Seq(Message) /\ Len(queue') >= Len(queue)
    <3>1. Append(queue, m) \in Seq(Message) /\ Len(Append(queue, m)) = Len(queue) + 1
      BY <1>a, AppendProperties
    <3>2. Len(queue) \in Nat
      BY <1>a
    <3> QED
      BY <1>a, <1>d, <3>1, <3>2
  <2> QED
    BY <1>a, <1>b, <1>d, <2>1
<1>e. ASSUME NEW s \in States, NEW kind \in {"timer", "interrupted"} PROVE Event(kind, s) \in Message
  BY <1>e, GrantedAssumption DEF Event, Message
<1>1. ASSUME NEW s \in States, initiateRefresh(s) PROVE ToldSafely
  <2>1. /\ s \notin mRefreshes /\ queue' = queue
        /\ mExpiration' = [mExpiration EXCEPT ![s] = 0]
    BY <1>1 DEF initiateRefresh
  <2>2. \A u \in mRefreshes : mExpiration'[u] \in Int /\ mExpiration'[u] <= mExpiration[u]
    BY <1>a, <2>1
  <2>3. queue' \in Seq(Message) /\ Len(queue') >= Len(queue)
    BY <1>a, <2>1
  <2> QED
    BY <1>b, <2>2, <2>3
<1>2. ASSUME NEW s \in States, SendInitial(s) PROVE ToldSafely
  <2>1. mExpiration' = mExpiration /\ queue' = queue
    BY <1>2 DEF SendInitial, fields
  <2> QED
    BY <1>d, <1>e, <2>1
<1>3. ASSUME NEW s \in States, InitialFailed(s) PROVE ToldSafely
  <2>1. mExpiration' = mExpiration /\ queue' \in {queue, Append(queue, Event("interrupted", s))}
    BY <1>3 DEF InitialFailed
  <2> QED
    BY <1>d, <1>e, <2>1
<1>4. ASSUME NEW s \in States, stopRefresh(s) PROVE ToldSafely
  <2>1. /\ queue' = Overtaken(queue, s) /\ mExpiration' = [mExpiration EXCEPT ![s] = 0]
    BY <1>4 DEF stopRefresh
  <2>2. \A u \in mRefreshes : mExpiration'[u] \in Int /\ mExpiration'[u] <= mExpiration[u]
    BY <1>a, <2>1
  <2>3. queue' \in Seq(Message) /\ DOMAIN queue' = DOMAIN queue
    BY <1>a, <2>1, OvertakenFacts
  <2>4. Len(queue') >= Len(queue)
    <3>1. 1..Len(queue') = 1..Len(queue) /\ Len(queue') \in Nat /\ Len(queue) \in Nat
      BY <1>a, <2>3
    <3> HIDE <2>3
    <3>2. Len(queue) > 0 => Len(queue) \in 1..Len(queue')
      BY <3>1
    <3> QED
      BY <3>1, <3>2
  <2> QED
    BY <1>b, <2>2, <2>3, <2>4
<1>5. CASE IgnoreTimer \/ Reschedule \/ Refresh
  <2>1. mExpiration' = mExpiration /\ Receives({"timer", "interrupted"})
    BY <1>5 DEF IgnoreTimer, Reschedule, Refresh, Receives, fields
  <2>2. \A s \in mRefreshes : ~Hears(s)
    BY <2>1 DEF Receives, Hears
  <2> QED
    BY <1>c, <2>1, <2>2
<1>6. CASE SendRefresh
  <2>1. mExpiration' = mExpiration /\ queue' = queue
    BY <1>6 DEF SendRefresh, fields
  <2>2. \A s \in mRefreshes : ~Hears(s)
    BY <1>a, <2>1 DEF Hears
  <2> QED
    BY <1>c, <2>1, <2>2
<1>7. CASE IgnoreResponse
  <2>1. mExpiration' = mExpiration /\ \A s \in mRefreshes : ~Hears(s)
    BY <1>7 DEF IgnoreResponse, Hears, fields
  <2> QED
    BY <1>c, <2>1
<1>8. CASE RequestFailed
  <2>1. mExpiration' = mExpiration /\ \A s \in mRefreshes : ~Hears(s)
    BY <1>8 DEF RequestFailed, Receives, Hears
  <2> QED
    BY <1>c, <2>1
<1>9. CASE RequestSucceeded
  <2> DEFINE u == Head(queue).state
             g == Head(queue).granted
  <2>1. /\ Receives({"success"}) /\ Head(queue).last /\ u \in mRefreshes
        /\ mExpiration' = [mExpiration EXCEPT ![u] = MaxOf(0, Accepted(g) - age[u])]
        /\ UNCHANGED binding
    BY <1>9 DEF RequestSucceeded, servers
  <2>2. /\ Head(queue) \in Message /\ Head(queue) = queue[1] /\ 1 \in DOMAIN queue
        /\ Head(queue).kind \in {"success"}
    BY <2>1, ReceivesFacts DEF Inv, TypeInv
  <2>3. g # None => g - age[u] <= binding[u]
    BY <2>1, <2>2 DEF Inv, SafeInv, AnswersHold, LastAnswer, Holds
  <2>4. u \in States /\ g \in (0..Longest) \cup {None}
    BY <2>2 DEF Message
  <2> SUFFICES ASSUME NEW s \in mRefreshes, g # None, Hears(s) \/ mExpiration'[s] > mExpiration[s]
               PROVE  mExpiration'[s] <= binding[s]
    BY DEF ToldSafely
  <2>5. s = u
    <3>1. CASE Hears(s)
      BY <3>1 DEF Hears
    <3>2. CASE mExpiration'[s] > mExpiration[s]
      <4> SUFFICES ASSUME s # u PROVE FALSE
        OBVIOUS
      <4>1. mExpiration'[s] = mExpiration[s] /\ mExpiration[s] \in Int
        BY <1>a, <2>1
      <4> QED
        BY <3>2, <4>1
    <3> QED
      BY <3>1, <3>2
  <2>6. mExpiration'[u] = MaxOf(0, g - age[u])
    BY <1>a, <2>1, <2>4 DEF Accepted
  <2>7. age[u] \in Int /\ binding[u] \in Nat
    BY <1>a, <2>4 DEF Inv, TypeInv, TypeOK
  <2> HIDE DEF u, g
  <2> QED
    BY <1>a, <2>3, <2>4, <2>5, <2>6, <2>7 DEF MaxOf
<1>10. ASSUME NEW s \in States, TimerFires(s) PROVE ToldSafely
  <2>1. mExpiration' = mExpiration /\ queue' \in {queue, Append(queue, Event("timer", s))}
    BY <1>10 DEF TimerFires, fields
  <2> QED
    BY <1>d, <1>e, <2>1
<1>11. ASSUME NEW s \in States, Serve(s) PROVE ToldSafely
  <2>1. mExpiration' = mExpiration
    BY <1>11 DEF Serve, fields
  <2>2. TypeOK
    BY DEF Inv, TypeInv
  <2>3. \E m \in Message : queue' \in {queue, Append(queue, m)}
    BY <1>11, <2>2, ServeFacts
  <2> QED
    BY <1>d, <2>1, <2>3
<1>12. CASE Tick
  <2>1. mExpiration' = [s \in States |-> MaxOf(0, mExpiration[s] - 1)] /\ queue' = queue
    BY <1>12 DEF Tick
  <2>2. \A n \in 0..Longest : MaxOf(0, n - 1) \in Int /\ MaxOf(0, n - 1) <= n
    BY <1>a DEF MaxOf
  <2>3. \A s \in mRefreshes : mExpiration'[s] \in Int /\ mExpiration'[s] <= mExpiration[s]
    BY <1>a, <2>1, <2>2
  <2>4. queue' \in Seq(Message) /\ Len(queue') >= Len(queue)
    BY <1>a, <2>1
  <2> QED
    BY <1>b, <2>3, <2>4
<1> QED
  BY <1>1, <1>2, <1>3, <1>4, <1>5, <1>6, <1>7, <1>8, <1>9, <1>10, <1>11, <1>12
  DEF Next, handleMessage

-----------------------------------------------------------------------------
LEMMA NextInv == Inv /\ [Next]_vars => Inv'
<1> QED
  BY TypeStep, GoesOnStep, SafeStep DEF Inv

LEMMA Invariance == Spec => []Inv
<1> QED
  BY InitInv, NextInv, PTL DEF Spec

\* The refreshes, their messages and their requests keep their types, and a
\* request that is not sent yet is of the state that the task sends for
\* (SipRefreshManager::handleMessage, sendRequest).
THEOREM TypeCorrect == Spec => []TypeOK
<1>1. Inv => TypeOK
  BY DEF Inv, TypeInv
<1> QED
  BY <1>1, Invariance, PTL

\* A refresh always has its timer running or an event of it in the queue
\* (SipRefreshManager::handleMessage, stopTimerForFailureReschedule).
THEOREM NothingForgotten == Spec => []RefreshGoesOn
<1>1. Inv => RefreshGoesOn
  BY DEF Inv
<1> QED
  BY <1>1, Invariance, PTL

\* What a 2xx says of the expiration holds when the application is told,
\* whatever the servers grant (SipRefreshManager::handleMessage).
THEOREM NoFalseHope == Spec => ExpirationIsSafe
<1> QED
  BY Invariance, ToldStep, PTL DEF Spec, ExpirationIsSafe
=============================================================================
