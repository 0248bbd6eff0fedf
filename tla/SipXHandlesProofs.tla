-------------------------- MODULE SipXHandlesProofs --------------------------
(* Theorems about SipXHandles, for any number of tasks and calls.             *)
EXTENDS SipXHandles, TLAPS

\* A task that waits for a call's lock keeps the map locked; one that is past
\* the lookup holds the lock, and one that frees the call holds it alone.
LockInv ==
  /\ \A t \in Tasks : fn[t].at = "acquire" => mapOwner = t
  /\ \A t \in Tasks : fn[t].at \in {"locked", "remove"} =>
       IF fn[t].mode = "write" THEN writer[Call(t)] = t ELSE t \in readers[Call(t)]
  /\ \A t \in Tasks : fn[t].at = "remove" => fn[t].mode = "write"
  /\ \A c \in Calls : writer[c] # None => readers[c] = {}
  /\ \A t \in Tasks : fn[t] # Idle => Call(t) \in Calls

Inv == TypeOK /\ LockInv /\ CallDataLives

LEMMA InitInv == Init => Inv
<1> SUFFICES ASSUME Init PROVE Inv
  OBVIOUS
<1>1. TypeOK
  BY DEF Init, TypeOK
<1>2. LockInv /\ CallDataLives
  BY NoneAssumption DEF Init, LockInv, CallDataLives, Idle, Call
<1> QED
  BY <1>1, <1>2 DEF Inv

LEMMA NextInv == Inv /\ [Next]_vars => Inv'
<1> SUFFICES ASSUME Inv, [Next]_vars PROVE Inv'
  OBVIOUS
<1> USE NoneAssumption DEF Inv
<1>0. CASE UNCHANGED vars
  BY <1>0 DEF vars, locks, handles, TypeOK, LockInv, CallDataLives, Call
<1> SUFFICES ASSUME NEW t \in Tasks,
                    \/ Step(t)
                    \/ \E c \in Calls :
                         \/ allocHandle(t, c) \/ sipxCallObjectFree(t, c)
                         \/ \E mode \in Modes : Use(t, c, mode) \/ UseLate(t, c, mode)
                         \/ sipxConferenceSplit(t, c)
                         \/ sipxCallStartTone(t, c) \/ sipxCallStopTone(t, c)
             PROVE  Inv'
  BY <1>0 DEF Next
\* Every function begins in the same way.
<1>1. ASSUME NEW c \in Calls, NEW what \in Doing, NEW mode \in Modes,
             Begin(t, what, c, mode), UNCHANGED <<locks, handles, tonePlaying>>
      PROVE  Inv'
  <2>1. /\ fn' = [fn EXCEPT ![t] = [at |-> "lookup", what |-> what, call |-> c, mode |-> mode]]
        /\ fn[t] = Idle
    BY <1>1 DEF Begin
  <2>2. TypeOK'
    BY <1>1, <2>1 DEF TypeOK, locks, handles, Places
  <2>3. LockInv' /\ CallDataLives'
    BY <1>1, <2>1 DEF TypeOK, LockInv, CallDataLives, Call, locks, handles, Idle
  <2> QED
    BY <2>2, <2>3
<1>2. ASSUME NEW c \in Calls, allocHandle(t, c) PROVE Inv'
  <2>1. TypeOK'
    BY <1>2 DEF allocHandle, TypeOK, locks
  <2>2. LockInv' /\ CallDataLives'
    BY <1>2 DEF allocHandle, TypeOK, LockInv, CallDataLives, Call, locks
  <2> QED
    BY <2>1, <2>2
<1>3. CASE findHandle(t)
  <2>1. TypeOK'
    <3>1. \/ fn' = [fn EXCEPT ![t] = [@ EXCEPT !.at = "acquire"]]
          \/ fn' = [fn EXCEPT ![t] = Idle]
      BY <1>3 DEF findHandle, Goto
    <3>2. fn[t].at = "lookup" /\ mapOwner' \in {mapOwner, t} /\ tonePlaying' \in BOOLEAN
      BY <1>3 DEF findHandle, Goto, TypeOK
    <3>3. UNCHANGED <<readers, writer, leaked, handles>>
      BY <1>3 DEF findHandle
    <3> QED
      BY <3>1, <3>2, <3>3 DEF TypeOK, Places, handles, Idle
  <2>2. CASE Call(t) \in inMap
    <3>1. /\ fn' = [fn EXCEPT ![t] = [@ EXCEPT !.at = "acquire"]]
          /\ mapOwner = None /\ mapOwner' = t
          /\ UNCHANGED <<readers, writer, inMap, deleted>>
          /\ fn[t].at = "lookup"
      BY <1>3, <2>2 DEF findHandle, Goto, handles
    <3> QED
      BY <2>1, <2>2, <3>1 DEF TypeOK, LockInv, CallDataLives, Call, Idle
  <2>3. CASE Call(t) \notin inMap
    <3>1. /\ fn' = [fn EXCEPT ![t] = Idle]
          /\ UNCHANGED <<mapOwner, readers, writer, inMap, deleted>>
      BY <1>3, <2>3 DEF findHandle, Goto, handles
    <3> QED
      BY <2>1, <3>1 DEF TypeOK, LockInv, CallDataLives, Call, Idle
  <2> QED
    BY <2>1, <2>2, <2>3
<1>4. CASE acquire(t)
  <2>1. TypeOK'
    BY <1>4 DEF acquire, Goto, TypeOK, Places, handles, Call, Idle, Modes
  <2>2. LockInv'
    BY <1>4 DEF acquire, Goto, TypeOK, LockInv, CallDataLives, Call, handles, Idle, Modes
  <2>3. CallDataLives'
    BY <1>4 DEF acquire, Goto, TypeOK, LockInv, CallDataLives, Call, handles, Idle, Modes
  <2> QED
    BY <2>1, <2>2, <2>3
<1>5. CASE sipxCallReleaseLock(t)
  <2>1. TypeOK'
    BY <1>5 DEF sipxCallReleaseLock, AfterUnlock, Unlock, Goto, TypeOK, Places, handles, Call, Idle
  <2>2. LockInv' /\ CallDataLives'
    BY <1>5 DEF sipxCallReleaseLock, AfterUnlock, Unlock, Goto, TypeOK, LockInv,
                CallDataLives, Call, handles, Idle
  <2> QED
    BY <2>1, <2>2
<1>6. CASE releaseHandleRef(t)
  <2>1. TypeOK'
    BY <1>6 DEF releaseHandleRef, Goto, TypeOK, Places, locks, Call, Idle
  <2>2. LockInv' /\ CallDataLives'
    BY <1>6 DEF releaseHandleRef, Frees, Goto, TypeOK, LockInv, CallDataLives, Call, locks, Idle
  <2> QED
    BY <2>1, <2>2
<1>7. CASE removeHandle(t)
  <2>1. TypeOK'
    BY <1>7 DEF removeHandle, Unlock, Goto, TypeOK, Places, handles, Call, Idle
  <2>2. /\ writer[Call(t)] = t /\ readers[Call(t)] = {} /\ Call(t) \in Calls
        /\ \A u \in Tasks \ {t} : fn[u].at \in {"acquire", "locked", "remove"} => Call(u) # Call(t)
    BY <1>7 DEF removeHandle, Goto, TypeOK, LockInv, Call, Idle
  <2>3. LockInv' /\ CallDataLives'
    BY <1>7, <2>2 DEF removeHandle, Unlock, Goto, TypeOK, LockInv, CallDataLives, Call, handles, Idle
  <2> QED
    BY <2>1, <2>3
<1>8. CASE CheckTone(t)
  <2>1. TypeOK'
    BY <1>8 DEF CheckTone, Goto, TypeOK, Places, Modes, Doing, locks, handles, Call, Idle
  <2>2. LockInv' /\ CallDataLives'
    BY <1>8 DEF CheckTone, Goto, TypeOK, LockInv, CallDataLives, locks, handles, Call, Idle
  <2> QED
    BY <2>1, <2>2
<1>11. CASE ToneStarted(t)
  <2>1. TypeOK'
    BY <1>11 DEF ToneStarted, Goto, TypeOK, Places, Modes, Doing, locks, handles, Call, Idle
  <2>2. LockInv' /\ CallDataLives'
    BY <1>11 DEF ToneStarted, Goto, TypeOK, LockInv, CallDataLives, locks, handles, Call, Idle
  <2> QED
    BY <2>1, <2>2
<1>12. CASE StopPlaying(t)
  <2>1. /\ fn[t].at = "tone" /\ fn[t].call \in Calls /\ fn[t].what \in Doing
        /\ fn[t] # Idle
    BY <1>12 DEF StopPlaying, TypeOK, Idle
  <2>2. PICK r \in {Idle, [fn[t] EXCEPT !.at = "lookup", !.mode = "write"]} :
               fn' = [fn EXCEPT ![t] = r]
    <3>1. CASE tonePlaying
      BY <1>12, <3>1 DEF StopPlaying
    <3>2. CASE ~tonePlaying
      BY <1>12, <3>2 DEF StopPlaying
    <3> QED
      BY <3>1, <3>2
  <2>3. CASE r = Idle
    <3>1. UNCHANGED <<mapOwner, readers, writer, leaked, inMap, mLockCount, deleted, tonePlaying>>
      BY <1>12 DEF StopPlaying, locks, handles
    <3> QED
      BY <2>1, <2>2, <2>3, <3>1 DEF TypeOK, LockInv, CallDataLives, Call, Idle
  <2>4. CASE r = [fn[t] EXCEPT !.at = "lookup", !.mode = "write"]
    <3>1. UNCHANGED <<mapOwner, readers, writer, leaked, inMap, mLockCount, deleted, tonePlaying>>
      BY <1>12 DEF StopPlaying, locks, handles
    <3>2. fn[t] \in [at : Places, what : Doing, call : Calls, mode : Modes]
      BY <2>1 DEF TypeOK
    <3>3. r = [at |-> "lookup", what |-> fn[t].what, call |-> fn[t].call, mode |-> "write"]
      BY <3>2, <2>4
    <3> HIDE DEF Inv
    <3>4. r \in [at : Places, what : Doing, call : Calls, mode : Modes]
      BY <2>1, <3>3 DEF Places, Modes
    <3>5. TypeOK'
      BY <2>2, <3>1, <3>4 DEF TypeOK, Inv
    <3>6. LockInv' /\ CallDataLives'
      BY <2>1, <2>2, <3>1, <3>3 DEF TypeOK, LockInv, CallDataLives, Call, Inv, Idle
    <3> QED
      BY <3>5, <3>6 DEF Inv
  <2> QED
    BY <2>2, <2>3, <2>4
<1>13. CASE addHandleRef(t)
  <2>1. TypeOK'
    BY <1>13 DEF addHandleRef, Goto, TypeOK, Places, Modes, Doing, locks, Call, Idle
  <2>2. LockInv' /\ CallDataLives'
    BY <1>13 DEF addHandleRef, Goto, TypeOK, LockInv, CallDataLives, locks, Call, Idle
  <2> QED
    BY <2>1, <2>2
<1>14. CASE SplitRefused(t)
  <2>1. TypeOK'
    BY <1>14 DEF SplitRefused, Goto, TypeOK, handles, Call, Idle
  <2>2. LockInv' /\ CallDataLives'
    BY <1>14 DEF SplitRefused, Goto, TypeOK, LockInv, CallDataLives, handles, Call, Idle
  <2> QED
    BY <2>1, <2>2
<1>15. CASE LateUse(t)
  <2>1. TypeOK'
    BY <1>15 DEF LateUse, Goto, TypeOK, locks, handles, Idle
  <2>2. LockInv' /\ CallDataLives'
    BY <1>15 DEF LateUse, Goto, TypeOK, LockInv, CallDataLives, locks, handles, Call, Idle
  <2> QED
    BY <2>1, <2>2
<1>9. CASE \E c \in Calls : \E mode \in Modes : Use(t, c, mode) \/ UseLate(t, c, mode)
  BY <1>1, <1>9 DEF Use, UseLate, Doing
<1>10. CASE \E c \in Calls : \/ sipxCallObjectFree(t, c) \/ sipxConferenceSplit(t, c)
                             \/ sipxCallStartTone(t, c) \/ sipxCallStopTone(t, c)
  BY <1>1, <1>10 DEF sipxCallObjectFree, sipxConferenceSplit, sipxCallStartTone,
                     sipxCallStopTone, Doing, Modes
<1> QED
  BY <1>2, <1>3, <1>4, <1>5, <1>6, <1>7, <1>8, <1>9, <1>10,
     <1>11, <1>12, <1>13, <1>14, <1>15 DEF Step

THEOREM Invariance == Spec => []Inv
<1> QED
  BY InitInv, NextInv, PTL DEF Spec

\* The entries, references and locks keep their types, a handle in the map has a
\* count and a deleted call has no handle.
THEOREM TypeCorrect == Spec => []TypeOK
<1>1. Inv => TypeOK
  BY DEF Inv
<1> QED
  BY <1>1, Invariance, PTL

\* No task ever waits for the lock of a deleted call, or works with its data
\* before it unlocks it.
THEOREM DataLives == Spec => []CallDataLives
<1>1. Inv => CallDataLives
  BY DEF Inv
<1> QED
  BY <1>1, Invariance, PTL

-----------------------------------------------------------------------------
(* What blocks the tasks: a removal, or a lock that was left behind           *)

\* Whoever has a lock is where it gives it back, or sipxConferenceSplit has left
\* it behind: the map's mutex waits only for the lock of a call, and nothing but
\* a removal waits with one for the mutex.
HoldInv ==
  /\ mapOwner # None => fn[mapOwner].at = "acquire"
  /\ \A c \in Calls, u \in Tasks :
       writer[c] = u => c \in leaked \/ (fn[u].at \in {"locked", "remove"} /\ Call(u) = c)
  /\ \A c \in Calls : \A u \in readers[c] : fn[u].at = "locked" /\ Call(u) = c /\ fn[u].mode = "read"
  /\ \A u \in Tasks : fn[u].at = "remove" => Frees(u)
  /\ \A u \in Tasks : fn[u].at = "tone" => fn[u].what \in {"start", "stop"}
  /\ \A u \in Tasks :
       fn[u].at \in {"lookup", "acquire", "locked"} /\ fn[u].what = "split" => fn[u].mode = "write"

LEMMA InitHold == Init => HoldInv
<1> QED
  BY NoneAssumption DEF Init, HoldInv, Idle

LEMMA NextHold == Inv /\ HoldInv /\ [Next]_vars => HoldInv'
<1> SUFFICES ASSUME Inv, HoldInv, [Next]_vars PROVE HoldInv'
  OBVIOUS
<1> USE NoneAssumption DEF Inv
<1>0. CASE UNCHANGED vars
  BY <1>0 DEF vars, locks, HoldInv, Call, Frees
<1> SUFFICES ASSUME NEW t \in Tasks,
                    \/ Step(t)
                    \/ \E c \in Calls :
                         \/ allocHandle(t, c) \/ sipxCallObjectFree(t, c)
                         \/ \E mode \in Modes : Use(t, c, mode) \/ UseLate(t, c, mode)
                         \/ sipxConferenceSplit(t, c)
                         \/ sipxCallStartTone(t, c) \/ sipxCallStopTone(t, c)
             PROVE  HoldInv'
  BY <1>0 DEF Next
<1>1. ASSUME NEW c \in Calls, NEW what, NEW mode, Begin(t, what, c, mode), UNCHANGED locks,
             what = "split" => mode = "write"
      PROVE  HoldInv'
  <2>1. /\ fn' = [fn EXCEPT ![t] = [at |-> "lookup", what |-> what, call |-> c, mode |-> mode]]
        /\ fn[t].at = "idle"
    BY <1>1 DEF Begin, Idle
  <2> QED
    BY <1>1, <2>1 DEF TypeOK, HoldInv, Call, Frees, locks
<1>2. ASSUME NEW c \in Calls, allocHandle(t, c) PROVE HoldInv'
  BY <1>2 DEF allocHandle, HoldInv, Call, Frees, locks
<1>3. CASE findHandle(t)
  <2>1. /\ fn[t].at = "lookup" /\ UNCHANGED <<readers, writer, leaked>>
        /\ mapOwner = None
        /\ \/ fn' = [fn EXCEPT ![t] = [@ EXCEPT !.at = "acquire"]] /\ mapOwner' = t
           \/ fn' = [fn EXCEPT ![t] = Idle] /\ mapOwner' = None
    BY <1>3 DEF findHandle, Goto
  <2> QED
    BY <2>1, SMTT(60) DEF TypeOK, HoldInv, Call, Frees, Idle
<1>4. CASE acquire(t)
  <2>1. /\ fn[t].at = "acquire" /\ mapOwner' = None /\ UNCHANGED leaked
        /\ fn' = [fn EXCEPT ![t] = [@ EXCEPT !.at = "locked"]]
        /\ fn[t] \in [at : Places, what : Doing, call : Calls, mode : Modes]
        /\ IF fn[t].mode = "read"
             THEN readers' = [readers EXCEPT ![Call(t)] = @ \cup {t}] /\ UNCHANGED writer
             ELSE writer' = [writer EXCEPT ![Call(t)] = t] /\ UNCHANGED readers
    BY <1>4 DEF acquire, Goto, TypeOK, Idle
  <2> QED
    BY <2>1 DEF TypeOK, HoldInv, Call, Frees
<1>5. CASE sipxCallReleaseLock(t)
  <2>1. /\ fn[t].at = "locked" /\ ~Frees(t) /\ UNCHANGED <<mapOwner, leaked>>
        /\ \/ fn[t].what \in {"start", "stop"} /\ fn' = [fn EXCEPT ![t] = [@ EXCEPT !.at = "tone"]]
           \/ fn' = [fn EXCEPT ![t] = [@ EXCEPT !.at = "late"]]
           \/ fn' = [fn EXCEPT ![t] = Idle]
        /\ readers' = [readers EXCEPT ![Call(t)] = @ \ {t}]
        /\ writer' = [writer EXCEPT ![Call(t)] = IF @ = t THEN None ELSE @]
    BY <1>5 DEF sipxCallReleaseLock, AfterUnlock, Unlock, Goto
  <2>2. \A c \in Calls : (writer'[c] = t => c \in leaked) /\ t \notin readers'[c]
    BY <2>1 DEF TypeOK, HoldInv
  <2> QED
    BY <2>1, <2>2, SMTT(60) DEF TypeOK, HoldInv, Call, Frees, Idle
<1>6. CASE releaseHandleRef(t)
  <2>1. /\ fn[t].at = "locked" /\ Frees(t) /\ UNCHANGED locks
        /\ fn' = [fn EXCEPT ![t] = [@ EXCEPT !.at = "remove"]]
        /\ fn[t] \in [at : Places, what : Doing, call : Calls, mode : Modes]
    BY <1>6 DEF releaseHandleRef, Goto, TypeOK, Idle
  <2>2. \A c \in Calls : t \notin readers[c]
    BY <2>1 DEF HoldInv, Frees
  <2> QED
    BY <2>1, <2>2 DEF TypeOK, HoldInv, Call, Frees, locks
<1>7. CASE removeHandle(t)
  <2>1. /\ fn[t].at = "remove" /\ UNCHANGED <<mapOwner, leaked>>
        /\ fn' = [fn EXCEPT ![t] = Idle]
        /\ readers' = [readers EXCEPT ![Call(t)] = @ \ {t}]
        /\ writer' = [writer EXCEPT ![Call(t)] = IF @ = t THEN None ELSE @]
    BY <1>7 DEF removeHandle, Unlock, Goto
  <2>2. \A c \in Calls : (writer'[c] = t => c \in leaked) /\ t \notin readers'[c]
    BY <2>1 DEF TypeOK, HoldInv
  <2> QED
    BY <2>1, <2>2 DEF TypeOK, HoldInv, Call, Frees, Idle
\* The other steps hold no lock.
<1>8. ASSUME fn[t].at \in {"late", "tone", "addref", "started"}, UNCHANGED locks,
             NEW r, fn' = [fn EXCEPT ![t] = r], r.at \notin {"acquire", "locked", "remove", "tone"},
             r.at = "lookup" => r.mode = "write"
      PROVE  HoldInv'
  BY <1>8 DEF TypeOK, HoldInv, Call, Frees, locks
<1>9. CASE CheckTone(t)
  <2>1. PICK at \in {"idle", "addref"} : Goto(t, "tone", at)
    BY <1>9 DEF CheckTone
  <2> DEFINE r == IF at = "idle" THEN Idle ELSE [fn[t] EXCEPT !.at = at]
  <2>2. fn' = [fn EXCEPT ![t] = r] /\ fn[t].at = "tone"
    BY <2>1 DEF Goto
  <2>3. r.at = at
    BY <2>2 DEF TypeOK, Idle
  <2> HIDE DEF r
  <2> QED
    BY <1>8, <1>9, <2>1, <2>2, <2>3 DEF CheckTone
<1>10. CASE addHandleRef(t)
  <2> DEFINE r == [fn[t] EXCEPT !.at = "started"]
  <2>1. fn' = [fn EXCEPT ![t] = r] /\ fn[t].at = "addref"
    BY <1>10 DEF addHandleRef, Goto
  <2>2. r.at = "started"
    BY <2>1 DEF TypeOK, Idle
  <2> HIDE DEF r
  <2> QED
    BY <1>8, <1>10, <2>1, <2>2 DEF addHandleRef
<1>11. CASE ToneStarted(t)
  BY <1>8, <1>11 DEF ToneStarted, Goto, Idle
<1>12. CASE StopPlaying(t)
  <2> DEFINE r == IF tonePlaying THEN [fn[t] EXCEPT !.at = "lookup", !.mode = "write"] ELSE Idle
  <2>1. fn' = [fn EXCEPT ![t] = r] /\ fn[t].at = "tone"
    BY <1>12 DEF StopPlaying
  <2>2. r.at = "idle" \/ (r.at = "lookup" /\ r.mode = "write")
    BY <2>1 DEF TypeOK, Idle
  <2> HIDE DEF r
  <2> QED
    BY <1>8, <1>12, <2>1, <2>2 DEF StopPlaying
<1>13. CASE \E c \in Calls : \/ \E mode \in Modes : Use(t, c, mode) \/ UseLate(t, c, mode)
                             \/ sipxCallObjectFree(t, c) \/ sipxConferenceSplit(t, c)
                             \/ sipxCallStartTone(t, c) \/ sipxCallStopTone(t, c)
  BY <1>1, <1>13 DEF Use, UseLate, sipxCallObjectFree, sipxConferenceSplit,
                     sipxCallStartTone, sipxCallStopTone
<1>14. CASE SplitRefused(t)
  <2>1. /\ fn[t].at = "locked" /\ UNCHANGED <<mapOwner, readers, writer>>
        /\ leaked' = leaked \cup {Call(t)} /\ fn' = [fn EXCEPT ![t] = Idle]
        /\ fn[t].mode = "write"
    BY <1>14 DEF SplitRefused, Goto, HoldInv
  <2> QED
    BY <2>1 DEF TypeOK, HoldInv, Call, Frees, Idle
<1>15. CASE LateUse(t)
  BY <1>8, <1>15 DEF LateUse, Goto, Idle
<1> QED
  BY <1>2, <1>3, <1>4, <1>5, <1>6, <1>7, <1>9, <1>10, <1>11, <1>12, <1>13, <1>14, <1>15 DEF Step

\* The tasks wait for each other only round the one cycle and behind a lock that
\* was left: otherwise some task has all that its next step needs.
LEMMA HoldCanGo == Inv /\ HoldInv => SomeoneCanGo
<1> SUFFICES ASSUME Inv, HoldInv, NEW t \in Tasks, fn[t] # Idle, ~Blocked
             PROVE  \E u \in Tasks : CanGo(u)
  BY DEF SomeoneCanGo
<1> USE NoneAssumption DEF Inv
<1>1. CASE mapOwner = None
  <2>1. fn[t] \in [at : Places, what : Doing, call : Calls, mode : Modes]
    BY DEF TypeOK
  <2>2. fn[t].at # "acquire"
    BY <1>1 DEF LockInv
  <2>3. CanGo(t)
    BY <1>1, <2>1, <2>2 DEF CanGo, Places, HoldInv
  <2> QED
    BY <2>3
<1>2. CASE mapOwner # None
  <2> DEFINE o == mapOwner
             c == Call(o)
  <2>1. o \in Tasks /\ fn[o].at = "acquire" /\ c \in Calls
    BY <1>2 DEF TypeOK, HoldInv, LockInv, Idle
  <2>2. CASE CanGo(o)
    BY <2>1, <2>2
  <2>3. CASE ~CanGo(o)
    <3>0. c \notin leaked
      BY <2>1 DEF Blocked, LeakedWait
    <3>1. PICK u \in Tasks : fn[u].at \in {"locked", "remove"} /\ Call(u) = c
      <4>1. writer[c] # None \/ readers[c] # {}
        BY <2>1, <2>3 DEF CanGo
      <4>2. ASSUME writer[c] # None PROVE writer[c] \in Tasks
        BY <2>1, <4>2 DEF TypeOK
      <4>3. \A u \in readers[c] : u \in Tasks
        BY <2>1 DEF TypeOK
      <4> QED
        BY <2>1, <3>0, <4>1, <4>2, <4>3 DEF HoldInv
    <3>2. ~Frees(u)
      BY <2>1, <3>1 DEF Blocked, RemovalCycle
    <3>3. CanGo(u)
      BY <3>1, <3>2 DEF CanGo, HoldInv
    <3> QED
      BY <3>3
  <2> QED
    BY <2>2, <2>3
<1> QED
  BY <1>1, <1>2

\* While any task is in a function some task has what its next step needs,
\* except when a removal and a lookup of the same call wait for each other
\* (sipxCallLookup keeps the map locked, sipxCallObjectFree the call), or a
\* lookup waits for a lock that sipxConferenceSplit has left.
THEOREM OnlyTwoBlocks == Spec => []SomeoneCanGo
<1>1. Inv /\ HoldInv /\ [Next]_vars => Inv' /\ HoldInv'
  BY NextInv, NextHold
<1> QED
  BY InitInv, InitHold, <1>1, HoldCanGo, PTL DEF Spec
=============================================================================
