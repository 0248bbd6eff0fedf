----------------------------- MODULE SipXHandles -----------------------------
(* The call handles of sipXtapi: the global map of handles with its mutex and *)
(* reference counts (SipXHandleMap), and the functions that look a call up,   *)
(* lock it, work with it and free it.  A lookup keeps the mutex of the map    *)
(* while it waits for the lock of the call, so at most one task waits.        *)
EXTENDS Integers, FiniteSets

CONSTANTS
  Tasks,
  Calls,    \* handles; a handle is never used for a second call
  MaxRefs,  \* bound: no tone is started on a handle with more references
  None
ASSUME MaxRefsAssumption == MaxRefs \in Nat
ASSUME NoneAssumption == None \notin Tasks \cup Int

VARIABLES
  fn,            \* the function each task is in: where it is in it, what it
                 \* does, with which call, and the lock it asks for
  mapOwner,      \* the task that is between gpCallHandleMap->lock and unlock
  inMap,         \* handles that findHandle finds
  mLockCount,    \* references of each handle, None: no entry in mLockCountHash
  deleted,       \* calls whose SIPX_CALL_DATA, lock included, is deleted
  readers, writer,   \* who holds the lock of each call
  leaked,        \* history: calls that sipxConferenceSplit has left locked
  tonePlaying    \* of the instance
locks == <<mapOwner, readers, writer, leaked>>
handles == <<inMap, mLockCount, deleted>>
vars == <<fn, locks, handles, tonePlaying>>

Modes == {"read", "write"}
Doing == {"use", "late", "split", "free", "start", "stop"}
Idle == [at |-> "idle", what |-> None, call |-> None, mode |-> None]

Goto(t, from, to) ==
  /\ fn[t].at = from
  /\ fn' = [fn EXCEPT ![t] = IF to = "idle" THEN Idle ELSE [@ EXCEPT !.at = to]]
Call(t) == fn[t].call

Init ==
  /\ fn = [t \in Tasks |-> Idle]
  /\ mapOwner = None
  /\ inMap = {} /\ mLockCount = [c \in Calls |-> None] /\ deleted = {}
  /\ readers = [c \in Calls |-> {}] /\ writer = [c \in Calls |-> None] /\ leaked = {}
  /\ tonePlaying = FALSE

\* A new call: allocHandle inserts it and takes the first reference.
allocHandle(t, c) ==
  /\ fn[t] = Idle /\ mapOwner = None
  /\ c \notin inMap \cup deleted
  /\ inMap' = inMap \cup {c}
  /\ mLockCount' = [mLockCount EXCEPT ![c] = 1]
  /\ UNCHANGED <<fn, locks, deleted, tonePlaying>>

Begin(t, what, c, mode) ==
  /\ c \in inMap \cup deleted
  /\ fn[t] = Idle
  /\ fn' = [fn EXCEPT ![t] = [at |-> "lookup", what |-> what, call |-> c, mode |-> mode]]

\* sipxCallGetCommonData, sipxCallGetConf, sipxCallSetState and the other
\* functions that lock a call, work with it and unlock it.
Use(t, c, mode) ==
  Begin(t, "use", c, mode) /\ UNCHANGED <<locks, handles, tonePlaying>>

\* Three functions go on with the data of the call after they have unlocked it:
\* sipxCallGetConnectionMediaInterface reads its pInst, sipxCallConnect and
\* sipxConferenceAdd pass its display on.
UseLate(t, c, mode) ==
  Begin(t, "late", c, mode) /\ UNCHANGED <<locks, handles, tonePlaying>>

sipxConferenceSplit(t, c) ==
  Begin(t, "split", c, "write") /\ UNCHANGED <<locks, handles, tonePlaying>>

\* A call is freed when its DESTROYED event is fired, which may be more than
\* once, and when the application destroys one that never had a connection.
sipxCallObjectFree(t, c) ==
  Begin(t, "free", c, "write") /\ UNCHANGED <<locks, handles, tonePlaying>>

sipxCallStartTone(t, c) ==
  /\ mLockCount[c] # None => mLockCount[c] <= MaxRefs
  /\ Begin(t, "start", c, "read") /\ UNCHANGED <<locks, handles, tonePlaying>>
sipxCallStopTone(t, c) ==
  Begin(t, "stop", c, "read") /\ UNCHANGED <<locks, handles, tonePlaying>>

\* Mutant: the mutex of the map is unlocked before the lock of the call is
\* acquired, as in sipxLineLookup.
BugFindUnlocked(t) ==
  /\ mapOwner = None
  /\ Goto(t, "lookup", IF Call(t) \in inMap THEN "acquire" ELSE "idle")
  /\ UNCHANGED <<locks, handles, tonePlaying>>

\* sipxCallLookup: under the mutex of the map, find the call; a handle that is
\* gone ends the function, and a found one leaves the mutex locked.
findHandle(t) ==
  /\ mapOwner = None
  /\ IF Call(t) \in inMap
       THEN Goto(t, "lookup", "acquire") /\ mapOwner' = t /\ UNCHANGED tonePlaying
       ELSE /\ Goto(t, "lookup", "idle") /\ UNCHANGED mapOwner
            /\ tonePlaying' = (tonePlaying /\ ~(fn[t].what = "stop" /\ fn[t].mode = "write"))
  /\ UNCHANGED <<readers, writer, leaked, handles>>

\* Mutant: the mutex of the map stays locked.
BugAcquireKeepsMap(t) ==
  /\ Goto(t, "acquire", "locked")
  /\ writer[Call(t)] = None
  /\ IF fn[t].mode = "read"
       THEN readers' = [readers EXCEPT ![Call(t)] = @ \cup {t}] /\ UNCHANGED writer
       ELSE /\ readers[Call(t)] = {}
            /\ writer' = [writer EXCEPT ![Call(t)] = t] /\ UNCHANGED readers
  /\ UNCHANGED <<mapOwner, leaked, handles, tonePlaying>>

\* acquireRead or acquireWrite succeeds, and the mutex of the map is unlocked.
acquire(t) ==
  /\ Goto(t, "acquire", "locked")
  /\ writer[Call(t)] = None
  /\ IF fn[t].mode = "read"
       THEN readers' = [readers EXCEPT ![Call(t)] = @ \cup {t}] /\ UNCHANGED writer
       ELSE /\ readers[Call(t)] = {}
            /\ writer' = [writer EXCEPT ![Call(t)] = t] /\ UNCHANGED readers
  /\ mapOwner' = None
  /\ UNCHANGED <<leaked, handles, tonePlaying>>

Frees(t) == fn[t].mode = "write" /\ fn[t].what \in {"free", "stop"}

Unlock(t) ==
  /\ readers' = [readers EXCEPT ![Call(t)] = @ \ {t}]
  /\ writer' = [writer EXCEPT ![Call(t)] = IF @ = t THEN None ELSE @]
  /\ UNCHANGED <<mapOwner, leaked>>

\* Where a function goes on after the unlock, with what it has read of the call.
AfterUnlock(what) ==
  CASE what \in {"start", "stop"} -> "tone" [] what = "late" -> "late" [] OTHER -> "idle"

sipxCallReleaseLock(t) ==
  /\ ~Frees(t)
  /\ Goto(t, "locked", AfterUnlock(fn[t].what))
  /\ Unlock(t)
  /\ UNCHANGED <<handles, tonePlaying>>

\* sipxConferenceSplit of a call that is not held returns without the unlock.
SplitRefused(t) ==
  /\ fn[t].what = "split"
  /\ Goto(t, "locked", "idle")
  /\ leaked' = leaked \cup {Call(t)}
  /\ UNCHANGED <<mapOwner, readers, writer, handles, tonePlaying>>

\* The data of a call that is no longer locked, and may be deleted, is read.
LateUse(t) ==
  /\ Goto(t, "late", "idle")
  /\ UNCHANGED <<locks, handles, tonePlaying>>

\* removeHandle first gives one reference back ...
releaseHandleRef(t) ==
  /\ Frees(t) /\ mapOwner = None
  /\ Goto(t, "locked", "remove")
  /\ mLockCount' = [mLockCount EXCEPT ![Call(t)] = IF @ = None THEN 0 ELSE @ - 1]
  /\ UNCHANGED <<locks, inMap, deleted, tonePlaying>>

\* Mutant: the data is deleted and its entry of the map is not.
BugRemoveKeepsEntry(t) ==
  /\ mapOwner = None
  /\ Goto(t, "remove", "idle")
  /\ deleted' = IF mLockCount[Call(t)] \in Nat \ {0} THEN deleted ELSE deleted \cup {Call(t)}
  /\ Unlock(t)
  /\ UNCHANGED <<inMap, mLockCount, tonePlaying>>

\* Mutant: a handle that is still referenced is left locked.
BugRemoveKeepsLock(t) ==
  /\ mapOwner = None
  /\ Goto(t, "remove", "idle")
  /\ LET c == Call(t) IN
       IF mLockCount[c] = None \/ mLockCount[c] < 1
         THEN /\ inMap' = inMap \ {c}
              /\ mLockCount' = [mLockCount EXCEPT ![c] = None]
              /\ deleted' = deleted \cup {c}
              /\ Unlock(t)
         ELSE UNCHANGED <<locks, handles>>
  /\ tonePlaying' = (tonePlaying /\ fn[t].what # "stop")

\* ... and in a second critical section removes a handle without references.
\* sipxCallObjectFree deletes the data that it gets back and unlocks it
\* otherwise.  sipxCallStopTone then notes that no tone is playing.
removeHandle(t) ==
  /\ mapOwner = None
  /\ Goto(t, "remove", "idle")
  /\ LET c == Call(t) IN
       IF mLockCount[c] = None \/ mLockCount[c] < 1
         THEN /\ inMap' = inMap \ {c}
              /\ mLockCount' = [mLockCount EXCEPT ![c] = None]
              /\ deleted' = deleted \cup {c}
         ELSE UNCHANGED handles
  /\ Unlock(t)
  /\ tonePlaying' = (tonePlaying /\ fn[t].what # "stop")

\* sipxCallStartTone, after the lookup: one tone at a time per instance.
CheckTone(t) ==
  /\ fn[t].what = "start"
  /\ Goto(t, "tone", IF tonePlaying THEN "idle" ELSE "addref")
  /\ UNCHANGED <<locks, handles, tonePlaying>>

addHandleRef(t) ==
  /\ mapOwner = None
  /\ Goto(t, "addref", "started")
  /\ mLockCount' = [mLockCount EXCEPT ![Call(t)] = IF @ = None THEN 1 ELSE @ + 1]
  /\ UNCHANGED <<locks, inMap, deleted, tonePlaying>>

ToneStarted(t) ==
  /\ Goto(t, "started", "idle")
  /\ tonePlaying' = TRUE
  /\ UNCHANGED <<locks, handles>>

\* sipxCallStopTone, after the lookup: the handle it was given is freed.
StopPlaying(t) ==
  /\ fn[t].what = "stop"
  /\ fn[t].at = "tone"
  /\ fn' = [fn EXCEPT ![t] = IF tonePlaying THEN [@ EXCEPT !.at = "lookup", !.mode = "write"]
                                            ELSE Idle]
  /\ UNCHANGED <<locks, handles, tonePlaying>>

Step(t) ==
  \/ findHandle(t) \/ acquire(t) \/ sipxCallReleaseLock(t)
  \/ SplitRefused(t) \/ LateUse(t)
  \/ releaseHandleRef(t) \/ removeHandle(t)
  \/ CheckTone(t) \/ addHandleRef(t) \/ ToneStarted(t) \/ StopPlaying(t)

Next ==
  \E t \in Tasks :
    \/ Step(t)
    \/ \E c \in Calls :
         \/ allocHandle(t, c) \/ sipxCallObjectFree(t, c)
         \/ \E mode \in Modes : Use(t, c, mode) \/ UseLate(t, c, mode)
         \/ sipxConferenceSplit(t, c)
         \/ sipxCallStartTone(t, c) \/ sipxCallStopTone(t, c)

\* A task goes on with its function; one that waits for a mutex that is free
\* again and again gets it in the end.
Fairness == \A t \in Tasks : SF_vars(Step(t))
Spec == Init /\ [][Next]_vars
FairSpec == Spec /\ Fairness

-----------------------------------------------------------------------------
Places == {"lookup", "acquire", "locked", "remove", "late", "tone", "addref", "started"}

\* The map's entries, the references and the locks keep their types; a handle in
\* the map has a count (releaseHandleRef, removeHandle) and its data is not
\* deleted.  A count may stay behind without a handle (addHandleRef).
TypeOK ==
  /\ fn \in [Tasks -> [at : Places, what : Doing, call : Calls, mode : Modes] \cup {Idle}]
  /\ mapOwner \in Tasks \cup {None}
  /\ inMap \subseteq Calls /\ deleted \subseteq Calls /\ inMap \cap deleted = {}
  /\ mLockCount \in [Calls -> Int \cup {None}] /\ \A c \in inMap : mLockCount[c] # None
  /\ readers \in [Calls -> SUBSET Tasks] /\ writer \in [Calls -> Tasks \cup {None}]
  /\ leaked \subseteq Calls /\ tonePlaying \in BOOLEAN

\* No task waits for the lock of a deleted call, or works with its data under the
\* lock: a removal and a lookup exclude each other by the mutex of the map
\* (sipxCallLookup, sipxCallObjectFree).  What is read after the unlock, at
\* "late", has no such protection.
CallDataLives ==
  \A t \in Tasks : fn[t].at \in {"acquire", "locked", "remove"} => Call(t) \in inMap \ deleted

\* One task has looked a call up and waits for its lock, with the map locked;
\* the one that holds the lock wants the map to remove a handle ...
RemovalCycle ==
  \E t, u \in Tasks :
    /\ mapOwner = t /\ fn[t].at = "acquire"
    /\ Call(t) = Call(u) /\ fn[u].at \in {"locked", "remove"} /\ Frees(u)

\* ... or has left sipxConferenceSplit without giving it back.
LeakedWait == \E t \in Tasks : fn[t].at = "acquire" /\ Call(t) \in leaked

Blocked == RemovalCycle \/ LeakedWait

\* What the next step of the task needs is free.
CanGo(t) ==
  \/ fn[t].at \in {"lookup", "remove", "addref"} /\ mapOwner = None
  \/ fn[t].at = "acquire" /\ writer[Call(t)] = None
       /\ (fn[t].mode = "write" => readers[Call(t)] = {})
  \/ fn[t].at = "locked" /\ (Frees(t) => mapOwner = None)
  \/ fn[t].at = "tone" /\ fn[t].what \in {"start", "stop"}
  \/ fn[t].at \in {"late", "started"}

SomeoneCanGo ==
  (\E t \in Tasks : fn[t] # Idle) => Blocked \/ \E t \in Tasks : CanGo(t)

\* Two things block the tasks, and nothing else does: a lookup that crosses a
\* removal, and one of a call whose lock sipxConferenceSplit has left behind.
\* Otherwise, while any task is in a function, one of them has all that its next
\* step needs, and does that step when it is scheduled.
OnlyKnownBlocks ==
  SomeoneCanGo /\ \A t \in Tasks : CanGo(t) <=> ENABLED Step(t)

\* Liveness: a lookup ends, unless the tasks are blocked in one of these ways.
LookupsEnd ==
  \A t \in Tasks : fn[t].at = "lookup" ~> (fn[t].at \in {"locked", "idle"} \/ Blocked)
=============================================================================
