------------------------------- MODULE OsEvent -------------------------------
(***************************************************************************)
(* The OsEvent objects of sipXportLib (src/os/OsEvent.cpp) that one task    *)
(* allocates to be woken by another.  An event is a flag and a binary       *)
(* semaphore.  signal() is not atomic: it tests the flag, sets it and posts *)
(* the semaphore, and no lock of its own serialises the two sides, so the   *)
(* three parts are three operators that the users of an event interleave.   *)
(* Freed events may be allocated again, as the heap does.                   *)
(***************************************************************************)
EXTENDS FiniteSets

CONSTANT Events            \* addresses the heap can give to an OsEvent

VARIABLES
  liveEvents,              \* the events allocated and not yet deleted
  mIsSignaled,             \* those whose flag is TRUE
  mSignalSem               \* those whose binary semaphore is full

eventVars == <<liveEvents, mIsSignaled, mSignalSem>>

EventTypeOK ==
  /\ liveEvents  \subseteq Events
  /\ mIsSignaled \subseteq Events
  /\ mSignalSem  \subseteq Events

EventInit == liveEvents = {} /\ mIsSignaled = {} /\ mSignalSem = {}

\* new OsEvent: the flag is FALSE and the semaphore is empty
NewEvent(e) ==
  /\ e \in Events \ liveEvents
  /\ liveEvents'  = liveEvents \cup {e}
  /\ mIsSignaled' = mIsSignaled \ {e}
  /\ mSignalSem'  = mSignalSem \ {e}

\* delete: what the freed memory holds is of no interest (nothing tests it)
DeleteEvent(e) ==
  /\ liveEvents'  = liveEvents \ {e}
  /\ mIsSignaled' = mIsSignaled \ {e}
  /\ mSignalSem'  = mSignalSem \ {e}

\* signal(): the test of the flag; OS_ALREADY_SIGNALED when it is set
AlreadySignaled(e) == e \in mIsSignaled

\* signal(): mEventData and mIsSignaled are assigned
SetSignaled(e) ==
  /\ mIsSignaled' = mIsSignaled \cup {e}
  /\ UNCHANGED <<liveEvents, mSignalSem>>

\* signal(): mSignalSem.release(); a post of a full semaphore changes nothing
PostSem(e) ==
  /\ mSignalSem' = mSignalSem \cup {e}
  /\ UNCHANGED <<liveEvents, mIsSignaled>>

\* wait(): the semaphore is taken; the flag stays as it is
TakeSem(e) ==
  /\ e \in mSignalSem
  /\ mSignalSem' = mSignalSem \ {e}
  /\ UNCHANGED <<liveEvents, mIsSignaled>>
=============================================================================
