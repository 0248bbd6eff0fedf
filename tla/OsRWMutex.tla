------------------------------ MODULE OsRWMutex ------------------------------
(* OsRWMutex: the reader/writer lock of sipXportLib.  Everything between      *)
(* mGuard.acquire() and mGuard.release() is one action: the four counters are *)
(* only touched there.  The semaphores are also taken outside of the guard,   *)
(* so taking one is an action of its own.  The two places where a conditional *)
(* reader or writer returns OS_BUSY at once change nothing and are no action. *)
EXTENDS Naturals, FiniteSets

CONSTANTS
  Tasks,
  SemMax     \* SEMAPHORE_CNT_MAX: a release of a full semaphore is lost
ASSUME SemMaxAssumption == SemMax \in Nat
ASSUME TasksAssumption == IsFiniteSet(Tasks) /\ Cardinality(Tasks) <= SemMax

VARIABLES
  pc,                  \* where each task is in its call of the lock
  mActiveReadersCnt, mActiveWritersCnt,    \* tasks that asked
  mRunningReadersCnt, mRunningWritersCnt,  \* tasks that were granted a ticket
  mReadSem, mWriteSem, \* tickets granted and not yet taken
  mWriteExclSem        \* TRUE: the binary semaphore can be acquired
cnts == <<mActiveReadersCnt, mActiveWritersCnt, mRunningReadersCnt, mRunningWritersCnt>>
vars == <<pc, cnts, mReadSem, mWriteSem, mWriteExclSem>>

At(S) == {t \in Tasks : pc[t] \in S}
Goto(t, from, to) == pc[t] = from /\ pc' = [pc EXCEPT ![t] = to]

\* Mutant: one release for all the tickets that were counted.
BugPostOnce(sem, n) == IF sem < SemMax THEN sem + 1 ELSE SemMax

\* OsCSem::release, n times: the count stops at its maximum.
Post(sem, n) == IF sem + n <= SemMax THEN sem + n ELSE SemMax

Init ==
  /\ pc = [t \in Tasks |-> "idle"]
  /\ mActiveReadersCnt = 0 /\ mActiveWritersCnt = 0
  /\ mRunningReadersCnt = 0 /\ mRunningWritersCnt = 0
  /\ mReadSem = 0 /\ mWriteSem = 0
  /\ mWriteExclSem = TRUE

\* "active" tasks have asked and "running" ones have a ticket.
grantReadTickets(active, running, writers) ==
  /\ mActiveReadersCnt' = active
  /\ IF writers = 0 /\ running < active
       THEN /\ mRunningReadersCnt' = active
            /\ mReadSem' = Post(mReadSem, active - running)
       ELSE mRunningReadersCnt' = running /\ UNCHANGED mReadSem

\* Mutant: writers get their tickets although readers run.
BugGrantAmongReaders(active, running, readers, taken) ==
  /\ mActiveWritersCnt' = active
  /\ mRunningWritersCnt' = active
  /\ mWriteSem' = Post(mWriteSem, active - running) - taken

\* "taken" of the tickets are taken again inside the guard.
grantWriteTickets(active, running, readers, taken) ==
  /\ mActiveWritersCnt' = active
  /\ IF readers = 0 /\ running < active
       THEN /\ mRunningWritersCnt' = active
            /\ mWriteSem' = Post(mWriteSem, active - running) - taken
       ELSE mRunningWritersCnt' = running /\ UNCHANGED mWriteSem

\* Mutant: a reader looks at the running writers, not at the active ones.
BugReadPastWaiting(t) ==
  /\ Goto(t, "idle", "read_ticket")
  /\ grantReadTickets(mActiveReadersCnt + 1, mRunningReadersCnt, mRunningWritersCnt)
  /\ UNCHANGED <<mActiveWritersCnt, mRunningWritersCnt, mWriteSem, mWriteExclSem>>

\* Ask for a read ticket; tryAcquireRead does the same when no writer is active.
AcquireRead(t) ==
  /\ Goto(t, "idle", "read_ticket")
  /\ grantReadTickets(mActiveReadersCnt + 1, mRunningReadersCnt, mActiveWritersCnt)
  /\ UNCHANGED <<mActiveWritersCnt, mRunningWritersCnt, mWriteSem, mWriteExclSem>>

TakeReadTicket(t) ==
  /\ Goto(t, "read_ticket", "reading")
  /\ mReadSem > 0 /\ mReadSem' = mReadSem - 1
  /\ UNCHANGED <<cnts, mWriteSem, mWriteExclSem>>

ReleaseRead(t) ==
  /\ Goto(t, "reading", "idle")
  /\ mRunningReadersCnt' = mRunningReadersCnt - 1
  /\ mActiveReadersCnt' = mActiveReadersCnt - 1
  /\ grantWriteTickets(mActiveWritersCnt, mRunningWritersCnt, mRunningReadersCnt - 1, 0)
  /\ UNCHANGED <<mReadSem, mWriteExclSem>>

AcquireWrite(t) ==
  /\ Goto(t, "idle", "write_ticket")
  /\ grantWriteTickets(mActiveWritersCnt + 1, mRunningWritersCnt, mRunningReadersCnt, 0)
  /\ UNCHANGED <<mActiveReadersCnt, mRunningReadersCnt, mReadSem, mWriteExclSem>>

TakeWriteTicket(t) ==
  /\ Goto(t, "write_ticket", "write_excl")
  /\ mWriteSem > 0 /\ mWriteSem' = mWriteSem - 1
  /\ UNCHANGED <<cnts, mReadSem, mWriteExclSem>>

TakeExcl(t) ==
  /\ Goto(t, "write_excl", "writing")
  /\ mWriteExclSem /\ mWriteExclSem' = FALSE
  /\ UNCHANGED <<cnts, mReadSem, mWriteSem>>

\* releaseWrite gives up the exclusive semaphore first, without the guard.
ReleaseExcl(t) ==
  /\ Goto(t, "writing", "write_leave")
  /\ mWriteExclSem' = TRUE
  /\ UNCHANGED <<cnts, mReadSem, mWriteSem>>

\* Mutant: the readers' tickets are looked at before the writer is counted out.
BugGrantBeforeLeft(t) ==
  /\ Goto(t, "write_leave", "idle")
  /\ mRunningWritersCnt' = mRunningWritersCnt - 1
  /\ mActiveWritersCnt' = mActiveWritersCnt - 1
  /\ grantReadTickets(mActiveReadersCnt, mRunningReadersCnt, mActiveWritersCnt)
  /\ UNCHANGED <<mWriteSem, mWriteExclSem>>

ReleaseTicket(t) ==
  /\ Goto(t, "write_leave", "idle")
  /\ mRunningWritersCnt' = mRunningWritersCnt - 1
  /\ mActiveWritersCnt' = mActiveWritersCnt - 1
  /\ grantReadTickets(mActiveReadersCnt, mRunningReadersCnt, mActiveWritersCnt - 1)
  /\ UNCHANGED <<mWriteSem, mWriteExclSem>>

\* tryAcquireWrite takes its ticket inside the guard.  No other task can be
\* waiting for one (TicketsConserved), so it always gets it, and the branch
\* that gives the ticket back is never taken.
TryAcquireWrite(t) ==
  /\ mRunningReadersCnt = 0 /\ mRunningWritersCnt = 0
  /\ Goto(t, "idle", "try_excl")
  /\ grantWriteTickets(mActiveWritersCnt + 1, mRunningWritersCnt, mRunningReadersCnt, 1)
  /\ UNCHANGED <<mActiveReadersCnt, mRunningReadersCnt, mReadSem, mWriteExclSem>>

\* doAcquireExclWrite drops the result of mWriteExclSem.tryAcquire().
TryTakeExcl(t) ==
  /\ Goto(t, "try_excl", "writing")
  /\ mWriteExclSem' = FALSE
  /\ UNCHANGED <<cnts, mReadSem, mWriteSem>>

Blocking(t) ==
  \/ AcquireRead(t) \/ TakeReadTicket(t) \/ ReleaseRead(t)
  \/ AcquireWrite(t) \/ TakeWriteTicket(t) \/ TakeExcl(t)
  \/ ReleaseExcl(t) \/ ReleaseTicket(t)
Conditional(t) == TryAcquireWrite(t) \/ TryTakeExcl(t)

Next == \E t \in Tasks : Blocking(t)
NextTry == \E t \in Tasks : Blocking(t) \/ Conditional(t)

\* A task that has the resource gives it back; one that is blocked on a
\* semaphore that is posted again and again gets it in the end (it may lose
\* single races: pt_sem_wait is not first come, first served).
Fairness ==
  \A t \in Tasks :
    /\ WF_vars(ReleaseRead(t)) /\ WF_vars(ReleaseExcl(t)) /\ WF_vars(ReleaseTicket(t))
    /\ SF_vars(TakeReadTicket(t)) /\ SF_vars(TakeWriteTicket(t)) /\ SF_vars(TakeExcl(t))

Spec == Init /\ [][Next]_vars
FairSpec == Spec /\ Fairness
SpecTry == Init /\ [][NextTry]_vars

-----------------------------------------------------------------------------
Readers == At({"reading"})
Writers == At({"writing"})
Places == {"idle", "read_ticket", "reading", "write_ticket", "write_excl",
           "writing", "write_leave", "try_excl"}

\* Every place of a call, every counter and every semaphore keeps its range.
TypeOK ==
  /\ pc \in [Tasks -> Places]
  /\ mActiveReadersCnt \in Nat /\ mActiveWritersCnt \in Nat
  /\ mRunningReadersCnt \in Nat /\ mRunningWritersCnt \in Nat
  /\ mReadSem \in 0 .. SemMax /\ mWriteSem \in 0 .. SemMax
  /\ mWriteExclSem \in BOOLEAN

\* The resource is never read and written at the same time, nor written by two
\* tasks: "Only one writer at a time is allowed (and no readers)" (acquireWrite).
ReadersExcludeWriters == Readers = {} \/ Writers = {}
OneWriter == \A t, u \in Writers : t = u
Exclusive == ReadersExcludeWriters /\ OneWriter

\* No ticket is lost and none is granted twice: the active tasks are the ones
\* that asked and have not left, the running ones hold the resource or have a
\* ticket that still lies in the semaphore, so no release of a full semaphore
\* was dropped; and outside of the guard readers wait only for active writers,
\* writers only for running readers.
TicketsConserved ==
  /\ mActiveReadersCnt = Cardinality(At({"read_ticket", "reading"}))
  /\ mActiveWritersCnt = Cardinality(At({"write_ticket", "write_excl", "writing",
                                         "write_leave", "try_excl"}))
  /\ mRunningReadersCnt = Cardinality(Readers) + mReadSem
  /\ mRunningWritersCnt =
       Cardinality(At({"write_excl", "writing", "write_leave", "try_excl"})) + mWriteSem
  /\ mActiveWritersCnt = 0 => mReadSem = Cardinality(At({"read_ticket"}))
  /\ mRunningReadersCnt = 0 => mWriteSem = Cardinality(At({"write_ticket"}))

\* Liveness: a writer that asks gets to write, whatever the readers do ("it
\* should be enabled to do so as soon as possible").
WritersGetIn == \A t \in Tasks : pc[t] = "write_ticket" ~> pc[t] = "writing"

\* Liveness: if again and again no writer is active, every reader gets in.
ReadersGetIn ==
  []<>(mActiveWritersCnt = 0) => \A t \in Tasks : pc[t] = "read_ticket" ~> pc[t] = "reading"

\* The lock implements the promise of its header: once a writer is ready the
\* number of readers that go in before it is settled, though not which ones.
RW == INSTANCE ReadersWriters WITH
  waitingReaders <- At({"read_ticket"}),
  waitingWriters <- At({"write_ticket", "write_excl"}),
  readers <- Readers, writers <- Writers, passes <- mReadSem
ReadersWritersSpec == RW!Spec
=============================================================================
