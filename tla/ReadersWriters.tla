--------------------------- MODULE ReadersWriters ---------------------------
(* What OsRWMutex promises (OsRWMutex.h: "The readers can use the resource   *)
(* simultaneously, but each writer must have exclusive access to it.  When a *)
(* writer is ready to use the resource, it should be enabled to do so as     *)
(* soon as possible"): one writer or any readers, and while a writer is      *)
(* ready no pass is added to those that the readers before it were given, so  *)
(* it waits for no more readers than were admitted before it asked.  A pass   *)
(* bears no name: whoever waits takes it, a reader that asked later too.      *)
EXTENDS Naturals, FiniteSets

CONSTANT Tasks

VARIABLES
  waitingReaders,  \* tasks that asked to read
  waitingWriters,  \* tasks that asked to write
  readers,         \* tasks that read
  writers,         \* tasks that write
  passes           \* how many of the waiting readers may go in
vars == <<waitingReaders, waitingWriters, readers, writers, passes>>

Free(t) == t \notin waitingReaders \cup waitingWriters \cup readers \cup writers
NoWriterReady == waitingWriters \cup writers = {}

Init ==
  /\ waitingReaders = {} /\ waitingWriters = {} /\ readers = {} /\ writers = {}
  /\ passes = 0

AskRead(t) ==
  /\ Free(t)
  /\ waitingReaders' = waitingReaders \cup {t}
  /\ \/ passes' = passes
     \/ NoWriterReady /\ passes' = Cardinality(waitingReaders')
  /\ UNCHANGED <<waitingWriters, readers, writers>>

AskWrite(t) ==
  /\ Free(t)
  /\ waitingWriters' = waitingWriters \cup {t}
  /\ UNCHANGED <<waitingReaders, readers, writers, passes>>

StartRead(t) ==
  /\ t \in waitingReaders /\ passes > 0 /\ writers = {}
  /\ waitingReaders' = waitingReaders \ {t}
  /\ readers' = readers \cup {t}
  /\ passes' = passes - 1
  /\ UNCHANGED <<waitingWriters, writers>>

EndRead(t) ==
  /\ t \in readers
  /\ readers' = readers \ {t}
  /\ UNCHANGED <<waitingReaders, waitingWriters, writers, passes>>

StartWrite(t) ==
  /\ t \in waitingWriters /\ readers = {} /\ writers = {} /\ passes = 0
  /\ waitingWriters' = waitingWriters \ {t}
  /\ writers' = {t}
  /\ UNCHANGED <<waitingReaders, readers, passes>>

EndWrite(t) ==
  /\ t \in writers
  /\ writers' = writers \ {t}
  /\ UNCHANGED <<waitingReaders, waitingWriters, readers, passes>>

\* No writer is ready any more: every reader that waits may go in.
AdmitReaders ==
  /\ NoWriterReady
  /\ passes' = Cardinality(waitingReaders)
  /\ UNCHANGED <<waitingReaders, waitingWriters, readers, writers>>

Next ==
  \/ \E t \in Tasks : \/ AskRead(t) \/ AskWrite(t) \/ StartRead(t) \/ EndRead(t)
                      \/ StartWrite(t) \/ EndWrite(t)
  \/ AdmitReaders

Spec == Init /\ [][Next]_vars
=============================================================================
