# A TLA+ model of sipX

TLA+ modules, TLC configurations and TLAPS proofs for the sipX libraries (`sipXportLib`, `sipXtackLib`,
`sipXcallLib`, `sipXmediaLib`, `sipXmediaAdapterLib`).  The core is the transaction layer of the SIP stack: the tree of
client transactions that calls one server after the other, and the protocol by which the tasks of a user agent share
these trees.  Around it stand four more components that tasks meet in: the reader/writer lock and the timers of the port
library, the refresh of subscriptions and registrations, and the call handles of the programming interface.

Contents: [the system](#the-system), [the modules](#the-modules), [what is checked](#what-is-checked),
[what is proved](#what-is-proved), [where code and comments disagree](#where-code-and-comments-disagree),
[abstractions](#abstractions), [not modelled](#not-modelled), [plan](#plan).

## The system

| Component | State | Operations | What makes it hard | What makes it correct |
|---|---|---|---|---|
| **Transaction locking** (`SipTransactionList`, busy flag and waiting list of `SipTransaction`) | a hash bag of transactions, one mutex; per transaction a busy flag, a time stamp, a parent, a queue of `OsEvent` | `addTransaction`, `findTransactionFor`, `waitUntilAvailable`, `markAvailable`, `linkChild`, `removeOldTransactions` | every socket reader, the application and the user agent's task meet here; work goes on with the mutex free; a wait may time out while it is being answered | one task per tree; nothing collected in use; trees collected whole; every waiter reachable, and woken |
| **`OsEvent`** (port library) | a flag, a binary semaphore, data | `signal`, `wait`, `reset` | `signal` is not atomic; "who comes second deletes" | no event is used after it is deleted |
| **Client transaction tree** (`SipTransaction`) | per transaction: state, canceled and recursing flags, last responses, timers; the tree | `handleOutgoing`, `handleIncoming`, `handleResendEvent`, `handleExpiresEvent`, `startSequentialSearch`, `recurseDnsSrvChildren`, `cancel`, `findBestResponse` | resends, three kinds of expiration, late answers and cancels in any order | one server at a time; every tree ends, and tells at most one failure; what rings is canceled |
| **Server transactions, forking proxy** (`SipTransaction`) | a server root with client branches | response resends, incoming CANCEL, 3xx/6xx rules | as above, with two directions | one final response upstream |
| **`SipUserAgent`** | message queue, observers, listener queues, the list of transactions | `send`, `dispatch`, `handleMessage`, `garbageCollection`, `shutdown` | timers queued for a transaction that is collected; shutdown | every message handled once; no timer used after it is deleted |
| **Reader/writer lock** (`OsRWMutex`) | four counters under a guard, two counting semaphores of tickets, one binary semaphore | `acquireRead`, `acquireWrite`, `releaseRead`, `releaseWrite`, `try...` | a ticket is granted under the guard and taken outside it, by whoever comes first | readers and writers exclude each other; no ticket is lost; no ticket is granted to a reader while a writer is ready |
| **Timers** (`OsTimer`, `OsTimerTask`, `OsSysSoftTimer`) | per timer a state and a number; the queues of the task and of the thread; a differential queue, a reference time | `oneshotAfter`, `periodicEvery`, `stop`; forward; add, remove, fire | starts are asynchronous through two queues, stops wait for both; timers fire in between | a stopped timer is not used any more; no timer is moved by another; started ones fire |
| **Queues, server tasks, remote calls** (`OsMsgQShared`, `OsServerTask`, `OsRpc`) | buffer, semaphores | send/receive with timeout, flush | timeout against arrival | bounded queue, no lost message |
| **Event pools** (`OsProtectEventMgr`, `OsQueuedEvent`) | free and used lists | `alloc`, `release` | the same double signal as above | an event is in one list |
| **Refresh, registration** (`SipRefreshManager`, `SipRefreshMgr`, `SipLineMgr`) | a record per refresh: request state, expiration, timer, last request; the task's queue | `initiateRefresh`, `stopRefresh`, timer, response | a response or a timer's event that comes after the stop; requests sent with the mutex free | a refresh goes on until it is stopped; no expiration is told that the server did not grant |
| **Dialogs, subscriptions** (`SipDialogMgr`, `SipSubscriptionMgr`, `SipSubscribeClient/Server`) | dialog table, sequence numbers, expiration | create, update, refresh, end, notify | early and forked dialogs; expiration against refresh | each request in its dialog, in order |
| **Calls** (`CallManager`, `CpPeerCall`, `SipConnection`) | connection state, hold state, transfer | offer, answer, hold, refer, hang up | glare, hold crossing re-INVITE, transfer | the state machine stays in its legal transitions |
| **sipXtapi** (`sipXtapiInternal`, `SipXHandleMap`) | a map of handles with one mutex and reference counts; a reader/writer lock per call | create, look up and lock, unlock, free, remove | removal while another thread waits for the lock, with the map locked | no call data is used under the lock after it is deleted; lookups end |
| **TAO, PTAPI, PS** | forwarding objects | remote calls | none of their own | - |
| **Media** (`MpBuf`, `MpJitterBuffer`, `MpFlowGraphBase`, `MprDejitter`) | buffer pool with counts, packet window, flow graph | get, addRef, release, push, pull | 16-bit sequence numbers, pool at its limit | a buffer has one owner or a count |
| **RTCP, media adapter, containers, parsers, transport** | statistics, interface, data structures, sockets | - | I/O and data, not control | covered by the unit tests |

Interactions.  A socket reader gets a message and calls `SipUserAgent::dispatch`, which calls
`SipTransactionList::findTransactionFor`; the application calls `SipUserAgent::send`, which does the same; timers post
messages to the queue of the `SipUserAgent` task, whose `handleMessage` again does the same.  All three then work on the
transaction tree they have locked (`handleIncoming`, `handleOutgoing`, `handleResendEvent`, `handleExpiresEvent`) and
release it with `markAvailable`, which signals the first waiter.  When its queue is empty the user agent's task collects
the transactions that were not touched for a while.

Thus the two models fit together: `SipTransactionList` shows that a handler has its tree to itself (`OneHolder`), which
is why a handler is one step of `SipTransaction`.

The other components meet at the same places.  A refresh sends its requests with `SipUserAgent::send` and gets timer
events and responses in the queue of its own task; its timers, and those of the transactions, are `OsTimer`s.  That a
stopped timer is not used any more (`StoppedIsUnused`) is what lets an owner that stops its timer arm it again or delete
it, as `OsStunDatagramSocket`, `OsSysLogTask` and `PsHookswTask` do.  It holds of a timer that was registered before.
`SipRefreshManager` (`SipRefreshManager.cpp:998`) and `SipTransaction` (`SipTransaction.cpp:1168` and on) make a new
`OsTimer` for each arming, so each of their stops is a first one, which `StoppedIsUnused` says nothing about: what may
happen to such a stop is finding 4.  The call handles hold an `OsRWMutex` per call, so a reader or writer of `SipXHandles` is a task
that `OsRWMutex` has let in (`Exclusive`).

## The modules

| Module | Models | Lines |
|---|---|---|
| `OsEvent` | `OsEvent.cpp`: flag, semaphore, allocation | 59 |
| `SipTransactionList` | `SipTransactionList.cpp` and the locking half of `SipTransaction.cpp` | 448 |
| `TransactionTrees` | what the list promises: a forest of trees in the hands of at most one task each | 61 |
| `SipTransactionListProperties` | the list's properties and the mapping to `TransactionTrees` | 103 |
| `SipTransactionListProofs` | its theorems | 1614 |
| `SipTransactionListWaitersProofs` | the theorems about its waiting lists | 2131 |
| `SipTransaction` | the client half of `SipTransaction.cpp`, with the parts of `SipUserAgent` that drive it | 398 |
| `SerialSearch` | what the tree promises: the servers one after the other, and at most one verdict of failure | 106 |
| `SipTransactionProperties` | its properties and the mapping to `SerialSearch` | 92 |
| `SipTransactionProofs` | its theorems | 2571 |
| `ReadersWriters` | what a reader/writer lock promises, without counters and semaphores | 75 |
| `OsRWMutex` | `OsRWMutex.cpp`, with properties and the mapping to `ReadersWriters` | 208 |
| `OsRWMutexProofs` | its theorems | 553 |
| `OsTimer` | `OsTimer.cpp`, `OsTimerTask.cpp`, `OsSysSoftTimer.cpp`, with properties and the mapping to `AlarmClock` | 345 |
| `AlarmClock` | what the timers promise: orders, alarms in the order they are due, stops | 81 |
| `OsTimerProofs` | its theorems on stopped timers | 1572 |
| `OsTimerQueueProofs` | its theorems on the differential queue, and that it is an alarm clock | 1853 |
| `SipRefreshManager` | `SipRefreshManager.cpp`, with properties | 370 |
| `SipRefreshManagerProofs` | its theorems | 1658 |
| `SipXHandles` | `SipXHandleMap.cpp` and the call handles of `sipXtapiInternal.cpp`, with properties | 295 |
| `SipXHandlesProofs` | its theorems | 426 |
| `MC...` | the instances of the two transaction modules for TLC | 13 |

`Bug...` operators are not part of the model: each one is a variant of the definition after it, with a plausible mistake
(listed in `PROJECT.json` under "mutants") that the named property is known to notice.

### `SipTransactionList` and `OsEvent`

Variables are the fields of the classes (`mTransactions`, `mIsBusy`, `mWaitingList`, `mListMutex`, `mIsSignaled`,
`mSignalSem`) and the locals of the tasks (`target` is the transaction pointer a task works with, `event` the
`waitEvent`, `toDelete` is `transactionsToBeDeleted`).  `topParent` stands for the chain of `mpParentTransaction`,
`allocated` and `liveEvents` for the heap: a deleted object's address may be allocated again.

A task's `pc` says where it is.

| `pc` | Code | Actions |
|---|---|---|
| `idle` | between messages | `Found`, `NotFound`, `RemoveOldTransactions` |
| `none` | a lookup returned NULL | `NewTransaction` (a request), `DropMessage` (a response or a timer) |
| `own` | the tree is busy and ours | `SendRequest`, `NewChild`, `MarkAvailable` |
| `link` | a child is in the list, not linked | `LinkChild` |
| `check` | top of the loop of `waitUntilAvailable` | `CheckAvailable` |
| `waiting` | `waitEvent->wait` | `Wake`, `WaitTimeout`, `WaitGiveUp` |
| `giveTest`, `giveSet`, `givePost` | `waitEvent->signal(-1)` | `GiveTest`, `GiveSet`, `GivePost` |
| `after` | the log of a long wait, then the loop's test | `AfterWait` |
| `test`, `set`, `post` | `signalNextAvailable`, `signalAllAvailable`, mutex held | `SignalTest`, `SignalSet`, `SignalPost`, `SignalDone` |
| `delete` | the collected transactions are deleted, mutex free | `DeleteTransactions` |

A step is what happens under the list mutex, or one access of an event without it.  `OsEvent::signal` is cut in three
(test, set, post) because one side calls it with the mutex and the other without.  The mutex is a variable of its own
only where it is held across several steps; the other critical sections are one step each.

`TransactionTrees` is what all this is for, without mutex, flags, events or ages: a forest in which a task takes a tree
that is free (`Take`), makes a transaction that is a tree of its own (`Create`), joins it to the tree it has (`Link`) and
gives the tree back (`Release`), while trees that are free are collected as a whole (`Collect`).  The mapping takes the
trees of the transactions in the list for the forest, and for a task's hand the tree of its `target` while it works on
it, with its `child` until that is linked.  Waiting, signalling and deleting are stuttering steps.

### `SipTransaction`

Transaction 0 is the root, which stands for the application's request and sends nothing; 1..`MaxSrvRecords` are its DNS
SRV children, in the order of preference.  The variables are the fields of the class (sets of transactions for flags);
`mTimers` is the set of running timers, `timesSent` the count of sends, `dispatched` the sequence of final responses
that the tree itself gave to the application (`queueMessageToObservers`), `forwarded` counts those that went past it,
`appCancel` is the transaction that the application's CANCEL matched.

| Action | Handler |
|---|---|
| `Send` | `SipUserAgent::send` of a new request: `handleOutgoing`, `recurseDnsSrvChildren`, `doFirstSend` |
| `Provisional`, `FinalOk`, `FinalFailure` | `handleIncoming` and `handleChildIncoming` of a child |
| `NewFinal` | `SipUserAgent::dispatch` for `MESSAGE_NEW_FINAL`: any further final of a server that has answered finally |
| `Resend`, `Expires`, `ExpiresRoot` | `handleResendEvent`, `handleExpiresEvent`, `handleChildTimeoutEvent` |
| `AppCancelRoot`, `AppCancelChild` | `SipUserAgent::send` of a CANCEL |
| `CancelResend`, `CancelExpires` | the same timer handlers, for the message of that CANCEL |

All of them end, as the code does, in `startSequentialSearch` and, when the search is over, the dispatch of the best
response.  The operators of the search take the states that the handler has brought the children to so far (`st`), since
the handler changes a child before it searches.  `next` is the server that the search ends at: each send may fail at
once, so it is any server that the search reaches, or `Nobody`.

`SerialSearch` is what the application sees of all this, without transaction states, timers, messages and flags: servers
in an order, of which one after the other is called (`Begin`, `Call`), which answer at any time (`Hear`), are given up
(`GiveUp`) or fail (`Fail`), and a verdict: a success (`Succeed`), or another final response once nobody is left to try,
an answer stands, or time is over (`Exhaust`).  The application or the time of the request may abandon the search
(`Abandon`).  A server that has answered finally may answer again, with another code or, to an INVITE that it forked,
from another branch: `whatRelation` (`SipTransaction.cpp:4922-4973`) calls that a new final, whatever its class and the
method, and `SipUserAgent.cpp:1960-1983` passes it on without touching the tree.  `Forward` is this: it is heard beside the
verdict and moves nothing.  So the application may hear two failures, or one after a success; what the tree itself tells
is at most one failure, the first thing it tells.  The mapping takes the servers that may still be called for `untried`,
those in pursuit for `pursued`, and those that answered and were not canceled for `holding`; `over` is the root's
`mDispatchedFinalResponse`, `finals` is `dispatched`, `further` is `forwarded`.  Resends,
repeated answers, and CANCEL messages that change no more than flags are stuttering steps.

### `OsRWMutex` and `ReadersWriters`

A step is what happens between `mGuard.acquire` and `mGuard.release`, or one acquire or release of a semaphore outside of
the guard.  `pc` says what a task waits for: `read_ticket` and `write_ticket` stand before the counting semaphores,
`write_excl` before `mWriteExclSem`, `write_leave` is a writer that has released that one and not yet its ticket,
`try_excl` the conditional writer.  `Post` is `OsCSem::release`, which loses a release at the maximum.  `Next` has the
blocking calls; `NextTry` adds the conditional writer, whose result of `mWriteExclSem.tryAcquire` the code drops (lines
280-289), so that it may write beside another: that readers and writers exclude each other is proved of `SpecTry`, that
writers do (`Exclusive`) of `Spec`.  Nothing in the libraries calls `tryAcquireWrite`.

`ReadersWriters` is the promise of the class: one writer or any number of readers, and while a writer is ready no pass is
added to those that were given to the readers before it, so that a writer waits for no more readers than were let in
before it asked.  Passes bear no name, as the tickets in `mReadSem` do not: a reader that comes after the writer may take
the pass of one that came before and go in first (`OsRWMutex.cpp:178`); the other then waits (`ReadersGetIn`).  The mapping takes the tickets that lie in
`mReadSem` for the passes, and a writer that waits
for either semaphore for a waiting one.

### `OsTimer`

The owners of the timers, the task and the thread are separate processes joined by two queues, `taskQ` and `requestQ`.

| Action | Code |
|---|---|
| `doStartTimer` | `oneshotAfter`, `periodicEvery`: state and a START message |
| `doStopTimer`, `stopTimer` | `stop`, `~OsTimer`: the test of the state, then a STOP message and the wait |
| `handleMessage`, `RemovalDone` | `OsTimerTask::handleMessage`: ADD is only queued, REMOVE is waited for |
| `doServiceRequests` | the thread handles one request: `doAddTimer` or `doRemoveTimer` |
| `Settle` | the wait for a request timed out, or there is no request left: the reference time is set to now, the first timer is charged, and leaves the queue if it has expired |
| `Fire` | after `notifier->signal`: a periodic timer goes back, a oneshot is `STOPPED` |
| `Tick` | time passes |

The differential queue is modelled as it is: each node's `expiry` counts from the node before it, `insertQ` and
`doRemoveTimer` correct the next one, and `lag` is the time that has passed since the reference.  `left` is a history
variable, the ticks until the node is really due.  The timers in `Fresh` were never armed: they have no number yet.

`AlarmClock` knows neither queues nor differences.  An owner orders an alarm (`Order`), which is set later (`Arm`), early
by as much as the clock is behind then; or rings at once if it is over already (`RingAtOnce`).  The first of the alarms
that are due rings (`Ring`), a periodic one is due again a period after it was due; a stop (`AskStop`) takes the alarm
away (`Disarm`) and returns once there is neither order nor alarm (`Return`).  The mapping takes the START messages and
ADD requests on their way for the orders, with `mExpiresAt`; the nodes of the queue, and the one that is being fired, for
the alarms, with the ticks they have `left`; and the owners in `stop` for `stopping`.  The forwarding by the task and
`Settle`, where the thread corrects its differences, are stuttering steps, and so is a removal that finds nothing.  Timers
in `Fresh` are left out of the mapping, because of finding 4: the first stop of a timer may return too early.

### `SipRefreshManager`

The applications start and stop refreshes, the task handles timer events and responses from its queue, timers run and
servers answer.  Expirations and ages count from now.  `initiateRefresh` is cut where it sends with the mutex free and
where it comes back from a failed send, `Refresh` and `SendRefresh` likewise.  A request in flight says whether it ends
the subscription, whether it is already sent, and whether it is the last of its dialog; `SipDialogMgr` drops responses to
all but the last (`isLastLocalTransaction`).  `queue` has timer events (fired or interrupted: a timer that is stopped
after a failure puts its event in the queue itself) and responses.

A server grants what it likes (`Serve`): more than was asked for, less than is left of what it granted before, or nothing.
Its 2xx may state no Expires; `RequestSucceeded` then takes what was asked for, as the code does
(`SipRefreshManager.cpp:708-712`), and a granted 0 is an expiration now (721-725).  A failure leaves the expiration what it
was (756), also when the server has taken the request and only its answer was lost.

### `SipXHandles`

`fn[t]` is the function of sipXtapi that a task is in, and where in it.  A lookup takes the map's mutex (`findHandle`),
keeps it while it waits for the call's lock (`acquire`), and lets it go; unlocking may have to free a reference, and to
remove the handle when it was the last one.  The tone functions take an additional reference (`addHandleRef`), as the code
does, for whichever call they are given.  DESTROYED may free a call more than once, since the filter of duplicates never
works (`sipxCallGetState` always returns false, `sipXtapiInternal.cpp:269-280`).

| Action | Code |
|---|---|
| `Use` | functions that lock a call, work with it and unlock it |
| `UseLate`, `LateUse` | `sipxCallGetConnectionMediaInterface` (`sipXtapiInternal.cpp:1139-1146`), `sipxCallConnect` (`sipXtapi.cpp:989-994`) and `sipxConferenceAdd` (2539), which read the data after the unlock |
| `sipxConferenceSplit`, `SplitRefused` | the write lock of a call that is not held is left behind (`sipXtapi.cpp:2426`, 2458-2462); `leaked` names such calls |
| `sipxCallObjectFree`, `releaseHandleRef`, `removeHandle` | a call is freed in two critical sections of the map |
| `sipxCallStartTone`, `CheckTone`, `addHandleRef`, `ToneStarted`, `sipxCallStopTone`, `StopPlaying` | the tones |

## What is checked

`tlc -config <run>.cfg <module>`; the states are distinct ones, with two workers.

| Run | Instance | States | Shows |
|---|---|---|---|
| `list_protocol` | 3 tasks, 2 transactions, 2 events, `OldAge` 1, symmetry | 957,000 | the safety of the locking; the list implements `TransactionTrees` |
| `list_liveness` | 3 tasks, 1 transaction, 2 events, no symmetry | 234,596 | waiters are woken; the collected is reported |
| `list_stranded`, `list_event_freed` | as `list_protocol` | - | findings 1 and 2 |
| `uac` | 2 servers (one over TCP), 2 sends over UDP, INVITE and not, one further final | 423,296 | the safety of the tree; it implements `SerialSearch`; silent servers give way; the application hears a final response |
| `uac_app_cancel` | as `uac` | - | finding 3 |
| `rw` | 4 tasks, `SemMax` 4 | 1,448 | the lock implements `ReadersWriters`; writers and readers get in |
| `handles` | 3 tasks, 1 call, tones on handles with one reference | 320,128 | call data lives under the lock; a removal that crosses a lookup and a lock that was left behind block, nothing else does |
| `timer` | a oneshot and a periodic timer, offsets 0, 1, 3, period 2 | 113,820 | stops are final; no timer is moved by another; they fire; they implement `AlarmClock` |
| `timer_stop_lost` | the same timers, never armed before | - | finding 4 |
| `refresh` | one refresh of 4 ticks, of which a server grants 0, 2 or 5 | 860,257 | a refresh goes on; expirations are safe; what failed is sent again |
| `refresh_stop` | as `refresh` | - | finding 5 |

Bounds, and why they are enough.

- *list*: with three tasks one holds a tree, one waits for it and one comes in between; two waiters make the order of the
  queue matter.  Two transactions make a tree of a parent and a child, or two trees; with one waiting event for each of
  the other tasks two addresses suffice, and reuse happens as soon as one is deleted.  `OldAge` 1 makes a transaction old
  one tick after it was touched; the age stays at its limit, since the code only compares it.  Thirty timeouts are two, a
  first one (it makes the dump of the tree possible) and a last one.
- *uac*: two servers are needed for one to be given up while the other is called.  `ResendTimes` is 7 in the code
  (`SIP_UDP_RESEND_TIMES`, `SipTransaction.cpp:30`); 2 gives the first send, a resend, and the exhaustion.  `MaxForwarded`
  bounds the further finals that are passed through, the only thing that could go on for ever; `NewFinal` changes nothing
  but their count, so that one of them, which may come at any time and of any class, meets every state of the tree.
- *rw*: two readers and two writers that meet in every order; `SemMax` is as small as it may be, one ticket for each
  task.
- *handles*: one task that uses a call, after the unlock too, one that removes it or leaves its lock behind and one that
  plays a tone on it.  One call suffices for the
  first three properties; the other calls add only tasks that wait for the map's mutex.  `MaxRefs` 1 allows a second
  reference, of the tone.
- *timer*: one timer of each kind, before, at and after the other in the queue, with the thread's own dummy timer as the
  third node.  Offset 0 is a timer that has already expired when it is added.  `MaxLag` 2 lets the thread be as late as
  a period and as its heartbeat.
- *refresh*: refreshes share only the queue and the task.  Four ticks leave a resend time of 2 after a success and the
  minimum of 1 after a failure.  The server grants 5 (`Longest`, more than was asked for), 2 (less, which may also be less
  than what it granted before) or 0.  With `MaxFlights` 1 and `MaxQueue` 1 two requests (a refresh and the stop that
  overtakes it) and two messages may be under way.

Deadlock is checked in the runs of the list, the lock, the timers and the refresh.  A transaction tree that has no timer
left and is answered really stops, and the call handles really stop in two ways, so `uac` and `handles` do not check it.
In the cycle that `RemovalCycle` names, a lookup holds the mutex of the map and waits for the lock of a call whose holder
wants that mutex to remove it.  In `LeakedWait` a lookup waits, with the mutex, for a lock that `sipxConferenceSplit` has
left behind, and no call can be looked up any more.  `OnlyKnownBlocks` says that the handles stop in no other way: what
some task needs is free (`CanGo`), and a task that finds it free has a step (ENABLED).

Properties, by what they protect (their definitions have the details):

- *exclusion*: `OneHolder`, `BusyIffHeld`, `Exclusive`, `TicketsConserved`, and the refinements `TreesSpec` and
  `ReadersWritersSpec`;
- *life time*: `HeldInList`, `TreesWhole`, `CallDataLives`, `StoppedIsUnused`;
- *waiting*: `WaitersOnTopmost`, `WaiterReachable`, and in time `WaitersAreWoken`, `CollectedIsReported`, `WritersGetIn`,
  `ReadersGetIn`, `OnlyKnownBlocks`, `LookupsEnd`;
- *the search for a server*: `OneServerAtATime`, `NoServerAfterAnswer`, `SettledAtFinal`, and the refinement
  `SearchSpec`, of which `NoServerAfterFinal` and `OneFailure` are parts that are proved by themselves; its *timers*:
  `PursuitIsBounded`, `SilenceIsTimed`, and in time `SilentServersGiveWay`, `AppHearsFinal`;
  *cancel*: `RingingIsCanceled`, `CancelAfterProvisional`;
- *time*: `DueKept` and the refinement `ClockSpec`; `RefreshGoesOn`, `ExpirationIsSafe`; and `StartedFires`,
  `StopReturns`, `FailedIsRetried`.

Fairness.

- *list*: strong fairness of `Work(k)`, the steps of a task that has begun to handle a message: the scheduler of the
  operating system runs it, and the list mutex is created with `Q_FIFO`, so that a task that asks for it again and again
  gets it.  Nothing is assumed of messages, of timeouts and of the clock: `WaitersAreWoken` says what happens as long as
  no wait times out, and `CollectedIsReported` needs no such condition.
- *uac*: weak fairness of `ResendTimer(c)` and `ExpiresTimer(c)` of the servers: these are one-shot timers whose message
  the user agent's task takes from its queue.  No response is assumed to come.  The root's timer, minutes long, is assumed
  to fire only in the hypothesis of `AppHearsFinal`.
- *rw*: weak fairness of releases: who has the resource gives it back; strong fairness of taking a ticket, since a task
  that waits for a semaphore may lose races but not all of them.  Asking is not fair.
- *handles*: strong fairness of a task's next step, which may be the acquisition of a contended mutex.  Functions are not
  assumed to be called.
- *timer*: weak fairness of what the task, the thread and a caller in `stop` do next, and of time; strong fairness of
  `Settle`, because new requests disable it again and again, and the thread finds its queue empty between them.  This
  assumes that the owners do not keep the queue full for ever; if they did, the thread would never get to fire
  (`OsSysSoftTimer.cpp:205`), and `StartedFires` says nothing of that half of the hazard.
- *refresh*: weak fairness of the task, of a call that was begun, of timers, of the servers' answers (a lost answer is a
  failure, which the transaction reports when it times out) and of time.  Starting and stopping are not fair.

## What is proved

`tlapm <module>` for the eight `...Proofs` modules; the theorems hold for any values of the constants that satisfy the
named assumptions.  These are: the user agent is a task, `None` is none of the others, `OldAge` and `ResendTimes` are
positive, `MaxSrvRecords` is a natural number, the reliable servers are servers; the tasks of the lock are finitely many
and not more than the semaphore's maximum; periods and heartbeat are positive; the expiration that is
requested and those that servers grant are at most `Longest`, and resend times are positive.

| Module | Theorem | Property |
|---|---|---|
| `SipTransactionListProofs` | `TypeCorrect` | `TypeOK` |
| | `BusyIsHeld`, `MutualExclusion` | `BusyIffHeld`, `OneHolder` |
| | `HeldIsNotCollected`, `TreesAreCollectedWhole` | `HeldInList`, `TreesWhole` |
| | `ImplementsTrees` | `TreesSpec` (refinement) |
| `SipTransactionListWaitersProofs` | `QueuedOnTopmost`, `WaitersReachable` | `WaitersOnTopmost`, `WaiterReachable` |
| | `NobodySleepsOnCollected` | who waits for a collected transaction is being signalled, or was |
| | `NobodyStranded`, `EventsKept` | `NoStrandedWaiter`, `EventsLive`, as long as no task gives a wait up (findings 1 and 2) |
| `SipTransactionProofs` | `TypeCorrect` | `TypeOK` |
| | `Serial`, `Bounded`, `Timed`, `Settlement` | `OneServerAtATime`, `PursuitIsBounded`, `SilenceIsTimed`, `SettledAtFinal` |
| | `SingleFailure`, `NothingRingsOn`, `NoEarlyCancel` | `OneFailure`, `RingingIsCanceled`, `CancelAfterProvisional` |
| | `FinalIsFinal`, `AnswerStopsSearch` | `NoServerAfterFinal`, `NoServerAfterAnswer` (action properties) |
| | `ImplementsSearch` | `SearchSpec` (refinement) |
| `OsRWMutexProofs` | `TypeCorrect` | `TypeOK` (a lemma of the others: the ranges, no more) |
| | `WritersExcluded` | `Exclusive` |
| | `ReadersWritersExcluded` (of `SpecTry`) | `ReadersExcludeWriters` |
| | `Conservation` (of `SpecTry`) | `TicketsConserved`, which no lost release of a semaphore and no ticket granted twice would keep |
| | `ImplementsReadersWriters` | `ReadersWritersSpec` (refinement) |
| `SipXHandlesProofs` | `TypeCorrect`, `DataLives` | `TypeOK`, `CallDataLives` |
| | `Invariance` | the inductive invariant: who holds the locks, and what is past a lookup is in the map |
| | `OnlyTwoBlocks` | `SomeoneCanGo`, the part of `OnlyKnownBlocks` without ENABLED |
| `OsTimerProofs` | `StopIsFinalForKnown` | `StoppedIsUnused` |
| | `DummyStays` | the differential queue is never empty when the thread looks at it |
| `OsTimerQueueProofs` | `TypeCorrect`, `DifferencesKept` | `TypeOK`, `DueKept` |
| | `QueueInOrder` | the queue is in the order in which its timers are due; nothing fires out of turn or before the time it was set for, which the thread's lag may make early |
| | `ImplementsAlarmClock` | `ClockSpec` (refinement) |
| `SipRefreshManagerProofs` | `TypeCorrect`, `NothingForgotten` | `TypeOK`, `RefreshGoesOn` |
| | `NoFalseHope` | `ExpirationIsSafe` (action property) |

*The list.*  The inductive invariant is the type invariant with what each label of a task implies (`TypeInv`), and
`SafeInv`: who holds a tree has it in the list, busy and allocated; the members of a tree have one busy flag, one age and
one membership in the list; a collected transaction is no one's.  `OneHolder` alone is not inductive: that a lookup which
finds a member free may take the whole tree needs the agreement of the flags within the tree, and that a collection takes
whole trees needs the agreement of ages and flags.  There is one lemma per action, and `SafeStep` puts them together.

*The list as a forest.*  `ImplementsTrees` shows every step of the list to be a step of `TransactionTrees` or to change
neither forest nor hands, from the same `SafeInv` (a lemma `Forest...` for each action that is not a stuttering step).
`Take` needs that a tree with one free member is in nobody's hands (`FreeTree`, by the agreement of the flags in the
tree); `Collect` that whatever is old and free is a union of whole trees; `Link` that the joined child was a tree of one
and that no other task's tree is touched by its new parent.  The deletion of what was collected changes no tree that is
left, although it resets the parents of what it deletes (`ForestDelete`).

*The waiting lists.*  `WaitersOnTopmost` could only break where a transaction with a queue becomes a child; `UnlinkedInv`
says that this never happens: a child that is not linked yet has not sent its request, so that no message matched it.
That a waiter can always be woken (`WaitInv`) is a matter of where its event is.  An event is in at most one queue and
at most once there, nobody queued or taken off a queue is deleted (`QueueInv`, `PendingInv`), no two waiters have the same
event, and the event of a waiter whose flag is set is in no queue and is not about to be signalled (`WaiterInv`).  So the
flag a signaller finds set belongs to a waiter that is done, and what it deletes nobody waits for.  The proof uses
`WaitersOnTopmost` once, for the collection, which empties only the queues of topmost parents.

*Collected transactions.*  `PlaceInv` adds that an event is queued on the tree of the transaction its task waits for; no
step parts the members of a tree in which somebody is queued (`TreesKept`).  As trees leave the list whole, an event that
is still queued belongs to somebody whose transaction is in the list: the others are signalled (`NobodySleepsOnCollected`).

*Patience.*  The counterexamples of findings 1 and 2 both begin with a wait that is given up after its thirty seconds.
`NobodyStranded` and `EventsKept` show that nothing else breaks these two promises: they hold in every behaviour in
which no task has given a wait up (`Patient`).  Then a waiter always comes second to signal its event (`SecondInv`), so
whatever is queued or being signalled is unset and has a task that waits for it (`AwaitedInv`), and a signal is never
spent on nobody.  `HandInv` follows the tree from hand to hand: a tree that is free while somebody is queued on it has an
heir (`Heir`), a task that looks for it, or waits with an event that is in no queue any more.  A release makes the first in
the queue the heir (`HandReleases`), an heir that wakes looks again (`HandSeeks`), and it ends by taking the tree or by
finding it taken (`HandChecks`); everybody else leaves the heirs alone (`HandOthers`).  TLC checked these invariants before
they were proved.

*The tree.*  `IInv` is `TypeOK`, `TreeInv` and `CancelInv`.  `OneServerAtATime` is not inductive: the search that starts
when a server gave up must not find another one pursued further on, which holds because the servers are taken in order, a
server that was not tried comes after all those that were (`InOrder`), and only those that were sent can answer
(`AnswersAreSent`).  `Settling` says that a dispatched final response leaves no server to be called.  All handlers that
search share the middle of their work: the lemma `SearchKeeps` starts from `MidInv`, what holds after the handler has
changed the child, and proves `TreeInv'`; the handlers that do not search go through `QuietStep`.  `CancelInv` carries
`ProceedingIsHeard`: a transaction is only proceeding once a provisional response was heard.

*The tree as a search.*  `ImplementsSearch` needs `SearchInv` besides `IInv`: the servers before a canceled one are
canceled too and the whole tree with the root (`CanceledTogether`), timers run only for servers that were sent the request
(`TimersAreSent`), only servers that were called have answered (`AnswersAreCalled`), and a tree that has had a success has
told it (`SuccessIsTold`).  What a handler's search does is worked out once (`SearchMoves`, `SearchOutcome`): it tries
the next server, or goes on waiting, or ends, with nobody left or an answer that stands; only the last of them dispatches.
Each action then has a lemma that says which abstract step it is in which of these cases.

*The lock.*  Exclusion is a matter of counting.  The invariant equates the counters with the numbers of tasks at each
place of their calls and with the tickets that lie in the semaphores (`TicketsConserved`), and says that running readers
and running writers are never both there.  `TypeOK` gives only the ranges of the semaphores, which the capping in `Post`
keeps anyway; that no release is lost is `TicketsConserved`, since a lost one would leave a task counted as running
without a ticket to take.  For the refinement each action is shown to be a step of `ReadersWriters` or to leave its variables
alone; the one that matters is `ReleaseTicket` of the last writer, which admits the waiting readers.

*The handles.*  `LockInv` says who holds the map's mutex and the call's lock at each place of a function; data in the map
is not deleted because a task removes a handle only with the mutex, while a task between lookup and lock has it.  None of
this is said of a task that is past its unlock (`late`), and it holds although locks are left behind.
That the tasks stop only in the removal cycle or behind a leaked lock (`OnlyTwoBlocks`) needs the other direction
(`HoldInv`): whoever holds the mutex is at the lock of a call, and whoever holds the lock of a call is using it, is about
to remove it, or left it behind.  So a task that can not go on waits for one that can, closes the cycle, or waits for a
lock that was left.

*The timers.*  That a stop is final needs the order of the queues: for each timer whose number is known there is at most
one START message, ADD request, queue node or firing node in the whole machine (`ArmedOnce`), and while its owner is
stopping it, START stands before STOP and ADD before REMOVE (`StopInv`), so that what was armed is removed by the time the
removal is answered.  The lemmas about `insertQ`, `RemoveNode` and `Tail` say which timers the queue has afterwards.

*The differential queue.*  `Due` sums the differences up to a node by a recursive function, about which induction over
the queue is not available; instead `SumExists` and `SumUnique` show, by a smallest counterexample, that each
queue has exactly one function that satisfies the recursion, so that `DueFacts` may use it as an equation and a new
queue's sums are known as soon as one candidate fits.  `TimeInv` says that every node's time left is its sum less the
lag of the thread's reference (`Timely`); insertion, removal, the charge of the first node, its expiry and a tick each
keep that (`InsertTimely`, `RemoveTimely`, `ChargeTimely`, `TailTimely`, `TickTimely`), with the sums of the nodes behind
the change worked out once per operation.  `DueKept` is its consequence, and so is the order of the queue, since the
differences are natural numbers.

*The alarm clock.*  The alarms are a set of timers with their times, the queue a sequence of nodes.  The lemmas
`InsertMarks`, `RemoveMarks`, `TailMarks`, `ChargeMarks` and `TickMarks` say what each operation on the queue does to that
set; the differences do not matter any more, since `TimeInv` relates them to the times.  An order is taken once and a
timer rings in one place because of `ArmedOnce`; a stop returns to an owner without order or alarm because of `StopInv`
and `RequestInv`; and that the alarm which rings is the first of them all, is due, and not late by more than `MaxLag`, is
`NextIsFirst` and `InvFirst`.  There is one lemma for each action (`StartClock` to `TickClock`), and `ClockStep` puts them
together.

*The refresh.*  `ExpirationIsSafe` is about steps: when the task takes a 2xx, and whenever else an expiration would be put
off.  What the application believes between two answers may be later than what the server has, when the server has taken
a request that shortens the subscription and the answer is under way or lost; no client can know better.  The proof needs
that the server still stands by the answer that is taken: no request is behind an answered last one.  The last request of
a dialog is behind all others in flight (`LastIsLast`), before the initial request there is none (`InitialIsFirst`), and
as long as an answer to the last request is in the queue nothing else is in flight, so that what it grants, less its age,
the server keeps (`AnswersHold`).  `RefreshGoesOn` is nearly inductive; it needs `OneUnsent` and the types.

Only model-checked, because fairness and ENABLED are out of the proof system's reach: the liveness properties
(`WaitersAreWoken`, `CollectedIsReported`, `SilentServersGiveWay`, `AppHearsFinal`, `WritersGetIn`, `ReadersGetIn`,
`LookupsEnd`, `StartedFires`, `StopReturns`, `FailedIsRetried`), and of `OnlyKnownBlocks` that a task has a step just when
everything is free for it.  All other invariants, action properties and refinements of the runs are proved.
The violations are TLC's counterexamples.

## Where code and comments disagree

1. `list_stranded`.  `signalNextAvailable` takes one event from the queue.  If its waiter gave up in the meantime
   (`OS_ALREADY_SIGNALED`) the event is deleted and nobody else is signalled: the transaction is free while the others in
   the queue sleep until the next release or the end of their thirty seconds.  The comment at `SipTransactionList.cpp:432`
   promises a signal when the transaction is released.  Only a wait that was given up has this effect (`NobodyStranded`).
2. `list_event_freed`.  `waitUntilAvailable` signals its event after it has released the list mutex, and
   `signalNextAvailable` may be in the middle of `signal` for the same event; both may find the flag unset (nobody deletes
   the event), or one deletes it while the other is about to post its semaphore.  `OsEvent.h:38` asks for an external
   mutex.  Here too a wait must have been given up (`EventsKept`).
3. `uac_app_cancel`.  A CANCEL of the application that matches a DNS SRV child is sent on that child and cancels nothing
   else; if that server stays silent the next one is called.  `SipUserAgent.cpp:957` says that all the children are
   canceled.
4. `timer_stop_lost`.  `OsSysSoftTimer::stopTimer` takes the number of the timer when the timer task handles the STOP
   message, but the number of a timer that is armed for the first time is set when the thread handles its ADD request.  A
   stop that comes in between removes nothing, and the timer stays armed, or is armed later, while its owner may delete
   it.  `OsTimerTask.cpp:29` says that stops block because the caller must not run before the timer is no longer used.
5. `refresh_stop`.  A refresh that failed and expired is sent again by its timer, but its state stays `FAILED`: a stop in
   that moment takes it for neither pending nor alive and sends no request to end it, and the server may then grant the
   one under way.  The comment at `SipRefreshManager.cpp:396` says that a pending request is enough.

More that the models have but no run singles out: a server whose resends were exhausted is `COMPLETE`, and is canceled
without a CANCEL although it rings late (`SipTransaction.cpp:3840` says that hearing a provisional response is enough);
a 2xx that comes as the second final response of a branch is passed through without ending the search
(`SipTransaction.cpp:1796` says of a success that "we are done"); and the reference that `sipxCallStartTone` adds may come
after another task has removed the handle, since the lookup has given its lock back, so that the count belongs to no
handle (`sipXtapi.cpp:1403` says that with it there is still a valid one to stop the tone with).  The comments of
`OsRWMutex.h` that the two counts of writers are "always <= 1" hold of the writers that write, not of the counts.

## Abstractions

*The list.*  All transactions have one hash.  A message may match any transaction that has sent its request (the
relations of `whatRelation` are left out).  The two ages of INVITE and other transactions are one, `OldAge`; every
transaction ages by the same clock.  The events of one collection are signalled in any order.  An address is not given
out again while a task holds a pointer to it: the identification of a transaction by its address
(`transactionExists`) needs that, and the hazard is listed.  That `SipUserAgent::send` holds two trees for a moment when
the application cancels is not modelled.  Shutdown (`stopTransactionTimers`, `deleteTransactionTimers`) is left out.

*The tree.*  One request of the application with its DNS SRV children; no contacts, so no forking by Q value and no 3xx
recursion; no authentication retry; no server side.  A failure is any response from 400 up, except the 487 that
`findBestResponse` passes over.  A duplicate of a response changes nothing and is left out; a
further final of a server that has answered is passed through and counted (`forwarded`), without what it says.  The ACK has no state here.
The stack's own CANCEL messages run timers that do nothing, because `mIsCanceled` is set before; those of the
application's CANCEL are modelled.  Responses to a CANCEL are left out.  The application sends one CANCEL.  Which
transaction it matches depends on the order of the hash bag: the model lets it match any, so it has the orders that the
code may have and possibly more for the root.

*The lock.*  The queueing policies of the semaphores are left open, and tasks ask for the lock once at a time: a task that
reads and reads again while a writer waits blocks itself and the writer.  `tryAcquireRead` is an `acquireRead` that finds
its ticket, or nothing.

*The timers.*  The destructor is a stop.  `oneshotAt` and `periodicAt` are `oneshotAfter` and `periodicEvery` of another
offset, possibly negative.  A timer is armed only when it is not started, as the assertion of `doStartTimer` demands: an
owner that arms its oneshot again when it hears its notification, before the thread has set the state to `STOPPED`, runs
into that assertion.  The notifier's own work, which may block the thread on a full queue, is part of the step before
`Fire`.  Ticks do not wrap around.  Shutdown of the task and the thread is left out.

*The refresh.*  A dialog has one sequence of requests; its numbers are represented by `last`.  Forked 2xx, provisional
responses and the retry with credentials change nothing here.  One application starts and stops a given refresh.
Callbacks have no state.  A stop waits until the initial request is sent (`initiating = "idle"`); the code handles one
that comes during the send too (`stateExists`, `SipRefreshManager.cpp:339`), which the model leaves out.  The start of the
timer (304) and the insertion of the state (318-320) are one step: in the code the event of a timer that fires in between
would find no state and be dropped, but no timer is shorter than the transaction timeout.  A server does not end a
subscription on its own other than by what it grants.

*The handles.*  A handle is never used for a second call.  What a function does with the call's data is not told apart,
beyond the locks it takes and whether it goes on after the unlock.  What the late uses read is not protected by anything
and `CallDataLives` does not cover them; a function whose second lookup finds nothing ends here, where
`sipxCallBlindTransfer` (`sipXtapi.cpp:1803`) and `sipxCallSendInfo` (1890) go on with what was not set.  A lock that was
left behind stays so.  The map's mutex is recursive in the code, which shows only in functions that lock the map twice:
they are one step.

## Not modelled

- *Server transactions and forking by contacts*, *timers' ownership by transactions and shutdown of the user agent*: part of
  the same files as the core; next in the plan.
- *Message queues, server tasks, event pools, remote calls*: the queues appear as sequences in the modules that use them.
- *Dialogs and subscriptions*, *call processing* (`CallManager`, `CpPeerCall`, `SipConnection`): state machines over many
  message types; only the order of requests in a dialog appears, in `SipRefreshManager`.
- *SIP messages, parsing, URLs, containers, transport*: data and I/O, with unit tests of their own; the models use
  classes of messages, sets, sequences and sends that may fail.
- *Media, RTCP, media adapter*: signal processing, statistics and an interface; of the media library only the buffer pool
  and the dejitter window have control worth a model.
- *TAO, PTAPI, PS*: wrappers that forward calls.
- *Handles of lines, conferences, publications*: their lookups lock after the map's mutex is free, unlike those of calls.

## Plan

1. What a subscription promises its application, which `SipRefreshManager` implements, and the first stop of a timer
   (finding 4) mapped to an `AlarmClock` whose stops may return early.
2. `findBestResponse` as a pure operator over response codes, checked against a reference definition; contacts, 3xx
   recursion and Q values.
3. The ownership of timers between transactions, the queue of the user agent and the collection; shutdown.
4. The server side, and a composition of both with a network that loses and duplicates.
5. `OsMsgQShared` (a bounded queue with timeouts, refining a sequence) and the event pool that answers its requests.
6. Subscriptions at the server (`SipSubscribeServer`), dialogs, `SipConnection`, the dejitter window (16-bit sequence
   numbers).
