---------------------------- MODULE SerialSearch ----------------------------
(* What the client transaction tree promises whoever sent the request: the   *)
(* servers are tried serially, in the order of preference, each at most once. *)
(* The next server is called only while no server that was not given up has   *)
(* answered, and never after the verdict.  A verdict that is no success is    *)
(* the only one of its kind, and it is not given before a server has answered, *)
(* every server has had its turn, or the search was abandoned.  A success of   *)
(* another server may follow; it always ends the search (SipTransaction.cpp,  *)
(* handleChildIncoming, recurseDnsSrvChildren).  A server that has answered    *)
(* may say more: that is passed on beside the verdict, whatever it is.        *)
EXTENDS Integers, Sequences

CONSTANT Servers    \* numbered in the order of preference

VARIABLES
  begun,     \* the request was sent
  untried,   \* the servers that may still be called
  called,    \* those that were called
  pursued,   \* the one that is waited for, if any
  holding,   \* those that answered and were not given up
  over,      \* the verdict was given
  finals,    \* what the search has told the application
  further    \* how much it passed on of servers that had answered before
vars == <<begun, untried, called, pursued, holding, over, finals, further>>

After(c, servers) == {d \in servers : d > c}

Init ==
  /\ begun = FALSE /\ over = FALSE
  /\ untried = {} /\ called = {} /\ pursued = {} /\ holding = {}
  /\ finals = <<>> /\ further = 0

Try(c, servers) ==
  /\ c \in servers
  /\ called' = called \cup {c} /\ pursued' = {c} /\ untried' = After(c, servers)
  /\ UNCHANGED <<holding, over, finals, further>>

\* The servers are named and the first that can be reached is called.
Begin(named) ==
  /\ ~begun /\ begun' = TRUE
  /\ \/ \E c \in named : Try(c, named)
     \/ UNCHANGED <<untried, called, pursued, holding, over, finals, further>>

\* The one that was waited for gives way to a later one.
Call(c) ==
  /\ ~over /\ holding = {}
  /\ Try(c, untried)
  /\ UNCHANGED begun

\* A server that was called answers.
Hear(c) ==
  /\ c \in called
  /\ holding' = holding \cup {c}
  /\ UNCHANGED <<begun, untried, called, pursued, over, finals, further>>

\* Nobody is waited for any more.
GiveUp ==
  /\ pursued' = {}
  /\ UNCHANGED <<begun, untried, called, holding, over, finals, further>>

Stop == untried' = {} /\ pursued' = {} /\ holding' = {}

\* The application, or the time of the request, ends the search.
Abandon == Stop /\ UNCHANGED <<begun, called, over, finals, further>>

Verdict(response) ==
  over' = TRUE /\ finals' = Append(finals, response) /\ UNCHANGED further

\* A server that fails is the last that was waited for.
Fail(c, response) ==
  /\ begun /\ ~over /\ c \in called /\ pursued \subseteq {c}
  /\ pursued' = {} /\ holding' = holding \cup {c}
  /\ Verdict(response)
  /\ UNCHANGED <<begun, untried, called>>

\* An answer stands, or no server is left, or the time of the request is over.
Exhaust(response) ==
  /\ begun /\ ~over
  /\ \/ Stop
     \/ pursued' = {} /\ untried' = {} /\ UNCHANGED holding
     \/ pursued' = {} /\ holding # {} /\ UNCHANGED <<untried, holding>>
  /\ Verdict(response)
  /\ UNCHANGED <<begun, called>>

\* A success is heard at any time.
Succeed ==
  /\ called # {}
  /\ Stop
  /\ Verdict("2xx")
  /\ UNCHANGED <<begun, called>>

\* A server that was called may say more than its answer.
Forward ==
  /\ called # {}
  /\ further' = further + 1
  /\ UNCHANGED <<begun, untried, called, pursued, holding, over, finals>>

Next ==
  \/ \E named \in SUBSET Servers : Begin(named)
  \/ \E c \in Servers : Call(c) \/ Hear(c)
  \/ GiveUp \/ Abandon \/ Succeed \/ Forward
  \/ \E response \in {"failure", "408"} :
       Exhaust(response) \/ \E c \in Servers : Fail(c, response)

Spec == Init /\ [][Next]_vars
=============================================================================
