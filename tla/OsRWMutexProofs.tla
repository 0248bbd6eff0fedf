--------------------------- MODULE OsRWMutexProofs ---------------------------
(* Theorems about OsRWMutex, for any number of tasks up to SEMAPHORE_CNT_MAX. *)
(* The counters are sums of the numbers of tasks at the places of a call, so  *)
(* each action is proved by counting: one task moves from a place to another. *)
EXTENDS OsRWMutex, FiniteSetTheorems, TLAPS

Holding == {"write_excl", "writing", "write_leave", "try_excl"}

Count(S) == Cardinality(At(S))

\* The four counters, from the places of the tasks, and the reason why readers
\* and writers never have tickets at the same time.
CountInv ==
  /\ mActiveReadersCnt = Count({"read_ticket"}) + Count({"reading"})
  /\ mActiveWritersCnt = Count({"write_ticket"}) + Count(Holding)
  /\ mRunningReadersCnt = Count({"reading"}) + mReadSem
  /\ mRunningWritersCnt = Count(Holding) + mWriteSem
  /\ mRunningReadersCnt <= mActiveReadersCnt
  /\ mRunningWritersCnt <= mActiveWritersCnt
  /\ mActiveWritersCnt = 0 => mRunningReadersCnt = mActiveReadersCnt
  /\ mRunningReadersCnt = 0 => mRunningWritersCnt = mActiveWritersCnt
  /\ mRunningReadersCnt = 0 \/ mRunningWritersCnt = 0

Inv == TypeOK /\ CountInv

\* Without conditional writers the exclusive semaphore is taken exactly by the
\* one task that writes.
ExclInv ==
  /\ At({"try_excl"}) = {}
  /\ OneWriter
  /\ mWriteExclSem <=> Writers = {}

\* One task moves: the tasks at the places S gain it, lose it or stay the same.
LEMMA Move ==
  ASSUME TypeOK, NEW t \in Tasks, NEW from \in Places, NEW to \in Places,
         Goto(t, from, to), NEW S
  PROVE  /\ t \in At(S) <=> from \in S
         /\ to \in S => At(S)' = At(S) \cup {t}
         /\ to \notin S => At(S)' = At(S) \ {t}
         /\ (from \in S <=> to \in S) => At(S)' = At(S)
BY DEF TypeOK, Goto, At

\* A set of tasks is finite and has no more elements than the semaphores count.
LEMMA Bounded ==
  ASSUME NEW S
  PROVE  IsFiniteSet(At(S)) /\ Count(S) \in Nat /\ Count(S) <= SemMax
<1>1. At(S) \subseteq Tasks
  BY DEF At
<1>2. IsFiniteSet(At(S)) /\ Cardinality(At(S)) <= Cardinality(Tasks)
  BY <1>1, TasksAssumption, FS_Subset
<1>3. Cardinality(At(S)) \in Nat /\ Cardinality(Tasks) \in Nat
  BY <1>2, TasksAssumption, FS_CardinalityType
<1> QED
  BY <1>2, <1>3, TasksAssumption, SemMaxAssumption DEF Count

\* The same as Move for the number of tasks at the places S.
LEMMA MoveCount ==
  ASSUME TypeOK, NEW t \in Tasks, NEW from \in Places, NEW to \in Places,
         Goto(t, from, to), NEW S
  PROVE  /\ Count(S)' \in Nat /\ Count(S) \in Nat
         /\ Count(S) <= SemMax /\ Count(S)' <= SemMax
         /\ from \in S /\ to \in S => Count(S)' = Count(S)
         /\ from \notin S /\ to \notin S => Count(S)' = Count(S)
         /\ from \in S /\ to \notin S => Count(S)' = Count(S) - 1 /\ Count(S) > 0
         /\ from \notin S /\ to \in S => Count(S)' = Count(S) + 1
<1>1. IsFiniteSet(At(S)) /\ Count(S) \in Nat /\ Count(S) <= SemMax
  BY Bounded
<1>2. /\ t \in At(S) <=> from \in S
      /\ to \in S => At(S)' = At(S) \cup {t}
      /\ to \notin S => At(S)' = At(S) \ {t}
  BY Move
<1>3. /\ Cardinality(At(S) \cup {t}) =
           IF t \in At(S) THEN Cardinality(At(S)) ELSE Cardinality(At(S)) + 1
      /\ Cardinality(At(S) \ {t}) =
           IF t \in At(S) THEN Cardinality(At(S)) - 1 ELSE Cardinality(At(S))
  BY <1>1, FS_AddElement, FS_RemoveElement
<1>4. t \in At(S) => Cardinality(At(S)) > 0
  BY <1>1, FS_EmptySet DEF Count
<1>5. Count(S)' = Cardinality(At(S)')
  BY DEF Count
<1>6. Count(S)' <= SemMax /\ Count(S)' \in Nat
  <2>1. At(S)' \subseteq Tasks
    BY DEF At
  <2>2. IsFiniteSet(At(S)') /\ Cardinality(At(S)') <= Cardinality(Tasks)
    BY <2>1, TasksAssumption, FS_Subset
  <2>3. Cardinality(At(S)') \in Nat /\ Cardinality(Tasks) \in Nat
    BY <2>2, TasksAssumption, FS_CardinalityType
  <2> QED
    BY <2>2, <2>3, <1>5, TasksAssumption, SemMaxAssumption
<1> QED
  BY <1>1, <1>2, <1>3, <1>4, <1>5, <1>6 DEF Count

-----------------------------------------------------------------------------
LEMMA InitInv == Init => Inv
<1> SUFFICES ASSUME Init PROVE Inv
  OBVIOUS
<1>1. TypeOK
  BY SemMaxAssumption DEF Init, TypeOK, Places
<1>2. ASSUME NEW S, "idle" \notin S PROVE Count(S) = 0
  <2>1. At(S) = {}
    BY <1>2 DEF Init, At
  <2> QED
    BY <2>1, FS_EmptySet DEF Count
<1>3. /\ Count({"read_ticket"}) = 0 /\ Count({"reading"}) = 0
      /\ Count({"write_ticket"}) = 0 /\ Count(Holding) = 0
  BY <1>2 DEF Holding
<1> QED
  BY <1>1, <1>3 DEF Init, Inv, CountInv

LEMMA NextInv == Inv /\ [NextTry]_vars => Inv'
<1> SUFFICES ASSUME Inv, [NextTry]_vars PROVE Inv'
  OBVIOUS
<1> USE DEF Inv
<1> DEFINE RT == Count({"read_ticket"})
           RD == Count({"reading"})
           WT == Count({"write_ticket"})
           WH == Count(Holding)
<1>0. CASE UNCHANGED vars
  BY <1>0 DEF vars, cnts, TypeOK, CountInv, Count, At
<1> SUFFICES ASSUME NEW t \in Tasks, Blocking(t) \/ Conditional(t) PROVE Inv'
  BY <1>0 DEF NextTry
<1>n. RT \in Nat /\ RD \in Nat /\ WT \in Nat /\ WH \in Nat
  BY Bounded
<1>1. CASE AcquireRead(t)
  <2>1. /\ RT' = RT + 1 /\ RD' = RD /\ WT' = WT /\ WH' = WH
        /\ RT' <= SemMax /\ WT' <= SemMax
    BY <1>1, MoveCount DEF AcquireRead, Holding, Places
  <2>2. pc' \in [Tasks -> Places]
    BY <1>1 DEF AcquireRead, Goto, TypeOK, Places
  <2> HIDE DEF RT, RD, WT, WH
  <2> QED
    BY <1>n, <1>1, <2>1, <2>2, SemMaxAssumption
       DEF AcquireRead, grantReadTickets, Post, TypeOK, CountInv, RT, RD, WT, WH
<1>2. CASE TakeReadTicket(t)
  <2>1. /\ RT' = RT - 1 /\ RD' = RD + 1 /\ WT' = WT /\ WH' = WH
        /\ RT' <= SemMax /\ WT' <= SemMax
    BY <1>2, MoveCount DEF TakeReadTicket, Holding, Places
  <2>2. pc' \in [Tasks -> Places]
    BY <1>2 DEF TakeReadTicket, Goto, TypeOK, Places
  <2> HIDE DEF RT, RD, WT, WH
  <2> QED
    BY <1>n, <1>2, <2>1, <2>2, SemMaxAssumption
       DEF TakeReadTicket, cnts, TypeOK, CountInv, RT, RD, WT, WH
<1>3. CASE ReleaseRead(t)
  <2>1. /\ RT' = RT /\ RD' = RD - 1 /\ WT' = WT /\ WH' = WH
        /\ RT' <= SemMax /\ WT' <= SemMax /\ RD > 0
    BY <1>3, MoveCount DEF ReleaseRead, Holding, Places
  <2>2. pc' \in [Tasks -> Places]
    BY <1>3 DEF ReleaseRead, Goto, TypeOK, Places
  <2> HIDE DEF RT, RD, WT, WH
  <2> QED
    BY <1>n, <1>3, <2>1, <2>2, SemMaxAssumption
       DEF ReleaseRead, grantWriteTickets, Post, TypeOK, CountInv, RT, RD, WT, WH
<1>4. CASE AcquireWrite(t)
  <2>1. /\ RT' = RT /\ RD' = RD /\ WT' = WT + 1 /\ WH' = WH
        /\ RT' <= SemMax /\ WT' <= SemMax
    BY <1>4, MoveCount DEF AcquireWrite, Holding, Places
  <2>2. pc' \in [Tasks -> Places]
    BY <1>4 DEF AcquireWrite, Goto, TypeOK, Places
  <2> HIDE DEF RT, RD, WT, WH
  <2> QED
    BY <1>n, <1>4, <2>1, <2>2, SemMaxAssumption
       DEF AcquireWrite, grantWriteTickets, Post, TypeOK, CountInv, RT, RD, WT, WH
<1>5. CASE TakeWriteTicket(t)
  <2>1. /\ RT' = RT /\ RD' = RD /\ WT' = WT - 1 /\ WH' = WH + 1
        /\ RT' <= SemMax /\ WT' <= SemMax
    BY <1>5, MoveCount DEF TakeWriteTicket, Holding, Places
  <2>2. pc' \in [Tasks -> Places]
    BY <1>5 DEF TakeWriteTicket, Goto, TypeOK, Places
  <2> HIDE DEF RT, RD, WT, WH
  <2> QED
    BY <1>n, <1>5, <2>1, <2>2, SemMaxAssumption
       DEF TakeWriteTicket, cnts, TypeOK, CountInv, RT, RD, WT, WH
<1>6. CASE TakeExcl(t)
  <2>1. /\ RT' = RT /\ RD' = RD /\ WT' = WT /\ WH' = WH
        /\ RT' <= SemMax /\ WT' <= SemMax
    BY <1>6, MoveCount DEF TakeExcl, Holding, Places
  <2>2. pc' \in [Tasks -> Places]
    BY <1>6 DEF TakeExcl, Goto, TypeOK, Places
  <2> HIDE DEF RT, RD, WT, WH
  <2> QED
    BY <1>n, <1>6, <2>1, <2>2, SemMaxAssumption
       DEF TakeExcl, cnts, TypeOK, CountInv, RT, RD, WT, WH
<1>7. CASE ReleaseExcl(t)
  <2>1. /\ RT' = RT /\ RD' = RD /\ WT' = WT /\ WH' = WH
        /\ RT' <= SemMax /\ WT' <= SemMax
    BY <1>7, MoveCount DEF ReleaseExcl, Holding, Places
  <2>2. pc' \in [Tasks -> Places]
    BY <1>7 DEF ReleaseExcl, Goto, TypeOK, Places
  <2> HIDE DEF RT, RD, WT, WH
  <2> QED
    BY <1>n, <1>7, <2>1, <2>2, SemMaxAssumption
       DEF ReleaseExcl, cnts, TypeOK, CountInv, RT, RD, WT, WH
<1>8. CASE ReleaseTicket(t)
  <2>1. /\ RT' = RT /\ RD' = RD /\ WT' = WT /\ WH' = WH - 1
        /\ RT' <= SemMax /\ WT' <= SemMax /\ WH > 0
    BY <1>8, MoveCount DEF ReleaseTicket, Holding, Places
  <2>2. pc' \in [Tasks -> Places]
    BY <1>8 DEF ReleaseTicket, Goto, TypeOK, Places
  <2>3. /\ mRunningReadersCnt = 0 /\ mReadSem = 0 /\ RD = 0 /\ mActiveReadersCnt = RT
        /\ mRunningWritersCnt = mActiveWritersCnt /\ mActiveWritersCnt > 0
        /\ mActiveWritersCnt = WT + WH /\ mRunningWritersCnt = WH + mWriteSem
        /\ mRunningWritersCnt \in Nat
    BY <1>n, <2>1 DEF TypeOK, CountInv
  <2>4. /\ mActiveReadersCnt' = RT /\ mWriteSem' = mWriteSem
        /\ mRunningWritersCnt' = mRunningWritersCnt - 1
        /\ mActiveWritersCnt' = mActiveWritersCnt - 1
        /\ mWriteExclSem' = mWriteExclSem
    BY <1>8, <2>3 DEF ReleaseTicket, grantReadTickets
  <2>5. IF mActiveWritersCnt = 1
          THEN mRunningReadersCnt' = RT /\ mReadSem' = RT
          ELSE mRunningReadersCnt' = 0 /\ mReadSem' = 0
    <3>1. Post(0, RT) = RT /\ RT - 0 = RT /\ RT \in Nat /\ RT >= 0
      BY <1>n, <2>1, SemMaxAssumption DEF Post
    <3> QED
      BY <1>8, <2>3, <3>1 DEF ReleaseTicket, grantReadTickets
  <2> HIDE DEF RT, RD, WT, WH
  <2> QED
    BY <1>n, <2>1, <2>2, <2>3, <2>4, <2>5, SemMaxAssumption
       DEF TypeOK, CountInv, RT, RD, WT, WH
<1>9. CASE TryAcquireWrite(t)
  <2>1. /\ RT' = RT /\ RD' = RD /\ WT' = WT /\ WH' = WH + 1
        /\ RT' <= SemMax /\ WT' <= SemMax /\ WH + 1 <= SemMax
    BY <1>9, MoveCount DEF TryAcquireWrite, Holding, Places
  <2>2. pc' \in [Tasks -> Places]
    BY <1>9 DEF TryAcquireWrite, Goto, TypeOK, Places
  <2>3. /\ mRunningReadersCnt = 0 /\ mRunningWritersCnt = 0 /\ mActiveWritersCnt = 0
        /\ mWriteSem = 0 /\ mReadSem = 0 /\ WT = 0 /\ WH = 0 /\ RD = 0 /\ SemMax >= 1
        /\ mActiveReadersCnt = 0 /\ RT = 0
    BY <1>n, <1>9, <2>1, SemMaxAssumption DEF TryAcquireWrite, TypeOK, CountInv
  <2>4. /\ mActiveWritersCnt' = 1 /\ mRunningWritersCnt' = 1 /\ mWriteSem' = 0
        /\ mActiveReadersCnt' = 0 /\ mRunningReadersCnt' = 0 /\ mReadSem' = 0
        /\ mWriteExclSem' = mWriteExclSem
    <3>1. Post(0, 1) = 1
      BY <2>3, SemMaxAssumption DEF Post
    <3> QED
      BY <1>9, <2>3, <3>1 DEF TryAcquireWrite, grantWriteTickets
  <2> HIDE DEF RT, RD, WT, WH
  <2> QED
    BY <1>n, <2>1, <2>2, <2>3, <2>4, SemMaxAssumption DEF TypeOK, CountInv, RT, RD, WT, WH
<1>10. CASE TryTakeExcl(t)
  <2>1. /\ RT' = RT /\ RD' = RD /\ WT' = WT /\ WH' = WH
        /\ RT' <= SemMax /\ WT' <= SemMax
    BY <1>10, MoveCount DEF TryTakeExcl, Holding, Places
  <2>2. pc' \in [Tasks -> Places]
    BY <1>10 DEF TryTakeExcl, Goto, TypeOK, Places
  <2> HIDE DEF RT, RD, WT, WH
  <2> QED
    BY <1>n, <1>10, <2>1, <2>2, SemMaxAssumption
       DEF TryTakeExcl, cnts, TypeOK, CountInv, RT, RD, WT, WH
<1> QED
  BY <1>1, <1>2, <1>3, <1>4, <1>5, <1>6, <1>7, <1>8, <1>9, <1>10 DEF Blocking, Conditional

\* The same invariant, of both specifications.
THEOREM CountInvariant == SpecTry => []Inv
<1> QED
  BY InitInv, NextInv, PTL DEF SpecTry

\* The blocking operations are a part of all the operations.
LEMMA SpecIsSpecTry == Spec => SpecTry
<1>1. [Next]_vars => [NextTry]_vars
  BY DEF Next, NextTry
<1> QED
  BY <1>1, PTL DEF Spec, SpecTry

-----------------------------------------------------------------------------
\* The counters and the semaphores keep their ranges.
THEOREM TypeCorrect == Spec => []TypeOK
<1>1. Inv => TypeOK
  BY DEF Inv
<1> QED
  BY <1>1, CountInvariant, SpecIsSpecTry, PTL

LEMMA Conserved == Inv => TicketsConserved
<1> SUFFICES ASSUME Inv PROVE TicketsConserved
  OBVIOUS
<1>1. /\ Count({"read_ticket"}) \in Nat /\ Count({"reading"}) \in Nat
      /\ Count({"write_ticket"}) \in Nat /\ Count(Holding) \in Nat
  BY Bounded
<1>3. /\ Cardinality(At({"read_ticket", "reading"})) =
           Count({"read_ticket"}) + Count({"reading"})
      /\ Cardinality(At({"write_ticket", "write_excl", "writing",
                         "write_leave", "try_excl"})) =
           Count({"write_ticket"}) + Count(Holding)
  <2>1. ASSUME NEW S, NEW R, NEW U, S \cap R = {}, U = S \cup R
        PROVE  Cardinality(At(U)) = Count(S) + Count(R)
    <3>1. IsFiniteSet(At(S)) /\ IsFiniteSet(At(R)) /\ IsFiniteSet(At(S) \cap At(R))
      BY Bounded, FS_Subset
    <3>2. At(U) = At(S) \cup At(R) /\ At(S) \cap At(R) = {}
      BY <2>1 DEF At
    <3>3. /\ Cardinality(At(S) \cup At(R)) =
               Cardinality(At(S)) + Cardinality(At(R)) - Cardinality(At(S) \cap At(R))
          /\ Cardinality({}) = 0
      BY <3>1, FS_Union, FS_EmptySet
    <3>4. Count(S) \in Nat /\ Count(R) \in Nat
      BY Bounded
    <3>5. Cardinality(At(S) \cap At(R)) = 0
      BY <3>2, <3>3
    <3>6. Cardinality(At(S) \cup At(R)) = Count(S) + Count(R)
      BY <3>3, <3>4, <3>5 DEF Count
    <3> QED BY <3>2, <3>6
  <2>2. Cardinality(At({"read_ticket", "reading"})) =
          Count({"read_ticket"}) + Count({"reading"})
    <3>1. /\ {"read_ticket"} \cap {"reading"} = {}
          /\ {"read_ticket", "reading"} = {"read_ticket"} \cup {"reading"}
      OBVIOUS
    <3> QED BY <2>1, <3>1
  <2>3. Cardinality(At({"write_ticket", "write_excl", "writing",
                        "write_leave", "try_excl"})) =
          Count({"write_ticket"}) + Count(Holding)
    <3>1. /\ {"write_ticket"} \cap Holding = {}
          /\ {"write_ticket", "write_excl", "writing", "write_leave", "try_excl"}
               = {"write_ticket"} \cup Holding
      BY DEF Holding
    <3> QED BY <2>1, <3>1
  <2> QED BY <2>2, <2>3
<1>2. /\ Count({"reading"}) = Cardinality(Readers)
      /\ Count(Holding) =
           Cardinality(At({"write_excl", "writing", "write_leave", "try_excl"}))
      /\ Count({"read_ticket"}) = Cardinality(At({"read_ticket"}))
      /\ Count({"write_ticket"}) = Cardinality(At({"write_ticket"}))
  BY DEF Count, Readers, Holding
<1> QED
  BY <1>1, <1>2, <1>3, SemMaxAssumption DEF Inv, CountInv, TypeOK, TicketsConserved

\* No ticket is lost or granted twice, with conditional writers as well, as
\* long as there are no more tasks than SEMAPHORE_CNT_MAX.
THEOREM Conservation == SpecTry => []TicketsConserved
<1> QED
  BY Conserved, CountInvariant, PTL

LEMMA Excludes == Inv => ReadersExcludeWriters
<1> SUFFICES ASSUME Inv, Readers # {}, Writers # {} PROVE FALSE
  BY DEF ReadersExcludeWriters
<1>1. Writers \subseteq At(Holding)
  BY DEF Writers, At, Holding
<1>2. Count({"reading"}) > 0 /\ Count(Holding) > 0
  <2>1. IsFiniteSet(At({"reading"})) /\ IsFiniteSet(At(Holding))
    BY Bounded
  <2>2. Count({"reading"}) # 0 /\ Count(Holding) # 0
    BY <1>1, <2>1, FS_EmptySet DEF Count, Readers
  <2> QED
    BY <2>2, Bounded
<1> QED
  BY <1>2, Bounded DEF Inv, CountInv, TypeOK

\* Nobody ever writes while somebody reads, conditional writers included.
THEOREM ReadersWritersExcluded == SpecTry => []ReadersExcludeWriters
<1> QED
  BY Excludes, CountInvariant, PTL

-----------------------------------------------------------------------------
LEMMA InitExcl == Init => ExclInv
BY DEF Init, ExclInv, OneWriter, Writers, At

LEMMA NextExcl == TypeOK /\ ExclInv /\ [Next]_vars => ExclInv'
<1> SUFFICES ASSUME TypeOK, ExclInv, [Next]_vars PROVE ExclInv'
  OBVIOUS
<1> USE DEF ExclInv, OneWriter, Writers
<1>0. CASE UNCHANGED vars
  BY <1>0 DEF vars, At
<1> SUFFICES ASSUME NEW t \in Tasks, Blocking(t) PROVE ExclInv'
  BY <1>0 DEF Next
<1>1. ASSUME NEW from \in Places \ {"writing"}, NEW to \in Places \ {"writing", "try_excl"},
             Goto(t, from, to), UNCHANGED mWriteExclSem
      PROVE  ExclInv'
  BY <1>1 DEF TypeOK, Goto, At
<1>2. CASE TakeExcl(t)
  BY <1>2 DEF TakeExcl, TypeOK, Goto, At
<1>3. CASE ReleaseExcl(t)
  BY <1>3 DEF ReleaseExcl, TypeOK, Goto, At
<1>4. CASE AcquireRead(t) \/ TakeReadTicket(t) \/ ReleaseRead(t)
  BY <1>1, <1>4 DEF AcquireRead, TakeReadTicket, ReleaseRead, Places
<1>5. CASE AcquireWrite(t) \/ TakeWriteTicket(t) \/ ReleaseTicket(t)
  BY <1>1, <1>5 DEF AcquireWrite, TakeWriteTicket, ReleaseTicket, Places
<1> QED
  BY <1>2, <1>3, <1>4, <1>5 DEF Blocking

LEMMA BothInvariants == Spec => [](Inv /\ ExclInv)
<1>1. Inv /\ ExclInv /\ [Next]_vars => ExclInv'
  BY NextExcl DEF Inv
<1> QED
  BY <1>1, InitExcl, CountInvariant, SpecIsSpecTry, PTL DEF Spec

\* As long as every writer asks with acquireWrite, a task that writes is alone
\* with the resource: nobody reads and nobody else writes.
THEOREM WritersExcluded == Spec => []Exclusive
<1>1. Inv /\ ExclInv => Exclusive
  BY Excludes DEF ExclInv, Exclusive
<1> QED
  BY <1>1, BothInvariants, PTL

-----------------------------------------------------------------------------
\* The operator of FiniteSets that the instance of ReadersWriters brings in.
LEMMA SameCardinality == \A S : RW!Cardinality(S) = Cardinality(S)
BY DEF RW!Cardinality, Cardinality

\* No active writer means nobody who waits to write or writes.
ActiveWriters ==
  mActiveWritersCnt = 0 => At({"write_ticket", "write_excl"}) = {} /\ Writers = {}

LEMMA NoActive == Inv => ActiveWriters
<1> SUFFICES ASSUME Inv, mActiveWritersCnt = 0
             PROVE  At({"write_ticket", "write_excl"}) = {} /\ Writers = {}
  BY DEF ActiveWriters
<1>1. IsFiniteSet(At({"write_ticket"})) /\ IsFiniteSet(At(Holding))
  BY Bounded
<1>2. Count({"write_ticket"}) = 0 /\ Count(Holding) = 0
  BY Bounded DEF Inv, CountInv
<1>3. At({"write_ticket"}) = {} /\ At(Holding) = {}
  BY <1>1, <1>2, FS_EmptySet DEF Count
<1> QED
  BY <1>3 DEF At, Holding, Writers

\* Every step of the lock is a step of ReadersWriters or leaves it unchanged.
LEMMA StepRefines == Inv /\ Inv' /\ ExclInv /\ ExclInv' /\ [Next]_vars => [RW!Next]_(RW!vars)
<1> SUFFICES ASSUME Inv, Inv', ExclInv, ExclInv', [Next]_vars PROVE [RW!Next]_(RW!vars)
  OBVIOUS
<1> DEFINE waitR == At({"read_ticket"})
           waitW == At({"write_ticket", "write_excl"})
<1>0. CASE UNCHANGED vars
  BY <1>0 DEF vars, RW!vars, At, Readers, Writers
<1> SUFFICES ASSUME NEW t \in Tasks, Blocking(t) PROVE [RW!Next]_(RW!vars)
  BY <1>0 DEF Next
<1>a. TypeOK /\ pc \in [Tasks -> Places]
  BY DEF Inv, TypeOK
<1>b. \A p \in Places : pc[t] = p => \A S : t \in At(S) <=> p \in S
  BY DEF At
<1>t. ReadersExcludeWriters /\ ReadersExcludeWriters' /\ TicketsConserved /\ TicketsConserved'
  BY Excludes, Conserved, PTL
<1>c. /\ mActiveWritersCnt = 0 => waitW = {} /\ Writers = {}
      /\ mActiveWritersCnt' = 0 => waitW' = {} /\ Writers' = {}
  <2>1. ActiveWriters /\ ActiveWriters'
    BY NoActive, PTL
  <2> QED
    BY <2>1 DEF ActiveWriters
<1>d. Readers \cap waitR = {} /\ Readers \cap waitW = {} /\ Writers \cap waitR = {}
  BY DEF At, Readers, Writers
<1>1. CASE AcquireRead(t)
  <2>1. RW!Free(t)
    BY <1>1 DEF AcquireRead, Goto, RW!Free, At, Readers, Writers
  <2>2. /\ waitR' = waitR \cup {t} /\ waitW' = waitW
        /\ Readers' = Readers /\ Writers' = Writers
    BY <1>1, <1>a, Move DEF AcquireRead, Readers, Writers, Places
  <2>3. mActiveWritersCnt # 0 => mReadSem' = mReadSem
    BY <1>1 DEF AcquireRead, grantReadTickets, Inv, TypeOK
  <2>4. mActiveWritersCnt = 0 => mReadSem' = Cardinality(waitR')
    BY <1>1, <1>t DEF AcquireRead, TicketsConserved
  <2>5. RW!AskRead(t)
    BY <1>c, <2>1, <2>2, <2>3, <2>4, SameCardinality DEF RW!AskRead, RW!NoWriterReady
  <2> QED
    BY <2>5 DEF RW!Next
<1>2. CASE TakeReadTicket(t)
  <2>1. /\ waitR' = waitR \ {t} /\ waitW' = waitW /\ t \in waitR
        /\ Readers' = Readers \cup {t} /\ Writers' = Writers
    BY <1>2, <1>a, Move DEF TakeReadTicket, Readers, Writers, Places
  <2>2. Writers = {}
    <3>1. Readers' # {} /\ Writers' = Writers
      BY <2>1
    <3> QED
      BY <3>1, <1>t DEF ReadersExcludeWriters
  <2>3. RW!StartRead(t)
    BY <1>2, <2>1, <2>2 DEF TakeReadTicket, RW!StartRead
  <2> QED
    BY <2>3 DEF RW!Next
<1>3. CASE ReleaseRead(t)
  <2>1. /\ waitR' = waitR /\ waitW' = waitW /\ t \in Readers
        /\ Readers' = Readers \ {t} /\ Writers' = Writers
    BY <1>3, <1>a, Move DEF ReleaseRead, Readers, Writers, Places
  <2>2. RW!EndRead(t)
    BY <1>3, <2>1 DEF ReleaseRead, RW!EndRead
  <2> QED
    BY <2>2 DEF RW!Next
<1>4. CASE AcquireWrite(t)
  <2>1. RW!Free(t)
    BY <1>4 DEF AcquireWrite, Goto, RW!Free, At, Readers, Writers
  <2>2. /\ waitR' = waitR /\ waitW' = waitW \cup {t}
        /\ Readers' = Readers /\ Writers' = Writers
    BY <1>4, <1>a, Move DEF AcquireWrite, Readers, Writers, Places
  <2>3. RW!AskWrite(t)
    BY <1>4, <2>1, <2>2 DEF AcquireWrite, RW!AskWrite
  <2> QED
    BY <2>3 DEF RW!Next
<1>5. CASE TakeWriteTicket(t)
  <2>1. /\ waitR' = waitR /\ waitW' = waitW
        /\ Readers' = Readers /\ Writers' = Writers
    BY <1>5, <1>a, Move DEF TakeWriteTicket, Readers, Writers, Places
  <2> QED
    BY <1>5, <2>1 DEF TakeWriteTicket, RW!vars
<1>6. CASE TakeExcl(t)
  <2>1. /\ waitR' = waitR /\ waitW' = waitW \ {t} /\ t \in waitW
        /\ Readers' = Readers /\ Writers' = Writers \cup {t}
    BY <1>6, <1>a, Move DEF TakeExcl, Readers, Writers, Places
  <2>2. Writers = {} /\ Readers = {} /\ mReadSem = 0 /\ mReadSem' = mReadSem
    <3>1. Writers = {}
      BY <1>6 DEF TakeExcl, ExclInv
    <3>2. Readers = {}
      BY <2>1, <1>t DEF ReadersExcludeWriters
    <3>3. mReadSem = 0
      <4>1. t \in At(Holding) /\ IsFiniteSet(At(Holding))
        BY <1>6, Bounded DEF TakeExcl, Goto, At, Holding
      <4>2. Count(Holding) # 0
        BY <4>1, FS_EmptySet DEF Count
      <4>3. Count(Holding) \in Nat /\ Count({"reading"}) \in Nat
        BY Bounded
      <4> QED
        BY <4>2, <4>3, SemMaxAssumption DEF Inv, CountInv, TypeOK
    <3> QED
      BY <1>6, <3>1, <3>2, <3>3 DEF TakeExcl
  <2>3. RW!StartWrite(t)
    BY <2>1, <2>2 DEF RW!StartWrite
  <2> QED
    BY <2>3 DEF RW!Next
<1>7. CASE ReleaseExcl(t)
  <2>1. /\ waitR' = waitR /\ waitW' = waitW /\ t \in Writers
        /\ Readers' = Readers /\ Writers' = Writers \ {t}
    BY <1>7, <1>a, Move DEF ReleaseExcl, Readers, Writers, Places
  <2>2. RW!EndWrite(t)
    BY <1>7, <2>1 DEF ReleaseExcl, RW!EndWrite
  <2> QED
    BY <2>2 DEF RW!Next
<1>8. CASE ReleaseTicket(t)
  <2>1. /\ waitR' = waitR /\ waitW' = waitW
        /\ Readers' = Readers /\ Writers' = Writers
    BY <1>8, <1>a, Move DEF ReleaseTicket, Readers, Writers, Places
  <2>2. CASE mActiveWritersCnt' = 0
    <3>1. mReadSem' = Cardinality(waitR)
      BY <2>1, <2>2, <1>t DEF TicketsConserved
    <3>2. waitW = {} /\ Writers = {}
      BY <2>1, <2>2, <1>c
    <3>3. RW!AdmitReaders
      BY <2>1, <3>1, <3>2, SameCardinality DEF RW!AdmitReaders, RW!NoWriterReady
    <3> QED
      BY <3>3 DEF RW!Next
  <2>3. CASE mActiveWritersCnt' # 0
    <3>1. mReadSem' = mReadSem
      BY <1>8, <2>3 DEF ReleaseTicket, grantReadTickets
    <3> QED
      BY <2>1, <3>1 DEF RW!vars
  <2> QED
    BY <2>2, <2>3
<1> QED
  BY <1>1, <1>2, <1>3, <1>4, <1>5, <1>6, <1>7, <1>8 DEF Blocking

LEMMA InitRefines == Init => RW!Init
BY DEF Init, RW!Init, At, Readers, Writers

\* OsRWMutex implements ReadersWriters, for any number of tasks: one writer or
\* any readers, and no pass for a reader is added while a writer is ready.
THEOREM ImplementsReadersWriters == Spec => ReadersWritersSpec
<1> QED
  BY InitRefines, StepRefines, BothInvariants, PTL DEF Spec, ReadersWritersSpec, RW!Spec
=============================================================================
