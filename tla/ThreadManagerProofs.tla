------------------------- MODULE ThreadManagerProofs -------------------------
(***************************************************************************)
(* Proofs about ThreadManager, for any number of workers and any set of    *)
(* addresses, with and without signals.  SchedulerInv is inductive together *)
(* with TypeOK: each lemma takes one of its parts through every step.      *)
(***************************************************************************)
EXTENDS ThreadManager, SequenceTheorems, TLAPS

(* vector::erase(it): one element fewer, the others in their order. *)
LEMMA RemoveAtProperties ==
    ASSUME NEW S, NEW s \in Seq(S), NEW it \in 1 .. Len(s)
    PROVE  /\ RemoveAt(s, it) \in Seq(S)
           /\ Len(RemoveAt(s, it)) = Len(s) - 1
           /\ \A i \in 1 .. Len(s) - 1 :
                RemoveAt(s, it)[i] = IF i < it THEN s[i] ELSE s[i + 1]
<1> DEFINE a == SubSeq(s, 1, it - 1)  b == SubSeq(s, it + 1, Len(s))
<1>0. Len(s) \in Nat /\ \A i \in 1 .. Len(s) : s[i] \in S
  BY ElementOfSeq, LenProperties
<1>1. /\ a \in Seq(S) /\ Len(a) = it - 1
      /\ \A i \in 1 .. it - 1 : a[i] = s[i]
  <2>1. \A i \in 1 .. it - 1 : s[i] \in S
    BY <1>0
  <2>2. QED
    BY <1>0, <2>1, SubSeqProperties
<1>2. /\ b \in Seq(S) /\ Len(b) = Len(s) - it
      /\ \A i \in 1 .. Len(s) - it : b[i] = s[it + i]
  <2>1. \A i \in it + 1 .. Len(s) : s[i] \in S
    BY <1>0
  <2>2. /\ b \in Seq(S)
        /\ Len(b) = IF it + 1 <= Len(s) THEN Len(s) - (it + 1) + 1 ELSE 0
        /\ \A i \in 1 .. Len(s) - (it + 1) + 1 : b[i] = s[it + 1 + i - 1]
    BY <1>0, <2>1, SubSeqProperties
  <2>3. QED
    BY <1>0, <2>2
<1>3. /\ a \o b \in Seq(S) /\ Len(a \o b) = Len(a) + Len(b)
      /\ \A i \in 1 .. Len(a) + Len(b) :
           (a \o b)[i] = IF i <= Len(a) THEN a[i] ELSE b[i - Len(a)]
  BY <1>1, <1>2, ConcatProperties
<1>4. RemoveAt(s, it) = a \o b
  BY DEF RemoveAt
<1> HIDE DEF a, b
<1>5. Len(a) + Len(b) = Len(s) - 1
  BY <1>0, <1>1, <1>2
<1>6. ASSUME NEW i \in 1 .. Len(s) - 1
      PROVE  RemoveAt(s, it)[i] = IF i < it THEN s[i] ELSE s[i + 1]
  <2>1. (a \o b)[i] = IF i <= it - 1 THEN a[i] ELSE b[i - (it - 1)]
    BY <1>1, <1>3, <1>5
  <2>2. CASE i < it
    BY <1>0, <1>1, <1>4, <2>1, <2>2
  <2>3. CASE ~(i < it)
    <3>1. i - (it - 1) \in 1 .. Len(s) - it /\ it + (i - (it - 1)) = i + 1
      BY <1>0, <2>3
    <3>2. b[i - (it - 1)] = s[it + (i - (it - 1))]
      BY <1>2, <3>1
    <3>3. QED
      BY <1>0, <1>4, <2>1, <2>3, <3>1, <3>2
  <2>4. QED
    BY <2>2, <2>3
<1>7. QED
  BY <1>3, <1>4, <1>5, <1>6

(* What is in ToSet of a sequence is at one of its positions. *)
LEMMA ToSetProperties ==
    /\ ToSet(<<>>) = {}
    /\ \A S : \A s \in Seq(S) : \A e : e \in ToSet(s) <=> \E i \in 1 .. Len(s) : s[i] = e
<1>1. ToSet(<<>>) = {}
  BY DEF ToSet
<1>2. ASSUME NEW S, NEW s \in Seq(S), NEW e
      PROVE  e \in ToSet(s) <=> \E i \in 1 .. Len(s) : s[i] = e
  BY LenProperties DEF ToSet
<1>3. QED
  BY <1>1, <1>2

(* erase of an element that occurs once: it is gone and the rest occur once. *)
LEMMA EraseOnce ==
    ASSUME NEW S, NEW s \in Seq(S), NEW it \in 1 .. Len(s),
           \A i, j \in 1 .. Len(s) : s[i] = s[j] => i = j
    PROVE  /\ ToSet(RemoveAt(s, it)) = ToSet(s) \ {s[it]}
           /\ \A i, j \in 1 .. Len(RemoveAt(s, it)) :
                RemoveAt(s, it)[i] = RemoveAt(s, it)[j] => i = j
<1> DEFINE t == RemoveAt(s, it)
<1>1. /\ t \in Seq(S) /\ Len(t) = Len(s) - 1 /\ Len(s) \in Nat
      /\ \A i \in 1 .. Len(s) - 1 : t[i] = IF i < it THEN s[i] ELSE s[i + 1]
  BY RemoveAtProperties, LenProperties
<1> HIDE DEF t
<1>2. ASSUME NEW i \in 1 .. Len(t), NEW j \in 1 .. Len(t), t[i] = t[j] PROVE i = j
  <2> DEFINE orig(k) == IF k < it THEN k ELSE k + 1
  <2>1. /\ orig(i) \in 1 .. Len(s) /\ orig(j) \in 1 .. Len(s)
        /\ t[i] = s[orig(i)] /\ t[j] = s[orig(j)]
    BY <1>1
  <2>2. orig(i) = orig(j)
    BY <1>2, <2>1
  <2>3. QED
    BY <2>2, <1>1
<1>3. ASSUME NEW e PROVE e \in ToSet(t) <=> e \in ToSet(s) /\ e # s[it]
  <2>1. ASSUME e \in ToSet(t) PROVE e \in ToSet(s) /\ e # s[it]
    <3>1. PICK k \in 1 .. Len(t) : t[k] = e
      BY <2>1, <1>1, ToSetProperties
    <3>2. PICK n \in 1 .. Len(s) : n # it /\ s[n] = e
      <4>1. CASE k < it
        BY <4>1, <3>1, <1>1
      <4>2. CASE ~(k < it)
        BY <4>2, <3>1, <1>1
      <4>3. QED
        BY <4>1, <4>2
    <3>3. QED
      BY <3>2, ToSetProperties
  <2>2. ASSUME e \in ToSet(s), e # s[it] PROVE e \in ToSet(t)
    <3>1. PICK n \in 1 .. Len(s) : s[n] = e
      BY <2>2, ToSetProperties
    <3>2. \E k \in 1 .. Len(t) : t[k] = e
      <4>1. CASE n < it
        BY <4>1, <3>1, <1>1
      <4>2. CASE n > it
        <5>1. n - 1 \in 1 .. Len(t) /\ ~(n - 1 < it) /\ (n - 1) + 1 = n
          BY <4>2, <1>1
        <5>2. t[n - 1] = s[n]
          BY <5>1, <1>1
        <5>3. QED
          BY <5>1, <5>2, <3>1
      <4>3. QED
        BY <4>1, <4>2, <3>1, <2>2
    <3>3. QED
      BY <3>2, <1>1, ToSetProperties
  <2>3. QED
    BY <2>1, <2>2
<1>4. QED
  BY <1>2, <1>3 DEF t

(* Every step keeps the types.  CallMethods and PopFront need the invariant:
   the order of a worker that runs a calculation is not empty. *)
LEMMA TypeStep == TypeOK /\ SchedulerInv /\ [Next]_vars => TypeOK'
<1> SUFFICES ASSUME TypeOK, SchedulerInv, [Next]_vars
             PROVE  TypeOK'
  OBVIOUS
<1> USE DEF TypeOK, MainSteps, WorkerSteps, HoldingSteps, RunningSteps, Workers,
   mainVars, makerVars, registry, calcVars, MainAt, MakerUnchanged, WorkerUnchanged,
   WorkerGoto
<1>1. CASE StartThread
  <2>1. CASE slot < NumThreads
    <3>1. slot \in Workers /\ slot + 1 \in 0 .. NumThreads
      BY <2>1, ThreadsAssumption
    <3>2. processMap' \in [Workers -> {"absent", "null", "set"}]
      BY <1>1, <2>1, <3>1 DEF StartThread
    <3>3. pcWorker' \in [Workers -> WorkerSteps]
      BY <1>1, <2>1, <3>1 DEF StartThread
    <3>4. QED
      BY <1>1, <2>1, <3>1, <3>2, <3>3 DEF StartThread
  <2>2. CASE ~(slot < NumThreads)
    BY <1>1, <2>2, ThreadsAssumption DEF StartThread
  <2>3. QED
    BY <2>1, <2>2
<1>2. CASE AddPush
  <2>1. target \in Calcs
    BY <1>2, NoCalcAssumption DEF AddPush, SchedulerInv, OpInv
  <2>2. Append(calculations, target) \in Seq(Calcs)
    BY <2>1, AppendProperties
  <2>3. QED
    BY <1>2, <2>2 DEF AddPush
<1>3. CASE EraseFirstMatch
  BY <1>3, ThreadsAssumption, RemoveAtProperties, LenProperties
    DEF EraseFirstMatch, Contains
<1>4. CASE EraseAll
  BY <1>4, ThreadsAssumption DEF EraseAll
<1>5. CASE LockOrder
  BY <1>5, ThreadsAssumption DEF LockOrder
<1>6. CASE ClearOrder
  <2>1. slot \in Workers /\ slot + 1 \in 0 .. NumThreads
    BY <1>6, ThreadsAssumption DEF ClearOrder, SchedulerInv, LockInv
  <2>2. order' \in [Workers -> Seq(Calcs)]
    BY <1>6, <2>1, EmptySeq DEF ClearOrder, ClearedOrder
  <2>3. lockOrder' \in [Workers -> {"free", "main", "worker"}]
    BY <1>6, <2>1 DEF ClearOrder
  <2>4. QED
    BY <1>6, <2>1, <2>2, <2>3 DEF ClearOrder
<1>7. CASE SkipOrder
  BY <1>7, ThreadsAssumption DEF SkipOrder
<1>8. CASE UnlockCalculations
  BY <1>8, ThreadsAssumption DEF UnlockCalculations
<1>9. CASE Resume
  BY <1>9, ThreadsAssumption DEF Resume, SizeOnReturn
<1>10. CASE StopJoined
  BY <1>10, ThreadsAssumption DEF StopJoined
<1>11. CASE SignalJoined
  BY <1>11, ThreadsAssumption DEF SignalJoined
<1>12. CASE ReleaseAllBegin
  BY <1>12, ThreadsAssumption DEF ReleaseAllBegin
<1>13. CASE StopBegin
  BY <1>13, ThreadsAssumption DEF StopBegin
<1>14. CASE SignalBegin
  BY <1>14, ThreadsAssumption DEF SignalBegin
<1>15. ASSUME NEW c \in Calcs, AddBegin(c) PROVE TypeOK'
  BY <1>15, ThreadsAssumption DEF AddBegin
<1>16. ASSUME NEW c \in Calcs, ReleaseBegin(c) PROVE TypeOK'
  BY <1>16, ThreadsAssumption DEF ReleaseBegin
<1>17. ASSUME NEW c \in Calcs, Delete(c) PROVE TypeOK'
  BY <1>17, ThreadsAssumption DEF Delete
<1>18. CASE MakerStop
  BY <1>18, ThreadsAssumption DEF MakerStop
<1>19. CASE MakerSeesRunning
  BY <1>19, ThreadsAssumption DEF MakerSeesRunning
<1>20. CASE MakerTryLock
  BY <1>20, ThreadsAssumption DEF MakerTryLock
<1>21. CASE MakerFill
  <2>1. makerSlot \in Workers /\ makerSlot + 1 \in 0 .. NumThreads
    BY <1>21, ThreadsAssumption DEF MakerFill
  <2>2. order[makerSlot] \o calculations \in Seq(Calcs)
    BY <2>1, ConcatProperties
  <2>3. order' \in [Workers -> Seq(Calcs)]
    BY <1>21, <2>1, <2>2 DEF MakerFill
  <2>4. QED
    BY <1>21, <2>1, <2>3 DEF MakerFill
<1>22. CASE MakerSkip
  BY <1>22, ThreadsAssumption DEF MakerSkip
<1>23. CASE MakerUnlock
  BY <1>23, ThreadsAssumption DEF MakerUnlock
<1>24. ASSUME NEW w \in Workers, RegisterWorker(w) PROVE TypeOK'
  BY <1>24, ThreadsAssumption DEF RegisterWorker
<1>25. ASSUME NEW w \in Workers, WorkerStop(w) PROVE TypeOK'
  BY <1>25, ThreadsAssumption DEF WorkerStop
<1>26. ASSUME NEW w \in Workers, WorkerSeesRunning(w) PROVE TypeOK'
  BY <1>26, ThreadsAssumption DEF WorkerSeesRunning
<1>27. ASSUME NEW w \in Workers, AcquireOrder(w) PROVE TypeOK'
  BY <1>27, ThreadsAssumption DEF AcquireOrder
<1>28. ASSUME NEW w \in Workers, OrderEmpty(w) PROVE TypeOK'
  <2>1. lockOrder' \in [Workers -> {"free", "main", "worker"}]
    BY <1>28 DEF OrderEmpty
  <2>2. pcWorker' \in [Workers -> WorkerSteps]
    BY <1>28 DEF OrderEmpty
  <2>3. QED
    BY <1>28, <2>1, <2>2 DEF OrderEmpty
<1>29. ASSUME NEW w \in Workers, TakeFront(w) PROVE TypeOK'
  BY <1>29, ThreadsAssumption DEF TakeFront
<1>30. ASSUME NEW w \in Workers, CallMethods(w) PROVE TypeOK'
  <2>1. pcWorker' \in [Workers -> WorkerSteps]
    BY <1>30 DEF CallMethods, EnterBody, SkipBody, LeaveBody
  <2>2. Running(w)
    BY <1>30 DEF Running, CallMethods, EnterBody, SkipBody, LeaveBody
  <2>3. Head(order[w]) \in Calcs
    BY <2>2, HeadTailProperties DEF SchedulerInv, QueueInv, QueueOf
  <2>4. busy' \in SUBSET (Calcs \X Methods)
    BY <1>30, <2>3
      DEF CallMethods, EnterBody, SkipBody, LeaveBody, FirstMethod, SecondMethod,
          Methods
  <2>5. QED
    BY <1>30, <2>1, <2>4 DEF CallMethods, EnterBody, SkipBody, LeaveBody
<1>31. ASSUME NEW w \in Workers, PopFront(w) PROVE TypeOK'
  <2>1. order[w] # <<>>
    BY <1>31 DEF PopFront, SchedulerInv, QueueInv, QueueOf, Running
  <2>2. Tail(order[w]) \in Seq(Calcs)
    BY <2>1, HeadTailProperties
  <2>3. order' \in [Workers -> Seq(Calcs)]
    BY <1>31, <2>2 DEF PopFront
  <2>4. QED
    BY <1>31, <2>3 DEF PopFront
<1>32. CASE UNCHANGED vars
  BY <1>32, ThreadsAssumption DEF vars
<1>33. QED
  BY <1>1, <1>2, <1>3, <1>4, <1>5, <1>6, <1>7, <1>8, <1>9, <1>10, <1>11, <1>12, <1>13,
     <1>14, <1>15, <1>16, <1>17, <1>18, <1>19, <1>20, <1>21, <1>22, <1>23, <1>24,
     <1>25, <1>26, <1>27, <1>28, <1>29, <1>30, <1>31, <1>32
  DEF Next, MainOperation, MainCall, Maker, Worker, Terminated

(* Every step keeps the relation between the locks and the threads' steps. *)
LEMMA LockStep == TypeOK /\ SchedulerInv /\ [Next]_vars => LockInv'
<1> SUFFICES ASSUME TypeOK, SchedulerInv, [Next]_vars
             PROVE  LockInv'
  OBVIOUS
<1>a. LockInv
  BY DEF SchedulerInv
<1> USE <1>a, ThreadsAssumption
  DEF TypeOK, Workers,  LockInv, Clearing, HoldingSteps, RunningSteps, mainVars,
      makerVars, registry, calcVars, MainAt, MakerUnchanged, WorkerUnchanged,
      WorkerGoto
<1>1. CASE StartThread
  <2>1. CASE slot < NumThreads
    <3>1. slot \in Workers /\ pcWorker[slot] = "none"
      BY <1>1, <2>1 DEF StartThread, SchedulerInv, QueueInv, QueueOf
    <3>2. pcWorker' = [pcWorker EXCEPT ![slot] = "register"] /\ pcMain' = "start"
      BY <1>1, <2>1 DEF StartThread
    <3>3. QED
      BY <1>1, <3>1, <3>2 DEF StartThread
  <2>2. CASE ~(slot < NumThreads)
    BY <1>1, <2>2 DEF StartThread
  <2>3. QED
    BY <2>1, <2>2
<1>2. CASE AddPush
  BY <1>2 DEF AddPush
<1>3. CASE EraseFirstMatch
  BY <1>3 DEF EraseFirstMatch
<1>4. CASE EraseAll
  BY <1>4 DEF EraseAll
<1>5. CASE LockOrder
  BY <1>5 DEF LockOrder
<1>6. CASE ClearOrder
  BY <1>6 DEF ClearOrder
<1>7. CASE SkipOrder
  BY <1>7 DEF SkipOrder
<1>8. CASE UnlockCalculations
  BY <1>8 DEF UnlockCalculations
<1>9. CASE Resume
  BY <1>9 DEF Resume
<1>10. CASE StopJoined
  BY <1>10 DEF StopJoined
<1>11. CASE SignalJoined
  BY <1>11 DEF SignalJoined
<1>12. CASE ReleaseAllBegin
  BY <1>12 DEF ReleaseAllBegin
<1>13. CASE StopBegin
  BY <1>13 DEF StopBegin
<1>14. CASE SignalBegin
  BY <1>14 DEF SignalBegin
<1>15. ASSUME NEW c \in Calcs, AddBegin(c) PROVE LockInv'
  BY <1>15 DEF AddBegin
<1>16. ASSUME NEW c \in Calcs, ReleaseBegin(c) PROVE LockInv'
  BY <1>16 DEF ReleaseBegin
<1>17. ASSUME NEW c \in Calcs, Delete(c) PROVE LockInv'
  BY <1>17 DEF Delete
<1>18. CASE MakerStop
  BY <1>18 DEF MakerStop
<1>19. CASE MakerSeesRunning
  BY <1>19 DEF MakerSeesRunning
<1>20. CASE MakerTryLock
  BY <1>20 DEF MakerTryLock
<1>21. CASE MakerFill
  BY <1>21 DEF MakerFill
<1>22. CASE MakerSkip
  BY <1>22 DEF MakerSkip
<1>23. CASE MakerUnlock
  BY <1>23 DEF MakerUnlock
<1>24. ASSUME NEW w \in Workers, RegisterWorker(w) PROVE LockInv'
  BY <1>24 DEF RegisterWorker
<1>25. ASSUME NEW w \in Workers, WorkerStop(w) PROVE LockInv'
  BY <1>25 DEF WorkerStop
<1>26. ASSUME NEW w \in Workers, WorkerSeesRunning(w) PROVE LockInv'
  BY <1>26 DEF WorkerSeesRunning
<1>27. ASSUME NEW w \in Workers, AcquireOrder(w) PROVE LockInv'
  BY <1>27 DEF AcquireOrder
<1>28. ASSUME NEW w \in Workers, OrderEmpty(w) PROVE LockInv'
  <2>1. /\ pcWorker[w] \in HoldingSteps /\ pcWorker' = [pcWorker EXCEPT ![w] = "loop"]
        /\ lockOrder' = [lockOrder EXCEPT ![w] = "free"]
        /\ UNCHANGED <<lockCalc, pcMaker, pcMain, slot>>
    BY <1>28 DEF OrderEmpty
  <2>2. QED
    BY <2>1
<1>29. ASSUME NEW w \in Workers, TakeFront(w) PROVE LockInv'
  BY <1>29 DEF TakeFront
<1>30. ASSUME NEW w \in Workers, CallMethods(w) PROVE LockInv'
  BY <1>30 DEF CallMethods, EnterBody, SkipBody, LeaveBody
<1>31. ASSUME NEW w \in Workers, PopFront(w) PROVE LockInv'
  <2>1. /\ pcWorker[w] \in HoldingSteps /\ pcWorker' = [pcWorker EXCEPT ![w] = "loop"]
        /\ lockOrder' = [lockOrder EXCEPT ![w] = "free"]
        /\ UNCHANGED <<lockCalc, pcMaker, pcMain, slot>>
    BY <1>31 DEF PopFront
  <2>2. QED
    BY <2>1
<1>32. CASE UNCHANGED vars
  BY <1>32 DEF vars
<1>33. QED
  BY <1>1, <1>2, <1>3, <1>4, <1>5, <1>6, <1>7, <1>8, <1>9, <1>10, <1>11, <1>12, <1>13,
     <1>14, <1>15, <1>16, <1>17, <1>18, <1>19, <1>20, <1>21, <1>22, <1>23, <1>24,
     <1>25, <1>26, <1>27, <1>28, <1>29, <1>30, <1>31, <1>32
  DEF Next, MainOperation, MainCall, Maker, Worker, Terminated

(* Every step keeps what main has done of its operation. *)
LEMMA OpStep == TypeOK /\ SchedulerInv /\ [Next]_vars => OpInv'
<1> SUFFICES ASSUME TypeOK, SchedulerInv, [Next]_vars
             PROVE  OpInv'
  OBVIOUS
<1>a. OpInv
  BY DEF SchedulerInv
<1> USE <1>a, ThreadsAssumption
  DEF TypeOK, Workers, Registered,  OpInv, Clearing, mainVars, makerVars, registry,
      calcVars, MainAt, MakerUnchanged, WorkerUnchanged, WorkerGoto
<1>1. CASE StartThread
  BY <1>1 DEF StartThread
<1>2. CASE AddPush
  <2>1. QED
    BY <1>2 DEF AddPush
<1>3. CASE EraseFirstMatch
  <2>1. op = "release" /\ target \in Calcs /\ pcMain = "erase" /\ op' = op /\ target' = target
        /\ life' = life /\ slot' = slot /\ slot = 0
    BY <1>3 DEF EraseFirstMatch
  <2>2. CASE sizeOfCalculations > 0 /\ Contains(calculations, target)
    <3>1. PICK it \in 1 .. Len(calculations) :
            /\ calculations[it] = target
            /\ calculations' = RemoveAt(calculations, it)
      BY <1>3, <2>2 DEF EraseFirstMatch
    <3>2. life[target] = "live"
      BY <3>1 DEF SchedulerInv, RegInv
    <3>3. \A i, j \in 1 .. Len(calculations) : calculations[i] = calculations[j] => i = j
      BY DEF SchedulerInv, RegInv
    <3>4. target \notin Registered'
      BY <3>1, <3>3, EraseOnce DEF Registered
    <3>5. QED
      BY <1>3, <2>1, <2>2, <3>2, <3>4 DEF EraseFirstMatch
  <2>3. CASE ~(sizeOfCalculations > 0 /\ Contains(calculations, target))
    <3>1. sizeOfCalculations = Len(calculations)
      BY <2>1 DEF SchedulerInv, RegInv
    <3>2. target \notin Registered
      BY <2>3, <3>1, LenProperties DEF Contains, Registered, ToSet
    <3>3. QED
      BY <1>3, <2>1, <2>3, <3>2 DEF EraseFirstMatch, Registered
  <2>4. QED
    BY <2>2, <2>3
<1>4. CASE EraseAll
  BY <1>4 DEF EraseAll
<1>5. CASE LockOrder
  BY <1>5 DEF LockOrder
<1>6. CASE ClearOrder
  BY <1>6 DEF ClearOrder
<1>7. CASE SkipOrder
  BY <1>7 DEF SkipOrder
<1>8. CASE UnlockCalculations
  BY <1>8 DEF UnlockCalculations
<1>9. CASE Resume
  BY <1>9 DEF Resume
<1>10. CASE StopJoined
  BY <1>10 DEF StopJoined
<1>11. CASE SignalJoined
  BY <1>11, ThreadsAssumption, ToSetProperties DEF SignalJoined
<1>12. CASE ReleaseAllBegin
  BY <1>12 DEF ReleaseAllBegin
<1>13. CASE StopBegin
  BY <1>13 DEF StopBegin
<1>14. CASE SignalBegin
  BY <1>14 DEF SignalBegin
<1>15. ASSUME NEW c \in Calcs, AddBegin(c) PROVE OpInv'
  <2>1. c \notin Registered
    <3>1. life[c] = "free"
      BY <1>15 DEF AddBegin
    <3>2. \A i \in 1 .. Len(calculations) : life[calculations[i]] = "live"
      BY DEF SchedulerInv, RegInv
    <3>3. QED
      BY <3>1, <3>2, ToSetProperties DEF Registered
  <2>2. QED
    BY <1>15, <2>1, NoCalcAssumption DEF AddBegin
<1>16. ASSUME NEW c \in Calcs, ReleaseBegin(c) PROVE OpInv'
  BY <1>16 DEF ReleaseBegin
<1>17. ASSUME NEW c \in Calcs, Delete(c) PROVE OpInv'
  BY <1>17 DEF Delete
<1>18. CASE MakerStop
  BY <1>18 DEF MakerStop
<1>19. CASE MakerSeesRunning
  BY <1>19 DEF MakerSeesRunning
<1>20. CASE MakerTryLock
  BY <1>20 DEF MakerTryLock
<1>21. CASE MakerFill
  BY <1>21 DEF MakerFill
<1>22. CASE MakerSkip
  BY <1>22 DEF MakerSkip
<1>23. CASE MakerUnlock
  BY <1>23 DEF MakerUnlock
<1>24. ASSUME NEW w \in Workers, RegisterWorker(w) PROVE OpInv'
  BY <1>24 DEF RegisterWorker
<1>25. ASSUME NEW w \in Workers, WorkerStop(w) PROVE OpInv'
  BY <1>25 DEF WorkerStop
<1>26. ASSUME NEW w \in Workers, WorkerSeesRunning(w) PROVE OpInv'
  BY <1>26 DEF WorkerSeesRunning
<1>27. ASSUME NEW w \in Workers, AcquireOrder(w) PROVE OpInv'
  BY <1>27 DEF AcquireOrder
<1>28. ASSUME NEW w \in Workers, OrderEmpty(w) PROVE OpInv'
  BY <1>28 DEF OrderEmpty
<1>29. ASSUME NEW w \in Workers, TakeFront(w) PROVE OpInv'
  BY <1>29 DEF TakeFront
<1>30. ASSUME NEW w \in Workers, CallMethods(w) PROVE OpInv'
  BY <1>30 DEF CallMethods, EnterBody, SkipBody, LeaveBody
<1>31. ASSUME NEW w \in Workers, PopFront(w) PROVE OpInv'
  BY <1>31 DEF PopFront
<1>32. CASE UNCHANGED vars
  BY <1>32 DEF vars
<1>33. QED
  BY <1>1, <1>2, <1>3, <1>4, <1>5, <1>6, <1>7, <1>8, <1>9, <1>10, <1>11, <1>12, <1>13,
     <1>14, <1>15, <1>16, <1>17, <1>18, <1>19, <1>20, <1>21, <1>22, <1>23, <1>24,
     <1>25, <1>26, <1>27, <1>28, <1>29, <1>30, <1>31, <1>32
  DEF Next, MainOperation, MainCall, Maker, Worker, Terminated

(* Every step keeps the registry duplicate-free, alive and counted. *)
LEMMA RegStep == TypeOK /\ SchedulerInv /\ [Next]_vars => RegInv'
<1> SUFFICES ASSUME TypeOK, SchedulerInv, [Next]_vars
             PROVE  RegInv'
  OBVIOUS
<1>a. RegInv
  BY DEF SchedulerInv
<1> USE <1>a
  DEF TypeOK, Workers, RegInv, Clearing, mainVars, makerVars, registry, calcVars,
      MainAt, MakerUnchanged, WorkerUnchanged, WorkerGoto
<1>1. CASE StartThread
  BY <1>1 DEF StartThread
<1>2. CASE AddPush
  <2>1. target \in Calcs /\ life[target] = "live" /\ target \notin Registered
    BY <1>2 DEF AddPush, SchedulerInv, OpInv
  <2>2. \A i \in 1 .. Len(calculations) : calculations[i] # target
    BY <2>1, ToSetProperties DEF Registered
  <2>3. /\ Len(calculations') = Len(calculations) + 1
        /\ \A i \in 1 .. Len(calculations) : calculations'[i] = calculations[i]
        /\ calculations'[Len(calculations) + 1] = target
    BY <1>2, <2>1, AppendProperties DEF AddPush
  <2>4. op # "releaseAll"
    BY <1>2 DEF AddPush, SchedulerInv, OpInv
  <2>5. QED
    BY <1>2, <2>1, <2>2, <2>3, <2>4, LenProperties DEF AddPush
<1>3. CASE EraseFirstMatch
  <2>1. op = "release" /\ sizeOfCalculations = Len(calculations)
    BY <1>3 DEF EraseFirstMatch
  <2>2. CASE sizeOfCalculations > 0 /\ Contains(calculations, target)
    <3>1. PICK it \in 1 .. Len(calculations) :
            /\ calculations[it] = target
            /\ calculations' = RemoveAt(calculations, it)
      BY <1>3, <2>2 DEF EraseFirstMatch
    <3>2. calculations' \in Seq(Calcs) /\ Len(calculations') = Len(calculations) - 1
      BY <3>1, RemoveAtProperties
    <3>3. /\ Registered' = Registered \ {target}
          /\ \A i, j \in 1 .. Len(calculations') : calculations'[i] = calculations'[j] => i = j
      BY <3>1, EraseOnce DEF Registered
    <3>4. ASSUME NEW i \in 1 .. Len(calculations') PROVE life[calculations'[i]] = "live"
      <4>1. calculations'[i] \in Registered
        BY <3>2, <3>3, ToSetProperties DEF Registered
      <4>2. QED
        BY <4>1, ToSetProperties DEF Registered
    <3>5. QED
      BY <1>3, <2>1, <2>2, <3>2, <3>3, <3>4 DEF EraseFirstMatch
  <2>3. CASE ~(sizeOfCalculations > 0 /\ Contains(calculations, target))
    BY <1>3, <2>1, <2>3 DEF EraseFirstMatch
  <2>4. QED
    BY <2>2, <2>3
<1>4. CASE EraseAll
  BY <1>4 DEF EraseAll, SchedulerInv, OpInv
<1>5. CASE LockOrder
  BY <1>5 DEF LockOrder
<1>6. CASE ClearOrder
  BY <1>6 DEF ClearOrder
<1>7. CASE SkipOrder
  BY <1>7 DEF SkipOrder
<1>8. CASE UnlockCalculations
  BY <1>8 DEF UnlockCalculations
<1>9. CASE Resume
  <2>1. ASSUME NEW i \in 1 .. Len(calculations) PROVE life'[calculations[i]] = "live"
    <3>1. calculations[i] \in Calcs /\ calculations[i] \in Registered
      BY ElementOfSeq, ToSetProperties DEF Registered
    <3>2. ~(op = "release" /\ calculations[i] = target)
      BY <1>9, <3>1 DEF Resume, SchedulerInv, OpInv
    <3>3. op # "releaseAll"
      BY <1>9 DEF Resume, SchedulerInv, OpInv
    <3>4. QED
      BY <1>9, <3>1, <3>2, <3>3 DEF Resume
  <2>2. sizeOfCalculations' = Len(calculations)
    BY <1>9 DEF Resume, SizeOnReturn, SchedulerInv, OpInv
  <2>3. QED
    BY <1>9, <2>1, <2>2 DEF Resume
<1>10. CASE StopJoined
  BY <1>10 DEF StopJoined
<1>11. CASE SignalJoined
  BY <1>11 DEF SignalJoined
<1>12. CASE ReleaseAllBegin
  BY <1>12 DEF ReleaseAllBegin, SchedulerInv, OpInv
<1>13. CASE StopBegin
  BY <1>13 DEF StopBegin
<1>14. CASE SignalBegin
  BY <1>14 DEF SignalBegin
<1>15. ASSUME NEW c \in Calcs, AddBegin(c) PROVE RegInv'
  BY <1>15, ElementOfSeq DEF AddBegin, SchedulerInv, OpInv
<1>16. ASSUME NEW c \in Calcs, ReleaseBegin(c) PROVE RegInv'
  BY <1>16 DEF ReleaseBegin, SchedulerInv, OpInv
<1>17. ASSUME NEW c \in Calcs, Delete(c) PROVE RegInv'
  BY <1>17, ElementOfSeq DEF Delete, SchedulerInv, OpInv
<1>18. CASE MakerStop
  BY <1>18 DEF MakerStop
<1>19. CASE MakerSeesRunning
  BY <1>19 DEF MakerSeesRunning
<1>20. CASE MakerTryLock
  BY <1>20 DEF MakerTryLock
<1>21. CASE MakerFill
  BY <1>21 DEF MakerFill
<1>22. CASE MakerSkip
  BY <1>22 DEF MakerSkip
<1>23. CASE MakerUnlock
  BY <1>23 DEF MakerUnlock
<1>24. ASSUME NEW w \in Workers, RegisterWorker(w) PROVE RegInv'
  BY <1>24 DEF RegisterWorker
<1>25. ASSUME NEW w \in Workers, WorkerStop(w) PROVE RegInv'
  BY <1>25 DEF WorkerStop
<1>26. ASSUME NEW w \in Workers, WorkerSeesRunning(w) PROVE RegInv'
  BY <1>26 DEF WorkerSeesRunning
<1>27. ASSUME NEW w \in Workers, AcquireOrder(w) PROVE RegInv'
  BY <1>27 DEF AcquireOrder
<1>28. ASSUME NEW w \in Workers, OrderEmpty(w) PROVE RegInv'
  BY <1>28 DEF OrderEmpty
<1>29. ASSUME NEW w \in Workers, TakeFront(w) PROVE RegInv'
  BY <1>29 DEF TakeFront
<1>30. ASSUME NEW w \in Workers, CallMethods(w) PROVE RegInv'
  BY <1>30 DEF CallMethods, EnterBody, SkipBody, LeaveBody
<1>31. ASSUME NEW w \in Workers, PopFront(w) PROVE RegInv'
  BY <1>31 DEF PopFront
<1>32. CASE UNCHANGED vars
  BY <1>32 DEF vars
<1>33. QED
  BY <1>1, <1>2, <1>3, <1>4, <1>5, <1>6, <1>7, <1>8, <1>9, <1>10, <1>11, <1>12, <1>13,
     <1>14, <1>15, <1>16, <1>17, <1>18, <1>19, <1>20, <1>21, <1>22, <1>23, <1>24,
     <1>25, <1>26, <1>27, <1>28, <1>29, <1>30, <1>31, <1>32
  DEF Next, MainOperation, MainCall, Maker, Worker, Terminated

(* A worker's step that only moves its program counter keeps QueueInv. *)
LEMMA QueueFrame ==
  ASSUME TypeOK, QueueInv, NEW w \in Workers, NEW next \in WorkerSteps \ {"none", "register"},
         pcWorker' = [pcWorker EXCEPT ![w] = next],
         pcWorker[w] \notin {"none", "register", "done"},
         next \in RunningSteps => order[w] # <<>>,
         UNCHANGED <<order, processMap, calculations, pcMain, op, target, slot, life>>
  PROVE  QueueInv'
<1> SUFFICES ASSUME NEW v \in Workers PROVE QueueOf(v)'
  BY DEF QueueInv
<1>1. QueueOf(v) /\ QueueOf(w)
  BY DEF QueueInv
<1>2. \A c : MayLinger(v, c)' = MayLinger(v, c)
  BY DEF MayLinger, Clearing
<1>3. Registered' = Registered /\ order'[v] = order[v] /\ processMap'[v] = processMap[v]
  BY DEF Registered
<1>4. CASE v = w
  <2>1. pcWorker'[v] = next
    BY <1>4 DEF TypeOK
  <2>2. QED
    BY <1>1, <1>2, <1>3, <1>4, <2>1 DEF QueueOf, Running
<1>5. CASE v # w
  <2>1. pcWorker'[v] = pcWorker[v]
    BY <1>5 DEF TypeOK
  <2>2. QED
    BY <1>1, <1>2, <1>3, <2>1 DEF QueueOf, Running
<1>6. QED
  BY <1>4, <1>5

(* Every step keeps the queued calculations registered or about to be cleared. *)
LEMMA QueueStep == TypeOK /\ SchedulerInv /\ [Next]_vars => QueueInv'
<1> SUFFICES ASSUME TypeOK, SchedulerInv, [Next]_vars
             PROVE  QueueInv'
  OBVIOUS
<1>a. QueueInv
  BY DEF SchedulerInv
<1> USE <1>a, ThreadsAssumption
  DEF TypeOK, Workers, QueueInv, QueueOf, Clearing, Running, RunningSteps, MayLinger,
      Registered, mainVars, makerVars, registry, calcVars, MainAt, MakerUnchanged,
      WorkerUnchanged, WorkerGoto
<1>1. CASE StartThread
  <2>1. CASE slot < NumThreads
    <3>1. slot \in Workers /\ pcWorker[slot] = "none" /\ order[slot] = <<>>
      BY <1>1, <2>1 DEF StartThread
    <3>2. /\ pcWorker' = [pcWorker EXCEPT ![slot] = "register"]
          /\ processMap' = [processMap EXCEPT ![slot] = "null"]
          /\ pcMain = "start" /\ pcMain' = "start" /\ slot' = slot + 1
          /\ UNCHANGED <<order, calculations>> /\ Len(order[slot]) = 0
      BY <1>1, <2>1, <3>1 DEF StartThread
    <3>3. SUFFICES ASSUME NEW v \in Workers PROVE QueueOf(v)'
      OBVIOUS
    <3>4. CASE v = slot
      BY <3>1, <3>2, <3>4
    <3>5. CASE v # slot
      <4>1. pcWorker'[v] = pcWorker[v] /\ processMap'[v] = processMap[v]
        BY <3>1, <3>2, <3>5
      <4>2. slot + 1 <= v => slot <= v
        OBVIOUS
      <4>3. QED
        BY <3>2, <4>1, <4>2
    <3>6. QED
      BY <3>4, <3>5
  <2>2. CASE ~(slot < NumThreads)
    BY <1>1, <2>2 DEF StartThread
  <2>3. QED
    BY <2>1, <2>2
<1>2. CASE AddPush
  <2>1. target \in Calcs
    BY <1>2 DEF AddPush, SchedulerInv, OpInv
  <2>2. ASSUME NEW e \in ToSet(calculations) PROVE e \in ToSet(calculations')
    <3>1. PICK i \in 1 .. Len(calculations) : calculations[i] = e
      BY ToSetProperties
    <3>2. /\ calculations' \in Seq(Calcs) /\ Len(calculations') = Len(calculations) + 1
          /\ calculations'[i] = e
      BY <1>2, <2>1, <3>1, AppendProperties DEF AddPush
    <3>3. i \in 1 .. Len(calculations')
      BY <3>2, LenProperties
    <3>4. QED
      BY <3>2, <3>3, ToSetProperties
  <2>3. QED
    BY <1>2, <2>2 DEF AddPush
<1>3. CASE EraseFirstMatch
  <2>1. op = "release" /\ slot = 0 /\ UNCHANGED <<order, pcWorker, processMap, op, target, slot, life>>
    BY <1>3 DEF EraseFirstMatch, SchedulerInv, OpInv
  <2>2. CASE sizeOfCalculations > 0 /\ Contains(calculations, target)
    <3>1. PICK it \in 1 .. Len(calculations) :
            /\ calculations[it] = target
            /\ calculations' = RemoveAt(calculations, it)
      BY <1>3, <2>2 DEF EraseFirstMatch
    <3>2. ToSet(calculations') = ToSet(calculations) \ {target}
      BY <3>1, EraseOnce DEF SchedulerInv, RegInv
    <3>3. QED
      BY <1>3, <2>1, <2>2, <3>2 DEF EraseFirstMatch
  <2>3. CASE ~(sizeOfCalculations > 0 /\ Contains(calculations, target))
    BY <1>3, <2>1, <2>3 DEF EraseFirstMatch
  <2>4. QED
    BY <2>2, <2>3
<1>4. CASE EraseAll
  <2>1. op = "releaseAll" /\ slot = 0
    BY <1>4 DEF EraseAll, SchedulerInv, OpInv
  <2>2. \A e \in ToSet(calculations) : life[e] = "live"
    BY ToSetProperties DEF SchedulerInv, RegInv
  <2>3. QED
    BY <1>4, <2>1, <2>2 DEF EraseAll
<1>5. CASE LockOrder
  BY <1>5 DEF LockOrder, MustClear
<1>6. CASE ClearOrder
  <2>1. slot \in Workers /\ ~Running(slot)
    BY <1>6 DEF ClearOrder, SchedulerInv, LockInv, HoldingSteps
  <2>2. order' = [order EXCEPT ![slot] = <<>>] /\ Len(<<>>) = 0
    BY <1>6 DEF ClearOrder, ClearedOrder
  <2>3. QED
    BY <1>6, <2>1, <2>2 DEF ClearOrder
<1>7. CASE SkipOrder
  <2>1. /\ slot \in Workers /\ slot' = slot + 1
        /\ UNCHANGED <<order, pcWorker, processMap, calculations, pcMain, op, target, life>>
    BY <1>7 DEF SkipOrder
  <2>2. pcWorker[slot] # "done" => Len(order[slot]) = 0
    BY <1>7, <2>1 DEF SkipOrder, MustClear, Dangling
  <2>3. SUFFICES ASSUME NEW v \in Workers PROVE QueueOf(v)'
    OBVIOUS
  <2>4. CASE v = slot
    BY <2>1, <2>2, <2>4
  <2>5. CASE v # slot
    <3>1. slot <= v => slot + 1 <= v
      BY <2>5
    <3>2. QED
      BY <2>1, <3>1
  <2>6. QED
    BY <2>4, <2>5
<1>8. CASE UnlockCalculations
  BY <1>8 DEF UnlockCalculations
<1>9. CASE Resume
  <2>1. ~Clearing /\ UNCHANGED <<order, pcWorker, processMap, calculations>> /\ pcMain' = "idle"
    BY <1>9 DEF Resume
  <2>2. QED
    BY <2>1
<1>10. CASE StopJoined
  <2>1. /\ \A w \in Workers : pcWorker[w] \in {"none", "done"}
        /\ UNCHANGED <<pcWorker, order, processMap>> /\ pcMain' # "start"
    BY <1>10 DEF StopJoined, AllThreadsReturned
  <2>2. \A w \in Workers : pcWorker[w] = "none" => Len(order[w]) = 0
    BY <2>1
  <2>3. QED
    BY <2>1, <2>2
<1>11. CASE SignalJoined
  <2>1. /\ \A w \in Workers : pcWorker[w] \in {"none", "done"}
        /\ UNCHANGED <<pcWorker, order, processMap, pcMain, slot>>
    BY <1>11 DEF SignalJoined, AllThreadsReturned
  <2>2. \A w \in Workers : pcWorker[w] = "none" => Len(order[w]) = 0
    BY <2>1
  <2>3. QED
    BY <2>1, <2>2
<1>12. CASE ReleaseAllBegin
  BY <1>12 DEF ReleaseAllBegin
<1>13. CASE StopBegin
  BY <1>13 DEF StopBegin
<1>14. CASE SignalBegin
  BY <1>14 DEF SignalBegin
<1>15. ASSUME NEW c \in Calcs, AddBegin(c) PROVE QueueInv'
  <2>1. ~Clearing /\ UNCHANGED <<order, pcWorker, processMap, calculations>> /\ pcMain' \in {"idle", "push"}
    BY <1>15 DEF AddBegin
  <2>2. QED
    BY <2>1
<1>16. ASSUME NEW c \in Calcs, ReleaseBegin(c) PROVE QueueInv'
  BY <1>16 DEF ReleaseBegin
<1>17. ASSUME NEW c \in Calcs, Delete(c) PROVE QueueInv'
  <2>1. ~Clearing /\ UNCHANGED <<order, pcWorker, processMap, calculations, pcMain>> /\ pcMain = "idle"
    BY <1>17 DEF Delete
  <2>2. QED
    BY <2>1
<1>18. CASE MakerStop
  BY <1>18 DEF MakerStop
<1>19. CASE MakerSeesRunning
  BY <1>19 DEF MakerSeesRunning
<1>20. CASE MakerTryLock
  BY <1>20 DEF MakerTryLock
<1>21. CASE MakerFill
  <2>1. /\ makerSlot \in Workers /\ order[makerSlot] = <<>> /\ processMap[makerSlot] = "set"
        /\ pcWorker[makerSlot] \notin RunningSteps
    BY <1>21 DEF MakerFill, CanFill, SchedulerInv, LockInv, HoldingSteps
  <2>2. order' = [order EXCEPT ![makerSlot] = calculations]
    BY <1>21, <2>1, ConcatEmptySeq DEF MakerFill
  <2>3. \A i \in 1 .. Len(calculations) : calculations[i] \in ToSet(calculations)
    BY ToSetProperties
  <2>4. UNCHANGED <<pcWorker, processMap, calculations, pcMain, op, target, slot, life>>
    BY <1>21 DEF MakerFill
  <2>5. SUFFICES ASSUME NEW v \in Workers PROVE QueueOf(v)'
    OBVIOUS
  <2>6. CASE v = makerSlot
    <3>1. order'[v] = calculations
      BY <2>1, <2>2, <2>6
    <3>2. QED
      BY <2>1, <2>3, <2>4, <2>6, <3>1
  <2>7. CASE v # makerSlot
    <3>1. order'[v] = order[v]
      BY <2>2, <2>7
    <3>2. QED
      BY <2>4, <3>1
  <2>8. QED
    BY <2>6, <2>7
<1>22. CASE MakerSkip
  BY <1>22 DEF MakerSkip
<1>23. CASE MakerUnlock
  BY <1>23 DEF MakerUnlock
<1>24. ASSUME NEW w \in Workers, RegisterWorker(w) PROVE QueueInv'
  <2>1. /\ pcWorker[w] = "register" /\ pcWorker' = [pcWorker EXCEPT ![w] = "loop"]
        /\ processMap' = [processMap EXCEPT ![w] = "set"]
        /\ UNCHANGED <<order, calculations, pcMain, op, target, slot, life>>
    BY <1>24 DEF RegisterWorker
  <2>2. order[w] = <<>> /\ Len(order[w]) = 0 /\ ~(pcMain = "start" /\ slot <= w)
    BY <2>1
  <2>3. SUFFICES ASSUME NEW v \in Workers PROVE QueueOf(v)'
    OBVIOUS
  <2>4. CASE v = w
    BY <2>1, <2>2, <2>4
  <2>5. CASE v # w
    <3>1. pcWorker'[v] = pcWorker[v] /\ processMap'[v] = processMap[v]
      BY <2>1, <2>5
    <3>2. QED
      BY <2>1, <3>1
  <2>6. QED
    BY <2>4, <2>5
<1>25. ASSUME NEW w \in Workers, WorkerStop(w) PROVE QueueInv'
  <2>1. /\ pcWorker[w] = "loop" /\ pcWorker' = [pcWorker EXCEPT ![w] = "done"]
        /\ UNCHANGED <<order, processMap, calculations, pcMain, op, target, slot, life>>
    BY <1>25 DEF WorkerStop
  <2>2. QED
    BY <2>1, QueueFrame DEF WorkerSteps, HoldingSteps
<1>26. ASSUME NEW w \in Workers, WorkerSeesRunning(w) PROVE QueueInv'
  <2>1. /\ pcWorker[w] = "loop" /\ pcWorker' = [pcWorker EXCEPT ![w] = "acquire"]
        /\ UNCHANGED <<order, processMap, calculations, pcMain, op, target, slot, life>>
    BY <1>26 DEF WorkerSeesRunning
  <2>2. QED
    BY <2>1, QueueFrame DEF WorkerSteps, HoldingSteps
<1>27. ASSUME NEW w \in Workers, AcquireOrder(w) PROVE QueueInv'
  <2>1. /\ pcWorker[w] = "acquire" /\ pcWorker' = [pcWorker EXCEPT ![w] = "front"]
        /\ UNCHANGED <<order, processMap, calculations, pcMain, op, target, slot, life>>
    BY <1>27 DEF AcquireOrder
  <2>2. QED
    BY <2>1, QueueFrame DEF WorkerSteps, HoldingSteps
<1>28. ASSUME NEW w \in Workers, OrderEmpty(w) PROVE QueueInv'
  <2>1. /\ pcWorker[w] = "front" /\ pcWorker' = [pcWorker EXCEPT ![w] = "loop"]
        /\ UNCHANGED <<order, processMap, calculations, pcMain, op, target, slot, life>>
    BY <1>28 DEF OrderEmpty
  <2>2. QED
    BY <2>1, QueueFrame DEF WorkerSteps, HoldingSteps
<1>29. ASSUME NEW w \in Workers, TakeFront(w) PROVE QueueInv'
  <2>1. /\ pcWorker[w] = "front" /\ pcWorker' = [pcWorker EXCEPT ![w] = "first"] /\ order[w] # <<>>
        /\ UNCHANGED <<order, processMap, calculations, pcMain, op, target, slot, life>>
    BY <1>29 DEF TakeFront
  <2>2. QED
    BY <2>1, QueueFrame DEF WorkerSteps, HoldingSteps
<1>30. ASSUME NEW w \in Workers, CallMethods(w) PROVE QueueInv'
  <2>1. /\ pcWorker[w] \in RunningSteps
        /\ \E next \in RunningSteps : pcWorker' = [pcWorker EXCEPT ![w] = next]
        /\ UNCHANGED <<order, processMap, calculations, pcMain, op, target, slot, life>>
    BY <1>30 DEF CallMethods, EnterBody, SkipBody, LeaveBody
  <2>2. QED
    BY <2>1
<1>31. ASSUME NEW w \in Workers, PopFront(w) PROVE QueueInv'
  <2>1. order[w] # <<>> /\ order' = [order EXCEPT ![w] = Tail(order[w])]
    BY <1>31 DEF PopFront
  <2>2. /\ Len(Tail(order[w])) = Len(order[w]) - 1 /\ Len(order[w]) \in Nat
        /\ \A i \in 1 .. Len(order[w]) - 1 : Tail(order[w])[i] = order[w][i + 1]
    BY <2>1, HeadTailProperties, LenProperties
  <2>3. \A i \in 1 .. Len(order'[w]) : order'[w][i] = order[w][i + 1] /\ i + 1 \in 1 .. Len(order[w])
    BY <2>1, <2>2
  <2>4. /\ pcWorker[w] = "pop" /\ pcWorker' = [pcWorker EXCEPT ![w] = "loop"]
        /\ UNCHANGED <<processMap, calculations, pcMain, op, target, slot, life>>
    BY <1>31 DEF PopFront
  <2>5. QED
    BY <2>1, <2>3, <2>4
<1>32. CASE UNCHANGED vars
  BY <1>32 DEF vars
<1>33. QED
  BY <1>1, <1>2, <1>3, <1>4, <1>5, <1>6, <1>7, <1>8, <1>9, <1>10, <1>11, <1>12, <1>13,
     <1>14, <1>15, <1>16, <1>17, <1>18, <1>19, <1>20, <1>21, <1>22, <1>23, <1>24,
     <1>25, <1>26, <1>27, <1>28, <1>29, <1>30, <1>31, <1>32
  DEF Next, MainOperation, MainCall, Maker, Worker, Terminated

(* The front of an order at the moment it is taken or run: it is registered, or
   main is about to clear it; either way its owner still waits for its release. *)
LEMMA RunsQueued ==
  ASSUME TypeOK, SchedulerInv, NEW w \in Workers, pcWorker[w] # "done", order[w] # <<>>
  PROVE  /\ Head(order[w]) \in Calcs
         /\ Head(order[w]) \in Registered \/ MayLinger(w, Head(order[w]))
<1>1. order[w] \in Seq(Calcs)
  BY DEF TypeOK
<1>2. 1 \in 1 .. Len(order[w]) /\ Head(order[w]) = order[w][1] /\ Head(order[w]) \in Calcs
  BY <1>1, HeadTailProperties, LenProperties, EmptySeq
<1>3. QueueOf(w)
  BY DEF SchedulerInv, QueueInv
<1>4. order[w][1] \in Registered \/ MayLinger(w, order[w][1])
  BY <1>2, <1>3 DEF QueueOf
<1>5. QED
  BY <1>2, <1>4

(* What is at the front of an order has not been given back to its owner. *)
LEMMA FrontIsLive ==
  ASSUME TypeOK, SchedulerInv, NEW w \in Workers, pcWorker[w] # "done", order[w] # <<>>
  PROVE  Head(order[w]) \in Calcs /\ life[Head(order[w])] = "live"
<1>1. /\ Head(order[w]) \in Calcs
      /\ Head(order[w]) \in Registered \/ MayLinger(w, Head(order[w]))
  BY RunsQueued
<1>2. CASE Head(order[w]) \in Registered
  <2>1. calculations \in Seq(Calcs)
    BY DEF TypeOK
  <2>2. PICK i \in 1 .. Len(calculations) : calculations[i] = Head(order[w])
    BY <1>2, <2>1, ToSetProperties DEF Registered
  <2>3. QED
    BY <1>1, <2>2 DEF SchedulerInv, RegInv
<1>3. CASE MayLinger(w, Head(order[w]))
  BY <1>1, <1>3 DEF MayLinger, SchedulerInv, OpInv
<1>4. QED
  BY <1>1, <1>2, <1>3

(* A worker that runs a calculation runs one that is not deleted. *)
LEMMA RunsAlive == TypeOK /\ SchedulerInv => NoUseAfterFree
<1> SUFFICES ASSUME TypeOK, SchedulerInv, NEW w \in Workers, Running(w)
             PROVE  life[Head(order[w])] # "free"
  BY DEF NoUseAfterFree
<1>1. pcWorker[w] # "done" /\ order[w] # <<>>
  BY DEF SchedulerInv, QueueInv, QueueOf, Running, RunningSteps
<1>2. QED
  BY <1>1, FrontIsLive

(* A step that lets nobody into a body and keeps the locks of those inside. *)
LEMMA BodyFrame ==
  ASSUME BodyInv,
         \A v \in Workers : InBody(v)' =>
             InBody(v) /\ pcWorker'[v] = pcWorker[v] /\ order'[v] = order[v],
         \A v \in Workers : InBody(v)' => <<Head(order[v]), BodyOf(v)>> \in busy'
  PROVE  BodyInv'
BY DEF BodyInv, OneThreadPerMethod, BodyOf

(* Every step keeps the workers inside bodies apart: the address of a new
   calculation is one nobody runs (RunsAlive), so its locks are nobody's. *)
LEMMA BodyStep == TypeOK /\ SchedulerInv /\ [Next]_vars => BodyInv'
<1> SUFFICES ASSUME TypeOK, SchedulerInv, [Next]_vars
             PROVE  BodyInv'
  OBVIOUS
<1>a. BodyInv
  BY DEF SchedulerInv
<1> USE <1>a, ThreadsAssumption
  DEF TypeOK, Workers, mainVars, makerVars, registry, calcVars, MainAt, MakerUnchanged,
      WorkerUnchanged, WorkerGoto
<1>1. CASE StartThread
  <2>1. CASE slot < NumThreads
    BY <1>1, <2>1, BodyFrame DEF StartThread, InBody, BodyInv
  <2>2. CASE ~(slot < NumThreads)
    BY <1>1, <2>2, BodyFrame DEF StartThread, InBody, BodyInv
  <2>3. QED
    BY <2>1, <2>2
<1>2. CASE AddPush
  BY <1>2, BodyFrame DEF AddPush, InBody, BodyInv
<1>3. CASE EraseFirstMatch
  BY <1>3, BodyFrame DEF EraseFirstMatch, InBody, BodyInv
<1>4. CASE EraseAll
  BY <1>4, BodyFrame DEF EraseAll, InBody, BodyInv
<1>5. CASE LockOrder
  BY <1>5, BodyFrame DEF LockOrder, InBody, BodyInv
<1>6. CASE ClearOrder
  <2>1. slot \in Workers /\ ~InBody(slot)
    BY <1>6
      DEF ClearOrder, SchedulerInv, LockInv, Clearing, InBody, HoldingSteps,
          RunningSteps
  <2>2. \A v \in Workers : v # slot => order'[v] = order[v]
    BY <1>6 DEF ClearOrder
  <2>3. UNCHANGED <<pcWorker, busy>>
    BY <1>6 DEF ClearOrder
  <2>4. QED
    BY <2>1, <2>2, <2>3, BodyFrame DEF InBody, BodyInv
<1>7. CASE SkipOrder
  BY <1>7, BodyFrame DEF SkipOrder, InBody, BodyInv
<1>8. CASE UnlockCalculations
  BY <1>8, BodyFrame DEF UnlockCalculations, InBody, BodyInv
<1>9. CASE Resume
  BY <1>9, BodyFrame DEF Resume, InBody, BodyInv
<1>10. CASE StopJoined
  BY <1>10, BodyFrame DEF StopJoined, InBody, BodyInv
<1>11. CASE SignalJoined
  BY <1>11, BodyFrame DEF SignalJoined, InBody, BodyInv
<1>12. CASE ReleaseAllBegin
  BY <1>12, BodyFrame DEF ReleaseAllBegin, InBody, BodyInv
<1>13. CASE StopBegin
  BY <1>13, BodyFrame DEF StopBegin, InBody, BodyInv
<1>14. CASE SignalBegin
  BY <1>14, BodyFrame DEF SignalBegin, InBody, BodyInv
<1>15. ASSUME NEW c \in Calcs, AddBegin(c) PROVE BodyInv'
  <2>1. \A v \in Workers : InBody(v) => Head(order[v]) # c
    BY <1>15, RunsAlive DEF AddBegin, NoUseAfterFree, InBody, Running, RunningSteps
  <2>2. UNCHANGED <<pcWorker, order>> /\ busy' = busy \ ({c} \X Methods)
    BY <1>15 DEF AddBegin
  <2>3. QED
    BY <2>1, <2>2, BodyFrame DEF InBody, BodyInv
<1>16. ASSUME NEW c \in Calcs, ReleaseBegin(c) PROVE BodyInv'
  BY <1>16, BodyFrame DEF ReleaseBegin, InBody, BodyInv
<1>17. ASSUME NEW c \in Calcs, Delete(c) PROVE BodyInv'
  BY <1>17, BodyFrame DEF Delete, InBody, BodyInv
<1>18. CASE MakerStop
  BY <1>18, BodyFrame DEF MakerStop, InBody, BodyInv
<1>19. CASE MakerSeesRunning
  BY <1>19, BodyFrame DEF MakerSeesRunning, InBody, BodyInv
<1>20. CASE MakerTryLock
  BY <1>20, BodyFrame DEF MakerTryLock, InBody, BodyInv
<1>21. CASE MakerFill
  <2>1. makerSlot \in Workers /\ ~InBody(makerSlot)
    <3>1. makerSlot \in Workers /\ lockOrder[makerSlot] = "free"
      BY <1>21 DEF MakerFill, CanFill
    <3>2. pcWorker[makerSlot] \notin HoldingSteps
      BY <3>1 DEF SchedulerInv, LockInv
    <3>3. QED
      BY <3>1, <3>2 DEF InBody, HoldingSteps, RunningSteps
  <2>2. \A v \in Workers : v # makerSlot => order'[v] = order[v]
    BY <1>21 DEF MakerFill
  <2>3. UNCHANGED <<pcWorker, busy>>
    BY <1>21 DEF MakerFill
  <2>4. QED
    BY <2>1, <2>2, <2>3, BodyFrame DEF InBody, BodyInv
<1>22. CASE MakerSkip
  BY <1>22, BodyFrame DEF MakerSkip, InBody, BodyInv
<1>23. CASE MakerUnlock
  BY <1>23, BodyFrame DEF MakerUnlock, InBody, BodyInv
<1>24. ASSUME NEW w \in Workers, RegisterWorker(w) PROVE BodyInv'
  <2>1. pcWorker' = [pcWorker EXCEPT ![w] = "loop"] /\ UNCHANGED <<order, busy>>
    BY <1>24 DEF RegisterWorker
  <2>2. QED
    BY <2>1, BodyFrame DEF InBody, BodyInv
<1>25. ASSUME NEW w \in Workers, WorkerStop(w) PROVE BodyInv'
  <2>1. pcWorker' = [pcWorker EXCEPT ![w] = "done"] /\ UNCHANGED <<order, busy>>
    BY <1>25 DEF WorkerStop
  <2>2. QED
    BY <2>1, BodyFrame DEF InBody, BodyInv
<1>26. ASSUME NEW w \in Workers, WorkerSeesRunning(w) PROVE BodyInv'
  <2>1. pcWorker' = [pcWorker EXCEPT ![w] = "acquire"] /\ UNCHANGED <<order, busy>>
    BY <1>26 DEF WorkerSeesRunning
  <2>2. QED
    BY <2>1, BodyFrame DEF InBody, BodyInv
<1>27. ASSUME NEW w \in Workers, AcquireOrder(w) PROVE BodyInv'
  <2>1. pcWorker' = [pcWorker EXCEPT ![w] = "front"] /\ UNCHANGED <<order, busy>>
    BY <1>27 DEF AcquireOrder
  <2>2. QED
    BY <2>1, BodyFrame DEF InBody, BodyInv
<1>28. ASSUME NEW w \in Workers, OrderEmpty(w) PROVE BodyInv'
  <2>1. pcWorker' = [pcWorker EXCEPT ![w] = "loop"] /\ UNCHANGED <<order, busy>>
    BY <1>28 DEF OrderEmpty
  <2>2. QED
    BY <2>1, BodyFrame DEF InBody, BodyInv
<1>29. ASSUME NEW w \in Workers, TakeFront(w) PROVE BodyInv'
  <2>1. pcWorker' = [pcWorker EXCEPT ![w] = "first"] /\ UNCHANGED <<order, busy>>
    BY <1>29 DEF TakeFront
  <2>2. QED
    BY <2>1, BodyFrame DEF InBody, BodyInv
<1>30. ASSUME NEW w \in Workers, CallMethods(w) PROVE BodyInv'
  <2>1. UNCHANGED order /\ (\A v \in Workers : v # w => pcWorker'[v] = pcWorker[v])
    BY <1>30 DEF CallMethods, EnterBody, SkipBody, LeaveBody
  <2>2. ASSUME NEW step, NEW m, NEW inside \in {"inFirst", "inSecond"},
               EnterBody(w, step, m, inside),
               m = IF inside = "inFirst" THEN FirstMethod(w) ELSE SecondMethod(w)
        PROVE  BodyInv'
    <3>1. /\ pcWorker'[w] = inside
          /\ <<Head(order[w]), m>> \notin busy
          /\ busy' = busy \union {<<Head(order[w]), m>>}
      BY <2>2 DEF EnterBody, CanEnter
    <3>2. BodyOf(w)' = m
      BY <2>2, <3>1 DEF BodyOf, FirstMethod, SecondMethod
    <3>3. \A v \in Workers : v # w => InBody(v)' = InBody(v) /\ BodyOf(v)' = BodyOf(v)
      BY <2>1 DEF InBody, BodyOf, FirstMethod, SecondMethod
    <3>4. \A v \in Workers : InBody(v)' => <<Head(order'[v]), BodyOf(v)'>> \in busy'
      BY <2>1, <3>1, <3>2, <3>3 DEF BodyInv
    <3>5. \A v \in Workers : v # w /\ InBody(v)' =>
             <<Head(order'[v]), BodyOf(v)'>> # <<Head(order'[w]), BodyOf(w)'>>
      <4>1. \A v \in Workers : v # w /\ InBody(v)' => <<Head(order'[v]), BodyOf(v)'>> \in busy
        BY <2>1, <3>3 DEF BodyInv
      <4>2. <<Head(order'[w]), BodyOf(w)'>> \notin busy
        BY <2>1, <3>1, <3>2
      <4> QED
        BY <4>1, <4>2
    <3>6. OneThreadPerMethod'
      <4> SUFFICES ASSUME NEW u \in Workers, NEW v \in Workers, u # v, InBody(u)', InBody(v)'
                   PROVE  <<Head(order'[u]), BodyOf(u)'>> # <<Head(order'[v]), BodyOf(v)'>>
        BY DEF OneThreadPerMethod
      <4>1. CASE u = w
        BY <3>5, <4>1
      <4>2. CASE v = w
        BY <3>5, <4>2
      <4>3. CASE u # w /\ v # w
        BY <2>1, <3>3, <4>3 DEF BodyInv, OneThreadPerMethod
      <4> QED
        BY <4>1, <4>2, <4>3
    <3>7. QED
      BY <3>4, <3>6 DEF BodyInv
  <2>3. ASSUME NEW step, NEW m, NEW next \in {"second", "pop"}, SkipBody(w, step, m, next)
        PROVE  BodyInv'
    <3>1. pcWorker'[w] = next /\ busy' = busy
      BY <2>3 DEF SkipBody
    <3>2. QED
      BY <2>1, <3>1, BodyFrame DEF InBody, BodyInv
  <2>4. ASSUME NEW inside \in {"inFirst", "inSecond"}, NEW m, NEW next \in {"second", "pop"},
               LeaveBody(w, inside, m, next),
               m = IF inside = "inFirst" THEN FirstMethod(w) ELSE SecondMethod(w)
        PROVE  BodyInv'
    <3>1. /\ pcWorker[w] = inside /\ pcWorker'[w] = next
          /\ busy' = busy \ {<<Head(order[w]), m>>}
      BY <2>4 DEF LeaveBody
    <3>2. InBody(w) /\ BodyOf(w) = m /\ ~InBody(w)'
      BY <2>4, <3>1 DEF InBody, BodyOf
    <3>3. \A v \in Workers : v # w /\ InBody(v) =>
             <<Head(order[v]), BodyOf(v)>> # <<Head(order[w]), m>>
      BY <3>2 DEF BodyInv, OneThreadPerMethod
    <3>4. QED
      BY <2>1, <3>1, <3>2, <3>3, BodyFrame DEF InBody, BodyInv
  <2>5. QED
    BY <1>30, <2>2, <2>3, <2>4 DEF CallMethods
<1>31. ASSUME NEW w \in Workers, PopFront(w) PROVE BodyInv'
  <2>1. \A v \in Workers : v # w => pcWorker'[v] = pcWorker[v] /\ order'[v] = order[v]
    BY <1>31 DEF PopFront
  <2>2. pcWorker'[w] = "loop" /\ busy' = busy
    BY <1>31 DEF PopFront
  <2>3. QED
    BY <2>1, <2>2, BodyFrame DEF InBody, BodyInv
<1>32. CASE UNCHANGED vars
  BY <1>32, BodyFrame DEF vars, InBody, BodyInv
<1>33. QED
  BY <1>1, <1>2, <1>3, <1>4, <1>5, <1>6, <1>7, <1>8, <1>9, <1>10, <1>11, <1>12, <1>13,
     <1>14, <1>15, <1>16, <1>17, <1>18, <1>19, <1>20, <1>21, <1>22, <1>23, <1>24,
     <1>25, <1>26, <1>27, <1>28, <1>29, <1>30, <1>31, <1>32
  DEF Next, MainOperation, MainCall, Maker, Worker, Terminated

-----------------------------------------------------------------------------
(* The invariant holds when main starts. *)
LEMMA InitInv == Init => TypeOK /\ SchedulerInv
<1> SUFFICES ASSUME Init PROVE TypeOK /\ SchedulerInv
  OBVIOUS
<1> USE ThreadsAssumption DEF Init, Workers
<1>1. <<>> \in Seq(Calcs) /\ Len(<<>>) = 0
  OBVIOUS
<1>2. TypeOK
  <2>1. /\ processMap \in [Workers -> {"absent", "null", "set"}]
        /\ order \in [Workers -> Seq(Calcs)]
        /\ lockOrder \in [Workers -> {"free", "main", "worker"}]
        /\ life \in [Calcs -> {"free", "live", "released"}]
    BY <1>1
  <2>2. pcWorker \in [Workers -> WorkerSteps]
    BY DEF WorkerSteps
  <2>3. /\ slot \in 0 .. NumThreads /\ makerSlot \in 0 .. NumThreads
        /\ calculations \in Seq(Calcs) /\ sizeOfCalculations \in Nat
    OBVIOUS
  <2>4. QED
    BY <2>1, <2>2, <2>3 DEF TypeOK, MainSteps
<1>3. LockInv
  BY DEF LockInv, Clearing, HoldingSteps, RunningSteps
<1>4. OpInv
  BY DEF OpInv, Clearing
<1>5. RegInv
  BY <1>1 DEF RegInv
<1>6. QueueInv
  BY <1>1 DEF QueueInv, QueueOf, Running, RunningSteps
<1>7. BodyInv
  BY DEF BodyInv, OneThreadPerMethod, InBody
<1>8. QED
  BY <1>2, <1>3, <1>4, <1>5, <1>6, <1>7 DEF SchedulerInv

(* The invariant is inductive. *)
LEMMA Inductive == TypeOK /\ SchedulerInv /\ [Next]_vars => (TypeOK /\ SchedulerInv)'
BY TypeStep, LockStep, OpStep, RegStep, QueueStep, BodyStep DEF SchedulerInv

(* Every variable of the scheduler keeps its type, for any number of workers
   and calculations, signals or none. *)
THEOREM TypeCorrect == Spec => []TypeOK
<1>1. Init => TypeOK /\ SchedulerInv
  BY InitInv
<1>2. TypeOK /\ SchedulerInv /\ [Next]_vars => (TypeOK /\ SchedulerInv)'
  BY Inductive
<1>3. QED
  BY <1>1, <1>2, PTL DEF Spec

(* The locks, main's operations, the registry, the orders and the bodies are
   related as SchedulerInv says in every reachable state. *)
THEOREM SchedulerInvariant == Spec => []SchedulerInv
<1>1. Init => TypeOK /\ SchedulerInv
  BY InitInv
<1>2. TypeOK /\ SchedulerInv /\ [Next]_vars => (TypeOK /\ SchedulerInv)'
  BY Inductive
<1>3. QED
  BY <1>1, <1>2, PTL DEF Spec

(* releaseCalculation and releaseAll keep workers off deleted calculations. *)
THEOREM MemorySafety == Spec => []NoUseAfterFree
<1>1. TypeOK /\ SchedulerInv => NoUseAfterFree
  BY RunsAlive
<1>2. QED
  BY <1>1, TypeCorrect, SchedulerInvariant, PTL

(* An operation that has returned has taken what it released off every order. *)
THEOREM ReleasesComplete == Spec => []ReleaseIsComplete
<1>1. TypeOK /\ SchedulerInv => ReleaseIsComplete
  <2> SUFFICES ASSUME TypeOK, SchedulerInv, pcMain = "idle",
                      NEW w \in Workers, pcWorker[w] # "done", NEW c \in Queued(w)
               PROVE  c \in Registered
    BY DEF ReleaseIsComplete
  <2>1. PICK i \in 1 .. Len(order[w]) : order[w][i] = c
    BY ToSetProperties DEF TypeOK, Queued
  <2>2. c \in Registered \/ MayLinger(w, c)
    BY <2>1 DEF SchedulerInv, QueueInv, QueueOf
  <2>3. QED
    BY <2>2 DEF MayLinger, Clearing
<1>2. QED
  BY <1>1, TypeCorrect, SchedulerInvariant, PTL

(* sizeOfCalculations_ and calculations_ agree between operations. *)
THEOREM SizesAgree == Spec => []SizeAgrees
<1>1. SchedulerInv => SizeAgrees
  BY DEF SchedulerInv, RegInv, SizeAgrees, Clearing
<1>2. QED
  BY <1>1, SchedulerInvariant, PTL

(* A method of a calculation is executed by one worker at a time. *)
THEOREM MethodsExclude == Spec => []OneThreadPerMethod
<1>1. SchedulerInv => OneThreadPerMethod
  BY DEF SchedulerInv, BodyInv
<1>2. QED
  BY <1>1, SchedulerInvariant, PTL

(* A step that starts and finishes nobody leaves the abstract state alone. *)
LEMMA RunFrame ==
  ASSUME \A v \in Workers : Running(v)' = Running(v),
         \A v \in Workers : Running(v) => order'[v] = order[v],
         UNCHANGED life
  PROVE  UNCHANGED <<Alive, RunningCalc>>
<1>1. Alive' = Alive
  BY DEF Alive
<1>2. RunningCalc' = RunningCalc
  BY DEF RunningCalc
<1>3. QED
  BY <1>1, <1>2

(* Resume is Release of what it makes "released", AddBegin is Add, TakeFront is
   Run, PopFront is Finish; every other step stutters. *)
LEMMA RefinementStep ==
  TypeOK /\ SchedulerInv /\ [Next]_vars => [Registry!Next]_<<Alive, RunningCalc>>
<1> SUFFICES ASSUME TypeOK, SchedulerInv, [Next]_vars
             PROVE  [Registry!Next]_<<Alive, RunningCalc>>
  OBVIOUS
<1> USE ThreadsAssumption
  DEF TypeOK, Workers, mainVars, makerVars, registry, calcVars, MainAt, MakerUnchanged,
      WorkerUnchanged, WorkerGoto
<1>1. CASE StartThread
  <2>1. CASE slot < NumThreads
    <3>1. slot \in Workers /\ pcWorker[slot] = "none"
      BY <1>1, <2>1 DEF StartThread, SchedulerInv, QueueInv, QueueOf
    <3>2. UNCHANGED <<order, life>> /\ pcWorker' = [pcWorker EXCEPT ![slot] = "register"]
      BY <1>1, <2>1 DEF StartThread
    <3>3. QED
      BY <3>1, <3>2, RunFrame DEF Running, RunningSteps
  <2>2. CASE ~(slot < NumThreads)
    BY <1>1, <2>2, RunFrame DEF StartThread, Running
  <2>3. QED
    BY <2>1, <2>2
<1>2. CASE AddPush
  BY <1>2, RunFrame DEF AddPush, Running
<1>3. CASE EraseFirstMatch
  BY <1>3, RunFrame DEF EraseFirstMatch, Running
<1>4. CASE EraseAll
  BY <1>4, RunFrame DEF EraseAll, Running
<1>5. CASE LockOrder
  BY <1>5, RunFrame DEF LockOrder, Running
<1>6. CASE ClearOrder
  <2>1. slot \in Workers /\ ~Running(slot)
    BY <1>6 DEF ClearOrder, SchedulerInv, LockInv, Clearing, Running, HoldingSteps
  <2>2. \A v \in Workers : v # slot => order'[v] = order[v]
    BY <1>6 DEF ClearOrder
  <2>3. UNCHANGED <<pcWorker, life>>
    BY <1>6 DEF ClearOrder
  <2>4. QED
    BY <2>1, <2>2, <2>3, RunFrame DEF Running
<1>7. CASE SkipOrder
  BY <1>7, RunFrame DEF SkipOrder, Running
<1>8. CASE UnlockCalculations
  BY <1>8, RunFrame DEF UnlockCalculations, Running
<1>9. CASE Resume
  <2> DEFINE S == {c \in Calcs : life[c] = "live" /\ life'[c] = "released"}
  <2>1. /\ UNCHANGED <<pcWorker, order>> /\ pcMain = "resume"
        /\ \A c \in S : (op = "release" /\ c = target) \/ op = "releaseAll"
    BY <1>9 DEF Resume
  <2>2. RunningCalc' = RunningCalc
    BY <2>1 DEF RunningCalc, Running
  <2>3. \A c \in Calcs : life'[c] = life[c] \/ life'[c] = "released"
    BY <1>9 DEF Resume
  <2>4. \A c \in Calcs : op = "release" /\ life'[c] # life[c] => c = target /\ life[c] # "free"
    BY <1>9 DEF Resume, SchedulerInv, OpInv
  <2>5. \A c \in Calcs : op # "release" /\ life'[c] # life[c] => life[c] = "live"
    BY <1>9 DEF Resume
  <2>6. Alive' = Alive \ S
    BY <2>3 DEF Alive
  <2>7. ASSUME NEW w \in Workers, RunningCalc[w] \in S PROVE FALSE
    <3>1. Running(w) /\ RunningCalc[w] = Head(order[w])
      BY <2>7, NoCalcAssumption DEF RunningCalc
    <3>2. pcWorker[w] # "done" /\ order[w] # <<>>
      BY <3>1 DEF SchedulerInv, QueueInv, QueueOf, Running, RunningSteps
    <3>3. Head(order[w]) \in Registered
      BY <2>1, <3>2, RunsQueued DEF MayLinger, Clearing
    <3>4. QED
      BY <2>1, <2>7, <3>1, <3>3, ToSetProperties DEF SchedulerInv, OpInv, Registered
  <2>8. Registry!Release(S)
    BY <2>2, <2>6, <2>7 DEF Registry!Release
  <2>9. QED
    BY <2>8 DEF Registry!Next
<1>10. CASE StopJoined
  BY <1>10, RunFrame DEF StopJoined, Running
<1>11. CASE SignalJoined
  BY <1>11, RunFrame DEF SignalJoined, Running
<1>12. CASE ReleaseAllBegin
  BY <1>12, RunFrame DEF ReleaseAllBegin, Running
<1>13. CASE StopBegin
  BY <1>13, RunFrame DEF StopBegin, Running
<1>14. CASE SignalBegin
  BY <1>14, RunFrame DEF SignalBegin, Running
<1>15. ASSUME NEW c \in Calcs, AddBegin(c) PROVE [Registry!Next]_<<Alive, RunningCalc>>
  <2>1. UNCHANGED <<pcWorker, order>> /\ life[c] = "free" /\ life' = [life EXCEPT ![c] = "live"]
    BY <1>15 DEF AddBegin
  <2>2. RunningCalc' = RunningCalc
    BY <2>1 DEF RunningCalc, Running
  <2>3. c \notin Alive /\ Alive' = Alive \union {c}
    BY <2>1 DEF Alive
  <2>4. Registry!Add(c)
    BY <2>2, <2>3 DEF Registry!Add
  <2>5. QED
    BY <2>4 DEF Registry!Next
<1>16. ASSUME NEW c \in Calcs, ReleaseBegin(c) PROVE [Registry!Next]_<<Alive, RunningCalc>>
  BY <1>16, RunFrame DEF ReleaseBegin, Running
<1>17. ASSUME NEW c \in Calcs, Delete(c) PROVE [Registry!Next]_<<Alive, RunningCalc>>
  <2>1. UNCHANGED <<pcWorker, order>> /\ life[c] = "released" /\ life' = [life EXCEPT ![c] = "free"]
    BY <1>17 DEF Delete
  <2>2. RunningCalc' = RunningCalc
    BY <2>1 DEF RunningCalc, Running
  <2>3. Alive' = Alive
    BY <2>1 DEF Alive
  <2>4. QED
    BY <2>2, <2>3
<1>18. CASE MakerStop
  BY <1>18, RunFrame DEF MakerStop, Running
<1>19. CASE MakerSeesRunning
  BY <1>19, RunFrame DEF MakerSeesRunning, Running
<1>20. CASE MakerTryLock
  BY <1>20, RunFrame DEF MakerTryLock, Running
<1>21. CASE MakerFill
  <2>1. makerSlot \in Workers /\ ~Running(makerSlot)
    <3>1. makerSlot \in Workers /\ lockOrder[makerSlot] = "free"
      BY <1>21 DEF MakerFill, CanFill
    <3>2. pcWorker[makerSlot] \notin HoldingSteps
      BY <3>1 DEF SchedulerInv, LockInv
    <3>3. QED
      BY <3>1, <3>2 DEF Running, HoldingSteps
  <2>2. \A v \in Workers : v # makerSlot => order'[v] = order[v]
    BY <1>21 DEF MakerFill
  <2>3. UNCHANGED <<pcWorker, life>>
    BY <1>21 DEF MakerFill
  <2>4. QED
    BY <2>1, <2>2, <2>3, RunFrame DEF Running
<1>22. CASE MakerSkip
  BY <1>22, RunFrame DEF MakerSkip, Running
<1>23. CASE MakerUnlock
  BY <1>23, RunFrame DEF MakerUnlock, Running
<1>24. ASSUME NEW w \in Workers, RegisterWorker(w) PROVE [Registry!Next]_<<Alive, RunningCalc>>
  <2>1. /\ pcWorker[w] = "register" /\ pcWorker' = [pcWorker EXCEPT ![w] = "loop"]
        /\ UNCHANGED <<order, life>>
    BY <1>24 DEF RegisterWorker
  <2>2. QED
    BY <2>1, RunFrame DEF Running, RunningSteps
<1>25. ASSUME NEW w \in Workers, WorkerStop(w) PROVE [Registry!Next]_<<Alive, RunningCalc>>
  <2>1. /\ pcWorker[w] = "loop" /\ pcWorker' = [pcWorker EXCEPT ![w] = "done"]
        /\ UNCHANGED <<order, life>>
    BY <1>25 DEF WorkerStop
  <2>2. QED
    BY <2>1, RunFrame DEF Running, RunningSteps
<1>26. ASSUME NEW w \in Workers, WorkerSeesRunning(w) PROVE [Registry!Next]_<<Alive, RunningCalc>>
  <2>1. /\ pcWorker[w] = "loop" /\ pcWorker' = [pcWorker EXCEPT ![w] = "acquire"]
        /\ UNCHANGED <<order, life>>
    BY <1>26 DEF WorkerSeesRunning
  <2>2. QED
    BY <2>1, RunFrame DEF Running, RunningSteps
<1>27. ASSUME NEW w \in Workers, AcquireOrder(w) PROVE [Registry!Next]_<<Alive, RunningCalc>>
  <2>1. /\ pcWorker[w] = "acquire" /\ pcWorker' = [pcWorker EXCEPT ![w] = "front"]
        /\ UNCHANGED <<order, life>>
    BY <1>27 DEF AcquireOrder
  <2>2. QED
    BY <2>1, RunFrame DEF Running, RunningSteps
<1>28. ASSUME NEW w \in Workers, OrderEmpty(w) PROVE [Registry!Next]_<<Alive, RunningCalc>>
  <2>1. /\ pcWorker[w] = "front" /\ pcWorker' = [pcWorker EXCEPT ![w] = "loop"]
        /\ UNCHANGED <<order, life>>
    BY <1>28 DEF OrderEmpty
  <2>2. QED
    BY <2>1, RunFrame DEF Running, RunningSteps
<1>29. ASSUME NEW w \in Workers, TakeFront(w) PROVE [Registry!Next]_<<Alive, RunningCalc>>
  <2>1. /\ pcWorker[w] = "front" /\ pcWorker' = [pcWorker EXCEPT ![w] = "first"]
        /\ UNCHANGED <<order, life>> /\ order[w] # <<>>
    BY <1>29 DEF TakeFront
  <2>2. Running(w)' /\ ~Running(w)
    BY <2>1 DEF Running, RunningSteps
  <2>3. RunningCalc[w] = NoCalc
    BY <2>2 DEF RunningCalc
  <2>4. RunningCalc' = [RunningCalc EXCEPT ![w] = Head(order[w])]
    BY <2>1, <2>2 DEF RunningCalc, Running
  <2>5. Head(order[w]) \in Alive
    BY <2>1, FrontIsLive DEF Alive
  <2>6. Registry!Run(w, Head(order[w])) /\ Head(order[w]) \in Calcs
    BY <2>1, <2>3, <2>4, <2>5 DEF Registry!Run, Alive
  <2>7. QED
    BY <2>6 DEF Registry!Next
<1>30. ASSUME NEW w \in Workers, CallMethods(w) PROVE [Registry!Next]_<<Alive, RunningCalc>>
  <2>1. /\ pcWorker[w] \in RunningSteps
        /\ \E next \in RunningSteps : pcWorker' = [pcWorker EXCEPT ![w] = next]
        /\ UNCHANGED <<order, life>>
    BY <1>30 DEF CallMethods, EnterBody, SkipBody, LeaveBody, RunningSteps
  <2>2. QED
    BY <2>1, RunFrame DEF Running
<1>31. ASSUME NEW w \in Workers, PopFront(w) PROVE [Registry!Next]_<<Alive, RunningCalc>>
  <2>1. /\ pcWorker[w] = "pop" /\ pcWorker' = [pcWorker EXCEPT ![w] = "loop"]
        /\ \A v \in Workers : v # w => order'[v] = order[v]
        /\ UNCHANGED life
    BY <1>31 DEF PopFront
  <2>2. ~Running(w)'
    BY <2>1 DEF Running, RunningSteps
  <2>3. RunningCalc' = [RunningCalc EXCEPT ![w] = NoCalc]
    BY <2>1, <2>2 DEF RunningCalc, Running
  <2>4. Alive' = Alive
    BY <2>1 DEF Alive
  <2>5. Registry!Finish(w)
    BY <2>3, <2>4 DEF Registry!Finish
  <2>6. QED
    BY <2>5 DEF Registry!Next
<1>32. CASE UNCHANGED vars
  BY <1>32, RunFrame DEF vars, Running
<1>33. QED
  BY <1>1, <1>2, <1>3, <1>4, <1>5, <1>6, <1>7, <1>8, <1>9, <1>10, <1>11, <1>12, <1>13,
     <1>14, <1>15, <1>16, <1>17, <1>18, <1>19, <1>20, <1>21, <1>22, <1>23, <1>24,
     <1>25, <1>26, <1>27, <1>28, <1>29, <1>30, <1>31, <1>32
  DEF Next, MainOperation, MainCall, Maker, Worker, Terminated

(* ThreadManager keeps the promise of CalculationRegistry to the owners of
   calculations: a release returns only when no worker runs what it releases. *)
THEOREM Refinement == Spec => ImplementsRegistry
<1>1. Init => Registry!Init
  <2> SUFFICES ASSUME Init PROVE Registry!Init
    OBVIOUS
  <2>1. Alive = {}
    BY DEF Init, Alive
  <2>2. \A w \in Workers : ~Running(w)
    BY DEF Init, Running, RunningSteps
  <2>3. QED
    BY <2>1, <2>2 DEF Registry!Init, RunningCalc
<1>2. TypeOK /\ SchedulerInv /\ [Next]_vars => [Registry!Next]_<<Alive, RunningCalc>>
  BY RefinementStep
<1>3. QED
  BY <1>1, <1>2, TypeCorrect, SchedulerInvariant, PTL
    DEF Spec, ImplementsRegistry, Registry!Spec

=============================================================================
