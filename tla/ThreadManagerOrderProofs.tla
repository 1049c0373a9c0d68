----------------------- MODULE ThreadManagerOrderProofs -----------------------
(***************************************************************************)
(* More about ThreadManager, from the invariant of ThreadManagerProofs:    *)
(* what an order holds, as a sequence, and what main finds in processMap_  *)
(* when no signal arrives.                                                 *)
(***************************************************************************)
EXTENDS ThreadManagerProofs

(* s lies in t from one position on. *)
Segment(s, t) ==
    \E i \in 1 .. Len(t) + 1 :
        /\ i + Len(s) <= Len(t) + 1
        /\ \A k \in 1 .. Len(s) : s[k] = t[i + k - 1]

(* An order is a segment of the registry, or main has still to clear it; what
   main has cleared stays empty until it drops lockCalcutaions_. *)
OrderOf(w) ==
    pcWorker[w] # "done" =>
        /\ ~Clearing => Segment(order[w], calculations)
        /\ Clearing /\ w < slot => order[w] = <<>>
OrderInv == \A w \in Workers : OrderOf(w)

(* Without a signal only the end of main() stops the threads. *)
QuietInv ==
    /\ handler = "none"
    /\ isStopThreads => pcMain \in {"join", "exited"}
    /\ \A w \in Workers : pcWorker[w] = "done" => isStopThreads

-----------------------------------------------------------------------------
(* Segments *)

LEMMA SegmentOfEmpty ==
    ASSUME NEW S, NEW t \in Seq(S)
    PROVE  Segment(<<>>, t)
<1>1. Len(t) \in Nat /\ 1 \in 1 .. Len(t) + 1
  BY LenProperties
<1>2. 1 + Len(<<>>) <= Len(t) + 1 /\ \A k \in 1 .. Len(<<>>) : <<>>[k] = t[1 + k - 1]
  BY <1>1, EmptySeq
<1>3. QED
  BY <1>1, <1>2 DEF Segment

LEMMA SegmentOfAll ==
    ASSUME NEW S, NEW t \in Seq(S)
    PROVE  Segment(<<>> \o t, t)
<1>1. <<>> \o t = t
  BY EmptySeq, ConcatEmptySeq
<1>2. Len(t) \in Nat /\ 1 \in 1 .. Len(t) + 1
  BY LenProperties
<1>3. 1 + Len(t) <= Len(t) + 1 /\ \A k \in 1 .. Len(t) : t[k] = t[1 + k - 1]
  BY <1>2
<1>4. QED
  BY <1>1, <1>2, <1>3 DEF Segment

(* push_back to the registry *)
LEMMA SegmentAppend ==
    ASSUME NEW S, NEW s \in Seq(S), NEW t \in Seq(S), NEW e \in S, Segment(s, t)
    PROVE  Segment(s, Append(t, e))
<1>1. PICK i \in 1 .. Len(t) + 1 :
        /\ i + Len(s) <= Len(t) + 1
        /\ \A k \in 1 .. Len(s) : s[k] = t[i + k - 1]
  BY DEF Segment
<1>2. /\ Len(s) \in Nat /\ Len(t) \in Nat /\ Len(Append(t, e)) = Len(t) + 1
      /\ \A j \in 1 .. Len(t) : Append(t, e)[j] = t[j]
  BY LenProperties, AppendProperties
<1>3. \A k \in 1 .. Len(s) : i + k - 1 \in 1 .. Len(t)
  BY <1>1, <1>2
<1>4. i \in 1 .. Len(Append(t, e)) + 1 /\ i + Len(s) <= Len(Append(t, e)) + 1
  BY <1>1, <1>2
<1>5. \A k \in 1 .. Len(s) : s[k] = Append(t, e)[i + k - 1]
  BY <1>1, <1>2, <1>3
<1>6. QED
  BY <1>4, <1>5 DEF Segment

(* order.erase(begin()) *)
LEMMA SegmentTail ==
    ASSUME NEW S, NEW s \in Seq(S), NEW t \in Seq(S), s # <<>>, Segment(s, t)
    PROVE  Segment(Tail(s), t)
<1>1. PICK i \in 1 .. Len(t) + 1 :
        /\ i + Len(s) <= Len(t) + 1
        /\ \A k \in 1 .. Len(s) : s[k] = t[i + k - 1]
  BY DEF Segment
<1>2. /\ Len(s) \in Nat /\ Len(t) \in Nat /\ Len(s) > 0 /\ Len(Tail(s)) = Len(s) - 1
      /\ \A k \in 1 .. Len(Tail(s)) : Tail(s)[k] = s[k + 1]
  BY LenProperties, EmptySeq, HeadTailProperties
<1>3. i + 1 \in 1 .. Len(t) + 1 /\ (i + 1) + Len(Tail(s)) <= Len(t) + 1
  BY <1>1, <1>2
<1>4. ASSUME NEW k \in 1 .. Len(Tail(s)) PROVE Tail(s)[k] = t[(i + 1) + k - 1]
  <2>1. k + 1 \in 1 .. Len(s) /\ i + (k + 1) - 1 = (i + 1) + k - 1
    BY <1>2
  <2>2. QED
    BY <1>1, <1>2, <2>1
<1>5. QED
  BY <1>3, <1>4 DEF Segment

LEMMA SegmentIsPrefix ==
    ASSUME NEW S, NEW s \in Seq(S), NEW t \in Seq(S), Segment(s, t)
    PROVE  \E i \in 1 .. Len(t) + 1 : IsPrefix(s, SubSeq(t, i, Len(t)))
<1>1. PICK i \in 1 .. Len(t) + 1 :
        /\ i + Len(s) <= Len(t) + 1
        /\ \A k \in 1 .. Len(s) : s[k] = t[i + k - 1]
  BY DEF Segment
<1> DEFINE u == SubSeq(t, i, Len(t))
<1>2. /\ Len(s) \in Nat /\ Len(t) \in Nat
      /\ \A j \in 1 .. Len(t) : t[j] \in S
      /\ \A k \in 1 .. Len(s) : s[k] \in S
  BY LenProperties, ElementOfSeq
<1>3. /\ u \in Seq(S) /\ Len(u) = Len(t) - i + 1
      /\ \A k \in 1 .. Len(t) - i + 1 : u[k] = t[i + k - 1]
  <2>1. \A j \in i .. Len(t) : t[j] \in S
    BY <1>2
  <2>2. /\ u \in Seq(S)
        /\ Len(u) = IF i <= Len(t) THEN Len(t) - i + 1 ELSE 0
        /\ \A k \in 1 .. Len(t) - i + 1 : u[k] = t[i + k - 1]
    BY <1>2, <2>1, SubSeqProperties
  <2>3. QED
    BY <1>2, <2>2
<1> HIDE DEF u
<1>4. Len(s) <= Len(u) /\ \A k \in 1 .. Len(s) : u[k] = s[k]
  BY <1>1, <1>2, <1>3
<1>5. SubSeq(s, 1, Len(s)) = SubSeq(u, 1, Len(s))
  <2> DEFINE a == SubSeq(s, 1, Len(s))  b == SubSeq(u, 1, Len(s))
  <2>1. /\ a \in Seq(S) /\ Len(a) = Len(s)
        /\ \A k \in 1 .. Len(s) : a[k] = s[k]
    <3>1. /\ a \in Seq(S)
          /\ Len(a) = IF 1 <= Len(s) THEN Len(s) - 1 + 1 ELSE 0
          /\ \A k \in 1 .. Len(s) - 1 + 1 : a[k] = s[1 + k - 1]
      BY <1>2, SubSeqProperties
    <3>2. QED
      BY <1>2, <3>1
  <2>2. /\ b \in Seq(S) /\ Len(b) = Len(s)
        /\ \A k \in 1 .. Len(s) : b[k] = u[k]
    <3>1. \A k \in 1 .. Len(s) : u[k] \in S
      BY <1>2, <1>4
    <3>2. /\ b \in Seq(S)
          /\ Len(b) = IF 1 <= Len(s) THEN Len(s) - 1 + 1 ELSE 0
          /\ \A k \in 1 .. Len(s) - 1 + 1 : b[k] = u[1 + k - 1]
      BY <1>2, <1>3, <3>1, SubSeqProperties
    <3>3. QED
      BY <1>2, <3>2
  <2> HIDE DEF a, b
  <2>3. a = b
    BY <1>4, <2>1, <2>2, SeqEqual
  <2>4. QED
    BY <2>3 DEF a, b
<1>6. IsPrefix(s, u)
  BY <1>4, <1>5 DEF IsPrefix
<1>7. QED
  BY <1>1, <1>6 DEF u

-----------------------------------------------------------------------------
(* Orders follow the registry *)

(* A step that leaves orders, registry and main's place in the loop alone. *)
LEMMA OrderFrame ==
    ASSUME TypeOK, OrderInv, UNCHANGED <<order, calculations>>,
           Clearing' = Clearing, Clearing => slot' = slot,
           \A w \in Workers : pcWorker'[w] # "done" => pcWorker[w] # "done"
    PROVE  OrderInv'
<1>1. \A w \in Workers : OrderOf(w)'
  BY DEF OrderInv, OrderOf
<1>2. QED
  BY <1>1 DEF OrderInv, Workers

(* Main begins to clear. *)
LEMMA NothingClearedYet ==
    ASSUME SchedulerInv, pcMain = "erase", Clearing', slot' = slot
    PROVE  OrderInv'
<1>1. slot = 0
  BY DEF SchedulerInv, OpInv
<1>2. QED
  BY <1>1, ThreadsAssumption DEF OrderInv, OrderOf, Workers

(* stop() empties the registry when the workers are gone. *)
LEMMA AllOrdersGone ==
    ASSUME TypeOK, SchedulerInv, AllThreadsReturned, calculations' = <<>>,
           UNCHANGED <<order, pcWorker>>
    PROVE  OrderInv'
<1>1. \A w \in Workers : pcWorker[w] # "done" => order[w] = <<>>
  BY DEF AllThreadsReturned, SchedulerInv, QueueInv, QueueOf
<1>2. Segment(<<>>, calculations')
  <2>1. calculations' \in Seq(Calcs)
    BY EmptySeq
  <2>2. QED
    BY <2>1, SegmentOfEmpty
<1>3. QED
  BY <1>1, <1>2 DEF OrderInv, OrderOf

LEMMA OrderStep == TypeOK /\ SchedulerInv /\ OrderInv /\ [Next]_vars => OrderInv'
<1> SUFFICES ASSUME TypeOK, SchedulerInv, OrderInv, [Next]_vars
             PROVE  OrderInv'
  OBVIOUS
<1> USE ThreadsAssumption
  DEF TypeOK, Workers, mainVars, makerVars, registry, calcVars, MainAt, MakerUnchanged,
      WorkerUnchanged, WorkerGoto
<1>1. CASE StartThread
  <2>1. CASE slot < NumThreads
    <3>1. slot \in Workers /\ pcWorker[slot] = "none"
      BY <1>1, <2>1 DEF StartThread, SchedulerInv, QueueInv, QueueOf
    <3>2. pcWorker' = [pcWorker EXCEPT ![slot] = "register"] /\ pcMain' = pcMain
      BY <1>1, <2>1 DEF StartThread
    <3>3. UNCHANGED <<order, calculations>> /\ pcMain = "start"
      BY <1>1 DEF StartThread
    <3>4. QED
      BY <3>1, <3>2, <3>3, OrderFrame DEF Clearing
  <2>2. CASE ~(slot < NumThreads)
    BY <1>1, <2>2, OrderFrame DEF StartThread, Clearing
  <2>3. QED
    BY <2>1, <2>2
<1>2. CASE AddPush
  <2>1. target \in Calcs /\ ~Clearing
    BY <1>2, NoCalcAssumption DEF AddPush, SchedulerInv, OpInv, Clearing
  <2>2. calculations' = Append(calculations, target) /\ UNCHANGED <<order, pcWorker>>
    BY <1>2 DEF AddPush
  <2>3. ~Clearing'
    BY <1>2 DEF AddPush, Clearing
  <2>4. ASSUME NEW w \in Workers, pcWorker[w] # "done"
        PROVE  Segment(order[w], Append(calculations, target))
    <3>1. Segment(order[w], calculations)
      BY <2>1, <2>4 DEF OrderInv, OrderOf
    <3>2. order[w] \in Seq(Calcs)
      OBVIOUS
    <3>3. QED
      BY <2>1, <3>1, <3>2, SegmentAppend
  <2>5. QED
    BY <2>2, <2>3, <2>4 DEF OrderInv, OrderOf
<1>3. CASE EraseFirstMatch
  <2>1. CASE pcMain' = "nextOrder"
    BY <1>3, <2>1, NothingClearedYet DEF EraseFirstMatch, Clearing
  <2>2. CASE pcMain' = "resume" /\ UNCHANGED <<order, calculations, slot, pcWorker>>
    BY <1>3, <2>2, OrderFrame DEF EraseFirstMatch, Clearing
  <2>3. QED
    BY <1>3, <2>1, <2>2 DEF EraseFirstMatch
<1>4. CASE EraseAll
  BY <1>4, NothingClearedYet DEF EraseAll, Clearing
<1>5. CASE LockOrder
  BY <1>5, OrderFrame DEF LockOrder, Clearing
<1>6. CASE ClearOrder
  <2>1. slot \in Workers /\ Clearing /\ Clearing'
    BY <1>6 DEF ClearOrder, SchedulerInv, LockInv, Clearing
  <2>2. order' = [order EXCEPT ![slot] = <<>>] /\ slot' = slot + 1 /\ pcWorker' = pcWorker
    BY <1>6 DEF ClearOrder, ClearedOrder
  <2>3. ASSUME NEW w \in Workers, pcWorker[w] # "done", w < slot + 1 PROVE order'[w] = <<>>
    BY <2>1, <2>2, <2>3 DEF OrderInv, OrderOf
  <2>4. QED
    BY <2>1, <2>2, <2>3 DEF OrderInv, OrderOf
<1>7. CASE SkipOrder
  <2>1. slot \in Workers /\ Clearing /\ Clearing'
    BY <1>7 DEF SkipOrder, Clearing
  <2>2. UNCHANGED <<order, pcWorker>> /\ slot' = slot + 1
    BY <1>7 DEF SkipOrder
  <2>3. pcWorker[slot] # "done" => order[slot] = <<>>
    BY <1>7, <2>1 DEF SkipOrder, MustClear, Dangling, SchedulerInv, QueueInv, QueueOf
  <2>4. ASSUME NEW w \in Workers, pcWorker[w] # "done", w < slot + 1 PROVE order[w] = <<>>
    <3>1. w = slot \/ w < slot
      BY <2>1, <2>4
    <3>2. w < slot => order[w] = <<>>
      BY <2>1, <2>4 DEF OrderInv, OrderOf
    <3>3. QED
      BY <2>3, <2>4, <3>1, <3>2
  <2>5. QED
    BY <2>1, <2>2, <2>4 DEF OrderInv, OrderOf
<1>8. CASE UnlockCalculations
  <2>1. Clearing /\ slot = NumThreads /\ ~Clearing'
    BY <1>8 DEF UnlockCalculations, Clearing
  <2>2. UNCHANGED <<order, calculations, pcWorker>>
    BY <1>8 DEF UnlockCalculations
  <2>3. \A w \in Workers : pcWorker[w] # "done" => order[w] = <<>>
    BY <2>1 DEF OrderInv, OrderOf
  <2>4. QED
    BY <2>1, <2>2, <2>3, SegmentOfEmpty DEF OrderInv, OrderOf
<1>9. CASE Resume
  BY <1>9, OrderFrame DEF Resume, Clearing
<1>10. CASE StopJoined
  BY <1>10, AllOrdersGone DEF StopJoined, Clearing
<1>11. CASE SignalJoined
  BY <1>11, AllOrdersGone DEF SignalJoined, Clearing
<1>12. CASE ReleaseAllBegin
  BY <1>12, OrderFrame DEF ReleaseAllBegin, Clearing
<1>13. CASE StopBegin
  BY <1>13, OrderFrame DEF StopBegin, Clearing
<1>14. CASE SignalBegin
  BY <1>14, OrderFrame DEF SignalBegin, Clearing
<1>15. ASSUME NEW c \in Calcs, AddBegin(c) PROVE OrderInv'
  BY <1>15, OrderFrame DEF AddBegin, Clearing
<1>16. ASSUME NEW c \in Calcs, ReleaseBegin(c) PROVE OrderInv'
  BY <1>16, OrderFrame DEF ReleaseBegin, Clearing
<1>17. ASSUME NEW c \in Calcs, Delete(c) PROVE OrderInv'
  BY <1>17, OrderFrame DEF Delete, Clearing
<1>18. CASE MakerStop
  BY <1>18, OrderFrame DEF MakerStop, Clearing
<1>19. CASE MakerSeesRunning
  BY <1>19, OrderFrame DEF MakerSeesRunning, Clearing
<1>20. CASE MakerTryLock
  BY <1>20, OrderFrame DEF MakerTryLock, Clearing
<1>21. CASE MakerFill
  <2>1. makerSlot \in Workers /\ order[makerSlot] = <<>>
    BY <1>21 DEF MakerFill, CanFill
  <2>2. ~Clearing
    BY <1>21 DEF MakerFill, SchedulerInv, LockInv
  <2>3. /\ order' = [order EXCEPT ![makerSlot] = <<>> \o calculations]
        /\ UNCHANGED <<calculations, pcWorker, pcMain, slot>>
    BY <1>21, <2>1 DEF MakerFill
  <2>4. Segment(<<>> \o calculations, calculations)
    BY SegmentOfAll
  <2>5. ~Clearing'
    BY <2>2, <2>3 DEF Clearing
  <2>6. \A w \in Workers : pcWorker[w] # "done" => Segment(order'[w], calculations)
    BY <2>1, <2>2, <2>3, <2>4 DEF OrderInv, OrderOf
  <2>7. QED
    BY <2>3, <2>5, <2>6 DEF OrderInv, OrderOf
<1>22. CASE MakerSkip
  BY <1>22, OrderFrame DEF MakerSkip, Clearing
<1>23. CASE MakerUnlock
  BY <1>23, OrderFrame DEF MakerUnlock, Clearing
<1>24. ASSUME NEW w \in Workers, RegisterWorker(w) PROVE OrderInv'
  BY <1>24, OrderFrame DEF RegisterWorker, Clearing
<1>25. ASSUME NEW w \in Workers, WorkerStop(w) PROVE OrderInv'
  BY <1>25, OrderFrame DEF WorkerStop, Clearing
<1>26. ASSUME NEW w \in Workers, WorkerSeesRunning(w) PROVE OrderInv'
  BY <1>26, OrderFrame DEF WorkerSeesRunning, Clearing
<1>27. ASSUME NEW w \in Workers, AcquireOrder(w) PROVE OrderInv'
  BY <1>27, OrderFrame DEF AcquireOrder, Clearing
<1>28. ASSUME NEW w \in Workers, OrderEmpty(w) PROVE OrderInv'
  BY <1>28, OrderFrame DEF OrderEmpty, Clearing
<1>29. ASSUME NEW w \in Workers, TakeFront(w) PROVE OrderInv'
  BY <1>29, OrderFrame DEF TakeFront, Clearing
<1>30. ASSUME NEW w \in Workers, CallMethods(w) PROVE OrderInv'
  BY <1>30, OrderFrame DEF CallMethods, EnterBody, SkipBody, LeaveBody, Clearing
<1>31. ASSUME NEW w \in Workers, PopFront(w) PROVE OrderInv'
  <2>1. /\ order' = [order EXCEPT ![w] = Tail(order[w])]
        /\ pcWorker' = [pcWorker EXCEPT ![w] = "loop"] /\ pcWorker[w] = "pop"
        /\ UNCHANGED <<calculations, pcMain, slot>>
    BY <1>31 DEF PopFront
  <2>2. order[w] # <<>> /\ order[w] \in Seq(Calcs)
    BY <2>1 DEF SchedulerInv, QueueInv, QueueOf, Running, RunningSteps
  <2>3. Clearing' = Clearing
    BY <2>1 DEF Clearing
  <2>4. ~Clearing => Segment(Tail(order[w]), calculations)
    BY <2>1, <2>2, SegmentTail DEF OrderInv, OrderOf
  <2>5. Clearing => ~(w < slot)
    BY <2>1, <2>2 DEF OrderInv, OrderOf
  <2>6. \A v \in Workers \ {w} : order'[v] = order[v] /\ pcWorker'[v] = pcWorker[v]
    BY <2>1
  <2>7. order'[w] = Tail(order[w])
    BY <2>1
  <2>8. \A v \in Workers : OrderOf(v)'
    BY <2>1, <2>3, <2>4, <2>5, <2>6, <2>7 DEF OrderInv, OrderOf
  <2>9. QED
    BY <2>8 DEF OrderInv
<1>32. CASE UNCHANGED vars
  BY <1>32, OrderFrame DEF vars, Clearing
<1>33. QED
  BY <1>1, <1>2, <1>3, <1>4, <1>5, <1>6, <1>7, <1>8, <1>9, <1>10, <1>11, <1>12, <1>13,
     <1>14, <1>15, <1>16, <1>17, <1>18, <1>19, <1>20, <1>21, <1>22, <1>23, <1>24,
     <1>25, <1>26, <1>27, <1>28, <1>29, <1>30, <1>31, <1>32
  DEF Next, MainOperation, MainCall, Maker, Worker, Terminated

(* A worker goes through the registry in order, each calculation at most once in
   a pass, whatever main adds or releases meanwhile. *)
THEOREM OrdersFollow == Spec => []PassFollowsRegistry
<1>1. Init => OrderInv
  <2> SUFFICES ASSUME Init PROVE OrderInv
    OBVIOUS
  <2>1. calculations \in Seq(Calcs)
    BY EmptySeq DEF Init
  <2>2. \A w \in Workers : order[w] = <<>>
    BY DEF Init
  <2>3. QED
    BY <2>1, <2>2, SegmentOfEmpty DEF OrderInv, OrderOf
<1>2. TypeOK /\ OrderInv => PassFollowsRegistry
  <2> SUFFICES ASSUME TypeOK, OrderInv, ~Clearing,
                      NEW w \in Workers, pcWorker[w] # "done"
               PROVE  \E i \in 1 .. Len(calculations) + 1 :
                          IsPrefix(order[w], SubSeq(calculations, i, Len(calculations)))
    BY DEF PassFollowsRegistry
  <2>1. Segment(order[w], calculations)
    BY DEF OrderInv, OrderOf
  <2>2. order[w] \in Seq(Calcs) /\ calculations \in Seq(Calcs)
    BY DEF TypeOK
  <2>3. QED
    BY <2>1, <2>2, SegmentIsPrefix
<1>3. QED
  BY <1>1, <1>2, OrderStep, TypeCorrect, SchedulerInvariant, PTL DEF Spec

-----------------------------------------------------------------------------
(* processMap_ without signals *)

LEMMA QuietStep == ~Signals /\ TypeOK /\ QuietInv /\ [Next]_vars => QuietInv'
<1> SUFFICES ASSUME ~Signals, TypeOK, QuietInv, [Next]_vars
             PROVE  QuietInv'
  OBVIOUS
<1> USE ThreadsAssumption
  DEF TypeOK, QuietInv, Workers, mainVars, makerVars, registry, calcVars, MainAt,
      MakerUnchanged, WorkerUnchanged, WorkerGoto
<1>1. CASE StartThread
  BY <1>1 DEF StartThread
<1>2. CASE AddPush
  BY <1>2 DEF AddPush
<1>3. CASE EraseFirstMatch
  BY <1>3 DEF EraseFirstMatch
<1>4. CASE EraseAll
  BY <1>4 DEF EraseAll
<1>5. CASE LockOrder
  BY <1>5 DEF LockOrder
<1>6. CASE ClearOrder
  BY <1>6 DEF ClearOrder
<1>7. CASE SkipOrder
  BY <1>7 DEF SkipOrder
<1>8. CASE UnlockCalculations
  BY <1>8 DEF UnlockCalculations
<1>9. CASE Resume
  BY <1>9 DEF Resume
<1>10. CASE StopJoined
  BY <1>10 DEF StopJoined
<1>11. CASE SignalJoined
  BY <1>11 DEF SignalJoined
<1>12. CASE ReleaseAllBegin
  BY <1>12 DEF ReleaseAllBegin
<1>13. CASE StopBegin
  BY <1>13 DEF StopBegin
<1>14. CASE SignalBegin
  BY <1>14 DEF SignalBegin
<1>15. ASSUME NEW c \in Calcs, AddBegin(c) PROVE QuietInv'
  BY <1>15 DEF AddBegin
<1>16. ASSUME NEW c \in Calcs, ReleaseBegin(c) PROVE QuietInv'
  BY <1>16 DEF ReleaseBegin
<1>17. ASSUME NEW c \in Calcs, Delete(c) PROVE QuietInv'
  BY <1>17 DEF Delete
<1>18. CASE Maker
  BY <1>18 DEF Maker, MakerStop, MakerSeesRunning, MakerTryLock, MakerFill, MakerSkip,
               MakerUnlock
<1>19. ASSUME NEW w \in Workers, RegisterWorker(w) PROVE QuietInv'
  BY <1>19 DEF RegisterWorker
<1>20. ASSUME NEW w \in Workers, WorkerStop(w) PROVE QuietInv'
  BY <1>20 DEF WorkerStop
<1>21. ASSUME NEW w \in Workers, WorkerSeesRunning(w) PROVE QuietInv'
  BY <1>21 DEF WorkerSeesRunning
<1>22. ASSUME NEW w \in Workers, AcquireOrder(w) PROVE QuietInv'
  BY <1>22 DEF AcquireOrder
<1>23. ASSUME NEW w \in Workers, OrderEmpty(w) PROVE QuietInv'
  BY <1>23 DEF OrderEmpty
<1>24. ASSUME NEW w \in Workers, TakeFront(w) PROVE QuietInv'
  BY <1>24 DEF TakeFront
<1>25. ASSUME NEW w \in Workers, CallMethods(w) PROVE QuietInv'
  BY <1>25 DEF CallMethods, EnterBody, SkipBody, LeaveBody
<1>26. ASSUME NEW w \in Workers, PopFront(w) PROVE QuietInv'
  BY <1>26 DEF PopFront
<1>27. CASE UNCHANGED vars
  BY <1>27 DEF vars
<1>28. QED
  BY <1>1, <1>2, <1>3, <1>4, <1>5, <1>6, <1>7, <1>8, <1>9, <1>10, <1>11, <1>12, <1>13,
     <1>14, <1>15, <1>16, <1>17, <1>18, <1>19, <1>20, <1>21, <1>22, <1>23, <1>24,
     <1>25, <1>26, <1>27
  DEF Next, MainOperation, MainCall, Worker, Terminated

(* Without signals main, which is the one that stops the threads, never clears
   the order of a worker that has returned and taken its tCalc with it. *)
THEOREM LiveOrdersFound == ~Signals => (Spec => []MainFindsLiveOrders)
<1> SUFFICES ASSUME ~Signals PROVE Spec => []MainFindsLiveOrders
  OBVIOUS
<1>1. Init => QuietInv
  BY DEF Init, QuietInv
<1>2. TypeOK /\ QuietInv /\ [Next]_vars => QuietInv'
  BY QuietStep
<1>3. TypeOK /\ QuietInv => MainFindsLiveOrders
  BY ThreadsAssumption DEF TypeOK, QuietInv, MainFindsLiveOrders, Dangling, Workers
<1>4. QED
  BY <1>1, <1>2, <1>3, TypeCorrect, PTL DEF Spec

=============================================================================
