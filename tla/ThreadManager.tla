---------------------------- MODULE ThreadManager ----------------------------
(***************************************************************************)
(* The scheduler of the post-processor: src/src/thread_manager/            *)
(* ThreadManager.cpp.  The main thread registers and releases calculations *)
(* (addNewCalculation, releaseCalculation, releaseAll) and deletes them;   *)
(* the order maker (makeProcessThreadOrder) copies the registry into the   *)
(* private order of every worker whose order is empty; worker i runs the   *)
(* calculations of its order one by one, holding its own lockOrder.        *)
(*                                                                         *)
(* Even workers call mergeData then calculateData (useMergeData), odd ones *)
(* the other way round (useCalculateData).  A method of a calculation      *)
(* skips its body when another worker is inside it or when the calculation *)
(* was told to stop (the try_to_lock at the top of S4Calculation::         *)
(* mergeData, calculateData and their siblings).                           *)
(*                                                                         *)
(* Addresses are reused: a deleted calculation's address may be that of a  *)
(* later one, as operator new may return it again.                         *)
(***************************************************************************)
EXTENDS Integers, Sequences, SequencesExt

CONSTANTS
    NumThreads,  \* workers start() creates; main.cpp starts 4
    Calcs,       \* addresses an ICalculation may have
    NoCalc,      \* no calculation
    Signals      \* whether SIGINT or SIGTERM may arrive (main.cpp signalTerminate)

ASSUME ThreadsAssumption == NumThreads \in Nat
ASSUME NoCalcAssumption == NoCalc \notin Calcs
ASSUME SignalsAssumption == Signals \in BOOLEAN

Workers == 0 .. NumThreads - 1
Methods == {"mergeData", "calculateData"}

VARIABLES
    isStopThreads, isPaused,  \* the two atomics
    calculations,             \* calculations_
    sizeOfCalculations,       \* sizeOfCalculations_, touched by main alone
    lockCalc,                 \* who holds lockCalcutaions_: "free", "main", "maker"
    processMap,               \* per key: "absent", "null" or "set" (&tCalc)
    order,                    \* per worker: tCalc.order
    lockOrder,                \* per worker, who holds tCalc.lockOrder
    pcMain, op, target, slot, \* main: next step, operation, its argument, map iterator
    handler,                  \* the frame of signalTerminate on top of main
    pcMaker, makerSlot,       \* order maker: next step, map iterator
    pcWorker,                 \* workers: next step
    life,                     \* per address: "free", "live", "released"
    stopped,                  \* calculations whose isStopThreads_ is set
    busy                      \* <<calculation, method>> whose method lock is held

mainVars == <<pcMain, op, target, slot>>
makerVars == <<pcMaker, makerSlot>>
registry == <<calculations, sizeOfCalculations>>
calcVars == <<life, stopped, busy>>
vars == <<isStopThreads, isPaused, registry, lockCalc, processMap, order, lockOrder,
          mainVars, handler, makerVars, pcWorker, calcVars>>

Init ==
    /\ isStopThreads = FALSE /\ isPaused = FALSE
    /\ calculations = <<>> /\ sizeOfCalculations = 0
    /\ lockCalc = "free"
    /\ processMap = [w \in Workers |-> "absent"]
    /\ order = [w \in Workers |-> <<>>]
    /\ lockOrder = [w \in Workers |-> "free"]
    /\ pcMain = "start" /\ op = "none" /\ target = NoCalc /\ slot = 0
    /\ handler = "none"
    /\ pcMaker = "loop" /\ makerSlot = 0
    /\ pcWorker = [w \in Workers |-> "none"]
    /\ life = [c \in Calcs |-> "free"] /\ stopped = {} /\ busy = {}

-----------------------------------------------------------------------------
(***************************************************************************)
(* The main thread.  It runs only while no signal handler is on its stack. *)
(***************************************************************************)
MainAt(step) == pcMain = step /\ handler # "joining"

(* start(), one turn of its loop: the key goes into processMap_ with a null
   pointer and then the thread is created.  The order maker already runs. *)
StartThread ==
    /\ MainAt("start")
    /\ IF slot < NumThreads
       THEN /\ processMap' = [processMap EXCEPT ![slot] = "null"]
            /\ pcWorker' = [pcWorker EXCEPT ![slot] = "register"]
            /\ slot' = slot + 1
            /\ UNCHANGED pcMain
       ELSE /\ pcMain' = "idle" /\ slot' = 0
            /\ UNCHANGED <<processMap, pcWorker>>
    /\ UNCHANGED <<isStopThreads, isPaused, registry, lockCalc, order, lockOrder,
                   op, target, handler, makerVars, calcVars>>

(* A calculation is constructed at a free address and its constructor calls
   addNewCalculation, which does nothing once the threads are stopping. *)
AddBegin(c) ==
    /\ MainAt("idle") /\ life[c] = "free"
    /\ life' = [life EXCEPT ![c] = "live"]
    /\ stopped' = stopped \ {c}
    /\ busy' = busy \ ({c} \X Methods)
    /\ IF isStopThreads
       THEN UNCHANGED <<isPaused, pcMain, op, target>>
       ELSE isPaused' = TRUE /\ pcMain' = "push" /\ op' = "add" /\ target' = c
    /\ UNCHANGED <<isStopThreads, registry, lockCalc, processMap, order, lockOrder,
                   slot, handler, makerVars, pcWorker>>

(* The section under lockCalcutaions_; the others only try that lock, so
   taking and dropping it around one push_back is one step. *)
AddPush ==
    /\ MainAt("push") /\ lockCalc = "free"
    /\ calculations' = Append(calculations, target)
    /\ sizeOfCalculations' = sizeOfCalculations + 1
    /\ pcMain' = "resume"
    /\ UNCHANGED <<isStopThreads, isPaused, lockCalc, processMap, order, lockOrder,
                   op, target, slot, handler, makerVars, pcWorker, calcVars>>

(* stopThreads() of the owner: the calculation's own flag is set, then
   releaseCalculation begins.  Owners call it again on a released calculation:
   closeSatellite after destroySatelliteChannels has already done so. *)
ReleaseBegin(c) ==
    /\ MainAt("idle") /\ life[c] # "free"
    /\ stopped' = stopped \union {c}
    /\ isPaused' = TRUE
    /\ pcMain' = "erase" /\ op' = "release" /\ target' = c
    /\ UNCHANGED <<isStopThreads, registry, lockCalc, processMap, order, lockOrder,
                   slot, handler, makerVars, pcWorker, life, busy>>

(* The first match leaves the registry and the orders are cleared next; with
   no match (or a zero size) nothing is cleared. *)
EraseFirstMatch ==
    /\ MainAt("erase") /\ op = "release" /\ lockCalc = "free"
    /\ IF sizeOfCalculations > 0 /\ Contains(calculations, target)
       THEN /\ \E it \in 1 .. Len(calculations) :
                 /\ calculations[it] = target
                 /\ \A j \in 1 .. it - 1 : calculations[j] # target
                 /\ calculations' = RemoveAt(calculations, it)
            /\ sizeOfCalculations' = sizeOfCalculations - 1
            /\ lockCalc' = "main" /\ pcMain' = "nextOrder"
       ELSE /\ pcMain' = "resume"
            /\ UNCHANGED <<registry, lockCalc>>
    /\ UNCHANGED <<isStopThreads, isPaused, processMap, order, lockOrder, op, target, slot,
                   handler, makerVars, pcWorker, calcVars>>

ReleaseAllBegin ==
    /\ MainAt("idle")
    /\ isPaused' = TRUE /\ pcMain' = "erase" /\ op' = "releaseAll"
    /\ UNCHANGED <<isStopThreads, registry, lockCalc, processMap, order, lockOrder,
                   target, slot, handler, makerVars, pcWorker, calcVars>>

EraseAll ==
    /\ MainAt("erase") /\ op = "releaseAll" /\ lockCalc = "free"
    /\ calculations' = <<>>
    /\ lockCalc' = "main" /\ pcMain' = "nextOrder"
    /\ UNCHANGED <<isStopThreads, isPaused, sizeOfCalculations, processMap, order,
                   lockOrder, op, target, slot, handler, makerVars, pcWorker, calcVars>>

(* A worker that returned has destroyed its tCalc: the entry of processMap_ is
   then a dangling pointer, and what main finds there is not part of the state. *)
Dangling(w) == processMap[w] = "set" /\ pcWorker[w] = "done"

(* The lock is waited for.  (Variant: one try, as in the order maker.) *)
MustClear_TryOnce(w) == processMap[w] = "set" /\ ~Dangling(w) /\ lockOrder[w] = "free"
MustClear(w) == processMap[w] = "set" /\ ~Dangling(w)

ClearedOrder_DropsFront == IF order[slot] = <<>> THEN <<>> ELSE Tail(order[slot])
ClearedOrder == <<>>

(* The loop over processMap_ with lockCalcutaions_ held: wait for the worker's
   lockOrder, clear the order, drop the lock. *)
LockOrder ==
    /\ MainAt("nextOrder") /\ slot < NumThreads
    /\ MustClear(slot) /\ lockOrder[slot] = "free"
    /\ lockOrder' = [lockOrder EXCEPT ![slot] = "main"]
    /\ pcMain' = "clearOrder"
    /\ UNCHANGED <<isStopThreads, isPaused, registry, lockCalc, processMap, order, op,
                   target, slot, handler, makerVars, pcWorker, calcVars>>

ClearOrder ==
    /\ MainAt("clearOrder")
    /\ order' = [order EXCEPT ![slot] = ClearedOrder]
    /\ lockOrder' = [lockOrder EXCEPT ![slot] = "free"]
    /\ slot' = slot + 1 /\ pcMain' = "nextOrder"
    /\ UNCHANGED <<isStopThreads, isPaused, registry, lockCalc, processMap, op, target,
                   handler, makerVars, pcWorker, calcVars>>

SkipOrder ==
    /\ MainAt("nextOrder") /\ slot < NumThreads
    /\ ~MustClear(slot)
    /\ slot' = slot + 1
    /\ UNCHANGED <<isStopThreads, isPaused, registry, lockCalc, processMap, order,
                   lockOrder, pcMain, op, target, handler, makerVars, pcWorker, calcVars>>

UnlockCalculations ==
    /\ MainAt("nextOrder") /\ slot = NumThreads
    /\ lockCalc' = "free" /\ pcMain' = "resume" /\ slot' = 0
    /\ UNCHANGED <<isStopThreads, isPaused, registry, processMap, order, lockOrder, op,
                   target, handler, makerVars, pcWorker, calcVars>>

(* releaseAll resets the size here, after its lock is gone. *)
SizeOnReturn_DecrementedTwice ==
    CASE op = "releaseAll" -> 0
      [] op = "release" /\ sizeOfCalculations > 0 -> sizeOfCalculations - 1
      [] OTHER -> sizeOfCalculations
SizeOnReturn == IF op = "releaseAll" THEN 0 ELSE sizeOfCalculations

(* The last lines of the three operations.  Returning is what lets the owner
   delete. *)
Resume ==
    /\ MainAt("resume")
    /\ sizeOfCalculations' = SizeOnReturn
    /\ isPaused' = FALSE
    /\ life' = [c \in Calcs |->
                  IF \/ op = "release" /\ c = target
                     \/ op = "releaseAll" /\ life[c] = "live"
                  THEN "released" ELSE life[c]]
    /\ pcMain' = "idle" /\ op' = "none" /\ target' = NoCalc
    /\ UNCHANGED <<isStopThreads, calculations, lockCalc, processMap, order, lockOrder,
                   slot, handler, makerVars, pcWorker, stopped, busy>>

(* delete calculation: owners do it only after the release has returned. *)
Delete(c) ==
    /\ MainAt("idle") /\ life[c] = "released"
    /\ life' = [life EXCEPT ![c] = "free"]
    /\ UNCHANGED <<isStopThreads, isPaused, registry, lockCalc, processMap, order,
                   lockOrder, mainVars, handler, makerVars, pcWorker, stopped, busy>>

AllThreadsReturned == pcMaker = "done" /\ \A w \in Workers : pcWorker[w] \in {"none", "done"}

(* stop() at the end of main(), in its two halves. *)
StopBegin_WithoutJoin ==
    /\ MainAt("idle")
    /\ isStopThreads' = TRUE
    /\ UNCHANGED <<isPaused, registry, lockCalc, processMap, order, lockOrder,
                   mainVars, handler, makerVars, pcWorker, calcVars>>

StopBegin ==
    /\ MainAt("idle")
    /\ isStopThreads' = TRUE /\ pcMain' = "join"
    /\ UNCHANGED <<isPaused, registry, lockCalc, processMap, order, lockOrder, op,
                   target, slot, handler, makerVars, pcWorker, calcVars>>

StopJoined ==
    /\ MainAt("join") /\ AllThreadsReturned
    /\ calculations' = <<>> /\ sizeOfCalculations' = 0 /\ pcMain' = "exited"
    /\ UNCHANGED <<isStopThreads, isPaused, lockCalc, processMap, order, lockOrder, op,
                   target, slot, handler, makerVars, pcWorker, calcVars>>

(* The same two halves in signalTerminate, which runs on the main thread on top
   of whatever step it was about to take, and returns to that step. *)
SignalBegin ==
    /\ Signals /\ handler = "none" /\ pcMain \notin {"start", "exited"}
    /\ handler' = "joining" /\ isStopThreads' = TRUE
    /\ UNCHANGED <<isPaused, registry, lockCalc, processMap, order, lockOrder,
                   mainVars, makerVars, pcWorker, calcVars>>

SignalJoined ==
    /\ handler = "joining" /\ AllThreadsReturned
    /\ handler' = "returned" /\ calculations' = <<>> /\ sizeOfCalculations' = 0
    /\ UNCHANGED <<isStopThreads, isPaused, lockCalc, processMap, order, lockOrder,
                   mainVars, makerVars, pcWorker, calcVars>>

-----------------------------------------------------------------------------
(***************************************************************************)
(* makeProcessThreadOrder.  Its pauses are steps it does not take.         *)
(***************************************************************************)
MakerUnchanged == UNCHANGED <<isStopThreads, isPaused, registry, processMap, lockOrder,
                              mainVars, handler, pcWorker, calcVars>>

MakerStop ==
    /\ pcMaker = "loop" /\ isStopThreads
    /\ pcMaker' = "done"
    /\ UNCHANGED <<lockCalc, order, makerSlot>> /\ MakerUnchanged

MayStartPass_WhilePaused == ~isStopThreads
MayStartPass == ~isStopThreads /\ ~isPaused

MakerSeesRunning ==
    /\ pcMaker = "loop" /\ MayStartPass
    /\ pcMaker' = "tryLock"
    /\ UNCHANGED <<lockCalc, order, makerSlot>> /\ MakerUnchanged

(* One try_to_lock of lockCalcutaions_; without it the pass is skipped. *)
MakerTryLock ==
    /\ pcMaker = "tryLock"
    /\ IF lockCalc = "free"
       THEN lockCalc' = "maker" /\ pcMaker' = "scan"
       ELSE pcMaker' = "loop" /\ UNCHANGED lockCalc
    /\ UNCHANGED <<order, makerSlot>> /\ MakerUnchanged

(* One try_to_lock of a lockOrder; main is kept out by lockCalcutaions_ and
   the worker only tries, so looking at the order and filling it is one step. *)
CanFill_AnyOrder(w) == processMap[w] = "set" /\ ~Dangling(w) /\ lockOrder[w] = "free"
CanFill(w) ==
    processMap[w] = "set" /\ ~Dangling(w) /\ lockOrder[w] = "free" /\ order[w] = <<>>

MakerFill ==
    /\ pcMaker = "scan" /\ makerSlot < NumThreads /\ CanFill(makerSlot)
    /\ order' = [order EXCEPT ![makerSlot] = @ \o calculations]
    /\ makerSlot' = makerSlot + 1
    /\ UNCHANGED <<lockCalc, pcMaker>> /\ MakerUnchanged

MakerSkip ==
    /\ pcMaker = "scan" /\ makerSlot < NumThreads /\ ~CanFill(makerSlot)
    /\ makerSlot' = makerSlot + 1
    /\ UNCHANGED <<lockCalc, order, pcMaker>> /\ MakerUnchanged

MakerUnlock ==
    /\ pcMaker = "scan" /\ makerSlot = NumThreads
    /\ lockCalc' = "free" /\ pcMaker' = "loop" /\ makerSlot' = 0
    /\ UNCHANGED order /\ MakerUnchanged

-----------------------------------------------------------------------------
(***************************************************************************)
(* useMergeData and useCalculateData, worker w.                            *)
(***************************************************************************)
FirstMethod(w) == IF w % 2 = 0 THEN "mergeData" ELSE "calculateData"
SecondMethod(w) == IF w % 2 = 0 THEN "calculateData" ELSE "mergeData"

WorkerUnchanged == UNCHANGED <<isStopThreads, isPaused, registry, lockCalc, mainVars,
                               handler, makerVars, life, stopped>>

WorkerGoto(w, from, to) ==
    pcWorker[w] = from /\ pcWorker' = [pcWorker EXCEPT ![w] = to]

(* processMap_.at(threadNumber) = &tCalc *)
RegisterWorker(w) ==
    /\ WorkerGoto(w, "register", "loop")
    /\ processMap' = [processMap EXCEPT ![w] = "set"]
    /\ UNCHANGED <<order, lockOrder, busy>> /\ WorkerUnchanged

WorkerStop_AfterPass(w) ==
    /\ WorkerGoto(w, "loop", "done") /\ isStopThreads /\ order[w] = <<>>
    /\ UNCHANGED <<processMap, order, lockOrder, busy>> /\ WorkerUnchanged

WorkerStop(w) ==
    /\ WorkerGoto(w, "loop", "done") /\ isStopThreads
    /\ UNCHANGED <<processMap, order, lockOrder, busy>> /\ WorkerUnchanged

WorkerSeesRunning(w) ==
    /\ WorkerGoto(w, "loop", "acquire") /\ ~isStopThreads /\ ~isPaused
    /\ UNCHANGED <<processMap, order, lockOrder, busy>> /\ WorkerUnchanged

(* The inner while (true): it tries until it has the lock, stopping or not. *)
AcquireOrder(w) ==
    /\ WorkerGoto(w, "acquire", "front") /\ lockOrder[w] = "free"
    /\ lockOrder' = [lockOrder EXCEPT ![w] = "worker"]
    /\ UNCHANGED <<processMap, order, busy>> /\ WorkerUnchanged

OrderEmpty(w) ==
    /\ WorkerGoto(w, "front", "loop") /\ order[w] = <<>>
    /\ lockOrder' = [lockOrder EXCEPT ![w] = "free"]
    /\ UNCHANGED <<processMap, order, busy>> /\ WorkerUnchanged

TakeFront(w) ==
    /\ WorkerGoto(w, "front", "first") /\ order[w] # <<>>
    /\ UNCHANGED <<processMap, order, lockOrder, busy>> /\ WorkerUnchanged

(* A call of a method of the front calculation: its body runs if the try_to_lock
   of the method's lock succeeds and the calculation is not stopping. *)
CanEnter_Unlocked(c, m) == c \notin stopped
CanEnter(c, m) == <<c, m>> \notin busy /\ c \notin stopped

EnterBody(w, step, m, inside) ==
    /\ WorkerGoto(w, step, inside) /\ CanEnter(Head(order[w]), m)
    /\ busy' = busy \union {<<Head(order[w]), m>>}
    /\ UNCHANGED <<processMap, order, lockOrder>> /\ WorkerUnchanged

SkipBody(w, step, m, next) ==
    /\ WorkerGoto(w, step, next) /\ ~CanEnter(Head(order[w]), m)
    /\ UNCHANGED <<processMap, order, lockOrder, busy>> /\ WorkerUnchanged

(* How long the body takes is not the scheduler's to say: it may wait for
   satellites_ (SvmPredictionData::pushRange and its siblings) or for the mutex
   of the logger, which main may hold.  FairSpec says when it must end. *)
LeaveBody(w, inside, m, next) ==
    /\ WorkerGoto(w, inside, next)
    /\ busy' = busy \ {<<Head(order[w]), m>>}
    /\ UNCHANGED <<processMap, order, lockOrder>> /\ WorkerUnchanged

CallMethods(w) ==
    \/ EnterBody(w, "first", FirstMethod(w), "inFirst")
    \/ SkipBody(w, "first", FirstMethod(w), "second")
    \/ LeaveBody(w, "inFirst", FirstMethod(w), "second")
    \/ EnterBody(w, "second", SecondMethod(w), "inSecond")
    \/ SkipBody(w, "second", SecondMethod(w), "pop")
    \/ LeaveBody(w, "inSecond", SecondMethod(w), "pop")

(* order.erase(begin()), then the lock goes with the end of its scope. *)
PopFront_Kept(w) ==
    /\ WorkerGoto(w, "pop", "loop")
    /\ lockOrder' = [lockOrder EXCEPT ![w] = "free"]
    /\ UNCHANGED <<processMap, order, busy>> /\ WorkerUnchanged

PopFront(w) ==
    /\ WorkerGoto(w, "pop", "loop")
    /\ order' = [order EXCEPT ![w] = Tail(@)]
    /\ lockOrder' = [lockOrder EXCEPT ![w] = "free"]
    /\ UNCHANGED <<processMap, busy>> /\ WorkerUnchanged

-----------------------------------------------------------------------------
MainOperation ==
    \/ StartThread \/ AddPush \/ EraseFirstMatch \/ EraseAll
    \/ LockOrder \/ ClearOrder \/ SkipOrder \/ UnlockCalculations
    \/ Resume \/ StopJoined \/ SignalJoined

MainCall ==
    \/ \E c \in Calcs : AddBegin(c) \/ ReleaseBegin(c) \/ Delete(c)
    \/ ReleaseAllBegin \/ StopBegin \/ SignalBegin

Maker ==
    \/ MakerStop \/ MakerSeesRunning \/ MakerTryLock
    \/ MakerFill \/ MakerSkip \/ MakerUnlock

Worker(w) ==
    \/ RegisterWorker(w) \/ WorkerStop(w) \/ WorkerSeesRunning(w)
    \/ AcquireOrder(w) \/ OrderEmpty(w) \/ TakeFront(w) \/ CallMethods(w) \/ PopFront(w)

Terminated == pcMain = "exited" /\ UNCHANGED vars

Next == MainOperation \/ MainCall \/ Maker \/ (\E w \in Workers : Worker(w)) \/ Terminated

Spec == Init /\ [][Next]_vars

(* A worker inside a body may wait for a lock that main holds around an
   operation (closeSatellite releases with satellites_ locked) or held when the
   signal came; at the end of main() nobody holds one. *)
InBody(w) == pcWorker[w] \in {"inFirst", "inSecond"}
MayWait(w) == InBody(w) /\ pcMain # "join"

(* The scheduler of the operating system: a thread whose step stays possible
   takes it.  Main calls operations when it likes; once begun they go on.  That
   a body returns is assumed at the end of main() alone. *)
FairSpec ==
    /\ Spec
    /\ WF_vars(MainOperation)
    /\ WF_vars(Maker)
    /\ \A w \in Workers : WF_vars(Worker(w) /\ ~MayWait(w))

(* No worker stays inside a body for ever: what the rest of the program has to
   see to, and does not always (SatelliteLifecycle, ReadingGoesOn). *)
BodiesReturn == \A w \in Workers : []<>~InBody(w)

(* A pass gives up on a worker whose lock it cannot have at once.  A worker with
   an empty order holds its lock for one look at it and then sleeps 100 ms, so a
   maker that comes back every 100 ms is not turned away for ever. *)
AtEmptyOrder(w) == pcMaker = "scan" /\ makerSlot = w /\ order[w] = <<>>

LiveSpec ==
    /\ FairSpec
    /\ \A w \in Workers :
         []<>AtEmptyOrder(w) => []<><<MakerFill /\ makerSlot = w>>_vars

-----------------------------------------------------------------------------
(***************************************************************************)
(* Properties.                                                             *)
(***************************************************************************)
MainSteps == {"start", "idle", "push", "erase", "nextOrder", "clearOrder", "resume",
              "join", "exited"}
RunningSteps == {"first", "inFirst", "second", "inSecond", "pop"}
HoldingSteps == RunningSteps \union {"front"}
WorkerSteps == HoldingSteps \union {"none", "register", "loop", "acquire", "done"}

(* Types of the variables: the values the threads' steps and the locks take. *)
TypeOK ==
    /\ isStopThreads \in BOOLEAN /\ isPaused \in BOOLEAN
    /\ calculations \in Seq(Calcs) /\ sizeOfCalculations \in Nat
    /\ lockCalc \in {"free", "main", "maker"}
    /\ processMap \in [Workers -> {"absent", "null", "set"}]
    /\ order \in [Workers -> Seq(Calcs)]
    /\ lockOrder \in [Workers -> {"free", "main", "worker"}]
    /\ pcMain \in MainSteps /\ op \in {"none", "add", "release", "releaseAll"}
    /\ target \in Calcs \union {NoCalc} /\ slot \in 0 .. NumThreads
    /\ handler \in {"none", "joining", "returned"}
    /\ pcMaker \in {"loop", "tryLock", "scan", "done"} /\ makerSlot \in 0 .. NumThreads
    /\ pcWorker \in [Workers -> WorkerSteps]
    /\ life \in [Calcs -> {"free", "live", "released"}]
    /\ stopped \in SUBSET Calcs /\ busy \in SUBSET (Calcs \X Methods)

Running(w) == pcWorker[w] \in RunningSteps
Clearing == pcMain \in {"nextOrder", "clearOrder"}
Queued(w) == ToSet(order[w])
Registered == ToSet(calculations)

(* No worker calls a method of a calculation that its owner has deleted: the
   reason releaseCalculation and releaseAll wait for every lockOrder. *)
NoUseAfterFree == \A w \in Workers : Running(w) => life[Head(order[w])] # "free"

(* Once an operation of main has returned, no worker runs or still has queued
   a calculation that is not registered any more. *)
ReleaseIsComplete ==
    pcMain = "idle" => \A w \in Workers : pcWorker[w] # "done" => Queued(w) \subseteq Registered

(* sizeOfCalculations_ is what releaseCalculation trusts to skip its search:
   between operations it is the length of calculations_. *)
SizeAgrees == pcMain = "idle" => sizeOfCalculations = Len(calculations)

(* A pass serves the calculations in the order of their registration, each at
   most once: what is left of it is a segment of the registry, whatever has
   been appended meanwhile. *)
PassFollowsRegistry ==
    ~Clearing => \A w \in Workers : pcWorker[w] # "done" =>
        \E i \in 1 .. Len(calculations) + 1 :
            IsPrefix(order[w], SubSeq(calculations, i, Len(calculations)))

(* Two workers are never inside the same method of the same calculation, even
   when its address has had another calculation before. *)
BodyOf(w) == IF pcWorker[w] = "inFirst" THEN FirstMethod(w) ELSE SecondMethod(w)
OneThreadPerMethod ==
    \A v, w \in Workers :
        v # w /\ InBody(v) /\ InBody(w)
            => <<Head(order[v]), BodyOf(v)>> # <<Head(order[w]), BodyOf(w)>>

(* If no body waits for ever, every operation of main returns, and weak fairness
   is enough: isPaused_ keeps the maker and the workers from taking the locks
   again and again.  A body that waits for what main holds keeps its lockOrder,
   and then releaseCalculation and releaseAll do not return. *)
OperationReturns ==
    BodiesReturn =>
        (pcMain \in {"push", "erase", "nextOrder", "clearOrder", "resume"} ~> pcMain = "idle")

(* stop() at the end of main() returns: its join_all gets every thread.  There
   main holds nothing a body could wait for. *)
StopReturns == pcMain = "join" ~> pcMain = "exited"

(* While main calls nothing and no body waits for ever, both methods of every
   registered calculation keep being executed, by whichever worker. *)
Served(c, m) == <<c, m>> \in busy
KeepsServing ==
    BodiesReturn => \A c \in Calcs : \A m \in Methods :
        c \in Registered ~> (Served(c, m) \/ pcMain # "idle" \/ c \notin Registered)

(* The join_all of a signal gets every thread unless it interrupted main inside
   releaseCalculation or releaseAll with the lockOrder of a worker taken, or
   while main held what a body waits for: satellites_ or the logger's mutex. *)
SignalStopsThreads ==
    BodiesReturn =>
        (handler = "joining" ~> (handler = "returned" \/ \E w \in Workers : lockOrder[w] = "main"))

(* Main never reaches for the lockOrder of a worker that has returned: tCalc is
   a local variable of the worker, and stop() leaves the pointer in the map. *)
MainFindsLiveOrders ==
    ~(pcMain = "nextOrder" /\ slot < NumThreads /\ Dangling(slot))

(* The scheduler implements the promise to the owners of calculations: alive
   until the release returns, and running only while alive. *)
Alive == {c \in Calcs : life[c] = "live"}
RunningCalc == [w \in Workers |-> IF Running(w) THEN Head(order[w]) ELSE NoCalc]
Registry == INSTANCE CalculationRegistry WITH alive <- Alive, running <- RunningCalc
ImplementsRegistry == Registry!Spec

-----------------------------------------------------------------------------
(***************************************************************************)
(* The inductive invariant behind the safety properties.                   *)
(***************************************************************************)

(* Which steps hold which lock. *)
LockInv ==
    /\ lockCalc = "maker" <=> pcMaker = "scan"
    /\ lockCalc = "main" <=> Clearing
    /\ pcMain = "clearOrder" => slot < NumThreads /\ lockOrder[slot] = "main"
    /\ \A w \in Workers : lockOrder[w] = "worker" <=> pcWorker[w] \in HoldingSteps

(* What main has already done in each step of its operations. *)
OpInv ==
    /\ pcMain \in {"start", "idle", "join", "exited"} => op = "none"
    /\ pcMain = "push" => op = "add" /\ target \notin Registered
    /\ pcMain = "erase" \/ Clearing => op \in {"release", "releaseAll"}
    /\ pcMain \notin {"start", "nextOrder", "clearOrder"} => slot = 0
    /\ op = "add" => target \in Calcs /\ life[target] = "live"
    /\ op = "release" => target \in Calcs /\ life[target] # "free"
    /\ op = "release" /\ Clearing => life[target] = "live"
    /\ op = "release" /\ pcMain # "erase" => target \notin Registered
    /\ op = "releaseAll" /\ pcMain # "erase" => calculations = <<>>

(* The registry holds live calculations, each once, and its size is tracked. *)
RegInv ==
    /\ \A i \in 1 .. Len(calculations) : life[calculations[i]] = "live"
    /\ \A i, j \in 1 .. Len(calculations) : calculations[i] = calculations[j] => i = j
    /\ sizeOfCalculations # Len(calculations) =>
          op = "releaseAll" /\ (Clearing \/ pcMain = "resume")

(* What a worker has queued is registered, or main is on its way to clear it. *)
MayLinger(w, c) ==
    /\ Clearing /\ slot <= w
    /\ \/ op = "release" /\ c = target
       \/ op = "releaseAll" /\ life[c] = "live"

QueueOf(w) ==
    /\ pcWorker[w] # "done" =>
          \A i \in 1 .. Len(order[w]) :
              order[w][i] \in Registered \/ MayLinger(w, order[w][i])
    /\ processMap[w] # "set" => order[w] = <<>>
    /\ pcWorker[w] \in {"none", "register"} => processMap[w] # "set"
    /\ pcMain = "start" /\ slot <= w => pcWorker[w] = "none"
    /\ Running(w) => order[w] # <<>>
QueueInv == \A w \in Workers : QueueOf(w)

(* A worker inside a body holds that method's lock, and no other worker is in it. *)
BodyInv ==
    /\ \A w \in Workers : InBody(w) => <<Head(order[w]), BodyOf(w)>> \in busy
    /\ OneThreadPerMethod

SchedulerInv == LockInv /\ OpInv /\ RegInv /\ QueueInv /\ BodyInv

=============================================================================
