------------------------- MODULE SatelliteLifecycle -------------------------
(***************************************************************************)
(* How satellites rise and set while the workers run: SatelliteGroup,      *)
(* GpsSatellite, GlonassSatellite and SvmPredictionData                    *)
(* (src/src/satellite, src/src/experiments/SvmPredictionData.cpp), with    *)
(* the locks they share with the scheduler of ThreadManager.               *)
(*                                                                         *)
(* Main is a stack of calls still to make: "todo".  A call that calls      *)
(* others replaces itself by them.  A signal handler runs on top of        *)
(* whatever main was doing: the calls it interrupted are "suspended" until *)
(* it returns.  A calculation is <<satellite, kind>>: one of the channel   *)
(* kinds, whose results go to the satellite's experiment, or "experiment". *)
(*                                                                         *)
(* Of the scheduler this module keeps who runs what and which locks are    *)
(* held.  ThreadManager has the rest.                                      *)
(***************************************************************************)
EXTENDS SequencesExt

CONSTANTS
    Satellites,     \* the satellites of the recording
    Gps,            \* those that are GpsSatellite objects, the others GlonassSatellite
    ChannelKinds,   \* the calculations of a satellite's channels
    Workers,        \* the threads of useMergeData and useCalculateData
    MaySignal       \* may SIGINT or SIGTERM arrive?

ASSUME GpsAssumption == Gps \subseteq Satellites
ASSUME MaySignalAssumption == MaySignal \in BOOLEAN
ASSUME KindsAssumption == "experiment" \notin ChannelKinds
ASSUME FiniteAssumption ==
    IsFiniteSet(Satellites) /\ IsFiniteSet(ChannelKinds) /\ IsFiniteSet(Workers)

VARIABLES
    todo,           \* the calls main has still to make, innermost first
    suspended,      \* those that a signal handler has interrupted
    phase,          \* "input", "ending", "done" or "terminated"
    channels,       \* satellites whose firstChannel_, secondChannel_, doubleChannelCalculation_ are set
    enabled,        \* satellites with isEnabledProcessing_
    fed,            \* satellites whose channels hold enough data to calculate from
    experiments,    \* the keys of SvmPredictionData::satellites_
    isActive,       \* isActive_
    alive,          \* calculations constructed and not deleted
    stopped,        \* calculations with isStopThreads_
    registered,     \* ThreadManager::calculations_, a sequence
    order,          \* [Workers -> sequences of calculations]: tCalc.order
    running,        \* [Workers -> <<state, calculation>>]
    managerStopped, \* ThreadManager::isStopThreads_
    calcLocked,     \* main holds lockCalcutaions_
    access,         \* what main holds of mutexLockSatelliteAndChannels_
    interrupted     \* "no", or the lock main held when a signal came, see Held

manager == <<registered, order, running, managerStopped>>
objects == <<channels, enabled, fed, experiments, isActive, alive, stopped>>
locks == <<calcLocked, access>>
signal == <<suspended, interrupted>>
vars == <<todo, phase, objects, manager, locks, signal>>

(* The PredictionsExperiments object of a satellite.  When the experiment is 16 or
   17 it owns workers that register, and are released by its stopThreads(),
   beside it; they take none of these locks and are not represented. *)
Experiment(s) == <<s, "experiment">>
ChannelCalculations(s) == {<<s, k>> : k \in ChannelKinds}
Calculations == Satellites \X (ChannelKinds \cup {"experiment"})
Idle == <<"idle", "none">>

Init ==
    /\ todo = <<>> /\ phase = "input"
    /\ channels = {} /\ enabled = {} /\ fed = {} /\ experiments = {} /\ isActive = TRUE
    /\ alive = {} /\ stopped = {} /\ registered = <<>>
    /\ order = [w \in Workers |-> <<>>] /\ running = [w \in Workers |-> Idle]
    /\ managerStopped = FALSE /\ calcLocked = FALSE /\ access = "none"
    /\ suspended = <<>> /\ interrupted = "no"

-----------------------------------------------------------------------------
(***************************************************************************)
(* Main: the calls each function makes, and what each call does.           *)
(***************************************************************************)
Running == phase \in {"input", "ending"}
Calls(name) == Running /\ todo # <<>> /\ Head(todo)[1] = name
Argument == Head(todo)[2]
Return == todo' = Tail(todo)
CallsNow(calls) == todo' = calls \o Tail(todo)

Call(name, arg) == <<<<name, arg>>>>
Step(name) == Call(name, "none")
ForEach(S, F(_)) == FlattenSeq([i \in 1 .. Len(SetToSeq(S)) |-> F(SetToSeq(S)[i])])

(* addNewCalculation and releaseCalculation *)
Register(c) == Call("register", c)
Release(c) == Call("stopFlag", c) \o Step("lock") \o Call("erase", c)
ClearOrders == ForEach(Workers, LAMBDA w : Call("clear", w)) \o Step("unlock")
ReleaseAll == Step("lock") \o Step("eraseAll")

(* upgrade_lock and upgrade_to_unique_lock, in the scope of a function *)
WithExclusiveAccess(calls) ==
    Step("upgrade") \o Step("exclusive") \o calls \o Step("giveUp")

CloseSatellite(s) == WithExclusiveAccess(Call("close", s))
CloseAll(S) ==
    ForEach(S, LAMBDA s : Release(Experiment(s))) \o Step("giveUp") \o ForEach(S, CloseSatellite)
StopPredictions ==
    Step("deactivate") \o Step("upgrade") \o Step("exclusive") \o Step("stopExperiments")

CreateChannels(s) ==
    ForEach(ChannelKinds, LAMBDA k : Register(<<s, k>>)) \o Call("channels", s)
Create(s) ==
    IF s \in Gps THEN Call("addSatellite", s) \o CreateChannels(s)
    ELSE CreateChannels(s) \o Call("addSatellite", s)

ReleaseChannels(s) == ForEach(ChannelKinds, LAMBDA k : Release(<<s, k>>))
StopThreads(s) == Call("stopThreads", s)
Destroy_CloseFirst(s) == CloseSatellite(s) \o StopThreads(s) \o Call("delete", s)
Destroy_NotStopped(s) == CloseSatellite(s) \o Call("delete", s)
Destroy_NotClosed(s) == StopThreads(s) \o Call("delete", s)
Destroy(s) == StopThreads(s) \o CloseSatellite(s) \o Call("delete", s)

DestroyGroup_OneByOne == ForEach(Satellites, LAMBDA s : Call("destroy", s))
DestroyGroup ==
    ForEach(Satellites, StopThreads) \o ForEach(Satellites, LAMBDA s : Call("destroy", s))

StopManager == Step("stopManager") \o Step("join")

(* Handlers of logs, when the parser is between two of them.  pushSatVisParams
   creates or destroys the channels and then looks whether to use them. *)
SatVis(s) ==
    /\ phase = "input" /\ todo = <<>>
    /\ \E elevation \in {"down", "low", "up"} :
          todo' = (IF elevation # "down" /\ s \notin channels THEN Create(s)
                   ELSE IF elevation = "down" /\ s \in channels THEN Destroy(s) ELSE <<>>)
                  \o Call(IF elevation = "up" THEN "enable" ELSE "disable", s)
    /\ UNCHANGED <<phase, objects, manager, locks, signal>>

(* RANGE and ISMDETOBS: data for the channels' rings *)
Feed(s) ==
    /\ phase = "input" /\ todo = <<>> /\ s \in channels \cap enabled
    /\ fed' = fed \cup {s}
    /\ UNCHANGED <<todo, phase, channels, enabled, experiments, isActive, alive, stopped,
                   manager, locks, signal>>

(* SATXYZ2: an elevation angle, for the channels and for the experiment *)
Elevation(s) ==
    /\ phase = "input" /\ todo = <<>> /\ s \in channels \cap enabled
    /\ isActive
    /\ todo' = Step("shared") \o Call("pushElevationAngle", s)
    /\ UNCHANGED <<phase, objects, manager, locks, signal>>

(* A gap in the time stamps of RANGE: the group is created anew. *)
Gap ==
    /\ phase = "input" /\ todo = <<>>
    /\ todo' = ReleaseAll \o DestroyGroup \o StopPredictions \o Step("activate")
    /\ UNCHANGED <<phase, objects, manager, locks, signal>>

(* The end of main: ~LogParserThread, then both singletons are stopped. *)
EndOfInput ==
    /\ phase = "input" /\ todo = <<>>
    /\ phase' = "ending"
    /\ todo' = DestroyGroup \o StopPredictions \o StopManager \o Step("exit")
    /\ UNCHANGED <<objects, manager, locks, signal>>

HandlerCalls == StopManager \o StopPredictions \o Step("handled")

(* What main may hold when the handler interrupts it.  It writes to the log
   between all sorts of calls: at any step it may be inside writeMessage, with
   the logger's mutex; what else it holds then makes no difference. *)
Held ==
    {"logger", IF access # "none" THEN access ELSE IF calcLocked THEN "calculations" ELSE "nothing"}

Signal ==
    /\ MaySignal /\ Running /\ interrupted = "no"
    /\ interrupted' \in Held
    /\ suspended' = todo /\ todo' = HandlerCalls
    /\ UNCHANGED <<phase, objects, manager, locks>>

-----------------------------------------------------------------------------
(* Calls to the scheduler. *)
DoRegister ==
    /\ Calls("register")
    /\ alive' = alive \cup {Argument} /\ stopped' = stopped \ {Argument}
    /\ IF managerStopped THEN Return ELSE CallsNow(Step("lock") \o Call("add", Argument))
    /\ UNCHANGED <<phase, channels, enabled, fed, experiments, isActive, manager, locks, signal>>

DoStopFlag ==
    /\ Calls("stopFlag") /\ Return
    /\ stopped' = stopped \cup {Argument}
    /\ UNCHANGED <<phase, channels, enabled, fed, experiments, isActive, alive, manager, locks,
                   signal>>

DoLock ==
    /\ Calls("lock") /\ ~calcLocked /\ Return
    /\ calcLocked' = TRUE
    /\ UNCHANGED <<phase, objects, manager, access, signal>>

DoAdd ==
    /\ Calls("add") /\ Return
    /\ registered' = Append(registered, Argument) /\ calcLocked' = FALSE
    /\ UNCHANGED <<phase, objects, order, running, managerStopped, access, signal>>

(* Only a calculation that is found has the orders cleared. *)
DoErase ==
    /\ Calls("erase")
    /\ registered' = RemoveFirst(registered, Argument)
    /\ CallsNow(IF Contains(registered, Argument) THEN ClearOrders ELSE Step("unlock"))
    /\ UNCHANGED <<phase, objects, order, running, managerStopped, locks, signal>>

DoEraseAll ==
    /\ Calls("eraseAll") /\ CallsNow(ClearOrders)
    /\ registered' = <<>>
    /\ UNCHANGED <<phase, objects, order, running, managerStopped, locks, signal>>

CanClear_Anytime(w) == w \in Workers
CanClear(w) == running[w][1] \in {"idle", "returned"}
DoClear ==
    /\ Calls("clear") /\ CanClear(Argument) /\ Return
    /\ order' = [order EXCEPT ![Argument] = <<>>]
    /\ UNCHANGED <<phase, objects, registered, running, managerStopped, locks, signal>>

DoUnlock ==
    /\ Calls("unlock") /\ Return
    /\ calcLocked' = FALSE
    /\ UNCHANGED <<phase, objects, manager, access, signal>>

DoStopManager ==
    /\ Calls("stopManager") /\ Return
    /\ managerStopped' = TRUE
    /\ UNCHANGED <<phase, objects, registered, order, running, locks, signal>>

DoJoin ==
    /\ Calls("join") /\ \A w \in Workers : running[w][1] = "returned"
    /\ Return /\ registered' = <<>>
    /\ UNCHANGED <<phase, objects, order, running, managerStopped, locks, signal>>

(* Calls of the satellites. *)
DoChannels ==
    /\ Calls("channels") /\ Return
    /\ channels' = channels \cup {Argument}
    /\ UNCHANGED <<phase, enabled, fed, experiments, isActive, alive, stopped, manager, locks,
                   signal>>

DoEnable ==
    /\ Calls("enable") /\ Return
    /\ enabled' = enabled \cup ({Argument} \cap channels)
    /\ UNCHANGED <<phase, channels, fed, experiments, isActive, alive, stopped, manager, locks,
                   signal>>

DoDisable ==
    /\ Calls("disable") /\ Return
    /\ enabled' = enabled \ ({Argument} \cap channels)
    /\ UNCHANGED <<phase, channels, fed, experiments, isActive, alive, stopped, manager, locks,
                   signal>>

DoStopThreads ==
    /\ Calls("stopThreads")
    /\ enabled' = enabled \ {Argument}
    /\ CallsNow(IF Argument \in channels
                THEN ReleaseChannels(Argument) ELSE <<>>)
    /\ UNCHANGED <<phase, channels, fed, experiments, isActive, alive, stopped, manager, locks,
                   signal>>

DoDestroy ==
    /\ Calls("destroy")
    /\ enabled' = enabled \ {Argument}
    /\ CallsNow(IF Argument \in channels THEN Destroy(Argument) ELSE <<>>)
    /\ UNCHANGED <<phase, channels, fed, experiments, isActive, alive, stopped, manager, locks,
                   signal>>

DoDelete ==
    /\ Calls("delete") /\ Return
    /\ alive' = alive \ ChannelCalculations(Argument)
    /\ stopped' = stopped \ ChannelCalculations(Argument)
    /\ channels' = channels \ {Argument} /\ fed' = fed \ {Argument}
    /\ UNCHANGED <<phase, enabled, experiments, isActive, manager, locks, signal>>

(* Calls of SvmPredictionData. *)
DoAddSatellite ==
    /\ Calls("addSatellite")
    /\ CallsNow(IF isActive
                THEN WithExclusiveAccess(Register(Experiment(Argument)) \o Call("insert", Argument))
                ELSE <<>>)
    /\ UNCHANGED <<phase, objects, manager, locks, signal>>

DoUpgrade ==
    /\ Calls("upgrade") /\ access = "none" /\ Return
    /\ access' = "upgrade"
    /\ UNCHANGED <<phase, objects, manager, calcLocked, signal>>

NobodyShares == \A w \in Workers : running[w][1] # "pushing"
DoExclusive ==
    /\ Calls("exclusive") /\ NobodyShares /\ Return
    /\ access' = "exclusive"
    /\ UNCHANGED <<phase, objects, manager, calcLocked, signal>>

DoGiveUp ==
    /\ Calls("giveUp") /\ Return
    /\ access' = "none"
    /\ UNCHANGED <<phase, objects, manager, calcLocked, signal>>

DoInsert ==
    /\ Calls("insert") /\ Return
    /\ experiments' = experiments \cup {Argument}
    /\ UNCHANGED <<phase, channels, enabled, fed, isActive, alive, stopped, manager, locks,
                   signal>>

DoClose ==
    /\ Calls("close")
    /\ CallsNow(IF Argument \in experiments
                THEN Release(Experiment(Argument)) \o Call("deleteExperiment", Argument)
                ELSE <<>>)
    /\ UNCHANGED <<phase, objects, manager, locks, signal>>

DoDeleteExperiment ==
    /\ Calls("deleteExperiment") /\ Return
    /\ alive' = alive \ {Experiment(Argument)} /\ stopped' = stopped \ {Experiment(Argument)}
    /\ experiments' = experiments \ {Argument}
    /\ UNCHANGED <<phase, channels, enabled, fed, isActive, manager, locks, signal>>

(* stop() writes to the log next, and the handler waits there for a mutex that
   the main below it holds. *)
DoActivate ==
    /\ \/ Calls("activate") /\ isActive' = TRUE
       \/ Calls("deactivate") /\ interrupted # "logger" /\ isActive' = FALSE
    /\ Return
    /\ UNCHANGED <<phase, channels, enabled, fed, experiments, alive, stopped, manager, locks,
                   signal>>

(* stop() releases every experiment with exclusive access, gives it up and then
   closes the satellites one by one. *)
DoStopExperiments ==
    /\ Calls("stopExperiments")
    /\ CallsNow(CloseAll(experiments))
    /\ UNCHANGED <<phase, objects, manager, locks, signal>>

DoShared ==
    /\ Calls("shared") /\ access = "none" /\ Return
    /\ access' = "shared"
    /\ UNCHANGED <<phase, objects, manager, calcLocked, signal>>

(* satellites_.at() throws when there is no experiment; the parser catches it. *)
DoPushElevationAngle ==
    /\ Calls("pushElevationAngle")
    /\ IF Argument \in experiments THEN Return ELSE todo' = <<>>
    /\ access' = "none"
    /\ UNCHANGED <<phase, objects, manager, calcLocked, signal>>

DoHandled ==
    /\ Calls("handled") /\ todo' = suspended
    /\ suspended' = <<>> /\ interrupted' = "handled"
    /\ UNCHANGED <<phase, objects, manager, locks>>

DoExit ==
    /\ Calls("exit") /\ Return
    /\ phase' = "done"
    /\ UNCHANGED <<objects, manager, locks, signal>>

MainStep ==
    \/ DoRegister \/ DoStopFlag \/ DoLock \/ DoAdd \/ DoErase \/ DoEraseAll \/ DoClear
    \/ DoUnlock \/ DoStopManager \/ DoJoin \/ DoChannels \/ DoEnable \/ DoDisable
    \/ DoStopThreads \/ DoDestroy \/ DoDelete \/ DoAddSatellite \/ DoUpgrade
    \/ DoExclusive \/ DoGiveUp \/ DoInsert \/ DoClose \/ DoDeleteExperiment \/ DoActivate
    \/ DoStopExperiments \/ DoShared \/ DoPushElevationAngle \/ DoHandled \/ DoExit

-----------------------------------------------------------------------------
(***************************************************************************)
(* The other threads.                                                      *)
(***************************************************************************)
WorkerUnchanged == <<todo, objects, registered, managerStopped, locks, signal>>
Goto(w, state) == running' = [running EXCEPT ![w] = <<state, running[w][2]>>]

(* The order maker refills an empty order when both locks are free. *)
Fill(w) ==
    /\ Running /\ ~managerStopped /\ ~calcLocked
    /\ order[w] = <<>> /\ running[w] = Idle /\ registered # <<>>
    /\ order' = [order EXCEPT ![w] = registered]
    /\ UNCHANGED <<todo, phase, objects, registered, running, managerStopped, locks, signal>>

(* A worker takes its lockOrder and runs both methods of a calculation, which
   do nothing when the calculation is stopped. *)
Enter(w) ==
    /\ Running /\ ~managerStopped /\ running[w] = Idle /\ order[w] # <<>>
    /\ IF Head(order[w]) \in stopped
       THEN order' = [order EXCEPT ![w] = Tail(@)] /\ UNCHANGED running
       ELSE running' = [running EXCEPT ![w] = <<"running", Head(order[w])>>] /\ UNCHANGED order
    /\ UNCHANGED <<WorkerUnchanged, phase>>

(* calculateData of a channel has a value for SvmPredictionData::push... *)
HasValue(c) == c[2] \in ChannelKinds /\ c[1] \in fed
Push(w) ==
    /\ Running /\ running[w][1] = "running" /\ HasValue(running[w][2])
    /\ isActive
    /\ Goto(w, "waiting")
    /\ UNCHANGED <<WorkerUnchanged, phase, order>>

Share(w) ==
    /\ Running /\ running[w][1] = "waiting" /\ access # "exclusive"
    /\ Goto(w, "pushing")
    /\ UNCHANGED <<WorkerUnchanged, phase, order>>

(* satellites_.at() again: nobody catches what a worker throws. *)
Pushed(w) ==
    /\ Running /\ running[w][1] = "pushing"
    /\ IF running[w][2][1] \in experiments
       THEN Goto(w, "running") /\ UNCHANGED phase
       ELSE phase' = "terminated" /\ UNCHANGED running
    /\ UNCHANGED <<WorkerUnchanged, order>>

Leave(w) ==
    /\ Running /\ running[w][1] = "running"
    /\ running' = [running EXCEPT ![w] = Idle]
    /\ order' = [order EXCEPT ![w] = Tail(@)]
    /\ UNCHANGED <<WorkerUnchanged, phase>>

ReturnWorker(w) ==
    /\ Running /\ managerStopped /\ running[w] = Idle
    /\ running' = [running EXCEPT ![w] = <<"returned", "none">>]
    /\ order' = [order EXCEPT ![w] = <<>>]
    /\ UNCHANGED <<WorkerUnchanged, phase>>

Worker(w) == Enter(w) \/ Push(w) \/ Share(w) \/ Pushed(w) \/ Leave(w) \/ ReturnWorker(w)

Log == \E s \in Satellites : SatVis(s) \/ Feed(s) \/ Elevation(s)
Terminated == ~Running /\ UNCHANGED vars

Next ==
    \/ Log \/ Gap \/ EndOfInput \/ Signal \/ MainStep
    \/ \E w \in Workers : Fill(w) \/ Worker(w)
    \/ Terminated

Spec == Init /\ [][Next]_vars

(* Threads that can run do; a blocked main gets the lock it waits for when that
   is free again and again, and no method runs for ever: rings are finite.  A
   method writes to the log too: nothing is assumed of the workers when the
   logger's mutex was left with an interrupted main. *)
LoggerIsUsable == interrupted # "logger"
FairSpec ==
    /\ Spec
    /\ SF_vars(MainStep)
    /\ \A w \in Workers :
          /\ WF_vars(Worker(w) /\ LoggerIsUsable)
          /\ SF_vars(Leave(w) /\ LoggerIsUsable)

-----------------------------------------------------------------------------
(***************************************************************************)
(* Properties.                                                             *)
(***************************************************************************)
(* Every variable keeps its type; a worker in a method names the calculation. *)
TypeOK ==
    /\ phase \in {"input", "ending", "done", "terminated"}
    /\ {channels, enabled, fed, experiments} \subseteq SUBSET Satellites
    /\ isActive \in BOOLEAN /\ managerStopped \in BOOLEAN /\ calcLocked \in BOOLEAN
    /\ alive \subseteq Calculations /\ stopped \subseteq Calculations
    /\ registered \in Seq(Calculations) /\ order \in [Workers -> Seq(Calculations)]
    /\ running \in [Workers -> {Idle, <<"returned", "none">>}
                              \cup ({"running", "waiting", "pushing"} \X Calculations)]
    /\ \A w \in Workers : running[w][1] \in {"running", "waiting", "pushing"} => order[w] # <<>>
    /\ access \in {"none", "shared", "upgrade", "exclusive"}
    /\ interrupted \in {"no", "nothing", "calculations", "shared", "upgrade", "exclusive",
                        "logger", "handled"}

(* A worker that has passed the isActive_ check finds the satellite's experiment
   when it comes to satellites_.at(), whatever main does between the two and
   although nobody would catch the out_of_range. *)
PushFindsExperiment ==
    \A w \in Workers :
        running[w][1] \in {"waiting", "pushing"} => running[w][2][1] \in experiments

(* Owners release what they delete: whatever the scheduler still knows, in its
   registry, on an order or inside a method, is a living object. *)
SchedulerKnowsTheLiving ==
    /\ ToSet(registered) \subseteq alive
    /\ \A w \in Workers :
          /\ ToSet(order[w]) \subseteq alive
          /\ running[w][1] \in {"running", "waiting", "pushing"} => running[w][2] \in alive

(* Between two logs the registry holds the calculations of the satellites that
   are up, each once, and satellites_ their experiments; insert() never meets a
   key that is taken, which would leave an experiment registered and unowned. *)
UpCalculations == UNION {ChannelCalculations(s) \cup {Experiment(s)} : s \in channels}
NothingLeaks ==
    /\ Calls("insert") => Argument \notin experiments
    /\ todo = <<>> /\ phase = "input" /\ interrupted = "no" =>
          /\ experiments = channels
          /\ alive = UpCalculations
          /\ ToSet(registered) = alive /\ Len(registered) = Cardinality(alive)

(* The circular wait that the locks allow: main waits for a worker's lockOrder
   with exclusive access to satellites_, the worker with its lockOrder for access. *)
CircularWait(w) ==
    /\ Calls("clear") /\ Argument = w /\ access = "exclusive"
    /\ running[w][1] = "waiting"

(* It needs a satellite that sets while another one is calculated: never when
   the group is destroyed, at a gap or at the end, where all are stopped first. *)
CircularWaitOnlyOnSet ==
    \A w \in Workers : CircularWait(w) =>
        /\ phase = "input" /\ running[w][2][1] \in channels \cap fed
        /\ \E s \in channels \ {running[w][2][1]} :
              Contains(todo, <<"deleteExperiment", s>>) /\ Contains(todo, <<"delete", s>>)

(* Once the input has ended main tears everything down and returns. *)
EndingFinishes == phase = "ending" /\ interrupted = "no" ~> phase = "done" \/ interrupted # "no"


(* "IonoZondPostProcessing may read line by line from argument of option
   --file-with-sources or may read stdin" (src/README.md:39): the thread that
   parses always gets back to reading. *)
ReadingGoesOn == todo # <<>> ~> todo = <<>>
=============================================================================
