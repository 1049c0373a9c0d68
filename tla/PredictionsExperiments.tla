----------------------- MODULE PredictionsExperiments -----------------------
(***************************************************************************)
(* What PredictionsExperiments does with each element its eight-way join   *)
(* finds (the join itself is MergeData).  The one experiment the user has  *)
(* selected takes the element or not, per channel; it prints a line at     *)
(* once, or one from a window of the elements before, or counts a value in *)
(* a histogram, or hands the element to a worker of its own.               *)
(*                                                                         *)
(* Time is counted in steps of 20 ms, so a difference of 1 is no gap.  Of  *)
(* the learning data an element carries only the labels are told apart:    *)
(* s4 and sigmaPhi of both channels, in fractions of One.  A list of a     *)
(* quantity holds the times of the elements whose value it holds, and a    *)
(* running sum says how often the value of each element is in it; element  *)
(* 0 is what was in the memory before the first assignment.                *)
(***************************************************************************)
EXTENDS Integers, Sequences, FiniteSets

CONSTANTS
    numberOfElementsInExperiment,  \* per windowed experiment, 3000 each
    One,                           \* the value 1.0 of a label
    intervalCount, stepOfCounter,  \* of the histograms of experiments 18 and 19
    Elements,                      \* joined elements: their labels
    Configurations,                \* the satellite and the command line
    MaxTime                        \* bound on the time stamps

Channels == {"L1", "L2"}

(* No label is negative, both are square roots: -1 stands for not-a-number,
   of which, in the default build (Debug, x86-64), every comparison is false
   and whose conversion to size_t is 2^63, beyond every histogram. *)
NaN == -1
Labels == Nat \union {NaN}

LearningData == [s4 : [Channels -> Labels], sigmaPhi : [Channels -> Labels]]

Configuration ==
    [experimentId : Nat, filterSatelliteSystemId : Int, filterSatelliteId : Int,
     filterSatelliteChannelId : Int, satelliteSystemId : Nat, satelliteId : Nat]

ASSUME SizesAssumption == numberOfElementsInExperiment \in [(2 .. 12) \ {5} -> Nat \ {0}]
ASSUME HistogramsAssumption ==
    /\ One \in Nat \ {0}
    /\ intervalCount \in [18 .. 19 -> Nat \ {0}] /\ stepOfCounter \in [18 .. 19 -> Nat \ {0}]
    /\ \A k \in 18 .. 19 : intervalCount[k] * stepOfCounter[k] = One
ASSUME InputsAssumption ==
    /\ Elements \subseteq LearningData /\ Configurations \subseteq Configuration
    /\ MaxTime \in Nat

VARIABLES
    config,         \* the experiment, its filters and the satellite
    matched,        \* joined elements by their time
    channel,        \* experiment<N>L1, experiment<N>L2: the window of each channel
    lines,          \* what was printed per channel
    counters,       \* counters, counters_: the histogram of each channel
    histograms,     \* the histograms printed at the end
    pushed,         \* what the workers of experiments 16 and 17 were given
    merging,        \* is a mergeData call joining?
    isStopThreads,  \* isStopThreads_
    program         \* "running", "deleted" (the object), "terminated" (by an exception)

vars == <<config, matched, channel, lines, counters, histograms, pushed, merging,
          isStopThreads, program>>

-----------------------------------------------------------------------------
(* The windows and their running sums *)

Experiment2SatelliteChannelData == {"data"}
Experiment3SatelliteData == {"tec", "carrierToNoiseL1", "carrierToNoiseL2"}
Experiment6SatelliteData == {"tec"}
Experiment10SatelliteData == {"tec", "carrierToNoise"}

Quantities(id) ==
    CASE id = 2                    -> Experiment2SatelliteChannelData
      [] id \in {3, 4, 8, 9, 14}   -> Experiment3SatelliteData
      [] id \in {6, 7, 12}         -> Experiment6SatelliteData
      [] id \in {10, 11, 13}       -> Experiment10SatelliteData
      [] OTHER                     -> {}

(* sumOf<quantity> and sumOf<quantity>2 *)
Sums(id) == IF id = 2 THEN {} ELSE Quantities(id) \X {1, 2}

FormalSums == [0 .. MaxTime -> Int]
Once(t) == [u \in 0 .. MaxTime |-> IF u = t THEN 1 ELSE 0]
NoSum == [u \in 0 .. MaxTime |-> 0]

NewChannel(id) ==
    [lastLogTime |-> 0, lists |-> [q \in Quantities(id) |-> <<>>],
     sums |-> [s \in Sums(id) |-> Once(0)]]

Clear(w) ==
    [w EXCEPT !.lists = [q \in DOMAIN w.lists |-> <<>>], !.sums = [s \in DOMAIN w.sums |-> NoSum]]

PopFront_SquaresStay(w) ==
    [w EXCEPT !.lists = [q \in DOMAIN w.lists |-> Tail(w.lists[q])],
              !.sums = [s \in DOMAIN w.sums |->
                  IF s[2] = 2 THEN w.sums[s]
                  ELSE [w.sums[s] EXCEPT ![Head(w.lists[s[1]])] = @ - 1]]]

PopFront(w) ==
    [w EXCEPT !.lists = [q \in DOMAIN w.lists |-> Tail(w.lists[q])],
              !.sums = [s \in DOMAIN w.sums |->
                  [w.sums[s] EXCEPT ![Head(w.lists[s[1]])] = @ - 1]]]

AddToSums(w, t) ==
    [w EXCEPT !.sums = [s \in DOMAIN w.sums |-> [w.sums[s] EXCEPT ![t] = @ + 1]]]

SetSums(w, t) == [w EXCEPT !.sums = [s \in DOMAIN w.sums |-> Once(t)]]

PushBack_LastTime(w, t) ==
    [w EXCEPT !.lists = [q \in DOMAIN w.lists |-> Append(w.lists[q], w.lastLogTime)],
              !.lastLogTime = t]

PushBack(w, t) ==
    [w EXCEPT !.lists = [q \in DOMAIN w.lists |-> Append(w.lists[q], t)], !.lastLogTime = t]

Line(w, t) == [time |-> t, lists |-> w.lists, sums |-> w.sums]

(* The body the windowed experiments share, for the list that is asked for
   its size and the size of the window. *)
Windowed(w, t, lead, size) ==
    LET ofThisRun == IF t - w.lastLogTime # 1 THEN Clear(w) ELSE w
        isFull    == Len(ofThisRun.lists[lead]) = size
    IN  IF w.lists[lead] = <<>>
        THEN [kept |-> PushBack(SetSums(w, t), t), out |-> {}]
        ELSE [kept |-> PushBack(AddToSums(IF isFull THEN PopFront(ofThisRun) ELSE ofThisRun, t), t),
              out  |-> IF isFull THEN {Line(ofThisRun, t)} ELSE {}]

Direct(w, t) == [kept |-> w, out |-> {Line(w, t)}]
Nothing(w) == [kept |-> w, out |-> {}]

experiment0Print(w, t) == Direct(w, t)
experiment1WriteData(w, t) == Direct(w, t)
experiment2WriteData(w, t) == Windowed(w, t, "data", numberOfElementsInExperiment[2])
experiment3WriteData(w, t) == Windowed(w, t, "tec", numberOfElementsInExperiment[3])
experiment4WriteData(w, t) == Windowed(w, t, "tec", numberOfElementsInExperiment[4])
experiment5WriteData(w, t) == Direct(w, t)
experiment6WriteData(w, t) == Windowed(w, t, "tec", numberOfElementsInExperiment[6])
experiment7WriteData(w, t) == Windowed(w, t, "tec", numberOfElementsInExperiment[7])
experiment8WriteData(w, t) == Windowed(w, t, "tec", numberOfElementsInExperiment[8])
experiment9WriteData(w, t) == Windowed(w, t, "tec", numberOfElementsInExperiment[9])
experiment10WriteData(w, t) == Windowed(w, t, "tec", numberOfElementsInExperiment[10])
experiment11WriteData(w, t) == Windowed(w, t, "tec", numberOfElementsInExperiment[11])
experiment12WriteData(w, t) == Windowed(w, t, "tec", numberOfElementsInExperiment[12])
(* 13 and 14 use the sizes of others. *)
experiment13WriteData(w, t) == Windowed(w, t, "tec", numberOfElementsInExperiment[11])
experiment14WriteData(w, t) == Windowed(w, t, "tec", numberOfElementsInExperiment[3])
experiment15WriteData(w, t) == Direct(w, t)

WriteData(id, w, t) ==
    CASE id = 0  -> experiment0Print(w, t)
      [] id = 1  -> experiment1WriteData(w, t)
      [] id = 2  -> experiment2WriteData(w, t)
      [] id = 3  -> experiment3WriteData(w, t)
      [] id = 4  -> experiment4WriteData(w, t)
      [] id = 5  -> experiment5WriteData(w, t)
      [] id = 6  -> experiment6WriteData(w, t)
      [] id = 7  -> experiment7WriteData(w, t)
      [] id = 8  -> experiment8WriteData(w, t)
      [] id = 9  -> experiment9WriteData(w, t)
      [] id = 10 -> experiment10WriteData(w, t)
      [] id = 11 -> experiment11WriteData(w, t)
      [] id = 12 -> experiment12WriteData(w, t)
      [] id = 13 -> experiment13WriteData(w, t)
      [] id = 14 -> experiment14WriteData(w, t)
      [] id = 15 -> experiment15WriteData(w, t)
      [] OTHER   -> Nothing(w)

-----------------------------------------------------------------------------
(* Which elements reach which experiment, per channel *)

Selected ==
    /\ config.filterSatelliteSystemId \in {-1, config.satelliteSystemId}
    /\ config.filterSatelliteId \in {-1, config.satelliteId}

ChannelSelected(c) ==
    config.filterSatelliteChannelId \in {-1, IF c = "L1" THEN 1 ELSE 2}

InUnitInterval(v) == v > 0 /\ v < One

FirstChannel(c) == c = "L1" /\ ChannelSelected(c)

(* The second channel is looked at for GLONASS only. *)
OwnChannel(c) == ChannelSelected(c) /\ (c = "L2" => config.satelliteSystemId = 1)

Reaches0(c, e) == Selected /\ FirstChannel(c)
Reaches1(c, e) == FirstChannel(c)
Reaches2(c, e) == ChannelSelected(c)
Reaches3(c, e) == FirstChannel(c) /\ InUnitInterval(e.s4[c])
Reaches4(c, e) == OwnChannel(c) /\ InUnitInterval(e.sigmaPhi[c])
Reaches5(c, e) == OwnChannel(c) /\ InUnitInterval(e.sigmaPhi[c]) /\ InUnitInterval(e.s4[c])
Reaches6(c, e) == FirstChannel(c) /\ InUnitInterval(e.s4[c])
Reaches7(c, e) == OwnChannel(c) /\ InUnitInterval(e.sigmaPhi[c])
Reaches8(c, e) == OwnChannel(c) /\ InUnitInterval(e.s4[c])
Reaches9(c, e) == OwnChannel(c) /\ InUnitInterval(e.sigmaPhi[c])
Reaches10(c, e) == OwnChannel(c) /\ InUnitInterval(e.sigmaPhi[c])
Reaches11(c, e) == OwnChannel(c) /\ InUnitInterval(e.s4[c])
Reaches12_FirstLabel(c, e) == OwnChannel(c) /\ InUnitInterval(e.sigmaPhi["L1"])
Reaches12(c, e) == OwnChannel(c) /\ InUnitInterval(e.sigmaPhi[c])
Reaches13(c, e) == OwnChannel(c) /\ InUnitInterval(e.s4[c])
Reaches14(c, e) == OwnChannel(c) /\ InUnitInterval(e.s4[c])
Reaches15(c, e) == OwnChannel(c) /\ InUnitInterval(e.s4[c])
Reaches16(c, e) == OwnChannel(c)
Reaches17(c, e) == OwnChannel(c)
(* GPS and GLONASS have histograms, other systems have none. *)
Reaches18_Ungated(c, e) == OwnChannel(c) /\ config.satelliteSystemId \in {0, 1}
Reaches18(c, e) ==
    OwnChannel(c) /\ InUnitInterval(e.s4[c]) /\ config.satelliteSystemId \in {0, 1}
(* Neither channel nor value is looked at. *)
Reaches19(c, e) == TRUE

Reaches(id, c, e) ==
    CASE id = 0  -> Reaches0(c, e)
      [] id = 1  -> Reaches1(c, e)
      [] id = 2  -> Reaches2(c, e)
      [] id = 3  -> Reaches3(c, e)
      [] id = 4  -> Reaches4(c, e)
      [] id = 5  -> Reaches5(c, e)
      [] id = 6  -> Reaches6(c, e)
      [] id = 7  -> Reaches7(c, e)
      [] id = 8  -> Reaches8(c, e)
      [] id = 9  -> Reaches9(c, e)
      [] id = 10 -> Reaches10(c, e)
      [] id = 11 -> Reaches11(c, e)
      [] id = 12 -> Reaches12(c, e)
      [] id = 13 -> Reaches13(c, e)
      [] id = 14 -> Reaches14(c, e)
      [] id = 15 -> Reaches15(c, e)
      [] id = 16 -> Reaches16(c, e)
      [] id = 17 -> Reaches17(c, e)
      [] id = 18 -> Reaches18(c, e)
      [] id = 19 -> Reaches19(c, e)
      [] OTHER   -> FALSE

(* Experiment 20 ignores what it is given. *)
Takes(c, e) == Selected /\ Reaches(config.experimentId, c, e)

-----------------------------------------------------------------------------
(* Histograms *)

HasHistogram == config.experimentId \in {18, 19}
CountedValue(c, e) == IF config.experimentId = 18 THEN e.s4[c] ELSE e.sigmaPhi[c]
Interval_Rounded(v) ==
    (v + stepOfCounter[config.experimentId] \div 2) \div stepOfCounter[config.experimentId]
Interval(v) == v \div stepOfCounter[config.experimentId]

(* counters.at(i) throws std::out_of_range, and nothing up to the thread's
   function catches it. *)
Throws(c, e) ==
    HasHistogram /\ Takes(c, e) /\ Interval(CountedValue(c, e)) \notin DOMAIN counters[c]

Counts(c, e) ==
    /\ HasHistogram /\ Takes(c, e) /\ ~Throws(c, e)
    /\ c = "L2" => ~Throws("L1", e)

Count(c, e) ==
    IF Counts(c, e)
    THEN [counters[c] EXCEPT ![Interval(CountedValue(c, e))] = @ + 1]
    ELSE counters[c]

NewCounters(id) ==
    [i \in (IF id \in {18, 19} THEN 0 .. intervalCount[id] - 1 ELSE {}) |-> 0]

(* The destructors print: of experiment 18 the histograms of the satellite's
   own system, of experiment 19 both. *)
Printed ==
    CASE config.experimentId = 18 /\ config.satelliteSystemId = 0 -> {"L1"}
      [] config.experimentId = 18 /\ config.satelliteSystemId = 1 -> Channels
      [] config.experimentId = 19                                 -> Channels
      [] OTHER                                                    -> {}

-----------------------------------------------------------------------------
Init ==
    /\ config \in Configurations
    /\ matched = [t \in {} |-> 0]
    /\ channel = [c \in Channels |-> NewChannel(config.experimentId)]
    /\ lines = [c \in Channels |-> {}]
    /\ counters = [c \in Channels |-> NewCounters(config.experimentId)]
    /\ histograms = [c \in {} |-> 0]
    /\ pushed = [c \in Channels |-> <<>>]
    /\ merging = FALSE /\ isStopThreads = FALSE /\ program = "running"

(* mergeData looks at isStopThreads_ once, before it joins. *)
BeginMerge ==
    /\ program = "running" /\ ~merging /\ ~isStopThreads
    /\ merging' = TRUE
    /\ UNCHANGED <<config, matched, channel, lines, counters, histograms, pushed,
                   isStopThreads, program>>

(* An element with time t is found in all eight rings. *)
Match(t, e) ==
    /\ program = "running" /\ merging
    /\ \A u \in DOMAIN matched : u < t
    /\ matched' = [u \in DOMAIN matched \union {t} |-> IF u = t THEN e ELSE matched[u]]
    /\ LET result(c) == IF Takes(c, e) THEN WriteData(config.experimentId, channel[c], t)
                                       ELSE Nothing(channel[c])
       IN  /\ channel' = [c \in Channels |-> result(c).kept]
           /\ lines' = [c \in Channels |-> lines[c] \union result(c).out]
    /\ pushed' = [c \in Channels |->
           IF config.experimentId \in {16, 17} /\ Takes(c, e) /\ ~isStopThreads
           THEN Append(pushed[c], t) ELSE pushed[c]]
    /\ counters' = [c \in Channels |-> Count(c, e)]
    /\ program' = IF \E c \in Channels : Throws(c, e) THEN "terminated" ELSE program
    /\ UNCHANGED <<config, histograms, merging, isStopThreads>>

EndMerge ==
    /\ program = "running" /\ merging
    /\ merging' = FALSE
    /\ UNCHANGED <<config, matched, channel, lines, counters, histograms, pushed,
                   isStopThreads, program>>

(* stopThreads, called while a worker may be in mergeData ... *)
StopThreads ==
    /\ program = "running" /\ ~isStopThreads
    /\ isStopThreads' = TRUE
    /\ UNCHANGED <<config, matched, channel, lines, counters, histograms, pushed, merging,
                   program>>

(* ... and the destructor, once releaseCalculation has waited for it. *)
Delete ==
    /\ program = "running" /\ isStopThreads /\ ~merging
    /\ histograms' = [c \in Printed |-> counters[c]]
    /\ program' = "deleted"
    /\ UNCHANGED <<config, matched, channel, lines, counters, pushed, merging, isStopThreads>>

Next ==
    \/ BeginMerge
    \/ \E t \in 1 .. MaxTime, e \in Elements : Match(t, e)
    \/ EndMerge
    \/ StopThreads
    \/ Delete

Spec == Init /\ [][Next]_vars

-----------------------------------------------------------------------------
(* Properties *)

WindowOf(id) ==
    CASE id \in (2 .. 12) \ {5} -> numberOfElementsInExperiment[id]
      [] id = 13                -> numberOfElementsInExperiment[11]
      [] id = 14                -> numberOfElementsInExperiment[3]
      [] OTHER                  -> 0

Channel ==
    [lastLogTime : 0 .. MaxTime,
     lists : [Quantities(config.experimentId) -> Seq(1 .. MaxTime)],
     sums : [Sums(config.experimentId) -> FormalSums]]

(* Every variable keeps its type: lists hold times of joined elements, sums
   are integer combinations of them. *)
TypeOK ==
    /\ config \in Configurations
    /\ DOMAIN matched \subseteq 1 .. MaxTime
    /\ \A t \in DOMAIN matched : matched[t] \in Elements
    /\ channel \in [Channels -> Channel]
    /\ \A c \in Channels : \A l \in lines[c] : l.time \in DOMAIN matched
    /\ \A c \in Channels : counters[c] \in [DOMAIN counters[c] -> Nat]
    /\ pushed \in [Channels -> Seq(1 .. MaxTime)]
    /\ merging \in BOOLEAN /\ isStopThreads \in BOOLEAN
    /\ program \in {"running", "deleted", "terminated"}

(* Which labels an experiment needs in (0, 1), and on which channels it
   listens, as a table of the experiments. *)
NeedsS4(id) == id \in {3, 5, 6, 8, 11, 13, 14, 15, 18}
NeedsSigmaPhi(id) == id \in {4, 5, 7, 9, 10, 12}
Listens(id, c) ==
    \/ c = "L1"
    \/ id = 2
    \/ id \notin {0, 1, 3, 6} /\ config.satelliteSystemId = 1

Usable(c, e) ==
    LET id == config.experimentId IN
    /\ Selected /\ ChannelSelected(c) /\ Listens(id, c)
    /\ NeedsS4(id) => e.s4[c] \in 1 .. One - 1
    /\ NeedsSigmaPhi(id) => e.sigmaPhi[c] \in 1 .. One - 1

UsableAt(c, t) == t \in DOMAIN matched /\ Usable(c, matched[t])

(* A line is printed for an element exactly if it and the window before it,
   without a gap of a single 20 ms step, are usable in the experiment, and
   the line's features are those of that window: across gaps, unusable
   elements, and calls. *)
LinesAreTheWindows ==
    LET size == WindowOf(config.experimentId) IN
    config.experimentId \in 0 .. 15 =>
        \A c \in Channels :
            /\ {l.time : l \in lines[c]} =
                   {t \in DOMAIN matched : \A u \in t - size .. t : UsableAt(c, u)}
            /\ \A l \in lines[c] : \A q \in Quantities(config.experimentId) :
                   l.lists[q] = [i \in 1 .. size |-> l.time - size + i - 1]

(* The sums a line's deviations are computed from contain the values of the
   window, each once, and nothing else: nothing of an earlier run, of what
   was popped, or of uninitialised memory, in sums and sums of squares. *)
SumsAreOfTheWindow ==
    LET size == WindowOf(config.experimentId) IN
    \A c \in Channels : \A l \in lines[c] : \A s \in Sums(config.experimentId) :
        l.sums[s] = [u \in 0 .. MaxTime |-> IF u \in l.time - size .. l.time - 1 THEN 1 ELSE 0]

(* The histograms printed by the destructors count every joined value that
   is theirs, in the interval it lies in. *)
HistogramsAreComplete ==
    program = "deleted" /\ HasHistogram =>
        \A c \in DOMAIN histograms : \A i \in DOMAIN histograms[c] :
            histograms[c][i] = Cardinality({t \in DOMAIN matched :
                /\ config.experimentId = 18 => UsableAt(c, t)
                /\ Selected
                /\ CountedValue(c, matched[t]) >= i * stepOfCounter[config.experimentId]
                /\ CountedValue(c, matched[t]) < (i + 1) * stepOfCounter[config.experimentId]})

(* An exception ends the program in experiment 19 only, whose values are
   not looked at before they become an index. *)
OnlySigmaPhiTerminates == program = "terminated" => config.experimentId = 19
=============================================================================
