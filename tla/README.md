# iono_zond_post_processing in TLA+

The repository is a C++14 program that post-processes the binary logs of a
Novatel GPStation-6 receiver.  Its main thread parses logs and pushes raw
measurements of each GNSS satellite into ring buffers; a pool of four worker
threads joins those measurements on equal time stamps, computes scintillation
indices (S4, sigma phi) and TEC over sliding windows, and hands the results to
"experiments" that print them.  This directory holds TLA+ modules of that
machinery, the TLC configurations that check them on small instances, and
TLAPS proofs for every value of the constants.

Run TLC as `tlc -config MCMergeData.cfg MergeData`, the prover as
`tlapm MergeDataProofs.tla`.  `PROJECT.json` lists runs, mutants, the source
lines behind every definition, findings, hazards and theorems.

## 1. Inventory

### Threads

| thread | code | what it does |
|---|---|---|
| main | `main.cpp`, `LogParserThread.cpp` | reads, parses, creates and deletes satellites, registers and releases calculations, pushes measurements |
| four workers | `ThreadManager.cpp:183-278` | even ones `mergeData` then `calculateData`, odd ones the other way round |
| order maker | `ThreadManager.cpp:280-313` | every 100 ms refills empty worker orders from the registry |
| timer | `ThreadManager.cpp:315-340` | every 5 s decides whether more input is accepted |
| signal handler | `main.cpp:107-122` | on SIGINT and SIGTERM, on top of whatever main was doing |

### Components

**ThreadManager.** State: `calculations_` and its shadow `sizeOfCalculations_`,
per worker an `order` with its `lockOrder` (both local variables of the worker,
known to others by pointers in `processMap_`), the flags `isStopThreads_` and
`isPaused_`.  Operations: start, stop, addNewCalculation, releaseCalculation,
releaseAll.  Hard: owners delete calculations as soon as a release returns, so
a release must wait for every worker; it does so with one lock held and the
workers' locks taken one by one, against a maker that refills orders.
Correct if no worker calls a deleted calculation, registered ones keep being
served, and every operation returns.

**GnssDataMeasurements2.** A ring of four pointers and two counters, one
pushing thread and one reader: push_back, lock (publishes what was pushed),
begin/end/++, erase, unlock.  Overrun ends the program.  Correct if a reader
that is not lapped gets every element once and in order, and erases exactly
what it has read.

**Satellites, channels, SatelliteGroup.** Objects that own calculations; created when
a satellite rises over the horizon, fed while it is above `MIN_ELEVATION_ANGLE`,
destroyed when it sets, at a gap in the recording and at the end.  GPS and GLONASS
differ in the order of creation.  Correct if nothing is deleted that the scheduler
knows, nothing stays registered without an owner, and tearing down never waits for
itself.

**SvmPredictionData.** The map from satellites to experiments under one upgrade
mutex; workers push results through `at()`, main inserts and erases.

**S4Calculation, SigmaPhiCalculation, DoubleChannelCalculations.** Rings per
kind of measurement, a `mergeData` that joins them into one ring, a
`calculateData` that walks the result.  Correct if no match is lost or given
twice and every value is that of the window it claims to be.

**PredictionsExperiments.** The same join over eight rings, and what the one
experiment that the user has selected makes of each joined element, per
channel: a line at once (0, 1, 5, 15), a line with deviations over the window of
3000 elements before (2 to 4, 6 to 14), a count in a histogram (18, 19), or a push to
a worker with a ring of its own (16, 17).  Correct if a line is printed for exactly
the elements that follow a full window, with that window's features, and every
value is counted where it belongs.

**LogParserThread.** Framing of Novatel logs in a raw ring of four reads, with a
tail kept for the next read, the CRC check, the dispatch by message id and a new
group of satellites at each gap.  Correct if no log that it was shown is lost or taken for
another wherever the reads cut the stream, and a group sees a recording without gaps.

**GnssLogTime.** Every time that is compared at 20 ms goes through `getLogTime`, a
conversion by way of a double.

**main.** Reads stdin or archives, waits while input is not accepted, tears down.

The tables of gnss_functions, Logger (its mutex apart), GlobalConfiguration, crc32,
number formatting, and code commented out in this build (PlotData,
S4IrregulationsSearch, PashintsevCalculation) keep no state that other parts
depend on.

### How they interact

main parses a log → SatelliteGroup → Satellite → channel → calculation, which
pushes into a ring (producer side, no lock).  A worker takes a calculation from
its order, holding `lockOrder`; `mergeData` and `calculateData` each try a
lock of their own, lock rings, and push results through SvmPredictionData
(shared lock) into the rings of PredictionsExperiments, which is itself a
registered calculation.  main releases: own flag, `releaseCalculation`
(`lockCalcutaions_`, then each `lockOrder`), delete.

### What is hard

Interleavings of release, refill and run; two mutex families taken in opposite
orders by main and a worker; a signal handler that takes the locks main may
hold; rings that are lapped; joins whose inputs arrive at different times;
sums that live across calls; boundaries (empty equals full, `bufferEnd_`, a
window of exactly 3000).  `PROJECT.json` "hazards" has each at its line, with the
properties that cover it or the reason why none does yet.

## 2. Modules

| module | code | proved in |
|---|---|---|
| `CalculationRegistry` | what ThreadManager promises owners (abstract) | `ThreadManagerProofs` (refinement) |
| `ThreadManager` | `ThreadManager.cpp`, `main.cpp` shutdown and handler | `ThreadManagerProofs`, `ThreadManagerOrderProofs` |
| `GnssRing` | `GnssDataMeasurements2.hpp` | `GnssRingProofs` |
| `SatelliteLifecycle` | `satellite/*`, `SvmPredictionData.cpp`, `main.cpp` | `SatelliteLifecycleProofs` |
| `MergeData` | `mergeData` of the three calculations and of PredictionsExperiments | `MergeDataProofs` |
| `SlidingWindow` | `calculateData` and `stopThreads` of S4Calculation and SigmaPhiCalculation | `SlidingWindowProofs` |
| `PredictionsExperiments`, `MCPredictionsExperiments` | `PredictionsExperiments.cpp` and `.hpp`, `IonoZondExperiment19.cpp` | `PredictionsExperimentsProofs` |
| `IonoZondExperiment16` (over `GnssRing`) | `IonoZondExperiment16.cpp`, and 17, its copy | model-checked only |
| `LogParserThread`, `MCLogParserThread` | `LogParserThread.cpp`, the reading loops of `main.cpp`, the accept status of `ThreadManager.cpp` | `LogParserThreadProofs` |
| `GnssLogTime` | `GnssLogTime.cpp`, `getLogTime` | model-checked only |

### ThreadManager

Each thread has a program counter (`pcMain`, `pcMaker`, `pcWorker`) whose values
are the places between two steps at which another thread can get in: lock
acquisitions, the loop over `processMap_`, the calls of the two methods.
`order`, `lockOrder`, `calculations`, `sizeOfCalculations`, `isPaused`,
`isStopThreads` are the variables of the code; `life`, `stopped` and `busy` are
the state of the calculations themselves (deleted or not, own stop flag, the
two method locks).  Addresses in `Calcs` are reused after a delete.
The signal handler is a second frame on main (`handler`).

A worker that has returned took `tCalc` with it (`Dangling`).  What the code does
through such a pointer is undefined; `MainFindsLiveOrders` shows that main never
gets there without a signal.  The maker does, when stop() comes in the middle of its
pass (line 282 says all elements of the map should be there), and so does a
release that a signal handler interrupted: a hazard without a property.

### GnssRing

Pointers are positions `0..Capacity`, `Capacity` being the slot at
`bufferEnd_`, which exists and holds zero.  Elements are their serial numbers,
so loss, repetition and reordering are visible.  The reader is any of the loops
of the calculations: lock, read on, then erase up to the iterator
(`EraseRead`), or on a ring over 60 % everything (`EraseInconsistent`), or nothing,
then unlock.

### SatelliteLifecycle

main is a stack of calls, `todo`; a call that calls others is replaced by them, so
the order of calls in the code is the order on the stack.  A signal handler has a
stack of its own; what it interrupted waits in `suspended` until it returns.  `access` is what
main holds of the upgrade mutex.  Workers hold their `lockOrder` while `running[w]` is not idle.  Of the scheduler only
orders and locks are left; a refill may hand any worker the registry, which
allows more than the code does.  Main's upgrade lock taken over its own shared
lock is modelled as blocked one step early, which loses no interleaving of others.

Notes on what the model says of the code: GLONASS registers its calculations
before its experiment exists, harmless only because the rings are fed after main
enables the satellite (`PushFindsExperiment`).  An elevation angle whose handler was
interrupted by a signal finds its experiment gone and throws; the parser
catches (`LogParserThread.cpp:177`).  The handler logs before it locks
(`SvmPredictionData.cpp:203`), so a main that it interrupted inside `writeMessage` holds
the mutex it waits for (`Logger.cpp:61`): `Held` has the logger beside the two locks.

An experiment is one calculation here.  The workers of experiments 16 and 17 register and
release themselves (`IonoZondExperiment16.cpp:107` and `136`), which adds calculations
with the same owner and the same calls at the same places; they are not represented.

### MergeData

`NumStreams` rings, each a sequence with the number of elements published and
erased, fed by any thread between any two steps.  Time stamps in a ring
increase strictly, as the receiver's logs do (an elevation angle is pushed 50
times, 20 ms apart).  A step of the loop is one comparison result, with
`DiffersFirst(k)` naming the first ring that disagrees with ring 1: this is
the chain of `if`s for any number of rings.  The functions lock in different orders:
any order is allowed.  Only PredictionsExperiments leaves its loop on stop;
the model allows it to all.  Rings do not overflow here: `HasRoom`, which is
the subject of GnssRing.

### SlidingWindow

An element is a serial number and whether lock time and elevation are good. The
running sums are the multiset of elements in them, so "the value is right" means: each
of the last `Window` elements once and nothing else.  `values` are the S4 values,
`laterValues` S4 without noise and sigma phi, which skip the first window after a
loss.  One iteration of the loop is one step.  `StopThreads` is the owner's: a call that
has begun goes on to its end, none begins after it.  The arithmetic on doubles, with its
rounding, is not modelled.

### PredictionsExperiments

The join of MergeData, seen from its matches: `Match(t, e)` is one of them, with its
labels, and runs the selected experiment whole.  Time is in steps of 20 ms.  A list is
the sequence of the times whose values it holds; a running sum says for each time how
often its value is in it, with time 0 for what was in the memory of a sum that no
constructor sets.  So `SumsAreOfTheWindow` tells apart a value that is missing,
doubled, left over or never initialised.  The fifteen bodies are one in the
code too, copied with other lists, sizes and filters; `Windowed` is that body, and
`Reaches0` to `Reaches19` are the fifteen copies' filters with their differences
(2 asks for no label, the second channel of 3 and 6 is never written, 13 and 14
use windows of 11 and 3, 19 asks for neither channel nor label).  Labels are
never negative, but may be 0, not a number or 1 and more.

Not-a-number behaves as in the default build, Debug.  The release build has
`-Ofast` (`CMakeLists.txt:57`), under which nothing can be said of it.

### IonoZondExperiment16

The worker of experiment 16 is the reader of a GnssRing; `GnssRing`'s actions are
its steps, with `seen` as the line being written.  The actions add the guard of the
while loop, the early break after all values but one, and the position to erase up to.

### LogParserThread

The stream is a sequence of cells, some of which look like headers; a header claims a
length and has a time, and is intact or not.  The raw ring is the sequence of the
positions where its elements end, plus its pointers as far as `begin() != end()`
depends on them.  One step is one turn of the loop over the bytes.  `HandlerThrows` is
an exception out of a handler, after the log was handed over: nothing is erased, the
next read parses again.  `TimerStores` and `TimerResets` are the two halves of the
timer's handler.  `CutsDoNotMatter` compares what was handed over with a scan of the
uncut stream (`LooksAt`), a recursive function of its own.  Reads that are too short
together for a header stay in the ring; the one that fills it, a fourth, makes `begin()`
equal to `end()` and is not looked at whatever its length (`Shown`), and the fifth push
ends the program: the logs in that read are lost, which the property leaves out and
`StopsOnlyWhenStuck` says of the end.  After an exception no log is lost that has left
the ring, but what is still in it waits for the next read.  The stream is a receiver's:
a length is more than a header's (lines 78-81 add header and CRC to it), and two logs
that arrived as they were sent do not overlap; damaged ones claim what they like.  Simplified: a signal's
`isStopAll` only ends the reading and is left to SatelliteLifecycle, as are the sleeps
and the two teardown steps of a new group; memory never runs out when the tail is
saved; the CRC tells every damaged log.

### GnssLogTime

A binary64 number is its whole part and the rest in units of its last place, so
each rounding of `getLogTime` is there: the sum, the leap seconds, the product by
1000, and the cut to an integer.  The model gives what the C++ expression gives,
for any second from 1997 to 2048 and any step of 20 ms.

## 3. Runs

| run | instance | shows |
|---|---|---|
| `scheduler` | 2 workers, 2 addresses, a signal at any step of main | memory safety, completeness of releases, orders follow the registry, mutual exclusion per method, refinement of CalculationRegistry; if no method waits for ever, a handler is stuck only if main held a lockOrder |
| `scheduler_live` | the same without signals | main never visits a returned worker; stop() returns; if no method waits for ever, operations return and registered calculations are served |
| `ring` | 4 slots, 12 pushes | order, completeness, exact erasure |
| `ring_overwrite` (violation) | | push_back over elements published and not erased |
| `lifecycle` | a GPS and a GLONASS satellite, 1 worker, one channel calculation each, a signal at any step | objects outlive their use, no leaks, where the circular wait can be; the handler returns unless it interrupted main with a lock or inside a write to the log; the end always finishes |
| `lifecycle_set` (violation) | | main and a worker wait for each other when a satellite sets |
| `merge` | 3 rings of 3 elements, time stamps 1 to 3 in every way | no match lost, doubled, out of order or left waiting |
| `window` | window 3, every sequence of up to 8 elements | each value is a full window's, each full window has its value, and comes to it unless the calculation is stopped before |
| `experiments` | windows of 2, 5 time stamps, 3 kinds of elements, experiments 0 to 20 on 3 systems with filters | which elements are printed, from which window and sums; what is counted; what ends the program |
| `experiment16` (violation) | ring of 8, vector of 3, 7 pushes | the second line repeats the values of the first |
| `parser` | header 3, reads of up to 4, ring of 4, 98 streams, one exception, one output | only what a scan of the uncut stream finds is handed over and nothing that was shown is lost, groups have no gaps, the ring stops the program only when stuck, all input is read |
| `log_time` (violation) | a second of logs in GPS weeks 1700, 1785, 1853 | successive UTC times 19 ms apart |

Why these bounds are enough to be interesting.  *Scheduler*: two workers are one of
each parity, so both orders of the methods meet on one calculation; two addresses let
one be reused while the other is on an order.  *Ring*: 12 pushes go around four slots
three times, so every pointer wraps, with full, empty, lapped and exactly full read
parts.  *Lifecycle*: one satellite of each kind is the least at which one sets while
the other is calculated, and the least that has both creation orders; the worker is in
at most one of them, and what several workers add to a release is the subject of the
scheduler's runs.  *Merge*: three elements of three make 100 %, two 66 %, so both
sides of the 60 % rule occur; three rings have a first, a middle and a last
comparison. *Window*: eight elements give two full windows with a loss before, between
or after them, cut into calls anywhere.  *Experiments*: with windows of two, five time
stamps hold a window that fills, slides, is broken by a gap or an unusable element,
and fills again; the three kinds of elements put a label at 0, inside (0, 1), at 1 and
at not-a-number on either channel.  *Parser*: reads of 1 to 4 cells around a header of
3 give reads shorter than a header, headers cut by a read, logs cut by a read, several
logs in one; the streams are two pieces of seven kinds each (a RANGE log of time 0, 1
or 2, another log, a log that lost cells, one with a damaged length, noise) and a
sound RANGE log after them, of time 2 or 3; so a damaged length runs over sound logs,
and gaps come with and without damage.  *Experiment 16*: 7 pushes stay below the
capacity of 8, so the second line's fault has no other cause.

Deadlock is checked except where the program really may stop: with a handler that
joins under a held lock, in the lifecycle with its circular wait, at the end of the
input (`parser`, `log_time`, `experiment16`), and where an experiment is deleted or
ends the program (`experiments`).

The inductive invariants (`SchedulerInv`, `RingInv`, `JoinInv`, `WindowInv` and those
of the lifecycle, the experiments and the parser) were checked by TLC before they were proved; now that
they are proved no run repeats them.

### Fairness

* `ThreadManager!FairSpec`: weak fairness of each thread, which is what the operating
  system gives.  main's calls are not fair, only an operation once begun.  Nothing is
  assumed of a worker inside a method (`MayWait`): there it may wait for `satellites_` or
  the logger, which main may hold around an operation, or held when a signal came.  So
  `OperationReturns`, `KeepsServing` and `SignalStopsThreads` have the premise
  `BodiesReturn`, that no worker stays inside a method for ever.  The scheduler cannot see
  to that, and `lifecycle_set` is a case where it fails.  Only at the end of main(), where
  nobody holds those locks, do methods return by fairness, and `StopReturns` has no
  premise.  `LiveSpec`,
  for `KeepsServing`, adds that a maker coming back every 100 ms is not turned away
  for ever by a worker that holds its lock for one look at an empty order and then
  sleeps 100 ms (both sleeps are in the code).
* `SatelliteLifecycle!FairSpec`: weak for workers; strong for main's steps, since what
  it waits for cannot be taken from it for ever: `isPaused_` keeps workers and maker
  off the scheduler's locks, and while main is not parsing nothing new is pushed, so
  workers run out of results to push under the shared lock; strong for leaving a
  method, since rings are finite and so is every loop over one.  Methods write to the log:
  of workers nothing is assumed once a signal has interrupted main inside the logger.
* `MergeData` and `SlidingWindow`: weak fairness of the calculating thread, which is
  `ThreadManager!KeepsServing`: as long as the calculation is registered and not stopped.
  Once `isStopThreads_` is set no call begins, and `MatchesComeOut` and `WindowsComeOut`
  say nothing any more.  Pushes and stops are never fair.
* `LogParserThread!FairSpec`: weak for main's reading and parsing and for each half of
  the timer's handler, which runs every 5 s.  Workers that print are not fair; what
  they can print is finite, since they compute from what has been read (`MaxOutputs`).
  Fair parsing takes it that the handler of a log returns; a handler that sets a satellite
  may not (`lifecycle_set`), so `InputIsRead` is about the parser alone.

### Findings

* `ring_overwrite`: "Ring is full. Stop processing" (`GnssDataMeasurements2.hpp:146`)
  does not count what is published and not erased.
* `lifecycle_set`: `closeSatellite` waits for every worker with exclusive access to
  the satellites (`SvmPredictionData.cpp:258-266`); a worker that calculates another
  satellite waits for access with its lock held.
* `experiment16`: "predicting S4 from previous 2999 values"
  (`SvmPredictionData.hpp:107`).  `sizeOfMlVector / deviderCoefficient` is 1, the
  position to erase up to never leaves `begin()`, and `erase(begin(), begin())` takes
  the whole ring.  The counterexample also shows that `beginRead_` may rest at
  `bufferEnd_`, where there is no element: the slot there is read as a zero.
* `log_time`: "return UTC time in ptime variable" (`GnssLogTime.cpp:79`).
  `getLogTime` cuts a double off to milliseconds; from January to November 2014 every
  sixth pair of successive logs comes out 19 or 21 ms apart, the parser recreates the
  group of satellites each time (eleven seconds of sleep), and windows of experiments
  never fill.  The other modules count time in exact steps: they speak of other years.

## 4. Proofs

What the theorems assume: `NumThreads` is a natural number and `NoCalc` no address;
`Capacity`, `NumStreams`, `Window` are positive; bounds on pushes, times and elements
are any natural numbers; the raw ring has more than one element (it has four); of the experiments, that the intervals of a histogram make up
(0, 1); of the parser, that streams are sequences of headers and other cells, of any
length, whose logs are longer than their headers and whose intact logs do not overlap;
of the lifecycle, that satellites, kinds of calculations and workers are finite sets and
`"experiment"` is no kind of a channel.  These are named ASSUMEs that TLC evaluates.

**ThreadManagerProofs.**  `SchedulerInv` has four parts.  `LockInv` ties each lock to
the steps that hold it.  `OpInv` says what main has done at each step of an
operation, `RegInv` that the registry holds live calculations, each once.
`QueueInv`, the heart, says what orders may hold while main clears them: those
already visited only what is registered, those not yet visited also the one
being released.  `BodyInv` ties `busy` to who is inside which method, and is what
reused addresses need.  From it: `MemorySafety`, `ReleasesComplete`, `SizesAgree`,
`MethodsExclude`, all with signals; and `Refinement`, step by step, that
ThreadManager implements CalculationRegistry.

**ThreadManagerOrderProofs.**  `OrderInv` says that an order is a segment of the registry
while main does not clear, and empty where main has cleared; with `SchedulerInv` it gives
`OrdersFollow`.  `QuietInv` says that without a signal only the end of main() stops
threads, and gives `LiveOrdersFound`, under the assumption `~Signals`.

**GnssRingProofs.**  Neither the order of what is read nor the counts are inductive
alone: `RingInv` adds where the `Capacity` newest elements are (`NewestIntact`), the
distance between each pair of pointers modulo the ring (`PartsInv`) and where the
iterator stands relative to what was read (`ReaderInv`).  Then `OrderKept`, `AllRead`,
`ErasesRead`, the last an action property.

**MergeDataProofs.**  `NoMatchLost` is not inductive: an element about to be erased
must be known not to have a partner coming.  `Settled` says it is joined, discarded,
or that some ring already has a later element but not this one.  `JoinInv`: rings are
sorted, all that is erased or passed by an iterator is settled, and what the next
erase will leave is later than all joined.  `SettledStays` shows that pushes cannot
unsettle.  From it `OrderOfJoined`, `NothingLost`, `NothingLeft`, for three rings,
eight or any number.

**SlidingWindowProofs.**  `WindowInv`: the elements between the two iterators are
good, marked and exactly those in the sums, and if they are fewer than `Window` then
the one before them is bad (or there is none).  `SearchFindsNext` shows that a call
which starts from the marks finds the iterator and counter of the call before.  From
it `ValueOfWindow`, `WindowHasValue`, `SumsOfMarked`, for every window size, 3000
included.

**SatelliteLifecycleProofs.**  Everything rests on the stack of calls main has still to
make, so `IInv` describes that stack first.  `Below` says which call may be below which,
`Released` that whatever takes the lock of satellites_ has a call below it that gives it
up; both are closed under the replacement of a call by those it makes, which is proved
once for every list the module builds.  The other parts speak of the set `Due` of calls
that main has to make apart from the handler's, so that they hold with a handler on top
as without one: each call that is due stands for what is still missing.  `OwnersOK`
says that what lives has an owner or is about to get one, `CreatingOK` and
`DestroyingOK` how far a creation or a destruction has come, `ReadyOK` that a satellite
whose calculations the scheduler may run has an experiment, `LocksOK` what main may still
do with satellites_ locked, `PhaseOK` that at the end the channels' calculations are
gone before satellites_ is locked.  `HandlerOK` says that a handler past join() finds
all workers returned, which is why it may delete experiments whose satellites live on.
From it `PushTheorem`, `LeakTheorem`, `CircularWaitTheorem` and, with `OrdersLive`,
`LivingTheorem`, for any number of satellites and workers, with signals or without.
`LocksTheorem` says what no run asks in so many words: main waits for a lock only if a
worker has it, gives up what it holds and nothing else, and is back at the input with
none, a signal that finds it holding one, or writing to the log, excepted; which is the safety half of
`HandlerReturns` and `EndingFinishes`.  Its invariant `LockInv` is a path through the
states of the two locks, one step for each call on the stack (`Leads`).  The stack
is built by `SetToSeq` and `FlattenSeq` from sets; what they return is a lemma,
by the least index at which it would be wrong, in place of an induction.

**PredictionsExperimentsProofs.**  `LinesAreTheWindows` says nothing of the window
that is being filled: `WindowInv` says that a channel's lists hold the times right
before the last usable one, as far back as there is neither a gap nor an unusable
element and at most a window's length, and that the sums are those of the same times,
or of nothing read yet. `LinesInv` keeps what was printed true as elements are added,
since an element never changes the window of an earlier one; `CountersInv` gives each
histogram the range its index is compared with, `HistogramInv` each counter the number
of the elements joined so far that belong to its interval: a value has one interval,
the one its index is computed for.  From them `LinesOfWindows`, `SumsOfWindows`,
`HistogramsTheorem` and `ExperimentTermination`, for every size of windows and
histograms.

**LogParserThreadProofs.**  `HeldInv` relates what is held to what was read,
`StuckInv` the pointers of the raw ring to the number of elements in it (so that
`begin() == end()` hides data only in a full ring, whose last element may then be of any
length) and the elements
longer than a header to the exceptions that left them.  `GapInv` says that the last
RANGE log of the present group has the time that the next one is compared with, or
that a damaged log lies between. From them `StoppedWhenStuck` and `GroupsWithoutGaps`,
for every stream, any cuts and any number of exceptions.  `ScanInv` says that the ring
begins, and the parser stands, where the scan of the uncut stream looks, that what that
scan has found up to there was handed over, and that nothing was but what the scan finds in
what the parser was shown (`Expected`); without exceptions also that what is held between
two reads, as far as it was shown, does not begin with a whole log.  `RawInv` says that the
parser works only on a ring it was shown whole; `RepeatInv` that an exception sends it back at
most once over each log.  `LooksAt` is recursive, but two facts about it are enough, and
its defining equation gives both: what follows a place looked at is looked at, and a log
that the scan does not look at lies under the claim of one that it does (else there were a
first place of which this is wrong).  From these `CutsTheorem`, for every stream.

Only model-checked: liveness, which is out of the prover's reach, as are ENABLED and
induction over data, so `SignalStopsThreads`, `OperationReturns`, `StopReturns`,
`KeepsServing`, `MatchesComeOut`, `WindowsComeOut`, `InputIsRead`, `HandlerReturns` and
`EndingFinishes`; and the four counterexamples, with the modules IonoZondExperiment16 and
GnssLogTime, which are there for theirs.  Every other property of a passing run is a
theorem.  No module uses RECURSIVE operators.

## 5. Not modelled, and the plan

Built so far, in this order: scheduler with its abstract registry and proofs; ring
with proofs; satellites with the locks they share with the scheduler, with proofs; join with
proofs; window with proofs; experiments with proofs; the worker of experiment 16 over
the ring; parser with proofs; log times.  What a next step could add:

1. A composition of MergeData with GnssRing: the join over real rings, with
   the phantom element at `bufferEnd_`, and that it implements the join over
   sequences while no ring is lapped.  For that, an abstract queue that both speak of, and the proof that
   GnssRing implements it.
2. The eight-way join's inputs together: that S4, S4 without noise and sigma phi windows
   start apart, and still meet.
3. The dispatch of log bodies to satellites and channels (`SatelliteGroup::write...`,
   `getChannelType`), whose asserts end a Debug build for signal types they do not know.

Not planned: archive unpacking, directories and child processes (pure I/O); the tables
of satellite numbers and the conversion of coordinates (pure functions); the logger
(its text; its mutex is never held while waiting for another lock, so it matters only
to a signal handler that writes to the log on top of a main that was writing to it, and
there `SatelliteLifecycle` has it; the locks inside the allocator and the streams, which a
handler takes in the same way, are left out); number formatting (third-party
code); arithmetic on doubles other than times, with the rounding of running sums,
whose variance may come out negative; the start-up race on `processMap_`, a data race
inside `std::map` that no small model of it would say anything about; code that is
commented out in this build (PlotData, S4IrregulationsSearch, PashintsevCalculation,
the body of experiment 20).
