---------------------------- MODULE SlidingWindow ----------------------------
(***************************************************************************)
(* calculateData of S4Calculation and SigmaPhiCalculation: a value for     *)
(* every run of Window elements without a loss of tracking, from running   *)
(* sums that live across calls.                                            *)
(*                                                                         *)
(* What a call must know of earlier calls it reads off the ring: elements  *)
(* marked isProcessed at the front are the ones in the sums.  mergeData    *)
(* pushes meanwhile, and the owner may stop the calculation.  The ring is  *)
(* the sequence of what has been pushed, with the numbers of elements      *)
(* published and erased, as in MergeData.                                  *)
(*                                                                         *)
(* An element is its serial number and whether its lock time and elevation *)
(* angle are good enough.  The running sums, of the values and of their    *)
(* squares, are how often each element is in them.                         *)
(***************************************************************************)
EXTENDS Integers, Sequences, FiniteSetsExt

CONSTANTS
    Window,        \* S4_COUNTER, SIGMA_PHI_COUNTER
    MaxElements    \* bound on the elements pushed

ASSUME WindowAssumption == Window \in Nat \ {0}
ASSUME MaxElementsAssumption == MaxElements \in Nat

Elements == 1 .. MaxElements

VARIABLES
    isStopThreads,      \* isStopThreads_
    good,               \* per element pushed: is it good enough?
    published, erased,  \* how many elements lock() has published and erase() taken
    processed,          \* elements with isProcessed
    sums,               \* how often each element is in the running sums
    looping,            \* is the calculating thread in its loop?
    first, next,        \* firstProcessedElement, firstNonProcessedElement
    counter,            \* s4Counter, sigmaPhiCounter
    values,             \* <<element, sums>> at each s4Value
    laterValues         \* the same for s4WithoutNoiseValue and newSigmaPhi

ring == <<good, published, erased, processed>>
loop == <<looping, first, next, counter>>
vars == <<isStopThreads, ring, loop, sums, values, laterValues>>

NoSums == [e \in Elements |-> 0]

Init ==
    /\ isStopThreads = FALSE
    /\ good = <<>> /\ published = 0 /\ erased = 0 /\ processed = {}
    /\ looping = FALSE /\ first = 1 /\ next = 1 /\ counter = 0
    /\ sums = NoSums /\ values = {} /\ laterValues = {}

-----------------------------------------------------------------------------
(* stopThreads() of the owner *)
StopThreads ==
    /\ ~isStopThreads /\ isStopThreads' = TRUE
    /\ UNCHANGED <<ring, loop, sums, values, laterValues>>

(* mergeData, in another worker, may still be in its loop when it is stopped. *)
Push(isGood) ==
    /\ Len(good) < MaxElements
    /\ good' = Append(good, isGood)
    /\ UNCHANGED <<isStopThreads, published, erased, processed, loop, sums, values, laterValues>>

(* The elements that are not marked, from the front of what is published. *)
Unmarked == {i \in erased + 1 .. published' : i \notin processed}
FirstUnmarked == IF Unmarked = {} THEN published' + 1 ELSE Min(Unmarked)

CountOfMarked == FirstUnmarked - (erased + 1)

(* lock(), and the search for where the last call stopped.  The flag is looked at
   when a call begins, never in its loop. *)
EnoughData_OneLate == published' - erased > Window + 1
EnoughData == published' - erased > Window

Begin ==
    /\ ~looping /\ ~isStopThreads
    /\ published' = Len(good)
    /\ EnoughData
    /\ looping' = TRUE
    /\ first' = erased + 1 /\ next' = FirstUnmarked /\ counter' = CountOfMarked
    /\ UNCHANGED <<isStopThreads, good, erased, processed, sums, values, laterValues>>

BeginWithLittle ==
    /\ ~looping /\ ~isStopThreads
    /\ published' = Len(good)
    /\ ~EnoughData
    /\ UNCHANGED <<isStopThreads, good, erased, processed, loop, sums, values, laterValues>>

InLoop == looping /\ next <= published

(* Window elements are in the sums: the oldest goes, the next comes. *)
Slide ==
    /\ InLoop /\ good[next] /\ counter = Window
    /\ sums' = [[sums EXCEPT ![first] = @ - 1] EXCEPT ![next] = @ + 1]
    /\ values' = values \union {<<next, sums'>>}
    /\ laterValues' = laterValues \union {<<next, sums'>>}
    /\ processed' = processed \union {next}
    /\ first' = first + 1 /\ next' = next + 1
    /\ UNCHANGED <<isStopThreads, good, published, erased, looping, counter>>

(* Fewer are: with the last that was missing there is a first value, of S4
   only. *)
Grow ==
    /\ InLoop /\ good[next] /\ counter # Window
    /\ sums' = [sums EXCEPT ![next] = @ + 1]
    /\ values' = IF counter + 1 = Window THEN values \union {<<next, sums'>>} ELSE values
    /\ processed' = processed \union {next}
    /\ next' = next + 1 /\ counter' = counter + 1
    /\ UNCHANGED <<isStopThreads, good, published, erased, looping, first, laterValues>>

(* "lost tracking loop" *)
FirstAfterLoss_Kept == first
FirstAfterLoss == next + 1
SumsAfterLoss_Kept == sums
SumsAfterLoss == NoSums

Lose ==
    /\ InLoop /\ ~good[next]
    /\ sums' = SumsAfterLoss
    /\ first' = FirstAfterLoss /\ next' = next + 1 /\ counter' = 0
    /\ UNCHANGED <<isStopThreads, ring, looping, values, laterValues>>

(* What is before the window is erased. *)
ErasedTo_Processed == next - 1
ErasedTo_Inclusive == first
ErasedTo == first - 1

End ==
    /\ looping /\ next > published
    /\ erased' = ErasedTo
    /\ looping' = FALSE
    /\ UNCHANGED <<isStopThreads, good, published, processed, first, next, counter, sums, values,
                   laterValues>>

Calculate == Begin \/ BeginWithLittle \/ Slide \/ Grow \/ Lose \/ End

(* A stopped calculation is not calculated any more. *)
Terminated == isStopThreads /\ ~looping /\ UNCHANGED vars

Next == (\E isGood \in BOOLEAN : Push(isGood)) \/ Calculate \/ StopThreads \/ Terminated

Spec == Init /\ [][Next]_vars

(* ThreadManager!KeepsServing: a registered calculation is calculated again and
   again, until its owner stops and releases it. *)
FairSpec == Spec /\ WF_vars(Calculate)

-----------------------------------------------------------------------------
(***************************************************************************)
(* Properties.                                                             *)
(***************************************************************************)
(* Types; iterators stay within what is published. *)
TypeOK ==
    /\ isStopThreads \in BOOLEAN
    /\ good \in Seq(BOOLEAN) /\ Len(good) <= MaxElements
    /\ published \in 0 .. Len(good) /\ erased \in 0 .. published
    /\ processed \subseteq Elements
    /\ sums \in [Elements -> Int]
    /\ looping \in BOOLEAN /\ counter \in 0 .. Window
    /\ first \in 1 .. published + 1 /\ next \in 1 .. published + 1
    /\ values \subseteq Elements \X [Elements -> Int]
    /\ laterValues \subseteq Elements \X [Elements -> Int]

(* The reference: the Window elements up to n, all of them good. *)
FullWindow(n) == n >= Window /\ \A i \in n - Window + 1 .. n : good[i]
SumsOf(a, b) == [e \in Elements |-> IF a <= e /\ e <= b THEN 1 ELSE 0]
SumsUpTo(n) == SumsOf(n - Window + 1, n)

(* Every value is that of a full window: exactly its elements are in the sums,
   each once, however the data came and however often the thread was called. *)
ValuesAreWindows ==
    \A v \in values \union laterValues : FullWindow(v[1]) /\ v[2] = SumsUpTo(v[1])

(* Every full window among the elements gone over has its value.  S4 without
   noise and sigma phi leave out the first after a loss. *)
EveryWindowHasValue ==
    \A n \in 1 .. next - 1 :
        /\ FullWindow(n) => \E v \in values : v[1] = n
        /\ FullWindow(n) /\ FullWindow(n - 1) <=> \E v \in laterValues : v[1] = n

(* The sums are those of the elements marked at the front of the ring, when a
   call starts over from the marks. *)
SumsFollowMarks ==
    ~looping => sums = [e \in Elements |-> IF e > erased /\ e \in processed THEN 1 ELSE 0]

(* A full window has its value sooner or later, once one more element is there,
   unless the calculation is stopped before. *)
WindowsComeOut ==
    \A n \in Elements :
        (n < Len(good) /\ FullWindow(n)) ~> ((\E v \in values : v[1] = n) \/ isStopThreads)

-----------------------------------------------------------------------------
(***************************************************************************)
(* The inductive invariant behind the safety properties.                   *)
(***************************************************************************)
(* The window is first .. next - 1: marked and good, in the sums, and shorter
   than Window only if it began after a loss. *)
WindowInv ==
    /\ erased < first /\ first <= next
    /\ ~looping => first = erased + 1
    /\ counter = next - first
    /\ \A i \in first .. next - 1 : good[i] /\ i \in processed
    /\ \A i \in processed : i < next
    /\ sums = SumsOf(first, next - 1)
    /\ counter < Window => first = 1 \/ ~good[first - 1]
    /\ \A v \in values \union laterValues : v[1] < next
    /\ ValuesAreWindows /\ EveryWindowHasValue
=============================================================================
