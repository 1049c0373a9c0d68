------------------------------ MODULE MergeData ------------------------------
(***************************************************************************)
(* mergeData: the join of several rings of measurements on equal time      *)
(* stamps.  S4Calculation, SigmaPhiCalculation and                         *)
(* DoubleChannelCalculations join three rings, PredictionsExperiments      *)
(* joins eight, all by the same comparisons: ring 1 with 2, then 1 with 3, *)
(* and so on.                                                              *)
(*                                                                         *)
(* Each ring is fed by one thread in the order of time, while the join     *)
(* walks what lock() has published.  GnssRing shows what a ring does and   *)
(* when it overflows; here it is the sequence of what has been pushed,     *)
(* with the numbers of elements published and erased, and never overflows. *)
(* An element is its time stamp, week * 604800000 + milliseconds.          *)
(***************************************************************************)
EXTENDS Integers, Sequences, SequencesExt

CONSTANTS
    NumStreams,   \* rings joined: three or eight
    Capacity,     \* sizeOfRing_ of each ring
    MaxTime       \* bound on the time stamps

ASSUME NumStreamsAssumption == NumStreams \in Nat \ {0}
ASSUME CapacityAssumption == Capacity \in Nat \ {0}
ASSUME MaxTimeAssumption == MaxTime \in Nat

Streams == 1 .. NumStreams
Times == 1 .. MaxTime

VARIABLES
    pushed,            \* per ring: all that has been pushed
    published,         \* per ring: how many of these lock() has published
    erased,            \* per ring: how many of these erase() has taken
    step,              \* of the merging thread: "idle", "locking", "joining", "erasing"
    locked,            \* rings it has locked
    it,                \* it1, it2, ...: the positions of the iterators
    isReadyForDelete,
    joined,            \* what was pushed to the ring of joined data
    discarded,         \* time stamps erased unjoined by the 60 % rule
    isStopThreads

rings == <<pushed, published, erased>>
merge == <<step, locked, it, isReadyForDelete>>
vars == <<rings, merge, joined, discarded, isStopThreads>>

Init ==
    /\ pushed = [k \in Streams |-> <<>>]
    /\ published = [k \in Streams |-> 0] /\ erased = [k \in Streams |-> 0]
    /\ step = "idle" /\ locked = {} /\ it = [k \in Streams |-> 1]
    /\ isReadyForDelete = FALSE
    /\ joined = <<>> /\ discarded = {} /\ isStopThreads = FALSE

-----------------------------------------------------------------------------
(* The feeding threads: pushElevationAngle, pushS4ValuesL1 and so on. *)
HasRoom(k) == Len(pushed[k]) - erased[k] < Capacity

Push(k, t) ==
    /\ ~isStopThreads /\ HasRoom(k)
    /\ pushed[k] # <<>> => Last(pushed[k]) < t
    /\ pushed' = [pushed EXCEPT ![k] = Append(@, t)]
    /\ UNCHANGED <<published, erased, merge, joined, discarded, isStopThreads>>

StopThreads ==
    /\ ~isStopThreads /\ isStopThreads' = TRUE
    /\ UNCHANGED <<rings, merge, joined, discarded>>

-----------------------------------------------------------------------------
(* The merging thread.  Only one is inside: ThreadManager!OneThreadPerMethod. *)
Begin ==
    /\ step = "idle" /\ ~isStopThreads
    /\ step' = "locking" /\ locked' = {}
    /\ UNCHANGED <<rings, it, isReadyForDelete, joined, discarded, isStopThreads>>

(* lock() of one ring.  The functions differ in the order of their locks, so
   the order here is any. *)
Lock(k) ==
    /\ step = "locking" /\ k \notin locked
    /\ locked' = locked \union {k}
    /\ published' = [published EXCEPT ![k] = Len(pushed[k])]
    /\ UNCHANGED <<pushed, erased, step, it, isReadyForDelete, joined, discarded, isStopThreads>>

Start ==
    /\ step = "locking" /\ locked = Streams
    /\ step' = "joining" /\ it' = [k \in Streams |-> erased[k] + 1]
    /\ isReadyForDelete' = FALSE
    /\ UNCHANGED <<rings, locked, joined, discarded, isStopThreads>>

AtEnd == \E k \in Streams : it[k] > published[k]
ItTime(k) == pushed[k][it[k]]
Inside == step = "joining" /\ ~AtEnd

Move(S) == it' = [k \in Streams |-> IF k \in S THEN it[k] + 1 ELSE it[k]]

(* k is the first ring whose element has another time than that of ring 1. *)
DiffersFirst(k) ==
    /\ ItTime(k) # ItTime(1)
    /\ \A j \in 1 .. k - 1 : ItTime(j) = ItTime(1)

LeftBehind_Also(k) == 1 .. k
LeftBehind(k) == 1 .. k - 1

SkipEarlier(k) ==
    /\ Inside /\ DiffersFirst(k) /\ ItTime(1) < ItTime(k)
    /\ Move(LeftBehind(k))
    /\ UNCHANGED <<rings, step, locked, isReadyForDelete, joined, discarded, isStopThreads>>

SkipBehind(k) ==
    /\ Inside /\ DiffersFirst(k) /\ ItTime(1) > ItTime(k)
    /\ Move({k})
    /\ UNCHANGED <<rings, step, locked, isReadyForDelete, joined, discarded, isStopThreads>>

AllAgree_UpToLast == \A k \in 1 .. NumStreams - 1 : ItTime(k) = ItTime(1)
AllAgree == \A k \in Streams : ItTime(k) = ItTime(1)

Match ==
    /\ Inside /\ AllAgree
    /\ joined' = Append(joined, ItTime(1))
    /\ isReadyForDelete' = TRUE
    /\ Move(Streams)
    /\ UNCHANGED <<rings, step, locked, discarded, isStopThreads>>

(* PredictionsExperiments also leaves its loop when it is told to stop. *)
LeaveLoop ==
    /\ step = "joining" /\ (AtEnd \/ isStopThreads)
    /\ step' = "erasing"
    /\ UNCHANGED <<rings, locked, it, isReadyForDelete, joined, discarded, isStopThreads>>

percentOfFull(k) == ((published[k] - erased[k]) * 100) \div Capacity
Inconsistent == {k \in Streams : percentOfFull(k) > 60}
ErasedTo_Inclusive(k) == it[k]
ErasedTo(k) == it[k] - 1
Unread(k) == {pushed[k][i] : i \in erased[k] + 1 .. published[k]}

(* What was read goes; without a single match the rings that are more than
   60 % full are emptied.  Then all are unlocked. *)
EraseRead ==
    /\ step = "erasing" /\ isReadyForDelete
    /\ erased' = [k \in Streams |-> ErasedTo(k)]
    /\ step' = "idle" /\ locked' = {}
    /\ UNCHANGED <<pushed, published, it, isReadyForDelete, joined, discarded, isStopThreads>>

EraseInconsistent ==
    /\ step = "erasing" /\ ~isReadyForDelete
    /\ erased' = [k \in Streams |-> IF k \in Inconsistent THEN published[k] ELSE erased[k]]
    /\ discarded' = discarded \union UNION {Unread(k) : k \in Inconsistent}
    /\ step' = "idle" /\ locked' = {}
    /\ UNCHANGED <<pushed, published, it, isReadyForDelete, joined, isStopThreads>>

-----------------------------------------------------------------------------
Merge ==
    \/ Begin \/ Start \/ Match \/ LeaveLoop \/ EraseRead \/ EraseInconsistent
    \/ \E k \in Streams : Lock(k) \/ SkipEarlier(k) \/ SkipBehind(k)

Feed == \E k \in Streams : \E t \in Times : Push(k, t)

Terminated == isStopThreads /\ step = "idle" /\ UNCHANGED vars

Next == Merge \/ Feed \/ StopThreads \/ Terminated

Spec == Init /\ [][Next]_vars

(* ThreadManager!KeepsServing: a registered calculation is merged again and again. *)
FairSpec == Spec /\ WF_vars(Merge)

-----------------------------------------------------------------------------
(***************************************************************************)
(* Properties.                                                             *)
(***************************************************************************)
(* Types; positions stay within what has been pushed. *)
TypeOK ==
    /\ pushed \in [Streams -> Seq(Nat)]
    /\ published \in [Streams -> Nat] /\ erased \in [Streams -> Nat]
    /\ \A k \in Streams : erased[k] <= published[k] /\ published[k] <= Len(pushed[k])
    /\ step \in {"idle", "locking", "joining", "erasing"} /\ locked \subseteq Streams
    /\ it \in [Streams -> Nat] /\ isReadyForDelete \in BOOLEAN
    /\ joined \in Seq(Nat) /\ discarded \subseteq Nat /\ isStopThreads \in BOOLEAN

Has(k, t) == \E i \in 1 .. Len(pushed[k]) : pushed[k][i] = t
HasPublished(k, t) == \E i \in 1 .. published[k] : pushed[k][i] = t
Joined(t) == \E i \in 1 .. Len(joined) : joined[i] = t

(* What comes out of the join is in every ring, in the order of time and no
   time stamp twice, although every call starts over from begin(). *)
JoinsInOrder ==
    /\ \A i \in 1 .. Len(joined) : \A k \in Streams : Has(k, joined[i])
    /\ \A i, j \in 1 .. Len(joined) : i < j => joined[i] < joined[j]

(* No match is lost: a time stamp that every ring was given is joined, or still
   to be read in every ring, or was discarded by the 60 % rule. *)
NoMatchLost ==
    \A k \in Streams : \A i \in 1 .. Len(pushed[k]) :
        \/ i > erased[k]
        \/ Joined(pushed[k][i]) \/ pushed[k][i] \in discarded
        \/ \E j \in Streams : ~Has(j, pushed[k][i])

(* A call joins all it can see: when the loop is over and the calculation not
   stopping, no time stamp is left that every ring has published.  So the 60 %
   rule never takes an element whose partners are all there. *)
NoMatchLeft ==
    step = "erasing" /\ ~isStopThreads =>
        \A i \in 1 .. published[1] :
            \/ Joined(pushed[1][i]) \/ pushed[1][i] \in discarded
            \/ \E j \in Streams : ~HasPublished(j, pushed[1][i])

(* Whatever every ring was given comes out, sooner or later. *)
MatchesComeOut ==
    \A t \in Times :
        (\A k \in Streams : Has(k, t)) ~> (Joined(t) \/ t \in discarded \/ isStopThreads)

-----------------------------------------------------------------------------
(***************************************************************************)
(* The inductive invariant behind the safety properties.                   *)
(***************************************************************************)
Sorted == \A k \in Streams : \A i, j \in 1 .. Len(pushed[k]) : i < j => pushed[k][i] < pushed[k][j]

(* t will never be in ring j: something later has already been pushed there. *)
Never(j, t) ==
    /\ ~Has(j, t)
    /\ \E m \in 1 .. Len(pushed[j]) : pushed[j][m] > t

Settled == {t \in Nat : Joined(t) \/ t \in discarded \/ \E j \in Streams : Never(j, t)}

Walking == step \in {"joining", "erasing"}

(* How far the next erase may go: to where the iterators stand, once a match
   has been found, and otherwise not at all. *)
Done(k) == IF Walking /\ isReadyForDelete THEN it[k] - 1 ELSE erased[k]

(* What is erased or passed by an iterator is settled. *)
PassedInv ==
    /\ \A k \in Streams : \A i \in 1 .. erased[k] : pushed[k][i] \in Settled
    /\ Walking => \A k \in Streams :
          /\ erased[k] < it[k] /\ it[k] <= published[k] + 1
          /\ \A i \in 1 .. it[k] - 1 : pushed[k][i] \in Settled
    /\ step = "erasing" => AtEnd \/ isStopThreads

(* All that is not done with is later than all that has been joined. *)
AheadInv ==
    \A k \in Streams : \A i \in Done(k) + 1 .. Len(pushed[k]) :
        \A n \in 1 .. Len(joined) : joined[n] < pushed[k][i]

(* What the iterators have passed is settled, and what they have not is later
   than what is joined: after any number of calls and between any two pushes. *)
JoinInv == Sorted /\ PassedInv /\ AheadInv /\ JoinsInOrder
=============================================================================
