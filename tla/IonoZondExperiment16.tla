------------------------- MODULE IonoZondExperiment16 -------------------------
(***************************************************************************)
(* Experiments 16 and 17 (src/src/experiments/IonoZondExperiment16.cpp and *)
(* its copy with fewer digits, IonoZondExperiment17.cpp): one worker keeps *)
(* the S4 values pushed to it in a ring of its own, and prints a line of   *)
(* SizeOfMlVector of them, the last of which is to be predicted from the   *)
(* others, whenever it holds so many.                                      *)
(*                                                                         *)
(* The ring is the one of GnssRing: seen holds the values of the line that *)
(* is being written, and it stands at the next value.  The bound MaxPushes *)
(* is below Capacity: the iterators stay in the buffer.                    *)
(***************************************************************************)
EXTENDS GnssRing

CONSTANT SizeOfMlVector     \* sizeOfMlVector: 3000

VARIABLES
    isStopExperiment, isStopThreads,    \* isStopThreads_ of the experiment and of its worker
    lines                               \* history: what was printed

workerVars == <<isStopExperiment, isStopThreads, lines>>
allVars == <<vars, workerVars>>

WorkerInit ==
    /\ Init
    /\ isStopExperiment = FALSE /\ isStopThreads = FALSE
    /\ lines = <<>>

-----------------------------------------------------------------------------
PushExperimentData ==
    /\ ~isStopExperiment /\ ~isStopThreads
    /\ PushBack \/ PushExits
    /\ UNCHANGED workerVars

StopThreads ==
    /\ IF ~isStopExperiment
       THEN isStopExperiment' = TRUE /\ UNCHANGED isStopThreads
       ELSE ~isStopThreads /\ isStopThreads' = TRUE /\ UNCHANGED isStopExperiment
    /\ UNCHANGED <<vars, lines>>

(* calculateData takes the ring, and writes a line as long as it holds one. *)
CalculateData ==
    /\ ~isStopThreads
    /\ Lock \/ LockExits
    /\ UNCHANGED workerVars

HoldsLine == sizeOfReadBuffer >= SizeOfMlVector

NextLine ==
    /\ program = "running" /\ reader = "erased" /\ HoldsLine
    /\ reader' = "reading" /\ it' = beginRead /\ seen' = <<>>
    /\ UNCHANGED <<slots, writePart, readPart, program, total, workerVars>>

ReadValue ==
    /\ HoldsLine /\ Len(seen) < SizeOfMlVector - 1
    /\ ReadNext
    /\ UNCHANGED workerVars

(* Where the for statement ends, before or after its ++it. *)
Predicted == IF Len(seen) = SizeOfMlVector - 1 THEN it ELSE Advance(it)

(* erased has stayed at begin(): erase(begin(), begin()). *)
PrintLine ==
    /\ program = "running" /\ reader = "reading" /\ HoldsLine
    /\ Len(seen) = SizeOfMlVector - 1 \/ it = endRead
    /\ lines' = Append(lines, [previous |-> seen, s4 |-> slots[Predicted]])
    /\ Erase(beginRead)
    /\ UNCHANGED <<isStopExperiment, isStopThreads>>

Done ==
    /\ ~HoldsLine
    /\ Unlock
    /\ UNCHANGED workerVars

-----------------------------------------------------------------------------
WorkerNext ==
    \/ PushExperimentData \/ StopThreads
    \/ CalculateData \/ NextLine \/ ReadValue \/ PrintLine \/ Done

WorkerSpec == WorkerInit /\ [][WorkerNext]_allVars

-----------------------------------------------------------------------------
(* "predicting S4 from previous 2999 values" (SvmPredictionData.hpp:107): on
   every line the value to be predicted is one that was pushed, and the others
   are those pushed right before it. *)
PredictsFromPrevious ==
    \A n \in DOMAIN lines :
        /\ lines[n].s4 \in SizeOfMlVector .. total
        /\ lines[n].previous =
              [i \in 1 .. SizeOfMlVector - 1 |-> lines[n].s4 - SizeOfMlVector + i]
=============================================================================
