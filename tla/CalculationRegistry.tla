------------------------- MODULE CalculationRegistry -------------------------
(***************************************************************************)
(* What ThreadManager promises the owners of calculations, and nothing of  *)
(* how it keeps the promise: while a calculation is alive the workers may  *)
(* run it, and its owner is told that it is no longer alive only when no   *)
(* worker is running it, nor will be.                                      *)
(***************************************************************************)
CONSTANTS Calcs, Workers, NoCalc

VARIABLES
    alive,    \* calculations added whose release has not returned
    running   \* per worker: the calculation it is running, or NoCalc

Init == alive = {} /\ running = [w \in Workers |-> NoCalc]

(* addNewCalculation *)
Add(c) ==
    /\ c \notin alive
    /\ alive' = alive \union {c}
    /\ UNCHANGED running

(* releaseCalculation, releaseAll: their return *)
Release(S) ==
    /\ \A w \in Workers : running[w] \notin S
    /\ alive' = alive \ S
    /\ UNCHANGED running

Run(w, c) ==
    /\ running[w] = NoCalc /\ c \in alive
    /\ running' = [running EXCEPT ![w] = c]
    /\ UNCHANGED alive

Finish(w) ==
    /\ running' = [running EXCEPT ![w] = NoCalc]
    /\ UNCHANGED alive

Next ==
    \/ \E c \in Calcs : Add(c)
    \/ \E S \in SUBSET Calcs : Release(S)
    \/ \E w \in Workers : Finish(w) \/ \E c \in Calcs : Run(w, c)

Spec == Init /\ [][Next]_<<alive, running>>
=============================================================================
