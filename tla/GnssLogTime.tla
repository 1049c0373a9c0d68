----------------------------- MODULE GnssLogTime -----------------------------
(***************************************************************************)
(* The time of a log (src/src/common/GnssLogTime.cpp): getLogTime turns a  *)
(* GPS week and its milliseconds into a UTC time of whole milliseconds, by *)
(* way of a binary64 number of seconds; the parser takes a difference of   *)
(* two such times that is not 20 ms for a gap, and so does every window of *)
(* an experiment.  Here a receiver writes a RANGE log every 20 ms, without *)
(* a gap.                                                                  *)
(*                                                                         *)
(* A binary64 number is a record of its whole part and of the rest in      *)
(* steps of 2^-bits, its last place.  The milliseconds of a log are a      *)
(* multiple of 20, and their quotient by 1000 is too precise for its own   *)
(* rounding to show in the sum.  The years are those from 1997 to 2048:    *)
(* all numbers stay below 2^31.                                            *)
(***************************************************************************)
EXTENDS Integers, FiniteSets, SequencesExt

CONSTANT
    StartSeconds    \* GPS seconds of the first log: week * 604800 and on,
                    \* between 2^29 and 2^31 - 2

VARIABLES
    second, step,   \* of the last log: GPS seconds, and 20 ms steps
    lastLogTime,    \* lastLogTime_, in UTC
    timeDiff        \* between the last two logs, in milliseconds

vars == <<second, step, lastLogTime, timeDiff>>

leaps == <<46828800, 78364801, 109900802, 173059203, 252028804, 315187205, 346723206,
           393984007, 425520008, 457056009, 504489610, 551750411, 599184012, 820108813,
           914803214, 1025136015, 1119744016>>

-----------------------------------------------------------------------------
(* Round to nearest, ties to even. *)
Nearest(n, d) ==
    LET q == n \div d
        r == 2 * (n % d)
    IN  IF r < d \/ (r = d /\ q % 2 = 0) THEN q ELSE q + 1

(* How many of the 53 bits a number with this whole part has left. *)
BitsAfterPoint(whole) == CHOOSE bits \in 22 .. 32 : whole \div 2 ^ (52 - bits) = 1

(* week * 604800.0 + milliseconds / 1000.0 *)
CurSeconds(whole, k) ==
    LET bits == BitsAfterPoint(whole) IN
    [whole |-> whole, bits |-> bits, rest |-> Nearest(k * 2 ^ bits, 50)]

(* A sum with a number of halves. *)
Plus(s, halves) ==
    LET one   == 2 ^ s.bits
        sum   == s.rest + halves * (one \div 2)
        whole == s.whole + sum \div one
        bits  == BitsAfterPoint(whole)
    IN  [whole |-> whole, bits |-> bits, rest |-> Nearest(sum % one, 2 ^ (s.bits - bits))]

(* The leap seconds still to come are added, and then half a second for each
   of them that is still to come. *)
IsToCome(leap, s) == leap > s.whole \/ (leap = s.whole /\ s.rest = 0)
LeapCount(s) == Cardinality({i \in DOMAIN leaps : IsToCome(leaps[i], s)})
WithLeaps(s) ==
    FoldLeft(LAMBDA sum, leap : IF leap >= sum.whole THEN Plus(sum, 1) ELSE sum,
             Plus(s, 2 * LeapCount(s)), leaps)

(* boost's milliseconds takes an integer: the product is cut off.  Its bits
   are those of its 1024th part, ten fewer. *)
ToMilliseconds(s) ==
    LET high == (s.whole \div 1024) * 1000
                + ((s.whole % 1024) * 1000 + (s.rest * 125) \div 2 ^ (s.bits - 3)) \div 1024
        bits == BitsAfterPoint(high) - 10
        ms   == Nearest(s.rest * 125, 2 ^ (s.bits - bits - 3)) \div 2 ^ bits
    IN  [seconds |-> s.whole + ms \div 1000, milliseconds |-> ms % 1000]

getLogTime(whole, k) == ToMilliseconds(WithLeaps(CurSeconds(whole, k)))

Difference(t, u) == (t.seconds - u.seconds) * 1000 + t.milliseconds - u.milliseconds

-----------------------------------------------------------------------------
Init ==
    /\ second \in StartSeconds /\ step = 0
    /\ lastLogTime = getLogTime(second, 0)
    /\ timeDiff = 20

(* The next RANGE log, for one second. *)
NextLog ==
    /\ step < 49 /\ step' = step + 1
    /\ lastLogTime' = getLogTime(second, step + 1)
    /\ timeDiff' = Difference(lastLogTime', lastLogTime)
    /\ UNCHANGED second

Next == NextLog

Spec == Init /\ [][Next]_vars

-----------------------------------------------------------------------------
(* "return UTC time in ptime variable" (GnssLogTime.cpp:79): the UTC times of
   two logs that are 20 ms apart are 20 ms apart, or the parser takes them for
   a gap and an experiment empties its window. *)
UtcKeepsSteps == timeDiff = 20
=============================================================================
