---------------------- MODULE MCPredictionsExperiments ----------------------
(* Windows of two elements, histograms of two and four intervals. *)
EXTENDS PredictionsExperiments

Sizes == [k \in (2 .. 12) \ {5} |-> 2]
Counts18And19 == [k \in 18 .. 19 |-> IF k = 18 THEN 2 ELSE 4]
Steps18And19 == [k \in 18 .. 19 |-> IF k = 18 THEN 2 ELSE 1]

Both(v, w) == [c \in Channels |-> IF c = "L1" THEN v ELSE w]

(* Usable on both channels; with one label of each channel at a boundary or
   not a number; the other way round. *)
Kinds ==
    {[s4 |-> Both(1, 3), sigmaPhi |-> Both(3, 1)],
     [s4 |-> Both(2, NaN), sigmaPhi |-> Both(4, 2)],
     [s4 |-> Both(4, 2), sigmaPhi |-> Both(1, 0)]}

AnyFilter(id, system, channelId) ==
    [experimentId |-> id, filterSatelliteSystemId |-> -1, filterSatelliteId |-> -1,
     filterSatelliteChannelId |-> channelId, satelliteSystemId |-> system, satelliteId |-> 1]

(* Every experiment on every system, on each channel of GLONASS, and under
   filters on system and satellite; the second channel of GPS. *)
Cases ==
    {AnyFilter(id, system, -1) : id \in 0 .. 20, system \in 0 .. 2}
    \union {AnyFilter(id, 1, channelId) : id \in 0 .. 20, channelId \in {1, 2}}
    \union {AnyFilter(id, 0, 2) : id \in {0, 2, 4}}
    \union {[AnyFilter(id, 1, -1) EXCEPT !.filterSatelliteSystemId = system,
                                          !.filterSatelliteId = sat] :
               id \in {0, 4, 18, 19}, system \in {0, 1}, sat \in {1, 2}}
=============================================================================
