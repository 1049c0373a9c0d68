-------------------- MODULE PredictionsExperimentsProofs --------------------
(***************************************************************************)
(* Proofs about PredictionsExperiments, for windows of any size, any       *)
(* configurations and elements: types, that a line is printed for every    *)
(* full window and no other, that its sums are those of the window, that   *)
(* only experiment 19 lets a value terminate the program, and that what is *)
(* printed of a histogram is complete.                                     *)
(*                                                                         *)
(* The inductive invariant says of each channel of a windowed experiment   *)
(* that its lists are the last run of usable elements, up to the size of   *)
(* the window, and that its sums are those of its lists; and of a counter  *)
(* that it is the number of elements in its interval (HistogramInv).       *)
(***************************************************************************)
EXTENDS PredictionsExperiments, SequenceTheorems, FiniteSetTheorems, TLAPS

WindowedIds == (2 .. 14) \ {5}
Lead(id) == IF id = 2 THEN "data" ELSE "tec"

(* The n elements up to the one at time last, as a list and as a sum. *)
Run(last, n) == [i \in 1 .. n |-> last - n + i]
SumOfRun(last, n) == [u \in 0 .. MaxTime |-> IF u \in last - n + 1 .. last THEN 1 ELSE 0]

ChannelOf(Q, S) ==
    [lastLogTime : 0 .. MaxTime, lists : [Q -> Seq(1 .. MaxTime)], sums : [S -> FormalSums]]

HoldsRun(w, n) ==
    /\ \A q \in DOMAIN w.lists : w.lists[q] = Run(w.lastLogTime, n)
    /\ n > 0 => \A s \in DOMAIN w.sums : w.sums[s] = SumOfRun(w.lastLogTime, n)

-----------------------------------------------------------------------------
(* Lists and sums *)

LEMMA LeadIsQuantity ==
    ASSUME NEW id \in WindowedIds
    PROVE  Lead(id) \in Quantities(id) /\ Sums(id) \subseteq Quantities(id) \X {1, 2}
BY DEF WindowedIds, Lead, Quantities, Sums, Experiment2SatelliteChannelData,
       Experiment3SatelliteData, Experiment6SatelliteData, Experiment10SatelliteData

LEMMA SizePositive ==
    ASSUME NEW id \in WindowedIds
    PROVE  WindowOf(id) \in Nat \ {0}
BY SizesAssumption DEF WindowedIds, WindowOf

LEMMA WriteIsWindowed ==
    ASSUME NEW id \in WindowedIds, NEW w, NEW t
    PROVE  WriteData(id, w, t) = Windowed(w, t, Lead(id), WindowOf(id))
<1>1. id \in {2, 3, 4, 6, 7, 8, 9, 10, 11, 12, 13, 14}
  BY DEF WindowedIds
<1> QED
  BY <1>1 DEF WriteData, WindowOf, Lead, experiment2WriteData, experiment3WriteData,
       experiment4WriteData, experiment6WriteData, experiment7WriteData,
       experiment8WriteData, experiment9WriteData, experiment10WriteData,
       experiment11WriteData, experiment12WriteData, experiment13WriteData,
       experiment14WriteData

LEMMA WriteIsDirect ==
    ASSUME NEW id \in {0, 1, 5, 15}, NEW w, NEW t
    PROVE  WriteData(id, w, t) = Direct(w, t) /\ WindowOf(id) = 0
BY DEF WriteData, WindowOf, experiment0Print, experiment1WriteData, experiment5WriteData,
       experiment15WriteData

LEMMA WriteIsNothing ==
    ASSUME NEW id \in Nat, id \notin 0 .. 15, NEW w, NEW t
    PROVE  WriteData(id, w, t) = Nothing(w)
BY DEF WriteData

LEMMA RunGrows ==
    ASSUME NEW last \in Int, NEW n \in Nat, Run(last, n) \in Seq(1 .. MaxTime)
    PROVE  Append(Run(last, n), last + 1) = Run(last + 1, n + 1)
BY DEF Run

LEMMA SeqIsRun ==
    ASSUME NEW S, NEW u \in Seq(S), NEW last \in Int,
           \A i \in 1 .. Len(u) : u[i] = last - Len(u) + i
    PROVE  u = Run(last, Len(u))
<1>1. DOMAIN u = 1 .. Len(u) /\ u = [i \in 1 .. Len(u) |-> u[i]]
  BY LenProperties
<1> QED
  BY <1>1 DEF Run

LEMMA RunSlides ==
    ASSUME NEW last \in Int, NEW n \in Nat \ {0}, Run(last, n) \in Seq(1 .. MaxTime)
    PROVE  /\ Tail(Run(last, n)) = Run(last, n - 1)
           /\ Head(Run(last, n)) = last - n + 1
           /\ last - n + 1 \in 1 .. MaxTime
<1> SUFFICES ASSUME NEW s \in Seq(1 .. MaxTime), Len(s) = n,
                    \A i \in 1 .. n : s[i] = last - n + i
             PROVE  /\ Tail(s) = Run(last, n - 1)
                    /\ Head(s) = last - n + 1
                    /\ last - n + 1 \in 1 .. MaxTime
  BY DEF Run
<1>1. s # <<>> /\ n - 1 \in Nat
  BY EmptySeq
<1>2. Head(s) \in 1 .. MaxTime
  BY <1>1, HeadTailProperties
<1>3. Head(s) = last - n + 1
  BY <1>1
<1>4. /\ Tail(s) \in Seq(1 .. MaxTime) /\ Len(Tail(s)) = n - 1
      /\ \A i \in 1 .. n - 1 : Tail(s)[i] = s[i + 1]
  BY <1>1, HeadTailProperties
<1>5. Tail(s) = Run(last, n - 1)
  <2>1. \A i \in 1 .. n - 1 : i + 1 \in 1 .. n /\ last - n + (i + 1) = last - (n - 1) + i
    OBVIOUS
  <2>2. \A i \in 1 .. n - 1 : Tail(s)[i] = last - (n - 1) + i
    BY <1>4, <2>1
  <2>3. Tail(s) = Run(last, Len(Tail(s)))
    BY <1>4, <2>2, SeqIsRun
  <2> QED
    BY <1>4, <2>3
<1> QED
  BY <1>2, <1>3, <1>5

LEMMA RunOfOne ==
    ASSUME NEW t \in Int
    PROVE  Append(<<>>, t) = Run(t, 1)
BY DEF Run

LEMMA RunIsEmpty ==
    ASSUME NEW last \in Int, NEW n \in Nat
    PROVE  /\ Run(last, n) = <<>> <=> n = 0
           /\ Len(Run(last, n)) = n
<1>1. Len(Run(last, n)) = n
  BY DEF Run
<1>2. n = 0 => Run(last, n) = <<>>
  BY DEF Run
<1> QED
  BY <1>1, <1>2

LEMMA SumOfOne ==
    ASSUME NEW t \in 1 .. MaxTime
    PROVE  /\ Once(t) = SumOfRun(t, 1)
           /\ [NoSum EXCEPT ![t] = @ + 1] = SumOfRun(t, 1)
BY InputsAssumption DEF Once, NoSum, SumOfRun

LEMMA SumGrows ==
    ASSUME NEW last \in Int, NEW n \in Nat, last + 1 \in 1 .. MaxTime
    PROVE  [SumOfRun(last, n) EXCEPT ![last + 1] = @ + 1] = SumOfRun(last + 1, n + 1)
BY InputsAssumption DEF SumOfRun

LEMMA SumSlides ==
    ASSUME NEW last \in Int, NEW n \in Nat \ {0}, last - n + 1 \in 1 .. MaxTime
    PROVE  [SumOfRun(last, n) EXCEPT ![last - n + 1] = @ - 1] = SumOfRun(last, n - 1)
BY InputsAssumption DEF SumOfRun

LEMMA SumsAreFormal ==
    /\ \A t \in Int : Once(t) \in FormalSums
    /\ NoSum \in FormalSums
    /\ \A f \in FormalSums, t \in 0 .. MaxTime :
           [f EXCEPT ![t] = @ + 1] \in FormalSums /\ [f EXCEPT ![t] = @ - 1] \in FormalSums
BY InputsAssumption DEF Once, NoSum, FormalSums

-----------------------------------------------------------------------------
(* One element written to a window *)

LEMMA TimesInRange == MaxTime \in Nat /\ \A t \in 1 .. MaxTime : t \in 0 .. MaxTime /\ t \in Int
BY InputsAssumption

LEMMA FieldsOfChannel ==
    ASSUME NEW Q, NEW S, NEW w \in ChannelOf(Q, S)
    PROVE  /\ w.lastLogTime \in 0 .. MaxTime
           /\ w.lists \in [Q -> Seq(1 .. MaxTime)] /\ DOMAIN w.lists = Q
           /\ w.sums \in [S -> FormalSums] /\ DOMAIN w.sums = S
           /\ \A q \in Q : w.lists[q] \in Seq(1 .. MaxTime)
           /\ \A s \in S : w.sums[s] \in FormalSums
BY DEF ChannelOf

LEMMA ClearedWindow ==
    ASSUME NEW Q, NEW S, NEW w \in ChannelOf(Q, S)
    PROVE  /\ Clear(w) \in ChannelOf(Q, S)
           /\ Clear(w).lastLogTime = w.lastLogTime
           /\ \A q \in Q : Clear(w).lists[q] = <<>>
           /\ \A s \in S : Clear(w).sums[s] = NoSum
<1>1. /\ [q \in Q |-> <<>>] \in [Q -> Seq(1 .. MaxTime)]
      /\ [s \in S |-> NoSum] \in [S -> FormalSums]
  BY SumsAreFormal, EmptySeq
<1>2. Clear(w) = [w EXCEPT !.lists = [q \in Q |-> <<>>], !.sums = [s \in S |-> NoSum]]
  BY FieldsOfChannel DEF Clear
<1> QED
  BY <1>1, <1>2 DEF ChannelOf

LEMMA SetWindow ==
    ASSUME NEW Q, NEW S, NEW w \in ChannelOf(Q, S), NEW t \in 1 .. MaxTime
    PROVE  /\ SetSums(w, t) \in ChannelOf(Q, S)
           /\ SetSums(w, t).lists = w.lists
           /\ \A s \in S : SetSums(w, t).sums[s] = Once(t)
<1>1. [s \in S |-> Once(t)] \in [S -> FormalSums]
  BY SumsAreFormal
<1>2. SetSums(w, t) = [w EXCEPT !.sums = [s \in S |-> Once(t)]]
  BY FieldsOfChannel DEF SetSums
<1> QED
  BY <1>1, <1>2 DEF ChannelOf

LEMMA AddedWindow ==
    ASSUME NEW Q, NEW S, NEW w \in ChannelOf(Q, S), NEW t \in 1 .. MaxTime
    PROVE  /\ AddToSums(w, t) \in ChannelOf(Q, S)
           /\ AddToSums(w, t).lists = w.lists
           /\ AddToSums(w, t).lastLogTime = w.lastLogTime
           /\ \A s \in S : AddToSums(w, t).sums[s] = [w.sums[s] EXCEPT ![t] = @ + 1]
<1> DEFINE added(s) == [w.sums[s] EXCEPT ![t] = @ + 1]
<1>1. \A s \in S : added(s) \in FormalSums
  BY FieldsOfChannel, TimesInRange, SumsAreFormal
<1>2. AddToSums(w, t) = [w EXCEPT !.sums = [s \in S |-> added(s)]]
  BY FieldsOfChannel DEF AddToSums
<1> HIDE DEF added
<1>3. [s \in S |-> added(s)] \in [S -> FormalSums]
  BY <1>1
<1>4. /\ AddToSums(w, t) \in ChannelOf(Q, S)
      /\ AddToSums(w, t).lists = w.lists
      /\ AddToSums(w, t).lastLogTime = w.lastLogTime
      /\ \A s \in S : AddToSums(w, t).sums[s] = added(s)
  BY <1>2, <1>3 DEF ChannelOf
<1> QED
  BY <1>4 DEF added

LEMMA PushedWindow ==
    ASSUME NEW Q, NEW S, NEW w \in ChannelOf(Q, S), NEW t \in 1 .. MaxTime
    PROVE  /\ PushBack(w, t) \in ChannelOf(Q, S)
           /\ PushBack(w, t).lastLogTime = t
           /\ \A q \in Q : PushBack(w, t).lists[q] = Append(w.lists[q], t)
           /\ PushBack(w, t).sums = w.sums
<1>1. [q \in Q |-> Append(w.lists[q], t)] \in [Q -> Seq(1 .. MaxTime)]
  BY FieldsOfChannel, AppendProperties
<1>2. PushBack(w, t) =
        [w EXCEPT !.lists = [q \in Q |-> Append(w.lists[q], t)], !.lastLogTime = t]
  BY FieldsOfChannel DEF PushBack
<1> QED
  BY <1>1, <1>2, TimesInRange DEF ChannelOf

LEMMA ContinuedWindow ==
    ASSUME NEW Q, NEW S, NEW w \in ChannelOf(Q, S), NEW t \in 1 .. MaxTime
    PROVE  LET v == PushBack(AddToSums(w, t), t) IN
           /\ v \in ChannelOf(Q, S) /\ v.lastLogTime = t
           /\ \A q \in Q : v.lists[q] = Append(w.lists[q], t)
           /\ \A s \in S : v.sums[s] = [w.sums[s] EXCEPT ![t] = @ + 1]
<1>1. ASSUME NEW u \in ChannelOf(Q, S)
      PROVE  /\ PushBack(u, t) \in ChannelOf(Q, S) /\ PushBack(u, t).lastLogTime = t
             /\ \A q \in Q : PushBack(u, t).lists[q] = Append(u.lists[q], t)
             /\ PushBack(u, t).sums = u.sums
  BY PushedWindow
<1>2. /\ AddToSums(w, t) \in ChannelOf(Q, S) /\ AddToSums(w, t).lists = w.lists
      /\ \A s \in S : AddToSums(w, t).sums[s] = [w.sums[s] EXCEPT ![t] = @ + 1]
  BY AddedWindow
<1> QED
  BY <1>1, <1>2

LEMMA PoppedWindow ==
    ASSUME NEW Q, NEW S \in SUBSET (Q \X {1, 2}), NEW w \in ChannelOf(Q, S),
           NEW n \in Nat \ {0}, HoldsRun(w, n)
    PROVE  /\ PopFront(w) \in ChannelOf(Q, S)
           /\ PopFront(w).lastLogTime = w.lastLogTime
           /\ HoldsRun(PopFront(w), n - 1)
           /\ \A s \in S : PopFront(w).sums[s] = SumOfRun(w.lastLogTime, n - 1)
<1> DEFINE last == w.lastLogTime
<1>1. /\ last \in Int /\ DOMAIN w.lists = Q /\ DOMAIN w.sums = S
      /\ \A s \in S : s[1] \in Q
  BY InputsAssumption DEF ChannelOf
<1>2. \A q \in Q : /\ Tail(w.lists[q]) = Run(last, n - 1) /\ Head(w.lists[q]) = last - n + 1
                    /\ last - n + 1 \in 1 .. MaxTime
                    /\ w.lists[q] # <<>>
  <2> SUFFICES ASSUME NEW q \in Q
               PROVE  /\ Tail(w.lists[q]) = Run(last, n - 1) /\ Head(w.lists[q]) = last - n + 1
                      /\ last - n + 1 \in 1 .. MaxTime
                      /\ w.lists[q] # <<>>
    OBVIOUS
  <2>1. w.lists[q] = Run(last, n) /\ w.lists[q] \in Seq(1 .. MaxTime)
    BY <1>1 DEF HoldsRun, ChannelOf
  <2>2. Run(last, n) # <<>>
    BY DEF Run
  <2> QED
    BY <1>1, <2>1, <2>2, RunSlides
<1>3. \A q \in Q : Tail(w.lists[q]) \in Seq(1 .. MaxTime)
  BY <1>2, HeadTailProperties DEF ChannelOf
<1>4. \A s \in S : /\ PopFront(w).sums[s] = SumOfRun(last, n - 1)
                    /\ PopFront(w).sums[s] \in FormalSums
  <2> SUFFICES ASSUME NEW s \in S
               PROVE  /\ PopFront(w).sums[s] = SumOfRun(last, n - 1)
                      /\ PopFront(w).sums[s] \in FormalSums
    OBVIOUS
  <2>1. PopFront(w).sums[s] = [w.sums[s] EXCEPT ![last - n + 1] = @ - 1]
    BY <1>1, <1>2 DEF PopFront, ChannelOf
  <2>2. w.sums[s] = SumOfRun(last, n) /\ w.sums[s] \in FormalSums
    BY <1>1 DEF HoldsRun, ChannelOf
  <2>3. last - n + 1 \in 1 .. MaxTime
    BY <1>1, <1>2
  <2>4. [SumOfRun(last, n) EXCEPT ![last - n + 1] = @ - 1] = SumOfRun(last, n - 1)
    BY <1>1, <2>3, SumSlides
  <2>5. last - n + 1 \in 0 .. MaxTime
    BY <2>3, InputsAssumption
  <2> QED
    <3>1. [w.sums[s] EXCEPT ![last - n + 1] = @ - 1] \in FormalSums
      BY <2>2, <2>5, SumsAreFormal
    <3> QED
      BY <2>1, <2>2, <2>4, <3>1
<1>5. /\ PopFront(w).lastLogTime = last
      /\ DOMAIN PopFront(w).lists = Q /\ DOMAIN PopFront(w).sums = S
      /\ \A q \in Q : PopFront(w).lists[q] = Tail(w.lists[q])
  BY <1>1 DEF PopFront, ChannelOf
<1>6. PopFront(w) \in ChannelOf(Q, S)
  BY <1>1, <1>3, <1>4, <1>5 DEF PopFront, ChannelOf
<1> QED
  BY <1>2, <1>4, <1>5, <1>6 DEF HoldsRun

(* The first element of a run: nothing is held, or a gap lies before it. *)
LEMMA WindowStarts ==
    ASSUME NEW Q, NEW S, NEW lead \in Q, NEW size \in Nat \ {0},
           NEW w \in ChannelOf(Q, S), NEW t \in 1 .. MaxTime, NEW n \in Nat, HoldsRun(w, n),
           n = 0 \/ t # w.lastLogTime + 1
    PROVE  LET r == Windowed(w, t, lead, size) IN
           /\ r.out = {}
           /\ r.kept \in ChannelOf(Q, S) /\ r.kept.lastLogTime = t
           /\ HoldsRun(r.kept, 1)
<1> DEFINE r == Windowed(w, t, lead, size)
<1>1. /\ w.lists[lead] = Run(w.lastLogTime, n) /\ w.lastLogTime \in Int
      /\ \A q \in Q : w.lists[q] = Run(w.lastLogTime, n)
  BY FieldsOfChannel, TimesInRange DEF HoldsRun
<1>2. n = 0 <=> w.lists[lead] = <<>>
  BY <1>1, RunIsEmpty
<1>3. CASE n = 0
  <2>1. r = [kept |-> PushBack(SetSums(w, t), t), out |-> {}]
    BY <1>2, <1>3 DEF Windowed
  <2> DEFINE v == SetSums(w, t)
  <2>2. /\ v \in ChannelOf(Q, S)
        /\ v.lists = w.lists
        /\ \A s \in S : v.sums[s] = Once(t)
    BY SetWindow
  <2>3. \A q \in Q : v.lists[q] = <<>>
    BY <1>1, <1>3, <2>2 DEF Run
  <2> HIDE DEF v
  <2>4. /\ PushBack(v, t) \in ChannelOf(Q, S) /\ PushBack(v, t).lastLogTime = t
        /\ \A q \in Q : PushBack(v, t).lists[q] = Append(v.lists[q], t)
        /\ PushBack(v, t).sums = v.sums
    BY <2>2, PushedWindow
  <2>5. \A q \in Q : PushBack(v, t).lists[q] = Run(t, 1)
    BY <2>3, <2>4, RunOfOne, TimesInRange
  <2>6. \A s \in S : PushBack(v, t).sums[s] = SumOfRun(t, 1)
    BY <2>2, <2>4, SumOfOne
  <2>7. HoldsRun(PushBack(v, t), 1)
    BY <2>4, <2>5, <2>6, FieldsOfChannel DEF HoldsRun
  <2> QED
    BY <2>1, <2>4, <2>7 DEF v
<1>4. CASE n # 0
  <2> DEFINE v == Clear(w)
             u == AddToSums(v, t)
  <2>1. /\ v \in ChannelOf(Q, S)
        /\ \A q \in Q : v.lists[q] = <<>>
        /\ \A s \in S : v.sums[s] = NoSum
    BY ClearedWindow
  <2>2. t - w.lastLogTime # 1 /\ Len(v.lists[lead]) # size
    BY <1>1, <1>4, <2>1, TimesInRange
  <2>3. r = [kept |-> PushBack(u, t), out |-> {}]
    BY <1>2, <1>4, <2>2 DEF Windowed
  <2> HIDE DEF v
  <2>4. /\ u \in ChannelOf(Q, S) /\ u.lists = v.lists
        /\ \A s \in S : u.sums[s] = [v.sums[s] EXCEPT ![t] = @ + 1]
    BY <2>1, AddedWindow
  <2> HIDE DEF u
  <2>5. /\ PushBack(u, t) \in ChannelOf(Q, S) /\ PushBack(u, t).lastLogTime = t
        /\ \A q \in Q : PushBack(u, t).lists[q] = Append(u.lists[q], t)
        /\ PushBack(u, t).sums = u.sums
    BY <2>4, PushedWindow
  <2>6. \A q \in Q : PushBack(u, t).lists[q] = Run(t, 1)
    BY <2>1, <2>4, <2>5, RunOfOne, TimesInRange
  <2>7. \A s \in S : PushBack(u, t).sums[s] = SumOfRun(t, 1)
    BY <2>1, <2>4, <2>5, SumOfOne
  <2>8. HoldsRun(PushBack(u, t), 1)
    BY <2>5, <2>6, <2>7, FieldsOfChannel DEF HoldsRun
  <2> QED
    BY <2>3, <2>5, <2>8
<1> QED
  BY <1>3, <1>4

(* The next element of a run fits into the window. *)
LEMMA WindowGrows ==
    ASSUME NEW Q, NEW S, NEW w \in ChannelOf(Q, S), NEW n \in Nat,
           HoldsRun(w, n), NEW t \in 1 .. MaxTime, t = w.lastLogTime + 1,
           \A s \in S : w.sums[s] = SumOfRun(w.lastLogTime, n)
    PROVE  LET v == PushBack(AddToSums(w, t), t) IN
           v \in ChannelOf(Q, S) /\ v.lastLogTime = t /\ HoldsRun(v, n + 1)
<1> DEFINE last == w.lastLogTime
           v == PushBack(AddToSums(w, t), t)
<1>1. /\ last \in Int /\ \A q \in Q : w.lists[q] = Run(last, n) /\ w.lists[q] \in Seq(1 .. MaxTime)
  BY FieldsOfChannel, TimesInRange DEF HoldsRun
<1>2. /\ v \in ChannelOf(Q, S) /\ v.lastLogTime = t
      /\ \A q \in Q : v.lists[q] = Append(w.lists[q], t)
      /\ \A s \in S : v.sums[s] = [w.sums[s] EXCEPT ![t] = @ + 1]
  BY ContinuedWindow
<1> HIDE DEF v
<1>3. \A q \in Q : v.lists[q] = Run(t, n + 1)
  <2> TAKE q \in Q
  <2>1. w.lists[q] = Run(last, n) /\ Run(last, n) \in Seq(1 .. MaxTime)
    BY <1>1
  <2>2. Append(Run(last, n), last + 1) = Run(last + 1, n + 1)
    BY <1>1, <2>1, RunGrows
  <2> QED
    BY <1>2, <2>1, <2>2
<1>4. \A s \in S : v.sums[s] = SumOfRun(t, n + 1)
  <2>1. [SumOfRun(last, n) EXCEPT ![last + 1] = @ + 1] = SumOfRun(last + 1, n + 1)
    BY <1>1, SumGrows
  <2> QED
    BY <1>2, <2>1
<1>5. HoldsRun(v, n + 1)
  BY <1>2, <1>3, <1>4, FieldsOfChannel DEF HoldsRun
<1> QED
  BY <1>2, <1>5 DEF v

(* The next element of a run and the window is not full, ... *)
LEMMA WindowFills ==
    ASSUME NEW Q, NEW S, NEW lead \in Q, NEW size \in Nat \ {0},
           NEW w \in ChannelOf(Q, S), NEW n \in 1 .. size - 1, HoldsRun(w, n),
           NEW t \in 1 .. MaxTime, t = w.lastLogTime + 1
    PROVE  /\ Windowed(w, t, lead, size).out = {}
           /\ Windowed(w, t, lead, size).kept \in ChannelOf(Q, S)
           /\ Windowed(w, t, lead, size).kept.lastLogTime = t
           /\ HoldsRun(Windowed(w, t, lead, size).kept, n + 1)
<1> DEFINE last == w.lastLogTime
           r == Windowed(w, t, lead, size)
<1>1. /\ last \in Int /\ w.lists[lead] = Run(last, n)
      /\ \A s \in S : w.sums[s] = SumOfRun(last, n)
  BY FieldsOfChannel, TimesInRange DEF HoldsRun
<1>2. w.lists[lead] # <<>> /\ Len(w.lists[lead]) = n /\ t - last = 1 /\ n # size /\ n \in Nat
  BY <1>1, RunIsEmpty
<1>3. r = [kept |-> PushBack(AddToSums(w, t), t), out |-> {}]
  BY <1>2 DEF Windowed
<1> QED
  BY <1>1, <1>2, <1>3, WindowGrows

(* ... or it is, and a line is printed. *)
LEMMA WindowIsFull ==
    ASSUME NEW Q, NEW S, NEW lead \in Q, NEW size \in Nat \ {0}, S \subseteq Q \X {1, 2},
           NEW w \in ChannelOf(Q, S), HoldsRun(w, size),
           NEW t \in 1 .. MaxTime, t = w.lastLogTime + 1
    PROVE  /\ Windowed(w, t, lead, size).out = {Line(w, t)}
           /\ Windowed(w, t, lead, size).kept \in ChannelOf(Q, S)
           /\ Windowed(w, t, lead, size).kept.lastLogTime = t
           /\ HoldsRun(Windowed(w, t, lead, size).kept, size)
<1> DEFINE last == w.lastLogTime
           r == Windowed(w, t, lead, size)
           v == PopFront(w)
<1>1. last \in Int /\ w.lists[lead] = Run(last, size)
  BY FieldsOfChannel, TimesInRange DEF HoldsRun
<1>2. w.lists[lead] # <<>> /\ Len(w.lists[lead]) = size /\ t - last = 1
  BY <1>1, RunIsEmpty
<1>3. r = [kept |-> PushBack(AddToSums(v, t), t), out |-> {Line(w, t)}]
  BY <1>2 DEF Windowed
<1>4. /\ v \in ChannelOf(Q, S) /\ v.lastLogTime = last /\ HoldsRun(v, size - 1)
      /\ \A s \in S : v.sums[s] = SumOfRun(last, size - 1)
  BY PoppedWindow
<1> HIDE DEF v
<1>5. LET x == PushBack(AddToSums(v, t), t) IN
      x \in ChannelOf(Q, S) /\ x.lastLogTime = t /\ HoldsRun(x, size - 1 + 1)
  BY <1>4, WindowGrows
<1> QED
  BY <1>3, <1>5

-----------------------------------------------------------------------------
(* Types *)

LEMMA ConfigurationTypes ==
    ASSUME config \in Configurations
    PROVE  /\ config.experimentId \in Nat
           /\ Channel = ChannelOf(Quantities(config.experimentId), Sums(config.experimentId))
BY InputsAssumption DEF Configuration, Channel, ChannelOf

LEMMA NewChannelType ==
    ASSUME NEW id \in Nat
    PROVE  /\ NewChannel(id) \in ChannelOf(Quantities(id), Sums(id))
           /\ HoldsRun(NewChannel(id), 0)
<1> DEFINE Q == Quantities(id)
           S == Sums(id)
<1> HIDE DEF Q, S
<1>1. [q \in Q |-> <<>>] \in [Q -> Seq(1 .. MaxTime)] /\ [s \in S |-> Once(0)] \in [S -> FormalSums]
  BY SumsAreFormal, EmptySeq
<1>2. NewChannel(id) = [lastLogTime |-> 0, lists |-> [q \in Q |-> <<>>], sums |-> [s \in S |-> Once(0)]]
  BY DEF NewChannel, Q, S
<1>3. NewChannel(id) \in ChannelOf(Q, S)
  BY <1>1, <1>2, TimesInRange DEF ChannelOf
<1>4. \A q \in Q : NewChannel(id).lists[q] = Run(NewChannel(id).lastLogTime, 0)
  BY <1>2, RunIsEmpty
<1> QED
  BY <1>2, <1>3, <1>4 DEF HoldsRun, Q, S

LEMMA WindowedTypes ==
    ASSUME NEW Q, NEW S, NEW lead \in Q, NEW size \in Nat \ {0}, S \subseteq Q \X {1, 2},
           NEW w \in ChannelOf(Q, S), NEW n \in 0 .. size, HoldsRun(w, n), NEW t \in 1 .. MaxTime
    PROVE  /\ Windowed(w, t, lead, size).kept \in ChannelOf(Q, S)
           /\ \A l \in Windowed(w, t, lead, size).out : l.time = t
<1>1. CASE n = 0 \/ t # w.lastLogTime + 1
  BY <1>1, WindowStarts
<1>2. CASE n = size /\ t = w.lastLogTime + 1
  BY <1>2, WindowIsFull DEF Line
<1>3. CASE n \in 1 .. size - 1 /\ t = w.lastLogTime + 1
  BY <1>3, WindowFills
<1> QED
  BY <1>1, <1>2, <1>3

(* What a write keeps is a channel, and what it prints has its time. *)
LEMMA WriteTypes ==
    ASSUME NEW id \in Nat, NEW w \in ChannelOf(Quantities(id), Sums(id)), NEW t \in 1 .. MaxTime,
           id \in WindowedIds =>
               \E n \in 0 .. WindowOf(id) : HoldsRun(w, n)
    PROVE  /\ WriteData(id, w, t).kept \in ChannelOf(Quantities(id), Sums(id))
           /\ \A l \in WriteData(id, w, t).out : l.time = t
<1>1. CASE id \in WindowedIds
  <2>1. PICK n \in 0 .. WindowOf(id) : HoldsRun(w, n)
    BY <1>1
  <2>2. WriteData(id, w, t) = Windowed(w, t, Lead(id), WindowOf(id))
    BY <1>1, WriteIsWindowed
  <2>3. Lead(id) \in Quantities(id) /\ Sums(id) \subseteq Quantities(id) \X {1, 2}
    BY <1>1, LeadIsQuantity
  <2>4. WindowOf(id) \in Nat \ {0} /\ n \in Nat
    BY <1>1, SizePositive
  <2> QED
    BY <2>1, <2>2, <2>3, <2>4, WindowedTypes
<1>2. CASE id \in {0, 1, 5, 15}
  BY <1>2, WriteIsDirect DEF Direct, Line
<1>3. CASE id \notin 0 .. 15
  BY <1>3, WriteIsNothing DEF Nothing
<1> QED
  BY <1>1, <1>2, <1>3 DEF WindowedIds

-----------------------------------------------------------------------------
(* The inductive invariant *)

(* The window of channel c is the run of usable elements that ends with the
   last one, as long as the window allows. *)
HoldsLastRun(c, n) ==
    LET last == channel[c].lastLogTime IN
    /\ HoldsRun(channel[c], n)
    /\ \A u \in DOMAIN matched : UsableAt(c, u) => n > 0 /\ u <= last
    /\ n > 0 => last \in DOMAIN matched
    /\ \A u \in last - n + 1 .. last : UsableAt(c, u)
    /\ n < WindowOf(config.experimentId) => \A u \in {last - n} : ~UsableAt(c, u)

WindowInv ==
    config.experimentId \in WindowedIds =>
        \A c \in Channels : \E n \in 0 .. WindowOf(config.experimentId) : HoldsLastRun(c, n)

(* Printed are the elements that end a full window, and with what was held
   just before. *)
Ends(c, t) ==
    t \in DOMAIN matched /\ \A u \in t - WindowOf(config.experimentId) .. t : UsableAt(c, u)

LinesOf(c) ==
    /\ \A t \in DOMAIN matched : Ends(c, t) => \E l \in lines[c] : l.time = t
    /\ \A l \in lines[c] :
           /\ Ends(c, l.time)
           /\ \A q \in Quantities(config.experimentId) :
                  l.lists[q] = Run(l.time - 1, WindowOf(config.experimentId))
           /\ \A s \in Sums(config.experimentId) :
                  l.sums[s] = SumOfRun(l.time - 1, WindowOf(config.experimentId))

LinesInv ==
    /\ config.experimentId \in 0 .. 15 => \A c \in Channels : LinesOf(c)
    /\ config.experimentId \notin 0 .. 15 => \A c \in Channels : lines[c] = {}

(* Counters have the intervals of their experiment. *)
CountersInv ==
    /\ program = "terminated" => config.experimentId = 19
    /\ config.experimentId \in {18, 19} => \A c \in Channels :
           DOMAIN counters[c] = 0 .. intervalCount[config.experimentId] - 1

IInv == TypeOK /\ WindowInv /\ LinesInv /\ CountersInv

LEMMA LabelInterval ==
    ASSUME NEW v \in Labels
    PROVE  InUnitInterval(v) <=> v \in 1 .. One - 1
BY HistogramsAssumption DEF InUnitInterval, Labels, NaN

(* The blocks of mergeData and the table agree. *)
LEMMA TakesIsUsable ==
    ASSUME config \in Configurations, NEW c \in Channels, NEW e \in Elements,
           config.experimentId \in 0 .. 15
    PROVE  Takes(c, e) <=> Usable(c, e)
<1> DEFINE id == config.experimentId
<1>1. e.s4[c] \in Labels /\ e.sigmaPhi[c] \in Labels
  BY InputsAssumption DEF LearningData
<1>2. /\ InUnitInterval(e.s4[c]) <=> e.s4[c] \in 1 .. One - 1
      /\ InUnitInterval(e.sigmaPhi[c]) <=> e.sigmaPhi[c] \in 1 .. One - 1
  BY <1>1, LabelInterval
<1>3. c \in {"L1", "L2"}
  BY DEF Channels
<1> USE DEF Takes, Usable, Reaches, NeedsS4, NeedsSigmaPhi, Listens, FirstChannel, OwnChannel
<1>4. CASE id \in {0, 1, 2}
  BY <1>3, <1>4 DEF Reaches0, Reaches1, Reaches2
<1>5. CASE id \in {3, 6}
  BY <1>2, <1>3, <1>5 DEF Reaches3, Reaches6
<1>6. CASE id \in {4, 7, 9, 10, 12}
  BY <1>2, <1>3, <1>6 DEF Reaches4, Reaches7, Reaches9, Reaches10, Reaches12
<1>7. CASE id \in {8, 11, 13, 14, 15}
  BY <1>2, <1>3, <1>7 DEF Reaches8, Reaches11, Reaches13, Reaches14, Reaches15
<1>8. CASE id = 5
  BY <1>2, <1>3, <1>8 DEF Reaches5
<1>9. id \in {0, 1, 2} \/ id \in {3, 6} \/ id \in {4, 7, 9, 10, 12} \/ id \in {8, 11, 13, 14, 15} \/ id = 5
  OBVIOUS
<1> QED
  BY <1>4, <1>5, <1>6, <1>7, <1>8, <1>9

(* What a new element changes for a channel. *)
LEMMA MatchFacts ==
    ASSUME TypeOK, NEW t \in 1 .. MaxTime, NEW e \in Elements, Match(t, e), NEW c \in Channels
    PROVE  /\ config' = config
           /\ DOMAIN matched \subseteq Int /\ t \in Int /\ \A u \in DOMAIN matched : u < t
           /\ DOMAIN matched' = DOMAIN matched \union {t}
           /\ \A u \in Int : UsableAt(c, u)' <=> UsableAt(c, u) \/ (u = t /\ Usable(c, e))
           /\ channel'[c] = IF Takes(c, e) THEN WriteData(config.experimentId, channel[c], t).kept
                                           ELSE channel[c]
           /\ lines'[c] = IF Takes(c, e)
                          THEN lines[c] \union WriteData(config.experimentId, channel[c], t).out
                          ELSE lines[c]
<1>1. config' = config /\ matched' = [u \in DOMAIN matched \union {t} |-> IF u = t THEN e ELSE matched[u]]
  BY DEF Match
<1>2. /\ DOMAIN matched \subseteq Int /\ t \in Int /\ \A u \in DOMAIN matched : u < t
      /\ DOMAIN matched' = DOMAIN matched \union {t}
  BY <1>1, TimesInRange DEF Match, TypeOK
<1>3. \A u \in Int : UsableAt(c, u)' <=> UsableAt(c, u) \/ (u = t /\ Usable(c, e))
  <2> TAKE u \in Int
  <2>1. CASE u = t
    <3>1. ~UsableAt(c, u)
      BY <1>2, <2>1 DEF UsableAt
    <3>2. u \in DOMAIN matched' /\ matched'[u] = e
      BY <1>1, <2>1
    <3>3. Usable(c, matched[u])' <=> Usable(c, e)
      BY <1>1, <3>2 DEF Usable, Selected, ChannelSelected, Listens
    <3> QED
      BY <2>1, <3>1, <3>2, <3>3 DEF UsableAt
  <2>2. CASE u # t /\ u \in DOMAIN matched
    <3>1. u \in DOMAIN matched' /\ matched'[u] = matched[u]
      BY <1>1, <2>2
    <3>2. Usable(c, matched[u])' <=> Usable(c, matched[u])
      BY <1>1, <3>1 DEF Usable, Selected, ChannelSelected, Listens
    <3> QED
      BY <2>2, <3>1, <3>2 DEF UsableAt
  <2>3. CASE u # t /\ u \notin DOMAIN matched
    BY <1>2, <2>3 DEF UsableAt
  <2> QED
    BY <2>1, <2>2, <2>3
<1>4. /\ channel'[c] = IF Takes(c, e) THEN WriteData(config.experimentId, channel[c], t).kept
                                      ELSE channel[c]
      /\ lines'[c] = IF Takes(c, e)
                     THEN lines[c] \union WriteData(config.experimentId, channel[c], t).out
                     ELSE lines[c]
  BY DEF Match, Nothing
<1> QED
  BY <1>1, <1>2, <1>3, <1>4

(* The lines of earlier elements stay what they have to be. *)
LEMMA LinesStep ==
    ASSUME TypeOK, NEW t \in 1 .. MaxTime, NEW e \in Elements, Match(t, e), NEW c \in Channels,
           LinesOf(c), WindowOf(config.experimentId) \in Nat, NEW new,
           lines'[c] = lines[c] \union new,
           Ends(c, t)' => \E l \in new : l.time = t,
           \A l \in new :
               /\ l.time = t /\ Ends(c, t)'
               /\ \A q \in Quantities(config.experimentId) :
                      l.lists[q] = Run(t - 1, WindowOf(config.experimentId))
               /\ \A s \in Sums(config.experimentId) :
                      l.sums[s] = SumOfRun(t - 1, WindowOf(config.experimentId))
    PROVE  LinesOf(c)'
<1>1. /\ config' = config /\ DOMAIN matched' = DOMAIN matched \union {t}
      /\ DOMAIN matched \subseteq Int /\ t \in Int /\ \A u \in DOMAIN matched : u < t
      /\ \A u \in Int : UsableAt(c, u)' <=> UsableAt(c, u) \/ (u = t /\ Usable(c, e))
  BY MatchFacts
<1>2. \A u \in DOMAIN matched : Ends(c, u)' <=> Ends(c, u)
  <2> TAKE u \in DOMAIN matched
  <2>1. \A v \in u - WindowOf(config.experimentId) .. u : UsableAt(c, v)' <=> UsableAt(c, v)
    BY <1>1
  <2> QED
    BY <1>1, <2>1 DEF Ends
<1>3. \A u \in DOMAIN matched' : Ends(c, u)' => \E l \in lines'[c] : l.time = u
  <2> SUFFICES ASSUME NEW u \in DOMAIN matched', Ends(c, u)'
               PROVE  \E l \in lines'[c] : l.time = u
    OBVIOUS
  <2>1. CASE u = t
    BY <2>1
  <2>2. CASE u \in DOMAIN matched
    BY <1>2, <2>2 DEF LinesOf
  <2> QED
    BY <1>1, <2>1, <2>2
<1>4. ASSUME NEW l \in lines'[c]
      PROVE  /\ Ends(c, l.time)'
             /\ \A q \in Quantities(config.experimentId) :
                    l.lists[q] = Run(l.time - 1, WindowOf(config.experimentId))
             /\ \A s \in Sums(config.experimentId) :
                    l.sums[s] = SumOfRun(l.time - 1, WindowOf(config.experimentId))
  <2>1. CASE l \in new
    BY <2>1
  <2>2. CASE l \in lines[c]
    <3>1. l.time \in DOMAIN matched
      BY <2>2 DEF TypeOK
    <3> QED
      BY <1>2, <2>2, <3>1 DEF LinesOf
  <2> QED
    BY <2>1, <2>2
<1> QED
  BY <1>1, <1>3, <1>4 DEF LinesOf

LEMMA WindowStep ==
    ASSUME TypeOK, NEW t \in 1 .. MaxTime, NEW e \in Elements, Match(t, e), NEW c \in Channels,
           config.experimentId \in WindowedIds, LinesOf(c),
           NEW n \in 0 .. WindowOf(config.experimentId), HoldsLastRun(c, n)
    PROVE  /\ (\E m \in 0 .. WindowOf(config.experimentId) : HoldsLastRun(c, m))'
           /\ LinesOf(c)'
<1> DEFINE id == config.experimentId
           Q == Quantities(id)
           S == Sums(id)
           size == WindowOf(id)
           w == channel[c]
           last == w.lastLogTime
           r == Windowed(w, t, Lead(id), size)
<1>1. /\ config' = config
      /\ DOMAIN matched \subseteq Int /\ t \in Int /\ \A u \in DOMAIN matched : u < t
      /\ DOMAIN matched' = DOMAIN matched \union {t}
      /\ \A u \in Int : UsableAt(c, u)' <=> UsableAt(c, u) \/ (u = t /\ Usable(c, e))
  BY MatchFacts
<1>2. /\ channel'[c] = IF Usable(c, e) THEN r.kept ELSE w
      /\ lines'[c] = IF Usable(c, e) THEN lines[c] \union r.out ELSE lines[c]
  <2>1. Takes(c, e) <=> Usable(c, e)
    BY TakesIsUsable DEF WindowedIds, TypeOK
  <2>2. WriteData(id, w, t) = r
    BY WriteIsWindowed
  <2>3. channel'[c] = IF Takes(c, e) THEN WriteData(id, w, t).kept ELSE w
    BY MatchFacts
  <2>4. lines'[c] = IF Takes(c, e) THEN lines[c] \union WriteData(id, w, t).out ELSE lines[c]
    BY MatchFacts
  <2> HIDE DEF id, w, r
  <2> QED
    BY <2>1, <2>2, <2>3, <2>4
<1>3. /\ w \in ChannelOf(Q, S) /\ Lead(id) \in Q /\ S \subseteq Q \X {1, 2}
      /\ size \in Nat \ {0} /\ last \in Int /\ n \in 0 .. size
  BY LeadIsQuantity, SizePositive, ConfigurationTypes, FieldsOfChannel, TimesInRange DEF TypeOK
<1>4. /\ HoldsRun(w, n)
      /\ \A u \in DOMAIN matched : UsableAt(c, u) => n > 0 /\ u <= last
      /\ n > 0 => last \in DOMAIN matched
      /\ \A u \in last - n + 1 .. last : UsableAt(c, u)
      /\ n < size => ~UsableAt(c, last - n)
      /\ \A u : UsableAt(c, u) => u \in DOMAIN matched
  BY DEF HoldsLastRun, UsableAt
<1> HIDE DEF id, Q, S, size, w, r
<1> DEFINE usable(u) == UsableAt(c, u) \/ (u = t /\ Usable(c, e))
           held(v, m) ==
        /\ HoldsRun(v, m)
        /\ \A u \in DOMAIN matched \union {t} : usable(u) => m > 0 /\ u <= v.lastLogTime
        /\ m > 0 => v.lastLogTime \in DOMAIN matched \union {t}
        /\ \A u \in v.lastLogTime - m + 1 .. v.lastLogTime : usable(u)
        /\ m < size => ~usable(v.lastLogTime - m)
           ends == \A u \in t - size .. t : usable(u)
           printed(new) ==
        /\ lines'[c] = lines[c] \union new
        /\ ends => \E l \in new : l.time = t
        /\ \A l \in new :
               /\ l.time = t /\ ends
               /\ \A q \in Q : l.lists[q] = Run(t - 1, size)
               /\ \A s \in S : l.sums[s] = SumOfRun(t - 1, size)
<1>5. ASSUME NEW m \in 0 .. size, NEW v \in ChannelOf(Q, S), v = channel'[c], held(v, m)
      PROVE  (\E k \in 0 .. WindowOf(config.experimentId) : HoldsLastRun(c, k))'
  <2>1. v.lastLogTime \in Int /\ m \in Int
    BY <1>5, FieldsOfChannel, TimesInRange
  <2>2. \A u \in Int : UsableAt(c, u)' <=> usable(u)
    BY <1>1
  <2>3. \A u \in {v.lastLogTime - m} : u \in Int /\ (m < size => ~usable(u))
    BY <1>5, <2>1
  <2> HIDE DEF usable
  <2>4. HoldsLastRun(c, m)'
    BY <1>1, <1>5, <2>1, <2>2, <2>3 DEF HoldsLastRun, size, id
  <2> QED
    BY <1>1, <1>5, <2>4 DEF size, id
<1>6. ASSUME NEW new, printed(new)
      PROVE  LinesOf(c)'
  <2>1. Ends(c, t)' <=> ends
    BY <1>1, <1>3 DEF Ends, size, id
  <2> HIDE DEF ends
  <2> QED
    BY <1>3, <1>6, <2>1, LinesStep DEF Q, S, size, id
<1>7. \A u \in DOMAIN matched : u \in Int /\ u < t
  BY <1>1
<1>8. CASE ~Usable(c, e)
  <2>1. held(w, n) /\ channel'[c] = w
    BY <1>2, <1>3, <1>4, <1>7, <1>8
  <2>2. ~ends
    BY <1>1, <1>3, <1>4, <1>7, <1>8
  <2>3. printed({})
    BY <1>2, <1>8, <2>2
  <2> HIDE DEF held, printed
  <2> QED
    BY <1>3, <1>5, <1>6, <2>1, <2>3
<1>9. CASE Usable(c, e) /\ (n = 0 \/ t # last + 1)
  <2>1. /\ r.out = {} /\ r.kept.lastLogTime = t /\ HoldsRun(r.kept, 1)
        /\ r.kept \in ChannelOf(Q, S)
    BY <1>3, <1>4, <1>9, WindowStarts DEF r
  <2>2. ~usable(t - 1) /\ t - 1 \in t - size .. t
    BY <1>1, <1>3, <1>4, <1>7, <1>9
  <2>3. held(r.kept, 1) /\ channel'[c] = r.kept
    BY <1>1, <1>2, <1>3, <1>7, <1>9, <2>1, <2>2
  <2>4. printed({})
    BY <1>2, <1>9, <2>1, <2>2
  <2>5. 1 \in 0 .. size
    BY <1>3
  <2> HIDE DEF held, printed
  <2> QED
    BY <1>5, <1>6, <2>1, <2>3, <2>4, <2>5
<1>10. CASE Usable(c, e) /\ n \in 1 .. size - 1 /\ t = last + 1
  <2>1. /\ r.out = {} /\ r.kept.lastLogTime = t /\ HoldsRun(r.kept, n + 1)
        /\ r.kept \in ChannelOf(Q, S)
    <3>1. HoldsRun(w, n) /\ t = w.lastLogTime + 1 /\ n \in 1 .. size - 1
      BY <1>4, <1>10
    <3> HIDE DEF last
    <3> QED
      BY <1>3, <3>1, WindowFills DEF r
  <2>2. ~usable(last - n) /\ last - n \in t - size .. t /\ last - n = t - (n + 1)
    BY <1>1, <1>3, <1>4, <1>10
  <2>3. held(r.kept, n + 1) /\ channel'[c] = r.kept
    <3>1. \A u \in t - (n + 1) + 1 .. t : usable(u)
      BY <1>1, <1>3, <1>4, <1>10
    <3> QED
      BY <1>1, <1>2, <1>3, <1>7, <1>10, <2>1, <2>2, <3>1
  <2>4. printed({})
    BY <1>2, <1>10, <2>1, <2>2
  <2>5. n + 1 \in 0 .. size
    BY <1>3, <1>10
  <2> HIDE DEF held, printed
  <2> QED
    BY <1>5, <1>6, <2>1, <2>3, <2>4, <2>5
<1>11. CASE Usable(c, e) /\ n = size /\ t = last + 1
  <2>1. /\ r.out = {Line(w, t)} /\ r.kept.lastLogTime = t /\ HoldsRun(r.kept, size)
        /\ r.kept \in ChannelOf(Q, S)
    BY <1>3, <1>4, <1>11, WindowIsFull DEF r
  <2>2. ends
    BY <1>1, <1>3, <1>4, <1>11
  <2>3. held(r.kept, size) /\ channel'[c] = r.kept
    BY <1>1, <1>2, <1>3, <1>7, <1>11, <2>1, <2>2
  <2>4. /\ \A q \in Q : w.lists[q] = Run(t - 1, size)
        /\ \A s \in S : w.sums[s] = SumOfRun(t - 1, size)
    <3>1. t - 1 = last /\ size > 0 /\ n = size
      BY <1>1, <1>3, <1>11
    <3>2. DOMAIN w.lists = Q /\ DOMAIN w.sums = S
      BY <1>3, FieldsOfChannel
    <3> QED
      BY <1>4, <3>1, <3>2 DEF HoldsRun
  <2>5. printed({Line(w, t)})
    BY <1>2, <1>11, <2>1, <2>2, <2>4 DEF Line
  <2>6. size \in 0 .. size
    BY <1>3
  <2> HIDE DEF held, printed
  <2> QED
    BY <1>5, <1>6, <2>1, <2>3, <2>5, <2>6
<1> QED
  BY <1>3, <1>8, <1>9, <1>10, <1>11

LEMMA DirectStep ==
    ASSUME TypeOK, NEW t \in 1 .. MaxTime, NEW e \in Elements, Match(t, e), NEW c \in Channels,
           config.experimentId \in {0, 1, 5, 15}, LinesOf(c)
    PROVE  LinesOf(c)'
<1> DEFINE w == channel[c]
<1>1. /\ config' = config
      /\ DOMAIN matched \subseteq Int /\ t \in Int /\ \A u \in DOMAIN matched : u < t
      /\ DOMAIN matched' = DOMAIN matched \union {t}
      /\ \A u \in Int : UsableAt(c, u)' <=> UsableAt(c, u) \/ (u = t /\ Usable(c, e))
  BY MatchFacts
<1>2. /\ lines'[c] = IF Usable(c, e) THEN lines[c] \union {Line(w, t)} ELSE lines[c]
      /\ WindowOf(config.experimentId) = 0
  <2>1. Takes(c, e) <=> Usable(c, e)
    BY TakesIsUsable DEF TypeOK
  <2>2. WriteData(config.experimentId, w, t) = Direct(w, t) /\ WindowOf(config.experimentId) = 0
    BY WriteIsDirect
  <2>3. lines'[c] = IF Takes(c, e)
                    THEN lines[c] \union WriteData(config.experimentId, w, t).out ELSE lines[c]
    BY MatchFacts
  <2> QED
    BY <2>1, <2>2, <2>3 DEF Direct
<1>3. Quantities(config.experimentId) = {} /\ Sums(config.experimentId) = {}
  BY DEF Quantities, Sums
<1>4. Ends(c, t)' <=> Usable(c, e)
  <2>1. Ends(c, t)' <=> UsableAt(c, t)'
    BY <1>1, <1>2 DEF Ends
  <2>2. ~UsableAt(c, t)
    BY <1>1 DEF UsableAt
  <2> QED
    BY <1>1, <2>1, <2>2
<1> DEFINE new == IF Usable(c, e) THEN {Line(w, t)} ELSE {}
<1>5. /\ lines'[c] = lines[c] \union new
      /\ Usable(c, e) => \E l \in new : l.time = t
      /\ \A l \in new : l.time = t /\ Usable(c, e)
  <2>1. Line(w, t).time = t
    BY DEF Line
  <2>2. CASE Usable(c, e)
    BY <1>2, <2>1, <2>2
  <2>3. CASE ~Usable(c, e)
    BY <1>2, <2>3
  <2> QED
    BY <2>2, <2>3
<1> HIDE DEF new
<1>6. WindowOf(config.experimentId) \in Nat
  BY <1>2
<1>7. \A l \in new :
           /\ l.time = t /\ Ends(c, t)'
           /\ \A q \in Quantities(config.experimentId) :
                  l.lists[q] = Run(t - 1, WindowOf(config.experimentId))
           /\ \A s \in Sums(config.experimentId) :
                  l.sums[s] = SumOfRun(t - 1, WindowOf(config.experimentId))
  BY <1>3, <1>4, <1>5
<1> QED
  BY <1>4, <1>5, <1>6, <1>7, LinesStep

(* Histograms keep their type. *)
LEMMA CountTypes ==
    ASSUME TypeOK, NEW t \in 1 .. MaxTime, NEW e \in Elements, Match(t, e), NEW c \in Channels
    PROVE  counters'[c] \in [DOMAIN counters'[c] -> Nat]
<1>1. counters'[c] = Count(c, e) /\ counters[c] \in [DOMAIN counters[c] -> Nat]
  BY DEF Match, TypeOK
<1>2. ASSUME NEW D, NEW h \in [D -> Nat], NEW i
      PROVE  [h EXCEPT ![i] = @ + 1] \in [D -> Nat]
  <2>1. \A j \in D : h[j] \in Nat /\ h[j] + 1 \in Nat
    BY <1>2
  <2> QED
    BY <2>1
<1>3. Count(c, e) \in [DOMAIN counters[c] -> Nat]
  BY <1>1, <1>2 DEF Count
<1> QED
  BY <1>1, <1>3

LEMMA MatchTypes ==
    ASSUME IInv, NEW t \in 1 .. MaxTime, NEW e \in Elements, Match(t, e)
    PROVE  TypeOK'
<1> USE DEF IInv
<1> DEFINE id == config.experimentId
<1>1. config' \in Configurations /\ config' = config
  BY DEF Match, TypeOK
<1>2. DOMAIN matched' \subseteq 1 .. MaxTime /\ \A u \in DOMAIN matched' : matched'[u] \in Elements
  BY DEF Match, TypeOK
<1>3. \A c \in Channels : /\ WriteData(id, channel[c], t).kept \in Channel
                          /\ \A l \in WriteData(id, channel[c], t).out : l.time = t
  <2> TAKE c \in Channels
  <2>1. Channel = ChannelOf(Quantities(id), Sums(id)) /\ id \in Nat /\ channel[c] \in Channel
    BY ConfigurationTypes DEF TypeOK
  <2>2. id \in WindowedIds => \E n \in 0 .. WindowOf(id) : HoldsRun(channel[c], n)
    BY DEF WindowInv, HoldsLastRun
  <2> QED
    BY <2>1, <2>2, WriteTypes
<1>4. channel' \in [Channels -> Channel']
  <2>1. Channel' = Channel
    BY <1>1 DEF Channel
  <2>2. \A c \in Channels : channel'[c] \in Channel
    BY <1>3, MatchFacts DEF TypeOK
  <2>3. channel' = [c \in Channels |-> channel'[c]]
    BY DEF Match
  <2> QED
    BY <2>1, <2>2, <2>3
<1>5. \A c \in Channels : \A l \in lines'[c] : l.time \in DOMAIN matched'
  <2> SUFFICES ASSUME NEW c \in Channels, NEW l \in lines'[c] PROVE l.time \in DOMAIN matched'
    OBVIOUS
  <2>1. DOMAIN matched' = DOMAIN matched \union {t}
    BY MatchFacts
  <2>2. l \in lines[c] \/ l \in WriteData(id, channel[c], t).out
    BY MatchFacts
  <2> QED
    BY <1>3, <2>1, <2>2 DEF TypeOK
<1>6. \A c \in Channels : counters'[c] \in [DOMAIN counters'[c] -> Nat]
  BY CountTypes
<1>7. pushed' \in [Channels -> Seq(1 .. MaxTime)]
  <2>1. \A c \in Channels : Append(pushed[c], t) \in Seq(1 .. MaxTime) /\ pushed[c] \in Seq(1 .. MaxTime)
    BY AppendProperties DEF TypeOK
  <2> QED
    BY <2>1 DEF Match
<1>8. /\ merging' \in BOOLEAN /\ isStopThreads' \in BOOLEAN
      /\ program' \in {"running", "deleted", "terminated"}
  BY DEF Match, TypeOK
<1> QED
  BY <1>1, <1>2, <1>4, <1>5, <1>6, <1>7, <1>8 DEF TypeOK

(* A value between 0 and 1 has an interval. *)
LEMMA IntervalExists ==
    ASSUME NEW k \in Nat \ {0}, NEW s \in Nat \ {0}, k * s = One, NEW v \in 1 .. One - 1
    PROVE  v \div s \in 0 .. k - 1
<1> DEFINE q == v \div s
<1>1. q \in Nat /\ q * s <= v
  BY HistogramsAssumption
<1>2. ASSUME q >= k PROVE FALSE
  <2>1. q * s >= k * s
    BY <1>1, <1>2
  <2> QED
    BY <1>1, <2>1, HistogramsAssumption
<1> HIDE DEF q
<1>3. q \in 0 .. k - 1
  BY <1>1, <1>2
<1> QED
  BY <1>3 DEF q

LEMMA MatchCounters ==
    ASSUME TypeOK, CountersInv, NEW t \in 1 .. MaxTime, NEW e \in Elements, Match(t, e)
    PROVE  CountersInv'
<1> DEFINE id == config.experimentId
<1>1. config' = config /\ program # "terminated"
  BY DEF Match
<1>2. \A c \in Channels : DOMAIN counters'[c] = DOMAIN counters[c]
  BY DEF Match, Count
<1>3. ASSUME NEW c \in Channels, Throws(c, e)
      PROVE  id = 19
  <2>1. SUFFICES ASSUME id = 18 PROVE FALSE
    BY <1>3 DEF Throws, HasHistogram
  <2>2. e.s4[c] \in 1 .. One - 1
    <3>1. InUnitInterval(e.s4[c])
      BY <1>3, <2>1 DEF Throws, Takes, Reaches, Reaches18
    <3>2. e.s4[c] \in Labels
      BY InputsAssumption DEF LearningData
    <3> QED
      BY <3>1, <3>2, LabelInterval
  <2>3. e.s4[c] \div stepOfCounter[18] \in 0 .. intervalCount[18] - 1
    BY <2>2, IntervalExists, HistogramsAssumption
  <2> QED
    BY <1>3, <2>1, <2>3 DEF Throws, Interval, CountedValue, CountersInv
<1>4. program' = "terminated" => id = 19
  BY <1>1, <1>3 DEF Match
<1> QED
  BY <1>1, <1>2, <1>4 DEF CountersInv

LEMMA MatchStep ==
    ASSUME IInv, NEW t \in 1 .. MaxTime, NEW e \in Elements, Match(t, e)
    PROVE  IInv'
<1> DEFINE id == config.experimentId
<1>1. TypeOK' /\ TypeOK /\ config' = config /\ id \in Nat
  BY MatchTypes, ConfigurationTypes DEF IInv, Match, TypeOK
<1>2. WindowInv'
  <2>1. ASSUME id \in WindowedIds, NEW c \in Channels
        PROVE  (\E n \in 0 .. WindowOf(config.experimentId) : HoldsLastRun(c, n))'
    <3>1. PICK n \in 0 .. WindowOf(id) : HoldsLastRun(c, n)
      BY <2>1 DEF IInv, WindowInv
    <3>2. LinesOf(c)
      BY <2>1 DEF IInv, LinesInv, WindowedIds
    <3> QED
      BY <1>1, <2>1, <3>1, <3>2, WindowStep
  <2> QED
    BY <1>1, <2>1 DEF WindowInv
<1>3. LinesInv'
  <2>1. ASSUME id \in 0 .. 15, NEW c \in Channels
        PROVE  LinesOf(c)'
    <3>1. LinesOf(c)
      BY <2>1 DEF IInv, LinesInv
    <3>2. CASE id \in WindowedIds
      <4>1. PICK n \in 0 .. WindowOf(id) : HoldsLastRun(c, n)
        BY <3>2 DEF IInv, WindowInv
      <4> QED
        BY <1>1, <3>1, <3>2, <4>1, WindowStep
    <3>3. CASE id \in {0, 1, 5, 15}
      BY <1>1, <3>1, <3>3, DirectStep
    <3> QED
      BY <2>1, <3>2, <3>3 DEF WindowedIds
  <2>2. ASSUME id \notin 0 .. 15, NEW c \in Channels
        PROVE  lines'[c] = {}
    <3>1. WriteData(id, channel[c], t).out = {} /\ lines[c] = {}
      BY <1>1, <2>2, WriteIsNothing DEF Nothing, IInv, LinesInv
    <3>2. lines'[c] = IF Takes(c, e)
                      THEN lines[c] \union WriteData(id, channel[c], t).out ELSE lines[c]
      BY <1>1, MatchFacts
    <3> HIDE DEF id
    <3> QED
      BY <3>1, <3>2
  <2> QED
    BY <1>1, <2>1, <2>2 DEF LinesInv
<1>4. CountersInv'
  BY <1>1, MatchCounters DEF IInv
<1> QED
  BY <1>1, <1>2, <1>3, <1>4 DEF IInv

LEMMA InitInv == Init => IInv
<1> SUFFICES ASSUME Init PROVE IInv
  OBVIOUS
<1> DEFINE id == config.experimentId
<1>1. id \in Nat /\ Channel = ChannelOf(Quantities(id), Sums(id)) /\ config \in Configurations
  BY ConfigurationTypes DEF Init
<1>2. \A c \in Channels : channel[c] \in Channel /\ HoldsRun(channel[c], 0)
  BY <1>1, NewChannelType DEF Init
<1>3. TypeOK
  <2>1. channel \in [Channels -> Channel]
    BY <1>2 DEF Init
  <2>2. pushed \in [Channels -> Seq(1 .. MaxTime)]
    BY EmptySeq DEF Init
  <2>3. \A c \in Channels : counters[c] \in [DOMAIN counters[c] -> Nat]
    BY DEF Init, NewCounters
  <2> QED
    BY <1>1, <2>1, <2>2, <2>3 DEF Init, TypeOK
<1>4. DOMAIN matched = {} /\ \A c \in Channels : lines[c] = {}
  BY DEF Init
<1>5. WindowInv
  <2> SUFFICES ASSUME id \in WindowedIds, NEW c \in Channels
               PROVE  \E n \in 0 .. WindowOf(id) : HoldsLastRun(c, n)
    BY DEF WindowInv
  <2>1. WindowOf(id) \in Nat \ {0} /\ channel[c].lastLogTime \in Int
    BY <1>1, <1>2, SizePositive, FieldsOfChannel, TimesInRange
  <2>2. 0 \in 0 .. WindowOf(id) /\ \A u \in channel[c].lastLogTime - 0 + 1 .. channel[c].lastLogTime : FALSE
    BY <2>1
  <2>3. HoldsLastRun(c, 0)
    BY <1>2, <1>4, <2>2 DEF HoldsLastRun, UsableAt
  <2> QED
    BY <2>2, <2>3
<1>6. LinesInv
  BY <1>4 DEF LinesInv, LinesOf
<1>7. CountersInv
  BY DEF Init, CountersInv, NewCounters
<1> QED
  BY <1>3, <1>5, <1>6, <1>7 DEF IInv

(* The other actions leave the windows alone. *)
LEMMA OtherSteps ==
    ASSUME IInv, BeginMerge \/ EndMerge \/ StopThreads \/ Delete \/ UNCHANGED vars
    PROVE  IInv'
<1>1. UNCHANGED <<config, matched, channel, lines, counters, pushed>>
  BY DEF BeginMerge, EndMerge, StopThreads, Delete, vars
<1>2. /\ merging' \in BOOLEAN /\ isStopThreads' \in BOOLEAN
      /\ program' \in {"running", "deleted", "terminated"}
      /\ program' = "terminated" => program = "terminated"
  BY DEF IInv, TypeOK, BeginMerge, EndMerge, StopThreads, Delete, vars
<1>3. TypeOK'
  BY <1>1, <1>2 DEF IInv, TypeOK, Channel
<1>4. WindowInv' /\ LinesInv'
  <2>1. \A c, u : UsableAt(c, u)' <=> UsableAt(c, u)
    BY <1>1 DEF UsableAt, Usable, Selected, ChannelSelected, Listens
  <2>2. \A c, u : Ends(c, u)' <=> Ends(c, u)
    BY <1>1, <2>1 DEF Ends
  <2>3. \A c, n : HoldsLastRun(c, n)' <=> HoldsLastRun(c, n)
    BY <1>1, <2>1 DEF HoldsLastRun
  <2>4. \A c \in Channels : LinesOf(c)' <=> LinesOf(c)
    BY <1>1, <2>2 DEF LinesOf
  <2>5. WindowInv'
    BY <1>1, <2>3 DEF IInv, WindowInv
  <2>6. LinesInv'
    BY <1>1, <2>4 DEF IInv, LinesInv
  <2> QED
    BY <2>5, <2>6
<1>5. CountersInv'
  BY <1>1, <1>2 DEF IInv, CountersInv
<1> QED
  BY <1>3, <1>4, <1>5 DEF IInv

LEMMA InductiveInv == Spec => []IInv
<1>1. IInv /\ [Next]_vars => IInv'
  <2> SUFFICES ASSUME IInv, [Next]_vars PROVE IInv'
    OBVIOUS
  <2>1. CASE \E t \in 1 .. MaxTime, e \in Elements : Match(t, e)
    BY <2>1, MatchStep
  <2>2. CASE BeginMerge \/ EndMerge \/ StopThreads \/ Delete \/ UNCHANGED vars
    BY <2>2, OtherSteps
  <2> QED
    BY <2>1, <2>2 DEF Next
<1> QED
  BY InitInv, <1>1, PTL DEF Spec

-----------------------------------------------------------------------------
(* Every variable keeps its type, in particular the running sums. *)
THEOREM TypeCorrect == Spec => []TypeOK
<1>1. IInv => TypeOK
  BY DEF IInv
<1> QED
  BY InductiveInv, <1>1, PTL

(* Whatever the gaps and the unusable elements, each windowed experiment
   prints a line for every full window and no other, with the features of
   that window. *)
THEOREM LinesOfWindows == Spec => []LinesAreTheWindows
<1>1. IInv => LinesAreTheWindows
  <2> DEFINE id == config.experimentId
             size == WindowOf(id)
  <2> SUFFICES ASSUME IInv, id \in 0 .. 15, NEW c \in Channels
               PROVE  /\ {l.time : l \in lines[c]} =
                            {t \in DOMAIN matched : \A u \in t - size .. t : UsableAt(c, u)}
                      /\ \A l \in lines[c] : \A q \in Quantities(id) :
                            l.lists[q] = [i \in 1 .. size |-> l.time - size + i - 1]
    BY DEF LinesAreTheWindows
  <2>1. LinesOf(c) /\ TypeOK
    BY DEF IInv, LinesInv
  <2>2. \A t \in {l.time : l \in lines[c]} : Ends(c, t)
    BY <2>1 DEF LinesOf
  <2>3. \A t \in DOMAIN matched : Ends(c, t) => t \in {l.time : l \in lines[c]}
    BY <2>1 DEF LinesOf
  <2>4. {l.time : l \in lines[c]} =
            {t \in DOMAIN matched : \A u \in t - size .. t : UsableAt(c, u)}
    BY <2>2, <2>3 DEF Ends
  <2>5. \A l \in lines[c] : \A q \in Quantities(id) :
            l.lists[q] = [i \in 1 .. size |-> l.time - size + i - 1]
    <3> SUFFICES ASSUME NEW l \in lines[c], NEW q \in Quantities(id)
                 PROVE  l.lists[q] = [i \in 1 .. size |-> l.time - size + i - 1]
      OBVIOUS
    <3>1. l.lists[q] = Run(l.time - 1, size)
      BY <2>1 DEF LinesOf
    <3>2. l.time \in Int
      BY <2>1, TimesInRange DEF TypeOK
    <3>3. id \in WindowedIds \union {0, 1, 5, 15}
      BY DEF WindowedIds
    <3>4. size \in Nat
      BY <3>3, SizePositive DEF WindowOf
    <3> QED
      BY <3>1, <3>2, <3>4 DEF Run
  <2> QED
    BY <2>4, <2>5
<1> QED
  BY InductiveInv, <1>1, PTL

(* The running sums, changed by every element since the program started, are
   the sums of exactly the window whenever a line is printed. *)
THEOREM SumsOfWindows == Spec => []SumsAreOfTheWindow
<1>1. IInv => SumsAreOfTheWindow
  <2> DEFINE id == config.experimentId
             size == WindowOf(id)
  <2> SUFFICES ASSUME IInv, NEW c \in Channels, NEW l \in lines[c], NEW s \in Sums(id)
               PROVE  l.sums[s] =
                        [u \in 0 .. MaxTime |-> IF u \in l.time - size .. l.time - 1 THEN 1 ELSE 0]
    BY DEF SumsAreOfTheWindow
  <2>1. id \in 0 .. 15
    BY DEF IInv, LinesInv
  <2>2. LinesOf(c) /\ TypeOK
    BY <2>1 DEF IInv, LinesInv
  <2>3. l.sums[s] = SumOfRun(l.time - 1, size) /\ l.time \in Int
    BY <2>2, TimesInRange DEF LinesOf, TypeOK
  <2>4. size \in Nat
    <3>1. id \in WindowedIds \union {0, 1, 5, 15}
      BY <2>1 DEF WindowedIds
    <3> QED
      BY <3>1, SizePositive DEF WindowOf
  <2>5. \A u \in 0 .. MaxTime : u \in l.time - 1 - size + 1 .. l.time - 1 <=>
                                u \in l.time - size .. l.time - 1
    BY <2>3, <2>4
  <2> QED
    BY <2>3, <2>5 DEF SumOfRun
<1> QED
  BY InductiveInv, <1>1, PTL

(* No label of experiment 18 is beyond its histogram, however the
   intervals are chosen: they cover (0, 1). *)
THEOREM ExperimentTermination == Spec => []OnlySigmaPhiTerminates
<1>1. IInv => OnlySigmaPhiTerminates
  BY DEF IInv, CountersInv, OnlySigmaPhiTerminates
<1> QED
  BY InductiveInv, <1>1, PTL

-----------------------------------------------------------------------------
(* What the counter of an interval counts, and what is left of it at the end. *)
Counted(c, i) ==
    {t \in DOMAIN matched :
        Takes(c, matched[t]) /\ Interval(CountedValue(c, matched[t])) = i}

HistogramInv ==
    /\ HasHistogram /\ program # "terminated" =>
          \A c \in Channels : \A i \in DOMAIN counters[c] :
              counters[c][i] = Cardinality(Counted(c, i))
    /\ program = "deleted" => histograms = [c \in Printed |-> counters[c]]

(* There are no more elements than times. *)
LEMMA CountedIsFinite ==
    ASSUME TypeOK, NEW c, NEW i
    PROVE  IsFiniteSet(Counted(c, i)) /\ Cardinality(Counted(c, i)) \in Nat
<1>1. IsFiniteSet(1 .. MaxTime)
  BY InputsAssumption, FS_Interval
<1>2. Counted(c, i) \subseteq 1 .. MaxTime
  BY DEF Counted, TypeOK
<1> QED
  BY <1>1, <1>2, FS_Subset, FS_CardinalityType

(* A new element is one more in its own interval. *)
LEMMA CountsOneMore ==
    ASSUME TypeOK, NEW t \in 1 .. MaxTime, NEW e \in Elements, Match(t, e), NEW c, NEW i
    PROVE  /\ t \notin Counted(c, i)
           /\ Counted(c, i)' = IF Takes(c, e) /\ Interval(CountedValue(c, e)) = i
                               THEN Counted(c, i) \union {t} ELSE Counted(c, i)
<1>1. /\ config' = config /\ \A u \in DOMAIN matched : u < t /\ u \in Int
      /\ matched' = [u \in DOMAIN matched \union {t} |-> IF u = t THEN e ELSE matched[u]]
  BY TimesInRange DEF Match, TypeOK
<1>2. t \notin DOMAIN matched /\ DOMAIN matched' = DOMAIN matched \union {t}
      /\ matched'[t] = e /\ \A u \in DOMAIN matched : matched'[u] = matched[u]
  BY <1>1
<1>3. ASSUME NEW f
      PROVE  /\ Takes(c, f)' <=> Takes(c, f)
             /\ Interval(CountedValue(c, f))' = Interval(CountedValue(c, f))
  BY <1>1 DEF Takes, Selected, Reaches, ChannelSelected, FirstChannel, OwnChannel, Interval,
       CountedValue, Reaches0, Reaches1, Reaches2, Reaches3, Reaches4, Reaches5, Reaches6,
       Reaches7, Reaches8, Reaches9, Reaches10, Reaches11, Reaches12, Reaches13, Reaches14,
       Reaches15, Reaches16, Reaches17, Reaches18, Reaches19
<1>4. Counted(c, i)' = {u \in DOMAIN matched \union {t} :
          Takes(c, matched'[u]) /\ Interval(CountedValue(c, matched'[u])) = i}
  BY <1>1, <1>2, <1>3 DEF Counted
<1> QED
  BY <1>2, <1>4 DEF Counted

(* Nothing is counted on either channel if one of them throws, and then the
   program ends. *)
LEMMA MatchHistogram ==
    ASSUME TypeOK, HistogramInv, NEW t \in 1 .. MaxTime, NEW e \in Elements, Match(t, e)
    PROVE  HistogramInv'
<1>1. config' = config /\ program = "running" /\ program' \in {"running", "terminated"}
      /\ (HasHistogram' <=> HasHistogram)
  BY DEF Match, HasHistogram
<1>2. ASSUME HasHistogram, program' # "terminated", NEW c \in Channels, NEW i \in DOMAIN counters'[c]
      PROVE  counters'[c][i] = Cardinality(Counted(c, i)')
  <2>1. \A d \in Channels : ~Throws(d, e)
    BY <1>2 DEF Match
  <2>2. Counts(c, e) <=> Takes(c, e)
    BY <1>2, <2>1 DEF Counts, Channels
  <2>3. counters'[c] = Count(c, e) /\ i \in DOMAIN counters[c]
    BY <1>2 DEF Match, Count
  <2>4. counters[c][i] = Cardinality(Counted(c, i))
    BY <1>1, <1>2, <2>3 DEF HistogramInv
  <2>5. CASE Takes(c, e) /\ Interval(CountedValue(c, e)) = i
    <3>1. counters'[c][i] = counters[c][i] + 1
      BY <2>2, <2>3, <2>5 DEF Count
    <3>2. t \notin Counted(c, i) /\ Counted(c, i)' = Counted(c, i) \union {t}
      BY <2>5, CountsOneMore
    <3>3. Cardinality(Counted(c, i)') = Cardinality(Counted(c, i)) + 1
      BY <3>2, CountedIsFinite, FS_AddElement
    <3> QED
      BY <2>4, <3>1, <3>3
  <2>6. CASE ~(Takes(c, e) /\ Interval(CountedValue(c, e)) = i)
    <3>1. counters'[c][i] = counters[c][i]
      BY <2>2, <2>3, <2>6 DEF Count
    <3>2. Counted(c, i)' = Counted(c, i)
      BY <2>6, CountsOneMore
    <3> QED
      BY <2>4, <3>1, <3>2
  <2> QED
    BY <2>5, <2>6
<1> QED
  BY <1>1, <1>2 DEF HistogramInv

(* Only the destructor prints. *)
LEMMA OtherHistogram ==
    ASSUME HistogramInv, BeginMerge \/ EndMerge \/ StopThreads \/ Delete \/ UNCHANGED vars
    PROVE  HistogramInv'
<1>1. UNCHANGED <<config, matched, counters>>
  BY DEF BeginMerge, EndMerge, StopThreads, Delete, vars
<1>2. program' = "terminated" <=> program = "terminated"
  BY DEF BeginMerge, EndMerge, StopThreads, Delete, vars
<1>3. ASSUME NEW c, NEW i PROVE Counted(c, i)' = Counted(c, i)
  BY <1>1 DEF Counted, Takes, Selected, Reaches, ChannelSelected, FirstChannel, OwnChannel, Interval,
       CountedValue, Reaches0, Reaches1, Reaches2, Reaches3, Reaches4, Reaches5, Reaches6,
       Reaches7, Reaches8, Reaches9, Reaches10, Reaches11, Reaches12, Reaches13, Reaches14,
       Reaches15, Reaches16, Reaches17, Reaches18, Reaches19
<1>4. Printed' = Printed /\ (HasHistogram' <=> HasHistogram)
  BY <1>1 DEF Printed, HasHistogram
<1>5. program' = "deleted" => histograms' = [c \in Printed |-> counters[c]]
  BY DEF HistogramInv, BeginMerge, EndMerge, StopThreads, Delete, vars
<1> QED
  BY <1>1, <1>2, <1>3, <1>4, <1>5 DEF HistogramInv

(* The interval of a value, as the product says it. *)
LEMMA IntervalBounds ==
    ASSUME NEW s \in Nat \ {0}, NEW v \in Labels, NEW i \in Nat
    PROVE  v \div s = i <=> v >= i * s /\ v < (i + 1) * s
<1> DEFINE q == v \div s
<1>1. q \in Int /\ q * s <= v /\ v < (q + 1) * s /\ v \in Int
  BY DEF Labels, NaN
<1> HIDE DEF q
<1>2. ASSUME q < i PROVE ~(v >= i * s)
  <2>1. q + 1 <= i /\ q + 1 \in Int
    BY <1>1, <1>2
  <2>2. (q + 1) * s <= i * s
    BY <2>1
  <2> QED
    BY <1>1, <2>1, <2>2
<1>3. ASSUME q > i PROVE ~(v < (i + 1) * s)
  <2>1. i + 1 <= q
    BY <1>1, <1>3
  <2>2. (i + 1) * s <= q * s
    BY <1>1, <2>1
  <2> QED
    BY <1>1, <2>2
<1>4. ASSUME q = i PROVE v >= i * s /\ v < (i + 1) * s
  BY <1>1, <1>4
<1>5. q = i <=> v >= i * s /\ v < (i + 1) * s
  BY <1>1, <1>2, <1>3, <1>4
<1> QED
  BY <1>5 DEF q

(* Which elements the histograms of a satellite count. *)
LEMMA CountedIsUsable ==
    ASSUME TypeOK, HasHistogram, NEW c \in Printed, NEW t \in DOMAIN matched
    PROVE  /\ c \in Channels
           /\ Takes(c, matched[t]) <=> Selected /\ (config.experimentId = 18 => UsableAt(c, t))
           /\ CountedValue(c, matched[t]) \in Labels
<1> DEFINE e == matched[t]
<1>1. c \in {"L1", "L2"} /\ c \in Channels
  BY DEF Printed, Channels
<1>2. /\ e \in Elements /\ e.s4[c] \in Labels /\ e.sigmaPhi[c] \in Labels
  BY <1>1, InputsAssumption DEF TypeOK, LearningData
<1> HIDE DEF e
<1>3. InUnitInterval(e.s4[c]) <=> e.s4[c] \in 1 .. One - 1
  BY <1>2, LabelInterval
<1>4. CASE config.experimentId = 18
  <2>1. config.satelliteSystemId \in {0, 1}
    BY <1>4 DEF Printed
  <2>2. Takes(c, e) <=> Usable(c, e)
    BY <1>1, <1>3, <1>4, <2>1 DEF Takes, Usable, Reaches, Reaches18, OwnChannel, NeedsS4,
         NeedsSigmaPhi, Listens
  <2>3. UsableAt(c, t) <=> Usable(c, e)
    BY DEF UsableAt, e
  <2>4. Usable(c, e) => Selected
    BY DEF Usable
  <2> QED
    BY <1>1, <1>2, <1>4, <2>2, <2>3, <2>4 DEF CountedValue, e
<1>5. CASE config.experimentId = 19
  <2>1. Takes(c, e) <=> Selected
    BY <1>5 DEF Takes, Reaches, Reaches19
  <2> QED
    BY <1>1, <1>2, <1>5, <2>1 DEF CountedValue, e
<1> QED
  BY <1>4, <1>5 DEF HasHistogram

(* HistogramsAreComplete (the destructors of PredictionsExperiments and of
   IonoZondExperiment19): a printed histogram counts every joined value that is
   its own in the interval the value lies in, whatever intervals, elements and
   filters are chosen. *)
THEOREM HistogramsTheorem == Spec => []HistogramsAreComplete
<1>1. Init => HistogramInv
  <2> SUFFICES ASSUME Init, NEW c \in Channels, NEW i \in DOMAIN counters[c]
               PROVE  counters[c][i] = Cardinality(Counted(c, i))
    BY DEF HistogramInv, Init
  <2>1. counters[c][i] = 0
    BY DEF Init, NewCounters
  <2>2. Counted(c, i) = {}
    BY DEF Init, Counted
  <2> QED
    BY <2>1, <2>2, FS_EmptySet
<1>2. IInv /\ HistogramInv /\ [Next]_vars => HistogramInv'
  <2> SUFFICES ASSUME IInv, HistogramInv, [Next]_vars PROVE HistogramInv'
    OBVIOUS
  <2>1. CASE \E t \in 1 .. MaxTime, e \in Elements : Match(t, e)
    BY <2>1, MatchHistogram DEF IInv
  <2>2. CASE BeginMerge \/ EndMerge \/ StopThreads \/ Delete \/ UNCHANGED vars
    BY <2>2, OtherHistogram
  <2> QED
    BY <2>1, <2>2 DEF Next
<1>3. IInv /\ HistogramInv => HistogramsAreComplete
  <2> SUFFICES ASSUME IInv, HistogramInv, program = "deleted", HasHistogram,
                      NEW c \in DOMAIN histograms, NEW i \in DOMAIN histograms[c]
               PROVE  histograms[c][i] = Cardinality({t \in DOMAIN matched :
                          /\ config.experimentId = 18 => UsableAt(c, t)
                          /\ Selected
                          /\ CountedValue(c, matched[t]) >= i * stepOfCounter[config.experimentId]
                          /\ CountedValue(c, matched[t]) < (i + 1) * stepOfCounter[config.experimentId]})
    BY DEF HistogramsAreComplete
  <2> DEFINE step == stepOfCounter[config.experimentId]
             Meant == {t \in DOMAIN matched :
                          /\ config.experimentId = 18 => UsableAt(c, t)
                          /\ Selected
                          /\ CountedValue(c, matched[t]) >= i * step
                          /\ CountedValue(c, matched[t]) < (i + 1) * step}
  <2>1. histograms = [d \in Printed |-> counters[d]] /\ c \in Printed
    BY DEF HistogramInv
  <2>2. c \in Channels /\ histograms[c] = counters[c] /\ i \in DOMAIN counters[c]
    <3>1. c \in Channels
      BY <2>1 DEF Printed, Channels
    <3>2. histograms[c] = counters[c]
      BY <2>1
    <3> QED
      BY <3>1, <3>2
  <2>3. counters[c][i] = Cardinality(Counted(c, i))
    BY <2>2 DEF HistogramInv
  <2>4. step \in Nat \ {0} /\ i \in Nat
    <3>1. config.experimentId \in 18 .. 19
      BY DEF HasHistogram
    <3>2. DOMAIN counters[c] = 0 .. intervalCount[config.experimentId] - 1
      BY <2>2, <3>1 DEF IInv, CountersInv
    <3> QED
      BY <2>2, <3>1, <3>2, HistogramsAssumption
  <2>5. ASSUME NEW t \in DOMAIN matched
        PROVE  t \in Counted(c, i) <=> t \in Meant
    <3> DEFINE v == CountedValue(c, matched[t])
    <3>1. v \in Labels
          /\ (Takes(c, matched[t]) <=> Selected /\ (config.experimentId = 18 => UsableAt(c, t)))
      BY <2>1, CountedIsUsable DEF IInv
    <3>2. Interval(v) = i <=> v >= i * step /\ v < (i + 1) * step
      <4>1. Interval(v) = v \div step
        BY DEF Interval
      <4> HIDE DEF v, step
      <4> QED
        BY <2>4, <3>1, <4>1, IntervalBounds
    <3> QED
      BY <3>1, <3>2 DEF Counted
  <2>6. Counted(c, i) = Meant
    BY <2>5 DEF Counted
  <2> QED
    BY <2>2, <2>3, <2>6
<1> QED
  BY InductiveInv, <1>1, <1>2, <1>3, PTL DEF Spec
=============================================================================
