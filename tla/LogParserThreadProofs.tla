------------------------ MODULE LogParserThreadProofs ------------------------
(***************************************************************************)
(* Proofs about LogParserThread, for any streams, sizes and numbers of     *)
(* exceptions: types, that the ring of raw data stops the program only     *)
(* when it is stuck, that a group of satellites sees no gap, and that the  *)
(* cuts of the reads do not matter.                                        *)
(*                                                                         *)
(* The inductive invariant relates what is held to what was read           *)
(* (HeldInv), the pointers of the ring to the number of its elements and   *)
(* the elements to the exceptions that left them (StuckInv), the last      *)
(* RANGE log of a group to the time the next one is compared with          *)
(* (GapInv), and what was handed over to the scan of the stream (CutsInv). *)
(***************************************************************************)
EXTENDS LogParserThread, FiniteSetTheorems, SequenceTheorems, WellFoundedInduction, TLAPS

HeldInv ==
    /\ first + countOfProcessed <= received
    /\ IF parsing THEN first + sizeOfData = received /\ countOfProcessed <= sizeOfData
                  ELSE countOfProcessed = 0 /\ sizeOfData = 0

PointersInv ==
    /\ Len(raw) <= RingSize
    /\ end \in {begin + Len(raw), begin + Len(raw) - RingSize}

(* The elements among the first n of s, but the oldest, that end more than a
   header after b. *)
Long(s, b, n) == {i \in 2 .. n : i < RingSize /\ s[i] - b > HeaderLength}

StuckInv ==
    /\ program = "running" =>
          /\ PointersInv
          /\ Cardinality(Long(raw, first, IF parsing THEN Len(raw) - 1 ELSE Len(raw))) <= thrown
    /\ program = "exited" => ~parsing /\ Cardinality(Long(raw, first, RingSize - 1)) <= thrown

Excused(i, to) ==
    \E p \in 0 .. received :
        IsDamagedRange(p) /\ (thrown = 0 => handed[i].at < p /\ p < to)

IsLastRange(i) ==
    /\ handed[i].group = satelliteGroup /\ RangeAt(handed[i].at)
    /\ \A k \in i + 1 .. Len(handed) : ~RangeAt(handed[k].at)

GapInv ==
    /\ \A i \in DOMAIN handed : handed[i].group = satelliteGroup => logsCount > 0
    /\ thrown = 0 => \A i \in DOMAIN handed : handed[i].at < first + countOfProcessed
    /\ \A i \in DOMAIN handed : IsLastRange(i) =>
          lastLogTime = TimeOf(i) \/ Excused(i, first + countOfProcessed)
    /\ GroupsHaveNoGaps

IInv == TypeOK /\ HeldInv /\ StuckInv /\ GapInv

-----------------------------------------------------------------------------
LEMMA StreamTypes ==
    ASSUME TypeOK
    PROVE  /\ Len(stream) \in Nat /\ received \in Nat /\ received <= Len(stream)
           /\ \A p \in 0 .. Len(stream) - 1 : stream[p + 1] \in LogRawHeader \union {NoHeader}
<1>1. stream \in Seq(LogRawHeader \union {NoHeader})
  BY StreamsAssumption DEF TypeOK
<1>2. /\ Len(stream) \in Nat
      /\ \A i \in 1 .. Len(stream) : stream[i] \in LogRawHeader \union {NoHeader}
  BY <1>1, ElementOfSeq, LenProperties
<1> QED
  BY <1>2 DEF TypeOK

LEMMA HeaderTypes ==
    ASSUME TypeOK, HeldInv, IsHeader
    PROVE  /\ currentHeader \in LogRawHeader
           /\ currentHeader.time \in Nat /\ currentHeader.fullLogLength \in Nat \ {0}
           /\ currentHeader.isRange \in BOOLEAN /\ currentHeader.intact \in BOOLEAN
           /\ first + countOfProcessed \in 0 .. received - 1
           /\ currentHeader = stream[(first + countOfProcessed) + 1]
<1>1. first + countOfProcessed \in 0 .. received - 1
  BY SizesAssumption DEF TypeOK, HeldInv, IsHeader, LooksOn
<1>2. currentHeader = stream[(first + countOfProcessed) + 1]
  BY DEF currentHeader
<1>3. currentHeader \in LogRawHeader
  BY <1>1, <1>2, StreamTypes DEF IsHeader
<1> QED
  BY <1>1, <1>2, <1>3 DEF LogRawHeader

LEMMA PushFacts ==
    ASSUME TypeOK, HeldInv, NEW n \in 1 .. MaxRead, Push(n), Len(raw) <= RingSize
    PROVE  /\ received' \in 0 .. Len(stream) /\ received' = received + n /\ received' > received
           /\ raw' \in Seq(0 .. received') /\ Len(raw') = Len(raw) + 1
           /\ \A i \in 1 .. Len(raw) : raw'[i] = raw[i]
           /\ raw'[Len(raw) + 1] = received'
           /\ end' \in 0 .. RingSize /\ end' = AfterPush(end)
<1>1. received' \in 0 .. Len(stream) /\ received' = received + n /\ received' > received
  BY StreamTypes, SizesAssumption DEF Push, MayRead, TypeOK
<1>2. raw \in Seq(0 .. received')
  <2>1. 0 .. received \subseteq 0 .. received'
    BY <1>1 DEF TypeOK
  <2> QED
    BY <2>1, SeqMonotonic DEF TypeOK
<1>3. raw' = Append(raw, received')
  BY <1>1 DEF Push
<1>4. received' \in 0 .. received'
  BY <1>1
<1>5. /\ raw' \in Seq(0 .. received') /\ Len(raw') = Len(raw) + 1
      /\ \A i \in 1 .. Len(raw) : raw'[i] = raw[i]
      /\ raw'[Len(raw) + 1] = received'
  BY <1>2, <1>3, <1>4, AppendProperties
<1>6. end' \in 0 .. RingSize /\ end' = AfterPush(end)
  BY SizesAssumption DEF Push, AfterPush, TypeOK
<1> QED
  BY <1>1, <1>5, <1>6

LEMMA TakeLogFacts ==
    ASSUME TypeOK, HeldInv, TakeLog
    PROVE  /\ satelliteGroup' \in Nat /\ satelliteGroup <= satelliteGroup'
           /\ lastLogTime' \in Nat /\ logsCount' \in Nat /\ logsCount' > 0
           /\ handed' \in Seq([at : 0 .. received, group : 0 .. satelliteGroup'])
           /\ currentHeader.fullLogLength \in Nat \ {0}
           /\ countOfProcessed + currentHeader.fullLogLength <= sizeOfData
           /\ parsing
<1>1. /\ satelliteGroup' \in Nat /\ satelliteGroup <= satelliteGroup'
      /\ lastLogTime' \in Nat /\ logsCount' \in Nat /\ logsCount' > 0
      /\ currentHeader.fullLogLength \in Nat \ {0}
  BY HeaderTypes DEF TakeLog, TypeOK
<1>2. handed \in Seq([at : 0 .. received, group : 0 .. satelliteGroup'])
  <2>1. [at : 0 .. received, group : 0 .. satelliteGroup] \subseteq
        [at : 0 .. received, group : 0 .. satelliteGroup']
    BY <1>1 DEF TypeOK
  <2>2. Seq([at : 0 .. received, group : 0 .. satelliteGroup]) \subseteq
        Seq([at : 0 .. received, group : 0 .. satelliteGroup'])
    BY <2>1, SeqMonotonic
  <2>3. handed \in Seq([at : 0 .. received, group : 0 .. satelliteGroup])
    BY DEF TypeOK
  <2> QED
    BY <2>2, <2>3
<1>3. [at |-> first + countOfProcessed, group |-> satelliteGroup'] \in
          [at : 0 .. received, group : 0 .. satelliteGroup']
  BY <1>1, HeaderTypes DEF TakeLog, TypeOK
<1>4. handed' \in Seq([at : 0 .. received, group : 0 .. satelliteGroup'])
  BY <1>2, <1>3, AppendProperties DEF TakeLog, ParseLog
<1> QED
  BY <1>1, <1>4 DEF TakeLog, IsHeader, LooksOn, IsWhole

-----------------------------------------------------------------------------
(* Types, and what is held *)

LEMMA ReadTypes ==
    ASSUME TypeOK, HeldInv, StuckInv, NEW n \in 1 .. MaxRead, ReadData(n) \/ ReadExits(n)
    PROVE  TypeOK' /\ HeldInv'
<1>1. Push(n) /\ Len(raw) <= RingSize
  BY DEF ReadData, ReadExits, StuckInv, PointersInv, Push
<1>2. /\ received' \in 0 .. Len(stream) /\ received' = received + n /\ received' > received
      /\ raw' \in Seq(0 .. received') /\ Len(raw') = Len(raw) + 1
      /\ end' \in 0 .. RingSize
  BY <1>1, PushFacts
<1>3. /\ UNCHANGED <<stream, fromFiles, first, begin, countOfProcessed, lastLogTime, logsCount,
                     satelliteGroup, handed, thrown, isReadyAcceptNewData, isSomeOneUsedCout,
                     timer, outputs>>
      /\ ~parsing /\ countOfProcessed = 0 /\ sizeOfData = 0
  BY <1>1 DEF Push, logVars, acceptVars, HeldInv
<1>4. handed' \in Seq([at : 0 .. received', group : 0 .. satelliteGroup'])
  <2>1. [at : 0 .. received, group : 0 .. satelliteGroup] \subseteq
        [at : 0 .. received', group : 0 .. satelliteGroup']
    BY <1>2, <1>3 DEF TypeOK
  <2>2. Seq([at : 0 .. received, group : 0 .. satelliteGroup]) \subseteq
        Seq([at : 0 .. received', group : 0 .. satelliteGroup'])
    BY <2>1, SeqMonotonic
  <2>3. handed \in Seq([at : 0 .. received, group : 0 .. satelliteGroup])
    BY DEF TypeOK
  <2> QED
    BY <1>3, <2>2, <2>3
<1>5. /\ parsing' \in BOOLEAN /\ program' \in {"running", "exited"}
      /\ parsing' => sizeOfData' = received' - first
      /\ ~parsing' => sizeOfData' = 0
  <2>1. CASE ReadData(n)
    <3> DEFINE looks == begin # end' /\ received' - first > HeaderLength
    <3>1. parsing' = looks /\ program' = program
      BY <2>1 DEF ReadData
    <3>2. sizeOfData' = IF parsing' THEN received' - first ELSE 0
      BY <2>1 DEF ReadData
    <3>3. looks \in BOOLEAN
      OBVIOUS
    <3> HIDE DEF looks
    <3>4. parsing' \in BOOLEAN
      BY <3>1, <3>3
    <3> QED
      BY <3>1, <3>2, <3>4 DEF TypeOK
  <2>2. CASE ReadExits(n)
    BY <1>3, <2>2 DEF ReadExits, TypeOK
  <2> QED
    BY <2>1, <2>2
<1>6. first \in 0 .. received' /\ sizeOfData' \in 0 .. received' /\ Len(raw') <= RingSize + 1
  BY <1>1, <1>2, <1>5, LenProperties, SizesAssumption DEF TypeOK
<1>7. TypeOK'
  BY <1>2, <1>3, <1>4, <1>5, <1>6 DEF TypeOK
<1>8. HeldInv'
  <2>1. first' = first /\ countOfProcessed' = 0
    BY <1>3
  <2>2. CASE parsing'
    BY <1>2, <1>5, <1>6, <2>1, <2>2 DEF HeldInv, TypeOK
  <2>3. CASE ~parsing'
    BY <1>2, <1>5, <1>6, <2>1, <2>3 DEF HeldInv, TypeOK
  <2> QED
    BY <2>2, <2>3
<1> QED
  BY <1>7, <1>8

LEMMA ParseTypes ==
    ASSUME TypeOK, HeldInv, Parse
    PROVE  TypeOK' /\ HeldInv'
<1>1. CASE Log \/ HandlerThrows
  <2>1. TakeLog
    BY <1>1 DEF Log, HandlerThrows
  <2>2. /\ satelliteGroup' \in Nat /\ lastLogTime' \in Nat /\ logsCount' \in Nat
        /\ handed' \in Seq([at : 0 .. received, group : 0 .. satelliteGroup'])
        /\ currentHeader.fullLogLength \in Nat \ {0}
        /\ countOfProcessed + currentHeader.fullLogLength <= sizeOfData
        /\ parsing
    BY <2>1, TakeLogFacts
  <2>3. UNCHANGED <<stream, fromFiles, received, raw, first, begin, end, program,
                    isReadyAcceptNewData, isSomeOneUsedCout, timer, outputs>>
    BY <2>1 DEF TakeLog, acceptVars
  <2>4. /\ parsing' \in BOOLEAN /\ sizeOfData' \in 0 .. received /\ countOfProcessed' \in Nat
        /\ thrown' \in 0 .. MaxThrows
    <3>1. CASE Log
      <4>1. UNCHANGED <<parsing, sizeOfData, thrown>>
            /\ countOfProcessed' = countOfProcessed + currentHeader.fullLogLength
        BY <3>1 DEF Log
      <4>2. parsing' \in BOOLEAN /\ sizeOfData' \in 0 .. received /\ thrown' \in 0 .. MaxThrows
        BY <4>1 DEF TypeOK
      <4>3. countOfProcessed' \in Nat
        <5>1. countOfProcessed \in Nat
          BY DEF TypeOK
        <5> QED
          BY <2>2, <4>1, <5>1
      <4> QED
        BY <4>2, <4>3
    <3>2. CASE HandlerThrows
      <4>1. parsing' = FALSE /\ sizeOfData' = 0 /\ countOfProcessed' = 0
        BY <3>2 DEF HandlerThrows, Return
      <4>2. thrown' \in 0 .. MaxThrows
        BY <3>2, SizesAssumption DEF HandlerThrows, TypeOK
      <4>3. 0 \in 0 .. received
        BY StreamTypes
      <4> QED
        BY <4>1, <4>2, <4>3
    <3> QED
      BY <1>1, <3>1, <3>2
  <2>5. TypeOK'
    BY <2>2, <2>3, <2>4 DEF TypeOK
  <2>6. HeldInv'
    <3>1. CASE Log
      <4>1. /\ parsing' /\ sizeOfData' = sizeOfData /\ first' = first /\ received' = received
            /\ countOfProcessed' = countOfProcessed + currentHeader.fullLogLength
        BY <2>2, <2>3, <3>1 DEF Log
      <4>2. first + sizeOfData = received /\ countOfProcessed' <= sizeOfData
        BY <2>2, <4>1 DEF HeldInv
      <4>3. first + countOfProcessed' <= received /\ countOfProcessed' \in Nat
        <5>1. first \in Nat /\ countOfProcessed \in Nat /\ sizeOfData \in Nat
          BY StreamTypes DEF TypeOK
        <5>2. countOfProcessed' \in Nat
          BY <2>2, <4>1, <5>1
        <5> QED
          BY <4>2, <5>1, <5>2
      <4> QED
        BY <4>1, <4>2, <4>3 DEF HeldInv
    <3>2. CASE HandlerThrows
      BY <2>2, <2>3, <3>2 DEF HeldInv, TypeOK, HandlerThrows, Return
    <3> QED
      BY <1>1, <3>1, <3>2
  <2> QED
    BY <2>5, <2>6
<1>2. CASE SkipByte
  <2>1. /\ UNCHANGED <<stream, fromFiles, received, raw, first, begin, end, parsing, sizeOfData,
                       lastLogTime, logsCount, satelliteGroup, handed, thrown, program,
                       isReadyAcceptNewData, isSomeOneUsedCout, timer, outputs>>
        /\ countOfProcessed' = countOfProcessed + 1 /\ parsing
        /\ countOfProcessed < sizeOfData
    BY <1>2, SizesAssumption DEF SkipByte, logVars, acceptVars, LooksOn, TypeOK
  <2> QED
    BY <2>1 DEF TypeOK, HeldInv
<1>3. CASE SaveTail
  <2>1. /\ UNCHANGED <<stream, fromFiles, received, lastLogTime, logsCount, satelliteGroup,
                       handed, thrown, program, isReadyAcceptNewData, isSomeOneUsedCout, timer,
                       outputs>>
        /\ first' = first + countOfProcessed /\ begin' = end
        /\ ~parsing' /\ parsing' \in BOOLEAN /\ sizeOfData' = 0 /\ countOfProcessed' = 0
    BY <1>3 DEF SaveTail, Return, logVars, acceptVars
  <2>2. raw' \in {<<>>, <<received>>} /\ end' \in {end, AfterPush(end)}
    BY <1>3 DEF SaveTail
  <2>3. raw' \in Seq(0 .. received) /\ Len(raw') <= RingSize + 1
    <3>1. received \in 0 .. received
      BY StreamTypes
    <3>2. CASE raw' = <<>>
      BY <3>2, SizesAssumption
    <3>3. CASE raw' = <<received>>
      <4>1. <<received>> \in Seq(0 .. received) /\ Len(<<received>>) = 1
        BY <3>1
      <4> QED
        BY <3>3, <4>1, SizesAssumption
    <3> QED
      BY <2>2, <3>2, <3>3
  <2>4. end' \in 0 .. RingSize
    BY <2>2, SizesAssumption DEF AfterPush, TypeOK
  <2> QED
    BY <2>1, <2>3, <2>4 DEF TypeOK, HeldInv
<1> QED
  BY <1>1, <1>2, <1>3 DEF Parse

-----------------------------------------------------------------------------
(* The ring *)

LEMMA LongIsFinite ==
    ASSUME NEW s, NEW b, NEW n \in Int
    PROVE  IsFiniteSet(Long(s, b, n)) /\ Cardinality(Long(s, b, n)) \in Nat
<1>1. IsFiniteSet(2 .. n)
  BY FS_Interval
<1>2. Long(s, b, n) \subseteq 2 .. n
  BY DEF Long
<1>3. IsFiniteSet(Long(s, b, n))
  BY <1>1, <1>2, FS_Subset
<1> QED
  BY <1>3, FS_CardinalityType

(* One more element is at most one more long one. *)
LEMMA LongGrows ==
    ASSUME NEW s, NEW b, NEW n \in Nat
    PROVE  Cardinality(Long(s, b, n + 1)) <= Cardinality(Long(s, b, n)) + 1
<1>1. Long(s, b, n + 1) \in {Long(s, b, n), Long(s, b, n) \union {n + 1}}
  BY DEF Long
<1>2. IsFiniteSet(Long(s, b, n)) /\ Cardinality(Long(s, b, n)) \in Nat
  BY LongIsFinite
<1>3. n + 1 \notin Long(s, b, n)
  BY DEF Long
<1>4. Cardinality(Long(s, b, n) \union {n + 1}) = Cardinality(Long(s, b, n)) + 1
  BY <1>2, <1>3, FS_AddElement
<1>5. CASE Long(s, b, n + 1) = Long(s, b, n)
  BY <1>2, <1>5
<1>6. CASE Long(s, b, n + 1) = Long(s, b, n) \union {n + 1}
  <2>1. Cardinality(Long(s, b, n + 1)) = Cardinality(Long(s, b, n)) + 1
    BY <1>4, <1>6
  <2> QED
    BY <1>2, <2>1
<1> QED
  BY <1>1, <1>5, <1>6

(* A read: the elements held before keep their ends, and an element the
   parser does not see is the last that fits. *)
LEMMA ReadStuck ==
    ASSUME TypeOK, HeldInv, StuckInv, NEW n \in 1 .. MaxRead, ReadData(n) \/ ReadExits(n)
    PROVE  StuckInv'
<1>1. /\ Push(n) /\ PointersInv /\ program = "running" /\ ~parsing
      /\ Cardinality(Long(raw, first, Len(raw))) <= thrown
  BY DEF ReadData, ReadExits, StuckInv, Push
<1>2. /\ received' \in 0 .. Len(stream) /\ received' \in Int
      /\ raw' \in Seq(0 .. received') /\ Len(raw') = Len(raw) + 1
      /\ \A i \in 1 .. Len(raw) : raw'[i] = raw[i]
      /\ raw'[Len(raw) + 1] = received'
      /\ end' = AfterPush(end)
  BY <1>1, PushFacts DEF PointersInv
<1>3. /\ first' = first /\ begin' = begin /\ thrown' = thrown
      /\ Len(raw) \in Nat /\ first \in Int /\ thrown \in Nat
      /\ begin \in 0 .. RingSize /\ end \in 0 .. RingSize
      /\ RingSize \in Nat \ {0} /\ HeaderLength \in Nat
  <2>1. raw \in Seq(0 .. received)
    BY DEF TypeOK
  <2>2. Len(raw) \in Nat
    BY <2>1, LenProperties
  <2> QED
    BY <1>1, <2>2, SizesAssumption, StreamTypes DEF Push, TypeOK
<1>4. Long(raw', first', Len(raw)) = Long(raw, first, Len(raw))
  <2>1. \A i \in 2 .. Len(raw) : raw'[i] = raw[i]
    BY <1>2, <1>3
  <2>2. first' = first
    BY <1>3
  <2> QED
    BY <2>1, <2>2 DEF Long
<1>5. Cardinality(Long(raw', first', Len(raw))) <= thrown'
  BY <1>1, <1>3, <1>4
<1>6. CASE ReadExits(n)
  <2>1. Len(raw) = RingSize /\ ~parsing' /\ program' = "exited"
    BY <1>1, <1>6 DEF ReadExits
  <2>2. Long(raw', first', RingSize - 1) = Long(raw', first', RingSize)
    BY <1>3 DEF Long
  <2> QED
    BY <1>5, <2>1, <2>2 DEF StuckInv
<1>7. CASE ReadData(n)
  <2>1. program' = "running" /\ Len(raw) < RingSize
    BY <1>1, <1>3, <1>7 DEF ReadData, PointersInv
  <2>2. end \in {begin + Len(raw), begin + Len(raw) - RingSize}
    BY <1>1 DEF PointersInv
  <2>3. end' \in {begin + (Len(raw) + 1), begin + (Len(raw) + 1) - RingSize}
    <3>1. end' = AfterPush(end)
      BY <1>2
    <3>2. CASE end = begin + Len(raw)
      <4>1. end' \in {end + 1, end + 1 - RingSize}
        BY <1>3, <3>1 DEF AfterPush
      <4> QED
        BY <1>3, <3>2, <4>1
    <3>3. CASE end = begin + Len(raw) - RingSize
      <4>1. end < RingSize
        BY <1>3, <2>1, <3>3
      <4>2. end' = end + 1
        BY <1>3, <3>1, <4>1 DEF AfterPush
      <4> QED
        BY <1>3, <3>3, <4>2
    <3> QED
      BY <2>2, <3>2, <3>3
  <2>4. PointersInv'
    BY <1>2, <1>3, <2>1, <2>3 DEF PointersInv
  <2>5. CASE parsing'
    <3>1. Len(raw') - 1 = Len(raw)
      BY <1>2, <1>3
    <3> QED
      BY <1>5, <2>1, <2>4, <2>5, <3>1 DEF StuckInv
  <2>6. CASE ~parsing'
    <3>1. begin = end' \/ ~(received' - first > HeaderLength)
      BY <1>7, <2>6 DEF ReadData
    <3>2. begin = end' => Len(raw) + 1 = RingSize
      BY <1>3, <2>1, <2>3
    <3>3. Long(raw', first', Len(raw) + 1) = Long(raw', first', Len(raw))
      <4>1. ~(Len(raw) + 1 < RingSize /\ raw'[Len(raw) + 1] - first' > HeaderLength)
        <5>1. raw'[Len(raw) + 1] = received'
          BY <1>2
        <5>2. first' = first
          BY <1>3
        <5>3. begin = end' => ~(Len(raw) + 1 < RingSize)
          BY <1>3, <3>2
        <5> QED
          BY <3>1, <5>1, <5>2, <5>3
      <4> QED
        BY <1>3, <4>1 DEF Long
    <3> QED
      BY <1>2, <1>5, <2>1, <2>4, <2>6, <3>3 DEF StuckInv
  <2> QED
    BY <2>5, <2>6
<1> QED
  BY <1>6, <1>7

LEMMA ParseStuck ==
    ASSUME TypeOK, HeldInv, StuckInv, Parse
    PROVE  StuckInv'
<1>1. parsing /\ program' = program /\ RingSize \in Nat \ {0} /\ Len(raw) \in Nat /\ thrown \in Nat
  <2>1. raw \in Seq(0 .. received) /\ thrown \in Nat
    BY SizesAssumption DEF TypeOK
  <2>2. Len(raw) \in Nat
    BY <2>1, LenProperties
  <2> QED
    BY <2>1, <2>2, TakeLogFacts, SizesAssumption
       DEF Parse, Log, HandlerThrows, SkipByte, SaveTail, TakeLog, LooksOn
<1>2. program = "running" /\ PointersInv /\ Cardinality(Long(raw, first, Len(raw) - 1)) <= thrown
  BY <1>1 DEF StuckInv, TypeOK
<1>3. CASE Log \/ SkipByte
  <2>1. /\ UNCHANGED <<raw, first, begin, end, thrown>> /\ parsing'
    BY <1>1, <1>3 DEF Log, SkipByte, TakeLog
  <2> QED
    BY <1>1, <1>2, <2>1 DEF StuckInv, PointersInv
<1>4. CASE HandlerThrows
  <2>1. UNCHANGED <<raw, first, begin, end>> /\ ~parsing' /\ thrown' = thrown + 1
    BY <1>4 DEF HandlerThrows, TakeLog, Return
  <2>2. Cardinality(Long(raw, first, Len(raw))) <= Cardinality(Long(raw, first, Len(raw) - 1)) + 1
    <3>1. CASE Len(raw) = 0
      <4>1. Long(raw, first, Len(raw)) = Long(raw, first, Len(raw) - 1)
        BY <3>1 DEF Long
      <4>2. Len(raw) \in Int
        BY <1>1
      <4>3. Cardinality(Long(raw, first, Len(raw))) \in Nat
        BY <4>2, LongIsFinite
      <4> QED
        BY <4>1, <4>3
    <3>2. CASE Len(raw) # 0
      <4>1. Len(raw) - 1 \in Nat
        BY <1>1, <3>2
      <4>2. \A k \in Nat : Cardinality(Long(raw, first, k + 1)) <= Cardinality(Long(raw, first, k)) + 1
        BY LongGrows
      <4>3. (Len(raw) - 1) + 1 = Len(raw)
        BY <1>1
      <4> QED
        BY <4>1, <4>2, <4>3
    <3> QED
      BY <3>1, <3>2
  <2>3. \A k \in Int : Cardinality(Long(raw, first, k)) \in Nat
    BY LongIsFinite
  <2>4. Len(raw) \in Int /\ Len(raw) - 1 \in Int
    BY <1>1
  <2>5. Cardinality(Long(raw, first, Len(raw))) <= thrown + 1
    BY <1>1, <1>2, <2>2, <2>3, <2>4
  <2> QED
    BY <1>1, <1>2, <2>1, <2>5 DEF StuckInv, PointersInv
<1>5. CASE SaveTail
  <2>1. /\ ~parsing' /\ thrown' = thrown /\ begin' = end
        /\ \/ raw' = <<>> /\ end' = end
           \/ raw' = <<received>> /\ end' = AfterPush(end)
    BY <1>5 DEF SaveTail, Return
  <2>2. end \in 0 .. RingSize
    BY DEF TypeOK
  <2>3. PointersInv' /\ Len(raw') \in {0, 1}
    <3>1. CASE raw' = <<>> /\ end' = end
      BY <1>1, <2>1, <2>2, <3>1 DEF PointersInv
    <3>2. CASE raw' = <<received>> /\ end' = AfterPush(end)
      <4>1. Len(raw') = 1
        BY <3>2
      <4>2. end' \in {end + 1, end + 1 - RingSize}
        BY <1>1, <2>2, <3>2 DEF AfterPush
      <4> QED
        BY <1>1, <2>1, <4>1, <4>2 DEF PointersInv
    <3> QED
      BY <2>1, <3>1, <3>2
  <2>4. Long(raw', first', Len(raw')) = {}
    BY <2>3 DEF Long
  <2>5. Cardinality(Long(raw', first', Len(raw'))) <= thrown'
    BY <1>1, <2>1, <2>4, FS_EmptySet
  <2> QED
    BY <1>1, <1>2, <2>1, <2>3, <2>5 DEF StuckInv
<1> QED
  BY <1>3, <1>4, <1>5 DEF Parse

-----------------------------------------------------------------------------
(* Groups *)

(* What was handed over lies in the stream. *)
LEMMA HandedTypes ==
    ASSUME TypeOK
    PROVE  /\ Len(handed) \in Nat /\ DOMAIN handed = 1 .. Len(handed)
           /\ \A i \in 1 .. Len(handed) :
                  handed[i].at \in 0 .. received /\ handed[i].group \in 0 .. satelliteGroup
           /\ received \in Nat /\ first \in Nat /\ countOfProcessed \in Nat /\ thrown \in Nat
           /\ satelliteGroup \in Nat /\ logsCount \in Nat
<1>1. handed \in Seq([at : 0 .. received, group : 0 .. satelliteGroup])
  BY DEF TypeOK
<1>2. Len(handed) \in Nat /\ DOMAIN handed = 1 .. Len(handed)
  BY <1>1, LenProperties
<1>3. \A i \in 1 .. Len(handed) : handed[i] \in [at : 0 .. received, group : 0 .. satelliteGroup]
  BY <1>1, ElementOfSeq
<1> QED
  BY <1>2, <1>3, StreamTypes, SizesAssumption DEF TypeOK

LEMMA DamageStays ==
    ASSUME UNCHANGED stream, received \in Nat, received' \in Nat, received' >= received,
           NEW p \in 0 .. received, IsDamagedRange(p)
    PROVE  p \in 0 .. received' /\ IsDamagedRange(p)'
<1>1. p \in 0 .. received' /\ p < received'
  BY DEF IsDamagedRange
<1>2. stream'[p + 1] # NoHeader /\ RangeAt(p)' /\ ~IsIntact(p)'
  BY DEF IsDamagedRange, RangeAt, IsIntact
<1> QED
  BY <1>1, <1>2 DEF IsDamagedRange

(* A step that hands nothing over and compares nothing. *)
LEMMA GapKept ==
    ASSUME TypeOK, GapInv, UNCHANGED <<stream, logVars, thrown>>,
           received' \in Nat, received' >= received,
           first' + countOfProcessed' \in Nat,
           first' + countOfProcessed' >= first + countOfProcessed
    PROVE  GapInv'
<1>1. UNCHANGED <<stream, lastLogTime, logsCount, satelliteGroup, handed, thrown>>
  BY DEF logVars
<1>2. \A p \in 0 .. received : IsDamagedRange(p) => p \in 0 .. received' /\ IsDamagedRange(p)'
  BY <1>1, HandedTypes, DamageStays
<1>3. \A i : (IsLastRange(i)' <=> IsLastRange(i)) /\ TimeOf(i)' = TimeOf(i)
  BY <1>1 DEF IsLastRange, TimeOf, RangeAt
<1>4. \A i \in DOMAIN handed : Excused(i, first + countOfProcessed)
          => Excused(i, first + countOfProcessed)'
  <2> SUFFICES ASSUME NEW i \in DOMAIN handed, Excused(i, first + countOfProcessed)
               PROVE  Excused(i, first + countOfProcessed)'
    OBVIOUS
  <2>1. PICK p \in 0 .. received :
            IsDamagedRange(p) /\ (thrown = 0 => handed[i].at < p /\ p < first + countOfProcessed)
    BY DEF Excused
  <2>2. p \in 0 .. received' /\ IsDamagedRange(p)'
    BY <1>2, <2>1
  <2>3. thrown' = 0 => handed'[i].at < p /\ p < first' + countOfProcessed'
    <3>1. /\ first \in Nat /\ countOfProcessed \in Nat /\ p \in Int
      BY HandedTypes
    <3> QED
      BY <1>1, <2>1, <3>1
  <2> QED
    BY <2>2, <2>3 DEF Excused
<1>5. GroupsHaveNoGaps'
  <2> SUFFICES ASSUME NEW i \in DOMAIN handed, NEW j \in DOMAIN handed, FollowsInGroup(i, j)'
               PROVE  \/ TimeOf(j)' = TimeOf(i)' + 1
                      \/ TimeOf(i)' = 0
                      \/ \E p \in 0 .. received' :
                            /\ IsDamagedRange(p)'
                            /\ thrown' = 0 => handed'[i].at < p /\ p < handed'[j].at
    BY <1>1 DEF GroupsHaveNoGaps
  <2>1. FollowsInGroup(i, j)
    BY <1>1 DEF FollowsInGroup, RangeAt
  <2>2. CASE TimeOf(j) = TimeOf(i) + 1 \/ TimeOf(i) = 0
    BY <1>3, <2>2
  <2>3. CASE \E p \in 0 .. received :
                 /\ IsDamagedRange(p)
                 /\ thrown = 0 => handed[i].at < p /\ p < handed[j].at
    BY <1>1, <1>2, <2>3
  <2> QED
    BY <2>1, <2>2, <2>3 DEF GapInv, GroupsHaveNoGaps
<1>6. thrown' = 0 => \A i \in DOMAIN handed' : handed'[i].at < first' + countOfProcessed'
  BY <1>1, HandedTypes DEF GapInv
<1> QED
  BY <1>1, <1>3, <1>4, <1>5, <1>6 DEF GapInv

(* What taking a log means for the time, the group and the history. *)
LEMMA TakeGap ==
    ASSUME IInv, TakeLog, Log \/ HandlerThrows
    PROVE  LET pos == first + countOfProcessed
               n   == Len(handed) IN
           /\ pos \in 0 .. received - 1 /\ stream[pos + 1] # NoHeader
           /\ UNCHANGED <<stream, received>> /\ thrown' \in Nat
           /\ thrown' = 0 => thrown = 0 /\ first' + countOfProcessed' > pos
           /\ logsCount' > 0
           /\ IF IsIntact(pos)
              THEN /\ Len(handed') = n + 1 /\ DOMAIN handed' = 1 .. n + 1
                   /\ \A i \in 1 .. n : handed'[i] = handed[i]
                   /\ handed'[n + 1].at = pos /\ handed'[n + 1].group = satelliteGroup'
              ELSE handed' = handed
           /\ \/ /\ RangeAt(pos) /\ satelliteGroup' = satelliteGroup + 1
                 /\ lastLogTime' = stream[pos + 1].time
              \/ /\ RangeAt(pos) /\ satelliteGroup' = satelliteGroup
                 /\ lastLogTime' = stream[pos + 1].time
                 /\ lastLogTime = 0 \/ logsCount = 0 \/ lastLogTime' = lastLogTime + 1
              \/ ~RangeAt(pos) /\ UNCHANGED <<satelliteGroup, lastLogTime>>
<1> DEFINE pos == first + countOfProcessed
           n == Len(handed)
<1>1. /\ currentHeader = stream[pos + 1] /\ pos \in 0 .. received - 1
      /\ currentHeader.fullLogLength \in Nat \ {0}
      /\ currentHeader # NoHeader
  BY HeaderTypes DEF IInv, TakeLog, IsHeader
<1>2. UNCHANGED <<stream, received, first>> /\ thrown \in Nat /\ first \in Nat /\ countOfProcessed \in Nat
  BY HandedTypes DEF IInv, TakeLog
<1>3. thrown' \in Nat /\ (thrown' = 0 => thrown = 0 /\ first' + countOfProcessed' > pos)
  BY <1>1, <1>2 DEF Log, HandlerThrows
<1>4. logsCount' > 0
  BY TakeLogFacts DEF IInv
<1>5. /\ IsIntact(pos) = currentHeader.intact
      /\ RangeAt(pos) = currentHeader.isRange
  BY <1>1 DEF IsIntact, RangeAt
<1>6. handed \in Seq([at : 0 .. received, group : 0 .. satelliteGroup])
  BY DEF IInv, TypeOK
<1>7. CASE currentHeader.intact
  <2> DEFINE new == [at |-> pos, group |-> satelliteGroup']
             S == [at : 0 .. received, group : Nat]
  <2>1. handed' = Append(handed, new)
    BY <1>7 DEF TakeLog, ParseLog
  <2>2. new \in S
    <3>1. pos \in 0 .. received
      BY <1>1, <1>2, HandedTypes DEF IInv
    <3>2. satelliteGroup' \in Nat
      BY TakeLogFacts DEF IInv
    <3> QED
      BY <3>1, <3>2
  <2>3. handed \in Seq(S)
    <3>1. [at : 0 .. received, group : 0 .. satelliteGroup] \subseteq S
      BY HandedTypes DEF IInv
    <3> HIDE DEF S
    <3>2. Seq([at : 0 .. received, group : 0 .. satelliteGroup]) \subseteq Seq(S)
      BY <3>1, SeqMonotonic
    <3> QED
      BY <1>6, <3>2
  <2> HIDE DEF S, new
  <2>4. /\ Len(handed') = n + 1 /\ handed' \in Seq(S)
        /\ \A i \in 1 .. n : handed'[i] = handed[i]
        /\ handed'[n + 1] = new
    BY <2>1, <2>2, <2>3, AppendProperties
  <2>5. DOMAIN handed' = 1 .. n + 1
    BY <2>4, LenProperties
  <2> QED
    <3>1. /\ Len(handed') = n + 1 /\ DOMAIN handed' = 1 .. n + 1
          /\ \A i \in 1 .. n : handed'[i] = handed[i]
          /\ handed'[n + 1].at = pos /\ handed'[n + 1].group = satelliteGroup'
      BY <2>4, <2>5 DEF new
    <3>2. QED
      BY <1>1, <1>2, <1>3, <1>4, <1>5, <1>7, <3>1 DEF TakeLog, IsGap
<1>8. CASE ~currentHeader.intact
  <2>1. handed' = handed
    BY <1>8 DEF TakeLog, ParseLog
  <2> QED
    BY <1>1, <1>2, <1>3, <1>4, <1>5, <1>8, <2>1 DEF TakeLog, IsGap
<1> QED
  BY <1>7, <1>8

(* The group goes on from the last RANGE log of it, or has none. *)
LEMMA LogGap ==
    ASSUME IInv, Log \/ HandlerThrows
    PROVE  GapInv'
<1>1. TypeOK /\ HeldInv /\ GapInv /\ TakeLog
  BY DEF IInv, Log, HandlerThrows
<1>11. PICK pos \in Nat, n \in Nat : pos = first + countOfProcessed /\ n = Len(handed)
  <2>1. first + countOfProcessed \in Nat /\ Len(handed) \in Nat
    BY <1>1, HandedTypes
  <2> QED
    BY <2>1
<1> USE <1>11
<1>2. /\ pos \in 0 .. received - 1 /\ stream[pos + 1] # NoHeader
      /\ UNCHANGED <<stream, received>> /\ thrown' \in Nat
      /\ thrown' = 0 => thrown = 0 /\ first' + countOfProcessed' > pos
      /\ logsCount' > 0
  BY <1>1, TakeGap
<1>3. IF IsIntact(pos)
      THEN /\ Len(handed') = n + 1 /\ DOMAIN handed' = 1 .. n + 1
           /\ \A i \in 1 .. n : handed'[i] = handed[i]
           /\ handed'[n + 1].at = pos /\ handed'[n + 1].group = satelliteGroup'
      ELSE handed' = handed
  BY <1>1, TakeGap
<1>4. \/ /\ RangeAt(pos) /\ satelliteGroup' = satelliteGroup + 1
         /\ lastLogTime' = stream[pos + 1].time
      \/ /\ RangeAt(pos) /\ satelliteGroup' = satelliteGroup
         /\ lastLogTime' = stream[pos + 1].time
         /\ lastLogTime = 0 \/ logsCount = 0 \/ lastLogTime' = lastLogTime + 1
      \/ ~RangeAt(pos) /\ UNCHANGED <<satelliteGroup, lastLogTime>>
  BY <1>1, TakeGap
<1>5. /\ n \in Nat /\ DOMAIN handed = 1 .. n
      /\ \A i \in 1 .. n :
            handed[i].at \in Nat /\ handed[i].group \in Nat /\ handed[i].group <= satelliteGroup
      /\ first \in Nat /\ countOfProcessed \in Nat /\ pos \in Nat
      /\ received \in Nat /\ satelliteGroup \in Nat /\ thrown \in Nat
  BY <1>1, HandedTypes
<1>6. n \in Nat /\ Len(handed') \in {n, n + 1} /\ DOMAIN handed' = 1 .. Len(handed')
      /\ \A i \in 1 .. n : handed'[i] = handed[i] /\ TimeOf(i)' = TimeOf(i)
                           /\ (RangeAt(handed[i].at)' <=> RangeAt(handed[i].at))
  BY <1>2, <1>3, <1>5 DEF TimeOf, RangeAt
<1>7. thrown' = 0 => \A i \in DOMAIN handed' : handed'[i].at < first' + countOfProcessed'
  <2> SUFFICES ASSUME thrown' = 0, NEW i \in DOMAIN handed'
               PROVE  handed'[i].at < first' + countOfProcessed'
    OBVIOUS
  <2>1. first' + countOfProcessed' > pos /\ thrown = 0
    BY <1>2
  <2>2. CASE i \in 1 .. n
    <3>1. handed[i].at < pos /\ handed'[i].at = handed[i].at
      BY <1>1, <1>5, <1>6, <2>1, <2>2 DEF GapInv
    <3>2. first' + countOfProcessed' \in Int
      <4>1. TypeOK'
        BY <1>1, ParseTypes DEF Parse, IInv, Log, HandlerThrows
      <4>2. first' \in Int /\ countOfProcessed' \in Int
        BY <1>2, <4>1 DEF TypeOK
      <4> QED
        BY <4>2
    <3>3. handed[i].at \in Int /\ pos \in Int
      BY <1>5, <2>2
    <3> QED
      BY <2>1, <3>1, <3>2, <3>3
  <2>3. CASE i \notin 1 .. n
    <3>1. i = n + 1 /\ handed' # handed
      BY <1>3, <1>5, <2>3
    <3>2. handed'[i].at = pos
      BY <1>3, <3>1
    <3> QED
      BY <2>1, <3>2
  <2> QED
    BY <2>2, <2>3
<1>12. \A p \in 0 .. received : IsDamagedRange(p) => IsDamagedRange(p)'
  BY <1>2 DEF IsDamagedRange, RangeAt, IsIntact
(* An excuse for the time up to pos stays one. *)
<1>8. \A i \in 1 .. n : Excused(i, pos) =>
          \E p \in 0 .. received : IsDamagedRange(p)' /\
              (thrown' = 0 => handed'[i].at < p /\ p < pos)
  <2> SUFFICES ASSUME NEW i \in 1 .. n, Excused(i, pos)
               PROVE  \E p \in 0 .. received : IsDamagedRange(p)' /\
                          (thrown' = 0 => handed'[i].at < p /\ p < pos)
    OBVIOUS
  <2>1. PICK p \in 0 .. received :
            IsDamagedRange(p) /\ (thrown = 0 => handed[i].at < p /\ p < pos)
    BY DEF Excused
  <2>2. IsDamagedRange(p)'
    BY <1>2, <2>1 DEF IsDamagedRange, RangeAt, IsIntact
  <2> QED
    BY <1>2, <1>6, <2>1, <2>2
<1>9. ASSUME NEW i \in DOMAIN handed', IsLastRange(i)'
      PROVE  lastLogTime' = TimeOf(i)' \/ Excused(i, first + countOfProcessed)'
  <2>1. /\ handed'[i].group = satelliteGroup' /\ RangeAt(handed[i].at)'
        /\ \A k \in i + 1 .. Len(handed') : ~RangeAt(handed[k].at)'
    BY <1>9 DEF IsLastRange
  <2>2. CASE RangeAt(pos) /\ IsIntact(pos)
    <3>1. RangeAt(handed[n + 1].at)' /\ Len(handed') = n + 1
      BY <1>2, <1>3, <2>2 DEF RangeAt
    <3>2. i = n + 1
      BY <1>5, <1>6, <2>1, <3>1
    <3>3. TimeOf(i)' = stream[pos + 1].time
      BY <1>2, <1>3, <2>2, <3>2 DEF TimeOf
    <3> QED
      BY <1>4, <2>2, <3>3
  <2>3. CASE RangeAt(pos) /\ ~IsIntact(pos)
    <3>1. pos \in 0 .. received' /\ pos < received' /\ stream'[pos + 1] # NoHeader
      BY <1>2, <1>5
    <3>2. IsDamagedRange(pos)'
      BY <1>2, <2>3, <3>1 DEF IsDamagedRange, RangeAt, IsIntact
    <3>3. i \in 1 .. n /\ handed'[i].at = handed[i].at
      BY <1>3, <1>5, <1>6, <2>3
    <3>4. thrown' = 0 => handed'[i].at < pos /\ pos < first' + countOfProcessed'
      <4> SUFFICES ASSUME thrown' = 0
                   PROVE  handed'[i].at < pos /\ pos < first' + countOfProcessed'
        OBVIOUS
      <4>1. thrown = 0 /\ first' + countOfProcessed' > pos
        BY <1>2
      <4>2. handed[i].at < pos
        BY <1>1, <1>5, <3>3, <4>1 DEF GapInv
      <4>3. TypeOK'
        BY <1>1, ParseTypes DEF Parse, IInv, Log, HandlerThrows
      <4>4. first' \in Int /\ countOfProcessed' \in Int
        BY <1>2, <4>3 DEF TypeOK
      <4>5. pos < first' + countOfProcessed'
        BY <1>5, <4>1, <4>4
      <4> QED
        BY <3>3, <4>2, <4>5
    <3> QED
      BY <3>1, <3>2, <3>4 DEF Excused
  <2>4. CASE ~RangeAt(pos)
    <3>1. UNCHANGED <<satelliteGroup, lastLogTime>>
      BY <1>4, <2>4
    <3>2. i \in 1 .. n
      <4>1. CASE IsIntact(pos)
        <5>1. ~RangeAt(handed[n + 1].at)'
          BY <1>2, <1>3, <2>4, <4>1 DEF RangeAt
        <5> QED
          BY <1>3, <1>5, <2>1, <4>1, <5>1
      <4>2. CASE ~IsIntact(pos)
        BY <1>3, <1>5, <4>2
      <4> QED
        BY <4>1, <4>2
    <3>3. IsLastRange(i)
      <4>1. handed[i].group = satelliteGroup /\ RangeAt(handed[i].at)
        BY <1>6, <2>1, <3>1, <3>2
      <4>2. \A k \in i + 1 .. n : ~RangeAt(handed[k].at)
        <5> SUFFICES ASSUME NEW k \in i + 1 .. n
                     PROVE  ~RangeAt(handed[k].at)
          OBVIOUS
        <5>1. k \in 1 .. n
          BY <3>2
        <5>2. CASE Len(handed') = n
          BY <1>6, <2>1, <5>1, <5>2
        <5>3. CASE Len(handed') = n + 1
          <6>1. k \in i + 1 .. n + 1
            BY <3>2
          <6> QED
            BY <1>6, <2>1, <5>1, <5>3, <6>1
        <5>4. Len(handed') \in {n, n + 1}
          BY <1>6
        <5> QED
          BY <5>2, <5>3, <5>4
      <4> QED
        BY <4>1, <4>2 DEF IsLastRange
    <3>4. lastLogTime = TimeOf(i) \/ Excused(i, pos)
      BY <1>1, <1>5, <3>2, <3>3 DEF GapInv
    <3>5. CASE lastLogTime = TimeOf(i)
      BY <1>6, <3>1, <3>2, <3>5
    <3>6. CASE Excused(i, pos)
      <4>1. PICK p \in 0 .. received :
                IsDamagedRange(p)' /\ (thrown' = 0 => handed'[i].at < p /\ p < pos)
        BY <1>8, <3>2, <3>6
      <4>2. TypeOK'
        BY <1>1, ParseTypes DEF Parse, IInv, Log, HandlerThrows
      <4>3. first' \in Int /\ countOfProcessed' \in Int
        BY <1>2, <4>2 DEF TypeOK
      <4>4. thrown' = 0 => p < first' + countOfProcessed'
        <5>1. first' + countOfProcessed' \in Int /\ p \in Int /\ pos \in Int
          BY <1>5, <4>3
        <5>2. thrown' = 0 => p < pos /\ first' + countOfProcessed' > pos
          BY <1>2, <4>1
        <5> QED
          BY <5>1, <5>2
      <4> QED
        BY <1>2, <4>1, <4>4 DEF Excused
    <3> QED
      BY <3>4, <3>5, <3>6
  <2> QED
    BY <2>2, <2>3, <2>4
<1>10. GroupsHaveNoGaps'
  <2> SUFFICES ASSUME NEW i \in DOMAIN handed', NEW j \in DOMAIN handed', FollowsInGroup(i, j)'
               PROVE  \/ TimeOf(j)' = TimeOf(i)' + 1
                      \/ TimeOf(i)' = 0
                      \/ \E p \in 0 .. received' :
                            /\ IsDamagedRange(p)'
                            /\ thrown' = 0 => handed'[i].at < p /\ p < handed'[j].at
    BY DEF GroupsHaveNoGaps
  <2>1. /\ i < j /\ handed'[i].group = handed'[j].group
        /\ RangeAt(handed[i].at)' /\ RangeAt(handed[j].at)'
        /\ \A k \in i + 1 .. j - 1 : ~RangeAt(handed[k].at)'
    BY DEF FollowsInGroup
  <2>2. i \in 1 .. n
    <3>1. CASE Len(handed') = n
      BY <1>6, <2>1, <3>1
    <3>2. CASE Len(handed') = n + 1
      <4>1. i \in 1 .. n + 1 /\ j \in 1 .. n + 1
        BY <1>6, <3>2
      <4> QED
        BY <2>1, <4>1
    <3>3. Len(handed') \in {n, n + 1}
      BY <1>6
    <3> QED
      BY <3>1, <3>2, <3>3
  <2>3. CASE j \in 1 .. n
    <3>1. FollowsInGroup(i, j)
      <4>1. \A k \in i + 1 .. j - 1 : ~RangeAt(handed[k].at)
        <5> SUFFICES ASSUME NEW k \in i + 1 .. j - 1
                     PROVE  ~RangeAt(handed[k].at)
          OBVIOUS
        <5>1. k \in 1 .. n
          BY <1>5, <2>2, <2>3
        <5> QED
          BY <1>6, <2>1, <5>1
      <4> QED
        BY <1>6, <2>1, <2>2, <2>3, <4>1 DEF FollowsInGroup
    <3>2. CASE TimeOf(j) = TimeOf(i) + 1 \/ TimeOf(i) = 0
      BY <1>6, <2>2, <2>3, <3>2
    <3>3. CASE \E p \in 0 .. received :
                   /\ IsDamagedRange(p)
                   /\ thrown = 0 => handed[i].at < p /\ p < handed[j].at
      <4>1. PICK p \in 0 .. received :
                IsDamagedRange(p) /\ (thrown = 0 => handed[i].at < p /\ p < handed[j].at)
        BY <3>3
      <4>2. IsDamagedRange(p)'
        BY <1>12, <4>1
      <4>3. handed'[i] = handed[i] /\ handed'[j] = handed[j]
        BY <1>6, <2>2, <2>3
      <4>4. received' = received /\ (thrown' = 0 => thrown = 0)
        BY <1>2
      <4> QED
        BY <4>1, <4>2, <4>3, <4>4
    <3> QED
      BY <1>1, <1>5, <2>2, <2>3, <3>1, <3>2, <3>3 DEF GapInv, GroupsHaveNoGaps
  <2>4. CASE j \notin 1 .. n
    <3>1. j = n + 1 /\ IsIntact(pos)
      BY <1>3, <1>5, <2>4
    <3>2. /\ handed'[j].at = pos /\ handed'[j].group = satelliteGroup'
          /\ TimeOf(j)' = stream[pos + 1].time /\ RangeAt(pos)
      BY <1>2, <1>3, <2>1, <3>1 DEF TimeOf, RangeAt
    <3>3. handed[i].group = satelliteGroup /\ satelliteGroup' = satelliteGroup
      <4>1. handed[i].group = satelliteGroup'
        BY <1>6, <2>1, <2>2, <3>2
      <4>2. satelliteGroup' \in {satelliteGroup, satelliteGroup + 1}
        BY <1>4
      <4>3. handed[i].group <= satelliteGroup /\ satelliteGroup \in Nat
        BY <1>5, <2>2
      <4> QED
        BY <4>1, <4>2, <4>3
    <3>4. lastLogTime' = stream[pos + 1].time
          /\ (lastLogTime = 0 \/ logsCount = 0 \/ lastLogTime' = lastLogTime + 1)
      BY <1>4, <1>5, <3>2, <3>3
    <3>5. logsCount > 0
      BY <1>1, <1>5, <2>2, <3>3 DEF GapInv
    <3>6. IsLastRange(i)
      <4>1. \A k \in i + 1 .. n : ~RangeAt(handed[k].at)
        <5> SUFFICES ASSUME NEW k \in i + 1 .. n
                     PROVE  ~RangeAt(handed[k].at)
          OBVIOUS
        <5>1. k \in 1 .. n /\ k \in i + 1 .. j - 1
          BY <1>5, <2>2, <3>1
        <5> QED
          BY <1>6, <2>1, <5>1
      <4> QED
        BY <1>6, <2>1, <2>2, <3>3, <4>1 DEF IsLastRange
    <3>7. lastLogTime = TimeOf(i) \/ Excused(i, pos)
      BY <1>1, <1>5, <2>2, <3>6 DEF GapInv
    <3>8. CASE lastLogTime = TimeOf(i)
      <4>1. lastLogTime = 0 \/ lastLogTime' = lastLogTime + 1
        BY <3>4, <3>5
      <4> QED
        BY <1>6, <2>2, <3>2, <3>4, <3>8, <4>1
    <3>9. CASE Excused(i, pos)
      BY <1>2, <1>8, <2>2, <3>2, <3>9
    <3> QED
      BY <3>7, <3>8, <3>9
  <2> QED
    BY <2>3, <2>4
<1> QED
  BY <1>2, <1>7, <1>9, <1>10 DEF GapInv

-----------------------------------------------------------------------------
(* The invariant *)

LEMMA InitInv == Init => IInv
<1> SUFFICES ASSUME Init PROVE IInv
  OBVIOUS
<1>1. stream \in Seq(LogRawHeader \union {NoHeader}) /\ Len(stream) \in Nat
  <2>1. stream \in Seq(LogRawHeader \union {NoHeader})
    BY StreamsAssumption DEF Init
  <2> QED
    BY <2>1, LenProperties
<1>2. /\ <<>> \in Seq(0 .. 0) /\ <<>> \in Seq([at : 0 .. 0, group : 0 .. 0])
      /\ Len(<<>>) = 0 /\ DOMAIN <<>> = {}
  OBVIOUS
<1>3. TypeOK
  <2>1. /\ received = 0 /\ raw = <<>> /\ first = 0 /\ begin = 0 /\ end = 0
        /\ handed = <<>> /\ satelliteGroup = 0
    BY DEF Init
  <2>2. /\ raw \in Seq(0 .. received) /\ Len(raw) <= RingSize + 1
        /\ handed \in Seq([at : 0 .. received, group : 0 .. satelliteGroup])
    BY <1>2, <2>1, SizesAssumption
  <2>3. /\ received \in 0 .. Len(stream) /\ first \in 0 .. received
        /\ begin \in 0 .. RingSize /\ end \in 0 .. RingSize
    BY <1>1, <2>1, SizesAssumption
  <2>4. /\ stream \in Streams /\ fromFiles \in BOOLEAN /\ parsing \in BOOLEAN
        /\ program \in {"running", "exited"} /\ timer \in {"store", "reset"}
        /\ isReadyAcceptNewData \in BOOLEAN /\ isSomeOneUsedCout \in BOOLEAN
    BY DEF Init
  <2>5. /\ sizeOfData \in 0 .. received /\ countOfProcessed \in Nat
        /\ lastLogTime \in Nat /\ logsCount \in Nat /\ satelliteGroup \in Nat
        /\ thrown \in 0 .. MaxThrows /\ outputs \in 0 .. MaxOutputs
    BY SizesAssumption DEF Init
  <2> QED
    BY <2>2, <2>3, <2>4, <2>5 DEF TypeOK
<1>4. HeldInv
  BY DEF Init, HeldInv
<1>5. StuckInv
  <2>1. Long(raw, first, Len(raw)) = {}
    BY <1>2 DEF Init, Long
  <2>2. Cardinality(Long(raw, first, Len(raw))) <= thrown
    <3>1. Cardinality(Long(raw, first, Len(raw))) = 0
      BY <2>1, FS_EmptySet
    <3>2. thrown = 0
      BY DEF Init
    <3> QED
      BY <3>1, <3>2
  <2>3. PointersInv
    BY <1>2, SizesAssumption DEF Init, PointersInv
  <2> QED
    BY <2>2, <2>3 DEF Init, StuckInv
<1>6. GapInv
  BY <1>2 DEF Init, GapInv, GroupsHaveNoGaps
<1> QED
  BY <1>3, <1>4, <1>5, <1>6 DEF IInv

LEMMA NextInv == IInv /\ [Next]_vars => IInv'
<1> SUFFICES ASSUME IInv, [Next]_vars PROVE IInv'
  OBVIOUS
<1>1. TypeOK /\ HeldInv /\ StuckInv /\ GapInv
  BY DEF IInv
<1>2. CASE Read
  <2>1. PICK n \in 1 .. MaxRead : ReadData(n) \/ ReadExits(n)
    BY <1>2 DEF Read
  <2>2. TypeOK' /\ HeldInv' /\ StuckInv'
    BY <1>1, <2>1, ReadTypes, ReadStuck
  <2>3. GapInv'
    <3>1. Push(n) /\ Len(raw) <= RingSize
      BY <1>1, <2>1 DEF ReadData, ReadExits, StuckInv, PointersInv, Push
    <3>2. received' \in Nat /\ received' >= received
      BY <1>1, <3>1, PushFacts, StreamTypes
    <3>3. UNCHANGED <<stream, logVars, thrown>> /\ UNCHANGED <<first, countOfProcessed>>
      BY <3>1 DEF Push
    <3>4. first' + countOfProcessed' \in Nat /\ first' + countOfProcessed' >= first + countOfProcessed
      BY <1>1, <3>3, HandedTypes
    <3> QED
      BY <1>1, <3>2, <3>3, <3>4, GapKept
  <2> QED
    BY <2>2, <2>3 DEF IInv
<1>3. CASE Parse
  <2>1. TypeOK' /\ HeldInv' /\ StuckInv'
    BY <1>1, <1>3, ParseTypes, ParseStuck
  <2>2. CASE Log \/ HandlerThrows
    BY <2>1, <2>2, LogGap DEF IInv
  <2>3. CASE SkipByte \/ SaveTail
    <3>1. UNCHANGED <<stream, logVars, thrown>> /\ received' = received
      BY <2>3 DEF SkipByte, SaveTail
    <3>2. \/ first' = first /\ countOfProcessed' = countOfProcessed + 1
          \/ first' = first + countOfProcessed /\ countOfProcessed' = 0
      BY <2>3 DEF SkipByte, SaveTail, Return
    <3>3. first' + countOfProcessed' \in Nat /\ first' + countOfProcessed' >= first + countOfProcessed
      <4>1. first \in Nat /\ countOfProcessed \in Nat
        BY <1>1, HandedTypes
      <4> QED
        BY <3>2, <4>1
    <3>4. received' \in Nat /\ received' >= received
      BY <1>1, <3>1, HandedTypes
    <3>5. GapInv'
      BY <1>1, <3>1, <3>3, <3>4, GapKept
    <3> QED
      BY <2>1, <3>5 DEF IInv
  <2> QED
    BY <1>3, <2>2, <2>3 DEF Parse
<1>4. CASE TimerStores \/ TimerResets \/ SomeOneUsedCout \/ UNCHANGED vars
  <2>1. UNCHANGED <<stream, fromFiles, received, parserVars, logVars, thrown, program>>
    BY <1>4 DEF TimerStores, TimerResets, SomeOneUsedCout, vars
  <2>2. /\ isReadyAcceptNewData' \in BOOLEAN /\ isSomeOneUsedCout' \in BOOLEAN
        /\ timer' \in {"store", "reset"} /\ outputs' \in 0 .. MaxOutputs
    <3>1. CASE TimerStores
      <4> DEFINE ready == ~isSomeOneUsedCout
      <4>1. isReadyAcceptNewData' = ready
        BY <3>1 DEF TimerStores
      <4>2. ready \in BOOLEAN
        OBVIOUS
      <4> HIDE DEF ready
      <4>3. isReadyAcceptNewData' \in BOOLEAN
        BY <4>1, <4>2
      <4> QED
        BY <1>1, <3>1, <4>3 DEF TimerStores, TypeOK
    <3>2. CASE TimerResets
      BY <1>1, <3>2 DEF TimerResets, TypeOK
    <3>3. CASE SomeOneUsedCout
      BY <1>1, <3>3, SizesAssumption DEF SomeOneUsedCout, TypeOK
    <3>4. CASE UNCHANGED vars
      BY <1>1, <3>4 DEF vars, acceptVars, TypeOK
    <3> QED
      BY <1>4, <3>1, <3>2, <3>3, <3>4
  <2>3. TypeOK'
    BY <1>1, <2>1, <2>2 DEF TypeOK, parserVars, logVars
  <2>4. HeldInv' /\ StuckInv'
    BY <1>1, <2>1 DEF HeldInv, StuckInv, PointersInv, Long, parserVars
  <2>5. GapInv'
    <3>1. first' + countOfProcessed' \in Nat /\ first' + countOfProcessed' >= first + countOfProcessed
      BY <1>1, <2>1, HandedTypes DEF parserVars
    <3>2. received' \in Nat /\ received' >= received
      BY <1>1, <2>1, HandedTypes
    <3> QED
      BY <1>1, <2>1, <3>1, <3>2, GapKept
  <2> QED
    BY <2>3, <2>4, <2>5 DEF IInv
<1> QED
  BY <1>2, <1>3, <1>4 DEF Next

LEMMA Invariant == Spec => []IInv
<1>1. Init => IInv
  BY InitInv
<1>2. IInv /\ [Next]_vars => IInv'
  BY NextInv
<1> QED
  BY <1>1, <1>2, PTL DEF Spec

-----------------------------------------------------------------------------
(* Every variable of the parser keeps its type, whatever the stream is. *)
THEOREM ParserTypes == Spec => []TypeOK
<1>1. IInv => TypeOK
  BY DEF IInv
<1> QED
  BY <1>1, Invariant, PTL

(* The ring of raw data stops the program (GnssDataMeasurements2::push_back)
   only when the elements it held, but for the last, were too short together for
   a header or were left by exceptions; the last may be of any length. *)
THEOREM StoppedWhenStuck == Spec => []StopsOnlyWhenStuck
<1>1. IInv => StopsOnlyWhenStuck
  <2> SUFFICES ASSUME IInv, program = "exited"
               PROVE  Cardinality({i \in 2 .. RingSize - 1 : raw[i] - first > HeaderLength}) <= thrown
    BY DEF StopsOnlyWhenStuck
  <2>1. Cardinality(Long(raw, first, RingSize - 1)) <= thrown
    BY DEF IInv, StuckInv
  <2>2. Long(raw, first, RingSize - 1) = {i \in 2 .. RingSize - 1 : raw[i] - first > HeaderLength}
    BY SizesAssumption DEF Long
  <2> QED
    BY <2>1, <2>2
<1> QED
  BY <1>1, Invariant, PTL

(* Two RANGE logs that follow each other in a group are 20 ms apart, but for
   the damaged ones between them (LogParserThread::parseRawNetworkData). *)
THEOREM GroupsWithoutGaps == Spec => []GroupsHaveNoGaps
<1>1. IInv => GroupsHaveNoGaps
  BY DEF IInv, GapInv
<1> QED
  BY <1>1, Invariant, PTL

-----------------------------------------------------------------------------
(* That cuts do not matter.  The scan of the uncut stream and the parser
   advance together while no handler throws (ScanInv); a log is taken again
   only after an exception (RepeatInv). *)

(* Arithmetic, for terms with primes. *)
LEMMA SumIsNat == ASSUME NEW a \in Nat, NEW b \in Nat PROVE a + b \in Nat
  OBVIOUS
LEMMA RangeGrows ==
    ASSUME NEW a \in Nat, NEW b \in Nat, b >= a, NEW i \in 0 .. a - 1 PROVE i \in 0 .. b - 1
  OBVIOUS

LEMMA StillAtMost ==
    ASSUME NEW a \in Int, NEW b \in Int, NEW c \in Int, NEW d \in Int, a <= b, b - c <= d
    PROVE  a - c <= d
  OBVIOUS

LEMMA NotMore == ASSUME NEW a \in Int, NEW b \in Int, NEW c \in Int, ~(a - b > c) PROVE a - b <= c
  OBVIOUS

(* A set of naturals has a least element: induction, as the provers can use it. *)
LEMMA Least == ASSUME NEW T \in SUBSET Nat, T # {} PROVE \E n \in T : \A m \in T : n <= m
<1>1. IsWellFoundedOn(OpToRel(<, Nat), Nat)
  BY NatLessThanWellFounded
<1>2. PICK n \in T : \A m \in T : ~(<<m, n>> \in OpToRel(<, Nat))
  BY <1>1, WFMin
<1>3. \A m \in T : ~(m < n)
  BY <1>2 DEF OpToRel
<1> QED BY <1>3

(* LooksAt without recursion: a path of the scan from the start. *)
IsPath(s, n, p) ==
    /\ s[1] = 0 /\ s[n] = p
    /\ \A i \in 1 .. n - 1 : s[i] < s[i + 1] /\ Following(s[i]) = s[i + 1]
HasPath(p) == \E n \in Nat \ {0} : \E s \in [1 .. n -> Nat] : IsPath(s, n, p)

LEMMA PathExtends ==
    ASSUME NEW p \in Nat
    PROVE  HasPath(p) <=> p = 0 \/ \E q \in 0 .. p - 1 : HasPath(q) /\ Following(q) = p
<1>1. HasPath(0)
  <2> DEFINE s == [i \in 1 .. 1 |-> 0]
  <2>1. s \in [1 .. 1 -> Nat] /\ s[1] = 0
    OBVIOUS
  <2> HIDE DEF s
  <2>2. IsPath(s, 1, 0)
    BY <2>1 DEF IsPath
  <2>3. \E m \in [1 .. 1 -> Nat] : IsPath(m, 1, 0)
    BY <2>1, <2>2
  <2>4. 1 \in Nat \ {0}
    OBVIOUS
  <2> QED
    BY <2>3, <2>4 DEF HasPath
<1>2. ASSUME HasPath(p), p # 0
      PROVE  \E q \in 0 .. p - 1 : HasPath(q) /\ Following(q) = p
  <2>1. PICK n \in Nat \ {0} : \E s \in [1 .. n -> Nat] : IsPath(s, n, p)
    BY <1>2 DEF HasPath
  <2>2. PICK s \in [1 .. n -> Nat] : IsPath(s, n, p)
    BY <2>1
  <2>3. n # 1
    BY <1>2, <2>2 DEF IsPath
  <2>4. /\ n - 1 \in Nat \ {0} /\ n - 1 \in 1 .. n - 1
        /\ s[n - 1] < p /\ Following(s[n - 1]) = p /\ s[n - 1] \in Nat
    <3>1. n - 1 \in Nat \ {0} /\ n - 1 \in 1 .. n - 1 /\ (n - 1) + 1 = n /\ n - 1 \in 1 .. n
      BY <2>3
    <3> QED
      BY <2>2, <3>1 DEF IsPath
  <2> DEFINE t == [i \in 1 .. n - 1 |-> s[i]]
  <2>5. t \in [1 .. n - 1 -> Nat] /\ \A i \in 1 .. n - 1 : t[i] = s[i]
    BY <2>2
  <2> HIDE DEF t
  <2>6. IsPath(t, n - 1, s[n - 1])
    <3>1. \A i \in 1 .. (n - 1) - 1 : i \in 1 .. n - 1 /\ i + 1 \in 1 .. n - 1
      BY <2>4
    <3>2. \A i \in 1 .. (n - 1) - 1 : t[i] < t[i + 1] /\ Following(t[i]) = t[i + 1]
      BY <2>2, <2>5, <3>1 DEF IsPath
    <3>3. t[1] = 0 /\ t[n - 1] = s[n - 1]
      BY <2>2, <2>4, <2>5 DEF IsPath
    <3> QED
      BY <3>2, <3>3 DEF IsPath
  <2>7. HasPath(s[n - 1])
    BY <2>4, <2>5, <2>6 DEF HasPath
  <2>8. s[n - 1] \in 0 .. p - 1
    BY <2>4
  <2> QED
    BY <2>4, <2>7, <2>8
<1>3. ASSUME NEW q \in 0 .. p - 1, HasPath(q), Following(q) = p
      PROVE  HasPath(p)
  <2>1. PICK n \in Nat \ {0} : \E s \in [1 .. n -> Nat] : IsPath(s, n, q)
    BY <1>3 DEF HasPath
  <2>2. PICK s \in [1 .. n -> Nat] : IsPath(s, n, q)
    BY <2>1
  <2> DEFINE t == [i \in 1 .. n + 1 |-> IF i = n + 1 THEN p ELSE s[i]]
  <2>3. t \in [1 .. n + 1 -> Nat] /\ t[n + 1] = p /\ \A i \in 1 .. n : t[i] = s[i]
    BY <2>2
  <2> HIDE DEF t
  <2>4. IsPath(t, n + 1, p)
    <3>1. ASSUME NEW i \in 1 .. (n + 1) - 1
          PROVE  t[i] < t[i + 1] /\ Following(t[i]) = t[i + 1]
      <4>1. CASE i = n
        <5>1. t[i] = q /\ t[i + 1] = p
          BY <2>2, <2>3, <4>1 DEF IsPath
        <5> QED
          BY <1>3, <5>1
      <4>2. CASE i # n
        <5>1. i \in 1 .. n - 1 /\ i \in 1 .. n /\ i + 1 \in 1 .. n
          BY <4>2
        <5> QED
          BY <2>2, <2>3, <5>1 DEF IsPath
      <4> QED
        BY <4>1, <4>2
    <3>2. t[1] = 0
      BY <2>2, <2>3 DEF IsPath
    <3> QED
      BY <2>3, <3>1, <3>2 DEF IsPath
  <2>5. n + 1 \in Nat \ {0}
    OBVIOUS
  <2> QED
    BY <2>3, <2>4, <2>5 DEF HasPath
<1> QED
  BY <1>1, <1>2, <1>3

(* What the recursive definition of the scan says. *)
LEMMA ScanUnrolls ==
    /\ LooksAt[0]
    /\ \A p \in Nat : LooksAt[p] <=> p = 0 \/ \E q \in 0 .. p - 1 : LooksAt[q] /\ Following(q) = p
<1> DEFINE f == [p \in Nat |-> HasPath(p)]
           Step(g) == [p \in Nat |-> p = 0 \/ \E q \in 0 .. p - 1 : g[q] /\ Following(q) = p]
<1>1. f = Step(f)
  <2>1. ASSUME NEW p \in Nat
        PROVE  HasPath(p) = (p = 0 \/ \E q \in 0 .. p - 1 : f[q] /\ Following(q) = p)
    <3>1. \A q \in 0 .. p - 1 : f[q] = HasPath(q)
      OBVIOUS
    <3>2. HasPath(p) <=> (p = 0 \/ \E q \in 0 .. p - 1 : f[q] /\ Following(q) = p)
      BY <3>1, PathExtends
    <3>3. HasPath(p) \in BOOLEAN
      BY DEF HasPath
    <3> HIDE DEF f
    <3> QED
      BY <3>2, <3>3
  <2> QED
    BY <2>1
<1>2. LooksAt = Step(LooksAt)
  <2> HIDE DEF f
  <2> QED
    BY <1>1, Zenon DEF LooksAt
<1>3. \A p \in Nat :
         LooksAt[p] = (p = 0 \/ \E q \in 0 .. p - 1 : LooksAt[q] /\ Following(q) = p)
  BY <1>2, Zenon
<1> QED
  BY <1>3

(* The scan goes forward. *)
LEMMA FollowingTypes ==
    ASSUME TypeOK, NEW p \in 0 .. Len(stream) - 1
    PROVE  /\ Following(p) \in Nat /\ Following(p) > p
           /\ stream[p + 1] # NoHeader =>
                 /\ Following(p) = p + stream[p + 1].fullLogLength
                 /\ stream[p + 1].fullLogLength \in Nat
                 /\ Following(p) > p + HeaderLength
<1>1. stream \in Streams /\ stream \in Seq(LogRawHeader \union {NoHeader})
  BY StreamsAssumption DEF TypeOK
<1>2. p + 1 \in DOMAIN stream /\ stream[p + 1] \in LogRawHeader \union {NoHeader}
  <2>1. p + 1 \in 1 .. Len(stream)
    BY StreamTypes
  <2> QED
    BY <1>1, <2>1, LenProperties, ElementOfSeq
<1>3. CASE stream[p + 1] = NoHeader
  <2>1. Following(p) = p + 1
    BY <1>3 DEF Following
  <2> QED
    BY <1>3, <2>1
<1>4. CASE stream[p + 1] # NoHeader
  <2>1. Following(p) = p + stream[p + 1].fullLogLength
    BY <1>4 DEF Following
  <2>2. stream[p + 1].fullLogLength \in Nat
    BY <1>2, <1>4 DEF LogRawHeader
  <2>3. stream[p + 1].fullLogLength > HeaderLength
    BY <1>1, <1>2, <1>4, LengthAssumption
  <2> QED
    BY <2>1, <2>2, <2>3, SizesAssumption
<1> QED
  BY <1>3, <1>4

(* Where a scan looks, nothing it found before is still going on. *)
LEMMA ScanStepsOver ==
    ASSUME TypeOK, NEW p \in Nat, NEW q \in 0 .. Len(stream), LooksAt[p], LooksAt[q], p < q
    PROVE  Following(p) <= q
<1> DEFINE Bad == {m \in 0 .. Len(stream) : /\ LooksAt[m]
                                           /\ \E r \in 0 .. m - 1 : LooksAt[r] /\ ~(Following(r) <= m)}
<1> SUFFICES Bad = {}
  BY DEF Bad
<1>1. SUFFICES ASSUME Bad # {} PROVE FALSE
  OBVIOUS
<1>2. PICK m \in Bad : \A k \in Bad : m <= k
  <2>1. Bad \in SUBSET Nat
    BY StreamTypes
  <2> HIDE DEF Bad
  <2> QED
    BY <1>1, <2>1, Least
<1>3. m \in Nat /\ m <= Len(stream) /\ Len(stream) \in Nat /\ LooksAt[m]
  BY StreamTypes
<1>4. PICK r \in 0 .. m - 1 : LooksAt[r] /\ ~(Following(r) <= m)
  OBVIOUS
<1>5. PICK k \in 0 .. m - 1 : LooksAt[k] /\ Following(k) = m
  BY <1>3, <1>4, ScanUnrolls
<1>8. Following(r) \in Nat
  BY <1>3, FollowingTypes
<1>6. CASE r < k
  <2>1. ~(Following(r) <= k)
    BY <1>4, <1>5, <1>8
  <2>2. k \in Bad
    BY <1>3, <1>4, <1>5, <1>6, <2>1
  <2> HIDE DEF Bad
  <2> QED
    BY <1>2, <1>3, <1>5, <2>2
<1>7. CASE k < r
  <2>1. ~(Following(k) <= r)
    BY <1>3, <1>4, <1>5
  <2>2. r \in Bad
    BY <1>3, <1>4, <1>5, <1>7, <2>1
  <2> HIDE DEF Bad
  <2> QED
    BY <1>2, <1>3, <1>4, <2>2
<1> QED
  BY <1>4, <1>5, <1>6, <1>7

(* Where the parser looks. *)
Position == first + countOfProcessed
(* The sound logs that the scan finds before p. *)
ScannedLogs(p) == {q \in LogsIn(0 .. p - 1) : LooksAt[q] /\ IsIntact(q)}

(* A step of the scan finds what is where it looked, and nothing else. *)
LEMMA ScanMoves ==
    ASSUME TypeOK, NEW p \in 0 .. Len(stream) - 1, LooksAt[p], Following(p) <= Len(stream)
    PROVE  /\ LooksAt[Following(p)]
           /\ ScannedLogs(Following(p)) =
                 IF stream[p + 1] # NoHeader /\ IsIntact(p)
                 THEN ScannedLogs(p) \union {p} ELSE ScannedLogs(p)
<1>1. Len(stream) \in Nat /\ Following(p) \in 0 .. Len(stream) /\ p < Following(p)
  BY StreamTypes, FollowingTypes
<1>2. LooksAt[Following(p)]
  BY <1>1, ScanUnrolls
<1>3. \A q \in 0 .. Following(p) - 1 : LooksAt[q] => q <= p
  <2> SUFFICES ASSUME NEW q \in 0 .. Following(p) - 1, LooksAt[q], p < q
               PROVE  FALSE
    BY <1>1
  <2> QED
    BY <1>1, ScanStepsOver
<1>4. \A q : q \in ScannedLogs(Following(p)) <=>
              \/ q \in ScannedLogs(p)
              \/ q = p /\ stream[p + 1] # NoHeader /\ IsIntact(p)
  <2> SUFFICES ASSUME NEW q
               PROVE  q \in ScannedLogs(Following(p)) <=>
                         \/ q \in ScannedLogs(p)
                         \/ q = p /\ stream[p + 1] # NoHeader /\ IsIntact(p)
    OBVIOUS
  <2>1. (q \in 0 .. Following(p) - 1 /\ LooksAt[q]) <=>
            (q \in 0 .. p - 1 /\ LooksAt[q]) \/ q = p
    BY <1>1, <1>3
  <2> QED
    BY <2>1 DEF ScannedLogs, LogsIn
<1>5. CASE stream[p + 1] # NoHeader /\ IsIntact(p)
  BY <1>2, <1>4, <1>5
<1>6. CASE ~(stream[p + 1] # NoHeader /\ IsIntact(p))
  BY <1>2, <1>4, <1>6
<1> QED
  BY <1>5, <1>6

(* The scan is of the stream alone. *)
LEMMA ScanKept ==
    ASSUME UNCHANGED stream
    PROVE  /\ LooksAt' = LooksAt
           /\ \A p : ScannedLogs(p)' = ScannedLogs(p)
<1>1. LooksAt' = LooksAt
  BY DEF LooksAt, Following
<1>2. ASSUME NEW p PROVE ScannedLogs(p)' = ScannedLogs(p)
  BY <1>1 DEF ScannedLogs, LogsIn, IsIntact
<1> QED
  BY <1>1, <1>2

(* What was read and shown between two reads does not begin with a whole log. *)
NothingWhole ==
    \/ Shown - first <= HeaderLength
    \/ stream[first + 1] # NoHeader /\ ~WasShown(first)

InOrder == \A i, j \in DOMAIN handed : i < j => handed[i].at < handed[j].at

(* The last element ends where the reading is; what is parsed was shown. *)
RawInv ==
    /\ Len(raw) > 0 => raw[Len(raw)] = received
    /\ parsing => begin # end

(* The ring begins, and the parser is, where the scan looks; what the scan has
   found so far was handed over.  Without exceptions nothing else was. *)
ScanInv ==
    /\ LooksAt[first] /\ LooksAt[Position]
    /\ ScannedLogs(Position) \subseteq HandedLogs /\ HandedLogs \subseteq Expected
    /\ thrown = 0 =>
          /\ HandedLogs = ScannedLogs(Position)
          /\ InOrder
          /\ IsBetweenReads => NothingWhole

(* The log at p is handed over once when the parser has passed it, and once more
   for each exception. *)
Times(p) == {i \in DOMAIN handed : handed[i].at = p}

RepeatInv ==
    \A p \in Nat : Cardinality(Times(p)) <= thrown + (IF p < Position THEN 1 ELSE 0)

CutsInv == RawInv /\ ScanInv /\ RepeatInv

(* What was shown was read, and was all that was read unless the ring is full. *)
LEMMA ShownTypes ==
    ASSUME TypeOK
    PROVE  /\ Shown \in Nat /\ Shown <= received
           /\ begin # end \/ Len(raw) # RingSize => Shown = received
<1>1. raw \in Seq(0 .. received) /\ received \in Nat
  BY StreamTypes DEF TypeOK
<1>2. CASE begin = end /\ Len(raw) = RingSize
  <2>1. Shown = raw[RingSize - 1]
    BY <1>2 DEF Shown
  <2>2. RingSize - 1 \in 1 .. Len(raw)
    BY <1>2, SizesAssumption
  <2>3. raw[RingSize - 1] \in 0 .. received
    BY <1>1, <2>2, ElementOfSeq
  <2> QED
    BY <1>1, <1>2, <2>1, <2>3
<1>3. CASE ~(begin = end /\ Len(raw) = RingSize)
  <2>1. Shown = received
    BY <1>3 DEF Shown
  <2> QED
    BY <1>1, <2>1
<1> QED
  BY <1>2, <1>3

LEMMA ShownNext ==
    ASSUME TypeOK', stream' = stream, Len(stream) \in Nat
    PROVE  received' \in Nat /\ Shown' \in Nat /\ Shown' <= received'
<1>1. received' \in Nat /\ raw' \in Seq(0 .. received')
  BY DEF TypeOK
<1>2. CASE begin' = end' /\ Len(raw') = RingSize
  <2>1. Shown' = raw'[RingSize - 1] /\ RingSize - 1 \in 1 .. Len(raw')
    BY <1>2, SizesAssumption DEF Shown
  <2>2. raw'[RingSize - 1] \in 0 .. received'
    BY <1>1, <2>1, ElementOfSeq
  <2> QED
    BY <1>1, <2>1, <2>2
<1>3. CASE ~(begin' = end' /\ Len(raw') = RingSize)
  BY <1>1, <1>3 DEF Shown
<1> QED
  BY <1>2, <1>3

(* What is expected stays so. *)
LEMMA ExpectedGrows ==
    ASSUME TypeOK, TypeOK', UNCHANGED stream, received' >= received, Shown' >= Shown
    PROVE  Expected \subseteq Expected'
<1> SUFFICES ASSUME NEW p \in Expected
             PROVE  p \in Expected'
  OBVIOUS
<1>1. /\ p \in 0 .. received - 1 /\ p < Len(stream) /\ stream[p + 1] # NoHeader
      /\ LooksAt[p] /\ IsIntact(p) /\ WasShown(p)
  BY DEF Expected, LogsIn
<1>2. /\ received \in Nat /\ received' \in Nat /\ Shown \in Nat /\ Shown' \in Nat
      /\ Len(stream) \in Nat
  <2>1. received \in Nat /\ Shown \in Nat /\ Len(stream) \in Nat
    BY StreamTypes, ShownTypes
  <2>2. stream' = stream /\ received' \in 0 .. Len(stream')
    BY DEF TypeOK
  <2>3. Shown' \in Nat
    BY <2>1, <2>2, ShownNext
  <2> QED
    BY <2>1, <2>2, <2>3
<1>3. LooksAt'[p] /\ IsIntact(p)'
  BY <1>1, ScanKept DEF IsIntact
<1>4. WasShown(p)'
  <2>1. p + stream[p + 1].fullLogLength <= Shown
    BY <1>1 DEF WasShown
  <2>2. stream[p + 1].fullLogLength \in Nat
    BY <1>1, <1>2, FollowingTypes
  <2>3. p + stream[p + 1].fullLogLength <= Shown'
    BY <1>1, <1>2, <2>1, <2>2
  <2> QED
    BY <2>3 DEF WasShown
<1>5. p \in 0 .. received' - 1
  BY <1>1, <1>2, RangeGrows
<1> QED
  BY <1>1, <1>3, <1>4, <1>5 DEF Expected, LogsIn

(* Steps that move nothing but the ends of the data. *)
LEMMA ScanStays ==
    ASSUME TypeOK, TypeOK', ScanInv, UNCHANGED <<stream, handed>>, Position' = Position,
           thrown' = thrown, first' \in {first, Position},
           received' >= received, Shown' >= Shown,
           thrown = 0 /\ IsBetweenReads' => NothingWhole'
    PROVE  ScanInv'
<1>1. /\ LooksAt[first] /\ LooksAt[Position]
      /\ ScannedLogs(Position) \subseteq HandedLogs /\ HandedLogs \subseteq Expected
  BY DEF ScanInv
<1>2. LooksAt' = LooksAt /\ \A p : ScannedLogs(p)' = ScannedLogs(p)
  BY ScanKept
<1>3. HandedLogs' = HandedLogs /\ InOrder' = InOrder
  BY DEF HandedLogs, InOrder
<1>4. ScannedLogs(Position)' = ScannedLogs(Position)
  BY <1>2 DEF ScannedLogs, LogsIn, IsIntact
<1>5. HandedLogs' \subseteq Expected'
  BY <1>1, <1>3, ExpectedGrows
<1>6. LooksAt'[first'] /\ LooksAt'[Position'] /\ ScannedLogs(Position)' \subseteq HandedLogs'
  BY <1>1, <1>2, <1>3, <1>4
<1>7. ASSUME thrown' = 0
      PROVE  HandedLogs' = ScannedLogs(Position)' /\ InOrder' /\ (IsBetweenReads' => NothingWhole')
  <2>1. HandedLogs = ScannedLogs(Position) /\ InOrder
    BY <1>7 DEF ScanInv
  <2> QED
    BY <1>3, <1>4, <1>7, <2>1
<1> QED
  BY <1>5, <1>6, <1>7 DEF ScanInv

(* Steps that hand over nothing. *)
LEMMA RepeatStays ==
    ASSUME TypeOK, RepeatInv, UNCHANGED handed, thrown' = thrown,
           Position' \in Nat, Position' >= Position
    PROVE  RepeatInv'
<1> SUFFICES ASSUME NEW p \in Nat
             PROVE  Cardinality(Times(p)') <= thrown + (IF p < Position' THEN 1 ELSE 0)
  BY DEF RepeatInv
<1>1. Times(p)' = Times(p)
  BY DEF Times
<1>2. Cardinality(Times(p)) <= thrown + (IF p < Position THEN 1 ELSE 0)
  BY DEF RepeatInv
<1>3. Cardinality(Times(p)) \in Nat
  <2>1. IsFiniteSet(DOMAIN handed)
    <3>1. DOMAIN handed = 1 .. Len(handed) /\ Len(handed) \in Int
      BY HandedTypes
    <3> QED
      BY <3>1, FS_Interval
  <2>2. Times(p) \subseteq DOMAIN handed
    BY DEF Times
  <2> QED
    BY <2>1, <2>2, FS_Subset, FS_CardinalityType
<1>4. Position \in Nat /\ thrown \in Nat
  BY HandedTypes DEF Position
<1> QED
  BY <1>1, <1>2, <1>3, <1>4

(* A read that is not parsed leaves too little for a header, or fills the ring
   and is not shown. *)
LEMMA ReadShows ==
    ASSUME IInv, IInv', RawInv, NEW n \in 1 .. MaxRead, ReadData(n) \/ ReadExits(n)
    PROVE  /\ RawInv' /\ received' >= received /\ Shown' >= Shown
           /\ IsBetweenReads' => Shown' = Shown \/ received' - first <= HeaderLength
<1>1. /\ TypeOK /\ TypeOK' /\ PointersInv
      /\ UNCHANGED <<first, begin>> /\ received' = received + n /\ ~parsing
      /\ raw' = Append(raw, received + n)
  BY DEF IInv, StuckInv, ReadData, ReadExits, Push
<1>2. /\ raw \in Seq(0 .. received) /\ received \in Nat /\ RingSize \in Nat \ {0, 1}
      /\ MaxRead \in Nat
  BY <1>1, StreamTypes, SizesAssumption DEF TypeOK
<1>3. /\ Len(raw) \in Nat /\ Len(raw') = Len(raw) + 1 /\ raw'[Len(raw) + 1] = received'
      /\ \A i \in 1 .. Len(raw) : raw'[i] = raw[i]
  <2>1. raw \in Seq(Nat) /\ received + n \in Nat
    BY <1>2, SeqMonotonic
  <2> QED
    BY <1>1, <2>1, AppendProperties, LenProperties
<1>4. RawInv'
  <2>1. parsing' => begin' # end'
    <3>1. CASE ReadData(n)
      BY <1>1, <3>1 DEF ReadData
    <3>2. CASE ReadExits(n)
      BY <1>1, <3>2 DEF ReadExits
    <3> QED
      BY <3>1, <3>2
  <2> QED
    BY <1>3, <2>1 DEF RawInv
<1>5. received' >= received
  BY <1>1, <1>2
<1>6. Shown \in Nat /\ Shown <= received
  BY <1>1, ShownTypes
<1>7. CASE begin' = end' /\ Len(raw') = RingSize
  <2>1. Len(raw) = RingSize - 1 /\ Len(raw) \in 1 .. Len(raw)
    BY <1>2, <1>3, <1>7
  <2>2. Shown' = raw[Len(raw)]
    BY <1>3, <1>7, <2>1 DEF Shown
  <2>3. raw[Len(raw)] = received
    BY <1>2, <2>1 DEF RawInv
  <2>4. Shown = received
    BY <1>1, <1>2, <2>1, ShownTypes
  <2> QED
    BY <1>2, <1>4, <1>5, <2>2, <2>3, <2>4
<1>8. CASE ~(begin' = end' /\ Len(raw') = RingSize)
  <2>1. Shown' = received'
    BY <1>8 DEF Shown
  <2>2. ASSUME IsBetweenReads'
        PROVE  received' - first <= HeaderLength
    <3>1. program' = "running" /\ ~parsing'
      BY <2>2 DEF IsBetweenReads
    <3>2. ReadData(n) /\ Len(raw) < RingSize
      BY <3>1 DEF ReadData, ReadExits
    <3>3. begin' # end'
      <4>1. PointersInv'
        BY <3>1 DEF IInv, StuckInv
      <4>2. begin' \in Int /\ end' \in Int
        BY <1>1, <1>2 DEF TypeOK
      <4>3. Len(raw') \in Nat /\ Len(raw') > 0 /\ Len(raw') <= RingSize
        BY <1>2, <1>3, <3>2
      <4> QED
        BY <1>2, <1>8, <4>1, <4>2, <4>3 DEF PointersInv
    <3>4. ~(received' - first > HeaderLength)
      BY <1>1, <3>1, <3>2, <3>3 DEF ReadData
    <3>5. received' \in Int /\ first \in Int /\ HeaderLength \in Int
      BY <1>1, <1>2, SizesAssumption DEF TypeOK
    <3> QED
      BY <3>4, <3>5, NotMore
  <2>3. Shown' >= Shown
    BY <1>1, <1>2, <1>6, <2>1
  <2> QED
    BY <1>4, <1>5, <2>2, <2>3
<1> QED
  BY <1>7, <1>8

LEMMA ReadCuts ==
    ASSUME IInv, IInv', CutsInv, NEW n \in 1 .. MaxRead, ReadData(n) \/ ReadExits(n)
    PROVE  CutsInv'
<1>1. /\ UNCHANGED <<stream, handed, thrown, first, begin, countOfProcessed>>
      /\ ~parsing
  BY DEF ReadData, ReadExits, Push, logVars
<1>2. Position' = Position /\ Position \in Nat
  BY <1>1, HandedTypes DEF IInv, Position
<1>3. /\ RawInv' /\ received' >= received /\ Shown' >= Shown
      /\ IsBetweenReads' => Shown' = Shown \/ received' - first <= HeaderLength
  BY ReadShows DEF CutsInv
<1>4. ASSUME thrown = 0, IsBetweenReads'
      PROVE  NothingWhole'
  <2>1. CASE Shown' = Shown
    <3>1. IsBetweenReads
      BY <1>1 DEF IsBetweenReads, ReadData, ReadExits, Push
    <3>2. NothingWhole
      BY <1>4, <3>1 DEF CutsInv, ScanInv
    <3> QED
      BY <1>1, <2>1, <3>2 DEF NothingWhole, WasShown
  <2>2. CASE received' - first <= HeaderLength
    <3>1. Shown' \in Int /\ Shown' <= received' /\ received' \in Int
      <4>1. Len(stream) \in Nat /\ stream' = stream
        BY <1>1, StreamTypes DEF IInv
      <4> QED
        BY <4>1, ShownNext DEF IInv
    <3>2. first \in Int /\ HeaderLength \in Int
      BY SizesAssumption, HandedTypes DEF IInv
    <3>3. Shown' - first' <= HeaderLength
      BY <1>1, <2>2, <3>1, <3>2, StillAtMost
    <3> QED
      BY <3>3 DEF NothingWhole
  <2> QED
    BY <1>3, <1>4, <2>1, <2>2
<1>5. ScanInv'
  BY <1>1, <1>2, <1>3, <1>4, ScanStays DEF CutsInv, IInv
<1>6. RepeatInv'
  BY <1>1, <1>2, RepeatStays DEF CutsInv, IInv
<1> QED
  BY <1>3, <1>5, <1>6 DEF CutsInv

(* What is saved is shorter than a header or begins with a log that goes on. *)
LEMMA SaveTailCuts ==
    ASSUME IInv, IInv', CutsInv, SaveTail
    PROVE  CutsInv'
<1>1. /\ UNCHANGED <<stream, handed, thrown, received, program>>
      /\ first' = first + countOfProcessed /\ countOfProcessed' = 0 /\ parsing
  BY DEF SaveTail, Return, logVars
<1>2. /\ first \in Nat /\ countOfProcessed \in Nat /\ received \in Nat
      /\ first + sizeOfData = received /\ sizeOfData \in Nat /\ countOfProcessed <= sizeOfData
  BY <1>1, HandedTypes DEF IInv, TypeOK, HeldInv
<1>3. Position' = Position /\ Position \in Nat
  BY <1>1, <1>2 DEF Position
<1>4. RawInv' /\ Shown' = received
  <2>1. raw' = <<received>> \/ raw' = <<>>
    BY DEF SaveTail
  <2>2. Len(<<received>>) = 1 /\ <<received>>[1] = received /\ Len(<<>>) = 0
    OBVIOUS
  <2>3. ~parsing'
    BY DEF SaveTail, Return
  <2>4. CASE raw' = <<received>>
    <3>1. Len(raw') = 1 /\ raw'[1] = received'
      BY <1>1, <2>2, <2>4
    <3> QED
      BY <1>1, <2>3, <3>1, SizesAssumption DEF RawInv, Shown
  <2>5. CASE raw' = <<>>
    <3>1. Len(raw') = 0
      BY <2>2, <2>5
    <3> QED
      BY <1>1, <2>3, <3>1, SizesAssumption DEF RawInv, Shown
  <2> QED
    BY <2>1, <2>4, <2>5
<1>5. NothingWhole'
  <2>1. CASE ~LooksOn
    <3>1. ~(countOfProcessed < sizeOfData - HeaderLength)
      BY <1>1, <2>1 DEF LooksOn
    <3>2. received' - first' <= HeaderLength
      BY <1>1, <1>2, <3>1, SizesAssumption
    <3> QED
      BY <1>1, <1>4, <3>2 DEF NothingWhole
  <2>2. CASE LooksOn
    <3>1. IsHeader /\ ~IsWhole
      BY <2>2 DEF SaveTail, IsHeader
    <3>2. /\ currentHeader = stream[first' + 1] /\ currentHeader # NoHeader
          /\ currentHeader.fullLogLength \in Nat
      BY <1>1, <3>1, HeaderTypes DEF IInv, IsHeader
    <3>3. ~(first' + currentHeader.fullLogLength <= received)
      BY <1>1, <1>2, <3>1, <3>2 DEF IsWhole
    <3> QED
      BY <1>1, <1>4, <3>2, <3>3 DEF NothingWhole, WasShown
  <2> QED
    BY <2>1, <2>2
<1>6. received' >= received /\ Shown' >= Shown
  BY <1>1, <1>2, <1>4, ShownTypes DEF IInv
<1>7. first' = Position
  BY <1>1 DEF Position
<1>8. ScanInv'
  BY <1>1, <1>3, <1>5, <1>6, <1>7, ScanStays DEF CutsInv, IInv
<1>9. RepeatInv'
  BY <1>1, <1>3, RepeatStays DEF CutsInv, IInv
<1> QED
  BY <1>4, <1>8, <1>9 DEF CutsInv

(* A cell without a header is a step of the scan. *)
LEMMA SkipByteCuts ==
    ASSUME IInv, CutsInv, SkipByte
    PROVE  CutsInv'
<1>1. /\ UNCHANGED <<stream, handed, thrown, received, first, parsing, raw, begin, end>> /\ parsing
      /\ countOfProcessed' = countOfProcessed + 1
      /\ LooksOn /\ currentHeader = NoHeader
  BY DEF SkipByte, logVars, LooksOn
<1>2. /\ first \in Nat /\ countOfProcessed \in Nat /\ received \in Nat
      /\ first + sizeOfData = received /\ sizeOfData \in Nat /\ received <= Len(stream)
      /\ Len(stream) \in Nat
  BY <1>1, HandedTypes, StreamTypes DEF IInv, TypeOK, HeldInv
<1>3. /\ Position \in 0 .. Len(stream) - 1 /\ Position' = Position + 1
      /\ stream[Position + 1] = NoHeader
  BY <1>1, <1>2, SizesAssumption DEF Position, LooksOn, currentHeader
<1>4. Following(Position) = Position' /\ Position' <= Len(stream)
  BY <1>2, <1>3 DEF Following
<1>5. LooksAt' = LooksAt /\ \A p : ScannedLogs(p)' = ScannedLogs(p)
  BY <1>1, ScanKept
<1>6. LooksAt[Position'] /\ ScannedLogs(Following(Position)) = ScannedLogs(Position)
  <2>1. LooksAt[Position]
    BY DEF CutsInv, ScanInv
  <2> QED
    BY <1>3, <1>4, <2>1, ScanMoves DEF IInv
<1>7. ScannedLogs(Position)' = ScannedLogs(Position)
  <2>1. ScannedLogs(Position)' = {q \in LogsIn(0 .. Position' - 1) : LooksAt[q] /\ IsIntact(q)}
    BY <1>1, <1>5 DEF ScannedLogs, LogsIn, IsIntact
  <2> QED
    BY <1>4, <1>6, <2>1 DEF ScannedLogs
<1>8. HandedLogs' = HandedLogs /\ InOrder' = InOrder /\ Expected' = Expected /\ RawInv' = RawInv
  <2>1. Shown' = Shown
    BY <1>1 DEF Shown
  <2>2. Expected' = Expected
    BY <1>1, <1>5, <2>1 DEF Expected, LogsIn, IsIntact, WasShown
  <2> QED
    BY <1>1, <2>2 DEF HandedLogs, InOrder, RawInv
<1>9. ScanInv'
  <2>1. ~IsBetweenReads'
    BY <1>1 DEF IsBetweenReads
  <2>2. LooksAt'[first'] /\ LooksAt'[Position']
    BY <1>1, <1>5, <1>6 DEF CutsInv, ScanInv
  <2> QED
    BY <1>1, <1>7, <1>8, <2>1, <2>2 DEF CutsInv, ScanInv
<1>10. RepeatInv'
  BY <1>1, <1>3, RepeatStays DEF CutsInv, IInv
<1> QED
  BY <1>8, <1>9, <1>10 DEF CutsInv

(* A log is the next that the scan finds. *)
LEMMA TakeCuts ==
    ASSUME IInv, Log \/ HandlerThrows
    PROVE  /\ Position \in 0 .. Len(stream) - 1 /\ stream[Position + 1] # NoHeader
           /\ UNCHANGED stream /\ TakeLog /\ Len(stream) \in Nat
           /\ IF IsIntact(Position)
              THEN /\ Len(handed') = Len(handed) + 1 /\ DOMAIN handed' = 1 .. Len(handed) + 1
                   /\ \A i \in 1 .. Len(handed) : handed'[i] = handed[i]
                   /\ handed'[Len(handed) + 1].at = Position
              ELSE handed' = handed
           /\ Log => /\ Position' = Following(Position) /\ Position' <= Len(stream)
                     /\ parsing' /\ thrown' = thrown
           /\ HandlerThrows => thrown' = thrown + 1 /\ Position' = first
<1>1. TypeOK /\ HeldInv /\ TakeLog
  BY DEF IInv, Log, HandlerThrows
<1>2. /\ currentHeader = stream[Position + 1] /\ Position \in 0 .. received - 1
      /\ currentHeader.fullLogLength \in Nat
      /\ currentHeader # NoHeader
  BY <1>1, HeaderTypes DEF TakeLog, IsHeader, Position
<1>3. received <= Len(stream) /\ Len(stream) \in Nat /\ received \in Nat
  BY <1>1, StreamTypes
<1>4. Position \in 0 .. Len(stream) - 1
  BY <1>2, <1>3
<1>5. IF IsIntact(Position)
      THEN /\ Len(handed') = Len(handed) + 1 /\ DOMAIN handed' = 1 .. Len(handed) + 1
           /\ \A i \in 1 .. Len(handed) : handed'[i] = handed[i]
           /\ handed'[Len(handed) + 1].at = Position
      ELSE handed' = handed
  BY <1>1, TakeGap DEF Position
<1>6. UNCHANGED <<stream, received, first>>
  BY <1>1 DEF TakeLog
<1>7. ASSUME Log
      PROVE  /\ Position' = Following(Position) /\ Position' <= Len(stream)
             /\ parsing' /\ thrown' = thrown
  <2>1. countOfProcessed' = countOfProcessed + currentHeader.fullLogLength
        /\ parsing' = parsing /\ thrown' = thrown
    BY <1>7 DEF Log
  <2>2. /\ first \in Nat /\ countOfProcessed \in Nat
        /\ countOfProcessed + currentHeader.fullLogLength <= sizeOfData /\ parsing
        /\ first + sizeOfData = received /\ sizeOfData \in Nat
    BY <1>1, <1>3, HandedTypes, TakeLogFacts DEF HeldInv, TypeOK
  <2>3. Following(Position) = Position + currentHeader.fullLogLength
    BY <1>2 DEF Following
  <2>4. Position' = Position + currentHeader.fullLogLength
    BY <1>2, <1>6, <2>1, <2>2 DEF Position
  <2>5. Position' <= received
    BY <1>2, <1>3, <2>2, <2>4 DEF Position
  <2> QED
    BY <1>2, <1>3, <2>1, <2>2, <2>3, <2>4, <2>5
<1>8. ASSUME HandlerThrows
      PROVE  thrown' = thrown + 1 /\ Position' = first
  BY <1>1, <1>6, <1>8, HandedTypes DEF HandlerThrows, Return, Position
<1> QED
  BY <1>1, <1>2, <1>3, <1>4, <1>5, <1>6, <1>7, <1>8

(* What is handed over was expected; the ring stays as it is. *)
LEMMA TakeExpected ==
    ASSUME IInv, CutsInv, Log \/ HandlerThrows
    PROVE  /\ RawInv' /\ Expected' = Expected /\ LooksAt' = LooksAt
           /\ HandedLogs' = IF IsIntact(Position) THEN HandedLogs \union {Position} ELSE HandedLogs
           /\ HandedLogs' \subseteq Expected'
<1>1. /\ Position \in 0 .. Len(stream) - 1 /\ stream[Position + 1] # NoHeader
      /\ UNCHANGED stream /\ TakeLog /\ Len(stream) \in Nat
  BY TakeCuts
<1>2. TypeOK /\ HeldInv /\ RawInv /\ ScanInv
  BY DEF IInv, CutsInv
<1>3. UNCHANGED <<stream, received, raw, begin, end, first>> /\ IsHeader /\ parsing /\ (parsing' => parsing)
  BY <1>1 DEF TakeLog, IsHeader, LooksOn
<1>4. LooksAt' = LooksAt
  BY <1>1, ScanKept
<1>5. RawInv'
  BY <1>2, <1>3 DEF RawInv
<1>6. Expected' = Expected
  <2>1. Shown' = Shown
    BY <1>3 DEF Shown
  <2> QED
    BY <1>3, <1>4, <2>1 DEF Expected, LogsIn, IsIntact, WasShown
<1>7. ASSUME IsIntact(Position)
      PROVE  Position \in Expected
  <2>1. Position \in 0 .. received - 1 /\ currentHeader = stream[Position + 1]
    BY <1>2, <1>3, HeaderTypes DEF Position
  <2>2. Shown = received
    BY <1>2, <1>3, ShownTypes DEF RawInv
  <2>3. Position + currentHeader.fullLogLength <= received
    <3>1. /\ first \in Nat /\ countOfProcessed \in Nat /\ received \in Nat
          /\ countOfProcessed + currentHeader.fullLogLength <= sizeOfData
          /\ first + sizeOfData = received /\ sizeOfData \in Nat
          /\ currentHeader.fullLogLength \in Nat
      BY <1>1, <1>2, <1>3, StreamTypes, HandedTypes, HeaderTypes, TakeLogFacts DEF HeldInv, TypeOK
    <3> QED
      BY <3>1 DEF Position
  <2>4. WasShown(Position) /\ LooksAt[Position]
    BY <1>2, <2>1, <2>2, <2>3 DEF WasShown, ScanInv
  <2> QED
    BY <1>1, <1>7, <2>1, <2>4 DEF Expected, LogsIn
<1>8. HandedLogs' = IF IsIntact(Position) THEN HandedLogs \union {Position} ELSE HandedLogs
  <2>1. CASE IsIntact(Position)
    <3>1. /\ DOMAIN handed' = 1 .. Len(handed) + 1
          /\ \A i \in 1 .. Len(handed) : handed'[i] = handed[i]
          /\ handed'[Len(handed) + 1].at = Position
      BY <2>1, TakeCuts
    <3>2. DOMAIN handed = 1 .. Len(handed) /\ Len(handed) \in Nat
      BY <1>2, HandedTypes
    <3>3. HandedLogs' = {handed'[i].at : i \in 1 .. Len(handed) + 1}
      BY <3>1 DEF HandedLogs
    <3>4. HandedLogs = {handed[i].at : i \in 1 .. Len(handed)}
      BY <3>2 DEF HandedLogs
    <3>5. 1 .. Len(handed) + 1 = (1 .. Len(handed)) \union {Len(handed) + 1}
      BY <3>2
    <3> QED
      BY <2>1, <3>1, <3>3, <3>4, <3>5
  <2>2. CASE ~IsIntact(Position)
    BY <2>2, TakeCuts DEF HandedLogs
  <2> QED
    BY <2>1, <2>2
<1>9. HandedLogs' \subseteq Expected'
  BY <1>2, <1>6, <1>7, <1>8 DEF ScanInv
<1> QED
  BY <1>4, <1>5, <1>6, <1>8, <1>9

(* A log is a step of the scan, and the last one so far. *)
LEMMA LogScan ==
    ASSUME IInv, CutsInv, Log
    PROVE  ScanInv'
<1>1. /\ Position \in 0 .. Len(stream) - 1 /\ stream[Position + 1] # NoHeader
      /\ UNCHANGED stream /\ TakeLog /\ Len(stream) \in Nat
      /\ Position' = Following(Position) /\ Position' <= Len(stream)
      /\ parsing' /\ thrown' = thrown
  BY TakeCuts
<1>2. /\ LooksAt' = LooksAt /\ HandedLogs' \subseteq Expected'
      /\ HandedLogs' = IF IsIntact(Position) THEN HandedLogs \union {Position} ELSE HandedLogs
  BY TakeExpected
<1>3. LooksAt[first] /\ LooksAt[Position] /\ ScannedLogs(Position) \subseteq HandedLogs
  BY DEF CutsInv, ScanInv
<1>4. first' = first
  BY <1>1 DEF TakeLog
<1>5. LooksAt[Position']
      /\ ScannedLogs(Following(Position)) =
            IF IsIntact(Position) THEN ScannedLogs(Position) \union {Position}
            ELSE ScannedLogs(Position)
  BY <1>1, <1>3, ScanMoves DEF IInv
<1>6. ScannedLogs(Position)' = ScannedLogs(Following(Position))
  <2>1. ScannedLogs(Position)' = {q \in LogsIn(0 .. Position' - 1) : LooksAt[q] /\ IsIntact(q)}
    BY <1>1, <1>2 DEF ScannedLogs, LogsIn, IsIntact
  <2> QED
    BY <1>1, <2>1 DEF ScannedLogs
<1>7. LooksAt'[first'] /\ LooksAt'[Position'] /\ ScannedLogs(Position)' \subseteq HandedLogs'
  BY <1>2, <1>3, <1>4, <1>5, <1>6
<1>8. ASSUME thrown' = 0
      PROVE  HandedLogs' = ScannedLogs(Position)' /\ InOrder'
  <2>1. HandedLogs = ScannedLogs(Position) /\ InOrder
    BY <1>1, <1>8 DEF CutsInv, ScanInv
  <2>2. HandedLogs' = ScannedLogs(Position)'
    BY <1>2, <1>5, <1>6, <2>1
  <2>3. DOMAIN handed = 1 .. Len(handed) /\ Len(handed) \in Nat
        /\ \A i \in DOMAIN handed : handed[i].at \in Nat
    BY HandedTypes DEF IInv
  <2>4. CASE IsIntact(Position)
    <3>0. /\ DOMAIN handed' = 1 .. Len(handed) + 1
          /\ \A i \in 1 .. Len(handed) : handed'[i] = handed[i]
          /\ handed'[Len(handed) + 1].at = Position
      BY <2>4, TakeCuts
    <3> SUFFICES ASSUME NEW i \in 1 .. Len(handed) + 1, NEW j \in 1 .. Len(handed) + 1, i < j
                 PROVE  handed'[i].at < handed'[j].at
      BY <2>2, <3>0 DEF InOrder
    <3>1. i \in 1 .. Len(handed) /\ handed'[i] = handed[i]
      BY <2>3, <3>0
    <3>2. CASE j \in 1 .. Len(handed)
      BY <2>1, <2>3, <3>0, <3>1, <3>2 DEF InOrder
    <3>3. CASE j = Len(handed) + 1
      <4>1. handed[i].at \in ScannedLogs(Position)
        BY <2>1, <2>3, <3>1 DEF HandedLogs
      <4>2. handed[i].at \in 0 .. Position - 1
        BY <4>1 DEF ScannedLogs, LogsIn
      <4> QED
        BY <1>1, <3>0, <3>1, <3>3, <4>2
    <3> QED
      BY <2>3, <3>2, <3>3
  <2>5. CASE ~IsIntact(Position)
    <3>1. InOrder' = InOrder
      BY <2>5, TakeCuts DEF InOrder
    <3> QED
      BY <2>1, <2>2, <3>1
  <2> QED
    BY <2>4, <2>5
<1> QED
  BY <1>1, <1>2, <1>7, <1>8 DEF ScanInv, IsBetweenReads

(* A log is taken before the parser has passed it. *)
LEMMA TakeRepeats ==
    ASSUME IInv, IInv', CutsInv, Log \/ HandlerThrows
    PROVE  RepeatInv'
<1> SUFFICES ASSUME NEW p \in Nat
             PROVE  Cardinality(Times(p)') <= thrown' + (IF p < Position' THEN 1 ELSE 0)
  BY DEF RepeatInv
<1>1. /\ Position \in Nat /\ Position' \in Nat /\ thrown \in Nat /\ thrown' \in Nat
      /\ Log => Position' > Position /\ thrown' = thrown
      /\ HandlerThrows => thrown' = thrown + 1
  <2>1. Position \in Nat /\ Position' \in Nat /\ thrown \in Nat /\ thrown' \in Nat
    <3>1. TypeOK /\ TypeOK'
      BY DEF IInv
    <3>2. first \in Nat /\ countOfProcessed \in Nat /\ thrown \in Nat
      BY <3>1, HandedTypes
    <3>3. first' \in Nat /\ countOfProcessed' \in Nat /\ thrown' \in Nat
      BY <3>1, SizesAssumption DEF TypeOK
    <3>4. Position \in Nat
      BY <3>2 DEF Position
    <3>5. Position' \in Nat
      BY <3>3, SumIsNat DEF Position
    <3> QED
      BY <3>2, <3>3, <3>4, <3>5
  <2>2. Log => Position' > Position
    BY TakeCuts, FollowingTypes DEF IInv
  <2> QED
    BY <2>1, <2>2, TakeCuts
<1>2. Cardinality(Times(p)) <= thrown + (IF p < Position THEN 1 ELSE 0)
  BY DEF CutsInv, RepeatInv
<1>3. DOMAIN handed = 1 .. Len(handed) /\ Len(handed) \in Nat
  BY HandedTypes DEF IInv
<1>4. IsFiniteSet(Times(p)) /\ Cardinality(Times(p)) \in Nat
  <2>1. IsFiniteSet(DOMAIN handed)
    BY <1>3, FS_Interval
  <2>2. Times(p) \subseteq DOMAIN handed
    BY DEF Times
  <2> QED
    BY <2>1, <2>2, FS_Subset, FS_CardinalityType
<1>5. CASE IsIntact(Position) /\ p = Position
  <2>1. /\ DOMAIN handed' = 1 .. Len(handed) + 1
        /\ \A i \in 1 .. Len(handed) : handed'[i] = handed[i]
        /\ handed'[Len(handed) + 1].at = Position
    BY <1>5, TakeCuts
  <2>2. Times(p)' = Times(p) \union {Len(handed) + 1}
    BY <1>3, <1>5, <2>1 DEF Times
  <2>3. Len(handed) + 1 \notin Times(p)
    BY <1>3 DEF Times
  <2>4. Cardinality(Times(p)') = Cardinality(Times(p)) + 1
    BY <1>4, <2>2, <2>3, FS_AddElement
  <2> QED
    BY <1>1, <1>2, <1>4, <1>5, <2>4
<1>6. CASE ~(IsIntact(Position) /\ p = Position)
  <2>1. Times(p)' = Times(p)
    <3>1. CASE IsIntact(Position)
      <4>1. /\ DOMAIN handed' = 1 .. Len(handed) + 1
            /\ \A i \in 1 .. Len(handed) : handed'[i] = handed[i]
            /\ handed'[Len(handed) + 1].at = Position
        BY <3>1, TakeCuts
      <4> QED
        BY <1>3, <1>6, <3>1, <4>1 DEF Times
    <3>2. CASE ~IsIntact(Position)
      BY <3>2, TakeCuts DEF Times
    <3> QED
      BY <3>1, <3>2
  <2>2. thrown' + (IF p < Position' THEN 1 ELSE 0) >= thrown + (IF p < Position THEN 1 ELSE 0)
    <3>1. CASE Log
      BY <1>1, <3>1
    <3>2. CASE HandlerThrows
      BY <1>1, <3>2
    <3> QED
      BY <3>1, <3>2
  <2> QED
    BY <1>1, <1>2, <1>4, <2>1, <2>2
<1> QED
  BY <1>5, <1>6

(* After an exception the parser is again where the ring begins. *)
LEMMA ThrowsScan ==
    ASSUME IInv, CutsInv, HandlerThrows
    PROVE  ScanInv'
<1>1. /\ thrown' = thrown + 1 /\ thrown \in Nat /\ Position' = first
      /\ UNCHANGED stream /\ TakeLog
  BY TakeCuts, HandedTypes DEF IInv
<1>2. /\ LooksAt' = LooksAt /\ HandedLogs' \subseteq Expected'
      /\ HandedLogs' = IF IsIntact(Position) THEN HandedLogs \union {Position} ELSE HandedLogs
  BY TakeExpected
<1>3. LooksAt[first] /\ ScannedLogs(Position) \subseteq HandedLogs
  BY DEF CutsInv, ScanInv
<1>4. first' = first
  BY <1>1 DEF TakeLog
<1>5. ScannedLogs(Position)' = ScannedLogs(first)
  <2>1. ScannedLogs(Position)' = {q \in LogsIn(0 .. Position' - 1) : LooksAt[q] /\ IsIntact(q)}
    BY <1>1, <1>2 DEF ScannedLogs, LogsIn, IsIntact
  <2> QED
    BY <1>1, <2>1 DEF ScannedLogs
<1>6. ScannedLogs(first) \subseteq ScannedLogs(Position)
  <2>1. first \in Nat /\ Position \in Nat /\ first <= Position
    BY HandedTypes DEF IInv, Position
  <2> QED
    BY <2>1 DEF ScannedLogs, LogsIn
<1>7. ScannedLogs(Position)' \subseteq HandedLogs'
  BY <1>2, <1>3, <1>5, <1>6
<1> QED
  BY <1>1, <1>2, <1>3, <1>4, <1>7 DEF ScanInv

(* Before the first read. *)
LEMMA InitCuts == ASSUME Init PROVE CutsInv
<1>1. /\ Position = 0 /\ handed = <<>> /\ DOMAIN <<>> = {} /\ thrown = 0
      /\ first = 0 /\ received = 0 /\ raw = <<>> /\ ~parsing
  BY DEF Init, Position
<1>2. LooksAt[first] /\ LooksAt[Position]
  BY <1>1, ScanUnrolls
<1>3. HandedLogs = {} /\ InOrder
  BY <1>1 DEF HandedLogs, InOrder
<1>4. ScannedLogs(Position) = {}
  BY <1>1 DEF ScannedLogs, LogsIn
<1>5. NothingWhole /\ RawInv
  <2>1. Len(raw) = 0
    BY <1>1
  <2>2. Shown = 0
    BY <1>1, <2>1, SizesAssumption DEF Shown
  <2>3. NothingWhole
    BY <1>1, <2>2, SizesAssumption DEF NothingWhole
  <2> QED
    BY <1>1, <2>1, <2>3 DEF RawInv
<1>6. ScanInv
  BY <1>2, <1>3, <1>4, <1>5 DEF ScanInv
<1>7. RepeatInv
  <2> SUFFICES ASSUME NEW p \in Nat
               PROVE  Cardinality(Times(p)) <= thrown + (IF p < Position THEN 1 ELSE 0)
    BY DEF RepeatInv
  <2>1. Cardinality(Times(p)) = 0
    <3>1. Times(p) = {}
      BY <1>1 DEF Times
    <3> QED
      BY <3>1, FS_EmptySet
  <2> QED
    BY <1>1, <2>1
<1> QED
  BY <1>5, <1>6, <1>7 DEF CutsInv

(* The three parts are kept by every step. *)
LEMMA NextCuts == ASSUME IInv, CutsInv, [Next]_vars PROVE CutsInv'
<1>1. IInv'
  BY NextInv
<1>2. CASE Read
  BY <1>1, <1>2, ReadCuts DEF Read
<1>3. CASE Log
  BY <1>1, <1>3, LogScan, TakeRepeats, TakeExpected DEF CutsInv
<1>4. CASE HandlerThrows
  BY <1>1, <1>4, ThrowsScan, TakeRepeats, TakeExpected DEF CutsInv
<1>5. CASE SkipByte
  BY <1>5, SkipByteCuts
<1>6. CASE SaveTail
  BY <1>1, <1>6, SaveTailCuts
<1>7. CASE TimerStores \/ TimerResets \/ SomeOneUsedCout \/ UNCHANGED vars
  <2>1. UNCHANGED <<stream, received, first, raw, begin, end, parsing, countOfProcessed, handed,
                    thrown, program>>
    BY <1>7 DEF TimerStores, TimerResets, SomeOneUsedCout, vars, parserVars, logVars
  <2>2. Position' = Position /\ Position \in Nat /\ received \in Nat
    BY <2>1, HandedTypes, StreamTypes DEF IInv, Position
  <2>3. Shown' = Shown /\ Shown \in Nat /\ RawInv' = RawInv
    BY <2>1, ShownTypes DEF IInv, Shown, RawInv
  <2>4. (IsBetweenReads' <=> IsBetweenReads) /\ (NothingWhole' <=> NothingWhole)
    BY <2>1, <2>3 DEF IsBetweenReads, NothingWhole, WasShown
  <2>5. thrown = 0 /\ IsBetweenReads' => NothingWhole'
    BY <2>4 DEF CutsInv, ScanInv
  <2>6. ScanInv'
    BY <1>1, <2>1, <2>2, <2>3, <2>5, ScanStays DEF CutsInv, IInv
  <2>7. RepeatInv'
    BY <2>1, <2>2, RepeatStays DEF CutsInv, IInv
  <2> QED
    BY <2>3, <2>6, <2>7 DEF CutsInv
<1> QED
  BY <1>2, <1>3, <1>4, <1>5, <1>6, <1>7 DEF Next, Parse

(* What the scan passes over lies under a damaged log. *)
LEMMA PassedOver ==
    ASSUME TypeOK, NEW p \in LogsIn(0 .. received - 1), IsIntact(p), ~LooksAt[p]
    PROVE  IsUnderDamaged(p)
<1>1. p \in Nat /\ p < Len(stream) /\ stream[p + 1] # NoHeader /\ Len(stream) \in Nat
  BY StreamTypes DEF LogsIn
<1> DEFINE T == {p - q : q \in {r \in 0 .. p : LooksAt[r]}}
<1>2. PICK d \in T : \A m \in T : d <= m
  <2>1. T \in SUBSET Nat
    BY <1>1
  <2>2. p - 0 \in T
    BY <1>1, ScanUnrolls
  <2> HIDE DEF T
  <2> QED
    BY <2>1, <2>2, Least
<1>3. PICK q \in 0 .. p : LooksAt[q] /\ d = p - q
  OBVIOUS
<1>4. q < p /\ q \in Nat /\ q \in 0 .. Len(stream) - 1
  BY <1>1, <1>3
<1>5. Following(q) > p /\ Following(q) \in Nat
  <2>1. Following(q) \in Nat /\ Following(q) > q
    BY <1>4, FollowingTypes
  <2>2. ASSUME Following(q) <= p PROVE FALSE
    <3>1. LooksAt[Following(q)]
      BY <1>3, <1>4, <2>1, ScanUnrolls
    <3>2. p - Following(q) \in T
      BY <2>1, <2>2, <3>1
    <3>3. d <= p - Following(q)
      BY <1>2, <3>2
    <3> QED
      BY <1>1, <1>3, <1>4, <2>1, <2>2, <3>3
  <2> QED
    BY <1>1, <2>1, <2>2
<1>6. stream[q + 1] # NoHeader
  BY <1>1, <1>4, <1>5 DEF Following
<1>7. Following(q) = q + stream[q + 1].fullLogLength /\ stream[q + 1].fullLogLength \in Nat
  BY <1>4, <1>6, FollowingTypes
<1>8. ~IsIntact(q)
  <2> SUFFICES ASSUME IsIntact(q) PROVE FALSE
    OBVIOUS
  <2>1. stream \in Streams /\ q + 1 \in DOMAIN stream /\ p + 1 \in DOMAIN stream
    <3>1. stream \in Seq(LogRawHeader \union {NoHeader}) /\ stream \in Streams
      BY StreamsAssumption DEF TypeOK
    <3>2. DOMAIN stream = 1 .. Len(stream)
      BY <3>1, LenProperties
    <3> QED
      BY <1>1, <1>4, <3>1, <3>2
  <2>2. q + 1 < p + 1
    BY <1>1, <1>4
  <2>3. (q + 1) + stream[q + 1].fullLogLength <= p + 1
    BY <1>1, <1>6, <2>1, <2>2, IntactAssumption DEF IsIntact
  <2> QED
    BY <1>1, <1>4, <1>5, <1>7, <2>3
<1>9. q \in LogsIn(0 .. p - 1)
  BY <1>1, <1>4, <1>6 DEF LogsIn
<1> QED
  BY <1>5, <1>7, <1>8, <1>9 DEF IsUnderDamaged

(* What has left the ring, or is expected between two reads, was handed over. *)
LEMMA AllIsHanded ==
    ASSUME IInv, CutsInv, NEW p \in Expected,
           p < first \/ (IsBetweenReads /\ thrown = 0)
    PROVE  p \in HandedLogs
<1>1. /\ first \in Nat /\ Position \in Nat /\ first <= Position
      /\ received \in Nat /\ first <= received /\ received <= Len(stream) /\ Len(stream) \in Nat
  BY HandedTypes, StreamTypes DEF IInv, HeldInv, Position, TypeOK
<1>2. /\ p \in 0 .. received - 1 /\ p < Len(stream) /\ stream[p + 1] # NoHeader
      /\ LooksAt[p] /\ IsIntact(p) /\ WasShown(p)
  BY DEF Expected, LogsIn
<1>3. LooksAt[first] /\ ScannedLogs(Position) \subseteq HandedLogs
  BY DEF CutsInv, ScanInv
<1>4. SUFFICES ASSUME p >= first PROVE FALSE
  <2>1. p < first => p \in ScannedLogs(Position)
    BY <1>1, <1>2 DEF ScannedLogs, LogsIn
  <2> QED
    BY <1>1, <1>2, <1>3, <2>1
<1>5. NothingWhole /\ Shown \in Nat /\ Shown <= received
  <2>1. IsBetweenReads /\ thrown = 0
    BY <1>1, <1>2, <1>4
  <2> QED
    BY <2>1, ShownTypes DEF IInv, CutsInv, ScanInv
<1>6. /\ Following(p) = p + stream[p + 1].fullLogLength /\ Following(p) \in Nat
      /\ Following(p) > p + HeaderLength /\ Following(p) <= Shown
  BY <1>1, <1>2, FollowingTypes DEF IInv, WasShown
<1>7. ~(Shown - first <= HeaderLength)
  BY <1>1, <1>2, <1>4, <1>5, <1>6, SizesAssumption
<1>8. stream[first + 1] # NoHeader /\ ~WasShown(first)
  BY <1>5, <1>7 DEF NothingWhole
<1>9. first < p
  BY <1>1, <1>2, <1>4, <1>8
<1>10. Following(first) <= p
  BY <1>1, <1>2, <1>3, <1>9, ScanStepsOver DEF IInv
<1>11. Following(first) = first + stream[first + 1].fullLogLength /\ Following(first) \in Nat
  BY <1>1, <1>2, <1>8, <1>9, FollowingTypes DEF IInv
<1>12. ~(Following(first) <= Shown)
  BY <1>8, <1>11 DEF WasShown
<1>13. p <= Following(p) /\ p \in Nat
  BY <1>2, <1>6, SizesAssumption
<1> QED
  BY <1>5, <1>6, <1>10, <1>11, <1>12, <1>13

(* CutsDoNotMatter: however the reads of main cut the stream and whatever the
   handlers throw, parseRawNetworkData hands over nothing but what a scan of the
   uncut stream finds, once and once more at most for each exception; nothing that
   has left the ring of raw data is lost but what lies under the claim of a damaged
   log, nor, without exceptions, anything that the parser was shown between two
   reads.  The element that fills the ring is not shown. *)
THEOREM CutsTheorem == Spec => []CutsDoNotMatter
<1>1. Init => IInv /\ CutsInv
  BY InitInv, InitCuts
<1>2. (IInv /\ CutsInv) /\ [Next]_vars => (IInv /\ CutsInv)'
  BY NextInv, NextCuts
<1>3. IInv /\ CutsInv => CutsDoNotMatter
  <2> SUFFICES ASSUME IInv, CutsInv PROVE CutsDoNotMatter
    OBVIOUS
  <2>1. /\ HandedLogs \subseteq Expected
        /\ thrown = 0 => \A i, j \in DOMAIN handed : i < j => handed[i].at < handed[j].at
    BY DEF CutsInv, ScanInv, InOrder
  <2>2. ASSUME NEW p \in HandedLogs
        PROVE  Cardinality({i \in DOMAIN handed : handed[i].at = p}) <= 1 + thrown
    <3>1. p \in Nat
      BY HandedTypes DEF IInv, HandedLogs
    <3>2. Cardinality(Times(p)) <= thrown + (IF p < Position THEN 1 ELSE 0)
      BY <3>1 DEF CutsInv, RepeatInv
    <3>3. Cardinality(Times(p)) \in Nat /\ thrown \in Nat
      <4>1. DOMAIN handed = 1 .. Len(handed) /\ Len(handed) \in Int /\ thrown \in Nat
        BY HandedTypes DEF IInv
      <4>2. IsFiniteSet(DOMAIN handed)
        BY <4>1, FS_Interval
      <4>3. Times(p) \subseteq DOMAIN handed
        BY DEF Times
      <4> QED
        BY <4>1, <4>2, <4>3, FS_Subset, FS_CardinalityType
    <3>4. Cardinality(Times(p)) <= 1 + thrown
      BY <3>2, <3>3
    <3> QED
      BY <3>4 DEF Times
  <2>3. ASSUME NEW p \in LogsIn(0 .. received - 1), IsIntact(p), WasShown(p),
               p < first \/ (IsBetweenReads /\ thrown = 0)
        PROVE  p \in HandedLogs \/ (~LooksAt[p] /\ IsUnderDamaged(p))
    <3>1. CASE LooksAt[p]
      <4>1. p \in Expected
        BY <2>3, <3>1 DEF Expected
      <4> QED
        BY <2>3, <4>1, AllIsHanded
    <3>2. CASE ~LooksAt[p]
      BY <2>3, <3>2, PassedOver DEF IInv
    <3> QED
      BY <3>1, <3>2
  <2> QED
    BY <2>1, <2>2, <2>3 DEF CutsDoNotMatter
<1> QED
  BY <1>1, <1>2, <1>3, PTL DEF Spec
=============================================================================
