------------------------ MODULE SlidingWindowProofs ------------------------
(***************************************************************************)
(* Proofs about SlidingWindow, for every window and any number of          *)
(* elements: the sums that live across calls are those of the elements     *)
(* marked at the front of the ring, so every value is that of a full       *)
(* window and every full window has its value.                             *)
(***************************************************************************)
EXTENDS SlidingWindow, SequenceTheorems, TLAPS

USE WindowAssumption, MaxElementsAssumption

(* An empty ring, nothing in the sums. *)
LEMMA InitWindow == Init => TypeOK /\ WindowInv
<1> SUFFICES ASSUME Init PROVE TypeOK /\ WindowInv
  OBVIOUS
<1> USE DEF Init, Elements, NoSums
<1>1. good \in Seq(BOOLEAN) /\ Len(good) = 0
  BY EmptySeq
<1>2. TypeOK
  <2>1. sums \in [Elements -> Int]
    OBVIOUS
  <2>2. /\ Len(good) <= MaxElements /\ published \in 0 .. Len(good) /\ erased \in 0 .. published
        /\ counter \in 0 .. Window /\ first \in 1 .. published + 1 /\ next \in 1 .. published + 1
    BY <1>1
  <2>3. QED
    BY <1>1, <2>1, <2>2 DEF TypeOK
<1>3. sums = SumsOf(first, next - 1)
  BY DEF SumsOf
<1>4. ValuesAreWindows /\ EveryWindowHasValue
  BY DEF ValuesAreWindows, EveryWindowHasValue
<1>5. /\ erased < first /\ first <= next /\ first = erased + 1 /\ counter = next - first
      /\ \A i \in first .. next - 1 : good[i] /\ i \in processed
      /\ \A i \in processed : i < next
      /\ first = 1
  OBVIOUS
<1>6. QED
  BY <1>2, <1>3, <1>4, <1>5 DEF WindowInv

(* The variables in types fit for arithmetic. *)
LEMMA Ranges ==
  ASSUME TypeOK, WindowInv
  PROVE  /\ Len(good) \in Nat /\ Len(good) <= MaxElements
         /\ published \in Nat /\ published <= Len(good) /\ erased \in Nat /\ erased <= published
         /\ first \in Nat /\ next \in Nat /\ first <= next /\ next <= published + 1
         /\ erased < first /\ counter = next - first /\ counter \in Nat /\ counter <= Window
         /\ \A i \in 1 .. Len(good) : good[i] \in BOOLEAN
BY ElementOfSeq DEF TypeOK, WindowInv

(* The search for the first element that is not marked ends where the last call
   stopped, and counts what is in the sums. *)
LEMMA SearchFindsNext ==
  ASSUME TypeOK, WindowInv, ~looping, published' = Len(good)
  PROVE  FirstUnmarked = next /\ CountOfMarked = counter
<1>1. first = erased + 1
  BY DEF WindowInv
<1>2. \A i \in first .. next - 1 : i \in processed
  BY DEF WindowInv
<1>3. \A i \in processed : i < next
  BY DEF WindowInv
<1>4. Unmarked = next .. published'
  <2>1. ASSUME NEW i \in erased + 1 .. published', i \notin processed PROVE i \in next .. published'
    BY <1>1, <1>2, <2>1, Ranges
  <2>2. ASSUME NEW i \in next .. published' PROVE i \in erased + 1 .. published' /\ i \notin processed
    BY <1>1, <1>3, Ranges
  <2>3. QED
    BY <2>1, <2>2 DEF Unmarked
<1>5. FirstUnmarked = next
  <2>1. CASE next > published'
    BY <1>4, <2>1, Ranges DEF FirstUnmarked
  <2>2. CASE next <= published'
    <3>1. next \in Unmarked /\ \A y \in Unmarked : next <= y
      BY <1>4, <2>2, Ranges
    <3>2. ASSUME NEW x \in Unmarked, \A y \in Unmarked : x <= y PROVE x = next
      BY <1>4, <3>1, <3>2, Ranges
    <3>3. Min(Unmarked) = next
      BY <3>1, <3>2 DEF Min
    <3>4. QED
      BY <3>1, <3>3 DEF FirstUnmarked
  <2>3. QED
    BY <2>1, <2>2, Ranges
<1>6. QED
  BY <1>1, <1>5, Ranges DEF CountOfMarked

(* Every step keeps the types. *)
LEMMA TypeStep == TypeOK /\ WindowInv /\ [Next]_vars => TypeOK'
<1> SUFFICES ASSUME TypeOK, WindowInv, [Next]_vars PROVE TypeOK'
  OBVIOUS
<1> USE DEF TypeOK, Elements
<1>1. CASE UNCHANGED vars
  BY <1>1 DEF vars, ring, loop
<1>2. ASSUME NEW isGood \in BOOLEAN, Push(isGood) PROVE TypeOK'
  <2>1. good' \in Seq(BOOLEAN) /\ Len(good') = Len(good) + 1
    BY <1>2 DEF Push
  <2>2. QED
    BY <1>2, <2>1, Ranges DEF Push, loop
<1>3. CASE Begin
  <2>1. next' = next /\ counter' = counter /\ first' = erased + 1 /\ published' = Len(good)
    BY <1>3, SearchFindsNext DEF Begin
  <2>2. /\ UNCHANGED <<isStopThreads, good, erased, processed, sums, values, laterValues>>
        /\ looping' = TRUE
    BY <1>3 DEF Begin
  <2>3. /\ published' \in 0 .. Len(good) /\ erased \in 0 .. published'
        /\ first' \in 1 .. published' + 1 /\ next' \in 1 .. published' + 1
    BY <2>1, Ranges
  <2>4. QED
    BY <2>1, <2>2, <2>3
<1>4. CASE BeginWithLittle
  <2>1. /\ published' = Len(good) /\ UNCHANGED <<isStopThreads, good, erased, processed, sums>>
        /\ UNCHANGED <<looping, first, next, counter, values, laterValues>>
    BY <1>4 DEF BeginWithLittle, loop
  <2>2. published' \in 0 .. Len(good) /\ erased \in 0 .. published'
    BY <2>1, Ranges
  <2>3. first \in 1 .. published' + 1 /\ next \in 1 .. published' + 1
    BY <2>1, Ranges
  <2>4. QED
    BY <2>1, <2>2, <2>3
<1>5. CASE Slide \/ Grow \/ Lose
  <2>1. next \in 1 .. published /\ next \in 1 .. MaxElements
    BY <1>5, Ranges DEF Slide, Grow, Lose, InLoop
  <2>2. sums' \in [Elements -> Int]
    <3>1. CASE Slide
      <4>1. first \in Elements /\ next \in Elements
        BY <2>1, Ranges
      <4>2. [sums EXCEPT ![first] = @ - 1] \in [Elements -> Int]
        BY <4>1
      <4>3. QED
        BY <3>1, <4>1, <4>2 DEF Slide
    <3>2. CASE Grow
      <4>1. next \in Elements
        BY <2>1
      <4>2. QED
        BY <3>2, <4>1 DEF Grow
    <3>3. CASE Lose
      BY <3>3 DEF Lose, SumsAfterLoss, NoSums
    <3>4. QED
      BY <1>5, <3>1, <3>2, <3>3
  <2>3. values' \subseteq Elements \X [Elements -> Int] /\ laterValues' \subseteq Elements \X [Elements -> Int]
    <3>1. <<next, sums'>> \in Elements \X [Elements -> Int]
      BY <2>1, <2>2
    <3>2. /\ values' = values \/ values' = values \union {<<next, sums'>>}
          /\ laterValues' = laterValues \/ laterValues' = laterValues \union {<<next, sums'>>}
      BY <1>5 DEF Slide, Grow, Lose
    <3>3. QED
      BY <3>1, <3>2
  <2>4. processed' \subseteq Elements
    BY <1>5, <2>1 DEF Slide, Grow, Lose, ring
  <2>5. next' \in 1 .. published + 1 /\ first' \in 1 .. published + 1 /\ counter' \in 0 .. Window
    <3>1. CASE Slide
      <4>1. first' = first + 1 /\ next' = next + 1 /\ counter' = counter
        BY <3>1 DEF Slide
      <4>2. first < next
        BY <3>1, Ranges DEF Slide
      <4>3. QED
        BY <2>1, <4>1, <4>2, Ranges
    <3>2. CASE Grow
      <4>1. first' = first /\ next' = next + 1 /\ counter' = counter + 1 /\ counter # Window
        BY <3>2 DEF Grow
      <4>2. counter \in Nat /\ counter <= Window /\ next \in 1 .. published /\ published \in Nat
        BY <2>1, Ranges
      <4>3. next + 1 \in 1 .. published + 1 /\ counter + 1 \in 0 .. Window
        BY <4>1, <4>2
      <4>4. QED
        BY <4>1, <4>3
    <3>3. CASE Lose
      <4>1. first' = next + 1 /\ next' = next + 1 /\ counter' = 0
        BY <3>3 DEF Lose, FirstAfterLoss
      <4>2. QED
        BY <2>1, <4>1, Ranges
    <3>4. QED
      BY <1>5, <3>1, <3>2, <3>3
  <2>6. UNCHANGED <<isStopThreads, good, published, erased, looping>>
    BY <1>5 DEF Slide, Grow, Lose, ring
  <2>7. QED
    BY <2>2, <2>3, <2>4, <2>5, <2>6
<1>6. CASE End
  <2>1. erased' \in 0 .. published
    BY <1>6, Ranges DEF End, ErasedTo
  <2>2. QED
    BY <1>6, <2>1 DEF End
<1>7. CASE StopThreads
  BY <1>7, Ranges DEF StopThreads, ring, loop
<1>8. CASE Terminated
  BY <1>1, <1>8 DEF Terminated
<1>9. QED
  BY <1>1, <1>2, <1>3, <1>4, <1>5, <1>6, <1>7, <1>8 DEF Next, Calculate

(* A push after it changes no window. *)
LEMMA FullWindowKept ==
  ASSUME TypeOK, WindowInv, [Next]_vars
  PROVE  /\ \A i \in 1 .. Len(good) : good'[i] = good[i]
         /\ \A n \in 0 .. Len(good) : FullWindow(n)' <=> FullWindow(n)
<1>1. good' = good \/ \E isGood \in BOOLEAN : good' = Append(good, isGood)
  BY DEF Next, Calculate, Push, Begin, BeginWithLittle, Slide, Grow, Lose, End, StopThreads,
         Terminated, vars, ring
<1>2. \A i \in 1 .. Len(good) : good'[i] = good[i]
  BY <1>1 DEF TypeOK
<1>3. ASSUME NEW n \in 0 .. Len(good) PROVE FullWindow(n)' <=> FullWindow(n)
  <2>1. n >= Window => \A i \in n - Window + 1 .. n : i \in 1 .. Len(good)
    BY Ranges
  <2>2. QED
    BY <1>2, <2>1 DEF FullWindow
<1>4. QED
  BY <1>2, <1>3

(* Where no element is gone over, the values stay those of the windows. *)
LEMMA ValuesKept ==
  ASSUME TypeOK, WindowInv, [Next]_vars, next' = next, UNCHANGED <<values, laterValues>>
  PROVE  (ValuesAreWindows /\ EveryWindowHasValue)' /\ \A v \in values' \union laterValues' : v[1] < next'
<1>1. \A v \in values \union laterValues : v[1] \in 1 .. next - 1
  BY Ranges DEF WindowInv, TypeOK, Elements
<1>2. next - 1 <= Len(good) /\ next \in Nat
  BY Ranges
<1>3. \A n \in 0 .. next - 1 : FullWindow(n)' <=> FullWindow(n)
  BY <1>2, FullWindowKept, Ranges
<1>4. ValuesAreWindows'
  <2>1. SUFFICES ASSUME NEW v \in values \union laterValues
                 PROVE  FullWindow(v[1])' /\ v[2] = SumsUpTo(v[1])
    BY DEF ValuesAreWindows, SumsUpTo, SumsOf, Elements
  <2>2. FullWindow(v[1]) /\ v[2] = SumsUpTo(v[1])
    BY DEF WindowInv, ValuesAreWindows
  <2>3. v[1] \in 0 .. next - 1
    BY <1>1, <1>2
  <2>4. QED
    BY <1>3, <2>2, <2>3
<1>5. EveryWindowHasValue'
  <2>1. SUFFICES ASSUME NEW n \in 1 .. next - 1
                 PROVE  /\ FullWindow(n)' => \E v \in values : v[1] = n
                        /\ FullWindow(n)' /\ FullWindow(n - 1)' <=> \E v \in laterValues : v[1] = n
    BY DEF EveryWindowHasValue
  <2>2. /\ FullWindow(n) => \E v \in values : v[1] = n
        /\ FullWindow(n) /\ FullWindow(n - 1) <=> \E v \in laterValues : v[1] = n
    BY DEF WindowInv, EveryWindowHasValue
  <2>3. n \in 0 .. next - 1 /\ n - 1 \in 0 .. next - 1
    BY <1>2
  <2>4. QED
    BY <1>3, <2>2, <2>3
<1>6. QED
  BY <1>1, <1>2, <1>4, <1>5

(* Where an element is gone over, there is a value if it ends a window. *)
LEMMA ValuesStep ==
  ASSUME TypeOK, WindowInv, good' = good, next' = next + 1,
         values' = IF FullWindow(next) THEN values \union {<<next, sums'>>} ELSE values,
         laterValues' = IF FullWindow(next) /\ FullWindow(next - 1)
                        THEN laterValues \union {<<next, sums'>>} ELSE laterValues,
         FullWindow(next) => sums' = SumsUpTo(next)
  PROVE  (ValuesAreWindows /\ EveryWindowHasValue)' /\ \A v \in values' \union laterValues' : v[1] < next'
<1>1. \A v \in values \union laterValues : v[1] < next /\ v[1] \in Nat
  BY DEF WindowInv, TypeOK, Elements
<1>2. next \in Nat
  BY Ranges
<1>3. \A n : FullWindow(n)' <=> FullWindow(n)
  BY DEF FullWindow
<1>4. \A v \in values' \union laterValues' : v \in values \union laterValues \/ (FullWindow(next) /\ v = <<next, sums'>>)
  OBVIOUS
<1>5. ValuesAreWindows'
  <2>1. SUFFICES ASSUME NEW v \in values' \union laterValues'
                 PROVE  FullWindow(v[1])' /\ v[2] = SumsUpTo(v[1])
    BY DEF ValuesAreWindows, SumsUpTo, SumsOf, Elements
  <2>2. CASE v \in values \union laterValues
    <3>1. FullWindow(v[1]) /\ v[2] = SumsUpTo(v[1])
      BY <2>2 DEF WindowInv, ValuesAreWindows
    <3>2. QED
      BY <1>3, <3>1
  <2>3. CASE FullWindow(next) /\ v = <<next, sums'>>
    <3>1. v[1] = next /\ v[2] = SumsUpTo(next)
      BY <2>3
    <3>2. QED
      BY <1>3, <2>3, <3>1
  <2>4. QED
    BY <1>4, <2>2, <2>3
<1>6. EveryWindowHasValue'
  <2>1. SUFFICES ASSUME NEW n \in 1 .. next' - 1
                 PROVE  /\ FullWindow(n) => \E v \in values' : v[1] = n
                        /\ FullWindow(n) /\ FullWindow(n - 1) <=> \E v \in laterValues' : v[1] = n
    BY <1>3 DEF EveryWindowHasValue
  <2>2. CASE n = next
    <3>1. <<next, sums'>>[1] = next
      OBVIOUS
    <3>2. \A v \in laterValues : v[1] # next
      BY <1>1, <1>2
    <3>3. QED
      BY <2>2, <3>1, <3>2
  <2>3. CASE n # next
    <3>1. n \in 1 .. next - 1
      BY <1>2, <2>1, <2>3
    <3>2. /\ FullWindow(n) => \E v \in values : v[1] = n
          /\ FullWindow(n) /\ FullWindow(n - 1) <=> \E v \in laterValues : v[1] = n
      BY <3>1 DEF WindowInv, EveryWindowHasValue
    <3>3. values \subseteq values' /\ laterValues \subseteq laterValues'
      OBVIOUS
    <3>4. \A v \in laterValues' : v \in laterValues \/ v[1] = next
      OBVIOUS
    <3>5. QED
      BY <2>3, <3>2, <3>3, <3>4
  <2>4. QED
    BY <2>2, <2>3
<1>7. \A v \in values' \union laterValues' : v[1] < next'
  BY <1>1, <1>2, <1>4
<1>8. QED
  BY <1>5, <1>6, <1>7

(* Every step keeps the window. *)
LEMMA WindowStep == TypeOK /\ WindowInv /\ [Next]_vars => WindowInv'
<1> SUFFICES ASSUME TypeOK, WindowInv, [Next]_vars PROVE WindowInv'
  OBVIOUS
<1> DEFINE Before == first = 1 \/ ~good[first - 1]
<1>1. /\ counter = next - first /\ sums = SumsOf(first, next - 1) /\ (counter < Window => Before)
      /\ \A i \in first .. next - 1 : good[i] /\ i \in processed
      /\ \A i \in processed : i < next
      /\ erased < first /\ first <= next /\ (~looping => first = erased + 1)
  BY DEF WindowInv
<1>2. ASSUME UNCHANGED <<first, next, counter, sums, processed, values, laterValues>>,
             erased' < first, ~looping' => first = erased' + 1
      PROVE  WindowInv'
  <2>1. (ValuesAreWindows /\ EveryWindowHasValue)' /\ \A v \in values' \union laterValues' : v[1] < next'
    BY <1>2, ValuesKept
  <2>2. \A i \in 1 .. Len(good) : good'[i] = good[i]
    BY FullWindowKept
  <2>3. \A i \in first .. next - 1 : good'[i] /\ i \in processed
    <3>1. \A i \in first .. next - 1 : i \in 1 .. Len(good)
      BY Ranges
    <3>2. QED
      BY <1>1, <2>2, <3>1
  <2>4. counter < Window => first = 1 \/ ~good'[first - 1]
    <3>1. first # 1 => first - 1 \in 1 .. Len(good)
      BY Ranges
    <3>2. QED
      BY <1>1, <2>2, <3>1
  <2>5. SumsOf(first, next - 1)' = SumsOf(first, next - 1)
    BY <1>2 DEF SumsOf, Elements
  <2>6. QED
    BY <1>1, <1>2, <2>1, <2>3, <2>4, <2>5 DEF WindowInv
<1>3. CASE UNCHANGED vars
  <2>1. QED
    BY <1>1, <1>2, <1>3 DEF vars, ring, loop
<1>4. ASSUME NEW isGood \in BOOLEAN, Push(isGood) PROVE WindowInv'
  BY <1>1, <1>2, <1>4 DEF Push, loop
<1>5. CASE Begin
  <2>1. next' = next /\ counter' = counter /\ first' = first
    BY <1>1, <1>5, SearchFindsNext DEF Begin
  <2>2. QED
    BY <1>1, <1>2, <1>5, <2>1 DEF Begin
<1>6. CASE BeginWithLittle
  BY <1>1, <1>2, <1>6 DEF BeginWithLittle, loop
<1>7. CASE End
  <2>1. erased' = first - 1 /\ first \in Nat
    BY <1>7, Ranges DEF End, ErasedTo
  <2>2. QED
    BY <1>2, <1>7, <2>1 DEF End
<1>8. ASSUME InLoop
      PROVE  next \in 1 .. published /\ next \in Elements /\ next \in Nat /\ first \in Nat /\ first \in Elements /\ first >= 1
  BY <1>8, Ranges DEF InLoop, TypeOK, Elements
<1>9. CASE Slide
  <2>1. /\ first' = first + 1 /\ next' = next + 1 /\ counter' = counter /\ counter = Window /\ good[next]
        /\ sums' = [[sums EXCEPT ![first] = @ - 1] EXCEPT ![next] = @ + 1]
        /\ values' = values \union {<<next, sums'>>} /\ laterValues' = laterValues \union {<<next, sums'>>}
        /\ processed' = processed \union {next} /\ UNCHANGED <<good, erased, looping>> /\ InLoop
        /\ looping
    BY <1>9 DEF Slide, InLoop
  <2>2. next = first + Window /\ next \in Nat /\ first \in Nat /\ first >= 1 /\ next \in Elements /\ first \in Elements
    BY <1>1, <1>8, <2>1
  <2>3. \A i \in first .. next : good[i]
    BY <1>1, <2>1, <2>2
  <2>4. FullWindow(next) /\ FullWindow(next - 1)
    <3>1. next - Window + 1 = first + 1 /\ next - 1 - Window + 1 = first /\ next >= Window /\ next - 1 >= Window
      BY <2>2
    <3>2. QED
      BY <2>2, <2>3, <3>1 DEF FullWindow
  <2>5. sums' = SumsOf(first + 1, next)
    <3>1. \A e \in Elements : sums'[e] = IF first + 1 <= e /\ e <= next THEN 1 ELSE 0
      <4>1. sums = [e \in Elements |-> IF first <= e /\ e <= next - 1 THEN 1 ELSE 0]
        BY <1>1 DEF SumsOf
      <4>2. first < next
        BY <2>2
      <4>3. sums' = [[sums EXCEPT ![first] = 0] EXCEPT ![next] = 1]
        <5>1. sums[first] = 1 /\ sums[next] = 0
          BY <2>2, <4>1, <4>2
        <5>2. [sums EXCEPT ![first] = @ - 1] = [sums EXCEPT ![first] = 0]
          BY <5>1
        <5>3. [sums EXCEPT ![first] = 0][next] + 1 = 1
          BY <2>2, <4>1, <4>2, <5>1
        <5>4. sums' = [[sums EXCEPT ![first] = 0] EXCEPT ![next] = [sums EXCEPT ![first] = 0][next] + 1]
          BY <2>1, <5>2
        <5>5. QED
          BY <5>3, <5>4
      <4>4. ASSUME NEW e \in Elements PROVE sums'[e] = IF first + 1 <= e /\ e <= next THEN 1 ELSE 0
        <5>1. e \in Nat
          BY DEF Elements
        <5>2. sums'[e] = IF e = next THEN 1 ELSE IF e = first THEN 0 ELSE sums[e]
          BY <2>2, <4>1, <4>2, <4>3
        <5>3. sums[e] = IF first <= e /\ e <= next - 1 THEN 1 ELSE 0
          BY <4>1
        <5>4. QED
          BY <2>2, <4>2, <5>1, <5>2, <5>3
      <4>5. QED
        BY <4>4
    <3>2. sums' = [e \in Elements |-> sums'[e]]
      BY <1>1, <2>1 DEF SumsOf
    <3>3. QED
      BY <3>1, <3>2 DEF SumsOf
  <2>6. sums' = SumsUpTo(next)
    BY <2>2, <2>5 DEF SumsUpTo
  <2>7. (ValuesAreWindows /\ EveryWindowHasValue)' /\ \A v \in values' \union laterValues' : v[1] < next'
    BY <2>1, <2>4, <2>6, ValuesStep
  <2>8. SumsOf(first, next - 1)' = SumsOf(first + 1, next)
    <3>1. next' - 1 = next
      BY <2>1, <2>2
    <3>2. QED
      BY <2>1, <3>1 DEF SumsOf, Elements
  <2>9. \A i \in first' .. next' - 1 : good'[i] /\ i \in processed'
    BY <1>1, <2>1, <2>2, <2>3
  <2>10. \A i \in processed' : i < next'
    <3>1. \A i \in processed : i \in Nat
      BY DEF TypeOK, Elements
    <3>2. QED
      BY <1>1, <2>1, <2>2, <3>1
  <2>11. erased' < first' /\ first' <= next' /\ counter' = next' - first' /\ looping' /\ ~(counter' < Window)
    BY <1>1, <2>1, <2>2, Ranges
  <2>12. QED
    BY <2>5, <2>7, <2>8, <2>9, <2>10, <2>11 DEF WindowInv
<1>10. CASE Grow
  <2>1. /\ first' = first /\ next' = next + 1 /\ counter' = counter + 1 /\ counter # Window /\ good[next]
        /\ sums' = [sums EXCEPT ![next] = @ + 1]
        /\ values' = (IF counter + 1 = Window THEN values \union {<<next, sums'>>} ELSE values)
        /\ laterValues' = laterValues
        /\ processed' = processed \union {next} /\ UNCHANGED <<good, erased, looping>> /\ InLoop
        /\ looping
    BY <1>10 DEF Grow, InLoop
  <2>2. /\ next = first + counter /\ next \in Nat /\ first \in Nat /\ first >= 1 /\ next \in Elements
        /\ counter \in Nat /\ counter < Window
    <3>1. counter \in Nat /\ counter <= Window /\ counter = next - first
      BY Ranges
    <3>2. next \in Nat /\ first \in Nat /\ first >= 1 /\ next \in Elements
      BY <1>8, <2>1
    <3>3. QED
      BY <2>1, <3>1, <3>2
  <2>3. Before /\ \A i \in first .. next : good[i]
    BY <1>1, <2>1, <2>2
  <2>4. FullWindow(next) <=> counter + 1 = Window
    <3>1. CASE counter + 1 = Window
      <4>1. next - Window + 1 = first /\ next >= Window
        BY <2>2, <3>1
      <4>2. QED
        BY <2>3, <3>1, <4>1 DEF FullWindow
    <3>2. CASE counter + 1 # Window
      <4>1. CASE first = 1
        BY <2>2, <3>2, <4>1 DEF FullWindow
      <4>2. CASE ~good[first - 1]
        <5>1. first - 1 \in next - Window + 1 .. next
          BY <2>2, <3>2
        <5>2. QED
          BY <3>2, <4>2, <5>1 DEF FullWindow
      <4>3. QED
        BY <2>3, <4>1, <4>2
    <3>3. QED
      BY <3>1, <3>2
  <2>5. FullWindow(next) => ~FullWindow(next - 1)
    <3>1. SUFFICES ASSUME counter + 1 = Window PROVE ~FullWindow(next - 1)
      BY <2>4
    <3>2. CASE first = 1
      BY <2>2, <3>1, <3>2 DEF FullWindow
    <3>3. CASE ~good[first - 1]
      <4>1. first - 1 \in (next - 1) - Window + 1 .. next - 1
        BY <2>2, <3>1
      <4>2. QED
        BY <3>3, <4>1 DEF FullWindow
    <3>4. QED
      BY <2>3, <3>2, <3>3
  <2>6. sums' = SumsOf(first, next)
    <3>1. \A e \in Elements : sums'[e] = IF first <= e /\ e <= next THEN 1 ELSE 0
      BY <1>1, <2>1, <2>2 DEF SumsOf, Elements
    <3>2. sums' = [e \in Elements |-> sums'[e]]
      BY <1>1, <2>1 DEF SumsOf
    <3>3. QED
      BY <3>1, <3>2 DEF SumsOf
  <2>7. FullWindow(next) => sums' = SumsUpTo(next)
    <3>1. counter + 1 = Window => next - Window + 1 = first
      BY <2>2
    <3>2. QED
      BY <2>4, <2>6, <3>1 DEF SumsUpTo
  <2>8. (ValuesAreWindows /\ EveryWindowHasValue)' /\ \A v \in values' \union laterValues' : v[1] < next'
    BY <2>1, <2>4, <2>5, <2>7, ValuesStep
  <2>9. SumsOf(first, next - 1)' = SumsOf(first, next)
    <3>1. next' - 1 = next
      BY <2>1, <2>2
    <3>2. QED
      BY <2>1, <3>1 DEF SumsOf, Elements
  <2>10. \A i \in first' .. next' - 1 : good'[i] /\ i \in processed'
    BY <1>1, <2>1, <2>2, <2>3
  <2>11. \A i \in processed' : i < next'
    <3>1. \A i \in processed : i \in Nat
      BY DEF TypeOK, Elements
    <3>2. QED
      BY <1>1, <2>1, <2>2, <3>1
  <2>12. erased' < first' /\ first' <= next' /\ counter' = next' - first' /\ looping'
    BY <1>1, <2>1, <2>2, Ranges
  <2>13. first' = 1 \/ ~good'[first' - 1]
    BY <2>1, <2>3
  <2>14. QED
    BY <2>6, <2>8, <2>9, <2>10, <2>11, <2>12, <2>13 DEF WindowInv
<1>11. CASE Lose
  <2>1. /\ first' = next + 1 /\ next' = next + 1 /\ counter' = 0 /\ ~good[next] /\ sums' = NoSums
        /\ UNCHANGED <<good, erased, processed, looping, values, laterValues>> /\ InLoop /\ looping
    BY <1>11 DEF Lose, FirstAfterLoss, SumsAfterLoss, InLoop, ring
  <2>2. next \in Nat /\ next \in Elements /\ next >= 1
    BY <1>8, <2>1, Ranges DEF Elements
  <2>3. ~FullWindow(next)
    <3>1. next \in next - Window + 1 .. next
      BY <2>2
    <3>2. QED
      BY <2>1, <3>1 DEF FullWindow
  <2>4. (ValuesAreWindows /\ EveryWindowHasValue)' /\ \A v \in values' \union laterValues' : v[1] < next'
    BY <2>1, <2>3, ValuesStep
  <2>5. sums' = SumsOf(first, next - 1)'
    <3>1. first' > next' - 1 /\ next' - 1 \in Nat /\ first' \in Nat
      BY <2>1, <2>2
    <3>2. QED
      BY <2>1, <3>1 DEF SumsOf, NoSums, Elements
  <2>6. \A i \in first' .. next' - 1 : good'[i] /\ i \in processed'
    BY <2>1, <2>2
  <2>7. \A i \in processed' : i < next'
    <3>1. \A i \in processed : i \in Nat
      BY DEF TypeOK, Elements
    <3>2. QED
      BY <1>1, <2>1, <2>2, <3>1
  <2>8. erased' < first' /\ first' <= next' /\ counter' = next' - first' /\ looping'
    BY <1>1, <2>1, <2>2, Ranges
  <2>9. ~good'[first' - 1]
    <3>1. first' - 1 = next
      BY <2>1, <2>2
    <3>2. QED
      BY <2>1, <3>1
  <2>10. QED
    BY <2>4, <2>5, <2>6, <2>7, <2>8, <2>9 DEF WindowInv
<1>12. CASE StopThreads
  BY <1>1, <1>2, <1>12 DEF StopThreads, ring, loop
<1>13. CASE Terminated
  BY <1>3, <1>13 DEF Terminated
<1>14. QED
  BY <1>3, <1>4, <1>5, <1>6, <1>7, <1>9, <1>10, <1>11, <1>12, <1>13 DEF Next, Calculate

(* Types and window hold together in every state. *)
LEMMA Inductive == Spec => [](TypeOK /\ WindowInv)
<1>1. Init => TypeOK /\ WindowInv
  BY InitWindow
<1>2. TypeOK /\ WindowInv /\ [Next]_vars => (TypeOK /\ WindowInv)'
  BY TypeStep, WindowStep
<1>3. QED
  BY <1>1, <1>2, PTL DEF Spec

(* calculateData: iterators stay within what lock() published, the counter
   within the window. *)
THEOREM TypeCorrect == Spec => []TypeOK
BY Inductive, PTL

(* The window between firstProcessedElement and firstNonProcessedElement is
   good, marked and in the sums, in every state. *)
THEOREM WindowInvariant == Spec => []WindowInv
BY Inductive, PTL

(* Each value s4Value, s4WithoutNoiseValue and newSigmaPhi is that of a full
   window, its elements each once in the sums. *)
THEOREM ValueOfWindow == Spec => []ValuesAreWindows
<1>1. WindowInv => ValuesAreWindows
  BY DEF WindowInv
<1>2. QED
  BY <1>1, WindowInvariant, PTL

(* No full window among the elements gone over is left without its value. *)
THEOREM WindowHasValue == Spec => []EveryWindowHasValue
<1>1. WindowInv => EveryWindowHasValue
  BY DEF WindowInv
<1>2. QED
  BY <1>1, WindowInvariant, PTL

(* Between two calls the sums are those of the elements that a next call finds
   marked. *)
THEOREM SumsOfMarked == Spec => []SumsFollowMarks
<1>1. ASSUME TypeOK, WindowInv, ~looping
      PROVE  sums = [e \in Elements |-> IF e > erased /\ e \in processed THEN 1 ELSE 0]
  <2>1. sums = SumsOf(first, next - 1) /\ first = erased + 1
    BY <1>1 DEF WindowInv
  <2>2. \A i \in first .. next - 1 : i \in processed
    BY <1>1 DEF WindowInv
  <2>3. \A i \in processed : i < next
    BY <1>1 DEF WindowInv
  <2>4. \A e \in Elements : (first <= e /\ e <= next - 1) <=> (e > erased /\ e \in processed)
    BY <1>1, <2>1, <2>2, <2>3, Ranges DEF Elements
  <2>5. QED
    BY <2>1, <2>4 DEF SumsOf
<1>2. TypeOK /\ WindowInv => SumsFollowMarks
  BY <1>1 DEF SumsFollowMarks
<1>3. QED
  BY <1>2, Inductive, PTL
=============================================================================
