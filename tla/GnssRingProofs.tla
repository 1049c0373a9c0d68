--------------------------- MODULE GnssRingProofs ---------------------------
(***************************************************************************)
(* Proofs about GnssRing, for every capacity and any number of pushes: the *)
(* pointers and the counters never disagree, the newest Capacity elements  *)
(* are where the pointers say, and so a reader that is not lapped reads in *)
(* the order of the pushes.                                                *)
(***************************************************************************)
EXTENDS GnssRing, SequenceTheorems, TLAPS

USE CapacityAssumption, MaxPushesAssumption

(* An empty ring of zeroed slots satisfies the invariant. *)
LEMMA InitRing == Init => TypeOK /\ RingInv
<1> SUFFICES ASSUME Init PROVE TypeOK /\ RingInv
  OBVIOUS
<1> USE DEF Init, Positions
<1>1. TypeOK
  BY DEF TypeOK
<1>2. PartsInv /\ ReaderInv /\ ReadsInOrder
  BY DEF PartsInv, ReaderInv, ReadsInOrder
<1>3. NewestIntact
  BY DEF NewestIntact
<1>4. QED
  BY <1>1, <1>2, <1>3 DEF RingInv

(* How many elements erase(begin(), last) takes, for the two calls readers make:
   those it has gone over, and all there are. *)
LEMMA CountRead ==
  ASSUME TypeOK, PartsInv, ReaderInv, program = "running", reader = "reading", seen # <<>>
  PROVE  CountOfErased(it) = HaveRead /\ HaveRead \in 0 .. sizeOfReadBuffer
<1>1. Len(seen) \in Nat \ {0}
  BY EmptySeq, LenProperties DEF TypeOK
<1>2. /\ beginRead \in 0 .. Capacity /\ endRead \in 0 .. Capacity /\ it \in 0 .. Capacity
      /\ sizeOfReadBuffer \in 0 .. Capacity
  BY DEF TypeOK, Positions
<1>3. /\ HaveRead \in 0 .. sizeOfReadBuffer
      /\ it \in {beginRead + HaveRead, beginRead + HaveRead - Capacity}
  BY DEF ReaderInv
<1>4. HaveRead = Len(seen) - Phantoms /\ Phantoms = IF beginRead = Capacity THEN 1 ELSE 0
  BY DEF HaveRead, Phantoms
<1>5. (it = Capacity => endRead = Capacity) /\ beginRead # endRead
  BY DEF ReaderInv
<1>6. CountOfErased(it) = IF it > beginRead THEN it - beginRead ELSE (Capacity - beginRead) + it
  BY DEF CountOfErased
<1>7. CASE beginRead = Capacity
  BY <1>1, <1>2, <1>3, <1>4, <1>5, <1>6, <1>7
<1>8. CASE beginRead # Capacity
  BY <1>1, <1>2, <1>3, <1>4, <1>6, <1>8
<1>9. QED
  BY <1>7, <1>8

(* percentOfFull() of an empty read part: a reader that erases everything finds
   something to erase. *)
LEMMA PercentOfNothing == \A c \in Nat \ {0} : (0 * 100) \div c = 0
OBVIOUS

(* erase(begin(), end()) counts all there is, or once around the ring when the
   read part fills it and begin() equals end(). *)
LEMMA CountAll ==
  ASSUME TypeOK, PartsInv, program = "running", sizeOfReadBuffer > 0
  PROVE  \/ CountOfErased(endRead) = sizeOfReadBuffer
         \/ CountOfErased(endRead) = Capacity /\ beginRead = endRead
BY DEF TypeOK, PartsInv, CountOfErased, Positions

(* erase() in the terms of the two lemmas above. *)
LEMMA EraseBounds ==
  ASSUME TypeOK, NEW last, CountOfErased(last) \in 0 .. Capacity, Erase(last)
  PROVE  sizeOfReadBuffer' \in 0 .. Capacity /\ beginRead' \in 0 .. Capacity
<1> DEFINE n == CountOfErased(last)
<1>1. sizeOfReadBuffer \in 0 .. Capacity /\ beginRead \in 0 .. Capacity /\ n \in 0 .. Capacity
  BY DEF TypeOK, Positions
<1>2. /\ sizeOfReadBuffer' = IF sizeOfReadBuffer < n THEN 0 ELSE sizeOfReadBuffer - n
      /\ beginRead' = IF beginRead + n > Capacity THEN beginRead + n - Capacity
                      ELSE beginRead + n
  BY DEF Erase
<1> HIDE DEF n
<1>3. QED
  BY <1>1, <1>2

(* Every step keeps the types: no pointer leaves the buffer, no counter wraps
   below zero. *)
LEMMA TypeStep == TypeOK /\ RingInv /\ [Next]_vars => TypeOK'
<1> SUFFICES ASSUME TypeOK, RingInv, [Next]_vars PROVE TypeOK'
  OBVIOUS
<1> USE DEF writePart, readPart
<1>1. CASE PushBack
  <2>1. NextWrite \in 0 .. Capacity - 1
    BY DEF TypeOK, Positions, NextWrite
  <2>2. /\ slots' \in [Positions -> Nat] /\ endWrite' \in Positions
        /\ pushedElements' \in 0 .. Capacity /\ total' \in Nat
    BY <1>1, <2>1 DEF PushBack, RingIsFull, TypeOK, Positions
  <2>3. QED
    BY <1>1, <2>2 DEF PushBack, TypeOK
<1>2. CASE PushExits
  BY <1>2 DEF PushExits, Exit, TypeOK
<1>3. CASE Lock
  <2>1. /\ beginWrite' \in Positions /\ beginRead' \in Positions /\ endRead' \in Positions
        /\ pushedElements' \in 0 .. Capacity /\ sizeOfReadBuffer' \in 0 .. Capacity
    BY <1>3 DEF Lock, BatchFits, FirstToRead, TypeOK
  <2>2. QED
    BY <1>3, <2>1 DEF Lock, TypeOK
<1>4. CASE LockExits
  BY <1>4 DEF LockExits, Exit, TypeOK
<1>5. CASE ReadNext
  <2>1. slots[it] \in Nat /\ seen' \in Seq(Nat)
    BY <1>5 DEF ReadNext, TypeOK
  <2>2. it' \in Positions
    <3>1. CASE seen = <<>>
      BY <1>5, <3>1 DEF ReadNext, Advance, RingInv, PartsInv, ReaderInv, TypeOK, Positions
    <3>2. CASE seen # <<>>
      BY <1>5, <3>2 DEF ReadNext, Advance, RingInv, PartsInv, ReaderInv, TypeOK, Positions
    <3>3. QED
      BY <3>1, <3>2
  <2>3. QED
    BY <1>5, <2>1, <2>2 DEF ReadNext, TypeOK
<1>6. CASE EraseRead
  <2>1. CountOfErased(it) \in 0 .. sizeOfReadBuffer
    BY <1>6, CountRead DEF EraseRead, RingInv
  <2>2. sizeOfReadBuffer' \in 0 .. Capacity /\ beginRead' \in Positions
    BY <1>6, <2>1, EraseBounds DEF EraseRead, TypeOK, Positions
  <2>3. QED
    BY <1>6, <2>2 DEF EraseRead, Erase, TypeOK
<1>7. CASE EraseInconsistent
  <2>1. CountOfErased(endRead) \in 0 .. Capacity
    BY DEF CountOfErased, TypeOK, Positions
  <2>2. sizeOfReadBuffer' \in 0 .. Capacity /\ beginRead' \in Positions
    BY <1>7, <2>1, EraseBounds DEF EraseInconsistent, TypeOK, Positions
  <2>3. QED
    BY <1>7, <2>2 DEF EraseInconsistent, Erase, TypeOK
<1>8. CASE Unlock
  BY <1>8 DEF Unlock, TypeOK, Positions
<1>9. CASE Destroy
  BY <1>9 DEF Destroy, TypeOK
<1>10. CASE UNCHANGED vars
  BY <1>10 DEF vars, TypeOK
<1>11. QED
  BY <1>1, <1>2, <1>3, <1>4, <1>5, <1>6, <1>7, <1>8, <1>9, <1>10 DEF Next, Terminated

(* Every step keeps each counter equal to the distance of its two pointers. *)
LEMMA PartsStep == TypeOK /\ RingInv /\ [Next]_vars => PartsInv'
<1> SUFFICES ASSUME TypeOK, RingInv, [Next]_vars PROVE PartsInv'
  OBVIOUS
<1> USE DEF writePart, readPart, TypeOK, Positions, PartsInv, RingInv
<1>1. CASE PushBack
  BY <1>1 DEF PushBack, NextWrite, RingIsFull
<1>2. CASE PushExits
  BY <1>2 DEF PushExits, Exit
<1>3. CASE Lock
  <2>1. CASE pushedElements > 0
    <3>1. /\ beginRead' = beginRead /\ endRead' = endWrite /\ beginWrite' = endWrite
          /\ sizeOfReadBuffer' = sizeOfReadBuffer + pushedElements /\ pushedElements' = 0
          /\ pushedElements + sizeOfReadBuffer <= Capacity
          /\ program = "running" /\ UNCHANGED <<endWrite, total, program>>
      BY <1>3, <2>1 DEF Lock, BatchFits, FirstToRead
    <3>2. beginRead + sizeOfReadBuffer' \in {endRead', endRead' + Capacity}
      BY <3>1
    <3>3. QED
      BY <3>1, <3>2
  <2>2. CASE pushedElements = 0
    BY <1>3, <2>2 DEF Lock
  <2>3. QED
    BY <2>1, <2>2
<1>4. CASE LockExits
  BY <1>4 DEF LockExits, Exit
<1>5. CASE ReadNext
  BY <1>5 DEF ReadNext
<1>6. CASE EraseRead
  <2>1. CountOfErased(it) \in 0 .. sizeOfReadBuffer
    BY <1>6, CountRead DEF EraseRead
  <2>2. QED
    <3> DEFINE n == CountOfErased(it)
    <3>0. n \in 0 .. sizeOfReadBuffer
      BY <2>1
    <3>1. /\ sizeOfReadBuffer' = IF sizeOfReadBuffer < n THEN 0 ELSE sizeOfReadBuffer - n
          /\ beginRead' = IF beginRead + n > Capacity THEN beginRead + n - Capacity
                          ELSE beginRead + n
          /\ UNCHANGED <<writePart, endRead, program, total>>
          /\ program = "running"
      BY <1>6 DEF EraseRead, Erase
    <3> HIDE DEF n
    <3>2. QED
      BY <3>0, <3>1
<1>7. CASE EraseInconsistent
  <2>1. sizeOfReadBuffer > 0
    <3>1. sizeOfReadBuffer # 0
      BY <1>7, PercentOfNothing DEF EraseInconsistent
    <3>2. QED
      BY <3>1
  <2>2. \/ CountOfErased(endRead) = sizeOfReadBuffer
        \/ CountOfErased(endRead) = Capacity /\ beginRead = endRead
    BY <1>7, <2>1, CountAll DEF EraseInconsistent
  <2>3. QED
    <3> DEFINE n == CountOfErased(endRead)
    <3>0. n = sizeOfReadBuffer \/ (n = Capacity /\ beginRead = endRead)
      BY <2>2
    <3>1. /\ sizeOfReadBuffer' = IF sizeOfReadBuffer < n THEN 0 ELSE sizeOfReadBuffer - n
          /\ beginRead' = IF beginRead + n > Capacity THEN beginRead + n - Capacity
                          ELSE beginRead + n
          /\ UNCHANGED <<writePart, endRead, program, total>>
          /\ program = "running"
      BY <1>7 DEF EraseInconsistent, Erase
    <3> HIDE DEF n
    <3>2. sizeOfReadBuffer \in {n, Capacity} /\ n <= sizeOfReadBuffer
      BY <2>1, <3>0, <3>1
    <3>3. sizeOfReadBuffer' = 0 /\ beginRead' \in {endRead, endRead + Capacity}
      BY <2>1, <3>0, <3>1, <3>2
    <3>4. QED
      BY <3>1, <3>3
<1>8. CASE Unlock
  BY <1>8 DEF Unlock
<1>9. CASE Destroy
  BY <1>9 DEF Destroy
<1>10. CASE UNCHANGED vars
  BY <1>10 DEF vars
<1>11. QED
  BY <1>1, <1>2, <1>3, <1>4, <1>5, <1>6, <1>7, <1>8, <1>9, <1>10 DEF Next, Terminated

(* A push overwrites the oldest of the Capacity newest elements and no other. *)
LEMMA NewestStep == TypeOK /\ RingInv /\ [Next]_vars => NewestIntact'
<1> SUFFICES ASSUME TypeOK, RingInv, [Next]_vars PROVE NewestIntact'
  OBVIOUS
<1>1. CASE PushBack
  <2> SUFFICES ASSUME NEW i \in 1 .. Capacity, i <= total'
               PROVE  slots'[Newest(i)'] = total' - i + 1
    BY DEF NewestIntact
  <2>1. /\ NextWrite \in 0 .. Capacity - 1 /\ endWrite' = NextWrite + 1
        /\ total' = total + 1 /\ total \in Nat /\ endWrite \in 0 .. Capacity
        /\ slots \in [0 .. Capacity -> Nat]
        /\ slots' = [slots EXCEPT ![NextWrite] = total + 1]
    BY <1>1 DEF PushBack, NextWrite, TypeOK, Positions
  <2>2. CASE i = 1
    BY <2>1, <2>2 DEF Newest
  <2>3. CASE i # 1
    <3>1. i - 1 \in 1 .. Capacity /\ i - 1 <= total
      BY <2>1, <2>3
    <3>2. slots[Newest(i - 1)] = total - (i - 1) + 1
      BY <3>1 DEF RingInv, NewestIntact
    <3>3. Newest(i)' = Newest(i - 1) /\ Newest(i - 1) \in 0 .. Capacity
          /\ Newest(i - 1) # NextWrite
      BY <2>1, <2>3 DEF Newest, NextWrite
    <3>4. QED
      BY <2>1, <3>2, <3>3
  <2>4. QED
    BY <2>2, <2>3
<1>2. CASE UNCHANGED <<slots, endWrite, total>>
  BY <1>2 DEF RingInv, NewestIntact, Newest
<1>3. QED
  BY <1>1, <1>2
  DEF Next, PushExits, LockExits, Exit, Lock, ReadNext, EraseRead, EraseInconsistent,
      Erase, Unlock, Destroy, Terminated, vars, writePart, readPart

(* A step of the reader moves its iterator by one element; nobody else moves
   what the iterator is measured from. *)
LEMMA ReaderStep == TypeOK /\ RingInv /\ [Next]_vars => ReaderInv'
<1> SUFFICES ASSUME TypeOK, RingInv, [Next]_vars, program' = "running", reader' = "reading"
             PROVE  ReaderInv'
  BY DEF ReaderInv
<1> USE DEF writePart, readPart
<1>1. CASE Lock
  BY <1>1 DEF Lock, ReaderInv
<1>2. CASE ReadNext
  <2>1. /\ seen' = Append(seen, slots[it]) /\ seen \in Seq(Nat) /\ slots[it] \in Nat
        /\ it # endRead /\ it' = Advance(it) /\ program = "running" /\ reader = "reading"
        /\ UNCHANGED <<beginRead, endRead, sizeOfReadBuffer>>
    BY <1>2 DEF ReadNext, TypeOK
  <2>2. Len(seen') = Len(seen) + 1 /\ seen' # <<>> /\ Len(seen) \in Nat
        /\ (seen = <<>> <=> Len(seen) = 0)
    BY <2>1, AppendProperties, LenProperties, EmptySeq
  <2>3. HaveRead' = HaveRead + 1 /\ HaveRead = Len(seen) - Phantoms
    BY <2>1, <2>2 DEF HaveRead, Phantoms
  <2>4. CASE seen = <<>>
    BY <2>1, <2>2, <2>3, <2>4
    DEF ReaderInv, RingInv, PartsInv, TypeOK, Positions, Advance, Phantoms
  <2>5. CASE seen # <<>>
    <3>1. /\ HaveRead \in 0 .. sizeOfReadBuffer /\ beginRead # endRead
          /\ it \in {beginRead + HaveRead, beginRead + HaveRead - Capacity}
          /\ it = Capacity => endRead = Capacity
          /\ endRead = Capacity => it = beginRead + HaveRead
      BY <2>1, <2>5 DEF RingInv, ReaderInv
    <3>2. /\ beginRead \in 0 .. Capacity /\ endRead \in 0 .. Capacity /\ it \in 0 .. Capacity
          /\ sizeOfReadBuffer \in 0 .. Capacity
          /\ beginRead + sizeOfReadBuffer \in {endRead, endRead + Capacity}
      BY <2>1 DEF RingInv, PartsInv, TypeOK, Positions
    <3>3. it' = IF it + 1 >= Capacity /\ endRead < Capacity THEN 0 ELSE it + 1
      BY <2>1 DEF Advance
    <3>4. HaveRead < sizeOfReadBuffer
      BY <2>1, <3>1, <3>2
    <3>5. it < Capacity
      BY <2>1, <3>1, <3>2
    <3>6. it' \in {beginRead + HaveRead', beginRead + HaveRead' - Capacity}
      <4>1. CASE it + 1 >= Capacity /\ endRead < Capacity
        <5>1. it' = 0 /\ it = Capacity - 1
          BY <3>2, <3>3, <3>5, <4>1
        <5>2. it = beginRead + HaveRead
          <6>1. beginRead + HaveRead < beginRead + sizeOfReadBuffer
            BY <3>1, <3>2, <3>4
          <6>2. beginRead + sizeOfReadBuffer < Capacity + Capacity
            BY <3>2, <4>1
          <6>3. QED
            BY <3>1, <3>2, <5>1, <6>1, <6>2
        <5>3. QED
          BY <2>3, <3>1, <3>2, <5>1, <5>2
      <4>2. CASE ~(it + 1 >= Capacity /\ endRead < Capacity)
        <5>1. it' = it + 1
          BY <3>3, <4>2
        <5>2. HaveRead' = HaveRead + 1 /\ HaveRead \in Nat /\ beginRead \in Nat /\ Capacity \in Nat
          BY <2>3, <3>1, <3>2, CapacityAssumption
        <5>3. it = beginRead + HaveRead \/ it = beginRead + HaveRead - Capacity
          BY <3>1
        <5>4. it' = beginRead + HaveRead' \/ it' = beginRead + HaveRead' - Capacity
          BY <5>1, <5>2, <5>3
        <5>5. QED
          BY <5>4
      <4>3. QED
        BY <4>1, <4>2
    <3>7. /\ it' = Capacity => endRead' = Capacity
          /\ endRead' = Capacity => it' = beginRead' + HaveRead'
          /\ beginRead' # endRead' /\ HaveRead' \in 0 .. sizeOfReadBuffer'
      BY <2>1, <2>3, <3>1, <3>2, <3>3, <3>4, <3>5
    <3>8. it' \in {beginRead' + HaveRead', beginRead' + HaveRead' - Capacity}
      BY <2>1, <3>6
    <3>9. QED
      BY <2>2, <3>7, <3>8 DEF ReaderInv
  <2>6. QED
    BY <2>4, <2>5
<1>3. CASE UNCHANGED <<beginRead, endRead, sizeOfReadBuffer, it, seen, program, reader>>
  BY <1>3 DEF RingInv, ReaderInv, HaveRead, Phantoms
<1>4. QED
  BY <1>1, <1>2, <1>3
  DEF Next, PushBack, PushExits, LockExits, Exit, EraseRead, EraseInconsistent,
      Erase, Unlock, Destroy, Terminated, vars

(* The element under the iterator is the next unread one while no push has
   come around to it. *)
LEMMA OrderStep == TypeOK /\ RingInv /\ [Next]_vars => ReadsInOrder'
<1> SUFFICES ASSUME TypeOK, RingInv, [Next]_vars, program' = "running", reader' = "reading",
                    ~Lapped', NEW i \in 1 .. HaveRead'
             PROVE  seen'[i + Phantoms'] = OldestUnread' + i - 1
  BY DEF ReadsInOrder
<1> USE DEF writePart, readPart
<1>1. CASE PushBack
  <2>1. OldestUnread' = OldestUnread /\ ~Lapped
    BY <1>1 DEF PushBack, OldestUnread, Lapped, TypeOK, Positions
  <2>2. HaveRead' = HaveRead /\ Phantoms' = Phantoms
    BY <1>1 DEF PushBack, HaveRead, Phantoms
  <2>3. QED
    BY <1>1, <2>1, <2>2 DEF PushBack, RingInv, ReadsInOrder
<1>2. CASE Lock
  <2>1. HaveRead' <= 0
    BY <1>2, EmptySeq DEF Lock, HaveRead, Phantoms
  <2>2. HaveRead' \in Int
    BY <1>2, EmptySeq DEF Lock, HaveRead, Phantoms
  <2>3. QED
    BY <2>1, <2>2
<1>3. CASE ReadNext
  <2>1. /\ seen' = Append(seen, slots[it]) /\ seen \in Seq(Nat) /\ slots[it] \in Nat
        /\ it # endRead /\ program = "running" /\ reader = "reading"
        /\ UNCHANGED <<slots, writePart, readPart, total>>
    BY <1>3 DEF ReadNext, TypeOK
  <2>2. /\ Len(seen') = Len(seen) + 1 /\ Len(seen) \in Nat
        /\ seen'[Len(seen) + 1] = slots[it]
        /\ \A j \in 1 .. Len(seen) : seen'[j] = seen[j]
        /\ seen = <<>> <=> Len(seen) = 0
    BY <2>1, AppendProperties, LenProperties, EmptySeq
  <2>3. /\ HaveRead' = HaveRead + 1 /\ Phantoms' = Phantoms /\ Phantoms \in {0, 1}
        /\ HaveRead = Len(seen) - Phantoms
        /\ OldestUnread' = OldestUnread /\ ~Lapped
    BY <2>1, <2>2 DEF HaveRead, Phantoms, OldestUnread, Lapped
  <2>4. CASE i <= HaveRead
    BY <2>1, <2>2, <2>3, <2>4 DEF RingInv, ReadsInOrder
  <2>5. CASE i = HaveRead + 1
    <3> DEFINE n == pushedElements + sizeOfReadBuffer - HaveRead
    <3>1. n \in 1 .. Capacity /\ n <= total /\ it = Newest(n)
      <4>1. CASE seen = <<>>
        BY <2>1, <2>2, <2>3, <2>5, <4>1
        DEF RingInv, ReaderInv, PartsInv, TypeOK, Positions, Newest, Lapped, Phantoms
      <4>2. CASE seen # <<>>
        <5>1. /\ HaveRead \in 0 .. sizeOfReadBuffer
              /\ it \in {beginRead + HaveRead, beginRead + HaveRead - Capacity}
              /\ it = Capacity => endRead = Capacity
              /\ endRead = Capacity => it = beginRead + HaveRead
          BY <2>1, <4>2 DEF RingInv, ReaderInv
        <5>2. /\ beginRead \in 0 .. Capacity /\ endRead \in 0 .. Capacity
              /\ it \in 0 .. Capacity /\ sizeOfReadBuffer \in 0 .. Capacity
              /\ pushedElements \in 0 .. Capacity /\ endWrite \in 0 .. Capacity
              /\ total \in Nat
          BY DEF TypeOK, Positions
        <5>3. /\ endRead + pushedElements \in {endWrite, endWrite + Capacity}
              /\ beginRead + sizeOfReadBuffer \in {endRead, endRead + Capacity}
              /\ pushedElements + sizeOfReadBuffer <= total
          BY <2>1 DEF RingInv, PartsInv
        <5>4. pushedElements + sizeOfReadBuffer <= Capacity
          BY <2>3, <5>2 DEF Lapped
        <5>5. HaveRead < sizeOfReadBuffer /\ it < Capacity
          BY <2>1, <5>1, <5>2, <5>3
        <5>6. Newest(n) = IF n <= endWrite THEN endWrite - n ELSE endWrite - n + Capacity
          BY DEF Newest
        <5>7. n \in 1 .. Capacity /\ n <= total
          BY <5>1, <5>2, <5>3, <5>4, <5>5
        <5>8. it + n \in {endWrite, endWrite + Capacity}
          BY <2>1, <5>1, <5>2, <5>3, <5>4, <5>5
        <5>9. QED
          BY <5>2, <5>5, <5>6, <5>7, <5>8
      <4>3. QED
        BY <4>1, <4>2
    <3>2. slots[it] = total - n + 1
      BY <3>1 DEF RingInv, NewestIntact
    <3>3. QED
      BY <2>2, <2>3, <2>5, <3>2 DEF OldestUnread, TypeOK
  <2>6. QED
    BY <2>2, <2>3, <2>4, <2>5
<1>4. CASE UNCHANGED vars
  BY <1>4 DEF vars, RingInv, ReadsInOrder, HaveRead, Phantoms, OldestUnread, Lapped
<1>5. QED
  BY <1>1, <1>2, <1>3, <1>4
  DEF Next, PushExits, LockExits, Exit, EraseRead, EraseInconsistent, Erase, Unlock,
      Destroy, Terminated

(* The conjuncts together are inductive: each step lemma needs all of them. *)
LEMMA Inductive == TypeOK /\ RingInv /\ [Next]_vars => (TypeOK /\ RingInv)'
BY TypeStep, PartsStep, NewestStep, ReaderStep, OrderStep DEF RingInv

(* Every variable of the ring keeps its type: no pointer leaves the buffer. *)
THEOREM TypeCorrect == Spec => []TypeOK
<1>1. Init => TypeOK /\ RingInv
  BY InitRing
<1>2. TypeOK /\ RingInv /\ [Next]_vars => (TypeOK /\ RingInv)'
  BY Inductive
<1>3. QED
  BY <1>1, <1>2, PTL DEF Spec

(* Pointers, counters, slots and the reader's iterator agree in every state. *)
THEOREM RingInvariant == Spec => []RingInv
<1>1. Init => TypeOK /\ RingInv
  BY InitRing
<1>2. TypeOK /\ RingInv /\ [Next]_vars => (TypeOK /\ RingInv)'
  BY Inductive
<1>3. QED
  BY <1>1, <1>2, PTL DEF Spec

(* A reader that is not lapped reads the published elements in push order. *)
THEOREM OrderKept == Spec => []ReadsInOrder
<1>1. RingInv => ReadsInOrder
  BY DEF RingInv
<1>2. QED
  BY <1>1, RingInvariant, PTL

(* At end() everything has been read, except when begin() equals end() on a full
   read part. *)
THEOREM AllRead == Spec => []ReadsAll
<1>1. TypeOK /\ RingInv => ReadsAll
  <2> SUFFICES ASSUME TypeOK, RingInv, program = "running", reader = "reading", it = endRead
               PROVE  \/ HaveRead = sizeOfReadBuffer
                      \/ seen = <<>> /\ sizeOfReadBuffer \in {0, Capacity}
    BY DEF ReadsAll
  <2>1. CASE seen = <<>>
    BY <2>1 DEF RingInv, ReaderInv, PartsInv, TypeOK, Positions
  <2>2. CASE seen # <<>>
    <3>1. Len(seen) \in Nat \ {0}
      BY <2>2, EmptySeq, LenProperties DEF TypeOK
    <3>2. QED
      BY <2>2, <3>1 DEF RingInv, ReaderInv, PartsInv, TypeOK, Positions, HaveRead, Phantoms
  <2>3. QED
    BY <2>1, <2>2
<1>2. QED
  BY <1>1, TypeCorrect, RingInvariant, PTL

(* erase(begin(), it) takes what the reader has gone over, whether the read part
   wraps or not and even when pushes have lapped it. *)
THEOREM ErasesRead == Spec => ErasesWhatWasRead
<1>1. TypeOK /\ RingInv /\ [Next]_vars =>
        [EraseRead => sizeOfReadBuffer' = sizeOfReadBuffer - HaveRead]_vars
  <2> SUFFICES ASSUME TypeOK, RingInv, EraseRead
               PROVE  sizeOfReadBuffer' = sizeOfReadBuffer - HaveRead
    OBVIOUS
  <2>1. CountOfErased(it) = HaveRead /\ HaveRead \in 0 .. sizeOfReadBuffer
    BY CountRead DEF EraseRead, RingInv
  <2>2. QED
    BY <2>1 DEF EraseRead, Erase, TypeOK
<1>2. QED
  BY <1>1, TypeCorrect, RingInvariant, PTL DEF Spec, ErasesWhatWasRead
=============================================================================
