-------------------------- MODULE MergeDataProofs --------------------------
(***************************************************************************)
(* Proofs about MergeData, for every number of rings and every capacity:   *)
(* the join gives each common time stamp once, in order, and loses none.   *)
(* The argument: what an iterator passes can never find its partners any   *)
(* more, because a later element is already in the ring that lacks it.     *)
(***************************************************************************)
EXTENDS MergeData, SequenceTheorems, TLAPS

USE NumStreamsAssumption, CapacityAssumption, MaxTimeAssumption

(* Empty rings satisfy the invariant. *)
LEMMA InitJoin == Init => TypeOK /\ JoinInv
<1> SUFFICES ASSUME Init PROVE TypeOK /\ JoinInv
  OBVIOUS
<1> USE DEF Init
<1>1. TypeOK
  <2>1. \A k \in Streams : pushed[k] = <<>>
    OBVIOUS
  <2>2. \A k \in Streams : Len(pushed[k]) = 0 /\ published[k] = 0 /\ erased[k] = 0
    BY <2>1, EmptySeq
  <2>3. pushed \in [Streams -> Seq(Nat)] /\ joined \in Seq(Nat)
    BY EmptySeq
  <2>4. \A k \in Streams : erased[k] <= published[k] /\ published[k] <= Len(pushed[k])
    BY <2>2
  <2>5. published \in [Streams -> Nat] /\ erased \in [Streams -> Nat] /\ it \in [Streams -> Nat]
    OBVIOUS
  <2>6. QED
    BY <2>3, <2>4, <2>5 DEF TypeOK
<1>2. \A k \in Streams : Len(pushed[k]) = 0
  BY EmptySeq
<1>3. Len(joined) = 0
  BY EmptySeq
<1>4. Sorted /\ PassedInv /\ AheadInv /\ JoinsInOrder
  BY <1>2, <1>3 DEF Sorted, PassedInv, AheadInv, JoinsInOrder, Walking, Done
<1>5. QED
  BY <1>1, <1>4 DEF JoinInv

(* What an iterator finds while the loop goes on. *)
LEMMA IteratorInside ==
  ASSUME TypeOK, JoinInv, Inside, NEW k \in Streams
  PROVE  /\ it[k] \in 1 .. Len(pushed[k]) /\ it[k] <= published[k]
         /\ ItTime(k) = pushed[k][it[k]] /\ ItTime(k) \in Nat
<1>1. it[k] \in Nat /\ published[k] \in Nat /\ erased[k] \in Nat /\ published[k] <= Len(pushed[k])
  BY DEF TypeOK
<1>2. pushed[k] \in Seq(Nat) /\ Len(pushed[k]) \in Nat
  BY DEF TypeOK
<1>3. erased[k] < it[k] /\ it[k] <= published[k]
  BY <1>1 DEF JoinInv, PassedInv, Inside, Walking, AtEnd
<1>4. it[k] \in 1 .. Len(pushed[k])
  BY <1>1, <1>2, <1>3
<1>5. QED
  BY <1>2, <1>3, <1>4 DEF ItTime

(* Appending a later element to a ring keeps what is in it, and its order. *)
LEMMA PushedGrows ==
  ASSUME TypeOK, NEW k \in Streams, NEW t \in Times, Push(k, t), NEW j \in Streams
  PROVE  /\ Len(pushed[j]) \in Nat /\ Len(pushed[j])' \in Len(pushed[j]) .. Len(pushed[j]) + 1
         /\ \A i \in 1 .. Len(pushed[j]) : pushed'[j][i] = pushed[j][i]
         /\ \A i \in 1 .. Len(pushed'[j]) :
              i > Len(pushed[j]) => /\ j = k /\ i = Len(pushed[k]) + 1 /\ pushed'[j][i] = t
                                    /\ Len(pushed[k]) > 0 => pushed[k][Len(pushed[k])] < t
<1>1. pushed[j] \in Seq(Nat) /\ pushed[k] \in Seq(Nat) /\ t \in Nat
  BY DEF TypeOK, Times
<1>2. pushed' = [pushed EXCEPT ![k] = Append(@, t)] /\ pushed \in [Streams -> Seq(Nat)]
  BY DEF Push, TypeOK
<1>3. CASE j = k
  <2>1. pushed'[j] = Append(pushed[k], t)
    BY <1>2, <1>3
  <2>2. Len(pushed[k]) > 0 => pushed[k][Len(pushed[k])] < t
    BY <1>1, EmptySeq DEF Push, Last
  <2>3. QED
    BY <1>1, <1>3, <2>1, <2>2
<1>4. CASE j # k
  BY <1>1, <1>2, <1>4
<1>5. QED
  BY <1>3, <1>4

(* What is settled stays so: nothing is taken back, and no ring is given an
   element earlier than one it has. *)
LEMMA SettledStays ==
  ASSUME TypeOK, JoinInv, [Next]_vars
  PROVE  Settled \subseteq Settled'
<1> SUFFICES ASSUME NEW t \in Nat, t \in Settled PROVE t \in Settled'
  BY DEF Settled
<1>1. \A j \in Streams : Never(j, t) => Never(j, t)'
  <2> SUFFICES ASSUME NEW j \in Streams, Never(j, t) PROVE Never(j, t)'
    OBVIOUS
  <2>1. CASE UNCHANGED pushed
    BY <2>1 DEF Never, Has
  <2>2. ASSUME NEW k \in Streams, NEW u \in Times, Push(k, u) PROVE Never(j, t)'
    <3>1. PICK m \in 1 .. Len(pushed[j]) : pushed[j][m] > t
      BY DEF Never
    <3>2. /\ Len(pushed[j]) \in Nat /\ Len(pushed'[j]) \in Len(pushed[j]) .. Len(pushed[j]) + 1
          /\ \A i \in 1 .. Len(pushed[j]) : pushed'[j][i] = pushed[j][i]
          /\ \A i \in 1 .. Len(pushed'[j]) :
               i > Len(pushed[j]) => /\ j = k /\ pushed'[j][i] = u
                                     /\ Len(pushed[k]) > 0 => pushed[k][Len(pushed[k])] < u
      BY <2>2, PushedGrows
    <3>3. pushed[j] \in Seq(Nat) /\ u \in Nat
      BY DEF TypeOK, Times
    <3>4. pushed[j][m] <= pushed[j][Len(pushed[j])] /\ pushed[j][Len(pushed[j])] \in Nat
          /\ pushed[j][m] \in Nat
      <4>1. Len(pushed[j]) \in 1 .. Len(pushed[j]) /\ m <= Len(pushed[j])
        BY <3>1, <3>2
      <4>2. pushed[j][m] \in Nat /\ pushed[j][Len(pushed[j])] \in Nat
        BY <4>1, <3>1, <3>3, ElementOfSeq
      <4>3. m < Len(pushed[j]) => pushed[j][m] < pushed[j][Len(pushed[j])]
        BY <4>1, <3>1 DEF JoinInv, Sorted
      <4>4. QED
        BY <4>1, <4>2, <4>3, <3>1
    <3>5. \A i \in 1 .. Len(pushed'[j]) : pushed'[j][i] # t
      <4> SUFFICES ASSUME NEW i \in 1 .. Len(pushed'[j]) PROVE pushed'[j][i] # t
        OBVIOUS
      <4>1. CASE i > Len(pushed[j])
        BY <4>1, <3>1, <3>2, <3>3, <3>4
      <4>2. CASE i <= Len(pushed[j])
        BY <4>2, <3>2 DEF Never, Has
      <4>3. QED
        BY <4>1, <4>2, <3>2
    <3>6. m \in 1 .. Len(pushed'[j]) /\ pushed'[j][m] > t
      BY <3>1, <3>2
    <3>7. QED
      BY <3>5, <3>6 DEF Never, Has
  <2>3. QED
    BY <2>1, <2>2 DEF Next, Merge, Feed, Begin, Start, Match, LeaveLoop, EraseRead, EraseInconsistent,
       Lock, SkipEarlier, SkipBehind, StopThreads, Terminated, rings, vars
<1>2. Joined(t) => Joined(t)'
  <2>1. CASE UNCHANGED joined
    BY <2>1 DEF Joined
  <2>2. CASE Match
    <3>1. joined \in Seq(Nat) /\ joined' = Append(joined, ItTime(1))
      BY <2>2 DEF Match, TypeOK
    <3>2. /\ Len(joined) \in Nat /\ Len(joined') = Len(joined) + 1
          /\ \A i \in 1 .. Len(joined) : joined'[i] = joined[i]
      BY <3>1
    <3>3. QED
      BY <3>2 DEF Joined
  <2>3. QED
    BY <2>1, <2>2 DEF Next, Merge, Feed, Begin, Start, LeaveLoop, EraseRead, EraseInconsistent,
       Lock, SkipEarlier, SkipBehind, StopThreads, Terminated, Push, vars
<1>3. discarded \subseteq discarded'
  BY DEF Next, Merge, Feed, Begin, Start, Match, LeaveLoop, EraseRead, EraseInconsistent,
     Lock, SkipEarlier, SkipBehind, StopThreads, Terminated, Push, vars
<1>4. QED
  BY <1>1, <1>2, <1>3 DEF Settled

(* An element that is earlier than where another iterator stands is settled. *)
LEMMA EarlierIsSettled ==
  ASSUME TypeOK, JoinInv, Inside, NEW a \in Streams, NEW b \in Streams, ItTime(a) < ItTime(b)
  PROVE  ItTime(a) \in Settled
<1>1. /\ it[b] \in 1 .. Len(pushed[b]) /\ ItTime(b) = pushed[b][it[b]]
      /\ ItTime(a) \in Nat /\ ItTime(b) \in Nat
  BY IteratorInside
<1>2. pushed[b] \in Seq(Nat) /\ Len(pushed[b]) \in Nat
  BY DEF TypeOK
<1>3. CASE Has(b, ItTime(a))
  <2>1. PICK i \in 1 .. Len(pushed[b]) : pushed[b][i] = ItTime(a)
    BY <1>3 DEF Has
  <2>2. i < it[b]
    <3>1. \A m, n \in 1 .. Len(pushed[b]) : m < n => pushed[b][m] < pushed[b][n]
      BY DEF JoinInv, Sorted
    <3>2. pushed[b][i] < pushed[b][it[b]]
      BY <1>1, <2>1
    <3>3. ~(it[b] < i) /\ it[b] # i
      BY <1>1, <2>1, <3>1, <3>2
    <3>4. QED
      BY <1>1, <1>2, <2>1, <3>3
  <2>3. QED
    BY <2>1, <2>2, <1>1, <1>2 DEF JoinInv, PassedInv, Inside, Walking
<1>4. CASE ~Has(b, ItTime(a))
  BY <1>4, <1>1 DEF Settled, Never
<1>5. QED
  BY <1>3, <1>4

(* Every step keeps the types. *)
LEMMA TypeStep == TypeOK /\ JoinInv /\ [Next]_vars => TypeOK'
<1> SUFFICES ASSUME TypeOK, JoinInv, [Next]_vars PROVE TypeOK'
  OBVIOUS
<1> USE DEF TypeOK, rings, merge
<1>1. CASE UNCHANGED vars \/ StopThreads \/ Begin \/ LeaveLoop \/ Terminated
  BY <1>1 DEF vars, StopThreads, Begin, LeaveLoop, Terminated
<1>9. CASE Start
  <2>1. it' \in [Streams -> Nat]
    BY <1>9 DEF Start
  <2>2. QED
    BY <1>9, <2>1 DEF Start
<1>2. ASSUME NEW k \in Streams, NEW t \in Times, Push(k, t) PROVE TypeOK'
  <2>1. t \in Nat /\ pushed[k] \in Seq(Nat)
    BY DEF Times
  <2>2. pushed' \in [Streams -> Seq(Nat)]
    BY <1>2, <2>1 DEF Push
  <2>3. \A j \in Streams : Len(pushed[j]) <= Len(pushed'[j])
    BY <1>2, PushedGrows
  <2>4. \A j \in Streams : published[j] <= Len(pushed'[j])
    BY <2>2, <2>3
  <2>5. QED
    BY <1>2, <2>2, <2>4 DEF Push
<1>3. ASSUME NEW k \in Streams, Lock(k) PROVE TypeOK'
  <2>1. \A j \in Streams : Len(pushed[j]) \in Nat
    OBVIOUS
  <2>2. QED
    BY <1>3, <2>1 DEF Lock
<1>4. ASSUME NEW k \in Streams, SkipEarlier(k) \/ SkipBehind(k) PROVE TypeOK'
  <2>1. \A S : Move(S) => it' \in [Streams -> Nat]
    <3> SUFFICES ASSUME NEW S, Move(S) PROVE it' \in [Streams -> Nat]
      OBVIOUS
    <3>1. it \in [Streams -> Nat]
      OBVIOUS
    <3>2. \A j \in Streams : (IF j \in S THEN it[j] + 1 ELSE it[j]) \in Nat
      BY <3>1
    <3>3. QED
      BY <3>2 DEF Move
  <2>2. Move(LeftBehind(k)) \/ Move({k})
    BY <1>4 DEF SkipEarlier, SkipBehind
  <2>3. it' \in [Streams -> Nat]
    BY <2>1, <2>2
  <2>4. QED
    BY <1>4, <2>3 DEF SkipEarlier, SkipBehind
<1>5. CASE Match
  <2>1. 1 \in Streams
    BY DEF Streams
  <2>2. ItTime(1) \in Nat
    BY <1>5, <2>1, IteratorInside DEF Match
  <2>3. joined' \in Seq(Nat)
    BY <1>5, <2>2 DEF Match
  <2>4. QED
    BY <1>5, <2>3 DEF Match, Move
<1>6. CASE EraseRead
  <2>1. \A k \in Streams : it[k] - 1 \in Nat /\ it[k] - 1 <= published[k]
    BY <1>6 DEF EraseRead, JoinInv, PassedInv, Walking
  <2>2. QED
    BY <1>6, <2>1 DEF EraseRead, ErasedTo
<1>7. CASE EraseInconsistent
  <2>1. \A k \in Streams : Unread(k) \subseteq Nat
    <3> SUFFICES ASSUME NEW k \in Streams, NEW i \in erased[k] + 1 .. published[k]
                 PROVE  pushed[k][i] \in Nat
      BY DEF Unread
    <3>1. i \in 1 .. Len(pushed[k]) /\ pushed[k] \in Seq(Nat)
      OBVIOUS
    <3>2. QED
      BY <3>1, ElementOfSeq
  <2>2. discarded' \subseteq Nat
    BY <1>7, <2>1 DEF EraseInconsistent, Inconsistent
  <2>3. QED
    BY <1>7, <2>2 DEF EraseInconsistent
<1>8. QED
  BY <1>1, <1>2, <1>3, <1>4, <1>5, <1>6, <1>7, <1>9 DEF Next, Merge, Feed

(* Every ring stays in the order of time. *)
LEMMA SortedStep == TypeOK /\ JoinInv /\ [Next]_vars => Sorted'
<1> SUFFICES ASSUME TypeOK, JoinInv, [Next]_vars PROVE Sorted'
  OBVIOUS
<1>1. CASE UNCHANGED pushed
  BY <1>1 DEF JoinInv, Sorted
<1>2. ASSUME NEW k \in Streams, NEW t \in Times, Push(k, t) PROVE Sorted'
  <2> SUFFICES ASSUME NEW j \in Streams, NEW a \in 1 .. Len(pushed'[j]),
                      NEW b \in 1 .. Len(pushed'[j]), a < b
               PROVE  pushed'[j][a] < pushed'[j][b]
    BY DEF Sorted
  <2>1. /\ Len(pushed[j]) \in Nat /\ Len(pushed'[j]) \in Len(pushed[j]) .. Len(pushed[j]) + 1
        /\ \A i \in 1 .. Len(pushed[j]) : pushed'[j][i] = pushed[j][i]
        /\ \A i \in 1 .. Len(pushed'[j]) :
             i > Len(pushed[j]) => /\ j = k /\ pushed'[j][i] = t
                                   /\ Len(pushed[k]) > 0 => pushed[k][Len(pushed[k])] < t
    BY <1>2, PushedGrows
  <2>2. pushed[j] \in Seq(Nat) /\ t \in Nat
    BY DEF TypeOK, Times
  <2>3. a \in 1 .. Len(pushed[j]) /\ pushed[j][a] \in Nat
    BY <2>1, <2>2, ElementOfSeq
  <2>4. \A m, n \in 1 .. Len(pushed[j]) : m < n => pushed[j][m] < pushed[j][n]
    BY DEF JoinInv, Sorted
  <2>5. CASE b <= Len(pushed[j])
    BY <2>1, <2>3, <2>4, <2>5
  <2>6. CASE b > Len(pushed[j])
    <3>1. Len(pushed[j]) \in 1 .. Len(pushed[j]) /\ pushed[j][Len(pushed[j])] \in Nat
      BY <2>1, <2>2, <2>3, ElementOfSeq
    <3>2. pushed[j][a] <= pushed[j][Len(pushed[j])]
      <4>1. CASE a = Len(pushed[j])
        BY <2>3, <4>1
      <4>2. CASE a < Len(pushed[j])
        BY <2>3, <2>4, <3>1, <4>2
      <4>3. QED
        BY <2>1, <2>3, <4>1, <4>2
    <3>3. pushed'[j][b] = t /\ pushed[j][Len(pushed[j])] < t
      BY <2>1, <2>6, <3>1
    <3>4. pushed'[j][a] = pushed[j][a]
      BY <2>1, <2>3
    <3>5. QED
      BY <2>2, <2>3, <3>1, <3>2, <3>3, <3>4
  <2>7. Len(pushed[j]) \in Nat /\ b \in Nat
    BY <2>1
  <2>8. QED
    BY <2>5, <2>6, <2>7
<1>3. QED
  BY <1>1, <1>2 DEF Next, Merge, Feed, Begin, Start, Match, LeaveLoop, EraseRead, EraseInconsistent,
     Lock, SkipEarlier, SkipBehind, StopThreads, Terminated, rings, vars

(* Where an iterator stands, in a type fit for arithmetic. *)
LEMMA Ranges ==
  ASSUME TypeOK, NEW k \in Streams
  PROVE  /\ it[k] \in Nat /\ published[k] \in Nat /\ erased[k] \in Nat /\ Len(pushed[k]) \in Nat
         /\ erased[k] <= published[k] /\ published[k] <= Len(pushed[k])
         /\ \A i \in 1 .. Len(pushed[k]) : pushed[k][i] \in Nat
BY ElementOfSeq DEF TypeOK

(* A turn of the loop that moves some iterators, all off settled elements. *)
LEMMA MoveSettles ==
  ASSUME TypeOK, JoinInv, Inside, NEW S, Move(S), UNCHANGED <<rings, step>>,
         Settled \subseteq Settled', \A k \in S \cap Streams : ItTime(k) \in Settled'
  PROVE  PassedInv'
<1>1. /\ pushed' = pushed /\ published' = published /\ erased' = erased
      /\ step = "joining" /\ step' = "joining" /\ Walking
  BY DEF rings, Inside, Walking
<1>2. ASSUME NEW k \in Streams
      PROVE  /\ \A i \in 1 .. erased'[k] : pushed'[k][i] \in Settled'
             /\ erased'[k] < it'[k] /\ it'[k] <= published'[k] + 1
             /\ \A i \in 1 .. it'[k] - 1 : pushed'[k][i] \in Settled'
  <2>1. it'[k] = IF k \in S THEN it[k] + 1 ELSE it[k]
    BY DEF Move
  <2>2. /\ \A i \in 1 .. erased[k] : pushed[k][i] \in Settled
        /\ erased[k] < it[k] /\ it[k] <= published[k]
        /\ \A i \in 1 .. it[k] - 1 : pushed[k][i] \in Settled
    BY <1>1, IteratorInside DEF JoinInv, PassedInv
  <2>3. k \in S => pushed[k][it[k]] \in Settled'
    BY DEF ItTime
  <2>4. QED
    BY <1>1, <2>1, <2>2, <2>3, Ranges
<1>3. QED
  BY <1>1, <1>2 DEF PassedInv

(* What is erased or passed is settled, after every step. *)
LEMMA PassedStep == TypeOK /\ JoinInv /\ [Next]_vars => PassedInv'
<1> SUFFICES ASSUME TypeOK, JoinInv, [Next]_vars PROVE PassedInv'
  OBVIOUS
<1>1. Settled \subseteq Settled'
  BY SettledStays
<1>2. PassedInv
  BY DEF JoinInv
<1>3. 1 \in Streams
  BY DEF Streams
<1>4. CASE UNCHANGED <<rings, step, it>> /\ (isStopThreads => isStopThreads')
  BY <1>1, <1>2, <1>4 DEF rings, PassedInv, Walking, AtEnd
<1>5. ASSUME NEW k \in Streams, NEW t \in Times, Push(k, t) PROVE PassedInv'
  <2>1. /\ published' = published /\ erased' = erased /\ it' = it /\ step' = step
        /\ isStopThreads' = isStopThreads
    BY <1>5 DEF Push, merge
  <2>2. ASSUME NEW j \in Streams, NEW i \in 1 .. Len(pushed[j]), pushed[j][i] \in Settled
        PROVE  pushed'[j][i] \in Settled'
    BY <1>1, <1>5, <2>2, PushedGrows
  <2>3. \A j \in Streams : \A i \in 1 .. erased[j] : pushed'[j][i] \in Settled'
    BY <1>2, <2>2, Ranges DEF PassedInv
  <2>4. Walking => \A j \in Streams : \A i \in 1 .. it[j] - 1 : pushed'[j][i] \in Settled'
    <3> SUFFICES ASSUME Walking, NEW j \in Streams, NEW i \in 1 .. it[j] - 1
                 PROVE  pushed'[j][i] \in Settled'
      OBVIOUS
    <3>1. it[j] <= published[j] + 1 /\ pushed[j][i] \in Settled
      BY <1>2 DEF PassedInv
    <3>2. i \in 1 .. Len(pushed[j])
      BY <3>1, Ranges
    <3>3. QED
      BY <2>2, <3>1, <3>2
  <2>5. QED
    BY <1>2, <2>1, <2>3, <2>4 DEF PassedInv, Walking, AtEnd
<1>6. ASSUME NEW k \in Streams, Lock(k) PROVE PassedInv'
  <2>1. step' = step /\ step = "locking" /\ erased' = erased /\ pushed' = pushed
    BY <1>6 DEF Lock
  <2>2. QED
    BY <1>1, <1>2, <2>1 DEF PassedInv, Walking
<1>7. CASE Begin
  BY <1>1, <1>2, <1>7 DEF Begin, rings, PassedInv, Walking
<1>8. CASE Start
  <2>1. /\ pushed' = pushed /\ published' = published /\ erased' = erased
        /\ step' = "joining" /\ it' = [k \in Streams |-> erased[k] + 1]
    BY <1>8 DEF Start, rings
  <2>2. ASSUME NEW k \in Streams
        PROVE  /\ erased[k] < it'[k] /\ it'[k] <= published[k] + 1
               /\ \A i \in 1 .. it'[k] - 1 : i \in 1 .. erased[k]
    BY <2>1, Ranges
  <2>3. QED
    BY <1>1, <1>2, <2>1, <2>2 DEF PassedInv
<1>9. ASSUME NEW k \in Streams, SkipEarlier(k) PROVE PassedInv'
  <2>1. Inside /\ Move(1 .. k - 1) /\ UNCHANGED <<rings, step>>
    BY <1>9 DEF SkipEarlier, LeftBehind
  <2>2. ItTime(1) \in Settled
    BY <1>3, <1>9, EarlierIsSettled DEF SkipEarlier
  <2>3. \A j \in 1 .. k - 1 : ItTime(j) = ItTime(1)
    BY <1>9 DEF SkipEarlier, DiffersFirst
  <2>4. QED
    BY <1>1, <2>1, <2>2, <2>3, MoveSettles
<1>10. ASSUME NEW k \in Streams, SkipBehind(k) PROVE PassedInv'
  <2>1. Inside /\ Move({k}) /\ UNCHANGED <<rings, step>> /\ ItTime(k) < ItTime(1)
    BY <1>3, <1>10, IteratorInside DEF SkipBehind
  <2>2. ItTime(k) \in Settled
    BY <1>3, <2>1, EarlierIsSettled
  <2>3. QED
    BY <1>1, <2>1, <2>2, MoveSettles
<1>11. CASE Match
  <2>1. Inside /\ Move(Streams) /\ UNCHANGED <<rings, step>>
    BY <1>11 DEF Match
  <2>2. joined \in Seq(Nat) /\ ItTime(1) \in Nat /\ joined' = Append(joined, ItTime(1))
    BY <1>3, <1>11, IteratorInside DEF Match, TypeOK
  <2>3. Len(joined) + 1 \in 1 .. Len(joined') /\ joined'[Len(joined) + 1] = ItTime(1)
    BY <2>2
  <2>4. ItTime(1) \in Settled'
    BY <2>2, <2>3 DEF Settled, Joined
  <2>5. \A j \in Streams : ItTime(j) \in Settled'
    BY <1>11, <2>4 DEF Match, AllAgree
  <2>6. QED
    BY <1>1, <2>1, <2>5, MoveSettles
<1>12. CASE LeaveLoop
  <2>1. UNCHANGED rings /\ step = "joining" /\ step' = "erasing" /\ it' = it /\ AtEnd' = AtEnd
        /\ (AtEnd \/ isStopThreads) /\ isStopThreads' = isStopThreads
    BY <1>12 DEF LeaveLoop, AtEnd, rings
  <2>2. QED
    BY <1>1, <1>2, <2>1 DEF PassedInv, Walking, rings
<1>13. CASE EraseRead
  <2>1. /\ pushed' = pushed /\ step = "erasing" /\ step' = "idle"
        /\ erased' = [k \in Streams |-> it[k] - 1]
    BY <1>13 DEF EraseRead, ErasedTo
  <2>2. QED
    BY <1>1, <1>2, <2>1 DEF PassedInv, Walking
<1>14. CASE EraseInconsistent
  <2>1. /\ pushed' = pushed /\ step' = "idle"
        /\ erased' = [k \in Streams |-> IF k \in Inconsistent THEN published[k] ELSE erased[k]]
        /\ discarded' = discarded \union UNION {Unread(k) : k \in Inconsistent}
    BY <1>14 DEF EraseInconsistent
  <2>2. ASSUME NEW k \in Streams, NEW i \in 1 .. erased'[k] PROVE pushed[k][i] \in Settled'
    <3>1. CASE i <= erased[k]
      BY <1>1, <1>2, <3>1, Ranges DEF PassedInv
    <3>2. CASE i > erased[k]
      <4>1. k \in Inconsistent /\ i \in erased[k] + 1 .. published[k]
        BY <2>1, <3>2, Ranges
      <4>2. pushed[k][i] \in discarded' /\ pushed[k][i] \in Nat
        BY <2>1, <4>1, Ranges DEF Unread
      <4>3. QED
        BY <4>2 DEF Settled
    <3>3. QED
      BY <2>1, <3>1, <3>2, Ranges
  <2>3. QED
    BY <2>1, <2>2 DEF PassedInv, Walking
<1>15. QED
  BY <1>4, <1>5, <1>6, <1>7, <1>8, <1>9, <1>10, <1>11, <1>12, <1>13, <1>14
     DEF Next, Merge, Feed, StopThreads, Terminated, merge, vars

(* What is joined is earlier than all that is left, after every step. *)
LEMMA AheadStep == TypeOK /\ JoinInv /\ [Next]_vars => AheadInv'
<1> SUFFICES ASSUME TypeOK, JoinInv, [Next]_vars PROVE AheadInv'
  OBVIOUS
<1>1. AheadInv /\ Sorted /\ PassedInv /\ JoinsInOrder
  BY DEF JoinInv
<1>2. joined \in Seq(Nat) /\ Len(joined) \in Nat
  BY DEF TypeOK
<1>3. ASSUME pushed' = pushed, joined' = joined, \A k \in Streams : Done(k)' >= Done(k)
      PROVE  AheadInv'
  <2> SUFFICES ASSUME NEW k \in Streams, NEW i \in Done(k)' + 1 .. Len(pushed[k]),
                      NEW n \in 1 .. Len(joined)
               PROVE  joined[n] < pushed[k][i]
    BY <1>3 DEF AheadInv
  <2>1. Done(k) \in Int /\ Done(k)' \in Int
    <3>1. erased[k] \in Int /\ it[k] \in Int
      BY Ranges
    <3>2. TypeOK'
      BY TypeStep
    <3>3. erased'[k] \in Int /\ it'[k] \in Int
      BY <3>2 DEF TypeOK
    <3>4. QED
      BY <3>1, <3>3 DEF Done
  <2>2. i \in Done(k) + 1 .. Len(pushed[k])
    BY <1>3, <2>1, Ranges
  <2>3. QED
    BY <1>1, <2>2 DEF AheadInv
<1>4. CASE UNCHANGED <<rings, step, it, isReadyForDelete, joined>>
  BY <1>3, <1>4, Ranges DEF rings, Done, Walking
<1>5. ASSUME NEW k \in Streams, NEW t \in Times, Push(k, t) PROVE AheadInv'
  <2> SUFFICES ASSUME NEW j \in Streams, NEW i \in Done(j)' + 1 .. Len(pushed'[j]),
                      NEW n \in 1 .. Len(joined')
               PROVE  joined'[n] < pushed'[j][i]
    BY DEF AheadInv
  <2>1. joined' = joined /\ Done(j)' = Done(j) /\ Done(j) \in Nat
    BY <1>1, <1>5, Ranges DEF Push, merge, Done, Walking, PassedInv
  <2>2. /\ Len(pushed'[j]) \in Len(pushed[j]) .. Len(pushed[j]) + 1
        /\ \A a \in 1 .. Len(pushed[j]) : pushed'[j][a] = pushed[j][a]
        /\ \A a \in 1 .. Len(pushed'[j]) :
             a > Len(pushed[j]) => /\ j = k /\ pushed'[j][a] = t
                                   /\ Len(pushed[k]) > 0 => pushed[k][Len(pushed[k])] < t
    BY <1>5, PushedGrows
  <2>3. CASE i <= Len(pushed[j])
    BY <1>1, <2>1, <2>2, <2>3, Ranges DEF AheadInv
  <2>4. CASE i > Len(pushed[j])
    <3>1. PICK m \in 1 .. Len(pushed[j]) : pushed[j][m] = joined[n]
      BY <1>1, <2>1 DEF JoinsInOrder, Has
    <3>2. Len(pushed[j]) \in 1 .. Len(pushed[j]) /\ t \in Nat
      BY <3>1, Ranges DEF Times
    <3>3. pushed[j][m] \in Nat /\ pushed[j][Len(pushed[j])] \in Nat
      BY <3>1, <3>2, Ranges
    <3>4. m < Len(pushed[j]) => pushed[j][m] < pushed[j][Len(pushed[j])]
      BY <1>1, <3>1, <3>2 DEF Sorted
    <3>5. pushed[j][m] <= pushed[j][Len(pushed[j])]
      BY <3>1, <3>2, <3>3, <3>4
    <3>6. pushed'[j][i] = t /\ pushed[j][Len(pushed[j])] < t
      <4>1. i \in 1 .. Len(pushed'[j])
        BY <2>1
      <4>2. QED
        BY <2>2, <2>4, <3>2, <4>1
    <3>7. QED
      BY <2>1, <3>1, <3>2, <3>3, <3>5, <3>6
  <2>5. QED
    BY <2>1, <2>2, <2>3, <2>4, Ranges
<1>6. CASE Begin \/ \E k \in Streams : Lock(k)
  BY <1>3, <1>6, Ranges DEF Begin, Lock, rings, Done, Walking
<1>7. CASE Start
  BY <1>3, <1>7, Ranges DEF Start, rings, Done, Walking
<1>8. ASSUME NEW k \in Streams, SkipEarlier(k) \/ SkipBehind(k) PROVE AheadInv'
  <2>1. /\ pushed' = pushed /\ erased' = erased /\ joined' = joined /\ step' = step
        /\ isReadyForDelete' = isReadyForDelete
        /\ \A j \in Streams : it'[j] \in {it[j], it[j] + 1}
    BY <1>8 DEF SkipEarlier, SkipBehind, rings, Move
  <2>2. QED
    BY <1>3, <2>1, Ranges DEF Done, Walking
<1>9. CASE Match
  <2> SUFFICES ASSUME NEW k \in Streams, NEW i \in Done(k)' + 1 .. Len(pushed[k]),
                      NEW n \in 1 .. Len(joined')
               PROVE  joined'[n] < pushed[k][i]
    BY <1>9 DEF AheadInv, Match, rings
  <2>1. Inside /\ 1 \in Streams /\ step' = "joining" /\ Walking
    BY <1>9 DEF Match, Streams, Inside, Walking
  <2>2. /\ it[k] \in 1 .. Len(pushed[k]) /\ pushed[k][it[k]] = ItTime(1) /\ ItTime(1) \in Nat
    BY <1>9, <2>1, IteratorInside DEF Match, AllAgree
  <2>3. Done(k)' = it[k] /\ Done(k) < it[k] /\ Done(k) \in Nat
    BY <1>1, <1>9, <2>1, <2>2, Ranges DEF Match, Move, Done, Walking, PassedInv
  <2>4. i \in 1 .. Len(pushed[k]) /\ it[k] < i /\ i \in Done(k) + 1 .. Len(pushed[k])
    BY <2>2, <2>3, Ranges
  <2>5. CASE n \in 1 .. Len(joined)
    <3>1. joined'[n] = joined[n]
      BY <1>2, <1>9, <2>2, <2>5 DEF Match
    <3>2. QED
      BY <1>1, <2>4, <2>5, <3>1 DEF AheadInv
  <2>6. CASE n = Len(joined) + 1
    <3>1. joined'[n] = ItTime(1)
      BY <1>2, <1>9, <2>2, <2>6 DEF Match
    <3>2. QED
      BY <1>1, <2>2, <2>4, <3>1 DEF Sorted
  <2>7. Len(joined') = Len(joined) + 1
    BY <1>2, <1>9, <2>2 DEF Match
  <2>8. QED
    BY <1>2, <2>5, <2>6, <2>7
<1>10. CASE LeaveLoop
  BY <1>3, <1>10, Ranges DEF LeaveLoop, rings, Done, Walking
<1>11. CASE EraseRead
  BY <1>3, <1>11, Ranges DEF EraseRead, ErasedTo, Done, Walking
<1>12. CASE EraseInconsistent
  BY <1>3, <1>12, Ranges DEF EraseInconsistent, Done, Walking
<1>13. QED
  BY <1>4, <1>5, <1>6, <1>7, <1>8, <1>9, <1>10, <1>11, <1>12
     DEF Next, Merge, Feed, StopThreads, Terminated, merge, vars

(* Each common time stamp once, in order, after every step. *)
LEMMA OrderStep == TypeOK /\ JoinInv /\ [Next]_vars => JoinsInOrder'
<1> SUFFICES ASSUME TypeOK, JoinInv, [Next]_vars PROVE JoinsInOrder'
  OBVIOUS
<1>1. AheadInv /\ JoinsInOrder /\ PassedInv
  BY DEF JoinInv
<1>2. joined \in Seq(Nat) /\ Len(joined) \in Nat
  BY DEF TypeOK
<1>3. CASE UNCHANGED <<pushed, joined>>
  BY <1>1, <1>3 DEF JoinsInOrder, Has
<1>4. ASSUME NEW k \in Streams, NEW t \in Times, Push(k, t) PROVE JoinsInOrder'
  <2>1. joined' = joined
    BY <1>4 DEF Push
  <2>2. ASSUME NEW j \in Streams, NEW u, Has(j, u) PROVE \E i \in 1 .. Len(pushed'[j]) : pushed'[j][i] = u
    <3>1. PICK i \in 1 .. Len(pushed[j]) : pushed[j][i] = u
      BY <2>2 DEF Has
    <3>2. i \in 1 .. Len(pushed'[j]) /\ pushed'[j][i] = u
      BY <1>4, <3>1, PushedGrows
    <3>3. QED
      BY <3>2
  <2>3. \A i \in 1 .. Len(joined) : \A j \in Streams :
            \E m \in 1 .. Len(pushed'[j]) : pushed'[j][m] = joined[i]
    BY <1>1, <2>2 DEF JoinsInOrder
  <2>4. QED
    BY <1>1, <2>1, <2>3 DEF JoinsInOrder, Has
<1>5. CASE Match
  <2>1. Inside /\ 1 \in Streams /\ Walking
    BY <1>5 DEF Match, Streams, Inside, Walking
  <2>2. \A k \in Streams : it[k] \in 1 .. Len(pushed[k]) /\ pushed[k][it[k]] = ItTime(1)
    BY <1>5, <2>1, IteratorInside DEF Match, AllAgree
  <2>3. ItTime(1) \in Nat /\ pushed' = pushed /\ joined' = Append(joined, ItTime(1))
    BY <1>5, <2>1, IteratorInside DEF Match, rings
  <2>4. /\ Len(joined') = Len(joined) + 1 /\ joined'[Len(joined) + 1] = ItTime(1)
        /\ \A i \in 1 .. Len(joined) : joined'[i] = joined[i]
    BY <1>2, <2>3
  <2>5. \A n \in 1 .. Len(joined) : joined[n] < ItTime(1)
    <3>1. Done(1) < it[1] /\ Done(1) \in Nat
      BY <1>1, <2>1, <2>2, Ranges DEF Done, PassedInv
    <3>2. it[1] \in Done(1) + 1 .. Len(pushed[1])
      BY <2>1, <2>2, <3>1, Ranges
    <3>3. QED
      BY <1>1, <2>1, <2>2, <3>2 DEF AheadInv
  <2>6. \A k \in Streams : Has(k, ItTime(1))
    BY <2>2 DEF Has
  <2>7. \A i \in 1 .. Len(joined') : \A k \in Streams : \E m \in 1 .. Len(pushed[k]) : pushed[k][m] = joined'[i]
    <3> SUFFICES ASSUME NEW i \in 1 .. Len(joined'), NEW k \in Streams PROVE Has(k, joined'[i])
      BY DEF Has
    <3>1. CASE i \in 1 .. Len(joined)
      BY <1>1, <2>4, <3>1 DEF JoinsInOrder
    <3>2. CASE i = Len(joined) + 1
      BY <2>4, <2>6, <3>2
    <3>3. QED
      BY <1>2, <2>4, <3>1, <3>2
  <2>8. \A i, j \in 1 .. Len(joined') : i < j => joined'[i] < joined'[j]
    BY <1>1, <1>2, <2>4, <2>5 DEF JoinsInOrder
  <2>9. QED
    BY <2>3, <2>7, <2>8 DEF JoinsInOrder, Has
<1>6. QED
  BY <1>3, <1>4, <1>5 DEF Next, Merge, Feed, Begin, Start, LeaveLoop, EraseRead, EraseInconsistent,
     Lock, SkipEarlier, SkipBehind, StopThreads, Terminated, rings, vars

(* Types and join hold together after every step. *)
LEMMA Inductive == TypeOK /\ JoinInv /\ [Next]_vars => (TypeOK /\ JoinInv)'
BY TypeStep, SortedStep, PassedStep, AheadStep, OrderStep DEF JoinInv

(* Counters never pass one another, and so no iterator leaves its ring. *)
THEOREM TypeCorrect == Spec => []TypeOK
<1>1. Init => TypeOK /\ JoinInv
  BY InitJoin
<1>2. TypeOK /\ JoinInv /\ [Next]_vars => (TypeOK /\ JoinInv)'
  BY Inductive
<1>3. QED
  BY <1>1, <1>2, PTL DEF Spec

(* What iterators have passed is settled and what they have not is later than
   what is joined, whatever is pushed between two steps of the merging thread. *)
THEOREM JoinInvariant == Spec => []JoinInv
<1>1. Init => TypeOK /\ JoinInv
  BY InitJoin
<1>2. TypeOK /\ JoinInv /\ [Next]_vars => (TypeOK /\ JoinInv)'
  BY Inductive
<1>3. QED
  BY <1>1, <1>2, PTL DEF Spec

(* mergeData gives only common time stamps, each once, in the order of time. *)
THEOREM OrderOfJoined == Spec => []JoinsInOrder
<1>1. JoinInv => JoinsInOrder
  BY DEF JoinInv
<1>2. QED
  BY <1>1, JoinInvariant, PTL

(* mergeData erases no time stamp that is in every ring without joining it,
   the 60 % rule excepted. *)
THEOREM NothingLost == Spec => []NoMatchLost
<1>1. TypeOK /\ JoinInv => NoMatchLost
  <2> SUFFICES ASSUME TypeOK, JoinInv, NEW k \in Streams, NEW i \in 1 .. Len(pushed[k]), i <= erased[k]
               PROVE  \/ Joined(pushed[k][i]) \/ pushed[k][i] \in discarded
                      \/ \E j \in Streams : ~Has(j, pushed[k][i])
    BY Ranges DEF NoMatchLost
  <2>1. pushed[k][i] \in Settled
    BY Ranges DEF JoinInv, PassedInv
  <2>2. QED
    BY <2>1 DEF Settled, Never
<1>2. QED
  BY <1>1, TypeCorrect, JoinInvariant, PTL

(* A call of mergeData joins all the matches it can see. *)
THEOREM NothingLeft == Spec => []NoMatchLeft
<1>1. TypeOK /\ JoinInv => NoMatchLeft
  <2> SUFFICES ASSUME TypeOK, JoinInv, step = "erasing", ~isStopThreads, NEW i \in 1 .. published[1],
                      \A j \in Streams : HasPublished(j, pushed[1][i])
               PROVE  Joined(pushed[1][i]) \/ pushed[1][i] \in discarded
    BY DEF NoMatchLeft
  <2>1. PICK k \in Streams : it[k] > published[k]
    BY DEF JoinInv, PassedInv, AtEnd
  <2>2. PICK m \in 1 .. published[k] : pushed[k][m] = pushed[1][i]
    BY DEF HasPublished
  <2>3. pushed[1][i] \in Settled
    BY <2>1, <2>2, Ranges DEF JoinInv, PassedInv, Walking
  <2>4. ASSUME NEW j \in Streams PROVE Has(j, pushed[1][i])
    <3>1. PICK n \in 1 .. published[j] : pushed[j][n] = pushed[1][i]
      BY DEF HasPublished
    <3>2. n \in 1 .. Len(pushed[j])
      BY Ranges
    <3>3. QED
      BY <3>1, <3>2 DEF Has
  <2>5. QED
    BY <2>3, <2>4 DEF Settled, Never
<1>2. QED
  BY <1>1, TypeCorrect, JoinInvariant, PTL
=============================================================================
