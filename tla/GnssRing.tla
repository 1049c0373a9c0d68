------------------------------ MODULE GnssRing ------------------------------
(***************************************************************************)
(* The ring that carries measurements from one thread to another:          *)
(* GnssDataMeasurements2 (src/src/common/GnssDataMeasurements2.hpp).       *)
(* Pushing threads append under mutexPushData_.  One reader at a time      *)
(* takes mutexReadData_ with lock(), which also publishes what was pushed  *)
(* since the last lock(), walks the read part with iterators, erases what  *)
(* it has used and unlocks.  Pushes go on while the reader walks.          *)
(*                                                                         *)
(* An element is its serial number: the n-th push writes n.  A slot never  *)
(* written holds 0 (the pages come zeroed from mmap).  A position p stands *)
(* for the pointer buffer_ + p; bufferEnd_ is position Capacity.           *)
(***************************************************************************)
EXTENDS Integers, Sequences

CONSTANTS
    Capacity,   \* sizeOfRing_: one less than the slots allocated
    MaxPushes   \* bound on the pushes of a behaviour

ASSUME CapacityAssumption == Capacity \in Nat \ {0}
ASSUME MaxPushesAssumption == MaxPushes \in Nat

VARIABLES
    slots,                  \* *buffer_
    beginWrite, endWrite,   \* beginWrite_, endWrite_
    beginRead, endRead,     \* beginRead_, endRead_
    pushedElements,         \* pushedElements_
    sizeOfReadBuffer,       \* sizeOfReadBuffer_
    reader,                 \* "idle", "reading" or "erased": the last two hold mutexReadData_
    it, seen,               \* the reader's iterator and what it has read since lock()
    program,                \* "running", "exited" or "destroyed" (the ring is)
    total                   \* pushes so far

writePart == <<beginWrite, endWrite, pushedElements>>
readPart == <<beginRead, endRead, sizeOfReadBuffer>>
vars == <<slots, writePart, readPart, reader, it, seen, program, total>>

Positions == 0 .. Capacity

Init ==
    /\ slots = [p \in Positions |-> 0]
    /\ beginWrite = 0 /\ endWrite = 0 /\ beginRead = 0 /\ endRead = 0
    /\ pushedElements = 0 /\ sizeOfReadBuffer = 0
    /\ reader = "idle" /\ it = 0 /\ seen = <<>>
    /\ program = "running" /\ total = 0

-----------------------------------------------------------------------------
Exit ==
    /\ program' = "exited"
    /\ UNCHANGED <<slots, writePart, readPart, reader, it, seen, total>>

(* The guard that is meant to stop the program before the ring overflows. *)
RingIsFull_OneLate == pushedElements = Capacity + 1
RingIsFull == pushedElements = Capacity

NextWrite == IF endWrite >= Capacity THEN 0 ELSE endWrite

PushBack ==
    /\ program = "running" /\ total < MaxPushes
    /\ ~RingIsFull
    /\ slots' = [slots EXCEPT ![NextWrite] = total + 1]
    /\ endWrite' = NextWrite + 1
    /\ pushedElements' = pushedElements + 1
    /\ total' = total + 1
    /\ UNCHANGED <<beginWrite, readPart, reader, it, seen, program>>

PushExits == program = "running" /\ total < MaxPushes /\ RingIsFull /\ Exit

(* lock(): publish what was pushed.  The reader then calls begin(). *)
BatchFits == pushedElements + sizeOfReadBuffer <= Capacity

FirstToRead_Unconditional == beginWrite
FirstToRead == IF beginRead = endRead THEN beginWrite ELSE beginRead

Lock ==
    /\ program = "running" /\ reader = "idle"
    /\ IF pushedElements > 0
       THEN /\ BatchFits
            /\ beginRead' = FirstToRead
            /\ endRead' = endWrite /\ beginWrite' = endWrite
            /\ sizeOfReadBuffer' = sizeOfReadBuffer + pushedElements
            /\ pushedElements' = 0
       ELSE UNCHANGED <<beginWrite, pushedElements, readPart>>
    /\ reader' = "reading" /\ it' = beginRead' /\ seen' = <<>>
    /\ UNCHANGED <<slots, endWrite, program, total>>

LockExits ==
    /\ program = "running" /\ reader = "idle"
    /\ pushedElements > 0 /\ ~BatchFits
    /\ Exit

(* GnssIterator: the read part wraps unless its end is bufferEnd_. *)
Advance_AlwaysWraps(p) == IF p + 1 >= Capacity THEN 0 ELSE p + 1
Advance(p) == IF p + 1 >= Capacity /\ endRead < Capacity THEN 0 ELSE p + 1

(* The body of the reader's loop: *it, then ++it. *)
ReadNext ==
    /\ program = "running" /\ reader = "reading" /\ it # endRead
    /\ seen' = Append(seen, slots[it])
    /\ it' = Advance(it)
    /\ UNCHANGED <<slots, writePart, readPart, reader, program, total>>

(* erase(begin(), last) *)
CountOfErased_NoWrap(last) == last - beginRead
CountOfErased(last) ==
    IF last > beginRead THEN last - beginRead ELSE (Capacity - beginRead) + last

Erase(last) ==
    /\ sizeOfReadBuffer' =
          IF sizeOfReadBuffer < CountOfErased(last) THEN 0
          ELSE sizeOfReadBuffer - CountOfErased(last)
    /\ beginRead' =
          IF beginRead + CountOfErased(last) > Capacity
          THEN beginRead + CountOfErased(last) - Capacity
          ELSE beginRead + CountOfErased(last)
    /\ reader' = "erased"
    /\ UNCHANGED <<slots, writePart, endRead, it, seen, program, total>>

(* The readers erase up to where they have got, or everything when the read
   part is more than 60 % full and nothing in it could be used. *)
EraseRead ==
    /\ program = "running" /\ reader = "reading" /\ seen # <<>>
    /\ Erase(it)

EraseInconsistent ==
    /\ program = "running" /\ reader = "reading"
    /\ (sizeOfReadBuffer * 100) \div Capacity > 60
    /\ Erase(endRead)

Unlock ==
    /\ program = "running" /\ reader # "idle"
    /\ reader' = "idle" /\ it' = 0 /\ seen' = <<>>
    /\ UNCHANGED <<slots, writePart, readPart, program, total>>

(* The owner deletes the ring when nobody uses it any more. *)
Destroy ==
    /\ program = "running" /\ reader = "idle"
    /\ program' = "destroyed" /\ sizeOfReadBuffer' = 0
    /\ UNCHANGED <<slots, writePart, beginRead, endRead, reader, it, seen, total>>

Terminated == program # "running" /\ UNCHANGED vars

Next ==
    \/ PushBack \/ PushExits \/ Lock \/ LockExits \/ ReadNext
    \/ EraseRead \/ EraseInconsistent \/ Unlock \/ Destroy \/ Terminated

Spec == Init /\ [][Next]_vars

-----------------------------------------------------------------------------
(***************************************************************************)
(* Properties.                                                             *)
(***************************************************************************)
(* Pointers stay inside the buffer or at bufferEnd_ and the two counters within
   the size of the ring, so push_back and lock() need no check but their own. *)
TypeOK ==
    /\ slots \in [Positions -> Nat]
    /\ beginWrite \in Positions /\ endWrite \in Positions
    /\ beginRead \in Positions /\ endRead \in Positions
    /\ pushedElements \in 0 .. Capacity /\ sizeOfReadBuffer \in 0 .. Capacity
    /\ reader \in {"idle", "reading", "erased"} /\ it \in Positions /\ seen \in Seq(Nat)
    /\ program \in {"running", "exited", "destroyed"} /\ total \in Nat

(* The two parts of the ring, which four pointers and two counters describe:
   the read part ends where the write part begins, and each counter is the
   distance between its pointers, once around the ring or not. *)
PartsInv ==
    /\ endRead = beginWrite
    /\ beginWrite + pushedElements \in {endWrite, endWrite + Capacity}
    /\ program # "destroyed" =>
          beginRead + sizeOfReadBuffer \in {endRead, endRead + Capacity}
    /\ pushedElements + sizeOfReadBuffer <= total
    /\ endWrite = 0 => total = 0

(* Where the i-th newest element is, and that the Capacity newest are there. *)
Newest(i) == IF i <= endWrite THEN endWrite - i ELSE endWrite - i + Capacity
NewestIntact ==
    \A i \in 1 .. Capacity : i <= total => slots[Newest(i)] = total - i + 1

(* An iterator that starts at bufferEnd_ reads the slot there first. *)
Phantoms == IF beginRead = Capacity THEN 1 ELSE 0
HaveRead == Len(seen) - Phantoms
OldestUnread == total - pushedElements - sizeOfReadBuffer + 1
Lapped == pushedElements + sizeOfReadBuffer > Capacity

(* While the pushing side stays behind, a reader gets every published element
   once, in the order of the pushes, although pushes go on beside it. *)
ReadsInOrder ==
    program = "running" /\ reader = "reading" /\ ~Lapped =>
        \A i \in 1 .. HaveRead : seen[i + Phantoms] = OldestUnread + i - 1

(* A reader that has come to end() has read all that size() counts, unless a
   batch of exactly Capacity elements made begin() equal to end(). *)
ReadsAll ==
    program = "running" /\ reader = "reading" /\ it = endRead =>
        \/ HaveRead = sizeOfReadBuffer
        \/ seen = <<>> /\ sizeOfReadBuffer \in {0, Capacity}

(* erase(begin(), it) takes exactly the elements the reader has gone over: none
   is lost unread and none is read again. *)
ErasesWhatWasRead ==
    [][EraseRead => sizeOfReadBuffer' = sizeOfReadBuffer - HaveRead]_vars

(* Where the reader's iterator stands once it has moved: as far from begin() as
   it has read elements, at bufferEnd_ only if the read part ends there. *)
ReaderInv ==
    program = "running" /\ reader = "reading" =>
        /\ seen = <<>> => it = beginRead
        /\ seen # <<>> =>
              /\ beginRead # endRead
              /\ HaveRead \in 0 .. sizeOfReadBuffer
              /\ it \in {beginRead + HaveRead, beginRead + HaveRead - Capacity}
              /\ it = Capacity => endRead = Capacity
              /\ endRead = Capacity => it = beginRead + HaveRead

(* The inductive invariant: pointers, counters, the newest Capacity elements and
   the reader's iterator agree after every interleaving of pushes and reads. *)
RingInv == PartsInv /\ NewestIntact /\ ReaderInv /\ ReadsInOrder

(* "Ring is full. Stop processing" (GnssDataMeasurements2.hpp:146): the program
   stops before a push overwrites an element that is published and not erased. *)
StopsBeforeOverwriting == program = "running" => ~Lapped
=============================================================================
