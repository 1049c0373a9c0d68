--------------------------- MODULE LogParserThread ---------------------------
(***************************************************************************)
(* How the main thread reads the receiver's stream and cuts it into logs:  *)
(* the reading loops of main (src/src/main.cpp), LogParserThread           *)
(* (src/src/parser/LogParserThread.cpp) with its ring of raw data, and the *)
(* accept status of ThreadManager, which holds the reading back.           *)
(*                                                                         *)
(* The stream is a sequence of cells.  A cell that looks like the start of *)
(* a log is its header, any other cell NoHeader.  A header claims a length *)
(* and, for a RANGE log, a time in steps of 20 ms; a time of 0 is one of   *)
(* week 0.  It is intact if the log arrived as it was sent, which is what  *)
(* the CRC tells.  Of the ring (GnssRing) the parser sees begin() and      *)
(* end(), and the elements between them unless they are equal.             *)
(***************************************************************************)
EXTENDS Integers, Sequences, FiniteSets

CONSTANTS
    HeaderLength,   \* 28 bytes, in cells
    MaxRead,        \* BinaryRawData::MAX_DATA_SIZE, in cells
    RingSize,       \* sizeOfRing_ of rawDataNetwork_: 4
    Streams,        \* what may arrive
    NoHeader,
    MaxThrows,      \* bound on the exceptions of handlers
    MaxOutputs      \* bound on the lines of the workers of experiments 16 and 17

LogRawHeader == [isRange : BOOLEAN, time : Nat, fullLogLength : Nat \ {0}, intact : BOOLEAN]

ASSUME SizesAssumption ==
    /\ HeaderLength \in Nat \ {0} /\ MaxRead \in Nat \ {0} /\ RingSize \in Nat \ {0, 1}
    /\ MaxThrows \in Nat /\ MaxOutputs \in Nat
ASSUME StreamsAssumption == Streams \subseteq Seq(LogRawHeader \union {NoHeader})
ASSUME NoHeaderAssumption == NoHeader \notin LogRawHeader

(* A length is that of the header, of the body and of the CRC; what arrived as
   it was sent lies in one piece. *)
ASSUME LengthAssumption ==
    \A s \in Streams : \A p \in DOMAIN s : s[p] # NoHeader => s[p].fullLogLength > HeaderLength
ASSUME IntactAssumption ==
    \A s \in Streams : \A p, q \in DOMAIN s :
        /\ p < q /\ s[p] # NoHeader /\ s[q] # NoHeader
        /\ s[p].intact /\ s[q].intact
        => p + s[p].fullLogLength <= q

VARIABLES
    stream, fromFiles,      \* what arrives, and whether from archives or stdin
    received,               \* cells read so far
    raw,                    \* rawDataNetwork_: where in the stream each element ends
    first,                  \* where the oldest element begins
    begin, end,             \* beginRead_, endWrite_
    parsing,                \* is parseRawNetworkData in its loop?
    sizeOfData, countOfProcessed,
    lastLogTime, logsCount, \* lastLogTime_, logsCount_
    satelliteGroup,         \* how many groups there have been before this one
    handed,                 \* history: the logs handed to a group
    thrown, program,        \* exceptions so far; "running" or "exited"
    isReadyAcceptNewData, isSomeOneUsedCout, timer, outputs

parserVars == <<raw, first, begin, end, parsing, sizeOfData, countOfProcessed>>
logVars == <<lastLogTime, logsCount, satelliteGroup, handed>>
acceptVars == <<isReadyAcceptNewData, isSomeOneUsedCout, timer, outputs>>
vars == <<stream, fromFiles, received, parserVars, logVars, thrown, program, acceptVars>>

Init ==
    /\ stream \in Streams /\ fromFiles \in BOOLEAN
    /\ received = 0 /\ raw = <<>> /\ first = 0 /\ begin = 0 /\ end = 0
    /\ parsing = FALSE /\ sizeOfData = 0 /\ countOfProcessed = 0
    /\ lastLogTime = 0 /\ logsCount = 0 /\ satelliteGroup = 0 /\ handed = <<>>
    /\ thrown = 0 /\ program = "running"
    /\ isReadyAcceptNewData = TRUE /\ isSomeOneUsedCout = FALSE
    /\ timer = "store" /\ outputs = 0

-----------------------------------------------------------------------------
(* main reads, and pushRawData *)

(* endWrite_ after a push *)
AfterPush(p) == IF p >= RingSize THEN 1 ELSE p + 1

(* Only the last read of a file, or of stdin, is a short one. *)
MayRead(n) ==
    /\ n <= Len(stream) - received
    /\ n < MaxRead => fromFiles \/ n = Len(stream) - received

Push(n) ==
    /\ program = "running" /\ ~parsing
    /\ fromFiles \/ isReadyAcceptNewData
    /\ MayRead(n)
    /\ received' = received + n
    /\ raw' = Append(raw, received + n)
    /\ end' = AfterPush(end)
    /\ UNCHANGED <<stream, fromFiles, first, begin, countOfProcessed, logVars, thrown, acceptVars>>

(* lock() lets the parser see what it holds and what was read; it loops over
   that if it may contain a whole header. *)
ReadData(n) ==
    /\ Push(n) /\ Len(raw) < RingSize
    /\ parsing' = (begin # end' /\ received' - first > HeaderLength)
    /\ sizeOfData' = IF parsing' THEN received' - first ELSE 0
    /\ UNCHANGED program

ReadExits(n) ==
    /\ Push(n) /\ Len(raw) = RingSize
    /\ program' = "exited"
    /\ UNCHANGED <<parsing, sizeOfData>>

-----------------------------------------------------------------------------
(* The loop of parseRawNetworkData *)

currentHeader == stream[first + countOfProcessed + 1]

LooksOn == parsing /\ countOfProcessed < sizeOfData - HeaderLength

IsHeader == LooksOn /\ currentHeader # NoHeader

IsWhole_NotAtTheEnd == countOfProcessed + currentHeader.fullLogLength < sizeOfData
IsWhole == countOfProcessed + currentHeader.fullLogLength <= sizeOfData

(* The time of a RANGE header counts whether its CRC holds or not. *)
IsGap_ForwardOnly ==
    /\ currentHeader.isRange
    /\ lastLogTime # 0 /\ logsCount # 0
    /\ currentHeader.time > lastLogTime + 1
IsGap ==
    /\ currentHeader.isRange
    /\ lastLogTime # 0 /\ logsCount # 0
    /\ currentHeader.time # lastLogTime + 1

(* parseRawRANGE, parseRawPSRPOS ...: a log whose CRC holds is handed to the group. *)
ParseLog(group) ==
    IF currentHeader.intact
    THEN Append(handed, [at |-> first + countOfProcessed, group |-> group])
    ELSE handed

(* A whole log: a gap makes a new group. *)
TakeLog ==
    /\ IsHeader /\ IsWhole
    /\ satelliteGroup' = IF IsGap THEN satelliteGroup + 1 ELSE satelliteGroup
    /\ lastLogTime' = IF currentHeader.isRange THEN currentHeader.time ELSE lastLogTime
    /\ logsCount' = IF IsGap THEN 1 ELSE logsCount + 1
    /\ handed' = ParseLog(satelliteGroup')
    /\ UNCHANGED <<stream, fromFiles, received, raw, first, begin, end, program, acceptVars>>

Log ==
    /\ TakeLog
    /\ countOfProcessed' = countOfProcessed + currentHeader.fullLogLength
    /\ UNCHANGED <<parsing, sizeOfData, thrown>>

Return == parsing' = FALSE /\ sizeOfData' = 0 /\ countOfProcessed' = 0

(* The catch of parseRawNetworkData: nothing is erased. *)
HandlerThrows ==
    /\ TakeLog /\ currentHeader.intact /\ thrown < MaxThrows
    /\ thrown' = thrown + 1
    /\ Return

SkipByte ==
    /\ LooksOn /\ currentHeader = NoHeader
    /\ countOfProcessed' = countOfProcessed + 1
    /\ UNCHANGED <<stream, fromFiles, received, raw, first, begin, end, parsing, sizeOfData,
                   logVars, thrown, program, acceptVars>>

(* Nothing more to find, or a log that has not arrived: all is erased, and
   what is left of it pushed. *)
SaveTail_WithoutErase ==
    /\ parsing /\ (LooksOn => currentHeader # NoHeader /\ ~IsWhole)
    /\ first' = first + countOfProcessed
    /\ IF countOfProcessed < sizeOfData
       THEN raw' = Append(raw, received) /\ end' = AfterPush(end)
       ELSE UNCHANGED <<raw, end>>
    /\ begin' = begin
    /\ Return
    /\ UNCHANGED <<stream, fromFiles, received, logVars, thrown, program, acceptVars>>

SaveTail ==
    /\ parsing /\ (LooksOn => currentHeader # NoHeader /\ ~IsWhole)
    /\ first' = first + countOfProcessed
    /\ begin' = end
    /\ IF countOfProcessed < sizeOfData
       THEN raw' = <<received>> /\ end' = AfterPush(end)
       ELSE raw' = <<>> /\ UNCHANGED end
    /\ Return
    /\ UNCHANGED <<stream, fromFiles, received, logVars, thrown, program, acceptVars>>

-----------------------------------------------------------------------------
(* The accept status *)

TimerStores ==
    /\ program = "running" /\ timer = "store" /\ timer' = "reset"
    /\ isReadyAcceptNewData' = ~isSomeOneUsedCout
    /\ UNCHANGED <<stream, fromFiles, received, parserVars, logVars, thrown, program,
                   isSomeOneUsedCout, outputs>>

TimerResets_Keeps ==
    /\ program = "running" /\ timer = "reset" /\ timer' = "store"
    /\ UNCHANGED <<stream, fromFiles, received, parserVars, logVars, thrown, program,
                   isReadyAcceptNewData, isSomeOneUsedCout, outputs>>

(* An output between the two steps of the handler is forgotten. *)
TimerResets ==
    /\ program = "running" /\ timer = "reset" /\ timer' = "store"
    /\ isSomeOneUsedCout' = FALSE
    /\ UNCHANGED <<stream, fromFiles, received, parserVars, logVars, thrown, program,
                   isReadyAcceptNewData, outputs>>

(* Bounded; a reader of archives does not ask for the status. *)
SomeOneUsedCout ==
    /\ program = "running" /\ ~fromFiles
    /\ outputs < MaxOutputs /\ outputs' = outputs + 1
    /\ isSomeOneUsedCout' = TRUE
    /\ UNCHANGED <<stream, fromFiles, received, parserVars, logVars, thrown, program,
                   isReadyAcceptNewData, timer>>

-----------------------------------------------------------------------------
Parse == Log \/ HandlerThrows \/ SkipByte \/ SaveTail
Read == \E n \in 1 .. MaxRead : ReadData(n) \/ ReadExits(n)

Next == Read \/ Parse \/ TimerStores \/ TimerResets \/ SomeOneUsedCout

Spec == Init /\ [][Next]_vars

(* Main goes on reading and parsing, the timer ticks.  WF of Parse takes it that
   the handler of a log returns, which SatelliteLifecycle shows may fail when a
   satellite sets (ReadingGoesOn). *)
FairSpec == Spec /\ WF_vars(Read) /\ WF_vars(Parse) /\ WF_vars(TimerStores) /\ WF_vars(TimerResets)

-----------------------------------------------------------------------------
(* Properties *)

(* Every variable keeps its type: what is held begins where what was parsed
   ends, inside the stream. *)
TypeOK ==
    /\ stream \in Streams /\ fromFiles \in BOOLEAN
    /\ received \in 0 .. Len(stream) /\ first \in 0 .. received
    /\ raw \in Seq(0 .. received) /\ Len(raw) <= RingSize + 1
    /\ begin \in 0 .. RingSize /\ end \in 0 .. RingSize
    /\ parsing \in BOOLEAN /\ sizeOfData \in 0 .. received
    /\ countOfProcessed \in Nat
    /\ lastLogTime \in Nat /\ logsCount \in Nat /\ satelliteGroup \in Nat
    /\ handed \in Seq([at : 0 .. received, group : 0 .. satelliteGroup])
    /\ thrown \in 0 .. MaxThrows /\ program \in {"running", "exited"}
    /\ isReadyAcceptNewData \in BOOLEAN /\ isSomeOneUsedCout \in BOOLEAN
    /\ timer \in {"store", "reset"} /\ outputs \in 0 .. MaxOutputs

(* A scan of the stream as if it came in one piece: where it looks for a log. *)
Following(p) ==
    IF stream[p + 1] = NoHeader THEN p + 1 ELSE p + stream[p + 1].fullLogLength
LooksAt[p \in Nat] == p = 0 \/ \E q \in 0 .. p - 1 : LooksAt[q] /\ Following(q) = p

LogsIn(positions) == {p \in positions : p < Len(stream) /\ stream[p + 1] # NoHeader}
IsIntact(p) == stream[p + 1].intact

(* What the parser has been shown: all that was read but the element that makes
   begin() and end() equal.  It is not looked at, and the next push exits. *)
Shown == IF begin = end /\ Len(raw) = RingSize THEN raw[RingSize - 1] ELSE received
WasShown(p) == p + stream[p + 1].fullLogLength <= Shown

Expected == {p \in LogsIn(0 .. received - 1) : LooksAt[p] /\ IsIntact(p) /\ WasShown(p)}
HandedLogs == {handed[i].at : i \in DOMAIN handed}
IsBetweenReads == program = "running" /\ ~parsing

IsUnderDamaged(p) ==
    \E q \in LogsIn(0 .. p - 1) : ~IsIntact(q) /\ q + stream[q + 1].fullLogLength > p

(* However the reads cut the stream and handlers throw, only logs that a scan of
   the uncut stream finds are handed over: once, and once more at most for each
   exception; in order, if there was none.  No log is lost that has left the
   ring, nor, between two reads and without exceptions, any that the parser was
   shown, unless it lies under the claim of a damaged one.  (A log in the element
   that fills the ring was not shown: that one is lost.) *)
CutsDoNotMatter ==
    /\ HandedLogs \subseteq Expected
    /\ \A p \in LogsIn(0 .. received - 1) :
          /\ IsIntact(p) /\ WasShown(p)
          /\ p < first \/ (IsBetweenReads /\ thrown = 0)
          => p \in HandedLogs \/ (~LooksAt[p] /\ IsUnderDamaged(p))
    /\ \A p \in HandedLogs : Cardinality({i \in DOMAIN handed : handed[i].at = p}) <= 1 + thrown
    /\ thrown = 0 => \A i, j \in DOMAIN handed : i < j => handed[i].at < handed[j].at

RangeAt(p) == stream[p + 1].isRange

IsDamagedRange(p) ==
    p < received /\ stream[p + 1] # NoHeader /\ RangeAt(p) /\ ~IsIntact(p)

FollowsInGroup(i, j) ==
    /\ i < j /\ handed[i].group = handed[j].group
    /\ RangeAt(handed[i].at) /\ RangeAt(handed[j].at)
    /\ \A k \in i + 1 .. j - 1 : ~RangeAt(handed[k].at)

TimeOf(i) == stream[handed[i].at + 1].time

(* Two RANGE logs handed to one group, one after the other, are 20 ms apart,
   unless one between them failed its CRC or the receiver had no time yet.  Once
   an exception has had the parser go over logs again, any RANGE log so far that
   failed its CRC excuses a gap. *)
GroupsHaveNoGaps ==
    \A i, j \in DOMAIN handed : FollowsInGroup(i, j) =>
        \/ TimeOf(j) = TimeOf(i) + 1
        \/ TimeOf(i) = 0
        \/ \E p \in 0 .. received :
              /\ IsDamagedRange(p)
              /\ thrown = 0 => handed[i].at < p /\ p < handed[j].at

(* The ring of raw data stops the program only if the elements it held, but for
   the last, were too short together for a header, or were left by exceptions.
   The last may be of any length: begin() is end() then, and it is not looked at. *)
StopsOnlyWhenStuck ==
    program = "exited" =>
        Cardinality({i \in 2 .. RingSize - 1 : raw[i] - first > HeaderLength}) <= thrown

(* The stream is read to its end, once the workers have nothing to print: if the
   handlers of its logs return (see FairSpec). *)
InputIsRead == <>((received = Len(stream) /\ ~parsing) \/ program = "exited")
=============================================================================
