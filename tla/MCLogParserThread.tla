-------------------------- MODULE MCLogParserThread --------------------------
(* Streams of two pieces of any kind and a good log after them: logs as they
   were sent, with cells damaged or lost, and noise.  A log has a header of
   three cells, one of data and one of the CRC; one without data has four. *)
EXTENDS LogParserThread

Header(isRange, time, length, intact) ==
    [isRange |-> isRange, time |-> time, fullLogLength |-> length, intact |-> intact]

(* A log of which so many cells arrive. *)
Sent(header, cells) == <<header>> \o [i \in 1 .. cells - 1 |-> NoHeader]

RangeLog(t) == Sent(Header(TRUE, t, 5, TRUE), 5)

Pieces ==
    {RangeLog(t) : t \in {0, 1, 2}} \union
    {Sent(Header(FALSE, 0, 4, TRUE), 4),        \* another log
     Sent(Header(TRUE, 2, 5, FALSE), 3),        \* cells lost
     Sent(Header(FALSE, 0, 9, FALSE), 4),       \* a damaged length
     <<NoHeader>>}                              \* noise

MCStreams == {a \o b \o RangeLog(t) : a \in Pieces, b \in Pieces, t \in {2, 3}}
==============================================================================
