--------------------------------- MODULE Lob ---------------------------------
(***************************************************************************)
(* A LOB object: how its bytes are put together from the records of a      *)
(* fetch, or from the parcels that come with a row.  Bytes are numbers.    *)
(***************************************************************************)
EXTENDS Integers, Sequences

NewLob(n) == [length |-> n, data |-> <<>>, made |-> FALSE, started |-> FALSE, done |-> FALSE,
              index |-> 0, nullRead |-> FALSE, lengthRead |-> FALSE, attached |-> TRUE]

Ok(l) == [lob |-> l, ok |-> TRUE]
Error(l) == [lob |-> l, ok |-> FALSE]

\* start refuses an empty LOB.  It leaves the index where it is.
StartLob(l) ==
    IF l.length = 0 THEN Error(l)
    ELSE Ok([l EXCEPT !.data = [i \in 1..l.length |-> 0], !.made = TRUE, !.started = TRUE])

CompleteLob(l) == [l EXCEPT !.done = TRUE, !.attached = FALSE]

AppendBytes(l, bytes) ==
    IF l.index + Len(bytes) > Len(l.data) THEN Error(l)
    ELSE Ok([l EXCEPT !.data = [i \in 1..Len(@) |-> IF i \in (l.index + 1)..(l.index + Len(bytes))
                                                   THEN bytes[i - l.index] ELSE @[i]],
                      !.index = @ + Len(bytes)])

LengthBytes == 8

\* What stands before the bytes of a LOB: the indicator and the length are looked
\* for once in the life of the object, not once in every request for it.
Indicator(l, body) == IF ~l.nullRead /\ Len(body) > 0 THEN 1 ELSE 0
HasLength(l, body) == ~l.lengthRead /\ Len(body) - Indicator(l, body) >= LengthBytes

\* A record of fetch.  Eight bytes are taken off the length of every record.
TakeRecord(l, body) ==
    LET from == Indicator(l, body) + (IF HasLength(l, body) THEN LengthBytes ELSE 0)
        seen == [l EXCEPT !.nullRead = @ \/ Indicator(l, body) = 1]
        begun == IF HasLength(l, body)
                 THEN StartLob([seen EXCEPT !.lengthRead = TRUE, !.length = body[Indicator(l, body) + LengthBytes]])
                 ELSE Ok(seen)
        count == Len(body) - Indicator(l, body) - LengthBytes
    IN IF begun.ok THEN AppendBytes(begun.lob, SubSeq(body, from + 1, from + count)) ELSE begun

\* Mutant: the eight bytes are taken off the end.
TakeSlobDataFront(l, body) == AppendBytes(l, SubSeq(body, 1, Len(body) - LengthBytes)).lob
\* A SlobData parcel of a row: eight bytes, then data.  Next ignores the errors of
\* start and append.
TakeSlobData(l, body) == AppendBytes(l, SubSeq(body, LengthBytes + 1, Len(body))).lob
=============================================================================
