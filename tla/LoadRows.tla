------------------------------ MODULE LoadRows ------------------------------
(***************************************************************************)
(* The rows of a FastLoad (fastload_encode.go, fastload_query.go).  The    *)
(* USING clause casts every column to a type of the encoder's choosing and *)
(* adds the row number as the last column; a row is the null bits of all   *)
(* of them, the columns, and the row number.  Two sizes are kept for a     *)
(* column: what its encoder may write and what the query reckons with.     *)
(***************************************************************************)
EXTENDS Columns

(* CHAR, VARCHAR, LONG VARCHAR and the intervals; graphic types are refused. *)
TextTypes == {448, 452, 456} \cup IntervalTypes
ByteTypes == VarByteTypes \cup {tdByte}
NaturalTypes == IntTypes \cup {tdFloat} \cup DateTypes

HasZone(t) == t \in {tdTimeTZ, tdTimestampTZ}
BaseLen(t) == IF t \in {tdTime, tdTimeTZ} THEN 8 ELSE 19

FracWidth(scale) == IF scale > 0 THEN scale + 1 ELSE 0

TemporalWidth(t, scale) ==
    BaseLen(t) + FracWidth(scale) + IF HasZone(t) THEN 6 ELSE 0

(* newFastLoadColumnEncoder.                                               *)
Encodable(meta) ==
    Basic(meta) \in NaturalTypes \cup ByteTypes \cup TextTypes \cup TimeTypes
                      \cup {tdNumber, tdDecimal}

Encoder(meta, largeDecimal) ==
    LET t == Basic(meta)
    IN  [type |-> t, scale |-> meta.scale, wide |-> largeDecimal,
         maxLen |-> IF t \in TextTypes \cup ByteTypes THEN meta.max ELSE 0,
         width |-> IF t \in TimeTypes THEN TemporalWidth(t, meta.scale) ELSE 0,
         rowBytes |-> IF t \in NaturalTypes THEN meta.max
                      ELSE IF t \in TextTypes \cup ByteTypes THEN meta.max + 2
                      ELSE IF t = tdNumber THEN 20
                      ELSE IF t = tdDecimal THEN IF largeDecimal THEN 16 ELSE 8
                      ELSE TemporalWidth(t, meta.scale)]

MaxWireBytes(e) ==
    IF e.type \in IntTypes THEN IntWidth(e.type)
    ELSE IF e.type \in DateTypes THEN 4
    ELSE IF e.type = tdFloat THEN 8
    ELSE IF e.type = tdDecimal THEN IF e.wide THEN 16 ELSE 8
    ELSE IF e.type = tdNumber THEN 20
    ELSE IF e.type \in TextTypes \cup ByteTypes THEN 2 + e.maxLen
    ELSE e.width

LoadNullMapLen(es) == NullMapLen(Len(es) + 1)

FastLoadMaxRowBytes(es) ==
    LoadNullMapLen(es) + 4 + SumSeq([i \in 1..Len(es) |-> MaxWireBytes(es[i])])

(* The query's own sum and its limit, and the data channel's.              *)
UsingRowBytes(es) ==
    LoadNullMapLen(es) + 4 + SumSeq([i \in 1..Len(es) |-> es[i].rowBytes])

\* Mutant: the query lets a row of a full 64K through.
UsingAdmitsLarge(es) == UsingRowBytes(es) <= 65535

UsingAdmits(es) == UsingRowBytes(es) <= 64000

ChannelAdmits(es, bodyLen) ==
    /\ 4 + FastLoadMaxRowBytes(es) <= 65535
    /\ 4 + FastLoadMaxRowBytes(es) <= bodyLen

-----------------------------------------------------------------------------
(* Values.  A number is given as an integer or as text.                    *)

Num(val) ==
    IF val.text THEN ParseNumber(val.v, 0) ELSE [unscaled |-> val.v, scale |-> 0]

InRange(n, bytes) == bytes > 2 \/ n \in -(2^(8 * bytes - 1))..(2^(8 * bytes - 1) - 1)

WriteIntegral(e, val) ==
    LET n == RescaleTruncate(Num(val).unscaled, Num(val).scale, 0)
    IN  IF InRange(n, IntWidth(e.type)) THEN Uint(n, IntWidth(e.type))
                                        ELSE Unsupported

WriteDecimal(e, val) ==
    Uint(RescaleHalfUp(Num(val).unscaled, Num(val).scale, e.scale),
         IF e.wide THEN 16 ELSE 8)

WriteVar(e, b) ==
    IF Len(b) > e.maxLen THEN Unsupported ELSE Uint(Len(b), 2) \o b

(* A time given as text: cut to whole seconds, its fraction cut or filled  *)
(* up to the scale, its offset (six characters from the sign on) kept.     *)
Point == 46
Zero == 48
Signs == {43, 45}

TemporalText(e, s) ==
    LET zone == HasZone(e.type)
        at == Len(s) - 6
        main == IF zone THEN SubSeq(s, 1, at) ELSE s
        offset == IF zone THEN SubSeq(s, at + 1, Len(s)) ELSE <<>>
        base == BaseLen(e.type)
        rest == SubSeq(main, base + 1, Len(main))
        frac == IF rest # <<>> /\ Head(rest) = Point THEN Tail(rest) ELSE rest
        cut == SubSeq(frac, 1, Min({e.scale, Len(frac)}))
    IN  IF zone /\ (Len(s) < 6 \/ s[at + 1] \notin Signs) THEN Unsupported
        ELSE IF Len(main) < base THEN Unsupported
        ELSE SubSeq(main, 1, base)
               \o (IF e.scale > 0
                   THEN <<Point>> \o cut \o Repeat(Zero, e.scale - Len(cut))
                   ELSE <<>>)
               \o offset

WriteTemporal(e, s) ==
    IF Len(TemporalText(e, s)) = e.width THEN TemporalText(e, s)
                                         ELSE Unsupported

\* Mutant: a null NUMBER takes no byte.
WriteNullNumber(e) ==
    IF e.type = tdNumber THEN <<>>
    ELSE IF e.type \in TextTypes \cup ByteTypes THEN Repeat(0, 2)
    ELSE IF e.type \in TimeTypes THEN Repeat(32, e.width)
    ELSE Repeat(0, MaxWireBytes(e))

WriteNull(e) ==
    IF e.type = tdNumber THEN <<0>>
    ELSE IF e.type \in TextTypes \cup ByteTypes THEN Repeat(0, 2)
    ELSE IF e.type \in TimeTypes THEN Repeat(32, e.width)
    ELSE Repeat(0, MaxWireBytes(e))

WriteValue(e, val) ==
    IF val.null THEN WriteNull(e)
    ELSE IF e.type \in IntTypes THEN WriteIntegral(e, val)
    ELSE IF e.type = tdFloat THEN Uint(val.v, 8)
    ELSE IF e.type \in DateTypes THEN Uint(DateInteger(val.v), 4)
    ELSE IF e.type = tdDecimal THEN WriteDecimal(e, val)
    ELSE IF e.type = tdNumber THEN EncodeNumber(Num(val).unscaled, Num(val).scale)
    ELSE IF e.type \in TextTypes \cup ByteTypes THEN WriteVar(e, val.v)
    ELSE WriteTemporal(e, val.v)

(* writeFastLoadRow; the row is rolled back when a value is refused.       *)
FastLoadRow(es, vals, rowNumber) ==
    LET cols == [i \in 1..Len(es) |-> WriteValue(es[i], vals[i])]
        nulls == [i \in 1..Len(es) + 1 |-> i <= Len(es) /\ vals[i].null]
    IN  IF Unsupported \in ToSet(cols) THEN Unsupported
        ELSE NullMap(nulls) \o FlattenSeq(cols) \o Uint(rowNumber, 4)

-----------------------------------------------------------------------------
(* How the server takes a row apart, from the types of the USING clause    *)
(* (external): the null bits, then each column by its cast.                *)

CastLen(e, b, p) ==
    IF e.type = tdNumber THEN 1 + b[p + 1]
    ELSE IF e.type \in TextTypes \cup ByteTypes THEN 2 + Unsigned(At(b, p, 2))
    ELSE e.rowBytes

ServerColumns(es, b) ==
    FoldLeft(LAMBDA acc, e :
                LET n == CastLen(e, b, acc.pos)
                IN  [pos |-> acc.pos + n,
                     cols |-> Append(acc.cols, At(b, acc.pos, n))],
             [pos |-> LoadNullMapLen(es), cols |-> <<>>], es)

(* readFastLoadErrorTable1 takes the last four bytes for the row number.   *)
ErrorRowNumber(b) == Signed(At(b, Len(b) - 4, 4))
=============================================================================
