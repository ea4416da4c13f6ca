------------------------------- MODULE Columns -------------------------------
(***************************************************************************)
(* The values of statement parameters and of result columns (datatype.go,  *)
(* params.go, the column reader of rows.go).  A column's metadata is its   *)
(* type code, its largest length in bytes, its precision and its scale.  A *)
(* value is NULL or of the Go type its column wants: an integer (the bits, *)
(* for a FLOAT), a date, a sequence of bytes, or a number's text.          *)
(***************************************************************************)
EXTENDS Numbers

tdVarchar == 448
tdChar == 452
tdFloat == 480
tdDecimal == 484
tdInteger == 496
tdSmallInt == 500
tdBigInt == 600
tdNumber == 604
tdVarByte == 688
tdByte == 692
tdDateAnsi == 748
tdByteInt == 756
tdTime == 760
tdTimestamp == 764
tdTimeTZ == 768
tdTimestampTZ == 772
tdIntervalMinToSec == 820

tdTypeFamilyBases ==
    {400, 404, 408, 416, 420, 424, 440, 448, 452, 456, 464, 468, 472, 480,
     484, 496, 500, 504, 508, 512, 516, 600, 604, 688, 692, 696}
      \cup {748 + 4 * i : i \in 0..19}
      \cup {832 + 4 * i : i \in 0..10}
      \cup {880, 884, 888}

(* The nullable code and the three parameter modes of a base.              *)
Family(base) == {base, base + 1, base + 500, base + 501, base + 502}

GetTdBasicType(code) ==
    LET bases == {b \in tdTypeFamilyBases : code \in Family(b)}
    IN  IF bases = {} THEN 0 ELSE CHOOSE b \in bases : TRUE

ParamModeUnknown == 0
ParamModeIn == 1
ParamModeInOut == 2
ParamModeOut == 4

GetTdParameterMode(code) ==
    IF code - 500 \in tdTypeFamilyBases THEN ParamModeIn
    ELSE IF code - 501 \in tdTypeFamilyBases THEN ParamModeInOut
    ELSE IF code - 502 \in tdTypeFamilyBases THEN ParamModeOut
    ELSE ParamModeUnknown

VarCharTypes == {448, 456, 464, 472}
VarByteTypes == {688, 696}
VarTypes == VarCharTypes \cup VarByteTypes
CharTypes == {452, 468}
DateTypes == {748, 752}
TimeTypes == {760, 764, 768, 772}
IntervalTypes == {776 + 4 * i : i \in 0..12}
IntTypes == {tdInteger, tdSmallInt, tdByteInt, tdBigInt}

Basic(meta) == GetTdBasicType(meta.type)

IntWidth(t) ==
    CASE t = tdInteger -> 4 [] t = tdSmallInt -> 2
      [] t = tdByteInt -> 1 [] t = tdBigInt -> 8

(* 0: no width, the precision is not supported.                            *)
DecimalWidth(precision) ==
    IF precision <= 2 THEN 1 ELSE IF precision <= 4 THEN 2
    ELSE IF precision <= 9 THEN 4 ELSE IF precision <= 18 THEN 8
    ELSE IF precision <= 38 THEN 16 ELSE 0

FixedWidthBytes(d, width, fill) ==
    IF width <= 0 THEN d
    ELSE IF Len(d) > width THEN SubSeq(d, 1, width)
    ELSE d \o Repeat(fill, width - Len(d))

DateInteger(d) == (d.year - 1900) * 10000 + d.month * 100 + d.day

DateOf(n) ==
    LET iv == n + 19000000
    IN  [year |-> iv \div 10000, month |-> (iv % 10000) \div 100,
         day |-> iv % 100]

-----------------------------------------------------------------------------
(* Parameters.                                                             *)

Null == [null |-> TRUE]
Val(v) == [null |-> FALSE, v |-> v]

\* Mutant: a null variable-length value takes no bytes.
NullVarNothing == <<>>

(* A null value of a variable length still carries its length.             *)
NullVar == Repeat(0, 2)

EncodeNullParamValue(meta) ==
    LET t == Basic(meta)
    IN  IF t \in IntTypes THEN Repeat(0, IntWidth(t))
        ELSE IF t = tdFloat THEN Repeat(0, 8)
        ELSE IF t \in VarTypes THEN NullVar
        ELSE IF t \in CharTypes \cup {tdByte} \cup TimeTypes \cup IntervalTypes
             THEN Repeat(0, meta.max)
        ELSE IF t \in DateTypes THEN Repeat(0, 4)
        ELSE IF t = tdDecimal /\ DecimalWidth(meta.precision) > 0
             THEN Repeat(0, DecimalWidth(meta.precision))
        ELSE IF t = tdNumber THEN <<0>>
        ELSE Unsupported

(* An integer is cut to the column's width; a string is padded or cut to   *)
(* a fixed width; a variable one carries its length.                       *)
EncodeParamValue(val, meta) ==
    LET t == Basic(meta)
        v == val.v
        n == ParseNumber(v, 0)
    IN  IF val.null THEN EncodeNullParamValue(meta)
        ELSE IF t \in IntTypes THEN Uint(v, IntWidth(t))
        ELSE IF t = tdFloat THEN Uint(v, 8)
        ELSE IF t \in VarTypes /\ Len(v) <= 65535 THEN Uint(Len(v), 2) \o v
        ELSE IF t \in CharTypes \cup TimeTypes \cup IntervalTypes
             THEN FixedWidthBytes(v, meta.max, 32)
        ELSE IF t = tdByte THEN FixedWidthBytes(v, meta.max, 0)
        ELSE IF t \in DateTypes THEN Uint(DateInteger(v), 4)
        ELSE IF t = tdDecimal /\ DecimalWidth(meta.precision) > 0
             THEN Uint(DecimalToScaledInt(v, meta.scale),
                       DecimalWidth(meta.precision))
        ELSE IF t = tdNumber THEN EncodeNumber(n.unscaled, n.scale)
        ELSE Unsupported

(* describeParam: the nullable code, the length sent ahead of the data,    *)
(* and the data.                                                           *)
DescribeParam(val, meta) ==
    LET t == Basic(meta)
        encoded == EncodeParamValue(val, meta)
        fixed == IF t \in IntTypes THEN IntWidth(t)
                 ELSE IF t = tdFloat THEN 8
                 ELSE IF t \in DateTypes THEN 4
                 ELSE IF t \in TimeTypes \cup IntervalTypes THEN meta.max
                 ELSE IF t = tdDecimal THEN DecimalWidth(meta.precision)
                 ELSE IF t = tdNumber THEN 19
                 ELSE 0
    IN  [type |-> meta.type + (1 - (meta.type % 2)),
         length |-> IF fixed > 0 THEN fixed
                    ELSE Len(encoded) - IF t \in VarTypes THEN 2 ELSE 0,
         null |-> val.null, encoded |-> encoded]

(* The IndicData parcel's body: the null bits, then every value, the null  *)
(* ones included.                                                          *)
IndicDataBody(descs) ==
    NullMap([i \in 1..Len(descs) |-> descs[i].null])
      \o FlattenSeq([i \in 1..Len(descs) |-> descs[i].encoded])

-----------------------------------------------------------------------------
(* Result columns: produceColumnValue at position p of a row.  "used" is   *)
(* how far the reader moves.                                               *)

ReadAs(used, null, v) ==
    [ok |-> TRUE, used |-> used, val |-> IF null THEN Null ELSE Val(v)]

ProduceColumnValue(b, p, meta, null) ==
    LET t == Basic(meta)
        w == DecimalWidth(meta.precision)
        n == Unsigned(At(b, p, 2))
        num == DecodeNumber(SubSeq(b, p + 1, Len(b)))
    IN  IF t \in IntTypes
        THEN ReadAs(IntWidth(t), null, Signed(At(b, p, IntWidth(t))))
        ELSE IF t = tdFloat THEN ReadAs(8, null, Signed(At(b, p, 8)))
        ELSE IF t \in VarTypes THEN ReadAs(2 + n, null, At(b, p + 2, n))
        ELSE IF t \in CharTypes \cup {tdByte} \cup TimeTypes
                      \cup (IntervalTypes \ {tdIntervalMinToSec})
             THEN ReadAs(meta.max, null, At(b, p, meta.max))
        ELSE IF t = tdDecimal /\ w > 0
             THEN ReadAs(w, null,
                         DecimalString(Signed(At(b, p, w)), meta.scale))
        ELSE IF t = tdNumber
             THEN ReadAs(num.used, null,
                         DecimalString(num.unscaled, num.scale))
        ELSE IF t \in DateTypes
             THEN ReadAs(4, null, DateOf(Signed(At(b, p, 4))))
        ELSE [ok |-> FALSE]

(* processRow: the null bits, then the columns one after the other.        *)
ProcessRow(b, metas) ==
    LET map == At(b, 0, NullMapLen(Len(metas)))
        step(acc, i) ==
            IF ~acc.ok THEN acc
            ELSE LET c == ProduceColumnValue(b, acc.pos, metas[i],
                                             IsNull(map, i - 1))
                 IN  IF ~c.ok THEN [acc EXCEPT !.ok = FALSE]
                     ELSE [acc EXCEPT !.pos = @ + c.used,
                                      !.vals = Append(@, c.val)]
    IN  FoldLeft(step, [ok |-> TRUE, pos |-> Len(map), vals |-> <<>>],
                 [i \in 1..Len(metas) |-> i])
=============================================================================
