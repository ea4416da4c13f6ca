------------------------------- MODULE Numbers -------------------------------
(***************************************************************************)
(* Exact numbers (number.go, datatype.go, fastload_encode.go, rows.go).    *)
(* A number is an unscaled integer and a scale: u / 10^s.  Its text is the *)
(* sign and the digits before and after the point.  NUMBER travels as a    *)
(* length, a 16-bit scale and the shortest two's complement; DECIMAL as an *)
(* integer at the column's scale.                                          *)
(***************************************************************************)
EXTENDS Bytes

CONSTANT NumberMaxDigits    \* 40 in the code: the digits a NUMBER keeps

ASSUME NumberMaxDigitsAssumption == NumberMaxDigits \in Nat \ {0}

(* What the code reports as an error.                                      *)
Unsupported == <<-1>>

Abs(x) == IF x < 0 THEN -x ELSE x

(* Go's Quo: towards zero.                                                 *)
Quo(x, y) == IF x < 0 THEN -((-x) \div y) ELSE x \div y

DigitsOf(n) ==
    LET d[m \in Nat] == IF m < 10 THEN <<m>> ELSE d[m \div 10] \o <<m % 10>>
    IN  d[n]

ValueOf(digits) == FoldLeft(LAMBDA a, d : a * 10 + d, 0, digits)

-----------------------------------------------------------------------------
(* Text.                                                                   *)

Text(neg, int, frac) == [neg |-> neg, int |-> int, frac |-> frac]

DecimalString(raw, scale) ==
    LET digits == DigitsOf(Abs(raw))
        padded == IF Len(digits) <= scale
                  THEN Repeat(0, scale - Len(digits) + 1) \o digits
                  ELSE digits
        point == Len(padded) - scale
    IN  IF scale <= 0
        THEN Text(raw < 0, digits \o IF raw = 0 THEN <<>>
                                     ELSE Repeat(0, -scale), <<>>)
        ELSE Text(raw < 0, SubSeq(padded, 1, point),
                  SubSeq(padded, point + 1, Len(padded)))

(* parseNumberString, exp being the exponent the text ends with.           *)
ParseNumber(t, exp) ==
    LET n == ValueOf(t.int \o t.frac)
    IN  [unscaled |-> IF t.neg THEN -n ELSE n, scale |-> Len(t.frac) - exp]

(* A parameter's DECIMAL is cut at the column's scale, not rounded.        *)
DecimalToScaledInt(t, scale) ==
    LET frac == SubSeq(t.frac, 1, Min({scale, Len(t.frac)}))
        n == ValueOf(t.int \o frac \o Repeat(0, scale - Len(frac)))
    IN  IF t.neg THEN -n ELSE n

-----------------------------------------------------------------------------
(* Scaling.                                                                *)

QuoRoundHalfUp(x, y) ==
    LET q == Quo(x, y)
        r == Abs(x - q * y)
    IN  IF 2 * r >= y THEN IF x < 0 THEN q - 1 ELSE q + 1 ELSE q

\* Mutant: the digits are cut off.
RescaleHalfUpCut(u, from, to) ==
    IF to >= from THEN u * 10^(to - from) ELSE Quo(u, 10^(from - to))

RescaleHalfUp(u, from, to) ==
    IF to >= from THEN u * 10^(to - from)
                  ELSE QuoRoundHalfUp(u, 10^(from - to))

RescaleTruncate(u, from, to) ==
    IF to >= from THEN u * 10^(to - from) ELSE Quo(u, 10^(from - to))

-----------------------------------------------------------------------------
(* NUMBER.                                                                 *)

(* The shortest two's complement: the sign needs a bit of its own.         *)
TwosComplement(u) ==
    LET n == CHOOSE n \in 1..4 :
               /\ Signed(Uint(u, n)) = u
               /\ \A m \in 1..n - 1 : Signed(Uint(u, m)) # u
    IN  Uint(u, n)

(* At most NumberMaxDigits digits are kept.  Digits of the integer part    *)
(* are cut off, digits of the fraction are rounded away.                   *)
\* Mutant: the scale is not moved when digits are dropped.
LimitDigitsScaleKept(u, scale) ==
    LET drop == Len(DigitsOf(Abs(u))) - NumberMaxDigits
    IN  IF drop <= 0 THEN [unscaled |-> u, scale |-> scale]
        ELSE [unscaled |-> IF drop - scale > 0 THEN Quo(u, 10^drop)
                           ELSE QuoRoundHalfUp(u, 10^drop),
              scale |-> scale]

LimitDigits(u, scale) ==
    LET drop == Len(DigitsOf(Abs(u))) - NumberMaxDigits
    IN  IF drop <= 0 THEN [unscaled |-> u, scale |-> scale]
        ELSE [unscaled |-> IF drop - scale > 0 THEN Quo(u, 10^drop)
                           ELSE QuoRoundHalfUp(u, 10^drop),
              scale |-> scale - drop]

StripZeros(n) ==
    LET digits == DigitsOf(Abs(n.unscaled))
        zeros == Len(digits)
                   - Max({0} \cup {i \in 1..Len(digits) : digits[i] # 0})
    IN  [unscaled |-> Quo(n.unscaled, 10^zeros), scale |-> n.scale - zeros]

EncodeNumber(u, scale) ==
    LET n == StripZeros(LimitDigits(u, scale))
        tc == TwosComplement(n.unscaled)
    IN  IF u = 0 THEN <<0>>
        ELSE IF n.scale \notin -32768..32767 THEN Unsupported
        ELSE <<Len(tc) + 2>> \o Uint(n.scale, 2) \o tc

(* The tdNumber case of produceColumnValue.                                *)
DecodeNumber(b) ==
    LET n == Signed(At(b, 0, 1))
    IN  IF n <= 0 THEN [unscaled |-> 0, scale |-> 0, used |-> 1]
        ELSE [unscaled |-> Signed(At(b, 3, n - 2)),
              scale |-> Signed(At(b, 1, 2)), used |-> n + 1]
=============================================================================
