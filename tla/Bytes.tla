-------------------------------- MODULE Bytes --------------------------------
(***************************************************************************)
(* The bytes the driver writes and reads (buffer_writer.go,                *)
(* buffer_reader.go, params.go): big endian integers of a fixed width, and *)
(* their two's complement reading.  TLC's integers have 32 bits, so the    *)
(* values are chosen below 2^31; what lies above bit 31 of a wider integer *)
(* is its sign.                                                            *)
(***************************************************************************)
EXTENDS Integers, Sequences, SequencesExt, FiniteSetsExt

SumSeq(s) == FoldLeft(LAMBDA a, b : a + b, 0, s)

Repeat(x, n) == [i \in 1..n |-> x]

Shift(v, k) ==
    CASE k = 0 -> v
      [] k = 1 -> v \div 256
      [] k = 2 -> v \div 65536
      [] k = 3 -> v \div 16777216
      [] OTHER -> IF v < 0 THEN -1 ELSE 0

(* Go's conversion to n bytes keeps the low bytes of the value.            *)
Uint(v, n) == [i \in 1..n |-> Shift(v, n - i) % 256]

Unsigned(b) == FoldLeft(LAMBDA a, d : a * 256 + d, 0, b)

(* int8(u8), int16(u16), ... and bigIntN: the first bit is the sign.       *)
Signed(b) ==
    FoldLeft(LAMBDA a, d : a * 256 + d,
             IF b # <<>> /\ Head(b) >= 128 THEN -1 ELSE 0, b)

(* The n bytes at position p, counted from 0 as in the code.               *)
At(b, p, n) == SubSeq(b, p + 1, p + n)

(* One bit per column, the first column in the highest bit.                *)
NullMapLen(n) == (n + 7) \div 8

NullMap(nulls) ==
    [i \in 1..NullMapLen(Len(nulls)) |->
        MapThenSumSet(LAMBDA k : 2^(7 - k),
                      {k \in 0..7 : /\ 8 * (i - 1) + k < Len(nulls)
                                    /\ nulls[8 * (i - 1) + k + 1]})]

IsNull(map, col) == (map[col \div 8 + 1] \div (2^(7 - (col % 8)))) % 2 = 1
=============================================================================
