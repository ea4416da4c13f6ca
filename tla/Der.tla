--------------------------------- MODULE Der ---------------------------------
(***************************************************************************)
(* The DER records of the TD2 security layer (der.go) and the tokens built *)
(* from them (auth_td2.go): the negotiated quality-of-protection options,  *)
(* their keys, and wrap and unwrap.  AES-GCM is external: a sealed text    *)
(* keeps its bytes here and opens under the key and the nonce it was       *)
(* sealed with.                                                            *)
(***************************************************************************)
EXTENDS Bytes

AES == 2
GCM96 == 9
TrailerLen == 16
TagLen == 16

Failed == [ok |-> FALSE]

-----------------------------------------------------------------------------
(* Writing.                                                                *)

(* The bytes of n without leading zeros.                                   *)
Octets(n) ==
    LET b == Uint(n, 4)
        lead == {i \in 1..4 : b[i] # 0}
    IN  IF lead = {} THEN <<>> ELSE SubSeq(b, Min(lead), 4)

\* Mutant: 128 is written in the short form.
EncodeDerLengthShort(n) ==
    IF n <= 128 THEN <<n>> ELSE <<128 + Len(Octets(n))>> \o Octets(n)

EncodeDerLength(n) ==
    IF n <= 127 THEN <<n>> ELSE <<128 + Len(Octets(n))>> \o Octets(n)

EncodeDerTLV(tag, constructed, content) ==
    <<192 + (IF constructed THEN 32 ELSE 0) + tag>>
      \o EncodeDerLength(Len(content)) \o content

EncodeDerConstructed(tag, children) ==
    EncodeDerTLV(tag, TRUE, FlattenSeq(children))

DerMinimalInt(v) ==
    IF v = 0 THEN <<0>>
    ELSE IF Head(Octets(v)) >= 128 THEN <<0>> \o Octets(v)
    ELSE Octets(v)

-----------------------------------------------------------------------------
(* Reading.                                                                *)

ParseDerTLV(data, pos) ==
    LET id == data[pos + 1]
        lenByte == data[pos + 2]
        n == IF lenByte >= 128 THEN lenByte - 128 ELSE 0
        len == IF lenByte >= 128 THEN Unsigned(At(data, pos + 2, n))
                                 ELSE lenByte
        start == pos + 2 + n
    IN  IF \/ pos >= Len(data)
           \/ id % 32 = 31
           \/ pos + 1 >= Len(data)
           \/ pos + 2 + n > Len(data)
           \/ start + len > Len(data)
        THEN Failed
        ELSE [ok |-> TRUE, tag |-> id % 32,
              constructed |-> (id \div 32) % 2 = 1,
              content |-> At(data, start, len), totalLen |-> 2 + n + len]

(* The children from position pos on; an unreadable one fails them all.    *)
ParseDerChildren(content) ==
    LET from[pos \in 0..Len(content)] ==
            IF pos = Len(content) THEN [ok |-> TRUE, items |-> <<>>]
            ELSE LET t == ParseDerTLV(content, pos)
                 IN  IF ~t.ok THEN Failed
                     ELSE LET rest == from[pos + t.totalLen]
                          IN  IF ~rest.ok THEN Failed
                              ELSE [ok |-> TRUE, items |-> <<t>> \o rest.items]
    IN  from[0]

DerInt(content) == Signed(content)

DerUint64(content) == Unsigned(content)

Field(items, tag) == items[SelectInSeq(items, LAMBDA t : t.tag = tag)].content

-----------------------------------------------------------------------------
(* The options the two sides negotiate.  An option is its confidentiality  *)
(* algorithm, mode, key length in bits and integrity algorithm; a later    *)
(* field of the same tag replaces an earlier one.                          *)

NoOption == [confAlg |-> 0, mode |-> 0, keyLength |-> 0, integAlg |-> 0]

ReadField(alg, f) ==
    CASE f.tag = 16 -> [alg EXCEPT !.confAlg = DerInt(f.content)]
      [] f.tag = 17 -> [alg EXCEPT !.integAlg = DerInt(f.content)]
      [] f.tag = 19 -> [alg EXCEPT !.mode = DerInt(f.content)]
      [] f.tag = 21 -> [alg EXCEPT !.keyLength = DerInt(f.content)]
      [] OTHER -> alg

DecodeTd2QOPOptions(data) ==
    LET top == ParseDerTLV(data, 0)
        groups == ParseDerChildren(top.content)
        fields(i) == ParseDerChildren(groups.items[i].content)
    IN  IF \/ ~top.ok
           \/ ~top.constructed
           \/ ~groups.ok
           \/ \E i \in 1..Len(groups.items) :
                 \/ ~groups.items[i].constructed
                 \/ ~fields(i).ok
                 \/ \E j \in 1..Len(fields(i).items) :
                       fields(i).items[j].tag \notin 16..22
        THEN Failed
        ELSE [ok |-> TRUE,
              options |-> [i \in 1..Len(groups.items) |->
                             FoldLeft(ReadField, NoOption, fields(i).items)]]

(* The option as the server sends it, external.                            *)
SentOption(o) ==
    EncodeDerConstructed(2, <<EncodeDerTLV(16, FALSE, <<o.confAlg>>),
                              EncodeDerTLV(17, FALSE, <<o.integAlg>>),
                              EncodeDerTLV(19, FALSE, <<o.mode>>),
                              EncodeDerTLV(20, FALSE, <<4>>),
                              EncodeDerTLV(21, FALSE, Uint(o.keyLength, 2))>>)

SentOptions(options) ==
    EncodeDerConstructed(1, [i \in 1..Len(options) |-> SentOption(options[i])])

(* The client's public key is padded on the left, the shared secret on the *)
(* right; both keep their last bytes when they are too long.               *)
NormalizeToLen(b, size) ==
    IF Len(b) > size THEN SubSeq(b, Len(b) - size + 1, Len(b))
    ELSE Repeat(0, size - Len(b)) \o b

NormalizeDHSecretLen(b, size) ==
    IF Len(b) > size THEN SubSeq(b, Len(b) - size + 1, Len(b))
    ELSE b \o Repeat(0, size - Len(b))

(* An option's key follows the keys of the options before it.              *)
KeyOffset(options, i) ==
    SumSeq([j \in 1..i - 1 |-> options[j].keyLength \div 8])

QopKey(options, i, master, keyLen) ==
    LET secret == NormalizeDHSecretLen(master, keyLen)
        n == options[i].keyLength \div 8
    IN  IF KeyOffset(options, i) + n > Len(secret) THEN Failed
        ELSE [ok |-> TRUE, key |-> At(secret, KeyOffset(options, i), n)]

-----------------------------------------------------------------------------
(* wrap and unwrap.  A context is the options, the secret and the sequence *)
(* number of the next wrap.                                                *)

NextSeqNum(c) == [c EXCEPT !.seqNum = @ + 1]

(* MD5, SHA1, SHA-256 and SHA-512; no length for any other algorithm.       *)
Td2HmacLen(alg) ==
    CASE alg = 3 -> 16 [] alg = 4 -> 20 [] alg = 6 -> 32 [] alg = 7 -> 64
      [] OTHER -> 0

(* aes.NewCipher takes keys of these lengths.                               *)
AesKeyLengths == {16, 24, 32}

IsGcm(o) == o.confAlg = AES /\ o.mode = GCM96

(* token[4:16]: the message length and the sequence number.                *)
Nonce(msgLength, seqNum) == Uint(msgLength, 4) \o Uint(seqNum, 8)

Wrap(c, data) ==
    LET q == SelectInSeq(c.options, IsGcm)
        key == QopKey(c.options, q, c.master, c.keyLen)
        hmacLen == Td2HmacLen(c.options[q].integAlg)
        msgLength == Len(data) + 16 + 16 + hmacLen + 16
        nonce == Nonce(msgLength, c.seqNum)
        padded == data \o nonce \o Repeat(0, TrailerLen - 12)
        hdr == EncodeDerConstructed(1,
                 <<EncodeDerTLV(0, FALSE, <<3>>),
                   EncodeDerTLV(1, FALSE, <<7>>),
                   EncodeDerTLV(2, FALSE, <<4>>),
                   EncodeDerTLV(3, FALSE, Uint(q - 1, 4)),
                   EncodeDerTLV(4, FALSE, DerMinimalInt(msgLength)),
                   EncodeDerTLV(5, FALSE, DerMinimalInt(c.seqNum))>>)
    IN  IF q = 0 \/ ~key.ok \/ Len(key.key) \notin AesKeyLengths \/ hmacLen = 0 THEN Failed
        ELSE [ok |-> TRUE, key |-> key.key, nonce |-> nonce,
              envelope |-> EncodeDerConstructed(0,
                             <<EncodeDerTLV(0, FALSE, padded), hdr,
                               EncodeDerTLV(3, FALSE, Repeat(0, TagLen))>>)]

(* The header, all of whose fields are there, names the option and the     *)
(* nonce; the text opens under the key and the nonce of seal.              *)
Opens(c, header, seal) ==
    /\ header.ok
    /\ \A q \in {DerInt(Field(header.items, 3)) + 1} :
          /\ q \in 1..Len(c.options)
          /\ IsGcm(c.options[q])
          /\ QopKey(c.options, q, c.master, c.keyLen) = [ok |-> TRUE, key |-> seal.key]
    /\ seal.nonce = Nonce(DerInt(Field(header.items, 4)), DerUint64(Field(header.items, 5)))

UnwrapRecords(c, records, seal) ==
    IF /\ {0, 1, 3} \subseteq {r.tag : r \in ToSet(records)}
       /\ Opens(c, ParseDerChildren(Field(records, 1)), seal)
       /\ Len(Field(records, 0)) >= TrailerLen
    THEN [ok |-> TRUE, data |-> At(Field(records, 0), 0, Len(Field(records, 0)) - TrailerLen)]
    ELSE Failed

Unwrap(c, data, seal) ==
    LET top == ParseDerTLV(data, 0)
        records == ParseDerChildren(top.content)
    IN  IF ~top.ok \/ ~records.ok THEN Failed
        ELSE UnwrapRecords(c, records.items, seal)
=============================================================================
