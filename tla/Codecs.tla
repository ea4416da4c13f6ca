-------------------------------- MODULE Codecs --------------------------------
(***************************************************************************)
(* The driver's codecs put to work: in each step one of them takes an      *)
(* input, and the properties say what must become of it.  What is written  *)
(* is compared with what the reader on the other end makes of it; the      *)
(* reader is the driver's own where it has one.                            *)
(***************************************************************************)
EXTENDS LoadRows, Responses, Der, Dsn

CONSTANTS SeqNums,     \* sequence numbers of a security context
          DataSizes,      \* lengths of the data wrapped
          Unscaled,       \* magnitudes of exact numbers
          Texts           \* lengths of a request's text

\* Below 2^31 and 2^30: Octets models the integers of at most four bytes, and with a message's
\* envelope around the data its length is one of them.
ASSUME SeqNumsAssumption == \A s \in SeqNums : s \in Nat /\ Shift(s, 3) < 128
ASSUME DataSizesAssumption == \A n \in DataSizes : n \in Nat /\ Shift(n, 3) < 64

VARIABLE input

NoInput == [codec |-> "none"]

Init == input = NoInput

Idle == input = NoInput

Take(codec, x) == input' = [codec |-> codec, x |-> x]

Is(codec) == input.codec = codec

-----------------------------------------------------------------------------
(* Messages.                                                               *)

Contexts == [infoRequest : BOOLEAN, slob : BOOLEAN, query : BOOLEAN,
             keep : BOOLEAN, aph : BOOLEAN]

ParamLengths == {<<>>, <<0>>, <<2, 4, 8>>, Repeat(1, 9)}

Messages ==
    {ConfigMessage(r) : r \in 0..3}
      \cup {HandshakeMessage(u, t) : u \in {0, 8, 40}, t \in BOOLEAN}
      \cup {KeyMessage(k) : k \in {0, 256}}
      \cup {LogonMessage(u, p, n, a, y) : u \in {1, 30}, p \in {0, 9},
              n \in {7, 16}, a \in 0..2, y \in BOOLEAN}
      \cup {<<Logoff>>, <<Cancel>>}
      \cup {PrepareMessage(on, t) :
              on \in {{}, {"array"}, {"xml"}, {"largeRows"}}, t \in Texts}
      \cup {ExecuteMessage({}, 8, e, c) : e \in ParamLengths, c \in Contexts}
      \cup {LobMessage({"dynamic"}, 12, c) : c \in Contexts}
      \cup {ContinueMessage(c) : c \in Contexts}
      \cup {LoadMessage(Repeat(n, k)) : n \in {20, 64000}, k \in {1, 2, 33}}

Headers == {[kind |-> 5, byteVar |-> b, sessionNo |-> 1001, nonce |-> n,
             requestNo |-> r] : b \in {0, 8}, n \in {0, 70000}, r \in {1, 300}}

Send ==
    /\ Idle
    /\ \E m \in Messages, tls \in BOOLEAN, h \in Headers :
          Take("message", [parcels |-> m, tls |-> tls, header |-> h])

(* A message whose body the receiver walks by the 16-bit lengths in it     *)
(* comes apart into the parcels it was put together from: every parcel     *)
(* writes as many bytes as it declares (getLength against write), the LAN  *)
(* header gives back its fields and the patched length, and the WebSocket  *)
(* frame around both holds all of them.  Text that fits a parcel, a        *)
(* partition of at most 16 characters.                                     *)
MessagesWalk ==
    Is("message") =>
        LET p == input.x.parcels
            len == BodyLen(p)
            h == LanHeader(input.x.header, len)
            frame == WsFrameHeader(input.x.tls, Len(h) + len)
        IN  /\ Found(p) = Starts(p)
            /\ \A i \in 1..Len(p) : SumSeq(p[i].fields) = p[i].len
            /\ Len(h) = LanHeaderLen
            /\ LanHeaderFromBuffer(h) = input.x.header @@ [bodyLen |-> len]
            /\ Len(frame) = GetWsFrameLength(input.x.tls, Len(h) + len)
            /\ input.x.tls =>
                 ReadWsFrameHeader(frame) =
                    [ok |-> TRUE, len |-> Len(h) + len, used |-> Len(frame)]

-----------------------------------------------------------------------------
(* The server's features and the options asked for.                        *)

TagLens ==
    {[t \in {7, 10, 11} |-> IF t = 7 THEN a ELSE IF t = 10 THEN b ELSE c] @@ d :
        a \in {8, 128}, b \in {12, 17, 30}, c \in {3, 14, 34},
        d \in {<<>>, 14 :> 4}}

Offers == {OptionFlags} \cup UNION {kSubset(k, OptionFlags) : k \in 0..2}

Negotiate ==
    /\ Idle
    /\ \E lens \in TagLens, offered \in Offers, max \in {64000, 1000000} :
          Take("options", [lens |-> lens, offered |-> offered, max |-> max])

(* An option the connection found the server to support is in the options  *)
(* parcel of its requests, whatever others it found: each of them alone    *)
(* makes the parcel long enough for its own byte.  The code asks for       *)
(* neither period structures nor catalog names, although it recognizes     *)
(* the features (the first byte is always 0, the second never reached).    *)
OptionsAreSent ==
    Is("options") =>
        LET on == TurnedOn(input.x.lens, input.x.offered, input.x.max)
        IN  on \ {"period", "catalog"} \subseteq ToSet(OptionsSent(on))

(* The lengths a tag's whole fields come to.                               *)
TagLengths(tag) ==
    CASE tag = 7 -> {8, 120, 124, 128, 132}
      [] tag = 10 -> {12, 13, 14, 17, 24, 25, 26, 29, 30}
      [] tag = 11 -> (3..8) \cup {9, 10, 13, 14, 20, 25, 28, 31, 33, 34}
      [] tag = 12 -> {1, 2, 3, 4, 5}
      [] tag = 13 -> {62}
      [] OTHER -> {4}

Tags == UNION {[tag : {t}, len : TagLengths(t)] : t \in {7, 10, 11, 12, 13, 14, 99}}

Configure ==
    /\ Idle
    /\ \E tags \in SeqOf(Tags, 2), ifps \in {1, 3}, charSets \in {0, 2} :
          Take("features", [tags |-> tags, start |-> FeatureStart(ifps, 4, charSets)])

Describe ==
    /\ Idle
    /\ \/ \E sizes \in SeqOf({12}, 3), oid \in {6, 11} :
             Take("mechanism", [sizes |-> sizes, start |-> MechStart(oid)])
       \/ \E sizes \in SeqOf({6, 7, 14, 30}, 3) :
             Take("status", [sizes |-> sizes, start |-> StatusStart])

(* Every entry of the configuration, mechanism and statement status        *)
(* parcels is looked at, and none beyond the parcel's end, although their  *)
(* loops count from different places; and a feature is read only from the  *)
(* bytes of the tag it belongs to, so a server that sends a shorter, older *)
(* tag is not credited with what the next tag's bytes say.                 *)
FeaturesAreRead ==
    /\ Is("features") =>
         LET tags == input.x.tags
             sizes == [i \in 1..Len(tags) |-> 4 + tags[i].len]
             length == input.x.start + SumSeq(sizes)
             walk == Walk(input.x.start, sizes,
                          LAMBDA pos : FeatureContinues(pos, length))
         IN  /\ walk.visited = Len(tags)
             /\ ~FeatureContinues(walk.pos, length)
             /\ \A i \in 1..Len(tags) :
                   \A r \in FeatureReads(tags[i].tag, tags[i].len) :
                      r[1] + r[2] <= tags[i].len
    /\ Is("mechanism") \/ Is("status") =>
         LET continues(pos, length) ==
                IF Is("status") THEN StatusContinues(pos, length)
                                ELSE AuthMechContinues(pos, length)
             length == ParcelHeaderLen + input.x.start + SumSeq(input.x.sizes)
             walk == Walk(input.x.start, input.x.sizes,
                          LAMBDA pos : continues(pos, length))
         IN  /\ walk.visited = Len(input.x.sizes)
             /\ ~continues(walk.pos, length)

-----------------------------------------------------------------------------
(* Statement information.                                                  *)

Item(content, type, depth, tail) ==
    [layout |-> 1, content |-> content, type |-> type, depth |-> depth,
     names |-> 5, tail |-> tail, attrName |-> 0, dims |-> 1, catalog |-> 2]

Items ==
    {Item(2, t, d, 3) : t \in {tdInteger, 440, 504}, d \in 0..2}
      \cup {Item(1, tdInteger + m, 0, 0) : m \in {0, 500, 501, 502}}
      \cup {[Item(2, tdInteger, 1, 1) EXCEPT !.attrName = n] : n \in {0, 3}}
      \cup {[layout |-> l, content |-> 1, type |-> 500, depth |-> 0] : l \in {2, 4}}

(* A preorder walk: one level down only below a structure or an array.     *)
IsTree(items) ==
    \A i \in 1..Len(items) :
        items[i].depth > 0 =>
          /\ i > 1
          /\ items[i - 1].layout = 1
          /\ items[i].depth <= items[i - 1].depth
                                 + (IF IsNested(items[i - 1].type) THEN 1 ELSE 0)

Followers == {[flavor |-> 170, len |-> 4], [flavor |-> 12, len |-> 6],
              [flavor |-> 11, len |-> 10]}

Inform ==
    /\ Idle
    /\ \E items \in SeqOf(Items, 4), next \in Followers :
          IsTree(items) /\ Take("items", [items |-> items, next |-> next])

(* The item an attribute belongs to: the nearest before it that is less    *)
(* deep.                                                                   *)
ParentOf(items, i) ==
    Max({0} \cup {j \in 1..i - 1 : items[j].layout = 1 /\ items[i].layout = 1
                                     /\ items[j].depth < items[i].depth})

(* The statement an item belongs to starts after the last end marker.      *)
StatementStart(items, i) ==
    Max({0} \cup {j \in 1..i - 1 : items[j].layout = 4})

(* Parameters and result columns end up in their lists in order, and the   *)
(* attributes of structured columns below the column they belong to at     *)
(* every depth, also where the optional tail of an item is cut short or    *)
(* its attribute has no name; receive and transmit numbers count the items *)
(* of one statement that are not IN and not OUT; and none of it depends on *)
(* the parcel behind, whose header the reader takes for one more item.     *)
ColumnsAreRouted ==
    Is("items") =>
        LET items == input.x.items
            info == StatementInfo(items, input.x.next)
            top(c) == SelectSeq([i \in 1..Len(items) |-> i],
                        LAMBDA i : /\ items[i].layout # 4
                                   /\ items[i].content = c
                                   /\ ParentOf(items, i) = 0)
            counted(i, mode) ==
                {j \in StatementStart(items, i) + 1..i :
                    /\ items[j].layout \in {1, 2}
                    /\ GetTdParameterMode(items[j].type) # mode}
            number(i, mode) == IF i \in counted(i, mode)
                               THEN Cardinality(counted(i, mode)) ELSE 0
        IN  /\ \A c \in {1, 2} : info.lists[c] = top(c)
            /\ \A i \in 1..Len(items) :
                 /\ info.attrs[i] = ParentOf(items, i)
                 /\ info.rcv[i] = number(i, ParamModeIn)
                 /\ info.trn[i] = number(i, ParamModeOut)

-----------------------------------------------------------------------------
(* The security layer.                                                     *)

Aes(bits, integ) == [confAlg |-> AES, mode |-> GCM96, keyLength |-> bits,
                     integAlg |-> integ]
Blowfish == [confAlg |-> 3, mode |-> 0, keyLength |-> 128, integAlg |-> 3]

OptionLists == {<<Aes(256, 6)>>, <<Blowfish, Aes(128, 4)>>,
                <<Blowfish, Aes(256, 7), Aes(128, 6)>>}

Ramp(n) == [i \in 1..n |-> i % 251]

Secure ==
    /\ Idle
    /\ \E options \in OptionLists, seqNum \in SeqNums, n \in DataSizes,
          secret \in {60, 64, 70} :
          Take("wrap", [options |-> options, master |-> Ramp(secret),
                        keyLen |-> 64, seqNum |-> seqNum, data |-> Ramp(n)])

(* The options are read as the server sent them, every option's key has    *)
(* its length, and the message wrapped under the first AES-GCM option is   *)
(* unwrapped to the same bytes by a peer that knows the same secret, for   *)
(* every length its nested records may have, with the nonce rebuilt from   *)
(* the header; the next message, of whatever length, has another nonce.    *)
WrapRoundTrips ==
    Is("wrap") =>
        LET c == [options |-> input.x.options, master |-> input.x.master,
                  keyLen |-> input.x.keyLen, seqNum |-> input.x.seqNum]
        IN  /\ DecodeTd2QOPOptions(SentOptions(c.options))
                 = [ok |-> TRUE, options |-> c.options]
            /\ \A i \in 1..Len(c.options) :
                  Len(QopKey(c.options, i, c.master, c.keyLen).key)
                    = c.options[i].keyLength \div 8
            /\ \A w \in {Wrap(c, input.x.data)} :
                  /\ w.ok
                  /\ Unwrap([c EXCEPT !.seqNum = 1], w.envelope, w)
                       = [ok |-> TRUE, data |-> input.x.data]
                  /\ \A n \in {0, Len(input.x.data)} :
                        Wrap(NextSeqNum(c), Ramp(n)).nonce # w.nonce

-----------------------------------------------------------------------------
(* Numbers.                                                                *)

Signs2 == {1, -1}

EncodeNum ==
    /\ Idle
    /\ \E u \in Unscaled, sign \in Signs2, scale \in -2..7 :
          Take("number", [u |-> sign * u, scale |-> scale])

(* m / 10^t and u / 10^s are the same, t being at most s.                  *)
SameValue(m, t, u, s) == m * 10^(s - t) = u

(* A NUMBER that has no more digits than the type keeps is read back as it *)
(* was written, by the length, scale and shortest two's complement in the  *)
(* parcel, and its text stands for the same number.  A longer one loses    *)
(* less than one unit of the last digit kept, half a unit where only       *)
(* digits of the fraction are given up, and never grows too long.          *)
NumbersRoundTrip ==
    Is("number") =>
        LET u == input.x.u
            scale == input.x.scale
            b == EncodeNumber(u, scale)
            d == DecodeNumber(b)
            drop == Max({0, Len(DigitsOf(Abs(u))) - NumberMaxDigits})
            err == Abs(d.unscaled * 10^(scale - d.scale) - u)
            t == ParseNumber(DecimalString(d.unscaled, d.scale), 0)
        IN  IF u = 0 THEN d = [unscaled |-> 0, scale |-> 0, used |-> 1]
            ELSE /\ d.used = Len(b)
                 /\ d.scale <= scale
                 /\ Len(DigitsOf(Abs(d.unscaled))) <= NumberMaxDigits
                 /\ drop = 0 => err = 0
                 /\ err < 10^drop
                 /\ drop > 0 /\ drop <= scale => 2 * err <= 10^drop
                 /\ IF t.scale >= d.scale
                    THEN SameValue(d.unscaled, d.scale, t.unscaled, t.scale)
                    ELSE SameValue(t.unscaled, t.scale, d.unscaled, d.scale)

Decimal ==
    /\ Idle
    /\ \E u \in Unscaled, sign \in Signs2, scale \in 0..6 :
          Take("decimal", [raw |-> sign * u, scale |-> scale])

(* The text of a DECIMAL column, given back as a parameter or loaded, is   *)
(* the same DECIMAL, also in a column of more fraction digits; loaded into *)
(* a column of fewer it is the nearest, the same distance on both sides of *)
(* zero, and as a parameter it is cut towards zero.                        *)
DecimalsRoundTrip ==
    Is("decimal") =>
        LET raw == input.x.raw
            scale == input.x.scale
            text == DecimalString(raw, scale)
            p == ParseNumber(text, 0)
        IN  /\ \A to \in 0..scale - 1 :
                 LET unit == 10^(scale - to)
                     loaded == RescaleHalfUp(p.unscaled, p.scale, to)
                     cut == DecimalToScaledInt(text, to)
                 IN  /\ 2 * Abs(loaded * unit - raw) <= unit
                     /\ RescaleHalfUp(-p.unscaled, p.scale, to) = -loaded
                     /\ Abs(cut * unit) <= Abs(raw)
                     /\ Abs(raw) - Abs(cut * unit) < unit
            /\ \A to \in scale..scale + 2 :
                 /\ RescaleHalfUp(p.unscaled, p.scale, to) = raw * 10^(to - scale)
                 /\ DecimalToScaledInt(text, to) = raw * 10^(to - scale)

-----------------------------------------------------------------------------
(* Parameters and result columns.                                          *)

Meta(type, max, precision, scale) ==
    [type |-> type, max |-> max, precision |-> precision, scale |-> scale]

Jan1 == [year |-> 1900, month |-> 1, day |-> 1]
Leap == [year |-> 2024, month |-> 2, day |-> 29]
Old == [year |-> 1899, month |-> 12, day |-> 31]

(* A column and values of its type.                                        *)
KindSeq ==
    <<<<Meta(tdInteger, 4, 0, 0), {0, -1, 70000}>>,
     <<Meta(tdSmallInt, 2, 0, 0), {-32768, 255}>>,
     <<Meta(tdByteInt + 1, 1, 0, 0), {-128, 127}>>,
     <<Meta(tdBigInt + 501, 8, 0, 0), {-70000, 128}>>,
     <<Meta(tdFloat, 8, 0, 0), {1077936128, -5}>>,
     <<Meta(tdVarchar, 4, 0, 0), {<<>>, <<7, 0, 7>>}>>,
     <<Meta(tdVarByte + 500, 300, 0, 0), {Repeat(1, 256)}>>,
     <<Meta(tdChar, 3, 0, 0), {<<65>>, <<65, 66, 67>>}>>,
     <<Meta(tdByte, 2, 0, 0), {<<9>>}>>,
     <<Meta(tdDateAnsi, 4, 0, 0), {Jan1, Leap, Old}>>,
     <<Meta(tdTimestamp, 19, 0, 0), {Repeat(49, 19)}>>,
     <<Meta(tdDecimal, 0, 3, 2), {Text(TRUE, <<1>>, <<2, 5>>),
                                  Text(FALSE, <<0>>, <<0, 0>>)}>>,
     <<Meta(tdDecimal, 0, 20, 1), {Text(TRUE, <<0>>, <<5>>)}>>,
     <<Meta(tdNumber, 18, 0, 0), {Text(FALSE, <<1, 0>>, <<>>),
                                  Text(TRUE, <<0>>, <<0, 3>>)}>>>>

Kinds == ToSet(KindSeq)

Values(kind) == {Null} \cup {Val(v) : v \in kind[2]}

(* Nine columns, so that the null bits take a second byte.                 *)
Nine == SubSeq(KindSeq, 6, 14)

Bind ==
    /\ Idle
    /\ \/ \E k1, k2 \in Kinds : \E v1 \in Values(k1), v2 \in Values(k2) :
             Take("params", [metas |-> <<k1[1], k2[1]>>, vals |-> <<v1, v2>>])
       \/ \E nulls \in kSubset(3, 1..9) \cup kSubset(8, 1..9) :
             Take("params",
                  [metas |-> [i \in 1..9 |-> Nine[i][1]],
                   vals |-> [i \in 1..9 |-> IF i \in nulls THEN Null
                                            ELSE Val(CHOOSE v \in Nine[i][2] : TRUE)]])

(* What a column of that type holds: fixed-width text is padded.           *)
Held(val, meta) ==
    IF val.null THEN Null
    ELSE CASE Basic(meta) = tdChar -> Val(FixedWidthBytes(val.v, meta.max, 32))
           [] Basic(meta) = tdByte -> Val(FixedWidthBytes(val.v, meta.max, 0))
           [] OTHER -> val

(* Parameters written as a row of a table with their types are the row the *)
(* result reader gives back: null values take the place of a value of      *)
(* their type, so that every value behind them is found, the null bits of  *)
(* more than eight columns go into further bytes, and the reader ends with *)
(* the row.  The descriptor sent ahead names the same type family, marked  *)
(* nullable, and as many bytes as are sent (at least, for a NUMBER).       *)
ParamsRoundTrip ==
    Is("params") =>
        LET metas == input.x.metas
            vals == input.x.vals
            descs == [i \in 1..Len(metas) |-> DescribeParam(vals[i], metas[i])]
            body == IndicDataBody(descs)
            row == ProcessRow(body, metas)
        IN  /\ row.ok
            /\ row.vals = [i \in 1..Len(vals) |-> Held(vals[i], metas[i])]
            /\ row.pos = Len(body)
            /\ \A i \in 1..Len(metas) :
                 LET d == descs[i]
                     prefix == IF Basic(metas[i]) \in VarTypes THEN 2 ELSE 0
                 IN  /\ GetTdBasicType(d.type) = Basic(metas[i])
                     /\ d.type % 2 = 1
                     /\ IF Basic(metas[i]) = tdNumber
                        THEN d.length >= Len(d.encoded)
                        ELSE d.length = Len(d.encoded) - prefix

-----------------------------------------------------------------------------
(* FastLoad rows.                                                          *)

Widths == {10, 31990, 63990, 63993, 65524, 65528}

LoadMetas ==
    {Meta(tdInteger, 4, 0, 0), Meta(tdDateAnsi, 4, 0, 0), Meta(tdFloat, 8, 0, 0),
     Meta(tdDecimal, 8, 10, 2), Meta(tdNumber, 18, 0, 0),
     Meta(tdTimestampTZ, 32, 0, 6)}
      \cup {Meta(tdVarchar, n, 0, 0) : n \in Widths}
      \cup {Meta(tdByte, n, 0, 0) : n \in Widths}

LayOut ==
    /\ Idle
    /\ \E metas \in SeqOf(LoadMetas, 2) \cup {Repeat(m, 8) : m \in LoadMetas},
          large \in BOOLEAN :
          /\ metas # <<>>
          /\ Take("layout", [metas |-> metas, large |-> large])

Encoders(metas, large) ==
    [i \in 1..Len(metas) |-> Encoder(metas[i], large)]

(* A table the load query accepts is one the data channels accept: its     *)
(* widest row, with the parcel around it, fits the 16-bit length of a      *)
(* parcel and the smallest message, although query and channel add up      *)
(* sizes of their own.                                                     *)
LoadRowsFit ==
    Is("layout") =>
        LET es == Encoders(input.x.metas, input.x.large)
        IN  /\ \A m \in ToSet(input.x.metas) : Encodable(m)
            /\ UsingAdmits(es) => ChannelAdmits(es, 65535)
            /\ \A i \in 1..Len(es) : MaxWireBytes(es[i]) <= es[i].rowBytes

V(v) == [null |-> FALSE, text |-> FALSE, v |-> v]
T(t) == [null |-> FALSE, text |-> TRUE, v |-> t]
LoadNull == [null |-> TRUE, text |-> FALSE]

Clock(n) == Repeat(49, n)

(* A column, values it takes and values it refuses.                        *)
LoadKinds ==
    <<<<Meta(tdInteger, 4, 0, 0), {V(-70000), T(Text(TRUE, <<1, 2>>, <<9>>))}, {}>>,
      <<Meta(tdSmallInt, 2, 0, 0), {V(-32768)},
        {V(32768), T(Text(TRUE, <<3, 2, 7, 6, 9>>, <<>>))}>>,
      <<Meta(tdByteInt, 1, 0, 0), {V(127), T(Text(FALSE, <<1, 2, 7>>, <<9>>))},
        {V(-129)}>>,
      <<Meta(tdFloat, 8, 0, 0), {V(-5)}, {}>>,
      <<Meta(tdDateAnsi, 4, 0, 0), {V(Old), V(Leap)}, {}>>,
      <<Meta(tdDecimal, 8, 10, 2),
        {V(-5), T(Text(FALSE, <<1>>, <<2, 5, 5>>)), T(Text(TRUE, <<0>>, <<0, 0, 5>>))},
        {}>>,
      <<Meta(tdNumber, 18, 0, 0), {V(0), V(1200), T(Text(TRUE, <<0>>, <<0, 3>>))}, {}>>,
      <<Meta(tdVarchar, 3, 0, 0), {V(<<>>), V(<<65, 66, 67>>)}, {V(Repeat(65, 4))}>>,
      <<Meta(tdByte, 2, 0, 0), {V(<<9>>)}, {V(<<1, 2, 3>>)}>>,
      <<Meta(tdTimestamp, 23, 0, 3),
        {V(Clock(19)), V(Clock(19) \o <<Point, 50>>),
         V(Clock(19) \o <<Point>> \o Repeat(50, 6))}, {V(Clock(10))}>>,
      <<Meta(tdTimeTZ, 14, 0, 0),
        {V(Clock(8) \o <<43>> \o Clock(5)),
         V(Clock(8) \o <<Point, 50, 45>> \o Clock(5))}, {V(Clock(8))}>>>>

LoadValues(kind) == {LoadNull} \cup kind[2] \cup kind[3]

RowNumbers == {1, 256, 2147483647}

Eight == SubSeq(LoadKinds, 1, 4) \o SubSeq(LoadKinds, 7, 10)

AddRow ==
    /\ Idle
    /\ \E large \in BOOLEAN, rowNumber \in RowNumbers :
          \/ \E k1, k2 \in ToSet(LoadKinds) :
              \E v1 \in LoadValues(k1), v2 \in LoadValues(k2) :
                 Take("loadrow", [metas |-> <<k1[1], k2[1]>>, vals |-> <<v1, v2>>,
                                  refused |-> v1 \in k1[3] \/ v2 \in k2[3],
                                  large |-> large, rowNumber |-> rowNumber])
          \/ \E nulls \in SUBSET (1..8) :
                 Take("loadrow",
                      [metas |-> [i \in 1..8 |-> Eight[i][1]],
                       vals |-> [i \in 1..8 |-> IF i \in nulls THEN LoadNull
                                   ELSE CHOOSE v \in Eight[i][2] : TRUE],
                       refused |-> FALSE,
                       large |-> large, rowNumber |-> rowNumber])

(* What the bytes of a column mean to the server, against the value given: *)
(* exact numbers are equal or, in a DECIMAL, the nearest; integers are cut *)
(* towards zero; a time keeps its seconds and its offset.                  *)
Means(e, val, col) ==
    LET n == Num(val)
        s == Max({n.scale, e.scale})
        d == DecodeNumber(col)
        at == Len(val.v) - 6
    IN  CASE e.type \in IntTypes ->
                /\ Abs(Signed(col) * 10^n.scale) <= Abs(n.unscaled)
                /\ Abs(n.unscaled - Signed(col) * 10^n.scale) < 10^n.scale
          [] e.type = tdFloat -> Signed(col) = val.v
          [] e.type \in DateTypes -> DateOf(Signed(col)) = val.v
          [] e.type = tdDecimal ->
                2 * Abs(Signed(col) * 10^(s - e.scale) - n.unscaled * 10^(s - n.scale))
                  <= 10^(s - e.scale)
          [] e.type = tdNumber ->
                SameValue(d.unscaled, d.scale, n.unscaled, Max({n.scale, d.scale}))
          [] e.type \in TextTypes \cup ByteTypes -> SubSeq(col, 3, Len(col)) = val.v
          [] OTHER ->
                /\ Len(col) = e.width
                /\ SubSeq(col, 1, BaseLen(e.type)) = SubSeq(val.v, 1, BaseLen(e.type))
                /\ HasZone(e.type) => IsSuffix(SubSeq(val.v, at + 1, at + 6), col)

(* The server, which cuts a row up by the types of the USING clause, finds *)
(* every value or its null bit, and the row number behind the last column, *)
(* which is also what the error table's record gives back; no row exceeds  *)
(* what was reckoned for it; and a row is refused exactly when one of its  *)
(* values does not fit its column.                                         *)
LoadedRowsAreRead ==
    Is("loadrow") =>
        LET es == Encoders(input.x.metas, input.x.large)
            vals == input.x.vals
            row == FastLoadRow(es, vals, input.x.rowNumber)
            server == ServerColumns(es, row)
        IN  IF input.x.refused \/ row = Unsupported
            THEN input.x.refused /\ row = Unsupported
            ELSE /\ Len(row) <= FastLoadMaxRowBytes(es)
                 /\ server.pos + 4 = Len(row)
                 /\ Unsigned(At(row, server.pos, 4)) = input.x.rowNumber
                 /\ ErrorRowNumber(row) = input.x.rowNumber
                 /\ \A i \in 1..Len(es) :
                      /\ IsNull(row, i - 1) = vals[i].null
                      /\ vals[i].null \/ Means(es[i], vals[i], server.cols[i])

-----------------------------------------------------------------------------
(* Connection strings.                                                     *)

TextValues(f) == IF f \in DOMAIN Modes THEN Modes[f] \cup {""} ELSE {"", "x"}

NumValues(f) == CASE f = "TIMEOUT" -> {0, 1000, 60000, 90000}
                  [] f = "CONNECT_FUNCTION" -> 0..2
                  [] OTHER -> {-1, 0, 443, 1000}

FieldValues(group, f) == CASE group = "flags" -> BOOLEAN
                           [] group = "nums" -> NumValues(f)
                           [] OTHER -> TextValues(f)

Fields == UNION {{<<g, f>> : f \in DOMAIN NewConfig[g]} :
                    g \in {"texts", "nums", "flags"}}

Set(c, field, v) == [c EXCEPT ![field[1]][field[2]] = v]

Configured ==
    /\ Idle
    /\ \E f1, f2 \in Fields :
        \E v1 \in FieldValues(f1[1], f1[2]), v2 \in FieldValues(f2[1], f2[2]) :
           Take("dsn", [config |-> Set(Set(NewConfig, f1, v1), f2, v2)])

(* A configuration written as a connection string and read again is the    *)
(* same one once its zero values are taken for the defaults, but for what  *)
(* ToDSN leaves out (the port, LOB_PREFETCH, a password without a user):   *)
(* every parameter left out is read as the value it was left out for.      *)
(* Timeouts are of whole seconds, modes are among the allowed ones.        *)
DsnRoundTrips ==
    Is("dsn") =>
        LET c == Normalize(input.x.config)
            nobody == c.texts["USER"] = ""
        IN  ParseDSN(ToDSN(c))
              = [c EXCEPT !.nums["PORT"] = 1025,
                          !.flags["LOB_PREFETCH"] = FALSE,
                          !.texts["PASSWORD"] = IF nobody THEN "" ELSE @]

-----------------------------------------------------------------------------
(* The next input; a codec keeps nothing from the one before. *)
Finish == input # NoInput /\ input' = NoInput

Next == \/ Send \/ Negotiate \/ Configure \/ Describe \/ Inform \/ Secure
        \/ EncodeNum \/ Decimal \/ Bind \/ LayOut \/ AddRow \/ Configured
        \/ Finish

Spec == Init /\ [][Next]_input

-----------------------------------------------------------------------------
(* The properties together.                                                *)

(* Messages and responses come apart by the lengths in them, and carry the *)
(* options and features that were negotiated.                              *)
ParcelsWalk == MessagesWalk /\ OptionsAreSent /\ FeaturesAreRead

(* Numbers, decimals and rows of parameters are read back as written.      *)
ValuesRoundTrip == NumbersRoundTrip /\ DecimalsRoundTrip /\ ParamsRoundTrip
=============================================================================
