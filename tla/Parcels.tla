------------------------------- MODULE Parcels -------------------------------
(***************************************************************************)
(* The messages the driver sends (parcels_request.go, params.go, lob.go,   *)
(* packet.go, packet_header.go, tls.go).  A request parcel declares its    *)
(* length (getLength) and then writes its fields (write) with code of its  *)
(* own; here it is the declared length and the widths of the fields.  The  *)
(* message buffer is sized from the declared lengths, and the receiver     *)
(* finds a parcel by walking them.                                         *)
(***************************************************************************)
EXTENDS Bytes

ParcelHeaderLen == 4
LanHeaderLen == 52

Parcel(flavor, len, fields) ==
    [flavor |-> flavor, len |-> ParcelHeaderLen + len,
     fields |-> <<2, 2>> \o fields]

Tlv16(n) == 4 + n

PaddedTo(n, len) == Max({n, len})

-----------------------------------------------------------------------------
(* Handshake and logon.                                                    *)

ClientConfig(redrive) ==
    Parcel(166,
           4 + (4 + 4) + (4 + 12) + (4 + 1) + (4 + 1) + 4 + 4
             + (IF redrive >= 1 THEN 8 + 1 ELSE 0)
             + (IF redrive >= 2 THEN 4 ELSE 0)
             + (IF redrive >= 3 THEN 4 ELSE 0),
           <<4, Tlv16(4), Tlv16(12)>>
             \o (IF redrive >= 1 THEN <<Tlv16(0), Tlv16(1)>> ELSE <<>>)
             \o (IF redrive >= 2 THEN <<Tlv16(0)>> ELSE <<>>)
             \o (IF redrive >= 3 THEN <<Tlv16(0)>> ELSE <<>>)
             \o <<Tlv16(1), Tlv16(1), Tlv16(0), Tlv16(0)>>)

SsoRequest(auth) == Parcel(132, 4 + auth, <<1, 1, 2, auth>>)

Assign(user) == Parcel(100, PaddedTo(32, user), <<PaddedTo(32, user)>>)

(* "user","password": five characters around the two names.                *)
Logon(user, pass) == Parcel(36, user + pass + 5, <<user + pass + 5>>)

SessionOptions == Parcel(114, 10, <<10>>)

(* The partition is padded to 16 characters and never cut.                 *)
Connect(partition) ==
    Parcel(88, 24, <<PaddedTo(16, partition), 4, 2, 2>>)

LogonData(n) == Parcel(3, n, <<n>>)

AttrString(n) == IF n = 0 THEN <<>> ELSE <<2, 2, 1, n>>
AttrU16 == <<2, 2, 2>>
AttrByte == <<2, 2, 1>>
AttrEnd == <<2, 2>>

(* The attribute data is built first and its length taken from it.         *)
ClientAttributes(names, addr, unity) ==
    LET data == FlattenSeq([i \in 1..Len(names) |-> AttrString(names[i])])
                  \o (IF unity THEN AttrString(addr) \o AttrU16
                                    \o AttrString(addr) \o AttrU16
                      ELSE <<>>)
                  \o AttrByte \o AttrEnd
    IN  Parcel(189, SumSeq(data), data)

Logoff == Parcel(37, 0, <<>>)

-----------------------------------------------------------------------------
(* Requests.                                                               *)

(* indicRequestParcel overrides getFlavor but not write, and the embedded   *)
(* requestParcel's write puts its own flavor, 1, on the wire.              *)
Request(text) == Parcel(1, text, <<text>>)

Cancel == Parcel(7, 0, <<>>)

Respond(flavor) == Parcel(flavor, 2, <<2>>)
BigRespond(flavor) == Parcel(flavor, 4, <<4>>)
SlobRespond == Parcel(215, 16, <<8, 8>>)

(* getRespondParcel: kept for LOBs, with 32-bit sizes where the server     *)
(* takes alternate parcel headers.                                         *)
GetRespond(keep, aph) ==
    IF aph THEN BigRespond(IF keep THEN 154 ELSE 153)
           ELSE Respond(IF keep THEN 5 ELSE 4)

(* The bytes of the options parcel in the order they are written; the      *)
(* first ten always, the others only while the declared length lasts.      *)
OptionBytes ==
    <<"requestMode", "dbcFunction", "lobSelect", "clobTranslate", "aph",
      "statementInfo", "udtOff", "maxDecimal", "generatedKeys", "dynamic",
      "spReturn", "period", "extNames", "trust", "independence", "array",
      "xml", "failFast", "unity", "sendSP", "largeRows", "catalog">>

OptionFlags == {"dynamic", "extNames", "period", "trust", "array", "xml",
                "failFast", "largeRows", "catalog"}

\* Mutant: array support alone does not lengthen the parcel.
OptionsLengthNoArray(on) ==
    IF "largeRows" \in on THEN 21
    ELSE IF on \cap {"xml", "failFast"} # {} THEN 18
    ELSE IF on \cap {"extNames", "period", "trust"} # {} THEN 15
    ELSE IF "dynamic" \in on THEN 11
    ELSE 10

OptionsLength(on) ==
    IF "largeRows" \in on THEN 21
    ELSE IF on \cap {"xml", "failFast"} # {} THEN 18
    ELSE IF "array" \in on THEN 16
    ELSE IF on \cap {"extNames", "period", "trust"} # {} THEN 15
    ELSE IF "dynamic" \in on THEN 11
    ELSE 10

OptionsSent(on) ==
    SubSeq(OptionBytes, 1, Min({OptionsLength(on), Len(OptionBytes)}))

Options(on) ==
    LET sent == Len(OptionsSent(on))
    IN  Parcel(85, OptionsLength(on),
               Repeat(1, sent) \o <<OptionsLength(on) - sent>>)

DataInfo(encoded) ==
    Parcel(71, 2 + 4 * Len(encoded), <<2>> \o Repeat(2, 2 * Len(encoded)))

\* Mutant: the closing entry is left out of the length.
StatementInfoRequestShort(encoded) ==
    Parcel(169, 22 * Len(encoded),
           FlattenSeq(Repeat(<<2, 2, 2, 2, 8, 2, 2, 2>>, Len(encoded)))
             \o <<2, 2, 2>>)

StatementInfoRequest(encoded) ==
    Parcel(169, 6 * Len(encoded) + 16 * Len(encoded) + 6,
           FlattenSeq(Repeat(<<2, 2, 2, 2, 8, 2, 2, 2>>, Len(encoded)))
             \o <<2, 2, 2>>)

StatementInfoEnd == Parcel(170, 0, <<>>)

IndicData(encoded) ==
    Parcel(68, NullMapLen(Len(encoded)) + SumSeq(encoded),
           <<NullMapLen(Len(encoded))>> \o encoded)

LobDataInfo == Parcel(71, 2 + 4, <<2, 2, 2>>)
LobIndicData(locator) == Parcel(68, 1 + 2 + locator, <<1, 2, locator>>)

LoadRow(row) == Parcel(68, row, <<row>>)

-----------------------------------------------------------------------------
(* The messages, each the parcels of one writeLanMessage.                  *)

ParamParcels(encoded, infoRequest) ==
    IF encoded = <<>> THEN <<>>
    ELSE IF infoRequest
         THEN <<StatementInfoRequest(encoded), StatementInfoEnd,
                IndicData(encoded)>>
         ELSE <<DataInfo(encoded), IndicData(encoded)>>

ConfigMessage(redrive) == <<ClientConfig(redrive)>>

(* The secure channel's first message: 80 bytes of token, the cipher suite *)
(* unless TLS makes it unnecessary, and the trailer.                       *)
HandshakeMessage(user, tls) ==
    <<SsoRequest(80 + (IF tls THEN 0 ELSE 93) + 31), Assign(user)>>

KeyMessage(key) == <<SsoRequest(16 + key)>>

LogonMessage(user, pass, partition, attrs, unity) ==
    <<Logon(user, pass), SessionOptions, Connect(partition)>>
      \o (IF attrs <= 1 THEN <<LogonData(97)>> ELSE <<>>)
      \o (IF attrs >= 1
          THEN <<ClientAttributes(<<12, 4, user, 0, 20>>, 9, unity)>>
          ELSE <<>>)

PrepareMessage(on, text) == <<Options(on), Request(text), Respond(4)>>

ExecuteMessage(on, text, encoded, c) ==
    <<Options(on), Request(text)>> \o ParamParcels(encoded, c.infoRequest)
      \o (IF c.slob THEN <<SlobRespond>> ELSE <<>>)
      \o <<IF c.query THEN GetRespond(c.keep, c.aph) ELSE Respond(4)>>

LobMessage(on, locator, c) ==
    <<Options(on), Request(8), LobDataInfo, LobIndicData(locator),
      SlobRespond, GetRespond(c.keep, c.aph)>>

ContinueMessage(c) == <<GetRespond(c.keep, c.aph)>>

LoadMessage(rows) ==
    [i \in 1..Len(rows) |-> LoadRow(rows[i])] \o <<Respond(4)>>

-----------------------------------------------------------------------------
(* Framing.                                                                *)

BodyLen(parcels) == SumSeq([i \in 1..Len(parcels) |-> parcels[i].len])

GetWsFrameLength(tls, n) ==
    IF ~tls THEN 0 ELSE IF n <= 125 THEN 2 ELSE IF n <= 65535 THEN 4 ELSE 10

WsFrameHeader(tls, n) ==
    IF ~tls THEN <<>>
    ELSE IF n <= 125 THEN <<130, n>>
    ELSE IF n <= 65535 THEN <<130, 126>> \o Uint(n, 2)
    ELSE <<130, 127, 0, 0, 0, 0>> \o Uint(n, 4)

ReadWsFrameHeader(b) ==
    LET len == b[2] % 128
    IN  IF b[1] < 128 \/ b[1] % 16 # 2 THEN [ok |-> FALSE, len |-> 0, used |-> 2]
        ELSE IF len = 126
             THEN [ok |-> TRUE, len |-> Unsigned(At(b, 2, 2)), used |-> 4]
        ELSE IF len = 127
             THEN [ok |-> TRUE, len |-> Unsigned(At(b, 2, 8)), used |-> 10]
        ELSE [ok |-> TRUE, len |-> len, used |-> 2]

(* The header is written with no length; writeLanMessage patches the two   *)
(* halves in once the body is complete.                                    *)
PatchLength(h, len) ==
    [i \in 1..Len(h) |->
        IF i \in 4..5 THEN Uint(len \div 65536, 2)[i - 3]
        ELSE IF i \in 9..10 THEN Uint(len % 65536, 2)[i - 8]
        ELSE h[i]]

LanHeader(h, len) ==
    LET w == <<3, 1, h.kind>> \o Uint(0, 2) \o <<h.byteVar>> \o Uint(0, 2)
               \o Uint(0, 2) \o Repeat(0, 6) \o Uint(0, 4)
               \o Uint(h.sessionNo, 4) \o Uint(h.nonce, 8)
               \o Uint(h.requestNo, 4) \o <<0, 255>>
    IN  PatchLength(w \o Repeat(0, LanHeaderLen - Len(w)), len)

LanHeaderFromBuffer(b) ==
    [kind |-> b[3], byteVar |-> b[6], sessionNo |-> Unsigned(At(b, 20, 4)),
     nonce |-> Unsigned(At(b, 24, 8)), requestNo |-> Unsigned(At(b, 32, 4)),
     bodyLen |-> Unsigned(At(b, 3, 2)) * 65536 + Unsigned(At(b, 8, 2))]

(* Where a parcel starts in the body: a parcel that wrote fewer bytes than *)
(* it declared is padded, one that wrote more runs into the next.          *)
WrittenBytes(p) == PaddedTo(p.len, SumSeq(p.fields))

Starts(parcels) ==
    [i \in 1..Len(parcels) + 1 |->
        SumSeq([j \in 1..i - 1 |-> WrittenBytes(parcels[j])])]

(* The receiver starts at the first parcel and steps by the 16-bit length  *)
(* it finds in each.                                                       *)
Found(parcels) ==
    [i \in 1..Len(parcels) + 1 |->
        SumSeq([j \in 1..i - 1 |-> parcels[j].len % 65536])]
=============================================================================
