------------------------------ MODULE Responses ------------------------------
(***************************************************************************)
(* What the driver reads out of the parcels that describe a session and a  *)
(* statement (parcels_response.go, connection.go): the server's features,  *)
(* the entries of status and mechanism parcels, and the tree of parameters *)
(* and columns.  Lengths are the parcels' own, header included.            *)
(***************************************************************************)
EXTENDS Parcels, Columns

-----------------------------------------------------------------------------
(* Parcels that end in a list of entries.  A walk visits the entries of    *)
(* the given sizes from "start" on while its loop's condition holds.       *)

Walk(start, sizes, continues(_)) ==
    FoldLeft(LAMBDA acc, n :
                IF acc.stopped \/ ~continues(acc.pos)
                THEN [acc EXCEPT !.stopped = TRUE]
                ELSE [acc EXCEPT !.pos = @ + n, !.visited = @ + 1],
             [pos |-> start, visited |-> 0, stopped |-> FALSE], sizes)

(* determineFeatureSupport, positions counted from the parcel's flavor.    *)
FeatureContinues(pos, length) == pos + 4 < length

(* The configuration's fixed part and its three lists.                     *)
FeatureStart(ifps, amps, charSets) ==
    14 + (2 + 4 * ifps) + (2 + 2 * amps) + 2 + (2 + 32 * charSets) + 7

(* Mechanism properties and status extensions, counted from the body.      *)
AuthMechContinues(pos, length) == pos + 8 < length
StatusContinues(pos, length) == pos + 6 < length

MechStart(oid) == 4 + 4 + oid
StatusStart == 28

-----------------------------------------------------------------------------
(* The features, as the byte ranges read from a tag of a given length.     *)

Bytes1(offsets) == {<<o, 1>> : o \in offsets}

\* Mutant: a feature's byte is read from a tag that ends before it.
GuardedOneEarly(offsets, len) == Bytes1({o \in offsets : len >= o})

(* "if tagLen > o": the byte at o is there.                                *)
Guarded(offsets, len) == Bytes1({o \in offsets : len > o})

LimitReads(len) ==
    {<<2, 2>>, <<4, 4>>}
      \cup (IF len > 116 THEN {<<12, 8>>, <<8, 4>>}
                                \cup {<<20 + 4 * i, 4>> : i \in 0..24}
            ELSE {})
      \cup {<<o, 4>> : o \in {o \in {120, 124, 128} : len > o}}

FeatureReads(tag, len) ==
    CASE tag = 7 -> LimitReads(len)
      [] tag = 10 -> Bytes1({1, 3, 4, 5, 11})
                       \cup Guarded({13, 16, 21, 24, 25, 27, 28, 29}, len)
      [] tag = 11 -> Bytes1({0, 1, 2})
                       \cup Guarded((3..7) \cup (9..19) \cup {21, 22}
                                      \cup (24..27) \cup {30, 31, 33}, len)
      [] tag = 12 -> Guarded({1, 2, 4}, len)
      [] tag = 13 -> {<<0, 30>>, <<30, 32>>}
      [] tag = 14 -> Bytes1(0..3)
      [] OTHER -> {}

(* Where a request option's feature is announced.                          *)
FeatureOf(option) ==
    CASE option = "dynamic" -> <<11, 9>>
      [] option = "extNames" -> <<14, 3>>
      [] option = "period" -> <<11, 13>>
      [] option = "trust" -> <<10, 13>>
      [] option = "array" -> <<10, 1>>
      [] option = "xml" -> <<10, 16>>
      [] option = "failFast" -> <<11, 26>>
      [] option = "catalog" -> <<10, 28>>

(* newConnectionCapabilities and newOptionsParcel: "lens" gives the length *)
(* of each tag sent, "offered" the features whose lowest bit is set,       *)
(* "maxRow" the largest row of a response.                                 *)
TurnedOn(lens, offered, maxRow) ==
    {o \in OptionFlags \ {"largeRows"} :
        /\ o \in offered
        /\ FeatureOf(o)[1] \in DOMAIN lens
        /\ <<FeatureOf(o)[2], 1>>
             \in FeatureReads(FeatureOf(o)[1], lens[FeatureOf(o)[1]])}
      \cup (IF /\ 7 \in DOMAIN lens
               /\ <<124, 4>> \in FeatureReads(7, lens[7])
               /\ maxRow > 64768
            THEN {"largeRows"} ELSE {})

-----------------------------------------------------------------------------
(* Statement information.  An item is [layout, content, type, depth] and,  *)
(* for a full item, the length of its names and how much of the optional   *)
(* tail the server sends: nothing, the structure fields, the array fields  *)
(* as well, the catalog name as well.                                      *)

FullFixed == 60

StructTail(item) == 7 + item.attrName
ArrayTail(item) == 2 + 8 * item.dims
CatalogTail(item) == 2 + item.catalog

ContentLen(item) ==
    CASE item.layout = 1 ->
            FullFixed + item.names
              + (IF item.tail >= 1 THEN StructTail(item) ELSE 0)
              + (IF item.tail >= 2 THEN ArrayTail(item) ELSE 0)
              + (IF item.tail >= 3 THEN CatalogTail(item) ELSE 0)
      [] item.layout = 2 -> 16
      [] OTHER -> 0

\* Mutant: the structure fields of an unnamed attribute are taken as absent.
HasStructTailNamed(left) == left > 7

HasStructTail(left) == left >= 7

(* statementInfoMetaDataFull.read: the tail is read as far as it goes.     *)
ReadFull(item) ==
    LET left == ContentLen(item) - FullFixed - item.names
        afterStruct == IF HasStructTail(left) THEN left - StructTail(item)
                                              ELSE left
        afterArray == IF afterStruct >= 2 THEN afterStruct - ArrayTail(item)
                                          ELSE afterStruct
    IN  [depth |-> IF HasStructTail(left) THEN item.depth ELSE 0,
         dims |-> IF afterStruct >= 2 THEN item.dims ELSE 0,
         catalog |-> IF afterArray >= 2 THEN item.catalog ELSE 0]

IsNested(type) == GetTdBasicType(type) \in {440, 504, 508}

Info0 == [rnum |-> 1, tnum |-> 1, stack |-> <<>>,
          lists |-> [c \in 1..6 |-> <<>>], attrs |-> <<>>,
          rcv |-> <<>>, trn |-> <<>>]

(* Full items on the stack that are not above the new one are left.        *)
Popped(stack, items, depth) ==
    LET keep == {k \in 0..Len(stack) :
                   k = 0 \/ ReadFull(items[stack[k]]).depth < depth}
    IN  SubSeq(stack, 1, Max(keep))

Number(info, i, item) ==
    LET mode == GetTdParameterMode(item.type)
        counts == item.layout \in {1, 2}
        r == counts /\ mode # ParamModeIn
        t == counts /\ mode # ParamModeOut
    IN  [info EXCEPT !.rcv = Append(@, IF r THEN info.rnum ELSE 0),
                     !.trn = Append(@, IF t THEN info.tnum ELSE 0),
                     !.rnum = IF r THEN @ + 1 ELSE @,
                     !.tnum = IF t THEN @ + 1 ELSE @]

Attach(info, i, items) ==
    LET item == items[i]
        full == item.layout = 1
        stack == IF full
                 THEN Popped(info.stack, items, ReadFull(item).depth)
                 ELSE info.stack
        nests == full /\ stack # <<>>
    IN  [info EXCEPT
           !.stack = IF full /\ IsNested(item.type) THEN Append(stack, i)
                                                    ELSE stack,
           !.attrs = Append(@, IF nests THEN Last(stack) ELSE 0),
           !.lists = IF ~nests /\ item.content \in 1..6
                     THEN [@ EXCEPT ![item.content] = Append(@, i)] ELSE @]

ReadItem(info, i, items) ==
    LET n == Number(info, i, items[i])
    IN  IF items[i].layout # 4 THEN Attach(n, i, items)
        ELSE [n EXCEPT !.stack = <<>>, !.rnum = 1, !.tnum = 1,
                       !.attrs = Append(@, 0)]

(* fromBuffer counts the parcel's length down by the items' and so has the *)
(* header's length left after the last: it reads once more, and takes the  *)
(* flavor and the length of the parcel that follows for a layout and a     *)
(* content.  "next" is that parcel; it is not a full or limited item.      *)
StatementInfo(items, next) ==
    LET seen == items \o <<[layout |-> next.flavor, content |-> next.len,
                            type |-> 0, depth |-> 0]>>
    IN  FoldLeft(LAMBDA info, i : ReadItem(info, i, seen), Info0,
                 [i \in 1..Len(seen) |-> i])
=============================================================================
