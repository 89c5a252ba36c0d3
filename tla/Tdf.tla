------------------------------- MODULE Tdf -------------------------------
(***************************************************************************)
(* The TDF codec that every FIRE payload of the server goes through, and   *)
(* the FIRE2 packet built on it: Fire2Encoder.go, Fire2Decoder.go, Fire2.go *)
(* and the key order of Fire2Logging.go.                                   *)
(*                                                                         *)
(* The state machine is the chain of calls on an Encoder.  The code keeps a *)
(* stack of references into one tree of maps; only the map on top is ever  *)
(* written, so the tree (payload) and the tags that lead to the top (path) *)
(* say the same.                                                           *)
(*                                                                         *)
(* A Go value is a tuple that starts with its type, a string or tag is the *)
(* sequence of its bytes, a struct the function from its tags to values.   *)
(* The bytes on the wire are the real ones.  Integers have Width bits where *)
(* Go has 64, so that their largest and smallest values are in reach; a    *)
(* uint16 and a uint32 have a quarter and a half of them.                  *)
(***************************************************************************)
EXTENDS Integers, Sequences, FiniteSets, SequencesExt, FiniteSetsExt, Functions, TLC

CONSTANTS
  Width,        \* bits of an int64
  Tags,         \* field names in use
  Values,       \* values set with Integer, String, ..., Variable and Raw
  Lists,        \* argument lists of List: <<element type, elements>>
  Maps,         \* argument lists of Map: sequences of <<key, value>>
  MessageTypes, MessageNumbers, UserIndexes,   \* header values in use
  Metadatas,    \* metadata structs a Packet is sent with
  MaxCalls, MaxDepth                           \* bounds of one chain of calls

ASSUME WidthAssumption == Width \in {8, 12, 16, 20, 24}

VARIABLES header, payload, path, calls

tdfVars == <<header, payload, path, calls>>

Nothing == [t \in {} |-> t]
Nil == <<"nil">>
Put(f, k, v) == (k :> v) @@ f

----------------------------------------------------------------------------
(* Integers and tags *)

Signed(n) == LET u == n % 2^Width IN IF u >= 2^(Width - 1) THEN u - 2^Width ELSE u
Short(n) == n % 2^(Width \div 4)
Long(n) == n % 2^(Width \div 2)

\* Six bits of the magnitude and the sign in the first byte, seven in each other.
EncodeVarsizeInteger(value) ==
  LET u == (IF value < 0 THEN -value ELSE value) % 2^Width
      n == Min({k \in 1 .. 4 : u < 2^(7 * k - 1)})
      more(i) == IF i < n THEN 128 ELSE 0
  IN [i \in 1 .. n |->
        IF i = 1 THEN (u % 64) + (IF value < 0 THEN 64 ELSE 0) + more(1)
                 ELSE ((u \div 2^(7 * i - 8)) % 128) + more(i)]

\* Mutant of Digits: the first byte is taken for one of seven bits.
DigitsSevenBits(buf, i) == (buf[i] % 128) * 2^(7 * i - 7)

\* What a byte that is not the first one adds: its low bits, shifted.
Digits(buf, i) == (buf[i] % 128) * 2^(7 * i - 8)

\* The value and the bytes read.  It ends with the buffer, complete or not.
DecodeVarsizeInteger(buf) ==
  IF buf = <<>> THEN <<0, 0>>
  ELSE LET ends == {i \in 2 .. Len(buf) : buf[i] < 128}
           read == IF buf[1] < 128 THEN 1
                   ELSE IF ends = {} THEN Len(buf) ELSE Min(ends)
           u == (buf[1] % 64) + MapThenSumSet(LAMBDA i : Digits(buf, i), 2 .. read)
       IN <<Signed(IF (buf[1] \div 64) % 2 = 1 THEN -u ELSE u), read>>

Upper(char) == IF char \in 97 .. 122 THEN char - 32 ELSE char

BigEndian(n, size) == [i \in 1 .. size |-> (n \div 256^(size - i)) % 256]

Number(bytes) == MapThenSumSet(LAMBDA i : bytes[i] * 256^(Len(bytes) - i), DOMAIN bytes)

\* Four characters of six bits each; a shorter tag is filled with zeros.
encodeTag(tag) ==
  BigEndian(MapThenSumSet(LAMBDA i : ((Upper(tag[i]) - 32) % 64) * 64^(4 - i),
                          1 .. Min({Len(tag), 4})), 3)

DecodeTag(bytes) ==
  LET sixbits(i) == (Number(bytes) \div 64^(4 - i)) % 64
      size == Min({i \in 1 .. 4 : sixbits(i) = 0} \cup {5}) - 1
  IN [i \in 1 .. size |-> sixbits(i) + 32]

----------------------------------------------------------------------------
(* The encoder *)

\* Byte order of Go strings.
Before(a, b) ==
  \/ IsStrictPrefix(a, b)
  \/ \E i \in 1 .. Min({Len(a), Len(b)}) :
        a[i] < b[i] /\ SubSeq(a, 1, i - 1) = SubSeq(b, 1, i - 1)

sortedKeys(fields) == SortSeq(SetToSeq(DOMAIN fields), Before)

RECURSIVE Decimal(_)
Decimal(n) == IF n < 0 THEN <<45>> \o Decimal(-n)
              ELSE IF n < 10 THEN <<48 + n>>
              ELSE Append(Decimal(n \div 10), 48 + (n % 10))

\* A key as fmt prints it.
Printed(key) == IF key[1] = "int" THEN Decimal(key[2]) ELSE key[2]

sortedMapKeys(entries) ==
  SortSeq(SetToSeq(DOMAIN entries), LAMBDA a, b : Before(Printed(a), Printed(b)))

isEmptyCollection(value) == value[1] \in {"list", "map"} /\ DOMAIN value[2] = {}

typeByte(value) ==
  CASE value[1] \in {"int", "bool"} -> 0
    [] value[1] = "str" -> 1
    [] value[1] = "blob" -> 2
    [] value[1] \in {"struct", "armed"} -> 3
    [] value[1] \in {"list", "tlist"} -> 4
    [] value[1] = "map" -> 5
    [] value[1] = "union" -> 6
    [] value[1] = "var" -> 7
    [] value[1] = "otype" -> 8
    [] value[1] = "oid" -> 9
    [] value[1] = "float" -> 10

\* The value type of a map: of a nested collection, the type of what is in it.
RECURSIVE leafType(_)
leafType(value) ==
  IF value[1] \in {"list", "map"}
  THEN IF DOMAIN value[2] = {} THEN 3
       ELSE leafType(value[2][CHOOSE i \in DOMAIN value[2] : value[1] = "list" => i = 1])
  ELSE typeByte(value)

RECURSIVE encodeStruct(_, _), encodeBody(_)

Terminator == <<0>>

\* tag, type and body of one field.
encodeField(tag, value) ==
  encodeTag(tag) \o <<typeByte(value)>> \o encodeBody(value)

\* Fields in the order of their tags, without the empty collections.
encodeFields(fields, keys) ==
  FlattenSeq([i \in DOMAIN keys |->
                IF isEmptyCollection(fields[keys[i]]) THEN <<>>
                ELSE encodeField(keys[i], fields[keys[i]])])

encodeStruct(fields, root) ==
  encodeFields(fields, sortedKeys(fields)) \o (IF root THEN <<>> ELSE Terminator)

encodeItems(elemType, items) ==
  <<elemType>> \o EncodeVarsizeInteger(Len(items))
    \o FlattenSeq([i \in DOMAIN items |-> encodeBody(items[i])])

encodeEntries(entries, keys) ==
  <<typeByte(keys[1]), leafType(entries[keys[1]])>> \o EncodeVarsizeInteger(Len(keys))
    \o FlattenSeq([i \in DOMAIN keys |-> encodeBody(keys[i]) \o encodeBody(entries[keys[i]])])

encodeMap(entries) == encodeEntries(entries, sortedMapKeys(entries))

\* Unions without an active member.
Inactive == {127, 255}

\* The body that encodeValue returns; the type it returns is typeByte.
encodeBody(value) ==
  CASE value[1] = "int" -> EncodeVarsizeInteger(value[2])
    [] value[1] = "bool" -> EncodeVarsizeInteger(IF value[2] THEN 1 ELSE 0)
    [] value[1] = "str" -> EncodeVarsizeInteger(Len(value[2]) + 1) \o value[2] \o Terminator
    [] value[1] = "blob" -> EncodeVarsizeInteger(Len(value[2])) \o value[2]
    [] value[1] = "struct" -> encodeStruct(value[2], FALSE)
    [] value[1] = "armed" -> <<value[2]>> \o encodeStruct(value[3], FALSE)
    [] value[1] = "list" -> encodeItems(typeByte(value[2][1]), value[2])
    [] value[1] = "tlist" -> encodeItems(value[2], value[3])
    [] value[1] = "map" -> encodeMap(value[2])
    [] value[1] = "float" -> value[2]
    [] value[1] = "otype" -> EncodeVarsizeInteger(value[2]) \o EncodeVarsizeInteger(value[3])
    [] value[1] = "oid" -> EncodeVarsizeInteger(value[2]) \o EncodeVarsizeInteger(value[3])
                             \o EncodeVarsizeInteger(value[4])
    [] value[1] = "union" -> <<value[2]>> \o (IF value[2] \in Inactive THEN <<>>
                                             ELSE encodeField(value[3], value[4]))
    [] value[1] = "var" -> IF value[4] = Nil THEN <<0>>
                           ELSE <<1>> \o EncodeVarsizeInteger(value[2])
                                  \o encodeField(value[3], value[4]) \o Terminator

EncodeTDF(fields) == encodeStruct(fields, TRUE)

----------------------------------------------------------------------------
(* The decoder: every reader returns <<value, bytes read>>, or -1 for bytes *)

RECURSIVE readValue(_, _), readFields(_, _, _), readItems(_, _, _, _), readEntries(_, _, _, _, _)

Invalid == <<Nil, -1>>

\* The rest of buf after n bytes.
From(buf, n) == SubSeq(buf, n + 1, Len(buf))

\* Go on with what a reader returned, unless it failed.
Then(result, Go(_, _)) == IF result[2] < 0 THEN Invalid ELSE Go(result[1], result[2])

\* Go on with an integer, which is read in any case.
ThenInteger(buf, n, Go(_, _)) == Then(DecodeVarsizeInteger(From(buf, n)), LAMBDA i, k : Go(i, n + k))

\* Mutant of Broken: a failure discards the fields already read.
BrokenEmpty(out) == <<Nothing, -1>>

\* What was read of a struct before its bytes turned out to be incomplete.
Broken(out) == <<out, -1>>

\* One field has been read, or not.
nextField(buf, read, out, tag, got) ==
  IF got[2] < 0 THEN Broken(out) ELSE readFields(buf, read + got[2], Put(out, tag, got[1]))

\* The loop of readStruct: a terminator, the end of the buffer, or a field.
readFields(buf, read, out) ==
  CASE read = Len(buf) -> <<out, read>>
    [] read < Len(buf) /\ buf[read + 1] = 0 -> <<out, read + 1>>
    [] read < Len(buf) /\ buf[read + 1] # 0 /\ Len(buf) - read < 4 -> Broken(out)
    [] OTHER -> nextField(buf, read + 4, out, DecodeTag(SubSeq(buf, read + 1, read + 3)),
                          readValue(buf[read + 4], From(buf, read + 4)))

readStruct(buf) == readFields(buf, 0, Nothing)

\* A tag, its type and its value: the member of a union or variable.
readElement(buf) ==
  IF Len(buf) < 4 THEN Invalid
  ELSE Then(readValue(buf[4], From(buf, 4)), LAMBDA value, n :
         <<<<DecodeTag(SubSeq(buf, 1, 3)), value>>, 4 + n>>)

\* A struct of a list may start with its arm, which no packed tag looks like.
readItem(elemType, buf) ==
  IF elemType = 3 /\ buf # <<>> /\ buf[1] \in 1 .. 127
  THEN Then(readStruct(From(buf, 1)), LAMBDA fields, n : <<<<"armed", buf[1], fields>>, 1 + n>>)
  ELSE readValue(elemType, buf)

readItems(elemType, count, buf, list) ==
  IF Len(list[1]) >= count THEN <<<<"list", list[1]>>, list[2]>>
  ELSE Then(readItem(elemType, From(buf, list[2])), LAMBDA value, n :
         readItems(elemType, count, buf, <<Append(list[1], value), list[2] + n>>))

readEntries(types, left, buf, off, entries) ==
  IF left <= 0 THEN <<<<"map", entries>>, off>>
  ELSE Then(readValue(types[1], From(buf, off)), LAMBDA key, n :
         Then(readValue(types[2], From(buf, off + n)), LAMBDA value, k :
           readEntries(types, left - 1, buf, off + n + k, Put(entries, key, value))))

readInteger(buf) == ThenInteger(buf, 0, LAMBDA value, n : <<<<"int", value>>, n>>)

readString(buf) ==
  ThenInteger(buf, 0, LAMBDA length, n :
    IF length < 1 \/ n + length > Len(buf) THEN Invalid
    ELSE <<<<"str", SubSeq(buf, n + 1, n + length - 1)>>, n + length>>)

\* The code panics on a negative length, and readList on a negative or very large
\* count.  No encoder writes one, nor does a cut make one; here they are read as empty.
readBlob(buf) ==
  ThenInteger(buf, 0, LAMBDA length, n :
    IF n + length > Len(buf) THEN Invalid
    ELSE <<<<"blob", SubSeq(buf, n + 1, n + length)>>, n + length>>)

readList(buf) ==
  IF buf = <<>> THEN Invalid
  ELSE ThenInteger(buf, 1, LAMBDA count, off : readItems(buf[1], count, buf, <<<<>>, off>>))

readMap(buf) ==
  IF Len(buf) < 2 THEN Invalid
  ELSE ThenInteger(buf, 2, LAMBDA count, off : readEntries(buf, count, buf, off, Nothing))

readObjectType(buf) ==
  ThenInteger(buf, 0, LAMBDA component, n :
    ThenInteger(buf, n, LAMBDA type, k : <<<<"otype", Short(component), Short(type)>>, k>>))

readObjectID(buf) ==
  Then(readObjectType(buf), LAMBDA object, n :
    ThenInteger(buf, n, LAMBDA id, k : <<<<"oid", object[2], object[3], id>>, k>>))

readUnion(buf) ==
  IF buf = <<>> THEN Invalid
  ELSE IF buf[1] \in Inactive THEN <<<<"union", buf[1], <<>>, Nil>>, 1>>
  ELSE Then(readElement(Tail(buf)), LAMBDA member, n :
         <<<<"union", buf[1], member[1], member[2]>>, 1 + n>>)

\* A variable that is present has a terminator of its own.
readVariable(buf) ==
  IF buf = <<>> THEN Invalid
  ELSE IF buf[1] = 0 THEN <<<<"var", 0, <<>>, Nil>>, 1>>
  ELSE ThenInteger(buf, 1, LAMBDA id, off :
         Then(readElement(From(buf, off)), LAMBDA member, n :
           <<<<"var", Long(id), member[1], member[2]>>,
             off + n + (IF off + n < Len(buf) /\ buf[off + n + 1] = 0 THEN 1 ELSE 0)>>))

readValue(type, buf) ==
  CASE type \in {0, 11} -> readInteger(buf)
    [] type = 1 -> readString(buf)
    [] type = 2 -> readBlob(buf)
    [] type = 3 -> Then(readStruct(buf), LAMBDA fields, n : <<<<"struct", fields>>, n>>)
    [] type = 4 -> readList(buf)
    [] type = 5 -> readMap(buf)
    [] type = 6 -> readUnion(buf)
    [] type \in {7, 12} -> readVariable(buf)
    [] type = 8 -> readObjectType(buf)
    [] type = 9 -> readObjectID(buf)
    [] type = 10 -> IF Len(buf) < 4 THEN Invalid ELSE <<<<"float", SubSeq(buf, 1, 4)>>, 4>>
    [] OTHER -> Invalid

DecodeTDF(buf) == readStruct(buf)

----------------------------------------------------------------------------
(* FIRE2 packets *)

HeaderBytes(h, fields, metadata) ==
  BigEndian(Len(fields), 4) \o BigEndian(Len(metadata), 2)
    \o BigEndian(h.component, 2) \o BigEndian(h.command, 2)
    \o BigEndian(h.messageNumber % 2^24, 3)
    \o <<((h.messageType * 32) % 256) + (h.userIndex % 32), h.options, 0>>

EncodePacket(h, fields, metadata) ==
  LET body == EncodeTDF(fields)
      meta == EncodeTDF(metadata)
  IN HeaderBytes(h, body, meta) \o meta \o body

\* A packet from its parts: of a payload that is broken nothing is kept.
packetOf(buf, metadata, errCode, got) ==
  LET at(first, size) == Number(SubSeq(buf, first, first + size - 1))
  IN [header |-> [component |-> at(7, 2), command |-> at(9, 2), messageNumber |-> at(11, 3),
                  messageType |-> buf[14] \div 32, userIndex |-> buf[14] % 32, options |-> buf[15]],
      metadata |-> metadata,
      payload |-> IF got[2] < 0 THEN Nothing ELSE got[1],
      error |-> IF buf[14] \div 32 = 3 \/ errCode # 0 THEN <<at(7, 2), errCode>> ELSE Nil]

ERRC == <<69, 82, 82, 67>>

\* Mutant: the code is not cut to its 32 bits.
errorCodeWhole(metadata) ==
  IF ERRC \in DOMAIN metadata /\ metadata[ERRC][1] = "int" THEN metadata[ERRC][2] ELSE 0

errorCode(metadata) ==
  IF ERRC \in DOMAIN metadata /\ metadata[ERRC][1] = "int" THEN Long(metadata[ERRC][2]) ELSE 0

\* The metadata, and behind it the payload.
bodyOf(buf, size) ==
  LET metadata == readStruct(SubSeq(buf, 17, 16 + size))[1]
  IN packetOf(buf, metadata, errorCode(metadata), readStruct(From(buf, 16 + size)))

Fire2Decoder(buf) ==
  IF Len(buf) < 16 THEN Nil ELSE bodyOf(buf, Number(SubSeq(buf, 5, 6)))

----------------------------------------------------------------------------
(* The chain of calls on an Encoder *)

\* Fire2Encoder: an empty root payload.
TdfInit ==
  /\ header \in [component : {9}, command : {7}, messageNumber : {0},
                 messageType : MessageTypes, userIndex : {0}, options : {0}]
  /\ payload = Nothing
  /\ path = <<>>
  /\ calls = 0

\* e.top()[tag] = value, seen from the root.
RECURSIVE SetAt(_, _, _, _)
SetAt(fields, tags, tag, value) ==
  IF tags = <<>> THEN Put(fields, tag, value)
  ELSE Put(fields, Head(tags),
           <<"struct", SetAt(fields[Head(tags)][2], Tail(tags), tag, value)>>)

Call == calls < MaxCalls /\ calls' = calls + 1

SetTop(tag, value) == payload' = SetAt(payload, path, tag, value)

\* Integer, String, Bool, Blob, Float, ObjectType, ObjectID, Union, Variable, Raw.
SetValue(tag, value) ==
  /\ Call
  /\ SetTop(tag, value)
  /\ UNCHANGED <<header, path>>

BeginStruct(tag) ==
  /\ Call
  /\ Len(path) < MaxDepth
  /\ SetTop(tag, <<"struct", Nothing>>)
  /\ path' = Append(path, tag)
  /\ UNCHANGED header

EndStruct ==
  /\ Call
  /\ path' = IF path = <<>> THEN path ELSE Front(path)
  /\ UNCHANGED <<header, payload>>

\* In a list or map of integers a bool becomes one.
coerce(type, value) ==
  IF type \in {0, 11} /\ value[1] = "bool" THEN <<"int", IF value[2] THEN 1 ELSE 0>> ELSE value

List(tag, elemType, elems) ==
  /\ Call
  /\ SetTop(tag, <<"list", [i \in DOMAIN elems |-> coerce(elemType, elems[i])]>>)
  /\ UNCHANGED <<header, path>>

\* A later entry replaces an earlier one with the same key.
Map(tag, keyType, valType, entries) ==
  LET key(i) == coerce(keyType, entries[i][1])
      last(k) == Max({i \in DOMAIN entries : key(i) = k})
  IN /\ Call
     /\ SetTop(tag, <<"map", [k \in {key(i) : i \in DOMAIN entries} |->
                                coerce(valType, entries[last(k)][2])]>>)
     /\ UNCHANGED <<header, path>>

MsgNum(number) ==
  /\ Call
  /\ header' = [header EXCEPT !.messageNumber = number]
  /\ UNCHANGED <<payload, path>>

UserIndex(index) ==
  /\ Call
  /\ header' = [header EXCEPT !.userIndex = index]
  /\ UNCHANGED <<payload, path>>

TdfNext ==
  \/ \E tag \in Tags :
       \/ \E value \in Values : SetValue(tag, value)
       \/ \E args \in Lists : List(tag, args[1], args[2])
       \/ \E args \in Maps : Map(tag, args[1], args[2], args[3])
       \/ BeginStruct(tag)
  \/ EndStruct
  \/ \E number \in MessageNumbers : MsgNum(number)
  \/ \E index \in UserIndexes : UserIndex(index)

TdfSpec == TdfInit /\ [][TdfNext]_tdfVars

----------------------------------------------------------------------------
(* Properties *)

\* What a reader may expect of a value: bools are integers, typed lists plain
\* lists, tags upper-case with four characters, empty collections of a struct
\* gone, inactive unions and absent variables bare.
RECURSIVE Canon(_)
CanonTag(tag) == [i \in 1 .. Min({Len(tag), 4}) |-> Upper(tag[i])]
CanonFields(fields) ==
  LET kept == {t \in DOMAIN fields : ~isEmptyCollection(fields[t])}
  IN [t \in {CanonTag(k) : k \in kept} |-> Canon(fields[CHOOSE k \in kept : CanonTag(k) = t])]
Canon(value) ==
  CASE value[1] = "bool" -> <<"int", IF value[2] THEN 1 ELSE 0>>
    [] value[1] = "struct" -> <<"struct", CanonFields(value[2])>>
    [] value[1] = "armed" -> <<"armed", value[2], CanonFields(value[3])>>
    [] value[1] = "list" -> <<"list", [i \in DOMAIN value[2] |-> Canon(value[2][i])]>>
    [] value[1] = "tlist" -> <<"list", [i \in DOMAIN value[3] |-> Canon(value[3][i])]>>
    [] value[1] = "map" -> <<"map", [k \in DOMAIN value[2] |-> Canon(value[2][k])]>>
    [] value[1] = "union" /\ value[2] \in Inactive -> <<"union", value[2], <<>>, Nil>>
    [] value[1] = "union" /\ value[2] \notin Inactive ->
         <<"union", value[2], CanonTag(value[3]), Canon(value[4])>>
    [] value[1] = "var" /\ value[4] = Nil -> <<"var", 0, <<>>, Nil>>
    [] value[1] = "var" /\ value[4] # Nil ->
         <<"var", value[2], CanonTag(value[3]), Canon(value[4])>>
    [] OTHER -> value

\* DecodeTDF reads back, to the last byte, what EncodeTDF wrote of whatever a
\* chain of calls has built, the integers at the edges of int64 included
\* (Fire2Encoder.go:75-187, Fire2Decoder.go:105-275).
RoundTrip ==
  LET bytes == EncodeTDF(payload)
  IN DecodeTDF(bytes) = <<CanonFields(payload), Len(bytes)>>

\* The first fields of a payload, in the order in which they are sent.
FirstFields(fields, j) == Restrict(fields, {sortedKeys(fields)[i] : i \in 1 .. j})

\* What was read of the first n bytes: at least the whole fields, at most those sent.
PrefixOK(got, n, sent) ==
  /\ got[2] \in {-1, n}
  /\ DOMAIN got[1] \subseteq DOMAIN sent
  /\ \A j \in 1 .. Cardinality(DOMAIN payload) :
       Len(EncodeTDF(FirstFields(payload, j))) <= n =>
         IsRestriction(CanonFields(FirstFields(payload, j)), got[1])

\* Of a payload that is cut short, readStruct returns every field that arrived
\* whole, with its value, and no field that was not sent; it reports failure or
\* exactly the bytes that are there, never more (Fire2Decoder.go:253-275).
Truncated ==
  LET bytes == EncodeTDF(payload)
  IN \A n \in 0 .. Len(bytes) - 1 :
       PrefixOK(DecodeTDF(SubSeq(bytes, 1, n)), n, CanonFields(payload))

\* The error code sent: the low half of an integer ERRC, as BlazeError.Code holds it.
SentCode(fields) ==
  IF ERRC \notin DOMAIN fields THEN 0
  ELSE IF fields[ERRC][1] = "int" THEN fields[ERRC][2] % 2^(Width \div 2) ELSE 0

PacketOK(packet, metadata) ==
  LET sent == CanonFields(metadata)
      code == SentCode(sent)
  IN /\ packet.header = [header EXCEPT !.messageNumber = @ % 2^24, !.userIndex = @ % 32]
     /\ packet.metadata = sent
     /\ packet.payload = CanonFields(payload)
     /\ packet.error = IF header.messageType = 3 \/ code # 0
                       THEN <<header.component, code>> ELSE Nil

\* Fire2Decoder recovers from EncodePacket the header (a message number of 24
\* bits, a type of 3 and a user index of 5), the metadata and the payload.  It
\* reports an error, with the component and the code sent, exactly for an error
\* reply and for an ERRC whose low 32 bits are not all zero: an ERRC that is a
\* multiple of 2^32, or no integer, is read as no error (Fire2.go:62-133).
PacketRoundTrip ==
  \A metadata \in Metadatas :
    PacketOK(Fire2Decoder(EncodePacket(header, payload, metadata)), metadata)
=============================================================================
