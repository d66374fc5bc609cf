------------------------------- MODULE Nanopb -------------------------------
(***************************************************************************)
(* nanopb: messages of the types that field tables describe are encoded    *)
(* (pb_encode.c) and decoded (pb_decode.c) as Protocol Buffers.  The code  *)
(* is read as the Pods build it: without PB_ENABLE_MALLOC and with         *)
(* PB_FIELD_32BIT.                                                         *)
(*                                                                         *)
(* Bytes are numbers; a group of a varint has the 7 bits it has there.     *)
(* The integers are narrower, and no width is a multiple of a group's, as  *)
(* there: Bits gives the bits of a type by its data_size.                  *)
(***************************************************************************)
EXTENDS Integers, Sequences, FiniteSets, SequencesExt

CONSTANTS
  Bits,          \* [{1, 2, 4, 8} -> bits]: of int8_t, int16_t, int32_t, int64_t
  FixedBytes,    \* [{"fixed32", "fixed64"} -> bytes]
  kBytesHeader,  \* offsetof(pb_bytes_array_t, bytes)
  MessageTypes,  \* [type -> sequence of fields], see PbField
  PbMessages,    \* [type -> messages that are sent]
  UnknownFields, \* encoded fields whose tags no type has
  MaxPbMessages, \* bound: messages sent after one another
  MaxBuffer,     \* bound: sizes of the buffers a message is encoded into
  kAmple,        \* a size that every message fits into
  DamagedBytes   \* what a byte may become

(* A pb_field_t: ltype, htype and atype are the three parts of its type;   *)
(* hasOffset tells whether size_offset leads to a has_ field; sub is the   *)
(* type of a submessage, extensions those of an extension field.           *)
PbField(tag, ltype, htype, atype, size, max, hasOffset, sub, extensions) ==
  [tag |-> tag, ltype |-> ltype, htype |-> htype, atype |-> atype, size |-> size,
   max |-> max, hasOffset |-> hasOffset, sub |-> sub, extensions |-> extensions]

Packable == {"varint", "uvarint", "svarint", "fixed32", "fixed64"}
FieldsOf(type) == 1 .. Len(MessageTypes[type])
RequiredOf(type) == {i \in FieldsOf(type) : MessageTypes[type][i].htype = "required"}

(* Tags differ.  A type with 32 required fields is left out: the test for  *)
(* them shifts a word by its width, which C does not define.               *)
ASSUME NanopbAssumption ==
  \A type \in DOMAIN MessageTypes :
    /\ Cardinality(RequiredOf(type)) < 32
    /\ \A i, j \in FieldsOf(type) : MessageTypes[type][i].tag = MessageTypes[type][j].tag => i = j

VARIABLES
  pbType,       \* the type that is sent
  pbDelimited,  \* whether each message is sent with its length before it
  pbSent,       \* history: the messages sent
  wire,         \* the bytes
  pbFate,       \* what befell them: "intact", "cut" or "damaged"
  pbHole,       \* the byte that has changed, or 0
  pbBuffer,     \* the buffer a message was encoded into, see EncodeIntoBuffer
  pbGot         \* what the receiver decoded: [s, v, fn]

pbVars == <<pbType, pbDelimited, pbSent, wire, pbFate, pbHole, pbBuffer, pbGot>>
-----------------------------------------------------------------------------
(* Messages.  val: the value of each field, has: the tags whose has_ is    *)
(* set, or that which_ of a oneof names.                                   *)
RECURSIVE DefaultMessage(_)

\* memset, or the defaults of a submessage; a string is what is before its first zero
Zero(f) ==
  CASE f.ltype \in Packable -> 0
    [] f.ltype \in {"bytes", "string"} -> <<>>
    [] f.ltype = "fixed_length_bytes" -> [k \in 1 .. f.size |-> 0]
    [] f.ltype = "submessage" -> DefaultMessage(f.sub)

(* pb_field_set_to_default, given what the field held: a callback stays.   *)
FieldDefault(f, old) ==
  CASE f.ltype = "extension" ->
         [k \in 1 .. Len(f.extensions) |-> [found |-> FALSE, v |-> Zero(f.extensions[k])]]
    [] f.ltype # "extension" /\ f.atype = "callback" -> old
    [] f.ltype # "extension" /\ f.atype # "callback" ->
         IF f.htype = "repeated" \/ f.atype = "pointer" THEN <<>> ELSE Zero(f)

\* a callback field whose funcs and arg are zero
NoCallback == [fn |-> FALSE, items |-> <<>>]
MessageWithDefaults(type, m) ==
  [val |-> [i \in FieldsOf(type) |-> FieldDefault(MessageTypes[type][i], m.val[i])], has |-> {}]
DefaultMessage(type) ==
  MessageWithDefaults(type, [val |-> [i \in FieldsOf(type) |-> NoCallback]])
-----------------------------------------------------------------------------
(* Numbers.                                                                *)
Signed(n, bits) == LET u == n % 2 ^ bits IN IF u < 2 ^ (bits - 1) THEN u ELSE u - 2 ^ bits

\* the values that field->data_size leaves room for
SignedRange(size) == -(2 ^ (Bits[size] - 1)) .. 2 ^ (Bits[size] - 1) - 1
UnsignedRange(size) == 0 .. 2 ^ Bits[size] - 1

VarintGroups(n) == CHOOSE k \in 1 .. 5 : n < 128 ^ k /\ (k = 1 \/ n >= 128 ^ (k - 1))

\* pb_encode_varint
VarintBytes(n) ==
  LET last == VarintGroups(n)
  IN  [k \in 1 .. last |-> ((n \div 128 ^ (k - 1)) % 128) + (IF k < last THEN 128 ELSE 0)]

\* pb_encode_svarint, pb_decode_svarint
ZigZag(n) == IF n < 0 THEN -2 * n - 1 ELSE 2 * n
UnZigZag(n) == IF n % 2 = 1 THEN -(n \div 2) - 1 ELSE n \div 2

\* the bytes of a fixed-width number, least significant first
FixedOf(n, count) == [k \in 1 .. count |-> (n \div 256 ^ (k - 1)) % 256]
NumberOf(bytes) == FoldRight(LAMBDA byte, n : n * 256 + byte, bytes, 0)
-----------------------------------------------------------------------------
(* The encoder.  A stream: whether all is well, whether it only sizes,     *)
(* max_size, and what is written, bytes_written of them.                   *)
Sizing == [ok |-> TRUE, sizing |-> TRUE, max |-> 0, out |-> <<>>]
Buffer(max) == [ok |-> TRUE, sizing |-> FALSE, max |-> max, out |-> <<>>]
Written(o) == Len(o.out)
StopWriting(o) == [o EXCEPT !.ok = FALSE]

\* pb_write
Write(o, bytes) ==
  IF ~o.ok THEN o
  ELSE IF ~o.sizing /\ Written(o) + Len(bytes) > o.max THEN StopWriting(o)
  ELSE [o EXCEPT !.out = @ \o bytes]

WriteVarint(o, n) == Write(o, VarintBytes(n))
WireTypeOf(ltype) ==
  CASE ltype \in {"varint", "uvarint", "svarint"} -> 0
    [] ltype = "fixed64" -> 1
    [] ltype = "fixed32" -> 5
    [] ltype \in {"bytes", "string", "submessage", "fixed_length_bytes"} -> 2
WriteTag(o, wireType, tag) == WriteVarint(o, tag * 8 + wireType)
WriteTagFor(o, f) == WriteTag(o, WireTypeOf(f.ltype), f.tag)
WriteString(o, bytes) == Write(WriteVarint(o, Len(bytes)), bytes)

RECURSIVE WriteMessage(_, _, _)

\* MUTANT of WriteSized: neither the room nor the size of what was written is checked.
WriteSizedUnasked(o, sizes, type, m) ==
  LET header == WriteVarint(o, Written(sizes))
  IN  IF ~o.ok THEN o
      ELSE IF ~sizes.ok THEN StopWriting(o)
      ELSE IF ~header.ok \/ header.sizing THEN Write(header, sizes.out)
      ELSE [header EXCEPT !.out = @ \o WriteMessage(Buffer(Written(sizes)), type, m).out]

(* pb_encode_submessage: once to learn the size, once to write; the second *)
(* time may not write more or less.                                        *)
SecondTime(header, sizes, sub) ==
  [header EXCEPT !.out = @ \o sub.out, !.ok = sub.ok /\ Written(sub) = Written(sizes)]
WriteSized(o, sizes, type, m) ==
  LET header == WriteVarint(o, Written(sizes))
  IN  IF ~o.ok THEN o
      ELSE IF ~sizes.ok THEN StopWriting(o)
      ELSE IF ~header.ok \/ header.sizing THEN Write(header, sizes.out)
      ELSE IF Written(header) + Written(sizes) > o.max THEN StopWriting(header)
      ELSE SecondTime(header, sizes, WriteMessage(Buffer(Written(sizes)), type, m))
WriteSubmessage(o, type, m) == WriteSized(o, WriteMessage(Sizing, type, m), type, m)

(* PB_ENCODERS: the value of a field.                                      *)
WriteValue(o, f, v) ==
  CASE f.ltype = "varint" -> WriteVarint(o, v % 2 ^ Bits[8])
    [] f.ltype = "uvarint" -> WriteVarint(o, v)
    [] f.ltype = "svarint" -> WriteVarint(o, ZigZag(v))
    [] f.ltype \in {"fixed32", "fixed64"} -> Write(o, FixedOf(v, FixedBytes[f.ltype]))
    [] f.ltype = "bytes" ->
         IF Len(v) + kBytesHeader > f.size THEN StopWriting(o) ELSE WriteString(o, v)
    [] f.ltype \in {"string", "fixed_length_bytes"} -> WriteString(o, v)
    [] f.ltype = "submessage" -> WriteSubmessage(o, f.sub, v)

\* encode_array: what can be packed is
WriteItems(o, f, items) == FoldLeft(LAMBDA s, v : WriteValue(s, f, v), o, items)
WritePacked(o, f, items, sizes) ==
  LET header == WriteVarint(WriteTag(o, 2, f.tag), Written(sizes))
  IN  IF header.sizing THEN Write(header, sizes.out) ELSE WriteItems(header, f, items)
WriteArray(o, f, items) ==
  IF items = <<>> THEN o
  ELSE IF Len(items) > f.max THEN StopWriting(o)
  ELSE IF f.ltype \in Packable THEN WritePacked(o, f, items, WriteItems(Sizing, f, items))
  ELSE FoldLeft(LAMBDA s, v : WriteValue(WriteTagFor(s, f), f, v), o, items)

RECURSIVE IsProto3Default(_, _)

(* pb_check_proto3_default_value.  A value is compared byte by byte; of an *)
(* array that is the first item.                                           *)
IsProto3Default(f, v) ==
  CASE f.ltype \in {"bytes", "string"} -> v = <<>>
    [] f.ltype = "fixed_length_bytes" -> f.size = 0
    [] f.ltype = "extension" -> Len(v) = 0
    [] f.ltype = "submessage" ->
         \A i \in FieldsOf(f.sub) : IsProto3Default(MessageTypes[f.sub][i], v.val[i])
    [] f.ltype \in Packable ->
         IF f.atype = "callback" THEN v = NoCallback
         ELSE IF f.htype = "repeated" THEN v = <<>> \/ v[1] = 0 ELSE v = 0

(* encode_basic_field: whether a field that is not an array is written.    *)
IsPresent(f, v, has) ==
  \/ f.htype = "required"
  \/ f.htype = "oneof" /\ f.tag \in has
  \/ f.htype = "optional" /\ f.hasOffset /\ f.tag \in has
  \/ f.htype = "optional" /\ ~f.hasOffset /\ ~IsProto3Default(f, v)

\* the callback of the user writes one number after another, each with the tag
WriteByCallback(o, f, v) ==
  FoldLeft(LAMBDA s, n : WriteVarint(WriteTagFor(s, f), n), o, IF v.fn THEN v.items ELSE <<>>)

\* encode_extension_field: every extension is written, found or not
WriteExtensions(o, f, v) ==
  FoldLeft(LAMBDA s, k : WriteValue(WriteTagFor(s, f.extensions[k]), f.extensions[k], v[k].v),
           o, [k \in 1 .. Len(v) |-> k])

\* encode_field, of static allocation
WriteField(o, f, v, has) ==
  IF f.ltype = "extension" THEN WriteExtensions(o, f, v)
  ELSE IF f.atype = "callback" THEN WriteByCallback(o, f, v)
  ELSE IF f.htype = "repeated" THEN WriteArray(o, f, v)
  ELSE IF IsPresent(f, v, has) THEN WriteValue(WriteTagFor(o, f), f, v)
  ELSE o

(* pb_encode.                                                              *)
WriteMessage(o, type, m) ==
  FoldLeft(LAMBDA s, i : IF s.ok THEN WriteField(s, MessageTypes[type][i], m.val[i], m.has) ELSE s,
           o, [i \in FieldsOf(type) |-> i])
EncodedSize(type, m) == Written(WriteMessage(Sizing, type, m))
-----------------------------------------------------------------------------
(* The decoder.  A stream: the position in wire (state), bytes_left, and   *)
(* whether all is well.  What is read comes as [s |-> stream, v |-> value].*)
Stream(at, left) == [at |-> at, left |-> left, ok |-> TRUE]
Refused(s) == [s |-> [s EXCEPT !.ok = FALSE], v |-> 0]
ByteAt(i) == IF i \in DOMAIN wire THEN wire[i] ELSE 0

\* pb_read
Read(s, n) ==
  IF s.left < n THEN Refused(s)
  ELSE [s |-> [s EXCEPT !.at = @ + n, !.left = @ - n], v |-> [k \in 1 .. n |-> ByteAt(s.at + k)]]

(* pb_decode_varint32, pb_decode_varint: as many bytes as the type needs   *)
(* at most; the bits beyond its width are lost.  Without a last byte among *)
(* them they are read all the same.                                        *)
ReadVarint(s, bits) ==
  LET most == (bits + 6) \div 7
      lasts == {k \in 1 .. s.left : k <= most /\ ByteAt(s.at + k) < 128}
      last == CHOOSE k \in lasts : \A j \in lasts : k <= j
      bytes == Read(s, last)
      consumed == IF s.left < most THEN s.left ELSE most
  IN  IF lasts = {} THEN Refused([s EXCEPT !.at = @ + consumed, !.left = @ - consumed])
      ELSE [s |-> bytes.s,
            v |-> FoldRight(LAMBDA byte, n : n * 128 + (byte % 128), bytes.v, 0) % 2 ^ bits]

\* pb_skip_varint reads on for as long as it takes
SkipVarint(s) ==
  LET lasts == {k \in 1 .. s.left : ByteAt(s.at + k) < 128}
  IN  IF lasts = {} THEN Refused([s EXCEPT !.at = @ + s.left, !.left = 0])
      ELSE Read(s, CHOOSE k \in lasts : \A j \in lasts : k <= j)

(* pb_make_string_substream: the bytes are taken from the parent, whose    *)
(* state stays where it is until the substream is closed.                  *)
SubstreamOf(size) ==
  IF ~size.s.ok \/ size.s.left < size.v
  THEN [parent |-> Refused(size.s).s, sub |-> Refused(size.s).s]
  ELSE [parent |-> [size.s EXCEPT !.left = @ - size.v], sub |-> [size.s EXCEPT !.left = size.v]]
Substream(s) == SubstreamOf(ReadVarint(s, Bits[4]))

\* MUTANT of CloseSubstream: what is left in the substream is not skipped.
CloseSubstreamAsIs(parent, sub) == [parent EXCEPT !.at = sub.at]

\* pb_close_string_substream
CloseSubstream(parent, sub) == [parent EXCEPT !.at = sub.at + sub.left]

(* pb_skip_field.                                                          *)
SkipField(s, wireType) ==
  CASE wireType = 0 -> SkipVarint(s).s
    [] wireType = 1 -> Read(s, FixedBytes["fixed64"]).s
    [] wireType = 5 -> Read(s, FixedBytes["fixed32"]).s
    [] wireType = 2 -> LET size == ReadVarint(s, Bits[4])
                       IN  IF size.s.ok THEN Read(size.s, size.v).s ELSE size.s
    [] wireType \notin {0, 1, 2, 5} -> Refused(s).s

\* pb_decode_tag; a tag cut short is taken for the end
TagRead(r) ==
  [s |-> r.s, tag |-> r.v \div 8, wireType |-> r.v % 8,
   eof |-> IF r.s.ok THEN r.v = 0 ELSE r.s.left = 0]
ReadTag(s) == TagRead(ReadVarint(s, Bits[4]))

RECURSIVE ReadMessage(_, _, _)
RECURSIVE ReadFields(_, _, _, _)
RECURSIVE ReadPacked(_, _, _)

\* a number that must be as wide as the field
Fitting(r, v, range) == IF r.s.ok /\ v \in range THEN [s |-> r.s, v |-> v] ELSE Refused(r.s)

\* what a substream that could be made was read to
Closed(streams, r) ==
  IF ~streams.sub.ok THEN Refused(streams.parent)
  ELSE [s |-> [CloseSubstream(streams.parent, r.s) EXCEPT !.ok = r.s.ok], v |-> r.v]

(* pb_dec_submessage: the items of an array begin with the defaults, other *)
(* submessages go on with what they hold.                                  *)
ReadSubmessage(s, f, old) ==
  LET streams == Substream(s)
  IN  Closed(streams, ReadMessage(streams.sub, f.sub,
                        IF f.htype = "repeated" THEN DefaultMessage(f.sub) ELSE old))

\* what a C string holds
UpToZero(bytes) ==
  SubSeq(bytes, 1, Cardinality({k \in DOMAIN bytes : \A j \in 1 .. k : bytes[j] # 0}))

(* PB_DECODERS: the value of a field, whatever its wire type.              *)
NumberRead(f, r) ==
  CASE f.ltype = "varint" ->
         Fitting(r, Signed(r.v, IF f.size = 8 THEN Bits[8] ELSE Bits[4]), SignedRange(f.size))
    [] f.ltype = "uvarint" -> Fitting(r, r.v, UnsignedRange(f.size))
    [] f.ltype = "svarint" -> Fitting(r, UnZigZag(r.v), SignedRange(f.size))

\* the room that a size needs
SizeFits(f, size) ==
  CASE f.ltype = "bytes" -> size + kBytesHeader <= f.size
    [] f.ltype = "string" -> size + 1 <= f.size
    [] f.ltype = "fixed_length_bytes" -> size \in {0, f.size}
BodyRead(f, size, body) ==
  CASE f.ltype = "bytes" -> body
    [] f.ltype = "string" ->
         IF body.s.ok THEN [s |-> body.s, v |-> UpToZero(body.v)] ELSE Refused(size.s)
    [] f.ltype = "fixed_length_bytes" ->
         IF size.v = 0 THEN [s |-> size.s, v |-> Zero(f)] ELSE body
SizeRead(f, size) ==
  IF ~size.s.ok \/ ~SizeFits(f, size.v) THEN Refused(size.s)
  ELSE BodyRead(f, size, Read(size.s, size.v))

ReadValue(s, f, old) ==
  CASE f.ltype \in {"varint", "uvarint", "svarint"} -> NumberRead(f, ReadVarint(s, Bits[8]))
    [] f.ltype \in {"fixed32", "fixed64"} ->
         LET r == Read(s, FixedBytes[f.ltype])
         IN  IF r.s.ok THEN [s |-> r.s, v |-> NumberOf(r.v)] ELSE r
    [] f.ltype \in {"bytes", "string", "fixed_length_bytes"} -> SizeRead(f, ReadVarint(s, Bits[4]))
    [] f.ltype = "submessage" -> ReadSubmessage(s, f, old)

\* the loop over a packed array, as long as there is room
ReadPackedAfter(r, f, items) ==
  IF r.s.ok THEN ReadPacked(r.s, f, Append(items, r.v)) ELSE Refused(r.s)
ReadPacked(s, f, items) ==
  IF s.left = 0 \/ Len(items) >= f.max THEN [s |-> s, v |-> items]
  ELSE ReadPackedAfter(ReadValue(s, f, 0), f, items)

(* decode_static_field, PB_HTYPE_REPEATED: a packed array must have room,  *)
(* another one have it for one more item.                                  *)
PackedRead(streams, r) ==
  IF ~streams.sub.ok \/ ~r.s.ok \/ r.s.left # 0 THEN Refused(streams.parent)
  ELSE [s |-> CloseSubstream(streams.parent, r.s), v |-> r.v]
ItemRead(s, items, r) == IF r.s.ok THEN [s |-> r.s, v |-> Append(items, r.v)] ELSE Refused(s)
ReadRepeated(s, f, wireType, items) ==
  IF wireType = 2 /\ f.ltype \in Packable
  THEN LET streams == Substream(s) IN PackedRead(streams, ReadPacked(streams.sub, f, items))
  ELSE IF Len(items) >= f.max THEN Refused(s)
  ELSE ItemRead(s, items, ReadValue(s, f, 0))

(* decode_callback_field: the callback of the user reads one number of a   *)
(* stream that holds the field alone, and is called again until a packed   *)
(* field is empty.                                                         *)
RECURSIVE CallbackReads(_, _)
CallbackReadsAfter(r, items) ==
  IF ~r.s.ok THEN r
  ELSE IF r.s.left = 0 THEN [s |-> r.s, v |-> items] ELSE CallbackReads(r.s, items)
CallbackReads(s, items) ==
  LET r == ReadVarint(s, Bits[8]) IN CallbackReadsAfter(r, Append(items, r.v))
CallbackOfStream(streams, v, r) ==
  IF ~streams.sub.ok \/ ~r.s.ok THEN Refused(streams.parent)
  ELSE [s |-> CloseSubstream(streams.parent, r.s), v |-> [v EXCEPT !.items = r.v]]
CallbackOfValue(skipped, v, r) ==
  IF ~skipped.ok \/ ~r.s.ok THEN Refused(skipped)
  ELSE [s |-> skipped, v |-> [v EXCEPT !.items = Append(@, r.v)]]
ReadByCallback(s, wireType, v) ==
  LET streams == Substream(s)
      skipped == SkipField(s, wireType)
  IN  IF ~v.fn THEN [s |-> skipped, v |-> v]
      ELSE IF wireType = 2 THEN CallbackOfStream(streams, v, CallbackReads(streams.sub, v.items))
      ELSE CallbackOfValue(skipped, v, ReadVarint([s EXCEPT !.left = skipped.at - s.at], Bits[8]))

OneofTags(type) == {MessageTypes[type][i].tag : i \in {j \in FieldsOf(type) :
                                                         MessageTypes[type][j].htype = "oneof"}}

(* decode_static_field before the value is read: has_ or which_ is set; a  *)
(* oneof begins again, and what it held is overwritten.                    *)
Prepared(type, i, m) ==
  LET f == MessageTypes[type][i]
  IN  IF f.htype = "oneof"
      THEN [val |-> [j \in FieldsOf(type) |->
                       IF MessageTypes[type][j].htype = "oneof" THEN Zero(MessageTypes[type][j])
                       ELSE m.val[j]],
            has |-> (m.has \ OneofTags(type)) \cup {f.tag}]
      ELSE IF f.hasOffset THEN [m EXCEPT !.has = @ \cup {f.tag}] ELSE m

(* decode_field, for field i of a message.                                 *)
Stored(ready, i, r) == [s |-> r.s, v |-> IF r.s.ok THEN [ready EXCEPT !.val[i] = r.v] ELSE ready]
ReadField(s, wireType, type, i, m) ==
  LET f == MessageTypes[type][i]
      ready == Prepared(type, i, m)
  IN  Stored(ready, i,
        CASE f.atype = "pointer" -> Refused(s)
          [] f.atype = "callback" -> ReadByCallback(s, wireType, m.val[i])
          [] f.atype = "static" /\ f.htype = "repeated" ->
               ReadRepeated(s, f, wireType, m.val[i])
          [] f.atype = "static" /\ f.htype # "repeated" -> ReadValue(s, f, ready.val[i]))

(* A tag of no field: the extension of that tag, if the type can be        *)
(* extended from it on; or else it is skipped.                             *)
ReadUnknown(s, tag, wireType, type, m) ==
  LET ranges == {i \in FieldsOf(type) : MessageTypes[type][i].ltype = "extension"
                                        /\ tag >= MessageTypes[type][i].tag}
      handlers == {<<i, k>> \in ranges \X (1 .. 9) :
                     /\ k \in DOMAIN MessageTypes[type][i].extensions
                     /\ MessageTypes[type][i].extensions[k].tag = tag}
      Extended(h, r) == [s |-> r.s, v |-> [m EXCEPT !.val[h[1]][h[2]] = [found |-> TRUE, v |-> r.v]]]
  IN  IF handlers = {} THEN [s |-> SkipField(s, wireType), v |-> m]
      ELSE LET h == CHOOSE h \in handlers : TRUE
           IN  Extended(h, ReadValue(s, MessageTypes[type][h[1]].extensions[h[2]],
                                     m.val[h[1]][h[2]].v))

\* the end of a message: every required field was there
MessageEnd(s, type, m, seen) ==
  IF RequiredOf(type) \subseteq seen THEN [s |-> s, v |-> m] ELSE Refused(s)

(* The loop of pb_decode_noinit.                                           *)
ReadFieldsAfter(r, type, seen) == IF r.s.ok THEN ReadFields(r.s, type, r.v, seen) ELSE r
ReadFields(s, type, m, seen) ==
  LET t == ReadTag(s)
      found == {i \in FieldsOf(type) : /\ MessageTypes[type][i].tag = t.tag
                                       /\ MessageTypes[type][i].ltype # "extension"}
  IN  IF s.left = 0 THEN MessageEnd(s, type, m, seen)
      ELSE IF t.eof THEN MessageEnd([t.s EXCEPT !.ok = TRUE], type, m, seen)
      ELSE IF ~t.s.ok THEN Refused(t.s)
      ELSE ReadFieldsAfter(
             IF found = {} THEN ReadUnknown(t.s, t.tag, t.wireType, type, m)
             ELSE ReadField(t.s, t.wireType, type, CHOOSE i \in found : TRUE, m),
             type, seen \cup found)

ReadMessage(s, type, m) == ReadFields(s, type, m, {})

(* pb_decode: all but the callbacks of the destination begin anew.         *)
DecodeMessage(s, type, dest) == ReadMessage(s, type, MessageWithDefaults(type, dest))

(* pb_decode_delimited.                                                    *)
DecodeDelimited(s, type, dest) ==
  LET streams == Substream(s) IN Closed(streams, DecodeMessage(streams.sub, type, dest))
-----------------------------------------------------------------------------
(* A sender, a wire and a receiver.                                        *)
NothingGot == [s |-> Stream(0, 0), v |-> <<>>, fn |-> FALSE]
NoBuffer == [m |-> <<>>, o |-> Sizing]

PbInit ==
  /\ pbType \in DOMAIN PbMessages /\ pbDelimited \in BOOLEAN
  /\ pbSent = <<>> /\ wire = <<>> /\ pbFate = "intact" /\ pbHole = 0
  /\ pbBuffer = NoBuffer /\ pbGot = NothingGot

Encoded(o, type, m) ==
  IF pbDelimited THEN WriteSubmessage(o, type, m) ELSE WriteMessage(o, type, m)

(* pb_encode or pb_encode_delimited, into a stream that has room.          *)
SendMessage(m) ==
  /\ pbFate = "intact" /\ pbGot = NothingGot /\ pbBuffer = NoBuffer
  /\ Len(pbSent) < MaxPbMessages
  /\ \E o \in {Encoded(Buffer(kAmple), pbType, m)} : o.ok /\ wire' = wire \o o.out
  /\ pbSent' = Append(pbSent, m)
  /\ UNCHANGED <<pbType, pbDelimited, pbFate, pbHole, pbBuffer, pbGot>>

\* a sender of a newer version of the type adds a field
SendUnknownField(bytes) ==
  /\ pbFate = "intact" /\ pbGot = NothingGot /\ ~pbDelimited
  /\ Len(pbSent) = 1 /\ wire = Encoded(Buffer(kAmple), pbType, pbSent[1]).out
  /\ wire' = wire \o bytes
  /\ UNCHANGED <<pbType, pbDelimited, pbSent, pbFate, pbHole, pbBuffer, pbGot>>

(* The same into a buffer that may be too small.                           *)
EncodeIntoBuffer(m, max) ==
  /\ wire = <<>> /\ pbBuffer = NoBuffer
  /\ pbBuffer' = [m |-> m, o |-> Encoded(Buffer(max), pbType, m)]
  /\ UNCHANGED <<pbType, pbDelimited, pbSent, wire, pbFate, pbHole, pbGot>>

\* the bytes, of as many messages as show it, are cut short, or one of them changes
MayBeHarmed == pbFate = "intact" /\ pbGot = NothingGot /\ Len(pbSent) = IF pbDelimited THEN 2 ELSE 1

CutWire(n) ==
  /\ MayBeHarmed /\ n < Len(wire)
  /\ wire' = SubSeq(wire, 1, n) /\ pbFate' = "cut"
  /\ UNCHANGED <<pbType, pbDelimited, pbSent, pbHole, pbBuffer, pbGot>>
DamageByte(i, byte) ==
  /\ MayBeHarmed /\ wire[i] # byte
  /\ wire' = [wire EXCEPT ![i] = byte] /\ pbFate' = "damaged" /\ pbHole' = i
  /\ UNCHANGED <<pbType, pbDelimited, pbSent, pbBuffer, pbGot>>

\* the destination: its callbacks, if it has any, are set or not
CallbackChoices ==
  IF \E i \in FieldsOf(pbType) : MessageTypes[pbType][i].atype = "callback" THEN BOOLEAN ELSE {TRUE}
Destination(type, fn) ==
  [val |-> [i \in FieldsOf(type) |-> [fn |-> fn, items |-> <<>>]], has |-> {}]

(* The receiver: one message, or as many delimited ones as were sent.      *)
Joined(r, d) == [s |-> d.s, v |-> Append(r.v, d.v)]
Received(all, dest) ==
  IF pbDelimited
  THEN FoldLeft(LAMBDA r, sent : IF r.s.ok THEN Joined(r, DecodeDelimited(r.s, pbType, dest)) ELSE r,
                [s |-> all, v |-> <<>>], pbSent)
  ELSE Joined([s |-> all, v |-> <<>>], DecodeMessage(all, pbType, dest))
ReceiveMessages(fn) ==
  /\ pbSent # <<>> /\ pbGot = NothingGot
  /\ \E r \in {Received(Stream(0, Len(wire)), Destination(pbType, fn))} :
       pbGot' = [s |-> r.s, v |-> r.v, fn |-> fn]
  /\ UNCHANGED <<pbType, pbDelimited, pbSent, wire, pbFate, pbHole, pbBuffer>>

PbNext ==
  \/ \E m \in PbMessages[pbType] : SendMessage(m)
  \/ \E bytes \in UnknownFields : SendUnknownField(bytes)
  \/ \E m \in PbMessages[pbType], max \in 0 .. MaxBuffer : EncodeIntoBuffer(m, max)
  \/ \E n \in 0 .. Len(wire) : CutWire(n)
  \/ \E i \in DOMAIN wire, byte \in DamagedBytes : DamageByte(i, byte)
  \/ \E fn \in CallbackChoices : ReceiveMessages(fn)
-----------------------------------------------------------------------------
(* What a message adds to another one, said without the bytes.             *)
RECURSIVE Merged(_, _, _), MergedValue(_, _, _, _), HasRoom(_, _)

Arrives(f, v, has) ==
  IF f.hasOffset \/ f.htype = "oneof" THEN f.tag \in has ELSE f.htype = "required" \/ v # Zero(f)

MergedValue(f, v, w, has) ==
  CASE f.ltype = "extension" ->
         [k \in DOMAIN w |->
            [found |-> TRUE, v |-> MergedValue(f.extensions[k], v[k].v, w[k].v, {})]]
    [] f.atype = "callback" /\ f.ltype # "extension" -> IF v.fn THEN [v EXCEPT !.items = @ \o w.items] ELSE v
    [] f.atype = "static" /\ f.htype = "repeated" -> v \o w
    [] f.atype = "static" /\ f.htype \in {"required", "optional"} /\ f.ltype # "extension" ->
         IF ~Arrives(f, w, has) THEN v
         ELSE IF f.ltype = "submessage" THEN Merged(f.sub, v, w) ELSE w
    [] f.atype = "static" /\ f.htype = "oneof" -> IF f.tag \in has THEN w ELSE Zero(f)

Merged(type, m, n) ==
  LET switched == n.has \cap OneofTags(type) # {}
  IN  [val |-> [i \in FieldsOf(type) |->
                  IF MessageTypes[type][i].htype = "oneof" /\ ~switched THEN m.val[i]
                  ELSE MergedValue(MessageTypes[type][i], m.val[i], n.val[i], n.has)],
       has |-> (IF switched THEN m.has \ OneofTags(type) ELSE m.has) \cup n.has]

\* no array has more items than its field has room for
HasRoom(type, m) ==
  \A i \in FieldsOf(type) :
    LET f == MessageTypes[type][i]
    IN  /\ f.htype = "repeated" /\ f.atype = "static" => Len(m.val[i]) <= f.max
        /\ f.ltype = "submessage" /\ f.htype # "repeated" => HasRoom(f.sub, m.val[i])

Got == pbGot # NothingGot
Fresh == MessageWithDefaults(pbType, Destination(pbType, pbGot.fn))
Meant(messages) == FoldLeft(LAMBDA m, n : Merged(pbType, m, n), Fresh, messages)

(* pb_decode.h: what was encoded is decoded; messages after one another    *)
(* are merged, delimited ones stay apart, fields of no known tag are       *)
(* skipped, and an array without room for all its items is refused.        *)
PbReadsBack ==
  Got /\ pbFate = "intact" =>
    IF pbDelimited
    THEN pbGot.s.ok /\ pbGot.v = [k \in DOMAIN pbSent |-> Meant(<<pbSent[k]>>)]
    ELSE IF HasRoom(pbType, Meant(pbSent)) THEN pbGot.s.ok /\ pbGot.v[1] = Meant(pbSent)
    ELSE ~pbGot.s.ok

\* a field of a message that was cut: as it was sent, not there, or the first items of it
IsPartOf(f, v, w, fresh) ==
  \/ v = w
  \/ v = fresh /\ f.htype # "required"
  \/ f.htype = "repeated" /\ f.atype = "static" /\ IsPrefix(v, w)
  \/ f.atype = "callback" /\ f.ltype # "extension" /\ IsPrefix(v.items, w.items)
  \/ f.ltype = "extension" /\ \A k \in DOMAIN v : v[k] \in {w[k], fresh[k]}

(* A message cut short is refused, or it was cut between two fields: then  *)
(* no field has a value that was not sent, and none that is required is    *)
(* missing.  A delimited one is refused.                                   *)
PbCutIsNoticed ==
  Got /\ pbFate = "cut" /\ pbGot.s.ok =>
    /\ ~pbDelimited
    /\ Len(pbSent) = 1 =>
         \A i \in FieldsOf(pbType) :
           IsPartOf(MessageTypes[pbType][i], pbGot.v[1].val[i], Meant(pbSent).val[i], Fresh.val[i])

\* the bytes of wire that the contents of field i, or of delimited message k, are
Sum(sizes) == FoldLeft(LAMBDA n, size : n + size, 0, sizes)
FieldSize(m, i) == Written(WriteField(Sizing, MessageTypes[pbType][i], m.val[i], m.has))
ContentSize(f, v) == IF f.ltype = "submessage" THEN EncodedSize(f.sub, v) ELSE Len(v)
LastBytes(size, end) == end - size + 1 .. end
ContentsOfField(m, i) ==
  LastBytes(ContentSize(MessageTypes[pbType][i], m.val[i]), Sum([j \in 1 .. i |-> FieldSize(m, j)]))
ContentsOfMessage(k) ==
  LastBytes(EncodedSize(pbType, pbSent[k]),
         Sum([j \in 1 .. k |-> Written(WriteSubmessage(Sizing, pbType, pbSent[j]))]))

IsFramed(m, i) ==
  LET f == MessageTypes[pbType][i]
  IN  /\ f.atype = "static" /\ f.htype # "repeated"
      /\ f.ltype \in {"bytes", "string", "fixed_length_bytes", "submessage"}
      /\ Arrives(f, m.val[i], m.has)

(* pb_decode.h, substreams: nothing inside of a string, a submessage or a  *)
(* delimited message, whatever it is, is read as a part of what is around  *)
(* it, nor keeps that from being read.                                     *)
PbDamageIsContained ==
  Got /\ pbFate = "damaged" /\ pbGot.s.ok =>
    IF pbDelimited
    THEN \A k \in DOMAIN pbSent : pbHole \in ContentsOfMessage(k) =>
           \A j \in DOMAIN pbSent \ {k} : pbGot.v[j] = Meant(<<pbSent[j]>>)
    ELSE Len(pbSent) = 1 =>
           \A i \in FieldsOf(pbType) :
             IsFramed(pbSent[1], i) /\ pbHole \in ContentsOfField(pbSent[1], i) =>
               \A j \in FieldsOf(pbType) \ {i} : pbGot.v[1].val[j] = Meant(pbSent).val[j]

(* pb_decode.h: a message whole, cut or damaged is decoded to what was sent,*)
(* or refused, or changed inside the damaged field only.                   *)
PbDecodes == PbReadsBack /\ PbCutIsNoticed /\ PbDamageIsContained

(* pb_encode.h: a message of the size that was computed before fits into a *)
(* buffer of that size, and never is more written than max_size.           *)
PbEncodingFits ==
  pbBuffer # NoBuffer =>
    LET o == pbBuffer.o
        size == Written(Encoded(Sizing, pbType, pbBuffer.m))
    IN  /\ Written(o) <= o.max
        /\ o.ok <=> size <= o.max
        /\ o.ok => Written(o) = size
=============================================================================
