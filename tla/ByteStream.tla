----------------------------- MODULE ByteStream -----------------------------
(***************************************************************************)
(* A message on its way through memory: core/base/ByteStream.h (byte       *)
(* order, PackBuffer, BinWriteStream, BinReadStream, containers), Sender   *)
(* and JsonSender, which put it behind a header, and JsonProtoConsumer,    *)
(* JsonRequest and MasterConn::peekData, which take the header off again.  *)
(*                                                                         *)
(* A byte has ByteBase values, so that all values of the integer types can *)
(* be enumerated; a uint32_t is four bytes whatever a byte is.             *)
(***************************************************************************)
EXTENDS BlockBuffer, SequencesExt

CONSTANTS
  ByteBase,      \* 2^8
  ProtoShift,    \* 2^29: the top three bits of the length are the protocol
  Field,         \* the fields a message may have: [type, val]
  Session, Uri,  \* the session ids and message types in use
  MaxFields      \* bound: fields of a message

B2 == ByteBase * ByteBase
B4 == B2 * B2
HEADER_SIZE == 9
JSON_HEADER_SIZE == 8
PROTO_JSON == 0

\* The limit of the PackBuffer is 2^30: a length may reach into the protocol's bits.
ASSUME ByteStreamAssumption ==
  /\ ByteBase \in Nat \ {0, 1} /\ ProtoShift \in 1..B4 - 1
  /\ MaxFields \in Nat
  /\ Session \subseteq 0..B4 - 1 /\ Uri \subseteq 0..ByteBase - 1
  /\ maxsize >= HEADER_SIZE /\ maxsize <= 2 * ProtoShift /\ maxsize < B4

\* A field has a value of its type: an integer of its width, a text or a container of
\* any length, a pair.
Byte == 0..ByteBase - 1
ASSUME FieldAssumption ==
  \A f \in Field :
    /\ f = [type |-> f.type, val |-> f.val]
    /\ f.type \in {"u8", "u16", "u32", "u64", "str", "str32", "json", "vec", "pair"}
    /\ f.type = "u8" => f.val \in Byte
    /\ f.type = "u16" => f.val \in 0..B2 - 1
    /\ f.type = "u32" => f.val \in 0..B4 - 1
    /\ f.type = "u64" => f.val \in 0..B4 * B4 - 1
    /\ f.type \in {"str", "str32", "json"} => f.val \in Seq(Byte)
    /\ f.type = "vec" => f.val \in Seq(0..B2 - 1)
    /\ f.type = "pair" => f.val \in Byte \X (0..B2 - 1)

VARIABLES
  pc,        \* "write", "packed", "wire", "header", "read", "done" or "throw"
  pb,        \* the PackBuffer of the Sender
  written,   \* history: the fields that went into the message
  session,   \* history: the session id that went into the header
  wire,      \* the bytes of the frame that arrive, then those that are taken for it
  cut,       \* history: they are fewer than its fields need
  up,        \* the BinReadStream: the bytes that are left
  header,    \* what popHeader read: [sessionId, len, uri]
  got        \* the fields that were read

vars == <<pc, pb, written, session, wire, cut, up, header, got>>

-----------------------------------------------------------------------------
(* Byte order *)

\* An unsigned integer in the memory of an x86_64, and read from it.
Place == <<1, ByteBase, B2, B2 * ByteBase, B4, B4 * ByteBase, B4 * B2, B4 * B2 * ByteBase>>
Mem(i, width) == [k \in 1..width |-> (i \div Place[k]) % ByteBase]
FromMem(s, width) ==
  LET word(k) == s[k + 1] * ByteBase + s[k]
      dword(k) == word(k + 2) * B2 + word(k)
  IN CASE width = 1 -> s[1]
       [] width = 2 -> word(1)
       [] width = 4 -> dword(1)
       [] width = 8 -> dword(5) * B4 + dword(1)

\* Mutant: the bytes are not swapped.
XHTONSHost(i16) == i16

XHTONS(i16) == ((i16 * ByteBase) % B2) + (i16 \div ByteBase)
XHTONL(i32) == XHTONS(i32 % B2) * B2 + XHTONS(i32 \div B2)
XHTONLL(i64) == XHTONL(i64 % B4) * B4 + XHTONL(i64 \div B4)

Swapped(i, width) ==
  CASE width = 1 -> i
    [] width = 2 -> XHTONS(i)
    [] width = 4 -> XHTONL(i)
    [] width = 8 -> XHTONLL(i)

\* writeUint8, writeUint16, writeUint32, writeUint64, and what the readers undo.
Uint(i, width) == Mem(Swapped(i, width), width)
ReadUint(s, width) == Swapped(FromMem(s, width), width)

\* peekData of the master, on the first bytes of a connection: the first is shifted
\* left by 24 bits, the last by none.
PeekData(s) == s[1] * Place[4] + s[2] * Place[3] + s[3] * Place[2] + s[4] * Place[1]

-----------------------------------------------------------------------------
(* Writing *)

\* The bytes of an integer, and of the length before a string.
Width(type) ==
  CASE type = "u8" -> 1 [] type = "u16" -> 2 [] type = "u32" -> 4 [] type = "u64" -> 8
LenWidth(type) == CASE type = "str" -> 2 [] type = "str32" -> 4

\* What each type appends to the stream, piece by piece: a string after its length
\* (writeVarstr, writeVarstr32), a container of uint16_t after its size
\* (marshal_container), a pair of uint8_t and uint16_t, JSON as it is.
Pieces(f) ==
  CASE f.type \in {"str", "str32"} -> <<Uint(Len(f.val), LenWidth(f.type)), f.val>>
    [] f.type = "vec" -> <<Uint(Len(f.val), 4)>> \o [i \in DOMAIN f.val |-> Uint(f.val[i], 2)]
    [] f.type = "pair" -> <<Uint(f.val[1], 1), Uint(f.val[2], 2)>>
    [] f.type = "json" -> <<f.val>>
    [] OTHER -> <<Uint(f.val, Width(f.type))>>

\* writeVarstr, writeVarstr32: "varstr too big".
TooBig(f) ==
  \/ f.type = "str" /\ Len(f.val) > B2 - 1
  \/ f.type = "str32" /\ Len(f.val) > B4 - 1

\* The appends of a field, up to the first that fails.
Appended(b, f, mem) ==
  FoldLeft(LAMBDA r, s : IF r.ok THEN BufferAppend(r.buf, s, mem) ELSE r,
           Returns(TRUE, b), Pieces(f))

\* marshal of one field; WriteStreamExn gives the message up.
Marshal(f, mem) ==
  LET r == Appended(pb, f, mem)
  IN /\ pc = "write" /\ Len(written) < MaxFields
     /\ \A i \in DOMAIN written : written[i].type # "json"
     /\ IF TooBig(f) \/ ~r.ok
        THEN pc' = "throw" /\ UNCHANGED <<pb, written>>
        ELSE pb' = r.buf /\ written' = Append(written, f) /\ UNCHANGED pc
     /\ UNCHANGED <<session, wire, cut, up, header, got>>

\* replaceUint of the header stream; the header lies in the buffer, so that no
\* memory is needed.
Replaced(b, pos, bytes) == BufferReplace(b, pos, bytes, FALSE).buf

\* JsonSender::endPack: session, uri, and the length without session and length.
EndPack(b, sessionId, uri) ==
  LET bodySize == Len(b.data) - HEADER_SIZE
  IN Replaced(Replaced(Replaced(b, 0, Uint(sessionId, 4)), 8, Uint(uri, 1)),
              4, Uint(1 + bodySize, 4))

\* answer calls endPack, and send calls it again.
Pack(sessionId, uri) ==
  /\ pc \in {"write", "packed"}
  /\ pc = "packed" => sessionId = session
  /\ pb' = EndPack(pb, sessionId, uri)
  /\ session' = sessionId
  /\ pc' = "packed"
  /\ UNCHANGED <<written, wire, cut, up, header, got>>

\* The frame arrives; or one whose length says less than its fields need.
Transmit(n) ==
  LET all == Len(pb.data) - JSON_HEADER_SIZE
  IN /\ pc = "packed" /\ n \in 0..all
     /\ wire' = IF n = all THEN pb.data
                ELSE SubSeq(pb.data, 1, 4) \o Uint(n, 4)
                       \o SubSeq(pb.data, JSON_HEADER_SIZE + 1, JSON_HEADER_SIZE + n)
     /\ cut' = (n < all)
     /\ pc' = "wire"
     /\ UNCHANGED <<pb, written, session, up, header, got>>

-----------------------------------------------------------------------------
(* Reading *)

\* getProtoType: the protocol and the length.  PROTO_MAGIC_MASK is the decimal 111, whose
\* low three bits are ones, shifted left by 29: it selects the top three bits.
GetProtoType(len) == [proto |-> len \div ProtoShift, realLength |-> len % ProtoShift]

\* Mutant: the length is taken for that of the whole frame.
OnDataWithoutHeader ==
  LET proto == GetProtoType(ReadUint(SubSeq(wire, 5, 8), 4))
  IN /\ pc = "wire"
     /\ Len(wire) >= proto.realLength
     /\ wire' = SubSeq(wire, 1, proto.realLength)
     /\ up' = wire'
     /\ cut' = (cut \/ proto.proto # PROTO_JSON)
     /\ pc' = "header"
     /\ UNCHANGED <<pb, written, session, header, got>>

\* onData up to the request: the length of the frame is read from its header.  One of 2^29
\* or more arrives as a frame of PROTO_BIN that is 2^29 bytes shorter: the protocol is not
\* looked at, and the rest is taken for the next frame.
OnData ==
  LET proto == GetProtoType(ReadUint(SubSeq(wire, 5, 8), 4))
      realLen == proto.realLength + JSON_HEADER_SIZE
  IN /\ pc = "wire"
     /\ Len(wire) >= realLen
     /\ wire' = SubSeq(wire, 1, realLen)
     /\ up' = wire'
     /\ cut' = (cut \/ proto.proto # PROTO_JSON)
     /\ pc' = "header"
     /\ UNCHANGED <<pb, written, session, header, got>>

\* popHeader of JsonRequest, the same for PROTO_JSON and PROTO_BIN; readUint8 throws on a
\* frame without uri.
PopHeader ==
  /\ pc = "header"
  /\ IF Len(up) < HEADER_SIZE
     THEN pc' = "throw" /\ UNCHANGED <<up, header>>
     ELSE /\ header' = [sessionId |-> ReadUint(up, 4), len |-> ReadUint(SubSeq(up, 5, 8), 4),
                        uri |-> up[9]]
          /\ up' = SubSeq(up, HEADER_SIZE + 1, Len(up))
          /\ pc' = "read"
  /\ UNCHANGED <<pb, written, session, wire, cut, got>>

\* Mutant: a string is taken as far as the stream goes.
NeedsAtMost(type, s) ==
  CASE type \in {"str", "str32"} ->
         LET w == LenWidth(type) IN IF Len(s) < w THEN w ELSE Min({Len(s), w + ReadUint(s, w)})
    [] type = "vec" -> IF Len(s) < 4 THEN 4 ELSE 4 + 2 * ReadUint(s, 4)
    [] type = "pair" -> 3
    [] type = "json" -> Len(s)
    [] OTHER -> Width(type)

\* The bytes a field takes from the stream; more than there are where a read throws.
Needs(type, s) ==
  CASE type \in {"str", "str32"} ->
         LET w == LenWidth(type) IN IF Len(s) < w THEN w ELSE w + ReadUint(s, w)
    [] type = "vec" -> IF Len(s) < 4 THEN 4 ELSE 4 + 2 * ReadUint(s, 4)
    [] type = "pair" -> 3
    [] type = "json" -> Len(s)
    [] OTHER -> Width(type)

\* readVarstr, readVarstr32, unmarshal_container, a pair, the JSON text, the integers.
Value(type, s) ==
  CASE type \in {"str", "str32"} -> SubSeq(s, LenWidth(type) + 1, Needs(type, s))
    [] type = "vec" -> [i \in 1..ReadUint(s, 4) |-> ReadUint(SubSeq(s, 3 + 2 * i, 4 + 2 * i), 2)]
    [] type = "pair" -> <<ReadUint(s, 1), ReadUint(SubSeq(s, 2, 3), 2)>>
    [] type = "json" -> s
    [] OTHER -> ReadUint(s, Width(type))

\* unmarshal of the next field: "not enough data" throws ReadStreamExn.
Unmarshal ==
  LET type == written[Len(got) + 1].type
      n == Needs(type, up)
  IN /\ pc = "read" /\ Len(got) < Len(written)
     /\ IF Len(up) < n
        THEN pc' = "throw" /\ UNCHANGED <<up, got>>
        ELSE /\ got' = Append(got, [type |-> type, val |-> Value(type, up)])
             /\ up' = SubSeq(up, n + 1, Len(up))
             /\ UNCHANGED pc
     /\ UNCHANGED <<pb, written, session, wire, cut, header>>

\* finish: nothing may be left.
Finish ==
  /\ pc = "read" /\ Len(got) = Len(written)
  /\ pc' = IF up = <<>> THEN "done" ELSE "throw"
  /\ UNCHANGED <<pb, written, session, wire, cut, up, header, got>>

-----------------------------------------------------------------------------

\* The constructors of Sender: hpk at the start, pk behind the header.
Init ==
  /\ pc = "write"
  /\ pb = BufferResize(EmptyBuffer, HEADER_SIZE, 0, TRUE).buf
  /\ written = <<>> /\ got = <<>>
  /\ session = 0 /\ cut = FALSE
  /\ wire = <<>> /\ up = <<>>
  /\ header = [sessionId |-> 0, len |-> 0, uri |-> 0]

Next ==
  \/ \E f \in Field, mem \in BOOLEAN : Marshal(f, mem)
  \/ \E s \in Session, u \in Uri : Pack(s, u)
  \/ \E n \in 0..maxsize : Transmit(n)
  \/ OnData \/ PopHeader \/ Unmarshal \/ Finish

Spec == Init /\ [][Next]_vars

-----------------------------------------------------------------------------
(* Properties *)

\* Types; the buffer keeps within its blocks and its limit.
TypeOK ==
  /\ pc \in {"write", "packed", "wire", "header", "read", "done", "throw"}
  /\ BufferOK(pb)
  /\ \A i \in DOMAIN pb.data : pb.data[i] \in Byte
  /\ written \in Seq(Field)

\* marshal and unmarshal: what is read is what was written, in order, also from a
\* stream that breaks off; nothing is made up from bytes that are not there.
ReadsWhatWasWritten ==
  \A i \in DOMAIN got : got[i] = written[i] \/ (cut /\ written[i].type = "json")

\* A complete frame is read to its end and without exception; one that was cut short, by
\* the peer or because its length reaches into the bits of the protocol, is noticed unless
\* what is missing is part of a JSON text.  The buffer never holds more than its capacity,
\* and all variables keep their types.
CompleteOrThrown ==
  /\ TypeOK
  /\ pc = "throw" /\ wire # <<>> => cut
  /\ pc = "done" => (cut => written # <<>> /\ Last(written).type = "json")

\* peekData and popHeader: the session id by which the master chooses a worker is
\* the one the sender wrote and the worker reads.
SessionAgreed ==
  /\ pc = "wire" => PeekData(wire) = session
  /\ pc = "read" => header.sessionId = session
=============================================================================
