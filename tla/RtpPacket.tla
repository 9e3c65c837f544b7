----------------------------- MODULE RtpPacket -----------------------------
(***************************************************************************)
(* brtc::RtpPacket (rtp/rtp.h, rtp/rtp.cpp) as operators on a record.  A   *)
(* packet that is built has a buffer of several blocks: the fixed header,  *)
(* the header extension and the payload are pushed one after the other,    *)
(* and the sizes written into the extension's header are taken from the    *)
(* sizes of the blocks.  A packet that is received is one block.           *)
(*                                                                         *)
(* The generic frame descriptor is the only extension the program has, and *)
(* its id is the value of its enumerator, 16: always a two-byte header.    *)
(***************************************************************************)
EXTENDS GenericFrameDescriptor

FixedHeaderSize == 12          \* kFixedHeaderSize
GenericFrameDescriptor00 == 16 \* RTPExtensionType
OneByteMaxId == 14             \* kOneByteHeaderExtensionMaxId
OneByteMaxValueSize == 16      \* kOneByteHeaderExtensionMaxValueSize

Packet == [bytes : Seq(Byte),  \* buffer_, all blocks; positions count from 0
           blocks : Seq(Nat),  \* the sizes of its blocks
           mode : {"OneByte", "TwoByte"},                     \* extension_mode_
           entries : Seq([type : Byte, offset : Nat, length : Byte])] \* extension_entries_

Zeros(n) == [i \in 1 .. n |-> 0]
FreshPacket == [bytes |-> <<128>> \o Zeros(FixedHeaderSize - 1),
                blocks |-> <<FixedHeaderSize>>, mode |-> "OneByte", entries |-> <<>>]

\* The buffer: write at a position, append to the last block or as a new block.
PutAt(p, at, bs) ==
  [p EXCEPT !.bytes = [i \in DOMAIN @ |-> IF i - 1 \in at .. at + Len(bs) - 1
                                          THEN bs[i - at] ELSE @[i]]]
PushBack(p, bs) ==
  [p EXCEPT !.bytes = @ \o bs, !.blocks = Append(Front(@), Last(@) + Len(bs))]
PushBlock(p, bs) ==
  [p EXCEPT !.bytes = @ \o bs, !.blocks = Append(@, Len(bs))]
-----------------------------------------------------------------------------
\* The fixed header; SSRC and timestamp are four bytes each.

SetPayloadType(p, pt) == PutAt(p, 1, <<128 * (p.bytes[2] \div 128) + pt>>)
\* Mutant: the marker takes the place of the payload type.
MarkerOnly(p, m) == PutAt(p, 1, <<Flag(m, 128)>>)
SetMarker(p, m) == PutAt(p, 1, <<Flag(m, 128) + (p.bytes[2] % 128)>>)
SetSequenceNumber(p, n) == PutAt(p, 2, HighLow(n))
SetTimestamp(p, t) == PutAt(p, 4, t)
SetSsrc(p, s) == PutAt(p, 8, s)

CsrcsSize(bytes) == bytes[1] % 16
\* Where the header of the extension begins, if there is one.
ExtensionAt(bytes) == FixedHeaderSize + 4 * CsrcsSize(bytes)
-----------------------------------------------------------------------------
\* set_extension on a packet without extensions.  The magic number is followed
\* by two bytes for the length, which set_payload writes.

NeedPromotion(p, size) ==
  p.mode = "OneByte" /\ (GenericFrameDescriptor00 > OneByteMaxId \/ size > OneByteMaxValueSize)

PromoteTwoBytesHeaderAndReserve(p, n) ==
  PushBlock([p EXCEPT !.mode = "TwoByte"], <<16, 0>> \o Zeros(2 + n))

\* Mutant: the element is written over the header of the extension.
ElementOverHeader(p) == ExtensionAt(p.bytes)
InsertPos(p) == IF p.entries # <<>> THEN Last(p.entries).offset + Last(p.entries).length
                ELSE ExtensionAt(p.bytes) + 4

PushBackExtension(p, d) ==
  [PutAt(p, InsertPos(p), <<GenericFrameDescriptor00, ValueSize(d)>> \o WriteToBuff(d))
   EXCEPT !.entries = Append(@, [type |-> GenericFrameDescriptor00, offset |-> InsertPos(p),
                                 length |-> ValueSize(d) + 2])]

SetExtension(p, d) ==
  LET flagged == PutAt(p, 0, <<p.bytes[1] + 16>>)
  IN  IF NeedPromotion(p, ValueSize(d))
      THEN PushBackExtension(PromoteTwoBytesHeaderAndReserve(flagged, ValueSize(d) + 2), d)
      ELSE PushBackExtension(flagged, d)

\* set_payload pads the last block, taken to be the extension, to four bytes,
\* notes its length in words, and appends the payload.
\* Mutants: no padding; a word too many when none is needed.
WordsUnpadded(p, payload) ==
  PushBlock(PutAt(p, ExtensionAt(p.bytes) + 2, HighLow((Last(p.blocks) - 4) \div 4 + 1)), payload)
WordsAlwaysOneMore(p, payload) ==
  LET extBytes == Last(p.blocks) - 4
  IN  PushBlock(PutAt(PushBack(p, Zeros((4 - (extBytes % 4)) % 4)),
                      ExtensionAt(p.bytes) + 2, HighLow(extBytes \div 4 + 1)), payload)
SetPayload(p, payload) ==
  LET extBytes == Last(p.blocks) - 4
      pad      == (4 - (extBytes % 4)) % 4
  IN  PushBlock(PutAt(PushBack(p, Zeros(pad)),
                      ExtensionAt(p.bytes) + 2, HighLow((extBytes + pad) \div 4)), payload)
-----------------------------------------------------------------------------
\* RtpPacket(bco::Buffer): finding the elements of the extension in the bytes b.

At(b, pos) == b[pos + 1]
Outside(b, pos) == pos >= Len(b)

ModeOf(b) ==
  LET magic == <<At(b, ExtensionAt(b)), At(b, ExtensionAt(b) + 1)>>
  IN  CASE magic = <<190, 222>> -> "OneByte"
        [] magic = <<16, 0>>    -> "TwoByte"
        [] OTHER                -> "None"

\* The variable is a size_t: eight bytes are read, the two of the length are
\* the most significant ones, and any length (below 2^14 words) is beyond every
\* buffer.
Unbounded == 1073741824
ExtensionBytes(b) ==
  LET at == ExtensionAt(b) + 2
  IN  IF \E i \in 0 .. 4 : At(b, at + i) # 0 THEN Unbounded
      ELSE 4 * (65536 * At(b, at + 5) + 256 * At(b, at + 6) + At(b, at + 7))

ElementHeader(mode) == IF mode = "OneByte" THEN 1 ELSE 2

\* find_or_create_extension_info: one entry for a type, which a later element of
\* the type takes over.
Noted(entries, type, info) ==
  [t \in DOMAIN entries \union {type} |-> IF t = type THEN info ELSE entries[t]]

\* One round of the loop over the elements; acc.n is number_of_extension.
\* Mutant: the header of the element is taken for a part of its value.
ValueWithHeader(b, n) == ExtensionAt(b) + 4 + n
ValueOffset(b, n) == ExtensionAt(b) + 4 + n + ElementHeader(ModeOf(b))
ReadElement(b, acc) ==
  LET one    == ModeOf(b) = "OneByte"
      pos    == ExtensionAt(b) + 4 + acc.n
      id     == IF one THEN At(b, pos) \div 16 ELSE At(b, pos)
      length == IF one THEN 1 + (At(b, pos) % 16) ELSE At(b, pos + 1)
      after  == acc.n + ElementHeader(ModeOf(b)) + length
      info   == [offset |-> ValueOffset(b, acc.n), length |-> length]
      stop   == [acc EXCEPT !.more = FALSE]
      leave  == [acc EXCEPT !.more = FALSE, !.left = TRUE]
  IN  CASE acc.n + ElementHeader(ModeOf(b)) >= ExtensionBytes(b) -> stop
        [] Outside(b, pos)                                       -> leave
        [] At(b, pos) = 0                                        -> [acc EXCEPT !.n = @ + 1]
        [] ~ one /\ Outside(b, pos + 1)                          -> leave
        [] one /\ (id = 15 \/ (id = 0 /\ length # 1))            -> stop
        [] after > ExtensionBytes(b)                             -> stop
        [] OTHER -> [acc EXCEPT !.n = after, !.entries = Noted(@, id, info)]

ParseRound(b, acc) == IF acc.more THEN ReadElement(b, acc) ELSE acc
ReadElements(b, start) ==
  LET round[i \in 0 .. Len(b) + 1] == IF i = 0 THEN start ELSE ParseRound(b, round[i - 1])
  IN  round[Len(b) + 1]

\* The entries, as a function of the types that were found, and whether a read
\* left the buffer: bco::Buffer says what becomes of the packet then, and nothing
\* is assumed of it here.
Parse(b) ==
  LET nothing == [n |-> 0, entries |-> <<>>, more |-> TRUE, left |-> FALSE]
  IN  CASE ~ Bit(b[1], 16)                    -> nothing
        [] Outside(b, ExtensionAt(b) + 1)     -> [nothing EXCEPT !.left = TRUE]
        [] ModeOf(b) = "None"                 -> nothing
        [] Outside(b, ExtensionAt(b) + 9)     -> [nothing EXCEPT !.left = TRUE]
        [] OTHER                              -> ReadElements(b, nothing)

\* get_extension of the generic frame descriptor, into a descriptor that is
\* fresh: an entry without a length counts as none.
FindExtension(b, info) == SubSeq(b, info.offset + 1, info.offset + info.length)
GetExtension(b, entries) ==
  IF GenericFrameDescriptor00 \notin DOMAIN entries THEN Result(FreshDescriptor, FALSE)
  ELSE ReadFromBuff(FindExtension(b, entries[GenericFrameDescriptor00]), FreshDescriptor)
=============================================================================
