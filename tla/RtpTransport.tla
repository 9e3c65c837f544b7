---------------------------- MODULE RtpTransport ----------------------------
(***************************************************************************)
(* A packet on its way through brtc::RtpTransport (transport/              *)
(* rtp_transport.cpp, transport.cpp): the pacing loop of the sender builds *)
(* an RtpPacket and the transport sends its buffer in one datagram; the    *)
(* transport of the receiver sorts what arrives and makes an RtpPacket of  *)
(* it.  Other programs send to the same port.                              *)
(*                                                                         *)
(* The sockets lose and reorder datagrams, but never change one, so one    *)
(* datagram at a time is all there is to see here.                         *)
(***************************************************************************)
EXTENDS RtpPacket

CONSTANTS
  FrameIds, SpatialMasks, TemporalLayers, FrameDiffs, Resolutions, \* setter inputs
  SequenceNumbers, Payloads,
  PeerDatagrams,    \* what other senders send: records of a kind and its bytes
  MaxDatagram       \* the size of the buffer of recv_loop (1500)

\* What the assertions of the setters allow.
ASSUME InputsAssumption ==
  /\ FrameIds \subseteq UInt16 /\ SpatialMasks \subseteq Byte
  /\ TemporalLayers \subseteq 0 .. 8 /\ FrameDiffs \subseteq FrameDiff
  /\ Resolutions \subseteq UInt16 \X UInt16
\* The packetizer keeps a packet below the size of the buffer.  Who shares a
\* port with RTP is told apart by the first byte (RFC 7983), RTCP by the second:
\* its packet types are those payload types that RTP does not use (RFC 5761).
IsMediaByte(byte) == 128 <= byte /\ byte <= 191
IsReserved(type) == 64 <= type /\ type <= 95
ASSUME DatagramsAssumption ==
  /\ SequenceNumbers \subseteq UInt16 /\ MaxDatagram \in Nat
  /\ \A payload \in Payloads :
       /\ payload \in Seq(Byte) /\ payload # <<>>
       /\ Len(payload) + 2 * MaxDependencies + 29 <= MaxDatagram
  /\ \A peer \in PeerDatagrams :
       /\ peer.bytes \in Seq(Byte) /\ Len(peer.bytes) \in 1 .. MaxDatagram
       /\ \/ peer.kind = "Rtp"  /\ Len(peer.bytes) >= 12
             /\ IsMediaByte(peer.bytes[1]) /\ ~ IsReserved(peer.bytes[2] % 128)
          \/ peer.kind = "Rtcp" /\ Len(peer.bytes) >= 4
             /\ IsMediaByte(peer.bytes[1]) /\ 192 <= peer.bytes[2] /\ peer.bytes[2] <= 223
          \/ peer.kind = "Other" /\ ~ IsMediaByte(peer.bytes[1])

VARIABLES
  descriptor,  \* the descriptor of the packet that is built
  sent,        \* what the datagram was made of: its kind and, when this
               \* program sent it, the arguments of the setters
  datagram,    \* the bytes on the wire, or <<>>
  received     \* the channel the receiver chose, and for RTP the parsed packet
vars == <<descriptor, sent, datagram, received>>

Nothing == [kind |-> "None"]
Init == descriptor = FreshDescriptor /\ sent = Nothing /\ datagram = <<>> /\ received = Nothing
-----------------------------------------------------------------------------
\* The descriptor is filled; all but three of the setters assert that it is for
\* the first packet of a frame.
Filling == datagram = <<>>
Becomes(d) == descriptor' = d /\ UNCHANGED <<sent, datagram, received>>

SetFirstPacketInSubFrame == Filling /\ Becomes([descriptor EXCEPT !.first = TRUE])
SetLastPacketInSubFrame  == Filling /\ Becomes([descriptor EXCEPT !.last = TRUE])
SetTemporalLayer(t) == Filling /\ Becomes([descriptor EXCEPT !.temporal = t])
SetSpatialLayersBitmask(m) ==
  Filling /\ descriptor.first /\ Becomes([descriptor EXCEPT !.spatial = m])
SetFrameId(n) == Filling /\ descriptor.first /\ Becomes([descriptor EXCEPT !.id = n])
SetResolution(r) ==
  Filling /\ descriptor.first /\ Becomes([descriptor EXCEPT !.resolution = r])
AddDependency(f) ==
  Filling /\ descriptor.first /\ Becomes(AddFrameDependencyDiff(descriptor, f).descriptor)

\* kDefaultSsrc and kDefaultPayloadType; a time of four bytes.
DefaultSsrc == <<0, 171, 65, 48>>
DefaultPayloadType == 127
Timestamp == <<18, 52, 171, 205>>

\* One round of the pacing loop; next_packet of the packetizer writes the
\* payload and then the marker.
Built(d, n, payload, marker) ==
  LET header == SetSequenceNumber(
                  SetTimestamp(SetPayloadType(SetSsrc(FreshPacket, DefaultSsrc),
                                              DefaultPayloadType), Timestamp), n)
  IN  SetMarker(SetPayload(SetExtension(header, d), payload), marker)

SendRtp(n, payload, marker) ==
  /\ Filling
  /\ datagram' = Built(descriptor, n, payload, marker).bytes
  /\ sent' = [kind |-> "Rtp", ours |-> TRUE, number |-> n, payload |-> payload,
              marker |-> marker]
  /\ UNCHANGED <<descriptor, received>>

PeerSends(peer) ==
  /\ Filling
  /\ datagram' = peer.bytes /\ sent' = [kind |-> peer.kind, ours |-> FALSE]
  /\ UNCHANGED <<descriptor, received>>
-----------------------------------------------------------------------------
Version(b) == b[1] \div 64
\* Mutant: the marker bit is not masked.
UnmaskedIsRtcp(b) == Len(b) >= 4 /\ Version(b) = 2 /\ 63 < b[2] /\ b[2] < 96
IsRtcp(b) == Len(b) >= 4 /\ Version(b) = 2 /\ 63 < b[2] % 128 /\ b[2] % 128 < 96
IsRtp(b)  == Len(b) >= FixedHeaderSize /\ Version(b) = 2
\* Mutant: RTP is looked for first.
RtpFirst(b) == IF IsRtp(b) THEN "Rtp" ELSE IF IsRtcp(b) THEN "Rtcp" ELSE "Unknown"
InferPacketType(b) == IF IsRtcp(b) THEN "Rtcp" ELSE IF IsRtp(b) THEN "Rtp" ELSE "Unknown"

\* recv_loop makes a buffer of MaxDatagram bytes and does not use the number of
\* bytes it received: only bco knows whether recvfrom cuts the buffer.
BufferOf(b, cut) == IF cut THEN b ELSE b \o Zeros(MaxDatagram - Len(b))

OnRecvData(cut) ==
  LET b == BufferOf(datagram, cut)
  IN  /\ ~ Filling
      /\ received' = IF InferPacketType(b) = "Rtp"
                     THEN [kind |-> "Rtp", bytes |-> b, parsed |-> Parse(b)]
                     ELSE [kind |-> InferPacketType(b)]
      /\ UNCHANGED <<descriptor, sent, datagram>>

NextPacket ==
  /\ ~ Filling
  /\ descriptor' = FreshDescriptor /\ sent' = Nothing /\ datagram' = <<>> /\ received' = Nothing

Next ==
  \/ SetFirstPacketInSubFrame \/ SetLastPacketInSubFrame
  \/ \E t \in TemporalLayers : SetTemporalLayer(t)
  \/ \E m \in SpatialMasks : SetSpatialLayersBitmask(m)
  \/ \E n \in FrameIds : SetFrameId(n)
  \/ \E r \in Resolutions : SetResolution(r)
  \/ \E f \in FrameDiffs : AddDependency(f)
  \/ \E n \in SequenceNumbers, payload \in Payloads, marker \in BOOLEAN :
       SendRtp(n, payload, marker)
  \/ \E peer \in PeerDatagrams : PeerSends(peer)
  \/ \E cut \in BOOLEAN : OnRecvData(cut)
  \/ NextPacket

Spec == Init /\ [][Next]_vars
-----------------------------------------------------------------------------
Ours == sent # Nothing /\ sent.ours

\* push_back_extension reserves value_size bytes and write_to_buff aborts when
\* that is not what it fills (extension.cpp:225).
SizeIsWhatIsWritten == Len(WriteToBuff(descriptor)) = ValueSize(descriptor)

\* The datagram read by the standards: the fixed header of RFC 3550, then a
\* header extension whose length counts words, with elements of two-byte
\* headers (RFC 8285), zero bytes up to the next word, and the payload.
Word(at) == 256 * At(datagram, at) + At(datagram, at + 1)
WireElement  == SubSeq(datagram, 19, 18 + At(datagram, 17))
WirePayload  == SubSeq(datagram, 17 + 4 * Word(14), Len(datagram))
WireElements == SubSeq(datagram, 17, 16 + 4 * Word(14))

\* What the setters are given comes out of the wire format as it went in, as far
\* as there are bits for it: the fields that share bytes do not run into one
\* another.
ReadsBack == ReadFromBuff(WireElement, FreshDescriptor) = Result(Carried(descriptor), TRUE)
DescriptorSurvives ==
  Ours /\ Encodable(descriptor) =>
    /\ SubSeq(datagram, 13, 14) = <<16, 0>> /\ At(datagram, 16) = GenericFrameDescriptor00
    /\ ReadsBack

\* extension.cpp:66 asserts "temporal_layer <= kMaxTemporalLayers" (8), :132
\* "fdiff <= 1 << 14": that what the setters accept can be sent is not true of
\* layer 8 and of the difference 16384, and no run claims it.
AcceptedSurvives == Ours => ReadsBack

\* The rest of the packet: no setter writes over a bit of another field of the
\* fixed header, the length that set_payload works out from the sizes of the
\* blocks ends the extension where the payload begins, and only padding is
\* between them.
PacketSurvives ==
  Ours =>
    /\ SubSeq(datagram, 1, 2) = <<144, DefaultPayloadType + Flag(sent.marker, 128)>>
    /\ Word(2) = sent.number
    /\ SubSeq(datagram, 5, 12) = Timestamp \o DefaultSsrc
    /\ WirePayload = sent.payload
    /\ \A i \in DOMAIN WireElements : i > 2 + ValueSize(descriptor) => WireElements[i] = 0

\* What arrives goes to the channel of its kind whatever the marker is, and
\* nothing that is neither RTP nor RTCP reaches a channel.
PacketsAreSorted ==
  received # Nothing =>
    received.kind = IF sent.kind = "Other" THEN "Unknown" ELSE sent.kind

\* The parser takes padding and payload for elements too and always leaves the
\* packet (ParseStaysInPacket).  From what it has found by then, get_extension of
\* the receiver (media_receiver_impl.cpp:115) reads the sender's descriptor, as
\* long as no byte of the payload is the descriptor's id.  (A packet that ends
\* within the eight bytes that are read for the length has no element.)
HasDescriptor == Ours /\ received # Nothing /\ Len(received.bytes) > 21 /\ Encodable(descriptor)
Descriptor00Read ==
  GetExtension(received.bytes, received.parsed.entries) = Result(Carried(descriptor), TRUE)
DescriptorIsReceived ==
  HasDescriptor /\ GenericFrameDescriptor00 \notin Range(sent.payload) => Descriptor00Read

\* The header of the extension holds the "length in 32bits" (rtp.cpp:43), and the
\* payload comes after the extensions (rtp.cpp:45-48): a payload is not read for
\* an extension, and takes the place of none.
PayloadIsNoExtension == HasDescriptor => Descriptor00Read

\* That the parser stays in a packet that was built here is not true either, and
\* no run claims it.
ParseStaysInPacket == Ours /\ received # Nothing => ~ received.parsed.left
=============================================================================
