--------------------------- MODULE PacketizerH264 ---------------------------
(***************************************************************************)
(* brtc::PacketizerH264 (video/packetizer/packetizer_h264.cpp): cuts one   *)
(* encoded frame in Annex B format into its NAL units, the NAL units into  *)
(* packet units, and hands out an RTP payload per call of next_packet.     *)
(*                                                                         *)
(* Bytes are positions: a fragment is the bytes from .. from + len - 1 of  *)
(* a NAL unit, whose byte 0 is its header.  A NAL unit of a frame has a    *)
(* start code of 3 or 4 bytes and does not end with a zero byte.           *)
(***************************************************************************)
EXTENDS Integers, Sequences, SequencesExt, FiniteSetsExt

CONSTANTS
  Frames,        \* encoded frames: sequences of [code, len]
  AllLimits,     \* PayloadSizeLimits: [max, first, last, single]
  MaxPayload,    \* kMaxPayloadLength of do_packetization (1200)
  MaxNalus       \* kMaxNalusPerPacket (10)

Limits == [max : Nat, first : Nat, last : Nat, single : Nat]
ASSUME FramesAssumption == \A f \in Frames : f \in Seq([code : {3, 4}, len : Nat \ {0}])
ASSUME LimitsAssumption == \A l \in AllLimits : l \in Limits /\ l.max = MaxPayload
ASSUME SizeAssumption == MaxPayload \in Nat /\ MaxNalus \in Nat \ {0}

NalHeader == 1
FuAHeader == 2
LengthField == 2

\* f[1] + ... + f[n]
Total(f, n) ==
  LET sum[k \in 0 .. n] == IF k = 0 THEN 0 ELSE sum[k - 1] + f[k]
  IN  sum[n]

VARIABLES
  frame,    \* frame_
  limits,   \* limits_
  nalus,    \* nalus_: payload lengths of the NAL units that are not sent yet
  packets,  \* packets_
  left,     \* num_packets_left_
  sent,     \* RTP payloads handed out: [kind, units, start, end, marker]
  failure   \* "assert" once an assertion of the constructor has failed
vars == <<frame, limits, nalus, packets, left, sent, failure>>
-----------------------------------------------------------------------------
\* do_fragmentation

\* find_nalu does not look at the last kH264StartCodeLength bytes.
Findable(f, k) == k < Len(f) \/ f[k].code + f[k].len > 4

\* The payload lengths that are found.  What follows the last NAL unit found,
\* start codes included, counts as its payload.
\* Mutant: the start code is subtracted twice.
NalusTooShort(f) ==
  LET n == Min({MaxNalus, Cardinality({k \in DOMAIN f : Findable(f, k)})})
  IN  [k \in 1 .. n |-> f[k].len - f[k].code]

FoundNalus(f) ==
  LET n == Min({MaxNalus, Cardinality({k \in DOMAIN f : Findable(f, k)})})
      rest == Total([k \in 1 .. Len(f) - n |-> f[n + k].code + f[n + k].len], Len(f) - n)
  IN  [k \in 1 .. n |-> IF k = n THEN f[k].len + rest ELSE f[k].len]
-----------------------------------------------------------------------------
\* split_about_equally: the sizes of the packets of len bytes; none when the
\* limits leave no room.

\* One packet of the loop, with n packets to go and rest bytes.
\* Mutant: every packet is filled.
SizeFilled(l, bytes, n, rest, isFirst) == Min({l.max, rest})
PacketSize(l, bytes, n, rest, isFirst) ==
  LET wanted == IF ~ isFirst THEN bytes
                ELSE IF bytes > l.first + 1 THEN bytes - l.first ELSE 1
      size   == Min({wanted, rest})
  IN  IF n = 2 /\ size = rest THEN size - 1 ELSE size

SplitAboutEqually(len, l) ==
  LET total  == len + l.first + l.last
      n      == Max({2, (total + l.max - 1) \div l.max})
      \* The last total % n packets are one byte wider than the others.
      bytes(k) == total \div n + (IF k <= total % n THEN 1 ELSE 0)
      split[i \in 0 .. n] ==
        IF i = 0 THEN [sizes |-> <<>>, rest |-> len]
        ELSE LET acc == split[i - 1]
                 k   == n + 1 - i
                 s   == PacketSize(l, bytes(k), k, acc.rest, i = 1)
             IN  IF acc.rest = 0 THEN acc
                 ELSE [sizes |-> Append(acc.sizes, s), rest |-> acc.rest - s]
  IN  IF l.max >= l.single + len THEN <<len>>
      ELSE IF l.max - l.first < 1 \/ l.max - l.last < 1 \/ len < n THEN <<>>
      ELSE split[n].sizes

\* packetize_FuA: the limits of the fragments of NAL unit i of count.
FuALimits(l, i, count) ==
  [max    |-> l.max - FuAHeader,
   first  |-> IF i = 1 THEN l.first ELSE 0,
   last   |-> IF i = count THEN l.last ELSE 0,
   single |-> IF count = 1 THEN l.single
              ELSE IF i = count THEN l.last
              ELSE IF i = 1 THEN l.first ELSE 0]

PacketUnit(i, from, len, isFirst, isLast, aggregated) ==
  [unit |-> [nalu |-> i, from |-> from, len |-> len],
   first |-> isFirst, last |-> isLast, aggregated |-> aggregated]

\* The header of the NAL unit is not part of any fragment.
\* Mutant: the first fragment starts with it.
FragmentsFrom0(i, sizes) ==
  [k \in DOMAIN sizes |->
     PacketUnit(i, Total(sizes, k - 1), sizes[k],
                k = 1, k = Len(sizes), FALSE)]
Fragments(i, sizes) ==
  [k \in DOMAIN sizes |->
     PacketUnit(i, NalHeader + Total(sizes, k - 1), sizes[k],
                k = 1, k = Len(sizes), FALSE)]
-----------------------------------------------------------------------------
\* packetize_StapA from NAL unit i on

\* What one packet may hold, in do_packetization and in packetize_StapA.
CapacityOfDefaults(l, i, count) == MaxPayload
SinglePacketCapacity(l, i, count) ==
  MaxPayload - (IF count = 1 THEN l.single
                ELSE IF i = 1 THEN l.first
                ELSE IF i = count THEN l.last ELSE 0)
StapACapacity(l, i, count) ==
  l.max - (IF count = 1 THEN l.single ELSE IF i = 1 THEN l.first ELSE 0)

\* With the second NAL unit come the STAP-A header and its own length field and
\* that of the first one.
\* Mutant: the first NAL unit needs no length field.
HeadersOneLengthField(i, k) ==
  IF k = i THEN 0 ELSE LengthField + (IF k = i + 1 THEN NalHeader ELSE 0)
AggregateHeaders(i, k) ==
  IF k = i THEN 0
  ELSE LengthField + (IF k = i + 1 THEN NalHeader + LengthField ELSE 0)

FitsUpTo(ns, l, i, k) ==
  Total([m \in 1 .. k - i + 1 |-> ns[i + m - 1] + AggregateHeaders(i, i + m - 1)], k - i + 1)
    + (IF k = Len(ns) /\ k # 1 THEN l.last ELSE 0) <= StapACapacity(l, i, Len(ns))

\* The last NAL unit of the packet; i - 1 when not even the first one fits.
LastAggregated(ns, l, i) ==
  Max({i - 1} \cup {k \in i .. Len(ns) : \A m \in i .. k : FitsUpTo(ns, l, i, m)})

Aggregate(ns, i, j) ==
  [k \in 1 .. j - i + 1 |-> PacketUnit(i + k - 1, 0, ns[i + k - 1], k = 1, i + k - 1 = j, TRUE)]
-----------------------------------------------------------------------------
\* do_packetization; next is the NAL unit the loop goes on with.
PacketizeNalu(acc, ns, l, i) ==
  LET sizes == SplitAboutEqually(ns[i] - NalHeader, FuALimits(l, i, Len(ns)))
      j     == LastAggregated(ns, l, i)
  IN  IF ns[i] > SinglePacketCapacity(l, i, Len(ns))
      THEN [packets |-> acc.packets \o Fragments(i, sizes),
            left    |-> acc.left + Len(sizes),
            next    |-> IF sizes = <<>> THEN Len(ns) + 1 ELSE i + 1,
            failed  |-> acc.failed \/ \E k \in DOMAIN sizes : sizes[k] = 0]
      ELSE [packets |-> acc.packets \o Aggregate(ns, i, j),
            left    |-> acc.left + 1,
            next    |-> j + 1,
            failed  |-> acc.failed \/ StapACapacity(l, i, Len(ns)) <= ns[i]]

DoPacketization(ns, l) ==
  LET loop[i \in 0 .. Len(ns)] ==
        IF i = 0 THEN [packets |-> <<>>, left |-> 0, next |-> 1, failed |-> FALSE]
        ELSE IF i = loop[i - 1].next THEN PacketizeNalu(loop[i - 1], ns, l, i)
        ELSE loop[i - 1]
  IN  loop[Len(ns)]

\* The constructor, in a build that keeps assert() or in one that does not.
Init ==
  /\ frame \in Frames
  /\ limits \in AllLimits
  /\ nalus = FoundNalus(frame)
  /\ LET done == DoPacketization(nalus, limits)
     IN  /\ packets = done.packets
         /\ left = done.left
         /\ failure \in {"none"} \union (IF done.failed THEN {"assert"} ELSE {})
  /\ sent = <<>>
-----------------------------------------------------------------------------
\* next_packet hands out the first n packet units as one payload, and takes the
\* first m NAL units off nalus_.
HandOut(kind, n, m) ==
  /\ packets' = SubSeq(packets, n + 1, Len(packets))
  /\ nalus' = SubSeq(nalus, m + 1, Len(nalus))
  /\ left' = left - 1
  /\ sent' = Append(sent, [kind   |-> kind,
                           units  |-> [k \in 1 .. n |-> packets[k].unit],
                           start  |-> packets[1].first,
                           end    |-> packets[n].last,
                           marker |-> packets' = <<>>])
  /\ UNCHANGED <<frame, limits, failure>>

Ready == failure = "none" /\ packets # <<>>
IsSingle(p) == p.first /\ p.last

NextSinglePacket == Ready /\ IsSingle(packets[1]) /\ HandOut("single", 1, 1)

AggregatedUnits == Min({k \in DOMAIN packets : packets[k].last})

NextAggregatePacket ==
  /\ Ready /\ ~ IsSingle(packets[1]) /\ packets[1].aggregated
  /\ HandOut("STAP-A", AggregatedUnits, AggregatedUnits)

\* Mutant: every fragment takes its NAL unit off.
NaluPerFragment(p) == 1
NalusDone(p) == IF p.last THEN 1 ELSE 0

NextFragmentPacket ==
  /\ Ready /\ ~ IsSingle(packets[1]) /\ ~ packets[1].aggregated
  /\ HandOut("FU-A", 1, NalusDone(packets[1]))

Next == NextSinglePacket \/ NextAggregatePacket \/ NextFragmentPacket

Spec == Init /\ [][Next]_vars
-----------------------------------------------------------------------------
\* What a receiver makes of the payloads (RFC 6184): an FU-A payload with the
\* start bit begins a NAL unit and restores its header, one without continues
\* the NAL unit where it broke off.  Number 0 stands for garbage.
Garbage == [nalu |-> 0, len |-> 0, open |-> FALSE]
Depacketize(acc, p) ==
  LET u == p.units[1]
      last == Last(acc)
      joined == IF acc # <<>> /\ last.open /\ last.nalu = u.nalu /\ last.len = u.from
                THEN [last EXCEPT !.len = @ + u.len, !.open = ~ p.end]
                ELSE Garbage
      whole(v) == IF v.from = 0 THEN [nalu |-> v.nalu, len |-> v.len, open |-> FALSE]
                  ELSE Garbage
  IN  IF p.kind # "FU-A" THEN acc \o [k \in DOMAIN p.units |-> whole(p.units[k])]
      ELSE IF p.start
           THEN Append(acc, IF u.from = NalHeader
                            THEN [nalu |-> u.nalu, len |-> NalHeader + u.len, open |-> ~ p.end]
                            ELSE Garbage)
      ELSE Append(Front(acc), joined)
RebuiltFrom(payloads) ==
  LET made[k \in 0 .. Len(payloads)] ==
        IF k = 0 THEN <<>> ELSE Depacketize(made[k - 1], payloads[k])
  IN  made[Len(payloads)]
Rebuilt == RebuiltFrom(sent)

\* A frame of at most MaxNalus NAL units, the last of which is found.
Representable == Len(frame) <= MaxNalus /\ Findable(frame, Len(frame))

\* However the NAL units of a frame are mixed into single, STAP-A and FU-A
\* packets, the receiver gets back every one of them, whole and in order.
FramesAreRebuilt ==
  Representable /\ packets = <<>> /\ failure = "none" =>
    Rebuilt = [k \in DOMAIN frame |-> [nalu |-> k, len |-> frame[k].len, open |-> FALSE]]

PayloadSize(p) ==
  LET units == Total([k \in DOMAIN p.units |-> p.units[k].len], Len(p.units))
  IN  IF p.kind = "single" THEN units
      ELSE IF p.kind = "FU-A" THEN FuAHeader + units
      ELSE NalHeader + LengthField * Len(p.units) + units

\* No payload is larger than the limits allow, headers included: the first and
\* the last packet of a frame, and the one that is both, leave the room that is
\* asked for (packetizer.h:15-19).
RoomLeft(k) ==
  IF packets = <<>> /\ Len(sent) = 1 THEN limits.single
  ELSE IF k = 1 THEN limits.first
  ELSE IF packets = <<>> /\ k = Len(sent) THEN limits.last ELSE 0
PayloadsFit ==
  packets = <<>> => \A k \in DOMAIN sent : PayloadSize(sent[k]) <= limits.max - RoomLeft(k)

\* num_packets_left_ counts the payloads that are still to come, although
\* packets_ holds one entry per aggregated NAL unit; only the last payload has
\* the marker; nalus_ runs empty together with packets_.
CountsAgree ==
  /\ left = Cardinality({k \in DOMAIN packets : packets[k].last \/ ~ packets[k].aggregated})
  /\ \A k \in DOMAIN sent : sent[k].marker <=> k = Len(sent) /\ packets = <<>>
  /\ Len(nalus) = Cardinality({packets[k].unit.nalu : k \in DOMAIN packets})

\* "split about equally": the fragments of a NAL unit differ by a byte at most,
\* when no packet has to leave extra room.
FragmentsAboutEqual ==
  limits.first = 0 /\ limits.last = 0 =>
    \A j, k \in DOMAIN sent :
      sent[j].kind = "FU-A" /\ sent[k].kind = "FU-A"
        /\ sent[j].units[1].nalu = sent[k].units[1].nalu
      => sent[j].units[1].len - sent[k].units[1].len \in {-1, 0, 1}

\* The assertions of packetize_FuA and packetize_StapA (lines 222 and 247) fail
\* for nothing but a NAL unit that fills its packet to the last byte, which
\* do_packetization does not send to packetize_FuA and packetize_StapA does not
\* expect.
FillsItsPacket(k) ==
  FoundNalus(frame)[k] = SinglePacketCapacity(limits, k, Len(FoundNalus(frame)))
OnlyFullNalusAssert == failure = "assert" => \E k \in DOMAIN FoundNalus(frame) : FillsItsPacket(k)
=============================================================================
