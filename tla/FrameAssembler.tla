--------------------------- MODULE FrameAssembler ---------------------------
(***************************************************************************)
(* brtc::FrameAssembler (video/frame_assembler): the ring of received RTP  *)
(* packets, the sequence numbers known to be missing, and the frames that  *)
(* are ready for the caller.  MediaReceiverImpl::network_loop is its only  *)
(* caller and runs on one thread: it inserts a packet, then pops frames    *)
(* until none is left, before it inserts the next one.                     *)
(*                                                                         *)
(* A packet is a record: id tells two packets of equal sequence number     *)
(* apart, seq and ts are header fields, first/last/key come from the video *)
(* header, and bare packets are the ones empty_payload() holds for (a      *)
(* header and nothing else).                                               *)
(***************************************************************************)
EXTENDS SeqNum, Sequences, SequencesExt, FiniteSetsExt

CONSTANTS
  Packets,        \* what the network may deliver, any number of times
  StartSize, MaxSize,   \* kStartPacketBufferSize, kMaxPacketBufferSize
  PaddingAge,     \* kMaxPaddingAge (1000)
  H264,           \* every packet carries codec = H264 in its RTPVideoHeader
  MovedFrom,      \* what a slot holds after its packet was std::move'd out
  None

Packet == [id : Nat, seq : Num, ts : Nat, first : BOOLEAN, last : BOOLEAN,
           key : BOOLEAN, bare : BOOLEAN]

Entry == [pkt : Packet, continuous : BOOLEAN]

ASSUME PacketsAssumption == Packets \subseteq Packet
\* The receiver passes 512 and 1000: the buffer is expanded at most once.
ASSUME SizeAssumption ==
  /\ StartSize \in Nat /\ MaxSize \in Nat
  /\ 0 < StartSize /\ StartSize <= MaxSize /\ MaxSize <= 2 * StartSize
ASSUME AgeAssumption == PaddingAge \in Nat /\ 0 < PaddingAge /\ PaddingAge < Half
ASSUME CodecAssumption == H264 \in BOOLEAN
\* bco::Buffer is not part of the repository: moving from it is taken to leave a
\* bare header behind, or to copy.  (One that leaves no byte at all, 0 where
\* rtp.cpp:224 wants 12, would make the slot look taken; it is left out.)
ASSUME MovedFromAssumption == MovedFrom \in {"empty", "kept"}
ASSUME NoneAssumption == None \notin Nat /\ None \notin Entry

VARIABLES
  size,           \* buffer_.size()
  buffer,         \* buffer_: a slot is None (empty_payload) or a packet and
                  \* its continuous flag
  firstReceived,  \* first_packet_received_
  firstSeq,       \* first_seq_num_
  newest,         \* newest_inserted_seq_num_
  missing,        \* missing_packets_
  keyTs,          \* last_received_keyframe_rtp_timestamp_
  assembled,      \* assembled_frames_
  failure         \* how insert() ended the program, or "none"
vars == <<size, buffer, firstReceived, firstSeq, newest, missing, keyTs,
          assembled, failure>>
stream == <<firstReceived, firstSeq>>

EmptyBuffer(n) == [i \in 0 .. n - 1 |-> None]

Init ==
  /\ size = StartSize
  /\ buffer = EmptyBuffer(StartSize)
  /\ firstReceived = FALSE
  /\ firstSeq = 0
  /\ newest = None
  /\ missing = {}
  /\ keyTs = None
  /\ assembled = <<>>
  /\ failure = "none"
-----------------------------------------------------------------------------
\* Reading the ring b of n slots.

Index(seq, n) == seq % n
PrevIndex(i, n) == IF i > 0 THEN i - 1 ELSE n - 1
Holds(b, n, seq) == LET e == b[Index(seq, n)] IN e # None /\ e.pkt.seq = seq

\* The slot before that of seq holds its predecessor in the same frame.
FollowsInFrame(b, n, seq) ==
  LET prev == b[PrevIndex(Index(seq, n), n)]
  IN  /\ prev # None
      /\ prev.pkt.seq = Pred(seq)
      /\ prev.pkt.ts = b[Index(seq, n)].pkt.ts

\* Mutant: the predecessor need not be continuous.
PotentialAfterAny(b, n, seq) ==
  /\ Holds(b, n, seq)
  /\ b[Index(seq, n)].pkt.first \/ FollowsInFrame(b, n, seq)

PotentialNewFrame(b, n, seq) ==
  /\ Holds(b, n, seq)
  /\ \/ b[Index(seq, n)].pkt.first
     \/ /\ FollowsInFrame(b, n, seq)
        /\ b[PrevIndex(Index(seq, n), n)].continuous

\* Mutant: the search ends with the packet that was inserted.
PotentialOnlyFirst(b, n, seq) == Holds(b, n, seq) /\ b[Index(seq, n)].pkt.first

\* The same test in a later iteration of find_frames: the predecessor has just
\* been marked continuous, and moved out if it ended a frame.
PotentialNewFrameAfterPred(b, n, seq) ==
  /\ Holds(b, n, seq)
  /\ \/ b[Index(seq, n)].pkt.first
     \/ /\ FollowsInFrame(b, n, seq)
        /\ ~ (b[PrevIndex(Index(seq, n), n)].pkt.last /\ MovedFrom = "empty")

\* Offsets from seq that the loop of find_frames visits.
Visited(b, n, seq) ==
  {j \in 0 .. n - 1 :
     /\ PotentialNewFrame(b, n, seq)
     /\ \A i \in 1 .. j : PotentialNewFrameAfterPred(b, n, Plus(seq, i))}

\* How many packets before end its frame begins: the walk over the slots stops
\* at a first packet, or when it has tested all of them.
\* Mutant: the walk does not go on at the other end of the ring.
FrameReachInRow(b, n, end) ==
  Min({Index(end, n)} \cup {k \in 0 .. Index(end, n) :
                              LET e == b[Index(end, n) - k] IN e # None /\ e.pkt.first})

FrameReach(b, n, end) ==
  LET back(k) == IF Index(end, n) >= k THEN Index(end, n) - k
                 ELSE Index(end, n) - k + n
  IN  Min({n - 1} \cup {k \in 0 .. n - 1 : /\ b[back(k)] # None
                                           /\ b[back(k)].pkt.first})

FrameSeqs(b, n, end) == {Minus(end, k) : k \in 0 .. FrameReach(b, n, end)}

\* assert(i == packet.sequence_number()) for every packet of the frame.
AssertHolds(b, n, end) == \A s \in FrameSeqs(b, n, end) : Holds(b, n, s)

\* The packet of slot s as it is handed out with the frame that ends at end.
HandedOut(b, n, end, s) ==
  [b[Index(s, n)].pkt EXCEPT
     !.first = (s = Minus(end, FrameReach(b, n, end))),
     !.last = (s = end)]

FramePackets(b, n, end) ==
  [k \in 1 .. FrameReach(b, n, end) + 1 |->
     HandedOut(b, n, end, Minus(end, FrameReach(b, n, end) + 1 - k))]
-----------------------------------------------------------------------------
\* The k-th smallest of a set of iterations: frames are queued in loop order.
Nth(S, k) == CHOOSE j \in S : Cardinality({i \in S : i < j}) = k - 1

\* find_frames(seq) on the ring b and the set m: the result as a record.
FindFrames(b, n, m, seq) ==
  LET visited == Visited(b, n, seq)
      ends    == {j \in visited : b[Index(Plus(seq, j), n)].pkt.last}
      \* With codec H264 the walk reads a variant alternative the packet does
      \* not hold, and std::get throws.
      fatal   == {j \in ends : H264 \/ ~ AssertHolds(b, n, Plus(seq, j))}
      done    == {j \in ends : \A f \in fatal : j < f}
      marked  == {Plus(seq, j) : j \in {v \in visited : \A f \in fatal : v <= f}}
      framesOf(s) == {j \in done : s \in FrameSeqs(b, n, Plus(seq, j))}
      slot(e) ==
        LET s == e.pkt.seq
            c == e.continuous \/ s \in marked
        IN  IF framesOf(s) = {} THEN [e EXCEPT !.continuous = c]
            ELSE IF MovedFrom = "empty" THEN None
            ELSE [pkt |-> HandedOut(b, n, Plus(seq, Max(framesOf(s))), s),
                  continuous |-> c]
  IN  [buffer  |-> [i \in 0 .. n - 1 |-> IF b[i] = None THEN None ELSE slot(b[i])],
       missing |-> m \ UNION {BelowUpperBound(m, Plus(seq, j)) : j \in done},
       frames  |-> [k \in 1 .. Cardinality(done) |->
                     FramePackets(b, n, Plus(seq, Nth(done, k)))],
       failure |-> IF fatal = {} THEN "none"
                   ELSE IF H264 THEN "bad_variant_access" ELSE "assert"]

\* update_missing_packets(seq): the new newest_inserted_seq_num_ is seq when it
\* is ahead, and missing_packets_ never reaches back further than PaddingAge.
UpdatedNewest(seq) == IF newest = None \/ AheadOf(seq, newest) THEN seq ELSE newest

\* Numbers skipped between from and seq.
Skipped(from, seq) == {e \in Num : ForwardDiff(from, e) \in 1 .. ForwardDiff(from, seq) - 1}
\* Mutants: a late packet stays missing; old numbers are never erased.
LateStaysMissing(seq) ==
  IF newest # None /\ AheadOf(seq, newest)
  THEN (missing \ BelowLowerBound(missing, Minus(seq, PaddingAge))) \cup Skipped(newest, seq)
  ELSE missing
MissingForEver(seq) ==
  IF newest # None /\ AheadOf(seq, newest)
  THEN LET old  == Minus(seq, PaddingAge)
           from == IF AheadOf(old, newest) THEN old ELSE newest
       IN  missing \cup Skipped(from, seq)
  ELSE missing \ {seq}

UpdatedMissing(seq) ==
  IF newest # None /\ AheadOf(seq, newest)
  THEN LET old  == Minus(seq, PaddingAge)
           from == IF AheadOf(old, newest) THEN old ELSE newest
       IN  (missing \ BelowLowerBound(missing, old))
           \cup Skipped(from, seq)
  ELSE missing \ {seq}

\* expand_buffer: a slot claimed by several entries keeps the last one copied.
\* Mutant: packets keep their old slots.
ExpandedSize == IF 2 * size <= MaxSize THEN 2 * size ELSE MaxSize
OldSlotsKept == [i \in 0 .. ExpandedSize - 1 |-> IF i < size THEN buffer[i] ELSE None]
ExpandedBuffer ==
  LET n == ExpandedSize
      claims(i) == {j \in 0 .. size - 1 :
                      buffer[j] # None /\ Index(buffer[j].pkt.seq, n) = i}
  IN  [i \in 0 .. n - 1 |-> IF claims(i) = {} THEN None ELSE buffer[Max(claims(i))]]
-----------------------------------------------------------------------------
\* insert(packet), lines 28-39: is_cleared_to_first_seq_num_ is never set.
NotedFirst(seq) ==
  IF ~ firstReceived \/ AheadOf(firstSeq, seq) THEN seq ELSE firstSeq

\* The caller has drained assembled_frames_, and the program still runs.
Ready == assembled = <<>> /\ failure = "none"

InsertDuplicate(p) ==
  /\ Ready
  /\ Holds(buffer, size, p.seq)
  /\ firstReceived' = TRUE
  /\ firstSeq' = NotedFirst(p.seq)
  /\ UNCHANGED <<size, buffer, newest, missing, keyTs, assembled, failure>>

\* The rest of insert, from line 64, on the ring b of n slots.
Store(p, b, n) ==
  LET kept  == IF p.bare THEN None ELSE [pkt |-> p, continuous |-> FALSE]
      found == FindFrames([b EXCEPT ![Index(p.seq, n)] = kept], n,
                          UpdatedMissing(p.seq), p.seq)
  IN  /\ firstReceived' = TRUE
      /\ firstSeq' = NotedFirst(p.seq)
      /\ keyTs' = IF p.key THEN p.ts ELSE keyTs
      /\ newest' = UpdatedNewest(p.seq)
      /\ size' = n
      /\ buffer' = found.buffer
      /\ missing' = found.missing
      /\ assembled' = found.frames
      /\ failure' = found.failure

InsertIntoFreeSlot(p) ==
  /\ Ready
  /\ buffer[Index(p.seq, size)] = None
  /\ Store(p, buffer, size)

Occupied(p) == buffer[Index(p.seq, size)] # None /\ ~ Holds(buffer, size, p.seq)

InsertAfterExpanding(p) ==
  /\ Ready /\ Occupied(p) /\ size < MaxSize
  /\ ExpandedBuffer[Index(p.seq, ExpandedSize)] = None
  /\ Store(p, ExpandedBuffer, ExpandedSize)

\* No room even at the maximum size: clear_internal, and p is lost as well.
InsertClears(p) ==
  /\ Ready /\ Occupied(p)
  /\ size < MaxSize => ExpandedBuffer[Index(p.seq, ExpandedSize)] # None
  /\ size' = ExpandedSize
  /\ buffer' = EmptyBuffer(ExpandedSize)
  /\ firstReceived' = FALSE
  /\ firstSeq' = NotedFirst(p.seq)
  /\ newest' = None
  /\ missing' = {}
  /\ UNCHANGED <<keyTs, assembled, failure>>

Insert(p) ==
  \/ InsertDuplicate(p)
  \/ InsertIntoFreeSlot(p)
  \/ InsertAfterExpanding(p)
  \/ InsertClears(p)

\* pop_assembled_frame: the payloads of the packets, in order, are the frame.
PopAssembledFrame ==
  /\ failure = "none"
  /\ assembled # <<>>
  /\ assembled' = Tail(assembled)
  /\ UNCHANGED <<size, buffer, stream, newest, missing, keyTs, failure>>

Next == (\E p \in Packets : Insert(p)) \/ PopAssembledFrame

Spec == Init /\ [][Next]_vars
-----------------------------------------------------------------------------
Ring(n) == [0 .. n - 1 -> Entry \cup {None}]
RingTypeOK ==
  /\ size \in StartSize .. MaxSize
  /\ buffer \in Ring(size)
  /\ firstReceived \in BOOLEAN
  /\ firstSeq \in Num
  /\ newest \in Num \cup {None}
  /\ missing \subseteq Num
  /\ keyTs \in Nat \cup {None}

\* Every lookup goes to slot seq % size, before and after the ring has been
\* re-indexed: a packet is only ever found because it sits there.
Placed(b, n) == \A i \in 0 .. n - 1 : b[i] # None => Index(b[i].pkt.seq, n) = i
SlotPlacement == Placed(buffer, size)

\* missing_packets_ looks back PaddingAge numbers from the newest one.  A jump
\* of exactly half a cycle is the exception: the tie rule of AheadOf may keep
\* the oldest number, which is then ahead of the newest one.
Behind(e, n) == ForwardDiff(e, n)
Ahead(e, n)  == ForwardDiff(n, e)
Spans(S, n) ==
  /\ \A e \in S : Behind(e, n) <= PaddingAge \/ Ahead(e, n) <= Half - PaddingAge
  /\ \A e, f \in S :
       Behind(e, n) <= PaddingAge /\ Ahead(f, n) <= Half - PaddingAge =>
         Behind(e, n) + Ahead(f, n) < Half
MissingSpan == missing # {} => newest # None /\ Spans(missing, newest)

\* The WARNING on DescendingSeqNumComp (sequence_number_util.h:77-78) is
\* respected: whatever numbers arrive in whatever order, missing_packets_ never
\* covers so much of the cycle that its comparator stops being an order.
MissingOrdered == OrderedBy(missing)

\* A sequence number is not reported missing while its packet is in the ring.
MissingNotHeld == \A e \in missing : ~ Holds(buffer, size, e)

\* A packet marked continuous has all of its frame before it in the ring: it is
\* the first one, or its predecessor is there, of the same frame, continuous.
ContinuousReachesFirst ==
  failure = "none" =>
    \A i \in 0 .. size - 1 :
      LET e == buffer[i]
      IN  e # None /\ e.continuous /\ ~ e.pkt.first =>
            /\ FollowsInFrame(buffer, size, e.pkt.seq)
            /\ buffer[PrevIndex(i, size)].continuous

\* The assertion of line 272 on the ring's bookkeeping never fires.
AssertNeverFires == failure # "assert"

\* What is handed out is one whole frame as it was sent: consecutive packets of
\* one timestamp, the sender's first flag on the first of them only and its
\* last flag on the last of them only.
Sent(pkt) == CHOOSE p \in Packets : p.id = pkt.id
FramesAreWhole ==
  \A k \in DOMAIN assembled :
    LET f == assembled[k]
    IN  /\ f # <<>>
        /\ \A i \in DOMAIN f :
             /\ f[i].ts = f[1].ts
             /\ Sent(f[i]).first <=> i = 1
             /\ Sent(f[i]).last <=> i = Len(f)
             /\ i > 1 => f[i].seq = Succ(f[i - 1].seq)

\* Nothing up to the end of a frame that was handed out stays missing.
FramesPassMissing ==
  \A k \in DOMAIN assembled :
    \A e \in missing : AheadOf(e, Last(assembled[k]).seq)

\* Once the packets of a frame are all in the ring, the frame has been found:
\* whatever the order they came in, find_frames does not miss one.
InRing(p) == Holds(buffer, size, p.seq) /\ buffer[Index(p.seq, size)].pkt.id = p.id
FrameOf(a) == {p \in Packets : p.ts = a.ts}
NoCompleteFrameWaits == \A a \in Packets : \E p \in FrameOf(a) : ~ InRing(p)

\* Re-indexing into the larger ring loses a packet only to another one that it
\* meets there.  1000 is no multiple of 512, so that packets of different slots
\* may claim the same new one; of those, one is still in the ring, or in a frame
\* that was found by the same insert.
Ids(frames) == UNION {{frames[k][i].id : i \in DOMAIN frames[k]} : k \in DOMAIN frames}
Claims(i, p) == buffer[i] # None /\ Index(buffer[i].pkt.seq, ExpandedSize) = Index(p.seq, ExpandedSize)
Rivals(p) == {buffer[i].pkt : i \in {i \in 0 .. size - 1 : Claims(i, p)}}
ExpansionLosesOnlyRivals ==
  [][size' # size /\ newest' # None =>
       \A p \in Packets :
         InRing(p) => \E q \in Rivals(p) : InRing(q)' \/ q.id \in Ids(assembled')]_vars
=============================================================================
