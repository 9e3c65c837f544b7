------------------------- MODULE MediaSenderProofs -------------------------
(***************************************************************************)
(* Inductive invariants of MediaSender: for any number of calls of         *)
(* start(), frames and packets, the ownership of the captured frame, the   *)
(* stream of packets, and what is still sent after stop().                 *)
(***************************************************************************)
EXTENDS MediaSender, FiniteSetTheorems, SequenceTheorems, TLAPS

Places == {"none", "head", "sleeping", "encoding", "receiving", "done"}

\* Loops come into being one set at a time, and the one capture loop that
\* encodes occupies the thread.
ControlInv ==
  /\ stop \in BOOLEAN
  /\ started \in 0 .. MaxStarts
  /\ capturing \in [Loops -> Places] /\ pacing \in [Loops -> Places]
  /\ onEncode \in {0} \union Loops
  /\ \A l \in Loops : capturing[l] = "encoding" <=> onEncode = l
  /\ \A l \in Loops : l > started => capturing[l] = "none" /\ pacing[l] = "none"

\* No loop has been started at first.
LEMMA ControlInit == Init => ControlInv
<1> SUFFICES ASSUME Init PROVE ControlInv
  OBVIOUS
<1>1. stop = TRUE /\ started = 0 /\ onEncode = 0
  BY DEF Init
<1>2. capturing = [l \in Loops |-> "none"] /\ pacing = [l \in Loops |-> "none"]
  BY DEF Init
<1>3. stop \in BOOLEAN
  BY <1>1
<1>4. /\ capturing \in [Loops -> Places] /\ pacing \in [Loops -> Places]
      /\ \A l \in Loops : capturing[l] = "none" /\ pacing[l] = "none"
  BY <1>2 DEF Places
<1> QED BY <1>1, <1>3, <1>4, BoundAssumption DEF ControlInv, Loops

\* Every step of a loop or of the control thread keeps the threads accounted for.
LEMMA ControlNext == ControlInv /\ [Next]_vars => ControlInv'
<1> SUFFICES ASSUME ControlInv, [Next]_vars PROVE ControlInv'
  OBVIOUS
<1> USE BoundAssumption DEF ControlInv, Loops, Places
<1>1. CASE Start
  <2> DEFINE k == started + 1
  <2>1. k \in Loops /\ capturing[k] = "none" /\ onEncode # k
    BY <1>1 DEF Start
  <2>2. /\ stop' = FALSE /\ started' = k /\ onEncode' = onEncode
        /\ capturing' = [capturing EXCEPT ![k] = "head"]
        /\ pacing' = [pacing EXCEPT ![k] = "head"]
    BY <1>1 DEF Start, device
  <2>3. stop' \in BOOLEAN
    BY <2>2
  <2> HIDE DEF k
  <2>4. \A l \in Loops : capturing'[l] = "encoding" <=> onEncode' = l
    BY <2>1, <2>2
  <2>5. \A l \in Loops : l > k => l # k /\ l > started
    BY <2>1 DEF k
  <2>6. \A l \in Loops : l > k => capturing'[l] = "none" /\ pacing'[l] = "none"
    BY <2>1, <2>2, <2>5
  <2>7. k \in 0 .. MaxStarts /\ capturing' \in [Loops -> Places] /\ pacing' \in [Loops -> Places]
    BY <2>1, <2>2
  <2> QED BY <2>2, <2>3, <2>4, <2>6, <2>7
<1>2. CASE Stop
  BY <1>2 DEF Stop, device
<1>3. ASSUME NEW l \in Loops, CaptureHead(l) PROVE ControlInv'
  BY <1>3 DEF CaptureHead, FromHead, device
<1>4. ASSUME NEW l \in Loops, CaptureFails(l) PROVE ControlInv'
  BY <1>4 DEF CaptureFails
<1>5. ASSUME NEW l \in Loops, CaptureOneFrame(l) PROVE ControlInv'
  BY <1>5 DEF CaptureOneFrame
<1>6. ASSUME NEW l \in Loops, EncodeFails(l) \/ EncodeOneFrame(l) PROVE ControlInv'
  BY <1>6 DEF EncodeFails, EncodeOneFrame
<1>7. ASSUME NEW l \in Loops, PacingHead(l) PROVE ControlInv'
  BY <1>7 DEF PacingHead, FromHead, device
<1>8. ASSUME NEW l \in Loops, SendFrame(l) PROVE ControlInv'
  BY <1>8 DEF SendFrame, device
<1>9. ASSUME NEW l \in Loops, NetworkStep(l) PROVE ControlInv'
  BY <1>9 DEF NetworkStep, NetworkHead, RecvRtcp, device
<1>10. CASE UNCHANGED vars
  BY <1>10 DEF vars
<1> QED
  BY <1>1, <1>2, <1>3, <1>4, <1>5, <1>6, <1>7, <1>8, <1>9, <1>10
  DEF Next, CaptureStep, PacingStep
-----------------------------------------------------------------------------
\* Together with ControlInv inductive: acquired changes with onEncode only.
LEMMA ReleasedNext ==
  ASSUME ReleaseAfterEncode, ~ ReleaseAfterCapture
  PROVE  ControlInv /\ FrameReleasedOnce /\ [Next]_vars => FrameReleasedOnce'
<1> SUFFICES ASSUME ControlInv, FrameReleasedOnce, [Next]_vars PROVE FrameReleasedOnce'
  OBVIOUS
<1> USE DEF FrameReleasedOnce
<1>1. CASE Start \/ Stop
  BY <1>1 DEF Start, Stop, device
<1>2. ASSUME NEW l \in Loops, CaptureFails(l) PROVE FrameReleasedOnce'
  <2>1. onEncode' = 0
    BY <1>2 DEF CaptureFails
  <2>2. PICK now : acquired' = (now /\ ~ ReleaseAfterEncode)
    BY <1>2 DEF CaptureFails, CaptureEmptyFrame, ReleaseIf
  <2>3. ~ acquired'
    BY <2>2, Zenon
  <2> QED BY <2>1, <2>3
<1>3. ASSUME NEW l \in Loops, CaptureOneFrame(l) PROVE FrameReleasedOnce'
  <2>1. onEncode' = l /\ l # 0
    BY <1>3, BoundAssumption DEF CaptureOneFrame, Loops
  <2>2. acquired' = (TRUE /\ ~ ReleaseAfterCapture)
    BY <1>3 DEF CaptureOneFrame, AfterCapture, ReleaseIf
  <2>3. acquired'
    BY <2>2, Zenon
  <2> QED BY <2>1, <2>3
<1>4. ASSUME NEW l \in Loops, EncodeFails(l) \/ EncodeOneFrame(l) PROVE FrameReleasedOnce'
  BY <1>4 DEF EncodeFails, EncodeOneFrame, EncodeFailed, AfterEncode, ReleaseIf
<1>5. ASSUME NEW l \in Loops, CaptureHead(l) \/ PacingStep(l) \/ NetworkStep(l)
      PROVE  FrameReleasedOnce'
  BY <1>5 DEF CaptureHead, PacingStep, PacingHead, SendFrame, NetworkStep, NetworkHead,
              RecvRtcp, device
<1>6. CASE UNCHANGED vars
  BY <1>6 DEF vars
<1> QED BY <1>1, <1>2, <1>3, <1>4, <1>5, <1>6 DEF Next, CaptureStep

\* With the strategy that releases after encoding, and however many capture
\* loops run, the device holds a frame while it is being encoded and at no other
\* time (FrameReleasedOnce).
THEOREM FramesAreReleased ==
  ASSUME ReleaseAfterEncode, ~ ReleaseAfterCapture
  PROVE  Spec => []FrameReleasedOnce
<1>1. Init => FrameReleasedOnce
  BY DEF Init, FrameReleasedOnce
<1> QED BY <1>1, ControlInit, ControlNext, ReleasedNext, PTL DEF Spec
-----------------------------------------------------------------------------
\* The pacing loops that wait for a frame are the ones that may still send.
Waiting == {l \in Loops : pacing[l] = "receiving"}

\* The strengthening of StopLimitsSending.
SendingInv ==
  /\ afterStop \in Nat
  /\ ~ stop => afterStop = 0
  /\ stop => afterStop + Cardinality(Waiting) <= started

\* At most as many loops wait as were started.
LEMMA WaitingFacts ==
  ASSUME ControlInv
  PROVE  IsFiniteSet(Waiting) /\ Cardinality(Waiting) \in Nat /\ Cardinality(Waiting) <= started
<1>1. Waiting \in SUBSET (1 .. started)
  BY BoundAssumption DEF ControlInv, Waiting, Loops
<1>2. IsFiniteSet(1 .. started) /\ Cardinality(1 .. started) = started
  BY FS_Interval DEF ControlInv
<1> QED BY <1>1, <1>2, FS_Subset, FS_CardinalityType

\* Nothing has been sent after stop at first.
LEMMA SendingInit == Init => SendingInv
<1> SUFFICES ASSUME Init PROVE SendingInv
  OBVIOUS
<1>1. Waiting = {}
  BY DEF Init, Waiting
<1> QED BY <1>1, FS_EmptySet DEF Init, SendingInv

\* A frame that is sent after stop uses up a loop that was waiting.
LEMMA SendingNext == ControlInv /\ SendingInv /\ [Next]_vars => SendingInv'
<1> SUFFICES ASSUME ControlInv, SendingInv, [Next]_vars PROVE SendingInv'
  OBVIOUS
<1> USE DEF SendingInv
<1>1. CASE Start
  <2>1. afterStop' = 0 /\ ~ stop'
    BY <1>1 DEF Start
  <2> QED BY <2>1
<1>2. CASE Stop
  <2>1. ~ stop /\ afterStop' = afterStop /\ started' = started /\ Waiting' = Waiting
    BY <1>2 DEF Stop, output, Waiting
  <2> QED BY <2>1, WaitingFacts DEF ControlInv
<1>3. ASSUME NEW l \in Loops, PacingHead(l) PROVE SendingInv'
  <2>1. /\ UNCHANGED <<stop, started, afterStop>>
        /\ pacing' = [pacing EXCEPT ![l] = FromHead("receiving")]
    BY <1>3 DEF PacingHead, output
  <2>2. stop => Waiting' = Waiting
    BY <1>3, <2>1 DEF PacingHead, FromHead, Waiting, ControlInv
  <2> QED BY <2>1, <2>2
<1>4. ASSUME NEW l \in Loops, SendFrame(l) PROVE SendingInv'
  <2>1. /\ UNCHANGED <<stop, started>>
        /\ pacing' = [pacing EXCEPT ![l] = "head"]
        /\ afterStop' = IF stop THEN afterStop + 1 ELSE 0
        /\ l \in Waiting
    BY <1>4 DEF SendFrame, Waiting
  <2>2. Waiting' = Waiting \ {l}
    BY <2>1 DEF Waiting, ControlInv
  <2>3. Cardinality(Waiting') = Cardinality(Waiting) - 1
    BY <2>1, <2>2, WaitingFacts, FS_RemoveElement
  <2> QED BY <2>1, <2>3, WaitingFacts DEF ControlInv
<1>5. ASSUME NEW l \in Loops, CaptureStep(l) \/ NetworkStep(l) PROVE SendingInv'
  <2>1. UNCHANGED <<stop, started, afterStop, pacing>>
    BY <1>5 DEF CaptureStep, CaptureHead, CaptureFails, CaptureOneFrame, EncodeFails,
                EncodeOneFrame, NetworkStep, NetworkHead, RecvRtcp, output
  <2> QED BY <2>1 DEF Waiting
<1>6. CASE UNCHANGED vars
  BY <1>6 DEF vars, Waiting
<1> QED BY <1>1, <1>2, <1>3, <1>4, <1>5, <1>6 DEF Next, PacingStep

\* After stop() every call of start() so far accounts for one frame at most
\* (StopLimitsSending).
THEOREM StoppedSenderEnds == Spec => []StopLimitsSending
<1>1. ControlInv /\ SendingInv => StopLimitsSending
  BY WaitingFacts DEF ControlInv, SendingInv, StopLimitsSending
<1> QED BY <1>1, ControlInit, ControlNext, SendingInit, SendingNext, PTL DEF Spec
-----------------------------------------------------------------------------
\* The next number follows from the last one, whichever of the two is reduced.
LEMMA NextNumber ==
  ASSUME NEW x \in Nat
  PROVE  x % M \in 0 .. M - 1 /\ ((x % M) + 1) % M = (x + 1) % M
<1> USE BoundAssumption
<1>1. ASSUME NEW y \in Nat, NEW q \in Nat, NEW r \in 0 .. M - 1, y = M * q + r
      PROVE  y % M = r
  BY <1>1
<1> DEFINE r == x % M
           q == x \div M
<1>2. r \in 0 .. M - 1 /\ q \in Nat /\ x = M * q + r
  OBVIOUS
<1> HIDE DEF q, r
<1>3. CASE r + 1 < M
  BY <1>1, <1>2, <1>3
<1>4. CASE r + 1 = M
  <2>1. x + 1 = M * (q + 1) + 0
    BY <1>2, <1>4
  <2> QED BY <1>1, <1>2, <1>4, <2>1
<1> QED BY <1>2, <1>3, <1>4 DEF r

\* A frame that is not the one being encoded.
Captured(f) == IF onEncode # 0 THEN f < frames ELSE f <= frames

\* The strengthening of StreamIsContiguous: what is on the wire was captured
\* before what is in the channel, and that before the frame being encoded.
StreamInv ==
  /\ wire \in Seq([frame : Nat, seq : 0 .. M - 1]) /\ channel \in Seq(Nat)
  /\ seqNumber \in 0 .. M - 1 /\ frames \in Nat
  /\ \A i \in 1 .. Len(wire) - 1 :
       wire[i + 1].seq = (wire[i].seq + 1) % M /\ wire[i + 1].frame >= wire[i].frame
  /\ Len(wire) > 0 => seqNumber = (wire[Len(wire)].seq + 1) % M
  /\ \A i \in 1 .. Len(wire), j \in 1 .. Len(channel) : wire[i].frame < channel[j]
  /\ \A i, j \in 1 .. Len(channel) : i < j => channel[i] < channel[j]
  /\ \A i \in 1 .. Len(wire) : Captured(wire[i].frame)
  /\ \A j \in 1 .. Len(channel) : Captured(channel[j])

\* What is on the wire and in the channel are captured frames.
LEMMA StreamTypes ==
  ASSUME StreamInv
  PROVE  /\ frames \in Nat /\ channel \in Seq(Nat)
         /\ Len(wire) \in Nat /\ Len(channel) \in Nat
         /\ \A i \in 1 .. Len(wire) : wire[i].frame \in Nat
         /\ \A j \in 1 .. Len(channel) : channel[j] \in Nat
<1> DEFINE S == [frame : Nat, seq : 0 .. M - 1]
<1>1. wire \in Seq(S) /\ channel \in Seq(Nat) /\ frames \in Nat
  BY DEF StreamInv
<1>2. \A r \in S : r.frame \in Nat
  OBVIOUS
<1> HIDE DEF S
<1>3. Len(wire) \in Nat /\ Len(channel) \in Nat
  BY <1>1
<1>4. \A i \in 1 .. Len(wire) : wire[i] \in S
  BY <1>1
<1>5. \A j \in 1 .. Len(channel) : channel[j] \in Nat
  BY <1>1
<1> QED BY <1>1, <1>2, <1>3, <1>4, <1>5

\* Nothing is on the wire or in the channel at first.
LEMMA StreamInit == Init => StreamInv
<1> SUFFICES ASSUME Init PROVE StreamInv
  OBVIOUS
<1>1. wire = <<>> /\ channel = <<>> /\ frames = 0 /\ seqNumber \in 0 .. M - 1
  BY DEF Init
<1> QED BY <1>1 DEF StreamInv

\* The packets of one frame, numbered from where the last one ended.
LEMMA PacketsFollow ==
  ASSUME StreamInv, NEW f \in Nat, NEW n \in Nat
  PROVE  /\ PacketsOf(f, n) \in Seq([frame : Nat, seq : 0 .. M - 1])
         /\ Len(PacketsOf(f, n)) = n
         /\ \A k \in 1 .. n : PacketsOf(f, n)[k].frame = f
         /\ n > 0 => PacketsOf(f, n)[1].seq = seqNumber
         /\ \A k \in 1 .. n - 1 :
              PacketsOf(f, n)[k + 1].seq = (PacketsOf(f, n)[k].seq + 1) % M
         /\ n > 0 => (seqNumber + n) % M = (PacketsOf(f, n)[n].seq + 1) % M
         /\ (seqNumber + n) % M \in 0 .. M - 1
<1> DEFINE P == PacketsOf(f, n)
           S == [frame : Nat, seq : 0 .. M - 1]
<1>1. seqNumber \in 0 .. M - 1 /\ M \in Nat
  BY BoundAssumption DEF StreamInv
<1>2. \A k \in 1 .. n : seqNumber + k - 1 \in Nat
  BY <1>1
<1>3. ASSUME NEW k \in 1 .. n
      PROVE  /\ P[k] = [frame |-> f, seq |-> (seqNumber + k - 1) % M]
             /\ P[k].frame = f /\ P[k].seq = (seqNumber + k - 1) % M
             /\ P[k] \in S
  <2>1. P[k] = [frame |-> f, seq |-> (seqNumber + k - 1) % M]
    BY DEF PacketsOf
  <2> HIDE DEF P
  <2>2. (seqNumber + k - 1) % M \in 0 .. M - 1
    BY <1>2, NextNumber
  <2> QED BY <2>1, <2>2
<1>4. \A k \in 1 .. n : P[k].frame = f /\ P[k].seq = (seqNumber + k - 1) % M
  BY <1>3
<1>5. \A k \in 1 .. n : P[k] \in S
  BY <1>3
<1>6. DOMAIN P = 1 .. n /\ P = [k \in 1 .. n |-> P[k]]
  BY DEF PacketsOf
<1> HIDE DEF P, S
<1>7. P \in Seq(S) /\ Len(P) = n
  BY <1>5, <1>6
<1>8. \A k \in 1 .. n : (P[k].seq + 1) % M = (seqNumber + k) % M
  <2> SUFFICES ASSUME NEW k \in 1 .. n PROVE (P[k].seq + 1) % M = (seqNumber + k) % M
    OBVIOUS
  <2>1. (seqNumber + k - 1) + 1 = seqNumber + k
    BY <1>1
  <2> QED BY <1>2, <1>4, <2>1, NextNumber
<1>9. n > 0 => P[1].seq = seqNumber
  <2>1. n > 0 => P[1].seq = (seqNumber + 1 - 1) % M
    BY <1>4
  <2>2. seqNumber + 1 - 1 = seqNumber /\ seqNumber % M = seqNumber
    BY <1>1
  <2> QED BY <2>1, <2>2
<1>10. \A k \in 1 .. n - 1 : P[k + 1].seq = (P[k].seq + 1) % M
  <2> SUFFICES ASSUME NEW k \in 1 .. n - 1 PROVE P[k + 1].seq = (P[k].seq + 1) % M
    OBVIOUS
  <2>1. k + 1 \in 1 .. n /\ seqNumber + (k + 1) - 1 = seqNumber + k
    BY <1>1
  <2> QED BY <1>4, <1>8, <2>1
<1>11. n > 0 => (seqNumber + n) % M = (P[n].seq + 1) % M
  BY <1>8
<1>12. (seqNumber + n) % M \in 0 .. M - 1
  BY <1>1, NextNumber
<1> QED BY <1>4, <1>7, <1>9, <1>10, <1>11, <1>12 DEF P, S

\* What is appended to the wire continues it.
LEMMA SendKeepsStream ==
  ASSUME ControlInv, StreamInv, NEW l \in Loops, SendFrame(l)
  PROVE  StreamInv'
<1> DEFINE S == [frame : Nat, seq : 0 .. M - 1]
           f == Head(channel)
           k == Len(wire)
<1>1. wire \in Seq(S) /\ channel \in Seq(Nat) /\ Len(channel) > 0
  BY DEF StreamInv, SendFrame
<1>2. /\ k \in Nat /\ Len(channel) \in Nat /\ f = channel[1] /\ f \in Nat
      /\ Tail(channel) \in Seq(Nat) /\ Len(Tail(channel)) = Len(channel) - 1
      /\ \A j \in 1 .. Len(channel) - 1 : Tail(channel)[j] = channel[j + 1]
  BY <1>1
<1>3. channel' = Tail(channel) /\ frames' = frames /\ onEncode' = onEncode
  BY DEF SendFrame, Received, device
<1>4. PICK n \in 0 .. MaxPackets :
        wire' = wire \o PacketsOf(f, n) /\ seqNumber' = (seqNumber + n) % M
  BY DEF SendFrame, Received
<1> DEFINE P == PacketsOf(f, n)
<1>5. n \in Nat
  BY BoundAssumption
<1> HIDE DEF f
<1>6. /\ P \in Seq(S) /\ Len(P) = n
      /\ \A i \in 1 .. n : P[i].frame = f
      /\ n > 0 => P[1].seq = seqNumber
      /\ \A i \in 1 .. n - 1 : P[i + 1].seq = (P[i].seq + 1) % M
      /\ n > 0 => (seqNumber + n) % M = (P[n].seq + 1) % M
      /\ (seqNumber + n) % M \in 0 .. M - 1
  <2>1. f \in Nat
    BY <1>2
  <2> QED BY <2>1, <1>5, PacketsFollow, Zenon
<1> HIDE DEF P, S
<1>7. /\ wire' \in Seq(S) /\ Len(wire') = k + n
      /\ \A i \in 1 .. k : wire'[i] = wire[i]
      /\ \A i \in 1 .. n : wire'[k + i] = P[i]
  <2>1. wire' = wire \o P
    BY <1>4 DEF P
  <2>2. /\ wire' \in Seq(S) /\ Len(wire') = k + n
        /\ \A i \in 1 .. k + n : wire'[i] = IF i <= k THEN wire[i] ELSE P[i - k]
    BY <1>1, <1>6, <2>1, ConcatProperties
  <2>3. ASSUME NEW i \in 1 .. n PROVE wire'[k + i] = P[i]
    <3>1. k + i \in 1 .. k + n /\ ~ (k + i <= k) /\ (k + i) - k = i
      BY <1>2, <1>5
    <3> QED BY <2>2, <3>1
  <2>4. ASSUME NEW i \in 1 .. k PROVE wire'[i] = wire[i]
    <3>1. i \in 1 .. k + n /\ i <= k
      BY <1>2, <1>5
    <3> QED BY <2>2, <3>1
  <2> QED BY <2>2, <2>3, <2>4
<1>8. \A i \in 1 .. k : wire[i].frame \in Nat /\ wire[i].frame < f
  <2> SUFFICES ASSUME NEW i \in 1 .. k PROVE wire[i].frame \in Nat /\ wire[i].frame < f
    OBVIOUS
  <2>1. wire[i] \in S
    BY <1>1
  <2>2. wire[i].frame < channel[1]
    BY <1>1, <1>2 DEF StreamInv
  <2> QED BY <1>2, <2>1, <2>2 DEF S
<1>9. ASSUME NEW i \in 1 .. k + n
      PROVE  wire'[i].frame \in Nat /\ wire'[i].frame <= f
  <2>1. CASE i <= k
    <3>1. i \in 1 .. k
      BY <1>2, <2>1
    <3>2. wire'[i] = wire[i] /\ wire[i].frame \in Nat /\ wire[i].frame < f
      BY <1>7, <1>8, <3>1
    <3> QED BY <1>2, <3>2
  <2>2. CASE i > k
    <3>1. i - k \in 1 .. n /\ k + (i - k) = i
      BY <1>2, <1>5, <2>2
    <3>2. wire'[i] = P[i - k]
      BY <1>7, <3>1
    <3> QED BY <1>2, <1>6, <3>1, <3>2
  <2> QED BY <1>2, <2>1, <2>2
<1>10. ASSUME NEW i \in 1 .. k + n - 1
       PROVE  /\ wire'[i + 1].seq = (wire'[i].seq + 1) % M
              /\ wire'[i + 1].frame >= wire'[i].frame
  <2>1. CASE i < k
    <3>1. wire'[i] = wire[i] /\ wire'[i + 1] = wire[i + 1]
      <4>1. i \in 1 .. k /\ i + 1 \in 1 .. k
        BY <1>2, <1>5, <2>1
      <4> QED BY <1>7, <4>1
    <3>2. i \in 1 .. Len(wire) - 1
      BY <1>2, <1>5, <2>1
    <3> QED BY <3>1, <3>2 DEF StreamInv
  <2>2. CASE i = k
    <3>1. wire'[i] = wire[k] /\ wire'[i + 1] = P[1] /\ n > 0 /\ k > 0
      <4>1. k \in 1 .. k /\ 1 \in 1 .. n /\ i + 1 = k + 1
        BY <1>2, <1>5, <2>2
      <4> QED BY <1>2, <1>5, <1>7, <2>2, <4>1
    <3>2. P[1].seq = seqNumber /\ P[1].frame = f /\ seqNumber = (wire[k].seq + 1) % M
      BY <1>5, <1>6, <3>1 DEF StreamInv
    <3> QED BY <1>2, <1>8, <2>2, <3>1, <3>2
  <2>3. CASE i > k
    <3>1. /\ wire'[i] = P[i - k] /\ wire'[i + 1] = P[(i - k) + 1]
          /\ i - k \in 1 .. n - 1 /\ (i - k) + 1 \in 1 .. n
      <4>1. /\ i - k \in 1 .. n - 1 /\ i - k \in 1 .. n /\ (i - k) + 1 \in 1 .. n
            /\ k + (i - k) = i /\ k + ((i - k) + 1) = i + 1
        BY <1>2, <1>5, <2>3
      <4>2. wire'[k + (i - k)] = P[i - k] /\ wire'[k + ((i - k) + 1)] = P[(i - k) + 1]
        BY <1>7, <4>1
      <4> QED BY <4>1, <4>2
    <3>2. P[i - k].frame = f /\ P[(i - k) + 1].frame = f
      BY <1>6, <3>1, <1>5
    <3> QED BY <1>2, <1>6, <3>1, <3>2
  <2> QED BY <1>2, <2>1, <2>2, <2>3
<1>11. k + n > 0 => seqNumber' = (wire'[k + n].seq + 1) % M
  <2>1. CASE n = 0
    <3>1. seqNumber \in 0 .. M - 1
      BY DEF StreamInv
    <3>2. seqNumber' = (seqNumber + 0) % M
      BY <1>4, <2>1
    <3>3. seqNumber' = seqNumber
      BY <3>1, <3>2, BoundAssumption
    <3>4. k + n = k /\ (k > 0 => wire'[k] = wire[k])
      BY <1>2, <1>7, <2>1
    <3>5. k > 0 => seqNumber = (wire[k].seq + 1) % M
      BY DEF StreamInv
    <3> QED BY <3>3, <3>4, <3>5
  <2>2. CASE n > 0
    <3>1. wire'[k + n] = P[n]
      BY <1>5, <1>7, <2>2
    <3> QED BY <1>4, <1>6, <2>2, <3>1
  <2> QED BY <1>5, <2>1, <2>2
<1>12. \A j \in 1 .. Len(channel') :
         /\ channel'[j] = channel[j + 1] /\ j + 1 \in 1 .. Len(channel)
         /\ channel'[j] \in Nat /\ f < channel'[j]
  <2> SUFFICES ASSUME NEW j \in 1 .. Len(channel')
               PROVE  /\ channel'[j] = channel[j + 1] /\ j + 1 \in 1 .. Len(channel)
                      /\ channel'[j] \in Nat /\ f < channel'[j]
    OBVIOUS
  <2>1. channel'[j] = channel[j + 1] /\ j + 1 \in 2 .. Len(channel)
    BY <1>2, <1>3
  <2>2. channel[j + 1] \in Nat
    BY <1>1, <2>1
  <2>3. \A i, m \in 1 .. Len(channel) : i < m => channel[i] < channel[m]
    BY DEF StreamInv
  <2>4. 1 \in 1 .. Len(channel) /\ j + 1 \in 1 .. Len(channel) /\ 1 < j + 1
    BY <1>2, <2>1
  <2>5. channel[1] < channel[j + 1]
    BY <2>3, <2>4
  <2> QED BY <1>2, <2>1, <2>2, <2>4, <2>5
<1>13. \A i \in 1 .. k + n, j \in 1 .. Len(channel') : wire'[i].frame < channel'[j]
  BY <1>2, <1>9, <1>12
<1>14. \A i, j \in 1 .. Len(channel') : i < j => channel'[i] < channel'[j]
  <2> SUFFICES ASSUME NEW i \in 1 .. Len(channel'), NEW j \in 1 .. Len(channel'), i < j
               PROVE  channel'[i] < channel'[j]
    OBVIOUS
  <2>1. i + 1 < j + 1
    BY <1>1, <1>3
  <2> QED BY <1>12, <2>1 DEF StreamInv
<1>15. Captured(f) /\ frames \in Nat
  BY <1>1, <1>2 DEF StreamInv
<1>16. /\ \A i \in 1 .. k + n :
            IF onEncode' # 0 THEN wire'[i].frame < frames' ELSE wire'[i].frame <= frames'
       /\ \A j \in 1 .. Len(channel') :
            IF onEncode' # 0 THEN channel'[j] < frames' ELSE channel'[j] <= frames'
  <2>1. \A i \in 1 .. k + n : Captured(wire'[i].frame)
    BY <1>2, <1>9, <1>15 DEF Captured
  <2>2. \A j \in 1 .. Len(channel') : Captured(channel'[j])
    BY <1>12 DEF StreamInv
  <2> QED BY <1>3, <2>1, <2>2 DEF Captured
<1> QED
  <2>1. wire' \in Seq([frame : Nat, seq : 0 .. M - 1]) /\ channel' \in Seq(Nat)
    BY <1>2, <1>3, <1>7 DEF S
  <2>2. seqNumber' \in 0 .. M - 1 /\ frames' \in Nat
    BY <1>3, <1>4, <1>6, <1>15
  <2>3. Len(wire') > 0 => seqNumber' = (wire'[Len(wire')].seq + 1) % M
    BY <1>7, <1>11
  <2>4. /\ \A i \in 1 .. Len(wire') : Captured(wire[i].frame)'
        /\ \A j \in 1 .. Len(channel') : Captured(channel[j])'
    BY <1>7, <1>16 DEF Captured
  <2>5. \A i \in 1 .. Len(wire') - 1 :
          wire'[i + 1].seq = (wire'[i].seq + 1) % M /\ wire'[i + 1].frame >= wire'[i].frame
    BY <1>7, <1>10
  <2>6. \A i \in 1 .. Len(wire'), j \in 1 .. Len(channel') : wire'[i].frame < channel'[j]
    BY <1>7, <1>13
  <2> QED BY <1>14, <2>1, <2>2, <2>3, <2>4, <2>5, <2>6 DEF StreamInv

\* Capturing and encoding move on from one frame to the next.
LEMMA StreamNext == ControlInv /\ StreamInv /\ [Next]_vars => StreamInv'
<1> SUFFICES ASSUME ControlInv, StreamInv, [Next]_vars PROVE StreamInv'
  OBVIOUS
<1>1. ASSUME UNCHANGED <<wire, seqNumber, channel, frames, onEncode>> PROVE StreamInv'
  BY <1>1 DEF StreamInv, Captured
<1>2. ASSUME NEW l \in Loops, CaptureOneFrame(l) PROVE StreamInv'
  <2>1. onEncode = 0 /\ frames' = frames + 1 /\ UNCHANGED <<wire, seqNumber, channel>>
    BY <1>2 DEF CaptureOneFrame, output
  <2>2. /\ \A i \in 1 .. Len(wire) : Captured(wire[i].frame)
        /\ \A j \in 1 .. Len(channel) : Captured(channel[j])
    BY DEF StreamInv
  <2>3. /\ frames' \in Nat
        /\ \A i \in 1 .. Len(wire) : Captured(wire[i].frame)'
        /\ \A j \in 1 .. Len(channel) : Captured(channel[j])'
    BY <2>1, <2>2, StreamTypes, BoundAssumption DEF Captured, Loops
  <2> QED BY <2>1, <2>3 DEF StreamInv
<1>3. ASSUME NEW l \in Loops, EncodeFails(l) PROVE StreamInv'
  <2>1. onEncode = l /\ onEncode' = 0 /\ l # 0 /\ UNCHANGED <<frames, wire, seqNumber, channel>>
    BY <1>3, BoundAssumption DEF EncodeFails, output, ControlInv, Loops
  <2>2. /\ \A i \in 1 .. Len(wire) : Captured(wire[i].frame)
        /\ \A j \in 1 .. Len(channel) : Captured(channel[j])
    BY DEF StreamInv
  <2>3. /\ frames' \in Nat
        /\ \A i \in 1 .. Len(wire) : Captured(wire[i].frame)'
        /\ \A j \in 1 .. Len(channel) : Captured(channel[j])'
    BY <2>1, <2>2, StreamTypes, BoundAssumption DEF Captured, Loops
  <2> QED BY <2>1, <2>3 DEF StreamInv
<1>4. ASSUME NEW l \in Loops, EncodeOneFrame(l) PROVE StreamInv'
  <2>1. /\ onEncode = l /\ onEncode' = 0 /\ l # 0 /\ UNCHANGED <<frames, wire, seqNumber>>
        /\ channel' = Append(channel, frames)
    BY <1>4, BoundAssumption DEF EncodeOneFrame, output, ControlInv, Loops
  <2>2. frames \in Nat /\ channel \in Seq(Nat) /\ Len(channel) \in Nat
        /\ (\A i \in 1 .. Len(wire) : wire[i].frame \in Nat /\ wire[i].frame < frames)
        /\ (\A j \in 1 .. Len(channel) : channel[j] \in Nat /\ channel[j] < frames)
    <3>1. /\ \A i \in 1 .. Len(wire) : Captured(wire[i].frame)
          /\ \A j \in 1 .. Len(channel) : Captured(channel[j])
      BY DEF StreamInv
    <3> QED BY <2>1, <3>1, StreamTypes DEF Captured
  <2>3. /\ channel' \in Seq(Nat) /\ Len(channel') = Len(channel) + 1
        /\ \A j \in 1 .. Len(channel) : channel'[j] = channel[j]
        /\ channel'[Len(channel) + 1] = frames
    BY <2>1, <2>2
  <2>4. /\ \A i \in 1 .. Len(wire) : Captured(wire[i].frame)'
        /\ \A j \in 1 .. Len(channel') : Captured(channel[j])'
    BY <2>1, <2>2, <2>3 DEF Captured
  <2>5. \A i \in 1 .. Len(wire), j \in 1 .. Len(channel') : wire[i].frame < channel'[j]
    <3>1. \A i \in 1 .. Len(wire), j \in 1 .. Len(channel) : wire[i].frame < channel[j]
      BY DEF StreamInv
    <3>2. \A j \in 1 .. Len(channel') : j \in 1 .. Len(channel) \/ j = Len(channel) + 1
      BY <2>2, <2>3
    <3> QED BY <2>2, <2>3, <3>1, <3>2
  <2>6. \A i, j \in 1 .. Len(channel') : i < j => channel'[i] < channel'[j]
    <3> SUFFICES ASSUME NEW i \in 1 .. Len(channel'), NEW j \in 1 .. Len(channel'), i < j
                 PROVE  channel'[i] < channel'[j]
      OBVIOUS
    <3>1. i \in 1 .. Len(channel) /\ channel'[i] = channel[i]
      BY <2>2, <2>3
    <3>2. CASE j \in 1 .. Len(channel)
      BY <2>3, <3>1, <3>2 DEF StreamInv
    <3>3. CASE j = Len(channel) + 1
      BY <2>2, <2>3, <3>1, <3>3
    <3>4. j \in 1 .. Len(channel) + 1
      BY <2>3
    <3> QED BY <2>2, <3>2, <3>3, <3>4
  <2> QED BY <2>1, <2>2, <2>3, <2>4, <2>5, <2>6 DEF StreamInv
<1>5. ASSUME NEW l \in Loops, CaptureHead(l) \/ PacingHead(l) \/ NetworkStep(l)
      PROVE  StreamInv'
  BY <1>1, <1>5 DEF CaptureHead, PacingHead, NetworkStep, NetworkHead, RecvRtcp, device, output
<1>6. ASSUME NEW l \in Loops, CaptureFails(l) PROVE StreamInv'
  BY <1>1, <1>6 DEF CaptureFails, output
<1>7. CASE Start \/ Stop \/ UNCHANGED vars
  BY <1>1, <1>7 DEF Start, Stop, vars, device, output
<1> QED
  BY <1>2, <1>3, <1>4, <1>5, <1>6, <1>7, SendKeepsStream DEF Next, CaptureStep, PacingStep

\* However many loops share the channel and the sequence number: the numbers on
\* the wire have no gap, frames leave in the order they were captured in, and
\* the packets of one frame together (StreamIsContiguous).
THEOREM StreamStaysContiguous == Spec => []StreamIsContiguous
<1>1. StreamInv => StreamIsContiguous
  <2> SUFFICES ASSUME StreamInv, NEW i \in 1 .. Len(wire) - 1
               PROVE  /\ wire[i + 1].seq = (wire[i].seq + 1) % M
                      /\ wire[i + 1].frame >= wire[i].frame
                      /\ ~ Contains(channel, wire[i].frame)
    BY DEF StreamIsContiguous
  <2>1. i \in 1 .. Len(wire) /\ wire[i].frame \in Nat
    BY StreamTypes
  <2>2. \A j \in 1 .. Len(channel) : channel[j] # wire[i].frame
    <3>1. \A j \in 1 .. Len(channel) : wire[i].frame < channel[j] /\ channel[j] \in Nat
      BY <2>1, StreamTypes DEF StreamInv
    <3> QED BY <2>1, <3>1
  <2> QED BY <2>2 DEF Contains, StreamInv
<1> QED BY <1>1, ControlInit, ControlNext, StreamInit, StreamNext, PTL DEF Spec
=============================================================================
