--------------------------- MODULE MCRtpTransport ---------------------------
EXTENDS RtpTransport

SmallResolutions == {<<640, 360>>, <<65535, 0>>}
\* One byte; bytes that look like an element of another type, and of the
\* descriptor's.
SmallPayloads == {<<101>>, <<17, 1, 200, 0, 9>>, <<16, 1, 200, 0, 16>>}

\* Reports and feedback, RTP with and without an extension, STUN, DTLS, QUIC.
OtherSenders ==
  {[kind |-> "Rtcp", bytes |-> <<128, 200, 0, 1>> \o Zeros(4)],
   [kind |-> "Rtcp", bytes |-> <<129, 204, 0, 2>> \o Zeros(8)],
   [kind |-> "Rtp", bytes |-> <<128, 96, 0, 7>> \o Zeros(9)],
   [kind |-> "Rtp", bytes |-> <<128, 255, 0, 7>> \o Zeros(9)],
   [kind |-> "Rtp", bytes |-> <<144, 96, 0, 7>> \o Zeros(8) \o <<190, 222, 0, 1, 16, 9, 0, 0, 7>>],
   [kind |-> "Rtp", bytes |-> <<145, 96, 0, 7>> \o Zeros(12) \o <<1, 1, 0, 0, 7>>],
   [kind |-> "Rtp", bytes |-> <<144, 96, 0, 7>> \o Zeros(8) \o <<16, 0, 0, 0, 0, 0, 0, 2>>
                              \o <<5, 1, 9, 16, 0, 240, 7, 7>>],
   [kind |-> "Other", bytes |-> <<0, 1, 0, 0>> \o Zeros(16)],
   [kind |-> "Other", bytes |-> <<22, 254, 253>> \o Zeros(12)],
   [kind |-> "Other", bytes |-> <<192, 72, 0>> \o Zeros(12)]}
=============================================================================
