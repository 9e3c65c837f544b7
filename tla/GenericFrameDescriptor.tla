----------------------- MODULE GenericFrameDescriptor -----------------------
(***************************************************************************)
(* brtc::RtpGenericFrameDescriptor and its header extension, version 00    *)
(* (rtp/extension.cpp), as operators on a record: the writer fills a       *)
(* buffer of value_size bytes, the reader makes a descriptor of one.       *)
(* Bytes are numbers; | and & are written out.  RtpTransport sends them.   *)
(***************************************************************************)
EXTENDS Integers, Sequences, SequencesExt, FiniteSetsExt

CONSTANT MaxDependencies   \* kMaxNumFrameDependencies (8)

Byte == 0 .. 255
UInt16 == 0 .. 65535
FrameDiff == 0 .. 16384    \* what add_frame_dependency_diff asserts
\* The size of the extension is written into one byte.
ASSUME DependenciesAssumption == MaxDependencies \in 0 .. 125

Descriptor == [first : BOOLEAN, last : BOOLEAN, id : UInt16, spatial : Byte,
               temporal : 0 .. 8, deps : Seq(FrameDiff),
               resolution : UInt16 \X UInt16]
FreshDescriptor == [first |-> FALSE, last |-> FALSE, id |-> 0, spatial |-> 1,
                    temporal |-> 0, deps |-> <<>>, resolution |-> <<0, 0>>]
Result(d, ok) == [descriptor |-> d, ok |-> ok]

-----------------------------------------------------------------------------
\* Writing

HasResolution(d) == d.first /\ d.deps = <<>> /\ d.resolution[1] > 0 /\ d.resolution[2] > 0
IsExtended(fdiff) == fdiff >= 64

\* Mutant: the boundary belongs to the short form.
ShortAt64(fdiff) == IF fdiff > 64 THEN 2 ELSE 1
DependencySize(fdiff) == IF IsExtended(fdiff) THEN 2 ELSE 1
DependenciesSize(deps) ==
  LET size[n \in 0 .. Len(deps)] == IF n = 0 THEN 0 ELSE size[n - 1] + DependencySize(deps[n])
  IN  size[Len(deps)]
ValueSize(d) ==
  IF ~ d.first THEN 1
  ELSE 4 + DependenciesSize(d.deps) + (IF HasResolution(d) THEN 4 ELSE 0)

Flag(b, value) == IF b THEN value ELSE 0
BaseHeader(d) == Flag(d.first, 128) + Flag(d.last, 64) + 32 + 16

\* Flag D and the temporal layer share a byte, and a bit when the layer is 8.
FirstByte(d) == BaseHeader(d) + Flag(d.deps # <<>> \/ d.temporal >= 8, 8) + (d.temporal % 8)

\* FDIFF, X and M of dependency i; with X the upper bits follow.
\* Mutant: X and M change places.
SwappedFlags(d, i) ==
  LET f == d.deps[i]
  IN  <<(f % 64) * 4 + Flag(IsExtended(f), 1) + Flag(i < Len(d.deps), 2)>>
      \o (IF IsExtended(f) THEN <<(f \div 64) % 256>> ELSE <<>>)
DependencyBytes(d, i) ==
  LET f == d.deps[i]
  IN  <<(f % 64) * 4 + Flag(IsExtended(f), 2) + Flag(i < Len(d.deps), 1)>>
      \o (IF IsExtended(f) THEN <<(f \div 64) % 256>> ELSE <<>>)

DependenciesBytes(d) ==
  LET bytes[n \in 0 .. Len(d.deps)] ==
        IF n = 0 THEN <<>> ELSE bytes[n - 1] \o DependencyBytes(d, n)
  IN  bytes[Len(d.deps)]

\* Mutant: the high byte is not cut off the low one.
IdUncut(id) == <<id, id \div 256>>
LowHigh(id) == <<id % 256, id \div 256>>
HighLow(n) == <<n \div 256, n % 256>>

WriteToBuff(d) ==
  IF ~ d.first THEN <<BaseHeader(d)>>
  ELSE <<FirstByte(d), d.spatial>> \o LowHigh(d.id)
       \o (IF HasResolution(d) THEN HighLow(d.resolution[1]) \o HighLow(d.resolution[2])
           ELSE <<>>)
       \o DependenciesBytes(d)
-----------------------------------------------------------------------------
\* Reading

Bit(byte, value) == (byte \div value) % 2 = 1

AddFrameDependencyDiff(d, fdiff) ==
  IF Len(d.deps) = MaxDependencies \/ fdiff = 0 THEN Result(d, FALSE)
  ELSE Result([d EXCEPT !.deps = Append(@, fdiff)], TRUE)

\* One round of the loop over the dependencies, from offset at (0-based) on.
ReadDependency(data, acc) ==
  LET b == data[acc.at + 1]
      complete == Len(data) > acc.at /\ (Bit(b, 2) => Len(data) > acc.at + 1)
      fdiff == b \div 4 + (IF Bit(b, 2) THEN 64 * data[acc.at + 2] ELSE 0)
      added == AddFrameDependencyDiff(acc.result.descriptor, fdiff)
  IN  IF ~ complete THEN [acc EXCEPT !.result.ok = FALSE, !.more = FALSE]
      ELSE [at |-> acc.at + (IF Bit(b, 2) THEN 2 ELSE 1),
            more |-> Bit(b, 1) /\ added.ok, result |-> added]

\* The loop: every round adds a dependency or ends it.
ReadRound(data, acc) == IF acc.more THEN ReadDependency(data, acc) ELSE acc
ReadDependencies(data, start) ==
  LET round[i \in 0 .. MaxDependencies + 1] ==
        IF i = 0 THEN start ELSE ReadRound(data, round[i - 1])
  IN  round[MaxDependencies + 1]

ReadFromBuff(data, old) ==
  LET flags  == [old EXCEPT !.first = Bit(data[1], 128), !.last = Bit(data[1], 64)]
      hasRes == ~ Bit(data[1], 8) /\ Len(data) >= 8
      fixed  == [flags EXCEPT !.temporal = data[1] % 8, !.spatial = data[2],
                              !.id = data[3] + 256 * data[4], !.deps = <<>>,
                              !.resolution = IF hasRes
                                             THEN <<256 * data[5] + data[6],
                                                    256 * data[7] + data[8]>>
                                             ELSE @]
      start  == [at |-> 4, more |-> Bit(data[1], 8), result |-> Result(fixed, TRUE)]
  IN  IF data = <<>> THEN Result(old, FALSE)
      ELSE IF ~ flags.first THEN Result(flags, Len(data) = 1)
      ELSE IF Len(data) < 4 THEN Result(flags, FALSE)
      ELSE ReadDependencies(data, start).result
-----------------------------------------------------------------------------
\* What the format has bits for: three for the layer, fourteen for a difference.
\* The assertions of the setters also accept the layer 8 and the difference 16384.
Encodable(d) == d.temporal <= 7 /\ \A i \in DOMAIN d.deps : d.deps[i] <= 16383

\* What a reader can know of a descriptor: the properties of the frame are in
\* its first packet only, the resolution only when nothing is referenced.
Carried(d) ==
  IF ~ d.first THEN [FreshDescriptor EXCEPT !.last = d.last]
  ELSE [d EXCEPT !.resolution = IF HasResolution(d) THEN @ ELSE <<0, 0>>]
=============================================================================
