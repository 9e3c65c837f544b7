---------------------------- MODULE UnwrappedIds ----------------------------
(***************************************************************************)
(* The frame ids that FrameBuffer and its DecodedFramesHistory are given:  *)
(* unwrapped, 64 bits wide, and negative when the stream began before 0.   *)
(***************************************************************************)
EXTENDS Integers

CONSTANT FrameIds

ASSUME FrameIdsAssumption == FrameIds \subseteq Int
=============================================================================
