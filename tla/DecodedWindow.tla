---------------------------- MODULE DecodedWindow ----------------------------
(***************************************************************************)
(* What DecodedFramesHistory promises: it remembers which of the last      *)
(* WindowSize frame ids were decoded, and forgets every older one.         *)
(***************************************************************************)
EXTENDS Integers

CONSTANTS FrameIds, WindowSize, None

VARIABLES last,     \* id of the frame decoded last, or None
          decoded   \* the ids that WasDecoded answers true for

Init == last = None /\ decoded = {}

Decode(id) ==
  /\ last = None \/ last < id
  /\ last' = id
  /\ decoded' = {d \in decoded \cup {id} : d > id - WindowSize}

Forget == last' = None /\ decoded' = {}

Next == Forget \/ \E id \in FrameIds : Decode(id)

Spec == Init /\ [][Next]_<<last, decoded>>
=============================================================================
