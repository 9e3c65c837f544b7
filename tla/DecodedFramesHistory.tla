------------------------ MODULE DecodedFramesHistory ------------------------
(***************************************************************************)
(* webrtc::video_coding::DecodedFramesHistory: a cyclic buffer of flags,   *)
(* one per frame id of a window that ends at the id inserted last.  Frame  *)
(* ids are unwrapped and may be negative.  A FrameBuffer has one history.  *)
(***************************************************************************)
EXTENDS UnwrappedIds

CONSTANTS
  WindowSize,   \* window_size (the receiver passes 1000)
  None

ASSUME WindowAssumption == WindowSize \in Nat /\ WindowSize >= 1
ASSUME NoneAssumption == None \notin Int

VARIABLES
  buffer,       \* buffer_
  lastFrameId,  \* last_frame_id_
  lastDecoded,  \* last_decoded_frame_ (last_decoded_frame_timestamp_ with it)
  failure       \* "assert" once the assertion of InsertDecoded has failed
historyVars == <<buffer, lastFrameId, lastDecoded, failure>>

Cleared == [i \in 0 .. WindowSize - 1 |-> FALSE]

HistoryInit ==
  /\ buffer = Cleared
  /\ lastFrameId = None
  /\ lastDecoded = None
  /\ failure = "none"

\* FrameIdToIndex: the remainder has the sign of the id.
FrameIdToIndex(id) ==
  LET m == IF id >= 0 THEN id % WindowSize ELSE - ((- id) % WindowSize)
  IN  IF m >= 0 THEN m ELSE m + WindowSize

\* The slots whose flags have expired when id follows lastFrameId.
\* Mutant: a jump of exactly one window is taken for one inside the window.
ExpiredLate(id) ==
  LET from == FrameIdToIndex(lastFrameId)
      to   == FrameIdToIndex(id)
  IN  IF lastFrameId = None THEN {}
      ELSE IF id - lastFrameId > WindowSize THEN 0 .. WindowSize - 1
      ELSE IF to >= from THEN from + 1 .. to - 1
      ELSE (from + 1 .. WindowSize - 1) \cup (0 .. to - 1)
Expired(id) ==
  LET from == FrameIdToIndex(lastFrameId)
      to   == FrameIdToIndex(id)
  IN  IF lastFrameId = None THEN {}
      ELSE IF id - lastFrameId >= WindowSize THEN 0 .. WindowSize - 1
      ELSE IF to > from THEN from + 1 .. to - 1
      ELSE (from + 1 .. WindowSize - 1) \cup (0 .. to - 1)

InsertDecoded(id) ==
  /\ failure = "none"
  /\ lastFrameId # None => lastFrameId < id
  /\ buffer' = [i \in 0 .. WindowSize - 1 |->
                  i = FrameIdToIndex(id) \/ (buffer[i] /\ i \notin Expired(id))]
  /\ lastFrameId' = id
  /\ lastDecoded' = id
  /\ UNCHANGED failure

\* The header allows equal ids; the assertion on line 30 does not.
InsertDecodedAgain(id) ==
  /\ failure = "none"
  /\ lastFrameId = id
  /\ lastDecoded' = id
  /\ failure' = "assert"
  /\ UNCHANGED <<buffer, lastFrameId>>

WasDecoded(id) ==
  /\ lastFrameId # None
  /\ lastFrameId - WindowSize < id /\ id <= lastFrameId
  /\ buffer[FrameIdToIndex(id)]

Clear ==
  /\ failure = "none"
  /\ buffer' = Cleared
  /\ lastFrameId' = None
  /\ lastDecoded' = None
  /\ UNCHANGED failure

HistoryNext == Clear \/ \E id \in FrameIds : InsertDecoded(id) \/ InsertDecodedAgain(id)

HistorySpec == HistoryInit /\ [][HistoryNext]_historyVars
-----------------------------------------------------------------------------
TypeOK ==
  /\ buffer \in [0 .. WindowSize - 1 -> BOOLEAN]
  /\ lastFrameId \in Int \cup {None}
  /\ lastDecoded \in Int \cup {None}
  /\ failure \in {"none", "assert"}

\* The answers of WasDecoded change exactly as those of the sliding window:
\* no flag of an id that left the window is read for another id, and no flag of
\* an id that is still inside is lost.
Window == INSTANCE DecodedWindow WITH
  last    <- lastFrameId,
  decoded <- {id \in FrameIds : WasDecoded(id)}
ImplementsWindow == Window!Spec
=============================================================================
