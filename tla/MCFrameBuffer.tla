---------------------------- MODULE MCFrameBuffer ----------------------------
(***************************************************************************)
(* The frame buffer and the history it owns, with ids on both sides of 0.  *)
(* Nobody calls InsertDecoded, so the history of a buffer in use is empty; *)
(* the history's own calls are made while the buffer is.                   *)
(***************************************************************************)
EXTENDS FrameBuffer, DecodedFramesHistory

MCFrameIds == -3 .. 3

BufferCall  == lastFrameId = None /\ Next /\ UNCHANGED historyVars
HistoryCall == frames = <<>> /\ HistoryNext /\ UNCHANGED vars

MCInit == Init /\ HistoryInit
MCNext == BufferCall \/ HistoryCall
MCSpec == MCInit /\ [][MCNext]_<<vars, historyVars>>
=============================================================================
