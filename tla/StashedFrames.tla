---------------------------- MODULE StashedFrames ----------------------------
(***************************************************************************)
(* The stash that RtpSeqNumOnlyRefFinder, RtpVp8RefFinder and              *)
(* RtpVp9RefFinder each keep in the same way: frames that cannot be judged *)
(* yet, the newest one in front.                                           *)
(*                                                                         *)
(* Decide(st, f) is the finder's ManageFrameInternal.  It answers a pair:  *)
(* the decision and the state of the finder after it.  That state is a     *)
(* record with at least the fields stash, handed and dropped.              *)
(***************************************************************************)
EXTENDS Sequences, SequencesExt

CONSTANTS MaxStashed, Decide(_, _)

\* What ManageFrame does with a frame that was stashed or dropped.  The test of
\* the size comes before the push.
StashFull(s) == Len(s) > MaxStashed
Stashed(st, f) ==
  LET full == StashFull(st.stash)
  IN  [st EXCEPT !.stash = <<f>> \o (IF full THEN Front(@) ELSE @),
                 !.dropped = IF full THEN @ \cup {Last(st.stash)} ELSE @]
Dropped(st, f) == [st EXCEPT !.dropped = @ \cup {f}]

\* One frame of a pass of RetryStashedFrames: what stays stashed is collected
\* again in the same order.
\* Mutant: a frame that was handed off is not erased.
RetryWithoutErase(pass, f) ==
  LET r == Decide(pass.st, f)
  IN  [st |-> [r[2] EXCEPT !.stash = Append(@, f)],
       complete |-> pass.complete \/ r[1] = "handoff"]
Retry(pass, f) ==
  LET r == Decide(pass.st, f)
  IN  [st |-> CASE r[1] = "stash" -> [r[2] EXCEPT !.stash = Append(@, f)]
                [] r[1] = "drop"  -> Dropped(r[2], f)
                [] OTHER          -> r[2],
       complete |-> pass.complete \/ r[1] = "handoff"]

\* The pass, front first.
RetryPass(st) ==
  LET pass[i \in 0 .. Len(st.stash)] ==
        IF i = 0 THEN [st |-> [st EXCEPT !.stash = <<>>], complete |-> FALSE]
        ELSE Retry(pass[i - 1], st.stash[i])
  IN  pass[Len(st.stash)]

\* RetryStashedFrames repeats the pass until it hands off nothing; every
\* repeated pass shrinks the stash.
\* Mutant: one pass only.
RetryOnce(st) == RetryPass(st).st
Repeat(pass) == IF pass.complete THEN RetryPass(pass.st) ELSE pass
RetryStashedFrames(st) ==
  LET passes[i \in 0 .. Len(st.stash)] ==
        IF i = 0 THEN RetryPass(st) ELSE Repeat(passes[i - 1])
  IN  passes[Len(st.stash)].st

\* ClearTo: the old frames are given up.
Without(s, old) ==
  LET kept[i \in 0 .. Len(s)] ==
        IF i = 0 THEN <<>>
        ELSE IF s[i] \in old THEN kept[i - 1] ELSE Append(kept[i - 1], s[i])
  IN  kept[Len(s)]
Cleared(st, old) ==
  [st EXCEPT !.stash = Without(@, old), !.dropped = @ \cup old]
=============================================================================
