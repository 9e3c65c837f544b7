---------------------------- MODULE FrameBuffer ----------------------------
(***************************************************************************)
(* brtc::FrameBuffer (video/frame_buffer/frame_buffer.cpp): frames whose   *)
(* references are known, linked to the frames they depend on.  An entry    *)
(* without a frame stands for a referenced frame that has not arrived.     *)
(*                                                                         *)
(* pop_decodable_frame returns nothing and no frame is ever reported as    *)
(* decoded, so the history of decoded frames stays empty and no entry      *)
(* becomes continuous: the branches of insert that ask either are dead,    *)
(* and both counts of missing references are the number of references.     *)
(***************************************************************************)
EXTENDS UnwrappedIds, SequencesExt, FiniteSetsExt

CONSTANTS
  MaxFrames,      \* kMaxFramesBuffered (800)
  MaxReferences   \* length of ReceivedFrame::references (5)

ASSUME SizeAssumption == MaxFrames \in Nat \ {0} /\ MaxReferences \in Nat

\* A frame as the reference finder hands it over.
Frame == [id : FrameIds, key : BOOLEAN, refs : SeqOf(FrameIds, MaxReferences)]

VARIABLE frames   \* frames_: what is known of an id
vars == <<frames>>

Entry == [held : BOOLEAN, refs : SeqOf(FrameIds, MaxReferences),
          dependents : Seq(FrameIds), missing : Nat]
NewEntry == [held |-> FALSE, refs |-> <<>>, dependents |-> <<>>, missing |-> 0]

Init == frames = <<>>
-----------------------------------------------------------------------------
ValidReferences(f) ==
  \A i \in DOMAIN f.refs :
    /\ f.refs[i] < f.id
    /\ \A j \in i + 1 .. Len(f.refs) : f.refs[i] # f.refs[j]

\* Entries without a frame count as well.
\* Mutant: one more.
FullLate == Cardinality(DOMAIN frames) > MaxFrames
Full == Cardinality(DOMAIN frames) >= MaxFrames

\* The test of line 78, as it is written: id is below the first id and above
\* the last one.  No id satisfies it, although the comment above it wants ids
\* that cover more than half of 2^16 to do so.
JumpDetected(id) ==
  /\ DOMAIN frames # {}
  /\ \A i \in DOMAIN frames : id < i
  /\ \A i \in DOMAIN frames : i < id

\* frames_[id], which creates the entry when there is none.
EntryOf(fs, id) == IF id \in DOMAIN fs THEN fs[id] ELSE NewEntry

\* dependent_frames.push_back(id) in the entry of a reference.
\* Mutant: the entry of the reference is always a new one.
DependentOfNew(e, id) == [NewEntry EXCEPT !.dependents = <<id>>]
AddDependent(e, id) == [e EXCEPT !.dependents = Append(@, id)]

\* Mutant: a frame that is held already is linked again.
NeverHeld(fs, id) == FALSE
AlreadyHeld(fs, id) == EntryOf(fs, id).held

\* num_missing_continuous and num_missing_decodable: every reference counts.
\* Mutant: the count is off by one.
MissingBeyondFirst(f) == Len(f.refs) - 1
Missing(f) == Len(f.refs)

\* update_frame_info_with_incoming_frame and the move into the entry: the
\* references of a valid frame are different ids, none of them its own.
Stored(fs, f) ==
  IF AlreadyHeld(fs, f.id) THEN fs
  ELSE [id \in DOMAIN fs \cup {f.id} \cup ToSet(f.refs) |->
          IF id = f.id
          THEN [EntryOf(fs, id) EXCEPT !.held = TRUE, !.refs = f.refs, !.missing = Missing(f)]
          ELSE IF id \in ToSet(f.refs) THEN AddDependent(EntryOf(fs, id), f.id)
          ELSE fs[id]]

\* insert(frame)
DropInvalid(f) ==
  /\ ~ ValidReferences(f)
  /\ UNCHANGED frames

DropWhenFull(f) ==
  /\ ValidReferences(f) /\ Full /\ ~ f.key
  /\ UNCHANGED frames

ClearAndStore(f) ==
  /\ ValidReferences(f)
  /\ IF Full THEN f.key ELSE JumpDetected(f.id)
  /\ frames' = Stored(<<>>, f)

Store(f) ==
  /\ ValidReferences(f) /\ ~ Full /\ ~ JumpDetected(f.id)
  /\ frames' = Stored(frames, f)

Insert(f) == DropInvalid(f) \/ DropWhenFull(f) \/ ClearAndStore(f) \/ Store(f)

Next == \E f \in Frame : Insert(f)

Spec == Init /\ [][Next]_vars
-----------------------------------------------------------------------------
Held == {id \in DOMAIN frames : frames[id].held}

\* "Max number of frames the buffer will hold": the entries of frames that are
\* only referenced may exceed it, by the references of one frame.
FramesBounded ==
  /\ Cardinality(Held) <= MaxFrames
  /\ Cardinality(DOMAIN frames) <= MaxFrames + MaxReferences

\* The links back from references are exact: id is listed once by each frame it
\* references and by no other, as many as it counts missing, through
\* duplicates, clearing and frames that arrive after their dependents.
LinksMatchReferences ==
  \A id \in DOMAIN frames :
    /\ frames[id].missing =
         Cardinality({r \in DOMAIN frames : Contains(frames[r].dependents, id)})
    /\ ToSet(frames[id].dependents) = {d \in Held : Contains(frames[d].refs, id)}
    /\ IsInjective(frames[id].dependents)
    /\ frames[id].held \/ frames[id].dependents # <<>>

\* A frame that is held stays, with its references, until the buffer is full
\* and a key frame takes the place of everything.
HeldFramesStay ==
  [][\/ \A id \in Held : id \in Held' /\ frames'[id].refs = frames[id].refs
     \/ Full /\ Cardinality(Held') = 1]_vars

=============================================================================
