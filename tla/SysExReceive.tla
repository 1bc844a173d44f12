---------------------------- MODULE SysExReceive ----------------------------
(***************************************************************************)
(* The receive capture of a SysExTransferSession on its own: one thread    *)
(* begins a capture, feeds it the stream events it hears in the order they *)
(* were queued, and finishes it.  Every sequence of events up to a bound   *)
(* is heard, whether or not a device would send it: the wire may carry     *)
(* anything.                                                               *)
(***************************************************************************)
EXTENDS SysExCapture

CONSTANT
  Feeds          \* records [inputs, length]: what a connection carries, how much

ASSUME FeedsAssumption == \A f \in Feeds : f.inputs \subseteq Events /\ f.length \in Nat

VARIABLES
  receiver,      \* the session: receiving_, capture_, document_.frames
  feed,          \* what this connection carries
  heard,         \* the events heard since begin_receive (history)
  before         \* how many frames there were before each of them (history)

captureVars == <<receiver, feed, heard, before>>

CaptureInit ==
  /\ receiver = NewSession
  /\ feed \in Feeds
  /\ heard = <<>>
  /\ before = <<>>

(* A second begin_receive() before finish_receive() is refused. *)
BeginCapture ==
  /\ ~receiver.receiving
  /\ receiver' = BeginReceive(receiver)
  /\ heard' = <<>>
  /\ before' = <<>>
  /\ UNCHANGED feed

(* The next event of the stream; its sequence number is its place. *)
Hear(input) ==
  LET event == Numbered(input, Len(heard) + 1) IN
  /\ receiver.receiving
  /\ Len(heard) < feed.length
  /\ receiver' = ConsumeEvent(receiver, event)
  /\ heard' = Append(heard, event)
  /\ before' = Append(before, Len(receiver.frames))
  /\ UNCHANGED feed

FinishCapture ==
  /\ receiver.receiving
  /\ receiver' = FinishReceive(receiver)
  /\ UNCHANGED <<feed, heard, before>>

ClearCapture ==
  /\ ~receiver.receiving
  /\ receiver' = ClearDocument(receiver)
  /\ heard' = <<>>
  /\ before' = <<>>
  /\ UNCHANGED feed

CaptureNext ==
  \/ BeginCapture
  \/ \E input \in feed.inputs : Hear(input)
  \/ FinishCapture
  \/ ClearCapture

CaptureSpec == CaptureInit /\ [][CaptureNext]_captureVars

-----------------------------------------------------------------------------
(* Properties. *)

Flagged(l) == receiver.lanes[l].lost \/ receiver.lanes[l].pending

AllPlaces == {<<seq, i>> : seq \in DOMAIN heard, i \in 1..2}

LaneStates == [inside : BOOLEAN, pieces : Seq(AllPlaces), lost : BOOLEAN,
               pending : BOOLEAN]

Frames == [lane : Lanes, status : Statuses, pieces : Seq(AllPlaces), affected : BOOLEAN]

(* The shape of the state; a lane outside a frame holds no bytes, and one     *)
(* inside a frame records loss against the frame and never for a later one   *)
(* (current_, inside_, current_data_loss_, pending_data_loss_).              *)
CaptureTypeOK ==
  /\ receiver.receiving \in BOOLEAN
  /\ receiver.lanes \in [Lanes -> LaneStates]
  /\ receiver.frames \in Seq(Frames)
  /\ \A l \in Lanes :
       IF receiver.lanes[l].inside
       THEN receiver.lanes[l].pieces # <<>> /\ ~receiver.lanes[l].pending
       ELSE receiver.lanes[l].pieces = <<>> /\ ~receiver.lanes[l].lost

(* "Incomplete/overflow captures cannot masquerade as valid complete         *)
(* captures" (ARCHITECTURE.md): a complete frame is one the device sent      *)
(* whole, with no loss inside, and is never marked as affected.              *)
CompleteOnesWhole ==
  \A i \in DOMAIN receiver.frames :
    LET f == receiver.frames[i] IN
      f.status = "complete" => ~f.affected /\ SentWhole(heard, f.lane, f.pieces)

(* Every frame of which all pieces arrive, one after the other, is in the    *)
(* document, once, with these pieces, and is complete unless data loss in it *)
(* or before it made it suspect.                                             *)
EveryWholeFrameKept ==
  \A l \in Lanes : \A d, e \in DOMAIN heard :
    \A j \in OffsetsOf(heard[d], l), k \in OffsetsOf(heard[e], l) :
      FrameSent(heard, l, <<d, j>>, <<e, k>>) =>
        InDocument(heard, receiver.frames, l, <<d, j>>, <<e, k>>)

(* The document keeps everything: the frames of a lane, and the frame it is  *)
(* still reading, hold the lane's pieces in the order they arrived, none     *)
(* dropped, none twice and none invented.                                    *)
PiecesConserved ==
  \A l \in Lanes :
    LET book    == 1..(Len(receiver.frames) + 1)
        held(i) == PiecesIn(receiver.frames, l, receiver.lanes[l].pieces, i)
    IN /\ \A i \in book : \A n \in 1..Len(held(i)) : HoldsBytes(heard, l, held(i)[n])
       /\ \A e \in DOMAIN heard : \A k \in OffsetsOf(heard[e], l) :
            HoldsBytes(heard, l, <<e, k>>) =>
              \E i \in book : \E n \in 1..Len(held(i)) : held(i)[n] = <<e, k>>
       /\ \A i, j \in book : \A m \in 1..Len(held(i)), n \in 1..Len(held(j)) :
            i < j \/ (i = j /\ m < n) => Precedes(held(i)[m], held(j)[n])

(* A loss the session was told of is never forgotten: until a later frame of *)
(* its lane is marked as affected, the lane still remembers it; and that     *)
(* also holds for the frames that finish_receive() emits.                    *)
LossReported ==
  \A i \in DOMAIN heard : heard[i].type = "loss" =>
    \A l \in Tainted(heard[i]) :
      \/ receiver.receiving /\ Flagged(l)
      \/ \E k \in (before[i] + 1)..Len(receiver.frames) :
           receiver.frames[k].lane = l /\ receiver.frames[k].affected

=============================================================================
