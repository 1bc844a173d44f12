---------------------------- MODULE SysExCapture ----------------------------
(***************************************************************************)
(* What the receive capture computes (src/src/core/sysex): the MIDI 1.0    *)
(* byte parser SysExStreamParser, the UMP packet assembler SysEx7Assembler *)
(* and SysExCaptureSession, which routes stream events to them, together   *)
(* with the receive half of SysExTransferSession, which collects frames.   *)
(*                                                                         *)
(* The parser and each of the assembler's groups keep the same four facts, *)
(* so each is one "lane".  A byte or a SysEx7 packet is one piece of data, *)
(* known by its kind and its place <<event sequence, offset>>: a frame is  *)
(* the sequence of the places of its pieces, so that what was captured can *)
(* be compared with what was sent.  Payload values are not modelled.       *)
(*                                                                         *)
(* Kinds of bytes:   "start" 0xF0, "end" 0xF7, "data" below 0x80,          *)
(*                   "realtime" from 0xF8, "status" any other.             *)
(* Kinds of packets: "complete", "start", "continuation", "end",           *)
(*                   "invalid" (decode_sysex7_packet refuses it),          *)
(*                   "other" (not message type 3, or truncated).           *)
(***************************************************************************)
EXTENDS Naturals, Sequences, SequencesExt

CONSTANTS
  Midi1,         \* the lane of the byte parser; also "no group"
  GroupOrder     \* the UMP groups in numeric order

ASSUME LanesDistinct ==
  /\ GroupOrder \in Seq(ToSet(GroupOrder))
  /\ IsInjective(<<Midi1>> \o GroupOrder)

LaneOrder == <<Midi1>> \o GroupOrder
Groups    == ToSet(GroupOrder)
Lanes     == ToSet(LaneOrder)

ByteKinds   == {"start", "data", "end", "status", "realtime"}
PacketKinds == {"complete", "start", "continuation", "end", "invalid", "other"}
Statuses    == {"complete", "incomplete", "malformed"}

-----------------------------------------------------------------------------
(* Stream events. *)

Backends == {"winmm", "wms", "external"}

Bytes(backend, kinds) ==
  [type |-> "midi1", seq |-> 0, backend |-> backend,
   data |-> [i \in DOMAIN kinds |-> [lane |-> Midi1, kind |-> kinds[i]]]]

Packet(backend, group, kind) ==
  [type |-> "ump", seq |-> 0, backend |-> backend,
   data |-> <<[lane |-> group, kind |-> kind]>>]

Loss(backend, group, affectsSysex) ==
  [type |-> "loss", seq |-> 0, backend |-> backend, group |-> group,
   affects |-> affectsSysex]

Events ==
  [type : {"midi1"}, seq : Nat, backend : Backends,
   data : Seq([lane : {Midi1}, kind : ByteKinds])]
  \cup [type : {"ump"}, seq : Nat, backend : Backends,
        data : Seq([lane : Groups, kind : PacketKinds])]
  \cup [type : {"loss"}, seq : Nat, backend : Backends, group : Lanes,
        affects : BOOLEAN]

(* The transport numbers the events it publishes. *)
Numbered(event, n) == [event EXCEPT !.seq = n]

(* The lanes a data-loss event is about.  An external transport may carry    *)
(* bytes or packets, so both are; a WMS loss without a group is about none.  *)
Tainted(loss) ==
  LET named == IF loss.group = Midi1 THEN {} ELSE {loss.group} IN
  CASE ~loss.affects               -> {}
    [] loss.affects /\ loss.backend = "winmm"    -> {Midi1}
    [] loss.affects /\ loss.backend = "external" ->
         IF named = {} THEN Lanes ELSE named \cup {Midi1}
    [] loss.affects /\ loss.backend = "wms"      -> named

-----------------------------------------------------------------------------
(* The state of a lane, and of a session: receiving_, the lanes of capture_  *)
(* and document_.frames.                                                     *)

Idle == [inside |-> FALSE, pieces |-> <<>>, lost |-> FALSE, pending |-> FALSE]

EmptyLanes == [l \in Lanes |-> Idle]

NewSession == [receiving |-> FALSE, lanes |-> EmptyLanes, frames |-> <<>>]

Emit(s, l, status, pieces, affected) ==
  [s EXCEPT !.frames = Append(@, [lane |-> l, status |-> status, pieces |-> pieces,
                                  affected |-> affected])]

(* A frame hit by data loss is malformed whatever it would have been. *)
Judged(status, lost) == IF lost THEN "malformed" ELSE status

(* A frame ends: it is emitted and its lane is as new. *)
Close(s, l, status, pieces, affected) ==
  [Emit(s, l, status, pieces, affected) EXCEPT !.lanes[l] = Idle]

InterruptSilently(s, l) ==
  IF s.lanes[l].inside THEN [s EXCEPT !.lanes[l] = Idle] ELSE s

(* A new frame begins inside an unfinished one: the old one is malformed. *)
Interrupt(s, l) ==
  IF s.lanes[l].inside
  THEN Close(s, l, "malformed", s.lanes[l].pieces, s.lanes[l].lost)
  ELSE s

(* Loss noticed while no frame was open taints the one that now begins. *)
Opened(lane, at) ==
  [inside |-> TRUE, pieces |-> <<at>>, lost |-> lane.pending, pending |-> FALSE]

Extend(s, l, at) == [s EXCEPT !.lanes[l].pieces = Append(@, at)]

StartUnlessInside(s, l, at) ==
  IF s.lanes[l].inside THEN Extend(s, l, at)
  ELSE [s EXCEPT !.lanes[l] = Opened(@, at)]

StartFrame(s, l, at) ==
  [Interrupt(s, l) EXCEPT !.lanes[l] = Opened(@, at)]

-----------------------------------------------------------------------------
(* One byte of MIDI 1.0. *)

ConsumeByteLoose(s, kind, at) ==
  LET lane == s.lanes[Midi1]
      all  == Append(lane.pieces, at)
  IN CASE kind = "realtime" -> s
       [] kind = "start" -> StartFrame(s, Midi1, at)
       [] kind \in {"data", "end", "status"} /\ ~lane.inside ->
            Emit(s, Midi1, "malformed", <<at>>, FALSE)
       [] kind \in {"data", "status"} /\ lane.inside -> Extend(s, Midi1, at)
       [] kind = "end" /\ lane.inside ->
            Close(s, Midi1, Judged("complete", lane.lost), all, lane.lost)

ConsumeByte(s, kind, at) ==
  LET lane == s.lanes[Midi1]
      all  == Append(lane.pieces, at)
  IN CASE kind = "realtime" -> s
       [] kind = "start" -> StartFrame(s, Midi1, at)
       [] kind \in {"data", "end", "status"} /\ ~lane.inside ->
            Emit(s, Midi1, "malformed", <<at>>, FALSE)
       [] kind = "data" /\ lane.inside -> Extend(s, Midi1, at)
       [] kind = "end" /\ lane.inside ->
            Close(s, Midi1, Judged("complete", lane.lost), all, lane.lost)
       [] kind = "status" /\ lane.inside ->
            Close(s, Midi1, "malformed", all, lane.lost)

-----------------------------------------------------------------------------
(* One packet of a UMP group. *)

ConsumePacketAlone(s, g, kind, at) ==
  LET lane == s.lanes[g]
  IN [Emit(s, g, Judged("complete", lane.pending), <<at>>, lane.pending)
       EXCEPT !.lanes[g].pending = FALSE]

ConsumePacketStray(s, g, at) ==
  LET lane == s.lanes[g]
  IN [Emit(s, g, "malformed", <<at>>, lane.pending) EXCEPT !.lanes[g].pending = FALSE]

ConsumePacket(s, g, kind, at) ==
  LET lane == s.lanes[g]
      all  == Append(lane.pieces, at)
  IN CASE kind = "other" -> s
       [] kind = "invalid" ->
            Close(s, g, "malformed", lane.pieces, lane.lost \/ lane.pending)
       [] kind = "complete" -> ConsumePacketAlone(Interrupt(s, g), g, kind, at)
       [] kind = "start" -> StartFrame(s, g, at)
       [] kind \in {"continuation", "end"} /\ ~lane.inside -> ConsumePacketStray(s, g, at)
       [] kind = "continuation" /\ lane.inside -> Extend(s, g, at)
       [] kind = "end" /\ lane.inside ->
            Close(s, g, Judged("complete", lane.lost), all, lane.lost)

-----------------------------------------------------------------------------
(* Data loss, and the end of a capture. *)

NotifyLoss(s, tainted) ==
  [s EXCEPT !.lanes = [l \in Lanes |->
     IF l \notin tainted THEN @[l]
     ELSE IF @[l].inside THEN [@[l] EXCEPT !.lost = TRUE]
     ELSE [@[l] EXCEPT !.pending = TRUE]]]

FinishLaneQuietly(s, l) ==
  LET lane == s.lanes[l]
  IN IF lane.inside
     THEN Close(s, l, Judged("incomplete", lane.lost), lane.pieces, lane.lost)
     ELSE [s EXCEPT !.lanes[l] = Idle]

FinishLane(s, l) ==
  LET lane == s.lanes[l]
  IN IF lane.inside
     THEN Close(s, l, Judged("incomplete", lane.lost), lane.pieces, lane.lost)
     ELSE IF lane.pending THEN Close(s, l, "malformed", <<>>, TRUE)
     ELSE s

(* The i-th byte or packet of an event. *)
ConsumePiece(s, event, i) ==
  LET piece == event.data[i]
      at    == <<event.seq, i>>
  IN IF event.type = "midi1" THEN ConsumeByte(s, piece.kind, at)
     ELSE ConsumePacket(s, piece.lane, piece.kind, at)

ConsumeData(s, event) ==
  LET after[i \in 0..Len(event.data)] ==
        IF i = 0 THEN s ELSE ConsumePiece(after[i - 1], event, i)
  IN after[Len(event.data)]

(* One stream event, ignored unless a capture is running. *)
ConsumeEvent(s, event) ==
  CASE ~s.receiving                          -> s
    [] s.receiving /\ event.type = "loss"    -> NotifyLoss(s, Tainted(event))
    [] s.receiving /\ event.type # "loss"    -> ConsumeData(s, event)

(* begin_receive(): refused while a capture runs; forgets the last document. *)
BeginReceive(s) ==
  IF s.receiving THEN s ELSE [NewSession EXCEPT !.receiving = TRUE]

(* finish_receive(): the byte parser is finished first, then each group. *)
FinishReceive(s) ==
  LET finished[i \in 0..Len(LaneOrder)] ==
        IF i = 0 THEN s ELSE FinishLane(finished[i - 1], LaneOrder[i])
  IN IF s.receiving THEN [finished[Len(LaneOrder)] EXCEPT !.receiving = FALSE] ELSE s

(* clear(): refused while a capture runs; does not touch capture_. *)
ClearDocument(s) == IF s.receiving THEN s ELSE [s EXCEPT !.frames = <<>>]

-----------------------------------------------------------------------------
(* The reference: what a device sent, read off the stream itself. *)

(* What an event has for lane l, by offset, a loss at 0; realtime bytes and   *)
(* packets that are no SysEx7 belong to no lane.                             *)
OffsetsOf(event, l) ==
  IF event.type = "loss" THEN IF l \in Tainted(event) THEN {0} ELSE {}
  ELSE {k \in DOMAIN event.data :
          event.data[k].lane = l /\ event.data[k].kind \notin {"other", "realtime"}}

Precedes(p, q) == p[1] < q[1] \/ (p[1] = q[1] /\ p[2] < q[2])

(* Next to each other, with nothing of lane l between.                       *)
Adjacent(stream, l, p, q) ==
  /\ Precedes(p, q)
  /\ \A i \in DOMAIN stream : \A k \in OffsetsOf(stream[i], l) :
       ~(Precedes(p, <<i, k>>) /\ Precedes(<<i, k>>, q))

PieceOf(stream, l, p) ==
  p[1] \in DOMAIN stream /\ stream[p[1]].type # "loss" /\ p[2] \in OffsetsOf(stream[p[1]], l)

KindAt(stream, p) == stream[p[1]].data[p[2]].kind

(* The pieces are one frame of lane l that was sent whole.                   *)
SentWhole(stream, l, pieces) ==
  LET last == Len(pieces) IN
  /\ last > 0
  /\ \A n \in 1..last : PieceOf(stream, l, pieces[n])
  /\ \A n \in 2..last : Adjacent(stream, l, pieces[n - 1], pieces[n])
  /\ IF last = 1 THEN KindAt(stream, pieces[1]) = "complete"
     ELSE /\ KindAt(stream, pieces[1]) = "start"
          /\ KindAt(stream, pieces[last]) = "end"
          /\ \A n \in 2..(last - 1) : KindAt(stream, pieces[n]) \in {"data", "continuation"}

(* From a to b a device sent a frame of lane l: a complete packet, or a start *)
(* and an end with nothing but data between.  Losses are not looked at.      *)
OnlyDataBetween(stream, l, a, b) ==
  \A e \in DOMAIN stream : \A k \in OffsetsOf(stream[e], l) :
    stream[e].type # "loss" /\ Precedes(a, <<e, k>>) /\ Precedes(<<e, k>>, b) =>
      KindAt(stream, <<e, k>>) \in {"data", "continuation"}

FrameSent(stream, l, a, b) ==
  /\ PieceOf(stream, l, a) /\ PieceOf(stream, l, b)
  /\ \/ a = b /\ KindAt(stream, a) = "complete"
     \/ /\ Precedes(a, b) /\ KindAt(stream, a) = "start" /\ KindAt(stream, b) = "end"
        /\ OnlyDataBetween(stream, l, a, b)

(* The pieces are those of lane l from a to b, in order and without a gap.   *)
Spans(stream, l, pieces, a, b) ==
  LET last == Len(pieces) IN
  /\ last > 0 /\ pieces[1] = a /\ pieces[last] = b
  /\ \A n \in 1..last : PieceOf(stream, l, pieces[n])
  /\ \A n \in 2..last : Precedes(pieces[n - 1], pieces[n])
  /\ \A e \in DOMAIN stream : \A k \in OffsetsOf(stream[e], l) :
       stream[e].type # "loss" /\ Precedes(a, <<e, k>>) /\ Precedes(<<e, k>>, b) =>
         \E n \in 1..last : pieces[n] = <<e, k>>

(* That frame is in the document, once, and is complete or marked as hit by  *)
(* data loss.                                                                *)
InDocument(stream, frames, l, a, b) ==
  \E i \in DOMAIN frames :
    /\ frames[i].lane = l /\ Spans(stream, l, frames[i].pieces, a, b)
    /\ frames[i].status = "complete" \/ frames[i].affected
    /\ \A j \in DOMAIN frames \ {i} : frames[j].pieces # frames[i].pieces

(* What the i-th frame has of lane l; after the last frame, what the lane is *)
(* still reading.                                                            *)
PiecesIn(frames, l, open, i) ==
  IF i > Len(frames) THEN open
  ELSE IF frames[i].lane = l THEN frames[i].pieces ELSE <<>>

(* Only an invalid packet leaves no bytes.                                   *)
HoldsBytes(stream, l, p) == PieceOf(stream, l, p) /\ KindAt(stream, p) # "invalid"

=============================================================================
