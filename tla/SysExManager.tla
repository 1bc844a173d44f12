--------------------------- MODULE SysExManager ----------------------------
(***************************************************************************)
(* The SysEx Manager's workspace (SysExManager.cpp): files read into       *)
(* memory, what identical files and frames they hold, and which of them    *)
(* may be written out again.  Bytes are abstract: what matters is which    *)
(* are equal, what they hash to, how many they are, and which frames the   *)
(* parser finds in them.  A file is a sequence of pieces, and in one way   *)
(* only: those that a frame is made of, and real-time bytes, which the     *)
(* parser drops wherever they come, but the file's bytes still hold.       *)
(*                                                                         *)
(* RemovedAlone is a plausible mistake the properties are tested against.  *)
(***************************************************************************)
EXTENDS Naturals, SequencesExt

CONSTANTS
  Bytes,           \* the pieces files are made of, and what frames hold
  Parsed(_),       \* the frame of a piece, less its real-time bytes; or none
  Hash(_),         \* stable_hash(); different bytes may share one
  Size(_),         \* how many bytes a frame has
  Hollow,          \* frames that are F0 F7 and nothing between
  MaxDocument,     \* kMaxDocumentRawBytes
  MaxAggregate     \* kMaxAggregateRawBytes

(* What a .syx file is read as. *)
Frames == [bytes : Bytes, status : {"complete", "incomplete", "malformed"}, tainted : BOOLEAN]

ASSUME ManagerAssumption ==
  /\ \A bytes \in Bytes : Size(bytes) \in Nat /\ Parsed(bytes) \in Seq(Frames)
  /\ MaxDocument \in Nat /\ MaxAggregate \in Nat

NewManager == [items |-> <<>>, bytes |-> 0, next |-> 1]

IsVerified(frame) == frame.status = "complete" /\ ~frame.tainted

(* load_syx_file(): the frames of a file, and save_syx_frames(): their bytes. *)
Parse(raw)      == FlattenSeq([i \in DOMAIN raw |-> Parsed(raw[i])])
BytesOf(frames) == [k \in DOMAIN frames |-> frames[k].bytes]

TotalOf(sizes) ==
  LET total[n \in 0..Len(sizes)] == IF n = 0 THEN 0 ELSE total[n - 1] + sizes[n] IN
  total[Len(sizes)]

RawSize(raw)      == TotalOf([i \in DOMAIN raw |-> Size(raw[i])])
HasPayload(frame) == IsVerified(frame) /\ frame.bytes \notin Hollow

ExceedsLimit(current, addition, limit) == current > limit \/ addition > limit - current

-----------------------------------------------------------------------------
(* What is in the workspace. *)

Ids(items)       == {items[i].id : i \in DOMAIN items}
Row(items, id)   == CHOOSE i \in DOMAIN items : items[i].id = id
Item(items, id)  == items[Row(items, id)]

(* The frames of all items, in the order of the workspace.                   *)
References(items) ==
  FlattenSeq([i \in DOMAIN items |->
    [k \in DOMAIN items[i].frames |-> [item |-> items[i].id, frame |-> k]]])

(* Those of the first n references that are in a set.                        *)
Those(refs, n, set) ==
  LET those[i \in 0..n] == IF i = 0 THEN <<>>
                           ELSE IF refs[i] \in set THEN Append(those[i - 1], refs[i])
                           ELSE those[i - 1] IN
  those[n]

Available(items, ref) ==
  ref.item \in Ids(items) /\ ref.frame \in DOMAIN Item(items, ref.item).frames
FrameOf(items, ref) == Item(items, ref.item).frames[ref.frame]

-----------------------------------------------------------------------------
(* Which files and frames are the same. *)

SameFrame(p, q)   == Hash(p.bytes) = Hash(q.bytes) /\ p.bytes = q.bytes
SamePayload(p, q) == HasPayload(p) /\ HasPayload(q) /\ SameFrame(p, q)

Alike(items, Same(_, _)) ==
  LET refs == ToSet(References(items)) IN
  {pair \in refs \X refs : Same(FrameOf(items, pair[1]), FrameOf(items, pair[2]))}

(* Each frame in its turn is paired with every earlier one it is like.       *)
Pairs(refs, alike) ==
  LET Earlier(n) == Those(refs, n - 1, {p \in ToSet(refs) : <<p, refs[n]>> \in alike})
      met[n \in 0..Len(refs)] ==
        IF n = 0 THEN [r \in ToSet(refs) |-> <<>>]
        ELSE [r \in ToSet(refs) |->
               IF r = refs[n] THEN Earlier(n)
               ELSE IF r \in ToSet(Earlier(n)) THEN Append(met[n - 1][r], refs[n])
               ELSE met[n - 1][r]] IN
  met[Len(refs)]

(* The first earlier file with the same bytes, real-time bytes included.     *)
FileDuplicateOf(items, i) ==
  LET earlier == {k \in 1..(i - 1) :
                    Hash(items[k].raw) = Hash(items[i].raw) /\ items[k].raw = items[i].raw} IN
  IF earlier = {} THEN 0 ELSE items[CHOOSE k \in earlier : \A j \in earlier : k <= j].id

(* refresh_duplicate_evidence(): all of it is found again.                   *)
WithEvidence(items) ==
  LET frames   == Pairs(References(items), Alike(items, SameFrame))
      payloads == Pairs(References(items), Alike(items, SamePayload))
      Of(found, i) == [k \in DOMAIN items[i].frames |-> found[[item |-> items[i].id, frame |-> k]]] IN
  [i \in DOMAIN items |->
    [items[i] EXCEPT !.duplicateOf = FileDuplicateOf(items, i),
                     !.sameFrames = Of(frames, i), !.samePayloads = Of(payloads, i)]]

-----------------------------------------------------------------------------
(* The operations. *)

CanAdd(manager, raw) ==
  /\ RawSize(raw) <= MaxDocument
  /\ ~ExceedsLimit(manager.bytes, RawSize(raw), MaxAggregate)

Added(manager, raw) ==
  [items |-> WithEvidence(Append(manager.items,
               [id |-> manager.next, raw |-> raw, frames |-> Parse(raw), duplicateOf |-> 0,
                sameFrames |-> <<>>, samePayloads |-> <<>>])),
   bytes |-> manager.bytes + RawSize(raw),
   next  |-> manager.next + 1]

Without(items, id) == RemoveAt(items, Row(items, id))

RemovedAlone(manager, id) ==
  [manager EXCEPT !.bytes = @ - RawSize(Item(manager.items, id).raw),
                  !.items = Without(@, id)]

Removed(manager, id) ==
  [manager EXCEPT !.bytes = @ - RawSize(Item(manager.items, id).raw),
                  !.items = WithEvidence(Without(@, id))]

(* export_frames() and merge_frames(): verified frames only, and no more     *)
(* than a file may hold.                                                     *)
FramesOf(manager, refs) == [n \in DOMAIN refs |-> FrameOf(manager.items, refs[n])]

CanWrite(manager, refs) ==
  /\ refs # <<>>
  /\ \A n \in DOMAIN refs :
       Available(manager.items, refs[n]) /\ IsVerified(FrameOf(manager.items, refs[n]))
  /\ RawSize(BytesOf(FramesOf(manager, refs))) <= MaxDocument

=============================================================================
