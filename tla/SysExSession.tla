---------------------------- MODULE SysExSession ----------------------------
(***************************************************************************)
(* The transfer workspace: SysExTransferSession.cpp with the profile       *)
(* choice of ProfileSelectionService.cpp.  The session is owned by the     *)
(* worker thread of module TransferDesk; it is a record, and each of its   *)
(* methods an operator that gives the next one.  A method that can refuse  *)
(* has a condition beside it (CanLoad, CanClear, ...) that says when it    *)
(* succeeds.  A document is the sequence of its frames; how frames arise   *)
(* from bytes and events is module SysExCapture's.                         *)
(*                                                                         *)
(* ConsumedOnly is a plausible mistake that a property of TransferDesk is  *)
(* tested against.                                                         *)
(***************************************************************************)
EXTENDS Sequences, ProfileMatch

Sources == {"none", "imported", "received"}

(* state of TransferProgress: preparing, running and cancelling are one. *)
Phases == {"idle", "active", "completed", "cancelled", "failed"}

NewSession ==
  [source |-> "none", doc |-> <<>>, receiving |-> FALSE, match |-> NoResult,
   progress |-> "idle", manual |-> None, saved |-> None, last |-> None]

AllComplete(doc) == doc # <<>> /\ \A i \in DOMAIN doc : doc[i] \in Verified

(* evaluate_profile() with ProfileSelectionService::match(): the service     *)
(* keeps its last result also when there is no frame to match any more.      *)
Evaluate(s) ==
  LET result == Match(Head(s.doc), s.saved, s.manual) IN
  IF s.doc = <<>> THEN [s EXCEPT !.match = NoResult]
                  ELSE [s EXCEPT !.match = result, !.last = result.overridden]

ReplaceDocument(s, source, doc) ==
  [Evaluate([s EXCEPT !.source = source, !.doc = doc]) EXCEPT !.progress = "idle"]

CanLoadFile(s)          == ~s.receiving
CanLoadDocument(s, doc) == ~s.receiving /\ AllComplete(doc)
Loaded(s, doc)          == ReplaceDocument(s, "imported", doc)

CanBeginReceive(s) == ~s.receiving
BegunReceive(s) ==
  [s EXCEPT !.doc = <<>>, !.match = NoResult, !.progress = "idle",
            !.source = "received", !.receiving = TRUE]

ConsumedOnly(s, frames) ==
  IF s.receiving THEN [s EXCEPT !.doc = @ \o frames] ELSE s

(* consume(): one event may complete some frames, or none. *)
Consumed(s, frames) ==
  IF s.receiving THEN Evaluate([s EXCEPT !.doc = @ \o frames]) ELSE s

(* finish_receive(): what the capture still holds becomes a last frame. *)
CanFinish(s)       == s.receiving
Finished(s, frames) == Evaluate([s EXCEPT !.doc = @ \o frames, !.receiving = FALSE])

CanClear(s) == ~s.receiving
Cleared(s) ==
  [s EXCEPT !.source = "none", !.doc = <<>>, !.match = NoResult, !.progress = "idle"]

CanSelectTemporary(p)   == p \in Profiles
SelectedTemporary(s, p) == Evaluate([s EXCEPT !.manual = p])

(* remember_overridden_manual_profile() promotes the choice that the last    *)
(* result overrode, of whatever document that was.                           *)
CanRemember(s) == s.last \in Profiles
Remembered(s)  == Evaluate([s EXCEPT !.saved = s.last])

CanSaveReceived(s) == ~s.receiving /\ s.source = "received" /\ AllComplete(s.doc)
CanRawSend(s)      == ~s.receiving /\ AllComplete(s.doc)

SetProgress(s, phase) == [s EXCEPT !.progress = phase]

(* The profile a session presents is that of its document. *)
Matched(s) ==
  s.match = IF s.doc = <<>> THEN NoResult ELSE Match(Head(s.doc), s.saved, s.manual)

SessionType(s) ==
  /\ s = [field \in DOMAIN NewSession |-> s[field]]
  /\ s.source \in Sources
  /\ s.doc \in Seq(Frames)
  /\ s.receiving \in BOOLEAN
  /\ s.match \in Results
  /\ s.progress \in Phases
  /\ s.manual \in Profiles \cup {None}
  /\ s.saved \in Profiles \cup {None}
  /\ s.last \in Profiles \cup {None}

=============================================================================
