--------------------------- MODULE WinmmMidiHeader ---------------------------
(***************************************************************************)
(* The owners of a WinMM MIDIHDR, WinmmInputBuffer and WinmmOutputBuffer   *)
(* (src/src/transports/winmm/WinmmMidiHeader.cpp).  Both keep the same two *)
(* flags and guard them the same way.  An operator is one method whose     *)
(* native call succeeds; a method that refuses, like one whose native call *)
(* fails, changes nothing.                                                 *)
(***************************************************************************)

Headers == [prepared : BOOLEAN, submitted : BOOLEAN]

NewHeader == [prepared |-> FALSE, submitted |-> FALSE]

Prepare(header) ==
  IF header.submitted THEN header ELSE [header EXCEPT !.prepared = TRUE]

MaySubmit(header) == header.prepared /\ ~header.submitted

Submit(header) ==
  IF MaySubmit(header) THEN [header EXCEPT !.submitted = TRUE] ELSE header

(* mark_returned(), mark_completed() *)
MarkReturned(header) == [header EXCEPT !.submitted = FALSE]

Unprepare(header) ==
  IF header.submitted THEN header ELSE [header EXCEPT !.prepared = FALSE]

=============================================================================
