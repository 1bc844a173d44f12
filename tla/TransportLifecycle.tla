------------------------- MODULE TransportLifecycle -------------------------
(***************************************************************************)
(* The life cycle every MIDI transport keeps in a TransportStateMachine    *)
(* (src/src/core/midi/TransportState.cpp).  Each operator is one of its    *)
(* methods: it gives the next state, or Refused when the method fails with *)
(* invalid_state and changes nothing.                                      *)
(***************************************************************************)

LifecycleStates == {"closed", "opening", "open", "closing", "failed"}

Refused == "refused"

RequireAndSet(state, expected, next) == IF state = expected THEN next ELSE Refused

BeginOpen(state) == RequireAndSet(state, "closed", "opening")

CompleteOpen(state) == RequireAndSet(state, "opening", "open")

(* Closing what is closed succeeds and changes nothing. *)
BeginClose(state) ==
  CASE state = "closed"             -> "closed"
    [] state \in {"open", "failed"} -> "closing"
    [] OTHER                        -> Refused

CompleteClose(state) ==
  IF state = "closed" THEN state ELSE RequireAndSet(state, "closing", "closed")

(* fail() comes from any state. *)
Fail == "failed"

=============================================================================
