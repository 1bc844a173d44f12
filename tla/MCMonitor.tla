----------------------------- MODULE MCMonitor -----------------------------
(***************************************************************************)
(* Monitor with a note, a clock tick, a SysEx that comes whole and a MIDI  *)
(* 2.0 packet; histories of one and three rows.                            *)
(***************************************************************************)
EXTENDS Monitor

MCMessages == {Midi1(144, FALSE), Midi1(248, FALSE), Midi1(240, TRUE), Ump(4, 9, 144)}
MCLimits   == {1, 3}

(* A message has one category whether it comes as MIDI 1.0 or in a packet    *)
(* of MIDI 1.0 or MIDI 2.0 voice messages.                                   *)
ASSUME CategoriesAgree == \A status \in 128..239 :
  /\ EventCategory(Midi1(status, FALSE)) = EventCategory(Ump(2, status \div 16, status))
  /\ EventCategory(Midi1(status, FALSE)) = EventCategory(Ump(4, status \div 16, status))

=============================================================================
