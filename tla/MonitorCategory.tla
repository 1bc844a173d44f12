-------------------------- MODULE MonitorCategory --------------------------
(***************************************************************************)
(* The category under which the MIDI Monitor lists a message               *)
(* (src/src/gui/MidiMonitorModel.cpp).  Of a MIDI 1.0 message the first    *)
(* byte counts and whether an F7 is among its bytes; of a Universal MIDI   *)
(* Packet the message type, the status nibble and the status byte.         *)
(***************************************************************************)
EXTENDS Naturals

Midi1(first, ends)      == [form |-> "midi1", first |-> first, ends |-> ends]
Ump(type, nibble, byte) == [form |-> "ump", type |-> type, nibble |-> nibble, byte |-> byte]

Categories ==
  {"notes", "controllers", "program change", "pitch bend", "aftertouch", "sysex", "clock",
   "active sensing", "other"}

ChannelCategory(status) ==
  LET kind == status \div 16 IN
  CASE kind \in {8, 9}   -> "notes"
    [] kind \in {10, 13} -> "aftertouch"
    [] kind = 11         -> "controllers"
    [] kind = 12         -> "program change"
    [] kind = 14         -> "pitch bend"
    [] OTHER             -> "other"

Midi2Category(nibble) ==
  CASE nibble \in 0..5 \cup {11} -> "controllers"
    [] nibble \in {6, 14}        -> "pitch bend"
    [] nibble \in {8, 9}         -> "notes"
    [] nibble \in {10, 13}       -> "aftertouch"
    [] nibble = 12               -> "program change"
    [] OTHER                     -> "other"

SystemCategory(status) ==
  CASE status \in {240, 247} -> "sysex"
    [] status = 248          -> "clock"
    [] status = 254          -> "active sensing"
    [] OTHER                 -> "other"

(* event_category(): a message by itself. *)
EventCategory(m) ==
  CASE m.form = "midi1" /\ m.first < 240                       -> ChannelCategory(m.first)
    [] m.form = "midi1" /\ m.first >= 240                      -> SystemCategory(m.first)
    [] m.form = "ump" /\ (m.type = 3 \/ (m.type = 5 /\ m.nibble <= 3)) -> "sysex"
    [] m.form = "ump" /\ m.type = 1                            -> SystemCategory(m.byte)
    [] m.form = "ump" /\ m.type = 4                            -> Midi2Category(m.nibble)
    [] m.form = "ump" /\ m.type = 2                            -> ChannelCategory(m.byte)
    [] OTHER                                                   -> "other"

IsData(m)     == m.form = "midi1" /\ m.first < 128
IsRealtime(m) == m.form = "midi1" /\ m.first >= 248

(* classify_event(): data bytes belong to the SysEx that is open on their    *)
(* backend and direction; realtime bytes may come between its pieces.        *)
Classified(m, open) ==
  LET inSysEx == m.form = "midi1" /\ (m.first = 240 \/ (IsData(m) /\ open))
      ending  == m.form = "midi1" /\ m.first = 247
      status  == m.form = "midi1" /\ m.first \in 128..247 IN
  CASE inSysEx -> [category |-> "sysex", open |-> ~m.ends]
    [] ~inSysEx /\ ending -> [category |-> "sysex", open |-> FALSE]
    [] ~inSysEx /\ ~ending ->
         [category |-> EventCategory(m), open |-> open /\ ~status]

=============================================================================
