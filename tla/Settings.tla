------------------------------ MODULE Settings ------------------------------
(***************************************************************************)
(* SettingsStore (Settings.cpp): what a record of settings becomes as text *)
(* of key=value lines, and what the program makes of such a text, of this  *)
(* version or another, whole or not.  A text is a function from its keys   *)
(* to words of a kind: how a number or a path is spelled is left out, but  *)
(* for a path whose text is no UTF-8.                                      *)
(***************************************************************************)
EXTENDS Routes

CONSTANT Garbled     \* a path's text that is no UTF-8

ASSUME GarbledAssumption == Garbled # ""

CurrentVersion == 1

Policies == [
  theme               |-> {"system", "light", "dark"},
  preferred_backend   |-> {"automatic", "wms", "winmm"},
  reconnect_policy    |-> {"require_confirmation", "manual_only"},
  confirmation_policy |-> {"always_confirm", "confirm_when_sending"},
  log_level           |-> {"error", "warning", "info", "debug"}]

MaxEntries == 1000 * 1000

Numbers == [
  ui_scale_percent          |-> 50..300,
  monitor_history_limit     |-> 1..MaxEntries,
  sysex_pacing_milliseconds |-> 0..60000,
  log_rotation_entries      |-> 1..MaxEntries]

Switches == {"restore_last_session", "monitor_start_paused",
             "stop_capture_on_data_loss", "include_route_identity_in_bundle"}

PathKeys == {"standard_path", "log_destination"}

Directions == [preferred_receive_route |-> "input", preferred_transmit_route |-> "output"]

Keys == DOMAIN Policies \cup DOMAIN Numbers \cup Switches \cup PathKeys \cup DOMAIN Directions

DefaultPolicies ==
  [theme |-> "system", preferred_backend |-> "automatic", reconnect_policy |-> "require_confirmation",
   confirmation_policy |-> "always_confirm", log_level |-> "info"]

DefaultNumbers ==
  [ui_scale_percent |-> 100, monitor_history_limit |-> 10000, sysex_pacing_milliseconds |-> 0,
   log_rotation_entries |-> 1000]

Default(key) ==
  IF key \in DOMAIN Policies THEN DefaultPolicies[key]
  ELSE IF key \in DOMAIN Numbers THEN DefaultNumbers[key]
  ELSE IF key \in DOMAIN Directions THEN NoRoute
  ELSE IF key \in PathKeys THEN ""
  ELSE key \in {"stop_capture_on_data_loss", "include_route_identity_in_bundle"}

Defaults == [key \in Keys |-> Default(key)]

-----------------------------------------------------------------------------
(* What the controls can show, routes apart. *)
InRange(settings) ==
  /\ \A key \in DOMAIN Policies : settings[key] \in Policies[key]
  /\ \A key \in DOMAIN Numbers : settings[key] \in Numbers[key]

(* A word of a text: <<kind, value>>. *)

Kind(key) == CASE key \in DOMAIN Policies   -> "policy"
               [] key \in DOMAIN Numbers    -> "number"
               [] key \in Switches          -> "switch"
               [] key \in PathKeys          -> "path"
               [] key \in DOMAIN Directions -> "route"

ValidRoute(route, key) ==
  route = NoRoute \/ (IsValid(route) /\ route.direction = Directions[key])

(* The text of no route is empty.                                            *)
RouteText(route) == IF route = NoRoute THEN <<>> ELSE SerializeRoute(route)
RouteOf(text)    == IF text = <<>> THEN NoRoute ELSE DeserializeRoute(text)

ReadableRouteFor(key, text) ==
  text = <<>> \/ (RouteOf(text) # NoRoute /\ RouteOf(text).direction = Directions[key])

(* Histories, logs and pacings have no upper bound here.                     *)
Serializable(settings) ==
  /\ settings["ui_scale_percent"] \in Numbers["ui_scale_percent"]
  /\ settings["monitor_history_limit"] # 0
  /\ settings["log_rotation_entries"] # 0
  /\ \A key \in DOMAIN Directions : ValidRoute(settings[key], key)

Serialize(settings) ==
  [form   |-> "settings",
   fields |-> [key \in Keys \cup {"version"} |->
                 IF key = "version" THEN <<"number", CurrentVersion>>
                 ELSE <<Kind(key), IF key \in DOMAIN Directions THEN RouteText(settings[key])
                                   ELSE settings[key]>>]]

Readable(key, word) ==
  /\ word[1] = Kind(key)
  /\ CASE key \in DOMAIN Policies   -> word[2] \in Policies[key]
       [] key \in DOMAIN Numbers    -> word[2] \in Numbers[key]
       [] key \in DOMAIN Directions -> ReadableRouteFor(key, word[2])
       [] OTHER                     -> TRUE

ValueOf(key, word) == IF key \in DOMAIN Directions THEN RouteOf(word[2]) ELSE word[2]

Fallback(status) == [settings |-> Defaults, status |-> status]

HasVersion(fields) == "version" \in DOMAIN fields /\ fields["version"][1] = "number"

(* Other keys are passed over; a missing one has its default.                *)
Deserialized(text) ==
  LET fields  == text.fields
      present == Keys \cap DOMAIN fields IN
  IF ~HasVersion(fields) THEN Fallback("corrupt")
  ELSE IF fields["version"][2] > CurrentVersion THEN Fallback("future")
  ELSE IF \E key \in present : ~Readable(key, fields[key]) THEN Fallback("corrupt")
  ELSE [settings |-> [key \in Keys |-> IF key \in present THEN ValueOf(key, fields[key])
                                      ELSE Defaults[key]],
        status   |-> IF fields["version"][2] = 0 THEN "migrated"
                     ELSE IF present # Keys THEN "completed" ELSE "loaded"]

(* load(): from what the disk holds.                                         *)
Load(content) ==
  CASE content.form = "missing"  -> Fallback("missing")
    [] content.form = "settings" -> Deserialized(content)
    [] OTHER                     -> Fallback("corrupt")

(* The keys that are read before one of the paths.                           *)
ReadBefore(path) ==
  Keys \ (DOMAIN Directions \cup (IF path = "standard_path" THEN PathKeys ELSE {path}))

(* In the Windows build u8path() throws at a garbled path, if all that is    *)
(* read before it can be; nothing catches that.                              *)
LoadThrows(content) ==
  /\ content.form = "settings"
  /\ HasVersion(content.fields) /\ ~(content.fields["version"][2] > CurrentVersion)
  /\ \E path \in PathKeys \cap DOMAIN content.fields :
       /\ content.fields[path][2] = Garbled
       /\ \A key \in (ReadBefore(path) \cup {path}) \cap DOMAIN content.fields :
            Readable(key, content.fields[key])

=============================================================================
