--------------------------- MODULE StorageProofs ---------------------------
(***************************************************************************)
(* What is saved is read back as it was, for every route identity the      *)
(* program can hold and every record of settings the controls and routes   *)
(* can make; and whatever is read, from any text, is such a record, if the *)
(* text does not end the program instead; what it saved itself does not.   *)
(*                                                                         *)
(* Files are saved whole or left alone, and what the program runs with is  *)
(* what its next start will load: for any paths, files, settings, routes,  *)
(* other programs on the disk, and any number of crashes and starts.       *)
(*                                                                         *)
(* The invariant follows one write: what it moves is all of what it was    *)
(* begun with (Writes), which for settings is their text, and they do not  *)
(* change until it has ended (Stored); a file that is there when it begins *)
(* was there when the user was asked, or was made since (Asked).           *)
(*                                                                         *)
(* What the workspace says of its files and frames is true, for any files, *)
(* bytes and hashes.  The references of its items are a list in the order  *)
(* of items and frames (Listed); the search over its first n frames leaves *)
(* each with the list of those among them it is like (MetBy), for later    *)
(* frames come later in the order.  So it is true after each change of the *)
(* items, whose ids grow (Shelf), and of what is counted (WellKept).       *)
(***************************************************************************)
EXTENDS Storage, SequenceTheorems, WellFoundedInduction, TLAPS

(* The settings a running program may have. *)
IsSettings(s) ==
  /\ s = [key \in Keys |-> s[key]]
  /\ InRange(s)
  /\ \A key \in DOMAIN Directions :
       ValidRoute(s[key], key) /\ (s[key] # NoRoute => IsIdentity(s[key]))

(* No path of theirs is garbled. *)
Legible(s) == \A path \in PathKeys : s[path] # Garbled

-----------------------------------------------------------------------------
(* Routes. *)

(* A concatenation, as a function. *)
LEMMA Joined ==
  ASSUME NEW S, NEW s \in Seq(S), NEW t \in Seq(S)
  PROVE  s \o t = [i \in 1..(Len(s) + Len(t)) |-> IF i <= Len(s) THEN s[i] ELSE t[i - Len(s)]]
<1>1. s \o t \in Seq(S) /\ Len(s \o t) = Len(s) + Len(t)
  BY ConcatProperties
<1>2. \A i \in 1..(Len(s) + Len(t)) : (s \o t)[i] = IF i <= Len(s) THEN s[i] ELSE t[i - Len(s)]
  BY ConcatProperties
<1>3. s \o t \in [1..Len(s \o t) -> S]
  BY <1>1, LenProperties
<1>4. s \o t = [i \in 1..Len(s \o t) |-> (s \o t)[i]]
  BY <1>3
<1> QED BY <1>1, <1>2, <1>4

(* Three fields, and two more. *)
LEMMA ThreeTwo ==
  ASSUME NEW a, NEW b, NEW c, NEW d, NEW e
  PROVE  <<a, b, c>> \o <<d, e>> = <<a, b, c, d, e>>
<1> DEFINE S == {a, b, c, d, e}
           s == <<a, b, c>>
           t == <<d, e>>
<1>1. Len(s) = 3 /\ Len(t) = 2 /\ s \in Seq(S) /\ t \in Seq(S)
  OBVIOUS
<1>2. s \o t = [i \in 1..5 |-> IF i <= 3 THEN s[i] ELSE t[i - 3]]
  <2> HIDE DEF S, s, t
  <2>1. s \o t = [i \in 1..(Len(s) + Len(t)) |-> IF i <= Len(s) THEN s[i] ELSE t[i - Len(s)]]
    BY <1>1, Joined
  <2>2. Len(s) = 3 /\ Len(s) + Len(t) = 5
    BY <1>1
  <2> QED BY ONLY <2>1, <2>2
<1>3. <<a, b, c, d, e>> = [i \in 1..5 |-> IF i <= 3 THEN s[i] ELSE t[i - 3]]
  OBVIOUS
<1> QED BY <1>2, <1>3

(* Three fields, and four more. *)
LEMMA ThreeFour ==
  ASSUME NEW a, NEW b, NEW c, NEW d, NEW e, NEW f, NEW g
  PROVE  <<a, b, c>> \o <<d, e, f, g>> = <<a, b, c, d, e, f, g>>
<1> DEFINE S == {a, b, c, d, e, f, g}
           s == <<a, b, c>>
           t == <<d, e, f, g>>
<1>1. Len(s) = 3 /\ Len(t) = 4 /\ s \in Seq(S) /\ t \in Seq(S)
  OBVIOUS
<1>2. s \o t = [i \in 1..7 |-> IF i <= 3 THEN s[i] ELSE t[i - 3]]
  <2> HIDE DEF S, s, t
  <2>1. s \o t = [i \in 1..(Len(s) + Len(t)) |-> IF i <= Len(s) THEN s[i] ELSE t[i - Len(s)]]
    <3>1. s \in Seq(S) /\ t \in Seq(S)
      BY <1>1
    <3> QED BY ONLY <3>1, Joined
  <2>2. Len(s) = 3 /\ Len(s) + Len(t) = 7
    BY <1>1
  <2> QED BY ONLY <2>1, <2>2
<1>3. <<a, b, c, d, e, f, g>> = [i \in 1..7 |-> IF i <= 3 THEN s[i] ELSE t[i - 3]]
  OBVIOUS
<1> QED BY <1>2, <1>3

(* The fields of each backend's text, written out. *)
LEMMA Fields ==
  ASSUME NEW r, IsValid(r)
  PROVE  LET n == r.native
             b == <<"backend", r.backend>>
             v == <<"version", 1>>
             d == <<"direction", r.direction>> IN
         \/ /\ r.backend = "wms"
            /\ SerializeRoute(r) = <<v, b, d, <<"endpoint", n["endpoint"]>>, <<"group", n["group"]>> >>
         \/ /\ r.backend = "winmm"
            /\ SerializeRoute(r) = <<v, b, d, <<"name", n["name"]>>, <<"wmid", n["wmid"]>>,
                                     <<"wpid", n["wpid"]>>, <<"driver", n["driver"]>> >>
         \/ /\ r.backend = "external"
            /\ SerializeRoute(r) = <<v, b, d, <<"provider", n["provider"]>>,
                                     <<"endpoint", n["endpoint"]>> >>
<1> DEFINE native == [i \in DOMAIN Order[r.backend] |->
                       <<Order[r.backend][i], r.native[Order[r.backend][i]]>>]
           fields == << <<"version", 1>>, <<"backend", r.backend>>, <<"direction", r.direction>> >>
<1>1. r.backend \in {"wms", "winmm", "external"}
  BY DEF IsValid, Backends, Order
<1>2. SerializeRoute(r) = fields \o native
  BY DEF SerializeRoute, Head3, RouteVersion
<1>3. CASE r.backend = "wms"
  <2>1. Order[r.backend] = <<"endpoint", "group">>
    BY <1>3 DEF Order
  <2>2. native = << <<"endpoint", r.native["endpoint"]>>, <<"group", r.native["group"]>> >>
    BY <2>1
  <2> HIDE DEF native
  <2> QED BY <1>2, <1>3, <2>2, ThreeTwo
<1>4. CASE r.backend = "winmm"
  <2>1. Order[r.backend] = <<"name", "wmid", "wpid", "driver">>
    BY <1>4 DEF Order
  <2>2. native = << <<"name", r.native["name"]>>, <<"wmid", r.native["wmid"]>>,
                    <<"wpid", r.native["wpid"]>>, <<"driver", r.native["driver"]>> >>
    BY <2>1
  <2> HIDE DEF native
  <2> QED BY <1>2, <1>4, <2>2, ThreeFour
<1>5. CASE r.backend = "external"
  <2>1. Order[r.backend] = <<"provider", "endpoint">>
    BY <1>5 DEF Order
  <2>2. native = << <<"provider", r.native["provider"]>>, <<"endpoint", r.native["endpoint"]>> >>
    BY <2>1
  <2> HIDE DEF native
  <2> QED BY <1>2, <1>5, <2>2, ThreeTwo
<1> QED BY <1>1, <1>3, <1>4, <1>5

(* A key names one word. *)
LEMMA WordAt ==
  ASSUME NEW text, NoDuplicates(text), NEW i \in DOMAIN text
  PROVE  Word(text, text[i][1]) = text[i][2]
BY DEF NoDuplicates, Word

(* What the text of a route says. *)
LEMMA Texts ==
  ASSUME NEW r, IsValid(r)
  PROVE  LET text == SerializeRoute(r) IN
         /\ NoDuplicates(text)
         /\ KeysOf(text) = {"version", "backend", "direction"} \cup NativeKeys(r.backend)
         /\ Word(text, "version") = 1
         /\ Word(text, "backend") = r.backend
         /\ Word(text, "direction") = r.direction
         /\ \A key \in NativeKeys(r.backend) : Word(text, key) = r.native[key]
         /\ text # <<>>
<1> DEFINE text == SerializeRoute(r)
<1>1. r.backend \in {"wms", "winmm", "external"}
  BY DEF IsValid, Backends, Order
<1>2. CASE r.backend = "wms"
  <2>1. text = << <<"version", 1>>, <<"backend", "wms">>, <<"direction", r.direction>>,
                 <<"endpoint", r.native["endpoint"]>>, <<"group", r.native["group"]>> >>
    BY <1>2, Fields
  <2>2. NativeKeys(r.backend) = {"endpoint", "group"}
    BY <1>2 DEF NativeKeys, Order
  <2> HIDE DEF text
  <2>3. DOMAIN text = 1..5
    BY <2>1
  <2>4. NoDuplicates(text)
    BY <2>1, <2>3 DEF NoDuplicates
  <2>5. KeysOf(text) = {"version", "backend", "direction", "endpoint", "group"}
    BY <2>1, <2>3 DEF KeysOf
  <2>6. /\ Word(text, "version") = 1
        /\ Word(text, "backend") = "wms"
        /\ Word(text, "direction") = r.direction
        /\ Word(text, "endpoint") = r.native["endpoint"]
        /\ Word(text, "group") = r.native["group"]
    BY <2>1, <2>3, <2>4, WordAt
  <2>7. text # <<>>
    BY <2>1
  <2>8. \A key \in NativeKeys(r.backend) : Word(text, key) = r.native[key]
    BY <2>2, <2>6
  <2>9. KeysOf(text) = {"version", "backend", "direction"} \cup NativeKeys(r.backend)
    BY <2>2, <2>5
  <2> QED BY <1>2, <2>4, <2>6, <2>7, <2>8, <2>9 DEF text
<1>3. CASE r.backend = "winmm"
  <2>1. text = << <<"version", 1>>, <<"backend", "winmm">>, <<"direction", r.direction>>,
                 <<"name", r.native["name"]>>, <<"wmid", r.native["wmid"]>>, <<"wpid", r.native["wpid"]>>, <<"driver", r.native["driver"]>> >>
    BY <1>3, Fields
  <2>2. NativeKeys(r.backend) = {"name", "wmid", "wpid", "driver"}
    BY <1>3 DEF NativeKeys, Order
  <2> HIDE DEF text
  <2>3. DOMAIN text = 1..7
    BY <2>1
  <2>4. NoDuplicates(text)
    BY <2>1, <2>3 DEF NoDuplicates
  <2>5. KeysOf(text) = {"version", "backend", "direction", "name", "wmid", "wpid", "driver"}
    BY <2>1, <2>3 DEF KeysOf
  <2>6. /\ Word(text, "version") = 1
        /\ Word(text, "backend") = "winmm"
        /\ Word(text, "direction") = r.direction
        /\ Word(text, "name") = r.native["name"]
        /\ Word(text, "wmid") = r.native["wmid"]
        /\ Word(text, "wpid") = r.native["wpid"]
        /\ Word(text, "driver") = r.native["driver"]
    BY <2>1, <2>3, <2>4, WordAt
  <2>7. text # <<>>
    BY <2>1
  <2>8. \A key \in NativeKeys(r.backend) : Word(text, key) = r.native[key]
    BY <2>2, <2>6
  <2>9. KeysOf(text) = {"version", "backend", "direction"} \cup NativeKeys(r.backend)
    BY <2>2, <2>5
  <2> QED BY <1>3, <2>4, <2>6, <2>7, <2>8, <2>9 DEF text
<1>4. CASE r.backend = "external"
  <2>1. text = << <<"version", 1>>, <<"backend", "external">>, <<"direction", r.direction>>,
                 <<"provider", r.native["provider"]>>, <<"endpoint", r.native["endpoint"]>> >>
    BY <1>4, Fields
  <2>2. NativeKeys(r.backend) = {"provider", "endpoint"}
    BY <1>4 DEF NativeKeys, Order
  <2> HIDE DEF text
  <2>3. DOMAIN text = 1..5
    BY <2>1
  <2>4. NoDuplicates(text)
    BY <2>1, <2>3 DEF NoDuplicates
  <2>5. KeysOf(text) = {"version", "backend", "direction", "provider", "endpoint"}
    BY <2>1, <2>3 DEF KeysOf
  <2>6. /\ Word(text, "version") = 1
        /\ Word(text, "backend") = "external"
        /\ Word(text, "direction") = r.direction
        /\ Word(text, "provider") = r.native["provider"]
        /\ Word(text, "endpoint") = r.native["endpoint"]
    BY <2>1, <2>3, <2>4, WordAt
  <2>7. text # <<>>
    BY <2>1
  <2>8. \A key \in NativeKeys(r.backend) : Word(text, key) = r.native[key]
    BY <2>2, <2>6
  <2>9. KeysOf(text) = {"version", "backend", "direction"} \cup NativeKeys(r.backend)
    BY <2>2, <2>5
  <2> QED BY <1>4, <2>4, <2>6, <2>7, <2>8, <2>9 DEF text
<1> QED BY <1>1, <1>2, <1>3, <1>4

(* A route that was written is read back as it was (serialize_route_identity(), *)
(* deserialize_route_identity()).                                            *)
THEOREM RouteReadBack ==
  ASSUME NEW r, IsValid(r), IsIdentity(r)
  PROVE  DeserializeRoute(SerializeRoute(r)) = r
<1> DEFINE text == SerializeRoute(r)
<1>1. r.backend \in Backends
  BY DEF IsValid
<1>2. NativeReadable(text, r.backend)
  BY Texts DEF NativeReadable, IsValid, IsIdentity
<1>3. ReadableRoute(text)
  BY <1>1, <1>2, Texts DEF ReadableRoute, RouteVersion, IsIdentity
<1>4. Decoded(text) = r
  BY Texts DEF Decoded, IsIdentity, Identity
<1> QED BY <1>3, <1>4 DEF DeserializeRoute

(* A text is read as no route, or as one the program can hold. *)
LEMMA RouteRead ==
  ASSUME NEW text, DeserializeRoute(text) # NoRoute
  PROVE  IsValid(DeserializeRoute(text)) /\ IsIdentity(DeserializeRoute(text))
<1> DEFINE r == Decoded(text)
<1>1. ReadableRoute(text) /\ IsValid(r) /\ DeserializeRoute(text) = r
  BY DEF DeserializeRoute
<1>2. /\ r.backend = Word(text, "backend") /\ r.direction = Word(text, "direction")
      /\ r.native = [key \in NativeKeys(r.backend) |-> Word(text, key)]
      /\ r = Identity(r.backend, r.direction, r.native)
  BY DEF Decoded, Identity
<1>3. \A key \in NativeKeys(r.backend) \ DOMAIN Limits : r.native[key] # Broken
  BY <1>1, <1>2 DEF ReadableRoute, NativeReadable
<1>4. r.native = [key \in NativeKeys(r.backend) |-> r.native[key]]
  BY <1>2
<1> QED BY <1>1, <1>2, <1>3, <1>4 DEF IsIdentity, ReadableRoute

-----------------------------------------------------------------------------
(* Settings. *)

(* The bound of the two histories, which the provers need not know exactly.  *)
LEMMA Most == MaxEntries \in Nat /\ MaxEntries > 10000
BY DEF MaxEntries

(* The keys, group by group. *)
LEMMA KeySets ==
  /\ DOMAIN Policies = {"theme", "preferred_backend", "reconnect_policy", "confirmation_policy",
                        "log_level"}
  /\ DOMAIN Numbers = {"ui_scale_percent", "monitor_history_limit", "sysex_pacing_milliseconds",
                       "log_rotation_entries"}
  /\ DOMAIN Directions = {"preferred_receive_route", "preferred_transmit_route"}
  /\ Keys = DOMAIN Policies \cup DOMAIN Numbers \cup DOMAIN Directions \cup
            {"restore_last_session", "monitor_start_paused", "stop_capture_on_data_loss",
             "include_route_identity_in_bundle", "standard_path", "log_destination"}
  /\ "version" \notin Keys
<1>1. DOMAIN Policies = {"theme", "preferred_backend", "reconnect_policy", "confirmation_policy",
                         "log_level"}
  BY SMT DEF Policies
<1>2. DOMAIN Numbers = {"ui_scale_percent", "monitor_history_limit", "sysex_pacing_milliseconds",
                        "log_rotation_entries"}
  BY SMT DEF Numbers
<1>3. DOMAIN Directions = {"preferred_receive_route", "preferred_transmit_route"}
  BY SMT DEF Directions
<1>4. Keys = DOMAIN Policies \cup DOMAIN Numbers \cup DOMAIN Directions \cup
            {"restore_last_session", "monitor_start_paused", "stop_capture_on_data_loss",
             "include_route_identity_in_bundle", "standard_path", "log_destination"}
  BY SMT DEF Keys, Switches, PathKeys
<1> QED BY <1>1, <1>2, <1>3, <1>4

(* The defaults are settings the program may have. *)
LEMMA DefaultsAreSettings == IsSettings(Defaults)
<1>1. Defaults = [key \in Keys |-> Defaults[key]]
  BY DEF Defaults
<1>2. \A key \in Keys : Defaults[key] = Default(key)
  BY DEF Defaults
<1>3. \A key \in DOMAIN Policies : Defaults[key] \in Policies[key]
  <2>1. ASSUME NEW key \in DOMAIN Policies
        PROVE  Defaults[key] = DefaultPolicies[key]
    <3>1. Defaults[key] = Default(key)
      BY <1>2, KeySets
    <3>2. Default(key) = DefaultPolicies[key]
      BY KeySets DEF Default
    <3> QED BY ONLY <3>1, <3>2
  <2>2. /\ DefaultPolicies["theme"] \in Policies["theme"]
        /\ DefaultPolicies["preferred_backend"] \in Policies["preferred_backend"]
        /\ DefaultPolicies["reconnect_policy"] \in Policies["reconnect_policy"]
        /\ DefaultPolicies["confirmation_policy"] \in Policies["confirmation_policy"]
        /\ DefaultPolicies["log_level"] \in Policies["log_level"]
    BY DEF DefaultPolicies, Policies
  <2> QED BY <2>1, <2>2, KeySets
<1>4. \A key \in DOMAIN Numbers : Defaults[key] \in Numbers[key]
  <2>1. ASSUME NEW key \in DOMAIN Numbers
        PROVE  Defaults[key] = DefaultNumbers[key]
    <3>1. Defaults[key] = Default(key)
      BY <1>2, KeySets
    <3>2. Default(key) = DefaultNumbers[key]
      BY KeySets DEF Default
    <3> QED BY ONLY <3>1, <3>2
  <2>2. /\ DefaultNumbers["ui_scale_percent"] \in Numbers["ui_scale_percent"]
        /\ DefaultNumbers["monitor_history_limit"] \in Numbers["monitor_history_limit"]
        /\ DefaultNumbers["sysex_pacing_milliseconds"] \in Numbers["sysex_pacing_milliseconds"]
        /\ DefaultNumbers["log_rotation_entries"] \in Numbers["log_rotation_entries"]
    BY Most DEF DefaultNumbers, Numbers
  <2> QED BY <2>1, <2>2, KeySets
<1>5. ASSUME NEW key \in DOMAIN Directions
      PROVE  Defaults[key] = NoRoute
  <2>1. Defaults[key] = Default(key)
    BY <1>2, KeySets
  <2>2. Default(key) = NoRoute
    BY KeySets DEF Default
  <2> QED BY ONLY <2>1, <2>2
<1> QED BY <1>1, <1>3, <1>4, <1>5 DEF IsSettings, ValidRoute, InRange

(* What a path of the settings is, and is by default. *)
LEMMA PathKinds ==
  ASSUME NEW path \in PathKeys
  PROVE  /\ path \in Keys /\ path \notin DOMAIN Directions
         /\ Kind(path) = "path" /\ Defaults[path] = ""
<1>1. /\ path \in Keys /\ path \notin DOMAIN Directions /\ path \notin DOMAIN Policies
      /\ path \notin DOMAIN Numbers /\ path \notin Switches
  BY KeySets DEF PathKeys, Switches
<1>2. Defaults[path] = Default(path)
  BY <1>1 DEF Defaults
<1> QED BY <1>1, <1>2 DEF Kind, Default

(* What is loaded from a text are settings the program may have.             *)
LEMMA LoadsSettings ==
  ASSUME NEW content
  PROVE  IsSettings(Load(content).settings)
<1> DEFINE fields  == content.fields
           present == Keys \cap DOMAIN fields
           s == [key \in Keys |-> IF key \in present THEN ValueOf(key, fields[key]) ELSE Defaults[key]]
<1>1. \A status : IsSettings(Fallback(status).settings)
  BY DefaultsAreSettings DEF Fallback
<1>2. ASSUME \A key \in present : Readable(key, fields[key])
      PROVE  IsSettings(s)
  <2>1. InRange(s)
    BY <1>2, KeySets, DefaultsAreSettings DEF InRange, IsSettings, Readable, ValueOf
  <2>2. ASSUME NEW key \in DOMAIN Directions
        PROVE  ValidRoute(s[key], key) /\ (s[key] # NoRoute => IsIdentity(s[key]))
    <3>1. CASE key \in present
      <4>1. s[key] = RouteOf(fields[key][2]) /\ ReadableRouteFor(key, fields[key][2])
        BY <1>2, <2>2, <3>1, KeySets DEF Readable, ValueOf
      <4> QED BY <4>1, RouteRead DEF ReadableRouteFor, RouteOf, ValidRoute
    <3>2. CASE key \notin present
      BY <2>2, <3>2, KeySets, DefaultsAreSettings DEF IsSettings
    <3> QED BY <3>1, <3>2
  <2>3. s = [key \in Keys |-> s[key]]
    OBVIOUS
  <2> HIDE DEF s
  <2> QED BY <2>1, <2>2, <2>3 DEF IsSettings
<1>3. IsSettings(Deserialized(content).settings)
  <2>1. CASE \E status : Deserialized(content) = Fallback(status)
    BY <1>1, <2>1
  <2>2. CASE ~\E status : Deserialized(content) = Fallback(status)
    <3>1. \A key \in present : Readable(key, fields[key])
      BY <2>2 DEF Deserialized
    <3>2. Deserialized(content).settings = s
      BY <2>2, <3>1 DEF Deserialized
    <3> QED BY <1>2, <3>1, <3>2
  <2> QED BY <2>1, <2>2
<1> QED BY <1>1, <1>3 DEF Load

(* A load that comes to its end leaves no garbled path.                      *)
LEMMA LoadsLegible ==
  ASSUME NEW content, ~LoadThrows(content)
  PROVE  Legible(Load(content).settings)
<1> DEFINE fields == content.fields
           present == Keys \cap DOMAIN fields
           loaded == Load(content).settings
<1> SUFFICES ASSUME NEW path \in PathKeys PROVE loaded[path] # Garbled
  BY DEF Legible
<1>1. path \in Keys /\ path \notin DOMAIN Directions /\ Kind(path) = "path"
  BY PathKinds
<1>2. Defaults[path] = "" /\ Garbled # ""
  BY PathKinds, GarbledAssumption
<1>3. CASE loaded = Defaults
  BY <1>2, <1>3
<1>4. CASE loaded # Defaults
  <2>1. /\ content.form = "settings" /\ HasVersion(fields)
        /\ ~(fields["version"][2] > CurrentVersion)
        /\ \A key \in present : Readable(key, fields[key])
        /\ loaded = [key \in Keys |-> IF key \in present THEN ValueOf(key, fields[key])
                                      ELSE Defaults[key]]
    BY <1>4 DEF Load, Deserialized, Fallback
  <2>2. CASE path \notin DOMAIN fields
    BY <1>1, <1>2, <2>1, <2>2
  <2>3. CASE path \in DOMAIN fields
    <3>1. loaded[path] = fields[path][2]
      BY <1>1, <2>1, <2>3 DEF ValueOf
    <3>2. fields[path][2] # Garbled
      <4>1. (ReadBefore(path) \cup {path}) \cap DOMAIN fields \subseteq present
        BY <1>1 DEF ReadBefore
      <4> QED BY <2>1, <2>3, <4>1 DEF LoadThrows
    <3> QED BY <3>1, <3>2
  <2> QED BY <2>2, <2>3
<1> QED BY <1>3, <1>4

(* Whatever a settings file holds: a load that does not end the program      *)
(* makes of it settings the program may have, with no garbled path where     *)
(* such a path would have ended it, in the Windows build                     *)
(* (SettingsStore::load(), deserialize(), decoded_path()).                   *)
THEOREM LoadedAreSettings ==
  ASSUME NEW content, NEW native \in BOOLEAN, ~(native /\ LoadThrows(content))
  PROVE  /\ IsSettings(Load(content).settings)
         /\ native => Legible(Load(content).settings)
BY LoadsSettings, LoadsLegible

(* Settings the program may have can be saved, and are loaded as they were   *)
(* saved, with nothing missing, migrated or fallen back; and no load of them *)
(* ends the program, unless a path of theirs is garbled                      *)
(* (SettingsStore::serialize(), deserialize(), decoded_path()).              *)
THEOREM SettingsReadBack ==
  ASSUME NEW s, IsSettings(s)
  PROVE  /\ Serializable(s)
         /\ Load(Serialize(s)) = [settings |-> s, status |-> "loaded"]
         /\ Legible(s) => ~LoadThrows(Serialize(s))
<1> DEFINE fields == Serialize(s).fields
<1>1. Serializable(s)
  <2>1. /\ s["ui_scale_percent"] \in Numbers["ui_scale_percent"]
        /\ s["monitor_history_limit"] \in Numbers["monitor_history_limit"]
        /\ s["log_rotation_entries"] \in Numbers["log_rotation_entries"]
    BY KeySets DEF IsSettings, InRange
  <2>2. 0 \notin Numbers["monitor_history_limit"] /\ 0 \notin Numbers["log_rotation_entries"]
    BY Most DEF Numbers
  <2> QED BY <2>1, <2>2 DEF Serializable, IsSettings
<1>2. /\ Serialize(s).form = "settings"
      /\ DOMAIN fields = Keys \cup {"version"}
      /\ fields["version"] = <<"number", 1>>
      /\ \A key \in Keys : fields[key] =
           <<Kind(key), IF key \in DOMAIN Directions THEN RouteText(s[key]) ELSE s[key]>>
  BY KeySets DEF Serialize, CurrentVersion
<1>3. \A key \in DOMAIN Directions : RouteOf(RouteText(s[key])) = s[key]
  BY RouteReadBack, Texts DEF IsSettings, RouteOf, RouteText, ValidRoute
<1> HIDE DEF fields
<1>4. \A key \in Keys : ValueOf(key, fields[key]) = s[key]
  BY <1>2, <1>3 DEF ValueOf
<1>5. ASSUME NEW key \in Keys
      PROVE  Readable(key, fields[key])
  <2>1. CASE key \in DOMAIN Directions
    <3>1. s[key] = NoRoute => RouteText(s[key]) = <<>>
      BY DEF RouteText
    <3>2. s[key] # NoRoute => s[key].direction = Directions[key]
      BY <2>1 DEF IsSettings, ValidRoute
    <3>3. ReadableRouteFor(key, RouteText(s[key]))
      BY <1>3, <2>1, <3>1, <3>2 DEF ReadableRouteFor
    <3> QED BY <1>2, <2>1, <3>3, KeySets DEF Readable
  <2>2. CASE key \in DOMAIN Policies
    BY <1>2, <2>2, KeySets DEF Readable, IsSettings, InRange
  <2>3. CASE key \in DOMAIN Numbers
    BY <1>2, <2>3, KeySets DEF Readable, IsSettings, InRange
  <2>4. CASE key \notin DOMAIN Directions \cup DOMAIN Policies \cup DOMAIN Numbers
    BY <1>2, <2>4 DEF Readable
  <2> QED BY <2>1, <2>2, <2>3, <2>4
<1>6. Deserialized(Serialize(s)) = [settings |-> s, status |-> "loaded"]
  <2>1. s = [key \in Keys |-> ValueOf(key, fields[key])]
    BY <1>4 DEF IsSettings
  <2>2. Keys \cap DOMAIN fields = Keys
    BY <1>2
  <2> QED BY <1>2, <1>5, <2>1, <2>2 DEF Deserialized, HasVersion, CurrentVersion, fields
<1>7. ASSUME Legible(s), NEW path \in PathKeys
      PROVE  fields[path][2] # Garbled
  <2>1. fields[path] = <<"path", s[path]>>
    BY <1>2, PathKinds
  <2> QED BY <1>7, <2>1 DEF Legible
<1>8. Legible(s) => ~LoadThrows(Serialize(s))
  BY <1>7 DEF LoadThrows, fields
<1> QED BY <1>1, <1>2, <1>6, <1>8 DEF Load, fields

-----------------------------------------------------------------------------
(* The writes, and what is stored. *)

Steps == {"check", "create", "fill", "remove", "move", "written", "failed"}

IsWrite(w) ==
  /\ w = [step |-> w.step, kind |-> w.kind, path |-> w.path, content |-> w.content,
          replace |-> w.replace, before |-> w.before]
  /\ w.step \in Steps
  /\ w.replace \in BOOLEAN
  /\ \/ w.kind = "syx" /\ w.path \in SyxPaths
     \/ w.kind = "settings" /\ w.path = SettingsPath
     \/ w.kind = "bundle" /\ w.path = BundlePath

(* The disk, and how far a write has come. *)
Writes ==
  /\ windows \in BOOLEAN /\ meddled \in Nat
  /\ disk = [p \in Paths |-> disk[p]] /\ temp = [p \in Paths |-> temp[p]]
  /\ write = NoWrite \/ IsWrite(write)
  /\ Writing => running
  /\ write.step \in {"remove", "move"} => temp[write.path] = write.content
  /\ write.step = "remove" => ~windows /\ write.kind = "syx" /\ write.replace

(* The user was asked before a file is replaced, or another program made it  *)
(* when it was too late to ask.                                              *)
Asked ==
  /\ dialog.open => /\ running /\ ~Writing
                    /\ dialog.path \in SyxPaths
                    /\ disk[dialog.path] # Missing => asked \/ raced
  /\ Writing /\ write.kind = "syx" /\ write.replace => asked \/ raced

(* What is stored, and what was made of it. *)
StoredSettings == Load(disk[SettingsPath]).settings

Stored ==
  /\ IsSettings(settings) /\ (windows => Legible(settings))
  /\ Writing /\ write.kind = "settings" => write.content = Serialize(settings)
  /\ write.step = "written" /\ write.kind = "settings" =>
       disk[SettingsPath] = Serialize(settings)
  /\ AppliedIsStored

IInv == Writes /\ Asked /\ Stored

(* Before its first start the program has its defaults, and writes nothing. *)
LEMMA InitIInv == Init => IInv
<1> SUFFICES ASSUME Init PROVE IInv
  OBVIOUS
<1>1. Writes
  BY StorageAssumption DEF Init, Writes, Writing, NoWrite
<1>2. Asked
  BY DEF Init, Asked, Writing, NoWrite, NoDialog
<1>3. Legible(Defaults)
  BY PathKinds, GarbledAssumption DEF Legible
<1>4. Stored
  BY <1>3, DefaultsAreSettings DEF Init, Stored, AppliedIsStored, Writing, NoWrite
<1> QED BY <1>1, <1>2, <1>4 DEF IInv

-----------------------------------------------------------------------------
(* The steps of a write. *)

(* The settings, the bundle and the .syx files are different files. *)
LEMMA PathFacts ==
  /\ SettingsPath \in Paths /\ BundlePath \in Paths /\ SyxPaths \subseteq Paths
  /\ SettingsPath # BundlePath /\ SettingsPath \notin SyxPaths
BY StorageAssumption

(* A write that goes on is the same write, at another step. *)
SameWrite ==
  /\ IsWrite(write) /\ IsWrite(write')
  /\ write'.kind = write.kind /\ write'.path = write.path
  /\ write'.content = write.content /\ write'.replace = write.replace

(* Step() keeps all but the step of a write. *)
LEMMA Stepped ==
  ASSUME IsWrite(write), NEW next \in Steps, Step(next)
  PROVE  SameWrite /\ write'.step = next
<1> DEFINE w == [step |-> next, kind |-> write.kind, path |-> write.path,
                 content |-> write.content, replace |-> write.replace, before |-> write.before]
<1>1. write' = w
  BY DEF Step, IsWrite
<1>2. IsWrite(w)
  BY DEF IsWrite
<1> QED BY <1>1, <1>2 DEF SameWrite

(* What a step of a write needs for the invariant: where its file is         *)
(* settled, and what the temporary file holds.                               *)
LEMMA WriteGoesOn ==
  ASSUME IInv, SameWrite, write.step # "written",
         windows' = windows, running' = running, settings' = settings, applied' = applied,
         meddled' = meddled, UNCHANGED dialogVars,
         disk' = [p \in Paths |-> disk'[p]], temp' = [p \in Paths |-> temp'[p]],
         write'.step \in {"remove", "move"} => temp'[write.path] = write.content,
         write'.step = "remove" => ~windows /\ write.kind = "syx" /\ write.replace,
         \/ disk'[SettingsPath] = disk[SettingsPath] /\ (write'.step = "written" => write.kind # "settings")
         \/ /\ write.kind = "settings" /\ write'.step = "written"
            /\ disk'[SettingsPath] = write.content
  PROVE  IInv'
<1>1. Writing /\ Writing' /\ write # NoWrite /\ write' # NoWrite
  BY DEF SameWrite, IsWrite, Steps, Writing, NoWrite
<1>2. Writes' /\ Asked'
  BY <1>1 DEF IInv, Writes, Asked, SameWrite, IsWrite, dialogVars
<1>3. (IsSettings(settings) /\ (windows => Legible(settings)))'
  BY DEF IInv, Stored, IsSettings, Legible
<1>4. (Writing /\ write.kind = "settings" => write.content = Serialize(settings))'
  BY <1>1 DEF IInv, Stored, SameWrite
<1>5. (write.step = "written" /\ write.kind = "settings" =>
         disk[SettingsPath] = Serialize(settings))'
  BY <1>1 DEF IInv, Stored, SameWrite
<1>6. running /\ windows => ~LoadThrows(disk'[SettingsPath])
  BY <1>1, SettingsReadBack DEF IInv, Stored, AppliedIsStored
<1>7. AppliedIsStored'
  BY <1>1, <1>6 DEF IInv, Stored, AppliedIsStored, SameWrite
<1> QED BY <1>2, <1>3, <1>4, <1>5, <1>7 DEF IInv, Stored

(* Every step of a write keeps the invariant. *)
LEMMA FileStepKeeps ==
  ASSUME IInv, FileStep
  PROVE  IInv'
<1>1. /\ write.step # "idle" /\ write.step # "written" /\ windows' = windows
      /\ running' = running /\ settings' = settings /\ applied' = applied /\ meddled' = meddled
      /\ UNCHANGED dialogVars
  BY DEF FileStep, WriteStep, Check, CreateTemporary, Fill, RemoveDestination, Move, FileFails,
         settingsVars, bounds
<1>2. IsWrite(write)
  BY <1>1 DEF IInv, Writes, NoWrite
<1>3. /\ disk = [p \in Paths |-> disk[p]] /\ temp = [p \in Paths |-> temp[p]]
      /\ write.path \in Paths
      /\ write.kind # "settings" => write.path # SettingsPath
      /\ write.kind = "settings" => write.path = SettingsPath
  BY <1>2, PathFacts DEF IInv, Writes, IsWrite
<1>4. CASE Check
  <2>1. SameWrite /\ write'.step \in {"failed", "create"}
    BY <1>2, <1>4, Stepped DEF Check, Steps
  <2> QED BY <1>1, <1>3, <1>4, <2>1, WriteGoesOn DEF Check
<1>5. CASE CreateTemporary
  <2>1. SameWrite /\ write'.step = "fill"
    BY <1>2, <1>5, Stepped DEF CreateTemporary, Steps
  <2> QED BY <1>1, <1>3, <1>5, <2>1, WriteGoesOn DEF CreateTemporary
<1>6. CASE Fill
  <2>1. /\ SameWrite /\ write'.step \in {"remove", "move"}
        /\ write'.step = "remove" => ~windows /\ write.kind = "syx" /\ write.replace
    <3> DEFINE next == IF ~windows /\ write.kind = "syx" /\ write.replace THEN "remove" ELSE "move"
    <3>1. Step(next) /\ next \in Steps
      BY <1>6 DEF Fill, Steps
    <3>2. SameWrite /\ write'.step = next
      BY <1>2, <3>1, Stepped
    <3> QED BY <3>2
  <2>2. /\ temp' = [p \in Paths |-> IF p = write.path THEN write.content ELSE temp[p]]
        /\ disk' = disk
    BY <1>3, <1>6 DEF Fill
  <2>3. temp'[write.path] = write.content /\ temp' = [p \in Paths |-> temp'[p]]
    BY <1>3, <2>2
  <2> QED BY <1>1, <1>3, <2>1, <2>2, <2>3, WriteGoesOn
<1>7. CASE RemoveDestination
  <2>1. SameWrite /\ write'.step = "move"
    BY <1>2, <1>7, Stepped DEF RemoveDestination, Steps
  <2>2. temp[write.path] = write.content /\ write.kind = "syx"
    BY <1>7 DEF RemoveDestination, IInv, Writes
  <2>3. disk' = [p \in Paths |-> disk'[p]] /\ disk'[SettingsPath] = disk[SettingsPath]
    BY <1>3, <1>7, <2>2, PathFacts DEF RemoveDestination
  <2> QED BY <1>1, <1>3, <1>7, <2>1, <2>2, <2>3, WriteGoesOn DEF RemoveDestination
<1>8. CASE Move
  <2>1. SameWrite /\ write'.step = "written"
    BY <1>2, <1>8, Stepped DEF Move, Steps
  <2>2. temp[write.path] = write.content
    BY <1>8 DEF Move, IInv, Writes
  <2>3. /\ disk' = [p \in Paths |-> IF p = write.path THEN write.content ELSE disk[p]]
        /\ temp' = [p \in Paths |-> IF p = write.path THEN Missing ELSE temp[p]]
    <3>1. /\ disk' = [disk EXCEPT ![write.path] = write.content]
          /\ temp' = [temp EXCEPT ![write.path] = Missing]
      BY <1>8, <2>2 DEF Move
    <3>2. disk' = [p \in Paths |-> IF p = write.path THEN write.content ELSE disk[p]]
      BY <1>3, <3>1
    <3>3. temp' = [p \in Paths |-> IF p = write.path THEN Missing ELSE temp[p]]
      BY <1>3, <3>1
    <3> QED BY <3>2, <3>3
  <2>4. \/ disk'[SettingsPath] = disk[SettingsPath] /\ write.kind # "settings"
        \/ disk'[SettingsPath] = write.content /\ write.kind = "settings"
    BY <1>3, <2>3, PathFacts
  <2>5. disk' = [p \in Paths |-> disk'[p]] /\ temp' = [p \in Paths |-> temp'[p]]
    BY <2>3
  <2> QED BY <1>1, <2>1, <2>4, <2>5, WriteGoesOn
<1>9. CASE FileFails
  <2>1. SameWrite /\ write'.step = "failed"
    BY <1>2, <1>9, Stepped DEF FileFails, Steps
  <2>2. temp' = [p \in Paths |-> temp'[p]]
    BY <1>3, <1>9 DEF FileFails
  <2> QED BY <1>1, <1>3, <1>9, <2>1, <2>2, WriteGoesOn DEF FileFails
<1> QED BY <1>4, <1>5, <1>6, <1>7, <1>8, <1>9 DEF FileStep, WriteStep

-----------------------------------------------------------------------------
(* Everything else that happens. *)

(* What starts a write gives it a record. *)
LEMMA Begun ==
  ASSUME NEW kind, NEW path, NEW content, NEW replace \in BOOLEAN,
         BeginWrite(kind, path, content, replace),
         \/ kind = "syx" /\ path \in SyxPaths
         \/ kind = "settings" /\ path = SettingsPath
         \/ kind = "bundle" /\ path = BundlePath
  PROVE  /\ IsWrite(write') /\ write'.step \in {"check", "create"} /\ write' # NoWrite
         /\ write'.kind = kind /\ write'.content = content
<1> DEFINE step == IF kind = "syx" THEN "check" ELSE "create"
           w == [step |-> step, kind |-> kind, path |-> path, content |-> content,
                 replace |-> replace, before |-> disk[path]]
<1>1. write' = w /\ step \in {"check", "create"}
  BY DEF BeginWrite
<1> HIDE DEF step
<1>2. IsWrite(w) /\ w # NoWrite
  BY <1>1 DEF IsWrite, Steps, NoWrite
<1> QED BY <1>1, <1>2

(* What leaves disk and settings alone, whether it begins a write of a file  *)
(* or not.                                                                   *)
LEMMA PageKeeps ==
  ASSUME IInv, Asked', running, ~Writing,
         UNCHANGED <<windows, disk, temp, running, settings, applied, meddled>>,
         \/ write' = write
         \/ \E p \in SyxPaths, replace \in BOOLEAN : \E content : BeginWrite("syx", p, content, replace)
  PROVE  IInv'
<1>1. \/ write' = write
      \/ /\ IsWrite(write') /\ write'.step \in {"check", "create"} /\ write' # NoWrite
         /\ write'.kind = "syx"
  BY Begun
<1>2. Writes'
  BY <1>1 DEF IInv, Writes, IsWrite, Writing
<1>3. (IsSettings(settings) /\ (windows => Legible(settings)))'
  BY DEF IInv, Stored, IsSettings, Legible
<1>4. (/\ Writing /\ write.kind = "settings" => write.content = Serialize(settings)
       /\ write.step = "written" /\ write.kind = "settings" =>
            disk[SettingsPath] = Serialize(settings)
       /\ AppliedIsStored)'
  BY <1>1 DEF IInv, Stored, AppliedIsStored, Writing
<1> QED BY <1>2, <1>3, <1>4 DEF IInv, Stored

(* A click of the SysEx Manager page: one that needs no dialog, or one that  *)
(* opens it, which asks if there is a file.                                  *)
LEMMA ManagerKeeps ==
  ASSUME IInv, Ready, write' = write,
         UNCHANGED <<windows, disk, temp, running, settings, applied, meddled>>,
         \/ UNCHANGED dialogVars
         \/ \E p \in SyxPaths : \E refs :
              /\ dialog' = [open |-> TRUE, path |-> p, refs |-> refs]
              /\ asked' = (disk[p] # Missing)
  PROVE  IInv'
<1>1. running /\ ~Writing
  BY DEF Ready
<1>2. CASE UNCHANGED dialogVars
  BY <1>1, <1>2, PageKeeps DEF IInv, Asked, dialogVars, Writing
<1>3. CASE \E p \in SyxPaths : \E refs :
             /\ dialog' = [open |-> TRUE, path |-> p, refs |-> refs]
             /\ asked' = (disk[p] # Missing)
  <2>1. PICK p, refs : /\ p \in SyxPaths /\ asked' = (disk[p] # Missing)
                       /\ dialog' = [open |-> TRUE, path |-> p, refs |-> refs]
    BY <1>3
  <2>2. dialog'.path = p /\ running' /\ ~Writing'
    BY <1>1, <2>1 DEF Writing
  <2>3. Asked'
    BY <2>1, <2>2 DEF Asked
  <2> QED BY <1>1, <2>3, PageKeeps
<1> QED BY <1>2, <1>3

(* What the dialog chose is written, over a file if there is one. *)
LEMMA WriteFramesKeeps ==
  ASSUME IInv, WriteFrames
  PROVE  IInv'
<1> DEFINE p == dialog.path
           content == [form |-> "syx", raw |-> BytesOf(FramesOf(manager, dialog.refs))]
           replace == disk[p] # Missing
<1>1. /\ running /\ ~Writing /\ p \in SyxPaths
      /\ replace => asked \/ raced
  BY DEF WriteFrames, IInv, Asked
<1>2. /\ UNCHANGED <<windows, disk, temp, running, settings, applied, meddled, asked, raced>>
      /\ ~dialog'.open
  BY DEF WriteFrames, NoDialog, settingsVars, bounds
<1>3. write' = write \/ BeginWrite("syx", p, content, replace)
  BY DEF WriteFrames
<1>4. Asked'
  <2>1. CASE write' = write
    BY <1>1, <1>2, <2>1 DEF Asked, Writing
  <2>2. CASE BeginWrite("syx", p, content, replace)
    <3>1. write'.replace = replace
      BY <2>2 DEF BeginWrite
    <3> QED BY <1>1, <1>2, <3>1 DEF Asked
  <2> QED BY <1>3, <2>1, <2>2
<1>5. replace \in BOOLEAN
  OBVIOUS
<1> HIDE DEF p, content, replace
<1> QED BY <1>1, <1>2, <1>3, <1>4, <1>5, PageKeeps

(* The routes of the connection are among those that can be kept. *)
LEMMA CaptureKeeps ==
  ASSUME IInv, CaptureRoutes
  PROVE  IInv'
<1>1. PICK connected \in SUBSET Observed \ {{}} :
        settings' = [key \in Keys |->
            IF \E route \in connected : key \in DOMAIN Directions /\ route.direction = Directions[key]
            THEN CHOOSE route \in connected : route.direction = Directions[key]
            ELSE settings[key]]
  BY DEF CaptureRoutes
<1>2. ~Writing /\ UNCHANGED <<windows, disk, temp, write, running, applied, meddled, dialog, asked, raced>>
  BY DEF CaptureRoutes, Click, Ready, fileVars, dialogVars
<1>3. ASSUME NEW key \in DOMAIN Directions
      PROVE  \/ settings'[key] = settings[key]
             \/ /\ IsValid(settings'[key]) /\ IsIdentity(settings'[key])
                /\ settings'[key].direction = Directions[key]
  <2>1. CASE \E route \in connected : route.direction = Directions[key]
    <3>1. PICK route \in connected : route.direction = Directions[key]
      BY <2>1
    <3> DEFINE taken == CHOOSE r \in connected : r.direction = Directions[key]
    <3>2. taken \in connected /\ taken.direction = Directions[key]
      BY <3>1
    <3>3. settings'[key] = taken
      BY <1>1, <2>1, KeySets
    <3>4. IsValid(taken) /\ IsIdentity(taken)
      BY <3>2, StorageAssumption
    <3> QED BY <3>2, <3>3, <3>4
  <2>2. CASE ~\E route \in connected : route.direction = Directions[key]
    BY <1>1, <2>2, KeySets
  <2> QED BY <2>1, <2>2
<1>4. \A key \in Keys \ DOMAIN Directions : settings'[key] = settings[key]
  BY <1>1
<1>5. IsSettings(settings')
  <2>1. InRange(settings')
    BY <1>4, KeySets DEF IInv, Stored, IsSettings, InRange
  <2>2. settings' = [key \in Keys |-> settings'[key]]
    BY <1>1
  <2> QED BY <1>3, <2>1, <2>2 DEF IInv, Stored, IsSettings, ValidRoute
<1>6. (IsSettings(settings) /\ (windows => Legible(settings)))'
  <2>1. \A path \in PathKeys : settings'[path] = settings[path]
    BY <1>4, PathKinds
  <2> QED BY <1>2, <1>5, <2>1 DEF IsSettings, Legible, IInv, Stored
<1>7. Writes' /\ Asked'
  BY <1>2 DEF IInv, Writes, Asked, Writing, IsWrite
<1>8. (AppliedIsStored)'
  BY <1>2 DEF IInv, Stored, AppliedIsStored, Writing
<1>9. ~Writing' /\ write'.step # "written"
  BY <1>2 DEF Writing
<1> QED BY <1>6, <1>7, <1>8, <1>9 DEF IInv, Stored, Writing

(* A save writes what the controls show, and applies nothing yet. *)
LEMMA SaveKeeps ==
  ASSUME IInv, SaveSettings
  PROVE  IInv'
<1>1. PICK dial \in Dials : SaveControls(dial)
  BY DEF SaveSettings
<1>2. running /\ ~Writing /\ ~dialog.open
      /\ UNCHANGED <<windows, disk, temp, running, applied, meddled, dialog, asked, raced>>
  BY <1>1 DEF SaveSettings, SaveControls, Click, Ready, dialogVars
<1>3. IsSettings(settings') /\ Legible(settings')
  <2>1. settings' = [key \in Keys |-> IF key \in DOMAIN Directions THEN settings[key] ELSE dial[key]]
    BY <1>1 DEF SaveControls, ReadControls
  <2>2. InRange(dial)
    BY StorageAssumption
  <2>3. InRange(settings')
    BY <2>1, <2>2, KeySets DEF InRange
  <2>4. \A key \in DOMAIN Directions : settings'[key] = settings[key]
    BY <2>1, KeySets
  <2>5. settings' = [key \in Keys |-> settings'[key]]
    BY <2>1
  <2>6. \A path \in PathKeys : settings'[path] = dial[path] /\ dial[path] # Garbled
    BY <2>1, PathKinds, StorageAssumption
  <2> QED BY <2>3, <2>4, <2>5, <2>6 DEF IInv, Stored, IsSettings, ValidRoute, Legible
<1>4. (IsSettings(settings) /\ (windows => Legible(settings)))'
  BY <1>3 DEF IsSettings, Legible
<1>5. BeginWrite("settings", SettingsPath, Serialize(settings'), TRUE)
  <2>1. Serializable(settings')
    BY <1>3, SettingsReadBack
  <2> QED BY <1>1, <2>1 DEF SaveControls
<1>6. /\ IsWrite(write') /\ write'.step \in {"check", "create"} /\ write' # NoWrite
      /\ write'.kind = "settings" /\ write'.content = Serialize(settings')
  BY <1>5 DEF BeginWrite, IsWrite, Steps, NoWrite
<1>7. Writes' /\ Asked'
  BY <1>2, <1>6 DEF IInv, Writes, Asked, IsWrite, Writing
<1>8. AppliedIsStored'
  BY <1>2, <1>6 DEF IInv, Stored, AppliedIsStored, Writing
<1>9. (/\ Writing /\ write.kind = "settings" => write.content = Serialize(settings)
       /\ write.step = "written" /\ write.kind = "settings" =>
            disk[SettingsPath] = Serialize(settings))'
  BY <1>6
<1> QED BY <1>4, <1>7, <1>8, <1>9 DEF IInv, Stored

(* The bundle is written under the policy that is applied, so that is stored. *)
LEMMA BundleKeeps ==
  ASSUME IInv, ExportBundle
  PROVE  IInv'
<1> DEFINE routes == applied.include_route_identity_in_bundle
<1>1. /\ running /\ ~Writing /\ ~dialog.open
      /\ UNCHANGED <<windows, disk, temp, running, settings, applied, meddled, dialog, asked, raced>>
  BY DEF ExportBundle, Click, Ready, settingsVars, dialogVars
<1>2. /\ IsWrite(write') /\ write'.step \in {"check", "create"} /\ write' # NoWrite
      /\ write'.kind = "bundle" /\ write'.content = [form |-> "bundle", routes |-> routes]
  BY DEF ExportBundle, BeginWrite, IsWrite, Steps, NoWrite
<1>3. applied = Live(StoredSettings)
  BY <1>1 DEF IInv, Stored, AppliedIsStored, Writing, StoredSettings
<1>4. Writes' /\ Asked'
  BY <1>1, <1>2 DEF IInv, Writes, Asked, IsWrite, Writing
<1>5. (IsSettings(settings) /\ (windows => Legible(settings)))'
  BY <1>1 DEF IInv, Stored, IsSettings, Legible
<1>6. AppliedIsStored'
  <2>1. write'.content.routes = Live(StoredSettings).include_route_identity_in_bundle
    BY <1>2, <1>3
  <2>2. disk'[SettingsPath] = disk[SettingsPath] /\ applied' = applied
    BY <1>1
  <2>3. running' /\ windows' => ~LoadThrows(disk'[SettingsPath])
    BY <1>1 DEF IInv, Stored, AppliedIsStored
  <2> QED BY <1>2, <1>3, <2>1, <2>2, <2>3 DEF AppliedIsStored, StoredSettings
<1> QED BY <1>2, <1>4, <1>5, <1>6 DEF IInv, Stored

(* A write has ended: settings are applied if they were written. *)
LEMMA WriteEndsKeeps ==
  ASSUME IInv, WriteEnds
  PROVE  IInv'
<1>1. /\ running /\ write.step \in {"written", "failed"} /\ write' = NoWrite
      /\ UNCHANGED <<windows, disk, temp, running, settings, meddled, dialog>>
  BY DEF WriteEnds, bounds
<1>2. Writes' /\ Asked' /\ ~Writing'
  BY <1>1 DEF IInv, Writes, Asked, Writing, NoWrite
<1>3. (IsSettings(settings) /\ (windows => Legible(settings)))'
  BY <1>1 DEF IInv, Stored, IsSettings, Legible
<1>4. applied' = Live(StoredSettings)
  <2>1. CASE write.kind = "settings" /\ write.step = "written"
    <3>1. applied' = Live(settings) /\ disk[SettingsPath] = Serialize(settings)
      BY <2>1 DEF WriteEnds, IInv, Stored
    <3>2. StoredSettings = settings
      BY <3>1, SettingsReadBack DEF StoredSettings, IInv, Stored
    <3> QED BY <3>1, <3>2
  <2>2. CASE ~(write.kind = "settings" /\ write.step = "written")
    BY <1>1, <2>2 DEF WriteEnds, IInv, Stored, AppliedIsStored, StoredSettings
  <2> QED BY <2>1, <2>2
<1>5. AppliedIsStored'
  BY <1>1, <1>2, <1>4 DEF AppliedIsStored, StoredSettings, IInv, Stored
<1> QED BY <1>1, <1>2, <1>3, <1>5 DEF IInv, Stored, Writing, NoWrite

(* A start, a stop, and what other programs do to files of their own. *)
LEMMA LifeKeeps ==
  ASSUME IInv, Start \/ Stop \/ Meddle
  PROVE  IInv'
<1>1. CASE Start
  <2>1. /\ ~Writing /\ ~dialog.open
        /\ UNCHANGED <<windows, disk, temp, write, meddled, dialog, asked, raced>>
    BY <1>1 DEF Start, fileVars, dialogVars, IInv, Writes, Asked, Writing
  <2>2. CASE windows /\ LoadThrows(disk[SettingsPath])
    <3>1. UNCHANGED <<running, settings, applied>>
      BY <1>1, <2>2 DEF Start, settingsVars
    <3>2. Writes' /\ Asked' /\ ~Writing'
      BY <2>1, <3>1 DEF IInv, Writes, Asked, Writing, IsWrite
    <3>3. (IsSettings(settings) /\ (windows => Legible(settings)))'
      BY <2>1, <3>1 DEF IInv, Stored, IsSettings, Legible
    <3>4. AppliedIsStored'
      BY <2>1, <3>1, <3>2 DEF IInv, Stored, AppliedIsStored, Writing
    <3> QED BY <2>1, <3>2, <3>3, <3>4 DEF IInv, Stored, Writing
  <2>3. CASE ~(windows /\ LoadThrows(disk[SettingsPath]))
    <3>1. settings' = StoredSettings /\ applied' = Live(settings')
      BY <1>1, <2>3 DEF Start, StoredSettings
    <3>2. windows \in BOOLEAN => IsSettings(settings') /\ (windows => Legible(settings'))
      BY <2>3, <3>1, LoadedAreSettings DEF StoredSettings
    <3>3. (IsSettings(settings) /\ (windows => Legible(settings)))'
      BY <2>1, <3>2 DEF IsSettings, Legible, IInv, Writes
    <3>4. Writes' /\ Asked' /\ ~Writing' /\ write'.step # "written"
      BY <2>1 DEF IInv, Writes, Asked, Writing, IsWrite
    <3>5. AppliedIsStored'
      BY <2>1, <2>3, <3>1, <3>4 DEF AppliedIsStored, StoredSettings, Writing
    <3> QED BY <3>3, <3>4, <3>5 DEF IInv, Stored, Writing
  <2> QED BY <2>2, <2>3
<1>2. CASE Stop
  <2>1. /\ write' = NoWrite /\ ~running' /\ ~dialog'.open
        /\ UNCHANGED <<windows, disk, temp, settings, meddled>>
    BY <1>2 DEF Stop, settingsVars, bounds, NoDialog
  <2>2. Writes' /\ Asked' /\ ~Writing'
    BY <2>1 DEF IInv, Writes, Asked, Writing, NoWrite
  <2>3. (IsSettings(settings) /\ (windows => Legible(settings)))'
    BY <2>1 DEF IInv, Stored, IsSettings, Legible
  <2>4. AppliedIsStored'
    BY <2>1, <2>2 DEF AppliedIsStored
  <2> QED BY <2>1, <2>2, <2>3, <2>4 DEF IInv, Stored, Writing, NoWrite
<1>3. CASE Meddle
  <2>1. PICK p \in SyxPaths, content \in Foreign \cup {Missing} :
          /\ disk' = [disk EXCEPT ![p] = content]
          /\ raced' = (raced \/ (dialog.open /\ dialog.path = p))
    BY <1>3 DEF Meddle
  <2>2. /\ UNCHANGED <<windows, temp, write, running, settings, applied, dialog, asked>>
        /\ meddled' = meddled + 1
    BY <1>3 DEF Meddle, settingsVars
  <2>3. disk' = [q \in Paths |-> disk'[q]] /\ disk'[SettingsPath] = disk[SettingsPath]
    BY <2>1, PathFacts DEF IInv, Writes
  <2>4. Writes'
    BY <2>2, <2>3 DEF IInv, Writes, Writing, IsWrite
  <2>5. Asked'
    <3>1. dialog.open /\ p # dialog.path => disk'[dialog.path] = disk[dialog.path]
      BY <2>1, PathFacts DEF IInv, Writes, Asked
    <3>2. raced => raced'
      BY <2>1
    <3>3. dialog.open /\ p = dialog.path => raced'
      BY <2>1
    <3> QED BY <2>2, <3>1, <3>2, <3>3 DEF IInv, Asked, Writing
  <2>6. (IsSettings(settings) /\ (windows => Legible(settings)))'
    BY <2>2 DEF IInv, Stored, IsSettings, Legible
  <2>7. (/\ Writing /\ write.kind = "settings" => write.content = Serialize(settings)
         /\ write.step = "written" /\ write.kind = "settings" =>
              disk[SettingsPath] = Serialize(settings)
         /\ AppliedIsStored)'
    BY <2>2, <2>3 DEF IInv, Stored, AppliedIsStored, Writing
  <2> QED BY <2>4, <2>5, <2>6, <2>7 DEF IInv, Stored
<1> QED BY <1>1, <1>2, <1>3

-----------------------------------------------------------------------------
(* The theorems. *)

(* No step of the program, or of another one, breaks the invariant. *)
LEMMA NextKeeps ==
  ASSUME IInv, [Next]_vars
  PROVE  IInv'
<1>1. CASE Start \/ Stop \/ Meddle
  BY <1>1, LifeKeeps
<1>2. CASE CaptureRoutes
  BY <1>2, CaptureKeeps
<1>3. CASE SaveSettings
  BY <1>3, SaveKeeps
<1>4. CASE ExportBundle
  BY <1>4, BundleKeeps
<1>5. CASE FileStep
  BY <1>5, FileStepKeeps
<1>6. CASE WriteEnds
  BY <1>6, WriteEndsKeeps
<1>7. CASE RemoveItem \/ \E p \in SyxPaths : AddFile(p)
  <2>1. ManagerClick /\ UNCHANGED <<write, dialogVars>>
    BY <1>7 DEF RemoveItem, AddFile
  <2> QED BY <2>1, ManagerKeeps DEF ManagerClick, Click, settingsVars
<1>8. CASE \E p \in SyxPaths : ExportFrames(p) \/ MergeFrames(p)
  <2>1. PICK p \in SyxPaths : ChooseDestination(p)
    BY <1>8 DEF ExportFrames, MergeFrames
  <2>2. /\ ManagerClick /\ write' = write
        /\ dialog' = [open |-> TRUE, path |-> p, refs |-> ChosenRefs]
        /\ asked' = (disk[p] # Missing)
    BY <2>1 DEF ChooseDestination
  <2> QED BY <2>2, ManagerKeeps DEF ManagerClick, Click, settingsVars
<1>9. CASE (\E id : SelectItem(id)) \/ (\E refs : SelectFrames(refs))
  <2>1. Look
    BY <1>9 DEF SelectItem, SelectFrames
  <2> QED BY <2>1, ManagerKeeps DEF Look, fileVars, settingsVars, bounds
<1>10. CASE WriteFrames
  BY <1>10, WriteFramesKeeps
<1>11. CASE UNCHANGED vars
  <2>1. UNCHANGED <<windows, disk, temp, write, running, settings, applied, meddled, dialog,
                    asked, raced>>
    BY <1>11 DEF vars, fileVars, settingsVars, dialogVars, bounds
  <2>2. Writes' /\ Asked'
    BY <2>1 DEF IInv, Writes, Asked, Writing, IsWrite
  <2>3. (IsSettings(settings) /\ (windows => Legible(settings)))'
    BY <2>1 DEF IInv, Stored, IsSettings, Legible
  <2>4. (/\ Writing /\ write.kind = "settings" => write.content = Serialize(settings)
         /\ write.step = "written" /\ write.kind = "settings" =>
              disk[SettingsPath] = Serialize(settings)
         /\ AppliedIsStored)'
    BY <2>1 DEF IInv, Stored, AppliedIsStored, Writing
  <2> QED BY <2>2, <2>3, <2>4 DEF IInv, Stored
<1> QED BY <1>1, <1>2, <1>3, <1>4, <1>5, <1>6, <1>7, <1>8, <1>9, <1>10, <1>11 DEF Next

(* What the program runs with is what its next start will load, and no       *)
(* bundle names a route that the stored settings leave out: for all disks,   *)
(* settings and routes, and however often it crashes and starts.             *)
THEOREM AppliedSettings == Spec => []AppliedIsStored
<1>1. Spec => []IInv
  BY InitIInv, NextKeeps, PTL DEF Spec
<1>2. IInv => AppliedIsStored
  BY DEF IInv, Stored
<1> QED BY <1>1, <1>2, PTL

(* A file is saved whole or left alone, whatever fails or crashes in between, *)
(* but for an old .syx file on another system than Windows; and a .syx file  *)
(* is replaced only if the user was asked, or another program made it        *)
(* between the user's choice and the program's look (choose_save_destination *)
(* (), SysExManagerPanel.cpp:75, write_atomic(), SyxFile.cpp:35).            *)
THEOREM WholeSaves == Spec => SavedWholeOrNotAtAll
<1> DEFINE Saved ==
  \A p \in Paths : disk'[p] # disk[p] /\ meddled' = meddled =>
       /\ p = write.path
       /\ \/ disk'[p] = write.content
          \/ ~windows /\ write.kind = "syx" /\ write.replace
       /\ disk[p] # Missing /\ windows => write.replace
       /\ write.kind = "syx" /\ write.replace => asked \/ raced
<1>1. ASSUME IInv, [Next]_vars PROVE Saved
  <2>1. CASE Meddle
    BY <1>1, <2>1 DEF Meddle, IInv, Writes
  <2>2. CASE RemoveDestination \/ Move
    <3>1. /\ disk = [p \in Paths |-> disk[p]]
          /\ temp[write.path] = write.content
          /\ RemoveDestination => ~windows /\ write.kind = "syx" /\ write.replace
          /\ write.kind = "syx" /\ write.replace => asked \/ raced
          /\ Move => disk' = [disk EXCEPT ![write.path] = write.content]
      BY <1>1, <2>2 DEF IInv, Writes, Asked, Writing, RemoveDestination, Move
    <3>2. CASE RemoveDestination
      BY <3>1, <3>2 DEF RemoveDestination
    <3>3. CASE Move
      BY <3>1, <3>3 DEF Move, InTheWay
    <3> QED BY <2>2, <3>2, <3>3
  <2>3. CASE ~Meddle /\ ~RemoveDestination /\ ~Move
    <3>1. disk' = disk
      BY <1>1, <2>3
      DEF Next, Start, Stop, CaptureRoutes, SaveSettings, ExportBundle, FileStep, WriteStep,
          Check, CreateTemporary, Fill, FileFails, WriteEnds, RemoveItem, AddFile, ExportFrames,
          MergeFrames, ChooseDestination, WriteFrames, SelectItem, SelectFrames, ManagerClick,
          Look, vars, fileVars
    <3> QED BY <3>1
  <2> QED BY <2>1, <2>2, <2>3
<1>2. Spec => []IInv
  BY InitIInv, NextKeeps, PTL DEF Spec
<1> QED BY <1>1, <1>2, PTL DEF Spec, SavedWholeOrNotAtAll

-----------------------------------------------------------------------------
(* Recursion over numbers. *)

(* A set of numbers that is not empty has a least. *)
LEMMA Smallest ==
  ASSUME NEW T \in SUBSET Nat, T # {}
  PROVE  \E x \in T : \A y \in T : x <= y
<1> DEFINE Less == {pair \in Nat \X Nat : pair[1] < pair[2]}
<1>1. IsWellFoundedOn(Less, Nat)
  BY NatLessThanWellFounded DEF OpToRel
<1>2. PICK x \in T : \A y \in T : <<y, x>> \notin Less
  <2> HIDE DEF Less
  <2> QED BY <1>1, WFMin
<1>3. ASSUME NEW y \in T PROVE x <= y
  <2>1. x \in Nat /\ y \in Nat /\ <<y, x>> \notin Less
    BY <1>2
  <2>2. y < x => <<y, x>> \in Less
    <3> SUFFICES ASSUME y < x PROVE <<y, x>> \in Less
      OBVIOUS
    <3> DEFINE pair == <<y, x>>
    <3>1. pair \in Nat \X Nat /\ pair[1] = y /\ pair[2] = x
      BY <2>1
    <3> QED BY <3>1
  <2> HIDE DEF Less
  <2> QED BY <2>1, <2>2
<1> QED BY <1>3

(* What is true at a and passes from each place to the next is true up to b. *)
LEMMA Upward ==
  ASSUME NEW f, NEW a \in Nat, NEW b \in Nat, f[a] = TRUE,
         \A i \in a..b : i < b /\ f[i] = TRUE => f[i + 1] = TRUE
  PROVE  \A i \in a..b : f[i] = TRUE
<1> DEFINE T == {i \in a..b : f[i] # TRUE}
<1> SUFFICES ASSUME T # {} PROVE FALSE
  OBVIOUS
<1>1. T \in SUBSET Nat
  <2>1. \A i \in a..b : i \in Nat
    OBVIOUS
  <2> QED BY <2>1
<1>2. PICK x \in T : \A y \in T : x <= y
  <2> HIDE DEF T
  <2> QED BY <1>1, Smallest
<1>3. x \in a..b /\ f[x] # TRUE /\ x # a
  OBVIOUS
<1>4. x - 1 \in a..b /\ x - 1 < b /\ (x - 1) + 1 = x /\ ~(x <= x - 1)
  BY <1>3
<1>5. f[x - 1] = TRUE
  BY <1>2, <1>4
<1> QED BY <1>3, <1>4, <1>5

(* What the recursive functions of the workspace make of what they had: a    *)
(* total, all references, those in a set, and what has met so far.           *)
Grown(what, data, had, i) ==
  CASE what = "total"   -> had + data[i]
    [] what = "flatten" -> had \o data[i]
    [] what = "those"   -> IF data.refs[i] \in data.set THEN Append(had, data.refs[i]) ELSE had
    [] what = "met"     ->
         [r \in ToSet(data.refs) |->
            IF r = data.refs[i] THEN data.earlier[i]
            ELSE IF r \in ToSet(data.earlier[i]) THEN Append(had[r], data.refs[i])
            ELSE had[r]]

Growing(what, data, first, a, n, f) ==
  f = [i \in a..n |-> IF i = a THEN first ELSE Grown(what, data, f[i - 1], i)]

(* Each place is defined by the one before, so there is such a function. *)
LEMMA GrowingExists ==
  ASSUME NEW what, NEW data, NEW first, NEW a \in Nat, NEW N \in Nat
  PROVE  \E f : Growing(what, data, first, a, a + N, f)
<1> DEFINE T == {n \in Nat : ~\E f : Growing(what, data, first, a, a + n, f)}
<1> SUFFICES ASSUME T # {} PROVE FALSE
  OBVIOUS
<1>1. PICK n \in T : \A m \in T : n <= m
  <2>1. T \in SUBSET Nat
    OBVIOUS
  <2> HIDE DEF T
  <2> QED BY <2>1, Smallest
<1>2. n \in Nat /\ ~\E f : Growing(what, data, first, a, a + n, f)
  OBVIOUS
<1>3. PICK b : b = a + n /\ b \in Nat
  BY <1>2
<1>4. CASE n = 0
  <2> DEFINE f == [i \in a..b |-> first]
  <2>1. f = [i \in a..b |-> IF i = a THEN first ELSE Grown(what, data, f[i - 1], i)]
    <3>1. \A i \in a..b : i = a
      BY <1>3, <1>4
    <3> QED BY <3>1
  <2>2. Growing(what, data, first, a, b, f)
    BY <2>1 DEF Growing
  <2> HIDE DEF f
  <2> QED BY <1>2, <1>3, <2>2
<1>5. CASE n # 0
  <2>1. n - 1 \in Nat /\ ~(n <= n - 1) /\ a + (n - 1) = b - 1 /\ b # a
    BY <1>2, <1>3, <1>5
  <2>2. PICK g : Growing(what, data, first, a, b - 1, g)
    BY <1>1, <2>1
  <2>3. \A i \in a..(b - 1) : g[i] = IF i = a THEN first ELSE Grown(what, data, g[i - 1], i)
    BY <2>2 DEF Growing
  <2> DEFINE last == Grown(what, data, g[b - 1], b)
             f == [i \in a..b |-> IF i = b THEN last ELSE g[i]]
  <2>4. ASSUME NEW i \in a..b
        PROVE  (IF i = b THEN last ELSE g[i]) =
                 IF i = a THEN first ELSE Grown(what, data, f[i - 1], i)
    <3> HIDE DEF last
    <3>1. CASE i = b
      <4>1. i # a /\ i - 1 \in a..b /\ i - 1 # b /\ i - 1 = b - 1
        BY <1>2, <1>3, <2>1, <3>1
      <4>2. f[i - 1] = g[b - 1]
        BY <4>1
      <4> HIDE DEF f
      <4> QED BY <3>1, <4>1, <4>2 DEF last
    <3>2. CASE i # b
      <4>1. i \in a..(b - 1)
        BY <1>3, <3>2
      <4>2. i # a => f[i - 1] = g[i - 1]
        <5>1. i # a => i - 1 \in a..b /\ i - 1 # b
          BY <1>3, <3>2
        <5> QED BY <5>1
      <4> HIDE DEF f
      <4> QED BY <2>3, <3>2, <4>1, <4>2
    <3> QED BY <3>1, <3>2
  <2>5. f = [i \in a..b |-> IF i = a THEN first ELSE Grown(what, data, f[i - 1], i)]
    <3> HIDE DEF last
    <3>1. f = [i \in a..b |-> IF i = b THEN last ELSE g[i]]
      OBVIOUS
    <3> HIDE DEF f
    <3> QED BY <2>4, <3>1
  <2>6. Growing(what, data, first, a, b, f)
    BY <2>5 DEF Growing
  <2> HIDE DEF f
  <2> QED BY <1>2, <1>3, <2>6
<1> QED BY <1>4, <1>5

-----------------------------------------------------------------------------
(* Totals. *)

(* A total is the last of the sums over the first places. *)
LEMMA TotalPlaces ==
  ASSUME NEW s \in Seq(Nat)
  PROVE  \E t : /\ TotalOf(s) = t[Len(s)]
                /\ t[0] = 0
                /\ \A i \in 1..Len(s) : t[i] = t[i - 1] + s[i]
                /\ \A i \in 0..Len(s) : t[i] \in Nat
<1> DEFINE N == Len(s)
           total[n \in 0..Len(s)] == IF n = 0 THEN 0 ELSE total[n - 1] + s[n]
<1>1. N \in Nat /\ \A i \in 1..N : s[i] \in Nat
  OBVIOUS
<1>2. TotalOf(s) = total[N]
  BY DEF TotalOf
<1>3. total = [n \in 0..Len(s) |-> IF n = 0 THEN 0 ELSE total[n - 1] + s[n]]
  <2>1. PICK what : what = "total"
    OBVIOUS
  <2>2. PICK f : Growing(what, s, 0, 0, 0 + N, f)
    BY <1>1, GrowingExists
  <2>3. f = [n \in 0..Len(s) |-> IF n = 0 THEN 0 ELSE f[n - 1] + s[n]]
    BY <1>1, <2>1, <2>2 DEF Growing, Grown
  <2>4. \E g : g = [n \in 0..Len(s) |-> IF n = 0 THEN 0 ELSE g[n - 1] + s[n]]
    BY <2>3
  <2> QED BY <2>4, Zenon
<1> HIDE DEF total
<1>4. total[0] = 0 /\ \A i \in 1..N : total[i] = total[i - 1] + s[i]
  <2>1. 0 \in 0..N /\ \A i \in 1..N : i \in 0..N /\ i # 0
    BY <1>1
  <2> QED BY <1>3, <2>1
<1> DEFINE fine == [i \in 0..N |-> IF total[i] \in Nat THEN TRUE ELSE FALSE]
<1>5. \A i \in 0..N : fine[i] = TRUE
  <2>1. fine[0] = TRUE
    BY <1>1, <1>4
  <2>2. \A i \in 0..N : i < N /\ fine[i] = TRUE => fine[i + 1] = TRUE
    <3> SUFFICES ASSUME NEW i \in 0..N, i < N, total[i] \in Nat PROVE total[i + 1] \in Nat
      BY <1>1
    <3>1. i + 1 \in 1..N /\ (i + 1) - 1 = i
      BY <1>1
    <3>2. total[i + 1] = total[i] + s[i + 1]
      BY <1>4, <3>1
    <3>3. s[i + 1] \in Nat
      BY <1>1, <3>1
    <3> QED BY <3>2, <3>3
  <2> HIDE DEF fine
  <2> QED BY <1>1, <2>1, <2>2, Upward
<1>6. \A i \in 0..N : total[i] \in Nat
  BY <1>5
<1> QED BY <1>2, <1>4, <1>6

(* A total of numbers is a number. *)
LEMMA TotalNat ==
  ASSUME NEW s \in Seq(Nat)
  PROVE  TotalOf(s) \in Nat
<1>1. PICK t : TotalOf(s) = t[Len(s)] /\ \A i \in 0..Len(s) : t[i] \in Nat
  BY TotalPlaces
<1>2. Len(s) \in 0..Len(s)
  BY LenProperties
<1> QED BY <1>1, <1>2

(* A number more at the end is added to the total. *)
LEMMA TotalLonger ==
  ASSUME NEW s \in Seq(Nat), NEW t \in Seq(Nat), Len(t) = Len(s) + 1,
         \A i \in 1..Len(s) : t[i] = s[i]
  PROVE  TotalOf(t) = TotalOf(s) + t[Len(t)] /\ TotalOf(s) \in Nat
<1>1. PICK f : /\ TotalOf(s) = f[Len(s)]
               /\ f[0] = 0
               /\ \A i \in 1..Len(s) : f[i] = f[i - 1] + s[i]
               /\ \A i \in 0..Len(s) : f[i] \in Nat
  BY TotalPlaces
<1>2. PICK g : /\ TotalOf(t) = g[Len(t)]
               /\ g[0] = 0
               /\ \A i \in 1..Len(t) : g[i] = g[i - 1] + t[i]
               /\ \A i \in 0..Len(t) : g[i] \in Nat
  BY TotalPlaces
<1>3. PICK N : N = Len(s) /\ N \in Nat /\ Len(t) = N + 1
  OBVIOUS
<1> DEFINE fine == [i \in 0..N |-> IF f[i] = g[i] THEN TRUE ELSE FALSE]
<1>4. \A i \in 0..N : fine[i] = TRUE
  <2>1. fine[0] = TRUE
    BY <1>1, <1>2, <1>3
  <2>2. \A i \in 0..N : i < N /\ fine[i] = TRUE => fine[i + 1] = TRUE
    <3> SUFFICES ASSUME NEW i \in 0..N, i < N, f[i] = g[i] PROVE f[i + 1] = g[i + 1]
      BY <1>3
    <3>1. i + 1 \in 1..N /\ i + 1 \in 1..(N + 1) /\ (i + 1) - 1 = i
      BY <1>3
    <3>2. f[i + 1] = f[i] + s[i + 1]
      BY <1>1, <1>3, <3>1
    <3>3. g[i + 1] = g[i] + t[i + 1]
      BY <1>2, <1>3, <3>1
    <3> QED BY <1>3, <3>1, <3>2, <3>3
  <2> HIDE DEF fine
  <2> QED BY <1>3, <2>1, <2>2, Upward
<1>5. f[N] = g[N] /\ f[N] \in Nat
  BY <1>1, <1>3, <1>4
<1>6. g[N + 1] = g[N] + t[N + 1]
  <2>1. N + 1 \in 1..(N + 1) /\ (N + 1) - 1 = N
    BY <1>3
  <2> QED BY <1>2, <1>3, <2>1
<1> QED BY <1>1, <1>2, <1>3, <1>5, <1>6

(* A number less, wherever it was, is taken from the total. *)
LEMMA TotalShorter ==
  ASSUME NEW s \in Seq(Nat), NEW t \in Seq(Nat), Len(s) = Len(t) + 1,
         NEW r \in 1..Len(s),
         \A i \in 1..Len(t) : t[i] = IF i < r THEN s[i] ELSE s[i + 1]
  PROVE  TotalOf(t) = TotalOf(s) - s[r] /\ TotalOf(t) \in Nat
<1>1. PICK f : /\ TotalOf(s) = f[Len(s)]
               /\ f[0] = 0
               /\ \A i \in 1..Len(s) : f[i] = f[i - 1] + s[i]
               /\ \A i \in 0..Len(s) : f[i] \in Nat
  BY TotalPlaces
<1>2. PICK g : /\ TotalOf(t) = g[Len(t)]
               /\ g[0] = 0
               /\ \A i \in 1..Len(t) : g[i] = g[i - 1] + t[i]
               /\ \A i \in 0..Len(t) : g[i] \in Nat
  BY TotalPlaces
<1>3. PICK N : N = Len(t) /\ N \in Nat /\ Len(s) = N + 1 /\ r \in 1..(N + 1) /\ s[r] \in Nat
  <2>1. s[r] \in Nat
    BY ElementOfSeq
  <2>2. Len(t) \in Nat
    BY LenProperties
  <2> QED BY <2>1, <2>2
<1> DEFINE both(i) == g[i] = IF i < r THEN f[i] ELSE f[i + 1] - s[r]
           fine == [i \in 0..N |-> IF both(i) THEN TRUE ELSE FALSE]
<1>4. \A i \in 0..N : fine[i] = TRUE
  <2>1. fine[0] = TRUE
    <3>1. 0 < r /\ 0 \in 0..N
      BY <1>3
    <3> QED BY <1>1, <1>2, <3>1
  <2>2. \A i \in 0..N : i < N /\ fine[i] = TRUE => fine[i + 1] = TRUE
    <3> SUFFICES ASSUME NEW i \in 0..N, i < N, both(i) PROVE both(i + 1)
      BY <1>3
    <3>1. /\ i + 1 \in 1..N /\ i + 1 \in 1..(N + 1) /\ i + 2 \in 1..(N + 1)
          /\ (i + 1) - 1 = i /\ (i + 2) - 1 = i + 1 /\ (i + 1) + 1 = i + 2
          /\ i \in 0..(N + 1) /\ i + 1 \in 0..(N + 1)
      <4>1. N \in Nat /\ i \in Nat /\ i < N
        BY <1>3
      <4> HIDE DEF both, fine
      <4>2. i + 1 \in 1..N /\ i + 1 \in 1..(N + 1) /\ i + 2 \in 1..(N + 1)
        BY ONLY <4>1
      <4>3. (i + 1) - 1 = i /\ (i + 2) - 1 = i + 1 /\ (i + 1) + 1 = i + 2
        BY ONLY <4>1
      <4>4. i \in 0..(N + 1) /\ i + 1 \in 0..(N + 1)
        BY ONLY <4>1
      <4> QED BY <4>2, <4>3, <4>4
    <3>2. f[i + 1] = f[i] + s[i + 1] /\ f[i + 2] = f[i + 1] + s[i + 2]
      <4>1. \A j \in 1..(N + 1) : f[j] = f[j - 1] + s[j]
        BY <1>1, <1>3
      <4>2. f[i + 1] = f[(i + 1) - 1] + s[i + 1] /\ f[i + 2] = f[(i + 2) - 1] + s[i + 2]
        BY <3>1, <4>1
      <4> QED BY <3>1, <4>2
    <3>3. g[i + 1] = g[i] + IF i + 1 < r THEN s[i + 1] ELSE s[i + 2]
      <4>1. g[i + 1] = g[i] + t[i + 1]
        BY <1>2, <1>3, <3>1
      <4>2. t[i + 1] = IF i + 1 < r THEN s[i + 1] ELSE s[i + 2]
        BY <1>3, <3>1
      <4> QED BY <4>1, <4>2
    <3>4. f[i] \in Nat /\ f[i + 1] \in Nat /\ s[i + 1] \in Nat /\ s[i + 2] \in Nat
      <4>1. \A j \in 0..(N + 1) : f[j] \in Nat
        BY <1>1, <1>3
      <4>2. \A j \in 1..(N + 1) : s[j] \in Nat
        BY <1>3, ElementOfSeq
      <4> QED BY <3>1, <4>1, <4>2
    <3>8. PICK x, y, p, q, z : x = f[i] /\ y = f[i + 1] /\ p = s[i + 1] /\ q = s[i + 2] /\ z = f[i + 2]
      OBVIOUS
    <3>9. /\ x \in Nat /\ y = x + p /\ z = y + q /\ p \in Nat /\ q \in Nat /\ s[r] \in Nat
          /\ g[i] = IF i < r THEN x ELSE y - s[r]
          /\ g[i + 1] = g[i] + IF i + 1 < r THEN p ELSE q
          /\ i \in Nat /\ r \in Nat /\ (i + 1 = r => p = s[r])
      <4>1. x \in Nat /\ y = x + p /\ z = y + q /\ p \in Nat /\ q \in Nat
        BY <3>2, <3>4, <3>8
      <4>2. g[i] = IF i < r THEN x ELSE y - s[r]
        BY <3>8
      <4>3. g[i + 1] = g[i] + IF i + 1 < r THEN p ELSE q
        BY <3>3, <3>8
      <4>4. i \in Nat /\ r \in Nat /\ s[r] \in Nat
        BY <1>3
      <4> QED BY <3>8, <4>1, <4>2, <4>3, <4>4
    <3>10. g[i + 1] = IF i + 1 < r THEN y ELSE z - s[r]
      <4>1. CASE i + 1 < r
        BY <3>9, <4>1
      <4>2. CASE i + 1 = r
        <5>1. i < r /\ ~(i + 1 < r) /\ p = s[r]
          BY <3>9, <4>2
        <5>2. g[i] = x /\ g[i + 1] = g[i] + q
          BY <3>9, <5>1
        <5>3. z - p = x + q
          BY <3>9
        <5> QED BY <5>1, <5>2, <5>3
      <4>3. CASE i + 1 > r
        BY <3>9, <4>3
      <4> QED BY <3>9, <4>1, <4>2, <4>3
    <3> QED BY <3>1, <3>8, <3>10
  <2> HIDE DEF fine
  <2> QED BY <1>3, <2>1, <2>2, Upward
<1>5. both(N)
  <2>1. N \in 0..N
    BY <1>3
  <2>2. fine[N] = TRUE /\ fine[N] = IF both(N) THEN TRUE ELSE FALSE
    BY <1>4, <2>1
  <2> QED BY <2>2
<1>6. f[N + 1] = f[N] + s[N + 1] /\ f[N] \in Nat /\ s[N + 1] \in Nat
  <2>1. N + 1 \in 1..(N + 1) /\ (N + 1) - 1 = N /\ N \in 0..(N + 1)
    BY <1>3
  <2>2. f[N + 1] = f[(N + 1) - 1] + s[N + 1] /\ f[N] \in Nat
    BY <1>1, <1>3, <2>1
  <2>3. s[N + 1] \in Nat
    BY <1>3, <2>1, ElementOfSeq
  <2> QED BY <2>1, <2>2, <2>3
<1>7. g[N] = f[N + 1] - s[r]
  <2>1. CASE N < r
    <3>1. r = N + 1
      BY <1>3, <2>1
    <3> QED BY <1>5, <1>6, <2>1, <3>1
  <2>2. CASE ~(N < r)
    BY <1>5, <2>2
  <2> QED BY <2>1, <2>2
<1>8. N \in 0..N
  BY <1>3
<1> QED BY <1>1, <1>2, <1>3, <1>7, <1>8

-----------------------------------------------------------------------------
(* Lists of references, in their order. *)

Ref == [item : Nat, frame : Nat]

Listed(list, refs) == list \in Seq(Ref) /\ Lists(list, refs)

(* The places of a list. *)
LEMMA ListPlaces ==
  ASSUME NEW list, NEW refs, Listed(list, refs)
  PROVE  /\ Len(list) \in Nat /\ DOMAIN list = 1..Len(list)
         /\ \A i \in 1..Len(list) : list[i] \in refs /\ list[i] \in Ref
         /\ \A r \in refs : r \in Ref /\ \E i \in 1..Len(list) : list[i] = r
         /\ \A i, j \in 1..Len(list) : i < j => InOrder(list[i], list[j])
         /\ ToSet(list) = refs
<1>1. Len(list) \in Nat /\ DOMAIN list = 1..Len(list) /\ \A i \in 1..Len(list) : list[i] \in Ref
  BY ElementOfSeq, LenProperties DEF Listed
<1> QED BY <1>1 DEF Listed, Lists, ToSet

(* No reference comes before itself, or has two places in a list. *)
LEMMA OrderIrreflexive ==
  ASSUME NEW r \in Ref
  PROVE  ~InOrder(r, r)
BY DEF InOrder, Ref

(* Nothing has two places in a list. *)
LEMMA ListOnce ==
  ASSUME NEW list, NEW refs, Listed(list, refs)
  PROVE  \A i, j \in 1..Len(list) : list[i] = list[j] => i = j
<1> SUFFICES ASSUME NEW i \in 1..Len(list), NEW j \in 1..Len(list), list[i] = list[j], i # j
             PROVE  FALSE
  OBVIOUS
<1>1. i < j \/ j < i
  BY ListPlaces
<1>2. InOrder(list[i], list[i]) /\ list[i] \in Ref
  BY <1>1, ListPlaces
<1> QED BY <1>2, OrderIrreflexive

(* Nothing is a list of nothing. *)
LEMMA EmptyListed == Listed(<<>>, {})
BY DEF Listed, Lists, ToSet

(* A list grows by what comes after all it has. *)
LEMMA ListAppended ==
  ASSUME NEW list, NEW refs, Listed(list, refs),
         NEW r \in Ref, \A p \in refs : InOrder(p, r)
  PROVE  Listed(Append(list, r), refs \cup {r})
<1> DEFINE longer == Append(list, r)
<1>1. PICK N : /\ N = Len(list) /\ N \in Nat
               /\ \A i \in 1..N : list[i] \in refs
               /\ \A p \in refs : \E i \in 1..N : list[i] = p
               /\ \A i, j \in 1..N : i < j => InOrder(list[i], list[j])
  BY ListPlaces
<1>2. list \in Seq(Ref)
  BY DEF Listed
<1>3. /\ longer \in Seq(Ref) /\ Len(longer) = N + 1
      /\ \A i \in 1..N : longer[i] = list[i]
      /\ longer[N + 1] = r
  BY <1>1, <1>2
<1>4. DOMAIN longer = 1..(N + 1)
  BY <1>3, LenProperties
<1> HIDE DEF longer
<1>5. ToSet(longer) = refs \cup {r}
  <2>1. ASSUME NEW x \in ToSet(longer) PROVE x \in refs \cup {r}
    <3>1. PICK i \in 1..(N + 1) : x = longer[i]
      BY <1>4 DEF ToSet
    <3>2. i \in 1..N \/ i = N + 1
      BY <1>1
    <3> QED BY <1>1, <1>3, <3>1, <3>2
  <2>2. ASSUME NEW p \in refs PROVE p \in ToSet(longer)
    <3>1. PICK i \in 1..N : list[i] = p
      BY <1>1
    <3>2. i \in 1..(N + 1) /\ longer[i] = p
      BY <1>1, <1>3, <3>1
    <3> QED BY <1>4, <3>2 DEF ToSet
  <2>3. r \in ToSet(longer)
    <3>1. N + 1 \in 1..(N + 1)
      BY <1>1
    <3> QED BY <1>3, <1>4, <3>1 DEF ToSet
  <2> QED BY <2>1, <2>2, <2>3
<1>6. ASSUME NEW i \in 1..(N + 1), NEW j \in 1..(N + 1), i < j
      PROVE  InOrder(longer[i], longer[j])
  <2>1. i \in 1..N /\ (j \in 1..N \/ j = N + 1)
    BY <1>1, <1>6
  <2> QED BY <1>1, <1>3, <1>6, <2>1
<1>7. Lists(longer, refs \cup {r})
  BY <1>4, <1>5, <1>6 DEF Lists
<1> QED BY <1>3, <1>7 DEF Listed, longer

(* Two lists make one, if all of the first comes before all of the second. *)
LEMMA ListsJoined ==
  ASSUME NEW a, NEW b, NEW A, NEW B, Listed(a, A), Listed(b, B),
         \A p \in A, q \in B : InOrder(p, q)
  PROVE  Listed(a \o b, A \cup B)
<1> DEFINE both == a \o b
<1>1. PICK M, N : /\ M = Len(a) /\ M \in Nat /\ N = Len(b) /\ N \in Nat
  BY ListPlaces
<1>2. a \in Seq(Ref) /\ b \in Seq(Ref)
  BY DEF Listed
<1>3. /\ both \in Seq(Ref) /\ Len(both) = M + N
      /\ \A i \in 1..(M + N) : both[i] = IF i <= M THEN a[i] ELSE b[i - M]
  BY <1>1, <1>2, ConcatProperties
<1>4. DOMAIN both = 1..(M + N)
  BY <1>3, LenProperties
<1>5. /\ \A i \in 1..M : a[i] \in A
      /\ \A p \in A : \E i \in 1..M : a[i] = p
      /\ \A i, j \in 1..M : i < j => InOrder(a[i], a[j])
  BY <1>1, ListPlaces
<1>6. /\ \A i \in 1..N : b[i] \in B
      /\ \A p \in B : \E i \in 1..N : b[i] = p
      /\ \A i, j \in 1..N : i < j => InOrder(b[i], b[j])
  BY <1>1, ListPlaces
<1> HIDE DEF both
<1>7. ASSUME NEW i \in 1..(M + N)
      PROVE  \/ i \in 1..M /\ both[i] = a[i]
             \/ i > M /\ i - M \in 1..N /\ both[i] = b[i - M]
  <2>1. i <= M \/ i > M
    BY <1>1
  <2>2. both[i] = IF i <= M THEN a[i] ELSE b[i - M]
    BY <1>3
  <2> QED BY <1>1, <2>1, <2>2
<1>8. ToSet(both) = A \cup B
  <2>1. ASSUME NEW x \in ToSet(both) PROVE x \in A \cup B
    <3>1. PICK i \in 1..(M + N) : x = both[i]
      BY <1>4 DEF ToSet
    <3> QED BY <1>5, <1>6, <1>7, <3>1
  <2>2. ASSUME NEW p \in A PROVE p \in ToSet(both)
    <3>1. PICK i \in 1..M : a[i] = p
      BY <1>5
    <3>2. i \in 1..(M + N) /\ i <= M
      BY <1>1
    <3>3. both[i] = p
      BY <1>3, <3>1, <3>2
    <3> QED BY <1>4, <3>2, <3>3 DEF ToSet
  <2>3. ASSUME NEW p \in B PROVE p \in ToSet(both)
    <3>1. PICK i \in 1..N : b[i] = p
      BY <1>6
    <3>2. M + i \in 1..(M + N) /\ ~(M + i <= M) /\ (M + i) - M = i
      BY <1>1
    <3>3. both[M + i] = p
      BY <1>3, <3>1, <3>2
    <3> QED BY <1>4, <3>2, <3>3 DEF ToSet
  <2> QED BY <2>1, <2>2, <2>3
<1>9. ASSUME NEW i \in 1..(M + N), NEW j \in 1..(M + N), i < j
      PROVE  InOrder(both[i], both[j])
  <2>1. CASE i > M
    <3>1. j > M /\ i - M < j - M
      BY <1>1, <1>9, <2>1
    <3>2. i - M \in 1..N /\ both[i] = b[i - M]
      BY <1>1, <1>7, <2>1
    <3>3. j - M \in 1..N /\ both[j] = b[j - M]
      BY <1>1, <1>7, <3>1
    <3> QED BY <1>6, <3>1, <3>2, <3>3
  <2>2. CASE ~(i > M) /\ j > M
    <3>1. i \in 1..M /\ both[i] = a[i]
      BY <1>7, <2>2
    <3>2. j - M \in 1..N /\ both[j] = b[j - M]
      BY <1>1, <1>7, <2>2
    <3> QED BY <1>5, <1>6, <3>1, <3>2
  <2>3. CASE ~(i > M) /\ ~(j > M)
    <3>1. i \in 1..M /\ both[i] = a[i] /\ j \in 1..M /\ both[j] = a[j]
      BY <1>7, <2>3
    <3> QED BY <1>5, <1>9, <3>1
  <2> QED BY <2>1, <2>2, <2>3
<1>10. Lists(both, A \cup B)
  BY <1>4, <1>8, <1>9 DEF Lists
<1> QED BY <1>3, <1>10 DEF Listed, both

(* Those of the first n references that are in a set. *)
FirstOf(refs, n) == {refs[i] : i \in 1..n}

(* What a search through a list finds is the list of what it looks for. *)
LEMMA ThoseListed ==
  ASSUME NEW refs, NEW all, Listed(refs, all), NEW n \in 0..Len(refs), NEW set
  PROVE  Listed(Those(refs, n, set), FirstOf(refs, n) \cap set)
<1> DEFINE those[i \in 0..n] == IF i = 0 THEN <<>>
                                ELSE IF refs[i] \in set THEN Append(those[i - 1], refs[i])
                                ELSE those[i - 1]
<1>0. n \in Nat /\ Len(refs) \in Nat
  BY ListPlaces
<1>1. Those(refs, n, set) = those[n]
  BY DEF Those
<1>2. those = [i \in 0..n |-> IF i = 0 THEN <<>>
                              ELSE IF refs[i] \in set THEN Append(those[i - 1], refs[i])
                              ELSE those[i - 1]]
  <2>1. PICK what, data : what = "those" /\ data = [refs |-> refs, set |-> set]
    OBVIOUS
  <2>2. PICK f : Growing(what, data, <<>>, 0, 0 + n, f)
    BY <1>0, GrowingExists
  <2>3. f = [i \in 0..n |-> IF i = 0 THEN <<>>
                            ELSE IF refs[i] \in set THEN Append(f[i - 1], refs[i])
                            ELSE f[i - 1]]
    <3>1. data.refs = refs /\ data.set = set /\ 0 + n = n
      BY <1>0, <2>1
    <3>2. \A had, i : Grown(what, data, had, i) = IF refs[i] \in set THEN Append(had, refs[i]) ELSE had
      BY <2>1, <3>1 DEF Grown
    <3> QED BY <2>2, <3>1, <3>2 DEF Growing
  <2>4. \E g : g = [i \in 0..n |-> IF i = 0 THEN <<>>
                                   ELSE IF refs[i] \in set THEN Append(g[i - 1], refs[i])
                                   ELSE g[i - 1]]
    BY <2>3
  <2> QED BY <2>4, Zenon
<1> HIDE DEF those
<1>3. /\ those[0] = <<>>
      /\ \A i \in 1..n : those[i] = IF refs[i] \in set THEN Append(those[i - 1], refs[i])
                                    ELSE those[i - 1]
  <2>1. 0 \in 0..n /\ \A i \in 1..n : i \in 0..n /\ i # 0
    BY <1>0
  <2> QED BY <1>2, <2>1
<1> DEFINE good(i) == Listed(those[i], FirstOf(refs, i) \cap set)
           fine == [i \in 0..n |-> IF good(i) THEN TRUE ELSE FALSE]
<1>4. \A i \in 0..n : fine[i] = TRUE
  <2>1. fine[0] = TRUE
    <3>1. FirstOf(refs, 0) = {} /\ 0 \in 0..n
      BY <1>0 DEF FirstOf
    <3> QED BY <1>3, <3>1, EmptyListed
  <2>2. \A i \in 0..n : i < n /\ fine[i] = TRUE => fine[i + 1] = TRUE
    <3> SUFFICES ASSUME NEW i \in 0..n, i < n, good(i) PROVE good(i + 1)
      <4>1. \A i \in 0..n : i < n => i + 1 \in 0..n
        BY <1>0
      <4> HIDE DEF good
      <4> QED BY <4>1
    <3>1. i + 1 \in 1..n /\ (i + 1) - 1 = i /\ i + 1 \in 1..Len(refs)
      BY <1>0
    <3>2. PICK r : r = refs[i + 1] /\ r \in Ref
      BY <3>1, ListPlaces
    <3>3. FirstOf(refs, i + 1) = FirstOf(refs, i) \cup {r}
      <4>1. 1..(i + 1) = (1..i) \cup {i + 1}
        BY <1>0
      <4> QED BY <3>2, <4>1 DEF FirstOf
    <3>4. \A p \in FirstOf(refs, i) : InOrder(p, r)
      <4> SUFFICES ASSUME NEW j \in 1..i PROVE InOrder(refs[j], r)
        BY DEF FirstOf
      <4>1. j \in 1..Len(refs) /\ j < i + 1
        BY <1>0, <3>1
      <4> QED BY <3>1, <3>2, <4>1, ListPlaces
    <3>5. those[i + 1] = IF r \in set THEN Append(those[i], r) ELSE those[i]
      BY <1>3, <3>1, <3>2
    <3>6. CASE r \in set
      <4>1. Listed(Append(those[i], r), (FirstOf(refs, i) \cap set) \cup {r})
        BY <3>2, <3>4, ListAppended
      <4>2. (FirstOf(refs, i) \cap set) \cup {r} = FirstOf(refs, i + 1) \cap set
        BY <3>3, <3>6
      <4> QED BY <3>5, <3>6, <4>1, <4>2
    <3>7. CASE r \notin set
      <4>1. FirstOf(refs, i) \cap set = FirstOf(refs, i + 1) \cap set
        BY <3>3, <3>7
      <4> QED BY <3>5, <3>7, <4>1
    <3> QED BY <3>6, <3>7
  <2> HIDE DEF fine
  <2> QED BY <1>0, <2>1, <2>2, Upward
<1>5. good(n)
  <2>1. n \in 0..n
    BY <1>0
  <2>2. fine[n] = TRUE /\ fine[n] = IF good(n) THEN TRUE ELSE FALSE
    BY <1>4, <2>1
  <2> QED BY <2>2
<1> QED BY <1>1, <1>5

(* Those among the first n that r is like, once it is among them itself. *)
MetBy(refs, alike, n, r) ==
  {q \in FirstOf(refs, n) : r \in FirstOf(refs, n) /\ q # r /\ <<q, r>> \in alike}

Symmetric(alike, all) == \A p, q \in all : <<p, q>> \in alike => <<q, p>> \in alike

AllMet(refs, all, alike, n, had) == \A r \in all : Listed(had[r], MetBy(refs, alike, n, r))

(* One more reference is met: what it is like lists it, and it lists them. *)
LEMMA MeetsOne ==
  ASSUME NEW refs, NEW all, Listed(refs, all), NEW alike, Symmetric(alike, all),
         NEW n \in 0..Len(refs), n < Len(refs),
         NEW had, AllMet(refs, all, alike, n, had),
         NEW q, q = refs[n + 1],
         NEW earlier, earlier = Those(refs, n, {p \in ToSet(refs) : <<p, q>> \in alike}),
         NEW r \in all
  PROVE  Listed(IF r = q THEN earlier ELSE IF r \in ToSet(earlier) THEN Append(had[r], q) ELSE had[r],
                MetBy(refs, alike, n + 1, r))
<1> DEFINE first == FirstOf(refs, n)
           like  == {p \in all : <<p, q>> \in alike}
<1>1. /\ n \in Nat /\ Len(refs) \in Nat /\ n + 1 \in 1..Len(refs)
      /\ q \in all /\ q \in Ref /\ ToSet(refs) = all
      /\ \A i, j \in 1..Len(refs) : i < j => InOrder(refs[i], refs[j])
  <2>1. n \in Nat /\ Len(refs) \in Nat /\ n + 1 \in 1..Len(refs)
    BY ListPlaces
  <2> QED BY <2>1, ListPlaces
<1>2. Listed(earlier, first \cap like)
  BY <1>1, ThoseListed
<1>3. ToSet(earlier) = first \cap like
  BY <1>2, ListPlaces
<1>4. FirstOf(refs, n + 1) = first \cup {q}
  <2>1. 1..(n + 1) = (1..n) \cup {n + 1}
    BY <1>1
  <2> QED BY <2>1 DEF FirstOf
<1>5. ASSUME NEW p \in first PROVE InOrder(p, q) /\ p # q /\ p \in all
  <2>1. PICK i \in 1..n : p = refs[i]
    BY DEF FirstOf
  <2>2. i \in 1..Len(refs) /\ i < n + 1
    BY <1>1
  <2>3. InOrder(p, q) /\ p \in all
    BY <1>1, <2>1, <2>2, ListPlaces
  <2> QED BY <1>1, <2>3, OrderIrreflexive
<1> HIDE DEF first
<1>6. MetBy(refs, alike, n, r) = {p \in first : r \in first /\ p # r /\ <<p, r>> \in alike}
  BY DEF MetBy, first
<1>7. MetBy(refs, alike, n + 1, r) =
        {p \in first \cup {q} : r \in first \cup {q} /\ p # r /\ <<p, r>> \in alike}
  BY <1>4 DEF MetBy
<1>8. CASE r = q
  <2>1. MetBy(refs, alike, n + 1, r) = first \cap like
    BY <1>5, <1>7, <1>8
  <2> QED BY <1>2, <1>8, <2>1
<1>9. CASE r # q /\ r \in first \cap like
  <2>1. MetBy(refs, alike, n + 1, r) = MetBy(refs, alike, n, r) \cup {q}
    <3>1. <<q, r>> \in alike
      BY <1>1, <1>9 DEF Symmetric
    <3> QED BY <1>6, <1>7, <1>9, <3>1
  <2>2. \A p \in MetBy(refs, alike, n, r) : InOrder(p, q)
    BY <1>5, <1>6
  <2>3. Listed(Append(had[r], q), MetBy(refs, alike, n, r) \cup {q})
    BY <1>1, <2>2, ListAppended DEF AllMet
  <2> QED BY <1>3, <1>9, <2>1, <2>3
<1>10. CASE r # q /\ r \notin first \cap like
  <2>1. MetBy(refs, alike, n + 1, r) = MetBy(refs, alike, n, r)
    <3>1. r \in first => <<q, r>> \notin alike
      BY <1>1, <1>10 DEF Symmetric
    <3> QED BY <1>6, <1>7, <1>10, <3>1
  <2> QED BY <1>3, <1>10, <2>1 DEF AllMet
<1> QED BY <1>8, <1>9, <1>10

(* refresh_duplicate_evidence()'s walk: in the end every reference lists     *)
(* those it is like, itself left out, in order.                              *)
LEMMA PairsListed ==
  ASSUME NEW refs, NEW all, Listed(refs, all), NEW alike, Symmetric(alike, all),
         NEW r \in all
  PROVE  Listed(Pairs(refs, alike)[r], {q \in all \ {r} : <<q, r>> \in alike})
<1> DEFINE N == Len(refs)
           Earlier(n) == Those(refs, n - 1, {p \in ToSet(refs) : <<p, refs[n]>> \in alike})
           met[n \in 0..Len(refs)] ==
             IF n = 0 THEN [x \in ToSet(refs) |-> <<>>]
             ELSE [x \in ToSet(refs) |->
                    IF x = refs[n] THEN Earlier(n)
                    ELSE IF x \in ToSet(Earlier(n)) THEN Append(met[n - 1][x], refs[n])
                    ELSE met[n - 1][x]]
<1>1. N \in Nat /\ ToSet(refs) = all
  BY ListPlaces
<1>2. Pairs(refs, alike) = met[N]
  BY DEF Pairs
<1>3. met = [n \in 0..Len(refs) |->
               IF n = 0 THEN [x \in ToSet(refs) |-> <<>>]
               ELSE [x \in ToSet(refs) |->
                      IF x = refs[n] THEN Earlier(n)
                      ELSE IF x \in ToSet(Earlier(n)) THEN Append(met[n - 1][x], refs[n])
                      ELSE met[n - 1][x]]]
  <2> DEFINE rows == [n \in 1..N |-> Earlier(n)]
             none == [x \in ToSet(refs) |-> <<>>]
  <2>1. PICK what, data : what = "met" /\ data = [refs |-> refs, earlier |-> rows]
    OBVIOUS
  <2>2. PICK f : Growing(what, data, none, 0, 0 + N, f)
    BY <1>1, GrowingExists
  <2>3. data.refs = refs /\ data.earlier = rows /\ 0 + N = N
    BY <1>1, <2>1
  <2> HIDE DEF none, Earlier
  <2>4. ASSUME NEW n \in 0..N, n # 0
        PROVE  Grown(what, data, f[n - 1], n) =
                 [x \in ToSet(refs) |->
                    IF x = refs[n] THEN Earlier(n)
                    ELSE IF x \in ToSet(Earlier(n)) THEN Append(f[n - 1][x], refs[n])
                    ELSE f[n - 1][x]]
    <3>1. data.earlier[n] = Earlier(n)
      <4>1. n \in 1..N
        BY <1>1, <2>4
      <4> QED BY <2>3, <4>1
    <3>2. data.refs = refs
      BY <2>3
    <3> HIDE DEF rows
    <3> QED BY <2>1, <3>1, <3>2 DEF Grown
  <2>5. f = [n \in 0..N |-> IF n = 0 THEN none ELSE Grown(what, data, f[n - 1], n)]
    BY <2>2, <2>3 DEF Growing
  <2>6. f = [n \in 0..N |->
               IF n = 0 THEN none
               ELSE [x \in ToSet(refs) |->
                      IF x = refs[n] THEN Earlier(n)
                      ELSE IF x \in ToSet(Earlier(n)) THEN Append(f[n - 1][x], refs[n])
                      ELSE f[n - 1][x]]]
    <3> HIDE DEF rows, N
    <3> QED BY <2>4, <2>5
  <2>7. \E g : g = [n \in 0..Len(refs) |->
               IF n = 0 THEN [x \in ToSet(refs) |-> <<>>]
               ELSE [x \in ToSet(refs) |->
                      IF x = refs[n] THEN Earlier(n)
                      ELSE IF x \in ToSet(Earlier(n)) THEN Append(g[n - 1][x], refs[n])
                      ELSE g[n - 1][x]]]
    BY <2>6 DEF none
  <2> USE DEF Earlier
  <2> QED BY <2>7, Zenon
<1> HIDE DEF met
<1>4. met[0] = [x \in all |-> <<>>]
  <2>1. 0 \in 0..N
    BY <1>1
  <2> QED BY <1>1, <1>3, <2>1
<1>5. ASSUME NEW n \in 1..N, NEW x \in all
      PROVE  met[n][x] = IF x = refs[n] THEN Earlier(n)
                         ELSE IF x \in ToSet(Earlier(n)) THEN Append(met[n - 1][x], refs[n])
                         ELSE met[n - 1][x]
  <2>1. n \in 0..N /\ n # 0
    BY <1>1
  <2> HIDE DEF Earlier
  <2>2. met[n] = [y \in ToSet(refs) |->
                    IF y = refs[n] THEN Earlier(n)
                    ELSE IF y \in ToSet(Earlier(n)) THEN Append(met[n - 1][y], refs[n])
                    ELSE met[n - 1][y]]
    BY <1>3, <2>1
  <2> QED BY <1>1, <2>2
<1> DEFINE good(n) == \A x \in all : Listed(met[n][x], MetBy(refs, alike, n, x))
           fine == [n \in 0..N |-> IF good(n) THEN TRUE ELSE FALSE]
<1>6. good(0)
  <2>1. FirstOf(refs, 0) = {}
    BY DEF FirstOf
  <2>2. \A x \in all : MetBy(refs, alike, 0, x) = {} /\ met[0][x] = <<>>
    BY <1>4, <2>1 DEF MetBy
  <2> QED BY <2>2, EmptyListed
<1>7. ASSUME NEW n \in 0..N, n < N, good(n) PROVE good(n + 1)
  <2> SUFFICES ASSUME NEW x \in all
               PROVE  Listed(met[n + 1][x], MetBy(refs, alike, n + 1, x))
    OBVIOUS
  <2>1. n + 1 \in 1..N /\ (n + 1) - 1 = n
    BY <1>1, <1>7
  <2>2. PICK q : q = refs[n + 1]
    OBVIOUS
  <2>3. PICK earlier : earlier = Those(refs, n, {p \in ToSet(refs) : <<p, q>> \in alike})
    OBVIOUS
  <2>4. Earlier(n + 1) = earlier
    BY <2>1, <2>2, <2>3
  <2> HIDE DEF Earlier
  <2>5. met[n + 1][x] = IF x = q THEN earlier ELSE IF x \in ToSet(earlier) THEN Append(met[n][x], q)
                        ELSE met[n][x]
    BY <1>5, <2>1, <2>2, <2>4
  <2>6. PICK had : had = met[n] /\ AllMet(refs, all, alike, n, had)
    BY <1>7 DEF AllMet
  <2> HIDE DEF good, N, met
  <2>7. n \in 0..Len(refs) /\ n < Len(refs)
    BY <1>7 DEF N
  <2>8. PICK now : /\ now = met[n + 1][x]
                   /\ now = IF x = q THEN earlier ELSE IF x \in ToSet(earlier) THEN Append(had[x], q)
                            ELSE had[x]
    BY <2>5, <2>6
  <2>9. Listed(IF x = q THEN earlier ELSE IF x \in ToSet(earlier) THEN Append(had[x], q) ELSE had[x],
               MetBy(refs, alike, n + 1, x))
    BY <2>2, <2>3, <2>6, <2>7, MeetsOne
  <2> QED BY <2>8, <2>9
<1>8. good(N)
  <2> HIDE DEF good
  <2>1. fine[0] = TRUE
    <3>1. 0 \in 0..N
      BY <1>1
    <3> QED BY <1>6, <3>1
  <2>2. \A n \in 0..N : n < N /\ fine[n] = TRUE => fine[n + 1] = TRUE
    <3>1. \A n \in 0..N : n < N => n + 1 \in 0..N
      BY <1>1
    <3> HIDE DEF N
    <3> QED BY <1>7, <3>1
  <2>3. \A n \in 0..N : fine[n] = TRUE
    <3> HIDE DEF fine
    <3> QED BY <1>1, <2>1, <2>2, Upward
  <2>4. N \in 0..N
    BY <1>1
  <2>5. fine[N] = TRUE /\ fine[N] = IF good(N) THEN TRUE ELSE FALSE
    BY <2>3, <2>4
  <2> QED BY <2>5
<1>9. FirstOf(refs, N) = all
  <2>1. all = {refs[i] : i \in 1..N}
    BY ListPlaces
  <2> QED BY <2>1 DEF FirstOf
<1>10. MetBy(refs, alike, N, r) = {q \in all \ {r} : <<q, r>> \in alike}
  BY <1>9 DEF MetBy
<1> QED BY <1>2, <1>8, <1>10

-----------------------------------------------------------------------------
(* The references of the workspace. *)

IsItem(item) ==
  /\ item = [id |-> item.id, raw |-> item.raw, frames |-> item.frames,
             duplicateOf |-> item.duplicateOf,
             sameFrames |-> item.sameFrames, samePayloads |-> item.samePayloads]
  /\ item.id \in Nat \ {0}
  /\ item.raw \in Seq(Bytes) /\ item.frames \in Seq(Frames)

(* The items of a workspace: the later one was added, the larger its id.     *)
Shelf(items) ==
  /\ \E S : items \in Seq(S)
  /\ \A i \in 1..Len(items) : IsItem(items[i])
  /\ \A i, j \in 1..Len(items) : i < j => items[i].id < items[j].id

(* The places of a workspace, and of the frames of an item. *)
LEMMA ShelfPlaces ==
  ASSUME NEW items, Shelf(items)
  PROVE  /\ Len(items) \in Nat /\ DOMAIN items = 1..Len(items)
         /\ \A i \in 1..Len(items) :
              /\ items[i].id \in Nat \ {0}
              /\ items[i].raw \in Seq(Bytes) /\ items[i].frames \in Seq(Frames)
              /\ Len(items[i].frames) \in Nat
              /\ DOMAIN items[i].frames = 1..Len(items[i].frames)
<1>1. Len(items) \in Nat /\ DOMAIN items = 1..Len(items)
  BY LenProperties DEF Shelf
<1>2. ASSUME NEW i \in 1..Len(items)
      PROVE  /\ items[i].id \in Nat \ {0}
             /\ items[i].raw \in Seq(Bytes) /\ items[i].frames \in Seq(Frames)
             /\ Len(items[i].frames) \in Nat
             /\ DOMAIN items[i].frames = 1..Len(items[i].frames)
  <2>1. /\ items[i].id \in Nat \ {0}
        /\ items[i].raw \in Seq(Bytes) /\ items[i].frames \in Seq(Frames)
    BY DEF Shelf, IsItem
  <2> QED BY <2>1, LenProperties
<1> QED BY <1>1, <1>2

(* What a frame of an item is called. *)
RowOf(item)  == [k \in DOMAIN item.frames |-> [item |-> item.id, frame |-> k]]
NamesOf(item) == {[item |-> item.id, frame |-> k] : k \in DOMAIN item.frames}

(* The frames of an item, by name, are a list. *)
LEMMA RowListed ==
  ASSUME NEW items, Shelf(items), NEW i \in 1..Len(items)
  PROVE  Listed(RowOf(items[i]), NamesOf(items[i]))
<1>1. PICK item, id, N : /\ item = items[i] /\ id = item.id /\ N = Len(item.frames)
                         /\ id \in Nat /\ N \in Nat /\ DOMAIN item.frames = 1..N
  BY ShelfPlaces
<1> DEFINE row == [k \in 1..N |-> [item |-> id, frame |-> k]]
<1>2. RowOf(item) = row
  BY <1>1 DEF RowOf
<1>3. \A k \in 1..N : /\ row[k] = [item |-> id, frame |-> k] /\ k \in Nat
                       /\ row[k] \in Ref /\ row[k].item = id /\ row[k].frame = k
  BY <1>1 DEF Ref
<1>4. row \in Seq(Ref) /\ DOMAIN row = 1..N
  <2>1. row \in [1..N -> Ref]
    BY <1>3
  <2> HIDE DEF row
  <2> QED BY <1>1, <2>1
<1> HIDE DEF row
<1>5. ToSet(row) = NamesOf(item)
  <2>1. NamesOf(item) = {[item |-> id, frame |-> k] : k \in 1..N}
    BY <1>1 DEF NamesOf
  <2>2. ASSUME NEW x \in ToSet(row) PROVE x \in NamesOf(item)
    BY <1>3, <1>4, <2>1 DEF ToSet
  <2>3. ASSUME NEW k \in 1..N PROVE [item |-> id, frame |-> k] \in ToSet(row)
    BY <1>3, <1>4 DEF ToSet
  <2> QED BY <2>1, <2>2, <2>3
<1>6. \A m, n \in 1..N : m < n => InOrder(row[m], row[n])
  <2> SUFFICES ASSUME NEW m \in 1..N, NEW n \in 1..N, m < n PROVE InOrder(row[m], row[n])
    OBVIOUS
  <2>1. row[m].item = row[n].item /\ row[m].frame < row[n].frame
    BY <1>3
  <2> QED BY <2>1 DEF InOrder
<1> QED BY <1>1, <1>2, <1>4, <1>5, <1>6 DEF Listed, Lists

(* A flattened sequence grows by one row after another. *)
HasRows(rows, N) == rows = [i \in 1..N |-> rows[i]]

Flattens(rows, N, flat) ==
  /\ FlattenSeq(rows) = flat[N]
  /\ flat[1] = rows[1]
  /\ \A i \in 2..N : flat[i] = flat[i - 1] \o rows[i]

LEMMA Flattened ==
  ASSUME NEW N \in Nat, N # 0, NEW rows, HasRows(rows, N)
  PROVE  \E flat : Flattens(rows, N, flat)
<1> DEFINE flatten[i \in 1..Len(rows)] == IF i = 1 THEN rows[i] ELSE flatten[i - 1] \o rows[i]
<1>1. DOMAIN rows = 1..N /\ Len(rows) = N
  BY DEF HasRows
<1>2. FlattenSeq(rows) = flatten[N]
  BY <1>1 DEF FlattenSeq
<1>3. flatten = [i \in 1..Len(rows) |-> IF i = 1 THEN rows[i] ELSE flatten[i - 1] \o rows[i]]
  <2>1. PICK what, M : what = "flatten" /\ M \in Nat /\ 1 + M = N
    <3>1. N - 1 \in Nat /\ 1 + (N - 1) = N
      OBVIOUS
    <3> QED BY <3>1
  <2>2. PICK f : Growing(what, rows, rows[1], 1, 1 + M, f)
    BY <2>1, GrowingExists
  <2>3. f = [i \in 1..Len(rows) |-> IF i = 1 THEN rows[i] ELSE f[i - 1] \o rows[i]]
    BY <1>1, <2>1, <2>2 DEF Growing, Grown
  <2>4. \E g : g = [i \in 1..Len(rows) |-> IF i = 1 THEN rows[i] ELSE g[i - 1] \o rows[i]]
    BY <2>3
  <2> QED BY <2>4, Zenon
<1> HIDE DEF flatten
<1>4. /\ flatten[1] = rows[1]
      /\ \A i \in 2..N : flatten[i] = flatten[i - 1] \o rows[i]
  <2>1. 1 \in 1..N /\ \A i \in 2..N : i \in 1..N /\ i # 1
    OBVIOUS
  <2> QED BY <1>1, <1>3, <2>1
<1> QED BY <1>2, <1>4 DEF Flattens

FirstNames(items, n) == UNION {NamesOf(items[i]) : i \in 1..n}

(* So are those of all items. *)
LEMMA ReferencesListed ==
  ASSUME NEW items, Shelf(items)
  PROVE  Listed(References(items), FramesIn(items))
<1> DEFINE N == Len(items)
           rows == [i \in DOMAIN items |-> RowOf(items[i])]
<1>1. N \in Nat /\ DOMAIN items = 1..N
  BY ShelfPlaces
<1>2. References(items) = FlattenSeq(rows)
  BY DEF References, RowOf
<1>3. FramesIn(items) = FirstNames(items, N)
  BY <1>1 DEF FramesIn, FirstNames, NamesOf
<1>4. rows = [i \in 1..N |-> RowOf(items[i])] /\ Len(rows) = N
  BY <1>1
<1> HIDE DEF rows
<1>5. CASE N = 0
  <2>1. rows = <<>>
    BY <1>4, <1>5
  <2>2. FlattenSeq(rows) = <<>>
    BY <1>4, <1>5, <2>1 DEF FlattenSeq
  <2>3. FirstNames(items, N) = {}
    BY <1>5 DEF FirstNames
  <2> QED BY <1>2, <1>3, <2>2, <2>3, EmptyListed
<1>6. CASE N # 0
  <2>1. PICK flatten : /\ FlattenSeq(rows) = flatten[N]
                       /\ flatten[1] = rows[1]
                       /\ \A i \in 2..N : flatten[i] = flatten[i - 1] \o rows[i]
    <3>1. HasRows(rows, N)
      BY <1>4 DEF HasRows
    <3>2. PICK flat : Flattens(rows, N, flat)
      <4> HIDE DEF N
      <4> QED BY <1>1, <1>6, <3>1, Flattened
    <3> QED BY <3>2 DEF Flattens
  <2> DEFINE good(i) == Listed(flatten[i], FirstNames(items, i))
             fine == [i \in 1..N |-> IF good(i) THEN TRUE ELSE FALSE]
  <2>2. good(1)
    <3>1. 1 \in 1..N
      BY <1>1, <1>6
    <3>2. FirstNames(items, 1) = NamesOf(items[1])
      BY DEF FirstNames
    <3>3. flatten[1] = RowOf(items[1])
      BY <1>4, <2>1, <3>1
    <3> QED BY <3>1, <3>2, <3>3, RowListed
  <2>3. ASSUME NEW i \in 1..N, i < N, good(i) PROVE good(i + 1)
    <3>1. i + 1 \in 2..N /\ i + 1 \in 1..N /\ (i + 1) - 1 = i
      BY <1>1, <2>3
    <3>2. flatten[i + 1] = flatten[i] \o RowOf(items[i + 1])
      BY <1>4, <2>1, <3>1
    <3>3. FirstNames(items, i + 1) = FirstNames(items, i) \cup NamesOf(items[i + 1])
      <4>1. 1..(i + 1) = (1..i) \cup {i + 1}
        BY <1>1
      <4> QED BY <4>1 DEF FirstNames
    <3>4. Listed(RowOf(items[i + 1]), NamesOf(items[i + 1]))
      BY <3>1, RowListed
    <3>5. \A p \in FirstNames(items, i), q \in NamesOf(items[i + 1]) : InOrder(p, q)
      <4> SUFFICES ASSUME NEW j \in 1..i, NEW p \in NamesOf(items[j]),
                          NEW q \in NamesOf(items[i + 1])
                   PROVE  InOrder(p, q)
        BY DEF FirstNames
      <4>1. j \in 1..N /\ j < i + 1
        BY <1>1
      <4>2. items[j].id < items[i + 1].id
        BY <3>1, <4>1 DEF Shelf
      <4>3. p.item = items[j].id /\ q.item = items[i + 1].id
        BY DEF NamesOf
      <4> QED BY <4>2, <4>3 DEF InOrder
    <3> QED BY <2>3, <3>2, <3>3, <3>4, <3>5, ListsJoined
  <2>4. good(N)
    <3> HIDE DEF good
    <3>1. fine[1] = TRUE
      <4>1. 1 \in 1..N
        BY <1>1, <1>6
      <4> QED BY <2>2, <4>1
    <3>2. \A i \in 1..N : i < N /\ fine[i] = TRUE => fine[i + 1] = TRUE
      <4>1. \A i \in 1..N : i < N => i + 1 \in 1..N
        BY <1>1
      <4> HIDE DEF N
      <4> QED BY <2>3, <4>1
    <3>3. \A i \in 1..N : fine[i] = TRUE
      <4> HIDE DEF fine
      <4> QED BY <1>1, <3>1, <3>2, Upward
    <3>4. N \in 1..N
      BY <1>1, <1>6
    <3>5. fine[N] = TRUE /\ fine[N] = IF good(N) THEN TRUE ELSE FALSE
      BY <3>3, <3>4
    <3> QED BY <3>5
  <2> QED BY <1>2, <1>3, <2>1, <2>4
<1> QED BY <1>5, <1>6

(* An item is found by its id, a frame by what it is called. *)
LEMMA ItemFound ==
  ASSUME NEW items, Shelf(items), NEW i \in 1..Len(items)
  PROVE  /\ items[i].id \in Ids(items) /\ Row(items, items[i].id) = i
         /\ Item(items, items[i].id) = items[i]
         /\ \A k : FrameOf(items, [item |-> items[i].id, frame |-> k]) = items[i].frames[k]
<1>1. DOMAIN items = 1..Len(items) /\ Len(items) \in Nat
  BY ShelfPlaces
<1>2. items[i].id \in Ids(items)
  BY <1>1 DEF Ids
<1>3. ASSUME NEW j \in 1..Len(items), items[j].id = items[i].id PROVE j = i
  <2>1. items[i].id \in Nat
    BY ShelfPlaces
  <2>2. ~(i < j) /\ ~(j < i)
    BY <1>3, <2>1 DEF Shelf
  <2> QED BY <1>1, <2>2
<1>4. Row(items, items[i].id) = i
  BY <1>1, <1>3 DEF Row
<1>5. Item(items, items[i].id) = items[i]
  BY <1>4 DEF Item
<1> QED BY <1>2, <1>4, <1>5 DEF FrameOf

-----------------------------------------------------------------------------
(* The evidence. *)

(* The same items, but for what they are marked with. *)
SameShelf(items, marked) ==
  /\ Len(marked) = Len(items)
  /\ \A i \in 1..Len(items) : /\ marked[i].id = items[i].id
                               /\ marked[i].raw = items[i].raw
                               /\ marked[i].frames = items[i].frames

Evident(items) ==
  [frames   |-> Pairs(References(items), Alike(items, SameFrame)),
   payloads |-> Pairs(References(items), Alike(items, SamePayload))]

(* Marking keeps the items, and puts what was found where it belongs. *)
LEMMA MarksPlaces ==
  ASSUME NEW items, Shelf(items)
  PROVE  /\ Shelf(WithEvidence(items)) /\ SameShelf(items, WithEvidence(items))
         /\ \A i \in 1..Len(items) :
              LET marked == WithEvidence(items)[i] IN
              /\ marked.duplicateOf = FileDuplicateOf(items, i)
              /\ \A k \in DOMAIN items[i].frames :
                   LET r == [item |-> items[i].id, frame |-> k] IN
                   /\ marked.sameFrames[k] = Evident(items).frames[r]
                   /\ marked.samePayloads[k] = Evident(items).payloads[r]
<1> DEFINE new == WithEvidence(items)
           N == Len(items)
           found == Evident(items)
           Of(pairs, i) == [k \in DOMAIN items[i].frames |-> pairs[[item |-> items[i].id, frame |-> k]]]
           mark(i) == [id |-> items[i].id, raw |-> items[i].raw, frames |-> items[i].frames,
                       duplicateOf |-> FileDuplicateOf(items, i),
                       sameFrames |-> Of(found.frames, i), samePayloads |-> Of(found.payloads, i)]
<1>1. N \in Nat /\ DOMAIN items = 1..N
  BY ShelfPlaces
<1>2. new = [i \in DOMAIN items |->
              [items[i] EXCEPT !.duplicateOf = FileDuplicateOf(items, i),
                               !.sameFrames = Of(found.frames, i),
                               !.samePayloads = Of(found.payloads, i)]]
  BY DEF WithEvidence, Evident
<1> HIDE DEF new, found, Of
<1>3. ASSUME NEW i \in 1..N PROVE new[i] = mark(i)
  <2>1. IsItem(items[i])
    BY DEF Shelf
  <2>2. PICK d, f, p : d = FileDuplicateOf(items, i) /\ f = Of(found.frames, i) /\ p = Of(found.payloads, i)
    OBVIOUS
  <2>3. new[i] = [items[i] EXCEPT !.duplicateOf = d, !.sameFrames = f, !.samePayloads = p]
    BY <1>1, <1>2, <2>2
  <2>4. new[i] = [id |-> items[i].id, raw |-> items[i].raw, frames |-> items[i].frames,
                  duplicateOf |-> d, sameFrames |-> f, samePayloads |-> p]
    BY <2>1, <2>3 DEF IsItem
  <2> QED BY <2>2, <2>4
<1>4. DOMAIN new = 1..N
  BY <1>1, <1>2
<1>5. Len(new) = N /\ \E S : new \in Seq(S)
  <2> DEFINE S == {new[i] : i \in 1..N}
  <2>1. new = [i \in 1..N |-> new[i]]
    BY <1>1, <1>2
  <2>2. new \in [1..N -> S]
    <3>1. \A i \in 1..N : new[i] \in S
      OBVIOUS
    <3> HIDE DEF S
    <3> QED BY <2>1, <3>1
  <2> HIDE DEF S
  <2>3. new \in Seq(S)
    BY <1>1, <2>2
  <2> QED BY <1>1, <1>4, <2>3, LenProperties
<1>6. ASSUME NEW i \in 1..N
      PROVE  /\ new[i].id = items[i].id /\ new[i].raw = items[i].raw
             /\ new[i].frames = items[i].frames
             /\ new[i].duplicateOf = FileDuplicateOf(items, i)
             /\ new[i].sameFrames = Of(found.frames, i) /\ new[i].samePayloads = Of(found.payloads, i)
             /\ IsItem(new[i])
  <2>1. /\ items[i].id \in Nat \ {0}
        /\ items[i].raw \in Seq(Bytes) /\ items[i].frames \in Seq(Frames)
    BY ShelfPlaces
  <2>2. new[i] = mark(i)
    BY <1>3
  <2> QED BY <2>1, <2>2 DEF IsItem
<1>7. SameShelf(items, new)
  BY <1>5, <1>6 DEF SameShelf
<1>8. Shelf(new)
  <2>1. \A i, j \in 1..N : i < j => new[i].id < new[j].id
    BY <1>6 DEF Shelf
  <2> QED BY <1>5, <1>6, <2>1 DEF Shelf
<1>9. ASSUME NEW i \in 1..N, NEW k \in DOMAIN items[i].frames
      PROVE  LET r == [item |-> items[i].id, frame |-> k] IN
             /\ new[i].sameFrames[k] = found.frames[r]
             /\ new[i].samePayloads[k] = found.payloads[r]
  <2>1. \A marks : Of(marks, i)[k] = marks[[item |-> items[i].id, frame |-> k]]
    BY DEF Of
  <2>2. new[i].sameFrames = Of(found.frames, i) /\ new[i].samePayloads = Of(found.payloads, i)
    BY <1>6
  <2> QED BY <2>1, <2>2
<1> QED BY <1>6, <1>7, <1>8, <1>9 DEF new, found

(* A frame is called the same, and is the same, before and after. *)
LEMMA SameNames ==
  ASSUME NEW items, NEW marked, Shelf(items), Shelf(marked), SameShelf(items, marked)
  PROVE  /\ FramesIn(marked) = FramesIn(items)
         /\ \A q \in FramesIn(items) : FrameOf(marked, q) = FrameOf(items, q)
<1>1. /\ DOMAIN items = 1..Len(items) /\ DOMAIN marked = 1..Len(items)
      /\ \A i \in 1..Len(items) : marked[i].id = items[i].id /\ marked[i].frames = items[i].frames
  BY ShelfPlaces DEF SameShelf
<1>2. FramesIn(marked) = FramesIn(items)
  <2>1. \A i \in 1..Len(items) : NamesOf(marked[i]) = NamesOf(items[i])
    BY <1>1 DEF NamesOf
  <2>2. FramesIn(marked) = UNION {NamesOf(marked[i]) : i \in 1..Len(items)}
    BY <1>1 DEF FramesIn, NamesOf
  <2>3. FramesIn(items) = UNION {NamesOf(items[i]) : i \in 1..Len(items)}
    BY <1>1 DEF FramesIn, NamesOf
  <2> QED BY <2>1, <2>2, <2>3
<1>3. ASSUME NEW q \in FramesIn(items) PROVE FrameOf(marked, q) = FrameOf(items, q)
  <2>1. PICK i \in 1..Len(items) : \E k \in DOMAIN items[i].frames : q = [item |-> items[i].id, frame |-> k]
    BY <1>1 DEF FramesIn
  <2>5. PICK k : q = [item |-> items[i].id, frame |-> k]
    BY <2>1
  <2>2. FrameOf(items, q) = items[i].frames[k]
    BY <2>5, ItemFound
  <2>3. i \in 1..Len(marked) /\ marked[i].id = items[i].id /\ marked[i].frames = items[i].frames
    BY <1>1 DEF SameShelf
  <2>4. FrameOf(marked, q) = marked[i].frames[k]
    BY <2>5, <2>3, ItemFound
  <2> QED BY <2>2, <2>3, <2>4
<1> QED BY <1>2, <1>3

(* The walk over the references finds all that are the same. *)
LEMMA FoundSame ==
  ASSUME NEW items, Shelf(items), NEW r \in FramesIn(items)
  PROVE  LET same == {q \in FramesIn(items) \ {r} : FrameOf(items, q).bytes = FrameOf(items, r).bytes} IN
         /\ Listed(Evident(items).frames[r], same)
         /\ Listed(Evident(items).payloads[r],
                   {q \in same : HasPayload(FrameOf(items, r)) /\ HasPayload(FrameOf(items, q))})
<1> DEFINE all == FramesIn(items)
           frames == Alike(items, SameFrame)
           payloads == Alike(items, SamePayload)
           same == {q \in all \ {r} : FrameOf(items, q).bytes = FrameOf(items, r).bytes}
<1>1. Listed(References(items), all) /\ ToSet(References(items)) = all
  BY ReferencesListed, ListPlaces
<1> HIDE DEF all
<1>2. ASSUME NEW p \in all, NEW q \in all
      PROVE  /\ <<p, q>> \in frames <=> FrameOf(items, p).bytes = FrameOf(items, q).bytes
             /\ <<p, q>> \in payloads <=>
                  /\ FrameOf(items, p).bytes = FrameOf(items, q).bytes
                  /\ HasPayload(FrameOf(items, p)) /\ HasPayload(FrameOf(items, q))
  <2> DEFINE pair == <<p, q>>
  <2>1. pair \in all \X all /\ pair[1] = p /\ pair[2] = q
    OBVIOUS
  <2>2. pair \in frames <=> SameFrame(FrameOf(items, pair[1]), FrameOf(items, pair[2]))
    BY <1>1, <2>1 DEF Alike
  <2>3. pair \in payloads <=> SamePayload(FrameOf(items, pair[1]), FrameOf(items, pair[2]))
    BY <1>1, <2>1 DEF Alike
  <2> HIDE DEF pair, frames, payloads
  <2>4. pair \in frames <=> SameFrame(FrameOf(items, p), FrameOf(items, q))
    BY <2>1, <2>2
  <2>5. pair \in payloads <=> SamePayload(FrameOf(items, p), FrameOf(items, q))
    BY <2>1, <2>3
  <2> QED BY <2>4, <2>5 DEF SameFrame, SamePayload, pair
<1> HIDE DEF frames, payloads
<1>3. Symmetric(frames, all) /\ Symmetric(payloads, all)
  BY <1>2 DEF Symmetric
<1>4. r \in all
  BY DEF all
<1>10. ASSUME NEW alike, Symmetric(alike, all)
       PROVE  Listed(Pairs(References(items), alike)[r], {q \in all \ {r} : <<q, r>> \in alike})
  <2>1. PICK refs, names : refs = References(items) /\ names = all
    OBVIOUS
  <2>2. Listed(refs, names) /\ Symmetric(alike, names) /\ r \in names
    BY <1>1, <1>4, <1>10, <2>1
  <2>3. Listed(Pairs(refs, alike)[r], {q \in names \ {r} : <<q, r>> \in alike})
    BY <2>2, PairsListed
  <2> QED BY <2>1, <2>3
<1>5. Listed(Pairs(References(items), frames)[r], {q \in all \ {r} : <<q, r>> \in frames})
  BY <1>3, <1>10
<1>6. Listed(Pairs(References(items), payloads)[r], {q \in all \ {r} : <<q, r>> \in payloads})
  BY <1>3, <1>10
<1>7. {q \in all \ {r} : <<q, r>> \in frames} = same
  BY <1>2, <1>4
<1>8. {q \in all \ {r} : <<q, r>> \in payloads} =
        {q \in same : HasPayload(FrameOf(items, r)) /\ HasPayload(FrameOf(items, q))}
  BY <1>2, <1>4
<1>9. /\ Evident(items).frames = Pairs(References(items), frames)
      /\ Evident(items).payloads = Pairs(References(items), payloads)
  BY DEF Evident, frames, payloads
<1> QED BY <1>5, <1>6, <1>7, <1>8, <1>9 DEF all

(* Every frame is marked with exactly those it is the same as. *)
LEMMA EvidenceMarksFrames ==
  ASSUME NEW items, Shelf(items)
  PROVE  FramesMarked(WithEvidence(items))
<1>1. PICK marked : marked = WithEvidence(items)
  OBVIOUS
<1>2. /\ Shelf(items) /\ Shelf(marked) /\ SameShelf(items, marked)
      /\ DOMAIN marked = 1..Len(items) /\ DOMAIN items = 1..Len(items)
  BY <1>1, MarksPlaces, ShelfPlaces DEF SameShelf
<1> SUFFICES ASSUME NEW i \in 1..Len(items), NEW k \in DOMAIN marked[i].frames
             PROVE  LET frame == marked[i].frames[k]
                        same  == {q \in FramesIn(marked) \ {[item |-> marked[i].id, frame |-> k]} :
                                    FrameOf(marked, q).bytes = frame.bytes} IN
                    /\ Lists(marked[i].sameFrames[k], same)
                    /\ Lists(marked[i].samePayloads[k],
                             {q \in same : HasPayload(frame) /\ HasPayload(FrameOf(marked, q))})
  <2>1. FramesMarked(marked)
    BY <1>2, Zenon DEF FramesMarked
  <2> QED BY <1>1, <2>1
<1>3. PICK r : r = [item |-> items[i].id, frame |-> k]
  OBVIOUS
<1>4. marked[i].id = items[i].id /\ marked[i].frames = items[i].frames
  BY <1>2 DEF SameShelf
<1>5. r \in FramesIn(items)
  BY <1>2, <1>3, <1>4 DEF FramesIn
<1>6. /\ FramesIn(marked) = FramesIn(items)
      /\ \A q \in FramesIn(items) : FrameOf(marked, q) = FrameOf(items, q)
  BY <1>2, SameNames
<1>7. FrameOf(items, r) = marked[i].frames[k]
  BY <1>3, <1>4, ItemFound
<1>8. /\ marked[i].sameFrames[k] = Evident(items).frames[r]
      /\ marked[i].samePayloads[k] = Evident(items).payloads[r]
  BY <1>1, <1>3, <1>4, MarksPlaces
<1> DEFINE frame == marked[i].frames[k]
           same  == {q \in FramesIn(marked) \ {[item |-> marked[i].id, frame |-> k]} :
                       FrameOf(marked, q).bytes = frame.bytes}
<1>9. same = {q \in FramesIn(items) \ {r} : FrameOf(items, q).bytes = FrameOf(items, r).bytes}
  BY <1>3, <1>4, <1>6, <1>7
<1>10. {q \in same : HasPayload(frame) /\ HasPayload(FrameOf(marked, q))} =
        {q \in same : HasPayload(FrameOf(items, r)) /\ HasPayload(FrameOf(items, q))}
  BY <1>6, <1>7
<1> HIDE DEF same, frame
<1>11. /\ Listed(marked[i].sameFrames[k], same)
       /\ Listed(marked[i].samePayloads[k],
                 {q \in same : HasPayload(frame) /\ HasPayload(FrameOf(marked, q))})
  BY <1>5, <1>8, <1>9, <1>10, FoundSame
<1> QED BY <1>11 DEF Listed, same, frame

(* Every file is marked as a copy of the first with its bytes. *)
LEMMA EvidenceMarksFiles ==
  ASSUME NEW items, Shelf(items)
  PROVE  FilesMarked(WithEvidence(items))
<1>1. PICK marked : marked = WithEvidence(items)
  OBVIOUS
<1>2. /\ Shelf(marked) /\ SameShelf(items, marked) /\ Len(items) \in Nat
      /\ DOMAIN marked = 1..Len(items)
  BY <1>1, MarksPlaces, ShelfPlaces DEF SameShelf
<1> SUFFICES ASSUME NEW i \in 1..Len(items)
             PROVE  LET copies == {j \in 1..(i - 1) :
                                     marked[j].raw = marked[i].raw} IN
                    IF copies = {} THEN marked[i].duplicateOf = 0
                    ELSE \E j \in copies : marked[i].duplicateOf = marked[j].id /\ \A m \in copies : j <= m
  BY <1>1, <1>2 DEF FilesMarked
<1> DEFINE raw(k) == items[k].raw
           earlier == {k \in 1..(i - 1) : Hash(raw(k)) = Hash(raw(i)) /\ raw(k) = raw(i)}
           copies == {j \in 1..(i - 1) : marked[j].raw = marked[i].raw}
<1>3. \A j \in 1..i : j \in 1..Len(items) /\ marked[j].id = items[j].id /\ marked[j].raw = items[j].raw
  BY <1>2 DEF SameShelf
<1>4. marked[i].duplicateOf = FileDuplicateOf(items, i)
  BY <1>1, MarksPlaces
<1>5. FileDuplicateOf(items, i) =
        IF earlier = {} THEN 0 ELSE items[CHOOSE k \in earlier : \A j \in earlier : k <= j].id
  BY DEF FileDuplicateOf
<1>6. \A j \in 1..(i - 1) : j \in 1..i /\ i \in 1..i
  BY <1>2
<1>7. copies = earlier /\ earlier \in SUBSET Nat /\ earlier \subseteq 1..(i - 1)
  BY <1>3, <1>6
<1> HIDE DEF copies, earlier
<1>8. CASE earlier = {}
  BY <1>4, <1>5, <1>7, <1>8 DEF copies
<1>9. CASE earlier # {}
  <2> DEFINE k == CHOOSE k \in earlier : \A j \in earlier : k <= j
  <2>1. k \in earlier /\ \A j \in earlier : k <= j
    <3>1. \E x \in earlier : \A y \in earlier : x <= y
      BY <1>7, <1>9, Smallest
    <3> QED BY <3>1
  <2> HIDE DEF k
  <2>2. marked[i].duplicateOf = items[k].id
    BY <1>4, <1>5, <1>9 DEF k
  <2>3. marked[k].id = items[k].id
    BY <1>3, <1>6, <1>7, <2>1
  <2>4. \E j \in copies : marked[i].duplicateOf = marked[j].id /\ \A m \in copies : j <= m
    BY <1>7, <2>1, <2>2, <2>3
  <2> QED BY <1>7, <1>9, <2>4 DEF copies
<1> QED BY <1>8, <1>9

-----------------------------------------------------------------------------
(* What the workspace holds. *)

SizesOf(items) == [i \in DOMAIN items |-> RawSize(items[i].raw)]

(* The workspace, and that what it says of itself is true. *)
WellKept(m) ==
  /\ m = [items |-> m.items, bytes |-> m.bytes, next |-> m.next]
  /\ Shelf(m.items)
  /\ m.next \in Nat \ {0}
  /\ \A i \in 1..Len(m.items) : m.items[i].id < m.next
  /\ FramesMarked(m.items) /\ FilesMarked(m.items)
  /\ m.bytes = TotalOf(SizesOf(m.items))
  /\ m.bytes <= MaxAggregate

(* What a file holds is a number of bytes. *)
LEMMA RawSizeNat ==
  ASSUME NEW raw \in Seq(Bytes)
  PROVE  RawSize(raw) \in Nat
<1>1. PICK N : N \in Nat /\ DOMAIN raw = 1..N /\ N = Len(raw)
  BY LenProperties
<1> DEFINE sizes == [k \in 1..N |-> Size(raw[k])]
<1>2. RawSize(raw) = TotalOf(sizes)
  BY <1>1 DEF RawSize
<1>3. \A k \in 1..N : Size(raw[k]) \in Nat
  BY <1>1, ElementOfSeq, ManagerAssumption
<1>4. sizes \in [1..N -> Nat]
  BY <1>3
<1> HIDE DEF sizes
<1>5. sizes \in Seq(Nat)
  BY <1>1, <1>4
<1> QED BY <1>2, <1>5, TotalNat

(* What the parser finds in a file is a sequence of frames. *)
LEMMA ParsesFrames ==
  ASSUME NEW raw \in Seq(Bytes)
  PROVE  Parse(raw) \in Seq(Frames)
<1>1. PICK N : N \in Nat /\ DOMAIN raw = 1..N /\ N = Len(raw)
  BY LenProperties
<1> DEFINE rows == [i \in 1..N |-> Parsed(raw[i])]
<1>2. Parse(raw) = FlattenSeq(rows)
  BY <1>1 DEF Parse
<1>3. rows = [i \in 1..N |-> rows[i]] /\ \A i \in 1..N : rows[i] \in Seq(Frames)
  BY <1>1, ElementOfSeq, ManagerAssumption
<1> HIDE DEF rows
<1>4. CASE N = 0
  <2>1. rows = <<>> /\ Len(rows) = 0
    BY <1>3, <1>4
  <2>2. FlattenSeq(rows) = <<>>
    BY <2>1 DEF FlattenSeq
  <2> QED BY <1>2, <2>2
<1>5. CASE N # 0
  <2>1. PICK flat : /\ FlattenSeq(rows) = flat[N]
                    /\ flat[1] = rows[1]
                    /\ \A i \in 2..N : flat[i] = flat[i - 1] \o rows[i]
    <3>1. HasRows(rows, N)
      BY <1>3 DEF HasRows
    <3>2. PICK flat : Flattens(rows, N, flat)
      BY <1>1, <1>5, <3>1, Flattened
    <3> QED BY <3>2 DEF Flattens
  <2> DEFINE fine == [i \in 1..N |-> IF flat[i] \in Seq(Frames) THEN TRUE ELSE FALSE]
  <2>2. 1 \in 1..N /\ N \in 1..N
    BY <1>1, <1>5
  <2>3. fine[1] = TRUE
    BY <1>3, <2>1, <2>2
  <2>4. ASSUME NEW i \in 1..N, i < N, fine[i] = TRUE PROVE fine[i + 1] = TRUE
    <3>1. i + 1 \in 2..N /\ i + 1 \in 1..N /\ (i + 1) - 1 = i
      BY <1>1, <2>4
    <3>2. flat[i + 1] = flat[i] \o rows[i + 1]
      BY <2>1, <3>1
    <3>3. flat[i] \in Seq(Frames) /\ rows[i + 1] \in Seq(Frames)
      BY <1>3, <2>4, <3>1
    <3>4. flat[i + 1] \in Seq(Frames)
      BY <3>2, <3>3, ConcatProperties
    <3> QED BY <3>1, <3>4
  <2>5. fine[N] = TRUE /\ fine[N] = IF flat[N] \in Seq(Frames) THEN TRUE ELSE FALSE
    <3>1. \A i \in 1..N : fine[i] = TRUE
      <4> HIDE DEF fine
      <4> QED BY <1>1, <2>3, <2>4, Upward
    <3> QED BY <2>2, <3>1
  <2> QED BY <1>2, <2>1, <2>5
<1> QED BY <1>4, <1>5

(* The sizes of the items. *)
LEMMA SizesPlaces ==
  ASSUME NEW items, Shelf(items)
  PROVE  /\ SizesOf(items) \in Seq(Nat) /\ Len(SizesOf(items)) = Len(items)
         /\ \A i \in 1..Len(items) :
              SizesOf(items)[i] = RawSize(items[i].raw) /\ RawSize(items[i].raw) \in Nat
<1>1. PICK N : N = Len(items) /\ N \in Nat /\ DOMAIN items = 1..N
  BY ShelfPlaces
<1>2. \A i \in 1..N : SizesOf(items)[i] = RawSize(items[i].raw) /\ RawSize(items[i].raw) \in Nat
  BY <1>1, ShelfPlaces, RawSizeNat DEF SizesOf
<1>3. SizesOf(items) \in [1..N -> Nat]
  BY <1>1, <1>2 DEF SizesOf
<1>4. SizesOf(items) \in Seq(Nat)
  BY <1>1, <1>3
<1>5. Len(SizesOf(items)) = N
  <2>1. DOMAIN SizesOf(items) = 1..N
    BY <1>3
  <2> QED BY <1>1, <1>4, <2>1, LenProperties
<1> QED BY <1>1, <1>2, <1>4, <1>5

(* Marking changes no size. *)
LEMMA MarkedSizes ==
  ASSUME NEW items, Shelf(items)
  PROVE  SizesOf(WithEvidence(items)) = SizesOf(items)
<1>1. PICK marked : marked = WithEvidence(items)
  OBVIOUS
<1>2. Shelf(marked) /\ SameShelf(items, marked)
  BY <1>1, MarksPlaces
<1>3. DOMAIN items = 1..Len(items) /\ DOMAIN marked = 1..Len(items)
  BY <1>2, ShelfPlaces DEF SameShelf
<1>4. SizesOf(marked) = SizesOf(items)
  BY <1>2, <1>3 DEF SizesOf, SameShelf
<1> QED BY <1>1, <1>4

(* An empty workspace says nothing false. *)
LEMMA EmptyKept == WellKept(NewManager)
<1>1. /\ NewManager = [items |-> <<>>, bytes |-> 0, next |-> 1]
      /\ NewManager.items = <<>> /\ NewManager.bytes = 0 /\ NewManager.next = 1
  BY DEF NewManager
<1>2. /\ <<>> \in Seq(Nat) /\ Len(<<>>) = 0
      /\ \A i : i \notin DOMAIN <<>> /\ i \notin 1..Len(<<>>)
  OBVIOUS
<1>3. Shelf(<<>>)
  BY <1>2 DEF Shelf
<1>4. FramesMarked(<<>>) /\ FilesMarked(<<>>)
  BY <1>2 DEF FramesMarked, FilesMarked
<1>5. SizesOf(<<>>) = <<>>
  BY DEF SizesOf
<1>6. TotalOf(<<>>) = 0
  <2>1. PICK none : none = <<>> /\ none \in Seq(Nat) /\ Len(none) = 0
    BY <1>2
  <2>2. TotalOf(none) = 0
    BY <2>1, TotalPlaces
  <2> QED BY <2>1, <2>2
<1> QED BY <1>1, <1>2, <1>3, <1>4, <1>5, <1>6, ManagerAssumption DEF WellKept

(* add_document(): the new item has the largest id. *)
LEMMA AddedKept ==
  ASSUME NEW m, WellKept(m), NEW raw \in Seq(Bytes), CanAdd(m, raw)
  PROVE  WellKept(Added(m, raw)) /\ m.next \in Ids(Added(m, raw).items)
<1> DEFINE item == [id |-> m.next, raw |-> raw, frames |-> Parse(raw), duplicateOf |-> 0,
                    sameFrames |-> <<>>, samePayloads |-> <<>>]
           items == Append(m.items, item)
           marked == WithEvidence(items)
<1>1. PICK N, S : /\ N = Len(m.items) /\ N \in Nat /\ m.items \in Seq(S)
                  /\ DOMAIN m.items = 1..N
                  /\ Shelf(m.items)
  BY ShelfPlaces DEF WellKept, Shelf
<1>2. item.id = m.next /\ item.raw = raw /\ IsItem(item)
  BY ParsesFrames DEF IsItem, WellKept
<1> HIDE DEF item
<1>3. /\ items \in Seq(S \cup {item}) /\ Len(items) = N + 1
      /\ \A i \in 1..N : items[i] = m.items[i]
      /\ items[N + 1] = item
  <2> DEFINE T == S \cup {item}
  <2>1. m.items \in Seq(T) /\ item \in T
    BY <1>1, SeqMonotonic
  <2> HIDE DEF T
  <2>2. items \in Seq(T) /\ Len(items) = N + 1
    BY <1>1, <2>1
  <2>3. \A i \in 1..N : items[i] = m.items[i]
    BY <1>1, <2>1
  <2>4. items[N + 1] = item
    BY <1>1, <2>1
  <2> QED BY <2>2, <2>3, <2>4 DEF T
<1> HIDE DEF items
<1>4. \A i \in 1..(N + 1) : i \in 1..N \/ i = N + 1
  BY <1>1
<1>5. Shelf(items)
  <2>1. \A i \in 1..(N + 1) : IsItem(items[i])
    BY <1>1, <1>2, <1>3, <1>4 DEF Shelf
  <2>2. ASSUME NEW i \in 1..(N + 1), NEW j \in 1..(N + 1), i < j
        PROVE  items[i].id < items[j].id
    <3>1. i \in 1..N
      BY <1>1, <2>2
    <3>2. CASE j \in 1..N
      BY <1>1, <1>3, <2>2, <3>1, <3>2 DEF Shelf
    <3>3. CASE j = N + 1
      <4>1. m.items[i].id < m.next
        BY <1>1, <3>1 DEF WellKept
      <4> QED BY <1>2, <1>3, <3>1, <3>3, <4>1
    <3> QED BY <1>4, <3>2, <3>3
  <2> QED BY <1>3, <2>1, <2>2 DEF Shelf
<1>6. /\ Shelf(marked) /\ SameShelf(items, marked)
      /\ FramesMarked(marked) /\ FilesMarked(marked)
      /\ SizesOf(marked) = SizesOf(items)
  BY <1>5, MarksPlaces, MarkedSizes, EvidenceMarksFrames, EvidenceMarksFiles
<1>7. TotalOf(SizesOf(items)) = TotalOf(SizesOf(m.items)) + RawSize(raw)
      /\ TotalOf(SizesOf(m.items)) \in Nat /\ RawSize(raw) \in Nat
  <2>1. PICK s, t : /\ s = SizesOf(m.items) /\ t = SizesOf(items)
                    /\ s \in Seq(Nat) /\ t \in Seq(Nat) /\ Len(s) = N /\ Len(t) = N + 1
    BY <1>1, <1>3, <1>5, SizesPlaces
  <2>2. \A i \in 1..N : t[i] = s[i]
    <3> SUFFICES ASSUME NEW i \in 1..N PROVE t[i] = s[i]
      OBVIOUS
    <3>1. i \in 1..Len(items)
      BY <1>1, <1>3
    <3>2. t[i] = RawSize(items[i].raw) /\ s[i] = RawSize(m.items[i].raw)
      BY <1>1, <1>5, <2>1, <3>1, SizesPlaces
    <3> QED BY <1>3, <3>2
  <2>3. t[N + 1] = RawSize(raw)
    <3>1. N + 1 \in 1..Len(items)
      BY <1>1, <1>3
    <3>2. t[N + 1] = RawSize(items[N + 1].raw)
      BY <1>5, <2>1, <3>1, SizesPlaces
    <3> QED BY <1>2, <1>3, <3>2
  <2>4. TotalOf(t) = TotalOf(s) + t[Len(t)] /\ TotalOf(s) \in Nat
    BY <2>1, <2>2, TotalLonger
  <2> QED BY <2>1, <2>3, <2>4, RawSizeNat
<1>8. m.bytes + RawSize(raw) <= MaxAggregate
  BY <1>7, ManagerAssumption DEF CanAdd, ExceedsLimit, WellKept
<1>9. PICK new : /\ new = Added(m, raw)
                 /\ new = [items |-> marked, bytes |-> m.bytes + RawSize(raw), next |-> m.next + 1]
  BY DEF Added, marked, items, item
<1> HIDE DEF marked
<1>10. new.items = marked /\ new.bytes = m.bytes + RawSize(raw) /\ new.next = m.next + 1
  BY <1>9
<1>11. new = [items |-> new.items, bytes |-> new.bytes, next |-> new.next]
  BY <1>9
<1>12. Len(marked) = N + 1 /\ \A i \in 1..(N + 1) : marked[i].id = items[i].id
  BY <1>3, <1>6 DEF SameShelf
<1>13. \A i \in 1..(N + 1) : marked[i].id < m.next + 1
  <2> SUFFICES ASSUME NEW i \in 1..(N + 1) PROVE items[i].id < m.next + 1
    BY <1>12
  <2>1. m.next \in Nat
    BY DEF WellKept
  <2>2. CASE i \in 1..N
    <3>1. m.items[i].id < m.next /\ m.items[i].id \in Nat
      BY <1>1, <2>2, ShelfPlaces DEF WellKept
    <3> QED BY <1>3, <2>1, <2>2, <3>1
  <2>3. CASE i = N + 1
    BY <1>2, <1>3, <2>1, <2>3
  <2> QED BY <1>4, <2>2, <2>3
<1>14. WellKept(new)
  <2>1. new.next \in Nat \ {0}
    BY <1>10 DEF WellKept
  <2>2. new.bytes = TotalOf(SizesOf(new.items)) /\ new.bytes <= MaxAggregate
    BY <1>6, <1>7, <1>8, <1>10 DEF WellKept
  <2>3. \A i \in 1..Len(new.items) : new.items[i].id < new.next
    BY <1>10, <1>12, <1>13
  <2>4. Shelf(new.items) /\ FramesMarked(new.items) /\ FilesMarked(new.items)
    BY <1>6, <1>10
  <2> QED BY <1>11, <2>1, <2>2, <2>3, <2>4 DEF WellKept
<1>15. m.next \in Ids(marked)
  <2>1. N + 1 \in 1..(N + 1)
    BY <1>1
  <2>2. marked[N + 1].id = m.next
    BY <1>2, <1>3, <1>12, <2>1
  <2> QED BY <1>6, <1>12, <2>1, <2>2, ItemFound
<1> QED BY <1>9, <1>10, <1>14, <1>15

(* remove_item(): the items after it move up. *)
LEMMA RemovedKept ==
  ASSUME NEW m, WellKept(m), NEW row \in 1..Len(m.items)
  PROVE  WellKept(Removed(m, m.items[row].id))
<1> DEFINE items == RemoveAt(m.items, row)
           marked == WithEvidence(items)
           size == RawSize(m.items[row].raw)
<1>1. PICK N, S : /\ N + 1 = Len(m.items) /\ N \in Nat /\ m.items \in Seq(S)
                  /\ DOMAIN m.items = 1..(N + 1) /\ row \in 1..(N + 1)
                  /\ Shelf(m.items)
  <2>1. Len(m.items) \in Nat /\ DOMAIN m.items = 1..Len(m.items) /\ Shelf(m.items)
    BY ShelfPlaces DEF WellKept
  <2>2. Len(m.items) - 1 \in Nat /\ (Len(m.items) - 1) + 1 = Len(m.items)
    BY <2>1
  <2> QED BY <2>1, <2>2 DEF Shelf
<1>2. /\ items \in Seq(S) /\ Len(items) = N
      /\ \A i \in 1..N : items[i] = IF i < row THEN m.items[i] ELSE m.items[i + 1]
  <2> DEFINE a == SubSeq(m.items, 1, row - 1)
             b == SubSeq(m.items, row + 1, N + 1)
  <2>1. \A i \in 1..(N + 1) : m.items[i] \in S
    BY <1>1, ElementOfSeq
  <2>2. /\ a \in Seq(S) /\ Len(a) = row - 1
        /\ \A i \in 1..(row - 1) : a[i] = m.items[i]
    <3>1. 1 \in Int /\ row - 1 \in Int /\ \A i \in 1..(row - 1) : m.items[i] \in S
      BY <1>1, <2>1
    <3>2. /\ a \in Seq(S) /\ Len(a) = IF 1 <= row - 1 THEN (row - 1) - 1 + 1 ELSE 0
          /\ \A i \in 1..((row - 1) - 1 + 1) : a[i] = m.items[1 + i - 1]
      BY <3>1, SubSeqProperties
    <3>3. (row - 1) - 1 + 1 = row - 1 /\ (~(1 <= row - 1) => row - 1 = 0)
      BY <1>1
    <3>4. \A i \in 1..(row - 1) : 1 + i - 1 = i
      OBVIOUS
    <3> HIDE DEF a
    <3>5. Len(a) = row - 1
      BY <3>2, <3>3
    <3>6. \A i \in 1..(row - 1) : a[i] = m.items[i]
      BY <3>2, <3>3, <3>4
    <3> QED BY <3>2, <3>5, <3>6
  <2>3. /\ b \in Seq(S) /\ Len(b) = (N + 1) - row
        /\ \A i \in 1..((N + 1) - row) : b[i] = m.items[row + i]
    <3>1. row + 1 \in Int /\ N + 1 \in Int /\ \A i \in (row + 1)..(N + 1) : m.items[i] \in S
      BY <1>1, <2>1
    <3>2. /\ b \in Seq(S) /\ Len(b) = IF row + 1 <= N + 1 THEN (N + 1) - (row + 1) + 1 ELSE 0
          /\ \A i \in 1..((N + 1) - (row + 1) + 1) : b[i] = m.items[row + 1 + i - 1]
      BY <3>1, SubSeqProperties
    <3>3. (N + 1) - (row + 1) + 1 = (N + 1) - row /\ (~(row + 1 <= N + 1) => (N + 1) - row = 0)
      BY <1>1
    <3>4. \A i \in 1..((N + 1) - row) : row + 1 + i - 1 = row + i
      BY <1>1
    <3> HIDE DEF b
    <3>5. Len(b) = (N + 1) - row
      BY <3>2, <3>3
    <3>6. \A i \in 1..((N + 1) - row) : b[i] = m.items[row + i]
      BY <3>2, <3>3, <3>4
    <3> QED BY <3>2, <3>5, <3>6
  <2>4. items = a \o b
    BY <1>1 DEF RemoveAt
  <2> HIDE DEF a, b, items
  <2>5. /\ items \in Seq(S) /\ Len(items) = Len(a) + Len(b)
        /\ \A i \in 1..Len(a) + Len(b) : items[i] = IF i <= Len(a) THEN a[i] ELSE b[i - Len(a)]
    BY <2>2, <2>3, <2>4, ConcatProperties
  <2>6. Len(a) + Len(b) = N
    BY <1>1, <2>2, <2>3
  <2>7. ASSUME NEW i \in 1..N
        PROVE  items[i] = IF i < row THEN m.items[i] ELSE m.items[i + 1]
    <3>1. items[i] = IF i <= row - 1 THEN a[i] ELSE b[i - (row - 1)]
      BY <2>2, <2>5, <2>6
    <3>2. CASE i < row
      <4>1. i <= row - 1 /\ i \in 1..(row - 1)
        BY <1>1, <3>2
      <4> QED BY <2>2, <3>1, <3>2, <4>1
    <3>3. CASE ~(i < row)
      <4>1. ~(i <= row - 1) /\ i - (row - 1) \in 1..((N + 1) - row) /\ row + (i - (row - 1)) = i + 1
        BY <1>1, <3>3
      <4> QED BY <2>3, <3>1, <3>3, <4>1
    <3> QED BY <3>2, <3>3
  <2> QED BY <2>5, <2>6, <2>7
<1> HIDE DEF items
<1>3. ASSUME NEW i \in 1..N
      PROVE  LET j == IF i < row THEN i ELSE i + 1 IN
             j \in 1..(N + 1) /\ j \in 1..Len(m.items) /\ items[i] = m.items[j]
  BY <1>1, <1>2
<1>4. Shelf(items)
  <2>1. \A i \in 1..N : IsItem(items[i])
    BY <1>1, <1>3 DEF Shelf
  <2>2. ASSUME NEW i \in 1..N, NEW j \in 1..N, i < j PROVE items[i].id < items[j].id
    <3> DEFINE p == IF i < row THEN i ELSE i + 1
               q == IF j < row THEN j ELSE j + 1
    <3>1. p < q
      BY <1>1, <2>2
    <3>2. p \in 1..Len(m.items) /\ items[i] = m.items[p]
      BY <1>3
    <3>3. q \in 1..Len(m.items) /\ items[j] = m.items[q]
      BY <1>3
    <3> HIDE DEF p, q
    <3> QED BY <1>1, <3>1, <3>2, <3>3 DEF Shelf
  <2> QED BY <1>2, <2>1, <2>2 DEF Shelf
<1>5. /\ Shelf(marked) /\ SameShelf(items, marked)
      /\ FramesMarked(marked) /\ FilesMarked(marked)
      /\ SizesOf(marked) = SizesOf(items)
  BY <1>4, MarksPlaces, MarkedSizes, EvidenceMarksFrames, EvidenceMarksFiles
<1>6. /\ TotalOf(SizesOf(items)) = TotalOf(SizesOf(m.items)) - size
      /\ TotalOf(SizesOf(items)) \in Nat /\ size \in Nat
  <2>1. PICK s, t : /\ s = SizesOf(m.items) /\ t = SizesOf(items)
                    /\ s \in Seq(Nat) /\ t \in Seq(Nat) /\ Len(s) = N + 1 /\ Len(t) = N
    BY <1>1, <1>2, <1>4, SizesPlaces
  <2>2. s[row] = size /\ size \in Nat
    BY <1>1, <2>1, SizesPlaces
  <2> HIDE DEF size
  <2>3. ASSUME NEW i \in 1..N PROVE t[i] = IF i < row THEN s[i] ELSE s[i + 1]
    <3> DEFINE j == IF i < row THEN i ELSE i + 1
    <3>1. j \in 1..Len(m.items) /\ items[i] = m.items[j]
      BY <1>3
    <3>2. t[i] = RawSize(items[i].raw)
      BY <1>2, <1>4, <2>1, SizesPlaces
    <3> HIDE DEF j
    <3>3. s[j] = RawSize(m.items[j].raw)
      BY <1>1, <2>1, <3>1, SizesPlaces
    <3>4. t[i] = s[j]
      BY <3>1, <3>2, <3>3
    <3> QED BY <3>4 DEF j
  <2>4. TotalOf(t) = TotalOf(s) - s[row] /\ TotalOf(t) \in Nat
    <3>1. Len(s) = Len(t) + 1 /\ row \in 1..Len(s)
      BY <1>1, <2>1
    <3>2. \A i \in 1..Len(t) : t[i] = IF i < row THEN s[i] ELSE s[i + 1]
      BY <2>1, <2>3
    <3> QED BY <2>1, <3>1, <3>2, TotalShorter
  <2> QED BY <2>1, <2>2, <2>4
<1>7. Item(m.items, m.items[row].id) = m.items[row] /\ Row(m.items, m.items[row].id) = row
  BY <1>1, ItemFound
<1>8. Removed(m, m.items[row].id) = [m EXCEPT !.bytes = @ - size, !.items = marked]
  BY <1>7 DEF Removed, Without, marked, items
<1>9. PICK bytes : bytes = m.bytes - size /\ bytes = TotalOf(SizesOf(items)) /\ bytes <= MaxAggregate
  <2>1. m.bytes = TotalOf(SizesOf(m.items)) /\ m.bytes <= MaxAggregate
    BY DEF WellKept
  <2>2. m.bytes - size = TotalOf(SizesOf(items))
    BY <1>6, <2>1
  <2>3. m.bytes = TotalOf(SizesOf(items)) + size
    <3>1. TotalOf(SizesOf(m.items)) \in Nat
      BY <1>1, SizesPlaces, TotalNat
    <3> QED BY <1>6, <2>1, <3>1
  <2> QED BY <1>6, <2>1, <2>2, <2>3, ManagerAssumption
<1> HIDE DEF marked, size
<1>10. PICK new : /\ new = Removed(m, m.items[row].id)
                  /\ new = [items |-> marked, bytes |-> bytes, next |-> m.next]
  BY <1>8, <1>9 DEF WellKept
<1>11. new.items = marked /\ new.bytes = bytes /\ new.next = m.next
  BY <1>10
<1>12. \A i \in 1..Len(marked) : marked[i].id < m.next
  <2> SUFFICES ASSUME NEW i \in 1..N PROVE items[i].id < m.next
    BY <1>2, <1>5 DEF SameShelf
  <2> QED BY <1>3 DEF WellKept
<1>13. WellKept(new)
  <2>1. new = [items |-> new.items, bytes |-> new.bytes, next |-> new.next]
    BY <1>10
  <2> QED BY <1>5, <1>9, <1>11, <1>12, <2>1 DEF WellKept
<1> QED BY <1>10, <1>13

-----------------------------------------------------------------------------
(* The files, and the page that shows the workspace. *)

(* Whatever is, or will be, a .syx file is a sequence of bytes.              *)
Contents ==
  /\ \A p \in Paths : IsContent(disk[p]) /\ IsContent(temp[p])
  /\ Writing => IsContent(write.content)

(* The current item of the page is in the workspace.                         *)
Shown(id, items) == id = NoItem \/ id \in Ids(items)

(* What the dialog was opened for is a list of references.                   *)
IsList(refs) == \E N \in Nat : DOMAIN refs = 1..N
Destined     == dialog.open => IsList(dialog.refs)

KeptInv == Contents /\ WellKept(manager) /\ Shown(itemId, manager.items) /\ Destined

(* What the pages write other than .syx files is not taken for one. *)
LEMMA OtherContent ==
  /\ IsContent(Missing) /\ IsContent(Partial)
  /\ \A values : IsContent(Serialize(values))
  /\ \A routes : IsContent([form |-> "bundle", routes |-> routes])
BY DEF IsContent, Missing, Partial, Serialize

(* So it is before the first start, whatever the disk holds. *)
LEMMA InitKept == Init => KeptInv
<1> SUFFICES ASSUME Init PROVE KeptInv
  OBVIOUS
<1>1. \A p \in Paths : IsContent(disk[p]) /\ IsContent(temp[p])
  <2>1. \A p \in Paths : IsContent(disk[p])
    BY StorageAssumption DEF Init
  <2>2. \A p \in Paths : temp[p] = Missing
    BY DEF Init
  <2> QED BY <2>1, <2>2, OtherContent
<1>2. ~Writing
  BY DEF Init, Writing, NoWrite
<1>3. manager = NewManager /\ itemId = NoItem
  BY DEF Init
<1>4. Destined
  BY DEF Init, Destined, NoDialog
<1> QED BY <1>1, <1>2, <1>3, <1>4, EmptyKept DEF KeptInv, Contents, Shown

(* A write puts its content, or less, on the disk. *)
LEMMA ContentsWritten ==
  ASSUME IInv, Contents, FileStep
  PROVE  Contents'
<1>1. write.step # "idle" /\ write.step # "written"
  BY DEF FileStep, WriteStep, Check, CreateTemporary, Fill, RemoveDestination, Move, FileFails
<1>2. IsWrite(write) /\ Writing
  BY <1>1 DEF IInv, Writes, NoWrite, Writing
<1>3. PICK path, content : path = write.path /\ content = write.content /\ IsContent(content)
  BY <1>2 DEF Contents
<1>4. \E next \in Steps : Step(next)
  BY DEF FileStep, WriteStep, Check, CreateTemporary, Fill, RemoveDestination, Move, FileFails, Steps
<1>5. write'.content = content
  BY <1>2, <1>3, <1>4, Stepped DEF SameWrite
<1>6. disk = [p \in Paths |-> disk[p]] /\ temp = [p \in Paths |-> temp[p]]
  BY DEF IInv, Writes
<1>7. \/ temp' = temp
      \/ \E new \in {Missing, Partial, content} : temp' = [temp EXCEPT ![path] = new]
  BY <1>3 DEF FileStep, WriteStep, Check, CreateTemporary, Fill, RemoveDestination, Move, FileFails
<1>8. \/ disk' = disk
      \/ disk' = [disk EXCEPT ![path] = Missing]
      \/ disk' = [disk EXCEPT ![path] = temp[path]]
  BY <1>3 DEF FileStep, WriteStep, Check, CreateTemporary, Fill, RemoveDestination, Move, FileFails
<1>9. \A p \in Paths : IsContent(temp'[p])
  <2>1. \A new \in {Missing, Partial, content} : IsContent(new)
    BY <1>3, OtherContent
  <2>2. \A p \in Paths : temp'[p] = temp[p] \/ temp'[p] \in {Missing, Partial, content}
    BY <1>6, <1>7
  <2> QED BY <2>1, <2>2 DEF Contents
<1>10. \A p \in Paths : IsContent(disk'[p])
  <2>1. \A p \in Paths : disk'[p] \in {disk[p], Missing, temp[p]}
    BY <1>6, <1>8
  <2> QED BY <2>1, OtherContent DEF Contents
<1> QED BY <1>3, <1>5, <1>9, <1>10 DEF Contents

(* The page shows an item that is there. *)
LEMMA RefreshShows ==
  ASSUME NEW items, Shelf(items), NEW id, Refresh(items, id)
  PROVE  Shown(itemId', items)
<1>1. CASE items = <<>>
  BY <1>1 DEF Refresh, Shown
<1>2. CASE items # <<>>
  <2> DEFINE row == IF id \in Ids(items) THEN id ELSE items[1].id
  <2>1. 1 \in DOMAIN items
    <3>1. PICK S : items \in Seq(S)
      BY DEF Shelf
    <3>2. Len(items) \in Nat /\ Len(items) # 0 /\ DOMAIN items = 1..Len(items)
      BY <1>2, <3>1, EmptySeq, LenProperties
    <3> QED BY <3>2
  <2>2. row \in Ids(items)
    BY <2>1 DEF Ids
  <2>3. ShowSelection(items, {row}, row)
    BY <1>2 DEF Refresh
  <2> HIDE DEF row
  <2>4. itemId' = row
    BY <2>3 DEF ShowSelection
  <2> QED BY <2>2, <2>4 DEF Shown
<1> QED BY <1>1, <1>2

(* The chosen frames are a list. *)
LEMMA ChosenListed ==
  ASSUME WellKept(manager)
  PROVE  IsList(ChosenRefs)
<1>1. PICK items, refs : items = manager.items /\ refs = ChosenRefs /\ Shelf(items)
  BY DEF WellKept
<1>2. PICK all : all = References(items) /\ Listed(all, FramesIn(items))
  BY <1>1, ReferencesListed
<1>3. Len(all) \in 0..Len(all)
  BY <1>2, ListPlaces
<1>4. refs = Those(all, Len(all), chosen)
  BY <1>1, <1>2 DEF ChosenRefs
<1>5. \E kept : Listed(refs, kept)
  BY <1>2, <1>3, <1>4, ThoseListed
<1> QED BY <1>1, <1>5, ListPlaces DEF IsList

(* Only bytes of the workspace's frames are written. *)
LEMMA FramesWritten ==
  ASSUME WellKept(manager), NEW refs, IsList(refs), CanWrite(manager, refs)
  PROVE  BytesOf(FramesOf(manager, refs)) \in Seq(Bytes)
<1>1. PICK items : items = manager.items /\ Shelf(items)
  BY DEF WellKept
<1>2. PICK N : N \in Nat /\ DOMAIN refs = 1..N
  BY DEF IsList
<1>3. ASSUME NEW n \in 1..N PROVE FrameOf(items, refs[n]) \in Frames
  <2>1. Available(items, refs[n])
    BY <1>1, <1>2 DEF CanWrite
  <2>2. PICK i \in DOMAIN items : items[i].id = refs[n].item
    BY <2>1 DEF Available, Ids
  <2>3. i \in 1..Len(items)
    BY <1>1, ShelfPlaces
  <2>4. Item(items, refs[n].item) = items[i]
    BY <1>1, <2>2, <2>3, ItemFound
  <2>5. refs[n].frame \in DOMAIN items[i].frames /\ FrameOf(items, refs[n]) = items[i].frames[refs[n].frame]
    BY <2>1, <2>4 DEF Available, FrameOf
  <2>6. /\ items[i].frames \in Seq(Frames)
        /\ DOMAIN items[i].frames = 1..Len(items[i].frames)
    BY <1>1, <2>3, ShelfPlaces
  <2> QED BY <2>5, <2>6, ElementOfSeq
<1>4. FramesOf(manager, refs) = [n \in 1..N |-> FrameOf(items, refs[n])]
  BY <1>1, <1>2 DEF FramesOf
<1>5. BytesOf(FramesOf(manager, refs)) = [n \in 1..N |-> FrameOf(items, refs[n]).bytes]
  BY <1>4 DEF BytesOf
<1>6. \A n \in 1..N : FrameOf(items, refs[n]).bytes \in Bytes
  BY <1>3 DEF Frames
<1>7. BytesOf(FramesOf(manager, refs)) \in [1..N -> Bytes]
  BY <1>5, <1>6
<1> QED BY <1>2, <1>7

(* A click of the SysEx Manager page keeps what it says true. *)
LEMMA ClicksKeep ==
  ASSUME IInv, KeptInv,
         \/ RemoveItem
         \/ WriteFrames
         \/ \E p \in SyxPaths : AddFile(p) \/ ChooseDestination(p)
         \/ \E id \in Ids(manager.items) : SelectItem(id)
         \/ \E refs : SelectFrames(refs)
  PROVE  KeptInv'
<1>1. CASE RemoveItem
  <2>1. UNCHANGED <<disk, temp, write, dialog>>
    BY <1>1 DEF RemoveItem, ManagerClick, dialogVars
  <2>2. Contents' /\ Destined'
    BY <2>1 DEF KeptInv, Contents, Writing, Destined
  <2>3. PICK row \in DOMAIN manager.items : manager.items[row].id = itemId
    BY <1>1 DEF RemoveItem, KeptInv, Shown, Ids
  <2>4. row \in 1..Len(manager.items)
    BY ShelfPlaces DEF KeptInv, WellKept
  <2>5. WellKept(Removed(manager, itemId))
    BY <2>3, <2>4, RemovedKept DEF KeptInv
  <2>6. WellKept(manager') /\ Refresh(manager'.items, NoItem)
    BY <1>1, <2>5 DEF RemoveItem
  <2>7. Shown(itemId', manager'.items)
    BY <2>6, RefreshShows DEF WellKept
  <2> QED BY <2>2, <2>6, <2>7 DEF KeptInv, WellKept
<1>2. CASE \E p \in SyxPaths : AddFile(p)
  <2>1. PICK p \in SyxPaths : AddFile(p)
    BY <1>2
  <2>2. UNCHANGED <<disk, temp, write, dialog>>
    BY <2>1 DEF AddFile, ManagerClick, dialogVars
  <2>3. Contents' /\ Destined'
    BY <2>2 DEF KeptInv, Contents, Writing, Destined
  <2>4. disk[p].raw \in Seq(Bytes)
    BY <2>1, PathFacts DEF AddFile, KeptInv, Contents, IsContent
  <2>5. WellKept(Added(manager, disk[p].raw))
    BY <2>1, <2>4, AddedKept DEF AddFile, KeptInv
  <2>6. WellKept(manager') /\ Refresh(manager'.items, manager.next)
    BY <2>1, <2>5 DEF AddFile
  <2>7. Shown(itemId', manager'.items)
    BY <2>6, RefreshShows DEF WellKept
  <2> QED BY <2>3, <2>6, <2>7 DEF KeptInv
<1>3. CASE WriteFrames
  <2> DEFINE content == [form |-> "syx", raw |-> BytesOf(FramesOf(manager, dialog.refs))]
  <2>1. UNCHANGED <<disk, temp, manager, itemId>> /\ ~dialog'.open
    BY <1>3 DEF WriteFrames, panelVars, NoDialog
  <2>2. write' = write \/ (write'.content = content /\ CanWrite(manager, dialog.refs))
    BY <1>3 DEF WriteFrames, BeginWrite
  <2>3. CanWrite(manager, dialog.refs) => IsContent(content)
    BY <1>3, FramesWritten DEF WriteFrames, KeptInv, Destined, IsContent
  <2> HIDE DEF content
  <2>4. Contents' /\ Destined'
    BY <2>1, <2>2, <2>3 DEF KeptInv, Contents, Writing, Destined
  <2> QED BY <2>1, <2>4 DEF KeptInv
<1>4. CASE \E p \in SyxPaths : ChooseDestination(p)
  <2>1. PICK p \in SyxPaths : ChooseDestination(p)
    BY <1>4
  <2>2. /\ UNCHANGED <<disk, temp, write, manager, itemId>>
        /\ dialog' = [open |-> TRUE, path |-> p, refs |-> ChosenRefs]
    BY <2>1 DEF ChooseDestination, ManagerClick, panelVars
  <2>3. Contents'
    BY <2>2 DEF KeptInv, Contents, Writing
  <2>4. Destined'
    BY <2>2, ChosenListed DEF KeptInv, Destined, IsList
  <2> QED BY <2>2, <2>3, <2>4 DEF KeptInv
<1>5. CASE \E id \in Ids(manager.items) : SelectItem(id)
  <2>1. PICK id \in Ids(manager.items) : Look /\ \E ids : ShowSelection(manager.items, ids, id)
    BY <1>5 DEF SelectItem
  <2>2. UNCHANGED <<disk, temp, write, manager, dialog>>
    BY <2>1 DEF Look, fileVars, dialogVars
  <2>3. Contents' /\ Destined'
    BY <2>2 DEF KeptInv, Contents, Writing, Destined
  <2>4. itemId' = NoItem \/ itemId' = id
    BY <2>1 DEF ShowSelection
  <2>5. WellKept(manager') /\ Shown(itemId', manager'.items)
    BY <2>2, <2>4 DEF KeptInv, Shown
  <2> QED BY <2>3, <2>5 DEF KeptInv
<1>6. CASE \E refs : SelectFrames(refs)
  <2>1. UNCHANGED <<disk, temp, write, manager, itemId, dialog>>
    BY <1>6 DEF SelectFrames, Look, fileVars, dialogVars
  <2>2. Contents' /\ Destined'
    BY <2>1 DEF KeptInv, Contents, Writing, Destined
  <2>3. WellKept(manager') /\ Shown(itemId', manager'.items)
    BY <2>1 DEF KeptInv
  <2> QED BY <2>2, <2>3 DEF KeptInv
<1> QED BY <1>1, <1>2, <1>3, <1>4, <1>5, <1>6

(* Nor does anything else. *)
LEMMA NextKept ==
  ASSUME IInv, KeptInv, [Next]_vars
  PROVE  KeptInv'
<1>1. CASE \/ RemoveItem \/ WriteFrames
           \/ \E p \in SyxPaths : AddFile(p) \/ ExportFrames(p) \/ MergeFrames(p)
           \/ \E id \in Ids(manager.items) : SelectItem(id)
           \/ \E refs : SelectFrames(refs)
  BY <1>1, ClicksKeep DEF ExportFrames, MergeFrames
<1>2. CASE Stop
  <2>1. disk' = disk /\ temp' = temp /\ ~Writing' /\ manager' = NewManager /\ itemId' = NoItem
        /\ ~dialog'.open
    BY <1>2 DEF Stop, Writing, NoWrite, NoDialog
  <2>2. Contents' /\ Destined'
    BY <2>1 DEF KeptInv, Contents, Destined
  <2> QED BY <2>1, <2>2, EmptyKept DEF KeptInv, Shown
<1>3. CASE FileStep
  <2>1. Contents'
    BY <1>3, ContentsWritten DEF KeptInv
  <2>2. UNCHANGED <<manager, itemId, dialog>>
    BY <1>3 DEF FileStep, panelVars, dialogVars
  <2> QED BY <2>1, <2>2 DEF KeptInv, Destined
<1>4. CASE Meddle
  <2>1. PICK p \in SyxPaths, content \in Foreign \cup {Missing} :
          disk' = [disk EXCEPT ![p] = content]
    BY <1>4 DEF Meddle
  <2>2. UNCHANGED <<temp, write, manager, itemId, dialog>>
    BY <1>4 DEF Meddle, panelVars
  <2>3. IsContent(content)
    BY StorageAssumption, OtherContent
  <2>4. \A q \in Paths : disk'[q] = disk[q] \/ disk'[q] = content
    BY <2>1 DEF IInv, Writes
  <2>5. Contents'
    BY <2>2, <2>3, <2>4 DEF KeptInv, Contents, Writing
  <2> QED BY <2>2, <2>5 DEF KeptInv, Destined
<1>5. CASE SaveSettings \/ ExportBundle
  <2>1. UNCHANGED <<disk, temp, manager, itemId, dialog>>
    BY <1>5 DEF SaveSettings, ExportBundle, panelVars, dialogVars
  <2>2. write' = write \/ IsContent(write'.content)
    BY <1>5, OtherContent DEF SaveSettings, SaveControls, ExportBundle, BeginWrite
  <2>3. Contents'
    BY <2>1, <2>2 DEF KeptInv, Contents, Writing
  <2> QED BY <2>1, <2>3 DEF KeptInv, Destined
<1>6. CASE Start \/ CaptureRoutes \/ WriteEnds \/ UNCHANGED vars
  <2>1. UNCHANGED <<disk, temp, manager, itemId, dialog>> /\ (write' = write \/ ~Writing')
    BY <1>6 DEF Start, CaptureRoutes, WriteEnds, vars, fileVars, panelVars, dialogVars, Writing, NoWrite
  <2>2. Contents'
    BY <2>1 DEF KeptInv, Contents, Writing
  <2> QED BY <2>1, <2>2 DEF KeptInv, Destined
<1> QED BY <1>1, <1>2, <1>3, <1>4, <1>5, <1>6 DEF Next

(* Whatever files are added and removed, every frame and every file of the   *)
(* workspace is marked as the same as exactly those it is the same as, in    *)
(* order, and what is held is counted: for all files and all hashes.         *)
THEOREM TrueEvidence == Spec => []EvidenceTrue
<1>1. Spec => []IInv
  BY InitIInv, NextKeeps, PTL DEF Spec
<1>2. Spec => []KeptInv
  BY <1>1, InitKept, NextKept, PTL DEF Spec
<1>3. KeptInv => EvidenceTrue
  BY DEF KeptInv, WellKept, EvidenceTrue, SizesOf
<1> QED BY <1>2, <1>3, PTL

=============================================================================
