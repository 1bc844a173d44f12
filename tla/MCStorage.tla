----------------------------- MODULE MCStorage -----------------------------
(***************************************************************************)
(* Storage with two .syx paths: a file that has a frame twice, the same    *)
(* with a real-time byte between, one with an incomplete frame; bytes that *)
(* all hash alike; settings files of an older version, damaged, with a     *)
(* garbled path, and missing (those of this version are what the program   *)
(* saves; a newer one is below).                                           *)
(***************************************************************************)
EXTENDS Storage, TLC

CONSTANTS First, Second, Dump, Piece, Bare, Clock

MCPaths    == {First, Second, SettingsPath, BundlePath}
MCSyxPaths == {First, Second}

MCBytes       == {Dump, Piece, Bare, Clock}
MCHash(bytes) == 0
MCSize(bytes) == IF bytes \in {Bare, Clock} THEN 1 ELSE 2
MCHollow      == {Bare}

Whole(bytes)  == [bytes |-> bytes, status |-> "complete", tainted |-> FALSE]
Cut(bytes)    == [bytes |-> bytes, status |-> "incomplete", tainted |-> FALSE]

MCParsed(bytes) ==
  CASE bytes = Clock -> <<>> [] bytes = Piece -> <<Cut(Piece)>> [] OTHER -> <<Whole(bytes)>>

SyxFile(raw) == [form |-> "syx", raw |-> raw]
Twice        == SyxFile(<<Dump, Dump>>)
Timed        == SyxFile(<<Dump, Clock, Dump>>)
Mixed        == SyxFile(<<Bare, Piece>>)
MCForeign       == {Mixed}

Old     == [form |-> "settings",
            fields |-> [key \in {"version", "theme"} |->
                          IF key = "version" THEN <<"number", 0>> ELSE <<"policy", "dark">>]]
Newer   == [form |-> "settings", fields |-> [key \in {"version"} |-> <<"number", 2>>]]
Damaged == [Old EXCEPT !.fields = @ @@ [key \in {"log_level"} |-> <<"policy", "loud">>]]
Foul    == [Old EXCEPT !.fields = @ @@ [key \in {"log_destination"} |-> <<"path", Garbled>>]]
Longest == [Defaults EXCEPT !.monitor_history_limit = MaxEntries]

MCDisks ==
  {(First :> Twice) @@ (Second :> pair[1]) @@ (SettingsPath :> pair[2]) @@ (BundlePath :> Missing) :
     pair \in {<<Timed, Missing>>} \cup {Missing} \X {Old, Damaged, Foul}}

MCDials == {Longest, [Defaults EXCEPT !.log_level = "error", !.log_rotation_entries = 1,
                                      !.include_route_identity_in_bundle = FALSE]}

Winmm(direction) ==
  Identity("winmm", direction, [name |-> "synth", wmid |-> 1, wpid |-> Max16, driver |-> 0])
Wms(group)       == Identity("wms", "input", [endpoint |-> "synth", group |-> group])

MCObserved == {Winmm("output"), Wms(15)}

(* What is saved is read back as it was, whatever the controls and the       *)
(* routes are; a text that is not a route is not read as one.                *)
ASSUME ReadBack == \A dial \in MCDials, rx \in {NoRoute, Wms(0), Wms(15), Winmm("input")} :
  LET saved == [dial EXCEPT !.preferred_receive_route = rx] IN
  /\ Serializable(saved)
  /\ Load(Serialize(saved)) = [settings |-> saved, status |-> "loaded"]

(* A newer version is not read; a path that is garbled ends the load only of *)
(* what could be read up to there.                                           *)
ASSUME NotRead ==
  /\ Load(Newer) = Fallback("future") /\ ~LoadThrows(Newer)
  /\ LoadThrows(Foul)
  /\ ~LoadThrows([Foul EXCEPT !.fields = @ @@ Damaged.fields])
  /\ LoadThrows([Foul EXCEPT !.fields = @ @@ [key \in {"preferred_receive_route"} |-> <<"path", Broken>>]])

ASSUME NoOtherRoute ==
  LET text     == SerializeRoute(Winmm("input"))
      Set(i, word) == [text EXCEPT ![i][2] = word]
      without(i)   == [j \in 1..(Len(text) - 1) |-> text[IF j < i THEN j ELSE j + 1]] IN
  /\ DeserializeRoute(text) = Winmm("input")
  /\ \A i \in DOMAIN text : /\ DeserializeRoute(without(i)) = NoRoute
                            /\ DeserializeRoute(Append(text, text[i])) = NoRoute
                            /\ DeserializeRoute(Set(i, Broken)) = NoRoute
  /\ DeserializeRoute(Set(2, "wms")) = NoRoute
  /\ DeserializeRoute(Set(4, Empty)) = NoRoute
  /\ ~Serializable([Defaults EXCEPT !.preferred_receive_route = Wms(16)])
  /\ ~Serializable([Defaults EXCEPT !.preferred_receive_route = Winmm("output")])

=============================================================================
