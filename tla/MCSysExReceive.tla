--------------------------- MODULE MCSysExReceive ---------------------------
(* Model values and bounds for SysExReceive. *)
EXTENDS SysExReceive

CONSTANTS g1, g2

MCGroups == <<g1, g2>>

(* Single bytes, one two-byte chunk that ends a frame and starts another. *)
WinmmInputs ==
  {Bytes("winmm", <<k>>) : k \in ByteKinds}
    \cup {Bytes("winmm", <<"end", "start">>), Loss("winmm", Midi1, TRUE),
          Loss("winmm", Midi1, FALSE)}

WmsInputs ==
  {Packet("wms", g, k) : g \in {g1, g2}, k \in PacketKinds \ {"other"}}
    \cup {Loss("wms", g, TRUE) : g \in {g1, g2}}

(* An external transport may mix both, and may not know the group. *)
ExternalInputs ==
  {Bytes("external", <<k>>) : k \in {"start", "data", "end"}}
    \cup {Packet("external", g1, k) : k \in PacketKinds}
    \cup {Loss("external", g, TRUE) : g \in {Midi1, g1}}

MCFeeds ==
  {[inputs |-> WinmmInputs,    length |-> 5],
   [inputs |-> WmsInputs,      length |-> 4],
   [inputs |-> ExternalInputs, length |-> 4]}

=============================================================================
