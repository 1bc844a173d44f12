---------------------------- MODULE MCStreamQueue ----------------------------
(* Model values, scripts and bounds for StreamQueue. *)
EXTENDS StreamQueue

CONSTANTS g1, g2

MCGroups == <<g1, g2>>

Byte(k)   == Bytes("winmm", <<k>>)
Ump(g, k) == Packet("wms", g, k)

(* One frame after another on WinMM, with a realtime byte inside; the bytes  *)
(* may come in chunks that end one frame and start the next.                 *)
ByteFrames == <<Byte("start"), Byte("data"), Byte("end"), Byte("start"), Byte("end")>>

ByteChunks == <<Bytes("winmm", <<"start", "data">>), Byte("realtime"),
                Bytes("winmm", <<"end", "start">>), Byte("data"), Byte("end")>>

(* Frames of one group, among the transport's own loss events. *)
GroupFrames == <<Ump(g1, "start"), Ump(g1, "continuation"), Ump(g1, "end"),
                 Ump(g1, "complete")>>

GroupLosses == <<Ump(g1, "start"), Loss("wms", g1, TRUE), Ump(g1, "end"),
                 Ump(g1, "start"), Ump(g1, "end")>>

(* Two groups interleaved; UMP messages whose type has no group, so that the *)
(* bits read as one are other data.                                          *)
TwoGroups == <<Ump(g1, "start"), Ump(g2, "complete"), Ump(g1, "continuation"),
               Ump(g2, "complete"), Ump(g1, "end")>>

Groupless == <<Ump(g1, "start"), Ump(g2, "other"), Ump(g1, "continuation"),
               Ump(g2, "other"), Ump(g1, "end")>>

MCScripts    == {ByteFrames, ByteChunks, GroupFrames, GroupLosses, TwoGroups}
MixedScripts == {Groupless}

=============================================================================
