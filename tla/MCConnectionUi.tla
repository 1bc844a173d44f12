--------------------------- MODULE MCConnectionUi ---------------------------
(***************************************************************************)
(* ConnectionUi where Windows MIDI Services has one route and WinMM two.   *)
(***************************************************************************)
EXTENDS ConnectionUi

CONSTANTS r1, r2, r3

MCBackends == {Wms, Winmm}
MCRoutes   == {r1, r2, r3}
MCDevices  == [b \in MCBackends |-> IF b = Wms THEN {r1} ELSE {r2, r3}]

=============================================================================
