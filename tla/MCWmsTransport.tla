--------------------------- MODULE MCWmsTransport ---------------------------
(***************************************************************************)
(* WmsTransport with two devices, opened for receiving, sending or both,   *)
(* on one device and on two.                                               *)
(***************************************************************************)
EXTENDS WmsTransport

CONSTANTS Synth, Drums

At0(endpoint) == [endpoint |-> endpoint, group |-> 0]
At1(endpoint) == [endpoint |-> endpoint, group |-> 1]

MCRequests == {
  [rx |-> At0(Synth), tx |-> At1(Synth)],
  [rx |-> At0(Synth), tx |-> At0(Drums)],
  [rx |-> At1(Drums), tx |-> NoRoute],
  [rx |-> NoRoute,    tx |-> At0(Synth)]}

=============================================================================
