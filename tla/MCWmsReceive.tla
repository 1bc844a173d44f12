---------------------------- MODULE MCWmsReceive ----------------------------
(* Model values, scripts and bounds for WmsReceive. *)
EXTENDS WmsReceive

CONSTANTS g1, g2

MCGroups == <<g1, g2>>

Ump(g, k) == Packet("wms", g, k)

(* Two frames of the route's group that overflow the queue more than once. *)
TwoFrames == <<Ump(g1, "start"), Ump(g1, "continuation"), Ump(g1, "continuation"),
               Ump(g1, "end"), Ump(g1, "start"), Ump(g1, "continuation"), Ump(g1, "end")>>

(* Other traffic between: a groupless message, a packet off the route. *)
Mixture == <<Ump(g1, "start"), Ump(g2, "other"), Ump(g1, "continuation"),
             Ump(g2, "other"), Ump(g2, "start"), Ump(g1, "end"), Ump(g1, "complete")>>

(* Whatever an endpoint may send on the route in four packets. *)
AnyFour == [1..4 -> {Ump(g1, k) : k \in {"start", "continuation", "end"}}]

MCScripts == {TwoFrames, Mixture} \cup AnyFour

=============================================================================
