--------------------------- MODULE MCTransferDesk ---------------------------
(***************************************************************************)
(* TransferDesk with a frame that two profiles claim, one that none does   *)
(* and one that is not whole.                                              *)
(***************************************************************************)
EXTENDS TransferDesk

CONSTANTS claimed, plain, broken, p1, p2, t1, t2

MCFrames   == {claimed, plain, broken}
MCVerified == {claimed, plain}
MCProfiles == {p1, p2}
MCPrints   == [f \in MCFrames |-> IF f = plain THEN {} ELSE {p1}]
MCTotals   == 1..2
MCRoutes   == {t1, t2}
MCConnections == {[rx |-> TRUE, tx |-> t1], [rx |-> FALSE, tx |-> t2]}
MCFiles    == {<<claimed>>, <<plain, plain>>}

(* A file whose frame overrides the profile chosen, and a finished capture. *)
MCStart ==
  {Loaded(SelectedTemporary(NewSession, p2), <<claimed>>),
   Finished(BegunReceive(NewSession), <<plain>>)}

=============================================================================
