--------------------------- MODULE OneShotTransfer ---------------------------
(***************************************************************************)
(* What a transfer attempt promises its owner, without threads, locks or   *)
(* condition variables: an attempt begins at most once, counts accepted    *)
(* messages one at a time up to its total, and ends in exactly one         *)
(* terminal phase that never changes again.  An attempt cancelled before   *)
(* it began is over.  TransferEngine is shown to implement this module.    *)
(***************************************************************************)
EXTENDS Naturals

CONSTANT Totals        \* the sizes a message list can have

VARIABLES phase,       \* "idle", "active" or one of Ended
          total,       \* messages of the attempt
          accepted     \* messages the transport took so far

absVars == <<phase, total, accepted>>

Ended == {"completed", "cancelled", "failed"}

AbsInit ==
  /\ phase = "idle"
  /\ total = 0
  /\ accepted = 0

Begin ==
  /\ phase = "idle"
  /\ phase' = "active"
  /\ total' \in Totals
  /\ accepted' = 0

Accept ==
  /\ phase = "active"
  /\ accepted < total
  /\ accepted' = accepted + 1
  /\ UNCHANGED <<phase, total>>

End ==
  /\ phase = "active"
  /\ \/ phase' = "completed" /\ accepted = total
     \/ phase' \in {"cancelled", "failed"}
  /\ UNCHANGED <<total, accepted>>

CancelIdle ==
  /\ phase = "idle"
  /\ phase' = "cancelled"
  /\ UNCHANGED <<total, accepted>>

AbsNext == Begin \/ Accept \/ End \/ CancelIdle

AbsSpec == AbsInit /\ [][AbsNext]_absVars
=============================================================================
