---------------------------- MODULE ProfileMatch ----------------------------
(***************************************************************************)
(* Which device profile is chosen for a SysEx frame: the deterministic     *)
(* rules of src/src/profiles/ProfileRegistry.cpp.  A frame is a model      *)
(* value; what its bytes say is given by Verified (complete and untouched  *)
(* by data loss) and Prints (the profiles one of whose fingerprints it     *)
(* carries).  The session supplies neither a native nor a universal        *)
(* identity, so fingerprints are the only device evidence.                 *)
(***************************************************************************)
EXTENDS FiniteSets

CONSTANTS
  Frames,      \* captured or loaded frames
  Verified,    \* those that are complete and not affected by data loss
  Profiles,    \* the registered profiles of real devices
  Prints,      \* the profiles each frame carries a fingerprint of
  Fallback     \* the registered Generic profile, or None

None == "none"

ASSUME ProfileMatchAssumption ==
  /\ Verified \subseteq Frames
  /\ Prints \in [Frames -> SUBSET Profiles]
  /\ Fallback \notin Profiles
  /\ None \notin Profiles

Statuses == {"no match", "invalid", "explicit", "confident", "ambiguous", "fallback"}

Result(status, selected) == [status |-> status, selected |-> selected, overridden |-> None]

Results ==
  [status : Statuses, selected : Profiles \cup {Fallback, None},
   overridden : Profiles \cup {None}]

NoResult == Result("no match", None)

GenericFallback ==
  IF Fallback = None THEN NoResult ELSE Result("fallback", Fallback)

(* Several profiles with equal evidence select none of them. *)
FromCandidates(candidates) ==
  IF Cardinality(candidates) = 1
  THEN Result("confident", CHOOSE p \in candidates : TRUE)
  ELSE Result("ambiguous", None)

(* The user's temporary choice, where device evidence decided otherwise. *)
WithOverriddenManual(result, manual) ==
  IF result.selected = manual THEN result ELSE [result EXCEPT !.overridden = manual]

Resolved(profile) ==
  IF profile \in Profiles THEN Result("explicit", profile) ELSE Result("invalid", None)

Match(frame, saved, manual) ==
  IF frame \notin Verified THEN Result("invalid", None)
  ELSE IF saved # None THEN Resolved(saved)
  ELSE IF Prints[frame] # {}
  THEN WithOverriddenManual(FromCandidates(Prints[frame]), manual)
  ELSE IF manual # None THEN Resolved(manual)
  ELSE GenericFallback

=============================================================================
