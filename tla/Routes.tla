------------------------------- MODULE Routes -------------------------------
(***************************************************************************)
(* Exact route identities (MidiTypes.cpp) and the text they are kept as    *)
(* between two runs of the program (RoutePersistence.cpp).                 *)
(*                                                                         *)
(* A text is its sequence of fields <<key, word>>; a word is a name or a   *)
(* number, or Broken: how either is spelled is left out.                   *)
(***************************************************************************)
EXTENDS Integers, Sequences

CONSTANTS
  Empty,       \* the empty name
  Broken,      \* a word that is no number, or no name that can be decoded
  Max16,       \* the largest number of 16 bits
  Max32        \* and of 32

RouteVersion == 1

Order == [
  wms      |-> <<"endpoint", "group">>,
  winmm    |-> <<"name", "wmid", "wpid", "driver">>,
  external |-> <<"provider", "endpoint">>]

Limits == [group |-> 15, wmid |-> Max16, wpid |-> Max16, driver |-> Max32]

Backends == DOMAIN Order

NativeKeys(backend) == {Order[backend][i] : i \in DOMAIN Order[backend]}

NoRoute == [backend |-> "none"]

Identity(backend, direction, native) ==
  [backend |-> backend, direction |-> direction, native |-> native]

(* Only a group can be held that is none: the others have their width.       *)
IsValid(route) ==
  /\ route.backend \in Backends
  /\ DOMAIN route.native = NativeKeys(route.backend)
  /\ \A key \in NativeKeys(route.backend) :
       IF key \in DOMAIN Limits THEN route.native[key] \in 0..Limits[key]
       ELSE route.native[key] # Empty

(* What the program's type can hold: any name is one that can be decoded.     *)
IsIdentity(route) ==
  /\ route = Identity(route.backend, route.direction, route.native)
  /\ route.direction \in {"input", "output"}
  /\ route.native = [key \in NativeKeys(route.backend) |-> route.native[key]]
  /\ \A key \in NativeKeys(route.backend) \ DOMAIN Limits : route.native[key] # Broken

-----------------------------------------------------------------------------
(* Texts. *)

Head3(version, backend, direction) ==
  << <<"version", version>>, <<"backend", backend>>, <<"direction", direction>> >>

SerializeRoute(route) ==
  Head3(RouteVersion, route.backend, route.direction) \o
  [i \in DOMAIN Order[route.backend] |->
     <<Order[route.backend][i], route.native[Order[route.backend][i]]>>]

KeysOf(text) == {text[i][1] : i \in DOMAIN text}

NoDuplicates(text) == \A i, j \in DOMAIN text : text[i][1] = text[j][1] => i = j

Word(text, key) == text[CHOOSE i \in DOMAIN text : text[i][1] = key][2]

(* The fields of a backend's identity, all there, each readable, no other.   *)
NativeReadable(text, backend) ==
  /\ KeysOf(text) = {"version", "backend", "direction"} \cup NativeKeys(backend)
  /\ \A key \in NativeKeys(backend) :
       IF key \in DOMAIN Limits THEN Word(text, key) \in 0..Limits[key]
       ELSE Word(text, key) # Broken

ReadableRoute(text) ==
  /\ NoDuplicates(text)
  /\ {"version", "backend", "direction"} \subseteq KeysOf(text)
  /\ Word(text, "version") = RouteVersion
  /\ Word(text, "direction") \in {"input", "output"}
  /\ Word(text, "backend") \in Backends
  /\ NativeReadable(text, Word(text, "backend"))

Decoded(text) ==
  LET backend == Word(text, "backend") IN
  Identity(backend, Word(text, "direction"),
           [key \in NativeKeys(backend) |-> Word(text, key)])

(* NoRoute stands for the failure.                                           *)
DeserializeRoute(text) ==
  IF ReadableRoute(text) /\ IsValid(Decoded(text)) THEN Decoded(text) ELSE NoRoute

=============================================================================
