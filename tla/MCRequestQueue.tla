--------------------------- MODULE MCRequestQueue ---------------------------
(* Instances of RequestQueue for TLC. *)
EXTENDS RequestQueue, TLC

CONSTANTS r1, r2

MCOne == {r1}
MCTwo == {r1, r2}

MCUins == {1}

MCLifeAndNetwork == {"login", "logout", "network"}
MCNetwork == {"network"}

MCSymmetry == Permutations(Requests)
=============================================================================
