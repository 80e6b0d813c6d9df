------------------------------ MODULE MCLetters ------------------------------
(* Instances of Letters for TLC. *)
EXTENDS Letters

(* Two users; a user may be their own friend. *)
Two == {1, 2}
=============================================================================
