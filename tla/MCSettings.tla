----------------------------- MODULE MCSettings -----------------------------
(* Small instances of Settings for TLC. *)
EXTENDS Settings

CONSTANTS a, b, i1, i2

(* 1 is below FadeMin, which is 2. *)
MCValues == {1, 3}
MCIfaces == {i1, i2}

(* The enumeration of the interfaces may fail. *)
MCLists == {MCIfaces, {}}
=============================================================================
