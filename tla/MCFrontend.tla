----------------------------- MODULE MCFrontend -----------------------------
(* A small instance of Frontend for TLC. *)
EXTENDS Frontend

CONSTANTS x, y, s1, s2
=============================================================================
