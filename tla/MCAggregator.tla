---------------------------- MODULE MCAggregator ----------------------------
(* A small instance of Aggregator for TLC. *)
EXTENDS Aggregator

CONSTANTS i1, i2, host

SomeFrames == {{i1}, {i1, i2}}
=============================================================================
