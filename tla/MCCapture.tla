----------------------------- MODULE MCCapture ------------------------------
(* A small instance of Capture for TLC: the name of wlan contains that of  *)
(* eth, so that who asks for eth may be given wlan.                        *)
EXTENDS Capture

CONSTANTS eth, wlan, s1, s2, none

SomeMatches == [i \in {eth, wlan} |-> IF i = eth THEN {eth, wlan} ELSE {wlan}]
=============================================================================
