------------------------------ MODULE MCTables ------------------------------
(* A small instance of Tables for TLC. *)
EXTENDS Tables

CONSTANTS m1, m2, m3, i1, i2, host

(* m1 and m2 exchange frames between i1 and i2; i1 also speaks from m3,    *)
(* which sends a frame without L3 too, and m1 sends a frame to itself.     *)
Sent(a, b, l3) == [src_mac |-> a, dst_mac |-> b, wire_len |-> 1, l3 |-> l3]
Flow(a, b) == [src |-> a, dst |-> b]

MCPackets ==
    {Sent(m1, m2, Flow(i1, i2)), Sent(m2, m1, Flow(i2, i1)),
     Sent(m3, m2, Flow(i1, i2)), Sent(m3, m1, NoL3),
     Sent(m1, m1, Flow(i1, i1))}

MCFades == {1, 2}
=============================================================================
