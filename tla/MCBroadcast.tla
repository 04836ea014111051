---------------------------- MODULE MCBroadcast -----------------------------
(* Small instances of Broadcast for TLC. *)
EXTENDS Broadcast

CONSTANTS m1, m2, i1, host, tab, other

Frame(a, b, l3) == [src_mac |-> a, dst_mac |-> b, wire_len |-> 1, l3 |-> l3]

(* One conversation between two MACs, and one of m1 with itself. *)
MCPackets == {Frame(m1, m2, NoL3)}
MCTwoPackets == MCPackets \cup {Frame(m1, m1, NoL3)}

(* m1 alone, at both layers, so that a tick has messages of both views.    *)
MCLoopPackets == {Frame(m1, m1, [src |-> i1, dst |-> i1])}
MCMixed == {Frame(m1, m2, [src |-> i1, dst |-> i1])}
MCFades == {1}
=============================================================================
