------------------------------ MODULE MCMirror ------------------------------
(* Small instances, for TLC, of what makes up a picture: Mirror, on the    *)
(* frames of MCTables, and the names put on it, Protocols and Vendors.     *)
EXTENDS Mirror, MCTables, MCNames

VARIABLE part   \* the part a behaviour is about

(* The three parts share no state: a behaviour takes the steps of one, so  *)
(* that their states add up and do not multiply.                           *)
MCInit ==
    /\ part \in {"mirror", "protocols", "vendors"}
    /\ MInit /\ CInit /\ VInit
    /\ part # "protocols" => flow = CHOOSE f \in Flows : TRUE

(* A bound has been reached, or the registry has ended. *)
Over == part \in {"protocols", "vendors"}

MCNext ==
    \/ part = "mirror" /\ MNext /\ UNCHANGED <<cvars, vvars, part>>
    \/ part = "protocols" /\ CNext /\ UNCHANGED <<mvars, vvars, part>>
    \/ part = "vendors" /\ VNext /\ UNCHANGED <<mvars, cvars, part>>
    \/ Over /\ UNCHANGED <<mvars, cvars, vvars, part>>

MCSpec == MCInit /\ [][MCNext]_<<mvars, cvars, vvars, part>>
=============================================================================
