------------------------------ MODULE Transfer ------------------------------
(***************************************************************************)
(* What a synchronization expects of the transfer of blobs it asked for:   *)
(* they arrive in any order; the transfer is done only when all are there  *)
(* or it fails, once.                                                      *)
(***************************************************************************)
CONSTANT Blobs

VARIABLES
    arrived,    \* the blobs in the destination's store
    outcome     \* "running", "done" or "failed"

vars == <<arrived, outcome>>

Init == arrived \in SUBSET Blobs /\ outcome = "running"

Arrive ==
    /\ arrived' \in SUBSET Blobs
    /\ arrived \subseteq arrived'
    /\ UNCHANGED outcome

Finish ==
    /\ outcome = "running"
    /\ \/ arrived = Blobs /\ outcome' = "done"
       \/ outcome' = "failed"
    /\ UNCHANGED arrived

Next == Arrive \/ Finish

Spec == Init /\ [][Next]_vars
=============================================================================
