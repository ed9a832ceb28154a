--------------------------- MODULE MCRunWorkspace ---------------------------
(***************************************************************************)
(* RunWorkspace for TLC: lease ids are interchangeable, and so are the     *)
(* contents of files.                                                      *)
(***************************************************************************)
EXTENDS RunWorkspace, TLC

Symmetry == Permutations(LeaseIds) \cup Permutations(Hashes)

\* The cleanup ticker reads the clock and prunes.  The context's mutex is fair:
\* a waiter that keeps finding it taken is served in the end.
Cleanup == CleanupExpired(now)

FairSpec == Spec /\ SF_vars(Cleanup)
=============================================================================
