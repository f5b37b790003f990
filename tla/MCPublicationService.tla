------------------------- MODULE MCPublicationService -------------------------
(***************************************************************************)
(* PublicationService on small instances.                                  *)
(***************************************************************************)
EXTENDS CertificateRefinement, Metrics, TLC

\* The bounds admit no further run: the history ends here.  Any other state
\* without a successor is a deadlock.
Finished ==
    /\ lock = Free /\ ~MayStart
    /\ UNCHANGED vars

MCNext == Next \/ Finished

MCSpec == Init /\ [][MCNext]_vars

MCFairSpec == MCSpec /\ Fairness

Symmetry == Permutations(Process)
=============================================================================
