------------------------------ MODULE MCBootstrap ------------------------------
(***************************************************************************)
(* Bootstrap on small instances.                                           *)
(***************************************************************************)
EXTENDS Bootstrap

\* The bounds, or a confirmed identity, leave nothing to do.
Finished ==
    /\ run.pc = "stopped"
    /\ ~MayStart \/ ConfirmedOcids # {}
    /\ UNCHANGED vars

MCNext == Next \/ Finished

MCSpec == Init /\ [][MCNext]_vars

MCFairSpec == MCSpec /\ Fairness
=============================================================================
