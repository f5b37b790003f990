---------------------------- MODULE MCAcmeService ----------------------------
(***************************************************************************)
(* AcmeService on small instances.                                         *)
(***************************************************************************)
EXTENDS AcmeService

\* The bounds admit no further run.
Finished ==
    /\ run.pc = "stopped" /\ runs = MaxRuns
    /\ UNCHANGED vars

MCNext == Next \/ Finished

MCSpec == Init /\ [][MCNext]_vars

MCFairSpec == MCSpec /\ Fairness
=============================================================================
