----------------------------- MODULE MCRenewBatch -----------------------------
(***************************************************************************)
(* RenewBatch on small instances.                                          *)
(***************************************************************************)
EXTENDS RenewBatch

\* The bounds admit no further batch.
Finished ==
    /\ batch.pc \in {"stopped", "ended"} /\ batches = MaxBatches
    /\ UNCHANGED vars

MCSpec == Init /\ [][Next \/ Finished]_vars
=============================================================================
