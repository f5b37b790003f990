------------------------------ MODULE MCLiveProbe ------------------------------
(***************************************************************************)
(* LiveProbe on small instances.                                           *)
(***************************************************************************)
EXTENDS LiveProbe

CONSTANTS a1, a2

\* One endpoint with two addresses.
MCEndpoints == <<{a1, a2}>>

\* The bounds admit no further command.
Finished ==
    /\ lock = Free /\ ~(MayBegin /\ local < MaxIssued)
    /\ UNCHANGED probeVars

MCNext == ProbeNext \/ Finished

MCSpec == ProbeInit /\ [][MCNext]_probeVars
=============================================================================
