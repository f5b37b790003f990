-------------------------------- MODULE Http01 --------------------------------
(***************************************************************************)
(* Challenge files: how they are written and removed, what the responder   *)
(* serves of them, and the self check that precedes an issuance.           *)
(***************************************************************************)
EXTENDS AcmeState

\* A challenge file of the run in progress.
File(token) == [run |-> runs, token |-> token]

\* The responder answers with a file at the token's own path, never with a
\* temporary one: its name is no token.
Served == {f.token : f \in {g \in webroot : g.run = runs}}

\* _write_challenge up to os.replace.
WriteTemporary(token) == temps' = temps \union {File(token)} /\ UNCHANGED webroot

\* os.replace: the file appears with all of its content.
Publish(token) ==
    /\ temps' = temps \ {File(token)}
    /\ webroot' = webroot \union {File(token)}

\* _remove_challenge
Remove(token) == webroot' = webroot \ {File(token)} /\ UNCHANGED temps

-----------------------------------------------------------------------------
(***************************************************************************)
(* Http01Preflight.run.  What the addresses of the domains answer is       *)
(* outside the system: the check passes, or it raises.                     *)
(***************************************************************************)
SelfCheckTemporary ==
    /\ At("selfCheckTemporary", "selfCheckPublish")
    /\ WriteTemporary(Synthetic)
    /\ UNCHANGED <<accountKey, store, runs, faults>>

SelfCheckPublish ==
    /\ At("selfCheckPublish", "selfCheck")
    /\ Publish(Synthetic)
    /\ UNCHANGED <<accountKey, store, runs, faults>>

SelfCheckPasses ==
    /\ Synthetic \in Served
    /\ At("selfCheck", "selfCheckDone")
    /\ UNCHANGED <<accountKey, challenge, store, runs, faults>>

\* The synthetic file is removed whatever the outcome.
SelfCheckRemove ==
    /\ \/ At("selfCheckDone", "load")
       \/ At("selfCheckFailed", "stopped")
    /\ Remove(Synthetic)
    /\ UNCHANGED <<accountKey, store, runs, faults>>

Preflight ==
    SelfCheckTemporary \/ SelfCheckPublish \/ SelfCheckPasses \/ SelfCheckRemove
=============================================================================
