--------------------------- MODULE RetentionService ---------------------------
(***************************************************************************)
(* plan_retention and PublicationService.retention: deletion is scheduled  *)
(* for old DEPRECATED versions that no open operation refers to, after the *)
(* newest KeepDeprecated of them.                                          *)
(***************************************************************************)
EXTENDS Publisher

\* Mutant: the versions of open operations are not protected.
ReferencedNothing == {}

Referenced == {ops[i].version : i \in Active(ops)}

\* Mutant: the stages of a version are not looked at.
EligibleInAnyStage(oldest) ==
    {v \in (1..oci.listed) \ (Referenced \union oci.deleted) : v <= oldest}

\* Versions are created in the order of their numbers, so the ones that are
\* minimum_age_days old are the ones up to some number.
Eligible(oldest) ==
    {v \in Deprecated(oci) \ (Referenced \union oci.deleted) : v <= oldest}

\* plan_retention: all but the newest KeepDeprecated eligible versions.
Plan(oldest) ==
    {v \in Eligible(oldest) : Cardinality({w \in Eligible(oldest) : w > v}) >= KeepDeprecated}

RetentionPlan(p) ==
    /\ proc[p].pc = "retentionPlan"
    /\ \E oldest \in 0..oci.listed :
         Become(p, [proc[p] EXCEPT !.pc = "retentionNext",
                                   !.plan = IF RetentionEnabled THEN Plan(oldest) ELSE {}])
    /\ UNCHANGED <<oci, net, ops, certState, local, expired, lock, faults>>

\* The next version of the plan, newest first, and a fresh etag; its stages
\* are not looked at again.
RetentionNext(p) ==
    /\ proc[p].pc = "retentionNext"
    /\ \/ /\ proc[p].plan = {}
          /\ Go(p, "return")
       \/ \E v \in proc[p].plan :
            /\ \A w \in proc[p].plan : w <= v
            /\ Become(p, [proc[p] EXCEPT !.pc = "schedule", !.version = v,
                                         !.etag = oci.etag,
                                         !.plan = proc[p].plan \ {v}])
    /\ UNCHANGED <<oci, net, ops, certState, local, expired, lock, faults>>

\* Any failure ends the command: after a publication it is swallowed.
Schedule(p) ==
    LET req == DeleteRequest(proc[p].etag, proc[p].version) IN
    /\ proc[p].pc = "schedule"
    /\ \/ Succeeds(req) /\ Go(p, "retentionNext") /\ UNCHANGED lock
       \/ Refused(req) /\ Exit(p)
       \/ Ambiguous(req) /\ Exit(p)
    /\ UNCHANGED <<ops, certState, local, expired>>

Retention(p) == RetentionPlan(p) \/ RetentionNext(p) \/ Schedule(p)
=============================================================================
