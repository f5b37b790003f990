-------------------------- MODULE PublicationService --------------------------
(***************************************************************************)
(* Every command of the publisher on one certificate set, run by any       *)
(* number of processes on one host, against an OCI certificate that only   *)
(* they modify.                                                            *)
(***************************************************************************)
EXTENDS Reconciler, RollbackService, TlsAudit, RetentionService

Step(p) == Reconcile(p) \/ Rollback(p) \/ Audit(p) \/ Retention(p) \/ Return(p)

Environment ==
    \/ \E req \in net : ArriveLate(req)
    \/ ListingSettles
    \/ RetrievalSettles
    \/ Expire

Next ==
    \/ \E p \in Process : Step(p) \/ Die(p) \/ \E cmd \in Commands : Acquire(p, cmd)
    \/ Environment

Spec == Init /\ [][Next]_vars

\* A process that holds the lock goes on, the timer starts another run when
\* the lock is free, requests in flight arrive and OCI's reads catch up.
Fairness ==
    /\ \A p \in Process : WF_vars(Step(p))
    /\ WF_vars(\E p \in Process, cmd \in Commands : Acquire(p, cmd))
    /\ WF_vars(\E req \in net : ArriveLate(req))
    /\ WF_vars(ListingSettles)
    /\ WF_vars(RetrievalSettles)

FairSpec == Spec /\ Fairness

-----------------------------------------------------------------------------
Labels ==
    {"idle", "return", "renew", "start", "getCertificate", "getCurrent",
     "reconciled", "find", "upload", "uploaded", "findUploaded",
     "pendingVerified", "refresh", "promote", "confirm", "currentConfirmed",
     "record", "closeReconciled", "recordRenewal", "complete",
     "rollbackStart", "previousVersion", "rollbackEtag", "rollbackReconciled",
     "restore", "rollbackConfirm", "rollbackConfirmed", "recordRollback",
     "rollbackAuditPending", "rollbackAudit", "rollbackComplete",
     "auditStart", "auditPending", "auditBundle", "audit", "recordAudit",
     "auditComplete", "closeAudits",
     "retentionPlan", "retentionNext", "schedule"}

ProcessState ==
    [pc : Labels, cmd : AllCommands \union {"NONE"}, op : Nat, fp : Nat,
     now : Nat, etag : Nat, version : Nat, attempt : Nat, plan : SUBSET Nat]

\* The types of the durable state, the remote state and the processes'
\* locals, and that every number that names a row or a version names one
\* that exists (what start_operation and the OCI reads returned).
TypeOK ==
    /\ WellFormed(oci)
    /\ net \subseteq Request
    /\ ops \in Seq(Operation)
    /\ certState \in CertificateState
    /\ local \in Nat \ {0} /\ expired \in Nat /\ faults \in Nat
    /\ lock \in Process \union {Free}
    /\ proc \in [Process -> ProcessState]
    /\ \A p \in Process : /\ proc[p].op \in 0..Len(ops)
                          /\ proc[p].version \in 0..Len(oci.versions)
                          /\ proc[p].plan \subseteq DOMAIN oci.versions

(***************************************************************************)
(* Safety.                                                                 *)
(***************************************************************************)

\* However runs are killed and requests delayed, each leaf is imported at
\* most once and in the order of issue, provided the listing is current:
\* the etag of Upload is read before the listing that Find searches.
NoDuplicateVersion ==
    \A i, j \in DOMAIN oci.versions : i < j => oci.versions[i] < oci.versions[j]

\* A publication whose row is COMPLETED, by its own run or closed by a later
\* one, names a version that carries the leaf it set out to publish.
CompletedIsTruthful ==
    \A i \in DOMAIN ops :
        ops[i].state = "COMPLETED" /\ ops[i].type \in Publishing =>
            /\ ops[i].version \in DOMAIN oci.versions
            /\ oci.versions[ops[i].version] = ops[i].fp

\* CURRENT is the recorded version, or an open row names it: what status
\* reports is out of date only while an operation is reported as open.
CurrentIsAccountedFor ==
    \/ oci.current = certState.version
    \/ \E i \in Active(ops) : ops[i].version = oci.current

\* A version that was uploaded and never promoted belongs to an open row of
\* its leaf: the next run of that leaf finds it instead of importing it again.
PendingIsRemembered ==
    oci.pending # NoVersion =>
        \E i \in Active(ops) : ops[i].fp = oci.versions[oci.pending]

\* Deletion is never scheduled for a version in use or kept for rollback.
DeletionIsSafe == oci.deleted \intersect Protected(oci) = {}

\* CURRENT goes back to an older leaf only on behalf of an open rollback.
OnlyRollbackRegresses ==
    [][oci'.versions[oci'.current] < oci.versions[oci.current] =>
          \E i \in Active(ops) : ops[i].type = "ROLLBACK" /\ ops[i].version = oci'.current]_vars

(***************************************************************************)
(* Liveness.                                                               *)
(***************************************************************************)

\* CURRENT ends up carrying the local leaf, with no open row of that leaf.
Converges ==
    <>[](/\ oci.versions[oci.current] = local
         /\ \A i \in Active(ops) : ops[i].fp # local)

\* What publish insists on: the CURRENT bundle it is served has not expired.
ServedIsValid == IsValid(oci.versions[oci.served], expired)

\* Leaves may expire, but as long as CURRENT is replaced in time, neither a
\* lagging read nor what interrupted runs left keeps it from being replaced
\* again and their rows from being closed.
ConvergesInTime == []ServedIsValid => Converges
=============================================================================
