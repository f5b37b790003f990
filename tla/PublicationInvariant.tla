------------------------- MODULE PublicationInvariant -------------------------
(***************************************************************************)
(* The inductive strengthening of PublicationService's invariants.         *)
(***************************************************************************)
EXTENDS PublicationService

\* Steps of PublicationReconciler.publish once its row is persisted.
PublishSteps ==
    {"getCertificate", "getCurrent", "reconciled", "find", "upload",
     "uploaded", "findUploaded", "pendingVerified", "refresh", "promote",
     "confirm", "currentConfirmed", "record", "closeReconciled",
     "recordRenewal", "complete"}

RollbackSteps ==
    {"previousVersion", "rollbackEtag", "rollbackReconciled", "restore",
     "rollbackConfirm", "rollbackConfirmed", "recordRollback",
     "rollbackAuditPending", "rollbackAudit", "rollbackComplete"}

AuditSteps ==
    {"auditPending", "auditBundle", "audit", "recordAudit", "auditComplete",
     "closeAudits"}

\* Steps at which the process has read the version it works on.
VersionSteps ==
    (PublishSteps \ {"getCertificate", "getCurrent"})
    \union (RollbackSteps \ {"previousVersion"}) \union {"schedule"}

\* Steps of _complete and the confirmation before it.
ConfirmedSteps ==
    {"currentConfirmed", "record", "closeReconciled", "recordRenewal", "complete"}

\* Only the holder of the lock is at work.
LockInv == \A p \in Process : proc[p].pc # "idle" => lock = p

\* A process works on the row it inserted, for the leaf it loaded.
OwnRow(p) ==
    /\ proc[p].pc \in PublishSteps =>
          /\ proc[p].op \in DOMAIN ops
          /\ proc[p].cmd \in Publishing
          /\ ops[proc[p].op].type = proc[p].cmd
          /\ ops[proc[p].op].fp = proc[p].fp
          /\ proc[p].fp = local
    /\ proc[p].pc \in RollbackSteps =>
          proc[p].op \in DOMAIN ops /\ ops[proc[p].op].type = "ROLLBACK"
    /\ proc[p].pc \in AuditSteps =>
          proc[p].op \in DOMAIN ops /\ ops[proc[p].op].type = "AUDIT"
    /\ proc[p].pc \in {"start", "renew"} => proc[p].cmd \in Publishing

\* A process works on a version that exists, and after the confirmation on
\* one that carries its leaf.
OwnVersion(p) ==
    /\ proc[p].pc \in VersionSteps => proc[p].version \in DOMAIN oci.versions
    /\ proc[p].pc \in ConfirmedSteps => oci.versions[proc[p].version] = proc[p].fp

\* A request in flight names something that exists.
NetInv ==
    \A req \in net :
        /\ req.kind = "upload" => req.arg \in 1..local
        /\ req.kind # "upload" => req.arg \in DOMAIN oci.versions

TypeInv ==
    /\ TypeOK
    /\ LockInv
    /\ \A p \in Process : OwnRow(p) /\ OwnVersion(p)
    /\ NetInv

-----------------------------------------------------------------------------
(***************************************************************************)
(* Why no leaf is imported twice: the versions are in the order of issue,  *)
(* and an upload that is yet to be executed is conditional on the etag     *)
(* under which its leaf was seen to be newer than all of them.             *)
(***************************************************************************)
Newer(fp) == \A i \in DOMAIN oci.versions : oci.versions[i] < fp

NoLag == oci.listed = Len(oci.versions)

EtagInv ==
    /\ \A req \in net :
          /\ req.etag <= oci.etag
          /\ req.kind = "upload" /\ req.etag = oci.etag => Newer(req.arg)
    /\ \A p \in Process :
          /\ proc[p].etag <= oci.etag
          /\ proc[p].pc = "upload" /\ proc[p].etag = oci.etag => Newer(proc[p].fp)

ImportInv ==
    /\ NoLag
    /\ NoDuplicateVersion
    /\ \A i \in DOMAIN oci.versions : oci.versions[i] <= local
    /\ EtagInv
=============================================================================
