-------------------------- MODULE CertificateInvariant --------------------------
(***************************************************************************)
(* The inductive strengthening behind CurrentIsAccountedFor, DeletionIsSafe, *)
(* PendingIsRemembered, OnlyRollbackRegresses and the refinement of        *)
(* ManagedCertificate: what grounds a request that OCI may still execute,  *)
(* CURRENT while it is not recorded, and the next call of the process at   *)
(* work.                                                                   *)
(***************************************************************************)
EXTENDS CertificateRefinement, PublicationInvariant

\* Only publications concern a leaf, and audits no version.
LeafRows ==
    \A i \in DOMAIN ops : /\ ops[i].type \notin Publishing => ops[i].fp = Null
                          /\ ops[i].type = "AUDIT" => ops[i].version = Null

\* An open row that announces a version which it may put in use.
Backs(i, v) ==
    /\ i \in Active(ops) /\ ops[i].version = v
    /\ \/ ops[i].type = "ROLLBACK"
       \/ ops[i].type \in Publishing /\ ops[i].fp = oci.versions[v]

\* A row that complete_reconciled_operations does not close for leaf fp; none
\* is closed for Null.
Spared(i, fp) == ops[i].fp = Null \/ ops[i].fp # fp

\* CURRENT is announced by a row that a publication of leaf fp spares.
CurrentBacked(fp) == \E i \in Active(ops) : Backs(i, oci.current) /\ Spared(i, fp)

\* So is a version that may replace it: a newer one, or one to go back to.
Backed(v, fp) ==
    \E i \in Active(ops) :
        /\ Backs(i, v) /\ Spared(i, fp)
        /\ ops[i].type # "ROLLBACK" => oci.versions[oci.current] < oci.versions[v]

\* An open row for a leaf.
Remembered(leaf) == \E i \in Active(ops) : ops[i].fp = leaf

\* A version that nothing uses or may put in use.
Disposable(v) == v \in DOMAIN oci.versions \ (Protected(oci) \union Referenced)

-----------------------------------------------------------------------------
(***************************************************************************)
(* Requests.                                                               *)
(***************************************************************************)

\* OCI may execute the request without breaking a promise.
Grounded(req) ==
    /\ req.kind = "upload" => Remembered(req.arg)
    /\ req.kind = "promote" => Backed(req.arg, Null) /\ req.arg \notin oci.deleted
    /\ req.kind = "delete" => Disposable(req.arg)

RequestInv == \A req \in net : req.etag = oci.etag => Grounded(req)

\* Every request in flight would be refused.
Quiet == \A req \in net : req.etag < oci.etag

-----------------------------------------------------------------------------
(***************************************************************************)
(* The certificate.                                                        *)
(***************************************************************************)
StageInv ==
    /\ oci.served = oci.current
    /\ oci.pending # oci.current
    /\ oci.deleted \subseteq DOMAIN oci.versions
    /\ DeletionIsSafe
    /\ PendingIsRemembered
    /\ oci.current = certState.version \/ CurrentBacked(Null)

-----------------------------------------------------------------------------
(***************************************************************************)
(* The process at work.                                                    *)
(***************************************************************************)
ReadingSteps ==
    {"getCertificate", "getCurrent", "reconciled", "previousVersion",
     "rollbackEtag", "rollbackReconciled"}

SearchSteps == {"find", "upload", "uploaded", "findUploaded", "pendingVerified"}

PromotionSteps == {"refresh", "promote", "confirm"}

RestoredSteps ==
    {"rollbackConfirm", "rollbackConfirmed", "recordRollback",
     "rollbackAuditPending", "rollbackAudit", "rollbackComplete"}

\* Steps at which the row names the version its process works on.
NamingSteps == PromotionSteps \union ConfirmedSteps \union RestoredSteps \union {"restore"}

RecordedSteps ==
    {"closeReconciled", "recordRenewal", "complete",
     "rollbackAuditPending", "rollbackAudit", "rollbackComplete"}

\* What the row of the process says.
RowInv(p) ==
    /\ proc[p].pc \in PublishSteps \union RollbackSteps => proc[p].op \in Active(ops)
    /\ proc[p].pc \in ReadingSteps => ops[proc[p].op].version = Null
    /\ proc[p].pc \in SearchSteps =>
          /\ ops[proc[p].op].version \in DOMAIN oci.versions
          /\ oci.versions[ops[proc[p].op].version] # proc[p].fp
    /\ proc[p].pc \in NamingSteps => ops[proc[p].op].version = proc[p].version
    /\ proc[p].pc \in PromotionSteps \union {"pendingVerified"} =>
          oci.versions[proc[p].version] = proc[p].fp
    /\ proc[p].pc \in RecordedSteps => certState.version = proc[p].version

\* CURRENT was seen to carry the leaf of the process.
SeenCurrent(p) ==
    \/ proc[p].pc \in ConfirmedSteps
    \/ proc[p].pc = "reconciled" /\ oci.versions[proc[p].version] = proc[p].fp

\* What the process is about to close its rows on.
SeenInv(p) ==
    SeenCurrent(p) =>
        /\ \A req \in net :
              req.kind = "promote" /\ req.etag = oci.etag => Backed(req.arg, proc[p].fp)
        /\ oci.current = proc[p].version \/ CurrentBacked(proc[p].fp)
        /\ oci.pending # proc[p].version

\* What the process promotes, and what it has restored.
PromoteInv(p) ==
    /\ proc[p].pc = "promote" /\ proc[p].etag = oci.etag =>
          oci.versions[oci.current] < oci.versions[proc[p].version]
    /\ proc[p].pc \in RestoredSteps => Quiet /\ oci.current = proc[p].version

\* Steps at which the version of a process was in some stage when it was read.
StagedSteps == VersionSteps \ {"schedule"}

PromotableSteps ==
    {"pendingVerified", "refresh", "promote", "rollbackEtag", "rollbackReconciled", "restore"}

\* What no deletion may reach, and what the process deletes.
DeletionInv(p) ==
    /\ proc[p].pc \in StagedSteps =>
          \A req \in net :
              req.kind = "delete" /\ req.etag = oci.etag => req.arg # proc[p].version
    /\ proc[p].pc \in PromotableSteps => proc[p].version \notin oci.deleted
    /\ proc[p].pc \in {"retentionNext", "schedule"} => \A v \in proc[p].plan : Disposable(v)
    /\ proc[p].pc = "schedule" => Disposable(proc[p].version)

WorkInv(p) == RowInv(p) /\ SeenInv(p) /\ PromoteInv(p) /\ DeletionInv(p)

-----------------------------------------------------------------------------
CertificateInv == LeafRows /\ RequestInv /\ StageInv /\ \A p \in Process : WorkInv(p)
=============================================================================
