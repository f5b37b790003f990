--------------------------- MODULE LiveProbeInvariant ---------------------------
(***************************************************************************)
(* The inductive strengthening behind VerdictIsTrue and EvidenceIsProof:   *)
(* what an audit has seen of the consumers while CURRENT moves under it,   *)
(* and what the calls of the live probe have established for the next one. *)
(***************************************************************************)
EXTENDS LiveProbe, CertificateInvariant

(***************************************************************************)
(* An audit expects what CURRENT carries until a late request moves it.    *)
(* Requests are conditional on the etag, so it is moved once at most, and  *)
(* after that the leaf the audit looks for is no longer that of CURRENT.   *)
(***************************************************************************)
OnCurrent(fp) == oci.versions[oci.current] = fp

\* The audit in progress.
AttemptState == [expected : Nat, probed : SUBSET Address, matched : SUBSET Address]

VerdictInv ==
    /\ DOMAIN presents = Address
    /\ check \in AttemptState
    /\ \A p \in Process :
          proc[p].pc \in {"auditBundle", "audit", "rollbackAudit"} =>
              proc[p].op \in DOMAIN ops /\ ops[proc[p].op].state = "AUDIT_PENDING"
    /\ \A p \in Process : proc[p].pc \in Auditing =>
          /\ OnCurrent(check.expected) \/ Quiet
          /\ OnCurrent(check.expected) =>
                \A a \in check.matched : presents[a] = check.expected

-----------------------------------------------------------------------------
(***************************************************************************)
(* The live probe.                                                         *)
(***************************************************************************)

\* A probe in progress holds the lock and is at work.
AtWork ==
    /\ probe.stage \in 0..WriteStage
    /\ probe.stage # 0 => lock \in Process /\ proc[lock].pc # "idle"

\* Where the calls of a probe take the process.
CallSteps(cmd) ==
    IF cmd = "AUDIT" THEN AuditSteps \union {"auditStart", "return"}
    ELSE IF cmd = "ROLLBACK" THEN RollbackSteps \union {"rollbackStart", "return"}
    ELSE PublishSteps \union AuditSteps \union {"start", "auditStart", "return"}
         \union (IF cmd = "RENEW" THEN {"renew"} ELSE {})

\* The stage, the call in progress and the row it began with.
StageShape(p) ==
    /\ probe \in [stage : Nat, rows : Seq(Nat)]
    /\ Len(probe.rows) = IF probe.stage > Len(Calls) THEN Len(Calls) ELSE probe.stage
    /\ probe.stage <= Len(Calls) => /\ proc[p].cmd = Calls[probe.stage]
                                    /\ proc[p].pc \in CallSteps(proc[p].cmd)
    /\ probe.stage > Len(Calls) => proc[p].pc = "return"
    /\ proc[p].pc \in {"start", "renew", "rollbackStart"} =>
          probe.rows[probe.stage] = Len(ops) + 1
    /\ proc[p].pc \in PublishSteps \union RollbackSteps =>
          probe.rows[probe.stage] = proc[p].op

\* A call of the probe that publishes or rolls back has completed its row.
Done(p, stage) ==
    \/ probe.stage > stage
    \/ probe.stage = stage /\ proc[p].pc \in AuditSteps \union {"auditStart", "return"}

Completed(id, type) ==
    id \in DOMAIN ops /\ ops[id].type = type /\ ops[id].state = "COMPLETED"

\* The leaf of the baseline is older than the one that the renewal issues.
BaselineInv(p) ==
    Done(p, 1) =>
        /\ Completed(probe.rows[1], "PUBLISH")
        /\ ops[probe.rows[1]].fp <= local
        /\ probe.stage # 1 /\ proc[p].pc # "renew" => ops[probe.rows[1]].fp < local

\* CURRENT carries the leaf of the renewal, and no request in flight can move it.
Settled == OnCurrent(local) /\ Quiet /\ oci.previous # oci.current

\* The new version is uploaded: a request in flight can but promote it.
Settling ==
    /\ \A req \in net :
          req.etag = oci.etag => req.kind = "promote" /\ oci.versions[req.arg] = local
    /\ OnCurrent(local) => Settled

\* The leaf of the renewal is not uploaded, nor about to be by anyone else.
Unknown ==
    /\ Newer(local)
    /\ \A req \in net : req.kind = "upload" => req.arg < local

BeforeUpload == {"start", "getCertificate", "getCurrent", "reconciled", "find", "upload"}

AfterUpload ==
    {"uploaded", "findUploaded", "pendingVerified", "refresh", "promote", "confirm"}

\* What the renewal has reached.
UploadInv(p) ==
    /\ proc[p].pc \in BeforeUpload => Unknown
    /\ proc[p].pc \in AfterUpload => Settling
    /\ proc[p].pc \in ConfirmedSteps => Settled

RenewalInv(p) ==
    /\ probe.stage = 2 => UploadInv(p)
    /\ Done(p, 2) => /\ Completed(probe.rows[2], "RENEW")
                     /\ ops[probe.rows[2]].fp = local
    /\ Done(p, 2) /\ probe.stage <= 3 => Settled

\* The version restored carries an older leaf.
RestoredInv(p) ==
    /\ probe.stage = 4 /\ proc[p].pc \in {"rollbackStart", "previousVersion"} => Settled
    /\ probe.stage = 4 /\ proc[p].pc \in RollbackSteps \ {"previousVersion"} =>
          /\ proc[p].version \in DOMAIN oci.versions
          /\ oci.versions[proc[p].version] < local
    /\ Done(p, 4) =>
          /\ Completed(probe.rows[4], "ROLLBACK")
          /\ ops[probe.rows[4]].version \in DOMAIN oci.versions
          /\ oci.versions[ops[probe.rows[4]].version] < local

ProbeStageInv(p) == StageShape(p) /\ BaselineInv(p) /\ RenewalInv(p) /\ RestoredInv(p)

\* The evidence that was written is true.
FileInv ==
    evidence.file = "whole" =>
        \A v \in {evidence.initial, evidence.restored} :
            /\ {v, evidence.promoted} \subseteq DOMAIN oci.versions
            /\ oci.versions[v] < oci.versions[evidence.promoted]

EvidenceInv ==
    /\ FileInv
    /\ probe.stage = 0 => probe = NoProbe
    /\ \A p \in Process : Probing(p) => ProbeStageInv(p)
=============================================================================
