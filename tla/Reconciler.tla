------------------------------ MODULE Reconciler ------------------------------
(***************************************************************************)
(* PublicationReconciler.publish and the renewal that precedes it: the     *)
(* steps that bring the OCI certificate to the local lineage.              *)
(***************************************************************************)
EXTENDS Publisher

\* PublicationService.renew up to publish: an existing lineage that does not
\* validate ends the command; otherwise a new leaf is issued when due.
Renew(p) ==
    /\ proc[p].pc = "renew"
    /\ \/ /\ ~IsValid(local, expired)
          /\ Exit(p)
          /\ UNCHANGED local
       \/ /\ IsValid(local, expired)
          /\ local' \in {local} \union {f \in {local + 1} : f <= MaxIssued}
          /\ Go(p, "start")
          /\ UNCHANGED lock
    /\ UNCHANGED <<oci, net, ops, certState, expired, faults>>

\* The lineage is loaded and validated, then the operation is persisted.
Start(p) ==
    /\ proc[p].pc = "start"
    /\ \/ /\ ~IsValid(local, expired)
          /\ Exit(p)
          /\ UNCHANGED ops
       \/ /\ IsValid(local, expired)
          /\ ops' = StartOperation(ops, proc[p].cmd, local, Ocid)
          /\ Become(p, [proc[p] EXCEPT !.pc = "getCertificate",
                                       !.op = Len(ops) + 1, !.fp = local,
                                       !.now = expired])
          /\ UNCHANGED lock
    /\ UNCHANGED <<oci, net, certState, local, expired, faults>>

\* The etag that a later upload is conditional on.
GetCertificate(p) ==
    /\ proc[p].pc = "getCertificate"
    /\ Become(p, [proc[p] EXCEPT !.pc = "getCurrent", !.etag = oci.etag])
    /\ UNCHANGED <<oci, net, ops, certState, local, expired, lock, faults>>

\* The CURRENT bundle; one that does not validate ends the command.
GetCurrent(p) ==
    /\ proc[p].pc = "getCurrent"
    /\ \/ /\ ~IsValid(oci.versions[oci.served], proc[p].now)
          /\ Exit(p)
       \/ /\ IsValid(oci.versions[oci.served], proc[p].now)
          /\ Become(p, [proc[p] EXCEPT !.pc = "reconciled",
                                       !.version = oci.served])
          /\ UNCHANGED lock
    /\ UNCHANGED <<oci, net, ops, certState, local, expired, faults>>

Reconciled(p) ==
    LogStep(p, "reconciled", "OCI_RECONCILED", proc[p].version,
            IF oci.versions[proc[p].version] = proc[p].fp THEN "record" ELSE "find")

(***************************************************************************)
(* _find_matching_pending: the first staged version that carries the local *)
(* fingerprint.  Every version looked at before it must validate.          *)
(***************************************************************************)
Matching(p) ==
    {v \in StagedForPromotion(oci) : oci.versions[v] = proc[p].fp}

Unverifiable(p) ==
    {v \in StagedForPromotion(oci) : ~IsValid(oci.versions[v], proc[p].now)}

Found(p) ==
    /\ \E v \in Matching(p) \ Unverifiable(p) :
          Become(p, [proc[p] EXCEPT !.pc = "pendingVerified", !.version = v])
    /\ UNCHANGED <<lock, faults>>

Rejected(p) == Unverifiable(p) # {} /\ Exit(p) /\ UNCHANGED faults

NotFound(p) == Matching(p) \union Unverifiable(p) = {}

Find(p) ==
    /\ proc[p].pc = "find"
    /\ \/ Found(p)
       \/ Rejected(p)
       \/ NotFound(p) /\ Go(p, "upload") /\ UNCHANGED <<lock, faults>>
    /\ UNCHANGED <<oci, net, ops, certState, local, expired>>

\* Mutant: the etag is read again right before the upload.
UploadWithFreshEtag(p) ==
    LET req == UploadRequest(oci.etag, proc[p].fp) IN
    /\ proc[p].pc = "upload"
    /\ \/ Succeeds(req) /\ Go(p, "uploaded") /\ UNCHANGED lock
       \/ Refused(req) /\ Exit(p)
       \/ Ambiguous(req) /\ Exit(p)
    /\ UNCHANGED <<ops, certState, local, expired>>

\* Mutant: an upload of unknown outcome closes the row as failed.
UploadClosingTheRow(p) ==
    LET req == UploadRequest(proc[p].etag, proc[p].fp) IN
    /\ proc[p].pc = "upload"
    /\ \/ Succeeds(req) /\ Go(p, "uploaded") /\ UNCHANGED <<ops, lock>>
       \/ Refused(req) /\ Exit(p) /\ UNCHANGED ops
       \/ /\ Ambiguous(req) /\ Exit(p)
          /\ ops' = Transition(ops, proc[p].op, "OCI_UPLOAD_FAILED", Null, Null)
    /\ UNCHANGED <<certState, local, expired>>

\* Conditional on the etag read before CURRENT and the listing.
Upload(p) ==
    LET req == UploadRequest(proc[p].etag, proc[p].fp) IN
    /\ proc[p].pc = "upload"
    /\ \/ Succeeds(req) /\ Go(p, "uploaded") /\ UNCHANGED lock
       \/ Refused(req) /\ Exit(p)
       \/ Ambiguous(req) /\ Exit(p)
    /\ UNCHANGED <<ops, certState, local, expired>>

PendingUploaded(p) ==
    LogStep(p, "uploaded", "OCI_PENDING_UPLOADED", Null, "findUploaded")

\* An upload the listing does not show yet ends the command.
FindUploaded(p) ==
    /\ proc[p].pc = "findUploaded"
    /\ \/ Found(p)
       \/ Rejected(p)
       \/ NotFound(p) /\ Exit(p) /\ CountLag(oci.listed, Latest(oci))
    /\ UNCHANGED <<oci, net, ops, certState, local, expired>>

\* Mutant: the version about to be promoted is not persisted.
PendingVerifiedUnnamed(p) ==
    LogStep(p, "pendingVerified", "OCI_PENDING_VERIFIED", Null, "refresh")

PendingVerified(p) ==
    LogStep(p, "pendingVerified", "OCI_PENDING_VERIFIED", proc[p].version, "refresh")

(***************************************************************************)
(* _promote_current: each attempt first reads whether an earlier one took  *)
(* effect, and the etag to be conditional on.                              *)
(***************************************************************************)
Refresh(p) ==
    /\ proc[p].pc = "refresh"
    /\ IF oci.current = proc[p].version
       THEN Go(p, "confirm")
       ELSE Become(p, [proc[p] EXCEPT !.pc = "promote", !.etag = oci.etag])
    /\ UNCHANGED <<oci, net, ops, certState, local, expired, lock, faults>>

Promote(p) ==
    LET req == PromoteRequest(proc[p].etag, proc[p].version) IN
    /\ proc[p].pc = "promote"
    /\ \/ Succeeds(req) /\ Go(p, "confirm") /\ UNCHANGED lock
       \/ Refused(req) /\ Exit(p)
       \/ /\ Ambiguous(req)
          /\ IF proc[p].attempt + 1 < PromotionAttempts
             THEN /\ Become(p, [proc[p] EXCEPT !.pc = "refresh",
                                               !.attempt = proc[p].attempt + 1])
                  /\ UNCHANGED lock
             ELSE Exit(p)
    /\ UNCHANGED <<ops, certState, local, expired>>

\* Mutant: the last answer is used without comparing its fingerprint.
ConfirmUncompared(p) ==
    /\ proc[p].pc = "confirm"
    /\ CountLag(oci.served, oci.current)
    /\ Become(p, [proc[p] EXCEPT !.pc = "currentConfirmed", !.version = oci.served])
    /\ UNCHANGED <<oci, net, ops, certState, local, expired, lock>>

\* retry_read_until_sync, then the comparison: CURRENT is read until it is
\* the promoted version, and the last attempt's answer is used whatever it is.
Confirm(p) ==
    LET fp == oci.versions[oci.served] IN
    /\ proc[p].pc = "confirm"
    /\ CountLag(oci.served, oci.current)
    /\ \/ /\ IsValid(fp, proc[p].now) /\ fp = proc[p].fp
          /\ Become(p, [proc[p] EXCEPT !.pc = "currentConfirmed",
                                       !.version = oci.served])
          /\ UNCHANGED lock
       \/ /\ ~IsValid(fp, proc[p].now) \/ fp # proc[p].fp
          /\ Exit(p)
    /\ UNCHANGED <<oci, net, ops, certState, local, expired>>

CurrentConfirmed(p) ==
    LogStep(p, "currentConfirmed", "OCI_CURRENT_CONFIRMED", proc[p].version, "record")

(***************************************************************************)
(* _complete, one transaction after the other.                             *)
(***************************************************************************)
Record(p) ==
    /\ proc[p].pc = "record"
    /\ certState' = RecordPublicationSuccess(certState, proc[p].fp,
                        oci.versions[proc[p].version], proc[p].version)
    /\ Go(p, "closeReconciled")
    /\ UNCHANGED <<oci, net, ops, local, expired, lock, faults>>

CloseReconciled(p) ==
    /\ proc[p].pc = "closeReconciled"
    /\ ops' = CompleteReconciledOperations(ops, proc[p].op, proc[p].fp, proc[p].version)
    /\ Go(p, IF proc[p].cmd = "RENEW" THEN "recordRenewal" ELSE "complete")
    /\ UNCHANGED <<oci, net, certState, local, expired, lock, faults>>

RecordRenewal(p) ==
    /\ proc[p].pc = "recordRenewal"
    /\ certState' = RecordRenewalSuccess(certState)
    /\ Go(p, "complete")
    /\ UNCHANGED <<oci, net, ops, local, expired, lock, faults>>

Complete(p) ==
    LogStep(p, "complete", "COMPLETED", proc[p].version, AfterPublication)

Reconcile(p) ==
    \/ Renew(p) \/ Start(p) \/ GetCertificate(p) \/ GetCurrent(p)
    \/ Reconciled(p) \/ Find(p) \/ Upload(p) \/ PendingUploaded(p)
    \/ FindUploaded(p) \/ PendingVerified(p) \/ Refresh(p) \/ Promote(p)
    \/ Confirm(p) \/ CurrentConfirmed(p) \/ Record(p) \/ CloseReconciled(p)
    \/ RecordRenewal(p) \/ Complete(p)
=============================================================================
