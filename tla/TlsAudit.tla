------------------------------- MODULE TlsAudit -------------------------------
(***************************************************************************)
(* PublicationService.audit, as a command and after a publication.  Which  *)
(* leaf the endpoints serve is outside the system: the probe's verdict is  *)
(* a free choice, except that a disabled audit succeeds.                   *)
(***************************************************************************)
EXTENDS Publisher

AuditStart(p) ==
    /\ proc[p].pc = "auditStart"
    /\ ops' = StartOperation(ops, "AUDIT", Null, Ocid)
    /\ Become(p, [proc[p] EXCEPT !.pc = "auditPending", !.op = Len(ops) + 1])
    /\ UNCHANGED <<oci, net, certState, local, expired, lock, faults>>

AuditPending(p) == LogStep(p, "auditPending", "AUDIT_PENDING", Null, "auditBundle")

\* CertificateValidationError is not an AuditError: no caller handles it.
AuditBundle(p) ==
    /\ proc[p].pc = "auditBundle"
    /\ \/ ~IsValid(oci.versions[oci.served], expired) /\ Exit(p)
       \/ IsValid(oci.versions[oci.served], expired) /\ Go(p, "audit") /\ UNCHANGED lock
    /\ UNCHANGED <<oci, net, ops, certState, local, expired, faults>>

\* _run_post_publication_audit and _enforce_post_publication_audit.
AfterFailedAudit(p) ==
    CASE proc[p].cmd = "AUDIT" -> "return"
      [] proc[p].cmd # "AUDIT" /\ AuditMode = "observe" -> AfterAudit
      [] proc[p].cmd # "AUDIT" /\ AuditMode = "enforce" ->
            IF AutomaticRollback THEN "rollbackStart" ELSE "return"

AuditFails(p) ==
    /\ proc[p].pc = "audit"
    /\ AuditMode # "disabled"
    /\ Fault
    /\ ops' = Transition(ops, proc[p].op, "AUDIT_FAILED", Null, Null)
    /\ Go(p, AfterFailedAudit(p))
    /\ UNCHANGED <<oci, net, certState, local, expired, lock>>

AuditSucceeds(p) == LogStep(p, "audit", "AUDIT_SUCCESS", Null, "recordAudit")

RecordAudit(p) ==
    /\ proc[p].pc = "recordAudit"
    /\ certState' = RecordAuditSuccess(certState)
    /\ Go(p, "auditComplete")
    /\ UNCHANGED <<oci, net, ops, local, expired, lock, faults>>

AuditComplete(p) == LogStep(p, "auditComplete", "COMPLETED", Null, "closeAudits")

CloseAudits(p) ==
    /\ proc[p].pc = "closeAudits"
    /\ ops' = CompleteInterruptedAudits(ops, proc[p].op)
    /\ Go(p, IF proc[p].cmd = "AUDIT" THEN "return" ELSE AfterAudit)
    /\ UNCHANGED <<oci, net, certState, local, expired, lock, faults>>

Audit(p) ==
    \/ AuditStart(p) \/ AuditPending(p) \/ AuditBundle(p) \/ AuditFails(p)
    \/ AuditSucceeds(p) \/ RecordAudit(p) \/ AuditComplete(p) \/ CloseAudits(p)
=============================================================================
