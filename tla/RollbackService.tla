---------------------------- MODULE RollbackService ----------------------------
(***************************************************************************)
(* RollbackService.rollback: the command, and the automatic rollback of a  *)
(* publication whose enforced audit failed.                                *)
(***************************************************************************)
EXTENDS Publisher

RollbackStart(p) ==
    /\ proc[p].pc = "rollbackStart"
    /\ ops' = StartOperation(ops, "ROLLBACK", Null, Ocid)
    /\ Become(p, [proc[p] EXCEPT !.pc = "previousVersion", !.op = Len(ops) + 1,
                                 !.now = expired])
    /\ UNCHANGED <<oci, net, certState, local, expired, lock, faults>>

\* _previous_version: exactly one listed PREVIOUS version that is not
\* scheduled for deletion, whose bundle validates.
Restorable(p) ==
    {v \in (1..oci.listed) \ oci.deleted :
        v = oci.previous /\ IsValid(oci.versions[v], proc[p].now)}

PreviousVersion(p) ==
    /\ proc[p].pc = "previousVersion"
    /\ \/ \E v \in Restorable(p) :
             /\ Become(p, [proc[p] EXCEPT !.pc = "rollbackEtag", !.version = v,
                                          !.fp = oci.versions[v]])
             /\ UNCHANGED lock
       \/ Restorable(p) = {} /\ Exit(p)
    /\ UNCHANGED <<oci, net, ops, certState, local, expired, faults>>

RollbackEtag(p) ==
    /\ proc[p].pc = "rollbackEtag"
    /\ Become(p, [proc[p] EXCEPT !.pc = "rollbackReconciled", !.etag = oci.etag])
    /\ UNCHANGED <<oci, net, ops, certState, local, expired, lock, faults>>

RollbackReconciled(p) ==
    LogStep(p, "rollbackReconciled", "OCI_RECONCILED", proc[p].version, "restore")

\* Mutant: a promotion of unknown outcome closes the row as failed.
RestoreClosingTheRow(p) ==
    LET req == PromoteRequest(proc[p].etag, proc[p].version) IN
    /\ proc[p].pc = "restore"
    /\ \/ Succeeds(req) /\ Go(p, "rollbackConfirm") /\ UNCHANGED <<ops, lock>>
       \/ Refused(req) /\ Exit(p) /\ UNCHANGED ops
       \/ /\ Ambiguous(req) /\ Exit(p)
          /\ ops' = Transition(ops, proc[p].op, "ROLLBACK_FAILED", Null, Null)
    /\ UNCHANGED <<certState, local, expired>>

\* One attempt: an ambiguous outcome ends the command.
Restore(p) ==
    LET req == PromoteRequest(proc[p].etag, proc[p].version) IN
    /\ proc[p].pc = "restore"
    /\ \/ Succeeds(req) /\ Go(p, "rollbackConfirm") /\ UNCHANGED lock
       \/ Refused(req) /\ Exit(p)
       \/ Ambiguous(req) /\ Exit(p)
    /\ UNCHANGED <<ops, certState, local, expired>>

RollbackConfirm(p) ==
    LET fp == oci.versions[oci.served]
        confirmed == oci.served = proc[p].version /\ fp = proc[p].fp
                     /\ IsValid(fp, proc[p].now)
    IN
    /\ proc[p].pc = "rollbackConfirm"
    /\ CountLag(oci.served, oci.current)
    /\ \/ confirmed /\ Go(p, "rollbackConfirmed") /\ UNCHANGED lock
       \/ ~confirmed /\ Exit(p)
    /\ UNCHANGED <<oci, net, ops, certState, local, expired>>

RollbackConfirmed(p) ==
    LogStep(p, "rollbackConfirmed", "OCI_CURRENT_CONFIRMED", proc[p].version,
            "recordRollback")

RecordRollback(p) ==
    /\ proc[p].pc = "recordRollback"
    /\ certState' = RecordRollbackSuccess(certState, proc[p].fp, proc[p].version)
    /\ Go(p, "rollbackAuditPending")
    /\ UNCHANGED <<oci, net, ops, local, expired, lock, faults>>

RollbackAuditPending(p) ==
    LogStep(p, "rollbackAuditPending", "AUDIT_PENDING", Null, "rollbackAudit")

\* A disabled audit always succeeds.  A failed one is recorded and raised.
RollbackAudit(p) ==
    /\ proc[p].pc = "rollbackAudit"
    /\ \/ /\ ops' = Transition(ops, proc[p].op, "AUDIT_SUCCESS", Null, Null)
          /\ Go(p, "rollbackComplete")
          /\ UNCHANGED <<lock, faults>>
       \/ /\ AuditMode # "disabled"
          /\ Fault
          /\ ops' = Transition(ops, proc[p].op, "ROLLBACK_FAILED", Null, Null)
          /\ Exit(p)
    /\ UNCHANGED <<oci, net, certState, local, expired>>

\* After an automatic rollback the publication goes on to retention.
RollbackComplete(p) ==
    LogStep(p, "rollbackComplete", "COMPLETED", proc[p].version,
            IF proc[p].cmd = "ROLLBACK" THEN "return" ELSE AfterAudit)

Rollback(p) ==
    \/ RollbackStart(p) \/ PreviousVersion(p) \/ RollbackEtag(p)
    \/ RollbackReconciled(p) \/ Restore(p) \/ RollbackConfirm(p)
    \/ RollbackConfirmed(p) \/ RecordRollback(p) \/ RollbackAuditPending(p)
    \/ RollbackAudit(p) \/ RollbackComplete(p)
=============================================================================
