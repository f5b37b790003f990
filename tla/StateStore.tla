------------------------------ MODULE StateStore ------------------------------
(***************************************************************************)
(* The durable SQLite state of state_store.py.  A table of operations is a *)
(* sequence of rows in insertion order; an operation id is an index.  Each *)
(* operator below is one method, hence one transaction.  Null stands for   *)
(* SQL NULL: fingerprints, versions and OCIDs are numbered from 1.         *)
(***************************************************************************)
EXTENDS Naturals, Sequences

Null == 0

OperationType == {"BOOTSTRAP", "RENEW", "PUBLISH", "RECONCILE", "AUDIT", "ROLLBACK"}

TerminalStates ==
    {"COMPLETED", "CONFIG_FAILED", "HTTP01_PREFLIGHT_FAILED", "ACME_FAILED",
     "LOCAL_VALIDATION_FAILED", "OCI_UPLOAD_FAILED", "OCI_VERSION_FAILED",
     "OCI_PROMOTION_FAILED", "AUDIT_FAILED", "ROLLBACK_FAILED",
     "MANUAL_INTERVENTION_REQUIRED"}

OperationState ==
    {"DISCOVERED", "CONFIG_VALIDATED", "HTTP01_PREFLIGHT_OK",
     "ACME_COMPLETED", "LOCAL_CERT_VALIDATED", "OCI_RECONCILED",
     "OCI_PENDING_UPLOADED", "OCI_PENDING_VERIFIED",
     "OCI_CURRENT_CONFIRMED", "AUDIT_PENDING", "AUDIT_SUCCESS"}
    \union TerminalStates

Operation ==
    [type : OperationType, state : OperationState, fp : Nat, ocid : Nat, version : Nat]

\* active_operations: the nonterminal rows.
Active(ops) == {i \in DOMAIN ops : ops[i].state \notin TerminalStates}

\* Mutant: the row is not persisted.
StartWithoutInsert(ops, type, fp, ocid) == ops

StartOperation(ops, type, fp, ocid) ==
    Append(ops, [type |-> type, state |-> "DISCOVERED", fp |-> fp,
                 ocid |-> ocid, version |-> Null])

Coalesce(value, old) == IF value = Null THEN old ELSE value

\* transition: an unconditional update of one row.
Transition(ops, id, state, version, ocid) ==
    [ops EXCEPT ![id] = [ops[id] EXCEPT !.state = state,
                                        !.version = Coalesce(version, ops[id].version),
                                        !.ocid = Coalesce(ocid, ops[id].ocid)]]

\* Mutant: the rows of every fingerprint are closed.
CompleteAnyFingerprint(ops, id, fp, version) ==
    [i \in DOMAIN ops |->
        IF i # id /\ i \in Active(ops)
        THEN [ops[i] EXCEPT !.state = "COMPLETED", !.version = version]
        ELSE ops[i]]

\* Mutant: only the rows whose promotion had been confirmed are closed.
CompleteConfirmedOnly(ops, id, fp, version) ==
    [i \in DOMAIN ops |->
        IF i # id /\ ops[i].state = "OCI_CURRENT_CONFIRMED" /\ ops[i].fp = fp
        THEN [ops[i] EXCEPT !.state = "COMPLETED", !.version = version]
        ELSE ops[i]]

\* complete_reconciled_operations: close the other open rows of the
\* fingerprint that CURRENT was seen to carry.
CompleteReconciledOperations(ops, id, fp, version) ==
    [i \in DOMAIN ops |->
        IF i # id /\ i \in Active(ops) /\ ops[i].fp = fp
        THEN [ops[i] EXCEPT !.state = "COMPLETED", !.version = version]
        ELSE ops[i]]

\* Mutant: every unfinished audit is closed, the failed ones included.
CompleteAllAudits(ops, id) ==
    [i \in DOMAIN ops |->
        IF i # id /\ ops[i].type = "AUDIT"
        THEN [ops[i] EXCEPT !.state = "COMPLETED"]
        ELSE ops[i]]

\* complete_interrupted_audits: close the other audits left AUDIT_PENDING.
CompleteInterruptedAudits(ops, id) ==
    [i \in DOMAIN ops |->
        IF i # id /\ ops[i].type = "AUDIT" /\ ops[i].state = "AUDIT_PENDING"
        THEN [ops[i] EXCEPT !.state = "COMPLETED"]
        ELSE ops[i]]

(***************************************************************************)
(* The certificate_state row of the set.  Timestamps are reduced to what   *)
(* the code tells apart: whether the event was ever recorded.              *)
(***************************************************************************)
CertificateState ==
    [local : Nat, fp : Nat, version : Nat,
     published : BOOLEAN, renewed : BOOLEAN, audited : BOOLEAN]

RecordPublicationSuccess(s, local, fp, version) ==
    [s EXCEPT !.local = local, !.fp = fp, !.version = version, !.published = TRUE]

RecordRollbackSuccess(s, fp, version) ==
    [s EXCEPT !.fp = fp, !.version = version]

RecordRenewalSuccess(s) == [s EXCEPT !.renewed = TRUE]

RecordAuditSuccess(s) == [s EXCEPT !.audited = TRUE]
=============================================================================
