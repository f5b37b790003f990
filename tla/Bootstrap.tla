------------------------------- MODULE Bootstrap -------------------------------
(***************************************************************************)
(* PublicationService.bootstrap for a set that has no configured OCID: the *)
(* first leaf is issued and imported as a new OCI certificate, unless a    *)
(* bootstrap that was interrupted after the import can be recovered.  It   *)
(* is the first command that a host runs, hence the one that creates the   *)
(* state store.  The advisory lock admits one run at a time, so there is   *)
(* one process.                                                            *)
(***************************************************************************)
EXTENDS StateStore, Migrations, FiniteSets

CONSTANTS
    Entry,          \* how runs start: "bootstrap" and/or "renew_all"
    NameIsUnique,   \* OCI always refuses a second certificate of the same name
    MaxIssued,      \* bound: leaves issued
    MaxOperations,  \* bound: rows of the operations table
    MaxFaults       \* bound: failed calls and deaths

ASSUME BootstrapAssumption ==
    /\ Entry \subseteq {"bootstrap", "renew_all"}
    /\ NameIsUnique \in BOOLEAN
    /\ {MaxIssued, MaxOperations, MaxFaults} \subseteq Nat

VARIABLES
    schema,     \* objects of the SQLite file that exist
    certs,      \* OCI certificates of the set's name: an OCID is an index,
                \* the value the fingerprint of the certificate's version 1
    ops,        \* table operations
    certState,  \* the set's row of table certificate_state
    local,      \* fingerprint of the local lineage, Null before the first
    run,        \* control point and locals of the running command
    faults      \* failed calls and deaths so far

vars == <<schema, certs, ops, certState, local, run, faults>>

Stopped ==
    [pc |-> "stopped", back |-> "stopped", statement |-> 1, op |-> 0, fp |-> 0, ocid |-> 0]

Init ==
    /\ schema = {}
    /\ certs = << >>
    /\ ops = << >>
    /\ certState = [local |-> Null, fp |-> Null, version |-> Null,
                    published |-> FALSE, renewed |-> FALSE, audited |-> FALSE]
    /\ local = Null
    /\ run = Stopped
    /\ faults = 0

\* confirmed_oci_certificate_ocid: the OCIDs of completed operations.
ConfirmedOcids ==
    {ops[i].ocid : i \in {j \in DOMAIN ops : ops[j].state = "COMPLETED"}} \ {Null}

MayStart == Len(ops) < MaxOperations

\* The last operation the bounds admit is undisturbed.
Fault ==
    /\ faults < MaxFaults /\ Len(ops) < MaxOperations
    /\ faults' = faults + 1

Go(label) == run' = [run EXCEPT !.pc = label]

\* Open the store, then go on to a step.
OpenFor(state, step) == [state EXCEPT !.pc = "open", !.back = step]

\* renew_all opens the store to look for a confirmed OCID, bootstrap issues
\* first.
Begin(entry) ==
    /\ run.pc = "stopped"
    /\ MayStart
    /\ run' = IF entry = "renew_all" THEN OpenFor(run, "lookUp") ELSE [run EXCEPT !.pc = "issue"]
    /\ UNCHANGED <<schema, certs, ops, certState, local, faults>>

\* Mutant: renew_all does not look for a confirmed OCID.
LookUpNothing ==
    /\ run.pc = "lookUp"
    /\ Go("issue")
    /\ UNCHANGED <<schema, certs, ops, certState, local, faults>>

\* renew_all bootstraps only a set without a confirmed OCID; otherwise it
\* renews the certificate it names, which is not modelled here.
LookUp ==
    /\ run.pc = "lookUp"
    /\ run' = IF ConfirmedOcids = {} THEN [run EXCEPT !.pc = "issue"] ELSE Stopped
    /\ UNCHANGED <<schema, certs, ops, certState, local, faults>>

\* StateStore.open: a store whose version is applied is used as it is.
OpenStore ==
    /\ run.pc = "open"
    /\ schema' = Opened(schema)
    /\ run' = IF Migrated(schema)
              THEN [run EXCEPT !.pc = run.back]
              ELSE [run EXCEPT !.pc = "migrate", !.statement = 2]
    /\ UNCHANGED <<certs, ops, certState, local, faults>>

\* The next statement.  One whose object exists raises OperationalError,
\* which ends the command: nothing handles it.
Migrate ==
    /\ run.pc = "migrate"
    /\ \/ /\ Refuses(schema, run.statement)
          /\ run' = Stopped
          /\ UNCHANGED schema
       \/ /\ ~Refuses(schema, run.statement)
          /\ schema' = Executed(schema, run.statement)
          /\ run' = IF run.statement = Len(Statements)
                    THEN [run EXCEPT !.pc = run.back]
                    ELSE [run EXCEPT !.statement = run.statement + 1]
    /\ UNCHANGED <<certs, ops, certState, local, faults>>

\* Killed, or the call of this step raises without effect and nothing
\* handles it.
Die ==
    /\ run.pc # "stopped"
    /\ Fault
    /\ run' = Stopped
    /\ UNCHANGED <<schema, certs, ops, certState, local>>

\* Mutant: no interrupted bootstrap is looked for.
IssueWithoutRecovery ==
    /\ run.pc = "issue"
    /\ local' \in ({local} \ {Null}) \union {f \in {local + 1} : f <= MaxIssued}
    /\ run' = OpenFor([run EXCEPT !.fp = local'], "start")
    /\ UNCHANGED <<schema, certs, ops, certState, faults>>

\* NativeAcmeService.issue: the lineage is issued when absent or due.
Issue ==
    /\ run.pc = "issue"
    /\ local' \in ({local} \ {Null}) \union {f \in {local + 1} : f <= MaxIssued}
    /\ run' = OpenFor([run EXCEPT !.fp = local'], "recover")
    /\ UNCHANGED <<schema, certs, ops, certState, faults>>

-----------------------------------------------------------------------------
(***************************************************************************)
(* _recover_bootstrap.                                                     *)
(***************************************************************************)

\* Mutant: a bootstrap interrupted after the confirmation is not seen.
CandidatesReconciledOnly ==
    {i \in Active(ops) : /\ ops[i].type = "BOOTSTRAP"
                         /\ ops[i].state = "OCI_RECONCILED"
                         /\ ops[i].fp = run.fp
                         /\ ops[i].ocid # Null}

Candidates ==
    {i \in Active(ops) : /\ ops[i].type = "BOOTSTRAP"
                         /\ ops[i].fp = run.fp
                         /\ ops[i].ocid # Null}

\* Taken up when it is the only candidate and its certificate carries the
\* leaf; otherwise the command ends with an error.
Resume(i) ==
    IF Cardinality(Candidates) = 1 /\ certs[ops[i].ocid] = run.fp
    THEN [run EXCEPT !.pc = "confirmed", !.op = i, !.ocid = ops[i].ocid]
    ELSE Stopped

Recover ==
    /\ run.pc = "recover"
    /\ \/ Candidates = {} /\ Go("start")
       \/ \E i \in Candidates : run' = Resume(i)
    /\ UNCHANGED <<schema, certs, ops, certState, local, faults>>

-----------------------------------------------------------------------------
Log(label, state, version, ocid, next) ==
    /\ run.pc = label
    /\ ops' = Transition(ops, run.op, state, version, ocid)
    /\ run' = next
    /\ UNCHANGED <<schema, certs, certState, local, faults>>

At(label) == [run EXCEPT !.pc = label]

Start ==
    /\ run.pc = "start"
    /\ ops' = StartOperation(ops, "BOOTSTRAP", run.fp, Null)
    /\ run' = [run EXCEPT !.pc = "validated", !.op = Len(ops) + 1]
    /\ UNCHANGED <<schema, certs, certState, local, faults>>

LocalCertValidated == Log("validated", "LOCAL_CERT_VALIDATED", Null, Null, At("create"))

Imports == certs' = Append(certs, run.fp)

\* OCI may refuse a second certificate of the set's name, and always does
\* when names are unique.
NameTaken == certs # << >>

NameAvailable == NameIsUnique => ~NameTaken

\* Mutant: the OCID is used although the call had failed.
CreateUnchecked ==
    /\ run.pc = "create"
    /\ run' = [run EXCEPT !.pc = "created", !.ocid = Len(certs) + 1]
    /\ \/ Imports /\ UNCHANGED faults
       \/ Fault /\ UNCHANGED certs
    /\ UNCHANGED <<schema, ops, certState, local>>

\* create_imported_certificate.  A ServiceError is not an OciCertificateError:
\* the row stays LOCAL_CERT_VALIDATED.  An answer without an OCID is one, and
\* becomes OCI_UPLOAD_FAILED.
Create ==
    /\ run.pc = "create"
    /\ \/ /\ NameAvailable /\ Imports
          /\ run' = [run EXCEPT !.pc = "created", !.ocid = Len(certs) + 1]
          /\ UNCHANGED <<ops, faults>>
       \/ /\ NameAvailable /\ Imports /\ Fault
          /\ \/ Go("uploadFailed")
             \/ run' = Stopped
          /\ UNCHANGED ops
       \/ /\ NameTaken
          /\ run' = Stopped
          /\ UNCHANGED <<certs, ops, faults>>
    /\ UNCHANGED <<schema, certState, local>>

UploadFailed == Log("uploadFailed", "OCI_UPLOAD_FAILED", Null, Null, Stopped)

\* Mutant: the OCID is not persisted.
CreatedUnnamed == Log("created", "OCI_RECONCILED", Null, Null, At("bundle"))

\* From here on the store knows the OCID.
Created == Log("created", "OCI_RECONCILED", Null, run.ocid, At("bundle"))

\* The initial bundle, once it can be retrieved.
ReadBundle ==
    /\ run.pc = "bundle"
    /\ \/ /\ Go(IF certs[run.ocid] = run.fp THEN "confirmed" ELSE "versionFailed")
          /\ UNCHANGED faults
       \/ Fault /\ Go("versionFailed")
    /\ UNCHANGED <<schema, certs, ops, certState, local>>

VersionFailed == Log("versionFailed", "OCI_VERSION_FAILED", Null, Null, Stopped)

Confirmed == Log("confirmed", "OCI_CURRENT_CONFIRMED", 1, Null, At("record"))

Record ==
    /\ run.pc = "record"
    /\ certState' = RecordPublicationSuccess(certState, run.fp, certs[run.ocid], 1)
    /\ Go("complete")
    /\ UNCHANGED <<schema, certs, ops, local, faults>>

Complete == Log("complete", "COMPLETED", Null, Null, Stopped)

Step ==
    \/ LookUp \/ Issue \/ OpenStore \/ Migrate \/ Recover \/ Start \/ LocalCertValidated \/ Create \/ UploadFailed
    \/ Created \/ ReadBundle \/ VersionFailed \/ Confirmed \/ Record \/ Complete

Next == Step \/ Die \/ \E entry \in Entry : Begin(entry)

Spec == Init /\ [][Next]_vars

\* A running command goes on, and the command is run again.
Fairness == WF_vars(Step) /\ WF_vars(\E entry \in Entry : Begin(entry))

-----------------------------------------------------------------------------
\* The types of the variables, and that OCIDs and row ids name something.
TypeOK ==
    /\ schema \subseteq Objects
    /\ run.statement \in DOMAIN Statements
    /\ certs \in Seq(Nat \ {0})
    /\ ops \in Seq(Operation)
    /\ \A i \in DOMAIN ops : ops[i].ocid \in 0..Len(certs)
    /\ certState \in CertificateState
    /\ local \in Nat /\ faults \in Nat
    /\ run.op \in 0..Len(ops) /\ run.ocid \in 0..Len(certs)

\* A command that gets past the opening of the store finds all of its tables,
\* however many openings were interrupted before.
StoreIsWhole ==
    run.pc \notin {"stopped", "issue", "open", "migrate"} => schema = Objects

\* "Apply each schema migration exactly once in one transaction": a command
\* that was interrupted has applied all of a version or nothing.
MigrationIsAtomic ==
    run.pc = "stopped" => schema \in {{}, {"schema_meta"}, Objects}

\* A certificate is imported only when no open bootstrap of the same leaf
\* has one: recovery always precedes creation.
RecoveryPrecedesCreation ==
    [][certs' # certs =>
         ~\E i \in Active(ops) : ops[i].fp = local /\ ops[i].ocid # Null]_vars

\* The OCID that renew_all takes from a completed bootstrap belongs to a
\* certificate that carries the leaf of that bootstrap, and the recorded
\* state is that of such a certificate.
ConfirmedIdentityIsReal ==
    /\ \A i \in DOMAIN ops :
          ops[i].state = "COMPLETED" => /\ ops[i].ocid # Null
                                        /\ certs[ops[i].ocid] = ops[i].fp
    /\ certState.published => \E c \in DOMAIN certs : certs[c] = certState.fp

\* renew_all, which runs unattended, leaves a confirmed identity alone.
ConfirmedIdentityIsFinal ==
    [][ConfirmedOcids # {} => certs' = certs /\ ConfirmedOcids \subseteq ConfirmedOcids']_vars

\* No leaf ever has two interrupted bootstraps to recover from: the error of
\* _recover_bootstrap for an ambiguous state is never raised.
RecoveryIsUnambiguous ==
    \A i, j \in Active(ops) :
        ops[i].ocid # Null /\ ops[j].ocid # Null /\ ops[i].fp = ops[j].fp => i = j

\* Once OCI holds the certificate, rerunning the command ends with the OCID
\* of an existing certificate confirmed.
InterruptedBootstrapRecovers == certs # << >> ~> ConfirmedOcids # {}
=============================================================================
