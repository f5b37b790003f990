------------------------------ MODULE Publisher ------------------------------
(***************************************************************************)
(* What the invocations of the oci-acme command share for one certificate  *)
(* set: the host's advisory lock, the SQLite state, the local lineage and  *)
(* the OCI certificate; and the steps every command has in common (taking  *)
(* and releasing the lock, dying, calling OCI).  The commands themselves   *)
(* are in the modules that extend this one; PublicationService composes    *)
(* them.                                                                   *)
(*                                                                         *)
(* A process is an operating system process running one command.  One step *)
(* of a process is one call to OCI or one SQLite transaction, so it can be *)
(* killed between any two of them.                                         *)
(***************************************************************************)
EXTENDS OciCertificates, StateStore, FiniteSets

CONSTANTS
    Process,            \* concurrent invocations on the host
    Commands,           \* the commands that are invoked
    PromotionAttempts,  \* oci.mutation_reconciliation_attempts
    AuditMode,          \* audit.mode: "disabled", "observe" or "enforce"
    AutomaticRollback,  \* audit.automatic_rollback_on_failure
    RetentionEnabled,   \* retention.enabled
    KeepDeprecated,     \* retention.keep_deprecated_versions
    Lag,                \* OCI's listing and retrieval endpoint may lag
    MaxIssued,          \* bound: leaves issued, the first one included
    MaxExpired,         \* bound: leaves that may expire
    MaxOperations,      \* bound: rows of the operations table
    MaxFaults           \* bound: failed calls and deaths

AllCommands == {"PUBLISH", "RECONCILE", "RENEW", "AUDIT", "ROLLBACK", "RETENTION"}

\* The commands that publish.
Publishing == {"PUBLISH", "RECONCILE", "RENEW"}

ASSUME PublisherAssumption ==
    /\ Commands \subseteq AllCommands
    /\ PromotionAttempts \in Nat \ {0}
    /\ AuditMode \in {"disabled", "observe", "enforce"}
    /\ AutomaticRollback \in BOOLEAN
    /\ RetentionEnabled \in BOOLEAN
    /\ KeepDeprecated \in Nat
    /\ Lag \in BOOLEAN
    /\ {MaxIssued, MaxExpired, MaxOperations, MaxFaults} \subseteq Nat

\* config.automatic_rollback_requires_enforcement
ASSUME RollbackNeedsEnforcement == AutomaticRollback => AuditMode = "enforce"

VARIABLES
    oci,        \* the OCI certificate
    net,        \* requests to OCI whose sender stopped waiting for them
    ops,        \* table operations
    certState,  \* the set's row of table certificate_state
    local,      \* fingerprint of the current local lineage
    expired,    \* the leaves up to this one are past their validity
    lock,       \* holder of the advisory lock
    proc,       \* each process's control point and locals
    faults      \* failed calls and deaths so far

vars == <<oci, net, ops, certState, local, expired, lock, proc, faults>>

Ocid == 1

Free == "free"

ASSUME FreeIsNoProcess == Free \notin Process

Idle ==
    [pc |-> "idle", cmd |-> "NONE", op |-> 0, fp |-> 0, now |-> 0,
     etag |-> 0, version |-> 0, attempt |-> 0, plan |-> {}]

Become(p, state) == proc' = [proc EXCEPT ![p] = state]

Go(p, label) == Become(p, [proc[p] EXCEPT !.pc = label])

\* The process moves its own operation row to another state.
LogStep(p, label, state, version, next) ==
    /\ proc[p].pc = label
    /\ ops' = Transition(ops, proc[p].op, state, version, Null)
    /\ Go(p, next)
    /\ UNCHANGED <<oci, net, certState, local, expired, lock, faults>>

\* Set up by bootstrap: version 1 carries the first leaf and is recorded.
Init ==
    /\ oci = Imported(1)
    /\ net = {}
    /\ ops = << >>
    /\ certState = [local |-> 1, fp |-> 1, version |-> 1, published |-> TRUE,
                    renewed |-> FALSE, audited |-> FALSE]
    /\ local = 1
    /\ expired = 0
    /\ lock = Free
    /\ proc = [p \in Process |-> Idle]
    /\ faults = 0

-----------------------------------------------------------------------------
(***************************************************************************)
(* Life of a process.  A non-blocking acquire that finds the lock held     *)
(* ends the command with LockUnavailableError: nothing changes.            *)
(***************************************************************************)
FirstStep(cmd) ==
    CASE cmd \in {"PUBLISH", "RECONCILE"} -> "start"
      [] cmd = "RENEW"     -> "renew"
      [] cmd = "AUDIT"     -> "auditStart"
      [] cmd = "ROLLBACK"  -> "rollbackStart"
      [] cmd = "RETENTION" -> "retentionPlan"

\* The bounds admit another run; the last one starts with nothing in flight.
MayStart == Len(ops) + 1 < MaxOperations \/ (Len(ops) + 1 = MaxOperations /\ net = {})

Acquire(p, cmd) ==
    /\ proc[p].pc = "idle"
    /\ lock = Free
    /\ MayStart
    /\ lock' = p
    /\ Become(p, [Idle EXCEPT !.pc = FirstStep(cmd), !.cmd = cmd])
    /\ UNCHANGED <<oci, net, ops, certState, local, expired, faults>>

\* The command ends, with a result or with an exception nothing handles; the
\* lock goes with the process.
Exit(p) ==
    /\ Become(p, Idle)
    /\ lock' = Free

Return(p) ==
    /\ proc[p].pc = "return"
    /\ Exit(p)
    /\ UNCHANGED <<oci, net, ops, certState, local, expired, faults>>

(***************************************************************************)
(* Faults are bounded, and the last operation the bounds admit suffers     *)
(* none: every history that TLC explores ends with an undisturbed run, as  *)
(* the timer always has a next one.                                        *)
(***************************************************************************)
MayFail == faults < MaxFaults /\ Len(ops) < MaxOperations

Fault == MayFail /\ faults' = faults + 1

\* A read that still shows an old state after its last attempt is a fault.
CountLag(shown, actual) == IF shown = actual THEN UNCHANGED faults ELSE Fault

\* The process is killed, or the call it is making raises without effect.
Die(p) ==
    /\ proc[p].pc # "idle"
    /\ Fault
    /\ Exit(p)
    /\ UNCHANGED <<oci, net, ops, certState, local, expired>>

-----------------------------------------------------------------------------
(***************************************************************************)
(* Calls that mutate the OCI certificate, all conditional on an etag.      *)
(***************************************************************************)

\* The request is executed and its answer arrives.
Succeeds(req) ==
    /\ Accepts(oci, req)
    /\ oci' = Executed(oci, req, Lag)
    /\ UNCHANGED <<net, faults>>

\* 412: refused, which no caller retries.
Refused(req) ==
    /\ ~Accepts(oci, req)
    /\ UNCHANGED <<oci, net, faults>>

\* The call raises (timeout, 5xx, lost connection) without telling whether
\* the request was executed, never will be, or is yet to be.
Ambiguous(req) ==
    /\ Fault
    /\ \/ Accepts(oci, req) /\ oci' = Executed(oci, req, Lag) /\ UNCHANGED net
       \/ UNCHANGED <<oci, net>>
       \/ net' = net \union {req} /\ UNCHANGED oci

\* A request whose sender is gone reaches the service after all.
ArriveLate(req) ==
    /\ net' = net \ {req}
    /\ oci' = IF Accepts(oci, req) THEN Executed(oci, req, Lag) ELSE oci
    /\ UNCHANGED <<ops, certState, local, expired, lock, proc, faults>>

\* The listing catches up with the certificate.
ListingSettles ==
    /\ oci.listed # Len(oci.versions)
    /\ oci' = [oci EXCEPT !.listed = Len(oci.versions)]
    /\ UNCHANGED <<net, ops, certState, local, expired, lock, proc, faults>>

\* The retrieval endpoint catches up with the certificate.
RetrievalSettles ==
    /\ oci.served # oci.current
    /\ oci' = [oci EXCEPT !.served = oci.current]
    /\ UNCHANGED <<net, ops, certState, local, expired, lock, proc, faults>>

-----------------------------------------------------------------------------
\* Time passes: leaves expire in the order they were issued.
Expire ==
    /\ expired < MaxExpired
    /\ expired' = expired + 1
    /\ UNCHANGED <<oci, net, ops, certState, local, lock, proc, faults>>

\* validate_public_certificate, at the process's time "now".
IsValid(fp, now) == now < fp

-----------------------------------------------------------------------------
(***************************************************************************)
(* Where a publishing command goes next: _run_post_publication_audit skips *)
(* a disabled audit, _run_post_publication_retention a disabled retention. *)
(***************************************************************************)
AfterAudit == IF RetentionEnabled THEN "retentionPlan" ELSE "return"

AfterPublication == IF AuditMode = "disabled" THEN AfterAudit ELSE "auditStart"
=============================================================================
