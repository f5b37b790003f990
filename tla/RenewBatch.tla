------------------------------ MODULE RenewBatch ------------------------------
(***************************************************************************)
(* PublicationService.renew_all, the command of the timer: every set is    *)
(* renewed in turn, a failure is kept and notified, and the batch goes on. *)
(* What the steps of a renewal do to OCI is the subject of AcmeService,    *)
(* Bootstrap and PublicationService: here each of them succeeds or raises, *)
(* and what counts is which handler the error reaches.                     *)
(***************************************************************************)
EXTENDS Naturals, FiniteSets

CONSTANTS
    NumSets,            \* configured certificate sets
    Errors,             \* classes of errors that issuing and publishing raise
    Observing,          \* sets with audit mode observe
    Enforcing,          \* sets with audit mode enforce
    RollingBack,        \* of these, the ones with automatic_rollback_on_failure
    Retaining,          \* sets with retention enabled
    ExpiryEvent,        \* expiry thresholds that a set may have reached
    LiveVerified,       \* compatibility.live_verified
    Enabled,            \* notifications.enabled
    MaxBatches,         \* bound: batches
    MaxFaults           \* bound: failed steps, failed posts and deaths

Sets == 1..NumSets

(***************************************************************************)
(* _failure_notification_event and _renewal_exit_code: the event and the   *)
(* exit code of each class, the more specific codes first.  The last class *)
(* stands for all those without a code of their own, the first of the ones *)
(* with the same event for the others.                                     *)
(***************************************************************************)
Specificity ==
    <<[error |-> "PreflightError", event |-> "HTTP01_PREFLIGHT_FAILED", exit |-> "HTTP01_PREFLIGHT_FAILED"],
      [error |-> "AcmeOperationError", event |-> "ACME_FAILED", exit |-> "ACME_FAILED"],
      [error |-> "CertificateValidationError", event |-> "LOCAL_CERT_REJECTED", exit |-> "X509_VALIDATION_FAILED"],
      [error |-> "AuditError", event |-> "AUDIT_FAILED", exit |-> "AUDIT_ENFORCE_FAILED"],
      [error |-> "RollbackError", event |-> "OCI_ROLLBACK_FAILED", exit |-> "ROLLBACK_FAILED"],
      [error |-> "ReconciliationError", event |-> "OCI_UPLOAD_FAILED", exit |-> "OCI_IMPORT_FAILED"]>>

Renewable == {Specificity[k].error : k \in DOMAIN Specificity}

Rank(error) == CHOOSE k \in DOMAIN Specificity : Specificity[k].error = error

ASSUME RenewBatchAssumption ==
    /\ Errors \subseteq Renewable
    /\ ExpiryEvent \subseteq {"CERTIFICATE_EXPIRY_CRITICAL", "CERTIFICATE_EXPIRY_WARNING"}
    /\ Observing \union Enforcing \union Retaining \subseteq Sets
    /\ Observing \intersect Enforcing = {} /\ RollingBack \subseteq Enforcing
    /\ {LiveVerified, Enabled} \subseteq BOOLEAN
    /\ NumSets \in Nat \ {0}
    /\ {MaxBatches, MaxFaults} \subseteq Nat

Event ==
    {Specificity[k].event : k \in DOMAIN Specificity}
    \union {"COMPATIBILITY_NOT_VERIFIED", "RETENTION_FAILED"} \union ExpiryEvent

DedupKey == Event \X Sets

VARIABLES
    dedup,      \* table alert_dedup: each key absent, in its cooldown or past it
    delivered,  \* alerts the webhook received of each key since it was last
                \* in no cooldown
    batch,      \* control point and locals of the batch
    batches,    \* number of batches so far
    faults      \* failed steps, failed posts and deaths so far

vars == <<dedup, delivered, batch, batches, faults>>

NoBatch ==
    [pc |-> "stopped", set |-> 1, event |-> "COMPATIBILITY_NOT_VERIFIED", back |-> "stopped",
     attempt |-> 0, published |-> {}, undone |-> {}, failed |-> {}, lost |-> {},
     exit |-> "NONE"]

Init ==
    /\ dedup = [k \in DedupKey |-> "absent"]
    /\ delivered = [k \in DedupKey |-> 0]
    /\ batch = NoBatch
    /\ batches = 0
    /\ faults = 0

Fault == faults < MaxFaults /\ faults' = faults + 1

Go(label) == batch' = [batch EXCEPT !.pc = label]

\* _notify_event, then on to "back": nothing when the notifier is disabled.
Notify(state, event, back) ==
    IF Enabled
    THEN [state EXCEPT !.pc = "shouldSend", !.event = event, !.back = back, !.attempt = 0]
    ELSE [state EXCEPT !.pc = back]

\* The event of a set that is not attested comes before its renewal.
Visit(state, set) ==
    IF LiveVerified
    THEN [state EXCEPT !.pc = "renew", !.set = set]
    ELSE Notify([state EXCEPT !.set = set], "COMPATIBILITY_NOT_VERIFIED", "renew")

Begin ==
    /\ batch.pc \in {"stopped", "ended"}
    /\ batches < MaxBatches
    /\ batches' = batches + 1
    /\ batch' = Visit(NoBatch, 1)
    /\ UNCHANGED <<dedup, delivered, faults>>

\* The batch is killed.
Die ==
    /\ batch.pc \notin {"stopped", "ended"}
    /\ Fault
    /\ batch' = NoBatch
    /\ UNCHANGED <<dedup, delivered, batches>>

-----------------------------------------------------------------------------
(***************************************************************************)
(* One set: issue and publish, audit, retention, the warning of an expiry. *)
(***************************************************************************)
Audited == Observing \union Enforcing

StepsOn == Go("retention") /\ UNCHANGED <<dedup, delivered, batches, faults>>

\* Issued, if due, and published.
Published ==
    /\ batch.pc = "renew"
    /\ Go(IF batch.set \in Audited THEN "audit" ELSE "retention")
    /\ UNCHANGED <<dedup, delivered, batches, faults>>

AuditSucceeds == batch.pc = "audit" /\ StepsOn

\* Mutant: a failed audit is not notified.
AuditFailsSilently ==
    /\ batch.pc = "audit"
    /\ Fault
    /\ Go("auditFailed")
    /\ UNCHANGED <<dedup, delivered, batches>>

\* A verdict, or AuditError, after _notify_audit_failure.
AuditFails ==
    /\ batch.pc = "audit"
    /\ Fault
    /\ batch' = Notify(batch, "AUDIT_FAILED", "auditFailed")
    /\ UNCHANGED <<dedup, delivered, batches>>

\* Kept with its notification: one of _RENEWABLE_CERTIFICATE_FAILURES.
Keep(error) ==
    LET failure == [set |-> batch.set, error |-> error]
        state == [batch EXCEPT !.failed = batch.failed \union {failure}]
    IN
    batch' = Notify(state, Specificity[Rank(error)].event, "next")

\* _run_post_publication_audit and _enforce_post_publication_audit.
AfterFailedAudit ==
    /\ batch.pc = "auditFailed"
    /\ \/ batch.set \in Observing /\ Go("retention")
       \/ batch.set \in RollingBack /\ Go("rollback")
       \/ batch.set \in Enforcing \ RollingBack /\ Keep("AuditError")
    /\ UNCHANGED <<dedup, delivered, batches, faults>>

\* The automatic rollback: the set still counts as published.
RolledBack ==
    /\ batch.pc = "rollback"
    /\ batch' = [batch EXCEPT !.pc = "retention", !.undone = batch.undone \union {batch.set}]
    /\ UNCHANGED <<dedup, delivered, batches, faults>>

\* The errors of each step that are kept.
ErrorsAt(step) ==
    CASE step = "renew" -> Errors
      [] step = "audit" -> {"CertificateValidationError", "ReconciliationError"}
      [] step = "rollback" -> {"RollbackError", "ReconciliationError"}
      [] OTHER -> {}

\* Mutant: the failure of a set ends the batch.
FailedForAll(error) ==
    /\ error \in ErrorsAt(batch.pc)
    /\ Fault
    /\ batch' = [batch EXCEPT !.pc = "ended", !.failed = {[set |-> batch.set, error |-> error]},
                              !.exit = Specificity[Rank(error)].exit]
    /\ UNCHANGED <<dedup, delivered, batches>>

Failed(error) ==
    /\ error \in ErrorsAt(batch.pc)
    /\ Fault
    /\ Keep(error)
    /\ UNCHANGED <<dedup, delivered, batches>>

\* _run_post_publication_retention: the errors it lists are notified, no
\* more.
Retained ==
    /\ batch.pc = "retention"
    /\ \/ Go("expiry") /\ UNCHANGED faults
       \/ /\ batch.set \in Retaining /\ Fault
          /\ batch' = Notify(batch, "RETENTION_FAILED", "expiry")
    /\ UNCHANGED <<dedup, delivered, batches>>

\* The set is counted; _expiry_notification_event may find it close to its
\* expiry.
Renewed ==
    LET state == [batch EXCEPT !.published = batch.published \union {batch.set}] IN
    /\ batch.pc = "expiry"
    /\ \/ batch' = [state EXCEPT !.pc = "next"]
       \/ \E event \in ExpiryEvent : batch' = Notify(state, event, "next")
    /\ UNCHANGED <<dedup, delivered, batches, faults>>

\* Any other error ends the batch with a traceback: the ServiceError of an
\* OCI management call, a name that does not resolve, an OSError, a
\* sqlite3.Error.
Escapes ==
    /\ \/ batch.pc \in {"renew", "audit", "rollback"}
       \/ batch.pc = "retention" /\ batch.set \in Retaining
    /\ Fault
    /\ Go("ended")
    /\ UNCHANGED <<dedup, delivered, batches>>

\* _renewal_exit_code: the most specific code among the failures.
ExitCode(failed) ==
    IF failed = {} THEN "SUCCESS"
    ELSE LET ranks == {Rank(f.error) : f \in failed}
         IN Specificity[CHOOSE k \in ranks : \A j \in ranks : k <= j].exit

\* Mutant: the sets are counted from 0.
NextSetTooFar ==
    /\ batch.pc = "next"
    /\ batch' = IF batch.set <= NumSets
                THEN Visit(batch, batch.set + 1)
                ELSE [batch EXCEPT !.pc = "ended", !.exit = ExitCode(batch.failed)]
    /\ UNCHANGED <<dedup, delivered, batches, faults>>

\* The next set of the configuration, or the end of the batch.
NextSet ==
    /\ batch.pc = "next"
    /\ batch' = IF batch.set < NumSets
                THEN Visit(batch, batch.set + 1)
                ELSE [batch EXCEPT !.pc = "ended", !.exit = ExitCode(batch.failed)]
    /\ UNCHANGED <<dedup, delivered, batches, faults>>

-----------------------------------------------------------------------------
(***************************************************************************)
(* NotificationService.notify, with the store as its deduplicator.         *)
(***************************************************************************)
Key == <<batch.event, batch.set>>

\* Mutant: the cooldown is claimed before the alert is posted.
ShouldSendAndClaim ==
    /\ batch.pc = "shouldSend"
    /\ Go(IF dedup[Key] = "cooldown" THEN batch.back ELSE "post")
    /\ dedup' = [dedup EXCEPT ![Key] = "cooldown"]
    /\ UNCHANGED <<delivered, batches, faults>>

\* should_send_alert: not within the cooldown of the last alert.
ShouldSend ==
    /\ batch.pc = "shouldSend"
    /\ Go(IF dedup[Key] = "cooldown" THEN batch.back ELSE "post")
    /\ UNCHANGED <<dedup, delivered, batches, faults>>

Deliver == delivered' = [delivered EXCEPT ![Key] = delivered[Key] + 1]

\* Answered with 2xx.
Posted ==
    /\ batch.pc = "post"
    /\ Deliver
    /\ Go("recordSent")
    /\ UNCHANGED <<dedup, batches, faults>>

\* Mutant: the delivery is not recorded.
RecordNothing ==
    /\ batch.pc = "recordSent"
    /\ Go(batch.back)
    /\ UNCHANGED <<dedup, delivered, batches, faults>>

\* record_alert_sent
RecordSent ==
    /\ batch.pc = "recordSent"
    /\ dedup' = [dedup EXCEPT ![Key] = "cooldown"]
    /\ Go(batch.back)
    /\ UNCHANGED <<delivered, batches, faults>>

\* NotificationError: the alert is lost.
GiveUp == [batch EXCEPT !.pc = batch.back, !.lost = batch.lost \union {Key}]

\* The store cannot be opened, the credential cannot be read, or the status
\* is not worth another attempt: _notify_event swallows the error.
Rejected ==
    /\ batch.pc \in {"shouldSend", "post"}
    /\ Fault
    /\ batch' = GiveUp
    /\ UNCHANGED <<dedup, delivered, batches>>

\* 5xx, 429 or a broken connection, whether or not the webhook had received
\* the alert: a second attempt, then NotificationError.
Unanswered ==
    /\ batch.pc = "post"
    /\ Fault
    /\ Deliver \/ UNCHANGED delivered
    /\ batch' = IF batch.attempt = 0
                THEN [batch EXCEPT !.attempt = 1]
                ELSE GiveUp
    /\ UNCHANGED <<dedup, batches>>

\* total_timeout_seconds elapse: that raises TimeoutError, which is not an
\* aiohttp.ClientError, and neither notify nor _notify_event nor renew_all
\* handles it.
TimesOut ==
    /\ batch.pc = "post"
    /\ Fault
    /\ Deliver \/ UNCHANGED delivered
    /\ Go("ended")
    /\ UNCHANGED <<dedup, batches>>

\* minimum_repeat_interval_minutes have passed since the last alert.
CooldownEnds(k) ==
    /\ dedup[k] = "cooldown"
    /\ dedup' = [dedup EXCEPT ![k] = "past"]
    /\ delivered' = [delivered EXCEPT ![k] = 0]
    /\ UNCHANGED <<batch, batches, faults>>

-----------------------------------------------------------------------------
Next ==
    \/ Begin \/ Published \/ AuditSucceeds \/ AuditFails \/ AfterFailedAudit \/ RolledBack
    \/ Retained \/ Renewed \/ Escapes \/ NextSet \/ Die
    \/ \E error \in Renewable : Failed(error)
    \/ ShouldSend \/ Posted \/ RecordSent \/ Rejected \/ Unanswered \/ TimesOut
    \/ \E k \in DedupKey : CooldownEnds(k)

Spec == Init /\ [][Next]_vars

-----------------------------------------------------------------------------
\* The types of the variables.
TypeOK ==
    /\ dedup \in [DedupKey -> {"absent", "cooldown", "past"}]
    /\ delivered \in [DedupKey -> Nat]
    /\ batch.set \in Sets /\ batch.event \in Event
    /\ batch.published \subseteq Sets /\ batch.undone \subseteq Sets
    /\ batch.failed \subseteq [set : Sets, error : Renewable]
    /\ batch.lost \subseteq DedupKey
    /\ batches \in Nat /\ faults \in Nat

\* A batch that ends with an exit code has attempted every set, whatever
\* became of the ones before, and the code is SUCCESS if and only if all of
\* them were published.
BatchIsComplete ==
    batch.exit # "NONE" =>
        /\ batch.published \union {f.set : f \in batch.failed} = Sets
        /\ batch.exit = "SUCCESS" <=> batch.published = Sets

\* Nothing goes wrong silently: the alert of every set that failed, or whose
\* publication was undone, which the exit code does not tell, has been
\* delivered, now or within an earlier cooldown, unless the notifier gave it
\* up.
FailuresAreAlerted ==
    LET due == {<<Specificity[Rank(f.error)].event, f.set>> : f \in batch.failed}
               \union ({"AUDIT_FAILED"} \X batch.undone)
    IN
    Enabled /\ (batch.pc = "next" \/ batch.exit # "NONE") =>
        \A k \in due : dedup[k] # "absent" \/ k \in batch.lost

\* A batch that is not killed attempts every set: neither the failure of a
\* set nor the notification of one stops the later sets.
LaterSetsAreAttempted ==
    batch.pc = "ended" => batch.published \union {f.set : f \in batch.failed} = Sets

\* A key is in its cooldown only if its alert was delivered: a failure to
\* deliver, or a death before it, never silences the next one.
SilenceIsEarned ==
    \A k \in DedupKey : dedup[k] = "cooldown" => delivered[k] > 0

\* Until its cooldown ends an alert is received once, and once more for each
\* fault at most.
AlertsAreBounded == \A k \in DedupKey : delivered[k] <= 1 + faults
=============================================================================
