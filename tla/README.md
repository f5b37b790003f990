# A TLA+ development of oci-acme-publisher

`oci-acme-publisher` keeps a certificate of the OCI Certificates service equal
to a certificate that it obtains itself from an ACME certificate authority.  It
is a set of commands (`publish`, `reconcile`, `renew`, `bootstrap`, `audit`,
`rollback`, `retention`), most of them started by a systemd timer, one at a time
under a host-wide advisory lock.  Every command can be killed at any point, every
call to OCI, to the CA or to a webhook can fail or be of unknown outcome, and the
only memory between two runs is a SQLite file, a directory of certificate
generations and OCI itself.  That is what the modules model.

Paths below are relative to `src/src/oci_acme_publisher/` unless they start with
`docs/` or `src/`.

## 1. Inventory

| Component | State it keeps | Operations | Correct when |
|---|---|---|---|
| advisory lock (`locking.py`, `cli.main`) | a flock on one file | acquire without waiting, release, release by death | one mutating command at a time |
| state store (`state_store.py`) | tables `operations`, `certificate_state`, `alert_dedup` | `start_operation`, `transition`, `record_*`, `complete_*`, `should_send_alert`, `record_alert_sent` | what it reports of OCI is true, or an open operation says that it may not be |
| reconciler (`reconciler.py`) | none | `publish`: read CURRENT, find or upload a PENDING version, verify, promote, confirm, record | no leaf imported twice, completed means published, repeated runs converge |
| rollback (`rollback_service.py`) | none | restore PREVIOUS, confirm, audit | only it takes CURRENT back |
| TLS audit (`publication_service.audit`, `audit_service.py`) | none | probe endpoints until they converge, record the verdict | a success is true of the endpoints |
| retention (`retention_service.py`, `publication_service.retention`) | none | plan, then schedule deletions one by one | no version in use or kept for rollback is deleted |
| OCI adapters (`oci_certificates.py`, `oci_retry.py`) | none; the service keeps versions, stages, an etag | conditional mutations, eventually consistent reads | external |
| bootstrap (`publication_service.bootstrap`) | none | issue, create the OCI certificate, confirm; recover an interrupted one | at most one certificate per leaf and a real, final OCID |
| renewal batch (`publication_service.renew_all`, `cli._renew`) | none | renew every set, keep failures, exit code | one set's failure does not affect another |
| notification (`notification_service.py`) | `alert_dedup` | deliver with two attempts and a cooldown | no alert silenced without a delivery, few duplicates |
| ACME issuance (`acme_service.py`) | account key file | order, answer challenges, finalize, select a chain, commit, clean up | a due lineage is renewed whatever happened to earlier runs |
| certificate store (`certificate_store.py`) | generations, symlink `current` | `commit`, `load` | `current` always names a complete generation |
| HTTP-01 (`http01_preflight.py`, `http01_paths.py`, `http01_responder.py`) | challenge files | write, serve, remove, self check | an answered challenge is served until the CA is done, then removed |
| migrations (`migrations.py`) | the tables and `user_version` | apply each once when the store is opened | no command works on half a store |
| live probe and evidence (`compatibility_probe.py`, `staging_evidence.py`) | an evidence file | publish, renew, audit, roll back, audit; write what was seen | the evidence proves that a second version was promoted, consumed and rolled back |
| metrics (`metrics.py`) | none | count rows | counters never go back |
| configuration, validation, preflight, status, support, logging | read-only or pure | | see section 8 |

How they interact: `cli` takes the lock and calls `PublicationService`, which
runs issuance, the reconciler, the audit, the rollback and retention in that
order.  They share the SQLite file and the OCI certificate; nothing else is
passed from a run to the next.  What is hard is therefore not concurrency inside
a run, which is sequential, but (a) the order of effects across killed runs,
(b) requests whose sender is gone and that OCI executes later, (c) reads that lag
behind, (d) exceptions that leave through a handler nobody had in mind, and
(e) things that must happen eventually although each run may fail.
`PROJECT.json` lists these hazards line by line.

## 2. Modules

    OciCertificates   StateStore            Migrations
            \          /      \              /
             Publisher         Bootstrap ----+---- MCBootstrap
          /    |    |    \
    Reconciler |    |   RetentionService
      RollbackService TlsAudit
          \    |    |    /
        PublicationService
          |       |       \  \
          |       |        \  AuditService --- LiveProbe --- MCLiveProbe
          |       |         Metrics ----------+
          |   CertificateRefinement ----------+---- MCPublicationService
          |    (ManagedCertificate)
        PublicationInvariant -- CertificateInvariant -- LiveProbeInvariant
                                                        (and LiveProbe)

             AcmeState
             /       \
        Http01   CertificateStore
             \       /
            AcmeService ---- MCAcmeService      RenewBatch ---- MCRenewBatch

The proofs of a module are in one of its own, named `..._proofs`:

    PublicationService_proofs       (PublicationInvariant)
      |-- Metrics_proofs --------------+
      |-- CertificateInvariant_proofs  |
            |-- CertificateRefinement_proofs
            |-- LiveProbe_proofs ------+          (LiveProbeInvariant)
    RenewBatch_proofs, Bootstrap_proofs, AcmeService_proofs

**OciCertificates** (external service).  A certificate is a sequence of versions,
each with an immutable leaf, the versions in the stages CURRENT, PREVIOUS and
PENDING, an etag that every accepted mutation changes, and how far the listing
and the retrieval endpoint have caught up.  Leaves are numbered in the order of
issue.  A mutation is a request conditional on an etag, so that it can be
executed later than it was sent.  The deletion of a version is conditional on the
version's own etag in the code; the model uses the certificate's, which the
comment at `publication_service.py:440` says changes along with it.

**StateStore**.  Each method that writes is an operator on the table: one
transaction, hence atomic.

**Publisher**.  The variables all commands share, the life of a process (take the
lock, end, die) and what can become of a call to OCI: it succeeds, is refused for
its etag, or raises without telling whether the request was executed, never will
be, or will be executed later (`net`).  Reads that fail end the command, as the
death of the process does (`Die`): nothing is written on either path.  The
bounded retries of reads are one read, of which the last answer counts.

**Reconciler, RollbackService, TlsAudit, RetentionService**.  One action for each
OCI call and each transaction, in the order of the code; a process's locals
(`op`, `fp`, `etag`, `version`, ...) are those that survive from one call to the
next.  Validity is `now < fp`: leaves expire in the order of issue, and a run
uses the clock it read at its start where the code passes `now` along.

**PublicationService** composes them and states the properties.

**ManagedCertificate** is what all the commands together promise, without rows,
processes, requests or etags: a versioned register with a write-ahead log.  A
version is announced in the log before it is put in use, CURRENT only goes back
to a version that a rollback announced, a deletion never hits a version in use
or announced, and CURRENT is always either recorded or announced.
**CertificateRefinement** maps the log to the open rows of the operations table
and states that PublicationService implements it.

**AuditService** decides the audits of PublicationService (a free verdict in
TlsAudit) as the code does, one probe of one address at a time, while each
consumer takes up the leaf of CURRENT whenever it likes.  **LiveProbe** runs
`staging verify` as one command over the others: five calls under one lock, each
of them the steps of PublicationService, then the evidence file.  **Metrics**
computes the counters from the operations table.

**Bootstrap** models the first import for a set whose configuration has no OCID:
several OCI certificates of the set's name may exist, `certs[ocid]` is the leaf of
one.  Its first commands also create the state store: **Migrations** executes the
statements one by one, each committed by itself, because the connection is opened
with `isolation_level=None` (`state_store.py:116`) and nothing begins a
transaction.

**RenewBatch** models the batch over several sets.  Each set is published, audited
under its own policy, rolled back, cleaned up by retention and warned about its
expiry; each of these steps succeeds or raises, and the module follows the error
to the handler that lists it, or past all of them, down to the exit code.  Alerts
go through `NotificationService` with its durable deduplication.

**AcmeState, Http01, CertificateStore, AcmeService** model the disk during an
issuance, file by file.  `Raise` sends the run to the handler that the code has
at that point (`Handler`), `Die` runs none.  The expiry of the local lineage,
which ends `renew` early, is part of `Reconciler!Renew`, not of this composition;
here a lineage may only become due.

## 3. Runs

| Run | Result | Question |
|---|---|---|
| `commands` | pass | two processes, renewal, rollback, audit and retention, kills, ambiguous requests, late requests, enforced audit with automatic rollback: `TypeOK`, `NoDuplicateVersion`, `CompletedIsTruthful`, `PendingIsRemembered`, `CurrentIsAccountedFor`, `DeletionIsSafe`, `OnlyRollbackRegresses`, `CountersNeverDecrease`, and the refinement `ManagesCertificate` |
| `converge` | pass | lagging listing and retrieval, an expiring leaf: `ConvergesInTime` under fairness, `CompletedIsTruthful` |
| `probe` | pass | `staging verify` after interrupted commands, an expiring leaf, two consumers: `EvidenceIsProof`, `VerdictIsTrue`, `CurrentIsAccountedFor`, `CompletedIsTruthful`, `PendingIsRemembered` |
| `bootstrap` | pass | interrupted migrations and bootstraps by `renew_all`: `StoreIsWhole`, recovery precedes creation and is unambiguous, and the confirmed OCID is real and final |
| `issue` | pass | two domains, exceptions and kills at every step: `CurrentIsComplete`, `AnsweredIsServed`, `RunsCleanUp`, `Reissues` |
| `batch` | pass | two batches over three sets, one of each audit policy, failing webhook: `BatchIsComplete`, `SilenceIsEarned`, `AlertsAreBounded`, `FailuresAreAlerted` |
| `expired_current` | violation | `Converges` when the leaf of CURRENT expires |
| `automatic_rollback` | violation | `EvidenceIsProof` when the renewal inside the probe is rolled back automatically |
| `interrupted_migration` | violation | the claim of `apply_migrations`'s docstring |
| `bootstrap_interrupted` | violation | the claim of `docs/disaster-recovery.md` |
| `interrupted_commit` | violation | `CurrentIsComplete` when an exception follows `os.replace` in `commit` |
| `batch_isolation` | violation | the claim of `renew_all`'s docstring |

What the violations show, in the code's terms:

* `expired_current`.  `publish` validates the CURRENT bundle before anything else
  (`reconciler.py:126`).  Once that leaf has expired every run raises there, and
  nothing replaces it, although the local lineage is valid.
* `automatic_rollback`.  The audit inside the forced renewal fails and the
  promotion is undone, but `renew` returns the version it had published.  The
  probe's audit then passes on the old CURRENT, and its `rollback` promotes
  PREVIOUS, the new version.  The evidence says "promoted 2, rolled back to 2".
* `interrupted_migration`.  A command killed after the first `CREATE TABLE` leaves
  a file on which every later command fails, since the statements are not one
  transaction.
* `bootstrap_interrupted`.  Killed between the creation and the transition that
  persists the OCID, or closed as OCI_VERSION_FAILED because the bundle could not
  be read, the certificate is never recovered: the next run is refused for the
  name, or (where names are not unique) creates another certificate.
* `interrupted_commit`.  The handler of `commit` deletes the generation's files
  although `current` names it already; `exists` is then true, `load` raises, and
  no later run gets past it.
* `batch_isolation`.  A `ServiceError`, `OSError` or `sqlite3.Error`, or the
  `TimeoutError` of a webhook, is in none of the lists of handled errors; neither
  is the `gaierror` of an endpoint that does not resolve, in observe mode.

Behaviour that the modules contain and no run singles out:

* A killed audit is closed by a later one only where it was AUDIT_PENDING; its row
  is DISCOVERED before that and AUDIT_SUCCESS after it, and stays open there.
* When the listing lags, a run killed right after its upload is followed by one
  that reads the new etag, does not find the version and imports the leaf again
  (the version name contains the date, so it does not identify the upload).
  `NoDuplicateVersion` is checked and proved with `Lag = FALSE`.
* A disabled audit succeeds without a probe, so with audit mode `disabled` the
  live probe qualifies a profile that no endpoint has presented.
* A failed publication leaves an open row and no failure state, so the failure
  counters of renewals and publications do not count it.

## 4. Bounds

Bounds are CONSTANTS named `Max...`; they limit leaves, rows, runs, batches and
faults, never the steps in between.  Two processes are enough for the lock, as a
third would only wait too; `commands` uses the symmetry of the processes, which is
sound for invariants, action properties and `ManagesCertificate` (no property
names a process), and `converge`, which checks liveness, does not.  Three leaves
allow a renewal on top of an unfinished one, and a DEPRECATED version; five rows
allow a publication, its audit, an automatic rollback and two more commands; two
faults are a request that arrives late and a death after it.  `MaxEarlier` limits
the rows that exist when the last command of `probe` starts: two, so that the
probe meets a publication and a rollback that were interrupted.  A leaf expires
in `converge`, `probe` and `expired_current`; `ConvergesInTime` is `Converges` on
the histories in which `publish` is never served an expired leaf.  Two addresses of one endpoint let a consumer
move between two probes.  `batch` has three sets, so that each audit policy meets
a set before and a set after it.  `issue` has two domains (a
failure between two authorizations), four runs and two faults.  In the actions
the last operation (or run) that the bounds admit suffers no fault and starts with
no request in flight: each explored history ends with an undisturbed run.  This
stands for "faults do not go on for ever" in the liveness checks, and hides
nothing from the invariants, which are checked in all the earlier runs.

A state without a successor is a deadlock in every passing run; `Finished` in the
MC modules adds a stuttering step only where the bounds admit no further run.

## 5. Fairness

`Fairness` in PublicationService: a process that holds the lock goes on (it is
sequential, and all its calls have timeouts); the timer starts another command
when the lock is free (`systemd` timer, `Persistent=true`); requests in flight
arrive; OCI's reads settle.  Faults have no fairness.  In Bootstrap and AcmeService
a running command goes on and is run again.  `Reissues` excepts one state: a run
stopped while it wrote the account key leaves a file that no later run parses or
replaces (`acme_service.py:154`).

## 6. Proofs

Each theorem is about the specification of its module, for every value of the
constants: any sets of processes, domains and certificate sets, any bounds, any
number of leaves, runs and faults, every audit and retention setting.  The
assumptions on the constants are the ones that the modules name: they have their
types, automatic rollback requires enforcement (`config.py:328`), the idle values
of the lock and of a token are no process and no domain, and a batch has a set
(`config.py:400`).  What a theorem assumes beyond them is stated below.  Each proof
follows one pattern: an inductive invariant, one lemma for each action or group of
similar actions, and the properties from the invariant.

**The publication core** (`PublicationService_proofs`).

* `Invariance`: `Spec => []Inv`.  `TypeOK` and `CompletedIsTruthful` are not
  inductive: the last step of `_complete` writes a version that the process read
  many steps earlier.  `Inv` adds what a process knows at each control point: only
  the lock's holder is at work (`LockInv`); its row is the one it inserted, of its
  own type and leaf (`OwnRow`); its version exists, and from the confirmation on
  carries its leaf (`OwnVersion`); requests in flight name versions and leaves that
  exist (`NetInv`).  The proof rests on two facts: versions are never removed and
  their leaves never change (`Grows`), so what was read stays true however stale it
  is; and rows are changed only by their own run, or closed by a run that has
  confirmed the same leaf (`complete_reconciled_operations`).
* `TypeCorrectness`, `CompletionIsTruthful`, `MutualExclusion` follow, with any lag.
* `NoDuplicateImport`: with `~Lag`, `Spec => []NoDuplicateVersion`.  The inductive
  part is `EtagInv`: an upload, pending in a process or in flight, whose etag is
  still current is of a leaf newer than all versions.  It holds because the etag is
  read before the listing is searched: whoever else changes the certificate changes
  the etag, and the upload is refused.  The mutant `UploadWithFreshEtag`, which
  reads the etag last, breaks it.

**The certificate and its journal** (`CertificateInvariant_proofs`,
`CertificateRefinement_proofs`), with `~Lag`.

* `CertificateInvariance`: `Spec => []Known`, the three invariants above and
  `CertificateInv`, which the module CertificateInvariant states.  Its centre is that
  the requests which OCI would still execute are the ones whose etag is current, and
  that each of them is `Grounded`: an upload's leaf has an open row, a promotion is
  announced by an open row of a newer leaf or of a rollback, a deletion is of a
  version that nothing uses or announces.  The same has to be known of what the
  process at work will send next, and of the rows that it is about to close
  (`SeenInv`: a publication that found CURRENT in place closes all the rows of the
  leaf, and spares the ones that still announce something).
* `CurrentAccountedFor`, `DeletionSafety`, `PendingRemembered` are parts of it.
* `RegressionIsRollback` and `CertificateIsManaged` are the action property
  `OnlyRollbackRegresses` and the refinement of ManagedCertificate, one lemma for
  each action that is a step of the abstract register; all the others stutter.

**The history** (`Metrics_proofs`), with any lag.

* `HistoryIsFinal`: `Spec => [][TerminalKept]_vars`, no step touches a row in a
  terminal state.  `transition` is an unconditional update, so this is not a matter of
  the statement: it needs that the row of a process is open at every step that writes
  it (`OpenRows`), although other steps close rows in bulk; they only reach rows of
  runs that are gone, since the lock's holder excludes its own.
* `CountersAreMonotone` follows: a counter is the number of rows of some types in some
  terminal states, a set that can only grow.

**Audits and the live probe** (`LiveProbe_proofs`), with `~Lag`.  A probe is not a
behaviour of `Spec`, as it makes its calls one after the other without giving up the
lock, but each of its steps is a step of PublicationService, the end of a command or
the start of the next (`ServiceStep`), so the invariants above carry over.  LiveProbeInvariant
states what comes on top.

* `ProbeInvariance` adds to them that a probe holds the lock until it ends (`AtWork`)
  and what an audit knows (`VerdictInv`).  The leaf that it expects was that of
  CURRENT when it began.  A late request may move CURRENT, once: whatever else is in
  flight was sent under the same etag or an older one (`Quiet`), and the new CURRENT
  carries another leaf, as no two versions carry the same.  So as long as CURRENT
  carries the expected leaf it has not moved, no consumer had any reason to change, and
  the addresses that matched still do.  `VerdictsAreTrue` is that at the last step;
  without the second half the audit could be misled by a CURRENT that moves away and
  back.
* `ProbeKeepsPromises`: the invariants of PublicationService that the run `probe`
  checks hold of `ProbeSpec`.
* `EvidenceIsAProof`: with `~AutomaticRollback` in addition, `EvidenceIsProof`.
  `EvidenceInv` follows the five calls (`ProbeStageInv`).  The baseline's row
  is of a leaf that exists (`BaselineInv`).  The forced renewal issues a leaf that no
  version carries and no upload in flight brings (`Unknown`), so the reconciler can but
  upload it; from then on a request that is still effective can only be a promotion
  of the new version, by this run or by an attempt of it that timed out (`Settling`);
  and once CURRENT carries the leaf no request at all is effective (`Settled`).  So
  the audits in between find it in place, and PREVIOUS, which the rollback takes, is
  another version, hence of an older leaf (`RestoredInv`).  The numbers in the file
  are those of rows that completed, which `HistoryIsFinal` keeps as they were.
  The assumption is needed: the run `automatic_rollback` refutes the property without
  it.

**Bootstrap** (`Bootstrap_proofs`).  `BootstrapInvariance` says what each step knows
of the tables of the store (`Store`: the statement that records the schema's version
is the last), of its row (`Locals`) and of the rows a later run can recover
(`Recoverable` is empty for the leaf until the run writes an OCID into its own row;
from there on it has no other element).  From it: `TypesHold`, `StoreWholeness`,
`IdentityIsReal`, `RecoveryUnambiguous`, and of the steps `RecoveryFirst` and
`IdentityIsFinal`.  The last assumes `"bootstrap" \notin Entry`: the command
`bootstrap`, unlike `renew_all`, looks for no confirmed identity before it creates a
certificate.

**Issuance** (`AcmeService_proofs`).  `AcmeInvariance` relates what the run will
remove to what it has put in place (`Serving`), and tells the generation that is
being filled from the current one (`Generations`: it is not current before its files
are complete).  From it: `IssuanceTypes`, `ChallengesServed`, and of the steps
`ChallengesRemoved`.  `CommitIsAtomic` assumes `~Interruptible`, without which the run
`interrupted_commit` refutes it.

**The batch** (`RenewBatch_proofs`).  `BatchInvariance` counts the sets up to the one
in hand (`Progress`: published or failed, never both), and follows each alert from
the failure to the delivery (`Alerts`, `Cooldowns`, `Deliveries`: one delivery that
is not due to a fault, the one that starts the cooldown).  From it: `Types`,
`BatchCompleteness`, `SilenceEarned`, `AlertsBounded`, `FailuresAlerted`.

TLC checked each inductive invariant on the instances of section 3 before it was
proved.

## 7. Only model-checked

Liveness (`ConvergesInTime`, `Reissues`, `InterruptedBootstrapRecovers`) is out of the
prover's reach.  Every invariant and every action property that a passing run checks is a
theorem.  The six properties that the other runs refute are statements of the
repository that the code does not fulfil.

A listing that lags makes `NoDuplicateVersion` and `PendingIsRemembered` false (section
3), so their theorems need `~Lag`.  `CurrentIsAccountedFor` and `DeletionIsSafe` do
hold on the instance of `commands` with `Lag = TRUE`; their proofs use the order of the
versions, and so assume more than the properties may need.

## 8. Not modelled

* X.509 validation, chain building and the compatibility profile are pure and
  cryptographic: a leaf is valid or expired, a chain acceptable or not.
* Configuration, the production gate, preflight, status, support bundle and the
  operator view only read.
* Migrations of an existing store: there is one version so far.
* The responder's HTTP handling, rate limits and concurrency: it shares files that
  it only reads.  DNS and TLS of audits: a probe answers a leaf or does not.
* Loss of power: files whose `fsync` returned, and renames, are taken as durable.
  A short `os.write` in `_write_challenge` (`http01_preflight.py:50`) and the
  single steps of the clean-up in `commit` are not split.
* Someone else changing the OCI certificate at the same time.

## 9. Plan

Done: the publication core, its abstract specification and the refinement, audits
with their consumers, the live probe, metrics, bootstrap with its migrations,
issuance, the batch with its audits and alerts, and the proofs of all of these.

1. `CurrentIsAccountedFor` and `DeletionIsSafe` for a listing that lags, with an
   inductive invariant that does not use the order of the versions.
2. An abstract specification of a certificate set across bootstrap, batch and
   issuance, which are separate compositions now.
3. The responder's reads against the publisher's writes; `plan_retention` and
   `_select_chain` against reference definitions.

## 10. Running

    tlc -workers 2 -config commands.cfg MCPublicationService
    for m in *_proofs.tla; do tlapm $m; done

Definitions commented "Mutant" are altered forms of the definition that follows
them.  No specification uses them; `PROJECT.json` pairs each with the property
that fails when it takes the definition's place.
