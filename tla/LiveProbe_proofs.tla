---------------------------- MODULE LiveProbe_proofs ----------------------------
(***************************************************************************)
(* Proofs about LiveProbe and the audits it decides by, for any number of  *)
(* processes, endpoints and addresses, any history of interrupted commands *)
(* and any bounds, when OCI's reads do not lag: an audit that succeeds is  *)
(* right, and so is the evidence of a probe that no audit can roll back.   *)
(***************************************************************************)
EXTENDS CertificateInvariant_proofs, Metrics_proofs, LiveProbeInvariant

(***************************************************************************)
(* Where the steps of a command lead.                                      *)
(***************************************************************************)

\* The command goes on at a control point.
GoesOn(p, label) ==
    /\ UNCHANGED lock
    /\ proc'[p].pc = label /\ proc'[p].cmd = proc[p].cmd
    /\ \A q \in Process : q # p => proc'[q] = proc[q]

\* The command goes on where a step has taken it.
LEMMA WentOn ==
    ASSUME Inv, NEW p \in Process, UNCHANGED lock,
           NEW label, NEW v, NEW e, NEW a, NEW f, NEW n, NEW id,
           \/ Become(p, [proc[p] EXCEPT !.pc = label])
           \/ Become(p, [proc[p] EXCEPT !.pc = label, !.etag = e])
           \/ Become(p, [proc[p] EXCEPT !.pc = label, !.version = v])
           \/ Become(p, [proc[p] EXCEPT !.pc = label, !.attempt = a])
           \/ Become(p, [proc[p] EXCEPT !.pc = label, !.version = v, !.fp = f])
           \/ Become(p, [proc[p] EXCEPT !.pc = label, !.op = id])
           \/ Become(p, [proc[p] EXCEPT !.pc = label, !.op = id, !.now = n])
           \/ Become(p, [proc[p] EXCEPT !.pc = label, !.op = id, !.fp = f, !.now = n])
    PROVE  GoesOn(p, label)
<1>1. proc \in [Process -> ProcessState]
  BY DEF Inv, TypeInv, TypeOK
<1>2. PICK r : /\ Become(p, r)
               /\ \/ r = [proc[p] EXCEPT !.pc = label]
                  \/ r = [proc[p] EXCEPT !.pc = label, !.etag = e]
                  \/ r = [proc[p] EXCEPT !.pc = label, !.version = v]
                  \/ r = [proc[p] EXCEPT !.pc = label, !.attempt = a]
                  \/ r = [proc[p] EXCEPT !.pc = label, !.version = v, !.fp = f]
                  \/ r = [proc[p] EXCEPT !.pc = label, !.op = id]
                  \/ r = [proc[p] EXCEPT !.pc = label, !.op = id, !.now = n]
                  \/ r = [proc[p] EXCEPT !.pc = label, !.op = id, !.fp = f, !.now = n]
  BY Zenon
<1>3. r.pc = label /\ r.cmd = proc[p].cmd
  BY <1>1, <1>2 DEF ProcessState
<1> QED BY <1>1, <1>2, <1>3 DEF Become, GoesOn

\* transition goes on at the next control point.
LEMMA LogGoesOn ==
    ASSUME Inv, NEW p \in Process, NEW label, NEW state, NEW version, NEW next,
           LogStep(p, label, state, version, next)
    PROVE  GoesOn(p, next) /\ proc[p].pc = label
BY WentOn DEF LogStep, Go

\* A publication goes on to its end, or ends its command.
LEMMA ReconcileMoves ==
    ASSUME Inv, NEW p \in Process, Reconcile(p)
    PROVE  \/ Exit(p)
           \/ Renew(p) /\ GoesOn(p, "start")
           \/ Start(p) /\ GoesOn(p, "getCertificate")
           \/ /\ proc[p].pc \in PublishSteps \ {"complete"}
              /\ \E label \in PublishSteps : GoesOn(p, label)
           \/ Complete(p) /\ GoesOn(p, AfterPublication)
<1>1. CASE Renew(p)
  <2>1. Exit(p) \/ GoesOn(p, "start")
    BY <1>1, WentOn DEF Renew, Go
  <2> QED BY <1>1, <2>1
<1>2. CASE Start(p)
  <2>1. Exit(p) \/ GoesOn(p, "getCertificate")
    BY <1>2, WentOn DEF Start
  <2> QED BY <1>2, <2>1
<1>3. CASE GetCertificate(p) \/ GetCurrent(p)
  <2>1. Exit(p) \/ \E label \in {"getCurrent", "reconciled"} : GoesOn(p, label)
    BY <1>3, WentOn DEF GetCertificate, GetCurrent
  <2> QED BY <1>3, <2>1 DEF GetCertificate, GetCurrent, PublishSteps
<1>4. CASE Find(p) \/ FindUploaded(p) \/ Upload(p)
  <2>1. Exit(p) \/ \E label \in {"pendingVerified", "upload", "uploaded"} : GoesOn(p, label)
    BY <1>4, WentOn DEF Find, FindUploaded, Upload, Found, Rejected, Go
  <2> QED BY <1>4, <2>1 DEF Find, FindUploaded, Upload, PublishSteps
<1>5. CASE Refresh(p) \/ Promote(p) \/ Confirm(p)
  <2>1. Exit(p) \/ \E label \in {"confirm", "promote", "refresh", "currentConfirmed"} :
                      GoesOn(p, label)
    BY <1>5, WentOn DEF Refresh, Promote, Confirm, Go
  <2> QED BY <1>5, <2>1 DEF Refresh, Promote, Confirm, PublishSteps
<1>6. CASE Record(p) \/ CloseReconciled(p) \/ RecordRenewal(p)
  <2>1. \E label \in {"closeReconciled", "recordRenewal", "complete"} : GoesOn(p, label)
    BY <1>6, WentOn DEF Record, CloseReconciled, RecordRenewal, Go
  <2> QED BY <1>6, <2>1 DEF Record, CloseReconciled, RecordRenewal, PublishSteps
<1>7. CASE Reconciled(p) \/ PendingUploaded(p) \/ PendingVerified(p) \/ CurrentConfirmed(p)
  <2>1. /\ \E label \in {"record", "find", "findUploaded", "refresh"} : GoesOn(p, label)
        /\ proc[p].pc \in {"reconciled", "uploaded", "pendingVerified", "currentConfirmed"}
    BY <1>7, LogGoesOn DEF Reconciled, PendingUploaded, PendingVerified, CurrentConfirmed
  <2> QED BY <2>1 DEF PublishSteps
<1>8. CASE Complete(p)
  <2>1. GoesOn(p, AfterPublication)
    BY <1>8, LogGoesOn DEF Complete
  <2> QED BY <1>8, <2>1
<1> QED BY <1>1, <1>2, <1>3, <1>4, <1>5, <1>6, <1>7, <1>8 DEF Reconcile

\* A rollback goes on to its end, or ends its command.
LEMMA RollbackMoves ==
    ASSUME Inv, NEW p \in Process, Rollback(p)
    PROVE  \/ Exit(p)
           \/ RollbackStart(p) /\ GoesOn(p, "previousVersion")
           \/ /\ proc[p].pc \in RollbackSteps \ {"rollbackComplete"}
              /\ \E label \in RollbackSteps \ {"previousVersion"} :
                    GoesOn(p, label) /\ (label = "rollbackAudit" => RollbackAuditPending(p))
           \/ /\ RollbackComplete(p)
              /\ GoesOn(p, IF proc[p].cmd = "ROLLBACK" THEN "return" ELSE AfterAudit)
<1>1. CASE RollbackStart(p)
  <2>1. GoesOn(p, "previousVersion")
    BY <1>1, WentOn DEF RollbackStart
  <2> QED BY <1>1, <2>1
<1>2. CASE PreviousVersion(p) \/ RollbackEtag(p) \/ Restore(p) \/ RollbackConfirm(p)
           \/ RecordRollback(p)
  <2>1. Exit(p) \/ \E label \in {"rollbackEtag", "rollbackReconciled", "rollbackConfirm",
                                 "rollbackConfirmed", "rollbackAuditPending"} : GoesOn(p, label)
    BY <1>2, WentOn DEF PreviousVersion, RollbackEtag, Restore, RollbackConfirm, RecordRollback, Go
  <2> QED BY <1>2, <2>1 DEF PreviousVersion, RollbackEtag, Restore, RollbackConfirm,
                            RecordRollback, RollbackSteps
<1>3. CASE RollbackReconciled(p) \/ RollbackConfirmed(p)
  <2>1. /\ \E label \in {"restore", "recordRollback"} : GoesOn(p, label)
        /\ proc[p].pc \in {"rollbackReconciled", "rollbackConfirmed"}
    BY <1>3, LogGoesOn DEF RollbackReconciled, RollbackConfirmed
  <2> QED BY <2>1 DEF RollbackSteps
<1>4. CASE RollbackAuditPending(p)
  <2>1. GoesOn(p, "rollbackAudit") /\ proc[p].pc = "rollbackAuditPending"
    BY <1>4, LogGoesOn DEF RollbackAuditPending
  <2> QED BY <1>4, <2>1 DEF RollbackSteps
<1>5. CASE RollbackAudit(p)
  <2>1. Exit(p) \/ GoesOn(p, "rollbackComplete")
    BY <1>5, WentOn DEF RollbackAudit, Go
  <2> QED BY <1>5, <2>1 DEF RollbackAudit, RollbackSteps
<1>6. CASE RollbackComplete(p)
  <2>1. GoesOn(p, IF proc[p].cmd = "ROLLBACK" THEN "return" ELSE AfterAudit)
    BY <1>6, LogGoesOn DEF RollbackComplete
  <2> QED BY <1>6, <2>1
<1> QED BY <1>1, <1>2, <1>3, <1>4, <1>5, <1>6 DEF Rollback

\* An audit goes on to its end and to what follows it.
LEMMA AuditMoves ==
    ASSUME Inv, NEW p \in Process, Audit(p)
    PROVE  \/ Exit(p)
           \/ proc[p].pc = "auditStart" /\ GoesOn(p, "auditPending")
           \/ /\ proc[p].pc \in AuditSteps
              /\ \E label \in AuditSteps :
                    /\ GoesOn(p, label)
                    /\ label = "auditBundle" => AuditPending(p)
                    /\ label = "audit" => AuditBundle(p)
           \/ AuditFails(p) /\ GoesOn(p, AfterFailedAudit(p))
           \/ /\ proc[p].pc = "closeAudits"
              /\ GoesOn(p, IF proc[p].cmd = "AUDIT" THEN "return" ELSE AfterAudit)
<1>1. CASE AuditStart(p)
  BY <1>1, WentOn DEF AuditStart
<1>2. CASE AuditPending(p)
  BY <1>2, LogGoesOn DEF AuditPending, AuditSteps
<1>3. CASE AuditBundle(p)
  <2>1. Exit(p) \/ GoesOn(p, "audit")
    BY <1>3, WentOn DEF AuditBundle, Go
  <2> QED BY <1>3, <2>1 DEF AuditBundle, AuditSteps
<1>4. CASE AuditFails(p)
  BY <1>4, WentOn DEF AuditFails, Go
<1>5. CASE AuditSucceeds(p)
  BY <1>5, LogGoesOn DEF AuditSucceeds, AuditSteps
<1>6. CASE RecordAudit(p)
  <2>1. GoesOn(p, "auditComplete")
    BY <1>6, WentOn DEF RecordAudit, Go
  <2> QED BY <1>6, <2>1 DEF RecordAudit, AuditSteps
<1>7. CASE AuditComplete(p)
  BY <1>7, LogGoesOn DEF AuditComplete, AuditSteps
<1>8. CASE CloseAudits(p)
  BY <1>8, WentOn DEF CloseAudits, Go
<1> QED BY <1>1, <1>2, <1>3, <1>4, <1>5, <1>6, <1>7, <1>8 DEF Audit

\* Where commands start.
StartSteps == {"start", "renew", "auditStart", "rollbackStart", "retentionPlan"}

\* No step of a command leads back to idleness but its end.
LEMMA StaysAtWork ==
    ASSUME Inv, NEW p \in Process, Reconcile(p) \/ Rollback(p) \/ Audit(p)
    PROVE  Exit(p) \/ (UNCHANGED lock /\ proc'[p].pc # "idle")
<1>1. /\ "idle" \notin PublishSteps \union RollbackSteps \union AuditSteps
      /\ AfterPublication # "idle" /\ AfterAudit # "idle"
  BY NextLabels DEF PublishSteps, RollbackSteps, AuditSteps
<1>2. CASE Reconcile(p)
  BY <1>1, <1>2, ReconcileMoves DEF GoesOn
<1>3. CASE Rollback(p)
  BY <1>1, <1>3, RollbackMoves DEF GoesOn
<1>4. CASE Audit(p)
  <2>1. AuditFails(p) => AfterFailedAudit(p) # "idle"
    BY <1>1, PublisherAssumption DEF AuditFails, AfterFailedAudit
  <2> QED BY <1>1, <1>4, <2>1, AuditMoves DEF GoesOn
<1> QED BY <1>2, <1>3, <1>4

-----------------------------------------------------------------------------
(***************************************************************************)
(* The invariants of PublicationService hold of the probe, which calls its *)
(* commands one after the other under one lock.                            *)
(***************************************************************************)

\* A command as it starts.
Fresh(cmd) == [Idle EXCEPT !.pc = FirstStep(cmd), !.cmd = cmd]

\* What a command that starts remembers: nothing.
LEMMA FreshState ==
    ASSUME NEW cmd \in AllCommands
    PROVE  /\ Fresh(cmd) \in ProcessState
           /\ Fresh(cmd).pc = FirstStep(cmd) /\ Fresh(cmd).cmd = cmd
           /\ Fresh(cmd).op = 0 /\ Fresh(cmd).version = 0 /\ Fresh(cmd).plan = {}
           /\ Fresh(cmd).etag = 0
           /\ FirstStep(cmd) \in StartSteps
           /\ FirstStep(cmd) \in {"start", "renew"} => cmd \in Publishing
<1> DEFINE l == FirstStep(cmd)
<1>1. l \in StartSteps /\ (l \in {"start", "renew"} => cmd \in Publishing)
  BY DEF FirstStep, AllCommands, Publishing, StartSteps
<1> HIDE DEF l
<1>2. l \in Labels
  BY <1>1 DEF Labels, StartSteps
<1>3. /\ Fresh(cmd) = [Idle EXCEPT !.pc = l, !.cmd = cmd]
      /\ Idle \in ProcessState /\ Idle.op = 0 /\ Idle.version = 0 /\ Idle.plan = {}
      /\ Idle.etag = 0
  BY IdleState DEF Fresh, l, Idle
<1>4. /\ Fresh(cmd) \in ProcessState /\ Fresh(cmd).pc = l /\ Fresh(cmd).cmd = cmd
      /\ Fresh(cmd).op = 0 /\ Fresh(cmd).version = 0 /\ Fresh(cmd).plan = {}
      /\ Fresh(cmd).etag = 0
  <2> HIDE DEF Idle
  <2> QED BY <1>2, <1>3 DEF ProcessState
<1> QED BY <1>1, <1>4 DEF l

\* The probe goes from one call to the next.
LEMMA CalledKnown ==
    ASSUME Known, ~Lag, NEW p \in Process, NEW cmd \in AllCommands, proc[p].pc # "idle",
           Become(p, Fresh(cmd)),
           UNCHANGED <<oci, net, ops, certState, local, expired, lock, faults>>
    PROVE  Known'
<1>1. /\ WellFormed(oci) /\ Grows(oci, oci) /\ Keeps(ops, ops) /\ net \subseteq Request /\ NetInv
      /\ certState \in CertificateState /\ local \in Nat \ {0} /\ expired \in Nat /\ faults \in Nat
      /\ proc \in [Process -> ProcessState]
  BY Worker DEF Known, Inv, TypeInv, TypeOK
<1>2. PICK r \in ProcessState :
         /\ r = Fresh(cmd) /\ r.pc \in StartSteps /\ r.cmd = cmd
         /\ r.op = 0 /\ r.version = 0 /\ r.plan = {} /\ r.etag = 0
         /\ r.pc \in {"start", "renew"} => cmd \in Publishing
  BY FreshState
<1>3. /\ r.pc \notin PublishSteps \union RollbackSteps \union AuditSteps
      /\ r.pc \notin VersionSteps \union ConfirmedSteps
      /\ r.pc # "upload" /\ Unburdened(r.pc)
  BY <1>2 DEF StartSteps, PublishSteps, RollbackSteps, AuditSteps, VersionSteps, ConfirmedSteps,
              Unburdened
<1>4. Become(p, r) /\ proc'[p] = r
  BY <1>1, <1>2 DEF Become
<1>5. Inv'
  <2>1. OwnRow(p)' /\ OwnVersion(p)'
    BY <1>2, <1>3, <1>4 DEF OwnRow, OwnVersion
  <2>2. NetInv'
    BY <1>1 DEF NetInv
  <2>3. /\ WellFormed(oci') /\ Grows(oci, oci') /\ Keeps(ops, ops') /\ net' \subseteq Request
        /\ certState' \in CertificateState /\ local' \in Nat \ {0} /\ expired' \in Nat
        /\ faults' \in Nat
        /\ r.op \in 0..Len(ops') /\ r.version \in 0..Len(oci'.versions)
        /\ r.plan \subseteq DOMAIN oci'.versions
    BY <1>1, <1>2 DEF Keeps, Grows
  <2>4. CompletedIsTruthful'
    BY <2>3, TruthfulRows DEF Known
  <2> QED BY <1>4, <2>1, <2>2, <2>3, <2>4, ProcessStep DEF Known
<1>6. ImportInv'
  BY <1>1, <1>2, <1>3, <1>4, QuietStep DEF Known
<1>7. CertificateInv'
  BY <1>3, <1>4, FreeStep
<1> QED BY <1>5, <1>6, <1>7 DEF Known

\* A command begins, the probe's included.
LEMMA AcquiredKnown ==
    ASSUME Known, ~Lag, NEW p \in Process, NEW cmd \in AllCommands, Acquire(p, cmd)
    PROVE  Known'
BY AcquireStep, AcquireImports, LifeCertificate DEF Known

\* The command of the probe ends before its calls are all made.
LEMMA EndedKnown ==
    ASSUME Known, ~Lag, NEW p \in Process, proc[p].pc # "idle", Exit(p),
           UNCHANGED <<oci, net, ops, certState, local, expired, faults>>
    PROVE  Known'
<1>1. faults' \in Nat
  BY Worker DEF Known
<1> QED BY <1>1, Exits, QuietExit, ExitKept DEF Known

\* A step of PublicationService.
LEMMA NextKnown == ASSUME Known, ~Lag, [Next]_vars PROVE Known'
BY NextInv, NextImports, NextCertificate DEF Known

\* The probe's calls are commands.
LEMMA CallsAreCommands ==
    /\ Len(Calls) = 5 /\ OpenStage = 6 /\ WriteStage = 7
    /\ Calls[1] = "PUBLISH" /\ Calls[2] = "RENEW" /\ Calls[3] = "AUDIT"
    /\ Calls[4] = "ROLLBACK" /\ Calls[5] = "AUDIT"
    /\ \A k \in 1..5 : Calls[k] \in AllCommands
<1>1. /\ Len(Calls) = 5 /\ OpenStage = 6 /\ WriteStage = 7
      /\ Calls[1] = "PUBLISH" /\ Calls[2] = "RENEW" /\ Calls[3] = "AUDIT"
      /\ Calls[4] = "ROLLBACK" /\ Calls[5] = "AUDIT"
  BY DEF Calls, OpenStage, WriteStage
<1>2. ASSUME NEW k \in 1..5
      PROVE  Calls[k] \in AllCommands
  <2>1. k \in {1, 2, 3, 4, 5}
    OBVIOUS
  <2> QED BY <1>1, <2>1 DEF AllCommands
<1> QED BY <1>1, <1>2

\* What a step of the probe is to the publication service.
ServiceStep ==
    \/ [Next]_vars
    \/ \E p \in Process, cmd \in AllCommands : Acquire(p, cmd)
    \/ \E p \in Process, cmd \in AllCommands :
          /\ proc[p].pc # "idle" /\ Become(p, Fresh(cmd))
          /\ UNCHANGED <<oci, net, ops, certState, local, expired, lock, faults>>
    \/ \E p \in Process :
          /\ proc[p].pc # "idle" /\ Exit(p)
          /\ UNCHANGED <<oci, net, ops, certState, local, expired, faults>>

\* The probe begins with its first call.
LEMMA ProbeBegins ==
    ASSUME AtWork, Inv, NEW p \in Process, BeginProbe(p)
    PROVE  /\ Acquire(p, "PUBLISH") /\ proc'[p] = Fresh("PUBLISH")
           /\ probe.stage = 0 /\ probe'.stage = 1
           /\ probe' = [stage |-> 1, rows |-> Append(probe.rows, Len(ops) + 1)]
<1>1. probe.stage = 0
  BY FreeIsNoProcess DEF AtWork, BeginProbe
<1>2. Calls[probe.stage + 1] = "PUBLISH"
  BY <1>1, CallsAreCommands
<1>3. proc \in [Process -> ProcessState]
  BY DEF Inv, TypeInv, TypeOK
<1> QED BY <1>1, <1>2, <1>3 DEF BeginProbe, Call, Acquire, MayBegin, Become, Fresh

\* The probe's next call.
LEMMA ProbeCalls ==
    ASSUME AtWork, Inv, NEW p \in Process, Probing(p), probe.stage < Len(Calls), Call(p)
    PROVE  /\ probe.stage + 1 \in 1..5 /\ Calls[probe.stage + 1] \in AllCommands
           /\ Become(p, Fresh(Calls[probe.stage + 1]))
           /\ proc'[p] = Fresh(Calls[probe.stage + 1])
           /\ probe' = [stage |-> probe.stage + 1, rows |-> Append(probe.rows, Len(ops) + 1)]
<1>1. probe.stage + 1 \in 1..5
  BY CallsAreCommands DEF AtWork, Probing
<1>2. proc \in [Process -> ProcessState]
  BY DEF Inv, TypeInv, TypeOK
<1> QED BY <1>1, <1>2, CallsAreCommands DEF Call, Become, Fresh

\* Every step of the probe is one of these.
LEMMA ProbeServes ==
    ASSUME AtWork, Inv, [ProbeNext]_probeVars
    PROVE  ServiceStep
<1>1. ASSUME NEW p \in Process, BeginProbe(p)
      PROVE  ServiceStep
  BY <1>1, ProbeBegins DEF ServiceStep, AllCommands
<1>2. ASSUME NEW p \in Process, WorkForced(p)
      PROVE  ServiceStep
  BY <1>2 DEF ServiceStep, WorkForced, Work, Next, Step
<1>3. ASSUME NEW p \in Process, NextCall(p)
      PROVE  ServiceStep
  <2>1. /\ Probing(p) /\ proc[p].pc = "return"
        /\ UNCHANGED <<oci, net, ops, certState, local, expired, faults>>
        /\ \/ Exit(p)
           \/ probe.stage < Len(Calls) /\ Call(p) /\ UNCHANGED lock
           \/ UNCHANGED <<proc, lock>>
    BY <1>3 DEF NextCall
  <2>2. CASE Exit(p)
    BY <2>1, <2>2 DEF ServiceStep
  <2>3. CASE probe.stage < Len(Calls) /\ Call(p) /\ UNCHANGED lock
    <3>1. PICK cmd \in AllCommands : Become(p, Fresh(cmd))
      BY <2>1, <2>3, ProbeCalls
    <3> QED BY <2>1, <2>3, <3>1 DEF ServiceStep
  <2>4. CASE UNCHANGED <<proc, lock>>
    BY <2>1, <2>4 DEF ServiceStep, vars
  <2> QED BY <2>1, <2>2, <2>3, <2>4
<1>4. ASSUME NEW p \in Process, OpenEvidence(p) \/ WriteEvidence(p)
      PROVE  ServiceStep
  <2>1. /\ Probing(p) /\ proc[p].pc # "idle"
        /\ UNCHANGED <<oci, net, ops, certState, local, expired, faults>>
        /\ Exit(p) \/ UNCHANGED <<proc, lock>>
    BY <1>4 DEF OpenEvidence, WriteEvidence, AtWork, Probing
  <2> QED BY <2>1 DEF ServiceStep, vars
<1>5. ASSUME NEW p \in Process, OtherCommand(p)
      PROVE  ServiceStep
  BY <1>5 DEF ServiceStep, OtherCommand, Next
<1>6. CASE Environment \/ AuditNext \/ UNCHANGED probeVars
  BY <1>6 DEF ServiceStep, Next, AuditNext, TakeUp, ProbeAddress, Retry, probeVars
<1> QED BY <1>1, <1>2, <1>3, <1>4, <1>5, <1>6 DEF ProbeNext

\* The probe keeps what is known of the publication service, and the history.
LEMMA ServiceKnown ==
    ASSUME Known, OpenRows, ~Lag, ServiceStep
    PROVE  Known' /\ OpenRows' /\ TerminalKept
<1>1. CASE [Next]_vars
  BY <1>1, NextKnown, TerminalRowsKept DEF Known
<1>2. ASSUME NEW p \in Process, NEW cmd \in AllCommands, Become(p, Fresh(cmd)),
             proc[p].pc # "idle" \/ lock = Free, ops' = ops
      PROVE  OpenRows' /\ TerminalKept
  <2>1. PICK r : r = Fresh(cmd) /\ r.pc \notin OpenSteps
    BY FreshState, FirstStepOwnsNoRow
  <2> QED BY <1>2, <2>1, OpenRow DEF TerminalKept, Known
<1>3. ASSUME NEW p \in Process, NEW cmd \in AllCommands, Acquire(p, cmd)
      PROVE  Known' /\ OpenRows' /\ TerminalKept
  <2>1. Become(p, Fresh(cmd)) /\ lock = Free /\ ops' = ops
    BY <1>3 DEF Acquire, Fresh
  <2> QED BY <1>2, <1>3, <2>1, AcquiredKnown
<1>4. ASSUME NEW p \in Process, NEW cmd \in AllCommands,
             proc[p].pc # "idle", Become(p, Fresh(cmd)),
             UNCHANGED <<oci, net, ops, certState, local, expired, lock, faults>>
      PROVE  Known' /\ OpenRows' /\ TerminalKept
  BY <1>2, <1>4, CalledKnown
<1>5. ASSUME NEW p \in Process, proc[p].pc # "idle", Exit(p),
             UNCHANGED <<oci, net, ops, certState, local, expired, faults>>
      PROVE  Known' /\ OpenRows' /\ TerminalKept
  BY <1>5, EndedKnown, TableAtExit DEF Known
<1> QED BY <1>1, <1>3, <1>4, <1>5 DEF ServiceStep

\* A probe in progress stays at work until it gives up the lock.
LEMMA ProbeAtWork ==
    ASSUME AtWork, Inv, [ProbeNext]_probeVars
    PROVE  AtWork'
<1>1. /\ NoProbe.stage = 0 /\ Free \notin Process /\ proc \in [Process -> ProcessState]
      /\ WriteStage = 7 /\ OpenStage = 6 /\ Len(Calls) = 5
  BY FreeIsNoProcess, CallsAreCommands DEF NoProbe, Inv, TypeInv, TypeOK
<1>2. \A cmd \in AllCommands : Fresh(cmd).pc # "idle"
  BY FreshState DEF StartSteps
<1>3. ASSUME NEW p \in Process, BeginProbe(p)
      PROVE  AtWork'
  <2>1. lock' = p /\ proc'[p] = Fresh("PUBLISH") /\ probe'.stage = 1 /\ "PUBLISH" \in AllCommands
    BY <1>3, ProbeBegins DEF Acquire, AllCommands
  <2> QED BY <1>1, <1>2, <2>1 DEF AtWork
<1>4. ASSUME NEW p \in Process, WorkForced(p)
      PROVE  AtWork'
  <2>1. CASE lock' = Free
    BY <1>1, <1>4, <2>1 DEF WorkForced, ProbeContinues, AtWork
  <2>2. CASE lock' # Free
    <3>1. proc'[p].pc # "idle" /\ lock' = p /\ probe' = probe
      BY <1>4, <2>2, StaysAtWork DEF WorkForced, Work, Die, Exit, ProbeContinues, Probing
    <3> QED BY <3>1 DEF AtWork
  <2> QED BY <2>1, <2>2
<1>5. ASSUME NEW p \in Process, NextCall(p)
      PROVE  AtWork'
  <2>1. /\ Probing(p) /\ proc[p].pc = "return"
        /\ \/ probe' = NoProbe
           \/ probe.stage < Len(Calls) /\ Call(p) /\ UNCHANGED lock
           \/ /\ probe' = [probe EXCEPT !.stage = OpenStage] /\ probe.stage = Len(Calls)
              /\ UNCHANGED <<proc, lock>>
    BY <1>5 DEF NextCall
  <2>2. CASE probe' = NoProbe
    BY <1>1, <2>2 DEF AtWork
  <2>3. CASE probe.stage < Len(Calls) /\ Call(p) /\ UNCHANGED lock
    <3>1. /\ probe.stage + 1 \in 1..5 /\ probe'.stage = probe.stage + 1
          /\ proc'[p].pc # "idle"
      BY <1>2, <2>1, <2>3, ProbeCalls
    <3> QED BY <1>1, <2>1, <2>3, <3>1 DEF AtWork, Probing
  <2>4. CASE /\ probe' = [probe EXCEPT !.stage = OpenStage]
             /\ UNCHANGED <<proc, lock>>
    <3>1. probe'.stage \in {6, probe.stage}
      BY <1>1, <2>4
    <3> QED BY <1>1, <2>1, <2>4, <3>1 DEF AtWork, Probing
  <2> QED BY <2>1, <2>2, <2>3, <2>4
<1>6. ASSUME NEW p \in Process, OpenEvidence(p) \/ WriteEvidence(p)
      PROVE  AtWork'
  <2>1. CASE probe' = NoProbe
    BY <1>1, <2>1 DEF AtWork
  <2>2. CASE probe' = [probe EXCEPT !.stage = WriteStage] /\ UNCHANGED <<proc, lock>> /\ Probing(p)
    <3>1. probe'.stage \in {7, probe.stage}
      BY <1>1, <2>2
    <3> QED BY <1>1, <2>2, <3>1 DEF AtWork, Probing
  <2> QED BY <1>6, <2>1, <2>2 DEF OpenEvidence, WriteEvidence
<1>7. CASE probe.stage = 0 /\ UNCHANGED probe
  BY <1>1, <1>7 DEF AtWork
<1>8. CASE UNCHANGED <<probe, lock, proc>>
  BY <1>8 DEF AtWork
<1>9. CASE Environment /\ UNCHANGED probe
  BY <1>8, <1>9 DEF Environment, ArriveLate, ListingSettles, RetrievalSettles, Expire
<1>10. CASE AuditNext /\ UNCHANGED probe
  BY <1>8, <1>10 DEF AuditNext, TakeUp, ProbeAddress, Retry, vars
<1> QED BY <1>3, <1>4, <1>5, <1>6, <1>7, <1>8, <1>9, <1>10
        DEF ProbeNext, OtherCommand, probeVars, vars

-----------------------------------------------------------------------------
(***************************************************************************)
(* The audits of AuditService.                                             *)
(***************************************************************************)

\* Where the row of the process is known to be AUDIT_PENDING.
PendingSteps == {"auditBundle", "audit", "rollbackAudit"}

\* Those steps are not where a command starts, ends or waits.
LEMMA PendingLabels ==
    /\ Auditing \subseteq PendingSteps
    /\ PendingSteps \intersect (PublishSteps \union StartSteps) = {}
    /\ {"idle", "return", "retentionNext", "schedule"} \intersect PendingSteps = {}
    /\ AfterPublication \notin PendingSteps /\ AfterAudit \notin PendingSteps
    /\ Passed \intersect PendingSteps = {}
BY NextLabels DEF Auditing, PendingSteps, PublishSteps, StartSteps, Passed

\* Retention leads to no audit.
LEMMA RetentionMoves ==
    ASSUME Inv, NEW p \in Process, Retention(p)
    PROVE  proc'[p].pc \in {"idle", "return", "retentionNext", "schedule"}
<1>1. proc \in [Process -> ProcessState] /\ Idle.pc = "idle"
  BY IdleState DEF Inv, TypeInv, TypeOK
<1>2. CASE RetentionPlan(p)
  <2>1. \E s : Become(p, [proc[p] EXCEPT !.pc = "retentionNext", !.plan = s])
    BY <1>2, Zenon DEF RetentionPlan
  <2> QED BY <1>1, <2>1 DEF Become, ProcessState
<1>3. CASE RetentionNext(p)
  <2>1. \/ Go(p, "return")
        \/ \E v, e, s : Become(p, [proc[p] EXCEPT !.pc = "schedule", !.version = v,
                                                  !.etag = e, !.plan = s])
    BY <1>3, Zenon DEF RetentionNext
  <2>2. ASSUME NEW v, NEW e, NEW s, NEW r,
               r = [proc[p] EXCEPT !.pc = "schedule", !.version = v, !.etag = e, !.plan = s],
               Become(p, r)
        PROVE  proc'[p].pc = "schedule"
    <3>1. r.pc = "schedule"
      BY <1>1, <2>2 DEF ProcessState
    <3>2. proc'[p] = r
      BY <1>1, <2>2 DEF Become
    <3> QED BY <3>1, <3>2
  <2>3. CASE Go(p, "return")
    BY <1>1, <2>3 DEF Go, Become, ProcessState
  <2> QED BY <2>1, <2>2, <2>3, Zenon
<1>4. CASE Schedule(p)
  <2>1. Exit(p) \/ Go(p, "retentionNext")
    BY <1>4 DEF Schedule
  <2> QED BY <1>1, <2>1 DEF Exit, Go, Become, ProcessState
<1> QED BY <1>2, <1>3, <1>4 DEF Retention

\* Only a process that is not idle takes a step.
LEMMA WorkerIsBusy ==
    ASSUME NEW p \in Process, Reconcile(p) \/ Rollback(p) \/ Audit(p) \/ Retention(p)
    PROVE  proc[p].pc # "idle"
<1>1. CASE Reconcile(p)
  BY <1>1, SMT DEF Reconcile, Renew, Start, GetCertificate, GetCurrent, Reconciled, Find, Upload,
              PendingUploaded, FindUploaded, PendingVerified, Refresh, Promote, Confirm,
              CurrentConfirmed, Record, CloseReconciled, RecordRenewal, Complete, LogStep
<1>2. CASE Rollback(p)
  <2>1. CASE RollbackStart(p) \/ PreviousVersion(p) \/ RollbackEtag(p) \/ Restore(p)
    BY <2>1, Zenon DEF RollbackStart, PreviousVersion, RollbackEtag, Restore
  <2>2. CASE RollbackConfirm(p) \/ RecordRollback(p) \/ RollbackAudit(p)
    BY <2>2 DEF RollbackConfirm, RecordRollback, RollbackAudit
  <2>3. CASE \/ RollbackReconciled(p) \/ RollbackConfirmed(p) \/ RollbackAuditPending(p)
             \/ RollbackComplete(p)
    BY <2>3 DEF RollbackReconciled, RollbackConfirmed, RollbackAuditPending, RollbackComplete,
                LogStep
  <2> QED BY <1>2, <2>1, <2>2, <2>3 DEF Rollback
<1>3. CASE Audit(p)
  BY <1>3 DEF Audit, AuditStart, AuditPending, AuditBundle, AuditFails, AuditSucceeds,
              RecordAudit, AuditComplete, CloseAudits, LogStep
<1>4. CASE Retention(p)
  <2>1. CASE RetentionPlan(p) \/ Schedule(p)
    BY <2>1, Zenon DEF RetentionPlan, Schedule
  <2>2. CASE RetentionNext(p)
    BY <2>2, Zenon DEF RetentionNext
  <2> QED BY <1>4, <2>1, <2>2 DEF Retention
<1> QED BY <1>1, <1>2, <1>3, <1>4

\* An audit is entered by the step that makes its row AUDIT_PENDING, and goes
\* on to the endpoints by the step that reads the CURRENT bundle.
LEMMA EntersAudit ==
    ASSUME Inv, NEW p \in Process, Reconcile(p) \/ Rollback(p) \/ Audit(p) \/ Retention(p),
           proc'[p].pc \in PendingSteps
    PROVE  \/ AuditPending(p) /\ GoesOn(p, "auditBundle")
           \/ AuditBundle(p) /\ GoesOn(p, "audit")
           \/ RollbackAuditPending(p) /\ GoesOn(p, "rollbackAudit")
<1>1. ~Exit(p)
  BY IdleState, PendingLabels DEF Inv, TypeInv, TypeOK, Exit, Become
<1>2. CASE Reconcile(p)
  <2>1. \E label \in PublishSteps \union {"start", AfterPublication} : GoesOn(p, label)
    BY <1>1, <1>2, ReconcileMoves DEF PublishSteps
  <2> QED BY <2>1, PendingLabels DEF GoesOn, StartSteps
<1>3. CASE Rollback(p)
  <2>1. \/ \E label \in RollbackSteps :
              GoesOn(p, label) /\ (label = "rollbackAudit" => RollbackAuditPending(p))
        \/ GoesOn(p, "return") \/ GoesOn(p, AfterAudit)
    BY <1>1, <1>3, RollbackMoves DEF RollbackSteps
  <2>2. RollbackSteps \intersect PendingSteps = {"rollbackAudit"}
    BY DEF RollbackSteps, PendingSteps
  <2> QED BY <2>1, <2>2, PendingLabels DEF GoesOn
<1>4. CASE Audit(p)
  <2>1. \/ \E label \in AuditSteps :
              /\ GoesOn(p, label)
              /\ label = "auditBundle" => AuditPending(p)
              /\ label = "audit" => AuditBundle(p)
        \/ AuditFails(p) /\ GoesOn(p, AfterFailedAudit(p))
        \/ GoesOn(p, "return") \/ GoesOn(p, AfterAudit)
    BY <1>1, <1>4, AuditMoves DEF AuditSteps
  <2>2. AuditSteps \intersect PendingSteps = {"auditBundle", "audit"}
    BY DEF AuditSteps, PendingSteps
  <2>3. AuditFails(p) => AfterFailedAudit(p) \notin PendingSteps
    BY PendingLabels, PublisherAssumption DEF AuditFails, AfterFailedAudit, StartSteps
  <2> QED BY <2>1, <2>2, <2>3, PendingLabels DEF GoesOn
<1>5. CASE Retention(p)
  BY <1>5, RetentionMoves, PendingLabels
<1> QED BY <1>2, <1>3, <1>4, <1>5

\* Steps that touch neither the certificate nor the audit, and lead to none.
LEMMA VerdictKept ==
    ASSUME VerdictInv, UNCHANGED <<auditVars, oci, net, ops>>,
           \A p \in Process : proc'[p] = proc[p] \/ proc'[p].pc \notin PendingSteps
    PROVE  VerdictInv'
<1>1. \A p \in Process :
         proc'[p].pc \in PendingSteps => /\ proc[p].pc \in PendingSteps
                                         /\ proc'[p] = proc[p]
  OBVIOUS
<1>2. /\ UNCHANGED <<presents, check, oci, net, ops>>
      /\ Auditing \subseteq PendingSteps
  BY PendingLabels DEF auditVars
<1>3. ASSUME NEW p \in Process, proc'[p].pc \in PendingSteps
      PROVE  proc'[p].op \in DOMAIN ops' /\ ops'[proc'[p].op].state = "AUDIT_PENDING"
  BY <1>1, <1>2, <1>3 DEF VerdictInv, PendingSteps
<1>4. ASSUME NEW p \in Process, proc'[p].pc \in Auditing
      PROVE  /\ (OnCurrent(check.expected) \/ Quiet)'
             /\ (OnCurrent(check.expected) =>
                   \A a \in check.matched : presents[a] = check.expected)'
  <2>1. proc[p].pc \in Auditing
    BY <1>1, <1>2, <1>4
  <2> QED BY <1>2, <2>1 DEF VerdictInv, Quiet, OnCurrent
<1> QED BY <1>2, <1>3, <1>4 DEF VerdictInv, PendingSteps

\* Every process but the holder of the lock is idle.
LEMMA OthersIdle ==
    ASSUME Inv, NEW p \in Process, proc[p].pc # "idle" \/ lock = Free, NEW r, Become(p, r)
    PROVE  proc'[p] = r /\ \A q \in Process : q # p => proc'[q] = proc[q] /\ proc[q].pc = "idle"
<1>1. proc \in [Process -> ProcessState] /\ LockInv /\ Free \notin Process
  BY FreeIsNoProcess DEF Inv, TypeInv, TypeOK
<1> QED BY <1>1 DEF Become, LockInv

\* An attempt begins with nothing probed and nothing matched.
LEMMA CheckState ==
    /\ NoCheck \in AttemptState
    /\ \A fp \in Nat :
          /\ Attempt(fp) \in AttemptState
          /\ Attempt(fp).expected = fp /\ Attempt(fp).matched = {}
BY DEF NoCheck, Attempt, AttemptState

\* Where no process is in an audit, nothing is claimed of one.
LEMMA NoVerdict ==
    ASSUME VerdictInv, UNCHANGED presents, \A p \in Process : proc'[p].pc \notin PendingSteps,
           NEW fp \in Nat, check' \in {NoCheck, Attempt(fp)}
    PROVE  VerdictInv'
<1>1. check' \in AttemptState'
  BY CheckState DEF AttemptState, Address
<1> QED BY <1>1, PendingLabels DEF VerdictInv, PendingSteps

\* A step of a command is a step of its process alone.
LEMMA StepsAlone ==
    ASSUME Inv, NEW p \in Process, Reconcile(p) \/ Rollback(p) \/ Audit(p) \/ Retention(p)
    PROVE  /\ \A q \in Process : q # p => proc'[q] = proc[q] /\ proc[q].pc = "idle"
           /\ proc[p].pc # "idle" /\ lock = p
<1>1. proc \in [Process -> ProcessState] /\ proc[p].pc # "idle" /\ LockInv
  BY WorkerIsBusy DEF Inv, TypeInv, TypeOK
<1>2. ASSUME NEW q \in Process, q # p
      PROVE  proc'[q] = proc[q]
  <2>1. Exit(p) => proc'[q] = proc[q]
    BY <1>1, <1>2 DEF Exit, Become
  <2>2. CASE Reconcile(p)
    BY <1>2, <2>1, <2>2, ReconcileMoves DEF GoesOn
  <2>3. CASE Rollback(p)
    BY <1>2, <2>1, <2>3, RollbackMoves DEF GoesOn
  <2>4. CASE Audit(p)
    BY <1>2, <2>1, <2>4, AuditMoves DEF GoesOn
  <2>5. CASE Retention(p)
    <3>1. \E r : Become(p, r)
      BY <2>5, Zenon DEF Retention, RetentionPlan, RetentionNext, Schedule, Go, Exit
    <3> QED BY <1>1, <1>2, <3>1 DEF Become
  <2> QED BY <2>2, <2>3, <2>4, <2>5
<1> QED BY <1>1, <1>2 DEF LockInv

\* A step of a command.
LEMMA VerdictAtStep ==
    ASSUME Known, VerdictInv, NEW p \in Process, Audited(p),
           Reconcile(p) \/ Rollback(p) \/ Audit(p) \/ Retention(p)
    PROVE  VerdictInv'
<1>1. /\ Inv /\ ops \in Seq(Operation) /\ oci.served = oci.current
      /\ \A q \in Process : q # p => proc'[q] = proc[q] /\ proc[q].pc = "idle"
      /\ OwnRow(p) /\ PromoteInv(p)
  BY StepsAlone DEF Known, CertificateInv, StageInv, WorkInv, Inv, TypeInv, TypeOK
<1>2. \A q \in Process : q # p => proc'[q].pc \notin PendingSteps
  BY <1>1, PendingLabels
<1>3. CASE proc'[p].pc \notin PendingSteps
  <2>1. UNCHANGED presents /\ check' = NoCheck
    BY <1>3, PendingLabels DEF Audited
  <2> QED BY <1>2, <1>3, <2>1, NoVerdict
<1>4. CASE proc'[p].pc \in PendingSteps
  <2>1. PICK label \in PendingSteps :
           /\ GoesOn(p, label) /\ Go(p, label) /\ UNCHANGED <<oci, net, presents>>
           /\ \/ AuditPending(p) /\ label = "auditBundle"
              \/ AuditBundle(p) /\ label = "audit"
              \/ RollbackAuditPending(p) /\ label = "rollbackAudit"
    <3>1. \/ AuditPending(p) /\ GoesOn(p, "auditBundle")
          \/ AuditBundle(p) /\ GoesOn(p, "audit")
          \/ RollbackAuditPending(p) /\ GoesOn(p, "rollbackAudit")
      BY <1>1, <1>4, EntersAudit
    <3>2. Exit(p) => proc'[p].pc = "idle"
      BY <1>1, IdleState DEF Exit, Become, Inv, TypeInv, TypeOK
    <3>3. AuditBundle(p) => Exit(p) \/ Go(p, "audit")
      BY DEF AuditBundle
    <3>4. AuditPending(p) => Go(p, "auditBundle") /\ UNCHANGED <<oci, net>>
      BY DEF AuditPending, LogStep
    <3>5. RollbackAuditPending(p) => Go(p, "rollbackAudit") /\ UNCHANGED <<oci, net>>
      BY DEF RollbackAuditPending, LogStep
    <3>6. (AuditBundle(p) => UNCHANGED <<oci, net>>) /\ UNCHANGED presents
      BY DEF AuditBundle, Audited
    <3> QED BY <3>1, <3>2, <3>3, <3>4, <3>5, <3>6 DEF PendingSteps, GoesOn
  <2>2. proc'[p].pc = label /\ proc'[p].op = proc[p].op
    BY <1>1, <2>1, Went DEF Labels, PendingSteps
  <2>3. proc[p].op \in DOMAIN ops'/\ ops'[proc[p].op].state = "AUDIT_PENDING"
    <3>1. CASE AuditBundle(p)
      BY <3>1 DEF AuditBundle, VerdictInv
    <3>2. CASE AuditPending(p) \/ RollbackAuditPending(p)
      <4>1. ops' = Transition(ops, proc[p].op, "AUDIT_PENDING", Null, Null)
        BY <3>2 DEF AuditPending, RollbackAuditPending, LogStep
      <4>2. proc[p].op \in DOMAIN ops
        BY <1>1, <3>2
           DEF AuditPending, RollbackAuditPending, LogStep, OwnRow, AuditSteps, RollbackSteps
      <4>3. "AUDIT_PENDING" \in OperationState /\ Null \in Nat
        BY DEF OperationState, Null
      <4> QED BY <1>1, <4>1, <4>2, <4>3, Transitioned
    <3> QED BY <2>1, <3>1, <3>2
  <2>4. ASSUME label \in Auditing
        PROVE  /\ (OnCurrent(check.expected) \/ Quiet)'
               /\ check'.matched = {}
               /\ \E fp \in Nat : check' = Attempt(fp)
    <3>0. Expected(p) \in Nat
      BY <1>1, CertificateFacts, ProcessFields, Worker DEF Expected, Known
    <3>1. check' = Attempt(Expected(p))
      BY <2>2, <2>4 DEF Audited
    <3>2. check'.expected = Expected(p) /\ check'.matched = {}
      BY <3>0, <3>1, CheckState
    <3>3. CASE AuditBundle(p)
      BY <1>1, <2>1, <3>0, <3>1, <3>2, <3>3 DEF OnCurrent, Expected, AuditBundle
    <3>4. CASE RollbackAuditPending(p)
      BY <1>1, <2>1, <3>0, <3>1, <3>2, <3>4 DEF RollbackAuditPending, LogStep, PromoteInv, RestoredSteps, Quiet
    <3> QED BY <2>1, <2>4, <3>0, <3>1, <3>2, <3>3, <3>4 DEF Auditing
  <2>5. /\ DOMAIN presents' = Address
        /\ check' \in AttemptState
        /\ \A q \in Process : proc'[q].pc \in {"auditBundle", "audit", "rollbackAudit"} =>
              proc'[q].op \in DOMAIN ops' /\ ops'[proc'[q].op].state = "AUDIT_PENDING"
    <3>1. label \notin Auditing => check' = NoCheck
      BY <2>2 DEF Audited
    <3> QED BY <1>2, <2>1, <2>2, <2>3, <2>4, <3>1, CheckState DEF VerdictInv, PendingSteps
  <2>6. \A q \in Process : proc'[q].pc \in Auditing =>
           /\ (OnCurrent(check.expected) \/ Quiet)' /\ check'.matched = {}
    BY <1>2, <2>2, <2>4, PendingLabels
  <2> QED BY <2>5, <2>6 DEF VerdictInv
<1> QED BY <1>3, <1>4

\* What is outside the commands: a late request moves CURRENT away from the
\* leaf of an audit at most once, and nothing can move it back after that.
LEMMA VerdictInEnvironment ==
    ASSUME Known, VerdictInv, ~Lag, Environment, UNCHANGED auditVars
    PROVE  VerdictInv'
<1>1. /\ UNCHANGED <<proc, ops, presents, check>> /\ DOMAIN presents = Address
      /\ oci.listed = Len(oci.versions) /\ oci.served = oci.current
  BY CertificateFacts
     DEF Known, CertificateInv, StageInv, VerdictInv, Environment, ArriveLate, ListingSettles,
         RetrievalSettles, Expire, auditVars
<1>2. ASSUME NEW p \in Process, proc[p].pc \in Auditing
      PROVE  /\ (OnCurrent(check.expected) \/ Quiet)'
             /\ (OnCurrent(check.expected) =>
                   \A a \in check.matched : presents[a] = check.expected)'
  <2>1. /\ OnCurrent(check.expected) \/ Quiet
        /\ OnCurrent(check.expected) =>
              \A a \in check.matched : presents[a] = check.expected
    BY <1>2 DEF VerdictInv
  <2>2. CASE oci' = oci /\ net' \subseteq net
    BY <1>1, <2>1, <2>2 DEF OnCurrent, Quiet
  <2>3. ASSUME NEW req \in net, ArriveLate(req), Accepts(oci, req)
        PROVE  /\ (OnCurrent(check.expected) \/ Quiet)'
               /\ (OnCurrent(check.expected) =>
                     \A a \in check.matched : presents[a] = check.expected)'
    <3>1. oci' = Executed(oci, req, Lag) /\ Executable(req) /\ net' \subseteq net
      BY <2>3, InFlight DEF ArriveLate
    <3>2. Quiet'
      BY <3>1, ExecutedFields, OthersRefused DEF Known
    <3>3. ~Quiet
      BY <2>3, CertificateFacts DEF Quiet, Accepts, Known
    <3> QED BY <1>1, <2>1, <3>2, <3>3 DEF OnCurrent
  <2>4. \/ oci' = oci /\ net' \subseteq net
        \/ \E req \in net : ArriveLate(req) /\ Accepts(oci, req)
    BY <1>1 DEF Environment, ArriveLate, ListingSettles, RetrievalSettles, Expire
  <2> QED BY <2>2, <2>3, <2>4
<1> QED BY <1>1, <1>2 DEF VerdictInv

\* The publication service does not move while consumers and probes do.
LEMMA ProbesOnlyWatch == AuditNext => UNCHANGED vars
<1>1. \A a : TakeUp(a) => UNCHANGED vars
  BY DEF TakeUp
<1>2. \A p, i, a : ProbeAddress(p, i, a) => UNCHANGED vars
  BY DEF ProbeAddress
<1>3. \A p : Retry(p) => UNCHANGED vars
  BY DEF Retry
<1> QED BY <1>1, <1>2, <1>3, Zenon DEF AuditNext

\* The consumers and the probes: what matched an attempt stays matched while
\* CURRENT carries the expected leaf, as a consumer takes up that leaf only.
LEMMA VerdictAtProbes ==
    ASSUME VerdictInv, AuditNext
    PROVE  VerdictInv'
<1>1. UNCHANGED <<oci, net, ops, proc>>
  BY ProbesOnlyWatch DEF vars
<1>2. check \in AttemptState /\ DOMAIN presents = Address
  BY DEF VerdictInv
<1>3. ASSUME DOMAIN presents' = Address, check' \in AttemptState,
             check'.expected = check.expected,
             OnCurrent(check.expected) /\ (\A a \in check.matched : presents[a] = check.expected)
                => \A a \in check'.matched : presents'[a] = check.expected
      PROVE  VerdictInv'
  <2>1. check' \in AttemptState'
    BY <1>3 DEF AttemptState
  <2> QED BY <1>1, <1>3, <2>1 DEF VerdictInv, OnCurrent, Quiet
<1>4. ASSUME NEW a \in Address, TakeUp(a)
      PROVE  VerdictInv'
  <2>1. /\ presents' = [presents EXCEPT ![a] = oci.versions[oci.current]]
        /\ UNCHANGED check
    BY <1>4 DEF TakeUp
  <2>2. check.matched \subseteq Address
    BY <1>2 DEF AttemptState
  <2> QED BY <1>2, <1>3, <2>1, <2>2 DEF OnCurrent
<1>5. ASSUME NEW p \in Process, NEW i \in DOMAIN Endpoints, NEW a \in Endpoints[i],
             ProbeAddress(p, i, a)
      PROVE  VerdictInv'
  <2>1. a \in Address
    BY <1>5 DEF Address, ToSet
  <2>2. \E answers \in BOOLEAN :
          check' = [check EXCEPT
                      !.probed = check.probed \union {a},
                      !.matched = IF answers /\ presents[a] = check.expected
                                  THEN check.matched \union {a} ELSE check.matched]
    BY <1>5, Zenon DEF ProbeAddress
  <2>3. PICK m : /\ check' = [check EXCEPT !.probed = check.probed \union {a}, !.matched = m]
                 /\ m = check.matched \/ (m = check.matched \union {a} /\ presents[a] = check.expected)
    BY <2>2, Zenon
  <2>4. check' \in AttemptState /\ check'.expected = check.expected /\ check'.matched = m
    BY <1>2, <2>1, <2>3 DEF AttemptState
  <2> QED BY <1>2, <1>3, <1>5, <2>3, <2>4 DEF ProbeAddress
<1>6. ASSUME NEW p \in Process, Retry(p)
      PROVE  VerdictInv'
  <2>1. check' = Attempt(check.expected) /\ check.expected \in Nat /\ UNCHANGED presents
    BY <1>2, <1>6 DEF Retry, AttemptState
  <2> QED BY <1>2, <1>3, <2>1, CheckState
<1> QED BY <1>4, <1>5, <1>6 DEF AuditNext

\* What the audits know is preserved by every step of the probe and of the
\* other commands.
LEMMA VerdictStep ==
    ASSUME Known, AtWork, VerdictInv, ~Lag, [ProbeNext]_probeVars
    PROVE  VerdictInv'
<1>1. /\ Inv /\ proc \in [Process -> ProcessState] /\ LockInv
      /\ \A p \in Process : OwnRow(p)
      /\ \A cmd \in AllCommands : Fresh(cmd).pc \notin PendingSteps
      /\ Idle.pc \notin PendingSteps
  BY FreshState, PendingLabels, IdleState DEF Known, Inv, TypeInv, TypeOK, StartSteps
<1>2. ASSUME NEW p \in Process, proc[p].pc # "idle" \/ lock = Free, NEW r, Become(p, r),
             r.pc \notin PendingSteps
      PROVE  \A q \in Process : proc'[q].pc \notin PendingSteps
  BY <1>1, <1>2, OthersIdle, PendingLabels
<1>3. ASSUME NEW p \in Process, BeginProbe(p)
      PROVE  VerdictInv'
  <2>1. /\ proc[p].pc = "idle" /\ lock = Free /\ Become(p, Fresh("PUBLISH"))
        /\ "PUBLISH" \in AllCommands /\ UNCHANGED <<oci, net, ops, auditVars>>
    BY <1>1, <1>3, ProbeBegins DEF BeginProbe, Acquire, Fresh, AllCommands
  <2>2. \A q \in Process : proc'[q].pc \notin PendingSteps
    BY <1>1, <1>2, <2>1
  <2> QED BY <2>1, <2>2, VerdictKept
<1>4. ASSUME NEW p \in Process, NextCall(p) \/ OpenEvidence(p) \/ WriteEvidence(p)
      PROVE  VerdictInv'
  <2>1. /\ Probing(p) /\ UNCHANGED <<oci, net, ops, auditVars>>
        /\ \/ Exit(p)
           \/ UNCHANGED proc
           \/ probe.stage < Len(Calls) /\ Call(p)
    BY <1>4 DEF NextCall, OpenEvidence, WriteEvidence
  <2>2. proc[p].pc # "idle"
    BY <2>1 DEF Probing, AtWork
  <2>3. CASE Exit(p)
    <3>1. \A q \in Process : proc'[q].pc \notin PendingSteps
      BY <1>1, <1>2, <2>2, <2>3 DEF Exit
    <3> QED BY <2>1, <3>1, VerdictKept
  <2>4. CASE UNCHANGED proc
    BY <2>1, <2>4, VerdictKept
  <2>5. CASE probe.stage < Len(Calls) /\ Call(p)
    <3>1. PICK cmd \in AllCommands : Become(p, Fresh(cmd))
      BY <1>1, <2>1, <2>5, ProbeCalls
    <3>2. \A q \in Process : proc'[q].pc \notin PendingSteps
      BY <1>1, <1>2, <2>2, <3>1
    <3> QED BY <2>1, <3>2, VerdictKept
  <2> QED BY <2>1, <2>3, <2>4, <2>5
<1>5. ASSUME NEW p \in Process, Audited(p),
             \/ Die(p) \/ Return(p)
             \/ \E cmd \in Commands : Acquire(p, cmd)
      PROVE  VerdictInv'
  <2>1. PICK r : /\ Become(p, r) /\ r.pc \notin PendingSteps
                 /\ proc[p].pc # "idle" \/ lock = Free
    <3>1. ASSUME NEW cmd \in Commands, Acquire(p, cmd)
          PROVE  /\ Become(p, Fresh(cmd)) /\ Fresh(cmd).pc \notin PendingSteps
                 /\ lock = Free
      BY <1>1, <3>1, PublisherAssumption DEF Acquire, Fresh
    <3>2. CASE Die(p) \/ Return(p)
      BY <1>1, <3>2 DEF Die, Return, Exit
    <3> QED BY <1>5, <3>1, <3>2
  <2>2. \A q \in Process : proc'[q].pc \notin PendingSteps
    BY <1>2, <2>1
  <2>3. UNCHANGED presents /\ check' = NoCheck
    BY <1>5, <2>2, PendingLabels DEF Audited
  <2> QED BY <2>2, <2>3, NoVerdict
<1>6. ASSUME NEW p \in Process, WorkForced(p)
      PROVE  VerdictInv'
  <2>1. Audited(p) /\ (Reconcile(p) \/ Rollback(p) \/ Audit(p) \/ Die(p))
    BY <1>6 DEF WorkForced, Work
  <2> QED BY <1>5, <2>1, VerdictAtStep
<1>7. ASSUME NEW p \in Process, OtherCommand(p)
      PROVE  VerdictInv'
  <2>1. /\ Audited(p)
        /\ \/ Reconcile(p) \/ Rollback(p) \/ Audit(p) \/ Retention(p)
           \/ Die(p) \/ Return(p) \/ \E cmd \in Commands : Acquire(p, cmd)
    BY <1>7 DEF OtherCommand, Step
  <2> QED BY <1>5, <2>1, VerdictAtStep
<1>8. CASE Environment /\ UNCHANGED auditVars
  BY <1>8, VerdictInEnvironment
<1>9. CASE AuditNext
  BY <1>9, VerdictAtProbes
<1>10. CASE UNCHANGED probeVars
  BY <1>10, VerdictKept DEF probeVars, vars
<1> QED BY <1>3, <1>4, <1>6, <1>7, <1>8, <1>9, <1>10 DEF ProbeNext

\* All of it holds before any command has run.
LEMMA ProbeStarts ==
    ASSUME ProbeInit
    PROVE  Known /\ OpenRows /\ AtWork /\ VerdictInv
<1>1. Init /\ AuditInit /\ probe = NoProbe
  BY DEF ProbeInit
<1>2. Known
  BY <1>1, InitInv, InitImports, InitCertificate DEF Known
<1>3. \A p \in Process : proc[p].pc = "idle"
  BY <1>1 DEF Init, Idle
<1>4. OpenRows
  BY <1>3 DEF OpenRows, OpenSteps, PublishSteps, RollbackSteps, AuditSteps
<1>5. AtWork
  BY <1>1, CallsAreCommands DEF AtWork, NoProbe
<1>6. VerdictInv
  BY <1>1, <1>3, CheckState DEF VerdictInv, AuditInit, Auditing
<1> QED BY <1>2, <1>4, <1>5, <1>6

\* A step of a process that waits for its audit is the verdict on it, and
\* moves its row.
LEMMA VerdictMoves ==
    ASSUME Known, VerdictInv, NEW p \in Process, proc[p].pc \in Auditing,
           Reconcile(p) \/ Rollback(p) \/ Audit(p) \/ Retention(p)
    PROVE  ops' # ops
<1>1. ops \in Seq(Operation) /\ proc[p].pc \in {"audit", "rollbackAudit"}
  BY DEF Known, Inv, TypeInv, TypeOK, Auditing
<1>2. proc[p].op \in DOMAIN ops /\ ops[proc[p].op].state = "AUDIT_PENDING"
  BY <1>1 DEF VerdictInv
<1>3. ~Reconcile(p) /\ ~Retention(p)
  <2>1. ~Reconcile(p)
    BY <1>1 DEF Reconcile, Renew, Start, GetCertificate, GetCurrent, Reconciled, Find, Upload,
                PendingUploaded, FindUploaded, PendingVerified, Refresh, Promote, Confirm,
                CurrentConfirmed, Record, CloseReconciled, RecordRenewal, Complete, LogStep
  <2>2. Retention(p) => proc[p].pc \in {"retentionPlan", "retentionNext", "schedule"}
    BY Zenon DEF Retention, RetentionPlan, RetentionNext, Schedule
  <2> QED BY <1>1, <2>1, <2>2
<1>4. Rollback(p) => RollbackAudit(p)
  <2>1. RollbackStart(p) \/ PreviousVersion(p) \/ RollbackEtag(p) \/ RollbackReconciled(p) =>
           proc[p].pc \in {"rollbackStart", "previousVersion", "rollbackEtag",
                           "rollbackReconciled"}
    BY Zenon DEF RollbackStart, PreviousVersion, RollbackEtag, RollbackReconciled, LogStep
  <2>2. ~(\/ Restore(p) \/ RollbackConfirm(p) \/ RollbackConfirmed(p) \/ RecordRollback(p)
          \/ RollbackAuditPending(p) \/ RollbackComplete(p))
    BY <1>1 DEF Restore, RollbackConfirm, RollbackConfirmed, RecordRollback,
                RollbackAuditPending, RollbackComplete, LogStep
  <2> QED BY <1>1, <2>1, <2>2 DEF Rollback
<1>5. Audit(p) => AuditFails(p) \/ AuditSucceeds(p)
  BY <1>1 DEF Audit, AuditStart, AuditPending, AuditBundle, RecordAudit, AuditComplete,
              CloseAudits, LogStep
<1>6. PICK state \in {"AUDIT_SUCCESS", "AUDIT_FAILED", "ROLLBACK_FAILED"} :
         ops' = Transition(ops, proc[p].op, state, Null, Null)
  BY <1>3, <1>4, <1>5 DEF RollbackAudit, AuditFails, AuditSucceeds, LogStep
<1>7. state \in OperationState /\ Null \in Nat /\ state # "AUDIT_PENDING"
  BY DEF OperationState, TerminalStates, Null
<1>8. ops'[proc[p].op].state = state
  BY <1>1, <1>2, <1>6, <1>7, Transitioned
<1> QED BY <1>2, <1>7, <1>8

\* A process leaves its audit with a success when the last attempt found the
\* expected leaf at every endpoint.
LEMMA PassedIsMatched ==
    ASSUME Known, AtWork, VerdictInv, ~Lag, [ProbeNext]_probeVars,
           NEW p \in Process, InAudit(p), proc'[p].pc \in Passed
    PROVE  Failures = {}
<1>1. /\ Inv /\ proc \in [Process -> ProcessState] /\ proc[p].pc \in Auditing
      /\ proc'[p] # proc[p] /\ proc[p].pc # "idle" /\ lock = p /\ lock # Free
      /\ Fresh("PUBLISH").pc \notin Passed /\ Idle.pc \notin Passed
      /\ \A cmd \in AllCommands : Fresh(cmd).pc \notin Passed
  <2>1. \A cmd \in AllCommands : Fresh(cmd).pc \notin Passed
    BY FreshState DEF Passed, StartSteps
  <2> QED BY <2>1, FreeIsNoProcess, IdleState
      DEF Known, Inv, TypeInv, TypeOK, LockInv, InAudit, Auditing, Passed, AllCommands
<1>2. ASSUME NEW q \in Process, NEW r, Become(q, r), r.pc \notin Passed
      PROVE  FALSE
  BY <1>1, <1>2 DEF Become
<1>3. ASSUME NEW q \in Process, Exit(q)
      PROVE  FALSE
  BY <1>1, <1>2, <1>3 DEF Exit
<1>4. ASSUME NEW q \in Process, Audited(q),
             Reconcile(q) \/ Rollback(q) \/ Audit(q) \/ Retention(q)
      PROVE  Failures = {}
  <2>1. q = p
    BY <1>1, <1>4, StepsAlone
  <2>2. ops' # ops
    BY <1>1, <1>4, <2>1, VerdictMoves
  <2> QED BY <1>4, <2>1, <2>2 DEF Audited
<1>5. ASSUME NEW q \in Process, BeginProbe(q)
      PROVE  FALSE
  BY <1>1, <1>5 DEF BeginProbe
<1>6. ASSUME NEW q \in Process, NextCall(q) \/ OpenEvidence(q) \/ WriteEvidence(q)
      PROVE  FALSE
  <2>1. \/ Exit(q) \/ UNCHANGED proc
        \/ Probing(q) /\ probe.stage < Len(Calls) /\ Call(q)
    BY <1>6 DEF NextCall, OpenEvidence, WriteEvidence
  <2>2. ASSUME Probing(q), probe.stage < Len(Calls), Call(q)
        PROVE  FALSE
    BY <1>1, <1>2, <2>2, ProbeCalls
  <2> QED BY <1>1, <1>3, <2>1, <2>2
<1>7. ASSUME NEW q \in Process, WorkForced(q)
      PROVE  Failures = {}
  BY <1>3, <1>4, <1>7 DEF WorkForced, Work, Die
<1>8. ASSUME NEW q \in Process, OtherCommand(q)
      PROVE  Failures = {}
  <2>1. ~(Die(q) \/ Return(q))
    BY <1>3 DEF Die, Return
  <2>2. ASSUME NEW cmd, Acquire(q, cmd)
        PROVE  FALSE
    BY <1>1, <2>2 DEF Acquire
  <2> QED BY <1>4, <1>8, <2>1, <2>2 DEF OtherCommand, Step
<1>9. ~UNCHANGED proc
  BY <1>1
<1>10. ~(Environment \/ AuditNext \/ UNCHANGED probeVars)
  <2>1. Environment => UNCHANGED proc
    BY DEF Environment, ArriveLate, ListingSettles, RetrievalSettles, Expire
  <2>2. AuditNext => UNCHANGED proc
    BY ProbesOnlyWatch DEF vars
  <2> QED BY <1>9, <2>1, <2>2 DEF probeVars, vars
<1> QED BY <1>5, <1>6, <1>7, <1>8, <1>10 DEF ProbeNext

\* What an audit that succeeds says is true when CURRENT is still what it was.
LEMMA PassedIsTrue ==
    ASSUME Known, AtWork, VerdictInv, ~Lag, [ProbeNext]_probeVars,
           NEW p \in Process, InAudit(p), proc'[p].pc \in Passed,
           check.expected = oci.versions[oci.current], NEW i \in DOMAIN Endpoints
    PROVE  IF RequireAllAddresses
           THEN \A a \in Endpoints[i] : presents[a] = check.expected
           ELSE \E a \in Endpoints[i] : presents[a] = check.expected
<1>1. Matches(Endpoints[i], check.matched)
  BY PassedIsMatched DEF Failures
<1>2. \A a \in check.matched : presents[a] = check.expected
  BY DEF VerdictInv, OnCurrent, InAudit
<1> QED BY <1>1, <1>2 DEF Matches

\* Every command, the probe's included, keeps what is known of the
\* publication service and of its audits.
THEOREM ProbeInvariance ==
    ASSUME ~Lag PROVE ProbeSpec => [](Known /\ OpenRows /\ AtWork /\ VerdictInv)
<1> DEFINE I == Known /\ OpenRows /\ AtWork /\ VerdictInv
<1>1. ProbeInit => I
  BY ProbeStarts
<1>2. I /\ [ProbeNext]_probeVars => I'
  <2> SUFFICES ASSUME I, [ProbeNext]_probeVars PROVE I'
    OBVIOUS
  <2>1. Inv
    BY DEF Known
  <2>2. Known' /\ OpenRows'
    BY <2>1, ProbeServes, ServiceKnown
  <2> QED BY <2>1, <2>2, ProbeAtWork, VerdictStep
<1> HIDE DEF I
<1>3. ProbeSpec => []I
  BY <1>1, <1>2, PTL DEF ProbeSpec
<1> QED BY <1>3 DEF I

\* staging verify keeps what the commands promise one by one: its five calls
\* under one lock leave completed rows that are true, CURRENT accounted for and
\* every PENDING leaf remembered, wherever the probe ends.
THEOREM ProbeKeepsPromises ==
    ASSUME ~Lag
    PROVE  ProbeSpec => [](CompletedIsTruthful /\ CurrentIsAccountedFor /\ PendingIsRemembered)
<1>1. Known => CompletedIsTruthful /\ CurrentIsAccountedFor /\ PendingIsRemembered
  BY DEF Known, Inv, CertificateInv, StageInv, CurrentIsAccountedFor, CurrentBacked, Backs
<1> QED BY <1>1, ProbeInvariance, PTL

\* AuditService.audit reports success on what was probed address by address
\* over time: as long as CURRENT carries the leaf it was asked for, the
\* endpoints do present that leaf, whatever a late request did in between.
THEOREM VerdictsAreTrue == ASSUME ~Lag PROVE ProbeSpec => VerdictIsTrue
<1> DEFINE I == Known /\ OpenRows /\ AtWork /\ VerdictInv
           V == \A p \in Process :
                   InAudit(p) /\ proc'[p].pc \in Passed
                     /\ check.expected = oci.versions[oci.current] =>
                          \A i \in DOMAIN Endpoints :
                             IF RequireAllAddresses
                             THEN \A a \in Endpoints[i] : presents[a] = check.expected
                             ELSE \E a \in Endpoints[i] : presents[a] = check.expected
<1>1. I /\ [ProbeNext]_probeVars => V
  BY PassedIsTrue
<1> HIDE DEF I, V
<1>2. ProbeSpec => []I
  BY ProbeInvariance DEF I
<1>3. ProbeSpec => [][V]_<<vars, auditVars>>
  BY <1>1, <1>2, PTL DEF ProbeSpec
<1> QED BY <1>3 DEF VerdictIsTrue, V

-----------------------------------------------------------------------------
(***************************************************************************)
(* What a step leaves of the certificate and of the history.               *)
(***************************************************************************)

\* Versions keep their leaves.
LeavesStay ==
    /\ DOMAIN oci.versions \subseteq DOMAIN oci'.versions
    /\ \A v \in DOMAIN oci.versions : oci'.versions[v] = oci.versions[v]

\* Only the conditional requests change the certificate.
LEMMA OnlyRequestsMutate ==
    ASSUME NEW p \in Process, Reconcile(p) \/ Rollback(p) \/ Audit(p) \/ Retention(p)
    PROVE  oci' = oci \/ Upload(p) \/ Promote(p) \/ Restore(p) \/ Schedule(p)
<1>1. CASE Reconcile(p)
  BY <1>1, Zenon DEF Reconcile, Renew, Start, GetCertificate, GetCurrent, Reconciled, Find,
              PendingUploaded, FindUploaded, PendingVerified, Refresh, Confirm,
              CurrentConfirmed, Record, CloseReconciled, RecordRenewal, Complete, LogStep
<1>2. CASE Rollback(p)
  BY <1>2, Zenon DEF Rollback, RollbackStart, PreviousVersion, RollbackEtag, RollbackReconciled,
              RollbackConfirm, RollbackConfirmed, RecordRollback, RollbackAuditPending,
              RollbackAudit, RollbackComplete, LogStep
<1>3. CASE Audit(p)
  BY <1>3, Zenon DEF Audit, AuditStart, AuditPending, AuditBundle, AuditFails, AuditSucceeds,
              RecordAudit, AuditComplete, CloseAudits, LogStep
<1>4. CASE Retention(p)
  BY <1>4, Zenon DEF Retention, RetentionPlan, RetentionNext
<1> QED BY <1>1, <1>2, <1>3, <1>4

\* No step takes a leaf from a version.
LEMMA LeavesAreKept ==
    ASSUME Known, ~Lag, ServiceStep
    PROVE  LeavesStay
<1>1. CASE oci' = oci
  BY <1>1 DEF LeavesStay
<1>2. ASSUME NEW req, Executable(req), oci' = Executed(oci, req, Lag)
      PROVE  LeavesStay
  BY <1>2, LeavesKept DEF LeavesStay, Known
<1>3. ASSUME NEW p \in Process, Reconcile(p) \/ Rollback(p) \/ Audit(p) \/ Retention(p), oci' # oci
      PROVE  LeavesStay
  <2>1. PICK req : /\ Executable(req)
                   /\ Succeeds(req) \/ Refused(req) \/ Ambiguous(req)
    <3>1. /\ proc[p].pc \in PublishSteps => Executable(UploadRequest(proc[p].etag, proc[p].fp))
          /\ proc[p].pc \in VersionSteps =>
                /\ Executable(PromoteRequest(proc[p].etag, proc[p].version))
                /\ Executable(DeleteRequest(proc[p].etag, proc[p].version))
      BY RequestsExecutable DEF Known
    <3>2. /\ "upload" \in PublishSteps /\ {"promote", "restore", "schedule"} \subseteq VersionSteps
      BY DEF PublishSteps, RollbackSteps, VersionSteps
    <3>3. CASE Upload(p)
      BY <3>1, <3>2, <3>3 DEF Upload
    <3>4. CASE Promote(p)
      BY <3>1, <3>2, <3>4 DEF Promote
    <3>5. CASE Restore(p)
      BY <3>1, <3>2, <3>5 DEF Restore
    <3>6. CASE Schedule(p)
      BY <3>1, <3>2, <3>6 DEF Schedule
    <3> QED BY <1>3, <3>3, <3>4, <3>5, <3>6, OnlyRequestsMutate
  <2>2. oci' = Executed(oci, req, Lag)
    BY <1>3, <2>1, Zenon DEF Succeeds, Refused, Ambiguous
  <2> QED BY <1>2, <2>1, <2>2
<1>4. CASE Environment
  <2>1. ASSUME NEW req \in net, ArriveLate(req)
        PROVE  LeavesStay
    BY <1>1, <1>2, <2>1, InFlight DEF ArriveLate
  <2>2. oci \in Certificate
    BY CertificateFacts DEF Known
  <2>3. CASE ListingSettles \/ RetrievalSettles
    BY <2>2, <2>3 DEF ListingSettles, RetrievalSettles, Certificate, LeavesStay
  <2>4. Expire => oci' = oci
    BY DEF Expire
  <2> QED BY <1>1, <1>4, <2>1, <2>3, <2>4 DEF Environment
<1>5. ASSUME NEW p \in Process, NEW cmd, Acquire(p, cmd)
      PROVE  oci' = oci
  BY <1>5 DEF Acquire
<1>6. ASSUME NEW p \in Process, Die(p) \/ Return(p)
      PROVE  oci' = oci
  BY <1>6 DEF Die, Return
<1>7. CASE [Next]_vars
  BY <1>1, <1>3, <1>4, <1>5, <1>6, <1>7 DEF Next, Step, vars
<1> QED BY <1>1, <1>5, <1>7 DEF ServiceStep

\* A row that completed says the same ever after.
LEMMA CompletedKept ==
    ASSUME TerminalKept, NEW id, NEW type, Completed(id, type)
    PROVE  Completed(id, type)' /\ ops'[id] = ops[id]
BY DEF TerminalKept, Completed, TerminalStates

-----------------------------------------------------------------------------
(***************************************************************************)
(* The renewal of the probe.                                               *)
(***************************************************************************)

\* A request that OCI executes is the last one of those in flight.
LEMMA LastRequest ==
    ASSUME Known, ~Lag, NEW req, Executable(req), oci' = Executed(oci, req, Lag), net' \subseteq net
    PROVE  Quiet' /\ \A r \in net' : r.etag # oci'.etag
BY ExecutedFields, OthersRefused DEF Known

\* The new version is promoted.
LEMMA NewIsCurrent ==
    ASSUME Known, ~Lag, NEW req, Executable(req), oci' = Executed(oci, req, Lag), net' \subseteq net,
           req.kind = "promote", oci.versions[req.arg] = local, ~OnCurrent(local),
           UNCHANGED local
    PROVE  Settled' /\ Settling'
<1>1. /\ oci'.versions = oci.versions /\ oci'.current = req.arg /\ oci'.previous = oci.current
  BY ExecutedFields DEF Known
<1>2. Quiet' /\ \A r \in net' : r.etag # oci'.etag
  BY LastRequest
<1>3. Settled'
  BY <1>1, <1>2 DEF Settled, OnCurrent
<1> QED BY <1>2, <1>3 DEF Settling

\* The new version is uploaded.
LEMMA NewIsUploaded ==
    ASSUME Known, ~Lag, Unknown, NEW req, Executable(req), oci' = Executed(oci, req, Lag),
           net' \subseteq net, req.kind = "upload", UNCHANGED local
    PROVE  Settling' /\ (req.arg < local => Unknown')
<1>1. /\ oci'.versions = Append(oci.versions, req.arg) /\ oci'.current = oci.current
      /\ Len(oci'.versions) = Len(oci.versions) + 1
  BY ExecutedFields DEF Known
<1>2. Quiet' /\ \A r \in net' : r.etag # oci'.etag
  BY LastRequest
<1>3. /\ oci.current \in DOMAIN oci.versions /\ local \in Nat
      /\ \A v \in DOMAIN oci.versions : oci.versions[v] \in Nat
      /\ oci.versions \in Seq(Nat \ {0}) /\ req.arg \in Nat \ {0}
      /\ oci.versions[oci.current] < local
  BY CertificateFacts, CertificateFields DEF Known, Unknown, Newer, Executable
<1>4. ~OnCurrent(local)'
  <2>1. oci'.versions[oci.current] = oci.versions[oci.current]
    BY LeavesKept, <1>3 DEF Known
  <2> QED BY <1>1, <1>3, <2>1 DEF OnCurrent
<1>5. req.arg < local => Unknown'
  <2> SUFFICES ASSUME req.arg < local PROVE Unknown'
    OBVIOUS
  <2>1. \A v \in DOMAIN oci'.versions : oci'.versions[v] < local
    BY <1>1, <1>3 DEF Unknown, Newer
  <2> QED BY <2>1 DEF Unknown, Newer
<1> QED BY <1>2, <1>4, <1>5 DEF Settling

\* Nothing from outside takes away what the renewal has reached.
LEMMA UploadInEnvironment ==
    ASSUME Known, ~Lag, Environment
    PROVE  (Unknown => Unknown') /\ (Settling => Settling') /\ (Settled => Settled')
<1>1. /\ oci.listed = Len(oci.versions) /\ oci.served = oci.current /\ UNCHANGED local
  BY CertificateFacts
     DEF Known, CertificateInv, StageInv, Environment, ArriveLate, ListingSettles,
         RetrievalSettles, Expire
<1>2. CASE oci' = oci /\ net' \subseteq net
  BY <1>1, <1>2 DEF Unknown, Newer, Settling, Settled, OnCurrent, Quiet
<1>3. ASSUME NEW req \in net, ArriveLate(req), Accepts(oci, req)
      PROVE  (Unknown => Unknown') /\ (Settling => Settling') /\ (Settled => Settled')
  <2>1. /\ oci' = Executed(oci, req, Lag) /\ Executable(req) /\ net' \subseteq net
        /\ req.etag = oci.etag
    BY <1>3, InFlight DEF ArriveLate, Accepts
  <2>2. ~Settled
    BY <2>1, CertificateFacts DEF Settled, Quiet, Known
  <2>3. Settling => Settling'
    BY <1>1, <2>1, <2>2, NewIsCurrent DEF Settling
  <2>4. Unknown => Unknown'
    <3>1. CASE req.kind = "upload"
      BY <1>1, <2>1, <3>1, NewIsUploaded DEF Unknown
    <3>2. CASE req.kind # "upload"
      <4>1. oci'.versions = oci.versions
        BY <2>1, <3>2, ExecutedFields DEF Known, Executable, Request
      <4> QED BY <1>1, <2>1, <4>1 DEF Unknown, Newer
    <3> QED BY <3>1, <3>2
  <2> QED BY <2>2, <2>3, <2>4
<1>4. \/ oci' = oci /\ net' \subseteq net
      \/ \E req \in net : ArriveLate(req) /\ Accepts(oci, req)
  BY <1>1 DEF Environment, ArriveLate, ListingSettles, RetrievalSettles, Expire
<1> QED BY <1>2, <1>3, <1>4

\* The renewal goes from reading to the upload, as no version carries its
\* leaf; the upload and the promotion are the last requests that OCI accepts.
LEMMA UploadAtStep ==
    ASSUME Known, ~Lag, NEW p \in Process, Reconcile(p), UploadInv(p),
           proc[p].pc \in PublishSteps \ {"complete"},
           NEW label \in PublishSteps, GoesOn(p, label)
    PROVE  UploadInv(p)'
<1>1. /\ OwnRow(p) /\ OwnVersion(p) /\ RowInv(p) /\ PromoteInv(p)
      /\ proc[p].fp = local /\ proc[p].version \in Nat /\ proc[p].etag \in Nat
      /\ proc[p].etag <= oci.etag /\ oci.served = oci.current /\ proc'[p].pc = label
      /\ proc \in [Process -> ProcessState]
  BY Worker, ProcessFields
     DEF Known, Inv, TypeInv, TypeOK, CertificateInv, StageInv, WorkInv, OwnRow, ImportInv, EtagInv,
         GoesOn
<1>2. /\ UNCHANGED local /\ label # "idle"
      /\ \/ GetCertificate(p) \/ GetCurrent(p) \/ Reconciled(p) \/ Find(p) \/ Upload(p)
         \/ PendingUploaded(p) \/ FindUploaded(p) \/ PendingVerified(p) \/ Refresh(p) \/ Promote(p)
         \/ Confirm(p) \/ CurrentConfirmed(p) \/ Record(p) \/ CloseReconciled(p)
         \/ RecordRenewal(p)
  <2>1. ~Renew(p) /\ ~Start(p) /\ ~Complete(p)
    BY DEF Renew, Start, Complete, LogStep, PublishSteps
  <2>2. \/ GetCertificate(p) \/ GetCurrent(p) \/ Reconciled(p) \/ Find(p) \/ Upload(p)
        \/ PendingUploaded(p) \/ FindUploaded(p) \/ PendingVerified(p) \/ Refresh(p) \/ Promote(p)
        \/ Confirm(p) \/ CurrentConfirmed(p) \/ Record(p) \/ CloseReconciled(p)
        \/ RecordRenewal(p)
    BY <2>1 DEF Reconcile
  <2>3. UNCHANGED local /\ label # "idle"
    BY <2>2 DEF GetCertificate, GetCurrent, Reconciled, Find, Upload,
                PendingUploaded, FindUploaded, PendingVerified, Refresh, Promote, Confirm,
                CurrentConfirmed, Record, CloseReconciled, RecordRenewal, LogStep, PublishSteps
  <2> QED BY <2>2, <2>3
<1>3. ASSUME UNCHANGED <<oci, net>>
      PROVE  (Unknown => Unknown') /\ (Settling => Settling') /\ (Settled => Settled')
  BY <1>2, <1>3 DEF Unknown, Newer, Settling, Settled, OnCurrent, Quiet
<1>4. ASSUME UNCHANGED <<oci, net>>,
             \/ proc[p].pc \in BeforeUpload /\ label \in BeforeUpload
             \/ proc[p].pc \in AfterUpload /\ label \in AfterUpload
             \/ proc[p].pc \in ConfirmedSteps /\ label \in ConfirmedSteps
      PROVE  UploadInv(p)'
  <2>1. /\ BeforeUpload \intersect AfterUpload = {}
        /\ (BeforeUpload \union AfterUpload) \intersect ConfirmedSteps = {}
    BY DEF BeforeUpload, AfterUpload, ConfirmedSteps
  <2> QED BY <1>1, <1>3, <1>4, <2>1 DEF UploadInv
<1>5. ~Exit(p)
  BY <1>1, <1>2, IdleState DEF Exit, Become
<1>6. \A l : GoesOn(p, l) => l = label
  BY <1>1 DEF GoesOn
<1>7. ASSUME proc[p].pc \in BeforeUpload, NEW v \in DOMAIN oci.versions
      PROVE  oci.versions[v] # local
  BY <1>7, CertificateFacts DEF UploadInv, Unknown, Newer, Known
<1>8. CASE GetCertificate(p) \/ GetCurrent(p)
  <2>1. label \in {"getCurrent", "reconciled"}
    BY <1>5, <1>6, <1>8, WentOn DEF GetCertificate, GetCurrent, Known
  <2> QED BY <1>4, <1>8, <2>1 DEF GetCertificate, GetCurrent, BeforeUpload
<1>9. CASE Reconciled(p)
  <2>1. proc[p].pc = "reconciled" /\ proc[p].version \in DOMAIN oci.versions
    BY <1>1, <1>9 DEF Reconciled, LogStep, OwnVersion, VersionSteps, PublishSteps
  <2>2. oci.versions[proc[p].version] # proc[p].fp
    BY <1>1, <1>7, <2>1 DEF BeforeUpload
  <2>3. label = "find"
    BY <1>6, <1>9, <2>2, LogGoesOn DEF Reconciled, Known
  <2> QED BY <1>4, <1>9, <2>1, <2>3 DEF Reconciled, LogStep, BeforeUpload
<1>10. CASE Find(p)
  <2>1. proc[p].pc = "find"
    BY <1>10 DEF Find
  <2>2. ~Found(p)
    <3>1. \A v \in StagedForPromotion(oci) : v \in DOMAIN oci.versions
      BY CertificateFacts DEF StagedForPromotion, Known
    <3> QED BY <1>1, <1>7, <2>1, <3>1 DEF Found, Matching, BeforeUpload
  <2>3. label = "upload"
    BY <1>5, <1>6, <1>10, <2>2, WentOn DEF Find, Rejected, Go, Known
  <2> QED BY <1>4, <1>10, <2>1, <2>3 DEF Find, BeforeUpload
<1>11. CASE Upload(p)
  <2>1. PICK req : /\ req = UploadRequest(proc[p].etag, proc[p].fp)
                   /\ Succeeds(req) /\ Go(p, "uploaded") /\ proc[p].pc = "upload"
                   /\ UNCHANGED lock
    BY <1>5, <1>11 DEF Upload
  <2>2. label = "uploaded" /\ req.kind = "upload"
    <3>1. GoesOn(p, "uploaded")
      BY <2>1, WentOn DEF Go, Known
    <3> QED BY <1>6, <2>1, <3>1 DEF UploadRequest
  <2>3. Executable(req) /\ oci' = Executed(oci, req, Lag) /\ net' \subseteq net
    BY <2>1, RequestsExecutable DEF Succeeds, Known, PublishSteps
  <2>4. Settling'
    BY <1>2, <2>1, <2>2, <2>3, NewIsUploaded DEF UploadInv, BeforeUpload
  <2> QED BY <1>1, <2>2, <2>4 DEF UploadInv, BeforeUpload, AfterUpload, ConfirmedSteps
<1>12. CASE PendingUploaded(p) \/ PendingVerified(p)
  <2>1. label \in {"findUploaded", "refresh"}
    BY <1>6, <1>12, LogGoesOn DEF PendingUploaded, PendingVerified, Known
  <2> QED BY <1>4, <1>12, <2>1 DEF PendingUploaded, PendingVerified, LogStep, AfterUpload
<1>13. CASE FindUploaded(p)
  <2>1. label = "pendingVerified"
    BY <1>5, <1>6, <1>13, WentOn DEF FindUploaded, Found, Rejected, Known
  <2> QED BY <1>4, <1>13, <2>1 DEF FindUploaded, AfterUpload
<1>14. CASE Refresh(p)
  <2>1. label \in {"confirm", "promote"}
    BY <1>6, <1>14, WentOn DEF Refresh, Go, Known
  <2> QED BY <1>4, <1>14, <2>1 DEF Refresh, AfterUpload
<1>15. CASE Promote(p)
  <2>1. PICK req : /\ req = PromoteRequest(proc[p].etag, proc[p].version)
                   /\ proc[p].pc = "promote" /\ UNCHANGED lock
                   /\ \/ Succeeds(req) /\ Go(p, "confirm")
                      \/ /\ Ambiguous(req)
                         /\ Become(p, [proc[p] EXCEPT !.pc = "refresh",
                                                      !.attempt = proc[p].attempt + 1])
    BY <1>5, <1>15 DEF Promote
  <2>2. label \in {"confirm", "refresh"}
    <3>1. GoesOn(p, "confirm") \/ GoesOn(p, "refresh")
      BY <2>1, WentOn DEF Go, Known
    <3> QED BY <1>6, <3>1
  <2>3. /\ req.kind = "promote" /\ req.arg = proc[p].version /\ req.etag = proc[p].etag
        /\ Executable(req) /\ oci.versions[req.arg] = local
        /\ Settling
    BY <1>1, <2>1, RequestsExecutable
       DEF Known, PromoteRequest, VersionSteps, PublishSteps, RowInv, PromotionSteps,
           UploadInv, AfterUpload
  <2>4. req.etag = oci.etag => ~OnCurrent(local)
    BY <1>1, <2>1, <2>3, CertificateFacts DEF PromoteInv, OnCurrent, Known
  <2>5. ASSUME Accepts(oci, req), oci' = Executed(oci, req, Lag), UNCHANGED net
        PROVE  Settling'
    BY <1>2, <2>3, <2>4, <2>5, NewIsCurrent DEF Accepts
  <2>6. ASSUME UNCHANGED <<oci, net>>
        PROVE  Settling'
    BY <1>3, <2>3, <2>6
  <2>7. ASSUME net' = net \union {req}, UNCHANGED oci
        PROVE  Settling'
    <3>1. \A r \in net' : r.etag = oci'.etag =>
             r.kind = "promote" /\ oci'.versions[r.arg] = local'
      BY <1>2, <2>3, <2>7 DEF Settling
    <3>2. OnCurrent(local)' => Settled'
      <4> SUFFICES ASSUME OnCurrent(local) PROVE Settled'
        BY <1>2, <2>7 DEF OnCurrent
      <4>1. Settled /\ req.etag < oci.etag
        BY <1>1, <2>3, <2>4, CertificateFacts DEF Settling, Known
      <4> QED BY <1>2, <2>7, <4>1 DEF Settled, Quiet, OnCurrent
    <3> QED BY <3>1, <3>2 DEF Settling
  <2>8. Settling'
    BY <2>1, <2>5, <2>6, <2>7 DEF Succeeds, Ambiguous
  <2> QED BY <1>1, <2>2, <2>8 DEF UploadInv, BeforeUpload, AfterUpload, ConfirmedSteps
<1>16. CASE Confirm(p)
  <2>1. /\ label = "currentConfirmed" /\ oci.versions[oci.served] = proc[p].fp
        /\ proc[p].pc = "confirm" /\ UNCHANGED <<oci, net>>
    BY <1>5, <1>6, <1>16, WentOn DEF Confirm, Known
  <2>2. Settled
    BY <1>1, <2>1 DEF UploadInv, AfterUpload, Settling, OnCurrent
  <2> QED BY <1>1, <1>3, <2>1, <2>2 DEF UploadInv, BeforeUpload, AfterUpload
<1>17. CASE CurrentConfirmed(p) \/ Record(p) \/ CloseReconciled(p) \/ RecordRenewal(p)
  <2>1. label \in {"record", "closeReconciled", "recordRenewal", "complete"}
    <3>1. CurrentConfirmed(p) => label = "record"
      BY <1>6, LogGoesOn DEF CurrentConfirmed, Known
    <3>2. Record(p) => label = "closeReconciled"
      BY <1>6, WentOn DEF Record, Go, Known
    <3>3. CloseReconciled(p) => label \in {"recordRenewal", "complete"}
      BY <1>6, WentOn DEF CloseReconciled, Go, Known
    <3>4. RecordRenewal(p) => label = "complete"
      BY <1>6, WentOn DEF RecordRenewal, Go, Known
    <3> QED BY <1>17, <3>1, <3>2, <3>3, <3>4
  <2> QED BY <1>4, <1>17, <2>1
          DEF CurrentConfirmed, Record, CloseReconciled, RecordRenewal, LogStep, ConfirmedSteps
<1> QED BY <1>2, <1>8, <1>9, <1>10, <1>11, <1>12, <1>13, <1>14, <1>15, <1>16, <1>17

-----------------------------------------------------------------------------
(***************************************************************************)
(* The calls of the probe.                                                 *)
(***************************************************************************)

\* A process keeps to its row once it has begun it, and a rollback to the
\* version it goes back to.
LEMMA KeepsToRow ==
    ASSUME Inv, NEW p \in Process
    PROVE  /\ Reconcile(p) => Exit(p) \/ Renew(p) \/ Start(p) \/ proc'[p].op = proc[p].op
           /\ Rollback(p) =>
                 \/ Exit(p) \/ RollbackStart(p)
                 \/ /\ proc'[p].op = proc[p].op
                    /\ PreviousVersion(p) \/ proc'[p].version = proc[p].version
<1>1. proc \in [Process -> ProcessState]
  BY DEF Inv, TypeInv, TypeOK
<1>2. ASSUME NEW label, NEW v, NEW e, NEW a, NEW f, NEW r,
             r \in {[proc[p] EXCEPT !.pc = label],
                    [proc[p] EXCEPT !.pc = label, !.etag = e],
                    [proc[p] EXCEPT !.pc = label, !.version = v],
                    [proc[p] EXCEPT !.pc = label, !.attempt = a],
                    [proc[p] EXCEPT !.pc = label, !.version = v, !.fp = f]},
             Become(p, r)
      PROVE  proc'[p].op = proc[p].op
  BY <1>1, <1>2 DEF Become, ProcessState
<1>3. ASSUME Reconcile(p)
      PROVE  Exit(p) \/ Renew(p) \/ Start(p) \/ proc'[p].op = proc[p].op
  BY <1>2, <1>3
     DEF Reconcile, GetCertificate, GetCurrent, Reconciled, Find, Upload, Found, Rejected,
         PendingUploaded, FindUploaded, PendingVerified, Refresh, Promote, Confirm,
         CurrentConfirmed, Record, CloseReconciled, RecordRenewal, Complete, LogStep, Go
<1>4. ASSUME NEW label, NEW e, NEW r,
             r \in {[proc[p] EXCEPT !.pc = label], [proc[p] EXCEPT !.pc = label, !.etag = e]},
             Become(p, r)
      PROVE  proc'[p].version = proc[p].version
  BY <1>1, <1>4 DEF Become, ProcessState
<1>5. ASSUME Rollback(p)
      PROVE  \/ Exit(p) \/ RollbackStart(p)
             \/ /\ proc'[p].op = proc[p].op
                /\ PreviousVersion(p) \/ proc'[p].version = proc[p].version
  BY <1>2, <1>4, <1>5
     DEF Rollback, PreviousVersion, RollbackEtag, RollbackReconciled, Restore, RollbackConfirm,
         RollbackConfirmed, RecordRollback, RollbackAuditPending, RollbackAudit,
         RollbackComplete, LogStep, Go
<1> QED BY <1>3, <1>5

\* The labels of the calls.
LEMMA CallLabels ==
    /\ AuditSteps \intersect (PublishSteps \union RollbackSteps \union StartSteps) = {}
    /\ PublishSteps \intersect (RollbackSteps \union StartSteps) = {}
    /\ RollbackSteps \intersect StartSteps = {}
    /\ "return" \notin AuditSteps \union PublishSteps \union RollbackSteps \union StartSteps
    /\ {"start", "renew", "auditStart", "rollbackStart"} \subseteq StartSteps
BY DEF AuditSteps, PublishSteps, RollbackSteps, StartSteps

\* The cases of a step of the call in progress.
LEMMA WorkCases ==
    ASSUME Known, AtWork, ~AutomaticRollback, NEW p \in Process, WorkForced(p), StageShape(p),
           lock' # Free
    PROVE  /\ probe.stage \in 1..5 /\ proc[p].pc # "return" /\ proc[p].cmd = Calls[probe.stage]
           /\ UNCHANGED <<probe, evidence>>
           /\ \/ probe.stage = 2 /\ Renew(p) /\ GoesOn(p, "start") /\ local' = local + 1
              \/ probe.stage \in {1, 2} /\ Start(p) /\ GoesOn(p, "getCertificate")
              \/ /\ probe.stage \in {1, 2} /\ Reconcile(p)
                 /\ proc[p].pc \in PublishSteps \ {"complete"}
                 /\ \E label \in PublishSteps : GoesOn(p, label)
              \/ probe.stage \in {1, 2} /\ Complete(p) /\ GoesOn(p, AfterPublication)
              \/ probe.stage = 4 /\ RollbackStart(p) /\ GoesOn(p, "previousVersion")
              \/ /\ probe.stage = 4 /\ Rollback(p)
                 /\ proc[p].pc \in RollbackSteps \ {"rollbackComplete"}
                 /\ \E label \in RollbackSteps \ {"previousVersion"} : GoesOn(p, label)
              \/ probe.stage = 4 /\ RollbackComplete(p) /\ GoesOn(p, "return")
              \/ /\ probe.stage # 4 /\ Audit(p)
                 /\ proc[p].pc \in AuditSteps \union {"auditStart"}
                 /\ \E label \in AuditSteps \union {"return"} : GoesOn(p, label)
<1>1. /\ Inv /\ Probing(p) /\ ~Exit(p) /\ UNCHANGED <<probe, evidence>>
      /\ Reconcile(p) \/ Rollback(p) \/ Audit(p)
      /\ proc[p].pc = "renew" /\ lock' = lock => local' # local
  BY DEF Known, WorkForced, Work, Exit, Die, ProbeContinues
<1>2. AfterAudit = "return" /\ AfterPublication \in {"return", "auditStart"}
  BY LiveProbeAssumption DEF AfterAudit, AfterPublication
<1>3. proc[p].pc # "return"
  <2>1. Reconcile(p) => proc[p].pc \in PublishSteps \union StartSteps
    BY Zenon DEF Reconcile, Renew, Start, GetCertificate, GetCurrent, Reconciled, Find, Upload,
           PendingUploaded, FindUploaded, PendingVerified, Refresh, Promote, Confirm,
           CurrentConfirmed, Record, CloseReconciled, RecordRenewal, Complete, LogStep,
           PublishSteps, StartSteps
  <2>2. Rollback(p) => proc[p].pc \in RollbackSteps \union StartSteps
    BY Zenon DEF Rollback, RollbackStart, PreviousVersion, RollbackEtag, RollbackReconciled,
           Restore, RollbackConfirm, RollbackConfirmed, RecordRollback, RollbackAuditPending,
           RollbackAudit, RollbackComplete, LogStep, RollbackSteps, StartSteps
  <2>3. Audit(p) => proc[p].pc \in AuditSteps \union StartSteps
    BY Zenon DEF Audit, AuditStart, AuditPending, AuditBundle, AuditFails, AuditSucceeds,
           RecordAudit, AuditComplete, CloseAudits, LogStep, AuditSteps, StartSteps
  <2> QED BY <1>1, <2>1, <2>2, <2>3, CallLabels
<1>4. /\ probe.stage \in 1..5 /\ proc[p].cmd = Calls[probe.stage]
      /\ proc[p].pc \in CallSteps(proc[p].cmd)
  BY <1>1, <1>3, CallsAreCommands DEF AtWork, StageShape, Probing
<1>5. CASE Reconcile(p)
  <2>1. /\ Renew(p) => proc[p].pc = "renew"
        /\ Start(p) => proc[p].pc = "start"
        /\ Complete(p) => proc[p].pc = "complete" /\ proc[p].pc \in PublishSteps
    BY DEF Renew, Start, Complete, LogStep, PublishSteps
  <2>2. proc[p].pc \in PublishSteps \union {"start"} => probe.stage \in {1, 2}
    BY <1>4, CallsAreCommands, CallLabels DEF CallSteps
  <2>3. proc[p].pc = "renew" => probe.stage = 2
    BY <1>4, CallsAreCommands, CallLabels DEF CallSteps
  <2>4. Renew(p) /\ GoesOn(p, "start") => local' = local + 1
    BY <1>1, <2>1 DEF Renew, GoesOn
  <2> QED BY <1>1, <1>3, <1>4, <1>5, <2>1, <2>2, <2>3, <2>4, ReconcileMoves
<1>6. CASE Rollback(p)
  <2>1. /\ RollbackStart(p) => proc[p].pc = "rollbackStart"
        /\ RollbackComplete(p) => proc[p].pc \in RollbackSteps
    BY DEF RollbackStart, RollbackComplete, LogStep, RollbackSteps
  <2>2. proc[p].pc \in RollbackSteps \union {"rollbackStart"} =>
           probe.stage = 4 /\ proc[p].cmd = "ROLLBACK"
    BY <1>4, CallsAreCommands, CallLabels DEF CallSteps
  <2> QED BY <1>1, <1>3, <1>4, <1>6, <2>1, <2>2, RollbackMoves
<1>7. CASE Audit(p)
  <2>1. proc[p].pc \in AuditSteps \union {"auditStart"}
    BY <1>7, Zenon DEF Audit, AuditStart, AuditPending, AuditBundle, AuditFails, AuditSucceeds,
                RecordAudit, AuditComplete, CloseAudits, LogStep, AuditSteps
  <2>2. probe.stage # 4
    BY <1>4, <2>1, CallsAreCommands, CallLabels DEF CallSteps
  <2>3. AuditFails(p) => AfterFailedAudit(p) = "return"
    BY <1>2, PublisherAssumption DEF AfterFailedAudit, AuditFails
  <2>4. \E label \in AuditSteps \union {"return"} : GoesOn(p, label)
    BY <1>1, <1>2, <1>7, <2>3, AuditMoves DEF AuditSteps
  <2> QED BY <1>1, <1>3, <1>4, <1>7, <2>1, <2>2, <2>4
<1> QED BY <1>1, <1>3, <1>4, <1>5, <1>6, <1>7

\* What earlier calls have reached stays, and a call that goes on keeps the
\* shape of the probe.
LEMMA EarlierKept ==
    ASSUME TerminalKept, LeavesStay, UNCHANGED <<probe, local>>, NEW p \in Process,
           ProbeStageInv(p), proc[p].pc # "renew",
           \A stage \in {1, 2, 4} : Done(p, stage)' => Done(p, stage)
    PROVE  /\ BaselineInv(p)'
           /\ (Done(p, 2) => Completed(probe.rows[2], "RENEW") /\ ops[probe.rows[2]].fp = local)'
           /\ (Done(p, 4) =>
                 /\ Completed(probe.rows[4], "ROLLBACK")
                 /\ ops[probe.rows[4]].version \in DOMAIN oci.versions
                 /\ oci.versions[ops[probe.rows[4]].version] < local)'
<1>1. ASSUME Done(p, 1)'
      PROVE  /\ Completed(probe.rows[1], "PUBLISH")' /\ ops'[probe'.rows[1]].fp <= local'
             /\ probe'.stage # 1 => ops'[probe'.rows[1]].fp < local'
  BY <1>1, CompletedKept DEF ProbeStageInv, BaselineInv
<1>2. ASSUME Done(p, 2)'
      PROVE  Completed(probe.rows[2], "RENEW")' /\ ops'[probe'.rows[2]].fp = local'
  BY <1>2, CompletedKept DEF ProbeStageInv, RenewalInv
<1>3. ASSUME Done(p, 4)'
      PROVE  /\ Completed(probe.rows[4], "ROLLBACK")'
             /\ ops'[probe'.rows[4]].version \in DOMAIN oci'.versions
             /\ oci'.versions[ops'[probe'.rows[4]].version] < local'
  BY <1>3, CompletedKept DEF ProbeStageInv, RestoredInv, LeavesStay
<1> QED BY <1>1, <1>2, <1>3 DEF BaselineInv

LEMMA ShapeKept ==
    ASSUME UNCHANGED probe, NEW p \in Process, NEW label, GoesOn(p, label), StageShape(p),
           probe.stage \in 1..5, label \in CallSteps(proc[p].cmd),
           label \in {"start", "renew", "rollbackStart"} =>
              probe.rows[probe.stage] = Len(ops) + 1 /\ ops' = ops,
           label \in PublishSteps \union RollbackSteps =>
              probe.rows[probe.stage] = proc'[p].op
    PROVE  StageShape(p)'
BY CallsAreCommands DEF StageShape, GoesOn

\* The forced renewal issues a leaf that no version carries.
LEMMA RenewalIssues ==
    ASSUME Known, NEW p \in Process, ProbeStageInv(p), probe.stage = 2, Renew(p),
           GoesOn(p, "start"), local' = local + 1, UNCHANGED probe
    PROVE  ProbeStageInv(p)'
<1>1. /\ UNCHANGED <<oci, net, ops>> /\ proc[p].pc = "renew" /\ proc'[p].pc = "start"
      /\ local \in Nat \ {0} /\ net \subseteq Request
      /\ probe.rows[2] = Len(ops) + 1 /\ proc[p].cmd = "RENEW"
  BY Worker, CallsAreCommands DEF Known, Renew, GoesOn, ProbeStageInv, StageShape
<1>2. StageShape(p)'
  BY <1>1, ShapeKept, CallLabels DEF ProbeStageInv, CallSteps
<1>3. Unknown'
  <2>1. \A v \in DOMAIN oci.versions : oci.versions[v] \in Nat /\ oci.versions[v] <= local
    BY CertificateFacts DEF Known, ImportInv
  <2>2. \A req \in net : req.kind = "upload" => req.arg \in Nat /\ req.arg <= local
    BY <1>1 DEF Known, Inv, TypeInv, NetInv
  <2> QED BY <1>1, <2>1, <2>2 DEF Unknown, Newer
<1>4. BaselineInv(p)'
  <2>1. Completed(probe.rows[1], "PUBLISH") /\ ops[probe.rows[1]].fp <= local
    BY DEF ProbeStageInv, BaselineInv, Done
  <2>2. ops[probe.rows[1]].fp \in Nat
    <3>1. ops \in Seq(Operation) /\ probe.rows[1] \in DOMAIN ops
      BY <2>1, Worker DEF Completed, Known
    <3>2. ops[probe.rows[1]] \in Operation
      BY <3>1
    <3> QED BY <3>2 DEF Operation
  <2> QED BY <1>1, <2>1, <2>2 DEF BaselineInv, Completed
<1>5. RenewalInv(p)'
  BY <1>1, <1>3 DEF RenewalInv, UploadInv, Done, BeforeUpload, AfterUpload, ConfirmedSteps,
                    AuditSteps
<1>6. RestoredInv(p)'
  BY <1>1 DEF RestoredInv, Done
<1> QED BY <1>2, <1>4, <1>5, <1>6 DEF ProbeStageInv

\* The row of a publication, with the leaf it is to publish.
LEMMA RowStarts ==
    ASSUME Known, TerminalKept, LeavesStay, NEW p \in Process, ProbeStageInv(p),
           probe.stage \in {1, 2}, Start(p), GoesOn(p, "getCertificate"), UNCHANGED probe
    PROVE  ProbeStageInv(p)'
<1>1. /\ UNCHANGED <<oci, net, local>> /\ proc[p].pc = "start" /\ proc'[p].pc = "getCertificate"
      /\ proc[p].cmd \in {"PUBLISH", "RENEW"} /\ probe.rows[probe.stage] = Len(ops) + 1
  BY CallsAreCommands DEF Start, GoesOn, ProbeStageInv, StageShape
<1>2. proc'[p].op = Len(ops) + 1
  <2>1. proc \in [Process -> ProcessState] /\ ~Exit(p)
    BY <1>1, IdleState DEF Known, Inv, TypeInv, TypeOK, Exit, Become
  <2> QED BY <2>1 DEF Start, Become, ProcessState
<1>3. StageShape(p)'
  BY <1>1, <1>2, ShapeKept, CallLabels DEF ProbeStageInv, CallSteps, PublishSteps
<1>4. \A stage \in {1, 2, 4} : Done(p, stage)' => Done(p, stage)
  BY <1>1 DEF Done, AuditSteps
<1>5. UploadInv(p) => UploadInv(p)'
  BY <1>1 DEF UploadInv, BeforeUpload, AfterUpload, ConfirmedSteps, Unknown, Newer
<1>6. RenewalInv(p)'
  <2>1. ~Done(p, 2)'
    BY <1>1 DEF Done, AuditSteps
  <2> QED BY <1>5, <2>1 DEF ProbeStageInv, RenewalInv
<1>7. RestoredInv(p)'
  BY <1>1 DEF RestoredInv, Done
<1> QED BY <1>1, <1>3, <1>4, <1>6, <1>7, EarlierKept DEF ProbeStageInv

\* A publication on its way.
LEMMA PublicationGoesOn ==
    ASSUME Known, ~Lag, TerminalKept, LeavesStay, NEW p \in Process, ProbeStageInv(p),
           probe.stage \in {1, 2}, Reconcile(p), proc[p].pc \in PublishSteps \ {"complete"},
           NEW label \in PublishSteps, GoesOn(p, label), UNCHANGED probe
    PROVE  ProbeStageInv(p)'
<1>1. /\ proc[p].pc \notin {"start", "renew", "rollbackStart"} /\ proc'[p].pc = label
      /\ label \notin {"start", "renew", "rollbackStart"}
      /\ proc[p].cmd \in {"PUBLISH", "RENEW"} /\ probe.rows[probe.stage] = proc[p].op
  BY CallsAreCommands, CallLabels DEF GoesOn, ProbeStageInv, StageShape
<1>2. UNCHANGED local /\ proc'[p].op = proc[p].op
  <2>1. ~Renew(p) /\ ~Start(p) /\ ~Exit(p)
    BY <1>1, IdleState, CallLabels, Worker DEF Renew, Start, Exit, Become, Known, Inv, TypeInv, TypeOK, PublishSteps
  <2>2. UNCHANGED local
    BY <2>1, Zenon DEF Reconcile, GetCertificate, GetCurrent, Reconciled, Find, Upload, PendingUploaded,
           FindUploaded, PendingVerified, Refresh, Promote, Confirm, CurrentConfirmed, Record,
           CloseReconciled, RecordRenewal, Complete, LogStep
  <2> QED BY <2>1, <2>2, KeepsToRow DEF Known
<1>3. StageShape(p)'
  BY <1>1, <1>2, ShapeKept, CallLabels DEF ProbeStageInv, CallSteps
<1>4. \A stage \in {1, 2, 4} : Done(p, stage)' => Done(p, stage)
  BY <1>1, CallLabels DEF Done
<1>5. UploadInv(p) => UploadInv(p)'
  BY UploadAtStep
<1>6. RenewalInv(p)'
  <2>1. ~Done(p, 2)'
    BY <1>1, CallLabels DEF Done
  <2> QED BY <1>5, <2>1 DEF ProbeStageInv, RenewalInv
<1>7. RestoredInv(p)'
  BY DEF RestoredInv, Done
<1> QED BY <1>1, <1>2, <1>3, <1>4, <1>6, <1>7, EarlierKept DEF ProbeStageInv

\* A publication of the probe completes its row, with CURRENT settled.
LEMMA PublicationCompletes ==
    ASSUME Known, TerminalKept, LeavesStay, NEW p \in Process, ProbeStageInv(p),
           probe.stage \in {1, 2}, Complete(p), GoesOn(p, AfterPublication), UNCHANGED probe
    PROVE  ProbeStageInv(p)'
<1>1. /\ UNCHANGED <<oci, net, local>> /\ proc[p].pc = "complete"
      /\ proc'[p].pc \in {"return", "auditStart"}
      /\ proc[p].cmd = Calls[probe.stage] /\ proc[p].cmd \in {"PUBLISH", "RENEW"}
      /\ probe.rows[probe.stage] = proc[p].op
  BY LiveProbeAssumption, CallsAreCommands
     DEF Complete, LogStep, GoesOn, ProbeStageInv, StageShape, AfterPublication, AfterAudit,
         PublishSteps
<1>2. /\ proc[p].op \in DOMAIN ops /\ ops[proc[p].op].type = proc[p].cmd
      /\ ops[proc[p].op].fp = local /\ proc[p].version \in Nat /\ ops \in Seq(Operation)
      /\ local \in Nat
  BY <1>1, Worker, ProcessFields DEF Known, OwnRow, PublishSteps
<1>3. ASSUME NEW id, id = proc[p].op, NEW type, type = proc[p].cmd
      PROVE  Completed(id, type)' /\ ops'[id].fp = local
  <2>1. ops' = Transition(ops, id, "COMPLETED", proc[p].version, Null) /\ id \in DOMAIN ops
    BY <1>2, <1>3 DEF Complete, LogStep
  <2>2. Keeps(ops, ops') /\ Len(ops') = Len(ops) /\ ops'[id].state = "COMPLETED"
    BY <1>2, <2>1, StateNames, OperationTransitioned
  <2>3. id \in DOMAIN ops' /\ ops'[id].type = type /\ ops'[id].fp = local
    BY <1>2, <1>3, <2>1, <2>2 DEF Keeps
  <2> QED BY <2>2, <2>3 DEF Completed
<1>4. StageShape(p)'
  <2>1. /\ proc'[p].pc \in CallSteps(proc[p].cmd)
        /\ proc'[p].pc \notin PublishSteps \union RollbackSteps \union
                            {"start", "renew", "rollbackStart"}
    BY <1>1, CallLabels DEF CallSteps
  <2> QED BY <1>1, <2>1, ShapeKept DEF ProbeStageInv, GoesOn
<1>5. CASE probe.stage = 1
  <2>1. BaselineInv(p)'
    <3>1. PICK id : id = proc[p].op /\ id = probe.rows[1]
      BY <1>1, <1>5
    <3>2. Completed(id, "PUBLISH")' /\ ops'[id].fp = local
      BY <1>1, <1>3, <1>5, <3>1, CallsAreCommands
    <3>3. probe'.stage = 1 /\ probe'.rows[1] = id /\ local' = local
      BY <1>1, <1>5, <3>1
    <3> QED BY <1>2, <3>2, <3>3 DEF BaselineInv
  <2> QED BY <1>1, <1>4, <1>5, <2>1 DEF ProbeStageInv, RenewalInv, RestoredInv, Done
<1>6. CASE probe.stage = 2
  <2>1. Settled'
    BY <1>1, <1>6 DEF ProbeStageInv, RenewalInv, UploadInv, ConfirmedSteps, Settled, OnCurrent,
                      Quiet
  <2>2. RenewalInv(p)'
    <3>1. PICK id : id = proc[p].op /\ id = probe.rows[2]
      BY <1>1, <1>6
    <3>2. Completed(id, "RENEW")' /\ ops'[id].fp = local
      BY <1>1, <1>3, <1>6, <3>1, CallsAreCommands
    <3>3. probe'.stage = 2 /\ probe'.rows[2] = id /\ local' = local
      BY <1>1, <1>6, <3>1
    <3>4. UploadInv(p)'
      BY <1>1 DEF UploadInv, BeforeUpload, AfterUpload, ConfirmedSteps
    <3> QED BY <2>1, <3>2, <3>3, <3>4 DEF RenewalInv
  <2>3. BaselineInv(p)'
    <3>1. Done(p, 1)
      BY <1>6 DEF Done
    <3>2. /\ Completed(probe.rows[1], "PUBLISH") /\ ops[probe.rows[1]].fp < local
          /\ ops[probe.rows[1]].fp <= local
      BY <1>1, <1>6, <3>1 DEF ProbeStageInv, BaselineInv
    <3>3. PICK id : id = probe.rows[1]
      OBVIOUS
    <3>4. Completed(id, "PUBLISH")' /\ ops'[id] = ops[id]
      BY <3>2, <3>3, CompletedKept
    <3>5. probe'.rows[1] = id /\ local' = local
      BY <1>1, <3>3
    <3> QED BY <3>2, <3>3, <3>4, <3>5 DEF BaselineInv
  <2> QED BY <1>1, <1>4, <1>6, <2>2, <2>3 DEF ProbeStageInv, RestoredInv, Done
<1> QED BY <1>5, <1>6

\* The rollback of the probe begins with CURRENT settled.
LEMMA RollbackStarts ==
    ASSUME Known, TerminalKept, LeavesStay, NEW p \in Process, ProbeStageInv(p),
           probe.stage = 4, RollbackStart(p), GoesOn(p, "previousVersion"), UNCHANGED probe
    PROVE  ProbeStageInv(p)'
<1>1. /\ UNCHANGED <<oci, net, local>> /\ proc[p].pc = "rollbackStart"
      /\ proc'[p].pc = "previousVersion"
      /\ proc[p].cmd = "ROLLBACK" /\ probe.rows[4] = Len(ops) + 1
  BY CallsAreCommands DEF RollbackStart, GoesOn, ProbeStageInv, StageShape
<1>2. proc'[p].op = Len(ops) + 1
  <2>1. proc \in [Process -> ProcessState]
    BY DEF Known, Inv, TypeInv, TypeOK
  <2> QED BY <2>1 DEF RollbackStart, Become, ProcessState
<1>3. StageShape(p)'
  BY <1>1, <1>2, ShapeKept, CallLabels DEF ProbeStageInv, CallSteps, RollbackSteps
<1>4. \A stage \in {1, 2, 4} : Done(p, stage)' => Done(p, stage)
  BY <1>1 DEF Done, AuditSteps
<1>5. Settled'
  BY <1>1 DEF ProbeStageInv, RestoredInv, Settled, OnCurrent, Quiet
<1>6. RenewalInv(p)'
  BY <1>1, <1>4, EarlierKept DEF RenewalInv
<1>7. RestoredInv(p)'
  BY <1>1, <1>5 DEF RestoredInv, Done, AuditSteps
<1> QED BY <1>1, <1>3, <1>4, <1>6, <1>7, EarlierKept DEF ProbeStageInv

\* The version that the rollback goes back to is not the renewed one.
LEMMA PreviousIsOlder ==
    ASSUME Known, Settled, NEW p \in Process, PreviousVersion(p), ~Exit(p)
    PROVE  /\ proc'[p].version \in DOMAIN oci.versions
           /\ oci.versions[proc'[p].version] < local
<1>1. PICK v \in Restorable(p) :
         Become(p, [proc[p] EXCEPT !.pc = "rollbackEtag", !.version = v,
                                   !.fp = oci.versions[v]])
  BY DEF PreviousVersion
<1>2. proc'[p].version = v
  BY <1>1 DEF Become, Known, Inv, TypeInv, TypeOK, ProcessState
<1>3. v = oci.previous /\ v \in DOMAIN oci.versions /\ oci.current \in DOMAIN oci.versions
  BY <1>1, CertificateFacts DEF Restorable, Known, ImportInv, NoLag
<1>4. v # oci.current /\ oci.versions[oci.current] = local
  BY <1>3 DEF Settled, OnCurrent
<1>5. oci.versions[v] \in Nat /\ oci.versions[v] <= local /\ local \in Nat
  BY <1>3, CertificateFacts DEF Known, ImportInv
<1>6. oci.versions[v] # oci.versions[oci.current]
  BY <1>3, <1>4, CertificateFacts DEF Known, ImportInv, NoDuplicateVersion
<1> QED BY <1>2, <1>3, <1>4, <1>5, <1>6

\* The rollback on its way.
LEMMA RollbackGoesOn ==
    ASSUME Known, TerminalKept, LeavesStay, NEW p \in Process, ProbeStageInv(p),
           probe.stage = 4, Rollback(p), proc[p].pc \in RollbackSteps \ {"rollbackComplete"},
           NEW label \in RollbackSteps \ {"previousVersion"}, GoesOn(p, label), UNCHANGED probe
    PROVE  ProbeStageInv(p)'
<1>1. /\ proc[p].pc \notin {"start", "renew", "rollbackStart"} /\ proc'[p].pc = label
      /\ label \notin {"start", "renew", "rollbackStart"}
      /\ proc[p].cmd = "ROLLBACK" /\ probe.rows[4] = proc[p].op
  BY CallsAreCommands, CallLabels DEF GoesOn, ProbeStageInv, StageShape
<1>2. /\ UNCHANGED local /\ proc'[p].op = proc[p].op /\ ~Exit(p)
      /\ PreviousVersion(p) \/ proc'[p].version = proc[p].version
  <2>1. ~RollbackStart(p) /\ ~Exit(p)
    BY <1>1, IdleState, Worker DEF RollbackStart, Exit, Become, Known, Inv, TypeInv, TypeOK, RollbackSteps
  <2>2. UNCHANGED local
    BY Zenon DEF Rollback, RollbackStart, PreviousVersion, RollbackEtag, RollbackReconciled,
           Restore, RollbackConfirm, RollbackConfirmed, RecordRollback, RollbackAuditPending,
           RollbackAudit, RollbackComplete, LogStep
  <2> QED BY <2>1, <2>2, KeepsToRow DEF Known
<1>3. StageShape(p)'
  BY <1>1, <1>2, ShapeKept, CallLabels DEF ProbeStageInv, CallSteps
<1>4. \A stage \in {1, 2, 4} : Done(p, stage)' => Done(p, stage)
  BY <1>1, CallLabels DEF Done
<1>5. /\ proc'[p].version \in DOMAIN oci'.versions
      /\ oci'.versions[proc'[p].version] < local'
  <2>1. CASE PreviousVersion(p)
    BY <1>2, <2>1, PreviousIsOlder DEF PreviousVersion, ProbeStageInv, RestoredInv, LeavesStay
  <2>2. CASE ~PreviousVersion(p)
    <3>1. proc[p].pc # "previousVersion"
      BY <2>2, Zenon DEF Rollback, RollbackStart, RollbackEtag, RollbackReconciled,
             Restore, RollbackConfirm, RollbackConfirmed, RecordRollback, RollbackAuditPending,
             RollbackAudit, RollbackComplete, LogStep
    <3>2. proc[p].version \in DOMAIN oci.versions /\ oci.versions[proc[p].version] < local
      BY <3>1 DEF ProbeStageInv, RestoredInv
    <3> QED BY <1>2, <2>2, <3>2 DEF LeavesStay
  <2> QED BY <2>1, <2>2
<1>6. RenewalInv(p)'
  BY <1>1, <1>2, <1>4, EarlierKept DEF RenewalInv
<1>7. RestoredInv(p)'
  BY <1>1, <1>5, CallLabels DEF RestoredInv, Done
<1> QED BY <1>1, <1>2, <1>3, <1>4, <1>6, <1>7, EarlierKept DEF ProbeStageInv

\* The rollback completes its row, which names the version restored.
LEMMA RollbackCompletes ==
    ASSUME Known, TerminalKept, LeavesStay, NEW p \in Process, ProbeStageInv(p),
           probe.stage = 4, RollbackComplete(p), GoesOn(p, "return"), UNCHANGED probe
    PROVE  ProbeStageInv(p)'
<1>1. /\ UNCHANGED <<oci, net, local>> /\ proc[p].pc = "rollbackComplete"
      /\ proc'[p].pc = "return" /\ proc[p].cmd = "ROLLBACK"
      /\ probe.rows[4] = proc[p].op
  BY CallsAreCommands
     DEF RollbackComplete, LogStep, GoesOn, ProbeStageInv, StageShape, RollbackSteps
<1>2. /\ proc[p].op \in DOMAIN ops /\ ops[proc[p].op].type = "ROLLBACK"
      /\ proc[p].version \in Nat /\ ops \in Seq(Operation)
      /\ proc[p].version \in DOMAIN oci.versions /\ proc[p].version # Null
      /\ oci.versions[proc[p].version] < local
  BY <1>1, Worker, ProcessFields, CertificateFacts
     DEF Known, OwnRow, RollbackSteps, ProbeStageInv, RestoredInv, Null
<1>3. PICK id : id = proc[p].op /\ id = probe.rows[4]
  BY <1>1
<1>4. Completed(id, "ROLLBACK")' /\ ops'[id].version = proc[p].version
  <2>1. ops' = Transition(ops, id, "COMPLETED", proc[p].version, Null) /\ id \in DOMAIN ops
    BY <1>2, <1>3 DEF RollbackComplete, LogStep
  <2>2. /\ Keeps(ops, ops') /\ Len(ops') = Len(ops) /\ ops'[id].state = "COMPLETED"
        /\ ops'[id].version = proc[p].version
    BY <1>2, <2>1, StateNames, OperationTransitioned
  <2>3. id \in DOMAIN ops' /\ ops'[id].type = "ROLLBACK"
    BY <1>2, <1>3, <2>1, <2>2 DEF Keeps
  <2> QED BY <2>2, <2>3 DEF Completed
<1>5. StageShape(p)'
  <2>1. /\ "return" \in CallSteps(proc[p].cmd)
        /\ "return" \notin PublishSteps \union RollbackSteps \union
                            {"start", "renew", "rollbackStart"}
    BY <1>1, CallLabels DEF CallSteps
  <2> QED BY <2>1, ShapeKept DEF ProbeStageInv
<1>6. RestoredInv(p)'
  <2>1. probe'.rows[4] = id /\ local' = local /\ oci' = oci
    BY <1>1, <1>3
  <2> QED BY <1>1, <1>2, <1>4, <2>1, CallLabels DEF RestoredInv
<1>7. RenewalInv(p)'
  <2>1. Done(p, 2)
    BY DEF Done
  <2>2. Completed(probe.rows[2], "RENEW") /\ ops[probe.rows[2]].fp = local
    BY <2>1 DEF ProbeStageInv, RenewalInv
  <2>3. Completed(probe.rows[2], "RENEW")' /\ ops'[probe'.rows[2]].fp = local'
    BY <1>1, <2>2, CompletedKept
  <2> QED BY <2>3 DEF RenewalInv
<1>8. BaselineInv(p)'
  <2>1. Done(p, 1)
    BY DEF Done
  <2>2. /\ Completed(probe.rows[1], "PUBLISH") /\ ops[probe.rows[1]].fp <= local
        /\ ops[probe.rows[1]].fp < local
    BY <1>1, <2>1 DEF ProbeStageInv, BaselineInv
  <2>3. /\ Completed(probe.rows[1], "PUBLISH")' /\ ops'[probe'.rows[1]].fp <= local'
        /\ ops'[probe'.rows[1]].fp < local'
    BY <1>1, <2>2, CompletedKept
  <2> QED BY <2>3 DEF BaselineInv
<1> QED BY <1>5, <1>6, <1>7, <1>8 DEF ProbeStageInv

\* An audit leaves what it audits.
LEMMA AuditGoesOn ==
    ASSUME Known, TerminalKept, LeavesStay, NEW p \in Process, ProbeStageInv(p),
           probe.stage \in 1..5, probe.stage # 4, Audit(p),
           proc[p].pc \in AuditSteps \union {"auditStart"},
           NEW label \in AuditSteps \union {"return"}, GoesOn(p, label), UNCHANGED probe
    PROVE  ProbeStageInv(p)'
<1>1. /\ UNCHANGED <<oci, net, local>> /\ proc'[p].pc = label
      /\ label \notin PublishSteps \union RollbackSteps \union {"start", "renew", "rollbackStart"}
      /\ proc[p].pc \notin {"start", "renew", "rollbackStart"}
  <2>1. UNCHANGED <<oci, net, local>>
    BY Zenon DEF Audit, AuditStart, AuditPending, AuditBundle, AuditFails, AuditSucceeds,
           RecordAudit, AuditComplete, CloseAudits, LogStep
  <2> QED BY <2>1, CallLabels DEF GoesOn, StartSteps
<1>2. StageShape(p)'
  <2>1. label \in CallSteps(proc[p].cmd)
    BY CallsAreCommands DEF ProbeStageInv, StageShape, CallSteps
  <2> QED BY <1>1, <2>1, ShapeKept DEF ProbeStageInv
<1>3. \A stage \in {1, 2, 4} : Done(p, stage)' => Done(p, stage)
  BY DEF Done
<1>4. RenewalInv(p)'
  <2>1. ~(label \in BeforeUpload \union AfterUpload \union ConfirmedSteps)
    BY <1>1 DEF BeforeUpload, AfterUpload, ConfirmedSteps, PublishSteps
  <2>2. UploadInv(p)'
    BY <1>1, <2>1 DEF UploadInv
  <2>3. (Done(p, 2) /\ probe.stage <= 3 => Settled)'
    BY <1>1, <1>3 DEF ProbeStageInv, RenewalInv, Settled, OnCurrent, Quiet
  <2> QED BY <1>1, <1>3, <2>2, <2>3, EarlierKept DEF RenewalInv
<1>5. RestoredInv(p)'
  BY <1>1, <1>3, EarlierKept DEF RestoredInv
<1> QED BY <1>1, <1>2, <1>3, <1>4, <1>5, EarlierKept DEF ProbeStageInv

\* A step of the call in progress.
LEMMA WorkKeeps ==
    ASSUME Known, AtWork, OpenRows, ~Lag, ~AutomaticRollback, NEW p \in Process, WorkForced(p),
           ProbeStageInv(p), lock' # Free, ServiceStep
    PROVE  lock' = p /\ UNCHANGED <<probe, evidence>> /\ ProbeStageInv(p)'
<1>1. TerminalKept /\ LeavesStay
  BY ServiceKnown, LeavesAreKept
<1>2. StageShape(p) /\ lock = p
  BY DEF ProbeStageInv, WorkForced, Probing
<1>3. \A label : GoesOn(p, label) => lock' = p
  BY <1>2 DEF GoesOn
<1> QED BY <1>1, <1>2, <1>3, WorkCases, RenewalIssues, RowStarts, PublicationGoesOn,
           PublicationCompletes, RollbackStarts, RollbackGoesOn, RollbackCompletes, AuditGoesOn

\* A call begins with what the earlier ones have reached.
LEMMA CallBegins ==
    ASSUME Known, AtWork, NEW p \in Process, Probing(p), probe.stage < Len(Calls), Call(p),
           proc[p].pc = "return", ProbeStageInv(p),
           UNCHANGED <<oci, net, ops, local>>
    PROVE  ProbeStageInv(p)'
<1>1. /\ probe.stage \in 1..4
      /\ proc'[p] = Fresh(Calls[probe.stage + 1])
      /\ probe' = [stage |-> probe.stage + 1, rows |-> Append(probe.rows, Len(ops) + 1)]
  BY ProbeCalls, CallsAreCommands DEF Known, AtWork, Probing
<1>2. /\ probe'.stage = probe.stage + 1 /\ probe'.rows = Append(probe.rows, Len(ops) + 1)
      /\ probe.rows \in Seq(Nat) /\ Len(probe.rows) = probe.stage /\ Len(ops) + 1 \in Nat
  <2>1. ops \in Seq(Operation)
    BY Worker DEF Known
  <2> QED BY <1>1, <2>1, CallsAreCommands DEF ProbeStageInv, StageShape
<1>3. /\ probe' \in [stage : Nat, rows : Seq(Nat)] /\ Len(probe'.rows) = probe'.stage
      /\ probe'.rows[probe'.stage] = Len(ops) + 1
      /\ \A stage \in 1..probe.stage : probe'.rows[stage] = probe.rows[stage]
  BY <1>1, <1>2
<1>4. /\ proc'[p].cmd = Calls[probe'.stage]
      /\ probe'.stage = 2 => proc'[p].pc = "renew"
      /\ probe'.stage \in {3, 5} => proc'[p].pc = "auditStart"
      /\ probe'.stage = 4 => proc'[p].pc = "rollbackStart"
  BY <1>1, <1>2, CallsAreCommands, FreshState DEF FirstStep
<1>5. StageShape(p)'
  <2>1. probe'.stage \in 2..5 /\ probe'.stage <= Len(Calls)
    BY <1>1, <1>2, CallsAreCommands
  <2>2. proc'[p].pc \in CallSteps(proc'[p].cmd)
    BY <1>4, <2>1, CallsAreCommands DEF CallSteps
  <2>3. proc'[p].pc \notin PublishSteps \union RollbackSteps
    BY <1>4, <2>1, CallLabels
  <2> QED BY <1>3, <1>4, <2>1, <2>2, <2>3, CallsAreCommands DEF StageShape
<1>6. \A stage \in {1, 2, 4} : Done(p, stage)' => Done(p, stage) /\ stage \in 1..probe.stage
  <2>1. proc'[p].pc = "auditStart" => probe'.stage \in {3, 5}
    BY <1>1, <1>2, <1>4
  <2>2. probe'.stage \in {2, 4} => proc'[p].pc \notin AuditSteps \union {"auditStart", "return"}
    BY <1>4, CallLabels
  <2> QED BY <1>1, <1>2, <2>1, <2>2 DEF Done
<1>7. BaselineInv(p)'
  <2>1. /\ Completed(probe.rows[1], "PUBLISH") /\ ops[probe.rows[1]].fp <= local
        /\ probe.stage # 1 => ops[probe.rows[1]].fp < local
    BY <1>1 DEF ProbeStageInv, BaselineInv, Done
  <2>2. probe'.rows[1] = probe.rows[1] /\ (probe.stage = 1 => proc'[p].pc = "renew")
    BY <1>1, <1>2, <1>3, <1>4
  <2> QED BY <2>1, <2>2 DEF BaselineInv, Completed
<1>8. RenewalInv(p)'
  <2>1. probe'.stage = 2 => UploadInv(p)'
    BY <1>4 DEF UploadInv, BeforeUpload, AfterUpload, ConfirmedSteps
  <2>2. ASSUME Done(p, 2)'
        PROVE  /\ Completed(probe.rows[2], "RENEW") /\ ops[probe.rows[2]].fp = local
               /\ probe'.rows[2] = probe.rows[2]
               /\ probe'.stage <= 3 => Settled
    BY <1>1, <1>2, <1>3, <1>6, <2>2 DEF ProbeStageInv, RenewalInv
  <2> QED BY <2>1, <2>2 DEF RenewalInv, Completed, Settled, OnCurrent, Quiet
<1>9. RestoredInv(p)'
  <2>1. probe'.stage = 4 => Settled /\ proc'[p].pc \notin RollbackSteps
    BY <1>1, <1>2, <1>4, CallLabels DEF ProbeStageInv, RenewalInv, Done
  <2>2. ASSUME Done(p, 4)'
        PROVE  /\ Completed(probe.rows[4], "ROLLBACK")
               /\ ops[probe.rows[4]].version \in DOMAIN oci.versions
               /\ oci.versions[ops[probe.rows[4]].version] < local
               /\ probe'.rows[4] = probe.rows[4]
    BY <1>3, <1>6, <2>2 DEF ProbeStageInv, RestoredInv
  <2> QED BY <2>1, <2>2 DEF RestoredInv, Completed, Settled, OnCurrent, Quiet
<1> QED BY <1>5, <1>7, <1>8, <1>9 DEF ProbeStageInv

\* The probe turns to its evidence when the last call has ended.
LEMMA EvidenceOpens ==
    ASSUME NEW p \in Process, proc[p].pc = "return", ProbeStageInv(p),
           probe.stage \in {5, 6}, probe' = [probe EXCEPT !.stage = probe.stage + 1],
           UNCHANGED <<oci, net, ops, local, proc>>
    PROVE  ProbeStageInv(p)'
<1>1. /\ probe \in [stage : Nat, rows : Seq(Nat)] /\ Len(probe.rows) = 5
      /\ probe'.stage \in {6, 7} /\ probe'.stage = probe.stage + 1 /\ probe'.rows = probe.rows
      /\ probe' \in [stage : Nat, rows : Seq(Nat)]
  BY CallsAreCommands DEF ProbeStageInv, StageShape
<1>2. StageShape(p)'
  BY <1>1, CallsAreCommands, CallLabels DEF StageShape
<1>3. \A stage \in {1, 2, 4} : Done(p, stage) /\ Done(p, stage)'
  BY <1>1 DEF Done
<1>4. BaselineInv(p)'
  BY <1>1, <1>3 DEF ProbeStageInv, BaselineInv, Completed
<1>5. RenewalInv(p)'
  BY <1>1, <1>3 DEF ProbeStageInv, RenewalInv, Completed
<1>6. RestoredInv(p)'
  BY <1>1, <1>3 DEF ProbeStageInv, RestoredInv, Completed
<1> QED BY <1>2, <1>4, <1>5, <1>6 DEF ProbeStageInv

\* What is written is true.
LEMMA EvidenceIsTrue ==
    ASSUME Known, NEW p \in Process, Probing(p), ProbeStageInv(p), WriteEvidence(p)
    PROVE  \A v \in {evidence'.initial, evidence'.restored} :
              /\ {v, evidence'.promoted} \subseteq DOMAIN oci'.versions
              /\ oci'.versions[v] < oci'.versions[evidence'.promoted]
<1>1. /\ evidence'.initial = VersionOf(1) /\ evidence'.promoted = VersionOf(2)
      /\ evidence'.restored = VersionOf(4) /\ oci' = oci /\ probe.stage = 7
  BY CallsAreCommands DEF WriteEvidence
<1>2. /\ Done(p, 1) /\ Done(p, 2) /\ Done(p, 4) /\ proc[p].pc = "return" /\ probe.stage # 1
  BY <1>1, CallsAreCommands DEF Done, ProbeStageInv, StageShape
<1>3. /\ Completed(probe.rows[1], "PUBLISH") /\ ops[probe.rows[1]].fp < local
      /\ Completed(probe.rows[2], "RENEW") /\ ops[probe.rows[2]].fp = local
      /\ VersionOf(4) \in DOMAIN oci.versions /\ oci.versions[VersionOf(4)] < local
  BY <1>2 DEF ProbeStageInv, BaselineInv, RenewalInv, RestoredInv, VersionOf
<1>4. \A id, type : Completed(id, type) /\ type \in {"PUBLISH", "RENEW"} =>
         /\ ops[id].version \in DOMAIN oci.versions
         /\ oci.versions[ops[id].version] = ops[id].fp
  BY DEF Known, Inv, CompletedIsTruthful, Completed, Publishing
<1>5. /\ VersionOf(1) \in DOMAIN oci.versions /\ oci.versions[VersionOf(1)] < local
      /\ VersionOf(2) \in DOMAIN oci.versions /\ oci.versions[VersionOf(2)] = local
  BY <1>3, <1>4 DEF VersionOf
<1> QED BY <1>1, <1>3, <1>5

\* The evidence stays true, and the probe ends or goes on.
LEMMA FileKept ==
    ASSUME FileInv, LeavesStay, UNCHANGED evidence
    PROVE  FileInv'
BY DEF FileInv, LeavesStay

LEMMA ProbeEnds ==
    ASSUME FileInv', probe' = NoProbe
    PROVE  EvidenceInv'
BY DEF EvidenceInv, NoProbe, Probing

LEMMA ProbeGoesOn ==
    ASSUME FileInv', NEW p \in Process, lock' = p, probe'.stage # 0, ProbeStageInv(p)'
    PROVE  EvidenceInv'
BY DEF EvidenceInv, Probing

\* The first call begins with nothing.
LEMMA ProbeHasBegun ==
    ASSUME Known, AtWork, EvidenceInv, NEW p \in Process, BeginProbe(p)
    PROVE  ProbeStageInv(p)' /\ lock' = p /\ probe'.stage # 0
<1>1. /\ proc'[p] = Fresh("PUBLISH") /\ probe.rows = << >> /\ lock' = p
      /\ probe' = [stage |-> 1, rows |-> Append(probe.rows, Len(ops) + 1)]
      /\ UNCHANGED ops
  BY ProbeBegins DEF Known, BeginProbe, EvidenceInv, NoProbe
<1>2. Len(ops) + 1 \in Nat
  <2>1. ops \in Seq(Operation)
    BY Worker DEF Known
  <2> QED BY <2>1
<1>3. /\ probe' = [stage |-> 1, rows |-> <<Len(ops) + 1>>]
      /\ probe' \in [stage : Nat, rows : Seq(Nat)] /\ Len(probe'.rows) = 1
      /\ probe'.stage = 1 /\ probe'.rows[1] = Len(ops) + 1
  BY <1>1, <1>2
<1>4. proc'[p].pc = "start" /\ proc'[p].cmd = "PUBLISH"
  BY <1>1, FreshState DEF FirstStep, AllCommands
<1>5. StageShape(p)'
  BY <1>1, <1>3, <1>4, CallsAreCommands, CallLabels DEF StageShape, CallSteps
<1>6. \A stage \in {1, 2, 4} : ~Done(p, stage)'
  BY <1>3, <1>4, CallLabels DEF Done
<1> QED BY <1>1, <1>3, <1>5, <1>6
        DEF ProbeStageInv, BaselineInv, RenewalInv, RestoredInv

\* What the probe has reached survives what happens outside.
LEMMA StageInEnvironment ==
    ASSUME Known, OpenRows, ~Lag, Environment, ServiceStep, UNCHANGED probe, NEW p \in Process,
           ProbeStageInv(p)
    PROVE  ProbeStageInv(p)' /\ UNCHANGED lock
<1>1. UNCHANGED <<ops, local, lock, proc>>
  BY DEF Environment, ArriveLate, ListingSettles, RetrievalSettles, Expire
<1>2. /\ LeavesStay
      /\ (Unknown => Unknown') /\ (Settling => Settling') /\ (Settled => Settled')
  BY LeavesAreKept, UploadInEnvironment
<1>3. StageShape(p)' /\ BaselineInv(p)'
  BY <1>1 DEF ProbeStageInv, StageShape, BaselineInv, Done, Completed
<1>4. RenewalInv(p)'
  BY <1>1, <1>2 DEF ProbeStageInv, RenewalInv, UploadInv, Done, Completed
<1>5. RestoredInv(p)'
  BY <1>1, <1>2 DEF ProbeStageInv, RestoredInv, Done, Completed, LeavesStay
<1> QED BY <1>1, <1>3, <1>4, <1>5 DEF ProbeStageInv

\* Every step of a probe, and of the commands before it, keeps the evidence.
LEMMA EvidenceStep ==
    ASSUME Known, OpenRows, AtWork, EvidenceInv, ~Lag, ~AutomaticRollback,
           [ProbeNext]_probeVars
    PROVE  EvidenceInv'
<1>1. ServiceStep /\ LeavesStay /\ TerminalKept
  BY ProbeServes, LeavesAreKept, ServiceKnown DEF Known
<1>2. UNCHANGED evidence => FileInv'
  BY <1>1, FileKept DEF EvidenceInv
<1>3. \A p \in Process : Probing(p) => ProbeStageInv(p) /\ lock = p /\ probe.stage # 0
  BY DEF EvidenceInv, Probing
<1>4. ASSUME NEW p \in Process, BeginProbe(p)
      PROVE  EvidenceInv'
  BY <1>2, <1>4, ProbeHasBegun, ProbeGoesOn DEF BeginProbe
<1>5. ASSUME NEW p \in Process, WorkForced(p)
      PROVE  EvidenceInv'
  <2>1. Probing(p) /\ UNCHANGED evidence /\ ProbeContinues
    BY <1>5 DEF WorkForced
  <2>2. CASE lock' = Free
    BY <1>2, <2>1, <2>2, ProbeEnds DEF ProbeContinues
  <2>3. CASE lock' # Free
    <3>1. lock' = p /\ UNCHANGED probe /\ ProbeStageInv(p)'
      BY <1>1, <1>3, <1>5, <2>1, <2>3, WorkKeeps
    <3> QED BY <1>2, <1>3, <2>1, <3>1, ProbeGoesOn
  <2> QED BY <2>2, <2>3
<1>6. ASSUME NEW p \in Process, NextCall(p)
      PROVE  EvidenceInv'
  <2>1. /\ Probing(p) /\ ProbeStageInv(p) /\ lock = p /\ proc[p].pc = "return"
        /\ UNCHANGED <<oci, net, ops, local, evidence>>
        /\ \/ probe' = NoProbe
           \/ probe.stage < Len(Calls) /\ Call(p) /\ UNCHANGED lock
           \/ /\ probe.stage = Len(Calls) /\ probe' = [probe EXCEPT !.stage = OpenStage]
              /\ UNCHANGED <<proc, lock>>
    BY <1>3, <1>6 DEF NextCall
  <2>2. CASE probe' = NoProbe
    BY <1>2, <2>1, <2>2, ProbeEnds
  <2>3. CASE probe.stage < Len(Calls) /\ Call(p) /\ UNCHANGED lock
    <3>1. ProbeStageInv(p)'
      BY <2>1, <2>3, CallBegins
    <3>2. probe'.stage = probe.stage + 1 /\ probe'.stage # 0
      BY <2>1, <2>3, ProbeCalls DEF Known
    <3> QED BY <1>2, <2>1, <2>3, <3>1, <3>2, ProbeGoesOn
  <2>4. CASE /\ probe.stage = Len(Calls) /\ probe' = [probe EXCEPT !.stage = OpenStage]
             /\ UNCHANGED <<proc, lock>>
    <3>1. /\ probe.stage = 5 /\ probe' = [probe EXCEPT !.stage = probe.stage + 1]
          /\ probe'.stage # 0
      BY <2>1, <2>4, CallsAreCommands DEF ProbeStageInv, StageShape
    <3>2. ProbeStageInv(p)'
      BY <2>1, <2>4, <3>1, EvidenceOpens
    <3> QED BY <1>2, <2>1, <2>4, <3>1, <3>2, ProbeGoesOn
  <2> QED BY <2>1, <2>2, <2>3, <2>4
<1>7. ASSUME NEW p \in Process, OpenEvidence(p)
      PROVE  EvidenceInv'
  <2>1. /\ Probing(p) /\ ProbeStageInv(p) /\ lock = p /\ probe.stage = 6
        /\ UNCHANGED <<oci, net, ops, local>>
        /\ \/ probe' = NoProbe /\ UNCHANGED evidence
           \/ /\ evidence.file = "absent" /\ evidence' = [evidence EXCEPT !.file = "partial"]
              /\ probe' = [probe EXCEPT !.stage = WriteStage]
              /\ UNCHANGED <<proc, lock>>
    BY <1>3, <1>7, CallsAreCommands DEF OpenEvidence
  <2>2. CASE probe' = NoProbe /\ UNCHANGED evidence
    BY <1>2, <2>2, ProbeEnds
  <2>3. CASE /\ evidence.file = "absent" /\ evidence' = [evidence EXCEPT !.file = "partial"]
             /\ probe' = [probe EXCEPT !.stage = WriteStage]
             /\ UNCHANGED <<proc, lock>>
    <3>1. evidence'.file \in {"absent", "partial"}
      BY <2>3
    <3>2. FileInv'
      BY <3>1 DEF FileInv
    <3>3. /\ probe' = [probe EXCEPT !.stage = probe.stage + 1] /\ probe'.stage # 0
          /\ proc[p].pc = "return"
      BY <2>1, <2>3, CallsAreCommands DEF ProbeStageInv, StageShape
    <3>4. ProbeStageInv(p)'
      BY <2>1, <2>3, <3>3, EvidenceOpens
    <3> QED BY <2>1, <2>3, <3>2, <3>3, <3>4, ProbeGoesOn
  <2> QED BY <2>1, <2>2, <2>3
<1>8. ASSUME NEW p \in Process, WriteEvidence(p)
      PROVE  EvidenceInv'
  <2>1. Probing(p) /\ ProbeStageInv(p) /\ probe' = NoProbe
    BY <1>3, <1>8 DEF WriteEvidence
  <2>2. FileInv'
    BY <1>8, <2>1, EvidenceIsTrue DEF FileInv
  <2> QED BY <2>1, <2>2, ProbeEnds
<1>9. ASSUME NEW p \in Process, OtherCommand(p)
      PROVE  EvidenceInv'
  BY <1>2, <1>9, ProbeEnds DEF OtherCommand, EvidenceInv
<1>10. CASE Environment /\ UNCHANGED <<auditVars, probe, evidence>>
  <2>1. UNCHANGED lock
    BY <1>10 DEF Environment, ArriveLate, ListingSettles, RetrievalSettles, Expire
  <2>2. ASSUME NEW p \in Process, Probing(p)'
        PROVE  ProbeStageInv(p)'
    <3>1. ProbeStageInv(p)
      BY <1>10, <2>1, <2>2 DEF EvidenceInv, Probing
    <3> QED BY <1>1, <1>10, <3>1, StageInEnvironment
  <2> QED BY <1>2, <1>10, <2>2 DEF EvidenceInv
<1>11. CASE UNCHANGED <<vars, probe, evidence>>
  <2>1. UNCHANGED <<oci, net, ops, local, lock, proc, probe, evidence>>
    BY <1>11 DEF vars
  <2>2. ASSUME NEW p \in Process, ProbeStageInv(p)
        PROVE  ProbeStageInv(p)'
    <3>1. StageShape(p)' /\ BaselineInv(p)'
      BY <2>1, <2>2 DEF ProbeStageInv, StageShape, BaselineInv, Done, Completed
    <3>2. /\ (Unknown => Unknown') /\ (Settled => Settled')
          /\ (Settling => Settling')
      BY <2>1 DEF Unknown, Newer, Settling, Settled, OnCurrent, Quiet
    <3>3. RenewalInv(p)'
      BY <2>1, <2>2, <3>2 DEF ProbeStageInv, RenewalInv, UploadInv, Done, Completed
    <3>4. RestoredInv(p)'
      BY <2>1, <2>2, <3>2 DEF ProbeStageInv, RestoredInv, Done, Completed
    <3> QED BY <3>1, <3>3, <3>4 DEF ProbeStageInv
  <2> QED BY <1>2, <2>1, <2>2 DEF EvidenceInv, Probing
<1>12. AuditNext => UNCHANGED vars
  BY ProbesOnlyWatch
<1> QED BY <1>4, <1>5, <1>6, <1>7, <1>8, <1>9, <1>10, <1>11, <1>12 DEF ProbeNext, probeVars

\* The evidence that qualifies a profile for production is a proof of what
\* staging verify set out to show, whatever was interrupted before, unless
\* the audit of a publication may roll it back by itself.
THEOREM EvidenceIsAProof ==
    ASSUME ~Lag, ~AutomaticRollback PROVE ProbeSpec => []EvidenceIsProof
<1> DEFINE I == Known /\ OpenRows /\ AtWork /\ VerdictInv
           E == EvidenceInv
<1>1. ProbeInit => E
  <2> SUFFICES ASSUME ProbeInit PROVE E
    OBVIOUS
  <2>1. probe = NoProbe /\ evidence.file # "whole"
    BY DEF ProbeInit, NoEvidence
  <2> QED BY <2>1 DEF EvidenceInv, FileInv, Probing, NoProbe
<1>2. I /\ E /\ [ProbeNext]_probeVars => E'
  BY EvidenceStep
<1>3. E => EvidenceIsProof
  BY DEF EvidenceInv, FileInv, EvidenceIsProof
<1> HIDE DEF I, E
<1>4. ProbeSpec => []I
  BY ProbeInvariance DEF I
<1> QED BY <1>1, <1>2, <1>3, <1>4, PTL DEF ProbeSpec
=============================================================================
