---------------------------- MODULE Metrics_proofs ----------------------------
(***************************************************************************)
(* Proofs about Metrics: rows of operations that ended are final, so what  *)
(* metrics.py counts never goes back.                                      *)
(***************************************************************************)
EXTENDS PublicationService_proofs, Metrics, FiniteSetTheorems

(***************************************************************************)
(* Terminal rows are final: a process works on an open row until it closes *)
(* it, and complete_* closes open rows only.  What metrics.py counts are   *)
(* terminal rows.                                                          *)
(***************************************************************************)

\* Steps at which the row of the process is not closed yet.
OpenSteps == PublishSteps \union RollbackSteps \union (AuditSteps \ {"closeAudits"})

OpenRows == \A p \in Process : proc[p].pc \in OpenSteps => proc[p].op \in Active(ops)

\* A terminal row is not touched by the step.
TerminalKept ==
    \A i \in DOMAIN ops :
        ops[i].state \in TerminalStates => i \in DOMAIN ops' /\ ops'[i] = ops[i]

\* The row of a process at work is open after a step of that process.
LEMMA OpenRow ==
    ASSUME Inv, NEW p \in Process, proc[p].pc # "idle" \/ lock = Free,
           NEW r, Become(p, r), r.pc \in OpenSteps => r.op \in Active(ops')
    PROVE  OpenRows'
<1>1. proc \in [Process -> ProcessState] /\ LockInv /\ Free \notin Process
  BY FreeIsNoProcess DEF Inv, TypeInv, TypeOK
<1>2. proc'[p] = r /\ \A q \in Process : q # p => proc'[q] = proc[q] /\ proc[q].pc = "idle"
  BY <1>1 DEF Become, LockInv
<1>3. "idle" \notin OpenSteps
  BY DEF OpenSteps, PublishSteps, RollbackSteps, AuditSteps
<1> QED BY <1>2, <1>3 DEF OpenRows

\* Steps that leave the table alone.
LEMMA TableKept ==
    ASSUME Inv, OpenRows, NEW p \in Process, proc[p].pc # "idle", ops' = ops,
           NEW r, Become(p, r),
           r.pc \in OpenSteps => proc[p].pc \in OpenSteps /\ r.op = proc[p].op
    PROVE  TerminalKept /\ OpenRows'
<1>1. r.pc \in OpenSteps => r.op \in Active(ops')
  BY DEF OpenRows
<1> QED BY <1>1, OpenRow DEF TerminalKept

\* The end of a command.
LEMMA TableAtExit ==
    ASSUME Inv, OpenRows, NEW p \in Process, proc[p].pc # "idle", ops' = ops, Exit(p)
    PROVE  TerminalKept /\ OpenRows'
<1>1. Become(p, Idle) /\ Idle.pc \notin OpenSteps
  BY DEF Exit, Idle, OpenSteps, PublishSteps, RollbackSteps, AuditSteps
<1> QED BY <1>1, TableKept

\* A process that moves on.
LEMMA TableWhenMoved ==
    ASSUME Inv, OpenRows, NEW p \in Process, proc[p].pc # "idle", ops' = ops,
           NEW label, Go(p, label), label \in OpenSteps => proc[p].pc \in OpenSteps
    PROVE  TerminalKept /\ OpenRows'
<1> DEFINE r == [proc[p] EXCEPT !.pc = label]
<1>1. Become(p, r)
  BY DEF Go
<1>2. r.pc = label /\ r.op = proc[p].op
  BY Worker DEF ProcessState
<1> HIDE DEF r
<1> QED BY <1>1, <1>2, TableKept

\* A new row is open.
LEMMA TableGrows ==
    ASSUME Inv, OpenRows, NEW p \in Process, proc[p].pc # "idle",
           NEW type \in OperationType, NEW fp \in Nat,
           ops' = StartOperation(ops, type, fp, Ocid),
           NEW r, Become(p, r), r.op = Len(ops) + 1
    PROVE  TerminalKept /\ OpenRows'
<1> DEFINE n == StartOperation(ops, type, fp, Ocid)
<1>1. ops \in Seq(Operation) /\ Ocid \in Nat
  BY Worker DEF Ocid
<1>2. /\ \A i \in DOMAIN ops : n[i] = ops[i] /\ i \in DOMAIN n
      /\ Len(ops) + 1 \in DOMAIN n /\ n[Len(ops) + 1].state = "DISCOVERED"
  <2>1. /\ Keeps(ops, n) /\ Len(ops) + 1 \in DOMAIN n
        /\ \A i \in DOMAIN ops : n[i] = ops[i]
        /\ n[Len(ops) + 1].state = "DISCOVERED"
    BY <1>1, OperationStarted
  <2> HIDE DEF n
  <2> QED BY <2>1 DEF Keeps
<1> HIDE DEF n
<1>4. ops' = n
  BY DEF n
<1>3. r.op \in Active(ops')
  BY <1>2, <1>4 DEF Active, TerminalStates
<1> QED BY <1>2, <1>3, <1>4, OpenRow DEF TerminalKept

\* A process rewrites its own row, which was open.
LEMMA TableTransitioned ==
    ASSUME Inv, OpenRows, NEW p \in Process, proc[p].pc \in OpenSteps,
           NEW state \in OperationState, NEW version \in Nat,
           ops' = Transition(ops, proc[p].op, state, version, Null),
           NEW r, Become(p, r), r.op = proc[p].op \/ r.pc = "idle",
           state \notin TerminalStates \/ r.pc \notin OpenSteps
    PROVE  TerminalKept /\ OpenRows'
<1>1. /\ ops \in Seq(Operation) /\ proc[p].op \in Active(ops) /\ proc[p].op \in DOMAIN ops
  BY Worker DEF OpenRows, Active
<1> DEFINE id == proc[p].op
<1> HIDE DEF id
<1>2. /\ DOMAIN ops' = DOMAIN ops /\ ops'[id].state = state
      /\ \A i \in DOMAIN ops : i # id => ops'[i] = ops[i]
  BY <1>1, OperationTransitioned DEF Keeps, id
<1>3. TerminalKept
  BY <1>1, <1>2 DEF TerminalKept, Active, id
<1>4. state \notin TerminalStates => id \in Active(ops')
  BY <1>1, <1>2 DEF Active, id
<1>5. proc[p].pc # "idle" /\ "idle" \notin OpenSteps
  BY DEF OpenSteps, PublishSteps, RollbackSteps, AuditSteps
<1> QED BY <1>3, <1>4, <1>5, OpenRow DEF id

\* transition, and the next control point.
LEMMA TableLogged ==
    ASSUME Inv, OpenRows, NEW p \in Process, proc[p].pc \in OpenSteps,
           NEW state \in OperationState, NEW version \in Nat,
           ops' = Transition(ops, proc[p].op, state, version, Null),
           NEW label, Go(p, label),
           state \notin TerminalStates \/ label \notin OpenSteps
    PROVE  TerminalKept /\ OpenRows'
<1> DEFINE r == [proc[p] EXCEPT !.pc = label]
<1>1. Become(p, r)
  BY DEF Go
<1>2. r.pc = label /\ r.op = proc[p].op
  BY Worker DEF ProcessState
<1> HIDE DEF r
<1> QED BY <1>1, <1>2, TableTransitioned

\* complete_*: a row that is not open stays as it is, and so does the row of
\* the process itself.
LEMMA TableClosed ==
    ASSUME Inv, OpenRows, NEW p \in Process, proc[p].pc # "idle", DOMAIN ops' = DOMAIN ops,
           \A i \in DOMAIN ops : i = proc[p].op \/ i \notin Active(ops) => ops'[i] = ops[i],
           NEW label, Go(p, label), label \in OpenSteps => proc[p].pc \in OpenSteps
    PROVE  TerminalKept /\ OpenRows'
<1> DEFINE r == [proc[p] EXCEPT !.pc = label]
<1>1. Become(p, r)
  BY DEF Go
<1>2. r.pc = label /\ r.op = proc[p].op
  BY Worker DEF ProcessState
<1> HIDE DEF r
<1>3. r.pc \in OpenSteps => r.op \in Active(ops')
  BY <1>2 DEF OpenRows, Active
<1> QED BY <1>1, <1>3, OpenRow DEF TerminalKept, Active

\* transition, the end of the command.
LEMMA TableLoggedAtExit ==
    ASSUME Inv, OpenRows, NEW p \in Process, proc[p].pc \in OpenSteps,
           NEW state \in OperationState,
           ops' = Transition(ops, proc[p].op, state, Null, Null), Exit(p)
    PROVE  TerminalKept /\ OpenRows'
<1>1. Become(p, Idle) /\ Idle.pc = "idle" /\ "idle" \notin OpenSteps /\ Null \in Nat
  BY DEF Exit, Idle, Null, OpenSteps, PublishSteps, RollbackSteps, AuditSteps
<1> HIDE DEF Idle
<1> QED BY <1>1, TableTransitioned

\* The process keeps working on the same row, or ends its command.
SameRow(p) ==
    \/ Exit(p)
    \/ /\ proc'[p].op = proc[p].op
       /\ \A q \in Process : q # p => proc'[q] = proc[q]

\* What a step that only reads remembers is not the row it works on.
LEMMA RowRemembered ==
    ASSUME NEW p \in Process, Inv, NEW r, Become(p, r), r.op = proc[p].op
    PROVE  SameRow(p)
BY DEF Inv, TypeInv, TypeOK, Become, SameRow

\* A process that moves on, or changes what it remembers of OCI.
LEMMA LocalsRemembered ==
    ASSUME NEW p \in Process, Inv, NEW label, NEW v, NEW e, NEW a, NEW f, NEW s,
           \/ Become(p, [proc[p] EXCEPT !.pc = label])
           \/ Become(p, [proc[p] EXCEPT !.pc = label, !.etag = e])
           \/ Become(p, [proc[p] EXCEPT !.pc = label, !.version = v])
           \/ Become(p, [proc[p] EXCEPT !.pc = label, !.attempt = a])
           \/ Become(p, [proc[p] EXCEPT !.pc = label, !.version = v, !.fp = f])
    PROVE  SameRow(p)
<1>1. proc[p] \in ProcessState
  BY Worker
<1>2. /\ [proc[p] EXCEPT !.pc = label].op = proc[p].op
      /\ [proc[p] EXCEPT !.pc = label, !.etag = e].op = proc[p].op
      /\ [proc[p] EXCEPT !.pc = label, !.version = v].op = proc[p].op
      /\ [proc[p] EXCEPT !.pc = label, !.attempt = a].op = proc[p].op
      /\ [proc[p] EXCEPT !.pc = label, !.version = v, !.fp = f].op = proc[p].op
  BY <1>1 DEF ProcessState
<1> QED BY <1>2, RowRemembered

\* Steps that leave the table alone, of a process whose row is open.
LEMMA TableRead ==
    ASSUME Inv, OpenRows, NEW p \in Process, proc[p].pc \in OpenSteps, ops' = ops, SameRow(p)
    PROVE  TerminalKept /\ OpenRows'
<1>1. proc[p].pc # "idle"
  BY DEF OpenSteps, PublishSteps, RollbackSteps, AuditSteps
<1>2. CASE Exit(p)
  BY <1>1, <1>2, TableAtExit
<1>3. CASE /\ proc'[p].op = proc[p].op
           /\ \A q \in Process : q # p => proc'[q] = proc[q]
  BY <1>3 DEF OpenRows, TerminalKept
<1> QED BY <1>2, <1>3 DEF SameRow

\* Where commands start, no row is at hand.
LEMMA FirstStepOwnsNoRow ==
    ASSUME NEW cmd \in AllCommands
    PROVE  FirstStep(cmd) \notin OpenSteps
BY DEF AllCommands, FirstStep, OpenSteps, PublishSteps, RollbackSteps, AuditSteps

\* The steps of a publication keep terminal rows.
LEMMA ReconcileTable ==
    ASSUME Inv, OpenRows, NEW p \in Process, Reconcile(p)
    PROVE  TerminalKept /\ OpenRows'
<1>1. /\ proc \in [Process -> ProcessState] /\ proc[p] \in ProcessState
      /\ ops \in Seq(Operation) /\ OwnRow(p) /\ local \in Nat
      /\ proc[p].version \in Nat /\ proc[p].fp \in Nat /\ Null \in Nat
  BY Worker, ProcessFields DEF Inv, TypeInv, TypeOK, Null
<1>2. /\ PublishSteps \subseteq OpenSteps /\ "idle" \notin PublishSteps
      /\ "start" \notin OpenSteps /\ AfterPublication \notin OpenSteps
  BY NextLabels DEF OpenSteps, PublishSteps, RollbackSteps, AuditSteps
<1>3. CASE Renew(p)
  BY <1>2, <1>3, TableAtExit, TableWhenMoved DEF Renew
<1>4. CASE Start(p)
  <2>1. proc[p].pc = "start" /\ proc[p].cmd \in OperationType
    BY <1>1, <1>4 DEF Start, OwnRow, Publishing, OperationType
  <2>2. CASE Exit(p) /\ ops' = ops
    BY <2>1, <2>2, TableAtExit
  <2>3. CASE /\ ops' = StartOperation(ops, proc[p].cmd, local, Ocid)
             /\ Become(p, [proc[p] EXCEPT !.pc = "getCertificate", !.op = Len(ops) + 1,
                                          !.fp = local, !.now = expired])
    <3> DEFINE r == [proc[p] EXCEPT !.pc = "getCertificate", !.op = Len(ops) + 1,
                                    !.fp = local, !.now = expired]
    <3>1. Become(p, r) /\ r.op = Len(ops) + 1
      BY <1>1, <2>3 DEF ProcessState
    <3> HIDE DEF r
    <3> QED BY <1>1, <2>1, <2>3, <3>1, TableGrows
  <2> QED BY <1>4, <2>2, <2>3 DEF Start
<1>5. CASE \/ GetCertificate(p) \/ GetCurrent(p) \/ Find(p) \/ Upload(p) \/ FindUploaded(p)
           \/ Refresh(p) \/ Promote(p) \/ Confirm(p) \/ Record(p) \/ RecordRenewal(p)
  <2>1. proc[p].pc \in PublishSteps /\ ops' = ops
    BY <1>5 DEF GetCertificate, GetCurrent, Find, Upload, FindUploaded, Refresh, Promote,
                Confirm, Record, RecordRenewal, PublishSteps
  <2>2. SameRow(p)
    <3>1. CASE Exit(p)
      BY <3>1 DEF SameRow
    <3>2. CASE \E label : Go(p, label)
      BY <3>2, LocalsRemembered DEF Go
    <3>3. CASE \/ GetCertificate(p) \/ GetCurrent(p) \/ Refresh(p)
      BY <3>1, <3>2, <3>3, LocalsRemembered DEF GetCertificate, GetCurrent, Refresh
    <3>4. CASE Found(p)
      BY <3>4, LocalsRemembered DEF Found
    <3>5. CASE Find(p) \/ FindUploaded(p)
      BY <3>1, <3>2, <3>4, <3>5 DEF Find, FindUploaded, Rejected
    <3>6. CASE Confirm(p)
      BY <3>1, <3>6, LocalsRemembered DEF Confirm
    <3>7. CASE Promote(p)
      BY <3>1, <3>2, <3>7, LocalsRemembered DEF Promote
    <3> QED BY <1>5, <3>1, <3>2, <3>3, <3>5, <3>6, <3>7 DEF Upload, Record, RecordRenewal
  <2> QED BY <1>2, <2>1, <2>2, TableRead
<1>6. CASE Reconciled(p) \/ PendingUploaded(p) \/ PendingVerified(p) \/ CurrentConfirmed(p)
  <2>1. PICK label \in PublishSteps, state \in OperationState \ TerminalStates,
             version \in Nat, next \in Labels : LogStep(p, label, state, version, next)
    BY <1>1, <1>6 DEF Reconciled, PendingUploaded, PendingVerified, CurrentConfirmed,
                      PublishSteps, OperationState, TerminalStates, Labels
  <2> QED BY <1>2, <2>1, TableLogged DEF LogStep
<1>7. CASE Complete(p)
  <2>1. "complete" \in PublishSteps /\ "COMPLETED" \in OperationState
    BY DEF PublishSteps, OperationState, TerminalStates
  <2> QED BY <1>1, <1>2, <1>7, <2>1, TableLogged DEF Complete, LogStep
<1>8. CASE CloseReconciled(p)
  <2> DEFINE next == IF proc[p].cmd = "RENEW" THEN "recordRenewal" ELSE "complete"
             n == CompleteReconciledOperations(ops, proc[p].op, proc[p].fp, proc[p].version)
  <2>1. proc[p].pc = "closeReconciled" /\ Go(p, next) /\ ops' = n
    BY <1>8 DEF CloseReconciled
  <2>2. proc[p].pc \in OpenSteps /\ proc[p].pc # "idle"
    BY <2>1 DEF OpenSteps, PublishSteps
  <2>3. /\ DOMAIN n = DOMAIN ops
        /\ \A i \in DOMAIN ops : i = proc[p].op \/ i \notin Active(ops) => n[i] = ops[i]
    BY DEF CompleteReconciledOperations
  <2> HIDE DEF n, next
  <2> QED BY <2>1, <2>2, <2>3, TableClosed
<1> QED BY <1>3, <1>4, <1>5, <1>6, <1>7, <1>8 DEF Reconcile

\* The steps of a rollback keep terminal rows.
LEMMA RollbackTable ==
    ASSUME Inv, OpenRows, NEW p \in Process, Rollback(p)
    PROVE  TerminalKept /\ OpenRows'
<1>1. /\ proc[p] \in ProcessState /\ ops \in Seq(Operation)
      /\ proc[p].version \in Nat /\ Null \in Nat
  BY Worker, ProcessFields DEF Null
<1>2. /\ RollbackSteps \subseteq OpenSteps
      /\ "rollbackStart" \notin OpenSteps /\ AfterAudit \notin OpenSteps
      /\ "return" \notin OpenSteps
  BY NextLabels DEF OpenSteps, PublishSteps, RollbackSteps, AuditSteps
<1>3. CASE RollbackStart(p)
  <2> DEFINE r == [proc[p] EXCEPT !.pc = "previousVersion", !.op = Len(ops) + 1,
                                  !.now = expired]
  <2>1. Become(p, r) /\ r.op = Len(ops) + 1
    BY <1>1, <1>3 DEF ProcessState, RollbackStart
  <2> HIDE DEF r
  <2>2. /\ ops' = StartOperation(ops, "ROLLBACK", Null, Ocid)
        /\ proc[p].pc # "idle" /\ "ROLLBACK" \in OperationType
    BY <1>3 DEF RollbackStart, OperationType
  <2> QED BY <1>1, <2>1, <2>2, TableGrows
<1>4. CASE \/ PreviousVersion(p) \/ RollbackEtag(p) \/ Restore(p) \/ RollbackConfirm(p)
           \/ RecordRollback(p)
  <2>1. proc[p].pc \in RollbackSteps /\ ops' = ops
    BY <1>4 DEF PreviousVersion, RollbackEtag, Restore, RollbackConfirm, RecordRollback,
                RollbackSteps
  <2>2. SameRow(p)
    <3>1. CASE Exit(p)
      BY <3>1 DEF SameRow
    <3>2. CASE \E label : Go(p, label)
      BY <3>2, LocalsRemembered DEF Go
    <3>3. CASE PreviousVersion(p)
      BY <3>1, <3>3, LocalsRemembered DEF PreviousVersion
    <3>4. CASE RollbackEtag(p)
      BY <3>4, LocalsRemembered DEF RollbackEtag
    <3> QED BY <1>4, <3>1, <3>2, <3>3, <3>4 DEF Restore, RollbackConfirm, RecordRollback
  <2> QED BY <1>2, <2>1, <2>2, TableRead
<1>5. CASE RollbackReconciled(p) \/ RollbackConfirmed(p) \/ RollbackAuditPending(p)
  <2>1. PICK label \in RollbackSteps, state \in OperationState \ TerminalStates,
             version \in Nat, next \in Labels : LogStep(p, label, state, version, next)
    BY <1>1, <1>5 DEF RollbackReconciled, RollbackConfirmed, RollbackAuditPending,
                      RollbackSteps, OperationState, TerminalStates, Labels
  <2> QED BY <1>2, <2>1, TableLogged DEF LogStep
<1>6. CASE RollbackAudit(p)
  <2>1. /\ proc[p].pc \in OpenSteps /\ "AUDIT_SUCCESS" \in OperationState \ TerminalStates
        /\ "ROLLBACK_FAILED" \in OperationState
    BY <1>2, <1>6 DEF RollbackAudit, RollbackSteps, OperationState, TerminalStates
  <2>2. CASE /\ ops' = Transition(ops, proc[p].op, "AUDIT_SUCCESS", Null, Null)
             /\ Go(p, "rollbackComplete")
    BY <1>1, <2>1, <2>2, TableLogged
  <2>3. CASE /\ ops' = Transition(ops, proc[p].op, "ROLLBACK_FAILED", Null, Null)
             /\ Exit(p)
    BY <2>1, <2>3, TableLoggedAtExit
  <2> QED BY <1>6, <2>2, <2>3 DEF RollbackAudit
<1>7. CASE RollbackComplete(p)
  <2>1. "rollbackComplete" \in RollbackSteps /\ "COMPLETED" \in OperationState
    BY DEF RollbackSteps, OperationState, TerminalStates
  <2>2. PICK next : /\ next \notin OpenSteps
                    /\ LogStep(p, "rollbackComplete", "COMPLETED", proc[p].version, next)
    BY <1>2, <1>7 DEF RollbackComplete
  <2> QED BY <1>1, <1>2, <2>1, <2>2, TableLogged DEF LogStep
<1> QED BY <1>3, <1>4, <1>5, <1>6, <1>7 DEF Rollback

\* The steps of an audit keep terminal rows: it closes open audits only.
LEMMA AuditTable ==
    ASSUME Inv, OpenRows, NEW p \in Process, Audit(p)
    PROVE  TerminalKept /\ OpenRows'
<1>1. proc[p] \in ProcessState /\ ops \in Seq(Operation) /\ Null \in Nat
  BY Worker DEF Null
<1>2. /\ AuditSteps \ {"closeAudits"} \subseteq OpenSteps
      /\ {"auditStart", "rollbackStart", "return", "closeAudits"} \intersect OpenSteps = {}
      /\ AfterAudit \notin OpenSteps /\ "idle" \notin OpenSteps
  BY NextLabels DEF OpenSteps, PublishSteps, RollbackSteps, AuditSteps
<1>3. CASE AuditStart(p)
  <2> DEFINE r == [proc[p] EXCEPT !.pc = "auditPending", !.op = Len(ops) + 1]
  <2>1. Become(p, r) /\ r.op = Len(ops) + 1
    BY <1>1, <1>3 DEF ProcessState, AuditStart
  <2> HIDE DEF r
  <2>2. /\ ops' = StartOperation(ops, "AUDIT", Null, Ocid)
        /\ proc[p].pc # "idle" /\ "AUDIT" \in OperationType
    BY <1>3 DEF AuditStart, OperationType
  <2> QED BY <1>1, <2>1, <2>2, TableGrows
<1>4. CASE AuditBundle(p) \/ RecordAudit(p)
  <2>1. proc[p].pc \in AuditSteps \ {"closeAudits"} /\ ops' = ops
    BY <1>4 DEF AuditBundle, RecordAudit, AuditSteps
  <2>2. SameRow(p)
    BY <1>4, LocalsRemembered DEF AuditBundle, RecordAudit, Go, SameRow
  <2> QED BY <1>2, <2>1, <2>2, TableRead
<1>5. CASE AuditPending(p) \/ AuditSucceeds(p)
  <2>1. PICK label \in AuditSteps \ {"closeAudits"},
             state \in OperationState \ TerminalStates,
             next \in Labels : LogStep(p, label, state, Null, next)
    BY <1>5 DEF AuditPending, AuditSucceeds, AuditSteps, OperationState, TerminalStates, Labels
  <2> QED BY <1>1, <1>2, <2>1, TableLogged DEF LogStep
<1>6. CASE AuditFails(p)
  <2>1. /\ proc[p].pc = "audit" /\ Go(p, AfterFailedAudit(p))
        /\ ops' = Transition(ops, proc[p].op, "AUDIT_FAILED", Null, Null)
    BY <1>6 DEF AuditFails
  <2>2. proc[p].pc \in OpenSteps /\ "AUDIT_FAILED" \in OperationState
    BY <2>1 DEF OpenSteps, AuditSteps, OperationState, TerminalStates
  <2>3. AfterFailedAudit(p) \notin OpenSteps
    BY <1>2, <1>6, PublisherAssumption DEF AfterFailedAudit, AuditFails
  <2> QED BY <1>1, <2>1, <2>2, <2>3, TableLogged
<1>7. CASE AuditComplete(p)
  <2>1. "auditComplete" \in OpenSteps /\ "COMPLETED" \in OperationState
    BY DEF OpenSteps, AuditSteps, OperationState, TerminalStates
  <2> QED BY <1>1, <1>2, <1>7, <2>1, TableLogged DEF AuditComplete, LogStep
<1>8. CASE CloseAudits(p)
  <2> DEFINE n == CompleteInterruptedAudits(ops, proc[p].op)
  <2>1. PICK next \in {"return", AfterAudit} :
           proc[p].pc = "closeAudits" /\ Go(p, next) /\ ops' = n
    BY <1>8 DEF CloseAudits
  <2>2. /\ DOMAIN n = DOMAIN ops
        /\ \A i \in DOMAIN ops : i = proc[p].op \/ i \notin Active(ops) => n[i] = ops[i]
    BY DEF CompleteInterruptedAudits, Active, TerminalStates
  <2> HIDE DEF n
  <2> QED BY <1>2, <2>1, <2>2, TableClosed
<1> QED BY <1>3, <1>4, <1>5, <1>6, <1>7, <1>8 DEF Audit

\* Retention does not write the table.
LEMMA RetentionTable ==
    ASSUME Inv, OpenRows, NEW p \in Process, Retention(p)
    PROVE  TerminalKept /\ OpenRows'
<1>1. proc[p] \in ProcessState
  BY Worker
<1>2. {"retentionNext", "schedule", "return"} \intersect OpenSteps = {}
  BY DEF OpenSteps, PublishSteps, RollbackSteps, AuditSteps
<1>3. proc[p].pc # "idle" /\ ops' = ops
  BY DEF Retention, RetentionPlan, RetentionNext, Schedule
<1>4. CASE RetentionPlan(p)
  <2>1. PICK plan : Become(p, [proc[p] EXCEPT !.pc = "retentionNext", !.plan = plan])
    BY <1>4 DEF RetentionPlan
  <2>2. [proc[p] EXCEPT !.pc = "retentionNext", !.plan = plan].pc = "retentionNext"
    BY <1>1 DEF ProcessState
  <2> QED BY <1>2, <1>3, <2>1, <2>2, TableKept
<1>5. CASE RetentionNext(p)
  <2>1. CASE Go(p, "return")
    BY <1>2, <1>3, <2>1, TableWhenMoved
  <2>2. ASSUME NEW v, NEW plan, NEW e,
               Become(p, [proc[p] EXCEPT !.pc = "schedule", !.version = v, !.etag = e,
                                         !.plan = plan])
        PROVE  TerminalKept /\ OpenRows'
    <3>1. [proc[p] EXCEPT !.pc = "schedule", !.version = v, !.etag = e, !.plan = plan].pc
             = "schedule"
      BY <1>1 DEF ProcessState
    <3> QED BY <1>2, <1>3, <2>2, <3>1, TableKept
  <2> QED BY <1>5, <2>1, <2>2 DEF RetentionNext
<1>6. CASE Schedule(p)
  BY <1>2, <1>3, <1>6, TableAtExit, TableWhenMoved DEF Schedule
<1> QED BY <1>4, <1>5, <1>6 DEF Retention

\* No step of any process, nor of its environment, touches a terminal row.
LEMMA TerminalRowsKept ==
    ASSUME Inv, OpenRows, [Next]_vars
    PROVE  TerminalKept /\ OpenRows'
<1>1. CASE ops' = ops /\ proc' = proc
  BY <1>1 DEF TerminalKept, OpenRows, Active
<1>2. ASSUME NEW p \in Process, Step(p)
      PROVE  TerminalKept /\ OpenRows'
  <2>1. CASE Return(p)
    BY <2>1, TableAtExit DEF Return
  <2> QED BY <1>2, <2>1, ReconcileTable, RollbackTable, AuditTable, RetentionTable DEF Step
<1>3. ASSUME NEW p \in Process, Die(p)
      PROVE  TerminalKept /\ OpenRows'
  BY <1>3, TableAtExit DEF Die
<1>4. ASSUME NEW p \in Process, NEW cmd \in Commands, Acquire(p, cmd)
      PROVE  TerminalKept /\ OpenRows'
  <2> DEFINE r == [Idle EXCEPT !.pc = FirstStep(cmd), !.cmd = cmd]
  <2>1. r.pc = FirstStep(cmd)
    BY DEF Idle
  <2>2. Become(p, r) /\ lock = Free /\ ops' = ops
    BY <1>4 DEF Acquire
  <2> HIDE DEF r
  <2>3. r.pc \notin OpenSteps
    BY <2>1, PublisherAssumption, FirstStepOwnsNoRow
  <2> QED BY <2>2, <2>3, OpenRow DEF TerminalKept
<1>5. CASE Environment
  BY <1>1, <1>5 DEF Environment, ArriveLate, ListingSettles, RetrievalSettles, Expire
<1> QED BY <1>1, <1>2, <1>3, <1>4, <1>5 DEF Next, vars

-----------------------------------------------------------------------------
\* The rows of some types that ended in some states, once counted, stay.
LEMMA CountGrows ==
    ASSUME Inv, Inv', TerminalKept, NEW types, NEW states \in SUBSET TerminalStates
    PROVE  Count(types, states) <= Count(types, states)'
<1> DEFINE A == {i \in DOMAIN ops : ops[i].type \in types /\ ops[i].state \in states}
           B == {i \in DOMAIN ops' : ops'[i].type \in types /\ ops'[i].state \in states}
<1>1. A \subseteq B
  BY DEF TerminalKept
<1>2. Len(ops') \in Nat /\ DOMAIN ops' = 1..Len(ops')
  BY DEF Inv, TypeInv, TypeOK
<1>3. IsFiniteSet(1..Len(ops'))
  BY <1>2, FS_Interval
<1>4. B \subseteq 1..Len(ops')
  BY <1>2
<1>5. IsFiniteSet(B)
  BY <1>3, <1>4, FS_Subset
<1> HIDE DEF A, B
<1>6. Cardinality(A) <= Cardinality(B)
  BY <1>1, <1>5, FS_Subset
<1> QED BY <1>6 DEF Count, A, B

\* Every counter counts rows that ended.
LEMMA CountersGrow ==
    ASSUME Inv, Inv', TerminalKept
    PROVE  \A event \in DOMAIN Counters : Counters[event] <= Counters'[event]
<1>1. /\ FailureStates \in SUBSET TerminalStates
      /\ {"HTTP01_PREFLIGHT_FAILED"} \in SUBSET TerminalStates
      /\ {"COMPLETED"} \in SUBSET TerminalStates
  BY DEF FailureStates, TerminalStates
<1>2. /\ Count({"RENEW"}, FailureStates) <= Count({"RENEW"}, FailureStates)'
      /\ Count({"BOOTSTRAP", "PUBLISH", "RECONCILE"}, FailureStates)
            <= Count({"BOOTSTRAP", "PUBLISH", "RECONCILE"}, FailureStates)'
      /\ Count({"AUDIT"}, FailureStates) <= Count({"AUDIT"}, FailureStates)'
      /\ Count(OperationType, {"HTTP01_PREFLIGHT_FAILED"})
            <= Count(OperationType, {"HTTP01_PREFLIGHT_FAILED"})'
      /\ Count({"ROLLBACK"}, {"COMPLETED"}) <= Count({"ROLLBACK"}, {"COMPLETED"})'
  BY <1>1, CountGrows
<1> QED BY <1>2 DEF Counters

\* The history of operations is append-only: whatever commands do later, a
\* row that completed or failed keeps its state, version and fingerprint
\* (transition writes without a condition; only its callers see to that).
THEOREM HistoryIsFinal == Spec => [][TerminalKept]_vars
<1>1. Init => OpenRows
  BY DEF Init, OpenRows, Idle, OpenSteps, PublishSteps, RollbackSteps, AuditSteps
<1>2. Inv /\ OpenRows /\ [Next]_vars => OpenRows'
  BY TerminalRowsKept
<1>3. Inv /\ OpenRows /\ [Next]_vars => [TerminalKept]_vars
  BY TerminalRowsKept
<1> QED BY <1>1, <1>2, <1>3, Invariance, PTL DEF Spec

\* The samples that monitoring reads as counters never go back: rows that
\* ended stay as they are, whichever command closed them (metrics.py).
THEOREM CountersAreMonotone == Spec => CountersNeverDecrease
<1>1. Init => OpenRows
  BY DEF Init, OpenRows, Idle, OpenSteps, PublishSteps, RollbackSteps, AuditSteps
<1>2. Inv /\ OpenRows /\ [Next]_vars => OpenRows'
  BY TerminalRowsKept
<1>3. Inv /\ Inv' /\ OpenRows /\ [Next]_vars =>
         [\A event \in DOMAIN Counters : Counters[event] <= Counters'[event]]_vars
  BY TerminalRowsKept, CountersGrow
<1> QED BY <1>1, <1>2, <1>3, Invariance, PTL DEF Spec, CountersNeverDecrease
=============================================================================
