---------------------- MODULE CertificateRefinement_proofs ----------------------
(***************************************************************************)
(* Proof that PublicationService implements ManagedCertificate when OCI's  *)
(* reads do not lag, and that CURRENT goes back only on behalf of an open  *)
(* rollback.                                                               *)
(***************************************************************************)
EXTENDS CertificateInvariant_proofs

\* OCI executes a request that breaks no promise.
Mutated(req) ==
    /\ Executable(req) /\ Harmless(req) /\ Grounded(req)
    /\ Accepts(oci, req) /\ oci' = Executed(oci, req, Lag)
    /\ UNCHANGED <<ops, certState>>

\* A process calls OCI with a request that it may make.
LEMMA Called ==
    ASSUME NEW req, Executable(req), Harmless(req), Accepts(oci, req) => Grounded(req),
           Succeeds(req) \/ Refused(req) \/ Ambiguous(req), UNCHANGED <<ops, certState>>
    PROVE  oci' = oci \/ \E r \in Request : Mutated(r)
<1>1. req \in Request
  BY DEF Executable
<1>2. oci' = oci \/ (Accepts(oci, req) /\ oci' = Executed(oci, req, Lag))
  BY DEF Succeeds, Refused, Ambiguous
<1> QED BY <1>1, <1>2 DEF Mutated

\* Whatever step is taken, the certificate stays or such a request is executed.
LEMMA OnlyGroundedRequests ==
    ASSUME Known, ~Lag, [Next]_vars
    PROVE  oci' = oci \/ \E req \in Request : Mutated(req)
<1> USE DEF LogStep
<1>1. /\ oci.listed = Len(oci.versions) /\ oci.served = oci.current
      /\ \A p \in Process : WorkInv(p)
  BY CertificateFacts DEF Known, CertificateInv, StageInv
<1>2. ASSUME NEW req \in net, ArriveLate(req)
      PROVE  oci' = oci \/ (Mutated(req) /\ req \in Request)
  <2>1. UNCHANGED <<ops, certState>>
    BY <1>2 DEF ArriveLate
  <2>2. Harmless(req)
    BY DEF Known, Inv, TypeInv, TypeOK, ImportInv, EtagInv, NetInv, Harmless
  <2>3. Executable(req) /\ (Accepts(oci, req) => Grounded(req)) /\ req \in Request
    BY InFlight DEF Executable
  <2> QED BY <1>2, <2>1, <2>2, <2>3 DEF ArriveLate, Mutated
<1>3. Environment => oci' = oci \/ \E req \in Request : Mutated(req)
  <2>1. ~ListingSettles /\ ~RetrievalSettles
    BY <1>1 DEF ListingSettles, RetrievalSettles
  <2>2. Expire => oci' = oci
    BY DEF Expire
  <2> QED BY <1>2, <2>1, <2>2 DEF Environment
<1>4. ASSUME NEW p \in Process, Upload(p)
      PROVE  oci' = oci \/ \E req \in Request : Mutated(req)
  <2> DEFINE req == UploadRequest(proc[p].etag, proc[p].fp)
  <2>1. /\ proc[p].pc = "upload" /\ UNCHANGED <<ops, certState>>
        /\ Succeeds(req) \/ Refused(req) \/ Ambiguous(req)
    BY <1>4 DEF Upload
  <2>2. proc[p].pc \in PublishSteps
    BY <2>1 DEF PublishSteps
  <2>3. Executable(req) /\ Harmless(req)
    BY <2>1, <2>2, RequestsExecutable, RequestsHarmless DEF Known
  <2>4. Grounded(req)
    BY <2>2, OwnRowFacts DEF Grounded, Remembered, UploadRequest
  <2> HIDE DEF req
  <2> QED BY <2>1, <2>3, <2>4, Called
<1>5. ASSUME NEW p \in Process, Promote(p) \/ Restore(p)
      PROVE  oci' = oci \/ \E req \in Request : Mutated(req)
  <2> DEFINE req == PromoteRequest(proc[p].etag, proc[p].version)
  <2>1. /\ proc[p].pc \in {"promote", "restore"} /\ UNCHANGED <<ops, certState>>
        /\ Succeeds(req) \/ Refused(req) \/ Ambiguous(req)
    BY <1>5 DEF Promote, Restore
  <2>2. proc[p].pc \in VersionSteps
    BY <2>1 DEF VersionSteps, PublishSteps, RollbackSteps
  <2>3. Executable(req) /\ Harmless(req)
    BY <2>2, RequestsExecutable, RequestsHarmless DEF Known
  <2>4. Accepts(oci, req) => Grounded(req)
    BY <2>1, OwnPromotionGrounded DEF Accepts, PromoteRequest
  <2> HIDE DEF req
  <2> QED BY <2>1, <2>3, <2>4, Called
<1>6. ASSUME NEW p \in Process, Schedule(p)
      PROVE  oci' = oci \/ \E req \in Request : Mutated(req)
  <2> DEFINE req == DeleteRequest(proc[p].etag, proc[p].version)
  <2>1. /\ proc[p].pc = "schedule" /\ UNCHANGED <<ops, certState>>
        /\ Succeeds(req) \/ Refused(req) \/ Ambiguous(req)
    BY <1>6 DEF Schedule
  <2>2. proc[p].pc \in VersionSteps
    BY <2>1 DEF VersionSteps
  <2>3. Executable(req) /\ Harmless(req)
    BY <2>2, RequestsExecutable, RequestsHarmless DEF Known
  <2>4. Grounded(req)
    BY <1>1, <2>1 DEF WorkInv, DeletionInv, Grounded, DeleteRequest
  <2> HIDE DEF req
  <2> QED BY <2>1, <2>3, <2>4, Called
<1>7. ASSUME NEW p \in Process, Reconcile(p), ~Upload(p), ~Promote(p)
      PROVE  oci' = oci
  BY <1>7
     DEF Reconcile, Renew, Start, GetCertificate, GetCurrent, Reconciled, Find, PendingUploaded,
         FindUploaded, PendingVerified, Refresh, Confirm, CurrentConfirmed, Record,
         CloseReconciled, RecordRenewal, Complete
<1>8. ASSUME NEW p \in Process, Rollback(p), ~Restore(p)
      PROVE  oci' = oci
  BY <1>8
     DEF Rollback, RollbackStart, PreviousVersion, RollbackEtag, RollbackReconciled,
         RollbackConfirm, RollbackConfirmed, RecordRollback, RollbackAuditPending,
         RollbackAudit, RollbackComplete
<1>9. ASSUME NEW p \in Process,
             \/ Audit(p) \/ RetentionPlan(p) \/ RetentionNext(p) \/ Return(p)
             \/ Die(p) \/ \E cmd \in Commands : Acquire(p, cmd)
      PROVE  oci' = oci
  BY <1>9
     DEF Audit, AuditStart, AuditPending, AuditBundle, AuditFails, AuditSucceeds, RecordAudit,
         AuditComplete, CloseAudits, RetentionPlan, RetentionNext, Return, Die, Acquire
<1>10. UNCHANGED vars => oci' = oci
  BY DEF vars
<1> QED BY <1>3, <1>4, <1>5, <1>6, <1>7, <1>8, <1>9, <1>10 DEF Next, Step, Retention

\* A promotion that is executed is to a newer leaf or to a version announced
\* by a rollback.
LEMMA GroundedMove ==
    ASSUME Known, ~Lag, NEW req, Mutated(req)
    PROVE  /\ req.kind = "promote" =>
                 /\ oci'.current = req.arg /\ req.arg \in DOMAIN oci.versions
                 /\ \E i \in Active(ops) :
                       /\ ops[i].version = req.arg
                       /\ \/ ops[i].type = "ROLLBACK"
                          \/ /\ ops[i].type \in Publishing
                             /\ oci.versions[oci.current] < oci.versions[req.arg]
           /\ req.kind # "promote" => oci'.current = oci.current
<1>1. /\ Executable(req) /\ Grounded(req) /\ oci' = Executed(oci, req, Lag)
  BY DEF Mutated
<1>2. req.kind \in {"upload", "promote", "delete"}
  BY <1>1 DEF Executable, Request
<1>3. ASSUME req.kind = "promote"
      PROVE  /\ oci'.current = req.arg /\ req.arg \in DOMAIN oci.versions
             /\ Backed(req.arg, Null)
  BY <1>1, <1>3, ExecutedFields DEF Executable, Grounded, Known
<1>4. ASSUME req.kind # "promote"
      PROVE  oci'.current = oci.current
  BY <1>1, <1>2, <1>4, ExecutedFields DEF Known
<1> QED BY <1>3, <1>4 DEF Backed, Backs

\* CURRENT goes back to an older leaf only while the row of a rollback to that
\* version is open: neither a retried promotion of publish nor one that
\* arrives after its sender is gone can undo a newer publication.
THEOREM RegressionIsRollback == ASSUME ~Lag PROVE Spec => OnlyRollbackRegresses
<1> DEFINE Regresses == oci'.versions[oci'.current] < oci.versions[oci.current]
           ByRollback == \E i \in Active(ops) : /\ ops[i].type = "ROLLBACK"
                                                /\ ops[i].version = oci'.current
<1>1. ASSUME Known, [Next]_vars, Regresses
      PROVE  ByRollback
  <2>1. /\ oci.versions[oci.current] \in Nat /\ oci.current \in DOMAIN oci.versions
        /\ \A i \in DOMAIN oci.versions : oci.versions[i] \in Nat
    BY <1>1, CertificateFacts DEF Known
  <2>2. oci' # oci
    BY <1>1, <2>1
  <2>3. PICK req \in Request : Mutated(req)
    BY <1>1, <2>2, OnlyGroundedRequests
  <2>4. \A i \in DOMAIN oci.versions : oci'.versions[i] = oci.versions[i]
    BY <1>1, <2>3, LeavesKept DEF Mutated, Known
  <2>5. req.kind = "promote"
    BY <1>1, <2>1, <2>3, <2>4, GroundedMove
  <2>6. /\ oci'.current = req.arg /\ req.arg \in DOMAIN oci.versions
        /\ \E i \in Active(ops) :
              /\ ops[i].version = req.arg
              /\ \/ ops[i].type = "ROLLBACK"
                 \/ oci.versions[oci.current] < oci.versions[req.arg]
    BY <1>1, <2>3, <2>5, GroundedMove
  <2>7. oci'.versions[oci'.current] = oci.versions[req.arg]
    BY <2>4, <2>6
  <2>8. ~(oci.versions[oci.current] < oci.versions[req.arg])
    BY <1>1, <2>1, <2>6, <2>7
  <2> QED BY <2>6, <2>8
<1>2. Known /\ [Next]_vars =>
        [oci'.versions[oci'.current] < oci.versions[oci.current] =>
           \E i \in Active(ops) : ops[i].type = "ROLLBACK" /\ ops[i].version = oci'.current]_vars
  BY <1>1
<1> QED BY <1>2, CertificateInvariance, PTL DEF Spec, OnlyRollbackRegresses

-----------------------------------------------------------------------------
(***************************************************************************)
(* The refinement: the initial states, and the steps of OCI.               *)
(***************************************************************************)

\* No operation is open before any command has run.
LEMMA InitManaged == Init => Managed!Init
<1> SUFFICES ASSUME Init PROVE Managed!Init
  OBVIOUS
<1>1. Active(ops) = {}
  BY DEF Init, Active
<1>2. Named(Publishing) = {} /\ Named({"ROLLBACK"}) = {}
  BY <1>1 DEF Named
<1> QED BY <1>2 DEF Init, Imported, NoVersion, Managed!Init

\* What the log announces is what open rows of its types name.
LEMMA Announcing ==
    ASSUME NEW types, NEW v, v # Null
    PROVE  v \in Named(types) <=> \E i \in Active(ops) : ops[i].version = v /\ ops[i].type \in types
BY DEF Named

\* What is announced is referenced.
LEMMA AnnouncedIsReferenced == Named(Publishing) \union Named({"ROLLBACK"}) \subseteq Referenced
BY DEF Named, Referenced

\* A grounded request imports, publishes, restores or deletes.
LEMMA MutatedManaged == ASSUME Known, ~Lag, NEW req, Mutated(req) PROVE Managed!Next
<1>1. /\ Executable(req) /\ Harmless(req) /\ Grounded(req) /\ Accepts(oci, req)
      /\ oci' = Executed(oci, req, Lag) /\ UNCHANGED <<ops, certState>>
      /\ req.kind \in {"upload", "promote", "delete"} /\ req.arg \in Nat
  BY DEF Mutated, Executable, Request
<1>2. /\ DOMAIN oci.versions = 1..Len(oci.versions) /\ Len(oci.versions) \in Nat
      /\ oci.versions \in Seq(Nat)
  BY CertificateFacts DEF Known, Certificate
<1>3. UNCHANGED <<Named(Publishing), Named({"ROLLBACK"}), certState.version>>
  BY <1>1 DEF Named, Active
<1>4. CASE req.kind = "upload"
  <2>1. /\ oci'.versions = Append(oci.versions, req.arg)
        /\ oci'.current = oci.current /\ oci'.previous = oci.previous
        /\ oci'.deleted = oci.deleted
    BY <1>1, <1>4, ExecutedFields DEF Known
  <2>2. oci'.versions[Len(oci'.versions)] = req.arg
    BY <1>1, <1>2, <2>1
  <2>3. \A v \in DOMAIN oci.versions : oci.versions[v] < req.arg
    BY <1>1, <1>4 DEF Harmless, Newer, Accepts
  <2>4. Managed!Import
    BY <1>3, <2>1, <2>2, <2>3 DEF Managed!Import, Managed!log
  <2> QED BY <2>4 DEF Managed!Next
<1>5. CASE req.kind = "promote"
  <2>1. /\ oci'.versions = oci.versions /\ oci'.current = req.arg
        /\ oci'.previous = oci.current /\ oci'.deleted = oci.deleted
        /\ req.arg \notin oci.deleted
    BY <1>1, <1>5, ExecutedFields DEF Known, Grounded
  <2>2. Managed!Use(req.arg)
    BY <1>3, <2>1 DEF Managed!Use, Managed!log
  <2>3. /\ req.arg \in DOMAIN oci.versions
        /\ \E i \in Active(ops) :
              /\ ops[i].version = req.arg
              /\ \/ ops[i].type = "ROLLBACK"
                 \/ /\ ops[i].type \in Publishing
                    /\ oci.versions[oci.current] < oci.versions[req.arg]
    BY <1>5, GroundedMove
  <2>4. req.arg # Null
    BY <1>2, <2>3 DEF Null
  <2>5. \/ req.arg \in Named({"ROLLBACK"})
        \/ /\ req.arg \in Named(Publishing)
           /\ oci.versions[oci.current] < oci.versions[req.arg]
    BY <2>3, <2>4, Announcing
  <2>6. Managed!Publish(req.arg) \/ Managed!Restore(req.arg)
    BY <2>2, <2>5 DEF Managed!Publish, Managed!Restore
  <2> QED BY <2>3, <2>6 DEF Managed!Next
<1>6. CASE req.kind = "delete"
  <2>1. /\ oci'.versions = oci.versions /\ oci'.current = oci.current
        /\ oci'.previous = oci.previous /\ oci'.deleted = oci.deleted \union {req.arg}
    BY <1>1, <1>6, ExecutedFields DEF Known
  <2>2. req.arg \in DOMAIN oci.versions \ (Protected(oci) \union Referenced)
    BY <1>1, <1>6 DEF Grounded, Disposable
  <2>3. Managed!Delete(req.arg)
    BY <1>3, <2>1, <2>2, AnnouncedIsReferenced
       DEF Protected, Managed!Delete, Managed!Announced, Managed!log
  <2> QED BY <2>2, <2>3 DEF Managed!Next
<1> QED BY <1>1, <1>4, <1>5, <1>6

-----------------------------------------------------------------------------
(***************************************************************************)
(* The refinement: the steps of the operations table.                      *)
(***************************************************************************)

\* CURRENT is recorded or announced, in the terms of ManagedCertificate.
LEMMA KnownAccounted == Known => Managed!Accounted
<1> SUFFICES ASSUME Known PROVE Managed!Accounted
  OBVIOUS
<1>1. oci.current = certState.version \/ CurrentBacked(Null)
  BY DEF Known, CertificateInv, StageInv
<1>2. oci.current # Null
  BY CertificateFacts DEF Known, Null
<1>3. CurrentBacked(Null) => oci.current \in Named(Publishing) \union Named({"ROLLBACK"})
  BY <1>2, Announcing DEF CurrentBacked, Backs
<1> QED BY <1>1, <1>3 DEF Managed!Accounted, Managed!Announced

\* A step of the table alone that announces at most one version.
LEMMA LogManaged ==
    ASSUME Known', UNCHANGED oci, certState'.version = certState.version,
           NEW v \in DOMAIN oci.versions,
           \/ /\ Named(Publishing)' \subseteq Named(Publishing) \union {v}
              /\ Named({"ROLLBACK"})' = Named({"ROLLBACK"})
           \/ /\ Named({"ROLLBACK"})' \subseteq Named({"ROLLBACK"}) \union {v}
              /\ Named(Publishing)' = Named(Publishing)
    PROVE  Managed!Next
<1>1. Managed!Accounted'
  BY KnownAccounted, PTL
<1>2. Managed!Log(v)
  BY <1>1 DEF Managed!Log, Managed!certificate
<1> QED BY <1>2 DEF Managed!Next

\* A row that names no version is inserted.
LEMMA InsertionManaged ==
    ASSUME Known, Known', UNCHANGED <<oci, certState>>, NEW type \in OperationType, NEW fp \in Nat,
           ops' = StartOperation(ops, type, fp, Ocid)
    PROVE  Managed!Next
<1>1. ops \in Seq(Operation)
  BY DEF Known, Inv, TypeInv, TypeOK
<1>2. /\ DOMAIN ops' = 1..Len(ops) + 1 /\ DOMAIN ops = 1..Len(ops) /\ Len(ops) \in Nat
      /\ \A i \in DOMAIN ops : ops'[i] = ops[i]
      /\ ops'[Len(ops) + 1].version = Null
  BY <1>1 DEF StartOperation
<1>3. ASSUME NEW types
      PROVE  Named(types)' = Named(types)
  BY <1>2 DEF Named, Active
<1>4. oci.current \in DOMAIN oci.versions
  BY CertificateFacts DEF Known
<1> QED BY <1>3, <1>4, LogManaged

\* A process moves its row, naming its version or not.
LEMMA OwnRowManaged ==
    ASSUME Known, Known', UNCHANGED <<oci, certState>>,
           NEW p \in Process, proc[p].pc \in PublishSteps \union RollbackSteps,
           NEW state \in OperationState, NEW version \in {Null, proc[p].version},
           version = Null \/ proc[p].pc \in VersionSteps,
           ops' = Transition(ops, proc[p].op, state, version, Null)
    PROVE  Managed!Next
<1> DEFINE id == proc[p].op
           v == IF version = Null THEN oci.current ELSE version
<1>1. /\ ops \in Seq(Operation) /\ id \in Active(ops) /\ id \in DOMAIN ops
      /\ ops[id].type \in Publishing \/ ops[id].type = "ROLLBACK"
      /\ version \in Nat /\ v \in DOMAIN oci.versions
  BY OwnRowFacts, CertificateFacts DEF Known, Null
<1> HIDE DEF id, v
<1>2. /\ DOMAIN ops' = DOMAIN ops
      /\ \A i \in DOMAIN ops : i # id => ops'[i] = ops[i]
      /\ ops'[id].version = IF version = Null THEN ops[id].version ELSE version
      /\ ops'[id].type = ops[id].type
  BY <1>1, Transitioned DEF id
<1>3. ASSUME NEW types
      PROVE  Named(types)' \subseteq Named(types) \union {v}
  BY <1>1, <1>2 DEF Named, Active, v
<1>4. ASSUME NEW types, ops[id].type \notin types
      PROVE  Named(types)' = Named(types)
  BY <1>1, <1>2, <1>4 DEF Named, Active
<1>5. ops[id].type \notin Publishing \/ ops[id].type \notin {"ROLLBACK"}
  BY DEF Publishing
<1> QED BY <1>1, <1>3, <1>4, <1>5, LogManaged

\* Rows of audits announce nothing.
LEMMA AuditRowsManaged ==
    ASSUME Known, Known', UNCHANGED oci, certState'.version = certState.version,
           DOMAIN ops' = DOMAIN ops,
           \A i \in DOMAIN ops : ops'[i] = ops[i] \/ (ops[i].type = "AUDIT" /\ ops'[i].type = "AUDIT")
    PROVE  Managed!Next
<1>1. ASSUME NEW types, "AUDIT" \notin types
      PROVE  Named(types)' = Named(types)
  BY <1>1 DEF Named, Active
<1>2. "AUDIT" \notin Publishing /\ "AUDIT" \notin {"ROLLBACK"}
  BY DEF Publishing
<1>3. oci.current \in DOMAIN oci.versions
  BY CertificateFacts DEF Known
<1> QED BY <1>1, <1>2, <1>3, LogManaged

\* An announced version is recorded.
LEMMA RecordManaged ==
    ASSUME Known, Known', UNCHANGED <<oci, ops>>, NEW p \in Process,
           proc[p].pc \in {"record", "recordRollback"}, certState'.version = proc[p].version
    PROVE  Managed!Next
<1> DEFINE v == proc[p].version
<1>1. /\ proc[p].pc \in PublishSteps \union RollbackSteps
      /\ proc[p].pc \in NamingSteps /\ proc[p].pc \in VersionSteps
  BY DEF PublishSteps, RollbackSteps, NamingSteps, ConfirmedSteps, RestoredSteps, VersionSteps
<1>2. /\ proc[p].op \in Active(ops) /\ ops[proc[p].op].version = v
      /\ ops[proc[p].op].type \in Publishing \/ ops[proc[p].op].type = "ROLLBACK"
      /\ v \in DOMAIN oci.versions /\ v # Null
  BY <1>1, OwnRowFacts, CertificateFacts DEF Known, CertificateInv, WorkInv, RowInv, Null
<1>3. v \in Named(Publishing) \union Named({"ROLLBACK"})
  BY <1>2, Announcing
<1>4. UNCHANGED <<Named(Publishing), Named({"ROLLBACK"})>>
  BY DEF Named, Active
<1>5. Managed!Accounted'
  BY KnownAccounted, PTL
<1>6. Managed!Record(v)
  BY <1>3, <1>4, <1>5 DEF Managed!Record, Managed!Announced, Managed!certificate
<1> QED BY <1>2, <1>6 DEF Managed!Next

\* A step that neither OCI nor the log notices.
LEMMA StutterManaged ==
    ASSUME UNCHANGED <<oci, ops>>, certState'.version = certState.version
    PROVE  UNCHANGED Managed!vars
BY DEF Named, Active, Managed!vars, Managed!certificate, Managed!log

-----------------------------------------------------------------------------
(***************************************************************************)
(* The refinement: every step of the program.                              *)
(***************************************************************************)

\* A row of an audit moves to another state.
LEMMA AuditLogManaged ==
    ASSUME Known, Known', UNCHANGED <<oci, certState>>, NEW p \in Process,
           proc[p].pc \in AuditSteps, NEW state \in OperationState,
           ops' = Transition(ops, proc[p].op, state, Null, Null)
    PROVE  Managed!Next
<1>1. ops \in Seq(Operation) /\ proc[p].op \in DOMAIN ops /\ ops[proc[p].op].type = "AUDIT"
  BY Worker DEF Known, Inv, TypeInv, TypeOK, OwnRow
<1>2. Null \in Nat
  BY DEF Null
<1>3. /\ DOMAIN ops' = DOMAIN ops
      /\ \A i \in DOMAIN ops : i # proc[p].op => ops'[i] = ops[i]
      /\ ops'[proc[p].op].type = ops[proc[p].op].type
  BY <1>1, <1>2, Transitioned
<1> QED BY <1>1, <1>3, AuditRowsManaged

\* Every step of PublicationReconciler.publish that does not call OCI.
LEMMA ReconcileManaged ==
    ASSUME Known, Known', NEW p \in Process, Reconcile(p), ~Upload(p), ~Promote(p)
    PROVE  Managed!Next \/ UNCHANGED Managed!vars
<1>1. CASE Start(p)
  <2>1. CASE UNCHANGED ops
    BY <1>1, <2>1, StutterManaged DEF Start
  <2>2. CASE ops' = StartOperation(ops, proc[p].cmd, local, Ocid)
    <3>1. UNCHANGED <<oci, certState>> /\ proc[p].pc = "start"
      BY <1>1 DEF Start
    <3>2. proc[p].cmd \in Publishing /\ local \in Nat
      BY <3>1, Worker DEF Known, Inv, TypeInv, TypeOK, OwnRow
    <3>3. proc[p].cmd \in OperationType
      BY <3>2 DEF Publishing, OperationType
    <3> QED BY <2>2, <3>1, <3>2, <3>3, InsertionManaged
  <2> QED BY <1>1, <2>1, <2>2 DEF Start
<1>2. ASSUME NEW label \in {"reconciled", "uploaded", "pendingVerified", "currentConfirmed",
                            "complete"},
             NEW state \in OperationState, NEW version \in {Null, proc[p].version},
             NEW next, LogStep(p, label, state, version, next)
      PROVE  Managed!Next
  <2>1. /\ UNCHANGED <<oci, certState>> /\ proc[p].pc = label
        /\ ops' = Transition(ops, proc[p].op, state, version, Null)
    BY <1>2 DEF LogStep
  <2>2. proc[p].pc \in PublishSteps /\ proc[p].pc \in VersionSteps
    BY <2>1 DEF PublishSteps, VersionSteps
  <2> QED BY <2>1, <2>2, OwnRowManaged
<1>3. CASE \/ Reconciled(p) \/ PendingUploaded(p) \/ PendingVerified(p) \/ CurrentConfirmed(p)
           \/ Complete(p)
  <2>1. {"OCI_RECONCILED", "OCI_PENDING_UPLOADED", "OCI_PENDING_VERIFIED",
         "OCI_CURRENT_CONFIRMED", "COMPLETED"} \subseteq OperationState
    BY DEF OperationState, TerminalStates
  <2> QED
    BY <1>2, <1>3, <2>1
       DEF Reconciled, PendingUploaded, PendingVerified, CurrentConfirmed, Complete
<1>4. CASE Record(p)
  <2>1. /\ UNCHANGED <<oci, ops>> /\ proc[p].pc = "record"
        /\ certState' = RecordPublicationSuccess(certState, proc[p].fp,
                            oci.versions[proc[p].version], proc[p].version)
    BY <1>4 DEF Record
  <2>2. certState'.version = proc[p].version
    BY <2>1 DEF RecordPublicationSuccess, Known, Inv, TypeInv, TypeOK, CertificateState
  <2> QED BY <2>1, <2>2, RecordManaged
<1>5. CASE CloseReconciled(p)
  <2>1. /\ UNCHANGED <<oci, certState>> /\ proc[p].pc = "closeReconciled"
        /\ ops' = CompleteReconciledOperations(ops, proc[p].op, proc[p].fp, proc[p].version)
    BY <1>5 DEF CloseReconciled
  <2>2. proc[p].fp \in Nat \ {0} /\ LeafRows /\ ops \in Seq(Operation)
    BY <2>1, OwnRowFacts DEF PublishSteps
  <2>3. DOMAIN ops' = DOMAIN ops
    BY <2>1 DEF CompleteReconciledOperations
  <2>4. ASSUME NEW i \in DOMAIN ops
        PROVE  ops'[i] = ops[i] \/ (i \notin Active(ops') /\ ops[i].type \in Publishing)
    <3> DEFINE closed == [ops[i] EXCEPT !.state = "COMPLETED", !.version = proc[p].version]
    <3>1. ops[i] \in Operation
      BY <2>2, <2>4
    <3>2. closed.state = "COMPLETED"
      BY <3>1 DEF Operation
    <3>3. ops'[i] = ops[i] \/ (ops[i].fp = proc[p].fp /\ ops'[i] = closed)
      BY <2>1, <2>4 DEF CompleteReconciledOperations
    <3>4. closed.state \in TerminalStates
      BY <3>2 DEF TerminalStates
    <3>5. ops[i].fp = proc[p].fp => ops[i].type \in Publishing
      BY <2>2, <2>4 DEF LeafRows, Null
    <3> HIDE DEF closed
    <3> QED BY <3>3, <3>4, <3>5 DEF Active
  <2>5. ASSUME NEW types
        PROVE  Named(types)' \subseteq Named(types)
    BY <2>3, <2>4 DEF Named, Active
  <2>6. "ROLLBACK" \notin Publishing
    BY DEF Publishing
  <2>7. Named({"ROLLBACK"})' = Named({"ROLLBACK"})
    BY <2>3, <2>4, <2>6 DEF Named, Active
  <2>8. oci.current \in DOMAIN oci.versions
    BY CertificateFacts DEF Known
  <2> QED BY <2>1, <2>5, <2>7, <2>8, LogManaged
<1>6. CASE RecordRenewal(p)
  <2>1. certState'.version = certState.version /\ UNCHANGED <<oci, ops>>
    BY <1>6 DEF RecordRenewal, RecordRenewalSuccess, Known, Inv, TypeInv, TypeOK, CertificateState
  <2> QED BY <2>1, StutterManaged
<1>7. CASE \/ Renew(p) \/ GetCertificate(p) \/ GetCurrent(p) \/ Find(p) \/ FindUploaded(p)
           \/ Refresh(p) \/ Confirm(p)
  <2>1. UNCHANGED <<oci, ops, certState>>
    BY <1>7 DEF Renew, GetCertificate, GetCurrent, Find, FindUploaded, Refresh, Confirm
  <2> QED BY <2>1, StutterManaged
<1> QED BY <1>1, <1>3, <1>4, <1>5, <1>6, <1>7 DEF Reconcile

\* Every step of RollbackService.rollback that does not call OCI.
LEMMA RollbackManaged ==
    ASSUME Known, Known', NEW p \in Process, Rollback(p), ~Restore(p)
    PROVE  Managed!Next \/ UNCHANGED Managed!vars
<1>1. CASE RollbackStart(p)
  <2>1. /\ UNCHANGED <<oci, certState>>
        /\ ops' = StartOperation(ops, "ROLLBACK", Null, Ocid)
    BY <1>1 DEF RollbackStart
  <2>2. "ROLLBACK" \in OperationType /\ Null \in Nat
    BY DEF OperationType, Null
  <2> QED BY <2>1, <2>2, InsertionManaged
<1>2. ASSUME NEW label \in {"rollbackReconciled", "rollbackConfirmed", "rollbackAuditPending",
                            "rollbackAudit", "rollbackComplete"}, proc[p].pc = label,
             NEW state \in OperationState, NEW version \in {Null, proc[p].version},
             UNCHANGED <<oci, certState>>,
             ops' = Transition(ops, proc[p].op, state, version, Null)
      PROVE  Managed!Next
  <2>1. proc[p].pc \in RollbackSteps /\ proc[p].pc \in VersionSteps
    BY <1>2 DEF RollbackSteps, VersionSteps
  <2> QED BY <1>2, <2>1, OwnRowManaged
<1>3. {"OCI_RECONCILED", "OCI_CURRENT_CONFIRMED", "AUDIT_PENDING", "AUDIT_SUCCESS",
       "ROLLBACK_FAILED", "COMPLETED"} \subseteq OperationState
  BY DEF OperationState, TerminalStates
<1>4. CASE \/ RollbackReconciled(p) \/ RollbackConfirmed(p) \/ RollbackAuditPending(p)
           \/ RollbackComplete(p)
  BY <1>2, <1>3, <1>4
     DEF RollbackReconciled, RollbackConfirmed, RollbackAuditPending, RollbackComplete, LogStep
<1>5. CASE RollbackAudit(p)
  BY <1>2, <1>3, <1>5 DEF RollbackAudit
<1>6. CASE RecordRollback(p)
  <2>1. /\ UNCHANGED <<oci, ops>> /\ proc[p].pc = "recordRollback"
        /\ certState' = RecordRollbackSuccess(certState, proc[p].fp, proc[p].version)
    BY <1>6 DEF RecordRollback
  <2>2. certState'.version = proc[p].version
    BY <2>1 DEF RecordRollbackSuccess, Known, Inv, TypeInv, TypeOK, CertificateState
  <2> QED BY <2>1, <2>2, RecordManaged
<1>7. CASE PreviousVersion(p) \/ RollbackEtag(p) \/ RollbackConfirm(p)
  <2>1. UNCHANGED <<oci, ops, certState>>
    BY <1>7 DEF PreviousVersion, RollbackEtag, RollbackConfirm
  <2> QED BY <2>1, StutterManaged
<1> QED BY <1>1, <1>4, <1>5, <1>6, <1>7 DEF Rollback

\* Every step of PublicationService.audit.
LEMMA AuditManaged ==
    ASSUME Known, Known', NEW p \in Process, Audit(p)
    PROVE  Managed!Next \/ UNCHANGED Managed!vars
<1>1. CASE AuditStart(p)
  <2>1. /\ UNCHANGED <<oci, certState>>
        /\ ops' = StartOperation(ops, "AUDIT", Null, Ocid)
    BY <1>1 DEF AuditStart
  <2>2. "AUDIT" \in OperationType /\ Null \in Nat
    BY DEF OperationType, Null
  <2> QED BY <2>1, <2>2, InsertionManaged
<1>2. ASSUME NEW label \in {"auditPending", "audit", "auditComplete"}, proc[p].pc = label,
             NEW state \in OperationState, UNCHANGED <<oci, certState>>,
             ops' = Transition(ops, proc[p].op, state, Null, Null)
      PROVE  Managed!Next
  <2>1. proc[p].pc \in AuditSteps
    BY <1>2 DEF AuditSteps
  <2> QED BY <1>2, <2>1, AuditLogManaged
<1>3. {"AUDIT_PENDING", "AUDIT_SUCCESS", "AUDIT_FAILED", "COMPLETED"} \subseteq OperationState
  BY DEF OperationState, TerminalStates
<1>4. CASE AuditPending(p) \/ AuditSucceeds(p) \/ AuditComplete(p)
  BY <1>2, <1>3, <1>4 DEF AuditPending, AuditSucceeds, AuditComplete, LogStep
<1>5. CASE AuditFails(p)
  BY <1>2, <1>3, <1>5 DEF AuditFails
<1>6. CASE CloseAudits(p)
  <2>1. UNCHANGED <<oci, certState>> /\ ops' = CompleteInterruptedAudits(ops, proc[p].op)
    BY <1>6 DEF CloseAudits
  <2>2. ops \in Seq(Operation)
    BY DEF Known, Inv, TypeInv, TypeOK
  <2>3. /\ DOMAIN ops' = DOMAIN ops
        /\ \A i \in DOMAIN ops : ops'[i] = ops[i] \/ (ops[i].type = "AUDIT" /\ ops'[i].type = "AUDIT")
    <3>1. DOMAIN ops' = DOMAIN ops /\ Keeps(ops, ops')
      BY <2>1, <2>2, InterruptedAuditsCompleted DEF CompleteInterruptedAudits
    <3>2. \A i \in DOMAIN ops : ops'[i] = ops[i] \/ ops'[i].type = "AUDIT"
      BY <2>1, <2>2, InterruptedAuditsCompleted
    <3> QED BY <3>1, <3>2 DEF Keeps
  <2> QED BY <2>1, <2>3, AuditRowsManaged
<1>7. CASE AuditBundle(p)
  BY <1>7, StutterManaged DEF AuditBundle
<1>8. CASE RecordAudit(p)
  <2>1. certState'.version = certState.version /\ UNCHANGED <<oci, ops>>
    BY <1>8 DEF RecordAudit, RecordAuditSuccess, Known, Inv, TypeInv, TypeOK, CertificateState
  <2> QED BY <2>1, StutterManaged
<1> QED BY <1>1, <1>4, <1>5, <1>6, <1>7, <1>8 DEF Audit

\* Every step is one of ManagedCertificate, or none of its business.
LEMMA NextManaged ==
    ASSUME ~Lag PROVE Known /\ Known' /\ [Next]_vars => Managed!Next \/ UNCHANGED Managed!vars
<1> SUFFICES ASSUME Known, Known', [Next]_vars PROVE Managed!Next \/ UNCHANGED Managed!vars
  OBVIOUS
<1>1. CASE \E req \in Request : Mutated(req)
  BY <1>1, MutatedManaged
<1>2. CASE oci' = oci
  <2>1. ASSUME NEW p \in Process,
               \/ Upload(p) \/ Promote(p) \/ Restore(p) \/ Retention(p) \/ Return(p) \/ Die(p)
               \/ \E cmd \in Commands : Acquire(p, cmd)
        PROVE  UNCHANGED Managed!vars
    <3>1. UNCHANGED <<ops, certState>>
      BY <2>1 DEF Upload, Promote, Restore, Retention, RetentionPlan, RetentionNext, Schedule,
                  Return, Die, Acquire
    <3> QED BY <1>2, <3>1, StutterManaged
  <2>2. ASSUME Environment \/ UNCHANGED vars
        PROVE  UNCHANGED Managed!vars
    <3>1. UNCHANGED <<ops, certState>>
      BY <2>2 DEF Environment, ArriveLate, ListingSettles, RetrievalSettles, Expire, vars
    <3> QED BY <1>2, <3>1, StutterManaged
  <2> QED BY <2>1, <2>2, ReconcileManaged, RollbackManaged, AuditManaged DEF Next, Step
<1> QED BY <1>1, <1>2, OnlyGroundedRequests

\* The certificate, what is recorded of it and what the open rows announce
\* behave like the register with a write-ahead log: whatever is killed,
\* retried or late, CURRENT moves only to a version announced before, and is
\* recorded or announced ever after.
THEOREM CertificateIsManaged == ASSUME ~Lag PROVE Spec => ManagesCertificate
<1>1. Known /\ Known' /\ [Next]_vars => [Managed!Next]_(Managed!vars)
  BY NextManaged
<1> QED BY <1>1, InitManaged, CertificateInvariance, PTL DEF Spec, ManagesCertificate, Managed!Spec
=================================================================================
