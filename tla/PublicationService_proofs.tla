----------------------- MODULE PublicationService_proofs -----------------------
(***************************************************************************)
(* Proofs about PublicationService, for any number of processes and any    *)
(* bounds.                                                                 *)
(***************************************************************************)
EXTENDS PublicationInvariant, SequenceTheorems, TLAPS

(***************************************************************************)
(* The OCI certificate.                                                    *)
(***************************************************************************)

\* No request changes what an existing version carries, and the certificate
\* stays well formed (Uploaded, Promoted, Scheduled).
Grows(c, d) ==
    /\ Len(c.versions) \in Nat /\ Len(d.versions) \in Nat
    /\ Len(c.versions) <= Len(d.versions)
    /\ DOMAIN c.versions = 1..Len(c.versions)
    /\ DOMAIN d.versions = 1..Len(d.versions)
    /\ \A i \in DOMAIN c.versions : d.versions[i] = c.versions[i]

\* The fields of a well-formed certificate have their types.
LEMMA CertificateFields ==
    ASSUME NEW c \in Certificate
    PROVE  /\ c.versions \in Seq(Nat \ {0}) /\ c.etag \in Nat
           /\ Len(c.versions) \in Nat
           /\ DOMAIN c.versions = 1..Len(c.versions)
           /\ \A i \in DOMAIN c.versions : c.versions[i] \in Nat \ {0}
BY DEF Certificate

\* A certificate whose versions are unchanged has, a fortiori, only grown.
LEMMA SameVersionsGrow ==
    ASSUME NEW c, NEW d, WellFormed(c), d.versions = c.versions
    PROVE  Grows(c, d)
BY CertificateFields DEF WellFormed, Grows

\* What makes a certificate that shares a well-formed one's versions, or
\* extends them by one, well formed.
LEMMA StaysWellFormed ==
    ASSUME NEW c, WellFormed(c), NEW d \in Certificate,
           Len(d.versions) \in {Len(c.versions), Len(c.versions) + 1},
           d.current \in DOMAIN c.versions, d.served \in DOMAIN c.versions,
           d.listed \in DOMAIN d.versions,
           d.previous \in 0..Len(c.versions), d.pending \in 0..Len(d.versions)
    PROVE  WellFormed(d)
<1>1. c \in Certificate
  BY DEF WellFormed
<1>2. /\ Len(c.versions) \in Nat /\ DOMAIN c.versions = 1..Len(c.versions)
      /\ Len(d.versions) \in Nat /\ DOMAIN d.versions = 1..Len(d.versions)
  BY <1>1, CertificateFields
<1>3. /\ d.current \in DOMAIN d.versions /\ d.served \in DOMAIN d.versions
      /\ d.previous \in 0..Len(d.versions)
  <2> DEFINE m == Len(c.versions)
             n == Len(d.versions)
  <2>1. m \in Nat /\ n \in {m, m + 1} /\ DOMAIN c.versions = 1..m /\ DOMAIN d.versions = 1..n
    BY <1>2
  <2>2. d.current \in 1..m /\ d.served \in 1..m /\ d.previous \in 0..m
    BY <2>1
  <2> HIDE DEF m, n
  <2>3. d.current \in 1..n /\ d.served \in 1..n /\ d.previous \in 0..n
    BY <2>1, <2>2
  <2> QED BY <2>1, <2>3 DEF n
<1> QED BY <1>3 DEF WellFormed

\* An accepted upload appends one well-formed version and keeps the others.
LEMMA UploadedWellFormed ==
    ASSUME NEW c, WellFormed(c), NEW fp \in Nat \ {0}, NEW lag \in BOOLEAN
    PROVE  /\ WellFormed(Uploaded(c, fp, lag))
           /\ Uploaded(c, fp, lag).versions = Append(c.versions, fp)
           /\ Grows(c, Uploaded(c, fp, lag))
<1> DEFINE n == Len(c.versions) + 1
           b == IF lag THEN c.listed ELSE n
           vs == Append(c.versions, fp)
           e == c.etag + 1
           d == [c EXCEPT !.versions = vs, !.pending = n, !.etag = e, !.listed = b]
<1>1. c \in Certificate /\ c.versions \in Seq(Nat \ {0}) /\ c.etag \in Nat
  BY CertificateFields DEF WellFormed
<1>2. /\ vs \in Seq(Nat \ {0}) /\ Len(vs) = n
      /\ n \in Nat /\ e \in Nat /\ n = Len(c.versions) + 1
      /\ Len(c.versions) \in Nat
      /\ DOMAIN c.versions = 1..Len(c.versions)
      /\ \A i \in 1..Len(c.versions) : vs[i] = c.versions[i]
  BY <1>1
<1>3. Uploaded(c, fp, lag) = d
  BY DEF Uploaded
<1>4. b \in {c.listed, n} /\ b \in Nat
  BY <1>1, <1>2 DEF Certificate
<1> HIDE DEF n, b, vs, e
<1>5. d \in Certificate /\ d.versions = vs /\ d.current = c.current
      /\ d.served = c.served /\ d.previous = c.previous
      /\ d.pending = n /\ d.listed = b
  BY <1>1, <1>2, <1>4 DEF Certificate
<1> HIDE DEF d
<1>6. DOMAIN d.versions = 1..n
  BY <1>2, <1>5, CertificateFields
<1>7. c.current \in DOMAIN c.versions /\ c.served \in DOMAIN c.versions
      /\ c.listed \in DOMAIN c.versions /\ c.previous \in 0..Len(c.versions)
  BY DEF WellFormed
<1>8. WellFormed(d)
  <2>1. d.listed \in 1..n /\ d.pending \in 0..n
    BY <1>2, <1>4, <1>5, <1>7
  <2>2. Len(d.versions) = n
    BY <1>2, <1>5
  <2> QED BY <1>2, <1>5, <1>6, <1>7, <2>1, <2>2, StaysWellFormed
<1>9. Grows(c, d)
  BY <1>2, <1>5, <1>6 DEF Grows
<1> QED BY <1>3, <1>5, <1>8, <1>9 DEF vs

\* A promotion moves stages only: no version or leaf changes.
LEMMA PromotedWellFormed ==
    ASSUME NEW c, WellFormed(c), NEW v \in DOMAIN c.versions, NEW lag \in BOOLEAN
    PROVE  /\ WellFormed(Promoted(c, v, lag))
           /\ Promoted(c, v, lag).versions = c.versions
<1> DEFINE b == IF c.pending = v THEN NoVersion ELSE c.pending
           e == c.etag + 1
           w == IF lag THEN c.served ELSE v
           d == [c EXCEPT !.current = v, !.previous = c.current, !.pending = b,
                          !.etag = e, !.served = w]
<1>1. /\ c \in Certificate /\ Len(c.versions) \in Nat /\ c.etag \in Nat
      /\ DOMAIN c.versions = 1..Len(c.versions)
  BY CertificateFields DEF WellFormed
<1>2. c.current \in DOMAIN c.versions /\ c.served \in DOMAIN c.versions
      /\ c.listed \in DOMAIN c.versions /\ c.pending \in 0..Len(c.versions)
  BY DEF WellFormed
<1>3. /\ v \in Nat /\ e \in Nat /\ c.current \in Nat
      /\ w \in DOMAIN c.versions /\ w \in Nat
      /\ b \in 0..Len(c.versions) /\ b \in Nat
  BY <1>1, <1>2 DEF NoVersion
<1>4. Promoted(c, v, lag) = d
  BY DEF Promoted
<1> HIDE DEF b, e, w
<1>5. d \in Certificate /\ d.versions = c.versions /\ d.current = v
      /\ d.served = w /\ d.previous = c.current
      /\ d.pending = b /\ d.listed = c.listed
  BY <1>1, <1>3 DEF Certificate
<1> HIDE DEF d
<1>6. c.current \in 0..Len(c.versions)
  BY <1>1, <1>2
<1>7. WellFormed(d)
  BY <1>1, <1>2, <1>3, <1>5, <1>6, StaysWellFormed
<1> QED BY <1>4, <1>5, <1>7

\* A scheduled deletion changes the fate of one version and no leaf.
LEMMA ScheduledWellFormed ==
    ASSUME NEW c, WellFormed(c), NEW v \in DOMAIN c.versions
    PROVE  /\ WellFormed(Scheduled(c, v))
           /\ Scheduled(c, v).versions = c.versions
<1> DEFINE s == c.deleted \union {v}
           e == c.etag + 1
           d == [c EXCEPT !.deleted = s, !.etag = e]
<1>1. /\ c \in Certificate /\ Len(c.versions) \in Nat /\ c.etag \in Nat
      /\ DOMAIN c.versions = 1..Len(c.versions)
  BY CertificateFields DEF WellFormed
<1>2. e \in Nat /\ s \in SUBSET Nat
  BY <1>1 DEF Certificate
<1>3. Scheduled(c, v) = d
  BY DEF Scheduled
<1> HIDE DEF s, e
<1>4. d \in Certificate /\ d.versions = c.versions /\ d.current = c.current
      /\ d.served = c.served /\ d.previous = c.previous
      /\ d.pending = c.pending /\ d.listed = c.listed
  BY <1>1, <1>2 DEF Certificate
<1> HIDE DEF d
<1>5. WellFormed(d)
  BY <1>4 DEF WellFormed
<1> QED BY <1>3, <1>4, <1>5

\* A request that can be executed: what NetInv says of one in flight.
Executable(req) ==
    /\ req \in Request
    /\ req.kind = "upload" => req.arg \in 1..local
    /\ req.kind # "upload" => req.arg \in DOMAIN oci.versions

\* Whatever request OCI executes, or refuses by its etag, the certificate
\* stays well formed and its versions keep their leaves.
LEMMA ExecutedWellFormed ==
    ASSUME WellFormed(oci), local \in Nat, NEW req, Executable(req), Lag \in BOOLEAN
    PROVE  /\ WellFormed(Executed(oci, req, Lag))
           /\ Grows(oci, Executed(oci, req, Lag))
<1>1. CASE req.kind = "upload"
  <2>1. req.arg \in Nat \ {0}
    BY <1>1 DEF Executable
  <2>2. Executed(oci, req, Lag) = Uploaded(oci, req.arg, Lag)
    BY <1>1 DEF Executed
  <2> QED BY <2>1, <2>2, UploadedWellFormed
<1>2. CASE req.kind = "promote"
  <2>1. req.arg \in DOMAIN oci.versions
    BY <1>2 DEF Executable
  <2>2. Executed(oci, req, Lag) = Promoted(oci, req.arg, Lag)
    BY <1>2 DEF Executed
  <2> QED BY <2>1, <2>2, PromotedWellFormed, SameVersionsGrow
<1>3. CASE req.kind = "delete"
  <2>1. req.arg \in DOMAIN oci.versions
    BY <1>3 DEF Executable
  <2>2. Executed(oci, req, Lag) = Scheduled(oci, req.arg)
    BY <1>3 DEF Executed
  <2> QED BY <2>1, <2>2, ScheduledWellFormed, SameVersionsGrow
<1> QED BY <1>1, <1>2, <1>3 DEF Executable, Request

-----------------------------------------------------------------------------
(***************************************************************************)
(* The operations table.                                                   *)
(***************************************************************************)

\* The table keeps its rows, and every row its type and fingerprint.
Keeps(o, n) ==
    /\ o \in Seq(Operation) /\ n \in Seq(Operation)
    /\ DOMAIN o = 1..Len(o) /\ DOMAIN n = 1..Len(n)
    /\ Len(o) \in Nat /\ Len(n) \in Nat /\ Len(o) <= Len(n)
    /\ \A i \in DOMAIN o : n[i].type = o[i].type /\ n[i].fp = o[i].fp

\* A table that does not change keeps its type.
LEMMA OperationsKept ==
    ASSUME NEW o \in Seq(Operation)
    PROVE  Keeps(o, o)
BY DEF Keeps

\* start_operation appends one row in DISCOVERED and keeps the others.
LEMMA OperationStarted ==
    ASSUME NEW o \in Seq(Operation), NEW type \in OperationType,
           NEW fp \in Nat, NEW ocid \in Nat
    PROVE  LET n == StartOperation(o, type, fp, ocid) IN
           /\ Keeps(o, n)
           /\ Len(n) = Len(o) + 1
           /\ \A i \in DOMAIN o : n[i] = o[i]
           /\ Len(o) + 1 \in DOMAIN n
           /\ n[Len(o) + 1].type = type /\ n[Len(o) + 1].fp = fp
           /\ n[Len(o) + 1].state = "DISCOVERED"
<1> DEFINE row == [type |-> type, state |-> "DISCOVERED", fp |-> fp,
                   ocid |-> ocid, version |-> Null]
           n == Append(o, row)
<1>1. row \in Operation /\ row.type = type /\ row.fp = fp /\ row.state = "DISCOVERED"
  BY DEF Operation, OperationState, Null
<1>2. StartOperation(o, type, fp, ocid) = n
  BY DEF StartOperation
<1> HIDE DEF row
<1>3. /\ n \in Seq(Operation) /\ Len(n) = Len(o) + 1 /\ Len(o) \in Nat
      /\ DOMAIN o = 1..Len(o) /\ DOMAIN n = 1..Len(n)
      /\ \A i \in 1..Len(o) : n[i] = o[i]
      /\ n[Len(o) + 1] = row
  BY <1>1
<1> HIDE DEF n
<1> QED BY <1>1, <1>2, <1>3 DEF Keeps

\* A table in which every row is rewritten by a function of its old value.
LEMMA RowsRewritten ==
    ASSUME NEW o \in Seq(Operation), NEW n, n = [i \in DOMAIN o |-> n[i]],
           \A i \in DOMAIN o : /\ n[i] \in Operation
                               /\ n[i].type = o[i].type /\ n[i].fp = o[i].fp
    PROVE  Keeps(o, n) /\ Len(n) = Len(o)
<1>1. Len(o) \in Nat /\ DOMAIN o = 1..Len(o)
  OBVIOUS
<1>2. DOMAIN n = 1..Len(o) /\ \A i \in 1..Len(o) : n[i] \in Operation
  BY <1>1
<1>3. n \in Seq(Operation) /\ Len(n) = Len(o)
  BY <1>1, <1>2
<1> QED BY <1>1, <1>2, <1>3 DEF Keeps

\* transition rewrites one row, and it only.
LEMMA OperationTransitioned ==
    ASSUME NEW o \in Seq(Operation), NEW id \in DOMAIN o,
           NEW state \in OperationState, NEW version \in Nat
    PROVE  LET n == Transition(o, id, state, version, Null) IN
           /\ Keeps(o, n) /\ Len(n) = Len(o)
           /\ \A i \in DOMAIN o : i # id => n[i] = o[i]
           /\ n[id].state = state
           /\ version # Null => n[id].version = version
<1> DEFINE v == Coalesce(version, o[id].version)
           c == Coalesce(Null, o[id].ocid)
           row == [o[id] EXCEPT !.state = state, !.version = v, !.ocid = c]
           n == [o EXCEPT ![id] = row]
<1>1. o[id] \in Operation
  OBVIOUS
<1>2. v \in Nat /\ c \in Nat /\ (version # Null => v = version)
  BY <1>1 DEF Coalesce, Null, Operation
<1>3. Transition(o, id, state, version, Null) = n
  BY Zenon DEF Transition
<1> HIDE DEF v, c
<1>4. /\ row \in Operation /\ row.type = o[id].type /\ row.fp = o[id].fp
      /\ row.state = state /\ row.version = v
  BY <1>1, <1>2 DEF Operation
<1> HIDE DEF row
<1>5. /\ n = [i \in DOMAIN o |-> n[i]]
      /\ n[id] = row
      /\ \A i \in DOMAIN o : i # id => n[i] = o[i]
      /\ \A i \in DOMAIN o : o[i] \in Operation
  OBVIOUS
<1> HIDE DEF n
<1>6. Keeps(o, n) /\ Len(n) = Len(o)
  BY <1>4, <1>5, RowsRewritten
<1> QED BY <1>2, <1>3, <1>4, <1>5, <1>6

\* complete_reconciled_operations rewrites rows in place.
LEMMA ReconciledOperationsCompleted ==
    ASSUME NEW o \in Seq(Operation), NEW id, NEW fp \in Nat, NEW version \in Nat
    PROVE  LET n == CompleteReconciledOperations(o, id, fp, version) IN
           /\ Keeps(o, n) /\ Len(n) = Len(o)
           /\ \A i \in DOMAIN o :
                 n[i] = o[i] \/ (n[i].fp = fp /\ n[i].version = version)
<1> DEFINE Closed(i) == [o[i] EXCEPT !.state = "COMPLETED", !.version = version]
           n == CompleteReconciledOperations(o, id, fp, version)
<1>1. ASSUME NEW i \in DOMAIN o
      PROVE  o[i] \in Operation
  OBVIOUS
<1>2. "COMPLETED" \in OperationState
  BY DEF OperationState, TerminalStates
<1>3. ASSUME NEW i \in DOMAIN o
      PROVE  /\ Closed(i) \in Operation /\ Closed(i).type = o[i].type
             /\ Closed(i).fp = o[i].fp /\ Closed(i).version = version
  BY <1>1, <1>2 DEF Operation
<1>4. /\ n = [i \in DOMAIN o |-> n[i]]
      /\ \A i \in DOMAIN o : n[i] = o[i] \/ (n[i] = Closed(i) /\ o[i].fp = fp)
  BY DEF CompleteReconciledOperations
<1> HIDE DEF n, Closed
<1>5. Keeps(o, n) /\ Len(n) = Len(o)
  BY <1>1, <1>3, <1>4, RowsRewritten
<1> QED BY <1>3, <1>4, <1>5 DEF n

\* complete_interrupted_audits rewrites rows in place.
LEMMA InterruptedAuditsCompleted ==
    ASSUME NEW o \in Seq(Operation), NEW id
    PROVE  LET n == CompleteInterruptedAudits(o, id) IN
           /\ Keeps(o, n) /\ Len(n) = Len(o)
           /\ \A i \in DOMAIN o : n[i] = o[i] \/ n[i].type = "AUDIT"
<1> DEFINE Closed(i) == [o[i] EXCEPT !.state = "COMPLETED"]
           n == CompleteInterruptedAudits(o, id)
<1>1. ASSUME NEW i \in DOMAIN o
      PROVE  o[i] \in Operation
  OBVIOUS
<1>2. "COMPLETED" \in OperationState
  BY DEF OperationState, TerminalStates
<1>3. ASSUME NEW i \in DOMAIN o
      PROVE  /\ Closed(i) \in Operation /\ Closed(i).type = o[i].type
             /\ Closed(i).fp = o[i].fp
  BY <1>1, <1>2 DEF Operation
<1>4. /\ n = [i \in DOMAIN o |-> n[i]]
      /\ \A i \in DOMAIN o : n[i] = o[i] \/ (n[i] = Closed(i) /\ o[i].type = "AUDIT")
  BY DEF CompleteInterruptedAudits
<1> HIDE DEF n, Closed
<1>5. Keeps(o, n) /\ Len(n) = Len(o)
  BY <1>1, <1>3, <1>4, RowsRewritten
<1> QED BY <1>3, <1>4, <1>5 DEF n

-----------------------------------------------------------------------------
(***************************************************************************)
(* Steps of a process.  Only the holder of the lock takes one, so all the  *)
(* other processes are idle and every part of the invariant that speaks of *)
(* a process's locals concerns the one that moves.                         *)
(***************************************************************************)
Inv == TypeInv /\ CompletedIsTruthful

\* A step of one process leaves the processes without the lock idle.
LEMMA ProcessStep ==
    ASSUME Inv, NEW p \in Process, proc[p].pc # "idle",
           NEW r \in ProcessState, Become(p, r),
           lock' = lock \/ (lock' = Free /\ r.pc = "idle"),
           WellFormed(oci'), Grows(oci, oci'), Keeps(ops, ops'),
           net' \subseteq Request, NetInv',
           certState' \in CertificateState,
           local' \in Nat \ {0}, expired' \in Nat, faults' \in Nat,
           r.op \in 0..Len(ops'), r.version \in 0..Len(oci'.versions),
           r.plan \subseteq DOMAIN oci'.versions,
           OwnRow(p)', OwnVersion(p)', CompletedIsTruthful'
    PROVE  Inv'
<1>1. proc \in [Process -> ProcessState] /\ lock \in Process \union {Free}
  BY DEF Inv, TypeInv, TypeOK
<1>2. /\ proc' \in [Process -> ProcessState]
      /\ proc'[p] = r
      /\ \A q \in Process : q # p => proc'[q] = proc[q]
  BY <1>1 DEF Become
<1>3. lock = p /\ \A q \in Process : q # p => proc[q].pc = "idle"
  BY DEF Inv, TypeInv, LockInv
<1>4. LockInv'
  BY <1>2, <1>3 DEF LockInv
<1>5. ASSUME NEW q \in Process
      PROVE  OwnRow(q)' /\ OwnVersion(q)'
  <2>1. CASE q = p
    BY <2>1
  <2>2. CASE q # p
    <3>1. proc'[q].pc = "idle"
      BY <1>2, <1>3, <2>2
    <3> QED BY <3>1 DEF OwnRow, OwnVersion, PublishSteps, RollbackSteps, AuditSteps,
                        VersionSteps, ConfirmedSteps
  <2> QED BY <2>1, <2>2
<1>6. ASSUME NEW q \in Process
      PROVE  /\ proc'[q].op \in 0..Len(ops')
             /\ proc'[q].version \in 0..Len(oci'.versions)
             /\ proc'[q].plan \subseteq DOMAIN oci'.versions
  <2>1. CASE q = p
    BY <1>2, <2>1
  <2>2. CASE q # p
    <3>1. /\ proc[q].op \in 0..Len(ops)
          /\ proc[q].version \in 0..Len(oci.versions)
          /\ proc[q].plan \subseteq DOMAIN oci.versions
      BY DEF Inv, TypeInv, TypeOK
    <3>2. proc'[q] = proc[q]
      BY <1>2, <2>2
    <3>3. proc[q].op \in 0..Len(ops')
      BY <3>1 DEF Keeps
    <3>4. /\ proc[q].version \in 0..Len(oci'.versions)
          /\ proc[q].plan \subseteq DOMAIN oci'.versions
      <4> DEFINE m == Len(oci.versions)
                 n == Len(oci'.versions)
                 v == proc[q].version
      <4>1. m \in Nat /\ n \in Nat /\ m <= n
        BY Zenon DEF Grows
      <4>2. DOMAIN oci.versions = 1..m /\ DOMAIN oci'.versions = 1..n
        BY Zenon DEF Grows
      <4>3. v \in 0..m
        BY <3>1, Zenon
      <4>4. 1..m \subseteq 1..n /\ v \in 0..n
        <5> HIDE DEF m, n, v
        <5> QED BY <4>1, <4>3
      <4> HIDE DEF m, n
      <4> QED BY <3>1, <4>2, <4>4, Zenon DEF n
    <3> QED BY <3>2, <3>3, <3>4
  <2> QED BY <2>1, <2>2
<1>7. ops' \in Seq(Operation) /\ lock' \in Process \union {Free}
  BY <1>1 DEF Keeps
<1>8. TypeOK'
  BY <1>2, <1>6, <1>7 DEF TypeOK
<1> QED BY <1>4, <1>5, <1>8 DEF Inv, TypeInv

\* What the invariant says of a process at work.
LEMMA Worker ==
    ASSUME Inv, NEW p \in Process
    PROVE  /\ WellFormed(oci) /\ Grows(oci, oci) /\ ops \in Seq(Operation) /\ Keeps(ops, ops)
           /\ proc[p] \in ProcessState
           /\ proc[p].op \in 0..Len(ops)
           /\ proc[p].version \in 0..Len(oci.versions)
           /\ proc[p].plan \subseteq DOMAIN oci.versions
           /\ OwnRow(p) /\ OwnVersion(p)
           /\ net \subseteq Request /\ NetInv
           /\ certState \in CertificateState
           /\ local \in Nat \ {0} /\ expired \in Nat /\ faults \in Nat
<1>1. WellFormed(oci) /\ ops \in Seq(Operation)
  BY DEF Inv, TypeInv, TypeOK
<1> QED BY <1>1, SameVersionsGrow, OperationsKept DEF Inv, TypeInv, TypeOK

\* A completed row stays truthful while the certificate only grows: it
\* suffices to look at the rows that change.
LEMMA TruthfulRows ==
    ASSUME Inv, Grows(oci, oci'),
           \A i \in DOMAIN ops' :
              \/ i \in DOMAIN ops /\ ops'[i] = ops[i]
              \/ ops'[i].state # "COMPLETED"
              \/ ops'[i].type \notin Publishing
              \/ /\ ops'[i].version \in DOMAIN oci.versions
                 /\ oci.versions[ops'[i].version] = ops'[i].fp
    PROVE  CompletedIsTruthful'
<1> SUFFICES ASSUME NEW i \in DOMAIN ops', ops'[i].state = "COMPLETED",
                    ops'[i].type \in Publishing
             PROVE  /\ ops'[i].version \in DOMAIN oci'.versions
                    /\ oci'.versions[ops'[i].version] = ops'[i].fp
  BY DEF CompletedIsTruthful
<1>1. /\ ops'[i].version \in DOMAIN oci.versions
      /\ oci.versions[ops'[i].version] = ops'[i].fp
  BY DEF Inv, CompletedIsTruthful
<1> QED BY <1>1 DEF Grows

\* A process that runs no command is in a well-typed state.
LEMMA IdleState == Idle \in ProcessState /\ Idle.pc = "idle" /\ Idle.op = 0
                   /\ Idle.version = 0 /\ Idle.plan = {}
<1>1. "idle" \in Labels
  BY DEF Labels
<1> QED BY <1>1 DEF Idle, ProcessState

\* The command ends, whatever its last step did to the rest.
LEMMA ExitStep ==
    ASSUME Inv, NEW p \in Process, proc[p].pc # "idle", Exit(p),
           WellFormed(oci'), Grows(oci, oci'), Keeps(ops, ops'),
           net' \subseteq Request, NetInv', certState' \in CertificateState,
           local' \in Nat \ {0}, expired' \in Nat, faults' \in Nat,
           CompletedIsTruthful'
    PROVE  Inv'
<1>1. Become(p, Idle) /\ lock' = Free
  BY DEF Exit
<1>2. proc'[p].pc = "idle"
  <2>1. proc \in [Process -> ProcessState]
    BY DEF Inv, TypeInv, TypeOK
  <2> QED BY <1>1, <2>1, IdleState DEF Become
<1>3. OwnRow(p)' /\ OwnVersion(p)'
  BY <1>2 DEF OwnRow, OwnVersion, PublishSteps, RollbackSteps, AuditSteps,
              VersionSteps, ConfirmedSteps
<1>4. Idle.op \in 0..Len(ops') /\ Idle.version \in 0..Len(oci'.versions)
      /\ Idle.plan \subseteq DOMAIN oci'.versions
  BY IdleState DEF Keeps, Grows
<1> HIDE DEF Idle
<1> QED BY <1>1, <1>3, <1>4, IdleState, ProcessStep

\* The step of one component leads to another of the same component, or to a
\* step at which the process owns no row.
Follows(l, m) ==
    /\ m \in PublishSteps => l \in PublishSteps
    /\ m \in RollbackSteps => l \in RollbackSteps
    /\ m \in AuditSteps => l \in AuditSteps
    /\ m \notin {"start", "renew"}

\* A step that leaves the operations and the lineage alone.
LEMMA WorkStep ==
    ASSUME Inv, NEW p \in Process, proc[p].pc # "idle",
           NEW r \in ProcessState, Become(p, r),
           UNCHANGED <<ops, local, expired, lock>>,
           WellFormed(oci'), Grows(oci, oci'), net' \subseteq Request, NetInv',
           certState' \in CertificateState, faults' \in Nat,
           r.cmd = proc[p].cmd, r.op = proc[p].op,
           r.fp = proc[p].fp \/ r.pc \notin PublishSteps,
           Follows(proc[p].pc, r.pc),
           r.version \in 0..Len(oci.versions), r.plan \subseteq DOMAIN oci.versions,
           r.pc \in VersionSteps => r.version \in DOMAIN oci.versions,
           r.pc \in ConfirmedSteps =>
              r.version \in DOMAIN oci.versions /\ oci.versions[r.version] = r.fp
    PROVE  Inv'
<1>1. /\ proc[p] \in ProcessState /\ OwnRow(p) /\ OwnVersion(p)
      /\ proc[p].op \in 0..Len(ops) /\ Keeps(ops, ops)
      /\ local \in Nat \ {0} /\ expired \in Nat
  BY Worker
<1>2. proc'[p] = r
  <2>1. proc \in [Process -> ProcessState]
    BY DEF Inv, TypeInv, TypeOK
  <2> QED BY <2>1 DEF Become
<1>3. OwnRow(p)'
  <2>1. ops' = ops /\ local' = local
    OBVIOUS
  <2>2. r.pc \in {"start", "renew"} => FALSE
    BY DEF Follows
  <2> QED BY <1>1, <1>2, <2>1, <2>2 DEF OwnRow, Follows
<1>4. OwnVersion(p)'
  BY <1>2 DEF OwnVersion, Grows
<1>5. Keeps(ops, ops')
  BY <1>1
<1>6. CompletedIsTruthful'
  BY TruthfulRows
<1>7. r.op \in 0..Len(ops') /\ r.version \in 0..Len(oci'.versions)
      /\ r.plan \subseteq DOMAIN oci'.versions
  BY <1>1 DEF Grows
<1>8. local' \in Nat \ {0} /\ expired' \in Nat /\ lock' = lock
  BY <1>1
<1> QED BY <1>3, <1>4, <1>5, <1>6, <1>7, <1>8, ProcessStep

\* A step that only reads, and remembers what it read.
LEMMA ReadStep ==
    ASSUME Inv, NEW p \in Process, proc[p].pc # "idle",
           NEW r \in ProcessState, Become(p, r),
           UNCHANGED <<oci, net, ops, certState, local, expired, lock>>,
           faults' \in Nat,
           r.cmd = proc[p].cmd, r.op = proc[p].op,
           r.fp = proc[p].fp \/ r.pc \notin PublishSteps,
           Follows(proc[p].pc, r.pc),
           r.version \in 0..Len(oci.versions), r.plan \subseteq DOMAIN oci.versions,
           r.pc \in VersionSteps => r.version \in DOMAIN oci.versions,
           r.pc \in ConfirmedSteps =>
              r.version \in DOMAIN oci.versions /\ oci.versions[r.version] = r.fp
    PROVE  Inv'
<1>1. /\ WellFormed(oci) /\ Grows(oci, oci) /\ net \subseteq Request /\ NetInv
      /\ certState \in CertificateState
  BY Worker
<1>2. /\ WellFormed(oci') /\ Grows(oci, oci') /\ net' \subseteq Request
      /\ certState' \in CertificateState
  BY <1>1
<1>3. NetInv'
  BY <1>1 DEF NetInv
<1> QED BY <1>2, <1>3, WorkStep

\* A step that moves on without remembering anything.
Moved(p, label) == [proc[p] EXCEPT !.pc = label]

\* A process that moves to another control point keeps its locals.
LEMMA MovedState ==
    ASSUME NEW p \in Process, proc[p] \in ProcessState, NEW label \in Labels
    PROVE  /\ Moved(p, label) \in ProcessState
           /\ Moved(p, label).pc = label
           /\ Moved(p, label).cmd = proc[p].cmd /\ Moved(p, label).op = proc[p].op
           /\ Moved(p, label).fp = proc[p].fp
           /\ Moved(p, label).version = proc[p].version
           /\ Moved(p, label).plan = proc[p].plan
<1>1. proc[p] \in [pc : Labels, cmd : AllCommands \union {"NONE"}, op : Nat, fp : Nat,
                   now : Nat, etag : Nat, version : Nat, attempt : Nat, plan : SUBSET Nat]
  BY Zenon DEF ProcessState
<1> QED BY <1>1 DEF ProcessState, Moved

\* The invariant after a step that moves on to a control point whose
\* requirements the process meets.
LEMMA GoStep ==
    ASSUME Inv, NEW p \in Process, proc[p].pc # "idle",
           NEW label \in Labels, Go(p, label),
           UNCHANGED <<ops, local, expired, lock>>,
           WellFormed(oci'), Grows(oci, oci'), net' \subseteq Request, NetInv',
           certState' \in CertificateState, faults' \in Nat,
           Follows(proc[p].pc, label),
           label \in VersionSteps => proc[p].pc \in VersionSteps,
           label \in ConfirmedSteps => proc[p].pc \in ConfirmedSteps
    PROVE  Inv'
<1> DEFINE r == Moved(p, label)
<1>1. /\ proc[p] \in ProcessState /\ OwnVersion(p)
      /\ proc[p].version \in 0..Len(oci.versions)
      /\ proc[p].plan \subseteq DOMAIN oci.versions
  BY Worker
<1>2. /\ r \in ProcessState /\ r.pc = label /\ r.cmd = proc[p].cmd
      /\ r.op = proc[p].op /\ r.fp = proc[p].fp
      /\ r.version = proc[p].version /\ r.plan = proc[p].plan
  BY <1>1, MovedState
<1>3. Become(p, r)
  BY Zenon DEF Go, Moved
<1> HIDE DEF r
<1>4. /\ r.version \in 0..Len(oci.versions) /\ r.plan \subseteq DOMAIN oci.versions
      /\ r.pc \in VersionSteps => r.version \in DOMAIN oci.versions
  BY <1>1, <1>2 DEF OwnVersion
<1>5. r.pc \in ConfirmedSteps =>
         r.version \in DOMAIN oci.versions /\ oci.versions[r.version] = r.fp
  BY <1>1, <1>2 DEF OwnVersion, VersionSteps, ConfirmedSteps, PublishSteps
<1>6. Follows(proc[p].pc, r.pc)
  BY <1>2
<1> QED BY <1>2, <1>3, <1>4, <1>5, <1>6, WorkStep

\* GoStep, of a step that changes nothing else than the recorded state.
LEMMA GoOn ==
    ASSUME Inv, NEW p \in Process, proc[p].pc # "idle",
           NEW label \in Labels, Go(p, label),
           UNCHANGED <<oci, net, ops, local, expired, lock>>,
           certState' \in CertificateState, faults' \in Nat,
           Follows(proc[p].pc, label),
           label \in VersionSteps => proc[p].pc \in VersionSteps,
           label \in ConfirmedSteps => proc[p].pc \in ConfirmedSteps
    PROVE  Inv'
<1>1. WellFormed(oci) /\ Grows(oci, oci) /\ net \subseteq Request /\ NetInv
  BY Worker
<1>2. WellFormed(oci') /\ Grows(oci, oci') /\ net' \subseteq Request
  BY <1>1
<1>3. NetInv'
  BY <1>1 DEF NetInv
<1> QED BY <1>2, <1>3, GoStep

\* A command that ends at a step which changes nothing else.
LEMMA Exits ==
    ASSUME Inv, NEW p \in Process, proc[p].pc # "idle", Exit(p),
           UNCHANGED <<oci, net, ops, certState, local, expired>>, faults' \in Nat
    PROVE  Inv'
<1>1. /\ WellFormed(oci) /\ Grows(oci, oci) /\ Keeps(ops, ops)
      /\ net \subseteq Request /\ NetInv /\ certState \in CertificateState
      /\ local \in Nat \ {0} /\ expired \in Nat
  BY Worker
<1>2. /\ WellFormed(oci') /\ Grows(oci, oci') /\ Keeps(ops, ops')
      /\ net' \subseteq Request /\ certState' \in CertificateState
      /\ local' \in Nat \ {0} /\ expired' \in Nat
  BY <1>1
<1>3. NetInv'
  BY <1>1 DEF NetInv
<1>4. CompletedIsTruthful'
  BY <1>2, TruthfulRows
<1> QED BY <1>2, <1>3, <1>4, ExitStep

\* A mutating call, whatever becomes of it.
LEMMA Mutation ==
    ASSUME Inv, NEW req, Executable(req),
           Succeeds(req) \/ Refused(req) \/ Ambiguous(req), local' = local
    PROVE  /\ WellFormed(oci') /\ Grows(oci, oci')
           /\ net' \subseteq Request /\ NetInv' /\ faults' \in Nat
<1>1. /\ WellFormed(oci) /\ net \subseteq Request /\ NetInv /\ local \in Nat \ {0}
      /\ faults \in Nat
  BY DEF Inv, TypeInv, TypeOK
<1>2. Lag \in BOOLEAN
  BY PublisherAssumption
<1>3. WellFormed(oci') /\ Grows(oci, oci')
  <2>1. CASE oci' = oci
    BY <1>1, <2>1, SameVersionsGrow
  <2>2. CASE oci' = Executed(oci, req, Lag)
    BY <1>1, <1>2, <2>2, ExecutedWellFormed
  <2> QED BY <2>1, <2>2 DEF Succeeds, Refused, Ambiguous
<1>4. net' \subseteq net \union {req}
  BY DEF Succeeds, Refused, Ambiguous
<1>5. net' \subseteq Request /\ NetInv'
  BY <1>1, <1>3, <1>4 DEF NetInv, Executable, Grows
<1>6. faults' \in Nat
  BY <1>1 DEF Succeeds, Refused, Ambiguous, Fault
<1> QED BY <1>3, <1>5, <1>6

\* A process moves its own row to another state; only the end of a
\* publication moves a publication's row to COMPLETED.
LEMMA RowMoved ==
    ASSUME Inv, NEW p \in Process, NEW state \in OperationState, NEW version \in Nat,
           proc[p].pc \in PublishSteps \union RollbackSteps \union AuditSteps,
           ops' = Transition(ops, proc[p].op, state, version, Null), oci' = oci,
           state = "COMPLETED" /\ proc[p].pc \in PublishSteps =>
              proc[p].pc \in ConfirmedSteps /\ version = proc[p].version
    PROVE  Keeps(ops, ops') /\ CompletedIsTruthful'
<1> DEFINE id == proc[p].op
           n == Transition(ops, id, state, version, Null)
<1>1. /\ ops \in Seq(Operation) /\ OwnRow(p) /\ OwnVersion(p)
      /\ WellFormed(oci) /\ Grows(oci, oci)
  BY Worker
<1>2. /\ id \in DOMAIN ops
      /\ \/ ops[id].type \notin Publishing
         \/ proc[p].pc \in PublishSteps /\ ops[id].fp = proc[p].fp
  BY <1>1 DEF OwnRow, Publishing
<1>3. /\ Keeps(ops, n) /\ Len(n) = Len(ops)
      /\ \A i \in DOMAIN ops : i # id => n[i] = ops[i]
      /\ n[id].state = state
      /\ version # Null => n[id].version = version
  BY <1>1, <1>2, OperationTransitioned
<1>4. n[id].type = ops[id].type /\ n[id].fp = ops[id].fp /\ DOMAIN n = DOMAIN ops
  BY <1>2, <1>3 DEF Keeps
<1>5. CASE state = "COMPLETED" /\ proc[p].pc \in PublishSteps
  <2>1. /\ version \in DOMAIN oci.versions /\ version # Null
        /\ oci.versions[version] = proc[p].fp
    <3>1. proc[p].version \in DOMAIN oci.versions
          /\ oci.versions[proc[p].version] = proc[p].fp
      BY <1>1, <1>5 DEF OwnVersion, VersionSteps, ConfirmedSteps, PublishSteps
    <3>2. DOMAIN oci.versions = 1..Len(oci.versions)
      BY <1>1 DEF Grows
    <3> QED BY <1>5, <3>1, <3>2 DEF Null
  <2>2. ops[id].type \in Publishing => ops[id].fp = proc[p].fp
    BY <1>2
  <2> HIDE DEF n
  <2>3. \A i \in DOMAIN n :
           \/ i \in DOMAIN ops /\ n[i] = ops[i]
           \/ n[i].type \notin Publishing
           \/ n[i].version \in DOMAIN oci.versions /\ oci.versions[n[i].version] = n[i].fp
    BY <1>2, <1>3, <1>4, <2>1, <2>2
  <2>4. Grows(oci, oci')
    BY <1>1
  <2>5. ops' = n
    BY DEF n
  <2> QED BY <1>3, <2>3, <2>4, <2>5, TruthfulRows
<1>6. CASE ~(state = "COMPLETED" /\ proc[p].pc \in PublishSteps)
  <2>1. state # "COMPLETED" \/ ops[id].type \notin Publishing
    BY <1>1, <1>6 DEF OwnRow, Publishing
  <2> HIDE DEF n
  <2>2. \A i \in DOMAIN n :
           \/ i \in DOMAIN ops /\ n[i] = ops[i]
           \/ n[i].state # "COMPLETED"
           \/ n[i].type \notin Publishing
    BY <1>2, <1>3, <1>4, <2>1
  <2>3. Grows(oci, oci')
    BY <1>1
  <2>4. ops' = n
    BY DEF n
  <2> QED BY <1>3, <2>2, <2>3, <2>4, TruthfulRows
<1> QED BY <1>5, <1>6

\* The invariant after a step that rewrites rows and moves on.
LEMMA RowsStep ==
    ASSUME Inv, NEW p \in Process, proc[p].pc # "idle",
           NEW label \in Labels, Go(p, label),
           UNCHANGED <<oci, net, certState, local, expired, lock>>, faults' \in Nat,
           Keeps(ops, ops'), CompletedIsTruthful',
           Follows(proc[p].pc, label),
           label \in VersionSteps => proc[p].pc \in VersionSteps,
           label \in ConfirmedSteps =>
              proc[p].pc \in ConfirmedSteps \/ oci.versions[proc[p].version] = proc[p].fp
    PROVE  Inv'
<1> DEFINE r == Moved(p, label)
<1>1. /\ proc[p] \in ProcessState /\ OwnRow(p) /\ OwnVersion(p)
      /\ proc[p].op \in 0..Len(ops)
      /\ proc[p].version \in 0..Len(oci.versions)
      /\ proc[p].plan \subseteq DOMAIN oci.versions
      /\ WellFormed(oci) /\ Grows(oci, oci) /\ net \subseteq Request /\ NetInv
      /\ certState \in CertificateState /\ local \in Nat \ {0} /\ expired \in Nat
  BY Worker
<1>2. /\ r \in ProcessState /\ r.pc = label /\ r.cmd = proc[p].cmd
      /\ r.op = proc[p].op /\ r.fp = proc[p].fp
      /\ r.version = proc[p].version /\ r.plan = proc[p].plan
  BY <1>1, MovedState
<1>3. Become(p, r)
  BY Zenon DEF Go, Moved
<1> HIDE DEF r
<1>4. proc'[p] = r
  <2>1. proc \in [Process -> ProcessState]
    BY DEF Inv, TypeInv, TypeOK
  <2> QED BY <1>3, <2>1 DEF Become
<1>5. OwnRow(p)'
  <2>1. /\ \A i \in DOMAIN ops : /\ i \in DOMAIN ops'
                                 /\ ops'[i].type = ops[i].type /\ ops'[i].fp = ops[i].fp
        /\ local' = local
    BY DEF Keeps
  <2>2. r.pc \in {"start", "renew"} => FALSE
    BY <1>2 DEF Follows
  <2> QED BY <1>1, <1>2, <1>4, <2>1, <2>2 DEF OwnRow, Follows
<1>6. OwnVersion(p)'
  BY <1>1, <1>2, <1>4 DEF OwnVersion
<1>7. NetInv'
  BY <1>1 DEF NetInv
<1>8. /\ r.op \in 0..Len(ops') /\ r.version \in 0..Len(oci'.versions)
      /\ r.plan \subseteq DOMAIN oci'.versions
  BY <1>1, <1>2 DEF Keeps
<1>9. /\ WellFormed(oci') /\ Grows(oci, oci') /\ net' \subseteq Request
      /\ certState' \in CertificateState
      /\ local' \in Nat \ {0} /\ expired' \in Nat /\ lock' = lock
  BY <1>1
<1> QED BY <1>2, <1>3, <1>5, <1>6, <1>7, <1>8, <1>9, ProcessStep

\* The invariant after a transition of the process's own row.
LEMMA Logged ==
    ASSUME Inv, NEW p \in Process, NEW label, NEW state \in OperationState,
           NEW version \in Nat, NEW next \in Labels,
           LogStep(p, label, state, version, next),
           label \in PublishSteps \union RollbackSteps \union AuditSteps,
           state = "COMPLETED" /\ label \in PublishSteps =>
              label \in ConfirmedSteps /\ version = proc[p].version,
           Follows(label, next),
           next \in VersionSteps => label \in VersionSteps,
           next \in ConfirmedSteps =>
              label \in ConfirmedSteps \/ oci.versions[proc[p].version] = proc[p].fp
    PROVE  Inv'
<1>1. /\ proc[p].pc = label /\ Go(p, next)
      /\ ops' = Transition(ops, proc[p].op, state, version, Null)
      /\ UNCHANGED <<oci, net, certState, local, expired, lock, faults>>
  BY DEF LogStep
<1>2. proc[p].pc # "idle"
  BY <1>1 DEF PublishSteps, RollbackSteps, AuditSteps
<1>3. faults' \in Nat
  BY <1>1, Worker
<1>4. Keeps(ops, ops') /\ CompletedIsTruthful'
  BY <1>1, RowMoved
<1> QED BY <1>1, <1>2, <1>3, <1>4, RowsStep

\* Steps named by Labels, and what follows what, decided by inspection.
LEMMA StateNames ==
    /\ TerminalStates \subseteq OperationState
    /\ {"DISCOVERED", "OCI_RECONCILED", "OCI_PENDING_UPLOADED",
        "OCI_PENDING_VERIFIED", "OCI_CURRENT_CONFIRMED", "AUDIT_PENDING",
        "AUDIT_SUCCESS", "AUDIT_FAILED", "ROLLBACK_FAILED", "COMPLETED"} \subseteq OperationState
BY DEF OperationState, TerminalStates

\* The control points that the recorded states lead to, by inspection.
LEMMA NextLabels ==
    /\ AfterAudit \in {"retentionPlan", "return"}
    /\ AfterPublication \in {"retentionPlan", "return", "auditStart"}
BY DEF AfterAudit, AfterPublication

\* The process moves on from reading, having remembered fields.
LEMMA ProcessFields ==
    ASSUME NEW r \in ProcessState
    PROVE  /\ r.pc \in Labels /\ r.cmd \in AllCommands \union {"NONE"}
           /\ r.op \in Nat /\ r.fp \in Nat /\ r.now \in Nat /\ r.etag \in Nat
           /\ r.version \in Nat /\ r.attempt \in Nat /\ r.plan \in SUBSET Nat
BY DEF ProcessState

-----------------------------------------------------------------------------
(***************************************************************************)
(* The steps of a publication.                                             *)
(***************************************************************************)
\* Renew preserves the invariant.
LEMMA RenewStep == ASSUME Inv, NEW p \in Process, Renew(p) PROVE Inv'
<1> DEFINE r == Moved(p, "start")
<1>1. /\ WellFormed(oci) /\ Grows(oci, oci) /\ Keeps(ops, ops) /\ proc[p] \in ProcessState
      /\ OwnRow(p) /\ proc[p].op \in 0..Len(ops)
      /\ proc[p].version \in 0..Len(oci.versions)
      /\ proc[p].plan \subseteq DOMAIN oci.versions
      /\ net \subseteq Request /\ NetInv /\ certState \in CertificateState
      /\ local \in Nat \ {0} /\ expired \in Nat /\ faults \in Nat
  BY Worker
<1>2. /\ proc[p].pc = "renew"
      /\ UNCHANGED <<oci, net, ops, certState, expired, faults>>
  BY DEF Renew
<1>3. CASE Exit(p) /\ local' = local
  BY <1>1, <1>2, <1>3, Exits
<1>4. CASE Go(p, "start") /\ lock' = lock /\ local' \in {local, local + 1}
  <2>1. "start" \in Labels
    BY DEF Labels
  <2>2. /\ r \in ProcessState /\ r.pc = "start" /\ r.cmd = proc[p].cmd
        /\ r.op = proc[p].op /\ r.version = proc[p].version /\ r.plan = proc[p].plan
    BY <1>1, <2>1, MovedState
  <2>3. Become(p, r)
    BY <1>4, Zenon DEF Go, Moved
  <2> HIDE DEF r
  <2>4. proc'[p] = r
    <3>1. proc \in [Process -> ProcessState]
      BY DEF Inv, TypeInv, TypeOK
    <3> QED BY <2>3, <3>1 DEF Become
  <2>5. r.cmd \in Publishing
    BY <1>1, <1>2, <2>2 DEF OwnRow
  <2>6. OwnRow(p)' /\ OwnVersion(p)'
    BY <2>2, <2>4, <2>5 DEF OwnRow, OwnVersion, PublishSteps, RollbackSteps,
                            AuditSteps, VersionSteps, ConfirmedSteps
  <2>7. local' \in Nat \ {0} /\ local <= local'
    BY <1>1, <1>4
  <2>8. NetInv'
    BY <1>1, <1>2, <2>7 DEF NetInv
  <2>9. /\ WellFormed(oci') /\ Grows(oci, oci') /\ Keeps(ops, ops')
        /\ net' \subseteq Request /\ certState' \in CertificateState
        /\ expired' \in Nat /\ faults' \in Nat
        /\ r.op \in 0..Len(ops') /\ r.version \in 0..Len(oci'.versions)
        /\ r.plan \subseteq DOMAIN oci'.versions
    BY <1>1, <1>2, <2>2
  <2>10. CompletedIsTruthful'
    BY <1>2, <2>9, TruthfulRows
  <2> QED BY <1>2, <1>4, <2>2, <2>3, <2>6, <2>7, <2>8, <2>9, <2>10, ProcessStep
<1> QED BY <1>1, <1>3, <1>4 DEF Renew

\* A row is inserted and becomes the process's own.
LEMMA Inserted ==
    ASSUME Inv, NEW p \in Process, proc[p].pc # "idle",
           NEW type \in OperationType, NEW fp \in Nat,
           ops' = StartOperation(ops, type, fp, Ocid),
           UNCHANGED <<oci, net, certState, local, expired, lock, faults>>,
           NEW r \in ProcessState, Become(p, r), r.op = Len(ops) + 1,
           r.version = proc[p].version, r.plan = proc[p].plan,
           r.pc \notin VersionSteps, r.pc \notin {"start", "renew"},
           r.pc \in PublishSteps => /\ r.cmd \in Publishing /\ r.cmd = type
                                    /\ r.fp = fp /\ fp = local,
           r.pc \in RollbackSteps => type = "ROLLBACK",
           r.pc \in AuditSteps => type = "AUDIT"
    PROVE  Inv'
<1> DEFINE n == StartOperation(ops, type, fp, Ocid)
<1>1. /\ WellFormed(oci) /\ Grows(oci, oci) /\ ops \in Seq(Operation)
      /\ proc[p].version \in 0..Len(oci.versions)
      /\ proc[p].plan \subseteq DOMAIN oci.versions
      /\ net \subseteq Request /\ NetInv /\ certState \in CertificateState
      /\ local \in Nat \ {0} /\ expired \in Nat /\ faults \in Nat
  BY Worker
<1>2. /\ Keeps(ops, n) /\ Len(n) = Len(ops) + 1
      /\ \A i \in DOMAIN ops : n[i] = ops[i]
      /\ Len(ops) + 1 \in DOMAIN n
      /\ n[Len(ops) + 1].type = type /\ n[Len(ops) + 1].fp = fp
      /\ n[Len(ops) + 1].state = "DISCOVERED"
  BY <1>1, OperationStarted DEF Ocid
<1> HIDE DEF n
<1>3. ops' = n
  BY DEF n
<1>4. /\ Keeps(ops, ops') /\ r.op \in 0..Len(ops') /\ r.op \in DOMAIN ops'
      /\ ops'[r.op].type = type /\ ops'[r.op].fp = fp
  BY <1>2, <1>3 DEF Keeps
<1>5. CompletedIsTruthful'
  <2>1. \A i \in DOMAIN n : i \in DOMAIN ops \/ i = Len(ops) + 1
    BY <1>2 DEF Keeps
  <2>2. Grows(oci, oci')
    BY <1>1
  <2> QED BY <1>2, <1>3, <2>1, <2>2, TruthfulRows
<1>6. proc'[p] = r
  <2>1. proc \in [Process -> ProcessState]
    BY DEF Inv, TypeInv, TypeOK
  <2> QED BY <2>1 DEF Become
<1>7. OwnRow(p)'
  BY <1>4, <1>6 DEF OwnRow
<1>8. OwnVersion(p)'
  BY <1>6 DEF OwnVersion, VersionSteps, ConfirmedSteps, PublishSteps
<1>9. NetInv'
  BY <1>1 DEF NetInv
<1>10. /\ WellFormed(oci') /\ Grows(oci, oci') /\ net' \subseteq Request
       /\ certState' \in CertificateState
       /\ local' \in Nat \ {0} /\ expired' \in Nat /\ faults' \in Nat /\ lock' = lock
       /\ r.version \in 0..Len(oci'.versions) /\ r.plan \subseteq DOMAIN oci'.versions
  BY <1>1
<1> QED BY <1>4, <1>5, <1>7, <1>8, <1>9, <1>10, ProcessStep

\* Start preserves the invariant.
LEMMA StartStep == ASSUME Inv, NEW p \in Process, Start(p) PROVE Inv'
<1> DEFINE r == [proc[p] EXCEPT !.pc = "getCertificate", !.op = Len(ops) + 1,
                                !.fp = local, !.now = expired]
<1>1. /\ proc[p] \in ProcessState /\ OwnRow(p) /\ ops \in Seq(Operation)
      /\ local \in Nat \ {0} /\ expired \in Nat /\ faults \in Nat
  BY Worker
<1>2. proc[p].pc = "start" /\ UNCHANGED <<oci, net, certState, local, expired, faults>>
  BY DEF Start
<1>3. CASE Exit(p) /\ UNCHANGED ops
  BY <1>1, <1>2, <1>3, Exits
<1>4. CASE /\ ops' = StartOperation(ops, proc[p].cmd, local, Ocid)
           /\ Become(p, r) /\ lock' = lock
  <2>1. Len(ops) + 1 \in Nat /\ "getCertificate" \in Labels
    BY <1>1 DEF Labels
  <2>2. /\ r \in ProcessState /\ r.pc = "getCertificate" /\ r.cmd = proc[p].cmd
        /\ r.op = Len(ops) + 1 /\ r.fp = local
        /\ r.version = proc[p].version /\ r.plan = proc[p].plan
    BY <1>1, <2>1 DEF ProcessState
  <2>3. proc[p].cmd \in Publishing
    BY <1>1, <1>2 DEF OwnRow
  <2>4. proc[p].cmd \in OperationType
    BY <2>3 DEF Publishing, OperationType
  <2>5. Become(p, r)
    BY <1>4
  <2> HIDE DEF r
  <2>6. r.pc \notin VersionSteps /\ r.pc \notin RollbackSteps /\ r.pc \notin AuditSteps
        /\ r.pc \notin {"start", "renew"}
    BY <2>2 DEF VersionSteps, PublishSteps, RollbackSteps, AuditSteps
  <2>7. proc[p].pc # "idle" /\ local \in Nat /\ lock' = lock
    BY <1>1, <1>2, <1>4
  <2> QED BY <1>2, <1>4, <2>2, <2>3, <2>4, <2>5, <2>6, <2>7, Inserted
<1> QED BY <1>3, <1>4 DEF Start

\* GetCertificate preserves the invariant.
LEMMA GetCertificateStep == ASSUME Inv, NEW p \in Process, GetCertificate(p) PROVE Inv'
<1> DEFINE e == oci.etag
           r == [proc[p] EXCEPT !.pc = "getCurrent", !.etag = e]
<1>1. /\ proc[p] \in ProcessState /\ WellFormed(oci) /\ faults \in Nat
      /\ proc[p].version \in 0..Len(oci.versions) /\ proc[p].plan \subseteq DOMAIN oci.versions
  BY Worker
<1>2. /\ proc[p].pc = "getCertificate" /\ Become(p, r)
      /\ UNCHANGED <<oci, net, ops, certState, local, expired, lock, faults>>
  BY DEF GetCertificate
<1>3. e \in Nat /\ "getCurrent" \in Labels
  BY <1>1, CertificateFields DEF WellFormed, Labels
<1> HIDE DEF e
<1>4. /\ r \in ProcessState /\ r.pc = "getCurrent" /\ r.cmd = proc[p].cmd
      /\ r.op = proc[p].op /\ r.fp = proc[p].fp
      /\ r.version = proc[p].version /\ r.plan = proc[p].plan
  BY <1>1, <1>3 DEF ProcessState
<1> HIDE DEF r
<1>5. /\ Follows(proc[p].pc, r.pc) /\ proc[p].pc # "idle"
      /\ r.pc \notin VersionSteps /\ r.pc \notin ConfirmedSteps
  BY <1>2, <1>4 DEF Follows, VersionSteps, ConfirmedSteps, PublishSteps, RollbackSteps, AuditSteps
<1>6. faults' \in Nat
  BY <1>1, <1>2
<1>7. r.version \in 0..Len(oci.versions) /\ r.plan \subseteq DOMAIN oci.versions
  BY <1>1, <1>4
<1> QED BY <1>2, <1>4, <1>5, <1>6, <1>7, ReadStep

\* The process remembers the version it read, and at a confirmed step one
\* that carries its leaf.
LEMMA VersionRead ==
    ASSUME Inv, NEW p \in Process, proc[p].pc # "idle",
           NEW label \in Labels, NEW v \in DOMAIN oci.versions,
           Become(p, [proc[p] EXCEPT !.pc = label, !.version = v]),
           UNCHANGED <<oci, net, ops, certState, local, expired, lock>>,
           faults' \in Nat, Follows(proc[p].pc, label),
           label \in ConfirmedSteps => oci.versions[v] = proc[p].fp
    PROVE  Inv'
<1> DEFINE r == [proc[p] EXCEPT !.pc = label, !.version = v]
<1>1. /\ proc[p] \in ProcessState /\ Grows(oci, oci) /\ proc[p].plan \subseteq DOMAIN oci.versions
  BY Worker
<1>2. v \in Nat /\ v \in 0..Len(oci.versions)
  BY <1>1 DEF Grows
<1>3. /\ r \in ProcessState /\ r.pc = label /\ r.cmd = proc[p].cmd
      /\ r.op = proc[p].op /\ r.fp = proc[p].fp
      /\ r.version = v /\ r.plan = proc[p].plan
  BY <1>1, <1>2 DEF ProcessState
<1>4. Become(p, r)
  OBVIOUS
<1> HIDE DEF r
<1>5. Follows(proc[p].pc, r.pc)
  BY <1>3
<1>6. /\ r.version \in 0..Len(oci.versions) /\ r.plan \subseteq DOMAIN oci.versions
      /\ r.version \in DOMAIN oci.versions
      /\ r.pc \in ConfirmedSteps => oci.versions[r.version] = r.fp
  BY <1>1, <1>2, <1>3
<1> QED BY <1>3, <1>4, <1>5, <1>6, ReadStep

\* GetCurrent preserves the invariant.
LEMMA GetCurrentStep == ASSUME Inv, NEW p \in Process, GetCurrent(p) PROVE Inv'
<1>1. WellFormed(oci) /\ faults \in Nat
  BY Worker
<1>2. /\ proc[p].pc = "getCurrent"
      /\ UNCHANGED <<oci, net, ops, certState, local, expired, faults>>
  BY DEF GetCurrent
<1>3. proc[p].pc # "idle" /\ faults' \in Nat /\ oci.served \in DOMAIN oci.versions
  BY <1>1, <1>2 DEF WellFormed
<1>4. CASE Exit(p)
  BY <1>2, <1>3, <1>4, Exits
<1>5. CASE /\ Become(p, [proc[p] EXCEPT !.pc = "reconciled", !.version = oci.served])
           /\ lock' = lock
  <2>1. "reconciled" \in Labels /\ Follows(proc[p].pc, "reconciled")
        /\ "reconciled" \notin ConfirmedSteps
    BY <1>2 DEF Labels, Follows, PublishSteps, RollbackSteps, AuditSteps, ConfirmedSteps
  <2> QED BY <1>2, <1>3, <1>5, <2>1, VersionRead
<1> QED BY <1>4, <1>5 DEF GetCurrent

\* Each LogStep of a publication.
LEMMA ReconciledStep == ASSUME Inv, NEW p \in Process, Reconciled(p) PROVE Inv'
<1> DEFINE next == IF oci.versions[proc[p].version] = proc[p].fp THEN "record" ELSE "find"
<1>1. LogStep(p, "reconciled", "OCI_RECONCILED", proc[p].version, next)
  BY DEF Reconciled
<1>2. proc[p].version \in Nat
  BY Worker, ProcessFields
<1>3. /\ next \in {"record", "find"}
      /\ next = "record" => oci.versions[proc[p].version] = proc[p].fp
  OBVIOUS
<1> HIDE DEF next
<1>4. /\ next \in Labels /\ Follows("reconciled", next)
      /\ "reconciled" \in VersionSteps /\ "reconciled" \in PublishSteps
      /\ next \in ConfirmedSteps => next = "record"
  BY <1>3 DEF Labels, Follows, PublishSteps, RollbackSteps, AuditSteps,
              ConfirmedSteps, VersionSteps
<1> QED BY <1>1, <1>2, <1>3, <1>4, StateNames, Logged

\* PendingUploaded preserves the invariant.
LEMMA PendingUploadedStep == ASSUME Inv, NEW p \in Process, PendingUploaded(p) PROVE Inv'
<1>1. LogStep(p, "uploaded", "OCI_PENDING_UPLOADED", Null, "findUploaded")
  BY DEF PendingUploaded
<1>2. Null \in Nat /\ "findUploaded" \in Labels
  BY DEF Null, Labels
<1>3. /\ Follows("uploaded", "findUploaded") /\ "findUploaded" \notin ConfirmedSteps
      /\ "uploaded" \in VersionSteps /\ "uploaded" \in PublishSteps
  BY DEF Follows, PublishSteps, RollbackSteps, AuditSteps, ConfirmedSteps, VersionSteps
<1> QED BY <1>1, <1>2, <1>3, StateNames, Logged

\* PendingVerified preserves the invariant.
LEMMA PendingVerifiedStep == ASSUME Inv, NEW p \in Process, PendingVerified(p) PROVE Inv'
<1>1. LogStep(p, "pendingVerified", "OCI_PENDING_VERIFIED", proc[p].version, "refresh")
  BY DEF PendingVerified
<1>2. proc[p].version \in Nat /\ "refresh" \in Labels
  BY Worker, ProcessFields DEF Labels
<1>3. /\ Follows("pendingVerified", "refresh") /\ "refresh" \notin ConfirmedSteps
      /\ "pendingVerified" \in VersionSteps /\ "pendingVerified" \in PublishSteps
  BY DEF Follows, PublishSteps, RollbackSteps, AuditSteps, ConfirmedSteps, VersionSteps
<1> QED BY <1>1, <1>2, <1>3, StateNames, Logged

\* CurrentConfirmed preserves the invariant.
LEMMA CurrentConfirmedStep == ASSUME Inv, NEW p \in Process, CurrentConfirmed(p) PROVE Inv'
<1>1. LogStep(p, "currentConfirmed", "OCI_CURRENT_CONFIRMED", proc[p].version, "record")
  BY DEF CurrentConfirmed
<1>2. proc[p].version \in Nat /\ "record" \in Labels
  BY Worker, ProcessFields DEF Labels
<1>3. /\ Follows("currentConfirmed", "record") /\ "currentConfirmed" \in ConfirmedSteps
      /\ "currentConfirmed" \in VersionSteps /\ "currentConfirmed" \in PublishSteps
  BY DEF Follows, PublishSteps, RollbackSteps, AuditSteps, ConfirmedSteps, VersionSteps
<1> QED BY <1>1, <1>2, <1>3, StateNames, Logged

\* Complete preserves the invariant.
LEMMA CompleteStep == ASSUME Inv, NEW p \in Process, Complete(p) PROVE Inv'
<1>1. LogStep(p, "complete", "COMPLETED", proc[p].version, AfterPublication)
  BY DEF Complete
<1>2. proc[p].version \in Nat /\ AfterPublication \in Labels
  BY Worker, ProcessFields, NextLabels DEF Labels
<1>3. /\ Follows("complete", AfterPublication) /\ "complete" \in ConfirmedSteps
      /\ "complete" \in VersionSteps /\ "complete" \in PublishSteps
      /\ AfterPublication \notin ConfirmedSteps
  BY NextLabels DEF Follows, PublishSteps, RollbackSteps, AuditSteps, ConfirmedSteps, VersionSteps
<1> QED BY <1>1, <1>2, <1>3, StateNames, Logged

\* A PENDING version that was found, and whose bundle carries the local leaf.
LEMMA FoundStep ==
    ASSUME Inv, NEW p \in Process, proc[p].pc \in {"find", "findUploaded"}, Found(p),
           UNCHANGED <<oci, net, ops, certState, local, expired>>
    PROVE  Inv'
<1>1. WellFormed(oci) /\ Grows(oci, oci) /\ faults \in Nat
  BY Worker
<1>2. PICK v \in Matching(p) \ Unverifiable(p) :
         Become(p, [proc[p] EXCEPT !.pc = "pendingVerified", !.version = v])
  BY DEF Found
<1>3. v \in DOMAIN oci.versions
  BY <1>1, <1>2 DEF Matching, StagedForPromotion, WellFormed, Grows
<1>4. UNCHANGED <<lock, faults>> /\ faults' \in Nat /\ proc[p].pc # "idle"
  BY <1>1 DEF Found
<1>5. "pendingVerified" \in Labels /\ Follows(proc[p].pc, "pendingVerified")
      /\ "pendingVerified" \notin ConfirmedSteps
  BY DEF Labels, Follows, PublishSteps, RollbackSteps, AuditSteps, ConfirmedSteps
<1> QED BY <1>2, <1>3, <1>4, <1>5, VersionRead

\* Find preserves the invariant.
LEMMA FindStep == ASSUME Inv, NEW p \in Process, Find(p) PROVE Inv'
<1>1. faults \in Nat /\ certState \in CertificateState
  BY Worker
<1>2. proc[p].pc = "find" /\ UNCHANGED <<oci, net, ops, certState, local, expired>>
  BY DEF Find
<1>3. CASE Found(p)
  BY <1>2, <1>3, FoundStep
<1>4. CASE Rejected(p)
  BY <1>1, <1>2, <1>4, Exits DEF Rejected
<1>5. CASE Go(p, "upload") /\ UNCHANGED <<lock, faults>>
  <2>1. "upload" \in Labels /\ Follows(proc[p].pc, "upload")
        /\ "upload" \notin ConfirmedSteps /\ proc[p].pc \in VersionSteps
    BY <1>2 DEF Labels, Follows, PublishSteps, RollbackSteps, AuditSteps,
                ConfirmedSteps, VersionSteps
  <2>2. proc[p].pc # "idle" /\ certState' \in CertificateState /\ faults' \in Nat
    BY <1>1, <1>2, <1>5
  <2> QED BY <1>2, <1>5, <2>1, <2>2, GoOn
<1> QED BY <1>3, <1>4, <1>5 DEF Find

\* FindUploaded preserves the invariant.
LEMMA FindUploadedStep == ASSUME Inv, NEW p \in Process, FindUploaded(p) PROVE Inv'
<1>1. faults \in Nat
  BY Worker
<1>2. proc[p].pc = "findUploaded" /\ UNCHANGED <<oci, net, ops, certState, local, expired>>
  BY DEF FindUploaded
<1>3. CASE Found(p)
  BY <1>2, <1>3, FoundStep
<1>4. CASE Rejected(p)
  BY <1>1, <1>2, <1>4, Exits DEF Rejected
<1>5. CASE Exit(p) /\ CountLag(oci.listed, Latest(oci))
  <2>1. faults' \in Nat
    BY <1>1, <1>5 DEF CountLag, Fault
  <2> QED BY <1>2, <1>5, <2>1, Exits
<1> QED BY <1>3, <1>4, <1>5 DEF FindUploaded

\* The requests that processes send can be executed.
LEMMA RequestsExecutable ==
    ASSUME Inv, NEW p \in Process
    PROVE  /\ proc[p].pc \in PublishSteps => Executable(UploadRequest(proc[p].etag, proc[p].fp))
           /\ proc[p].pc \in VersionSteps =>
                 /\ Executable(PromoteRequest(proc[p].etag, proc[p].version))
                 /\ Executable(DeleteRequest(proc[p].etag, proc[p].version))
<1>1. /\ OwnRow(p) /\ OwnVersion(p) /\ local \in Nat \ {0}
      /\ proc[p].etag \in Nat /\ proc[p].fp \in Nat /\ proc[p].version \in Nat
  BY Worker, ProcessFields
<1>2. ASSUME proc[p].pc \in PublishSteps
      PROVE  proc[p].fp \in 1..local
  BY <1>1, <1>2 DEF OwnRow
<1>3. ASSUME proc[p].pc \in VersionSteps
      PROVE  proc[p].version \in DOMAIN oci.versions
  BY <1>1, <1>3 DEF OwnVersion
<1> QED BY <1>1, <1>2, <1>3 DEF Executable, UploadRequest, PromoteRequest, DeleteRequest, Request

\* A call after which the process moves on or the command ends.
LEMMA CallStep ==
    ASSUME Inv, NEW p \in Process, NEW req, Executable(req),
           Succeeds(req) \/ Refused(req) \/ Ambiguous(req),
           UNCHANGED <<ops, certState, local, expired>>,
           proc[p].pc \in VersionSteps, NEW label \in Labels,
           Exit(p) \/ (Go(p, label) /\ UNCHANGED lock),
           Follows(proc[p].pc, label), label \notin ConfirmedSteps
    PROVE  Inv'
<1>1. Keeps(ops, ops) /\ certState \in CertificateState /\ local \in Nat \ {0} /\ expired \in Nat
  BY Worker
<1>2. /\ WellFormed(oci') /\ Grows(oci, oci')
      /\ net' \subseteq Request /\ NetInv' /\ faults' \in Nat
  BY Mutation
<1>3. proc[p].pc # "idle"
  BY DEF VersionSteps, PublishSteps, RollbackSteps
<1>4. Keeps(ops, ops') /\ certState' \in CertificateState /\ local' \in Nat \ {0}
      /\ expired' \in Nat
  BY <1>1
<1>5. CASE Exit(p)
  <2>1. CompletedIsTruthful'
    BY <1>2, TruthfulRows
  <2> QED BY <1>2, <1>3, <1>4, <1>5, <2>1, ExitStep
<1>6. CASE Go(p, label) /\ UNCHANGED lock
  BY <1>2, <1>3, <1>4, <1>6, GoStep
<1> QED BY <1>5, <1>6

\* Upload preserves the invariant.
LEMMA UploadStep == ASSUME Inv, NEW p \in Process, Upload(p) PROVE Inv'
<1> DEFINE req == UploadRequest(proc[p].etag, proc[p].fp)
<1>1. /\ proc[p].pc = "upload" /\ UNCHANGED <<ops, certState, local, expired>>
      /\ Succeeds(req) \/ Refused(req) \/ Ambiguous(req)
      /\ Exit(p) \/ (Go(p, "uploaded") /\ UNCHANGED lock)
  BY DEF Upload
<1>2. "uploaded" \in Labels /\ Follows(proc[p].pc, "uploaded")
      /\ "uploaded" \notin ConfirmedSteps /\ proc[p].pc \in VersionSteps
      /\ proc[p].pc \in PublishSteps
  BY <1>1 DEF Labels, Follows, PublishSteps, RollbackSteps, AuditSteps,
              ConfirmedSteps, VersionSteps
<1>3. Executable(req)
  BY <1>2, RequestsExecutable
<1> HIDE DEF req
<1> QED BY <1>1, <1>2, <1>3, CallStep

\* Refresh preserves the invariant.
LEMMA RefreshStep == ASSUME Inv, NEW p \in Process, Refresh(p) PROVE Inv'
<1> DEFINE e == oci.etag
           r == [proc[p] EXCEPT !.pc = "promote", !.etag = e]
<1>1. /\ proc[p] \in ProcessState /\ WellFormed(oci) /\ faults \in Nat /\ OwnVersion(p)
      /\ proc[p].version \in 0..Len(oci.versions) /\ proc[p].plan \subseteq DOMAIN oci.versions
      /\ certState \in CertificateState
  BY Worker
<1>2. /\ proc[p].pc = "refresh"
      /\ UNCHANGED <<oci, net, ops, certState, local, expired, lock, faults>>
  BY DEF Refresh
<1>3. /\ proc[p].pc # "idle" /\ {"confirm", "promote"} \subseteq Labels
      /\ Follows(proc[p].pc, "confirm") /\ Follows(proc[p].pc, "promote")
      /\ proc[p].pc \in VersionSteps
      /\ "confirm" \notin ConfirmedSteps /\ "promote" \notin ConfirmedSteps
  BY <1>2 DEF Labels, Follows, PublishSteps, RollbackSteps, AuditSteps,
              ConfirmedSteps, VersionSteps
<1>4. certState' \in CertificateState /\ faults' \in Nat
  BY <1>1, <1>2
<1>5. CASE Go(p, "confirm")
  BY <1>2, <1>3, <1>4, <1>5, GoOn
<1>6. CASE Become(p, r)
  <2>1. e \in Nat
    BY <1>1, CertificateFields DEF WellFormed
  <2> HIDE DEF e
  <2>2. /\ r \in ProcessState /\ r.pc = "promote" /\ r.cmd = proc[p].cmd
        /\ r.op = proc[p].op /\ r.fp = proc[p].fp
        /\ r.version = proc[p].version /\ r.plan = proc[p].plan
    BY <1>1, <1>3, <2>1 DEF ProcessState
  <2>3. Become(p, r)
    BY <1>6
  <2> HIDE DEF r
  <2>4. /\ r.version \in 0..Len(oci.versions) /\ r.plan \subseteq DOMAIN oci.versions
        /\ r.version \in DOMAIN oci.versions
    BY <1>1, <1>3, <2>2 DEF OwnVersion
  <2>5. r.pc \notin ConfirmedSteps /\ Follows(proc[p].pc, r.pc)
    BY <1>3, <2>2
  <2> QED BY <1>2, <1>3, <1>4, <2>2, <2>3, <2>4, <2>5, ReadStep
<1> QED BY <1>5, <1>6 DEF Refresh

\* Promote preserves the invariant.
LEMMA PromoteStep == ASSUME Inv, NEW p \in Process, Promote(p) PROVE Inv'
<1> DEFINE req == PromoteRequest(proc[p].etag, proc[p].version)
           a == proc[p].attempt + 1
           r == [proc[p] EXCEPT !.pc = "refresh", !.attempt = a]
<1>1. /\ proc[p].pc = "promote" /\ UNCHANGED <<ops, certState, local, expired>>
      /\ Succeeds(req) \/ Refused(req) \/ Ambiguous(req)
      /\ \/ Exit(p) \/ (Go(p, "confirm") /\ UNCHANGED lock)
         \/ Become(p, r) /\ UNCHANGED lock
  BY DEF Promote
<1>2. /\ {"confirm", "refresh"} \subseteq Labels
      /\ Follows(proc[p].pc, "confirm") /\ Follows(proc[p].pc, "refresh")
      /\ "confirm" \notin ConfirmedSteps /\ "refresh" \notin ConfirmedSteps
      /\ proc[p].pc \in VersionSteps /\ proc[p].pc # "idle"
  BY <1>1 DEF Labels, Follows, PublishSteps, RollbackSteps, AuditSteps,
              ConfirmedSteps, VersionSteps
<1>3. Executable(req)
  BY <1>2, RequestsExecutable
<1> HIDE DEF req
<1>4. CASE Exit(p) \/ (Go(p, "confirm") /\ UNCHANGED lock)
  BY <1>1, <1>2, <1>3, <1>4, CallStep
<1>5. CASE Become(p, r) /\ UNCHANGED lock
  <2>1. /\ proc[p] \in ProcessState /\ OwnVersion(p) /\ certState \in CertificateState
        /\ proc[p].version \in 0..Len(oci.versions)
        /\ proc[p].plan \subseteq DOMAIN oci.versions
    BY Worker
  <2>2. a \in Nat
    BY <2>1, ProcessFields
  <2> HIDE DEF a
  <2>3. /\ r \in ProcessState /\ r.pc = "refresh" /\ r.cmd = proc[p].cmd
        /\ r.op = proc[p].op /\ r.fp = proc[p].fp
        /\ r.version = proc[p].version /\ r.plan = proc[p].plan
    BY <1>2, <2>1, <2>2 DEF ProcessState
  <2>4. Become(p, r) /\ UNCHANGED lock
    BY <1>5
  <2> HIDE DEF r
  <2>5. /\ r.version \in 0..Len(oci.versions) /\ r.plan \subseteq DOMAIN oci.versions
        /\ r.version \in DOMAIN oci.versions
        /\ r.pc \notin ConfirmedSteps /\ Follows(proc[p].pc, r.pc)
    BY <1>2, <2>1, <2>3 DEF OwnVersion
  <2>6. /\ WellFormed(oci') /\ Grows(oci, oci')
        /\ net' \subseteq Request /\ NetInv' /\ faults' \in Nat
    BY <1>1, <1>3, Mutation
  <2>7. certState' \in CertificateState
    BY <1>1, <2>1
  <2> QED BY <1>1, <1>2, <2>3, <2>4, <2>5, <2>6, <2>7, WorkStep
<1> QED BY <1>1, <1>4, <1>5

\* Confirm preserves the invariant.
LEMMA ConfirmStep == ASSUME Inv, NEW p \in Process, Confirm(p) PROVE Inv'
<1>1. WellFormed(oci) /\ faults \in Nat
  BY Worker
<1>2. /\ proc[p].pc = "confirm" /\ CountLag(oci.served, oci.current)
      /\ UNCHANGED <<oci, net, ops, certState, local, expired>>
  BY DEF Confirm
<1>3. proc[p].pc # "idle" /\ faults' \in Nat /\ oci.served \in DOMAIN oci.versions
  BY <1>1, <1>2 DEF WellFormed, CountLag, Fault
<1>4. CASE Exit(p)
  BY <1>2, <1>3, <1>4, Exits
<1>5. CASE /\ oci.versions[oci.served] = proc[p].fp
           /\ Become(p, [proc[p] EXCEPT !.pc = "currentConfirmed", !.version = oci.served])
           /\ UNCHANGED lock
  <2>1. "currentConfirmed" \in Labels /\ Follows(proc[p].pc, "currentConfirmed")
    BY <1>2 DEF Labels, Follows, PublishSteps, RollbackSteps, AuditSteps
  <2> QED BY <1>2, <1>3, <1>5, <2>1, VersionRead
<1> QED BY <1>4, <1>5 DEF Confirm

\* Record preserves the invariant.
LEMMA RecordStep == ASSUME Inv, NEW p \in Process, Record(p) PROVE Inv'
<1>1. /\ WellFormed(oci) /\ OwnVersion(p) /\ faults \in Nat /\ certState \in CertificateState
      /\ proc[p].fp \in Nat /\ proc[p].version \in Nat
  BY Worker, ProcessFields
<1>2. /\ proc[p].pc = "record" /\ Go(p, "closeReconciled")
      /\ UNCHANGED <<oci, net, ops, local, expired, lock, faults>>
  BY DEF Record
<1>3. /\ "closeReconciled" \in Labels /\ Follows(proc[p].pc, "closeReconciled")
      /\ proc[p].pc \in ConfirmedSteps /\ proc[p].pc \in VersionSteps /\ proc[p].pc # "idle"
  BY <1>2 DEF Labels, Follows, PublishSteps, RollbackSteps, AuditSteps,
              ConfirmedSteps, VersionSteps
<1>4. oci.versions[proc[p].version] \in Nat
  BY <1>1, <1>3, CertificateFields DEF OwnVersion, WellFormed
<1>5. certState' \in CertificateState
  <2> DEFINE f == oci.versions[proc[p].version]
  <2>1. certState' = [certState EXCEPT !.local = proc[p].fp, !.fp = f,
                                       !.version = proc[p].version, !.published = TRUE]
    BY DEF Record, RecordPublicationSuccess
  <2>2. f \in Nat
    BY <1>4
  <2> HIDE DEF f
  <2> QED BY <1>1, <2>1, <2>2 DEF CertificateState
<1>6. faults' \in Nat
  BY <1>1, <1>2
<1> QED BY <1>2, <1>3, <1>5, <1>6, GoOn

\* CloseReconciled preserves the invariant.
LEMMA CloseReconciledStep == ASSUME Inv, NEW p \in Process, CloseReconciled(p) PROVE Inv'
<1> DEFINE next == IF proc[p].cmd = "RENEW" THEN "recordRenewal" ELSE "complete"
           n == CompleteReconciledOperations(ops, proc[p].op, proc[p].fp, proc[p].version)
<1>1. /\ OwnVersion(p) /\ Grows(oci, oci) /\ faults \in Nat /\ ops \in Seq(Operation)
      /\ proc[p].fp \in Nat /\ proc[p].version \in Nat
  BY Worker, ProcessFields
<1>2. /\ proc[p].pc = "closeReconciled" /\ Go(p, next) /\ ops' = n
      /\ UNCHANGED <<oci, net, certState, local, expired, lock, faults>>
  BY DEF CloseReconciled
<1>3. next \in {"recordRenewal", "complete"}
  OBVIOUS
<1>4. /\ Keeps(ops, n) /\ Len(n) = Len(ops)
      /\ \A i \in DOMAIN ops :
            n[i] = ops[i] \/ (n[i].fp = proc[p].fp /\ n[i].version = proc[p].version)
  BY <1>1, ReconciledOperationsCompleted
<1> HIDE DEF next, n
<1>5. /\ next \in Labels /\ Follows(proc[p].pc, next)
      /\ proc[p].pc \in ConfirmedSteps /\ proc[p].pc \in VersionSteps /\ proc[p].pc # "idle"
  BY <1>2, <1>3 DEF Labels, Follows, PublishSteps, RollbackSteps, AuditSteps,
                    ConfirmedSteps, VersionSteps
<1>6. /\ proc[p].version \in DOMAIN oci.versions
      /\ oci.versions[proc[p].version] = proc[p].fp
  BY <1>1, <1>5 DEF OwnVersion
<1>7. Keeps(ops, ops') /\ CompletedIsTruthful'
  <2>1. DOMAIN n = DOMAIN ops
    BY <1>4 DEF Keeps
  <2>2. Grows(oci, oci')
    BY <1>1, <1>2
  <2> QED BY <1>2, <1>4, <1>6, <2>1, <2>2, TruthfulRows
<1>8. faults' \in Nat
  BY <1>1, <1>2
<1> QED BY <1>2, <1>5, <1>7, <1>8, RowsStep

\* RecordRenewal preserves the invariant.
LEMMA RecordRenewalStep == ASSUME Inv, NEW p \in Process, RecordRenewal(p) PROVE Inv'
<1>1. faults \in Nat /\ certState \in CertificateState
  BY Worker
<1>2. /\ proc[p].pc = "recordRenewal" /\ Go(p, "complete")
      /\ certState' = [certState EXCEPT !.renewed = TRUE]
      /\ UNCHANGED <<oci, net, ops, local, expired, lock, faults>>
  BY DEF RecordRenewal, RecordRenewalSuccess
<1>3. /\ "complete" \in Labels /\ Follows(proc[p].pc, "complete")
      /\ proc[p].pc \in ConfirmedSteps /\ proc[p].pc \in VersionSteps /\ proc[p].pc # "idle"
  BY <1>2 DEF Labels, Follows, PublishSteps, RollbackSteps, AuditSteps,
              ConfirmedSteps, VersionSteps
<1>4. certState' \in CertificateState /\ faults' \in Nat
  BY <1>1, <1>2 DEF CertificateState
<1> QED BY <1>2, <1>3, <1>4, GoOn

\* Every step of PublicationReconciler.publish preserves the invariant.
LEMMA ReconcileStep == ASSUME Inv, NEW p \in Process, Reconcile(p) PROVE Inv'
BY RenewStep, StartStep, GetCertificateStep, GetCurrentStep, ReconciledStep, FindStep,
   UploadStep, PendingUploadedStep, FindUploadedStep, PendingVerifiedStep, RefreshStep,
   PromoteStep, ConfirmStep, CurrentConfirmedStep, RecordStep, CloseReconciledStep,
   RecordRenewalStep, CompleteStep
   DEF Reconcile

-----------------------------------------------------------------------------
(***************************************************************************)
(* The steps of a rollback.                                                *)
(***************************************************************************)
\* RollbackStart preserves the invariant.
LEMMA RollbackStartStep == ASSUME Inv, NEW p \in Process, RollbackStart(p) PROVE Inv'
<1> DEFINE r == [proc[p] EXCEPT !.pc = "previousVersion", !.op = Len(ops) + 1,
                                !.now = expired]
<1>1. proc[p] \in ProcessState /\ ops \in Seq(Operation) /\ expired \in Nat
  BY Worker
<1>2. /\ proc[p].pc = "rollbackStart" /\ Become(p, r)
      /\ ops' = StartOperation(ops, "ROLLBACK", Null, Ocid)
      /\ UNCHANGED <<oci, net, certState, local, expired, lock, faults>>
  BY DEF RollbackStart
<1>3. Len(ops) + 1 \in Nat /\ "previousVersion" \in Labels
  BY <1>1 DEF Labels
<1>4. /\ r \in ProcessState /\ r.pc = "previousVersion" /\ r.op = Len(ops) + 1
      /\ r.version = proc[p].version /\ r.plan = proc[p].plan
  BY <1>1, <1>3 DEF ProcessState
<1> HIDE DEF r
<1>5. /\ r.pc \notin VersionSteps /\ r.pc \notin PublishSteps /\ r.pc \notin AuditSteps
      /\ r.pc \notin {"start", "renew"} /\ proc[p].pc # "idle"
  BY <1>2, <1>4 DEF VersionSteps, PublishSteps, RollbackSteps, AuditSteps
<1>6. "ROLLBACK" \in OperationType /\ Null \in Nat
  BY DEF OperationType, Null
<1> QED BY <1>2, <1>4, <1>5, <1>6, Inserted

\* PreviousVersion preserves the invariant.
LEMMA PreviousVersionStep == ASSUME Inv, NEW p \in Process, PreviousVersion(p) PROVE Inv'
<1>1. /\ WellFormed(oci) /\ Grows(oci, oci) /\ faults \in Nat /\ proc[p] \in ProcessState
      /\ proc[p].plan \subseteq DOMAIN oci.versions
  BY Worker
<1>2. /\ proc[p].pc = "previousVersion"
      /\ UNCHANGED <<oci, net, ops, certState, local, expired, faults>>
  BY DEF PreviousVersion
<1>3. proc[p].pc # "idle" /\ faults' \in Nat
  BY <1>1, <1>2
<1>4. CASE Exit(p)
  BY <1>2, <1>3, <1>4, Exits
<1>5. ASSUME NEW v \in Restorable(p), UNCHANGED lock,
             Become(p, [proc[p] EXCEPT !.pc = "rollbackEtag", !.version = v,
                                       !.fp = oci.versions[v]])
      PROVE  Inv'
  <2> DEFINE f == oci.versions[v]
             r == [proc[p] EXCEPT !.pc = "rollbackEtag", !.version = v, !.fp = f]
  <2>1. v \in DOMAIN oci.versions
    BY <1>1 DEF Restorable, WellFormed, Grows
  <2>2. v \in Nat /\ v \in 0..Len(oci.versions) /\ f \in Nat /\ "rollbackEtag" \in Labels
    BY <1>1, <2>1, CertificateFields DEF WellFormed, Labels
  <2>3. Become(p, r) /\ lock' = lock
    BY <1>5
  <2> HIDE DEF f
  <2>4. /\ r \in ProcessState /\ r.pc = "rollbackEtag" /\ r.cmd = proc[p].cmd
        /\ r.op = proc[p].op /\ r.version = v /\ r.plan = proc[p].plan
    BY <1>1, <2>2 DEF ProcessState
  <2> HIDE DEF r
  <2>5. /\ Follows(proc[p].pc, r.pc) /\ r.pc \notin PublishSteps /\ r.pc \notin ConfirmedSteps
    BY <1>2, <2>4 DEF Follows, PublishSteps, RollbackSteps, AuditSteps, ConfirmedSteps
  <2>6. /\ r.version \in 0..Len(oci.versions) /\ r.plan \subseteq DOMAIN oci.versions
        /\ r.version \in DOMAIN oci.versions
    BY <1>1, <2>1, <2>2, <2>4
  <2> QED BY <1>2, <1>3, <2>3, <2>4, <2>5, <2>6, ReadStep
<1> QED BY <1>4, <1>5 DEF PreviousVersion

\* RollbackEtag preserves the invariant.
LEMMA RollbackEtagStep == ASSUME Inv, NEW p \in Process, RollbackEtag(p) PROVE Inv'
<1> DEFINE e == oci.etag
           r == [proc[p] EXCEPT !.pc = "rollbackReconciled", !.etag = e]
<1>1. /\ proc[p] \in ProcessState /\ WellFormed(oci) /\ faults \in Nat /\ OwnVersion(p)
      /\ proc[p].version \in 0..Len(oci.versions) /\ proc[p].plan \subseteq DOMAIN oci.versions
  BY Worker
<1>2. /\ proc[p].pc = "rollbackEtag" /\ Become(p, r)
      /\ UNCHANGED <<oci, net, ops, certState, local, expired, lock, faults>>
  BY DEF RollbackEtag
<1>3. e \in Nat /\ "rollbackReconciled" \in Labels
  BY <1>1, CertificateFields DEF WellFormed, Labels
<1> HIDE DEF e
<1>4. /\ r \in ProcessState /\ r.pc = "rollbackReconciled" /\ r.cmd = proc[p].cmd
      /\ r.op = proc[p].op /\ r.fp = proc[p].fp
      /\ r.version = proc[p].version /\ r.plan = proc[p].plan
  BY <1>1, <1>3 DEF ProcessState
<1> HIDE DEF r
<1>5. /\ Follows(proc[p].pc, r.pc) /\ proc[p].pc # "idle"
      /\ proc[p].pc \in VersionSteps /\ r.pc \notin ConfirmedSteps
  BY <1>2, <1>4 DEF Follows, VersionSteps, ConfirmedSteps, PublishSteps, RollbackSteps, AuditSteps
<1>6. faults' \in Nat
  BY <1>1, <1>2
<1>7. /\ r.version \in 0..Len(oci.versions) /\ r.plan \subseteq DOMAIN oci.versions
      /\ r.version \in DOMAIN oci.versions
  BY <1>1, <1>4, <1>5 DEF OwnVersion
<1> QED BY <1>2, <1>4, <1>5, <1>6, <1>7, ReadStep

\* Restore preserves the invariant.
LEMMA RestoreStep == ASSUME Inv, NEW p \in Process, Restore(p) PROVE Inv'
<1> DEFINE req == PromoteRequest(proc[p].etag, proc[p].version)
<1>1. /\ proc[p].pc = "restore" /\ UNCHANGED <<ops, certState, local, expired>>
      /\ Succeeds(req) \/ Refused(req) \/ Ambiguous(req)
      /\ Exit(p) \/ (Go(p, "rollbackConfirm") /\ UNCHANGED lock)
  BY DEF Restore
<1>2. "rollbackConfirm" \in Labels /\ Follows(proc[p].pc, "rollbackConfirm")
      /\ "rollbackConfirm" \notin ConfirmedSteps /\ proc[p].pc \in VersionSteps
  BY <1>1 DEF Labels, Follows, PublishSteps, RollbackSteps, AuditSteps,
              ConfirmedSteps, VersionSteps
<1>3. Executable(req)
  BY <1>2, RequestsExecutable
<1> HIDE DEF req
<1> QED BY <1>1, <1>2, <1>3, CallStep

\* RollbackConfirm preserves the invariant.
LEMMA RollbackConfirmStep == ASSUME Inv, NEW p \in Process, RollbackConfirm(p) PROVE Inv'
<1>1. faults \in Nat /\ certState \in CertificateState
  BY Worker
<1>2. /\ proc[p].pc = "rollbackConfirm" /\ CountLag(oci.served, oci.current)
      /\ UNCHANGED <<oci, net, ops, certState, local, expired>>
      /\ Exit(p) \/ (Go(p, "rollbackConfirmed") /\ UNCHANGED lock)
  BY DEF RollbackConfirm
<1>3. /\ "rollbackConfirmed" \in Labels /\ Follows(proc[p].pc, "rollbackConfirmed")
      /\ "rollbackConfirmed" \notin ConfirmedSteps /\ proc[p].pc \in VersionSteps
      /\ proc[p].pc # "idle"
  BY <1>2 DEF Labels, Follows, PublishSteps, RollbackSteps, AuditSteps,
              ConfirmedSteps, VersionSteps
<1>4. faults' \in Nat /\ certState' \in CertificateState
  BY <1>1, <1>2 DEF CountLag, Fault
<1>5. CASE Exit(p)
  BY <1>2, <1>3, <1>4, <1>5, Exits
<1>6. CASE Go(p, "rollbackConfirmed") /\ UNCHANGED lock
  BY <1>2, <1>3, <1>4, <1>6, GoOn
<1> QED BY <1>2, <1>5, <1>6

\* The LogSteps of a rollback.
LEMMA RollbackLogged ==
    ASSUME Inv, NEW p \in Process,
           \/ RollbackReconciled(p) \/ RollbackConfirmed(p)
           \/ RollbackAuditPending(p) \/ RollbackComplete(p)
    PROVE  Inv'
<1>1. proc[p].version \in Nat /\ Null \in Nat
  BY Worker, ProcessFields DEF Null
<1>2. CASE RollbackReconciled(p)
  <2>1. LogStep(p, "rollbackReconciled", "OCI_RECONCILED", proc[p].version, "restore")
    BY <1>2 DEF RollbackReconciled
  <2>2. "restore" \in Labels /\ Follows("rollbackReconciled", "restore")
        /\ "restore" \notin ConfirmedSteps /\ "rollbackReconciled" \in RollbackSteps
        /\ "rollbackReconciled" \in VersionSteps
    BY DEF Labels, Follows, PublishSteps, RollbackSteps, AuditSteps, ConfirmedSteps, VersionSteps
  <2> QED BY <1>1, <2>1, <2>2, StateNames, Logged
<1>3. CASE RollbackConfirmed(p)
  <2>1. LogStep(p, "rollbackConfirmed", "OCI_CURRENT_CONFIRMED", proc[p].version, "recordRollback")
    BY <1>3 DEF RollbackConfirmed
  <2>2. "recordRollback" \in Labels /\ Follows("rollbackConfirmed", "recordRollback")
        /\ "recordRollback" \notin ConfirmedSteps /\ "rollbackConfirmed" \in RollbackSteps
        /\ "rollbackConfirmed" \in VersionSteps
    BY DEF Labels, Follows, PublishSteps, RollbackSteps, AuditSteps, ConfirmedSteps, VersionSteps
  <2> QED BY <1>1, <2>1, <2>2, StateNames, Logged
<1>4. CASE RollbackAuditPending(p)
  <2>1. LogStep(p, "rollbackAuditPending", "AUDIT_PENDING", Null, "rollbackAudit")
    BY <1>4 DEF RollbackAuditPending
  <2>2. "rollbackAudit" \in Labels /\ Follows("rollbackAuditPending", "rollbackAudit")
        /\ "rollbackAudit" \notin ConfirmedSteps /\ "rollbackAuditPending" \in RollbackSteps
        /\ "rollbackAuditPending" \in VersionSteps
    BY DEF Labels, Follows, PublishSteps, RollbackSteps, AuditSteps, ConfirmedSteps, VersionSteps
  <2> QED BY <1>1, <2>1, <2>2, StateNames, Logged
<1>5. CASE RollbackComplete(p)
  <2> DEFINE next == IF proc[p].cmd = "ROLLBACK" THEN "return" ELSE AfterAudit
  <2>1. LogStep(p, "rollbackComplete", "COMPLETED", proc[p].version, next)
    BY <1>5 DEF RollbackComplete
  <2>2. next \in {"return", "retentionPlan"}
    BY NextLabels
  <2> HIDE DEF next
  <2>3. next \in Labels /\ Follows("rollbackComplete", next)
        /\ next \notin ConfirmedSteps /\ next \notin VersionSteps
        /\ "rollbackComplete" \in RollbackSteps /\ "rollbackComplete" \notin PublishSteps
    BY <2>2 DEF Labels, Follows, PublishSteps, RollbackSteps, AuditSteps,
                ConfirmedSteps, VersionSteps
  <2> QED BY <1>1, <2>1, <2>3, StateNames, Logged
<1> QED BY <1>2, <1>3, <1>4, <1>5

\* RecordRollback preserves the invariant.
LEMMA RecordRollbackStep == ASSUME Inv, NEW p \in Process, RecordRollback(p) PROVE Inv'
<1>1. /\ faults \in Nat /\ certState \in CertificateState
      /\ proc[p].fp \in Nat /\ proc[p].version \in Nat
  BY Worker, ProcessFields
<1>2. /\ proc[p].pc = "recordRollback" /\ Go(p, "rollbackAuditPending")
      /\ certState' = [certState EXCEPT !.fp = proc[p].fp, !.version = proc[p].version]
      /\ UNCHANGED <<oci, net, ops, local, expired, lock, faults>>
  BY DEF RecordRollback, RecordRollbackSuccess
<1>3. /\ "rollbackAuditPending" \in Labels /\ Follows(proc[p].pc, "rollbackAuditPending")
      /\ proc[p].pc \in VersionSteps /\ proc[p].pc # "idle"
      /\ "rollbackAuditPending" \notin ConfirmedSteps
  BY <1>2 DEF Labels, Follows, PublishSteps, RollbackSteps, AuditSteps,
              ConfirmedSteps, VersionSteps
<1>4. certState' \in CertificateState /\ faults' \in Nat
  BY <1>1, <1>2 DEF CertificateState
<1> QED BY <1>2, <1>3, <1>4, GoOn

\* RollbackAudit preserves the invariant.
LEMMA RollbackAuditStep == ASSUME Inv, NEW p \in Process, RollbackAudit(p) PROVE Inv'
<1>1. /\ WellFormed(oci) /\ Grows(oci, oci) /\ net \subseteq Request /\ NetInv
      /\ certState \in CertificateState /\ local \in Nat \ {0} /\ expired \in Nat
      /\ faults \in Nat
  BY Worker
<1>2. proc[p].pc = "rollbackAudit" /\ UNCHANGED <<oci, net, certState, local, expired>>
  BY DEF RollbackAudit
<1>3. /\ "rollbackComplete" \in Labels /\ Follows(proc[p].pc, "rollbackComplete")
      /\ proc[p].pc \in RollbackSteps /\ proc[p].pc \in VersionSteps /\ proc[p].pc # "idle"
      /\ "rollbackComplete" \notin ConfirmedSteps /\ proc[p].pc \notin PublishSteps
  BY <1>2 DEF Labels, Follows, PublishSteps, RollbackSteps, AuditSteps,
              ConfirmedSteps, VersionSteps
<1>4. Null \in Nat
  BY DEF Null
<1>5. CASE /\ ops' = Transition(ops, proc[p].op, "AUDIT_SUCCESS", Null, Null)
           /\ Go(p, "rollbackComplete") /\ UNCHANGED <<lock, faults>>
  <2>1. Keeps(ops, ops') /\ CompletedIsTruthful'
    BY <1>2, <1>3, <1>4, <1>5, StateNames, RowMoved
  <2>2. faults' \in Nat
    BY <1>1, <1>5
  <2> QED BY <1>2, <1>3, <1>5, <2>1, <2>2, RowsStep
<1>6. CASE /\ Fault /\ Exit(p)
           /\ ops' = Transition(ops, proc[p].op, "ROLLBACK_FAILED", Null, Null)
  <2>1. Keeps(ops, ops') /\ CompletedIsTruthful'
    BY <1>2, <1>3, <1>4, <1>6, StateNames, RowMoved
  <2>2. faults' \in Nat
    BY <1>1, <1>6 DEF Fault
  <2>3. NetInv'
    BY <1>1, <1>2 DEF NetInv
  <2>4. /\ WellFormed(oci') /\ Grows(oci, oci') /\ net' \subseteq Request
        /\ certState' \in CertificateState /\ local' \in Nat \ {0} /\ expired' \in Nat
    BY <1>1, <1>2
  <2> QED BY <1>3, <1>6, <2>1, <2>2, <2>3, <2>4, ExitStep
<1> QED BY <1>5, <1>6 DEF RollbackAudit

\* Every step of RollbackService.rollback preserves the invariant.
LEMMA RollbackStep == ASSUME Inv, NEW p \in Process, Rollback(p) PROVE Inv'
BY RollbackStartStep, PreviousVersionStep, RollbackEtagStep, RestoreStep,
   RollbackConfirmStep, RollbackLogged, RecordRollbackStep, RollbackAuditStep
   DEF Rollback

-----------------------------------------------------------------------------
(***************************************************************************)
(* The steps of an audit.                                                  *)
(***************************************************************************)
\* AuditStart preserves the invariant.
LEMMA AuditStartStep == ASSUME Inv, NEW p \in Process, AuditStart(p) PROVE Inv'
<1> DEFINE r == [proc[p] EXCEPT !.pc = "auditPending", !.op = Len(ops) + 1]
<1>1. proc[p] \in ProcessState /\ ops \in Seq(Operation)
  BY Worker
<1>2. /\ proc[p].pc = "auditStart" /\ Become(p, r)
      /\ ops' = StartOperation(ops, "AUDIT", Null, Ocid)
      /\ UNCHANGED <<oci, net, certState, local, expired, lock, faults>>
  BY DEF AuditStart
<1>3. Len(ops) + 1 \in Nat /\ "auditPending" \in Labels
  BY <1>1 DEF Labels
<1>4. /\ r \in ProcessState /\ r.pc = "auditPending" /\ r.op = Len(ops) + 1
      /\ r.version = proc[p].version /\ r.plan = proc[p].plan
  BY <1>1, <1>3 DEF ProcessState
<1> HIDE DEF r
<1>5. /\ r.pc \notin VersionSteps /\ r.pc \notin PublishSteps /\ r.pc \notin RollbackSteps
      /\ r.pc \notin {"start", "renew"} /\ proc[p].pc # "idle"
  BY <1>2, <1>4 DEF VersionSteps, PublishSteps, RollbackSteps, AuditSteps
<1>6. "AUDIT" \in OperationType /\ Null \in Nat
  BY DEF OperationType, Null
<1> QED BY <1>2, <1>4, <1>5, <1>6, Inserted

\* The LogSteps of an audit.
LEMMA AuditLogged ==
    ASSUME Inv, NEW p \in Process, AuditPending(p) \/ AuditSucceeds(p) \/ AuditComplete(p)
    PROVE  Inv'
<1>1. Null \in Nat
  BY DEF Null
<1>2. {"auditBundle", "recordAudit", "closeAudits"} \subseteq Labels
  BY DEF Labels
<1>3. {"auditPending", "audit", "auditComplete", "auditBundle", "recordAudit", "closeAudits"}
         \subseteq AuditSteps
  BY DEF AuditSteps
<1>4. ASSUME NEW l \in AuditSteps
      PROVE  l \notin ConfirmedSteps /\ l \notin VersionSteps /\ l \notin PublishSteps
             /\ l \notin RollbackSteps /\ l \notin {"start", "renew"}
  BY DEF AuditSteps, PublishSteps, RollbackSteps, ConfirmedSteps, VersionSteps
<1>5. ASSUME NEW l \in AuditSteps, NEW m \in AuditSteps
      PROVE  Follows(l, m)
  BY <1>4 DEF Follows
<1>6. CASE AuditPending(p)
  <2>1. LogStep(p, "auditPending", "AUDIT_PENDING", Null, "auditBundle")
    BY <1>6 DEF AuditPending
  <2>2. /\ "auditPending" \in AuditSteps /\ Follows("auditPending", "auditBundle")
        /\ "auditBundle" \notin ConfirmedSteps /\ "auditBundle" \notin VersionSteps
    BY <1>3, <1>4, <1>5
  <2> QED BY <1>1, <1>2, <2>1, <2>2, StateNames, Logged
<1>7. CASE AuditSucceeds(p)
  <2>1. LogStep(p, "audit", "AUDIT_SUCCESS", Null, "recordAudit")
    BY <1>7 DEF AuditSucceeds
  <2>2. /\ "audit" \in AuditSteps /\ Follows("audit", "recordAudit")
        /\ "recordAudit" \notin ConfirmedSteps /\ "recordAudit" \notin VersionSteps
    BY <1>3, <1>4, <1>5
  <2> QED BY <1>1, <1>2, <2>1, <2>2, StateNames, Logged
<1>8. CASE AuditComplete(p)
  <2>1. LogStep(p, "auditComplete", "COMPLETED", Null, "closeAudits")
    BY <1>8 DEF AuditComplete
  <2>2. /\ "auditComplete" \in AuditSteps /\ Follows("auditComplete", "closeAudits")
        /\ "closeAudits" \notin ConfirmedSteps /\ "closeAudits" \notin VersionSteps
        /\ "auditComplete" \notin PublishSteps
    BY <1>3, <1>4, <1>5
  <2> QED BY <1>1, <1>2, <2>1, <2>2, StateNames, Logged
<1> QED BY <1>6, <1>7, <1>8

\* AuditBundle preserves the invariant.
LEMMA AuditBundleStep == ASSUME Inv, NEW p \in Process, AuditBundle(p) PROVE Inv'
<1>1. faults \in Nat /\ certState \in CertificateState
  BY Worker
<1>2. /\ proc[p].pc = "auditBundle"
      /\ UNCHANGED <<oci, net, ops, certState, local, expired, faults>>
      /\ Exit(p) \/ (Go(p, "audit") /\ UNCHANGED lock)
  BY DEF AuditBundle
<1>3. /\ "audit" \in Labels /\ Follows(proc[p].pc, "audit")
      /\ "audit" \notin ConfirmedSteps /\ "audit" \notin VersionSteps
      /\ proc[p].pc # "idle"
  BY <1>2 DEF Labels, Follows, PublishSteps, RollbackSteps, AuditSteps,
              ConfirmedSteps, VersionSteps
<1>4. faults' \in Nat /\ certState' \in CertificateState
  BY <1>1, <1>2
<1>5. CASE Exit(p)
  BY <1>2, <1>3, <1>4, <1>5, Exits
<1>6. CASE Go(p, "audit") /\ UNCHANGED lock
  BY <1>2, <1>3, <1>4, <1>6, GoOn
<1> QED BY <1>2, <1>5, <1>6

\* AuditFails preserves the invariant.
LEMMA AuditFailsStep == ASSUME Inv, NEW p \in Process, AuditFails(p) PROVE Inv'
<1> DEFINE next == AfterFailedAudit(p)
<1>1. faults \in Nat
  BY Worker
<1>2. /\ proc[p].pc = "audit" /\ AuditMode # "disabled" /\ Fault /\ Go(p, next)
      /\ ops' = Transition(ops, proc[p].op, "AUDIT_FAILED", Null, Null)
      /\ UNCHANGED <<oci, net, certState, local, expired, lock>>
  BY DEF AuditFails
<1>3. next \in {"return", "retentionPlan", "rollbackStart"}
  <2>1. AuditMode \in {"observe", "enforce"}
    BY <1>2, PublisherAssumption
  <2> QED BY <2>1, NextLabels DEF AfterFailedAudit
<1> HIDE DEF next
<1>4. /\ next \in Labels /\ Follows(proc[p].pc, next)
      /\ next \notin ConfirmedSteps /\ next \notin VersionSteps
      /\ proc[p].pc # "idle" /\ proc[p].pc \in AuditSteps /\ proc[p].pc \notin PublishSteps
  BY <1>2, <1>3 DEF Labels, Follows, PublishSteps, RollbackSteps, AuditSteps,
                    ConfirmedSteps, VersionSteps
<1>5. Keeps(ops, ops') /\ CompletedIsTruthful'
  <2>1. Null \in Nat
    BY DEF Null
  <2> QED BY <1>2, <1>4, <2>1, StateNames, RowMoved
<1>6. faults' \in Nat
  BY <1>1, <1>2 DEF Fault
<1> QED BY <1>2, <1>4, <1>5, <1>6, RowsStep

\* RecordAudit preserves the invariant.
LEMMA RecordAuditStep == ASSUME Inv, NEW p \in Process, RecordAudit(p) PROVE Inv'
<1>1. faults \in Nat /\ certState \in CertificateState
  BY Worker
<1>2. /\ proc[p].pc = "recordAudit" /\ Go(p, "auditComplete")
      /\ certState' = [certState EXCEPT !.audited = TRUE]
      /\ UNCHANGED <<oci, net, ops, local, expired, lock, faults>>
  BY DEF RecordAudit, RecordAuditSuccess
<1>3. /\ "auditComplete" \in Labels /\ Follows(proc[p].pc, "auditComplete")
      /\ "auditComplete" \notin ConfirmedSteps /\ "auditComplete" \notin VersionSteps
      /\ proc[p].pc # "idle"
  BY <1>2 DEF Labels, Follows, PublishSteps, RollbackSteps, AuditSteps,
              ConfirmedSteps, VersionSteps
<1>4. certState' \in CertificateState /\ faults' \in Nat
  BY <1>1, <1>2 DEF CertificateState
<1> QED BY <1>2, <1>3, <1>4, GoOn

\* CloseAudits preserves the invariant.
LEMMA CloseAuditsStep == ASSUME Inv, NEW p \in Process, CloseAudits(p) PROVE Inv'
<1> DEFINE next == IF proc[p].cmd = "AUDIT" THEN "return" ELSE AfterAudit
           n == CompleteInterruptedAudits(ops, proc[p].op)
<1>1. Grows(oci, oci) /\ faults \in Nat /\ ops \in Seq(Operation)
  BY Worker
<1>2. /\ proc[p].pc = "closeAudits" /\ Go(p, next) /\ ops' = n
      /\ UNCHANGED <<oci, net, certState, local, expired, lock, faults>>
  BY DEF CloseAudits
<1>3. next \in {"return", "retentionPlan"}
  BY NextLabels
<1>4. /\ Keeps(ops, n) /\ Len(n) = Len(ops)
      /\ \A i \in DOMAIN ops : n[i] = ops[i] \/ n[i].type = "AUDIT"
  BY <1>1, InterruptedAuditsCompleted
<1> HIDE DEF next, n
<1>5. /\ next \in Labels /\ Follows(proc[p].pc, next)
      /\ next \notin ConfirmedSteps /\ next \notin VersionSteps /\ proc[p].pc # "idle"
  BY <1>2, <1>3 DEF Labels, Follows, PublishSteps, RollbackSteps, AuditSteps,
                    ConfirmedSteps, VersionSteps
<1>6. Keeps(ops, ops') /\ CompletedIsTruthful'
  <2>1. DOMAIN n = DOMAIN ops /\ "AUDIT" \notin Publishing
    BY <1>4 DEF Keeps, Publishing
  <2>2. Grows(oci, oci')
    BY <1>1, <1>2
  <2> QED BY <1>2, <1>4, <2>1, <2>2, TruthfulRows
<1>7. faults' \in Nat
  BY <1>1, <1>2
<1> QED BY <1>2, <1>5, <1>6, <1>7, RowsStep

\* Every step of PublicationService.audit preserves the invariant.
LEMMA AuditStep == ASSUME Inv, NEW p \in Process, Audit(p) PROVE Inv'
BY AuditStartStep, AuditLogged, AuditBundleStep, AuditFailsStep, RecordAuditStep, CloseAuditsStep
   DEF Audit

-----------------------------------------------------------------------------
(***************************************************************************)
(* The steps of retention.                                                 *)
(***************************************************************************)
\* RetentionPlan preserves the invariant.
LEMMA RetentionPlanStep == ASSUME Inv, NEW p \in Process, RetentionPlan(p) PROVE Inv'
<1>1. /\ proc[p] \in ProcessState /\ WellFormed(oci) /\ Grows(oci, oci) /\ faults \in Nat
      /\ proc[p].version \in 0..Len(oci.versions)
  BY Worker
<1>2. /\ proc[p].pc = "retentionPlan"
      /\ UNCHANGED <<oci, net, ops, certState, local, expired, lock, faults>>
  BY DEF RetentionPlan
<1>3. PICK oldest \in 0..oci.listed :
         Become(p, [proc[p] EXCEPT !.pc = "retentionNext",
                                   !.plan = IF RetentionEnabled THEN Plan(oldest) ELSE {}])
  BY DEF RetentionPlan
<1> DEFINE plan == IF RetentionEnabled THEN Plan(oldest) ELSE {}
           r == [proc[p] EXCEPT !.pc = "retentionNext", !.plan = plan]
<1>4. plan \subseteq DOMAIN oci.versions /\ plan \in SUBSET Nat
  <2>1. \A v \in Plan(oldest) : v \in 1..oci.listed
    BY DEF Plan, Eligible, Deprecated
  <2>2. \A v \in 1..oci.listed : v \in DOMAIN oci.versions /\ v \in Nat
    BY <1>1 DEF WellFormed, Grows
  <2> QED BY <2>1, <2>2
<1>5. Become(p, r) /\ "retentionNext" \in Labels
  BY <1>3 DEF Labels
<1> HIDE DEF plan
<1>6. /\ r \in ProcessState /\ r.pc = "retentionNext" /\ r.cmd = proc[p].cmd
      /\ r.op = proc[p].op /\ r.fp = proc[p].fp
      /\ r.version = proc[p].version /\ r.plan = plan
  BY <1>1, <1>4, <1>5 DEF ProcessState
<1> HIDE DEF r
<1>7. /\ Follows(proc[p].pc, r.pc) /\ proc[p].pc # "idle"
      /\ r.pc \notin VersionSteps /\ r.pc \notin ConfirmedSteps
  BY <1>2, <1>6 DEF Follows, VersionSteps, ConfirmedSteps, PublishSteps, RollbackSteps, AuditSteps
<1>8. faults' \in Nat
  BY <1>1, <1>2
<1>9. r.version \in 0..Len(oci.versions) /\ r.plan \subseteq DOMAIN oci.versions
  BY <1>1, <1>4, <1>6
<1> QED BY <1>2, <1>5, <1>6, <1>7, <1>8, <1>9, ReadStep

\* RetentionNext preserves the invariant.
LEMMA RetentionNextStep == ASSUME Inv, NEW p \in Process, RetentionNext(p) PROVE Inv'
<1>1. /\ proc[p] \in ProcessState /\ WellFormed(oci) /\ Grows(oci, oci) /\ faults \in Nat
      /\ proc[p].plan \subseteq DOMAIN oci.versions /\ certState \in CertificateState
  BY Worker
<1>2. /\ proc[p].pc = "retentionNext"
      /\ UNCHANGED <<oci, net, ops, certState, local, expired, lock, faults>>
  BY DEF RetentionNext
<1>3. proc[p].pc # "idle" /\ faults' \in Nat /\ certState' \in CertificateState
  BY <1>1, <1>2
<1>4. CASE Go(p, "return")
  <2>1. /\ "return" \in Labels /\ Follows(proc[p].pc, "return")
        /\ "return" \notin VersionSteps /\ "return" \notin ConfirmedSteps
    BY <1>2 DEF Labels, Follows, VersionSteps, ConfirmedSteps, PublishSteps,
                RollbackSteps, AuditSteps
  <2> QED BY <1>2, <1>3, <1>4, <2>1, GoOn
<1>5. ASSUME NEW v \in proc[p].plan,
             Become(p, [proc[p] EXCEPT !.pc = "schedule", !.version = v,
                                       !.etag = oci.etag, !.plan = proc[p].plan \ {v}])
      PROVE  Inv'
  <2> DEFINE e == oci.etag
             s == proc[p].plan \ {v}
             r == [proc[p] EXCEPT !.pc = "schedule", !.version = v, !.etag = e, !.plan = s]
  <2>1. /\ v \in DOMAIN oci.versions /\ v \in Nat /\ v \in 0..Len(oci.versions)
    BY <1>1 DEF Grows
  <2>2. e \in Nat /\ "schedule" \in Labels
    BY <1>1, CertificateFields DEF WellFormed, Labels
  <2>3. s \in SUBSET Nat /\ s \subseteq DOMAIN oci.versions
    BY <1>1, ProcessFields
  <2>4. Become(p, r)
    BY <1>5
  <2> HIDE DEF e, s
  <2>5. /\ r \in ProcessState /\ r.pc = "schedule" /\ r.cmd = proc[p].cmd
        /\ r.op = proc[p].op /\ r.fp = proc[p].fp /\ r.version = v /\ r.plan = s
    BY <1>1, <2>1, <2>2, <2>3 DEF ProcessState
  <2> HIDE DEF r
  <2>6. Follows(proc[p].pc, r.pc) /\ r.pc \notin ConfirmedSteps
    BY <1>2, <2>5 DEF Follows, ConfirmedSteps, PublishSteps, RollbackSteps, AuditSteps
  <2>7. /\ r.version \in 0..Len(oci.versions) /\ r.plan \subseteq DOMAIN oci.versions
        /\ r.version \in DOMAIN oci.versions
    BY <2>1, <2>3, <2>5
  <2> QED BY <1>2, <1>3, <2>4, <2>5, <2>6, <2>7, ReadStep
<1> QED BY <1>4, <1>5 DEF RetentionNext

\* Schedule preserves the invariant.
LEMMA ScheduleStep == ASSUME Inv, NEW p \in Process, Schedule(p) PROVE Inv'
<1> DEFINE req == DeleteRequest(proc[p].etag, proc[p].version)
<1>1. /\ proc[p].pc = "schedule" /\ UNCHANGED <<ops, certState, local, expired>>
      /\ Succeeds(req) \/ Refused(req) \/ Ambiguous(req)
      /\ Exit(p) \/ (Go(p, "retentionNext") /\ UNCHANGED lock)
  BY DEF Schedule
<1>2. "retentionNext" \in Labels /\ Follows(proc[p].pc, "retentionNext")
      /\ "retentionNext" \notin ConfirmedSteps /\ proc[p].pc \in VersionSteps
  BY <1>1 DEF Labels, Follows, PublishSteps, RollbackSteps, AuditSteps,
              ConfirmedSteps, VersionSteps
<1>3. Executable(req)
  BY <1>2, RequestsExecutable
<1> HIDE DEF req
<1> QED BY <1>1, <1>2, <1>3, CallStep

\* Every step of PublicationService.retention preserves the invariant.
LEMMA RetentionStep == ASSUME Inv, NEW p \in Process, Retention(p) PROVE Inv'
BY RetentionPlanStep, RetentionNextStep, ScheduleStep DEF Retention

-----------------------------------------------------------------------------
(***************************************************************************)
(* The life of a process and its environment.                              *)
(***************************************************************************)
\* A command that takes the lock starts in a state the invariant allows.
LEMMA AcquireStep ==
    ASSUME Inv, NEW p \in Process, NEW cmd \in AllCommands, Acquire(p, cmd) PROVE Inv'
<1> DEFINE l == FirstStep(cmd)
           r == [Idle EXCEPT !.pc = l, !.cmd = cmd]
<1>1. /\ WellFormed(oci) /\ Grows(oci, oci) /\ ops \in Seq(Operation)
      /\ net \subseteq Request /\ NetInv /\ certState \in CertificateState
      /\ local \in Nat \ {0} /\ expired \in Nat /\ faults \in Nat
  BY Worker
<1>2. /\ lock = Free /\ lock' = p /\ Become(p, r)
      /\ UNCHANGED <<oci, net, ops, certState, local, expired, faults>>
  BY DEF Acquire
<1>3. cmd \in AllCommands
  OBVIOUS
<1>4. /\ l \in {"start", "renew", "auditStart", "rollbackStart", "retentionPlan"}
      /\ l \in {"start", "renew"} => cmd \in Publishing
  BY <1>3 DEF FirstStep, AllCommands, Publishing
<1> HIDE DEF l
<1>5. l \in Labels
  BY <1>4 DEF Labels
<1>6. /\ r \in ProcessState /\ r.pc = l /\ r.cmd = cmd
      /\ r.op = 0 /\ r.version = 0 /\ r.plan = {}
  <2>1. /\ Idle \in ProcessState /\ Idle.op = 0 /\ Idle.version = 0 /\ Idle.plan = {}
    BY IdleState
  <2> QED BY <1>3, <1>5, <2>1 DEF ProcessState
<1> HIDE DEF r
<1>7. proc \in [Process -> ProcessState] /\ Free \notin Process
  BY FreeIsNoProcess DEF Inv, TypeInv, TypeOK
<1>8. /\ proc' \in [Process -> ProcessState] /\ proc'[p] = r
      /\ \A q \in Process : q # p => proc'[q] = proc[q]
  BY <1>2, <1>6, <1>7 DEF Become
<1>9. \A q \in Process : proc[q].pc = "idle"
  BY <1>2, <1>7 DEF Inv, TypeInv, LockInv
<1>10. LockInv'
  BY <1>2, <1>8, <1>9 DEF LockInv
<1>11. ASSUME NEW q \in Process
       PROVE  OwnRow(q)' /\ OwnVersion(q)'
  <2>1. CASE q = p
    BY <1>4, <1>6, <1>8, <2>1 DEF OwnRow, OwnVersion, PublishSteps, RollbackSteps,
                                  AuditSteps, VersionSteps, ConfirmedSteps
  <2>2. CASE q # p
    <3>1. proc'[q].pc = "idle"
      BY <1>8, <1>9, <2>2
    <3> QED BY <3>1 DEF OwnRow, OwnVersion, PublishSteps, RollbackSteps, AuditSteps,
                        VersionSteps, ConfirmedSteps
  <2> QED BY <2>1, <2>2
<1>12. ASSUME NEW q \in Process
       PROVE  /\ proc'[q].op \in 0..Len(ops')
              /\ proc'[q].version \in 0..Len(oci'.versions)
              /\ proc'[q].plan \subseteq DOMAIN oci'.versions
  <2>1. ops' = ops /\ oci' = oci
    BY <1>2
  <2>2. CASE q = p
    BY <1>1, <1>6, <1>8, <2>1, <2>2 DEF Grows
  <2>3. CASE q # p
    <3>1. /\ proc[q].op \in 0..Len(ops) /\ proc[q].version \in 0..Len(oci.versions)
          /\ proc[q].plan \subseteq DOMAIN oci.versions
      BY Worker
    <3> QED BY <1>8, <2>1, <2>3, <3>1
  <2> QED BY <2>2, <2>3
<1>13. NetInv'
  BY <1>1, <1>2 DEF NetInv
<1>14. CompletedIsTruthful'
  BY <1>1, <1>2, TruthfulRows
<1>15. /\ WellFormed(oci') /\ ops' \in Seq(Operation)
       /\ net' \subseteq Request /\ certState' \in CertificateState
       /\ local' \in Nat \ {0} /\ expired' \in Nat /\ faults' \in Nat
       /\ lock' \in Process \union {Free}
  BY <1>1, <1>2
<1>16. TypeOK'
  BY <1>8, <1>12, <1>15 DEF TypeOK
<1> QED BY <1>10, <1>11, <1>13, <1>14, <1>16 DEF Inv, TypeInv

\* The end of a command, or its death, releases the lock and keeps the rest.
LEMMA EndStep == ASSUME Inv, NEW p \in Process, Return(p) \/ Die(p) PROVE Inv'
<1>1. faults \in Nat
  BY Worker
<1>2. /\ proc[p].pc # "idle" /\ Exit(p)
      /\ UNCHANGED <<oci, net, ops, certState, local, expired>>
  BY DEF Return, Die
<1>3. faults' \in Nat
  BY <1>1 DEF Return, Die, Fault
<1> QED BY <1>2, <1>3, Exits

\* A step that no process takes.
LEMMA OutsideStep ==
    ASSUME Inv, UNCHANGED <<ops, certState, local, lock, proc, faults>>,
           WellFormed(oci'), Grows(oci, oci'), net' \subseteq net, expired' \in Nat
    PROVE  Inv'
<1>1. /\ ops \in Seq(Operation) /\ net \subseteq Request /\ NetInv
      /\ certState \in CertificateState /\ local \in Nat \ {0} /\ faults \in Nat
      /\ lock \in Process \union {Free} /\ proc \in [Process -> ProcessState]
      /\ LockInv
  BY DEF Inv, TypeInv, TypeOK
<1>2. ASSUME NEW q \in Process
      PROVE  /\ proc'[q].op \in 0..Len(ops')
             /\ proc'[q].version \in 0..Len(oci'.versions)
             /\ proc'[q].plan \subseteq DOMAIN oci'.versions
             /\ OwnRow(q)' /\ OwnVersion(q)'
  <2>1. /\ proc[q].op \in 0..Len(ops) /\ proc[q].version \in 0..Len(oci.versions)
        /\ proc[q].plan \subseteq DOMAIN oci.versions
        /\ OwnRow(q) /\ OwnVersion(q)
    BY Worker
  <2>2. /\ proc[q].version \in 0..Len(oci'.versions)
        /\ proc[q].plan \subseteq DOMAIN oci'.versions
    BY <2>1 DEF Grows
  <2>3. OwnVersion(q)'
    BY <2>1 DEF OwnVersion, Grows, VersionSteps, ConfirmedSteps, PublishSteps
  <2>4. OwnRow(q)'
    BY <2>1 DEF OwnRow
  <2> QED BY <2>1, <2>2, <2>3, <2>4
<1>3. NetInv' /\ net' \subseteq Request
  BY <1>1 DEF NetInv, Grows
<1>4. CompletedIsTruthful'
  BY TruthfulRows
<1>5. LockInv'
  BY <1>1 DEF LockInv
<1>6. TypeOK'
  BY <1>1, <1>2, <1>3 DEF TypeOK
<1> QED BY <1>2, <1>3, <1>4, <1>5, <1>6 DEF Inv, TypeInv

\* Late requests, settling reads, renewals and time preserve the invariant.
LEMMA EnvironmentStep == ASSUME Inv, Environment PROVE Inv'
<1>1. /\ WellFormed(oci) /\ net \subseteq Request /\ NetInv /\ expired \in Nat
      /\ local \in Nat \ {0}
  BY DEF Inv, TypeInv, TypeOK
<1>2. ASSUME NEW req \in net, ArriveLate(req)
      PROVE  Inv'
  <2>1. Executable(req) /\ Lag \in BOOLEAN
    BY <1>1, PublisherAssumption DEF NetInv, Executable
  <2>2. oci' \in {oci, Executed(oci, req, Lag)} /\ net' \subseteq net
        /\ UNCHANGED <<ops, certState, local, lock, proc, faults, expired>>
    BY <1>2 DEF ArriveLate
  <2>3. WellFormed(oci') /\ Grows(oci, oci')
    BY <1>1, <2>1, <2>2, ExecutedWellFormed, SameVersionsGrow
  <2> QED BY <1>1, <2>2, <2>3, OutsideStep
<1>3. ASSUME ListingSettles
      PROVE  Inv'
  <2> DEFINE d == [oci EXCEPT !.listed = Len(oci.versions)]
  <2>1. oci \in Certificate /\ Len(oci.versions) \in Nat /\ DOMAIN oci.versions = 1..Len(oci.versions)
    BY <1>1, CertificateFields DEF WellFormed
  <2>2. /\ d \in Certificate /\ d.versions = oci.versions /\ d.listed = Len(oci.versions)
        /\ d.current = oci.current /\ d.served = oci.served
        /\ d.previous = oci.previous /\ d.pending = oci.pending
    BY <2>1 DEF Certificate
  <2>3. oci' = d /\ UNCHANGED <<net, ops, certState, local, lock, proc, faults, expired>>
    BY <1>3 DEF ListingSettles
  <2> HIDE DEF d
  <2>4. WellFormed(d) /\ Grows(oci, d)
    BY <1>1, <2>1, <2>2, SameVersionsGrow DEF WellFormed
  <2> QED BY <1>1, <2>3, <2>4, OutsideStep
<1>4. ASSUME RetrievalSettles
      PROVE  Inv'
  <2> DEFINE d == [oci EXCEPT !.served = oci.current]
  <2>1. oci \in Certificate /\ oci.current \in Nat
    BY <1>1 DEF WellFormed, Certificate
  <2>2. /\ d \in Certificate /\ d.versions = oci.versions /\ d.listed = oci.listed
        /\ d.current = oci.current /\ d.served = oci.current
        /\ d.previous = oci.previous /\ d.pending = oci.pending
    BY <2>1 DEF Certificate
  <2>3. oci' = d /\ UNCHANGED <<net, ops, certState, local, lock, proc, faults, expired>>
    BY <1>4 DEF RetrievalSettles
  <2> HIDE DEF d
  <2>4. WellFormed(d) /\ Grows(oci, d)
    BY <1>1, <2>2, SameVersionsGrow DEF WellFormed
  <2> QED BY <1>1, <2>3, <2>4, OutsideStep
<1>5. ASSUME Expire
      PROVE  Inv'
  <2>1. /\ UNCHANGED <<oci, net, ops, certState, local, lock, proc, faults>>
        /\ expired' \in Nat
    BY <1>1, <1>5 DEF Expire
  <2>2. WellFormed(oci') /\ Grows(oci, oci') /\ net' \subseteq net
    BY <1>1, <2>1, SameVersionsGrow
  <2> QED BY <2>1, <2>2, OutsideStep
<1> QED BY <1>2, <1>3, <1>4, <1>5 DEF Environment

-----------------------------------------------------------------------------
(***************************************************************************)
(* The theorems.                                                           *)
(***************************************************************************)
\* The empty store and the certificate as imported satisfy the invariant.
LEMMA InitInv == Init => Inv
<1> SUFFICES ASSUME Init PROVE Inv
  OBVIOUS
<1>1. WellFormed(oci)
  BY DEF Init, Imported, WellFormed, Certificate, NoVersion
<1>2. Len(ops) = 0 /\ ops \in Seq(Operation) /\ DOMAIN ops = {}
  BY DEF Init
<1>3. \A p \in Process : proc[p] = Idle
  BY DEF Init
<1>4. proc \in [Process -> ProcessState]
  BY IdleState DEF Init
<1>5. \A p \in Process : /\ proc[p].op \in 0..Len(ops)
                         /\ proc[p].version \in 0..Len(oci.versions)
                         /\ proc[p].plan \subseteq DOMAIN oci.versions
  BY <1>1, <1>2, <1>3, IdleState, CertificateFields DEF WellFormed
<1>6. /\ net \subseteq Request /\ NetInv /\ certState \in CertificateState
      /\ local \in Nat \ {0} /\ expired \in Nat /\ faults \in Nat
      /\ lock \in Process \union {Free}
  BY DEF Init, NetInv, CertificateState
<1>7. TypeOK
  BY <1>1, <1>2, <1>4, <1>5, <1>6 DEF TypeOK
<1>8. LockInv /\ \A p \in Process : OwnRow(p) /\ OwnVersion(p)
  BY <1>3, IdleState DEF LockInv, OwnRow, OwnVersion, PublishSteps, RollbackSteps,
                         AuditSteps, VersionSteps, ConfirmedSteps
<1>9. CompletedIsTruthful
  BY <1>2 DEF CompletedIsTruthful
<1> QED BY <1>6, <1>7, <1>8, <1>9 DEF Inv, TypeInv

\* The invariant is inductive: one step per handler and one for the rest.
LEMMA NextInv == Inv /\ [Next]_vars => Inv'
<1> SUFFICES ASSUME Inv, [Next]_vars PROVE Inv'
  OBVIOUS
<1>1. ASSUME NEW p \in Process, Step(p)
      PROVE  Inv'
  BY <1>1, ReconcileStep, RollbackStep, AuditStep, RetentionStep, EndStep DEF Step
<1>2. ASSUME NEW p \in Process, Die(p)
      PROVE  Inv'
  BY <1>2, EndStep
<1>3. ASSUME NEW p \in Process, NEW cmd \in Commands, Acquire(p, cmd)
      PROVE  Inv'
  BY <1>3, AcquireStep, PublisherAssumption
<1>4. CASE UNCHANGED vars
  BY <1>4 DEF vars, Inv, TypeInv, TypeOK, LockInv, OwnRow, OwnVersion, NetInv,
              CompletedIsTruthful
<1> QED BY <1>1, <1>2, <1>3, <1>4, EnvironmentStep DEF Next

\* Inv holds of every behaviour: what the reconciler, rollback, audit and
\* retention know at each control point, and that COMPLETED rows tell the truth.
THEOREM Invariance == Spec => []Inv
BY InitInv, NextInv, PTL DEF Spec

\* Rows and versions that a process works with always exist, and the OCI
\* certificate, the operations table and the recorded state keep their
\* types, for any number of processes, any interleaving of their commands
\* and any number of faults, requests in flight and stale reads.
THEOREM TypeCorrectness == Spec => []TypeOK
<1>1. Inv => TypeOK
  BY DEF Inv, TypeInv
<1> QED BY <1>1, Invariance, PTL

\* A publication reported COMPLETED names a version that carries its leaf,
\* whichever run closed its row (_complete, complete_reconciled_operations).
THEOREM CompletionIsTruthful == Spec => []CompletedIsTruthful
<1>1. Inv => CompletedIsTruthful
  BY DEF Inv
<1> QED BY <1>1, Invariance, PTL

\* The advisory lock admits one process at a time.
THEOREM MutualExclusion == Spec => []LockInv
<1>1. Inv => LockInv
  BY DEF Inv, TypeInv
<1> QED BY <1>1, Invariance, PTL

-----------------------------------------------------------------------------
(***************************************************************************)
(* No leaf is imported twice when the version listing is current (Lag is   *)
(* FALSE).                                                                 *)
(***************************************************************************)

\* A request that imports only a leaf newer than every version, if it is
\* still acceptable.
Harmless(req) ==
    /\ req \in Request
    /\ req.etag <= oci.etag
    /\ req.kind = "upload" /\ req.etag = oci.etag =>
          Newer(req.arg) /\ req.arg <= local

\* The effect of executing such a request: the etag moves on, so that every
\* other request made under the old one will be refused.
LEMMA ExecutedHarmlessly ==
    ASSUME Inv, ImportInv, ~Lag, NEW req, Harmless(req), Executable(req),
           Accepts(oci, req), oci' = Executed(oci, req, Lag),
           local' \in Nat, local <= local'
    PROVE  /\ oci'.etag = oci.etag + 1 /\ oci.etag \in Nat
           /\ NoLag' /\ NoDuplicateVersion'
           /\ \A i \in DOMAIN oci'.versions : oci'.versions[i] <= local'
<1>1. /\ WellFormed(oci) /\ local \in Nat \ {0} /\ oci \in Certificate
      /\ oci.versions \in Seq(Nat \ {0}) /\ oci.etag \in Nat
      /\ Len(oci.versions) \in Nat /\ DOMAIN oci.versions = 1..Len(oci.versions)
      /\ \A i \in DOMAIN oci.versions : oci.versions[i] \in Nat \ {0}
  BY CertificateFields DEF Inv, TypeInv, TypeOK, WellFormed
<1>2. /\ oci.listed = Len(oci.versions)
      /\ \A i, j \in DOMAIN oci.versions : i < j => oci.versions[i] < oci.versions[j]
      /\ \A i \in DOMAIN oci.versions : oci.versions[i] <= local
  BY DEF ImportInv, NoLag, NoDuplicateVersion
<1>3. CASE req.kind = "upload"
  <2> DEFINE n == Len(oci.versions) + 1
             vs == Append(oci.versions, req.arg)
             e == oci.etag + 1
             b == IF Lag THEN oci.listed ELSE n
  <2>1. oci' = [oci EXCEPT !.versions = vs, !.pending = n, !.etag = e, !.listed = b]
    <3>1. oci' = Uploaded(oci, req.arg, Lag)
      BY <1>3 DEF Executed
    <3> QED BY <3>1 DEF Uploaded
  <2>2. /\ req.arg \in Nat \ {0} /\ req.arg <= local
        /\ \A i \in DOMAIN oci.versions : oci.versions[i] < req.arg
    BY <1>1, <1>3 DEF Executable, Harmless, Accepts, Newer
  <2>3. /\ vs \in Seq(Nat \ {0}) /\ Len(vs) = n /\ DOMAIN vs = 1..n
        /\ \A i \in 1..Len(oci.versions) : vs[i] = oci.versions[i]
        /\ vs[n] = req.arg
    BY <1>1, <2>2
  <2>4. b = n
    OBVIOUS
  <2> HIDE DEF vs, b, e
  <2>5. oci'.versions = vs /\ oci'.etag = e /\ oci'.listed = n
    BY <1>1, <2>1, <2>4 DEF Certificate
  <2>6. \A i, j \in 1..n : i < j => vs[i] < vs[j]
    <3> SUFFICES ASSUME NEW i \in 1..n, NEW j \in 1..n, i < j PROVE vs[i] < vs[j]
      OBVIOUS
    <3>0. i \in 1..Len(oci.versions)
      <4> DEFINE m == Len(oci.versions)
      <4>1. m \in Nat /\ n = m + 1
        BY <1>1
      <4> HIDE DEF m, n
      <4>2. i \in 1..m
        BY <4>1
      <4> QED BY <4>2 DEF m
    <3>1. i \in 1..Len(oci.versions) /\ vs[i] = oci.versions[i]
      BY <2>3, <3>0
    <3>2. CASE j = n
      BY <1>1, <2>2, <2>3, <3>1, <3>2
    <3>3. CASE j # n
      <4> DEFINE m == Len(oci.versions)
      <4>0. j \in 1..m
        <5>1. m \in Nat /\ n = m + 1
          BY <1>1
        <5> HIDE DEF m, n
        <5> QED BY <3>3, <5>1
      <4>1. j \in 1..Len(oci.versions) /\ vs[j] = oci.versions[j]
        BY <2>3, <4>0
      <4>2. i \in DOMAIN oci.versions /\ j \in DOMAIN oci.versions
        BY <1>1, <3>1, <4>1
      <4> QED BY <1>2, <3>1, <4>1, <4>2
    <3> QED BY <3>2, <3>3
  <2>7. \A i \in 1..n : vs[i] <= local'
    <3> SUFFICES ASSUME NEW i \in 1..n PROVE vs[i] <= local'
      OBVIOUS
    <3>1. CASE i = n
      BY <1>1, <2>2, <2>3, <3>1
    <3>2. CASE i # n
      <4> DEFINE m == Len(oci.versions)
      <4>0. i \in 1..m
        <5>1. m \in Nat /\ n = m + 1
          BY <1>1
        <5> HIDE DEF m, n
        <5> QED BY <3>2, <5>1
      <4>1. i \in DOMAIN oci.versions /\ vs[i] = oci.versions[i]
        BY <1>1, <2>3, <4>0
      <4>2. oci.versions[i] \in Nat /\ oci.versions[i] <= local
        BY <1>1, <1>2, <4>1
      <4> QED BY <1>1, <4>1, <4>2
    <3> QED BY <3>1, <3>2
  <2> QED BY <1>1, <2>3, <2>5, <2>6, <2>7 DEF NoLag, NoDuplicateVersion, e
<1>4. CASE req.kind # "upload"
  <2>1. /\ oci'.versions = oci.versions /\ oci'.etag = oci.etag + 1
        /\ oci'.listed = oci.listed
    <3>1. CASE req.kind = "promote"
      <4>1. oci' = Promoted(oci, req.arg, Lag)
        BY <3>1 DEF Executed
      <4> QED BY <1>1, <4>1 DEF Promoted, Certificate
    <3>2. CASE req.kind = "delete"
      <4>1. oci' = Scheduled(oci, req.arg)
        BY <3>2 DEF Executed
      <4> QED BY <1>1, <4>1 DEF Scheduled, Certificate
    <3> QED BY <1>4, <3>1, <3>2 DEF Harmless, Request
  <2>2. NoLag' /\ NoDuplicateVersion'
    BY <1>2, <2>1 DEF NoLag, NoDuplicateVersion
  <2>3. ASSUME NEW i \in DOMAIN oci.versions
        PROVE  oci.versions[i] <= local'
    <3>1. oci.versions[i] \in Nat /\ oci.versions[i] <= local
      BY <1>1, <1>2
    <3> QED BY <1>1, <3>1
  <2> QED BY <1>1, <2>1, <2>2, <2>3
<1> QED BY <1>3, <1>4

\* What a step may do without disturbing ImportInv.
LEMMA ImportKept ==
    ASSUME Inv, ImportInv, ~Lag, local' \in Nat, local <= local',
           NEW req,
           \/ oci'.versions = oci.versions /\ oci'.etag = oci.etag /\ oci'.listed = oci.listed
           \/ /\ Harmless(req) /\ Executable(req)
              /\ Accepts(oci, req) /\ oci' = Executed(oci, req, Lag),
           \A s \in net' : s \in net \/ Harmless(s),
           \A q \in Process : /\ proc'[q].etag \in Nat /\ proc'[q].etag <= oci.etag
                              /\ proc'[q].pc = "upload" /\ proc'[q].etag = oci.etag =>
                                    Newer(proc'[q].fp)
    PROVE  ImportInv'
<1>1. /\ oci.etag \in Nat /\ local \in Nat \ {0} /\ net \subseteq Request
      /\ \A i \in DOMAIN oci.versions : oci.versions[i] \in Nat \ {0}
  BY CertificateFields DEF Inv, TypeInv, TypeOK, WellFormed
<1>2. \A s \in net' : /\ s.etag \in Nat /\ s.etag <= oci.etag
                      /\ s.kind = "upload" /\ s.etag = oci.etag => Newer(s.arg)
  BY <1>1 DEF ImportInv, EtagInv, Harmless, Request
<1>3. CASE oci'.versions = oci.versions /\ oci'.etag = oci.etag /\ oci'.listed = oci.listed
  <2>1. NoLag' /\ NoDuplicateVersion'
    BY <1>3 DEF ImportInv, NoLag, NoDuplicateVersion
  <2>2. \A i \in DOMAIN oci'.versions : oci'.versions[i] <= local'
    BY <1>1, <1>3 DEF ImportInv
  <2>3. EtagInv'
    BY <1>2, <1>3 DEF EtagInv, Newer
  <2> QED BY <2>1, <2>2, <2>3 DEF ImportInv
<1>4. CASE /\ Harmless(req) /\ Executable(req)
           /\ Accepts(oci, req) /\ oci' = Executed(oci, req, Lag)
  <2>1. /\ oci'.etag = oci.etag + 1 /\ NoLag' /\ NoDuplicateVersion'
        /\ \A i \in DOMAIN oci'.versions : oci'.versions[i] <= local'
    BY <1>4, ExecutedHarmlessly
  <2>2. EtagInv'
    BY <1>1, <1>2, <2>1 DEF EtagInv
  <2> QED BY <2>1, <2>2 DEF ImportInv
<1> QED BY <1>3, <1>4

\* A process's step that does not call OCI to change it.
LEMMA QuietStep ==
    ASSUME Inv, ImportInv, ~Lag, NEW p \in Process, NEW r, Become(p, r),
           UNCHANGED <<oci, net>>, local' \in Nat, local <= local',
           r.etag \in {0, proc[p].etag, oci.etag},
           r.pc = "upload" => Newer(r.fp)
    PROVE  ImportInv'
<1>1. /\ oci.etag \in Nat /\ proc \in [Process -> ProcessState]
  BY CertificateFields DEF Inv, TypeInv, TypeOK, WellFormed
<1>2. proc'[p] = r /\ \A q \in Process : q # p => proc'[q] = proc[q]
  BY <1>1 DEF Become
<1>3. \A q \in Process : /\ proc[q].etag \in Nat /\ proc[q].etag <= oci.etag
                         /\ proc[q].pc = "upload" /\ proc[q].etag = oci.etag =>
                               Newer(proc[q].fp)
  BY <1>1, ProcessFields DEF ImportInv, EtagInv
<1>4. \A q \in Process : /\ proc'[q].etag \in Nat /\ proc'[q].etag <= oci.etag
                         /\ proc'[q].pc = "upload" /\ proc'[q].etag = oci.etag =>
                               Newer(proc'[q].fp)
  BY <1>1, <1>2, <1>3
<1> QED BY <1>4, ImportKept

\* A process's step that does.
LEMMA SendingStep ==
    ASSUME Inv, ImportInv, ~Lag, NEW p \in Process, NEW r, Become(p, r),
           NEW req, Succeeds(req) \/ Refused(req) \/ Ambiguous(req),
           Harmless(req), Executable(req), local' = local,
           r.etag \in {0, proc[p].etag}, r.pc # "upload"
    PROVE  ImportInv'
<1>1. /\ oci.etag \in Nat /\ proc \in [Process -> ProcessState] /\ local \in Nat
  BY CertificateFields DEF Inv, TypeInv, TypeOK, WellFormed
<1>2. proc'[p] = r /\ \A q \in Process : q # p => proc'[q] = proc[q]
  BY <1>1 DEF Become
<1>3. \A q \in Process : /\ proc[q].etag \in Nat /\ proc[q].etag <= oci.etag
                         /\ proc[q].pc = "upload" /\ proc[q].etag = oci.etag =>
                               Newer(proc[q].fp)
  BY <1>1, ProcessFields DEF ImportInv, EtagInv
<1>4. \A q \in Process : /\ proc'[q].etag \in Nat /\ proc'[q].etag <= oci.etag
                         /\ proc'[q].pc = "upload" /\ proc'[q].etag = oci.etag =>
                               Newer(proc'[q].fp)
  BY <1>1, <1>2, <1>3
<1>5. /\ oci' = oci \/ (Accepts(oci, req) /\ oci' = Executed(oci, req, Lag))
      /\ \A s \in net' : s \in net \/ s = req
  BY DEF Succeeds, Refused, Ambiguous
<1> QED BY <1>1, <1>4, <1>5, ImportKept

\* The process moves on, or its command ends, without a mutating call.
LEMMA QuietGo ==
    ASSUME Inv, ImportInv, ~Lag, NEW p \in Process, NEW label \in Labels, Go(p, label),
           label # "upload", UNCHANGED <<oci, net, local>>
    PROVE  ImportInv'
<1> DEFINE r == Moved(p, label)
<1>1. proc[p] \in ProcessState /\ local \in Nat
  BY Worker
<1>2. r.pc = label /\ r.etag = proc[p].etag
  BY <1>1 DEF Moved, ProcessState
<1>3. Become(p, r)
  BY Zenon DEF Go, Moved
<1> HIDE DEF r
<1> QED BY <1>1, <1>2, <1>3, QuietStep

\* QuietStep, of a command that ends.
LEMMA QuietExit ==
    ASSUME Inv, ImportInv, ~Lag, NEW p \in Process, Exit(p), UNCHANGED <<oci, net, local>>
    PROVE  ImportInv'
<1>1. Idle.etag = 0 /\ Idle.pc = "idle"
  BY DEF Idle
<1>2. Become(p, Idle) /\ local \in Nat
  BY Worker DEF Exit
<1> QED BY <1>1, <1>2, QuietStep

\* QuietStep, of a transition of the process's row.
LEMMA QuietLog ==
    ASSUME Inv, ImportInv, ~Lag, NEW p \in Process, NEW label, NEW state, NEW version,
           NEW next \in Labels, next # "upload", LogStep(p, label, state, version, next)
    PROVE  ImportInv'
BY QuietGo DEF LogStep

\* The process remembers something, the etag it has just read perhaps.
LEMMA QuietRead ==
    ASSUME Inv, ImportInv, ~Lag, NEW p \in Process, NEW r, Become(p, r),
           UNCHANGED <<oci, net, local>>, r.etag \in {proc[p].etag, oci.etag},
           r.pc # "upload"
    PROVE  ImportInv'
<1>1. local \in Nat
  BY Worker
<1> QED BY <1>1, QuietStep

\* A request that is not an upload, and an upload of a newer leaf.
LEMMA RequestsHarmless ==
    ASSUME Inv, ImportInv, NEW p \in Process
    PROVE  /\ Harmless(PromoteRequest(proc[p].etag, proc[p].version))
           /\ Harmless(DeleteRequest(proc[p].etag, proc[p].version))
           /\ proc[p].pc = "upload" => Harmless(UploadRequest(proc[p].etag, proc[p].fp))
<1>1. /\ proc[p].etag \in Nat /\ proc[p].fp \in Nat /\ proc[p].version \in Nat
      /\ local \in Nat \ {0} /\ OwnRow(p)
  BY Worker, ProcessFields
<1>2. /\ proc[p].etag <= oci.etag
      /\ proc[p].pc = "upload" /\ proc[p].etag = oci.etag => Newer(proc[p].fp)
  BY DEF ImportInv, EtagInv
<1>3. proc[p].pc = "upload" => proc[p].fp <= local
  BY <1>1 DEF OwnRow, PublishSteps
<1>4. Harmless(PromoteRequest(proc[p].etag, proc[p].version))
  BY <1>1, <1>2 DEF Harmless, PromoteRequest, Request
<1>5. Harmless(DeleteRequest(proc[p].etag, proc[p].version))
  BY <1>1, <1>2 DEF Harmless, DeleteRequest, Request
<1>6. proc[p].pc = "upload" => Harmless(UploadRequest(proc[p].etag, proc[p].fp))
  BY <1>1, <1>2, <1>3 DEF Harmless, UploadRequest, Request
<1> QED BY <1>4, <1>5, <1>6

\* A call after which the process moves on or its command ends.
LEMMA SendingGo ==
    ASSUME Inv, ImportInv, ~Lag, NEW p \in Process, NEW req, Harmless(req), Executable(req),
           Succeeds(req) \/ Refused(req) \/ Ambiguous(req), UNCHANGED local,
           NEW label \in Labels, label # "upload", Exit(p) \/ Go(p, label)
    PROVE  ImportInv'
<1> DEFINE r == Moved(p, label)
<1>1. CASE Exit(p)
  <2>1. Idle.etag = 0 /\ Idle.pc = "idle" /\ Become(p, Idle)
    BY <1>1 DEF Idle, Exit
  <2> QED BY <2>1, SendingStep
<1>2. CASE Go(p, label)
  <2>1. proc[p] \in ProcessState
    BY Worker
  <2>2. r.pc = label /\ r.etag = proc[p].etag
    BY <2>1 DEF Moved, ProcessState
  <2>3. Become(p, r)
    BY <1>2, Zenon DEF Go, Moved
  <2> HIDE DEF r
  <2> QED BY <2>2, <2>3, SendingStep
<1> QED BY <1>1, <1>2

(***************************************************************************)
(* The one step that leads to an upload: the listing shows no version of   *)
(* the leaf, its last one is the newest of all, and the leaf is the newest *)
(* that was issued.                                                        *)
(***************************************************************************)
\* A leaf that the search did not find has not been imported.
LEMMA NotFoundIsNewer ==
    ASSUME Inv, ImportInv, ~Lag, NEW p \in Process, proc[p].pc = "find", NotFound(p)
    PROVE  Newer(proc[p].fp)
<1> DEFINE last == Len(oci.versions)
<1>1. /\ WellFormed(oci) /\ last \in Nat /\ DOMAIN oci.versions = 1..last
      /\ \A i \in DOMAIN oci.versions : oci.versions[i] \in Nat \ {0}
  BY Worker, CertificateFields DEF WellFormed
<1>2. /\ oci.listed = last /\ oci.listed \in DOMAIN oci.versions
      /\ \A i, j \in DOMAIN oci.versions : i < j => oci.versions[i] < oci.versions[j]
      /\ \A i \in DOMAIN oci.versions : oci.versions[i] <= local
  BY <1>1 DEF ImportInv, NoLag, NoDuplicateVersion, WellFormed
<1>3. proc[p].fp = local /\ local \in Nat
  BY Worker DEF OwnRow, PublishSteps
<1>4. last \in StagedForPromotion(oci)
  BY <1>1, <1>2 DEF StagedForPromotion, LatestListed
<1>5. oci.versions[last] # proc[p].fp
  BY <1>4 DEF NotFound, Matching
<1>6. oci.versions[last] < local
  BY <1>1, <1>2, <1>3, <1>5
<1>7. ASSUME NEW i \in DOMAIN oci.versions
      PROVE  oci.versions[i] < local
  <2>1. CASE i = last
    BY <1>6, <2>1
  <2>2. CASE i # last
    <3>1. i < last /\ last \in DOMAIN oci.versions
      BY <1>1, <1>2, <2>2
    <3>2. /\ oci.versions[i] < oci.versions[last]
          /\ oci.versions[i] \in Nat /\ oci.versions[last] \in Nat
      BY <1>1, <1>2, <3>1
    <3> QED BY <1>3, <1>6, <3>2
  <2> QED BY <2>1, <2>2
<1> QED BY <1>3, <1>7 DEF Newer

\* _find_matching_pending: when nothing is found the leaf is a new one.
LEMMA FindImports == ASSUME Inv, ImportInv, ~Lag, NEW p \in Process, Find(p) PROVE ImportInv'
<1>1. proc[p].pc = "find" /\ UNCHANGED <<oci, net, local>>
  BY DEF Find
<1>2. proc[p] \in ProcessState /\ local \in Nat
  BY Worker
<1>3. CASE Found(p)
  <2>1. PICK v : Become(p, [proc[p] EXCEPT !.pc = "pendingVerified", !.version = v])
    BY <1>3 DEF Found
  <2> DEFINE r == [proc[p] EXCEPT !.pc = "pendingVerified", !.version = v]
  <2>2. r.pc = "pendingVerified" /\ r.etag = proc[p].etag /\ Become(p, r)
    BY <1>2, <2>1 DEF ProcessState
  <2> HIDE DEF r
  <2> QED BY <1>1, <2>2, QuietRead
<1>4. CASE Rejected(p)
  BY <1>1, <1>4, QuietExit DEF Rejected
<1>5. CASE NotFound(p) /\ Go(p, "upload")
  <2> DEFINE r == Moved(p, "upload")
  <2>1. r.fp = proc[p].fp /\ r.etag = proc[p].etag
    BY <1>2 DEF Moved, ProcessState
  <2>2. Become(p, r)
    BY <1>5, Zenon DEF Go, Moved
  <2> HIDE DEF r
  <2>3. Newer(r.fp)
    BY <1>1, <1>5, <2>1, NotFoundIsNewer
  <2> QED BY <1>1, <1>2, <2>1, <2>2, <2>3, QuietStep
<1> QED BY <1>3, <1>4, <1>5 DEF Find

\* The steps of a publication preserve ImportInv.
LEMMA ReconcileImports ==
    ASSUME Inv, ImportInv, ~Lag, NEW p \in Process, Reconcile(p)
    PROVE  ImportInv'
<1>1. proc[p] \in ProcessState /\ local \in Nat
  BY Worker
<1>2. {"start", "find", "record", "findUploaded", "refresh", "confirm", "closeReconciled",
       "recordRenewal", "complete", "uploaded"} \subseteq Labels
  BY DEF Labels
<1>3. AfterPublication \in Labels /\ AfterPublication # "upload"
  BY NextLabels DEF Labels
<1>4. CASE Renew(p)
  <2>1. UNCHANGED <<oci, net>>
    BY <1>4 DEF Renew
  <2>2. CASE Exit(p) /\ UNCHANGED local
    BY <2>1, <2>2, QuietExit
  <2>3. CASE Go(p, "start") /\ local' \in {local, local + 1}
    <3> DEFINE r == Moved(p, "start")
    <3>1. r.pc = "start" /\ r.etag = proc[p].etag
      BY <1>1 DEF Moved, ProcessState
    <3>2. Become(p, r)
      BY <2>3, Zenon DEF Go, Moved
    <3> HIDE DEF r
    <3>3. local' \in Nat /\ local <= local'
      BY <1>1, <2>3
    <3> QED BY <2>1, <3>1, <3>2, <3>3, QuietStep
  <2> QED BY <1>4, <2>2, <2>3 DEF Renew
<1>5. CASE Start(p)
  <2> DEFINE r == [proc[p] EXCEPT !.pc = "getCertificate", !.op = Len(ops) + 1,
                                  !.fp = local, !.now = expired]
  <2>1. UNCHANGED <<oci, net, local>> /\ (Exit(p) \/ Become(p, r))
    BY <1>5 DEF Start
  <2>2. r.pc = "getCertificate" /\ r.etag = proc[p].etag
    BY <1>1 DEF ProcessState
  <2> HIDE DEF r
  <2> QED BY <2>1, <2>2, QuietExit, QuietRead
<1>6. CASE GetCertificate(p)
  <2> DEFINE r == [proc[p] EXCEPT !.pc = "getCurrent", !.etag = oci.etag]
  <2>1. UNCHANGED <<oci, net, local>> /\ Become(p, r)
    BY <1>6 DEF GetCertificate
  <2>2. r.pc = "getCurrent" /\ r.etag = oci.etag
    BY <1>1 DEF ProcessState
  <2> HIDE DEF r
  <2> QED BY <2>1, <2>2, QuietRead
<1>7. CASE GetCurrent(p)
  <2> DEFINE r == [proc[p] EXCEPT !.pc = "reconciled", !.version = oci.served]
  <2>1. UNCHANGED <<oci, net, local>> /\ (Exit(p) \/ Become(p, r))
    BY <1>7 DEF GetCurrent
  <2>2. r.pc = "reconciled" /\ r.etag = proc[p].etag
    BY <1>1 DEF ProcessState
  <2> HIDE DEF r
  <2> QED BY <2>1, <2>2, QuietExit, QuietRead
<1>8. CASE Reconciled(p)
  <2> DEFINE next == IF oci.versions[proc[p].version] = proc[p].fp THEN "record" ELSE "find"
  <2>1. LogStep(p, "reconciled", "OCI_RECONCILED", proc[p].version, next)
    BY <1>8 DEF Reconciled
  <2>2. next \in Labels /\ next # "upload"
    BY <1>2
  <2> HIDE DEF next
  <2> QED BY <2>1, <2>2, QuietLog
<1>9. CASE Upload(p)
  <2> DEFINE req == UploadRequest(proc[p].etag, proc[p].fp)
  <2>1. /\ proc[p].pc = "upload" /\ UNCHANGED local
        /\ Succeeds(req) \/ Refused(req) \/ Ambiguous(req)
        /\ Exit(p) \/ Go(p, "uploaded")
    BY <1>9 DEF Upload
  <2>2. Harmless(req) /\ Executable(req)
    BY <2>1, RequestsHarmless, RequestsExecutable DEF PublishSteps
  <2> HIDE DEF req
  <2> QED BY <1>2, <2>1, <2>2, SendingGo
<1>10. CASE PendingUploaded(p)
  BY <1>2, <1>10, QuietLog DEF PendingUploaded
<1>11. CASE FindUploaded(p)
  <2>1. UNCHANGED <<oci, net, local>> /\ (Exit(p) \/ Found(p))
    BY <1>11 DEF FindUploaded, Rejected
  <2>2. CASE Found(p)
    <3>1. PICK v : Become(p, [proc[p] EXCEPT !.pc = "pendingVerified", !.version = v])
      BY <2>2 DEF Found
    <3> DEFINE r == [proc[p] EXCEPT !.pc = "pendingVerified", !.version = v]
    <3>2. r.pc = "pendingVerified" /\ r.etag = proc[p].etag /\ Become(p, r)
      BY <1>1, <3>1 DEF ProcessState
    <3> HIDE DEF r
    <3> QED BY <2>1, <3>2, QuietRead
  <2> QED BY <2>1, <2>2, QuietExit
<1>12. CASE PendingVerified(p)
  BY <1>2, <1>12, QuietLog DEF PendingVerified
<1>13. CASE Refresh(p)
  <2> DEFINE r == [proc[p] EXCEPT !.pc = "promote", !.etag = oci.etag]
  <2>1. UNCHANGED <<oci, net, local>> /\ (Go(p, "confirm") \/ Become(p, r))
    BY <1>13 DEF Refresh
  <2>2. r.pc = "promote" /\ r.etag = oci.etag
    BY <1>1 DEF ProcessState
  <2> HIDE DEF r
  <2> QED BY <1>2, <2>1, <2>2, QuietGo, QuietRead
<1>14. CASE Promote(p)
  <2> DEFINE req == PromoteRequest(proc[p].etag, proc[p].version)
             r == [proc[p] EXCEPT !.pc = "refresh", !.attempt = proc[p].attempt + 1]
  <2>1. /\ proc[p].pc = "promote" /\ UNCHANGED local
        /\ Succeeds(req) \/ Refused(req) \/ Ambiguous(req)
        /\ Exit(p) \/ Go(p, "confirm") \/ Become(p, r)
    BY <1>14 DEF Promote
  <2>2. Harmless(req) /\ Executable(req)
    BY <2>1, RequestsHarmless, RequestsExecutable DEF VersionSteps, PublishSteps
  <2>3. r.pc = "refresh" /\ r.etag = proc[p].etag
    BY <1>1 DEF ProcessState
  <2> HIDE DEF req, r
  <2> QED BY <1>2, <2>1, <2>2, <2>3, SendingGo, SendingStep
<1>15. CASE Confirm(p)
  <2> DEFINE r == [proc[p] EXCEPT !.pc = "currentConfirmed", !.version = oci.served]
  <2>1. UNCHANGED <<oci, net, local>> /\ (Exit(p) \/ Become(p, r))
    BY <1>15 DEF Confirm
  <2>2. r.pc = "currentConfirmed" /\ r.etag = proc[p].etag
    BY <1>1 DEF ProcessState
  <2> HIDE DEF r
  <2> QED BY <2>1, <2>2, QuietExit, QuietRead
<1>16. CASE CurrentConfirmed(p)
  BY <1>2, <1>16, QuietLog DEF CurrentConfirmed
<1>17. CASE Record(p)
  BY <1>2, <1>17, QuietGo DEF Record
<1>18. CASE CloseReconciled(p)
  <2> DEFINE next == IF proc[p].cmd = "RENEW" THEN "recordRenewal" ELSE "complete"
  <2>1. next \in Labels /\ next # "upload"
    BY <1>2
  <2>2. Go(p, next) /\ UNCHANGED <<oci, net, local>>
    BY <1>18 DEF CloseReconciled
  <2> HIDE DEF next
  <2> QED BY <2>1, <2>2, QuietGo
<1>19. CASE RecordRenewal(p)
  BY <1>2, <1>19, QuietGo DEF RecordRenewal
<1>20. CASE Complete(p)
  BY <1>3, <1>20, QuietLog DEF Complete
<1> QED
  BY <1>4, <1>5, <1>6, <1>7, <1>8, <1>9, <1>10, <1>11, <1>12, <1>13, <1>14, <1>15, <1>16,
     <1>17, <1>18, <1>19, <1>20, FindImports
     DEF Reconcile

\* The steps of a rollback preserve ImportInv.
LEMMA RollbackImports ==
    ASSUME Inv, ImportInv, ~Lag, NEW p \in Process, Rollback(p)
    PROVE  ImportInv'
<1>1. proc[p] \in ProcessState
  BY Worker
<1>2. {"restore", "rollbackConfirm", "rollbackConfirmed", "recordRollback",
       "rollbackAuditPending", "rollbackAudit", "rollbackComplete", "return",
       "retentionPlan"} \subseteq Labels
  BY DEF Labels
<1>3. CASE RollbackStart(p)
  <2> DEFINE r == [proc[p] EXCEPT !.pc = "previousVersion", !.op = Len(ops) + 1,
                                  !.now = expired]
  <2>1. UNCHANGED <<oci, net, local>> /\ Become(p, r)
    BY <1>3 DEF RollbackStart
  <2>2. r.pc = "previousVersion" /\ r.etag = proc[p].etag
    BY <1>1 DEF ProcessState
  <2> HIDE DEF r
  <2> QED BY <2>1, <2>2, QuietRead
<1>4. CASE PreviousVersion(p)
  <2>1. UNCHANGED <<oci, net, local>>
    BY <1>4 DEF PreviousVersion
  <2>2. ASSUME NEW v, Become(p, [proc[p] EXCEPT !.pc = "rollbackEtag", !.version = v,
                                                !.fp = oci.versions[v]])
        PROVE  ImportInv'
    <3> DEFINE r == [proc[p] EXCEPT !.pc = "rollbackEtag", !.version = v,
                                    !.fp = oci.versions[v]]
    <3>1. r.pc = "rollbackEtag" /\ r.etag = proc[p].etag /\ Become(p, r)
      BY <1>1, <2>2 DEF ProcessState
    <3> HIDE DEF r
    <3> QED BY <2>1, <3>1, QuietRead
  <2> QED BY <1>4, <2>1, <2>2, QuietExit DEF PreviousVersion
<1>5. CASE RollbackEtag(p)
  <2> DEFINE r == [proc[p] EXCEPT !.pc = "rollbackReconciled", !.etag = oci.etag]
  <2>1. UNCHANGED <<oci, net, local>> /\ Become(p, r)
    BY <1>5 DEF RollbackEtag
  <2>2. r.pc = "rollbackReconciled" /\ r.etag = oci.etag
    BY <1>1 DEF ProcessState
  <2> HIDE DEF r
  <2> QED BY <2>1, <2>2, QuietRead
<1>6. CASE RollbackReconciled(p)
  BY <1>2, <1>6, QuietLog DEF RollbackReconciled
<1>7. CASE Restore(p)
  <2> DEFINE req == PromoteRequest(proc[p].etag, proc[p].version)
  <2>1. /\ proc[p].pc = "restore" /\ UNCHANGED local
        /\ Succeeds(req) \/ Refused(req) \/ Ambiguous(req)
        /\ Exit(p) \/ Go(p, "rollbackConfirm")
    BY <1>7 DEF Restore
  <2>2. Harmless(req) /\ Executable(req)
    BY <2>1, RequestsHarmless, RequestsExecutable DEF VersionSteps, RollbackSteps
  <2> HIDE DEF req
  <2> QED BY <1>2, <2>1, <2>2, SendingGo
<1>8. CASE RollbackConfirm(p)
  <2>1. UNCHANGED <<oci, net, local>> /\ (Exit(p) \/ Go(p, "rollbackConfirmed"))
    BY <1>8 DEF RollbackConfirm
  <2> QED BY <1>2, <2>1, QuietGo, QuietExit
<1>9. CASE RollbackConfirmed(p)
  BY <1>2, <1>9, QuietLog DEF RollbackConfirmed
<1>10. CASE RecordRollback(p)
  BY <1>2, <1>10, QuietGo DEF RecordRollback
<1>11. CASE RollbackAuditPending(p)
  BY <1>2, <1>11, QuietLog DEF RollbackAuditPending
<1>12. CASE RollbackAudit(p)
  <2>1. UNCHANGED <<oci, net, local>> /\ (Exit(p) \/ Go(p, "rollbackComplete"))
    BY <1>12 DEF RollbackAudit
  <2> QED BY <1>2, <2>1, QuietGo, QuietExit
<1>13. CASE RollbackComplete(p)
  <2> DEFINE next == IF proc[p].cmd = "ROLLBACK" THEN "return" ELSE AfterAudit
  <2>1. next \in Labels /\ next # "upload"
    BY <1>2, NextLabels
  <2>2. LogStep(p, "rollbackComplete", "COMPLETED", proc[p].version, next)
    BY <1>13 DEF RollbackComplete
  <2> HIDE DEF next
  <2> QED BY <2>1, <2>2, QuietLog
<1> QED
  BY <1>3, <1>4, <1>5, <1>6, <1>7, <1>8, <1>9, <1>10, <1>11, <1>12, <1>13 DEF Rollback

\* The steps of an audit preserve ImportInv.
LEMMA AuditImports ==
    ASSUME Inv, ImportInv, ~Lag, NEW p \in Process, Audit(p)
    PROVE  ImportInv'
<1>1. proc[p] \in ProcessState
  BY Worker
<1>2. {"auditBundle", "audit", "recordAudit", "auditComplete", "closeAudits", "return",
       "retentionPlan", "rollbackStart"} \subseteq Labels
  BY DEF Labels
<1>3. CASE AuditStart(p)
  <2> DEFINE r == [proc[p] EXCEPT !.pc = "auditPending", !.op = Len(ops) + 1]
  <2>1. UNCHANGED <<oci, net, local>> /\ Become(p, r)
    BY <1>3 DEF AuditStart
  <2>2. r.pc = "auditPending" /\ r.etag = proc[p].etag
    BY <1>1 DEF ProcessState
  <2> HIDE DEF r
  <2> QED BY <2>1, <2>2, QuietRead
<1>4. CASE AuditPending(p)
  BY <1>2, <1>4, QuietLog DEF AuditPending
<1>5. CASE AuditBundle(p)
  <2>1. UNCHANGED <<oci, net, local>> /\ (Exit(p) \/ Go(p, "audit"))
    BY <1>5 DEF AuditBundle
  <2> QED BY <1>2, <2>1, QuietGo, QuietExit
<1>6. CASE AuditFails(p)
  <2> DEFINE next == AfterFailedAudit(p)
  <2>1. /\ AuditMode # "disabled" /\ UNCHANGED <<oci, net, local>> /\ Go(p, next)
    BY <1>6 DEF AuditFails
  <2>2. AuditMode \in {"observe", "enforce"}
    BY <2>1, PublisherAssumption
  <2>3. next \in {"return", "retentionPlan", "rollbackStart"}
    BY <2>2, NextLabels DEF AfterFailedAudit
  <2> HIDE DEF next
  <2> QED BY <1>2, <2>1, <2>3, QuietGo
<1>7. CASE AuditSucceeds(p)
  BY <1>2, <1>7, QuietLog DEF AuditSucceeds
<1>8. CASE RecordAudit(p)
  BY <1>2, <1>8, QuietGo DEF RecordAudit
<1>9. CASE AuditComplete(p)
  BY <1>2, <1>9, QuietLog DEF AuditComplete
<1>10. CASE CloseAudits(p)
  <2> DEFINE next == IF proc[p].cmd = "AUDIT" THEN "return" ELSE AfterAudit
  <2>1. next \in Labels /\ next # "upload"
    BY <1>2, NextLabels
  <2>2. Go(p, next) /\ UNCHANGED <<oci, net, local>>
    BY <1>10 DEF CloseAudits
  <2> HIDE DEF next
  <2> QED BY <2>1, <2>2, QuietGo
<1> QED BY <1>3, <1>4, <1>5, <1>6, <1>7, <1>8, <1>9, <1>10 DEF Audit

\* The steps of a retention preserve ImportInv.
LEMMA RetentionImports ==
    ASSUME Inv, ImportInv, ~Lag, NEW p \in Process, Retention(p)
    PROVE  ImportInv'
<1>1. proc[p] \in ProcessState
  BY Worker
<1>2. {"return", "retentionNext"} \subseteq Labels
  BY DEF Labels
<1>3. CASE RetentionPlan(p)
  <2>1. UNCHANGED <<oci, net, local>>
    BY <1>3 DEF RetentionPlan
  <2>2. PICK plan : Become(p, [proc[p] EXCEPT !.pc = "retentionNext", !.plan = plan])
    BY <1>3 DEF RetentionPlan
  <2> DEFINE r == [proc[p] EXCEPT !.pc = "retentionNext", !.plan = plan]
  <2>3. r.pc = "retentionNext" /\ r.etag = proc[p].etag /\ Become(p, r)
    BY <1>1, <2>2 DEF ProcessState
  <2> HIDE DEF r
  <2> QED BY <2>1, <2>3, QuietRead
<1>4. CASE RetentionNext(p)
  <2>1. UNCHANGED <<oci, net, local>>
    BY <1>4 DEF RetentionNext
  <2>2. ASSUME NEW v, Become(p, [proc[p] EXCEPT !.pc = "schedule", !.version = v,
                                                !.etag = oci.etag,
                                                !.plan = proc[p].plan \ {v}])
        PROVE  ImportInv'
    <3> DEFINE r == [proc[p] EXCEPT !.pc = "schedule", !.version = v,
                                    !.etag = oci.etag, !.plan = proc[p].plan \ {v}]
    <3>1. r.pc = "schedule" /\ r.etag = oci.etag /\ Become(p, r)
      BY <1>1, <2>2 DEF ProcessState
    <3> HIDE DEF r
    <3> QED BY <2>1, <3>1, QuietRead
  <2>3. CASE Go(p, "return")
    BY <1>2, <2>1, <2>3, QuietGo
  <2> QED BY <1>4, <2>2, <2>3 DEF RetentionNext
<1>5. CASE Schedule(p)
  <2> DEFINE req == DeleteRequest(proc[p].etag, proc[p].version)
  <2>1. /\ proc[p].pc = "schedule" /\ UNCHANGED local
        /\ Succeeds(req) \/ Refused(req) \/ Ambiguous(req)
        /\ Exit(p) \/ Go(p, "retentionNext")
    BY <1>5 DEF Schedule
  <2>2. Harmless(req) /\ Executable(req)
    BY <2>1, RequestsHarmless, RequestsExecutable DEF VersionSteps
  <2> HIDE DEF req
  <2> QED BY <1>2, <2>1, <2>2, SendingGo
<1> QED BY <1>3, <1>4, <1>5 DEF Retention

\* A command that takes the lock imports nothing yet.
LEMMA AcquireImports ==
    ASSUME Inv, ImportInv, ~Lag, NEW p \in Process, NEW cmd \in AllCommands, Acquire(p, cmd)
    PROVE  ImportInv'
<1> DEFINE l == FirstStep(cmd)
           r == [Idle EXCEPT !.pc = l, !.cmd = cmd]
<1>1. UNCHANGED <<oci, net, local>> /\ Become(p, r)
  BY DEF Acquire
<1>2. cmd \in AllCommands
  OBVIOUS
<1>3. l # "upload"
  BY <1>2 DEF FirstStep, AllCommands
<1> HIDE DEF l
<1>4. r.pc = l /\ r.etag = 0
  BY DEF Idle
<1> HIDE DEF r
<1>5. local \in Nat
  BY Worker
<1> QED BY <1>1, <1>3, <1>4, <1>5, QuietStep

\* A request that arrives late is refused, or was the only upload of its leaf.
LEMMA EnvironmentImports == ASSUME Inv, ImportInv, ~Lag, Environment PROVE ImportInv'
<1>1. /\ oci \in Certificate /\ oci.etag \in Nat /\ local \in Nat
      /\ net \subseteq Request /\ NetInv /\ proc \in [Process -> ProcessState]
  BY CertificateFields DEF Inv, TypeInv, TypeOK, WellFormed
<1>2. /\ \A q \in Process : /\ proc[q].etag \in Nat /\ proc[q].etag <= oci.etag
                            /\ proc[q].pc = "upload" /\ proc[q].etag = oci.etag =>
                                  Newer(proc[q].fp)
      /\ oci.listed = Len(oci.versions)
  BY <1>1, ProcessFields DEF ImportInv, EtagInv, NoLag
<1>3. ASSUME NEW req \in net, ArriveLate(req)
      PROVE  ImportInv'
  <2>1. /\ oci' = oci \/ (Accepts(oci, req) /\ oci' = Executed(oci, req, Lag))
        /\ net' \subseteq net /\ UNCHANGED <<local, proc>>
    BY <1>3 DEF ArriveLate
  <2>2. Executable(req)
    BY <1>1 DEF NetInv, Executable
  <2>3. Harmless(req)
    <3>1. req.kind = "upload" => req.arg <= local
      BY <1>1 DEF NetInv
    <3> QED BY <1>1, <3>1 DEF Harmless, ImportInv, EtagInv
  <2> QED BY <1>1, <1>2, <2>1, <2>2, <2>3, ImportKept
<1>4. ASSUME /\ oci'.versions = oci.versions /\ oci'.etag = oci.etag /\ oci'.listed = oci.listed
             /\ UNCHANGED <<net, local, proc>>
      PROVE  ImportInv'
  BY <1>1, <1>2, <1>4, ImportKept
<1>5. ASSUME RetrievalSettles
      PROVE  ImportInv'
  <2>1. oci'.versions = oci.versions /\ oci'.etag = oci.etag /\ oci'.listed = oci.listed
    BY <1>1, <1>5 DEF RetrievalSettles, Certificate
  <2> QED BY <1>4, <1>5, <2>1 DEF RetrievalSettles
<1>6. ASSUME Expire
      PROVE  ImportInv'
  BY <1>4, <1>6 DEF Expire
<1>7. ~ListingSettles
  BY <1>2 DEF ListingSettles
<1> QED BY <1>3, <1>5, <1>6, <1>7 DEF Environment

-----------------------------------------------------------------------------
\* ImportInv holds before any command has run.
LEMMA InitImports == Init => ImportInv
<1> SUFFICES ASSUME Init PROVE ImportInv
  OBVIOUS
<1>1. /\ oci.versions = <<1>> /\ oci.etag = 0 /\ oci.listed = 1 /\ local = 1 /\ net = {}
  BY DEF Init, Imported
<1>2. \A p \in Process : proc[p].etag = 0 /\ proc[p].pc = "idle"
  BY DEF Init, Idle
<1>3. Len(oci.versions) = 1 /\ DOMAIN oci.versions = {1} /\ oci.versions[1] = 1
  BY <1>1
<1> QED BY <1>1, <1>2, <1>3 DEF ImportInv, NoLag, NoDuplicateVersion, EtagInv

\* ImportInv is inductive relative to Inv when listings do not lag.
LEMMA NextImports == ASSUME ~Lag PROVE Inv /\ ImportInv /\ [Next]_vars => ImportInv'
<1> SUFFICES ASSUME Inv, ImportInv, [Next]_vars PROVE ImportInv'
  OBVIOUS
<1>1. ASSUME NEW p \in Process, Step(p) \/ Die(p)
      PROVE  ImportInv'
  <2>1. CASE Return(p) \/ Die(p)
    BY <2>1, QuietExit DEF Return, Die
  <2> QED BY <1>1, <2>1, ReconcileImports, RollbackImports, AuditImports, RetentionImports
          DEF Step
<1>2. ASSUME NEW p \in Process, NEW cmd \in Commands, Acquire(p, cmd)
      PROVE  ImportInv'
  BY <1>2, AcquireImports, PublisherAssumption
<1>3. CASE UNCHANGED vars
  BY <1>3 DEF vars, ImportInv, NoLag, NoDuplicateVersion, EtagInv, Newer
<1> QED BY <1>1, <1>2, <1>3, EnvironmentImports DEF Next

\* With a listing that is current, each leaf is imported into OCI at most
\* once and in the order of issue, however many runs are killed at any step
\* of publish and however late their upload requests arrive: the etag of
\* upload_pending_version is read before the listing that is searched.
THEOREM NoDuplicateImport == ASSUME ~Lag PROVE Spec => []NoDuplicateVersion
<1>1. Inv /\ ImportInv /\ [Next]_vars => ImportInv'
  BY NextImports
<1>2. ImportInv => NoDuplicateVersion
  BY DEF ImportInv
<1> QED BY <1>1, <1>2, InitImports, Invariance, PTL DEF Spec
=============================================================================
