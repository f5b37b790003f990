---------------------- MODULE CertificateInvariant_proofs ----------------------
(***************************************************************************)
(* Proof that CertificateInv is an invariant of PublicationService when    *)
(* OCI's reads do not lag, for any number of processes and any bounds: why *)
(* CURRENT is accounted for, why no deletion reaches a version in use and  *)
(* why an uploaded leaf is remembered.                                     *)
(***************************************************************************)
EXTENDS PublicationService_proofs, CertificateInvariant

Known == Inv /\ ImportInv /\ CertificateInv

-----------------------------------------------------------------------------
(***************************************************************************)
(* The certificate, and a request that is executed.                        *)
(***************************************************************************)

\* What the invariants say of the OCI certificate.
LEMMA CertificateFacts ==
    ASSUME Inv, ImportInv
    PROVE  /\ WellFormed(oci) /\ oci \in Certificate
           /\ Len(oci.versions) \in Nat /\ DOMAIN oci.versions = 1..Len(oci.versions)
           /\ \A i \in DOMAIN oci.versions : /\ oci.versions[i] \in Nat \ {0}
                                             /\ oci.versions[i] <= local
           /\ \A i, j \in DOMAIN oci.versions : oci.versions[i] = oci.versions[j] => i = j
           /\ oci.current \in DOMAIN oci.versions
           /\ oci.previous \in 0..Len(oci.versions) /\ oci.pending \in 0..Len(oci.versions)
           /\ oci.listed = Len(oci.versions) /\ oci.etag \in Nat
           /\ local \in Nat \ {0}
<1>1. /\ WellFormed(oci) /\ oci \in Certificate /\ local \in Nat \ {0}
      /\ oci.versions \in Seq(Nat \ {0}) /\ oci.etag \in Nat
      /\ Len(oci.versions) \in Nat /\ DOMAIN oci.versions = 1..Len(oci.versions)
      /\ \A i \in DOMAIN oci.versions : oci.versions[i] \in Nat \ {0}
  BY CertificateFields DEF Inv, TypeInv, TypeOK, WellFormed
<1>2. /\ oci.listed = Len(oci.versions)
      /\ \A i, j \in DOMAIN oci.versions : i < j => oci.versions[i] < oci.versions[j]
      /\ \A i \in DOMAIN oci.versions : oci.versions[i] <= local
  BY DEF ImportInv, NoLag, NoDuplicateVersion
<1>3. ASSUME NEW i \in DOMAIN oci.versions, NEW j \in DOMAIN oci.versions,
             oci.versions[i] = oci.versions[j]
      PROVE  i = j
  <2>1. i \in Nat /\ j \in Nat /\ oci.versions[i] \in Nat /\ oci.versions[j] \in Nat
    BY <1>1
  <2>2. ~(i < j) /\ ~(j < i)
    BY <1>2, <1>3, <2>1
  <2> QED BY <2>1, <2>2
<1> QED BY <1>1, <1>2, <1>3 DEF WellFormed

\* The fields of the certificate after each kind of request.
LEMMA ExecutedFields ==
    ASSUME Inv, ImportInv, ~Lag, NEW req, Executable(req), oci' = Executed(oci, req, Lag)
    PROVE  /\ oci'.etag = oci.etag + 1
           /\ req.kind = "upload" =>
                 /\ oci'.versions = Append(oci.versions, req.arg)
                 /\ Len(oci'.versions) = Len(oci.versions) + 1
                 /\ oci'.current = oci.current /\ oci'.served = oci.served
                 /\ oci'.previous = oci.previous /\ oci'.deleted = oci.deleted
                 /\ oci'.pending = Len(oci.versions) + 1
           /\ req.kind = "promote" =>
                 /\ oci'.versions = oci.versions
                 /\ oci'.current = req.arg /\ oci'.served = req.arg
                 /\ oci'.previous = oci.current /\ oci'.deleted = oci.deleted
                 /\ oci'.pending = IF oci.pending = req.arg THEN NoVersion ELSE oci.pending
           /\ req.kind = "delete" =>
                 /\ oci'.versions = oci.versions
                 /\ oci'.current = oci.current /\ oci'.served = oci.served
                 /\ oci'.previous = oci.previous /\ oci'.pending = oci.pending
                 /\ oci'.deleted = oci.deleted \union {req.arg}
<1>1. oci \in Certificate /\ oci.versions \in Seq(Nat \ {0})
  BY CertificateFacts, CertificateFields
<1>2. CASE req.kind = "upload"
  <2> DEFINE n == Len(oci.versions) + 1
             vs == Append(oci.versions, req.arg)
             e == oci.etag + 1
             b == IF Lag THEN oci.listed ELSE n
  <2>1. oci' = [oci EXCEPT !.versions = vs, !.pending = n, !.etag = e, !.listed = b]
    <3>1. oci' = Uploaded(oci, req.arg, Lag)
      BY <1>2 DEF Executed
    <3> QED BY <3>1 DEF Uploaded
  <2>2. req.arg \in Nat \ {0}
    BY <1>2, CertificateFacts DEF Executable
  <2>3. Len(vs) = n
    BY <1>1, <2>2
  <2> HIDE DEF n, vs, e, b
  <2>4. /\ oci'.versions = vs /\ oci'.etag = e /\ oci'.pending = n
        /\ oci'.current = oci.current /\ oci'.served = oci.served
        /\ oci'.previous = oci.previous /\ oci'.deleted = oci.deleted
    BY <1>1, <2>1 DEF Certificate
  <2> QED BY <1>2, <2>3, <2>4 DEF n, vs, e
<1>3. CASE req.kind = "promote"
  <2>1. oci' = Promoted(oci, req.arg, Lag)
    BY <1>3 DEF Executed
  <2> DEFINE e == oci.etag + 1
             b == IF oci.pending = req.arg THEN NoVersion ELSE oci.pending
             w == IF Lag THEN oci.served ELSE req.arg
             v == req.arg
  <2>2. oci' = [oci EXCEPT !.current = v, !.previous = oci.current, !.pending = b,
                           !.etag = e, !.served = w]
    BY <2>1 DEF Promoted
  <2>3. w = v
    OBVIOUS
  <2> HIDE DEF e, b, w, v
  <2>4. /\ oci'.versions = oci.versions /\ oci'.etag = e /\ oci'.pending = b
        /\ oci'.current = v /\ oci'.served = w
        /\ oci'.previous = oci.current /\ oci'.deleted = oci.deleted
    BY <1>1, <2>2 DEF Certificate
  <2> QED BY <1>3, <2>3, <2>4 DEF e, b, v
<1>4. CASE req.kind = "delete"
  <2>1. oci' = Scheduled(oci, req.arg)
    BY <1>4 DEF Executed
  <2> DEFINE e == oci.etag + 1
             s == oci.deleted \union {req.arg}
  <2>2. oci' = [oci EXCEPT !.deleted = s, !.etag = e]
    BY <2>1 DEF Scheduled
  <2> HIDE DEF e, s
  <2>3. /\ oci'.versions = oci.versions /\ oci'.etag = e /\ oci'.pending = oci.pending
        /\ oci'.current = oci.current /\ oci'.served = oci.served
        /\ oci'.previous = oci.previous /\ oci'.deleted = s
    BY <1>1, <2>2 DEF Certificate
  <2> QED BY <1>4, <2>3 DEF e, s
<1> QED BY <1>2, <1>3, <1>4 DEF Executable, Request

\* Versions keep their leaves.
LEMMA LeavesKept ==
    ASSUME Inv, ImportInv, NEW req, Executable(req), oci' = Executed(oci, req, Lag)
    PROVE  /\ DOMAIN oci.versions \subseteq DOMAIN oci'.versions
           /\ \A i \in DOMAIN oci.versions : oci'.versions[i] = oci.versions[i]
<1>1. Lag \in BOOLEAN
  BY PublisherAssumption
<1>2. Grows(oci, oci')
  BY <1>1, CertificateFacts, ExecutedWellFormed
<1> QED BY <1>2 DEF Grows

\* A row that backs a version still does, whatever request is executed.
LEMMA BackingKept ==
    ASSUME Inv, ImportInv, ~Lag, NEW req, Executable(req), oci' = Executed(oci, req, Lag),
           UNCHANGED ops
    PROVE  /\ \A v \in DOMAIN oci.versions, i \in Active(ops) : Backs(i, v) => Backs(i, v)'
           /\ \A fp : oci'.current = oci.current /\ CurrentBacked(fp) => CurrentBacked(fp)'
<1>1. \A i \in DOMAIN oci.versions : oci'.versions[i] = oci.versions[i]
  BY LeavesKept
<1>2. ASSUME NEW v \in DOMAIN oci.versions, NEW i \in Active(ops), Backs(i, v)
      PROVE  Backs(i, v)'
  BY <1>1, <1>2 DEF Backs
<1>3. ASSUME NEW fp, oci'.current = oci.current, CurrentBacked(fp)
      PROVE  CurrentBacked(fp)'
  <2>1. PICK i \in Active(ops) : Backs(i, oci.current) /\ Spared(i, fp)
    BY <1>3 DEF CurrentBacked
  <2>2. Backs(i, oci.current)'
    BY <1>2, <1>3, <2>1, CertificateFacts DEF Backs
  <2>3. Spared(i, fp)' /\ i \in Active(ops')
    BY <2>1 DEF Spared
  <2> QED BY <2>2, <2>3 DEF CurrentBacked
<1> QED BY <1>2, <1>3

\* After an accepted request every other one is out of date.
LEMMA OthersRefused ==
    ASSUME Inv, ImportInv, oci'.etag = oci.etag + 1, net' \subseteq net
    PROVE  Quiet' /\ \A req \in net' : req.etag # oci'.etag
<1>1. /\ oci.etag \in Nat /\ net \subseteq Request
      /\ \A req \in net : req.etag <= oci.etag
  BY CertificateFacts DEF Inv, TypeInv, TypeOK, ImportInv, EtagInv
<1>2. \A req \in net' : req.etag \in Nat /\ req.etag < oci'.etag
  BY <1>1 DEF Request
<1> QED BY <1>1, <1>2 DEF Quiet

\* A grounded promotion is to a version that exists, is backed and is named.
LEMMA PromotionGrounded ==
    ASSUME Inv, ImportInv, NEW v \in DOMAIN oci.versions, NEW fp, Backed(v, fp)
    PROVE  /\ v \in Referenced
           /\ \E i \in Active(ops) : Backs(i, v) /\ Spared(i, fp)
BY DEF Backed, Backs, Referenced

\* What may be disposed of may still be after a grounded request.
LEMMA DisposableKept ==
    ASSUME Inv, ImportInv, ~Lag, NEW req, Executable(req), Grounded(req),
           oci' = Executed(oci, req, Lag), UNCHANGED ops
    PROVE  \A v : Disposable(v) => Disposable(v)'
<1> SUFFICES ASSUME NEW v, Disposable(v) PROVE Disposable(v)'
  OBVIOUS
<1>1. /\ v \in DOMAIN oci.versions /\ v \notin Referenced
      /\ v # oci.current /\ v # oci.previous /\ v # oci.pending /\ v # Len(oci.versions)
  BY DEF Disposable, Protected, Latest
<1>2. /\ DOMAIN oci.versions = 1..Len(oci.versions) /\ Len(oci.versions) \in Nat
      /\ v \in DOMAIN oci'.versions
  BY <1>1, CertificateFacts, LeavesKept
<1>3. v \notin Referenced'
  BY <1>1 DEF Referenced
<1>4. /\ v # oci'.current /\ v # oci'.previous /\ v # oci'.pending
      /\ v # Len(oci'.versions)
  <2>1. CASE req.kind = "upload"
    <3>1. /\ oci'.current = oci.current /\ oci'.previous = oci.previous
          /\ oci'.pending = Len(oci.versions) + 1
          /\ Len(oci'.versions) = Len(oci.versions) + 1
      BY <2>1, ExecutedFields
    <3>2. v # Len(oci.versions) + 1
      BY <1>1, <1>2
    <3> QED BY <1>1, <3>1, <3>2
  <2>2. CASE req.kind = "promote"
    <3>1. /\ oci'.current = req.arg /\ oci'.previous = oci.current
          /\ oci'.versions = oci.versions
          /\ oci'.pending \in {NoVersion, oci.pending}
      BY <2>2, ExecutedFields
    <3>2. req.arg \in Referenced
      BY <2>2, PromotionGrounded DEF Grounded, Executable
    <3>3. v # NoVersion
      BY <1>1, <1>2 DEF NoVersion
    <3> QED BY <1>1, <3>1, <3>2, <3>3
  <2>3. CASE req.kind = "delete"
    BY <1>1, <2>3, ExecutedFields
  <2> QED BY <2>1, <2>2, <2>3 DEF Executable, Request
<1> QED BY <1>2, <1>3, <1>4 DEF Disposable, Protected, Latest

\* The promises about the stages survive a grounded request.
LEMMA StagesKept ==
    ASSUME Inv, ImportInv, StageInv, ~Lag, NEW req, Executable(req), Grounded(req),
           oci' = Executed(oci, req, Lag), UNCHANGED <<ops, certState>>
    PROVE  StageInv'
<1>1. /\ DOMAIN oci.versions = 1..Len(oci.versions) /\ Len(oci.versions) \in Nat
      /\ oci.current \in DOMAIN oci.versions /\ oci.pending \in 0..Len(oci.versions)
      /\ DOMAIN oci.versions \subseteq DOMAIN oci'.versions
      /\ \A i \in DOMAIN oci.versions : oci'.versions[i] = oci.versions[i]
  BY CertificateFacts, LeavesKept
<1>2. /\ oci.served = oci.current /\ oci.pending # oci.current
      /\ oci.deleted \subseteq DOMAIN oci.versions
      /\ \A v \in oci.deleted : /\ v # oci.current /\ v # oci.previous
                                /\ v # oci.pending /\ v # Len(oci.versions)
      /\ oci.pending # NoVersion => Remembered(oci.versions[oci.pending])
      /\ oci.current = certState.version \/ CurrentBacked(Null)
  BY DEF StageInv, DeletionIsSafe, Protected, Latest, PendingIsRemembered, Remembered
<1>3. CASE req.kind = "upload"
  <2>1. /\ oci'.current = oci.current /\ oci'.served = oci.served
        /\ oci'.previous = oci.previous /\ oci'.deleted = oci.deleted
        /\ oci'.pending = Len(oci.versions) + 1
        /\ Len(oci'.versions) = Len(oci.versions) + 1
        /\ oci'.versions = Append(oci.versions, req.arg)
    BY <1>3, ExecutedFields
  <2>2. Len(oci.versions) + 1 \notin DOMAIN oci.versions
    BY <1>1
  <2>3. PendingIsRemembered'
    <3>1. Remembered(req.arg)
      BY <1>3 DEF Grounded
    <3>2. oci'.versions[oci'.pending] = req.arg
      BY <2>1, CertificateFacts, CertificateFields
    <3> QED BY <3>1, <3>2 DEF PendingIsRemembered, Remembered
  <2>4. DeletionIsSafe'
    BY <1>2, <2>1, <2>2 DEF DeletionIsSafe, Protected, Latest
  <2>5. oci'.pending # oci'.current
    BY <1>1, <2>1, <2>2
  <2>6. oci'.current = certState'.version \/ CurrentBacked(Null)'
    BY <1>2, <2>1, BackingKept
  <2> QED BY <1>1, <1>2, <2>1, <2>3, <2>4, <2>5, <2>6 DEF StageInv
<1>4. CASE req.kind = "promote"
  <2>1. /\ oci'.versions = oci.versions
        /\ oci'.current = req.arg /\ oci'.served = req.arg
        /\ oci'.previous = oci.current /\ oci'.deleted = oci.deleted
        /\ oci'.pending = IF oci.pending = req.arg THEN NoVersion ELSE oci.pending
    BY <1>4, ExecutedFields
  <2>2. req.arg \in DOMAIN oci.versions /\ req.arg \notin oci.deleted /\ Backed(req.arg, Null)
    BY <1>4 DEF Executable, Grounded
  <2>3. req.arg # NoVersion /\ NoVersion \notin oci.deleted
    BY <1>1, <1>2, <2>2 DEF NoVersion
  <2>4. PendingIsRemembered'
    BY <1>2, <2>1 DEF PendingIsRemembered, Remembered
  <2>5. DeletionIsSafe'
    BY <1>2, <2>1, <2>2, <2>3 DEF DeletionIsSafe, Protected, Latest
  <2>6. oci'.pending # oci'.current
    BY <2>1, <2>3
  <2>7. CurrentBacked(Null)'
    <3>1. PICK i \in Active(ops) : Backs(i, req.arg) /\ Spared(i, Null)
      BY <2>2, PromotionGrounded
    <3>2. Backs(i, req.arg)' /\ Spared(i, Null)' /\ i \in Active(ops')
      BY <2>2, <3>1, BackingKept DEF Spared
    <3>3. Backs(i, oci.current)'
      BY <2>1, <3>2 DEF Backs
    <3> QED BY <3>2, <3>3 DEF CurrentBacked
  <2> QED BY <1>2, <2>1, <2>4, <2>5, <2>6, <2>7 DEF StageInv
<1>5. CASE req.kind = "delete"
  <2>1. /\ oci'.versions = oci.versions
        /\ oci'.current = oci.current /\ oci'.served = oci.served
        /\ oci'.previous = oci.previous /\ oci'.pending = oci.pending
        /\ oci'.deleted = oci.deleted \union {req.arg}
    BY <1>5, ExecutedFields
  <2>2. Disposable(req.arg)
    BY <1>5 DEF Grounded
  <2>3. PendingIsRemembered'
    BY <1>2, <2>1 DEF PendingIsRemembered, Remembered
  <2>4. DeletionIsSafe' /\ oci'.deleted \subseteq DOMAIN oci'.versions
    BY <1>2, <2>1, <2>2 DEF DeletionIsSafe, Protected, Latest, Disposable
  <2>5. oci'.current = certState'.version \/ CurrentBacked(Null)'
    BY <1>2, <2>1, BackingKept
  <2> QED BY <1>2, <2>1, <2>3, <2>4, <2>5 DEF StageInv
<1> QED BY <1>3, <1>4, <1>5 DEF Executable, Request

\* A request in flight that is executed late does not disturb the process at
\* work.
LEMMA WorkUndisturbed ==
    ASSUME Known, ~Lag, NEW req \in net, Accepts(oci, req), Executable(req), Grounded(req),
           oci' = Executed(oci, req, Lag), net' \subseteq net,
           UNCHANGED <<ops, certState, proc>>, NEW p \in Process
    PROVE  WorkInv(p)'
<1>1. /\ DOMAIN oci.versions = 1..Len(oci.versions) /\ Len(oci.versions) \in Nat
      /\ DOMAIN oci.versions \subseteq DOMAIN oci'.versions
      /\ \A i \in DOMAIN oci.versions : oci'.versions[i] = oci.versions[i]
      /\ oci.etag \in Nat /\ oci'.etag = oci.etag + 1
  BY CertificateFacts, LeavesKept, ExecutedFields DEF Known
<1>2. Quiet' /\ \A s \in net' : s.etag # oci'.etag
  BY <1>1, OthersRefused DEF Known
<1>3. /\ RowInv(p) /\ SeenInv(p) /\ PromoteInv(p) /\ DeletionInv(p)
      /\ proc[p].etag \in Nat /\ proc[p].etag <= oci.etag
      /\ proc[p].pc \in VersionSteps => proc[p].version \in DOMAIN oci.versions
  BY Worker, ProcessFields
     DEF Known, CertificateInv, WorkInv, OwnVersion, ImportInv, EtagInv
<1>4. req.etag = oci.etag /\ req \in Request
  BY DEF Accepts, Executable
<1>5. RowInv(p)'
  <2>1. proc[p].pc \in PromotionSteps \union {"pendingVerified"} => proc[p].pc \in VersionSteps
    BY DEF PromotionSteps, VersionSteps, PublishSteps, RollbackSteps
  <2>2. Active(ops') = Active(ops) /\ certState' = certState /\ proc' = proc /\ ops' = ops
    OBVIOUS
  <2> QED BY <1>1, <1>3, <2>1, <2>2 DEF RowInv
<1>6. SeenInv(p)'
  <2> SUFFICES ASSUME SeenCurrent(p)'
               PROVE  /\ oci'.current = proc[p].version \/ CurrentBacked(proc[p].fp)'
                      /\ oci'.pending # proc[p].version
    BY <1>2 DEF SeenInv
  <2>1. proc[p].pc \in VersionSteps
    BY DEF SeenCurrent, VersionSteps, PublishSteps, RollbackSteps, ConfirmedSteps
  <2>2. proc[p].version \in DOMAIN oci.versions
    BY <1>3, <2>1
  <2>3. SeenCurrent(p)
    BY <1>1, <2>2 DEF SeenCurrent
  <2>4. /\ oci.current = proc[p].version \/ CurrentBacked(proc[p].fp)
        /\ oci.pending # proc[p].version
        /\ req.kind = "promote" => Backed(req.arg, proc[p].fp)
    BY <1>3, <1>4, <2>3 DEF SeenInv
  <2>5. CASE req.kind = "upload"
    <3>1. oci'.current = oci.current /\ oci'.pending = Len(oci.versions) + 1
      BY <2>5, ExecutedFields DEF Known
    <3>2. oci'.pending # proc[p].version
      BY <1>1, <2>2, <3>1
    <3> QED BY <2>4, <3>1, <3>2, BackingKept DEF Known
  <2>6. CASE req.kind = "promote"
    <3>1. oci'.current = req.arg /\ oci'.pending \in {NoVersion, oci.pending}
      BY <2>6, ExecutedFields DEF Known
    <3>2. req.arg \in DOMAIN oci.versions
      BY <2>6 DEF Executable
    <3>3. PICK i \in Active(ops) : Backs(i, req.arg) /\ Spared(i, proc[p].fp)
      BY <2>4, <2>6, <3>2, PromotionGrounded DEF Known
    <3>4. Backs(i, req.arg)' /\ Spared(i, proc[p].fp)' /\ i \in Active(ops')
      BY <3>2, <3>3, BackingKept DEF Spared, Known
    <3>5. CurrentBacked(proc[p].fp)'
      <4>1. Backs(i, oci.current)'
        BY <3>1, <3>4 DEF Backs
      <4> QED BY <3>4, <4>1 DEF CurrentBacked
    <3>6. oci'.pending # proc[p].version
      BY <1>1, <2>2, <2>4, <3>1 DEF NoVersion
    <3> QED BY <3>5, <3>6
  <2>7. CASE req.kind = "delete"
    <3>1. oci'.current = oci.current /\ oci'.pending = oci.pending
      BY <2>7, ExecutedFields DEF Known
    <3> QED BY <2>4, <3>1, BackingKept DEF Known
  <2> QED BY <1>4, <2>5, <2>6, <2>7 DEF Request
<1>7. PromoteInv(p)'
  <2>1. proc[p].etag # oci'.etag
    BY <1>1, <1>3
  <2>2. proc[p].pc \notin RestoredSteps
    <3>1. ~Quiet
      BY <1>1, <1>4 DEF Quiet
    <3> QED BY <1>3, <3>1 DEF PromoteInv
  <2> QED BY <2>1, <2>2 DEF PromoteInv
<1>8. DeletionInv(p)'
  <2>1. proc[p].pc \in PromotableSteps => proc[p].version \notin oci'.deleted
    <3> SUFFICES ASSUME proc[p].pc \in PromotableSteps PROVE proc[p].version \notin oci'.deleted
      OBVIOUS
    <3>1. proc[p].pc \in StagedSteps
      BY DEF PromotableSteps, StagedSteps, VersionSteps, PublishSteps, RollbackSteps
    <3>2. proc[p].version \notin oci.deleted
      BY <1>3 DEF DeletionInv
    <3>3. req.kind = "delete" => req.arg # proc[p].version
      BY <1>3, <1>4, <3>1 DEF DeletionInv
    <3>4. oci'.deleted = oci.deleted \/ (req.kind = "delete" /\ oci'.deleted = oci.deleted \union {req.arg})
      BY <1>4, ExecutedFields DEF Known, Request
    <3> QED BY <3>2, <3>3, <3>4
  <2>2. \A v : Disposable(v) => Disposable(v)'
    BY DisposableKept DEF Known
  <2> QED BY <1>2, <1>3, <2>1, <2>2 DEF DeletionInv
<1> QED BY <1>5, <1>6, <1>7, <1>8 DEF WorkInv

\* A request in flight is grounded and can be executed.
LEMMA InFlight ==
    ASSUME Known, NEW req \in net
    PROVE  Executable(req) /\ (Accepts(oci, req) => Grounded(req))
<1>1. Executable(req)
  BY DEF Known, Inv, TypeInv, TypeOK, NetInv, Executable
<1>2. Accepts(oci, req) => Grounded(req)
  BY DEF Known, CertificateInv, RequestInv, Accepts
<1> QED BY <1>1, <1>2

\* Time passes, and what was in flight arrives.
LEMMA EnvironmentCertificate == ASSUME Known, ~Lag, Environment PROVE CertificateInv'
<1>1. /\ oci.listed = Len(oci.versions) /\ oci.served = oci.current
      /\ LeafRows /\ RequestInv /\ StageInv /\ \A p \in Process : WorkInv(p)
  BY CertificateFacts DEF Known, CertificateInv, StageInv
<1>2. ASSUME UNCHANGED <<oci, ops, certState, proc>>, net' \subseteq net
      PROVE  CertificateInv'
  <2>1. LeafRows' /\ RequestInv' /\ StageInv'
    BY <1>1, <1>2
       DEF LeafRows, RequestInv, Grounded, StageInv, DeletionIsSafe, PendingIsRemembered,
           CurrentBacked, Backed, Backs, Spared, Remembered, Disposable, Referenced
  <2>2. ASSUME NEW p \in Process
        PROVE  WorkInv(p)'
    <3>1. WorkInv(p)
      BY <1>1
    <3>2. RowInv(p)' /\ DeletionInv(p)'
      BY <1>2, <3>1 DEF WorkInv, RowInv, DeletionInv, Disposable, Referenced
    <3>3. SeenInv(p)'
      BY <1>2, <3>1 DEF WorkInv, SeenInv, SeenCurrent, Backed, CurrentBacked, Backs, Spared
    <3>4. PromoteInv(p)'
      BY <1>2, <3>1 DEF WorkInv, PromoteInv, Quiet
    <3> QED BY <3>2, <3>3, <3>4 DEF WorkInv
  <2> QED BY <2>1, <2>2 DEF CertificateInv
<1>3. ASSUME NEW req \in net, ArriveLate(req)
      PROVE  CertificateInv'
  <2>1. UNCHANGED <<ops, certState, proc>> /\ net' \subseteq net
    BY <1>3 DEF ArriveLate
  <2>2. CASE ~Accepts(oci, req)
    <3>1. oci' = oci
      BY <1>3, <2>2 DEF ArriveLate
    <3> QED BY <1>2, <2>1, <3>1
  <2>3. CASE Accepts(oci, req)
    <3>1. oci' = Executed(oci, req, Lag) /\ Executable(req) /\ Grounded(req)
      BY <1>3, <2>3, InFlight DEF ArriveLate
    <3>2. StageInv'
      BY <1>1, <2>1, <3>1, StagesKept DEF Known
    <3>3. oci'.etag = oci.etag + 1
      BY <3>1, ExecutedFields DEF Known
    <3>4. RequestInv'
      BY <2>1, <3>3, OthersRefused DEF RequestInv, Known
    <3>5. LeafRows'
      BY <1>1, <2>1 DEF LeafRows
    <3>6. \A p \in Process : WorkInv(p)'
      BY <2>1, <2>3, <3>1, WorkUndisturbed
    <3> QED BY <3>2, <3>4, <3>5, <3>6 DEF CertificateInv
  <2> QED BY <2>2, <2>3
<1>4. ~ListingSettles /\ ~RetrievalSettles
  BY <1>1 DEF ListingSettles, RetrievalSettles
<1>5. ASSUME Expire
      PROVE  CertificateInv'
  BY <1>2, <1>5 DEF Expire
<1> QED BY <1>3, <1>4, <1>5 DEF Environment

-----------------------------------------------------------------------------
(***************************************************************************)
(* A step of a process: the others do nothing.                             *)
(***************************************************************************)
GlobalInv == LeafRows /\ RequestInv /\ StageInv

\* Steps at which a process neither owns a row that names a version nor
\* deletes anything.
Unburdened(label) ==
    label \notin PublishSteps \union RollbackSteps \union {"retentionNext", "schedule"}

\* Nothing is asked of a process at such a step.
LEMMA FreeWork == ASSUME NEW p \in Process, Unburdened(proc'[p].pc) PROVE WorkInv(p)'
<1>1. proc'[p].pc \notin
         ReadingSteps \union SearchSteps \union NamingSteps \union PromotionSteps
         \union {"pendingVerified", "reconciled", "promote", "retentionNext", "schedule"}
         \union RecordedSteps \union ConfirmedSteps \union RestoredSteps
         \union StagedSteps \union PromotableSteps
  BY DEF Unburdened, ReadingSteps, SearchSteps, NamingSteps, PromotionSteps, RecordedSteps,
         ConfirmedSteps, RestoredSteps, StagedSteps, PromotableSteps, VersionSteps,
         PublishSteps, RollbackSteps
<1>2. RowInv(p)'
  BY <1>1 DEF RowInv, Unburdened
<1>3. SeenInv(p)' /\ PromoteInv(p)' /\ DeletionInv(p)'
  BY <1>1 DEF SeenInv, SeenCurrent, PromoteInv, DeletionInv
<1> QED BY <1>2, <1>3 DEF WorkInv
\* After a step of one process, only that process may be at work.
LEMMA AloneAtWork ==
    ASSUME Inv, NEW p \in Process, proc[p].pc # "idle" \/ lock = Free,
           NEW r, Become(p, r), GlobalInv', WorkInv(p)'
    PROVE  CertificateInv'
<1>1. proc \in [Process -> ProcessState] /\ LockInv /\ Free \notin Process
  BY FreeIsNoProcess DEF Inv, TypeInv, TypeOK
<1>2. ASSUME NEW q \in Process, q # p
      PROVE  WorkInv(q)'
  <2>1. proc'[q] = proc[q]
    BY <1>1, <1>2 DEF Become
  <2>2. proc[q].pc = "idle"
    BY <1>1, <1>2 DEF LockInv
  <2>3. Unburdened(proc'[q].pc)
    BY <2>1, <2>2 DEF Unburdened, PublishSteps, RollbackSteps
  <2> QED BY <2>3, FreeWork
<1> QED BY <1>2 DEF CertificateInv, GlobalInv

\* A step that leaves the certificate, the requests, the rows and the
\* recorded version alone.
LEMMA GlobalKept ==
    ASSUME GlobalInv, UNCHANGED <<oci, net, ops>>, certState'.version = certState.version
    PROVE  GlobalInv'
BY DEF GlobalInv, LeafRows, RequestInv, Grounded, StageInv, DeletionIsSafe,
       PendingIsRemembered, CurrentBacked, Backed, Backs, Spared, Remembered, Disposable,
       Referenced

\* Such a step after which nothing is asked of the process.
LEMMA FreeStep ==
    ASSUME Known, NEW p \in Process, proc[p].pc # "idle" \/ lock = Free,
           NEW r, Become(p, r), Unburdened(r.pc),
           UNCHANGED <<oci, net, ops>>, certState'.version = certState.version
    PROVE  CertificateInv'
<1>1. GlobalInv'
  BY GlobalKept DEF Known, CertificateInv, GlobalInv
<1>2. proc'[p] = r
  BY DEF Known, Inv, TypeInv, TypeOK, Become
<1>3. WorkInv(p)'
  BY <1>2, FreeWork
<1> QED BY <1>1, <1>3, AloneAtWork DEF Known

\* The command ends there.
LEMMA ExitFree ==
    ASSUME Known, NEW p \in Process, proc[p].pc # "idle", Exit(p), GlobalInv'
    PROVE  CertificateInv'
<1>1. Become(p, Idle) /\ Idle.pc = "idle"
  BY DEF Exit, Idle
<1>2. proc'[p] = Idle
  BY <1>1 DEF Known, Inv, TypeInv, TypeOK, Become
<1>3. Unburdened(proc'[p].pc)
  BY <1>1, <1>2 DEF Unburdened, PublishSteps, RollbackSteps
<1>4. WorkInv(p)'
  BY <1>3, FreeWork
<1> QED BY <1>1, <1>4, AloneAtWork DEF Known

\* ExitFree, of a command that ends without having changed anything.
LEMMA ExitKept ==
    ASSUME Known, NEW p \in Process, proc[p].pc # "idle", Exit(p),
           UNCHANGED <<oci, net, ops, certState>>
    PROVE  CertificateInv'
BY GlobalKept, ExitFree DEF Known, CertificateInv, GlobalInv

-----------------------------------------------------------------------------
(***************************************************************************)
(* Rows.                                                                   *)
(***************************************************************************)

\* The row stays open and names the same version.
StaysOpen(i) == i \in Active(ops') /\ ops'[i].version = ops[i].version

\* What a step may do to the rows.  The rows that are closed, or that name
\* another version, back nothing and concern no leaf that matters, and no
\* deletion in flight is of a version that a row names for the first time.
LEMMA RowsKept ==
    ASSUME Known, UNCHANGED <<oci, net, certState>>, Keeps(ops, ops'),
           \A i \in Active(ops) :
              \/ StaysOpen(i)
              \/ /\ \A v \in DOMAIN oci.versions : ~Backs(i, v)
                 /\ ops[i].fp = Null \/ i \in Active(ops'),
           LeafRows', NEW x,
           \A req \in net : req.kind = "delete" /\ req.etag = oci.etag => req.arg # x,
           Referenced' \subseteq Referenced \union {Null, x}
    PROVE  /\ GlobalInv'
           /\ \A v \in DOMAIN oci.versions : \A fp : Backed(v, fp) => Backed(v, fp)'
           /\ \A fp : CurrentBacked(fp) => CurrentBacked(fp)'
<1>1. /\ DOMAIN oci.versions = 1..Len(oci.versions) /\ Len(oci.versions) \in Nat
      /\ oci.current \in DOMAIN oci.versions /\ oci.pending \in 0..Len(oci.versions)
      /\ \A i \in DOMAIN oci.versions : oci.versions[i] \in Nat \ {0}
      /\ LeafRows /\ RequestInv /\ StageInv
  BY CertificateFacts DEF Known, CertificateInv
<1>2. ASSUME NEW v \in DOMAIN oci.versions, NEW i \in Active(ops), Backs(i, v)
      PROVE  /\ i \in Active(ops') /\ Backs(i, v)'
             /\ \A fp : Spared(i, fp) => Spared(i, fp)'
             /\ ops'[i].type = ops[i].type
  <2>1. StaysOpen(i) /\ i \in DOMAIN ops
    BY <1>2 DEF Active
  <2>2. ops'[i].type = ops[i].type /\ ops'[i].fp = ops[i].fp
    BY <2>1 DEF Keeps
  <2> QED BY <1>2, <2>1, <2>2 DEF StaysOpen, Backs, Spared
<1>3. ASSUME NEW v \in DOMAIN oci.versions, NEW fp, Backed(v, fp)
      PROVE  Backed(v, fp)'
  BY <1>2, <1>3 DEF Backed
<1>4. ASSUME NEW fp, CurrentBacked(fp)
      PROVE  CurrentBacked(fp)'
  BY <1>1, <1>2, <1>4 DEF CurrentBacked
<1>5. ASSUME NEW leaf, leaf # Null, Remembered(leaf)
      PROVE  Remembered(leaf)'
  <2>1. PICK i \in Active(ops) : ops[i].fp = leaf
    BY <1>5 DEF Remembered
  <2>2. i \in Active(ops')
    BY <1>5, <2>1 DEF StaysOpen
  <2>3. ops'[i].fp = leaf
    BY <2>1 DEF Keeps, Active
  <2> QED BY <2>2, <2>3 DEF Remembered
<1>6. ASSUME NEW req \in net, req.etag = oci.etag
      PROVE  Grounded(req)'
  <2>1. Grounded(req) /\ Executable(req)
    BY <1>1, <1>6, InFlight DEF RequestInv
  <2>2. CASE req.kind = "upload"
    <3>1. Remembered(req.arg) /\ req.arg # Null
      BY <2>1, <2>2, CertificateFacts DEF Grounded, Executable, Null, Known
    <3> QED BY <1>5, <2>2, <3>1 DEF Grounded
  <2>3. CASE req.kind = "promote"
    <3>1. req.arg \in DOMAIN oci.versions /\ Backed(req.arg, Null) /\ req.arg \notin oci.deleted
      BY <2>1, <2>3 DEF Grounded, Executable
    <3> QED BY <1>3, <2>3, <3>1 DEF Grounded
  <2>4. CASE req.kind = "delete"
    <3>1. Disposable(req.arg) /\ req.arg # x
      BY <1>6, <2>1, <2>4 DEF Grounded
    <3>2. req.arg # Null
      BY <1>1, <3>1 DEF Disposable, Null
    <3>3. Disposable(req.arg)'
      BY <3>1, <3>2 DEF Disposable
    <3> QED BY <2>4, <3>3 DEF Grounded
  <2> QED BY <2>1, <2>2, <2>3, <2>4 DEF Executable, Request
<1>7. RequestInv'
  BY <1>6 DEF RequestInv
<1>8. StageInv'
  <2>1. PendingIsRemembered'
    <3>1. oci.pending # NoVersion => /\ Remembered(oci.versions[oci.pending])
                                     /\ oci.versions[oci.pending] # Null
      BY <1>1 DEF StageInv, PendingIsRemembered, Remembered, NoVersion, Null
    <3> QED BY <1>5, <3>1 DEF PendingIsRemembered, Remembered
  <2> QED BY <1>1, <1>4, <2>1 DEF StageInv, DeletionIsSafe
<1> QED BY <1>3, <1>4, <1>7, <1>8 DEF GlobalInv

\* No deletion that may be executed is of no version.
LEMMA NoDeletionOfNull ==
    ASSUME Known
    PROVE  \A req \in net : req.kind = "delete" /\ req.etag = oci.etag => req.arg # Null
<1> SUFFICES ASSUME NEW req \in net, req.kind = "delete", req.etag = oci.etag
             PROVE  req.arg # Null
  OBVIOUS
<1>1. Executable(req)
  BY InFlight
<1> QED BY <1>1, CertificateFacts DEF Executable, Null, Known

\* start_operation inserts an open row that names nothing.
LEMMA RowInserted ==
    ASSUME Known, UNCHANGED <<oci, net, certState>>,
           NEW type \in OperationType, NEW fp \in Nat, type \in Publishing \/ fp = Null,
           ops' = StartOperation(ops, type, fp, Ocid)
    PROVE  /\ GlobalInv'
           /\ Len(ops) + 1 \in Active(ops') /\ ops'[Len(ops) + 1].version = Null
<1> DEFINE n == StartOperation(ops, type, fp, Ocid)
           k == Len(ops) + 1
<1>1. ops \in Seq(Operation) /\ DOMAIN ops = 1..Len(ops) /\ Len(ops) \in Nat /\ LeafRows
  BY DEF Known, Inv, TypeInv, TypeOK, CertificateInv
<1>2. /\ Keeps(ops, n) /\ Len(n) = k
      /\ \A i \in DOMAIN ops : n[i] = ops[i]
      /\ k \in DOMAIN n
      /\ n[k].type = type /\ n[k].fp = fp /\ n[k].state = "DISCOVERED"
  <2>1. Ocid \in Nat
    BY DEF Ocid
  <2> HIDE DEF k
  <2>2. k = Len(ops) + 1
    BY DEF k
  <2> QED BY <1>1, <2>1, <2>2, OperationStarted, SMT
<1>3. n[k].version = Null
  BY <1>1 DEF StartOperation
<1> HIDE DEF n
<1>4. DOMAIN n = 1..k
  BY <1>2 DEF Keeps
<1>5. \A i \in DOMAIN n : i \in DOMAIN ops \/ i = k
  BY <1>1, <1>4
<1>6. /\ Keeps(ops, ops') /\ k \in Active(ops') /\ ops'[k].version = Null
      /\ \A i \in DOMAIN ops' : i \in DOMAIN ops \/ i = k
      /\ \A i \in DOMAIN ops : i \in DOMAIN ops' /\ ops'[i] = ops[i]
  BY <1>1, <1>2, <1>3, <1>4, <1>5 DEF Active, TerminalStates, n, Keeps
<1>7. LeafRows'
  BY <1>1, <1>2, <1>3, <1>6 DEF LeafRows, n
<1>8. Referenced' \subseteq Referenced \union {Null}
  BY <1>6 DEF Referenced, Active
<1>9. \A i \in Active(ops) : StaysOpen(i)
  BY <1>6 DEF StaysOpen, Active
<1> HIDE DEF k
<1>10. GlobalInv'
  BY <1>6, <1>7, <1>8, <1>9, NoDeletionOfNull, RowsKept
<1> QED BY <1>6, <1>10 DEF k

\* What transition does to the rows.
LEMMA Transitioned ==
    ASSUME ops \in Seq(Operation), NEW id \in DOMAIN ops, NEW state \in OperationState,
           NEW version \in Nat, ops' = Transition(ops, id, state, version, Null)
    PROVE  /\ Keeps(ops, ops') /\ DOMAIN ops' = DOMAIN ops
           /\ \A i \in DOMAIN ops : i # id => ops'[i] = ops[i]
           /\ ops'[id].state = state
           /\ ops'[id].version = IF version = Null THEN ops[id].version ELSE version
           /\ ops'[id].type = ops[id].type /\ ops'[id].fp = ops[id].fp
<1> DEFINE v == Coalesce(version, ops[id].version)
           c == Coalesce(Null, ops[id].ocid)
           row == [ops[id] EXCEPT !.state = state, !.version = v, !.ocid = c]
           n == Transition(ops, id, state, version, Null)
<1>1. ops[id] \in Operation
  OBVIOUS
<1>2. n = [ops EXCEPT ![id] = row]
  BY Zenon DEF Transition
<1>3. v = IF version = Null THEN ops[id].version ELSE version
  BY DEF Coalesce
<1> HIDE DEF v, c
<1>4. row.version = v
  BY <1>1 DEF Operation
<1> HIDE DEF row
<1>5. n[id] = row /\ DOMAIN n = DOMAIN ops
  BY <1>2
<1>6. /\ Keeps(ops, n) /\ \A i \in DOMAIN ops : i # id => n[i] = ops[i]
      /\ n[id].state = state
  BY OperationTransitioned
<1> HIDE DEF n
<1>7. n[id].type = ops[id].type /\ n[id].fp = ops[id].fp
  BY <1>6 DEF Keeps
<1> QED BY <1>3, <1>4, <1>5, <1>6, <1>7 DEF n

\* The row of an audit moves to any state.
LEMMA AuditRowMoved ==
    ASSUME Known, UNCHANGED <<oci, net, certState>>,
           NEW id \in DOMAIN ops, ops[id].type = "AUDIT", NEW state \in OperationState,
           ops' = Transition(ops, id, state, Null, Null)
    PROVE  GlobalInv'
<1>1. ops \in Seq(Operation) /\ LeafRows
  BY DEF Known, Inv, TypeInv, TypeOK, CertificateInv
<1>2. /\ Keeps(ops, ops') /\ DOMAIN ops' = DOMAIN ops
      /\ \A i \in DOMAIN ops : i # id => ops'[i] = ops[i]
      /\ ops'[id].version = ops[id].version
      /\ ops'[id].type = ops[id].type /\ ops'[id].fp = ops[id].fp
  BY <1>1, Transitioned DEF Null
<1>3. ops[id].fp = Null /\ ops[id].version = Null /\ \A v : ~Backs(id, v)
  BY <1>1 DEF LeafRows, Publishing, Backs
<1>4. \A i \in Active(ops) :
         StaysOpen(i) \/ (ops[i].fp = Null /\ \A v \in DOMAIN oci.versions : ~Backs(i, v))
  BY <1>2, <1>3 DEF StaysOpen, Active
<1>5. LeafRows'
  BY <1>1, <1>2 DEF LeafRows
<1>6. Referenced' \subseteq Referenced \union {Null}
  BY <1>2, <1>3 DEF Referenced, Active
<1> QED BY <1>2, <1>4, <1>5, <1>6, NoDeletionOfNull, RowsKept

\* complete_interrupted_audits closes rows of audits.
LEMMA AuditsClosed ==
    ASSUME Known, UNCHANGED <<oci, net, certState>>, NEW id,
           ops' = CompleteInterruptedAudits(ops, id)
    PROVE  GlobalInv'
<1>1. ops \in Seq(Operation) /\ LeafRows
  BY DEF Known, Inv, TypeInv, TypeOK, CertificateInv
<1>2. Keeps(ops, ops') /\ DOMAIN ops' = DOMAIN ops
  BY <1>1, InterruptedAuditsCompleted DEF CompleteInterruptedAudits
<1>3. ASSUME NEW i \in DOMAIN ops
      PROVE  /\ ops'[i] = ops[i] \/ (ops[i].type = "AUDIT" /\ i \notin Active(ops'))
             /\ ops'[i].version = ops[i].version
  <2> DEFINE closed == [ops[i] EXCEPT !.state = "COMPLETED"]
  <2>1. ops[i] \in Operation
    BY <1>1
  <2>2. closed.state = "COMPLETED" /\ closed.version = ops[i].version
    BY <2>1 DEF Operation
  <2>3. ops'[i] = ops[i] \/ (ops[i].type = "AUDIT" /\ ops'[i] = closed)
    BY <1>3 DEF CompleteInterruptedAudits
  <2>4. closed.state \in TerminalStates
    BY <2>2 DEF TerminalStates
  <2> HIDE DEF closed
  <2> QED BY <2>2, <2>3, <2>4 DEF Active
<1>4. ASSUME NEW i \in Active(ops)
      PROVE  StaysOpen(i) \/ (ops[i].fp = Null /\ \A v \in DOMAIN oci.versions : ~Backs(i, v))
  <2>1. CASE ops'[i] = ops[i]
    BY <1>2, <2>1 DEF StaysOpen, Active
  <2>2. CASE ops[i].type = "AUDIT"
    BY <1>1, <2>2 DEF LeafRows, Publishing, Backs, Active
  <2> QED BY <1>3, <2>1, <2>2 DEF Active
<1>5. LeafRows'
  BY <1>1, <1>2, <1>3 DEF LeafRows, Keeps
<1>6. Referenced' \subseteq Referenced \union {Null}
  BY <1>2, <1>3 DEF Referenced, Active
<1> QED BY <1>2, <1>4, <1>5, <1>6, NoDeletionOfNull, RowsKept

\* What the invariants say of the row of a process at work.
LEMMA OwnRowFacts ==
    ASSUME Known, NEW p \in Process, proc[p].pc \in PublishSteps \union RollbackSteps
    PROVE  /\ ops \in Seq(Operation) /\ LeafRows
           /\ proc[p].op \in Active(ops) /\ proc[p].op \in DOMAIN ops
           /\ ops[proc[p].op].type # "AUDIT"
           /\ proc[p].pc \in PublishSteps =>
                 /\ ops[proc[p].op].type \in Publishing
                 /\ ops[proc[p].op].fp = proc[p].fp
                 /\ proc[p].fp = local /\ proc[p].fp \in Nat \ {0}
           /\ proc[p].pc \in RollbackSteps =>
                 ops[proc[p].op].type = "ROLLBACK" /\ ops[proc[p].op].fp = Null
           /\ proc[p].version \in Nat /\ proc[p].op \in Nat
           /\ proc[p].pc \in VersionSteps => proc[p].version \in DOMAIN oci.versions
<1>1. /\ ops \in Seq(Operation) /\ LeafRows /\ RowInv(p) /\ OwnRow(p) /\ OwnVersion(p)
      /\ proc[p] \in ProcessState /\ local \in Nat \ {0}
  BY Worker DEF Known, CertificateInv, WorkInv
<1>2. proc[p].op \in Active(ops) /\ proc[p].op \in DOMAIN ops
  BY <1>1 DEF RowInv, Active
<1>3. proc[p].version \in Nat /\ proc[p].op \in Nat
  BY <1>1, ProcessFields
<1>4. proc[p].pc \in PublishSteps =>
         /\ ops[proc[p].op].type \in Publishing
         /\ ops[proc[p].op].fp = proc[p].fp
         /\ proc[p].fp = local /\ proc[p].fp \in Nat \ {0}
  BY <1>1 DEF OwnRow
<1>5. proc[p].pc \in RollbackSteps =>
         ops[proc[p].op].type = "ROLLBACK" /\ ops[proc[p].op].fp = Null
  BY <1>1, <1>2 DEF OwnRow, LeafRows, Publishing
<1>6. proc[p].pc \in VersionSteps => proc[p].version \in DOMAIN oci.versions
  BY <1>1 DEF OwnVersion
<1> QED BY <1>1, <1>2, <1>3, <1>4, <1>5, <1>6 DEF Publishing

\* A process moves its row to another open state, naming its version or not:
\* the row backed nothing before, or names what it named.
LEMMA OwnRowMoved ==
    ASSUME Known, UNCHANGED <<oci, net, certState>>,
           NEW p \in Process, proc[p].pc \in PublishSteps \union RollbackSteps,
           NEW state \in OperationState \ TerminalStates, NEW version \in {Null, proc[p].version},
           ops' = Transition(ops, proc[p].op, state, version, Null),
           version = Null \/ proc[p].pc \in StagedSteps,
           \/ version \in {Null, ops[proc[p].op].version}
           \/ \A v \in DOMAIN oci.versions : ~Backs(proc[p].op, v)
    PROVE  /\ GlobalInv'
           /\ \A v \in DOMAIN oci.versions : \A fp : Backed(v, fp) => Backed(v, fp)'
           /\ \A fp : CurrentBacked(fp) => CurrentBacked(fp)'
           /\ proc[p].op \in Active(ops')
           /\ ops'[proc[p].op].version =
                 IF version = Null THEN ops[proc[p].op].version ELSE version
<1> DEFINE id == proc[p].op
<1>1. /\ ops \in Seq(Operation) /\ LeafRows /\ id \in Active(ops) /\ id \in DOMAIN ops
      /\ ops[id].type # "AUDIT" /\ version \in Nat /\ state \in OperationState
  BY OwnRowFacts DEF Null
<1>2. /\ Keeps(ops, ops') /\ DOMAIN ops' = DOMAIN ops
      /\ \A i \in DOMAIN ops : i # id => ops'[i] = ops[i]
      /\ ops'[id].state = state
      /\ ops'[id].version = IF version = Null THEN ops[id].version ELSE version
      /\ ops'[id].type = ops[id].type /\ ops'[id].fp = ops[id].fp
  BY <1>1, Transitioned
<1>3. id \in Active(ops')
  BY <1>1, <1>2 DEF Active
<1> HIDE DEF id
<1>4. LeafRows'
  BY <1>1, <1>2 DEF LeafRows
<1>5. ASSUME NEW i \in Active(ops)
      PROVE  \/ StaysOpen(i)
             \/ /\ \A v \in DOMAIN oci.versions : ~Backs(i, v)
                /\ i \in Active(ops')
  <2>1. CASE i # id
    BY <1>2, <2>1 DEF StaysOpen, Active
  <2>2. CASE i = id
    BY <1>2, <1>3, <2>2 DEF StaysOpen, id
  <2> QED BY <2>1, <2>2
<1>6. Referenced' \subseteq Referenced \union {Null, version}
  <2>1. ASSUME NEW i \in Active(ops')
        PROVE  ops'[i].version \in Referenced \union {Null, version}
    <3>1. CASE i # id
      BY <1>2, <3>1 DEF Referenced, Active
    <3>2. CASE i = id
      BY <1>1, <1>2, <3>2 DEF Referenced
    <3> QED BY <3>1, <3>2
  <2> QED BY <2>1 DEF Referenced
<1>7. \A req \in net : req.kind = "delete" /\ req.etag = oci.etag => req.arg # version
  <2>1. CASE version = Null
    BY <2>1, NoDeletionOfNull
  <2>2. CASE version # Null
    BY <2>2 DEF Known, CertificateInv, WorkInv, DeletionInv
  <2> QED BY <2>1, <2>2
<1>8. /\ GlobalInv'
      /\ \A v \in DOMAIN oci.versions : \A fp : Backed(v, fp) => Backed(v, fp)'
      /\ \A fp : CurrentBacked(fp) => CurrentBacked(fp)'
  BY <1>2, <1>4, <1>5, <1>6, <1>7, RowsKept
<1> QED BY <1>2, <1>3, <1>8 DEF id

-----------------------------------------------------------------------------
(***************************************************************************)
(* Rows that are closed.                                                   *)
(***************************************************************************)

\* The rows of a leaf that CURRENT was seen to carry are closed, by the
\* process that published it.
LEMMA LeafClosed ==
    ASSUME Known, UNCHANGED <<oci, net, certState>>, NEW p \in Process,
           proc[p].pc \in {"closeReconciled", "complete"}, Keeps(ops, ops'),
           NEW leaf, leaf = proc[p].fp,
           \A i \in Active(ops) : StaysOpen(i) \/ ~Spared(i, leaf),
           LeafRows', Referenced' \subseteq Referenced
    PROVE  /\ GlobalInv'
           /\ \A v \in DOMAIN oci.versions :
                 Backed(v, leaf) => Backed(v, leaf)'
           /\ CurrentBacked(leaf) => CurrentBacked(leaf)'
<1>1. /\ DOMAIN oci.versions = 1..Len(oci.versions) /\ Len(oci.versions) \in Nat
      /\ oci.current \in DOMAIN oci.versions /\ oci.pending \in 0..Len(oci.versions)
      /\ \A i \in DOMAIN oci.versions : oci.versions[i] \in Nat \ {0}
      /\ \A i, j \in DOMAIN oci.versions : oci.versions[i] = oci.versions[j] => i = j
      /\ RequestInv /\ StageInv
  BY CertificateFacts DEF Known, CertificateInv
<1>2. proc[p].pc \in ConfirmedSteps /\ proc[p].pc \in RecordedSteps
      /\ proc[p].pc \in PublishSteps /\ proc[p].pc \in VersionSteps
  BY DEF ConfirmedSteps, RecordedSteps, PublishSteps, VersionSteps
<1>3. /\ certState.version = proc[p].version
      /\ \A req \in net : req.kind = "promote" /\ req.etag = oci.etag => Backed(req.arg, leaf)
      /\ oci.current = proc[p].version \/ CurrentBacked(leaf)
      /\ oci.pending # proc[p].version
  BY <1>2 DEF Known, CertificateInv, WorkInv, RowInv, SeenInv, SeenCurrent
<1>4. proc[p].version \in DOMAIN oci.versions /\ oci.versions[proc[p].version] = leaf
      /\ leaf \in Nat \ {0}
  BY <1>2, OwnRowFacts, Worker DEF OwnVersion, Known
<1>5. ASSUME NEW i \in Active(ops), Spared(i, leaf)
      PROVE  /\ i \in Active(ops') /\ Spared(i, leaf)'
             /\ ops'[i].type = ops[i].type /\ ops'[i].fp = ops[i].fp
             /\ \A v : Backs(i, v) => Backs(i, v)'
  <2>1. StaysOpen(i) /\ i \in DOMAIN ops
    BY <1>5 DEF Active
  <2>2. ops'[i].type = ops[i].type /\ ops'[i].fp = ops[i].fp
    BY <2>1 DEF Keeps
  <2> QED BY <1>5, <2>1, <2>2 DEF StaysOpen, Backs, Spared
<1>6. ASSUME NEW v \in DOMAIN oci.versions, Backed(v, leaf)
      PROVE  Backed(v, leaf)' /\ Backed(v, Null)'
  BY <1>5, <1>6 DEF Backed, Spared
<1>7. ASSUME CurrentBacked(leaf)
      PROVE  CurrentBacked(leaf)' /\ CurrentBacked(Null)'
  BY <1>5, <1>7 DEF CurrentBacked, Spared
<1>8. ASSUME NEW f, f # leaf, Remembered(f)
      PROVE  Remembered(f)'
  <2>1. PICK i \in Active(ops) : ops[i].fp = f
    BY <1>8 DEF Remembered
  <2> QED BY <1>5, <1>8, <2>1 DEF Remembered, Spared
<1>9. RequestInv'
  <2> SUFFICES ASSUME NEW req \in net, req.etag = oci.etag PROVE Grounded(req)'
    BY DEF RequestInv
  <2>1. Grounded(req) /\ Executable(req)
    BY <1>1, InFlight DEF RequestInv
  <2>2. CASE req.kind = "upload"
    <3>1. Newer(req.arg)
      BY <2>2 DEF Known, ImportInv, EtagInv
    <3>2. req.arg # leaf
      BY <1>1, <1>4, <3>1 DEF Newer
    <3> QED BY <1>8, <2>1, <2>2, <3>2 DEF Grounded
  <2>3. CASE req.kind = "promote"
    <3>1. req.arg \in DOMAIN oci.versions /\ req.arg \notin oci.deleted
      BY <2>1, <2>3 DEF Grounded, Executable
    <3> QED BY <1>3, <1>6, <2>3, <3>1 DEF Grounded
  <2>4. CASE req.kind = "delete"
    BY <2>1, <2>4 DEF Grounded, Disposable
  <2> QED BY <2>1, <2>2, <2>3, <2>4 DEF Executable, Request
<1>10. StageInv'
  <2>1. PendingIsRemembered'
    <3> SUFFICES ASSUME oci.pending # NoVersion PROVE Remembered(oci.versions[oci.pending])'
      BY DEF PendingIsRemembered, Remembered
    <3>1. oci.pending \in DOMAIN oci.versions
      BY <1>1 DEF NoVersion
    <3>2. oci.versions[oci.pending] # leaf
      BY <1>1, <1>3, <1>4, <3>1
    <3>3. Remembered(oci.versions[oci.pending])
      BY <1>1 DEF StageInv, PendingIsRemembered, Remembered
    <3> QED BY <1>8, <3>2, <3>3 DEF Remembered
  <2>2. oci.current = certState.version \/ CurrentBacked(Null)'
    BY <1>3, <1>7
  <2> QED BY <1>1, <2>1, <2>2 DEF StageInv, DeletionIsSafe
<1> QED BY <1>6, <1>7, <1>9, <1>10 DEF GlobalInv

\* A rollback that has been recorded closes its row.
LEMMA RollbackClosed ==
    ASSUME Known, UNCHANGED <<oci, net, certState>>, NEW p \in Process,
           proc[p].pc \in {"rollbackAudit", "rollbackComplete"},
           NEW state \in TerminalStates, NEW version \in {Null, proc[p].version},
           ops' = Transition(ops, proc[p].op, state, version, Null)
    PROVE  GlobalInv'
<1> DEFINE id == proc[p].op
<1>1. /\ proc[p].pc \in RestoredSteps /\ proc[p].pc \in RecordedSteps
      /\ proc[p].pc \in RollbackSteps
  BY DEF RestoredSteps, RecordedSteps, RollbackSteps
<1>2. /\ ops \in Seq(Operation) /\ LeafRows /\ id \in DOMAIN ops
      /\ ops[id].type = "ROLLBACK" /\ ops[id].fp = Null
      /\ version \in Nat /\ state \in OperationState
  BY <1>1, OwnRowFacts DEF Null, OperationState
<1>3. /\ Quiet /\ oci.current = proc[p].version /\ certState.version = proc[p].version
      /\ StageInv
  BY <1>1 DEF Known, CertificateInv, WorkInv, PromoteInv, RowInv
<1>4. /\ Keeps(ops, ops') /\ DOMAIN ops' = DOMAIN ops
      /\ \A i \in DOMAIN ops : i # id => ops'[i] = ops[i]
      /\ ops'[id].type = ops[id].type /\ ops'[id].fp = ops[id].fp
  BY <1>2, Transitioned
<1>5. RequestInv'
  <2>1. \A req \in net : req.etag # oci.etag
    BY <1>3, CertificateFacts DEF Quiet, Known
  <2> QED BY <2>1 DEF RequestInv
<1> HIDE DEF id
<1>6. LeafRows'
  BY <1>2, <1>4 DEF LeafRows
<1>7. StageInv'
  <2>1. PendingIsRemembered'
    <3> SUFFICES ASSUME oci.pending # NoVersion
                 PROVE  \E i \in Active(ops') : ops'[i].fp = oci.versions[oci.pending]
      BY DEF PendingIsRemembered
    <3>1. PICK i \in Active(ops) : ops[i].fp = oci.versions[oci.pending]
      BY <1>3 DEF StageInv, PendingIsRemembered
    <3>2. oci.versions[oci.pending] # Null
      BY CertificateFacts DEF NoVersion, Null, Known
    <3>3. i # id
      BY <1>2, <3>1, <3>2
    <3> QED BY <1>4, <3>1, <3>3 DEF Active
  <2> QED BY <1>3, <2>1 DEF StageInv, DeletionIsSafe
<1> QED BY <1>5, <1>6, <1>7 DEF GlobalInv

-----------------------------------------------------------------------------
(***************************************************************************)
(* What is asked of the process that moves.                                *)
(***************************************************************************)

\* A process that moves to another control point keeps its locals.
LEMMA Went ==
    ASSUME Inv, NEW p \in Process, NEW label \in Labels, Go(p, label)
    PROVE  /\ Become(p, Moved(p, label)) /\ proc'[p].pc = label
           /\ proc'[p].cmd = proc[p].cmd /\ proc'[p].op = proc[p].op
           /\ proc'[p].fp = proc[p].fp /\ proc'[p].version = proc[p].version
           /\ proc'[p].plan = proc[p].plan /\ proc'[p].etag = proc[p].etag
<1> DEFINE r == Moved(p, label)
<1>1. proc[p] \in ProcessState /\ proc \in [Process -> ProcessState]
  BY DEF Inv, TypeInv, TypeOK
<1>2. /\ r.pc = label /\ r.cmd = proc[p].cmd /\ r.op = proc[p].op /\ r.fp = proc[p].fp
      /\ r.version = proc[p].version /\ r.plan = proc[p].plan
  BY <1>1, MovedState
<1>3. r.etag = proc[p].etag
  BY <1>1 DEF Moved, ProcessState
<1>4. Become(p, r)
  BY Zenon DEF Go, Moved
<1> HIDE DEF r
<1>5. proc'[p] = r
  BY <1>1, <1>4 DEF Become
<1> QED BY <1>2, <1>3, <1>4, <1>5 DEF r

\* A step of a process to another control point of its publication or of its
\* rollback, with the certificate and the requests unchanged.
LEMMA WorkKept ==
    ASSUME Known, UNCHANGED <<oci, net>>, NEW p \in Process, NEW label \in Labels, Go(p, label),
           NEW leaf, leaf = proc[p].fp, NEW id, id = proc[p].op, NEW v, v = proc[p].version,
           id \in Active(ops'),
           label \in ReadingSteps => ops'[id].version = Null,
           label \in SearchSteps => /\ ops'[id].version \in DOMAIN oci.versions
                                    /\ oci.versions[ops'[id].version] # leaf,
           label \in NamingSteps => ops'[id].version = v,
           label \in PromotionSteps \union {"pendingVerified"} => oci.versions[v] = leaf,
           label \in RecordedSteps => certState'.version = v,
           label \in ConfirmedSteps =>
              /\ SeenCurrent(p)
              /\ \A w \in DOMAIN oci.versions : Backed(w, leaf) => Backed(w, leaf)'
              /\ CurrentBacked(leaf) => CurrentBacked(leaf)',
           label \notin {"promote", "reconciled", "retentionNext", "schedule"},
           label \in RestoredSteps => proc[p].pc \in RestoredSteps,
           label \in StagedSteps => proc[p].pc \in StagedSteps,
           label \in PromotableSteps => proc[p].pc \in PromotableSteps
    PROVE  WorkInv(p)'
<1>1. /\ proc'[p].pc = label /\ proc'[p].op = id /\ proc'[p].fp = leaf /\ proc'[p].version = v
  BY Went DEF Known
<1>2. SeenInv(p) /\ PromoteInv(p) /\ DeletionInv(p)
  BY DEF Known, CertificateInv, WorkInv
<1>3. RowInv(p)'
  BY <1>1 DEF RowInv
<1>4. SeenInv(p)'
  <2> SUFFICES ASSUME label \in ConfirmedSteps
               PROVE  /\ \A req \in net : req.kind = "promote" /\ req.etag = oci.etag =>
                                             Backed(req.arg, leaf)'
                      /\ oci.current = v \/ CurrentBacked(leaf)'
                      /\ oci.pending # v
    BY <1>1 DEF SeenInv, SeenCurrent, Backed, CurrentBacked, Backs, Spared
  <2>1. /\ \A req \in net : req.kind = "promote" /\ req.etag = oci.etag => Backed(req.arg, leaf)
        /\ oci.current = v \/ CurrentBacked(leaf)
        /\ oci.pending # v
    BY <1>2 DEF SeenInv
  <2>2. \A req \in net : req.kind = "promote" => req.arg \in DOMAIN oci.versions
    BY InFlight DEF Executable
  <2> QED BY <2>1, <2>2
<1>5. PromoteInv(p)'
  BY <1>1, <1>2 DEF PromoteInv, Quiet
<1>6. DeletionInv(p)'
  BY <1>1, <1>2 DEF DeletionInv
<1> QED BY <1>3, <1>4, <1>5, <1>6 DEF WorkInv

-----------------------------------------------------------------------------
(***************************************************************************)
(* Calls that mutate the certificate.                                      *)
(***************************************************************************)

\* A grounded request, whatever becomes of it.
LEMMA SentGlobal ==
    ASSUME Known, ~Lag, NEW req, Harmless(req), Executable(req),
           Accepts(oci, req) => Grounded(req),
           Succeeds(req) \/ Refused(req) \/ Ambiguous(req), UNCHANGED <<ops, certState>>
    PROVE  GlobalInv'
<1>1. GlobalInv
  BY DEF Known, CertificateInv, GlobalInv
<1>2. CASE Accepts(oci, req) /\ oci' = Executed(oci, req, Lag) /\ net' = net
  <2>1. StageInv'
    BY <1>1, <1>2, StagesKept DEF Known, GlobalInv
  <2>2. oci'.etag = oci.etag + 1
    BY <1>2, ExecutedFields DEF Known
  <2>3. RequestInv'
    BY <1>2, <2>2, OthersRefused DEF RequestInv, Known
  <2>4. LeafRows'
    BY <1>1 DEF GlobalInv, LeafRows
  <2> QED BY <2>1, <2>3, <2>4 DEF GlobalInv
<1>3. CASE oci' = oci /\ net' \subseteq net \union {req}
  <2>1. LeafRows' /\ StageInv'
    BY <1>1, <1>3 DEF GlobalInv, LeafRows, StageInv, DeletionIsSafe, PendingIsRemembered,
                      CurrentBacked, Backs, Spared
  <2>2. ASSUME NEW s \in net', s.etag = oci.etag
        PROVE  Grounded(s)'
    <3>1. Grounded(s)
      BY <1>1, <1>3, <2>2 DEF GlobalInv, RequestInv, Accepts
    <3> QED BY <1>3, <3>1 DEF Grounded, Backed, Backs, Spared, Remembered, Disposable, Referenced
  <2> QED BY <1>3, <2>1, <2>2 DEF GlobalInv, RequestInv
<1> QED BY <1>2, <1>3 DEF Succeeds, Refused, Ambiguous

\* What the process finds after the call: if the request was executed, no
\* other can be.
LEMMA SentFacts ==
    ASSUME Known, ~Lag, NEW req, Executable(req),
           Succeeds(req) \/ Ambiguous(req)
    PROVE  /\ DOMAIN oci.versions \subseteq DOMAIN oci'.versions
           /\ \A i \in DOMAIN oci.versions : oci'.versions[i] = oci.versions[i]
           /\ \A s \in net' : s.etag = oci'.etag => s = req \/ s \in net
           /\ \/ oci' = oci
              \/ /\ Accepts(oci, req) /\ oci' = Executed(oci, req, Lag) /\ net' = net
                 /\ Quiet' /\ \A s \in net' : s.etag # oci'.etag
           /\ Succeeds(req) =>
                 /\ Accepts(oci, req) /\ oci' = Executed(oci, req, Lag)
                 /\ Quiet' /\ \A s \in net' : s.etag # oci'.etag
<1>1. \/ oci' = oci
      \/ /\ Accepts(oci, req) /\ oci' = Executed(oci, req, Lag) /\ net' = net
  BY DEF Succeeds, Ambiguous
<1>2. \A s \in net' : s = req \/ s \in net
  BY DEF Succeeds, Ambiguous
<1>3. ASSUME oci' = Executed(oci, req, Lag), net' = net
      PROVE  /\ Quiet' /\ \A s \in net' : s.etag # oci'.etag
             /\ DOMAIN oci.versions \subseteq DOMAIN oci'.versions
             /\ \A i \in DOMAIN oci.versions : oci'.versions[i] = oci.versions[i]
  <2>1. oci'.etag = oci.etag + 1
    BY <1>3, ExecutedFields DEF Known
  <2> QED BY <1>3, <2>1, OthersRefused, LeavesKept DEF Known
<1> QED BY <1>1, <1>2, <1>3 DEF Succeeds

\* The upload of a leaf whose row is open.
LEMMA UploadCertificate ==
    ASSUME Known, ~Lag, NEW p \in Process, Upload(p) PROVE CertificateInv'
<1> DEFINE req == UploadRequest(proc[p].etag, proc[p].fp)
<1>1. /\ proc[p].pc = "upload" /\ UNCHANGED <<ops, certState>>
      /\ Succeeds(req) \/ Refused(req) \/ Ambiguous(req)
      /\ (Succeeds(req) /\ Go(p, "uploaded")) \/ Exit(p)
  BY DEF Upload
<1>2. /\ "uploaded" \in Labels /\ proc[p].pc \in PublishSteps /\ proc[p].pc \in SearchSteps
      /\ "uploaded" \in SearchSteps \intersect StagedSteps
      /\ "uploaded" \notin ReadingSteps \union NamingSteps \union PromotionSteps
                           \union RecordedSteps \union ConfirmedSteps \union RestoredSteps
                           \union PromotableSteps
  BY <1>1 DEF Labels, PublishSteps, SearchSteps, StagedSteps, VersionSteps, ReadingSteps,
              NamingSteps, PromotionSteps, RecordedSteps, ConfirmedSteps, RestoredSteps,
              PromotableSteps
<1>3. /\ proc[p].op \in Active(ops) /\ ops[proc[p].op].fp = proc[p].fp
      /\ RowInv(p)
  BY <1>2, OwnRowFacts DEF Known, CertificateInv, WorkInv
<1>4. Executable(req) /\ Harmless(req)
  BY <1>1, <1>2, RequestsExecutable, RequestsHarmless DEF Known
<1>5. Grounded(req)
  BY <1>3 DEF Grounded, Remembered, UploadRequest
<1> HIDE DEF req
<1>6. GlobalInv'
  BY <1>1, <1>4, <1>5, SentGlobal
<1>7. CASE Exit(p)
  BY <1>1, <1>6, <1>7, ExitFree
<1>8. CASE Succeeds(req) /\ Go(p, "uploaded")
  <2>1. /\ DOMAIN oci.versions \subseteq DOMAIN oci'.versions
        /\ \A i \in DOMAIN oci.versions : oci'.versions[i] = oci.versions[i]
        /\ \A s \in net' : s.etag # oci'.etag
    BY <1>4, <1>8, SentFacts
  <2>2. /\ Become(p, Moved(p, "uploaded")) /\ proc'[p].pc = "uploaded"
        /\ proc'[p].op = proc[p].op /\ proc'[p].fp = proc[p].fp
    BY <1>2, <1>8, Went DEF Known
  <2>3. RowInv(p)'
    BY <1>1, <1>2, <1>3, <2>1, <2>2 DEF RowInv
  <2>4. SeenInv(p)' /\ PromoteInv(p)' /\ DeletionInv(p)'
    BY <1>2, <2>1, <2>2 DEF SeenInv, SeenCurrent, PromoteInv, DeletionInv
  <2>5. WorkInv(p)'
    BY <2>3, <2>4 DEF WorkInv
  <2> QED BY <1>1, <1>6, <2>2, <2>5, AloneAtWork DEF Known
<1> QED BY <1>1, <1>7, <1>8

\* The row of a process that names its version grounds the promotion.
LEMMA OwnPromotionGrounded ==
    ASSUME Known, NEW p \in Process, proc[p].pc \in {"promote", "restore"},
           proc[p].etag = oci.etag
    PROVE  Grounded(PromoteRequest(proc[p].etag, proc[p].version))
<1> DEFINE req == PromoteRequest(proc[p].etag, proc[p].version)
           i == proc[p].op
           v == proc[p].version
<1>1. /\ proc[p].pc \in NamingSteps /\ proc[p].pc \in PromotableSteps
      /\ proc[p].pc = "promote" => proc[p].pc \in PublishSteps /\ proc[p].pc \in PromotionSteps
      /\ proc[p].pc = "restore" => proc[p].pc \in RollbackSteps
  BY DEF NamingSteps, PromotionSteps, PromotableSteps, PublishSteps, RollbackSteps
<1>2. RowInv(p) /\ PromoteInv(p) /\ DeletionInv(p)
  BY DEF Known, CertificateInv, WorkInv
<1>3. /\ i \in Active(ops) /\ ops[i].version = v
      /\ proc[p].pc = "promote" =>
            /\ ops[i].type \in Publishing /\ ops[i].fp = oci.versions[v]
            /\ oci.versions[oci.current] < oci.versions[v]
      /\ proc[p].pc = "restore" => ops[i].type = "ROLLBACK"
      /\ v \notin oci.deleted
  BY <1>1, <1>2, OwnRowFacts DEF RowInv, PromoteInv, DeletionInv
<1>4. Backed(v, Null)
  BY <1>3 DEF Backed, Backs, Spared
<1> QED BY <1>3, <1>4 DEF Grounded, PromoteRequest

\* What a promotion leaves of what the process relies on.
LEMMA PromotionSent ==
    ASSUME Known, ~Lag, NEW p \in Process, NEW v, v = proc[p].version,
           NEW req, req = PromoteRequest(proc[p].etag, v),
           proc[p].pc \in {"promote", "restore"}, Succeeds(req) \/ Ambiguous(req),
           UNCHANGED <<ops, certState>>
    PROVE  /\ Executable(req) /\ v \in DOMAIN oci.versions
           /\ oci'.versions[v] = oci.versions[v]
           /\ oci'.deleted = oci.deleted /\ v \notin oci.deleted
           /\ \A s \in net' : s.kind = "delete" /\ s.etag = oci'.etag => s.arg # v
           /\ Succeeds(req) => Quiet' /\ oci'.current = v
<1>1. /\ proc[p].pc \in PromotableSteps /\ proc[p].pc \in StagedSteps
      /\ proc[p].pc \in VersionSteps
  BY DEF PromotableSteps, StagedSteps, VersionSteps, PublishSteps, RollbackSteps
<1>2. /\ v \notin oci.deleted
      /\ \A s \in net : s.kind = "delete" /\ s.etag = oci.etag => s.arg # v
  BY <1>1 DEF Known, CertificateInv, WorkInv, DeletionInv
<1>3. Executable(req)
  BY <1>1, RequestsExecutable DEF Known
<1>4. req.kind = "promote" /\ req.arg = v
  BY DEF PromoteRequest
<1>5. v \in DOMAIN oci.versions
  BY <1>3, <1>4 DEF Executable
<1>6. oci' = Executed(oci, req, Lag) => oci'.deleted = oci.deleted /\ oci'.current = v
  BY <1>3, <1>4, ExecutedFields DEF Known
<1>7. oci'.deleted = oci.deleted
  BY <1>6 DEF Succeeds, Ambiguous
<1> QED BY <1>2, <1>3, <1>4, <1>5, <1>6, <1>7, SentFacts

\* The promotion of the local leaf: an ambiguous one is attempted again.
LEMMA PromoteCertificate ==
    ASSUME Known, ~Lag, NEW p \in Process, Promote(p) PROVE CertificateInv'
<1> DEFINE req == PromoteRequest(proc[p].etag, proc[p].version)
           again == [proc[p] EXCEPT !.pc = "refresh", !.attempt = proc[p].attempt + 1]
<1>1. /\ proc[p].pc = "promote" /\ UNCHANGED <<ops, certState>>
      /\ Succeeds(req) \/ Refused(req) \/ Ambiguous(req)
      /\ \/ Succeeds(req) /\ Go(p, "confirm")
         \/ Ambiguous(req) /\ Become(p, again)
         \/ Exit(p)
  BY DEF Promote
<1>2. /\ "confirm" \in Labels /\ proc[p].pc \in PublishSteps
      /\ proc[p].pc \in NamingSteps /\ proc[p].pc \in PromotionSteps
      /\ proc[p].pc \in VersionSteps
      /\ \A m \in {"confirm", "refresh"} :
            /\ m \in NamingSteps
            /\ m \notin ReadingSteps \union SearchSteps \union {"pendingVerified"}
                        \union RecordedSteps \union ConfirmedSteps \union RestoredSteps
            /\ m \notin {"reconciled", "promote", "retentionNext", "schedule"}
  BY <1>1 DEF Labels, PublishSteps, SearchSteps, VersionSteps, ReadingSteps,
              NamingSteps, PromotionSteps, RecordedSteps, ConfirmedSteps, RestoredSteps
<1>3. /\ proc[p].op \in Active(ops) /\ ops[proc[p].op].version = proc[p].version
      /\ oci.versions[proc[p].version] = proc[p].fp
  BY <1>2 DEF Known, CertificateInv, WorkInv, RowInv
<1>4. Executable(req) /\ Harmless(req)
  BY <1>2, RequestsExecutable, RequestsHarmless DEF Known
<1>5. Accepts(oci, req) => Grounded(req)
  BY <1>1, OwnPromotionGrounded DEF Accepts, PromoteRequest
<1>6. GlobalInv'
  BY <1>1, <1>4, <1>5, SentGlobal
<1>7. CASE Exit(p)
  BY <1>1, <1>6, <1>7, ExitFree
<1>8. ASSUME Succeeds(req) \/ Ambiguous(req), NEW r, Become(p, r),
             r.pc \in {"confirm", "refresh"}, r.op = proc[p].op, r.fp = proc[p].fp,
             r.version = proc[p].version
      PROVE  CertificateInv'
  <2>1. proc'[p] = r
    BY <1>8 DEF Known, Inv, TypeInv, TypeOK, Become
  <2>2. /\ oci'.versions[proc[p].version] = oci.versions[proc[p].version]
        /\ oci'.deleted = oci.deleted /\ proc[p].version \notin oci.deleted
        /\ \A s \in net' : s.kind = "delete" /\ s.etag = oci'.etag => s.arg # proc[p].version
    BY <1>1, <1>8, PromotionSent
  <2>3. RowInv(p)'
    BY <1>1, <1>2, <1>3, <1>8, <2>1, <2>2 DEF RowInv
  <2>4. SeenInv(p)' /\ PromoteInv(p)' /\ DeletionInv(p)'
    BY <1>2, <1>8, <2>1, <2>2 DEF SeenInv, SeenCurrent, PromoteInv, DeletionInv
  <2>5. WorkInv(p)'
    BY <2>3, <2>4 DEF WorkInv
  <2> QED BY <1>1, <1>6, <1>8, <2>5, AloneAtWork DEF Known
<1>9. CASE Succeeds(req) /\ Go(p, "confirm")
  <2> DEFINE r == Moved(p, "confirm")
  <2>1. proc[p] \in ProcessState
    BY Worker DEF Known
  <2>2. /\ Become(p, r) /\ r.pc = "confirm" /\ r.op = proc[p].op /\ r.fp = proc[p].fp
        /\ r.version = proc[p].version
    BY <1>2, <1>9, <2>1, Went, MovedState DEF Known
  <2> HIDE DEF r
  <2> QED BY <1>8, <1>9, <2>2
<1>10. CASE Ambiguous(req) /\ Become(p, again)
  <2> HIDE DEF req
  <2>1. proc[p] \in ProcessState
    BY Worker DEF Known
  <2>2. /\ again.pc = "refresh" /\ again.op = proc[p].op /\ again.fp = proc[p].fp
        /\ again.version = proc[p].version
    BY <2>1 DEF ProcessState
  <2> HIDE DEF again
  <2> QED BY <1>8, <1>10, <2>2
<1> QED BY <1>1, <1>7, <1>9, <1>10

\* The promotion of a rollback.
LEMMA RestoreCertificate ==
    ASSUME Known, ~Lag, NEW p \in Process, Restore(p) PROVE CertificateInv'
<1> DEFINE req == PromoteRequest(proc[p].etag, proc[p].version)
<1>1. /\ proc[p].pc = "restore" /\ UNCHANGED <<ops, certState>>
      /\ Succeeds(req) \/ Refused(req) \/ Ambiguous(req)
      /\ (Succeeds(req) /\ Go(p, "rollbackConfirm")) \/ Exit(p)
  BY DEF Restore
<1>2. /\ "rollbackConfirm" \in Labels /\ proc[p].pc \in RollbackSteps
      /\ proc[p].pc \in NamingSteps /\ proc[p].pc \in VersionSteps
      /\ "rollbackConfirm" \in NamingSteps
      /\ "rollbackConfirm" \notin ReadingSteps \union SearchSteps \union PromotionSteps
                                  \union RecordedSteps \union ConfirmedSteps
                                  \union PromotableSteps
  BY <1>1 DEF Labels, RollbackSteps, PublishSteps, SearchSteps, VersionSteps, ReadingSteps,
              NamingSteps, PromotionSteps, RecordedSteps, ConfirmedSteps, RestoredSteps,
              PromotableSteps
<1>3. proc[p].op \in Active(ops) /\ ops[proc[p].op].version = proc[p].version
  BY <1>2 DEF Known, CertificateInv, WorkInv, RowInv
<1>4. Executable(req) /\ Harmless(req)
  BY <1>2, RequestsExecutable, RequestsHarmless DEF Known
<1>5. Accepts(oci, req) => Grounded(req)
  BY <1>1, OwnPromotionGrounded DEF Accepts, PromoteRequest
<1>6. GlobalInv'
  BY <1>1, <1>4, <1>5, SentGlobal
<1>7. CASE Exit(p)
  BY <1>1, <1>6, <1>7, ExitFree
<1>8. CASE Succeeds(req) /\ Go(p, "rollbackConfirm")
  <2>1. /\ Become(p, Moved(p, "rollbackConfirm")) /\ proc'[p].pc = "rollbackConfirm"
        /\ proc'[p].op = proc[p].op /\ proc'[p].version = proc[p].version
    BY <1>2, <1>8, Went DEF Known
  <2>2. /\ Quiet' /\ oci'.current = proc[p].version
        /\ \A s \in net' : s.kind = "delete" /\ s.etag = oci'.etag => s.arg # proc[p].version
    BY <1>1, <1>8, PromotionSent
  <2>3. RowInv(p)'
    BY <1>1, <1>2, <1>3, <2>1 DEF RowInv
  <2>4. SeenInv(p)' /\ PromoteInv(p)' /\ DeletionInv(p)'
    BY <1>2, <2>1, <2>2 DEF SeenInv, SeenCurrent, PromoteInv, DeletionInv
  <2>5. WorkInv(p)'
    BY <2>3, <2>4 DEF WorkInv
  <2> QED BY <1>1, <1>6, <2>1, <2>5, AloneAtWork DEF Known
<1> QED BY <1>1, <1>7, <1>8

\* The deletion of a planned version.
LEMMA ScheduleCertificate ==
    ASSUME Known, ~Lag, NEW p \in Process, Schedule(p) PROVE CertificateInv'
<1> DEFINE req == DeleteRequest(proc[p].etag, proc[p].version)
<1>1. /\ proc[p].pc = "schedule" /\ UNCHANGED <<ops, certState>>
      /\ Succeeds(req) \/ Refused(req) \/ Ambiguous(req)
      /\ (Succeeds(req) /\ Go(p, "retentionNext")) \/ Exit(p)
  BY DEF Schedule
<1>2. /\ "retentionNext" \in Labels /\ proc[p].pc \in VersionSteps
      /\ "retentionNext" \notin ReadingSteps \union SearchSteps \union NamingSteps
             \union PromotionSteps \union RecordedSteps \union ConfirmedSteps
             \union RestoredSteps \union StagedSteps \union PromotableSteps
             \union PublishSteps \union RollbackSteps
  BY <1>1 DEF Labels, RollbackSteps, PublishSteps, SearchSteps, VersionSteps, ReadingSteps,
              NamingSteps, PromotionSteps, RecordedSteps, ConfirmedSteps, RestoredSteps,
              PromotableSteps, StagedSteps
<1>3. Disposable(proc[p].version) /\ \A v \in proc[p].plan : Disposable(v)
  BY <1>1 DEF Known, CertificateInv, WorkInv, DeletionInv
<1>4. Executable(req) /\ Harmless(req)
  BY <1>2, RequestsExecutable, RequestsHarmless DEF Known
<1>5. Grounded(req)
  BY <1>3 DEF Grounded, DeleteRequest
<1> HIDE DEF req
<1>6. GlobalInv'
  BY <1>1, <1>4, <1>5, SentGlobal
<1>7. CASE Exit(p)
  BY <1>1, <1>6, <1>7, ExitFree
<1>8. CASE Succeeds(req) /\ Go(p, "retentionNext")
  <2>1. /\ Become(p, Moved(p, "retentionNext")) /\ proc'[p].pc = "retentionNext"
        /\ proc'[p].plan = proc[p].plan
    BY <1>2, <1>8, Went DEF Known
  <2>2. \A v \in proc[p].plan : Disposable(v)'
    BY <1>1, <1>3, <1>4, <1>5, <1>8, SentFacts, DisposableKept DEF Known
  <2>3. RowInv(p)' /\ SeenInv(p)' /\ PromoteInv(p)'
    BY <1>2, <2>1 DEF RowInv, SeenInv, SeenCurrent, PromoteInv
  <2>4. DeletionInv(p)'
    BY <1>2, <2>1, <2>2 DEF DeletionInv
  <2>5. WorkInv(p)'
    BY <2>3, <2>4 DEF WorkInv
  <2> QED BY <1>1, <1>6, <2>1, <2>5, AloneAtWork DEF Known
<1> QED BY <1>1, <1>7, <1>8

-----------------------------------------------------------------------------
(***************************************************************************)
(* Reads, and transitions of the row.                                      *)
(***************************************************************************)

\* A version in a stage is neither deleted nor about to be.
LEMMA ProtectedIsKept ==
    ASSUME Known, NEW v \in Protected(oci)
    PROVE  /\ v \notin oci.deleted
           /\ \A req \in net : req.kind = "delete" /\ req.etag = oci.etag => req.arg # v
<1>1. v \notin oci.deleted
  BY DEF Known, CertificateInv, StageInv, DeletionIsSafe
<1>2. ASSUME NEW req \in net, req.kind = "delete", req.etag = oci.etag
      PROVE  req.arg # v
  <2>1. Disposable(req.arg)
    BY <1>2 DEF Known, CertificateInv, RequestInv, Grounded
  <2> QED BY <2>1 DEF Disposable
<1> QED BY <1>1, <1>2

\* Only an older leaf, or a rollback, can replace the version that is CURRENT
\* when its leaf is compared; and it is not PENDING.
LEMMA CurrentSeen ==
    ASSUME Known, NEW leaf, leaf = oci.versions[oci.current]
    PROVE  /\ \A req \in net :
                 req.kind = "promote" /\ req.etag = oci.etag => Backed(req.arg, leaf)
           /\ oci.pending # oci.current
<1>1. oci.pending # oci.current
  BY DEF Known, CertificateInv, StageInv
<1>2. ASSUME NEW req \in net, req.kind = "promote", req.etag = oci.etag
      PROVE  Backed(req.arg, leaf)
  <2>1. Backed(req.arg, Null) /\ req.arg \in DOMAIN oci.versions
    BY <1>2, InFlight DEF Known, CertificateInv, RequestInv, Grounded, Executable
  <2>2. PICK i \in Active(ops) :
           /\ Backs(i, req.arg)
           /\ ops[i].type # "ROLLBACK" => oci.versions[oci.current] < oci.versions[req.arg]
    BY <2>1 DEF Backed
  <2>3. CASE ops[i].type = "ROLLBACK"
    <3>1. ops[i].fp = Null
      BY <2>3 DEF Known, CertificateInv, LeafRows, Active, Publishing
    <3> QED BY <2>2, <2>3, <3>1 DEF Backed, Spared
  <2>4. CASE ops[i].type # "ROLLBACK"
    <3>1. ops[i].fp = oci.versions[req.arg] /\ leaf < oci.versions[req.arg]
      BY <2>2, <2>4 DEF Backs
    <3>2. leaf \in Nat /\ oci.versions[req.arg] \in Nat
      BY <2>1, CertificateFacts DEF Known
    <3>3. ops[i].fp # leaf
      BY <3>1, <3>2
    <3> QED BY <2>2, <3>1, <3>3 DEF Backed, Spared
  <2> QED BY <2>3, <2>4
<1> QED BY <1>1, <1>2

\* So the process that has just read CURRENT may close rows of its leaf.
LEMMA CurrentRead ==
    ASSUME Known, NEW p \in Process, UNCHANGED <<oci, net, ops>>,
           proc'[p].version = oci.current,
           SeenCurrent(p)' => oci.versions[oci.current] = proc'[p].fp
    PROVE  SeenInv(p)'
<1>1. PICK leaf : leaf = proc'[p].fp
  OBVIOUS
<1> SUFFICES ASSUME SeenCurrent(p)'
             PROVE  /\ \A req \in net : req.kind = "promote" /\ req.etag = oci.etag =>
                                           Backed(req.arg, leaf)'
                    /\ oci.pending # oci.current
  BY <1>1 DEF SeenInv, Backed, Backs, Spared
<1>2. /\ \A req \in net : req.kind = "promote" /\ req.etag = oci.etag => Backed(req.arg, leaf)
      /\ oci.pending # oci.current
  BY <1>1, CurrentSeen
<1> QED BY <1>2 DEF Backed, Backs, Spared

\* renew issues a leaf.
LEMMA RenewCertificate ==
    ASSUME Known, NEW p \in Process, Renew(p) PROVE CertificateInv'
<1>1. proc[p].pc = "renew" /\ UNCHANGED <<oci, net, ops, certState>>
      /\ (Exit(p) \/ Go(p, "start"))
  BY DEF Renew
<1>2. "start" \in Labels /\ Unburdened("start")
  BY DEF Labels, Unburdened, PublishSteps, RollbackSteps
<1>3. CASE Exit(p)
  BY <1>1, <1>3, ExitKept
<1>4. CASE Go(p, "start")
  <2> DEFINE r == Moved(p, "start")
  <2>1. Become(p, r) /\ r.pc = "start"
    BY <1>2, <1>4, Went, Worker, MovedState DEF Known
  <2> HIDE DEF r
  <2> QED BY <1>1, <1>2, <2>1, FreeStep
<1> QED BY <1>1, <1>3, <1>4

\* publish inserts its row.
LEMMA StartCertificate ==
    ASSUME Known, NEW p \in Process, Start(p) PROVE CertificateInv'
<1> DEFINE r == [proc[p] EXCEPT !.pc = "getCertificate", !.op = Len(ops) + 1,
                                !.fp = local, !.now = expired]
<1>1. /\ proc[p].pc = "start" /\ UNCHANGED <<oci, net, certState>>
      /\ \/ Exit(p) /\ ops' = ops
         \/ ops' = StartOperation(ops, proc[p].cmd, local, Ocid) /\ Become(p, r)
  BY DEF Start
<1>2. CASE Exit(p) /\ ops' = ops
  BY <1>1, <1>2, ExitKept
<1>3. CASE ops' = StartOperation(ops, proc[p].cmd, local, Ocid) /\ Become(p, r)
  <2>1. proc[p] \in ProcessState /\ local \in Nat /\ proc[p].cmd \in Publishing
    BY <1>1, Worker DEF Known, OwnRow
  <2>2. proc[p].cmd \in OperationType
    BY <2>1 DEF Publishing, OperationType
  <2>3. /\ GlobalInv' /\ Len(ops) + 1 \in Active(ops') /\ ops'[Len(ops) + 1].version = Null
    BY <1>1, <1>3, <2>1, <2>2, RowInserted
  <2>4. r.pc = "getCertificate" /\ r.op = Len(ops) + 1
    BY <2>1 DEF ProcessState
  <2> HIDE DEF r
  <2>5. proc'[p] = r
    BY <1>3 DEF Known, Inv, TypeInv, TypeOK, Become
  <2>6. /\ "getCertificate" \notin SearchSteps \union NamingSteps \union PromotionSteps
               \union RecordedSteps \union ConfirmedSteps \union RestoredSteps
               \union StagedSteps \union PromotableSteps
    BY DEF SearchSteps, NamingSteps, PromotionSteps, RecordedSteps, ConfirmedSteps,
           RestoredSteps, StagedSteps, PromotableSteps, VersionSteps, RollbackSteps
  <2>7. RowInv(p)'
    BY <2>3, <2>4, <2>5, <2>6 DEF RowInv
  <2>8. SeenInv(p)' /\ PromoteInv(p)' /\ DeletionInv(p)'
    BY <2>4, <2>5, <2>6 DEF SeenInv, SeenCurrent, PromoteInv, DeletionInv
  <2>9. WorkInv(p)'
    BY <2>7, <2>8 DEF WorkInv
  <2> QED BY <1>1, <1>3, <2>3, <2>9, AloneAtWork DEF Known
<1> QED BY <1>1, <1>2, <1>3

\* A step that only remembers something, with its row unnamed before and after.
LEMMA ReadWork ==
    ASSUME Known, NEW p \in Process, NEW r, Become(p, r), UNCHANGED <<oci, net, ops, certState>>,
           proc[p].pc \in PublishSteps \union RollbackSteps, proc[p].pc \in ReadingSteps,
           r.pc \in ReadingSteps, r.op = proc[p].op,
           SeenInv(p)', DeletionInv(p)'
    PROVE  CertificateInv'
<1>1. proc'[p] = r
  BY DEF Known, Inv, TypeInv, TypeOK, Become
<1>2. RowInv(p)
  BY DEF Known, CertificateInv, WorkInv
<1>3. /\ r.pc \notin SearchSteps \union NamingSteps \union PromotionSteps
             \union {"pendingVerified"} \union RecordedSteps \union RestoredSteps
      /\ r.pc # "promote"
  BY DEF ReadingSteps, SearchSteps, NamingSteps, PromotionSteps, RecordedSteps,
         ConfirmedSteps, RestoredSteps
<1>4. RowInv(p)' /\ PromoteInv(p)'
  BY <1>1, <1>2, <1>3 DEF RowInv, PromoteInv
<1>5. GlobalInv'
  BY GlobalKept DEF Known, CertificateInv, GlobalInv
<1>6. WorkInv(p)' /\ proc[p].pc # "idle"
  BY <1>4 DEF WorkInv, ReadingSteps
<1> QED BY <1>5, <1>6, AloneAtWork DEF Known

\* The etag is read before CURRENT.
LEMMA GetCertificateCertificate ==
    ASSUME Known, NEW p \in Process, GetCertificate(p) PROVE CertificateInv'
<1> DEFINE e == oci.etag
           r == [proc[p] EXCEPT !.pc = "getCurrent", !.etag = e]
<1>1. /\ proc[p].pc = "getCertificate" /\ UNCHANGED <<oci, net, ops, certState>>
      /\ Become(p, r)
  BY DEF GetCertificate
<1> HIDE DEF e
<1>2. proc[p] \in ProcessState
  BY Worker DEF Known
<1>3. r.pc = "getCurrent" /\ r.op = proc[p].op
  BY <1>2 DEF ProcessState
<1> HIDE DEF r
<1>4. proc'[p] = r
  BY <1>1 DEF Known, Inv, TypeInv, TypeOK, Become
<1>5. /\ proc[p].pc \in ReadingSteps /\ proc[p].pc \in PublishSteps
      /\ r.pc \in ReadingSteps
      /\ r.pc \notin StagedSteps \union PromotableSteps \union ConfirmedSteps
  BY <1>1, <1>3 DEF ReadingSteps, StagedSteps, PromotableSteps, ConfirmedSteps, VersionSteps,
                    PublishSteps, RollbackSteps
<1>6. SeenInv(p)' /\ DeletionInv(p)'
  BY <1>3, <1>4, <1>5 DEF SeenInv, SeenCurrent, DeletionInv
<1> QED BY <1>1, <1>3, <1>5, <1>6, ReadWork

\* CURRENT is read, and its leaf will be compared.
LEMMA GetCurrentCertificate ==
    ASSUME Known, NEW p \in Process, GetCurrent(p) PROVE CertificateInv'
<1> DEFINE v == oci.served
           r == [proc[p] EXCEPT !.pc = "reconciled", !.version = v]
<1>1. /\ proc[p].pc = "getCurrent" /\ UNCHANGED <<oci, net, ops, certState>>
      /\ Exit(p) \/ Become(p, r)
  BY DEF GetCurrent
<1>2. v = oci.current /\ v \in Protected(oci)
  BY DEF Known, CertificateInv, StageInv, Protected
<1> HIDE DEF v
<1>3. CASE Exit(p)
  BY <1>1, <1>3, ExitKept
<1>4. CASE Become(p, r)
  <2>1. proc[p] \in ProcessState
    BY Worker DEF Known
  <2>2. r.pc = "reconciled" /\ r.op = proc[p].op /\ r.version = v /\ r.fp = proc[p].fp
    BY <2>1 DEF ProcessState
  <2> HIDE DEF r
  <2>3. proc'[p] = r
    BY <1>4 DEF Known, Inv, TypeInv, TypeOK, Become
  <2>4. /\ proc[p].pc \in ReadingSteps /\ proc[p].pc \in PublishSteps
        /\ r.pc \in ReadingSteps /\ r.pc \notin PromotableSteps \union ConfirmedSteps
        /\ r.pc \notin {"retentionNext", "schedule"}
    BY <1>1, <2>2 DEF ReadingSteps, PromotableSteps, ConfirmedSteps, PublishSteps
  <2>5. DeletionInv(p)'
    <3>1. \A req \in net : req.kind = "delete" /\ req.etag = oci.etag => req.arg # v
      BY <1>2, ProtectedIsKept
    <3> QED BY <1>1, <2>2, <2>3, <2>4, <3>1 DEF DeletionInv
  <2>6. SeenInv(p)'
    <3>1. proc'[p].version = oci.current
      BY <1>2, <2>2, <2>3
    <3>2. SeenCurrent(p)' => oci.versions[oci.current] = proc'[p].fp
      BY <1>1, <2>2, <2>3, <2>4, <3>1 DEF SeenCurrent
    <3> QED BY <1>1, <3>1, <3>2, CurrentRead
  <2> QED BY <1>1, <1>4, <2>2, <2>4, <2>5, <2>6, ReadWork
<1> QED BY <1>1, <1>3, <1>4

\* A transition of the row to an open state, and what it must name for the
\* next step.
LEMMA LoggedOn ==
    ASSUME Known, NEW p \in Process, NEW label \in PublishSteps \union RollbackSteps,
           NEW state \in OperationState \ TerminalStates, NEW version \in {Null, proc[p].version},
           NEW next \in Labels, LogStep(p, label, state, version, next),
           version = Null \/ label \in StagedSteps,
           \/ version \in {Null, ops[proc[p].op].version}
           \/ \A w \in DOMAIN oci.versions : ~Backs(proc[p].op, w),
           NEW named,
           named = IF version = Null THEN ops[proc[p].op].version ELSE version,
           next \notin ReadingSteps \union {"promote", "retentionNext", "schedule"},
           next \in SearchSteps => /\ named \in DOMAIN oci.versions
                                   /\ oci.versions[named] # proc[p].fp,
           next \in NamingSteps => named = proc[p].version,
           next \in PromotionSteps \union {"pendingVerified"} =>
              oci.versions[proc[p].version] = proc[p].fp,
           next \in RecordedSteps => certState.version = proc[p].version,
           next \in ConfirmedSteps => SeenCurrent(p),
           next \in RestoredSteps => label \in RestoredSteps,
           next \in StagedSteps => label \in StagedSteps,
           next \in PromotableSteps => label \in PromotableSteps
    PROVE  CertificateInv'
<1>1. PICK leaf, id, v : leaf = proc[p].fp /\ id = proc[p].op /\ v = proc[p].version
  OBVIOUS
<1>2. /\ proc[p].pc = label /\ UNCHANGED <<oci, net, certState>>
      /\ ops' = Transition(ops, proc[p].op, state, version, Null) /\ Go(p, next)
  BY DEF LogStep
<1>3. /\ GlobalInv' /\ id \in Active(ops') /\ ops'[id].version = named
      /\ \A w \in DOMAIN oci.versions : Backed(w, leaf) => Backed(w, leaf)'
      /\ CurrentBacked(leaf) => CurrentBacked(leaf)'
  BY <1>1, <1>2, OwnRowMoved
<1>4. next \notin {"promote", "reconciled", "retentionNext", "schedule"}
  BY DEF ReadingSteps
<1>5. WorkInv(p)'
  BY <1>1, <1>2, <1>3, <1>4, WorkKept
<1>6. label # "idle" /\ Become(p, Moved(p, next))
  BY <1>2, Went DEF Known, PublishSteps, RollbackSteps
<1> QED BY <1>2, <1>3, <1>5, <1>6, AloneAtWork DEF Known

\* A row that names no version backs none.
LEMMA UnnamedBacksNothing ==
    ASSUME Known, NEW i, ops[i].version = Null
    PROVE  \A v \in DOMAIN oci.versions : ~Backs(i, v)
<1>1. \A v \in DOMAIN oci.versions : v # Null
  BY CertificateFacts DEF Known, Null
<1> QED BY <1>1 DEF Backs

\* The row names CURRENT, whatever its leaf.
LEMMA ReconciledCertificate ==
    ASSUME Known, NEW p \in Process, Reconciled(p) PROVE CertificateInv'
<1> DEFINE same == oci.versions[proc[p].version] = proc[p].fp
           next == IF same THEN "record" ELSE "find"
<1>1. LogStep(p, "reconciled", "OCI_RECONCILED", proc[p].version, next)
  BY Zenon DEF Reconciled
<1>2. proc[p].pc = "reconciled"
  BY <1>1 DEF LogStep
<1>3. /\ "reconciled" \in PublishSteps \union RollbackSteps /\ proc[p].pc \in PublishSteps
      /\ "reconciled" \in StagedSteps /\ "reconciled" \in ReadingSteps
      /\ "OCI_RECONCILED" \in OperationState \ TerminalStates
      /\ proc[p].pc \in VersionSteps
  BY <1>2 DEF PublishSteps, RollbackSteps, StagedSteps, VersionSteps, ReadingSteps,
              OperationState, TerminalStates
<1>4. ops[proc[p].op].version = Null /\ proc[p].version \in DOMAIN oci.versions
  BY <1>2, <1>3, OwnRowFacts DEF Known, CertificateInv, WorkInv, RowInv
<1>5. \A w \in DOMAIN oci.versions : ~Backs(proc[p].op, w)
  BY <1>4, UnnamedBacksNothing
<1>6. proc[p].version # Null
  BY <1>4, CertificateFacts DEF Known, Null
<1>7. /\ "record" \in Labels /\ "find" \in Labels
      /\ "record" \notin ReadingSteps \union SearchSteps \union PromotionSteps
                         \union {"pendingVerified", "promote", "retentionNext", "schedule"}
                         \union RecordedSteps \union RestoredSteps \union PromotableSteps
      /\ "find" \notin ReadingSteps \union {"promote", "retentionNext", "schedule"}
                       \union NamingSteps \union PromotionSteps \union {"pendingVerified"}
                       \union RecordedSteps \union ConfirmedSteps \union RestoredSteps
                       \union PromotableSteps
  BY DEF Labels, ReadingSteps, SearchSteps, NamingSteps, PromotionSteps, RecordedSteps,
         ConfirmedSteps, RestoredSteps, PromotableSteps
<1>8. CASE same
  <2>1. SeenCurrent(p) /\ next = "record"
    BY <1>2, <1>8 DEF SeenCurrent
  <2> HIDE DEF next
  <2> QED BY <1>1, <1>3, <1>5, <1>6, <1>7, <2>1, LoggedOn
<1>9. CASE ~same
  <2>1. next = "find"
    BY <1>9
  <2> HIDE DEF next
  <2> QED BY <1>1, <1>3, <1>4, <1>5, <1>6, <1>7, <1>9, <2>1, LoggedOn
<1> QED BY <1>8, <1>9

\* The listing shows the upload or not, later.
LEMMA PendingUploadedCertificate ==
    ASSUME Known, NEW p \in Process, PendingUploaded(p) PROVE CertificateInv'
<1>1. LogStep(p, "uploaded", "OCI_PENDING_UPLOADED", Null, "findUploaded")
  BY DEF PendingUploaded
<1>2. proc[p].pc = "uploaded"
  BY <1>1 DEF LogStep
<1>3. /\ "uploaded" \in PublishSteps \union RollbackSteps
      /\ "uploaded" \in StagedSteps /\ "uploaded" \in SearchSteps
      /\ "OCI_PENDING_UPLOADED" \in OperationState \ TerminalStates
      /\ "findUploaded" \in Labels /\ "findUploaded" \in SearchSteps
      /\ "findUploaded" \notin ReadingSteps \union {"promote", "retentionNext", "schedule"}
             \union NamingSteps \union PromotionSteps \union {"pendingVerified"}
             \union RecordedSteps \union ConfirmedSteps \union RestoredSteps
             \union PromotableSteps
  BY DEF PublishSteps, RollbackSteps, StagedSteps, VersionSteps, ReadingSteps,
         OperationState, TerminalStates, Labels, SearchSteps, NamingSteps, PromotionSteps,
         RecordedSteps, ConfirmedSteps, RestoredSteps, PromotableSteps
<1>4. /\ ops[proc[p].op].version \in DOMAIN oci.versions
      /\ oci.versions[ops[proc[p].op].version] # proc[p].fp
  BY <1>2, <1>3 DEF Known, CertificateInv, WorkInv, RowInv
<1> QED BY <1>1, <1>3, <1>4, LoggedOn

\* The row names the version to be promoted instead of the old CURRENT.
LEMMA PendingVerifiedCertificate ==
    ASSUME Known, NEW p \in Process, PendingVerified(p) PROVE CertificateInv'
<1>1. LogStep(p, "pendingVerified", "OCI_PENDING_VERIFIED", proc[p].version, "refresh")
  BY DEF PendingVerified
<1>2. proc[p].pc = "pendingVerified"
  BY <1>1 DEF LogStep
<1>3. /\ "pendingVerified" \in PublishSteps /\ "pendingVerified" \in VersionSteps
      /\ "pendingVerified" \in StagedSteps /\ "pendingVerified" \in SearchSteps
      /\ "pendingVerified" \in PromotableSteps
      /\ "OCI_PENDING_VERIFIED" \in OperationState \ TerminalStates
      /\ "refresh" \in Labels
      /\ "refresh" \notin ReadingSteps \union {"promote", "retentionNext", "schedule"}
             \union SearchSteps \union RecordedSteps \union ConfirmedSteps \union RestoredSteps
  BY DEF PublishSteps, RollbackSteps, StagedSteps, VersionSteps, ReadingSteps,
         OperationState, TerminalStates, Labels, SearchSteps, NamingSteps, PromotionSteps,
         RecordedSteps, ConfirmedSteps, RestoredSteps, PromotableSteps
<1>4. /\ ops[proc[p].op].version \in DOMAIN oci.versions
      /\ oci.versions[ops[proc[p].op].version] # proc[p].fp
      /\ oci.versions[proc[p].version] = proc[p].fp
  BY <1>2, <1>3 DEF Known, CertificateInv, WorkInv, RowInv
<1>5. /\ ops[proc[p].op].type \in Publishing /\ ops[proc[p].op].fp = proc[p].fp
      /\ proc[p].version \in DOMAIN oci.versions /\ proc[p].op \in Active(ops)
  BY <1>2, <1>3, OwnRowFacts
<1>6. \A w \in DOMAIN oci.versions : ~Backs(proc[p].op, w)
  BY <1>4, <1>5 DEF Backs, Publishing
<1>7. proc[p].version # Null
  BY <1>5, CertificateFacts DEF Known, Null
<1> QED BY <1>1, <1>3, <1>4, <1>6, <1>7, LoggedOn

\* A step that changes only what the process remembers.
LEMMA ReadOn ==
    ASSUME Known, NEW p \in Process, proc[p].pc # "idle", NEW r, Become(p, r),
           UNCHANGED <<oci, net, ops, certState>>,
           RowInv(p)', SeenInv(p)', PromoteInv(p)', DeletionInv(p)'
    PROVE  CertificateInv'
<1>1. GlobalInv'
  BY GlobalKept DEF Known, CertificateInv, GlobalInv
<1>2. WorkInv(p)'
  BY DEF WorkInv
<1> QED BY <1>1, <1>2, AloneAtWork DEF Known

\* The version that was found is in a stage, and no deletion reaches it.
LEMMA FoundCertificate ==
    ASSUME Known, NEW p \in Process, proc[p].pc \in {"find", "findUploaded"}, Found(p),
           UNCHANGED <<oci, net, ops, certState>>
    PROVE  CertificateInv'
<1>1. PICK v \in Matching(p) :
         Become(p, [proc[p] EXCEPT !.pc = "pendingVerified", !.version = v])
  BY DEF Found
<1> DEFINE r == [proc[p] EXCEPT !.pc = "pendingVerified", !.version = v]
<1>2. proc[p] \in ProcessState
  BY Worker DEF Known
<1>3. r.pc = "pendingVerified" /\ r.op = proc[p].op /\ r.version = v /\ r.fp = proc[p].fp
  BY <1>2 DEF ProcessState
<1>4. Become(p, r)
  BY <1>1
<1> HIDE DEF r
<1>5. proc'[p] = r
  BY <1>4 DEF Known, Inv, TypeInv, TypeOK, Become
<1>6. oci.versions[v] = proc[p].fp /\ v \in Protected(oci)
  BY <1>1, CertificateFacts
     DEF Known, Matching, StagedForPromotion, LatestListed, Protected, Latest
<1>7. /\ proc[p].pc \in PublishSteps /\ proc[p].pc \in SearchSteps
      /\ "pendingVerified" \in PublishSteps
      /\ "pendingVerified" \notin ReadingSteps \union NamingSteps \union RecordedSteps
             \union ConfirmedSteps \union RestoredSteps
             \union {"reconciled", "promote", "retentionNext", "schedule"}
  BY DEF PublishSteps, SearchSteps, ReadingSteps, NamingSteps, PromotionSteps, RecordedSteps,
         ConfirmedSteps, RestoredSteps
<1>8. RowInv(p)'
  <2>1. RowInv(p)
    BY DEF Known, CertificateInv, WorkInv
  <2>2. /\ proc[p].op \in Active(ops) /\ ops[proc[p].op].version \in DOMAIN oci.versions
        /\ oci.versions[ops[proc[p].op].version] # proc[p].fp
    BY <1>7, <2>1 DEF RowInv
  <2> QED BY <1>3, <1>5, <1>6, <1>7, <2>2 DEF RowInv, PromotionSteps
<1>9. SeenInv(p)' /\ PromoteInv(p)'
  BY <1>3, <1>5, <1>7 DEF SeenInv, SeenCurrent, PromoteInv
<1>10. DeletionInv(p)'
  <2>1. /\ v \notin oci.deleted
        /\ \A req \in net : req.kind = "delete" /\ req.etag = oci.etag => req.arg # v
    BY <1>6, ProtectedIsKept
  <2> QED BY <1>3, <1>5, <1>7, <2>1 DEF DeletionInv
<1> QED BY <1>4, <1>8, <1>9, <1>10, ReadOn

\* The search before an upload.
LEMMA FindCertificate ==
    ASSUME Known, NEW p \in Process, Find(p) PROVE CertificateInv'
<1>1. /\ proc[p].pc = "find" /\ UNCHANGED <<oci, net, ops, certState>>
      /\ Found(p) \/ Exit(p) \/ Go(p, "upload")
  BY DEF Find, Rejected
<1>2. CASE Found(p)
  BY <1>1, <1>2, FoundCertificate
<1>3. CASE Exit(p)
  BY <1>1, <1>3, ExitKept
<1>4. CASE Go(p, "upload")
  <2>1. PICK leaf, id, v : leaf = proc[p].fp /\ id = proc[p].op /\ v = proc[p].version
    OBVIOUS
  <2>2. /\ proc[p].pc \in SearchSteps /\ proc[p].pc \in StagedSteps /\ proc[p].pc \in PublishSteps
        /\ "upload" \in Labels
        /\ "upload" \notin ReadingSteps \union NamingSteps \union PromotionSteps
               \union {"pendingVerified", "promote", "reconciled", "retentionNext", "schedule"}
               \union RecordedSteps \union ConfirmedSteps \union RestoredSteps
               \union PromotableSteps
    BY <1>1 DEF Labels, SearchSteps, StagedSteps, VersionSteps, PublishSteps, ReadingSteps,
                NamingSteps, PromotionSteps, RecordedSteps, ConfirmedSteps, RestoredSteps,
                PromotableSteps
  <2>3. /\ id \in Active(ops') /\ ops'[id].version \in DOMAIN oci.versions
        /\ oci.versions[ops'[id].version] # leaf
    BY <1>1, <2>1, <2>2 DEF Known, CertificateInv, WorkInv, RowInv
  <2>4. WorkInv(p)'
    BY <1>1, <1>4, <2>1, <2>2, <2>3, WorkKept
  <2>5. GlobalInv' /\ Become(p, Moved(p, "upload"))
    BY <1>1, <1>4, <2>2, GlobalKept, Went DEF Known, CertificateInv, GlobalInv
  <2> QED BY <1>1, <2>4, <2>5, AloneAtWork DEF Known
<1> QED BY <1>1, <1>2, <1>3, <1>4

\* The search after it.
LEMMA FindUploadedCertificate ==
    ASSUME Known, NEW p \in Process, FindUploaded(p) PROVE CertificateInv'
<1>1. /\ proc[p].pc = "findUploaded" /\ UNCHANGED <<oci, net, ops, certState>>
      /\ Found(p) \/ Exit(p)
  BY DEF FindUploaded, Rejected
<1>2. CASE Found(p)
  BY <1>1, <1>2, FoundCertificate
<1>3. CASE Exit(p)
  BY <1>1, <1>3, ExitKept
<1> QED BY <1>1, <1>2, <1>3

\* The etag of a promotion is read together with CURRENT, which is older.
LEMMA RefreshCertificate ==
    ASSUME Known, NEW p \in Process, Refresh(p) PROVE CertificateInv'
<1> DEFINE e == oci.etag
           r == [proc[p] EXCEPT !.pc = "promote", !.etag = e]
<1>1. /\ proc[p].pc = "refresh" /\ UNCHANGED <<oci, net, ops, certState>>
      /\ \/ Go(p, "confirm")
         \/ oci.current # proc[p].version /\ Become(p, r)
  BY DEF Refresh
<1>2. /\ proc[p].pc \in PublishSteps /\ proc[p].pc \in PromotionSteps
      /\ proc[p].pc \in NamingSteps /\ proc[p].pc \in StagedSteps
      /\ proc[p].pc \in PromotableSteps /\ proc[p].pc \in VersionSteps
      /\ "confirm" \in Labels
      /\ "confirm" \notin PromotableSteps \union {"promote", "reconciled", "retentionNext", "schedule"}
      /\ \A m \in {"confirm", "promote"} :
            m \notin ReadingSteps \union SearchSteps \union RecordedSteps
                     \union ConfirmedSteps \union RestoredSteps
  BY <1>1 DEF PublishSteps, PromotionSteps, NamingSteps, StagedSteps, PromotableSteps,
              VersionSteps, Labels, ReadingSteps, SearchSteps, RecordedSteps, ConfirmedSteps,
              RestoredSteps
<1>3. /\ proc[p].op \in Active(ops) /\ ops[proc[p].op].version = proc[p].version
      /\ oci.versions[proc[p].version] = proc[p].fp
  BY <1>2 DEF Known, CertificateInv, WorkInv, RowInv
<1>4. CASE Go(p, "confirm")
  <2>1. PICK leaf, id, v : leaf = proc[p].fp /\ id = proc[p].op /\ v = proc[p].version
    OBVIOUS
  <2>2. id \in Active(ops') /\ ops'[id].version = v /\ oci.versions[v] = leaf
    BY <1>1, <1>3, <2>1
  <2>3. WorkInv(p)'
    BY <1>1, <1>2, <1>4, <2>1, <2>2, WorkKept
  <2>4. GlobalInv' /\ Become(p, Moved(p, "confirm"))
    BY <1>1, <1>2, <1>4, GlobalKept, Went DEF Known, CertificateInv, GlobalInv
  <2> QED BY <1>1, <2>3, <2>4, AloneAtWork DEF Known
<1>5. CASE oci.current # proc[p].version /\ Become(p, r)
  <2>1. proc[p] \in ProcessState
    BY Worker DEF Known
  <2>2. /\ r.pc = "promote" /\ r.op = proc[p].op /\ r.fp = proc[p].fp
        /\ r.version = proc[p].version
    BY <2>1 DEF ProcessState
  <2> HIDE DEF r
  <2>3. proc'[p] = r
    BY <1>5 DEF Known, Inv, TypeInv, TypeOK, Become
  <2>4. oci.versions[oci.current] < oci.versions[proc[p].version]
    <3>1. proc[p].version \in DOMAIN oci.versions /\ proc[p].fp = local
      BY <1>2, OwnRowFacts
    <3>2. /\ oci.current \in DOMAIN oci.versions /\ local \in Nat
          /\ oci.versions[oci.current] \in Nat /\ oci.versions[oci.current] <= local
          /\ oci.versions[oci.current] # oci.versions[proc[p].version]
      BY <1>5, <3>1, CertificateFacts DEF Known
    <3> QED BY <1>3, <3>1, <3>2
  <2>5. RowInv(p)'
    BY <1>1, <1>2, <1>3, <2>2, <2>3 DEF RowInv
  <2>6. SeenInv(p)' /\ PromoteInv(p)'
    BY <1>1, <1>2, <2>2, <2>3, <2>4 DEF SeenInv, SeenCurrent, PromoteInv
  <2>7. DeletionInv(p)'
    <3>1. DeletionInv(p)
      BY DEF Known, CertificateInv, WorkInv
    <3> QED BY <1>1, <1>2, <2>2, <2>3, <3>1 DEF DeletionInv
  <2> QED BY <1>1, <1>5, <2>5, <2>6, <2>7, ReadOn
<1> QED BY <1>1, <1>4, <1>5

\* CURRENT carries the leaf: it is the version the row names.
LEMMA ConfirmCertificate ==
    ASSUME Known, NEW p \in Process, Confirm(p) PROVE CertificateInv'
<1> DEFINE v == oci.served
           r == [proc[p] EXCEPT !.pc = "currentConfirmed", !.version = v]
<1>1. /\ proc[p].pc = "confirm" /\ UNCHANGED <<oci, net, ops, certState>>
      /\ \/ oci.versions[v] = proc[p].fp /\ Become(p, r)
         \/ Exit(p)
  BY DEF Confirm
<1>2. v = oci.current /\ v \in Protected(oci)
  BY DEF Known, CertificateInv, StageInv, Protected
<1> HIDE DEF v
<1>3. CASE Exit(p)
  BY <1>1, <1>3, ExitKept
<1>4. CASE oci.versions[v] = proc[p].fp /\ Become(p, r)
  <2>1. proc[p] \in ProcessState
    BY Worker DEF Known
  <2>2. r.pc = "currentConfirmed" /\ r.op = proc[p].op /\ r.version = v /\ r.fp = proc[p].fp
    BY <2>1 DEF ProcessState
  <2> HIDE DEF r
  <2>3. proc'[p] = r
    BY <1>4 DEF Known, Inv, TypeInv, TypeOK, Become
  <2>4. /\ proc[p].pc \in PromotionSteps /\ proc[p].pc \in PublishSteps
        /\ proc[p].pc \in NamingSteps /\ proc[p].pc \in VersionSteps
        /\ "currentConfirmed" \notin ReadingSteps \union SearchSteps \union PromotionSteps
               \union {"pendingVerified", "promote", "retentionNext", "schedule"}
               \union RecordedSteps \union RestoredSteps \union PromotableSteps
    BY <1>1 DEF PromotionSteps, PublishSteps, NamingSteps, VersionSteps, ReadingSteps,
                SearchSteps, RecordedSteps, RestoredSteps, PromotableSteps
  <2>5. /\ proc[p].op \in Active(ops) /\ ops[proc[p].op].version = proc[p].version
        /\ oci.versions[proc[p].version] = proc[p].fp
    BY <2>4 DEF Known, CertificateInv, WorkInv, RowInv
  <2>6. proc[p].version = v
    BY <1>2, <1>4, <2>4, <2>5, OwnRowFacts, CertificateFacts DEF Known
  <2>7. RowInv(p)'
    BY <1>1, <2>2, <2>3, <2>4, <2>5, <2>6 DEF RowInv
  <2>8. SeenInv(p)'
    <3>1. proc'[p].version = oci.current /\ oci.versions[oci.current] = proc'[p].fp
      BY <1>2, <1>4, <2>2, <2>3
    <3> QED BY <1>1, <3>1, CurrentRead
  <2>9. PromoteInv(p)' /\ DeletionInv(p)'
    <3>1. \A req \in net : req.kind = "delete" /\ req.etag = oci.etag => req.arg # v
      BY <1>2, ProtectedIsKept
    <3> QED BY <1>1, <2>2, <2>3, <2>4, <3>1 DEF PromoteInv, DeletionInv
  <2> QED BY <1>1, <1>4, <2>7, <2>8, <2>9, ReadOn
<1> QED BY <1>1, <1>3, <1>4

\* The row is marked confirmed.
LEMMA CurrentConfirmedCertificate ==
    ASSUME Known, NEW p \in Process, CurrentConfirmed(p) PROVE CertificateInv'
<1>1. LogStep(p, "currentConfirmed", "OCI_CURRENT_CONFIRMED", proc[p].version, "record")
  BY DEF CurrentConfirmed
<1>2. proc[p].pc = "currentConfirmed"
  BY <1>1 DEF LogStep
<1>3. /\ "currentConfirmed" \in PublishSteps /\ "currentConfirmed" \in VersionSteps
      /\ "currentConfirmed" \in StagedSteps /\ "currentConfirmed" \in NamingSteps
      /\ "currentConfirmed" \in ConfirmedSteps
      /\ "OCI_CURRENT_CONFIRMED" \in OperationState \ TerminalStates
      /\ "record" \in Labels
      /\ "record" \notin ReadingSteps \union SearchSteps \union PromotionSteps
             \union {"pendingVerified", "promote", "retentionNext", "schedule"}
             \union RecordedSteps \union RestoredSteps \union PromotableSteps
  BY DEF PublishSteps, StagedSteps, VersionSteps, ReadingSteps, OperationState, TerminalStates,
         Labels, SearchSteps, NamingSteps, PromotionSteps, RecordedSteps, ConfirmedSteps,
         RestoredSteps, PromotableSteps
<1>4. ops[proc[p].op].version = proc[p].version
  BY <1>2, <1>3 DEF Known, CertificateInv, WorkInv, RowInv
<1>5. SeenCurrent(p) /\ proc[p].version \in DOMAIN oci.versions
  BY <1>2, <1>3, OwnRowFacts DEF SeenCurrent
<1>6. proc[p].version # Null
  BY <1>5, CertificateFacts DEF Known, Null
<1> QED BY <1>1, <1>3, <1>4, <1>5, <1>6, LoggedOn

-----------------------------------------------------------------------------
(***************************************************************************)
(* _complete.                                                              *)
(***************************************************************************)

\* What is recorded may change while an open row announces CURRENT.
LEMMA RecordedGlobal ==
    ASSUME Known, UNCHANGED <<oci, net, ops>>,
           oci.current = certState'.version \/ CurrentBacked(Null)
    PROVE  GlobalInv'
<1>1. LeafRows /\ RequestInv /\ StageInv
  BY DEF Known, CertificateInv
<1>2. LeafRows' /\ RequestInv'
  BY <1>1 DEF LeafRows, RequestInv, Grounded, Remembered, Backed, Backs, Spared, Disposable,
              Referenced
<1>3. StageInv'
  BY <1>1 DEF StageInv, DeletionIsSafe, PendingIsRemembered, CurrentBacked, Backs, Spared
<1> QED BY <1>2, <1>3 DEF GlobalInv

\* After the confirmation, a step that keeps the process's row open.
LEMMA ConfirmedWork ==
    ASSUME Known, UNCHANGED <<oci, net>>, NEW p \in Process, proc[p].pc \in ConfirmedSteps,
           NEW leaf, leaf = proc[p].fp,
           NEW label \in {"closeReconciled", "recordRenewal", "complete"}, Go(p, label),
           proc[p].op \in Active(ops'), ops'[proc[p].op].version = proc[p].version,
           certState'.version = proc[p].version,
           \A w \in DOMAIN oci.versions : Backed(w, leaf) => Backed(w, leaf)',
           CurrentBacked(leaf) => CurrentBacked(leaf)', GlobalInv'
    PROVE  CertificateInv'
<1>1. PICK id, v : id = proc[p].op /\ v = proc[p].version
  OBVIOUS
<1>2. SeenCurrent(p) /\ id \in Active(ops') /\ ops'[id].version = v /\ certState'.version = v
  BY <1>1 DEF SeenCurrent
<1>3. /\ proc[p].pc \in StagedSteps /\ label \in Labels /\ proc[p].pc # "idle"
      /\ label \notin ReadingSteps \union SearchSteps \union PromotionSteps
             \union {"pendingVerified", "promote", "reconciled", "retentionNext", "schedule"}
             \union RestoredSteps \union PromotableSteps
  BY DEF ConfirmedSteps, StagedSteps, VersionSteps, PublishSteps, Labels, ReadingSteps,
         SearchSteps, PromotionSteps, RestoredSteps, PromotableSteps
<1>4. WorkInv(p)'
  BY <1>1, <1>2, <1>3, WorkKept
<1>5. Become(p, Moved(p, label))
  BY <1>3, Went DEF Known
<1> QED BY <1>3, <1>4, <1>5, AloneAtWork DEF Known

\* The row of a process past the confirmation names what it confirmed.
LEMMA ConfirmedRow ==
    ASSUME Known, NEW p \in Process, proc[p].pc \in ConfirmedSteps
    PROVE  /\ proc[p].pc \in PublishSteps /\ proc[p].op \in Active(ops)
           /\ ops[proc[p].op].version = proc[p].version
           /\ oci.current = proc[p].version \/ CurrentBacked(proc[p].fp)
           /\ proc[p].pc \in RecordedSteps => certState.version = proc[p].version
<1>1. proc[p].pc \in PublishSteps /\ proc[p].pc \in NamingSteps
  BY DEF ConfirmedSteps, PublishSteps, NamingSteps
<1> QED BY <1>1 DEF Known, CertificateInv, WorkInv, RowInv, SeenInv, SeenCurrent

\* What was CURRENT when it was confirmed is recorded.
LEMMA RecordCertificate ==
    ASSUME Known, NEW p \in Process, Record(p) PROVE CertificateInv'
<1> DEFINE leaf == oci.versions[proc[p].version]
           v == proc[p].version
<1>1. /\ proc[p].pc = "record" /\ UNCHANGED <<oci, net, ops>> /\ Go(p, "closeReconciled")
      /\ certState' = RecordPublicationSuccess(certState, proc[p].fp, leaf, v)
  BY DEF Record
<1>2. certState \in CertificateState
  BY Worker DEF Known
<1> HIDE DEF leaf, v
<1>3. certState'.version = v
  BY <1>1, <1>2 DEF RecordPublicationSuccess, CertificateState
<1>4. proc[p].pc \in ConfirmedSteps
  BY <1>1 DEF ConfirmedSteps
<1>5. /\ proc[p].op \in Active(ops) /\ ops[proc[p].op].version = v
      /\ oci.current = v \/ CurrentBacked(proc[p].fp)
  BY <1>4, ConfirmedRow DEF v
<1>6. oci.current = v \/ CurrentBacked(Null)
  BY <1>5 DEF CurrentBacked, Spared
<1>7. GlobalInv'
  BY <1>1, <1>3, <1>6, RecordedGlobal
<1>8. PICK f : f = proc[p].fp
  OBVIOUS
<1>9. /\ \A w : Backed(w, f) => Backed(w, f)'
      /\ CurrentBacked(f) => CurrentBacked(f)'
  BY <1>1 DEF Backed, CurrentBacked, Backs, Spared
<1>10. /\ proc[p].op \in Active(ops') /\ ops'[proc[p].op].version = proc[p].version
       /\ certState'.version = proc[p].version
  BY <1>1, <1>3, <1>5 DEF v
<1> QED BY <1>1, <1>4, <1>7, <1>8, <1>9, <1>10, ConfirmedWork

\* The renewal is recorded.
LEMMA RecordRenewalCertificate ==
    ASSUME Known, NEW p \in Process, RecordRenewal(p) PROVE CertificateInv'
<1>1. /\ proc[p].pc = "recordRenewal" /\ UNCHANGED <<oci, net, ops>> /\ Go(p, "complete")
      /\ certState' = [certState EXCEPT !.renewed = TRUE]
  BY DEF RecordRenewal, RecordRenewalSuccess
<1>2. certState \in CertificateState
  BY Worker DEF Known
<1>3. certState'.version = certState.version
  BY <1>1, <1>2 DEF CertificateState
<1>4. proc[p].pc \in ConfirmedSteps /\ proc[p].pc \in RecordedSteps
  BY <1>1 DEF ConfirmedSteps, RecordedSteps
<1>5. /\ proc[p].op \in Active(ops) /\ ops[proc[p].op].version = proc[p].version
      /\ certState.version = proc[p].version
  BY <1>4, ConfirmedRow
<1>6. GlobalInv'
  BY <1>1, <1>3, GlobalKept DEF Known, CertificateInv, GlobalInv
<1>7. PICK f : f = proc[p].fp
  OBVIOUS
<1>8. /\ \A w : Backed(w, f) => Backed(w, f)'
      /\ CurrentBacked(f) => CurrentBacked(f)'
  BY <1>1 DEF Backed, CurrentBacked, Backs, Spared
<1>9. /\ proc[p].op \in Active(ops') /\ ops'[proc[p].op].version = proc[p].version
      /\ certState'.version = proc[p].version
  BY <1>1, <1>3, <1>5
<1> QED BY <1>1, <1>4, <1>6, <1>7, <1>8, <1>9, ConfirmedWork

\* The other rows of the leaf are closed: none of them announces CURRENT.
LEMMA CloseReconciledCertificate ==
    ASSUME Known, NEW p \in Process, CloseReconciled(p) PROVE CertificateInv'
<1> DEFINE next == IF proc[p].cmd = "RENEW" THEN "recordRenewal" ELSE "complete"
<1>1. PICK leaf, id, v : leaf = proc[p].fp /\ id = proc[p].op /\ v = proc[p].version
  OBVIOUS
<1>2. /\ proc[p].pc = "closeReconciled" /\ UNCHANGED <<oci, net, certState>> /\ Go(p, next)
      /\ ops' = CompleteReconciledOperations(ops, id, leaf, v)
  BY <1>1 DEF CloseReconciled
<1>3. next \in {"closeReconciled", "recordRenewal", "complete"}
  OBVIOUS
<1> HIDE DEF next
<1>4. proc[p].pc \in ConfirmedSteps /\ proc[p].pc \in RecordedSteps
  BY <1>2 DEF ConfirmedSteps, RecordedSteps
<1>5. /\ id \in Active(ops) /\ ops[id].version = v /\ certState.version = v
      /\ proc[p].pc \in PublishSteps
  BY <1>1, <1>4, ConfirmedRow
<1>6. ops \in Seq(Operation) /\ LeafRows /\ leaf \in Nat \ {0} /\ v \in Nat
  BY <1>1, <1>5, OwnRowFacts
<1>7. Keeps(ops, ops') /\ DOMAIN ops' = DOMAIN ops
  <2>1. leaf \in Nat
    BY <1>6
  <2>2. Keeps(ops, ops') /\ Len(ops') = Len(ops)
    BY <1>2, <1>6, <2>1, ReconciledOperationsCompleted
  <2> QED BY <2>2 DEF Keeps
<1>8. ASSUME NEW i \in DOMAIN ops
      PROVE  \/ ops'[i] = ops[i]
             \/ i # id /\ ops[i].fp = leaf /\ i \notin Active(ops')
  <2> DEFINE closed == [ops[i] EXCEPT !.state = "COMPLETED", !.version = v]
  <2>1. ops[i] \in Operation
    BY <1>6
  <2>2. closed.state = "COMPLETED"
    BY <2>1 DEF Operation
  <2>3. ops'[i] = ops[i] \/ (i # id /\ ops[i].fp = leaf /\ ops'[i] = closed)
    BY <1>2, <1>8 DEF CompleteReconciledOperations
  <2>4. closed.state \in TerminalStates
    BY <2>2 DEF TerminalStates
  <2> HIDE DEF closed
  <2> QED BY <2>3, <2>4 DEF Active
<1>9. \A i \in Active(ops) : StaysOpen(i) \/ ~Spared(i, leaf)
  BY <1>6, <1>7, <1>8 DEF StaysOpen, Active, Spared, Null
<1>10. LeafRows'
  BY <1>6, <1>7, <1>8 DEF LeafRows, Keeps, Publishing, Null
<1>11. Referenced' \subseteq Referenced
  BY <1>7, <1>8 DEF Referenced, Active
<1>12. /\ GlobalInv'
       /\ \A w \in DOMAIN oci.versions : Backed(w, leaf) => Backed(w, leaf)'
       /\ CurrentBacked(leaf) => CurrentBacked(leaf)'
  BY <1>1, <1>2, <1>7, <1>9, <1>10, <1>11, LeafClosed
<1>13. id \in Active(ops') /\ ops'[id].version = v /\ certState'.version = v
  BY <1>2, <1>5, <1>7, <1>8 DEF Active
<1> QED BY <1>1, <1>2, <1>3, <1>4, <1>12, <1>13, ConfirmedWork

\* The row of the publication is closed, when CURRENT is recorded or another
\* row announces it.
LEMMA CompleteCertificate ==
    ASSUME Known, NEW p \in Process, Complete(p) PROVE CertificateInv'
<1>1. PICK leaf, id, v : leaf = proc[p].fp /\ id = proc[p].op /\ v = proc[p].version
  OBVIOUS
<1>2. /\ proc[p].pc = "complete" /\ UNCHANGED <<oci, net, certState>>
      /\ ops' = Transition(ops, id, "COMPLETED", v, Null) /\ Go(p, AfterPublication)
  BY <1>1 DEF Complete, LogStep
<1>3. /\ proc[p].pc \in ConfirmedSteps /\ AfterPublication \in Labels
      /\ Unburdened(AfterPublication)
  BY <1>2, NextLabels DEF ConfirmedSteps, Labels, Unburdened, PublishSteps, RollbackSteps
<1>4. id \in Active(ops) /\ ops[id].version = v /\ proc[p].pc \in PublishSteps
  BY <1>1, <1>3, ConfirmedRow
<1>5. /\ ops \in Seq(Operation) /\ LeafRows /\ leaf \in Nat \ {0} /\ v \in Nat
      /\ id \in DOMAIN ops /\ ops[id].fp = leaf /\ ops[id].type # "AUDIT"
  BY <1>1, <1>4, OwnRowFacts
<1>6. "COMPLETED" \in OperationState /\ "COMPLETED" \in TerminalStates
  BY DEF OperationState, TerminalStates
<1>7. /\ Keeps(ops, ops') /\ DOMAIN ops' = DOMAIN ops
      /\ \A i \in DOMAIN ops : i # id => ops'[i] = ops[i]
      /\ ops'[id].state = "COMPLETED"
      /\ ops'[id].type = ops[id].type /\ ops'[id].fp = ops[id].fp
  BY <1>2, <1>5, <1>6, Transitioned
<1>8. \A i \in Active(ops) : StaysOpen(i) \/ ~Spared(i, leaf)
  BY <1>5, <1>7 DEF StaysOpen, Active, Spared, Null
<1>9. LeafRows'
  BY <1>5, <1>7 DEF LeafRows
<1>10. Referenced' \subseteq Referenced
  BY <1>6, <1>7 DEF Referenced, Active
<1>11. GlobalInv'
  BY <1>1, <1>2, <1>7, <1>8, <1>9, <1>10, LeafClosed
<1>12. Become(p, Moved(p, AfterPublication)) /\ Unburdened(proc'[p].pc)
  BY <1>2, <1>3, Went DEF Known
<1>13. WorkInv(p)'
  BY <1>12, FreeWork
<1> QED BY <1>2, <1>11, <1>12, <1>13, AloneAtWork DEF Known

\* Every step of PublicationReconciler.publish preserves CertificateInv.
LEMMA ReconcileCertificate ==
    ASSUME Known, ~Lag, NEW p \in Process, Reconcile(p) PROVE CertificateInv'
BY RenewCertificate, StartCertificate, GetCertificateCertificate, GetCurrentCertificate,
   ReconciledCertificate, FindCertificate, UploadCertificate, PendingUploadedCertificate,
   FindUploadedCertificate, PendingVerifiedCertificate, RefreshCertificate,
   PromoteCertificate, ConfirmCertificate, CurrentConfirmedCertificate, RecordCertificate,
   CloseReconciledCertificate, RecordRenewalCertificate, CompleteCertificate
   DEF Reconcile

-----------------------------------------------------------------------------
(***************************************************************************)
(* The steps of a rollback.                                                *)
(***************************************************************************)

\* A row is inserted, and nothing more is asked of the process than that.
LEMMA RollbackStartCertificate ==
    ASSUME Known, NEW p \in Process, RollbackStart(p) PROVE CertificateInv'
<1> DEFINE r == [proc[p] EXCEPT !.pc = "previousVersion", !.op = Len(ops) + 1,
                                !.now = expired]
<1>1. /\ proc[p].pc = "rollbackStart" /\ UNCHANGED <<oci, net, certState>>
      /\ ops' = StartOperation(ops, "ROLLBACK", Null, Ocid) /\ Become(p, r)
  BY DEF RollbackStart
<1>2. proc[p] \in ProcessState
  BY Worker DEF Known
<1>3. r.pc = "previousVersion" /\ r.op = Len(ops) + 1
  BY <1>2 DEF ProcessState
<1> HIDE DEF r
<1>4. proc'[p] = r
  BY <1>1 DEF Known, Inv, TypeInv, TypeOK, Become
<1>5. "ROLLBACK" \in OperationType /\ Null \in Nat
  BY DEF OperationType, Null
<1>6. GlobalInv' /\ Len(ops) + 1 \in Active(ops') /\ ops'[Len(ops) + 1].version = Null
  BY <1>1, <1>5, RowInserted
<1>7. "previousVersion" \notin SearchSteps \union NamingSteps \union PromotionSteps
          \union {"pendingVerified", "promote", "reconciled", "retentionNext", "schedule"}
          \union RecordedSteps \union ConfirmedSteps \union RestoredSteps \union StagedSteps
          \union PromotableSteps
  BY DEF SearchSteps, NamingSteps, PromotionSteps, RecordedSteps, ConfirmedSteps,
         RestoredSteps, StagedSteps, VersionSteps, PublishSteps, RollbackSteps, PromotableSteps
<1>8. RowInv(p)'
  BY <1>3, <1>4, <1>6, <1>7 DEF RowInv
<1>9. SeenInv(p)' /\ PromoteInv(p)' /\ DeletionInv(p)'
  BY <1>3, <1>4, <1>7 DEF SeenInv, SeenCurrent, PromoteInv, DeletionInv
<1>10. WorkInv(p)'
  BY <1>8, <1>9 DEF WorkInv
<1> QED BY <1>1, <1>6, <1>10, AloneAtWork DEF Known

\* The previous version is not scheduled for deletion.
LEMMA PreviousVersionCertificate ==
    ASSUME Known, NEW p \in Process, PreviousVersion(p) PROVE CertificateInv'
<1>1. /\ proc[p].pc = "previousVersion" /\ UNCHANGED <<oci, net, ops, certState>>
      /\ \/ Exit(p)
         \/ \E v \in Restorable(p) :
               Become(p, [proc[p] EXCEPT !.pc = "rollbackEtag", !.version = v,
                                         !.fp = oci.versions[v]])
  BY DEF PreviousVersion
<1>2. CASE Exit(p)
  BY <1>1, <1>2, ExitKept
<1>3. ASSUME NEW v \in Restorable(p),
             Become(p, [proc[p] EXCEPT !.pc = "rollbackEtag", !.version = v,
                                       !.fp = oci.versions[v]])
      PROVE  CertificateInv'
  <2> DEFINE f == oci.versions[v]
             r == [proc[p] EXCEPT !.pc = "rollbackEtag", !.version = v, !.fp = f]
  <2>1. Become(p, r) /\ proc[p] \in ProcessState
    BY <1>3, Worker DEF Known
  <2> HIDE DEF f
  <2>2. r.pc = "rollbackEtag" /\ r.op = proc[p].op /\ r.version = v
    BY <2>1 DEF ProcessState
  <2> HIDE DEF r
  <2>3. proc'[p] = r
    BY <2>1 DEF Known, Inv, TypeInv, TypeOK, Become
  <2>4. v \in Protected(oci) /\ v \notin oci.deleted
    BY DEF Restorable, Protected
  <2>5. \A req \in net : req.kind = "delete" /\ req.etag = oci.etag => req.arg # v
    BY <2>4, ProtectedIsKept
  <2>6. /\ proc[p].pc \in RollbackSteps /\ proc[p].pc \in ReadingSteps
        /\ r.pc \in ReadingSteps
        /\ r.pc \notin ConfirmedSteps \union {"reconciled", "retentionNext", "schedule"}
    BY <1>1, <2>2 DEF RollbackSteps, ReadingSteps, ConfirmedSteps
  <2>7. SeenInv(p)' /\ DeletionInv(p)'
    BY <1>1, <2>2, <2>3, <2>4, <2>5, <2>6 DEF SeenInv, SeenCurrent, DeletionInv
  <2> QED BY <1>1, <2>1, <2>2, <2>6, <2>7, ReadWork
<1> QED BY <1>1, <1>2, <1>3

\* The etag of the rollback is read after the version.
LEMMA RollbackEtagCertificate ==
    ASSUME Known, NEW p \in Process, RollbackEtag(p) PROVE CertificateInv'
<1> DEFINE e == oci.etag
           r == [proc[p] EXCEPT !.pc = "rollbackReconciled", !.etag = e]
<1>1. /\ proc[p].pc = "rollbackEtag" /\ UNCHANGED <<oci, net, ops, certState>>
      /\ Become(p, r)
  BY DEF RollbackEtag
<1> HIDE DEF e
<1>2. proc[p] \in ProcessState
  BY Worker DEF Known
<1>3. r.pc = "rollbackReconciled" /\ r.op = proc[p].op /\ r.version = proc[p].version
  BY <1>2 DEF ProcessState
<1> HIDE DEF r
<1>4. proc'[p] = r
  BY <1>1 DEF Known, Inv, TypeInv, TypeOK, Become
<1>5. /\ proc[p].pc \in RollbackSteps /\ proc[p].pc \in ReadingSteps
      /\ proc[p].pc \in StagedSteps /\ proc[p].pc \in PromotableSteps
      /\ r.pc \in ReadingSteps
      /\ r.pc \notin ConfirmedSteps \union {"reconciled", "retentionNext", "schedule"}
  BY <1>1, <1>3 DEF RollbackSteps, ReadingSteps, ConfirmedSteps, StagedSteps, VersionSteps,
                    PromotableSteps
<1>6. DeletionInv(p)
  BY DEF Known, CertificateInv, WorkInv
<1>7. SeenInv(p)' /\ DeletionInv(p)'
  BY <1>1, <1>3, <1>4, <1>5, <1>6 DEF SeenInv, SeenCurrent, DeletionInv
<1> QED BY <1>1, <1>3, <1>5, <1>7, ReadWork

\* The row names the version to be restored.
LEMMA RollbackReconciledCertificate ==
    ASSUME Known, NEW p \in Process, RollbackReconciled(p) PROVE CertificateInv'
<1>1. LogStep(p, "rollbackReconciled", "OCI_RECONCILED", proc[p].version, "restore")
  BY DEF RollbackReconciled
<1>2. proc[p].pc = "rollbackReconciled"
  BY <1>1 DEF LogStep
<1>3. /\ "rollbackReconciled" \in RollbackSteps /\ "rollbackReconciled" \in VersionSteps
      /\ "rollbackReconciled" \in StagedSteps /\ "rollbackReconciled" \in ReadingSteps
      /\ "rollbackReconciled" \in PromotableSteps
      /\ "OCI_RECONCILED" \in OperationState \ TerminalStates
      /\ "restore" \in Labels
      /\ "restore" \notin ReadingSteps \union {"promote", "retentionNext", "schedule"}
             \union SearchSteps \union PromotionSteps \union {"pendingVerified"}
             \union RecordedSteps \union ConfirmedSteps \union RestoredSteps
  BY DEF RollbackSteps, StagedSteps, VersionSteps, ReadingSteps, OperationState, TerminalStates,
         Labels, SearchSteps, PromotionSteps, RecordedSteps, ConfirmedSteps, RestoredSteps,
         PromotableSteps
<1>4. ops[proc[p].op].version = Null /\ proc[p].version \in DOMAIN oci.versions
  BY <1>2, <1>3, OwnRowFacts DEF Known, CertificateInv, WorkInv, RowInv
<1>5. \A w \in DOMAIN oci.versions : ~Backs(proc[p].op, w)
  BY <1>4, UnnamedBacksNothing
<1>6. proc[p].version # Null
  BY <1>4, CertificateFacts DEF Known, Null
<1> QED BY <1>1, <1>3, <1>5, <1>6, LoggedOn

\* What the invariant says of a process that has restored a version.
LEMMA RestoredFacts ==
    ASSUME Known, NEW p \in Process, proc[p].pc \in RestoredSteps
    PROVE  /\ proc[p].pc \in RollbackSteps /\ proc[p].pc # "idle"
           /\ proc[p].pc \in StagedSteps /\ proc[p].pc \in VersionSteps
           /\ proc[p].op \in Active(ops) /\ ops[proc[p].op].version = proc[p].version
           /\ Quiet /\ oci.current = proc[p].version
           /\ proc[p].version \in DOMAIN oci.versions /\ proc[p].version # Null
           /\ proc[p].pc \in RecordedSteps => certState.version = proc[p].version
<1>1. /\ proc[p].pc \in RollbackSteps /\ proc[p].pc \in NamingSteps /\ proc[p].pc # "idle"
      /\ proc[p].pc \in StagedSteps /\ proc[p].pc \in VersionSteps
  BY DEF RestoredSteps, RollbackSteps, NamingSteps, StagedSteps, VersionSteps
<1>2. RowInv(p) /\ PromoteInv(p)
  BY DEF Known, CertificateInv, WorkInv
<1>3. /\ proc[p].op \in Active(ops) /\ ops[proc[p].op].version = proc[p].version
      /\ Quiet /\ oci.current = proc[p].version
      /\ proc[p].pc \in RecordedSteps => certState.version = proc[p].version
  BY <1>1, <1>2 DEF RowInv, PromoteInv
<1>4. proc[p].version \in DOMAIN oci.versions /\ proc[p].version # Null
  BY <1>1, OwnRowFacts, CertificateFacts DEF Known, Null
<1> QED BY <1>1, <1>3, <1>4

\* Steps between them, and what is not asked there.
LEMMA RestoredLabels ==
    ASSUME NEW label \in RestoredSteps
    PROVE  /\ label \in Labels
           /\ label \notin ReadingSteps \union SearchSteps \union PromotionSteps
                  \union {"pendingVerified", "promote", "reconciled", "retentionNext", "schedule"}
                  \union ConfirmedSteps \union PromotableSteps
BY DEF RestoredSteps, Labels, ReadingSteps, SearchSteps, PromotionSteps, ConfirmedSteps,
       PromotableSteps

\* Such a step that leaves the row open.
LEMMA RestoredWork ==
    ASSUME Known, NEW p \in Process, proc[p].pc \in RestoredSteps, UNCHANGED <<oci, net, ops>>,
           NEW label \in RestoredSteps, Go(p, label),
           label \in RecordedSteps => certState'.version = proc[p].version,
           oci.current = certState'.version \/ CurrentBacked(Null)
    PROVE  CertificateInv'
<1>1. PICK leaf, id, v : leaf = proc[p].fp /\ id = proc[p].op /\ v = proc[p].version
  OBVIOUS
<1>2. /\ id \in Active(ops') /\ ops'[id].version = v /\ proc[p].pc # "idle"
      /\ proc[p].pc \in StagedSteps
  BY <1>1, RestoredFacts
<1>3. WorkInv(p)'
  BY <1>1, <1>2, RestoredLabels, WorkKept
<1>4. GlobalInv' /\ Become(p, Moved(p, label))
  BY RecordedGlobal, RestoredLabels, Went DEF Known
<1> QED BY <1>2, <1>3, <1>4, AloneAtWork DEF Known

\* Such a step that moves the row to another open state.
LEMMA RestoredLog ==
    ASSUME Known, NEW p \in Process, NEW label \in RestoredSteps, NEW next \in RestoredSteps,
           NEW state \in {"OCI_CURRENT_CONFIRMED", "AUDIT_PENDING", "AUDIT_SUCCESS"},
           NEW version \in {Null, proc[p].version}, LogStep(p, label, state, version, next),
           next \in RecordedSteps => label \in RecordedSteps
    PROVE  CertificateInv'
<1>1. proc[p].pc = label
  BY DEF LogStep
<1>2. /\ label \in PublishSteps \union RollbackSteps /\ label \in StagedSteps
      /\ ops[proc[p].op].version = proc[p].version
      /\ next \in RecordedSteps => certState.version = proc[p].version
  BY <1>1, RestoredFacts
<1>3. state \in OperationState \ TerminalStates
  BY DEF OperationState, TerminalStates
<1> QED BY <1>2, <1>3, RestoredLabels, LoggedOn

\* The read after the promotion, and what follows it, one by one.
LEMMA RestoredCertificate ==
    ASSUME Known, NEW p \in Process,
           \/ RollbackConfirm(p) \/ RollbackConfirmed(p) \/ RecordRollback(p)
           \/ RollbackAuditPending(p)
    PROVE  CertificateInv'
<1>1. oci.current = certState.version \/ CurrentBacked(Null)
  BY DEF Known, CertificateInv, StageInv
<1>2. CASE RollbackConfirm(p)
  <2>1. /\ proc[p].pc = "rollbackConfirm" /\ UNCHANGED <<oci, net, ops, certState>>
        /\ Exit(p) \/ Go(p, "rollbackConfirmed")
    BY <1>2 DEF RollbackConfirm
  <2>2. CASE Exit(p)
    BY <2>1, <2>2, ExitKept
  <2>3. CASE Go(p, "rollbackConfirmed")
    <3>1. /\ proc[p].pc \in RestoredSteps /\ "rollbackConfirmed" \in RestoredSteps
          /\ "rollbackConfirmed" \notin RecordedSteps
      BY <2>1 DEF RestoredSteps, RecordedSteps
    <3>2. oci.current = certState'.version \/ CurrentBacked(Null)
      BY <1>1, <2>1
    <3> QED BY <2>1, <2>3, <3>1, <3>2, RestoredWork
  <2> QED BY <2>1, <2>2, <2>3
<1>3. CASE RollbackConfirmed(p)
  <2>1. /\ "rollbackConfirmed" \in RestoredSteps /\ "recordRollback" \in RestoredSteps
        /\ "recordRollback" \notin RecordedSteps
    BY DEF RestoredSteps, RecordedSteps
  <2>2. LogStep(p, "rollbackConfirmed", "OCI_CURRENT_CONFIRMED", proc[p].version,
                "recordRollback")
    BY <1>3 DEF RollbackConfirmed
  <2> QED BY <2>1, <2>2, RestoredLog
<1>4. CASE RecordRollback(p)
  <2> DEFINE f == proc[p].fp
             v == proc[p].version
  <2>1. /\ proc[p].pc = "recordRollback" /\ UNCHANGED <<oci, net, ops>>
        /\ Go(p, "rollbackAuditPending") /\ certState \in CertificateState
        /\ certState' = [certState EXCEPT !.fp = f, !.version = v]
    BY <1>4, Worker DEF RecordRollback, RecordRollbackSuccess, Known
  <2>2. proc[p].pc \in RestoredSteps /\ "rollbackAuditPending" \in RestoredSteps
    BY <2>1 DEF RestoredSteps
  <2> HIDE DEF f, v
  <2>3. certState'.version = v
    BY <2>1 DEF CertificateState
  <2>4. oci.current = v
    BY <2>2, RestoredFacts DEF v
  <2> QED BY <2>1, <2>2, <2>3, <2>4, RestoredWork DEF v
<1>5. CASE RollbackAuditPending(p)
  <2>1. /\ "rollbackAuditPending" \in RestoredSteps /\ "rollbackAudit" \in RestoredSteps
        /\ "rollbackAuditPending" \in RecordedSteps
    BY DEF RestoredSteps, RecordedSteps
  <2>2. LogStep(p, "rollbackAuditPending", "AUDIT_PENDING", Null, "rollbackAudit")
    BY <1>5 DEF RollbackAuditPending
  <2> QED BY <2>1, <2>2, RestoredLog
<1> QED BY <1>2, <1>3, <1>4, <1>5

\* The verdict on a rollback; a failure closes its row, which is recorded.
LEMMA RollbackAuditCertificate ==
    ASSUME Known, NEW p \in Process, RollbackAudit(p) PROVE CertificateInv'
<1>1. /\ proc[p].pc = "rollbackAudit" /\ UNCHANGED <<oci, net, certState>>
      /\ \/ /\ ops' = Transition(ops, proc[p].op, "AUDIT_SUCCESS", Null, Null)
            /\ LogStep(p, "rollbackAudit", "AUDIT_SUCCESS", Null, "rollbackComplete")
         \/ ops' = Transition(ops, proc[p].op, "ROLLBACK_FAILED", Null, Null) /\ Exit(p)
  BY DEF RollbackAudit, LogStep
<1>2. CASE LogStep(p, "rollbackAudit", "AUDIT_SUCCESS", Null, "rollbackComplete")
  <2>1. /\ "rollbackAudit" \in RestoredSteps /\ "rollbackComplete" \in RestoredSteps
        /\ "rollbackAudit" \in RecordedSteps
    BY DEF RestoredSteps, RecordedSteps
  <2> QED BY <1>2, <2>1, RestoredLog
<1>3. CASE ops' = Transition(ops, proc[p].op, "ROLLBACK_FAILED", Null, Null) /\ Exit(p)
  <2>1. "ROLLBACK_FAILED" \in TerminalStates
    BY DEF TerminalStates
  <2>2. GlobalInv'
    BY <1>1, <1>3, <2>1, RollbackClosed
  <2> QED BY <1>1, <1>3, <2>2, ExitFree
<1> QED BY <1>1, <1>2, <1>3

\* The row of the rollback is closed, with CURRENT recorded.
LEMMA RollbackCompleteCertificate ==
    ASSUME Known, NEW p \in Process, RollbackComplete(p) PROVE CertificateInv'
<1> DEFINE next == IF proc[p].cmd = "ROLLBACK" THEN "return" ELSE AfterAudit
<1>1. LogStep(p, "rollbackComplete", "COMPLETED", proc[p].version, next)
  BY Zenon DEF RollbackComplete
<1>2. next \in {"return", "retentionPlan"}
  BY NextLabels
<1> HIDE DEF next
<1>3. /\ proc[p].pc = "rollbackComplete" /\ UNCHANGED <<oci, net, certState>> /\ Go(p, next)
      /\ ops' = Transition(ops, proc[p].op, "COMPLETED", proc[p].version, Null)
  BY <1>1 DEF LogStep
<1>4. /\ next \in Labels /\ Unburdened(next) /\ "COMPLETED" \in TerminalStates
  BY <1>2 DEF Labels, Unburdened, PublishSteps, RollbackSteps, TerminalStates
<1>5. GlobalInv'
  BY <1>3, <1>4, RollbackClosed
<1>6. Become(p, Moved(p, next)) /\ Unburdened(proc'[p].pc)
  BY <1>3, <1>4, Went DEF Known
<1>7. WorkInv(p)'
  BY <1>6, FreeWork
<1> QED BY <1>3, <1>5, <1>6, <1>7, AloneAtWork DEF Known

\* Every step of RollbackService.rollback preserves CertificateInv.
LEMMA RollbackCertificate ==
    ASSUME Known, ~Lag, NEW p \in Process, Rollback(p) PROVE CertificateInv'
BY RollbackStartCertificate, PreviousVersionCertificate, RollbackEtagCertificate,
   RollbackReconciledCertificate, RestoreCertificate, RestoredCertificate,
   RollbackAuditCertificate, RollbackCompleteCertificate DEF Rollback

-----------------------------------------------------------------------------
(***************************************************************************)
(* Audits and retention.                                                   *)
(***************************************************************************)

\* The control points of an audit ask nothing of the process.
LEMMA AuditLabels ==
    ASSUME NEW label \in AuditSteps \union {"auditStart", "rollbackStart", "return",
                                            "retentionPlan"}
    PROVE  Unburdened(label) /\ label \in Labels /\ label # "idle"
BY DEF Unburdened, AuditSteps, PublishSteps, RollbackSteps, Labels

\* A step that moves only rows of audits and leads to such a control point.
LEMMA AuditWork ==
    ASSUME Known, NEW p \in Process, proc[p].pc \in AuditSteps \union {"auditStart"}, NEW r,
           Become(p, r), Unburdened(r.pc), GlobalInv'
    PROVE  CertificateInv'
<1>1. proc'[p] = r
  BY DEF Known, Inv, TypeInv, TypeOK, Become
<1>2. WorkInv(p)'
  BY <1>1, FreeWork
<1> QED BY <1>2, AuditLabels, AloneAtWork DEF Known

\* A transition of the audit's row.
LEMMA AuditLog ==
    ASSUME Known, NEW p \in Process, proc[p].pc \in AuditSteps, UNCHANGED <<oci, net, certState>>,
           NEW state \in OperationState, NEW next \in Labels, Unburdened(next), Go(p, next),
           ops' = Transition(ops, proc[p].op, state, Null, Null)
    PROVE  CertificateInv'
<1>1. OwnRow(p) /\ proc[p] \in ProcessState
  BY Worker DEF Known
<1>2. proc[p].op \in DOMAIN ops /\ ops[proc[p].op].type = "AUDIT"
  BY <1>1 DEF OwnRow
<1>3. GlobalInv'
  BY <1>2, AuditRowMoved
<1> DEFINE r == Moved(p, next)
<1>4. Become(p, r) /\ r.pc = next
  BY <1>1, Went, MovedState DEF Known
<1> HIDE DEF r
<1> QED BY <1>3, <1>4, AuditWork

\* The control points after an audit.
LEMMA AfterAudits ==
    ASSUME NEW p \in Process, AuditMode # "disabled"
    PROVE  AfterFailedAudit(p) \in {"return", "retentionPlan", "rollbackStart"}
<1>1. AuditMode \in {"disabled", "observe", "enforce"}
  BY PublisherAssumption
<1>2. CASE proc[p].cmd = "AUDIT"
  BY <1>2 DEF AfterFailedAudit
<1>3. CASE proc[p].cmd # "AUDIT" /\ AuditMode = "observe"
  BY <1>3, NextLabels DEF AfterFailedAudit
<1>4. CASE proc[p].cmd # "AUDIT" /\ AuditMode = "enforce"
  BY <1>4 DEF AfterFailedAudit
<1> QED BY <1>1, <1>2, <1>3, <1>4

\* Every step of PublicationService.audit preserves CertificateInv.
LEMMA AuditCertificate ==
    ASSUME Known, NEW p \in Process, Audit(p) PROVE CertificateInv'
<1>1. {"AUDIT_PENDING", "AUDIT_SUCCESS", "AUDIT_FAILED", "COMPLETED"} \subseteq OperationState
  BY StateNames
<1>2. /\ {"auditPending", "auditBundle", "audit", "recordAudit", "auditComplete", "closeAudits"}
            \subseteq AuditSteps
      /\ \A l \in AuditSteps \union {"auditStart", "rollbackStart", "return", "retentionPlan"} :
            Unburdened(l) /\ l \in Labels /\ l # "idle"
  BY AuditLabels DEF AuditSteps
<1>3. CASE AuditStart(p)
  <2> DEFINE r == [proc[p] EXCEPT !.pc = "auditPending", !.op = Len(ops) + 1]
  <2>1. /\ proc[p].pc = "auditStart" /\ UNCHANGED <<oci, net, certState>>
        /\ ops' = StartOperation(ops, "AUDIT", Null, Ocid) /\ Become(p, r)
    BY <1>3 DEF AuditStart
  <2>2. "AUDIT" \in OperationType /\ Null \in Nat /\ proc[p] \in ProcessState
    BY Worker DEF OperationType, Null, Known
  <2>3. r.pc = "auditPending"
    BY <2>2 DEF ProcessState
  <2> HIDE DEF r
  <2>4. GlobalInv'
    BY <2>1, <2>2, RowInserted
  <2> QED BY <1>2, <2>1, <2>3, <2>4, AuditWork
<1>4. CASE AuditPending(p)
  <2>1. LogStep(p, "auditPending", "AUDIT_PENDING", Null, "auditBundle")
    BY <1>4 DEF AuditPending
  <2> QED BY <1>1, <1>2, <2>1, AuditLog DEF LogStep
<1>5. CASE AuditBundle(p)
  <2>1. /\ proc[p].pc = "auditBundle" /\ UNCHANGED <<oci, net, ops, certState>>
        /\ Exit(p) \/ Go(p, "audit")
    BY <1>5 DEF AuditBundle
  <2>2. CASE Exit(p)
    BY <1>2, <2>1, <2>2, ExitKept
  <2>3. CASE Go(p, "audit")
    <3> DEFINE r == Moved(p, "audit")
    <3>1. Become(p, r) /\ r.pc = "audit"
      BY <1>2, <2>3, Worker, Went, MovedState DEF Known
    <3> HIDE DEF r
    <3> QED BY <1>2, <2>1, <3>1, FreeStep
  <2> QED BY <2>1, <2>2, <2>3
<1>6. CASE AuditFails(p)
  <2> DEFINE next == AfterFailedAudit(p)
  <2>1. /\ proc[p].pc = "audit" /\ UNCHANGED <<oci, net, certState>> /\ AuditMode # "disabled"
        /\ ops' = Transition(ops, proc[p].op, "AUDIT_FAILED", Null, Null) /\ Go(p, next)
    BY <1>6 DEF AuditFails
  <2>2. next \in {"return", "retentionPlan", "rollbackStart"}
    BY <2>1, AfterAudits
  <2> HIDE DEF next
  <2> QED BY <1>1, <1>2, <2>1, <2>2, AuditLog
<1>7. CASE AuditSucceeds(p)
  <2>1. LogStep(p, "audit", "AUDIT_SUCCESS", Null, "recordAudit")
    BY <1>7 DEF AuditSucceeds
  <2> QED BY <1>1, <1>2, <2>1, AuditLog DEF LogStep
<1>8. CASE RecordAudit(p)
  <2> DEFINE r == Moved(p, "auditComplete")
  <2>1. /\ proc[p].pc = "recordAudit" /\ UNCHANGED <<oci, net, ops>> /\ Go(p, "auditComplete")
        /\ certState' = [certState EXCEPT !.audited = TRUE] /\ certState \in CertificateState
    BY <1>8, Worker DEF RecordAudit, RecordAuditSuccess, Known
  <2>2. certState'.version = certState.version
    BY <2>1 DEF CertificateState
  <2>3. Become(p, r) /\ r.pc = "auditComplete"
    BY <1>2, <2>1, Worker, Went, MovedState DEF Known
  <2> HIDE DEF r
  <2> QED BY <1>2, <2>1, <2>2, <2>3, FreeStep
<1>9. CASE AuditComplete(p)
  <2>1. LogStep(p, "auditComplete", "COMPLETED", Null, "closeAudits")
    BY <1>9 DEF AuditComplete
  <2> QED BY <1>1, <1>2, <2>1, AuditLog DEF LogStep
<1>10. CASE CloseAudits(p)
  <2> DEFINE next == IF proc[p].cmd = "AUDIT" THEN "return" ELSE AfterAudit
             r == Moved(p, next)
  <2>1. /\ proc[p].pc = "closeAudits" /\ UNCHANGED <<oci, net, certState>> /\ Go(p, next)
        /\ ops' = CompleteInterruptedAudits(ops, proc[p].op)
    BY <1>10 DEF CloseAudits
  <2>2. next \in {"return", "retentionPlan"}
    BY NextLabels
  <2> HIDE DEF next
  <2>3. Become(p, r) /\ r.pc = next
    BY <1>2, <2>1, <2>2, Worker, Went, MovedState DEF Known
  <2> HIDE DEF r
  <2>4. GlobalInv'
    BY <2>1, AuditsClosed
  <2> QED BY <1>2, <2>1, <2>2, <2>3, <2>4, AuditWork
<1> QED BY <1>3, <1>4, <1>5, <1>6, <1>7, <1>8, <1>9, <1>10 DEF Audit

\* A deletion is planned for versions that nothing uses.
LEMMA RetentionPlanCertificate ==
    ASSUME Known, NEW p \in Process, RetentionPlan(p) PROVE CertificateInv'
<1>1. proc[p].pc = "retentionPlan" /\ UNCHANGED <<oci, net, ops, certState>>
  BY DEF RetentionPlan
<1>2. PICK oldest \in 0..oci.listed :
         Become(p, [proc[p] EXCEPT !.pc = "retentionNext",
                                   !.plan = IF RetentionEnabled THEN Plan(oldest) ELSE {}])
  BY DEF RetentionPlan
<1> DEFINE plan == IF RetentionEnabled THEN Plan(oldest) ELSE {}
           r == [proc[p] EXCEPT !.pc = "retentionNext", !.plan = plan]
<1>3. Become(p, r) /\ proc[p] \in ProcessState
  BY <1>2, Worker DEF Known
<1>4. \A v \in plan : Disposable(v)
  <2>1. \A v \in Plan(oldest) : /\ v \in 1..oci.listed
                                /\ v \notin Protected(oci) /\ v \notin Referenced
    BY DEF Plan, Eligible, Deprecated
  <2> QED BY <2>1, CertificateFacts DEF Disposable, Known
<1> HIDE DEF plan
<1>5. r.pc = "retentionNext" /\ r.plan = plan
  BY <1>3 DEF ProcessState
<1> HIDE DEF r
<1>6. proc'[p] = r
  BY <1>3 DEF Known, Inv, TypeInv, TypeOK, Become
<1>7. "retentionNext" \notin PublishSteps \union RollbackSteps \union ReadingSteps
          \union SearchSteps \union NamingSteps \union PromotionSteps
          \union {"pendingVerified", "promote", "reconciled", "schedule"} \union RecordedSteps
          \union ConfirmedSteps \union RestoredSteps \union StagedSteps \union PromotableSteps
  BY DEF PublishSteps, RollbackSteps, ReadingSteps, SearchSteps, NamingSteps, PromotionSteps,
         RecordedSteps, ConfirmedSteps, RestoredSteps, StagedSteps, VersionSteps,
         PromotableSteps
<1>8. RowInv(p)' /\ SeenInv(p)' /\ PromoteInv(p)'
  BY <1>5, <1>6, <1>7 DEF RowInv, SeenInv, SeenCurrent, PromoteInv
<1>9. DeletionInv(p)'
  BY <1>1, <1>4, <1>5, <1>6, <1>7 DEF DeletionInv, Disposable, Referenced
<1> QED BY <1>1, <1>3, <1>8, <1>9, ReadOn

\* The next version of the plan.
LEMMA RetentionNextCertificate ==
    ASSUME Known, NEW p \in Process, RetentionNext(p) PROVE CertificateInv'
<1>1. /\ proc[p].pc = "retentionNext" /\ UNCHANGED <<oci, net, ops, certState>>
      /\ \/ Go(p, "return")
         \/ \E v \in proc[p].plan :
               Become(p, [proc[p] EXCEPT !.pc = "schedule", !.version = v, !.etag = oci.etag,
                                         !.plan = proc[p].plan \ {v}])
  BY DEF RetentionNext
<1>2. proc[p] \in ProcessState /\ \A v \in proc[p].plan : Disposable(v)
  BY <1>1, Worker DEF Known, CertificateInv, WorkInv, DeletionInv
<1>3. CASE Go(p, "return")
  <2> DEFINE r == Moved(p, "return")
  <2>1. "return" \in Labels /\ Unburdened("return")
    BY AuditLabels
  <2>2. Become(p, r) /\ r.pc = "return"
    BY <1>2, <1>3, <2>1, Went, MovedState DEF Known
  <2> HIDE DEF r
  <2> QED BY <1>1, <2>1, <2>2, FreeStep
<1>4. ASSUME NEW v \in proc[p].plan,
             Become(p, [proc[p] EXCEPT !.pc = "schedule", !.version = v, !.etag = oci.etag,
                                       !.plan = proc[p].plan \ {v}])
      PROVE  CertificateInv'
  <2> DEFINE e == oci.etag
             s == proc[p].plan \ {v}
             r == [proc[p] EXCEPT !.pc = "schedule", !.version = v, !.etag = e, !.plan = s]
  <2>1. Become(p, r) /\ Disposable(v) /\ \A w \in s : Disposable(w)
    BY <1>2, <1>4
  <2> HIDE DEF e, s
  <2>2. r.pc = "schedule" /\ r.version = v /\ r.plan = s
    BY <1>2 DEF ProcessState
  <2> HIDE DEF r
  <2>3. proc'[p] = r
    BY <2>1 DEF Known, Inv, TypeInv, TypeOK, Become
  <2>4. "schedule" \notin PublishSteps \union RollbackSteps \union ReadingSteps
            \union SearchSteps \union NamingSteps \union PromotionSteps
            \union {"pendingVerified", "promote", "reconciled"} \union RecordedSteps
            \union ConfirmedSteps \union RestoredSteps \union StagedSteps \union PromotableSteps
    BY DEF PublishSteps, RollbackSteps, ReadingSteps, SearchSteps, NamingSteps, PromotionSteps,
           RecordedSteps, ConfirmedSteps, RestoredSteps, StagedSteps, VersionSteps,
           PromotableSteps
  <2>5. RowInv(p)' /\ SeenInv(p)' /\ PromoteInv(p)'
    BY <2>2, <2>3, <2>4 DEF RowInv, SeenInv, SeenCurrent, PromoteInv
  <2>6. DeletionInv(p)'
    <3>1. Disposable(v)' /\ \A w \in s : Disposable(w)'
      BY <1>1, <2>1 DEF Disposable, Referenced
    <3>2. proc'[p].pc = "schedule" /\ proc'[p].version = v /\ proc'[p].plan = s
      BY <2>2, <2>3
    <3>3. Disposable(proc[p].version)' /\ \A w \in proc'[p].plan : Disposable(w)'
      BY <3>1, <3>2 DEF Disposable
    <3> QED BY <2>4, <3>2, <3>3 DEF DeletionInv
  <2> QED BY <1>1, <2>1, <2>5, <2>6, ReadOn
<1> QED BY <1>1, <1>3, <1>4

\* Every step of PublicationService.retention preserves CertificateInv.
LEMMA RetentionCertificate ==
    ASSUME Known, ~Lag, NEW p \in Process, Retention(p) PROVE CertificateInv'
BY RetentionPlanCertificate, RetentionNextCertificate, ScheduleCertificate DEF Retention

-----------------------------------------------------------------------------
(***************************************************************************)
(* The life of a process, and the theorems.                                *)
(***************************************************************************)

\* A command starts, or ends.
LEMMA LifeCertificate ==
    ASSUME Known, NEW p \in Process,
           Return(p) \/ Die(p) \/ \E cmd \in AllCommands : Acquire(p, cmd)
    PROVE  CertificateInv'
<1>1. CASE Return(p) \/ Die(p)
  BY <1>1, ExitKept DEF Return, Die
<1>2. ASSUME NEW cmd \in AllCommands, Acquire(p, cmd)
      PROVE  CertificateInv'
  <2> DEFINE l == FirstStep(cmd)
             r == [Idle EXCEPT !.pc = l, !.cmd = cmd]
  <2>1. /\ lock = Free /\ Become(p, r) /\ UNCHANGED <<oci, net, ops, certState>>
        /\ cmd \in AllCommands
    BY <1>2 DEF Acquire
  <2>2. l \in {"start", "renew", "auditStart", "rollbackStart", "retentionPlan"}
    BY <2>1 DEF FirstStep, AllCommands
  <2> HIDE DEF l
  <2>3. r.pc = l
    BY DEF Idle
  <2> HIDE DEF r
  <2>4. Unburdened(r.pc)
    BY <2>2, <2>3 DEF Unburdened, PublishSteps, RollbackSteps
  <2> QED BY <2>1, <2>4, FreeStep
<1> QED BY <1>1, <1>2

\* CertificateInv holds before any command has run.
LEMMA InitCertificate == Init => CertificateInv
<1> SUFFICES ASSUME Init PROVE CertificateInv
  OBVIOUS
<1>1. /\ oci.versions = <<1>> /\ oci.current = 1 /\ oci.served = 1 /\ oci.pending = NoVersion
      /\ oci.deleted = {} /\ net = {} /\ certState.version = 1 /\ DOMAIN ops = {}
  BY DEF Init, Imported
<1>2. LeafRows /\ RequestInv
  BY <1>1 DEF LeafRows, RequestInv
<1>3. StageInv
  BY <1>1 DEF StageInv, DeletionIsSafe, PendingIsRemembered, NoVersion
<1>4. ASSUME NEW p \in Process
      PROVE  WorkInv(p)
  <2>1. proc[p] = Idle /\ proc[p].pc = "idle"
    BY DEF Init, Idle
  <2>2. "idle" \notin PublishSteps \union RollbackSteps \union ReadingSteps
            \union SearchSteps \union NamingSteps \union PromotionSteps
            \union {"pendingVerified", "promote", "reconciled", "retentionNext", "schedule"}
            \union RecordedSteps \union ConfirmedSteps \union RestoredSteps
            \union StagedSteps \union PromotableSteps
    BY DEF PublishSteps, RollbackSteps, ReadingSteps, SearchSteps, NamingSteps, PromotionSteps,
           RecordedSteps, ConfirmedSteps, RestoredSteps, StagedSteps, VersionSteps,
           PromotableSteps
  <2> QED BY <2>1, <2>2 DEF WorkInv, RowInv, SeenInv, SeenCurrent, PromoteInv, DeletionInv
<1> QED BY <1>2, <1>3, <1>4 DEF CertificateInv

\* CertificateInv is inductive relative to the invariants before it.
LEMMA NextCertificate == ASSUME ~Lag PROVE Known /\ [Next]_vars => CertificateInv'
<1> SUFFICES ASSUME Known, [Next]_vars PROVE CertificateInv'
  OBVIOUS
<1>1. ASSUME NEW p \in Process, Step(p)
      PROVE  CertificateInv'
  BY <1>1, ReconcileCertificate, RollbackCertificate, AuditCertificate, RetentionCertificate,
     LifeCertificate DEF Step
<1>2. ASSUME NEW p \in Process, Die(p) \/ \E cmd \in Commands : Acquire(p, cmd)
      PROVE  CertificateInv'
  BY <1>2, LifeCertificate, PublisherAssumption
<1>3. CASE UNCHANGED vars
  <2>1. LeafRows' /\ RequestInv' /\ StageInv'
    BY <1>3, GlobalKept DEF vars, Known, CertificateInv, GlobalInv
  <2>2. ASSUME NEW p \in Process
        PROVE  WorkInv(p)'
    <3>1. WorkInv(p)
      BY DEF Known, CertificateInv
    <3>2. RowInv(p)' /\ DeletionInv(p)'
      BY <1>3, <3>1 DEF vars, WorkInv, RowInv, DeletionInv, Disposable, Referenced
    <3>3. SeenInv(p)'
      BY <1>3, <3>1 DEF vars, WorkInv, SeenInv, SeenCurrent, Backed, CurrentBacked, Backs, Spared
    <3>4. PromoteInv(p)'
      BY <1>3, <3>1 DEF vars, WorkInv, PromoteInv, Quiet
    <3> QED BY <3>2, <3>3, <3>4 DEF WorkInv
  <2> QED BY <2>1, <2>2 DEF CertificateInv
<1> QED BY <1>1, <1>2, <1>3, EnvironmentCertificate DEF Next

\* What is known of every state when OCI's reads do not lag.
THEOREM CertificateInvariance == ASSUME ~Lag PROVE Spec => []Known
<1>1. Init => Inv /\ ImportInv /\ CertificateInv
  BY InitInv, InitImports, InitCertificate
<1>2. Known /\ [Next]_vars => Known'
  <2>1. Inv /\ ImportInv /\ [Next]_vars => ImportInv'
    BY NextImports
  <2>2. Known /\ [Next]_vars => CertificateInv'
    BY NextCertificate
  <2> QED BY <2>1, <2>2, NextInv DEF Known
<1>3. Init => Known
  BY <1>1 DEF Known
<1> QED BY <1>2, <1>3, PTL DEF Spec

\* CURRENT is the recorded version or an open row announces it, whatever is
\* killed between the promotion and _complete: status never shows a version
\* that is out of date without an operation that is open.
THEOREM CurrentAccountedFor == ASSUME ~Lag PROVE Spec => []CurrentIsAccountedFor
<1>1. Known => CurrentIsAccountedFor
  BY DEF Known, CertificateInv, StageInv, CurrentIsAccountedFor, CurrentBacked, Backs
<1> QED BY <1>1, CertificateInvariance, PTL

\* schedule_version_deletion never reaches a version that is in a stage, nor
\* does a late request of a run that is gone: neither a promotion nor an
\* upload can come between the plan of plan_retention and its deletions.
THEOREM DeletionSafety == ASSUME ~Lag PROVE Spec => []DeletionIsSafe
<1>1. Known => DeletionIsSafe
  BY DEF Known, CertificateInv, StageInv
<1> QED BY <1>1, CertificateInvariance, PTL

\* A leaf that waits in PENDING has an open row: the next run of
\* _find_matching_pending takes it up instead of importing it again.
THEOREM PendingRemembered == ASSUME ~Lag PROVE Spec => []PendingIsRemembered
<1>1. Known => PendingIsRemembered
  BY DEF Known, CertificateInv, StageInv
<1> QED BY <1>1, CertificateInvariance, PTL
================================================================================
