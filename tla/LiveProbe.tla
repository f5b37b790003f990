------------------------------- MODULE LiveProbe -------------------------------
(***************************************************************************)
(* staging verify: live_probe publishes, renews, audits, rolls back and    *)
(* audits a staging certificate as one command, under one lock, and        *)
(* write_evidence keeps what it saw.  compatibility-probe --live is the    *)
(* same without the file.  Other commands may have been interrupted        *)
(* before.  Retention is taken to be disabled for the staging set.         *)
(***************************************************************************)
EXTENDS AuditService

CONSTANT
    MaxEarlier          \* bound: rows of the operations table when the last
                        \* command starts

ASSUME LiveProbeAssumption == ~RetentionEnabled /\ MaxEarlier \in Nat

VARIABLES
    probe,      \* stage of the probe in progress, 0 when there is none, and
                \* the row of the operations table that each stage began with
    evidence    \* the evidence file and the version numbers in it

probeVars == <<vars, auditVars, probe, evidence>>

\* The services that live_probe calls; the evidence is written after them.
Calls == <<"PUBLISH", "RENEW", "AUDIT", "ROLLBACK", "AUDIT">>

OpenStage == Len(Calls) + 1

WriteStage == Len(Calls) + 2

NoProbe == [stage |-> 0, rows |-> << >>]

NoEvidence == [file |-> "absent", initial |-> 0, promoted |-> 0, restored |-> 0]

MayBegin == MayStart /\ Len(ops) <= MaxEarlier

\* An earlier probe may have been killed while it wrote the file.
ProbeInit ==
    /\ Init /\ AuditInit
    /\ probe = NoProbe
    /\ evidence \in {NoEvidence, [NoEvidence EXCEPT !.file = "partial"]}

Probing(p) == probe.stage # 0 /\ lock = p

\* The probe's next call.
Call(p) ==
    LET cmd == Calls[probe.stage + 1] IN
    /\ Become(p, [Idle EXCEPT !.pc = FirstStep(cmd), !.cmd = cmd])
    /\ probe' = [stage |-> probe.stage + 1, rows |-> Append(probe.rows, Len(ops) + 1)]

\* The bounds admit the leaf that the renewal will issue.
BeginProbe(p) ==
    /\ proc[p].pc = "idle"
    /\ lock = Free
    /\ MayBegin /\ local < MaxIssued
    /\ lock' = p
    /\ Call(p)
    /\ UNCHANGED <<oci, net, ops, certState, local, expired, faults, auditVars, evidence>>

Work(p) == (Reconcile(p) \/ Rollback(p) \/ Audit(p) \/ Die(p)) /\ Audited(p)

ProbeContinues == probe' = IF lock' = Free THEN NoProbe ELSE probe

\* Mutant: the renewal is not forced.
WorkUnforced(p) ==
    /\ Probing(p)
    /\ Work(p)
    /\ ProbeContinues
    /\ UNCHANGED evidence

\* A step of the call in progress; the renewal is forced.  An exception that
\* the call does not handle ends the probe.
WorkForced(p) ==
    /\ Probing(p)
    /\ Work(p)
    /\ proc[p].pc = "renew" /\ lock' = lock => local' # local
    /\ ProbeContinues
    /\ UNCHANGED evidence

\* audit returns FALSE or raises AuditError; after a publication that is an
\* error in enforce mode only.
AuditFailed(p) ==
    /\ ops[proc[p].op].state = "AUDIT_FAILED"
    /\ proc[p].cmd = "AUDIT" \/ AuditMode = "enforce"

\* offline_probe, between the first two calls, validates the lineage.
OfflineFailed == probe.stage = 1 /\ ~IsValid(local, expired)

\* A call has ended.
NextCall(p) ==
    /\ Probing(p) /\ probe.stage <= Len(Calls)
    /\ proc[p].pc = "return"
    /\ \/ /\ AuditFailed(p) \/ OfflineFailed
          /\ Exit(p) /\ probe' = NoProbe
       \/ /\ ~AuditFailed(p) /\ ~OfflineFailed
          /\ \/ probe.stage < Len(Calls) /\ Call(p)
             \/ /\ probe.stage = Len(Calls)
                /\ probe' = [probe EXCEPT !.stage = OpenStage]
                /\ UNCHANGED proc
          /\ UNCHANGED lock
    /\ UNCHANGED <<oci, net, ops, certState, local, expired, faults, auditVars, evidence>>

\* The number that the call of a stage returned.
VersionOf(stage) == ops[probe.rows[stage]].version

\* write_evidence: the file must not exist yet, and is written in place.
OpenEvidence(p) ==
    /\ Probing(p) /\ probe.stage = OpenStage
    /\ \/ /\ evidence.file = "absent"
          /\ evidence' = [evidence EXCEPT !.file = "partial"]
          /\ probe' = [probe EXCEPT !.stage = WriteStage]
          /\ UNCHANGED <<proc, lock>>
       \/ /\ evidence.file # "absent"
          /\ Exit(p) /\ probe' = NoProbe
          /\ UNCHANGED evidence
    /\ UNCHANGED <<oci, net, ops, certState, local, expired, faults, auditVars>>

WriteEvidence(p) ==
    /\ Probing(p) /\ probe.stage = WriteStage
    /\ evidence' = [file |-> "whole", initial |-> VersionOf(1),
                    promoted |-> VersionOf(2), restored |-> VersionOf(4)]
    /\ Exit(p) /\ probe' = NoProbe
    /\ UNCHANGED <<oci, net, ops, certState, local, expired, faults, auditVars>>

\* The other commands, while no probe is in progress.
OtherCommand(p) ==
    /\ probe.stage = 0
    /\ Step(p) \/ Die(p) \/ (MayBegin /\ \E cmd \in Commands : Acquire(p, cmd))
    /\ Audited(p)
    /\ UNCHANGED <<probe, evidence>>

ProbeNext ==
    \/ \E p \in Process :
          BeginProbe(p) \/ WorkForced(p) \/ NextCall(p) \/ OpenEvidence(p)
          \/ WriteEvidence(p) \/ OtherCommand(p)
    \/ Environment /\ UNCHANGED <<auditVars, probe, evidence>>
    \/ AuditNext /\ UNCHANGED <<probe, evidence>>

ProbeSpec == ProbeInit /\ [][ProbeNext]_probeVars

-----------------------------------------------------------------------------
\* What qualifies a profile for production: "The probe imports and promotes a
\* second version on the same OCID, verifies the consumer, and rolls back."
\* Whatever was interrupted before, the version promoted carries a newer leaf
\* than the one the probe began with and the one it rolled back to.
EvidenceIsProof ==
    evidence.file = "whole" =>
        \A v \in {evidence.initial, evidence.restored} :
            oci.versions[v] < oci.versions[evidence.promoted]
=============================================================================
