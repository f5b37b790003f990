--------------------------- MODULE RenewBatch_proofs ---------------------------
(***************************************************************************)
(* Proofs that the invariants of RenewBatch hold for any number of         *)
(* certificate sets, whatever their policies and whatever fails.           *)
(***************************************************************************)
EXTENDS RenewBatch, TLAPS

Notifying == {"shouldSend", "post", "recordSent"}

\* Steps for the set in hand that count as neither published nor failed yet.
Working == {"renew", "audit", "auditFailed", "rollback", "retention", "expiry"}

Ended == {"stopped", "ended"}

Labels == Notifying \union Working \union Ended \union {"next"}

ExitCodes == {Specificity[k].exit : k \in DOMAIN Specificity} \union {"SUCCESS", "NONE"}

BatchState ==
    [pc : Labels, set : Sets, event : Event, back : Labels, attempt : Nat,
     published : SUBSET Sets, undone : SUBSET Sets,
     failed : SUBSET [set : Sets, error : Renewable], lost : SUBSET DedupKey,
     exit : ExitCodes]

\* Where the batch is, a notification apart.
Point == IF batch.pc \in Notifying THEN batch.back ELSE batch.pc

FailedSets == {f.set : f \in batch.failed}

\* Every set up to some one has been counted, once.
Progress ==
    /\ Point \in Working => batch.published \union FailedSets = 1..batch.set - 1
    /\ Point = "next" => batch.published \union FailedSets = 1..batch.set
    /\ batch.published \intersect FailedSets = {}
    /\ batch.exit # "NONE" => batch.pc = "ended"

\* A key is claimed only when its alert is worth sending, and in its cooldown
\* only when it was delivered.
Cooldowns ==
    /\ batch.pc \in {"post", "recordSent"} => dedup[Key] # "cooldown"
    /\ batch.pc = "recordSent" => delivered[Key] > 0
    /\ SilenceIsEarned

\* One delivery that is not due to a fault: the one that starts the cooldown.
Counted(k) == dedup[k] = "cooldown" \/ (batch.pc = "recordSent" /\ Key = k)

Deliveries ==
    \A k \in DedupKey : delivered[k] <= faults + (IF Counted(k) THEN 1 ELSE 0)

\* The alert was delivered, was given up or is being sent.
Handled(k) ==
    \/ dedup[k] # "absent"
    \/ k \in batch.lost
    \/ batch.pc \in Notifying /\ Key = k

Due ==
    {<<Specificity[Rank(f.error)].event, f.set>> : f \in batch.failed}
    \union ({"AUDIT_FAILED"} \X batch.undone)

Alerts ==
    Enabled =>
        /\ batch.pc \notin Ended \/ batch.exit # "NONE" => \A k \in Due : Handled(k)
        /\ Point \in {"auditFailed", "rollback"} => Handled(<<"AUDIT_FAILED", batch.set>>)

TypeInv ==
    /\ TypeOK
    /\ batch \in BatchState
    /\ batch.pc \in Notifying =>
          batch.back \in {"renew", "auditFailed", "expiry", "next"}

BatchInv ==
    /\ TypeInv /\ Progress /\ BatchIsComplete /\ Cooldowns /\ Deliveries /\ Alerts

-----------------------------------------------------------------------------
(***************************************************************************)
(* The table of errors, and the fields of the batch after a step.          *)
(***************************************************************************)

\* Six classes of errors.
LEMMA Classes == DOMAIN Specificity = 1..6
BY DEF Specificity

\* The entry of an error: its event, and its exit code, which is not SUCCESS.
LEMMA RankFacts ==
    ASSUME NEW error \in Renewable
    PROVE  /\ Rank(error) \in DOMAIN Specificity
           /\ Specificity[Rank(error)].event \in Event
           /\ Specificity[Rank(error)].exit \in ExitCodes
<1>1. \E k \in DOMAIN Specificity : Specificity[k].error = error
  BY DEF Renewable
<1>2. Rank(error) \in DOMAIN Specificity
  BY <1>1 DEF Rank
<1> QED BY <1>2 DEF Event, ExitCodes

\* No failure exits with SUCCESS, or without a code.
LEMMA FailureCodes == \A k \in DOMAIN Specificity : Specificity[k].exit \notin {"SUCCESS", "NONE"}
BY Classes DEF Specificity

\* _renewal_exit_code: SUCCESS if and only if nothing failed.
LEMMA ExitCodeFacts ==
    ASSUME NEW failed \in SUBSET [set : Sets, error : Renewable]
    PROVE  /\ ExitCode(failed) \in ExitCodes /\ ExitCode(failed) # "NONE"
           /\ ExitCode(failed) = "SUCCESS" <=> failed = {}
<1>1. CASE failed = {}
  BY <1>1 DEF ExitCode, ExitCodes
<1>2. CASE failed # {}
  <2> DEFINE ranks == {Rank(f.error) : f \in failed}
             k0 == CHOOSE k \in ranks : \A j \in ranks : k <= j
  <2>1. ranks \subseteq 1..6 /\ ranks # {}
    BY <1>2, RankFacts, Classes
  <2>2. ExitCode(failed) = Specificity[k0].exit
    BY <1>2 DEF ExitCode
  <2> HIDE DEF ranks
  <2>3. \E k \in ranks : \A j \in ranks : k <= j
    <3>1. PICK r \in ranks : r \in 1..6
      BY <2>1
    <3>2. r = 1 \/ r = 2 \/ r = 3 \/ r = 4 \/ r = 5 \/ r = 6
      BY <3>1
    <3>3. 1 \in ranks \/ 2 \in ranks \/ 3 \in ranks \/ 4 \in ranks \/ 5 \in ranks \/ 6 \in ranks
      BY <3>2
    <3> QED BY <2>1, <3>3
  <2>4. k0 \in ranks
    BY <2>3
  <2>5. k0 \in DOMAIN Specificity
    BY <2>1, <2>4, Classes
  <2> HIDE DEF k0
  <2>6. ExitCode(failed) \in ExitCodes
    BY <2>2, <2>5 DEF ExitCodes
  <2>7. ExitCode(failed) \notin {"SUCCESS", "NONE"}
    BY <2>2, <2>5, FailureCodes
  <2> QED BY <1>2, <2>6, <2>7
<1> QED BY <1>1, <1>2

Counts == <<batch.set, batch.published, batch.undone, batch.failed, batch.lost, batch.exit>>

Backs == {"renew", "auditFailed", "expiry", "next"}

\* A batch that goes on elsewhere keeps its locals.
LEMMA Gone ==
    ASSUME batch \in BatchState, NEW label \in Labels, Go(label)
    PROVE  /\ batch' \in BatchState /\ batch'.pc = label
           /\ UNCHANGED <<Counts, batch.event, batch.back>>
BY DEF Go, BatchState, Counts

\* _notify_event leads to the notifier, if it is enabled, and back.
Told(n, event, back) ==
    IF Enabled THEN n.pc = "shouldSend" /\ n.event = event /\ n.back = back
               ELSE n.pc = back

LEMMA Notified ==
    ASSUME NEW state \in BatchState, NEW event \in Event, NEW back \in Backs
    PROVE  LET n == Notify(state, event, back) IN
           /\ n \in BatchState /\ Told(n, event, back)
           /\ n.set = state.set /\ n.published = state.published
           /\ n.undone = state.undone /\ n.failed = state.failed
           /\ n.lost = state.lost /\ n.exit = state.exit
<1>1. back \in Labels /\ "shouldSend" \in Labels
  BY DEF Backs, Labels, Working, Notifying
<1> QED BY <1>1 DEF Notify, BatchState, Told

\* The next set is visited.
LEMMA Visited ==
    ASSUME NEW state \in BatchState, NEW set \in Sets
    PROVE  LET n == Visit(state, set) IN
           /\ n \in BatchState /\ n.set = set
           /\ Told(n, "COMPATIBILITY_NOT_VERIFIED", "renew") \/ n.pc = "renew"
           /\ n.published = state.published
           /\ n.undone = state.undone /\ n.failed = state.failed
           /\ n.lost = state.lost /\ n.exit = state.exit
<1> DEFINE there == [state EXCEPT !.set = set]
<1>1. /\ there \in BatchState /\ there.set = set
      /\ there.published = state.published
      /\ there.undone = state.undone /\ there.failed = state.failed
      /\ there.lost = state.lost /\ there.exit = state.exit
  BY DEF BatchState
<1>2. "COMPATIBILITY_NOT_VERIFIED" \in Event /\ "renew" \in Backs /\ "renew" \in Labels
  BY DEF Event, Backs, Labels, Working
<1>3. CASE LiveVerified
  <2>1. Visit(state, set) = [state EXCEPT !.pc = "renew", !.set = set]
    BY <1>3 DEF Visit
  <2> QED BY <1>2, <2>1 DEF BatchState
<1>4. CASE ~LiveVerified
  <2>1. Visit(state, set) = Notify(there, "COMPATIBILITY_NOT_VERIFIED", "renew")
    BY <1>4 DEF Visit
  <2> HIDE DEF there
  <2> QED BY <1>1, <1>2, <2>1, Notified
<1> QED BY <1>3, <1>4

\* A batch that has not begun.
LEMMA Fresh ==
    /\ NoBatch \in BatchState /\ NoBatch.pc = "stopped" /\ NoBatch.set = 1
    /\ NoBatch.published = {} /\ NoBatch.undone = {} /\ NoBatch.failed = {}
    /\ NoBatch.lost = {} /\ NoBatch.exit = "NONE"
<1>1. 1 \in Sets
  BY RenewBatchAssumption DEF Sets
<1> QED BY <1>1 DEF NoBatch, BatchState, Labels, Ended, Event, ExitCodes

-----------------------------------------------------------------------------
(***************************************************************************)
(* A step for the set in hand.                                             *)
(***************************************************************************)

\* The alert that the notifier is given is taken care of.
LEMMA Telling ==
    ASSUME NEW event, NEW set, NEW back \in Backs, Told(batch', event, back), batch'.set = set
    PROVE  /\ Point' = back /\ batch'.pc \notin {"post", "recordSent"}
           /\ batch'.pc \in Notifying => batch'.back \in Backs
           /\ Enabled => Handled(<<event, set>>)'
<1>1. back \notin Notifying
  BY DEF Backs, Notifying
<1>2. CASE Enabled
  <2>1. batch'.pc = "shouldSend" /\ batch'.event = event /\ batch'.back = back
    BY <1>2 DEF Told
  <2> QED BY <2>1 DEF Point, Notifying, Handled, Key
<1>3. CASE ~Enabled
  BY <1>1, <1>3 DEF Told, Point, Notifying
<1> QED BY <1>2, <1>3

\* So is every alert that was, unless a delivery is in progress.
LEMMA HandledKept ==
    ASSUME batch.pc \notin Notifying, dedup' = dedup, batch.lost \subseteq batch'.lost
    PROVE  \A k : Handled(k) => Handled(k)'
BY DEF Handled

\* Types after a step.
LEMMA TypesKept ==
    ASSUME batch' \in BatchState, dedup' \in [DedupKey -> {"absent", "cooldown", "past"}],
           delivered' \in [DedupKey -> Nat], batches' \in Nat, faults' \in Nat,
           batch'.pc \in Notifying => batch'.back \in Backs
    PROVE  TypeInv'
BY DEF TypeInv, TypeOK, BatchState, Backs

\* What was delivered does not change unless the notifier is at work.
LEMMA DeliveriesKept ==
    ASSUME BatchInv, UNCHANGED <<dedup, delivered>>, faults' \in Nat, faults <= faults',
           batch'.pc \notin {"post", "recordSent"},
           batch.pc # "recordSent" \/ faults + 1 <= faults'
    PROVE  Cooldowns' /\ Deliveries'
<1>1. Cooldowns'
  BY DEF BatchInv, Cooldowns, SilenceIsEarned
<1>2. ASSUME NEW k \in DedupKey
      PROVE  delivered[k] <= faults' + (IF Counted(k)' THEN 1 ELSE 0)
  <2>1. delivered[k] <= faults + (IF Counted(k) THEN 1 ELSE 0)
    BY DEF BatchInv, Deliveries
  <2>2. delivered[k] \in Nat /\ faults \in Nat
    BY DEF BatchInv, TypeInv, TypeOK
  <2>3. Counted(k)' => Counted(k)
    BY DEF Counted
  <2>4. CASE Counted(k) => Counted(k)'
    BY <2>1, <2>2, <2>3, <2>4
  <2>5. CASE faults + 1 <= faults'
    BY <2>1, <2>2, <2>5
  <2> QED BY <2>4, <2>5 DEF Counted
<1> QED BY <1>1, <1>2 DEF Deliveries

\* What such a step may count, and what it must have handled.
LEMMA WorkStep ==
    ASSUME BatchInv, batch.pc \in Working, batch' \in BatchState,
           UNCHANGED <<dedup, delivered, batches>>, faults' \in Nat, faults <= faults',
           UNCHANGED <<batch.set, batch.lost, batch.exit>>,
           batch'.pc \notin {"post", "recordSent"},
           batch'.pc \in Notifying => batch'.back \in Backs,
           \/ /\ UNCHANGED <<batch.published, batch.failed>>
              /\ Point' \in Working \union {"ended"}
           \/ /\ Point' = "next" /\ UNCHANGED batch.failed
              /\ batch'.published = batch.published \union {batch.set}
           \/ /\ Point' = "next" /\ UNCHANGED batch.published
              /\ \E error \in Renewable :
                    batch'.failed = batch.failed \union {[set |-> batch.set, error |-> error]},
           Enabled => \A k \in Due' : k \in Due \/ Handled(k)',
           Enabled /\ Point' \in {"auditFailed", "rollback"} =>
              Handled(<<"AUDIT_FAILED", batch.set>>)'
    PROVE  BatchInv'
<1>1. /\ batch \in BatchState /\ batch.set \in Nat \ {0}
      /\ dedup \in [DedupKey -> {"absent", "cooldown", "past"}]
      /\ delivered \in [DedupKey -> Nat] /\ batches \in Nat
      /\ Progress /\ Alerts
  BY DEF BatchInv, TypeInv, TypeOK, Sets
<1>2. TypeInv'
  BY <1>1, TypesKept
<1>3. Cooldowns' /\ Deliveries'
  BY DeliveriesKept DEF Working
<1>4. batch.pc \notin Notifying /\ batch.pc \notin Ended /\ batch.exit = "NONE"
  BY <1>1 DEF Working, Notifying, Ended, Progress
<1>5. BatchIsComplete'
  BY <1>4 DEF BatchIsComplete
<1>6. Progress'
  <2>1. batch.published \union FailedSets = 1..batch.set - 1
    BY <1>1, <1>4 DEF Progress, Point
  <2>2. batch.published \intersect FailedSets = {}
    BY <1>1 DEF Progress
  <2>3. batch.set \notin 1..batch.set - 1 /\ (1..batch.set - 1) \union {batch.set} = 1..batch.set
    BY <1>1
  <2>4. ASSUME UNCHANGED batch.failed
        PROVE  FailedSets' = FailedSets
    BY <2>4 DEF FailedSets
  <2>5. ASSUME NEW error,
               batch'.failed = batch.failed \union {[set |-> batch.set, error |-> error]}
        PROVE  FailedSets' = FailedSets \union {batch.set}
    <3> DEFINE failure == [set |-> batch.set, error |-> error]
    <3>1. failure.set = batch.set
      OBVIOUS
    <3> HIDE DEF failure
    <3>2. batch'.failed = batch.failed \union {failure}
      BY <2>5 DEF failure
    <3>3. \A s : s \in FailedSets' <=> s \in FailedSets \/ s = batch.set
      BY <3>1, <3>2 DEF FailedSets
    <3> QED BY <3>3
  <2>6. \/ /\ batch'.published = batch.published /\ FailedSets' = FailedSets
           /\ Point' \in Working \union {"ended"}
        \/ /\ Point' = "next" /\ FailedSets' = FailedSets
           /\ batch'.published = batch.published \union {batch.set}
        \/ /\ Point' = "next" /\ batch'.published = batch.published
           /\ FailedSets' = FailedSets \union {batch.set}
    BY <2>4, <2>5
  <2>7. "next" \notin Working /\ "ended" \notin Working
    BY DEF Working
  <2> QED BY <1>4, <2>1, <2>2, <2>3, <2>6, <2>7 DEF Progress
<1>7. Alerts'
  <2>1. Enabled => \A k \in Due : Handled(k)'
    BY <1>1, <1>4, HandledKept DEF Alerts
  <2> QED BY <2>1 DEF Alerts
<1> QED BY <1>2, <1>3, <1>5, <1>6, <1>7 DEF BatchInv

-----------------------------------------------------------------------------
(***************************************************************************)
(* The steps for the set in hand, one by one.                              *)
(***************************************************************************)

\* What a step may do to everything but the batch.
Quietly == UNCHANGED <<dedup, delivered, batches>> /\ (UNCHANGED faults \/ Fault)

\* The invariant's types, and that time goes on.
LEMMA Facts ==
    ASSUME BatchInv
    PROVE  /\ batch \in BatchState /\ batch.set \in Sets /\ faults \in Nat
           /\ Quietly => faults' \in Nat /\ faults <= faults'
BY DEF BatchInv, TypeInv, BatchState, TypeOK, Quietly, Fault

\* The batch goes on to a step that no failure leads to.
LEMMA GoStep ==
    ASSUME BatchInv, batch.pc \in Working, NEW label \in Working \union {"ended"}, Go(label),
           Quietly, label # "auditFailed", label = "rollback" => batch.pc = "auditFailed"
    PROVE  BatchInv'
<1>1. label \in Labels /\ label \notin Notifying
  BY DEF Labels, Working, Ended, Notifying
<1>2. /\ batch' \in BatchState /\ batch'.pc = label
      /\ UNCHANGED <<Counts, batch.event, batch.back>>
  BY <1>1, Facts, Gone
<1>3. Point' = label /\ label \notin {"post", "recordSent"}
  BY <1>1, <1>2 DEF Point, Notifying
<1>4. Due' = Due
  BY <1>2 DEF Due, Counts
<1>5. Enabled /\ Point' \in {"auditFailed", "rollback"} => Handled(<<"AUDIT_FAILED", batch.set>>)'
  <2>1. SUFFICES ASSUME Enabled, label = "rollback"
                 PROVE  Handled(<<"AUDIT_FAILED", batch.set>>)'
    BY <1>3
  <2>2. Point = "auditFailed" /\ batch.pc \notin Notifying
    BY <2>1 DEF Point, Notifying
  <2>3. PICK set : set = batch.set
    OBVIOUS
  <2>4. Handled(<<"AUDIT_FAILED", set>>)
    BY <2>1, <2>2, <2>3 DEF BatchInv, Alerts
  <2>5. Handled(<<"AUDIT_FAILED", set>>)'
    BY <1>2, <2>2, <2>4, HandledKept DEF Quietly, Counts
  <2> QED BY <1>2, <2>3, <2>5 DEF Counts
<1> QED BY <1>1, <1>2, <1>3, <1>4, <1>5, Facts, WorkStep DEF Counts, Quietly

\* The batch tells the notifier of something that no count depends on.
LEMMA TellStep ==
    ASSUME BatchInv, batch.pc \in Working, Quietly,
           NEW event \in Event, NEW back \in {"auditFailed", "expiry"},
           batch' = Notify(batch, event, back), back = "auditFailed" => event = "AUDIT_FAILED"
    PROVE  BatchInv'
<1>1. back \in Backs /\ back \in Working
  BY DEF Backs, Working
<1>2. PICK set : set = batch.set
  OBVIOUS
<1>3. /\ batch' \in BatchState /\ Told(batch', event, back)
      /\ batch'.set = set /\ UNCHANGED Counts
  BY <1>1, <1>2, Facts, Notified DEF Counts
<1>4. /\ Point' = back /\ batch'.pc \notin {"post", "recordSent"}
      /\ batch'.pc \in Notifying => batch'.back \in Backs
      /\ Enabled => Handled(<<event, set>>)'
  BY <1>1, <1>3, Telling
<1>5. Due' = Due
  BY <1>3 DEF Due, Counts
<1>6. Enabled /\ Point' \in {"auditFailed", "rollback"} => Handled(<<"AUDIT_FAILED", batch.set>>)'
  BY <1>2, <1>3, <1>4
<1> QED BY <1>1, <1>3, <1>4, <1>5, <1>6, Facts, WorkStep DEF Counts, Quietly

\* The failure of the set is kept, with its alert.
LEMMA KeepStep ==
    ASSUME BatchInv, batch.pc \in Working, NEW error \in Renewable, Keep(error), Quietly
    PROVE  BatchInv'
<1> DEFINE failure == [set |-> batch.set, error |-> error]
           state == [batch EXCEPT !.failed = batch.failed \union {failure}]
           event == Specificity[Rank(error)].event
<1>1. "next" \in Backs /\ event \in Event
  BY RankFacts DEF Backs
<1>2. failure \in [set : Sets, error : Renewable] /\ failure.set = batch.set /\ failure.error = error
  BY Facts
<1>3. batch' = Notify(state, event, "next")
  BY DEF Keep
<1> HIDE DEF failure
<1>4. /\ state \in BatchState /\ state.set = batch.set /\ state.published = batch.published
      /\ state.undone = batch.undone /\ state.failed = batch.failed \union {failure}
      /\ state.lost = batch.lost /\ state.exit = batch.exit
  BY <1>2, Facts DEF BatchState
<1> HIDE DEF state
<1>5. PICK set, alert : set = batch.set /\ alert = event
  OBVIOUS
<1>6. /\ batch' \in BatchState /\ Told(batch', alert, "next")
      /\ batch'.set = set /\ UNCHANGED <<batch.set, batch.lost, batch.exit>>
      /\ batch'.published = batch.published /\ batch'.undone = batch.undone
      /\ batch'.failed = batch.failed \union {failure}
  BY <1>1, <1>3, <1>4, <1>5, Notified
<1>7. /\ Point' = "next" /\ batch'.pc \notin {"post", "recordSent"}
      /\ batch'.pc \in Notifying => batch'.back \in Backs
      /\ Enabled => Handled(<<alert, set>>)'
  BY <1>1, <1>6, Telling
<1>8. \A k \in Due' : k \in Due \/ k = <<alert, set>>
  BY <1>2, <1>5, <1>6 DEF Due
<1>9. Enabled => \A k \in Due' : k \in Due \/ Handled(k)'
  BY <1>7, <1>8
<1> HIDE DEF event
<1> QED BY <1>6, <1>7, <1>9, Facts, WorkStep DEF Quietly, failure

\* The publication of the set is undone; its failed audit has its alert.
LEMMA RolledBackStep == ASSUME BatchInv, RolledBack PROVE BatchInv'
<1>1. /\ batch.pc = "rollback" /\ batch.pc \in Working /\ "retention" \in Working
      /\ Quietly /\ "retention" \in Labels /\ batch.pc \notin Notifying
  BY DEF RolledBack, Working, Quietly, Labels, Notifying
<1>2. /\ batch' \in BatchState /\ batch'.pc = "retention" /\ batch'.set = batch.set
      /\ batch'.published = batch.published /\ batch'.failed = batch.failed
      /\ batch'.undone = batch.undone \union {batch.set}
      /\ batch'.lost = batch.lost /\ batch'.exit = batch.exit
  BY <1>1, Facts DEF RolledBack, BatchState
<1>3. Point' = "retention" /\ "retention" \notin Notifying
  BY <1>2 DEF Point, Notifying
<1>4. PICK set : set = batch.set
  OBVIOUS
<1>5. Enabled => Handled(<<"AUDIT_FAILED", set>>)
  BY <1>1, <1>4 DEF BatchInv, Alerts, Point
<1>6. Enabled => Handled(<<"AUDIT_FAILED", set>>)'
  BY <1>1, <1>2, <1>5, HandledKept DEF Quietly
<1>7. \A k \in Due' : k \in Due \/ k = <<"AUDIT_FAILED", set>>
  BY <1>2, <1>4 DEF Due
<1>8. Enabled => \A k \in Due' : k \in Due \/ Handled(k)'
  BY <1>6, <1>7
<1> QED BY <1>1, <1>2, <1>3, <1>8, Facts, WorkStep DEF Quietly

\* The set is counted as published.
LEMMA RenewedStep == ASSUME BatchInv, Renewed PROVE BatchInv'
<1> DEFINE state == [batch EXCEPT !.published = batch.published \union {batch.set}]
<1>1. /\ batch.pc \in Working /\ Quietly
      /\ batch' = [state EXCEPT !.pc = "next"]
           \/ \E event \in ExpiryEvent : batch' = Notify(state, event, "next")
  BY DEF Renewed, Working, Quietly
<1>2. /\ state \in BatchState /\ state.set = batch.set /\ state.failed = batch.failed
      /\ state.published = batch.published \union {batch.set}
      /\ state.undone = batch.undone /\ state.lost = batch.lost /\ state.exit = batch.exit
  BY Facts DEF BatchState
<1> HIDE DEF state
<1>3. "next" \in Backs /\ "next" \in Labels /\ "next" \notin Notifying
  BY DEF Backs, Labels, Notifying
<1>4. CASE batch' = [state EXCEPT !.pc = "next"]
  <2>1. /\ batch' \in BatchState /\ batch'.pc = "next"
        /\ batch'.set = batch.set /\ batch'.failed = batch.failed
        /\ batch'.published = batch.published \union {batch.set}
        /\ batch'.undone = batch.undone /\ batch'.lost = batch.lost /\ batch'.exit = batch.exit
    BY <1>2, <1>3, <1>4 DEF BatchState
  <2>2. Point' = "next" /\ batch'.pc \notin {"post", "recordSent"}
    BY <1>3, <2>1 DEF Point, Notifying
  <2>3. Due' = Due
    BY <2>1 DEF Due
  <2> QED BY <1>1, <1>3, <2>1, <2>2, <2>3, Facts, WorkStep DEF Quietly
<1>5. ASSUME NEW event \in ExpiryEvent, batch' = Notify(state, event, "next")
      PROVE  BatchInv'
  <2>1. event \in Event
    BY DEF Event
  <2>2. PICK set : set = batch.set
    OBVIOUS
  <2>3. /\ batch' \in BatchState /\ Told(batch', event, "next")
        /\ batch'.set = set /\ batch'.failed = batch.failed
        /\ batch'.published = batch.published \union {batch.set}
        /\ batch'.undone = batch.undone /\ batch'.lost = batch.lost /\ batch'.exit = batch.exit
    BY <1>2, <1>3, <1>5, <2>1, <2>2, Notified
  <2>4. /\ Point' = "next" /\ batch'.pc \notin {"post", "recordSent"}
        /\ batch'.pc \in Notifying => batch'.back \in Backs
    BY <1>3, <2>3, Telling
  <2>5. Due' = Due
    BY <2>3 DEF Due
  <2> QED BY <1>1, <2>2, <2>3, <2>4, <2>5, Facts, WorkStep DEF Quietly
<1> QED BY <1>1, <1>4, <1>5

\* The errors of a step are kept by their class.
LEMMA FailedStep == ASSUME BatchInv, NEW error \in Renewable, Failed(error) PROVE BatchInv'
<1>1. CASE batch.pc \in {"renew", "audit", "rollback"}
  <2>1. batch.pc \in Working /\ Keep(error) /\ Quietly
    BY <1>1 DEF Failed, Working, Quietly
  <2> QED BY <2>1, KeepStep
<1>2. CASE batch.pc \notin {"renew", "audit", "rollback"}
  <2>1. ErrorsAt(batch.pc) = {}
    BY <1>2 DEF ErrorsAt
  <2> QED BY <2>1 DEF Failed
<1> QED BY <1>1, <1>2

\* A failed audit is answered by the policy of the set.
LEMMA AfterFailedAuditStep == ASSUME BatchInv, AfterFailedAudit PROVE BatchInv'
<1>1. /\ batch.pc = "auditFailed" /\ batch.pc \in Working /\ Quietly
      /\ "retention" \in Working /\ "rollback" \in Working
  BY DEF AfterFailedAudit, Working, Quietly
<1>2. "AuditError" \in Renewable
  <2>1. Specificity[4].error = "AuditError" /\ 4 \in DOMAIN Specificity
    BY Classes DEF Specificity
  <2> QED BY <2>1 DEF Renewable
<1>3. Go("retention") \/ Go("rollback") \/ Keep("AuditError")
  BY DEF AfterFailedAudit
<1> QED BY <1>1, <1>2, <1>3, GoStep, KeepStep

\* Every step for the set in hand.
LEMMA SetStep ==
    ASSUME BatchInv,
           \/ Published \/ AuditSucceeds \/ AuditFails \/ AfterFailedAudit \/ RolledBack
           \/ Retained \/ Renewed \/ Escapes \/ \E error \in Renewable : Failed(error)
    PROVE  BatchInv'
<1> USE DEF Quietly
<1>1. {"renew", "audit", "auditFailed", "rollback", "retention", "expiry"} \subseteq Working
  BY DEF Working
<1>2. ASSUME Published PROVE BatchInv'
  BY <1>1, <1>2, GoStep DEF Published
<1>3. ASSUME AuditSucceeds PROVE BatchInv'
  BY <1>1, <1>3, GoStep DEF AuditSucceeds, StepsOn
<1>4. ASSUME AuditFails PROVE BatchInv'
  <2>1. "AUDIT_FAILED" \in Event
    <3>1. Specificity[4].event = "AUDIT_FAILED" /\ 4 \in DOMAIN Specificity
      BY Classes DEF Specificity
    <3> QED BY <3>1 DEF Event
  <2> QED BY <1>1, <1>4, <2>1, TellStep DEF AuditFails
<1>5. ASSUME Retained PROVE BatchInv'
  <2>1. "RETENTION_FAILED" \in Event
    BY DEF Event
  <2> QED BY <1>1, <1>5, <2>1, GoStep, TellStep DEF Retained
<1>6. ASSUME Escapes PROVE BatchInv'
  BY <1>1, <1>6, GoStep DEF Escapes
<1> QED
  BY <1>2, <1>3, <1>4, <1>5, <1>6, AfterFailedAuditStep, RolledBackStep, RenewedStep, FailedStep

-----------------------------------------------------------------------------
(***************************************************************************)
(* From one set to the next, from one batch to the next.                   *)
(***************************************************************************)

\* The failures and the alerts due are those of the batch.
LEMMA SameCounts ==
    ASSUME batch'.failed = batch.failed, batch'.undone = batch.undone
    PROVE  FailedSets' = FailedSets /\ Due' = Due
BY DEF FailedSets, Due

\* The alerts due remain handled where the batch goes on or ends.
LEMMA AlertsKept ==
    ASSUME Alerts, batch.pc \notin Notifying, batch.pc \notin Ended, dedup' = dedup,
           batch.lost \subseteq batch'.lost, Due' = Due, Point' \notin {"auditFailed", "rollback"}
    PROVE  Alerts'
BY HandledKept DEF Alerts

\* The set in hand is not the last: the next one is visited.
LEMMA NextSetStep ==
    ASSUME BatchInv, NextSet, batch.set < NumSets
    PROVE  BatchInv'
<1>1. /\ batch \in BatchState /\ batch.set \in Sets /\ batch.set \in Nat \ {0}
      /\ dedup \in [DedupKey -> {"absent", "cooldown", "past"}]
      /\ delivered \in [DedupKey -> Nat] /\ batches \in Nat /\ faults \in Nat
      /\ Progress /\ Alerts
  BY DEF BatchInv, TypeInv, TypeOK, BatchState, Sets
<1>2. /\ batch.pc = "next" /\ batch' = Visit(batch, batch.set + 1)
      /\ UNCHANGED <<dedup, delivered, batches, faults>>
  BY DEF NextSet
<1>3. PICK set \in Sets : set = batch.set + 1
  BY <1>1, RenewBatchAssumption DEF Sets
<1>4. /\ batch' \in BatchState /\ batch'.set = set
      /\ Told(batch', "COMPATIBILITY_NOT_VERIFIED", "renew") \/ batch'.pc = "renew"
      /\ batch'.published = batch.published
      /\ batch'.undone = batch.undone /\ batch'.failed = batch.failed
      /\ batch'.lost = batch.lost /\ batch'.exit = batch.exit
  BY <1>1, <1>2, <1>3, Visited
<1>5. /\ Point' = "renew" /\ batch'.pc \notin {"post", "recordSent"}
      /\ batch'.pc \in Notifying => batch'.back \in Backs
  <2>1. CASE Told(batch', "COMPATIBILITY_NOT_VERIFIED", "renew")
    <3>1. "renew" \in Backs
      BY DEF Backs
    <3> QED BY <1>4, <2>1, <3>1, Telling
  <2>2. CASE batch'.pc = "renew"
    BY <2>2 DEF Point, Notifying
  <2> QED BY <1>4, <2>1, <2>2
<1>6. TypeInv'
  BY <1>1, <1>2, <1>4, <1>5, TypesKept
<1>7. Cooldowns' /\ Deliveries'
  BY <1>1, <1>2, <1>5, DeliveriesKept
<1>8. batch.exit = "NONE" /\ Point = "next" /\ batch.pc \notin Notifying /\ batch.pc \notin Ended
  BY <1>1, <1>2 DEF Progress, Point, Notifying, Ended
<1>9. FailedSets' = FailedSets /\ Due' = Due
  BY <1>4, SameCounts
<1>10. Progress'
  <2>1. 1..batch.set = 1..set - 1
    BY <1>1, <1>3
  <2>2. "renew" # "next"
    OBVIOUS
  <2> QED BY <1>1, <1>4, <1>5, <1>8, <1>9, <2>1, <2>2 DEF Progress
<1>11. BatchIsComplete'
  BY <1>4, <1>8 DEF BatchIsComplete
<1>12. Alerts'
  BY <1>1, <1>2, <1>4, <1>5, <1>8, <1>9, AlertsKept
<1> QED BY <1>6, <1>7, <1>10, <1>11, <1>12 DEF BatchInv

\* It is the last: every set has been counted, and the exit code says so.
LEMMA LastSetStep ==
    ASSUME BatchInv, NextSet, ~(batch.set < NumSets)
    PROVE  BatchInv'
<1>1. /\ batch \in BatchState /\ batch.set \in Sets
      /\ dedup \in [DedupKey -> {"absent", "cooldown", "past"}]
      /\ delivered \in [DedupKey -> Nat] /\ batches \in Nat /\ faults \in Nat
      /\ batch.failed \in SUBSET [set : Sets, error : Renewable]
      /\ batch.published \subseteq Sets /\ Progress /\ Alerts
  BY DEF BatchInv, TypeInv, TypeOK, BatchState
<1>2. PICK code : code = ExitCode(batch.failed)
  OBVIOUS
<1>3. /\ batch.pc = "next" /\ batch' = [batch EXCEPT !.pc = "ended", !.exit = code]
      /\ UNCHANGED <<dedup, delivered, batches, faults>>
  BY <1>2 DEF NextSet
<1>4. code \in ExitCodes /\ code # "NONE" /\ (code = "SUCCESS" <=> batch.failed = {})
  BY <1>1, <1>2, ExitCodeFacts
<1>5. "ended" \in Labels /\ "ended" \notin Notifying /\ "ended" \notin Working
  BY DEF Labels, Ended, Notifying, Working
<1>6. /\ batch' \in BatchState /\ batch'.pc = "ended" /\ batch'.exit = code
      /\ batch'.published = batch.published
      /\ batch'.undone = batch.undone /\ batch'.failed = batch.failed
      /\ batch'.lost = batch.lost
  BY <1>1, <1>3, <1>4, <1>5 DEF BatchState
<1>7. Point' = "ended"
  BY <1>5, <1>6 DEF Point
<1>8. TypeInv'
  BY <1>1, <1>3, <1>5, <1>6, TypesKept
<1>9. Cooldowns' /\ Deliveries'
  BY <1>1, <1>3, <1>6, DeliveriesKept
<1>10. Point = "next" /\ batch.pc \notin Notifying /\ batch.pc \notin Ended
  BY <1>3 DEF Point, Notifying, Ended
<1>11. FailedSets' = FailedSets /\ Due' = Due
  BY <1>6, SameCounts
<1>12. Progress'
  BY <1>1, <1>5, <1>6, <1>7, <1>11 DEF Progress
<1>13. BatchIsComplete'
  <2>1. batch.set = NumSets
    BY <1>1, RenewBatchAssumption DEF Sets
  <2>2. batch.published \union FailedSets = Sets /\ batch.published \intersect FailedSets = {}
    BY <1>1, <1>10, <2>1 DEF Progress, Sets
  <2>3. batch.failed = {} <=> FailedSets = {}
    BY DEF FailedSets
  <2>4. code = "SUCCESS" <=> batch.published = Sets
    BY <1>1, <1>4, <2>2, <2>3
  <2> QED BY <1>6, <2>2, <2>4 DEF BatchIsComplete, FailedSets
<1>14. Alerts'
  BY <1>1, <1>3, <1>6, <1>7, <1>10, <1>11, AlertsKept
<1> QED BY <1>8, <1>9, <1>12, <1>13, <1>14 DEF BatchInv

\* A batch that has just begun, or is gone, has counted nothing.
LEMMA NothingCounted ==
    ASSUME BatchInv, batch' \in BatchState, UNCHANGED <<dedup, delivered>>,
           batches' \in Nat, faults' \in Nat, faults <= faults',
           batch'.pc \notin {"post", "recordSent"},
           batch'.pc \in Notifying => batch'.back \in Backs,
           batch.pc # "recordSent" \/ faults + 1 <= faults',
           batch'.published = {}, batch'.failed = {}, batch'.undone = {}, batch'.exit = "NONE",
           Point' = "stopped" \/ (Point' = "renew" /\ batch'.set = 1)
    PROVE  BatchInv'
<1>1. TypeInv'
  BY TypesKept DEF BatchInv, TypeInv, TypeOK
<1>2. Cooldowns' /\ Deliveries'
  BY DeliveriesKept
<1>3. FailedSets' = {} /\ Due' = {}
  BY DEF FailedSets, Due
<1>4. Progress'
  <2>1. "stopped" \notin Working /\ 1..1 - 1 = {}
    BY DEF Working
  <2> QED BY <1>3, <2>1 DEF Progress
<1>5. BatchIsComplete'
  BY DEF BatchIsComplete
<1>6. Alerts'
  BY <1>3 DEF Alerts
<1> QED BY <1>1, <1>2, <1>4, <1>5, <1>6 DEF BatchInv

\* The first set is visited.
LEMMA BeginStep == ASSUME BatchInv, Begin PROVE BatchInv'
<1>1. 1 \in Sets
  BY RenewBatchAssumption DEF Sets
<1>2. /\ batch' \in BatchState /\ batch'.set = 1
      /\ Told(batch', "COMPATIBILITY_NOT_VERIFIED", "renew") \/ batch'.pc = "renew"
      /\ batch'.published = {} /\ batch'.undone = {} /\ batch'.failed = {}
      /\ batch'.exit = "NONE"
  BY <1>1, Fresh, Visited DEF Begin
<1>3. /\ Point' = "renew" /\ batch'.pc \notin {"post", "recordSent"}
      /\ batch'.pc \in Notifying => batch'.back \in Backs
  <2>1. CASE Told(batch', "COMPATIBILITY_NOT_VERIFIED", "renew")
    <3>1. "renew" \in Backs
      BY DEF Backs
    <3> QED BY <1>2, <2>1, <3>1, Telling
  <2>2. CASE batch'.pc = "renew"
    BY <2>2 DEF Point, Notifying
  <2> QED BY <1>2, <2>1, <2>2
<1>4. batch.pc # "recordSent" /\ faults \in Nat /\ faults' = faults /\ batches' \in Nat
  BY DEF Begin, BatchInv, TypeInv, TypeOK
<1> QED BY <1>2, <1>3, <1>4, NothingCounted DEF Begin

\* Only the tables outlive a batch that is killed.
LEMMA DieStep == ASSUME BatchInv, Die PROVE BatchInv'
<1>1. /\ faults \in Nat /\ batches' \in Nat /\ faults' = faults + 1
      /\ UNCHANGED <<dedup, delivered>> /\ batch' = NoBatch
  BY DEF Die, Fault, BatchInv, TypeInv, TypeOK
<1>2. batch'.pc = "stopped" /\ batch'.pc \notin Notifying /\ Point' = "stopped"
  BY <1>1, Fresh DEF Point, Notifying
<1>3. /\ batch' \in BatchState /\ batch'.published = {} /\ batch'.failed = {}
      /\ batch'.undone = {} /\ batch'.exit = "NONE"
  BY <1>1, Fresh
<1>4. faults' \in Nat /\ faults <= faults' /\ faults + 1 <= faults'
  BY <1>1
<1> QED BY <1>1, <1>2, <1>3, <1>4, NothingCounted

-----------------------------------------------------------------------------
(***************************************************************************)
(* The steps of the notifier.                                              *)
(***************************************************************************)

\* The keys of the alerts that are due, and of the one in hand.
LEMMA Keys ==
    ASSUME BatchInv
    PROVE  Due \subseteq DedupKey /\ <<"AUDIT_FAILED", batch.set>> \in DedupKey /\ Key \in DedupKey
<1>1. "AUDIT_FAILED" \in Event
  <2>1. Specificity[4].event = "AUDIT_FAILED" /\ 4 \in DOMAIN Specificity
    BY Classes DEF Specificity
  <2> QED BY <2>1 DEF Event
<1>2. /\ batch.set \in Sets /\ batch.event \in Event /\ batch.undone \subseteq Sets
      /\ batch.failed \subseteq [set : Sets, error : Renewable]
  BY DEF BatchInv, TypeInv, TypeOK
<1>3. ASSUME NEW f \in batch.failed
      PROVE  <<Specificity[Rank(f.error)].event, f.set>> \in DedupKey
  BY <1>2, RankFacts DEF DedupKey
<1> QED BY <1>1, <1>2, <1>3 DEF Due, DedupKey, Key

\* The alerts remain handled where the notifier goes on or returns.
LEMMA AlertsTold ==
    ASSUME BatchInv, batch.pc \in Notifying,
           UNCHANGED <<batch.set, batch.published, batch.undone, batch.failed, batch.exit>>,
           \/ batch'.pc = "ended"
           \/ Point' = Point /\ \A k \in DedupKey : Handled(k) => Handled(k)'
    PROVE  Alerts'
<1>1. Alerts /\ batch.pc \notin Ended /\ batch.exit = "NONE"
  BY DEF BatchInv, Notifying, Ended, Progress
<1>2. Due' = Due
  BY SameCounts
<1>3. CASE batch'.pc = "ended"
  <2>1. batch'.pc \in Ended /\ batch'.exit = "NONE" /\ Point' = "ended"
    BY <1>1, <1>3 DEF Ended, Point, Notifying
  <2> QED BY <2>1 DEF Alerts
<1>4. CASE Point' = Point /\ \A k \in DedupKey : Handled(k) => Handled(k)'
  <2>1. Enabled => \A k \in Due : Handled(k)'
    BY <1>1, <1>4, Keys DEF Alerts
  <2>2. PICK set : set = batch.set
    OBVIOUS
  <2>3. Enabled /\ Point \in {"auditFailed", "rollback"} => Handled(<<"AUDIT_FAILED", set>>)
    BY <1>1, <2>2 DEF Alerts
  <2>4. Enabled /\ Point' \in {"auditFailed", "rollback"} => Handled(<<"AUDIT_FAILED", set>>)'
    BY <1>4, <2>2, <2>3, Keys
  <2> QED BY <1>2, <2>1, <2>2, <2>4 DEF Alerts
<1> QED BY <1>3, <1>4

\* What the notifier leaves alone.
LEMMA NotifierStep ==
    ASSUME BatchInv, batch.pc \in Notifying, batch' \in BatchState,
           dedup' \in [DedupKey -> {"absent", "cooldown", "past"}],
           delivered' \in [DedupKey -> Nat], batches' \in Nat, faults' \in Nat,
           UNCHANGED <<batch.set, batch.published, batch.undone, batch.failed, batch.exit>>,
           \/ batch'.pc = "ended"
           \/ /\ \/ batch'.pc = batch.back
                 \/ batch'.pc \in Notifying /\ batch'.back = batch.back
              /\ \A k \in DedupKey : Handled(k) => Handled(k)',
           Cooldowns', Deliveries'
    PROVE  BatchInv'
<1>1. /\ batch.back \in Backs /\ batch.back \notin Notifying /\ Point = batch.back
      /\ Progress /\ batch.exit = "NONE"
  BY DEF BatchInv, TypeInv, Backs, Point, Notifying, Progress
<1>2. batch'.pc = "ended" \/ Point' = Point
  BY <1>1 DEF Point
<1>3. batch'.pc \in Notifying => batch'.back \in Backs
  BY <1>1 DEF Notifying
<1>4. TypeInv'
  BY <1>3, TypesKept
<1>5. FailedSets' = FailedSets
  BY SameCounts
<1>6. Progress'
  <2>1. CASE batch'.pc = "ended"
    <3>1. Point' = "ended" /\ "ended" \notin Working
      BY <2>1 DEF Point, Notifying, Working
    <3> QED BY <1>1, <1>5, <3>1 DEF Progress
  <2>2. CASE Point' = Point
    BY <1>1, <1>5, <2>2 DEF Progress
  <2> QED BY <1>2, <2>1, <2>2
<1>7. BatchIsComplete'
  BY <1>1 DEF BatchIsComplete
<1>8. Alerts'
  BY <1>2, AlertsTold
<1> QED BY <1>4, <1>6, <1>7, <1>8 DEF BatchInv

\* The types that the steps of the notifier start from.
LEMMA NotifierFacts ==
    ASSUME BatchInv
    PROVE  /\ batch \in BatchState /\ batch.back \in Labels /\ batch.lost \subseteq DedupKey
           /\ dedup \in [DedupKey -> {"absent", "cooldown", "past"}]
           /\ delivered \in [DedupKey -> Nat] /\ batches \in Nat /\ faults \in Nat
           /\ Key \in DedupKey /\ Cooldowns /\ Deliveries
           /\ batch.pc \in Notifying => batch.back \notin Notifying
           /\ Notifying \subseteq Labels /\ "ended" \in Labels /\ "ended" \notin Notifying
BY Keys DEF BatchInv, TypeInv, TypeOK, BatchState, Labels, Ended, Notifying

\* should_send_alert
LEMMA ShouldSendStep == ASSUME BatchInv, ShouldSend PROVE BatchInv'
<1>1. batch.pc = "shouldSend" /\ batch.pc \in Notifying /\ UNCHANGED <<dedup, delivered, batches, faults>>
  BY DEF ShouldSend, Notifying
<1>2. /\ batch \in BatchState /\ batch.back \in Labels /\ "post" \in Labels
      /\ batch.back \notin Notifying /\ Cooldowns /\ Deliveries
  BY <1>1, NotifierFacts DEF Notifying
<1>3. PICK label \in {batch.back, "post"} :
        Go(label) /\ (label = batch.back \/ dedup[Key] # "cooldown")
             /\ (label = batch.back => dedup[Key] = "cooldown")
  BY <1>2 DEF ShouldSend, Notifying
<1>4. /\ batch' \in BatchState /\ batch'.pc = label
      /\ UNCHANGED <<Counts, batch.event, batch.back>>
  BY <1>2, <1>3, Gone
<1>5. PICK key : key = Key
  OBVIOUS
<1>6. Key' = key /\ batch'.pc # "recordSent" /\ (batch'.pc = "post" => dedup[key] # "cooldown")
  BY <1>2, <1>3, <1>4, <1>5 DEF Key, Counts, Notifying
<1>7. Cooldowns'
  BY <1>1, <1>2, <1>6 DEF Cooldowns, SilenceIsEarned
<1>8. Deliveries'
  BY <1>1, <1>2, <1>6 DEF Deliveries, Counted
<1>9. ASSUME NEW k \in DedupKey, Handled(k)
      PROVE  Handled(k)'
  <2>1. CASE label = "post"
    <3>1. batch'.pc \in Notifying
      BY <1>4, <2>1 DEF Notifying
    <3> QED BY <1>1, <1>4, <1>5, <1>6, <1>9, <3>1 DEF Handled, Counts
  <2>2. CASE label = batch.back
    BY <1>1, <1>3, <1>4, <1>9, <2>2 DEF Handled, Counts
  <2> QED BY <1>3, <2>1, <2>2
<1>10. batch'.pc = batch.back \/ (batch'.pc \in Notifying /\ batch'.back = batch.back)
  BY <1>3, <1>4 DEF Notifying
<1> QED BY <1>1, <1>4, <1>7, <1>8, <1>9, <1>10, NotifierFacts, NotifierStep DEF Counts

\* The webhook has answered with 2xx.
LEMMA PostedStep == ASSUME BatchInv, Posted PROVE BatchInv'
<1>1. /\ batch.pc = "post" /\ batch.pc \in Notifying /\ UNCHANGED <<dedup, batches, faults>>
      /\ Go("recordSent") /\ "recordSent" \in Notifying /\ "recordSent" \in Labels
  BY DEF Posted, Notifying, Labels
<1>2. PICK key \in DedupKey : key = Key
  BY NotifierFacts
<1>3. /\ batch' \in BatchState /\ batch'.pc = "recordSent"
      /\ UNCHANGED <<Counts, batch.event, batch.back>>
  BY <1>1, NotifierFacts, Gone
<1>4. Key' = key
  BY <1>2, <1>3 DEF Key, Counts
<1>5. delivered' = [delivered EXCEPT ![key] = delivered[key] + 1]
  BY <1>2 DEF Posted, Deliver
<1>6. /\ dedup[key] # "cooldown" /\ SilenceIsEarned /\ Deliveries
      /\ delivered \in [DedupKey -> Nat] /\ faults \in Nat
  BY <1>1, <1>2, NotifierFacts DEF Cooldowns
<1>7. /\ delivered' \in [DedupKey -> Nat] /\ delivered'[key] = delivered[key] + 1
      /\ \A k \in DedupKey : k # key => delivered'[k] = delivered[k]
  BY <1>5, <1>6
<1>8. Cooldowns'
  <2>1. delivered'[key] > 0
    BY <1>6, <1>7
  <2> QED BY <1>1, <1>4, <1>6, <1>7, <2>1 DEF Cooldowns, SilenceIsEarned
<1>9. Deliveries'
  <2>1. \A k \in DedupKey : k # key => (Counted(k)' <=> Counted(k))
    BY <1>1, <1>2, <1>4 DEF Counted
  <2>2. delivered[key] <= faults
    <3>1. ~Counted(key)
      BY <1>1, <1>6 DEF Counted
    <3>2. delivered[key] <= faults + 0
      BY <1>6, <3>1 DEF Deliveries
    <3> QED BY <1>6, <3>2
  <2>3. Counted(key)'
    BY <1>3, <1>4 DEF Counted
  <2>4. delivered'[key] <= faults' + 1
    BY <1>1, <1>6, <1>7, <2>2
  <2>5. ASSUME NEW k \in DedupKey
        PROVE  delivered'[k] <= faults' + (IF Counted(k)' THEN 1 ELSE 0)
    <3>1. CASE k = key
      BY <2>3, <2>4, <3>1
    <3>2. CASE k # key
      BY <1>1, <1>6, <1>7, <2>1, <3>2 DEF Deliveries
    <3> QED BY <3>1, <3>2
  <2> QED BY <2>5 DEF Deliveries
<1>10. ASSUME NEW k \in DedupKey, Handled(k)
       PROVE  Handled(k)'
  BY <1>1, <1>2, <1>3, <1>4, <1>10 DEF Handled, Counts
<1> QED BY <1>1, <1>3, <1>7, <1>8, <1>9, <1>10, NotifierFacts, NotifierStep DEF Counts

\* record_alert_sent
LEMMA RecordSentStep == ASSUME BatchInv, RecordSent PROVE BatchInv'
<1>1. /\ batch.pc = "recordSent" /\ batch.pc \in Notifying
      /\ UNCHANGED <<delivered, batches, faults>>
  BY DEF RecordSent, Notifying
<1>2. PICK key \in DedupKey : key = Key
  BY NotifierFacts
<1>3. /\ dedup' = [dedup EXCEPT ![key] = "cooldown"] /\ Go(batch.back)
      /\ dedup \in [DedupKey -> {"absent", "cooldown", "past"}]
      /\ batch.back \in Labels /\ batch.back \notin Notifying
      /\ SilenceIsEarned /\ delivered[key] > 0 /\ Deliveries
  BY <1>1, <1>2, NotifierFacts DEF RecordSent, Cooldowns
<1>4. /\ batch' \in BatchState /\ batch'.pc = batch.back
      /\ UNCHANGED <<Counts, batch.event, batch.back>>
  BY <1>3, NotifierFacts, Gone
<1>5. /\ dedup' \in [DedupKey -> {"absent", "cooldown", "past"}] /\ dedup'[key] = "cooldown"
      /\ \A k \in DedupKey : k # key => dedup'[k] = dedup[k]
  BY <1>3
<1>6. batch'.pc \notin {"post", "recordSent"}
  BY <1>3, <1>4 DEF Notifying
<1>7. Cooldowns'
  BY <1>1, <1>3, <1>5, <1>6 DEF Cooldowns, SilenceIsEarned
<1>8. Deliveries'
  <2>1. \A k \in DedupKey : Counted(k)' <=> Counted(k)
    BY <1>1, <1>2, <1>5, <1>6 DEF Counted
  <2> QED BY <1>1, <1>3, <2>1 DEF Deliveries
<1>9. ASSUME NEW k \in DedupKey, Handled(k)
      PROVE  Handled(k)'
  BY <1>2, <1>4, <1>5, <1>9 DEF Handled, Counts
<1> QED BY <1>1, <1>4, <1>5, <1>7, <1>8, <1>9, NotifierFacts, NotifierStep DEF Counts

\* A fault of the delivery, whether or not the webhook had received the alert.
LEMMA FaultyDelivery ==
    ASSUME BatchInv, batch.pc \in {"shouldSend", "post"}, Fault, dedup' = dedup,
           Deliver \/ UNCHANGED delivered, Key' = Key, batch'.pc # "recordSent",
           batch'.pc = "post" => batch.pc = "post"
    PROVE  delivered' \in [DedupKey -> Nat] /\ faults' \in Nat /\ Cooldowns' /\ Deliveries'
<1>1. PICK key \in DedupKey : key = Key
  BY NotifierFacts
<1>2. /\ delivered \in [DedupKey -> Nat] /\ faults \in Nat /\ faults' = faults + 1
      /\ SilenceIsEarned /\ Deliveries /\ (batch.pc = "post" => dedup[key] # "cooldown")
  BY <1>1, NotifierFacts DEF Fault, Cooldowns
<1>3. \/ UNCHANGED delivered
      \/ delivered' = [delivered EXCEPT ![key] = delivered[key] + 1]
  BY <1>1 DEF Deliver
<1>4. /\ delivered' \in [DedupKey -> Nat]
      /\ \A k \in DedupKey : delivered[k] <= delivered'[k] /\ delivered'[k] <= delivered[k] + 1
  BY <1>2, <1>3
<1>5. Cooldowns'
  <2>1. \A k \in DedupKey : delivered[k] > 0 => delivered'[k] > 0
    BY <1>2, <1>4
  <2> QED BY <1>1, <1>2, <2>1 DEF Cooldowns, SilenceIsEarned
<1>6. ASSUME NEW k \in DedupKey
      PROVE  delivered'[k] <= faults' + (IF Counted(k)' THEN 1 ELSE 0)
  <2>1. Counted(k)' <=> Counted(k)
    BY DEF Counted
  <2>2. delivered[k] <= faults + (IF Counted(k) THEN 1 ELSE 0)
    BY <1>2 DEF Deliveries
  <2>3. /\ delivered[k] \in Nat /\ delivered'[k] \in Nat
        /\ delivered'[k] <= delivered[k] + 1
    BY <1>2, <1>4
  <2>4. CASE Counted(k)
    BY <1>2, <2>1, <2>2, <2>3, <2>4
  <2>5. CASE ~Counted(k)
    BY <1>2, <2>1, <2>2, <2>3, <2>5
  <2> QED BY <2>4, <2>5
<1> QED BY <1>2, <1>4, <1>5, <1>6 DEF Deliveries

\* NotificationError: the alert is given up, and counts as such.
LEMMA GivenUp ==
    ASSUME BatchInv, batch.pc \in {"shouldSend", "post"}, dedup' = dedup, batch' = GiveUp
    PROVE  /\ batch' \in BatchState /\ batch'.pc = batch.back /\ batch'.pc \notin Notifying
           /\ Key' = Key
           /\ UNCHANGED <<batch.set, batch.published, batch.undone, batch.failed, batch.exit>>
           /\ \A k \in DedupKey : Handled(k) => Handled(k)'
<1>1. /\ batch.pc \in Notifying /\ batch \in BatchState /\ batch.back \in Labels
      /\ batch.back \notin Notifying /\ batch.lost \subseteq DedupKey
  BY NotifierFacts DEF Notifying
<1>2. PICK key \in DedupKey : key = Key
  BY NotifierFacts
<1>3. PICK back, lost : back = batch.back /\ lost = batch.lost \union {key}
  OBVIOUS
<1>4. /\ batch' \in BatchState /\ batch'.pc = batch.back
      /\ batch'.lost = batch.lost \union {key} /\ batch'.event = batch.event
      /\ UNCHANGED <<batch.set, batch.published, batch.undone, batch.failed, batch.exit>>
  <2>1. back \in Labels /\ lost \in SUBSET DedupKey
    BY <1>1, <1>2, <1>3
  <2>2. batch' = [batch EXCEPT !.pc = back, !.lost = lost]
    BY <1>2, <1>3 DEF GiveUp
  <2>3. /\ batch' \in BatchState /\ batch'.pc = back /\ batch'.lost = lost
        /\ batch'.event = batch.event
        /\ UNCHANGED <<batch.set, batch.published, batch.undone, batch.failed, batch.exit>>
    BY <1>1, <2>1, <2>2 DEF BatchState
  <2> QED BY <1>3, <2>3
<1>5. Key' = Key
  BY <1>4 DEF Key
<1>6. ASSUME NEW k \in DedupKey, Handled(k)
      PROVE  Handled(k)'
  BY <1>2, <1>4, <1>6 DEF Handled
<1> QED BY <1>1, <1>4, <1>5, <1>6

\* The delivery is not attempted, or is refused.
LEMMA RejectedStep == ASSUME BatchInv, Rejected PROVE BatchInv'
<1>1. /\ batch.pc \in {"shouldSend", "post"} /\ batch.pc \in Notifying /\ Fault
      /\ batch' = GiveUp /\ UNCHANGED <<dedup, delivered, batches>>
  BY DEF Rejected, Notifying
<1>2. /\ batch' \in BatchState /\ batch'.pc = batch.back /\ batch'.pc \notin Notifying
      /\ Key' = Key
      /\ UNCHANGED <<batch.set, batch.published, batch.undone, batch.failed, batch.exit>>
      /\ \A k \in DedupKey : Handled(k) => Handled(k)'
  BY <1>1, GivenUp
<1>3. batch'.pc \notin {"post", "recordSent"}
  BY <1>2 DEF Notifying
<1>4. delivered' \in [DedupKey -> Nat] /\ faults' \in Nat /\ Cooldowns' /\ Deliveries'
  BY <1>1, <1>2, <1>3, FaultyDelivery
<1> QED BY <1>1, <1>2, <1>4, NotifierFacts, NotifierStep

\* No answer: the second attempt, or the end of it.
LEMMA UnansweredStep == ASSUME BatchInv, Unanswered PROVE BatchInv'
<1>1. /\ batch.pc = "post" /\ batch.pc \in Notifying /\ Fault
      /\ UNCHANGED <<dedup, batches>> /\ (Deliver \/ UNCHANGED delivered)
  BY DEF Unanswered, Notifying
<1>2. /\ batch' \in BatchState /\ batch'.pc # "recordSent" /\ Key' = Key
      /\ UNCHANGED <<batch.set, batch.published, batch.undone, batch.failed, batch.exit>>
      /\ \/ batch'.pc = batch.back
         \/ batch'.pc \in Notifying /\ batch'.back = batch.back
      /\ \A k \in DedupKey : Handled(k) => Handled(k)'
  <2>1. CASE batch' = [batch EXCEPT !.attempt = 1]
    <3>1. /\ batch' \in BatchState /\ batch'.pc = "post" /\ batch'.back = batch.back
          /\ batch'.event = batch.event /\ batch'.lost = batch.lost
          /\ UNCHANGED <<batch.set, batch.published, batch.undone, batch.failed, batch.exit>>
      BY <1>1, <2>1, NotifierFacts DEF BatchState
    <3>2. Key' = Key
      BY <3>1 DEF Key
    <3> QED BY <1>1, <3>1, <3>2 DEF Handled
  <2>2. CASE batch' = GiveUp
    BY <1>1, <2>2, GivenUp DEF Notifying
  <2> QED BY <2>1, <2>2 DEF Unanswered
<1>3. delivered' \in [DedupKey -> Nat] /\ faults' \in Nat /\ Cooldowns' /\ Deliveries'
  BY <1>1, <1>2, FaultyDelivery
<1> QED BY <1>1, <1>2, <1>3, NotifierFacts, NotifierStep

\* The time of the notifier is over, and with it the batch.
LEMMA TimesOutStep == ASSUME BatchInv, TimesOut PROVE BatchInv'
<1>1. /\ batch.pc = "post" /\ batch.pc \in Notifying /\ Fault /\ Go("ended")
      /\ UNCHANGED <<dedup, batches>> /\ (Deliver \/ UNCHANGED delivered)
  BY DEF TimesOut, Notifying
<1>2. /\ batch' \in BatchState /\ batch'.pc = "ended"
      /\ UNCHANGED <<Counts, batch.event, batch.back>>
  BY <1>1, NotifierFacts, Gone
<1>3. Key' = Key
  BY <1>2 DEF Key, Counts
<1>4. delivered' \in [DedupKey -> Nat] /\ faults' \in Nat /\ Cooldowns' /\ Deliveries'
  BY <1>1, <1>2, <1>3, FaultyDelivery
<1> QED BY <1>1, <1>2, <1>4, NotifierFacts, NotifierStep DEF Counts

\* The end of a cooldown concerns no alert in hand.
LEMMA CooldownEndsStep ==
    ASSUME BatchInv, NEW key \in DedupKey, CooldownEnds(key)
    PROVE  BatchInv'
<1>1. /\ UNCHANGED <<batch, batches, faults>> /\ dedup[key] = "cooldown"
      /\ dedup' = [dedup EXCEPT ![key] = "past"]
      /\ delivered' = [delivered EXCEPT ![key] = 0]
  BY DEF CooldownEnds
<1>2. /\ dedup \in [DedupKey -> {"absent", "cooldown", "past"}]
      /\ delivered \in [DedupKey -> Nat] /\ faults \in Nat
      /\ Cooldowns /\ Deliveries /\ Key \in DedupKey
  BY NotifierFacts
<1>3. /\ dedup' \in [DedupKey -> {"absent", "cooldown", "past"}]
      /\ delivered' \in [DedupKey -> Nat] /\ dedup'[key] = "past" /\ delivered'[key] = 0
      /\ \A k \in DedupKey : k # key => dedup'[k] = dedup[k] /\ delivered'[k] = delivered[k]
  BY <1>1, <1>2
<1>4. Key' = Key
  BY <1>1 DEF Key
<1>5. TypeInv'
  BY <1>1, <1>3, TypesKept DEF BatchInv, TypeInv, TypeOK, Backs
<1>6. FailedSets' = FailedSets /\ Due' = Due /\ Point' = Point
  BY <1>1 DEF FailedSets, Due, Point
<1>7. Progress' /\ BatchIsComplete'
  BY <1>1, <1>6 DEF BatchInv, Progress, BatchIsComplete
<1>8. Cooldowns'
  <2>1. PICK k0 \in DedupKey : k0 = Key
    BY <1>2
  <2>2. batch.pc \in {"post", "recordSent"} => dedup'[k0] # "cooldown" /\ dedup[k0] # "cooldown"
    BY <1>2, <1>3, <2>1 DEF Cooldowns
  <2>3. batch.pc = "recordSent" => delivered'[k0] > 0
    BY <1>1, <1>2, <1>3, <2>1, <2>2 DEF Cooldowns
  <2>4. \A k \in DedupKey : dedup'[k] = "cooldown" => delivered'[k] > 0
    BY <1>2, <1>3 DEF Cooldowns, SilenceIsEarned
  <2> QED BY <1>1, <1>4, <2>1, <2>2, <2>3, <2>4 DEF Cooldowns, SilenceIsEarned
<1>9. ASSUME NEW k \in DedupKey
      PROVE  delivered'[k] <= faults' + (IF Counted(k)' THEN 1 ELSE 0)
  <2>1. CASE k = key
    BY <1>1, <1>2, <1>3, <2>1
  <2>2. CASE k # key
    <3>1. Counted(k)' <=> Counted(k)
      BY <1>1, <1>3, <1>4, <2>2 DEF Counted
    <3> QED BY <1>1, <1>2, <1>3, <2>2, <3>1 DEF Deliveries
  <2> QED BY <2>1, <2>2
<1>10. ASSUME NEW k \in DedupKey, Handled(k)
       PROVE  Handled(k)'
  BY <1>1, <1>3, <1>4, <1>10 DEF Handled
<1>11. Alerts'
  <2>1. Alerts
    BY DEF BatchInv
  <2>2. Enabled /\ (batch.pc \notin Ended \/ batch.exit # "NONE") => \A k \in Due : Handled(k)'
    BY <1>10, <2>1, Keys DEF Alerts
  <2>3. PICK set : set = batch.set
    OBVIOUS
  <2>4. Enabled /\ Point \in {"auditFailed", "rollback"} => Handled(<<"AUDIT_FAILED", set>>)
    BY <2>1, <2>3 DEF Alerts
  <2>5. Enabled /\ Point \in {"auditFailed", "rollback"} => Handled(<<"AUDIT_FAILED", set>>)'
    BY <1>10, <2>3, <2>4, Keys
  <2> QED BY <1>1, <1>6, <2>2, <2>3, <2>5 DEF Alerts
<1> QED BY <1>5, <1>7, <1>8, <1>9, <1>11 DEF BatchInv, Deliveries

-----------------------------------------------------------------------------
(***************************************************************************)
(* The invariant.                                                          *)
(***************************************************************************)

\* It holds before the first batch.
LEMMA InitBatch == Init => BatchInv
<1> SUFFICES ASSUME Init PROVE BatchInv
  OBVIOUS
<1>1. /\ batch = NoBatch /\ batches = 0 /\ faults = 0
      /\ dedup = [k \in DedupKey |-> "absent"] /\ delivered = [k \in DedupKey |-> 0]
  BY DEF Init
<1>2. /\ batch \in BatchState /\ batch.pc = "stopped"
      /\ batch.published = {} /\ batch.failed = {} /\ batch.undone = {} /\ batch.exit = "NONE"
  BY <1>1, Fresh
<1>3. Point = "stopped" /\ batch.pc \notin Notifying /\ "stopped" \notin Working
  BY <1>2 DEF Point, Notifying, Working
<1>4. TypeInv
  BY <1>1, <1>2, <1>3 DEF TypeInv, TypeOK, BatchState
<1>5. FailedSets = {} /\ Due = {}
  BY <1>2 DEF FailedSets, Due
<1>6. Progress /\ BatchIsComplete
  BY <1>2, <1>3, <1>5 DEF Progress, BatchIsComplete
<1>7. Cooldowns
  BY <1>1, <1>2 DEF Cooldowns, SilenceIsEarned
<1>8. Deliveries
  <2>1. \A k \in DedupKey : delivered[k] = 0 /\ ~Counted(k)
    BY <1>1, <1>2 DEF Counted
  <2> QED BY <1>1, <2>1 DEF Deliveries
<1>9. Alerts
  BY <1>3, <1>5 DEF Alerts
<1> QED BY <1>4, <1>6, <1>7, <1>8, <1>9 DEF BatchInv

\* Every step keeps it.
LEMMA NextBatch == BatchInv /\ [Next]_vars => BatchInv'
<1> SUFFICES ASSUME BatchInv, [Next]_vars PROVE BatchInv'
  OBVIOUS
<1>1. CASE Begin
  BY <1>1, BeginStep
<1>2. CASE \/ Published \/ AuditSucceeds \/ AuditFails \/ AfterFailedAudit \/ RolledBack
           \/ Retained \/ Renewed \/ Escapes \/ \E error \in Renewable : Failed(error)
  BY <1>2, SetStep
<1>3. CASE NextSet
  BY <1>3, NextSetStep, LastSetStep
<1>4. CASE Die
  BY <1>4, DieStep
<1>5. CASE ShouldSend
  BY <1>5, ShouldSendStep
<1>6. CASE Posted
  BY <1>6, PostedStep
<1>7. CASE RecordSent
  BY <1>7, RecordSentStep
<1>8. CASE Rejected
  BY <1>8, RejectedStep
<1>9. CASE Unanswered
  BY <1>9, UnansweredStep
<1>10. CASE TimesOut
  BY <1>10, TimesOutStep
<1>11. CASE \E k \in DedupKey : CooldownEnds(k)
  BY <1>11, CooldownEndsStep
<1>12. CASE UNCHANGED vars
  <2>1. UNCHANGED <<dedup, delivered, batch, batches, faults>>
    BY <1>12 DEF vars
  <2>2. FailedSets' = FailedSets /\ Due' = Due /\ Point' = Point /\ Key' = Key
    BY <2>1 DEF FailedSets, Due, Point, Key
  <2>3. TypeInv' /\ Progress' /\ BatchIsComplete'
    BY <2>1, <2>2 DEF BatchInv, TypeInv, TypeOK, Progress, BatchIsComplete
  <2>4. Cooldowns' /\ Deliveries'
    BY <2>1, <2>2 DEF BatchInv, Cooldowns, SilenceIsEarned, Deliveries, Counted
  <2>5. Alerts'
    BY <2>1, <2>2 DEF BatchInv, Alerts, Handled
  <2> QED BY <2>3, <2>4, <2>5 DEF BatchInv
<1> QED
  BY <1>1, <1>2, <1>3, <1>4, <1>5, <1>6, <1>7, <1>8, <1>9, <1>10, <1>11, <1>12 DEF Next

\* Once a set is over, the alerts due are delivered or given up: none is in
\* progress.
LEMMA AlertsAreOver == BatchInv => FailuresAreAlerted
<1> SUFFICES ASSUME BatchInv, Enabled, batch.pc = "next" \/ batch.exit # "NONE"
             PROVE  \A k \in Due : dedup[k] # "absent" \/ k \in batch.lost
  BY DEF FailuresAreAlerted, Due
<1>1. batch.pc \notin Notifying /\ (batch.pc \notin Ended \/ batch.exit # "NONE")
  BY DEF BatchInv, Progress, Notifying, Ended
<1> QED BY <1>1 DEF BatchInv, Alerts, Handled

\* One delivery starts a cooldown, the others are due to faults.
LEMMA DeliveriesAreFew == BatchInv => AlertsAreBounded
<1> SUFFICES ASSUME BatchInv, NEW k \in DedupKey PROVE delivered[k] <= 1 + faults
  BY DEF AlertsAreBounded
<1>1. delivered[k] \in Nat /\ faults \in Nat
  BY DEF BatchInv, TypeInv, TypeOK
<1>2. delivered[k] <= faults + (IF Counted(k) THEN 1 ELSE 0)
  BY DEF BatchInv, Deliveries
<1>3. CASE Counted(k)
  BY <1>1, <1>2, <1>3
<1>4. CASE ~Counted(k)
  BY <1>1, <1>2, <1>4
<1> QED BY <1>3, <1>4

\* The inductive invariant of the renewal batch and the notifier.
THEOREM BatchInvariance == Spec => []BatchInv
BY InitBatch, NextBatch, PTL DEF Spec

\* The tables, and the locals of renew_all, keep their types.
THEOREM Types == Spec => []TypeOK
<1>1. BatchInv => TypeOK
  BY DEF BatchInv, TypeInv
<1> QED BY <1>1, BatchInvariance, PTL

\* renew_all: a batch that ends with an exit code has attempted every set, and
\* its code is SUCCESS if and only if all of them were published.
THEOREM BatchCompleteness == Spec => []BatchIsComplete
<1>1. BatchInv => BatchIsComplete
  BY DEF BatchInv
<1> QED BY <1>1, BatchInvariance, PTL

\* NotificationService.notify: only a delivered alert silences the next one.
THEOREM SilenceEarned == Spec => []SilenceIsEarned
<1>1. BatchInv => SilenceIsEarned
  BY DEF BatchInv, Cooldowns
<1> QED BY <1>1, BatchInvariance, PTL

\* The retry of the webhook: an alert is received at most once per cooldown,
\* and once more for each fault.
THEOREM AlertsBounded == Spec => []AlertsAreBounded
BY DeliveriesAreFew, BatchInvariance, PTL

\* _notify_event: what failed, or was undone, is delivered or given up before
\* the batch goes on to the next set, and when it ends with its exit code.
THEOREM FailuresAlerted == Spec => []FailuresAreAlerted
BY AlertsAreOver, BatchInvariance, PTL
================================================================================
