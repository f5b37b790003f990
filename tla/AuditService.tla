----------------------------- MODULE AuditService -----------------------------
(***************************************************************************)
(* AuditService.audit, which decides the audits of PublicationService: the *)
(* endpoints are probed address by address until one attempt finds the     *)
(* expected leaf everywhere or the time is up.  The consumers follow       *)
(* CURRENT, each at its own pace.                                          *)
(***************************************************************************)
EXTENDS PublicationService, SequencesExt

CONSTANTS
    Endpoints,           \* audit.endpoints: the addresses each resolves to
    RequireAllAddresses  \* audit.require_all_addresses

ASSUME AuditServiceAssumption ==
    /\ Endpoints \in Seq(SUBSET UNION ToSet(Endpoints) \ {{}})
    /\ RequireAllAddresses \in BOOLEAN

VARIABLES
    presents,   \* the leaf that each address presents
    check       \* the audit in progress: the leaf it expects, the addresses
                \* that this attempt has probed and those that matched

auditVars == <<presents, check>>

Address == UNION ToSet(Endpoints)

NoCheck == [expected |-> 0, probed |-> {}, matched |-> {}]

Attempt(fp) == [NoCheck EXCEPT !.expected = fp]

AuditInit ==
    /\ presents = [a \in Address |-> oci.versions[oci.current]]
    /\ check = NoCheck

\* A consumer takes up the leaf of CURRENT.
TakeUp(a) ==
    /\ presents[a] # oci.versions[oci.current]
    /\ presents' = [presents EXCEPT ![a] = oci.versions[oci.current]]
    /\ UNCHANGED <<vars, check>>

-----------------------------------------------------------------------------
\* Where a command waits for AuditService.audit, and where it goes on after a
\* success.
Auditing == {"audit", "rollbackAudit"}

Passed == {"recordAudit", "rollbackComplete"}

InAudit(p) == proc[p].pc \in Auditing /\ AuditMode # "disabled"

\* The leaf a step of p hands to the audit: that of the CURRENT bundle, or
\* the one the rollback has confirmed.
Expected(p) ==
    IF proc[p].pc = "auditBundle" THEN oci.versions[oci.served] ELSE proc[p].fp

\* _endpoint_matches, given what the presented leaves of an endpoint matched.
\* Mutant: one address is enough whatever the configuration.
MatchesAny(addresses, matched) == addresses \intersect matched # {}

Matches(addresses, matched) ==
    IF RequireAllAddresses THEN addresses \subseteq matched
                           ELSE addresses \intersect matched # {}

\* _once: the endpoints that this attempt has found wanting.
Failures == {i \in DOMAIN Endpoints : ~Matches(Endpoints[i], check.matched)}

\* One probe; a connection that fails does not match.  The addresses of an
\* endpoint are probed concurrently, the endpoints one after the other.
ProbeAddress(p, i, a) ==
    /\ InAudit(p)
    /\ a \in Endpoints[i] \ check.probed
    /\ \A j \in 1..i - 1 : Endpoints[j] \subseteq check.probed
    /\ \E answers \in BOOLEAN :
          check' = [check EXCEPT
                      !.probed = check.probed \union {a},
                      !.matched = IF answers /\ presents[a] = check.expected
                                  THEN check.matched \union {a} ELSE check.matched]
    /\ UNCHANGED <<vars, presents>>

\* After a failed attempt and before the deadline: another one, from nothing.
Retry(p) ==
    /\ InAudit(p)
    /\ check.probed = Address /\ Failures # {}
    /\ check' = Attempt(check.expected)
    /\ UNCHANGED <<vars, presents>>

\* What a step of a command does to its audit: entering it starts the first
\* attempt, and its verdict is that of a completed attempt.
Audited(p) ==
    /\ InAudit(p) /\ ops' # ops =>
          check.probed = Address /\ (proc'[p].pc \in Passed <=> Failures = {})
    /\ check' = IF proc'[p].pc \in Auditing THEN Attempt(Expected(p)) ELSE NoCheck
    /\ UNCHANGED presents

AuditNext ==
    \/ \E a \in Address : TakeUp(a)
    \/ \E p \in Process : \/ \E i \in DOMAIN Endpoints : \E a \in Endpoints[i] : ProbeAddress(p, i, a)
                          \/ Retry(p)

-----------------------------------------------------------------------------
\* An audit that succeeds is not misled by the order of its probes, although
\* a late request may move CURRENT, and the consumers with it, between any two
\* of them: if CURRENT still carries the expected leaf, the endpoints present
\* it, at all of their addresses where that is required.
VerdictIsTrue ==
    [][\A p \in Process :
          InAudit(p) /\ proc'[p].pc \in Passed
            /\ check.expected = oci.versions[oci.current] =>
                 \A i \in DOMAIN Endpoints :
                    IF RequireAllAddresses
                    THEN \A a \in Endpoints[i] : presents[a] = check.expected
                    ELSE \E a \in Endpoints[i] : presents[a] = check.expected]_<<vars, auditVars>>
=============================================================================
