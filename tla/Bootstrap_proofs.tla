--------------------------- MODULE Bootstrap_proofs ---------------------------
(***************************************************************************)
(* Proofs about Bootstrap, for any bounds, whichever commands start it and *)
(* whether or not OCI refuses a second certificate of the same name.       *)
(***************************************************************************)
EXTENDS Bootstrap, SequenceTheorems, TLAPS

\* The steps that lead to the creation of a certificate, and the ones that
\* follow it.
Before == {"start", "validated", "create", "created"}

Named == {"bundle", "versionFailed", "confirmed", "record", "complete"}

Logging == {"validated", "create", "uploadFailed", "created"} \union Named

Labels ==
    {"stopped", "open", "migrate", "lookUp", "issue", "recover", "start"} \union Logging

RunState ==
    [pc : Labels, back : Labels, statement : DOMAIN Statements, op : Nat, fp : Nat, ocid : Nat]

\* Where the command is, the opening of the store apart.
Point == IF run.pc \in {"open", "migrate"} THEN run.back ELSE run.pc

TypeInv ==
    /\ TypeOK /\ run \in RunState
    /\ run.pc \in {"open", "migrate"} => run.back \in {"lookUp", "recover"}

\* The version is recorded last, so a store that has it is whole.
Store ==
    /\ Migrated(schema) => schema = Objects
    /\ run.pc = "migrate" =>
          /\ run.statement # 1
          /\ \A k \in 1..run.statement - 1 : Statements[k] \in schema
    /\ StoreIsWhole

\* An OCID that a row names is that of a certificate that carries its leaf.
Rows ==
    \A i \in DOMAIN ops :
        /\ ops[i].type = "BOOTSTRAP"
        /\ ops[i].ocid # Null => certs[ops[i].ocid] = ops[i].fp
        /\ ops[i].state = "COMPLETED" => ops[i].ocid # Null

\* The rows from which a bootstrap of a leaf can be recovered.
Recoverable(fp) == {i \in Active(ops) : ops[i].fp = fp /\ ops[i].ocid # Null}

\* What the locals of the command are worth at each of its steps.
Locals ==
    /\ Point \in {"recover", "start"} \union Logging => run.fp = local /\ local # Null
    /\ run.pc \in Logging => run.op \in Active(ops) /\ ops[run.op].fp = run.fp
    /\ run.pc \in Named \union {"created"} =>
          run.ocid \in DOMAIN certs /\ certs[run.ocid] = run.fp
    /\ run.pc \in Named => ops[run.op].ocid = run.ocid
    /\ run.pc \in Before => Recoverable(run.fp) = {}

\* renew_all goes beyond its look-up only if there is no confirmed OCID.
Unconfirmed ==
    "bootstrap" \notin Entry /\ Point \notin {"stopped", "lookUp"} => ConfirmedOcids = {}

BootstrapInv ==
    /\ TypeInv /\ Store /\ Rows /\ Locals /\ Unconfirmed
    /\ ConfirmedIdentityIsReal /\ RecoveryIsUnambiguous

-----------------------------------------------------------------------------
(***************************************************************************)
(* The locals of the command and the statements of the migration.          *)
(***************************************************************************)

\* Six statements, the version last.
LEMMA SixStatements == DOMAIN Statements = 1..6 /\ Len(Statements) = 6
BY DEF Statements

\* Each creates an object.
LEMMA StatementObjects ==
    /\ \A k \in 1..6 : Statements[k] \in Objects
    /\ \A schema0 : (\A k \in 1..6 : Statements[k] \in schema0) => Objects \subseteq schema0
BY SixStatements DEF Objects

\* The last one records the version.
LEMMA VersionLast ==
    ASSUME NEW k \in 1..6
    PROVE  Statements[k] = "version 1" <=> k = 6
<1>1. k = 1 \/ k = 2 \/ k = 3 \/ k = 4 \/ k = 5 \/ k = 6
  OBVIOUS
<1>2. /\ Statements[1] = "schema_meta" /\ Statements[2] = "operations"
      /\ Statements[3] = "certificate_state" /\ Statements[4] = "alert_dedup"
      /\ Statements[5] = "operations_certificate_state" /\ Statements[6] = "version 1"
  BY DEF Statements
<1> QED BY <1>1, <1>2

\* A command that has not begun.
LEMMA StoppedState ==
    /\ Stopped \in RunState /\ Stopped.pc = "stopped" /\ Stopped.op = 0 /\ Stopped.ocid = 0
BY SixStatements DEF Stopped, RunState, Labels

\* The command goes on elsewhere with the same locals.
LEMMA GoneOn ==
    ASSUME run \in RunState, NEW label \in Labels
    PROVE  /\ At(label) \in RunState /\ At(label).pc = label /\ At(label).back = run.back
           /\ At(label).statement = run.statement /\ At(label).op = run.op
           /\ At(label).fp = run.fp /\ At(label).ocid = run.ocid
BY DEF At, RunState

\* What the invariant says of the types.
LEMMA Types ==
    ASSUME BootstrapInv
    PROVE  /\ run \in RunState /\ schema \subseteq Objects
           /\ certs \in Seq(Nat \ {0}) /\ Len(certs) \in Nat /\ DOMAIN certs = 1..Len(certs)
           /\ ops \in Seq(Operation) /\ Len(ops) \in Nat /\ DOMAIN ops = 1..Len(ops)
           /\ \A i \in DOMAIN ops : ops[i] \in Operation /\ ops[i].ocid \in 0..Len(certs)
           /\ certState \in CertificateState /\ local \in Nat /\ faults \in Nat
           /\ run.op \in 0..Len(ops) /\ run.ocid \in 0..Len(certs)
           /\ run.op \in Nat /\ run.ocid \in Nat /\ run.fp \in Nat
           /\ Store /\ Rows /\ Locals /\ Unconfirmed
           /\ ConfirmedIdentityIsReal /\ RecoveryIsUnambiguous
BY DEF BootstrapInv, TypeInv, TypeOK, RunState

\* The store stays whole for the steps that use it, and is left to the ones
\* that open it.
LEMMA StoreKept ==
    ASSUME BootstrapInv, schema' = schema, run'.pc # "migrate",
           \/ run.pc \notin {"stopped", "issue", "open", "migrate"}
           \/ run'.pc \in {"stopped", "issue", "open"}
    PROVE  Store'
BY DEF BootstrapInv, Store, StoreIsWhole, Migrated

\* A step that changes nothing but the locals of the command, and the store's
\* schema.
LEMMA LocalStep ==
    ASSUME BootstrapInv, UNCHANGED <<certs, ops, certState>>, local' \in Nat, faults' \in Nat,
           schema' \subseteq Objects, run' \in RunState,
           run'.op \in 0..Len(ops), run'.ocid \in 0..Len(certs),
           run'.pc \in {"open", "migrate"} => run'.back \in {"lookUp", "recover"},
           Store', Locals', Unconfirmed'
    PROVE  BootstrapInv'
<1>1. Rows' /\ ConfirmedIdentityIsReal' /\ RecoveryIsUnambiguous'
  BY DEF BootstrapInv, Rows, ConfirmedIdentityIsReal, RecoveryIsUnambiguous, Active
<1>2. TypeOK'
  <2>1. run'.statement \in DOMAIN Statements
    BY DEF RunState
  <2> QED BY <2>1, Types DEF TypeOK
<1> QED BY <1>1, <1>2 DEF BootstrapInv, TypeInv

\* The command ends, whatever the reason.
LEMMA StopStep ==
    ASSUME BootstrapInv, UNCHANGED <<schema, certs, ops, certState, local>>, faults' \in Nat,
           run' = Stopped
    PROVE  BootstrapInv'
<1>1. /\ run' \in RunState /\ run'.pc = "stopped" /\ run'.op = 0 /\ run'.ocid = 0
      /\ Point' = "stopped"
  BY StoppedState DEF Point
<1>2. Store'
  BY <1>1, StoreKept
<1>3. Locals' /\ Unconfirmed'
  BY <1>1 DEF Locals, Unconfirmed, Before, Named, Logging
<1>4. run'.op \in 0..Len(ops) /\ run'.ocid \in 0..Len(certs)
  BY <1>1, Types
<1> QED BY <1>1, <1>2, <1>3, <1>4, Types, LocalStep

\* An error, a kill.
LEMMA DieStep == ASSUME BootstrapInv, Die PROVE BootstrapInv'
<1>1. faults' \in Nat
  BY Types DEF Die, Fault
<1> QED BY <1>1, StopStep DEF Die

-----------------------------------------------------------------------------
(***************************************************************************)
(* The opening of the store.                                               *)
(***************************************************************************)

\* The start of a command.
LEMMA BeginStep == ASSUME BootstrapInv, NEW entry \in Entry, Begin(entry) PROVE BootstrapInv'
<1>1. /\ run.pc = "stopped" /\ UNCHANGED <<schema, certs, ops, certState, local, faults>>
      /\ "open" \in Labels /\ "lookUp" \in Labels /\ "issue" \in Labels
  BY DEF Begin, Labels
<1>2. CASE entry = "renew_all"
  <2>1. run' = [run EXCEPT !.pc = "open", !.back = "lookUp"]
    BY <1>2 DEF Begin, OpenFor
  <2>2. /\ run' \in RunState /\ run'.pc = "open" /\ run'.back = "lookUp"
        /\ run'.op = run.op /\ run'.ocid = run.ocid
    BY <1>1, <2>1, Types DEF RunState
  <2>3. Point' = "lookUp"
    BY <2>2 DEF Point
  <2>4. Store'
    BY <1>1, <2>2, StoreKept
  <2>5. Locals' /\ Unconfirmed'
    BY <2>2, <2>3 DEF Locals, Unconfirmed, Before, Named, Logging
  <2> QED BY <1>1, <2>2, <2>4, <2>5, Types, LocalStep
<1>3. CASE entry # "renew_all"
  <2>1. run' = [run EXCEPT !.pc = "issue"] /\ "bootstrap" \in Entry
    BY <1>3, BootstrapAssumption DEF Begin
  <2>2. /\ run' \in RunState /\ run'.pc = "issue"
        /\ run'.op = run.op /\ run'.ocid = run.ocid
    BY <1>1, <2>1, Types DEF RunState
  <2>3. Point' = "issue"
    BY <2>2 DEF Point
  <2>4. Store'
    BY <1>1, <2>2, StoreKept
  <2>5. Locals' /\ Unconfirmed'
    BY <2>1, <2>2, <2>3 DEF Locals, Unconfirmed, Before, Named, Logging
  <2> QED BY <1>1, <2>2, <2>4, <2>5, Types, LocalStep
<1> QED BY <1>2, <1>3

\* The command goes on to what it opened the store for, or to the next
\* statement: the locals it will use are as they were.
LEMMA OpeningStep ==
    ASSUME BootstrapInv, run.pc \in {"open", "migrate"}, run' \in RunState,
           UNCHANGED <<run.op, run.fp, run.ocid, certs, ops, certState, local, faults>>,
           run'.pc = run.back \/ (run'.pc = "migrate" /\ run'.back = run.back),
           schema' \subseteq Objects, Store'
    PROVE  BootstrapInv'
<1>1. run.back \in {"lookUp", "recover"} /\ Point = run.back /\ Locals /\ Unconfirmed
  BY DEF BootstrapInv, TypeInv, Point
<1>2. Point' = Point
  BY <1>1 DEF Point
<1>3. run'.pc \notin Logging /\ run'.pc \notin Before /\ run'.pc \notin Named
      /\ run'.pc # "created"
  BY <1>1 DEF Logging, Before, Named
<1>4. Locals'
  BY <1>1, <1>2, <1>3 DEF Locals
<1>5. ConfirmedOcids' = ConfirmedOcids
  BY DEF ConfirmedOcids
<1>6. Unconfirmed'
  BY <1>1, <1>2, <1>5 DEF Unconfirmed
<1> QED BY <1>1, <1>4, <1>6, Types, LocalStep

\* A migration that is under way.
LEMMA MidwayStore ==
    ASSUME run'.pc = "migrate", NEW next, next # 1, run'.statement = next,
           "version 1" \notin schema',
           \A k \in 1..next - 1 : Statements[k] \in schema'
    PROVE  Store'
<1>1. ~Migrated(schema)' /\ StoreIsWhole'
  BY DEF Migrated, StoreIsWhole
<1> QED BY <1>1 DEF Store

\* StateStore.open
LEMMA OpenStoreStep == ASSUME BootstrapInv, OpenStore PROVE BootstrapInv'
<1>1. /\ run.pc = "open" /\ schema' = Opened(schema) /\ run.back \in {"lookUp", "recover"}
      /\ UNCHANGED <<certs, ops, certState, local, faults>>
      /\ Migrated(schema) => schema = Objects
      /\ run \in RunState /\ schema \subseteq Objects
  BY Types DEF OpenStore, BootstrapInv, TypeInv, Store
<1>2. schema' = schema \union {Statements[1]} /\ schema' \subseteq Objects
  BY <1>1, StatementObjects DEF Opened
<1>3. CASE Migrated(schema)
  <2>1. run' = [run EXCEPT !.pc = run.back] /\ schema' = Objects
    BY <1>1, <1>2, <1>3 DEF OpenStore
  <2>2. PICK back \in {"lookUp", "recover"} : back = run.back
    BY <1>1
  <2>3. back \in Labels
    BY <2>2 DEF Labels
  <2>4. /\ run' \in RunState /\ run'.pc = back
        /\ UNCHANGED <<run.op, run.fp, run.ocid>>
    BY <1>1, <2>1, <2>2, <2>3 DEF RunState
  <2>5. Store'
    BY <2>1, <2>2, <2>4 DEF Store, StoreIsWhole, Migrated
  <2> QED BY <1>1, <1>2, <2>2, <2>4, <2>5, OpeningStep
<1>4. CASE ~Migrated(schema)
  <2>1. run' = [run EXCEPT !.pc = "migrate", !.statement = 2]
    BY <1>4 DEF OpenStore
  <2>2. "migrate" \in Labels /\ 2 \in DOMAIN Statements
    BY SixStatements DEF Labels
  <2>3. /\ run' \in RunState /\ run'.pc = "migrate" /\ run'.statement = 2
        /\ run'.back = run.back /\ UNCHANGED <<run.op, run.fp, run.ocid>>
    BY <1>1, <2>1, <2>2 DEF RunState
  <2>4. "version 1" \notin schema'
    <3>1. 1 \in 1..6 /\ 1 # 6
      OBVIOUS
    <3>2. Statements[1] # "version 1"
      BY <3>1, VersionLast
    <3> QED BY <1>2, <1>4, <3>2 DEF Migrated
  <2>5. 2 # 1 /\ \A k \in 1..2 - 1 : Statements[k] \in schema'
    BY <1>2
  <2>6. Store'
    BY <1>2, <2>3, <2>4, <2>5, MidwayStore
  <2> QED BY <1>1, <1>2, <2>3, <2>6, OpeningStep
<1> QED BY <1>3, <1>4

\* The next statement of the migration.
LEMMA MigrateStep == ASSUME BootstrapInv, Migrate PROVE BootstrapInv'
<1>1. CASE run' = Stopped /\ UNCHANGED schema
  BY <1>1, Types, StopStep DEF Migrate
<1>2. CASE ~Refuses(schema, run.statement)
  <2>1. /\ run.pc = "migrate" /\ run.back \in {"lookUp", "recover"}
        /\ UNCHANGED <<certs, ops, certState, local, faults>>
        /\ run \in RunState /\ schema \subseteq Objects
    BY Types DEF Migrate, BootstrapInv, TypeInv
  <2>2. PICK k \in 2..6 : k = run.statement
    <3>1. run.statement \in 1..6 /\ run.statement # 1
      BY <2>1, SixStatements DEF BootstrapInv, Store, RunState
    <3> QED BY <3>1
  <2>3. /\ \A j \in 1..k - 1 : Statements[j] \in schema
        /\ Statements[k] \notin schema
    BY <1>2, <2>1, <2>2 DEF BootstrapInv, Store, Refuses
  <2>4. schema' = schema \union {Statements[k]} /\ schema' \subseteq Objects
    BY <1>2, <2>1, <2>2, StatementObjects DEF Migrate, Executed, Refuses
  <2>5. "version 1" \notin schema
    <3>1. Store
      BY DEF BootstrapInv
    <3>2. Statements[k] \in Objects
      BY StatementObjects
    <3> QED BY <2>3, <3>1, <3>2 DEF Store, Migrated
  <2>6. CASE k = 6
    <3>1. run' = [run EXCEPT !.pc = run.back]
      BY <1>2, <2>2, <2>6, SixStatements DEF Migrate, Refuses
    <3>2. schema' = Objects
      <4>1. \A j \in 1..6 : j \in 1..k - 1 \/ j = k
        BY <2>6
      <4>2. \A j \in 1..6 : Statements[j] \in schema'
        BY <2>3, <2>4, <4>1
      <4> QED BY <2>4, <4>2, StatementObjects
    <3>3. PICK back \in {"lookUp", "recover"} : back = run.back
      BY <2>1
    <3>4. back \in Labels
      BY <3>3 DEF Labels
    <3>5. /\ run' \in RunState /\ run'.pc = back
          /\ UNCHANGED <<run.op, run.fp, run.ocid>>
      BY <2>1, <3>1, <3>3, <3>4 DEF RunState
    <3>6. Store'
      BY <3>2, <3>3, <3>5 DEF Store, StoreIsWhole, Migrated
    <3> QED BY <2>1, <2>4, <3>3, <3>5, <3>6, OpeningStep
  <2>7. CASE k # 6
    <3>1. PICK next \in 3..6 : next = k + 1
      BY <2>7
    <3>2. run' = [run EXCEPT !.statement = next]
      BY <1>2, <2>2, <2>7, <3>1, SixStatements DEF Migrate, Refuses
    <3>3. next \in DOMAIN Statements
      BY SixStatements
    <3>4. /\ run' \in RunState /\ run'.pc = "migrate" /\ run'.statement = next
          /\ run'.back = run.back /\ UNCHANGED <<run.op, run.fp, run.ocid>>
      BY <2>1, <3>2, <3>3 DEF RunState
    <3>5. "version 1" \notin schema'
      <4>1. k \in 1..6
        OBVIOUS
      <4>2. Statements[k] # "version 1"
        BY <2>7, <4>1, VersionLast
      <4> QED BY <2>4, <2>5, <4>2
    <3>6. next # 1 /\ \A j \in 1..next - 1 : Statements[j] \in schema'
      <4>1. \A j \in 1..next - 1 : j \in 1..k - 1 \/ j = k
        BY <3>1
      <4> QED BY <2>3, <2>4, <4>1
    <3>7. Store'
      BY <3>4, <3>5, <3>6, MidwayStore
    <3> QED BY <2>1, <2>4, <3>4, <3>7, OpeningStep
  <2> QED BY <2>6, <2>7
<1> QED BY <1>1, <1>2 DEF Migrate

-----------------------------------------------------------------------------
(***************************************************************************)
(* The steps that change no row.                                           *)
(***************************************************************************)

\* renew_all looks for a confirmed OCID.
LEMMA LookUpStep == ASSUME BootstrapInv, LookUp PROVE BootstrapInv'
<1>1. /\ run.pc = "lookUp" /\ UNCHANGED <<schema, certs, ops, certState, local, faults>>
      /\ "issue" \in Labels
  BY DEF LookUp, Labels
<1>2. CASE run' = Stopped
  BY <1>1, <1>2, Types, StopStep
<1>3. CASE ConfirmedOcids = {} /\ run' = [run EXCEPT !.pc = "issue"]
  <2>1. /\ run' \in RunState /\ run'.pc = "issue"
        /\ run'.op = run.op /\ run'.ocid = run.ocid
    BY <1>1, <1>3, Types DEF RunState
  <2>2. Point' = "issue" /\ ConfirmedOcids' = {}
    BY <1>1, <1>3, <2>1 DEF Point, ConfirmedOcids
  <2>3. Locals' /\ Unconfirmed'
    BY <2>1, <2>2 DEF Locals, Unconfirmed, Before, Named, Logging
  <2>4. Store'
    BY <1>1, <2>1, StoreKept
  <2> QED BY <1>1, <2>1, <2>3, <2>4, Types, LocalStep
<1> QED BY <1>2, <1>3 DEF LookUp

\* The lineage is issued, or is there: the command works on its leaf.
LEMMA IssueStep == ASSUME BootstrapInv, Issue PROVE BootstrapInv'
<1>1. /\ run.pc = "issue" /\ UNCHANGED <<schema, certs, ops, certState, faults>>
      /\ "open" \in Labels /\ "recover" \in Labels
  BY DEF Issue, Labels
<1>2. local' \in Nat /\ local' # Null
  BY Types DEF Issue, Null
<1>3. PICK leaf \in Nat : leaf = local'
  BY <1>2
<1>4. run' = [[run EXCEPT !.fp = leaf] EXCEPT !.pc = "open", !.back = "recover"]
  BY <1>3 DEF Issue, OpenFor
<1>5. /\ run' \in RunState /\ run'.pc = "open" /\ run'.back = "recover"
      /\ run'.fp = leaf /\ run'.op = run.op /\ run'.ocid = run.ocid
  BY <1>1, <1>4, Types DEF RunState
<1>6. Point' = "recover" /\ Point = "issue" /\ ConfirmedOcids' = ConfirmedOcids
  BY <1>1, <1>5 DEF Point, ConfirmedOcids
<1>7. Locals'
  BY <1>2, <1>3, <1>5, <1>6 DEF Locals, Before, Named, Logging
<1>8. Unconfirmed'
  BY <1>6, Types DEF Unconfirmed
<1>9. Store'
  BY <1>1, <1>5, StoreKept
<1> QED BY <1>1, <1>2, <1>5, <1>7, <1>8, <1>9, Types, LocalStep

\* An interrupted bootstrap of the leaf is taken up where it was, or there is
\* none to recover from.
LEMMA RecoverStep == ASSUME BootstrapInv, Recover PROVE BootstrapInv'
<1>1. /\ run.pc = "recover" /\ UNCHANGED <<schema, certs, ops, certState, local, faults>>
      /\ "start" \in Labels /\ "confirmed" \in Labels /\ Point = "recover"
  BY DEF Recover, Labels, Logging, Named, Point
<1>2. run.fp = local /\ local # Null
  BY <1>1, Types DEF Locals
<1>3. "bootstrap" \notin Entry => ConfirmedOcids' = {}
  BY <1>1, Types DEF Unconfirmed, ConfirmedOcids
<1>4. CASE Candidates = {} /\ Go("start")
  <2>1. run' = At("start")
    BY <1>4 DEF Go, At
  <2>2. /\ run' \in RunState /\ run'.pc = "start"
        /\ run'.op = run.op /\ run'.ocid = run.ocid /\ run'.fp = run.fp
    BY <1>1, <2>1, Types, GoneOn
  <2>3. Recoverable(run.fp) = {}
    BY <1>4, Types DEF Candidates, Recoverable, Rows, Active
  <2>4. Recoverable(run.fp)' = {}
    BY <1>1, <2>2, <2>3 DEF Recoverable, Active
  <2>5. Point' = "start"
    BY <2>2 DEF Point
  <2>6. Locals' /\ Unconfirmed'
    BY <1>1, <1>2, <1>3, <2>2, <2>4, <2>5 DEF Locals, Unconfirmed, Before, Named, Logging
  <2>7. Store'
    BY <1>1, <2>2, StoreKept
  <2> QED BY <1>1, <2>2, <2>6, <2>7, Types, LocalStep
<1>5. ASSUME NEW i \in Candidates, run' = Resume(i)
      PROVE  BootstrapInv'
  <2>1. CASE run' = Stopped
    BY <1>1, <2>1, Types, StopStep
  <2>2. CASE /\ certs[ops[i].ocid] = run.fp
             /\ run' = [run EXCEPT !.pc = "confirmed", !.op = i, !.ocid = ops[i].ocid]
    <3>1. /\ i \in Active(ops) /\ ops[i].fp = run.fp /\ ops[i].ocid # Null
          /\ i \in DOMAIN ops
      BY DEF Candidates, Active
    <3>2. PICK ocid : ocid = ops[i].ocid
      OBVIOUS
    <3>3. /\ ocid \in DOMAIN certs /\ ocid \in Nat /\ ocid \in 0..Len(certs)
          /\ i \in Nat /\ i \in 0..Len(ops)
      BY <3>1, <3>2, Types DEF Null
    <3>4. run' = [run EXCEPT !.pc = "confirmed", !.op = i, !.ocid = ocid]
      BY <2>2, <3>2
    <3>5. /\ run' \in RunState /\ run'.pc = "confirmed" /\ run'.op = i
          /\ run'.ocid = ocid /\ run'.fp = run.fp
      BY <1>1, <3>3, <3>4, Types DEF RunState
    <3>6. Point' = "confirmed"
      BY <3>5 DEF Point
    <3>7. Locals'
      BY <1>1, <1>2, <2>2, <3>1, <3>2, <3>3, <3>5, <3>6
      DEF Locals, Before, Named, Logging, Active
    <3>8. Unconfirmed'
      BY <1>3 DEF Unconfirmed
    <3>9. Store'
      BY <1>1, <3>5, StoreKept
    <3> QED BY <1>1, <3>3, <3>5, <3>7, <3>8, <3>9, Types, LocalStep
  <2> QED BY <1>5, <2>1, <2>2 DEF Resume
<1> QED BY <1>4, <1>5 DEF Recover

\* A step of the command that only moves on, its locals worth the same.
LEMMA MoveStep ==
    ASSUME BootstrapInv, run.pc \in Logging, NEW label \in Logging, run' = At(label),
           UNCHANGED <<schema, certs, ops, certState, local>>, faults' \in Nat,
           label \in Before => run.pc \in Before,
           label \in Named => run.pc \in Named,
           label # "created"
    PROVE  BootstrapInv'
<1>1. label \in Labels /\ label \notin {"open", "migrate"} /\ run.pc \notin {"open", "migrate"}
      /\ run.pc \notin {"stopped", "issue", "lookUp"}
  BY DEF Labels, Logging, Named
<1>2. /\ run' \in RunState /\ run'.pc = label
      /\ run'.op = run.op /\ run'.ocid = run.ocid /\ run'.fp = run.fp
  BY <1>1, Types, GoneOn
<1>3. Point' = label /\ Point = run.pc
  BY <1>1, <1>2 DEF Point
<1>4. Active(ops)' = Active(ops) /\ Recoverable(run.fp)' = Recoverable(run.fp)
  BY <1>2 DEF Active, Recoverable
<1>5. Locals'
  BY <1>2, <1>3, <1>4, Types DEF Locals
<1>6. Unconfirmed'
  BY <1>1, <1>3, Types DEF Unconfirmed, ConfirmedOcids
<1>7. Store'
  BY <1>1, <1>2, StoreKept
<1> QED BY <1>1, <1>2, <1>5, <1>6, <1>7, Types, LocalStep

\* The initial bundle.
LEMMA ReadBundleStep == ASSUME BootstrapInv, ReadBundle PROVE BootstrapInv'
<1>1. /\ run.pc = "bundle" /\ UNCHANGED <<schema, certs, ops, certState, local>>
      /\ run' = At("confirmed") \/ run' = At("versionFailed")
      /\ UNCHANGED faults \/ Fault
  BY DEF ReadBundle, Go, At
<1>2. faults' \in Nat
  BY <1>1, Types DEF Fault
<1>3. {"bundle", "confirmed", "versionFailed"} \subseteq Named \ Before /\ Named \subseteq Logging
      /\ "created" \notin Named
  BY DEF Named, Before, Logging
<1> QED BY <1>1, <1>2, <1>3, MoveStep

\* record_publication_success
LEMMA RecordStep == ASSUME BootstrapInv, Record PROVE BootstrapInv'
<1>1. /\ run.pc = "record" /\ run' = At("complete") /\ UNCHANGED <<schema, certs, ops, local, faults>>
      /\ run.pc \in Named /\ run.pc \in Logging
      /\ certState' = RecordPublicationSuccess(certState, run.fp, certs[run.ocid], 1)
  BY DEF Record, Go, At, Named, Logging
<1>2. run.ocid \in DOMAIN certs /\ certs[run.ocid] = run.fp /\ run.fp = local
  BY <1>1, Types DEF Locals, Point
<1>3. PICK fp \in Nat : fp = run.fp
  BY Types
<1>4. certState' = [certState EXCEPT !.local = fp, !.fp = fp, !.version = 1, !.published = TRUE]
  BY <1>1, <1>2, <1>3 DEF RecordPublicationSuccess
<1>5. certState' \in CertificateState /\ certState'.fp = fp
  BY <1>4, Types DEF CertificateState
<1>6. /\ run' \in RunState /\ run'.pc = "complete" /\ run'.statement = run.statement
      /\ run'.op = run.op /\ run'.ocid = run.ocid /\ run'.fp = run.fp
  BY <1>1, Types, GoneOn DEF Labels, Logging, Named
<1>7. Point' = "complete" /\ Point = "record"
  BY <1>1, <1>6 DEF Point
<1>8. Locals'
  BY <1>1, <1>2, <1>6, <1>7, Types DEF Locals, Before, Named, Logging, Active
<1>9. Unconfirmed' /\ Rows' /\ RecoveryIsUnambiguous'
  <2>1. Unconfirmed'
    BY <1>1, <1>7, Types DEF Unconfirmed, ConfirmedOcids
  <2>2. Rows'
    BY <1>1, Types DEF Rows
  <2>3. RecoveryIsUnambiguous'
    BY <1>1, Types DEF RecoveryIsUnambiguous, Active
  <2> QED BY <2>1, <2>2, <2>3
<1>10. Store'
  BY <1>1, <1>6, StoreKept
<1>11. ConfirmedIdentityIsReal'
  BY <1>1, <1>2, <1>3, <1>5, Types DEF ConfirmedIdentityIsReal
<1>12. TypeInv'
  <2>1. run'.statement \in DOMAIN Statements
    BY <1>6 DEF RunState
  <2> QED BY <1>1, <1>5, <1>6, <2>1, Types DEF TypeInv, TypeOK
<1> QED BY <1>8, <1>9, <1>10, <1>11, <1>12 DEF BootstrapInv

-----------------------------------------------------------------------------
(***************************************************************************)
(* The steps that change the table of operations.                          *)
(***************************************************************************)

\* transition rewrites one row.
LEMMA RowRewritten ==
    ASSUME ops \in Seq(Operation), NEW id \in DOMAIN ops, NEW state \in OperationState,
           NEW version \in Nat, NEW ocid \in Nat,
           ops' = Transition(ops, id, state, version, ocid)
    PROVE  /\ ops' \in Seq(Operation) /\ Len(ops') = Len(ops) /\ DOMAIN ops' = DOMAIN ops
           /\ \A i \in DOMAIN ops : i # id => ops'[i] = ops[i]
           /\ ops'[id].type = ops[id].type /\ ops'[id].fp = ops[id].fp
           /\ ops'[id].state = state /\ ops'[id].ocid = Coalesce(ocid, ops[id].ocid)
<1>1. ops[id] \in Operation
  OBVIOUS
<1>2. PICK version1 \in Nat : version1 = Coalesce(version, ops[id].version)
  BY <1>1 DEF Coalesce, Operation
<1>3. PICK ocid1 \in Nat : ocid1 = Coalesce(ocid, ops[id].ocid)
  BY <1>1 DEF Coalesce, Operation
<1>4. PICK row : row = [ops[id] EXCEPT !.state = state, !.version = version1, !.ocid = ocid1]
  OBVIOUS
<1>5. /\ row \in Operation /\ row.type = ops[id].type /\ row.fp = ops[id].fp
      /\ row.state = state /\ row.ocid = ocid1
  BY <1>1, <1>4 DEF Operation
<1>6. ops' = [ops EXCEPT ![id] = row]
  BY <1>2, <1>3, <1>4 DEF Transition
<1>7. /\ ops' \in Seq(Operation) /\ Len(ops') = Len(ops) /\ DOMAIN ops' = DOMAIN ops
      /\ ops'[id] = row /\ \A i \in DOMAIN ops : i # id => ops'[i] = ops[i]
  BY <1>5, <1>6, ExceptSeq
<1> QED BY <1>3, <1>5, <1>7

\* What a transition of the command's own row keeps: it may name a certificate
\* only if none can be recovered from, and only one that carries the leaf.
LEMMA RowLogged ==
    ASSUME BootstrapInv, run.pc \in Logging, NEW state \in OperationState,
           NEW version \in Nat, NEW ocid \in {Null, run.ocid},
           ocid # Null => run.pc = "created", state = "COMPLETED" => run.pc \in Named,
           ops' = Transition(ops, run.op, state, version, ocid),
           UNCHANGED <<certs, certState>>
    PROVE  /\ ops' \in Seq(Operation) /\ Len(ops') = Len(ops) /\ DOMAIN ops' = DOMAIN ops
           /\ \A i \in DOMAIN ops' : ops'[i].ocid \in 0..Len(certs')
           /\ ops'[run.op].fp = run.fp /\ ops'[run.op].state = state
           /\ ops'[run.op].ocid = Coalesce(ocid, ops[run.op].ocid)
           /\ \A i \in DOMAIN ops : i # run.op => ops'[i] = ops[i]
           /\ run.op \in Active(ops)
           /\ Rows' /\ ConfirmedIdentityIsReal' /\ RecoveryIsUnambiguous'
<1>1. /\ run.op \in Active(ops) /\ run.op \in DOMAIN ops /\ ops[run.op].fp = run.fp
      /\ ocid \in Nat /\ ocid \in 0..Len(certs)
      /\ Rows /\ ConfirmedIdentityIsReal /\ RecoveryIsUnambiguous
  BY Types DEF Locals, Active, Null
<1>2. PICK id \in DOMAIN ops : id = run.op
  BY <1>1
<1>3. /\ ops' \in Seq(Operation) /\ Len(ops') = Len(ops) /\ DOMAIN ops' = DOMAIN ops
      /\ \A i \in DOMAIN ops : i # id => ops'[i] = ops[i]
      /\ ops'[id].type = ops[id].type /\ ops'[id].fp = ops[id].fp
      /\ ops'[id].state = state /\ ops'[id].ocid = Coalesce(ocid, ops[id].ocid)
  BY <1>1, <1>2, Types, RowRewritten
<1>4. ops'[id].ocid = ops[id].ocid \/ (run.pc = "created" /\ ops'[id].ocid = run.ocid)
  BY <1>3 DEF Coalesce
<1>5. run.pc = "created" =>
        /\ run.ocid \in DOMAIN certs /\ certs[run.ocid] = run.fp /\ Recoverable(run.fp) = {}
  BY Types DEF Locals, Before
<1>6. \A i \in DOMAIN ops' : ops'[i].ocid \in 0..Len(certs')
  BY <1>1, <1>3, <1>4, <1>5, Types
<1>7. run.pc \in Named => ops[id].ocid # Null /\ ocid = Null
  <2>1. "created" \notin Named
    BY DEF Named
  <2> QED BY <1>2, <2>1, Types DEF Locals, Null
<1>8. Rows'
  BY <1>1, <1>2, <1>3, <1>4, <1>5, <1>7 DEF Rows, Coalesce
<1>9. ConfirmedIdentityIsReal'
  <2>1. certState'.published => \E c \in DOMAIN certs' : certs'[c] = certState'.fp
    BY <1>1 DEF ConfirmedIdentityIsReal
  <2>2. ASSUME NEW i \in DOMAIN ops', ops'[i].state = "COMPLETED"
        PROVE  ops'[i].ocid # Null /\ certs'[ops'[i].ocid] = ops'[i].fp
    BY <1>8, <2>2 DEF Rows
  <2> QED BY <2>1, <2>2 DEF ConfirmedIdentityIsReal
<1>10. RecoveryIsUnambiguous'
  <2>1. ASSUME NEW i \in DOMAIN ops, i # id, i \in Active(ops)', ops'[i].ocid # Null,
               id \in Active(ops)', ops'[id].ocid # Null, ops'[i].fp = ops'[id].fp
        PROVE  FALSE
    <3>1. /\ i \in Active(ops) /\ ops[i].ocid # Null /\ ops[i].fp = ops[id].fp
      BY <1>3, <2>1 DEF Active
    <3>2. CASE ops'[id].ocid = ops[id].ocid
      BY <1>1, <1>2, <2>1, <3>1, <3>2 DEF RecoveryIsUnambiguous
    <3>3. CASE run.pc = "created"
      BY <1>1, <1>2, <1>5, <3>1, <3>3 DEF Recoverable
    <3> QED BY <1>4, <3>2, <3>3
  <2>2. ASSUME NEW i \in DOMAIN ops, NEW j \in DOMAIN ops, i # id, j # id,
               i \in Active(ops)', j \in Active(ops)', ops'[i].ocid # Null, ops'[j].ocid # Null,
               ops'[i].fp = ops'[j].fp
        PROVE  i = j
    BY <1>1, <1>3, <2>2 DEF RecoveryIsUnambiguous, Active
  <2>3. \A i \in Active(ops)' : i \in DOMAIN ops
    BY <1>3 DEF Active
  <2> QED BY <2>1, <2>2, <2>3 DEF RecoveryIsUnambiguous
<1> QED BY <1>1, <1>2, <1>3, <1>6, <1>8, <1>9, <1>10

\* A transition that ends the command.
LEMMA LastLogStep ==
    ASSUME BootstrapInv, run.pc \in Logging, NEW state \in OperationState,
           state = "COMPLETED" => run.pc \in Named,
           ops' = Transition(ops, run.op, state, Null, Null),
           UNCHANGED <<schema, certs, certState, local, faults>>, run' = Stopped
    PROVE  BootstrapInv'
<1>1. Null \in Nat
  BY DEF Null
<1>2. /\ ops' \in Seq(Operation) /\ \A i \in DOMAIN ops' : ops'[i].ocid \in 0..Len(certs')
      /\ Len(ops') = Len(ops) /\ Rows' /\ ConfirmedIdentityIsReal' /\ RecoveryIsUnambiguous'
  BY <1>1, RowLogged
<1>3. /\ run' \in RunState /\ run'.pc = "stopped" /\ run'.op = 0 /\ run'.ocid = 0
      /\ Point' = "stopped"
  BY StoppedState DEF Point
<1>4. Store'
  BY <1>3, StoreKept
<1>5. Locals' /\ Unconfirmed'
  BY <1>3 DEF Locals, Unconfirmed, Before, Named, Logging
<1>6. run'.op \in 0..Len(ops') /\ run'.ocid \in 0..Len(certs') /\ run'.statement \in DOMAIN Statements
  BY <1>2, <1>3, Types DEF RunState
<1> QED BY <1>2, <1>3, <1>4, <1>5, <1>6, Types DEF BootstrapInv, TypeInv, TypeOK

\* A transition after which the command goes on.
LEMMA NextLogStep ==
    ASSUME BootstrapInv, run.pc \in Logging, NEW state \in OperationState \ TerminalStates,
           NEW version \in Nat, NEW ocid \in {Null, run.ocid}, NEW label \in Logging,
           ops' = Transition(ops, run.op, state, version, ocid),
           UNCHANGED <<schema, certs, certState, local, faults>>, run' = At(label),
           \/ run.pc = "validated" /\ label = "create" /\ ocid = Null
           \/ run.pc = "created" /\ label = "bundle" /\ ocid = run.ocid
           \/ run.pc = "confirmed" /\ label = "record" /\ ocid = Null
    PROVE  BootstrapInv'
<1>1. state # "COMPLETED" /\ (ocid # Null => run.pc = "created")
  BY DEF TerminalStates
<1>2. PICK id : id = run.op
  OBVIOUS
<1>3. /\ ops' \in Seq(Operation) /\ Len(ops') = Len(ops) /\ DOMAIN ops' = DOMAIN ops
      /\ \A i \in DOMAIN ops' : ops'[i].ocid \in 0..Len(certs')
      /\ ops'[id].fp = run.fp /\ ops'[id].state = state
      /\ ops'[id].ocid = Coalesce(ocid, ops[id].ocid)
      /\ \A i \in DOMAIN ops : i # id => ops'[i] = ops[i]
      /\ id \in Active(ops)
      /\ Rows' /\ ConfirmedIdentityIsReal' /\ RecoveryIsUnambiguous'
  BY <1>1, <1>2, RowLogged
<1>4. label \in Labels /\ label \notin {"open", "migrate"}
      /\ run.pc \notin {"stopped", "issue", "open", "migrate", "lookUp"}
  BY DEF Labels, Logging, Named
<1>5. /\ run' \in RunState /\ run'.pc = label /\ run'.op = id /\ run'.ocid = run.ocid
      /\ run'.fp = run.fp /\ run'.statement = run.statement
  BY <1>2, <1>4, Types, GoneOn
<1>6. Point' = label /\ Point = run.pc
  BY <1>4, <1>5 DEF Point
<1>7. Store'
  BY <1>4, <1>5, StoreKept
<1>8. id \in Active(ops)' /\ id \in DOMAIN ops
  BY <1>3 DEF Active
<1>9. ConfirmedOcids' = ConfirmedOcids
  <2>1. \A i \in DOMAIN ops : /\ ops'[i].state = "COMPLETED" <=> ops[i].state = "COMPLETED"
                              /\ ops[i].state = "COMPLETED" => ops'[i].ocid = ops[i].ocid
    BY <1>1, <1>3, <1>8 DEF Active, TerminalStates
  <2> QED BY <1>3, <2>1 DEF ConfirmedOcids
<1>10. Unconfirmed'
  BY <1>4, <1>6, <1>9, Types DEF Unconfirmed
<1>11. Locals'
  <2>1. run.fp = local /\ local # Null
    BY <1>6, Types DEF Locals
  <2>2. label \in Named => run.ocid \in DOMAIN certs /\ certs[run.ocid] = run.fp
    BY Types DEF Locals, Named
  <2>3. label \in Named => ops'[id].ocid = run.ocid
    <3>1. CASE label = "bundle"
      BY <1>3, <2>2, <3>1, Types DEF Coalesce, Named, Null
    <3>2. CASE label = "record"
      BY <1>2, <1>3, <3>2, Types DEF Coalesce, Named, Locals
    <3> QED BY <3>1, <3>2 DEF Named
  <2>4. label \in Before => Recoverable(run.fp)' = {}
    <3>1. SUFFICES ASSUME label = "create" PROVE Recoverable(run.fp)' = {}
      BY DEF Before
    <3>2. ocid = Null /\ Recoverable(run.fp) = {} /\ run.fp = run'.fp
      BY <1>5, <3>1, Types DEF Locals, Before
    <3>3. \A i \in DOMAIN ops : /\ i \in Active(ops)' => i \in Active(ops)
                                /\ ops'[i].ocid = ops[i].ocid
      BY <1>3, <3>2 DEF Active, Coalesce
    <3>4. \A i \in DOMAIN ops : ops'[i].fp = ops[i].fp
      BY <1>2, <1>3, Types DEF Locals
    <3>5. \A i \in Active(ops)' : i \in DOMAIN ops
      BY <1>3 DEF Active
    <3> QED BY <3>2, <3>3, <3>4, <3>5 DEF Recoverable
  <2>5. label # "created"
    OBVIOUS
  <2> QED BY <1>3, <1>5, <1>6, <1>8, <2>1, <2>2, <2>3, <2>4, <2>5 DEF Locals
<1>12. TypeInv'
  <2>1. /\ run'.op \in 0..Len(ops') /\ run'.ocid \in 0..Len(certs')
        /\ run'.statement \in DOMAIN Statements
    BY <1>2, <1>3, <1>5, Types DEF RunState
  <2> QED BY <1>3, <1>4, <1>5, <2>1, Types DEF TypeInv, TypeOK
<1> QED BY <1>3, <1>7, <1>10, <1>11, <1>12 DEF BootstrapInv

\* The transitions, one by one.
LEMMA LogSteps ==
    ASSUME BootstrapInv,
           \/ LocalCertValidated \/ UploadFailed \/ Created \/ VersionFailed
           \/ Confirmed \/ Complete
    PROVE  BootstrapInv'
<1>1. /\ {"LOCAL_CERT_VALIDATED", "OCI_RECONCILED", "OCI_CURRENT_CONFIRMED"}
            \subseteq OperationState \ TerminalStates
      /\ {"OCI_UPLOAD_FAILED", "OCI_VERSION_FAILED", "COMPLETED"} \subseteq OperationState
  BY DEF OperationState, TerminalStates
<1>2. /\ {"validated", "create", "created", "uploadFailed"} \subseteq Logging
      /\ Named \subseteq Logging
      /\ {"bundle", "versionFailed", "confirmed", "record", "complete"} \subseteq Named
      /\ Null \in Nat /\ 1 \in Nat
  BY DEF Logging, Named, Null
<1>3. ASSUME LocalCertValidated PROVE BootstrapInv'
  BY <1>1, <1>2, <1>3, NextLogStep DEF LocalCertValidated, Log
<1>4. ASSUME Created PROVE BootstrapInv'
  BY <1>1, <1>2, <1>4, NextLogStep DEF Created, Log
<1>5. ASSUME Confirmed PROVE BootstrapInv'
  BY <1>1, <1>2, <1>5, NextLogStep DEF Confirmed, Log
<1>6. ASSUME UploadFailed PROVE BootstrapInv'
  BY <1>1, <1>2, <1>6, LastLogStep DEF UploadFailed, Log
<1>7. ASSUME VersionFailed PROVE BootstrapInv'
  BY <1>1, <1>2, <1>7, LastLogStep DEF VersionFailed, Log
<1>8. ASSUME Complete PROVE BootstrapInv'
  BY <1>1, <1>2, <1>8, LastLogStep DEF Complete, Log
<1> QED BY <1>3, <1>4, <1>5, <1>6, <1>7, <1>8

\* start_operation: a row that names no certificate.
LEMMA StartStep == ASSUME BootstrapInv, Start PROVE BootstrapInv'
<1>1. /\ run.pc = "start" /\ UNCHANGED <<schema, certs, certState, local, faults>>
      /\ ops' = StartOperation(ops, "BOOTSTRAP", run.fp, Null)
  BY DEF Start
<1>2. PICK n \in Nat : n = Len(ops) + 1
  BY Types
<1>3. PICK row : row = [type |-> "BOOTSTRAP", state |-> "DISCOVERED", fp |-> run.fp,
                        ocid |-> Null, version |-> Null]
  OBVIOUS
<1>4. /\ row \in Operation /\ row.type = "BOOTSTRAP" /\ row.state = "DISCOVERED"
      /\ row.fp = run.fp /\ row.ocid = Null
  BY <1>3, Types DEF Operation, OperationType, OperationState, Null
<1>5. ops' = Append(ops, row)
  BY <1>1, <1>3 DEF StartOperation
<1>6. /\ ops' \in Seq(Operation) /\ Len(ops') = n /\ n \in DOMAIN ops' /\ ops'[n] = row
      /\ DOMAIN ops' = DOMAIN ops \union {n} /\ n \notin DOMAIN ops
      /\ \A i \in DOMAIN ops : ops'[i] = ops[i]
  <2>1. /\ ops' \in Seq(Operation) /\ Len(ops') = n /\ DOMAIN ops' = 1..n /\ ops'[n] = row
        /\ \A i \in 1..Len(ops) : ops'[i] = ops[i]
    BY <1>2, <1>4, <1>5, Types
  <2>2. DOMAIN ops = 1..Len(ops) /\ Len(ops) \in Nat
    BY Types
  <2> QED BY <1>2, <2>1, <2>2
<1>7. run' = [run EXCEPT !.pc = "validated", !.op = n]
  BY <1>2 DEF Start
<1>8. "validated" \in Labels /\ "validated" \in Logging /\ "validated" \in Before
      /\ "validated" \notin Named \union {"created"} /\ "start" \in Before
  BY DEF Labels, Logging, Before, Named
<1>9. /\ run' \in RunState /\ run'.pc = "validated" /\ run'.op = n
      /\ run'.fp = run.fp /\ run'.ocid = run.ocid /\ run'.statement = run.statement
  BY <1>7, <1>8, Types DEF RunState
<1>10. Point' = "validated" /\ Point = "start"
  BY <1>1, <1>9 DEF Point
<1>11. "DISCOVERED" \notin TerminalStates
  BY DEF TerminalStates
<1>12. Store'
  BY <1>1, <1>9, StoreKept
<1>13. Rows' /\ ConfirmedIdentityIsReal'
  <2>1. Rows'
    BY <1>1, <1>4, <1>6, Types DEF Rows
  <2>2. ConfirmedIdentityIsReal'
    BY <1>1, <1>4, <1>6, Types DEF ConfirmedIdentityIsReal
  <2> QED BY <2>1, <2>2
<1>14. \A i \in Active(ops)' : i = n \/ i \in Active(ops)
  BY <1>6 DEF Active
<1>15. RecoveryIsUnambiguous'
  <2>1. \A i \in Active(ops)' : ops'[i].ocid # Null => i \in Active(ops) /\ ops'[i] = ops[i]
    BY <1>4, <1>6, <1>14 DEF Active
  <2> QED BY <2>1, Types DEF RecoveryIsUnambiguous
<1>16. Locals'
  <2>1. run.fp = local /\ local # Null /\ Recoverable(run.fp) = {}
    BY <1>1, <1>8, <1>10, Types DEF Locals
  <2>2. Recoverable(run.fp)' = {}
    BY <1>4, <1>6, <1>9, <1>14, <2>1 DEF Recoverable, Active
  <2>3. n \in Active(ops)' /\ ops'[n].fp = run.fp
    BY <1>4, <1>6, <1>11 DEF Active
  <2> QED BY <1>1, <1>8, <1>9, <1>10, <2>1, <2>2, <2>3 DEF Locals
<1>17. Unconfirmed'
  <2>1. ConfirmedOcids' = ConfirmedOcids
    BY <1>4, <1>6 DEF ConfirmedOcids
  <2> QED BY <1>10, <2>1, Types DEF Unconfirmed
<1>18. TypeInv'
  <2>1. \A i \in DOMAIN ops' : ops'[i].ocid \in 0..Len(certs')
    BY <1>1, <1>4, <1>6, Types DEF Null
  <2>2. run'.op \in 0..Len(ops') /\ run'.statement \in DOMAIN Statements
    BY <1>6, <1>9 DEF RunState
  <2> QED BY <1>1, <1>6, <1>9, <2>1, <2>2, Types DEF TypeInv, TypeOK
<1> QED BY <1>12, <1>13, <1>15, <1>16, <1>17, <1>18 DEF BootstrapInv

-----------------------------------------------------------------------------
(***************************************************************************)
(* The import.                                                             *)
(***************************************************************************)

\* A certificate more, which no row names yet.
LEMMA CertificateAdded ==
    ASSUME BootstrapInv, run.pc = "create", Imports, UNCHANGED <<ops, certState>>
    PROVE  /\ certs' \in Seq(Nat \ {0}) /\ Len(certs') = Len(certs) + 1
           /\ Len(certs) + 1 \in DOMAIN certs' /\ certs'[Len(certs) + 1] = run.fp
           /\ \A i \in DOMAIN ops' : ops'[i].ocid \in 0..Len(certs')
           /\ Rows' /\ ConfirmedIdentityIsReal' /\ RecoveryIsUnambiguous'
<1>1. run.fp \in Nat \ {0}
  <2>1. Point = "create" /\ "create" \in Logging
    BY DEF Point, Logging
  <2> QED BY <2>1, Types DEF Locals, Null
<1>2. PICK n \in Nat : n = Len(certs)
  BY Types
<1>3. /\ certs' \in Seq(Nat \ {0}) /\ Len(certs') = n + 1 /\ DOMAIN certs' = 1..n + 1
      /\ \A i \in 1..n : certs'[i] = certs[i]
      /\ certs'[n + 1] = run.fp
  BY <1>1, <1>2, Types DEF Imports
<1>4. DOMAIN certs = 1..n /\ n + 1 \in 1..n + 1 /\ \A i \in 1..n : i \in 1..n + 1
  BY <1>2, Types
<1>5. \A i \in DOMAIN ops : ops[i].ocid \in 0..n /\ ops[i].ocid \in 0..n + 1
  BY <1>2, Types
<1>6. \A i \in DOMAIN ops : ops[i].ocid # Null => certs'[ops[i].ocid] = certs[ops[i].ocid]
  <2>1. \A i \in DOMAIN ops : ops[i].ocid # Null => ops[i].ocid \in 1..n
    BY <1>5 DEF Null
  <2> QED BY <1>3, <2>1
<1>7. Rows'
  BY <1>6, Types DEF Rows
<1>8. ConfirmedIdentityIsReal'
  <2>1. \A i \in DOMAIN ops : ops[i].state = "COMPLETED" =>
          ops[i].ocid # Null /\ certs'[ops[i].ocid] = ops[i].fp
    BY <1>6, Types DEF ConfirmedIdentityIsReal
  <2>2. certState.published => \E c \in DOMAIN certs' : certs'[c] = certState.fp
    BY <1>3, <1>4, Types DEF ConfirmedIdentityIsReal
  <2> QED BY <2>1, <2>2 DEF ConfirmedIdentityIsReal
<1>9. RecoveryIsUnambiguous'
  BY Types DEF RecoveryIsUnambiguous, Active
<1> QED BY <1>2, <1>3, <1>4, <1>5, <1>7, <1>8, <1>9

\* create_imported_certificate: its answer may be lost, or come without an
\* OCID.
LEMMA CreateStep == ASSUME BootstrapInv, Create PROVE BootstrapInv'
<1>1. run.pc = "create" /\ UNCHANGED <<schema, certState, local>>
  BY DEF Create
<1>2. Point = "create" /\ "create" \in Logging /\ "create" \in Before
  BY <1>1 DEF Point, Logging, Before
<1>3. CASE UNCHANGED <<certs, ops, faults>> /\ run' = Stopped
  BY <1>1, <1>3, Types, StopStep
<1>4. ASSUME Imports, UNCHANGED ops, faults' \in Nat, run' \in RunState,
             run'.op \in 0..Len(ops), run'.ocid \in 0..Len(certs) + 1,
             run'.pc \notin {"open", "migrate"}, Locals', Unconfirmed'
      PROVE  BootstrapInv'
  <2>1. /\ certs' \in Seq(Nat \ {0}) /\ Len(certs') = Len(certs) + 1
        /\ \A i \in DOMAIN ops' : ops'[i].ocid \in 0..Len(certs')
        /\ Rows' /\ ConfirmedIdentityIsReal' /\ RecoveryIsUnambiguous'
    BY <1>1, <1>4, CertificateAdded
  <2>2. Store'
    BY <1>1, <1>4, StoreKept
  <2>3. run'.statement \in DOMAIN Statements
    BY <1>4 DEF RunState
  <2> QED BY <1>1, <1>4, <2>1, <2>2, <2>3, Types DEF BootstrapInv, TypeInv, TypeOK
<1>5. /\ run.fp = local /\ local # Null /\ run.op \in Active(ops) /\ ops[run.op].fp = run.fp
      /\ Recoverable(run.fp) = {} /\ ("bootstrap" \notin Entry => ConfirmedOcids = {})
  BY <1>1, <1>2, Types DEF Locals, Unconfirmed
<1>6. PICK n \in Nat : n = Len(certs) + 1
  BY Types
<1>7. CASE Imports /\ UNCHANGED <<ops, faults>> /\ run' = [run EXCEPT !.pc = "created", !.ocid = n]
  <2>1. "created" \in Labels /\ "created" \in Before /\ "created" \in Logging /\ "created" \notin Named
    BY DEF Labels, Logging, Before, Named
  <2>2. /\ run' \in RunState /\ run'.pc = "created" /\ run'.op = run.op
        /\ run'.fp = run.fp /\ run'.ocid = n
    BY <1>7, <2>1, Types DEF RunState
  <2>3. Point' = "created"
    BY <2>2 DEF Point
  <2>4. n \in DOMAIN certs' /\ certs'[n] = run.fp
    BY <1>1, <1>6, <1>7, CertificateAdded
  <2>5. Recoverable(run.fp)' = {} /\ ConfirmedOcids' = ConfirmedOcids /\ Active(ops)' = Active(ops)
    BY <1>5, <1>7, <2>2 DEF Recoverable, ConfirmedOcids, Active
  <2>6. Locals'
    BY <1>1, <1>5, <1>7, <2>1, <2>2, <2>3, <2>4, <2>5 DEF Locals
  <2>7. Unconfirmed'
    BY <1>5, <2>5 DEF Unconfirmed
  <2>8. n \in 0..Len(certs) + 1
    BY <1>6, Types
  <2> QED BY <1>4, <1>7, <2>2, <2>6, <2>7, <2>8, Types
<1>8. CASE Imports /\ Fault /\ UNCHANGED ops /\ run' = At("uploadFailed")
  <2>1. /\ "uploadFailed" \in Labels /\ "uploadFailed" \notin Before
        /\ "uploadFailed" \in Logging /\ "uploadFailed" \notin Named
    BY DEF Labels, Logging, Before, Named
  <2>2. /\ run' \in RunState /\ run'.pc = "uploadFailed" /\ run'.op = run.op
        /\ run'.fp = run.fp /\ run'.ocid = run.ocid
    BY <1>8, <2>1, Types, GoneOn
  <2>3. Point' = "uploadFailed"
    BY <2>2 DEF Point
  <2>4. ConfirmedOcids' = ConfirmedOcids /\ Active(ops)' = Active(ops)
    BY <1>8 DEF ConfirmedOcids, Active
  <2>5. Locals'
    BY <1>1, <1>5, <1>8, <2>1, <2>2, <2>3, <2>4 DEF Locals
  <2>6. Unconfirmed'
    BY <1>5, <2>4 DEF Unconfirmed
  <2>7. run.ocid \in 0..Len(certs) + 1 /\ faults' \in Nat
    BY <1>8, Types DEF Fault
  <2> QED BY <1>4, <1>8, <2>2, <2>5, <2>6, <2>7, Types
<1>9. CASE Imports /\ Fault /\ UNCHANGED ops /\ run' = Stopped
  <2>1. /\ run' \in RunState /\ run'.pc = "stopped" /\ run'.op = 0 /\ run'.ocid = 0
        /\ Point' = "stopped"
    BY <1>9, StoppedState DEF Point
  <2>2. Locals' /\ Unconfirmed'
    BY <2>1 DEF Locals, Unconfirmed, Before, Named, Logging
  <2>3. /\ run'.op \in 0..Len(ops) /\ run'.ocid \in 0..Len(certs) + 1 /\ faults' \in Nat
    BY <1>9, <2>1, Types DEF Fault
  <2> QED BY <1>4, <1>9, <2>1, <2>2, <2>3
<1> QED BY <1>3, <1>6, <1>7, <1>8, <1>9 DEF Create, Go, At

-----------------------------------------------------------------------------
(***************************************************************************)
(* The invariant.                                                          *)
(***************************************************************************)

\* It holds before the first command.
LEMMA InitBootstrap == Init => BootstrapInv
<1> SUFFICES ASSUME Init PROVE BootstrapInv
  OBVIOUS
<1>1. /\ schema = {} /\ certs = << >> /\ ops = << >> /\ local = Null /\ faults = 0
      /\ certState = [local |-> Null, fp |-> Null, version |-> Null,
                      published |-> FALSE, renewed |-> FALSE, audited |-> FALSE]
      /\ run = Stopped
  BY DEF Init
<1>2. /\ run \in RunState /\ run.pc = "stopped" /\ run.op = 0 /\ run.ocid = 0
      /\ Point = "stopped"
  BY <1>1, StoppedState DEF Point
<1>3. /\ DOMAIN ops = {} /\ Len(ops) = 0 /\ Len(certs) = 0
      /\ certs \in Seq(Nat \ {0}) /\ ops \in Seq(Operation)
  BY <1>1
<1>4. certState \in CertificateState /\ ~certState.published /\ 0 \in Nat
  BY <1>1 DEF CertificateState, Null
<1>5. TypeInv
  <2>1. run.statement \in DOMAIN Statements /\ run.op \in 0..Len(ops) /\ run.ocid \in 0..Len(certs)
    BY <1>2, <1>3 DEF RunState
  <2> QED BY <1>1, <1>2, <1>3, <1>4, <2>1 DEF TypeInv, TypeOK, Null
<1>6. Store
  BY <1>1, <1>2 DEF Store, StoreIsWhole, Migrated
<1>7. Locals /\ Unconfirmed
  BY <1>2 DEF Locals, Unconfirmed, Before, Named, Logging
<1>8. Rows /\ ConfirmedIdentityIsReal /\ RecoveryIsUnambiguous
  BY <1>3, <1>4 DEF Rows, ConfirmedIdentityIsReal, RecoveryIsUnambiguous, Active
<1> QED BY <1>5, <1>6, <1>7, <1>8 DEF BootstrapInv

\* Every step keeps it.
LEMMA NextBootstrap == BootstrapInv /\ [Next]_vars => BootstrapInv'
<1> SUFFICES ASSUME BootstrapInv, [Next]_vars PROVE BootstrapInv'
  OBVIOUS
<1>1. CASE Step
  BY <1>1, LookUpStep, IssueStep, OpenStoreStep, MigrateStep, RecoverStep, StartStep, CreateStep,
     ReadBundleStep, RecordStep, LogSteps
  DEF Step
<1>2. CASE Die
  BY <1>2, DieStep
<1>3. CASE \E entry \in Entry : Begin(entry)
  BY <1>3, BeginStep
<1>4. CASE UNCHANGED vars
  <2>1. UNCHANGED <<schema, certs, ops, certState, local, run, faults>>
    BY <1>4 DEF vars
  <2>2. Point' = Point /\ ConfirmedOcids' = ConfirmedOcids /\ Active(ops)' = Active(ops)
    BY <2>1 DEF Point, ConfirmedOcids, Active
  <2>3. TypeInv' /\ Store' /\ Rows'
    BY <2>1 DEF BootstrapInv, TypeInv, TypeOK, Store, StoreIsWhole, Rows
  <2>4. Recoverable(run.fp)' = Recoverable(run.fp)
    BY <2>1, <2>2 DEF Recoverable
  <2>5. Locals' /\ Unconfirmed'
    BY <2>1, <2>2, <2>4 DEF BootstrapInv, Locals, Unconfirmed
  <2>6. ConfirmedIdentityIsReal' /\ RecoveryIsUnambiguous'
    BY <2>1, <2>2 DEF BootstrapInv, ConfirmedIdentityIsReal, RecoveryIsUnambiguous
  <2> QED BY <2>3, <2>5, <2>6 DEF BootstrapInv
<1> QED BY <1>1, <1>2, <1>3, <1>4 DEF Next

-----------------------------------------------------------------------------
(***************************************************************************)
(* What a step may never do.                                               *)
(***************************************************************************)

\* Only the call that creates a certificate adds one.
LEMMA OnlyCreateImports ==
    ASSUME [Next]_vars, certs' # certs
    PROVE  Create
BY DEF Next, Step, Die, Begin, LookUp, Issue, OpenStore, Migrate, Recover, Start,
       LocalCertValidated, UploadFailed, Created, ReadBundle, VersionFailed, Confirmed, Record,
       Complete, Log, vars

\* Only the steps that log a transition, or start an operation, change a row.
LEMMA OnlyLogsChangeRows ==
    ASSUME [Next]_vars, ops' # ops
    PROVE  run.pc \in Logging \union {"start"}
<1> USE DEF Logging, Named
<1>1. CASE Step
  BY <1>1 DEF Step, LookUp, Issue, OpenStore, Migrate, Recover, Start, Create,
       LocalCertValidated, UploadFailed, Created, ReadBundle, VersionFailed, Confirmed, Record,
       Complete, Log
<1>2. CASE ~Step
  BY <1>2 DEF Next, Die, Begin, vars
<1> QED BY <1>1, <1>2

\* Recovery comes before creation.
LEMMA ImportsAreNeeded ==
    ASSUME BootstrapInv, [Next]_vars, certs' # certs
    PROVE  ~\E i \in Active(ops) : ops[i].fp = local /\ ops[i].ocid # Null
<1>1. run.pc = "create"
  BY OnlyCreateImports DEF Create
<1>2. run.fp = local /\ Recoverable(run.fp) = {}
  BY <1>1, Types DEF Locals, Point, Logging, Before
<1> QED BY <1>2 DEF Recoverable

\* Without the bootstrap command a confirmed identity stays.
LEMMA ConfirmedStays ==
    ASSUME "bootstrap" \notin Entry, BootstrapInv, [Next]_vars, ConfirmedOcids # {}
    PROVE  certs' = certs /\ ConfirmedOcids \subseteq ConfirmedOcids'
<1>1. Point \in {"stopped", "lookUp"}
  BY Types DEF Unconfirmed
<1>2. run.pc \notin Logging \union {"start"}
  BY <1>1 DEF Point, Logging, Named
<1>3. certs' = certs
  <2>1. "create" \in Logging
    BY DEF Logging
  <2> QED BY <1>2, <2>1, OnlyCreateImports DEF Create
<1>4. ConfirmedOcids' = ConfirmedOcids
  BY <1>2, OnlyLogsChangeRows DEF ConfirmedOcids
<1> QED BY <1>3, <1>4

-----------------------------------------------------------------------------
(***************************************************************************)
(* The theorems.                                                           *)
(***************************************************************************)

\* The inductive invariant of the bootstrap.
THEOREM BootstrapInvariance == Spec => []BootstrapInv
BY InitBootstrap, NextBootstrap, PTL DEF Spec

\* The store's tables, the certificates and the locals of the command keep
\* their types, and every OCID and row id names something.
THEOREM TypesHold == Spec => []TypeOK
<1>1. BootstrapInv => TypeOK
  BY DEF BootstrapInv, TypeInv
<1> QED BY <1>1, BootstrapInvariance, PTL

\* apply_migrations: a command that gets past the opening of the store finds
\* all of its tables, wherever earlier migrations were interrupted.
THEOREM StoreWholeness == Spec => []StoreIsWhole
<1>1. BootstrapInv => StoreIsWhole
  BY DEF BootstrapInv, Store
<1> QED BY <1>1, BootstrapInvariance, PTL

\* confirmed_oci_certificate_ocid: the OCID of a completed bootstrap is that of
\* a certificate that carries its leaf.
THEOREM IdentityIsReal == Spec => []ConfirmedIdentityIsReal
<1>1. BootstrapInv => ConfirmedIdentityIsReal
  BY DEF BootstrapInv
<1> QED BY <1>1, BootstrapInvariance, PTL

\* _recover_bootstrap: its error for an ambiguous state is never raised.
THEOREM RecoveryUnambiguous == Spec => []RecoveryIsUnambiguous
<1>1. BootstrapInv => RecoveryIsUnambiguous
  BY DEF BootstrapInv
<1> QED BY <1>1, BootstrapInvariance, PTL

\* create_imported_certificate is called only when no interrupted bootstrap of
\* the leaf can be recovered.
THEOREM RecoveryFirst == Spec => RecoveryPrecedesCreation
<1>1. BootstrapInv /\ [Next]_vars =>
        [certs' # certs =>
           ~\E i \in Active(ops) : ops[i].fp = local /\ ops[i].ocid # Null]_vars
  BY ImportsAreNeeded
<1> QED BY <1>1, BootstrapInvariance, PTL DEF Spec, RecoveryPrecedesCreation

\* renew_all, where it alone is run, neither replaces a confirmed identity nor
\* imports another certificate.
THEOREM IdentityIsFinal == ASSUME "bootstrap" \notin Entry PROVE Spec => ConfirmedIdentityIsFinal
<1>1. BootstrapInv /\ [Next]_vars =>
        [ConfirmedOcids # {} => certs' = certs /\ ConfirmedOcids \subseteq ConfirmedOcids']_vars
  BY ConfirmedStays
<1> QED BY <1>1, BootstrapInvariance, PTL DEF Spec, ConfirmedIdentityIsFinal
================================================================================
