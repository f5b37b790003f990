-------------------------- MODULE AcmeService_proofs --------------------------
(***************************************************************************)
(* Proofs about AcmeService, for any set of domains and any bounds.        *)
(***************************************************************************)
EXTENDS AcmeService, SequenceTheorems, TLAPS

\* The steps before the order, in which a run has answered nothing.
Checking == {"selfCheckTemporary", "selfCheckPublish"}

Checked == {"selfCheck", "selfCheckDone", "selfCheckFailed"}

Ordering == {"account", "accountWrite", "accountRead", "order"}

Unanswered == Checking \union Checked \union {"load"} \union Ordering

\* The loop over the authorizations.
Proving == {"temporary", "publish", "answer", "finalize"}

\* The steps of commit that work on a generation which is not yet the current
\* one, the ones before them, and the ones after them.
Filling == {"open", "write", "link", "replace"}

Early == Unanswered \union Proving \union {"select", "mkdir"}

Late == {"chown", "commitLoad", "discard", "cleanup"}

Labels == Early \union Filling \union Late \union {"stopped"}

RunState ==
    [pc : Labels, force : BOOLEAN, token : Domain \union {Synthetic},
     paths : SUBSET Domain, answered : SUBSET Domain, file : 1..3]

TypeInv ==
    /\ TypeOK /\ run \in RunState
    /\ run.pc \in {"publish", "answer"} => run.token \in Domain

\* The challenge files of the run that are in place are the ones it will
\* remove.
Serving ==
    /\ \A f \in webroot : f.run <= runs
    /\ run.pc \in Checking \union {"load"} => Served = {}
    /\ run.pc \in Checked => Served \subseteq {Synthetic}
    /\ run.pc \in Labels \ (Checking \union Checked \union {"load", "stopped"}) =>
          Served \subseteq run.paths
    /\ run.pc \in Unanswered => run.answered = {}

\* The newest generation is the one that the run fills, file by file, and not
\* the current one before it is complete.
Generations ==
    /\ run.pc \in Early => run.file = 1
    /\ run.pc \in Filling \union {"chown", "discard"} => Newest # 0
    /\ run.pc \in Filling => current # Newest
    /\ run.pc = "discard" /\ ~Interruptible => current # Newest
    /\ run.pc \in {"open", "write"} =>
          \A j \in 1..run.file - 1 : gens[Newest][Files[j]] = "whole"
    /\ run.pc \in {"link", "replace"} => IsComplete(Newest)

AcmeInv ==
    /\ TypeInv /\ Serving /\ AnsweredIsServed
    /\ Generations /\ (~Interruptible => CurrentIsComplete)

-----------------------------------------------------------------------------
(***************************************************************************)
(* The locals of a run, the files of a generation.                         *)
(***************************************************************************)

\* Three files, in the order in which they are written.
LEMMA FilesFacts ==
    /\ DOMAIN Files = 1..3 /\ Len(Files) = 3
    /\ DOMAIN Empty = {"cert", "chain", "privkey"}
    /\ \A j \in 1..3 : Files[j] \in DOMAIN Empty
    /\ \A f \in DOMAIN Empty : \E j \in 1..3 : Files[j] = f
    /\ Empty \in [DOMAIN Empty -> Content]
<1>1. DOMAIN Files = 1..3 /\ Len(Files) = 3
  BY DEF Files
<1>2. DOMAIN Empty = {"cert", "chain", "privkey"} /\ Empty \in [DOMAIN Empty -> Content]
  BY DEF Empty, Content
<1>3. Files[1] = "cert" /\ Files[2] = "chain" /\ Files[3] = "privkey"
  BY DEF Files
<1>4. 1 \in 1..3 /\ 2 \in 1..3 /\ 3 \in 1..3
  OBVIOUS
<1>5. \A j \in 1..3 : j = 1 \/ j = 2 \/ j = 3
  OBVIOUS
<1>6. \A j \in 1..3 : Files[j] \in DOMAIN Empty
  BY <1>2, <1>3, <1>5
<1>7. \A f \in DOMAIN Empty : \E j \in 1..3 : Files[j] = f
  BY <1>2, <1>3, <1>4
<1> QED BY <1>1, <1>2, <1>6, <1>7

\* A run that has ended.
LEMMA StoppedState ==
    /\ Stopped \in RunState /\ Stopped.pc = "stopped" /\ Stopped.file = 1
    /\ Stopped.paths = {} /\ Stopped.answered = {}
BY DEF Stopped, RunState, Labels

\* The run goes on elsewhere with the same locals.
LEMMA Went ==
    ASSUME run \in RunState, NEW label \in Labels \ {"stopped"}, Go(label)
    PROVE  /\ run' \in RunState /\ run'.pc = label
           /\ UNCHANGED <<run.force, run.token, run.paths, run.answered, run.file>>
<1>1. run' = [run EXCEPT !.pc = label]
  BY DEF Go, Goto
<1> QED BY <1>1 DEF RunState

\* What the invariant says of the types.
LEMMA Types ==
    ASSUME AcmeInv
    PROVE  /\ run \in RunState /\ run.pc \in Labels
           /\ run.token \in Domain \union {Synthetic} /\ run.paths \subseteq Domain
           /\ run.answered \subseteq Domain /\ run.file \in 1..3
           /\ accountKey \in Content /\ webroot \subseteq ChallengeFile
           /\ temps \subseteq ChallengeFile
           /\ gens \in Seq([DOMAIN Empty -> Content])
           /\ Len(gens) \in Nat /\ DOMAIN gens = 1..Len(gens)
           /\ links \subseteq DOMAIN gens /\ current \in 0..Len(gens) /\ current \in Nat
           /\ due \in BOOLEAN /\ runs \in Nat /\ faults \in Nat
           /\ Serving /\ AnsweredIsServed /\ Generations
BY DEF AcmeInv, TypeInv, TypeOK, RunState

\* Every step names the control point it starts from.
LEMMA Groups ==
    /\ \A label \in Unanswered \union Proving \union {"select", "mkdir"} : label \in Early
    /\ \A label \in Early \union Filling \union Late : label \in Labels \ {"stopped"}
    /\ \A label \in Filling \union Late : label \notin Early
    /\ \A label \in Late : label \notin Filling
    /\ \A label \in Early : label \notin Filling \union Late
    /\ "stopped" \notin Early \union Filling \union Late
BY DEF Early, Filling, Late, Labels, Unanswered, Checking, Checked, Ordering, Proving

-----------------------------------------------------------------------------
(***************************************************************************)
(* Steps that leave the certificate store alone, and steps of commit.      *)
(***************************************************************************)

\* Such a step keeps what was said of the generations.
LEMMA OrderStep ==
    ASSUME AcmeInv, run' \in RunState, accountKey' \in Content,
           webroot' \subseteq ChallengeFile, temps' \subseteq ChallengeFile,
           faults' \in Nat, runs' \in Nat, UNCHANGED store,
           run'.pc \notin Filling \union {"chown", "discard"},
           run'.pc \in Early => run'.file = 1,
           run'.pc \in {"publish", "answer"} => run'.token \in Domain,
           Serving', AnsweredIsServed'
    PROVE  AcmeInv'
<1>1. UNCHANGED <<gens, links, current, due>>
  BY DEF store
<1>2. TypeInv'
  <2>1. /\ run'.token \in Domain \union {Synthetic} /\ run'.paths \subseteq Domain
        /\ run'.answered \subseteq Domain /\ run'.file \in DOMAIN Files
    BY FilesFacts DEF RunState
  <2> QED BY <1>1, <2>1, Types DEF TypeInv, TypeOK
<1>3. Generations'
  BY <1>1 DEF Generations, Filling
<1>4. ~Interruptible => CurrentIsComplete'
  BY <1>1 DEF AcmeInv, CurrentIsComplete, IsComplete
<1> QED BY <1>2, <1>3, <1>4 DEF AcmeInv

\* The end of a run, whatever the reason.
LEMMA StopStep ==
    ASSUME AcmeInv, run' = Stopped, accountKey' \in Content,
           webroot' \subseteq ChallengeFile, temps' \subseteq ChallengeFile,
           \A f \in webroot' : f.run <= runs,
           faults' \in Nat, UNCHANGED <<store, runs>>
    PROVE  AcmeInv'
<1>1. run' \in RunState /\ run'.pc = "stopped" /\ run'.file = 1
  BY StoppedState
<1>2. Serving'
  BY <1>1 DEF Serving, Checking, Checked, Unanswered, Ordering
<1>3. AnsweredIsServed'
  BY <1>1 DEF AnsweredIsServed
<1> QED BY <1>1, <1>2, <1>3, Types, OrderStep DEF Filling

\* A step that only moves on, the challenge files and the locals being the
\* same.
LEMMA MoveStep ==
    ASSUME AcmeInv, NEW label \in Labels \ {"stopped"}, Go(label),
           accountKey' \in Content, faults' \in Nat, temps' \subseteq ChallengeFile,
           UNCHANGED <<webroot, store, runs>>,
           label \notin Filling \union {"chown", "discard"},
           label \in Early => run.pc \in Early,
           label \notin Checking \union Proving \union {"load"},
           label \in Checked => run.pc \in Checked,
           label \in Ordering => run.pc \in Ordering \union {"load"},
           run.pc # "stopped",
           run.pc \in Checked => label \in Checked
    PROVE  AcmeInv'
<1>1. /\ run' \in RunState /\ run'.pc = label
      /\ UNCHANGED <<run.force, run.token, run.paths, run.answered, run.file>>
  BY Types, Went
<1>2. Served' = Served
  BY DEF Served
<1>3. Serving'
  <2>1. run.pc \in Labels /\ Serving
    BY Types
  <2>2. \A f \in webroot' : f.run <= runs'
    BY <2>1 DEF Serving
  <2>3. label \in Checked => Served' \subseteq {Synthetic}
    BY <1>2, <2>1 DEF Serving
  <2>4. label \in Labels \ (Checking \union Checked \union {"load", "stopped"}) =>
          Served' \subseteq run'.paths
    BY <1>1, <1>2, <2>1 DEF Serving
  <2>5. label \in Unanswered => run'.answered = {}
    BY <1>1, <2>1 DEF Serving, Unanswered
  <2> QED BY <1>1, <2>2, <2>3, <2>4, <2>5 DEF Serving
<1>4. AnsweredIsServed'
  BY <1>1 DEF AnsweredIsServed, Proving
<1>5. run'.pc \in Early => run'.file = 1
  BY <1>1, Types DEF Generations
<1>6. run'.pc \notin {"publish", "answer"}
  BY <1>1 DEF Proving
<1> QED BY <1>1, <1>3, <1>4, <1>5, <1>6, Types, OrderStep

\* A step of commit: the challenge files stay.
LEMMA CommitStep ==
    ASSUME AcmeInv, run.pc \in Filling \union Late \union {"mkdir"},
           run'.pc \in Filling \union Late, run' \in RunState,
           UNCHANGED <<accountKey, challenge, runs, run.paths>>, faults' \in Nat,
           gens' \in Seq([DOMAIN Empty -> Content]), links' \subseteq DOMAIN gens',
           current' \in 0..Len(gens'), due' \in BOOLEAN,
           Generations', ~Interruptible => CurrentIsComplete'
    PROVE  AcmeInv'
<1>1. UNCHANGED <<webroot, temps>> /\ Served' = Served
  BY DEF challenge, Served
<1>2. /\ run'.token \in Domain \union {Synthetic} /\ run'.paths \subseteq Domain
      /\ run'.answered \subseteq Domain /\ run'.file \in DOMAIN Files
  BY FilesFacts DEF RunState
<1>3. /\ run'.pc \notin Early /\ run'.pc \notin {"publish", "answer"}
      /\ run'.pc \notin Checking \union Checked \union {"load", "stopped"} \union Unanswered
      /\ run'.pc \notin Proving
  BY Groups DEF Early, Unanswered, Proving
<1>4. /\ run.pc \in Labels \ {"stopped"}
      /\ run.pc \notin Checking \union Checked \union {"load", "stopped"}
  BY DEF Labels, Filling, Late, Early, Checking, Checked
<1>5. TypeInv'
  BY <1>1, <1>2, <1>3, Types DEF TypeInv, TypeOK
<1>6. Serving'
  BY <1>1, <1>3, <1>4, Types DEF Serving
<1>7. AnsweredIsServed'
  BY <1>3 DEF AnsweredIsServed, Proving
<1> QED BY <1>5, <1>6, <1>7 DEF AcmeInv

-----------------------------------------------------------------------------
(***************************************************************************)
(* Challenge files.                                                        *)
(***************************************************************************)

\* os.replace puts one more file in place.
LEMMA Published ==
    ASSUME AcmeInv, NEW token \in Domain \union {Synthetic}, Publish(token), runs' = runs
    PROVE  /\ Served' = Served \union {token}
           /\ webroot' \subseteq ChallengeFile /\ temps' \subseteq ChallengeFile
           /\ \A f \in webroot' : f.run <= runs
<1>1. PICK file : file = File(token)
  OBVIOUS
<1>2. file \in ChallengeFile /\ file.run = runs /\ file.token = token
  BY <1>1, Types DEF File, ChallengeFile
<1>3. webroot' = webroot \union {file} /\ temps' \subseteq temps
  BY <1>1 DEF Publish
<1>4. \A t : t \in Served' <=> t \in Served \/ t = token
  BY <1>2, <1>3 DEF Served
<1>5. webroot' \subseteq ChallengeFile /\ temps' \subseteq ChallengeFile
  BY <1>2, <1>3, Types
<1>6. runs <= runs
  BY Types
<1>7. \A f \in webroot' : f.run <= runs
  BY <1>2, <1>3, <1>6, Types DEF Serving
<1> QED BY <1>4, <1>5, <1>7

\* _remove_challenge removes one.
LEMMA Removed ==
    ASSUME AcmeInv, NEW token, Remove(token), runs' = runs
    PROVE  /\ Served' = Served \ {token}
           /\ webroot' \subseteq ChallengeFile /\ temps' \subseteq ChallengeFile
           /\ \A f \in webroot' : f.run <= runs
<1>1. PICK file : file = File(token)
  OBVIOUS
<1>2. file = [run |-> runs, token |-> token]
  BY <1>1 DEF File
<1>3. webroot' = webroot \ {file} /\ temps' = temps
  BY <1>1 DEF Remove
<1>4. ASSUME NEW f \in webroot, f.run = runs
      PROVE  f = file <=> f.token = token
  <2>1. f = [run |-> f.run, token |-> f.token]
    BY Types DEF ChallengeFile
  <2> QED BY <1>2, <1>4, <2>1
<1>5. \A t : t \in Served' <=> t \in Served /\ t # token
  BY <1>3, <1>4 DEF Served
<1> QED BY <1>3, <1>5, Types DEF Serving

\* A temporary file is not served.
LEMMA WrittenTemporarily ==
    ASSUME AcmeInv, NEW token \in Domain \union {Synthetic}, WriteTemporary(token), runs' = runs
    PROVE  Served' = Served /\ webroot' = webroot /\ temps' \subseteq ChallengeFile
<1>1. PICK file : file = File(token)
  OBVIOUS
<1>2. file \in ChallengeFile
  BY <1>1, Types DEF File, ChallengeFile
<1> QED BY <1>1, <1>2, Types DEF WriteTemporary, Served

\* What is served when the file of the self check, or none, is in place.
LEMMA CheckStep ==
    ASSUME AcmeInv, NEW label \in Checking \union Checked \union {"load"}, Go(label),
           run.pc \in Checking \union Checked,
           webroot' \subseteq ChallengeFile, temps' \subseteq ChallengeFile,
           \A f \in webroot' : f.run <= runs,
           label \in Checking \union {"load"} => Served' = {},
           label \in Checked => Served' \subseteq {Synthetic},
           UNCHANGED <<accountKey, store, runs, faults>>
    PROVE  AcmeInv'
<1>1. /\ label \in Labels \ {"stopped"} /\ label \in Early /\ label \in Unanswered
      /\ label \notin Filling \union Late \union Proving
      /\ run.pc \in Early /\ run.pc \in Unanswered
  BY DEF Labels, Early, Unanswered, Filling, Late, Proving, Checking, Checked
<1>2. /\ run' \in RunState /\ run'.pc = label
      /\ UNCHANGED <<run.force, run.token, run.paths, run.answered, run.file>>
  BY <1>1, Types, Went
<1>3. Serving'
  BY <1>1, <1>2, Types DEF Serving
<1>4. AnsweredIsServed'
  BY <1>1, <1>2 DEF AnsweredIsServed, Proving
<1>5. run'.file = 1
  BY <1>1, <1>2, Types DEF Generations
<1>6. run'.pc \notin {"publish", "answer", "chown", "discard"}
  BY <1>1, <1>2 DEF Proving, Late
<1> QED BY <1>1, <1>2, <1>3, <1>4, <1>5, <1>6, Types, OrderStep

\* The self check.
LEMMA PreflightStep == ASSUME AcmeInv, Preflight PROVE AcmeInv'
<1>1. Synthetic \in Domain \union {Synthetic}
  OBVIOUS
<1>2. /\ Checking = {"selfCheckTemporary", "selfCheckPublish"}
      /\ Checked = {"selfCheck", "selfCheckDone", "selfCheckFailed"}
  BY DEF Checking, Checked
<1>3. ASSUME SelfCheckTemporary PROVE AcmeInv'
  <2>1. Served' = Served /\ webroot' = webroot /\ temps' \subseteq ChallengeFile
    BY <1>1, <1>3, WrittenTemporarily DEF SelfCheckTemporary
  <2>2. run.pc = "selfCheckTemporary" /\ Go("selfCheckPublish")
        /\ UNCHANGED <<accountKey, store, runs, faults>>
    BY <1>3 DEF SelfCheckTemporary, At
  <2>3. Served = {} /\ \A f \in webroot : f.run <= runs
    BY <1>2, <2>2, Types DEF Serving
  <2> QED BY <1>2, <2>1, <2>2, <2>3, Types, CheckStep
<1>4. ASSUME SelfCheckPublish PROVE AcmeInv'
  <2>1. run.pc = "selfCheckPublish" /\ Go("selfCheck")
        /\ UNCHANGED <<accountKey, store, runs, faults>>
    BY <1>4 DEF SelfCheckPublish, At
  <2>2. /\ Served' = Served \union {Synthetic}
        /\ webroot' \subseteq ChallengeFile /\ temps' \subseteq ChallengeFile
        /\ \A f \in webroot' : f.run <= runs
    BY <1>1, <1>4, Published DEF SelfCheckPublish
  <2>3. Served = {}
    BY <1>2, <2>1, Types DEF Serving
  <2> QED BY <1>2, <2>1, <2>2, <2>3, CheckStep
<1>5. ASSUME SelfCheckPasses PROVE AcmeInv'
  <2>1. run.pc = "selfCheck" /\ Go("selfCheckDone")
        /\ UNCHANGED <<accountKey, challenge, store, runs, faults>>
    BY <1>5 DEF SelfCheckPasses, At
  <2>2. UNCHANGED <<webroot, temps>> /\ Served' = Served
    BY <2>1 DEF challenge, Served
  <2>3. Served \subseteq {Synthetic} /\ \A f \in webroot : f.run <= runs
    BY <1>2, <2>1, Types DEF Serving
  <2> QED BY <1>2, <2>1, <2>2, <2>3, Types, CheckStep
<1>6. ASSUME SelfCheckRemove PROVE AcmeInv'
  <2>1. /\ run.pc \in {"selfCheckDone", "selfCheckFailed"} /\ Remove(Synthetic)
        /\ UNCHANGED <<accountKey, store, runs, faults>>
        /\ Go("load") \/ Go("stopped")
    BY <1>6 DEF SelfCheckRemove, At
  <2>2. /\ Served' = Served \ {Synthetic}
        /\ webroot' \subseteq ChallengeFile /\ temps' \subseteq ChallengeFile
        /\ \A f \in webroot' : f.run <= runs
    BY <2>1, Removed
  <2>3. Served \subseteq {Synthetic}
    BY <1>2, <2>1, Types DEF Serving
  <2>4. CASE Go("load")
    BY <1>2, <2>1, <2>2, <2>3, <2>4, CheckStep
  <2>5. CASE Go("stopped")
    <3>1. run' = Stopped
      BY <2>5 DEF Go, Goto
    <3> QED BY <2>1, <2>2, <3>1, Types, StopStep
  <2> QED BY <2>1, <2>4, <2>5
<1> QED BY <1>3, <1>4, <1>5, <1>6 DEF Preflight

\* A new run: the challenge files that earlier ones left are not its own.
LEMMA BeginStep == ASSUME AcmeInv, NEW force \in ForceRenewal, Begin(force) PROVE AcmeInv'
<1>1. PICK label \in {"selfCheckTemporary", "load"} :
        run' = [Stopped EXCEPT !.pc = label, !.force = force]
  BY DEF Begin
<1>2. force \in BOOLEAN
  BY AcmeAssumption
<1>3. label \in Labels \ {"stopped"} /\ label \in Checking \union {"load"} /\ label \notin Checked
      /\ label \notin Filling \union Late \union Proving /\ label \in Unanswered
  BY DEF Labels, Early, Unanswered, Filling, Late, Proving, Checking, Checked
<1>4. /\ run' \in RunState /\ run'.pc = label /\ run'.file = 1 /\ run'.answered = {}
  BY <1>1, <1>2, <1>3, StoppedState DEF RunState
<1>5. /\ runs' = runs + 1 /\ UNCHANGED <<accountKey, webroot, temps, store, faults>>
  BY DEF Begin, challenge
<1>6. ASSUME NEW f \in webroot PROVE f.run # runs + 1 /\ f.run <= runs + 1
  <2>1. f.run \in Nat /\ f.run <= runs /\ runs \in Nat
    BY Types DEF ChallengeFile, Serving
  <2> QED BY <2>1
<1>7. Served' = {}
  BY <1>5, <1>6 DEF Served
<1>8. Serving'
  BY <1>3, <1>4, <1>5, <1>6, <1>7 DEF Serving
<1>9. AnsweredIsServed'
  BY <1>3, <1>4 DEF AnsweredIsServed, Proving
<1>10. run'.pc \notin {"publish", "answer", "chown", "discard"}
  BY <1>3, <1>4 DEF Proving, Late
<1>11. runs' \in Nat
  BY <1>5, Types
<1> QED BY <1>3, <1>4, <1>5, <1>8, <1>9, <1>10, <1>11, Types, OrderStep

-----------------------------------------------------------------------------
(***************************************************************************)
(* The order.                                                              *)
(***************************************************************************)

\* The end of a run that changes no file.
LEMMA EndStep ==
    ASSUME AcmeInv, Go("stopped"), faults' \in Nat, UNCHANGED <<accountKey, challenge, store, runs>>
    PROVE  AcmeInv'
<1>1. run' = Stopped /\ UNCHANGED <<webroot, temps>>
  BY DEF Go, Goto, challenge
<1> QED BY <1>1, Types, StopStep DEF Serving

\* The steps that lead to the order.
LEMMA AccountStep ==
    ASSUME AcmeInv, Load \/ AccountOpen \/ AccountWrite \/ AccountRead
    PROVE  AcmeInv'
<1>1. /\ run.pc \in Ordering \union {"load"} /\ UNCHANGED <<webroot, temps, store, runs, faults>>
      /\ accountKey' \in Content
      /\ \/ \E label \in {"account", "accountWrite", "accountRead", "order", "cleanup"} : Go(label)
         \/ Go("stopped") /\ UNCHANGED accountKey
  <2>1. /\ UNCHANGED <<challenge, store, runs, faults>>
        /\ run.pc \in {"load", "account", "accountWrite", "accountRead"}
    BY DEF Load, AccountOpen, AccountWrite, AccountRead, At
  <2>2. accountKey' \in Content
    BY Types DEF Load, AccountOpen, AccountWrite, AccountRead, Content
  <2>3. \/ \E label \in {"account", "accountWrite", "accountRead", "order", "cleanup"} : Go(label)
        \/ Go("stopped") /\ UNCHANGED accountKey
    BY DEF Load, AccountOpen, AccountWrite, AccountRead, At
  <2> QED BY <2>1, <2>2, <2>3 DEF challenge, Ordering
<1>2. CASE Go("stopped") /\ UNCHANGED accountKey
  BY <1>1, <1>2, Types, EndStep DEF challenge
<1>3. ASSUME NEW label \in {"account", "accountWrite", "accountRead", "order", "cleanup"}, Go(label)
      PROVE  AcmeInv'
  <2>1. /\ label \in Labels \ {"stopped"} /\ label \notin Filling \union {"chown", "discard"}
        /\ label \notin Checking \union Proving \union {"load"} /\ label \notin Checked
        /\ run.pc \in Early /\ run.pc # "stopped" /\ run.pc \notin Checked
    BY <1>1 DEF Labels, Early, Unanswered, Filling, Late, Proving, Checking, Checked, Ordering
  <2> QED BY <1>1, <1>3, <2>1, Types, MoveStep
<1> QED BY <1>1, <1>2, <1>3

\* What the loop over the authorizations keeps: the challenges that were
\* answered are served, and what is served will be removed.
LEMMA LoopStep ==
    ASSUME AcmeInv, run' \in RunState, run'.pc \in Proving, run'.file = run.file, run.pc \in Early,
           run'.pc \in {"publish", "answer"} => run'.token \in Domain,
           webroot' \subseteq ChallengeFile, temps' \subseteq ChallengeFile,
           \A f \in webroot' : f.run <= runs,
           Served' \subseteq run'.paths, run'.answered \subseteq Served',
           run'.pc = "answer" => run'.token \in Served',
           UNCHANGED <<accountKey, store, runs, faults>>
    PROVE  AcmeInv'
<1>1. /\ run'.pc \notin Checking \union Checked \union {"load", "stopped"} \union Unanswered
      /\ run'.pc \notin Filling \union {"chown", "discard"}
  BY DEF Proving, Unanswered, Checking, Checked, Ordering, Filling
<1>2. Serving'
  BY <1>1 DEF Serving
<1>3. AnsweredIsServed'
  BY DEF AnsweredIsServed
<1>4. run'.file = 1
  BY Types DEF Generations
<1> QED BY <1>1, <1>2, <1>3, <1>4, Types, OrderStep

\* What is known inside the loop.
LEMMA LoopFacts ==
    ASSUME AcmeInv, run.pc \in Proving
    PROVE  /\ Served \subseteq run.paths /\ run.answered \subseteq Served
           /\ run.pc \in Early /\ \A f \in webroot : f.run <= runs
           /\ run.pc \in {"publish", "answer"} => run.token \in Domain
           /\ run.pc = "answer" => run.token \in Served
<1>1. run.pc \in Early /\ run.pc \in Labels
      /\ run.pc \notin Checking \union Checked \union {"load", "stopped"}
  BY DEF Early, Labels, Proving, Checking, Checked
<1> QED BY <1>1, Types DEF Serving, AnsweredIsServed, Proving, AcmeInv, TypeInv

\* new_order
LEMMA NewOrderStep == ASSUME AcmeInv, NewOrder PROVE AcmeInv'
<1>1. /\ run.pc = "order" /\ Go("temporary") /\ "temporary" \in Labels \ {"stopped"}
      /\ UNCHANGED <<accountKey, webroot, temps, store, runs, faults>>
      /\ "temporary" \in Proving /\ run.pc \in Unanswered
      /\ run.pc \in Labels \ (Checking \union Checked \union {"load", "stopped"})
  BY DEF NewOrder, At, challenge, Labels, Early, Proving, Unanswered, Ordering, Checking, Checked
<1>2. /\ run' \in RunState /\ run'.pc = "temporary"
      /\ UNCHANGED <<run.force, run.token, run.paths, run.answered, run.file>>
  BY <1>1, Types, Went
<1>3. Served' = Served
  BY <1>1 DEF Served
<1>4. Served \subseteq run.paths /\ run.answered = {} /\ \A f \in webroot : f.run <= runs
  BY <1>1, Types DEF Serving
<1> QED BY <1>1, <1>2, <1>3, <1>4, Types, Groups, LoopStep

\* The temporary file of a challenge.
LEMMA TemporaryStep == ASSUME AcmeInv, Temporary PROVE AcmeInv'
<1>1. PICK d \in Domain :
        /\ WriteTemporary(d)
        /\ run' = [run EXCEPT !.pc = "publish", !.token = d]
  BY DEF Temporary
<1>2. /\ run.pc \in Proving /\ "publish" \in Proving /\ "publish" \in Labels
      /\ UNCHANGED <<accountKey, store, runs, faults>>
  BY DEF Temporary, Proving, Labels, Early
<1>3. /\ run' \in RunState /\ run'.pc = "publish" /\ run'.token = d
      /\ UNCHANGED <<run.paths, run.answered, run.file>>
  BY <1>1, <1>2, Types DEF RunState
<1>4. Served' = Served /\ webroot' = webroot /\ temps' \subseteq ChallengeFile
  BY <1>1, <1>2, WrittenTemporarily
<1> QED BY <1>2, <1>3, <1>4, Types, LoopFacts, LoopStep

\* The challenge file, and its path for the removal.
LEMMA PublishChallengeStep == ASSUME AcmeInv, PublishChallenge PROVE AcmeInv'
<1>1. /\ run.pc = "publish" /\ run.pc \in Proving /\ "answer" \in Proving /\ "answer" \in Labels
      /\ UNCHANGED <<accountKey, store, runs, faults>>
  BY DEF PublishChallenge, Proving, Labels, Early
<1>2. PICK d \in Domain : d = run.token
  BY <1>1, LoopFacts
<1>3. PICK paths \in SUBSET Domain : paths = run.paths \union {d}
  BY Types
<1>4. Publish(d) /\ run' = [run EXCEPT !.pc = "answer", !.paths = paths]
  BY <1>2, <1>3 DEF PublishChallenge
<1>5. /\ run' \in RunState /\ run'.pc = "answer" /\ run'.paths = paths
      /\ UNCHANGED <<run.token, run.answered, run.file>>
  BY <1>1, <1>4, Types DEF RunState
<1>6. /\ Served' = Served \union {d}
      /\ webroot' \subseteq ChallengeFile /\ temps' \subseteq ChallengeFile
      /\ \A f \in webroot' : f.run <= runs
  BY <1>1, <1>4, Published
<1> QED BY <1>1, <1>2, <1>3, <1>5, <1>6, LoopFacts, LoopStep, Types

\* The challenge is answered: its file is in place.
LEMMA AnswerChallengeStep == ASSUME AcmeInv, AnswerChallenge PROVE AcmeInv'
<1>1. /\ run.pc = "answer" /\ run.pc \in Proving
      /\ UNCHANGED <<accountKey, webroot, temps, store, runs, faults>>
  BY DEF AnswerChallenge, Proving, challenge
<1>2. PICK answered \in SUBSET Domain : answered = run.answered \union {run.token}
  BY <1>1, LoopFacts, Types
<1>3. PICK label \in {"finalize", "temporary"} :
        run' = [run EXCEPT !.pc = label, !.answered = answered]
  BY <1>2 DEF AnswerChallenge
<1>4. label \in Labels /\ label \in Proving
  BY DEF Labels, Early, Proving
<1>5. /\ run' \in RunState /\ run'.pc = label /\ run'.answered = answered
      /\ UNCHANGED <<run.token, run.paths, run.file>>
  BY <1>3, <1>4, Types DEF RunState
<1>6. Served' = Served
  BY <1>1 DEF Served
<1> QED BY <1>1, <1>2, <1>4, <1>5, <1>6, LoopFacts, LoopStep, Types

\* The end of the order, up to the material of the certificate.
LEMMA FinalizeStep == ASSUME AcmeInv, Finalize \/ SelectChain PROVE AcmeInv'
<1>1. /\ run.pc \in {"finalize", "select"} /\ UNCHANGED <<accountKey, challenge, store, runs>>
      /\ UNCHANGED faults \/ Fault
      /\ \E label \in {"select", "cleanup", "mkdir"} : Go(label)
  BY DEF Finalize, SelectChain, At
<1>2. PICK label \in {"select", "cleanup", "mkdir"} : Go(label)
  BY <1>1
<1>3. /\ label \in Labels \ {"stopped"} /\ label \notin Filling \union {"chown", "discard"}
      /\ label \notin Checking \union Proving \union {"load"} \union Checked \union Ordering
      /\ run.pc \in Early /\ run.pc # "stopped" /\ run.pc \notin Checked
  BY <1>1 DEF Labels, Early, Unanswered, Filling, Late, Proving, Checking, Checked, Ordering
<1>4. UNCHANGED <<webroot, temps>> /\ faults' \in Nat
  BY <1>1, Types DEF challenge, Fault
<1> QED BY <1>1, <1>2, <1>3, <1>4, Types, MoveStep

\* The finally of issue removes the challenge files one by one.
LEMMA CleanupStep == ASSUME AcmeInv, Cleanup PROVE AcmeInv'
<1>1. /\ run.pc = "cleanup" /\ UNCHANGED <<accountKey, store, runs, faults>>
      /\ run.pc \in Labels \ (Checking \union Checked \union {"load", "stopped"})
      /\ run.pc \notin Early
  BY DEF Cleanup, Labels, Early, Unanswered, Late, Proving, Checking, Checked, Ordering
<1>2. CASE run' = Stopped /\ UNCHANGED challenge
  <2>1. UNCHANGED <<webroot, temps>>
    BY <1>2 DEF challenge
  <2> QED BY <1>1, <1>2, <2>1, Types, StopStep DEF Serving
<1>3. ASSUME NEW token \in run.paths, Remove(token), run' = [run EXCEPT !.paths = run.paths \ {token}]
      PROVE  AcmeInv'
  <2>1. PICK paths \in SUBSET Domain : paths = run.paths \ {token}
    BY Types
  <2>2. run' = [run EXCEPT !.paths = paths]
    BY <1>3, <2>1
  <2>3. run' \in RunState /\ run'.pc = "cleanup" /\ run'.paths = paths
    BY <1>1, <2>2, Types DEF RunState
  <2>4. /\ Served' = Served \ {token}
        /\ webroot' \subseteq ChallengeFile /\ temps' \subseteq ChallengeFile
        /\ \A f \in webroot' : f.run <= runs
    BY <1>1, <1>3, Removed
  <2>5. Served \subseteq run.paths
    BY <1>1, Types DEF Serving
  <2>6. run'.pc \notin Unanswered \union Checking \union Checked \union {"load", "stopped"}
    BY <1>1, <2>3, Groups
  <2>7. Serving'
    BY <1>1, <2>1, <2>3, <2>4, <2>5, <2>6 DEF Serving
  <2>8. AnsweredIsServed'
    BY <2>3 DEF AnsweredIsServed
  <2>9. run'.pc \notin Filling \union {"chown", "discard", "publish", "answer"}
    BY <2>3 DEF Filling
  <2> QED BY <1>1, <2>3, <2>4, <2>7, <2>8, <2>9, Types, OrderStep
<1> QED BY <1>2, <1>3 DEF Cleanup

-----------------------------------------------------------------------------
(***************************************************************************)
(* commit.                                                                 *)
(***************************************************************************)

\* A file of the newest generation changes, and nothing else in the store.
LEMMA FilePut ==
    ASSUME AcmeInv, Newest # 0, NEW file \in DOMAIN Empty, NEW content \in Content,
           Put(file, content)
    PROVE  /\ gens' \in Seq([DOMAIN Empty -> Content]) /\ Len(gens') = Len(gens)
           /\ \A g \in DOMAIN gens : g # Newest => gens'[g] = gens[g]
           /\ gens'[Newest][file] = content
           /\ \A f \in DOMAIN Empty : f # file => gens'[Newest][f] = gens[Newest][f]
<1>1. PICK n : n = Newest
  OBVIOUS
<1>2. n \in DOMAIN gens
  BY <1>1, Types DEF Newest
<1>3. gens[n] \in [DOMAIN Empty -> Content]
  BY <1>2, Types
<1>4. PICK files : files = [gens[n] EXCEPT ![file] = content]
  OBVIOUS
<1>5. /\ files \in [DOMAIN Empty -> Content] /\ files[file] = content
      /\ \A f \in DOMAIN Empty : f # file => files[f] = gens[n][f]
  BY <1>3, <1>4
<1>6. gens' = [gens EXCEPT ![n] = files]
  BY <1>1, <1>4 DEF Put
<1>7. /\ gens' \in Seq([DOMAIN Empty -> Content]) /\ Len(gens') = Len(gens)
      /\ gens'[n] = files /\ \A g \in DOMAIN gens : g # n => gens'[g] = gens[g]
  BY <1>2, <1>5, <1>6, Types, ExceptSeq
<1> QED BY <1>1, <1>5, <1>7

\* The current generation stays complete while another one changes.
LEMMA CurrentKept ==
    ASSUME AcmeInv, current' = current, current # Newest \/ Newest = 0,
           \A g \in DOMAIN gens : g # Newest => gens'[g] = gens[g]
    PROVE  ~Interruptible => CurrentIsComplete'
<1> SUFFICES ASSUME ~Interruptible, current # NoGeneration PROVE IsComplete(current)'
  BY DEF CurrentIsComplete
<1>1. IsComplete(current)
  BY DEF AcmeInv, CurrentIsComplete
<1>2. current \in DOMAIN gens /\ current # Newest
  BY Types DEF NoGeneration, Newest
<1> QED BY <1>1, <1>2 DEF IsComplete

\* A new generation, empty.
LEMMA MakeDirectoryStep == ASSUME AcmeInv, MakeDirectory PROVE AcmeInv'
<1>1. /\ run.pc = "mkdir" /\ Go("open") /\ gens' = Append(gens, Empty)
      /\ UNCHANGED <<accountKey, challenge, links, current, due, runs, faults>>
      /\ "open" \in Labels \ {"stopped"} /\ "open" \in Filling /\ run.pc \in Early
      /\ "open" \notin Early
  BY Groups DEF MakeDirectory, At, Labels, Filling, Early
<1>2. /\ run' \in RunState /\ run'.pc = "open"
      /\ UNCHANGED <<run.force, run.token, run.paths, run.answered, run.file>>
  BY <1>1, Types, Went
<1>3. run'.file = 1
  BY <1>1, <1>2, Types DEF Generations
<1>4. PICK n \in Nat : n = Len(gens)
  BY Types
<1>5. /\ gens' \in Seq([DOMAIN Empty -> Content]) /\ Len(gens') = n + 1
      /\ DOMAIN gens' = 1..n + 1 /\ \A g \in 1..n : gens'[g] = gens[g]
  BY <1>1, <1>4, FilesFacts, Types
<1>6. links' \subseteq DOMAIN gens' /\ current' \in 0..Len(gens') /\ current' \in 0..n
  BY <1>1, <1>4, <1>5, Types
<1>7. Generations'
  <2>1. Newest' = n + 1 /\ Newest' # 0 /\ current' # Newest'
    BY <1>5, <1>6 DEF Newest
  <2>2. \A j \in 1..run'.file - 1 : FALSE
    BY <1>3
  <2> QED BY <1>1, <1>2, <2>1, <2>2 DEF Generations, Filling
<1>8. ~Interruptible => CurrentIsComplete'
  <2> SUFFICES ASSUME ~Interruptible, current # NoGeneration PROVE IsComplete(current)'
    BY <1>1 DEF CurrentIsComplete
  <2>1. IsComplete(current)
    BY DEF AcmeInv, CurrentIsComplete
  <2>2. current \in 1..n
    BY <1>4, Types DEF NoGeneration
  <2> QED BY <1>1, <1>5, <2>1, <2>2 DEF IsComplete
<1> QED BY <1>1, <1>2, <1>5, <1>6, <1>7, <1>8, Types, CommitStep

\* A file is opened, or has its content.
LEMMA FileStep == ASSUME AcmeInv, OpenFile \/ WriteFile PROVE AcmeInv'
<1>1. /\ run.pc \in {"open", "write"} /\ run.pc \in Filling
      /\ UNCHANGED <<accountKey, challenge, links, current, due, runs, faults>>
      /\ {"open", "write", "link"} \subseteq Filling \intersect Labels
  BY DEF OpenFile, WriteFile, At, Filling, Labels
<1>2. PICK k \in 1..3 : k = run.file
  BY Types
<1>3. PICK n \in Nat : n = Newest
  BY Types DEF Newest
<1>4. /\ n # 0 /\ current # n /\ \A j \in 1..k - 1 : gens[n][Files[j]] = "whole"
  BY <1>1, <1>2, <1>3, Types DEF Generations
<1>5. PICK file \in DOMAIN Empty : file = Files[k]
  BY FilesFacts
<1>6. PICK content \in {"partial", "whole"} :
        Put(file, content) /\ (WriteFile => content = "whole")
  BY <1>2, <1>5 DEF OpenFile, WriteFile
<1>7. content \in Content
  BY DEF Content
<1>8. /\ gens' \in Seq([DOMAIN Empty -> Content]) /\ Len(gens') = Len(gens)
      /\ \A g \in DOMAIN gens : g # n => gens'[g] = gens[g]
      /\ gens'[n][file] = content
      /\ \A f \in DOMAIN Empty : f # file => gens'[n][f] = gens[n][f]
  BY <1>3, <1>4, <1>6, <1>7, FilePut
<1>9. Newest' = n /\ DOMAIN gens' = DOMAIN gens
  BY <1>3, <1>8, Types DEF Newest
<1>10. \A j \in 1..k - 1 : gens'[n][Files[j]] = "whole"
  <2>1. ASSUME NEW j \in 1..k - 1 PROVE Files[j] \in DOMAIN Empty /\ Files[j] # file
    <3>1. j \in 1..3 /\ j # k
      OBVIOUS
    <3>2. Files[1] = "cert" /\ Files[2] = "chain" /\ Files[3] = "privkey"
      BY DEF Files
    <3>3. (j = 1 \/ j = 2 \/ j = 3) /\ (k = 1 \/ k = 2 \/ k = 3)
      BY <3>1
    <3>4. Files[j] # Files[k]
      BY <3>1, <3>2, <3>3
    <3> QED BY <1>5, <3>1, <3>4, FilesFacts
  <2> QED BY <1>4, <1>8, <2>1
<1>11. /\ run' \in RunState /\ run'.paths = run.paths
       /\ \/ run'.pc = "write" /\ run'.file = k
          \/ run'.pc = "open" /\ run'.file = k + 1 /\ gens'[n][file] = "whole"
          \/ run'.pc = "link" /\ k = 3 /\ gens'[n][file] = "whole"
  <2>1. CASE OpenFile
    <3>1. run' \in RunState /\ run'.pc = "write" /\ UNCHANGED <<run.paths, run.file>>
      BY <1>1, <2>1, Types, Went DEF OpenFile, At, Filling
    <3> QED BY <1>2, <3>1
  <2>2. CASE WriteFile /\ k < 3
    <3>1. PICK next \in 1..3 : next = k + 1
      BY <2>2
    <3>2. run' = [run EXCEPT !.pc = "open", !.file = next]
      BY <1>2, <2>2, <3>1, FilesFacts DEF WriteFile
    <3>3. /\ run' \in RunState /\ run'.pc = "open" /\ run'.file = next
          /\ run'.paths = run.paths
      BY <1>1, <3>2, Types DEF RunState
    <3> QED BY <1>6, <1>8, <2>2, <3>1, <3>3
  <2>3. CASE WriteFile /\ ~(k < 3)
    <3>1. Go("link")
      BY <1>2, <2>3, FilesFacts DEF WriteFile, Go
    <3>2. run' \in RunState /\ run'.pc = "link" /\ UNCHANGED <<run.paths>>
      BY <1>1, <3>1, Types, Went DEF Filling
    <3> QED BY <1>6, <1>8, <2>3, <3>2
  <2> QED BY <2>1, <2>2, <2>3
<1>12. Generations'
  <2>1. n # 0 /\ current' # n
    BY <1>1, <1>4
  <2>2. CASE run'.pc = "write" /\ run'.file = k
    BY <1>9, <1>10, <2>1, <2>2, Groups DEF Generations, Filling
  <2>3. CASE run'.pc = "open" /\ run'.file = k + 1 /\ gens'[n][file] = "whole"
    <3>1. \A j \in 1..k + 1 - 1 : j \in 1..k - 1 \/ j = k
      OBVIOUS
    <3>2. \A j \in 1..k + 1 - 1 : gens'[n][Files[j]] = "whole"
      BY <1>5, <1>10, <2>3, <3>1
    <3>3. run'.pc \in Filling /\ run'.pc \notin Early
      BY <2>3, Groups DEF Filling
    <3> QED BY <1>9, <2>1, <2>3, <3>2, <3>3 DEF Generations
  <2>4. CASE run'.pc = "link" /\ k = 3 /\ gens'[n][file] = "whole"
    <3>1. \A j \in 1..3 : j \in 1..k - 1 \/ j = k
      BY <2>4
    <3>2. \A j \in 1..3 : gens'[n][Files[j]] = "whole"
      BY <1>5, <1>10, <2>4, <3>1
    <3>3. \A f \in DOMAIN Empty : gens'[n][f] = "whole"
      BY <3>2, FilesFacts
    <3>4. IsComplete(Newest)'
      BY <1>9, <3>3 DEF IsComplete
    <3>5. run'.pc \in Filling /\ run'.pc \notin Early
      BY <2>4, Groups DEF Filling
    <3> QED BY <1>9, <2>1, <2>4, <3>4, <3>5 DEF Generations
  <2> QED BY <1>11, <2>2, <2>3, <2>4
<1>13. ~Interruptible => CurrentIsComplete'
  BY <1>1, <1>3, <1>4, <1>8, CurrentKept
<1>14. links' \subseteq DOMAIN gens' /\ current' \in 0..Len(gens')
  BY <1>1, <1>8, <1>9, Types
<1>15. run'.pc \in Filling
  BY <1>1, <1>11
<1> QED BY <1>1, <1>8, <1>11, <1>12, <1>13, <1>14, <1>15, Types, CommitStep

\* The temporary symlink, the one step that changes what load returns, and
\* the steps after it.
LEMMA PointerStep == ASSUME AcmeInv, Link \/ Replace \/ Chown \/ CommitLoad PROVE AcmeInv'
<1>1. /\ run.pc \in {"link", "replace", "chown", "commitLoad"}
      /\ run.pc \in Filling \union Late
      /\ UNCHANGED <<accountKey, challenge, gens, runs, faults>>
      /\ \E label \in {"replace", "chown", "commitLoad", "cleanup"} : Go(label)
  BY DEF Link, Replace, Chown, CommitLoad, At, store, Filling, Late
<1>2. PICK label \in {"replace", "chown", "commitLoad", "cleanup"} : Go(label)
  BY <1>1
<1>3. label \in Filling \union Late /\ label \in Labels \ {"stopped"} /\ label \notin Early
  <2>1. label \in Filling \union Late
    BY DEF Filling, Late
  <2> QED BY <2>1, Groups
<1>4. run' \in RunState /\ run'.pc = label /\ UNCHANGED run.paths
  BY <1>2, <1>3, Types, Went
<1>5. Newest' = Newest /\ DOMAIN gens' = DOMAIN gens /\ \A g : IsComplete(g)' = IsComplete(g)
  BY <1>1 DEF Newest, IsComplete
<1>6. CASE Replace
  <2>1. run.pc = "replace" /\ current' = Newest /\ links' \subseteq links /\ due' = FALSE
    BY <1>6 DEF Replace, At
  <2>2. Newest # 0 /\ IsComplete(Newest) /\ Newest \in 0..Len(gens)
    BY <2>1, Types DEF Generations, Filling, Newest
  <2>3. run'.pc = "chown"
    <3>1. Go("chown") /\ "chown" \in Labels \ {"stopped"}
      BY <1>6, Groups DEF Replace, At, Late
    <3> QED BY <3>1, Types, Went
  <2>4. Generations'
    BY <1>5, <2>2, <2>3, Groups DEF Generations, Filling, Late
  <2>5. CurrentIsComplete'
    BY <1>5, <2>1, <2>2 DEF CurrentIsComplete
  <2>6. /\ gens' \in Seq([DOMAIN Empty -> Content]) /\ links' \subseteq DOMAIN gens'
        /\ current' \in 0..Len(gens') /\ due' \in BOOLEAN /\ faults' \in Nat
    BY <1>1, <2>1, <2>2, Types
  <2> QED BY <1>1, <1>3, <1>4, <2>4, <2>5, <2>6, CommitStep
<1>7. CASE ~Replace
  <2>1. current' = current /\ due' = due
    BY <1>7 DEF Link, Replace, Chown, CommitLoad, store
  <2>2. links' \subseteq DOMAIN gens'
    <3>1. CASE Link
      <4>1. run.pc = "link" /\ links' = links \union {Newest}
        BY <3>1 DEF Link, At
      <4>2. Newest \in DOMAIN gens
        BY <4>1, Types DEF Generations, Filling, Newest
      <4> QED BY <1>5, <4>1, <4>2, Types
    <3>2. CASE ~Link
      BY <1>5, <1>7, <3>2, Types DEF Chown, CommitLoad, store
    <3> QED BY <3>1, <3>2
  <2>3. \/ run'.pc = "replace" /\ run.pc = "link"
        \/ run'.pc \in {"commitLoad", "cleanup"}
    <3>1. \/ run.pc = "link" /\ Go("replace")
          \/ Go("commitLoad") \/ Go("cleanup")
      BY <1>7 DEF Link, Chown, CommitLoad, At
    <3>2. {"replace", "commitLoad", "cleanup"} \subseteq Labels \ {"stopped"}
      BY Groups DEF Filling, Late
    <3> QED BY <3>1, <3>2, Types, Went
  <2>4. Generations'
    <3>1. run.pc = "link" => Newest # 0 /\ current # Newest /\ IsComplete(Newest)
      BY Types DEF Generations, Filling
    <3> QED BY <1>3, <1>4, <1>5, <2>1, <2>3, <3>1 DEF Generations, Filling
  <2>5. ~Interruptible => CurrentIsComplete'
    BY <1>5, <2>1 DEF AcmeInv, CurrentIsComplete
  <2>6. /\ gens' \in Seq([DOMAIN Empty -> Content]) /\ current' \in 0..Len(gens')
        /\ due' \in BOOLEAN /\ faults' \in Nat
    BY <1>1, <2>1, Types
  <2> QED BY <1>1, <1>3, <1>4, <2>2, <2>4, <2>5, <2>6, CommitStep
<1> QED BY <1>6, <1>7

\* The except of commit: unless an exception may hit a run after os.replace,
\* "current" does not name the generation that goes.
LEMMA DiscardStep == ASSUME AcmeInv, Discard PROVE AcmeInv'
<1>1. /\ run.pc = "discard" /\ Go("cleanup") /\ gens' = [gens EXCEPT ![Newest] = Empty]
      /\ UNCHANGED <<accountKey, challenge, links, current, due, runs, faults>>
  BY DEF Discard, At
<1>2. run.pc \in Late /\ "cleanup" \in Late /\ "cleanup" \in Labels \ {"stopped"}
  <2>1. run.pc \in Late /\ "cleanup" \in Late
    BY <1>1 DEF Late
  <2> QED BY <2>1, Groups
<1>3. run' \in RunState /\ run'.pc = "cleanup" /\ UNCHANGED run.paths
  BY <1>1, <1>2, Types, Went
<1>4. Newest # 0 /\ (~Interruptible => current # Newest)
  BY <1>1, Types DEF Generations
<1>5. PICK n \in DOMAIN gens : n = Newest
  BY <1>4, Types DEF Newest
<1>6. /\ gens' \in Seq([DOMAIN Empty -> Content]) /\ Len(gens') = Len(gens)
      /\ \A g \in DOMAIN gens : g # n => gens'[g] = gens[g]
  BY <1>1, <1>5, FilesFacts, Types, ExceptSeq
<1>7. DOMAIN gens' = DOMAIN gens
  BY <1>6, Types
<1>8. ~Interruptible => CurrentIsComplete'
  <2> SUFFICES ASSUME ~Interruptible PROVE CurrentIsComplete'
    OBVIOUS
  <2>1. current # Newest \/ Newest = 0
    BY <1>4
  <2> QED BY <1>1, <1>5, <1>6, <2>1, CurrentKept
<1>9. Generations'
  BY <1>2, <1>3, Groups DEF Generations, Filling
<1>10. links' \subseteq DOMAIN gens' /\ current' \in 0..Len(gens')
  BY <1>1, <1>6, <1>7, Types
<1> QED BY <1>1, <1>2, <1>3, <1>6, <1>8, <1>9, <1>10, Types, CommitStep

-----------------------------------------------------------------------------
(***************************************************************************)
(* Exceptions, deaths and time.                                            *)
(***************************************************************************)

\* What handles an exception.
LEMMA Handlers ==
    ASSUME NEW label \in InSelfCheck \union InCommit \union InIssue \union Unhandled
    PROVE  \/ label = "selfCheck" /\ Handler(label) = "selfCheckFailed"
           \/ /\ label \in Filling \/ (Interruptible /\ label = "chown")
              /\ Handler(label) = "discard"
           \/ /\ label \in Ordering \union Proving \union {"select", "mkdir", "commitLoad", "discard"}
              /\ Handler(label) = "cleanup"
           \/ Handler(label) = "stopped"
<1>1. CASE label \in InSelfCheck
  <2>1. label = "selfCheck"
    BY <1>1 DEF InSelfCheck
  <2>2. label \notin InCommit /\ label \notin InIssue /\ label \notin Unhandled
    BY <2>1 DEF InCommit, InIssue, Unhandled
  <2>3. Handler(label) = "selfCheckFailed"
    BY <1>1, <2>2 DEF Handler
  <2> QED BY <2>1, <2>3
<1>2. CASE label \in InCommit
  <2>1. label \in Filling \/ (Interruptible /\ label = "chown")
    BY <1>2 DEF InCommit, Filling
  <2>2. label \notin InSelfCheck /\ label \notin InIssue /\ label \notin Unhandled
    BY <2>1 DEF InSelfCheck, InIssue, Unhandled, Filling
  <2>3. Handler(label) = "discard"
    BY <1>2, <2>2 DEF Handler
  <2> QED BY <2>1, <2>3
<1>3. CASE label \in InIssue
  <2>1. label \in Ordering \union Proving \union {"select", "mkdir", "commitLoad", "discard"}
    BY <1>3 DEF InIssue, Ordering, Proving
  <2>2. label \notin InSelfCheck /\ label \notin InCommit /\ label \notin Unhandled
    BY <1>3 DEF InSelfCheck, InCommit, Unhandled, InIssue
  <2>3. Handler(label) = "cleanup"
    BY <1>3, <2>2 DEF Handler
  <2> QED BY <2>1, <2>3
<1>4. CASE label \in Unhandled
  <2>1. label \notin InSelfCheck /\ label \notin InCommit /\ label \notin InIssue
    BY <1>4 DEF InSelfCheck, InCommit, Unhandled, InIssue
  <2>2. Handler(label) = "stopped"
    BY <1>4, <2>1 DEF Handler
  <2> QED BY <2>2
<1> QED BY <1>1, <1>2, <1>3, <1>4

\* An exception at any control point.
LEMMA RaiseStep == ASSUME AcmeInv, Raise PROVE AcmeInv'
<1>1. PICK label : label = Handler(run.pc)
  OBVIOUS
<1>2. /\ run.pc \in InSelfCheck \union InCommit \union InIssue \union Unhandled
      /\ Go(label) /\ UNCHANGED <<accountKey, challenge, store, runs>>
      /\ faults' \in Nat
  BY <1>1, Types DEF Raise, Fault
<1>3. UNCHANGED <<webroot, temps, gens, links, current, due>>
  BY <1>2 DEF challenge, store
<1>4. CASE run.pc = "selfCheck" /\ label = "selfCheckFailed"
  <2>1. /\ label \in Labels \ {"stopped"} /\ label \in Checked /\ run.pc \in Checked /\ run.pc \in Early
        /\ label \notin Filling \union {"chown", "discard"}
        /\ label \notin Checking \union Proving \union {"load"} /\ label \notin Ordering
    BY <1>4 DEF Labels, Early, Unanswered, Filling, Proving, Checking, Checked, Ordering
  <2> QED BY <1>2, <1>3, <1>4, <2>1, Types, MoveStep
<1>5. CASE /\ run.pc \in Filling \/ (Interruptible /\ run.pc = "chown")
           /\ label = "discard"
  <2>1. /\ run.pc \in Filling \union Late \union {"mkdir"}
        /\ label \in Late /\ label \in Labels \ {"stopped"} /\ label \notin Early
    BY <1>5, Groups DEF Late
  <2>2. run' \in RunState /\ run'.pc = label /\ UNCHANGED run.paths
    BY <1>2, <2>1, Types, Went
  <2>3. Newest' = Newest /\ DOMAIN gens' = DOMAIN gens /\ \A g : IsComplete(g)' = IsComplete(g)
    BY <1>3 DEF Newest, IsComplete
  <2>4. Newest # 0 /\ (~Interruptible => current # Newest)
    BY <1>5, Types DEF Generations
  <2>5. Generations'
    BY <1>3, <1>5, <2>1, <2>2, <2>3, <2>4 DEF Generations, Filling
  <2>6. ~Interruptible => CurrentIsComplete'
    BY <1>3, <2>3 DEF AcmeInv, CurrentIsComplete
  <2>7. /\ gens' \in Seq([DOMAIN Empty -> Content]) /\ links' \subseteq DOMAIN gens'
        /\ current' \in 0..Len(gens') /\ due' \in BOOLEAN
    BY <1>3, Types
  <2> QED BY <1>2, <2>1, <2>2, <2>5, <2>6, <2>7, CommitStep
<1>6. CASE /\ run.pc \in Ordering \union Proving \union {"select", "mkdir", "commitLoad", "discard"}
           /\ label = "cleanup"
  <2>1. /\ label \in Labels \ {"stopped"} /\ label \in Late
        /\ label \notin Early /\ label \notin Filling \union {"chown", "discard"}
    BY <1>6, Groups DEF Late, Filling
  <2>2. label \notin Checking \union Checked \union Ordering \union Proving \union {"load"}
    BY <2>1 DEF Early, Unanswered
  <2>3. run.pc # "stopped" /\ run.pc \notin Checked
    BY <1>6 DEF Ordering, Proving, Checked
  <2> QED BY <1>2, <1>3, <2>1, <2>2, <2>3, Types, MoveStep
<1>7. CASE label = "stopped"
  BY <1>2, <1>7, EndStep
<1> QED BY <1>1, <1>2, <1>4, <1>5, <1>6, <1>7, Handlers

\* The leaf comes close to its expiry.
LEMMA DueStep == ASSUME AcmeInv, BecomeDue PROVE AcmeInv'
<1>1. UNCHANGED <<accountKey, webroot, temps, gens, links, current, runs, run, faults>>
      /\ due' = TRUE
  BY DEF BecomeDue, challenge
<1>2. /\ Served' = Served /\ Newest' = Newest /\ \A g : IsComplete(g)' = IsComplete(g)
  BY <1>1 DEF Served, Newest, IsComplete
<1>3. TypeInv'
  BY <1>1, Types DEF AcmeInv, TypeInv, TypeOK
<1>4. Serving' /\ AnsweredIsServed'
  BY <1>1, <1>2, Types DEF Serving, AnsweredIsServed
<1>5. Generations'
  BY <1>1, <1>2, Types DEF Generations
<1>6. ~Interruptible => CurrentIsComplete'
  BY <1>1, <1>2 DEF AcmeInv, CurrentIsComplete
<1> QED BY <1>3, <1>4, <1>5, <1>6 DEF AcmeInv

\* A step that changes nothing.
LEMMA IdleStep == ASSUME AcmeInv, UNCHANGED vars PROVE AcmeInv'
<1>1. UNCHANGED <<accountKey, webroot, temps, gens, links, current, due, runs, run, faults>>
  BY DEF vars, challenge, store
<1>2. /\ Served' = Served /\ Newest' = Newest /\ \A g : IsComplete(g)' = IsComplete(g)
  BY <1>1 DEF Served, Newest, IsComplete
<1>3. TypeInv'
  BY <1>1, Types DEF AcmeInv, TypeInv, TypeOK
<1>4. Serving' /\ AnsweredIsServed'
  BY <1>1, <1>2, Types DEF Serving, AnsweredIsServed
<1>5. Generations'
  BY <1>1, <1>2, Types DEF Generations
<1>6. ~Interruptible => CurrentIsComplete'
  BY <1>1, <1>2 DEF AcmeInv, CurrentIsComplete
<1> QED BY <1>3, <1>4, <1>5, <1>6 DEF AcmeInv

-----------------------------------------------------------------------------
(***************************************************************************)
(* The theorems.                                                           *)
(***************************************************************************)

\* The invariant holds on a host that has issued nothing.
LEMMA InitAcme == Init => AcmeInv
<1> SUFFICES ASSUME Init PROVE AcmeInv
  OBVIOUS
<1>1. /\ run = Stopped /\ run \in RunState /\ run.pc = "stopped" /\ run.file = 1
      /\ run.token = Synthetic
  BY StoppedState DEF Init, Stopped
<1>2. /\ gens = << >> /\ gens \in Seq([DOMAIN Empty -> Content]) /\ Len(gens) = 0
      /\ links = {} /\ current = NoGeneration /\ due = FALSE /\ webroot = {} /\ temps = {}
      /\ runs = 0 /\ faults = 0 /\ accountKey \in Content
  BY DEF Init, Content
<1>3. TypeInv
  <2>1. /\ run.token \in Domain \union {Synthetic} /\ run.paths \subseteq Domain
        /\ run.answered \subseteq Domain /\ run.file \in DOMAIN Files
    BY <1>1, FilesFacts DEF RunState
  <2>2. /\ webroot \subseteq ChallengeFile /\ temps \subseteq ChallengeFile
        /\ links \subseteq DOMAIN gens /\ due \in BOOLEAN /\ runs \in Nat /\ faults \in Nat
    BY <1>2
  <2>3. current \in 0..Len(gens)
    BY <1>2 DEF NoGeneration
  <2>4. TypeOK
    BY <1>2, <2>1, <2>2, <2>3 DEF TypeOK
  <2>5. run.pc \notin {"publish", "answer"}
    BY <1>1
  <2> QED BY <1>1, <2>4, <2>5 DEF TypeInv
<1>4. Serving
  BY <1>1, <1>2 DEF Serving, Checking, Checked, Unanswered, Ordering
<1>5. AnsweredIsServed
  BY <1>1 DEF AnsweredIsServed
<1>6. Generations
  BY <1>1 DEF Generations, Filling
<1>7. CurrentIsComplete
  BY <1>2 DEF CurrentIsComplete
<1> QED BY <1>3, <1>4, <1>5, <1>6, <1>7 DEF AcmeInv

\* Every step keeps it.
LEMMA NextAcme == AcmeInv /\ [Next]_vars => AcmeInv'
<1> SUFFICES ASSUME AcmeInv, [Next]_vars PROVE AcmeInv'
  OBVIOUS
<1>1. CASE Preflight
  BY <1>1, PreflightStep
<1>2. CASE Issue
  BY <1>2, AccountStep, NewOrderStep, TemporaryStep, PublishChallengeStep,
     AnswerChallengeStep, FinalizeStep, CleanupStep DEF Issue
<1>3. CASE Commit
  BY <1>3, MakeDirectoryStep, FileStep, PointerStep, DiscardStep DEF Commit
<1>4. CASE Raise
  BY <1>4, RaiseStep
<1>5. CASE Die
  <2>1. /\ run' = Stopped /\ UNCHANGED <<accountKey, webroot, temps, store, runs>>
        /\ faults' \in Nat
    BY <1>5, Types DEF Die, Fault, challenge
  <2> QED BY <2>1, Types, StopStep DEF Serving
<1>6. CASE BecomeDue
  BY <1>6, DueStep
<1>7. CASE \E force \in ForceRenewal : Begin(force)
  BY <1>7, BeginStep
<1>8. CASE UNCHANGED vars
  BY <1>8, IdleStep
<1> QED BY <1>1, <1>2, <1>3, <1>4, <1>5, <1>6, <1>7, <1>8 DEF Next, Step

\* The inductive invariant of the issuance.
THEOREM AcmeInvariance == Spec => []AcmeInv
<1> QED BY InitAcme, NextAcme, PTL DEF Spec

\* NativeAcmeService and NativeCertificateStore: the types of the variables,
\* and every name of a generation names one that commit has made.
THEOREM IssuanceTypes == Spec => []TypeOK
<1>1. AcmeInv => TypeOK
  BY DEF AcmeInv, TypeInv
<1> QED BY <1>1, AcmeInvariance, PTL

\* NativeAcmeService.issue: a challenge is served from before it is answered
\* until the order is finished, whatever earlier runs have left behind.
THEOREM ChallengesServed == Spec => []AnsweredIsServed
<1>1. AcmeInv => AnsweredIsServed
  BY DEF AcmeInv
<1> QED BY <1>1, AcmeInvariance, PTL

\* NativeCertificateStore.commit: when no exception hits a run between
\* os.replace and the end of commit, "current" never names a generation that
\* lacks a file, whichever step raised or died.
THEOREM CommitIsAtomic ==
    ASSUME ~Interruptible
    PROVE  Spec => []CurrentIsComplete
<1>1. AcmeInv => CurrentIsComplete
  BY DEF AcmeInv
<1> QED BY <1>1, AcmeInvariance, PTL

\* A run that gets to its end without a fault in that step has none of its
\* challenge files in place.
LEMMA CleanEnd ==
    ASSUME AcmeInv, [Next]_vars, run.pc # "stopped", run'.pc = "stopped", faults' = faults
    PROVE  Served' = {}
<1>1. CASE Preflight
  <2>1. \A label \in Labels \ {"stopped"} : ~Go(label)
    BY Types, Went
  <2>2. ~Go("selfCheckPublish") /\ ~Go("selfCheck") /\ ~Go("selfCheckDone") /\ ~Go("load")
    <3>1. {"selfCheckPublish", "selfCheck", "selfCheckDone", "load"} \subseteq Labels \ {"stopped"}
      BY DEF Labels, Early, Unanswered, Checking, Checked
    <3> QED BY <2>1, <3>1
  <2>3. run.pc = "selfCheckFailed" /\ Remove(Synthetic) /\ runs' = runs
    BY <1>1, <2>2
       DEF Preflight, SelfCheckTemporary, SelfCheckPublish, SelfCheckPasses, SelfCheckRemove, At
  <2>4. Served \subseteq {Synthetic} /\ Served' = Served \ {Synthetic}
    BY <2>3, Removed, Types DEF Serving, Checked
  <2> QED BY <2>4
<1>2. CASE Load
  <2>1. run.pc = "load" /\ UNCHANGED <<challenge, runs>>
    BY <1>2 DEF Load, At
  <2>2. Served = {}
    BY <2>1, Types DEF Serving
  <2> QED BY <2>1, <2>2 DEF challenge, Served
<1>3. CASE Cleanup
  <2>1. run.pc = "cleanup" /\ runs' = runs
    BY <1>3 DEF Cleanup
  <2>2. Served \subseteq run.paths
    BY <2>1, Groups, Types DEF Serving, Checking, Checked, Late
  <2>3. CASE run.paths = {} /\ UNCHANGED challenge
    BY <2>1, <2>2, <2>3 DEF challenge, Served
  <2>4. CASE \E token \in run.paths : run' = [run EXCEPT !.paths = run.paths \ {token}]
    <3>1. PICK paths : run' = [run EXCEPT !.paths = paths]
      BY <2>4
    <3>2. run'.pc = run.pc
      BY <3>1, Types DEF RunState
    <3> QED BY <3>2
  <2> QED BY <1>3, <2>3, <2>4 DEF Cleanup
<1>4. CASE AccountOpen \/ AccountWrite \/ AccountRead \/ NewOrder \/ Finalize \/ SelectChain
  <2>1. \E label \in {"accountWrite", "accountRead", "order", "cleanup", "temporary", "select", "mkdir"} :
           Go(label)
    BY <1>4 DEF AccountOpen, AccountWrite, AccountRead, NewOrder, Finalize, SelectChain, At
  <2>2. {"accountWrite", "accountRead", "order", "cleanup", "temporary", "select", "mkdir"}
          \subseteq Labels \ {"stopped"}
    BY DEF Labels, Early, Late, Unanswered, Ordering, Proving
  <2> QED BY <2>1, <2>2, Types, Went
<1>5. CASE Temporary \/ PublishChallenge \/ AnswerChallenge
  <2>1. PICK r \in RunState : r.pc # "stopped" /\ run' = r
    <3>1. CASE Temporary
      <4>1. PICK d \in Domain : run' = [run EXCEPT !.pc = "publish", !.token = d]
        BY <3>1 DEF Temporary
      <4>2. run' \in RunState /\ run'.pc = "publish"
        BY <4>1, Types DEF RunState, Labels, Early, Proving
      <4> QED BY <4>2
    <3>2. CASE PublishChallenge
      <4>1. run.token \in Domain
        BY <3>2 DEF PublishChallenge, AcmeInv, TypeInv
      <4>2. PICK paths \in SUBSET Domain : paths = run.paths \union {run.token}
        BY <4>1, Types
      <4>3. run' = [run EXCEPT !.pc = "answer", !.paths = paths]
        BY <3>2, <4>2 DEF PublishChallenge
      <4>4. run' \in RunState /\ run'.pc = "answer"
        BY <4>3, Types DEF RunState, Labels, Early, Proving
      <4> QED BY <4>4
    <3>3. CASE AnswerChallenge
      <4>1. run.token \in Domain
        BY <3>3 DEF AnswerChallenge, AcmeInv, TypeInv
      <4>2. PICK answered \in SUBSET Domain : answered = run.answered \union {run.token}
        BY <4>1, Types
      <4>3. PICK label \in {"finalize", "temporary"} :
              run' = [run EXCEPT !.pc = label, !.answered = answered]
        BY <3>3, <4>2 DEF AnswerChallenge
      <4>4. run' \in RunState /\ run'.pc = label
        BY <4>3, Types DEF RunState, Labels, Early, Proving
      <4> QED BY <4>4
    <3> QED BY <1>5, <3>1, <3>2, <3>3
  <2> QED BY <2>1
<1>6. CASE Commit
  <2>1. CASE WriteFile
    <3>1. \/ Go("link")
          \/ run' = [run EXCEPT !.pc = "open", !.file = run.file + 1]
      BY <2>1 DEF WriteFile, Go
    <3>2. CASE Go("link")
      BY <3>2, Groups, Types, Went DEF Filling
    <3>3. CASE run' = [run EXCEPT !.pc = "open", !.file = run.file + 1]
      <4>1. run'.pc = "open"
        BY <3>3, Types DEF RunState
      <4> QED BY <4>1
    <3> QED BY <3>1, <3>2, <3>3
  <2>2. CASE ~WriteFile
    <3>1. \E label \in Filling \union Late : Go(label)
      BY <1>6, <2>2 DEF Commit, MakeDirectory, OpenFile, Link, Replace, Chown, CommitLoad,
                        Discard, At, Filling, Late
    <3> QED BY <3>1, Groups, Types, Went
  <2> QED BY <2>1, <2>2
<1>7. CASE Raise \/ Die
  BY <1>7, Types DEF Raise, Die, Fault
<1>8. CASE BecomeDue \/ UNCHANGED vars
  BY <1>8 DEF BecomeDue, vars
<1>9. CASE \E force \in ForceRenewal : Begin(force)
  BY <1>9 DEF Begin
<1> QED BY <1>1, <1>2, <1>3, <1>4, <1>5, <1>6, <1>7, <1>8, <1>9 DEF Next, Step, Issue

\* The finally of Http01Preflight.run and the one of issue: a run that gets to
\* its end, whichever exception it met on the way, leaves none of its
\* challenge files in place.
THEOREM ChallengesRemoved == Spec => RunsCleanUp
<1>1. AcmeInv /\ [Next]_vars =>
        [run.pc # "stopped" /\ run'.pc = "stopped" /\ faults' = faults => Served' = {}]_vars
  BY CleanEnd
<1> QED BY <1>1, AcmeInvariance, PTL DEF Spec, RunsCleanUp
================================================================================
