------------------------------ MODULE AcmeState ------------------------------
(***************************************************************************)
(* What the issuance of one certificate set keeps on the host's disk, and  *)
(* how a run of it ends when a step raises or the process is killed.  The  *)
(* advisory lock admits one run at a time.                                 *)
(***************************************************************************)
EXTENDS Naturals, Sequences

CONSTANTS
    Domain,         \* domains of the certificate
    SelfCheck,      \* http01.self_check.enabled
    ForceRenewal,   \* values of --force-acme-renewal that are used
    AccountExists,  \* the account key was created by an earlier run
    Interruptible,  \* an exception may hit a run between os.replace and the
                    \* end of commit (SIGINT, or a chown refused to root)
    MaxRuns,        \* bound: runs
    MaxFaults       \* bound: exceptions and deaths

Synthetic == "synthetic"  \* stands for the token of the self check

ASSUME AcmeAssumption ==
    /\ Synthetic \notin Domain
    /\ Domain # {}
    /\ ForceRenewal \subseteq BOOLEAN
    /\ {SelfCheck, AccountExists, Interruptible} \subseteq BOOLEAN
    /\ {MaxRuns, MaxFaults} \subseteq Nat

VARIABLES
    accountKey, \* content of the account key file
    webroot,    \* challenge files in place: the run and the token of each
    temps,      \* temporary challenge files
    gens,       \* the generations, by number: the content of each file
    links,      \* generations with a temporary symlink to them
    current,    \* generation that the symlink "current" names
    due,        \* the leaf of the current generation is due for renewal
    runs,       \* number of runs so far
    run,        \* control point and locals of the run in progress
    faults      \* exceptions and deaths so far

challenge == <<webroot, temps>>
store == <<gens, links, current, due>>
vars == <<accountKey, challenge, store, runs, run, faults>>

NoGeneration == 0

Content == {"absent", "partial", "whole"}

Stopped ==
    [pc |-> "stopped", force |-> FALSE, token |-> Synthetic, paths |-> {},
     answered |-> {}, file |-> 1]

Init ==
    /\ accountKey = IF AccountExists THEN "whole" ELSE "absent"
    /\ webroot = {} /\ temps = {}
    /\ gens = << >> /\ links = {} /\ current = NoGeneration /\ due = FALSE
    /\ runs = 0 /\ run = Stopped
    /\ faults = 0

Goto(label) == IF label = "stopped" THEN Stopped ELSE [run EXCEPT !.pc = label]

Go(label) == run' = Goto(label)

\* The run passes one control point.
At(label, next) == run.pc = label /\ Go(next)

\* The last run the bounds admit is undisturbed: the timer has a next one.
Fault ==
    /\ faults < MaxFaults /\ runs < MaxRuns
    /\ faults' = faults + 1

-----------------------------------------------------------------------------
(***************************************************************************)
(* Where an exception raised at a control point is handled: by the finally *)
(* of Http01Preflight.run, by the except of commit, by the finally of      *)
(* issue, or by nothing.                                                   *)
(***************************************************************************)
InSelfCheck == {"selfCheck"}

InCommit == {"open", "write", "link", "replace"}
            \union (IF Interruptible THEN {"chown"} ELSE {})

InIssue ==
    {"account", "accountWrite", "accountRead", "order", "temporary", "publish",
     "answer", "finalize", "select", "mkdir", "commitLoad", "discard"}

Unhandled ==
    {"selfCheckTemporary", "selfCheckPublish", "selfCheckDone",
     "selfCheckFailed", "load", "cleanup"}

Handler(label) ==
    CASE label \in InSelfCheck -> "selfCheckFailed"
      [] label \in InCommit    -> "discard"
      [] label \in InIssue     -> "cleanup"
      [] label \in Unhandled   -> "stopped"

\* The call of this step raises, without effect.
Raise ==
    /\ run.pc \in InSelfCheck \union InCommit \union InIssue \union Unhandled
    /\ Fault
    /\ Go(Handler(run.pc))
    /\ UNCHANGED <<accountKey, challenge, store, runs>>

\* The process is killed: no handler runs.
Die ==
    /\ run.pc # "stopped"
    /\ Fault
    /\ run' = Stopped
    /\ UNCHANGED <<accountKey, challenge, store, runs>>
=============================================================================
