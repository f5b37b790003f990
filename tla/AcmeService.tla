----------------------------- MODULE AcmeService -----------------------------
(***************************************************************************)
(* PublicationService.renew up to the publication: the HTTP-01 self check, *)
(* then NativeAcmeService.issue, which orders a certificate, proves the    *)
(* control of its domains and commits the material it is given.            *)
(***************************************************************************)
EXTENDS Http01, CertificateStore

Begin(force) ==
    /\ run.pc = "stopped"
    /\ runs < MaxRuns
    /\ runs' = runs + 1
    /\ run' = [Stopped EXCEPT !.pc = IF SelfCheck THEN "selfCheckTemporary" ELSE "load",
                              !.force = force]
    /\ UNCHANGED <<accountKey, challenge, store, faults>>

\* Mutant: an existing lineage counts as fresh.
LoadWithoutDate ==
    /\ At("load", IF current = NoGeneration \/ (Loadable /\ run.force)
                  THEN "account" ELSE "stopped")
    /\ UNCHANGED <<accountKey, challenge, store, runs, faults>>

\* _load_optional and _renewal_due: an existing lineage that does not load
\* ends the run, one that is not due ends it with that lineage.
Load ==
    /\ At("load", IF current = NoGeneration \/ (Loadable /\ (run.force \/ due))
                  THEN "account" ELSE "stopped")
    /\ UNCHANGED <<accountKey, challenge, store, runs, faults>>

(***************************************************************************)
(* _account_key: created when there is no such file.  A file without the   *)
(* whole key does not parse.                                               *)
(***************************************************************************)
AccountOpen ==
    /\ \/ accountKey = "absent" /\ At("account", "accountWrite") /\ accountKey' = "partial"
       \/ accountKey # "absent" /\ At("account", "accountRead") /\ UNCHANGED accountKey
    /\ UNCHANGED <<challenge, store, runs, faults>>

AccountWrite ==
    /\ At("accountWrite", "accountRead")
    /\ accountKey' = "whole"
    /\ UNCHANGED <<challenge, store, runs, faults>>

AccountRead ==
    /\ At("accountRead", IF accountKey = "whole" THEN "order" ELSE "cleanup")
    /\ UNCHANGED <<accountKey, challenge, store, runs, faults>>

\* new_order, with one authorization for each domain.
NewOrder ==
    /\ At("order", "temporary")
    /\ UNCHANGED <<accountKey, challenge, store, runs, faults>>

-----------------------------------------------------------------------------
(***************************************************************************)
(* The loop over the authorizations, in the server's order.                *)
(***************************************************************************)

\* Mutant: the temporary file is never moved to the token's path.
TemporaryOnly ==
    /\ run.pc = "temporary"
    /\ \E d \in Domain \ run.answered :
          /\ WriteTemporary(d)
          /\ run' = [run EXCEPT !.pc = "answer", !.token = d, !.paths = @ \union {d}]
    /\ UNCHANGED <<accountKey, store, runs, faults>>

Temporary ==
    /\ run.pc = "temporary"
    /\ \E d \in Domain \ run.answered :
          /\ WriteTemporary(d)
          /\ run' = [run EXCEPT !.pc = "publish", !.token = d]
    /\ UNCHANGED <<accountKey, store, runs, faults>>

\* Mutant: the path is not remembered for the removal.
PublishUnremembered ==
    /\ run.pc = "publish"
    /\ Publish(run.token)
    /\ run' = [run EXCEPT !.pc = "answer"]
    /\ UNCHANGED <<accountKey, store, runs, faults>>

PublishChallenge ==
    /\ run.pc = "publish"
    /\ Publish(run.token)
    /\ run' = [run EXCEPT !.pc = "answer", !.paths = run.paths \union {run.token}]
    /\ UNCHANGED <<accountKey, store, runs, faults>>

\* From here on the CA may ask the responder for the token.
AnswerChallenge ==
    LET answered == run.answered \union {run.token} IN
    /\ run.pc = "answer"
    /\ run' = [run EXCEPT !.pc = IF answered = Domain THEN "finalize" ELSE "temporary",
                          !.answered = answered]
    /\ UNCHANGED <<accountKey, challenge, store, runs, faults>>

\* poll_authorizations and finalize_order: the CA issues once the responder
\* has served it every token.
Finalize ==
    /\ At("finalize", IF run.answered \subseteq Served THEN "select" ELSE "cleanup")
    /\ UNCHANGED <<accountKey, challenge, store, runs, faults>>

(***************************************************************************)
(* _select_chain: the first acceptable one of the chains offered.  One     *)
(* that does not validate is passed over, as is an empty one; one without  *)
(* an intermediate ends the search.                                        *)
(***************************************************************************)
Offers == UNION {[1..n -> {"empty", "bare", "invalid", "valid"}] : n \in 1..2}

Acceptable(offer) ==
    \E i \in DOMAIN offer : /\ offer[i] = "valid"
                            /\ \A j \in 1..i - 1 : offer[j] # "bare"

SelectChain ==
    /\ \E offer \in Offers :
          \/ Acceptable(offer) /\ At("select", "mkdir") /\ UNCHANGED faults
          \/ ~Acceptable(offer) /\ At("select", "cleanup") /\ Fault
    /\ UNCHANGED <<accountKey, challenge, store, runs>>

\* The finally of issue, one path at a time.
Cleanup ==
    /\ run.pc = "cleanup"
    /\ \/ \E token \in run.paths :
            /\ Remove(token)
            /\ run' = [run EXCEPT !.paths = run.paths \ {token}]
       \/ run.paths = {} /\ run' = Stopped /\ UNCHANGED challenge
    /\ UNCHANGED <<accountKey, store, runs, faults>>

Issue ==
    \/ Load \/ AccountOpen \/ AccountWrite \/ AccountRead \/ NewOrder \/ Temporary
    \/ PublishChallenge \/ AnswerChallenge \/ Finalize \/ SelectChain \/ Cleanup

-----------------------------------------------------------------------------
Step == Preflight \/ Issue \/ Commit

\* The leaf comes close to its expiry, with time left for another run.
BecomeDue ==
    /\ current # NoGeneration /\ ~due
    /\ runs < MaxRuns
    /\ due' = TRUE
    /\ UNCHANGED <<accountKey, challenge, gens, links, current, runs, run, faults>>

Next == Step \/ Raise \/ Die \/ BecomeDue \/ \E force \in ForceRenewal : Begin(force)

Spec == Init /\ [][Next]_vars

\* A run goes on until it ends, and the timer starts another one.
Fairness == WF_vars(Step) /\ WF_vars(\E force \in ForceRenewal : Begin(force))

FairSpec == Spec /\ Fairness

-----------------------------------------------------------------------------
ChallengeFile == [run : Nat, token : Domain \union {Synthetic}]

\* The types of the variables, and that what names a generation names one
\* that commit has made.
TypeOK ==
    /\ accountKey \in Content
    /\ webroot \subseteq ChallengeFile /\ temps \subseteq ChallengeFile
    /\ gens \in Seq([DOMAIN Empty -> Content])
    /\ links \subseteq DOMAIN gens /\ current \in 0..Len(gens)
    /\ due \in BOOLEAN /\ runs \in Nat /\ faults \in Nat
    /\ run.token \in Domain \union {Synthetic}
    /\ run.paths \subseteq Domain /\ run.answered \subseteq Domain
    /\ run.file \in DOMAIN Files

\* Whenever a run is killed or fails, "current" names a generation that has
\* all of its files: commit exposes complete generations only.
CurrentIsComplete == current # NoGeneration => IsComplete(current)

\* A challenge is served from before it is answered until the CA has
\* finished with the order.
AnsweredIsServed ==
    /\ run.pc \in {"temporary", "publish", "answer", "finalize"} => run.answered \subseteq Served
    /\ run.pc = "answer" => run.token \in Served

\* A run that gets to its end, with a result or with an exception raised
\* anywhere before, leaves none of its challenge files in place.
RunsCleanUp ==
    [][run.pc # "stopped" /\ run'.pc = "stopped" /\ faults' = faults => Served' = {}]_vars

\* A lineage that is absent or due is issued anew, unless a run was stopped
\* while it wrote the account key.
Reissues ==
    (current = NoGeneration \/ due) ~>
        (current # NoGeneration /\ ~due) \/ accountKey = "partial"
=============================================================================
