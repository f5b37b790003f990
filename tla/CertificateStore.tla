--------------------------- MODULE CertificateStore ---------------------------
(***************************************************************************)
(* NativeCertificateStore: generations of certificate material and the     *)
(* symlink "current" that names one of them.                               *)
(***************************************************************************)
EXTENDS AcmeState

\* In the order in which commit writes them.
Files == <<"cert", "chain", "privkey">>

Empty == [f \in {"cert", "chain", "privkey"} |-> "absent"]

Newest == Len(gens)

IsComplete(g) == \A f \in DOMAIN Empty : gens[g][f] = "whole"

\* load returns the material of the current generation, or raises.
Loadable == current # NoGeneration /\ IsComplete(current)

MakeDirectory ==
    /\ At("mkdir", "open")
    /\ gens' = Append(gens, Empty)
    /\ UNCHANGED <<accountKey, challenge, links, current, due, runs, faults>>

Put(file, content) == gens' = [gens EXCEPT ![Newest] = [@ EXCEPT ![file] = content]]

\* _write_new: the file exists before it has its content.
OpenFile ==
    /\ At("open", "write")
    /\ Put(Files[run.file], "partial")
    /\ UNCHANGED <<accountKey, challenge, links, current, due, runs, faults>>

\* Mutant: the last file is forgotten.
WriteFileButLast ==
    /\ run.pc = "write"
    /\ Put(Files[run.file], "whole")
    /\ run' = IF run.file < Len(Files) - 1
              THEN [run EXCEPT !.pc = "open", !.file = run.file + 1]
              ELSE Goto("link")
    /\ UNCHANGED <<accountKey, challenge, links, current, due, runs, faults>>

WriteFile ==
    /\ run.pc = "write"
    /\ Put(Files[run.file], "whole")
    /\ run' = IF run.file < Len(Files)
              THEN [run EXCEPT !.pc = "open", !.file = run.file + 1]
              ELSE Goto("link")
    /\ UNCHANGED <<accountKey, challenge, links, current, due, runs, faults>>

Link ==
    /\ At("link", "replace")
    /\ links' = links \union {Newest}
    /\ UNCHANGED <<accountKey, challenge, gens, current, due, runs, faults>>

\* Mutant: the pointer is given the name of the generation to come.
ReplaceAhead ==
    /\ At("replace", "chown")
    /\ links' = links \ {Newest}
    /\ current' = Newest + 1
    /\ due' = FALSE
    /\ UNCHANGED <<accountKey, challenge, gens, runs, faults>>

\* os.replace: the one step that changes what load returns.
Replace ==
    /\ At("replace", "chown")
    /\ links' = links \ {Newest}
    /\ current' = Newest
    /\ due' = FALSE
    /\ UNCHANGED <<accountKey, challenge, gens, runs, faults>>

Chown ==
    /\ At("chown", "commitLoad")
    /\ UNCHANGED <<accountKey, challenge, store, runs, faults>>

CommitLoad ==
    /\ At("commitLoad", "cleanup")
    /\ UNCHANGED <<accountKey, challenge, store, runs, faults>>

\* The except of commit removes the generation's files and its directory,
\* whether or not "current" names it, but not the temporary symlink.
Discard ==
    /\ At("discard", "cleanup")
    /\ gens' = [gens EXCEPT ![Newest] = Empty]
    /\ UNCHANGED <<accountKey, challenge, links, current, due, runs, faults>>

Commit ==
    \/ MakeDirectory \/ OpenFile \/ WriteFile \/ Link \/ Replace \/ Chown
    \/ CommitLoad \/ Discard
=============================================================================
