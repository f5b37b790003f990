--------------------------- MODULE ManagedCertificate ---------------------------
(***************************************************************************)
(* What the publisher promises about one OCI certificate, whichever        *)
(* commands run, whenever they are killed and however late their requests  *)
(* take effect: a versioned register with a write-ahead log.  A version is *)
(* announced in the log before it is put in use, CURRENT goes back only to *)
(* a version announced by a rollback, and CURRENT is at any time either    *)
(* recorded or announced, so that status is never silently out of date.    *)
(* How the log is kept and how OCI is called is left open.                 *)
(***************************************************************************)
EXTENDS Naturals, Sequences

VARIABLES
    versions,   \* leaf that each version carries, by version number
    current,    \* version in use
    previous,   \* version it replaced, 0 when there is none
    deleted,    \* versions scheduled for deletion
    recorded,   \* version last recorded as in use
    publishing, \* versions announced by open publications
    restoring   \* versions announced by open rollbacks

certificate == <<versions, current, previous, deleted>>
log == <<recorded, publishing, restoring>>
vars == <<certificate, log>>

Init ==
    /\ versions = <<1>> /\ current = 1 /\ previous = 0 /\ deleted = {}
    /\ recorded = 1 /\ publishing = {} /\ restoring = {}

Announced == publishing \union restoring

Accounted == current \in Announced \union {recorded}

\* A leaf newer than all the others is imported; it is not in use yet.
Import ==
    LET leaf == versions'[Len(versions')] IN
    /\ versions' = Append(versions, leaf)
    /\ \A v \in DOMAIN versions : versions[v] < leaf
    /\ UNCHANGED <<current, previous, deleted, log>>

Use(v) ==
    /\ v \notin deleted
    /\ current' = v /\ previous' = current
    /\ UNCHANGED <<versions, deleted, log>>

\* CURRENT moves to an announced version that carries a newer leaf.
Publish(v) == v \in publishing /\ versions[current] < versions[v] /\ Use(v)

\* CURRENT goes back.
Restore(v) == v \in restoring /\ Use(v)

\* A version that is neither in use, nor kept for a rollback, nor announced.
Delete(v) ==
    /\ v \in DOMAIN versions \ ({current, previous} \union Announced)
    /\ deleted' = deleted \union {v}
    /\ UNCHANGED <<versions, current, previous, log>>

\* An open operation announces a version, instead of another or not, or
\* operations are closed.
Log(v) ==
    /\ \/ publishing' \subseteq publishing \union {v} /\ UNCHANGED restoring
       \/ restoring' \subseteq restoring \union {v} /\ UNCHANGED publishing
    /\ Accounted'
    /\ UNCHANGED <<certificate, recorded>>

Record(v) ==
    /\ v \in Announced
    /\ recorded' = v
    /\ Accounted'
    /\ UNCHANGED <<certificate, publishing, restoring>>

Next ==
    \/ Import
    \/ \E v \in DOMAIN versions :
          Publish(v) \/ Restore(v) \/ Delete(v) \/ Log(v) \/ Record(v)

Spec == Init /\ [][Next]_vars
=============================================================================
