--------------------------- MODULE OciCertificates ---------------------------
(***************************************************************************)
(* One imported certificate held by the OCI Certificates service, as the   *)
(* adapters of oci_certificates.py see it.  The service is external: what   *)
(* it does with a request is modelled from how the adapters and their       *)
(* callers use it.  A certificate version is identified by its number (its *)
(* index in "versions") and carries one immutable leaf, known here by its  *)
(* fingerprint.  Fingerprints are numbered in the order the leaves were    *)
(* issued, so a larger fingerprint is a newer leaf.                        *)
(***************************************************************************)
EXTENDS Naturals, Sequences

NoVersion == 0

(***************************************************************************)
(*  versions  fingerprint carried by each version, by version number       *)
(*  current, previous, pending   the version in each exclusive stage       *)
(*  etag      changes with every accepted mutation                         *)
(*  deleted   versions whose time_of_deletion is set                       *)
(*  listed    how many versions the (eventually consistent) listing shows  *)
(*  served    version the retrieval endpoint returns for stage CURRENT     *)
(***************************************************************************)
Certificate ==
    [versions : Seq(Nat \ {0}), current : Nat, previous : Nat, pending : Nat,
     etag : Nat, deleted : SUBSET Nat, listed : Nat, served : Nat]

\* The stages and the reads refer to versions that exist.
WellFormed(c) ==
    /\ c \in Certificate
    /\ c.current \in DOMAIN c.versions /\ c.served \in DOMAIN c.versions
    /\ c.listed \in DOMAIN c.versions
    /\ c.previous \in 0..Len(c.versions) /\ c.pending \in 0..Len(c.versions)

Imported(fp) ==
    [versions |-> <<fp>>, current |-> 1, previous |-> NoVersion,
     pending |-> NoVersion, etag |-> 0, deleted |-> {}, listed |-> 1,
     served |-> 1]

Latest(c) == Len(c.versions)

\* The version that bears LATEST in what list_versions returns.
LatestListed(c) == c.listed

\* list_versions, restricted to the versions staged PENDING or LATEST.
StagedForPromotion(c) ==
    {v \in 1..c.listed : v = c.pending \/ v = LatestListed(c)}

\* A version in none of the stages CURRENT, PREVIOUS, PENDING and LATEST is
\* DEPRECATED.
Protected(c) == {c.current, c.previous, c.pending, Latest(c)}

Deprecated(c) == (1..c.listed) \ (Protected(c) \union {LatestListed(c)})

(***************************************************************************)
(* A mutating request and the etag it is conditional on (if_match): the    *)
(* argument is the fingerprint of an upload, the version of the others.    *)
(***************************************************************************)
Request ==
    [kind : {"upload", "promote", "delete"}, etag : Nat, arg : Nat]

UploadRequest(etag, fp) == [kind |-> "upload", etag |-> etag, arg |-> fp]
PromoteRequest(etag, v) == [kind |-> "promote", etag |-> etag, arg |-> v]
DeleteRequest(etag, v) == [kind |-> "delete", etag |-> etag, arg |-> v]

\* The service refuses (412) a request whose if_match etag is not current.
Accepts(c, req) == req.etag = c.etag

\* The new version becomes PENDING and LATEST.
Uploaded(c, fp, lag) ==
    [c EXCEPT !.versions = Append(c.versions, fp),
              !.pending = Len(c.versions) + 1,
              !.etag = c.etag + 1,
              !.listed = IF lag THEN c.listed ELSE Len(c.versions) + 1]

\* The promoted version becomes CURRENT, the one it replaces PREVIOUS.
Promoted(c, v, lag) ==
    [c EXCEPT !.current = v,
              !.previous = c.current,
              !.pending = IF c.pending = v THEN NoVersion ELSE c.pending,
              !.etag = c.etag + 1,
              !.served = IF lag THEN c.served ELSE v]

Scheduled(c, v) ==
    [c EXCEPT !.deleted = c.deleted \union {v}, !.etag = c.etag + 1]

\* What the certificate becomes when the service executes the request.
Executed(c, req, lag) ==
    CASE req.kind = "upload"  -> Uploaded(c, req.arg, lag)
      [] req.kind = "promote" -> Promoted(c, req.arg, lag)
      [] req.kind = "delete"  -> Scheduled(c, req.arg)
=============================================================================
