------------------------- MODULE CertificateRefinement -------------------------
(***************************************************************************)
(* PublicationService implements ManagedCertificate when OCI's reads do    *)
(* not lag: the log is the operations table.                               *)
(***************************************************************************)
EXTENDS PublicationService

\* The versions that the open operations of some types name.
Named(types) ==
    {ops[i].version : i \in {j \in Active(ops) : ops[j].type \in types}} \ {Null}

Managed == INSTANCE ManagedCertificate WITH
    versions   <- oci.versions,
    current    <- oci.current,
    previous   <- oci.previous,
    deleted    <- oci.deleted,
    recorded   <- certState.version,
    publishing <- Named(Publishing),
    restoring  <- Named({"ROLLBACK"})

\* Whatever is killed, retried or late, the certificate and the store behave
\* like the register with a write-ahead log.
ManagesCertificate == Managed!Spec
=============================================================================
