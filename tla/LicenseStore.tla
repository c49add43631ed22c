---------------------------- MODULE LicenseStore ----------------------------
(***************************************************************************)
(* The two licence stores of a machine (cursdel-license/src/store.rs) and  *)
(* what they entitle to (resolve.rs, validate.rs).                         *)
(*                                                                         *)
(* A licence file is the licence's id.  Files and certificates that do not *)
(* verify are not in the model (nothing installs them and resolve passes   *)
(* over them), and expiry is not: an expired file is as one that is not    *)
(* there, and an expired answer of the server as one that was lost.        *)
(* `--license-file` and files that an administrator copies into the system *)
(* store are left out.                                                     *)
(***************************************************************************)
CONSTANTS
    Licenses,      \* licence ids
    Business,      \* those that need an activation
    None

Scopes == {"user", "system"}

\* Edition::requires_activation
RequiresActivation(id) == id \in Business

EmptyStore == [license |-> None, certificate |-> None, credentials |-> None,
               revoked |-> {}]

\* verify_activation
Activates(certificate, id) == certificate # None /\ certificate.license = id

RevokedLicenseIds(files) == UNION {files[s].revoked : s \in Scopes}

\* The licences that resolve finds valid.  Certificates and revocations count
\* in whichever store they are.
Entitled(files) ==
    {id \in Licenses :
        /\ \E s \in Scopes : files[s].license = id
        /\ id \notin RevokedLicenseIds(files)
        /\ RequiresActivation(id) =>
              \E s \in Scopes : Activates(files[s].certificate, id)}

\* Mutant: the list is replaced.
RevokedAnew(list, id) == {id}

\* record_revocation and clear_revocation, on the list they have read.
WithRevocation(list, id)    == list \cup {id}
WithoutRevocation(list, id) == list \ {id}
=============================================================================
