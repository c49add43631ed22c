--------------------------- MODULE LicenseCommands ---------------------------
(***************************************************************************)
(* `cursdel license install|activate|deactivate|renew`                     *)
(* (cursdel-cli/src/license_cmd.rs) on one machine, against a licensing    *)
(* server whose answers may get lost.  Each file is replaced or removed in *)
(* a step of its own (write_atomic renames it into place), any write may   *)
(* fail, and a command may be killed between two steps.  Nothing locks a   *)
(* store, so that several commands may be under way.                       *)
(*                                                                         *)
(* The server is modelled as the contract says that the commands are       *)
(* written against (docs/LICENSING-SERVER-BRIEF.md, section 5).  Files can *)
(* be read; that a read fails is not in the model.                         *)
(***************************************************************************)
EXTENDS LicenseStore, Naturals

CONSTANTS
    Procs,            \* processes that run commands
    MaxCommands, MaxActivations, MaxEvents, MaxMishaps   \* bounds

VARIABLES
    withdrawn,        \* the server: licences that are revoked
    activations,      \* the server: activations of this device
    files,            \* the stores
    cmd,              \* each process's command
    commands, events, mishaps,    \* how many there have been
    shared,           \* history: stores that two commands worked on at once
    reported,         \* history: licences whose revocation was recorded
    abandoned         \* history: activations the user was told to release

serverVars  == <<withdrawn, activations>>
historyVars == <<shared, reported, abandoned>>
vars == <<serverVars, files, cmd, commands, events, mishaps, historyVars>>

Activation == 1 .. MaxActivations
Certificate == [activation : Activation, license : Licenses]
\* A client secret is the number of the command that generated it.
Credentials == [activation : Activation, secret : 1 .. MaxCommands]
Store == [license     : Licenses \cup {None},
          certificate : Certificate \cup {None},
          credentials : Credentials \cup {None},
          revoked     : SUBSET Licenses]

ASSUME CommandsAssumption ==
    /\ MaxCommands \in Nat /\ MaxActivations \in Nat
    /\ None \notin Credentials \cup Certificate

NoActivation == [license |-> None, status |-> "unused", secret |-> 0]

NoCommand == [at |-> "idle", verb |-> None, scope |-> None, id |-> None, secret |-> 0,
              certificate |-> None, credentials |-> None, list |-> {}]

Verbs == {"install", "activate", "deactivate", "renew"}
Steps == {"call", "credentials", "certificate", "license", "clear", "write_cleared",
          "record", "write_recorded", "remove_certificate", "remove_credentials"}
\* A command that has ended: deactivate with success, renew with the activation
\* found inactive, or anything else.
Ends == {"released", "inactive", "idle"}

CommandState == [at : Steps \cup Ends, verb : Verbs \cup {None}, scope : Scopes \cup {None},
                 id : Licenses \cup {None}, secret : 0 .. MaxCommands,
                 certificate : Certificate \cup {None},
                 credentials : Credentials \cup {None}, list : SUBSET Licenses]

At(p, step) == cmd[p].at = step
Goto(p, step) == cmd' = [cmd EXCEPT ![p].at = step]
Running(p) == cmd[p].at \in Steps

\* The command is over.
End(p) == cmd' = [cmd EXCEPT ![p] = NoCommand]

-----------------------------------------------------------------------------
\* Stores may hold licences that were installed before, and that the server has
\* revoked since.
Init ==
    /\ withdrawn \in SUBSET Licenses
    /\ activations = [a \in Activation |-> NoActivation]
    /\ \E installed \in [Scopes -> Licenses \cup {None}] :
          files = [s \in Scopes |-> [EmptyStore EXCEPT !.license = installed[s]]]
    /\ cmd = [p \in Procs |-> NoCommand]
    /\ commands = 0 /\ events = 0 /\ mishaps = 0
    /\ shared = {} /\ reported = {} /\ abandoned = {}

-----------------------------------------------------------------------------
(* A command starts, and reads what it needs before its first call. *)

Start(p, verb, scope, first) ==
    /\ ~ Running(p)
    /\ commands < MaxCommands
    /\ commands' = commands + 1
    /\ cmd' = [cmd EXCEPT ![p] = [first EXCEPT !.verb = verb, !.scope = scope]]
    /\ shared' = IF \E q \in Procs \ {p} : Running(q) /\ cmd[q].scope = scope
                 THEN shared \cup {scope} ELSE shared
    /\ UNCHANGED <<serverVars, files, events, mishaps, reported, abandoned>>

\* install: the file is validated before anything else.
StartInstall(p, scope) ==
    \E id \in Licenses :
        Start(p, "install", scope, [NoCommand EXCEPT !.at = "license", !.id = id])

\* activate, with the key of a licence.
StartActivate(p, scope) ==
    \E id \in Licenses :
        Start(p, "activate", scope,
              [NoCommand EXCEPT !.at = "call", !.id = id, !.secret = commands + 1])

\* deactivate returns at once when there are no credentials.
StartDeactivate(p, scope) ==
    /\ files[scope].credentials # None
    /\ Start(p, "deactivate", scope,
             [NoCommand EXCEPT !.at = "call",
                               !.credentials = files[scope].credentials])

\* renew, for the licence of the store; it returns at once when there is none.
StartRenew(p, scope) ==
    LET id == files[scope].license
    IN  /\ id # None
        /\ Start(p, "renew", scope,
                 [NoCommand EXCEPT
                    !.at = "call", !.id = id,
                    !.credentials = IF RequiresActivation(id)
                                    THEN files[scope].credentials ELSE None])

-----------------------------------------------------------------------------
(* The calls.  What the server does and what becomes of its answer. *)

\* Not reached, refused for a reason of the server's, or not authorised: the
\* command reports it and ends.
Refused(p) ==
    /\ At(p, "call")
    /\ End(p)
    /\ UNCHANGED <<serverVars, files, commands, events, mishaps, historyVars>>

\* The activation that the server gives this device for a licence: the active
\* one, if there is one, or another.
Allocated(id) ==
    LET active == {a \in Activation : activations[a].license = id
                                       /\ activations[a].status = "active"}
    IN  IF active # {} THEN active
        ELSE {a \in Activation : activations[a].status = "unused"
                                  /\ \A b \in 1 .. a - 1 : activations[b].status # "unused"}

Mishap == mishaps < MaxMishaps /\ mishaps' = mishaps + 1

\* The answer to activate: a licence, and for Business a certificate.  Nothing is
\* kept of one that does not arrive or does not verify.
GrantActivation(p, certificate) ==
    LET c == cmd[p]
    IN  \/ /\ cmd' = [cmd EXCEPT
                 ![p].at = IF certificate = None THEN "license" ELSE "credentials",
                 ![p].certificate = certificate,
                 ![p].credentials = IF certificate = None THEN None
                    ELSE [activation |-> certificate.activation, secret |-> c.secret]]
           /\ UNCHANGED mishaps
        \/ Mishap /\ End(p)

CallActivate(p) ==
    LET c == cmd[p]
    IN  /\ At(p, "call") /\ c.verb = "activate"
        /\ c.id \notin withdrawn
        /\ IF RequiresActivation(c.id)
           THEN \E a \in Allocated(c.id) :
                  /\ activations' = [activations EXCEPT
                        ![a] = [license |-> c.id, status |-> "active",
                                secret |-> c.secret]]
                  /\ GrantActivation(p, [activation |-> a, license |-> c.id])
           ELSE GrantActivation(p, None) /\ UNCHANGED activations
        /\ UNCHANGED <<withdrawn, files, commands, events, historyVars>>

Authorised(credentials) ==
    activations[credentials.activation].secret = credentials.secret

IsActive(credentials) == activations[credentials.activation].status = "active"

\* The server releases the activation, or says that it is inactive already.
CallDeactivate(p) ==
    LET a == cmd[p].credentials.activation
    IN  /\ At(p, "call") /\ cmd[p].verb = "deactivate"
        /\ Authorised(cmd[p].credentials)
        /\ activations' = [activations EXCEPT ![a].status = "inactive"]
        /\ \/ Goto(p, "remove_certificate") /\ UNCHANGED mishaps
           \/ Mishap /\ End(p)
        /\ UNCHANGED <<withdrawn, files, commands, events, historyVars>>

\* renew: the licence is revoked, the activation inactive, or both are issued
\* again.  The server looks at the revocation first.
CallRenew(p) ==
    LET c == cmd[p]
        activated == c.credentials # None
        known == /\ activations[c.credentials.activation].license = c.id
                 /\ Authorised(c.credentials)
    IN  /\ At(p, "call") /\ c.verb = "renew"
        /\ \/ /\ c.id \in withdrawn
              /\ Goto(p, "record")
           \/ /\ c.id \notin withdrawn
              /\ activated /\ known /\ ~ IsActive(c.credentials)
              /\ Goto(p, "remove_certificate")
           \/ /\ c.id \notin withdrawn
              /\ activated => known /\ IsActive(c.credentials)
              /\ cmd' = [cmd EXCEPT
                    ![p].at = IF activated THEN "credentials" ELSE "license",
                    ![p].certificate = IF activated
                       THEN [activation |-> c.credentials.activation, license |-> c.id]
                       ELSE None]
        /\ UNCHANGED <<serverVars, files, commands, events, mishaps, historyVars>>

-----------------------------------------------------------------------------
(* The store.  Each of these is one file; each may fail. *)

Write(p, field, value) == files' = [files EXCEPT ![cmd[p].scope][field] = value]

\* Mutants: credentials for the same activation are not written again; the old
\* activation is cleaned up first.
WriteNewActivation(p) ==
    LET old == files[cmd[p].scope].credentials
    IN  /\ At(p, "credentials")
        /\ IF old # None /\ old.activation = cmd[p].credentials.activation
           THEN UNCHANGED files
           ELSE Write(p, "credentials", cmd[p].credentials)
        /\ Goto(p, "certificate")
        /\ UNCHANGED <<serverVars, commands, events, mishaps, historyVars>>
WriteAfterCleaning(p) ==
    /\ At(p, "credentials")
    /\ files' = [files EXCEPT ![cmd[p].scope] =
                   [@ EXCEPT !.credentials = cmd[p].credentials, !.certificate = None]]
    /\ Goto(p, "certificate")
    /\ UNCHANGED <<serverVars, commands, events, mishaps, historyVars>>

\* write_activation replaces the credentials ...
WriteCredentials(p) ==
    LET old == files[cmd[p].scope].credentials
    IN  /\ At(p, "credentials")
        /\ Write(p, "credentials", cmd[p].credentials)
        /\ Goto(p, "certificate")
        /\ abandoned' =
              IF old # None /\ old.activation # cmd[p].credentials.activation
              THEN abandoned \cup {old.activation} ELSE abandoned
        /\ UNCHANGED <<serverVars, commands, events, mishaps, shared, reported>>

\* ... and then the certificate.
WriteCertificate(p) ==
    /\ At(p, "certificate")
    /\ Write(p, "certificate", cmd[p].certificate)
    /\ Goto(p, "license")
    /\ UNCHANGED <<serverVars, commands, events, mishaps, historyVars>>

\* write_license, the last step of install.
WriteLicense(p) ==
    /\ At(p, "license")
    /\ Write(p, "license", cmd[p].id)
    /\ IF cmd[p].verb = "install"
       THEN End(p) /\ UNCHANGED reported
       ELSE Goto(p, "clear") /\ reported' = reported \ {cmd[p].id}
    /\ UNCHANGED <<serverVars, commands, events, mishaps, shared, abandoned>>

\* record_revocation and clear_revocation read the list and, unless it is as it
\* should be ...
ReadToRecord(p) ==
    LET list == files[cmd[p].scope].revoked
    IN  /\ At(p, "record")
        /\ IF cmd[p].id \in list
           THEN End(p) /\ reported' = reported \cup {cmd[p].id}
           ELSE /\ cmd' = [cmd EXCEPT ![p].at = "write_recorded",
                                      ![p].list = WithRevocation(list, cmd[p].id)]
                /\ UNCHANGED reported
        /\ UNCHANGED <<serverVars, files, commands, events, mishaps, shared,
                       abandoned>>

ReadToClear(p) ==
    LET list == files[cmd[p].scope].revoked
    IN  /\ At(p, "clear")
        /\ IF cmd[p].id \notin list
           THEN End(p)
           ELSE cmd' = [cmd EXCEPT ![p].at = "write_cleared",
                                   ![p].list = WithoutRevocation(list, cmd[p].id)]
        /\ UNCHANGED <<serverVars, files, commands, events, mishaps, historyVars>>

\* ... write it back.
WriteRecorded(p) ==
    /\ At(p, "write_recorded")
    /\ Write(p, "revoked", cmd[p].list)
    /\ End(p)
    /\ reported' = reported \cup {cmd[p].id}
    /\ UNCHANGED <<serverVars, commands, events, mishaps, shared, abandoned>>

WriteCleared(p) ==
    /\ At(p, "write_cleared")
    /\ Write(p, "revoked", cmd[p].list)
    /\ End(p)
    /\ UNCHANGED <<serverVars, commands, events, mishaps, historyVars>>

\* Mutant: the credentials go first, and the certificate does not go.
RemoveSecretOnly(p) ==
    /\ At(p, "remove_certificate")
    /\ Write(p, "credentials", None)
    /\ Goto(p, "remove_credentials")
    /\ UNCHANGED <<serverVars, commands, events, mishaps, historyVars>>

\* remove_activation removes the certificate ...
RemoveCertificate(p) ==
    /\ At(p, "remove_certificate")
    /\ Write(p, "certificate", None)
    /\ Goto(p, "remove_credentials")
    /\ UNCHANGED <<serverVars, commands, events, mishaps, historyVars>>

\* ... and then the credentials.
RemoveCredentials(p) ==
    /\ At(p, "remove_credentials")
    /\ Write(p, "credentials", None)
    /\ cmd' = [cmd EXCEPT ![p] = [NoCommand EXCEPT
                  !.at = IF cmd[p].verb = "renew" THEN "inactive" ELSE "released",
                  !.credentials = cmd[p].credentials]]
    /\ UNCHANGED <<serverVars, commands, events, mishaps, historyVars>>

\* A file cannot be written or removed; the command ends there, whether it reports
\* that or, for a revocation that could not be cleared, ignores it.
StoreFails(p) ==
    /\ cmd[p].at \in Steps \ {"call", "record", "clear"}
    /\ Mishap
    /\ End(p)
    /\ UNCHANGED <<serverVars, files, commands, events, historyVars>>

\* The process is killed.
Killed(p) ==
    /\ Running(p)
    /\ Mishap
    /\ End(p)
    /\ UNCHANGED <<serverVars, files, commands, events, historyVars>>

-----------------------------------------------------------------------------
(* Elsewhere. *)

Event == events < MaxEvents /\ events' = events + 1

\* Support revokes a licence, or takes that back.
Withdraw(id) == id \notin withdrawn /\ withdrawn' = withdrawn \cup {id}
                /\ UNCHANGED <<activations, files>>
Reinstate(id) == id \in withdrawn /\ withdrawn' = withdrawn \ {id}
                 /\ UNCHANGED <<activations, files>>

\* The customer releases an activation through the portal.
PortalRelease(a) ==
    /\ activations[a].status = "active"
    /\ activations' = [activations EXCEPT ![a].status = "inactive"]
    /\ UNCHANGED <<withdrawn, files>>

\* The administrator lists a licence as revoked.
AdminRevokes(id) ==
    /\ id \notin files["system"].revoked
    /\ files' = [files EXCEPT !["system"].revoked = @ \cup {id}]
    /\ UNCHANGED serverVars

Elsewhere ==
    /\ Event
    /\ \/ \E id \in Licenses : Withdraw(id) \/ Reinstate(id) \/ AdminRevokes(id)
       \/ \E a \in Activation : PortalRelease(a)
    /\ UNCHANGED <<cmd, commands, mishaps, historyVars>>

Command(p) ==
    \/ \E scope \in Scopes : StartInstall(p, scope) \/ StartActivate(p, scope)
                              \/ StartDeactivate(p, scope) \/ StartRenew(p, scope)
    \/ Refused(p) \/ CallActivate(p) \/ CallDeactivate(p) \/ CallRenew(p)
    \/ WriteCredentials(p) \/ WriteCertificate(p) \/ WriteLicense(p)
    \/ ReadToRecord(p) \/ ReadToClear(p) \/ WriteRecorded(p) \/ WriteCleared(p)
    \/ RemoveCertificate(p) \/ RemoveCredentials(p)
    \/ StoreFails(p) \/ Killed(p)

Next == Elsewhere \/ \E p \in Procs : Command(p)

Spec == Init /\ [][Next]_vars

-----------------------------------------------------------------------------
(* Properties.  Two commands at once on the same store are not protected from *)
(* each other; what is promised is promised where they do not meet.           *)

Quiet == mishaps = 0 /\ shared = {} /\ \A p \in Procs : ~ Running(p)

TypeOK ==
    /\ withdrawn \subseteq Licenses
    /\ files \in [Scopes -> Store]
    /\ commands \in 0 .. MaxCommands
    /\ cmd \in [Procs -> CommandState]
    /\ shared \subseteq Scopes /\ reported \subseteq Licenses
    /\ abandoned \subseteq Activation

\* Wherever a command is killed or fails, the store it worked on does not have a
\* certificate without the credentials that release it (the order of the writes
\* in store.rs:238-261), whatever commands do to the other store meanwhile.
CertificateHasCredentials ==
    \A s \in Scopes \ shared :
        files[s].certificate # None => files[s].credentials # None

\* LICENSING.md:115: activating the same device again uses its seat again.
\* Without mishaps, whatever the customer does with both stores, this machine can
\* release every seat it takes, but for those that activate said it has replaced
\* (license_cmd.rs:411-417).
SeatCanBeReleased ==
    Quiet => \A a \in Activation \ abandoned :
        activations[a].status = "active" =>
            \E s \in Scopes : files[s].credentials
                                = [activation |-> a, secret |-> activations[a].secret]

\* LICENSING.md:148-149: a licence that renew found revoked is not used, from
\* whichever store and whatever is installed or revoked after it, until the
\* server has issued it again.
RevokedIsNotUsed == shared = {} => reported \cap Entitled(files) = {}

\* LICENSING.md:143-144: renewing a licence, or activating it again, takes nothing
\* away in between: wherever it is killed, what was usable still is.
NeverInterrupted ==
    [][\A p \in Procs :
        /\ cmd[p].verb \in {"activate", "renew"} /\ cmd[p].scope \notin shared
        /\ cmd[p].at \in {"credentials", "certificate", "license", "write_cleared"}
        /\ cmd'[p] # cmd[p]
        /\ cmd[p].id \in Entitled(files)
        => cmd[p].id \in Entitled(files')]_vars
=============================================================================
