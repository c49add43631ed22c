----------------------- MODULE LicenseCommands_proofs -----------------------
(***************************************************************************)
(* LicenseCommands for any number of licences, processes, commands,        *)
(* activations and mishaps: a store that no two commands worked on at once *)
(* never has a certificate that nothing here can release, a licence that   *)
(* was found revoked stays out of use, one that is renewed stays in use,   *)
(* and every seat that was taken without a mishap can be released.         *)
(***************************************************************************)
EXTENDS LicenseCommands, TLAPS

Starts(p, scope) ==
    \/ StartInstall(p, scope) \/ StartActivate(p, scope)
    \/ StartDeactivate(p, scope) \/ StartRenew(p, scope)

\* What a step of a command finds in the command itself.
CommandIsSound(p) ==
    /\ Running(p) => cmd[p].scope \in Scopes
    /\ At(p, "call") /\ cmd[p].verb = "activate" => cmd[p].secret \in 1 .. MaxCommands
    /\ At(p, "call") /\ cmd[p].verb \in {"activate", "renew"} => cmd[p].id \in Licenses
    /\ cmd[p].at \in {"credentials", "certificate", "license", "clear", "write_cleared",
                      "record", "write_recorded"} => cmd[p].id \in Licenses
    /\ At(p, "credentials") => cmd[p].credentials # None

\* Two commands on one store are known to have met.
Apart(p, q) ==
    p # q /\ Running(p) /\ Running(q) /\ cmd[p].scope = cmd[q].scope => cmd[p].scope \in shared

\* Between the two writes, and between the two removals, of a store that is not
\* shared, the first is still there.
HalfWayIsSound(p) ==
    Running(p) /\ cmd[p].scope \notin shared =>
        /\ At(p, "certificate") => files[cmd[p].scope].credentials # None
        /\ At(p, "remove_credentials") => files[cmd[p].scope].certificate = None

\* The store s remembers that x is revoked, and no command on it forgets that: none
\* takes x off the list, and none is about to write a list without it.
Remembers(s, x) ==
    /\ x \in files[s].revoked
    /\ \A p \in Procs : Running(p) /\ cmd[p].scope = s =>
          /\ cmd[p].at \in {"clear", "write_cleared"} => cmd[p].id # x
          /\ cmd[p].at \in {"write_cleared", "write_recorded"} => x \in cmd[p].list

ListsAreSound ==
    shared = {} =>
        /\ \A x \in reported : \E s \in Scopes : Remembers(s, x)
        /\ \A p \in Procs : At(p, "write_recorded") => cmd[p].id \in cmd[p].list

IInv ==
    /\ TypeOK
    /\ \A p \in Procs : CommandIsSound(p) /\ HalfWayIsSound(p)
    /\ \A p, q \in Procs : Apart(p, q)
    /\ CertificateHasCredentials
    /\ ListsAreSound

-----------------------------------------------------------------------------
\* What a write does to the store it is made in.
LEMMA StoreFields ==
    ASSUME NEW f \in Store
    PROVE  /\ \A v \in Licenses \cup {None} : [f EXCEPT !.license = v] \in Store
           /\ \A v \in Certificate \cup {None} : [f EXCEPT !.certificate = v] \in Store
           /\ \A v \in Credentials \cup {None} : [f EXCEPT !.credentials = v] \in Store
           /\ \A v \in SUBSET Licenses : [f EXCEPT !.revoked = v] \in Store
  BY DEF Store

\* Writing credentials leaves a store that has them ...
LEMMA CredentialsWritten ==
    ASSUME TypeOK, NEW p \in Procs, cmd[p].scope \in Scopes,
           NEW v \in Credentials \cup {None}, Write(p, "credentials", v)
    PROVE  files' = [files EXCEPT ![cmd[p].scope] = [@ EXCEPT !.credentials = v]]
           /\ files' \in [Scopes -> Store]
  BY StoreFields DEF TypeOK, Write

\* ... a certificate ...
LEMMA CertificateWritten ==
    ASSUME TypeOK, NEW p \in Procs, cmd[p].scope \in Scopes,
           NEW v \in Certificate \cup {None}, Write(p, "certificate", v)
    PROVE  files' = [files EXCEPT ![cmd[p].scope] = [@ EXCEPT !.certificate = v]]
           /\ files' \in [Scopes -> Store]
  BY StoreFields DEF TypeOK, Write

\* ... a licence ...
LEMMA LicenseWritten ==
    ASSUME TypeOK, NEW p \in Procs, cmd[p].scope \in Scopes,
           NEW v \in Licenses \cup {None}, Write(p, "license", v)
    PROVE  files' = [files EXCEPT ![cmd[p].scope] = [@ EXCEPT !.license = v]]
           /\ files' \in [Scopes -> Store]
  BY StoreFields DEF TypeOK, Write

\* ... and a list of revocations.
LEMMA ListWritten ==
    ASSUME TypeOK, NEW p \in Procs, cmd[p].scope \in Scopes,
           NEW v \in SUBSET Licenses, Write(p, "revoked", v)
    PROVE  files' = [files EXCEPT ![cmd[p].scope] = [@ EXCEPT !.revoked = v]]
           /\ files' \in [Scopes -> Store]
  BY StoreFields DEF TypeOK, Write

\* The states that a command goes through are such states.
LEMMA CommandStates ==
    ASSUME NEW c \in CommandState
    PROVE  /\ \A at \in Steps \cup Ends : [c EXCEPT !.at = at] \in CommandState
           /\ \A id \in Licenses : [c EXCEPT !.id = id] \in CommandState
           /\ \A n \in 0 .. MaxCommands : [c EXCEPT !.secret = n] \in CommandState
           /\ \A v \in Certificate \cup {None} : [c EXCEPT !.certificate = v] \in CommandState
           /\ \A v \in Credentials \cup {None} : [c EXCEPT !.credentials = v] \in CommandState
           /\ \A l \in SUBSET Licenses : [c EXCEPT !.list = l] \in CommandState
           /\ c.at \in Steps \cup Ends /\ c.id \in Licenses \cup {None}
           /\ c.certificate \in Certificate \cup {None}
           /\ c.credentials \in Credentials \cup {None}
           /\ c.list \in SUBSET Licenses
  BY DEF CommandState

\* So is that of a process that runs nothing.
LEMMA NoCommandIsOne == NoCommand \in CommandState
  BY CommandsAssumption DEF CommandState, NoCommand, Ends

-----------------------------------------------------------------------------
\* A command does nothing to another command, and nothing to another store.
LEMMA OnlyItsOwn ==
    ASSUME TypeOK, NEW p \in Procs, Command(p)
    PROVE  /\ \A q \in Procs : q # p => cmd'[q] = cmd[q]
           /\ \A s \in Scopes : s # cmd[p].scope => files'[s] = files[s]
           /\ shared \subseteq shared'
<1> USE DEF TypeOK, Goto, End
<1>1. ASSUME NEW scope \in Scopes, NEW verb, NEW first, Start(p, verb, scope, first)
      PROVE  /\ \A q \in Procs : q # p => cmd'[q] = cmd[q]
             /\ files' = files /\ shared \subseteq shared'
  BY <1>1 DEF Start
<1>2. CASE Refused(p)
  BY <1>2 DEF Refused, historyVars
<1>3. CASE CallActivate(p)
  BY <1>3 DEF CallActivate, GrantActivation, Mishap, historyVars
<1>4. CASE CallDeactivate(p)
  BY <1>4 DEF CallDeactivate, Mishap, historyVars
<1>5. CASE CallRenew(p)
  BY <1>5 DEF CallRenew, historyVars
<1>6. CASE WriteCredentials(p)
  BY <1>6 DEF WriteCredentials, Write, historyVars
<1>7. CASE WriteCertificate(p)
  BY <1>7 DEF WriteCertificate, Write, historyVars
<1>8. CASE WriteLicense(p)
  BY <1>8 DEF WriteLicense, Write, historyVars
<1>9. CASE ReadToRecord(p)
  BY <1>9 DEF ReadToRecord, historyVars
<1>10. CASE ReadToClear(p)
  BY <1>10 DEF ReadToClear, historyVars
<1>11. CASE WriteRecorded(p)
  BY <1>11 DEF WriteRecorded, Write, historyVars
<1>12. CASE WriteCleared(p)
  BY <1>12 DEF WriteCleared, Write, historyVars
<1>13. CASE RemoveCertificate(p)
  BY <1>13 DEF RemoveCertificate, Write, historyVars
<1>14. CASE RemoveCredentials(p)
  BY <1>14 DEF RemoveCredentials, Write, historyVars
<1>15. CASE StoreFails(p)
  BY <1>15 DEF StoreFails, Mishap, historyVars
<1>16. CASE Killed(p)
  BY <1>16 DEF Killed, Mishap, historyVars
<1> QED
  BY <1>1, <1>2, <1>3, <1>4, <1>5, <1>6, <1>7, <1>8, <1>9, <1>10, <1>11, <1>12,
     <1>13, <1>14, <1>15, <1>16
  DEF Command, StartInstall, StartActivate, StartDeactivate, StartRenew

-----------------------------------------------------------------------------
(* Type correctness. *)

\* A command that moves on, and nothing else of it changes.
LEMMA GotoType ==
    ASSUME TypeOK, NEW p \in Procs, NEW at \in Steps \cup Ends, Goto(p, at)
    PROVE  cmd' \in [Procs -> CommandState]
  BY CommandStates DEF TypeOK, Goto

\* A command that ends.
LEMMA EndType ==
    ASSUME TypeOK, NEW p \in Procs, End(p)
    PROVE  cmd' \in [Procs -> CommandState]
  BY NoCommandIsOne DEF TypeOK, End

\* A command that starts ...
LEMMA StartType ==
    ASSUME TypeOK, NEW p \in Procs, NEW scope \in Scopes, NEW verb \in Verbs,
           NEW first \in CommandState, Start(p, verb, scope, first)
    PROVE  TypeOK'
<1>1. [first EXCEPT !.verb = verb, !.scope = scope] \in CommandState
  BY DEF CommandState
<1>2. commands' \in 0 .. MaxCommands
  BY CommandsAssumption DEF TypeOK, Start
<1> QED
  BY <1>1, <1>2 DEF TypeOK, Start, serverVars

\* ... whichever of the four it is.
LEMMA StartsType ==
    ASSUME TypeOK, NEW p \in Procs, NEW scope \in Scopes,
           Starts(p, scope)
    PROVE  TypeOK'
<1> {"call", "license"} \subseteq Steps
  BY DEF Steps
<1>0. /\ [NoCommand EXCEPT !.at = "call"] \in CommandState
      /\ [NoCommand EXCEPT !.at = "license"] \in CommandState
  BY NoCommandIsOne, CommandStates
<1>1. ASSUME NEW id \in Licenses
      PROVE  [NoCommand EXCEPT !.at = "license", !.id = id] \in CommandState
  BY <1>0, CommandStates
<1>2. ASSUME NEW id \in Licenses, commands < MaxCommands
      PROVE  [NoCommand EXCEPT !.at = "call", !.id = id, !.secret = commands + 1]
                \in CommandState
  <2>1. commands + 1 \in 0 .. MaxCommands
    BY <1>2, CommandsAssumption DEF TypeOK
  <2>2. [NoCommand EXCEPT !.at = "call", !.id = id] \in CommandState
    BY <1>0, CommandStates
  <2> QED
    BY <2>1, <2>2, CommandStates
<1>3. ASSUME NEW c \in Credentials \cup {None}, NEW id \in Licenses
      PROVE  [NoCommand EXCEPT !.at = "call", !.id = id, !.credentials = c]
                \in CommandState
  <2>1. [NoCommand EXCEPT !.at = "call", !.id = id] \in CommandState
    BY <1>0, CommandStates
  <2> QED
    BY <2>1, <1>0, CommandStates
<1>4. files[scope].credentials \in Credentials \cup {None}
      /\ files[scope].license \in Licenses \cup {None}
  BY DEF TypeOK, Store
<1>5. CASE StartInstall(p, scope)
  BY <1>5, <1>1, StartType DEF StartInstall, Verbs
<1>6. CASE StartActivate(p, scope)
  <2>1. PICK id \in Licenses :
          Start(p, "activate", scope,
                [NoCommand EXCEPT !.at = "call", !.id = id, !.secret = commands + 1])
    BY <1>6 DEF StartActivate
  <2>2. commands < MaxCommands
    BY <2>1 DEF Start
  <2> QED
    BY <2>1, <2>2, <1>2, StartType DEF Verbs
<1>7. CASE StartDeactivate(p, scope)
  <2>1. [NoCommand EXCEPT !.at = "call", !.credentials = files[scope].credentials]
            \in CommandState
    BY <1>0, <1>4, CommandStates
  <2> QED
    BY <1>7, <2>1, StartType DEF StartDeactivate, Verbs
<1>8. CASE StartRenew(p, scope)
  <2> DEFINE given == IF RequiresActivation(files[scope].license)
                      THEN files[scope].credentials ELSE None
  <2>1. given \in Credentials \cup {None}
    BY <1>4
  <2>2. files[scope].license \in Licenses
    BY <1>4, <1>8 DEF StartRenew
  <2>3. Start(p, "renew", scope, [NoCommand EXCEPT !.at = "call", !.id = files[scope].license,
                                                   !.credentials = given])
    BY <1>8 DEF StartRenew
  <2> HIDE DEF given
  <2> QED
    BY <2>1, <2>2, <2>3, <1>3, StartType DEF Verbs
<1> QED
  BY <1>5, <1>6, <1>7, <1>8 DEF Starts

\* The server gives activations of Activation.
LEMMA CallActivateType ==
    ASSUME TypeOK, NEW p \in Procs, CommandIsSound(p), CallActivate(p)
    PROVE  TypeOK'
<1> DEFINE c == cmd[p]
<1> USE DEF At
<1>1. c \in CommandState /\ c.id \in Licenses /\ c.secret \in 1 .. MaxCommands
  BY DEF TypeOK, CommandIsSound, CallActivate
<1>2. ASSUME NEW certificate \in Certificate \cup {None}, GrantActivation(p, certificate)
      PROVE  cmd' \in [Procs -> CommandState]
  <2>1. CASE End(p)
    BY <2>1, EndType
  <2>2. CASE certificate = None
    <3>1. [c EXCEPT !.at = "license", !.certificate = None, !.credentials = None]
              \in CommandState
      BY <1>1, CommandStates DEF Steps
    <3> QED
      BY <1>2, <2>1, <2>2, <3>1 DEF GrantActivation, TypeOK
  <2>3. CASE certificate # None
    <3> DEFINE new == [activation |-> certificate.activation, secret |-> c.secret]
    <3>1. new \in Credentials
      BY <1>1, <2>3 DEF Certificate, Credentials
    <3>2. [c EXCEPT !.at = "credentials", !.certificate = certificate, !.credentials = new]
              \in CommandState
      <4>1. [c EXCEPT !.at = "credentials"] \in CommandState
        BY <1>1, CommandStates DEF Steps
      <4>2. [c EXCEPT !.at = "credentials", !.certificate = certificate] \in CommandState
        BY <4>1, <1>2, CommandStates
      <4> QED
        BY <3>1, <4>2, CommandStates
    <3> QED
      BY <1>2, <2>1, <2>3, <3>2 DEF GrantActivation, TypeOK
  <2> QED
    BY <1>2, <2>2, <2>3
<1>3. \E certificate \in Certificate \cup {None} : GrantActivation(p, certificate)
  <2>1. CASE RequiresActivation(c.id)
    BY <1>1, <2>1 DEF CallActivate, Allocated, Certificate
  <2>2. CASE ~ RequiresActivation(c.id)
    BY <1>1, <2>2 DEF CallActivate
  <2> QED
    BY <2>1, <2>2
<1>4. cmd' \in [Procs -> CommandState]
  BY <1>2, <1>3
<1> QED
  BY <1>4 DEF CallActivate, TypeOK, historyVars

\* What renew is given is a certificate of Certificate.
LEMMA CallRenewType ==
    ASSUME TypeOK, NEW p \in Procs, CommandIsSound(p), CallRenew(p)
    PROVE  TypeOK'
<1> DEFINE c == cmd[p]
<1> USE DEF At
<1>1. c \in CommandState /\ c.id \in Licenses
  BY DEF TypeOK, CommandIsSound, CallRenew
<1>2. CASE Goto(p, "record") \/ Goto(p, "remove_certificate")
  BY <1>2, GotoType DEF CallRenew, TypeOK, Steps, serverVars, historyVars
<1>3. CASE c.credentials = None /\ ~ (Goto(p, "record") \/ Goto(p, "remove_certificate"))
  <2>1. [c EXCEPT !.at = "license", !.certificate = None] \in CommandState
    BY <1>1, CommandStates DEF Steps
  <2>2. cmd' = [cmd EXCEPT ![p] = [c EXCEPT !.at = "license", !.certificate = None]]
    BY <1>3 DEF CallRenew
  <2> QED
    BY <2>1, <2>2 DEF CallRenew, TypeOK, serverVars, historyVars
<1>4. CASE c.credentials # None /\ ~ (Goto(p, "record") \/ Goto(p, "remove_certificate"))
  <2> DEFINE again == [activation |-> c.credentials.activation, license |-> c.id]
  <2>1. again \in Certificate
    BY <1>1, <1>4, CommandStates DEF Certificate, Credentials
  <2>2. cmd' = [cmd EXCEPT ![p] = [c EXCEPT !.at = "credentials", !.certificate = again]]
    BY <1>4 DEF CallRenew
  <2>3. [c EXCEPT !.at = "credentials"] \in CommandState
    BY <1>1, CommandStates DEF Steps
  <2>4. [c EXCEPT !.at = "credentials", !.certificate = again] \in CommandState
    BY <2>1, <2>3, CommandStates
  <2> HIDE DEF again
  <2> QED
    BY <2>2, <2>4 DEF CallRenew, TypeOK, serverVars, historyVars
<1> QED
  BY <1>2, <1>3, <1>4

\* Every step of a command leaves every variable in its type.
LEMMA CommandType ==
    ASSUME TypeOK, NEW p \in Procs, CommandIsSound(p), Command(p)
    PROVE  TypeOK'
<1> DEFINE c == cmd[p]
<1> USE DEF At, serverVars, historyVars
<1>1. c \in CommandState /\ files \in [Scopes -> Store]
      /\ (Running(p) => c.scope \in Scopes)
  BY DEF TypeOK, CommandIsSound
<1>2. /\ \A s \in Scopes : files[s].revoked \subseteq Licenses
      /\ \A s \in Scopes : files[s].credentials \in Credentials \cup {None}
  BY <1>1 DEF Store
<1>3. CASE End(p) /\ UNCHANGED <<withdrawn, files, commands, shared, abandoned>>
            /\ reported' \subseteq Licenses
  BY <1>3, EndType DEF TypeOK
<1>4. CASE Refused(p) \/ StoreFails(p) \/ Killed(p)
  BY <1>3, <1>4 DEF Refused, StoreFails, Killed, Mishap, TypeOK
<1>5. CASE CallDeactivate(p)
  BY <1>5, GotoType, EndType DEF CallDeactivate, TypeOK, Steps
<1>6. CASE WriteCredentials(p)
  <2>1. c.scope \in Scopes /\ c.credentials \in Credentials \cup {None}
    BY <1>1, <1>6, CommandStates DEF WriteCredentials, Running, Steps
  <2>2. abandoned' \subseteq Activation
    BY <1>2, <1>6, <2>1 DEF WriteCredentials, TypeOK, Credentials
  <2> QED
    BY <1>6, <2>1, <2>2, CredentialsWritten, GotoType DEF WriteCredentials, TypeOK, Steps
<1>7. CASE WriteCertificate(p)
  <2>1. c.scope \in Scopes /\ c.certificate \in Certificate \cup {None}
    BY <1>1, <1>7, CommandStates DEF WriteCertificate, Running, Steps
  <2> QED
    BY <1>7, <2>1, CertificateWritten, GotoType DEF WriteCertificate, TypeOK, Steps
<1>8. CASE WriteLicense(p)
  <2>1. c.scope \in Scopes /\ c.id \in Licenses \cup {None}
    BY <1>1, <1>8, CommandStates DEF WriteLicense, Running, Steps
  <2> QED
    BY <1>8, <2>1, LicenseWritten, GotoType, EndType DEF WriteLicense, TypeOK, Steps
<1>9. CASE ReadToRecord(p)
  <2>1. c.scope \in Scopes /\ c.id \in Licenses
    BY <1>1, <1>9 DEF ReadToRecord, CommandIsSound, Running, Steps
  <2> DEFINE list == WithRevocation(files[c.scope].revoked, c.id)
  <2>2. list \in SUBSET Licenses
    BY <1>2, <2>1 DEF WithRevocation
  <2>3. [c EXCEPT !.at = "write_recorded"] \in CommandState
    BY <1>1, CommandStates DEF Steps
  <2>4. [c EXCEPT !.at = "write_recorded", !.list = list] \in CommandState
    BY <2>2, <2>3, CommandStates
  <2>5. \/ End(p) /\ reported' = reported \cup {c.id}
        \/ cmd' = [cmd EXCEPT ![p] = [c EXCEPT !.at = "write_recorded", !.list = list]]
             /\ UNCHANGED reported
    BY <1>9 DEF ReadToRecord
  <2> HIDE DEF list
  <2> QED
    BY <1>9, <2>1, <2>4, <2>5, EndType DEF ReadToRecord, TypeOK
<1>10. CASE ReadToClear(p)
  <2>1. c.scope \in Scopes
    BY <1>1, <1>10 DEF ReadToClear, Running, Steps
  <2> DEFINE list == WithoutRevocation(files[c.scope].revoked, c.id)
  <2>2. list \in SUBSET Licenses
    BY <1>2, <2>1 DEF WithoutRevocation
  <2>3. [c EXCEPT !.at = "write_cleared"] \in CommandState
    BY <1>1, CommandStates DEF Steps
  <2>4. [c EXCEPT !.at = "write_cleared", !.list = list] \in CommandState
    BY <2>2, <2>3, CommandStates
  <2>5. \/ End(p)
        \/ cmd' = [cmd EXCEPT ![p] = [c EXCEPT !.at = "write_cleared", !.list = list]]
    BY <1>10 DEF ReadToClear
  <2> HIDE DEF list
  <2> QED
    BY <1>10, <2>4, <2>5, EndType DEF ReadToClear, TypeOK
<1>11. CASE WriteRecorded(p) \/ WriteCleared(p)
  <2>1. c.scope \in Scopes /\ c.list \in SUBSET Licenses
    BY <1>1, <1>11, CommandStates DEF WriteRecorded, WriteCleared, Running, Steps
  <2>2. reported' \subseteq Licenses
    BY <1>11 DEF WriteRecorded, WriteCleared, TypeOK, CommandIsSound
  <2> QED
    BY <1>11, <2>1, <2>2, ListWritten, EndType DEF WriteRecorded, WriteCleared, TypeOK
<1>12. CASE RemoveCertificate(p)
  <2>1. c.scope \in Scopes
    BY <1>1, <1>12 DEF RemoveCertificate, Running, Steps
  <2> QED
    BY <1>12, <2>1, CertificateWritten, GotoType DEF RemoveCertificate, TypeOK, Steps
<1>13. CASE RemoveCredentials(p)
  <2>1. c.scope \in Scopes
    BY <1>1, <1>13 DEF RemoveCredentials, Running, Steps
  <2> DEFINE at == IF c.verb = "renew" THEN "inactive" ELSE "released"
  <2>2. [NoCommand EXCEPT !.at = at] \in CommandState
    BY NoCommandIsOne, CommandStates DEF Ends
  <2>3. [NoCommand EXCEPT !.at = at, !.credentials = c.credentials] \in CommandState
    BY <1>1, <2>2, CommandStates
  <2>4. cmd' = [cmd EXCEPT ![p] = [NoCommand EXCEPT !.at = at, !.credentials = c.credentials]]
    BY <1>13 DEF RemoveCredentials
  <2>5. files' \in [Scopes -> Store]
    BY <1>13, <2>1, CredentialsWritten DEF RemoveCredentials
  <2> HIDE DEF at
  <2>6. cmd' \in [Procs -> CommandState]
    BY <2>3, <2>4 DEF TypeOK
  <2> QED
    BY <1>13, <2>5, <2>6 DEF RemoveCredentials, TypeOK
<1> QED
  BY <1>4, <1>5, <1>6, <1>7, <1>8, <1>9, <1>10, <1>11, <1>12, <1>13, StartsType,
     CallActivateType, CallRenewType
  DEF Command, Starts

-----------------------------------------------------------------------------
(* The rest of the invariant, one conjunct at a time. *)

\* What each kind of step leaves of the command.
LEMMA AfterGoto ==
    ASSUME TypeOK, NEW p \in Procs, NEW at, Goto(p, at)
    PROVE  /\ cmd'[p].at = at
           /\ cmd'[p].verb = cmd[p].verb /\ cmd'[p].scope = cmd[p].scope
           /\ cmd'[p].id = cmd[p].id /\ cmd'[p].secret = cmd[p].secret
           /\ cmd'[p].credentials = cmd[p].credentials /\ cmd'[p].list = cmd[p].list
  BY DEF Goto, TypeOK, CommandState

\* A command that has ended.
LEMMA AfterEnd ==
    ASSUME TypeOK, NEW p \in Procs, End(p)
    PROVE  cmd'[p].at = "idle" /\ ~ Running(p)'
  BY DEF End, TypeOK, NoCommand, Running, Steps

\* A command that has read a list.
LEMMA AfterRead ==
    ASSUME TypeOK, NEW p \in Procs, NEW at, NEW list,
           cmd' = [cmd EXCEPT ![p].at = at, ![p].list = list]
    PROVE  /\ cmd'[p].at = at /\ cmd'[p].list = list
           /\ cmd'[p].verb = cmd[p].verb /\ cmd'[p].scope = cmd[p].scope
           /\ cmd'[p].id = cmd[p].id /\ cmd'[p].secret = cmd[p].secret
           /\ cmd'[p].credentials = cmd[p].credentials
  BY DEF TypeOK, CommandState

\* A command that has started.
LEMMA AfterStart ==
    ASSUME TypeOK, NEW p \in Procs, NEW scope \in Scopes,
           Starts(p, scope)
    PROVE  /\ cmd'[p].scope = scope
           /\ cmd'[p].at \in {"call", "license"} /\ files' = files /\ reported' = reported
           /\ \/ cmd'[p].id \in Licenses
              \/ cmd'[p].verb = "deactivate" /\ cmd'[p].at = "call"
           /\ cmd'[p].verb = "activate" => cmd'[p].secret = commands + 1
           /\ commands < MaxCommands /\ ~ Running(p)
           /\ shared' = IF \E q \in Procs \ {p} : Running(q) /\ cmd[q].scope = scope
                        THEN shared \cup {scope} ELSE shared
<1>1. files[scope].license \in Licenses \cup {None}
  BY DEF TypeOK, Store
<1>2. CASE StartInstall(p, scope)
  <2>1. PICK id \in Licenses :
          Start(p, "install", scope, [NoCommand EXCEPT !.at = "license", !.id = id])
    BY <1>2 DEF StartInstall
  <2> QED
    BY <2>1 DEF Start, TypeOK, NoCommand
<1>3. CASE StartActivate(p, scope)
  <2>1. PICK id \in Licenses :
          Start(p, "activate", scope,
                [NoCommand EXCEPT !.at = "call", !.id = id, !.secret = commands + 1])
    BY <1>3 DEF StartActivate
  <2> QED
    BY <2>1 DEF Start, TypeOK, NoCommand
<1>4. CASE StartDeactivate(p, scope)
  BY <1>4 DEF StartDeactivate, Start, TypeOK, NoCommand
<1>5. CASE StartRenew(p, scope)
  BY <1>1, <1>5 DEF StartRenew, Start, TypeOK, NoCommand
<1> QED
  BY <1>2, <1>3, <1>4, <1>5 DEF Starts

\* A command keeps knowing what its next step needs.
LEMMA CommandSound ==
    ASSUME TypeOK, NEW p \in Procs, CommandIsSound(p), Command(p)
    PROVE  CommandIsSound(p)'
<1> DEFINE c == cmd[p]
<1> USE DEF At
<1>1. ASSUME End(p) PROVE CommandIsSound(p)'
  BY <1>1, AfterEnd DEF CommandIsSound
<1>2. ASSUME NEW scope \in Scopes,
             Starts(p, scope)
      PROVE  CommandIsSound(p)'
  <2>1. commands + 1 \in 1 .. MaxCommands
    BY <1>2, AfterStart, CommandsAssumption DEF TypeOK
  <2>2. cmd'[p].scope \in Scopes /\ cmd'[p].at \in {"call", "license"}
    BY <1>2, AfterStart
  <2>3. cmd'[p].verb = "activate" => cmd'[p].secret \in 1 .. MaxCommands
    BY <1>2, <2>1, AfterStart
  <2>4. cmd'[p].id \in Licenses \/ (cmd'[p].verb = "deactivate" /\ cmd'[p].at = "call")
    BY <1>2, AfterStart
  <2> QED
    BY <2>2, <2>3, <2>4 DEF CommandIsSound
<1>3. ASSUME NEW at \in {"record", "remove_certificate", "certificate", "license", "clear",
                         "remove_credentials"},
             Goto(p, at), Running(p), at = "remove_certificate" \/ at = "remove_credentials"
                                        \/ c.id \in Licenses
      PROVE  CommandIsSound(p)'
  BY <1>3, AfterGoto DEF CommandIsSound
<1>4. CASE Refused(p) \/ StoreFails(p) \/ Killed(p) \/ WriteRecorded(p) \/ WriteCleared(p)
  BY <1>1, <1>4 DEF Refused, StoreFails, Killed, WriteRecorded, WriteCleared
<1>5. CASE CallActivate(p)
  <2> USE DEF CallActivate
  <2>1. c.id \in Licenses /\ c.secret \in 1 .. MaxCommands /\ c.scope \in Scopes
    BY <1>5 DEF CommandIsSound, Running, Steps
  <2>2. ASSUME NEW certificate \in Certificate \cup {None}, GrantActivation(p, certificate)
        PROVE  CommandIsSound(p)'
    <3>1. CASE End(p)
      BY <1>1, <3>1
    <3>2. CASE ~ End(p)
      <4> DEFINE new == [activation |-> certificate.activation, secret |-> c.secret]
      <4>1. certificate # None => new \in Credentials
        BY <2>1 DEF Certificate, Credentials
      <4>2. /\ cmd'[p].at = IF certificate = None THEN "license" ELSE "credentials"
            /\ cmd'[p].credentials = IF certificate = None THEN None ELSE new
            /\ cmd'[p].id = c.id /\ cmd'[p].scope = c.scope
        BY <2>2, <3>2 DEF GrantActivation, TypeOK, CommandState
      <4> HIDE DEF new
      <4> QED
        BY <2>1, <4>1, <4>2, CommandsAssumption DEF CommandIsSound
    <3> QED
      BY <3>1, <3>2
  <2>3. \E certificate \in Certificate \cup {None} : GrantActivation(p, certificate)
    BY <1>5, <2>1 DEF Allocated, Certificate
  <2> QED
    BY <2>2, <2>3
<1>6. CASE CallDeactivate(p)
  BY <1>1, <1>3, <1>6 DEF CallDeactivate, Running, Steps
<1>7. CASE CallRenew(p)
  <2>1. c.id \in Licenses /\ Running(p)
    BY <1>7 DEF CallRenew, CommandIsSound, Running, Steps
  <2>2. CASE Goto(p, "record") \/ Goto(p, "remove_certificate")
    BY <1>3, <2>1, <2>2
  <2>3. CASE ~ (Goto(p, "record") \/ Goto(p, "remove_certificate"))
    <3>1. /\ cmd'[p].at = IF c.credentials # None THEN "credentials" ELSE "license"
          /\ cmd'[p].credentials = c.credentials
          /\ cmd'[p].id = c.id /\ cmd'[p].scope = c.scope
      BY <1>7, <2>3 DEF CallRenew, TypeOK, CommandState
    <3> QED
      BY <2>1, <3>1 DEF CommandIsSound
  <2> QED
    BY <2>2, <2>3
<1>8. CASE WriteCredentials(p) \/ WriteCertificate(p) \/ WriteLicense(p)
  BY <1>8, <1>1, <1>3
  DEF WriteCredentials, WriteCertificate, WriteLicense, CommandIsSound, Running, Steps
<1>9. CASE ReadToRecord(p)
  <2>1. c.id \in Licenses /\ c.scope \in Scopes
    BY <1>9 DEF ReadToRecord, CommandIsSound, Running, Steps
  <2> QED
    BY <1>9, <1>1, <2>1, AfterRead DEF ReadToRecord, CommandIsSound
<1>10. CASE ReadToClear(p)
  <2>1. c.id \in Licenses /\ c.scope \in Scopes
    BY <1>10 DEF ReadToClear, CommandIsSound, Running, Steps
  <2> QED
    BY <1>10, <1>1, <2>1, AfterRead DEF ReadToClear, CommandIsSound
<1>11. CASE RemoveCertificate(p)
  BY <1>3, <1>11 DEF RemoveCertificate, Running, Steps
<1>12. CASE RemoveCredentials(p)
  <2>1. cmd'[p].at \in Ends
    BY <1>12 DEF RemoveCredentials, TypeOK, NoCommand, Ends
  <2> QED
    BY <2>1 DEF CommandIsSound, Running, Steps, Ends
<1> QED
  BY <1>2, <1>4, <1>5, <1>6, <1>7, <1>8, <1>9, <1>10, <1>11, <1>12
  DEF Command, Starts

\* A command that is under way keeps its store.
LEMMA ScopeKept ==
    ASSUME TypeOK, NEW p \in Procs, Command(p),
           \A scope \in Scopes : ~ Starts(p, scope)
    PROVE  /\ Running(p) /\ shared' = shared
           /\ Running(p)' => cmd'[p].scope = cmd[p].scope
<1> DEFINE Kept == Running(p)' => cmd'[p].scope = cmd[p].scope
<1> USE DEF At, historyVars
<1>1. ASSUME NEW at, Goto(p, at) PROVE Kept
  BY <1>1, AfterGoto
<1>2. ASSUME End(p) PROVE Kept
  BY <1>2, AfterEnd
<1>3. CASE Refused(p) \/ StoreFails(p) \/ Killed(p)
  BY <1>2, <1>3 DEF Refused, StoreFails, Killed, Running, Steps
<1>4. CASE CallActivate(p)
  <2>1. \E certificate : GrantActivation(p, certificate)
    BY <1>4 DEF CallActivate
  <2>2. Kept
    BY <1>2, <2>1 DEF GrantActivation, TypeOK, CommandState
  <2> QED
    BY <1>4, <2>2 DEF CallActivate, Running, Steps
<1>5. CASE CallDeactivate(p)
  BY <1>1, <1>2, <1>5 DEF CallDeactivate, Running, Steps
<1>6. CASE CallRenew(p)
  <2>1. Kept
    BY <1>1, <1>6 DEF CallRenew, TypeOK, CommandState
  <2> QED
    BY <1>6, <2>1 DEF CallRenew, Running, Steps
<1>7. CASE WriteCredentials(p) \/ WriteCertificate(p) \/ WriteLicense(p)
  BY <1>1, <1>2, <1>7 DEF WriteCredentials, WriteCertificate, WriteLicense, Running, Steps
<1>8. CASE ReadToRecord(p) \/ ReadToClear(p)
  BY <1>2, <1>8, AfterRead DEF ReadToRecord, ReadToClear, Running, Steps
<1>9. CASE WriteRecorded(p) \/ WriteCleared(p)
  BY <1>2, <1>9 DEF WriteRecorded, WriteCleared, Running, Steps
<1>10. CASE RemoveCertificate(p)
  BY <1>1, <1>10 DEF RemoveCertificate, Running, Steps
<1>11. CASE RemoveCredentials(p)
  <2>1. cmd'[p].at \in Ends
    BY <1>11 DEF RemoveCredentials, TypeOK, NoCommand, Ends
  <2> QED
    BY <1>11, <2>1 DEF RemoveCredentials, Running, Steps, Ends
<1> QED
  BY <1>3, <1>4, <1>5, <1>6, <1>7, <1>8, <1>9, <1>10, <1>11
  DEF Command, Starts

\* A command that starts on a store where another is under way is noticed.
LEMMA ApartPreserved ==
    ASSUME TypeOK, NEW p \in Procs, Command(p), \A a, b \in Procs : Apart(a, b)
    PROVE  \A a, b \in Procs : Apart(a, b)'
<1>1. /\ \A q \in Procs : q # p => cmd'[q] = cmd[q]
      /\ shared \subseteq shared'
  BY OnlyItsOwn
<1>2. SUFFICES ASSUME NEW a \in Procs, NEW b \in Procs PROVE Apart(a, b)'
  OBVIOUS
<1>3. CASE \E scope \in Scopes : Starts(p, scope)
  <2>1. PICK scope \in Scopes : Starts(p, scope)
    BY <1>3
  <2>2. /\ cmd'[p].scope = scope
        /\ (\E q \in Procs \ {p} : Running(q) /\ cmd[q].scope = scope) => scope \in shared'
    BY <2>1, AfterStart
  <2> QED
    BY <1>1, <2>2 DEF Apart, Running
<1>4. CASE ~ (\E scope \in Scopes : Starts(p, scope))
  <2>1. Running(p) /\ (Running(p)' => cmd'[p].scope = cmd[p].scope)
    BY <1>4, ScopeKept
  <2> QED
    BY <1>1, <2>1 DEF Apart, Running
<1> QED
  BY <1>3, <1>4

\* Another command is not disturbed in a store it has for itself.
LEMMA OthersHalfWay ==
    ASSUME TypeOK, NEW p \in Procs, Command(p), NEW q \in Procs, q # p,
           CommandIsSound(q), HalfWayIsSound(q), Apart(p, q)
    PROVE  HalfWayIsSound(q)'
<1>1. cmd'[q] = cmd[q] /\ shared \subseteq shared'
      /\ \A s \in Scopes : s # cmd[p].scope => files'[s] = files[s]
  BY OnlyItsOwn
<1>2. CASE \E scope \in Scopes : Starts(p, scope)
  <2>1. files' = files
    BY <1>2, AfterStart
  <2> QED
    BY <1>1, <2>1 DEF HalfWayIsSound, Running, At
<1>3. CASE \A scope \in Scopes : ~ Starts(p, scope)
  <2>1. Running(p) /\ shared' = shared
    BY <1>3, ScopeKept
  <2>2. CASE cmd[q].scope = cmd[p].scope
    BY <1>1, <2>1, <2>2 DEF HalfWayIsSound, Running, Apart
  <2>3. CASE cmd[q].scope # cmd[p].scope
    <3>1. Running(q) => files'[cmd[q].scope] = files[cmd[q].scope]
      BY <1>1, <2>3 DEF CommandIsSound
    <3> QED
      BY <1>1, <3>1 DEF HalfWayIsSound, Running, At
  <2> QED
    BY <2>2, <2>3
<1> QED
  BY <1>2, <1>3

\* A command leaves its store sound, at whichever step it ends.
LEMMA StoreSound ==
    ASSUME TypeOK, NEW p \in Procs, Command(p), CommandIsSound(p), HalfWayIsSound(p),
           CertificateHasCredentials
    PROVE  HalfWayIsSound(p)' /\ CertificateHasCredentials'
<1> DEFINE c == cmd[p]
<1> USE DEF At
<1>1. ASSUME UNCHANGED files, cmd'[p].at \notin {"certificate", "remove_credentials"}
      PROVE  HalfWayIsSound(p)' /\ CertificateHasCredentials'
  BY <1>1, OnlyItsOwn DEF HalfWayIsSound, CertificateHasCredentials
<1>2. ASSUME End(p) PROVE cmd'[p].at \notin {"certificate", "remove_credentials"}
  BY <1>2, AfterEnd
<1>3. ASSUME NEW scope \in Scopes, Starts(p, scope)
      PROVE  UNCHANGED files /\ cmd'[p].at \notin {"certificate", "remove_credentials"}
  BY <1>3, AfterStart
<1>4. CASE Refused(p) \/ StoreFails(p) \/ Killed(p)
  BY <1>1, <1>2, <1>4 DEF Refused, StoreFails, Killed
<1>5. CASE CallActivate(p)
  <2>1. PICK certificate : GrantActivation(p, certificate)
    BY <1>5 DEF CallActivate
  <2>2. cmd'[p].at \notin {"certificate", "remove_credentials"}
    BY <1>2, <2>1 DEF GrantActivation, TypeOK, CommandState
  <2> QED
    BY <1>1, <1>5, <2>2 DEF CallActivate
<1>6. CASE CallDeactivate(p)
  <2>1. cmd'[p].at \notin {"certificate", "remove_credentials"}
    BY <1>2, <1>6, AfterGoto DEF CallDeactivate
  <2> QED
    BY <1>1, <1>6, <2>1 DEF CallDeactivate
<1>7. CASE CallRenew(p)
  <2>1. cmd'[p].at \notin {"certificate", "remove_credentials"}
    BY <1>7, AfterGoto DEF CallRenew, TypeOK, CommandState
  <2> QED
    BY <1>1, <1>7, <2>1 DEF CallRenew
<1>8. CASE WriteCredentials(p)
  <2>1. /\ c.scope \in Scopes /\ c.credentials \in Credentials \cup {None}
        /\ c.credentials # None
    BY <1>8 DEF WriteCredentials, CommandIsSound, Running, Steps, TypeOK, CommandState
  <2>2. files' = [files EXCEPT ![c.scope] = [@ EXCEPT !.credentials = c.credentials]]
    BY <1>8, <2>1, CredentialsWritten DEF WriteCredentials
  <2>3. files'[c.scope].credentials # None
    BY <2>1, <2>2 DEF TypeOK, Store
  <2>4. cmd'[p].scope = c.scope /\ cmd'[p].at = "certificate"
    BY <1>8, AfterGoto DEF WriteCredentials
  <2> QED
    BY <2>1, <2>3, <2>4, OnlyItsOwn DEF HalfWayIsSound, CertificateHasCredentials
<1>9. CASE WriteCertificate(p)
  <2>1. c.scope \in Scopes /\ c.certificate \in Certificate \cup {None} /\ Running(p)
    BY <1>9 DEF WriteCertificate, CommandIsSound, Running, Steps, TypeOK, CommandState
  <2>2. files' = [files EXCEPT ![c.scope] = [@ EXCEPT !.certificate = c.certificate]]
    BY <1>9, <2>1, CertificateWritten DEF WriteCertificate
  <2>3. c.scope \notin shared => files'[c.scope].credentials # None
    BY <1>9, <2>1, <2>2 DEF WriteCertificate, HalfWayIsSound, TypeOK, Store
  <2>4. cmd'[p].at = "license"
    BY <1>9, AfterGoto DEF WriteCertificate
  <2> QED
    BY <2>1, <2>3, <2>4, OnlyItsOwn DEF HalfWayIsSound, CertificateHasCredentials
<1>10. CASE WriteLicense(p)
  <2>1. c.scope \in Scopes /\ c.id \in Licenses \cup {None}
    BY <1>10 DEF WriteLicense, CommandIsSound, Running, Steps
  <2>2. files' = [files EXCEPT ![c.scope] = [@ EXCEPT !.license = c.id]]
    BY <1>10, <2>1, LicenseWritten DEF WriteLicense
  <2>3. /\ files'[c.scope].credentials = files[c.scope].credentials
        /\ files'[c.scope].certificate = files[c.scope].certificate
    BY <2>1, <2>2 DEF TypeOK, Store
  <2>4. cmd'[p].at \notin {"certificate", "remove_credentials"}
    BY <1>2, <1>10, AfterGoto DEF WriteLicense
  <2> QED
    BY <2>1, <2>3, <2>4, OnlyItsOwn DEF HalfWayIsSound, CertificateHasCredentials
<1>11. CASE ReadToRecord(p) \/ ReadToClear(p)
  <2>1. cmd'[p].at \notin {"certificate", "remove_credentials"}
    BY <1>2, <1>11, AfterRead DEF ReadToRecord, ReadToClear
  <2> QED
    BY <1>1, <1>11, <2>1 DEF ReadToRecord, ReadToClear
<1>12. CASE WriteRecorded(p) \/ WriteCleared(p)
  <2>1. c.scope \in Scopes /\ c.list \in SUBSET Licenses
    BY <1>12 DEF WriteRecorded, WriteCleared, CommandIsSound, Running, Steps, TypeOK, CommandState
  <2>2. files' = [files EXCEPT ![c.scope] = [@ EXCEPT !.revoked = c.list]]
    BY <1>12, <2>1, ListWritten DEF WriteRecorded, WriteCleared
  <2>3. /\ files'[c.scope].credentials = files[c.scope].credentials
        /\ files'[c.scope].certificate = files[c.scope].certificate
    BY <2>1, <2>2 DEF TypeOK, Store
  <2>4. cmd'[p].at \notin {"certificate", "remove_credentials"}
    BY <1>2, <1>12 DEF WriteRecorded, WriteCleared
  <2> QED
    BY <2>1, <2>3, <2>4, OnlyItsOwn DEF HalfWayIsSound, CertificateHasCredentials
<1>13. CASE RemoveCertificate(p)
  <2>1. c.scope \in Scopes
    BY <1>13 DEF RemoveCertificate, CommandIsSound, Running, Steps
  <2>2. files' = [files EXCEPT ![c.scope] = [@ EXCEPT !.certificate = None]]
    BY <1>13, <2>1, CertificateWritten DEF RemoveCertificate
  <2>3. files'[c.scope].certificate = None
    BY <2>1, <2>2 DEF TypeOK, Store
  <2>4. cmd'[p].scope = c.scope /\ cmd'[p].at = "remove_credentials"
    BY <1>13, AfterGoto DEF RemoveCertificate
  <2> QED
    BY <2>1, <2>3, <2>4, OnlyItsOwn DEF HalfWayIsSound, CertificateHasCredentials
<1>14. CASE RemoveCredentials(p)
  <2>1. c.scope \in Scopes /\ Running(p)
    BY <1>14 DEF RemoveCredentials, CommandIsSound, Running, Steps
  <2>2. files' = [files EXCEPT ![c.scope] = [@ EXCEPT !.credentials = None]]
    BY <1>14, <2>1, CredentialsWritten DEF RemoveCredentials
  <2>3. c.scope \notin shared => files'[c.scope].certificate = None
    BY <1>14, <2>1, <2>2 DEF RemoveCredentials, HalfWayIsSound, TypeOK, Store
  <2>4. cmd'[p].at \in Ends
    BY <1>14 DEF RemoveCredentials, TypeOK, NoCommand, Ends
  <2> QED
    BY <2>1, <2>3, <2>4, OnlyItsOwn DEF HalfWayIsSound, CertificateHasCredentials, Ends
<1> QED
  BY <1>1, <1>3, <1>4, <1>5, <1>6, <1>7, <1>8, <1>9, <1>10, <1>11, <1>12, <1>13, <1>14
  DEF Command, Starts

\* No command forgets a revocation while no two have met.  The store that remembers
\* x may change with every step, so the lemmas say which it is.
LEMMA OthersRemember ==
    ASSUME TypeOK, NEW p \in Procs, Command(p), CommandIsSound(p), NEW s \in Scopes,
           NEW x, Remembers(s, x), shared' = {}, \A q \in Procs : Apart(p, q),
           Running(p) => cmd[p].scope # s, ~ Running(p)' \/ cmd'[p].scope # s
    PROVE  Remembers(s, x)'
<1>1. \A q \in Procs : q # p => cmd'[q] = cmd[q]
  BY OnlyItsOwn
<1>2. files'[s] = files[s]
  <2>1. CASE \E scope \in Scopes : Starts(p, scope)
    BY <2>1, AfterStart
  <2>2. CASE \A scope \in Scopes : ~ Starts(p, scope)
    BY <2>2, ScopeKept, OnlyItsOwn
  <2> QED
    BY <2>1, <2>2
<1> QED
  BY <1>1, <1>2 DEF Remembers, Running

\* A command that starts forgets no revocation.
LEMMA StartsRemember ==
    ASSUME TypeOK, NEW p \in Procs, NEW scope \in Scopes, Starts(p, scope),
           NEW s \in Scopes, NEW x, Remembers(s, x),
           \A q \in Procs : q # p => cmd'[q] = cmd[q]
    PROVE  Remembers(s, x)'
  BY AfterStart DEF Remembers, Running

\* What a command that has a store for itself has to see to.
LEMMA AloneRemembers ==
    ASSUME NEW p \in Procs, NEW s \in Scopes, NEW x, x \in files'[s].revoked,
           \A q \in Procs : q # p => cmd'[q] = cmd[q],
           \A q \in Procs : q # p /\ Running(q) => cmd[q].scope # s,
           cmd'[p].at \in {"clear", "write_cleared"} => cmd'[p].id # x,
           cmd'[p].at \in {"write_cleared", "write_recorded"} => x \in cmd'[p].list
    PROVE  Remembers(s, x)'
  BY DEF Remembers, Running

\* The store that a command works on remembers what it did, unless it was cleared.
LEMMA ItsStoreRemembers ==
    ASSUME TypeOK, NEW p \in Procs, Command(p), CommandIsSound(p), shared' = {},
           \A q \in Procs : Apart(p, q), Running(p),
           \A scope \in Scopes : ~ Starts(p, scope),
           NEW s \in Scopes, cmd[p].scope = s,
           NEW x, Remembers(s, x), x \in reported'
    PROVE  Remembers(s, x)'
<1> DEFINE c == cmd[p]
<1> USE DEF At
<1>1. /\ c.scope = s /\ x \in files[s].revoked
      /\ c.at \in {"clear", "write_cleared"} => c.id # x
      /\ c.at \in {"write_cleared", "write_recorded"} => x \in c.list
  BY DEF CommandIsSound, Remembers
<1>2. /\ \A q \in Procs : q # p => cmd'[q] = cmd[q]
      /\ \A q \in Procs : q # p /\ Running(q) => cmd[q].scope # s
  BY ScopeKept, OnlyItsOwn DEF Apart
<1>3. ASSUME files'[s].revoked = files[s].revoked,
             cmd'[p].at \notin {"clear", "write_cleared", "write_recorded"}
      PROVE  Remembers(s, x)'
  BY <1>1, <1>2, <1>3, AloneRemembers
<1>4. ASSUME End(p) PROVE cmd'[p].at \notin {"clear", "write_cleared", "write_recorded"}
  BY <1>4, AfterEnd
<1>5. CASE Refused(p) \/ StoreFails(p) \/ Killed(p)
  BY <1>3, <1>4, <1>5 DEF Refused, StoreFails, Killed
<1>6. CASE CallActivate(p)
  <2>1. PICK certificate : GrantActivation(p, certificate)
    BY <1>6 DEF CallActivate
  <2>2. cmd'[p].at \notin {"clear", "write_cleared", "write_recorded"}
    BY <1>4, <2>1 DEF GrantActivation, TypeOK, CommandState
  <2> QED
    BY <1>3, <1>6, <2>2 DEF CallActivate
<1>7. CASE CallDeactivate(p)
  <2>1. cmd'[p].at \notin {"clear", "write_cleared", "write_recorded"}
    BY <1>4, <1>7, AfterGoto DEF CallDeactivate
  <2> QED
    BY <1>3, <1>7, <2>1 DEF CallDeactivate
<1>8. CASE CallRenew(p)
  <2>1. cmd'[p].at \notin {"clear", "write_cleared", "write_recorded"}
    BY <1>8, AfterGoto DEF CallRenew, TypeOK, CommandState
  <2> QED
    BY <1>3, <1>8, <2>1 DEF CallRenew
<1>9. CASE WriteCredentials(p) \/ RemoveCredentials(p)
  <2>1. c.credentials \in Credentials \cup {None}
    BY DEF TypeOK, CommandState
  <2>2. PICK v : files' = [files EXCEPT ![c.scope] = [@ EXCEPT !.credentials = v]]
    <3>1. CASE WriteCredentials(p)
      <4>1. files' = [files EXCEPT ![c.scope] = [@ EXCEPT !.credentials = c.credentials]]
        BY <1>1, <3>1, <2>1, CredentialsWritten DEF WriteCredentials
      <4> QED
        BY <4>1
    <3>2. CASE RemoveCredentials(p)
      <4>1. files' = [files EXCEPT ![c.scope] = [@ EXCEPT !.credentials = None]]
        BY <1>1, <3>2, CredentialsWritten DEF RemoveCredentials
      <4> QED
        BY <4>1
    <3> QED
      BY <1>9, <3>1, <3>2
  <2>3. files'[s].revoked = files[s].revoked
    BY <1>1, <2>2 DEF TypeOK, Store
  <2>4. cmd'[p].at \in Ends \cup {"certificate"}
    <3>1. CASE WriteCredentials(p)
      BY <3>1, AfterGoto DEF WriteCredentials
    <3>2. CASE RemoveCredentials(p)
      BY <3>2 DEF RemoveCredentials, TypeOK, NoCommand, Ends
    <3> QED
      BY <1>9, <3>1, <3>2
  <2> QED
    BY <1>3, <2>3, <2>4 DEF Ends
<1>10. CASE WriteCertificate(p) \/ RemoveCertificate(p)
  <2>1. c.certificate \in Certificate \cup {None}
    BY DEF TypeOK, CommandState
  <2>2. PICK v : files' = [files EXCEPT ![c.scope] = [@ EXCEPT !.certificate = v]]
    <3>1. CASE WriteCertificate(p)
      <4>1. files' = [files EXCEPT ![c.scope] = [@ EXCEPT !.certificate = c.certificate]]
        BY <1>1, <3>1, <2>1, CertificateWritten DEF WriteCertificate
      <4> QED
        BY <4>1
    <3>2. CASE RemoveCertificate(p)
      <4>1. files' = [files EXCEPT ![c.scope] = [@ EXCEPT !.certificate = None]]
        BY <1>1, <3>2, CertificateWritten DEF RemoveCertificate
      <4> QED
        BY <4>1
    <3> QED
      BY <1>10, <3>1, <3>2
  <2>3. files'[s].revoked = files[s].revoked
    BY <1>1, <2>2 DEF TypeOK, Store
  <2>4. cmd'[p].at \in {"license", "remove_credentials"}
    BY <1>10, AfterGoto DEF WriteCertificate, RemoveCertificate
  <2> QED
    BY <1>3, <2>3, <2>4
<1>11. CASE WriteLicense(p)
  <2>1. c.id \in Licenses \cup {None}
    BY DEF TypeOK, CommandState
  <2>2. files' = [files EXCEPT ![c.scope] = [@ EXCEPT !.license = c.id]]
    BY <1>1, <1>11, <2>1, LicenseWritten DEF WriteLicense
  <2>3. files'[s].revoked = files[s].revoked
    BY <1>1, <2>2 DEF TypeOK, Store
  <2>4. \/ End(p)
        \/ cmd'[p].at = "clear" /\ cmd'[p].id = c.id /\ x # c.id
    BY <1>11, AfterGoto DEF WriteLicense
  <2> QED
    BY <1>1, <1>2, <1>3, <1>4, <2>3, <2>4, AloneRemembers
<1>12. CASE ReadToRecord(p)
  <2>1. \/ End(p)
        \/ cmd'[p].at = "write_recorded" /\ x \in cmd'[p].list
    <3>1. \/ End(p)
          \/ cmd' = [cmd EXCEPT ![p].at = "write_recorded",
                                ![p].list = WithRevocation(files[s].revoked, c.id)]
      BY <1>1, <1>12 DEF ReadToRecord
    <3> QED
      BY <1>1, <3>1, AfterRead DEF WithRevocation
  <2>2. files' = files
    BY <1>12 DEF ReadToRecord
  <2> QED
    BY <1>1, <1>2, <1>3, <1>4, <2>1, <2>2, AloneRemembers
<1>13. CASE ReadToClear(p)
  <2>1. \/ End(p)
        \/ cmd'[p].at = "write_cleared" /\ x \in cmd'[p].list /\ cmd'[p].id # x
    <3>1. \/ End(p)
          \/ cmd' = [cmd EXCEPT ![p].at = "write_cleared",
                                ![p].list = WithoutRevocation(files[s].revoked, c.id)]
      BY <1>1, <1>13 DEF ReadToClear
    <3>2. x # c.id /\ x \in WithoutRevocation(files[s].revoked, c.id)
      BY <1>1, <1>13 DEF ReadToClear, WithoutRevocation
    <3> QED
      BY <3>1, <3>2, AfterRead
  <2>2. files' = files
    BY <1>13 DEF ReadToClear
  <2> QED
    BY <1>1, <1>2, <1>3, <1>4, <2>1, <2>2, AloneRemembers
<1>14. CASE WriteRecorded(p) \/ WriteCleared(p)
  <2>1. c.list \in SUBSET Licenses /\ x \in c.list /\ End(p)
    BY <1>1, <1>14 DEF WriteRecorded, WriteCleared, TypeOK, CommandState
  <2>2. files' = [files EXCEPT ![c.scope] = [@ EXCEPT !.revoked = c.list]]
    BY <1>1, <1>14, <2>1, ListWritten DEF WriteRecorded, WriteCleared
  <2>3. x \in files'[s].revoked
    BY <1>1, <2>1, <2>2 DEF TypeOK, Store
  <2> QED
    BY <1>2, <1>1, <1>4, <2>1, <2>3, AloneRemembers
<1> QED
  BY <1>5, <1>6, <1>7, <1>8, <1>9, <1>10, <1>11, <1>12, <1>13, <1>14 DEF Command, Starts

\* No step of a command takes a recorded revocation off every list.
LEMMA ListsPreserved ==
    ASSUME TypeOK, NEW p \in Procs, Command(p), CommandIsSound(p), ListsAreSound,
           \A q \in Procs : Apart(p, q)
    PROVE  ListsAreSound'
<1> DEFINE c == cmd[p]
<1> USE DEF At
<1>1. SUFFICES ASSUME shared' = {} PROVE ListsAreSound'
  BY DEF ListsAreSound
<1>2. /\ \A q \in Procs : q # p => cmd'[q] = cmd[q]
      /\ shared = {}
  BY <1>1, OnlyItsOwn
<1>3. /\ \A x \in reported : \E s \in Scopes : Remembers(s, x)
      /\ \A q \in Procs : At(q, "write_recorded") => cmd[q].id \in cmd[q].list
  BY <1>2 DEF ListsAreSound
<1>4. ASSUME NEW x \in reported, x \in reported' PROVE \E s \in Scopes : Remembers(s, x)'
  <2>1. PICK s \in Scopes : Remembers(s, x)
    BY <1>3
  <2>2. CASE \E scope \in Scopes : Starts(p, scope)
    BY <1>2, <2>1, <2>2, StartsRemember
  <2>3. CASE \A scope \in Scopes : ~ Starts(p, scope)
    <3>1. Running(p) /\ (Running(p)' => cmd'[p].scope = c.scope)
      BY <2>3, ScopeKept
    <3>2. CASE c.scope = s
      BY <1>1, <1>4, <2>1, <2>3, <3>1, <3>2, ItsStoreRemembers
    <3>3. CASE c.scope # s
      <4>1. ~ Running(p)' \/ cmd'[p].scope # s
        BY <3>1, <3>3
      <4> QED
        BY <1>1, <2>1, <3>3, <4>1, OthersRemember
    <3> QED
      BY <3>2, <3>3
  <2> QED
    BY <2>2, <2>3
\* A revocation that is new among the reported ones is on the list of its store.
<1>5. ASSUME NEW x \in reported', x \notin reported PROVE \E s \in Scopes : Remembers(s, x)'
  <2>1. \A scope \in Scopes : ~ Starts(p, scope)
    BY <1>5, AfterStart
  <2>2. Running(p)
    BY <2>1, ScopeKept
  <2>3. CASE ReadToRecord(p) \/ WriteRecorded(p)
    <3>1. x = c.id /\ End(p) /\ c.scope \in Scopes
      BY <1>5, <2>2, <2>3 DEF ReadToRecord, WriteRecorded, CommandIsSound
    <3>2. x \in files'[c.scope].revoked
      <4>1. CASE ReadToRecord(p)
        BY <1>5, <3>1, <4>1 DEF ReadToRecord
      <4>2. CASE WriteRecorded(p)
        <5>1. c.list \in SUBSET Licenses /\ x \in c.list
          BY <1>3, <3>1, <4>2 DEF WriteRecorded, TypeOK, CommandState
        <5>2. files' = [files EXCEPT ![c.scope] = [@ EXCEPT !.revoked = c.list]]
          BY <3>1, <4>2, <5>1, ListWritten DEF WriteRecorded
        <5> QED
          BY <3>1, <5>1, <5>2 DEF TypeOK, Store
      <4> QED
        BY <2>3, <4>1, <4>2
    <3>3. \A q \in Procs : q # p /\ Running(q) => cmd[q].scope # c.scope
      BY <1>2, <2>2 DEF Apart
    <3>4. cmd'[p].at = "idle"
      BY <3>1, AfterEnd
    <3>5. PICK s \in Scopes : s = c.scope
      BY <3>1
    <3>6. Remembers(s, x)'
      BY <1>2, <3>2, <3>3, <3>4, <3>5, AloneRemembers
    <3> QED
      BY <3>6
  <2>4. CASE ~ (ReadToRecord(p) \/ WriteRecorded(p))
    <3>1. reported' \subseteq reported
      BY <2>1, <2>4
      DEF Command, Starts, Refused, CallActivate, CallDeactivate, CallRenew, WriteCredentials,
          WriteCertificate, WriteLicense, ReadToClear, WriteCleared, RemoveCertificate,
          RemoveCredentials, StoreFails, Killed, historyVars
    <3> QED
      BY <1>5, <3>1
  <2> QED
    BY <2>3, <2>4
<1>6. cmd'[p].at = "write_recorded" => cmd'[p].id \in cmd'[p].list
  <2>1. CASE ReadToRecord(p)
    <3>1. \/ End(p)
          \/ cmd' = [cmd EXCEPT ![p].at = "write_recorded",
                                ![p].list = WithRevocation(files[c.scope].revoked, c.id)]
      BY <2>1 DEF ReadToRecord
    <3> QED
      BY <3>1, AfterRead, AfterEnd DEF WithRevocation
  <2>2. CASE \E scope \in Scopes : Starts(p, scope)
    BY <2>2, AfterStart
  <2>3. CASE CallActivate(p)
    <3>1. PICK certificate : GrantActivation(p, certificate)
      BY <2>3 DEF CallActivate
    <3>2. cmd'[p].at # "write_recorded"
      BY <3>1, AfterEnd DEF GrantActivation, TypeOK, CommandState
    <3> QED
      BY <3>2
  <2>4. CASE CallRenew(p)
    <3>1. cmd'[p].at # "write_recorded"
      BY <2>4, AfterGoto DEF CallRenew, TypeOK, CommandState
    <3> QED
      BY <3>1
  <2>5. CASE ReadToClear(p)
    <3>1. CASE End(p)
      BY <3>1, AfterEnd
    <3>2. CASE ~ End(p)
      BY <2>5, <3>2, AfterRead DEF ReadToClear
    <3> QED
      BY <3>1, <3>2
  <2>6. CASE RemoveCredentials(p)
    BY <2>6 DEF RemoveCredentials, TypeOK, NoCommand
  <2>7. CASE \/ Refused(p) \/ CallDeactivate(p) \/ WriteCredentials(p) \/ WriteCertificate(p)
             \/ WriteLicense(p) \/ WriteRecorded(p) \/ WriteCleared(p)
             \/ RemoveCertificate(p) \/ StoreFails(p) \/ Killed(p)
    BY <2>7, AfterGoto, AfterEnd
    DEF Refused, CallDeactivate, WriteCredentials, WriteCertificate, WriteLicense,
        WriteRecorded, WriteCleared, RemoveCertificate, StoreFails, Killed
  <2> QED
    BY <2>1, <2>2, <2>3, <2>4, <2>5, <2>6, <2>7 DEF Command, Starts
<1> QED
  BY <1>2, <1>3, <1>4, <1>5, <1>6 DEF ListsAreSound

-----------------------------------------------------------------------------
(* The invariant. *)

\* The stores a machine starts with.
LEMMA InitInv == Init => IInv
<1> SUFFICES ASSUME Init PROVE IInv
  OBVIOUS
<1>1. TypeOK
  <2>1. files \in [Scopes -> Store]
    BY DEF Init, Store, EmptyStore
  <2> QED
    BY <2>1, NoCommandIsOne, CommandsAssumption DEF Init, TypeOK
<1>2. \A p \in Procs : cmd[p] = NoCommand /\ ~ Running(p) /\ cmd[p].at = "idle"
  BY DEF Init, NoCommand, Running, Steps
<1>3. \A p \in Procs : CommandIsSound(p) /\ HalfWayIsSound(p)
  BY <1>2 DEF CommandIsSound, HalfWayIsSound, At
<1>4. \A p, q \in Procs : Apart(p, q)
  BY <1>2 DEF Apart
<1>5. CertificateHasCredentials
  BY DEF Init, CertificateHasCredentials, EmptyStore
<1>6. ListsAreSound
  BY <1>2 DEF Init, ListsAreSound, At
<1> QED
  BY <1>1, <1>3, <1>4, <1>5, <1>6 DEF IInv

\* What happens elsewhere touches at most the system store's list, and adds to it.
LEMMA ElsewhereInv == IInv /\ Elsewhere => IInv'
<1> SUFFICES ASSUME IInv, Elsewhere PROVE IInv'
  OBVIOUS
<1> USE DEF IInv
<1>1. UNCHANGED <<cmd, commands, shared, reported, abandoned>> /\ withdrawn' \subseteq Licenses
  BY DEF Elsewhere, Withdraw, Reinstate, PortalRelease, AdminRevokes, TypeOK, historyVars,
         serverVars
<1>2. \/ files' = files
      \/ \E id \in Licenses :
            files' = [files EXCEPT !["system"].revoked = @ \cup {id}]
  BY ZenonT(30) DEF Elsewhere, Withdraw, Reinstate, PortalRelease, AdminRevokes
<1>3. /\ files' \in [Scopes -> Store]
      /\ \A s \in Scopes : /\ files'[s].certificate = files[s].certificate
                          /\ files'[s].credentials = files[s].credentials
                          /\ files[s].revoked \subseteq files'[s].revoked
  <2>1. CASE files' = files
    BY <2>1 DEF TypeOK
  <2>2. ASSUME NEW id \in Licenses,
               files' = [files EXCEPT !["system"].revoked = @ \cup {id}]
        PROVE  <1>3
    <3>1. files["system"] \in Store /\ files["system"].revoked \cup {id} \in SUBSET Licenses
      BY DEF TypeOK, Scopes, Store
    <3> DEFINE list == files["system"].revoked \cup {id}
               new == [files["system"] EXCEPT !.revoked = list]
    <3>2. new \in Store
      BY <3>1, StoreFields
    <3>3. files' = [files EXCEPT !["system"] = new]
      BY <2>2
    <3>4. /\ new.certificate = files["system"].certificate
          /\ new.credentials = files["system"].credentials
          /\ files["system"].revoked \subseteq new.revoked
      BY <3>1 DEF Store
    <3> HIDE DEF new
    <3> QED
      BY <3>2, <3>3, <3>4 DEF TypeOK
  <2> QED
    BY <1>2, <2>1, <2>2
<1>4. TypeOK'
  BY <1>1, <1>3 DEF TypeOK
<1>5. \A p \in Procs : CommandIsSound(p)' /\ HalfWayIsSound(p)'
  BY <1>1, <1>3 DEF CommandIsSound, HalfWayIsSound, At, Running
<1>6. \A p, q \in Procs : Apart(p, q)'
  BY <1>1 DEF Apart, Running
<1>7. CertificateHasCredentials'
  BY <1>1, <1>3 DEF CertificateHasCredentials
<1>8. ListsAreSound'
  BY <1>1, <1>3 DEF ListsAreSound, Remembers, At, Running
<1> QED
  BY <1>4, <1>5, <1>6, <1>7, <1>8

\* Every step of a command keeps the invariant.
LEMMA CommandInv == ASSUME IInv, NEW p \in Procs, Command(p) PROVE IInv'
<1> USE DEF IInv
<1>1. \A q \in Procs : CommandIsSound(q)' /\ HalfWayIsSound(q)'
  <2>1. CommandIsSound(p)' /\ HalfWayIsSound(p)'
    BY CommandSound, StoreSound
  <2>2. ASSUME NEW q \in Procs, q # p PROVE CommandIsSound(q)' /\ HalfWayIsSound(q)'
    <3>1. cmd'[q] = cmd[q]
      BY <2>2, OnlyItsOwn
    <3> QED
      BY <2>2, <3>1, OthersHalfWay DEF CommandIsSound, At, Running
  <2> QED
    BY <2>1, <2>2
<1> QED
  BY <1>1, CommandType, StoreSound, ApartPreserved, ListsPreserved

\* The inductive invariant: where each command stands, and what the store it works on
\* still has and still remembers there.
THEOREM Invariance == Spec => []IInv
<1>1. IInv /\ [Next]_vars => IInv'
  <2> SUFFICES ASSUME IInv, [Next]_vars PROVE IInv'
    OBVIOUS
  <2>1. CASE UNCHANGED vars
    BY <2>1
    DEF vars, IInv, TypeOK, CommandIsSound, HalfWayIsSound, Apart, CertificateHasCredentials,
        ListsAreSound, Remembers, At, Running, serverVars, historyVars
  <2>2. CASE Next
    BY <2>2, ElsewhereInv, CommandInv DEF Next
  <2> QED
    BY <2>1, <2>2
<1> QED
  BY <1>1, InitInv, PTL DEF Spec

\* store.rs:238-261: wherever a command is killed or fails, a store that no two
\* commands worked on at once has no certificate without its credentials.
THEOREM CertificateHasCredentialsHolds == Spec => []CertificateHasCredentials
<1>1. IInv => CertificateHasCredentials
  BY DEF IInv
<1> QED
  BY <1>1, Invariance, PTL

\* LICENSING.md:148-149: a licence that renew found revoked stays out of use until the
\* server has issued it again.
THEOREM RevokedIsNotUsedHolds == Spec => []RevokedIsNotUsed
<1>1. IInv => RevokedIsNotUsed
  BY DEF IInv, RevokedIsNotUsed, ListsAreSound, Remembers, Entitled, RevokedLicenseIds
<1> QED
  BY <1>1, Invariance, PTL

-----------------------------------------------------------------------------
(* What is written is what was granted, and what is cleared is no longer listed. *)

WritesWhatIsGranted(p) ==
    /\ cmd[p].at \in {"credentials", "certificate"} => Activates(cmd[p].certificate, cmd[p].id)
    /\ At(p, "write_cleared") => cmd[p].id \notin cmd[p].list

-----------------------------------------------------------------------------
(* Seats: who can release an activation that is active. *)

\* c releases the activation a, as the server has it now.
Releases(c, a) == c # None /\ c.activation = a /\ c.secret = activations[a].secret
IsTaken(a) == activations[a].status = "active"

ServerInv ==
    /\ activations \in [Activation -> [license : Licenses \cup {None},
                                       status  : {"unused", "active", "inactive"},
                                       secret  : 0 .. MaxCommands]]
    /\ \A a \in Activation : activations[a].status = "unused" => activations[a].secret = 0
    /\ mishaps \in Nat

\* Secrets are numbered as the commands are, no two commands have the same one, and
\* one that has not been sent yet is nowhere else.
Awaits(p) == At(p, "call") /\ cmd[p].verb = "activate"
SecretsInv ==
    /\ \A s \in Scopes : files[s].credentials # None => files[s].credentials.secret <= commands
    /\ \A p \in Procs :
          /\ cmd[p].secret <= commands
          /\ cmd[p].credentials # None => cmd[p].credentials.secret <= commands
    /\ \A p, q \in Procs : p # q /\ cmd[p].secret = cmd[q].secret => cmd[p].secret = 0
    /\ \A p \in Procs : Awaits(p) =>
          /\ \A s \in Scopes :
                files[s].credentials # None => files[s].credentials.secret # cmd[p].secret
          /\ \A q \in Procs : q # p /\ cmd[q].credentials # None =>
                cmd[q].credentials.secret # cmd[p].secret

\* A command that has credentials has read them from its store, unless they are new;
\* it cleans up only after a seat that is free, and what it replaces does not release
\* the same seat.
New(p) == At(p, "credentials") /\ cmd[p].verb = "activate"
HasItsStores(p) ==
    Running(p) /\ cmd[p].credentials # None /\ ~ New(p) =>
        files[cmd[p].scope].credentials = cmd[p].credentials
CleansUpFree(p) ==
    cmd[p].at \in {"remove_certificate", "remove_credentials"} =>
        /\ cmd[p].credentials # None
        /\ activations[cmd[p].credentials.activation].status = "inactive"
ReplacesOld(p) ==
    At(p, "credentials") =>
        LET old == files[cmd[p].scope].credentials
            a   == cmd[p].credentials.activation
        IN  IsTaken(a) /\ Releases(old, a) => old = cmd[p].credentials
StoresInv ==
    /\ \A p \in Procs : At(p, "call") /\ cmd[p].verb = "deactivate" => cmd[p].credentials # None
    /\ shared = {} => \A p \in Procs : HasItsStores(p) /\ CleansUpFree(p) /\ ReplacesOld(p)

\* As long as nothing goes wrong, a seat that is taken can be released with what a
\* store has, or with what a command is about to write there.
SeatsAreHeld ==
    mishaps = 0 /\ shared = {} =>
        \A a \in Activation \ abandoned : IsTaken(a) =>
            \/ \E s \in Scopes : Releases(files[s].credentials, a)
            \/ \E p \in Procs : At(p, "credentials") /\ Releases(cmd[p].credentials, a)

SeatInv == ServerInv /\ SecretsInv /\ StoresInv /\ SeatsAreHeld

\* Which steps a command can take is decided by where it is.
LEMMA StepsOf ==
    ASSUME NEW p \in Procs, Command(p), Running(p)
    PROVE  /\ At(p, "credentials") => WriteCredentials(p) \/ StoreFails(p) \/ Killed(p)
           /\ At(p, "certificate") => WriteCertificate(p) \/ StoreFails(p) \/ Killed(p)
           /\ At(p, "license") => WriteLicense(p) \/ StoreFails(p) \/ Killed(p)
           /\ At(p, "write_cleared") => WriteCleared(p) \/ StoreFails(p) \/ Killed(p)
  BY DEF Command, StartInstall, StartActivate, StartDeactivate, StartRenew, Start, Refused,
         CallActivate, CallDeactivate, CallRenew, WriteCredentials, WriteCertificate,
         WriteLicense, ReadToRecord, ReadToClear, WriteRecorded, WriteCleared,
         RemoveCertificate, RemoveCredentials, At

\* A command keeps what it was granted until it is written.
LEMMA GrantedKept ==
    ASSUME IInv, NEW p \in Procs, WritesWhatIsGranted(p), Command(p)
    PROVE  WritesWhatIsGranted(p)'
<1> DEFINE c == cmd[p]
<1> USE DEF At
<1>1. TypeOK /\ cmd \in [Procs -> CommandState] /\ CommandIsSound(p)
  BY DEF IInv, TypeOK
<1>2. ASSUME cmd'[p].at \notin {"credentials", "certificate", "write_cleared"}
      PROVE  WritesWhatIsGranted(p)'
  BY <1>2 DEF WritesWhatIsGranted
<1>3. ASSUME End(p) PROVE cmd'[p].at = "idle"
  BY <1>1, <1>3, AfterEnd
<1>4. ASSUME NEW scope \in Scopes, Starts(p, scope) PROVE WritesWhatIsGranted(p)'
  BY <1>1, <1>2, <1>4, AfterStart
<1>5. CASE Refused(p) \/ StoreFails(p) \/ Killed(p) \/ WriteRecorded(p) \/ WriteCleared(p)
  BY <1>2, <1>3, <1>5 DEF Refused, StoreFails, Killed, WriteRecorded, WriteCleared
<1>6. CASE CallActivate(p)
  <2>1. PICK certificate : /\ GrantActivation(p, certificate)
                           /\ certificate = None \/ Activates(certificate, c.id)
    <3>1. CASE RequiresActivation(c.id)
      <4>1. PICK a \in Allocated(c.id) :
                   GrantActivation(p, [activation |-> a, license |-> c.id])
        BY <1>6, <3>1 DEF CallActivate
      <4>2. PICK new : new = [activation |-> a, license |-> c.id]
        OBVIOUS
      <4>3. new \in Certificate /\ new.license = c.id
        BY <1>1, <1>6, <4>2 DEF Allocated, Certificate, CallActivate, CommandIsSound
      <4> QED
        BY <4>1, <4>2, <4>3, CommandsAssumption DEF Activates
    <3>2. CASE ~ RequiresActivation(c.id)
      BY <1>6, <3>2 DEF CallActivate
    <3> QED
      BY <3>1, <3>2
  <2>2. CASE End(p)
    BY <1>2, <1>3, <2>2
  <2>3. CASE ~ End(p) /\ certificate = None
    <3>1. cmd'[p].at = "license"
      BY <1>1, <2>1, <2>3 DEF GrantActivation, CommandState
    <3> QED
      BY <1>2, <3>1
  <2>4. CASE ~ End(p) /\ certificate # None
    <3>1. cmd'[p].at = "credentials" /\ cmd'[p].certificate = certificate /\ cmd'[p].id = c.id
      BY <1>1, <2>1, <2>4 DEF GrantActivation, CommandState
    <3> QED
      BY <2>1, <2>4, <3>1 DEF WritesWhatIsGranted
  <2> QED
    BY <2>2, <2>3, <2>4
<1>7. CASE CallRenew(p)
  <2>1. CASE Goto(p, "record") \/ Goto(p, "remove_certificate")
    BY <1>1, <1>2, <2>1, AfterGoto
  <2>2. CASE c.credentials = None /\ ~ (Goto(p, "record") \/ Goto(p, "remove_certificate"))
    <3>1. cmd'[p].at = "license"
      BY <1>1, <1>7, <2>2 DEF CallRenew, CommandState
    <3> QED
      BY <1>2, <3>1
  <2>3. CASE c.credentials # None /\ ~ (Goto(p, "record") \/ Goto(p, "remove_certificate"))
    <3>1. PICK again : again = [activation |-> c.credentials.activation, license |-> c.id]
      OBVIOUS
    <3>2. cmd' = [cmd EXCEPT ![p].at = "credentials", ![p].certificate = again]
      BY <1>7, <2>3, <3>1 DEF CallRenew
    <3>3. cmd'[p].at = "credentials" /\ cmd'[p].certificate = again /\ cmd'[p].id = c.id
      BY <1>1, <3>2 DEF CommandState
    <3>4. again \in Certificate /\ again.license = c.id
      BY <1>1, <1>7, <2>3, <3>1, CommandStates
      DEF Certificate, Credentials, CallRenew, CommandIsSound
    <3> QED
      BY <3>3, <3>4, CommandsAssumption DEF WritesWhatIsGranted, Activates
  <2> QED
    BY <2>1, <2>2, <2>3
<1>8. CASE WriteCredentials(p)
  <2>1. cmd'[p].at = "certificate" /\ cmd'[p].id = c.id /\ cmd'[p].certificate = c.certificate
    BY <1>1, <1>8 DEF WriteCredentials, Goto, CommandState
  <2> QED
    BY <1>8, <2>1 DEF WriteCredentials, WritesWhatIsGranted
<1>9. CASE CallDeactivate(p) \/ WriteCertificate(p) \/ WriteLicense(p) \/ RemoveCertificate(p)
  <2>1. cmd'[p].at \in {"idle", "remove_certificate", "license", "clear", "remove_credentials"}
    BY <1>1, <1>3, <1>9, AfterGoto
    DEF CallDeactivate, WriteCertificate, WriteLicense, RemoveCertificate
  <2> QED
    BY <1>2, <2>1
<1>10. CASE ReadToRecord(p)
  <2>1. cmd'[p].at \in {"idle", "write_recorded"}
    BY <1>1, <1>3, <1>10, AfterRead DEF ReadToRecord
  <2> QED
    BY <1>2, <2>1
<1>11. CASE ReadToClear(p)
  <2>1. CASE End(p)
    BY <1>2, <1>3, <2>1
  <2>2. CASE ~ End(p)
    <3>1. PICK list : list = WithoutRevocation(files[c.scope].revoked, c.id)
      OBVIOUS
    <3>2. cmd'[p].at = "write_cleared" /\ cmd'[p].list = list /\ cmd'[p].id = c.id
      BY <1>1, <1>11, <2>2, <3>1, AfterRead DEF ReadToClear
    <3> QED
      BY <3>1, <3>2 DEF WithoutRevocation, WritesWhatIsGranted
  <2> QED
    BY <2>1, <2>2
<1>12. CASE RemoveCredentials(p)
  <2>1. cmd'[p].at \in Ends
    BY <1>1, <1>12 DEF RemoveCredentials, NoCommand, Ends, CommandState
  <2> QED
    BY <1>2, <2>1 DEF Ends
<1> QED
  BY <1>4, <1>5, <1>6, <1>7, <1>8, <1>9, <1>10, <1>11, <1>12 DEF Command, Starts

\* No step of any command, and none elsewhere, touches what a command was granted.
LEMMA GrantedKeptByAll ==
    IInv /\ (\A p \in Procs : WritesWhatIsGranted(p)) /\ [Next]_vars
        => \A p \in Procs : WritesWhatIsGranted(p)'
<1> SUFFICES ASSUME IInv, \A p \in Procs : WritesWhatIsGranted(p), [Next]_vars,
                    NEW p \in Procs
             PROVE  WritesWhatIsGranted(p)'
  OBVIOUS
<1>1. CASE cmd'[p] = cmd[p]
  BY <1>1 DEF WritesWhatIsGranted, At
<1>2. CASE Command(p)
  BY <1>2, GrantedKept
<1>3. ASSUME NEW q \in Procs, q # p, Command(q) PROVE cmd'[p] = cmd[p]
  BY <1>3, OnlyItsOwn DEF IInv
<1>4. CASE Elsewhere \/ UNCHANGED vars
  BY <1>1, <1>4 DEF Elsewhere, vars
<1> QED
  BY <1>1, <1>2, <1>3, <1>4 DEF Next

\* The step that a command takes while it writes what it was granted.
LEMMA NothingTakenAway ==
    ASSUME IInv, NEW p \in Procs, WritesWhatIsGranted(p), Command(p),
           cmd[p].at \in {"credentials", "certificate", "license", "write_cleared"},
           cmd[p].id \in Entitled(files)
    PROVE  cmd[p].id \in Entitled(files')
<1> DEFINE c == cmd[p]
<1> USE DEF At
<1>1. /\ TypeOK /\ c \in CommandState /\ c.scope \in Scopes /\ Running(p)
      /\ files \in [Scopes -> Store]
  BY DEF IInv, TypeOK, CommandIsSound, Running, Steps
<1>2. /\ c.id \in Licenses
      /\ \E s \in Scopes : files[s].license = c.id
      /\ \A s \in Scopes : c.id \notin files[s].revoked
      /\ RequiresActivation(c.id) => \E s \in Scopes : Activates(files[s].certificate, c.id)
  BY DEF Entitled, RevokedLicenseIds
<1>3. ASSUME \A s \in Scopes :
                /\ files[s].license = c.id => files'[s].license = c.id
                /\ c.id \notin files'[s].revoked
                /\ Activates(files[s].certificate, c.id) => Activates(files'[s].certificate, c.id)
      PROVE  c.id \in Entitled(files')
  <2>1. \E s \in Scopes : files'[s].license = c.id
    BY <1>2, <1>3
  <2>2. c.id \notin RevokedLicenseIds(files')
    BY <1>3 DEF RevokedLicenseIds
  <2>3. RequiresActivation(c.id) => \E s \in Scopes : Activates(files'[s].certificate, c.id)
    BY <1>2, <1>3
  <2> QED
    BY <1>2, <2>1, <2>2, <2>3 DEF Entitled
<1>4. \A s \in Scopes : s # c.scope => files'[s] = files[s]
  BY <1>1, OnlyItsOwn
<1>5. CASE StoreFails(p) \/ Killed(p)
  BY <1>5 DEF StoreFails, Killed
<1>6. CASE WriteCredentials(p)
  <2>1. files' = [files EXCEPT ![c.scope] = [@ EXCEPT !.credentials = c.credentials]]
    BY <1>1, <1>6, CommandStates, CredentialsWritten DEF WriteCredentials
  <2>2. /\ files'[c.scope].license = files[c.scope].license
        /\ files'[c.scope].revoked = files[c.scope].revoked
        /\ files'[c.scope].certificate = files[c.scope].certificate
    BY <1>1, <2>1 DEF Store
  <2> QED
    BY <1>2, <1>3, <1>4, <2>2
<1>7. CASE WriteCertificate(p)
  <2>1. files' = [files EXCEPT ![c.scope] = [@ EXCEPT !.certificate = c.certificate]]
    BY <1>1, <1>7, CommandStates, CertificateWritten DEF WriteCertificate
  <2>2. /\ files'[c.scope].license = files[c.scope].license
        /\ files'[c.scope].revoked = files[c.scope].revoked
        /\ files'[c.scope].certificate = c.certificate
    BY <1>1, <2>1 DEF Store
  <2>3. Activates(c.certificate, c.id)
    BY <1>7 DEF WriteCertificate, WritesWhatIsGranted
  <2> QED
    BY <1>2, <1>3, <1>4, <2>2, <2>3
<1>8. CASE WriteLicense(p)
  <2>1. files' = [files EXCEPT ![c.scope] = [@ EXCEPT !.license = c.id]]
    BY <1>1, <1>8, CommandStates, LicenseWritten DEF WriteLicense
  <2>2. /\ files'[c.scope].license = c.id
        /\ files'[c.scope].revoked = files[c.scope].revoked
        /\ files'[c.scope].certificate = files[c.scope].certificate
    BY <1>1, <2>1 DEF Store
  <2> QED
    BY <1>2, <1>3, <1>4, <2>2
<1>9. CASE WriteCleared(p)
  <2>1. files' = [files EXCEPT ![c.scope] = [@ EXCEPT !.revoked = c.list]]
    BY <1>1, <1>9, CommandStates, ListWritten DEF WriteCleared
  <2>2. /\ files'[c.scope].license = files[c.scope].license
        /\ files'[c.scope].revoked = c.list
        /\ files'[c.scope].certificate = files[c.scope].certificate
    BY <1>1, <2>1 DEF Store
  <2>3. c.id \notin c.list
    BY <1>9 DEF WriteCleared, WritesWhatIsGranted
  <2> QED
    BY <1>2, <1>3, <1>4, <2>2, <2>3
<1> QED
  BY <1>1, <1>5, <1>6, <1>7, <1>8, <1>9, StepsOf

\* LICENSING.md:143-144: at no step of a renewal or of a new activation is a licence
\* unusable that was usable before.
THEOREM NeverInterruptedHolds == Spec => NeverInterrupted
<1> DEFINE Granted == \A p \in Procs : WritesWhatIsGranted(p)
           Uninterrupted ==
              \A p \in Procs :
                 /\ cmd[p].verb \in {"activate", "renew"} /\ cmd[p].scope \notin shared
                 /\ cmd[p].at \in {"credentials", "certificate", "license", "write_cleared"}
                 /\ cmd'[p] # cmd[p]
                 /\ cmd[p].id \in Entitled(files)
                 => cmd[p].id \in Entitled(files')
<1>1. Init => Granted
  BY DEF Init, WritesWhatIsGranted, At, NoCommand
<1>2. IInv /\ Granted /\ [Next]_vars => Granted'
  BY GrantedKeptByAll
<1>3. IInv /\ Granted /\ [Next]_vars => Uninterrupted
  <2> SUFFICES ASSUME IInv, Granted, [Next]_vars, NEW p \in Procs, cmd'[p] # cmd[p],
                      cmd[p].at \in {"credentials", "certificate", "license", "write_cleared"},
                      cmd[p].id \in Entitled(files)
               PROVE  cmd[p].id \in Entitled(files')
    OBVIOUS
  <2>1. \A q \in Procs : q # p => ~ Command(q)
    BY OnlyItsOwn DEF IInv
  <2>2. Command(p)
    BY <2>1 DEF Next, Elsewhere, vars
  <2> QED
    BY <2>2, NothingTakenAway
<1>4. NeverInterrupted <=> [][Uninterrupted]_vars
  BY DEF NeverInterrupted
<1> HIDE DEF Granted, Uninterrupted
<1> QED
  BY <1>1, <1>2, <1>3, <1>4, Invariance, PTL DEF Spec

-----------------------------------------------------------------------------
(* Seats. *)

\* What a step that sends no secret and starts nothing does to what seats depend on.
LEMMA AfterStep ==
    ASSUME IInv, StoresInv, NEW p \in Procs, Command(p), ~ CallActivate(p),
           \A scope \in Scopes : ~ Starts(p, scope), mishaps \in Nat
    PROVE  /\ commands' = commands /\ abandoned \subseteq abandoned'
           /\ mishaps' \in {mishaps, mishaps + 1}
           /\ cmd'[p].secret \in {0, cmd[p].secret}
           /\ cmd'[p].credentials \in {None, cmd[p].credentials}
           /\ cmd'[p].at # "call"
           /\ Running(p)' => /\ cmd'[p].verb = cmd[p].verb
                             /\ cmd'[p].credentials = cmd[p].credentials
           /\ At(p, "credentials")' => CallRenew(p) /\ cmd[p].credentials # None
           /\ At(p, "remove_certificate")' => CallDeactivate(p) \/ CallRenew(p)
           /\ At(p, "remove_credentials")' => RemoveCertificate(p)
           /\ At(p, "credentials") /\ mishaps' = mishaps => WriteCredentials(p)
           /\ ~ WriteCredentials(p) /\ ~ RemoveCredentials(p) =>
                 \A s \in Scopes : files'[s].credentials = files[s].credentials
           /\ ~ CallDeactivate(p) => activations' = activations
<1> DEFINE c == cmd[p]
<1> USE DEF At, serverVars, historyVars
<1>1. /\ TypeOK /\ c \in CommandState /\ files \in [Scopes -> Store]
      /\ Running(p) => c.scope \in Scopes
  BY DEF IInv, TypeOK, CommandIsSound
<1>2. NoCommand.secret = 0 /\ NoCommand.credentials = None /\ NoCommand.at = "idle"
  BY DEF NoCommand
<1>3. ASSUME End(p) PROVE cmd'[p] = NoCommand /\ ~ Running(p)'
  BY <1>1, <1>3, AfterEnd DEF End, TypeOK
<1>4. CASE Refused(p)
  BY <1>2, <1>3, <1>4 DEF Refused, WriteCredentials
<1>5. CASE StoreFails(p) \/ Killed(p)
  BY <1>2, <1>3, <1>5 DEF StoreFails, Killed, Mishap
<1>6. CASE CallDeactivate(p)
  BY <1>2, <1>3, <1>6, AfterGoto, <1>1 DEF CallDeactivate, Mishap
<1>7. CASE CallRenew(p)
  <2>1. CASE Goto(p, "record") \/ Goto(p, "remove_certificate")
    BY <1>1, <1>7, <2>1, AfterGoto DEF CallRenew
  <2>2. CASE ~ (Goto(p, "record") \/ Goto(p, "remove_certificate"))
    <3>1. /\ cmd'[p].at = IF c.credentials # None THEN "credentials" ELSE "license"
          /\ cmd'[p].credentials = c.credentials /\ cmd'[p].secret = c.secret
          /\ cmd'[p].verb = c.verb
      BY <1>1, <1>7, <2>2 DEF CallRenew, TypeOK, CommandState
    <3> QED
      BY <1>7, <3>1 DEF CallRenew
  <2> QED
    BY <2>1, <2>2
<1>8. CASE WriteCredentials(p)
  BY <1>1, <1>8, AfterGoto DEF WriteCredentials
<1>9. CASE WriteCertificate(p)
  <2>1. files' = [files EXCEPT ![c.scope] = [@ EXCEPT !.certificate = c.certificate]]
    BY <1>1, <1>9, CommandStates, CertificateWritten DEF WriteCertificate, Running, Steps
  <2>2. \A s \in Scopes : files'[s].credentials = files[s].credentials
    BY <1>1, <2>1 DEF Store
  <2> QED
    BY <1>1, <1>9, <2>2, AfterGoto DEF WriteCertificate
<1>10. CASE WriteLicense(p)
  <2>1. files' = [files EXCEPT ![c.scope] = [@ EXCEPT !.license = c.id]]
    BY <1>1, <1>10, CommandStates, LicenseWritten DEF WriteLicense, Running, Steps
  <2>2. \A s \in Scopes : files'[s].credentials = files[s].credentials
    BY <1>1, <2>1 DEF Store
  <2> QED
    BY <1>1, <1>2, <1>3, <1>10, <2>2, AfterGoto DEF WriteLicense
<1>11. CASE ReadToRecord(p) \/ ReadToClear(p)
  BY <1>1, <1>2, <1>3, <1>11, AfterRead DEF ReadToRecord, ReadToClear
<1>12. CASE WriteRecorded(p) \/ WriteCleared(p)
  <2>1. files' = [files EXCEPT ![c.scope] = [@ EXCEPT !.revoked = c.list]]
    BY <1>1, <1>12, CommandStates, ListWritten DEF WriteRecorded, WriteCleared, Running, Steps
  <2>2. \A s \in Scopes : files'[s].credentials = files[s].credentials
    BY <1>1, <2>1 DEF Store
  <2> QED
    BY <1>2, <1>3, <1>12, <2>2 DEF WriteRecorded, WriteCleared
<1>13. CASE RemoveCertificate(p)
  <2>1. files' = [files EXCEPT ![c.scope] = [@ EXCEPT !.certificate = None]]
    BY <1>1, <1>13, CertificateWritten DEF RemoveCertificate, Running, Steps
  <2>2. \A s \in Scopes : files'[s].credentials = files[s].credentials
    BY <1>1, <2>1 DEF Store
  <2> QED
    BY <1>1, <1>13, <2>2, AfterGoto DEF RemoveCertificate
<1>14. CASE RemoveCredentials(p)
  <2>1. /\ cmd'[p].at \in Ends /\ cmd'[p].secret = 0
        /\ cmd'[p].credentials = c.credentials
    BY <1>1, <1>14 DEF RemoveCredentials, TypeOK, NoCommand, Ends
  <2> QED
    BY <1>14, <2>1 DEF RemoveCredentials, Running, Steps, Ends
<1> QED
  BY <1>4, <1>5, <1>6, <1>7, <1>8, <1>9, <1>10, <1>11, <1>12, <1>13, <1>14 DEF Command, Starts

\* What the two steps that change credentials leave in the store.
LEMMA CredentialsAfter ==
    ASSUME IInv, NEW p \in Procs, WriteCredentials(p) \/ RemoveCredentials(p)
    PROVE  /\ cmd[p].scope \in Scopes /\ Running(p)
           /\ files'[cmd[p].scope].credentials
                = IF WriteCredentials(p) THEN cmd[p].credentials ELSE None
           /\ \A s \in Scopes : s # cmd[p].scope => files'[s] = files[s]
<1> DEFINE c == cmd[p]
<1>1. /\ TypeOK /\ c \in CommandState /\ files \in [Scopes -> Store]
      /\ c.at \in {"credentials", "remove_credentials"} => c.scope \in Scopes /\ Running(p)
  BY DEF IInv, TypeOK, CommandIsSound, Running, Steps
<1>2. CASE WriteCredentials(p)
  <2>1. files' = [files EXCEPT ![c.scope] = [@ EXCEPT !.credentials = c.credentials]]
    BY <1>1, <1>2, CommandStates, CredentialsWritten DEF WriteCredentials, At
  <2> QED
    BY <1>1, <1>2, <2>1 DEF Store, WriteCredentials, At
<1>3. CASE RemoveCredentials(p) /\ ~ WriteCredentials(p)
  <2>1. files' = [files EXCEPT ![c.scope] = [@ EXCEPT !.credentials = None]]
    BY <1>1, <1>3, CredentialsWritten DEF RemoveCredentials, At
  <2> QED
    BY <1>1, <1>3, <2>1 DEF Store, RemoveCredentials, At
<1> QED
  BY <1>2, <1>3

\* What a command that starts has of a store.
LEMMA SeatsAfterStart ==
    ASSUME TypeOK, NEW p \in Procs, NEW scope \in Scopes, Starts(p, scope)
    PROVE  /\ UNCHANGED <<activations, files, mishaps, abandoned>>
           /\ commands' = commands + 1 /\ ~ Running(p) /\ shared \subseteq shared'
           /\ cmd'[p].scope = scope
           /\ cmd'[p].at \in {"call", "license"}
           /\ cmd'[p].secret \in {0, commands + 1}
           /\ Awaits(p)' => cmd'[p].secret = commands + 1
           /\ cmd'[p].credentials \in {None, files[scope].credentials}
           /\ cmd'[p].verb = "deactivate" => cmd'[p].credentials # None
<1> USE DEF Awaits, At, serverVars
<1>1. CASE StartInstall(p, scope)
  <2>1. PICK id \in Licenses :
          Start(p, "install", scope, [NoCommand EXCEPT !.at = "license", !.id = id])
    BY <1>1 DEF StartInstall
  <2> QED
    BY <2>1 DEF Start, TypeOK, NoCommand
<1>2. CASE StartActivate(p, scope)
  <2>1. PICK id \in Licenses :
          Start(p, "activate", scope,
                [NoCommand EXCEPT !.at = "call", !.id = id, !.secret = commands + 1])
    BY <1>2 DEF StartActivate
  <2> QED
    BY <2>1 DEF Start, TypeOK, NoCommand
<1>3. CASE StartDeactivate(p, scope)
  BY <1>3 DEF StartDeactivate, Start, TypeOK, NoCommand
<1>4. CASE StartRenew(p, scope)
  BY <1>4 DEF StartRenew, Start, TypeOK, NoCommand
<1> QED
  BY <1>1, <1>2, <1>3, <1>4 DEF Starts

\* The seat that is given, and what the command has of it.
LEMMA SeatGiven ==
    ASSUME IInv, ServerInv, NEW p \in Procs, CallActivate(p)
    PROVE  \/ /\ activations' = activations /\ mishaps' \in {mishaps, mishaps + 1}
              /\ cmd'[p].at \in {"license", "idle"}
              /\ cmd'[p].credentials = None /\ cmd'[p].secret \in {0, cmd[p].secret}
           \/ \E a \in Activation :
                 /\ activations[a].status # "inactive"
                 /\ activations' = [activations EXCEPT
                       ![a] = [license |-> cmd[p].id, status |-> "active",
                               secret |-> cmd[p].secret]]
                 /\ \/ /\ mishaps' = mishaps + 1 /\ cmd'[p].at = "idle"
                       /\ cmd'[p].credentials = None /\ cmd'[p].secret = 0
                    \/ /\ mishaps' = mishaps
                       /\ At(p, "credentials")' /\ cmd'[p].verb = "activate"
                       /\ cmd'[p].credentials # None
                       /\ cmd'[p].credentials.activation = a
                       /\ cmd'[p].credentials.secret = cmd[p].secret
                       /\ cmd'[p].secret = cmd[p].secret
<1> DEFINE c == cmd[p]
<1>1. /\ TypeOK /\ c \in CommandState /\ c.verb = "activate" /\ cmd \in [Procs -> CommandState]
      /\ c.secret \in 1 .. MaxCommands
  BY DEF IInv, TypeOK, CommandIsSound, CallActivate, At
<1>2. ASSUME End(p)
      PROVE  cmd'[p].at = "idle" /\ cmd'[p].credentials = None /\ cmd'[p].secret = 0
  BY <1>1, <1>2 DEF End, NoCommand
<1>3. CASE RequiresActivation(c.id)
  <2>1. PICK a \in Allocated(c.id) :
           /\ activations' = [activations EXCEPT
                 ![a] = [license |-> c.id, status |-> "active", secret |-> c.secret]]
           /\ GrantActivation(p, [activation |-> a, license |-> c.id])
    BY <1>3 DEF CallActivate
  <2>2. a \in Activation /\ activations[a].status # "inactive"
    BY DEF Allocated
  <2>3. PICK certificate : certificate = [activation |-> a, license |-> c.id]
    OBVIOUS
  <2>4. certificate.activation = a /\ certificate \in Certificate /\ certificate # None
    BY <1>1, <2>2, <2>3, CommandsAssumption
    DEF Certificate, IInv, CommandIsSound, CallActivate, At
  <2>5. CASE Mishap /\ End(p)
    BY <1>2, <2>1, <2>2, <2>5 DEF Mishap
  <2>6. CASE ~ (Mishap /\ End(p))
    <3>1. PICK new : new = [activation |-> a, secret |-> c.secret]
      OBVIOUS
    <3>2. new \in Credentials /\ new.activation = a /\ new.secret = c.secret
      BY <1>1, <2>2, <3>1 DEF Credentials
    <3>3. /\ cmd' = [cmd EXCEPT ![p].at = "credentials", ![p].certificate = certificate,
                                ![p].credentials = new]
          /\ mishaps' = mishaps
      BY <2>1, <2>3, <2>4, <2>6, <3>1 DEF GrantActivation
    <3>4. /\ cmd'[p].at = "credentials" /\ cmd'[p].credentials = new
          /\ cmd'[p].verb = "activate" /\ cmd'[p].secret = c.secret
      BY <1>1, <3>3 DEF CommandState
    <3> QED
      BY <2>1, <2>2, <3>2, <3>3, <3>4, CommandsAssumption DEF At
  <2> QED
    BY <2>5, <2>6
<1>4. CASE ~ RequiresActivation(c.id)
  <2>1. GrantActivation(p, None) /\ activations' = activations
    BY <1>4 DEF CallActivate
  <2>2. CASE Mishap /\ End(p)
    BY <1>2, <2>1, <2>2 DEF Mishap
  <2>3. CASE ~ (Mishap /\ End(p))
    BY <1>1, <2>1, <2>3 DEF GrantActivation, CommandState
  <2> QED
    BY <2>2, <2>3
<1> QED
  BY <1>3, <1>4

\* The server.
LEMMA ServerKept ==
    ASSUME IInv, ServerInv, StoresInv, NEW p \in Procs, Command(p)
    PROVE  ServerInv'
<1> USE DEF ServerInv
<1>1. CASE CallActivate(p)
  <2>1. /\ cmd[p].id \in Licenses /\ cmd[p].secret \in 1 .. MaxCommands
    BY <1>1 DEF CallActivate, IInv, CommandIsSound, At
  <2>2. PICK r : r = [license |-> cmd[p].id, status |-> "active", secret |-> cmd[p].secret]
    OBVIOUS
  <2>3. /\ r \in [license : Licenses \cup {None}, status  : {"unused", "active", "inactive"},
                  secret  : 0 .. MaxCommands]
        /\ r.status = "active"
    BY <2>1, <2>2
  <2>4. \/ activations' = activations
        \/ \E a \in Activation : activations' = [activations EXCEPT ![a] = r]
    BY <1>1, <2>2, SeatGiven
  <2>5. mishaps' \in Nat
    BY <1>1, SeatGiven
  <2> QED
    BY <2>3, <2>4, <2>5
<1>2. CASE CallDeactivate(p)
  <2>1. mishaps' \in Nat
    BY <1>2 DEF CallDeactivate, Mishap
  <2>2. PICK a : activations' = [activations EXCEPT ![a].status = "inactive"]
    BY <1>2 DEF CallDeactivate
  <2> QED
    BY <2>1, <2>2
<1>3. CASE \E scope \in Scopes : Starts(p, scope)
  BY <1>3, SeatsAfterStart DEF IInv
<1>4. CASE ~ CallActivate(p) /\ ~ CallDeactivate(p) /\ ~ \E scope \in Scopes : Starts(p, scope)
  <2>1. activations' = activations /\ mishaps' \in Nat
    BY <1>4, AfterStep
  <2> QED
    BY <2>1
<1> QED
  BY <1>1, <1>2, <1>3, <1>4

\* The secrets, when p neither starts nor is still to send one.
LEMMA SecretsSpread ==
    ASSUME IInv, SecretsInv, NEW p \in Procs,
           \A q \in Procs : q # p => cmd'[q] = cmd[q],
           \A s \in Scopes :
              files'[s].credentials \in {None, files[s].credentials, cmd[p].credentials},
           cmd'[p].secret \in {0, cmd[p].secret},
           \/ cmd'[p].credentials \in {None, cmd[p].credentials}
           \/ Awaits(p) /\ cmd'[p].credentials.secret = cmd[p].secret,
           ~ Awaits(p)', commands' = commands
    PROVE  SecretsInv'
<1>1. \A q \in Procs : Awaits(q) => cmd[q].secret \in 1 .. MaxCommands
  BY DEF IInv, CommandIsSound, Awaits
<1>2. commands \in Nat
  BY CommandsAssumption DEF IInv, TypeOK
<1>3. ASSUME NEW s \in Scopes, files'[s].credentials # None
      PROVE  files'[s].credentials.secret <= commands
  BY <1>3 DEF SecretsInv
<1>4. /\ cmd'[p].secret <= commands
      /\ cmd'[p].credentials # None => cmd'[p].credentials.secret <= commands
  BY <1>2 DEF SecretsInv
<1>5. ASSUME NEW q \in Procs, q # p, cmd'[p].secret = cmd'[q].secret
      PROVE  cmd'[p].secret = 0
  BY <1>5 DEF SecretsInv
<1>6. ASSUME NEW q \in Procs, Awaits(q)'
      PROVE  /\ q # p /\ Awaits(q) /\ cmd'[q] = cmd[q]
             /\ \A s \in Scopes :
                   files'[s].credentials # None => files'[s].credentials.secret # cmd[q].secret
             /\ \A r \in Procs : r # q /\ cmd'[r].credentials # None =>
                   cmd'[r].credentials.secret # cmd[q].secret
  <2>1. q # p /\ cmd'[q] = cmd[q] /\ Awaits(q)
    BY <1>6 DEF Awaits, At
  <2>2. /\ \A s \in Scopes :
              files[s].credentials # None => files[s].credentials.secret # cmd[q].secret
        /\ \A r \in Procs : r # q /\ cmd[r].credentials # None =>
              cmd[r].credentials.secret # cmd[q].secret
    BY <2>1 DEF SecretsInv
  <2>3. cmd'[p].credentials # None => cmd'[p].credentials.secret # cmd[q].secret
    <3>1. CASE Awaits(p) /\ cmd'[p].credentials.secret = cmd[p].secret
      <4>1. cmd[p].secret = cmd[q].secret => cmd[p].secret = 0
        BY <2>1 DEF SecretsInv
      <4> QED
        BY <1>1, <2>1, <3>1, <4>1
    <3> QED
      BY <2>1, <2>2, <3>1
  <2>4. \A s \in Scopes :
           files'[s].credentials # None => files'[s].credentials.secret # cmd[q].secret
    BY <2>1, <2>2
  <2>5. \A r \in Procs : r # q /\ cmd'[r].credentials # None =>
           cmd'[r].credentials.secret # cmd[q].secret
    BY <2>2, <2>3
  <2> QED
    BY <2>1, <2>4, <2>5
<1>7. \A q \in Procs : /\ cmd'[q].secret <= commands
                       /\ cmd'[q].credentials # None => cmd'[q].credentials.secret <= commands
  BY <1>4 DEF SecretsInv
<1>8. \A q, r \in Procs : q # r /\ cmd'[q].secret = cmd'[r].secret => cmd'[q].secret = 0
  <2>1. \A q, r \in Procs : q # r /\ q # p /\ r # p /\ cmd'[q].secret = cmd'[r].secret
                               => cmd'[q].secret = 0
    BY DEF SecretsInv
  <2> QED
    BY <1>5, <2>1
<1> QED
  BY <1>3, <1>6, <1>7, <1>8 DEF SecretsInv

\* The secrets, whatever step a command takes.
LEMMA SecretsKept ==
    ASSUME IInv, ServerInv, SecretsInv, StoresInv, NEW p \in Procs, Command(p)
    PROVE  SecretsInv'
<1>1. TypeOK /\ \A q \in Procs : q # p => cmd'[q] = cmd[q]
  BY OnlyItsOwn DEF IInv
<1>2. CASE CallActivate(p)
  <2>1. /\ UNCHANGED <<files, commands>> /\ Awaits(p)
        /\ cmd[p].secret \in 1 .. MaxCommands
    BY <1>2 DEF CallActivate, Awaits, IInv, CommandIsSound
  <2>2. /\ cmd'[p].secret \in {0, cmd[p].secret} /\ ~ Awaits(p)'
        /\ \/ cmd'[p].credentials \in {None, cmd[p].credentials}
           \/ cmd'[p].credentials.secret = cmd[p].secret
    BY <1>2, SeatGiven DEF Awaits, At
  <2> QED
    BY <1>1, <2>1, <2>2, SecretsSpread
<1>3. ASSUME NEW scope \in Scopes, Starts(p, scope) PROVE SecretsInv'
  <2>1. /\ files' = files /\ commands' = commands + 1 /\ commands \in Nat
        /\ cmd'[p].secret \in {0, commands + 1}
        /\ cmd'[p].credentials \in {None, files[scope].credentials}
        /\ Awaits(p)' => cmd'[p].secret = commands + 1
    BY <1>1, <1>3, SeatsAfterStart, CommandsAssumption DEF TypeOK
  <2>2. /\ \A s \in Scopes :
              files[s].credentials # None => files[s].credentials.secret <= commands
        /\ \A q \in Procs :
              /\ cmd[q].secret <= commands
              /\ cmd[q].credentials # None => cmd[q].credentials.secret <= commands
        /\ \A q, r \in Procs : q # r /\ cmd[q].secret = cmd[r].secret => cmd[q].secret = 0
    BY DEF SecretsInv
  <2>3. /\ files \in [Scopes -> Store] /\ cmd \in [Procs -> CommandState]
        /\ \A s \in Scopes : files[s].credentials # None => files[s].credentials.secret \in Nat
        /\ \A q \in Procs : /\ cmd[q].secret \in Nat
                            /\ cmd[q].credentials # None => cmd[q].credentials.secret \in Nat
    BY <1>1 DEF TypeOK, Store, CommandState, Credentials
  <2>4. \A s \in Scopes :
           files'[s].credentials # None => files'[s].credentials.secret <= commands'
    BY <2>1, <2>2, <2>3
  <2>5. \A q \in Procs :
           /\ cmd'[q].secret <= commands'
           /\ cmd'[q].credentials # None => cmd'[q].credentials.secret <= commands'
    BY <1>1, <2>1, <2>2, <2>3
  <2>6. \A q, r \in Procs : q # r /\ cmd'[q].secret = cmd'[r].secret => cmd'[q].secret = 0
    <3>1. \A q \in Procs : q # p /\ cmd'[q].secret = cmd'[p].secret => cmd'[p].secret = 0
      <4>1. \A q \in Procs : q # p => cmd'[q].secret # commands + 1
        BY <1>1, <2>1, <2>2, <2>3
      <4> QED
        BY <2>1, <4>1
    <3>2. \A q, r \in Procs : q # p /\ r # p /\ q # r /\ cmd'[q].secret = cmd'[r].secret
                                 => cmd'[q].secret = 0
      BY <1>1, <2>2
    <3> QED
      BY <3>1, <3>2
  <2>7. ASSUME NEW q \in Procs, Awaits(q)'
        PROVE  /\ \A s \in Scopes :
                     files'[s].credentials # None =>
                        files'[s].credentials.secret # cmd'[q].secret
               /\ \A r \in Procs : r # q /\ cmd'[r].credentials # None =>
                     cmd'[r].credentials.secret # cmd'[q].secret
    <3>1. CASE q = p
      <4>1. cmd'[p].secret = commands + 1
        BY <2>1, <2>7, <3>1
      <4>2. \A s \in Scopes : files'[s].credentials # None =>
               files'[s].credentials.secret # commands + 1
        BY <2>1, <2>2, <2>3
      <4>3. \A r \in Procs : r # p /\ cmd'[r].credentials # None =>
               cmd'[r].credentials.secret # commands + 1
        BY <1>1, <2>1, <2>2, <2>3
      <4> QED
        BY <3>1, <4>1, <4>2, <4>3
    <3>2. CASE q # p
      <4>1. Awaits(q) /\ cmd'[q] = cmd[q]
        BY <1>1, <2>7, <3>2 DEF Awaits, At
      <4>2. /\ \A s \in Scopes :
                  files[s].credentials # None => files[s].credentials.secret # cmd[q].secret
            /\ \A r \in Procs : r # q /\ cmd[r].credentials # None =>
                  cmd[r].credentials.secret # cmd[q].secret
        BY <4>1 DEF SecretsInv
      <4>3. cmd'[p].credentials # None => cmd'[p].credentials.secret # cmd[q].secret
        BY <2>1, <4>2
      <4> QED
        BY <1>1, <2>1, <4>1, <4>2, <4>3
    <3> QED
      BY <3>1, <3>2
  <2> QED
    BY <2>4, <2>5, <2>6, <2>7 DEF SecretsInv
<1>4. CASE ~ CallActivate(p) /\ \A scope \in Scopes : ~ Starts(p, scope)
  <2>1. /\ commands' = commands /\ cmd'[p].secret \in {0, cmd[p].secret}
        /\ cmd'[p].credentials \in {None, cmd[p].credentials} /\ ~ Awaits(p)'
    BY <1>4, AfterStep DEF ServerInv, Awaits, At
  <2>2. \A s \in Scopes :
           files'[s].credentials \in {None, files[s].credentials, cmd[p].credentials}
    <3>1. CASE WriteCredentials(p) \/ RemoveCredentials(p)
      BY <3>1, CredentialsAfter
    <3>2. CASE ~ WriteCredentials(p) /\ ~ RemoveCredentials(p)
      BY <1>4, <3>2, AfterStep DEF ServerInv
    <3> QED
      BY <3>1, <3>2
  <2> QED
    BY <1>1, <2>1, <2>2, SecretsSpread
<1> QED
  BY <1>2, <1>3, <1>4

\* What a command has of its store, and what it does to it.
LEMMA StoresKept ==
    ASSUME IInv, ServerInv, SecretsInv, StoresInv, NEW p \in Procs, Command(p)
    PROVE  StoresInv'
<1> DEFINE c == cmd[p]
<1>1. /\ TypeOK /\ \A q \in Procs : q # p => cmd'[q] = cmd[q]
      /\ shared \subseteq shared'
      /\ \A s \in Scopes : s # c.scope => files'[s] = files[s]
      /\ files \in [Scopes -> Store] /\ cmd \in [Procs -> CommandState]
      /\ mishaps \in Nat
      /\ \A s \in Scopes : files[s].credentials \in Credentials \cup {None}
      /\ \A q \in Procs : /\ cmd[q].credentials \in Credentials \cup {None}
                          /\ Running(q) => cmd[q].scope \in Scopes
  BY OnlyItsOwn DEF IInv, TypeOK, Store, CommandState, ServerInv, CommandIsSound
<1>2. CASE \E scope \in Scopes : Starts(p, scope)
  <2>1. PICK scope \in Scopes : Starts(p, scope)
    BY <1>2
  <2>2. /\ UNCHANGED <<activations, files>>
        /\ cmd'[p].scope = scope /\ cmd'[p].at \in {"call", "license"}
        /\ cmd'[p].credentials \in {None, files[scope].credentials}
        /\ cmd'[p].verb = "deactivate" => cmd'[p].credentials # None
    BY <1>1, <2>1, SeatsAfterStart
  <2>3. HasItsStores(p)' /\ CleansUpFree(p)' /\ ReplacesOld(p)'
    BY <2>2 DEF HasItsStores, CleansUpFree, ReplacesOld, At
  <2>4. \A q \in Procs : q # p =>
           /\ HasItsStores(q) => HasItsStores(q)'
           /\ CleansUpFree(q) => CleansUpFree(q)'
           /\ ReplacesOld(q) => ReplacesOld(q)'
    BY <1>1, <2>2
    DEF HasItsStores, CleansUpFree, ReplacesOld, At, New, Running, Releases, IsTaken
  <2>5. \A q \in Procs : (At(q, "call") /\ cmd[q].verb = "deactivate")'
                            => cmd'[q].credentials # None
    BY <1>1, <2>2 DEF StoresInv, At
  <2> QED
    BY <1>1, <2>3, <2>4, <2>5 DEF StoresInv
<1>3. CASE \A scope \in Scopes : ~ Starts(p, scope)
  <2>1. shared' = shared /\ Running(p) /\ (Running(p)' => cmd'[p].scope = c.scope)
        /\ c.scope \in Scopes
    BY <1>1, <1>3, ScopeKept
  <2>2. cmd'[p].at # "call"
    <3>1. CASE CallActivate(p)
      BY <3>1, SeatGiven DEF At
    <3> QED
      BY <1>1, <1>3, <3>1, AfterStep
  <2>3. \A q \in Procs : (At(q, "call") /\ cmd[q].verb = "deactivate")'
                            => cmd'[q].credentials # None
    BY <1>1, <2>2 DEF StoresInv, At
  <2>4. SUFFICES ASSUME shared = {}
                 PROVE  \A q \in Procs :
                           HasItsStores(q)' /\ CleansUpFree(q)' /\ ReplacesOld(q)'
    BY <2>1, <2>3, <2>4 DEF StoresInv
  <2>5. \A q \in Procs : HasItsStores(q) /\ CleansUpFree(q) /\ ReplacesOld(q)
    BY <2>4 DEF StoresInv
  <2>6. \A q \in Procs : q # p /\ Running(q) => files'[cmd[q].scope] = files[cmd[q].scope]
    BY <1>1, <2>1, <2>4 DEF IInv, Apart
  <2>7. \A a \in Activation :
           /\ activations[a].status = "inactive" => activations'[a].status = "inactive"
           /\ \/ activations'[a] = activations[a]
              \/ activations'[a].status = "inactive"
              \/ CallActivate(p) /\ activations'[a].secret = c.secret
    <3>1. CASE CallActivate(p)
      BY <3>1, SeatGiven DEF ServerInv
    <3>2. CASE CallDeactivate(p)
      <4>1. activations' = [activations EXCEPT ![c.credentials.activation].status = "inactive"]
        BY <3>2 DEF CallDeactivate
      <4> QED
        BY <4>1 DEF ServerInv
    <3>3. CASE ~ CallActivate(p) /\ ~ CallDeactivate(p)
      BY <1>1, <1>3, <3>3, AfterStep
    <3> QED
      BY <3>1, <3>2, <3>3
  <2>8. CallActivate(p) => \A s \in Scopes :
           files[s].credentials # None => files[s].credentials.secret # c.secret
    BY DEF SecretsInv, Awaits, CallActivate
  <2>9. ASSUME NEW q \in Procs, q # p
        PROVE  HasItsStores(q)' /\ CleansUpFree(q)' /\ ReplacesOld(q)'
    <3>1. cmd'[q] = cmd[q] /\ (Running(q) => files'[cmd[q].scope] = files[cmd[q].scope])
      BY <1>1, <2>6, <2>9
    <3>2. HasItsStores(q)'
      BY <2>5, <3>1 DEF HasItsStores, New, Running, At
    <3>3. CleansUpFree(q)'
      <4> SUFFICES ASSUME cmd[q].at \in {"remove_certificate", "remove_credentials"}
                   PROVE  /\ cmd[q].credentials # None
                          /\ activations'[cmd[q].credentials.activation].status = "inactive"
        BY <3>1 DEF CleansUpFree
      <4>1. /\ cmd[q].credentials # None
            /\ activations[cmd[q].credentials.activation].status = "inactive"
        BY <2>5 DEF CleansUpFree
      <4>2. cmd[q].credentials.activation \in Activation
        BY <1>1, <4>1 DEF Credentials
      <4> QED
        BY <2>7, <4>1, <4>2
    <3>4. ReplacesOld(q)'
      <4> DEFINE old == files[cmd[q].scope].credentials
                 a   == cmd[q].credentials.activation
      <4> SUFFICES ASSUME At(q, "credentials"), activations'[a].status = "active",
                          old # None, old.activation = a, old.secret = activations'[a].secret
                   PROVE  old = cmd[q].credentials
        BY <3>1 DEF ReplacesOld, At, Running, Steps, Releases, IsTaken
      <4>1. cmd[q].scope \in Scopes /\ a \in Activation
        <5>1. Running(q) /\ cmd[q].credentials # None
          BY DEF Running, Steps, At, IInv, CommandIsSound
        <5> QED
          BY <1>1, <5>1 DEF Credentials
      <4>2. activations'[a] = activations[a]
        BY <2>7, <2>8, <4>1
      <4>3. IsTaken(a) /\ Releases(old, a)
        BY <4>2 DEF IsTaken, Releases
      <4> QED
        BY <2>5, <4>3 DEF ReplacesOld
    <3> QED
      BY <3>2, <3>3, <3>4
  <2>10. CASE CallActivate(p)
    <3>1. files' = files
      BY <2>10 DEF CallActivate
    <3>2. ASSUME cmd'[p].at \in {"license", "idle"}, cmd'[p].credentials = None
          PROVE  HasItsStores(p)' /\ CleansUpFree(p)' /\ ReplacesOld(p)'
      <4>1. HasItsStores(p)'
        BY <3>2 DEF HasItsStores
      <4>2. CleansUpFree(p)'
        BY <3>2 DEF CleansUpFree
      <4>3. ReplacesOld(p)'
        BY <3>2 DEF ReplacesOld, At
      <4> QED
        BY <4>1, <4>2, <4>3
    <3>3. ASSUME NEW a \in Activation, At(p, "credentials")', cmd'[p].verb = "activate",
                 cmd'[p].credentials.activation = a,
                 activations' = [activations EXCEPT
                       ![a] = [license |-> c.id, status |-> "active", secret |-> c.secret]]
          PROVE  HasItsStores(p)' /\ CleansUpFree(p)' /\ ReplacesOld(p)'
      <4>1. activations'[a].secret = c.secret
        BY <3>3 DEF ServerInv
      <4>2. cmd'[p].scope = c.scope
        BY <2>1, <3>3 DEF At, Running, Steps
      <4>3. HasItsStores(p)' /\ CleansUpFree(p)'
        BY <3>3 DEF HasItsStores, CleansUpFree, New, At
      <4>4. ReplacesOld(p)'
        BY <2>1, <2>8, <2>10, <3>1, <3>3, <4>1, <4>2 DEF ReplacesOld, Releases
      <4> QED
        BY <4>3, <4>4
    <3> QED
      BY <2>9, <2>10, <3>2, <3>3, SeatGiven
  <2>11. CASE ~ CallActivate(p)
    <3>1. /\ Running(p)' => /\ cmd'[p].verb = c.verb /\ cmd'[p].credentials = c.credentials
                            /\ cmd'[p].scope = c.scope
          /\ At(p, "credentials")' => CallRenew(p) /\ c.credentials # None
          /\ At(p, "remove_certificate")' => CallDeactivate(p) \/ CallRenew(p)
          /\ At(p, "remove_credentials")' => RemoveCertificate(p)
          /\ ~ WriteCredentials(p) /\ ~ RemoveCredentials(p) =>
                \A s \in Scopes : files'[s].credentials = files[s].credentials
      BY <1>1, <1>3, <2>1, <2>11, AfterStep
    <3>2. HasItsStores(p)'
      <4> SUFFICES ASSUME Running(p)', c.credentials # None
                   PROVE  files'[c.scope].credentials = c.credentials
        BY <3>1 DEF HasItsStores
      <4>1. CASE WriteCredentials(p)
        BY <4>1, CredentialsAfter
      <4>2. CASE RemoveCredentials(p)
        <5>1. cmd'[p].at \in Ends
          BY <1>1, <4>2 DEF RemoveCredentials, NoCommand, Ends
        <5> QED
          BY <5>1 DEF Running, Steps, Ends
      <4>3. CASE ~ WriteCredentials(p) /\ ~ RemoveCredentials(p)
        <5>1. ~ At(p, "credentials")
          <6>1. At(p, "credentials") => WriteCredentials(p) \/ StoreFails(p) \/ Killed(p)
            BY <2>1, StepsOf
          <6>2. StoreFails(p) \/ Killed(p) => ~ Running(p)'
            BY <1>1, AfterEnd DEF StoreFails, Killed
          <6> QED
            BY <4>3, <6>1, <6>2
        <5>2. files[c.scope].credentials = c.credentials
          BY <2>1, <2>5, <5>1 DEF HasItsStores, New
        <5> QED
          BY <2>1, <3>1, <4>3, <5>2
      <4> QED
        BY <4>1, <4>2, <4>3
    <3>3. CleansUpFree(p)'
      <4>1. CASE At(p, "remove_credentials")'
        <5>1. RemoveCertificate(p)
          BY <3>1, <4>1
        <5>2. /\ c.credentials # None
              /\ activations[c.credentials.activation].status = "inactive"
              /\ cmd'[p].credentials = c.credentials /\ activations' = activations
          BY <2>5, <3>1, <4>1, <5>1
          DEF CleansUpFree, RemoveCertificate, At, Running, Steps, serverVars
        <5> QED
          BY <5>2 DEF CleansUpFree
      <4>2. CASE At(p, "remove_certificate")'
        <5>1. cmd'[p].credentials = c.credentials
          BY <3>1, <4>2 DEF At, Running, Steps
        <5>2. CASE CallDeactivate(p)
          <6>1. c.credentials # None /\ c.credentials.activation \in Activation
            BY <1>1, <5>2 DEF StoresInv, CallDeactivate, Credentials
          <6>2. activations'
                  = [activations EXCEPT ![c.credentials.activation].status = "inactive"]
            BY <5>2 DEF CallDeactivate
          <6>3. activations'[c.credentials.activation].status = "inactive"
            BY <6>1, <6>2 DEF ServerInv
          <6> QED
            BY <5>1, <6>1, <6>3 DEF CleansUpFree
        <5>3. CASE CallRenew(p)
          <6>1. /\ c.credentials # None /\ ~ IsActive(c.credentials)
                /\ Authorised(c.credentials) /\ activations' = activations
            BY <1>1, <4>2, <5>3, AfterGoto DEF CallRenew, At, serverVars, CommandState
          <6>2. /\ c.credentials.activation \in Activation
                /\ c.credentials.secret \in 1 .. MaxCommands
            BY <1>1, <6>1 DEF Credentials
          <6>3. activations[c.credentials.activation].status = "inactive"
            BY <6>1, <6>2 DEF ServerInv, IsActive, Authorised
          <6> QED
            BY <5>1, <6>1, <6>3 DEF CleansUpFree
        <5> QED
          BY <3>1, <4>2, <5>2, <5>3
      <4> QED
        BY <4>1, <4>2 DEF CleansUpFree, At
    <3>4. ReplacesOld(p)'
      <4> SUFFICES ASSUME At(p, "credentials")'
                   PROVE  files'[c.scope].credentials = cmd'[p].credentials
        BY <3>1 DEF ReplacesOld, At, Running, Steps
      <4>1. /\ CallRenew(p) /\ c.credentials # None /\ cmd'[p].credentials = c.credentials
        BY <3>1 DEF At, Running, Steps
      <4>2. files' = files /\ files[c.scope].credentials = c.credentials
        BY <2>1, <2>5, <4>1 DEF HasItsStores, New, CallRenew, At
      <4> QED
        BY <4>1, <4>2
    <3> QED
      BY <2>9, <3>2, <3>3, <3>4
  <2> QED
    BY <2>10, <2>11
<1> QED
  BY <1>2, <1>3

\* Every seat that is taken stays one that can be released.
LEMMA SeatsKept ==
    ASSUME IInv, ServerInv, SecretsInv, StoresInv, SeatsAreHeld, NEW p \in Procs, Command(p)
    PROVE  SeatsAreHeld'
<1> DEFINE c == cmd[p]
           InStore(a)   == \E s \in Scopes : Releases(files[s].credentials, a)
           InCommand(a) ==
              \E q \in Procs : At(q, "credentials") /\ Releases(cmd[q].credentials, a)
<1>1. /\ TypeOK /\ \A q \in Procs : q # p => cmd'[q] = cmd[q]
      /\ shared \subseteq shared'
      /\ files \in [Scopes -> Store] /\ cmd \in [Procs -> CommandState]
      /\ mishaps \in Nat
      /\ \A s \in Scopes : files[s].credentials \in Credentials \cup {None}
      /\ \A q \in Procs : cmd[q].credentials \in Credentials \cup {None}
  BY OnlyItsOwn DEF IInv, TypeOK, Store, CommandState, ServerInv
<1>2. /\ mishaps' \in {mishaps, mishaps + 1} /\ abandoned \subseteq abandoned'
  <2>1. CASE CallActivate(p)
    BY <2>1, SeatGiven DEF CallActivate, historyVars
  <2>2. CASE \E scope \in Scopes : Starts(p, scope)
    BY <1>1, <2>2, SeatsAfterStart
  <2> QED
    BY <1>1, <2>1, <2>2, AfterStep
<1>3. SUFFICES ASSUME mishaps' = 0, shared' = {}, NEW a \in Activation \ abandoned', IsTaken(a)'
               PROVE  InStore(a)' \/ InCommand(a)'
  BY DEF SeatsAreHeld
<1>4. mishaps' = mishaps /\ mishaps = 0 /\ shared = {} /\ a \notin abandoned /\ a \in Activation
  BY <1>1, <1>2, <1>3
<1>5. IsTaken(a) => InStore(a) \/ InCommand(a)
  BY <1>4 DEF SeatsAreHeld
<1>6. HasItsStores(p) /\ CleansUpFree(p) /\ ReplacesOld(p)
  BY <1>4 DEF StoresInv
\* What another command is about to write is not touched.
<1>7. ASSUME NEW q \in Procs, q # p, activations'[a] = activations[a], At(q, "credentials"),
             Releases(cmd[q].credentials, a)
      PROVE  InCommand(a)'
  BY <1>1, <1>7 DEF At, Releases
<1>8. CASE CallActivate(p)
  <2>1. files' = files /\ At(p, "call")
    BY <1>8 DEF CallActivate
  <2>2. ASSUME activations'[a] = activations[a] PROVE InStore(a)' \/ InCommand(a)'
    <3>1. InStore(a) \/ InCommand(a)
      BY <1>3, <1>5, <2>2 DEF IsTaken
    <3>2. InStore(a) => InStore(a)'
      BY <2>1, <2>2 DEF Releases
    <3>3. InCommand(a) => InCommand(a)'
      BY <1>7, <2>1, <2>2 DEF At
    <3> QED
      BY <3>1, <3>2, <3>3
  <2>3. ASSUME At(p, "credentials")', cmd'[p].credentials # None,
               cmd'[p].credentials.activation = a, cmd'[p].credentials.secret = c.secret,
               activations' = [activations EXCEPT
                     ![a] = [license |-> c.id, status |-> "active", secret |-> c.secret]]
        PROVE  InCommand(a)'
    <3>1. activations'[a].secret = c.secret
      BY <1>4, <2>3 DEF ServerInv
    <3> QED
      BY <2>3, <3>1 DEF Releases
  <2>4. activations'[a] = activations[a] \/ InCommand(a)'
    <3>1. CASE activations' = activations
      BY <3>1
    <3>2. CASE activations' # activations
      <4>1. PICK b \in Activation :
                 /\ activations' = [activations EXCEPT
                       ![b] = [license |-> c.id, status |-> "active", secret |-> c.secret]]
                 /\ \/ mishaps' = mishaps + 1
                    \/ /\ At(p, "credentials")' /\ cmd'[p].credentials # None
                       /\ cmd'[p].credentials.activation = b
                       /\ cmd'[p].credentials.secret = c.secret
        BY <1>8, <3>2, SeatGiven
      <4>2. CASE b = a
        BY <1>1, <1>4, <2>3, <4>1, <4>2
      <4>3. CASE b # a
        BY <1>4, <4>1, <4>3 DEF ServerInv
      <4> QED
        BY <4>2, <4>3
    <3> QED
      BY <3>1, <3>2
  <2> QED
    BY <2>2, <2>4
<1>9. CASE \E scope \in Scopes : Starts(p, scope)
  <2>1. UNCHANGED <<activations, files>> /\ ~ Running(p)
    BY <1>1, <1>9, SeatsAfterStart
  <2>2. InStore(a) \/ InCommand(a)
    BY <1>3, <1>5, <2>1 DEF IsTaken
  <2>3. InStore(a) => InStore(a)'
    BY <2>1 DEF Releases
  <2>4. InCommand(a) => InCommand(a)'
    BY <1>7, <2>1 DEF At, Running, Steps
  <2> QED
    BY <2>2, <2>3, <2>4
<1>10. CASE ~ CallActivate(p) /\ \A scope \in Scopes : ~ Starts(p, scope)
  <2>1. activations'[a] = activations[a]
    <3>1. CASE CallDeactivate(p)
      <4>1. activations' = [activations EXCEPT ![c.credentials.activation].status = "inactive"]
        BY <3>1 DEF CallDeactivate
      <4> QED
        BY <1>3, <1>4, <4>1 DEF ServerInv, IsTaken
    <3> QED
      BY <1>1, <1>10, <3>1, AfterStep
  <2>2. InStore(a) \/ InCommand(a)
    BY <1>3, <1>5, <2>1 DEF IsTaken
  <2>3. ASSUME NEW s \in Scopes, Releases(files[s].credentials, a) PROVE InStore(a)'
    <3>1. CASE files'[s].credentials = files[s].credentials
      BY <2>1, <2>3, <3>1 DEF Releases
    <3>2. CASE WriteCredentials(p) /\ s = c.scope
      <4>1. /\ At(p, "credentials")
            /\ a = c.credentials.activation \/ a \in abandoned'
        BY <2>3, <3>2 DEF WriteCredentials, Releases
      <4>2. files[s].credentials = c.credentials
        BY <1>3, <1>6, <2>1, <2>3, <3>2, <4>1 DEF ReplacesOld, IsTaken
      <4> QED
        BY <2>1, <2>3, <3>2, <4>2, CredentialsAfter DEF Releases
    <3>3. CASE RemoveCredentials(p) /\ s = c.scope
      <4>1. /\ At(p, "remove_credentials") /\ Running(p)
            /\ c.credentials # None
            /\ activations[c.credentials.activation].status = "inactive"
        BY <1>6, <3>3 DEF RemoveCredentials, CleansUpFree, At, Running, Steps
      <4>2. files[s].credentials = c.credentials
        BY <1>6, <3>3, <4>1 DEF HasItsStores, New, At
      <4> QED
        BY <1>3, <2>1, <2>3, <4>1, <4>2 DEF Releases, IsTaken
    <3>4. \/ files'[s].credentials = files[s].credentials
          \/ (WriteCredentials(p) \/ RemoveCredentials(p)) /\ s = c.scope
      BY <1>1, <1>10, AfterStep, CredentialsAfter
    <3> QED
      BY <3>1, <3>2, <3>3, <3>4
  <2>4. ASSUME At(p, "credentials"), Releases(c.credentials, a) PROVE InStore(a)'
    <3>1. WriteCredentials(p)
      BY <1>1, <1>4, <1>10, <2>4, AfterStep
    <3> QED
      BY <2>1, <2>4, <3>1, CredentialsAfter DEF Releases
  <2> QED
    BY <1>7, <2>1, <2>2, <2>3, <2>4
<1> QED
  BY <1>8, <1>9, <1>10

\* The portal and the administrator take no secret and no seat from a store.
LEMMA SeatsElsewhere == IInv /\ SeatInv /\ (Elsewhere \/ UNCHANGED vars) => SeatInv'
<1> SUFFICES ASSUME IInv, SeatInv, Elsewhere \/ UNCHANGED vars
             PROVE  SeatInv'
  OBVIOUS
<1>1. /\ UNCHANGED <<cmd, commands, mishaps, shared, abandoned>>
  BY DEF Elsewhere, vars, historyVars
<1>2. \A s \in Scopes : files'[s].credentials = files[s].credentials
  <2>1. files \in [Scopes -> Store]
    BY DEF IInv, TypeOK
  <2>2. CASE \E id \in Licenses : AdminRevokes(id)
    <3>1. PICK id \in Licenses :
             files' = [files EXCEPT !["system"].revoked = @ \cup {id}]
      BY <2>2 DEF AdminRevokes
    <3> QED
      BY <2>1, <3>1 DEF Store
  <2> QED
    BY <2>2 DEF Elsewhere, Withdraw, Reinstate, PortalRelease, vars
<1>3. \/ activations' = activations
      \/ \E a \in Activation : activations' = [activations EXCEPT ![a].status = "inactive"]
  BY DEF Elsewhere, Withdraw, Reinstate, AdminRevokes, PortalRelease, vars, serverVars
<1>4. ServerInv'
  BY <1>1, <1>3 DEF SeatInv, ServerInv
<1>5. \A a \in Activation :
         /\ activations'[a].secret = activations[a].secret
         /\ IsTaken(a)' => IsTaken(a)
         /\ activations[a].status = "inactive" => activations'[a].status = "inactive"
  BY <1>3 DEF SeatInv, ServerInv, IsTaken
<1>6. SecretsInv'
  BY <1>1, <1>2 DEF SeatInv, SecretsInv, Awaits, At
<1>7. /\ \A q \in Procs : Running(q) => cmd[q].scope \in Scopes
      /\ \A q \in Procs : cmd[q].credentials # None =>
                             cmd[q].credentials.activation \in Activation
  BY DEF IInv, TypeOK, CommandIsSound, CommandState, Credentials
<1>8. ASSUME shared = {}, NEW q \in Procs
      PROVE  HasItsStores(q)' /\ CleansUpFree(q)' /\ ReplacesOld(q)'
  <2>1. HasItsStores(q) /\ CleansUpFree(q) /\ ReplacesOld(q)
    BY <1>8 DEF SeatInv, StoresInv
  <2>2. HasItsStores(q)'
    BY <1>1, <1>2, <1>7, <2>1 DEF HasItsStores, New, At, Running
  <2>3. CleansUpFree(q)'
    BY <1>1, <1>5, <1>7, <2>1 DEF CleansUpFree
  <2>4. ReplacesOld(q)'
    <3>1. At(q, "credentials") => /\ cmd[q].scope \in Scopes
                                  /\ cmd[q].credentials.activation \in Activation
      BY <1>7 DEF At, Running, Steps, IInv, CommandIsSound
    <3> QED
      BY <1>1, <1>2, <1>5, <2>1, <3>1 DEF ReplacesOld, At, Releases
  <2> QED
    BY <2>2, <2>3, <2>4
<1>9. StoresInv'
  BY <1>1, <1>8 DEF SeatInv, StoresInv, At
<1>10. SeatsAreHeld'
  BY <1>1, <1>2, <1>5 DEF SeatInv, SeatsAreHeld, Releases, At
<1> QED
  BY <1>4, <1>6, <1>9, <1>10 DEF SeatInv

\* LICENSING.md:115 and license_cmd.rs:411-417: if nothing goes wrong, this machine can
\* release every seat it has taken, but for those that activate said it replaced.
THEOREM SeatCanBeReleasedHolds == Spec => []SeatCanBeReleased
<1>1. Init => SeatInv
  <2> SUFFICES ASSUME Init PROVE SeatInv
    OBVIOUS
  <2>1. /\ commands = 0 /\ mishaps = 0
        /\ \A a \in Activation : activations[a] = NoActivation
        /\ activations \in [Activation -> {NoActivation}]
        /\ \A p \in Procs : cmd[p] = NoCommand
    BY DEF Init
  <2>2. \A s \in Scopes : files[s].credentials = None
    BY DEF Init, EmptyStore
  <2>3. ServerInv
    BY <2>1, CommandsAssumption DEF ServerInv, NoActivation
  <2>4. SecretsInv
    BY <2>1, <2>2 DEF SecretsInv, NoCommand, Awaits, At
  <2>5. StoresInv /\ SeatsAreHeld
    BY <2>1
    DEF StoresInv, SeatsAreHeld, HasItsStores, CleansUpFree, ReplacesOld, NoCommand, At,
        IsTaken, NoActivation
  <2> QED
    BY <2>3, <2>4, <2>5 DEF SeatInv
<1>2. IInv /\ SeatInv /\ [Next]_vars => SeatInv'
  <2>1. ASSUME IInv, SeatInv, NEW p \in Procs, Command(p) PROVE SeatInv'
    BY <2>1, ServerKept, SecretsKept, StoresKept, SeatsKept DEF SeatInv
  <2> QED
    BY <2>1, SeatsElsewhere DEF Next
<1>3. IInv /\ SeatInv => SeatCanBeReleased
  <2> SUFFICES ASSUME IInv, SeatInv, Quiet, NEW a \in Activation \ abandoned,
                      activations[a].status = "active"
               PROVE  \E s \in Scopes : files[s].credentials
                                = [activation |-> a, secret |-> activations[a].secret]
    BY DEF SeatCanBeReleased
  <2>1. PICK s \in Scopes : Releases(files[s].credentials, a)
    BY DEF SeatInv, SeatsAreHeld, Quiet, IsTaken, At, Running, Steps
  <2>2. files[s].credentials \in Credentials
    BY <2>1 DEF IInv, TypeOK, Store, Releases
  <2>3. files[s].credentials = [activation |-> a, secret |-> activations[a].secret]
    BY <2>1, <2>2 DEF Releases, Credentials
  <2> QED
    BY <2>3
<1> QED
  BY <1>1, <1>2, <1>3, Invariance, PTL DEF Spec
=============================================================================
