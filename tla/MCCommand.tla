------------------------------ MODULE MCCommand ------------------------------
(* Two roots, the file system's and a share's; in the first a directory d with *)
(* a directory e and a file f, and links: to the root, to e, to nothing.       *)
EXTENDS Command, TLC

CONSTANTS MaxParts

At(root, names) == [root |-> root, names |-> names]
SomeDirs == {"fs", "share", "d", "e", "s"}
SomeFiles == {"f"}
SomeLinks == {"up", "to", "lost"}
SomeLocations ==
    ("fs" :> At("fs", <<>>)) @@ ("share" :> At("share", <<>>)) @@ ("d" :> At("fs", <<"d">>))
    @@ ("e" :> At("fs", <<"d", "e">>)) @@ ("f" :> At("fs", <<"d", "f">>))
    @@ ("s" :> At("share", <<"s">>)) @@ ("up" :> At("fs", <<"d", "up">>))
    @@ ("to" :> At("fs", <<"d", "to">>)) @@ ("lost" :> At("share", <<"lost">>))
SomeDestinations == ("up" :> "fs") @@ ("to" :> "e") @@ ("lost" :> "lost")

-----------------------------------------------------------------------------
(* The command lines: every path, with and without --dry-run; and every option *)
(* with the path of a file.                                                     *)
Parts == {"", ".", "..", "d", "e", "f", "up", "to", "lost"}
\* A relative path does not begin with a separator.
Paths == {path \in [form : Forms, parts : UNION {[1 .. n -> Parts] : n \in 1 .. MaxParts}] :
             path.form = "relative" /\ path.parts[1] = "" => path.parts = <<"">>}
SharedPaths ==
    {[form |-> form, parts |-> <<"srv", "data">> \o parts] :
        form \in {"double", "verbatim_unc"},
        parts \in UNION {[1 .. n -> {"", "..", "s", "lost"}] : n \in 0 .. 3}}

OfPath(path) == [Plain EXCEPT !.target = {path}]
PathLines ==
    {<<"posix", OfPath(path)>> : path \in {p \in Paths : p.form \in {"relative", "rooted", "double"}}}
    \cup {<<"windows", OfPath(path)>> : path \in Paths \cup SharedPaths}

\* The file by its bare name, and by one that is not.
Bare == OfPath([form |-> "relative", parts |-> <<"f">>])
Single == OfPath([form |-> "relative", parts |-> <<".", "f">>])

Number(quarters, unit) == [sort |-> "number", quarters |-> quarters, unit |-> unit]
NotANumber == [sort |-> "empty", quarters |-> 0, unit |-> "h"]
Maybe(S) == {{}} \cup {{x} : x \in S}
Ages == {Number(q, u) : q \in {0, 1, 6, 8, 12, 16, 17, 18}, u \in {"h", "x"}}
            \cup {Number(4, "d"), Number(2, "d"), NotANumber}
SomeAgeUnits == ("h" :> 1) @@ ("d" :> 4)
SomeSizeUnits == ("b" :> 1) @@ ("k" :> 2)
Sizes == {Number(q, u) : q \in {0, 1, 4, 6, 7, 40}, u \in {"b", "k"}} \cup {Number(4, "x"), NotANumber}

AgeLines ==
    {[Single EXCEPT !.age = age, !.age_by = basis, !.dry_run = dry] :
        age \in Maybe(Ages), basis \in {"modified", "created", "sometime"}, dry \in BOOLEAN}
SizeLines ==
    {[Single EXCEPT !.min_size = min, !.max_size = max] : min \in Maybe(Sizes), max \in Maybe(Sizes)}
NameLines ==
    {[Single EXCEPT !.include = include, !.exclude = exclude, !.age = age] :
        include \in Maybe({"*", "f*", "*.x", "["}), exclude \in Maybe({"*", "f*", "*.x", "["}),
        age \in {{}, {Number(6, "h")}}}
OtherLines ==
    {[Single EXCEPT !.workers = w, !.parse = p] :
        w \in {"auto", "positive", "zero", "junk"}, p \in {"ok", "help", "bad"}} \cup {Plain}
RecoveryLines ==
    {[of EXCEPT !.mode = mode, !.kill_locks = kill, !.dry_run = dry] :
        of \in {Bare, Single}, mode \in {"normal", "force", "destroy"},
        kill \in BOOLEAN, dry \in BOOLEAN}
RemoteLine == [Single EXCEPT !.mode = "destroy", !.close_remote_locks = TRUE]
OptionLines ==
    {<<"posix", l>> : l \in AgeLines \cup SizeLines \cup NameLines \cup OtherLines \cup RecoveryLines}
    \cup {<<"windows", l>> : l \in RecoveryLines \cup {RemoteLine}}

AllLines == PathLines \cup OptionLines

SomeMatches == ("*" :> {"f", "up", "to", "lost"}) @@ ("f*" :> {"f"}) @@ ("*.x" :> {})
\* No line asks for a size and for an age.
SomeAttributes ==
    {[size |-> pair[1], times |-> [modified |-> {pair[2]}, created |-> created, accessed |-> {8}]] :
        pair \in ({0, 1, 2, 4} \X {4}) \cup ({1} \X {0, 4, 6, 8, 9}), created \in {{}, {2}}}

-----------------------------------------------------------------------------
(* The machines: up to two licence files and two certificates.                 *)
Keyring == ("alpha" :> "Ed25519") @@ ("beta" :> "ML-DSA-65")
Sig(key, algorithm, genuine) == [key |-> key, algorithm |-> algorithm, genuine |-> genuine]
Good == Sig("alpha", "Ed25519", TRUE)
Signings == {<<Good>>, <<Sig("alpha", "Ed25519", FALSE)>>,
             <<Sig("gamma", "Ed25519", TRUE), Good>>,
             <<Good, Sig("beta", "ML-DSA-65", FALSE)>>}
SomeSignatures == {Good, Sig("gamma", "Ed25519", TRUE), Sig("delta", "ML-DSA-87", TRUE),
                   Sig("beta", "ML-DSA-65", TRUE), Sig("beta", "ML-DSA-65", FALSE),
                   Sig("beta", "ECDSA-P256-SHA256", TRUE)}

Document(format, signatures, claims) ==
    [well_formed |-> TRUE, format |-> format, signatures |-> signatures, claims |-> claims]
Claims == [schema |-> 1, complete |-> TRUE, license_id |-> "biz", product_id |-> "cursedelete",
           major_version |-> 2, device_id |-> "here", edition |-> "business", issued_at |-> 1,
           perpetual |-> FALSE, expires_at |-> {3}, max_activations |-> {1}]
Perpetual(edition) ==
    [Claims EXCEPT !.license_id = edition, !.edition = edition, !.perpetual = TRUE,
                   !.expires_at = {}, !.max_activations = {}]
Subscription == Claims
Licences ==
    {Document("license", <<Good>>, c) :
        c \in {Perpetual("education"), Perpetual("community"),
               [Perpetual("education") EXCEPT !.expires_at = {2}, !.perpetual = FALSE],
               [Perpetual("education") EXCEPT !.product_id = "other"],
               [Perpetual("education") EXCEPT !.major_version = 1],
               [Perpetual("education") EXCEPT !.schema = 2],
               [Claims EXCEPT !.max_activations = {0}]}}
    \cup {Document("license", sigs, c) :
             sigs \in Signings, c \in {Perpetual("enterprise"), Subscription}}
    \cup {[Document("license", <<Good>>, Claims) EXCEPT !.well_formed = FALSE],
          Document("license", <<>>, Perpetual("enterprise")),
          Document("activation", <<Good>>, Perpetual("enterprise"))}
Certificates ==
    {Document("activation", sigs, [Claims EXCEPT !.expires_at = expiry, !.device_id = device]) :
        sigs \in {<<Good>>, <<Sig("gamma", "Ed25519", TRUE)>>}, expiry \in {{}, {2}},
        device \in {"here", "there"}}
    \cup {Document("activation", <<Good>>, [Claims EXCEPT !.license_id = "enterprise"])}

UpTo2(S) == UNION {[1 .. n -> S] : n \in 0 .. 2}
Arranged(override, user, system) == [override |-> override, user |-> user, system |-> system]
\* A system directory also has a file that holds other state.
Arrangements(docs) ==
    IF Len(docs) < 2 THEN {Arranged(<<>>, docs, <<>>)}
    ELSE {Arranged(<<>>, <<docs[1]>>, <<[sort |-> "reserved", doc |-> docs[1]],
                                     [sort |-> "licence", doc |-> docs[2]]>>)}
OfKind(candidates, certificates) ==
    {[candidates |-> Candidates(f), certificates |-> certs, revoked |-> revoked,
      device |-> "here", now |-> now] :
        f \in UNION {Arrangements(docs) : docs \in candidates}, certs \in certificates,
        revoked \in {{}, {"enterprise"}}, now \in {0, 3}}
SomeMachines ==
    OfKind(UpTo2(Licences), {<<>>, <<Document("activation", <<Good>>, [Claims EXCEPT !.expires_at = {}])>>})
    \cup OfKind({<<Document("license", <<Good>>, Subscription)>>}, UpTo2(Certificates))
TheAlgorithms == {"Ed25519", "ECDSA-P256-SHA256", "ML-DSA-65"}
=============================================================================
