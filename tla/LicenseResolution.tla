-------------------------- MODULE LicenseResolution --------------------------
(***************************************************************************)
(* Which edition is in effect on a machine, from the licence files, the    *)
(* activation certificates and the revocations found on it: the envelope   *)
(* (envelope.rs), the claims (claims.rs), what one build accepts           *)
(* (validate.rs, and cursdel-policy) and the choice among what is valid    *)
(* (resolve.rs).                                                           *)
(*                                                                         *)
(* A signature is what verifying it says; text that cannot be decoded is a *)
(* document that is not well-formed, and so is a file that cannot be read. *)
(* A value that may be missing is a set of at most one element.            *)
(***************************************************************************)
EXTENDS Naturals, Sequences, FiniteSets

CONSTANTS
    TrustedKeys,       \* TRUSTED_KEYS: the algorithm of each key id
    Supported,         \* SignatureAlgorithm::ALL
    Allowed,           \* ALLOWED_ALGORITHMS
    MaxSignatures,     \* MAX_SIGNATURES
    Product, MajorVersion, Schema,
    OfflineLimit       \* business_offline_limit

ASSUME ResolutionAssumption ==
    /\ MaxSignatures \in Nat
    /\ OfflineLimit \in SUBSET Nat

-----------------------------------------------------------------------------
(* The envelope *)

Keys == DOMAIN TrustedKeys

\* Signatures this build passes over, for one of three reasons.
Unsupported(s) == s.algorithm \notin Supported
Disallowed(s)  == ~ Unsupported(s) /\ s.algorithm \notin Allowed
Untrusted(s)   == ~ Unsupported(s) /\ ~ Disallowed(s) /\ s.key \notin Keys
Usable(s)      == s.algorithm \in Supported \cap Allowed /\ s.key \in Keys

\* A signature this build relies on is made with the key's own algorithm, and
\* verifies.
MadeForItsKey(s) == TrustedKeys[s.key] = s.algorithm
Verifies(s) == MadeForItsKey(s) /\ s.genuine

Signatures(doc) == {doc.signatures[i] : i \in DOMAIN doc.signatures}

\* A document, as far as it could be read; its times are after the clock's beginning.
IsDocument(doc) ==
    /\ DOMAIN doc = {"well_formed", "format", "signatures", "claims"}
    /\ doc.signatures \in Seq(Signatures(doc))
    /\ doc.claims.expires_at \subseteq Nat /\ doc.claims.issued_at \in Nat

SignedOnce(doc) ==
    \A i, j \in DOMAIN doc.signatures :
        doc.signatures[i].key = doc.signatures[j].key => i = j

\* Mutant: a signature that cannot be used refuses the envelope.
OpenStrictly(doc, format) ==
    IF doc.well_formed /\ doc.format = format
         /\ \A s \in Signatures(doc) : Usable(s) /\ Verifies(s)
    THEN "ok" ELSE "malformed"

\* The signatures that refuse the envelope, by their position; the first decides why.
Wrong(doc) ==
    {i \in DOMAIN doc.signatures : Usable(doc.signatures[i]) /\ ~ Verifies(doc.signatures[i])}

\* What remains to be said of signatures of which none is wrong.
Best(sigs) ==
    IF \E s \in sigs : Usable(s) THEN "ok"
    ELSE IF \E s \in sigs : Untrusted(s) THEN "untrusted_key"
    ELSE IF \E s \in sigs : Disallowed(s) THEN "disallowed_algorithm"
    ELSE "unsupported_algorithm"

\* envelope::open: one usable signature is enough, and none may be wrong.
Open(doc, format) ==
    IF ~ doc.well_formed THEN "malformed"
    ELSE IF doc.format # format THEN "unsupported_format"
    ELSE IF Len(doc.signatures) \notin 1 .. MaxSignatures \/ ~ SignedOnce(doc) THEN "malformed"
    ELSE IF Wrong(doc) = {} THEN Best(Signatures(doc))
    ELSE LET first == CHOOSE i \in Wrong(doc) : \A j \in Wrong(doc) : i <= j
         IN  IF MadeForItsKey(doc.signatures[first]) THEN "invalid_signature" ELSE "malformed"

-----------------------------------------------------------------------------
(* The claims *)

\* Edition, in its order of precedence; and how high a name stands in it.
EditionOrder == <<"community", "education", "business", "enterprise">>
Editions == {EditionOrder[i] : i \in 1 .. 4}
Rank(edition) == CHOOSE i \in 1 .. 4 : EditionOrder[i] = edition

RequiresActivation(claims) == claims.edition = "business"

\* Term: a subscription ends after it was issued, and only Business may be one.
TermIsSound(claims) ==
    /\ claims.perpetual <=> claims.expires_at = {}
    /\ \A t \in claims.expires_at : t > claims.issued_at
    /\ claims.perpetual \/ claims.edition = "business"

SeatsAreSound(claims) ==
    IF claims.edition = "business" THEN \E n \in claims.max_activations : n >= 1
    ELSE claims.max_activations = {}

\* parse_license, after the envelope has been opened.  `complete`: every field it
\* asks for is there and not empty, and there is no other.
ParseLicense(claims) ==
    IF claims.schema # Schema THEN "unsupported_schema"
    ELSE IF claims.complete /\ claims.edition \in Editions
              /\ TermIsSound(claims) /\ SeatsAreSound(claims)
    THEN "ok" ELSE "malformed"

\* parse_activation
ParseActivation(claims) ==
    IF claims.schema # Schema THEN "unsupported_schema"
    ELSE IF claims.complete /\ \A t \in claims.expires_at : t > claims.issued_at
    THEN "ok" ELSE "malformed"

-----------------------------------------------------------------------------
(* What this build accepts *)

\* check_identity
CheckIdentity(claims) ==
    IF claims.product_id # Product THEN "wrong_product"
    ELSE IF claims.major_version # MajorVersion THEN "wrong_major_version"
    ELSE "ok"

Expired(claims, now) == \E t \in claims.expires_at : now >= t

\* verify_license_identity: signature, claims, product, version, in this order.
VerifyLicenseIdentity(doc) ==
    LET opened == Open(doc, "license")
        parsed == ParseLicense(doc.claims)
    IN  IF opened # "ok" THEN opened
        ELSE IF parsed # "ok" THEN parsed
        ELSE CheckIdentity(doc.claims)

\* Mutant: a licence is not accepted before the day it was issued.
VerifyLicenseFromIssue(doc, now) ==
    IF VerifyLicenseIdentity(doc) # "ok" THEN VerifyLicenseIdentity(doc)
    ELSE IF Expired(doc.claims, now) \/ now < doc.claims.issued_at THEN "expired"
    ELSE "ok"

\* verify_license
VerifyLicense(doc, now) ==
    IF VerifyLicenseIdentity(doc) # "ok" THEN VerifyLicenseIdentity(doc)
    ELSE IF Expired(doc.claims, now) THEN "expired"
    ELSE "ok"

\* verify_activation: a certificate activates one licence on one device, until it
\* expires or has not been refreshed for too long.
VerifyActivation(cert, license, device, now) ==
    /\ Open(cert, "activation") = "ok"
    /\ ParseActivation(cert.claims) = "ok"
    /\ CheckIdentity(cert.claims) = "ok"
    /\ cert.claims.license_id = license.license_id
    /\ cert.claims.device_id = device
    /\ ~ Expired(cert.claims, now)
    /\ \A limit \in OfflineLimit : now < cert.claims.issued_at + limit

-----------------------------------------------------------------------------
(* The choice.  A machine has candidate files in their order of precedence,   *)
(* certificates, revocations, a device id and a clock.                         *)

\* Candidate, LocalState
IsMachine(m) ==
    /\ DOMAIN m = {"candidates", "certificates", "revoked", "device", "now"}
    /\ m.candidates \in Seq({m.candidates[i] : i \in DOMAIN m.candidates})
    /\ m.certificates \in Seq({m.certificates[i] : i \in DOMAIN m.certificates})
    /\ \A i \in DOMAIN m.candidates : IsDocument(m.candidates[i])
    /\ \A i \in DOMAIN m.certificates : IsDocument(m.certificates[i])
    /\ m.now \in Nat

\* LicenseLocations::candidates: the file the user names, the user's own, and the
\* files of the system directory in the order of their names, but for those that
\* hold other state, are hidden or have another extension.
Candidates(files) ==
    files.override \o files.user
        \o [i \in DOMAIN SelectSeq(files.system, LAMBDA f : f.sort = "licence") |->
               SelectSeq(files.system, LAMBDA f : f.sort = "licence")[i].doc]

\* What resolve says of one candidate.
Outcome(m, doc) ==
    IF VerifyLicense(doc, m.now) # "ok" THEN VerifyLicense(doc, m.now)
    ELSE IF doc.claims.license_id \in m.revoked THEN "revoked"
    ELSE IF ~ RequiresActivation(doc.claims) THEN "ok"
    ELSE IF \E i \in DOMAIN m.certificates :
                VerifyActivation(m.certificates[i], doc.claims, m.device, m.now)
    THEN "ok"
    ELSE IF m.certificates = <<>> THEN "activation_required"
    ELSE "activation_invalid"

Valid(m) == {i \in DOMAIN m.candidates : Outcome(m, m.candidates[i]) = "ok"}

RankAt(m, i) == Rank(m.candidates[i].claims.edition)

\* resolve: the highest edition, and of those the first.
Active(m) ==
    {i \in Valid(m) : \A j \in Valid(m) :
        RankAt(m, j) < RankAt(m, i) \/ (RankAt(m, j) = RankAt(m, i) /\ i <= j)}

\* Resolution::edition, as its rank: without a licence, that of Community.
EditionRank(m) ==
    IF Active(m) = {} THEN 1 ELSE RankAt(m, CHOOSE i \in Active(m) : TRUE)

\* Feature::is_enabled
CloseRemoteLocksIsEnabled(m) == EditionOrder[EditionRank(m)] \in {"business", "enterprise"}

-----------------------------------------------------------------------------
(* What is done to a machine *)

Inserted(s, x, place) == SubSeq(s, 1, place) \o <<x>> \o SubSeq(s, place + 1, Len(s))

WithCandidate(m, doc, place) == [m EXCEPT !.candidates = Inserted(@, doc, place)]
WithCertificate(m, cert, place) == [m EXCEPT !.certificates = Inserted(@, cert, place)]
WithSignature(m, i, s, place) == [m EXCEPT !.candidates[i].signatures = Inserted(@, s, place)]
Later(m, now) == [m EXCEPT !.now = now]

\* An envelope has room for one more signature, whose key has not signed before, and
\* which is not one that can be used and does not verify.
MayAlsoSign(doc, s) ==
    /\ Len(doc.signatures) + 1 <= MaxSignatures
    /\ \A t \in Signatures(doc) : t.key # s.key
    /\ Usable(s) => Verifies(s)
=============================================================================
