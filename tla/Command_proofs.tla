--------------------------- MODULE Command_proofs ---------------------------
(***************************************************************************)
(* `cursdel <path> [options]` for every file system, command line, filter  *)
(* and licence: no root is the target, the filters decide as they were     *)
(* typed, the exit code says what was done, and time gives no edition.     *)
(* On any machine the edition in effect is the highest of the licences     *)
(* that are valid there; no licence and no certificate that is added       *)
(* lowers it, and no signature does that may stand beside the others.      *)
(***************************************************************************)
EXTENDS Command, SequenceTheorems, WellFoundedInduction, TLAPS

-----------------------------------------------------------------------------
(* The edition in effect: the choice among the licences that are valid *)

\* What is valid has an edition, and an edition a rank.
LEMMA ValidHasRank ==
    ASSUME NEW m, NEW i \in Valid(m)
    PROVE  RankAt(m, i) \in 1 .. 4
<1>1. Outcome(m, m.candidates[i]) = "ok"
  BY DEF Valid
<1>2. VerifyLicense(m.candidates[i], m.now) = "ok"
  BY <1>1 DEF Outcome
<1>3. VerifyLicenseIdentity(m.candidates[i]) = "ok"
  BY <1>2 DEF VerifyLicense
<1>4. ParseLicense(m.candidates[i].claims) = "ok"
  BY <1>3 DEF VerifyLicenseIdentity
<1>5. m.candidates[i].claims.edition \in Editions
  BY <1>4 DEF ParseLicense
<1>6. \E r \in 1 .. 4 : EditionOrder[r] = m.candidates[i].claims.edition
  BY <1>5 DEF Editions
<1> QED BY <1>6 DEF RankAt, Rank

\* A set of positions has a first one.
LEMMA FirstOf ==
    ASSUME NEW S, S \subseteq Nat, S # {}
    PROVE  \E first \in S : \A i \in S : first <= i
<1> DEFINE R == {pair \in Nat \X Nat : pair[1] < pair[2]}
<1>1. IsWellFoundedOn(R, Nat)
  BY NatLessThanWellFounded DEF OpToRel
<1>2. \A i, j \in Nat : <<i, j>> \in R <=> i < j
  OBVIOUS
<1> HIDE DEF R
<1>3. PICK first \in S : \A i \in S : ~ (<<i, first>> \in R)
  BY <1>1, WFMin
<1>4. \A i \in S : ~ (i < first)
  BY <1>2, <1>3
<1> QED BY <1>4

\* resolve.rs:3-8: resolve picks a valid licence than which none is higher, or stays
\* with Community.
THEOREM EditionIsHighest ==
    ASSUME NEW m, IsMachine(m)
    PROVE  /\ EditionRank(m) \in 1 .. 4
           /\ \A i \in Valid(m) : RankAt(m, i) <= EditionRank(m)
           /\ \/ EditionRank(m) = 1
              \/ \E i \in Valid(m) : RankAt(m, i) = EditionRank(m)
<1>1. Valid(m) \subseteq Nat
  BY DEF IsMachine, Valid
<1>2. \A i \in Valid(m) : RankAt(m, i) \in 1 .. 4
  BY ValidHasRank
<1>3. CASE Active(m) = {}
  <2>1. Valid(m) = {}
    <3> SUFFICES ASSUME Valid(m) # {} PROVE FALSE
      OBVIOUS
    <3> DEFINE OfRank(r) == {i \in Valid(m) : RankAt(m, i) = r}
    <3>1. PICK r \in 1 .. 4 : OfRank(r) # {} /\ \A q \in r + 1 .. 4 : OfRank(q) = {}
      <4> DEFINE Has(r) == OfRank(r) # {}
      <4>1. Has(1) \/ Has(2) \/ Has(3) \/ Has(4)
        BY <1>2
      <4> HIDE DEF Has
      <4>2. \E r \in 1 .. 4 : Has(r) /\ \A q \in r + 1 .. 4 : ~ Has(q)
        <5>1. CASE Has(4)
          BY <5>1
        <5>2. CASE ~ Has(4) /\ Has(3)
          BY <5>2
        <5>3. CASE ~ Has(4) /\ ~ Has(3) /\ Has(2)
          BY <5>3
        <5>4. CASE ~ Has(4) /\ ~ Has(3) /\ ~ Has(2) /\ Has(1)
          BY <5>4
        <5> QED BY <4>1, <5>1, <5>2, <5>3, <5>4
      <4> QED BY <4>2 DEF Has
    <3>2. PICK first \in OfRank(r) : \A i \in OfRank(r) : first <= i
      BY <1>1, <3>1, FirstOf
    <3>3. \A j \in Valid(m) : RankAt(m, j) <= r
      BY <1>2, <3>1
    <3>4. first \in Active(m)
      BY <1>2, <3>2, <3>3 DEF Active
    <3> QED BY <1>3, <3>4
  <2> QED BY <1>3, <2>1 DEF EditionRank
<1>4. CASE Active(m) # {}
  <2>1. PICK a \in Active(m) : a = CHOOSE i \in Active(m) : TRUE
    BY <1>4
  <2>2. EditionRank(m) = RankAt(m, a)
    BY <1>4, <2>1 DEF EditionRank
  <2>3. a \in Valid(m) /\ \A j \in Valid(m) : RankAt(m, j) <= RankAt(m, a)
    BY <1>2 DEF Active
  <2> QED BY <1>2, <2>2, <2>3
<1> QED BY <1>3, <1>4

\* A machine on which whatever is valid on another one has its like is not lower.
LEMMA NoLower ==
    ASSUME NEW m, IsMachine(m), NEW n, IsMachine(n),
           \A i \in Valid(m) : \E j \in Valid(n) : RankAt(n, j) = RankAt(m, i)
    PROVE  EditionRank(n) >= EditionRank(m)
<1>1. CASE EditionRank(m) = 1
  BY <1>1, EditionIsHighest
<1>2. CASE \E i \in Valid(m) : RankAt(m, i) = EditionRank(m)
  BY <1>2, EditionIsHighest
<1> QED BY <1>1, <1>2, EditionIsHighest

-----------------------------------------------------------------------------
(* Time *)

\* validate.rs: what is expired or stale stays so, and nothing else depends on the
\* clock; so no licence is valid later that is not valid now.
LEMMA LaterIsNoHigher ==
    ASSUME NEW m, IsMachine(m), NEW now \in Nat, now >= m.now
    PROVE  EditionRank(Later(m, now)) <= EditionRank(m)
<1> DEFINE l == Later(m, now)
<1>1. /\ l.candidates = m.candidates /\ l.certificates = m.certificates
      /\ l.revoked = m.revoked /\ l.device = m.device /\ l.now = now
      /\ DOMAIN l = DOMAIN m
  BY DEF Later, IsMachine
<1>2. IsMachine(l)
  BY <1>1 DEF IsMachine
<1> HIDE DEF l
<1>3. ASSUME NEW doc, IsDocument(doc), Expired(doc.claims, m.now)
      PROVE  Expired(doc.claims, now)
  BY <1>3 DEF Expired, IsDocument, IsMachine
<1>4. ASSUME NEW cert, IsDocument(cert), NEW license,
             VerifyActivation(cert, license, m.device, now)
      PROVE  VerifyActivation(cert, license, m.device, m.now)
  <2>1. ~ Expired(cert.claims, m.now)
    BY <1>3, <1>4 DEF VerifyActivation
  <2>2. \A limit \in OfflineLimit : m.now < cert.claims.issued_at + limit
    BY <1>4, ResolutionAssumption DEF VerifyActivation, IsDocument, IsMachine
  <2> QED BY <1>4, <2>1, <2>2 DEF VerifyActivation
<1>5. ASSUME NEW doc, IsDocument(doc), Outcome(l, doc) = "ok"
      PROVE  Outcome(m, doc) = "ok"
  <2>1. VerifyLicense(doc, now) = "ok"
    BY <1>1, <1>5 DEF Outcome
  <2>2. VerifyLicense(doc, m.now) = "ok"
    BY <1>3, <1>5, <2>1 DEF VerifyLicense
  <2>3. doc.claims.license_id \notin m.revoked
    BY <1>1, <1>5, <2>1 DEF Outcome
  <2>4. CASE ~ RequiresActivation(doc.claims)
    BY <2>2, <2>3, <2>4 DEF Outcome
  <2>5. CASE RequiresActivation(doc.claims)
    <3>1. PICK i \in DOMAIN m.certificates :
             VerifyActivation(m.certificates[i], doc.claims, m.device, now)
      BY <1>1, <1>5, <2>1, <2>3, <2>5 DEF Outcome
    <3>2. VerifyActivation(m.certificates[i], doc.claims, m.device, m.now)
      BY <1>4, <3>1 DEF IsMachine
    <3> QED BY <2>2, <2>3, <2>5, <3>2 DEF Outcome
  <2> QED BY <2>4, <2>5
<1>6. \A i \in Valid(l) : i \in Valid(m) /\ RankAt(m, i) = RankAt(l, i)
  BY <1>1, <1>5 DEF Valid, RankAt, IsMachine
<1>7. EditionRank(m) >= EditionRank(l)
  BY <1>2, <1>6, NoLower
<1> QED BY <1>2, <1>7, EditionIsHighest DEF l
-----------------------------------------------------------------------------
(* More *)

\* The elements of a sequence, which is one of them.
Elements(s) == {s[i] : i \in DOMAIN s}

LEMMA SequenceOfElements ==
    ASSUME NEW X, NEW s \in Seq(X)
    PROVE  s \in Seq(Elements(s))
<1>1. Len(s) \in Nat /\ DOMAIN s = 1 .. Len(s) /\ s \in [1 .. Len(s) -> X]
  BY LenProperties
<1>2. s \in [1 .. Len(s) -> Elements(s)]
  BY <1>1 DEF Elements
<1> HIDE DEF Elements
<1> QED BY <1>1, <1>2

\* Where the elements of a sequence stand when one is put between them.
Moved(i, place) == IF i <= place THEN i ELSE i + 1

LEMMA InsertPlaces ==
    ASSUME NEW s, s \in Seq(Elements(s)), NEW x, NEW place \in 0 .. Len(s),
           NEW n, n = Inserted(s, x, place)
    PROVE  /\ n \in Seq(Elements(n))
           /\ \E len \in Nat :
                 /\ len = Len(s) /\ DOMAIN s = 1 .. len /\ place <= len /\ place \in Nat
                 /\ Len(n) = len + 1 /\ DOMAIN n = 1 .. len + 1
                 /\ n[place + 1] = x
                 /\ \A i \in 1 .. len : n[Moved(i, place)] = s[i]
<1>1. PICK X : s \in Seq(X) /\ x \in X
  <2>1. s \in Seq(Elements(s) \cup {x})
    OBVIOUS
  <2> QED BY <2>1
<1>2. PICK len \in Nat : len = Len(s) /\ place \in Nat /\ place <= len
  BY <1>1, LenProperties
<1>3. DOMAIN s = 1 .. len /\ \A i \in 1 .. len : s[i] \in X
  BY <1>1, <1>2, LenProperties, ElementOfSeq
<1>4. PICK before : /\ before = SubSeq(s, 1, place)
                    /\ before \in Seq(X) /\ Len(before) = place
                    /\ \A i \in 1 .. place : before[i] = s[i]
  <2>1. place \in Int /\ \A i \in 1 .. place : s[i] \in X
    BY <1>2, <1>3
  <2>2. /\ SubSeq(s, 1, place) \in Seq(X)
        /\ Len(SubSeq(s, 1, place)) = IF 1 <= place THEN place - 1 + 1 ELSE 0
        /\ \A i \in 1 .. place - 1 + 1 : SubSeq(s, 1, place)[i] = s[1 + i - 1]
    BY <2>1, SubSeqProperties
  <2>3. \A i \in 1 .. place : i \in 1 .. place - 1 + 1 /\ 1 + i - 1 = i
    BY <1>2
  <2>4. (IF 1 <= place THEN place - 1 + 1 ELSE 0) = place
    BY <1>2
  <2> QED BY <2>2, <2>3, <2>4
<1>5. PICK after : /\ after = SubSeq(s, place + 1, Len(s))
                   /\ after \in Seq(X) /\ Len(after) = len - place
                   /\ \A i \in 1 .. len - place : after[i] = s[place + i]
  <2>1. place + 1 \in Int /\ len \in Int /\ \A i \in place + 1 .. len : s[i] \in X
    BY <1>2, <1>3
  <2>2. /\ SubSeq(s, place + 1, len) \in Seq(X)
        /\ Len(SubSeq(s, place + 1, len)) = IF place + 1 <= len THEN len - (place + 1) + 1 ELSE 0
        /\ \A i \in 1 .. len - (place + 1) + 1 : SubSeq(s, place + 1, len)[i] = s[place + 1 + i - 1]
    BY <2>1, SubSeqProperties
  <2>3. \A i \in 1 .. len - place : i \in 1 .. len - (place + 1) + 1 /\ place + 1 + i - 1 = place + i
    BY <1>2
  <2>4. (IF place + 1 <= len THEN len - (place + 1) + 1 ELSE 0) = len - place
    BY <1>2
  <2>5. \A i \in 1 .. len - place : SubSeq(s, place + 1, len)[i] = s[place + i]
    BY <2>2, <2>3
  <2> QED BY <1>2, <2>2, <2>4, <2>5
<1>6. <<x>> \in Seq(X) /\ Len(<<x>>) = 1 /\ <<x>>[1] = x
  BY <1>1
<1>7. PICK start : /\ start = before \o <<x>>
                   /\ start \in Seq(X) /\ Len(start) = place + 1
                   /\ \A i \in 1 .. place : start[i] = s[i]
                   /\ start[place + 1] = x
  <2>1. /\ before \o <<x>> \in Seq(X) /\ Len(before \o <<x>>) = place + 1
        /\ \A i \in 1 .. place + 1 : (before \o <<x>>)[i] =
              IF i <= place THEN before[i] ELSE <<x>>[i - place]
    BY <1>4, <1>6, ConcatProperties
  <2>2. place \in Nat /\ place + 1 \in 1 .. place + 1 /\ ~ (place + 1 <= place) /\ (place + 1) - place = 1
    BY <1>2
  <2>3. (before \o <<x>>)[place + 1] = x
    BY <1>6, <2>1, <2>2
  <2>4. \A i \in 1 .. place : (before \o <<x>>)[i] = s[i]
    BY <1>4, <2>1, <2>2
  <2> QED BY <2>1, <2>3, <2>4
<1>8. /\ n \in Seq(X) /\ Len(n) = len + 1
      /\ \A i \in 1 .. len + 1 : n[i] = IF i <= place + 1 THEN start[i] ELSE s[i - 1]
  <2>1. n = start \o after
    BY <1>4, <1>5, <1>7 DEF Inserted
  <2>2. /\ n \in Seq(X) /\ Len(n) = (place + 1) + (len - place)
        /\ \A i \in 1 .. (place + 1) + (len - place) :
              n[i] = IF i <= place + 1 THEN start[i] ELSE after[i - (place + 1)]
    <3>1. /\ start \o after \in Seq(X) /\ Len(start \o after) = Len(start) + Len(after)
          /\ \A i \in 1 .. Len(start) + Len(after) :
                (start \o after)[i] = IF i <= Len(start) THEN start[i]
                                      ELSE after[i - Len(start)]
      <4>1. start \in Seq(X) /\ after \in Seq(X)
        BY <1>5, <1>7
      <4> QED BY <4>1, ConcatProperties
    <3> QED BY <1>5, <1>7, <2>1, <3>1
  <2>3. (place + 1) + (len - place) = len + 1
    BY <1>2
  <2>4. ASSUME NEW i \in 1 .. len + 1, ~ (i <= place + 1)
        PROVE  after[i - (place + 1)] = s[i - 1]
    <3>1. i - (place + 1) \in 1 .. len - place /\ place + (i - (place + 1)) = i - 1
      BY <1>2, <2>4
    <3> QED BY <1>5, <3>1
  <2> QED BY <2>2, <2>3, <2>4
<1>9. DOMAIN n = 1 .. len + 1
  BY <1>8, LenProperties
<1>10. n[place + 1] = x
  <2>1. place + 1 \in 1 .. len + 1
    BY <1>2
  <2> QED BY <1>7, <1>8, <2>1
<1>11. ASSUME NEW i \in 1 .. len PROVE n[Moved(i, place)] = s[i]
  <2>1. CASE i <= place
    <3>1. i \in 1 .. len + 1 /\ i \in 1 .. place /\ i <= place + 1
      BY <1>2, <2>1
    <3> QED BY <1>7, <1>8, <2>1, <3>1 DEF Moved
  <2>2. CASE ~ (i <= place)
    <3>1. i + 1 \in 1 .. len + 1 /\ ~ (i + 1 <= place + 1) /\ (i + 1) - 1 = i
      BY <1>2, <2>2
    <3> QED BY <1>8, <2>2, <3>1 DEF Moved
  <2> QED BY <2>1, <2>2
<1>12. n \in Seq(Elements(n))
  BY <1>8, SequenceOfElements
<1>13. /\ len = Len(s) /\ DOMAIN s = 1 .. len /\ place <= len /\ place \in Nat
       /\ Len(n) = len + 1 /\ DOMAIN n = 1 .. len + 1
       /\ n[place + 1] = x
       /\ \A i \in 1 .. len : n[Moved(i, place)] = s[i]
  BY <1>2, <1>3, <1>8, <1>9, <1>10, <1>11
<1>14. \E l \in Nat :
          /\ l = Len(s) /\ DOMAIN s = 1 .. l /\ place <= l /\ place \in Nat
          /\ Len(n) = l + 1 /\ DOMAIN n = 1 .. l + 1
          /\ n[place + 1] = x
          /\ \A i \in 1 .. l : n[Moved(i, place)] = s[i]
  <2> WITNESS len \in Nat
  <2> QED BY <1>13
<1> QED BY <1>12, <1>14

\* All of them are still in it, and nothing else but what was put there.
LEMMA InsertKeeps ==
    ASSUME NEW s, s \in Seq(Elements(s)), NEW x, NEW place \in 0 .. Len(s),
           NEW n, n = Inserted(s, x, place)
    PROVE  /\ n \in Seq(Elements(n))
           /\ \A i \in DOMAIN s : \E j \in DOMAIN n : n[j] = s[i]
           /\ \A j \in DOMAIN n : n[j] = x \/ \E i \in DOMAIN s : n[j] = s[i]
<1>1. n \in Seq(Elements(n))
  BY InsertPlaces
<1>2. PICK len \in Nat :
         /\ len = Len(s) /\ DOMAIN s = 1 .. len /\ place <= len /\ place \in Nat
         /\ Len(n) = len + 1 /\ DOMAIN n = 1 .. len + 1
         /\ n[place + 1] = x
         /\ \A i \in 1 .. len : n[Moved(i, place)] = s[i]
  BY InsertPlaces
<1>3. ASSUME NEW i \in DOMAIN s PROVE \E j \in DOMAIN n : n[j] = s[i]
  <2>1. Moved(i, place) \in 1 .. len + 1 /\ i \in 1 .. len
    BY <1>2 DEF Moved
  <2> QED BY <1>2, <2>1
<1>4. ASSUME NEW j \in DOMAIN n PROVE n[j] = x \/ \E i \in DOMAIN s : n[j] = s[i]
  <2>1. j \in 1 .. len + 1
    BY <1>2
  <2>2. CASE j = place + 1
    BY <1>2, <2>2
  <2>3. CASE j <= place
    <3>1. j \in 1 .. len
      BY <1>2, <2>1, <2>3
    <3>2. n[j] = s[j]
      BY <1>2, <2>3, <3>1 DEF Moved
    <3> QED BY <1>2, <3>1, <3>2
  <2>4. CASE ~ (j <= place) /\ j # place + 1
    <3>1. j - 1 \in 1 .. len /\ ~ (j - 1 <= place) /\ (j - 1) + 1 = j
      BY <1>2, <2>1, <2>4
    <3>2. n[(j - 1) + 1] = s[j - 1]
      BY <1>2, <3>1 DEF Moved
    <3> QED BY <1>2, <3>1, <3>2
  <2> QED BY <2>2, <2>3, <2>4
<1> QED BY <1>1, <1>3, <1>4

\* resolve.rs: a file among the candidates changes nothing of what the others are.
LEMMA CandidateIsNoLoss ==
    ASSUME NEW m, IsMachine(m), NEW doc, IsDocument(doc), NEW place \in 0 .. Len(m.candidates)
    PROVE  EditionRank(WithCandidate(m, doc, place)) >= EditionRank(m)
<1> DEFINE n == WithCandidate(m, doc, place)
<1>1. /\ n.candidates = Inserted(m.candidates, doc, place)
      /\ n.certificates = m.certificates /\ n.revoked = m.revoked
      /\ n.device = m.device /\ n.now = m.now /\ DOMAIN n = DOMAIN m
  BY DEF WithCandidate, IsMachine, Inserted
<1> HIDE DEF n
<1>2. /\ n.candidates \in Seq(Elements(n.candidates))
      /\ \A i \in DOMAIN m.candidates : \E j \in DOMAIN n.candidates :
            n.candidates[j] = m.candidates[i]
      /\ \A j \in DOMAIN n.candidates : n.candidates[j] = doc \/
            \E i \in DOMAIN m.candidates : n.candidates[j] = m.candidates[i]
  <2>1. m.candidates \in Seq(Elements(m.candidates))
    BY DEF IsMachine, Elements
  <2> QED BY <1>1, <2>1, InsertKeeps
<1>3. IsMachine(n)
  BY <1>1, <1>2 DEF IsMachine, Elements
<1>4. \A d : Outcome(n, d) = Outcome(m, d)
  BY <1>1 DEF Outcome
<1>5. ASSUME NEW i \in Valid(m) PROVE \E j \in Valid(n) : RankAt(n, j) = RankAt(m, i)
  <2>1. i \in DOMAIN m.candidates /\ Outcome(m, m.candidates[i]) = "ok"
    BY DEF Valid
  <2>2. PICK j \in DOMAIN n.candidates : n.candidates[j] = m.candidates[i]
    BY <1>2, <2>1
  <2>3. j \in Valid(n)
    BY <1>4, <2>1, <2>2 DEF Valid
  <2>4. RankAt(n, j) = RankAt(m, i)
    BY <2>2 DEF RankAt
  <2> QED BY <2>3, <2>4
<1> QED BY <1>3, <1>5, NoLower DEF n

\* resolve.rs: one valid certificate is enough, whatever the others are.
LEMMA CertificateIsNoLoss ==
    ASSUME NEW m, IsMachine(m), NEW cert, IsDocument(cert),
           NEW place \in 0 .. Len(m.certificates)
    PROVE  EditionRank(WithCertificate(m, cert, place)) >= EditionRank(m)
<1> DEFINE n == WithCertificate(m, cert, place)
<1>1. /\ n.certificates = Inserted(m.certificates, cert, place)
      /\ n.candidates = m.candidates /\ n.revoked = m.revoked
      /\ n.device = m.device /\ n.now = m.now /\ DOMAIN n = DOMAIN m
  BY DEF WithCertificate, IsMachine, Inserted
<1> HIDE DEF n
<1>2. /\ n.certificates \in Seq(Elements(n.certificates))
      /\ \A i \in DOMAIN m.certificates : \E j \in DOMAIN n.certificates :
            n.certificates[j] = m.certificates[i]
      /\ \A j \in DOMAIN n.certificates : n.certificates[j] = cert \/
            \E i \in DOMAIN m.certificates : n.certificates[j] = m.certificates[i]
  <2>1. m.certificates \in Seq(Elements(m.certificates))
    BY DEF IsMachine, Elements
  <2> QED BY <1>1, <2>1, InsertKeeps
<1>3. IsMachine(n)
  BY <1>1, <1>2 DEF IsMachine, Elements
<1>4. ASSUME NEW doc, Outcome(m, doc) = "ok" PROVE Outcome(n, doc) = "ok"
  <2>1. VerifyLicense(doc, n.now) = "ok" /\ doc.claims.license_id \notin n.revoked
    BY <1>1, <1>4 DEF Outcome
  <2>2. CASE ~ RequiresActivation(doc.claims)
    BY <2>1, <2>2 DEF Outcome
  <2>3. CASE RequiresActivation(doc.claims)
    <3>1. PICK i \in DOMAIN m.certificates :
             VerifyActivation(m.certificates[i], doc.claims, m.device, m.now)
      BY <1>1, <1>4, <2>1, <2>3 DEF Outcome
    <3>2. PICK j \in DOMAIN n.certificates : n.certificates[j] = m.certificates[i]
      BY <1>2
    <3> QED BY <1>1, <2>1, <2>3, <3>1, <3>2 DEF Outcome
  <2> QED BY <2>2, <2>3
<1>5. \A i \in Valid(m) : i \in Valid(n) /\ RankAt(n, i) = RankAt(m, i)
  BY <1>1, <1>4 DEF Valid, RankAt
<1> QED BY <1>3, <1>5, NoLower DEF n

\* envelope.rs: with one more signature, at whatever place, an envelope that opened
\* still does, if the signature may be there; and one that did not open does not, if
\* the signature cannot be used or does not verify.
LEMMA SignatureOpens ==
    ASSUME NEW doc, IsDocument(doc), NEW s, NEW place \in 0 .. Len(doc.signatures),
           NEW more, more.signatures = Inserted(doc.signatures, s, place),
           more.well_formed = doc.well_formed, more.format = doc.format,
           more.claims = doc.claims
    PROVE  /\ MayAlsoSign(doc, s) /\ Open(doc, "license") = "ok" => Open(more, "license") = "ok"
           /\ ~ (Usable(s) /\ Verifies(s)) /\ Open(more, "license") = "ok" =>
                 Open(doc, "license") = "ok"
<1> DEFINE old == doc.signatures
           new == more.signatures
<1>1. old \in Seq(Elements(old))
  BY DEF IsDocument, Signatures, Elements
<1>2. PICK len \in Nat :
         /\ len = Len(old) /\ DOMAIN old = 1 .. len /\ place <= len /\ place \in Nat
         /\ Len(new) = len + 1 /\ DOMAIN new = 1 .. len + 1
         /\ new[place + 1] = s
         /\ \A i \in 1 .. len : new[Moved(i, place)] = old[i]
  BY <1>1, InsertPlaces
<1> DEFINE moved(i) == Moved(i, place)
<1>3. /\ \A i \in 1 .. len : moved(i) \in 1 .. len + 1 /\ moved(i) # place + 1
      /\ \A i, j \in 1 .. len : moved(i) = moved(j) => i = j
      /\ \A k \in 1 .. len + 1 : k = place + 1 \/ \E i \in 1 .. len : k = moved(i)
  <2>1. ASSUME NEW k \in 1 .. len + 1, k # place + 1
        PROVE  \E i \in 1 .. len : k = moved(i)
    <3>1. CASE k <= place
      <4>1. k \in 1 .. len /\ k = moved(k)
        BY <1>2, <3>1 DEF Moved
      <4> QED BY <4>1
    <3>2. CASE ~ (k <= place)
      <4>1. k - 1 \in 1 .. len /\ ~ (k - 1 <= place) /\ k = (k - 1) + 1
        BY <1>2, <2>1, <3>2
      <4>2. k = moved(k - 1)
        BY <4>1 DEF Moved
      <4> QED BY <4>1, <4>2
    <3> QED BY <3>1, <3>2
  <2>2. /\ \A i \in 1 .. len : moved(i) \in 1 .. len + 1 /\ moved(i) # place + 1
        /\ \A i, j \in 1 .. len : moved(i) = moved(j) => i = j
    BY <1>2 DEF Moved
  <2> QED BY <2>1, <2>2
<1>4. \A i \in 1 .. len : new[moved(i)] = old[i]
  BY <1>2
<1>5. place + 1 \in 1 .. len + 1
  BY <1>2
<1> HIDE DEF moved
<1>6. Signatures(more) = Signatures(doc) \cup {s}
  <2>1. ASSUME NEW k \in 1 .. len + 1 PROVE new[k] \in Signatures(doc) \cup {s}
    <3>1. CASE k = place + 1
      BY <1>2, <3>1
    <3>2. CASE k # place + 1
      <4>1. PICK i \in 1 .. len : k = moved(i)
        BY <1>3, <3>2
      <4>2. new[k] = old[i]
        BY <1>4, <4>1
      <4> QED BY <1>2, <4>1, <4>2 DEF Signatures
    <3> QED BY <3>1, <3>2
  <2>2. ASSUME NEW i \in 1 .. len PROVE old[i] \in Signatures(more)
    <3>1. moved(i) \in 1 .. len + 1 /\ new[moved(i)] = old[i]
      BY <1>3, <1>4
    <3> QED BY <1>2, <3>1 DEF Signatures
  <2>3. s \in Signatures(more)
    BY <1>2, <1>5 DEF Signatures
  <2>4. Signatures(more) \subseteq Signatures(doc) \cup {s}
    BY <1>2, <2>1 DEF Signatures
  <2>5. Signatures(doc) \subseteq Signatures(more)
    BY <1>2, <2>2 DEF Signatures
  <2> QED BY <2>3, <2>4, <2>5
<1>7. ASSUME SignedOnce(more) PROVE SignedOnce(doc)
  <2> SUFFICES ASSUME NEW i \in 1 .. len, NEW j \in 1 .. len, old[i].key = old[j].key
               PROVE  i = j
    BY <1>2 DEF SignedOnce
  <2>1. /\ moved(i) \in 1 .. len + 1 /\ moved(j) \in 1 .. len + 1
        /\ new[moved(i)].key = new[moved(j)].key
    BY <1>3, <1>4
  <2>2. moved(i) = moved(j)
    BY <1>2, <1>7, <2>1 DEF SignedOnce
  <2> QED BY <1>3, <2>2
<1>8. ASSUME SignedOnce(doc), \A t \in Signatures(doc) : t.key # s.key
      PROVE  SignedOnce(more)
  <2>1. \A i \in 1 .. len : old[i].key # s.key
    BY <1>2, <1>8 DEF Signatures
  <2> SUFFICES ASSUME NEW k \in 1 .. len + 1, NEW l \in 1 .. len + 1,
                      new[k].key = new[l].key
               PROVE  k = l
    BY <1>2 DEF SignedOnce
  <2>2. CASE k = place + 1 /\ l = place + 1
    BY <2>2
  <2>3. CASE k = place + 1 /\ l # place + 1
    <3>1. PICK j \in 1 .. len : l = moved(j)
      BY <1>3, <2>3
    <3> QED BY <1>2, <1>4, <2>1, <2>3, <3>1
  <2>4. CASE k # place + 1 /\ l = place + 1
    <3>1. PICK i \in 1 .. len : k = moved(i)
      BY <1>3, <2>4
    <3> QED BY <1>2, <1>4, <2>1, <2>4, <3>1
  <2>5. CASE k # place + 1 /\ l # place + 1
    <3>1. PICK i \in 1 .. len : k = moved(i)
      BY <1>3, <2>5
    <3>2. PICK j \in 1 .. len : l = moved(j)
      BY <1>3, <2>5
    <3>3. old[i].key = old[j].key
      BY <1>4, <3>1, <3>2
    <3>4. i = j
      BY <1>2, <1>8, <3>3 DEF SignedOnce
    <3> QED BY <3>1, <3>2, <3>4
  <2> QED BY <2>2, <2>3, <2>4, <2>5
<1>9. /\ Wrong(doc) = {} <=> \A t \in Signatures(doc) : Usable(t) => Verifies(t)
      /\ Wrong(more) = {} <=> \A t \in Signatures(more) : Usable(t) => Verifies(t)
  BY DEF Wrong, Signatures
<1>10. ASSUME NEW d
       PROVE  Open(d, "license") = "ok" <=>
                /\ d.well_formed /\ d.format = "license"
                /\ Len(d.signatures) \in 1 .. MaxSignatures /\ SignedOnce(d)
                /\ Wrong(d) = {} /\ \E t \in Signatures(d) : Usable(t)
  <2>1. Best(Signatures(d)) = "ok" <=> \E t \in Signatures(d) : Usable(t)
    BY DEF Best
  <2> QED BY <2>1 DEF Open
<1>11. MaxSignatures \in Nat
  BY ResolutionAssumption
<1>12. ASSUME MayAlsoSign(doc, s), Open(doc, "license") = "ok"
       PROVE  Open(more, "license") = "ok"
  <2>1. len + 1 \in 1 .. MaxSignatures
    BY <1>2, <1>11, <1>12 DEF MayAlsoSign
  <2>2. SignedOnce(more)
    BY <1>8, <1>10, <1>12 DEF MayAlsoSign
  <2>3. Wrong(more) = {}
    BY <1>6, <1>9, <1>10, <1>12 DEF MayAlsoSign
  <2>4. \E t \in Signatures(more) : Usable(t)
    BY <1>6, <1>10, <1>12
  <2>5. more.well_formed /\ more.format = "license"
    BY <1>10, <1>12
  <2> QED BY <1>2, <1>10, <2>1, <2>2, <2>3, <2>4, <2>5
<1>13. ASSUME ~ (Usable(s) /\ Verifies(s)), Open(more, "license") = "ok"
       PROVE  Open(doc, "license") = "ok"
  <2>1. ~ Usable(s)
    BY <1>6, <1>9, <1>10, <1>13
  <2>2. \E t \in Signatures(doc) : Usable(t)
    BY <1>6, <1>10, <1>13, <2>1
  <2>3. len + 1 \in 1 .. MaxSignatures
    BY <1>2, <1>10, <1>13
  <2>4. len # 0
    BY <1>2, <2>2 DEF Signatures
  <2>5. len \in 1 .. MaxSignatures
    BY <1>11, <2>3, <2>4
  <2>6. Wrong(doc) = {}
    BY <1>6, <1>9, <1>10, <1>13
  <2>7. SignedOnce(doc) /\ doc.well_formed /\ doc.format = "license"
    BY <1>7, <1>10, <1>13
  <2> QED BY <1>2, <1>10, <2>2, <2>5, <2>6, <2>7
<1> QED BY <1>12, <1>13

\* So it does not lower the edition in the one case, and does not raise it in the other.
LEMMA SignatureIsNoLoss ==
    ASSUME NEW m, IsMachine(m), NEW i \in DOMAIN m.candidates, NEW s,
           NEW place \in 0 .. Len(m.candidates[i].signatures)
    PROVE  /\ MayAlsoSign(m.candidates[i], s) =>
                 EditionRank(WithSignature(m, i, s, place)) >= EditionRank(m)
           /\ ~ (Usable(s) /\ Verifies(s)) =>
                 EditionRank(WithSignature(m, i, s, place)) <= EditionRank(m)
<1> DEFINE n == WithSignature(m, i, s, place)
           doc == m.candidates[i]
           more == n.candidates[i]
<1>1. /\ n.certificates = m.certificates /\ n.revoked = m.revoked
      /\ n.device = m.device /\ n.now = m.now /\ DOMAIN n = DOMAIN m
      /\ n.candidates = [m.candidates EXCEPT ![i] =
                            [m.candidates[i] EXCEPT !.signatures = Inserted(@, s, place)]]
  BY DEF WithSignature, IsMachine
<1>2. /\ DOMAIN n.candidates = DOMAIN m.candidates
      /\ \A j \in DOMAIN m.candidates : j # i => n.candidates[j] = m.candidates[j]
      /\ more = [doc EXCEPT !.signatures = Inserted(@, s, place)]
  BY <1>1
<1>3. IsDocument(doc)
  BY DEF IsMachine
<1>4. /\ more.signatures = Inserted(doc.signatures, s, place)
      /\ more.well_formed = doc.well_formed
      /\ more.format = doc.format /\ more.claims = doc.claims /\ DOMAIN more = DOMAIN doc
  BY <1>2, <1>3 DEF IsDocument
<1> HIDE DEF n, more
<1>5. IsDocument(more)
  <2>1. doc.signatures \in Seq(Elements(doc.signatures))
    BY <1>3 DEF IsDocument, Signatures, Elements
  <2>2. more.signatures \in Seq(Elements(more.signatures))
    BY <1>4, <2>1, InsertPlaces
  <2>3. more.signatures \in Seq(Signatures(more))
    BY <2>2 DEF Signatures, Elements
  <2> QED BY <1>3, <1>4, <2>3 DEF IsDocument
<1> HIDE DEF doc
<1>6. IsMachine(n)
  <2>1. n.candidates \in Seq(Elements(n.candidates))
    <3>1. PICK X : m.candidates \in Seq(X) /\ more \in X
      <4>1. m.candidates \in Seq(Elements(m.candidates))
        BY DEF IsMachine, Elements
      <4>2. m.candidates \in Seq(Elements(m.candidates) \cup {more})
        BY <4>1
      <4> QED BY <4>2
    <3>2. n.candidates = [m.candidates EXCEPT ![i] = more]
      BY <1>1 DEF more
    <3>3. i \in 1 .. Len(m.candidates)
      BY <3>1, LenProperties
    <3>4. n.candidates \in Seq(X)
      BY <3>1, <3>2, <3>3, ExceptSeq
    <3> QED BY <3>4, SequenceOfElements
  <2>2. \A j \in DOMAIN n.candidates : IsDocument(n.candidates[j])
    BY <1>2, <1>5 DEF IsMachine, more
  <2>3. n.candidates \in Seq({n.candidates[j] : j \in DOMAIN n.candidates})
    BY <2>1 DEF Elements
  <2>4. /\ DOMAIN m = {"candidates", "certificates", "revoked", "device", "now"}
        /\ m.certificates \in Seq({m.certificates[j] : j \in DOMAIN m.certificates})
        /\ \A j \in DOMAIN m.certificates : IsDocument(m.certificates[j])
        /\ m.now \in Nat
    BY DEF IsMachine
  <2>5. /\ DOMAIN n = {"candidates", "certificates", "revoked", "device", "now"}
        /\ n.certificates = m.certificates /\ n.now = m.now
    BY <1>1, <2>4
  <2> QED BY <2>2, <2>3, <2>4, <2>5 DEF IsMachine
<1>7. \A d : Outcome(n, d) = Outcome(m, d)
  BY <1>1 DEF Outcome
<1>8. \A j \in DOMAIN m.candidates : RankAt(n, j) = RankAt(m, j)
  BY <1>2, <1>4 DEF RankAt, more, doc
\* When one of the two envelopes opens because the other does, so does its licence.
<1>9. ASSUME NEW a, NEW b, a.claims = b.claims,
             Open(a, "license") = "ok" => Open(b, "license") = "ok",
             Outcome(m, a) = "ok"
      PROVE  Outcome(m, b) = "ok"
  BY <1>9 DEF Outcome, VerifyLicense, VerifyLicenseIdentity
<1>10. ASSUME MayAlsoSign(doc, s) PROVE EditionRank(n) >= EditionRank(m)
  <2>1. Open(doc, "license") = "ok" => Open(more, "license") = "ok"
    BY <1>3, <1>4, <1>10, SignatureOpens DEF doc
  <2>2. Outcome(m, doc) = "ok" => Outcome(n, more) = "ok"
    BY <1>4, <1>7, <1>9, <2>1
  <2>3. \A j \in Valid(m) : j \in Valid(n)
    BY <1>2, <1>7, <2>2 DEF Valid, more, doc
  <2>4. \A j \in Valid(m) : RankAt(n, j) = RankAt(m, j)
    BY <1>8 DEF Valid
  <2> QED BY <1>6, <2>3, <2>4, NoLower
<1>11. ASSUME ~ (Usable(s) /\ Verifies(s)) PROVE EditionRank(n) <= EditionRank(m)
  <2>1. Open(more, "license") = "ok" => Open(doc, "license") = "ok"
    BY <1>3, <1>4, <1>11, SignatureOpens DEF doc
  <2>2. Outcome(n, more) = "ok" => Outcome(m, doc) = "ok"
    BY <1>4, <1>7, <1>9, <2>1
  <2>3. \A j \in Valid(n) : j \in Valid(m)
    BY <1>2, <1>7, <2>2 DEF Valid, more, doc
  <2>4. \A j \in Valid(n) : RankAt(m, j) = RankAt(n, j)
    BY <1>2, <1>8 DEF Valid
  <2>5. EditionRank(m) >= EditionRank(n)
    BY <1>6, <2>3, <2>4, NoLower
  <2> QED BY <1>6, <2>5, EditionIsHighest
<1> QED BY <1>10, <1>11 DEF n, doc

-----------------------------------------------------------------------------
(* What validate_target says *)

\* A path without parts has no components.
LEMMA NoComponents == ResolveDotComponents(<<>>) = <<>>
<1> DEFINE op(stack, part) ==
                 CASE part \in {"", "."} -> stack
                   [] part = ".."        -> IF stack = <<>> THEN stack ELSE Front(stack)
                   [] OTHER              -> Append(stack, part)
           iter == CHOOSE iter : iter = [s \in SUBSET {} |->
                       IF s = {} THEN <<>>
                       ELSE op(iter[s \ {Max(s)}], <<>>[Max(s)])]
           nothing == [s \in SUBSET {} |-> <<>>]
<1>1. \A s \in SUBSET {} : s = {}
  OBVIOUS
<1>2. \A it : (it = [s \in SUBSET {} |->
                       IF s = {} THEN <<>>
                       ELSE op(it[s \ {Max(s)}], <<>>[Max(s)])]) <=> it = nothing
  BY <1>1
<1>3. iter = nothing
  BY <1>2
<1>4. DOMAIN <<>> = {}
  OBVIOUS
<1>5. ResolveDotComponents(<<>>) = iter[{}]
  BY <1>4 DEF ResolveDotComponents, FoldLeft, MapThenFoldSet
<1>6. nothing[{}] = <<>>
  OBVIOUS
<1> QED BY <1>3, <1>5, <1>6

\* However fs::canonicalize spells a root, the spelling is read as one.
LEMMA RootIsRecognised ==
    ASSUME NEW p, NEW r \in Roots
    PROVE  IsProtectedRoot(Classify(Canonical(p, r)))
<1>1. Location[r].names = <<>>
  BY TargetAssumption
<1>2. CASE p = "posix"
  BY <1>1, <1>2, NoComponents DEF Canonical, Classify, IsProtectedRoot
<1>3. CASE p # "posix" /\ Location[r].root = FsRoot
  BY <1>1, <1>3, NoComponents DEF Canonical, Classify, IsProtectedRoot
<1>4. CASE p # "posix" /\ Location[r].root # FsRoot
  <2>1. <<Server, Share>> \o <<>> = <<Server, Share>>
    OBVIOUS
  <2>2. Canonical(p, r) = [form |-> "verbatim_unc", parts |-> <<Server, Share>>]
    BY <1>1, <1>4, <2>1 DEF Canonical
  <2>3. SubSeq(<<Server, Share>>, 3, Len(<<Server, Share>>)) = <<>>
    <3>1. Len(<<Server, Share>>) = 2
      OBVIOUS
    <3>2. SubSeq(<<Server, Share>>, 3, 2) = [i \in 1 .. 0 |-> <<Server, Share>>[i + 2]]
      OBVIOUS
    <3> QED BY <3>1, <3>2
  <2>4. /\ Classify(Canonical(p, r)).components
               = ResolveDotComponents(SubSeq(<<Server, Share>>, 3, Len(<<Server, Share>>)))
        /\ Classify(Canonical(p, r)).prefix = "unc"
    BY <2>2 DEF Classify
  <2> QED BY <2>3, <2>4, NoComponents DEF IsProtectedRoot
<1> QED BY <1>2, <1>3, <1>4

\* What is accepted is there, and is no root, nor leads to one.
LEMMA TargetIsNoRoot ==
    ASSUME NEW p, NEW path, NEW t, t = ValidateTarget(p, path)
    PROVE  /\ t.object \cap Roots = {} /\ t.canonical \cap Roots = {}
           /\ t.result = "ok" => t.object # {}
<1> DEFINE absolute == Absolute(p, path)
           leaf == Lookup(p, absolute)
           canonical == CanonicalizeDefensively(p, absolute)
<1>1. CASE t.result # "ok"
  BY <1>1 DEF ValidateTarget, Refused
<1>2. CASE t.result = "ok"
  <2>1. /\ t.object = leaf /\ t.canonical = canonical /\ leaf # {}
        /\ \A o \in canonical : ~ IsProtectedRoot(Classify(Canonical(p, o)))
    BY <1>2 DEF ValidateTarget, Refused
  <2>2. canonical \cap Roots = {}
    BY <2>1, RootIsRecognised
  <2>3. leaf \cap Roots \subseteq canonical
    <3> SUFFICES ASSUME NEW r \in leaf, r \in Roots
                 PROVE  r \in canonical
      OBVIOUS
    <3>1. r \notin Links
      BY TargetAssumption DEF Roots
    <3> DEFINE led(o) == IF o \in Links THEN {Destination[o]} \ {o} ELSE {o}
               leads == UNION {led(o) : o \in leaf}
    <3>2. r \in leads
      BY <3>1
    <3>3. canonical = leads
      BY <3>2 DEF CanonicalizeDefensively
    <3> QED BY <3>2, <3>3
  <2> QED BY <2>1, <2>2, <2>3
<1> QED BY <1>1, <1>2

-----------------------------------------------------------------------------
(* What the filters mean *)

\* A size that was rounded, and cut at the largest, still means what was typed.
LEMMA SizeIsRounded ==
    ASSUME NEW q \in Nat, NEW size \in Nat, size < MaxSize, NEW n,
           n = IF (q + 2) \div 4 > MaxSize THEN MaxSize ELSE (q + 2) \div 4
    PROVE  /\ size >= n => 4 * size + 2 >= q
           /\ size < n  => 4 * size < q
           /\ size <= n => 4 * size <= q + 2
           /\ size > n  => 4 * size > q
<1>1. PICK d \in Nat : d = (q + 2) \div 4 /\ 4 * d <= q + 2 /\ q + 2 <= 4 * d + 3
  OBVIOUS
<1>2. MaxSize \in Nat
  BY FilterAssumption
<1>3. n = IF d > MaxSize THEN MaxSize ELSE d
  BY <1>1
<1> QED BY <1>1, <1>2, <1>3

\* Text that was accepted, and the attributes of a file.
AgeIsRead(t) == t.quarters \in Nat /\ AgeIsAccepted(t)
SizeIsRead(t) == t.quarters \in Nat /\ SizeIsAccepted(t)
FileIsSound(file, basis) ==
    /\ file.size \in Nat /\ file.size < MaxSize
    /\ file.times[basis] \subseteq Nat
    /\ \A s, t \in file.times[basis] : s = t

\* What the options that were typed say of a file, one option at a time.
LEMMA SizesAsTyped ==
    ASSUME NEW t, SizeIsRead(t), NEW size \in Nat, size < MaxSize,
           NEW typed, typed = t.quarters * SizeUnits[t.unit]
    PROVE  /\ typed \in Nat
           /\ size >= SizeOf(t) => 4 * size + 2 >= typed
           /\ size < SizeOf(t)  => 4 * size < typed
           /\ size <= SizeOf(t) => 4 * size <= typed + 2
           /\ size > SizeOf(t)  => 4 * size > typed
<1>1. SizeUnits[t.unit] \in Nat /\ t.quarters \in Nat
  BY FilterAssumption DEF SizeIsRead, SizeIsAccepted
<1>2. typed \in Nat
  BY <1>1
<1>3. SizeOf(t) = IF (typed + 2) \div 4 > MaxSize THEN MaxSize ELSE (typed + 2) \div 4
  BY DEF SizeOf
<1> QED BY <1>2, <1>3, SizeIsRounded

\* A file is young if it is not as old as was asked, one of the future included.
LEMMA AgeAsTyped ==
    ASSUME NEW t, AgeIsRead(t), NEW now \in Nat, NEW stamp \in Nat
    PROVE  /\ AgeOf(t) \in Nat
           /\ Elapsed(now, stamp) < AgeOf(t) <=> ~ (stamp + AgeOf(t) <= now)
<1>1. AgeUnits[t.unit] \in Nat \ {0} /\ t.quarters \in Nat \ {0}
  BY FilterAssumption DEF AgeIsRead, AgeIsAccepted
<1>2. \A a, b \in Nat \ {0} : a * b \in Nat \ {0}
  OBVIOUS
<1>3. AgeOf(t) \in Nat \ {0}
  BY <1>1, <1>2 DEF AgeOf
<1> QED BY <1>3 DEF Elapsed

\* The filters, built from options that were accepted, delete a file only if it is as
\* they ask, and keep it only if it is not.
LEMMA FiltersMeanWhatWasTyped ==
    ASSUME \A t \in line.age : AgeIsRead(t),
           \A t \in line.min_size \cup line.max_size : SizeIsRead(t),
           NEW file, FileIsSound(file, line.age_by)
    PROVE  LET f == FilterSet(line.include, line.exclude, line.min_size, line.max_size,
                              line.age, line.age_by, Now)
           IN  /\ EvaluateFile(f, file) = "delete" => AskedFor(file, 2)
               /\ EvaluateFile(f, file) # "delete" => ~ AskedFor(file, 0)
<1> DEFINE f == FilterSet(line.include, line.exclude, line.min_size, line.max_size,
                          line.age, line.age_by, Now)
           Typed(t) == t.quarters * SizeUnits[t.unit]
           Named == /\ \A g \in line.include : file.name \in Matched[g]
                    /\ \A g \in line.exclude : file.name \notin Matched[g]
           LargeEnough == \A t \in line.min_size : file.size >= SizeOf(t)
           SmallEnough == \A t \in line.max_size : file.size <= SizeOf(t)
           OldEnough == line.age # {} =>
                            /\ file.times[line.age_by] # {}
                            /\ \A stamp \in file.times[line.age_by], t \in line.age :
                                  ~ (Elapsed(Now, stamp) < AgeOf(t))
           Aged == \A t \in line.age : \E stamp \in file.times[line.age_by] :
                       stamp + AgeOf(t) <= Now
<1>0. Now \in Nat /\ file.size \in Nat /\ file.size < MaxSize
  BY CommandAssumption DEF FileIsSound
<1>1. \A t \in line.min_size \cup line.max_size :
         /\ Typed(t) \in Nat
         /\ file.size >= SizeOf(t) => 4 * file.size + 2 >= Typed(t)
         /\ file.size < SizeOf(t)  => 4 * file.size < Typed(t)
         /\ file.size <= SizeOf(t) => 4 * file.size <= Typed(t) + 2
         /\ file.size > SizeOf(t)  => 4 * file.size > Typed(t)
         /\ SizeOf(t) \in Nat
  <2> SUFFICES ASSUME NEW t \in line.min_size \cup line.max_size
               PROVE  /\ Typed(t) \in Nat
                      /\ file.size >= SizeOf(t) => 4 * file.size + 2 >= Typed(t)
                      /\ file.size < SizeOf(t)  => 4 * file.size < Typed(t)
                      /\ file.size <= SizeOf(t) => 4 * file.size <= Typed(t) + 2
                      /\ file.size > SizeOf(t)  => 4 * file.size > Typed(t)
                      /\ SizeOf(t) \in Nat
    OBVIOUS
  <2>1. Typed(t) \in Nat
    BY <1>0, SizesAsTyped
  <2>2. SizeOf(t) \in Nat
    BY <2>1, FilterAssumption DEF SizeOf
  <2> QED BY <1>0, <2>1, <2>2, SizesAsTyped
<1>2. EvaluateFile(f, file) = "delete" <=>
        /\ Named
        /\ \A n \in f.min_size : ~ (file.size < n)
        /\ \A n \in f.max_size : ~ (file.size > n)
        /\ f.age # {} =>
              /\ file.times[line.age_by] # {}
              /\ \A stamp \in file.times[line.age_by], age \in f.age :
                    ~ (Elapsed(Now, stamp) < age)
  BY DEF EvaluateFile, FilterSet
<1>3. EvaluateFile(f, file) = "delete" <=> Named /\ LargeEnough /\ SmallEnough /\ OldEnough
  <2>1. (\A n \in f.min_size : ~ (file.size < n)) <=> LargeEnough
    BY <1>0, <1>1 DEF FilterSet
  <2>2. (\A n \in f.max_size : ~ (file.size > n)) <=> SmallEnough
    BY <1>0, <1>1 DEF FilterSet
  <2>3. f.age = {AgeOf(t) : t \in line.age}
    BY DEF FilterSet
  <2>4. f.age # {} <=> line.age # {}
    BY <2>3
  <2>5. (\A stamp \in file.times[line.age_by], age \in f.age : ~ (Elapsed(Now, stamp) < age))
        <=> \A stamp \in file.times[line.age_by], t \in line.age :
               ~ (Elapsed(Now, stamp) < AgeOf(t))
    BY <2>3
  <2> QED BY <1>2, <2>1, <2>2, <2>4, <2>5
<1>4. OldEnough <=> Aged
  <2>1. \A t \in line.age, stamp \in file.times[line.age_by] :
           Elapsed(Now, stamp) < AgeOf(t) <=> ~ (stamp + AgeOf(t) <= Now)
    BY <1>0, AgeAsTyped DEF FileIsSound
  <2>2. ASSUME OldEnough PROVE Aged
    BY <2>1, <2>2
  <2>3. ASSUME Aged PROVE OldEnough
    BY <2>1, <2>3 DEF FileIsSound
  <2> QED BY <2>2, <2>3
<1>5. AskedFor(file, 2) <=>
        /\ Named /\ Aged
        /\ \A t \in line.min_size : 4 * file.size + 2 >= Typed(t)
        /\ \A t \in line.max_size : 4 * file.size <= Typed(t) + 2
  BY DEF AskedFor
<1>6. AskedFor(file, 0) =>
        /\ Named /\ Aged
        /\ \A t \in line.min_size : 4 * file.size >= Typed(t)
        /\ \A t \in line.max_size : 4 * file.size <= Typed(t)
  <2>1. \A t \in line.max_size : Typed(t) + 0 = Typed(t)
    BY <1>1
  <2>2. 4 * file.size + 0 = 4 * file.size
    BY <1>0
  <2> QED BY <2>1, <2>2 DEF AskedFor
<1>7. LargeEnough /\ SmallEnough =>
        /\ \A t \in line.min_size : 4 * file.size + 2 >= Typed(t)
        /\ \A t \in line.max_size : 4 * file.size <= Typed(t) + 2
  BY <1>1
<1>8. ~ (LargeEnough /\ SmallEnough) =>
        \/ \E t \in line.min_size : ~ (4 * file.size >= Typed(t))
        \/ \E t \in line.max_size : ~ (4 * file.size <= Typed(t))
  BY <1>0, <1>1
<1> HIDE DEF f, Named, LargeEnough, SmallEnough, OldEnough, Aged, Typed
<1>9. /\ EvaluateFile(f, file) = "delete" => AskedFor(file, 2)
      /\ EvaluateFile(f, file) # "delete" => ~ AskedFor(file, 0)
  BY <1>3, <1>4, <1>5, <1>6, <1>7, <1>8
<1> QED BY <1>9 DEF f

-----------------------------------------------------------------------------
(* The invariant *)

\* The steps after which a part of the line has been read.
PastFilters == {"validate", "pipeline", "metadata", "evaluate", "delete", "recover", "summary"}
PastLicence == PastFilters \cup {"filters"}
PastSizes == PastLicence \cup {"licence"}
PastMinSize == PastSizes \cup {"max_size"}
PastAgeBy == PastMinSize \cup {"min_size"}
PastAge == PastAgeBy \cup {"age_by"}
SingleSteps == {"metadata", "evaluate", "delete", "recover", "summary"}
Steps == PastAge \cup {"parse", "target", "workers", "age", "end"}

\* An object has been looked at in a run that is over; its line was read, too.
Read(steps) == at \in steps \/ meta # {}

LineIsRead ==
    /\ \A t \in line.age \cup line.min_size \cup line.max_size : t.quarters \in Nat
    /\ Read(PastAge) => \A t \in line.age : AgeIsAccepted(t)
    /\ Read(PastAgeBy) => line.age_by \in {"modified", "created", "accessed"}
    /\ Read(PastMinSize) => \A t \in line.min_size : SizeIsAccepted(t)
    /\ Read(PastSizes) => \A t \in line.max_size : SizeIsAccepted(t)
    /\ Read(PastFilters) =>
          filters = FilterSet(line.include, line.exclude, line.min_size, line.max_size,
                              line.age, line.age_by, Now)

TargetIsSound ==
    /\ target.object \cap Roots = {} /\ target.canonical \cap Roots = {}
    /\ target.result = "ok" => target.object # {}
    /\ at \in SingleSteps => target.result = "ok" /\ ~ target.is_dir
    /\ at = "pipeline" => target.is_dir
    /\ at \notin SingleSteps \cup {"pipeline", "end"} => target.result # "ok"
    /\ meta # {} => target.result = "ok" /\ ~ target.is_dir
    /\ Worked \cap Roots = {}

\* Remote locks are asked for only with a licence.
LicenceIsSound ==
    /\ at \in PastLicence => (line.close_remote_locks => licensed)
    /\ \A h \in handed : h[2].close_remote_locks => licensed

MetaIsSound ==
    /\ meta # {} => at \in {"evaluate", "delete", "recover", "summary", "end"}
    /\ at \in {"evaluate", "delete", "recover"} => meta # {}
    /\ \A file \in meta : \E a \in Attributes :
           file.size = a.size /\ file.times = a.times
    /\ \A f, g \in meta : f = g

\* The engine is called for what the filters do not keep, unless the run is a dry one.
HandedIsSound ==
    /\ handed # {} => at \in {"delete", "recover", "summary", "end"}
    /\ at \in {"delete", "recover"} => Verdict = "delete" /\ ~ line.dry_run
    /\ at \in {"summary", "end"} /\ meta # {} =>
          (handed # {} <=> Verdict = "delete" /\ ~ line.dry_run)
    /\ at = "recover" => handed # {}

\* What becomes of a single object: between two attempts, and at last, it is gone if
\* the last one did not fail.
OutcomeIsSound ==
    /\ failure # "none" => at \in {"delete", "recover", "summary", "end"}
    /\ at = "recover" => failure # "none"
    /\ at = "summary" /\ failure = "none" => meta # {}
    /\ at \in SingleSteps /\ handed # {} /\ failure = "none" => ~ present \/ PassedBy

ExitIsSound ==
    /\ at # "end" => exit = -1
    /\ at = "end" => exit \in {Success, InvalidArgsOrTarget, LicenseRequired, CliUsageError,
                               Panicked, Interrupted} \cup FailureCodes
    /\ exit \in {InvalidArgsOrTarget, LicenseRequired, CliUsageError, Panicked} =>
          handed = {} /\ meta = {}
    /\ exit = Success /\ target.result = "ok" /\ ~ target.is_dir =>
          ~ present \/ PassedBy \/ (meta # {} /\ handed = {})

IInv ==
    /\ at \in Steps
    /\ machine \subseteq Machines
    /\ LineIsRead /\ LicenceIsSound /\ TargetIsSound /\ MetaIsSound /\ HandedIsSound
    /\ OutcomeIsSound /\ ExitIsSound

\* At first nothing has been read, found or handed over.
LEMMA IInvInit == Init => IInv
<1> SUFFICES ASSUME Init PROVE IInv
  OBVIOUS
<1>1. PICK typed \in CommandLines : platform = typed[1] /\ line = typed[2]
  BY DEF Init
<1>2. LineIsRead
  BY <1>1, CommandAssumption
  DEF Init, LineIsRead, Read, PastAge, PastAgeBy, PastMinSize, PastSizes, PastLicence, PastFilters
<1>3. TargetIsSound
  BY DEF Init, TargetIsSound, SingleSteps, Refused, Worked
<1>4. MetaIsSound /\ HandedIsSound /\ OutcomeIsSound
  BY DEF Init, MetaIsSound, HandedIsSound, OutcomeIsSound
<1>5. ExitIsSound
  BY DEF Init, ExitIsSound, InvalidArgsOrTarget, LicenseRequired, CliUsageError, Panicked,
         Success, FailureCodes
<1>6. LicenceIsSound
  BY DEF Init, LicenceIsSound, PastLicence, PastFilters
<1> QED
  BY <1>2, <1>3, <1>4, <1>5, <1>6
  DEF IInv, Init, Steps, PastAge, PastAgeBy, PastMinSize, PastSizes, PastLicence, PastFilters

\* Another program may remove the object at any time.
LEMMA OtherRemovesKeeps == IInv /\ OtherRemoves => IInv'
<1> SUFFICES ASSUME IInv, OtherRemoves PROVE IInv'
  OBVIOUS
<1>1. LineIsRead'
  BY DEF IInv, OtherRemoves, Goto, Stop, LineIsRead, Read, PastAge, PastAgeBy,
         PastMinSize, PastSizes, PastLicence, PastFilters, SingleSteps
<1>2. TargetIsSound'
  BY DEF IInv, OtherRemoves, Goto, Stop, TargetIsSound, MetaIsSound, HandedIsSound,
         SingleSteps, Worked
<1>3. MetaIsSound'
  BY DEF IInv, OtherRemoves, Goto, Stop, MetaIsSound
<1>4. HandedIsSound'
  BY DEF IInv, OtherRemoves, Goto, Stop, HandedIsSound, MetaIsSound, TargetIsSound,
         SingleSteps, Verdict
<1>5. OutcomeIsSound'
  BY DEF IInv, OtherRemoves, Goto, Stop, OutcomeIsSound, MetaIsSound, HandedIsSound,
         TargetIsSound, SingleSteps, PassedBy, Path, Failures
<1>6. ExitIsSound'
  BY DEF IInv, OtherRemoves, Goto, Stop, ExitIsSound, OutcomeIsSound, HandedIsSound,
         MetaIsSound, TargetIsSound, SingleSteps, PassedBy, Path, Success,
         InvalidArgsOrTarget, LicenseRequired, CliUsageError, Panicked, Interrupted,
         FailureCodes
<1>7. LicenceIsSound'
  BY DEF IInv, OtherRemoves, Goto, Stop, LicenceIsSound, DeleteOptions, PastLicence,
         PastFilters
<1>8. at' \in Steps /\ machine' \subseteq Machines
  BY DEF IInv, OtherRemoves, Goto, Stop, Steps, PastAge, PastAgeBy, PastMinSize,
         PastSizes, PastLicence, PastFilters, SingleSteps
<1> QED BY <1>1, <1>2, <1>3, <1>4, <1>5, <1>6, <1>7, <1>8 DEF IInv

\* A single object is looked at.
LEMMA MetadataKeeps == IInv /\ Metadata => IInv'
<1> SUFFICES ASSUME IInv, Metadata PROVE IInv'
  OBVIOUS
<1>1. LineIsRead'
  BY DEF IInv, Metadata, Goto, Stop, LineIsRead, Read, PastAge, PastAgeBy, PastMinSize,
         PastSizes, PastLicence, PastFilters, SingleSteps
<1>2. TargetIsSound'
  BY DEF IInv, Metadata, Goto, Stop, TargetIsSound, MetaIsSound, HandedIsSound,
         SingleSteps, Worked
<1>3. MetaIsSound'
  <2>1. CASE present
    <3>1. PICK a \in Attributes : meta' = {[name |-> FileName, size |-> a.size,
                                            times |-> a.times]}
      BY <2>1 DEF Metadata
    <3> QED BY <2>1, <3>1 DEF Metadata, Goto, MetaIsSound
  <2>2. CASE ~ present
    BY <2>2 DEF IInv, Metadata, Goto, MetaIsSound
  <2> QED BY <2>1, <2>2
<1>4. HandedIsSound'
  BY DEF IInv, Metadata, Goto, Stop, HandedIsSound, MetaIsSound, TargetIsSound,
         SingleSteps, Verdict
<1>5. OutcomeIsSound'
  BY DEF IInv, Metadata, Goto, Stop, OutcomeIsSound, MetaIsSound, HandedIsSound,
         TargetIsSound, SingleSteps, PassedBy, Path, Failures
<1>6. ExitIsSound'
  BY DEF IInv, Metadata, Goto, Stop, ExitIsSound, OutcomeIsSound, HandedIsSound,
         MetaIsSound, TargetIsSound, SingleSteps, PassedBy, Path, Success,
         InvalidArgsOrTarget, LicenseRequired, CliUsageError, Panicked, Interrupted,
         FailureCodes
<1>7. LicenceIsSound'
  BY DEF IInv, Metadata, Goto, Stop, LicenceIsSound, DeleteOptions, PastLicence,
         PastFilters
<1>8. at' \in Steps /\ machine' \subseteq Machines
  BY DEF IInv, Metadata, Goto, Stop, Steps, PastAge, PastAgeBy, PastMinSize, PastSizes,
         PastLicence, PastFilters, SingleSteps
<1> QED BY <1>1, <1>2, <1>3, <1>4, <1>5, <1>6, <1>7, <1>8 DEF IInv

\* The filters decide.
LEMMA EvaluateKeeps == IInv /\ Evaluate => IInv'
<1> SUFFICES ASSUME IInv, Evaluate PROVE IInv'
  OBVIOUS
<1>1. LineIsRead'
  BY DEF IInv, Evaluate, Goto, Stop, LineIsRead, Read, PastAge, PastAgeBy, PastMinSize,
         PastSizes, PastLicence, PastFilters, SingleSteps
<1>2. TargetIsSound'
  BY DEF IInv, Evaluate, Goto, Stop, TargetIsSound, MetaIsSound, HandedIsSound,
         SingleSteps, Worked
<1>3. MetaIsSound'
  BY DEF IInv, Evaluate, Goto, Stop, MetaIsSound
<1>4. HandedIsSound'
  BY DEF IInv, Evaluate, Goto, Stop, HandedIsSound, MetaIsSound, TargetIsSound,
         SingleSteps, Verdict
<1>5. OutcomeIsSound'
  BY DEF IInv, Evaluate, Goto, Stop, OutcomeIsSound, MetaIsSound, HandedIsSound,
         TargetIsSound, SingleSteps, PassedBy, Path, Failures
<1>6. ExitIsSound'
  BY DEF IInv, Evaluate, Goto, Stop, ExitIsSound, OutcomeIsSound, HandedIsSound,
         MetaIsSound, TargetIsSound, SingleSteps, PassedBy, Path, Success,
         InvalidArgsOrTarget, LicenseRequired, CliUsageError, Panicked, Interrupted,
         FailureCodes
<1>7. LicenceIsSound'
  BY DEF IInv, Evaluate, Goto, Stop, LicenceIsSound, DeleteOptions, PastLicence,
         PastFilters
<1>8. at' \in Steps /\ machine' \subseteq Machines
  BY DEF IInv, Evaluate, Goto, Stop, Steps, PastAge, PastAgeBy, PastMinSize, PastSizes,
         PastLicence, PastFilters, SingleSteps
<1> QED BY <1>1, <1>2, <1>3, <1>4, <1>5, <1>6, <1>7, <1>8 DEF IInv

\* The engine is called for it, once or once more.
LEMMA DeleteKeeps == IInv /\ Delete => IInv'
<1> SUFFICES ASSUME IInv, Delete PROVE IInv'
  OBVIOUS
<1>1. LineIsRead'
  BY DEF IInv, Delete, Goto, Stop, LineIsRead, Read, PastAge, PastAgeBy, PastMinSize,
         PastSizes, PastLicence, PastFilters, SingleSteps
<1>2. TargetIsSound'
  BY DEF IInv, Delete, Goto, Stop, TargetIsSound, MetaIsSound, HandedIsSound,
         SingleSteps, Worked
<1>3. MetaIsSound'
  BY DEF IInv, Delete, Goto, Stop, MetaIsSound
<1>4. HandedIsSound'
  <2>1. handed' # {}
    <3>1. PICK o : o \in target.object
      BY DEF IInv, Delete, TargetIsSound, SingleSteps
    <3>2. <<o, DeleteOptions>> \in handed'
      BY <3>1 DEF Delete
    <3> QED BY <3>2
  <2>2. Verdict' = Verdict /\ line' = line /\ at' \in {"recover", "summary"}
    BY DEF Delete, Goto, Verdict
  <2>3. Verdict = "delete" /\ ~ line.dry_run
    BY DEF IInv, Delete, HandedIsSound
  <2> QED BY <2>1, <2>2, <2>3 DEF HandedIsSound
<1>5. OutcomeIsSound'
  BY DEF IInv, Delete, Goto, Stop, OutcomeIsSound, MetaIsSound, HandedIsSound,
         TargetIsSound, SingleSteps, PassedBy, Path, Failures
<1>6. ExitIsSound'
  BY DEF IInv, Delete, Goto, Stop, ExitIsSound, OutcomeIsSound, HandedIsSound,
         MetaIsSound, TargetIsSound, SingleSteps, PassedBy, Path, Success,
         InvalidArgsOrTarget, LicenseRequired, CliUsageError, Panicked, Interrupted,
         FailureCodes
<1>7. LicenceIsSound'
  BY DEF IInv, Delete, Goto, Stop, LicenceIsSound, DeleteOptions, PastLicence,
         PastFilters
<1>8. at' \in Steps /\ machine' \subseteq Machines
  BY DEF IInv, Delete, Goto, Stop, Steps, PastAge, PastAgeBy, PastMinSize, PastSizes,
         PastLicence, PastFilters, SingleSteps
<1> QED BY <1>1, <1>2, <1>3, <1>4, <1>5, <1>6, <1>7, <1>8 DEF IInv

\* A recovery is considered.
LEMMA RecoverKeeps == IInv /\ Recover => IInv'
<1> SUFFICES ASSUME IInv, Recover PROVE IInv'
  OBVIOUS
<1>1. LineIsRead'
  BY DEF IInv, Recover, Goto, Stop, LineIsRead, Read, PastAge, PastAgeBy, PastMinSize,
         PastSizes, PastLicence, PastFilters, SingleSteps
<1>2. TargetIsSound'
  BY DEF IInv, Recover, Goto, Stop, TargetIsSound, MetaIsSound, HandedIsSound,
         SingleSteps, Worked
<1>3. MetaIsSound'
  BY DEF IInv, Recover, Goto, Stop, MetaIsSound
<1>4. HandedIsSound'
  BY DEF IInv, Recover, Goto, Stop, HandedIsSound, MetaIsSound, TargetIsSound,
         SingleSteps, Verdict
<1>5. OutcomeIsSound'
  BY DEF IInv, Recover, Goto, Stop, OutcomeIsSound, MetaIsSound, HandedIsSound,
         TargetIsSound, SingleSteps, PassedBy, Path, Failures
<1>6. ExitIsSound'
  BY DEF IInv, Recover, Goto, Stop, ExitIsSound, OutcomeIsSound, HandedIsSound,
         MetaIsSound, TargetIsSound, SingleSteps, PassedBy, Path, Success,
         InvalidArgsOrTarget, LicenseRequired, CliUsageError, Panicked, Interrupted,
         FailureCodes
<1>7. LicenceIsSound'
  BY DEF IInv, Recover, Goto, Stop, LicenceIsSound, DeleteOptions, PastLicence,
         PastFilters
<1>8. at' \in Steps /\ machine' \subseteq Machines
  BY DEF IInv, Recover, Goto, Stop, Steps, PastAge, PastAgeBy, PastMinSize, PastSizes,
         PastLicence, PastFilters, SingleSteps
<1> QED BY <1>1, <1>2, <1>3, <1>4, <1>5, <1>6, <1>7, <1>8 DEF IInv

\* None is left.
LEMMA GiveUpKeeps == IInv /\ GiveUp => IInv'
<1> SUFFICES ASSUME IInv, GiveUp PROVE IInv'
  OBVIOUS
<1>1. LineIsRead'
  BY DEF IInv, GiveUp, Goto, Stop, LineIsRead, Read, PastAge, PastAgeBy, PastMinSize,
         PastSizes, PastLicence, PastFilters, SingleSteps
<1>2. TargetIsSound'
  BY DEF IInv, GiveUp, Goto, Stop, TargetIsSound, MetaIsSound, HandedIsSound,
         SingleSteps, Worked
<1>3. MetaIsSound'
  BY DEF IInv, GiveUp, Goto, Stop, MetaIsSound
<1>4. HandedIsSound'
  BY DEF IInv, GiveUp, Goto, Stop, HandedIsSound, MetaIsSound, TargetIsSound,
         SingleSteps, Verdict
<1>5. OutcomeIsSound'
  BY DEF IInv, GiveUp, Goto, Stop, OutcomeIsSound, MetaIsSound, HandedIsSound,
         TargetIsSound, SingleSteps, PassedBy, Path, Failures
<1>6. ExitIsSound'
  BY DEF IInv, GiveUp, Goto, Stop, ExitIsSound, OutcomeIsSound, HandedIsSound,
         MetaIsSound, TargetIsSound, SingleSteps, PassedBy, Path, Success,
         InvalidArgsOrTarget, LicenseRequired, CliUsageError, Panicked, Interrupted,
         FailureCodes
<1>7. LicenceIsSound'
  BY DEF IInv, GiveUp, Goto, Stop, LicenceIsSound, DeleteOptions, PastLicence,
         PastFilters
<1>8. at' \in Steps /\ machine' \subseteq Machines
  BY DEF IInv, GiveUp, Goto, Stop, Steps, PastAge, PastAgeBy, PastMinSize, PastSizes,
         PastLicence, PastFilters, SingleSteps
<1> QED BY <1>1, <1>2, <1>3, <1>4, <1>5, <1>6, <1>7, <1>8 DEF IInv

\* The run is over.
LEMMA SummariseKeeps == IInv /\ Summarise => IInv'
<1> SUFFICES ASSUME IInv, Summarise PROVE IInv'
  OBVIOUS
<1>1. LineIsRead'
  BY DEF IInv, Summarise, Goto, Stop, LineIsRead, Read, PastAge, PastAgeBy, PastMinSize,
         PastSizes, PastLicence, PastFilters, SingleSteps
<1>2. TargetIsSound'
  BY DEF IInv, Summarise, Goto, Stop, TargetIsSound, MetaIsSound, HandedIsSound,
         SingleSteps, Worked
<1>3. MetaIsSound'
  BY DEF IInv, Summarise, Goto, Stop, MetaIsSound
<1>4. HandedIsSound'
  BY DEF IInv, Summarise, Goto, Stop, HandedIsSound, MetaIsSound, TargetIsSound,
         SingleSteps, Verdict
<1>5. OutcomeIsSound'
  BY DEF IInv, Summarise, Goto, Stop, OutcomeIsSound, MetaIsSound, HandedIsSound,
         TargetIsSound, SingleSteps, PassedBy, Path, Failures
<1>6. ExitIsSound'
  BY DEF IInv, Summarise, Goto, Stop, ExitIsSound, OutcomeIsSound, HandedIsSound,
         MetaIsSound, TargetIsSound, SingleSteps, PassedBy, Path, Success,
         InvalidArgsOrTarget, LicenseRequired, CliUsageError, Panicked, Interrupted,
         FailureCodes
<1>7. LicenceIsSound'
  BY DEF IInv, Summarise, Goto, Stop, LicenceIsSound, DeleteOptions, PastLicence,
         PastFilters
<1>8. at' \in Steps /\ machine' \subseteq Machines
  BY DEF IInv, Summarise, Goto, Stop, Steps, PastAge, PastAgeBy, PastMinSize, PastSizes,
         PastLicence, PastFilters, SingleSteps
<1> QED BY <1>1, <1>2, <1>3, <1>4, <1>5, <1>6, <1>7, <1>8 DEF IInv

\* A directory is gone through.
LEMMA RunPipelineKeeps == IInv /\ RunPipeline => IInv'
<1> SUFFICES ASSUME IInv, RunPipeline PROVE IInv'
  OBVIOUS
<1>1. LineIsRead'
  BY DEF IInv, RunPipeline, Goto, Stop, LineIsRead, Read, PastAge, PastAgeBy,
         PastMinSize, PastSizes, PastLicence, PastFilters, SingleSteps
<1>2. TargetIsSound'
  BY DEF IInv, RunPipeline, Goto, Stop, TargetIsSound, MetaIsSound, HandedIsSound,
         SingleSteps, Worked
<1>3. MetaIsSound'
  BY DEF IInv, RunPipeline, Goto, Stop, MetaIsSound
<1>4. HandedIsSound'
  BY DEF IInv, RunPipeline, Goto, Stop, HandedIsSound, MetaIsSound, TargetIsSound,
         SingleSteps, Verdict
<1>5. OutcomeIsSound'
  BY DEF IInv, RunPipeline, Goto, Stop, OutcomeIsSound, MetaIsSound, HandedIsSound,
         TargetIsSound, SingleSteps, PassedBy, Path, Failures
<1>6. ExitIsSound'
  BY DEF IInv, RunPipeline, Goto, Stop, ExitIsSound, OutcomeIsSound, HandedIsSound,
         MetaIsSound, TargetIsSound, SingleSteps, PassedBy, Path, Success,
         InvalidArgsOrTarget, LicenseRequired, CliUsageError, Panicked, Interrupted,
         FailureCodes
<1>7. LicenceIsSound'
  BY DEF IInv, RunPipeline, Goto, Stop, LicenceIsSound, DeleteOptions, PastLicence,
         PastFilters
<1>8. at' \in Steps /\ machine' \subseteq Machines
  BY DEF IInv, RunPipeline, Goto, Stop, Steps, PastAge, PastAgeBy, PastMinSize,
         PastSizes, PastLicence, PastFilters, SingleSteps
<1> QED BY <1>1, <1>2, <1>3, <1>4, <1>5, <1>6, <1>7, <1>8 DEF IInv

\* The licence is looked for.
LEMMA CheckLicenceKeeps == IInv /\ CheckLicence => IInv'
<1> SUFFICES ASSUME IInv, CheckLicence PROVE IInv'
  OBVIOUS
<1>1. LineIsRead'
  BY DEF IInv, CheckLicence, Goto, Stop, LineIsRead, Read, PastAge, PastAgeBy,
         PastMinSize, PastSizes, PastLicence, PastFilters, SingleSteps
<1>2. TargetIsSound'
  BY DEF IInv, CheckLicence, Goto, Stop, TargetIsSound, MetaIsSound, HandedIsSound,
         SingleSteps, Worked
<1>3. MetaIsSound'
  BY DEF IInv, CheckLicence, Goto, Stop, MetaIsSound
<1>4. HandedIsSound'
  BY DEF IInv, CheckLicence, Goto, Stop, HandedIsSound, MetaIsSound, TargetIsSound,
         SingleSteps, Verdict
<1>5. OutcomeIsSound'
  BY DEF IInv, CheckLicence, Goto, Stop, OutcomeIsSound, MetaIsSound, HandedIsSound,
         TargetIsSound, SingleSteps, PassedBy, Path, Failures
<1>6. ExitIsSound'
  BY DEF IInv, CheckLicence, Goto, Stop, ExitIsSound, OutcomeIsSound, HandedIsSound,
         MetaIsSound, TargetIsSound, SingleSteps, PassedBy, Path, Success,
         InvalidArgsOrTarget, LicenseRequired, CliUsageError, Panicked, Interrupted,
         FailureCodes
<1>7. LicenceIsSound'
  <2>1. handed' = {} /\ line' = line
    BY DEF IInv, CheckLicence, HandedIsSound
  <2>2. line.close_remote_locks /\ at' = "filters" => licensed'
    BY DEF CheckLicence, Goto, Stop
  <2>3. at' \in {"filters", "end"}
    BY DEF CheckLicence, Goto, Stop
  <2> QED BY <2>1, <2>2, <2>3 DEF LicenceIsSound, PastLicence, PastFilters
<1>8. at' \in Steps /\ machine' \subseteq Machines
  BY DEF IInv, CheckLicence, Goto, Stop, Steps, PastAge, PastAgeBy, PastMinSize,
         PastSizes, PastLicence, PastFilters, SingleSteps
<1> QED BY <1>1, <1>2, <1>3, <1>4, <1>5, <1>6, <1>7, <1>8 DEF IInv

\* The filters are built.
LEMMA BuildFiltersKeeps == IInv /\ BuildFilters => IInv'
<1> SUFFICES ASSUME IInv, BuildFilters PROVE IInv'
  OBVIOUS
<1>1. LineIsRead'
  BY DEF IInv, BuildFilters, Goto, Stop, LineIsRead, Read, PastAge, PastAgeBy,
         PastMinSize, PastSizes, PastLicence, PastFilters, SingleSteps
<1>2. TargetIsSound'
  BY DEF IInv, BuildFilters, Goto, Stop, TargetIsSound, MetaIsSound, HandedIsSound,
         SingleSteps, Worked
<1>3. MetaIsSound'
  BY DEF IInv, BuildFilters, Goto, Stop, MetaIsSound
<1>4. HandedIsSound'
  BY DEF IInv, BuildFilters, Goto, Stop, HandedIsSound, MetaIsSound, TargetIsSound,
         SingleSteps, Verdict
<1>5. OutcomeIsSound'
  BY DEF IInv, BuildFilters, Goto, Stop, OutcomeIsSound, MetaIsSound, HandedIsSound,
         TargetIsSound, SingleSteps, PassedBy, Path, Failures
<1>6. ExitIsSound'
  BY DEF IInv, BuildFilters, Goto, Stop, ExitIsSound, OutcomeIsSound, HandedIsSound,
         MetaIsSound, TargetIsSound, SingleSteps, PassedBy, Path, Success,
         InvalidArgsOrTarget, LicenseRequired, CliUsageError, Panicked, Interrupted,
         FailureCodes
<1>7. LicenceIsSound'
  BY DEF IInv, BuildFilters, Goto, Stop, LicenceIsSound, DeleteOptions, PastLicence,
         PastFilters
<1>8. at' \in Steps /\ machine' \subseteq Machines
  BY DEF IInv, BuildFilters, Goto, Stop, Steps, PastAge, PastAgeBy, PastMinSize,
         PastSizes, PastLicence, PastFilters, SingleSteps
<1> QED BY <1>1, <1>2, <1>3, <1>4, <1>5, <1>6, <1>7, <1>8 DEF IInv

\* The target is validated.
LEMMA ValidateKeeps == IInv /\ Validate => IInv'
<1> SUFFICES ASSUME IInv, Validate PROVE IInv'
  OBVIOUS
<1>1. LineIsRead'
  BY DEF IInv, Validate, Goto, Stop, LineIsRead, Read, PastAge, PastAgeBy, PastMinSize,
         PastSizes, PastLicence, PastFilters, SingleSteps
<1>2. TargetIsSound'
  BY TargetIsNoRoot
  DEF IInv, Validate, Goto, Stop, TargetIsSound, MetaIsSound, HandedIsSound,
      SingleSteps, Worked
<1>3. MetaIsSound'
  BY DEF IInv, Validate, Goto, Stop, MetaIsSound
<1>4. HandedIsSound'
  BY DEF IInv, Validate, Goto, Stop, HandedIsSound, MetaIsSound, TargetIsSound,
         SingleSteps, Verdict
<1>5. OutcomeIsSound'
  BY DEF IInv, Validate, Goto, Stop, OutcomeIsSound, MetaIsSound, HandedIsSound,
         TargetIsSound, SingleSteps, PassedBy, Path, Failures
<1>6. ExitIsSound'
  BY DEF IInv, Validate, Goto, Stop, ExitIsSound, OutcomeIsSound, HandedIsSound,
         MetaIsSound, TargetIsSound, SingleSteps, PassedBy, Path, Success,
         InvalidArgsOrTarget, LicenseRequired, CliUsageError, Panicked, Interrupted,
         FailureCodes
<1>7. LicenceIsSound'
  BY DEF IInv, Validate, Goto, Stop, LicenceIsSound, DeleteOptions, PastLicence,
         PastFilters
<1>8. at' \in Steps /\ machine' \subseteq Machines
  BY DEF IInv, Validate, Goto, Stop, Steps, PastAge, PastAgeBy, PastMinSize, PastSizes,
         PastLicence, PastFilters, SingleSteps
<1> QED BY <1>1, <1>2, <1>3, <1>4, <1>5, <1>6, <1>7, <1>8 DEF IInv

\* A check of the line: the early steps have done nothing yet, and a part of the line
\* that is passed is as the check wants it.
LEMMA CheckKeeps ==
    ASSUME IInv, NEW step, NEW passes, NEW next, NEW code,
           Check(step, passes, next, code),
           <<step, next>> \in {<<"parse", "target">>, <<"target", "workers">>, <<"workers", "age">>,
                              <<"age", "age_by">>, <<"age_by", "min_size">>,
                              <<"min_size", "max_size">>, <<"max_size", "licence">>},
           code \in {Success, CliUsageError, Panicked},
           passes /\ step = "age" => \A t \in line.age : AgeIsAccepted(t),
           passes /\ step = "age_by" => line.age_by \in {"modified", "created", "accessed"},
           passes /\ step = "min_size" => \A t \in line.min_size : SizeIsAccepted(t),
           passes /\ step = "max_size" => \A t \in line.max_size : SizeIsAccepted(t)
    PROVE  IInv'
<1>1. at = step /\ UNCHANGED <<platform, line, machine, licensed, filters, target, meta, present,
                               failure, recovered, handed>>
  BY DEF Check
<1>2. \/ passes /\ at' = next /\ exit' = exit
      \/ ~ passes /\ at' = "end" /\ exit' = code
  BY DEF Check, Goto, Stop
<1>3. meta = {} /\ handed = {} /\ failure = "none" /\ target.result # "ok"
  BY <1>1 DEF IInv, MetaIsSound, HandedIsSound, OutcomeIsSound, TargetIsSound, SingleSteps
<1>4. LineIsRead'
  BY <1>1, <1>2, <1>3
  DEF IInv, LineIsRead, Read, PastAge, PastAgeBy, PastMinSize, PastSizes, PastLicence, PastFilters
<1>5. TargetIsSound'
  BY <1>1, <1>2, <1>3 DEF IInv, TargetIsSound, SingleSteps, Worked
<1>6. MetaIsSound' /\ HandedIsSound' /\ OutcomeIsSound'
  BY <1>1, <1>2, <1>3 DEF MetaIsSound, HandedIsSound, OutcomeIsSound
<1>7. ExitIsSound'
  BY <1>1, <1>2, <1>3
  DEF IInv, ExitIsSound, Success, InvalidArgsOrTarget, LicenseRequired, CliUsageError, Panicked,
      Interrupted, FailureCodes
<1>8. at' \in Steps /\ machine' \subseteq Machines
  BY <1>1, <1>2
  DEF IInv, Steps, PastAge, PastAgeBy, PastMinSize, PastSizes, PastLicence, PastFilters
<1>9. LicenceIsSound'
  BY <1>1, <1>2, <1>3 DEF LicenceIsSound, PastLicence, PastFilters
<1> QED BY <1>4, <1>5, <1>6, <1>7, <1>8, <1>9 DEF IInv

\* Every step.
LEMMA IInvNext == IInv /\ [Next]_vars => IInv'
<1> SUFFICES ASSUME IInv, [Next]_vars PROVE IInv'
  OBVIOUS
<1>1. CASE Parse
  <2> DEFINE code == IF line.parse = "help" THEN Success ELSE CliUsageError
  <2>1. Check("parse", line.parse = "ok", "target", code)
    BY <1>1 DEF Parse
  <2>2. code \in {Success, CliUsageError, Panicked}
    OBVIOUS
  <2> HIDE DEF code
  <2> QED BY <2>1, <2>2, CheckKeeps
<1>2. CASE ReadTarget
  <2>1. Check("target", line.target # {}, "workers", CliUsageError)
    BY <1>2 DEF ReadTarget
  <2> QED BY <2>1, CheckKeeps
<1>3. CASE ReadWorkers
  <2>1. Check("workers", line.workers \in {"auto", "positive"}, "age", CliUsageError)
    BY <1>3 DEF ReadWorkers
  <2> QED BY <2>1, CheckKeeps
<1>4. CASE ReadAge
  <2> DEFINE code == IF \E t \in line.age : AgePanics(t) THEN Panicked ELSE CliUsageError
  <2>1. Check("age", \A t \in line.age : AgeIsAccepted(t) /\ ~ AgePanics(t), "age_by", code)
    BY <1>4 DEF ReadAge
  <2>2. code \in {Success, CliUsageError, Panicked}
    OBVIOUS
  <2> HIDE DEF code
  <2> QED BY <2>1, <2>2, CheckKeeps
<1>5. CASE ReadAgeBy
  <2>1. Check("age_by", line.age_by \in {"modified", "created", "accessed"}, "min_size",
              CliUsageError)
    BY <1>5 DEF ReadAgeBy
  <2> QED BY <2>1, CheckKeeps
<1>6. CASE ReadMinSize
  <2>1. Check("min_size", \A t \in line.min_size : SizeIsAccepted(t), "max_size",
              CliUsageError)
    BY <1>6 DEF ReadMinSize
  <2> QED BY <2>1, CheckKeeps
<1>7. CASE ReadMaxSize
  <2>1. Check("max_size", \A t \in line.max_size : SizeIsAccepted(t), "licence",
              CliUsageError)
    BY <1>7 DEF ReadMaxSize
  <2> QED BY <2>1, CheckKeeps
<1>8. CASE UNCHANGED vars
  BY <1>8 DEF IInv, vars, LineIsRead, Read, LicenceIsSound, TargetIsSound, Worked, MetaIsSound,
              HandedIsSound, Verdict, OutcomeIsSound, ExitIsSound, PassedBy, Path
<1> QED
  BY <1>1, <1>2, <1>3, <1>4, <1>5, <1>6, <1>7, <1>8, CheckLicenceKeeps, BuildFiltersKeeps,
     ValidateKeeps, RunPipelineKeeps, OtherRemovesKeeps, MetadataKeeps, EvaluateKeeps,
     DeleteKeeps, RecoverKeeps, GiveUpKeeps, SummariseKeeps
  DEF Next

\* The strengthening on which the theorems below rest.
THEOREM Invariance == Spec => []IInv
<1> QED BY IInvInit, IInvNext, PTL DEF Spec

-----------------------------------------------------------------------------
(* The theorems *)

\* SAFETY_MODEL.md, "Root and share-root protection": in every file system and for
\* every path, nothing that is a root is handed to the engine or gone through.
THEOREM RootStaysUntouched == Spec => []RootIsNeverTheTarget
<1>1. IInv => RootIsNeverTheTarget
  BY DEF IInv, TargetIsSound, RootIsNeverTheTarget
<1> QED BY <1>1, Invariance, PTL

\* An object that was looked at is a file with a size and a time, and the line it is
\* held against was read: what the filters say is what was typed.
LEMMA VerdictIsWhatWasTyped ==
    ASSUME IInv, NEW file \in meta
    PROVE  /\ Verdict = "delete" => AskedFor(file, 2)
           /\ Verdict # "delete" => ~ AskedFor(file, 0)
<1>1. LineIsRead /\ MetaIsSound
  BY DEF IInv
<1>2. /\ \A t \in line.age : AgeIsRead(t)
      /\ \A t \in line.min_size \cup line.max_size : SizeIsRead(t)
      /\ line.age_by \in {"modified", "created", "accessed"}
      /\ filters = FilterSet(line.include, line.exclude, line.min_size, line.max_size,
                             line.age, line.age_by, Now)
  BY <1>1 DEF LineIsRead, Read, AgeIsRead, SizeIsRead
<1>3. FileIsSound(file, line.age_by)
  BY <1>1, <1>2, CommandAssumption DEF MetaIsSound, FileIsSound
<1>4. (CHOOSE f \in meta : TRUE) = file
  BY <1>1 DEF MetaIsSound
<1>5. Verdict = EvaluateFile(filters, file)
  BY <1>4 DEF Verdict
<1> QED BY <1>2, <1>3, <1>5, FiltersMeanWhatWasTyped

\* filter.rs, RETENTION.md: for all sizes, times and numbers typed, a file is handed to
\* the engine only if it is as the options ask, and kept only if it is not.
THEOREM FiltersDecideHolds == Spec => []FiltersDecide
<1>1. IInv => FiltersDecide
  BY VerdictIsWhatWasTyped DEF IInv, HandedIsSound, FiltersDecide
<1> QED BY <1>1, Invariance, PTL

\* EXIT_CODES.md: a refused command has touched nothing; a success on a single object,
\* after however many attempts, left it only on purpose, unless it was named by a bare
\* name on POSIX; and remote locks are closed for no one unlicensed.
THEOREM ExitCodeHolds == Spec => []ExitCodeTellsTheTruth
<1>1. ASSUME IInv PROVE ExitCodeTellsTheTruth
  <2>1. ExitIsSound /\ LicenceIsSound
    BY <1>1 DEF IInv
  <2>2. ASSUME exit = Success, target.result = "ok", ~ target.is_dir
        PROVE  ~ present \/ line.dry_run \/ (\E file \in meta : ~ AskedFor(file, 0)) \/ PassedBy
    <3>1. ~ present \/ PassedBy \/ (meta # {} /\ handed = {})
      BY <2>1, <2>2 DEF ExitIsSound
    <3>2. at = "end"
      BY <2>1, <2>2 DEF ExitIsSound, Success
    <3>3. CASE meta # {} /\ handed = {}
      <4>1. Verdict # "delete" \/ line.dry_run
        BY <1>1, <3>2, <3>3 DEF IInv, HandedIsSound
      <4> QED BY <1>1, <3>3, <4>1, VerdictIsWhatWasTyped
    <3> QED BY <3>1, <3>3
  <2> QED BY <2>1, <2>2 DEF ExitIsSound, LicenceIsSound, ExitCodeTellsTheTruth
<1> QED BY <1>1, Invariance, PTL

\* resolve.rs:3-8, envelope.rs:26-32: on every machine, for every licence file and
\* certificate at every place, and for every signature at every place: by a key that has
\* not signed, where there is room, and not one that can be used and does not verify, it
\* lowers nothing; one that cannot be used or does not verify raises nothing.
THEOREM MoreNeverMeansLessHolds == Spec => []MoreNeverMeansLess
<1>1. ASSUME IInv PROVE MoreNeverMeansLess
  <2> SUFFICES ASSUME NEW m \in machine
               PROVE  /\ \A doc \in NewCandidates, i \in 0 .. Len(m.candidates) :
                            EditionRank(WithCandidate(m, doc, i)) >= EditionRank(m)
                      /\ \A cert \in NewCertificates, i \in 0 .. Len(m.certificates) :
                            EditionRank(WithCertificate(m, cert, i)) >= EditionRank(m)
                      /\ \A s \in NewSignatures, i \in DOMAIN m.candidates :
                         \A j \in 0 .. Len(m.candidates[i].signatures) :
                            /\ MayAlsoSign(m.candidates[i], s) =>
                                  EditionRank(WithSignature(m, i, s, j)) >= EditionRank(m)
                            /\ ~ (Usable(s) /\ Verifies(s)) =>
                                  EditionRank(WithSignature(m, i, s, j)) <= EditionRank(m)
    BY DEF MoreNeverMeansLess
  <2>1. IsMachine(m)
    BY <1>1, CommandAssumption DEF IInv
  <2>2. \A doc \in NewCandidates \cup NewCertificates : IsDocument(doc)
    BY CommandAssumption
  <2> QED BY <2>1, <2>2, CandidateIsNoLoss, CertificateIsNoLoss, SignatureIsNoLoss
<1> QED BY <1>1, Invariance, PTL

\* validate.rs:104-108 and 162-175: at every later time, whatever was found.
THEOREM TimeOnlyTakesAwayHolds == Spec => []TimeOnlyTakesAway
<1>1. ASSUME IInv PROVE TimeOnlyTakesAway
  <2> SUFFICES ASSUME NEW m \in machine, NEW now \in LaterTimes, now >= m.now
               PROVE  EditionRank(Later(m, now)) <= EditionRank(m)
    BY DEF TimeOnlyTakesAway
  <2>1. IsMachine(m) /\ now \in Nat
    BY <1>1, CommandAssumption DEF IInv
  <2> QED BY <2>1, LaterIsNoHigher
<1> QED BY <1>1, Invariance, PTL
=============================================================================
