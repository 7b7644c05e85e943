----------------------------- MODULE PairEvidence -----------------------------
(***************************************************************************)
(* From two records to a verdict: the candidate pairs                      *)
(* (engine/resolution/blocking.py), the name matcher (engine/fastops.py),  *)
(* the nine signals (comparators.py), their sum (scoring.py) and the       *)
(* decision (classifier.py).  Scores are in units of 1/10000, the          *)
(* precision the code rounds to.                                           *)
(***************************************************************************)
EXTENDS LeadFeatures

CONSTANTS MaxBlock,   \* ENTITY_MAX_BLOCK_SIZE
          Metres      \* {place, place} -> their distance

Least(m, n)    == IF m <= n THEN m ELSE n
Greatest(m, n) == IF m >= n THEN m ELSE n
Top(ns)        == CHOOSE n \in ns : \A m \in ns : m <= n

-----------------------------------------------------------------------------
\* Blocking.

\* _EXACT_KEYS: informative at any block width.
ExactKinds == {"phone", "domain", "social"}

\* BlockingIndex.add.  Names share trigrams when they share a word.
BlockingKeys(f) ==
  {<<"tri", f.key[i]>> : i \in 1..Len(f.key)}
  \cup {<<"prefix", p>> : p \in {f.prefix} \ {None}}
  \cup {<<"phone", p>> : p \in f.phones}
  \cup {<<"domain", d>> : d \in {f.website} \ {None}}
  \cup {<<"social", p, f.socials[p]>> : p \in DOMAIN f.socials}

\* candidate_pairs, of the records fs (id -> features).
CandidatePairs(fs) ==
  LET keys     == [i \in DOMAIN fs |-> BlockingKeys(fs[i])]
      block(k) == {i \in DOMAIN fs : k \in keys[i]}
      open(k)  == k[1] \in ExactKinds \/ Cardinality(block(k)) <= MaxBlock
  IN {p \in SUBSET DOMAIN fs :
        /\ Cardinality(p) = 2
        /\ \E k \in UNION {keys[i] : i \in p} : p \subseteq block(k) /\ open(k)}

-----------------------------------------------------------------------------
\* String metrics.

Jaccard(s, t) ==
  IF s = {} \/ t = {} THEN 0
  ELSE (10000 * Cardinality(s \cap t)) \div Cardinality(s \cup t)

EditDistance(s, t) ==
  LET d[c \in (0..Len(s)) \X (0..Len(t))] ==
        IF c[1] = 0 \/ c[2] = 0 THEN c[1] + c[2]
        ELSE Least(Least(d[<<c[1] - 1, c[2]>>], d[<<c[1], c[2] - 1>>]) + 1,
                   d[<<c[1] - 1, c[2] - 1>>] + (IF s[c[1]] = t[c[2]] THEN 0 ELSE 1))
  IN d[<<Len(s), Len(t)>>]

\* _lev_ratio.
Ratio(s, t) ==
  IF s = <<>> \/ t = <<>> THEN 0
  ELSE 10000 - (10000 * EditDistance(s, t)) \div Greatest(Len(s), Len(t))

Words(s) == {s[i] : i \in 1..Len(s)}

Prefilter == 4000   \* ENTITY_JACCARD_PREFILTER

\* NameMatcher.match_pairs with no threshold, and the token overlap that the
\* resolver takes instead when it is larger.
NameSimilarity(a, b) ==
  LET overlap == Jaccard(Words(a.key), Words(b.key))
  IN IF overlap < Prefilter THEN overlap ELSE Greatest(Ratio(a.key, b.key), overlap)

-----------------------------------------------------------------------------
\* The signals.

Signal(identity, org, conflict, tags) ==
  [identity |-> identity, org |-> org, conflict |-> conflict, tags |-> tags]
Silent == Signal(0, 0, 0, {})

NameSignal(a, b, similarity) ==
  IF a.key = <<>> \/ b.key = <<>> THEN Silent
  ELSE Signal(0, (5000 * similarity) \div 10000, 0, {})

PhoneSignal(a, b) ==
  LET shared == a.phones \cap b.phones
      fewer  == Least(Cardinality(a.phones), Cardinality(b.phones))
  IN CASE a.phones = {} \/ b.phones = {} -> Silent
       [] shared # {} -> Signal((8000 * Cardinality(shared)) \div fewer, 3500, 0, {})
       [] OTHER       -> Signal(0, 0, 4000, {"contact_disagreement"})

WebsiteSignal(a, b) ==
  CASE a.website = None \/ b.website = None -> Silent
    [] a.website = b.website -> Signal(5000, 10000, 0, {})
    [] OTHER                 -> Signal(0, 0, 3500, {})

\* Mutant of OtherPlatformSame: only the first record's first platform counts.
OtherPlatformSameFirst(a, b) ==
  /\ DOMAIN a.socials # {}
  /\ LET p == CHOOSE q \in DOMAIN a.socials : TRUE
     IN \E q \in DOMAIN b.socials \ {p} : a.socials[p] = b.socials[q]

\* One handle on two platforms.
OtherPlatformSame(a, b) ==
  \E p \in DOMAIN a.socials : \E q \in DOMAIN b.socials \ {p} :
    a.socials[p] = b.socials[q]

SocialSignal(a, b) ==
  LET common   == DOMAIN a.socials \cap DOMAIN b.socials
      match(p) == Ratio(a.socials[p], b.socials[p])
      alike    == {p \in common : match(p) >= 8000}
  IN CASE alike # {}  -> Signal(Top({(9000 * match(p)) \div 10000 : p \in alike}), 0, 0, {})
       [] common # {} -> Signal(0, 0, 2500, {})
       [] common = {} /\ OtherPlatformSame(a, b) -> Signal(7500, 0, 0, {})
       [] OTHER -> Silent

PointsAtSocial(a, b) == \E t \in a.outbound \cap b.self : t[1] = "social"
PointsAtSite(a, b) ==
  b.website # None /\ <<"domain", b.website>> \in a.outbound /\ b.website # a.website

CrossReferenceSignal(a, b) ==
  CASE PointsAtSocial(a, b) \/ PointsAtSocial(b, a) -> Signal(8000, 0, 0, {})
    [] a.website # None /\ a.website = b.website    -> Silent
    [] PointsAtSite(a, b) \/ PointsAtSite(b, a)     -> Signal(6000, 0, 0, {})
    [] OTHER -> Silent

EmailSignal(a, b) ==
  CASE a.emails = {} \/ b.emails = {}             -> Silent
    [] a.emails \cap b.emails # {}                -> Signal(7000, 0, 0, {})
    [] a.emailDomains \cap b.emailDomains # {}    -> Signal(0, 3000, 0, {})
    [] OTHER                                      -> Signal(0, 0, 1500, {})

WilayasDiffer(a, b) == a.wilaya # None /\ b.wilaya # None /\ a.wilaya # b.wilaya

GeoSignal(a, b) ==
  LET located == a.place # None /\ b.place # None
      apart   == Metres[{a.place, b.place}]
  IN CASE located /\ apart < 200   -> Signal(6000, 0, 0, {"same_place"})
       [] located /\ apart \in 200..1999   -> Signal(4000, 0, 0, {})
       [] located /\ apart \in 2000..9999  -> Signal(2000, 0, 0, {})
       [] (located => apart >= 10000) /\ WilayasDiffer(a, b)
                                   -> Signal(0, 0, 3000, {"location_disagreement"})
       [] ~located /\ a.wilaya # None /\ a.wilaya = b.wilaya -> Signal(1500, 0, 0, {})
       [] OTHER -> Silent

\* Mutant of AddressConflict: disjoint addresses weigh as much as a phone.
AddressConflictWeak == 4000
AddressConflict == 5000

AddressesDisjoint(a, b) ==
  /\ Cardinality(a.address) >= 2 /\ Cardinality(b.address) >= 2
  /\ Jaccard(a.address, b.address) <= 2000

AddressSignal(a, b) ==
  LET overlap == Jaccard(a.address, b.address)
  IN CASE Cardinality(a.address) < 2 \/ Cardinality(b.address) < 2 -> Silent
       [] overlap >= 5000 -> Signal((4000 * overlap) \div 10000, 0, 0, {"same_place"})
       [] overlap <= 2000 -> Signal(0, 0, AddressConflict, {"location_disagreement"})
       [] OTHER -> Silent

IndustrySignal(a, b) ==
  CASE a.industry = {} \/ b.industry = {} -> Silent
    [] a.industry \cap b.industry # {}    -> Signal(0, 1500, 0, {})
    [] OTHER                              -> Signal(0, 0, 500, {})

\* compare_pair.
Signals(a, b) ==
  [name            |-> NameSignal(a, b, NameSimilarity(a, b)),
   phone           |-> PhoneSignal(a, b),
   website         |-> WebsiteSignal(a, b),
   social          |-> SocialSignal(a, b),
   cross_reference |-> CrossReferenceSignal(a, b),
   email           |-> EmailSignal(a, b),
   geo             |-> GeoSignal(a, b),
   address         |-> AddressSignal(a, b),
   industry        |-> IndustrySignal(a, b)]

-----------------------------------------------------------------------------
\* EvidenceScorer.score.

\* Sums over the contact signals, the location signals, and all of them.
OfContact(s) ==
  s.phone.identity + s.social.identity + s.cross_reference.identity
    + s.email.identity + s.website.identity

OfLocation(s) == s.geo.identity + s.address.identity

OfAll(s, bucket(_)) ==
  bucket(s.name) + bucket(s.phone) + bucket(s.website) + bucket(s.social)
    + bucket(s.cross_reference) + bucket(s.email) + bucket(s.geo)
    + bucket(s.address) + bucket(s.industry)

\* Mutant of Capped: no cap.
Uncapped(location) == location

\* LOCATION_CAP.
Capped(location) == Least(location, 5500)

Evidence(a, b) ==
  LET signals  == Signals(a, b)
      contact  == OfContact(signals)
      location == Capped(OfLocation(signals))
      org      == OfAll(signals, LAMBDA s : s.org)
      conflict == OfAll(signals, LAMBDA s : s.conflict)
  IN [similarity |-> NameSimilarity(a, b),
      contact    |-> contact,
      identity   |-> contact + location,
      org        |-> org,
      conflict   |-> conflict,
      total      |-> contact + location + org - conflict,
      tags       |-> UNION {signals[s].tags : s \in DOMAIN signals},
      signals    |-> signals]

-----------------------------------------------------------------------------
\* MatchClassifier.classify, with the default thresholds of config/settings.

MergeIdentity    == 7000
MergeMaxConflict == 4500

IsSame(ev) ==
  /\ ev.identity >= MergeIdentity
  /\ ev.conflict <= MergeMaxConflict
  /\ ev.similarity >= 4500
  /\ ev.contact >= MergeIdentity \/ "same_place" \in ev.tags

IsDistinct(ev) == ev.total <= 1000 \/ ev.identity + ev.org < 5500

IsRelated(ev) ==
  /\ ev.org >= 9000
  /\ ev.similarity >= 5500
  /\ ev.conflict > MergeMaxConflict \/ "location_disagreement" \in ev.tags

Relationship(ev) ==
  CASE ev.signals.website.identity > 0 -> "branch_of"
    [] ev.signals.website.identity = 0 /\
       (ev.signals.email.org > 0 \/ ev.signals.phone.identity > 0) -> "same_owner"
    [] OTHER -> "affiliated"

Classified(ev) ==
  CASE IsSame(ev) -> "same"
    [] ~IsSame(ev) /\ IsDistinct(ev) -> "distinct"
    [] ~IsSame(ev) /\ ~IsDistinct(ev) /\ IsRelated(ev) -> "related"
    [] OTHER -> "unresolved"
=============================================================================
