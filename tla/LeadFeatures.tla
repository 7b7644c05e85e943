----------------------------- MODULE LeadFeatures -----------------------------
(***************************************************************************)
(* What entity resolution compares (engine/resolution/features.py): one    *)
(* lead as it is stored, and the normalised view of it.                    *)
(*                                                                         *)
(* Text is data: a name is a sequence of words in some typography, an      *)
(* address a set of words, a URL its host and first path segment, a phone  *)
(* number its digits behind one of the prefixes it is written with.        *)
(***************************************************************************)
EXTENDS Integers, Sequences, FiniteSets, SequencesExt

CONSTANTS None,       \* an absent value
          Platform,   \* hosts of _SOCIAL_PLATFORMS
          Provider,   \* hosts of _PROVIDER_DOMAINS that are no social platform
          LegalForm,  \* words of _LEGAL_SUFFIXES
          TypeWord,   \* words of _TYPE_WORDS
          Landline    \* the numbers of 8 digits; mobile numbers have 9

(***************************************************************************)
(* A stored lead r:                                                        *)
(*   r.name      [words, readable]: the words in order; whether they are   *)
(*               separated by spaces and capitalised                       *)
(*   r.details   phone_details: [prefix, number, mobile]                   *)
(*   r.phone     [prefix, number], or None                                 *)
(*   r.website   a URL, or None: [host, www, path, secure]                 *)
(*   r.links     social_links: a sequence of URLs                          *)
(*   r.profile   source_url: a URL, or None                                *)
(*   r.email     [user, host], or None                                     *)
(*   r.address   [words, brief]: brief says at most five characters; or    *)
(*               None                                                      *)
(*   r.wilaya, r.place (coordinates): a value, or None                     *)
(*   r.industry  a set of words                                            *)
(*   r.source, r.updated, r.age: source, time of update, freshness bucket  *)
(***************************************************************************)
Prefix == {"0", "213", "00213", "2130"}

Source == {"MANUAL", "OVERPASS", "DUCKDUCKGO", "SEARXNG", "INFINITE", "SOCIAL", "MOCK"}

IsText(s) == s \in Seq({s[i] : i \in DOMAIN s})
IsURL(u)  == u = None \/ u.path = None \/ IsText(u.path)

IsLead(r) ==
  /\ DOMAIN r = {"name", "details", "phone", "website", "links", "profile", "email",
                 "address", "wilaya", "place", "industry", "source", "updated", "age"}
  /\ r.name # None /\ IsText(r.name.words) /\ IsFiniteSet(r.details)
  /\ \A d \in r.details : d.prefix \in Prefix /\ d.mobile \in BOOLEAN
  /\ r.phone # None => r.phone.prefix \in Prefix
  /\ r.website # None => r.website.secure \in BOOLEAN
  /\ IsText(r.links) /\ IsURL(r.profile) /\ \A i \in DOMAIN r.links : IsURL(r.links[i])
  /\ r.address # None => IsFiniteSet(r.address.words) /\ r.address.brief \in BOOLEAN
  /\ r.source \in Source /\ r.updated \in Nat /\ r.age \in 0..4

\* The words that are not among the dropped ones, in their order.
Without(words, dropped) ==
  LET kept[n \in 0..Len(words)] ==
        IF n = 0 THEN <<>>
        ELSE IF words[n] \in dropped THEN kept[n - 1] ELSE Append(kept[n - 1], words[n])
  IN kept[Len(words)]

\* name_tokens: the words that are not a legal form.
NameTokens(name) == Without(name.words, LegalForm)

\* name_key: what is left of a name when typography is taken away.
NameKey(name) == NameTokens(name)

\* blocking_prefix: a word has at least the eight letters that are kept.
BlockingPrefix(name) ==
  LET own == Without(NameTokens(name), TypeWord)
  IN IF own = <<>> THEN None ELSE Head(own)

-----------------------------------------------------------------------------
Digits(number) == IF number \in Landline THEN 8 ELSE 9

Zeros == [p \in {"0", "213", "2130"} |-> IF p = "0" THEN 1 ELSE IF p = "213" THEN 3 ELSE 4]

\* Mutant of NormalisedPhone: +213(0) numbers keep their zero.
NormalisedButZero(p) ==
  LET bare == IF p.prefix = "00213" THEN "213" ELSE p.prefix
  IN <<IF bare = "0" /\ Digits(p.number) = 9 THEN "213" ELSE bare, p.number>>

\* _normalise_digit_phone: the leading 00 goes; then a number of 10 digits
\* that starts with 0, and one of 13 that starts with 2130, get the prefix
\* 213.  Landlines are a digit shorter and keep the prefix they came with.
NormalisedPhone(p) ==
  LET bare   == IF p.prefix = "00213" THEN "213" ELSE p.prefix
      length == Zeros[bare] + Digits(p.number)
  IN <<IF (bare = "0" /\ length = 10) \/ (bare = "2130" /\ length = 13)
       THEN "213" ELSE bare, p.number>>

\* phone_digits: the structured numbers; the raw string only without them.
PhoneDigits(r) ==
  IF r.details # {} THEN {NormalisedPhone(d) : d \in r.details}
  ELSE IF r.phone # None THEN {NormalisedPhone(r.phone)} ELSE {}

-----------------------------------------------------------------------------
\* registrable_domain: social platforms and providers have none.
RegistrableDomain(url) ==
  IF url = None \/ url.host \in Platform \cup Provider THEN None ELSE url.host

\* social_handle_from_url: the host must be in the table as it stands, which
\* no host with "www." is.
SocialHandle(url) ==
  IF url # None /\ url.host \in Platform /\ ~url.www /\ url.path # None
  THEN <<url.host, url.path>> ELSE None

\* email_domain.
EmailDomain(email) == IF email.host \in Platform \cup Provider THEN None ELSE email.host

\* _social_identities: of two handles on one platform the later is kept, the
\* record's own profile last.
SocialIdentities(r) ==
  LET handle(i) == SocialHandle(IF i <= Len(r.links) THEN r.links[i] ELSE r.profile)
      on(p)     == {i \in 1..(Len(r.links) + 1) : handle(i) # None /\ handle(i)[1] = p}
      last(p)   == CHOOSE i \in on(p) : \A j \in on(p) : j <= i
  IN [p \in {q \in Platform : on(q) # {}} |-> handle(last(p))[2]]

\* The identity tokens of a record: the domains and profiles it points at, and
\* those it is.
DomainTokens(ds) == {<<"domain", d>> : d \in ds \ {None}}

Outbound(r, website, socials) ==
  {<<"social", p, socials[p]>> : p \in DOMAIN socials}
  \cup DomainTokens({website} \cup {RegistrableDomain(r.links[i]) : i \in 1..Len(r.links)})

SelfTokens(r, website) ==
  LET own == SocialHandle(r.profile)
  IN (IF own = None THEN {} ELSE {<<"social", own[1], own[2]>>}) \cup DomainTokens({website})

\* extract_features.
Features(r) ==
  LET website == RegistrableDomain(r.website)
      socials == SocialIdentities(r)
  IN [key          |-> NameKey(r.name),
      prefix       |-> BlockingPrefix(r.name),
      phones       |-> PhoneDigits(r),
      emails       |-> {r.email} \ {None},
      emailDomains |-> {EmailDomain(e) : e \in {r.email} \ {None}} \ {None},
      website      |-> website,
      socials      |-> socials,
      outbound     |-> Outbound(r, website, socials),
      self         |-> SelfTokens(r, website),
      wilaya       |-> r.wilaya,
      place        |-> r.place,
      address      |-> IF r.address = None THEN {} ELSE r.address.words,
      industry     |-> r.industry]
=============================================================================
