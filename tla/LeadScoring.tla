------------------------------ MODULE LeadScoring ------------------------------
(***************************************************************************)
(* How a lead is scored.  The same arithmetic is written down three times: *)
(* over channel flags for batches (engine/fastops.py), factor by factor    *)
(* for the breakdown a user sees (LeadScorer.explain, engine/scorer.py),   *)
(* and for the audit (BusinessAnalyzer, engine/analyzer.py).  Points are   *)
(* in hundredths.  A lead is a record of LeadFeatures.                     *)
(***************************************************************************)
EXTENDS LeadFeatures

Min2(m, n) == IF m <= n THEN m ELSE n

IfElse0(condition, points) == IF condition THEN points ELSE 0

HasMobile(r) == \E d \in r.details : d.mobile

\* channel_flags.  A mobile number of a validated detail is WhatsApp-capable.
ChannelFlags(r) ==
  {f \in {"website", "ssl", "phone", "mobile", "whatsapp", "email", "social",
          "address", "geo"} :
     CASE f = "website"  -> r.website # None
       [] f = "ssl"      -> r.website # None /\ r.website.secure
       [] f = "phone"    -> r.phone # None
       [] f \in {"mobile", "whatsapp"} -> r.phone # None /\ HasMobile(r)
       [] f = "email"    -> r.email # None
       [] f = "social"   -> r.links # <<>>
       [] f = "address"  -> r.address # None /\ ~r.address.brief
       [] f = "geo"      -> r.place # None}

Freshness == <<1500, 1000, 700, 400, 200>>   \* FRESHNESS_POINTS, by age

-----------------------------------------------------------------------------
\* fastops: _flag_sums, tabulated as _SCORE_LUT.

Contactable(flags) == flags \cap {"phone", "email"} # {}

FlagHealth(flags) ==
  10 + IfElse0("website" \in flags, 35 + IfElse0("ssl" \in flags, 10))
     + IfElse0("phone" \in flags, 15)
     + IfElse0("email" \in flags, 10)
     + IfElse0("address" \in flags, 5)

\* Mutant of FlagPoints: e-mail is health, but no reach.
FlagPointsNoEmail(flags) ==
  IfElse0("phone" \in flags, 1500)
  + IfElse0("mobile" \in flags, 1000) + IfElse0("website" \in flags, 1000)
  + IfElse0("whatsapp" \in flags, 500) + IfElse0("social" \in flags, 500)
  + IfElse0("address" \in flags, 500) + IfElse0("geo" \in flags, 500)

FlagPoints(flags) ==
  IfElse0("phone" \in flags, 1500)
  + IfElse0("mobile" \in flags, 1000) + IfElse0("website" \in flags, 1000)
  + IfElse0("whatsapp" \in flags, 500) + IfElse0("email" \in flags, 500)
  + IfElse0("social" \in flags, 500) + IfElse0("address" \in flags, 500)
  + IfElse0("geo" \in flags, 500)

\* Mutant of FlagOpportunity: the build bonus is due to anyone without a site.
FlagOpportunityUngated(flags) ==
  IfElse0("website" \notin flags, 1500)
  + IfElse0(Contactable(flags) /\ flags \cap {"address", "geo"} = {}, 1000)

\* The opportunity bonuses, for leads that can be reached.
FlagOpportunity(flags) ==
  IfElse0(Contactable(flags) /\ "website" \notin flags, 1500)
  + IfElse0(Contactable(flags) /\ flags \cap {"address", "geo"} = {}, 1000)

\* score_batch, for one lead.
Health(r) ==
  LET flags == ChannelFlags(r)
  IN Min2(100, FlagHealth(flags)
               + IfElse0("social" \in flags, 10 + Min2(Len(r.links), 2) * 5))

Priority(r) ==
  LET flags == ChannelFlags(r)
  IN Min2(10000, FlagPoints(flags) + FlagOpportunity(flags)
                 + (100 - Health(r)) * 25 + Freshness[r.age + 1])

-----------------------------------------------------------------------------
\* LeadScorer.explain, right after score has set digital_score.

Reached(r)  == r.phone # None \/ r.email # None
Standing(r) == r.address # None /\ ~r.address.brief

\* round(x, 1) of a multiple of 0.25 that is not one of 0.1: to the even digit.
Rounded(points) ==
  LET rest == points % 10
  IN IF rest = 5 THEN IF ((points \div 10) % 2) = 0 THEN points - 5 ELSE points + 5
     ELSE points - rest + IfElse0(rest > 5, 10)

Factors(r) ==
  [phone_present     |-> IfElse0(r.phone # None, 1500),
   mobile_direct     |-> IfElse0(r.phone # None /\ HasMobile(r), 1000),
   whatsapp_ready    |-> IfElse0(r.phone # None /\ HasMobile(r), 500),
   email_present     |-> IfElse0(r.email # None, 500),
   website_active    |-> IfElse0(r.website # None, 1000),
   social_channel    |-> IfElse0(r.links # <<>>, 500),
   physical_location |-> IfElse0(Standing(r), 500),
   geo_verified      |-> IfElse0(r.place # None, 500),
   website_build_opportunity |-> IfElse0(Reached(r) /\ r.website = None, 1500),
   local_seo_opportunity     |-> IfElse0(Reached(r) /\ ~Standing(r) /\ r.place = None, 1000),
   opportunity_deficit       |-> Rounded((100 - Health(r)) * 25),
   freshness         |-> Freshness[r.age + 1]]

Total(f) ==
  f.phone_present + f.mobile_direct + f.whatsapp_ready + f.email_present
    + f.website_active + f.social_channel + f.physical_location + f.geo_verified
    + f.website_build_opportunity + f.local_seo_opportunity
    + f.opportunity_deficit + f.freshness

-----------------------------------------------------------------------------
\* BusinessAnalyzer.

\* Mutant of DigitalScore: the audit does not look at HTTPS.
DigitalScoreNoSsl(r) ==
  Min2(100, 10 + IfElse0(r.website # None, 35) + IfElse0(r.phone # None, 15)
               + IfElse0(r.email # None, 10)
               + IfElse0(r.links # <<>>, 10 + Min2(Len(r.links), 2) * 5)
               + IfElse0(r.address # None, 5))

\* _digital_score: any address at all counts.
DigitalScore(r) ==
  Min2(100, 10 + IfElse0(r.website # None, 35 + IfElse0(r.website.secure, 10))
               + IfElse0(r.phone # None, 15)
               + IfElse0(r.email # None, 10)
               + IfElse0(r.links # <<>>, 10 + Min2(Len(r.links), 2) * 5)
               + IfElse0(r.address # None, 5))

Gaps(r) ==
  {g \in {"website", "ssl", "phone", "email", "social"} :
     CASE g = "website" -> r.website = None
       [] g = "ssl"     -> r.website # None /\ ~r.website.secure
       [] g = "phone"   -> ~HasMobile(r) /\ r.phone = None
       [] g = "email"   -> r.email = None
       [] g = "social"  -> r.links = <<>>}

Tier(score) ==
  IF score >= 70 THEN "mature" ELSE IF score >= 40 THEN "partial" ELSE "opportunity"

-----------------------------------------------------------------------------
\* The breakdown a user sees adds up to the score, within the rounding of its
\* one fractional factor: explain and score_batch are the same arithmetic.
AddsUp(r) == Total(Factors(r)) - Priority(r) \in -5..5

\* A way to be reached is never worth less than none: a lead does not rise in
\* the list by losing its telephone number or its e-mail address.  (A website
\* or an address does lower it: it is one service less to offer.)
PaysToReach(r) ==
  \A s \in {[r EXCEPT !.phone = None], [r EXCEPT !.email = None]} : Priority(s) <= Priority(r)

\* "Must stay consistent": audit and scorer give a lead the same digital
\* score unless its address is too brief to count; no gap is pitched for a
\* channel the scorer pays for, and a lead without gaps is a mature one.
AuditAgrees(r) ==
  /\ r.address = None \/ ~r.address.brief => DigitalScore(r) = Health(r)
  /\ Gaps(r) \cap ChannelFlags(r) = {}
  /\ Gaps(r) = {} => Tier(DigitalScore(r)) = "mature"
=============================================================================
