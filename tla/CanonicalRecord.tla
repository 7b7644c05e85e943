---------------------------- MODULE CanonicalRecord ----------------------------
(***************************************************************************)
(* The golden record of an entity (engine/resolution/canonical.py): for    *)
(* every field the member whose value stands, the values it displaces, and *)
(* how certain the entity is.  Members come as a sequence of leads of      *)
(* LeadFeatures, in the order of the run.                                  *)
(***************************************************************************)
EXTENDS LeadFeatures

Field == {"name", "industry", "wilaya", "address", "website", "phone", "email", "place"}

\* _SOURCE_TRUST, of every source of LeadFeatures.
Trust == [MANUAL |-> 5, OVERPASS |-> 4, DUCKDUCKGO |-> 3, SEARXNG |-> 3,
          INFINITE |-> 3, SOCIAL |-> 2, MOCK |-> 1]

Present(r, f) == IF f = "industry" THEN r[f] # {} ELSE r[f] # None

\* name_key of a value: words without typography.
ValueKey(f, value) == IF f = "name" THEN NameKey(value) ELSE <<value>>

\* _substance: how long the value is.
Substance(f, value) ==
  CASE f = "name" -> Len(value.words) [] f = "address" -> Cardinality(value.words)
    [] OTHER -> 1

\* Ranks are compared as tuples are: the first component decides.
Higher(s, t) ==
  \E i \in 1..Len(s) : s[i] > t[i] /\ \A j \in 1..(i - 1) : s[j] = t[j]

\* max: the first of the highest; rank gives the candidates, positions in the
\* group, their ranks.
FirstMax(rank) ==
  CHOOSE i \in DOMAIN rank : \A j \in DOMAIN rank :
    ~Higher(rank[j], rank[i]) /\ (j < i => Higher(rank[i], rank[j]))

Spelt(group, key) == {i \in DOMAIN group : NameKey(group[i].name) = key}

\* The normalised name that more members share than any other, if two do.
AgreedSpelling(group) ==
  LET keys == {NameKey(group[i].name) : i \in DOMAIN group} \ {<<>>}
  IN {k \in keys : Cardinality(Spelt(group, k)) >= 2 /\
        \A l \in keys \ {k} : Cardinality(Spelt(group, l)) < Cardinality(Spelt(group, k))}

\* Mutant of MajorityName: the first member that uses the spelling.
FirstOfSpelling(group, key) ==
  CHOOSE i \in Spelt(group, key) : \A j \in Spelt(group, key) : i <= j

\* _majority_name: then the display form that most of them use; without two
\* alike, the most readable one.
MajorityName(group, key) ==
  LET same    == Spelt(group, key)
      like(i) == {j \in same : group[j].name = group[i].name}
      top     == {i \in same : \A j \in same : Cardinality(like(j)) <= Cardinality(like(i))}
      source  == [i \in top |-> <<Trust[group[i].source], group[i].updated>>]
      reading == [i \in same |-> <<IF group[i].name.readable THEN 1 ELSE 0,
                                   Trust[group[i].source], group[i].updated>>]
  IN IF \E i \in top : Cardinality(like(i)) >= 2 THEN FirstMax(source) ELSE FirstMax(reading)

\* Trust, then recency, then substance.
Ranked(group, f) ==
  FirstMax([i \in {j \in DOMAIN group : Present(group[j], f)} |->
              <<Trust[group[i].source], group[i].updated, Substance(f, group[i][f])>>])

\* The member whose value of a field stands; 0 when no member has one.
Winner(group, f) ==
  IF f = "name" /\ AgreedSpelling(group) # {}
  THEN MajorityName(group, CHOOSE k \in AgreedSpelling(group) : TRUE)
  ELSE IF \E i \in DOMAIN group : Present(group[i], f) THEN Ranked(group, f) ELSE 0

\* The members whose differing values are kept, the first of each value.
Alternatives(group, f) ==
  LET w      == Winner(group, f)
      key(i) == ValueKey(f, group[i][f])
  IN {i \in DOMAIN group :
        /\ Present(group[i], f)
        /\ key(i) # key(w)
        /\ \A j \in 1..(i - 1) : Present(group[j], f) => key(j) # key(i)}

\* _completeness.
Completeness(r) ==
  Cardinality({f \in {"address", "website", "phone", "email"} : Present(r, f)})
  + Len(r.links) + Cardinality(r.details)

\* The other names the entity is known by.
Aliases(group) ==
  {NameKey(group[i].name) : i \in DOMAIN group}
    \ {<<>>, NameKey(group[Winner(group, "name")].name)}

\* _canonical_member.
CanonicalMember(group) ==
  FirstMax([i \in DOMAIN group |-> <<Trust[group[i].source], Completeness(group[i])>>])

\* confidence, in 1/10000: identities are those of the edges inside the group.
Confidence(size, identities) ==
  LET weakest == IF identities = {} THEN 7000
                 ELSE CHOOSE n \in identities : \A m \in identities : n <= m
      bonus   == IF size >= 3 THEN 1000 ELSE 500 * (size - 1)
      sum     == 5500 + (35 * weakest) \div 100 + bonus
  IN IF size <= 1 THEN 10000 ELSE IF sum > 9900 THEN 9900 ELSE sum

\* build.
Canonical(group, identities) ==
  [member     |-> CanonicalMember(group),
   values     |-> [f \in {g \in Field : Winner(group, g) # 0} |-> Winner(group, f)],
   displaced  |-> [f \in {g \in Field : Winner(group, g) # 0} |-> Alternatives(group, f)],
   aliases    |-> Aliases(group),
   confidence |-> Confidence(Len(group), identities)]
=============================================================================
