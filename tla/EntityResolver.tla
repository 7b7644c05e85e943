---------------------------- MODULE EntityResolver ----------------------------
(***************************************************************************)
(* One resolution run, EntityResolver.resolve                              *)
(* (engine/resolution/resolver.py): leads are loaded with the latest human *)
(* decisions; candidate pairs are compared and judged; the SAME decisions  *)
(* are clustered in the order of their scores, under the pins; the groups  *)
(* give the relations, the review items, the golden records and the log.   *)
(* An incremental run looks at the pairs of new leads only and pins the    *)
(* clusters that earlier runs made.                                        *)
(*                                                                         *)
(* Lead, comp, pinned, pins, forbidden and edges are those of Clusterer;   *)
(* lead i is the i-th of the run.                                          *)
(***************************************************************************)
EXTENDS Clusterer, PairEvidence, CanonicalRecord, LeadScoring

CONSTANTS Stored,      \* the leads a database may hold
          NewSets,     \* bound: which leads of an incremental run are new
          MaxJudged    \* bound: human decisions in the log

ASSUME ResolverAssumption ==
  /\ Lead = 1..Cardinality(Lead)
  /\ \A r \in Stored : IsLead(r)

VARIABLES leads,     \* the leads loaded so far
          human,     \* pair -> "same" or "distinct": latest human decision
          step,      \* "load", "cluster" or "done"
          fresh,     \* the new leads of the run; all of them in batch mode
          verdicts,  \* candidate pair -> evidence, decision, and whose it is
          result     \* what the run hands to the service

resolverVars == <<forest, leads, human, step, fresh, verdicts, result>>

Nothing == [relations |-> {}, reviews |-> {}, records |-> <<>>, logged |-> {}]

ResolverInit ==
  /\ ForestInit
  /\ leads = <<>>
  /\ human = <<>>
  /\ step = "load"
  /\ fresh = {}
  /\ verdicts = <<>>
  /\ result = Nothing

\* "Computed once, compared N times": the views of all leads and the evidence
\* of all pairs.
FeaturesOf  == [r \in Stored |-> Features(r)]
EvidenceFor == [r \in Stored |-> [s \in Stored |-> Evidence(FeaturesOf[r], FeaturesOf[s])]]

Loaded == [i \in 1..Len(leads) |-> FeaturesOf[leads[i]]]

-----------------------------------------------------------------------------
\* The input of the run.

LoadLead(r) ==
  /\ step = "load" /\ Len(leads) < Cardinality(Lead)
  /\ leads' = Append(leads, r)
  /\ UNCHANGED <<forest, human, step, fresh, verdicts, result>>

LoadOverride(p, decision) ==
  /\ step = "load" /\ Len(leads) = Cardinality(Lead)
  /\ Cardinality(DOMAIN human) < MaxJudged /\ p \notin DOMAIN human
  /\ human' = [q \in DOMAIN human \cup {p} |-> IF q = p THEN decision ELSE human[q]]
  /\ UNCHANGED <<forest, leads, step, fresh, verdicts, result>>

-----------------------------------------------------------------------------
\* Evidence and classification.

Manual(p) == p \in DOMAIN human

\* The first of a pair is the one with the lower index.
EvidenceOf(p) ==
  LET a == CHOOSE i \in p : \A j \in p : i <= j
      b == CHOOSE i \in p : i # a
  IN EvidenceFor[leads[a]][leads[b]]

Decision(p, ev) ==
  [decision |-> IF Manual(p) THEN human[p] ELSE Classified(ev),
   score    |-> IF Manual(p) THEN 10000 ELSE ev.total,
   manual   |-> Manual(p),
   evidence |-> ev]

Pinned(decision) == {p \in DOMAIN human : human[p] = decision}

StrongConflictBar == 10000

\* A DISTINCT decision with this much disagreement is a must-not-link.
Vetoes(decided) ==
  {p \in DOMAIN decided : decided[p].decision = "distinct" /\
                          decided[p].evidence.conflict >= StrongConflictBar}

\* An edge backed by a contact identifier.
StrongEdge(ev) == ev.contact > 0

\* The decisions of a run, by candidate pair.
Judged(new) ==
  [p \in {q \in CandidatePairs(Loaded) : q \cap new # {}} |-> Decision(p, EvidenceOf(p))]

\* Up to the first pin.  In an incremental run prior is the cluster that the
\* old leads already share, if any.
Judge(new, prior) ==
  LET decided == Judged(new)
  IN /\ step = "load" /\ Len(leads) = Cardinality(Lead)
     /\ step' = "cluster"
     /\ fresh' = new
     /\ verdicts' = decided
     /\ pins' = Pinned("same") \cup {p \in Pairs : p \subseteq prior}
     /\ forbidden' = Pinned("distinct") \cup Vetoes(decided)
     /\ edges' = {[pair |-> p, strong |-> StrongEdge(decided[p].evidence)] :
                    p \in {q \in DOMAIN decided : decided[q].decision = "same"}}
     /\ UNCHANGED <<comp, pinned, leads, human, result>>

JudgeBatch == Judge(Lead, {})

JudgeNew ==
  \E new \in NewSets : \E prior \in SUBSET (Lead \ new) :
    Cardinality(prior) # 1 /\ Judge(new, prior)

-----------------------------------------------------------------------------
\* Clustering.

ReplayPin ==
  /\ step = "cluster"
  /\ \E a, b \in Lead : a < b /\ PinSame(a, b)
  /\ UNCHANGED <<leads, human, step, fresh, verdicts, result>>

\* edges.sort: by falling score, then by the pair.
Before(p, q) ==
  LET first(s) == CHOOSE i \in s : \A j \in s : i <= j
  IN Higher(<<verdicts[p].score, -first(p), -first(p \ {first(p)})>>,
            <<verdicts[q].score, -first(q), -first(q \ {first(q)})>>)

Join ==
  /\ step = "cluster" /\ pins = {}
  /\ \E e \in edges :
       /\ \A f \in edges \ {e} : Before(e.pair, f.pair)
       /\ Consider(e)
  /\ UNCHANGED <<leads, human, step, fresh, verdicts, result>>

-----------------------------------------------------------------------------
\* What follows from the groups.

\* Only records that a decision or an override names are in a group.
Registered == UNION (DOMAIN verdicts \cup DOMAIN human) \cup
              {l \in Lead : pinned[l] # {l}}

Groups == {comp[l] : l \in Registered}

Affected == {g \in Groups : g \cap fresh # {}}

Decided(decision) == {p \in DOMAIN verdicts : verdicts[p].decision = decision}

\* Between two groups, one of each kind (_dedupe_relations).
Relations ==
  {[groups |-> {comp[l] : l \in p}, kind |-> Relationship(verdicts[p].evidence)] :
     p \in {q \in Decided("related") : \E l \in q : ~(q \subseteq comp[l])}}

InRelation(g) == \E rel \in Relations : g \in rel.groups

\* Groups of several records, and those that are related; in an incremental
\* run only what the run touched.
RecordedGroups ==
  {g \in Groups : /\ Cardinality(g) > 1 \/ InRelation(g)
                  /\ g \in Affected \/ InRelation(g)}

\* The members of a group in the order of the run.
Members(g) ==
  LET order == Without([i \in 1..Len(leads) |-> i], Lead \ g)
  IN [i \in 1..Len(order) |-> leads[order[i]]]

\* _all_group_evidence: the identity of the SAME decisions inside a group.
EdgeIdentities(g) == {verdicts[p].evidence.identity : p \in {q \in Decided("same") : q \subseteq g}}

\* DISTINCT decisions are logged when the names are this similar.
LogDistinct == 7500

Logged ==
  {p \in DOMAIN verdicts :
     verdicts[p].decision = "distinct" => verdicts[p].evidence.similarity >= LogDistinct}

Finish ==
  /\ step = "cluster" /\ pins = {} /\ edges = {}
  /\ step' = "done"
  /\ result' = [relations |-> Relations,
                reviews   |-> Decided("unresolved"),
                records   |-> [g \in RecordedGroups |-> Canonical(Members(g), EdgeIdentities(g))],
                logged    |-> Logged]
  /\ UNCHANGED <<forest, leads, human, fresh, verdicts>>

ResolverNext ==
  \/ \E r \in Stored : LoadLead(r)
  \/ \E p \in Pairs, d \in {"same", "distinct"} : LoadOverride(p, d)
  \/ JudgeBatch \/ JudgeNew
  \/ ReplayPin \/ Join \/ Finish

ResolverSpec == ResolverInit /\ [][ResolverNext]_resolverVars

-----------------------------------------------------------------------------
\* Location never merges two records by itself: the engine decides SAME on
\* contact evidence only, so the rule for location-only edges, which depends
\* on the order of the edges, never decides which records share a group.
LocationNeverMerges ==
  step = "cluster" /\ pins = {} =>
    \A e \in edges : ~e.strong => \E l \in e.pair : e.pair \subseteq pinned[l]

\* Two verified, disjoint addresses are two places: whatever else two records
\* share, the engine leaves their pair to be linked or reviewed.
BranchesKeptApart ==
  \A p \in Decided("same") :
    \/ verdicts[p].manual
    \/ \A a, b \in p : a # b => ~AddressesDisjoint(Loaded[a], Loaded[b])

\* The verdict on a pair does not depend on which record was loaded first.
VerdictsSymmetric ==
  step = "load" =>
    \A a, b \in 1..Len(leads) :
      Classified(EvidenceFor[leads[a]][leads[b]]) = Classified(EvidenceFor[leads[b]][leads[a]])

\* A batch run "never misses a pair that shares an identifier", however many
\* records carry it: a mobile number in whatever form it was written, a site,
\* or a profile.
MobileNumbers(r) ==
  {d.number : d \in (IF r.details # {} THEN r.details ELSE {r.phone} \ {None})} \ Landline

SharesIdentifier(r, s) ==
  LET f == FeaturesOf[r]
      g == FeaturesOf[s]
  IN \/ MobileNumbers(r) \cap MobileNumbers(s) # {}
     \/ f.website # None /\ f.website = g.website
     \/ \E p \in DOMAIN f.socials \cap DOMAIN g.socials : f.socials[p] = g.socials[p]

SharedIdentifierCompared ==
  step = "cluster" /\ fresh = Lead =>
    \A a, b \in Lead :
      a # b /\ SharesIdentifier(leads[a], leads[b]) => {a, b} \in DOMAIN verdicts

\* The display name of an entity does not depend on the order in which its
\* members were loaded, unless two members of equal trust were written at the
\* same moment, as bulk updates write them.
NameIndependentOfOrder ==
  step = "done" =>
    \A g \in DOMAIN result.records :
      LET group == Members(g)
          r     == group[Winner(group, "name")]
      IN \A order \in Bijection(DOMAIN group, DOMAIN group) :
           LET other == [i \in DOMAIN group |-> group[order[i]]]
               s     == other[Winner(other, "name")]
           IN r.name = s.name \/ (Trust[r.source] = Trust[s.source] /\ r.updated = s.updated)

\* Scores and breakdowns of the leads that were loaded (LeadScoring).
BreakdownsAddUp == \A i \in 1..Len(leads) : AddsUp(leads[i])
ReachPays       == \A i \in 1..Len(leads) : PaysToReach(leads[i])
AuditsAgree     == \A i \in 1..Len(leads) : AuditAgrees(leads[i])

\* What SharedIdentifierCompared and BranchesKeptApart rest on: once a run has
\* judged its pairs, nothing it does changes the leads or the decisions.
ResolverInv ==
  /\ leads \in Seq(Stored)
  /\ step \in {"load", "cluster", "done"}
  /\ step = "load" => verdicts = <<>>
  /\ step # "load" => Len(leads) = Cardinality(Lead) /\ verdicts = Judged(fresh)

\* What LocationNeverMerges rests on, too: a pin is either still to be replayed
\* or has joined its pair, and an edge is a SAME verdict of the run.
PinsInv ==
  /\ ForestType /\ Partition
  /\ DOMAIN human \subseteq Pairs
  /\ step = "load" => pins = {} /\ edges = {}
  /\ step = "load" \/ pins # {} => pinned = comp
  /\ step # "load" =>
       /\ \A p \in Pinned("same") : p \in pins \/ \E l \in p : p \subseteq pinned[l]
       /\ \A e \in edges : /\ e.pair \in Decided("same")
                           /\ e.strong = StrongEdge(verdicts[e.pair].evidence)
=============================================================================
