------------------------------- MODULE Clusterer -------------------------------
(***************************************************************************)
(* ConstraintClusterer (engine/resolution/clustering.py): how the SAME     *)
(* decisions of one resolution run become groups, under the pins of humans *)
(* and of earlier runs and under must-not-link constraints.                *)
(*                                                                         *)
(* The union-find forest is abstracted to what it represents, the          *)
(* component of every record.  Scores are data: an edge may come at any    *)
(* place in the score order.  A pair of records is a two-element set.      *)
(***************************************************************************)
EXTENDS Integers, FiniteSets

CONSTANT Lead     \* the records of the run, by lead id

ASSUME LeadAssumption == Lead \in SUBSET (Nat \ {0}) /\ IsFiniteSet(Lead)

Pairs == {{a, b} : a, b \in Lead} \ {{a} : a \in Lead}

VARIABLES comp,       \* record -> its component
          pinned,     \* the components the pins alone make
          pins,       \* pin_same calls still to come
          forbidden,  \* must-not-link pairs
          edges       \* SAME decisions not yet considered

forest == <<comp, pinned, pins, forbidden, edges>>

Edge == [pair : Pairs, strong : BOOLEAN]

Singletons == [l \in Lead |-> {l}]

ForestType ==
  /\ comp \in [Lead -> SUBSET Lead]
  /\ pinned \in [Lead -> SUBSET Lead]
  /\ pins \subseteq Pairs
  /\ forbidden \subseteq Pairs
  /\ edges \subseteq Edge

ForestInit ==
  /\ comp = Singletons
  /\ pinned = Singletons
  /\ pins = {}
  /\ forbidden = {}
  /\ edges = {}

\* A clusterer lives for one run.
ForestDropped ==
  /\ comp' = Singletons
  /\ pinned' = Singletons
  /\ pins' = {}
  /\ forbidden' = {}
  /\ edges' = {}

-----------------------------------------------------------------------------
\* _union.
Joined(a, b) ==
  [l \in Lead |-> IF l \in comp[a] \cup comp[b] THEN comp[a] \cup comp[b] ELSE comp[l]]

\* Mutant: only the edge's own pair is looked up.
ViolatesDirectly(a, b) == {a, b} \in forbidden

\* _would_violate: a constraint across the two components.
WouldViolate(a, b) ==
  \E x \in comp[a] : \E y \in comp[b] : {x, y} \in forbidden

\* Mutant: a pin is refused like an edge.
JoinedIfAllowed(a, b) == IF WouldViolate(a, b) THEN comp ELSE Joined(a, b)

\* What pin_same makes of the components: it ignores the constraints.
JoinedByPin(a, b) == Joined(a, b)

\* pin_same.
PinSame(a, b) ==
  /\ {a, b} \in pins
  /\ comp' = JoinedByPin(a, b)
  /\ pinned' = comp'
  /\ pins' = pins \ {{a, b}}
  /\ UNCHANGED <<forbidden, edges>>

\* A weak edge joins singletons only.
MayJoin(e, a, b) == e.strong \/ (comp[a] = {a} /\ comp[b] = {b})

\* One iteration of the edge loop.
Consider(e) ==
  /\ e \in edges
  /\ \E a, b \in e.pair :
       /\ a # b
       /\ comp' = IF b \notin comp[a] /\ MayJoin(e, a, b) /\ ~WouldViolate(a, b)
                  THEN Joined(a, b) ELSE comp
  /\ edges' = edges \ {e}
  /\ UNCHANGED <<pinned, pins, forbidden>>

-----------------------------------------------------------------------------
\* The components are a partition of the records.
Partition ==
  \A a \in Lead : a \in comp[a] /\ \A b \in comp[a] : comp[b] = comp[a]

\* "Contradictory merges": records that a must-not-link constraint separates
\* share a group only if pins already put them together, whatever the order
\* of the edges.
VetoesHold ==
  \A a, b \in Lead : {a, b} \in forbidden /\ b \in comp[a] => b \in pinned[a]

\* What a human or an earlier run pinned together is never pulled apart.
PinsKept == \A a \in Lead : pinned[a] \subseteq comp[a]
=============================================================================
