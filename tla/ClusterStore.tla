----------------------------- MODULE ClusterStore -----------------------------
(***************************************************************************)
(* The entity tables of infrastructure/storage/cluster_repo.py and the     *)
(* transactions on them: persist, upsert_relations, split_cluster and      *)
(* merge_clusters.  Each runs inside one BEGIN IMMEDIATE connection, so    *)
(* each is one action; whatever its arguments were computed from was read  *)
(* in earlier transactions and may be stale, so nothing is assumed here of *)
(* the arguments.                                                          *)
(*                                                                         *)
(* Golden records, names, scores and reasons are data the tables only      *)
(* carry and are left out.  A foreign-key error rolls the transaction back *)
(* and raises: the action then changes nothing (see the guards on          *)
(* clusters).                                                              *)
(***************************************************************************)
EXTENDS Integers, FiniteSets

CONSTANTS Lead,     \* leads.id values
          MaxId     \* bound on the cluster ids ever allocated

ASSUME StoreAssumption == MaxId \in Nat

ClusterId == 1..MaxId
NoCluster == 0      \* NULL in leads.cluster_id

VARIABLES clusters,   \* entity_clusters: the ids that exist
          lastId,     \* its AUTOINCREMENT high-water mark
          members,    \* entity_links: cluster id -> leads linked to it
          pointer,    \* leads.cluster_id
          relations   \* entity_relations: (cluster_a, cluster_b) pairs

tables == <<clusters, lastId, members, pointer, relations>>

StoreType ==
  /\ clusters \subseteq 1..lastId
  /\ lastId \in 0..MaxId
  /\ members \in [ClusterId -> SUBSET Lead]
  /\ pointer \in [Lead -> ClusterId \cup {NoCluster}]
  /\ relations \subseteq ClusterId \X ClusterId

StoreInit ==
  /\ clusters = {}
  /\ lastId = 0
  /\ members = [c \in ClusterId |-> {}]
  /\ pointer = [l \in Lead |-> NoCluster]
  /\ relations = {}

-----------------------------------------------------------------------------
\* The clusters the SELECT over entity_links returns: those with a member.
Held == {c \in clusters : members[c] # {}}

\* Reuse rules 1 and 2 of persist: the same member set, else a subset.
Exact(r)    == {c \in Held : members[c] = r}
Within(r)   == {c \in Held : members[c] \subseteq r}

\* Mutants, here and wherever a comment says so, are used by no specification.
\* Mutant: v3.0, a cluster that grew gets a new row.
ReusableExactly(r) == Exact(r)

Reusable(r) == IF Exact(r) # {} THEN Exact(r) ELSE Within(r)

\* Mutant: plain rowids, allocated after the largest id still present.
FreshIdsRecycled(n) ==
  LET top == CHOOSE c \in clusters \cup {0} : \A d \in clusters : d <= c
  IN (top + 1)..(top + n)

\* n rows are inserted: AUTOINCREMENT never hands an id out twice.
FreshIds(n) == (lastId + 1)..(lastId + n)

\* The row each record is written to; which of several subsets is reused
\* depends on the order SQLite returns the links in, so any may be.
Inserted(R) == {r \in R : Reusable(r) = {}}

Placement(R, target) ==
  /\ \A r \in R \ Inserted(R) : target[r] \in Reusable(r)
  /\ \A r \in Inserted(R) : target[r] \in FreshIds(Cardinality(Inserted(R)))
  /\ \A r, s \in Inserted(R) : target[r] = target[s] => r = s

\* Mutant: superseded clusters are left in place.
PrunedNothing(used, scope) == {}

\* Clusters not reused that the scope touches are deleted.
Pruned(used, scope) == {c \in Held \ used : members[c] \cap scope # {}}

\* Mutant: entity_relations without ON DELETE CASCADE.
UntouchedNoCascade(gone) == relations

Untouched(gone) == {e \in relations : e[1] \notin gone /\ e[2] \notin gone}

\* persist(records, scope): R is the set of the records' member sets.  Links
\* and relations of a deleted cluster cascade; leads.cluster_id is set NULL.
Persist(R, scope) ==
  \E target \in [R -> ClusterId] :
    LET used == {target[r] : r \in R}
        gone == Pruned(used, scope)
    IN /\ Placement(R, target)
       /\ lastId + Cardinality(Inserted(R)) <= MaxId       \* the bound
       /\ clusters' = (clusters \ gone) \cup used
       /\ lastId' = lastId + Cardinality(Inserted(R))
       /\ members' = [c \in ClusterId |->
                        IF c \in gone THEN {}
                        ELSE members[c] \cup UNION {r \in R : target[r] = c}]
       /\ pointer' = [l \in Lead |->
                        IF \E r \in R : l \in r
                        THEN target[CHOOSE r \in R : l \in r]
                        ELSE IF pointer[l] \in gone THEN NoCluster
                        ELSE pointer[l]]
       /\ relations' = Untouched(gone)

\* upsert_relations for one relation between two clusters; _pair orders the
\* endpoints, equal ones are skipped, a missing one is a foreign-key error.
UpsertRelation(a, b) ==
  /\ relations' = IF a # b /\ {a, b} \subseteq clusters
                  THEN relations \cup {IF a < b THEN <<a, b>> ELSE <<b, a>>}
                  ELSE relations
  /\ UNCHANGED <<clusters, lastId, members, pointer>>

\* split_cluster(c, groups): the group `kept` is first and keeps the id, the
\* others get new rows.  Only c's links outside `kept` are deleted.
Split(c, groups, kept) ==
  \E target \in [groups -> ClusterId] :
    /\ lastId + Cardinality(groups) - 1 <= MaxId          \* the bound
    /\ c \in clusters
    /\ target[kept] = c
    /\ \A g \in groups \ {kept} :
         target[g] \in FreshIds(Cardinality(groups) - 1)
    /\ \A g, h \in groups : target[g] = target[h] => g = h
    /\ clusters' = clusters \cup {target[g] : g \in groups}
    /\ lastId' = lastId + Cardinality(groups) - 1
    /\ members' = [d \in ClusterId |->
                     IF \E g \in groups : target[g] = d
                     THEN CHOOSE g \in groups : target[g] = d
                     ELSE members[d]]
    /\ pointer' = [l \in Lead |->
                     IF \E g \in groups : l \in g
                     THEN target[CHOOSE g \in groups : l \in g]
                     ELSE pointer[l]]
    /\ UNCHANGED relations

\* _remap_relations for every absorbed cluster, self-relations dropped.
Remapped(survivor, absorbed) ==
  LET home(c) == IF c \in absorbed THEN survivor ELSE c
  IN {e \in {<<home(f[1]), home(f[2])>> : f \in relations} : e[1] # e[2]}

\* merge_clusters: memberships are re-read inside the transaction.
Merge(survivor, absorbed) ==
  LET all == UNION {members[c] : c \in absorbed \cup {survivor}}
  IN /\ survivor \in clusters
     /\ relations' = Remapped(survivor, absorbed)
     /\ clusters' = clusters \ absorbed
     /\ members' = [c \in ClusterId |-> CASE c = survivor   -> all
                                          [] c \in absorbed -> {}
                                          [] OTHER          -> members[c]]
     /\ pointer' = [l \in Lead |->
                      IF l \in all THEN survivor
                      ELSE IF pointer[l] \in absorbed THEN NoCluster
                      ELSE pointer[l]]
     /\ UNCHANGED lastId

-----------------------------------------------------------------------------
\* Every reference in the tables is to a row that exists, and every cluster
\* has a member: no cascade, NULLing or repointing is ever forgotten, however
\* the services' reads and these transactions interleave.
LiveReferences ==
  /\ \A c \in ClusterId : c \in clusters <=> members[c] # {}
  /\ \A l \in Lead : pointer[l] # NoCluster => pointer[l] \in clusters
  /\ \A e \in relations : {e[1], e[2]} \subseteq clusters

\* leads.cluster_id and entity_links say the same of every lead, and so no lead
\* is in two clusters.  (Only under callers whose reads are current.)
Agrees == \A c \in ClusterId : members[c] = {l \in Lead : pointer[l] = c}

\* A cluster is never RELATED to itself, whatever was merged into it.
NeverSelfRelated == \A e \in relations : e[1] # e[2]
=============================================================================
