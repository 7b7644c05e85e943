----------------------- MODULE ResolutionService_proofs -----------------------
(***************************************************************************)
(* Proofs about the entity tables and the service operations on them, for  *)
(* any leads, number of concurrent calls and bound on ids.                 *)
(*                                                                         *)
(* The first part proves what each transaction preserves from what it is   *)
(* given; the second that the services give it that; the third is about    *)
(* the review queue beside them, for any pairs, clients and bound on ids.  *)
(***************************************************************************)
EXTENDS ResolutionService, ReviewQueue, FiniteSetTheorems, TLAPS

\* The kernels of functions on S are disjoint families that cover S.
LEMMA PartitionsAreDisjoint ==
  ASSUME NEW S \in SUBSET Lead, NEW G \in Partitions(S)
  PROVE  Disjoint(G) /\ UNION G = S
  <1>1. PICK f \in [S -> S] : G = {{m \in S : f[m] = f[l]} : l \in S}
    BY DEF Partitions
  <1>2. \A r \in G : \E l \in S : l \in r /\ r = {m \in S : f[m] = f[l]}
    BY <1>1
  <1>3. \A l \in S : l \in {m \in S : f[m] = f[l]} /\ {m \in S : f[m] = f[l]} \in G
    BY <1>1
  <1>4. \A r \in G : r \subseteq S /\ r # {}
    BY <1>2
  <1>5. ASSUME NEW r \in G, NEW s \in G, NEW l \in r, l \in s  PROVE r = s
    <2>1. PICK a \in S : r = {m \in S : f[m] = f[a]}
      BY <1>2
    <2>2. PICK b \in S : s = {m \in S : f[m] = f[b]}
      BY <1>2
    <2>3. f[l] = f[a] /\ f[l] = f[b]
      BY <2>1, <2>2, <1>5
    <2>. QED  BY <2>1, <2>2, <2>3
  <1>6. UNION G = S
    <2>1. UNION G \subseteq S
      BY <1>4
    <2>2. S \subseteq UNION G
      BY <1>3
    <2>. QED  BY <2>1, <2>2
  <1>7. Disjoint(G)
    BY <1>4, <1>5 DEF Disjoint
  <1>. QED  BY <1>6, <1>7

\* Families of sets of leads are finite.
LEMMA FamiliesFinite ==
  ASSUME NEW R \in SUBSET SUBSET Lead
  PROVE  IsFiniteSet(R) /\ Cardinality(R) \in Nat
  BY ServiceAssumption, FS_SUBSET, FS_Subset, FS_CardinalityType

-----------------------------------------------------------------------------
\* The rows persist writes to exist or are new, and no two records share one.
LEMMA PlacementFacts ==
  ASSUME StoreType, LiveReferences, NEW R, Disjoint(R),
         NEW target \in [R -> ClusterId], Placement(R, target),
         lastId + Cardinality(Inserted(R)) <= MaxId
  PROVE  /\ Cardinality(Inserted(R)) \in Nat
         /\ \A r \in R : target[r] \in 1..(lastId + Cardinality(Inserted(R)))
         /\ \A r \in R : members[target[r]] \subseteq r
         /\ \A r \in R : target[r] \in clusters \/ target[r] > lastId
         /\ \A r, s \in R : target[r] = target[s] => r = s
  <1> DEFINE n == Cardinality(Inserted(R))
  <1>1. n \in Nat
    BY FamiliesFinite DEF Inserted, Disjoint
  <1>2. \A r \in R \ Inserted(R) :
          target[r] \in clusters /\ members[target[r]] # {} /\ members[target[r]] \subseteq r
    BY DEF Placement, Reusable, Exact, Within, Held
  <1>3. \A r \in Inserted(R) : target[r] \in (lastId + 1)..(lastId + n)
    BY DEF Placement, FreshIds
  <1>4. \A r \in Inserted(R) : target[r] \notin clusters /\ members[target[r]] = {}
    <2>1. \A r \in Inserted(R) : target[r] \in ClusterId /\ target[r] > lastId
      BY <1>1, <1>3, StoreAssumption DEF Inserted, StoreType
    <2>2. \A c \in clusters : ~ c > lastId
      BY StoreAssumption DEF StoreType
    <2>. QED  BY <2>1, <2>2 DEF LiveReferences
  <1>5. ASSUME NEW r \in R  PROVE target[r] \in 1..(lastId + n)
    <2>1. lastId \in Nat /\ clusters \subseteq 1..lastId
      BY StoreAssumption DEF StoreType
    <2>2. CASE r \in Inserted(R)
      BY <2>1, <2>2, <1>1, <1>3
    <2>3. CASE r \notin Inserted(R)
      <3>1. target[r] \in 1..lastId
        BY <2>1, <2>3, <1>2
      <3>. QED  BY <3>1, <2>1, <1>1
    <2>. QED  BY <2>2, <2>3
  <1>6. ASSUME NEW r \in R, NEW s \in R, target[r] = target[s]  PROVE r = s
    <2>1. CASE r \in Inserted(R) /\ s \in Inserted(R)
      BY <2>1, <1>6 DEF Placement
    <2>2. CASE r \notin Inserted(R) /\ s \notin Inserted(R)
      BY <2>2, <1>2, <1>6 DEF Disjoint
    <2>. QED  BY <2>1, <2>2, <1>2, <1>4, <1>6
  <1>7. \A r \in R : members[target[r]] \subseteq r
    BY <1>2, <1>4
  <1>8. \A r \in R : target[r] \in clusters \/ target[r] > lastId
    <2>1. \A r \in Inserted(R) : target[r] > lastId
      BY <1>1, <1>3 DEF StoreType
    <2>. QED  BY <2>1, <1>2
  <1>. QED  BY <1>1, <1>5, <1>6, <1>7, <1>8

\* persist keeps every reference live and the tables typed.
LEMMA PersistKeepsReferences ==
  ASSUME StoreType, LiveReferences, NEW R, Disjoint(R), NEW scope, Persist(R, scope)
  PROVE  StoreType' /\ LiveReferences'
  <1> DEFINE n == Cardinality(Inserted(R))
  <1>1. PICK target \in [R -> ClusterId] :
          LET used == {target[r] : r \in R}
              gone == Pruned(used, scope)
          IN /\ Placement(R, target)
             /\ lastId + n <= MaxId
             /\ clusters' = (clusters \ gone) \cup used
             /\ lastId' = lastId + n
             /\ members' = [c \in ClusterId |->
                              IF c \in gone THEN {}
                              ELSE members[c] \cup UNION {r \in R : target[r] = c}]
             /\ pointer' = [l \in Lead |->
                              IF \E r \in R : l \in r
                              THEN target[CHOOSE r \in R : l \in r]
                              ELSE IF pointer[l] \in gone THEN NoCluster
                              ELSE pointer[l]]
             /\ relations' = Untouched(gone)
    BY DEF Persist
  <1> DEFINE used == {target[r] : r \in R}
             gone == Pruned(used, scope)
  <1>2. /\ n \in Nat
        /\ \A r \in R : target[r] \in 1..(lastId + n)
    BY <1>1, PlacementFacts
  <1>3. gone \subseteq clusters /\ gone \cap used = {}
    BY DEF Pruned, Held
  <1>4. used \subseteq clusters' /\ clusters' = (clusters \ gone) \cup used
    BY <1>1
  <1>5. StoreType'
    <2>1. lastId' \in 0..MaxId /\ clusters' \subseteq 1..lastId'
      <3>1. lastId \in Nat /\ clusters \subseteq 1..lastId
        BY StoreAssumption DEF StoreType
      <3>2. lastId' = lastId + n /\ lastId' \in 0..MaxId
        BY <3>1, <1>1, <1>2, StoreAssumption
      <3>3. used \subseteq 1..lastId'
        BY <3>2, <1>2
      <3>4. clusters \subseteq 1..lastId'
        BY <3>1, <3>2, <1>2
      <3>. QED  BY <3>2, <3>3, <3>4, <1>1
    <2>2. members' \in [ClusterId -> SUBSET Lead]
      <3>1. \A c \in ClusterId : UNION {r \in R : target[r] = c} \subseteq Lead
        BY DEF Disjoint
      <3>2. \A c \in ClusterId : members'[c] \subseteq Lead
        BY <3>1, <1>1 DEF StoreType
      <3>. QED  BY <3>2, <1>1
    <2>3. ASSUME NEW l \in Lead  PROVE pointer'[l] \in ClusterId \cup {NoCluster}
      BY <1>1 DEF StoreType
    <2>4. pointer' \in [Lead -> ClusterId \cup {NoCluster}]
      BY <2>3, <1>1
    <2>5. relations' \subseteq ClusterId \X ClusterId
      BY <1>1 DEF StoreType, Untouched
    <2>. QED  BY <2>1, <2>2, <2>4, <2>5 DEF StoreType
  <1>6. ASSUME NEW c \in ClusterId  PROVE c \in clusters' <=> members'[c] # {}
    <2>1. CASE c \in gone
      BY <2>1, <1>1, <1>3
    <2>2. CASE c \in used
      <3>1. PICK r \in R : target[r] = c
        BY <2>2
      <3>2. r \subseteq members'[c]
        BY <3>1, <2>2, <1>1, <1>3
      <3>. QED  BY <3>1, <3>2, <2>2, <1>4 DEF Disjoint
    <2>3. CASE c \notin gone /\ c \notin used
      <3>1. members'[c] = members[c]
        BY <2>3, <1>1
      <3>. QED  BY <3>1, <2>3, <1>4 DEF LiveReferences
    <2>. QED  BY <2>1, <2>2, <2>3
  <1>7. ASSUME NEW l \in Lead, pointer'[l] # NoCluster  PROVE pointer'[l] \in clusters'
    <2>1. CASE \E r \in R : l \in r
      <3>1. pointer'[l] \in used
        BY <2>1, <1>1
      <3>. QED  BY <3>1, <1>4
    <2>2. CASE ~ \E r \in R : l \in r
      BY <2>2, <1>1, <1>4, <1>7 DEF LiveReferences
    <2>. QED  BY <2>1, <2>2
  <1>8. \A e \in relations' : {e[1], e[2]} \subseteq clusters'
    BY <1>1, <1>4 DEF Untouched, LiveReferences
  <1>. QED  BY <1>5, <1>6, <1>7, <1>8 DEF LiveReferences

\* merge_clusters, given a survivor that it does not absorb.
LEMMA MergeKeepsReferences ==
  ASSUME StoreType, LiveReferences, NEW s \in ClusterId,
         NEW absorbed \in SUBSET ClusterId, s \notin absorbed, Merge(s, absorbed)
  PROVE  StoreType' /\ LiveReferences'
  <1> DEFINE all == UNION {members[c] : c \in absorbed \cup {s}}
  <1>1. /\ s \in clusters /\ clusters' = clusters \ absorbed
        /\ s \in clusters' /\ lastId' = lastId
    BY DEF Merge
  <1>2. all \subseteq Lead /\ members[s] \subseteq all
    BY DEF StoreType
  <1>3. \A c \in ClusterId :
          members'[c] = IF c = s THEN all ELSE IF c \in absorbed THEN {} ELSE members[c]
    BY DEF Merge
  <1>4. members' \in [ClusterId -> SUBSET Lead]
    <2>1. \A c \in ClusterId : members'[c] \in SUBSET Lead
      BY <1>2, <1>3 DEF StoreType
    <2>2. members' = [c \in ClusterId |-> members'[c]]
      BY DEF Merge
    <2>. QED  BY <2>1, <2>2
  <1>5. \A e \in relations' : {e[1], e[2]} \subseteq clusters'
    <2>1. ASSUME NEW e \in relations'  PROVE {e[1], e[2]} \subseteq clusters'
      <3>1. PICK f \in relations :
              e = <<IF f[1] \in absorbed THEN s ELSE f[1],
                    IF f[2] \in absorbed THEN s ELSE f[2]>>
        BY DEF Merge, Remapped
      <3>2. f[1] \in clusters /\ f[2] \in clusters
        BY DEF LiveReferences
      <3>. QED  BY <3>1, <3>2, <1>1
    <2>. QED  BY <2>1
  <1>6. relations' \subseteq ClusterId \X ClusterId
    <2>1. ASSUME NEW e \in relations'  PROVE e \in ClusterId \X ClusterId
      <3>1. PICK f \in relations :
              e = <<IF f[1] \in absorbed THEN s ELSE f[1],
                    IF f[2] \in absorbed THEN s ELSE f[2]>>
        BY DEF Merge, Remapped
      <3>2. f[1] \in ClusterId /\ f[2] \in ClusterId
        BY DEF StoreType
      <3>. QED  BY <3>1, <3>2
    <2>. QED  BY <2>1
  <1>7. pointer' \in [Lead -> ClusterId \cup {NoCluster}]
    BY DEF Merge, StoreType
  <1>8. StoreType'
    BY <1>1, <1>4, <1>6, <1>7 DEF StoreType
  <1>9. \A c \in ClusterId : c \in clusters' <=> members'[c] # {}
    BY <1>1, <1>2, <1>3 DEF LiveReferences
  <1>10. \A l \in Lead : pointer'[l] # NoCluster => pointer'[l] \in clusters'
    BY <1>1 DEF Merge, LiveReferences, StoreType
  <1>. QED  BY <1>5, <1>8, <1>9, <1>10 DEF LiveReferences

\* split_cluster, given a disjoint family of groups.
LEMMA SplitKeepsReferences ==
  ASSUME StoreType, LiveReferences, NEW c \in ClusterId, NEW G, Disjoint(G),
         NEW kept \in G, Split(c, G, kept)
  PROVE  StoreType' /\ LiveReferences'
  <1> DEFINE n == Cardinality(G) - 1
  <1>1. PICK target \in [G -> ClusterId] :
          /\ lastId + n <= MaxId
          /\ c \in clusters
          /\ target[kept] = c
          /\ \A g \in G \ {kept} : target[g] \in FreshIds(n)
          /\ \A g, h \in G : target[g] = target[h] => g = h
          /\ clusters' = clusters \cup {target[g] : g \in G}
          /\ lastId' = lastId + n
          /\ members' = [d \in ClusterId |->
                           IF \E g \in G : target[g] = d
                           THEN CHOOSE g \in G : target[g] = d
                           ELSE members[d]]
          /\ pointer' = [l \in Lead |->
                           IF \E g \in G : l \in g
                           THEN target[CHOOSE g \in G : l \in g]
                           ELSE pointer[l]]
          /\ relations' = relations
    BY DEF Split
  <1>2. n \in Nat
    <2>1. IsFiniteSet(G) /\ Cardinality(G) \in Nat
      BY FamiliesFinite DEF Disjoint
    <2>2. Cardinality(G) # 0
      BY <2>1, FS_EmptySet
    <2>. QED  BY <2>1, <2>2
  <1>3. lastId \in Nat /\ clusters \subseteq 1..lastId
    BY StoreAssumption DEF StoreType
  <1>4. \A g \in G : target[g] \in 1..(lastId + n)
    BY <1>1, <1>2, <1>3 DEF FreshIds
  <1>5. \A d \in ClusterId : members'[d] \in G \/ members'[d] = members[d]
    BY <1>1
  <1>6. StoreType'
    <2>1. lastId' \in 0..MaxId /\ lastId' = lastId + n
      BY <1>1, <1>2, <1>3, StoreAssumption
    <2>2. clusters' \subseteq 1..lastId'
      <3>1. {target[g] : g \in G} \subseteq 1..lastId'
        BY <2>1, <1>4
      <3>2. clusters \subseteq 1..lastId'
        BY <2>1, <1>2, <1>3
      <3>. QED  BY <3>1, <3>2, <1>1
    <2>3. members' \in [ClusterId -> SUBSET Lead]
      <3>1. \A d \in ClusterId : members'[d] \in SUBSET Lead
        BY <1>5 DEF Disjoint, StoreType
      <3>. QED  BY <3>1, <1>1
    <2>4. pointer' \in [Lead -> ClusterId \cup {NoCluster}]
      BY <1>1 DEF StoreType
    <2>. QED  BY <2>1, <2>2, <2>3, <2>4, <1>1 DEF StoreType
  <1>7. ASSUME NEW d \in ClusterId  PROVE d \in clusters' <=> members'[d] # {}
    <2>1. CASE \E g \in G : target[g] = d
      <3>1. d \in clusters'
        BY <2>1, <1>1
      <3>2. members'[d] = CHOOSE g \in G : target[g] = d
        BY <2>1, <1>1
      <3>3. members'[d] \in G
        BY <3>2, <2>1
      <3>. QED  BY <3>1, <3>3 DEF Disjoint
    <2>2. CASE ~ \E g \in G : target[g] = d
      <3>1. members'[d] = members[d]
        BY <2>2, <1>1
      <3>2. d \in clusters' <=> d \in clusters
        BY <2>2, <1>1
      <3>. QED  BY <3>1, <3>2 DEF LiveReferences
    <2>. QED  BY <2>1, <2>2
  <1>8. ASSUME NEW l \in Lead, pointer'[l] # NoCluster  PROVE pointer'[l] \in clusters'
    BY <1>1, <1>8 DEF LiveReferences
  <1>9. \A e \in relations' : {e[1], e[2]} \subseteq clusters'
    BY <1>1 DEF LiveReferences
  <1>. QED  BY <1>6, <1>7, <1>8, <1>9 DEF LiveReferences

\* upsert_relations.
LEMMA UpsertKeepsReferences ==
  ASSUME StoreType, LiveReferences, NEW a \in ClusterId, NEW b \in ClusterId,
         UpsertRelation(a, b)
  PROVE  StoreType' /\ LiveReferences'
  <1>1. \A e \in relations' : e \in relations \/ (e \in {<<a, b>>, <<b, a>>}
                                              /\ a \in clusters /\ b \in clusters)
    BY DEF UpsertRelation
  <1>2. UNCHANGED <<clusters, lastId, members, pointer>>
    BY DEF UpsertRelation
  <1>3. relations' \subseteq ClusterId \X ClusterId
    BY <1>1 DEF StoreType
  <1>4. \A e \in relations' : {e[1], e[2]} \subseteq clusters'
    BY <1>1, <1>2 DEF LiveReferences
  <1>. QED  BY <1>2, <1>3, <1>4 DEF StoreType, LiveReferences

-----------------------------------------------------------------------------
\* persist keeps links and cluster_id in agreement if every lead it places
\* that is outside the scope has no cluster.
LEMMA PersistKeepsAgreement ==
  ASSUME StoreType, LiveReferences, Agrees, NEW R, Disjoint(R),
         NEW scope \in SUBSET Lead,
         \A r \in R : \A l \in r : l \in scope \/ pointer[l] = NoCluster,
         Persist(R, scope)
  PROVE  Agrees'
  <1> DEFINE n == Cardinality(Inserted(R))
  <1>1. PICK target \in [R -> ClusterId] :
          LET used == {target[r] : r \in R}
              gone == Pruned(used, scope)
          IN /\ Placement(R, target)
             /\ lastId + n <= MaxId
             /\ members' = [c \in ClusterId |->
                              IF c \in gone THEN {}
                              ELSE members[c] \cup UNION {r \in R : target[r] = c}]
             /\ pointer' = [l \in Lead |->
                              IF \E r \in R : l \in r
                              THEN target[CHOOSE r \in R : l \in r]
                              ELSE IF pointer[l] \in gone THEN NoCluster
                              ELSE pointer[l]]
    BY DEF Persist
  <1> DEFINE used == {target[r] : r \in R}
             gone == Pruned(used, scope)
  <1>2. /\ \A r \in R : members[target[r]] \subseteq r
        /\ \A r, s \in R : target[r] = target[s] => r = s
    BY <1>1, PlacementFacts
  <1>3. \A l \in Lead : \A r \in R : l \in r => pointer'[l] = target[r]
    BY <1>1 DEF Disjoint
  <1>4. \A l \in Lead : (\A r \in R : l \notin r) =>
          pointer'[l] = IF pointer[l] \in gone THEN NoCluster ELSE pointer[l]
    BY <1>1
  <1>5. gone \cap used = {} /\ NoCluster \notin ClusterId
    BY DEF Pruned, NoCluster, ClusterId
  <1>6. \A c \in ClusterId : \A l \in members[c] : l \in Lead /\ pointer[l] = c
    BY DEF Agrees
  <1>7. \A c \in ClusterId : \A l \in Lead : pointer[l] = c => l \in members[c]
    BY DEF Agrees
  <1>8. ASSUME NEW c \in ClusterId  PROVE members'[c] = {l \in Lead : pointer'[l] = c}
    <2>1. CASE c \in gone
      <3>1. members'[c] = {}
        BY <2>1, <1>1
      <3>2. ASSUME NEW l \in Lead  PROVE pointer'[l] # c
        <4>1. CASE \E r \in R : l \in r
          BY <4>1, <2>1, <1>3, <1>5
        <4>2. CASE \A r \in R : l \notin r
          BY <4>2, <2>1, <1>4, <1>5
        <4>. QED  BY <4>1, <4>2
      <3>. QED  BY <3>1, <3>2
    <2>2. CASE c \in used
      <3>1. PICK r \in R : target[r] = c
        BY <2>2
      <3>2. {s \in R : target[s] = c} = {r}
        BY <3>1, <1>2
      <3>3. members'[c] = r /\ r \subseteq Lead
        <4>1. UNION {s \in R : target[s] = c} = r
          BY <3>2
        <4>2. members'[c] = members[c] \cup UNION {s \in R : target[s] = c}
          BY <2>2, <1>1, <1>5
        <4>. QED  BY <4>1, <4>2, <3>1, <1>2 DEF Disjoint
      <3>4. ASSUME NEW l \in Lead  PROVE l \in r <=> pointer'[l] = c
        <4>1. CASE \E s \in R : l \in s
          BY <4>1, <3>1, <1>2, <1>3
        <4>2. CASE \A s \in R : l \notin s
          BY <4>2, <3>1, <1>2, <1>4, <1>5, <1>7
        <4>. QED  BY <4>1, <4>2
      <3>. QED  BY <3>3, <3>4
    <2>3. CASE c \notin gone /\ c \notin used
      <3>1. members'[c] = members[c]
        <4>1. {s \in R : target[s] = c} = {}
          BY <2>3
        <4>2. UNION {s \in R : target[s] = c} = {}
          BY <4>1
        <4>. QED  BY <4>2, <2>3, <1>1
      <3>2. ASSUME NEW l \in Lead  PROVE l \in members[c] <=> pointer'[l] = c
        <4>1. CASE \E s \in R : l \in s
          <5>1. PICK s \in R : l \in s
            BY <4>1
          <5>2. pointer'[l] # c
            BY <5>1, <1>3, <2>3
          <5>3. l \notin members[c]
            <6>1. SUFFICES ASSUME l \in members[c]  PROVE FALSE
              OBVIOUS
            <6>2. pointer[l] = c /\ c \in clusters
              BY <6>1, <1>6 DEF LiveReferences
            <6>3. l \in scope
              BY <5>1, <6>2, <1>5
            <6>. QED  BY <6>1, <6>2, <6>3, <2>3 DEF Pruned, Held
          <5>. QED  BY <5>2, <5>3
        <4>2. CASE \A s \in R : l \notin s
          BY <4>2, <2>3, <1>4, <1>5, <1>6, <1>7
        <4>. QED  BY <4>1, <4>2
      <3>3. members[c] \subseteq Lead
        BY <1>6
      <3>. QED  BY <3>1, <3>2, <3>3
    <2>. QED  BY <2>1, <2>2, <2>3
  <1>. QED  BY <1>8 DEF Agrees

\* merge_clusters: the members of the clusters it names are exactly the leads
\* that point at them.
LEMMA MergeKeepsAgreement ==
  ASSUME StoreType, Agrees, NEW s \in ClusterId,
         NEW absorbed \in SUBSET ClusterId, s \notin absorbed, Merge(s, absorbed)
  PROVE  Agrees'
  <1> DEFINE all == UNION {members[c] : c \in absorbed \cup {s}}
  <1>1. \A l \in Lead : l \in all <=> pointer[l] \in absorbed \cup {s}
    BY DEF Agrees
  <1>2. all \subseteq Lead /\ NoCluster \notin ClusterId
    BY DEF Agrees, NoCluster, ClusterId
  <1>3. \A l \in Lead : pointer'[l] = IF l \in all THEN s ELSE pointer[l]
    BY <1>1 DEF Merge
  <1>4. ASSUME NEW c \in ClusterId  PROVE members'[c] = {l \in Lead : pointer'[l] = c}
    <2>1. CASE c = s
      <3>1. members'[c] = all
        BY <2>1 DEF Merge
      <3>. QED  BY <3>1, <2>1, <1>1, <1>2, <1>3
    <2>2. CASE c \in absorbed
      <3>1. members'[c] = {}
        BY <2>2 DEF Merge
      <3>. QED  BY <3>1, <2>2, <1>1, <1>3
    <2>3. CASE c # s /\ c \notin absorbed
      <3>1. members'[c] = members[c]
        BY <2>3 DEF Merge
      <3>2. \A l \in Lead : pointer'[l] = c <=> pointer[l] = c
        BY <2>3, <1>1, <1>3
      <3>. QED  BY <3>1, <3>2 DEF Agrees
    <2>. QED  BY <2>1, <2>2, <2>3
  <1>. QED  BY <1>4 DEF Agrees

\* split_cluster, given groups that cover the cluster's members.
LEMMA SplitKeepsAgreement ==
  ASSUME StoreType, LiveReferences, Agrees, NEW c \in ClusterId,
         NEW G, Disjoint(G), UNION G = members[c],
         NEW kept \in G, Split(c, G, kept)
  PROVE  Agrees'
  <1> DEFINE n == Cardinality(G) - 1
  <1>1. PICK target \in [G -> ClusterId] :
          /\ target[kept] = c
          /\ \A g \in G \ {kept} : target[g] \in FreshIds(n)
          /\ \A g, h \in G : target[g] = target[h] => g = h
          /\ members' = [d \in ClusterId |->
                           IF \E g \in G : target[g] = d
                           THEN CHOOSE g \in G : target[g] = d
                           ELSE members[d]]
          /\ pointer' = [l \in Lead |->
                           IF \E g \in G : l \in g
                           THEN target[CHOOSE g \in G : l \in g]
                           ELSE pointer[l]]
    BY DEF Split
  <1>2. \A g \in G : target[g] = c \/ members[target[g]] = {}
    <2>1. lastId \in Nat /\ \A d \in clusters : d \in Nat /\ d <= lastId
      BY StoreAssumption DEF StoreType
    <2>2. \A g \in G \ {kept} :
            target[g] \in ClusterId /\ target[g] \in Nat /\ lastId + 1 <= target[g]
      <3>1. Cardinality(G) \in Nat
        BY FamiliesFinite DEF Disjoint
      <3>2. \A g \in G \ {kept} : target[g] \in ClusterId /\ target[g] \in FreshIds(n)
        BY <1>1
      <3>. QED  BY <2>1, <3>1, <3>2, StoreAssumption DEF FreshIds, ClusterId
    <2>3. \A g \in G \ {kept} : target[g] \notin clusters
      BY <2>1, <2>2
    <2>. QED  BY <2>2, <2>3, <1>1 DEF LiveReferences
  <1>3. \A l \in Lead : \A g \in G : l \in g => pointer'[l] = target[g]
    BY <1>1 DEF Disjoint
  <1>4. \A l \in Lead : (\A g \in G : l \notin g) => pointer'[l] = pointer[l]
    BY <1>1
  <1>5. \A l \in Lead : (\E g \in G : l \in g) <=> pointer[l] = c
    BY DEF Agrees
  <1>6. ASSUME NEW d \in ClusterId  PROVE members'[d] = {l \in Lead : pointer'[l] = d}
    <2>1. CASE \E g \in G : target[g] = d
      <3>1. PICK g \in G : target[g] = d
        BY <2>1
      <3>2. members'[d] = g /\ g \subseteq Lead
        BY <3>1, <1>1 DEF Disjoint
      <3>3. ASSUME NEW l \in Lead  PROVE l \in g <=> pointer'[l] = d
        <4>1. CASE \E h \in G : l \in h
          BY <4>1, <3>1, <1>1, <1>3
        <4>2. CASE \A h \in G : l \notin h
          <5>1. pointer'[l] = pointer[l] /\ pointer[l] # c
            BY <4>2, <1>4, <1>5
          <5>2. pointer[l] # d
            <6>1. CASE d = c
              BY <6>1, <5>1
            <6>2. CASE members[d] = {}
              BY <6>2 DEF Agrees
            <6>. QED  BY <6>1, <6>2, <3>1, <1>2
          <5>. QED  BY <5>1, <5>2, <4>2
        <4>. QED  BY <4>1, <4>2
      <3>. QED  BY <3>2, <3>3
    <2>2. CASE ~ \E g \in G : target[g] = d
      <3>1. members'[d] = members[d] /\ d # c
        BY <2>2, <1>1
      <3>2. ASSUME NEW l \in Lead  PROVE pointer'[l] = d <=> pointer[l] = d
        <4>1. CASE \E h \in G : l \in h
          BY <4>1, <2>2, <3>1, <1>3, <1>5
        <4>2. CASE \A h \in G : l \notin h
          BY <4>2, <1>4
        <4>. QED  BY <4>1, <4>2
      <3>. QED  BY <3>1, <3>2 DEF Agrees
    <2>. QED  BY <2>1, <2>2
  <1>. QED  BY <1>6 DEF Agrees

-----------------------------------------------------------------------------
\* The service.  A step of one call leaves the locals of the others alone.
Frame(p) ==
  \A q \in Call \ {p} : /\ pc'[q] = pc[q] /\ loaded'[q] = loaded[q]
                        /\ plan'[q] = plan[q] /\ targets'[q] = targets[q]

LEMMA ReturnFacts ==
  ASSUME LocalsType, NEW p \in Call, Return(p)
  PROVE  LocalsType' /\ Frame(p) /\ pc'[p] = "idle"
  <1>1. Alone \in [Lead -> SUBSET Lead]
    BY DEF Alone
  <1>2. "idle" \in Stage
    BY DEF Stage
  <1>. QED  BY <1>1, <1>2 DEF LocalsType, Return, Continue, Frame

\* While calls do not overlap, the call that acts is the only one running.
LEMMA Solo ==
  ASSUME IndInv, NEW p \in Call, pc[p] # "idle" \/ Start(p), ~overlap
  PROVE  \A q \in Call \ {p} : pc[q] = "idle"
  BY DEF IndInv, OneAtATime, Start

\* What a step of call p owes: everything else follows.
LEMMA StepOf ==
  ASSUME IndInv, NEW p \in Call, pc[p] # "idle" \/ Start(p), Frame(p),
         StoreType', LiveReferences', known' \subseteq Lead, overlap' = overlap,
         LocalsType', Ready(p)', ~overlap => Agrees' /\ Current(p)'
  PROVE  IndInv'
  <1>1. TypeOK'
    BY DEF IndInv, TypeOK
  <1>2. ASSUME NEW q \in Call  PROVE Ready(q)'
    <2>1. CASE q = p
      BY <2>1
    <2>2. CASE q # p
      BY <2>2 DEF IndInv, Frame, Ready
    <2>. QED  BY <2>1, <2>2
  <1>3. ASSUME ~overlap'  PROVE OneAtATime' /\ \A q \in Call : Current(q)'
    <2>1. \A q \in Call \ {p} : pc'[q] = "idle"
      BY <1>3, Solo DEF Frame
    <2>2. OneAtATime'
      BY <2>1 DEF OneAtATime
    <2>3. ASSUME NEW q \in Call  PROVE Current(q)'
      <3>1. CASE q = p
        BY <3>1, <1>3
      <3>2. CASE q # p
        BY <3>2, <2>1 DEF Current
      <3>. QED  BY <3>1, <3>2
    <2>. QED  BY <2>2, <2>3
  <1>. QED  BY <1>1, <1>2, <1>3 DEF IndInv

\* A step that leaves the tables alone, or returns, owes less.
LEMMA TablesUnchanged ==
  ASSUME IndInv, UNCHANGED tables
  PROVE  /\ StoreType' /\ LiveReferences' /\ (Agrees => Agrees')
  BY DEF IndInv, TypeOK, tables, StoreType, LiveReferences, Agrees

LEMMA ReturnStep ==
  ASSUME IndInv, NEW p \in Call, pc[p] # "idle" \/ Start(p), Return(p),
         StoreType', LiveReferences', UNCHANGED <<known, overlap>>,
         ~overlap => Agrees'
  PROVE  IndInv'
  <1>1. LocalsType' /\ Frame(p) /\ pc'[p] = "idle"
    BY ReturnFacts DEF IndInv, TypeOK
  <1>2. Ready(p)' /\ Current(p)'
    BY <1>1 DEF Ready, Current
  <1>. QED  BY <1>1, <1>2, StepOf DEF IndInv, TypeOK

LEMMA DiscoverStep ==
  ASSUME IndInv, NEW p \in Call, Discover(p)
  PROVE  IndInv'
  <1>1. StoreType' /\ LiveReferences' /\ (Agrees => Agrees')
    BY TablesUnchanged DEF Discover
  <1>2. PICK l \in NextLead : known' = known \cup {l} /\ fresh' = [fresh EXCEPT ![p] = {l}]
    BY DEF Discover
  <1>3. l \in Lead /\ known' \subseteq Lead
    BY <1>2 DEF NextLead, IndInv, TypeOK
  <1>4. LocalsType' /\ Frame(p) /\ pc'[p] = "created"
    BY <1>2, <1>3 DEF Discover, Continue, LocalsType, Frame, IndInv, TypeOK, Stage
  <1>5. Ready(p)' /\ Current(p)'
    BY <1>4 DEF Ready, Current
  <1>6. Start(p) /\ overlap' = overlap
    BY DEF Discover
  <1>. QED  BY <1>1, <1>3, <1>4, <1>5, <1>6, StepOf DEF IndInv

LEMMA LoadStep ==
  ASSUME IndInv, NEW p \in Call, BatchLoad(p) \/ IncrementalLoad(p)
  PROVE  IndInv'
  <1>1. StoreType' /\ LiveReferences' /\ (Agrees => Agrees')
    BY TablesUnchanged DEF BatchLoad, IncrementalLoad, LoadLeads
  <1>2. Oldest \subseteq Lead /\ Neighbours \in [Lead -> SUBSET Lead]
    BY DEF Oldest, Neighbours, IndInv, TypeOK
  <1>3. \E stage \in {"batch", "incremental"} : LoadLeads(p, stage)
    BY DEF BatchLoad, IncrementalLoad
  <1>4. mates' \in [Call -> [Lead -> SUBSET Lead]]
    BY <1>2 DEF BatchLoad, IncrementalLoad, IndInv, TypeOK, LocalsType
  <1>5. LocalsType' /\ Frame(p) /\ pc'[p] \in {"batch", "incremental"}
    BY <1>2, <1>3, <1>4 DEF LoadLeads, Continue, LocalsType, Frame, IndInv, TypeOK, Stage
  <1>6. Ready(p)' /\ Current(p)'
    BY <1>5 DEF Ready, Current
  <1>7. /\ pc[p] # "idle" \/ Start(p)
        /\ overlap' = overlap /\ known' = known
    BY DEF BatchLoad, IncrementalLoad, LoadLeads
  <1>. QED  BY <1>1, <1>5, <1>6, <1>7, StepOf DEF IndInv, TypeOK

\* A run writes some of the groups of a partition of the leads it loaded, and
\* its scope is those leads: PersistKeepsAgreement applies as it stands.
LEMMA PersistRunStep ==
  ASSUME IndInv, NEW p \in Call, PersistRun(p)
  PROVE  IndInv'
  <1>0. PICK G \in Groupings(p) : \E rel \in Related(p, G) :
          /\ Persist(Records(p, G, rel), loaded[p])
          /\ IF rel = {} THEN Return(p)
             ELSE /\ plan' = [plan EXCEPT ![p] = rel]
                  /\ Continue(p, "relating")
                  /\ UNCHANGED <<loaded, mates, fresh, targets>>
    BY DEF PersistRun
  <1>1. PICK rel \in Related(p, G) :
          /\ Persist(Records(p, G, rel), loaded[p])
          /\ IF rel = {} THEN Return(p)
             ELSE /\ plan' = [plan EXCEPT ![p] = rel]
                  /\ Continue(p, "relating")
                  /\ UNCHANGED <<loaded, mates, fresh, targets>>
    BY <1>0
  <1> DEFINE R == Records(p, G, rel)
  <1>2. loaded[p] \in SUBSET Lead /\ G \in Partitions(loaded[p])
    BY DEF Groupings, IndInv, TypeOK, LocalsType
  <1>3. Disjoint(G) /\ UNION G = loaded[p]
    BY <1>2, PartitionsAreDisjoint
  <1>4. rel \subseteq G
    BY DEF Related, Affected
  <1>5. R \subseteq G
    BY <1>4 DEF Records, Affected
  <1>6. Disjoint(R) /\ \A r \in R : \A l \in r : l \in loaded[p]
    BY <1>3, <1>5 DEF Disjoint
  <1>7. StoreType' /\ LiveReferences'
    BY <1>1, <1>6, PersistKeepsReferences DEF IndInv, TypeOK
  <1>8. ~overlap => Agrees'
    BY <1>1, <1>2, <1>6, PersistKeepsAgreement DEF IndInv, TypeOK
  <1>9. pc[p] # "idle" /\ UNCHANGED <<known, overlap>>
    BY DEF PersistRun
  <1>10. CASE rel = {}
    BY <1>1, <1>7, <1>8, <1>9, <1>10, ReturnStep
  <1>11. CASE rel # {}
    <2>1. rel \in SUBSET SUBSET Lead
      BY <1>3, <1>4 DEF Disjoint
    <2>2. LocalsType' /\ Frame(p) /\ pc'[p] = "relating"
      BY <2>1, <1>1, <1>11 DEF Continue, LocalsType, Frame, IndInv, TypeOK, Stage
    <2>3. Ready(p)' /\ Current(p)'
      BY <2>2 DEF Ready, Current
    <2>. QED  BY <2>2, <2>3, <1>7, <1>8, <1>9, StepOf DEF IndInv, TypeOK
  <1>. QED  BY <1>10, <1>11

LEMMA MapRelationStep ==
  ASSUME IndInv, NEW p \in Call, MapRelation(p)
  PROVE  IndInv'
  <1> DEFINE ids == UNION {ClusterOfGroup(g) : g \in plan[p]}
  <1>1. StoreType' /\ LiveReferences' /\ (Agrees => Agrees')
    BY TablesUnchanged DEF MapRelation
  <1>2. pc[p] # "idle" /\ UNCHANGED <<known, overlap>>
    BY DEF MapRelation
  <1>3. CASE Cardinality(ids) = 2
    <2>1. \A g \in plan[p] : ClusterOfGroup(g) \subseteq ClusterId
      BY DEF ClusterOfGroup, IndInv, TypeOK, StoreType, LocalsType
    <2>2. ids \subseteq ClusterId
      BY <2>1
    <2>3. LocalsType' /\ Frame(p) /\ pc'[p] = "mapped"
      BY <2>2, <1>3, ZenonT(60) DEF MapRelation, Continue, LocalsType, Frame, IndInv, TypeOK, Stage
    <2>4. Ready(p)' /\ Current(p)'
      BY <2>3 DEF Ready, Current
    <2>. QED  BY <2>3, <2>4, <1>1, <1>2, StepOf DEF IndInv, TypeOK
  <1>4. CASE Cardinality(ids) # 2
    <2>1. Return(p)
      BY <1>4 DEF MapRelation
    <2>. QED  BY <2>1, <1>1, <1>2, ReturnStep DEF IndInv
  <1>. QED  BY <1>3, <1>4

LEMMA WriteRelationStep ==
  ASSUME IndInv, NEW p \in Call, WriteRelation(p)
  PROVE  IndInv'
  <1>1. PICK a \in targets[p], b \in targets[p] : UpsertRelation(a, b)
    BY DEF WriteRelation
  <1>2. a \in ClusterId /\ b \in ClusterId
    BY DEF IndInv, TypeOK, LocalsType
  <1>3. StoreType' /\ LiveReferences'
    BY <1>1, <1>2, UpsertKeepsReferences DEF IndInv, TypeOK
  <1>4. Agrees => Agrees'
    BY <1>1 DEF UpsertRelation, Agrees
  <1>5. pc[p] # "idle" /\ Return(p) /\ UNCHANGED <<known, overlap>>
    BY DEF WriteRelation
  <1>. QED  BY <1>3, <1>4, <1>5, ReturnStep DEF IndInv

LEMMA SplitReadStep ==
  ASSUME IndInv, NEW p \in Call, SplitRead(p)
  PROVE  IndInv'
  <1>0. PICK c \in clusters : \E G \in Partitions(members[c]) :
          /\ plan' = [plan EXCEPT ![p] = G]
          /\ targets' = [targets EXCEPT ![p] = {c}]
    BY DEF SplitRead
  <1>1. PICK G \in Partitions(members[c]) :
          /\ plan' = [plan EXCEPT ![p] = G]
          /\ targets' = [targets EXCEPT ![p] = {c}]
    BY <1>0
  <1>2. c \in ClusterId /\ members[c] \in SUBSET Lead
    BY StoreAssumption DEF IndInv, TypeOK, StoreType, ClusterId
  <1>3. Disjoint(G) /\ UNION G = members[c] /\ G \in SUBSET SUBSET Lead
    BY <1>2, PartitionsAreDisjoint DEF Disjoint
  <1>4. StoreType' /\ LiveReferences' /\ (Agrees => Agrees')
    BY TablesUnchanged DEF SplitRead
  <1>5. LocalsType' /\ Frame(p)
    BY <1>1, <1>2, <1>3
       DEF SplitRead, Continue, LocalsType, Frame, IndInv, TypeOK, Stage
  <1>6. pc'[p] = "splitting" /\ plan'[p] = G /\ targets'[p] = {c} /\ members' = members
    BY <1>1 DEF SplitRead, Continue, LocalsType, IndInv, TypeOK, tables
  <1>7. Ready(p)' /\ Current(p)'
    BY <1>2, <1>3, <1>6 DEF Ready, Current
  <1>8. Start(p) /\ UNCHANGED <<known, overlap>>
    BY DEF SplitRead
  <1>. QED  BY <1>4, <1>5, <1>7, <1>8, StepOf DEF IndInv, TypeOK

\* The groups may be stale; the references stay live all the same.  Without
\* overlap they still partition the members, so agreement is kept too.
LEMMA SplitWriteStep ==
  ASSUME IndInv, NEW p \in Call, SplitWrite(p)
  PROVE  IndInv'
  <1>1. PICK c \in targets[p] :
          IF c \in clusters THEN \E kept \in plan[p] : Split(c, plan[p], kept)
                            ELSE UNCHANGED tables
    BY DEF SplitWrite
  <1>2. pc[p] = "splitting" /\ Return(p) /\ UNCHANGED <<known, overlap>>
    BY DEF SplitWrite
  <1>3. c \in ClusterId /\ Disjoint(plan[p])
    BY <1>2 DEF IndInv, Ready, TypeOK, LocalsType
  <1>4. ~overlap => Agrees /\ UNION plan[p] = members[c]
    BY <1>2 DEF IndInv, Current
  <1>5. CASE c \in clusters
    <2>1. PICK kept \in plan[p] : Split(c, plan[p], kept)
      BY <1>1, <1>5
    <2>2. StoreType' /\ LiveReferences'
      BY <2>1, <1>3, SplitKeepsReferences DEF IndInv, TypeOK
    <2>3. ~overlap => Agrees'
      BY <2>1, <1>3, <1>4, SplitKeepsAgreement DEF IndInv, TypeOK
    <2>. QED  BY <2>2, <2>3, <1>2, ReturnStep
  <1>6. CASE c \notin clusters
    BY <1>1, <1>2, <1>4, <1>6, TablesUnchanged, ReturnStep
  <1>. QED  BY <1>5, <1>6

LEMMA MergeReadStep ==
  ASSUME IndInv, NEW p \in Call, MergeRead(p)
  PROVE  IndInv'
  <1>1. PICK S \in SUBSET clusters : targets' = [targets EXCEPT ![p] = S]
    BY DEF MergeRead
  <1>2. S \subseteq ClusterId
    BY StoreAssumption DEF IndInv, TypeOK, StoreType, ClusterId
  <1>3. StoreType' /\ LiveReferences' /\ (Agrees => Agrees')
    BY TablesUnchanged DEF MergeRead
  <1>4. LocalsType' /\ Frame(p) /\ pc'[p] = "merging"
    BY <1>1, <1>2 DEF MergeRead, Continue, LocalsType, Frame, IndInv, TypeOK, Stage
  <1>5. Ready(p)' /\ Current(p)'
    BY <1>4 DEF Ready, Current
  <1>6. Start(p) /\ UNCHANGED <<known, overlap>>
    BY DEF MergeRead
  <1>. QED  BY <1>3, <1>4, <1>5, <1>6, StepOf DEF IndInv, TypeOK

LEMMA MergeWriteStep ==
  ASSUME IndInv, NEW p \in Call, MergeWrite(p)
  PROVE  IndInv'
  <1>1. PICK s \in targets[p] :
          IF s \in clusters THEN Merge(s, targets[p] \ {s}) ELSE UNCHANGED tables
    BY DEF MergeWrite
  <1>2. pc[p] # "idle" /\ Return(p) /\ UNCHANGED <<known, overlap>>
    BY DEF MergeWrite
  <1>3. s \in ClusterId /\ targets[p] \ {s} \in SUBSET ClusterId
    BY DEF IndInv, TypeOK, LocalsType
  <1>4. CASE s \in clusters
    <2>1. Merge(s, targets[p] \ {s})
      BY <1>1, <1>4
    <2>2. StoreType' /\ LiveReferences'
      BY <2>1, <1>3, MergeKeepsReferences DEF IndInv, TypeOK
    <2>3. ~overlap => Agrees'
      BY <2>1, <1>3, MergeKeepsAgreement DEF IndInv, TypeOK
    <2>. QED  BY <2>2, <2>3, <1>2, ReturnStep
  <1>5. CASE s \notin clusters
    BY <1>1, <1>2, <1>5, TablesUnchanged, ReturnStep DEF IndInv
  <1>. QED  BY <1>4, <1>5

LEMMA ReviewReadStep ==
  ASSUME IndInv, NEW p \in Call, ReviewRead(p)
  PROVE  IndInv'
  <1>1. StoreType' /\ LiveReferences' /\ (Agrees => Agrees')
    BY TablesUnchanged DEF ReviewRead
  <1>2. Start(p) /\ UNCHANGED <<known, overlap, plan, mates, fresh>> /\ pointer' = pointer
    BY DEF ReviewRead, tables
  <1>3. PICK a \in known, b \in known :
          LET ids == {pointer[a], pointer[b]} \ {NoCluster}
              lone == {l \in {a, b} : pointer[l] = NoCluster}
          IN /\ targets' = [targets EXCEPT ![p] = ids]
             /\ loaded' = [loaded EXCEPT ![p] = lone]
             /\ \/ ids = {} /\ Continue(p, "pairing")
                \/ ids # {} /\ lone # {} /\ Continue(p, "joining")
                \/ Cardinality(ids) = 2 /\ Continue(p, "checking")
    BY DEF ReviewRead
  <1> DEFINE ids == {pointer[a], pointer[b]} \ {NoCluster}
             lone == {l \in {a, b} : pointer[l] = NoCluster}
  <1>4. ids \subseteq ClusterId /\ lone \subseteq Lead /\ (ids = {} => lone # {})
    BY DEF IndInv, TypeOK, StoreType
  <1>5. LocalsType' /\ Frame(p)
    BY <1>2, <1>3, <1>4 DEF Continue, LocalsType, Frame, IndInv, TypeOK, Stage
  <1>6. /\ loaded'[p] = lone /\ targets'[p] = ids
        /\ pc'[p] \in {"pairing", "joining", "checking"}
        /\ pc'[p] = "pairing" => ids = {}
        /\ pc'[p] = "joining" => ids # {} /\ lone # {}
    BY <1>3 DEF Continue, LocalsType, IndInv, TypeOK
  <1>7. Ready(p)' /\ Current(p)'
    BY <1>2, <1>4, <1>6 DEF Ready, Current
  <1>. QED  BY <1>1, <1>2, <1>5, <1>7, StepOf DEF IndInv, TypeOK

LEMMA ReviewCheckStep ==
  ASSUME IndInv, NEW p \in Call, ReviewCheck(p)
  PROVE  IndInv'
  <1>1. StoreType' /\ LiveReferences' /\ (Agrees => Agrees')
    BY TablesUnchanged DEF ReviewCheck
  <1>2. pc[p] # "idle" /\ UNCHANGED <<known, overlap>>
    BY DEF ReviewCheck
  <1>3. CASE Return(p)
    BY <1>1, <1>2, <1>3, ReturnStep DEF IndInv
  <1>4. CASE Continue(p, "merging") /\ UNCHANGED <<loaded, mates, fresh, plan, targets>>
    <2>1. LocalsType' /\ Frame(p) /\ pc'[p] = "merging"
      BY <1>4 DEF Continue, LocalsType, Frame, IndInv, TypeOK, Stage
    <2>2. Ready(p)' /\ Current(p)'
      BY <2>1 DEF Ready, Current
    <2>. QED  BY <2>1, <2>2, <1>1, <1>2, StepOf DEF IndInv, TypeOK
  <1>. QED  BY <1>3, <1>4 DEF ReviewCheck

LEMMA JoinReadStep ==
  ASSUME IndInv, NEW p \in Call, JoinRead(p)
  PROVE  IndInv'
  <1>1. StoreType' /\ LiveReferences' /\ (Agrees => Agrees')
    BY TablesUnchanged DEF JoinRead
  <1>2. /\ pc[p] = "joining" /\ UNCHANGED <<known, overlap, mates, fresh, targets>>
        /\ pointer' = pointer
    BY DEF JoinRead, tables
  <1>3. PICK c \in targets[p] :
          /\ plan' = [plan EXCEPT ![p] = {members[c] \cup loaded[p]}]
          /\ loaded' = [loaded EXCEPT ![p] = members[c]]
    BY DEF JoinRead
  <1>4. /\ members[c] \subseteq Lead /\ loaded[p] \subseteq Lead /\ loaded[p] # {}
        /\ ~overlap => \A l \in loaded[p] : pointer[l] = NoCluster
    BY <1>2 DEF IndInv, TypeOK, StoreType, LocalsType, Ready, Current
  <1>5. LocalsType' /\ Frame(p)
    BY <1>2, <1>3, <1>4 DEF JoinRead, Continue, LocalsType, Frame, IndInv, TypeOK, Stage
  <1>6. /\ pc'[p] = "adding" /\ loaded'[p] = members[c]
        /\ plan'[p] = {members[c] \cup loaded[p]}
    BY <1>3 DEF JoinRead, Continue, LocalsType, IndInv, TypeOK
  <1>7. Ready(p)' /\ (~overlap => Current(p)')
    BY <1>2, <1>4, <1>6 DEF Ready, Current
  <1>. QED  BY <1>1, <1>2, <1>5, <1>7, StepOf DEF IndInv, TypeOK

\* The one record of a review merge.
LEMMA SingleRecord ==
  ASSUME NEW r \in SUBSET Lead, r # {}
  PROVE  Disjoint({r})
  BY DEF Disjoint

LEMMA JoinWriteStep ==
  ASSUME IndInv, NEW p \in Call, JoinWrite(p)
  PROVE  IndInv'
  <1>1. /\ pc[p] = "adding" /\ Persist(plan[p], loaded[p])
        /\ Return(p) /\ UNCHANGED <<known, overlap>>
    BY DEF JoinWrite
  <1>2. Disjoint(plan[p]) /\ loaded[p] \in SUBSET Lead
    BY <1>1, SingleRecord DEF IndInv, Ready, TypeOK, LocalsType
  <1>3. StoreType' /\ LiveReferences'
    BY <1>1, <1>2, PersistKeepsReferences DEF IndInv, TypeOK
  <1>4. ASSUME ~overlap  PROVE Agrees'
    <2>1. \A r \in plan[p] : \A l \in r : l \in loaded[p] \/ pointer[l] = NoCluster
      BY <1>1, <1>4 DEF IndInv, Current
    <2>. QED  BY <2>1, <1>1, <1>2, <1>4, PersistKeepsAgreement DEF IndInv, TypeOK
  <1>. QED  BY <1>1, <1>3, <1>4, ReturnStep

LEMMA PairWriteStep ==
  ASSUME IndInv, NEW p \in Call, PairWrite(p)
  PROVE  IndInv'
  <1>1. /\ pc[p] = "pairing" /\ Persist({loaded[p]}, loaded[p])
        /\ Return(p) /\ UNCHANGED <<known, overlap>>
    BY DEF PairWrite
  <1>2. Disjoint({loaded[p]}) /\ loaded[p] \in SUBSET Lead
    BY <1>1, SingleRecord DEF IndInv, Ready, TypeOK, LocalsType
  <1>3. StoreType' /\ LiveReferences'
    BY <1>1, <1>2, PersistKeepsReferences DEF IndInv, TypeOK
  <1>4. ASSUME ~overlap  PROVE Agrees'
    BY <1>1, <1>2, <1>4, PersistKeepsAgreement DEF IndInv, TypeOK
  <1>. QED  BY <1>1, <1>3, <1>4, ReturnStep

\* Inserting a lead and crashing leave the tables alone.
LEMMA EnvironmentStep ==
  ASSUME IndInv, InsertLead \/ Crash \/ UNCHANGED vars
  PROVE  IndInv'
  <1>1. StoreType' /\ LiveReferences' /\ (Agrees => Agrees') /\ UNCHANGED <<overlap, tables>>
    BY TablesUnchanged DEF InsertLead, Crash, vars
  <1>2. known' \subseteq Lead
    BY DEF InsertLead, Crash, vars, NextLead, IndInv, TypeOK
  <1>3. CASE UNCHANGED locals
    <2>1. TypeOK'
      BY <1>1, <1>2, <1>3 DEF IndInv, TypeOK, LocalsType, locals
    <2>2. \A p \in Call : Ready(p)'
      BY <1>3 DEF IndInv, Ready, locals
    <2>3. ASSUME ~overlap'  PROVE OneAtATime' /\ \A p \in Call : Current(p)'
      <3>1. OneAtATime /\ \A p \in Call : Current(p)
        BY <1>1, <2>3 DEF IndInv
      <3>2. /\ pc' = pc /\ plan' = plan /\ targets' = targets /\ loaded' = loaded
            /\ members' = members /\ pointer' = pointer
        BY <1>1, <1>3 DEF locals, tables
      <3>3. OneAtATime'
        BY <3>1, <3>2 DEF OneAtATime
      <3>4. ASSUME NEW p \in Call  PROVE Current(p)'
        <4>1. Current(p)
          BY <3>1
        <4>. QED  BY <4>1, <3>2 DEF Current
      <3>. QED  BY <3>3, <3>4
    <2>. QED  BY <2>1, <2>2, <2>3, <1>1 DEF IndInv
  <1>4. CASE Crash
    <2>1. \A p \in Call : pc'[p] = "idle"
      BY <1>4 DEF Crash
    <2>2. Alone \in [Lead -> SUBSET Lead] /\ "idle" \in Stage
      BY DEF Alone, Stage
    <2>3. LocalsType'
      BY <1>4, <2>2 DEF Crash, LocalsType
    <2>4. TypeOK'
      BY <1>1, <1>2, <2>3 DEF IndInv, TypeOK
    <2>5. (\A p \in Call : Ready(p)' /\ Current(p)') /\ OneAtATime'
      BY <2>1 DEF Ready, Current, OneAtATime
    <2>. QED  BY <2>4, <2>5, <1>1 DEF IndInv
  <1>. QED  BY <1>3, <1>4 DEF InsertLead, vars

LEMMA InitStep ==
  ASSUME Init
  PROVE  IndInv
  <1>1. StoreType /\ LiveReferences /\ Agrees
    BY StoreAssumption
       DEF Init, StoreInit, StoreType, LiveReferences, Agrees, NoCluster, ClusterId
  <1>2. Alone \in [Lead -> SUBSET Lead] /\ "idle" \in Stage
    BY DEF Alone, Stage
  <1>3. TypeOK
    BY <1>1, <1>2, ServiceAssumption DEF Init, TypeOK, LocalsType
  <1>. QED  BY <1>1, <1>3 DEF Init, IndInv, Ready, Current, OneAtATime

LEMMA NextStep ==
  ASSUME IndInv, [Next]_vars
  PROVE  IndInv'
  <1>1. ASSUME NEW p \in Call,
               \/ Discover(p)
               \/ BatchLoad(p) \/ IncrementalLoad(p) \/ PersistRun(p)
               \/ MapRelation(p) \/ WriteRelation(p)
               \/ SplitRead(p) \/ SplitWrite(p)
               \/ MergeRead(p) \/ MergeWrite(p)
               \/ ReviewRead(p) \/ ReviewCheck(p)
               \/ JoinRead(p) \/ JoinWrite(p) \/ PairWrite(p)
        PROVE  IndInv'
    BY <1>1, DiscoverStep, LoadStep, PersistRunStep, MapRelationStep,
       WriteRelationStep, SplitReadStep, SplitWriteStep, MergeReadStep,
       MergeWriteStep, ReviewReadStep, ReviewCheckStep, JoinReadStep,
       JoinWriteStep, PairWriteStep
  <1>. QED  BY <1>1, EnvironmentStep DEF Next

\* The inductive invariant of the service.
THEOREM ServiceInvariant == Spec => []IndInv
  <1>1. Init => IndInv
    BY InitStep
  <1>2. IndInv /\ [Next]_vars => IndInv'
    BY NextStep
  <1>. QED  BY <1>1, <1>2, PTL DEF Spec

\* The tables and the locals of the calls always have their types.
THEOREM ServiceTypeOK == Spec => []TypeOK
  <1>1. IndInv => TypeOK
    BY DEF IndInv
  <1>. QED  BY <1>1, ServiceInvariant, PTL

\* However calls interleave and wherever they are abandoned, no link, pointer
\* or relation outlives its cluster, and no cluster is left without members.
THEOREM ReferencesStayLive == Spec => []LiveReferences
  <1>1. IndInv => LiveReferences
    BY DEF IndInv
  <1>. QED  BY <1>1, ServiceInvariant, PTL

\* As long as calls do not overlap, leads.cluster_id and entity_links agree.
THEOREM MembershipStaysAgreed == Spec => []MembershipAgrees
  <1>1. IndInv => MembershipAgrees
    BY DEF IndInv, MembershipAgrees
  <1>. QED  BY <1>1, ServiceInvariant, PTL

-----------------------------------------------------------------------------
\* What a step of the service does to the tables: nothing, or one transaction
\* with arguments of the right shape.
Transaction ==
  \/ UNCHANGED tables
  \/ \E a, b \in ClusterId : a # b /\ UpsertRelation(a, b)
  \/ \E R \in SUBSET SUBSET Lead, scope \in SUBSET Lead :
       Disjoint(R) /\ Persist(R, scope)
  \/ \E c \in ClusterId, G \in SUBSET SUBSET Lead :
       Disjoint(G) /\ \E kept \in G : Split(c, G, kept)
  \/ \E s \in ClusterId, absorbed \in SUBSET ClusterId :
       s \notin absorbed /\ Merge(s, absorbed)

LEMMA StepsAreTransactions ==
  ASSUME IndInv, [Next]_vars
  PROVE  Transaction
  <1>1. ASSUME NEW p \in Call, PersistRun(p)  PROVE Transaction
    <2>1. PICK G \in Groupings(p) : \E rel \in Related(p, G) :
            Persist(Records(p, G, rel), loaded[p])
      BY <1>1 DEF PersistRun
    <2>2. PICK rel \in Related(p, G) : Persist(Records(p, G, rel), loaded[p])
      BY <2>1
    <2>3. loaded[p] \in SUBSET Lead /\ G \in Partitions(loaded[p])
      BY DEF Groupings, IndInv, TypeOK, LocalsType
    <2>4. Disjoint(G)
      BY <2>3, PartitionsAreDisjoint
    <2>5. Records(p, G, rel) \subseteq G
      BY DEF Records, Related, Affected
    <2>6. Disjoint(Records(p, G, rel)) /\ Records(p, G, rel) \in SUBSET SUBSET Lead
      BY <2>4, <2>5 DEF Disjoint
    <2>. QED  BY <2>2, <2>3, <2>6 DEF Transaction
  <1>2. ASSUME NEW p \in Call, WriteRelation(p)  PROVE Transaction
    BY <1>2 DEF WriteRelation, Transaction, IndInv, TypeOK, LocalsType
  <1>3. ASSUME NEW p \in Call, SplitWrite(p)  PROVE Transaction
    <2>1. PICK c \in targets[p] :
            (\E kept \in plan[p] : Split(c, plan[p], kept)) \/ UNCHANGED tables
      BY <1>3 DEF SplitWrite
    <2>2. c \in ClusterId /\ Disjoint(plan[p]) /\ plan[p] \in SUBSET SUBSET Lead
      BY <1>3 DEF SplitWrite, IndInv, Ready, TypeOK, LocalsType
    <2>. QED  BY <2>1, <2>2 DEF Transaction
  <1>4. ASSUME NEW p \in Call, MergeWrite(p)  PROVE Transaction
    <2>1. PICK s \in targets[p] : Merge(s, targets[p] \ {s}) \/ UNCHANGED tables
      BY <1>4 DEF MergeWrite
    <2>2. s \in ClusterId /\ targets[p] \ {s} \in SUBSET ClusterId
      BY DEF IndInv, TypeOK, LocalsType
    <2>. QED  BY <2>1, <2>2 DEF Transaction
  <1>5. ASSUME NEW p \in Call, JoinWrite(p)  PROVE Transaction
    <2>1. Persist(plan[p], loaded[p]) /\ Disjoint(plan[p])
      BY <1>5, SingleRecord DEF JoinWrite, IndInv, Ready
    <2>2. plan[p] \in SUBSET SUBSET Lead /\ loaded[p] \in SUBSET Lead
      BY DEF IndInv, TypeOK, LocalsType
    <2>. QED  BY <2>1, <2>2 DEF Transaction
  <1>6. ASSUME NEW p \in Call, PairWrite(p)  PROVE Transaction
    <2>1. Persist({loaded[p]}, loaded[p]) /\ loaded[p] # {} /\ loaded[p] \in SUBSET Lead
      BY <1>6 DEF PairWrite, IndInv, Ready, TypeOK, LocalsType
    <2>2. Disjoint({loaded[p]}) /\ {loaded[p]} \in SUBSET SUBSET Lead
      BY <2>1, SingleRecord
    <2>. QED  BY <2>1, <2>2 DEF Transaction
  <1>7. ASSUME NEW p \in Call,
               \/ Discover(p) \/ BatchLoad(p) \/ IncrementalLoad(p)
               \/ MapRelation(p) \/ SplitRead(p) \/ MergeRead(p)
               \/ ReviewRead(p) \/ ReviewCheck(p) \/ JoinRead(p)
        PROVE  Transaction
    BY <1>7 DEF Discover, BatchLoad, IncrementalLoad, LoadLeads, MapRelation,
       SplitRead, MergeRead, ReviewRead, ReviewCheck, JoinRead, Transaction
  <1>8. CASE InsertLead \/ Crash \/ UNCHANGED vars
    BY <1>8 DEF InsertLead, Crash, vars, Transaction
  <1>. QED  BY <1>1, <1>2, <1>3, <1>4, <1>5, <1>6, <1>7, <1>8 DEF Next

\* merge_clusters is the only transaction that could relate a cluster to
\* itself, and drops such rows.
LEMMA TransactionsRelateOthers ==
  ASSUME NeverSelfRelated, Transaction
  PROVE  NeverSelfRelated'
  <1>1. CASE UNCHANGED tables
    BY <1>1 DEF tables, NeverSelfRelated
  <1>2. ASSUME NEW a \in ClusterId, NEW b \in ClusterId, a # b, UpsertRelation(a, b)
        PROVE  NeverSelfRelated'
    <2>1. \A e \in relations' : e \in relations \/ e \in {<<a, b>>, <<b, a>>}
      BY <1>2 DEF UpsertRelation
    <2>. QED  BY <2>1, <1>2 DEF NeverSelfRelated
  <1>3. ASSUME NEW R, NEW scope, Persist(R, scope)  PROVE NeverSelfRelated'
    <2>1. relations' \subseteq relations
      BY <1>3 DEF Persist, Untouched
    <2>. QED  BY <2>1 DEF NeverSelfRelated
  <1>4. ASSUME NEW c, NEW G, NEW kept, Split(c, G, kept)  PROVE NeverSelfRelated'
    BY <1>4 DEF Split, NeverSelfRelated
  <1>5. ASSUME NEW s, NEW absorbed, Merge(s, absorbed)  PROVE NeverSelfRelated'
    BY <1>5 DEF Merge, Remapped, NeverSelfRelated
  <1>. QED  BY <1>1, <1>2, <1>3, <1>4, <1>5 DEF Transaction

\* Whatever is merged into it, an entity is never RELATED to itself.
THEOREM RelationsJoinOthers == Spec => []NeverSelfRelated
  <1>1. Init => NeverSelfRelated
    BY DEF Init, StoreInit, NeverSelfRelated
  <1>2. IndInv /\ NeverSelfRelated /\ [Next]_vars => NeverSelfRelated'
    BY StepsAreTransactions, TransactionsRelateOthers
  <1>. QED  BY <1>1, <1>2, ServiceInvariant, PTL DEF Spec

\* Clusters that appear are numbered beyond every number handed out before.
LEMMA TransactionsNumberAfresh ==
  ASSUME IndInv, Transaction
  PROVE  \A c \in clusters' \ clusters : c \in (lastId + 1)..lastId'
  <1>1. CASE UNCHANGED tables
    BY <1>1 DEF tables
  <1>2. CASE \E a, b \in ClusterId : a # b /\ UpsertRelation(a, b)
    BY <1>2 DEF UpsertRelation
  <1>3. ASSUME NEW R, NEW scope, Persist(R, scope)
        PROVE  \A c \in clusters' \ clusters : c \in (lastId + 1)..lastId'
    <2>1. PICK target \in [R -> ClusterId] :
            /\ Placement(R, target)
            /\ clusters' \subseteq clusters \cup {target[r] : r \in R}
            /\ lastId' = lastId + Cardinality(Inserted(R))
      BY <1>3 DEF Persist
    <2>2. \A r \in R \ Inserted(R) : target[r] \in clusters
      BY <2>1 DEF Placement, Reusable, Exact, Within, Held
    <2>. QED  BY <2>1, <2>2 DEF Placement, FreshIds
  <1>4. ASSUME NEW c \in ClusterId, NEW G \in SUBSET SUBSET Lead, NEW kept \in G,
               Split(c, G, kept)
        PROVE  \A d \in clusters' \ clusters : d \in (lastId + 1)..lastId'
    <2>1. PICK target \in [G -> ClusterId] :
            /\ c \in clusters /\ target[kept] = c
            /\ \A g \in G \ {kept} : target[g] \in FreshIds(Cardinality(G) - 1)
            /\ clusters' = clusters \cup {target[g] : g \in G}
            /\ lastId' = lastId + Cardinality(G) - 1
      BY <1>4 DEF Split
    <2>2. lastId \in Nat /\ Cardinality(G) \in Nat
      BY FamiliesFinite, StoreAssumption DEF IndInv, TypeOK, StoreType
    <2>3. lastId' = lastId + (Cardinality(G) - 1)
      BY <2>1, <2>2
    <2>. QED  BY <2>1, <2>3 DEF FreshIds
  <1>5. ASSUME NEW s, NEW absorbed, Merge(s, absorbed)
        PROVE  \A c \in clusters' \ clusters : c \in (lastId + 1)..lastId'
    BY <1>5 DEF Merge
  <1>. QED  BY <1>1, <1>2, <1>3, <1>4, <1>5 DEF Transaction

\* An id that API consumers have seen never comes to denote another entity.
THEOREM IdsDenoteOneEntity == Spec => IdsNotReused
  <1>1. IndInv /\ [Next]_vars =>
          [\A c \in clusters' \ clusters : c \in (lastId + 1)..lastId']_vars
    BY StepsAreTransactions, TransactionsNumberAfresh
  <1>. QED  BY <1>1, ServiceInvariant, PTL DEF Spec, IdsNotReused

\* Whatever a transaction inserts holds no cluster that it removes: persist
\* would have reused that one's row, and split_cluster removes nothing.
LEMMA TransactionsKeepAnId ==
  ASSUME IndInv, Transaction
  PROVE  \A c \in clusters' \ clusters : \A d \in clusters \ clusters' :
           ~ members[d] \subseteq members'[c]
  <1>1. CASE UNCHANGED tables
    BY <1>1 DEF tables
  <1>2. CASE \E a, b \in ClusterId : a # b /\ UpsertRelation(a, b)
    BY <1>2 DEF UpsertRelation
  <1>3. ASSUME NEW R \in SUBSET SUBSET Lead, NEW scope \in SUBSET Lead,
               Persist(R, scope),
               NEW c \in clusters' \ clusters, NEW d \in clusters \ clusters',
               members[d] \subseteq members'[c]
        PROVE  FALSE
    <2>1. PICK target \in [R -> ClusterId] :
            /\ Placement(R, target)
            /\ clusters' = (clusters \ Pruned({target[r] : r \in R}, scope))
                             \cup {target[r] : r \in R}
            /\ members' = [e \in ClusterId |->
                             IF e \in Pruned({target[r] : r \in R}, scope) THEN {}
                             ELSE members[e] \cup UNION {r \in R : target[r] = e}]
      BY <1>3 DEF Persist
    <2>2. PICK r \in R : target[r] = c
      BY <2>1, <1>3
    <2>3. c \in ClusterId /\ d \in ClusterId
      BY <2>1, <2>2, <1>3, StoreAssumption DEF IndInv, TypeOK, StoreType, ClusterId
    <2>4. \A s \in R \ Inserted(R) : target[s] # c
      BY <2>1, <1>3 DEF Placement, Reusable, Exact, Within, Held
    <2>5. r \in Inserted(R) /\ \A s \in R : target[s] = c => s = r
      BY <2>1, <2>2, <2>4 DEF Placement
    <2>6. UNION {s \in R : target[s] = c} = r
      BY <2>2, <2>5
    <2>7. members[c] = {} /\ members[d] # {}
      BY <2>3, <1>3 DEF IndInv, LiveReferences
    <2>8. c \notin Pruned({target[s] : s \in R}, scope)
      BY <1>3 DEF Pruned, Held
    <2>9. members'[c] = r
      BY <2>1, <2>3, <2>6, <2>7, <2>8
    <2>10. d \in Within(r)
      BY <2>7, <2>9, <1>3 DEF Within, Held
    <2>. QED  BY <2>5, <2>10 DEF Inserted, Reusable
  <1>4. ASSUME NEW c, NEW G, NEW kept, Split(c, G, kept)
        PROVE  clusters \ clusters' = {}
    BY <1>4 DEF Split
  <1>5. ASSUME NEW s, NEW absorbed, Merge(s, absorbed)
        PROVE  clusters' \ clusters = {}
    BY <1>5 DEF Merge
  <1>. QED  BY <1>1, <1>2, <1>3, <1>4, <1>5 DEF Transaction

\* When entities grow together, one of their ids is kept: in no step does a
\* cluster with a new id hold all the leads of a cluster that disappears.
THEOREM GrowthKeepsIds == Spec => GrowthKeepsAnId
  <1>1. IndInv /\ [Next]_vars =>
          [\A c \in clusters' \ clusters : \A d \in clusters \ clusters' :
             ~ members[d] \subseteq members'[c]]_vars
    BY StepsAreTransactions, TransactionsKeepAnId
  <1>. QED  BY <1>1, ServiceInvariant, PTL DEF Spec, GrowthKeepsAnId

-----------------------------------------------------------------------------
\* The review queue.

LEMMA QueueInitStep ==
  ASSUME QueueInit
  PROVE  QueueInv
  <1>1. Idle \in [step : {"idle", "act", "log", "close"}, item : Row \cup {Nothing},
                  answer : Answer]
    BY DEF Idle, Answer
  <1>2. QueueTypeOK
    BY <1>1, QueueAssumption DEF QueueInit, QueueTypeOK, Verdict, Undecided
  <1>3. \A c \in Client : client[c].step = "idle"
    BY DEF QueueInit, Idle
  <1>. QED
    BY <1>2, <1>3 DEF QueueInit, QueueInv, OneRowPerStatus, ClosedAsActed, HeldItem

\* Steps that leave the queue, the clients and the history alone.
LEMMA RunStep ==
  ASSUME QueueInv,
         LoadOverrides \/ Decide \/ PersistEntities \/ UNCHANGED reviewVars
  PROVE  QueueInv'
  <1>1. UNCHANGED <<rows, nextId, pinned, client, acted>>
    BY DEF LoadOverrides, Decide, PersistEntities, reviewVars, queueVars
  <1>2. /\ together' \subseteq Pair
        /\ overrides' \in [Pair -> Verdict]
        /\ run' \in {"idle", "decide", "persist", "enqueue"}
        /\ found' \in [Pair -> Verdict \cup {"unresolved"}]
    <2>1. CASE LoadOverrides
      BY <2>1 DEF LoadOverrides, QueueInv, QueueTypeOK
    <2>2. CASE Decide
      <3>1. [Pair -> {"same", "distinct", "unresolved"}]
              \subseteq [Pair -> Verdict \cup {"unresolved"}]
        BY DEF Verdict
      <3>. QED
        BY <2>2, <3>1 DEF Decide, QueueInv, QueueTypeOK, Undecided, Verdict
    <2>3. CASE PersistEntities
      BY <2>3 DEF PersistEntities, QueueInv, QueueTypeOK
    <2>4. CASE UNCHANGED reviewVars
      BY <2>4 DEF reviewVars, QueueInv, QueueTypeOK
    <2>. QED  BY <2>1, <2>2, <2>3, <2>4
  <1>3. QueueTypeOK'
    BY <1>1, <1>2 DEF QueueInv, QueueTypeOK
  <1>. QED
    BY <1>1, <1>3 DEF QueueInv, OneRowPerStatus, ClosedAsActed, HeldItem

\* The process ends: no client holds an item any more.
LEMMA ProcessEndsStep ==
  ASSUME QueueInv, ProcessEnds
  PROVE  QueueInv'
  <1>1. Idle \in [step : {"idle", "act", "log", "close"}, item : Row \cup {Nothing},
                  answer : Answer]
    BY DEF Idle, Answer
  <1>2. UNCHANGED <<rows, nextId, together, pinned, acted>>
    BY DEF ProcessEnds, queueVars
  <1>3. QueueTypeOK'
    BY <1>1, <1>2 DEF ProcessEnds, QueueInv, QueueTypeOK, Undecided, Verdict
  <1>4. \A c \in Client : client'[c].step = "idle"
    BY DEF ProcessEnds, Idle
  <1>. QED
    BY <1>2, <1>3, <1>4 DEF QueueInv, OneRowPerStatus, ClosedAsActed, HeldItem

\* enqueue_review: what it inserts is new under its id, and the only pending
\* row of its pair, since the ones before it are deleted.
LEMMA EnqueueStep ==
  ASSUME QueueInv, Enqueue
  PROVE  QueueInv'
  <1>. DEFINE qs == {q \in Pair : found[q] = "unresolved"}
              n  == Cardinality(qs)
  <1>1. n \in Nat
    BY FS_Subset, FS_CardinalityType, QueueAssumption
  <1>2. PICK new \in [qs -> nextId..(nextId + n - 1)] :
          /\ \A p, q \in qs : new[p] = new[q] => p = q
          /\ rows' = (rows \ Superseded(qs)) \cup
                     {[id |-> new[q], pair |-> q, status |-> "pending"] : q \in qs}
    BY DEF Enqueue
  <1>3. /\ nextId' = nextId + n /\ nextId + n <= MaxItem + 1
        /\ run' = "idle" /\ found' = Undecided
        /\ UNCHANGED <<together, pinned, overrides, client, acted>>
    BY DEF Enqueue
  <1>4. nextId \in 1..(MaxItem + 1) /\ MaxItem \in Nat /\ \A r \in rows : r.id \in 1..(nextId - 1)
    BY QueueAssumption DEF QueueInv, QueueTypeOK, Row
  <1>. HIDE DEF n
  <1>5. \A q \in qs : new[q] \in 1..MaxItem /\ new[q] >= nextId /\ new[q] < nextId'
    BY <1>1, <1>2, <1>3, <1>4
  <1>. HIDE DEF qs
  <1>6. ASSUME NEW r \in rows'
        PROVE  \/ /\ r \in rows /\ ~(r.pair \in qs /\ r.status = "pending")
                  /\ r.id < nextId
               \/ \E q \in qs : /\ r = [id |-> new[q], pair |-> q, status |-> "pending"]
                                /\ r.id = new[q] /\ r.pair = q /\ r.status = "pending"
    BY <1>2, <1>4, <1>6 DEF Superseded
  <1>7. \A r, s \in rows' : r.id = s.id => r = s
    <2>1. \A r, s \in rows : r.id = s.id => r = s
      BY DEF QueueInv, QueueTypeOK
    <2>2. \A r \in rows : r.id \in Nat /\ nextId \in Nat
      BY <1>4
    <2>3. \A q \in qs : new[q] \in Nat /\ new[q] >= nextId
      BY <1>5
    <2>. QED  BY <1>2, <1>6, <2>1, <2>2, <2>3
  <1>8. rows' \subseteq Row
    <2>1. \A q \in qs : q \in Pair
      BY DEF qs
    <2>. QED  BY <1>5, <1>6, <2>1 DEF QueueInv, QueueTypeOK, Row
  <1>9. nextId' \in 1..(MaxItem + 1) /\ \A r \in rows' : r.id < nextId'
    BY <1>1, <1>3, <1>4, <1>5, <1>6
  <1>10. QueueTypeOK'
    BY <1>3, <1>7, <1>8, <1>9 DEF QueueInv, QueueTypeOK, Undecided, Verdict
  <1>11. OneRowPerStatus'
    BY <1>6 DEF QueueInv, OneRowPerStatus
  <1>12. ClosedAsActed'
    BY <1>3, <1>6 DEF QueueInv, ClosedAsActed
  <1>13. ASSUME NEW c \in Client  PROVE HeldItem(c)'
    <2>1. HeldItem(c) /\ client' = client /\ acted' = acted
      BY <1>3 DEF QueueInv
    <2>2. ASSUME client[c].step # "idle",
                 NEW r \in rows', r.id = client[c].item.id
          PROVE  r \in rows
      <3>1. client[c].item.id \in Nat /\ client[c].item.id < nextId
        BY <2>1, <2>2 DEF HeldItem, Row
      <3>. QED  BY <1>4, <1>5, <1>6, <2>2, <3>1
    <2>3. nextId' >= nextId
      BY <1>1, <1>3, <1>4
    <2>4. client[c].step # "idle" => client[c].item.id < nextId'
      <3>1. client[c].step # "idle" => client[c].item.id \in Nat
        BY <2>1 DEF HeldItem, Row
      <3>. QED  BY <2>1, <2>3, <3>1, <1>1, <1>3, <1>4 DEF HeldItem
    <2>. QED  BY <2>1, <2>2, <2>4 DEF HeldItem
  <1>. QED  BY <1>10, <1>11, <1>12, <1>13 DEF QueueInv

LEMMA ReadItemStep ==
  ASSUME QueueInv, NEW c \in Client, NEW r \in rows, NEW answer \in Answer,
         ReadItem(c, r, answer)
  PROVE  QueueInv'
  <1>. DEFINE held == [step |-> FirstStep(answer), item |-> r, answer |-> answer]
  <1>1. /\ client' = [client EXCEPT ![c] = held]
        /\ UNCHANGED <<rows, nextId, together, pinned, run, overrides, found, acted>>
    BY DEF ReadItem, queueVars, runVars
  <1>2. r \in Row /\ r.id < nextId
    BY DEF QueueInv, QueueTypeOK
  <1>3. held \in [step : {"idle", "act", "log", "close"}, item : Row \cup {Nothing},
                  answer : Answer]
    BY <1>2 DEF FirstStep
  <1>4. QueueTypeOK'
    BY <1>1, <1>3 DEF QueueInv, QueueTypeOK
  <1>5. held.item = r /\ held.answer = answer
        /\ (held.step \in {"log", "close"} => answer = "dismiss")
    BY DEF FirstStep
  <1>. HIDE DEF held
  <1>6. client'[c] = held /\ \A d \in Client \ {c} : client'[d] = client[d]
    BY <1>1 DEF QueueInv, QueueTypeOK
  <1>7. HeldItem(c)'
    BY <1>1, <1>2, <1>5, <1>6 DEF HeldItem, QueueInv, QueueTypeOK
  <1>8. ASSUME NEW d \in Client \ {c}  PROVE HeldItem(d)'
    BY <1>1, <1>6 DEF HeldItem, QueueInv
  <1>. QED
    BY <1>1, <1>4, <1>7, <1>8 DEF QueueInv, OneRowPerStatus, ClosedAsActed

\* A client goes on to another step with the item it holds.
LEMMA GotoStep ==
  ASSUME QueueInv, NEW c \in Client, NEW step \in {"log", "close"}, Goto(c, step),
         client[c].step # "idle",
         UNCHANGED <<rows, nextId, run, overrides, found>>,
         together' \subseteq Pair, pinned' \in [Pair -> Verdict],
         acted \subseteq acted', acted' \subseteq Pair \X Answer,
         client[c].answer = "dismiss" \/ <<client[c].item.pair, client[c].answer>> \in acted'
  PROVE  QueueInv'
  <1>1. /\ client'[c] = [client[c] EXCEPT !.step = step]
        /\ \A d \in Client \ {c} : client'[d] = client[d]
        /\ client[c] \in [step : {"idle", "act", "log", "close"},
                          item : Row \cup {Nothing}, answer : Answer]
    BY DEF Goto, QueueInv, QueueTypeOK
  <1>2. /\ client'[c].item = client[c].item /\ client'[c].answer = client[c].answer
        /\ client'[c].step = step
    BY <1>1
  <1>3. client' \in [Client -> [step : {"idle", "act", "log", "close"},
                                item : Row \cup {Nothing}, answer : Answer]]
    BY <1>1 DEF Goto, QueueInv, QueueTypeOK
  <1>4. QueueTypeOK'
    BY <1>3 DEF QueueInv, QueueTypeOK
  <1>5. HeldItem(c)'
    BY <1>2 DEF HeldItem, QueueInv
  <1>6. ASSUME NEW d \in Client \ {c}  PROVE HeldItem(d)'
    BY <1>1 DEF HeldItem, QueueInv
  <1>. QED
    BY <1>4, <1>5, <1>6 DEF QueueInv, OneRowPerStatus, ClosedAsActed

LEMMA ActStep ==
  ASSUME QueueInv, NEW c \in Client, MergePair(c) \/ LogMerge(c) \/ KeepSeparate(c)
  PROVE  QueueInv'
  <1>1. client[c].step # "idle" /\ HeldItem(c)
    BY DEF MergePair, LogMerge, KeepSeparate, Acts, QueueInv
  <1>2. client[c].item.pair \in Pair
    BY <1>1 DEF HeldItem, Row
  <1>3. UNCHANGED <<rows, nextId, run, overrides, found>>
    BY DEF MergePair, LogMerge, KeepSeparate, Acts, queueVars, runVars
  <1>4. CASE MergePair(c)
    <2>1. /\ acted' = acted \cup {<<client[c].item.pair, "merge">>}
          /\ client[c].answer = "merge"
          /\ together' = together \cup {client[c].item.pair} /\ pinned' = pinned
      BY <1>4 DEF MergePair, Acts
    <2>2. PICK step \in {"log", "close"} : Goto(c, step)
      BY <1>4 DEF MergePair
    <2>3. /\ acted \subseteq acted' /\ acted' \subseteq Pair \X Answer
          /\ together' \subseteq Pair /\ pinned' \in [Pair -> Verdict]
      BY <1>2, <2>1 DEF QueueInv, QueueTypeOK, Answer
    <2>4. <<client[c].item.pair, client[c].answer>> \in acted'
      BY <2>1
    <2>. QED  BY <1>1, <1>3, <2>2, <2>3, <2>4, GotoStep
  <1>5. CASE LogMerge(c)
    <2>1. /\ acted' = acted /\ together' = together /\ Goto(c, "close")
          /\ pinned' = [pinned EXCEPT ![client[c].item.pair] = "same"]
          /\ client[c].step = "log"
      BY <1>5 DEF LogMerge
    <2>2. pinned' \in [Pair -> Verdict]
      BY <2>1 DEF QueueInv, QueueTypeOK, Verdict
    <2>3. client[c].answer = "dismiss"
            \/ <<client[c].item.pair, client[c].answer>> \in acted
      BY <1>1, <2>1 DEF HeldItem
    <2>. QED  BY <1>1, <1>3, <2>1, <2>2, <2>3, GotoStep DEF QueueInv, QueueTypeOK
  <1>6. CASE KeepSeparate(c)
    <2>1. /\ acted' = acted \cup {<<client[c].item.pair, "keep_separate">>}
          /\ client[c].answer = "keep_separate"
          /\ together' = together /\ Goto(c, "close")
          /\ pinned' = [pinned EXCEPT ![client[c].item.pair] = "distinct"]
      BY <1>6 DEF KeepSeparate, Acts
    <2>2. /\ acted \subseteq acted' /\ acted' \subseteq Pair \X Answer
          /\ together' \subseteq Pair /\ pinned' \in [Pair -> Verdict]
      BY <1>2, <2>1 DEF QueueInv, QueueTypeOK, Answer, Verdict
    <2>3. <<client[c].item.pair, client[c].answer>> \in acted'
      BY <2>1
    <2>. QED  BY <1>1, <1>3, <2>1, <2>2, <2>3, GotoStep
  <1>. QED  BY <1>4, <1>5, <1>6

\* resolve_review closes the row the client read: it is of the same pair, and
\* what its new status says has been done; the UNIQUE constraint keeps a second
\* row of that pair and status out.
LEMMA CloseItemStep ==
  ASSUME QueueInv, NEW c \in Client, CloseItem(c)
  PROVE  QueueInv'
  <1>1. /\ client[c].step = "close" /\ client' = [client EXCEPT ![c] = Idle]
        /\ rows' = IF Refused(Closed(c)) THEN rows
                   ELSE {r \in rows : \A n \in Closed(c) : n.id # r.id} \cup Closed(c)
        /\ UNCHANGED <<nextId, together, pinned, run, overrides, found, acted>>
    BY DEF CloseItem, runVars
  <1>2. HeldItem(c) /\ client[c].answer \in Answer
    BY DEF QueueInv, QueueTypeOK
  <1>3. Idle \in [step : {"idle", "act", "log", "close"}, item : Row \cup {Nothing},
                  answer : Answer]
    BY DEF Idle, Answer
  <1>4. client' \in [Client -> [step : {"idle", "act", "log", "close"},
                                item : Row \cup {Nothing}, answer : Answer]]
    BY <1>1, <1>3 DEF QueueInv, QueueTypeOK
  <1>5. ASSUME NEW n \in Closed(c)
        PROVE  \E s \in rows : /\ n \in Row /\ n.id = s.id /\ n.pair = s.pair
                               /\ s.id = client[c].item.id
                               /\ n.status = Resolution[client[c].answer]
    <2>1. PICK s \in rows : /\ s.id = client[c].item.id
                            /\ n = [s EXCEPT !.status = Resolution[client[c].answer]]
      BY <1>5 DEF Closed
    <2>2. s \in Row
      BY DEF QueueInv, QueueTypeOK
    <2>3. Resolution[client[c].answer] \in {"merged", "kept_separate", "dismissed"}
      BY <1>2 DEF Answer, Resolution
    <2>4. /\ n.id = s.id /\ n.pair = s.pair
          /\ n.status = Resolution[client[c].answer]
      BY <2>1, <2>2 DEF Row
    <2>5. n \in Row
      BY <2>1, <2>2, <2>3 DEF Row
    <2>. QED  BY <2>1, <2>4, <2>5
  <1>6. \A m, n \in Closed(c) : m = n
    <2>1. \A s, t \in rows : s.id = client[c].item.id /\ t.id = client[c].item.id => s = t
      BY DEF QueueInv, QueueTypeOK
    <2>. QED  BY <2>1 DEF Closed
  <1>7. ASSUME NEW r \in rows'
        PROVE  \/ r \in rows /\ (Refused(Closed(c)) \/ \A n \in Closed(c) : n.id # r.id)
               \/ r \in Closed(c) /\ ~Refused(Closed(c))
    BY <1>1
  <1>8. rows' \subseteq Row /\ \A r \in rows' : r.id < nextId
    BY <1>5, <1>7 DEF QueueInv, QueueTypeOK
  <1>9. \A r, s \in rows' : r.id = s.id => r = s
    <2>1. \A r, s \in rows : r.id = s.id => r = s
      BY DEF QueueInv, QueueTypeOK
    <2>. QED  BY <1>6, <1>7, <2>1
  <1>10. QueueTypeOK'
    BY <1>1, <1>4, <1>8, <1>9 DEF QueueInv, QueueTypeOK
  <1>11. OneRowPerStatus'
    <2>1. \A r, s \in rows : r.pair = s.pair /\ r.status = s.status => r = s
      BY DEF QueueInv, OneRowPerStatus
    <2>. QED  BY <1>6, <1>7, <2>1 DEF OneRowPerStatus, Refused
  <1>12. ASSUME NEW n \in Closed(c)
         PROVE  /\ n.status = "merged" => <<n.pair, "merge">> \in acted
                /\ n.status = "kept_separate" => <<n.pair, "keep_separate">> \in acted
    <2>1. n.pair = client[c].item.pair /\ n.status = Resolution[client[c].answer]
      BY <1>1, <1>2, <1>5 DEF HeldItem
    <2>2. client[c].answer = "dismiss"
            \/ <<client[c].item.pair, client[c].answer>> \in acted
      BY <1>1, <1>2 DEF HeldItem
    <2>. QED  BY <1>2, <2>1, <2>2 DEF Answer, Resolution
  <1>13. ClosedAsActed'
    BY <1>1, <1>7, <1>12 DEF QueueInv, ClosedAsActed
  <1>14. ASSUME NEW d \in Client  PROVE HeldItem(d)'
    <2>1. CASE d = c
      BY <1>1, <2>1 DEF HeldItem, Idle, QueueInv, QueueTypeOK
    <2>2. CASE d # c
      <3>1. client'[d] = client[d] /\ HeldItem(d)
        BY <1>1, <2>2 DEF QueueInv, QueueTypeOK
      <3>2. \A r \in rows' : \E s \in rows : r.id = s.id /\ r.pair = s.pair
        BY <1>5, <1>7
      <3>. QED  BY <1>1, <3>1, <3>2 DEF HeldItem
    <2>. QED  BY <2>1, <2>2
  <1>. QED  BY <1>10, <1>11, <1>13, <1>14 DEF QueueInv

LEMMA QueueStep ==
  ASSUME QueueInv, [QueueNext]_reviewVars
  PROVE  QueueInv'
  BY RunStep, ProcessEndsStep, EnqueueStep, ReadItemStep, ActStep, CloseItemStep
     DEF QueueNext

\* The inductive invariant of the review queue.
THEOREM QueueInvariant == QueueSpec => []QueueInv
  BY QueueInitStep, QueueStep, PTL DEF QueueSpec

\* However runs, answers and the end of the process interleave, the UNIQUE
\* constraint of the queue is never met: a pair has one open item.
THEOREM OneItemPerPair == QueueSpec => []OneRowPerStatus
  <1>1. QueueInv => OneRowPerStatus
    BY DEF QueueInv
  <1>. QED  BY <1>1, QueueInvariant, PTL

\* A closed item says what was done to its pair, whoever answered it, however
\* many did at once and wherever they died.
THEOREM ItemsCloseAsActed == QueueSpec => []ClosedAsActed
  <1>1. QueueInv => ClosedAsActed
    BY DEF QueueInv
  <1>. QED  BY <1>1, QueueInvariant, PTL
=============================================================================
