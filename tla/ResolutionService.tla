--------------------------- MODULE ResolutionService ---------------------------
(***************************************************************************)
(* The operations of ResolutionService (services/discovery_service.py) on  *)
(* the entity tables: batch and incremental resolution, split, merge and   *)
(* review merges.  Every repository call is awaited, so an operation is a  *)
(* chain of steps, one per transaction, and the state it read is whatever  *)
(* the tables held then.  A crash abandons an operation between two steps. *)
(*                                                                         *)
(* What the engine decides is abstracted to what its clustering            *)
(* guarantees: a batch run may group the leads it loaded in any way; an    *)
(* incremental run never separates leads that shared a cluster when it     *)
(* loaded them, its own new leads excepted.  The decision log and the      *)
(* review rows do not feed back into the tables modelled here.             *)
(***************************************************************************)
EXTENDS ClusterStore

CONSTANTS Call,      \* concurrent service calls
          Batch,     \* ENTITY_RESOLUTION_BATCH: leads a run loads, oldest first
          Overlaps,  \* may calls overlap: {FALSE}, {TRUE} or BOOLEAN
          OverlapIds \* bound: a call starts beside another one only while fewer
                     \* cluster ids than this were allocated

ASSUME ServiceAssumption ==
  /\ Lead \in SUBSET (Nat \ {0})
  /\ IsFiniteSet(Lead)
  /\ Batch \in Nat
  /\ Overlaps \subseteq BOOLEAN
  /\ OverlapIds \in Nat

VARIABLES known,     \* rows of leads
          overlap,   \* whether calls may overlap, fixed by Init
          pc,        \* where each call is
          loaded,    \* the leads it read: a run's scope, or a cluster's members
          mates,     \* what it read of the clusters: lead -> leads sharing its
                     \* cluster_id
          fresh,     \* the new leads of an incremental run
          plan,      \* member sets it is about to write, or a related pair
          targets    \* cluster ids it is about to write to

locals == <<pc, loaded, mates, fresh, plan, targets>>
vars   == <<tables, known, overlap, locals>>

Stage == {"idle", "created", "batch", "incremental", "relating", "mapped",
          "splitting", "checking", "merging", "joining", "adding", "pairing"}

LocalsType ==
  /\ pc \in [Call -> Stage]
  /\ loaded \in [Call -> SUBSET Lead]
  /\ mates \in [Call -> [Lead -> SUBSET Lead]]
  /\ fresh \in [Call -> SUBSET Lead]
  /\ plan \in [Call -> SUBSET SUBSET Lead]
  /\ targets \in [Call -> SUBSET ClusterId]

TypeOK ==
  /\ StoreType
  /\ known \subseteq Lead
  /\ overlap \in BOOLEAN
  /\ LocalsType

Alone == [l \in Lead |-> {}]

Init ==
  /\ StoreInit
  /\ known = {}
  /\ overlap \in Overlaps
  /\ pc = [p \in Call |-> "idle"]
  /\ loaded = [p \in Call |-> {}]
  /\ mates = [p \in Call |-> Alone]
  /\ fresh = [p \in Call |-> {}]
  /\ plan = [p \in Call |-> {}]
  /\ targets = [p \in Call |-> {}]

-----------------------------------------------------------------------------
\* Partitions of S: the kernels of the functions on S.
Partitions(S) == {{{m \in S : f[m] = f[l]} : l \in S} : f \in [S -> S]}

Start(p) ==
  /\ pc[p] = "idle"
  /\ (overlap /\ lastId < OverlapIds) \/ \A q \in Call : pc[q] = "idle"

\* The call moves to stage `to`; at "idle" it has returned and its locals
\* are gone.
Continue(p, to) == pc' = [pc EXCEPT ![p] = to]

Return(p) ==
  /\ Continue(p, "idle")
  /\ loaded' = [loaded EXCEPT ![p] = {}]
  /\ mates' = [mates EXCEPT ![p] = Alone]
  /\ fresh' = [fresh EXCEPT ![p] = {}]
  /\ plan' = [plan EXCEPT ![p] = {}]
  /\ targets' = [targets EXCEPT ![p] = {}]

\* all_for_resolution: the Batch oldest leads (ids are allocated in order).
Oldest == {l \in known : Cardinality({m \in known : m <= l}) <= Batch}

Neighbours == [l \in Lead |-> {m \in known : pointer[l] # NoCluster
                                          /\ pointer[m] = pointer[l]}]

NextLead == {l \in Lead \ known : \A m \in Lead \ known : l <= m}

-----------------------------------------------------------------------------
\* A scraper, the crawler or discover inserts a lead.
InsertLead ==
  /\ \E l \in NextLead : known' = known \cup {l}
  /\ UNCHANGED <<tables, overlap, locals>>

\* discover has saved the leads of a campaign and calls resolve_incremental
\* with those it created.
Discover(p) ==
  /\ Start(p)
  /\ \E l \in NextLead :
       /\ known' = known \cup {l}
       /\ fresh' = [fresh EXCEPT ![p] = {l}]
  /\ Continue(p, "created")
  /\ UNCHANGED <<tables, overlap, loaded, mates, plan, targets>>

\* resolve_all and resolve_incremental load the leads (and the overrides).
LoadLeads(p, stage) ==
  /\ loaded' = [loaded EXCEPT ![p] = Oldest]
  /\ Continue(p, stage)
  /\ UNCHANGED <<tables, known, overlap, fresh, plan, targets>>

BatchLoad(p) ==
  Start(p) /\ known # {} /\ LoadLeads(p, "batch") /\ UNCHANGED mates

IncrementalLoad(p) ==
  /\ pc[p] = "created"
  /\ LoadLeads(p, "incremental")
  /\ mates' = [mates EXCEPT ![p] = Neighbours]

\* The groups the engine may return: in incremental mode leads loaded with
\* the same cluster_id are pinned together, the new ones excepted.
Groupings(p) ==
  {G \in Partitions(loaded[p]) :
     pc[p] = "incremental" =>
       \A g \in G : \A l \in g \ fresh[p] :
         (mates[p][l] \cap loaded[p]) \ fresh[p] \subseteq g}

\* The RELATED group pairs of a run: at most one; in incremental mode only
\* pairs with a new lead are scored.
Affected(p, G) == {g \in G : pc[p] = "batch" \/ g \cap fresh[p] # {}}

Related(p, G) ==
  {{}} \cup {rel \in {{g, h} : g \in Affected(p, G), h \in G} : Cardinality(rel) = 2}

\* canonical_records: groups in a relation, and the affected ones of several
\* leads; plain singletons and untouched groups are not records.
Records(p, G, rel) == rel \cup {g \in Affected(p, G) : Cardinality(g) > 1}

\* _persist_result: the first transaction of a run.
PersistRun(p) ==
  /\ pc[p] \in {"batch", "incremental"}
  /\ \E G \in Groupings(p) : \E rel \in Related(p, G) :
       /\ Persist(Records(p, G, rel), loaded[p])
       /\ IF rel = {} THEN Return(p)
          ELSE /\ plan' = [plan EXCEPT ![p] = rel]
               /\ Continue(p, "relating")
               /\ UNCHANGED <<loaded, mates, fresh, targets>>
  /\ UNCHANGED <<known, overlap>>

\* cluster_id_by_lead, then _cluster_id_for_group on each related group: the
\* cluster of its first lead that has one.
ClusterOfGroup(g) ==
  {pointer[l] : l \in {m \in g : pointer[m] # NoCluster
                              /\ \A k \in g : pointer[k] # NoCluster => m <= k}}

MapRelation(p) ==
  /\ pc[p] = "relating"
  /\ LET ids == UNION {ClusterOfGroup(g) : g \in plan[p]}
     IN IF Cardinality(ids) = 2
        THEN /\ targets' = [targets EXCEPT ![p] = ids]
             /\ Continue(p, "mapped")
             /\ UNCHANGED <<loaded, mates, fresh, plan>>
        ELSE Return(p)
  /\ UNCHANGED <<tables, known, overlap>>

WriteRelation(p) ==
  /\ pc[p] = "mapped"
  /\ \E a, b \in targets[p] : a # b /\ UpsertRelation(a, b)
  /\ Return(p)
  /\ UNCHANGED <<known, overlap>>

-----------------------------------------------------------------------------
\* split_cluster: the groups are checked against the membership just read.
SplitRead(p) ==
  /\ Start(p)
  /\ \E c \in clusters : \E G \in Partitions(members[c]) :
       /\ Cardinality(G) > 1
       /\ plan' = [plan EXCEPT ![p] = G]
       /\ targets' = [targets EXCEPT ![p] = {c}]
  /\ Continue(p, "splitting")
  /\ UNCHANGED <<tables, known, overlap, loaded, mates, fresh>>

\* ClusterRepository.split_cluster.  The group of the canonical lead goes
\* first; which one that is, is data.
SplitWrite(p) ==
  /\ pc[p] = "splitting"
  /\ \E c \in targets[p] :
       IF c \in clusters THEN \E kept \in plan[p] : Split(c, plan[p], kept)
                         ELSE UNCHANGED tables
  /\ Return(p)
  /\ UNCHANGED <<known, overlap>>

\* merge_entities: every cluster is checked to exist.
MergeRead(p) ==
  /\ Start(p)
  /\ \E S \in SUBSET clusters :
       /\ Cardinality(S) > 1
       /\ targets' = [targets EXCEPT ![p] = S]
  /\ Continue(p, "merging")
  /\ UNCHANGED <<tables, known, overlap, loaded, mates, fresh, plan>>

\* ClusterRepository.merge_clusters into the lowest id.
MergeWrite(p) ==
  /\ pc[p] = "merging"
  /\ \E s \in targets[p] :
       /\ \A c \in targets[p] : s <= c
       /\ IF s \in clusters THEN Merge(s, targets[p] \ {s}) ELSE UNCHANGED tables
  /\ Return(p)
  /\ UNCHANGED <<known, overlap>>

\* resolve_review("merge"), _merge_pair: what it does depends on the clusters
\* of the two leads when it reads them; `loaded` are those without one.
ReviewRead(p) ==
  /\ Start(p)
  /\ \E a, b \in known :
       /\ a < b
       /\ LET ids == {pointer[a], pointer[b]} \ {NoCluster}
              lone == {l \in {a, b} : pointer[l] = NoCluster}
          IN /\ targets' = [targets EXCEPT ![p] = ids]
             /\ loaded' = [loaded EXCEPT ![p] = lone]
             /\ \/ ids = {} /\ Continue(p, "pairing")
                \/ ids # {} /\ lone # {} /\ Continue(p, "joining")
                \/ Cardinality(ids) = 2 /\ Continue(p, "checking")
  /\ UNCHANGED <<tables, known, overlap, mates, fresh, plan>>

\* Two clusters: merge_entities checks that both exist, or raises.
ReviewCheck(p) ==
  /\ pc[p] = "checking"
  /\ IF targets[p] \subseteq clusters
     THEN Continue(p, "merging") /\ UNCHANGED <<loaded, mates, fresh, plan, targets>>
     ELSE Return(p)
  /\ UNCHANGED <<tables, known, overlap>>

\* One cluster: its members are read, and persist gets one record of them and
\* the lone lead, with the members as scope.
JoinRead(p) ==
  /\ pc[p] = "joining"
  /\ \E c \in targets[p] :
       /\ plan' = [plan EXCEPT ![p] = {members[c] \cup loaded[p]}]
       /\ loaded' = [loaded EXCEPT ![p] = members[c]]
  /\ Continue(p, "adding")
  /\ UNCHANGED <<tables, known, overlap, mates, fresh, targets>>

JoinWrite(p) ==
  /\ pc[p] = "adding"
  /\ Persist(plan[p], loaded[p])
  /\ Return(p)
  /\ UNCHANGED <<known, overlap>>

\* No cluster: a new two-member one.
PairWrite(p) ==
  /\ pc[p] = "pairing"
  /\ Persist({loaded[p]}, loaded[p])
  /\ Return(p)
  /\ UNCHANGED <<known, overlap>>

-----------------------------------------------------------------------------
\* The process dies: the calls are gone, the tables are not.
Crash ==
  /\ \E p \in Call : pc[p] # "idle"
  /\ pc' = [p \in Call |-> "idle"]
  /\ loaded' = [p \in Call |-> {}]
  /\ mates' = [p \in Call |-> Alone]
  /\ fresh' = [p \in Call |-> {}]
  /\ plan' = [p \in Call |-> {}]
  /\ targets' = [p \in Call |-> {}]
  /\ UNCHANGED <<tables, known, overlap>>

Next ==
  \/ InsertLead
  \/ Crash
  \/ \E p \in Call :
       \/ Discover(p)
       \/ BatchLoad(p) \/ IncrementalLoad(p) \/ PersistRun(p)
       \/ MapRelation(p) \/ WriteRelation(p)
       \/ SplitRead(p) \/ SplitWrite(p)
       \/ MergeRead(p) \/ MergeWrite(p)
       \/ ReviewRead(p) \/ ReviewCheck(p)
       \/ JoinRead(p) \/ JoinWrite(p) \/ PairWrite(p)

Spec == Init /\ [][Next]_vars

-----------------------------------------------------------------------------
\* As long as calls do not overlap, leads.cluster_id and entity_links say the
\* same of every lead, and so no lead is in two clusters: across all the
\* operations, and when one is abandoned between two of its transactions.
MembershipAgrees == ~overlap => Agrees

\* The strengthening that makes LiveReferences and MembershipAgrees inductive:
\* what each call is about to write, ...
Disjoint(R) ==
  /\ R \subseteq SUBSET Lead
  /\ \A r \in R : r # {}
  /\ \A r, s \in R : \A l \in r : l \in s => r = s

Ready(p) ==
  /\ pc[p] = "splitting" => Disjoint(plan[p]) /\ \E c \in ClusterId : targets[p] = {c}
  /\ pc[p] \in {"joining", "pairing"} => loaded[p] # {}
  /\ pc[p] = "joining" => targets[p] # {}
  /\ pc[p] = "adding" => \E r \in SUBSET Lead : r # {} /\ plan[p] = {r}

\* ... and, when calls do not overlap, that what it read still holds.
Current(p) ==
  /\ pc[p] = "splitting" => \A c \in targets[p] : UNION plan[p] = members[c]
  /\ pc[p] = "joining" => \A l \in loaded[p] : pointer[l] = NoCluster
  /\ pc[p] = "adding" =>
       \A r \in plan[p] : \A l \in r \ loaded[p] : pointer[l] = NoCluster

OneAtATime == \A p, q \in Call : pc[p] # "idle" /\ pc[q] # "idle" => p = q

IndInv ==
  /\ TypeOK
  /\ LiveReferences
  /\ \A p \in Call : Ready(p)
  /\ ~overlap => Agrees /\ OneAtATime /\ \A p \in Call : Current(p)

\* Stable identity: of the clusters that disappear in a step, none was absorbed
\* by a cluster with a new id.  When clusters grow together, one of their ids
\* is kept (persist, reuse rules 1 and 2; merge_clusters).
GrowthKeepsAnId ==
  [][\A c \in clusters' \ clusters : \A d \in clusters \ clusters' :
       ~ members[d] \subseteq members'[c]]_vars

\* An id that has been in use never denotes another entity later.
IdsNotReused ==
  [][\A c \in clusters' \ clusters : c \in (lastId + 1)..lastId']_vars
=============================================================================
