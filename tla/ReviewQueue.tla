------------------------------ MODULE ReviewQueue ------------------------------
(***************************************************************************)
(* The queue of ambiguous pairs (infrastructure/storage/cluster_repo.py)   *)
(* between resolution runs, which fill it, and the people who answer it    *)
(* (services/discovery_service.py: resolve_review, _merge_pair).  A run    *)
(* reads the manual overrides first and queues its pairs last; an answer   *)
(* reads the item, acts on the entities or the decision log, and closes    *)
(* the item in a transaction of its own.  Other answers, runs, and the end *)
(* of the process come in between.                                         *)
(***************************************************************************)
EXTENDS Integers, FiniteSets

CONSTANTS Pair,       \* pairs of leads that share no lead
          Clustered,  \* pairs both of whose leads have an entity of their own
          Client,     \* answers being given at the same time
          MaxItem     \* bound on review_queue ids

Answer     == {"merge", "keep_separate", "dismiss"}
Resolution == [merge |-> "merged", keep_separate |-> "kept_separate",
               dismiss |-> "dismissed"]
Verdict    == {"none", "same", "distinct"}
Nothing    == [id |-> 0]
Undecided  == [q \in Pair |-> "none"]

ASSUME QueueAssumption ==
  /\ IsFiniteSet(Pair)
  /\ Clustered \subseteq Pair
  /\ MaxItem \in Nat

VARIABLES rows,      \* review_queue: id, pair, status
          nextId,    \* its AUTOINCREMENT counter
          together,  \* pairs whose leads are in one entity
          pinned,    \* latest manual decision of each pair in the log
          run,       \* idle, or what the run is about to do
          overrides, \* the pins the run has read
          found,     \* what the run decided of each pair
          client,    \* answer under way: step, the item as it was read, answer
          acted      \* history: what answers have done to each pair

reviewVars == <<rows, nextId, together, pinned, run, overrides, found, client, acted>>

runVars   == <<run, overrides, found>>
queueVars == <<rows, nextId>>

Idle == [step |-> "idle", item |-> Nothing, answer |-> "dismiss"]

QueueInit ==
  /\ rows = {}
  /\ nextId = 1
  /\ together = {}
  /\ pinned = [q \in Pair |-> "none"]
  /\ run = "idle"
  /\ overrides = pinned
  /\ found = Undecided
  /\ client = [c \in Client |-> Idle]
  /\ acted = {}

-----------------------------------------------------------------------------
\* A batch run.

LoadOverrides ==
  /\ run = "idle"
  /\ run' = "decide"
  /\ overrides' = pinned
  /\ UNCHANGED <<queueVars, together, pinned, found, client, acted>>

\* The resolver, in a worker thread: a manual override replaces its decision.
Decide ==
  /\ run = "decide"
  /\ run' = "persist"
  /\ \E f \in [Pair -> {"same", "distinct", "unresolved"}] :
       /\ \A q \in Pair : overrides[q] # "none" => f[q] = overrides[q]
       /\ found' = f
  /\ overrides' = Undecided
  /\ UNCHANGED <<queueVars, together, pinned, client, acted>>

\* _persist_result up to the review queue: entities of pairs that are not
\* SAME are pruned.
PersistEntities ==
  /\ run = "persist"
  /\ run' = "enqueue"
  /\ together' = {q \in Pair : found[q] = "same"}
  /\ UNCHANGED <<queueVars, pinned, overrides, found, client, acted>>

\* Mutant of Superseded: old pending rows stay.
SupersededNone(qs) == {}

\* The pending rows that enqueue_review deletes before it inserts.
Superseded(qs) == {r \in rows : r.pair \in qs /\ r.status = "pending"}

\* enqueue_review: one transaction for all the pairs.
Enqueue ==
  LET qs == {q \in Pair : found[q] = "unresolved"}
      n  == Cardinality(qs)
  IN /\ run = "enqueue"
     /\ run' = "idle"
     /\ nextId + n <= MaxItem + 1
     /\ \E new \in [qs -> nextId..(nextId + n - 1)] :
          /\ \A p, q \in qs : new[p] = new[q] => p = q
          /\ rows' = (rows \ Superseded(qs)) \cup
                     {[id |-> new[q], pair |-> q, status |-> "pending"] : q \in qs}
     /\ nextId' = nextId + n
     /\ found' = Undecided
     /\ UNCHANGED <<together, pinned, overrides, client, acted>>

-----------------------------------------------------------------------------
\* ResolutionService.resolve_review.

Goto(c, step) == client' = [client EXCEPT ![c].step = step]

\* Mutant of FirstStep: every answer closes the item first.
CloseFirst(answer) == "close"

\* resolve_review acts before it closes; a dismissal has nothing to do.
FirstStep(answer) == IF answer = "dismiss" THEN "close" ELSE "act"

\* get_review_item, and the test that the item is still pending.
ReadItem(c, r, answer) ==
  /\ client[c].step = "idle"
  /\ r.status = "pending"
  /\ client' = [client EXCEPT ![c] = [step |-> FirstStep(answer), item |-> r,
                                      answer |-> answer]]
  /\ UNCHANGED <<queueVars, together, pinned, runVars, acted>>

Acts(c, answer) ==
  /\ client[c].step = "act" /\ client[c].answer = answer
  /\ acted' = acted \cup {<<client[c].item.pair, answer>>}
  /\ UNCHANGED <<queueVars, runVars>>

\* _merge_pair: through merge_entities, which logs what it did, only when the
\* leads are in two entities.
MergePair(c) ==
  LET q == client[c].item.pair IN
  /\ Acts(c, "merge")
  /\ together' = together \cup {q}
  /\ Goto(c, IF q \in Clustered \ together THEN "log" ELSE "close")
  /\ UNCHANGED pinned

\* merge_entities: record_decisions after merge_clusters.
LogMerge(c) ==
  /\ client[c].step = "log"
  /\ pinned' = [pinned EXCEPT ![client[c].item.pair] = "same"]
  /\ Goto(c, "close")
  /\ UNCHANGED <<queueVars, together, runVars, acted>>

\* keep_separate: a manual distinct decision.
KeepSeparate(c) ==
  /\ Acts(c, "keep_separate")
  /\ pinned' = [pinned EXCEPT ![client[c].item.pair] = "distinct"]
  /\ Goto(c, "close")
  /\ UNCHANGED together

\* The row the UPDATE .. WHERE id = ? AND status = 'pending' meets, as it
\* would be afterwards.
Closed(c) ==
  {[r EXCEPT !.status = Resolution[client[c].answer]] :
     r \in {s \in rows : s.id = client[c].item.id /\ s.status = "pending"}}

\* UNIQUE (lead_a, lead_b, status) covers the rows of earlier answers too.
Refused(new) ==
  \E r \in rows, n \in new : r.pair = n.pair /\ r.status = n.status

\* The repository's resolve_review.  A refused UPDATE raises IntegrityError,
\* which the route does not handle: the item stays pending.
CloseItem(c) ==
  /\ client[c].step = "close"
  /\ rows' = IF Refused(Closed(c)) THEN rows
             ELSE {r \in rows : \A n \in Closed(c) : n.id # r.id} \cup Closed(c)
  /\ client' = [client EXCEPT ![c] = Idle]
  /\ UNCHANGED <<nextId, together, pinned, runVars, acted>>

\* The process ends; the tables remain.
ProcessEnds ==
  /\ run' = "idle"
  /\ overrides' = Undecided
  /\ found' = Undecided
  /\ client' = [c \in Client |-> Idle]
  /\ UNCHANGED <<queueVars, together, pinned, acted>>

QueueNext ==
  \/ LoadOverrides \/ Decide \/ PersistEntities \/ Enqueue \/ ProcessEnds
  \/ \E c \in Client :
       \/ \E r \in rows, answer \in Answer : ReadItem(c, r, answer)
       \/ MergePair(c) \/ LogMerge(c) \/ KeepSeparate(c) \/ CloseItem(c)

QueueSpec == QueueInit /\ [][QueueNext]_reviewVars

-----------------------------------------------------------------------------
Row == [id : 1..MaxItem, pair : Pair,
        status : {"pending", "merged", "kept_separate", "dismissed"}]

\* Type invariant: a row has a pair, a status and an id that was given out
\* once.
QueueTypeOK ==
  /\ rows \subseteq Row
  /\ \A r, s \in rows : r.id = s.id => r = s
  /\ nextId \in 1..(MaxItem + 1) /\ \A r \in rows : r.id < nextId
  /\ together \subseteq Pair
  /\ pinned \in [Pair -> Verdict] /\ overrides \in [Pair -> Verdict]
  /\ run \in {"idle", "decide", "persist", "enqueue"}
  /\ found \in [Pair -> Verdict \cup {"unresolved"}]
  /\ client \in [Client -> [step : {"idle", "act", "log", "close"},
                            item : Row \cup {Nothing}, answer : Answer]]
  /\ acted \subseteq Pair \X Answer

\* "one open item per pair": whatever answers and restarts come between a
\* run's reads and its enqueue, its INSERTs never meet the UNIQUE constraint.
OneRowPerStatus ==
  \A r, s \in rows : r.pair = s.pair /\ r.status = s.status => r = s

\* A closed item means that what its status says has been done: an answer
\* that dies half-way leaves the item open, and two answers to one item leave
\* it with a status that one of them has carried out.
ClosedAsActed ==
  \A r \in rows :
    /\ r.status = "merged" => <<r.pair, "merge">> \in acted
    /\ r.status = "kept_separate" => <<r.pair, "keep_separate">> \in acted

\* The strengthening that makes them inductive: an id never comes to stand for
\* another pair, so the item a client holds is about the pair of the row it
\* will close, and past the act the answer has been carried out.
HeldItem(c) ==
  client[c].step # "idle" =>
    /\ client[c].item \in Row
    /\ client[c].item.id < nextId
    /\ \A r \in rows : r.id = client[c].item.id => r.pair = client[c].item.pair
    /\ client[c].step \in {"log", "close"} =>
         client[c].answer = "dismiss" \/ <<client[c].item.pair, client[c].answer>> \in acted

QueueInv ==
  /\ QueueTypeOK
  /\ OneRowPerStatus
  /\ ClosedAsActed
  /\ \A c \in Client : HeldItem(c)
=============================================================================
