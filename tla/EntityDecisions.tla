---------------------------- MODULE EntityDecisions ----------------------------
(***************************************************************************)
(* The decision log (infrastructure/storage/cluster_repo.py) between the   *)
(* humans who split, merge and review entities and the resolution runs     *)
(* that read it back as pins (engine/resolution/resolver.py): a run loads  *)
(* the manual decisions, clusters under them, and logs its own decisions,  *)
(* the ones it took from the log among them.                               *)
(*                                                                         *)
(* Only manual rows of the log are told apart; the others only take room.  *)
(* The classifier's verdict on a pair is data: any.                        *)
(***************************************************************************)
EXTENDS Clusterer, Sequences

CONSTANTS Keep,      \* ENTITY_DECISION_LOG_LIMIT
          Calls,     \* bound: human operations in a behaviour
          Overlap    \* may humans decide while a run is under way

ASSUME LogAssumption == Keep \in Nat \ {0} /\ Calls \in Nat /\ Overlap \in BOOLEAN

VARIABLES log,       \* resolution_decisions, oldest row first
          stage,     \* of the run: idle, pinning, merging
          loaded,    \* the overrides the run has read
          said,      \* pair -> what humans have said of it, in order
          calls      \* human operations so far

vars == <<forest, log, stage, loaded, said, calls>>

Verdict == {"same", "distinct"}
Unsaid  == "none"
EngineRow == [a |-> 0, b |-> 0, decision |-> "engine"]
Row       == [a : Lead, b : Lead, decision : Verdict] \cup {EngineRow}

Init ==
  /\ ForestInit
  /\ log = <<>>
  /\ stage = "idle"
  /\ loaded = [p \in Pairs |-> Unsaid]
  /\ said = [p \in Pairs |-> <<>>]
  /\ calls = 0

-----------------------------------------------------------------------------
\* FIFO trim: the newest Keep rows are kept.
Trimmed(s) == IF Len(s) <= Keep THEN s ELSE SubSeq(s, Len(s) - Keep + 1, Len(s))

\* record_decisions: rows is any sequence of the given manual rows.
Orders(R) == {s \in [1..Cardinality(R) -> R] : \A i, j \in DOMAIN s : s[i] = s[j] => i = j}

Record(rows) == log' = Trimmed(log \o rows)

Rows(X, Y, d) == {[a |-> x, b |-> y, decision |-> d] : x \in X, y \in Y}

Low(p)  == CHOOSE x \in p : \A y \in p : x <= y
High(p) == CHOOSE x \in p : \A y \in p : x >= y

\* Positions of the rows of an (a, b) key: unlike the review queue, the log
\* does not order its pairs.
At(a, b) == {i \in DOMAIN log : log[i].a = a /\ log[i].b = b}

\* The decision of the latest of them, if there is one.
Latest(a, b) == {log[i].decision : i \in {k \in At(a, b) : \A j \in At(a, b) : j <= k}}

\* manual_overrides and _override_index: the latest row of either key; the
\* keys are read in the order of GROUP BY, and the last one read is kept.
Override(p) ==
  LET read == IF Latest(High(p), Low(p)) # {} THEN Latest(High(p), Low(p))
                                              ELSE Latest(Low(p), High(p))
  IN IF read = {} THEN Unsaid ELSE CHOOSE d \in read : TRUE

-----------------------------------------------------------------------------
\* Humans.

\* The decision d on every pair of a lead of X and one of Y is logged, and
\* remembered as said.
Decide(X, Y, d) ==
  /\ calls < Calls                                          \* the bound
  /\ Overlap \/ stage = "idle"
  /\ calls' = calls + 1
  /\ \E s \in Orders(Rows(X, Y, d)) : Record(s)
  /\ said' = [p \in Pairs |-> IF \E x \in X, y \in Y : p = {x, y}
                               THEN Append(said[p], d) ELSE said[p]]
  /\ UNCHANGED <<forest, stage, loaded>>

Sides(X, Y) == X # {} /\ Y # {} /\ X \cap Y = {}

\* split_cluster into two groups, the canonical lead's group first.
SplitCluster ==
  \E X, Y \in SUBSET Lead : Sides(X, Y) /\ Decide(X, Y, "distinct")

\* merge_entities of two clusters: absorbed members against survivors.
MergeEntities ==
  \E X, Y \in SUBSET Lead : Sides(X, Y) /\ Decide(X, Y, "same")

\* resolve_review("keep_separate"): the queue orders its pairs.
KeepSeparate ==
  \E a, b \in Lead : a < b /\ Decide({a}, {b}, "distinct")

-----------------------------------------------------------------------------
\* A resolution run.

\* The pins: an earlier run's clusters (incremental mode), and the overrides.
Load ==
  /\ stage = "idle"
  /\ stage' = "pinning"
  /\ loaded' = [p \in Pairs |-> Override(p)]
  /\ \E seeds \in SUBSET Pairs :
       pins' = seeds \cup {p \in Pairs : Override(p) = "same"}
  /\ forbidden' = {p \in Pairs : Override(p) = "distinct"}
  /\ comp' = Singletons
  /\ pinned' = Singletons
  /\ edges' = {}
  /\ UNCHANGED <<log, said, calls>>

Pin ==
  /\ stage = "pinning"
  /\ \E a, b \in Lead : PinSame(a, b)
  /\ UNCHANGED <<log, stage, loaded, said, calls>>

\* cluster(): the decisions on the candidate pairs, an override replacing the
\* classifier's; strong DISTINCT ones become constraints first.
Classify ==
  /\ stage = "pinning"
  /\ pins = {}
  /\ stage' = "merging"
  /\ \E E \in SUBSET Edge : \E hard \in SUBSET Pairs :
       /\ \A e, f \in E : e.pair = f.pair => e = f
       /\ \A e \in E : loaded[e.pair] # "distinct" /\ e.pair \notin hard
       /\ \A p \in hard : loaded[p] # "same"
       /\ edges' = E
       /\ forbidden' = forbidden \cup hard
  /\ UNCHANGED <<comp, pinned, pins, log, loaded, said, calls>>

Merge ==
  /\ stage = "merging"
  /\ \E e \in edges : Consider(e)
  /\ UNCHANGED <<log, stage, loaded, said, calls>>

\* Overrides on candidate pairs keep decided_by = "manual" when logged.
Loggable == {p \in Pairs : loaded[p] # Unsaid}

\* Mutant: the row takes the classifier's verdict, not the override's.
RelogFlipped(p) == [a |-> Low(p), b |-> High(p), decision |-> "same"]

\* The row of a decision has the pair in batch order, which is id order.
Relog(p) == [a |-> Low(p), b |-> High(p), decision |-> loaded[p]]

\* _persist_result logs the decisions of the run.
LogRun ==
  /\ stage = "merging"
  /\ edges = {}
  /\ \E P \in SUBSET Loggable : \E s \in Orders({Relog(p) : p \in P}) :
       Record(s) \/ Record(Append(s, EngineRow))
  /\ stage' = "idle"
  /\ loaded' = [p \in Pairs |-> Unsaid]
  /\ ForestDropped
  /\ UNCHANGED <<said, calls>>

Next ==
  \/ SplitCluster \/ MergeEntities \/ KeepSeparate
  \/ Load \/ Pin \/ Classify \/ Merge \/ LogRun

Spec == Init /\ [][Next]_vars

-----------------------------------------------------------------------------
\* Type invariant; the log never exceeds its limit.
TypeOK ==
  /\ ForestType
  /\ log \in Seq(Row) /\ Len(log) <= Keep
  /\ stage \in {"idle", "pinning", "merging"}
  /\ loaded \in [Pairs -> Verdict \cup {Unsaid}]
  /\ said \in [Pairs -> Seq(Verdict)]
  /\ calls \in 0..Calls

Saying(p) == {said[p][i] : i \in DOMAIN said[p]}

\* A merge that a human decided, and the run has read, holds in the groups it
\* makes, whatever constraints and edges it also has.
HumanMergesHold ==
  stage = "merging" =>
    \A a, b \in Lead : {a, b} \in Pairs /\ loaded[{a, b}] = "same" => b \in comp[a]

\* A pin is always something a human said of that very pair: trims, re-logged
\* overrides and runs that overlap human decisions never turn a verdict of the
\* engine into a pin.
PinsAreHuman ==
  \A p \in Pairs : {Override(p), loaded[p]} \subseteq Saying(p) \cup {Unsaid}
=============================================================================
