------------------------ MODULE EntityDecisions_proofs ------------------------
(***************************************************************************)
(* Proofs about the decisions that make entities.  EntityDecisions: the    *)
(* log and the constrained clustering, for any set of leads, any log limit *)
(* and any number of human operations, overlapping runs or not.            *)
(* EntityResolver: what a run compares, judges and scores, for any leads.  *)
(***************************************************************************)
EXTENDS EntityDecisions, EntityResolver, FiniteSetTheorems, WellFoundedInduction,
        NaturalsInduction, TLAPS

-----------------------------------------------------------------------------
\* The inductive invariant.  VetoesHold needs that components are a partition
\* (so that looking across two of them sees every new pair) and that nothing
\* but pins has joined records before the constraints are complete.
ForestInv ==
  /\ Partition
  /\ PinsKept
  /\ VetoesHold
  /\ stage # "merging" => pinned = comp
  /\ stage = "pinning" =>
       \A a, b \in Lead :
         {a, b} \in Pairs /\ loaded[{a, b}] = "same" => {a, b} \in pins \/ b \in comp[a]
  /\ HumanMergesHold

\* PinsAreHuman needs it of the rows that are not read, too.
Honest(row, S) ==
  row = EngineRow \/ ({row.a, row.b} \in Pairs /\ row.decision \in S[{row.a, row.b}])

LogInv ==
  /\ \A i \in DOMAIN log : Honest(log[i], [p \in Pairs |-> Saying(p)])
  /\ \A p \in Pairs : loaded[p] \in Saying(p) \cup {Unsaid}

IndInv == TypeOK /\ ForestInv /\ LogInv

-----------------------------------------------------------------------------
\* A pair is its lower and its higher lead.
LEMMA Ends ==
  ASSUME NEW p \in Pairs
  PROVE  Low(p) \in Lead /\ High(p) \in Lead /\ p = {Low(p), High(p)} /\ Low(p) # High(p)
<1>1. PICK a \in Lead, b \in Lead : p = {a, b} /\ a # b
  BY DEF Pairs
<1>2. a \in Nat /\ b \in Nat
  BY LeadAssumption
<1>3. CASE a < b
  BY <1>1, <1>2, <1>3 DEF Low, High
<1>4. CASE b < a
  BY <1>1, <1>2, <1>4 DEF Low, High
<1>. QED BY <1>1, <1>2, <1>3, <1>4

LEMMA PairOf == ASSUME NEW a \in Lead, NEW b \in Lead, a # b PROVE {a, b} \in Pairs
BY DEF Pairs

\* An order of a set of manual rows is a sequence of them.
ManualRow == [a : Lead, b : Lead, decision : Verdict]

LEMMA ManualRowsFinite == IsFiniteSet(ManualRow)
<1> DEFINE Key == (Lead \X Lead) \X Verdict
           f == [k \in Key |-> [a |-> k[1][1], b |-> k[1][2], decision |-> k[2]]]
<1>1. IsFiniteSet(Verdict)
  <2>1. IsFiniteSet({"same"} \cup {"distinct"})
    BY FS_Singleton, FS_AddElement
  <2>2. Verdict = {"same"} \cup {"distinct"}
    BY DEF Verdict
  <2>. QED BY <2>1, <2>2
<1>2. IsFiniteSet(Key)
  BY <1>1, LeadAssumption, FS_Product
<1>3. f \in Surjection(Key, ManualRow)
  <2>1. f \in [Key -> ManualRow]
    BY DEF ManualRow
  <2>2. ASSUME NEW r \in ManualRow PROVE \E k \in Key : f[k] = r
    <3>1. <<<<r.a, r.b>>, r.decision>> \in Key
      BY DEF ManualRow
    <3>2. f[<<<<r.a, r.b>>, r.decision>>] = r
      BY <3>1 DEF ManualRow
    <3>. QED BY <3>1, <3>2
  <2>. QED BY <2>1, <2>2 DEF Surjection
<1>. QED BY <1>2, <1>3, FS_Surjection

LEMMA OrdersAreSequences ==
  ASSUME NEW R \in SUBSET ManualRow, NEW s \in Orders(R)
  PROVE  s \in Seq(R)
<1>1. Cardinality(R) \in Nat
  BY ManualRowsFinite, FS_Subset, FS_CardinalityType
<1>. QED BY <1>1 DEF Orders

\* Recording rows leaves rows of the log and of the recorded ones only, and no
\* more than the limit.
LEMMA RecordFacts ==
  ASSUME NEW rows \in Seq(Row), log \in Seq(Row), Record(rows)
  PROVE  /\ log' \in Seq(Row)
         /\ Len(log') <= Keep
         /\ \A i \in DOMAIN log' : \/ \E j \in DOMAIN log : log'[i] = log[j]
                                   \/ \E j \in DOMAIN rows : log'[i] = rows[j]
<1> DEFINE all == log \o rows
<1>1. all \in Seq(Row) /\ Len(all) = Len(log) + Len(rows)
  OBVIOUS
<1>2. \A i \in 1..Len(all) : \/ \E j \in DOMAIN log : all[i] = log[j]
                             \/ \E j \in DOMAIN rows : all[i] = rows[j]
  <2>. SUFFICES ASSUME NEW i \in 1..Len(all)
                PROVE  \/ \E j \in DOMAIN log : all[i] = log[j]
                       \/ \E j \in DOMAIN rows : all[i] = rows[j]
    OBVIOUS
  <2>1. CASE i <= Len(log)
    <3>1. i \in DOMAIN log /\ all[i] = log[i]
      BY <2>1, <1>1
    <3>. QED BY <3>1
  <2>2. CASE i > Len(log)
    <3>1. i - Len(log) \in DOMAIN rows /\ all[i] = rows[i - Len(log)]
      BY <2>2, <1>1
    <3>. QED BY <3>1
  <2>. QED BY <2>1, <2>2, <1>1
<1>3. CASE Len(all) <= Keep
  BY <1>1, <1>2, <1>3, SMTT(30) DEF Record, Trimmed
<1>4. CASE ~(Len(all) <= Keep)
  <2> DEFINE first == Len(all) - Keep + 1
  <2>1. first \in 1..Len(all) /\ Keep \in Nat
    BY <1>1, <1>4, LogAssumption
  <2>2. log' = SubSeq(all, first, Len(all))
    BY <1>4 DEF Record, Trimmed
  <2>3. log' \in Seq(Row) /\ Len(log') = Keep
    BY <1>1, <2>1, <2>2
  <2>4. \A i \in 1..Keep : log'[i] = all[first + i - 1] /\ first + i - 1 \in 1..Len(all)
    BY <1>1, <2>1, <2>2
  <2>5. DOMAIN log' = 1..Keep
    BY <2>3
  <2>6. ASSUME NEW i \in DOMAIN log'
        PROVE  \/ \E j \in DOMAIN log : log'[i] = log[j]
               \/ \E j \in DOMAIN rows : log'[i] = rows[j]
    <3>1. log'[i] = all[first + i - 1] /\ first + i - 1 \in 1..Len(all)
      BY <2>4, <2>5
    <3> DEFINE k == first + i - 1
    <3>2. \/ \E j \in DOMAIN log : all[k] = log[j]
          \/ \E j \in DOMAIN rows : all[k] = rows[j]
      BY <3>1, <1>2
    <3>. QED BY <3>1, <3>2
  <2>. QED BY <2>1, <2>3, <2>6
<1>. QED BY <1>3, <1>4

\* What an override is: a decision some row of the log has for that pair.
LEMMA OverrideFacts ==
  ASSUME log \in Seq(Row), NEW p \in Pairs, Override(p) # Unsaid
  PROVE  \E i \in DOMAIN log : /\ log[i] # EngineRow
                               /\ {log[i].a, log[i].b} = p
                               /\ log[i].decision = Override(p)
<1>1. Low(p) \in Lead /\ High(p) \in Lead /\ p = {Low(p), High(p)}
  BY Ends
<1>2. \/ Override(p) \in Latest(High(p), Low(p))
      \/ Override(p) \in Latest(Low(p), High(p))
  BY DEF Override
<1>3. ASSUME NEW a \in Lead, NEW b \in Lead, Override(p) \in Latest(a, b)
      PROVE  \E i \in DOMAIN log : /\ log[i] # EngineRow
                                   /\ {log[i].a, log[i].b} = {a, b}
                                   /\ log[i].decision = Override(p)
  <2>1. PICK i \in DOMAIN log : log[i].a = a /\ log[i].b = b /\ log[i].decision = Override(p)
    BY <1>3 DEF Latest, At
  <2>2. a # 0
    BY LeadAssumption
  <2>. QED BY <2>1, <2>2 DEF EngineRow
<1>4. CASE Override(p) \in Latest(High(p), Low(p))
  <2>1. PICK i \in DOMAIN log : /\ log[i] # EngineRow
                                /\ {log[i].a, log[i].b} = {High(p), Low(p)}
                                /\ log[i].decision = Override(p)
    BY <1>1, <1>3, <1>4
  <2>2. {High(p), Low(p)} = p
    BY <1>1
  <2>. QED BY <2>1, <2>2
<1>5. CASE Override(p) \in Latest(Low(p), High(p))
  <2>1. PICK i \in DOMAIN log : /\ log[i] # EngineRow
                                /\ {log[i].a, log[i].b} = {Low(p), High(p)}
                                /\ log[i].decision = Override(p)
    BY <1>1, <1>3, <1>5
  <2>. QED BY <1>1, <2>1
<1>. QED BY <1>2, <1>4, <1>5

LEMMA OverrideType ==
  ASSUME log \in Seq(Row), NEW p \in Pairs
  PROVE  Override(p) \in Verdict \cup {Unsaid}
<1>1. CASE Override(p) = Unsaid
  BY <1>1
<1>2. CASE Override(p) # Unsaid
  <2>1. PICK i \in DOMAIN log : log[i] # EngineRow /\ log[i].decision = Override(p)
    BY <1>2, OverrideFacts
  <2>2. log[i] \in Row
    OBVIOUS
  <2>. QED BY <2>1, <2>2 DEF Row
<1>. QED BY <1>1, <1>2

-----------------------------------------------------------------------------
\* Human operations.

\* What Decide does to the log, whichever rows go first.
LEMMA DecideFacts ==
  ASSUME TypeOK, LogInv,
         NEW X \in SUBSET Lead, NEW Y \in SUBSET Lead, NEW d \in Verdict,
         X \cap Y = {}, Decide(X, Y, d)
  PROVE  TypeOK' /\ LogInv'
<1> DEFINE R == Rows(X, Y, d)
<1>1. PICK s \in Orders(R) : Record(s)
  BY DEF Decide
<1>2. R \in SUBSET ManualRow
  BY DEF Rows, ManualRow
<1>3. s \in Seq(R) /\ s \in Seq(Row)
  <2>1. s \in Seq(R)
    BY <1>1, <1>2, OrdersAreSequences
  <2>2. R \subseteq Row
    BY <1>2 DEF ManualRow, Row
  <2>. QED BY <2>1, <2>2
<1>4. /\ log' \in Seq(Row)
      /\ Len(log') <= Keep
      /\ \A i \in DOMAIN log' : \/ \E j \in DOMAIN log : log'[i] = log[j]
                                \/ \E j \in DOMAIN s : log'[i] = s[j]
  BY <1>1, <1>3, RecordFacts DEF TypeOK
<1>5. said' = [p \in Pairs |-> IF \E x \in X, y \in Y : p = {x, y}
                               THEN Append(said[p], d) ELSE said[p]]
  BY DEF Decide
<1>6. said' \in [Pairs -> Seq(Verdict)]
  BY <1>5 DEF TypeOK
<1>7. \A p \in Pairs : Saying(p) \subseteq Saying(p)'
  <2>. SUFFICES ASSUME NEW p \in Pairs, NEW i \in DOMAIN said[p]
                PROVE  \E j \in DOMAIN said'[p] : said'[p][j] = said[p][i]
    BY DEF Saying
  <2>1. said[p] \in Seq(Verdict)
    BY DEF TypeOK
  <2>2. CASE said'[p] = said[p]
    BY <2>2
  <2>3. CASE said'[p] = Append(said[p], d)
    <3>1. i \in DOMAIN said'[p] /\ said'[p][i] = said[p][i]
      BY <2>1, <2>3
    <3>. QED BY <3>1
  <2>. QED BY <1>5, <2>2, <2>3
<1>8. ASSUME NEW x \in X, NEW y \in Y
      PROVE  {x, y} \in Pairs /\ d \in Saying({x, y})'
  <2>1. {x, y} \in Pairs
    BY PairOf
  <2>2. said'[{x, y}] = Append(said[{x, y}], d) /\ said[{x, y}] \in Seq(Verdict)
    BY <1>5, <2>1 DEF TypeOK
  <2>3. Len(said[{x, y}]) + 1 \in DOMAIN said'[{x, y}]
        /\ said'[{x, y}][Len(said[{x, y}]) + 1] = d
    BY <2>2
  <2>. QED BY <2>1, <2>3 DEF Saying
<1>9. \A i \in DOMAIN log' : Honest(log'[i], [p \in Pairs |-> Saying(p)'])
  <2>. SUFFICES ASSUME NEW i \in DOMAIN log'
                PROVE  Honest(log'[i], [p \in Pairs |-> Saying(p)'])
    OBVIOUS
  <2>1. ASSUME NEW j \in DOMAIN log, log'[i] = log[j]
        PROVE  Honest(log'[i], [p \in Pairs |-> Saying(p)'])
    BY <2>1, <1>7 DEF LogInv, Honest
  <2>2. ASSUME NEW j \in DOMAIN s, log'[i] = s[j]
        PROVE  Honest(log'[i], [p \in Pairs |-> Saying(p)'])
    <3>1. s[j] \in R
      BY <1>3
    <3>2. PICK x \in X, y \in Y : s[j] = [a |-> x, b |-> y, decision |-> d]
      BY <3>1 DEF Rows
    <3>. QED BY <2>2, <3>2, <1>8 DEF Honest
  <2>. QED BY <1>4, <2>1, <2>2
<1>10. LogInv'
  BY <1>7, <1>9 DEF LogInv, Decide
<1>11. calls' \in 0..Calls
  BY LogAssumption DEF TypeOK, Decide
<1>12. UNCHANGED <<forest, stage, loaded>>
  BY DEF Decide
<1>. QED BY <1>4, <1>6, <1>10, <1>11, <1>12 DEF TypeOK, ForestType, forest

LEMMA HumanStep ==
  ASSUME IndInv, SplitCluster \/ MergeEntities \/ KeepSeparate
  PROVE  IndInv'
<1>1. PICK X \in SUBSET Lead, Y \in SUBSET Lead, d \in Verdict :
        X \cap Y = {} /\ Decide(X, Y, d)
  <2>1. CASE SplitCluster
    BY <2>1 DEF SplitCluster, Sides, Verdict
  <2>2. CASE MergeEntities
    BY <2>2 DEF MergeEntities, Sides, Verdict
  <2>3. CASE KeepSeparate
    <3>1. PICK a \in Lead, b \in Lead : a < b /\ Decide({a}, {b}, "distinct")
      BY <2>3 DEF KeepSeparate
    <3>2. {a} \cap {b} = {}
      BY <3>1, LeadAssumption
    <3>3. {a} \in SUBSET Lead /\ {b} \in SUBSET Lead /\ "distinct" \in Verdict
      BY DEF Verdict
    <3>. QED BY <3>1, <3>2, <3>3
  <2>. QED BY <2>1, <2>2, <2>3
<1>2. TypeOK' /\ LogInv'
  BY <1>1, DecideFacts DEF IndInv
<1>3. ForestInv'
  BY <1>1 DEF IndInv, ForestInv, Decide, forest, Partition, PinsKept, VetoesHold,
     HumanMergesHold
<1>. QED BY <1>2, <1>3 DEF IndInv

-----------------------------------------------------------------------------
\* A resolution run.

LEMMA LoadStep ==
  ASSUME IndInv, Load
  PROVE  IndInv'
<1> USE DEF IndInv
<1>1. \A p \in Pairs : Override(p) \in Verdict \cup {Unsaid}
  BY OverrideType DEF TypeOK
<1>2. \A p \in Pairs : Override(p) \in Saying(p) \cup {Unsaid}
  <2>. SUFFICES ASSUME NEW p \in Pairs, Override(p) # Unsaid
                PROVE  Override(p) \in Saying(p)
    OBVIOUS
  <2>1. PICK i \in DOMAIN log : /\ log[i] # EngineRow
                                /\ {log[i].a, log[i].b} = p
                                /\ log[i].decision = Override(p)
    BY OverrideFacts DEF TypeOK
  <2>. QED BY <2>1 DEF LogInv, Honest
<1>3. PICK seeds \in SUBSET Pairs : pins' = seeds \cup {p \in Pairs : Override(p) = "same"}
  BY DEF Load
<1>4. /\ stage' = "pinning"
      /\ loaded' = [p \in Pairs |-> Override(p)]
      /\ forbidden' = {p \in Pairs : Override(p) = "distinct"}
      /\ comp' = Singletons /\ pinned' = Singletons /\ edges' = {}
      /\ UNCHANGED <<log, said, calls>>
  BY DEF Load
<1>5. TypeOK'
  BY <1>1, <1>3, <1>4 DEF TypeOK, ForestType, Singletons
<1>6. LogInv'
  BY <1>2, <1>4 DEF LogInv, Saying
<1>7. ForestInv'
  BY <1>3, <1>4 DEF ForestInv, Partition, PinsKept, VetoesHold, HumanMergesHold, Singletons
<1>. QED BY <1>5, <1>6, <1>7

\* Joining two components keeps the components a partition and joins only
\* their members.
LEMMA JoinFacts ==
  ASSUME ForestType, Partition, NEW a \in Lead, NEW b \in Lead, comp' = Joined(a, b)
  PROVE  /\ comp' \in [Lead -> SUBSET Lead]
         /\ Partition'
         /\ \A l \in Lead : comp[l] \subseteq comp'[l]
         /\ b \in comp'[a] /\ a \in comp'[b]
         /\ \A x, y \in Lead :
              y \in comp'[x] => \/ y \in comp[x]
                                \/ x \in comp[a] /\ y \in comp[b]
                                \/ x \in comp[b] /\ y \in comp[a]
<1> DEFINE both == comp[a] \cup comp[b]
<1>1. both \in SUBSET Lead
  BY DEF ForestType
<1>2. comp' = [l \in Lead |-> IF l \in both THEN both ELSE comp[l]]
  BY DEF Joined
<1>3. comp' \in [Lead -> SUBSET Lead]
  BY <1>1, <1>2 DEF ForestType
<1>4. a \in both /\ b \in both
  BY DEF Partition
<1>5. \A l \in Lead : \A m \in comp[l] : m \in Lead /\ comp[m] = comp[l] /\ l \in comp[l]
  BY DEF ForestType, Partition
<1>6. \A l \in both : comp[l] \subseteq both
  BY <1>5
<1>7. \A l \in Lead \ both : comp[l] \cap both = {}
  BY <1>5
<1>8. Partition'
  BY <1>1, <1>2, <1>5, <1>6, <1>7 DEF Partition
<1>9. \A l \in Lead : comp[l] \subseteq comp'[l]
  BY <1>2, <1>6
<1>10. ASSUME NEW x \in Lead, NEW y \in Lead, y \in comp'[x]
       PROVE  \/ y \in comp[x]
              \/ x \in comp[a] /\ y \in comp[b]
              \/ x \in comp[b] /\ y \in comp[a]
  BY <1>2, <1>5, <1>10
<1>. QED BY <1>2, <1>3, <1>4, <1>8, <1>9, <1>10

LEMMA PinStep ==
  ASSUME IndInv, Pin
  PROVE  IndInv'
<1> USE DEF IndInv
<1>1. PICK a \in Lead, b \in Lead : PinSame(a, b)
  BY DEF Pin
<1>2. /\ stage = "pinning"
      /\ comp' = Joined(a, b) /\ pinned' = comp'
      /\ pins' = pins \ {{a, b}}
      /\ UNCHANGED <<forbidden, edges, log, stage, loaded, said, calls>>
  BY <1>1 DEF Pin, PinSame, JoinedByPin
<1>3. ForestType /\ Partition
  BY DEF TypeOK, ForestInv
<1>4. /\ comp' \in [Lead -> SUBSET Lead]
      /\ Partition'
      /\ \A l \in Lead : comp[l] \subseteq comp'[l]
      /\ b \in comp'[a] /\ a \in comp'[b]
  BY <1>2, <1>3, JoinFacts
<1>5. TypeOK'
  BY <1>2, <1>4 DEF TypeOK, ForestType
<1>6. LogInv'
  BY <1>2 DEF LogInv, Saying
<1>7. \A x, y \in Lead :
        {x, y} \in Pairs /\ loaded'[{x, y}] = "same" => {x, y} \in pins' \/ y \in comp'[x]
  <2>. SUFFICES ASSUME NEW x \in Lead, NEW y \in Lead,
                       {x, y} \in Pairs, loaded[{x, y}] = "same", {x, y} \notin pins'
                PROVE  y \in comp'[x]
    BY <1>2
  <2>1. {x, y} \in pins \/ y \in comp[x]
    BY <1>2 DEF ForestInv
  <2>2. CASE y \in comp[x]
    BY <2>2, <1>4
  <2>3. CASE {x, y} \in pins
    <3>1. {x, y} = {a, b}
      BY <2>3, <1>2
    <3>2. (x = a /\ y = b) \/ (x = b /\ y = a)
      BY <3>1, <2>3 DEF Pairs, TypeOK, ForestType
    <3>. QED BY <3>2, <1>4
  <2>. QED BY <2>1, <2>2, <2>3
<1>8. PinsKept' /\ VetoesHold' /\ HumanMergesHold'
  BY <1>2 DEF PinsKept, VetoesHold, HumanMergesHold
<1>. QED BY <1>2, <1>4, <1>5, <1>6, <1>7, <1>8 DEF ForestInv

LEMMA ClassifyStep ==
  ASSUME IndInv, Classify
  PROVE  IndInv'
<1> USE DEF IndInv
<1>1. PICK E \in SUBSET Edge, hard \in SUBSET Pairs :
        edges' = E /\ forbidden' = forbidden \cup hard
  BY DEF Classify
<1>2. /\ stage = "pinning" /\ pins = {} /\ stage' = "merging"
      /\ UNCHANGED <<comp, pinned, pins, log, loaded, said, calls>>
  BY DEF Classify
<1>3. TypeOK'
  BY <1>1, <1>2 DEF TypeOK, ForestType
<1>4. LogInv'
  BY <1>2 DEF LogInv, Saying
<1>5. pinned = comp
  BY <1>2 DEF ForestInv
<1>6. ForestInv'
  BY <1>1, <1>2, <1>5 DEF ForestInv, Partition, PinsKept, VetoesHold, HumanMergesHold
<1>. QED BY <1>3, <1>4, <1>6

LEMMA MergeStep ==
  ASSUME IndInv, Merge
  PROVE  IndInv'
<1> USE DEF IndInv
<1>1. PICK e \in edges : Consider(e)
  BY DEF Merge
<1>2. PICK a \in e.pair, b \in e.pair :
        /\ a # b
        /\ comp' = IF b \notin comp[a] /\ MayJoin(e, a, b) /\ ~WouldViolate(a, b)
                   THEN Joined(a, b) ELSE comp
  BY <1>1 DEF Consider
<1>3. a \in Lead /\ b \in Lead
  BY <1>1 DEF TypeOK, ForestType, Edge, Pairs
<1>4. /\ stage = "merging" /\ edges' = edges \ {e}
      /\ UNCHANGED <<pinned, pins, forbidden, log, stage, loaded, said, calls>>
  BY <1>1 DEF Merge, Consider
<1>5. ForestType /\ Partition
  BY DEF TypeOK, ForestInv
<1>6. LogInv'
  BY <1>4 DEF LogInv, Saying
<1>7. CASE comp' = comp
  BY <1>4, <1>6, <1>7
     DEF TypeOK, ForestType, ForestInv, Partition, PinsKept, VetoesHold, HumanMergesHold
<1>8. CASE comp' = Joined(a, b) /\ ~WouldViolate(a, b)
  <2>1. /\ comp' \in [Lead -> SUBSET Lead]
        /\ Partition'
        /\ \A l \in Lead : comp[l] \subseteq comp'[l]
        /\ \A x, y \in Lead :
              y \in comp'[x] => \/ y \in comp[x]
                                \/ x \in comp[a] /\ y \in comp[b]
                                \/ x \in comp[b] /\ y \in comp[a]
    BY <1>3, <1>5, <1>8, JoinFacts
  <2>2. \A x \in comp[a] : \A y \in comp[b] : {x, y} \notin forbidden /\ {y, x} \notin forbidden
    <3>1. \A x, y : {x, y} = {y, x}
      OBVIOUS
    <3>. QED BY <1>8, <3>1 DEF WouldViolate
  <2>3. VetoesHold'
    BY <2>1, <2>2, <1>4 DEF ForestInv, VetoesHold
  <2>4. PinsKept' /\ HumanMergesHold'
    BY <2>1, <1>4 DEF ForestInv, PinsKept, HumanMergesHold
  <2>5. TypeOK'
    BY <2>1, <1>4 DEF TypeOK, ForestType
  <2>. QED BY <2>1, <2>3, <2>4, <2>5, <1>4, <1>6 DEF ForestInv
<1>. QED BY <1>2, <1>7, <1>8

LEMMA LogRunStep ==
  ASSUME IndInv, LogRun
  PROVE  IndInv'
<1> USE DEF IndInv
<1>1. PICK P \in SUBSET Loggable : \E s \in Orders({Relog(p) : p \in P}) :
        Record(s) \/ Record(Append(s, EngineRow))
  BY DEF LogRun
<1> DEFINE R == {Relog(p) : p \in P}
<1>2. PICK s \in Orders(R) : Record(s) \/ Record(Append(s, EngineRow))
  BY <1>1
<1>3. \A p \in P : /\ Relog(p) \in ManualRow
                   /\ {Relog(p).a, Relog(p).b} = p
                   /\ p \in Pairs
                   /\ Relog(p).decision \in Saying(p)
  <2>. SUFFICES ASSUME NEW p \in P
                PROVE  /\ Relog(p) \in ManualRow
                       /\ {Relog(p).a, Relog(p).b} = p
                       /\ p \in Pairs
                       /\ Relog(p).decision \in Saying(p)
    OBVIOUS
  <2>1. p \in Pairs /\ loaded[p] # Unsaid
    BY DEF Loggable
  <2>2. loaded[p] \in Verdict /\ loaded[p] \in Saying(p)
    BY <2>1 DEF TypeOK, LogInv
  <2>. QED BY <2>1, <2>2, Ends DEF Relog, ManualRow
<1>4. s \in Seq(R) /\ s \in Seq(Row)
  <2>1. R \in SUBSET ManualRow /\ R \subseteq Row
    BY <1>3 DEF ManualRow, Row
  <2>2. s \in Seq(R)
    BY <2>1, <1>2, OrdersAreSequences
  <2>. QED BY <2>1, <2>2
<1>5. EngineRow \in Row
  BY DEF Row
<1>6. PICK rows \in Seq(Row) :
        /\ Record(rows)
        /\ \A i \in DOMAIN rows : rows[i] = EngineRow \/ rows[i] \in R
  <2>1. CASE Record(s)
    BY <2>1, <1>4
  <2>2. CASE Record(Append(s, EngineRow))
    <3>1. Append(s, EngineRow) \in Seq(Row)
      BY <1>4, <1>5
    <3>2. \A i \in DOMAIN Append(s, EngineRow) :
            Append(s, EngineRow)[i] = EngineRow \/ Append(s, EngineRow)[i] \in R
      BY <1>4
    <3>. QED BY <2>2, <3>1, <3>2
  <2>. QED BY <1>2, <2>1, <2>2
<1>7. /\ log' \in Seq(Row)
      /\ Len(log') <= Keep
      /\ \A i \in DOMAIN log' : \/ \E j \in DOMAIN log : log'[i] = log[j]
                                \/ \E j \in DOMAIN rows : log'[i] = rows[j]
  BY <1>6, RecordFacts DEF TypeOK
<1>8. \A r \in R : Honest(r, [p \in Pairs |-> Saying(p)])
  <2>. SUFFICES ASSUME NEW p \in P PROVE Honest(Relog(p), [q \in Pairs |-> Saying(q)])
    OBVIOUS
  <2>2. [q \in Pairs |-> Saying(q)][{Relog(p).a, Relog(p).b}] = Saying(p)
    BY <1>3
  <2>3. Relog(p).decision \in [q \in Pairs |-> Saying(q)][{Relog(p).a, Relog(p).b}]
    BY <1>3, <2>2
  <2>4. {Relog(p).a, Relog(p).b} \in Pairs
    BY <1>3
  <2>. QED BY <2>3, <2>4 DEF Honest
<1>9. \A i \in DOMAIN log' : Honest(log'[i], [p \in Pairs |-> Saying(p)])
  <2>. SUFFICES ASSUME NEW i \in DOMAIN log'
                PROVE  Honest(log'[i], [p \in Pairs |-> Saying(p)])
    OBVIOUS
  <2>1. CASE \E j \in DOMAIN log : log'[i] = log[j]
    BY <2>1 DEF LogInv
  <2>2. CASE \E j \in DOMAIN rows : log'[i] = rows[j]
    BY <2>2, <1>6, <1>8 DEF Honest
  <2>. QED BY <1>7, <2>1, <2>2
<1>10. /\ stage' = "idle" /\ loaded' = [p \in Pairs |-> Unsaid]
       /\ ForestDropped /\ UNCHANGED <<said, calls>>
  BY DEF LogRun
<1>11. TypeOK'
  BY <1>7, <1>10 DEF TypeOK, ForestType, ForestDropped, Singletons
<1>12. LogInv'
  BY <1>9, <1>10 DEF LogInv, Saying
<1>13. ForestInv'
  BY <1>10 DEF ForestInv, ForestDropped, Singletons, Partition, PinsKept, VetoesHold,
     HumanMergesHold
<1>. QED BY <1>11, <1>12, <1>13

-----------------------------------------------------------------------------
\* Every reachable state satisfies the inductive invariant.
THEOREM DecisionsInvariant == Spec => []IndInv
<1>1. Init => IndInv
  <2>. SUFFICES ASSUME Init PROVE IndInv
    OBVIOUS
  <2>1. TypeOK
    BY LogAssumption DEF Init, TypeOK, ForestInit, ForestType, Singletons
  <2>2. ForestInv
    BY DEF Init, ForestInit, ForestInv, Singletons, Partition, PinsKept, VetoesHold,
       HumanMergesHold
  <2>3. LogInv
    BY DEF Init, LogInv
  <2>. QED BY <2>1, <2>2, <2>3 DEF IndInv
<1>2. IndInv /\ [Next]_vars => IndInv'
  <2>. SUFFICES ASSUME IndInv, [Next]_vars PROVE IndInv'
    OBVIOUS
  <2>1. CASE UNCHANGED vars
    <3>1. /\ UNCHANGED <<comp, pinned, pins, forbidden, edges>>
          /\ UNCHANGED <<log, stage, loaded, said, calls>>
      BY <2>1 DEF vars, forest
    <3>2. TypeOK'
      BY <3>1 DEF IndInv, TypeOK, ForestType
    <3>3. ForestInv'
      BY <3>1 DEF IndInv, ForestInv, Partition, PinsKept, VetoesHold, HumanMergesHold
    <3>4. LogInv'
      BY <3>1 DEF IndInv, LogInv, Saying
    <3>. QED BY <3>2, <3>3, <3>4 DEF IndInv
  <2>2. CASE Next
    BY <2>2, HumanStep, LoadStep, PinStep, ClassifyStep, MergeStep, LogRunStep DEF Next
  <2>. QED BY <2>1, <2>2
<1>. QED BY <1>1, <1>2, PTL DEF Spec

\* Type correctness: the log keeps its limit whatever is recorded.
THEOREM DecisionsTypeOK == Spec => []TypeOK
<1>1. IndInv => TypeOK
  BY DEF IndInv
<1>. QED BY <1>1, DecisionsInvariant, PTL

\* ConstraintClusterer never merges across a must-not-link constraint, in any
\* order of the edges and for any number of records.
THEOREM ConstraintsHold == Spec => []VetoesHold
<1>1. IndInv => VetoesHold
  BY DEF IndInv, ForestInv
<1>. QED BY <1>1, DecisionsInvariant, PTL

\* A merge a human decided holds in every run that has read it.
THEOREM HumanMergesAreKept == Spec => []HumanMergesHold
<1>1. IndInv => HumanMergesHold
  BY DEF IndInv, ForestInv
<1>. QED BY <1>1, DecisionsInvariant, PTL

\* No verdict of the engine becomes a pin.
THEOREM PinsComeFromHumans == Spec => []PinsAreHuman
<1>1. IndInv => PinsAreHuman
  <2>. SUFFICES ASSUME IndInv, NEW p \in Pairs
                PROVE  {Override(p), loaded[p]} \subseteq Saying(p) \cup {Unsaid}
    BY DEF PinsAreHuman
  <2>1. loaded[p] \in Saying(p) \cup {Unsaid}
    BY DEF IndInv, LogInv
  <2>2. ASSUME Override(p) # Unsaid PROVE Override(p) \in Saying(p)
    <3>1. PICK i \in DOMAIN log : /\ log[i] # EngineRow
                                  /\ {log[i].a, log[i].b} = p
                                  /\ log[i].decision = Override(p)
      BY <2>2, OverrideFacts DEF IndInv, TypeOK
    <3>. QED BY <3>1 DEF IndInv, LogInv, Honest
  <2>. QED BY <2>1, <2>2
<1>. QED BY <1>1, DecisionsInvariant, PTL

-----------------------------------------------------------------------------
\* Scores.

LEMMA AtMostTwo ==
  ASSUME NEW n \in Nat
  PROVE  Min2(n, 2) \in 0..2 /\ (n # 0 => Min2(n, 2) >= 1)
  BY DEF Min2

\* Links count once or twice, if there are any.
LEMMA LinksCounted ==
  ASSUME NEW r, IsLead(r)
  PROVE  Min2(Len(r.links), 2) \in 0..2 /\ (r.links # <<>> => Min2(Len(r.links), 2) >= 1)
  <1>1. Len(r.links) \in Nat /\ (r.links = <<>> <=> Len(r.links) = 0)
    BY DEF IsLead
  <1>. QED  BY <1>1, AtMostTwo

\* The channel flags of a lead are what the factors look at.
LEMMA FlagsOfLead ==
  ASSUME NEW r
  PROVE  /\ "website" \in ChannelFlags(r) <=> r.website # None
         /\ "ssl" \in ChannelFlags(r) <=> r.website # None /\ r.website.secure
         /\ "phone" \in ChannelFlags(r) <=> r.phone # None
         /\ "mobile" \in ChannelFlags(r) <=> r.phone # None /\ HasMobile(r)
         /\ "whatsapp" \in ChannelFlags(r) <=> r.phone # None /\ HasMobile(r)
         /\ "email" \in ChannelFlags(r) <=> r.email # None
         /\ "social" \in ChannelFlags(r) <=> r.links # <<>>
         /\ "address" \in ChannelFlags(r) <=> Standing(r)
         /\ "geo" \in ChannelFlags(r) <=> r.place # None
  BY DEF ChannelFlags, Standing

\* score_batch as arithmetic on what a lead has.
LEMMA PriorityOfLead ==
  ASSUME NEW r
  PROVE  /\ Health(r) =
              Min2(100, 10 + IfElse0(r.website # None, 35 + IfElse0(r.website.secure, 10))
                           + IfElse0(r.phone # None, 15) + IfElse0(r.email # None, 10)
                           + IfElse0(Standing(r), 5)
                           + IfElse0(r.links # <<>>, 10 + Min2(Len(r.links), 2) * 5))
         /\ Priority(r) =
              Min2(10000,
                   IfElse0(r.phone # None, 1500)
                   + IfElse0(r.phone # None /\ HasMobile(r), 1000)
                   + IfElse0(r.website # None, 1000)
                   + IfElse0(r.phone # None /\ HasMobile(r), 500)
                   + IfElse0(r.email # None, 500) + IfElse0(r.links # <<>>, 500)
                   + IfElse0(Standing(r), 500) + IfElse0(r.place # None, 500)
                   + (IfElse0(Reached(r) /\ r.website = None, 1500)
                      + IfElse0(Reached(r) /\ ~Standing(r) /\ r.place = None, 1000))
                   + (100 - Health(r)) * 25 + Freshness[r.age + 1])
  <1>. DEFINE flags == ChannelFlags(r)
  <1>1. Contactable(flags) <=> Reached(r)
    BY FlagsOfLead DEF Contactable, Reached
  <1>2. flags \cap {"address", "geo"} = {} <=> ~Standing(r) /\ r.place = None
    BY FlagsOfLead
  <1>. HIDE DEF flags
  <1>. QED
    BY <1>1, <1>2, FlagsOfLead, SMTT(30)
       DEF Health, Priority, FlagHealth, FlagPoints, FlagOpportunity, IfElse0, flags

\* Rounding to a tenth of a point is off by half a tenth at most.
LEMMA RoundedNear ==
  ASSUME NEW n \in Nat
  PROVE  Rounded(n) \in Int /\ Rounded(n) - n \in -5..5
  BY DEF Rounded, IfElse0

LEMMA CapOfHealth ==
  ASSUME NEW n \in Int
  PROVE  Min2(100, n) = (IF n > 100 THEN 100 ELSE n)
  BY DEF Min2

LEMMA CapOfScore ==
  ASSUME NEW n \in Int, n <= 10000
  PROVE  Min2(10000, n) = n
  BY DEF Min2

\* A lead in numbers: which channels it has, and what its links are worth.
Bit(c)  == IF c THEN 1 ELSE 0
Tel(r)  == Bit(r.phone # None)
Mob(r)  == Bit(r.phone # None /\ HasMobile(r))
Web(r)  == Bit(r.website # None)
Tls(r)  == Bit(r.website # None /\ r.website.secure)
Mail(r) == Bit(r.email # None)
Soc(r)  == Bit(r.links # <<>>)
Adr(r)  == Bit(Standing(r))
Geo(r)  == Bit(r.place # None)
Link(r) == IfElse0(r.links # <<>>, 10 + Min2(Len(r.links), 2) * 5)

Channels(t, w, x, e, a, k) == 10 + 35 * w + 10 * x + 15 * t + 10 * e + 5 * a + k

Chances(t, w, e, a, g) ==
  (IF (t = 1 \/ e = 1) /\ w = 0 THEN 1500 ELSE 0)
  + (IF (t = 1 \/ e = 1) /\ a = 0 /\ g = 0 THEN 1000 ELSE 0)

Points(t, m, w, e, l, a, g) ==
  1500 * t + 1500 * m + 1000 * w + 500 * e + 500 * l + 500 * a + 500 * g
  + Chances(t, w, e, a, g)

LeadChannels(r) == Channels(Tel(r), Web(r), Tls(r), Mail(r), Adr(r), Link(r))
LeadPoints(r)   == Points(Tel(r), Mob(r), Web(r), Mail(r), Soc(r), Adr(r), Geo(r))

LEMMA BitsOfLead ==
  ASSUME NEW r, IsLead(r)
  PROVE  /\ Tel(r) \in 0..1 /\ Mob(r) \in 0..1 /\ Web(r) \in 0..1 /\ Tls(r) \in 0..1
         /\ Mail(r) \in 0..1 /\ Soc(r) \in 0..1 /\ Adr(r) \in 0..1 /\ Geo(r) \in 0..1
         /\ Mob(r) <= Tel(r) /\ Tls(r) <= Web(r)
         /\ Link(r) \in 0..20 /\ (Soc(r) = 1 => Link(r) >= 15)
  <1>1. PICK n \in 0..2 : n = Min2(Len(r.links), 2) /\ (r.links # <<>> => n >= 1)
    BY LinksCounted
  <1>2. Link(r) \in 0..20 /\ (Soc(r) = 1 => Link(r) >= 15)
    BY <1>1, SMTT(30) DEF Link, Soc, Bit, IfElse0
  <1>. QED  BY <1>2, SMTT(30) DEF Tel, Mob, Web, Tls, Mail, Soc, Adr, Geo, Bit

LEMMA FreshnessOfLead ==
  ASSUME NEW r, IsLead(r)
  PROVE  \E f \in Nat : f = Freshness[r.age + 1] /\ f <= 1500
  BY DEF IsLead, Freshness

LEMMA SumsBounded ==
  ASSUME NEW t \in 0..1, NEW m \in 0..1, NEW w \in 0..1, NEW x \in 0..1, NEW e \in 0..1,
         NEW l \in 0..1, NEW a \in 0..1, NEW g \in 0..1, NEW k \in 0..20, NEW h \in 10..100,
         l = 1 => k >= 15,
         h = (IF Channels(t, w, x, e, a, k) > 100 THEN 100 ELSE Channels(t, w, x, e, a, k))
  PROVE  /\ Points(t, m, w, e, l, a, g) \in Nat
         /\ Points(t, m, w, e, l, a, g) + (100 - h) * 25 <= 8500
  BY DEF Points, Channels, Chances

\* The health of a lead, as a sum of its channels ...
LEMMA HealthInNumbers ==
  ASSUME NEW r, IsLead(r)
  PROVE  /\ Health(r) \in 10..100
         /\ Health(r) = (IF LeadChannels(r) > 100 THEN 100 ELSE LeadChannels(r))
  <1>1. IfElse0(r.website # None, 35 + IfElse0(r.website.secure, 10))
          = 35 * Web(r) + 10 * Tls(r)
    BY DEF IfElse0, Web, Tls, Bit
  <1>2. /\ IfElse0(r.phone # None, 15) = 15 * Tel(r)
        /\ IfElse0(r.email # None, 10) = 10 * Mail(r)
        /\ IfElse0(Standing(r), 5) = 5 * Adr(r)
    BY DEF IfElse0, Tel, Mail, Adr, Bit
  <1>3. Health(r) = Min2(100, 10 + (35 * Web(r) + 10 * Tls(r)) + 15 * Tel(r) + 10 * Mail(r)
                                + 5 * Adr(r) + Link(r))
    BY <1>1, <1>2, PriorityOfLead DEF Link
  <1>4. /\ 10 + (35 * Web(r) + 10 * Tls(r)) + 15 * Tel(r) + 10 * Mail(r) + 5 * Adr(r) + Link(r)
             = LeadChannels(r)
        /\ LeadChannels(r) \in 10..200
    BY BitsOfLead DEF LeadChannels, Channels
  <1>. QED  BY <1>3, <1>4, CapOfHealth

LEMMA WeightsOfLead ==
  ASSUME NEW r, IsLead(r)
  PROVE  /\ IfElse0(r.phone # None, 1500) = 1500 * Tel(r)
         /\ IfElse0(r.phone # None /\ HasMobile(r), 1000) = 1000 * Mob(r)
         /\ IfElse0(r.phone # None /\ HasMobile(r), 500) = 500 * Mob(r)
         /\ IfElse0(r.website # None, 1000) = 1000 * Web(r)
         /\ IfElse0(r.email # None, 500) = 500 * Mail(r)
         /\ IfElse0(r.links # <<>>, 500) = 500 * Soc(r)
         /\ IfElse0(Standing(r), 500) = 500 * Adr(r)
         /\ IfElse0(r.place # None, 500) = 500 * Geo(r)
         /\ IfElse0(Reached(r) /\ r.website = None, 1500)
              + IfElse0(Reached(r) /\ ~Standing(r) /\ r.place = None, 1000)
            = Chances(Tel(r), Web(r), Mail(r), Adr(r), Geo(r))
         /\ IfElse0(Reached(r) /\ r.website = None, 1500) \in Nat
         /\ IfElse0(Reached(r) /\ ~Standing(r) /\ r.place = None, 1000) \in Nat
  BY DEF IfElse0, Tel, Mob, Web, Mail, Soc, Adr, Geo, Bit, Reached, Chances

\* ... and its priority; no lead collects enough points for the cap to bite.
LEMMA PriorityInNumbers ==
  ASSUME NEW r, IsLead(r)
  PROVE  /\ LeadPoints(r) \in Nat
         /\ Priority(r) = LeadPoints(r) + (100 - Health(r)) * 25 + Freshness[r.age + 1]
  <1>. DEFINE o == Chances(Tel(r), Web(r), Mail(r), Adr(r), Geo(r))
              sum == 1500 * Tel(r) + 1000 * Mob(r) + 1000 * Web(r) + 500 * Mob(r) + 500 * Mail(r)
                       + 500 * Soc(r) + 500 * Adr(r) + 500 * Geo(r) + o
                       + (100 - Health(r)) * 25 + Freshness[r.age + 1]
  <1>1. Priority(r) = Min2(10000, sum)
    BY WeightsOfLead, PriorityOfLead
  <1>2. /\ LeadPoints(r) \in Nat
        /\ LeadPoints(r) + (100 - Health(r)) * 25 <= 8500
    <2>. DEFINE t == Tel(r)  m == Mob(r)  w == Web(r)  x == Tls(r)  e == Mail(r)
                l == Soc(r)  a == Adr(r)  g == Geo(r)  k == Link(r)  h == Health(r)
    <2>1. /\ t \in 0..1 /\ m \in 0..1 /\ w \in 0..1 /\ x \in 0..1 /\ e \in 0..1
          /\ l \in 0..1 /\ a \in 0..1 /\ g \in 0..1 /\ k \in 0..20 /\ h \in 10..100
          /\ l = 1 => k >= 15
      BY BitsOfLead, HealthInNumbers
    <2>2. h = (IF Channels(t, w, x, e, a, k) > 100 THEN 100 ELSE Channels(t, w, x, e, a, k))
      BY HealthInNumbers DEF LeadChannels
    <2>3. LeadPoints(r) = Points(t, m, w, e, l, a, g)
      BY DEF LeadPoints
    <2>. HIDE DEF t, m, w, x, e, l, a, g, k, h
    <2>4. /\ Points(t, m, w, e, l, a, g) \in Nat
          /\ Points(t, m, w, e, l, a, g) + (100 - h) * 25 <= 8500
      BY <2>1, <2>2 DEF Points, Channels, Chances
    <2>. QED  BY <2>3, <2>4 DEF h
  <1>3. o \in Nat
    BY DEF Chances
  <1>. HIDE DEF o
  <1>4. sum = LeadPoints(r) + (100 - Health(r)) * 25 + Freshness[r.age + 1]
    BY <1>3, BitsOfLead, HealthInNumbers DEF LeadPoints, Points, o
  <1>. HIDE DEF sum
  <1>5. sum \in Int /\ sum <= 10000
    <2>1. PICK n \in Nat : n = LeadPoints(r)
      BY <1>2
    <2>2. PICK h \in 10..100 : h = Health(r)
      BY HealthInNumbers
    <2>3. PICK f \in Nat : f = Freshness[r.age + 1] /\ f <= 1500
      BY FreshnessOfLead
    <2>4. sum = n + (100 - h) * 25 + f /\ n + (100 - h) * 25 <= 8500
      BY <1>2, <1>4, <2>1, <2>2, <2>3
    <2>5. f <= 1500
      BY <2>3
    <2>. HIDE <1>2, <1>4
    <2>. QED  BY <2>4, <2>5
  <1>. QED  BY <1>1, <1>2, <1>4, <1>5, CapOfScore

\* The twelve factors and the score are the same sum but for the rounding.
LEMMA FactorsAddUp ==
  ASSUME NEW r, IsLead(r)
  PROVE  AddsUp(r)
  <1>1. PICK f \in Nat : f = Freshness[r.age + 1] /\ f <= 1500
    BY FreshnessOfLead
  <1>2. PICK h \in 10..100 : h = Health(r)
    BY HealthInNumbers
  <1>3. PICK x \in Int : x = Rounded((100 - h) * 25) /\ x - (100 - h) * 25 \in -5..5
    BY RoundedNear
  <1>4. PICK n \in Nat : n = LeadPoints(r)
    BY PriorityInNumbers
  <1>. DEFINE o1 == IfElse0(Reached(r) /\ r.website = None, 1500)
              o2 == IfElse0(Reached(r) /\ ~Standing(r) /\ r.place = None, 1000)
  <1>5. Total(Factors(r)) =
          1500 * Tel(r) + 1000 * Mob(r) + 500 * Mob(r) + 500 * Mail(r) + 1000 * Web(r)
            + 500 * Soc(r) + 500 * Adr(r) + 500 * Geo(r) + o1 + o2 + x + f
    BY <1>1, <1>2, <1>3, WeightsOfLead, SMTT(30) DEF Total, Factors
  <1>6. o1 \in Nat /\ o2 \in Nat /\ o1 + o2 = Chances(Tel(r), Web(r), Mail(r), Adr(r), Geo(r))
    BY WeightsOfLead
  <1>. HIDE DEF o1, o2
  <1>7. Total(Factors(r)) = n + x + f
    <2>. DEFINE t == Tel(r)  m == Mob(r)  w == Web(r)  e == Mail(r)
                l == Soc(r)  a == Adr(r)  g == Geo(r)
    <2>1. /\ t \in 0..1 /\ m \in 0..1 /\ w \in 0..1 /\ e \in 0..1
          /\ l \in 0..1 /\ a \in 0..1 /\ g \in 0..1
      BY DEF Tel, Mob, Web, Mail, Soc, Adr, Geo, Bit
    <2>2. n = 1500 * t + 1500 * m + 1000 * w + 500 * e + 500 * l + 500 * a + 500 * g
                + (o1 + o2)
      BY <1>4, <1>6 DEF LeadPoints, Points
    <2>3. Total(Factors(r)) = 1500 * t + 1000 * m + 500 * m + 500 * e + 1000 * w
                                + 500 * l + 500 * a + 500 * g + o1 + o2 + x + f
      BY <1>5
    <2>. HIDE DEF t, m, w, e, l, a, g
    <2>. QED  BY <1>6, <2>1, <2>2, <2>3
  <1>8. Priority(r) = n + (100 - h) * 25 + f
    BY <1>1, <1>2, <1>4, PriorityInNumbers
  <1>. QED  BY <1>3, <1>7, <1>8 DEF AddsUp

\* Losing the telephone number or the e-mail address costs more than the
\* opportunity it opens.
LEMMA ReachIsPaid ==
  ASSUME NEW r, IsLead(r)
  PROVE  PaysToReach(r)
  <1>1. ASSUME NEW s \in {[r EXCEPT !.phone = None], [r EXCEPT !.email = None]}
        PROVE  Priority(s) <= Priority(r)
    <2>1. /\ s.website = r.website /\ s.links = r.links /\ s.address = r.address
          /\ s.place = r.place /\ s.age = r.age /\ s.details = r.details
          /\ (s.phone = None /\ s.email = r.email) \/ (s.phone = r.phone /\ s.email = None)
          /\ DOMAIN s = DOMAIN r
      BY DEF IsLead
    <2>2. IsLead(s)
      BY <2>1 DEF IsLead
    <2>3. /\ Web(s) = Web(r) /\ Tls(s) = Tls(r) /\ Soc(s) = Soc(r) /\ Adr(s) = Adr(r)
          /\ Geo(s) = Geo(r) /\ Link(s) = Link(r) /\ Freshness[s.age + 1] = Freshness[r.age + 1]
      BY <2>1 DEF Web, Tls, Soc, Adr, Geo, Link, Standing
    <2>4. \/ Tel(s) = 0 /\ Mob(s) = 0 /\ Mail(s) = Mail(r)
          \/ Tel(s) = Tel(r) /\ Mob(s) = Mob(r) /\ Mail(s) = 0
      BY <2>1 DEF Tel, Mob, Mail, Bit, HasMobile
    <2>5. /\ LeadChannels(s) >= LeadChannels(r) - 15 * Tel(r) - 10 * Mail(r)
          /\ Tel(s) = Tel(r) => LeadChannels(s) >= LeadChannels(r) - 10 * Mail(r)
          /\ Mail(s) = Mail(r) => LeadChannels(s) >= LeadChannels(r) - 15 * Tel(r)
          /\ LeadChannels(r) \in Int /\ LeadChannels(s) \in Int
      BY <2>2, <2>3, <2>4, BitsOfLead, SMTT(30) DEF LeadChannels, Channels
    <2>6. PICK h \in 10..100, i \in 10..100 : h = Health(r) /\ i = Health(s)
      BY <2>2, HealthInNumbers
    <2>7. /\ Tel(s) = Tel(r) => i >= h - 10 * Mail(r)
          /\ Mail(s) = Mail(r) => i >= h - 15 * Tel(r)
      BY <2>2, <2>5, <2>6, BitsOfLead, HealthInNumbers, SMTT(30)
    <2>8. /\ Tel(s) = Tel(r) /\ Mob(s) = Mob(r) /\ Mail(s) = 0 =>
               LeadPoints(r) - LeadPoints(s) >= 250 * Mail(r)
          /\ Tel(s) = 0 /\ Mob(s) = 0 /\ Mail(s) = Mail(r) =>
               LeadPoints(r) - LeadPoints(s) >= 375 * Tel(r)
      BY <2>2, <2>3, BitsOfLead, SMTT(30) DEF LeadPoints, Points, Chances
    <2>9. PICK m \in Nat : m = LeadPoints(r)
      BY PriorityInNumbers
    <2>10. PICK n \in Nat : n = LeadPoints(s)
      BY <2>2, PriorityInNumbers
    <2>11. PICK f \in Nat : f = Freshness[r.age + 1] /\ f <= 1500
      BY FreshnessOfLead
    <2>. Tel(r) \in 0..1 /\ Mail(r) \in 0..1
      BY DEF Tel, Mail, Bit
    <2>12. PICK t \in 0..1 : t = Tel(r)
      OBVIOUS
    <2>13. PICK e \in 0..1 : e = Mail(r)
      OBVIOUS
    <2>14. /\ Priority(r) = m + (100 - h) * 25 + f
           /\ Priority(s) = n + (100 - i) * 25 + f
      BY <2>2, <2>3, <2>6, <2>9, <2>10, <2>11, PriorityInNumbers
    <2>15. CASE Tel(s) = 0 /\ Mob(s) = 0 /\ Mail(s) = Mail(r)
      <3>1. i >= h - 15 * t /\ m - n >= 375 * t
        BY <2>7, <2>8, <2>9, <2>10, <2>12, <2>15
      <3>2. PICK y \in Int, z \in Int : y = (100 - i) * 25 /\ z = (100 - h) * 25
        OBVIOUS
      <3>3. y - z <= 375 * t /\ m - n >= 375 * t
        BY <3>1, <3>2
      <3>4. n + y + f <= m + z + f
        BY <3>3
      <3>. QED  BY <2>14, <3>2, <3>4
    <2>16. CASE Tel(s) = Tel(r) /\ Mob(s) = Mob(r) /\ Mail(s) = 0
      <3>1. i >= h - 10 * e /\ m - n >= 250 * e
        BY <2>7, <2>8, <2>9, <2>10, <2>13, <2>16
      <3>2. PICK y \in Int, z \in Int : y = (100 - i) * 25 /\ z = (100 - h) * 25
        OBVIOUS
      <3>3. y - z <= 250 * e /\ m - n >= 250 * e
        BY <3>1, <3>2
      <3>4. n + y + f <= m + z + f
        BY <3>3
      <3>. QED  BY <2>14, <3>2, <3>4
    <2>. QED  BY <2>4, <2>15, <2>16
  <1>. QED  BY <1>1 DEF PaysToReach

\* Audit and scorer judge the same channels.
LEMMA AuditIsScore ==
  ASSUME NEW r, IsLead(r)
  PROVE  AuditAgrees(r)
  <1>. DEFINE any == IfElse0(r.address # None, 5)
  <1>1. /\ IfElse0(r.website # None, 35 + IfElse0(r.website.secure, 10))
             = 35 * Web(r) + 10 * Tls(r)
        /\ IfElse0(r.phone # None, 15) = 15 * Tel(r)
        /\ IfElse0(r.email # None, 10) = 10 * Mail(r)
    BY DEF IfElse0, Web, Tls, Tel, Mail, Bit
  <1>2. DigitalScore(r) = Min2(100, 10 + (35 * Web(r) + 10 * Tls(r)) + 15 * Tel(r)
                                      + 10 * Mail(r) + Link(r) + any)
    BY <1>1 DEF DigitalScore, Link
  <1>3. any \in 0..5
    BY DEF IfElse0
  <1>4. r.address = None \/ ~r.address.brief => any = 5 * Adr(r)
    BY DEF IfElse0, Adr, Bit, Standing
  <1>. HIDE DEF any
  <1>5. PICK n \in Int : n = 10 + (35 * Web(r) + 10 * Tls(r)) + 15 * Tel(r)
                                + 10 * Mail(r) + Link(r) + any
    BY <1>3, BitsOfLead
  <1>6. DigitalScore(r) = (IF n > 100 THEN 100 ELSE n)
    BY <1>2, <1>5, CapOfHealth
  <1>7. r.address = None \/ ~r.address.brief => DigitalScore(r) = Health(r)
    <2>1. r.address = None \/ ~r.address.brief => n = LeadChannels(r)
      BY <1>4, <1>5, BitsOfLead DEF LeadChannels, Channels
    <2>. QED  BY <2>1, <1>6, HealthInNumbers
  <1>8. Gaps(r) \cap ChannelFlags(r) = {}
    <2>1. \A g \in Gaps(r) : g \in {"website", "ssl", "phone", "email", "social"}
      BY DEF Gaps
    <2>2. "website" \in Gaps(r) => r.website = None
      BY DEF Gaps
    <2>3. "ssl" \in Gaps(r) => r.website # None /\ ~r.website.secure
      BY DEF Gaps
    <2>4. "phone" \in Gaps(r) => r.phone = None
      BY DEF Gaps
    <2>5. "email" \in Gaps(r) => r.email = None
      BY DEF Gaps
    <2>6. "social" \in Gaps(r) => r.links = <<>>
      BY DEF Gaps
    <2>. QED  BY <2>1, <2>2, <2>3, <2>4, <2>5, <2>6, FlagsOfLead
  <1>9. ASSUME Gaps(r) = {}  PROVE Tier(DigitalScore(r)) = "mature"
    <2>1. r.website # None /\ r.website.secure /\ r.email # None /\ r.links # <<>>
      BY <1>9 DEF Gaps
    <2>2. Web(r) = 1 /\ Tls(r) = 1 /\ Mail(r) = 1 /\ Soc(r) = 1
      BY <2>1 DEF Web, Tls, Mail, Soc, Bit
    <2>3. n >= 70
      BY <1>3, <1>5, <2>2, BitsOfLead
    <2>4. PICK d \in Int : d = DigitalScore(r) /\ d >= 70
      BY <1>6, <2>3
    <2>. QED  BY <2>4 DEF Tier
  <1>. QED  BY <1>7, <1>8, <1>9 DEF AuditAgrees

-----------------------------------------------------------------------------
\* Recursion over texts.

\* Induction over the naturals, as a statement about a set.
LEMMA SetInduction ==
  ASSUME NEW T, 0 \in T, \A k \in Nat : k \in T => k + 1 \in T
  PROVE  Nat \subseteq T
  <1>. DEFINE out == Nat \ T
  <1>1. SUFFICES ASSUME out # {} PROVE FALSE
    BY Zenon
  <1>2. out \subseteq Nat
    OBVIOUS
  <1>. HIDE DEF out
  <1>3. PICK k \in out : \A j \in out : <<j, k>> \notin OpToRel(<, Nat)
    BY <1>1, <1>2, WFMin, NatLessThanWellFounded, Zenon
  <1>4. \A j \in out : ~(j < k)
    BY <1>2, <1>3, Zenon DEF OpToRel
  <1>5. k \in Nat /\ k # 0
    BY <1>2 DEF out
  <1>6. k - 1 \in Nat /\ k - 1 < k /\ (k - 1) + 1 = k
    BY <1>5
  <1>7. k - 1 \in T
    BY <1>4, <1>6 DEF out
  <1>. QED  BY <1>6, <1>7 DEF out

\* The table of a distance, as EditDistance fills it.
Cell(s, t, d, i, j) ==
  IF i = 0 \/ j = 0 THEN i + j
  ELSE Least(Least(d[<<i - 1, j>>], d[<<i, j - 1>>]) + 1,
             d[<<i - 1, j - 1>>] + (IF s[i] = t[j] THEN 0 ELSE 1))

Cells(s, t) == (0..Len(s)) \X (0..Len(t))

Table(s, t, d) == [p \in Cells(s, t) |-> Cell(s, t, d, p[1], p[2])]

Edits(s, t) == CHOOSE d : d = Table(s, t, d)

LEMMA EditsOf == ASSUME NEW s, NEW t PROVE EditDistance(s, t) = Edits(s, t)[<<Len(s), Len(t)>>]
  BY DEF EditDistance, Edits, Table, Cell, Cells

LEMMA LeastOfNats ==
  ASSUME NEW m \in Nat, NEW n \in Nat
  PROVE  Least(m, n) \in Nat /\ Least(m, n) = Least(n, m)
  BY DEF Least

LEMMA CellIsNat ==
  ASSUME NEW s, NEW t, Len(s) \in Nat, Len(t) \in Nat, NEW d \in [Cells(s, t) -> Nat],
         NEW i \in 0..Len(s), NEW j \in 0..Len(t)
  PROVE  Cell(s, t, d, i, j) \in Nat
  <1>0. i \in Nat /\ j \in Nat
    OBVIOUS
  <1>1. CASE i = 0 \/ j = 0
    BY <1>0, <1>1 DEF Cell
  <1>2. CASE ~(i = 0 \/ j = 0)
    <2>1. <<i - 1, j>> \in Cells(s, t) /\ <<i, j - 1>> \in Cells(s, t)
          /\ <<i - 1, j - 1>> \in Cells(s, t)
      BY <1>2 DEF Cells
    <2>2. d[<<i - 1, j>>] \in Nat /\ d[<<i, j - 1>>] \in Nat /\ d[<<i - 1, j - 1>>] \in Nat
      BY <2>1
    <2>3. /\ Least(d[<<i - 1, j>>], d[<<i, j - 1>>]) \in Nat
          /\ (IF s[i] = t[j] THEN 0 ELSE 1) \in Nat
      BY <2>2, LeastOfNats
    <2>4. /\ Least(d[<<i - 1, j>>], d[<<i, j - 1>>]) + 1 \in Nat
          /\ d[<<i - 1, j - 1>>] + (IF s[i] = t[j] THEN 0 ELSE 1) \in Nat
      BY <2>2, <2>3, SMTT(30)
    <2>. QED  BY <1>2, <2>4, LeastOfNats DEF Cell
  <1>. QED  BY <1>1, <1>2

LEMMA TableIsFunction ==
  ASSUME NEW s, NEW t, Len(s) \in Nat, Len(t) \in Nat, NEW d \in [Cells(s, t) -> Nat]
  PROVE  /\ Table(s, t, d) \in [Cells(s, t) -> Nat]
         /\ \A i \in 0..Len(s), j \in 0..Len(t) :
              <<i, j>> \in Cells(s, t) /\ Table(s, t, d)[<<i, j>>] = Cell(s, t, d, i, j)
  <1>1. \A p \in Cells(s, t) : p[1] \in 0..Len(s) /\ p[2] \in 0..Len(t)
    BY DEF Cells
  <1>2. \A p \in Cells(s, t) : Cell(s, t, d, p[1], p[2]) \in Nat
    BY <1>1, CellIsNat
  <1>3. \A i \in 0..Len(s), j \in 0..Len(t) : <<i, j>> \in Cells(s, t)
    BY DEF Cells
  <1>. QED  BY <1>2, <1>3 DEF Table

\* Such a table exists: it is right up to a diagonal, and so up to the next.
LEMMA EditsExist ==
  ASSUME NEW s, NEW t, Len(s) \in Nat, Len(t) \in Nat
  PROVE  \E d \in [Cells(s, t) -> Nat] : d = Table(s, t, d)
  <1>. DEFINE Right(d, k) ==
                \A i \in 0..Len(s), j \in 0..Len(t) :
                  i + j <= k => d[<<i, j>>] = Cell(s, t, d, i, j)
              T == {k \in Nat : \E d \in [Cells(s, t) -> Nat] : Right(d, k)}
  <1>1. 0 \in T
    <2>. DEFINE d == [p \in Cells(s, t) |-> p[1] + p[2]]
    <2>1. d \in [Cells(s, t) -> Nat]
      BY DEF Cells
    <2>2. ASSUME NEW i \in 0..Len(s), NEW j \in 0..Len(t), i + j <= 0
          PROVE  d[<<i, j>>] = Cell(s, t, d, i, j)
      <3>1. i = 0 /\ j = 0 /\ <<i, j>> \in Cells(s, t)
        BY <2>2 DEF Cells
      <3>. QED  BY <3>1 DEF Cell
    <2>. HIDE DEF d
    <2>. QED  BY <2>1, <2>2
  <1>2. ASSUME NEW k \in Nat, k \in T PROVE k + 1 \in T
    <2>1. PICK d \in [Cells(s, t) -> Nat] : Right(d, k)
      BY <1>2
    <2>. DEFINE e == Table(s, t, d)
    <2>2. /\ e \in [Cells(s, t) -> Nat]
          /\ \A i \in 0..Len(s), j \in 0..Len(t) : e[<<i, j>>] = Cell(s, t, d, i, j)
      BY TableIsFunction
    <2>. HIDE DEF e
    <2>3. ASSUME NEW i \in 0..Len(s), NEW j \in 0..Len(t), i + j <= k
          PROVE  e[<<i, j>>] = d[<<i, j>>]
      BY <2>1, <2>2, <2>3
    <2>4. ASSUME NEW i \in 0..Len(s), NEW j \in 0..Len(t), i + j <= k + 1
          PROVE  e[<<i, j>>] = Cell(s, t, e, i, j)
      <3>1. CASE i = 0 \/ j = 0
        BY <2>2, <3>1 DEF Cell
      <3>2. CASE ~(i = 0 \/ j = 0)
        <4>1. /\ i - 1 \in 0..Len(s) /\ j - 1 \in 0..Len(t)
              /\ (i - 1) + j <= k /\ i + (j - 1) <= k /\ (i - 1) + (j - 1) <= k
          BY <2>4, <3>2
        <4>2. /\ e[<<i - 1, j>>] = d[<<i - 1, j>>] /\ e[<<i, j - 1>>] = d[<<i, j - 1>>]
              /\ e[<<i - 1, j - 1>>] = d[<<i - 1, j - 1>>]
          BY <2>3, <4>1
        <4>3. Cell(s, t, e, i, j) = Cell(s, t, d, i, j)
          BY <3>2, <4>2 DEF Cell
        <4>. QED  BY <2>2, <4>3
      <3>. QED  BY <3>1, <3>2
    <2>. QED  BY <2>2, <2>4
  <1>. HIDE DEF T
  <1>3. Len(s) + Len(t) \in T
    BY <1>1, <1>2, SetInduction
  <1>4. PICK d \in [Cells(s, t) -> Nat] : Right(d, Len(s) + Len(t))
    BY <1>3 DEF T
  <1>5. ASSUME NEW i \in 0..Len(s), NEW j \in 0..Len(t)
        PROVE  d[<<i, j>>] = Cell(s, t, d, i, j)
    <2>1. i + j <= Len(s) + Len(t)
      OBVIOUS
    <2>. QED  BY <1>4, <2>1
  <1>6. d = Table(s, t, d)
    BY <1>5 DEF Table, Cells
  <1>. QED  BY <1>6

\* The table of a distance is its own table.
LEMMA EditsFacts ==
  ASSUME NEW s, NEW t, Len(s) \in Nat, Len(t) \in Nat
  PROVE  /\ \A i \in 0..Len(s), j \in 0..Len(t) :
              Edits(s, t)[<<i, j>>] = Cell(s, t, Edits(s, t), i, j)
  <1>. DEFINE d == Edits(s, t)
  <1>1. d = Table(s, t, d)
    BY EditsExist DEF Edits
  <1>. HIDE DEF d
  <1>2. \A p \in Cells(s, t) : d[p] = Cell(s, t, d, p[1], p[2])
    BY <1>1 DEF Table
  <1>. QED  BY <1>2 DEF d, Cells

\* The distance between two texts is a number, and the same both ways.
LEMMA EditDistanceSymmetric ==
  ASSUME NEW s, NEW t, Len(s) \in Nat, Len(t) \in Nat
  PROVE  EditDistance(s, t) \in Nat /\ EditDistance(t, s) = EditDistance(s, t)
  <1>. DEFINE d == Edits(s, t)
              e == Edits(t, s)
              T == {k \in Nat : \A i \in 0..Len(s), j \in 0..Len(t) :
                      i + j <= k => d[<<i, j>>] \in Nat /\ e[<<j, i>>] = d[<<i, j>>]}
  <1>1. \A i \in 0..Len(s), j \in 0..Len(t) :
          d[<<i, j>>] = Cell(s, t, d, i, j) /\ e[<<j, i>>] = Cell(t, s, e, j, i)
    BY EditsFacts
  <1>. HIDE DEF d, e
  <1>2. ASSUME NEW i \in 0..Len(s), NEW j \in 0..Len(t), i = 0 \/ j = 0
        PROVE  d[<<i, j>>] \in Nat /\ e[<<j, i>>] = d[<<i, j>>]
    <2>1. i \in Nat /\ j \in Nat
      OBVIOUS
    <2>2. d[<<i, j>>] = i + j /\ e[<<j, i>>] = j + i
      BY <1>1, <1>2 DEF Cell
    <2>. QED  BY <2>1, <2>2
  <1>3. 0 \in T
    BY <1>2
  <1>4. ASSUME NEW k \in Nat, k \in T PROVE k + 1 \in T
    <2>. SUFFICES ASSUME NEW i \in 0..Len(s), NEW j \in 0..Len(t), i + j <= k + 1,
                         ~(i = 0 \/ j = 0)
                  PROVE  d[<<i, j>>] \in Nat /\ e[<<j, i>>] = d[<<i, j>>]
      BY <1>2
    <2>1. /\ i - 1 \in 0..Len(s) /\ j - 1 \in 0..Len(t)
          /\ (i - 1) + j <= k /\ i + (j - 1) <= k /\ (i - 1) + (j - 1) <= k
      OBVIOUS
    <2>2. /\ d[<<i - 1, j>>] \in Nat /\ e[<<j, i - 1>>] = d[<<i - 1, j>>]
          /\ d[<<i, j - 1>>] \in Nat /\ e[<<j - 1, i>>] = d[<<i, j - 1>>]
          /\ d[<<i - 1, j - 1>>] \in Nat /\ e[<<j - 1, i - 1>>] = d[<<i - 1, j - 1>>]
      BY <1>4, <2>1
    <2>3. d[<<i, j>>] = Least(Least(d[<<i - 1, j>>], d[<<i, j - 1>>]) + 1,
                              d[<<i - 1, j - 1>>] + (IF s[i] = t[j] THEN 0 ELSE 1))
      BY <1>1 DEF Cell
    <2>4. e[<<j, i>>] = Least(Least(e[<<j - 1, i>>], e[<<j, i - 1>>]) + 1,
                              e[<<j - 1, i - 1>>] + (IF t[j] = s[i] THEN 0 ELSE 1))
      BY <1>1 DEF Cell
    <2>5. /\ Least(d[<<i - 1, j>>], d[<<i, j - 1>>]) \in Nat
          /\ Least(d[<<i - 1, j>>], d[<<i, j - 1>>]) = Least(d[<<i, j - 1>>], d[<<i - 1, j>>])
          /\ (IF s[i] = t[j] THEN 0 ELSE 1) \in Nat
          /\ (IF s[i] = t[j] THEN 0 ELSE 1) = (IF t[j] = s[i] THEN 0 ELSE 1)
      BY <2>2, LeastOfNats
    <2>6. e[<<j, i>>] = d[<<i, j>>]
      BY <2>2, <2>3, <2>4, <2>5
    <2>7. Least(d[<<i - 1, j>>], d[<<i, j - 1>>]) + 1 \in Nat
      BY <2>5, SMTT(30)
    <2>8. d[<<i - 1, j - 1>>] + (IF s[i] = t[j] THEN 0 ELSE 1) \in Nat
      BY <2>2
    <2>9. d[<<i, j>>] \in Nat
      BY <2>3, <2>7, <2>8, LeastOfNats
    <2>. QED  BY <2>6, <2>9
  <1>. HIDE DEF T
  <1>5. Len(s) + Len(t) \in T
    BY <1>3, <1>4, SetInduction
  <1>6. d[<<Len(s), Len(t)>>] \in Nat /\ e[<<Len(t), Len(s)>>] = d[<<Len(s), Len(t)>>]
    BY <1>5 DEF T
  <1>. QED  BY <1>6, EditsOf DEF d, e

-----------------------------------------------------------------------------
\* Texts.

LEMMA TextLength ==
  ASSUME NEW s, IsText(s)
  PROVE  Len(s) \in Nat /\ (s = <<>> <=> Len(s) = 0)
  BY DEF IsText

LEMMA SequencesAreTexts ==
  ASSUME NEW W, NEW s \in Seq(W)
  PROVE  IsText(s)
  BY DEF IsText

\* What is left of a text is a text.
Kept(words, dropped, f) ==
  [n \in 0..Len(words) |->
     IF n = 0 THEN <<>>
     ELSE IF words[n] \in dropped THEN f[n - 1] ELSE Append(f[n - 1], words[n])]

LEMMA KeptIsFunction ==
  ASSUME NEW W, NEW words \in Seq(W), NEW dropped, NEW f \in [0..Len(words) -> Seq(W)]
  PROVE  Kept(words, dropped, f) \in [0..Len(words) -> Seq(W)]
  <1>. SUFFICES ASSUME NEW n \in 0..Len(words), n # 0
                PROVE  (IF words[n] \in dropped THEN f[n - 1] ELSE Append(f[n - 1], words[n]))
                         \in Seq(W)
    BY DEF Kept
  <1>1. n - 1 \in 0..Len(words) /\ n \in 1..Len(words)
    OBVIOUS
  <1>2. f[n - 1] \in Seq(W) /\ words[n] \in W
    BY <1>1
  <1>. QED  BY <1>2

LEMMA KeptExists ==
  ASSUME NEW W, NEW words \in Seq(W), NEW dropped
  PROVE  \E f \in [0..Len(words) -> Seq(W)] : f = Kept(words, dropped, f)
  <1>. DEFINE Right(f, k) == \A n \in 0..Len(words) : n <= k => f[n] = Kept(words, dropped, f)[n]
              T == {k \in Nat : \E f \in [0..Len(words) -> Seq(W)] : Right(f, k)}
  <1>1. 0 \in T
    <2>. DEFINE f == [n \in 0..Len(words) |-> <<>>]
    <2>1. f \in [0..Len(words) -> Seq(W)] /\ f[0] = <<>>
      OBVIOUS
    <2>. HIDE DEF f
    <2>2. Right(f, 0)
      BY <2>1 DEF Kept
    <2>. QED  BY <2>1, <2>2
  <1>2. ASSUME NEW k \in Nat, k \in T  PROVE k + 1 \in T
    <2>1. PICK f \in [0..Len(words) -> Seq(W)] : Right(f, k)
      BY <1>2
    <2>. DEFINE g == Kept(words, dropped, f)
    <2>2. g \in [0..Len(words) -> Seq(W)]
      BY KeptIsFunction
    <2>3. ASSUME NEW n \in 0..Len(words), n <= k + 1
          PROVE  g[n] = Kept(words, dropped, g)[n]
      <3>1. CASE n = 0
        BY <3>1 DEF Kept
      <3>2. CASE n # 0
        <4>1. n - 1 \in 0..Len(words) /\ n - 1 <= k
          BY <2>3, <3>2
        <4>2. g[n - 1] = f[n - 1]
          BY <2>1, <4>1
        <4>. HIDE DEF g
        <4>3. g[n] = (IF words[n] \in dropped THEN f[n - 1] ELSE Append(f[n - 1], words[n]))
          BY <3>2 DEF g, Kept
        <4>. QED  BY <3>2, <4>2, <4>3 DEF Kept
      <3>. QED  BY <3>1, <3>2
    <2>. HIDE DEF g
    <2>. QED  BY <2>2, <2>3
  <1>. HIDE DEF T
  <1>3. Len(words) \in T
    BY <1>1, <1>2, SetInduction
  <1>4. PICK f \in [0..Len(words) -> Seq(W)] : Right(f, Len(words))
    BY <1>3 DEF T
  <1>5. \A n \in 0..Len(words) : f[n] = Kept(words, dropped, f)[n]
    BY <1>4
  <1>6. f = Kept(words, dropped, f)
    BY <1>5, KeptIsFunction
  <1>. QED  BY <1>6

LEMMA WithoutIsSequence ==
  ASSUME NEW W, NEW words \in Seq(W), NEW dropped
  PROVE  Without(words, dropped) \in Seq(W)
  <1>. DEFINE f == CHOOSE g : g = Kept(words, dropped, g)
              T == {k \in Nat : k <= Len(words) => f[k] \in Seq(W)}
  <1>1. words \in Seq(W) /\ Len(words) \in Nat
    OBVIOUS
  <1>2. Without(words, dropped) = f[Len(words)]
    BY DEF Without, Kept
  <1>3. f = Kept(words, dropped, f)
    BY <1>1, KeptExists
  <1>. HIDE DEF f
  <1>4. 0 \in T
    BY <1>1, <1>3 DEF Kept
  <1>5. ASSUME NEW k \in Nat, k \in T  PROVE k + 1 \in T
    <2>. SUFFICES ASSUME k + 1 <= Len(words)  PROVE f[k + 1] \in Seq(W)
      OBVIOUS
    <2>1. f[k] \in Seq(W) /\ k + 1 \in 1..Len(words) /\ k + 1 \in 0..Len(words) /\ k + 1 # 0
      BY <1>1, <1>5
    <2>2. (k + 1) - 1 = k /\ words[k + 1] \in W
      BY <1>1, <2>1
    <2>3. f[k + 1] = (IF words[k + 1] \in dropped THEN f[k] ELSE Append(f[k], words[k + 1]))
      BY <1>3, <2>1, <2>2 DEF Kept
    <2>. QED  BY <2>1, <2>2, <2>3
  <1>. HIDE DEF T
  <1>6. Len(words) \in T
    BY <1>1, <1>4, <1>5, SetInduction
  <1>7. f[Len(words)] \in Seq(W)
    BY <1>1, <1>6 DEF T
  <1>. QED  BY <1>2, <1>7

LEMMA WithoutIsText ==
  ASSUME NEW words, IsText(words), NEW dropped
  PROVE  IsText(Without(words, dropped))
  BY WithoutIsSequence, SequencesAreTexts DEF IsText

\* A non-empty bounded set of numbers has a largest.
LEMMA Largest ==
  ASSUME NEW n \in Nat, NEW S, S \subseteq 0..n, S # {}
  PROVE  \E m \in S : \A k \in S : k <= m
  <1>. DEFINE T == {n - k : k \in S}
  <1>1. T \subseteq Nat /\ T # {}
    <2>1. ASSUME NEW k \in S  PROVE n - k \in Nat
      OBVIOUS
    <2>. QED  BY <2>1
  <1>. HIDE DEF T
  <1>2. PICK t \in T : \A j \in T : <<j, t>> \notin OpToRel(<, Nat)
    BY <1>1, WFMin, NatLessThanWellFounded, Zenon
  <1>3. \A j \in T : ~(j < t)
    BY <1>1, <1>2, Zenon DEF OpToRel
  <1>4. PICK m \in S : t = n - m
    BY DEF T
  <1>5. ASSUME NEW k \in S  PROVE k <= m
    <2>1. n - k \in T /\ k \in Int /\ m \in Int
      BY DEF T
    <2>. QED  BY <1>3, <1>4, <2>1
  <1>. QED  BY <1>5

\* The features of a lead that are compared as texts, or counted.
LEMMA FeatureTypes ==
  ASSUME NEW r, IsLead(r)
  PROVE  /\ IsText(Features(r).key)
         /\ IsFiniteSet(Features(r).phones) /\ IsFiniteSet(Features(r).address)
         /\ \A p \in DOMAIN Features(r).socials : IsText(Features(r).socials[p])
  <1>1. IsText(Features(r).key)
    BY WithoutIsText DEF IsLead, Features, NameKey, NameTokens
  <1>2. IsFiniteSet(Features(r).phones)
    <2>. DEFINE f == [d \in r.details |-> NormalisedPhone(d)]
    <2>1. IsFiniteSet({NormalisedPhone(d) : d \in r.details})
      <3>1. f \in Surjection(r.details, {NormalisedPhone(d) : d \in r.details})
        BY DEF Surjection
      <3>2. IsFiniteSet(r.details)
        BY DEF IsLead
      <3>. QED  BY <3>1, <3>2, FS_Surjection
    <2>. QED  BY <2>1, FS_EmptySet, FS_Singleton DEF Features, PhoneDigits
  <1>3. IsFiniteSet(Features(r).address)
    BY FS_EmptySet DEF IsLead, Features
  <1>4. ASSUME NEW p \in DOMAIN Features(r).socials
        PROVE  IsText(Features(r).socials[p])
    <2>. DEFINE handle(i) == SocialHandle(IF i <= Len(r.links) THEN r.links[i] ELSE r.profile)
                on(q)     == {i \in 1..(Len(r.links) + 1) : handle(i) # None /\ handle(i)[1] = q}
                last      == CHOOSE i \in on(p) : \A j \in on(p) : j <= i
    <2>1. on(p) # {} /\ Features(r).socials[p] = handle(last)[2]
      BY Zenon DEF Features, SocialIdentities
    <2>2. Len(r.links) \in Nat
      BY TextLength, SMTT(30) DEF IsLead
    <2>3. \E i \in on(p) : \A j \in on(p) : j <= i
      <3>1. Len(r.links) + 1 \in Nat /\ on(p) \subseteq 0..(Len(r.links) + 1)
        BY <2>2
      <3>. QED  BY <2>1, <3>1, Largest, Zenon
    <2>4. PICK i \in on(p) : last = i
      BY <2>3
    <2>5. handle(i) # None /\ i \in 1..(Len(r.links) + 1)
      BY <2>4
    <2>6. \E u : IsURL(u) /\ handle(i) = SocialHandle(u)
      <3>1. CASE i <= Len(r.links)
        BY <2>2, <2>5, <3>1 DEF IsLead, IsText
      <3>2. CASE ~(i <= Len(r.links))
        BY <3>2 DEF IsLead
      <3>. QED  BY <3>1, <3>2
    <2>7. PICK u : IsURL(u) /\ handle(i) = SocialHandle(u)
      BY <2>6
    <2>. HIDE DEF handle, last
    <2>8. u # None /\ u.path # None /\ handle(i) = <<u.host, u.path>>
      BY <2>5, <2>7 DEF SocialHandle
    <2>. QED  BY <2>1, <2>4, <2>7, <2>8, SMTT(30) DEF IsURL
  <1>. QED  BY <1>1, <1>2, <1>3, <1>4

-----------------------------------------------------------------------------
\* A resolution run.

LEMMA JudgeStep ==
  ASSUME ResolverInv, NEW new, NEW prior, Judge(new, prior)
  PROVE  ResolverInv'
  <1>1. /\ leads' = leads /\ human' = human /\ step' = "cluster" /\ fresh' = new
        /\ Len(leads) = Cardinality(Lead) /\ verdicts' = Judged(new)
    BY DEF Judge
  <1>2. Judged(fresh)' = Judged(new)
    BY <1>1 DEF Judged, Loaded, Decision, EvidenceOf, Manual
  <1>. QED  BY <1>1, <1>2 DEF ResolverInv

LEMMA JudgedStays ==
  ASSUME ResolverInv, UNCHANGED <<leads, human, fresh, verdicts>>,
         step' = step \/ (step # "load" /\ step' = "done")
  PROVE  ResolverInv'
  <1>1. Judged(fresh)' = Judged(fresh)
    BY DEF Judged, Loaded, Decision, EvidenceOf, Manual
  <1>. QED  BY <1>1 DEF ResolverInv

\* Once a run has judged its pairs, its verdicts are what the loaded leads and
\* the loaded human decisions make of them, to the end of the run.
THEOREM ResolverInvariant == ResolverSpec => []ResolverInv
<1>1. ResolverInit => ResolverInv
  BY DEF ResolverInit, ResolverInv
<1>2. ResolverInv /\ [ResolverNext]_resolverVars => ResolverInv'
  <2>. SUFFICES ASSUME ResolverInv, [ResolverNext]_resolverVars PROVE ResolverInv'
    OBVIOUS
  <2>1. CASE UNCHANGED resolverVars
    BY <2>1, JudgedStays DEF resolverVars
  <2>2. ASSUME NEW r \in Stored, LoadLead(r) PROVE ResolverInv'
    BY <2>2 DEF ResolverInv, LoadLead
  <2>3. ASSUME NEW p \in Pairs, NEW d \in {"same", "distinct"}, LoadOverride(p, d)
        PROVE  ResolverInv'
    BY <2>3 DEF ResolverInv, LoadOverride
  <2>4. CASE JudgeBatch \/ JudgeNew
    BY <2>4, JudgeStep DEF JudgeBatch, JudgeNew
  <2>5. CASE ReplayPin \/ Join
    BY <2>5, JudgedStays DEF ReplayPin, Join
  <2>6. CASE Finish
    BY <2>6, JudgedStays DEF Finish
  <2>. QED  BY <2>1, <2>2, <2>3, <2>4, <2>5, <2>6 DEF ResolverNext
<1>. QED  BY <1>1, <1>2, PTL DEF ResolverSpec

\* The leads of a run are stored leads.
LEMMA LeadsAreStored ==
  ASSUME ResolverInv, NEW i \in 1..Len(leads)
  PROVE  leads[i] \in Stored /\ IsLead(leads[i])
  BY ResolverAssumption DEF ResolverInv

\* The breakdown a user sees is the score, within its one rounding, whatever
\* leads are stored.
THEOREM BreakdownsHold == ResolverSpec => []BreakdownsAddUp
<1>1. ResolverInv => BreakdownsAddUp
  BY LeadsAreStored, FactorsAddUp DEF BreakdownsAddUp
<1>. QED  BY <1>1, ResolverInvariant, PTL

\* No lead rises in the list by losing its telephone number or its e-mail.
THEOREM ReachAlwaysPays == ResolverSpec => []ReachPays
<1>1. ResolverInv => ReachPays
  BY LeadsAreStored, ReachIsPaid DEF ReachPays
<1>. QED  BY <1>1, ResolverInvariant, PTL

\* Audit and scorer never contradict each other on a channel.
THEOREM AuditsAlwaysAgree == ResolverSpec => []AuditsAgree
<1>1. ResolverInv => AuditsAgree
  BY LeadsAreStored, AuditIsScore DEF AuditsAgree
<1>. QED  BY <1>1, ResolverInvariant, PTL

-----------------------------------------------------------------------------
\* Candidate pairs and verdicts.

LEMMA TwoElements ==
  ASSUME NEW p, Cardinality(p) = 2, IsFiniteSet(p)
  PROVE  \E a, b \in p : a # b /\ p = {a, b}
  <1>1. PICK a \in p : TRUE
    BY FS_EmptySet
  <1>2. IsFiniteSet(p \ {a}) /\ Cardinality(p \ {a}) = 1
    BY <1>1, FS_RemoveElement
  <1>3. PICK b : p \ {a} = {b}
    BY <1>2, FS_Singleton
  <1>. QED  BY <1>1, <1>3

LEMMA PairCardinality ==
  ASSUME NEW a, NEW b, a # b
  PROVE  Cardinality({a, b}) = 2
  <1>1. IsFiniteSet({a}) /\ Cardinality({a}) = 1
    BY FS_Singleton
  <1>2. Cardinality({a} \cup {b}) = 2
    BY <1>1, FS_AddElement
  <1>3. {a} \cup {b} = {a, b}
    OBVIOUS
  <1>. QED  BY <1>2, <1>3

\* What a run knows of a pair it has judged: it is two of the leads, and the
\* verdict is the classifier's, or a human's.
LEMMA JudgedFacts ==
  ASSUME leads \in Seq(Stored), NEW new, NEW p \in DOMAIN Judged(new)
  PROVE  \E a, b \in 1..Len(leads) :
           /\ a # b /\ p = {a, b}
           /\ Judged(new)[p] = Decision(p, EvidenceFor[leads[a]][leads[b]])
  <1>2. p \in CandidatePairs(Loaded) /\ Judged(new)[p] = Decision(p, EvidenceOf(p))
    BY DEF Judged
  <1>3. DOMAIN Loaded = 1..Len(leads) /\ Len(leads) \in Nat
    BY DEF Loaded
  <1>4. p \subseteq 1..Len(leads) /\ Cardinality(p) = 2
    BY <1>2, <1>3 DEF CandidatePairs
  <1>5. IsFiniteSet(p)
    <2>1. IsFiniteSet(1..Len(leads))
      BY <1>3, FS_Interval
    <2>. QED  BY <1>4, <2>1, FS_Subset
  <1>6. PICK x \in p, y \in p : x # y /\ p = {x, y}
    BY <1>4, <1>5, TwoElements
  <1>. DEFINE a == CHOOSE i \in p : \A j \in p : i <= j
              b == CHOOSE i \in p : i # a
  <1>7. x \in Nat /\ y \in Nat
    BY <1>3, <1>4
  <1>8. \E i \in p : \A j \in p : i <= j
    <2>1. CASE x <= y
      BY <1>6, <1>7, <2>1
    <2>2. CASE y <= x
      BY <1>6, <1>7, <2>2
    <2>. QED  BY <1>7, <2>1, <2>2
  <1>9. a \in p
    BY <1>8
  <1>10. \E i \in p : i # a
    BY <1>6, <1>9
  <1>11. b \in p /\ b # a
    BY <1>10
  <1>12. EvidenceOf(p) = EvidenceFor[leads[a]][leads[b]]
    BY DEF EvidenceOf
  <1>. HIDE DEF a, b
  <1>13. p = {a, b} /\ a \in 1..Len(leads) /\ b \in 1..Len(leads)
    BY <1>4, <1>6, <1>9, <1>11
  <1>. QED  BY <1>2, <1>11, <1>12, <1>13

LEMMA VerdictFacts ==
  ASSUME ResolverInv, NEW p \in DOMAIN verdicts
  PROVE  \E a, b \in 1..Len(leads) :
           /\ a # b /\ p = {a, b}
           /\ verdicts[p] = Decision(p, EvidenceFor[leads[a]][leads[b]])
  <1>1. step # "load" /\ verdicts = Judged(fresh) /\ leads \in Seq(Stored)
    BY DEF ResolverInv
  <1>. QED  BY <1>1, JudgedFacts

\* The evidence of two loaded leads is that of their features.
LEMMA EvidenceOfLeads ==
  ASSUME ResolverInv, NEW a \in 1..Len(leads), NEW b \in 1..Len(leads)
  PROVE  /\ EvidenceFor[leads[a]][leads[b]] = Evidence(Features(leads[a]), Features(leads[b]))
         /\ Loaded[a] = Features(leads[a]) /\ Loaded[b] = Features(leads[b])
  BY LeadsAreStored DEF EvidenceFor, FeaturesOf, Loaded

\* Overlaps are numbers, and the same both ways.
LEMMA JaccardIsNumber ==
  ASSUME NEW s, NEW t, IsFiniteSet(s), IsFiniteSet(t)
  PROVE  Jaccard(s, t) \in Int /\ Jaccard(s, t) = Jaccard(t, s)
  <1>1. s \cap t = t \cap s /\ s \cup t = t \cup s
    OBVIOUS
  <1>2. CASE s = {} \/ t = {}
    BY <1>2 DEF Jaccard
  <1>3. CASE s # {} /\ t # {}
    <2>1. Cardinality(s \cap t) \in Nat
      BY FS_Intersection, FS_CardinalityType
    <2>2. Cardinality(s \cup t) \in Nat /\ Cardinality(s \cup t) # 0
      <3>1. IsFiniteSet(s \cup t) /\ s \cup t # {}
        BY <1>3, FS_Union
      <3>. QED  BY <3>1, FS_CardinalityType, FS_EmptySet
    <2>3. Jaccard(s, t) = (10000 * Cardinality(s \cap t)) \div Cardinality(s \cup t)
      BY <1>3 DEF Jaccard
    <2>4. Jaccard(t, s) = (10000 * Cardinality(t \cap s)) \div Cardinality(t \cup s)
      BY <1>3 DEF Jaccard
    <2>5. Cardinality(t \cap s) = Cardinality(s \cap t) /\ Cardinality(t \cup s) = Cardinality(s \cup t)
      BY <1>1
    <2>. QED  BY <2>1, <2>2, <2>3, <2>4, <2>5
  <1>. QED  BY <1>2, <1>3

\* Disjoint addresses alone outweigh what a merge may have against it.
LEMMA DisjointAddressesConflict ==
  ASSUME NEW f, NEW g, IsFiniteSet(f.address), IsFiniteSet(g.address),
         AddressesDisjoint(f, g)
  PROVE  ~IsSame(Evidence(f, g))
  <1>1. Cardinality(f.address) \in Nat /\ Cardinality(g.address) \in Nat
        /\ Jaccard(f.address, g.address) \in Int
    BY FS_CardinalityType, JaccardIsNumber
  <1>2. AddressSignal(f, g).conflict = 5000
    BY <1>1 DEF AddressSignal, AddressesDisjoint, AddressConflict, Signal, Silent
  <1>3. NameSignal(f, g, NameSimilarity(f, g)).conflict = 0
    BY DEF NameSignal, Signal, Silent
  <1>4. PICK p \in Nat : p = PhoneSignal(f, g).conflict
    BY DEF PhoneSignal, Signal, Silent
  <1>5. PICK w \in Nat : w = WebsiteSignal(f, g).conflict
    BY DEF WebsiteSignal, Signal, Silent
  <1>6. PICK o \in Nat : o = SocialSignal(f, g).conflict
    BY DEF SocialSignal, Signal, Silent
  <1>7. CrossReferenceSignal(f, g).conflict = 0
    BY DEF CrossReferenceSignal, Signal, Silent
  <1>8. PICK e \in Nat : e = EmailSignal(f, g).conflict
    BY DEF EmailSignal, Signal, Silent
  <1>9. PICK l \in Nat : l = GeoSignal(f, g).conflict
    <2>. DEFINE located == f.place # None /\ g.place # None
                apart   == Metres[{f.place, g.place}]
                same    == located /\ apart < 200
                near    == located /\ apart \in 200..1999
                town    == located /\ apart \in 2000..9999
                differ  == (located => apart >= 10000) /\ WilayasDiffer(f, g)
                wilaya  == ~located /\ f.wilaya # None /\ f.wilaya = g.wilaya
    <2>1. GeoSignal(f, g) =
            CASE same -> Signal(6000, 0, 0, {"same_place"})
              [] near -> Signal(4000, 0, 0, {})
              [] town -> Signal(2000, 0, 0, {})
              [] differ -> Signal(0, 0, 3000, {"location_disagreement"})
              [] wilaya -> Signal(1500, 0, 0, {})
              [] OTHER -> Silent
      BY DEF GeoSignal
    <2>. HIDE DEF same, near, town, differ, wilaya
    <2>. QED  BY <2>1 DEF Signal, Silent
  <1>10. PICK i \in Nat : i = IndustrySignal(f, g).conflict
    BY SMTT(30) DEF IndustrySignal, Signal, Silent
  <1>11. Evidence(f, g).conflict = 0 + p + w + o + 0 + e + l + 5000 + i
    BY <1>2, <1>3, <1>4, <1>5, <1>6, <1>7, <1>8, <1>9, <1>10 DEF Evidence, OfAll, Signals
  <1>. QED  BY <1>11 DEF IsSame, MergeMaxConflict

\* Two places never become one entity by the engine's own decision.
THEOREM BranchesStayApart == ResolverSpec => []BranchesKeptApart
<1>1. ASSUME ResolverInv  PROVE BranchesKeptApart
  <2>. SUFFICES ASSUME NEW p \in Decided("same"), ~verdicts[p].manual,
                       NEW a \in p, NEW b \in p, a # b,
                       AddressesDisjoint(Loaded[a], Loaded[b])
                PROVE  FALSE
    BY DEF BranchesKeptApart
  <2>1. PICK c \in 1..Len(leads), d \in 1..Len(leads) :
          /\ c # d /\ p = {c, d}
          /\ verdicts[p] = Decision(p, EvidenceFor[leads[c]][leads[d]])
    BY <1>1, VerdictFacts DEF Decided
  <2>. DEFINE f == Features(leads[c])
              g == Features(leads[d])
  <2>2. Classified(Evidence(f, g)) = "same"
    BY <1>1, <2>1, EvidenceOfLeads DEF Decision, Decided
  <2>3. IsSame(Evidence(f, g))
    BY <2>2 DEF Classified
  <2>4. IsFiniteSet(f.address) /\ IsFiniteSet(g.address)
    <3>1. \A r \in Stored : IsFiniteSet(Features(r).address)
      BY ResolverAssumption, FS_EmptySet DEF Features, IsLead
    <3>. QED  BY <1>1, <3>1, LeadsAreStored
  <2>5. AddressesDisjoint(f, g) \/ AddressesDisjoint(g, f)
    BY <1>1, <2>1, EvidenceOfLeads
  <2>. HIDE DEF f, g
  <2>6. AddressesDisjoint(f, g)
    BY <2>4, <2>5, JaccardIsNumber DEF AddressesDisjoint
  <2>. QED  BY <2>3, <2>4, <2>6, DisjointAddressesConflict
<1>. QED  BY <1>1, ResolverInvariant, PTL

\* However a mobile number is written, its key is the same.
LEMMA MobileKey ==
  ASSUME NEW d, d.prefix \in Prefix, d.number \notin Landline
  PROVE  NormalisedPhone(d) = <<"213", d.number>>
  BY DEF Prefix, NormalisedPhone, Zeros, Digits

LEMMA MobileKeys ==
  ASSUME NEW r, IsLead(r), NEW n \in MobileNumbers(r)
  PROVE  <<"213", n>> \in Features(r).phones
  <1>1. Features(r).phones = PhoneDigits(r)
    BY DEF Features
  <1>2. CASE r.details # {}
    <2>1. PICK d \in r.details : d.number = n /\ n \notin Landline
      BY <1>2 DEF MobileNumbers
    <2>2. NormalisedPhone(d) = <<"213", n>>
      BY <2>1, MobileKey DEF IsLead
    <2>. QED  BY <1>1, <1>2, <2>1, <2>2 DEF PhoneDigits
  <1>3. CASE r.details = {}
    <2>1. r.phone # None /\ r.phone.number = n /\ n \notin Landline
      BY <1>3 DEF MobileNumbers
    <2>2. NormalisedPhone(r.phone) = <<"213", n>>
      BY <2>1, MobileKey DEF IsLead
    <2>. QED  BY <1>1, <1>3, <2>1, <2>2 DEF PhoneDigits
  <1>. QED  BY <1>2, <1>3

\* Records that share an identifier share a key that is looked at at any width
\* of its block.
LEMMA SharedKey ==
  ASSUME NEW r \in Stored, NEW s \in Stored, SharesIdentifier(r, s)
  PROVE  \E k \in BlockingKeys(Features(r)) \cap BlockingKeys(Features(s)) :
           k[1] \in ExactKinds
  <1>. DEFINE f == Features(r)
              g == Features(s)
  <1>0. IsLead(r) /\ IsLead(s) /\ FeaturesOf[r] = f /\ FeaturesOf[s] = g
    BY ResolverAssumption DEF FeaturesOf
  <1>1. CASE MobileNumbers(r) \cap MobileNumbers(s) # {}
    <2>1. PICK n : <<"213", n>> \in f.phones \cap g.phones
      BY <1>0, <1>1, MobileKeys
    <2>. HIDE DEF f, g
    <2>2. <<"phone", <<"213", n>>>> \in BlockingKeys(f) \cap BlockingKeys(g)
      BY <2>1 DEF BlockingKeys
    <2>3. <<"phone", <<"213", n>>>>[1] \in ExactKinds
      BY DEF ExactKinds
    <2>. QED  BY <2>2, <2>3 DEF f, g
  <1>2. CASE f.website # None /\ f.website = g.website
    <2>. HIDE DEF f, g
    <2>1. <<"domain", f.website>> \in BlockingKeys(f) \cap BlockingKeys(g)
      BY <1>2 DEF BlockingKeys
    <2>2. <<"domain", f.website>>[1] \in ExactKinds
      BY DEF ExactKinds
    <2>. QED  BY <2>1, <2>2 DEF f, g
  <1>3. CASE \E q \in DOMAIN f.socials \cap DOMAIN g.socials : f.socials[q] = g.socials[q]
    <2>. HIDE DEF f, g
    <2>1. PICK q \in DOMAIN f.socials \cap DOMAIN g.socials : f.socials[q] = g.socials[q]
      BY <1>3
    <2>2. <<"social", q, f.socials[q]>> \in BlockingKeys(f) \cap BlockingKeys(g)
      BY <2>1 DEF BlockingKeys
    <2>3. <<"social", q, f.socials[q]>>[1] \in ExactKinds
      BY DEF ExactKinds
    <2>. QED  BY <2>2, <2>3 DEF f, g
  <1>4. \/ MobileNumbers(r) \cap MobileNumbers(s) # {}
        \/ f.website # None /\ f.website = g.website
        \/ \E q \in DOMAIN f.socials \cap DOMAIN g.socials : f.socials[q] = g.socials[q]
    BY <1>0 DEF SharesIdentifier
  <1>. QED  BY <1>1, <1>2, <1>3, <1>4

\* A batch run compares every two leads that share an identifier, whatever
\* the limit on the width of a block.
THEOREM IdentifiersCompared == ResolverSpec => []SharedIdentifierCompared
<1>1. ASSUME ResolverInv  PROVE SharedIdentifierCompared
  <2>. SUFFICES ASSUME step = "cluster", fresh = Lead, NEW a \in Lead, NEW b \in Lead,
                       a # b, SharesIdentifier(leads[a], leads[b])
                PROVE  {a, b} \in DOMAIN verdicts
    BY DEF SharedIdentifierCompared
  <2>1. /\ verdicts = Judged(fresh) /\ Lead = 1..Len(leads)
        /\ a \in 1..Len(leads) /\ b \in 1..Len(leads)
    BY <1>1, ResolverAssumption DEF ResolverInv
  <2>2. /\ leads[a] \in Stored /\ leads[b] \in Stored
        /\ DOMAIN Loaded = 1..Len(leads)
        /\ Loaded[a] = Features(leads[a]) /\ Loaded[b] = Features(leads[b])
    BY <1>1, <2>1, LeadsAreStored, EvidenceOfLeads DEF Loaded
  <2>3. PICK k \in BlockingKeys(Loaded[a]) \cap BlockingKeys(Loaded[b]) :
          k[1] \in ExactKinds
    BY <2>2, SharedKey
  <2>. DEFINE keys     == [i \in DOMAIN Loaded |-> BlockingKeys(Loaded[i])]
              block(c) == {i \in DOMAIN Loaded : c \in keys[i]}
              open(c)  == c[1] \in ExactKinds \/ Cardinality(block(c)) <= MaxBlock
  <2>4. k \in UNION {keys[i] : i \in {a, b}} /\ {a, b} \subseteq block(k) /\ open(k)
    BY <2>1, <2>2, <2>3
  <2>5. {a, b} \in CandidatePairs(Loaded)
    BY <2>1, <2>2, <2>4, PairCardinality DEF CandidatePairs
  <2>. QED  BY <2>1, <2>5 DEF Judged
<1>. QED  BY <1>1, ResolverInvariant, PTL

-----------------------------------------------------------------------------
\* Both ways.

LEMMA GreatestOfNats ==
  ASSUME NEW m \in Nat, NEW n \in Nat
  PROVE  /\ Greatest(m, n) \in Nat /\ Greatest(m, n) = Greatest(n, m)
         /\ m # 0 => Greatest(m, n) # 0
  BY DEF Greatest

LEMMA RatioFacts ==
  ASSUME NEW s, NEW t, IsText(s), IsText(t)
  PROVE  Ratio(s, t) \in Int /\ Ratio(s, t) <= 10000 /\ Ratio(t, s) = Ratio(s, t)
  <1>1. CASE s = <<>> \/ t = <<>>
    BY <1>1 DEF Ratio
  <1>2. CASE ~(s = <<>> \/ t = <<>>)
    <2>1. PICK m \in Nat, n \in Nat : m = Len(s) /\ n = Len(t) /\ m # 0 /\ n # 0
      BY <1>2, TextLength
    <2>2. PICK e \in Nat : e = EditDistance(s, t) /\ e = EditDistance(t, s)
      BY <2>1, EditDistanceSymmetric
    <2>3. PICK g \in Nat \ {0} : g = Greatest(m, n) /\ g = Greatest(n, m)
      <3>1. m # 0
        BY <2>1
      <3>. QED  BY <3>1, GreatestOfNats
    <2>4. (10000 * e) \div g \in Nat
      OBVIOUS
    <2>5. /\ Ratio(s, t) = 10000 - (10000 * e) \div g
          /\ Ratio(t, s) = 10000 - (10000 * e) \div g
      BY <1>2, <2>1, <2>2, <2>3 DEF Ratio
    <2>. QED  BY <2>4, <2>5
  <1>. QED  BY <1>1, <1>2

LEMMA NamesBothWays ==
  ASSUME NEW f, NEW g, IsText(f.key), IsText(g.key)
  PROVE  NameSimilarity(f, g) = NameSimilarity(g, f)
  <1>1. ASSUME NEW k, IsText(k)  PROVE IsFiniteSet(Words(k))
    <2>1. Len(k) \in Nat
      BY <1>1, TextLength
    <2>2. IsFiniteSet(1..Len(k))
      BY <2>1, FS_Interval
    <2>. DEFINE at == [i \in 1..Len(k) |-> k[i]]
    <2>3. at \in Surjection(1..Len(k), Words(k))
      BY DEF Surjection, Words
    <2>. QED  BY <2>2, <2>3, FS_Surjection
  <1>2. /\ Jaccard(Words(f.key), Words(g.key)) \in Int
        /\ Jaccard(Words(f.key), Words(g.key)) = Jaccard(Words(g.key), Words(f.key))
    BY <1>1, JaccardIsNumber
  <1>3. Ratio(f.key, g.key) \in Int /\ Ratio(f.key, g.key) = Ratio(g.key, f.key)
    BY RatioFacts
  <1>. QED  BY <1>2, <1>3 DEF NameSimilarity, Greatest

\* The features of two leads, as far as the signals look at them.
Typed(f) ==
  /\ IsText(f.key) /\ IsFiniteSet(f.phones) /\ IsFiniteSet(f.address)
  /\ \A p \in DOMAIN f.socials : IsText(f.socials[p])

LEMMA ContactBothWays ==
  ASSUME NEW f, NEW g, Typed(f), Typed(g)
  PROVE  /\ PhoneSignal(f, g) = PhoneSignal(g, f)
         /\ WebsiteSignal(f, g) = WebsiteSignal(g, f)
         /\ CrossReferenceSignal(f, g) = CrossReferenceSignal(g, f)
         /\ EmailSignal(f, g) = EmailSignal(g, f)
  <1>1. PhoneSignal(f, g) = PhoneSignal(g, f)
    <2>1. f.phones \cap g.phones = g.phones \cap f.phones
      OBVIOUS
    <2>2. Cardinality(f.phones) \in Nat /\ Cardinality(g.phones) \in Nat
      BY FS_CardinalityType DEF Typed
    <2>3. Least(Cardinality(f.phones), Cardinality(g.phones))
            = Least(Cardinality(g.phones), Cardinality(f.phones))
      BY <2>2, LeastOfNats
    <2>4. PICK n : /\ n = Least(Cardinality(f.phones), Cardinality(g.phones))
                   /\ n = Least(Cardinality(g.phones), Cardinality(f.phones))
      BY <2>3
    <2>5. PICK c : c = Cardinality(f.phones \cap g.phones) /\ c = Cardinality(g.phones \cap f.phones)
      BY <2>1
    <2>. DEFINE both == Signal((8000 * c) \div n, 3500, 0, {})
    <2>6. PhoneSignal(f, g) = CASE f.phones = {} \/ g.phones = {} -> Silent
                                [] f.phones \cap g.phones # {} -> both
                                [] OTHER -> Signal(0, 0, 4000, {"contact_disagreement"})
      BY <2>4, <2>5 DEF PhoneSignal
    <2>7. PhoneSignal(g, f) = CASE g.phones = {} \/ f.phones = {} -> Silent
                                [] g.phones \cap f.phones # {} -> both
                                [] OTHER -> Signal(0, 0, 4000, {"contact_disagreement"})
      BY <2>4, <2>5 DEF PhoneSignal
    <2>. HIDE DEF both
    <2>. QED  BY <2>1, <2>6, <2>7
  <1>2. WebsiteSignal(f, g) = WebsiteSignal(g, f)
    BY DEF WebsiteSignal
  <1>3. CrossReferenceSignal(f, g) = CrossReferenceSignal(g, f)
    BY DEF CrossReferenceSignal
  <1>4. EmailSignal(f, g) = EmailSignal(g, f)
    <2>1. /\ f.emails \cap g.emails = g.emails \cap f.emails
          /\ f.emailDomains \cap g.emailDomains = g.emailDomains \cap f.emailDomains
      OBVIOUS
    <2>. QED  BY <2>1 DEF EmailSignal
  <1>. QED  BY <1>1, <1>2, <1>3, <1>4

LEMMA SocialBothWays ==
  ASSUME NEW f, NEW g, Typed(f), Typed(g)
  PROVE  SocialSignal(f, g) = SocialSignal(g, f)
  <1>. DEFINE common     == DOMAIN f.socials \cap DOMAIN g.socials
              match(p)   == Ratio(f.socials[p], g.socials[p])
              back(p)    == Ratio(g.socials[p], f.socials[p])
              alike      == {p \in common : match(p) >= 8000}
              points     == {(9000 * match(p)) \div 10000 : p \in alike}
              alikeBack  == {p \in common : back(p) >= 8000}
              pointsBack == {(9000 * back(p)) \div 10000 : p \in alikeBack}
  <1>1. \A p \in common : match(p) = back(p)
    BY RatioFacts DEF Typed
  <1>2. alike = alikeBack
    BY <1>1
  <1>3. points = pointsBack
    BY <1>1, <1>2
  <1>4. OtherPlatformSame(f, g) <=> OtherPlatformSame(g, f)
    BY DEF OtherPlatformSame
  <1>5. DOMAIN g.socials \cap DOMAIN f.socials = common
    OBVIOUS
  <1>6. SocialSignal(f, g) =
          CASE alike # {}  -> Signal(Top(points), 0, 0, {})
            [] common # {} -> Signal(0, 0, 2500, {})
            [] common = {} /\ OtherPlatformSame(f, g) -> Signal(7500, 0, 0, {})
            [] OTHER -> Silent
    BY DEF SocialSignal
  <1>7. SocialSignal(g, f) =
          CASE alikeBack # {}  -> Signal(Top(pointsBack), 0, 0, {})
            [] common # {} -> Signal(0, 0, 2500, {})
            [] common = {} /\ OtherPlatformSame(g, f) -> Signal(7500, 0, 0, {})
            [] OTHER -> Silent
    BY <1>5 DEF SocialSignal
  <1>. HIDE DEF common, points, pointsBack, alike, alikeBack
  <1>. QED  BY <1>2, <1>3, <1>4, <1>6, <1>7

LEMMA PlaceBothWays ==
  ASSUME NEW f, NEW g, Typed(f), Typed(g)
  PROVE  /\ GeoSignal(f, g) = GeoSignal(g, f)
         /\ AddressSignal(f, g) = AddressSignal(g, f)
         /\ IndustrySignal(f, g) = IndustrySignal(g, f)
  <1>1. GeoSignal(f, g) = GeoSignal(g, f)
    <2>1. {f.place, g.place} = {g.place, f.place}
      OBVIOUS
    <2>2. WilayasDiffer(f, g) <=> WilayasDiffer(g, f)
      BY DEF WilayasDiffer
    <2>. DEFINE located == f.place # None /\ g.place # None
                apart   == Metres[{f.place, g.place}]
                same    == located /\ apart < 200
                near    == located /\ apart \in 200..1999
                town    == located /\ apart \in 2000..9999
                differ  == (located => apart >= 10000) /\ WilayasDiffer(f, g)
                wilaya  == ~located /\ f.wilaya # None /\ f.wilaya = g.wilaya
                place   == CASE same -> Signal(6000, 0, 0, {"same_place"})
                             [] near -> Signal(4000, 0, 0, {})
                             [] town -> Signal(2000, 0, 0, {})
                             [] differ -> Signal(0, 0, 3000, {"location_disagreement"})
                             [] wilaya -> Signal(1500, 0, 0, {})
                             [] OTHER -> Silent
    <2>3. GeoSignal(f, g) = place
      BY DEF GeoSignal
    <2>. DEFINE located2 == g.place # None /\ f.place # None
                apart2   == Metres[{g.place, f.place}]
                same2    == located2 /\ apart2 < 200
                near2    == located2 /\ apart2 \in 200..1999
                town2    == located2 /\ apart2 \in 2000..9999
                differ2  == (located2 => apart2 >= 10000) /\ WilayasDiffer(g, f)
                wilaya2  == ~located2 /\ g.wilaya # None /\ g.wilaya = f.wilaya
    <2>4. GeoSignal(g, f) =
            CASE same2 -> Signal(6000, 0, 0, {"same_place"})
              [] near2 -> Signal(4000, 0, 0, {})
              [] town2 -> Signal(2000, 0, 0, {})
              [] differ2 -> Signal(0, 0, 3000, {"location_disagreement"})
              [] wilaya2 -> Signal(1500, 0, 0, {})
              [] OTHER -> Silent
      BY DEF GeoSignal
    <2>5. apart2 = apart /\ (located2 <=> located)
      BY <2>1, SMTT(30)
    <2>. HIDE DEF located, located2, apart, apart2
    <2>6. (same2 <=> same) /\ (near2 <=> near) /\ (town2 <=> town)
      BY <2>5
    <2>7. differ2 <=> differ
      BY <2>2, <2>5
    <2>8. wilaya2 <=> wilaya
      BY <2>5
    <2>. HIDE DEF same, near, town, differ, wilaya, same2, near2, town2, differ2, wilaya2
    <2>. QED  BY <2>3, <2>4, <2>6, <2>7, <2>8
  <1>2. AddressSignal(f, g) = AddressSignal(g, f)
    <2>1. /\ Jaccard(f.address, g.address) = Jaccard(g.address, f.address)
      BY JaccardIsNumber DEF Typed
    <2>. QED  BY <2>1 DEF AddressSignal
  <1>3. IndustrySignal(f, g) = IndustrySignal(g, f)
    <2>1. f.industry \cap g.industry = g.industry \cap f.industry
      OBVIOUS
    <2>. QED  BY <2>1 DEF IndustrySignal
  <1>. QED  BY <1>1, <1>2, <1>3

LEMMA EvidenceBothWays ==
  ASSUME NEW f, NEW g, Typed(f), Typed(g)
  PROVE  Evidence(f, g) = Evidence(g, f)
  <1>1. NameSimilarity(f, g) = NameSimilarity(g, f)
    BY NamesBothWays DEF Typed
  <1>2. NameSignal(f, g, NameSimilarity(f, g)) = NameSignal(g, f, NameSimilarity(g, f))
    BY <1>1 DEF NameSignal
  <1>3. Signals(f, g) = Signals(g, f)
    BY <1>2, ContactBothWays, SocialBothWays, PlaceBothWays DEF Signals
  <1>. QED  BY <1>1, <1>3 DEF Evidence

\* The verdict on two leads is the same whichever was loaded first.
THEOREM VerdictsAreSymmetric == ResolverSpec => []VerdictsSymmetric
<1>1. ASSUME ResolverInv  PROVE VerdictsSymmetric
  <2>. SUFFICES ASSUME NEW a \in 1..Len(leads), NEW b \in 1..Len(leads)
                PROVE  EvidenceFor[leads[a]][leads[b]] = EvidenceFor[leads[b]][leads[a]]
    BY DEF VerdictsSymmetric
  <2>1. Typed(Features(leads[a])) /\ Typed(Features(leads[b]))
    BY <1>1, LeadsAreStored, FeatureTypes DEF Typed
  <2>. QED  BY <1>1, <2>1, EvidenceBothWays, EvidenceOfLeads
<1>. QED  BY <1>1, ResolverInvariant, PTL

-----------------------------------------------------------------------------
\* Pins and edges of a run.

LEMMA PairsOfLeads ==
  ASSUME leads \in Seq(Stored), Len(leads) = Cardinality(Lead), NEW new
  PROVE  DOMAIN Judged(new) \subseteq Pairs
  <1>1. Lead = 1..Len(leads)
    BY ResolverAssumption
  <1>2. ASSUME NEW p \in DOMAIN Judged(new)  PROVE p \in Pairs
    <2>1. \E a, b \in 1..Len(leads) :
            /\ a # b /\ p = {a, b}
            /\ Judged(new)[p] = Decision(p, EvidenceFor[leads[a]][leads[b]])
      BY JudgedFacts
    <2>2. PICK a \in Lead, b \in Lead : a # b /\ p = {a, b}
      BY <1>1, <2>1, Zenon
    <2>. QED  BY <2>2, PairOf
  <1>. QED  BY <1>2

LEMMA PinsJudgeStep ==
  ASSUME ResolverInv, PinsInv, NEW new, NEW prior, Judge(new, prior)
  PROVE  PinsInv'
  <1>. DEFINE decided == Judged(new)
  <1>1. /\ step = "load" /\ Len(leads) = Cardinality(Lead) /\ step' = "cluster"
        /\ verdicts' = decided /\ UNCHANGED <<comp, pinned, leads, human>>
        /\ pins' = Pinned("same") \cup {p \in Pairs : p \subseteq prior}
        /\ forbidden' = Pinned("distinct") \cup Vetoes(decided)
        /\ edges' = {[pair |-> p, strong |-> StrongEdge(decided[p].evidence)] :
                       p \in {q \in DOMAIN decided : decided[q].decision = "same"}}
    BY DEF Judge
  <1>2. DOMAIN decided \subseteq Pairs
    BY <1>1, PairsOfLeads DEF ResolverInv
  <1>. HIDE DEF decided
  <1>3. Pinned("same") \subseteq Pairs /\ Pinned("distinct") \subseteq Pairs
    BY DEF Pinned, PinsInv
  <1>4. Vetoes(decided) \subseteq Pairs
    BY <1>2 DEF Vetoes
  <1>5. ASSUME NEW e \in edges'  PROVE e \in Edge
    <2>1. PICK p \in {q \in DOMAIN decided : decided[q].decision = "same"} :
            e = [pair |-> p, strong |-> StrongEdge(decided[p].evidence)]
      BY <1>1, Zenon
    <2>2. p \in Pairs
      BY <1>2
    <2>3. \A ev : StrongEdge(ev) \in BOOLEAN
      BY DEF StrongEdge
    <2>. QED  BY <2>1, <2>2, <2>3, Zenon DEF Edge
  <1>6. ForestType'
    BY <1>1, <1>3, <1>4, <1>5 DEF PinsInv, ForestType
  <1>7. \A e \in edges' : /\ e.pair \in DOMAIN decided /\ decided[e.pair].decision = "same"
                          /\ e.strong = StrongEdge(decided[e.pair].evidence)
    BY <1>1
  <1>8. \A e \in edges' : /\ e.pair \in Decided("same")'
                          /\ e.strong = StrongEdge(verdicts'[e.pair].evidence)
    BY <1>1, <1>7 DEF Decided
  <1>9. Pinned("same")' = Pinned("same")
    BY <1>1 DEF Pinned
  <1>10. Partition' /\ pinned' = comp' /\ DOMAIN human' \subseteq Pairs
    BY <1>1 DEF PinsInv, Partition
  <1>. QED  BY <1>1, <1>6, <1>8, <1>9, <1>10 DEF PinsInv

LEMMA PinsReplayStep ==
  ASSUME PinsInv, ReplayPin
  PROVE  PinsInv'
  <1>1. PICK a \in Lead, b \in Lead : PinSame(a, b)
    BY DEF ReplayPin
  <1>2. /\ {a, b} \in pins /\ comp' = Joined(a, b) /\ pinned' = comp'
        /\ pins' = pins \ {{a, b}}
        /\ UNCHANGED <<forbidden, edges, human, step, verdicts>> /\ step = "cluster"
    BY <1>1 DEF PinSame, JoinedByPin, ReplayPin
  <1>3. ForestType /\ Partition /\ pinned = comp
    BY <1>2 DEF PinsInv
  <1>4. /\ comp' \in [Lead -> SUBSET Lead] /\ Partition'
        /\ \A l \in Lead : comp[l] \subseteq comp'[l]
        /\ b \in comp'[a] /\ a \in comp'[b]
    BY <1>2, <1>3, JoinFacts
  <1>5. ForestType'
    BY <1>2, <1>3, <1>4 DEF ForestType
  <1>6. ASSUME NEW p \in Pinned("same")
        PROVE  p \in pins' \/ \E l \in p : p \subseteq pinned'[l]
    <2>1. p \in Pairs
      BY DEF Pinned, PinsInv
    <2>2. CASE p = {a, b}
      <3>1. a \in comp'[a]
        BY <1>4 DEF Partition
      <3>. QED  BY <1>2, <1>4, <2>2, <3>1
    <2>3. CASE p # {a, b} /\ p \in pins
      BY <1>2, <2>3
    <2>4. CASE \E l \in p : p \subseteq pinned[l]
      <3>1. PICK l \in p : p \subseteq pinned[l]
        BY <2>4
      <3>2. l \in Lead
        BY <2>1 DEF Pairs
      <3>. QED  BY <1>2, <1>3, <1>4, <3>1, <3>2
    <2>. QED  BY <1>2, <2>2, <2>3, <2>4 DEF PinsInv
  <1>7. Pinned("same")' = Pinned("same") /\ Decided("same")' = Decided("same")
    BY <1>2 DEF Pinned, Decided
  <1>8. \A e \in edges : /\ e.pair \in Decided("same")
                         /\ e.strong = StrongEdge(verdicts[e.pair].evidence)
    BY <1>2 DEF PinsInv
  <1>. QED  BY <1>2, <1>4, <1>5, <1>6, <1>7, <1>8 DEF PinsInv

LEMMA PinsJoinStep ==
  ASSUME PinsInv, Join
  PROVE  PinsInv'
  <1>1. PICK e \in edges : Consider(e)
    BY DEF Join
  <1>2. /\ edges' = edges \ {e} /\ UNCHANGED <<pinned, pins, forbidden, human, step, verdicts>>
        /\ pins = {} /\ step = "cluster"
    BY <1>1 DEF Consider, Join
  <1>3. ForestType /\ Partition
    BY DEF PinsInv
  <1>4. PICK a \in e.pair, b \in e.pair : comp' = Joined(a, b) \/ comp' = comp
    BY <1>1 DEF Consider
  <1>5. a \in Lead /\ b \in Lead
    BY <1>3, <1>4 DEF ForestType, Edge, Pairs
  <1>6. comp' \in [Lead -> SUBSET Lead] /\ Partition'
    <2>1. CASE comp' = comp
      BY <1>3, <2>1 DEF ForestType, Partition
    <2>2. CASE comp' = Joined(a, b)
      BY <1>3, <1>5, <2>2, JoinFacts
    <2>. QED  BY <1>4, <2>1, <2>2
  <1>7. ForestType'
    BY <1>2, <1>3, <1>6 DEF ForestType
  <1>8. Pinned("same")' = Pinned("same") /\ Decided("same")' = Decided("same")
    BY <1>2 DEF Pinned, Decided
  <1>. QED  BY <1>2, <1>6, <1>7, <1>8 DEF PinsInv

LEMMA PinsStay ==
  ASSUME PinsInv, UNCHANGED <<forest, verdicts>>, DOMAIN human' \subseteq Pairs,
         \/ step' = step /\ human' = human
         \/ step = "load" /\ step' = "load"
         \/ step # "load" /\ step' # "load" /\ human' = human
  PROVE  PinsInv'
  <1>1. UNCHANGED <<comp, pinned, pins, forbidden, edges>>
    BY DEF forest
  <1>2. ForestType' /\ Partition'
    BY <1>1 DEF PinsInv, ForestType, Partition
  <1>3. CASE step = "load" /\ step' = "load"
    BY <1>1, <1>2, <1>3 DEF PinsInv
  <1>4. CASE step # "load" /\ step' # "load" /\ human' = human
    <2>1. Pinned("same")' = Pinned("same") /\ Decided("same")' = Decided("same")
      BY <1>4 DEF Pinned, Decided
    <2>. QED  BY <1>1, <1>2, <1>4, <2>1 DEF PinsInv
  <1>. QED  BY <1>3, <1>4

\* Every pin of a run is replayed before its edges are considered, and every
\* edge is a SAME verdict of the run.
THEOREM PinsInvariant == ResolverSpec => []PinsInv
<1>1. ResolverInit => PinsInv
  <2>. SUFFICES ASSUME ResolverInit PROVE PinsInv
    OBVIOUS
  <2>1. /\ comp = Singletons /\ pinned = Singletons /\ pins = {} /\ forbidden = {}
        /\ edges = {} /\ human = <<>> /\ step = "load"
    BY DEF ResolverInit, ForestInit
  <2>2. ForestType /\ Partition
    BY <2>1 DEF ForestType, Partition, Singletons
  <2>3. DOMAIN human = {}
    BY <2>1
  <2>. QED  BY <2>1, <2>2, <2>3 DEF PinsInv
<1>2. ResolverInv /\ PinsInv /\ [ResolverNext]_resolverVars => PinsInv'
  <2>. SUFFICES ASSUME ResolverInv, PinsInv, [ResolverNext]_resolverVars PROVE PinsInv'
    OBVIOUS
  <2>0. DOMAIN human \subseteq Pairs
    BY DEF PinsInv
  <2>1. CASE UNCHANGED resolverVars
    BY <2>0, <2>1, PinsStay DEF resolverVars
  <2>2. ASSUME NEW r \in Stored, LoadLead(r) PROVE PinsInv'
    BY <2>0, <2>2, PinsStay DEF LoadLead
  <2>3. ASSUME NEW p \in Pairs, NEW d \in {"same", "distinct"}, LoadOverride(p, d)
        PROVE  PinsInv'
    <3>1. /\ human' = [q \in DOMAIN human \cup {p} |-> IF q = p THEN d ELSE human[q]]
          /\ step = "load" /\ UNCHANGED <<forest, step, verdicts>>
      BY <2>3 DEF LoadOverride
    <3>2. DOMAIN human' = {p} \cup DOMAIN human
      BY <3>1
    <3>3. DOMAIN human' \subseteq Pairs
      BY <2>0, <3>2
    <3>. QED  BY <3>1, <3>3, PinsStay
  <2>4. CASE JudgeBatch \/ JudgeNew
    BY <2>4, PinsJudgeStep DEF JudgeBatch, JudgeNew
  <2>5. CASE ReplayPin
    BY <2>5, PinsReplayStep
  <2>6. CASE Join
    BY <2>6, PinsJoinStep
  <2>7. CASE Finish
    <3>1. step = "cluster" /\ step' = "done" /\ UNCHANGED <<forest, human, verdicts>>
      BY <2>7 DEF Finish
    <3>. QED  BY <2>0, <3>1, PinsStay
  <2>. QED  BY <2>1, <2>2, <2>3, <2>4, <2>5, <2>6, <2>7 DEF ResolverNext
<1>. QED  BY <1>1, <1>2, ResolverInvariant, PTL DEF ResolverSpec

\* The largest of a non-empty bounded set of numbers is a number.
LEMMA TopFacts ==
  ASSUME NEW n \in Nat, NEW S, S \subseteq 0..n, S # {}
  PROVE  Top(S) \in Int
  <1>1. \E m \in S : \A k \in S : k <= m
    BY Largest
  <1>2. S \subseteq Int
    OBVIOUS
  <1>. QED  BY <1>1, <1>2 DEF Top

\* The points of the best of several matches.
Share(m) == (9000 * m) \div 10000

LEMMA LargestShare ==
  ASSUME NEW A, A # {}, NEW m, \A p \in A : m[p] \in Int /\ m[p] >= 8000 /\ m[p] <= 10000
  PROVE  Top({Share(m[p]) : p \in A}) \in Int
  <1>1. PICK n \in Nat : n = 9000
    OBVIOUS
  <1>2. ASSUME NEW p \in A  PROVE Share(m[p]) \in 0..n
    <2>1. PICK k \in Int : k = m[p]
      OBVIOUS
    <2>2. k >= 8000 /\ k <= 10000
      BY <2>1
    <2>3. Share(k) \in 0..n
      BY <1>1, <2>2 DEF Share
    <2>. QED  BY <2>1, <2>3
  <1>3. {Share(m[p]) : p \in A} \subseteq 0..n /\ {Share(m[p]) : p \in A} # {}
    BY <1>2
  <1>. QED  BY <1>3, TopFacts

\* Contact evidence is a number, and without any the location cannot reach the
\* bar of a merge.
LEMMA ContactIsNumber ==
  ASSUME NEW f, NEW g, Typed(f), Typed(g)
  PROVE  Evidence(f, g).contact \in Int
  <1>1. PhoneSignal(f, g).identity \in Int
    <2>1. CASE f.phones \cap g.phones # {}
      <3>1. Cardinality(f.phones \cap g.phones) \in Nat
        BY FS_Intersection, FS_CardinalityType DEF Typed
      <3>2. /\ Cardinality(f.phones) \in Nat \ {0}
            /\ Cardinality(g.phones) \in Nat \ {0}
        BY <2>1, FS_CardinalityType, FS_EmptySet DEF Typed
      <3>3. Least(Cardinality(f.phones), Cardinality(g.phones)) \in Nat \ {0}
        BY <3>2 DEF Least
      <3>4. (8000 * Cardinality(f.phones \cap g.phones))
              \div Least(Cardinality(f.phones), Cardinality(g.phones)) \in Int
        BY <3>1, <3>3
      <3>. QED  BY <2>1, <3>4 DEF PhoneSignal, Signal, Silent
    <2>2. CASE f.phones \cap g.phones = {}
      BY <2>2 DEF PhoneSignal, Signal, Silent
    <2>. QED  BY <2>1, <2>2
  <1>2. SocialSignal(f, g).identity \in Int
    <2>. DEFINE common   == DOMAIN f.socials \cap DOMAIN g.socials
                match    == [p \in common |-> Ratio(f.socials[p], g.socials[p])]
                alike    == {p \in common : match[p] >= 8000}
                points   == {Share(match[p]) : p \in alike}
    <2>1. \A p \in common : match[p] \in Int /\ match[p] <= 10000
      BY RatioFacts DEF Typed
    <2>2. ASSUME alike # {}  PROVE Top(points) \in Int
      <3>1. \A p \in alike : match[p] \in Int /\ match[p] >= 8000 /\ match[p] <= 10000
        BY <2>1
      <3>. HIDE DEF match, alike
      <3>. QED  BY <2>2, <3>1, LargestShare
    <2>3. points = {(9000 * Ratio(f.socials[p], g.socials[p])) \div 10000 : p \in alike}
      BY DEF Share
    <2>4. alike = {p \in common : Ratio(f.socials[p], g.socials[p]) >= 8000}
      OBVIOUS
    <2>5. SocialSignal(f, g) =
            CASE alike # {}  -> Signal(Top(points), 0, 0, {})
              [] common # {} -> Signal(0, 0, 2500, {})
              [] common = {} /\ OtherPlatformSame(f, g) -> Signal(7500, 0, 0, {})
              [] OTHER -> Silent
      <3>. HIDE DEF points, alike, match
      <3>. QED  BY <2>3, <2>4 DEF SocialSignal
    <2>. HIDE DEF alike, common, points
    <2>. QED  BY <2>2, <2>5 DEF Signal, Silent
  <1>3. CrossReferenceSignal(f, g).identity \in Int
    BY DEF CrossReferenceSignal, Signal, Silent
  <1>4. EmailSignal(f, g).identity \in Int /\ WebsiteSignal(f, g).identity \in Int
    BY DEF EmailSignal, WebsiteSignal, Signal, Silent
  <1>5. Evidence(f, g).contact =
          PhoneSignal(f, g).identity + SocialSignal(f, g).identity
            + CrossReferenceSignal(f, g).identity + EmailSignal(f, g).identity
            + WebsiteSignal(f, g).identity
    BY DEF Evidence, OfContact, Signals
  <1>. QED  BY <1>1, <1>2, <1>3, <1>4, <1>5

LEMMA LocationIsCapped ==
  ASSUME NEW f, NEW g, Typed(f), Typed(g), IsSame(Evidence(f, g))
  PROVE  Evidence(f, g).contact > 0
  <1>1. GeoSignal(f, g).identity \in Int
    <2>. DEFINE located == f.place # None /\ g.place # None
                apart   == Metres[{f.place, g.place}]
                same    == located /\ apart < 200
                near    == located /\ apart \in 200..1999
                town    == located /\ apart \in 2000..9999
                differ  == (located => apart >= 10000) /\ WilayasDiffer(f, g)
                wilaya  == ~located /\ f.wilaya # None /\ f.wilaya = g.wilaya
    <2>1. GeoSignal(f, g) =
            CASE same -> Signal(6000, 0, 0, {"same_place"})
              [] near -> Signal(4000, 0, 0, {})
              [] town -> Signal(2000, 0, 0, {})
              [] differ -> Signal(0, 0, 3000, {"location_disagreement"})
              [] wilaya -> Signal(1500, 0, 0, {})
              [] OTHER -> Silent
      BY DEF GeoSignal
    <2>. HIDE DEF same, near, town, differ, wilaya
    <2>. QED  BY <2>1 DEF Signal, Silent
  <1>2. AddressSignal(f, g).identity \in Int
    <2>1. Jaccard(f.address, g.address) \in Int
      BY JaccardIsNumber DEF Typed
    <2>. QED  BY <2>1 DEF AddressSignal, Signal, Silent
  <1>3. PICK c \in Int : c = Evidence(f, g).contact
    BY ContactIsNumber
  <1>4. PICK l \in Int : l = GeoSignal(f, g).identity + AddressSignal(f, g).identity
    BY <1>1, <1>2
  <1>5. Evidence(f, g).identity = Evidence(f, g).contact + Capped(l)
    BY <1>4 DEF Evidence, OfLocation, Signals
  <1>6. Capped(l) \in Int /\ Capped(l) <= 5500
    BY DEF Capped, Least
  <1>7. c + Capped(l) >= 7000
    BY <1>3, <1>5 DEF IsSame, MergeIdentity
  <1>. QED  BY <1>3, <1>6, <1>7

\* What joins two records is contact evidence, or a pin.
THEOREM LocationAloneNeverMerges == ResolverSpec => []LocationNeverMerges
<1>1. ASSUME ResolverInv, PinsInv  PROVE LocationNeverMerges
  <2>. SUFFICES ASSUME step = "cluster", pins = {}, NEW e \in edges, ~e.strong
                PROVE  \E l \in e.pair : e.pair \subseteq pinned[l]
    BY DEF LocationNeverMerges
  <2>. DEFINE p == e.pair
  <2>1. p \in Decided("same") /\ ~StrongEdge(verdicts[p].evidence)
    BY <1>1 DEF PinsInv
  <2>2. PICK a \in 1..Len(leads), b \in 1..Len(leads) :
          verdicts[p] = Decision(p, EvidenceFor[leads[a]][leads[b]])
    BY <1>1, <2>1, VerdictFacts DEF Decided
  <2>. DEFINE f == Features(leads[a])
              g == Features(leads[b])
  <2>3. verdicts[p] = Decision(p, Evidence(f, g)) /\ verdicts[p].decision = "same"
    BY <1>1, <2>1, <2>2, EvidenceOfLeads DEF Decided
  <2>4. Typed(f) /\ Typed(g)
    BY <1>1, LeadsAreStored, FeatureTypes DEF Typed
  <2>. HIDE DEF f, g
  <2>5. ~(Evidence(f, g).contact > 0)
    BY <2>1, <2>3 DEF Decision, StrongEdge
  <2>6. ~IsSame(Evidence(f, g))
    BY <2>4, <2>5, LocationIsCapped
  <2>7. Classified(Evidence(f, g)) # "same"
    BY <2>6 DEF Classified
  <2>8. p \in Pinned("same")
    BY <2>3, <2>7 DEF Decision, Manual, Pinned
  <2>. QED  BY <1>1, <2>8 DEF PinsInv
<1>. QED  BY <1>1, ResolverInvariant, PinsInvariant, PTL

-----------------------------------------------------------------------------
\* Ranks.

\* A non-empty set of naturals has a smallest.
LEMMA Smallest ==
  ASSUME NEW S, S \subseteq Nat, S # {}
  PROVE  \E m \in S : \A k \in S : ~(k < m)
  <1>1. PICK m \in S : \A k \in S : <<k, m>> \notin OpToRel(<, Nat)
    BY WFMin, NatLessThanWellFounded, Zenon
  <1>2. \A k \in S : ~(k < m)
    BY <1>1, Zenon DEF OpToRel
  <1>. QED  BY <1>2

\* Of two ranks of one length that differ one is higher.
LEMMA HigherTotal ==
  ASSUME NEW s \in Seq(Int), NEW t \in Seq(Int), Len(s) = Len(t)
  PROVE  s = t \/ Higher(s, t) \/ Higher(t, s)
  <1>. SUFFICES ASSUME s # t  PROVE Higher(s, t) \/ Higher(t, s)
    OBVIOUS
  <1>. DEFINE D == {i \in 1..Len(s) : s[i] # t[i]}
  <1>1. D # {} /\ D \subseteq Nat
    <2>1. s = [i \in 1..Len(s) |-> s[i]] /\ t = [i \in 1..Len(t) |-> t[i]]
      OBVIOUS
    <2>2. ASSUME D = {}  PROVE FALSE
      <3>1. \A i \in 1..Len(s) : s[i] = t[i]
        BY <2>2
      <3>2. [i \in 1..Len(s) |-> s[i]] = [i \in 1..Len(t) |-> t[i]]
        BY <3>1
      <3>. QED  BY <2>1, <3>2, Zenon
    <2>. QED  BY <2>2, SMTT(30)
  <1>2. PICK i \in D : \A j \in D : ~(j < i)
    BY <1>1, Smallest
  <1>3. i \in 1..Len(s) /\ i \in 1..Len(t) /\ s[i] \in Int /\ t[i] \in Int /\ s[i] # t[i]
    OBVIOUS
  <1>4. \A j \in 1..(i - 1) : s[j] = t[j]
    <2>1. ASSUME NEW j \in 1..(i - 1), s[j] # t[j]  PROVE FALSE
      <3>1. j \in D /\ j < i
        BY <1>3, <2>1
      <3>. QED  BY <1>2, <3>1
    <2>. QED  BY <2>1
  <1>. HIDE DEF D
  <1>5. CASE s[i] > t[i]
    BY <1>3, <1>4, <1>5 DEF Higher
  <1>6. CASE t[i] > s[i]
    BY <1>3, <1>4, <1>6 DEF Higher
  <1>. QED  BY <1>3, <1>5, <1>6

LEMMA HigherIrreflexive == ASSUME NEW s \in Seq(Int)  PROVE ~Higher(s, s)
  BY DEF Higher

LEMMA HigherTransitive ==
  ASSUME NEW s \in Seq(Int), NEW t \in Seq(Int), NEW u \in Seq(Int),
         Len(s) = Len(t), Len(t) = Len(u), Higher(s, t), Higher(t, u)
  PROVE  Higher(s, u)
  <1>1. PICK i \in 1..Len(s) : s[i] > t[i] /\ \A j \in 1..(i - 1) : s[j] = t[j]
    BY DEF Higher
  <1>2. PICK k \in 1..Len(s) : t[k] > u[k] /\ \A j \in 1..(k - 1) : t[j] = u[j]
    BY DEF Higher
  <1>3. \A j \in 1..Len(s) : s[j] \in Int /\ t[j] \in Int /\ u[j] \in Int
    <2>1. \A j \in 1..Len(s) : s[j] \in Int
      BY SMTT(30)
    <2>2. \A j \in 1..Len(t) : t[j] \in Int
      BY SMTT(30)
    <2>3. \A j \in 1..Len(u) : u[j] \in Int
      BY SMTT(30)
    <2>. QED  BY <2>1, <2>2, <2>3
  <1>4. CASE i <= k
    <2>1. s[i] > u[i]
      <3>1. t[i] = u[i] \/ t[i] > u[i]
        BY <1>1, <1>2, <1>4
      <3>. QED  BY <1>1, <1>3, <3>1, SMTT(30)
    <2>2. \A j \in 1..(i - 1) : s[j] = u[j]
      BY <1>1, <1>2, <1>4
    <2>. QED  BY <2>1, <2>2 DEF Higher
  <1>5. CASE k < i
    <2>1. s[k] > u[k]
      BY <1>1, <1>2, <1>3, <1>5
    <2>2. \A j \in 1..(k - 1) : s[j] = u[j]
      BY <1>1, <1>2, <1>5
    <2>. QED  BY <2>1, <2>2 DEF Higher
  <1>. QED  BY <1>4, <1>5

\* The ranks of some positions: all of one length.
Ranks(n, k, rank) ==
  /\ DOMAIN rank \subseteq 1..n /\ DOMAIN rank # {}
  /\ \A i \in DOMAIN rank : rank[i] \in Seq(Int) /\ Len(rank[i]) = k

\* Some position is the first of the highest.
LEMMA FirstMaxExists ==
  ASSUME NEW n \in Nat, NEW k \in Nat, NEW rank, Ranks(n, k, rank)
  PROVE  \E i \in DOMAIN rank : \A j \in DOMAIN rank :
           ~Higher(rank[j], rank[i]) /\ (j < i => Higher(rank[i], rank[j]))
  <1>. DEFINE C == DOMAIN rank
              Leads(i, m) == \A j \in C : j <= m =>
                               ~Higher(rank[j], rank[i]) /\ (j < i => Higher(rank[i], rank[j]))
              T == {m \in Nat : \/ \A j \in C : j > m
                                \/ \E i \in C : i <= m /\ Leads(i, m)}
  <1>0. \A i \in C : i \in Nat /\ i >= 1 /\ i <= n
    BY DEF Ranks
  <1>1. 0 \in T
    BY <1>0
  <1>2. ASSUME NEW m \in Nat, m \in T  PROVE m + 1 \in T
    <2>1. CASE m + 1 \notin C
      <3>1. \A j \in C : (j > m => j > m + 1) /\ (j <= m + 1 => j <= m)
        BY <1>0, <2>1
      <3>2. CASE \A j \in C : j > m
        BY <3>1, <3>2
      <3>3. CASE \E i \in C : i <= m /\ Leads(i, m)
        <4>1. PICK i \in C : i <= m /\ Leads(i, m)
          BY <3>3
        <4>2. i <= m + 1 /\ Leads(i, m + 1)
          BY <1>0, <3>1, <4>1
        <4>. QED  BY <4>2
      <3>. QED  BY <1>2, <3>2, <3>3
    <2>2. CASE m + 1 \in C /\ \A j \in C : j > m
      <3>1. \A j \in C : j <= m + 1 => j = m + 1
        BY <1>0, <2>2
      <3>2. ~Higher(rank[m + 1], rank[m + 1])
        BY <2>2, HigherIrreflexive DEF Ranks
      <3>3. Leads(m + 1, m + 1)
        BY <2>2, <3>1, <3>2
      <3>. QED  BY <2>2, <3>3
    <2>3. CASE m + 1 \in C /\ \E i \in C : i <= m /\ Leads(i, m)
      <3>1. PICK i \in C : i <= m /\ Leads(i, m)
        BY <2>3
      <3>2. \A j \in C : rank[j] \in Seq(Int) /\ Len(rank[j]) = k
        BY DEF Ranks
      <3>3. CASE Higher(rank[m + 1], rank[i])
        <4>1. ASSUME NEW j \in C, j <= m  PROVE Higher(rank[m + 1], rank[j])
          <5>1. ~Higher(rank[j], rank[i])
            BY <3>1, <4>1
          <5>2. rank[i] = rank[j] \/ Higher(rank[i], rank[j])
            BY <3>2, <5>1, HigherTotal
          <5>. QED  BY <2>3, <3>2, <3>3, <5>2, HigherTransitive
        <4>2. ASSUME NEW j \in C, j <= m + 1
              PROVE  ~Higher(rank[j], rank[m + 1]) /\ (j < m + 1 => Higher(rank[m + 1], rank[j]))
          <5>1. CASE j = m + 1
            BY <2>3, <3>2, <5>1, HigherIrreflexive
          <5>2. CASE j <= m
            <6>1. Higher(rank[m + 1], rank[j])
              BY <4>1, <5>2
            <6>. QED  BY <2>3, <3>2, <6>1, HigherIrreflexive, HigherTransitive
          <5>. QED  BY <1>0, <4>2, <5>1, <5>2
        <4>. QED  BY <2>3, <4>2
      <3>4. CASE ~Higher(rank[m + 1], rank[i])
        <4>1. i <= m + 1 /\ Leads(i, m + 1)
          BY <1>0, <3>1, <3>4
        <4>. QED  BY <4>1
      <3>. QED  BY <3>3, <3>4
    <2>. QED  BY <1>2, <2>1, <2>2, <2>3
  <1>. HIDE DEF T
  <1>3. n \in T
    BY <1>1, <1>2, SetInduction
  <1>. USE DEF T
  <1>4. ~(\A j \in C : j > n)
    BY <1>0 DEF Ranks
  <1>5. PICK i \in C : Leads(i, n)
    BY <1>3, <1>4
  <1>. QED  BY <1>0, <1>5

LEMMA FirstMaxFacts ==
  ASSUME NEW n \in Nat, NEW k \in Nat, NEW rank, Ranks(n, k, rank)
  PROVE  /\ FirstMax(rank) \in DOMAIN rank
         /\ \A j \in DOMAIN rank : ~Higher(rank[j], rank[FirstMax(rank)])
  BY FirstMaxExists DEF FirstMax

\* h says which position of a group comes where in another order.
Order(n, h) == h \in Bijection(1..n, 1..n)

LEMMA OrderFacts ==
  ASSUME NEW n, NEW h, Order(n, h)
  PROVE  /\ h \in [1..n -> 1..n]
         /\ \A w \in 1..n : \E v \in 1..n : h[v] = w
         /\ \A u, v \in 1..n : h[u] = h[v] => u = v
  BY DEF Order, Bijection, Injection, IsInjective, Surjection

\* Where in the other order the members of S stand.
From(n, h, S) == {m \in 1..n : h[m] \in S}

Positions(n, S) == S \subseteq 1..n

LEMMA FromFacts ==
  ASSUME NEW n \in Nat, NEW h, Order(n, h), NEW S, Positions(n, S)
  PROVE  /\ From(n, h, S) \subseteq 1..n
         /\ \A m \in 1..n : m \in From(n, h, S) <=> h[m] \in S
         /\ \A i \in S : \E m \in From(n, h, S) : h[m] = i
         /\ \A u, v \in From(n, h, S) : h[u] = h[v] => u = v
  <1>1. /\ \A w \in 1..n : \E v \in 1..n : h[v] = w
        /\ \A u, v \in 1..n : h[u] = h[v] => u = v
    BY OrderFacts
  <1>2. From(n, h, S) \subseteq 1..n /\ \A m \in 1..n : m \in From(n, h, S) <=> h[m] \in S
    BY DEF From
  <1>3. ASSUME NEW i \in S  PROVE \E m \in From(n, h, S) : h[m] = i
    <2>1. PICK m \in 1..n : h[m] = i
      BY <1>1 DEF Positions
    <2>. QED  BY <1>2, <2>1
  <1>. QED  BY <1>1, <1>2, <1>3

\* In another order, the highest rank is the same.
LEMMA FirstMaxReordered ==
  ASSUME NEW n \in Nat, NEW k \in Nat, NEW rank, Ranks(n, k, rank), NEW h, Order(n, h),
         NEW other, DOMAIN other = From(n, h, DOMAIN rank),
         \A m \in DOMAIN other : other[m] = rank[h[m]]
  PROVE  /\ FirstMax(rank) \in DOMAIN rank
         /\ FirstMax(other) \in 1..n /\ h[FirstMax(other)] \in DOMAIN rank
         /\ rank[h[FirstMax(other)]] = rank[FirstMax(rank)]
  <1>1. \A w \in DOMAIN rank : \E m \in DOMAIN other : h[m] = w
    <2>1. Positions(n, DOMAIN rank)
      BY DEF Ranks, Positions
    <2>2. \A w \in DOMAIN rank : \E m \in From(n, h, DOMAIN rank) : h[m] = w
      BY <2>1, FromFacts
    <2>. QED  BY <2>2
  <1>2. Ranks(n, k, other)
    <2>1. DOMAIN other \subseteq 1..n /\ DOMAIN other # {}
      BY <1>1 DEF From, Ranks
    <2>2. \A m \in DOMAIN other : other[m] \in Seq(Int) /\ Len(other[m]) = k
      BY DEF From, Ranks
    <2>. QED  BY <2>1, <2>2 DEF Ranks
  <1>. DEFINE v == FirstMax(other)
              w == FirstMax(rank)
  <1>3. v \in DOMAIN other /\ \A m \in DOMAIN other : ~Higher(other[m], other[v])
    BY <1>2, FirstMaxFacts
  <1>4. w \in DOMAIN rank /\ \A i \in DOMAIN rank : ~Higher(rank[i], rank[w])
    BY FirstMaxFacts
  <1>. HIDE DEF v, w
  <1>5. v \in 1..n /\ h[v] \in DOMAIN rank /\ other[v] = rank[h[v]]
    BY <1>3 DEF From
  <1>6. ~Higher(rank[w], rank[h[v]])
    <2>1. PICK m \in DOMAIN other : h[m] = w
      BY <1>1, <1>4
    <2>2. other[m] = rank[w]
      BY <2>1
    <2>. QED  BY <1>3, <1>5, <2>2
  <1>7. ~Higher(rank[h[v]], rank[w])
    BY <1>4, <1>5
  <1>8. rank[h[v]] = rank[w]
    BY <1>4, <1>5, <1>6, <1>7, HigherTotal DEF Ranks
  <1>. QED  BY <1>4, <1>5, <1>8 DEF v, w

-----------------------------------------------------------------------------
\* A group and the same group in another order.

LEMMA MembersAreStored ==
  ASSUME leads \in Seq(Stored), NEW g
  PROVE  Members(g) \in Seq(Stored)
  <1>. DEFINE all   == [i \in 1..Len(leads) |-> i]
              order == Without(all, Lead \ g)
  <1>1. all \in Seq(1..Len(leads))
    OBVIOUS
  <1>2. order \in Seq(1..Len(leads))
    BY <1>1, WithoutIsSequence
  <1>3. Members(g) = [i \in 1..Len(order) |-> leads[order[i]]]
    BY DEF Members
  <1>. HIDE DEF order
  <1>4. \A i \in 1..Len(order) : leads[order[i]] \in Stored
    BY <1>2
  <1>. QED  BY <1>2, <1>3, <1>4

LEMMA IntervalSubset ==
  ASSUME NEW n \in Nat, NEW S, S \subseteq 1..n
  PROVE  IsFiniteSet(S) /\ Cardinality(S) \in 0..n
  <1>1. 1 \in Int /\ n \in Int
    OBVIOUS
  <1>2. IsFiniteSet(1..n) /\ Cardinality(1..n) = IF 1 > n THEN 0 ELSE (n - 1) + 1
    BY <1>1, FS_Interval
  <1>3. Cardinality(1..n) = n
    BY <1>2
  <1>4. IsFiniteSet(S) /\ Cardinality(S) <= n
    <2>1. IsFiniteSet(S) /\ Cardinality(S) <= Cardinality(1..n)
      BY <1>2, FS_Subset, ZenonT(40)
    <2>. QED  BY <1>3, <2>1
  <1>. QED  BY <1>4, FS_CardinalityType

\* other has the members of group in the order h.
Reordered(group, n, h, other) ==
  /\ group \in Seq(Stored) /\ n = Len(group) /\ Order(n, h)
  /\ other = [i \in 1..n |-> group[h[i]]]

LEMMA ReorderedFacts ==
  ASSUME NEW group, NEW n \in Nat, NEW h, NEW other, Reordered(group, n, h, other)
  PROVE  /\ DOMAIN group = 1..n /\ DOMAIN other = 1..n /\ Order(n, h)
         /\ \A i \in 1..n : /\ group[i] \in Stored /\ other[i] \in Stored
                            /\ h[i] \in 1..n /\ other[i] = group[h[i]]
  <1>1. /\ group \in Seq(Stored) /\ n = Len(group) /\ Order(n, h)
        /\ other = [i \in 1..n |-> group[h[i]]]
    BY DEF Reordered
  <1>2. h \in [1..n -> 1..n]
    BY <1>1, OrderFacts, Zenon
  <1>3. DOMAIN group = 1..n /\ \A i \in 1..n : group[i] \in Stored
    BY <1>1, SMTT(30)
  <1>4. DOMAIN other = 1..n /\ \A i \in 1..n : h[i] \in 1..n /\ other[i] = group[h[i]]
    BY <1>1, <1>2
  <1>. QED  BY <1>1, <1>3, <1>4

LEMMA FromCardinality ==
  ASSUME NEW n \in Nat, NEW h, Order(n, h), NEW S, S \subseteq 1..n
  PROVE  Cardinality(From(n, h, S)) = Cardinality(S)
  <1>1. IsFiniteSet(From(n, h, S))
    BY IntervalSubset DEF From
  <1>. DEFINE f == [m \in From(n, h, S) |-> h[m]]
  <1>2. /\ From(n, h, S) \subseteq 1..n
        /\ \A m \in 1..n : m \in From(n, h, S) <=> h[m] \in S
        /\ \A i \in S : \E m \in From(n, h, S) : h[m] = i
        /\ \A u, v \in From(n, h, S) : h[u] = h[v] => u = v
    <2>1. Positions(n, S)
      BY DEF Positions
    <2>. QED  BY <2>1, FromFacts
  <1>3. f \in Surjection(From(n, h, S), S)
    BY <1>2 DEF Surjection
  <1>4. f \in Injection(From(n, h, S), S)
    BY <1>2 DEF Injection, IsInjective
  <1>. QED  BY <1>1, <1>3, <1>4, FS_Surjection

LEMMA SpeltReordered ==
  ASSUME NEW group, NEW n \in Nat, NEW h, NEW other, Reordered(group, n, h, other), NEW key
  PROVE  /\ Spelt(group, key) \subseteq 1..n
         /\ Spelt(other, key) = From(n, h, Spelt(group, key))
         /\ Cardinality(Spelt(other, key)) = Cardinality(Spelt(group, key))
  <1>1. Spelt(group, key) \subseteq 1..n
    BY ReorderedFacts DEF Spelt
  <1>2. Spelt(other, key) = From(n, h, Spelt(group, key))
    BY ReorderedFacts DEF Spelt, From
  <1>. QED  BY <1>1, <1>2, ReorderedFacts, FromCardinality

LEMMA AgreedReordered ==
  ASSUME NEW group, NEW n \in Nat, NEW h, NEW other, Reordered(group, n, h, other)
  PROVE  AgreedSpelling(other) = AgreedSpelling(group)
  <1>1. /\ DOMAIN group = 1..n /\ DOMAIN other = 1..n /\ Order(n, h)
        /\ \A i \in 1..n : h[i] \in 1..n /\ other[i] = group[h[i]]
    BY ReorderedFacts
  <1>2. \A key : Cardinality(Spelt(other, key)) = Cardinality(Spelt(group, key))
    BY SpeltReordered
  <1>3. {NameKey(other[i].name) : i \in DOMAIN other} = {NameKey(group[i].name) : i \in DOMAIN group}
    <2>1. \A i \in 1..n : \E m \in 1..n : h[m] = i
      BY <1>1, OrderFacts
    <2>2. ASSUME NEW i \in 1..n  PROVE \E m \in 1..n : other[m] = group[i]
      <3>1. PICK m \in 1..n : h[m] = i
        BY <2>1
      <3>. QED  BY <1>1, <3>1
    <2>3. ASSUME NEW m \in 1..n  PROVE \E i \in 1..n : other[m] = group[i]
      BY <1>1
    <2>4. {NameKey(other[m].name) : m \in 1..n} \subseteq {NameKey(group[i].name) : i \in 1..n}
      BY <2>3
    <2>5. {NameKey(group[i].name) : i \in 1..n} \subseteq {NameKey(other[m].name) : m \in 1..n}
      BY <2>2
    <2>. QED  BY <1>1, <2>4, <2>5
  <1>. DEFINE keys == {NameKey(group[i].name) : i \in DOMAIN group} \ {<<>>}
              times == [k \in keys |-> Cardinality(Spelt(group, k))]
              most(t) == {k \in keys : t[k] >= 2 /\ \A l \in keys \ {k} : t[l] < t[k]}
  <1>4. AgreedSpelling(group) = most(times)
    BY DEF AgreedSpelling
  <1>5. AgreedSpelling(other) = most([k \in keys |-> Cardinality(Spelt(other, k))])
    BY <1>3 DEF AgreedSpelling
  <1>6. [k \in keys |-> Cardinality(Spelt(other, k))] = times
    BY <1>2
  <1>. HIDE DEF keys, times, most
  <1>. QED  BY <1>4, <1>5, <1>6

\* The steps of MajorityName, for any positions of a group.
LikeAs(group, S, i)  == {j \in S : group[j].name = group[i].name}
MostLike(group, S)   ==
  {i \in S : \A j \in S : Cardinality(LikeAs(group, S, j)) <= Cardinality(LikeAs(group, S, i))}
BySource(group, S)   == [i \in S |-> <<Trust[group[i].source], group[i].updated>>]
ByReading(group, S)  ==
  [i \in S |-> <<IF group[i].name.readable THEN 1 ELSE 0,
                 Trust[group[i].source], group[i].updated>>]
Written(group, S) == \E i \in MostLike(group, S) : Cardinality(LikeAs(group, S, i)) >= 2
Form(group, S)    ==
  IF Written(group, S) THEN FirstMax(BySource(group, MostLike(group, S)))
  ELSE FirstMax(ByReading(group, S))

LEMMA MajorityIsForm ==
  ASSUME NEW group, NEW key
  PROVE  MajorityName(group, key) = Form(group, Spelt(group, key))
  BY DEF MajorityName, Form, Written, MostLike, LikeAs, BySource, ByReading

LEMMA LikeReordered ==
  ASSUME NEW group, NEW n \in Nat, NEW h, NEW other, Reordered(group, n, h, other),
         NEW S, Positions(n, S)
  PROVE  \A m \in From(n, h, S) :
           Cardinality(LikeAs(other, From(n, h, S), m)) = Cardinality(LikeAs(group, S, h[m]))
  <1>. SUFFICES ASSUME NEW m \in From(n, h, S)
                PROVE  Cardinality(LikeAs(other, From(n, h, S), m))
                         = Cardinality(LikeAs(group, S, h[m]))
    OBVIOUS
  <1>1. \A i \in 1..n : h[i] \in 1..n /\ other[i] = group[h[i]]
    BY ReorderedFacts
  <1>2. LikeAs(other, From(n, h, S), m) = From(n, h, LikeAs(group, S, h[m]))
    BY <1>1 DEF LikeAs, From
  <1>3. LikeAs(group, S, h[m]) \subseteq 1..n
    BY DEF LikeAs, Positions
  <1>. DEFINE L == LikeAs(group, S, h[m])
  <1>4. Order(n, h)
    BY ReorderedFacts
  <1>5. L \subseteq 1..n /\ LikeAs(other, From(n, h, S), m) = From(n, h, L)
    BY <1>2, <1>3
  <1>. HIDE DEF L
  <1>6. Cardinality(From(n, h, L)) = Cardinality(L)
    BY <1>4, <1>5, FromCardinality
  <1>. QED  BY <1>5, <1>6 DEF L

LEMMA MostLikeReordered ==
  ASSUME NEW group, NEW n \in Nat, NEW h, NEW other, Reordered(group, n, h, other),
         NEW S, S \subseteq 1..n
  PROVE  /\ MostLike(other, From(n, h, S)) = From(n, h, MostLike(group, S))
         /\ Written(other, From(n, h, S)) <=> Written(group, S)
  <1>. DEFINE F == From(n, h, S)
              there == [m \in F |-> Cardinality(LikeAs(other, F, m))]
              here  == [i \in S |-> Cardinality(LikeAs(group, S, i))]
  <1>1. /\ F \subseteq 1..n /\ \A m \in 1..n : m \in F <=> h[m] \in S
        /\ \A i \in S : \E m \in F : h[m] = i
    <2>1. Order(n, h)
      BY ReorderedFacts
    <2>2. Positions(n, S)
      BY DEF Positions
    <2>. QED  BY <2>1, <2>2, FromFacts
  <1>2. ASSUME NEW m \in F  PROVE there[m] = here[h[m]]
    <2>1. h[m] \in S
      BY <1>1
    <2>2. Cardinality(LikeAs(other, F, m)) = Cardinality(LikeAs(group, S, h[m]))
      <3>1. Positions(n, S)
        BY DEF Positions
      <3>. QED  BY <3>1, LikeReordered
    <2>. QED  BY <2>1, <2>2
  <1>3. MostLike(other, F) = {m \in F : \A k \in F : there[k] <= there[m]}
    BY DEF MostLike
  <1>4. MostLike(group, S) = {i \in S : \A j \in S : here[j] <= here[i]}
    BY DEF MostLike
  <1>5. Written(other, F) <=> \E m \in MostLike(other, F) : there[m] >= 2
    BY <1>3 DEF Written
  <1>6. Written(group, S) <=> \E i \in MostLike(group, S) : here[i] >= 2
    BY <1>4 DEF Written
  <1>. HIDE DEF there, here, F
  <1>7. \A m \in F : (\A k \in F : there[k] <= there[m]) <=> \A j \in S : here[j] <= here[h[m]]
    BY <1>1, <1>2
  <1>8. \A m \in F : m \in MostLike(other, F) <=> h[m] \in MostLike(group, S)
    BY <1>1, <1>3, <1>4, <1>7
  <1>9. MostLike(other, F) = From(n, h, MostLike(group, S))
    <2>1. MostLike(group, S) \subseteq S /\ MostLike(other, F) \subseteq F
      BY <1>3, <1>4
    <2>. QED  BY <1>1, <1>8, <2>1 DEF From
  <1>10. (\E m \in MostLike(other, F) : there[m] >= 2) <=> \E i \in MostLike(group, S) : here[i] >= 2
    <2>1. ASSUME NEW m \in MostLike(other, F), there[m] >= 2
          PROVE  \E i \in MostLike(group, S) : here[i] >= 2
      BY <1>2, <1>3, <1>8, <2>1
    <2>2. ASSUME NEW i \in MostLike(group, S), here[i] >= 2
          PROVE  \E m \in MostLike(other, F) : there[m] >= 2
      <3>1. PICK m \in F : h[m] = i
        BY <1>1, <1>4
      <3>. QED  BY <1>2, <1>8, <2>2, <3>1
    <2>. QED  BY <2>1, <2>2
  <1>. QED  BY <1>5, <1>6, <1>9, <1>10 DEF F

LEMMA MostLikeExists ==
  ASSUME NEW group, NEW n \in Nat, NEW S, S \subseteq 1..n, S # {}
  PROVE  MostLike(group, S) # {}
  <1>. DEFINE size(i) == Cardinality(LikeAs(group, S, i))
              sizes   == {size(i) : i \in S}
  <1>1. ASSUME NEW i \in S  PROVE size(i) \in 0..n
    <2>1. LikeAs(group, S, i) \subseteq 1..n
      BY DEF LikeAs
    <2>. QED  BY <2>1, IntervalSubset
  <1>2. \A i \in S : MostLike(group, S) = {k \in S : \A j \in S : size(j) <= size(k)}
    BY DEF MostLike
  <1>. HIDE DEF size
  <1>3. sizes \subseteq 0..n /\ sizes # {}
    BY <1>1
  <1>4. PICK m \in sizes : \A k \in sizes : k <= m
    BY <1>3, Largest
  <1>. QED  BY <1>2, <1>4

\* Two records no rank tells apart by trust and time.
Tied(r, s) == Trust[r.source] = Trust[s.source] /\ r.updated = s.updated

\* The member m of the one order and the member i of the other.
SameMember(group, n, i, other, m) ==
  i \in 1..n /\ m \in 1..n /\ Tied(group[i], other[m])

LEMMA LeadRanks ==
  ASSUME NEW r \in Stored
  PROVE  /\ Trust[r.source] \in Int /\ r.updated \in Int
         /\ Present(r, "name") /\ Substance("name", r.name) \in Int
         /\ (IF r.name.readable THEN 1 ELSE 0) \in Int
  <1>1. IsLead(r)
    BY ResolverAssumption
  <1>2. r.source \in Source /\ r.updated \in Nat /\ r.name # None /\ IsText(r.name.words)
    BY <1>1 DEF IsLead
  <1>3. Trust[r.source] \in Int
    BY <1>2 DEF Trust, Source
  <1>4. Len(r.name.words) \in Nat
    BY <1>2 DEF IsText
  <1>. QED  BY <1>2, <1>3, <1>4 DEF Present, Substance

LEMMA RankOfTwo ==
  ASSUME NEW a \in Int, NEW b \in Int
  PROVE  <<a, b>> \in Seq(Int) /\ Len(<<a, b>>) = 2
  OBVIOUS

LEMMA RankOfThree ==
  ASSUME NEW a \in Int, NEW b \in Int, NEW c \in Int
  PROVE  <<a, b, c>> \in Seq(Int) /\ Len(<<a, b, c>>) = 3
  OBVIOUS

\* Ranks that hold trust and time choose the same member in any order, or tied
\* ones.
LEMMA ChosenInAnyOrder ==
  ASSUME NEW group, NEW n \in Nat, NEW h, NEW other, Reordered(group, n, h, other),
         NEW S, S \subseteq 1..n, NEW k \in Nat,
         NEW rank, Ranks(n, k, rank), DOMAIN rank = S,
         NEW back, DOMAIN back = From(n, h, S), \A m \in From(n, h, S) : back[m] = rank[h[m]],
         \A i, v \in S : rank[v] = rank[i] => Tied(group[i], group[v])
  PROVE  SameMember(group, n, FirstMax(rank), other, FirstMax(back))
  <1>1. Order(n, h) /\ \A m \in 1..n : other[m] = group[h[m]]
    BY ReorderedFacts
  <1>2. DOMAIN back = From(n, h, DOMAIN rank) /\ \A m \in DOMAIN back : back[m] = rank[h[m]]
    OBVIOUS
  <1>. DEFINE w == FirstMax(rank)
              v == FirstMax(back)
  <1>3. w \in S /\ v \in 1..n /\ h[v] \in S /\ rank[h[v]] = rank[w]
    BY <1>1, <1>2, FirstMaxReordered
  <1>. HIDE DEF v, w
  <1>4. Tied(group[w], group[h[v]]) /\ other[v] = group[h[v]]
    BY <1>1, <1>3
  <1>5. w \in 1..n /\ v \in 1..n /\ Tied(group[w], other[v])
    BY <1>3, <1>4
  <1>. QED  BY <1>5 DEF SameMember, v, w

LEMMA BySourceReordered ==
  ASSUME NEW group, NEW n \in Nat, NEW h, NEW other, Reordered(group, n, h, other),
         NEW S, S \subseteq 1..n, S # {}
  PROVE  SameMember(group, n, FirstMax(BySource(group, S)),
                    other, FirstMax(BySource(other, From(n, h, S))))
  <1>. DEFINE rank == BySource(group, S)
              back == BySource(other, From(n, h, S))
              t(i) == Trust[group[i].source]
              u(i) == group[i].updated
  <1>1. \A i \in 1..n : group[i] \in Stored /\ other[i] = group[h[i]]
    BY ReorderedFacts
  <1>2. DOMAIN rank = S /\ DOMAIN back = From(n, h, S)
    BY DEF BySource
  <1>3. \A i \in S : rank[i] = <<t(i), u(i)>>
    BY DEF BySource
  <1>4. \A m \in From(n, h, S) : back[m] = rank[h[m]]
    BY <1>1 DEF BySource, From
  <1>5. \A i \in S : t(i) \in Int /\ u(i) \in Int
    BY <1>1, LeadRanks
  <1>6. \A i, v \in S : t(v) = t(i) /\ u(v) = u(i) => Tied(group[i], group[v])
    BY DEF Tied
  <1>. HIDE DEF rank, back, t, u
  <1>7. Ranks(n, 2, rank)
    <2>1. ASSUME NEW i \in S  PROVE rank[i] \in Seq(Int) /\ Len(rank[i]) = 2
      <3>1. <<t(i), u(i)>> \in Seq(Int) /\ Len(<<t(i), u(i)>>) = 2
        BY <1>5, RankOfTwo
      <3>. QED  BY <1>3, <3>1, Zenon
    <2>. QED  BY <1>2, <2>1 DEF Ranks
  <1>8. ASSUME NEW i \in S, NEW v \in S, rank[v] = rank[i]  PROVE Tied(group[i], group[v])
    <2>1. <<t(v), u(v)>> = <<t(i), u(i)>>
      BY <1>3, <1>8, Zenon
    <2>2. t(v) = t(i) /\ u(v) = u(i)
      BY <2>1
    <2>. QED  BY <1>6, <2>2
  <1>9. SameMember(group, n, FirstMax(rank), other, FirstMax(back))
    BY <1>2, <1>4, <1>7, <1>8, ChosenInAnyOrder
  <1>. QED  BY <1>9 DEF rank, back

LEMMA ByReadingReordered ==
  ASSUME NEW group, NEW n \in Nat, NEW h, NEW other, Reordered(group, n, h, other),
         NEW S, S \subseteq 1..n, S # {}
  PROVE  SameMember(group, n, FirstMax(ByReading(group, S)),
                    other, FirstMax(ByReading(other, From(n, h, S))))
  <1>. DEFINE rank == ByReading(group, S)
              back == ByReading(other, From(n, h, S))
              q(i) == IF group[i].name.readable THEN 1 ELSE 0
              t(i) == Trust[group[i].source]
              u(i) == group[i].updated
  <1>1. \A i \in 1..n : group[i] \in Stored /\ other[i] = group[h[i]]
    BY ReorderedFacts
  <1>2. DOMAIN rank = S /\ DOMAIN back = From(n, h, S)
    BY DEF ByReading
  <1>3. \A i \in S : rank[i] = <<q(i), t(i), u(i)>>
    BY DEF ByReading
  <1>4. \A m \in From(n, h, S) : back[m] = rank[h[m]]
    BY <1>1 DEF ByReading, From
  <1>5. \A i \in S : q(i) \in Int /\ t(i) \in Int /\ u(i) \in Int
    BY <1>1, LeadRanks
  <1>6. \A i, v \in S : t(v) = t(i) /\ u(v) = u(i) => Tied(group[i], group[v])
    BY DEF Tied
  <1>. HIDE DEF rank, back, q, t, u
  <1>7. Ranks(n, 3, rank)
    <2>1. ASSUME NEW i \in S  PROVE rank[i] \in Seq(Int) /\ Len(rank[i]) = 3
      <3>1. <<q(i), t(i), u(i)>> \in Seq(Int) /\ Len(<<q(i), t(i), u(i)>>) = 3
        BY <1>5, RankOfThree
      <3>. QED  BY <1>3, <3>1, Zenon
    <2>. QED  BY <1>2, <2>1 DEF Ranks
  <1>8. ASSUME NEW i \in S, NEW v \in S, rank[v] = rank[i]  PROVE Tied(group[i], group[v])
    <2>1. <<q(v), t(v), u(v)>> = <<q(i), t(i), u(i)>>
      BY <1>3, <1>8, Zenon
    <2>2. t(v) = t(i) /\ u(v) = u(i)
      BY <2>1
    <2>. QED  BY <1>6, <2>2
  <1>9. SameMember(group, n, FirstMax(rank), other, FirstMax(back))
    BY <1>2, <1>4, <1>7, <1>8, ChosenInAnyOrder
  <1>. QED  BY <1>9 DEF rank, back

LEMMA RankedReordered ==
  ASSUME NEW group, NEW n \in Nat, NEW h, NEW other, Reordered(group, n, h, other), n # 0
  PROVE  SameMember(group, n, Ranked(group, "name"), other, Ranked(other, "name"))
  <1>. DEFINE S == 1..n
              t(r) == Trust[r.source]
              u(r) == r.updated
              q(r) == Substance("name", r.name)
              rank == [i \in S |-> <<t(group[i]), u(group[i]), q(group[i])>>]
              back == [i \in S |-> <<t(other[i]), u(other[i]), q(other[i])>>]
  <1>1. /\ DOMAIN group = S /\ DOMAIN other = S
        /\ \A i \in S : /\ group[i] \in Stored /\ other[i] \in Stored
                        /\ h[i] \in S /\ other[i] = group[h[i]]
    BY ReorderedFacts
  <1>2. {j \in DOMAIN group : Present(group[j], "name")} = S
    BY <1>1, LeadRanks
  <1>3. {j \in DOMAIN other : Present(other[j], "name")} = S
    BY <1>1, LeadRanks
  <1>4. Ranked(group, "name") = FirstMax(rank) /\ Ranked(other, "name") = FirstMax(back)
    BY <1>2, <1>3 DEF Ranked
  <1>5. DOMAIN rank = S /\ DOMAIN back = S /\ S # {} /\ S \subseteq 1..n
    <2>1. 1 \in S
      OBVIOUS
    <2>. QED  BY <2>1, Zenon
  <1>6. From(n, h, S) = S
    BY <1>1 DEF From
  <1>7. \A m \in S : back[m] = rank[h[m]]
    BY <1>1
  <1>8. \A i \in S : t(group[i]) \in Int /\ u(group[i]) \in Int /\ q(group[i]) \in Int
    BY <1>1, LeadRanks
  <1>9. \A r, s : t(r) = t(s) /\ u(r) = u(s) => Tied(s, r)
    BY DEF Tied
  <1>10. \A i \in S : rank[i] = <<t(group[i]), u(group[i]), q(group[i])>>
    OBVIOUS
  <1>. HIDE DEF rank, back, t, u, q, S
  <1>11. Ranks(n, 3, rank)
    <2>1. ASSUME NEW i \in S  PROVE rank[i] \in Seq(Int) /\ Len(rank[i]) = 3
      <3>. DEFINE r == group[i]
      <3>1. <<t(r), u(r), q(r)>> \in Seq(Int) /\ Len(<<t(r), u(r), q(r)>>) = 3
        BY <1>8, RankOfThree
      <3>. QED  BY <1>10, <3>1, Zenon
    <2>. QED  BY <1>5, <2>1 DEF Ranks
  <1>12. ASSUME NEW i \in S, NEW v \in S, rank[v] = rank[i]  PROVE Tied(group[i], group[v])
    <2>. DEFINE r == group[v]
                s == group[i]
    <2>1. <<t(r), u(r), q(r)>> = <<t(s), u(s), q(s)>>
      BY <1>10, <1>12, Zenon
    <2>2. t(r) = t(s) /\ u(r) = u(s)
      BY <2>1
    <2>. QED  BY <1>9, <2>2
  <1>13. SameMember(group, n, FirstMax(rank), other, FirstMax(back))
    BY <1>5, <1>6, <1>7, <1>11, <1>12, ChosenInAnyOrder
  <1>. QED  BY <1>4, <1>13

LEMMA MajorityReordered ==
  ASSUME NEW group, NEW n \in Nat, NEW h, NEW other, Reordered(group, n, h, other),
         NEW key, Spelt(group, key) # {}
  PROVE  SameMember(group, n, MajorityName(group, key), other, MajorityName(other, key))
  <1>. DEFINE S   == Spelt(group, key)
              F   == From(n, h, S)
              top == MostLike(group, S)
  <1>1. S \subseteq 1..n /\ S # {} /\ Spelt(other, key) = F
    BY SpeltReordered
  <1>2. MajorityName(group, key) = Form(group, S) /\ MajorityName(other, key) = Form(other, F)
    BY <1>1, MajorityIsForm
  <1>. HIDE DEF S
  <1>3. /\ MostLike(other, F) = From(n, h, top)
        /\ Written(other, F) <=> Written(group, S)
    BY <1>1, MostLikeReordered
  <1>4. top \subseteq 1..n /\ top # {}
    BY <1>1, MostLikeExists DEF MostLike
  <1>5. CASE Written(group, S)
    <2>1. Form(group, S) = FirstMax(BySource(group, top))
      BY <1>5 DEF Form
    <2>2. Form(other, F) = FirstMax(BySource(other, From(n, h, top)))
      BY <1>3, <1>5 DEF Form
    <2>. HIDE DEF top, F
    <2>. QED  BY <1>2, <1>4, <2>1, <2>2, BySourceReordered
  <1>6. CASE ~Written(group, S)
    <2>1. Form(group, S) = FirstMax(ByReading(group, S))
      BY <1>6 DEF Form
    <2>2. Form(other, F) = FirstMax(ByReading(other, F))
      BY <1>3, <1>6 DEF Form
    <2>. QED  BY <1>1, <1>2, <2>1, <2>2, ByReadingReordered
  <1>. QED  BY <1>5, <1>6

LEMMA WinnerReordered ==
  ASSUME NEW group, NEW n \in Nat, NEW h, NEW other, Reordered(group, n, h, other), n # 0
  PROVE  SameMember(group, n, Winner(group, "name"), other, Winner(other, "name"))
  <1>1. AgreedSpelling(other) = AgreedSpelling(group)
    BY AgreedReordered
  <1>2. CASE AgreedSpelling(group) # {}
    <2>. DEFINE key == CHOOSE k \in AgreedSpelling(group) : TRUE
    <2>1. Winner(group, "name") = MajorityName(group, key)
      BY <1>2 DEF Winner
    <2>2. Winner(other, "name") = MajorityName(other, key)
      BY <1>1, <1>2 DEF Winner
    <2>3. key \in AgreedSpelling(group)
      BY <1>2
    <2>. HIDE DEF key
    <2>4. PICK i \in DOMAIN group : key = NameKey(group[i].name)
      BY <2>3 DEF AgreedSpelling
    <2>5. Spelt(group, key) # {}
      BY <2>4 DEF Spelt
    <2>. QED  BY <2>1, <2>2, <2>5, MajorityReordered
  <1>3. CASE AgreedSpelling(group) = {}
    <2>1. /\ DOMAIN group = 1..n /\ DOMAIN other = 1..n /\ 1 \in 1..n
          /\ \A i \in 1..n : group[i] \in Stored /\ other[i] \in Stored
      BY ReorderedFacts
    <2>2. Present(group[1], "name") /\ Present(other[1], "name")
      BY <2>1, LeadRanks
    <2>3. /\ Winner(group, "name") = Ranked(group, "name")
          /\ Winner(other, "name") = Ranked(other, "name")
      BY <1>1, <1>3, <2>1, <2>2, SMTT(30) DEF Winner
    <2>. QED  BY <2>3, RankedReordered
  <1>. QED  BY <1>2, <1>3

\* Whatever the leads, the name an entity shows is the same in every order of
\* its members, but for members no source and no time of update tells apart.
THEOREM NamesIndependentOfOrder == ResolverSpec => []NameIndependentOfOrder
<1>1. ASSUME ResolverInv  PROVE NameIndependentOfOrder
  <2>. SUFFICES ASSUME NEW g, NEW h \in Bijection(DOMAIN Members(g), DOMAIN Members(g))
                PROVE  LET group == Members(g)
                           r     == group[Winner(group, "name")]
                           other == [i \in DOMAIN group |-> group[h[i]]]
                           s     == other[Winner(other, "name")]
                       IN r.name = s.name \/ (Trust[r.source] = Trust[s.source] /\ r.updated = s.updated)
    BY Zenon DEF NameIndependentOfOrder
  <2>. DEFINE group == Members(g)
              other == [i \in DOMAIN group |-> group[h[i]]]
              w     == Winner(group, "name")
              v     == Winner(other, "name")
  <2>1. group \in Seq(Stored)
    BY <1>1, MembersAreStored DEF ResolverInv
  <2>2. h \in Bijection(DOMAIN group, DOMAIN group)
    OBVIOUS
  <2>. HIDE DEF group
  <2>3. PICK n \in Nat : n = Len(group)
    BY <2>1
  <2>4. DOMAIN group = 1..n
    BY <2>1, <2>3
  <2>5. CASE n = 0
    <3>1. 1..n = {}
      BY <2>5
    <3>2. group = [i \in 1..n |-> group[i]] /\ other = [i \in 1..n |-> group[h[i]]]
      BY <2>1, <2>3, <2>4
    <3>. HIDE DEF other
    <3>3. other = group
      BY <3>1, <3>2, SMTT(30)
    <3>. QED  BY <3>3 DEF group, other
  <2>6. CASE n # 0
    <3>1. Reordered(group, n, h, other)
      BY <2>1, <2>2, <2>3, <2>4 DEF Reordered, Order
    <3>. HIDE DEF other
    <3>2. SameMember(group, n, w, other, v)
      BY <2>6, <3>1, WinnerReordered
    <3>3. Tied(group[w], other[v])
      BY <3>2 DEF SameMember
    <3>. HIDE DEF v, w
    <3>4. Trust[group[w].source] = Trust[other[v].source] /\ group[w].updated = other[v].updated
      BY <3>3 DEF Tied
    <3>. QED  BY <3>4 DEF other, v, w, group
  <2>. QED  BY <2>5, <2>6
<1>. QED  BY <1>1, ResolverInvariant, PTL
=============================================================================
