------------------------- MODULE ScraperStreams_proofs -------------------------
(***************************************************************************)
(* Proofs about a discovery campaign, for any pumps, capacity and limit:   *)
(* it leaves no pump behind, and completes below its limit only when its   *)
(* sources are exhausted.  The latter counts: while the generator reads,   *)
(* end items read and end items queued are as many as the pumps that are   *)
(* done, and the last pump to be done put the last item of the queue.      *)
(* Last, the scrapers take no step a stream of the campaign may not take.  *)
(***************************************************************************)
EXTENDS ScraperStreams, FiniteSetTheorems, FunctionTheorems, SequenceTheorems, TLAPS

-----------------------------------------------------------------------------
\* Where the end items are.
EndsAt(q) == {i \in DOMAIN q : q[i] = End}
EndsIn(q) == Cardinality(EndsAt(q))

LEMMA EndsFinite ==
  ASSUME NEW q \in Seq(Item)
  PROVE  IsFiniteSet(EndsAt(q)) /\ EndsIn(q) \in Nat
<1>1. DOMAIN q = 1..Len(q) /\ Len(q) \in Nat
  BY LenProperties
<1>2. EndsAt(q) \subseteq 1..Len(q)
  BY <1>1 DEF EndsAt
<1>3. IsFiniteSet(1..Len(q))
  BY <1>1, FS_Interval
<1>4. IsFiniteSet(EndsAt(q))
  BY <1>2, <1>3, FS_Subset
<1>. QED BY <1>4, FS_CardinalityType DEF EndsIn

\* Appending an end item counts one more, appending a lead none.
LEMMA EndsOfAppend ==
  ASSUME NEW q \in Seq(Item), NEW item \in Item
  PROVE  /\ Append(q, item) \in Seq(Item) /\ Append(q, item) # <<>>
         /\ Append(q, item)[Len(Append(q, item))] = item
         /\ EndsIn(Append(q, item)) = EndsIn(q) + IF item = End THEN 1 ELSE 0
<1> DEFINE u == Append(q, item)
<1>1. /\ Len(q) \in Nat /\ DOMAIN q = 1..Len(q)
      /\ u \in Seq(Item) /\ u # <<>> /\ Len(u) = Len(q) + 1 /\ DOMAIN u = 1..(Len(q) + 1)
      /\ u[Len(q) + 1] = item /\ \A i \in 1..Len(q) : u[i] = q[i]
  BY AppendProperties, LenProperties
<1>2. /\ item = End => EndsAt(u) = EndsAt(q) \cup {Len(q) + 1}
      /\ item # End => EndsAt(u) = EndsAt(q)
  <2>1. ASSUME NEW i PROVE i \in EndsAt(u) <=> i \in EndsAt(q) \/ (i = Len(q) + 1 /\ item = End)
    <3>1. i \in 1..(Len(q) + 1) <=> i \in 1..Len(q) \/ i = Len(q) + 1
      BY <1>1
    <3>2. i \in 1..Len(q) => i # Len(q) + 1
      BY <1>1
    <3>. QED BY <1>1, <3>1, <3>2 DEF EndsAt
  <2>. QED BY <2>1
<1>3. Len(q) + 1 \notin EndsAt(q)
  BY <1>1 DEF EndsAt
<1>4. EndsIn(u) = EndsIn(q) + IF item = End THEN 1 ELSE 0
  <2>1. IsFiniteSet(EndsAt(q)) /\ EndsIn(q) \in Nat
    BY EndsFinite
  <2>2. CASE item = End
    BY <1>2, <1>3, <2>1, <2>2, FS_AddElement DEF EndsIn
  <2>3. CASE item # End
    BY <1>2, <2>1, <2>3 DEF EndsIn
  <2>. QED BY <2>2, <2>3
<1>. QED BY <1>1, <1>4

\* Taking the head counts one less if it was an end item; what was last stays
\* last.
LEMMA EndsOfTail ==
  ASSUME NEW q \in Seq(Item), q # <<>>
  PROVE  /\ Head(q) \in Item /\ Tail(q) \in Seq(Item) /\ Len(Tail(q)) = Len(q) - 1
         /\ EndsIn(Tail(q)) = EndsIn(q) - IF Head(q) = End THEN 1 ELSE 0
         /\ Tail(q) = <<>> \/ Tail(q)[Len(Tail(q))] = q[Len(q)]
<1> DEFINE u == Tail(q)
           rest == EndsAt(q) \ {1}
           shift == [i \in EndsAt(u) |-> i + 1]
<1>1. /\ Len(q) \in Nat \ {0} /\ DOMAIN q = 1..Len(q) /\ Head(q) = q[1] /\ Head(q) \in Item
      /\ u \in Seq(Item) /\ Len(u) = Len(q) - 1 /\ DOMAIN u = 1..Len(u)
      /\ \A i \in 1..Len(u) : u[i] = q[i + 1]
  BY HeadTailProperties, LenProperties, EmptySeq
<1>2. shift \in Bijection(EndsAt(u), rest)
  <2>1. \A i \in EndsAt(u) : i + 1 \in rest
    BY <1>1 DEF EndsAt
  <2>2. \A j \in rest : j - 1 \in EndsAt(u) /\ shift[j - 1] = j
    BY <1>1 DEF EndsAt
  <2>3. \A i, j \in EndsAt(u) : shift[i] = shift[j] => i = j
    BY <1>1 DEF EndsAt
  <2>. QED BY <2>1, <2>2, <2>3 DEF Bijection, Injection, Surjection, IsInjective
<1>3. EndsIn(u) = Cardinality(rest)
  BY <1>1, <1>2, EndsFinite, FS_Bijection DEF ExistsBijection, EndsIn
<1>4. 1 \in EndsAt(q) <=> Head(q) = End
  BY <1>1 DEF EndsAt
<1>5. Cardinality(rest) = EndsIn(q) - IF Head(q) = End THEN 1 ELSE 0
  <2>1. IsFiniteSet(EndsAt(q)) /\ EndsIn(q) \in Nat
    BY EndsFinite
  <2>2. Cardinality(rest) = IF 1 \in EndsAt(q) THEN Cardinality(EndsAt(q)) - 1 ELSE Cardinality(EndsAt(q))
    BY <2>1, FS_RemoveElement
  <2>. QED BY <1>4, <2>1, <2>2 DEF EndsIn
<1>6. u # <<>> => u[Len(u)] = q[Len(q)]
  <2>1. u # <<>> => Len(u) \in 1..Len(u) /\ Len(u) + 1 = Len(q)
    BY <1>1, EmptySeq
  <2>. QED BY <1>1, <2>1
<1>. QED BY <1>1, <1>3, <1>5, <1>6

-----------------------------------------------------------------------------
\* The inductive invariant.

Gone == {p \in Pump : pump[p] = "done"}

LEMMA GoneFinite ==
  /\ IsFiniteSet(Gone) /\ Cardinality(Gone) \in Nat /\ Cardinality(Pump) \in Nat
  /\ Cardinality(Gone) <= Cardinality(Pump)
  /\ Cardinality(Gone) = Cardinality(Pump) => Gone = Pump
<1>1. Gone \subseteq Pump
  BY DEF Gone
<1>2. IsFiniteSet(Gone) /\ Cardinality(Gone) <= Cardinality(Pump)
      /\ (Cardinality(Gone) = Cardinality(Pump) => Gone = Pump)
  BY <1>1, CampaignAssumption, FS_Subset
<1>. QED BY <1>2, CampaignAssumption, FS_CardinalityType

\* The state variables' types, the bounds on counters aside.
Types ==
  /\ queue \in Seq(Item)
  /\ pump \in [Pump -> PumpStage]
  /\ hand \in [Pump -> Fingerprint \cup {Idle}]
  /\ reader \in {"open", "closing", "closed"}
  /\ finished \in Nat
  /\ service \in Service
  /\ seen \subseteq Fingerprint
  /\ limit \in Nat
  /\ \A p \in Pump : pump[p] = "putting" => hand[p] \in Fingerprint

\* Where the generator is, by where the campaign is.
Life ==
  /\ service \in {"new", "finishing", "resolving", "returned"} => reader = "closed"
  /\ service \in {"consuming", "saving"} => reader = "open"
  /\ service = "closing" => reader = "closing"
  /\ reader = "closed" => Gone = Pump
  /\ service = "new" => queue = <<>> /\ finished = 0 /\ seen = {}
  /\ record.status = "completed" => service \in {"resolving", "returned"}

\* While the generator reads.
Counted ==
  reader = "open" =>
    /\ finished + EndsIn(queue) = Cardinality(Gone)
    /\ Gone = Pump => queue = <<>> \/ queue[Len(queue)] = End

\* What was yielded is saved, unless saving raised.
Saved ==
  /\ saving = Idle \/ service = "saving"
  /\ service \notin {"failing", "raised"} => seen \subseteq known \cup {saving}

Exhausted == Gone = Pump /\ queue = <<>> /\ finished = Cardinality(Pump)

\* Why the generator closed.
Ended ==
  service \in {"closing", "finishing", "resolving", "returned"} =>
    seen = {} \/ LimitReached \/ Exhausted

CampaignInv == Types /\ Life /\ Counted /\ Saved /\ Ended

\* When as many end items are read as there are pumps, nothing is unread.
LEMMA AllFinishedExhausts ==
  ASSUME Types, Counted, reader = "open", AllFinished
  PROVE  Exhausted
<1>1. finished + EndsIn(queue) = Cardinality(Gone) /\ finished >= Cardinality(Pump)
  BY DEF Counted, AllFinished
<1>2. EndsIn(queue) \in Nat /\ IsFiniteSet(EndsAt(queue))
  BY EndsFinite DEF Types
<1>3. finished = Cardinality(Pump) /\ Gone = Pump /\ EndsIn(queue) = 0
  BY <1>1, <1>2, GoneFinite DEF Types
<1>4. EndsAt(queue) = {}
  BY <1>2, <1>3, FS_EmptySet DEF EndsIn
<1>5. queue # <<>> => Len(queue) \in DOMAIN queue
  BY EmptySeq, LenProperties DEF Types
<1>6. queue = <<>>
  BY <1>3, <1>4, <1>5 DEF Counted, EndsAt
<1>. QED BY <1>3, <1>6 DEF Exhausted

-----------------------------------------------------------------------------
\* Steps of a pump.

LEMMA GoneNext ==
  ASSUME pump \in [Pump -> PumpStage], NEW p \in Pump, NEW x \in PumpStage,
         pump' = [pump EXCEPT ![p] = x], pump[p] # "done"
  PROVE  /\ Gone # Pump
         /\ Gone' = IF x = "done" THEN Gone \cup {p} ELSE Gone
         /\ p \notin Gone
         /\ pump' \in [Pump -> PumpStage]
BY DEF Gone

\* The generator reads: a pump that goes on adds a lead at most.
LEMMA PumpGoesOn ==
  ASSUME CampaignInv, NEW p \in Pump, reader = "open", pump[p] # "done",
         Gone' = Gone, pump' \in [Pump -> PumpStage],
         queue' = queue \/ \E f \in Fingerprint : queue' = Append(queue, f),
         hand' \in [Pump -> Fingerprint \cup {Idle}],
         \A q \in Pump : pump'[q] = "putting" => hand'[q] \in Fingerprint,
         UNCHANGED <<consumer, books, fixed>>
  PROVE  CampaignInv'
<1> USE DEF CampaignInv, consumer, books, fixed
<1>0. Gone # Pump
  BY DEF Gone
<1>1. queue' \in Seq(Item) /\ EndsIn(queue') = EndsIn(queue) /\ EndsIn(queue) \in Nat
  <2>1. EndsIn(queue) \in Nat /\ queue \in Seq(Item)
    BY EndsFinite DEF Types
  <2>2. CASE queue' = queue
    BY <2>1, <2>2
  <2>3. ASSUME NEW f \in Fingerprint, queue' = Append(queue, f)
        PROVE  queue' \in Seq(Item) /\ EndsIn(queue') = EndsIn(queue)
    <3>1. f \in Item /\ f # End
      BY CampaignAssumption DEF Item
    <3>2. /\ Append(queue, f) \in Seq(Item)
          /\ EndsIn(Append(queue, f)) = EndsIn(queue) + IF f = End THEN 1 ELSE 0
      BY <2>1, <3>1, EndsOfAppend
    <3>. QED BY <2>1, <2>3, <3>1, <3>2
  <2>. QED BY <2>1, <2>2, <2>3
<1>2. Types'
  BY <1>1 DEF Types
<1>3. Life'
  BY DEF Life
<1>4. Counted'
  BY <1>0, <1>1 DEF Counted, EndsIn, EndsAt
<1>5. Saved' /\ Ended'
  BY <1>0 DEF Saved, Ended, Life, LimitReached, Exhausted
<1>. QED BY <1>2, <1>3, <1>4, <1>5

\* The generator reads: a pump that ends adds its end item.
LEMMA PumpEnds ==
  ASSUME CampaignInv, NEW p \in Pump, reader = "open", pump[p] # "done",
         pump' = [pump EXCEPT ![p] = "done"], queue' = Append(queue, End), hand' = hand,
         UNCHANGED <<consumer, books, fixed>>
  PROVE  CampaignInv'
<1> USE DEF CampaignInv, consumer, books, fixed
<1>1. /\ Gone' = Gone \cup {p} /\ p \notin Gone /\ pump' \in [Pump -> PumpStage]
  BY GoneNext DEF Types, PumpStage
<1>2. /\ queue' \in Seq(Item) /\ queue' # <<>> /\ queue'[Len(queue')] = End
      /\ EndsIn(queue') = EndsIn(queue) + 1 /\ EndsIn(queue) \in Nat
  <2>1. queue \in Seq(Item) /\ End \in Item
    BY DEF Types, Item
  <2>. QED BY <2>1, EndsOfAppend, EndsFinite
<1>3. Cardinality(Gone') = Cardinality(Gone) + 1
  BY <1>1, GoneFinite, FS_AddElement
<1>4. Types'
  BY <1>1, <1>2 DEF Types
<1>5. Life'
  BY DEF Life
<1>6. Counted'
  <2>1. finished + EndsIn(queue) = Cardinality(Gone) /\ finished \in Nat
    BY DEF Counted, Types
  <2>2. finished' + EndsIn(queue') = Cardinality(Gone')
    BY <1>2, <1>3, <2>1, GoneFinite
  <2>. QED BY <1>2, <2>2 DEF Counted
<1>7. Saved' /\ Ended'
  BY DEF Saved, Ended, Life, LimitReached
<1>. QED BY <1>4, <1>5, <1>6, <1>7

\* The generator closes: an exhausted campaign has no pump to cancel.
LEMMA PumpIsCancelled ==
  ASSUME CampaignInv, NEW p \in Pump, Cancelled(p)
  PROVE  CampaignInv'
<1> USE DEF CampaignInv, consumer, books, fixed
<1>1. reader = "closing" /\ pump[p] # "done" /\ UNCHANGED <<consumer, books, fixed>>
  BY DEF Cancelled
<1>2. Gone # Pump
  BY <1>1 DEF Gone
<1>3. queue' \in Seq(Item)
  <2>1. queue \in Seq(Item) /\ End \in Item
    BY DEF Types, Item
  <2>. QED BY <2>1, AppendProperties DEF Cancelled, Put
<1>4. /\ pump' \in [Pump -> PumpStage]
      /\ hand' = [hand EXCEPT ![p] = Idle]
      /\ pump'[p] # "putting" /\ \A q \in Pump \ {p} : pump'[q] = pump[q]
  <2>1. \E x \in {"done", "draining"} : pump' = [pump EXCEPT ![p] = x]
    BY DEF Cancelled
  <2>. QED BY <2>1 DEF Cancelled, Types, PumpStage
<1>5. Types'
  BY <1>1, <1>3, <1>4 DEF Types
<1>6. Life' /\ Counted'
  BY <1>1 DEF Life, Counted
<1>7. Saved' /\ Ended'
  BY <1>1, <1>2 DEF Saved, Ended, Exhausted, LimitReached, Life
<1>. QED BY <1>5, <1>6, <1>7

LEMMA PumpStep ==
  ASSUME CampaignInv, NEW p \in Pump,
         Begin(p) \/ Deliver(p) \/ PutLead(p) \/ EndStream(p) \/ PutEnd(p) \/ Cancelled(p)
  PROVE  CampaignInv'
<1> USE DEF PumpStage
<1>0. Types
  BY DEF CampaignInv
<1>1. CASE Begin(p)
  BY <1>0, <1>1, PumpGoesOn, GoneNext DEF Begin, Types
<1>2. CASE Deliver(p)
  <2>1. PICK f \in Fingerprint :
          \/ Put(f) /\ UNCHANGED <<pump, hand>>
          \/ /\ Full
             /\ pump' = [pump EXCEPT ![p] = "putting"]
             /\ hand' = [hand EXCEPT ![p] = f]
             /\ UNCHANGED queue
    BY <1>2 DEF Deliver
  <2>2. reader = "open" /\ pump[p] # "done" /\ UNCHANGED <<consumer, books, fixed>>
    BY <1>2 DEF Deliver
  <2>3. CASE Put(f) /\ UNCHANGED <<pump, hand>>
    BY <1>0, <2>2, <2>3, PumpGoesOn DEF Put, Types, Gone
  <2>4. CASE /\ pump' = [pump EXCEPT ![p] = "putting"]
             /\ hand' = [hand EXCEPT ![p] = f] /\ UNCHANGED queue
    BY <1>0, <2>2, <2>4, PumpGoesOn, GoneNext DEF Types
  <2>. QED BY <2>1, <2>3, <2>4
<1>3. CASE PutLead(p)
  BY <1>0, <1>3, PumpGoesOn, GoneNext DEF PutLead, Put, Types
<1>4. CASE EndStream(p)
  <2>1. CASE Put(End) /\ pump' = [pump EXCEPT ![p] = "done"]
    BY <1>4, <2>1, PumpEnds DEF EndStream, Put
  <2>2. CASE pump' = [pump EXCEPT ![p] = "ending"] /\ UNCHANGED queue
    BY <1>0, <1>4, <2>2, PumpGoesOn, GoneNext DEF EndStream, Types
  <2>. QED BY <1>4, <2>1, <2>2 DEF EndStream
<1>5. CASE PutEnd(p)
  BY <1>5, PumpEnds DEF PutEnd, Put
<1>. QED BY <1>1, <1>2, <1>3, <1>4, <1>5, PumpIsCancelled

-----------------------------------------------------------------------------
\* Steps of the generator and of the campaign.

LEMMA GetStep == ASSUME CampaignInv, Get PROVE CampaignInv'
<1> USE DEF CampaignInv, fixed, books
<1>1. /\ service = "consuming" /\ reader = "open" /\ queue # <<>> /\ queue' = Tail(queue)
      /\ UNCHANGED <<reader, pump, hand, sent, created, known, record, limit, hung>>
  BY DEF Get, Life
<1>2. /\ Head(queue) \in Item /\ queue' \in Seq(Item)
      /\ EndsIn(queue') = EndsIn(queue) - IF Head(queue) = End THEN 1 ELSE 0
      /\ queue' = <<>> \/ queue'[Len(queue')] = queue[Len(queue)]
      /\ EndsIn(queue) \in Nat
  <2>1. queue \in Seq(Item)
    BY DEF Types
  <2>. QED BY <1>1, <2>1, EndsOfTail, EndsFinite
<1>3. /\ finished' = finished + IF Head(queue) = End THEN 1 ELSE 0
      /\ \/ service' = "consuming" /\ UNCHANGED <<seen, saving>>
         \/ \E item \in Fingerprint :
              seen' = seen \cup {item} /\ saving' = item /\ service' = "saving"
  <2>1. CASE Head(queue) = End /\ finished' = finished + 1 /\ UNCHANGED <<seen, service, saving>>
    BY <1>1, <2>1
  <2>2. CASE Head(queue) \in seen /\ UNCHANGED <<finished, seen, service, saving>>
    BY <1>1, <2>2, CampaignAssumption DEF Types
  <2>3. CASE /\ Head(queue) \in Fingerprint \ seen /\ seen' = seen \cup {Head(queue)}
             /\ saving' = Head(queue) /\ service' = "saving" /\ UNCHANGED finished
    BY <1>1, <2>3, CampaignAssumption DEF Types
  <2>. QED BY <2>1, <2>2, <2>3 DEF Get
<1>4. Gone' = Gone
  BY <1>1 DEF Gone
<1>5. Types'
  BY <1>1, <1>2, <1>3 DEF Types, Service
<1>6. Life'
  <2>1. service' \in {"consuming", "saving"}
    BY <1>3
  <2>2. record.status # "completed"
    BY <1>1 DEF Life
  <2>. QED BY <1>1, <2>1, <2>2 DEF Life
<1>7. Counted'
  <2>1. /\ finished + EndsIn(queue) = Cardinality(Gone) /\ finished \in Nat
        /\ Gone = Pump => queue[Len(queue)] = End
    BY <1>1 DEF Counted, Types
  <2>2. finished' + EndsIn(queue') = Cardinality(Gone')
    BY <1>2, <1>3, <1>4, <2>1
  <2>. QED BY <1>2, <1>4, <2>1, <2>2 DEF Counted
<1>8. Saved'
  <2>1. saving = Idle /\ seen \subseteq known \cup {saving} /\ Idle \notin seen
    BY <1>1, CampaignAssumption DEF Saved, Types
  <2>. QED BY <1>1, <1>3, <2>1 DEF Saved
<1>9. Ended'
  BY <1>3 DEF Ended
<1>. QED BY <1>5, <1>6, <1>7, <1>8, <1>9

LEMMA StartStep == ASSUME CampaignInv, StartCampaign PROVE CampaignInv'
<1> USE DEF CampaignInv, fixed
<1>1. /\ service = "new" /\ queue = <<>> /\ finished = 0 /\ seen = {} /\ Gone = Pump
      /\ record'.status = "processing"
      /\ UNCHANGED <<queue, hand, sent, seen, finished, saving, created, known, limit, hung>>
  BY DEF StartCampaign, Life, NoRecord
<1>2. CASE /\ service' = "consuming" /\ reader' = "open"
           /\ pump' = [p \in Pump |-> "unstarted"]
  <2>1. Gone' = {} /\ EndsAt(<<>>) = {}
    BY <1>2 DEF Gone, EndsAt
  <2>2. Counted'
    BY <1>1, <2>1, FS_EmptySet DEF Counted, EndsIn
  <2>3. Types'
    BY <1>1, <1>2 DEF Types, PumpStage, Service
  <2>. QED BY <1>1, <1>2, <2>2, <2>3 DEF Life, Saved, Ended
<1>3. CASE service' = "finishing" /\ UNCHANGED <<reader, pump>>
  <2>1. reader = "closed" /\ Gone' = Gone
    BY <1>1, <1>3 DEF Life, Gone
  <2>2. Types'
    BY <1>1, <1>3 DEF Types, Service
  <2>. QED BY <1>1, <1>3, <2>1, <2>2 DEF Life, Counted, Saved, Ended
<1>. QED BY <1>2, <1>3 DEF StartCampaign

LEMMA SaveStep == ASSUME CampaignInv, Save PROVE CampaignInv'
<1> USE DEF CampaignInv, fixed, fanIn
<1>1. /\ service = "saving" /\ reader = "open" /\ saving' = Idle
      /\ known' = known \cup {saving}
      /\ UNCHANGED <<queue, pump, hand, sent, seen, finished, record, limit, hung>>
      /\ \/ LimitReached /\ service' = "closing" /\ reader' = "closing"
         \/ service' = "consuming" /\ UNCHANGED reader
  BY DEF Save, Close, Life
<1>2. Gone' = Gone /\ (LimitReached' <=> LimitReached)
  BY <1>1 DEF Gone, LimitReached
<1>3. Types'
  BY <1>1 DEF Types, Service
<1>4. Life'
  BY <1>1, <1>2 DEF Life
<1>5. Counted'
  BY <1>1, <1>2 DEF Counted, EndsIn, EndsAt
<1>6. Saved' /\ Ended'
  BY <1>1, <1>2 DEF Saved, Ended
<1>. QED BY <1>3, <1>4, <1>5, <1>6

\* The steps that move only the campaign, its generator and its record.
LEMMA OtherStep ==
  ASSUME CampaignInv,
         \/ Drained \/ Gathered \/ SaveRaises \/ Fail \/ Collected
         \/ Finish \/ FinishRaises \/ Resolved \/ OtherSave
  PROVE  CampaignInv'
<1> USE DEF CampaignInv, fixed, fanIn
<1>1. /\ UNCHANGED <<queue, pump, hand, sent, seen, finished, limit, hung>>
      /\ saving' \in {saving, Idle} /\ known \subseteq known'
  BY DEF Drained, Gathered, SaveRaises, Fail, Collected, Finish, FinishRaises, Resolved,
         OtherSave, consumer, books, Close
<1>2. /\ Gone' = Gone /\ EndsIn(queue') = EndsIn(queue)
      /\ LimitReached' <=> LimitReached
      /\ Exhausted' <=> Exhausted
  BY <1>1 DEF Gone, EndsIn, EndsAt, LimitReached, Exhausted
<1>3. CASE Drained
  <2>1. Exhausted
    BY <1>3, AllFinishedExhausts DEF Drained, Life
  <2>. QED BY <1>1, <1>2, <1>3, <2>1
           DEF Drained, Close, books, Types, Service, Life, Counted, Saved, Ended
<1>4. CASE Gathered
  <2>1. Gone = Pump
    BY <1>4 DEF Gathered, PumpsGathered, Gone
  <2>. QED BY <1>1, <1>2, <1>4, <2>1
           DEF Gathered, PumpsGathered, books, Types, Service, Life, Counted, Saved, Ended
<1>5. CASE SaveRaises
  BY <1>1, <1>2, <1>5 DEF SaveRaises, books, Types, Service, Life, Counted, Saved, Ended
<1>6. CASE Fail
  BY <1>1, <1>2, <1>6 DEF Fail, NoRecord, Types, Service, Life, Counted, Saved, Ended
<1>7. CASE Collected
  BY <1>1, <1>2, <1>7 DEF Collected, books, Types, Service, Life, Counted, Saved, Ended
<1>8. CASE Finish
  BY <1>1, <1>2, <1>8 DEF Finish, Types, Service, Life, Counted, Saved, Ended
<1>9. CASE FinishRaises
  BY <1>1, <1>2, <1>9 DEF FinishRaises, books, Types, Service, Life, Counted, Saved, Ended
<1>10. CASE Resolved
  BY <1>1, <1>2, <1>10 DEF Resolved, books, Types, Service, Life, Counted, Saved, Ended
<1>11. CASE OtherSave
  BY <1>1, <1>2, <1>11 DEF OtherSave, consumer, Types, Service, Life, Counted, Saved, Ended
<1>. QED BY <1>3, <1>4, <1>5, <1>6, <1>7, <1>8, <1>9, <1>10, <1>11

LEMMA CampaignStep == CampaignInv /\ [Next]_vars => CampaignInv'
<1>1. CASE CampaignInv /\ UNCHANGED vars
  BY <1>1 DEF vars, fanIn, consumer, books, fixed, CampaignInv, Types, Life, Counted, Saved,
              Ended, Gone, EndsIn, EndsAt, LimitReached, Exhausted
<1>. QED BY <1>1, PumpStep, GetStep, StartStep, SaveStep, OtherStep DEF Next

LEMMA CampaignInit == Init => CampaignInv
<1> SUFFICES ASSUME Init PROVE CampaignInv
  OBVIOUS
<1>1. Types
  BY CampaignAssumption DEF Init, Types, PumpStage, Service
<1>2. Life /\ Counted /\ Saved /\ Ended
  BY DEF Init, Life, Counted, Saved, Ended, Gone, NoRecord
<1>. QED BY <1>1, <1>2 DEF CampaignInv

LEMMA CampaignInvariant == Spec => []CampaignInv
BY CampaignInit, CampaignStep, PTL DEF Spec

\* discover goes on only when every pump it started has ended.
THEOREM PumpsGone == Spec => []NoStrayPump
<1>1. CampaignInv => NoStrayPump
  BY DEF CampaignInv, Life, NoStrayPump, Gone
<1>. QED BY <1>1, CampaignInvariant, PTL

\* A campaign that completes below its target has read and saved all there was.
THEOREM CompletedOnlyWhenExhausted == Spec => []CompletedMeansExhausted
<1>1. ASSUME CampaignInv, record.status = "completed", Cardinality(seen) \in 1..(limit - 1)
      PROVE  queue = <<>> /\ finished = Cardinality(Pump) /\ seen \subseteq known
  <2>1. service \in {"resolving", "returned"}
    BY <1>1 DEF CampaignInv, Life
  <2>2. ~LimitReached /\ seen # {}
    <3>1. limit \in Nat
      BY <1>1 DEF CampaignInv, Types
    <3>2. ~(Cardinality(seen) >= limit) /\ Cardinality(seen) # 0
      BY <1>1, <3>1
    <3>. QED BY <3>2, FS_EmptySet DEF LimitReached
  <2>3. Exhausted
    BY <1>1, <2>1, <2>2 DEF CampaignInv, Ended
  <2>4. seen \subseteq known
    BY <1>1, <2>1, CampaignAssumption DEF CampaignInv, Saved, Types
  <2>. QED BY <2>3, <2>4 DEF Exhausted
<1>2. CampaignInv => CompletedMeansExhausted
  BY <1>1 DEF CompletedMeansExhausted
<1>. QED BY <1>2, CampaignInvariant, PTL

-----------------------------------------------------------------------------
\* A stream on a page, or about to ask, is below its limit.
BelowLimit ==
  /\ sent \in [Pump -> Nat]
  /\ at \in [Pump -> {"asking", "page", "over"}]
  /\ \A p \in Pump : at[p] # "over" => sent[p] < OverFetch

\* Whatever a scraper does is something its pump's stream may do, or nothing
\* the campaign notices.
LEMMA StreamedStep ==
  ASSUME BelowLimit, NEW p \in Pump, Streamed(p)
  PROVE  [Next]_vars /\ BelowLimit'
<1> USE DEF BelowLimit
<1>1. CASE Answered(p) \/ Unanswered(p) \/ Malformed(p) \/ PageEnds(p)
  BY <1>1 DEF Answered, Unanswered, Malformed, PageEnds, vars, fanIn
<1>2. CASE Yield(p)
  <2>1. Deliver(p)
    BY <1>2 DEF Yield, Deliver, Awaiting
  <2>2. BelowLimit'
    BY <1>2, CampaignAssumption DEF Yield
  <2>. QED BY <2>1, <2>2 DEF Next
<1>3. CASE StreamEnds(p)
  BY <1>3 DEF StreamEnds, EndStream, streams, Next
<1>. QED BY <1>1, <1>2, <1>3 DEF Streamed

LEMMA StreamStep == BelowLimit /\ [StreamNext]_streamVars => [Next]_vars /\ BelowLimit'
<1>1. ASSUME BelowLimit, Campaign, UNCHANGED streams PROVE Next /\ BelowLimit'
  <2>1. UNCHANGED sent
    BY <1>1 DEF Campaign, Begin, PutLead, PutEnd, Cancelled, StartCampaign, Get, Drained, Gathered,
                Save, SaveRaises, Fail, Collected, Finish, FinishRaises, Resolved, OtherSave, fanIn
  <2>. QED BY <1>1, <2>1 DEF Campaign, Next, BelowLimit, streams
<1>2. ASSUME BelowLimit, UNCHANGED streamVars PROVE UNCHANGED vars /\ BelowLimit'
  BY <1>2 DEF streamVars, streams, vars, fanIn, BelowLimit
<1>. QED BY <1>1, <1>2, StreamedStep DEF StreamNext

\* The scrapers implement the streams the campaign is written against: every
\* behaviour over DuckDuckGo, Overpass and SearXNG is one of the campaign.
THEOREM StreamsImplementCampaign == StreamSpec => Spec
<1>1. StreamInit => Init /\ BelowLimit
  BY CampaignAssumption DEF StreamInit, Init, BelowLimit
<1>. QED BY <1>1, StreamStep, PTL DEF StreamSpec, Spec

\* What is proved of the campaign holds over the scrapers.
THEOREM CampaignHoldsOverScrapers ==
  StreamSpec => [](NoStrayPump /\ CompletedMeansExhausted)
BY StreamsImplementCampaign, PumpsGone, CompletedOnlyWhenExhausted, PTL
=============================================================================
