--------------------------- MODULE DiscoveryCampaign ---------------------------
(***************************************************************************)
(* One discovery campaign (services/discovery_service.py): the pumps that  *)
(* feed every scraper stream into one bounded queue, the generator that    *)
(* drains it, and DiscoveryService.discover, which saves each lead and     *)
(* keeps the campaign record.                                              *)
(*                                                                         *)
(* All of them are coroutines of one event loop: an action is what one of  *)
(* them does between two awaits that may suspend.  A lead is abstracted to *)
(* its fingerprint, and what a scraper delivers is any sequence of them.   *)
(***************************************************************************)
EXTENDS Integers, Sequences, FiniteSets

CONSTANTS Fingerprint,  \* distinct leads
          Pump,         \* one per scraper and query variant
          Capacity,     \* maxsize of the queue
          Limits,       \* target_limit of a campaign: any of these
          OverFetch,    \* leads a stream delivers at most
          MayHang,      \* pumps whose stream may never answer again
          Errors        \* may a repository call raise

End == "end"          \* the (name, None) item
Idle == "none"        \* no lead in hand

ASSUME CampaignAssumption ==
  /\ IsFiniteSet(Pump)
  /\ Capacity \in Nat \ {0}
  /\ Limits \subseteq Nat \ {0}
  /\ OverFetch \in Nat \ {0}
  /\ MayHang \subseteq Pump
  /\ Errors \in BOOLEAN
  /\ End \notin Fingerprint /\ Idle \notin Fingerprint

VARIABLES queue,     \* asyncio.Queue of leads and End
          pump,      \* where each pump task is
          hand,      \* the lead a blocked pump is putting
          sent,      \* leads each stream has delivered
          reader,    \* ScraperAggregator.stream_discover: open, closing, closed
          seen,      \* fingerprints it has yielded
          finished,  \* End items it has read
          service,   \* where DiscoveryService.discover is
          saving,    \* the lead it is saving
          created,   \* created_ids: the leads this campaign inserted
          known,     \* fingerprints in the leads table
          record,    \* the discovery_campaigns row
          limit,     \* the campaign's target_limit, fixed by Init
          hung       \* the streams that never answer, fixed by Init

fanIn    == <<queue, pump, hand, sent>>
consumer == <<reader, seen, finished, service, saving>>
books    == <<created, known, record>>
fixed    == <<limit, hung>>
vars     == <<fanIn, consumer, books, fixed>>

PumpStage == {"unstarted", "streaming", "putting", "ending", "draining", "done"}
Service   == {"new", "consuming", "saving", "closing", "finishing", "failing",
              "resolving", "returned", "raised"}
NoRecord  == [status |-> "absent", saved |-> 0, merged |-> 0]

Init ==
  /\ queue = <<>>
  /\ pump = [p \in Pump |-> "done"]
  /\ hand = [p \in Pump |-> Idle]
  /\ sent = [p \in Pump |-> 0]
  /\ reader = "closed"
  /\ seen = {}
  /\ finished = 0
  /\ service = "new"
  /\ saving = Idle
  /\ created = {}
  /\ known \in SUBSET Fingerprint
  /\ record = NoRecord
  /\ limit \in Limits
  /\ hung \in SUBSET MayHang

-----------------------------------------------------------------------------
\* pump().

Full == Len(queue) >= Capacity

\* Mutant of Put: a put_nowait that drops what does not fit.
PutOrDrop(item) == queue' = IF Full THEN queue ELSE Append(queue, item)

\* queue.put of a pump that need not, or no longer, wait.
Put(item) == ~Full /\ queue' = Append(queue, item)

Begin(p) ==
  /\ pump[p] = "unstarted"
  /\ reader = "open"
  /\ pump' = [pump EXCEPT ![p] = "streaming"]
  /\ UNCHANGED <<queue, hand, sent, consumer, books, fixed>>

\* The stream delivers a lead; the pump waits if the queue is full.
Deliver(p) ==
  /\ pump[p] = "streaming"
  /\ reader = "open"
  /\ sent[p] < OverFetch
  /\ sent' = [sent EXCEPT ![p] = @ + 1]
  /\ \E f \in Fingerprint :
       \/ Put(f) /\ UNCHANGED <<pump, hand>>
       \/ /\ Full
          /\ pump' = [pump EXCEPT ![p] = "putting"]
          /\ hand' = [hand EXCEPT ![p] = f]
          /\ UNCHANGED queue
  /\ UNCHANGED <<consumer, books, fixed>>

PutLead(p) ==
  /\ pump[p] = "putting"
  /\ reader = "open"
  /\ Put(hand[p])
  /\ pump' = [pump EXCEPT ![p] = "streaming"]
  /\ hand' = [hand EXCEPT ![p] = Idle]
  /\ UNCHANGED <<sent, consumer, books, fixed>>

\* The stream ends or raises: both reach the finally clause, which puts End.
EndStream(p) ==
  /\ pump[p] = "streaming"
  /\ reader = "open"
  /\ \/ Put(End) /\ pump' = [pump EXCEPT ![p] = "done"]
     \/ Full /\ pump' = [pump EXCEPT ![p] = "ending"] /\ UNCHANGED queue
  /\ UNCHANGED <<hand, sent, consumer, books, fixed>>

PutEnd(p) ==
  /\ pump[p] = "ending"
  /\ reader = "open"
  /\ Put(End)
  /\ pump' = [pump EXCEPT ![p] = "done"]
  /\ UNCHANGED <<hand, sent, consumer, books, fixed>>

\* The cancellation of p arrives.  In the try block it runs the finally
\* clause, which puts End; if the queue is full this put waits ("draining"),
\* and as nothing reads the queue any more no step can ever complete it.
\* Before the task's first step, or inside the finally clause, the
\* cancellation ends the task.
Cancelled(p) ==
  /\ reader = "closing"
  /\ \/ /\ pump[p] \in {"unstarted", "ending"}
        /\ pump' = [pump EXCEPT ![p] = "done"]
        /\ UNCHANGED queue
     \/ /\ pump[p] \in {"streaming", "putting"}
        /\ \/ Put(End) /\ pump' = [pump EXCEPT ![p] = "done"]
           \/ Full /\ pump' = [pump EXCEPT ![p] = "draining"] /\ UNCHANGED queue
  /\ hand' = [hand EXCEPT ![p] = Idle]
  /\ UNCHANGED <<sent, consumer, books, fixed>>

-----------------------------------------------------------------------------
\* ScraperAggregator.stream_discover as its consumer drives it.

\* create_campaign, expand; without variants or scrapers the stream is empty.
StartCampaign ==
  /\ service = "new"
  /\ record' = [NoRecord EXCEPT !.status = "processing"]
  /\ \/ /\ service' = "consuming"
        /\ reader' = "open"
        /\ pump' = [p \in Pump |-> "unstarted"]
     \/ service' = "finishing" /\ UNCHANGED <<reader, pump>>
  /\ UNCHANGED <<queue, hand, sent, seen, finished, saving, created, known, fixed>>

\* Mutant: the first stream that ends, ends the campaign.
AllFinishedEarly == finished >= 1

AllFinished == finished >= Cardinality(Pump)

\* The loop's finally clause: every pump is cancelled, then awaited.
Close == service' = "closing" /\ reader' = "closing"

LimitReached == Cardinality(seen) >= limit

\* queue.get: End is counted, a repeated fingerprint skipped, another yielded.
Get ==
  /\ service = "consuming"
  /\ ~AllFinished
  /\ queue # <<>>
  /\ queue' = Tail(queue)
  /\ LET item == Head(queue)
     IN \/ /\ item = End
           /\ finished' = finished + 1
           /\ UNCHANGED <<seen, service, saving>>
        \/ /\ item \in seen
           /\ UNCHANGED <<finished, seen, service, saving>>
        \/ /\ item \in Fingerprint \ seen
           /\ seen' = seen \cup {item}
           /\ saving' = item
           /\ service' = "saving"
           /\ UNCHANGED finished
  /\ UNCHANGED <<reader, pump, hand, sent, books, fixed>>

Drained ==
  /\ service = "consuming"
  /\ AllFinished
  /\ Close
  /\ UNCHANGED <<fanIn, seen, finished, saving, books, fixed>>

\* Mutant: the generator returns without awaiting the pumps it cancelled.
ClosedAtOnce == reader = "closing"

PumpsGathered == reader = "closing" /\ \A p \in Pump : pump[p] = "done"

\* gather returns; a campaign that was waiting for it goes on.
Gathered ==
  /\ PumpsGathered
  /\ reader' = "closed"
  /\ service' = IF service = "closing" THEN "finishing" ELSE service
  /\ UNCHANGED <<fanIn, seen, finished, saving, books, fixed>>

-----------------------------------------------------------------------------
\* DiscoveryService.discover.

\* upsert by fingerprint, then back into the generator, which tests the limit.
Save ==
  /\ service = "saving"
  /\ known' = known \cup {saving}
  /\ created' = IF saving \in known THEN created ELSE created \cup {saving}
  /\ saving' = Idle
  /\ IF LimitReached THEN Close ELSE service' = "consuming" /\ UNCHANGED reader
  /\ UNCHANGED <<fanIn, seen, finished, record, fixed>>

\* upsert raises: the generator stays suspended at its yield.
SaveRaises ==
  /\ Errors
  /\ service = "saving"
  /\ service' = "failing"
  /\ saving' = Idle
  /\ UNCHANGED <<fanIn, reader, seen, finished, books, fixed>>

\* finish_campaign("failed", 0, 0, 0), and the exception goes on.
Fail ==
  /\ service = "failing"
  /\ record' = [NoRecord EXCEPT !.status = "failed"]
  /\ service' = "raised"
  /\ UNCHANGED <<fanIn, reader, seen, finished, saving, created, known, fixed>>

\* The suspended generator is collected: the event loop closes it.
Collected ==
  /\ service = "raised"
  /\ reader = "open"
  /\ reader' = "closing"
  /\ UNCHANGED <<fanIn, seen, finished, service, saving, books, fixed>>

\* finish_campaign("completed", ...).
Finish ==
  /\ service = "finishing"
  /\ record' = [status |-> "completed", saved |-> Cardinality(created),
                merged |-> Cardinality(seen \ created)]
  /\ service' = IF created = {} THEN "returned" ELSE "resolving"
  /\ UNCHANGED <<fanIn, reader, seen, finished, saving, created, known, fixed>>

\* finish_campaign raises, outside the try statement or in its except clause.
FinishRaises ==
  /\ Errors
  /\ service \in {"finishing", "failing"}
  /\ service' = "raised"
  /\ UNCHANGED <<fanIn, reader, seen, finished, saving, books, fixed>>

\* resolve_incremental, whose errors are swallowed.
Resolved ==
  /\ service = "resolving"
  /\ service' = "returned"
  /\ UNCHANGED <<fanIn, reader, seen, finished, saving, books, fixed>>

\* Another campaign or the crawler saves the same business.
OtherSave ==
  /\ \E f \in Fingerprint \ known : known' = known \cup {f}
  /\ UNCHANGED <<fanIn, consumer, created, record, fixed>>

Next ==
  \/ \E p \in Pump :
       \/ Begin(p) \/ Deliver(p) \/ PutLead(p) \/ EndStream(p) \/ PutEnd(p)
       \/ Cancelled(p)
  \/ StartCampaign \/ Get \/ Drained \/ Gathered
  \/ Save \/ SaveRaises \/ Fail \/ Collected
  \/ Finish \/ FinishRaises \/ Resolved
  \/ OtherSave

Spec == Init /\ [][Next]_vars

-----------------------------------------------------------------------------
Item == Fingerprint \cup {End}

\* Type invariant.
TypeOK ==
  /\ queue \in Seq(Item) /\ Len(queue) <= Capacity
  /\ pump \in [Pump -> PumpStage]
  /\ hand \in [Pump -> Fingerprint \cup {Idle}]
  /\ sent \in [Pump -> 0..OverFetch]
  /\ reader \in {"open", "closing", "closed"}
  /\ seen \subseteq Fingerprint
  /\ finished \in 0..Cardinality(Pump)
  /\ service \in Service
  /\ saving \in Fingerprint \cup {Idle}
  /\ created \subseteq seen \cap known
  /\ known \subseteq Fingerprint
  /\ record.status \in {"absent", "processing", "completed", "failed"}

\* A campaign that yielded something and completes below its target has
\* exhausted its sources: every stream has ended and nothing it delivered is
\* left unread or unsaved, however the pumps' puts and ends were interleaved.
CompletedMeansExhausted ==
  (record.status = "completed" /\ reader = "closed" /\ Cardinality(seen) \in 1..(limit - 1))
    => /\ queue = <<>>
       /\ finished = Cardinality(Pump)
       /\ seen \subseteq known

\* Fan-in does not outlive the campaign: discover goes on only when no pump
\* task is left to fetch, or to hold a connection.
NoStrayPump ==
  service \in {"finishing", "resolving", "returned"} =>
    \A p \in Pump : pump[p] = "done"

\* "the first result of ANY stream is yielded immediately": a delivered lead is
\* yielded unless the campaign stops first, although other streams hang and
\* the queue is full.
ResultsFlow ==
  \A p \in Pump : \A f \in Fingerprint :
    hand[p] = f ~> (f \in seen \/ reader # "open" \/ service \in {"failing", "raised"})

\* "the campaign record reflects created vs merged counts accurately": a record
\* does not stay "processing" for ever while its leads are in the table.
CampaignSettles ==
  (hung = {}) => (record.status = "processing" ~> record.status \in {"completed", "failed"})
=============================================================================
