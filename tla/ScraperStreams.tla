----------------------------- MODULE ScraperStreams -----------------------------
(***************************************************************************)
(* The scrapers behind the pumps of a campaign (infrastructure/scrapers):  *)
(* what each stream_discover asks, yields, skips and stops at, in place of *)
(* "any sequence of leads" of DiscoveryCampaign.  _fetch answers None      *)
(* for every failure, so a stream sees a page or nothing; a malformed      *)
(* result is one whose conversion into a Lead raises.                      *)
(***************************************************************************)
EXTENDS DiscoveryCampaign

CONSTANTS Source,    \* pump -> "duckduckgo", "overpass" or "searxng"
          MaxPages,  \* MAX_SEARCH_PAGES
          Endpoints  \* the Overpass endpoints

ASSUME StreamAssumption ==
  /\ Source \in [Pump -> {"duckduckgo", "overpass", "searxng"}]
  /\ {MaxPages, Endpoints} \subseteq Nat \ {0}

VARIABLES at,     \* where each stream is: asking, on a page, or over
          asked,  \* requests it has made
          given   \* its own `seen`: the fingerprints it has yielded

streams    == <<at, asked, given>>
streamVars == <<vars, streams>>

StreamInit ==
  /\ Init
  /\ at = [p \in Pump |-> "asking"]
  /\ asked = [p \in Pump |-> 0]
  /\ given = [p \in Pump |-> {}]

\* The pump awaits its stream.
Awaiting(p) == pump[p] = "streaming" /\ reader = "open"

\* The requests a source makes at most: pages, endpoints, one.
Requests == [duckduckgo |-> MaxPages, overpass |-> Endpoints, searxng |-> 1]

\* Mutant of Further: the loop asks for the same page again.
FurtherNot(n) == n

\* The loop over the pages or endpoints goes on to the next.
Further(n) == n + 1

\* A request that brings results: the first page, the next page, or the first
\* endpoint that answers JSON.
Answered(p) ==
  /\ Awaiting(p) /\ at[p] = "asking"
  /\ asked[p] < Requests[Source[p]]
  /\ at' = [at EXCEPT ![p] = "page"]
  /\ asked' = [asked EXCEPT ![p] = Further(@)]
  /\ UNCHANGED <<vars, given>>

\* A request that brings none: DuckDuckGo and SearXNG give up, Overpass turns
\* to its next endpoint.
Unanswered(p) ==
  /\ Awaiting(p) /\ at[p] = "asking"
  /\ asked[p] < Requests[Source[p]]
  /\ asked' = [asked EXCEPT ![p] = Further(@)]
  /\ at' = [at EXCEPT ![p] = IF Source[p] = "overpass" /\ asked'[p] < Endpoints
                             THEN "asking" ELSE "over"]
  /\ UNCHANGED <<vars, given>>

\* The sources a malformed result ends, by what they have yielded.  Overpass
\* converts all elements before it yields the first, so one of them loses the
\* whole answer; SearXNG loses the rest of it; DuckDuckGo gathers with
\* return_exceptions and skips it.
Fragile(yielded) == IF yielded = {} THEN {"overpass", "searxng"} ELSE {"searxng"}

Malformed(p) ==
  /\ Awaiting(p) /\ at[p] = "page"
  /\ Source[p] \in Fragile(given[p])
  /\ at' = [at EXCEPT ![p] = "over"]
  /\ UNCHANGED <<vars, asked, given>>

\* A lead the stream has not yielded before; the pump puts it or waits.  At
\* its limit the stream returns.
Yield(p) ==
  /\ Awaiting(p) /\ at[p] = "page"
  /\ \E f \in Fingerprint \ given[p] :
       /\ given' = [given EXCEPT ![p] = @ \cup {f}]
       /\ \/ Put(f) /\ UNCHANGED <<pump, hand>>
          \/ /\ Full
             /\ pump' = [pump EXCEPT ![p] = "putting"]
             /\ hand' = [hand EXCEPT ![p] = f]
             /\ UNCHANGED queue
  /\ sent' = [sent EXCEPT ![p] = @ + 1]
  /\ at' = [at EXCEPT ![p] = IF sent'[p] >= OverFetch THEN "over" ELSE @]
  /\ UNCHANGED <<consumer, books, fixed, asked>>

\* The results are used up, what was skipped included; only DuckDuckGo turns
\* the page.
PageEnds(p) ==
  /\ Awaiting(p) /\ at[p] = "page"
  /\ at' = [at EXCEPT ![p] = IF Source[p] = "duckduckgo" /\ asked[p] < MaxPages
                             THEN "asking" ELSE "over"]
  /\ UNCHANGED <<vars, asked, given>>

\* The stream returned or raised.
StreamEnds(p) == at[p] = "over" /\ EndStream(p) /\ UNCHANGED streams

\* The rest of the campaign.
Campaign ==
  \/ \E p \in Pump : Begin(p) \/ PutLead(p) \/ PutEnd(p) \/ Cancelled(p)
  \/ StartCampaign \/ Get \/ Drained \/ Gathered
  \/ Save \/ SaveRaises \/ Fail \/ Collected
  \/ Finish \/ FinishRaises \/ Resolved
  \/ OtherSave

Streamed(p) == Answered(p) \/ Unanswered(p) \/ Malformed(p) \/ Yield(p) \/ PageEnds(p) \/ StreamEnds(p)

StreamNext ==
  \/ \E p \in Pump : Streamed(p)
  \/ Campaign /\ UNCHANGED streams

\* The loop runs what is ready; database calls return; a stream that does not
\* hang goes on until it ends (every fetch has a timeout).
StreamFairness ==
  /\ \A p \in Pump :
       /\ WF_streamVars(Begin(p) /\ UNCHANGED streams)
       /\ WF_streamVars(p \notin hung /\ Streamed(p))
       /\ WF_streamVars((PutLead(p) \/ PutEnd(p)) /\ UNCHANGED streams)
       /\ WF_streamVars(Cancelled(p) /\ UNCHANGED streams)
  /\ WF_streamVars(StartCampaign /\ UNCHANGED streams)
  /\ WF_streamVars(Get /\ UNCHANGED streams)
  /\ WF_streamVars(Drained /\ UNCHANGED streams)
  /\ WF_streamVars(Gathered /\ UNCHANGED streams)
  /\ WF_streamVars((Save \/ SaveRaises) /\ UNCHANGED streams)
  /\ WF_streamVars((Fail \/ Finish \/ FinishRaises \/ Resolved) /\ UNCHANGED streams)
  /\ WF_streamVars(Collected /\ UNCHANGED streams)

StreamSpec == StreamInit /\ [][StreamNext]_streamVars /\ StreamFairness

-----------------------------------------------------------------------------
\* The campaign is written against any stream that yields so many leads at
\* most and, unless it hangs, goes on yielding or ends.  The scrapers are such
\* streams: no paging, fallback, skipping or early end lets one ask on for ever
\* or go on after its pump was cancelled.
StreamsAreStreams ==
  /\ Spec
  /\ \A p \in Pump : WF_vars(p \notin hung /\ (Deliver(p) \/ EndStream(p)))
=============================================================================
