---------------------------- MODULE CrawlFrontier ----------------------------
(***************************************************************************)
(* The persistent crawl frontier (infrastructure/storage/                  *)
(* crawl_queue_repo.py) and the crawler workers that drain it              *)
(* (services/crawler_service.py).  Every repository method is one SQLite   *)
(* transaction, hence one action; a worker awaits between them, so the     *)
(* workers interleave there.  The engine can be stopped, cancelled after   *)
(* the stop timeout, or crash; the tables survive, the workers do not.     *)
(*                                                                         *)
(* Rows are numbered in claim order (priority DESC, created_at ASC: both   *)
(* are fixed when the row is inserted), so the claimed row is the least    *)
(* eligible one.  Time is abstracted to the two comparisons the code       *)
(* makes: whether a domain was visited within the politeness delay, and    *)
(* whether a claim is older than the stale threshold.                      *)
(***************************************************************************)
EXTENDS Integers, FiniteSets

CONSTANTS Rows,          \* number of crawl_queue rows that may ever exist
          Seeds,         \* the rows bootstrap inserts; the others are links
          Domain,        \* hosts
          DomainOf,      \* row -> host
          Worker,        \* worker coroutines; bounds those alive at once
          Team,          \* CRAWLER_WORKERS, the workers of one run
          MaxFailures,   \* FRONTIER_MAX_FAILURES
          SweepEvery,    \* _HOUSEKEEPING_INTERVAL
          SlowFetch,     \* {FALSE}: a live worker never holds a claim past the
                         \* stale threshold; {TRUE}: it may; BOOLEAN: both
          DbErrors       \* may a database call of a worker raise

Row  == 1..Rows
None == 0            \* no row: ids start at 1

ASSUME FrontierAssumption ==
  /\ Rows \in Nat
  /\ Seeds \subseteq Row
  /\ DomainOf \in [Row -> Domain]
  /\ Team \in Nat \ {0}
  /\ MaxFailures \in Nat \ {0}
  /\ SweepEvery \in Nat \ {0}
  /\ SlowFetch \subseteq BOOLEAN
  /\ DbErrors \in BOOLEAN

VARIABLES status,   \* crawl_queue.status; "absent" before the insert
          fails,    \* crawl_queue.fail_count
          aged,     \* last_attempted is older than the stale threshold
          recent,   \* host -> the row claimed within the politeness delay
          running,  \* CrawlerEngine._active
          pages,    \* _pages, kept in 0..SweepEvery: the code only asks
                    \* whether it is 0 and whether SweepEvery divides it
          pc,       \* where each worker is
          holds,    \* the row each worker has claimed
          slow,     \* the assumption on fetch times, fixed by Init
          task,     \* the workers that cancelling _task reaches
          awaited,  \* those of the run that a stop() awaits
          stopping  \* where that stop() is

tables  == <<status, fails, aged, recent>>
workers == <<pc, holds, slow>>
runs    == <<task, awaited, stopping>>
vars    == <<status, fails, aged, recent, running, pages, pc, holds, slow, task, awaited, stopping>>

Status == {"absent", "pending", "processing", "completed", "failed"}
Step   == {"off", "idle", "claimed", "fetching", "saving", "raised"}

Init ==
  /\ status = [r \in Row |-> "absent"]
  /\ fails = [r \in Row |-> 0]
  /\ aged = [r \in Row |-> FALSE]
  /\ recent = [d \in Domain |-> None]
  /\ running = FALSE
  /\ pages = 0
  /\ pc = [w \in Worker |-> "off"]
  /\ holds = [w \in Worker |-> None]
  /\ slow \in SlowFetch
  /\ task = {} /\ awaited = {} /\ stopping = "no"

-----------------------------------------------------------------------------
\* The repository's transactions.

\* add_url: ON CONFLICT(url) DO NOTHING.
AddUrl(r) ==
  /\ status[r] = "absent"
  /\ status' = [status EXCEPT ![r] = "pending"]
  /\ UNCHANGED <<fails, aged, recent>>

Eligible(r) ==
  /\ status[r] = "pending"
  /\ fails[r] < MaxFailures
  /\ recent[DomainOf[r]] = None

\* The claimed row's new status.
MarkClaimed(r) == [status EXCEPT ![r] = "processing"]

\* get_next_url: SELECT and UPDATE in one BEGIN IMMEDIATE transaction.
ClaimNext(r) ==
  /\ Eligible(r)
  /\ \A q \in Row : Eligible(q) => r <= q
  /\ status' = MarkClaimed(r)
  /\ aged' = [aged EXCEPT ![r] = FALSE]
  /\ recent' = [recent EXCEPT ![DomainOf[r]] = r]
  /\ fails' = fails

\* update_status(success=True).
RecordSuccess(r) ==
  /\ status' = [status EXCEPT ![r] = "completed"]
  /\ fails' = [fails EXCEPT ![r] = 0]
  /\ UNCHANGED <<aged, recent>>

\* Mutant of StatusAfterFailure: compares with the limit, not limit - 1.
StatusAfterFailureOffByOne(f) ==
  IF f >= MaxFailures THEN "failed" ELSE "pending"

\* The CASE of update_status(success=False), on the old fail_count.
StatusAfterFailure(f) ==
  IF f >= MaxFailures - 1 THEN "failed" ELSE "pending"

\* update_status(success=False): by row id only, whatever the row's status.
RecordFailure(r) ==
  /\ status' = [status EXCEPT ![r] = StatusAfterFailure(fails[r])]
  /\ fails' = [fails EXCEPT ![r] = @ + 1]
  /\ UNCHANGED <<aged, recent>>

\* Mutants of Stalled: the sweep forgets the age test, or the status test.
StalledAnyAge(r) == status[r] = "processing"
StalledAnyStatus(r) == status[r] # "absent" /\ aged[r]

Stalled(r) == status[r] = "processing" /\ aged[r]

\* reset_stale_processing.
ResetStale ==
  /\ status' = [r \in Row |-> IF Stalled(r) THEN "pending" ELSE status[r]]
  /\ UNCHANGED <<fails, aged, recent>>

-----------------------------------------------------------------------------
\* The engine.

\* bootstrap, from /crawler/start, one query after another at one priority.
Bootstrap(r) ==
  /\ r \in Seeds
  /\ \A q \in Seeds : q < r => status[q] # "absent"
  /\ AddUrl(r)
  /\ UNCHANGED <<running, pages, workers, runs>>

\* start(): a new run, also while workers of an earlier one still finish and
\* see _active set again.
Start ==
  /\ ~running
  /\ running' = TRUE
  /\ \E team \in SUBSET {w \in Worker \ awaited : pc[w] = "off"} :
       /\ Cardinality(team) = Team
       /\ task' = team
       /\ pc' = [w \in Worker |-> IF w \in team THEN "idle" ELSE pc[w]]
  /\ UNCHANGED <<tables, pages, holds, slow, awaited, stopping>>

\* stop() up to its await: the workers leave their loop at the next test of
\* _active.  Without a task, or with one that ended with a worker's error,
\* it returns.  One stop() is awaited at a time.
Stop ==
  /\ running /\ stopping = "no"
  /\ running' = FALSE
  /\ awaited' = task
  /\ stopping' = IF task = {} THEN "no" ELSE "waiting"
  /\ UNCHANGED <<tables, pages, workers, task>>

LeaveLoop(w) ==
  /\ pc[w] = "idle"
  /\ ~running
  /\ pc' = [pc EXCEPT ![w] = "off"]
  /\ UNCHANGED <<tables, running, pages, holds, slow, runs>>

Cancelled(team) ==
  /\ pc' = [w \in Worker |-> IF w \in team THEN "off" ELSE pc[w]]
  /\ holds' = [w \in Worker |-> IF w \in team THEN None ELSE holds[w]]

\* The awaited run is over: stop() forgets _task, which may be a later run's.
Stopped ==
  /\ stopping = "waiting"
  /\ \A w \in awaited : pc[w] = "off"
  /\ task' = {} /\ awaited' = {} /\ stopping' = "no"
  /\ UNCHANGED <<tables, running, pages, workers>>

\* The timeout: wait_for cancels the run it awaits.  _run swallows that and
\* returns, so wait_for raises no TimeoutError and stop() goes on as if the
\* run had ended (Stopped): its except branch, which would cancel _task, is
\* not reached.
TimesOut ==
  /\ stopping = "waiting"
  /\ \E w \in awaited : pc[w] # "off"
  /\ Cancelled(awaited)
  /\ UNCHANGED <<tables, running, pages, slow, runs>>

\* The process dies; a later Start is a new process with a fresh engine.
Crash ==
  /\ running' = FALSE
  /\ pages' = 0
  /\ Cancelled(Worker)
  /\ task' = {} /\ awaited' = {} /\ stopping' = "no"
  /\ UNCHANGED <<tables, slow>>

\* _worker: claim the next row.  With none eligible the worker sleeps and
\* asks again, which changes nothing.
Claim(w) ==
  /\ pc[w] = "idle"
  /\ running
  /\ \E r \in Row :
       /\ ClaimNext(r)
       /\ holds' = [holds EXCEPT ![w] = r]
  /\ pc' = [pc EXCEPT ![w] = "claimed"]
  /\ UNCHANGED <<running, pages, slow, runs>>

SweepDue == pages = SweepEvery

\* _crawl_one up to the fetch: a sweep of stale claims when it is due.
BeginCrawl(w) ==
  /\ pc[w] = "claimed"
  /\ \/ SweepDue /\ ResetStale
     \/ ~SweepDue /\ UNCHANGED tables
  /\ pc' = [pc EXCEPT ![w] = "fetching"]
  /\ UNCHANGED <<running, pages, holds, slow, runs>>

\* A transport error, 429/503, another status, or a block page.
FetchFails(w) ==
  /\ pc[w] = "fetching"
  /\ RecordFailure(holds[w])
  /\ pc' = [pc EXCEPT ![w] = "idle"]
  /\ holds' = [holds EXCEPT ![w] = None]
  /\ UNCHANGED <<running, pages, slow, runs>>

\* A clean 200 page: counted before it is extracted.
FetchSucceeds(w) ==
  /\ pc[w] = "fetching"
  /\ pages' = (pages % SweepEvery) + 1
  /\ pc' = [pc EXCEPT ![w] = "saving"]
  /\ UNCHANGED <<tables, running, holds, slow, runs>>

\* `await self._extract_and_save(...)`: the method belongs to
\* _BoundedResponse, so the attribute lookup on the engine raises.  The
\* finally clause still records a success.
SaveRaises(w) ==
  /\ pc[w] = "saving"
  /\ RecordSuccess(holds[w])
  /\ pc' = [pc EXCEPT ![w] = "raised"]
  /\ UNCHANGED <<running, pages, holds, slow, runs>>

\* The except clause of _worker records a failure of the same row.
HandleError(w) ==
  /\ pc[w] = "raised"
  /\ RecordFailure(holds[w])
  /\ pc' = [pc EXCEPT ![w] = "idle"]
  /\ holds' = [holds EXCEPT ![w] = None]
  /\ UNCHANGED <<running, pages, slow, runs>>

\* get_next_url, or update_status in the except clause, raises outside any
\* handler: the coroutine ends and nothing restarts it.  Its run's task ends
\* with it, so that the other workers can no longer be cancelled.
WorkerDies(w) ==
  /\ DbErrors
  /\ pc[w] \in {"idle", "raised"}
  /\ pc' = [pc EXCEPT ![w] = "off"]
  /\ holds' = [holds EXCEPT ![w] = None]
  /\ task' = IF w \in task THEN {} ELSE task
  /\ awaited' = IF w \in awaited THEN {} ELSE awaited
  /\ UNCHANGED <<tables, running, pages, slow, stopping>>

\* A database call inside _crawl_one raises: the sweep, update_status(False),
\* or the one in the finally clause.  _worker handles it.
RecordRaises(w) ==
  /\ DbErrors
  /\ \/ pc[w] = "claimed" /\ SweepDue
     \/ pc[w] \in {"fetching", "saving"}
  /\ pc' = [pc EXCEPT ![w] = "raised"]
  /\ UNCHANGED <<tables, running, pages, holds, slow, runs>>

-----------------------------------------------------------------------------
\* Time.

PolitenessElapses(d) ==
  /\ recent[d] # None
  /\ recent' = [recent EXCEPT ![d] = None]
  /\ UNCHANGED <<status, fails, aged, running, pages, workers, runs>>

\* A claim grows older than the threshold, which exceeds the politeness
\* delay.  Unless slow, no live worker outlasts it.
GrowsStale(r) ==
  /\ status[r] = "processing"
  /\ ~aged[r]
  /\ recent[DomainOf[r]] # r
  /\ slow \/ \A w \in Worker : holds[w] # r
  /\ aged' = [aged EXCEPT ![r] = TRUE]
  /\ UNCHANGED <<status, fails, recent, running, pages, workers, runs>>

Next ==
  \/ \E r \in Row : Bootstrap(r) \/ GrowsStale(r)
  \/ \E d \in Domain : PolitenessElapses(d)
  \/ Start
  \/ Stop
  \/ Stopped
  \/ TimesOut
  \/ Crash
  \/ \E w \in Worker :
       \/ LeaveLoop(w)
       \/ Claim(w)
       \/ BeginCrawl(w)
       \/ FetchFails(w)
       \/ FetchSucceeds(w)
       \/ SaveRaises(w)
       \/ HandleError(w)
       \/ WorkerDies(w)
       \/ RecordRaises(w)

Spec == Init /\ [][Next]_vars

-----------------------------------------------------------------------------
\* Type invariant.
RunsType ==
  /\ task \subseteq Worker
  /\ awaited \subseteq Worker
  /\ stopping \in {"no", "waiting"}

TypeOK ==
  /\ RunsType
  /\ status \in [Row -> Status]
  /\ fails \in [Row -> Nat]
  /\ aged \in [Row -> BOOLEAN]
  /\ recent \in [Domain -> Row \cup {None}]
  /\ running \in BOOLEAN
  /\ pages \in 0..SweepEvery
  /\ pc \in [Worker -> Step]
  /\ holds \in [Worker -> Row \cup {None}]
  /\ slow \in SlowFetch
  /\ \A w \in Worker : holds[w] = None <=> pc[w] \in {"off", "idle"}

\* status and fail_count agree whichever workers wrote the row last, also
\* two workers that hold the same row: a row that may still be claimed has
\* budget left, a failed one has none, a completed one was reset.
FailureBudget ==
  \A r \in Row :
    /\ status[r] \in {"pending", "processing"} => fails[r] < MaxFailures
    /\ status[r] = "failed" => fails[r] >= MaxFailures
    /\ status[r] \in {"absent", "completed"} => fails[r] = 0

\* "concurrent workers can never claim the same row": as long as no live
\* worker outlasts the stale threshold, a row has at most one holder, across
\* sweeps, cancellations and restarts.
ExclusiveClaim ==
  ~slow => \A v, w \in Worker : holds[v] # None /\ holds[v] = holds[w] => v = w

\* A row that has used its budget leaves that state only by the success that
\* a late worker records, one that outlasted the stale threshold and still
\* holds the row: no sweep, claim, restart, crash or error of another worker
\* does it, and nothing at all while no live worker outlasts the threshold.
\* (What the late worker's own error does to the completed row next is not
\* excluded: it may be offered again.)
LateSuccess(r) ==
  /\ slow
  /\ \E w \in Worker : pc[w] = "saving" /\ holds[w] = r
  /\ status'[r] = "completed" /\ fails'[r] = 0

RetiredUntilLateSuccess ==
  [][\A r \in Row : status[r] = "failed" => status'[r] = "failed" \/ LateSuccess(r)]_vars
=============================================================================
