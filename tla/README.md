# FreelanceDZ: a TLA+ verification project

FreelanceDZ discovers Algerian companies on the web, audits their web presence,
resolves the records that denote one entity and keeps the result in SQLite.
This directory models the parts of it whose correctness depends on *order*:
asyncio tasks that share a queue or a counter, workers over a persistent
frontier, multi-transaction operations on tables that others write, a schema
upgrade that may die half-way, caches that several sessions share, and human
decisions that must survive automated runs. The pure algorithms that decide what
those operations write (matching, scoring, golden records, geography) are
modelled as operators over bounded inputs. TLC checks small instances of each
module; TLAPS proves the main safety properties for every value of the constants.

Source paths are relative to `src/`. `PROJECT.json` maps every definition to the
lines it stands for, and lists runs, mutants, findings, hazards and theorems.

## 1. Inventory

| Component | State it keeps | Operations | What is hard |
|---|---|---|---|
| Adaptive concurrency gate (`engine/acquisition/concurrency.py`) | ceiling, active count, success streak, waiters of an `asyncio.Condition` | `__aenter__`, `__aexit__`, `report_success`, `report_congestion` | woken waiters race newcomers; the ceiling moves under the holders; a lost wake-up stalls a worker for ever |
| Resilience (`infrastructure/resilience.py`, `infrastructure/http.py`) | proxy health, failure streaks and labels; backoff exponent; HTTP clients | `get_proxy`, `record_success`, `record_failure`, `is_blocked`, `next_delay` | a proxy is picked before the gate and reported on after it; resets come in between |
| Crawl frontier (`infrastructure/storage/crawl_queue_repo.py`) | rows with status, `fail_count`, `last_attempted` | `add_url`, `get_next_url`, `update_status`, `reset_stale_processing` | exclusive claims, retry budget, stale reports, crash recovery |
| Crawler engine (`services/crawler_service.py`) | running flag, the run's task, page counter | `start`, `stop`, `_worker`, `_crawl_one`, `_extract_and_save`, `_expand` | crash, cancellation, `start` during `stop`, exceptions between claim and report |
| Discovery campaign (`services/discovery_service.py`, `ScraperAggregator`, `DiscoveryService.discover`) | bounded queue, pump tasks, finished counter, campaign record | pump, consumer loop, early stop, finish | a stream that hangs, backpressure, cancelling producers of a full queue |
| Scrapers and rate limiter (`infrastructure/scrapers/`) | pages asked, leads yielded; token bucket | `stream_discover`, `acquire` | paging, fallback endpoints and malformed results inside a cancellable stream |
| Lead store (`infrastructure/storage/lead_repo.py`, `api/routes/leads.py`) | `leads`, keyed by a fingerprint | upsert with its merge policy, edits, CRM updates, the audit and scoring routes | whole leads are read, worked on and written back over several awaits |
| Attachments (same files) | a row and a file each | upload, delete | two stores that must agree, and a process may die between them |
| Resolution service (`services/discovery_service.py`, `EntityResolutionService`) | none of its own: reads leads and clusters, decides, writes | `run`, `run_incremental`, `split`, `merge`, `resolve_review` | each is several transactions with awaits and a worker thread in between |
| Entity tables (`infrastructure/storage/cluster_repo.py`) | `entity_clusters`, `entity_links`, `leads.cluster_id`, `company_relations`, AUTOINCREMENT counter | `persist`, `upsert_relations`, `split_cluster`, `merge_clusters`, `_remap_relations` | id reuse, pruning scope, foreign-key cascades, two copies of the membership |
| Review queue (same file) | items per pair and status | `enqueue_review`, `resolve_review` | a run replaces what people are answering; UNIQUE per (pair, status) |
| Decision log and overrides (`cluster_repo.py`, `engine/resolution/resolver.py`) | bounded `resolution_decisions` log | `record_decisions` with its trim, `manual_overrides`, `_override_index` | human decisions outliving runs that re-log what they read |
| Constrained clustering (`engine/resolution/clustering.py`) | union-find, must-not-link constraints | `pin_same`, `add_must_not_link`, `_union`, `_would_violate` | constraints hold of whole components, not of pairs |
| Pairwise matching (`engine/resolution/{features,blocking,comparators,scoring,classifier}.py`) | none | views of a lead, candidate pairs, nine signals, their sum, a verdict | caps and vetoes that meet; symmetry; identifiers written in several forms |
| Canonical records (`engine/resolution/canonical.py`) | none | a winner and alternatives per field | ties, order of the members |
| Audit and scoring (`engine/analyzer.py`, `scorer.py`, `fastops.py`) | none | one score computed in three places | the three must agree |
| Checkpoints and geography (`api/routes/checkpoints.py`, `engine/geo.py`) | `checkpoints`; boundary rings | create, patch, delete; point to wilaya | a patch decides on what it read two awaits ago |
| Storage engine (`database.py`, schemas) | SQLite file, `schema_migrations` | open, rename, baseline, migrate | crashes between autocommitted statements; two processes at once |
| Streamlit UI (`ui/api_client.py`) | caches shared by all sessions | cached reads, mutations that clear them | an answer stored after the clear it should have met; late answers |
| HTTP API, CLI | none (adapters) | call the services, concurrently | they make the calls above overlap |
| Export, text utilities, settings, set-up, benchmarks | none | – | – |

**Interactions.** The API runs every handler as a task of one event loop. It
calls `DiscoveryService.discover`, which reads the aggregator's queue (fed by one
pump per scraper stream), upserts leads and finally runs an incremental
resolution; the routes of the entity pages call `split`, `merge` and
`resolve_review` while such a run may be in its worker thread. The crawler's
workers share the frontier table, the gate, the proxy pool and the lead store.
The UI is another process whose sessions call the API and cache what it answers.
All of them share one SQLite database whose transactions are serialised: **a
transaction is the atomic step of every model, and an `await` between two
transactions is where other actors step in.** While the database is being opened
there is no such transaction around the whole; there a *statement* is the step.

**Correctness, per component.**

- *Gate and fetch path*: the counter equals the tasks inside; nobody is admitted
  past the ceiling of that moment; while slots are free and somebody sleeps, a
  wake-up is under way; every sleeper is woken eventually; a proxy's label says
  what its score is.
- *Frontier and engine*: a row has one live holder; status and failure count
  agree and respect the budget; a row that used its budget is brought back by no
  sweep, claim or restart, only by a worker that outlasted the stale threshold and
  reports a success — across overlapping runs of the engine.
- *Campaign and scrapers*: a campaign completes only when its sources are
  exhausted; no producer survives it; a producer that never answers does not
  silence the others; it settles its record; a scraper is the kind of stream the
  campaign is written against.
- *Entity tables*: no reference to a dead cluster, no empty cluster;
  `leads.cluster_id` and `entity_links` agree; growing entities keep an id; an id
  never comes to mean a second entity.
- *Matching*: location alone never merges; two verified addresses keep branches
  apart; verdicts do not depend on which lead came first; a shared identifier is
  always compared; an entity's name does not depend on the order of its members.
- *Scoring*: the three computations agree, and reach is never worth less.
- *Decisions and reviews*: automated merges respect constraints; a human merge
  holds; pins come from humans only; an item is closed only after what it says
  was done.
- *Lead store*: CRM state survives every re-scrape and re-analysis; fingerprints
  are unique and still find their rows; results are never lost; the list of
  unaudited leads drains.
- *Storage*: an upgrade keeps every record, every campaign and every attachment
  whose record exists, is one step to whoever looks at the file, and can always be
  completed; an attachment's row never lacks its file.
- *Checkpoints*: a checkpoint inside one wilaya says so.
- *UI*: an acknowledged write is in every later read; what is stale heals.

## 2. Modules

```
AdaptiveConcurrency <- FetchPath <- FetchPath_proofs
CrawlFrontier     <- MCCrawlFrontier, CrawlFrontier_proofs
DiscoveryCampaign <- ScraperStreams <- MCScraperStreams, ScraperStreams_proofs
ClusterStore      <- ResolutionService <- MCResolutionService, ResolutionService_proofs
ReviewQueue       <- ResolutionService_proofs
Clusterer         <- EntityDecisions <- EntityDecisions_proofs
LeadFeatures      <- PairEvidence, CanonicalRecord, LeadScoring
Clusterer, PairEvidence, CanonicalRecord, LeadScoring <- EntityResolver
EntityResolver    <- MCEntityResolver, EntityDecisions_proofs
LeadStore         <- MCLeadStore, LeadStore_proofs
SchemaUpgrade     (the abstraction that Startup instantiates)
Startup           <- AttachmentStore <- AttachmentStore_proofs
Geography         <- Checkpoints <- MCCheckpoints, LeadStore_proofs
Workspace         <- Workspace_proofs
```

Three of these are *refinements*: `Startup` implements `SchemaUpgrade` (an
`INSTANCE` with a refinement mapping, checked by TLC and proved), `ScraperStreams`
implements `DiscoveryCampaign` (checked with its fairness, and its safety half
proved), and `FetchPath` implements `AdaptiveConcurrency` (proved). A module of proofs
that EXTENDS two components (the service's tables and the review queue, the lead store
and the checkpoints, the decision log and the engine) proves about each by itself; their
specifications have names of their own (`QueueSpec`, `CheckpointSpec`, `ResolverSpec`).

### AdaptiveConcurrency and FetchPath
Gate variables: `ceiling`, `active`, `successes` (the private fields), `queue`
(the condition's futures that are not set yet) and `phase`: where each task is.
`Enter` is a newcomer's first evaluation of the `wait_for` predicate, `Resume` a
woken task's next one, `Exit` is `__aexit__` with its `notify(1)`, and a task that
`left` reports once at most: `ReportSuccess` (additive increase after `Window`
clean responses), `ReportCongestion` (halving, bounded below) or `ReportNothing`.
Between a wake-up and its `Resume` any other action may happen: that is the race
worth checking. `FetchPath` puts the proxy pool (`health`, `fails`, `state`) and
the proxy of each fetch (`via`) around it, as `_crawl_one` does: `PickAndEnter`
picks before the gate, and the outcomes `TransportError`, `Congested`, `Rejected`
and `Clean` tell the gate, the proxy, both or nobody, as the code does. When every
proxy is below the minimum, a pick resets all of them (`Spent`).

### CrawlFrontier
Tables: `status`, `fails`, `aged`, `recent`. Engine: `running`, `pages` (the
counter that triggers the sweep). Workers: `pc` and `holds` (the claimed row).
Runs: `task` (the workers that cancelling `_task` reaches), `awaited` and
`stopping` (where a `stop()` is). The repository's four methods are operators
(`AddUrl`, `ClaimNext`, `RecordSuccess`/`RecordFailure`, `ResetStale`); the actions
follow `_worker` and `_crawl_one`: claim (one transaction, so its select and update
are one step), the sweep if it is due, the fetch, the `finally` update, and the
second update of the caller's `except` clause. `Stop` clears the flag and awaits;
in that await `Start` may begin a new team beside workers that have not left
their loop, `Stopped` forgets whatever `_task` is by then. `TimesOut` cancels the
run that is awaited: `_run` swallows the cancellation and returns, so `wait_for` returns
too instead of raising, and `Stopped` follows; the `except` branch of `stop()` is
not reached. `Crash` loses everything but the tables, and
database errors end a worker and with it its run's task (`WorkerDies`) or are
handled as a failed crawl (`RecordRaises`). `_extract_and_save` and `_expand` sit
inside `class _BoundedResponse` (`services/crawler_service.py:258`), so the call
raises after every clean page: `SaveRaises` does what the code does. Time is two
comparisons: `recent` (a host was claimed within the politeness delay) and `aged`
(a claim is older than the stale threshold); with `slow` a live worker's claim may
become `aged` too.

### DiscoveryCampaign and ScraperStreams
Pumps (`pump`, `hand`, `sent`) take leads from their stream (which ends, raises
or, for the pumps in `hung`, never answers again), put them on the bounded
`queue`, and put an end marker in their `finally` clause. The generator
(`reader`, `seen`, `finished`) drops repeated fingerprints, yields the others,
stops at the limit, cancels the pumps and gathers them; `discover` (`service`,
`saving`, `created`, `record`) saves each lead and settles the campaign record.
Cancellation arrives at the pump's current await, which may be the put.
`ScraperStreams` replaces "any sequence of leads" by the three scrapers: `at`,
`asked` and `given` are a stream's position, its requests and its own `seen`.
DuckDuckGo turns pages until one brings nothing, Overpass tries its endpoints
until one answers and converts the whole answer before it yields, SearXNG asks
once; a malformed result is skipped, ends the stream or loses the answer,
according to the source (`Fragile`).

### ClusterStore and ResolutionService
`ClusterStore` holds the tables (`clusters`, `lastId`, `members` = entity_links,
`pointer` = leads.cluster_id, `relations`) and the repository's transactions as
operators: `Persist` (with `Reusable`: which old row a record inherits,
`Pruned`, `Untouched`: what the cascade leaves), `UpsertRelation`, `Split`,
`Merge` (with `Remapped`). Nothing is assumed of their arguments there, because
they may be stale. `ResolutionService` runs concurrent *calls* through them:
a call reads (`all_for_resolution` = the `Batch` oldest leads), decides, and
writes, each a step of its own with other calls and `Crash` in between. What the
matcher decides is arbitrary here: any partition of the loaded leads in a batch
run (`Groupings`); in an incremental run any one that keeps the pre-seeded
clusters together, with records only for the groups with a new lead (`Records`).
AUTOINCREMENT is `lastId`, which never goes back.

### ReviewQueue
`rows` is the table with its AUTOINCREMENT counter; `together` and `pinned` are
what answers change elsewhere (the entities and the log). A run reads the
overrides first, decides in its thread, persists, and replaces the pending rows of
its pairs last (`LoadOverrides`, `Decide`, `PersistEntities`, `Enqueue`); an answer
reads an item, acts, logs and closes it, in separate transactions (`ReadItem`,
`MergePair`, `LogMerge`, `KeepSeparate`, `CloseItem`). Closing is an UPDATE that may
meet the UNIQUE constraint (`Refused`): it then raises and the item stays
pending. `acted` is a history variable.

### Clusterer and EntityDecisions
`Clusterer` is the union-find as the partition it represents (`comp`): pins are
entered first and ignore the constraints; edges are then offered in any order,
and refused when the two components contain a must-not-link pair or a weak edge
would chain. `EntityDecisions` adds the `log`: humans split, merge and resolve
reviews (each logs its pairs in the orientation of its code path), a run loads
the overrides, pins, classifies, clusters and logs what it applied, the
overrides included, and each append trims the log to `Keep` rows. `said` is a
history variable: what humans said of each pair, in order.

### LeadFeatures, PairEvidence, CanonicalRecord, LeadScoring, EntityResolver
The first four are operators. `LeadFeatures` gives the normalised view of a lead
(`Features`): name key and blocking prefix, phone numbers with the prefixes they
are written with, registrable domains, social handles, the identities a record
points at and those it is. `PairEvidence` goes from two views to a verdict:
`BlockingKeys`/`CandidatePairs`, edit distance and Jaccard overlap, the nine
signals of `compare_pair`, `Evidence` (the location cap, the sums, the tags) and the
classifier's bands. `CanonicalRecord` picks the golden record of a group.
`LeadScoring` writes the score down three times, as the code does. Text is data: a
name is a sequence of words, an address a set of words, a URL a host and a path, a
handle a sequence of letters (its edit distance is computed: a recursive function
over pairs of prefix lengths, one cell of the table each). Scores are in
1/10000 or in hundredths of a point, so that rounding is visible. `EntityResolver` is one
`resolve()`: leads and human decisions are loaded, pairs are judged (batch, or
those of the new leads with a prior cluster pinned), pins and edges are applied in
the order of the scores through `Clusterer`, and `Finish` derives relations,
reviews, records and what is logged.

### LeadStore
`rows` is the table in id order: the stored `fingerprint` column and the lead.
A lead is abstracted to the two halves of its identity (`who` = name and wilaya,
which an upsert keeps; `reach` = phone and website, which it fills in), to whether
it carries a digital score, an audit and a priority, and to its status. `Upsert`
is the one `INSERT .. ON CONFLICT` statement with the merge policy (`Merged`);
`Save` a campaign or a manual entry; `Edit`, `SetStatus` and `SetContact` the
field-level writes, of which `Edit` leaves the fingerprint column as it was.
`Analyze`, `AnalyzePending` and `ScoreAll` load copies of leads (`Load`) and
`Write` upserts them one at a time, newest first, with anything in between:
`batch` holds what a call has still to write. Since an upsert recomputes the
fingerprint from the copy, the copy of an edited row goes to another row or to a
new one. `LeadScorer.score` sets the digital score too (`Scored`). `said` and
`edited` are history variables. Tags, notes and the contact flag are columns
like the status, and left out.

### SchemaUpgrade, Startup and AttachmentStore
`Startup` is `DatabaseManager.initialise` in every process that opens the file.
The connection has `isolation_level ""`: a DDL statement autocommits unless an
INSERT has opened the transaction. So `Look`, `Rename`, `Baseline`, `ReadRegistry`
and the migrations' PRAGMA answers, DROPs and CREATEs up to the first INSERT are
steps of their own, and from that INSERT (`Copy`, `Register`) everything up to
`Commit` is one transaction held by `writer`. `db` is what is committed: shapes and
rows of the two legacy-shaped tables and of their renamed copies, the v1 records,
the lineage, the v3.1 columns and the registry. `StartFails` is a statement whose table
or column is no longer as an earlier answer said, or a lock that is held too long.
`SchemaUpgrade` says what all this amounts to: an old file becomes a new one in one
step that leaves everything visible as it was. `Era` and `Visible` are the mapping:
what the program finds, or in an old file would find after the upgrade. The `Orphan`s,
attachments whose v1 record is gone, are not part of that: `_fold_legacy_tables` joins
the attachments with `raw_records` and `leads` and drops what does not map
(`Unmappable`), as `tests/test_legacy_upgrade.py:166` expects; an orphan that did
come through would be visible. Campaigns are folded without a join.
`AttachmentStore` runs uploads (file, then row) and deletions (row, then file) of
the opened program on top, in steps, with failures and process ends between them.

### Geography and Checkpoints
`Geography` has the odd-even rule over the boundary rings and the nearest
centroid, with quotients compared by cross-multiplication. `Checkpoints` has the
three routes; a request decides on what it read (`existing`) and writes later
(`Insert`, `Update`, `Delete`). `excused` records the ids for which the code itself lets
wilaya and place diverge (`Diverges`): a wilaya named outright, a place outside every
boundary, two moves of one row that overlap.

### Workspace
`cache` holds the answers of the UI's cached reads, shared by all sessions;
`thread` is what each session's script does, `adrift` are mutations whose session
gave up while the engine still works on them. An answer is abstracted to the
`edition` of each table it has seen, query by query. `Reads`, `TTL`, `Writes` and
`Clears` are the tables of `api_client.py`. A clear does not reach an answer on its way
(`raced`); `promised` is a ghost: the edition that later reads have to show.

## 3. Runs

| Run | Asks | Bounds |
|---|---|---|
| `gate` (`FetchPath`) | `ActiveCountsHolders`, `NoLostWakeup`, `NeverOverAdmits`, `EveryWaiterWoken`, `LabelTruthful` | 3 tasks, floor 1, top 2, `Window` 2 (8 in the code), 2 proxies, health 0..4, a success adds 1, the n-th failure takes 2n, labels at 2 and 3, minimum 1 (100, 5, 15n, 30, 80, 20 in the code) |
| `frontier` | `FailureBudget`, `ExclusiveClaim`, `RetiredUntilLateSuccess` | 2 rows of one host, both seeds, 3 workers, 1 worker per run, 2 failures, sweep every 2 pages (50), both fetch speeds, database errors |
| `campaign` (`ScraperStreams`) | `CompletedMeansExhausted`, `NoStrayPump`, `ResultsFlow`, `StreamsAreStreams` | 2 fingerprints, DuckDuckGo with 2 pages and Overpass with 2 endpoints, at most 2 leads per stream, queue of 1 (256), limits 1 and 3, Overpass may hang, repository errors |
| `campaign_hang` (violated) | `CampaignSettles` | DuckDuckGo and SearXNG, limit 1, no hang, no errors |
| `resolution` | `LiveReferences`, `MembershipAgrees`, `GrowthKeepsAnId`, `IdsNotReused` | 4 leads, 4 cluster ids, `Batch` 3, 2 calls, with and without overlap |
| `reviews` | `OneRowPerStatus`, `ClosedAsActed` | 2 pairs, one of them of two entities, 2 clients, 2 items ever |
| `decisions` | `VetoesHold`, `HumanMergesHold`, `PinsAreHuman` | 3 leads, log of 2 rows, 2 human operations, overlap with a run |
| `engine` (`EntityResolver`) | `LocationNeverMerges`, `BranchesKeptApart`, `VerdictsSymmetric`, `SharedIdentifierCompared`, `NameIndependentOfOrder`, `BreakdownsAddUp`, `ReachPays`, `AuditsAgree` | every sequence of 3 leads out of 15, blocks of 2, batch runs and incremental ones whose new lead is the third, at most 1 human decision |
| `leads` | `CrmKept`, `IdentityStable`, `ResultsKept`, `PendingDrains` | 2 names, with and without contact data, 2 identities discovered, 1 edit, 1 call at a time loading 2 leads, fair |
| `startup` (`AttachmentStore`) | `RecordsKept`, `RowHasFile`, `OpensAgain`, `UpgradeIsAtomic` | 2 processes, one after the other or at once, files that are new, v1, v2.0.0, upgraded in part, or v3.0.0, with 1 record, 2 legacy rows (as attachments, one of them an orphan) and 1 new row of a table, 2 crashes |
| `checkpoints` | `PlacedWhereItSays` | 2 callers, 1 checkpoint, 2 wilayas that share a border, points inside, on the border and outside |
| `workspace` | `OwnWritesShown`, `StaleHeals` | 2 sessions, the geography panel (two tables) and the attachments (one), mutations of leads, checkpoints and attachments, 2 writes, 1 mutation adrift |

The properties are aimed at the hazards of `PROJECT.json`. Type correctness is a
theorem where there are proofs and is not run again. Every property has a mutant
of the code (`PROJECT.json`) that violates it under the same configuration. The
definitions that a "Mutant" comment announces are used by nothing else.

**Why the bounds are enough to be interesting.** Three tasks over a ceiling that
moves between 1 and 2 give a newcomer, a sleeper and a woken task at once; two
proxies on a scale of five steps pass through every label, the reset of the pool
and a failure after it. All bootstrap seeds of the program are of one search host,
so two rows of one host are its frontier: three workers at one per run let workers
of an earlier run go on beside a second and a third one, while a row is retried,
swept or retired. A queue of one is full whenever anything is in it, which is the
only thing the pumps can tell of its size; limits 1 and 3 over two fingerprints
stop early or never, and two pages and endpoints are a first and a next one. Four
leads with a batch of three give leads outside the loaded window and clusters
that straddle it; four ids are enough for a split, a merge and a re-creation. Two
items are a first one and the one that replaces it. A log of two rows is trimmed
by every two-pair decision. The fifteen leads between them give every signal each
of its outcomes, and three of them a chain, a prior cluster with a newcomer, and a
majority of names; blocks of two are exceeded by three. One business found with
contact data and one without make the upsert both merge and fill in; one edit
makes a row's fields and its fingerprint disagree, or agree with another row's. Two
crashes die in an upgrade and in its repetition. A read of two tables can see one
before and the other after a write.

**Bounds in guards.** `MaxId` (ids ever allocated), `OverlapIds` (a call starts
beside another only while fewer ids were allocated), `Calls` (human operations),
`OverFetch` (leads per stream), `MaxPages` and `Endpoints` (the code's own),
`Saved` (identities ever discovered), `MaxEdits` (each row is edited at most once),
`NewSets` and `MaxJudged` (which leads are new, human decisions), `MaxCrashes`,
`MaxWrites` and `MaxAdrift` cap what would grow without end; a checkpoint id is
used once. A proxy's streak is saturated where any longer one has the same effect
(`Enough`). Abstractions that limit the inputs: a run yields at most one relation
and a campaign creates one new lead at a time in `ResolutionService`; in
`EntityDecisions` splits and merges are of two groups, and a run logs at most one
row of the engine's own; `ReviewQueue` has pairs that share no lead. `Window` and
`pages` are counted modulo what the code asks of them. Fetch speed (`SlowFetch`),
overlap of calls (`Overlaps`) and of processes (`Overlap`) are chosen by `Init`, so
that a property can speak of one case.

**Deadlock.** It is checked wherever the system never stops: the gate, the frontier,
the lead store, the review queue, the startup and the workspace.
`CHECK_DEADLOCK FALSE` is set where it really ends: a campaign returns; a
resolution run is done; the resolution and decision modules run out of the bounded
ids or human operations, the checkpoints out of ids.

**Fairness.** Weak fairness of single steps only. *Gate*: a woken task is on the
loop's ready queue, and a fetch ends, as the HTTP client has timeouts; no worker is
obliged to enter again. *Campaign*: the loop runs what is ready, database calls
return, and a stream that does not hang goes on until it ends (every fetch has a
timeout); `hung` streams are excluded. *Leads*: a call that has begun goes on, and an
operator keeps calling analyze-pending whenever it would find something (strong
fairness, as other calls come and go); nobody is obliged to edit, save or score.
*Startup*: a process that has begun its start goes on with it, and one that is
off is started again; crashes are bounded. *Workspace*: clocks do not stop; nothing
obliges a session to read, or the engine to answer. The other runs are of safety
and state none.

## 4. Findings

`campaign_hang`: a campaign stopped early with a full queue never returns. The
cancelled pumps' `finally` clauses put end markers into a queue nobody reads, and
the generator gathers those pumps: the record stays "processing" and the request
does not answer, against what `discover` says of its campaign record. `PROJECT.json`
quotes both places.

**Observations.** These are true of the code, seen while modelling it; where a
module is named its model behaves so. No run claims otherwise.

*Crawler.*
- The stale sweep is tied to the count of pages fetched by this process
  (`services/crawler_service.py:177`): the orphans of a crash are never swept while
  nothing else is claimable (`CrawlFrontier`).
- `_extract_and_save` and `_expand` are methods of the wrong class
  (`services/crawler_service.py:258`): no clean page is saved or expanded; its row
  is marked completed and then failed (`CrawlFrontier`).
- `start()` during `stop()`: when the old run ends or is cancelled, `stop()` forgets
  the new run's task, which a later `stop()` then neither awaits nor cancels. The
  branch for the timeout (`services/crawler_service.py:140`) is not reached, since
  `_run` swallows its cancellation (`:154`). A worker's uncaught database error ends its
  run's task while the siblings go on and cannot be cancelled any more (`CrawlFrontier`).
- `update_status` writes by row id whatever the row's status is
  (`infrastructure/storage/crawl_queue_repo.py:113`): a worker that outlasted the stale
  threshold, and holds a row that others have meanwhile failed for good, records its
  success (`services/crawler_service.py:227`) and then the failure of its except clause
  (`:173`): failed, completed with the count reset, pending again. The row is offered
  once more (`CrawlFrontier` with `slow`); `RetiredUntilLateSuccess` says that this is
  the only way back.
- All bootstrap seeds are of one host, so the politeness delay serialises the
  workers at first.
- A proxy below the minimum is not used again until all are; failure streaks survive
  the reset of the pool (`FetchPath`). `2.0 ** attempt` overflows after 1,024 blocks of
  a host in a row (`infrastructure/resilience.py:60`). Non-HTML content counts as
  a block. `http.close_all` may drop a client built meanwhile without closing it.

*Campaign.*
- One malformed Overpass element loses the whole answer; a malformed SearXNG
  result the rest of it (`ScraperStreams`).
- `scrapers/base.py:4` says that a host's token bucket is shared by the scrapers;
  `get_aggregator` passes none, so each has its own. Nothing calls the limiter's `prune`.

*Resolution.*
- An incremental run prunes within the scope of all loaded leads, writes records
  only for groups with new leads, and so deletes the clusters it did not touch
  (`services/discovery_service.py:296`; `ResolutionService`).
- A split and a merge of one pair may be logged in opposite orientations;
  `manual_overrides` then returns both and the older may win
  (`infrastructure/storage/cluster_repo.py:363`, `engine/resolution/resolver.py:352`;
  `EntityDecisions`).
- A pair that is queued again and answered as before meets UNIQUE(lead_a, lead_b,
  status): the answer acts, then fails, and the item stays pending (`ReviewQueue`).
  Merges of pairs that are not in two clusters log no decision.
- `blocking.py:1` promises never to miss a pair that shares an identifier; the
  e-mail address is no blocking key. `features.py:19` describes more sources of social
  identities than `_social_identities` reads, and hosts with `www.` yield none. Landlines
  written in different forms do not normalise alike (`features.py:150`). The
  `affiliated` relation is out of reach with the default thresholds.
- Bulk updates stamp their leads with one time (`infrastructure/storage/lead_repo.py:357`).
  Between members of equal trust and time the first of the run wins, so which of two
  spellings an entity shows may then depend on the order
  (`engine/resolution/canonical.py:187`); otherwise it does not (`EntityResolver`).
- Of values whose name keys are equal only one is kept. Records without a
  candidate pair are in no group, so `output_count` leaves them out.

*Leads and checkpoints.*
- The score also fills in `digital_score` (`engine/scorer.py:82`), by whose absence
  `list_unanalyzed` recognises leads without an audit: a lead that score-all reaches
  first is never audited by analyze-pending (`LeadStore`).
- The analyzer pays for any address, the scorer for one of more than five
  characters (`engine/analyzer.py:195`; `LeadScoring`).
- Moving a checkpoint off every boundary keeps its old wilaya while creating it
  there takes the nearest; a PATCH with only a wilaya stores any; two overlapping
  PATCHes leave a stale one (`Checkpoints`). An explicit null coordinate in a PATCH
  reaches the geometry and fails as a server error.

*Storage and UI.*
- Two processes that start at once act on stale PRAGMA answers and may rename a
  table of the new shape away (`Startup`; hence `Visible` is empty with `overlap`).
- No clear drops the crawler's status (15 s), although `api_client.py:122` says
  that the helpers clear exactly what their writes affect; an upload clears the
  attachments only because the panel does (`ui/components/lead_detail.py:146`). A
  mutation that times out clears nothing while the engine goes on (`Workspace`). The
  checkpoint panel sends status *and* category from its cached row
  (`ui/components/checkpoints.py:143`), and may write an old value back.

## 5. Proofs

| Module | Theorems | Inductive invariant |
|---|---|---|
| `FetchPath_proofs`: gate | `GateTypeOK`, `HoldersWithinMaximum`, `WakeupsNotLost`, `AdmissionsWithinCeiling` | `GateInv` |
| – fetch path | `LabelsAreTruthful`, `PathUsesTheGate`, `GateHoldsInPath` | `PoolInv` |
| `CrawlFrontier_proofs` | `FrontierTypeOK`, `BudgetIsKept`, `ClaimsAreExclusive`, `RetirementOutlivesSweeps` | `IndInv` |
| `ScraperStreams_proofs` | `PumpsGone`, `CompletedOnlyWhenExhausted`, `StreamsImplementCampaign`, `CampaignHoldsOverScrapers` | `CampaignInv` |
| `ResolutionService_proofs`: service | `ServiceTypeOK`, `ReferencesStayLive`, `MembershipStaysAgreed`, `RelationsJoinOthers`, `IdsDenoteOneEntity`, `GrowthKeepsIds` | `IndInv` |
| – review queue | `OneItemPerPair`, `ItemsCloseAsActed` | `QueueInv` |
| `EntityDecisions_proofs`: decision log | `DecisionsTypeOK`, `ConstraintsHold`, `HumanMergesAreKept`, `PinsComeFromHumans` | `IndInv` |
| – engine | `LocationAloneNeverMerges`, `BranchesStayApart`, `VerdictsAreSymmetric`, `IdentifiersCompared`, `NamesIndependentOfOrder`, `BreakdownsHold`, `ReachAlwaysPays`, `AuditsAlwaysAgree` | `ResolverInv`, `PinsInv` |
| `LeadStore_proofs`: leads | `LeadTypeOK`, `CrmStaysKept`, `IdentitiesAreStable`, `ResultsAccumulate` | `LeadInvariant` |
| – checkpoints | `CheckpointsPlaced` | `CheckpointInv` |
| `AttachmentStore_proofs` | `RecordsAreKept`, `RowsHaveFiles`, `OpeningIsOneUpgrade` | `OpenInv`, `FileInv`, `AloneInv` |
| `Workspace_proofs` | `WritesAreShown` | `WorkspaceInv` |

They hold for every value of the constants that satisfies the named assumptions
(`GateAssumption`, `ProxyAssumption`, `FrontierAssumption`, `CampaignAssumption`,
`StreamAssumption`, `StoreAssumption`, `ServiceAssumption`, `LeadAssumption`,
`LogAssumption`, `LeadStoreAssumption`, `WorkspaceAssumption`, `QueueAssumption`,
`GeographyAssumption`, `StartupAssumption`, `ResolverAssumption`), which give the types
of the constants, say that the sets of tasks, pumps, leads and pairs are finite, and
order the proxies' thresholds. `ResolverAssumption` says what a stored lead is (`IsLead`:
finite sets of words and numbers, texts as sequences, the prefixes a number is written
with) and numbers the leads of a run. One theorem has a hypothesis besides,
`BoundariesDisjoint`: nothing in the code keeps two boundary rings apart, the rings are
data. Random points of the country put into the repository's own boundary file found
none in two wilayas, and the instance of the run `checkpoints` satisfies it.

The invariants and why each strengthening is there:

- **Gate**: types, `ActiveCountsHolders` and `NoLostWakeup`. The count needs the
  queue to hold exactly the sleepers, each once (`QueueIsWaiting`), or a notify
  could wake a task that is elsewhere. The wake-up count compares the *woken*
  tasks with the *free* slots: a newcomer that takes the slot of a woken task
  lowers both sides. One lemma per critical section.
- **Fetch path**: every step of the path is a step of the gate or leaves it alone
  (`PathUsesTheGate`), so the gate's theorems hold inside it (`GateHoldsInPath`). A
  label is a function of the score except for "recovering", which
  survives as long as the score stays healthy; `PoolInv` adds the types and that a
  task's proxy is a configured one (`ViaType`).
- **Frontier**: `FailureBudget` is inductive with the types, stale reports
  included. `ExclusiveClaim` is not: it needs `InFlight` (a row in a worker's
  hands is `processing`, or `completed` while its error is being handled, and its
  claim is not stale), which says why neither a sweep nor a second claim can reach
  it, whichever run the worker belongs to. `InFlight` is conditional on `~slow`,
  exactly as the property is. It gives `RetirementOutlivesSweeps` as well: `FailureBudget`
  leaves a failed row to a recorded success alone, and without `slow` no worker that
  could record one holds a failed row.
- **Campaign**: `Counted` says that, while the generator is open, the end markers
  read and those in the queue are as many as the pumps that are done, and that the
  queue's last item is an end marker once all are done: when the last marker is
  read nothing is behind it. `Saved` says that what was yielded is saved or in hand,
  `Life` which stages of pumps, generator and service go together, and `Ended` why
  the generator closed. The refinement needs `BelowLimit` besides: a stream that
  yields has not reached its limit.
- **Resolution service**: `IndInv` adds to the properties `Ready` (what a call is
  about to write is well formed: a split writes disjoint non-empty groups) and, for
  calls that do not overlap, `OneAtATime` and `Current` (what the call read is
  still so). `LiveReferences` needs only `Ready`, so it holds under any
  overlap; `MembershipAgrees` needs `Current`, and is false without it.
  `Persist` is proved once (cascade, pruning and placement of the records)
  and cited for the run, join and pair operations. `GrowthKeepsAnId` is an action
  property and comes from the same invariant: a cluster is non-empty, so a record
  that holds one would have found it `Reusable` and inherited its id
  (`TransactionsKeepAnId`); a split removes nothing and a merge inserts nothing.
- **Review queue**: `QueueInv` is the two properties with `HeldItem`. An answer writes
  what it read some awaits ago: the row it will close may have been replaced, so
  `HeldItem` says that an id never comes to stand for another pair, and that past
  the act the answer has been carried out. `OneRowPerStatus` needs no more than its
  types: the deletion of the superseded rows and the UNIQUE constraint are in it.
- **Decisions**: `ForestInv` (components are a partition, pins are never pulled
  apart, a pin that is not yet entered is still on the list) gives `VetoesHold` and
  `HumanMergesHold`. `LogInv` gives `PinsAreHuman`: it must speak of *every* row of
  the log and of the overrides a run has in hand, because trims and re-logging make
  other rows the latest ones.
- **Engine**: `ResolverInv` says that the verdicts of a run are a function of its leads
  and its human decisions (`Judged`) from the moment they are made, so what is proved of
  two arbitrary leads holds in every state: `AddressSignal` alone outweighs what a
  merge may have against it (`DisjointAddressesConflict`), a shared identifier is a
  blocking key that no block limit drops (`SharedKey`, with `MobileKey` for the forms a
  number is written in), every signal is the same both ways (`EvidenceBothWays`), and
  the sum of the location signals is capped below the bar of a merge
  (`LocationIsCapped`). `PinsInv` adds, for `LocationNeverMerges`, that a pin is either
  still to be replayed or has joined its pair for good, and that an edge is a SAME
  verdict of this run. The edit distance is a recursive function; that such a
  function exists and is symmetric is proved by induction stated as a fact about a
  set of numbers (`SetInduction`, from the well-foundedness of the naturals):
  `EditsExist` fills the table diagonal by diagonal. `KeptExists` does the same for
  the words left of a name. For the display name, `FirstMaxExists` finds the first of
  the highest ranks by the same induction; under any permutation of the group the
  spellings agreed on, how often each form is used and the ranks stay what they were
  (`AgreedReordered`, `MostLikeReordered`, `FirstMaxReordered`), so the members chosen
  in two orders have the same rank, and every rank holds trust and time. The three facts
  on scores are arithmetic over the
  channels of a lead, once each flag is known to be 0 or 1.
- **Lead store**: the properties are inductive with the types; `UpsertStep`
  is the heart: whatever copy is upserted, however old, the row it meets keeps its
  CRM fields (`Merged`), its fingerprint, and with it the agreement of fingerprint
  and fields, because a copy that carries contact data carries those of the
  fingerprint it conflicts on. The strengthening needed is that the history has
  one entry per row (in `TypeOK`).
- **Checkpoints**: the property reads the wilayas that contain a place, the code the
  first one (`Lookup`). `CheckpointInv` says that the row carries what the lookup of
  its place gives unless it is excused; an overlapping move excuses a row in the
  very step that would break it. The theorem then needs that one wilaya at most
  contains the place (`BoundariesDisjoint`).
- **Opening and attachments**: `OpenInv` puts a v1 record in one of the two tables of
  `db` *and* of the open transaction `tx`, and ties migration 8 to what it moves: nothing
  is added to a table before 8 is recorded, and who runs it has not seen it recorded.
  `FileInv` gives every upload under way a name of its own, and says which half of a
  request is already done. `OpeningIsOneUpgrade` is the refinement: `AloneInv` holds
  for one process at a time and says that what it looked up is still so, table by
  table and at every place in the start (`PlaceAlone`), and that the open transaction
  shows what the file shows; with it a step of the start leaves `Era` and `Visible` as
  they are or is the one `Upgrade` of `SchemaUpgrade`. That a v2 table is empty before
  migration 8 is recorded (`TablesAlone`) is what makes the fold drop every orphan.
- **Workspace**: `Fresh` is `OwnWritesShown` extended to answers that are still on
  their way: what no clear has raced is as recent as promised. `ClearsCover` is the
  fact about the tables of `api_client.py` that it rests on: every mutation but the
  crawler's clears every read of the table it writes.

**Only model-checked**: the liveness properties (`EveryWaiterWoken`, `ResultsFlow`,
`PendingDrains`, `OpensAgain`, `StaleHeals` and the fairness half of
`StreamsAreStreams`), because liveness under fairness and `ENABLED` are outside what
the installed provers do; and `campaign_hang`, which refutes one. Every safety property
of a passing run is a theorem.

## 6. Not modelled, and why

- *Token bucket and backoff*: floating-point accounts of time; a fetch takes any
  time in the models, and is blocked or not.
- *Cancellation inside the gate* (a stop's timeout while a worker waits for a slot):
  depends on how `asyncio.Condition` handles a cancelled waiter, which is code
  outside the repository. `CrawlFrontier` cancels its workers, `FetchPath` does not.
- *The enrichment of a result by its detail page, parsing of answers, the URL
  dedup cache, the HTTP client cache*: what they yield is any lead, any page, any outcome.
- *Text*: spam filter, phone validation, freshness patterns, pitches, trigrams; words,
  prefixes and buckets stand for them.
- *Export, settings, the dependency guard, set-up scripts, benchmarks, UI widgets*: they
  format, configure or present, and keep no state that others rely on.
- *SQLite* is external: transactions are atomic, constraints and cascades behave as
  the schema says, `busy_timeout` may pass.

## 7. Plan

Done, in the order of importance: the gate and the frontier, the entity tables with
their services, the decision log, the lead store, the campaign; then the engine
of resolution, the upgrade of the database with its abstraction, attachments,
the review queue, the scrapers as a refinement, the proxies around the gate, overlapping
runs of the crawler, checkpoints and the UI's caches.

Every safety property of the runs is now a theorem. What is left, in this
order:

1. The token bucket, as a module with integer time.
2. Cancellation of a waiter, once what `asyncio.Condition` promises is written down.
