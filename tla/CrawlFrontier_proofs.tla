------------------------- MODULE CrawlFrontier_proofs -------------------------
(***************************************************************************)
(* Proofs about CrawlFrontier for any number of rows, hosts and workers,   *)
(* and any failure limit and sweep interval.                               *)
(***************************************************************************)
EXTENDS CrawlFrontier, TLAPS

-----------------------------------------------------------------------------
\* FailureBudget is inductive as it stands.  ExclusiveClaim is not: a second
\* worker can claim a row only when it is pending, so the row of every holder
\* must be known not to be, nor to be about to be swept back.
InFlight ==
  \A w \in Worker :
    holds[w] # None =>
      /\ ~aged[holds[w]]
      /\ status[holds[w]] \in {"processing", "completed"}
      /\ pc[w] # "raised" => status[holds[w]] = "processing"

IndInv ==
  /\ TypeOK
  /\ FailureBudget
  /\ ~slow => InFlight
  /\ ExclusiveClaim

\* Row ids start at 1.
LEMMA NoRow == None \notin Row
BY FrontierAssumption DEF None, Row

LEMMA InitEstablishes == Init => IndInv
<1>. SUFFICES ASSUME Init PROVE IndInv
  OBVIOUS
<1>1. TypeOK
  <2>1. pages \in 0..SweepEvery
    BY FrontierAssumption DEF Init
  <2>. QED BY <2>1, NoRow DEF Init, TypeOK, RunsType, Status, Step
<1>2. FailureBudget
  BY FrontierAssumption DEF Init, FailureBudget
<1>3. InFlight /\ ExclusiveClaim
  BY DEF Init, InFlight, ExclusiveClaim
<1>. QED BY <1>1, <1>2, <1>3 DEF IndInv

-----------------------------------------------------------------------------
LEMMA RunsTypeStep == ASSUME RunsType, [Next]_vars PROVE RunsType'
<1> USE DEF RunsType
<1>1. CASE UNCHANGED runs
  BY <1>1 DEF runs
<1>2. CASE Start \/ Stop \/ Stopped \/ TimesOut \/ Crash
  <2>1. CASE Start
    BY <2>1 DEF Start
  <2>2. CASE Stop \/ Stopped
    BY <2>2 DEF Stop, Stopped
  <2>3. CASE TimesOut \/ Crash
    BY <2>3 DEF TimesOut, Crash, runs
  <2>. QED BY <1>2, <2>1, <2>2, <2>3
<1>3. ASSUME NEW w \in Worker, WorkerDies(w) PROVE RunsType'
  BY <1>3 DEF WorkerDies
<1>4. [Next]_vars => \/ UNCHANGED runs
                     \/ Start \/ Stop \/ Stopped \/ TimesOut \/ Crash
                     \/ \E w \in Worker : WorkerDies(w)
  BY DEF Next, vars, runs, Bootstrap, GrowsStale, PolitenessElapses, LeaveLoop, Claim, BeginCrawl,
     FetchFails, FetchSucceeds, SaveRaises, HandleError, RecordRaises
<1>. QED BY <1>1, <1>2, <1>3, <1>4

\* Types.  A worker that has claimed a row holds one.
LEMMA TypeStep == ASSUME TypeOK, [Next]_vars PROVE TypeOK'
<1>. RunsType'
  BY RunsTypeStep DEF TypeOK
<1> USE FrontierAssumption, NoRow DEF TypeOK, Status, Step
<1>1. CASE UNCHANGED vars
  BY <1>1 DEF vars
<1>2. ASSUME NEW r \in Row, Bootstrap(r) \/ GrowsStale(r) PROVE TypeOK'
  BY <1>2, ZenonT(60) DEF Bootstrap, AddUrl, GrowsStale, workers
<1>3. ASSUME NEW d \in Domain, PolitenessElapses(d) PROVE TypeOK'
  BY <1>3 DEF PolitenessElapses, workers
<1>4. CASE Start \/ Stop \/ Stopped \/ TimesOut \/ Crash
  <2>1. CASE Start
    <3>1. PICK team \in SUBSET {w \in Worker \ awaited : pc[w] = "off"} :
             task' = team /\ pc' = [w \in Worker |-> IF w \in team THEN "idle" ELSE pc[w]]
      BY <2>1 DEF Start
    <3>2. \A w \in team : w \in Worker /\ pc[w] = "off" /\ holds[w] = None
      OBVIOUS
    <3>3. running' = TRUE /\ UNCHANGED <<status, fails, aged, recent, pages, holds, slow, awaited, stopping>>
      BY <2>1 DEF Start, tables
    <3>. QED BY <3>1, <3>2, <3>3
  <2>2. CASE Stop \/ Stopped
    BY <2>2 DEF Stop, Stopped, tables, workers
  <2>3. ASSUME NEW team, Cancelled(team)
        PROVE  /\ pc' \in [Worker -> Step]
               /\ holds' \in [Worker -> Row \cup {None}]
               /\ \A w \in Worker : holds'[w] = None <=> pc'[w] \in {"off", "idle"}
    BY <2>3 DEF Cancelled
  <2>5. CASE TimesOut
    BY <2>3, <2>5 DEF TimesOut, tables
  <2>4. CASE Crash
    <3>1. 0 \in 0..SweepEvery
      OBVIOUS
    <3>. QED BY <2>3, <2>4, <3>1 DEF Crash, tables
  <2>. QED BY <1>4, <2>1, <2>2, <2>4, <2>5
<1>5. ASSUME NEW w \in Worker, LeaveLoop(w) PROVE TypeOK'
  BY <1>5 DEF LeaveLoop, tables
<1>6. ASSUME NEW w \in Worker, Claim(w) PROVE TypeOK'
  <2>1. PICK r \in Row : ClaimNext(r) /\ holds' = [holds EXCEPT ![w] = r]
    BY <1>6 DEF Claim
  <2>2. r # None /\ pc' = [pc EXCEPT ![w] = "claimed"] /\ UNCHANGED <<running, pages, slow>>
    BY <1>6 DEF Claim
  <2>. QED BY <2>1, <2>2 DEF ClaimNext, MarkClaimed
<1>7. ASSUME NEW w \in Worker, BeginCrawl(w) PROVE TypeOK'
  BY <1>7 DEF BeginCrawl, ResetStale, tables
<1>8. ASSUME NEW w \in Worker, FetchFails(w) \/ HandleError(w) PROVE TypeOK'
  <2>1. holds[w] \in Row /\ RecordFailure(holds[w])
    BY <1>8 DEF FetchFails, HandleError
  <2>2. StatusAfterFailure(fails[holds[w]]) \in Status
    BY DEF StatusAfterFailure
  <2>. QED BY <1>8, <2>1, <2>2 DEF RecordFailure, FetchFails, HandleError
<1>9. ASSUME NEW w \in Worker, FetchSucceeds(w) PROVE TypeOK'
  <2>1. (pages % SweepEvery) + 1 \in 0..SweepEvery
    OBVIOUS
  <2>. QED BY <1>9, <2>1 DEF FetchSucceeds, tables
<1>10. ASSUME NEW w \in Worker, SaveRaises(w) PROVE TypeOK'
  BY <1>10 DEF SaveRaises, RecordSuccess
<1>11. ASSUME NEW w \in Worker, WorkerDies(w) \/ RecordRaises(w) PROVE TypeOK'
  BY <1>11 DEF WorkerDies, RecordRaises, tables
<1>. QED BY <1>1, <1>2, <1>3, <1>4, <1>5, <1>6, <1>7, <1>8, <1>9, <1>10, <1>11 DEF Next

-----------------------------------------------------------------------------
\* What a step does to one row, the actions' guards forgotten.
RowStep(r) ==
  \/ status'[r] = status[r] /\ fails'[r] = fails[r]
  \/ status[r] = "absent" /\ status'[r] = "pending" /\ fails'[r] = fails[r]
  \/ status[r] = "pending" /\ status'[r] = "processing" /\ fails'[r] = fails[r]
  \/ status[r] = "processing" /\ status'[r] = "pending" /\ fails'[r] = fails[r]
  \/ /\ \E w \in Worker : pc[w] = "saving" /\ holds[w] = r
     /\ status'[r] = "completed" /\ fails'[r] = 0
  \/ /\ status'[r] = StatusAfterFailure(fails[r])
     /\ fails'[r] = fails[r] + 1

LEMMA RowSteps ==
  ASSUME TypeOK, [Next]_vars
  PROVE  \A r \in Row : RowStep(r)
<1> USE DEF TypeOK, RowStep
<1>1. CASE UNCHANGED <<status, fails>>
  BY <1>1
<1>2. ASSUME NEW r \in Row, AddUrl(r) PROVE \A q \in Row : RowStep(q)
  BY <1>2 DEF AddUrl
<1>3. ASSUME NEW r \in Row, ClaimNext(r) PROVE \A q \in Row : RowStep(q)
  BY <1>3 DEF ClaimNext, MarkClaimed, Eligible
<1>4. CASE ResetStale
  BY <1>4 DEF ResetStale, Stalled
<1>5. ASSUME NEW w \in Worker, SaveRaises(w) PROVE \A q \in Row : RowStep(q)
  BY <1>5 DEF SaveRaises, RecordSuccess
<1>6. ASSUME NEW r \in Row, RecordFailure(r) PROVE \A q \in Row : RowStep(q)
  BY <1>6 DEF RecordFailure
<1>7. ASSUME NEW w \in Worker, FetchFails(w) \/ HandleError(w)
      PROVE  holds[w] \in Row
  BY <1>7 DEF FetchFails, HandleError
<1>8. \/ UNCHANGED <<status, fails>>
      \/ \E r \in Row : AddUrl(r) \/ ClaimNext(r) \/ RecordFailure(r)
      \/ \E w \in Worker : SaveRaises(w)
      \/ ResetStale
  BY <1>7 DEF Next, vars, Bootstrap, GrowsStale, PolitenessElapses, Start, Stop, Stopped, TimesOut,
     Crash, LeaveLoop, Claim, BeginCrawl, FetchFails, FetchSucceeds,
     HandleError, WorkerDies, RecordRaises, tables, workers, Cancelled
<1>. QED BY <1>1, <1>2, <1>3, <1>4, <1>5, <1>6, <1>8

LEMMA BudgetStep ==
  ASSUME TypeOK, FailureBudget, [Next]_vars
  PROVE  FailureBudget'
<1>1. \A r \in Row : RowStep(r)
  BY RowSteps
<1>. QED BY <1>1, FrontierAssumption
         DEF TypeOK, FailureBudget, RowStep, StatusAfterFailure

LEMMA RetiredStep ==
  ASSUME TypeOK, FailureBudget, ~slow => InFlight, [Next]_vars,
         NEW r \in Row, status[r] = "failed"
  PROVE  status'[r] = "failed" \/ LateSuccess(r)
<1>1. RowStep(r)
  BY RowSteps
<1>2. fails[r] \in Nat /\ fails[r] >= MaxFailures
  BY DEF TypeOK, FailureBudget
<1>3. ASSUME NEW w \in Worker, pc[w] = "saving", holds[w] = r PROVE slow
  BY <1>3, NoRow DEF InFlight, TypeOK
<1>4. StatusAfterFailure(fails[r]) = "failed"
  BY <1>2, FrontierAssumption DEF StatusAfterFailure
<1>. QED BY <1>1, <1>3, <1>4 DEF RowStep, LateSuccess

-----------------------------------------------------------------------------
\* Claims.
LEMMA ClaimStep ==
  ASSUME TypeOK, ~slow, InFlight, ExclusiveClaim, [Next]_vars
  PROVE  slow' = slow /\ InFlight' /\ ExclusiveClaim'
<1> USE NoRow DEF TypeOK, InFlight, ExclusiveClaim
<1>1. CASE UNCHANGED vars
  BY <1>1 DEF vars
<1>2. ASSUME NEW r \in Row, Bootstrap(r) \/ GrowsStale(r)
      PROVE  slow' = slow /\ InFlight' /\ ExclusiveClaim'
  BY <1>2 DEF Bootstrap, AddUrl, GrowsStale, workers
<1>3. ASSUME NEW d \in Domain, PolitenessElapses(d)
      PROVE  slow' = slow /\ InFlight' /\ ExclusiveClaim'
  BY <1>3 DEF PolitenessElapses, workers
<1>4. CASE Start \/ Stop \/ Stopped \/ TimesOut \/ Crash
  <2>1. CASE Start
    <3>1. UNCHANGED <<status, aged, holds, slow>>
      BY <2>1 DEF Start, tables
    <3>2. PICK team \in SUBSET {w \in Worker \ awaited : pc[w] = "off"} :
             pc' = [w \in Worker |-> IF w \in team THEN "idle" ELSE pc[w]]
      BY <2>1 DEF Start
    <3>3. \A w \in team : holds[w] = None
      OBVIOUS
    <3>. QED BY <3>1, <3>2, <3>3
  <2>2. CASE Stop \/ Stopped
    BY <2>2 DEF Stop, Stopped, tables, workers
  <2>3. CASE TimesOut \/ Crash
    <3>1. UNCHANGED <<status, aged, slow>>
      BY <2>3 DEF TimesOut, Crash, tables
    <3>2. PICK team : Cancelled(team)
      BY <2>3 DEF TimesOut, Crash, runs
    <3>3. \A w \in Worker : holds'[w] # None => holds'[w] = holds[w] /\ pc'[w] = pc[w]
      BY <3>2 DEF Cancelled
    <3>. QED BY <3>1, <3>3
  <2>. QED BY <1>4, <2>1, <2>2, <2>3
<1>5. ASSUME NEW w \in Worker, LeaveLoop(w) \/ WorkerDies(w) \/ RecordRaises(w)
      PROVE  slow' = slow /\ InFlight' /\ ExclusiveClaim'
  <2>1. CASE LeaveLoop(w)
    BY <2>1 DEF LeaveLoop, tables
  <2>2. CASE WorkerDies(w)
    BY <2>2 DEF WorkerDies, tables
  <2>3. CASE RecordRaises(w)
    BY <2>3 DEF RecordRaises, tables
  <2>. QED BY <1>5, <2>1, <2>2, <2>3
<1>6. ASSUME NEW w \in Worker, Claim(w)
      PROVE  slow' = slow /\ InFlight' /\ ExclusiveClaim'
  <2>1. PICK r \in Row : ClaimNext(r) /\ holds' = [holds EXCEPT ![w] = r]
    BY <1>6 DEF Claim
  <2>2. pc' = [pc EXCEPT ![w] = "claimed"] /\ UNCHANGED <<running, pages, slow>>
    BY <1>6 DEF Claim
  <2>3. \A v \in Worker : holds[v] # r
    BY <2>1 DEF ClaimNext, Eligible
  <2>. QED BY <2>1, <2>2, <2>3 DEF ClaimNext, MarkClaimed
<1>7. ASSUME NEW w \in Worker, BeginCrawl(w)
      PROVE  slow' = slow /\ InFlight' /\ ExclusiveClaim'
  BY <1>7 DEF BeginCrawl, ResetStale, Stalled, tables
<1>8. ASSUME NEW w \in Worker, FetchFails(w) \/ HandleError(w)
      PROVE  slow' = slow /\ InFlight' /\ ExclusiveClaim'
  <2>1. \A v \in Worker \ {w} : holds[v] # None => holds[v] # holds[w]
    BY <1>8 DEF FetchFails, HandleError
  <2>. QED BY <1>8, <2>1 DEF FetchFails, HandleError, RecordFailure
<1>9. ASSUME NEW w \in Worker, FetchSucceeds(w)
      PROVE  slow' = slow /\ InFlight' /\ ExclusiveClaim'
  BY <1>9 DEF FetchSucceeds, tables
<1>10. ASSUME NEW w \in Worker, SaveRaises(w)
       PROVE  slow' = slow /\ InFlight' /\ ExclusiveClaim'
  <2>1. \A v \in Worker \ {w} : holds[v] # None => holds[v] # holds[w]
    BY <1>10 DEF SaveRaises
  <2>. QED BY <1>10, <2>1 DEF SaveRaises, RecordSuccess
<1>. QED BY <1>1, <1>2, <1>3, <1>4, <1>5, <1>6, <1>7, <1>8, <1>9, <1>10 DEF Next

\* slow is a choice of the initial state.
LEMMA SlowFixed == ASSUME [Next]_vars PROVE slow' = slow
BY DEF Next, vars, Bootstrap, AddUrl, GrowsStale, PolitenessElapses, Start, Stop, Stopped, TimesOut,
   Crash, LeaveLoop, Claim, BeginCrawl, FetchFails, FetchSucceeds, SaveRaises,
   HandleError, WorkerDies, RecordRaises, Cancelled, tables, workers

-----------------------------------------------------------------------------
\* Every reachable state of the frontier satisfies the inductive invariant.
THEOREM FrontierInvariant == Spec => []IndInv
<1>1. Init => IndInv
  BY InitEstablishes
<1>2. IndInv /\ [Next]_vars => IndInv'
  <2>. SUFFICES ASSUME IndInv, [Next]_vars PROVE IndInv'
    OBVIOUS
  <2>1. TypeOK'
    BY TypeStep DEF IndInv
  <2>2. FailureBudget'
    BY BudgetStep DEF IndInv
  <2>3. slow' = slow
    BY SlowFixed
  <2>4. CASE slow
    BY <2>1, <2>2, <2>3, <2>4 DEF IndInv, ExclusiveClaim
  <2>5. CASE ~slow
    <3>1. InFlight' /\ ExclusiveClaim'
      BY <2>5, ClaimStep DEF IndInv
    <3>. QED BY <2>1, <2>2, <3>1 DEF IndInv
  <2>. QED BY <2>4, <2>5
<1>. QED BY <1>1, <1>2, PTL DEF Spec

\* Type correctness: the tables and the workers keep the shapes that the
\* repository and the engine give them.
THEOREM FrontierTypeOK == Spec => []TypeOK
<1>1. IndInv => TypeOK
  BY DEF IndInv
<1>. QED BY <1>1, FrontierInvariant, PTL

\* update_status and get_next_url keep status and fail_count in step, for any
\* limit and however many workers write the same row.
THEOREM BudgetIsKept == Spec => []FailureBudget
<1>1. IndInv => FailureBudget
  BY DEF IndInv
<1>. QED BY <1>1, FrontierInvariant, PTL

\* No two workers hold one row, unless one outlasts the stale threshold.
THEOREM ClaimsAreExclusive == Spec => []ExclusiveClaim
<1>1. IndInv => ExclusiveClaim
  BY DEF IndInv
<1>. QED BY <1>1, FrontierInvariant, PTL

\* A row that used its failure budget stays failed whatever the sweeps, claims,
\* restarts and crashes do; only a worker that outlasted the stale threshold and
\* still holds the row can take it out of that state, by recording a success.
THEOREM RetirementOutlivesSweeps == Spec => RetiredUntilLateSuccess
<1>1. IndInv /\ [Next]_vars =>
        [\A r \in Row : status[r] = "failed" => status'[r] = "failed" \/ LateSuccess(r)]_vars
  BY RetiredStep DEF IndInv
<1>. QED BY <1>1, FrontierInvariant, PTL DEF Spec, RetiredUntilLateSuccess
=============================================================================
