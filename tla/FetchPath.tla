------------------------------- MODULE FetchPath -------------------------------
(***************************************************************************)
(* One crawl around the gate (CrawlerEngine._crawl_one): a proxy is picked *)
(* before the gate, the fetch runs inside it, and what comes back is       *)
(* reported to the gate and to the proxy it went through.  The pool is     *)
(* infrastructure/resilience.py; its lock makes every call one step, but a *)
(* report comes any time after its pick, in any order with other picks,    *)
(* reports and resets of the pool.                                         *)
(***************************************************************************)
EXTENDS AdaptiveConcurrency

CONSTANTS Proxy,      \* the configured proxies; none: direct connections only
          Direct,     \* no proxy
          Full,       \* health of a new proxy (100)
          Gain,       \* what a success adds (5)
          Penalty,    \* what the nth failure in a row takes, n times (15)
          HealthyAt,  \* "healthy" from here on (80)
          DegradedAt, \* "degraded" from here on (30)
          MinHealth   \* PROXY_MIN_HEALTH (20)

ASSUME ProxyAssumption ==
  /\ Direct \notin Proxy
  /\ {Full, HealthyAt, DegradedAt, MinHealth} \subseteq Nat
  /\ {Gain, Penalty} \subseteq Nat \ {0}
  /\ MinHealth <= DegradedAt /\ DegradedAt < HealthyAt /\ HealthyAt <= Full

VARIABLES health,  \* proxy -> health_score
          fails,   \* proxy -> consecutive_fails, saturated at Enough
          state,   \* proxy -> the label snapshot() shows
          via      \* task -> the proxy of its fetch, Direct without one

pool     == <<health, fails, state>>
pathVars == <<vars, pool, via>>

\* As many failures in a row as take any health to zero.
Enough == Full \div Penalty + 1

PathInit ==
  /\ Init
  /\ health = [p \in Proxy |-> Full]
  /\ fails = [p \in Proxy |-> 0]
  /\ state = [p \in Proxy |-> "healthy"]
  /\ via = [t \in Task |-> Direct]

-----------------------------------------------------------------------------
\* get_proxy.

Usable(p) == health[p] >= MinHealth

\* Every proxy is below the minimum: a pick resets them all, except for their
\* failures in a row.
Spent == \A p \in Proxy : ~Usable(p)

RecoveredHealth == IF Spent THEN [p \in Proxy |-> Full] ELSE health

\* Mutant of RecoveredState: the scores are reset, the labels forgotten.
RecoveredStateKept == state

RecoveredState == IF Spent THEN [p \in Proxy |-> "recovering"] ELSE state

\* The healthiest of what is usable, any of several.
Pick(t) ==
  \/ Proxy = {} /\ UNCHANGED <<pool, via>>
  \/ /\ health' = RecoveredHealth
     /\ state' = RecoveredState
     /\ fails' = fails
     /\ \E p \in Proxy :
          /\ \A q \in Proxy : health'[p] >= health'[q]
          /\ via' = [via EXCEPT ![t] = p]

PickAndEnter(t) == Enter(t) /\ Pick(t)

-----------------------------------------------------------------------------
\* What comes back.

AtMost(m, n) == IF n < m THEN n ELSE m
NoLess(m, n) == IF n > m THEN n ELSE m

\* record_success.
ProxySucceeds(p) ==
  LET score == AtMost(Full, health[p] + Gain) IN
  /\ health' = [health EXCEPT ![p] = score]
  /\ fails' = [fails EXCEPT ![p] = 0]
  /\ state' = [state EXCEPT ![p] = IF score >= HealthyAt THEN "healthy"
                                   ELSE IF score >= DegradedAt THEN "degraded" ELSE @]

\* record_failure.
ProxyFails(p) ==
  LET score == NoLess(0, health[p] - Penalty * (fails[p] + 1)) IN
  /\ health' = [health EXCEPT ![p] = score]
  /\ fails' = [fails EXCEPT ![p] = AtMost(Enough, @ + 1)]
  /\ state' = [state EXCEPT ![p] = IF score < DegradedAt THEN "unhealthy"
                                   ELSE IF score < HealthyAt THEN "degraded" ELSE @]

Done(t) == via' = [via EXCEPT ![t] = Direct]

\* httpx.HTTPError: the proxy is blamed, the gate is not told.
TransportError(t) ==
  /\ ReportNothing(t)
  /\ IF via[t] \in Proxy THEN ProxyFails(via[t]) ELSE UNCHANGED pool
  /\ Done(t)

\* 429 or 503.
Congested(t) == ReportCongestion(t) /\ Done(t) /\ UNCHANGED pool

\* Another status, or a 200 that is_blocked recognises (too small, not a page,
\* a signature): nobody is told.
Rejected(t) == ReportNothing(t) /\ Done(t) /\ UNCHANGED pool

\* A clean 200 page.
Clean(t) ==
  /\ ReportSuccess(t)
  /\ IF via[t] \in Proxy THEN ProxySucceeds(via[t]) ELSE UNCHANGED pool
  /\ Done(t)

PathNext ==
  \E t \in Task :
    \/ PickAndEnter(t)
    \/ (Resume(t) \/ Exit(t)) /\ UNCHANGED <<pool, via>>
    \/ TransportError(t) \/ Congested(t) \/ Rejected(t) \/ Clean(t)

\* A woken task is on the loop's ready queue and a fetch ends (the client has
\* timeouts); nothing forces a worker to enter again.
PathFairness ==
  \A t \in Task : WF_pathVars(Resume(t) /\ UNCHANGED <<pool, via>>)
               /\ WF_pathVars(Exit(t) /\ UNCHANGED <<pool, via>>)

PathSpec == PathInit /\ [][PathNext]_pathVars /\ PathFairness

-----------------------------------------------------------------------------
\* The label an operator sees says what the score is, whatever order picks,
\* late reports and resets came in; "recovering" is a pool that was reset and
\* has not been heard of, or only of failures that left it healthy.
LabelTruthful ==
  \A p \in Proxy :
    CASE health[p] >= HealthyAt  -> state[p] \in {"healthy", "recovering"}
      [] health[p] < DegradedAt  -> state[p] = "unhealthy"
      [] OTHER                   -> state[p] = "degraded"
=============================================================================
