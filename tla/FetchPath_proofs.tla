---------------------------- MODULE FetchPath_proofs ----------------------------
(***************************************************************************)
(* Proofs about the AIMD gate alone, for any finite set of tasks, any      *)
(* integer minimum and maximum and any window, and about FetchPath around  *)
(* it, for any number of proxies and any scale of health.  The gate's type *)
(* invariant and its count are inductive only together (__aexit__ would    *)
(* decrement a zero counter otherwise); NoLostWakeup needs both.  The      *)
(* fetch path uses the gate as it is, so the gate's theorems hold in it.   *)
(***************************************************************************)
EXTENDS FetchPath, FiniteSetTheorems, SequenceTheorems, TLAPS

\* The bounds __init__ computes are ordered and positive, whatever it is given.
LEMMA Bounds == Floor \in Nat \ {0} /\ Top \in Nat \ {0} /\ Floor <= Top
  BY GateAssumption DEF Floor, Top, AtLeastOne

\* A halved ceiling stays between the bounds and does not rise.
LEMMA HalvedInRange ==
  ASSUME ceiling \in Floor..Top
  PROVE  Halved \in Floor..Top /\ Halved <= ceiling
  <1>1. ceiling \in Nat /\ ceiling \div 2 \in Nat /\ ceiling \div 2 <= ceiling
    BY Bounds
  <1>. QED  BY <1>1, Bounds DEF Halved

\* The phase classes are finite sets, so their cardinalities are naturals.
LEMMA ClassesFinite ==
  /\ IsFiniteSet(Waiting) /\ IsFiniteSet(Woken) /\ IsFiniteSet(Inside)
  /\ Cardinality(Waiting) \in Nat
  /\ Cardinality(Woken) \in Nat
  /\ Cardinality(Inside) \in Nat
  BY GateAssumption, FS_Subset, FS_CardinalityType DEF Waiting, Woken, Inside

\* A sequence without duplicates, read as its set of elements: removing the
\* head removes exactly that element, appending a new one adds exactly it.
LEMMA TailOfInjective ==
  ASSUME NEW S, NEW s \in Seq(S), s # <<>>,
         \A i, j \in DOMAIN s : s[i] = s[j] => i = j
  PROVE  /\ Head(s) \in {s[i] : i \in DOMAIN s}
         /\ {Tail(s)[i] : i \in DOMAIN Tail(s)}
              = {s[i] : i \in DOMAIN s} \ {Head(s)}
         /\ \A i, j \in DOMAIN Tail(s) : Tail(s)[i] = Tail(s)[j] => i = j
  <1> DEFINE u == Tail(s)
  <1>1. /\ Len(s) \in Nat \ {0} /\ DOMAIN s = 1..Len(s) /\ Head(s) = s[1]
        /\ u \in Seq(S) /\ Len(u) = Len(s) - 1 /\ DOMAIN u = 1..Len(u)
        /\ \A i \in 1..Len(u) : u[i] = s[i + 1]
    BY HeadTailProperties, LenProperties, EmptySeq
  <1>2. Head(s) \in {s[i] : i \in DOMAIN s}
    BY <1>1
  <1>3. \A i, j \in DOMAIN u : u[i] = u[j] => i = j
    BY <1>1
  <1>4. ASSUME NEW i \in DOMAIN u
        PROVE  u[i] \in {s[k] : k \in DOMAIN s} \ {Head(s)}
    <2>1. i + 1 \in DOMAIN s /\ 1 \in DOMAIN s /\ u[i] = s[i + 1] /\ i + 1 # 1
      BY <1>1
    <2>. QED  BY <2>1, <1>1
  <1>5. ASSUME NEW k \in DOMAIN s, s[k] # Head(s)
        PROVE  \E i \in DOMAIN u : u[i] = s[k]
    <2>1. k - 1 \in DOMAIN u /\ (k - 1) + 1 = k
      BY <1>1, <1>5
    <2>. QED  BY <2>1, <1>1
  <1>. QED  BY <1>2, <1>3, <1>4, <1>5, SMTT(30)

LEMMA AppendToInjective ==
  ASSUME NEW S, NEW s \in Seq(S), NEW e \in S,
         e \notin {s[i] : i \in DOMAIN s},
         \A i, j \in DOMAIN s : s[i] = s[j] => i = j
  PROVE  /\ {Append(s, e)[i] : i \in DOMAIN Append(s, e)}
              = {s[i] : i \in DOMAIN s} \cup {e}
         /\ \A i, j \in DOMAIN Append(s, e) :
               Append(s, e)[i] = Append(s, e)[j] => i = j
  <1> DEFINE u == Append(s, e)
  <1>1. /\ Len(s) \in Nat /\ DOMAIN s = 1..Len(s)
        /\ DOMAIN u = 1..(Len(s) + 1)
        /\ u[Len(s) + 1] = e
        /\ \A i \in 1..Len(s) : u[i] = s[i]
    BY AppendProperties, LenProperties
  <1>2. \A i \in DOMAIN u : u[i] \in {s[k] : k \in DOMAIN s} \cup {e}
    BY <1>1
  <1>3. \A k \in DOMAIN s : k \in DOMAIN u /\ u[k] = s[k]
    BY <1>1
  <1>4. Len(s) + 1 \in DOMAIN u
    BY <1>1
  <1>5. \A i, j \in DOMAIN u : u[i] = u[j] => i = j
    BY <1>1
  <1>. QED  BY <1>1, <1>2, <1>3, <1>4, <1>5

-------------------------------------------------------------------------------
\* The inductive invariant of the gate.
GateInv == TypeOK /\ ActiveCountsHolders /\ NoLostWakeup

LEMMA InitGate == Init => GateInv
  <1> SUFFICES ASSUME Init PROVE GateInv
    OBVIOUS
  <1>1. TypeOK
    BY Bounds, GateAssumption DEF Init, TypeOK, Phase
  <1>2. Inside = {} /\ Waiting = {} /\ DOMAIN queue = {}
    BY DEF Init, Inside, Waiting
  <1>3. Cardinality(Inside) = 0
    BY <1>2, FS_EmptySet
  <1>. QED
    BY <1>1, <1>2, <1>3, Bounds
    DEF GateInv, ActiveCountsHolders, NoLostWakeup, QueueIsWaiting, Init

\* A task that takes a slot: it was not inside, and leaves the woken tasks if
\* it was one of them.
LEMMA AdmitStep ==
  ASSUME GateInv, NEW t \in Task, phase[t] \in {"idle", "woken"},
         active < ceiling, active' = active + 1,
         phase' = [phase EXCEPT ![t] = "inside"], queue' = queue,
         UNCHANGED <<ceiling, successes>>
  PROVE  GateInv'
  <1> USE DEF GateInv, TypeOK, Phase
  <1>1. TypeOK'
    OBVIOUS
  <1>2. /\ Inside' = Inside \cup {t} /\ t \notin Inside
        /\ Waiting' = Waiting
        /\ Woken' = Woken \ {t}
    BY DEF Inside, Waiting, Woken
  <1>3. Cardinality(Inside') = Cardinality(Inside) + 1
    BY <1>2, ClassesFinite, FS_AddElement
  <1>4. Cardinality(Woken') >= Cardinality(Woken) - 1 /\ Cardinality(Woken') \in Nat
    <2>1. CASE t \in Woken
      <3>1. Cardinality(Woken \ {t}) = Cardinality(Woken) - 1
            /\ IsFiniteSet(Woken \ {t})
        BY <2>1, ClassesFinite, FS_RemoveElement
      <3>2. Cardinality(Woken \ {t}) \in Nat
        BY <3>1, FS_CardinalityType
      <3>. QED  BY <1>2, <3>1, <3>2, ClassesFinite
    <2>2. CASE t \notin Woken
      <3>1. Woken' = Woken
        BY <1>2, <2>2
      <3>. QED  BY <3>1, ClassesFinite
    <2>. QED  BY <2>1, <2>2
  <1>5. ActiveCountsHolders'
    BY <1>3, Bounds DEF ActiveCountsHolders
  <1>6. NoLostWakeup'
    BY <1>2, <1>4, ClassesFinite, Bounds DEF NoLostWakeup, QueueIsWaiting
  <1>. QED  BY <1>1, <1>5, <1>6

\* A task that finds no free slot sleeps: no slot is free, so no wake-up is due.
LEMMA SleepStep ==
  ASSUME GateInv, NEW t \in Task, phase[t] \in {"idle", "woken"},
         ~(active < ceiling), active' = active,
         phase' = [phase EXCEPT ![t] = "waiting"], queue' = Append(queue, t),
         UNCHANGED <<ceiling, successes>>
  PROVE  GateInv'
  <1> USE DEF GateInv, TypeOK, Phase
  <1>1. TypeOK'
    OBVIOUS
  <1>2. /\ Inside' = Inside
        /\ Waiting' = Waiting \cup {t} /\ t \notin Waiting
        /\ Woken' = Woken \ {t}
    BY DEF Inside, Waiting, Woken
  <1>3. ActiveCountsHolders'
    BY <1>2 DEF ActiveCountsHolders
  <1>4. QueueIsWaiting'
    <2>1. QueueIsWaiting
      BY DEF NoLostWakeup
    <2>2. t \notin {queue[i] : i \in DOMAIN queue}
      BY <1>2, <2>1 DEF QueueIsWaiting
    <2>3. /\ {queue'[i] : i \in DOMAIN queue'} = {queue[i] : i \in DOMAIN queue} \cup {t}
          /\ \A i, j \in DOMAIN queue' : queue'[i] = queue'[j] => i = j
      BY <2>1, <2>2, AppendToInjective, SMTT(30) DEF QueueIsWaiting
    <2>4. {queue'[i] : i \in DOMAIN queue'} = Waiting'
      BY <2>1, <2>3, <1>2 DEF QueueIsWaiting
    <2>. QED  BY <2>3, <2>4, Zenon DEF QueueIsWaiting
  <1>5. Cardinality(Woken') \in Nat
    BY <1>2, ClassesFinite, FS_RemoveElement, FS_CardinalityType
  <1>. QED  BY <1>1, <1>3, <1>4, <1>5, Bounds DEF NoLostWakeup

\* notify(1): the waiting tasks lose the woken one, if there was any, and the
\* task that notifies moves between two phases that are neither.
LEMMA NotifyStep ==
  ASSUME GateInv, NEW t \in Task, phase[t] \in {"inside", "left"},
         NEW p \in {"left", "idle"}, NotifyOne(t, p)
  PROVE  /\ phase' \in [Task -> Phase] /\ queue' \in Seq(Task)
         /\ QueueIsWaiting'
         /\ Inside' = Inside \ {t}
         /\ Waiting' # {} => Cardinality(Woken') = Cardinality(Woken) + 1
  <1> USE DEF GateInv, TypeOK, Phase
  <1>1. CASE queue = <<>>
    <2>1. phase' = [phase EXCEPT ![t] = p] /\ queue' = queue
      BY <1>1 DEF NotifyOne
    <2>2. /\ Inside' = Inside \ {t} /\ Waiting' = Waiting /\ Woken' = Woken
      BY <2>1 DEF Inside, Waiting, Woken
    <2>3. Waiting = {}
      BY <1>1 DEF NoLostWakeup, QueueIsWaiting
    <2>. QED  BY <2>1, <2>2, <2>3 DEF NoLostWakeup, QueueIsWaiting
  <1>2. CASE queue # <<>>
    <2> DEFINE h == Head(queue)
    <2>1. /\ phase' = [phase EXCEPT ![t] = p, ![h] = "woken"]
          /\ queue' = Tail(queue)
      BY <1>2 DEF NotifyOne
    <2>2. QueueIsWaiting
      BY DEF NoLostWakeup
    <2>3. h \in Waiting
      BY <1>2, <2>2, TailOfInjective DEF QueueIsWaiting
    <2>4. h \in Task /\ phase[h] = "waiting" /\ h # t
      BY <2>3 DEF Waiting
    <2>5. phase' \in [Task -> Phase] /\ queue' \in Seq(Task)
      BY <2>1, <2>4, <1>2, HeadTailProperties
    <2>6. \A s \in Task : phase'[s] = IF s = h THEN "woken"
                                      ELSE IF s = t THEN p ELSE phase[s]
      BY <2>1, <2>4
    <2>7. /\ Inside' = Inside \ {t}
          /\ Waiting' = Waiting \ {h}
          /\ Woken' = Woken \cup {h} /\ h \notin Woken
      BY <2>4, <2>6 DEF Inside, Waiting, Woken
    <2>8. QueueIsWaiting'
      <3>1. /\ {Tail(queue)[i] : i \in DOMAIN Tail(queue)}
                   = {queue[i] : i \in DOMAIN queue} \ {h}
            /\ \A i, j \in DOMAIN Tail(queue) :
                  Tail(queue)[i] = Tail(queue)[j] => i = j
        BY <1>2, <2>2, TailOfInjective DEF QueueIsWaiting
      <3>2. {Tail(queue)[i] : i \in DOMAIN Tail(queue)} = Waiting'
        BY <3>1, <2>2, <2>7 DEF QueueIsWaiting
      <3>3. queue' = Tail(queue)
        BY <2>1
      <3>. QED  BY <3>1, <3>2, <3>3, Zenon DEF QueueIsWaiting
    <2>9. Cardinality(Woken') = Cardinality(Woken) + 1
      BY <2>7, ClassesFinite, FS_AddElement
    <2>. QED  BY <2>5, <2>7, <2>8, <2>9
  <1>. QED  BY <1>1, <1>2

\* __aexit__ frees one slot and wakes one waiter.
LEMMA ExitStep ==
  ASSUME GateInv, NEW t \in Task, Exit(t)
  PROVE  GateInv'
  <1> USE DEF GateInv, TypeOK
  <1>1. phase[t] = "inside" /\ NotifyOne(t, "left") /\ active' = active - 1
        /\ UNCHANGED <<ceiling, successes>>
    BY DEF Exit
  <1>2. /\ phase' \in [Task -> Phase] /\ queue' \in Seq(Task)
        /\ QueueIsWaiting'
        /\ Inside' = Inside \ {t}
        /\ Waiting' # {} => Cardinality(Woken') = Cardinality(Woken) + 1
    BY <1>1, NotifyStep
  <1>3. t \in Inside
    BY <1>1 DEF Inside
  <1>4. Cardinality(Inside') = Cardinality(Inside) - 1 /\ Cardinality(Inside') \in Nat
    BY <1>2, <1>3, ClassesFinite, FS_RemoveElement, FS_CardinalityType
  <1>5. active' \in Nat
    BY <1>1, <1>4 DEF ActiveCountsHolders
  <1>6. Waiting' # {} => Waiting # {}
    BY <1>1 DEF Waiting, NotifyOne, Phase, NoLostWakeup, QueueIsWaiting
  <1>7. ActiveCountsHolders'
    BY <1>1, <1>4, Bounds DEF ActiveCountsHolders
  <1>8. NoLostWakeup'
    BY <1>1, <1>2, <1>6, ClassesFinite, Bounds DEF NoLostWakeup
  <1>. QED  BY <1>1, <1>2, <1>5, <1>7, <1>8

\* A clean response may raise the ceiling by one, and then wakes one waiter.
LEMMA SuccessStep ==
  ASSUME GateInv, NEW t \in Task, ReportSuccess(t)
  PROVE  GateInv'
  <1> USE GateAssumption DEF GateInv, TypeOK
  <1>0. phase[t] = "left" /\ active' = active
    BY DEF ReportSuccess
  <1>1. CASE Increase /\ ceiling' = ceiling + 1 /\ successes' = 0 /\ NotifyOne(t, "idle")
    <2>1. /\ phase' \in [Task -> Phase] /\ queue' \in Seq(Task)
          /\ QueueIsWaiting'
          /\ Inside' = Inside \ {t}
          /\ Waiting' # {} => Cardinality(Woken') = Cardinality(Woken) + 1
      BY <1>0, <1>1, NotifyStep
    <2>2. Inside' = Inside
      BY <1>0, <2>1 DEF Inside
    <2>3. ceiling' \in Floor..Top
      BY <1>1, Bounds DEF Increase
    <2>4. Waiting' # {} => Waiting # {}
      BY <1>0, <1>1 DEF Waiting, NotifyOne, Phase, NoLostWakeup, QueueIsWaiting
    <2>5. ActiveCountsHolders'
      BY <1>0, <2>2 DEF ActiveCountsHolders
    <2>6. NoLostWakeup'
      BY <1>0, <1>1, <2>1, <2>4, ClassesFinite, Bounds DEF NoLostWakeup
    <2>. QED  BY <1>0, <1>1, <2>1, <2>3, <2>5, <2>6
  <1>2. CASE /\ ~Increase
             /\ successes' = IF successes < Window THEN successes + 1 ELSE successes
             /\ phase' = [phase EXCEPT ![t] = "idle"]
             /\ UNCHANGED <<ceiling, queue>>
    <2>1. Inside' = Inside /\ Waiting' = Waiting /\ Woken' = Woken
      BY <1>0, <1>2 DEF Inside, Waiting, Woken
    <2>2. TypeOK'
      BY <1>0, <1>2 DEF Phase
    <2>. QED
      BY <1>0, <1>2, <2>1, <2>2
      DEF ActiveCountsHolders, NoLostWakeup, QueueIsWaiting
  <1>. QED  BY <1>1, <1>2 DEF ReportSuccess

\* Congestion lowers the ceiling only: fewer slots are free, none is taken.
LEMMA CongestionStep ==
  ASSUME GateInv, NEW t \in Task, ReportCongestion(t) \/ ReportNothing(t)
  PROVE  GateInv'
  <1> USE DEF GateInv, TypeOK
  <1>1. /\ phase[t] = "left" /\ phase' = [phase EXCEPT ![t] = "idle"]
        /\ active' = active /\ queue' = queue
        /\ ceiling' \in Floor..Top /\ ceiling' <= ceiling
        /\ successes' \in {0, successes}
    BY HalvedInRange, Bounds DEF ReportCongestion, ReportNothing
  <1>2. Inside' = Inside /\ Waiting' = Waiting /\ Woken' = Woken
    BY <1>1 DEF Inside, Waiting, Woken
  <1>3. TypeOK'
    BY <1>1, GateAssumption DEF Phase
  <1>4. NoLostWakeup'
    BY <1>1, <1>2, ClassesFinite, Bounds DEF NoLostWakeup, QueueIsWaiting
  <1>. QED  BY <1>1, <1>2, <1>3, <1>4 DEF ActiveCountsHolders

LEMMA GateStep == GateInv /\ [Next]_vars => GateInv'
  <1> SUFFICES ASSUME GateInv, [Next]_vars PROVE GateInv'
    OBVIOUS
  <1>1. ASSUME NEW t \in Task, Enter(t) PROVE GateInv'
    BY <1>1, AdmitStep, SleepStep DEF Enter, TryAdmit
  <1>2. ASSUME NEW t \in Task, Resume(t) PROVE GateInv'
    BY <1>2, AdmitStep, SleepStep DEF Resume, TryAdmit
  <1>3. CASE UNCHANGED vars
    BY <1>3 DEF vars, GateInv, TypeOK, ActiveCountsHolders, NoLostWakeup,
                QueueIsWaiting, Inside, Waiting, Woken
  <1>. QED
    BY <1>1, <1>2, <1>3, ExitStep, SuccessStep, CongestionStep DEF Next

-------------------------------------------------------------------------------
\* The gate's type invariant, counter and wake-ups hold in every execution.
THEOREM GateInvariant == Spec => []GateInv
  BY InitGate, GateStep, PTL DEF Spec

\* The ceiling stays between _min and _max and the counter never goes negative.
THEOREM GateTypeOK == Spec => []TypeOK
  <1>1. GateInv => TypeOK
    BY DEF GateInv
  <1>. QED  BY <1>1, GateInvariant, PTL

\* _active is exactly the number of coroutines between __aenter__ and
\* __aexit__ and never exceeds _max.
THEOREM HoldersWithinMaximum == Spec => []ActiveCountsHolders
  <1>1. GateInv => ActiveCountsHolders
    BY DEF GateInv
  <1>. QED  BY <1>1, GateInvariant, PTL

\* No notify is lost: a waiter sleeps beside a free slot only while enough
\* woken waiters are on their way to take the free slots.
THEOREM WakeupsNotLost == Spec => []NoLostWakeup
  <1>1. GateInv => NoLostWakeup
    BY DEF GateInv
  <1>. QED  BY <1>1, GateInvariant, PTL

\* "never over-admits": a step that admits a task leaves the holders within
\* the ceiling in force.
THEOREM AdmissionsWithinCeiling == Spec => NeverOverAdmits
  <1>1. ASSUME TypeOK, [Next]_vars
        PROVE  [active' > active => active' <= ceiling']_vars
    <2> USE <1>1, Bounds DEF TypeOK
    <2>1. ASSUME NEW t \in Task, Enter(t) \/ Resume(t), active' > active
          PROVE  active' <= ceiling'
      BY <2>1 DEF Enter, Resume, TryAdmit
    <2>2. ASSUME NEW t \in Task,
                 Exit(t) \/ ReportSuccess(t) \/ ReportCongestion(t) \/ ReportNothing(t)
          PROVE  active' <= active
      BY <2>2 DEF Exit, ReportSuccess, ReportCongestion, ReportNothing
    <2>3. CASE Next
      <3>1. PICK t \in Task : \/ Enter(t) \/ Resume(t)
                              \/ Exit(t) \/ ReportSuccess(t)
                              \/ ReportCongestion(t) \/ ReportNothing(t)
        BY <2>3 DEF Next
      <3>2. CASE Enter(t) \/ Resume(t)
        BY <3>2, <2>1
      <3>3. CASE Exit(t) \/ ReportSuccess(t) \/ ReportCongestion(t) \/ ReportNothing(t)
        <4>1. active' <= active /\ active \in Nat /\ active' \in Int
          BY <3>3, <2>2 DEF Exit, ReportSuccess, ReportCongestion, ReportNothing
        <4>. QED  BY <4>1
      <3>. QED  BY <3>1, <3>2, <3>3
    <2>. QED  BY <2>3, <1>1
  <1>. QED  BY <1>1, GateTypeOK, PTL DEF Spec, NeverOverAdmits

-----------------------------------------------------------------------------
\* The pool of proxies around the gate.
Label == {"healthy", "degraded", "unhealthy", "recovering"}

PoolType ==
  /\ health \in [Proxy -> Nat]
  /\ fails \in [Proxy -> Nat]
  /\ state \in [Proxy -> Label]

ViaType == via \in [Task -> Proxy \cup {Direct}]

PoolInv == PoolType /\ ViaType /\ LabelTruthful

\* The label that belongs to a score.
Labelled(p, score, label) ==
  CASE score >= HealthyAt -> label \in {"healthy", "recovering"}
    [] score < DegradedAt -> label = "unhealthy"
    [] OTHER              -> label = "degraded"

LEMMA EnoughFails == Enough \in Nat
BY ProxyAssumption DEF Enough

LEMMA PenaltyGrows == ASSUME NEW n \in Nat PROVE Penalty * (n + 1) \in Nat
BY ProxyAssumption

\* A success never leaves a proxy with a label below its score, nor a failure
\* with one above it.
LEMMA ProxySuccessStep ==
  ASSUME PoolType, LabelTruthful, NEW p \in Proxy, ProxySucceeds(p)
  PROVE  PoolType' /\ LabelTruthful'
<1> DEFINE score == AtMost(Full, health[p] + Gain)
<1>1. score \in Nat
  BY ProxyAssumption DEF PoolType, AtMost
<1>2. score < DegradedAt => health[p] < DegradedAt
  BY ProxyAssumption DEF PoolType, AtMost
<1>3. /\ health' = [health EXCEPT ![p] = score]
      /\ fails' = [fails EXCEPT ![p] = 0]
      /\ state' = [state EXCEPT ![p] = IF score >= HealthyAt THEN "healthy"
                                       ELSE IF score >= DegradedAt THEN "degraded" ELSE @]
  BY DEF ProxySucceeds
<1> HIDE DEF score
<1>4. PoolType'
  BY <1>1, <1>3 DEF PoolType, Label
<1>5. ASSUME NEW q \in Proxy PROVE Labelled(q, health'[q], state'[q])
  <2>1. CASE q = p
    BY <1>1, <1>2, <1>3, <2>1, ProxyAssumption DEF PoolType, LabelTruthful, Labelled
  <2>2. CASE q # p
    BY <1>3, <2>2 DEF PoolType, LabelTruthful, Labelled
  <2>. QED BY <2>1, <2>2
<1>. QED BY <1>4, <1>5 DEF LabelTruthful, Labelled

LEMMA ProxyFailureStep ==
  ASSUME PoolType, LabelTruthful, NEW p \in Proxy, ProxyFails(p)
  PROVE  PoolType' /\ LabelTruthful'
<1> DEFINE taken == Penalty * (fails[p] + 1)
           score == NoLess(0, health[p] - taken)
           more  == AtMost(Enough, fails[p] + 1)
<1>1. taken \in Nat
  BY PenaltyGrows DEF PoolType
<1>2. /\ health' = [health EXCEPT ![p] = score]
      /\ fails' = [fails EXCEPT ![p] = more]
      /\ state' = [state EXCEPT ![p] = IF score < DegradedAt THEN "unhealthy"
                                       ELSE IF score < HealthyAt THEN "degraded" ELSE @]
  BY DEF ProxyFails
<1> HIDE DEF taken
<1>3. score \in Nat /\ (score >= HealthyAt => health[p] >= HealthyAt)
  BY <1>1, ProxyAssumption DEF PoolType, NoLess
<1>4. more \in Nat
  BY EnoughFails DEF PoolType, AtMost
<1> HIDE DEF score, more
<1>5. PoolType'
  BY <1>2, <1>3, <1>4 DEF PoolType, Label
<1>6. ASSUME NEW q \in Proxy PROVE Labelled(q, health'[q], state'[q])
  <2>1. CASE q = p
    BY <1>2, <1>3, <2>1, ProxyAssumption DEF PoolType, LabelTruthful, Labelled
  <2>2. CASE q # p
    BY <1>2, <2>2 DEF PoolType, LabelTruthful, Labelled
  <2>. QED BY <2>1, <2>2
<1>. QED BY <1>5, <1>6 DEF LabelTruthful, Labelled

\* A pick may reset the whole pool; it does so for every proxy.
LEMMA PoolPickStep ==
  ASSUME PoolType, ViaType, LabelTruthful, NEW t \in Task, Pick(t)
  PROVE  PoolType' /\ ViaType' /\ LabelTruthful'
<1>1. CASE UNCHANGED <<pool, via>>
  BY <1>1 DEF PoolType, ViaType, LabelTruthful, pool
<1>2. CASE /\ health' = RecoveredHealth /\ state' = RecoveredState /\ fails' = fails
           /\ \E p \in Proxy : via' = [via EXCEPT ![t] = p]
  <2>1. ViaType'
    BY <1>2 DEF ViaType
  <2>2. CASE Spent
    <3>1. health' = [p \in Proxy |-> Full] /\ state' = [p \in Proxy |-> "recovering"]
      BY <1>2, <2>2 DEF RecoveredHealth, RecoveredState
    <3>. QED BY <1>2, <2>1, <3>1, ProxyAssumption DEF PoolType, Label, LabelTruthful
  <2>3. CASE ~Spent
    BY <1>2, <2>1, <2>3 DEF RecoveredHealth, RecoveredState, PoolType, LabelTruthful
  <2>. QED BY <2>2, <2>3
<1>. QED BY <1>1, <1>2 DEF Pick

\* A report that leaves the pool alone.
LEMMA PoolUntouched ==
  ASSUME PoolType, LabelTruthful, UNCHANGED pool
  PROVE  PoolType' /\ LabelTruthful'
BY DEF PoolType, LabelTruthful, pool

LEMMA DoneStep == ASSUME ViaType, NEW t \in Task, Done(t) PROVE ViaType'
BY DEF Done, ViaType

LEMMA PoolStep == ASSUME PoolInv, [PathNext]_pathVars PROVE PoolInv'
<1>0. PoolType /\ ViaType /\ LabelTruthful
  BY DEF PoolInv
<1> SUFFICES PoolType' /\ ViaType' /\ LabelTruthful'
  BY DEF PoolInv
<1>1. CASE UNCHANGED <<pool, via>>
  BY <1>0, <1>1, PoolUntouched DEF ViaType
<1>2. ASSUME NEW t \in Task, PickAndEnter(t) PROVE PoolType' /\ ViaType' /\ LabelTruthful'
  BY <1>0, <1>2, PoolPickStep DEF PickAndEnter
<1>3. ASSUME NEW t \in Task, TransportError(t) PROVE PoolType' /\ ViaType' /\ LabelTruthful'
  <2>1. Done(t) /\ IF via[t] \in Proxy THEN ProxyFails(via[t]) ELSE UNCHANGED pool
    BY <1>3 DEF TransportError
  <2>2. CASE via[t] \in Proxy
    BY <1>0, <2>1, <2>2, ProxyFailureStep, DoneStep
  <2>3. CASE via[t] \notin Proxy
    BY <1>0, <2>1, <2>3, PoolUntouched, DoneStep
  <2>. QED BY <2>2, <2>3
<1>4. ASSUME NEW t \in Task, Clean(t) PROVE PoolType' /\ ViaType' /\ LabelTruthful'
  <2>1. Done(t) /\ IF via[t] \in Proxy THEN ProxySucceeds(via[t]) ELSE UNCHANGED pool
    BY <1>4 DEF Clean
  <2>2. CASE via[t] \in Proxy
    BY <1>0, <2>1, <2>2, ProxySuccessStep, DoneStep
  <2>3. CASE via[t] \notin Proxy
    BY <1>0, <2>1, <2>3, PoolUntouched, DoneStep
  <2>. QED BY <2>2, <2>3
<1>5. ASSUME NEW t \in Task, Congested(t) \/ Rejected(t)
      PROVE  PoolType' /\ ViaType' /\ LabelTruthful'
  BY <1>0, <1>5, PoolUntouched, DoneStep DEF Congested, Rejected
<1>. QED BY <1>1, <1>2, <1>3, <1>4, <1>5 DEF PathNext, pathVars

-----------------------------------------------------------------------------
\* record_success, record_failure and the reset of a spent pool keep every
\* proxy's label in step with its score.
THEOREM LabelsAreTruthful == PathSpec => []LabelTruthful
<1>1. PathInit => PoolInv
  BY ProxyAssumption DEF PathInit, PoolInv, PoolType, ViaType, Label, LabelTruthful
<1>2. PoolInv /\ [PathNext]_pathVars => PoolInv'
  BY PoolStep
<1>3. PoolInv => LabelTruthful
  BY DEF PoolInv
<1>. QED BY <1>1, <1>2, <1>3, PTL DEF PathSpec

\* Around the gate nothing but the gate's own actions moves it.
THEOREM PathUsesTheGate == PathSpec => Spec
<1>1. PathInit => Init
  BY DEF PathInit
<1>2. [PathNext]_pathVars => [Next]_vars
  BY DEF PathNext, pathVars, Next, PickAndEnter, TransportError, Congested, Rejected, Clean
<1>. QED BY <1>1, <1>2, PTL DEF PathSpec, Spec

\* What is proved of the gate holds in the fetch path.
THEOREM GateHoldsInPath ==
  PathSpec => [](ActiveCountsHolders /\ NoLostWakeup) /\ NeverOverAdmits
BY PathUsesTheGate, HoldersWithinMaximum, WakeupsNotLost, AdmissionsWithinCeiling, PTL
=============================================================================
