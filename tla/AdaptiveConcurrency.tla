------------------------- MODULE AdaptiveConcurrency -------------------------
(***************************************************************************)
(* The AIMD gate of engine/acquisition/concurrency.py, used by every       *)
(* crawler worker around one fetch: `async with gate`, then at most one    *)
(* report.  Each critical section runs under the condition's lock without  *)
(* an await inside it, so on the event loop it is one atomic step; the     *)
(* only suspension is Condition.wait, whose wake-up (the future being set) *)
(* and resumption (the task running again) are separate steps here.        *)
(***************************************************************************)
EXTENDS Integers, Sequences, FiniteSets

CONSTANTS Task,     \* the coroutines that use the gate (crawler workers)
          Minimum,  \* constructor argument `minimum`
          Maximum,  \* constructor argument `maximum`
          Window    \* clean responses per additive increase (8 in the code)

ASSUME GateAssumption ==
  /\ IsFiniteSet(Task)
  /\ Minimum \in Int
  /\ Maximum \in Int
  /\ Window \in Nat \ {0}

AtLeastOne(n) == IF n > 1 THEN n ELSE 1

\* _min and _max as __init__ computes them: a minimum above the maximum is
\* lowered to it, and neither is below one.
Floor == AtLeastOne(IF Minimum < Maximum THEN Minimum ELSE Maximum)
Top   == AtLeastOne(Maximum)

VARIABLES ceiling,    \* _ceiling
          active,     \* _active
          successes,  \* _successes_since_increase, saturated at Window
          phase,      \* where each task is with respect to the gate
          queue       \* the condition's FIFO of futures that are not set yet

vars == <<ceiling, active, successes, phase, queue>>

Phase == {"idle", "waiting", "woken", "inside", "left"}

Waiting == {t \in Task : phase[t] = "waiting"}
Woken   == {t \in Task : phase[t] = "woken"}
Inside  == {t \in Task : phase[t] = "inside"}

Init ==
  /\ ceiling = Floor
  /\ active = 0
  /\ successes = 0
  /\ phase = [t \in Task |-> "idle"]
  /\ queue = <<>>

\* Mutant of TryAdmit: the predicate compares with _max instead of _ceiling.
TryAdmitAgainstTop(t) ==
  /\ active < Top
  /\ active' = active + 1
  /\ phase' = [phase EXCEPT ![t] = "inside"]
  /\ queue' = queue

\* One evaluation of the wait_for predicate: take a slot or go to sleep at
\* the tail of the waiters.
TryAdmit(t) ==
  \/ /\ active < ceiling
     /\ active' = active + 1
     /\ phase' = [phase EXCEPT ![t] = "inside"]
     /\ queue' = queue
  \/ /\ ~(active < ceiling)
     /\ active' = active
     /\ phase' = [phase EXCEPT ![t] = "waiting"]
     /\ queue' = Append(queue, t)

\* notify(1), executed by t, whose own phase becomes p: the oldest waiter
\* whose future is not set yet is woken, if there is one.
NotifyOne(t, p) ==
  \/ /\ queue = <<>>
     /\ phase' = [phase EXCEPT ![t] = p]
     /\ queue' = queue
  \/ /\ queue # <<>>
     /\ phase' = [phase EXCEPT ![t] = p, ![Head(queue)] = "woken"]
     /\ queue' = Tail(queue)

\* __aenter__, first evaluation of the predicate.
Enter(t) ==
  /\ phase[t] = "idle"
  /\ TryAdmit(t)
  /\ UNCHANGED <<ceiling, successes>>

\* Mutant of Resume: `if` in place of wait_for, a woken task takes a slot
\* without looking again.
ResumeUnchecked(t) ==
  /\ phase[t] = "woken"
  /\ active' = active + 1
  /\ phase' = [phase EXCEPT ![t] = "inside"]
  /\ UNCHANGED <<ceiling, successes, queue>>

\* __aenter__, a woken waiter evaluates the predicate again.
Resume(t) ==
  /\ phase[t] = "woken"
  /\ TryAdmit(t)
  /\ UNCHANGED <<ceiling, successes>>

\* Mutant of Exit: no notify.
ExitSilently(t) ==
  /\ phase[t] = "inside"
  /\ active' = active - 1
  /\ phase' = [phase EXCEPT ![t] = "left"]
  /\ UNCHANGED <<ceiling, successes, queue>>

\* __aexit__, whether the fetch returned or raised.
Exit(t) ==
  /\ phase[t] = "inside"
  /\ active' = active - 1
  /\ NotifyOne(t, "left")
  /\ UNCHANGED <<ceiling, successes>>

Increase == successes + 1 >= Window /\ ceiling < Top

\* Mutant of ReportSuccess: the ceiling is raised without a notify.
ReportSuccessSilently(t) ==
  /\ phase[t] = "left"
  /\ \/ /\ Increase
        /\ ceiling' = ceiling + 1
        /\ successes' = 0
     \/ /\ ~Increase
        /\ successes' = IF successes < Window THEN successes + 1 ELSE successes
        /\ ceiling' = ceiling
  /\ phase' = [phase EXCEPT ![t] = "idle"]
  /\ UNCHANGED <<active, queue>>

\* report_success: +1 after Window clean responses, unless at _max.
ReportSuccess(t) ==
  /\ phase[t] = "left"
  /\ \/ /\ Increase
        /\ ceiling' = ceiling + 1
        /\ successes' = 0
        /\ NotifyOne(t, "idle")
     \/ /\ ~Increase
        /\ successes' = IF successes < Window THEN successes + 1 ELSE successes
        /\ phase' = [phase EXCEPT ![t] = "idle"]
        /\ UNCHANGED <<ceiling, queue>>
  /\ active' = active

Halved == IF ceiling \div 2 > Floor THEN ceiling \div 2 ELSE Floor

ReportCongestion(t) ==
  /\ phase[t] = "left"
  /\ ceiling' = Halved
  /\ successes' = 0
  /\ phase' = [phase EXCEPT ![t] = "idle"]
  /\ UNCHANGED <<active, queue>>

\* A transport error, another status or a block page is not reported.
ReportNothing(t) ==
  /\ phase[t] = "left"
  /\ phase' = [phase EXCEPT ![t] = "idle"]
  /\ UNCHANGED <<ceiling, active, successes, queue>>

Next ==
  \E t \in Task :
    \/ Enter(t)
    \/ Resume(t)
    \/ Exit(t)
    \/ ReportSuccess(t)
    \/ ReportCongestion(t)
    \/ ReportNothing(t)

Spec == Init /\ [][Next]_vars

-----------------------------------------------------------------------------
\* Type invariant; it includes that the ceiling stays between _min and _max.
TypeOK ==
  /\ ceiling \in Floor..Top
  /\ active \in Nat
  /\ successes \in 0..Window
  /\ phase \in [Task -> Phase]
  /\ queue \in Seq(Task)

\* The counter counts exactly the tasks inside and never exceeds the
\* configured maximum, whatever congestion did to the ceiling meanwhile.
ActiveCountsHolders ==
  /\ active = Cardinality(Inside)
  /\ active <= Top

\* "never over-admits": no step admits a task past the current ceiling, so a
\* ceiling that was halved below the holders admits nobody until they drain.
NeverOverAdmits == [][active' > active => active' <= ceiling']_vars

\* The condition's queue holds exactly the sleeping tasks, each once.
QueueIsWaiting ==
  /\ {queue[i] : i \in DOMAIN queue} = Waiting
  /\ \A i, j \in DOMAIN queue : queue[i] = queue[j] => i = j

\* Every free slot a sleeping task could use has a wake-up in flight: a
\* notify lost in __aexit__ or in the additive increase, or a task that
\* sleeps without its future in the queue, would stay asleep next to a slot.
NoLostWakeup ==
  /\ QueueIsWaiting
  /\ Waiting # {} => Cardinality(Woken) >= ceiling - active

\* The FIFO wakes every sleeping task eventually (it may find the slot taken
\* by a task that had never slept and sleep again).
EveryWaiterWoken == \A t \in Task : phase[t] = "waiting" ~> phase[t] = "woken"
=============================================================================
