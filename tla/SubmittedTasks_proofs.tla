----------------------- MODULE SubmittedTasks_proofs -----------------------
(***************************************************************************)
(* Proofs about SubmittedTasks, for any number of application threads and  *)
(* workers and any limits.  The inductive invariant is IInv: NoLostWakeup  *)
(* is inductive given the types, but that the count stays a natural number *)
(* needs CountIsExact (the worker that counts out is itself counted).      *)
(***************************************************************************)
EXTENDS SubmittedTasks, FiniteSetTheorems, TLAPS

IInv == TypeOK /\ CountIsExact /\ NoLostWakeup

\* The set of workers holding a task is finite, so its cardinality is a number.
LEMMA InFlightFinite ==
  IsFiniteSet(InFlight) /\ Cardinality(InFlight) \in Nat
<1>1. InFlight \subseteq Workers
  BY DEF InFlight
<1>2. QED
  BY <1>1, FS_Subset, FS_CardinalityType, FinitenessAssumption

\* How the number of tasks in flight changes when a worker moves: taking a task
\* adds one, counting out removes one, any other move leaves it.
LEMMA WorkerMoves ==
  ASSUME NEW w \in Workers, TypeOK, NEW s,
         wpc' = [wpc EXCEPT ![w] = s]
  PROVE  LET Out == {"idle", "exited"}
             In == {"exec", "term", "dec"}
         IN /\ wpc[w] \in Out /\ s \in In =>
                 Cardinality(InFlight') = Cardinality(InFlight) + 1
            /\ wpc[w] \in In /\ s \in Out =>
                 /\ Cardinality(InFlight') = Cardinality(InFlight) - 1
                 /\ Cardinality(InFlight) > 0
            /\ (wpc[w] \in In /\ s \in In) \/ (wpc[w] \in Out /\ s \in Out) =>
                 Cardinality(InFlight') = Cardinality(InFlight)
<1> DEFINE Out == {"idle", "exited"}
           In == {"exec", "term", "dec"}
<1>1. ASSUME wpc[w] \in Out, s \in In
      PROVE  Cardinality(InFlight') = Cardinality(InFlight) + 1
  <2>1. InFlight' = InFlight \cup {w} /\ w \notin InFlight
    BY <1>1 DEF InFlight, TypeOK
  <2>2. QED
    BY <2>1, InFlightFinite, FS_AddElement
<1>2. ASSUME wpc[w] \in In, s \in Out
      PROVE  /\ Cardinality(InFlight') = Cardinality(InFlight) - 1
             /\ Cardinality(InFlight) > 0
  <2>1. InFlight' = InFlight \ {w} /\ w \in InFlight
    BY <1>2 DEF InFlight, TypeOK
  <2>2. Cardinality(InFlight') = Cardinality(InFlight) - 1
    BY <2>1, InFlightFinite, FS_RemoveElement
  <2>3. Cardinality(InFlight) # 0
    BY <2>1, InFlightFinite, FS_EmptySet
  <2>4. QED
    BY <2>2, <2>3, InFlightFinite
<1>3. ASSUME (wpc[w] \in In /\ s \in In) \/ (wpc[w] \in Out /\ s \in Out)
      PROVE  InFlight' = InFlight
  BY <1>3 DEF InFlight, TypeOK
<1>4. QED
  BY <1>1, <1>2, <1>3

\* A broadcast leaves nobody asleep and everybody else where they were.
LEMMA BroadcastWakes ==
  ASSUME pc \in [App -> {"idle", "submit", "loop", "asleep"}]
  PROVE  /\ Broadcast(pc) \in [App -> {"idle", "submit", "loop", "asleep"}]
         /\ \A a \in App : Broadcast(pc)[a] # "asleep"
BY DEF Broadcast

\* Init establishes the invariant: nothing is submitted and nobody sleeps.
LEMMA InitIInv == Init => IInv
<1> SUFFICES ASSUME Init PROVE IInv
  OBVIOUS
<1>1. TypeOK
  BY Zenon DEF Init, TypeOK
<1>2. InFlight = {}
  BY DEF Init, InFlight
<1>3. CountIsExact
  BY <1>2, FS_EmptySet DEF Init, CountIsExact
<1>4. NoLostWakeup
  BY DEF Init, NoLostWakeup
<1>5. QED
  BY <1>1, <1>3, <1>4 DEF IInv

\* Steps of an application thread preserve the invariant.
LEMMA AppStepIInv ==
  ASSUME IInv, NEW a \in App, AppStep(a)
  PROVE  IInv'
<1> USE DEF IInv
<1>0. wpc' = wpc /\ InFlight' = InFlight
  BY DEF AppStep, WaitLoop, SubmitThrottle, SubmitJob, WaitForAll, WaitForN,
         RequestTermination, FinishedSubmit, SpuriousWakeup, InFlight
<1>1. CASE WaitLoop(a)
  BY <1>0, <1>1, InFlightFinite
  DEF WaitLoop, TypeOK, CountIsExact, NoLostWakeup, machine
<1>2. CASE SubmitThrottle(a)
  BY <1>0, <1>2, LimitsAssumption
  DEF SubmitThrottle, EnterWait, TypeOK, CountIsExact, NoLostWakeup, barrier, machine
<1>3. CASE SubmitJob(a)
  BY <1>0, <1>3, InFlightFinite
  DEF SubmitJob, TypeOK, CountIsExact, NoLostWakeup, machine
<1>4. CASE WaitForAll(a)
  BY <1>0, <1>4
  DEF WaitForAll, EnterWait, TypeOK, CountIsExact, NoLostWakeup, barrier, machine
<1>5. ASSUME NEW n \in 0..MaxSubmit, WaitForN(a, n)
      PROVE  IInv'
  BY <1>0, <1>5, BoundsAssumption
  DEF WaitForN, EnterWait, TypeOK, CountIsExact, NoLostWakeup, barrier, machine
<1>6. CASE RequestTermination(a)
  <2>1. pc' = pc \/ pc' = Broadcast(pc)
    BY <1>6 DEF RequestTermination
  <2>2. TypeOK'
    BY <1>6, <2>1, BroadcastWakes, Zenon DEF RequestTermination, TypeOK, barrier
  <2>3. CountIsExact' /\ NoLostWakeup'
    BY <1>0, <1>6, <2>1, BroadcastWakes
    DEF RequestTermination, TypeOK, CountIsExact, NoLostWakeup, barrier
  <2>4. QED
    BY <2>2, <2>3
<1>7. CASE FinishedSubmit(a)
  BY <1>0, <1>7 DEF FinishedSubmit, TypeOK, CountIsExact, NoLostWakeup, barrier
<1>8. CASE SpuriousWakeup(a)
  BY <1>0, <1>8
  DEF SpuriousWakeup, TypeOK, CountIsExact, NoLostWakeup, barrier, machine
<1>9. QED
  BY <1>1, <1>2, <1>3, <1>4, <1>5, <1>6, <1>7, <1>8 DEF AppStep

\* Steps of a worker preserve the invariant.
LEMMA WorkerStepIInv ==
  ASSUME IInv, NEW w \in Workers, WorkerStep(w)
  PROVE  IInv'
<1> USE DEF IInv
<1>0. TypeOK /\ Cardinality(InFlight) \in Nat
  BY InFlightFinite
<1>1. CASE TakeTask(w)
  <2>1. Cardinality(InFlight') = Cardinality(InFlight) + 1
    BY <1>0, <1>1, WorkerMoves, Zenon DEF TakeTask
  <2>2. QED
    BY <1>0, <1>1, <2>1
    DEF TakeTask, TypeOK, CountIsExact, NoLostWakeup, barrier, machine
<1>2. CASE EndTask(w)
  <2>1. Cardinality(InFlight') = Cardinality(InFlight)
    BY <1>0, <1>2, WorkerMoves, Zenon DEF EndTask
  <2>2. QED
    BY <1>2, <2>1 DEF EndTask, TypeOK, CountIsExact, NoLostWakeup, barrier, machine
<1>3. CASE Regenerate(w)
  <2>1. Cardinality(InFlight') = Cardinality(InFlight)
    BY <1>0, <1>3, WorkerMoves, Zenon DEF Regenerate
  <2>2. QED
    BY <1>0, <1>3, <2>1
    DEF Regenerate, TypeOK, CountIsExact, NoLostWakeup, machine
<1>4. CASE CheckFinished(w)
  <2>1. Cardinality(InFlight') = Cardinality(InFlight)
    BY <1>0, <1>4, WorkerMoves, Zenon DEF CheckFinished
  <2>2. pc' = pc \/ pc' = Broadcast(pc)
    BY <1>4 DEF CheckFinished
  <2>3. TypeOK'
    BY <1>4, <2>2, BroadcastWakes, Zenon DEF CheckFinished, TypeOK, barrier
  <2>4. CountIsExact' /\ NoLostWakeup'
    BY <1>4, <2>1, <2>2, BroadcastWakes
    DEF CheckFinished, TypeOK, CountIsExact, NoLostWakeup, barrier
  <2>5. QED
    BY <2>3, <2>4
<1>5. CASE CountOut(w)
  <2>1. /\ Cardinality(InFlight') = Cardinality(InFlight) - 1
        /\ Cardinality(InFlight) > 0
    BY <1>0, <1>5, WorkerMoves, Zenon DEF CountOut
  <2>2. reached_start > 0 /\ reached_start' = reached_start - 1
    BY <1>0, <1>5, <2>1 DEF CountOut, Decrement, CountIsExact, TypeOK
  <2>3. pc' = pc \/ pc' = Broadcast(pc)
    BY <1>5 DEF CountOut, Decrement
  <2>4. TypeOK'
    BY <1>5, <2>2, <2>3, BroadcastWakes DEF CountOut, Decrement, TypeOK, machine
  <2>5. CountIsExact'
    BY <1>0, <1>5, <2>1, <2>2 DEF CountOut, CountIsExact, TypeOK
  <2>6. NoLostWakeup'
    BY <1>5, <2>2, BroadcastWakes DEF CountOut, Decrement, NoLostWakeup, TypeOK
  <2>7. QED
    BY <2>4, <2>5, <2>6
<1>6. CASE DriverExit(w)
  <2>1. Cardinality(InFlight') = Cardinality(InFlight)
    BY <1>0, <1>6, WorkerMoves, Zenon DEF DriverExit
  <2>2. QED
    BY <1>6, <2>1
    DEF DriverExit, TypeOK, CountIsExact, NoLostWakeup, barrier, machine
<1>7. QED
  BY <1>1, <1>2, <1>3, <1>4, <1>5, <1>6 DEF WorkerStep

\* Every step of the system preserves the invariant.
LEMMA NextIInv == IInv /\ [Next]_vars => IInv'
<1> SUFFICES ASSUME IInv, [Next]_vars PROVE IInv'
  OBVIOUS
<1>1. CASE UNCHANGED vars
  BY <1>1 DEF IInv, TypeOK, CountIsExact, InFlight, NoLostWakeup, vars
<1>2. CASE Next
  BY <1>2, AppStepIInv, WorkerStepIInv DEF Next
<1>3. QED
  BY <1>1, <1>2

\* Whatever the threads, workers and limits, the invariant always holds.
THEOREM Invariance == Spec => []IInv
BY InitIInv, NextIInv, PTL DEF Spec

\* The variables keep their types; in particular
\* _starpu_barrier_counter_decrement_until_empty_counter never takes the count
\* below zero.
THEOREM TypeCorrect == Spec => []TypeOK
BY Invariance, PTL DEF IInv

\* No thread waiting on the submitted-task count is ever left asleep without a
\* wake-up to come (_starpu_barrier_counter_wait_until_counter_reaches_down_to_n).
THEOREM WakeupsAreNotLost == Spec => []NoLostWakeup
BY Invariance, PTL DEF IInv

\* The count is the number of tasks submitted and not counted out.
THEOREM CountExact == Spec => []CountIsExact
BY Invariance, PTL DEF IInv

\* starpu_task_wait_for_all returns only when no task is left: the loop of
\* _starpu_barrier_counter_wait_for_empty_counter ends at a count of zero, and the
\* count is exact.
THEOREM WaitForAllDrained == Spec => WaitForAllReturnsDrained
<1> DEFINE A == \A a \in App : pc[a] = "loop" /\ pc'[a] = "idle" /\ bound[a] = 0
                  => ready = 0 /\ InFlight = {}
<1>1. ASSUME IInv, [Next]_vars PROVE [A]_vars
  <2> SUFFICES ASSUME Next, NEW a \in App,
                      pc[a] = "loop", pc'[a] = "idle", bound[a] = 0
               PROVE  ready = 0 /\ InFlight = {}
    BY <1>1
  <2>0. pc \in [App -> {"idle", "submit", "loop", "asleep"}]
    BY <1>1 DEF IInv, TypeOK
  <2>1. PICK b \in App : WaitLoop(b)
    BY <2>0, BroadcastWakes DEF Next, AppStep, WorkerStep, SubmitThrottle, EnterWait,
       SubmitJob, WaitForAll, WaitForN, RequestTermination, FinishedSubmit,
       SpuriousWakeup, TakeTask, EndTask, Regenerate, CheckFinished, CountOut,
       DriverExit, Decrement, Broadcast
  <2>2. a = b /\ reached_start = 0
    BY <1>1, <2>0, <2>1 DEF WaitLoop, IInv, TypeOK
  <2>3. ready = 0 /\ Cardinality(InFlight) = 0
    BY <1>1, <2>2, InFlightFinite DEF IInv, CountIsExact, TypeOK
  <2>4. QED
    BY <2>3, InFlightFinite, FS_EmptySet
<1>2. QED
  BY <1>1, Invariance, PTL DEF Spec, WaitForAllReturnsDrained

-----------------------------------------------------------------------------
(* The throttle of starpu_task_submit.                                     *)

Submitting == {a \in App : pc[a] = "submit"}
Terminating == {w \in Workers : wpc[w] \in {"term", "dec"}}

\* A thread that is to submit once its wait is over waits for LimitMin tasks.
ThrottleInv ==
    /\ ThrottleBound
    /\ \A a \in App : ret[a] = "submit" => bound[a] = LimitMin

\* Both sets are finite, and no more threads submit than there are.
LEMMA ThrottleFinite ==
  /\ IsFiniteSet(Submitting) /\ Cardinality(Submitting) \in Nat
  /\ IsFiniteSet(Terminating) /\ Cardinality(Terminating) \in Nat
  /\ Cardinality(App) \in Nat /\ Cardinality(Submitting) <= Cardinality(App)
<1>1. Submitting \subseteq App /\ Terminating \subseteq Workers
  BY DEF Submitting, Terminating
<1>2. QED
  BY <1>1, FS_Subset, FS_CardinalityType, FinitenessAssumption

\* A broadcast leaves the threads that are about to submit where they are.
LEMMA BroadcastSubmitting ==
  ASSUME TypeOK, pc' = pc \/ pc' = Broadcast(pc)
  PROVE  Submitting' = Submitting
BY DEF TypeOK, Broadcast, Submitting

\* Steps of an application thread keep to the limit: a thread goes on to submit only
\* when it has seen a count within the limit, and then all others that are about to
\* submit fit into the slack of one task per thread.
LEMMA AppStepThrottle ==
  ASSUME IInv, ThrottleInv, IInv', NEW a \in App, AppStep(a)
  PROVE  ThrottleInv'
<1> USE DEF IInv
<1>0. /\ wpc' = wpc /\ Terminating' = Terminating
      /\ Cardinality(Submitting') \in Nat /\ Cardinality(Submitting') <= Cardinality(App)
      /\ Limit \in Nat /\ LimitMin <= Limit /\ LimitMax <= Limit
  <2>1. wpc' = wpc
    BY DEF AppStep, WaitLoop, SubmitThrottle, SubmitJob, WaitForAll, WaitForN,
           RequestTermination, FinishedSubmit, SpuriousWakeup
  <2>2. Submitting' \subseteq App
    BY DEF Submitting
  <2>3. Cardinality(Submitting') \in Nat /\ Cardinality(Submitting') <= Cardinality(App)
    BY <2>2, FS_Subset, FS_CardinalityType, FinitenessAssumption
  <2>4. QED
    BY <2>1, <2>3, LimitsAssumption DEF Limit, Terminating
<1> DEFINE Sub == Cardinality(Submitting)
           Term == Cardinality(Terminating)
<1>1. ASSUME reached_start' <= Limit PROVE ThrottleBound'
  BY <1>0, <1>1, ThrottleFinite, LimitsAssumption
  DEF ThrottleBound, TypeOK, Submitting, Terminating, Limit
<1>2. ASSUME reached_start' = reached_start, Submitting' = Submitting
      PROVE  ThrottleBound'
  BY <1>0, <1>2 DEF ThrottleInv, ThrottleBound, Submitting, Terminating, Limit
<1>3. CASE WaitLoop(a)
  <2>1. CASE reached_start <= bound[a] /\ ret[a] = "submit"
    BY <1>0, <1>1, <1>3, <2>1, LimitsAssumption DEF WaitLoop, ThrottleInv, TypeOK
  <2>2. CASE ~(reached_start <= bound[a] /\ ret[a] = "submit")
    <3>1. Submitting' = Submitting
      BY <1>3, <2>2 DEF WaitLoop, TypeOK, Submitting
    <3>2. QED
      BY <1>2, <1>3, <3>1 DEF WaitLoop, ThrottleInv
  <2>3. QED
    BY <2>1, <2>2
<1>4. CASE SubmitThrottle(a)
  <2>1. CASE LimitMax < reached_start /\ LimitMin < reached_start
    <3>1. Submitting' = Submitting
      BY <1>4, <2>1 DEF SubmitThrottle, EnterWait, TypeOK, Submitting
    <3>2. QED
      BY <1>2, <1>4, <2>1, <3>1
      DEF SubmitThrottle, EnterWait, ThrottleInv, TypeOK, barrier
  <2>2. CASE ~(LimitMax < reached_start /\ LimitMin < reached_start)
    <3>1. reached_start <= Limit /\ reached_start' = reached_start
      BY <1>0, <1>4, <2>2, LimitsAssumption DEF SubmitThrottle, TypeOK, barrier
    <3>2. QED
      BY <1>1, <1>4, <2>2, <3>1 DEF SubmitThrottle, ThrottleInv
  <2>3. QED
    BY <2>1, <2>2
<1>5. CASE SubmitJob(a)
  <2>1. Submitting' = Submitting \ {a} /\ a \in Submitting
    BY <1>5 DEF SubmitJob, TypeOK, Submitting
  <2>2. Cardinality(Submitting') = Sub - 1
    BY <2>1, ThrottleFinite, FS_RemoveElement, Zenon
  <2>3. ThrottleBound'
    BY <1>0, <1>5, <2>2, ThrottleFinite
    DEF SubmitJob, ThrottleInv, ThrottleBound, TypeOK, Submitting, Terminating, Limit
  <2>4. QED
    BY <1>5, <2>3 DEF SubmitJob, ThrottleInv
<1>6. CASE WaitForAll(a) \/ \E n \in 0..MaxSubmit : WaitForN(a, n)
  <2>1. Submitting' = Submitting
    BY <1>6 DEF WaitForAll, WaitForN, EnterWait, TypeOK, Submitting
  <2>2. QED
    BY <1>2, <1>6, <2>1
    DEF WaitForAll, WaitForN, EnterWait, ThrottleInv, TypeOK, barrier
<1>7. CASE RequestTermination(a) \/ FinishedSubmit(a)
  <2>1. Submitting' = Submitting
    BY <1>7, BroadcastSubmitting DEF RequestTermination, FinishedSubmit
  <2>2. QED
    BY <1>2, <1>7, <2>1 DEF RequestTermination, FinishedSubmit, ThrottleInv, barrier
<1>8. CASE SpuriousWakeup(a)
  <2>1. Submitting' = Submitting
    BY <1>8 DEF SpuriousWakeup, TypeOK, Submitting
  <2>2. QED
    BY <1>2, <1>8, <2>1 DEF SpuriousWakeup, ThrottleInv, barrier
<1>9. QED
  BY <1>3, <1>4, <1>5, <1>6, <1>7, <1>8 DEF AppStep

\* Steps of a worker keep to the limit: a task is submitted again only by a worker
\* that then has one to count out.
LEMMA WorkerStepThrottle ==
  ASSUME IInv, ThrottleInv, IInv', NEW w \in Workers, WorkerStep(w)
  PROVE  ThrottleInv'
<1> USE DEF IInv
<1> DEFINE Term == Cardinality(Terminating)
<1>1. Submitting' = Submitting
  <2>1. pc' = pc \/ pc' = Broadcast(pc)
    BY DEF WorkerStep, TakeTask, EndTask, Regenerate, CheckFinished, CountOut,
           DriverExit, Decrement
  <2>2. QED
    BY <2>1, BroadcastSubmitting
<1>2. bound' = bound /\ ret' = ret
  BY DEF WorkerStep, TakeTask, EndTask, Regenerate, CheckFinished, CountOut, DriverExit
<1>3. Limit \in Nat /\ reached_start \in Nat
  BY LimitsAssumption DEF Limit, TypeOK
<1>4. reached_start + Cardinality(Submitting) <= Limit + Cardinality(App) + Term
  BY DEF ThrottleInv, ThrottleBound, Submitting, Terminating
<1>5. SUFFICES reached_start' + Cardinality(Submitting)
                 <= Limit + Cardinality(App) + Cardinality(Terminating')
  BY <1>1, <1>2 DEF ThrottleInv, ThrottleBound, Submitting, Terminating, Limit
<1>6. CASE TakeTask(w) \/ CheckFinished(w) \/ DriverExit(w)
  <2>1. Terminating' = Terminating
    BY <1>6 DEF TakeTask, CheckFinished, DriverExit, TypeOK, Terminating
  <2>2. QED
    BY <1>4, <1>6, <2>1 DEF TakeTask, CheckFinished, DriverExit, barrier
<1>7. CASE EndTask(w) \/ Regenerate(w)
  <2>1. Terminating' = Terminating \cup {w} /\ w \notin Terminating
    BY <1>7 DEF EndTask, Regenerate, TypeOK, Terminating
  <2>2. Cardinality(Terminating') = Term + 1
    BY <2>1, ThrottleFinite, FS_AddElement, Zenon
  <2>3. reached_start' \in {reached_start, reached_start + 1}
    BY <1>7 DEF EndTask, Regenerate, barrier
  <2>4. QED
    BY <1>3, <1>4, <2>2, <2>3, ThrottleFinite
<1>8. CASE CountOut(w)
  <2>1. Terminating' = Terminating \ {w} /\ w \in Terminating
    BY <1>8 DEF CountOut, TypeOK, Terminating
  <2>2. Cardinality(Terminating') = Term - 1
    BY <2>1, ThrottleFinite, FS_RemoveElement, Zenon
  <2>3. reached_start' = reached_start - 1
    BY <1>8 DEF CountOut, Decrement
  <2>4. QED
    BY <1>3, <1>4, <2>2, <2>3, ThrottleFinite
<1>9. QED
  BY <1>6, <1>7, <1>8 DEF WorkerStep

\* The limit on submitted tasks (STARPU_LIMIT_MAX_SUBMITTED_TASKS) holds up to one task
\* per application thread and one per task being terminated, whatever the limits, and
\* although _starpu_task_submit uses a count it read earlier.
THEOREM ThrottleHolds == Spec => []ThrottleBound
<1>1. Init => ThrottleInv
  <2> SUFFICES ASSUME Init PROVE ThrottleInv
    OBVIOUS
  <2>1. Submitting = {} /\ Terminating = {}
    BY DEF Init, Submitting, Terminating
  <2>2. QED
    BY <2>1, FS_EmptySet, ThrottleFinite, LimitsAssumption
    DEF Init, ThrottleInv, ThrottleBound, Submitting, Terminating, Limit
<1>2. IInv /\ IInv' /\ ThrottleInv /\ [Next]_vars => ThrottleInv'
  <2> SUFFICES ASSUME IInv, IInv', ThrottleInv, [Next]_vars PROVE ThrottleInv'
    OBVIOUS
  <2>1. CASE UNCHANGED vars
    BY <2>1 DEF ThrottleInv, ThrottleBound, Limit, vars
  <2>2. CASE Next
    BY <2>2, AppStepThrottle, WorkerStepThrottle DEF Next
  <2>3. QED
    BY <2>1, <2>2
<1>3. ThrottleInv => ThrottleBound
  BY DEF ThrottleInv
<1>4. QED
  BY <1>1, <1>2, <1>3, Invariance, PTL DEF Spec
=============================================================================
