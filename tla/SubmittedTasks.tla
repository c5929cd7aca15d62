--------------------------- MODULE SubmittedTasks ---------------------------
(***************************************************************************)
(* The count of submitted tasks of a scheduling context: the barrier       *)
(* counter tasks_barrier (src/common/barrier_counter.c) and everybody who  *)
(* uses it.  Application threads submit tasks, throttled by                *)
(* STARPU_LIMIT_MIN/MAX_SUBMITTED_TASKS, and wait for the count to go      *)
(* down; workers take tasks, possibly resubmit them (regenerate), and      *)
(* count them out; the application may ask the drivers to terminate.       *)
(*                                                                         *)
(* Each action is one critical section.  A thread inside                   *)
(* STARPU_PTHREAD_COND_WAIT is at "asleep"; a broadcast moves it back to   *)
(* "loop", where it re-evaluates the loop condition under the mutex.       *)
(***************************************************************************)
EXTENDS Naturals, FiniteSets

CONSTANTS App,           \* application threads
          Workers,       \* worker threads
          LimitMin,      \* limit_min_submitted_tasks
          LimitMax,      \* limit_max_submitted_tasks
          MaxSubmit,     \* bound: calls of starpu_task_submit
          MaxRegenerate, \* bound: resubmissions of regenerable tasks
          MayTerminate,  \* whether starpu_drivers_request_termination is called
          Inheritor      \* whether the context has an inheritor context

ASSUME FinitenessAssumption == IsFiniteSet(App) /\ IsFiniteSet(Workers)
ASSUME LimitsAssumption == LimitMin \in Nat /\ LimitMax \in Nat
ASSUME BoundsAssumption == MaxSubmit \in Nat /\ MaxRegenerate \in Nat
ASSUME FlagsAssumption == MayTerminate \in BOOLEAN /\ Inheritor \in BOOLEAN

VARIABLES reached_start,   \* tasks_barrier.barrier.reached_start
          reached_exit,    \* tasks_barrier.barrier.reached_exit
          max_threshold,   \* tasks_barrier.max_threshold
          pc,              \* application thread: where it is
          bound,           \* application thread: the n it waits for
          ret,             \* application thread: where the wait returns to
          wpc,             \* worker: where it is
          ready,           \* tasks submitted that no worker has taken
          nsubmit, nregen, \* calls made so far, for the bounds
          submitting,      \* config->submitting
          running,         \* config->running
          finished_submit, \* sched_ctx->finished_submit
          inherited        \* the workers were added to the inheritor

barrier == <<reached_start, reached_exit, max_threshold>>
machine == <<submitting, running, finished_submit, inherited>>
vars == <<reached_start, reached_exit, max_threshold, pc, bound, ret, wpc, ready,
          nsubmit, nregen, submitting, running, finished_submit, inherited>>

\* Where the counting-out of a task is: "exec" runs the kernel, "term" is in
\* _starpu_decrement_nsubmitted_tasks_of_sched_ctx, "dec" past its checks.
InFlight == {w \in Workers : wpc[w] \in {"exec", "term", "dec"}}

Init ==
    /\ reached_start = 0 /\ reached_exit = 0 /\ max_threshold = 0
    /\ pc = [a \in App |-> "idle"]
    /\ bound = [a \in App |-> 0]
    /\ ret = [a \in App |-> "idle"]
    /\ wpc = [w \in Workers |-> "idle"]
    /\ ready = 0 /\ nsubmit = 0 /\ nregen = 0
    /\ submitting = TRUE /\ running = TRUE
    /\ finished_submit = FALSE /\ inherited = FALSE

-----------------------------------------------------------------------------
(* The barrier counter.                                                    *)

\* STARPU_PTHREAD_COND_BROADCAST(&barrier->cond)
Broadcast(p) == [a \in App |-> IF p[a] = "asleep" THEN "loop" ELSE p[a]]

\* Mutant: only the threshold wakes sleepers up.
Decrement_NoEmptyWake ==
    LET n == reached_start - 1
        hit == max_threshold # 0 /\ n = max_threshold
    IN
    /\ reached_start' = n
    /\ max_threshold' = IF hit THEN 0 ELSE max_threshold
    /\ pc' = IF hit THEN Broadcast(pc) ELSE pc

\* _starpu_barrier_counter_decrement_until_empty_counter
Decrement ==
    LET n == reached_start - 1
        hit == max_threshold # 0 /\ n = max_threshold
    IN
    /\ reached_start' = n
    /\ max_threshold' = IF hit THEN 0 ELSE max_threshold
    /\ pc' = IF n = 0 \/ hit THEN Broadcast(pc) ELSE pc

\* Mutant: a thread with a larger n than the one registered does not raise the
\* threshold.
WaitLoop_KeepThreshold(a) ==
    /\ pc[a] = "loop"
    /\ IF reached_start > bound[a]
       THEN /\ max_threshold' = IF max_threshold = 0 THEN bound[a] ELSE max_threshold
            /\ pc' = [pc EXCEPT ![a] = "asleep"]
       ELSE /\ pc' = [pc EXCEPT ![a] = ret[a]]
            /\ UNCHANGED max_threshold
    /\ UNCHANGED <<reached_start, reached_exit, bound, ret, wpc, ready, nsubmit,
                   nregen, machine>>

\* One turn of the loop of _starpu_barrier_counter_wait_until_counter_reaches_down_to_n;
\* _starpu_barrier_counter_wait_for_empty_counter is the case n = 0, which never
\* registers a threshold.
WaitLoop(a) ==
    /\ pc[a] = "loop"
    /\ IF reached_start > bound[a]
       THEN /\ max_threshold' = IF max_threshold < bound[a] THEN bound[a] ELSE max_threshold
            /\ pc' = [pc EXCEPT ![a] = "asleep"]
       ELSE /\ pc' = [pc EXCEPT ![a] = ret[a]]
            /\ UNCHANGED max_threshold
    /\ UNCHANGED <<reached_start, reached_exit, bound, ret, wpc, ready, nsubmit,
                   nregen, machine>>

\* pthread_cond_wait may return without a broadcast.
SpuriousWakeup(a) ==
    /\ pc[a] = "asleep"
    /\ pc' = [pc EXCEPT ![a] = "loop"]
    /\ UNCHANGED <<barrier, bound, ret, wpc, ready, nsubmit, nregen, machine>>

-----------------------------------------------------------------------------
(* Application threads.                                                    *)

EnterWait(a, n, r) ==
    /\ pc' = [pc EXCEPT ![a] = "loop"]
    /\ bound' = [bound EXCEPT ![a] = n]
    /\ ret' = [ret EXCEPT ![a] = r]

\* Mutant: the count is not compared with the limit.
SubmitThrottle_NoLimit(a) ==
    /\ pc[a] = "idle"
    /\ submitting /\ ~finished_submit /\ nsubmit < MaxSubmit
    /\ nsubmit' = nsubmit + 1
    /\ pc' = [pc EXCEPT ![a] = "submit"]
    /\ UNCHANGED <<barrier, bound, ret, wpc, ready, nregen, machine>>

\* The throttling test of _starpu_task_submit: the count is read, and used
\* after the counter's mutex is released.
SubmitThrottle(a) ==
    /\ pc[a] = "idle"
    /\ submitting /\ ~finished_submit /\ nsubmit < MaxSubmit
    /\ nsubmit' = nsubmit + 1
    /\ IF LimitMax < reached_start /\ LimitMin < reached_start
       THEN EnterWait(a, LimitMin, "submit")
       ELSE /\ pc' = [pc EXCEPT ![a] = "submit"]
            /\ UNCHANGED <<bound, ret>>
    /\ UNCHANGED <<barrier, wpc, ready, nregen, machine>>

\* _starpu_submit_job: the task is counted in, and becomes ready at some point.
SubmitJob(a) ==
    /\ pc[a] = "submit"
    /\ reached_start' = reached_start + 1
    /\ ready' = ready + 1
    /\ pc' = [pc EXCEPT ![a] = "idle"]
    /\ UNCHANGED <<reached_exit, max_threshold, bound, ret, wpc, nsubmit, nregen,
                   machine>>

\* starpu_task_wait_for_all
WaitForAll(a) ==
    /\ pc[a] = "idle"
    /\ EnterWait(a, 0, "idle")
    /\ UNCHANGED <<barrier, wpc, ready, nsubmit, nregen, machine>>

\* starpu_task_wait_for_n_submitted
WaitForN(a, n) ==
    /\ pc[a] = "idle"
    /\ EnterWait(a, n, "idle")
    /\ UNCHANGED <<barrier, wpc, ready, nsubmit, nregen, machine>>

\* Inside _starpu_task_submit.
Submits(b) == pc[b] = "submit" \/ (pc[b] \in {"loop", "asleep"} /\ ret[b] = "submit")

\* starpu_drivers_request_termination, called once no thread submits any more.
RequestTermination(a) ==
    /\ MayTerminate /\ submitting
    /\ pc[a] = "idle" /\ \A b \in App : ~Submits(b)
    /\ submitting' = FALSE
    /\ running' = (running /\ reached_start # 0)
    /\ pc' = IF reached_start = 0 THEN Broadcast(pc) ELSE pc
    /\ UNCHANGED <<barrier, bound, ret, wpc, ready, nsubmit, nregen,
                   finished_submit, inherited>>

\* starpu_sched_ctx_finished_submit
FinishedSubmit(a) ==
    /\ Inheritor /\ ~finished_submit
    /\ pc[a] = "idle" /\ \A b \in App : ~Submits(b)
    /\ finished_submit' = TRUE
    /\ UNCHANGED <<barrier, pc, bound, ret, wpc, ready, nsubmit, nregen,
                   submitting, running, inherited>>

-----------------------------------------------------------------------------
(* Workers.                                                                *)

\* The driver loop: while (_starpu_machine_is_running()) take a task.
TakeTask(w) ==
    /\ wpc[w] = "idle" /\ running /\ ready > 0
    /\ ready' = ready - 1
    /\ wpc' = [wpc EXCEPT ![w] = "exec"]
    /\ UNCHANGED <<barrier, pc, bound, ret, nsubmit, nregen, machine>>

DriverExit(w) ==
    /\ wpc[w] = "idle" /\ ~running
    /\ wpc' = [wpc EXCEPT ![w] = "exited"]
    /\ UNCHANGED <<barrier, pc, bound, ret, ready, nsubmit, nregen, machine>>

\* _starpu_handle_job_termination of a task that is not regenerable.
EndTask(w) ==
    /\ wpc[w] = "exec"
    /\ wpc' = [wpc EXCEPT ![w] = "term"]
    /\ UNCHANGED <<barrier, pc, bound, ret, ready, nsubmit, nregen, machine>>

\* Mutant: the new instance is not counted in.
Regenerate_NotCounted(w) ==
    /\ wpc[w] = "exec" /\ nregen < MaxRegenerate
    /\ nregen' = nregen + 1
    /\ ready' = ready + 1
    /\ wpc' = [wpc EXCEPT ![w] = "term"]
    /\ UNCHANGED <<barrier, pc, bound, ret, nsubmit, machine>>

\* The same for a regenerable one: it is submitted again, without the throttling
\* test, before the terminated instance is counted out.
Regenerate(w) ==
    /\ wpc[w] = "exec" /\ nregen < MaxRegenerate
    /\ nregen' = nregen + 1
    /\ reached_start' = reached_start + 1
    /\ ready' = ready + 1
    /\ wpc' = [wpc EXCEPT ![w] = "term"]
    /\ UNCHANGED <<reached_exit, max_threshold, pc, bound, ret, nsubmit, machine>>

\* The tests of _starpu_decrement_nsubmitted_tasks_of_sched_ctx, before the count
\* goes down: the move to the inheritor context, and the end of the drivers.
CheckFinished(w) ==
    /\ wpc[w] = "term"
    /\ wpc' = [wpc EXCEPT ![w] = "dec"]
    /\ IF reached_exit = 1 /\ Inheritor /\ finished_submit
       THEN inherited' = TRUE /\ UNCHANGED <<running, pc>>
       ELSE /\ running' = (running /\ submitting)
            /\ pc' = IF ~submitting /\ reached_start = 0 THEN Broadcast(pc) ELSE pc
            /\ UNCHANGED inherited
    /\ UNCHANGED <<barrier, bound, ret, ready, nsubmit, nregen, submitting,
                   finished_submit>>

CountOut(w) ==
    /\ wpc[w] = "dec"
    /\ wpc' = [wpc EXCEPT ![w] = "idle"]
    /\ Decrement
    /\ UNCHANGED <<reached_exit, bound, ret, ready, nsubmit, nregen, machine>>

-----------------------------------------------------------------------------
AppStep(a) ==
    \/ WaitLoop(a) \/ SubmitThrottle(a) \/ SubmitJob(a) \/ WaitForAll(a)
    \/ \E n \in 0..MaxSubmit : WaitForN(a, n)
    \/ RequestTermination(a) \/ FinishedSubmit(a) \/ SpuriousWakeup(a)

WorkerStep(w) ==
    \/ TakeTask(w) \/ EndTask(w) \/ Regenerate(w) \/ CheckFinished(w)
    \/ CountOut(w) \/ DriverExit(w)

Next == (\E a \in App : AppStep(a)) \/ (\E w \in Workers : WorkerStep(w))

Spec == Init /\ [][Next]_vars

\* A thread that holds or asks for the mutex runs on, a worker never stops
\* halfway; nobody owes another submission or another wait.
Fairness ==
    /\ \A a \in App : WF_vars(WaitLoop(a)) /\ WF_vars(SubmitJob(a))
    /\ \A w \in Workers : WF_vars(WorkerStep(w))

FairSpec == Spec /\ Fairness

-----------------------------------------------------------------------------
TypeOK ==
    /\ reached_start \in Nat /\ reached_exit \in Nat /\ max_threshold \in Nat
    /\ pc \in [App -> {"idle", "submit", "loop", "asleep"}]
    /\ bound \in [App -> Nat]
    /\ ret \in [App -> {"idle", "submit"}]
    /\ wpc \in [Workers -> {"idle", "exec", "term", "dec", "exited"}]
    /\ ready \in Nat /\ nsubmit \in Nat /\ nregen \in Nat
    /\ submitting \in BOOLEAN /\ running \in BOOLEAN
    /\ finished_submit \in BOOLEAN /\ inherited \in BOOLEAN

\* A thread sleeping in STARPU_PTHREAD_COND_WAIT of a barrier counter wait is
\* never left behind: the count is still above its n, and the threshold that
\* _starpu_barrier_counter_decrement_until_empty_counter compares the count with
\* is at least n and still to be met, although one threshold serves all sleepers
\* and is forgotten whenever it is met.
NoLostWakeup ==
    /\ max_threshold = 0 \/ max_threshold < reached_start
    /\ \A a \in App : pc[a] = "asleep" =>
         reached_start > bound[a] /\ max_threshold >= bound[a]

\* The count of the barrier counter is the number of tasks that are submitted and
\* not counted out, regenerated instances included.
CountIsExact == reached_start = ready + Cardinality(InFlight)

\* starpu_task_wait_for_all returns at a moment when no submitted task is left,
\* neither waiting for a worker nor in the middle of being terminated.
WaitForAllReturnsDrained ==
    [][\A a \in App : pc[a] = "loop" /\ pc'[a] = "idle" /\ bound[a] = 0
          => ready = 0 /\ InFlight = {}]_vars

Limit == IF LimitMin < LimitMax THEN LimitMax ELSE LimitMin

\* STARPU_LIMIT_MAX_SUBMITTED_TASKS bounds the submitted tasks, up to one per
\* application thread (each tests a count that the others are about to raise) and
\* one per task being terminated (a regenerated task is not throttled).
ThrottleBound ==
    reached_start + Cardinality({a \in App : pc[a] = "submit"})
      <= Limit + Cardinality(App) + Cardinality({w \in Workers : wpc[w] \in {"term", "dec"}})

\* Every wait on the count returns (starpu_task_wait_for_all,
\* starpu_task_wait_for_n_submitted and the throttled starpu_task_submit), as long as
\* the drivers run.
WaitersReturn ==
    \A a \in App : pc[a] \in {"loop", "asleep"} /\ running
                     ~> pc[a] \in {"idle", "submit"} \/ ~running

\* starpu_drivers_request_termination makes the drivers terminate.
DriversTerminate == ~submitting ~> ~running
=============================================================================
