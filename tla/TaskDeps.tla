------------------------------ MODULE TaskDeps ------------------------------
(***************************************************************************)
(* Explicit task dependencies: completion groups (cg.c), the declaration   *)
(* of dependencies (task_deps.c), and the part of a job's life that they   *)
(* guard (jobs.c): submission, release to the scheduler, execution, end    *)
(* dependencies, termination, regeneration and destruction.                *)
(*                                                                         *)
(* One application thread (App) declares dependencies and submits tasks;   *)
(* each running task has an executor, the thread that runs                 *)
(* _starpu_handle_job_termination for it, named by the task.  Each action  *)
(* is one critical section or one atomic operation of a thread.  What the  *)
(* code runs nested in the notifying thread (an empty task that terminates *)
(* at once) runs here in the executor of that task, which allows more      *)
(* interleavings than the code has.                                        *)
(***************************************************************************)
EXTENDS Integers, Sequences, FiniteSets

CONSTANTS NTasks,       \* number of tasks; a task only depends on smaller ones
          MaxDeclare,   \* bound: calls of starpu_task_declare_deps_array
          MaxRounds,    \* bound: executions of a regenerable task
          Mixes         \* the kinds of application considered, see below

Tasks == 1..NTasks
App == 0
Threads == {App} \cup Tasks

ASSUME SizeAssumption == NTasks \in Nat /\ MaxDeclare \in Nat /\ MaxRounds \in Nat \ {0}
\* regenerable: tasks with regenerate set until their last round; detached: tasks
\* with detach and destroy set; end_deps: whether end dependencies are declared
\* as well as ordinary ones; declare_on: which submitted tasks a declaration may
\* name ("none": only tasks not submitted yet; "quiet": also submitted ones, unless
\* their successors are being notified right now; "any": as the API allows).
ASSUME MixesAssumption == \A m \in Mixes :
    /\ m.regenerable \subseteq Tasks
    /\ m.detached \subseteq Tasks \ m.regenerable
    /\ m.end_deps \in BOOLEAN
    /\ m.declare_on \in {"none", "quiet", "any"}

\* Identifiers of completion groups: a declaration creates one, and one more for
\* each regenerable task it names.
Groups == 1..(MaxDeclare * (NTasks + 1))
None == 0

VARIABLES
    mix,                                \* the kind of application, which is fixed
    nb,                                 \* nb_termination_call_required
    end_rdep,                           \* whose termination waits for the job's
    ends,      \* history: calls that went on to terminate the job
    status, submitted, terminated,      \* of the task and its job
    ndeps, ndeps_completed,             \* job_successors, as a waiting list
    succ, list_terminated,              \* job_successors, as a list of groups
    destroyed,                          \* the job was destroyed
    cg_job, ntags, remaining, freed,    \* of a completion group
    nextcg,                             \* groups allocated so far
    released,  \* jobs past their dependencies, to be pushed to the scheduler
    pc,        \* of each thread
    notifies,  \* of each thread: the group it is notifying
    index,     \* of an executor: how far it is in its successor list
    todo, target, group, dep, \* of App: the declaration in progress
    ndeclare,  \* of App: declarations made so far
    deps,      \* history: what was declared
    rounds, pushes \* history: executions finished and pushes made

endvars == <<mix, nb, end_rdep, ends>>
jobvars == <<status, submitted, terminated, destroyed>>
listvars == <<succ, list_terminated>>
countvars == <<ndeps, ndeps_completed>>
cgvars == <<cg_job, ntags, remaining, freed, nextcg>>
appvars == <<todo, target, group, dep, ndeclare, deps>>
histvars == <<rounds, pushes>>
vars == <<jobvars, listvars, countvars, cgvars, appvars, histvars, released, pc,
          notifies, index, endvars>>

Regenerable == mix.regenerable
Detached == mix.detached
DeclareOn == mix.declare_on

Init ==
    /\ mix \in Mixes
    /\ nb = [t \in Tasks |-> 0]
    /\ end_rdep = [t \in Tasks |-> None]
    /\ ends = [t \in Tasks |-> 0]
    /\ status = [t \in Tasks |-> "INIT"]
    /\ submitted = [t \in Tasks |-> 0]
    /\ terminated = [t \in Tasks |-> 0]
    /\ ndeps = [t \in Tasks |-> 0]
    /\ ndeps_completed = [t \in Tasks |-> 0]
    /\ succ = [t \in Tasks |-> <<>>]
    /\ list_terminated = [t \in Tasks |-> FALSE]
    /\ destroyed = [t \in Tasks |-> FALSE]
    /\ cg_job = [c \in Groups |-> None]
    /\ ntags = [c \in Groups |-> 0]
    /\ remaining = [c \in Groups |-> 0]
    /\ freed = [c \in Groups |-> FALSE]
    /\ nextcg = 1
    /\ released = {}
    /\ pc = [p \in Threads |-> "idle"]
    /\ notifies = [p \in Threads |-> None]
    /\ index = [t \in Tasks |-> 1]
    /\ todo = {} /\ target = None /\ group = None /\ dep = None
    /\ ndeclare = 0
    /\ deps = [t \in Tasks |-> {}]
    /\ rounds = [t \in Tasks |-> 0]
    /\ pushes = [t \in Tasks |-> 0]

-----------------------------------------------------------------------------
(* Jobs.                                                                   *)

\* Under sync_mutex: the end of _starpu_submit_job, from _starpu_handle_job_submission
\* to the task part of _starpu_enforce_deps_and_schedule.
SubmitJob(t) ==
    /\ terminated' = [terminated EXCEPT ![t] = 0]
    /\ submitted' = [submitted EXCEPT ![t] = IF submitted[t] = 0 THEN 1 ELSE 2]
    /\ IF ndeps[t] # ndeps_completed[t]
       THEN /\ status' = [status EXCEPT ![t] = "BLOCKED_ON_TASK"]
            /\ UNCHANGED released
       ELSE /\ status' = [status EXCEPT ![t] = "BLOCKED"]
            /\ released' = released \cup {t}

\* Application: starpu_task_submit.
Submit(t) ==
    /\ pc[App] = "idle" /\ submitted[t] = 0
    /\ SubmitJob(t)
    /\ UNCHANGED <<endvars, destroyed, listvars, countvars, cgvars, appvars, histvars, pc,
                   notifies, index>>

\* _starpu_push_task, by the thread that found the dependencies fulfilled, after
\* it unlocked sync_mutex.
Push(t) ==
    /\ t \in released
    /\ released' = released \ {t}
    /\ status' = [status EXCEPT ![t] = "READY"]
    /\ pushes' = [pushes EXCEPT ![t] = @ + 1]
    /\ UNCHANGED <<endvars, submitted, terminated, destroyed, listvars, countvars, cgvars,
                   appvars, rounds, pc, notifies, index>>

\* A worker takes the task and runs its codelet.
Execute(t) ==
    /\ status[t] = "READY" /\ pc[t] = "idle"
    /\ status' = [status EXCEPT ![t] = "RUNNING"]
    /\ pc' = [pc EXCEPT ![t] = "run"]
    /\ UNCHANGED <<endvars, submitted, terminated, destroyed, listvars, countvars, cgvars,
                   appvars, histvars, released, notifies, index>>

\* Thread p goes on from _starpu_handle_job_termination(j), which ends here
\* unless it is the last call that j requires.
EndCall(p, j, last) ==
    /\ ends' = IF last THEN [ends EXCEPT ![j] = @ + 1] ELSE ends
    /\ pc' = [q \in Threads |->
                 IF q = j /\ last /\ (p = j \/ pc[j] = "parked") THEN "finish"
                 ELSE IF q # p THEN pc[q]
                 ELSE IF p = j THEN "parked"
                 ELSE IF p = App THEN "idle" ELSE "list"]

\* The job that thread p calls _starpu_handle_job_termination for: its own, or the
\* one whose termination waits for it (starpu_task_end_dep_release).
Ending(p) == IF pc[p] \in {"run", "count"} THEN p
             ELSE IF p = App THEN target ELSE end_rdep[p]

EndUnchanged == UNCHANGED <<jobvars, listvars, countvars, cgvars, appvars, histvars,
                            released, notifies, index>>

\* nb_termination_call_required is first tested without the lock.
EndTest(p) ==
    LET j == Ending(p) IN
    /\ pc[p] \in {"run", "release"}
    /\ IF nb[j] # 0
       THEN /\ pc' = [pc EXCEPT ![p] = IF @ = "run" THEN "count" ELSE "rcount"]
            /\ UNCHANGED ends
       ELSE EndCall(p, j, TRUE)
    /\ UNCHANGED <<mix, nb, end_rdep>>
    /\ EndUnchanged

\* Mutant: the value after the decrement is tested.
EndCount_TestAfter(p) ==
    LET j == Ending(p) IN
    /\ pc[p] \in {"count", "rcount"}
    /\ nb' = [nb EXCEPT ![j] = @ - 1]
    /\ EndCall(p, j, nb[j] = 1)
    /\ UNCHANGED <<mix, end_rdep>>
    /\ EndUnchanged

\* Then it is read and decremented under sync_mutex.  (It is unsigned; TLC's
\* integers stand for its values modulo 2^32, -1 for UINT_MAX.)
EndCount(p) ==
    LET j == Ending(p) IN
    /\ pc[p] \in {"count", "rcount"}
    /\ nb' = [nb EXCEPT ![j] = @ - 1]
    /\ EndCall(p, j, nb[j] = 0)
    /\ UNCHANGED <<mix, end_rdep>>
    /\ EndUnchanged

\* _starpu_handle_job_termination, first critical section.  A job that was waiting
\* for this one is told next.
Finish(t) ==
    /\ pc[t] = "finish"
    /\ status' = [status EXCEPT ![t] = "FINISHED"]
    /\ ndeps_completed' = [ndeps_completed EXCEPT ![t] = 0]
    /\ terminated' = [terminated EXCEPT ![t] = 1]
    /\ rounds' = [rounds EXCEPT ![t] = @ + 1]
    /\ index' = [index EXCEPT ![t] = 1]
    /\ pc' = [pc EXCEPT ![t] = IF end_rdep[t] # None THEN "release" ELSE "list"]
    /\ UNCHANGED <<endvars, submitted, destroyed, listvars, ndeps, cgvars, appvars, pushes,
                   released, notifies>>

\* _starpu_notify_cg_list: one turn of the loop, under the list lock.
NotifyList(t) ==
    /\ pc[t] = "list"
    /\ list_terminated' = [list_terminated EXCEPT ![t] = TRUE]
    /\ IF index[t] <= Len(succ[t])
       THEN /\ notifies' = [notifies EXCEPT ![t] = succ[t][index[t]]]
            /\ index' = [index EXCEPT ![t] = @ + 1]
            /\ pc' = [pc EXCEPT ![t] = "notify"]
       ELSE /\ pc' = [pc EXCEPT ![t] = "end"]
            /\ UNCHANGED <<notifies, index>>
    /\ UNCHANGED <<endvars, jobvars, succ, countvars, cgvars, appvars, histvars, released>>

\* _starpu_cg_list_deinit: drop the reference of each group in the list.
References(t, c) == Cardinality({i \in 1..Len(succ[t]) : succ[t][i] = c})

\* Mutant: the count is tested before the reference is dropped.
Destroy_TestFirst(t) ==
    /\ destroyed' = [destroyed EXCEPT ![t] = TRUE]
    /\ ntags' = [c \in Groups |-> ntags[c] - References(t, c)]
    /\ freed' = [c \in Groups |-> freed[c] \/ (References(t, c) > 0 /\ ntags[c] = 0)]

Destroy(t) ==
    /\ destroyed' = [destroyed EXCEPT ![t] = TRUE]
    /\ ntags' = [c \in Groups |-> ntags[c] - References(t, c)]
    /\ freed' = [c \in Groups |->
                   freed[c] \/ (References(t, c) > 0 /\ ntags[c] = References(t, c))]

\* _starpu_handle_job_termination, last critical section, and the destruction of a
\* detached task.
End(t) ==
    /\ pc[t] = "end"
    /\ terminated' = [terminated EXCEPT ![t] = 2]
    /\ pc' = [pc EXCEPT ![t] = IF t \in Regenerable /\ rounds[t] < MaxRounds
                               THEN "regenerate" ELSE "idle"]
    /\ IF t \in Detached THEN Destroy(t) ELSE UNCHANGED <<destroyed, ntags, freed>>
    /\ UNCHANGED <<endvars, status, submitted, listvars, countvars, cg_job, remaining, nextcg,
                   appvars, histvars, released, notifies, index>>

\* The resubmission of a regenerable task.
Regenerate(t) ==
    /\ pc[t] = "regenerate"
    /\ SubmitJob(t)
    /\ pc' = [pc EXCEPT ![t] = "idle"]
    /\ UNCHANGED <<endvars, destroyed, listvars, countvars, cgvars, appvars, histvars,
                   notifies, index>>

\* Application: starpu_task_wait on a task that is not detached; it returns once
\* terminated is 2, and destroys the task.
TaskWait(t) ==
    /\ pc[App] = "idle"
    /\ t \notin Detached \cup Regenerable /\ terminated[t] = 2 /\ ~destroyed[t]
    /\ Destroy(t)
    /\ UNCHANGED <<endvars, status, submitted, terminated, listvars, countvars, cg_job,
                   remaining, nextcg, appvars, histvars, released, pc, notifies, index>>

-----------------------------------------------------------------------------
(* Completion groups.                                                      *)

\* The place a thread goes back to from _starpu_notify_cg.
Return(p) == IF p = App THEN "back" ELSE "list"

\* _starpu_notify_cg: the atomic decrement.
NotifyDecrement(p) ==
    LET c == notifies[p] IN
    /\ pc[p] = "notify"
    /\ remaining' = [remaining EXCEPT ![c] = @ - 1]
    /\ pc' = [pc EXCEPT ![p] = IF remaining[c] = 1 THEN "reset" ELSE Return(p)]
    /\ UNCHANGED <<endvars, jobvars, listvars, countvars, cg_job, ntags, freed, nextcg,
                   appvars, histvars, released, notifies, index>>

\* The group is complete: cg->remaining = cg->ntags, for its next use.
NotifyReset(p) ==
    LET c == notifies[p] IN
    /\ pc[p] = "reset"
    /\ remaining' = [remaining EXCEPT ![c] = ntags[c]]
    /\ pc' = [pc EXCEPT ![p] = "job"]
    /\ UNCHANGED <<endvars, jobvars, listvars, countvars, cg_job, ntags, freed, nextcg,
                   appvars, histvars, released, notifies, index>>

\* Mutant: any complete group releases the job.
NotifyJob_AnyGroup(p) ==
    LET j == cg_job[notifies[p]] IN
    /\ pc[p] = "job"
    /\ ndeps_completed' = [ndeps_completed EXCEPT ![j] = @ + 1]
    /\ released' = IF submitted[j] # 0 /\ status[j] = "BLOCKED_ON_TASK"
                   THEN released \cup {j} ELSE released
    /\ pc' = [pc EXCEPT ![p] = Return(p)]
    /\ UNCHANGED <<endvars, jobvars, listvars, ndeps, cgvars, appvars, histvars, notifies, index>>

\* Mutant: the status of the job is not tested.
NotifyJob_NoStatus(p) ==
    LET j == cg_job[notifies[p]]
        done == ndeps_completed[j] + 1
    IN
    /\ pc[p] = "job"
    /\ ndeps_completed' = [ndeps_completed EXCEPT ![j] = done]
    /\ released' = IF submitted[j] # 0 /\ ndeps[j] = done
                   THEN released \cup {j} ELSE released
    /\ pc' = [pc EXCEPT ![p] = Return(p)]
    /\ UNCHANGED <<endvars, jobvars, listvars, ndeps, cgvars, appvars, histvars, notifies, index>>

\* The waiting job, under its sync_mutex.
NotifyJob(p) ==
    LET j == cg_job[notifies[p]]
        done == ndeps_completed[j] + 1
    IN
    /\ pc[p] = "job"
    /\ ndeps_completed' = [ndeps_completed EXCEPT ![j] = done]
    /\ released' = IF submitted[j] # 0 /\ ndeps[j] = done /\ status[j] = "BLOCKED_ON_TASK"
                   THEN released \cup {j} ELSE released
    /\ pc' = [pc EXCEPT ![p] = Return(p)]
    /\ UNCHANGED <<endvars, jobvars, listvars, ndeps, cgvars, appvars, histvars, notifies, index>>

-----------------------------------------------------------------------------
(* Declaration of dependencies, by the application.                        *)

\* create_cg_task(n, j)
CreateCg(n, j) ==
    /\ cg_job' = [cg_job EXCEPT ![nextcg] = j]
    /\ ntags' = [ntags EXCEPT ![nextcg] = n]
    /\ remaining' = [remaining EXCEPT ![nextcg] = n]
    /\ nextcg' = nextcg + 1
    /\ ndeps' = [ndeps EXCEPT ![j] = @ + 1]

\* The executor of d is in the loop of _starpu_notify_cg_list, which releases the
\* list lock around each notification.
Notifying(d) == list_terminated[d] /\ pc[d] \in {"list", "notify", "reset", "job"}

\* Whether the application may name d in a declaration: it still exists, and
\* depending on DeclareOn it may have been submitted.  Once submitted, it must be
\* neither regenerable nor destroyed automatically.
MayName(d) ==
    /\ ~destroyed[d]
    /\ submitted[d] # 0 => DeclareOn # "none" /\ d \notin Detached \cup Regenerable

\* _starpu_task_declare_deps_array: create the group of the declaration.  A task
\* and its dependencies are all regenerable or none is: a task that regenerates
\* waits for each of its groups again in each round.
Declare(t, D) ==
    /\ pc[App] = "idle" /\ submitted[t] = 0
    /\ ndeclare < MaxDeclare /\ ndeclare' = ndeclare + 1
    /\ D # {} /\ \A d \in D : d < t /\ MayName(d)
    /\ (D \subseteq Regenerable /\ t \in Regenerable) \/ (D \cup {t}) \cap Regenerable = {}
    /\ CreateCg(Cardinality(D), t)
    /\ target' = t /\ group' = nextcg /\ todo' = D
    /\ deps' = [deps EXCEPT ![t] = @ \cup D]
    /\ pc' = [pc EXCEPT ![App] = "next"]
    /\ UNCHANGED <<endvars, jobvars, listvars, ndeps_completed, freed, dep, histvars, released,
                   notifies, index>>

\* The next dependency, under its sync_mutex: a regenerable one gets a group of its
\* own that keeps it from running again before the task has run; it does not
\* count for its first submission.
DeclareDep(d) ==
    /\ pc[App] = "next" /\ d \in todo
    /\ dep' = d /\ todo' = todo \ {d}
    /\ IF d \in Regenerable
       THEN /\ CreateCg(1, d)
            /\ ndeps_completed' = [ndeps_completed EXCEPT ![d] = @ + 1]
            /\ UNCHANGED freed
       ELSE UNCHANGED <<cgvars, countvars>>
    /\ pc' = [pc EXCEPT ![App] = "succ"]
    /\ UNCHANGED <<endvars, jobvars, listvars, target, group, ndeclare, deps, histvars, released,
                   notifies, index>>

\* Mutant: the caller never notifies.
AddSucc_NeverNotify ==
    /\ pc[App] = "succ"
    /\ DeclareOn = "quiet" => ~Notifying(dep)
    /\ succ' = [succ EXCEPT ![dep] = Append(@, group)]
    /\ pc' = [pc EXCEPT ![App] = "back"]
    /\ UNCHANGED <<endvars, jobvars, list_terminated, countvars, cgvars, appvars, histvars,
                   released, notifies, index>>

\* _starpu_task_add_succ(dep_job, cg): under the list lock; if the list was
\* notified before, the caller notifies the group.
AddSucc ==
    /\ pc[App] = "succ"
    /\ DeclareOn = "quiet" => ~Notifying(dep)
    /\ succ' = [succ EXCEPT ![dep] = Append(@, group)]
    /\ IF list_terminated[dep]
       THEN /\ notifies' = [notifies EXCEPT ![App] = group]
            /\ pc' = [pc EXCEPT ![App] = "notify"]
       ELSE /\ pc' = [pc EXCEPT ![App] = "back"]
            /\ UNCHANGED notifies
    /\ UNCHANGED <<endvars, jobvars, list_terminated, countvars, cgvars, appvars, histvars,
                   released, index>>

\* _starpu_task_add_succ(job, back_cg) if dep_job is regenerable; the job is not
\* submitted yet, so its list was never notified.
AddBack ==
    /\ pc[App] = "back"
    /\ succ' = IF dep \in Regenerable
               THEN [succ EXCEPT ![target] = Append(@, nextcg - 1)] ELSE succ
    /\ pc' = [pc EXCEPT ![App] = IF todo = {} THEN "idle" ELSE "next"]
    /\ UNCHANGED <<endvars, jobvars, list_terminated, countvars, cgvars, appvars, histvars,
                   released, notifies, index>>

\* starpu_task_declare_end_deps_array: starpu_task_end_dep_add.
DeclareEnd(t, d) ==
    /\ pc[App] = "idle" /\ submitted[t] = 0 /\ mix.end_deps
    /\ ndeclare < MaxDeclare /\ ndeclare' = ndeclare + 1
    /\ d < t /\ MayName(d) /\ end_rdep[d] = None /\ d \notin Regenerable
    /\ nb' = [nb EXCEPT ![t] = @ + 1]
    /\ target' = t /\ dep' = d
    /\ pc' = [pc EXCEPT ![App] = "end_rdep"]
    /\ UNCHANGED <<mix, end_rdep, ends, jobvars, listvars, countvars, cgvars, todo, group,
                   deps, histvars, released, notifies, index>>

\* Under the sync_mutex of the dependency: if it is over, the caller releases.
SetEndRdep ==
    /\ pc[App] = "end_rdep"
    /\ end_rdep' = [end_rdep EXCEPT ![dep] = target]
    /\ pc' = [pc EXCEPT ![App] = IF terminated[dep] # 0 THEN "release" ELSE "idle"]
    /\ UNCHANGED <<mix, nb, ends>>
    /\ EndUnchanged

-----------------------------------------------------------------------------
AppStep ==
    \/ \E t \in Tasks : Submit(t) \/ TaskWait(t)
    \/ \E t \in Tasks, D \in SUBSET Tasks : Declare(t, D)
    \/ \E d \in Tasks : DeclareDep(d)
    \/ AddSucc \/ AddBack
    \/ \E t, d \in Tasks : DeclareEnd(t, d)
    \/ SetEndRdep

ExecutorStep(t) ==
    \/ Push(t) \/ Execute(t) \/ Finish(t) \/ NotifyList(t) \/ End(t) \/ Regenerate(t)

Notify(p) == \/ NotifyDecrement(p) \/ NotifyReset(p) \/ NotifyJob(p)
             \/ EndTest(p) \/ EndCount(p)

Next ==
    \/ AppStep
    \/ \E t \in Tasks : ExecutorStep(t)
    \/ \E p \in Threads : Notify(p)

Spec == Init /\ [][Next]_vars

\* Threads run on; the application completes the declaration it has begun and
\* submits every task.
Fairness ==
    /\ \A t \in Tasks : WF_vars(ExecutorStep(t)) /\ WF_vars(Submit(t))
    /\ \A p \in Threads : WF_vars(Notify(p))
    /\ WF_vars((\E d \in Tasks : DeclareDep(d)) \/ AddSucc \/ AddBack \/ SetEndRdep)

FairSpec == Spec /\ Fairness

-----------------------------------------------------------------------------
TypeOK ==
    /\ status \in [Tasks -> {"INIT", "BLOCKED", "BLOCKED_ON_TASK", "READY", "RUNNING",
                             "FINISHED"}]
    /\ submitted \in [Tasks -> 0..2] /\ terminated \in [Tasks -> 0..2]
    /\ ndeps \in [Tasks -> Nat] /\ ndeps_completed \in [Tasks -> Nat]
    /\ succ \in [Tasks -> Seq(Groups)]
    /\ list_terminated \in [Tasks -> BOOLEAN] /\ destroyed \in [Tasks -> BOOLEAN]
    /\ cg_job \in [Groups -> Tasks \cup {None}]
    /\ ntags \in [Groups -> Nat] /\ remaining \in [Groups -> Nat]
    /\ freed \in [Groups -> BOOLEAN] /\ nextcg \in Nat \ {0}
    /\ released \subseteq Tasks
    /\ pc \in [Threads -> {"idle", "run", "list", "notify", "reset", "job", "end",
                           "regenerate", "next", "succ", "back", "count", "parked",
                           "finish", "release", "rcount", "end_rdep"}]
    /\ nb \in [Tasks -> Nat \cup {-1}] /\ end_rdep \in [Tasks -> Tasks \cup {None}]
    /\ ends \in [Tasks -> Nat]
    /\ notifies \in [Threads -> Groups \cup {None}]
    /\ index \in [Tasks -> Nat \ {0}]
    /\ todo \subseteq Tasks /\ target \in Tasks \cup {None}
    /\ ndeclare \in 0..MaxDeclare
    /\ group \in Groups \cup {None} /\ dep \in Tasks \cup {None}
    /\ deps \in [Tasks -> SUBSET Tasks]
    /\ rounds \in [Tasks -> Nat] /\ pushes \in [Tasks -> Nat]

\* A task is handed to the scheduler for the n-th time only after each task it was
\* declared to depend on has been executed n times, whatever the order in which
\* declarations, submissions and notifications of _starpu_notify_cg interleave.
NoEarlyStart == \A t \in Tasks : \A d \in deps[t] : pushes[t] <= rounds[d]

\* Each submission of a task is pushed at most once, although _starpu_submit_job
\* and any notifier may find the dependencies fulfilled, and a regenerable task is
\* not handed out again before the tasks that depend on it have run (back_cg in
\* _starpu_task_declare_deps_array). No group is counted twice as completed
\* (STARPU_ASSERT(job_successors->ndeps >= ndeps_completed) in _starpu_notify_cg).
PushedOnce == \A t \in Tasks :
    /\ pushes[t] + (IF t \in released THEN 1 ELSE 0) <= rounds[t] + 1
    /\ submitted[t] # 0 =>
         \A d \in deps[t] \cap Regenerable : pushes[d] <= rounds[t] + 1
    /\ ndeps_completed[t] <= ndeps[t]

\* No thread is inside _starpu_notify_cg with a group that _starpu_cg_list_deinit
\* has freed, or about to lock a job that was destroyed; and when all jobs are
\* destroyed, all completion groups were freed.
FreedInTime ==
    /\ \A p \in Threads :
         /\ pc[p] \in {"notify", "reset", "job"} =>
              ~freed[notifies[p]] /\ ~destroyed[cg_job[notifies[p]]]
         /\ pc[p] \in {"release", "rcount"} => ~destroyed[Ending(p)]
    /\ (\A t \in Tasks : destroyed[t]) => \A c \in 1..(nextcg - 1) : freed[c]

\* A job that end dependencies keep from terminating terminates once for each
\* execution, by the last of the calls, whichever threads make them at the same time,
\* and not before the tasks its end depends on are over.
EndDepsRespected == \A t \in Tasks :
    /\ rounds[t] <= ends[t] /\ ends[t] <= pushes[t]
    /\ ends[t] > 0 => \A d \in Tasks : end_rdep[d] = t => rounds[d] > 0

LastRound(t) == IF t \in Regenerable THEN MaxRounds ELSE 1

\* Every task is executed as often as it is submitted or regenerated: no
\* notification is lost between a declaration, a submission and a termination.
AllTasksRun == <>(\A t \in Tasks : rounds[t] = LastRound(t) /\ terminated[t] = 2)
=============================================================================
