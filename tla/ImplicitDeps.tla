---------------------------- MODULE ImplicitDeps ----------------------------
(***************************************************************************)
(* Implicit data dependencies (implicit_data_deps.c): from the accesses of *)
(* a task or of the application to a handle, in the order of submission,   *)
(* StarPU infers the tasks to wait for.  A handle remembers its last       *)
(* synchronisation task and the accessors since then; both forget a task   *)
(* when it terminates.                                                     *)
(*                                                                         *)
(* Accessors are numbers; each thread submits its own in increasing order. *)
(* The jobs of an accessor a are <<a, 0>> (the task, or the post_sync task *)
(* of an acquisition), <<a, Pre>> (its pre_sync task) and <<a, b>> (the    *)
(* empty synchronisation task created for its buffer b).                   *)
(*                                                                         *)
(* Each action is one critical section under sequential_consistency_mutex. *)
(* What the other components promise is taken for granted: a job starts    *)
(* once the jobs it depends on have notified it (TaskDeps), and accesses   *)
(* that are under way at the same time are compatible (DataConcurrency).   *)
(***************************************************************************)
EXTENDS Naturals, Sequences, FiniteSets

CONSTANTS N,           \* number of accessors
          Thread,      \* the thread that submits each of them
          Handles,
          MaxBuffers,  \* bound: buffers of a task
          Programs,    \* what accessors may do: a set of functions from accessors to
                       \* [kind, access], the buffers being in acquisition order
          UIntMax      \* the greatest unsigned

ASSUME SizesAssumption ==
    N \in Nat /\ MaxBuffers \in Nat \ {0} /\ UIntMax \in Nat

Accessors == 1..N
Pre == MaxBuffers + 1
Jobs == Accessors \X (0..Pre)
None == <<0, 0>>

\* A task; an acquisition, with starpu_data_acquire or starpu_data_acquire_cb; one
\* without sequential consistency; starpu_data_acquire_try.
AllModes == {"R", "W", "RW", "WC", "RWC", "REDUX"}
ASSUME ProgramsAssumption ==
    \A p \in Programs, a \in Accessors :
        /\ p[a].kind \in {"task", "acquire", "free", "try"}
        /\ p[a].access \in Seq([handle : Handles, mode : AllModes])
        /\ Len(p[a].access) \in 1..(IF p[a].kind = "task" THEN MaxBuffers ELSE 1)

VARIABLES
    last_sync_task,      \* of a handle
    accessors,           \* of a handle: last_submitted_accessors, as <<job, buffer>>
    last_submitted_mode, \* of a handle
    post_sync_tasks,     \* of a handle
    post_sync_tasks_cnt, \* of a handle
    kind, access,        \* of an accessor: its program
    buf,                 \* of an accessor: the buffer it is at
    pc,                  \* of an accessor
    unlocking,           \* of an accessor: the post_sync tasks it has to submit
    deps,                \* of a job: the jobs it depends on
    jpc,                 \* of a job
    hist                 \* history: accesses to a handle, in order of submission

hvars == <<last_sync_task, accessors, last_submitted_mode>>
pvars == <<post_sync_tasks, post_sync_tasks_cnt>>
vars == <<hvars, pvars, kind, access, buf, pc, unlocking, deps, jpc, hist>>

Init ==
    /\ last_sync_task = [h \in Handles |-> None]
    /\ accessors = [h \in Handles |-> {}]
    /\ last_submitted_mode = [h \in Handles |-> "NONE"]
    /\ post_sync_tasks = [h \in Handles |-> <<>>]
    /\ post_sync_tasks_cnt = [h \in Handles |-> 0]
    /\ \E p \in Programs :
        /\ kind = [a \in Accessors |-> p[a].kind]
        /\ access = [a \in Accessors |-> p[a].access]
    /\ buf = [a \in Accessors |-> 1]
    /\ pc = [a \in Accessors |-> "start"]
    /\ unlocking = [a \in Accessors |-> <<>>]
    /\ deps = [j \in Jobs |-> {}]
    /\ jpc = [j \in Jobs |-> "none"]
    /\ hist = [h \in Handles |-> <<>>]

-----------------------------------------------------------------------------
(* Submission.                                                             *)

\* Accesses that need no dependency between them.
Concurrent(m, n) ==
    \/ m \in {"WC", "RWC"} /\ n \in {"WC", "RWC"}
    \/ m = n /\ m \in {"R", "REDUX"}

Handle(a, b) == access[a][b].handle
Mode(a, b) == access[a][b].mode
Main(a) == <<a, 0>>
PreSync(a) == IF kind[a] = "task" THEN Main(a) ELSE <<a, Pre>>

\* The buffer was dealt with already.
Duplicate(a, b) == \E c \in 1..(b - 1) : access[a][c] = access[a][b]

\* Whether an earlier submission of the same thread is still under way.
MyTurn(a) ==
    \A c \in Accessors : c < a /\ Thread[c] = Thread[a] => pc[c] \notin {"start", "detect"}

\* _starpu_add_accessor, when the last synchronisation task is s: pre depends on it.
DepOn(s, a) == IF s \in {None, Main(a)} THEN {} ELSE {s}

\* The end of a turn for buffer b: what the handle remembers is now acc and last,
\* the jobs depend on each other as d says, and the jobs in subs are submitted, the
\* pre_sync task among them after the last buffer.  An acquisition whose pre_sync
\* task has nothing to wait for does without.
Detected(a, acc, last, d, subs) ==
    LET b == buf[a]
        h == Handle(a, b)
        later == {c \in (b + 1)..Len(access[a]) : ~Duplicate(a, c)}
        submit_pre == kind[a] = "task" \/ d[PreSync(a)] # {}
        now == subs \cup (IF later = {} /\ submit_pre THEN {PreSync(a)} ELSE {})
    IN
    /\ accessors' = [accessors EXCEPT ![h] = acc]
    /\ last_sync_task' = [last_sync_task EXCEPT ![h] = last]
    /\ last_submitted_mode' = [last_submitted_mode EXCEPT ![h] = Mode(a, b)]
    /\ deps' = d
    /\ jpc' = [j \in Jobs |-> IF j \in now THEN "submitted" ELSE jpc[j]]
    /\ \E c \in IF later = {} THEN {1} ELSE {e \in later : \A f \in later : e <= f} :
          buf' = [buf EXCEPT ![a] = c]
    /\ pc' = [pc EXCEPT ![a] = IF later # {} THEN "start"
                               ELSE IF submit_pre THEN "wait" ELSE "attempt"]
    /\ hist' = [hist EXCEPT ![h] = Append(@, [who |-> a, mode |-> Mode(a, b)])]
    /\ UNCHANGED <<pvars, kind, access, unlocking>>

\* Mutant: the accessors since the last synchronisation task are not waited for.
Detect_LastSyncOnly(a) ==
    LET h == Handle(a, buf[a])
        d == DepOn(last_sync_task[h], a)
    IN
    /\ pc[a] = "start" /\ kind[a] \in {"task", "acquire"} /\ MyTurn(a)
    /\ Detected(a, {<<Main(a), buf[a]>>}, last_sync_task[h],
                [deps EXCEPT ![PreSync(a)] = @ \cup d], {})

\* _starpu_detect_implicit_data_deps_with_handle for the next buffer, and the
\* submission of the synchronisation task it returned.
Detect(a) ==
    LET b == buf[a]
        h == Handle(a, b)
        slot == <<Main(a), b>>
        last == last_sync_task[h]
        sync == <<a, b>>
        previous == {s[1] : s \in accessors[h]} \ {Main(a)}
        concurrent == Concurrent(Mode(a, b), last_submitted_mode[h])
        several == \E s, t \in accessors[h] : s # t
    IN
    /\ pc[a] = "start" /\ kind[a] \in {"task", "acquire"} /\ MyTurn(a)
    /\ \/ /\ concurrent
          /\ Detected(a, accessors[h] \cup {slot}, last,
                      [deps EXCEPT ![PreSync(a)] = @ \cup DepOn(last, a)], {})
       \/ /\ ~concurrent /\ several /\ Mode(a, b) = "W"
          /\ Detected(a, {}, Main(a), [deps EXCEPT ![PreSync(a)] = @ \cup previous], {})
       \/ /\ ~concurrent /\ several /\ Mode(a, b) # "W"
          /\ Detected(a, {slot}, sync,
                      [deps EXCEPT ![sync] = previous, ![PreSync(a)] = @ \cup {sync}], {sync})
       \/ /\ ~concurrent /\ ~several
          /\ \E s \in {t[1] : t \in accessors[h]} \cup
                      (IF accessors[h] = {} THEN {last} ELSE {}) :
                Detected(a, {slot}, s, [deps EXCEPT ![PreSync(a)] = @ \cup DepOn(s, a)], {})

\* An acquisition without sequential consistency.
Skip(a) ==
    /\ pc[a] = "start" /\ kind[a] = "free" /\ MyTurn(a)
    /\ pc' = [pc EXCEPT ![a] = "attempt"]
    /\ UNCHANGED <<hvars, pvars, kind, access, buf, unlocking, deps, jpc, hist>>

\* _starpu_test_implicit_data_deps_with_handle, for starpu_data_acquire_try.
Try(a) ==
    LET h == Handle(a, 1)
        available == last_sync_task[h] = None /\ accessors[h] = {}
    IN
    /\ pc[a] = "start" /\ kind[a] = "try" /\ MyTurn(a)
    /\ pc' = [pc EXCEPT ![a] = IF available THEN "attempt" ELSE "done"]
    /\ last_submitted_mode' = [last_submitted_mode EXCEPT ![h] =
                                  IF available THEN Mode(a, 1) ELSE @]
    /\ UNCHANGED <<last_sync_task, accessors, pvars, kind, access, buf, unlocking, deps,
                   jpc, hist>>

-----------------------------------------------------------------------------
(* Execution.                                                              *)

Ready(j) == jpc[j] = "submitted" /\ \A k \in deps[j] : jpc[k] = "done"

\* Whether an accessor has the data, see DataConcurrency.
Using(a) == pc[a] \in {"run", "granted", "hold", "unlock"}

MayUse(a) ==
    \A c \in Accessors \ {a} : Using(c) =>
        \A i \in DOMAIN access[a], k \in DOMAIN access[c] :
            Handle(a, i) = Handle(c, k) =>
                Mode(a, i) = Mode(c, k) /\ Mode(a, i) \in {"R", "REDUX"}

Start(a) ==
    /\ kind[a] = "task" /\ Ready(Main(a)) /\ MayUse(a)
    /\ jpc' = [jpc EXCEPT ![Main(a)] = "run"]
    /\ pc' = [pc EXCEPT ![a] = "run"]
    /\ UNCHANGED <<hvars, pvars, kind, access, buf, unlocking, deps, hist>>

\* The task ran and gave back its data.
End(a) ==
    /\ kind[a] = "task" /\ pc[a] = "run"
    /\ jpc' = [jpc EXCEPT ![Main(a)] = "release"]
    /\ pc' = [pc EXCEPT ![a] = "done"]
    /\ UNCHANGED <<hvars, pvars, kind, access, buf, unlocking, deps, hist>>

\* Synchronisation tasks have nothing to execute.
StartEmpty(j) ==
    /\ kind[j[1]] # "task" \/ j[2] # 0
    /\ Ready(j)
    /\ jpc' = [jpc EXCEPT ![j] = "release"]
    /\ UNCHANGED <<hvars, pvars, kind, access, buf, pc, unlocking, deps, hist>>

\* _starpu_release_data_enforce_sequential_consistency: handle h forgets job j.
Forget(j, b, h) ==
    /\ last_sync_task' = [last_sync_task EXCEPT ![h] = IF @ = j THEN None ELSE @]
    /\ accessors' = [accessors EXCEPT ![h] = @ \ {<<j, b>>}]
    /\ UNCHANGED last_submitted_mode

\* The same for each buffer of a task, one after the other
\* (_starpu_release_task_enforce_sequential_consistency), then the jobs that wait
\* for it are notified.
Release(a) ==
    LET b == buf[a] IN
    /\ kind[a] = "task" /\ jpc[Main(a)] = "release"
    /\ Forget(Main(a), b, Handle(a, b))
    /\ buf' = [buf EXCEPT ![a] = b + 1]
    /\ jpc' = [jpc EXCEPT ![Main(a)] = IF b = Len(access[a]) THEN "notify" ELSE @]
    /\ UNCHANGED <<pvars, kind, access, pc, unlocking, deps, hist>>

\* Mutant: a synchronisation task is never forgotten.
ReleaseEmpty_Kept(j) ==
    /\ jpc[j] = "release" /\ (kind[j[1]] # "task" \/ j[2] # 0)
    /\ jpc' = [jpc EXCEPT ![j] = "notify"]
    /\ UNCHANGED <<hvars, pvars, kind, access, buf, pc, unlocking, deps, hist>>

\* The same for a task without codelet: its implicit_dep_handle.
ReleaseEmpty(j) ==
    LET b == IF j[2] \in 1..MaxBuffers THEN j[2] ELSE 1 IN
    /\ jpc[j] = "release" /\ (kind[j[1]] # "task" \/ j[2] # 0)
    /\ Forget(j, b, Handle(j[1], b))
    /\ jpc' = [jpc EXCEPT ![j] = "notify"]
    /\ UNCHANGED <<pvars, kind, access, buf, pc, unlocking, deps, hist>>

\* _starpu_notify_dependencies; after that the callback of a pre_sync task asks for
\* the data.
Notify(j) ==
    /\ jpc[j] = "notify"
    /\ jpc' = [jpc EXCEPT ![j] = "done"]
    /\ pc' = IF j[2] = Pre THEN [pc EXCEPT ![j[1]] = "attempt"] ELSE pc
    /\ UNCHANGED <<hvars, pvars, kind, access, buf, unlocking, deps, hist>>

-----------------------------------------------------------------------------
(* The application.                                                        *)

\* The data is granted to an acquisition.
Grant(a) ==
    /\ pc[a] = "attempt" /\ MayUse(a)
    /\ pc' = [pc EXCEPT ![a] = "granted"]
    /\ UNCHANGED <<hvars, pvars, kind, access, buf, unlocking, deps, jpc, hist>>

\* _starpu_add_post_sync_tasks
AddPostSync(a) ==
    LET h == Handle(a, 1) IN
    /\ pc[a] = "granted"
    /\ pc' = [pc EXCEPT ![a] = "hold"]
    /\ IF kind[a] = "acquire"
       THEN /\ post_sync_tasks_cnt' =
                   [post_sync_tasks_cnt EXCEPT ![h] = (@ + 1) % (UIntMax + 1)]
            /\ post_sync_tasks' = [post_sync_tasks EXCEPT ![h] = <<Main(a)>> \o @]
       ELSE UNCHANGED pvars
    /\ UNCHANGED <<hvars, kind, access, buf, unlocking, deps, jpc, hist>>


\* starpu_data_release_to, down to STARPU_R (to = "R") or all the way ("NONE"), begins
\* with _starpu_unlock_post_sync_tasks, which reads the count without the mutex.
UnlockTest(a, to) ==
    /\ pc[a] = "hold"
    /\ to = "R" => Mode(a, 1) \in {"W", "RW"}
    /\ pc' = [pc EXCEPT ![a] = "unlock"]
    /\ unlocking' = [unlocking EXCEPT ![a] =
                        <<to, IF post_sync_tasks_cnt[Handle(a, 1)] # 0 THEN "lock" ELSE "go">>]
    /\ UNCHANGED <<hvars, pvars, kind, access, buf, deps, jpc, hist>>

\* Mutant: the tasks are left to the last release, which may not come.
Unlock_Zero(a) ==
    LET h == Handle(a, 1)
        cnt == post_sync_tasks_cnt[h]
    IN
    /\ pc[a] = "unlock" /\ unlocking[a][2] = "lock"
    /\ post_sync_tasks_cnt' = [post_sync_tasks_cnt EXCEPT ![h] =
            IF unlocking[a][1] = "NONE" THEN @ - 1 ELSE @]
    /\ IF cnt = 0
       THEN /\ unlocking' = [unlocking EXCEPT ![a] = <<unlocking[a][1], "go">> \o post_sync_tasks[h]]
            /\ post_sync_tasks' = [post_sync_tasks EXCEPT ![h] = <<>>]
       ELSE /\ unlocking' = [unlocking EXCEPT ![a][2] = "go"]
            /\ UNCHANGED post_sync_tasks
    /\ UNCHANGED <<hvars, kind, access, buf, pc, deps, jpc, hist>>

\* It takes the mutex, counts the release, and with the last one takes all tasks.
Unlock(a) ==
    LET h == Handle(a, 1)
        cnt == post_sync_tasks_cnt[h]
        to == unlocking[a][1]
    IN
    /\ pc[a] = "unlock" /\ unlocking[a][2] = "lock"
    /\ post_sync_tasks_cnt' = [post_sync_tasks_cnt EXCEPT ![h] =
            IF to = "NONE" THEN (@ + UIntMax) % (UIntMax + 1) ELSE @]
    /\ IF cnt = 1
       THEN /\ unlocking' = [unlocking EXCEPT ![a] = <<to, "go">> \o post_sync_tasks[h]]
            /\ post_sync_tasks' = [post_sync_tasks EXCEPT ![h] = <<>>]
       ELSE /\ unlocking' = [unlocking EXCEPT ![a][2] = "go"]
            /\ UNCHANGED post_sync_tasks
    /\ UNCHANGED <<hvars, kind, access, buf, pc, deps, jpc, hist>>

\* Each of the tasks it took is forgotten by the handle and submitted.
UnlockOne(a) ==
    LET j == unlocking[a][3] IN
    /\ pc[a] = "unlock" /\ unlocking[a][2] = "go" /\ Len(unlocking[a]) > 2
    /\ Forget(j, 1, Handle(a, 1))
    /\ jpc' = [jpc EXCEPT ![j] = "submitted"]
    /\ unlocking' = [unlocking EXCEPT ![a] = SubSeq(@, 1, 2) \o SubSeq(@, 4, Len(@))]
    /\ UNCHANGED <<pvars, kind, access, buf, pc, deps, hist>>

\* Then the data is released, or accessed in the weaker mode from now on.
ReleaseData(a) ==
    LET h == Handle(a, 1) IN
    /\ pc[a] = "unlock" /\ unlocking[a][2] = "go" /\ Len(unlocking[a]) = 2
    /\ unlocking' = [unlocking EXCEPT ![a] = <<>>]
    /\ IF unlocking[a][1] = "NONE"
       THEN /\ pc' = [pc EXCEPT ![a] = "done"]
            /\ UNCHANGED <<access, hist>>
       ELSE /\ pc' = [pc EXCEPT ![a] = "hold"]
            /\ access' = [access EXCEPT ![a][1].mode = "R"]
            /\ hist' = [hist EXCEPT ![h] = [i \in DOMAIN @ |->
                            IF @[i].who = a THEN [@[i] EXCEPT !.mode = "R"] ELSE @[i]]]
    /\ UNCHANGED <<hvars, pvars, kind, buf, deps, jpc>>

-----------------------------------------------------------------------------
SubmitStep(a) == Detect(a) \/ Skip(a) \/ Try(a)

TaskStep(a) == Start(a) \/ End(a) \/ Release(a)

JobStep(j) == StartEmpty(j) \/ ReleaseEmpty(j) \/ Notify(j)

UserStep(a) ==
    \/ Grant(a) \/ AddPostSync(a) \/ UnlockTest(a, "NONE")
    \/ Unlock(a) \/ UnlockOne(a) \/ ReleaseData(a)

Step ==
    \/ \E a \in Accessors : SubmitStep(a) \/ TaskStep(a) \/ UserStep(a)
    \/ \E j \in Jobs : JobStep(j)

Next == Step \/ \E a \in Accessors : UnlockTest(a, "R")

Spec == Init /\ [][Next]_vars

\* The application goes on submitting and releases what it acquired, workers and the
\* threads inside StarPU run on: as every behaviour is finite, it is enough that
\* not everybody stops.
Fairness == WF_vars(Step)

FairSpec == Spec /\ Fairness

-----------------------------------------------------------------------------
TypeOK ==
    /\ last_sync_task \in [Handles -> Jobs \cup {None}]
    /\ accessors \in [Handles -> SUBSET (Jobs \X (1..MaxBuffers))]
    /\ last_submitted_mode \in [Handles -> AllModes \cup {"NONE"}]
    /\ post_sync_tasks \in [Handles -> Seq(Jobs)]
    /\ post_sync_tasks_cnt \in [Handles -> 0..UIntMax]
    /\ buf \in [Accessors -> 1..(MaxBuffers + 1)]
    /\ pc \in [Accessors -> {"start", "wait", "attempt", "run", "granted", "hold", "unlock", "done"}]
    /\ deps \in [Jobs -> SUBSET Jobs]
    /\ jpc \in [Jobs -> {"none", "submitted", "run", "release", "notify", "done"}]

Phase(a) == IF Using(a) THEN "in" ELSE IF pc[a] = "done" THEN "done" ELSE "out"

\* The inferred dependencies implement sequential consistency: conflicting accesses
\* of tasks and of the application to a handle take place one after the other, in the
\* order of their submission.
SC == INSTANCE SequentialConsistency
        WITH phase <- [a \in Accessors |-> IF kind[a] \in {"task", "acquire"} THEN Phase(a) ELSE "out"],
             Modes <- AllModes

Sequential == SC!Spec

\* A handle never refers to a task that has notified its successors, and may be
\* destroyed any time (_starpu_release_data_enforce_sequential_consistency).
NoStaleTask ==
    \A h \in Handles :
        /\ last_sync_task[h] = None \/ jpc[last_sync_task[h]] # "done"
        /\ \A s \in accessors[h] : jpc[s[1]] # "done"


\* Every task and every acquisition that is submitted has its turn, and ends; so do
\* the synchronisation tasks.
AllServed == <>[](/\ \A a \in Accessors : pc[a] = "done"
                  /\ \A j \in Jobs : jpc[j] \in {"none", "done"})
=============================================================================
