-------------------------- MODULE DataConcurrency --------------------------
(***************************************************************************)
(* Concurrent accesses to data handles (data_concurrency.c): requesters    *)
(* take the handles they need one after the other, in the order of         *)
(* _starpu_sort_task_handles, or queue up on the handle they cannot have   *)
(* yet; whoever releases a handle hands it on to the queue.  Around it,    *)
(* the reference counts of a handle as submission, fetch, release,         *)
(* termination, prefetch and lazy unregistration change them.              *)
(*                                                                         *)
(* Requesters are tasks, with any number of buffers, and users: calls of   *)
(* the application on one handle.  Each action is one critical section     *)
(* under header_lock.  At most one thread runs the unlock loop of a handle *)
(* (unlocking_reqs), so the loop is part of the state of the handle; what  *)
(* is nested in it (by) runs as steps of the requester it serves.          *)
(* Handles have no arbiter and are not in reduction mode.                  *)
(***************************************************************************)
EXTENDS Naturals, Sequences, FiniteSets

CONSTANTS Tasks, Users,  \* the requesters
          Handles,       \* handles, as numbers: the order of their addresses or paths
          UserHandles,   \* those that users name
          Root,          \* the root_handle of each handle
          Prio,          \* the priority of each task
          Modes,         \* access modes that occur
          MaxBuffers,    \* bound: buffers of a task
          Kinds          \* what users do: see KindsAssumption

Requesters == Tasks \cup Users
None == 0

\* A user acquires the handle on a memory node, prefetches it synchronously or not, or
\* unregisters it when it is free.
ASSUME KindsAssumption == Kinds \subseteq {"acquire", "sync", "async", "unregister"}
ASSUME HandlesAssumption ==
    Handles \subseteq Nat \ {0} /\ UserHandles \subseteq Handles /\ Root \in [Handles -> Nat]
ASSUME TasksAssumption == Tasks \cap Users = {} /\ Prio \in [Tasks -> Nat]

VARIABLES
    refcnt, busy, mode,  \* of a handle: refcnt, busy_count, current_mode
    list,                \* of a handle: req_list
    loop,                \* of a handle: the unlock loop
    lazy, destroyed,     \* of a handle: lazy_unregister, and whether it is freed
    kind,                \* of a requester: "task", or what the user does
    access,              \* of a requester: its ordered_buffers
    pos,                 \* of a requester: the buffer it is at
    by,                  \* of a requester: the handle whose loop is serving it
    pc                   \* of a requester

hvars == <<refcnt, busy, mode, list, loop, lazy, destroyed>>
rvars == <<kind, access, pos, by, pc>>
vars == <<hvars, rvars>>

-----------------------------------------------------------------------------
(* The order of acquisition.                                               *)

Writes(b) == b.mode \in {"W", "RW"}
Reads(b) == b.mode \in {"R", "RW"}

\* Mutant: reads go before writes.
Before_ReadsFirst(a, b) ==
    IF Root[a.handle] # Root[b.handle] THEN Root[a.handle] < Root[b.handle]
    ELSE \/ ~Writes(a) /\ Writes(b)
         \/ Writes(a) = Writes(b) /\ a.handle < b.handle

\* Mutant: the order of the buffers in the task.
Before_AsGiven(a, b) == FALSE

\* _starpu_compar_handles(a, b) < 0
Before(a, b) ==
    IF Root[a.handle] # Root[b.handle] THEN Root[a.handle] < Root[b.handle]
    ELSE \/ Writes(a) /\ ~Writes(b)
         \/ Writes(a) = Writes(b) /\ Reads(a) /\ ~Reads(b)
         \/ Writes(a) = Writes(b) /\ Reads(a) = Reads(b) /\ a.handle < b.handle

Buffers == [handle : Handles, mode : Modes]

\* What _starpu_job_set_ordered_buffers can make of the buffers of a task.
OrderedBuffers ==
    {s \in UNION {[1..n -> Buffers] : n \in 1..MaxBuffers} :
        \A i, j \in DOMAIN s : i < j => ~Before(s[j], s[i])}

\* The buffers that are acquired and released: the first one of each handle.
Distinct(s) == SelectSeq([i \in DOMAIN s |-> <<i, s[i]>>],
                         LAMBDA e : \A j \in 1..(e[1] - 1) : s[j].handle # e[2].handle)

Slots(q) == Len(Distinct(access[q]))
SlotHandle(q, i) == Distinct(access[q])[i][2].handle
\* STARPU_RW accesses are treated as STARPU_W.
SlotMode(q, i) == LET m == Distinct(access[q])[i][2].mode IN IF m = "RW" THEN "W" ELSE m
Uses(q) == {SlotHandle(q, i) : i \in 1..Slots(q)}
Count(q, h) == Cardinality({i \in DOMAIN access[q] : access[q][i].handle = h})

Init ==
    /\ refcnt = [h \in Handles |-> 0] /\ busy = [h \in Handles |-> 0]
    /\ mode = [h \in Handles |-> "NONE"]
    /\ list = [h \in Handles |-> <<>>]
    /\ loop = [h \in Handles |-> "off"]
    /\ lazy = [h \in Handles |-> FALSE] /\ destroyed = [h \in Handles |-> FALSE]
    /\ kind \in {k \in [Requesters -> Kinds \cup {"task"}] :
                    \A q \in Requesters : (k[q] = "task") = (q \in Tasks)}
    /\ access \in [Requesters -> OrderedBuffers]
    /\ \A u \in Users : Len(access[u]) = 1 /\ access[u][1].handle \in UserHandles
    /\ \A u \in Users : kind[u] \in {"sync", "async"} => access[u][1].mode = "R"
    /\ \A u \in Users : kind[u] = "unregister" => access[u][1].mode = "RW"
    /\ pos = [q \in Requesters |-> 1]
    /\ by = [q \in Requesters |-> None]
    /\ pc = [q \in Requesters |-> "start"]

-----------------------------------------------------------------------------
(* Acquisition.                                                            *)

PrioOf(q) == IF q \in Tasks THEN Prio[q] ELSE 0

\* The first one of the highest priority in a list of requesters.
Highest(l) ==
    CHOOSE i \in DOMAIN l :
        \A j \in DOMAIN l : \/ PrioOf(l[j]) < PrioOf(l[i])
                            \/ PrioOf(l[j]) = PrioOf(l[i]) /\ i <= j

\* The application names a handle no more once it asked for its unregistration, which
\* it does not do while another of its calls is under way.
MayName(q) ==
    \A u \in Users : u # q /\ Uses(u) \cap Uses(q) # {} =>
        /\ kind[u] = "unregister" => pc[u] = "start"
        /\ kind[q] = "unregister" => pc[u] # "attempt"

\* Mutant: no reference is taken.
Submit_NoReference(q) ==
    /\ pc[q] = "start"
    /\ MayName(q)
    /\ pc' = [pc EXCEPT ![q] = "attempt"]
    /\ UNCHANGED <<hvars, kind, access, pos, by>>

\* _starpu_submit_job takes a reference for each buffer of a task.
Submit(q) ==
    /\ pc[q] = "start"
    /\ MayName(q)
    /\ busy' = IF q \in Tasks THEN [h \in Handles |-> busy[h] + Count(q, h)] ELSE busy
    /\ pc' = [pc EXCEPT ![q] = "attempt"]
    /\ UNCHANGED <<refcnt, mode, list, loop, lazy, destroyed, kind, access, pos, by>>

\* Where a requester is once it was granted slot i.
After(q, i) == IF i = Slots(q) THEN "granted" ELSE "attempt"

\* The loop that serves q goes on when q returns to it.
Resume(q) == [h \in Handles |-> IF h = by[q] THEN "resume" ELSE loop[h]]

\* Whether a request for mode m can be granted at once.
MayHave(h, m) == refcnt[h] = 0 \/ (m # "W" /\ mode[h] = m)

\* _starpu_attempt_to_submit_data_request for the next buffer.  A task returns to
\* the loop that serves it when it has to queue or has all its buffers.
Attempt(q) ==
    LET h == SlotHandle(q, pos[q])
        m == SlotMode(q, pos[q])
    IN
    /\ pc[q] = "attempt"
    /\ busy' = [busy EXCEPT ![h] = @ + 1]
    /\ \/ /\ MayHave(h, m)
          /\ refcnt' = [refcnt EXCEPT ![h] = @ + 1]
          /\ mode' = [mode EXCEPT ![h] = m]
          /\ pc' = [pc EXCEPT ![q] = After(q, pos[q])]
          /\ pos' = [pos EXCEPT ![q] = IF pos[q] = Slots(q) THEN 1 ELSE pos[q] + 1]
          /\ IF pos[q] = Slots(q)
             THEN loop' = Resume(q) /\ by' = [by EXCEPT ![q] = None]
             ELSE UNCHANGED <<loop, by>>
          /\ UNCHANGED list
       \/ /\ ~MayHave(h, m)
          /\ list' = [list EXCEPT ![h] = Append(@, q)]
          /\ pc' = [pc EXCEPT ![q] = "queued"]
          /\ loop' = Resume(q) /\ by' = [by EXCEPT ![q] = None]
          /\ UNCHANGED <<refcnt, mode, pos>>
    /\ UNCHANGED <<lazy, destroyed, kind, access>>

-----------------------------------------------------------------------------
(* Release.                                                                *)

RemoveAt(l, i) == SubSeq(l, 1, i - 1) \o SubSeq(l, i + 1, Len(l))

\* may_unlock_data_req_list_head: the place of the request that can go on, or 0.
MayUnlock(h, ref, m) ==
    IF list[h] = <<>> THEN 0
    ELSE LET i == Highest(list[h])
             r == list[h][i]
         IN IF ref = 0 \/ (m # "W" /\ SlotMode(r, pos[r]) = m) THEN i ELSE 0

\* One turn of the loop in _starpu_notify_data_dependencies, with refcnt ref,
\* busy_count b and current mode m: grant the request, which goes on with its
\* next buffer, is pushed to the scheduler, or runs its callback.  Apart from that,
\* the requesters are at pc1 and pos1.
LoopTurn(h, ref, b, m, pc1, pos1) ==
    LET i == MayUnlock(h, ref, m)
        r == list[h][i]
        last == pos[r] = Slots(r)
        served == r \in Users \/ ~last
    IN
    \/ /\ i = 0
       /\ refcnt' = [refcnt EXCEPT ![h] = ref]
       /\ busy' = [busy EXCEPT ![h] = b]
       /\ mode' = [mode EXCEPT ![h] = m]
       /\ loop' = [loop EXCEPT ![h] = "off"]
       /\ pc' = pc1 /\ pos' = pos1
       /\ UNCHANGED <<list, by>>
    \/ /\ i # 0
       /\ refcnt' = [refcnt EXCEPT ![h] = ref + 1]
       /\ busy' = [busy EXCEPT ![h] = b + 1]
       /\ mode' = [mode EXCEPT ![h] = SlotMode(r, pos[r])]
       /\ list' = [list EXCEPT ![h] = RemoveAt(@, i)]
       /\ loop' = [loop EXCEPT ![h] = IF served THEN "serving" ELSE "resume"]
       /\ by' = [by EXCEPT ![r] = IF served THEN h ELSE None]
       /\ pc' = [pc1 EXCEPT ![r] = After(r, pos[r])]
       /\ pos' = [pos1 EXCEPT ![r] = IF last THEN 1 ELSE pos[r] + 1]

\* Mutant: the queue is left alone.
Unlock_NoLoop(h, ref, b, m, pc1, pos1) ==
    /\ refcnt' = [refcnt EXCEPT ![h] = ref] /\ busy' = [busy EXCEPT ![h] = b]
    /\ mode' = [mode EXCEPT ![h] = m]
    /\ pc' = pc1 /\ pos' = pos1
    /\ UNCHANGED <<list, loop, by>>

\* The end of _starpu_notify_data_dependencies: if a loop is running (its caller or
\* another thread), that loop will do the work.
Unlock(h, ref, b, m, pc1, pos1) ==
    \/ loop[h] = "off" /\ LoopTurn(h, ref, b, m, pc1, pos1)
    \/ /\ loop[h] # "off"
       /\ refcnt' = [refcnt EXCEPT ![h] = ref] /\ busy' = [busy EXCEPT ![h] = b]
       /\ mode' = [mode EXCEPT ![h] = m]
       /\ pc' = pc1 /\ pos' = pos1
       /\ UNCHANGED <<list, loop, by>>

\* The same when the counts have come down to ref and b: first,
\* _starpu_data_check_not_busy may free the handle.
Notify(h, ref, b, pc1, pos1) ==
    \/ /\ b = 0 /\ lazy[h]
       /\ refcnt' = [refcnt EXCEPT ![h] = ref] /\ busy' = [busy EXCEPT ![h] = 0]
       /\ destroyed' = [destroyed EXCEPT ![h] = TRUE]
       /\ lazy' = [lazy EXCEPT ![h] = FALSE]
       /\ pc' = pc1 /\ pos' = pos1
       /\ UNCHANGED <<mode, list, loop, by>>
    \/ /\ ~(b = 0 /\ lazy[h])
       /\ Unlock(h, ref, b, mode[h], pc1, pos1)
       /\ UNCHANGED <<lazy, destroyed>>

\* Mutant: busy_count is not tested in the loop.
LoopResume_NoCheck(h) ==
    /\ loop[h] = "resume"
    /\ LoopTurn(h, refcnt[h], busy[h] - 1, mode[h], pc, pos)
    /\ UNCHANGED <<lazy, destroyed, kind, access>>

\* The loop again, after it served a requester: the reference that the queued
\* request had is dropped.
LoopResume(h) ==
    /\ loop[h] = "resume"
    /\ \/ /\ busy[h] = 1 /\ lazy[h]
          /\ busy' = [busy EXCEPT ![h] = 0]
          /\ destroyed' = [destroyed EXCEPT ![h] = TRUE]
          /\ lazy' = [lazy EXCEPT ![h] = FALSE]
          /\ loop' = [loop EXCEPT ![h] = "off"]
          /\ UNCHANGED <<refcnt, mode, list, by, pc, pos>>
       \/ /\ ~(busy[h] = 1 /\ lazy[h])
          /\ LoopTurn(h, refcnt[h], busy[h] - 1, mode[h], pc, pos)
          /\ UNCHANGED <<lazy, destroyed>>
    /\ UNCHANGED <<kind, access>>

-----------------------------------------------------------------------------
(* Tasks.                                                                  *)

\* _starpu_fetch_task_input takes a reference on each replicate and handle.
Fetch(t) ==
    /\ t \in Tasks /\ pc[t] = "granted"
    /\ busy' = [h \in Handles |-> IF h \in Uses(t) THEN busy[h] + 1 ELSE busy[h]]
    /\ pc' = [pc EXCEPT ![t] = "run"]
    /\ UNCHANGED <<refcnt, mode, list, loop, lazy, destroyed, kind, access, pos, by>>

\* __starpu_push_task_output for the next handle: it keeps a reference until
\* termination, drops that of the fetch and that of the access.
PushOutput(t) ==
    LET h == SlotHandle(t, pos[t])
        last == pos[t] = Slots(t)
    IN
    /\ t \in Tasks /\ pc[t] = "run"
    /\ Notify(h, refcnt[h] - 1, busy[h] - 1,
              [pc EXCEPT ![t] = IF last THEN "terminate" ELSE "run"],
              [pos EXCEPT ![t] = IF last THEN 1 ELSE pos[t] + 1])
    /\ UNCHANGED <<kind, access>>


\* _starpu_handle_job_termination drops the references of the submission, one per
\* buffer, and _starpu_release_task_enforce_sequential_consistency the one that
\* __starpu_push_task_output kept, one per handle.
Terminate(t) ==
    LET left == [h \in Handles |->
                    busy[h] - (IF h \in Uses(t) THEN Count(t, h) + 1 ELSE 0)]
    IN
    /\ t \in Tasks /\ pc[t] = "terminate"
    /\ busy' = left
    /\ destroyed' = [h \in Handles |-> destroyed[h] \/ (h \in Uses(t) /\ lazy[h] /\ left[h] = 0)]
    /\ lazy' = [h \in Handles |-> lazy[h] /\ ~(h \in Uses(t) /\ left[h] = 0)]
    /\ pc' = [pc EXCEPT ![t] = "done"]
    /\ UNCHANGED <<refcnt, mode, list, loop, kind, access, pos, by>>

-----------------------------------------------------------------------------
(* Users.                                                                  *)

UserHandle(u) == SlotHandle(u, 1)

\* _starpu_data_acquire_launch_fetch: takes a reference unless detached.
UserFetch(u) ==
    /\ pc[u] = "granted"
    /\ busy' = IF kind[u] = "async" THEN busy ELSE [busy EXCEPT ![UserHandle(u)] = @ + 1]
    /\ pc' = [pc EXCEPT ![u] = IF kind[u] \in {"sync", "async"} THEN "fetched" ELSE "hold"]
    /\ UNCHANGED <<refcnt, mode, list, loop, lazy, destroyed, kind, access, pos, by>>

\* The callback of a user that had to queue returns to the loop.  The one of a
\* prefetch releases the handle itself; the others may do so or leave it for later.
CallbackReturn(u) ==
    /\ by[u] # None
    /\ pc[u] \in (IF kind[u] \in {"sync", "async"} THEN {"done"} ELSE {"hold", "release", "done"})
    /\ loop' = Resume(u) /\ by' = [by EXCEPT ![u] = None]
    /\ UNCHANGED <<refcnt, busy, mode, list, lazy, destroyed, kind, access, pos, pc>>

\* A prefetch ends: __starpu_prefetch_data_on_node_with_mode if it was granted at
\* once, otherwise _prefetch_data_on_node, in the callback.
PrefetchEnd(u) ==
    LET h == UserHandle(u)
        fetched == IF kind[u] = "sync" /\ by[u] = None THEN 1 ELSE 0
    IN
    /\ pc[u] = "fetched"
    /\ Notify(h, refcnt[h] - 1, busy[h] - fetched - 1, [pc EXCEPT ![u] = "done"], pos)
    /\ UNCHANGED <<kind, access>>

\* starpu_data_release_to_on_node down to STARPU_R; down to the current mode it
\* changes nothing here.
ReleaseTo(u, m) ==
    LET h == UserHandle(u) IN
    /\ pc[u] = "hold" /\ kind[u] = "acquire"
    /\ m = "R" /\ mode[h] = "W"
    /\ Unlock(h, refcnt[h], busy[h], m, pc, pos)
    /\ access' = [access EXCEPT ![u][1].mode = m]
    /\ UNCHANGED <<lazy, destroyed, kind>>

\* _starpu_data_unregister_submit_cb marks the handle before it releases it.
MarkLazy(u) ==
    /\ pc[u] = "hold" /\ kind[u] = "unregister"
    /\ lazy' = [lazy EXCEPT ![UserHandle(u)] = TRUE]
    /\ pc' = [pc EXCEPT ![u] = "release"]
    /\ UNCHANGED <<refcnt, busy, mode, list, loop, destroyed, kind, access, pos, by>>

\* starpu_data_release_on_node
Release(u) ==
    LET h == UserHandle(u) IN
    /\ pc[u] = (IF kind[u] = "unregister" THEN "release" ELSE "hold")
    /\ Notify(h, refcnt[h] - 1, busy[h] - 2, [pc EXCEPT ![u] = "done"], pos)
    /\ UNCHANGED <<kind, access>>

-----------------------------------------------------------------------------
TaskStep(t) == Attempt(t) \/ Fetch(t) \/ PushOutput(t) \/ Terminate(t)

UserStep(u) ==
    \/ Attempt(u) \/ UserFetch(u) \/ PrefetchEnd(u) \/ MarkLazy(u) \/ Release(u)

\* What goes on by itself once it is submitted.
Step ==
    \/ \E t \in Tasks : TaskStep(t)
    \/ \E u \in Users : UserStep(u) \/ CallbackReturn(u)
    \/ \E h \in Handles : LoopResume(h)

Next ==
    \/ Step
    \/ \E q \in Requesters : Submit(q)
    \/ \E u \in Users : ReleaseTo(u, "R")

Spec == Init /\ [][Next]_vars

\* Some thread runs on, and the application releases what it acquired; each
\* requester has only so many steps to take.
Fairness == WF_vars(Step)

FairSpec == Spec /\ Fairness

-----------------------------------------------------------------------------
TypeOK ==
    /\ refcnt \in [Handles -> Nat] /\ busy \in [Handles -> Nat]
    /\ mode \in [Handles -> {"NONE", "R", "W", "SCRATCH"}]
    /\ list \in [Handles -> Seq(Requesters)]
    /\ loop \in [Handles -> {"off", "serving", "resume"}]
    /\ lazy \in [Handles -> BOOLEAN] /\ destroyed \in [Handles -> BOOLEAN]
    /\ kind \in [Requesters -> Kinds \cup {"task"}]
    /\ access \in [Requesters -> Seq(Buffers)]
    /\ pos \in [Requesters -> 1..MaxBuffers]
    /\ by \in [Requesters -> Handles \cup {None}]
    /\ pc \in [Requesters -> {"start", "attempt", "queued", "granted", "run", "fetched",
                              "hold", "release", "terminate", "done"}]

\* The handles whose access q was granted and has not given back.
Holds(q) ==
    {SlotHandle(q, i) : i \in
        IF pc[q] \in {"attempt", "queued"} THEN 1..(pos[q] - 1)
        ELSE IF pc[q] \in {"granted", "run", "fetched", "hold", "release"} THEN pos[q]..Slots(q)
        ELSE {}}

\* The buffers that q may be reading or writing right now.
InUse(q) ==
    IF pc[q] \in {"run", "hold"}
    THEN {access[q][i] : i \in {j \in DOMAIN access[q] : access[q][j].handle \in Holds(q)}}
    ELSE {}

\* While a task or the application writes a handle nobody else uses it, and it is
\* read by several only in the same mode (the rules at the top of
\* data_concurrency.c), whichever way the accesses were granted.
ExclusiveWrite ==
    \A q1, q2 \in Requesters : q1 # q2 =>
        \A a \in InUse(q1), b \in InUse(q2) :
            a.handle = b.handle => ~Writes(a) /\ ~Writes(b)


\* No request that could be granted is left in the queue of a handle whose unlock
\* loop has ended (unlocking_reqs in _starpu_notify_data_dependencies).
NoForgottenRequest ==
    \A h \in Handles : loop[h] = "off" => MayUnlock(h, refcnt[h], mode[h]) = 0

\* Requesters never wait for each other in a circle, thanks to the order of
\* _starpu_sort_task_handles.
NoCircularWait ==
    ~ \E S \in SUBSET Requesters \ {{}} :
        \A q \in S : /\ pc[q] = "queued"
                     /\ \E r \in S : SlotHandle(q, pos[q]) \in Holds(r)

\* A handle is freed by _starpu_data_check_not_busy only when no task that was
\* submitted with it, no request and no loop needs it any more.
NoUseAfterFree ==
    \A h \in Handles : destroyed[h] =>
        /\ list[h] = <<>> /\ loop[h] = "off"
        /\ \A q \in Requesters : h \in Uses(q) => pc[q] \in {"start", "done"}

\* Once nobody uses a handle its busy_count is back to 0, or
\* starpu_data_unregister would wait for ever.
IdleNotBusy ==
    (\A q \in Requesters : pc[q] = "done" /\ by[q] = None) =>
        \A h \in Handles : loop[h] = "off" => busy[h] = 0

Idle(q) == pc[q] \in {"start", "done"} /\ by[q] = None

\* Every task and every request that was submitted is served in the end, every
\* unlock loop ends, and a handle marked by starpu_data_unregister_submit is freed
\* (_starpu_notify_data_dependencies, _starpu_data_check_not_busy).
AllServed == <>[](/\ \A q \in Requesters : Idle(q)
                  /\ \A h \in Handles : loop[h] = "off" /\ ~lazy[h])
=============================================================================
