------------------------------- MODULE Workers -------------------------------
(***************************************************************************)
(* The worker threads and the threads that deal with them: how a worker    *)
(* looks for a task, goes to sleep and is woken up, and the sched_mutex /  *)
(* sched_cond protocol by which others push tasks to it, block it during   *)
(* parallel code, and change the contexts it belongs to.  The scheduling   *)
(* policy is the eager one: a central FIFO under policy_mutex.             *)
(*                                                                         *)
(* Sources: core/workers.h (state_* protocol), core/workers.c (wake-ups,   *)
(* observation), drivers/driver_common/driver_common.c (get_worker_task),  *)
(* core/sched_ctx.c (parallel code, context changes), core/jobs.c (local   *)
(* tasks), sched_policies/eager_central_policy.c.                          *)
(*                                                                         *)
(* One action is one critical section of a sched_mutex, from the lock (or  *)
(* the return of a condition wait) to the unlock (or the next wait).       *)
(* Waiters are explicit: a thread in waiters[w] runs again only after a    *)
(* broadcast on the sched_cond of w, so a missing broadcast is a hang.     *)
(***************************************************************************)
EXTENDS Integers, Sequences, FiniteSets, FiniteSetsExt, SequencesExt

CONSTANTS
  NWorkers,    \* workers are 1..NWorkers, iterated in this order
  Apps,        \* application threads
  Tasks, NoTask,
  Free,        \* owner of a mutex nobody holds
  Scripts,     \* set of functions [Apps -> Seq(Op)]: what the threads call
  Where,       \* [Tasks -> SUBSET Worker]: who can execute the task
  On,          \* [Tasks -> 0..NWorkers]: execute_on_a_specific_worker, 0: no
  WorkerOrder, \* [Tasks -> Nat]: workerorder, 0: none
  Releases     \* [Tasks -> Seq(Tasks)]: pushed when the task terminates

Worker == 1..NWorkers
Thread == Worker \cup Apps

\* Calls of a thread.  "push" is _starpu_push_task_to_workers, "block" and
\* "unblock" the two halves of starpu_sched_ctx_exec_parallel_code, "notify"
\* and "done" those of a context change, "wait" starpu_task_wait_for_all and
\* "kill" _starpu_kill_all_workers.
Op == [op : {"push"}, task : Tasks]
        \cup [op : {"block", "unblock", "notify", "done"}, ws : Seq(Worker)]
        \cup [op : {"wait"}, tasks : SUBSET Tasks] \cup [op : {"kill"}]

ASSUME ConstantsAssumption ==
  /\ NWorkers \in Nat \ {0}
  /\ Where \in [Tasks -> SUBSET Worker]
  /\ On \in [Tasks -> 0..NWorkers]
  /\ WorkerOrder \in [Tasks -> Nat]
  /\ DOMAIN Releases = Tasks

VARIABLES
  wk,              \* [Worker -> state_* flags and status of the worker]
  waiters,         \* [Worker -> threads waiting on its sched_cond]
  mutex,           \* [Worker -> holder of its sched_mutex between two steps]
  policy_mutex,
  fifo,            \* the central queue of the policy
  local_tasks,     \* [Worker -> Seq(Tasks)]
  ring,            \* [Worker -> local_ordered_tasks ring]
  parallel_blocks, \* _starpu_worker_parallel_blocks
  running,
  pc,              \* [Thread -> where it is]
  agenda,          \* [Thread -> calls it has still to make]
  todo,            \* [Thread -> workers still to visit in the current loop]
  dowake,          \* [Thread -> workers worth waking for the pushed task]
  task,            \* [Thread -> task in hand]
  done             \* tasks that have been executed

vars == <<wk, waiters, mutex, policy_mutex, fifo, local_tasks, ring,
          parallel_blocks, running, pc, agenda, todo, dowake, task, done>>

queues  == <<fifo, local_tasks, ring>>
private == <<agenda, todo, dowake, task>>

InitialWorker ==
  [sleeping |-> FALSE, scheduling |-> FALSE, keep_awake |-> FALSE,
   sched_op |-> FALSE, relax |-> 1, observed |-> FALSE,
   block_req |-> FALSE, block_ack |-> FALSE,
   unblock_req |-> FALSE, unblock_ack |-> FALSE,
   blocked |-> FALSE, ref |-> 0, notice |-> FALSE]

Init ==
  /\ wk = [w \in Worker |-> InitialWorker]
  /\ waiters = [w \in Worker |-> {}]
  /\ mutex = [w \in Worker |-> Free]
  /\ policy_mutex = Free
  /\ fifo = <<>>
  /\ local_tasks = [w \in Worker |-> <<>>]
  /\ ring = [w \in Worker |-> [slots |-> <<>>, cur |-> 0, order |-> 1]]
  /\ parallel_blocks = FALSE
  /\ running = TRUE
  /\ pc = [t \in Thread |-> "ready"]
  /\ \E s \in Scripts :
       agenda = [t \in Thread |-> IF t \in Apps THEN s[t] ELSE <<>>]
  /\ todo = [t \in Thread |-> <<>>]
  /\ dowake = [t \in Thread |-> {}]
  /\ task = [t \in Thread |-> NoTask]
  /\ done = {}

-----------------------------------------------------------------------------
(* sched_mutex and sched_cond *)

\* Thread t can run, and can take the sched_mutex of w.
CanLock(t, w) == /\ \A v \in Worker : t \notin waiters[v]
                 /\ mutex[w] = Free

Broadcast(w) == waiters' = [waiters EXCEPT ![w] = {}]
Wait(t, w) == waiters' = [waiters EXCEPT ![w] = @ \cup {t}]
BroadcastThenWait(t, w) == waiters' = [waiters EXCEPT ![w] = {t}]

Set(w, r) == wk' = [wk EXCEPT ![w] = r]
Goto(t, l) == pc' = [pc EXCEPT ![t] = l]

\* The predicate a woken thread tests is still false: it waits again.
WaitAgain(t, w) ==
  /\ Wait(t, w)
  /\ UNCHANGED <<wk, mutex, policy_mutex, queues, parallel_blocks, running,
                 pc, private, done>>

\* The thread is done with the first worker of its loop.
NextWorker(t) == todo' = [todo EXCEPT ![t] = Tail(@)]

-----------------------------------------------------------------------------
(* The worker: blocking requests, scheduling operation, sleep *)

\* w marks the operation and, still under its mutex, its STATUS_SCHEDULING.
SchedOpEntered(r) ==
  [r EXCEPT !.sched_op = TRUE, !.observed = FALSE, !.relax = 0, !.scheduling = TRUE]


\* _starpu_worker_enter_sched_op, with its nested
\* _starpu_worker_process_block_in_parallel_requests, up to the next wait.
\* r is the state of w so far in this critical section, others the waiters
\* left by it, seen the value of state_blocked_in_parallel_observed when w
\* entered the function (the path is chosen once).
EnterSchedOp(w, r, others, seen) ==
  \/ /\ ~seen /\ r.block_req
     /\ Set(w, [r EXCEPT !.blocked = TRUE, !.block_ack = TRUE])
     /\ waiters' = [waiters EXCEPT ![w] = {w}]
     /\ Goto(w, "blocked")
  \/ /\ seen \/ ~r.block_req
     /\ r.notice
     /\ Set(w, r)
     /\ waiters' = [waiters EXCEPT ![w] = others \cup {w}]
     /\ Goto(w, IF seen THEN "ctxwait_observed" ELSE "ctxwait")
  \/ /\ seen \/ ~r.block_req
     /\ ~r.notice
     /\ Set(w, SchedOpEntered(r))
     /\ waiters' = [waiters EXCEPT ![w] = others]
     /\ Goto(w, "pop")

EnterUnchanged ==
  UNCHANGED <<mutex, policy_mutex, queues, parallel_blocks, running, private, done>>

\* One turn of the driver loop calls _starpu_get_worker_task.
StartTurn(w) ==
  /\ pc[w] = "ready" /\ agenda[w] = <<>> /\ running
  /\ CanLock(w, w)
  /\ EnterSchedOp(w, wk[w], waiters[w], wk[w].observed)
  /\ EnterUnchanged

\* state_changing_ctx_notice is tested again after a wake-up.
CtxWaited(w) ==
  /\ pc[w] \in {"ctxwait", "ctxwait_observed"}
  /\ CanLock(w, w)
  /\ ~wk[w].notice \/ (pc[w] = "ctxwait" /\ wk[w].block_req)
  /\ EnterSchedOp(w, wk[w], waiters[w], pc[w] = "ctxwait_observed")
  /\ EnterUnchanged

\* The unblocking request ends the block; w notifies and goes on entering.
Unblocked(w) ==
  /\ pc[w] = "blocked"
  /\ CanLock(w, w)
  /\ wk[w].unblock_req
  /\ EnterSchedOp(w, [wk[w] EXCEPT !.blocked = FALSE, !.unblock_ack = TRUE], {}, FALSE)
  /\ EnterUnchanged

\* Mutant: the first ordered task that has arrived.
RingHead_FirstArrived(q) ==
  LET here == {i \in DOMAIN q.slots : q.slots[i] # NoTask}
  IN IF here = {} THEN NoTask ELSE q.slots[Min(here)]

\* local_ordered_tasks: the task of the next order, if it has arrived.
RingHead(q) == IF q.slots = <<>> THEN NoTask ELSE q.slots[q.cur + 1]
RingPop(q) == [slots |-> [q.slots EXCEPT ![q.cur + 1] = NoTask],
               cur |-> (q.cur + 1) % Len(q.slots), order |-> q.order + 1]

\* _starpu_pop_local_task, then the unprotected look at the central queue.
\* All this runs without the mutex: state_relax_refcnt is 0.
PopLocalTask(w) ==
  /\ pc[w] = "pop"
  /\ \/ /\ RingHead(ring[w]) # NoTask
        /\ task' = [task EXCEPT ![w] = RingHead(ring[w])]
        /\ ring' = [ring EXCEPT ![w] = RingPop(@)]
        /\ UNCHANGED local_tasks
     \/ /\ RingHead(ring[w]) = NoTask
        /\ local_tasks[w] # <<>>
        /\ task' = [task EXCEPT ![w] = Head(local_tasks[w])]
        /\ local_tasks' = [local_tasks EXCEPT ![w] = Tail(@)]
        /\ UNCHANGED ring
     \/ /\ RingHead(ring[w]) = NoTask /\ local_tasks[w] = <<>>
        /\ fifo = <<>>
        /\ UNCHANGED <<task, ring, local_tasks>>
  /\ Goto(w, "popped")
  /\ UNCHANGED <<wk, waiters, mutex, policy_mutex, fifo, parallel_blocks,
                 running, agenda, todo, dowake, done>>

\* pop_task_eager_policy, first part: _starpu_worker_relax_on.
RelaxOn(w) ==
  /\ pc[w] = "pop"
  /\ RingHead(ring[w]) = NoTask /\ local_tasks[w] = <<>> /\ fifo # <<>>
  /\ mutex[w] = Free
  /\ Set(w, [wk[w] EXCEPT !.relax = @ + 1])
  /\ Broadcast(w)
  /\ Goto(w, "poplock")
  /\ UNCHANGED <<mutex, policy_mutex, queues, parallel_blocks, running, private, done>>

\* Under policy_mutex: _starpu_worker_relax_off and the first task of the
\* FIFO that w can execute.  Once parallel code has been used, asking whether
\* w can execute a task observes w itself.
PopTaskEager(w) ==
  /\ pc[w] = "poplock"
  /\ policy_mutex = Free /\ mutex[w] = Free
  /\ LET mine == {i \in DOMAIN fifo : w \in Where[fifo[i]]}
     IN /\ task' = [task EXCEPT ![w] = IF mine = {} THEN NoTask ELSE fifo[Min(mine)]]
        /\ fifo' = IF mine = {} THEN fifo ELSE RemoveAt(fifo, Min(mine))
  /\ Set(w, [wk[w] EXCEPT !.relax = @ - 1,
                          !.observed = @ \/ (parallel_blocks /\ fifo # <<>>)])
  /\ Goto(w, "popped")
  /\ UNCHANGED <<waiters, mutex, policy_mutex, local_tasks, ring,
                 parallel_blocks, running, agenda, todo, dowake, done>>

\* _starpu_worker_can_block and _starpu_sched_ctx_last_worker_awake.
CanBlock(r) == ~r.notice /\ running
LastWorkerAwake(w) == \A v \in Worker \ {w} : wk[v].sleeping
MaySleep(w, r) == /\ CanBlock(r) /\ ~r.block_req /\ ~r.unblock_req
                  /\ ~LastWorkerAwake(w)

\* _starpu_worker_leave_sched_op
LeaveSchedOp(r) == [r EXCEPT !.relax = 1, !.sched_op = FALSE]

\* Back from the scheduler, with the mutex held until the end or the sleep.
GotTask(w) ==
  /\ pc[w] = "popped"
  /\ mutex[w] = Free
  /\ task[w] # NoTask
  /\ Set(w, [LeaveSchedOp(wk[w]) EXCEPT !.keep_awake = FALSE,
                                        !.scheduling = FALSE, !.sleeping = FALSE])
  /\ Broadcast(w)
  /\ Goto(w, "execute")
  /\ UNCHANGED <<mutex, policy_mutex, queues, parallel_blocks, running, private, done>>

NoTaskKeptAwake(w) ==
  /\ pc[w] = "popped"
  /\ mutex[w] = Free
  /\ task[w] = NoTask /\ wk[w].keep_awake
  /\ Set(w, [LeaveSchedOp(wk[w]) EXCEPT !.keep_awake = FALSE, !.sleeping = TRUE])
  /\ Broadcast(w)
  /\ Goto(w, "ready")
  /\ UNCHANGED <<mutex, policy_mutex, queues, parallel_blocks, running, private, done>>

NoTaskSleep(w) ==
  /\ pc[w] = "popped"
  /\ mutex[w] = Free
  /\ task[w] = NoTask /\ ~wk[w].keep_awake
  /\ LET r == [LeaveSchedOp(wk[w]) EXCEPT !.sleeping = TRUE]
     IN \/ /\ MaySleep(w, r)
           /\ Set(w, r)
           /\ BroadcastThenWait(w, w)
           /\ Goto(w, "asleep")
        \/ /\ ~MaySleep(w, r)
           /\ Set(w, [r EXCEPT !.scheduling = FALSE])
           /\ Broadcast(w)
           /\ Goto(w, "ready")
  /\ UNCHANGED <<mutex, policy_mutex, queues, parallel_blocks, running, private, done>>

\* The sleeper was woken up for a reason it cares for.
WakeUp(w) ==
  /\ pc[w] = "asleep"
  /\ CanLock(w, w)
  /\ wk[w].keep_awake \/ ~MaySleep(w, wk[w])
  /\ Set(w, [wk[w] EXCEPT !.keep_awake = FALSE, !.scheduling = FALSE])
  /\ Goto(w, "ready")
  /\ UNCHANGED <<waiters, mutex, policy_mutex, queues, parallel_blocks,
                 running, private, done>>

\* The task runs and terminates; what it releases is pushed by the worker.
ExecuteTask(w) ==
  /\ pc[w] = "execute"
  /\ done' = done \cup {task[w]}
  /\ agenda' = [agenda EXCEPT ![w] =
                  [i \in DOMAIN Releases[task[w]] |->
                     [op |-> "push", task |-> Releases[task[w]][i]]]]
  /\ task' = [task EXCEPT ![w] = NoTask]
  /\ Goto(w, "ready")
  /\ UNCHANGED <<wk, waiters, mutex, policy_mutex, queues, parallel_blocks,
                 running, todo, dowake>>

DriverExit(w) ==
  /\ pc[w] = "ready" /\ agenda[w] = <<>> /\ ~running
  /\ Goto(w, "end")
  /\ UNCHANGED <<wk, waiters, mutex, policy_mutex, queues, parallel_blocks,
                 running, private, done>>

-----------------------------------------------------------------------------
(* Pushing a task *)

\* Mutant: a worker that is looking for a task is not told to stay awake.
Wakeup_SleepingOnly(r) == IF r.sleeping THEN [r EXCEPT !.keep_awake = TRUE] ELSE r

\* starpu_wakeup_worker_locked: what it does to the worker, whether it
\* broadcasts, and whether it returns 1.
Wakeup(r) == IF r.sleeping \/ r.scheduling THEN [r EXCEPT !.keep_awake = TRUE] ELSE r
WakeupBroadcasts(r) == r.sleeping
WakeupReturns1(r) == r.sleeping /\ ~r.keep_awake

\* The thread takes its next call.  Pushing to a specific worker and pushing
\* through the policy part here.
StartPush(t) ==
  /\ pc[t] = "ready" /\ agenda[t] # <<>>
  /\ Head(agenda[t]).op = "push"
  /\ task' = [task EXCEPT ![t] = Head(agenda[t]).task]
  /\ agenda' = [agenda EXCEPT ![t] = Tail(@)]
  /\ Goto(t, IF On[Head(agenda[t]).task] = 0 THEN "push" ELSE "lock")
  /\ UNCHANGED <<wk, waiters, mutex, policy_mutex, queues, parallel_blocks,
                 running, todo, dowake, done>>

\* _starpu_worker_lock: the mutex of w is kept only while w is relaxed.
WorkerLock(t) ==
  LET w == On[task[t]]
  IN /\ pc[t] = "lock"
     /\ CanLock(t, w)
     /\ w = t \/ wk[w].relax # 0
     /\ mutex' = [mutex EXCEPT ![w] = t]
     /\ Goto(t, "locked")
     /\ UNCHANGED <<wk, waiters, policy_mutex, queues, parallel_blocks,
                    running, private, done>>

\* The ring grows by doubling until the order fits, in order from its head.
RingGrow(q, needed) ==
  LET size  == Len(q.slots)
      alloc == Min({a \in {Max({size, 1}) * 2^i : i \in 0..needed} : a >= needed})
  IN IF size >= needed THEN q
     ELSE [q EXCEPT !.slots = [i \in 1..alloc |->
                                 IF i <= size THEN q.slots[((q.cur + i - 1) % size) + 1]
                                 ELSE NoTask],
                    !.cur = 0]

RingPut(q, k) ==
  [q EXCEPT !.slots[((q.cur + WorkerOrder[k] - q.order) % Len(q.slots)) + 1] = k]

\* _starpu_push_local_task, starpu_wake_worker_locked and _starpu_worker_unlock.
PushLocalTask(t) ==
  LET k == task[t]
      w == On[k]
  IN /\ pc[t] = "locked"
     /\ \/ /\ WorkerOrder[k] # 0
           /\ ring' = [ring EXCEPT ![w] =
                         RingPut(RingGrow(@, WorkerOrder[k] - @.order + 1), k)]
           /\ UNCHANGED local_tasks
        \/ /\ WorkerOrder[k] = 0
           /\ local_tasks' = [local_tasks EXCEPT ![w] = Append(@, k)]
           /\ UNCHANGED ring
     /\ Set(w, Wakeup(wk[w]))
     /\ waiters' = IF WakeupBroadcasts(wk[w]) THEN [waiters EXCEPT ![w] = {}] ELSE waiters
     /\ mutex' = [mutex EXCEPT ![w] = Free]
     /\ task' = [task EXCEPT ![t] = NoTask]
     /\ Goto(t, "ready")
     /\ UNCHANGED <<policy_mutex, fifo, parallel_blocks, running, agenda,
                    todo, dowake, done>>

AllWorkers == [w \in Worker |-> w]

\* push_task_eager_policy takes policy_mutex and appends the task.
PushTaskEager(t) ==
  /\ pc[t] = "push"
  /\ policy_mutex = Free
  /\ policy_mutex' = t
  /\ fifo' = Append(fifo, task[t])
  /\ todo' = [todo EXCEPT ![t] = AllWorkers]
  /\ dowake' = [dowake EXCEPT ![t] = {}]
  /\ Goto(t, "check")
  /\ UNCHANGED <<wk, waiters, mutex, local_tasks, ring, parallel_blocks,
                 running, agenda, task, done>>

\* The observer waits, policy_mutex in hand, for a safe window.
SafeWindow(t, w) ==
  t = w \/ (wk[w].relax # 0 /\ ~wk[w].block_req /\ ~wk[w].unblock_req)

\* starpu_worker_can_execute_task_first_impl, which asks first
\* starpu_worker_is_blocked_in_parallel.
CanExecuteTask(t) ==
  /\ pc[t] = "check" /\ todo[t] # <<>>
  /\ LET w == Head(todo[t])
     IN /\ \/ /\ ~parallel_blocks
              /\ UNCHANGED wk
           \/ /\ parallel_blocks
              /\ CanLock(t, w)
              /\ SafeWindow(t, w)
              /\ Set(w, [wk[w] EXCEPT !.observed = TRUE])
        /\ dowake' = [dowake EXCEPT ![t] =
                        IF w \in Where[task[t]] /\ ~(parallel_blocks /\ wk[w].blocked)
                        THEN @ \cup {w} ELSE @]
  /\ NextWorker(t)
  /\ UNCHANGED <<waiters, mutex, policy_mutex, queues, parallel_blocks,
                 running, pc, agenda, task, done>>

PushUnlock(t) ==
  /\ pc[t] = "check" /\ todo[t] = <<>>
  /\ policy_mutex' = Free
  /\ todo' = [todo EXCEPT ![t] = SelectSeq(AllWorkers, LAMBDA w : w \in dowake[t])]
  /\ dowake' = [dowake EXCEPT ![t] = {}]
  /\ task' = [task EXCEPT ![t] = NoTask]
  /\ Goto(t, "wake")
  /\ UNCHANGED <<wk, waiters, mutex, queues, parallel_blocks, running, agenda, done>>

\* starpu_wake_worker_relax_light on each candidate until one call returns 1.
\* The fast path is for a worker in the middle of a scheduling operation.
WakeWorkerRelaxLight(t) ==
  /\ pc[t] = "wake" /\ todo[t] # <<>>
  /\ LET w    == Head(todo[t])
         r    == wk[w]
         fast == w # t /\ r.relax = 0 /\ r.scheduling
     IN /\ CanLock(t, w)
        /\ fast \/ w = t \/ r.relax # 0
        /\ Set(w, IF fast THEN [r EXCEPT !.keep_awake = TRUE] ELSE Wakeup(r))
        /\ waiters' = IF ~fast /\ WakeupBroadcasts(r) THEN [waiters EXCEPT ![w] = {}]
                      ELSE waiters
        /\ todo' = [todo EXCEPT ![t] =
                      IF fast \/ WakeupReturns1(r) THEN <<>> ELSE Tail(@)]
  /\ UNCHANGED <<mutex, policy_mutex, queues, parallel_blocks, running, pc,
                 agenda, dowake, task, done>>

-----------------------------------------------------------------------------
(* Loops over the workers of a context *)

\* The calls that visit workers one after the other.
StartLoop(t) ==
  /\ pc[t] = "ready" /\ agenda[t] # <<>>
  /\ Head(agenda[t]).op \in {"block", "unblock", "notify", "done"}
  /\ todo' = [todo EXCEPT ![t] = Head(agenda[t]).ws]
  /\ agenda' = [agenda EXCEPT ![t] = Tail(@)]
  /\ Goto(t, Head(agenda[t]).op)
  /\ UNCHANGED <<wk, waiters, mutex, policy_mutex, queues, parallel_blocks,
                 running, dowake, task, done>>

EndLoop(t) ==
  /\ pc[t] \in {"block", "unblock", "notify", "done", "kill", "wake"}
  /\ todo[t] = <<>>
  /\ Goto(t, "ready")
  /\ UNCHANGED <<wk, waiters, mutex, policy_mutex, queues, parallel_blocks,
                 running, private, done>>

LoopUnchanged ==
  UNCHANGED <<mutex, policy_mutex, queues, running, agenda, dowake, task, done>>

\* _starpu_worker_request_blocking_in_parallel: only the transition of the
\* count from 0 to 1 raises the request and waits for its acknowledgement.
RequestBlockingInParallel(t) ==
  /\ pc[t] = "block" /\ todo[t] # <<>>
  /\ LET w == Head(todo[t])
         r == wk[w]
     IN /\ CanLock(t, w)
        /\ ~r.unblock_req
        /\ \/ /\ r.ref = 0
              /\ Set(w, [r EXCEPT !.ref = 1, !.block_req = TRUE])
              /\ BroadcastThenWait(t, w)
              /\ Goto(t, "block_ack")
              /\ UNCHANGED todo
           \/ /\ r.ref > 0
              /\ Set(w, [r EXCEPT !.ref = @ + 1])
              /\ NextWorker(t)
              /\ UNCHANGED <<waiters, pc>>
  /\ parallel_blocks' = TRUE
  /\ LoopUnchanged

\* Mutant: the acknowledgement is left behind.
BlockingDone_AckKept(r) == [r EXCEPT !.block_req = FALSE]

BlockingDone(r) == [r EXCEPT !.block_req = FALSE, !.block_ack = FALSE]

BlockAcked(t) ==
  /\ pc[t] = "block_ack"
  /\ LET w == Head(todo[t])
     IN /\ CanLock(t, w)
        /\ wk[w].block_ack
        /\ Set(w, BlockingDone(wk[w]))
        /\ Broadcast(w)
  /\ NextWorker(t)
  /\ Goto(t, "block")
  /\ UNCHANGED parallel_blocks
  /\ LoopUnchanged

\* _starpu_worker_request_unblocking_in_parallel
RequestUnblockingInParallel(t) ==
  /\ pc[t] = "unblock" /\ todo[t] # <<>>
  /\ LET w == Head(todo[t])
         r == wk[w]
     IN /\ CanLock(t, w)
        /\ ~r.block_req
        /\ \/ /\ r.blocked /\ r.ref = 1
              /\ Set(w, [r EXCEPT !.unblock_req = TRUE])
              /\ BroadcastThenWait(t, w)
              /\ Goto(t, "unblock_ack")
              /\ UNCHANGED todo
           \/ /\ ~r.blocked \/ r.ref # 1
              /\ Set(w, IF r.blocked THEN [r EXCEPT !.ref = @ - 1] ELSE r)
              /\ NextWorker(t)
              /\ UNCHANGED <<waiters, pc>>
  /\ UNCHANGED parallel_blocks
  /\ LoopUnchanged

UnblockAcked(t) ==
  /\ pc[t] = "unblock_ack"
  /\ LET w == Head(todo[t])
     IN /\ CanLock(t, w)
        /\ wk[w].unblock_ack
        /\ Set(w, [wk[w] EXCEPT !.unblock_req = FALSE, !.unblock_ack = FALSE, !.ref = @ - 1])
        /\ Broadcast(w)
  /\ NextWorker(t)
  /\ Goto(t, "unblock")
  /\ UNCHANGED parallel_blocks
  /\ LoopUnchanged

\* _starpu_worker_enter_changing_ctx_op: a scheduling operation that has
\* started is allowed to complete, no new one may start.
EnterChangingCtxOp(t) ==
  /\ pc[t] = "notify" /\ todo[t] # <<>>
  /\ LET w == Head(todo[t])
         r == wk[w]
     IN /\ CanLock(t, w)
        /\ ~r.notice
        /\ Set(w, [r EXCEPT !.notice = TRUE])
        /\ \/ /\ r.sched_op
              /\ BroadcastThenWait(t, w)
              /\ Goto(t, "notify_wait")
              /\ UNCHANGED todo
           \/ /\ ~r.sched_op
              /\ NextWorker(t)
              /\ UNCHANGED <<waiters, pc>>
  /\ UNCHANGED parallel_blocks
  /\ LoopUnchanged

SchedOpCompleted(t) ==
  /\ pc[t] = "notify_wait"
  /\ CanLock(t, Head(todo[t]))
  /\ ~wk[Head(todo[t])].sched_op
  /\ NextWorker(t)
  /\ Goto(t, "notify")
  /\ UNCHANGED <<wk, waiters, parallel_blocks>>
  /\ LoopUnchanged


\* _starpu_worker_leave_changing_ctx_op
LeaveChangingCtxOp(t) ==
  /\ pc[t] = "done" /\ todo[t] # <<>>
  /\ LET w == Head(todo[t])
     IN /\ CanLock(t, w)
        /\ Set(w, [wk[w] EXCEPT !.notice = FALSE])
        /\ Broadcast(w)
  /\ NextWorker(t)
  /\ UNCHANGED <<pc, parallel_blocks>>
  /\ LoopUnchanged

\* starpu_task_wait_for_all, as far as this module sees it, by a thread that
\* has joined the other application threads: it is about to shut down.
WaitForAll(t) ==
  /\ pc[t] = "ready" /\ agenda[t] # <<>>
  /\ Head(agenda[t]).op = "wait"
  /\ Head(agenda[t]).tasks \subseteq done
  /\ \A u \in Apps \ {t} : pc[u] = "end"
  /\ agenda' = [agenda EXCEPT ![t] = Tail(@)]
  /\ UNCHANGED <<wk, waiters, mutex, policy_mutex, queues, parallel_blocks,
                 running, pc, todo, dowake, task, done>>

\* _starpu_kill_all_workers: running is reset, then
\* starpu_wake_all_blocked_workers visits every worker.
KillAllWorkers(t) ==
  /\ pc[t] = "ready" /\ agenda[t] # <<>>
  /\ Head(agenda[t]).op = "kill"
  /\ running' = FALSE
  /\ todo' = [todo EXCEPT ![t] = AllWorkers]
  /\ agenda' = [agenda EXCEPT ![t] = Tail(@)]
  /\ Goto(t, "kill")
  /\ UNCHANGED <<wk, waiters, mutex, policy_mutex, queues, parallel_blocks,
                 dowake, task, done>>

WakeAllBlockedWorkers(t) ==
  /\ pc[t] = "kill" /\ todo[t] # <<>>
  /\ LET w == Head(todo[t])
     IN /\ CanLock(t, w)
        /\ Set(w, [wk[w] EXCEPT !.keep_awake = TRUE])
        /\ Broadcast(w)
  /\ NextWorker(t)
  /\ UNCHANGED <<pc, parallel_blocks>>
  /\ LoopUnchanged

AppEnd(t) ==
  /\ t \in Apps
  /\ pc[t] = "ready" /\ agenda[t] = <<>>
  /\ Goto(t, "end")
  /\ UNCHANGED <<wk, waiters, mutex, policy_mutex, queues, parallel_blocks,
                 running, private, done>>

-----------------------------------------------------------------------------
(* Condition waits *)

\* The loop condition under which thread t, with the mutex of w taken, calls
\* cond_wait (again) on the sched_cond of w.
MustWait(t, w) ==
  LET r == wk[w]
  IN \/ pc[t] = "lock" /\ w = On[task[t]] /\ w # t /\ r.relax = 0
     \/ /\ pc[t] = "check" /\ todo[t] # <<>> /\ w = Head(todo[t])
        /\ parallel_blocks /\ ~SafeWindow(t, w)
     \/ /\ pc[t] \in {"block", "block_ack", "unblock", "unblock_ack", "notify", "notify_wait"}
        /\ todo[t] # <<>> /\ w = Head(todo[t])
        /\ \/ pc[t] = "block" /\ r.unblock_req
           \/ pc[t] = "block_ack" /\ ~r.block_ack
           \/ pc[t] = "unblock" /\ r.block_req
           \/ pc[t] = "unblock_ack" /\ ~r.unblock_ack
           \/ pc[t] = "notify" /\ r.notice
           \/ pc[t] = "notify_wait" /\ r.sched_op
     \/ /\ t = w
        /\ \/ pc[t] = "blocked" /\ ~r.unblock_req
           \/ pc[t] = "ctxwait" /\ r.notice /\ ~r.block_req
           \/ pc[t] = "ctxwait_observed" /\ r.notice
           \/ pc[t] = "asleep" /\ ~r.keep_awake /\ MaySleep(w, r)

CondWait(t) ==
  \E w \in Worker : CanLock(t, w) /\ MustWait(t, w) /\ WaitAgain(t, w)

-----------------------------------------------------------------------------

WorkerStep(w) ==
  \/ StartTurn(w) \/ CtxWaited(w) \/ Unblocked(w)
  \/ PopLocalTask(w) \/ RelaxOn(w) \/ PopTaskEager(w)
  \/ GotTask(w) \/ NoTaskKeptAwake(w) \/ NoTaskSleep(w) \/ WakeUp(w)
  \/ ExecuteTask(w) \/ DriverExit(w)

CallStep(t) ==
  \/ StartPush(t) \/ WorkerLock(t) \/ PushLocalTask(t)
  \/ PushTaskEager(t) \/ CanExecuteTask(t) \/ PushUnlock(t)
  \/ WakeWorkerRelaxLight(t) \/ StartLoop(t) \/ EndLoop(t)
  \/ RequestBlockingInParallel(t) \/ BlockAcked(t)
  \/ RequestUnblockingInParallel(t) \/ UnblockAcked(t)
  \/ EnterChangingCtxOp(t) \/ SchedOpCompleted(t) \/ LeaveChangingCtxOp(t)
  \/ WaitForAll(t) \/ KillAllWorkers(t) \/ WakeAllBlockedWorkers(t) \/ AppEnd(t)

Progress(t) == (t \in Worker /\ WorkerStep(t)) \/ CallStep(t)

Next == \/ \E w \in Worker : WorkerStep(w)
        \/ \E t \in Thread : CallStep(t) \/ CondWait(t)

\* A thread that can again and again take the mutexes it wants, with the
\* condition it waits for true, does so: pthread mutexes do not starve a
\* thread forever.  Waiting again is not something a thread must do.
Fairness == \A t \in Thread : SF_vars(Progress(t))

Spec == Init /\ [][Next]_vars /\ Fairness

-----------------------------------------------------------------------------
(* Properties *)

\* Type invariant: flags and counters of the workers, owners of the mutexes,
\* and what the threads hold.
TypeOK ==
  /\ \A w \in Worker :
       /\ wk[w].relax \in 0..1
       /\ wk[w].ref \in 0..Cardinality(Apps)
       /\ waiters[w] \subseteq Thread
       /\ mutex[w] \in Thread \cup {Free}
       /\ ring[w].cur \in 0..Len(ring[w].slots)
  /\ \A t \in Thread : task[t] \in Tasks \cup {NoTask} /\ dowake[t] \subseteq Worker
  /\ policy_mutex \in Thread \cup {Free}
  /\ done \subseteq Tasks

\* What thread t is about to call, when it is between two calls.
Upcoming(t, o) == /\ pc[t] = "ready" /\ agenda[t] # <<>>
                  /\ Head(agenda[t]).op = o


\* Worker w sleeps and no wake-up has reached it.
SoundAsleep(w) == pc[w] = "asleep" /\ w \in waiters[w]

\* The threads that have queued task k and have still workers to wake.
Waking(k) == {t \in Thread : \/ pc[t] = "check" /\ task[t] = k
                             \/ pc[t] = "wake" /\ todo[t] # <<>>}

\* No queued task is left to workers that are all asleep with nobody about
\* to wake one of them: the wake-up that stops at the first success, the fast
\* path and the last-worker-awake rule together never strand a task.
NoStrandedTask ==
  /\ \A i \in DOMAIN fifo :
       (\A w \in Where[fifo[i]] : SoundAsleep(w)) => Waking(fifo[i]) # {}
  /\ \A w \in Worker :
       SoundAsleep(w) => local_tasks[w] = <<>> /\ RingHead(ring[w]) = NoTask

\* The assertions of the blocking protocol (workers.h): every request meets
\* the flags of a finished transaction, every acknowledgement those of the
\* request it answers.
ProtocolAsserts ==
  \A w \in Worker :
    LET r == wk[w] IN
    /\ r.ref = 0 => ~r.blocked /\ ~r.block_req /\ ~r.block_ack
                    /\ ~r.unblock_req /\ ~r.unblock_ack
    /\ r.block_ack => r.block_req /\ r.blocked /\ r.ref >= 1
    /\ r.block_req /\ ~r.block_ack => ~r.blocked
    /\ r.unblock_req => ~r.block_req /\ r.ref >= 1 /\ (r.blocked = ~r.unblock_ack)
    /\ r.unblock_ack => r.unblock_req
    /\ r.blocked <=> pc[w] = "blocked"
    /\ pc[w] \in {"ready", "ctxwait", "ctxwait_observed", "blocked"} => ~r.sched_op

\* starpu_task::workerorder: a worker takes its ordered tasks in consecutive
\* order, whatever the order they were pushed in and however the ring grew. It
\* pops them without its mutex; nobody else, having locked the worker with
\* _starpu_worker_lock, ever meets it there.
OrderedInTurn ==
  \A w \in Worker :
    /\ pc[w] = "pop" => mutex[w] \in {Free, w}
    /\ \A k \in Tasks :
         (On[k] = w /\ WorkerOrder[k] # 0 /\ (k \in done \/ task[w] = k)) =>
           \A j \in Tasks :
             (On[j] = w /\ WorkerOrder[j] \in 1..(WorkerOrder[k] - 1)) => j \in done


=============================================================================
