------------------------------ MODULE Coherency ------------------------------
(***************************************************************************)
(* The copies of one data handle over the memory nodes                     *)
(* (src/datawizard/coherency.c, data_request.c, write_back.c and the       *)
(* eviction part of memalloc.c).                                           *)
(*                                                                         *)
(* Each node has a replicate of the data in state OWNER, SHARED or         *)
(* INVALID.  Tasks fetch the data on the node they run on, the application *)
(* and the scheduler prefetch it, writers write through, device memory is  *)
(* tidied and evicted.  All of them create data requests, which the        *)
(* drivers of the nodes handle one after the other, in any order, and      *)
(* which terminate asynchronously.  Only tasks hold the data lock: idle    *)
(* prefetches, tidying and eviction run concurrently with it.              *)
(*                                                                         *)
(* Not part of the model: mapped replicates and UNMAP requests, init_cl    *)
(* (a read always finds a valid copy), SCRATCH and REDUX replicates, the   *)
(* order of the request lists, partitioned data, and unregistration (see   *)
(* DataConcurrency).                                                       *)
(***************************************************************************)
EXTENDS Integers, Sequences, FiniteSets, SequencesExt, FiniteSetsExt

CONSTANTS
  Nodes,        \* the memory nodes, numbers
  Home,         \* handle->home_node, the main memory
  Links,        \* pairs <<src, dst>> with direct transfers
  Accessors,    \* the tasks and application prefetches
  Programs,     \* the possible functions from accessors to [kind, mode, node, pre, level, async]
  WtMasks,      \* the possible values of handle->wt_mask, the nodes written through to
  MaxEvict,     \* bound on the number of evictions
  MaxTidy,      \* bound on the number of write-backs by starpu_memchunk_tidy
  MaxFail       \* bound on the number of failed allocations

ASSUME ConstantsAssumption ==
  /\ Home \in Nodes /\ Nodes \subseteq Nat /\ IsFiniteSet(Nodes)
  /\ WtMasks \subseteq SUBSET Nodes /\ Accessors \subseteq Nat \ {0}
  /\ \A n \in Nodes : <<n, Home>> \in Links /\ <<Home, n>> \in Links
  /\ MaxEvict \in Nat /\ MaxTidy \in Nat /\ MaxFail \in Nat

VARIABLES
  prog,         \* what the accessors do, chosen initially
  pc,           \* where each accessor is
  h,            \* the handle: replicates, reference counts and requests
  data,         \* the contents of each replicate: the version written, or Junk
  version,      \* the last version written
  evictor,      \* the thread evicting a replicate
  budget        \* evictions, write-backs and failed allocations left

vars == <<prog, pc, h, data, version, evictor, budget>>

FETCH == 0
TASK_PREFETCH == 1
PREFETCH == 2
IDLEFETCH == 3

Junk == -1      \* uninitialized, or being written
NoTask == 0
Freed == [status |-> "freed"]

R == {"R"}
W == {"W"}
RW == {"R", "W"}

node(a) == prog[a].node
mode(a) == prog[a].mode

-----------------------------------------------------------------------------
(* Replicate states and requests, as operators on the handle g.            *)

Valid(g) == {n \in Nodes : g.state[n] # "INVALID"}

Live(g) == {r \in DOMAIN g.req : g.req[r] # Freed}

\* The requests found in the request[] lists of the replicates.
Linked(g) == {r \in Live(g) : g.req[r].status # "completed" /\ ~g.req[r].inv}

AddRef(g, n, k) == [g EXCEPT !.refcnt[n] = @ + k, !.busy_count = @ + k]

UpdateDataState(g, n, m) ==
  IF "W" \in m
  THEN [g EXCEPT !.state = [i \in Nodes |-> IF i = n THEN "OWNER" ELSE "INVALID"]]
  ELSE IF g.state[n] = "OWNER" THEN g
  ELSE [g EXCEPT !.state = [i \in Nodes |->
          IF i = n \/ i \in Valid(g) THEN "SHARED" ELSE "INVALID"]]

\* The nodes the data can be taken from: the cheapest with a direct link, or,
\* when the costs are not known, the main memory unless only a device has it.
SelectSrcNode(g, n) ==
  {m \in Valid(g) : <<m, n>> \in Links}
    \cup (IF Home \in Valid(g) THEN {Home} ELSE {Max(Valid(g))})

\* One hop, two through the main memory, or none when an invalidation is enough.
DetermineRequestPath(src, dst, m, write_invalidation) ==
  CASE src = dst \/ "R" \notin m ->
         IF write_invalidation THEN <<>> ELSE << <<dst, dst>> >>
    [] src # dst /\ "R" \in m /\ <<src, dst>> \in Links -> << <<src, dst>> >>
    [] OTHER -> << <<src, Home>>, <<Home, dst>> >>

\* The node by which a request is found in the request[] array.
Key(m, src, dst) == IF "R" \in m THEN src ELSE dst

\* Requests are numbered in creation order: the first of the list is the lowest.
SearchExistingDataRequest(g, hop, m, task) ==
  {r \in Linked(g) :
     LET q == g.req[r] IN
     /\ q.dst = hop[2]
     /\ Key(q.mode, q.src, q.dst) = Key(m, hop[1], hop[2])
     /\ q.canceled = 0
     /\ task = NoTask \/ q.task = NoTask \/ task = q.task}

\* Mutant: the reference of a promoted request is not recorded.
Promote_Unmarked(g, r, level) ==
  LET q == g.req[r] IN
  [g EXCEPT !.req[r] = [q EXCEPT !.level = level],
            !.refcnt[q.dst] = IF level = FETCH /\ ~q.added_ref THEN @ + 1 ELSE @]

\* Promote one request: a fetch has a reference on its target.
Promote(g, r, level) ==
  LET q == g.req[r] IN
  [g EXCEPT !.req[r] = [q EXCEPT !.level = level, !.added_ref = @ \/ level = FETCH],
            !.refcnt[q.dst] = IF level = FETCH /\ ~q.added_ref THEN @ + 1 ELSE @]

\* A chain has at most two hops, so the promotion of chained requests ends there.
UpdatePrefetchStatus(g, r, level) ==
  FoldSet(LAMBDA s, acc : Promote(acc, s, level), g,
          IF level < g.req[r].level
          THEN {r} \cup {s \in g.req[r].next : g.req[s].level > level}
          ELSE {})

\* A fetch takes a reference on the target at once, a prefetch only when it is
\* handled; a reading request also takes one on its source.  A request without
\* dependencies is posted before the handle is unlocked.
CreateDataRequest(g, hop, m, ndeps, task, level, inv) ==
  LET src  == hop[1]
      dst  == hop[2]
      g1   == IF "R" \in m THEN AddRef(g, src, 1) ELSE g
  IN [g1 EXCEPT
        !.req = Append(@, [src |-> src, dst |-> dst, mode |-> m, task |-> task,
                           level |-> level, ndeps |-> ndeps, next |-> {},
                           status |-> IF ndeps = 0 THEN "posted" ELSE "created", canceled |-> 0, inv |-> inv,
                           added_ref |-> level = FETCH, callbacks |-> {},
                           refcnt |-> 1, from |-> Junk]),
        !.refcnt[dst] = IF level = FETCH THEN @ + 1 ELSE @,
        !.busy_count = @ + 1,
        !.write_invalidation_req = IF inv THEN Len(g.req) + 1 ELSE @]

Post(g, r) ==
  IF g.req[r].ndeps = 0 THEN [g EXCEPT !.req[r].status = "posted"] ELSE g

\* One iteration of the loop over the hops: reuse the first of the requests found,
\* or create one.
ReuseRequest(acc, r, m, level) ==
  [acc EXCEPT !.g = [UpdatePrefetchStatus(@, r, level) EXCEPT !.req[r].mode = @ \cup m],
              !.ids = Append(@, r)]

NewRequest(acc, r, hop, m, task, level) ==
  [g |-> CreateDataRequest(acc.g, hop, m, Len(acc.ids), task, level, FALSE),
   ids |-> Append(acc.ids, r),
   new |-> acc.new \cup {r},
   r |-> r]

AddHop(acc, hop, m, task, level) ==
  LET found == SearchExistingDataRequest(acc.g, hop, m, task) IN
  IF found # {} THEN ReuseRequest(acc, Min(found), m, level)
  ELSE NewRequest(acc, Len(acc.g.req) + 1, hop, m, task, level)

\* A second hop that is new waits for the first one.
ChainHops(acc) ==
  IF Len(acc.ids) = 2 /\ acc.ids[2] \in acc.new
  THEN [acc EXCEPT !.g.req[acc.ids[1]].next = @ \cup {acc.ids[2]}]
  ELSE acc

\* The last request, which depends on every request there is and invalidates
\* their results; they are hastened.
ChainAll(g, waits, inv) ==
  FoldSet(LAMBDA r, acc : [acc EXCEPT !.req[r].next = @ \cup {inv}], g, waits)

Hasten(g, waits) ==
  FoldSet(LAMBDA r, acc : UpdatePrefetchStatus(acc, r, FETCH), g, waits)

AddWriteInvalidation(g, dst, task) ==
  ChainAll(CreateDataRequest(Hasten(g, Linked(g)), <<dst, dst>>, W, Cardinality(Linked(g)),
                             task, FETCH, TRUE),
           Linked(g), Len(g.req) + 1)

\* The first request of each list of the replicate that is for this task.
RequestsOf(g, dst, task) ==
  LET own(k) == {r \in Linked(g) : LET q == g.req[r] IN
                   /\ q.dst = dst /\ Key(q.mode, q.src, q.dst) = k
                   /\ task # NoTask /\ q.task = task}
  IN {Min(own(k)) : k \in {k \in Nodes : own(k) # {}}}

\* The request that completes the fetch: the last hop or the invalidation.
LastRequest(acc, dst, task, inv) ==
  IF inv THEN [acc EXCEPT !.g = AddWriteInvalidation(@, dst, task), !.r = Len(acc.g.req) + 1]
  ELSE [acc EXCEPT !.r = Last(acc.ids)]

\* It calls back, or somebody waits for it.
Watched(acc, async, callbacks) ==
  [acc EXCEPT !.g.req[acc.r].callbacks = @ \cup callbacks,
              !.g.req[acc.r].refcnt = IF async THEN @ ELSE @ + 1]

\* The loop over the hops, for each path the transfer may take.
CreateRequests(g, paths, dst, m, task, level, async, callbacks, inv) ==
  LET hops  == {FoldLeft(LAMBDA x, hop : AddHop(x, hop, m, task, level),
                         [g |-> g, ids |-> <<>>, new |-> {}, r |-> 0], p) : p \in paths}
      ended == {LastRequest(ChainHops(x), dst, task, inv) : x \in hops}
  IN {Watched(x, async, callbacks) : x \in ended}

\* The data is there: the requests of the task for it are pointless.
CancelRequests(g, requests) ==
  FoldSet(LAMBDA r, acc : [acc EXCEPT !.req[r].canceled = 1], g, requests)

\* Where the data is read from, itself when it is there already.
Sources(g, dst, m) ==
  IF "R" \in m /\ g.state[dst] = "INVALID" THEN SelectSrcNode(g, dst) ELSE {dst}

\* _starpu_create_request_to_fetch_data once the requests to wait for are counted:
\* the possible outcomes, made of the new handle g and the last request r, which is 0
\* when the data is available at once.  The home node is always allocated.
FetchWaiting(g, dst, m, task, level, async, callbacks, nwait) ==
  CASE g.state[dst] # "INVALID" /\ (nwait = 0 \/ level > FETCH) ->
         {[g |-> CancelRequests(UpdateDataState(g, dst, m), RequestsOf(g, dst, task)), r |-> 0]}
    [] g.state[dst] = "INVALID" /\ "R" \notin m /\ dst = Home /\ nwait = 0 ->
         {[g |-> IF level <= TASK_PREFETCH THEN UpdateDataState(g, dst, m) ELSE g, r |-> 0]}
    [] OTHER ->
         LET inv == nwait > 0 /\ level = FETCH IN
         CreateRequests(g, {DetermineRequestPath(src, dst, m, inv) : src \in Sources(g, dst, m)},
                        dst, m, task, level, async, callbacks, inv)

\* Mutant: a writer does not wait for the existing requests.
CreateRequestToFetchData_NoWait(g, dst, m, task, level, async, callbacks) ==
  FetchWaiting(g, dst, m, task, level, async, callbacks, 0)

\* A writer waits for all the existing requests.
CreateRequestToFetchData(g, dst, m, task, level, async, callbacks) ==
  FetchWaiting(g, dst, m, task, level, async, callbacks,
               IF "W" \in m THEN Cardinality(Linked(g)) ELSE 0)

\* Mutant: load_request is not reset.
Settle_KeepsLoad(g, q) ==
  IF q.canceled < 2 THEN UpdateDataState(g, q.dst, q.mode) ELSE g

\* The replicate is up to date, unless another request did the work.
Settle(g, q) ==
  IF q.canceled < 2
  THEN [UpdateDataState(g, q.dst, q.mode) EXCEPT !.load_request[q.dst] = 0] ELSE g

\* Mutant: the requests that waited are not posted.
PostNext_Forgotten(g, q) ==
  FoldSet(LAMBDA s, acc : [acc EXCEPT !.req[s].ndeps = @ - 1], g, q.next)

\* The last request a chained one waits for posts it.
PostNext(g, q) ==
  FoldSet(LAMBDA s, acc : Post([acc EXCEPT !.req[s].ndeps = @ - 1], s), g, q.next)

\* The references of the request are dropped and it is freed, unless somebody
\* still waits for it.
Unlink(g, r, q) ==
  [(IF "R" \in q.mode THEN AddRef(g, q.src, -1) ELSE g) EXCEPT
     !.refcnt[q.dst] = IF q.added_ref THEN @ - 1 ELSE @,
     !.busy_count = @ - 1,
     !.write_invalidation_req = IF q.inv THEN 0 ELSE @,
     !.req[r] = IF q.refcnt = 1 THEN Freed
                ELSE [q EXCEPT !.status = "completed", !.refcnt = @ - 1,
                               !.callbacks = {}, !.next = {}]]

\* starpu_handle_data_request_completion, up to the callbacks.
Completion(g, r) == Unlink(PostNext(Settle(g, g.req[r]), g.req[r]), r, g.req[r])

-----------------------------------------------------------------------------
(* The drivers handling the requests.                                      *)

\* The completion of r with its callbacks: those of tasks note the arrival of the
\* buffer; those of requests waiting for this load and of write-throughs take the
\* lock of the handle again, later.
Complete(g, r) ==
  /\ pc' = [a \in Accessors |->
              IF <<"task", a>> \in h.req[r].callbacks THEN "fetched" ELSE pc[a]]
  /\ h' = [Completion(g, r) EXCEPT
             !.callbacks = @ \cup {c \in h.req[r].callbacks : c[1] # "task"}]

\* _starpu_driver_copy_data_1_to_1 once the destination is allocated: start the
\* copy, or complete at once when there is nothing to read.
Transfer(g, r) ==
  LET q == g.req[r] IN
  IF "R" \in q.mode
  THEN /\ h' = [g EXCEPT !.req[r].status = "pending", !.req[r].from = data[q.src]]
       /\ data' = [data EXCEPT ![q.dst] = IF @ = data[q.src] THEN @ ELSE Junk]
       /\ UNCHANGED pc
  ELSE Complete(g, r) /\ UNCHANGED data

HandleCanceled(r) ==
  /\ h.req[r].canceled > 0
  /\ Complete([h EXCEPT !.req[r].canceled = 2], r)
  /\ UNCHANGED <<data>>

\* Another request is loading the replicate: wait for it.
JoinLoad(r) ==
  LET q  == h.req[r]
      r2 == h.load_request[q.dst]
      g  == UpdatePrefetchStatus(h, r2, q.level)
  IN /\ q.canceled = 0 /\ r2 \notin {0, r}
     /\ h' = [g EXCEPT !.req[r].canceled = 2, !.req[r].status = "joined",
                       !.req[r2].callbacks = @ \cup {<<"req", r>>}]
     /\ UNCHANGED <<pc, data>>

\* Load the replicate; allocating it gives the lock of the handle away, under a
\* temporary reference.
Load(r) ==
  LET q == h.req[r]
      g == [h EXCEPT !.load_request[q.dst] = r,
                     !.req[r].added_ref = TRUE,
                     !.refcnt[q.dst] = IF q.level > FETCH THEN @ + 1 ELSE @]
  IN /\ q.canceled = 0 /\ h.load_request[q.dst] \in {0, r}
     /\ CASE h.state[q.dst] # "INVALID" -> Complete(g, r) /\ UNCHANGED data
          [] h.state[q.dst] = "INVALID" /\ h.allocated[q.dst] -> Transfer(g, r)
          [] OTHER -> /\ h' = AddRef([g EXCEPT !.req[r].status = "allocating"], q.dst, 1)
                      /\ UNCHANGED <<pc, data>>

HandleDataRequest(r) ==
  /\ h.req[r].status = "posted"
  /\ HandleCanceled(r) \/ JoinLoad(r) \/ Load(r)
  /\ UNCHANGED <<prog, version, evictor, budget>>

Allocated(r) ==
  LET dst == h.req[r].dst IN
  /\ h.req[r].status = "allocating"
  /\ Transfer([AddRef(h, dst, -1) EXCEPT !.allocated[dst] = TRUE], r)
  /\ UNCHANGED <<prog, version, evictor, budget>>

\* Not enough memory: a prefetch drops its reference until the next try.
NoMemory(r) ==
  LET q == h.req[r]
      g == AddRef(h, q.dst, -1)
  IN /\ q.status = "allocating"
     /\ budget.fail > 0
     /\ h' = [g EXCEPT !.req[r].status = "posted",
                       !.req[r].added_ref = IF q.level > FETCH THEN FALSE ELSE @,
                       !.refcnt[q.dst] = IF q.level > FETCH THEN @ - 1 ELSE @]
     /\ budget' = [budget EXCEPT !.fail = @ - 1]
     /\ UNCHANGED <<prog, pc, data, version, evictor>>

\* The asynchronous copy is over; it is only sound if its source did not change.
PendingCompleted(r) ==
  LET q == h.req[r] IN
  /\ q.status = "pending"
  /\ data' = [data EXCEPT ![q.dst] = IF data[q.src] = q.from THEN q.from ELSE Junk]
  /\ Complete(h, r)
  /\ UNCHANGED <<prog, version, evictor, budget>>

\* _starpu_data_request_complete_wait, called back by the load r waited for.
CompleteWait(r) ==
  /\ <<"req", r>> \in h.callbacks
  /\ Complete([h EXCEPT !.callbacks = @ \ {<<"req", r>>}], r)
  /\ UNCHANGED <<prog, data, version, evictor, budget>>

-----------------------------------------------------------------------------
(* The tasks and the application.                                          *)

\* The data lock is granted to several readers or one writer (DataConcurrency).
Grant(a) ==
  LET lm == IF "W" \in mode(a) THEN "W" ELSE "R" IN
  /\ pc[a] = "idle"
  /\ h.lock = 0 \/ (h.current_mode = "R" /\ lm = "R")
  /\ pc' = [pc EXCEPT ![a] = "granted"]
  /\ h' = [h EXCEPT !.lock = @ + 1, !.busy_count = @ + 1, !.current_mode = lm]
  /\ UNCHANGED <<prog, data, version, evictor, budget>>

\* The scheduler prefetches the input of a ready task, possibly not on the node
\* where the task ends up running.
PrefetchTaskInput(a) ==
  /\ pc[a] = "granted" /\ prog[a].pre # {}
  /\ \E n \in prog[a].pre :
       /\ \E f \in CreateRequestToFetchData(h, n, mode(a), a, prog[a].level, TRUE, {}) : h' = f.g
       /\ prog' = [prog EXCEPT ![a].pre = @ \ {n}]
  /\ UNCHANGED <<pc, data, version, evictor, budget>>

\* _starpu_fetch_data_on_node for a task: a reference on the replicate is taken
\* until the data is released; asynchronous fetches are called back.
FetchTaskInput(a) ==
  /\ pc[a] = "granted" /\ prog[a].kind = "task"
  /\ \E f \in CreateRequestToFetchData(AddRef(h, node(a), 1), node(a), mode(a), a, FETCH,
                 prog[a].async, IF prog[a].async THEN {<<"task", a>>} ELSE {}) :
       /\ h' = f.g
       /\ pc' = [pc EXCEPT ![a] = IF f.r = 0 THEN "fetched" ELSE "fetching"]
       /\ prog' = [prog EXCEPT ![a].waits = IF prog[a].async THEN 0 ELSE f.r]
  /\ UNCHANGED <<data, version, evictor, budget>>

\* A prefetch by the application is detached.
PrefetchOnNode(a) ==
  /\ pc[a] = "granted" /\ prog[a].kind = "prefetch"
  /\ \E f \in CreateRequestToFetchData(h, node(a), R, NoTask, prog[a].level, TRUE, {}) : h' = f.g
  /\ pc' = [pc EXCEPT ![a] = "released"]
  /\ UNCHANGED <<prog, data, version, evictor, budget>>

\* One waiter less on the completed request r.
Forget(g, r) ==
  [g EXCEPT !.req[r] = IF @.refcnt = 1 THEN Freed ELSE [@ EXCEPT !.refcnt = @ - 1]]

\* A synchronous fetch polls the completion of the last request.
WaitDataRequestCompletion(a) ==
  /\ pc[a] = "fetching" /\ prog[a].waits # 0
  /\ h.req[prog[a].waits].status = "completed"
  /\ h' = Forget(h, prog[a].waits)
  /\ pc' = [pc EXCEPT ![a] = "fetched"]
  /\ prog' = [prog EXCEPT ![a].waits = 0]
  /\ UNCHANGED <<data, version, evictor, budget>>

\* _starpu_fetch_task_input_tail, and the codelet starts.
FetchTaskInputTail(a) ==
  /\ pc[a] = "fetched"
  /\ pc' = [pc EXCEPT ![a] = "running"]
  /\ h' = IF mode(a) = W THEN UpdateDataState(h, node(a), W) ELSE h
  /\ data' = IF "W" \in mode(a) THEN [data EXCEPT ![node(a)] = Junk] ELSE data
  /\ prog' = [prog EXCEPT ![a].read = IF "R" \in mode(a) THEN data[node(a)] ELSE version]
  /\ UNCHANGED <<version, evictor, budget>>

\* The codelet ends; the nodes to write through to are known.
EndTask(a) ==
  /\ pc[a] = "running"
  /\ pc' = [pc EXCEPT ![a] = "finished"]
  /\ IF "W" \in mode(a)
     THEN /\ version' = version + 1
          /\ data' = [data EXCEPT ![node(a)] = version + 1]
          /\ prog' = [prog EXCEPT ![a].through =
                        IF node(a) \in Valid(h) THEN h.wt_mask \ {node(a)} ELSE {}]
     ELSE UNCHANGED <<version, data, prog>>
  /\ UNCHANGED <<h, evictor, budget>>

\* _starpu_write_through_data, for the next node of the mask: the request keeps
\* the data locked for reading.
WriteThrough(a) ==
  /\ pc[a] = "finished" /\ prog[a].through # {}
  /\ LET n == Min(prog[a].through)
         g == [h EXCEPT !.lock = @ + 1, !.busy_count = @ + 1, !.current_mode = "R"]
     IN /\ \E f \in CreateRequestToFetchData(g, n, R, NoTask, IDLEFETCH, TRUE, {<<"wt", n>>}) :
             h' = IF f.r = 0 THEN [f.g EXCEPT !.callbacks = @ \cup {<<"wt", n>>}] ELSE f.g
        /\ prog' = [prog EXCEPT ![a].through = @ \ {n}]
  /\ UNCHANGED <<pc, data, version, evictor, budget>>

WtCallback(n) ==
  /\ <<"wt", n>> \in h.callbacks
  /\ h' = [h EXCEPT !.callbacks = @ \ {<<"wt", n>>}, !.lock = @ - 1, !.busy_count = @ - 1]
  /\ UNCHANGED <<prog, pc, data, version, evictor, budget>>

\* The rest of _starpu_release_data_on_node.
Release(a) ==
  /\ \/ pc[a] = "finished" /\ prog[a].through = {} /\ prog[a].kind = "task"
     \/ pc[a] = "released"
  /\ LET g == IF pc[a] = "released" THEN h ELSE AddRef(h, node(a), -1)
     IN h' = [g EXCEPT !.lock = @ - 1, !.busy_count = @ - 1]
  /\ pc' = [pc EXCEPT ![a] = "done"]
  /\ UNCHANGED <<prog, data, version, evictor, budget>>

-----------------------------------------------------------------------------
(* Memory management of the devices.                                       *)

\* Mutant: the references of the writer are not looked at.
BeingWritten_Invalidation(g) ==
  g.current_mode = "W" /\ g.write_invalidation_req # 0

\* Some task is writing to the handle somewhere.
BeingWritten(g) ==
  /\ g.current_mode = "W"
  /\ g.write_invalidation_req # 0 \/ \E n \in Nodes : g.refcnt[n] > 0

\* Mutant: referenced replicates are evicted, too.
MayFree_Referenced(g, n) == ~BeingWritten(g)

MayFree(g, n) == g.refcnt[n] = 0 /\ ~BeingWritten(g)

\* The end of transfer_subtree_to_node, and the buffer is freed.
Drop(g, n) ==
  LET left == {i \in Nodes \ {n} : g.state[i] = "SHARED"}
      st   == [i \in Nodes |-> IF i = n THEN "INVALID"
                               ELSE IF g.state[n] = "SHARED" /\ left = {i} THEN "OWNER"
                               ELSE g.state[i]]
  IN [g EXCEPT !.state = st, !.allocated[n] = FALSE]

\* The body of the loop: push the only copy to the home node, or free.
Push(g, n) ==
  IF g.state[n] = "OWNER"
  THEN \E f \in CreateRequestToFetchData(g, Home, R, NoTask, FETCH, FALSE, {}) :
         /\ h' = [f.g EXCEPT !.busy_count = @ + 1]
         /\ evictor' = [node |-> n, waits |-> f.r]
         /\ UNCHANGED data
  ELSE /\ h' = Drop(g, n)
       /\ evictor' = [node |-> n, waits |-> 0]
       /\ data' = [data EXCEPT ![n] = Junk]

Evict(n) ==
  /\ budget.evict > 0 /\ evictor.waits = 0
  /\ n # Home /\ n \notin h.wt_mask /\ h.allocated[n]
  /\ MayFree(h, n)
  /\ Push(h, n)
  /\ budget' = [budget EXCEPT !.evict = @ - 1]
  /\ UNCHANGED <<prog, pc, version>>

\* The copy arrived at the home node, but the handle was unlocked meanwhile.
EvictResume ==
  /\ evictor.waits # 0
  /\ h.req[evictor.waits].status = "completed"
  /\ LET g == [Forget(h, evictor.waits) EXCEPT !.busy_count = @ - 1] IN
     IF MayFree(g, evictor.node)
     THEN Push(g, evictor.node)
     ELSE /\ h' = g
          /\ evictor' = [evictor EXCEPT !.waits = 0]
          /\ UNCHANGED data
  /\ UNCHANGED <<prog, pc, version, budget>>

\* starpu_memchunk_tidy: write a dirty chunk back to the home node.
MemchunkTidy(n) ==
  /\ budget.tidy > 0
  /\ n # Home /\ n \notin h.wt_mask /\ h.allocated[n]
  /\ ~BeingWritten(h)
  /\ h.state[Home] = "INVALID"
  /\ \E f \in CreateRequestToFetchData(h, Home, R, NoTask, IDLEFETCH, TRUE, {}) : h' = f.g
  /\ budget' = [budget EXCEPT !.tidy = @ - 1]
  /\ UNCHANGED <<prog, pc, data, version, evictor>>

-----------------------------------------------------------------------------
\* The data is registered in the home node, and nothing is requested yet.
Init ==
  /\ prog \in Programs
  /\ pc = [a \in Accessors |-> "idle"]
  /\ \E w \in WtMasks :
     h = [state |-> [n \in Nodes |-> IF n = Home THEN "OWNER" ELSE "INVALID"],
          allocated |-> [n \in Nodes |-> n = Home],
          refcnt |-> [n \in Nodes |-> 0],
          load_request |-> [n \in Nodes |-> 0],
          write_invalidation_req |-> 0,
          busy_count |-> 0,
          lock |-> 0,
          wt_mask |-> w,
          current_mode |-> "R",
          req |-> <<>>,
          callbacks |-> {}]
  /\ data = [n \in Nodes |-> IF n = Home THEN 0 ELSE Junk]
  /\ version = 0
  /\ evictor = [node |-> Home, waits |-> 0]
  /\ budget = [evict |-> MaxEvict, tidy |-> MaxTidy, fail |-> MaxFail]

Driver ==
  \E r \in Live(h) :
    HandleDataRequest(r) \/ Allocated(r) \/ PendingCompleted(r) \/ CompleteWait(r)

Accessor(a) ==
  \/ Grant(a) \/ FetchTaskInput(a) \/ PrefetchOnNode(a) \/ WaitDataRequestCompletion(a)
  \/ FetchTaskInputTail(a) \/ EndTask(a) \/ WriteThrough(a) \/ Release(a)

\* What has to go on; prefetches, evictions and failures need not happen.
Step ==
  \/ Driver
  \/ \E a \in Accessors : Accessor(a)
  \/ \E n \in Nodes : WtCallback(n)
  \/ EvictResume

Next ==
  \/ Step
  \/ \E a \in Accessors : PrefetchTaskInput(a)
  \/ \E n \in Nodes : Evict(n) \/ MemchunkTidy(n)
  \/ \E r \in Live(h) : NoMemory(r)

Spec == Init /\ [][Next]_vars

FairSpec == Spec /\ WF_vars(Step)

-----------------------------------------------------------------------------
Levels == FETCH..IDLEFETCH

Requests ==
  [src : Nodes, dst : Nodes, mode : {R, W, RW}, task : Accessors \cup {NoTask},
   level : Levels, ndeps : Nat, next : SUBSET Nat,
   status : {"created", "posted", "allocating", "pending", "joined", "completed"},
   canceled : 0..2, inv : BOOLEAN, added_ref : BOOLEAN,
   callbacks : SUBSET ({"task", "req", "wt"} \X (Accessors \cup Nat)),
   refcnt : 1..2, from : Nat \cup {Junk}]

\* Every variable has its type.
TypeOK ==
  /\ pc \in [Accessors -> {"idle", "granted", "fetching", "fetched", "running", "finished",
                           "released", "done"}]
  /\ h.state \in [Nodes -> {"OWNER", "SHARED", "INVALID"}]
  /\ h.allocated \in [Nodes -> BOOLEAN]
  /\ h.refcnt \in [Nodes -> Nat]
  /\ h.load_request \in [Nodes -> Nat]
  /\ h.busy_count \in Nat /\ h.lock \in Nat
  /\ h.current_mode \in {"R", "W"}
  /\ \A r \in Live(h) : h.req[r] \in Requests
  /\ data \in [Nodes -> Nat \cup {Junk}]
  /\ version \in Nat

\* Some writer may be modifying its replicate, or will overwrite it unread.
Writing ==
  \E a \in Accessors : /\ "W" \in mode(a)
                       /\ \/ pc[a] = "running"
                          \/ pc[a] \in {"granted", "fetching", "fetched"} /\ mode(a) = W

\* A valid replicate is allocated, as _starpu_select_src_node asserts of the one it
\* chooses.
ValidIsAllocated == \A n \in Valid(h) : h.allocated[n]

\* There is a valid replicate and, unless a task is writing, all the valid ones are
\* allocated and hold the last version written: no late transfer brings an old value
\* back, and no eviction loses the last one (_starpu_update_data_state, the write
\* invalidation of _starpu_create_request_to_fetch_data). The OWNER is the only valid
\* copy, and a SHARED copy is never the only one: an eviction of it always finds
\* another (the assertion of transfer_subtree_to_node).
CopiesAgree ==
  /\ Valid(h) # {}
  /\ \A n \in Valid(h) :
       /\ h.allocated[n] /\ (~Writing => data[n] = version)
       /\ h.state[n] = "OWNER" <=> Valid(h) = {n}

\* A codelet that reads finds on its node the last version written, and nobody
\* modifies or frees the replicate while it only reads it
\* (_starpu_fetch_task_input, _starpu_release_data_on_node).
ReadsLatest ==
  \A a \in Accessors : pc[a] = "running" =>
    /\ prog[a].read = version
    /\ mode(a) = R => node(a) \in Valid(h) /\ data[node(a)] = version

\* While a task writes it is the owner and there is no request at all on the data:
\* no request appears once the writer counted those it waits for (the comment on
\* nwait in _starpu_create_request_to_fetch_data).
WriterAlone ==
  \A a \in Accessors : (pc[a] = "running" /\ "W" \in mode(a)) =>
    h.state[node(a)] = "OWNER" /\ Linked(h) = {}

Active(g) == {r \in Live(g) : g.req[r].status # "completed"}

Reading(g) == {r \in Active(g) : "R" \in g.req[r].mode}

Holding == {a \in Accessors : pc[a] \in {"fetching", "fetched", "running", "finished"}}

\* The references on a replicate are those of the tasks using it and of the
\* requests from, to or allocating it, and the busy count is the sum of what keeps the handle
\* alive: promoting, joining, cancelling and retrying requests loses none and
\* leaves none behind (added_ref in data_request.c).
RefcntExact ==
  /\ \A n \in Nodes : h.refcnt[n] =
       Cardinality({a \in Holding : node(a) = n})
       + Cardinality({r \in Reading(h) : h.req[r].src = n})
       + Cardinality({r \in Active(h) : h.req[r].dst = n /\ h.req[r].added_ref})
       + Cardinality({r \in Active(h) : h.req[r].dst = n /\ h.req[r].status = "allocating"})
  /\ h.busy_count = h.lock + Cardinality(Holding) + Cardinality(Active(h))
       + Cardinality(Reading(h)) + (IF evictor.waits # 0 THEN 1 ELSE 0)
       + Cardinality({r \in Active(h) : h.req[r].status = "allocating"})

\* Nothing refers to a freed request: not the replicate it was loading, nor the
\* requests chained to it, nor those waiting for it, nor a synchronous fetch
\* (load_request, next_req, callbacks and refcnt of data requests).
NoFreedRequest ==
  /\ \A n \in Nodes : h.load_request[n] # 0 => h.load_request[n] \in Active(h)
  /\ \A r \in Live(h) : h.req[r].next \subseteq Active(h)
  /\ \A r \in Live(h) : h.req[r].status = "joined" =>
       \/ <<"req", r>> \in h.callbacks
       \/ \E s \in Active(h) : <<"req", r>> \in h.req[s].callbacks
  /\ \A a \in Accessors : prog[a].waits # 0 => prog[a].waits \in Live(h)
  /\ evictor.waits # 0 => evictor.waits \in Live(h)

\* Every task gets its data and every request terminates, once allocations
\* stop failing (chained, joined and canceled requests included).
AllServed == <>[](/\ \A a \in Accessors : pc[a] = "done"
                  /\ Active(h) = {}
                  /\ evictor.waits = 0)

=============================================================================
