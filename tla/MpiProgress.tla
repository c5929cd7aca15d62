---------------------------- MODULE MpiProgress ----------------------------
(***************************************************************************)
(* Point-to-point communications of StarPU-MPI over plain MPI              *)
(* (mpi/src/mpi/starpu_mpi_mpi.c). On each node application threads submit *)
(* requests and one progression thread makes all MPI calls (sends aside,   *)
(* with multiple_send). A send is announced by an envelope, which carries  *)
(* the tag of the data; the data itself follows under one MPI tag for all  *)
(* data, or a second one for synchronous sends, which only leave once the  *)
(* receiver has answered SYNC_READY. What reaches a receiver is paired     *)
(* with its requests through three tables: early_request (receives that no *)
(* envelope has reached), early_data (data that no receive asked for, kept *)
(* by a receive of the progression thread) and sync_data.                  *)
(*                                                                         *)
(* progress_mutex and early_data_mutex make a step of what they protect;   *)
(* the progression thread has one step between two releases of             *)
(* progress_mutex. MPI is external: envelopes, data and synchronous data   *)
(* are each received in the order they are sent from one node to another.  *)
(***************************************************************************)
EXTENDS Integers, Sequences, FiniteSets, SequencesExt

CONSTANTS
    Nodes,
    Confs       \* what the program does, see Init

VARIABLES
    conf,                   \* the configuration of this behaviour
    rq,                     \* the requests: r of the application, -s made for the envelope of s
    prog, apc,              \* calls left to each application thread, and where it stands
    posted_requests, newer_requests, running,
    ready_recv_requests,    \* what the progression thread has to do: [op, req, by]
    ready_send_requests, detached_requests,
    early_request, early_data, sync_data,
    envelope_request_submitted,
    pc, cur,                \* the progression thread, and the requests it is about to test
    env, sent, recvd        \* MPI: envelopes under way, data sent and receives posted so far

tables == <<early_request, early_data, sync_data>>
lists == <<ready_recv_requests, ready_send_requests, detached_requests>>
counts == <<posted_requests, newer_requests, running>>
mpi == <<env, sent, recvd>>
app == <<prog, apc>>
vars == <<conf, rq, app, counts, lists, tables, envelope_request_submitted, pc, cur, mpi>>

Threads == DOMAIN prog
Home(t) == t[1]

\* A request as _starpu_mpi_request_fill leaves it.
Request(type, at, rank, tag, sync, detached, prio) ==
    [type |-> type, at |-> at, rank |-> rank, data_tag |-> tag, sync |-> sync,
     detached |-> detached, prio |-> prio, willposted |-> FALSE, submitted |-> FALSE,
     completed |-> FALSE, internal_req |-> 0, to_destroy |-> FALSE, destroyed |-> 0]

\* A configuration has the requests, a script of calls for each thread <<node, k>>,
\* the sends that MPI buffers, and three settings of the environment: multiple_send,
\* ndetached_max (0: no limit) and nready_process (1, or more than there are requests).
Init ==
    /\ conf \in Confs
    /\ rq = conf.requests
    /\ prog = conf.script
    /\ apc = [t \in DOMAIN conf.script |-> "run"]
    /\ posted_requests = [n \in Nodes |-> 0]
    /\ newer_requests = [n \in Nodes |-> FALSE]
    /\ running = [n \in Nodes |-> TRUE]
    /\ ready_recv_requests = [n \in Nodes |-> <<>>]
    /\ ready_send_requests = [n \in Nodes |-> <<>>]
    /\ detached_requests = [n \in Nodes |-> <<>>]
    /\ early_request = [n \in Nodes |-> <<>>]
    /\ early_data = [n \in Nodes |-> <<>>]
    /\ sync_data = [n \in Nodes |-> <<>>]
    /\ envelope_request_submitted = [n \in Nodes |-> FALSE]
    /\ pc = [n \in Nodes |-> "top"]
    /\ cur = [n \in Nodes |-> <<0, 0>>]
    /\ env = [l \in Nodes \X Nodes |-> <<>>]
    /\ sent = [l \in Nodes \X Nodes \X BOOLEAN |-> <<>>]
    /\ recvd = [l \in Nodes \X Nodes \X BOOLEAN |-> <<>>]

-----------------------------------------------------------------------------
(* MPI                                                                     *)

\* The messages that request q takes its turn among.
Link(q) ==
    IF q.type = "send" THEN <<q.at, q.rank, q.sync>> ELSE <<q.rank, q.at, q.sync>>

PositionOf(s, r) == SelectInSeq(s, LAMBDA x : x = r)

\* The k-th receive takes the k-th message.
Matched(r) ==
    LET l == Link(rq[r])
    IN  IF rq[r].type = "send"
        THEN PositionOf(sent[l], r) \in 1..Len(recvd[l])
        ELSE PositionOf(recvd[l], r) \in 1..Len(sent[l])

\* The send whose data receive r gets.
Message(r) == sent[Link(rq[r])][PositionOf(recvd[Link(rq[r])], r)]

\* A receive that was served from early data has the MPI_REQUEST_NULL of a completed request.
Null(r) == rq[r].internal_req # 0

\* Whether MPI may say that r is complete. It may also take its time, see Fairness.
MpiDone(r) ==
    \/ Null(r) \/ Matched(r)
    \/ rq[r].type = "send" /\ ~rq[r].sync /\ r \in conf.eager

-----------------------------------------------------------------------------
(* The tables: first in, first out for each (rank, tag)                    *)

KeyOf(q) == <<q.rank, q.data_tag>>
Find(table, key) == SelectInSeq(table, LAMBDA r : KeyOf(rq[r]) = key)

\* Requests in R that are let go of.
Destroy(R, D) == [r \in DOMAIN R |-> IF r \in D THEN [R[r] EXCEPT !.destroyed = @ + 1] ELSE R[r]]

Add(f, n, x) == [f EXCEPT ![n] = Append(@, x)]
Drop(f, n, k) == [f EXCEPT ![n] = RemoveAt(@, k)]
Count(n, k) == posted_requests' = [posted_requests EXCEPT ![n] = @ + k]

\* newer_requests = 1, and progress_cond is broadcast.
Announce(n) ==
    /\ newer_requests' = [newer_requests EXCEPT ![n] = TRUE]
    /\ pc' = [pc EXCEPT ![n] = IF @ = "asleep" THEN "recvs" ELSE @]

HandleDetachedRequest(n, r, R) ==
    detached_requests' = IF R[r].detached THEN Add(detached_requests, n, r) ELSE detached_requests

-----------------------------------------------------------------------------
(* Handing a request over to MPI                                           *)

SendEnvelope(r) ==
    env' = Add(env, <<rq[r].at, rq[r].rank>>,
               [mode |-> "data", data_tag |-> rq[r].data_tag, sync |-> rq[r].sync, of |-> r])

IsendData(n, r) ==
    /\ sent' = Add(sent, Link(rq[r]), r)
    /\ rq' = [rq EXCEPT ![r].submitted = TRUE]
    /\ HandleDetachedRequest(n, r, rq)

\* The envelope is out; the data follows, or waits for SYNC_READY.
IsendRest(n, r) ==
    IF rq[r].sync
    THEN sync_data' = Add(sync_data, n, r) /\ UNCHANGED <<sent, rq, detached_requests>>
    ELSE IsendData(n, r) /\ UNCHANGED sync_data

\* R and E are the requests and the envelopes once r is known to be due.
IrecvSize(n, r, R, E) ==
    /\ env' = IF R[r].sync
              THEN Add(E, <<n, R[r].rank>>,
                       [mode |-> "sync_ready", data_tag |-> R[r].data_tag, sync |-> TRUE, of |-> 0])
              ELSE E
    /\ recvd' = Add(recvd, Link(R[r]), r)
    /\ rq' = [R EXCEPT ![r].submitted = TRUE]
    /\ HandleDetachedRequest(n, r, R)
    /\ UNCHANGED sent

\* The data in the early handle of i is copied for a: a detached request ends here,
\* and whoever of a and i is last destroys i.
EarlyDataCb(R, i, a) ==
    IF R[a].detached
    THEN Destroy([R EXCEPT ![i].to_destroy = TRUE, ![a].completed = TRUE],
                 {a} \cup (IF R[i].to_destroy THEN {i} ELSE {}))
    ELSE [R EXCEPT ![a].submitted = TRUE]

-----------------------------------------------------------------------------
(* The application threads                                                 *)

Calls(t, op) == prog[t] # <<>> /\ apc[t] = "run" /\ Head(prog[t]).op = op
Returns(t) == prog' = [prog EXCEPT ![t] = Tail(@)] /\ apc' = [apc EXCEPT ![t] = "run"]
Goes(t, where) == apc' = [apc EXCEPT ![t] = where] /\ UNCHANGED prog

\* isend and irecv: the request counts from here on, its data is being acquired.
WillPost(t) ==
    /\ Calls(t, "willpost")
    /\ Count(Home(t), 1)
    /\ rq' = [rq EXCEPT ![Head(prog[t]).req].willposted = TRUE]
    /\ Returns(t)
    /\ UNCHANGED <<conf, newer_requests, running, lists, tables, envelope_request_submitted, pc, cur, mpi>>

\* The data of a receive is acquired: it takes early data, the envelope of a
\* synchronous send, or waits for an envelope.
SubmitRecv(t) ==
    LET n == Home(t)
        r == Head(prog[t]).req
        e == Find(early_data[n], KeyOf(rq[r]))
        s == Find(sync_data[n], KeyOf(rq[r]))
        i == early_data[n][e]
        R == [rq EXCEPT ![r].internal_req = i]
    IN  /\ Calls(t, "submit") /\ rq[r].willposted /\ rq[r].type = "recv"
        /\ \/ /\ e # 0
              /\ early_data' = Drop(early_data, n, e)
              /\ rq' = IF rq[i].completed THEN EarlyDataCb(R, i, r) ELSE R
              /\ Count(n, IF rq[i].completed /\ rq[r].detached THEN -1 ELSE 0)
              /\ UNCHANGED <<early_request, sync_data, ready_recv_requests>>
           \/ /\ e = 0 /\ s # 0
              /\ sync_data' = Drop(sync_data, n, s)
              /\ rq' = Destroy([rq EXCEPT ![r].sync = TRUE], {sync_data[n][s]})
              /\ ready_recv_requests' = Add(ready_recv_requests, n, [op |-> "recv", req |-> r, by |-> t])
              /\ UNCHANGED <<early_data, early_request, posted_requests>>
           \/ /\ e = 0 /\ s = 0
              /\ early_request' = Add(early_request, n, r)
              /\ UNCHANGED <<rq, early_data, sync_data, ready_recv_requests, posted_requests>>
        /\ Announce(n)
        /\ Returns(t)
        /\ UNCHANGED <<conf, running, ready_send_requests, detached_requests,
                       envelope_request_submitted, cur, mpi>>

\* The data of a send is acquired, and the progression thread is to send it.
SubmitSend(t) ==
    LET n == Home(t)
        r == Head(prog[t]).req
    IN  /\ Calls(t, "submit") /\ rq[r].willposted /\ rq[r].type = "send" /\ ~conf.multiple_send
        /\ ready_send_requests' = Add(ready_send_requests, n, r)
        /\ Announce(n)
        /\ Returns(t)
        /\ UNCHANGED <<conf, rq, posted_requests, running, ready_recv_requests, detached_requests,
                       tables, envelope_request_submitted, cur, mpi>>

\* ... or this thread sends it itself, with send_mutex from the envelope on.
SendBegin(t) ==
    LET r == Head(prog[t]).req
    IN  /\ Calls(t, "submit") /\ rq[r].willposted /\ rq[r].type = "send" /\ conf.multiple_send
        /\ \A u \in Threads : Home(u) = Home(t) => apc[u] # "sending"
        /\ SendEnvelope(r)
        /\ Goes(t, "sending")
        /\ UNCHANGED <<conf, rq, counts, lists, tables, envelope_request_submitted, pc, cur, sent, recvd>>

SendEnd(t) ==
    LET n == Home(t)
    IN  /\ apc[t] = "sending"
        /\ IsendRest(n, Head(prog[t]).req)
        /\ Announce(n)
        /\ Returns(t)
        /\ UNCHANGED <<conf, posted_requests, running, ready_recv_requests, ready_send_requests,
                       early_request, early_data, envelope_request_submitted, cur, env, recvd>>

\* starpu_mpi_wait and starpu_mpi_test have the progression thread call MPI.
AskMpi(t, op) ==
    LET n == Home(t)
        r == Head(prog[t]).req
    IN  /\ Calls(t, op) /\ rq[r].submitted
        /\ Count(n, 1)
        /\ ready_recv_requests' = Add(ready_recv_requests, n, [op |-> op, req |-> r, by |-> t])
        /\ Announce(n)
        /\ Goes(t, op)
        /\ UNCHANGED <<conf, rq, running, ready_send_requests, detached_requests, tables,
                       envelope_request_submitted, cur, mpi>>

Wait(t) == AskMpi(t, "wait")
Test(t) == AskMpi(t, "test")

\* The request completed: it goes, with the internal request that served it.
Finished(t) ==
    LET r == Head(prog[t]).req
    IN  /\ \/ apc[t] = "wait" /\ rq[r].completed
           \/ apc[t] = "flag"
        /\ Count(Home(t), -1)
        /\ rq' = Destroy(rq, {r} \cup ({rq[r].internal_req} \ {0}))
        /\ Returns(t)
        /\ UNCHANGED <<conf, newer_requests, running, lists, tables, envelope_request_submitted, pc, cur, mpi>>

\* starpu_mpi_test returned flag = 0: the application tests again later.
NotYet(t) ==
    /\ apc[t] = "noflag"
    /\ Count(Home(t), -1)
    /\ Goes(t, "run")
    /\ UNCHANGED <<conf, rq, newer_requests, running, lists, tables, envelope_request_submitted, pc, cur, mpi>>

\* The application waits for the callback of a detached request.
Callback(t) ==
    /\ Calls(t, "callback") /\ rq[Head(prog[t]).req].completed
    /\ Returns(t)
    /\ UNCHANGED <<conf, rq, counts, lists, tables, envelope_request_submitted, pc, cur, mpi>>

WaitForAll(t) ==
    LET n == Home(t)
    IN  /\ Calls(t, "wait_for_all")
        /\ \/ posted_requests[n] # 0 /\ Goes(t, "barrier") /\ UNCHANGED newer_requests
           \/ /\ posted_requests[n] = 0
              /\ newer_requests' = [newer_requests EXCEPT ![n] = FALSE]
              /\ Goes(t, "recheck")
        /\ UNCHANGED <<conf, rq, posted_requests, running, lists, tables, envelope_request_submitted, pc, cur, mpi>>

\* After starpu_task_wait_for_all.
Recheck(t) ==
    LET n == Home(t)
    IN  /\ apc[t] = "recheck"
        /\ IF posted_requests[n] # 0 \/ newer_requests[n] THEN Goes(t, "run") ELSE Returns(t)
        /\ UNCHANGED <<conf, rq, counts, lists, tables, envelope_request_submitted, pc, cur, mpi>>

Shutdown(t) ==
    LET n == Home(t)
    IN  /\ Calls(t, "shutdown")
        /\ running' = [running EXCEPT ![n] = FALSE]
        /\ pc' = [pc EXCEPT ![n] = IF @ = "asleep" THEN "recvs" ELSE @]
        /\ Goes(t, "join")
        /\ UNCHANGED <<conf, rq, posted_requests, newer_requests, lists, tables, envelope_request_submitted, cur, mpi>>

Join(t) ==
    /\ apc[t] = "join" /\ pc[Home(t)] = "end"
    /\ Returns(t)
    /\ UNCHANGED <<conf, rq, counts, lists, tables, envelope_request_submitted, pc, cur, mpi>>

Application(t) ==
    \/ WillPost(t) \/ SubmitRecv(t) \/ SubmitSend(t) \/ SendBegin(t) \/ SendEnd(t)
    \/ Wait(t) \/ Test(t) \/ Finished(t) \/ NotYet(t) \/ Callback(t)
    \/ WaitForAll(t) \/ Recheck(t) \/ Shutdown(t) \/ Join(t)

-----------------------------------------------------------------------------
(* The progression thread                                                  *)

At(n, where) == pc' = [pc EXCEPT ![n] = where]
Idle(n) == ready_recv_requests[n] = <<>> /\ ready_send_requests[n] = <<>> /\ detached_requests[n] = <<>>

Over(n) == ~running[n] /\ posted_requests[n] = 0 /\ Idle(n)
\* Mutant: a pending synchronous send does not keep the thread awake.
Block_ForgetsSync(n) == Idle(n) /\ early_request[n] = <<>>

Block(n) == Idle(n) /\ early_request[n] = <<>> /\ sync_data[n] = <<>>

\* The loop ends and the envelope request is cancelled, ...
End(n) ==
    /\ pc[n] = "top" /\ Over(n)
    /\ envelope_request_submitted' = [envelope_request_submitted EXCEPT ![n] = FALSE]
    /\ At(n, "end")
    /\ UNCHANGED <<conf, rq, app, counts, lists, tables, cur, mpi>>

\* ... or blocks after it signaled barrier_cond, ...
Sleep(n) ==
    /\ pc[n] = "top" /\ ~Over(n) /\ Block(n)
    /\ apc' = [t \in Threads |-> IF Home(t) = n /\ apc[t] = "barrier" THEN "run" ELSE apc[t]]
    /\ At(n, "asleep")
    /\ UNCHANGED <<conf, rq, prog, counts, lists, tables, envelope_request_submitted, cur, mpi>>

\* ... or goes on.
AtRecvs(n) == pc[n] = "recvs" \/ (pc[n] = "top" /\ ~Over(n) /\ ~Block(n))

\* The next thing to do on the receiving side. After nready_process of them the others
\* wait for the next round.
PopsRecv(n, op) ==
    /\ AtRecvs(n) /\ ready_recv_requests[n] # <<>> /\ Head(ready_recv_requests[n]).op = op
    /\ ready_recv_requests' = [ready_recv_requests EXCEPT ![n] = Tail(@)]

GoesOn(n) == At(n, IF conf.nready_process = 1 THEN "sends" ELSE "recvs")

HandleRecv(n) ==
    /\ PopsRecv(n, "recv")
    /\ IrecvSize(n, Head(ready_recv_requests[n]).req, rq, env)
    /\ GoesOn(n)
    /\ UNCHANGED <<conf, app, counts, ready_send_requests, tables, envelope_request_submitted, cur>>

\* Everything else has to wait until MPI_Wait returns.
HandleWait(n) ==
    /\ PopsRecv(n, "wait")
    /\ cur' = [cur EXCEPT ![n] = <<Head(ready_recv_requests[n]).req, 0>>]
    /\ At(n, "mpi_wait")
    /\ UNCHANGED <<conf, rq, app, counts, ready_send_requests, detached_requests, tables,
                   envelope_request_submitted, mpi>>

MpiWait(n) ==
    /\ pc[n] = "mpi_wait" /\ MpiDone(cur[n][1])
    /\ rq' = [rq EXCEPT ![cur[n][1]].completed = TRUE]
    /\ Count(n, -1)
    /\ GoesOn(n)
    /\ UNCHANGED <<conf, app, newer_requests, running, lists, tables, envelope_request_submitted, cur, mpi>>

HandleTest(n, flag) ==
    LET r == Head(ready_recv_requests[n]).req
    IN  /\ PopsRecv(n, "test")
        /\ \/ /\ flag /\ MpiDone(r)
              /\ rq' = [rq EXCEPT ![r].completed = TRUE]
              /\ Count(n, -1)
           \/ ~flag /\ ~Null(r) /\ UNCHANGED <<rq, posted_requests>>
        /\ apc' = [apc EXCEPT ![Head(ready_recv_requests[n]).by] = IF flag THEN "flag" ELSE "noflag"]
        /\ GoesOn(n)
        /\ UNCHANGED <<conf, prog, newer_requests, running, ready_send_requests, detached_requests, tables,
                       envelope_request_submitted, cur, mpi>>

\* ndetached_send_requests: a send is counted as long as it is in the list.
NDetachedSends(n) == Len(SelectSeq(detached_requests[n], LAMBDA r : rq[r].type = "send"))

AtSends(n) == pc[n] = "sends" \/ (AtRecvs(n) /\ ready_recv_requests[n] = <<>>)
MaySend(n) ==
    /\ ready_send_requests[n] # <<>>
    /\ conf.ndetached_max = 0 \/ NDetachedSends(n) < conf.ndetached_max

\* The oldest of the sends of the highest priority.
NextSend(n) ==
    LET q == ready_send_requests[n]
    IN  SelectInSeq(q, LAMBDA r : \A k \in DOMAIN q : rq[q[k]].prio <= rq[r].prio)

HandleSend(n) ==
    LET k == NextSend(n)
        r == ready_send_requests[n][k]
    IN  /\ AtSends(n) /\ MaySend(n)
        /\ ready_send_requests' = Drop(ready_send_requests, n, k)
        /\ SendEnvelope(r)
        /\ IsendRest(n, r)
        /\ At(n, IF conf.nready_process = 1 THEN "poll" ELSE "sends")
        /\ UNCHANGED <<conf, app, counts, ready_recv_requests, early_request, early_data,
                       envelope_request_submitted, cur, recvd>>

FirstOf(q) == IF q = <<>> THEN 0 ELSE q[1]
NextOf(q, r) == FirstOf(SubSeq(q, PositionOf(q, r) + 1, Len(q)))

\* An envelope is only expected while somebody waits for one.
Poll(n) ==
    /\ pc[n] = "poll" \/ (AtSends(n) /\ ~MaySend(n))
    /\ envelope_request_submitted' =
           [envelope_request_submitted EXCEPT ![n] = @ \/ early_request[n] # <<>> \/ sync_data[n] # <<>>]
    /\ cur' = [cur EXCEPT ![n] = <<FirstOf(detached_requests[n]), 0>>]
    /\ At(n, "test")
    /\ UNCHANGED <<conf, rq, app, counts, lists, tables, mpi>>

TestDetached(n) ==
    LET r == cur[n][1]
    IN  /\ pc[n] = "test" /\ r # 0
        /\ cur' = [cur EXCEPT ![n] = <<NextOf(detached_requests[n], r), 0>>]
        /\ UNCHANGED <<conf, rq, app, counts, lists, tables, envelope_request_submitted, pc, mpi>>

\* The request is terminated. If it was receiving early data, this serves the receive
\* that has asked for the data meanwhile.
Terminate(n) ==
    LET r == cur[n][1]
        served == {a \in DOMAIN rq : rq[a].internal_req = r}
        R == [rq EXCEPT ![r].completed = TRUE]
    IN  /\ pc[n] = "test" /\ r # 0 /\ MpiDone(r)
        /\ \/ served = {} /\ rq' = R /\ Count(n, -1)
           \/ \E a \in served : /\ rq' = EarlyDataCb(R, r, a)
                                /\ Count(n, IF rq[a].detached THEN -2 ELSE -1)
        /\ cur' = [cur EXCEPT ![n] = <<r, NextOf(detached_requests[n], r)>>]
        /\ At(n, "erase")
        /\ UNCHANGED <<conf, app, newer_requests, running, lists, tables, envelope_request_submitted, mpi>>

\* Mutant: an internal request is destroyed when it completes, as any other.
Erase_Always(n) ==
    LET r == cur[n][1]
    IN  /\ pc[n] = "erase"
        /\ detached_requests' = [detached_requests EXCEPT ![n] = Remove(@, r)]
        /\ rq' = Destroy(rq, {r})
        /\ cur' = [cur EXCEPT ![n] = <<cur[n][2], 0>>]
        /\ At(n, "test")
        /\ UNCHANGED <<conf, app, counts, ready_recv_requests, ready_send_requests, tables,
                       envelope_request_submitted, mpi>>

\* It leaves the list, and is destroyed unless a receive has yet to take its data.
Erase(n) ==
    LET r == cur[n][1]
    IN  /\ pc[n] = "erase"
        /\ detached_requests' = [detached_requests EXCEPT ![n] = Remove(@, r)]
        /\ rq' = IF r < 0 /\ ~rq[r].to_destroy
                 THEN [rq EXCEPT ![r].to_destroy = TRUE]
                 ELSE Destroy(rq, {r})
        /\ cur' = [cur EXCEPT ![n] = <<cur[n][2], 0>>]
        /\ At(n, "test")
        /\ UNCHANGED <<conf, app, counts, ready_recv_requests, ready_send_requests, tables,
                       envelope_request_submitted, mpi>>

\* The envelope that the thread is about to look at: one of the first from each node.
Envelope(n, a) ==
    /\ pc[n] = "test" /\ cur[n][1] = 0
    /\ envelope_request_submitted[n] /\ env[<<a, n>>] # <<>>
    /\ envelope_request_submitted' = [envelope_request_submitted EXCEPT ![n] = FALSE]

Popped(n, a) == [env EXCEPT ![<<a, n>>] = Tail(@)]
Waiting(n, a) == Find(early_request[n], <<a, Head(env[<<a, n>>]).data_tag>>)
Made(n, a, e) == -e.of :> Request("recv", n, a, e.data_tag, e.sync, TRUE, 0)

NoEnvelope(n) ==
    /\ pc[n] = "test" /\ cur[n][1] = 0
    /\ At(n, "top")
    /\ UNCHANGED <<conf, rq, app, counts, lists, tables, envelope_request_submitted, cur, mpi>>

\* The receiver is ready for a synchronous send, which sync_data must have.
EnvelopeSyncReady(n, a) ==
    LET e == Head(env[<<a, n>>])
        k == Find(sync_data[n], <<a, e.data_tag>>)
    IN  /\ Envelope(n, a) /\ e.mode = "sync_ready"
        /\ env' = Popped(n, a)
        /\ IF k # 0 /\ rq[sync_data[n][k]].type = "send"
           THEN IsendData(n, sync_data[n][k]) /\ sync_data' = Drop(sync_data, n, k) /\ At(n, "top")
           ELSE At(n, "crashed") /\ UNCHANGED <<sent, rq, detached_requests, sync_data>>
        /\ UNCHANGED <<conf, app, counts, ready_recv_requests, ready_send_requests,
                       early_request, early_data, cur, recvd>>

\* A receive was waiting for it.
EnvelopeExpected(n, a) ==
    LET e == Head(env[<<a, n>>])
        k == Waiting(n, a)
        r == early_request[n][k]
    IN  /\ Envelope(n, a) /\ e.mode = "data" /\ k # 0
        /\ early_request' = Drop(early_request, n, k)
        /\ IrecvSize(n, r, [rq EXCEPT ![r].sync = e.sync], Popped(n, a))
        /\ At(n, "top")
        /\ UNCHANGED <<conf, app, counts, ready_recv_requests, ready_send_requests,
                       early_data, sync_data, cur>>

\* Nobody waits for it: a synchronous send has to wait for its receive ...
EnvelopeSync(n, a) ==
    LET e == Head(env[<<a, n>>])
    IN  /\ Envelope(n, a) /\ e.mode = "data" /\ Waiting(n, a) = 0 /\ e.sync
        /\ env' = Popped(n, a)
        /\ rq' = rq @@ Made(n, a, e)
        /\ sync_data' = Add(sync_data, n, -e.of)
        /\ At(n, "top")
        /\ UNCHANGED <<conf, app, counts, lists, early_request, early_data, cur, sent, recvd>>

\* Mutant: the internal request takes its turn in the list of ready requests.
EnvelopeEarly_Queued(n, a) ==
    LET e == Head(env[<<a, n>>])
    IN  /\ Envelope(n, a) /\ e.mode = "data" /\ Waiting(n, a) = 0 /\ ~e.sync
        /\ early_data' = Add(early_data, n, -e.of)
        /\ Count(n, 1)
        /\ rq' = rq @@ Made(n, a, e)
        /\ env' = Popped(n, a)
        /\ ready_recv_requests' = Add(ready_recv_requests, n, [op |-> "recv", req |-> -e.of, by |-> <<n, 0>>])
        /\ newer_requests' = [newer_requests EXCEPT ![n] = TRUE]
        /\ At(n, "top")
        /\ UNCHANGED <<conf, app, running, ready_send_requests, detached_requests,
                       early_request, sync_data, cur, sent, recvd>>

\* ... and other data is received at once, before the next envelope.
EnvelopeEarly(n, a) ==
    LET e == Head(env[<<a, n>>])
    IN  /\ Envelope(n, a) /\ e.mode = "data" /\ Waiting(n, a) = 0 /\ ~e.sync
        /\ early_data' = Add(early_data, n, -e.of)
        /\ Count(n, 1)
        /\ IrecvSize(n, -e.of, rq @@ Made(n, a, e), Popped(n, a))
        /\ newer_requests' = [newer_requests EXCEPT ![n] = TRUE]
        /\ At(n, "top")
        /\ UNCHANGED <<conf, app, running, ready_recv_requests, ready_send_requests,
                       early_request, sync_data, cur>>

TestEnvelope(n) ==
    \E a \in Nodes : \/ EnvelopeSyncReady(n, a) \/ EnvelopeExpected(n, a)
                     \/ EnvelopeSync(n, a) \/ EnvelopeEarly(n, a)

\* The tests that find something.
Flagged(n) == Terminate(n) \/ HandleTest(n, TRUE) \/ TestEnvelope(n)

Progress(n) ==
    \/ End(n) \/ Sleep(n) \/ HandleRecv(n) \/ HandleWait(n) \/ MpiWait(n) \/ HandleTest(n, FALSE)
    \/ HandleSend(n) \/ Poll(n) \/ TestDetached(n) \/ Erase(n) \/ NoEnvelope(n) \/ Flagged(n)

-----------------------------------------------------------------------------
Next ==
    \/ \E t \in Threads : Application(t)
    \/ \E n \in Nodes : Progress(n)

\* Threads are scheduled, and a test that is repeated for ever does not miss for ever what
\* MPI has. There are finitely many envelopes and requests, so that one condition for all
\* the tests of a node is enough.
Fairness ==
    /\ \A t \in UNION {DOMAIN c.script : c \in Confs} : WF_vars(t \in Threads /\ Application(t))
    /\ \A n \in Nodes : WF_vars(Progress(n)) /\ SF_vars(Flagged(n))

Spec == Init /\ [][Next]_vars /\ Fairness

-----------------------------------------------------------------------------
(* Properties                                                              *)

TypeOK ==
    /\ \A n \in Nodes : posted_requests[n] \in Nat /\ newer_requests[n] \in BOOLEAN /\ running[n] \in BOOLEAN
    /\ \A n \in Nodes : Range(early_request[n]) \cup Range(early_data[n]) \cup Range(sync_data[n])
                          \cup Range(detached_requests[n]) \cup Range(ready_send_requests[n]) \subseteq DOMAIN rq

\* How many requests of the application come before r on the same nodes and tag.
RankOf(r) ==
    Cardinality({x \in DOMAIN conf.requests :
                    /\ x < r
                    /\ conf.requests[x].type = rq[r].type /\ conf.requests[x].at = rq[r].at
                    /\ KeyOf(conf.requests[x]) = KeyOf(rq[r])})

\* The data a receive ended up with.
Received(r) == Message(IF rq[r].internal_req # 0 THEN rq[r].internal_req ELSE r)

\* A receive that completed holds the data of the send it is paired with: the k-th receive
\* from a node with a tag has the k-th send to here with that tag. Data messages carry no
\* tag, so this depends on receives being posted in the order of the envelopes, whether
\* they were expected or early.
DataInOrder ==
    \A r \in DOMAIN conf.requests :
        rq[r].type = "recv" /\ rq[r].completed =>
            LET s == Received(r)
            IN  /\ rq[s].at = rq[r].rank /\ rq[s].rank = rq[r].at /\ rq[s].data_tag = rq[r].data_tag
                /\ RankOf(s) = RankOf(r)

Held(n) ==
    Range(early_request[n]) \cup Range(early_data[n]) \cup Range(sync_data[n]) \cup Range(detached_requests[n])
    \cup Range(ready_send_requests[n]) \cup {e.req : e \in Range(ready_recv_requests[n])}

\* Every request is destroyed once: never while a list or a table holds it, never by two of
\* the application, the progression thread and the callback of the early data, and all of
\* them by the time everybody has returned. When the progression thread ends, nothing is
\* left in its lists and tables, as it asserts, and no SYNC_READY misses its send.
RequestsSettled ==
    /\ \A r \in DOMAIN rq : rq[r].destroyed <= 1
    /\ \A n \in Nodes : \A r \in Held(n) : rq[r].destroyed = 0
    /\ \A n \in Nodes : pc[n] = "end" => posted_requests[n] = 0 /\ Held(n) = {}
    /\ \A n \in Nodes : pc[n] # "crashed"
    /\ (\A t \in Threads : prog[t] = <<>>) => \A r \in DOMAIN rq : rq[r].destroyed = 1

\* Every call returns: waits and tests that are repeated, starpu_mpi_wait_for_all, and the
\* shutdown, which waits for the progression thread.
CallsReturn == <>(\A t \in Threads : prog[t] = <<>>)

=============================================================================
