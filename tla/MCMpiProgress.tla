--------------------------- MODULE MCMpiProgress ---------------------------
(***************************************************************************)
(* Small programs for MpiProgress.                                         *)
(***************************************************************************)
EXTENDS MpiProgress

CONSTANTS A, B

Do(op, r) == [op |-> op, req |-> r]
Post(r) == <<Do("willpost", r), Do("submit", r)>>
PostWait(r) == Append(Post(r), Do("wait", r))
PostTest(r) == Append(Post(r), Do("test", r))
Leave == <<Do("wait_for_all", 0), Do("shutdown", 0)>>

Send(n, m, tag, sync, detached) == Request("send", n, m, tag, sync, detached, 0)
Recv(n, m, tag, detached) == Request("recv", n, m, tag, FALSE, detached, 0)
Urgent(q) == [q EXCEPT !.prio = 1]

Conf(requests, script, multiple, eager, max, nready) ==
    [requests |-> requests, script |-> script, multiple_send |-> multiple,
     eager |-> eager, ndetached_max |-> max, nready_process |-> nready]

\* Two sends with one tag and one with another; the receives are in another order, and a
\* test may be ahead of what an envelope makes ready.
Tags ==
    Conf(<<Send(A, B, 1, FALSE, TRUE), Send(A, B, 1, FALSE, TRUE), Urgent(Send(A, B, 2, FALSE, FALSE)),
           Recv(B, A, 2, TRUE), Recv(B, A, 1, FALSE), Recv(B, A, 1, TRUE)>>,
         (<<A, 1>> :> Post(1) \o Post(2) \o PostWait(3) \o Leave)
         @@ (<<B, 1>> :> Post(4) \o PostTest(5) \o Post(6) \o Leave),
         FALSE, {}, 2, 1)

\* Two sends that the application makes itself.
Direct(eager) ==
    Conf(<<Send(A, B, 1, FALSE, TRUE), Send(A, B, 2, FALSE, FALSE), Recv(B, A, 2, TRUE), Recv(B, A, 1, FALSE)>>,
         (<<A, 1>> :> Post(1) \o PostWait(2) \o Leave)
         @@ (<<B, 1>> :> Post(3) \o PostWait(4) \o Leave),
         TRUE, eager, 1, 1)

\* Two synchronous sends, received in another order.
Sync ==
    Conf(<<Send(A, B, 1, TRUE, TRUE), Send(A, B, 2, TRUE, FALSE), Recv(B, A, 2, TRUE), Recv(B, A, 1, FALSE)>>,
         (<<A, 1>> :> Post(1) \o PostWait(2) \o Leave) @@ (<<B, 1>> :> Post(3) \o PostWait(4) \o Leave),
         FALSE, {}, 0, 1)

\* A synchronous send, and data that comes back meanwhile.
Back ==
    Conf(<<Send(A, B, 1, TRUE, TRUE), Recv(B, A, 1, FALSE), Send(B, A, 3, FALSE, TRUE), Recv(A, B, 3, TRUE)>>,
         (<<A, 1>> :> Post(1) \o Post(4) \o Leave) @@ (<<B, 1>> :> Post(3) \o PostTest(2) \o Leave),
         FALSE, {3}, 0, 10)

\* A synchronous send that the application makes itself, with nothing else pending.
Ready ==
    Conf(<<Send(A, B, 1, TRUE, FALSE), Recv(B, A, 1, TRUE)>>,
         (<<A, 1>> :> PostWait(1) \o Leave) @@ (<<B, 1>> :> Post(2) \o Leave),
         TRUE, {}, 0, 10)

\* Another thread makes the data of a receive available, and posts one of its own, while
\* the first one waits for everything.
Late ==
    Conf(<<Send(A, B, 1, FALSE, TRUE), Recv(B, A, 1, TRUE), Recv(B, A, 2, TRUE), Send(A, B, 2, FALSE, TRUE)>>,
         (<<A, 1>> :> Post(1) \o Post(4) \o Leave)
         @@ (<<B, 1>> :> <<Do("willpost", 3), Do("wait_for_all", 0), Do("callback", 2)>> \o Leave)
         @@ (<<B, 2>> :> <<Do("submit", 3)>> \o Post(2)),
         TRUE, {1}, 0, 10)

\* Programs that the passing run leaves out.

\* Each node posts its receive, then sends and waits for the send.
Exchange ==
    Conf(<<Recv(A, B, 1, TRUE), Send(A, B, 2, FALSE, FALSE), Recv(B, A, 2, TRUE), Send(B, A, 1, FALSE, FALSE)>>,
         (<<A, 1>> :> Post(1) \o PostWait(2) \o Leave) @@ (<<B, 1>> :> Post(3) \o PostWait(4) \o Leave),
         FALSE, {}, 0, 10)

\* Synchronous sends both ways with one tag.
BothWays ==
    Conf(<<Send(A, B, 1, TRUE, TRUE), Recv(A, B, 1, TRUE), Send(B, A, 1, TRUE, TRUE), Recv(B, A, 1, TRUE)>>,
         (<<A, 1>> :> Post(1) \o Post(2) \o Leave) @@ (<<B, 1>> :> Post(3) \o Post(4) \o Leave),
         FALSE, {}, 0, 10)

\* Two synchronous sends with one tag.
SyncTwice ==
    Conf(<<Send(A, B, 1, TRUE, TRUE), Send(A, B, 1, TRUE, TRUE), Recv(B, A, 1, TRUE), Recv(B, A, 1, TRUE),
           Recv(B, A, 2, TRUE), Send(A, B, 2, FALSE, TRUE)>>,
         (<<A, 1>> :> Post(1) \o Post(2) \o Post(6) \o Leave)
         @@ (<<B, 1>> :> Post(5) \o Post(3) \o Post(4) \o Leave),
         FALSE, {}, 0, 10)

\* A synchronous send, made by the application while a receive is pending.
SyncDirect ==
    Conf(<<Recv(A, B, 2, TRUE), Send(A, B, 1, TRUE, TRUE), Recv(B, A, 1, TRUE), Send(B, A, 2, FALSE, TRUE)>>,
         (<<A, 1>> :> Post(1) \o Post(2) \o Leave) @@ (<<B, 1>> :> Post(3) \o Post(4) \o Leave),
         TRUE, {}, 0, 10)

\* One thread waits for its request, another one for all.
WaitTwice ==
    Conf(<<Send(A, B, 1, FALSE, FALSE), Recv(B, A, 1, TRUE)>>,
         (<<A, 1>> :> Post(1) \o Leave) @@ (<<A, 2>> :> <<Do("wait", 1)>>) @@ (<<B, 1>> :> Post(2) \o Leave),
         FALSE, {}, 0, 10)

\* A synchronous send and then another one, with one tag.
Mixed ==
    Conf(<<Send(A, B, 1, TRUE, TRUE), Send(A, B, 1, FALSE, TRUE), Recv(B, A, 1, TRUE), Recv(B, A, 1, TRUE),
           Recv(B, A, 2, TRUE), Send(A, B, 2, FALSE, TRUE)>>,
         (<<A, 1>> :> Post(1) \o Post(2) \o Post(6) \o Leave)
         @@ (<<B, 1>> :> Post(5) \o Post(3) \o Post(4) \o Leave),
         FALSE, {}, 0, 10)

MCNodes == {A, B}
MCConfs == {Tags, Direct({}), Direct({1, 2}), Sync, Back, Ready, Late}

MCExchange == {Exchange}
MCBothWays == {BothWays}
MCSyncTwice == {SyncTwice}
MCMixed == {Mixed}
MCSyncDirect == {SyncDirect}
MCWaitTwice == {WaitTwice}
============================================================================
