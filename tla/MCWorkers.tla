------------------------------ MODULE MCWorkers ------------------------------
(***************************************************************************)
(* Instances of Workers for TLC: two workers, two application threads.     *)
(* c1, c2, c4 go through the central queue and run anywhere, c3 is         *)
(* released by c2 and needs worker 2; l1 is pushed to worker 2; o1 to o4   *)
(* are ordered tasks of worker 1.                                          *)
(***************************************************************************)
EXTENDS Workers
CONSTANTS a1, a2, c1, c2, c3, c4, l1, o1, o2, o3, o4

Push(k) == [op |-> "push", task |-> k]
Loop(o, ws) == [op |-> o, ws |-> ws]
Stop(ks) == <<[op |-> "wait", tasks |-> ks], [op |-> "kill"]>>

\* Central pushes, one task releasing another, while contexts change.
PushAndChange == (a1 :> <<Push(c1), Push(c2)>> \o Stop({c1, c2, c3}))
              @@ (a2 :> <<Loop("notify", <<1, 2>>), Loop("done", <<1, 2>>)>>)
\* Parallel code after pushes, next to a context change and a local push.
Parallel == (a1 :> <<Push(c1), Loop("block", <<1, 2>>), Loop("unblock", <<1, 2>>), Push(c4)>>
                   \o Stop({c1, c4, l1}))
         @@ (a2 :> <<Push(l1), Loop("notify", <<1>>), Loop("done", <<1>>)>>)
\* A context without policy is created (its workers but the master are
\* blocked inside the change), runs parallel code and is deleted.
NoPolicyCtx == (a1 :> <<Push(l1)>> \o Stop({l1}))
            @@ (a2 :> <<Loop("notify", <<1, 2>>), Loop("block", <<2>>), Loop("done", <<1, 2>>),
                        Loop("block", <<1, 2>>), Loop("unblock", <<1, 2>>),
                        Loop("notify", <<1, 2>>), Loop("unblock", <<2>>), Loop("done", <<1, 2>>)>>)
\* Ordered tasks pushed out of order by two threads; the ring may have to grow
\* while its head is not the first slot.
Ordered == (a1 :> <<Push(o1), Push(o4)>> \o Stop({o1, o2, o3, o4}))
        @@ (a2 :> <<Push(o2), Push(o3)>>)

\* Scripts that the passing run leaves out: a push to the central queue while a block is
\* requested, and two threads that run parallel code on the same worker.
PushDuringBlock == (a1 :> <<Loop("block", <<1, 2>>), Loop("unblock", <<1, 2>>)>> \o Stop({c1}))
                @@ (a2 :> <<Push(c1)>>)
TwoBlocks == (a1 :> <<Loop("block", <<1>>), Loop("unblock", <<1>>)>> \o Stop({}))
          @@ (a2 :> <<Loop("block", <<1>>), Loop("unblock", <<1>>)>>)

MCScripts == {PushAndChange, Parallel, NoPolicyCtx, Ordered}
MCPushDuringBlock == {PushDuringBlock}
MCTwoBlocks == {TwoBlocks}
MCWhere == [k \in Tasks |-> CASE k = c3 -> {2} [] k = l1 -> {2}
                              [] k \in {o1, o2, o3, o4} -> {1} [] OTHER -> {1, 2}]
MCOn == [k \in Tasks |-> CASE k = l1 -> 2 [] k \in {o1, o2, o3, o4} -> 1 [] OTHER -> 0]
MCOrder == [k \in Tasks |-> CASE k = o1 -> 1 [] k = o2 -> 2 [] k = o3 -> 3 [] k = o4 -> 4 [] OTHER -> 0]
MCReleases == [k \in Tasks |-> IF k = c2 THEN <<c3>> ELSE <<>>]
=============================================================================
