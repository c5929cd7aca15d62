----------------------------- MODULE MCCoherency -----------------------------
(***************************************************************************)
(* Instances of Coherency: a main memory and two devices without a direct  *)
(* link between them.                                                      *)
(***************************************************************************)
EXTENDS Coherency

MCLinks == {<<0, 0>>, <<0, 1>>, <<1, 0>>, <<0, 2>>, <<2, 0>>, <<1, 1>>, <<2, 2>>}

Acc(k, m, n, p, l, as) ==
  [kind |-> k, mode |-> m, node |-> n, pre |-> p, level |-> l, async |-> as,
   waits |-> 0, through |-> {}, read |-> 0]

Task(m, n) == Acc("task", m, n, {}, FETCH, TRUE)

Waiting(m, n) == Acc("task", m, n, {}, FETCH, FALSE)

Prefetched(m, n, p, l) == Acc("task", m, n, p, l, TRUE)

Prefetch(n, l) == Acc("prefetch", R, n, {}, l, TRUE)

\* The prefetch of a task joins the load of another task on the same device.
Joined == {<<Task(R, 1), Prefetched(R, 1, {1}, TASK_PREFETCH)>>}

\* Readers and writers of all kinds, on all nodes, with prefetches; none joins the
\* load of another task on a device and runs there.
Mixed ==
  {<<x, y, z>> :
     x \in {Waiting(RW, 1), Prefetched(W, 1, {2}, TASK_PREFETCH)},
     y \in {Prefetched(R, 2, {1}, IDLEFETCH), Prefetched(RW, 2, {1}, TASK_PREFETCH)},
     z \in {Prefetch(2, IDLEFETCH), Task(R, 1)}}
  \cup {<<Waiting(RW, 1), Task(W, 0), Prefetch(2, IDLEFETCH)>>,
        <<Waiting(RW, 1), Prefetched(R, 0, {0}, TASK_PREFETCH), Task(R, 0)>>}

MCWtMasks == {{}, {0, 2}}

=============================================================================
