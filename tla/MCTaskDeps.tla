----------------------------- MODULE MCTaskDeps -----------------------------
(* TaskDeps for TLC: the kinds of application that the runs consider.       *)
EXTENDS TaskDeps

Mix(regenerable, detached, end_deps, declare_on) ==
    [regenerable |-> regenerable, detached |-> detached, end_deps |-> end_deps,
     declare_on |-> declare_on]

\* One-shot tasks, one of them detached, named at any quiet time, with end
\* dependencies; and regenerable tasks.
AllMixes == {Mix({}, {1}, TRUE, "quiet"), Mix({1, 2, 3}, {}, FALSE, "none")}

\* Declarations at any time the API allows.
AnyMix == {Mix({}, {}, FALSE, "any")}
=============================================================================
