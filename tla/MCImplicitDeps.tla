--------------------------- MODULE MCImplicitDeps ---------------------------
(* Small instances of ImplicitDeps for TLC. *)
EXTENDS ImplicitDeps

Buffer(h, m) == [handle |-> h, mode |-> m]
Task(s) == [kind |-> "task", access |-> s]
User(k, m) == [kind |-> k, access |-> <<Buffer(1, m)>>]

AtMostOne(k, p) == \A a, c \in Accessors : p[a].kind \in k /\ p[c].kind \in k => a = c

\* On one handle: tasks that read, write, or write in any order, and an acquisition.
OneHandle ==
    {p \in [Accessors -> {Task(<<Buffer(1, m)>>) : m \in {"R", "W", "RWC"}}
                         \cup {User("acquire", "RW")}] : AtMostOne({"acquire"}, p)}

\* Acquisitions that overlap.
Acquisitions == [Accessors -> {User("acquire", "R"), Task(<<Buffer(1, "W")>>)}]

\* On two handles, with several buffers on a handle, and an acquisition without
\* dependencies.
TwoHandles ==
    {p \in [Accessors -> {Task(<<Buffer(1, "RW"), Buffer(2, "R")>>),
                          Task(<<Buffer(1, "W"), Buffer(1, "R"), Buffer(2, "RW")>>),
                          Task(<<Buffer(1, "R")>>),
                          User("free", "W"), User("try", "R")}] :
        AtMostOne({"free", "try"}, p) /\ p[4] = Task(<<Buffer(1, "R")>>)}

Orders == OneHandle \cup Acquisitions \cup TwoHandles

\* Acquisitions that do and that do not ask for sequential consistency.
Mixed == [Accessors -> {User("acquire", "R"), User("free", "R"), User("try", "R")}]

\* A task that names a handle twice, in two modes that exclude each other though each of
\* them may be shared.
Twice ==
    {<<Task(<<Buffer(1, "WC")>>), Task(<<Buffer(1, "WC"), Buffer(1, "R")>>),
       Task(<<Buffer(1, "R")>>)>>}

SameThread == [a \in Accessors |-> 1]
OwnThreads == [a \in Accessors |-> a]
=============================================================================
