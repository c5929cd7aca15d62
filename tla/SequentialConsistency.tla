----------------------- MODULE SequentialConsistency -----------------------
(***************************************************************************)
(* What the implicit data dependencies promise (doc/doxygen/chapters/      *)
(* starpu_extensions/advanced_tasks.doxy, "Sequential Consistency"):       *)
(* whoever accesses data, tasks or the application, does so as if in the   *)
(* order in which the accesses were submitted.  Only accesses that commute *)
(* may overlap or be exchanged.                                            *)
(***************************************************************************)
EXTENDS Naturals, Sequences

CONSTANTS Accessors, Handles, Modes

VARIABLES hist,   \* of a handle: the accesses submitted, in order
          phase   \* of an accessor: "out", "in" or "done"

\* Two accesses that may be exchanged: reads, commuting writes, reductions.
Concurrent(m, n) ==
    \/ m \in {"WC", "RWC"} /\ n \in {"WC", "RWC"}
    \/ m = n /\ m \in {"R", "REDUX"}

Access == [who : Accessors, mode : Modes]

Init ==
    /\ hist = [h \in Handles |-> <<>>]
    /\ phase = [a \in Accessors |-> "out"]

Submit(a, h, m) ==
    /\ phase[a] = "out"
    /\ hist' = [hist EXCEPT ![h] = Append(@, [who |-> a, mode |-> m])]
    /\ UNCHANGED phase

\* The accesses that a has to wait for are over.
MayBegin(a) ==
    \A h \in Handles : \A i, j \in DOMAIN hist[h] :
        /\ i < j /\ hist[h][j].who = a /\ hist[h][i].who # a
        /\ ~Concurrent(hist[h][i].mode, hist[h][j].mode)
        => phase[hist[h][i].who] = "done"

Begin(a) ==
    /\ phase[a] = "out" /\ MayBegin(a)
    /\ phase' = [phase EXCEPT ![a] = "in"]
    /\ UNCHANGED hist

End(a) ==
    /\ phase[a] = "in"
    /\ phase' = [phase EXCEPT ![a] = "done"]
    /\ UNCHANGED hist

\* An access that writes becomes one that reads.
Downgrade(a, h) ==
    /\ phase[a] = "in"
    /\ \E i \in DOMAIN hist[h] : hist[h][i].who = a
    /\ hist' = [hist EXCEPT ![h] = [i \in DOMAIN @ |->
                    IF @[i].who = a THEN [@[i] EXCEPT !.mode = "R"] ELSE @[i]]]
    /\ UNCHANGED phase

Next ==
    \E a \in Accessors :
        \/ Begin(a) \/ End(a)
        \/ \E h \in Handles : Downgrade(a, h) \/ \E m \in Modes : Submit(a, h, m)

Spec == Init /\ [][Next]_<<hist, phase>>
=============================================================================
