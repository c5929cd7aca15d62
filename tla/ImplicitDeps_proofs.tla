------------------------ MODULE ImplicitDeps_proofs ------------------------
(***************************************************************************)
(* Proofs about ImplicitDeps, for any accessors, threads, handles and      *)
(* programs: the dependencies inferred from accesses implement             *)
(* SequentialConsistency.                                                  *)
(*                                                                         *)
(* A handle only remembers its last synchronisation task and the accessors *)
(* since.  The argument is that an access that is not over can always be   *)
(* reached from there by following dependencies, so that whoever comes     *)
(* next and depends on what the handle remembers depends on it.            *)
(***************************************************************************)
EXTENDS ImplicitDeps_base

Self(m) == Concurrent(m, m)

\* A task that names a handle twice does not do so in two modes that are each
\* shared by several accessors, and not with each other.
OneClass ==
    \A p \in Programs, a \in Accessors : \A i, k \in DOMAIN p[a].access :
        LET x == p[a].access[i]
            y == p[a].access[k]
        IN x.handle = y.handle /\ Self(x.mode) /\ Self(y.mode)
             => Concurrent(x.mode, y.mode)

\* What has to be over before a job is: an acquisition waits through its pre_sync task.
Needs(j) == IF j[2] = 0 THEN deps[PreSync(j[1])] ELSE deps[j]

Closed(S) == \A j \in S : Needs(j) \subseteq S

\* Job k is j, or is needed by it, directly or through other jobs.
Covers(j, k) == \A S \in SUBSET Jobs : j \in S /\ Closed(S) => k \in S

\* What a handle remembers.
Remembered ==
    \A h \in Handles :
        /\ \A s \in accessors[h] :
             \E a \in Accessors :
                /\ s[1] = Main(a) /\ kind[a] \in {"task", "acquire"}
                /\ s[2] \in 1..Len(access[a]) /\ Handle(a, s[2]) = h
                /\ Self(last_submitted_mode[h]) => Concurrent(Mode(a, s[2]), last_submitted_mode[h])
                /\ last_sync_task[h] = None \/ Covers(s[1], last_sync_task[h])
        /\ ~Self(last_submitted_mode[h]) => \A s, t \in accessors[h] : s = t

\* Accessor a accesses h in mode m, with sequential consistency.
Has(a, h, m) ==
    /\ kind[a] \in {"task", "acquire"}
    /\ \E b \in 1..Len(access[a]) : Handle(a, b) = h /\ Mode(a, b) = m

\* The history is one of accesses.
Recorded ==
    \A h \in Handles : \A i \in 1..Len(hist[h]) : Has(hist[h][i].who, h, hist[h][i].mode)

\* An access that is not over is reached from what the handle remembers; from its last
\* synchronisation task when it conflicts with the mode of the accessors since.
Reached ==
    \A h \in Handles : \A i \in 1..Len(hist[h]) :
        LET j == Main(hist[h][i].who)
            last == last_sync_task[h]
        IN ~Past(j) =>
            /\ (\E s \in accessors[h] : Covers(s[1], j)) \/ (last # None /\ Covers(last, j))
            /\ Self(last_submitted_mode[h])
                 /\ ~Concurrent(hist[h][i].mode, last_submitted_mode[h])
                 => last # None /\ Covers(last, j)

\* Conflicting accesses are over, or needed by the later of the two.
Ordered ==
    \A h \in Handles : \A i, k \in 1..Len(hist[h]) :
        /\ i < k /\ hist[h][i].who # hist[h][k].who
        /\ ~Concurrent(hist[h][i].mode, hist[h][k].mode)
        => Past(Main(hist[h][i].who)) \/ Covers(Main(hist[h][k].who), Main(hist[h][i].who))

IInv == Types /\ Carried /\ Stages /\ Remembered /\ Recorded /\ Reached /\ Ordered

-----------------------------------------------------------------------------
(* Following dependencies.                                                 *)

\* What is over needs nothing that is not.
PastClosed == \A j \in Jobs : Past(j) => \A k \in Needs(j) : k \in Jobs /\ Past(k)

\* A job reaches itself.
LEMMA CoversRefl == \A j \in Jobs : Covers(j, j)
BY Zenon DEF Covers

\* Reaching is transitive.
LEMMA CoversTrans ==
  \A j, k, l \in Jobs : Covers(j, k) /\ Covers(k, l) => Covers(j, l)
BY Zenon DEF Covers

\* A job reaches those it depends on.
LEMMA CoversNeed == \A j \in Jobs : \A k \in Needs(j) : Covers(j, k)
BY Zenon DEF Covers, Closed

\* Whatever a job that is over needs, directly or not, is over.
PastCovers == \A j, k \in Jobs : Past(j) /\ Covers(j, k) => Past(k)

\* When what is over only needs what is over, it only reaches that.
LEMMA CoversPast == PastClosed => PastCovers
<1> SUFFICES ASSUME PastClosed, NEW j \in Jobs, NEW k \in Jobs, Past(j), Covers(j, k)
             PROVE  Past(k)
  BY Zenon DEF PastCovers
<1> DEFINE S == {x \in Jobs : Past(x)}
<1>1. S \in SUBSET Jobs /\ j \in S
  BY Zenon
<1>2. Closed(S)
  BY Zenon DEF PastClosed, Closed
<1>3. QED
  BY <1>1, <1>2, Zenon DEF Covers

\* In the stages that accessors and jobs go through, jobs that are over need none that
\* is not.
LEMMA StagesClosed == Types /\ Stages => PastClosed
<1> SUFFICES ASSUME Types, Stages, NEW j \in Jobs, Past(j), NEW k \in Needs(j)
             PROVE  k \in Jobs /\ Past(k)
  BY Zenon DEF PastClosed
<1>1. PICK a \in Accessors, b \in 0..Pre : j = <<a, b>>
  BY DEF Jobs
<1>2. k \in Jobs
  BY <1>1, JobsOf, Zenon DEF Needs, Types, TypeOK, Main
<1>3. CASE b = 0
  BY <1>1, <1>2, <1>3, JobsOf, Zenon DEF Needs, Past, Stages, TaskStage, UserStage, PreSync, Main, Types
<1>4. CASE b # 0
  <2>1. b \in 1..Pre
    BY <1>4, SizesAssumption DEF Pre
  <2>2. jpc[<<a, b>>] \notin {"none", "submitted"} /\ k \in deps[<<a, b>>]
    BY <1>1, <1>4, Zenon DEF Past, Needs
  <2>3. QED
    BY <1>2, <2>1, <2>2, Zenon DEF Stages, SyncStage
<1>5. QED
  BY <1>3, <1>4, Zenon

\* The same after a step.
LEMMA StagesClosedNext == Types' /\ Stages' => PastClosed'
BY StagesClosed, PTL

\* The same after a step.
LEMMA CoversPastNext == PastClosed' => PastCovers'
BY CoversPast, PTL

-----------------------------------------------------------------------------
(* Steps that infer no dependency.                                         *)

-----------------------------------------------------------------------------
(* Steps that infer no dependency.                                         *)

\* After such a step, all that is reached from handles stays so.
LEMMA HandlesKept ==
  ASSUME IInv, Types', Stages', Forgetful
  PROVE  Remembered' /\ Recorded' /\ Reached' /\ Ordered'
<1> USE DEF Forgetful
<1>1. \A j, k : Covers(j, k)' = Covers(j, k)
  BY Zenon DEF Covers, Closed, Needs, PreSync, Main
<1>2. PastCovers'
  BY StagesClosedNext, CoversPastNext, Zenon
<1>3. \A h \in Handles : /\ last_sync_task[h] \in Jobs \cup {None}
                         /\ accessors[h] \subseteq Jobs \X (1..MaxBuffers)
  BY Zenon DEF IInv, Types, TypeOK
<1>4. \A h \in Handles : \A i \in 1..Len(hist[h]) : Main(hist[h][i].who) \in Jobs
  BY Elements, JobsOf, Zenon DEF IInv
<1>5. Remembered'
  <2> SUFFICES ASSUME NEW h \in Handles
               PROVE  LET m == last_submitted_mode'[h] IN
                      /\ \A s \in accessors'[h] :
                           \E a \in Accessors :
                              /\ s[1] = Main(a) /\ kind[a] \in {"task", "acquire"}
                              /\ s[2] \in 1..Len(access[a]) /\ Handle(a, s[2]) = h
                              /\ Self(m) => Concurrent(Mode(a, s[2]), m)
                              /\ last_sync_task'[h] = None \/ Covers(s[1], last_sync_task'[h])
                      /\ ~Self(m) => \A s, t \in accessors'[h] : s = t
    BY <1>1 DEF Remembered, Handle, Mode, Main, Self, Concurrent
  <2>1. last_sync_task'[h] \in {last_sync_task[h], None}
    BY <1>3, Zenon
  <2>2. QED
    BY <2>1 DEF IInv, Remembered
<1>6. Recorded'
  <2>1. \A a, h, m : Has(a, h, m)' = Has(a, h, m)
    BY Zenon DEF Has, Handle, Mode
  <2>2. QED
    BY <2>1, Zenon DEF IInv, Recorded
<1>7. Reached'
  <2> SUFFICES ASSUME NEW h \in Handles, NEW i \in 1..Len(hist[h]),
                      ~Past(Main(hist[h][i].who))'
               PROVE  LET j == Main(hist[h][i].who)
                          last == last_sync_task'[h]
                          m == last_submitted_mode'[h]
                      IN /\ (\E s \in accessors'[h] : Covers(s[1], j)) \/ (last # None /\ Covers(last, j))
                         /\ Self(m) /\ ~Concurrent(hist[h][i].mode, m)
                              => last # None /\ Covers(last, j)
    BY <1>1 DEF Reached, Main, Self, Concurrent
  <2> DEFINE j == Main(hist[h][i].who)
  <2>1. j \in Jobs /\ ~Past(j) /\ ~Past(j)'
    BY <1>4, Zenon DEF Main, PastKept
  <2>2. ASSUME NEW x \in Jobs, Covers(x, j) PROVE ~Past(x)'
    BY <1>1, <1>2, <2>1, <2>2, Zenon DEF PastCovers
  <2>3. ASSUME last_sync_task[h] # None, Covers(last_sync_task[h], j)
        PROVE  last_sync_task'[h] = last_sync_task[h]
    BY <1>3, <2>2, <2>3, Zenon
  <2>4. ASSUME NEW s \in accessors[h], Covers(s[1], j)
        PROVE  s \in accessors'[h]
    BY <1>3, <2>2, <2>4, Zenon
  <2>5. last_submitted_mode'[h] = last_submitted_mode[h]
    BY <2>1, Zenon DEF IInv, Reached
  <2>6. QED
    BY <2>1, <2>3, <2>4, <2>5, Zenon DEF IInv, Reached
<1>8. Ordered'
  BY <1>1, <1>4 DEF IInv, Ordered, Main, Concurrent, PastKept
<1>9. QED
  BY <1>5, <1>6, <1>7, <1>8, Zenon

\* It only removes conflicts.
LEMMA ReleaseDataIInv ==
  ASSUME IInv, NEW a \in Accessors, ReleaseData(a)
  PROVE  IInv'
<1> USE DEF IInv
<1>1. Base' /\ Released(a)
  BY ReleaseDataBase, Zenon DEF Base
<1>2. PICK h \in Handles : h = Handle(a, 1)
  BY <1>1, Zenon DEF Released
<1>3. /\ UNCHANGED <<last_sync_task, accessors, last_submitted_mode, kind, buf, deps, jpc>>
      /\ Types' /\ Carried' /\ Stages' /\ PastKept /\ Past(Main(a)) /\ Past(Main(a))'
      /\ Len(access[a]) = 1
  BY <1>1, Zenon DEF Released, Base
<1>6. \A c \in Accessors :
         /\ Len(access'[c]) = Len(access[c])
         /\ \A b \in 1..Len(access[c]) :
              /\ Handle(c, b)' = Handle(c, b)
              /\ Mode(c, b)' = Mode(c, b) \/ (c = a /\ Mode(c, b)' = "R")
  BY <1>1, Zenon DEF Released
<1>7. \A g \in Handles :
        /\ Len(hist'[g]) = Len(hist[g])
        /\ \A i \in 1..Len(hist[g]) :
             /\ hist'[g][i].who = hist[g][i].who
             /\ hist'[g][i].mode = hist[g][i].mode \/ (g = h /\ hist[g][i].who = a)
             /\ g = h /\ hist[g][i].who = a /\ access' # access => hist'[g][i].mode = "R"
  BY <1>1, <1>2, Zenon DEF Released
<1>10. CASE access' = access /\ hist' = hist
  <2>1. Forgetful
    BY <1>3, <1>10, Domains, Zenon DEF Forgetful
  <2>2. QED
    BY <1>3, <2>1, HandlesKept, Zenon
<1>11. CASE ~(access' = access /\ hist' = hist)
  <2>0. Mode(a, 1) \in {"W", "RW"} /\ access' # access /\ Mode(a, 1)' = "R"
    BY <1>1, <1>11, Zenon DEF Released, Mode
  <2>1. \A j, k : Covers(j, k)' = Covers(j, k)
    BY <1>3, Zenon DEF Covers, Closed, Needs, PreSync, Main
  <2>2. Past(Main(a)) /\ Past(Main(a))'
    BY <1>3, Zenon
  <2>3. \A g \in Handles : \A i \in 1..Len(hist[g]) :
          /\ hist[g][i].who \in Accessors
          /\ hist[g][i].who = a => g = h /\ hist[g][i].mode \in {"W", "RW"} /\ hist'[g][i].mode = "R"
          /\ hist[g][i].who # a => hist'[g][i].mode = hist[g][i].mode
    <3>1. \A g \in Handles : \A i \in 1..Len(hist[g]) :
            hist[g][i].who = a => g = h /\ hist[g][i].mode = Mode(a, 1)
      <4>1. \A b \in 1..Len(access[a]) : b = 1
        BY <1>3
      <4>2. QED
        BY <1>2, <4>1, SMTT(40) DEF Recorded, Has
    <3>2. QED
      BY <1>7, <2>0, <3>1, Elements, Zenon
  <2>4. Remembered'
    <3> SUFFICES ASSUME NEW g \in Handles
                 PROVE  LET m == last_submitted_mode[g] IN
                        /\ \A s \in accessors[g] :
                             \E c \in Accessors :
                                /\ s[1] = Main(c) /\ kind[c] \in {"task", "acquire"}
                                /\ s[2] \in 1..Len(access'[c]) /\ Handle(c, s[2])' = g
                                /\ Self(m) => Concurrent(Mode(c, s[2])', m)
                                /\ last_sync_task[g] = None \/ Covers(s[1], last_sync_task[g])
                        /\ ~Self(m) => \A s, t \in accessors[g] : s = t
      BY <1>3, <2>1 DEF Remembered, Handle, Mode, Main, Self, Concurrent
    <3> DEFINE m == last_submitted_mode[g]
    <3>1. ~Self(m) => \A s, t \in accessors[g] : s = t
      BY Zenon DEF Remembered
    <3>2. ASSUME NEW s \in accessors[g]
          PROVE  \E c \in Accessors :
                    /\ s[1] = Main(c) /\ kind[c] \in {"task", "acquire"}
                    /\ s[2] \in 1..Len(access'[c]) /\ Handle(c, s[2])' = g
                    /\ Self(m) => Concurrent(Mode(c, s[2])', m)
                    /\ last_sync_task[g] = None \/ Covers(s[1], last_sync_task[g])
      <4>1. PICK c \in Accessors :
                    /\ s[1] = Main(c) /\ kind[c] \in {"task", "acquire"}
                    /\ s[2] \in 1..Len(access[c]) /\ Handle(c, s[2]) = g
                    /\ Self(m) => Concurrent(Mode(c, s[2]), m)
                    /\ last_sync_task[g] = None \/ Covers(s[1], last_sync_task[g])
        BY <3>2, Zenon DEF Remembered
      <4>2. Self(m) => Concurrent(Mode(c, s[2])', m)
        <5>0. \A b \in 1..Len(access[a]) : b = 1
          BY <1>3
        <5>1. c = a => ~Concurrent(Mode(c, s[2]), m)
          BY <2>0, <4>1, <5>0, Zenon DEF Concurrent
        <5>2. QED
          BY <1>6, <4>1, <5>1, Zenon
      <4>3. QED
        BY <1>6, <4>1, <4>2, Zenon
    <3>3. QED
      BY <3>1, <3>2, Zenon
  <2>5. Recorded'
    <3> SUFFICES ASSUME NEW g \in Handles, NEW i \in 1..Len(hist[g])
                 PROVE  Has(hist[g][i].who, g, hist[g][i].mode)'
      BY <1>7, Zenon DEF Recorded
    <3>0. PICK c \in Accessors : c = hist[g][i].who
      BY <2>3, Zenon
    <3>1. PICK b \in 1..Len(access[c]) : Handle(c, b) = g /\ Mode(c, b) = hist[g][i].mode
      BY <3>0, Zenon DEF Recorded, Has
    <3>2. kind[c] \in {"task", "acquire"}
      BY <3>0, Zenon DEF Recorded, Has
    <3>3. Handle(c, b)' = g /\ Mode(c, b)' = hist'[g][i].mode /\ b \in 1..Len(access'[c])
      <4>1. hist'[g][i].who = c
        BY <1>7, <3>0, Zenon
      <4>0. \A e \in 1..Len(access[a]) : e = 1
        BY <1>3
      <4>2. c = a => b = 1 /\ Mode(a, 1)' = "R"
        BY <2>0, <3>1, <4>0, Zenon
      <4>3. QED
        BY <1>6, <2>3, <3>0, <3>1, <3>2, <4>1, <4>2
    <3>4. QED
      BY <1>3, <1>7, <3>0, <3>2, <3>3, Zenon DEF Has, Handle, Mode
  <2>6. Reached'
    <3> SUFFICES ASSUME NEW g \in Handles, NEW i \in 1..Len(hist[g]),
                        NEW c \in Accessors, c = hist[g][i].who, ~Past(Main(c))'
                 PROVE  LET j == Main(c)
                            last == last_sync_task[g]
                            m == last_submitted_mode[g]
                        IN /\ (\E s \in accessors[g] : Covers(s[1], j)) \/ (last # None /\ Covers(last, j))
                           /\ Self(m) /\ ~Concurrent(hist'[g][i].mode, m) => last # None /\ Covers(last, j)
      BY <1>3, <1>7, <2>1, <2>3, SMTT(40) DEF Reached, Main, Self, Concurrent, Past
    <3>1. c # a /\ ~Past(Main(c))
      BY <1>3, <2>2, JobsOf, Zenon DEF PastKept
    <3>2. QED
      BY <2>3, <3>1, Zenon DEF Reached
  <2>7. Ordered'
    <3> SUFFICES ASSUME NEW g \in Handles, NEW i \in 1..Len(hist[g]), NEW k \in 1..Len(hist[g]),
                        NEW c \in Accessors, NEW d \in Accessors,
                        c = hist[g][i].who, d = hist[g][k].who, i < k, c # d,
                        ~Concurrent(hist'[g][i].mode, hist'[g][k].mode)
                 PROVE  Past(Main(c))' \/ Covers(Main(d), Main(c))
      BY <1>7, <2>1, <2>3, SMTT(40) DEF Ordered, Main, Concurrent, Past
    <3>1. CASE c = a
      BY <2>2, <3>1, Zenon
    <3>2. CASE c # a
      <4>1. ~Concurrent(hist[g][i].mode, hist[g][k].mode)
        BY <2>3, <3>2, ZenonT(40) DEF Concurrent
      <4>2. Past(Main(c)) \/ Covers(Main(d), Main(c))
        BY <4>1, Zenon DEF Ordered
      <4>3. QED
        BY <1>3, <4>2, JobsOf, Zenon DEF PastKept
    <3>3. QED
      BY <3>1, <3>2, Zenon
  <2>8. QED
    BY <1>3, <2>4, <2>5, <2>6, <2>7, Zenon
<1>12. QED
  BY <1>10, <1>11, Zenon

-----------------------------------------------------------------------------
(* The step that infers dependencies.                                      *)

-----------------------------------------------------------------------------
(* The step that infers dependencies.                                      *)

\* Following the dependencies there are after a step.
LEMMA CoversNext ==
  /\ \A j \in Jobs : Covers(j, j)'
  /\ \A j, k, l \in Jobs : Covers(j, k)' /\ Covers(k, l)' => Covers(j, l)'
  /\ \A j \in Jobs : \A k \in Jobs : k \in Needs(j)' => Covers(j, k)'
<1>1. \A j \in Jobs : Covers(j, j)'
  BY Zenon DEF Covers
<1>2. \A j, k, l \in Jobs : Covers(j, k)' /\ Covers(k, l)' => Covers(j, l)'
  BY Zenon DEF Covers
<1>3. \A j \in Jobs : \A k \in Jobs : k \in Needs(j)' => Covers(j, k)'
  BY Zenon DEF Covers, Closed
<1>4. QED
  BY <1>1, <1>2, <1>3, Zenon

\* A dependency that is added hides none.
LEMMA CoversMore ==
  ASSUME kind' = kind, \A j \in Jobs : deps[j] \subseteq deps'[j]
  PROVE  \A j, k : Covers(j, k) => Covers(j, k)'
<1>1. \A j \in Jobs : Needs(j) \subseteq Needs(j)'
  <2> SUFFICES ASSUME NEW j \in Jobs PROVE Needs(j) \subseteq Needs(j)'
    BY Zenon
  <2>1. j[1] \in Accessors
    BY Zenon DEF Jobs
  <2>2. PreSync(j[1]) \in Jobs /\ PreSync(j[1])' = PreSync(j[1])
    BY <2>1, JobsOf, Zenon DEF PreSync, Main
  <2>3. QED
    BY <2>2, Zenon DEF Needs
<1>2. \A S \in SUBSET Jobs : Closed(S)' => Closed(S)
  BY <1>1, Zenon DEF Closed
<1>3. QED
  BY <1>2, Zenon DEF Covers

\* What a handle remembers after a step that changes no program.
LEMMA RememberedNext ==
  ASSUME kind' = kind, access' = access,
         \A g \in Handles :
            LET n == last_submitted_mode'[g] IN
            /\ \A s \in accessors'[g] :
                 \E c \in Accessors :
                    /\ s[1] = Main(c) /\ kind[c] \in {"task", "acquire"}
                    /\ s[2] \in 1..Len(access[c]) /\ Handle(c, s[2]) = g
                    /\ Self(n) => Concurrent(Mode(c, s[2]), n)
                    /\ last_sync_task'[g] = None \/ Covers(s[1], last_sync_task[g])'
            /\ ~Self(n) => \A s, t \in accessors'[g] : s = t
  PROVE  Remembered'
BY DEF Remembered, Handle, Mode, Main, Self, Concurrent

\* After a turn of a for handle h, its accessors acc and last synchronisation task last
\* still reach what is not over, and a needs what it conflicts with.
Follows(a, b, h, m, acc, last) ==
    /\ \A s \in acc :
         /\ \E c \in Accessors :
               /\ s[1] = Main(c) /\ kind[c] \in {"task", "acquire"}
               /\ s[2] \in 1..Len(access[c]) /\ Handle(c, s[2]) = h
               /\ Self(m) => Concurrent(Mode(c, s[2]), m)
         /\ last = None \/ Covers(s[1], last)'
    /\ ~Self(m) => \A s, t \in acc : s = t
    /\ <<Main(a), b>> \in acc \/ last = Main(a)
    /\ \A i \in 1..Len(hist[h]), c \in Accessors :
         c = hist[h][i].who /\ ~Past(Main(c)) =>
            /\ (\E s \in acc : Covers(s[1], Main(c))') \/ (last # None /\ Covers(last, Main(c))')
            /\ Self(m) /\ ~Concurrent(hist[h][i].mode, m) => last # None /\ Covers(last, Main(c))'
            /\ c # a /\ ~Concurrent(hist[h][i].mode, m) => Covers(Main(a), Main(c))'

\* A turn for a handle keeps the accesses to it in order, provided that the accessor now
\* needs the conflicting accesses that are not over, and that those that are not over
\* are still reached from what the handle remembers.
LEMMA DetectedIInv ==
  ASSUME IInv, NEW a \in Accessors, pc[a] = "start", kind[a] \in {"task", "acquire"},
         NEW b, b = buf[a], NEW h \in Handles, h = Handle(a, b), NEW m, m = Mode(a, b),
         NEW acc \in SUBSET (Jobs \X (1..MaxBuffers)), NEW last \in Jobs \cup {None},
         NEW d \in [Jobs -> SUBSET Jobs], NEW subs,
         subs \subseteq {<<a, b>>},
         \A j \in Jobs : j \notin {PreSync(a), <<a, b>>} => d[j] = deps[j],
         \A j \in Jobs : deps[j] \subseteq d[j],
         Detected(a, acc, last, d, subs),
         Follows(a, b, h, m, acc, last)
  PROVE  IInv'
<1>11. /\ \A s \in acc :
            /\ \E c \in Accessors :
                  /\ s[1] = Main(c) /\ kind[c] \in {"task", "acquire"}
                  /\ s[2] \in 1..Len(access[c]) /\ Handle(c, s[2]) = h
                  /\ Self(m) => Concurrent(Mode(c, s[2]), m)
            /\ last = None \/ Covers(s[1], last)'
       /\ ~Self(m) => \A s, t \in acc : s = t
       /\ <<Main(a), b>> \in acc \/ last = Main(a)
       /\ \A i \in 1..Len(hist[h]), c \in Accessors :
            c = hist[h][i].who /\ ~Past(Main(c)) =>
               /\ (\E s \in acc : Covers(s[1], Main(c))') \/ (last # None /\ Covers(last, Main(c))')
               /\ Self(m) /\ ~Concurrent(hist[h][i].mode, m) => last # None /\ Covers(last, Main(c))'
               /\ c # a /\ ~Concurrent(hist[h][i].mode, m) => Covers(Main(a), Main(c))'
  BY Zenon DEF Follows
<1>1. /\ Types' /\ Carried' /\ Stages'
      /\ \A j \in Jobs : Past(j)' = Past(j)
      /\ kind' = kind /\ access' = access /\ deps' = d
      /\ \A g \in Handles : g # h =>
            /\ accessors'[g] = accessors[g] /\ last_sync_task'[g] = last_sync_task[g]
            /\ last_submitted_mode'[g] = last_submitted_mode[g] /\ hist'[g] = hist[g]
      /\ accessors'[h] = acc /\ last_sync_task'[h] = last
      /\ last_submitted_mode'[h] = m
      /\ Len(hist'[h]) = Len(hist[h]) + 1
      /\ \A i \in 1..Len(hist[h]) : hist'[h][i] = hist[h][i]
      /\ hist'[h][Len(hist[h]) + 1].who = a /\ hist'[h][Len(hist[h]) + 1].mode = m
  <2>1. Turned(a, acc, last, d)
    <3>1. subs \subseteq {<<a, buf[a]>>} /\ \A j \in Jobs : j \notin {PreSync(a), <<a, buf[a]>>} => d[j] = deps[j]
      BY Zenon
    <3>2. Base
      BY Zenon DEF IInv, Base
    <3>3. QED
      BY <3>1, <3>2, DetectedFrame, Zenon
  <2>2. QED
    BY <2>1, Zenon DEF Turned
<1> USE DEF IInv
<1>2. \A j, k : Covers(j, k) => Covers(j, k)'
  BY <1>1, CoversMore, Zenon
<1>3. /\ b \in 1..Len(access[a]) /\ Main(a) \in Jobs /\ \A c \in Accessors : Main(c) \in Jobs
      /\ \A g \in Handles : /\ Len(hist[g]) \in Nat
                            /\ \A i \in 1..Len(hist[g]) : hist[g][i].who \in Accessors
      /\ \A g \in Handles : last_sync_task[g] \in Jobs \cup {None}
  BY Elements, JobsOf, Zenon DEF Types, TypeOK
<1>4. \A i \in 1..Len(hist'[h]) : i \in 1..Len(hist[h]) \/ i = Len(hist[h]) + 1
  BY <1>1, <1>3
<1>10. \A g \in Handles : \A i \in 1..Len(hist'[g]) : hist'[g][i].who \in Accessors
  <2> SUFFICES ASSUME NEW g \in Handles, NEW i \in 1..Len(hist'[g]) PROVE hist'[g][i].who \in Accessors
    BY Zenon
  <2>1. CASE g # h
    BY <1>1, <1>3, <2>1, Zenon
  <2>2. CASE g = h
    <3>1. CASE i \in 1..Len(hist[h])
      BY <1>1, <1>3, <2>2, <3>1, Zenon
    <3>2. CASE i = Len(hist[h]) + 1
      BY <1>1, <2>2, <3>2, Zenon
    <3>3. QED
      BY <1>4, <2>2, <3>1, <3>2, Zenon
  <2>3. QED
    BY <2>1, <2>2, Zenon
<1>5. Remembered'
  <2> SUFFICES ASSUME NEW g \in Handles
               PROVE  LET n == last_submitted_mode'[g] IN
                      /\ \A s \in accessors'[g] :
                           \E c \in Accessors :
                              /\ s[1] = Main(c) /\ kind[c] \in {"task", "acquire"}
                              /\ s[2] \in 1..Len(access[c]) /\ Handle(c, s[2]) = g
                              /\ Self(n) => Concurrent(Mode(c, s[2]), n)
                              /\ last_sync_task'[g] = None \/ Covers(s[1], last_sync_task[g])'
                      /\ ~Self(n) => \A s, t \in accessors'[g] : s = t
    BY <1>1, RememberedNext, ZenonT(40)
  <2>1. CASE g = h
    BY <1>1, <1>11, <2>1, SMTT(40)
  <2>2. CASE g # h
    BY <1>1, <1>2, <2>2, SMTT(30) DEF Remembered
  <2>3. QED
    BY <2>1, <2>2, Zenon
<1>6. Recorded'
  <2>1. \A c, g, n : Has(c, g, n)' = Has(c, g, n)
    BY <1>1, Zenon DEF Has, Handle, Mode
  <2> SUFFICES ASSUME NEW g \in Handles, NEW i \in 1..Len(hist'[g])
               PROVE  Has(hist'[g][i].who, g, hist'[g][i].mode)
    BY <2>1, Zenon DEF Recorded
  <2>2. CASE g # h
    BY <1>1, <2>2, Zenon DEF Recorded
  <2>3. CASE g = h
    <3>1. Has(a, h, m)
      BY <1>3, Zenon DEF Has
    <3>2. QED
      <4>1. CASE i \in 1..Len(hist[h])
        BY <1>1, <2>3, <4>1, ZenonT(40) DEF Recorded
      <4>2. CASE i = Len(hist[h]) + 1
        BY <1>1, <2>3, <3>1, <4>2, Zenon
      <4>3. QED
        BY <1>4, <2>3, <4>1, <4>2, Zenon
  <2>4. QED
    BY <2>2, <2>3, Zenon
<1>7. Reached'
  <2> SUFFICES ASSUME NEW g \in Handles, NEW i \in 1..Len(hist'[g]), NEW l, l = last_sync_task'[g],
                      NEW n, n = last_submitted_mode'[g],
                      NEW c \in Accessors, c = hist'[g][i].who, ~Past(Main(c))
               PROVE  /\ (\E s \in accessors'[g] : Covers(s[1], Main(c))') \/ (l # None /\ Covers(l, Main(c))')
                      /\ Self(n) /\ ~Concurrent(hist'[g][i].mode, n) => l # None /\ Covers(l, Main(c))'
    <3>1. \A g \in Handles : \A i \in 1..Len(hist'[g]) : hist'[g][i].who \in Accessors
      BY <1>10, Zenon
    <3>2. \A c \in Accessors : Past(Main(c))' = Past(Main(c))
      BY <1>1, <1>3, Zenon
    <3>3. QED
      BY <3>1, <3>2 DEF Reached, Main, Self, Concurrent
  <2>1. CASE g # h
    <3>1. /\ accessors'[g] = accessors[g] /\ l = last_sync_task[g] /\ n = last_submitted_mode[g]
          /\ hist'[g] = hist[g]
      BY <1>1, <2>1, Zenon
    <3>2. /\ (\E s \in accessors[g] : Covers(s[1], Main(c))) \/ (l # None /\ Covers(l, Main(c)))
          /\ Self(n) /\ ~Concurrent(hist[g][i].mode, n) => l # None /\ Covers(l, Main(c))
      BY <3>1, Zenon DEF Reached
    <3>3. QED
      BY <1>2, <3>1, <3>2, Zenon
  <2>2. CASE g = h /\ i \in 1..Len(hist[h])
    <3>1. hist'[g][i] = hist[h][i] /\ accessors'[g] = acc /\ l = last /\ n = m
      BY <1>1, <2>2, Zenon
    <3>2. c = hist[h][i].who /\ i \in 1..Len(hist[h])
      BY <2>2, <3>1, Zenon
    <3>3. /\ (\E s \in acc : Covers(s[1], Main(c))') \/ (last # None /\ Covers(last, Main(c))')
          /\ Self(m) /\ ~Concurrent(hist[h][i].mode, m) => last # None /\ Covers(last, Main(c))'
      BY <1>11, <3>2, Zenon
    <3>4. QED
      BY <3>1, <3>3, Zenon
  <2>3. CASE g = h /\ i = Len(hist[h]) + 1
    <3>1. c = a /\ hist'[g][i].mode = m /\ n = m
      BY <1>1, <2>3, Zenon
    <3>2. Covers(Main(a), Main(a))'
      BY <1>3, CoversNext, Zenon
    <3>3. Main(a) # None
      BY <1>3, JobsOf, Zenon
    <3>4. (\E s \in accessors'[g] : Covers(s[1], Main(a))') \/ (l # None /\ Covers(l, Main(a))')
      <4>1. CASE last = Main(a)
        BY <1>1, <2>3, <3>2, <3>3, <4>1, SMTT(30)
      <4>2. CASE <<Main(a), b>> \in acc
        <5>1. <<Main(a), b>>[1] = Main(a)
          BY Zenon
        <5>2. QED
          BY <1>1, <2>3, <3>2, <4>2, <5>1, Zenon
      <4>3. QED
        BY <1>11, <4>1, <4>2, ZenonT(40)
    <3>5. QED
      BY <3>1, <3>4, Zenon DEF Self
  <2>4. QED
    BY <1>4, <2>1, <2>2, <2>3, ZenonT(40)
<1>8. Ordered'
  <2> SUFFICES ASSUME NEW g \in Handles, NEW i \in 1..Len(hist'[g]), NEW k \in 1..Len(hist'[g]),
                      NEW c \in Accessors, NEW e \in Accessors,
                      c = hist'[g][i].who, e = hist'[g][k].who, i < k, c # e,
                      ~Concurrent(hist'[g][i].mode, hist'[g][k].mode), ~Past(Main(c))
               PROVE  Covers(Main(e), Main(c))'
    <3>1. \A g \in Handles : \A i \in 1..Len(hist'[g]) : hist'[g][i].who \in Accessors
      BY <1>10, Zenon
    <3>2. \A c \in Accessors : Past(Main(c))' = Past(Main(c))
      BY <1>1, <1>3, Zenon
    <3>3. QED
      BY <3>1, <3>2, ZenonT(40) DEF Ordered, Main, Concurrent
  <2>1. CASE g # h
    <3>1. hist'[g] = hist[g]
      BY <1>1, <2>1, Zenon
    <3>2. QED
      BY <1>2, <3>1, Zenon DEF Ordered
  <2>2. CASE g = h /\ k \in 1..Len(hist[h])
    <3>1. i \in 1..Len(hist[h])
      BY <1>3, <1>4, <2>2, SMTT(30)
    <3>2. hist'[g][i] = hist[g][i] /\ hist'[g][k] = hist[g][k]
      BY <1>1, <2>2, <3>1, Zenon
    <3>3. QED
      BY <1>2, <2>2, <3>1, <3>2, ZenonT(40) DEF Ordered
  <2>3. CASE g = h /\ k = Len(hist[h]) + 1
    <3>1. i \in 1..Len(hist[h]) /\ e = a /\ hist'[g][k].mode = m
      BY <1>1, <1>3, <1>4, <2>3, Zenon
    <3>2. hist'[g][i] = hist[h][i]
      BY <1>1, <2>3, <3>1, Zenon
    <3>3. QED
      BY <1>11, <3>1, <3>2, Zenon
  <2>4. QED
    BY <1>4, <2>1, <2>2, <2>3, Zenon
<1>9. QED
  BY <1>1, <1>5, <1>6, <1>7, <1>8, Zenon

\* OneClass, of the program under way.
Single ==
    \A a \in Accessors : \A i, k \in 1..Len(access[a]) :
        Handle(a, i) = Handle(a, k) /\ Self(Mode(a, i)) /\ Self(Mode(a, k))
          => Concurrent(Mode(a, i), Mode(a, k))

\* Modes fall into classes, within which accesses need no order.
LEMMA Classes ==
  \A m, n, o : /\ Concurrent(m, n) => Concurrent(n, m) /\ Self(m)
               /\ Concurrent(m, n) /\ Concurrent(n, o) => Concurrent(m, o)
BY Zenon DEF Concurrent, Self

\* Dependencies are inferred for a buffer.
LEMMA DetectIInv ==
  ASSUME IInv, Single, NEW a \in Accessors, Detect(a)
  PROVE  IInv'
<1>1. PICK b, h, m : b = buf[a] /\ h = Handle(a, b) /\ m = Mode(a, b)
  BY Zenon
<1>2. PICK A, L, M : A = accessors[h] /\ L = last_sync_task[h] /\ M = last_submitted_mode[h]
  BY Zenon
<1> DEFINE pre == PreSync(a)
           previous == {s[1] : s \in A} \ {Main(a)}
           several == \E s, t \in A : s # t
<1>3. /\ pc[a] = "start" /\ kind[a] \in {"task", "acquire"}
      /\ b \in 1..Len(access[a]) /\ b \in 1..MaxBuffers /\ h \in Handles
      /\ A \in SUBSET (Jobs \X (1..MaxBuffers)) /\ L \in Jobs \cup {None}
      /\ deps \in [Jobs -> SUBSET Jobs] /\ deps[<<a, b>>] = {}
      /\ Main(a) \in Jobs /\ <<a, b>> \in Jobs /\ pre \in Jobs /\ None \notin Jobs
      /\ <<a, b>> # pre /\ <<Main(a), b>> \in Jobs \X (1..MaxBuffers)
  <2>1. Types /\ Stages
    BY Zenon DEF IInv
  <2>2. pc[a] = "start" /\ kind[a] \in {"task", "acquire"}
    BY Zenon DEF Detect
  <2>3. b \in 1..Len(access[a]) /\ b \in 1..MaxBuffers /\ h \in Handles
    <3>1. buf[a] \in 1..Len(access[a]) /\ Len(access[a]) \in 1..MaxBuffers
      BY <2>1, <2>2, Zenon DEF Types
    <3>2. \A e \in 1..Len(access[a]) : Handle(a, e) \in Handles
      BY <2>1, Elements, Zenon
    <3>3. \A e \in 1..Len(access[a]) : e \in 1..MaxBuffers
      BY <3>1, SizesAssumption
    <3>4. QED
      BY <1>1, <3>1, <3>2, <3>3, Zenon
  <2>4. /\ A \in SUBSET (Jobs \X (1..MaxBuffers)) /\ L \in Jobs \cup {None}
        /\ deps \in [Jobs -> SUBSET Jobs]
    BY <1>2, <2>1, <2>3, ZenonT(40) DEF Types, TypeOK
  <2>5. deps[<<a, b>>] = {}
    BY <1>1, <2>1, <2>2, <2>3 DEF Stages, SyncStage, Types, TypeOK
  <2>6. Main(a) \in Jobs /\ <<a, b>> \in Jobs /\ pre \in Jobs /\ None \notin Jobs /\ <<a, b>> # pre
    BY <2>3, JobsOf, SMTT(40) DEF PreSync, Main
  <2>7. QED
    BY <2>2, <2>3, <2>4, <2>5, <2>6, Zenon
<1>4. /\ \A s \in A : /\ s[1] \in Jobs
                      /\ \E c \in Accessors :
                            /\ s[1] = Main(c) /\ kind[c] \in {"task", "acquire"}
                            /\ s[2] \in 1..Len(access[c]) /\ Handle(c, s[2]) = h
                            /\ Self(M) => Concurrent(Mode(c, s[2]), M)
                      /\ L = None \/ Covers(s[1], L)
      /\ ~Self(M) => \A s, t \in A : s = t
  BY <1>2, <1>3 DEF IInv, Remembered
<1>5. \A i \in 1..Len(hist[h]), c \in Accessors :
        c = hist[h][i].who /\ ~Past(Main(c)) =>
           /\ Main(c) \in Jobs
           /\ (\E s \in A : Covers(s[1], Main(c))) \/ (L # None /\ Covers(L, Main(c)))
           /\ Self(M) /\ ~Concurrent(hist[h][i].mode, M) => L # None /\ Covers(L, Main(c))
  BY <1>2, <1>3, JobsOf, ZenonT(40) DEF IInv, Reached
<1>6. ASSUME NEW d, deps' = d, kind' = kind, \A j \in Jobs : deps[j] \subseteq d[j]
      PROVE  /\ \A j, k : Covers(j, k) => Covers(j, k)'
             /\ \A k \in Jobs : k \in d[pre] => Covers(Main(a), k)'
             /\ \A k \in Jobs : k \in d[<<a, b>>] => Covers(<<a, b>>, k)'
  <2>1. \A j, k : Covers(j, k) => Covers(j, k)'
    BY <1>6, CoversMore, Zenon
  <2>2. Needs(Main(a))' = d[pre]
    BY <1>6, Zenon DEF Needs, PreSync, Main
  <2>3. Needs(<<a, b>>)' = d[<<a, b>>]
    BY <1>1, <1>3, <1>6, SizesAssumption, SMTT(40) DEF Needs
  <2>4. QED
    BY <1>3, <2>1, <2>2, <2>3, CoversNext
<1>8. ASSUME Concurrent(m, M),
             Detected(a, A \cup {<<Main(a), b>>}, L, [deps EXCEPT ![pre] = deps[pre] \cup DepOn(L, a)], {})
      PROVE  IInv'
  <2> DEFINE d == [deps EXCEPT ![pre] = deps[pre] \cup DepOn(L, a)]
             acc == A \cup {<<Main(a), b>>}
  <2>1. d \in [Jobs -> SUBSET Jobs] /\ (\A j \in Jobs : deps[j] \subseteq d[j])
        /\ (\A j \in Jobs : j \notin {pre, <<a, b>>} => d[j] = deps[j])
        /\ (L \in {None, Main(a)} \/ L \in d[pre])
    BY <1>3, Zenon DEF DepOn
  <2>2. deps' = d /\ kind' = kind
    BY <1>8, Zenon DEF Detected
  <2> HIDE DEF d
  <2>3. /\ \A j, k : Covers(j, k) => Covers(j, k)'
        /\ \A k \in Jobs : k \in d[pre] => Covers(Main(a), k)'
        /\ \A k \in Jobs : k \in d[<<a, b>>] => Covers(<<a, b>>, k)'
    BY <1>6, <2>1, <2>2, Zenon
  <2>4. L = None \/ Covers(Main(a), L)'
    BY <1>3, <2>1, <2>3, CoversNext
  <2>5. /\ Self(m) /\ Self(M) /\ Concurrent(m, m)
        /\ \A n : Concurrent(n, M) <=> Concurrent(n, m)
    BY <1>8, Classes, Zenon DEF Self
  <2>6. \A s \in acc :
          /\ \E c \in Accessors :
                /\ s[1] = Main(c) /\ kind[c] \in {"task", "acquire"}
                /\ s[2] \in 1..Len(access[c]) /\ Handle(c, s[2]) = h
                /\ Self(m) => Concurrent(Mode(c, s[2]), m)
          /\ L = None \/ Covers(s[1], L)'
    <3>1. CASE TRUE
      BY <1>1, <1>3, <1>4, <2>3, <2>4, <2>5
    <3>2. QED
      BY <3>1, ZenonT(40)
  <2>7. \A i \in 1..Len(hist[h]), c \in Accessors :
          c = hist[h][i].who /\ ~Past(Main(c)) =>
             /\ (\E s \in acc : Covers(s[1], Main(c))') \/ (L # None /\ Covers(L, Main(c))')
             /\ Self(m) /\ ~Concurrent(hist[h][i].mode, m) => L # None /\ Covers(L, Main(c))'
             /\ c # a /\ ~Concurrent(hist[h][i].mode, m) => Covers(Main(a), Main(c))'
    <3> SUFFICES ASSUME NEW i \in 1..Len(hist[h]), NEW c \in Accessors,
                        c = hist[h][i].who, ~Past(Main(c))
                 PROVE  /\ (\E s \in acc : Covers(s[1], Main(c))') \/ (L # None /\ Covers(L, Main(c))')
                        /\ ~Concurrent(hist[h][i].mode, m) =>
                             L # None /\ Covers(L, Main(c))' /\ Covers(Main(a), Main(c))'
      BY Zenon
    <3>1. /\ Main(c) \in Jobs
          /\ (\E s \in A : Covers(s[1], Main(c))) \/ (L # None /\ Covers(L, Main(c)))
          /\ ~Concurrent(hist[h][i].mode, m) => L # None /\ Covers(L, Main(c))
      BY <1>5, <2>5, Zenon
    <3>2. L # None /\ Covers(L, Main(c)) => Covers(Main(a), Main(c))'
      BY <1>3, <2>3, <2>4, <3>1, CoversNext, Zenon
    <3>3. QED
      BY <2>3, <3>1, <3>2, Zenon
  <2>8. acc \in SUBSET (Jobs \X (1..MaxBuffers)) /\ <<Main(a), b>> \in acc
    BY <1>3, Zenon
  <2>9. Detected(a, acc, L, d, {})
    BY <1>8, Zenon DEF d
  <2> HIDE DEF acc
  <2>10. Follows(a, b, h, m, acc, L)
    BY <2>5, <2>6, <2>7, <2>8, Zenon DEF Follows
  <2>11. QED
    BY <1>1, <1>3, <2>1, <2>8, <2>9, <2>10, DetectedIInv
<1>9. ASSUME ~Concurrent(m, M), several, m = "W",
             Detected(a, {}, Main(a), [deps EXCEPT ![pre] = deps[pre] \cup previous], {})
      PROVE  IInv'
  <2> DEFINE d == [deps EXCEPT ![pre] = deps[pre] \cup previous]
  <2>0. previous \subseteq Jobs /\ \A s \in A : s[1] = Main(a) \/ s[1] \in previous
    BY <1>4, Zenon
  <2> HIDE DEF previous
  <2>1. d \in [Jobs -> SUBSET Jobs] /\ (\A j \in Jobs : deps[j] \subseteq d[j])
        /\ (\A j \in Jobs : j \notin {pre, <<a, b>>} => d[j] = deps[j])
        /\ previous \subseteq d[pre]
    BY <1>3, <2>0, Zenon
  <2>2. deps' = d /\ kind' = kind
    BY <1>9, Zenon DEF Detected
  <2> HIDE DEF d
  <2>3. /\ \A j, k : Covers(j, k) => Covers(j, k)'
        /\ \A k \in Jobs : k \in d[pre] => Covers(Main(a), k)'
        /\ \A k \in Jobs : k \in d[<<a, b>>] => Covers(<<a, b>>, k)'
    BY <1>6, <2>1, <2>2, Zenon
  <2>4. ASSUME NEW c \in Accessors, Main(c) \in Jobs,
               (\E s \in A : Covers(s[1], Main(c))) \/ (L # None /\ Covers(L, Main(c)))
        PROVE  \E s \in A : Covers(s[1], Main(c))
    <3>1. PICK s \in A : TRUE
      BY <1>9, Zenon
    <3>2. L # None => s[1] \in Jobs /\ L \in Jobs /\ Covers(s[1], L)
      BY <1>3, <1>4, Zenon
    <3>3. QED
      BY <2>4, <3>2, CoversTrans, Zenon
  <2>5. \A i \in 1..Len(hist[h]), c \in Accessors :
          c = hist[h][i].who /\ ~Past(Main(c)) => Covers(Main(a), Main(c))'
    <3> SUFFICES ASSUME NEW i \in 1..Len(hist[h]), NEW c \in Accessors,
                        c = hist[h][i].who, ~Past(Main(c))
                 PROVE  Covers(Main(a), Main(c))'
      BY Zenon
    <3>1. Main(c) \in Jobs /\ \E s \in A : Covers(s[1], Main(c))
      BY <1>5, <2>4, Zenon
    <3>2. PICK s \in A : Covers(s[1], Main(c))
      BY <3>1, Zenon
    <3>3. s[1] \in Jobs /\ Covers(s[1], Main(c))' /\ (s[1] = Main(a) \/ Covers(Main(a), s[1])')
      BY <1>4, <2>0, <2>1, <2>3, <3>2, Zenon
    <3>4. QED
      BY <1>3, <3>1, <3>3, CoversNext, Zenon
  <2>6. Detected(a, {}, Main(a), d, {})
    BY <1>9, Zenon DEF d
  <2>7. Follows(a, b, h, m, {}, Main(a))
    BY <1>3, <2>5, Zenon DEF Follows
  <2>8. {} \in SUBSET (Jobs \X (1..MaxBuffers)) /\ Main(a) \in Jobs \cup {None}
    BY <1>3, Zenon
  <2>9. QED
    BY <1>1, <1>3, <2>1, <2>6, <2>7, <2>8, DetectedIInv
<1>10. ASSUME ~Concurrent(m, M), several,
              Detected(a, {<<Main(a), b>>}, <<a, b>>,
                       [deps EXCEPT ![<<a, b>>] = previous, ![pre] = deps[pre] \cup {<<a, b>>}], {<<a, b>>})
       PROVE  IInv'
  <2> DEFINE d == [deps EXCEPT ![<<a, b>>] = previous, ![pre] = deps[pre] \cup {<<a, b>>}]
  <2>0. previous \subseteq Jobs /\ \A s \in A : s[1] = Main(a) \/ s[1] \in previous
    BY <1>4, Zenon
  <2> HIDE DEF previous
  <2>1. d \in [Jobs -> SUBSET Jobs] /\ (\A j \in Jobs : deps[j] \subseteq d[j])
        /\ (\A j \in Jobs : j \notin {pre, <<a, b>>} => d[j] = deps[j])
        /\ <<a, b>> \in d[pre] /\ d[<<a, b>>] = previous
    BY <1>3, <2>0, Zenon
  <2>2. deps' = d /\ kind' = kind
    BY <1>10, Zenon DEF Detected
  <2> HIDE DEF d
  <2>3. /\ \A j, k : Covers(j, k) => Covers(j, k)'
        /\ \A k \in Jobs : k \in d[pre] => Covers(Main(a), k)'
        /\ \A k \in Jobs : k \in d[<<a, b>>] => Covers(<<a, b>>, k)'
    BY <1>6, <2>1, <2>2, Zenon
  <2>4. ASSUME NEW c \in Accessors, Main(c) \in Jobs,
               (\E s \in A : Covers(s[1], Main(c))) \/ (L # None /\ Covers(L, Main(c)))
        PROVE  \E s \in A : Covers(s[1], Main(c))
    <3>1. PICK s \in A : TRUE
      BY <1>10, Zenon
    <3>2. L # None => s[1] \in Jobs /\ L \in Jobs /\ Covers(s[1], L)
      BY <1>3, <1>4, Zenon
    <3>3. QED
      BY <2>4, <3>2, CoversTrans, Zenon
  <2>5. Covers(Main(a), <<a, b>>)'
    BY <1>3, <2>1, <2>3, Zenon
  <2>6. Self(m) => \A s \in A : s[1] # Main(a)
    <3> SUFFICES ASSUME Self(m), NEW s \in A, s[1] = Main(a) PROVE FALSE
      BY Zenon
    <3>1. Self(M)
      BY <1>4, <1>10, Zenon
    <3>2. s[2] \in 1..Len(access[a]) /\ Handle(a, s[2]) = h /\ Concurrent(Mode(a, s[2]), M)
      BY <1>4, <3>1 DEF Main
    <3>3. Concurrent(m, Mode(a, s[2]))
      BY <1>1, <1>3, <3>2, Classes DEF Single
    <3>4. QED
      BY <1>10, <3>2, <3>3, Classes, Zenon
  <2>7. \A i \in 1..Len(hist[h]), c \in Accessors :
          c = hist[h][i].who /\ ~Past(Main(c)) =>
             /\ Covers(Main(a), Main(c))'
             /\ Self(m) => Covers(<<a, b>>, Main(c))'
    <3> SUFFICES ASSUME NEW i \in 1..Len(hist[h]), NEW c \in Accessors,
                        c = hist[h][i].who, ~Past(Main(c))
                 PROVE  Covers(Main(a), Main(c))' /\ (Self(m) => Covers(<<a, b>>, Main(c))')
      BY Zenon
    <3>1. Main(c) \in Jobs /\ \E s \in A : Covers(s[1], Main(c))
      BY <1>5, <2>4, Zenon
    <3>2. PICK s \in A : Covers(s[1], Main(c))
      BY <3>1, Zenon
    <3>3. s[1] \in Jobs /\ Covers(s[1], Main(c))' /\ (s[1] = Main(a) \/ Covers(<<a, b>>, s[1])')
      BY <1>4, <2>0, <2>1, <2>3, <3>2, Zenon
    <3>4. s[1] = Main(a) \/ Covers(<<a, b>>, Main(c))'
      BY <1>3, <3>1, <3>3, CoversNext, Zenon
    <3>5. Covers(Main(a), Main(c))'
      BY <1>3, <2>5, <3>1, <3>3, <3>4, CoversNext, Zenon
    <3>6. QED
      BY <2>6, <3>4, <3>5, Zenon
  <2>8. Follows(a, b, h, m, {<<Main(a), b>>}, <<a, b>>)
    <3>1.  \A s \in {<<Main(a), b>>} :
          /\ \E c \in Accessors :
                /\ s[1] = Main(c) /\ kind[c] \in {"task", "acquire"}
                /\ s[2] \in 1..Len(access[c]) /\ Handle(c, s[2]) = h
                /\ Self(m) => Concurrent(Mode(c, s[2]), m)
          /\ Covers(s[1], <<a, b>>)'
      BY <1>1, <1>3, <2>5 DEF Self
    <3>2. <<a, b>> # None
      BY <1>3, Zenon
    <3>3. <<Main(a), b>>[1] = Main(a)
      BY Zenon
    <3>4. QED
      BY <2>7, <3>1, <3>2, <3>3, ZenonT(40) DEF Follows
  <2>9. Detected(a, {<<Main(a), b>>}, <<a, b>>, d, {<<a, b>>})
    BY <1>10, Zenon DEF d
  <2>10. {<<Main(a), b>>} \in SUBSET (Jobs \X (1..MaxBuffers)) /\ <<a, b>> \in Jobs \cup {None}
    BY <1>3, ZenonT(40)
  <2>11. QED
    BY <1>1, <1>3, <2>1, <2>8, <2>9, <2>10, DetectedIInv
<1>11. ASSUME ~Concurrent(m, M), ~several,
              NEW s, (A = {} /\ s = L) \/ (\E t \in A : s = t[1]),
              Detected(a, {<<Main(a), b>>}, s, [deps EXCEPT ![pre] = deps[pre] \cup DepOn(s, a)], {})
       PROVE  IInv'
  <2> DEFINE d == [deps EXCEPT ![pre] = deps[pre] \cup DepOn(s, a)]
  <2>0. s \in Jobs \cup {None} /\ \A t \in A : s = t[1]
    BY <1>3, <1>4, <1>11, Zenon
  <2>1. d \in [Jobs -> SUBSET Jobs] /\ (\A j \in Jobs : deps[j] \subseteq d[j])
        /\ (\A j \in Jobs : j \notin {pre, <<a, b>>} => d[j] = deps[j])
        /\ (s \in {None, Main(a)} \/ s \in d[pre])
    BY <1>3, <2>0, Zenon DEF DepOn
  <2>2. deps' = d /\ kind' = kind
    BY <1>11, ZenonT(40) DEF Detected
  <2> HIDE DEF d
  <2>3. /\ \A j, k : Covers(j, k) => Covers(j, k)'
        /\ \A k \in Jobs : k \in d[pre] => Covers(Main(a), k)'
        /\ \A k \in Jobs : k \in d[<<a, b>>] => Covers(<<a, b>>, k)'
    BY <1>6, <2>1, <2>2, Zenon
  <2>4. s = None \/ Covers(Main(a), s)'
    BY <1>3, <2>0, <2>1, <2>3, CoversNext
  <2>5. \A i \in 1..Len(hist[h]), c \in Accessors :
          c = hist[h][i].who /\ ~Past(Main(c)) =>
             s # None /\ Covers(s, Main(c))' /\ Covers(Main(a), Main(c))'
    <3> SUFFICES ASSUME NEW i \in 1..Len(hist[h]), NEW c \in Accessors,
                        c = hist[h][i].who, ~Past(Main(c))
                 PROVE  s # None /\ Covers(s, Main(c))' /\ Covers(Main(a), Main(c))'
      BY Zenon
    <3>1. /\ Main(c) \in Jobs
          /\ (\E t \in A : Covers(t[1], Main(c))) \/ (L # None /\ Covers(L, Main(c)))
      BY <1>5, Zenon
    <3>2. s # None /\ Covers(s, Main(c))
      <4>1. CASE A = {}
        BY <1>11, <3>1, <4>1, Zenon
      <4>2. CASE A # {}
        <5>1. PICK t \in A : s = t[1]
          BY <2>0, <4>2, Zenon
        <5>2. s \in Jobs /\ s # None
          BY <1>3, <1>4, <5>1, Zenon
        <5>3. L = None \/ (L \in Jobs /\ Covers(s, L))
          BY <1>3, <1>4, <5>1, Zenon
        <5>4. QED
          BY <2>0, <3>1, <5>2, <5>3, CoversTrans, Zenon
      <4>3. QED
        BY <4>1, <4>2, Zenon
    <3>3. Covers(s, Main(c))' /\ Covers(Main(a), s)' /\ s \in Jobs
      BY <2>0, <2>3, <2>4, <3>2, Zenon
    <3>4. QED
      BY <1>3, <3>1, <3>2, <3>3, CoversNext, Zenon
  <2>6. Follows(a, b, h, m, {<<Main(a), b>>}, s)
    <3>1.  \A t \in {<<Main(a), b>>} :
          /\ \E c \in Accessors :
                /\ t[1] = Main(c) /\ kind[c] \in {"task", "acquire"}
                /\ t[2] \in 1..Len(access[c]) /\ Handle(c, t[2]) = h
                /\ Self(m) => Concurrent(Mode(c, t[2]), m)
          /\ t[1] = Main(a)
      BY <1>1, <1>3 DEF Self
    <3>2. \A t \in {<<Main(a), b>>} : s = None \/ Covers(t[1], s)'
      BY <2>4
    <3>3. QED
      BY <2>5, <3>1, <3>2, Zenon DEF Follows
  <2>7. Detected(a, {<<Main(a), b>>}, s, d, {})
    BY <1>11, Zenon DEF d
  <2>8. {<<Main(a), b>>} \in SUBSET (Jobs \X (1..MaxBuffers))
    BY <1>3, Zenon
  <2>9. QED
    BY <1>1, <1>3, <2>0, <2>1, <2>6, <2>7, <2>8, DetectedIInv, SMTT(40)
<1>12. QED
  <2>1. CASE Concurrent(m, M)
    BY <1>1, <1>2, <1>8, <2>1, Zenon DEF Detect
  <2>2. CASE ~Concurrent(m, M) /\ several /\ m = "W"
    BY <1>1, <1>2, <1>9, <2>2, Zenon DEF Detect
  <2>3. CASE ~Concurrent(m, M) /\ several /\ m # "W"
    BY <1>1, <1>2, <1>10, <2>3, Zenon DEF Detect
  <2>4. CASE ~Concurrent(m, M) /\ ~several
    BY <1>1, <1>2, <1>11, <2>4, Zenon DEF Detect
  <2>5. QED
    BY <2>1, <2>2, <2>3, <2>4, Zenon

-----------------------------------------------------------------------------
(* The invariant.                                                          *)

-----------------------------------------------------------------------------
(* The invariant.                                                          *)

\* It holds before anything is submitted.
LEMMA InitIInv ==
  ASSUME OneClass, Init
  PROVE  IInv /\ Single
<1>1. PICK p \in Programs : /\ kind = [a \in Accessors |-> p[a].kind]
                            /\ access = [a \in Accessors |-> p[a].access]
  BY Zenon DEF Init
<1>2. \A a \in Accessors : p[a].access \in Seq(Buffers)
  BY ProgramsAssumption, Zenon DEF Buffers
<1>3. Base
  BY InitBase, Zenon
<1>6. \A h \in Handles : Len(hist[h]) = 0 /\ accessors[h] = {}
  BY Zenon DEF Init
<1>7. Remembered
  BY <1>6, Zenon DEF Remembered
<1>8. Recorded /\ Reached /\ Ordered
  BY <1>6 DEF Recorded, Reached, Ordered
<1>9. Single
  <2> SUFFICES ASSUME NEW a \in Accessors, NEW i \in 1..Len(access[a]), NEW k \in 1..Len(access[a]),
                      Handle(a, i) = Handle(a, k), Self(Mode(a, i)), Self(Mode(a, k))
               PROVE  Concurrent(Mode(a, i), Mode(a, k))
    BY Zenon DEF Single
  <2>1. access[a] = p[a].access
    BY <1>1, Zenon
  <2>2. p[a].access \in Seq(Buffers)
    BY <1>2, Zenon
  <2>3. i \in DOMAIN p[a].access /\ k \in DOMAIN p[a].access
    BY <2>1, <2>2
  <2>4. QED
    BY <2>1, <2>3, Zenon DEF OneClass, Handle, Mode
<1>10. QED
  BY <1>3, <1>7, <1>8, <1>9, Zenon DEF IInv, Base

\* Every step keeps it.
LEMMA NextIInv ==
  ASSUME IInv, Single, [Next]_vars
  PROVE  IInv'
<1>0. Base
  BY Zenon DEF IInv, Base
<1>7. Base' /\ Forgetful => IInv'
  BY HandlesKept, Zenon DEF IInv, Base
<1>1. ASSUME NEW a \in Accessors, SubmitStep(a) PROVE IInv'
  BY <1>0, <1>1, <1>7, SkipTryBase, DetectIInv, Zenon DEF SubmitStep
<1>2. ASSUME NEW a \in Accessors, TaskStep(a) PROVE IInv'
  BY <1>0, <1>2, <1>7, StartEndBase, ReleaseBase, Zenon DEF TaskStep
<1>3. ASSUME NEW a \in Accessors, UserStep(a) PROVE IInv'
  BY <1>0, <1>3, <1>7, GrantBase, AddPostSyncBase, UnlockBase, UnlockOneBase, ReleaseDataIInv, ZenonT(40) DEF UserStep
<1>4. ASSUME NEW j \in Jobs, JobStep(j) PROVE IInv'
  BY <1>0, <1>4, <1>7, EmptyBase, NotifyBase, Zenon DEF JobStep
<1>5. ASSUME NEW a \in Accessors, UnlockTest(a, "R") PROVE IInv'
  BY <1>0, <1>5, <1>7, UnlockBase, Zenon
<1>6. QED
  BY <1>1, <1>2, <1>3, <1>4, <1>5, <1>0, <1>7, StutterBase, Zenon DEF Next, Step

\* The application's accesses only lose conflicts: a release to STARPU_R is the one step
\* that changes a program.
LEMMA NextSingle ==
  ASSUME IInv, IInv', Single, [Next]_vars
  PROVE  Single'
<1>1. CASE access' = access
  BY <1>1, Zenon DEF Single, Handle, Mode
<1>2. CASE \E a \in Accessors : ReleaseData(a)
  <2>1. PICK a \in Accessors : ReleaseData(a)
    BY <1>2, Zenon
  <2>2. kind[a] # "task" /\ kind' = kind
    BY <2>1, Zenon DEF IInv, Carried, ReleaseData
  <2>3. Len(access'[a]) = 1
    BY <2>2, Zenon DEF IInv, Types
  <2>4. \A c \in Accessors : c # a => access'[c] = access[c]
    BY <2>1, Domains, Zenon DEF ReleaseData, IInv
  <2> SUFFICES ASSUME NEW c \in Accessors, NEW i \in 1..Len(access'[c]), NEW k \in 1..Len(access'[c]),
                      (Handle(c, i) = Handle(c, k) /\ Self(Mode(c, i)) /\ Self(Mode(c, k)))'
               PROVE  Concurrent(Mode(c, i), Mode(c, k))'
    BY Zenon DEF Single
  <2>5. CASE c = a
    <3>0. \A e \in 1..Len(access'[a]) : e = 1
      BY <2>3
    <3>1. i = k
      BY <2>5, <3>0, Zenon
    <3>2. QED
      BY <3>1, Zenon DEF Self
  <2>6. CASE c # a
    BY <2>4, <2>6 DEF Single, Handle, Mode, Self, Concurrent
  <2>7. QED
    BY <2>5, <2>6, Zenon
<1>3. ASSUME NEW a \in Accessors, SubmitStep(a) PROVE access' = access
  BY <1>3, Zenon DEF SubmitStep, Detect, Detected, Skip, Try
<1>4. ASSUME NEW a \in Accessors, TaskStep(a) PROVE access' = access
  BY <1>4, Zenon DEF TaskStep, Start, End, Release
<1>5. ASSUME NEW a \in Accessors, UserStep(a) \/ UnlockTest(a, "R")
      PROVE  access' = access \/ ReleaseData(a)
  BY <1>5, Zenon DEF UserStep, Grant, AddPostSync, UnlockTest, Unlock, UnlockOne
<1>6. ASSUME NEW j \in Jobs, JobStep(j) PROVE access' = access
  BY <1>6, Zenon DEF JobStep, StartEmpty, ReleaseEmpty, Notify
<1>7. UNCHANGED vars => access' = access
  BY Zenon DEF vars
<1>8. QED
  BY <1>1, <1>2, <1>3, <1>4, <1>5, <1>6, <1>7, Zenon DEF Next, Step

\* What handles remember is enough to infer dependencies from: at any time, the accesses
\* to a handle that are not over can be reached from its last_sync_task and
\* last_submitted_accessors, and conflicting ones are ordered by dependencies.
THEOREM Inferred ==
  ASSUME OneClass
  PROVE  Spec => []IInv
<1>1. Init => IInv /\ Single
  BY InitIInv, Zenon
<1>2. (IInv /\ Single) /\ [Next]_vars => (IInv /\ Single)'
  BY NextIInv, NextSingle, Zenon
<1>3. QED
  BY <1>1, <1>2, PTL DEF Spec

-----------------------------------------------------------------------------
(* The refinement.                                                         *)

\* The phase of an accessor in SequentialConsistency.
PhaseOf(a) == IF kind[a] \in {"task", "acquire"} THEN Phase(a) ELSE "out"

phases == [a \in Accessors |-> PhaseOf(a)]

\* When whatever an accessor needs is over, and it may use the data next to those that
\* use it, the accesses that it conflicts with, submitted before, are over.
LEMMA BeginAllowed ==
  ASSUME IInv, NEW a \in Accessors, \A k \in Needs(Main(a)) : k \in Jobs /\ Past(k), MayUse(a),
         NEW h \in Handles, NEW i \in 1..Len(hist[h]), NEW k \in 1..Len(hist[h]),
         i < k, hist[h][k].who = a, hist[h][i].who # a,
         ~Concurrent(hist[h][i].mode, hist[h][k].mode)
  PROVE  PhaseOf(hist[h][i].who) = "done"
<1> DEFINE c == hist[h][i].who
           S == {j \in Jobs : Past(j)} \cup {Main(a)}
<1>1. c \in Accessors /\ Main(a) \in Jobs /\ Main(c) \in Jobs /\ Main(c) # Main(a)
  BY Elements, JobsOf, Zenon DEF IInv, Main
<1>2. PastClosed
  BY StagesClosed, Zenon DEF IInv
<1>3. S \in SUBSET Jobs /\ Closed(S)
  BY <1>1, <1>2, Zenon DEF Closed, PastClosed
<1>4. Past(Main(c)) \/ Covers(Main(a), Main(c))
  BY Zenon DEF IInv, Ordered
<1>5. Past(Main(c))
  BY <1>1, <1>3, <1>4, Zenon DEF Covers
<1>6. pc[c] \in {"hold", "unlock", "done"}
  BY <1>5, Zenon DEF Past, Main
<1>7. pc[c] \notin {"hold", "unlock"}
  <2> SUFFICES ASSUME pc[c] \in {"hold", "unlock"} PROVE FALSE
    BY Zenon
  <2>1. PICK e \in 1..Len(access[c]) : Handle(c, e) = h /\ Mode(c, e) = hist[h][i].mode
    BY Zenon DEF IInv, Recorded, Has
  <2>2. PICK f \in 1..Len(access[a]) : Handle(a, f) = h /\ Mode(a, f) = hist[h][k].mode
    BY Zenon DEF IInv, Recorded, Has
  <2>3. DOMAIN access[c] = 1..Len(access[c]) /\ DOMAIN access[a] = 1..Len(access[a])
    BY <1>1 DEF IInv, Types
  <2>4. Mode(a, f) = Mode(c, e) /\ Mode(a, f) \in {"R", "REDUX"}
    BY <1>1, <2>1, <2>2, <2>3, Zenon DEF MayUse, Using
  <2>5. QED
    BY <2>1, <2>2, <2>4, Zenon DEF Concurrent
<1>8. kind[c] \in {"task", "acquire"}
  BY Zenon DEF IInv, Recorded, Has
<1>9. QED
  BY <1>6, <1>7, <1>8, Zenon DEF PhaseOf, Phase, Using

\* A task starts, or an acquisition is granted the data.
LEMMA BeginStep ==
  ASSUME IInv, NEW a \in Accessors, Start(a) \/ Grant(a)
  PROVE  hist' = hist /\ (phases' = phases \/ SC!Begin(a))
<1>1. /\ hist' = hist /\ kind' = kind /\ MayUse(a)
      /\ \A c \in Accessors : c # a => pc'[c] = pc[c]
      /\ pc'[a] \in {"run", "granted"}
  BY Domains, Zenon DEF Start, Grant, IInv
<1>2. kind[a] \in {"task", "acquire"} =>
        PhaseOf(a) = "out" /\ \A k \in Needs(Main(a)) : k \in Jobs /\ Past(k)
  <2>1. CASE Start(a)
    <3>1. Main(a) \in Jobs /\ kind[a] = "task" /\ Ready(Main(a))
      BY <2>1, JobsOf, Zenon DEF Start
    <3>2. pc[a] = "wait"
      BY <3>1, Zenon DEF IInv, Stages, TaskStage, Ready
    <3>3. \A k \in deps[Main(a)] : k \in Jobs /\ Past(k)
      BY <3>1, ReadyPast, Zenon DEF IInv
    <3>4. QED
      BY <3>1, <3>2, <3>3, Zenon DEF PhaseOf, Phase, Using, Needs, PreSync, Main
  <2>2. CASE Grant(a)
    <3>1. pc[a] = "attempt" /\ <<a, Pre>> \in Jobs
      BY <2>2, JobsOf, Zenon DEF Grant
    <3>2. kind[a] # "task" /\ \A k \in deps[<<a, Pre>>] : Past(k)
      BY <3>1, Zenon DEF IInv, Stages, TaskStage, UserStage
    <3>3. deps[<<a, Pre>>] \subseteq Jobs
      BY <3>1, Zenon DEF IInv, Types, TypeOK
    <3>4. QED
      BY <3>1, <3>2, <3>3, Zenon DEF PhaseOf, Phase, Using, Needs, PreSync, Main
  <2>3. QED
    BY <2>1, <2>2, Zenon
<1>3. CASE kind[a] \in {"task", "acquire"}
  <2>1. phases' = [phases EXCEPT ![a] = "in"]
    BY <1>1, <1>3, Zenon DEF phases, PhaseOf, Phase, Using
  <2>2. phases[a] = "out"
    BY <1>2, <1>3, Zenon DEF phases
  <2>3. \A h \in Handles : \A i, k \in DOMAIN hist[h] :
          /\ i < k /\ hist[h][k].who = a /\ hist[h][i].who # a
          /\ ~SC!Concurrent(hist[h][i].mode, hist[h][k].mode)
          => phases[hist[h][i].who] = "done"
    <3> SUFFICES ASSUME NEW h \in Handles, NEW i \in DOMAIN hist[h], NEW k \in DOMAIN hist[h],
                        i < k, hist[h][k].who = a, hist[h][i].who # a,
                        ~Concurrent(hist[h][i].mode, hist[h][k].mode)
                 PROVE  phases[hist[h][i].who] = "done"
      BY Zenon DEF Concurrent, SC!Concurrent
    <3>1. i \in 1..Len(hist[h]) /\ k \in 1..Len(hist[h])
      BY DEF IInv, Types
    <3>2. hist[h][i].who \in Accessors
      BY <3>1, Elements, Zenon DEF IInv
    <3>3. PhaseOf(hist[h][i].who) = "done"
      BY <1>1, <1>2, <1>3, <3>1, BeginAllowed, Zenon
    <3>4. QED
      BY <3>2, <3>3, Zenon DEF phases
  <2>4. QED
    BY <1>1, <2>1, <2>2, <2>3, Zenon DEF SC!Begin, SC!MayBegin, phases, PhaseOf
<1>4. CASE kind[a] \notin {"task", "acquire"}
  BY <1>1, <1>4, Zenon DEF phases, PhaseOf, Phase, Using
<1>5. QED
  BY <1>1, <1>3, <1>4, Zenon

\* An access is submitted.
LEMMA SubmitMaps ==
  ASSUME IInv, NEW a \in Accessors, Detect(a)
  PROVE  \E h \in Handles, m \in AllModes : SC!Submit(a, h, m)
<1>1. PICK h, m : h = Handle(a, buf[a]) /\ m = Mode(a, buf[a])
  BY Zenon
<1>2. /\ pc[a] = "start" /\ kind' = kind
      /\ hist' = [hist EXCEPT ![h] = Append(hist[h], [who |-> a, mode |-> m])]
      /\ \E v \in {"start", "wait", "attempt"} : pc' = [pc EXCEPT ![a] = v]
  BY <1>1, Zenon DEF Detect, Detected
<1>3. buf[a] \in 1..Len(access[a])
  BY <1>2, Zenon DEF IInv, Types
<1>4. h \in Handles /\ m \in AllModes
  BY <1>1, <1>3, Elements, Zenon DEF IInv
<1>5. /\ \A c \in Accessors : c # a => pc'[c] = pc[c]
      /\ pc'[a] \in {"start", "wait", "attempt"}
  BY <1>2, Domains, Zenon DEF IInv
<1>6. phases' = phases /\ phases[a] = "out"
  BY <1>2, <1>5, Zenon DEF phases, PhaseOf, Phase, Using
<1>7. SC!Submit(a, h, m)
  BY <1>2, <1>6, Zenon DEF SC!Submit, phases, PhaseOf
<1>8. QED
  BY <1>4, <1>7, Zenon

\* A task ends.
LEMMA EndMaps ==
  ASSUME IInv, NEW a \in Accessors, End(a)
  PROVE  SC!End(a)
<1>1. hist' = hist /\ kind' = kind /\ pc[a] = "run" /\ kind[a] = "task"
      /\ (\A c \in Accessors : c # a => pc'[c] = pc[c]) /\ pc'[a] = "done"
  BY Domains, Zenon DEF End, IInv
<1>2. phases' = [phases EXCEPT ![a] = "done"] /\ phases[a] = "in"
  BY <1>1, Zenon DEF phases, PhaseOf, Phase, Using
<1>3. QED
  BY <1>1, <1>2, Zenon DEF SC!End, phases, PhaseOf

\* The application releases the data, or goes on reading it.
LEMMA ReleaseMaps ==
  ASSUME IInv, NEW a \in Accessors, ReleaseData(a)
  PROVE  \/ hist' = hist /\ phases' = phases
         \/ SC!End(a)
         \/ \E h \in Handles : SC!Downgrade(a, h)
<1>1. /\ kind' = kind /\ pc[a] = "unlock" /\ kind[a] # "task"
      /\ \A c \in Accessors : c # a => pc'[c] = pc[c]
  BY Domains, Zenon DEF ReleaseData, IInv, Carried
<1>2. PICK h : h = Handle(a, 1)
  BY Zenon
<1>3. h \in Handles
  <2>1. 1 \in 1..Len(access[a])
    BY <1>1 DEF IInv, Types
  <2>2. QED
    BY <1>2, <2>1, Elements, Zenon DEF IInv
<1>4. CASE unlocking[a][1] = "NONE"
  <2>1. hist' = hist /\ pc'[a] = "done"
    BY <1>4, Domains, Zenon DEF ReleaseData, IInv
  <2>2. CASE kind[a] = "acquire"
    <3>1. phases' = [phases EXCEPT ![a] = "done"] /\ phases[a] = "in"
      BY <1>1, <2>1, <2>2, Zenon DEF phases, PhaseOf, Phase, Using
    <3>2. QED
      BY <2>1, <3>1, Zenon DEF SC!End, phases, PhaseOf
  <2>3. CASE kind[a] # "acquire"
    BY <1>1, <2>1, <2>3, Zenon DEF phases, PhaseOf, Phase, Using
  <2>4. QED
    BY <2>2, <2>3, Zenon
<1>5. CASE unlocking[a][1] # "NONE"
  <2>1. /\ pc'[a] = "hold"
        /\ hist' = [hist EXCEPT ![h] = [i \in DOMAIN hist[h] |->
                       IF hist[h][i].who = a THEN [hist[h][i] EXCEPT !.mode = "R"] ELSE hist[h][i]]]
    BY <1>2, <1>5, Domains, Zenon DEF ReleaseData, IInv
  <2>2. phases' = phases
    BY <1>1, <2>1, Zenon DEF phases, PhaseOf, Phase, Using
  <2>3. hist \in [Handles -> Seq(Accesses)]
    BY Zenon DEF IInv, Types
  <2>4. CASE \E i \in DOMAIN hist[h] : hist[h][i].who = a
    <3>1. PICK i \in 1..Len(hist[h]) : hist[h][i].who = a
      BY <1>3, <2>3, <2>4
    <3>2. kind[a] = "acquire"
      BY <1>1, <1>3, <3>1, Zenon DEF IInv, Recorded, Has
    <3>3. phases[a] = "in"
      BY <1>1, <3>2, Zenon DEF phases, PhaseOf, Phase, Using
    <3>4. SC!Downgrade(a, h)
      BY <2>1, <2>2, <2>4, <3>3, Zenon DEF SC!Downgrade, phases, PhaseOf
    <3>5. QED
      BY <1>3, <3>4, Zenon
  <2>5. CASE ~\E i \in DOMAIN hist[h] : hist[h][i].who = a
    <3>1. hist[h] = [i \in DOMAIN hist[h] |-> hist[h][i]]
      <4>1. hist[h] \in [1..Len(hist[h]) -> Accesses]
        BY <1>3, <2>3
      <4>2. QED
        BY <4>1, Zenon
    <3>2. hist' = [hist EXCEPT ![h] = hist[h]]
      BY <2>1, <2>5, <3>1, Zenon
    <3>3. QED
      BY <1>3, <2>2, <2>3, <3>2, Zenon
  <2>6. QED
    BY <2>4, <2>5, Zenon
<1>6. QED
  BY <1>4, <1>5, Zenon

\* All other steps are invisible.
LEMMA OtherMaps ==
  ASSUME IInv, NEW a \in Accessors, NEW j \in Jobs,
         \/ Skip(a) \/ Try(a) \/ Release(a) \/ AddPostSync(a) \/ UnlockTest(a, "NONE")
         \/ UnlockTest(a, "R") \/ Unlock(a) \/ UnlockOne(a)
         \/ StartEmpty(j) \/ ReleaseEmpty(j) \/ Notify(j)
  PROVE  hist' = hist /\ phases' = phases
<1>1. CASE Skip(a) \/ Try(a)
  <2>1. /\ hist' = hist /\ kind' = kind /\ kind[a] \notin {"task", "acquire"}
        /\ \A c \in Accessors : c # a => pc'[c] = pc[c]
    BY <1>1, Domains, Zenon DEF Skip, Try, IInv
  <2>2. QED
    BY <2>1, Zenon DEF phases, PhaseOf, Phase, Using
<1>2. CASE AddPostSync(a) \/ UnlockTest(a, "NONE") \/ UnlockTest(a, "R")
  <2>1. /\ hist' = hist /\ kind' = kind
        /\ pc[a] \in {"granted", "hold"} /\ pc'[a] \in {"hold", "unlock"}
        /\ \A c \in Accessors : c # a => pc'[c] = pc[c]
    BY <1>2, Domains, Zenon DEF AddPostSync, UnlockTest, IInv
  <2>2. QED
    BY <2>1, Zenon DEF phases, PhaseOf, Phase, Using
<1>3. CASE Release(a) \/ Unlock(a) \/ UnlockOne(a) \/ StartEmpty(j) \/ ReleaseEmpty(j)
  <2>1. hist' = hist /\ kind' = kind /\ pc' = pc
    BY <1>3, Zenon DEF Release, Unlock, UnlockOne, StartEmpty, ReleaseEmpty
  <2>2. QED
    BY <2>1, Zenon DEF phases, PhaseOf, Phase, Using
<1>4. CASE Notify(j)
  <2>1. hist' = hist /\ kind' = kind
    BY <1>4, Zenon DEF Notify
  <2>2. CASE j[2] # Pre
    <3>1. pc' = pc
      BY <1>4, <2>2, Zenon DEF Notify
    <3>2. QED
      BY <2>1, <3>1, Zenon DEF phases, PhaseOf, Phase, Using
  <2>3. CASE j[2] = Pre
    <3>1. PICK c \in Accessors : j = <<c, Pre>>
      BY <2>3 DEF Jobs
    <3>2. pc[c] = "wait"
      BY <1>4, <3>1, Zenon DEF Notify, IInv, Stages, TaskStage, UserStage
    <3>3. pc'[c] = "attempt" /\ \A e \in Accessors : e # c => pc'[e] = pc[e]
      BY <1>4, <3>1, Domains, Zenon DEF Notify, IInv
    <3>4. QED
      BY <2>1, <3>2, <3>3, Zenon DEF phases, PhaseOf, Phase, Using
  <2>4. QED
    BY <2>2, <2>3, Zenon
<1>5. QED
  BY <1>1, <1>2, <1>3, <1>4, Zenon

\* Every step is one of SequentialConsistency, or invisible.
LEMMA StepMaps ==
  ASSUME IInv, [Next]_vars
  PROVE  SC!Next \/ (hist' = hist /\ phases' = phases)
<1>1. ASSUME NEW a \in Accessors, SubmitStep(a) \/ TaskStep(a) \/ UserStep(a) \/ UnlockTest(a, "R")
      PROVE  SC!Next \/ (hist' = hist /\ phases' = phases)
  <2>1. Main(a) \in Jobs
    BY JobsOf, Zenon
  <2>2. CASE Detect(a)
    BY <2>2, SubmitMaps, Zenon DEF SC!Next
  <2>3. CASE Start(a) \/ Grant(a)
    BY <2>3, BeginStep, Zenon DEF SC!Next
  <2>4. CASE End(a)
    BY <2>4, EndMaps, Zenon DEF SC!Next
  <2>5. CASE ReleaseData(a)
    BY <2>5, ReleaseMaps, Zenon DEF SC!Next
  <2>6. CASE \/ Skip(a) \/ Try(a) \/ Release(a) \/ AddPostSync(a) \/ UnlockTest(a, "NONE")
             \/ UnlockTest(a, "R") \/ Unlock(a) \/ UnlockOne(a)
    BY <2>1, <2>6, OtherMaps, Zenon
  <2>7. QED
    BY <1>1, <2>2, <2>3, <2>4, <2>5, <2>6, Zenon DEF SubmitStep, TaskStep, UserStep
<1>2. ASSUME NEW j \in Jobs, JobStep(j)
      PROVE  hist' = hist /\ phases' = phases
  <2>1. j[1] \in Accessors
    BY Zenon DEF Jobs
  <2>2. QED
    BY <1>2, <2>1, OtherMaps, Zenon DEF JobStep
<1>3. CASE UNCHANGED vars
  BY <1>3, Zenon DEF vars, phases, PhaseOf, Phase, Using
<1>4. QED
  BY <1>1, <1>2, <1>3, Zenon DEF Next, Step

\* The inferred dependencies implement sequential consistency, for any number of tasks
\* and acquisitions, threads, buffers and handles: conflicting accesses take place in the
\* order in which they were submitted (_starpu_detect_implicit_data_deps_with_handle).
THEOREM Refines ==
  ASSUME OneClass
  PROVE  Spec => Sequential
<1>1. Init => SC!Init
  <2> SUFFICES ASSUME Init PROVE SC!Init
    BY Zenon
  <2>1. \A a \in Accessors : pc[a] = "start"
    BY Zenon DEF Init
  <2>2. QED
    BY <2>1, Zenon DEF Init, SC!Init, Phase, Using
<1>2. IInv /\ [Next]_vars =>
        [SC!Next]_<<hist, [a \in Accessors |-> IF kind[a] \in {"task", "acquire"} THEN Phase(a) ELSE "out"]>>
  BY StepMaps, Zenon DEF phases, PhaseOf
<1>3. Spec => []IInv
  BY Inferred, Zenon
<1>4. QED
  BY <1>1, <1>2, <1>3, PTL DEF Spec, Sequential, SC!Spec
=============================================================================
