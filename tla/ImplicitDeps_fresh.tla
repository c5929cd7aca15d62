------------------------- MODULE ImplicitDeps_fresh -------------------------
(***************************************************************************)
(* A proof that handles forget tasks in time (NoStaleTask), for any        *)
(* accessors, threads, handles and programs.                               *)
(***************************************************************************)
EXTENDS ImplicitDeps_base

\* Buffer k of an accessor has not been released: handles may refer to its task, or
\* to its post_sync task.
Live(c, k) ==
    IF kind[c] = "task"
    THEN \/ jpc[Main(c)] \in {"none", "submitted", "run"}
         \/ jpc[Main(c)] = "release" /\ k >= buf[c]
    ELSE jpc[Main(c)] = "none"

\* Handle h may remember that job j accesses it with buffer k.
Kept(h, j, k) ==
    \E c \in Accessors : j = Main(c) /\ k \in 1..Len(access[c]) /\ Handle(c, k) = h /\ Live(c, k)

\* Handle h may have job j as its last_sync_task.
Tracked(h, j) ==
    \E c \in Accessors : \E k \in 1..Len(access[c]) :
        /\ Handle(c, k) = h
        /\ \/ j = Main(c) /\ Live(c, k)
           \/ j = <<c, k>> /\ jpc[<<c, k>>] \in {"submitted", "release"}

\* What handles remember is yet to be released, and a task releases its buffers from the
\* first one on.
Fresh ==
    /\ \A c \in Accessors :
         kind[c] = "task" /\ jpc[Main(c)] \in {"submitted", "run"} => buf[c] = 1
    /\ \A h \in Handles :
         /\ last_sync_task[h] = None \/ Tracked(h, last_sync_task[h])
         /\ \A s \in accessors[h] : Kept(h, s[1], s[2])

\* What is yet to be released has not notified its successors.
LEMMA FreshNotStale == Fresh => NoStaleTask
BY Zenon DEF Fresh, Kept, Tracked, Live, NoStaleTask

\* The step of an action that makes handles remember nothing new, and forget what is no
\* longer live.
Pruned ==
    /\ kind' = kind
    /\ \A c \in Accessors :
         /\ Len(access'[c]) = Len(access[c])
         /\ \A k \in 1..Len(access[c]) : Handle(c, k)' = Handle(c, k)
         /\ kind[c] = "task" /\ jpc'[Main(c)] \in {"submitted", "run"} => buf'[c] = 1
    /\ \A h \in Handles :
         accessors'[h] \subseteq accessors[h] /\ last_sync_task'[h] \in {None, last_sync_task[h]}
    /\ \A c \in Accessors : \A k \in 1..Len(access[c]) :
         /\ Live(c, k) => \/ Live(c, k)'
                          \/ /\ <<Main(c), k>> \notin accessors'[Handle(c, k)]
                             /\ last_sync_task'[Handle(c, k)] # Main(c)
         /\ jpc[<<c, k>>] \in {"submitted", "release"} =>
              \/ jpc'[<<c, k>>] \in {"submitted", "release"}
              \/ last_sync_task'[Handle(c, k)] # <<c, k>>

\* Such a step keeps what handles remember fresh.
LEMMA PrunedFresh ==
  ASSUME Types, Fresh, Pruned
  PROVE  Fresh'
<1>1. ASSUME NEW h \in Handles, last_sync_task'[h] # None
      PROVE  Tracked(h, last_sync_task[h])' /\ last_sync_task'[h] = last_sync_task[h]
  <2>1. last_sync_task'[h] = last_sync_task[h]
    BY <1>1, Zenon DEF Pruned
  <2>2. PICK l : l = last_sync_task[h]
    BY Zenon
  <2>0. PICK c \in Accessors : \E e \in 1..Len(access[c]) :
           /\ Handle(c, e) = h
           /\ \/ l = Main(c) /\ Live(c, e)
              \/ l = <<c, e>> /\ jpc[<<c, e>>] \in {"submitted", "release"}
    BY <1>1, <2>1, <2>2, Zenon DEF Fresh, Tracked
  <2>3. PICK k \in 1..Len(access[c]) :
           /\ Handle(c, k) = h
           /\ \/ l = Main(c) /\ Live(c, k)
              \/ l = <<c, k>> /\ jpc[<<c, k>>] \in {"submitted", "release"}
    BY <2>0, Zenon
  <2>4. k \in 1..Len(access'[c]) /\ Handle(c, k)' = h
    BY <2>3, Zenon DEF Pruned
  <2>5. (l = Main(c) /\ Live(c, k)') \/ (l = <<c, k>> /\ jpc'[<<c, k>>] \in {"submitted", "release"})
    BY <2>1, <2>2, <2>3, Zenon DEF Pruned
  <2>6. Tracked(h, l)'
    BY <2>4, <2>5, Zenon DEF Tracked
  <2>7. QED
    BY <2>1, <2>2, <2>6, Zenon
<1>2. ASSUME NEW h \in Handles, NEW s \in accessors'[h]
      PROVE  Kept(h, s[1], s[2])'
  <2>1. s \in accessors[h] /\ s = <<s[1], s[2]>>
    <3>1. s \in accessors[h]
      BY <1>2, Zenon DEF Pruned
    <3>2. s \in Jobs \X (1..MaxBuffers)
      BY <3>1, Zenon DEF Types, TypeOK
    <3>3. QED
      BY <3>1, <3>2
  <2>2. PICK c \in Accessors : /\ s[1] = Main(c) /\ s[2] \in 1..Len(access[c])
                               /\ Handle(c, s[2]) = h /\ Live(c, s[2])
    BY <2>1, Zenon DEF Fresh, Kept
  <2>3. PICK k : k = s[2]
    BY Zenon
  <2>4. /\ k \in 1..Len(access[c]) /\ Handle(c, k) = h /\ Live(c, k)
        /\ <<Main(c), k>> \in accessors'[h]
    BY <2>1, <2>2, <2>3, <1>2, Zenon
  <2>5. k \in 1..Len(access'[c]) /\ Handle(c, k)' = h /\ Live(c, k)'
    BY <2>4, Zenon DEF Pruned
  <2>6. QED
    BY <2>2, <2>3, <2>5, Zenon DEF Kept
<1>3. QED
  BY <1>1, <1>2, Zenon DEF Fresh, Pruned

-----------------------------------------------------------------------------
(* The steps.                                                              *)

\* The buffers of an accessor, and the jobs named after them.
LEMMA Slots ==
  ASSUME Base
  PROVE  \A c \in Accessors :
           /\ Main(c) \in Jobs /\ 1 \in 1..Len(access[c]) /\ Len(access[c]) \in Nat
           /\ \A e \in Accessors : e # c => Main(e) # Main(c)
           /\ \A k \in 1..Len(access[c]) :
                /\ k \in Nat /\ k >= 1 /\ k \in 1..MaxBuffers /\ Handle(c, k) \in Handles
                /\ <<c, k>> \in Jobs /\ \A e \in Accessors : <<c, k>> # Main(e)
<1> SUFFICES ASSUME NEW c \in Accessors
             PROVE  /\ Main(c) \in Jobs /\ 1 \in 1..Len(access[c]) /\ Len(access[c]) \in Nat
                    /\ \A e \in Accessors : e # c => Main(e) # Main(c)
                    /\ \A k \in 1..Len(access[c]) :
                         /\ k \in Nat /\ k >= 1 /\ k \in 1..MaxBuffers /\ Handle(c, k) \in Handles
                         /\ <<c, k>> \in Jobs /\ \A e \in Accessors : <<c, k>> # Main(e)
  BY Zenon
<1>1. Len(access[c]) \in 1..MaxBuffers /\ \A k \in 1..Len(access[c]) : Handle(c, k) \in Handles
  BY Elements, Zenon DEF Base, Types
<1>2. 1 \in 1..Len(access[c]) /\ Len(access[c]) \in Nat
  BY <1>1, SizesAssumption
<1>3. \A k \in 1..Len(access[c]) : k \in Nat /\ k >= 1 /\ k \in 1..MaxBuffers /\ k # 0
  BY <1>1, SizesAssumption
<1>4. \A k \in 1..Len(access[c]) : <<c, k>> \in Jobs /\ \A e \in Accessors : <<c, k>> # Main(e)
  BY <1>3, JobsOf, Zenon DEF Main
<1>5. Main(c) \in Jobs /\ \A e \in Accessors : e # c => Main(e) # Main(c)
  BY JobsOf, Zenon DEF Main
<1>6. QED
  BY <1>1, <1>2, <1>3, <1>4, <1>5, Zenon

\* A step that moves neither jobs nor what handles remember.
LEMMA StillFresh ==
  ASSUME Base, Fresh, UNCHANGED <<last_sync_task, accessors, kind, buf, jpc>>,
         \A c \in Accessors : /\ Len(access'[c]) = Len(access[c])
                              /\ \A k \in 1..Len(access[c]) : Handle(c, k)' = Handle(c, k)
  PROVE  Fresh'
<1>1. \A c, k : Live(c, k)' = Live(c, k)
  BY Zenon DEF Live, Main
<1>2. Pruned
  BY <1>1, Zenon DEF Pruned, Fresh, Main
<1>3. QED
  BY <1>2, PrunedFresh, Zenon DEF Base

\* A task that starts, and one that ends: it has its buffers still to release.
LEMMA StartEndFresh ==
  ASSUME Base, Fresh, NEW a \in Accessors, Start(a) \/ End(a)
  PROVE  Fresh'
<1>1. /\ UNCHANGED <<last_sync_task, accessors, kind, access, buf>>
      /\ kind[a] = "task" /\ buf[a] = 1
      /\ jpc' = [jpc EXCEPT ![Main(a)] = "run"] \/ jpc' = [jpc EXCEPT ![Main(a)] = "release"]
  <2>1. TaskStage(a)
    BY Zenon DEF Base, Stages
  <2>2. kind[a] = "task" /\ jpc[Main(a)] \in {"submitted", "run"}
    BY <2>1, Zenon DEF Start, End, Ready, TaskStage
  <2>3. QED
    BY <2>2, Zenon DEF Start, End, hvars, Fresh
<1>2. /\ \A j \in Jobs : j # Main(a) => jpc'[j] = jpc[j]
      /\ jpc'[Main(a)] \in {"run", "release"}
  <2>1. DOMAIN jpc = Jobs /\ Main(a) \in Jobs
    BY Domains, JobsOf, Zenon DEF Base
  <2>2. QED
    BY <1>1, <2>1, Zenon
<1>3. ASSUME NEW c \in Accessors, NEW k \in 1..Len(access[c])
      PROVE  /\ Live(c, k) => Live(c, k)'
             /\ jpc'[<<c, k>>] = jpc[<<c, k>>]
             /\ kind[c] = "task" /\ jpc'[Main(c)] \in {"submitted", "run"} => buf'[c] = 1
  <2>1. k >= 1
    BY Slots, Zenon
  <2>2. jpc'[<<c, k>>] = jpc[<<c, k>>] /\ (c # a => jpc'[Main(c)] = jpc[Main(c)])
    BY <1>2, Slots, Zenon
  <2>3. CASE c = a
    BY <1>1, <1>2, <2>1, <2>2, <2>3, Zenon DEF Live
  <2>4. CASE c # a
    BY <1>1, <2>2, <2>4, Zenon DEF Live, Fresh
  <2>5. QED
    BY <2>3, <2>4, Zenon
<1>5. Pruned
  BY <1>1, <1>3, Slots, Zenon DEF Pruned, Handle
<1>6. QED
  BY <1>5, PrunedFresh, Zenon DEF Base

\* A task releases a buffer: the handle forgets it, by this buffer and as its
\* last_sync_task.
LEMMA ReleaseFresh ==
  ASSUME Base, Fresh, NEW a \in Accessors, Release(a)
  PROVE  Fresh'
<1>1. PICK b, h : b = buf[a] /\ h = Handle(a, b)
  BY Zenon
<1>2. /\ UNCHANGED <<kind, access>> /\ kind[a] = "task" /\ jpc[Main(a)] = "release"
      /\ last_sync_task' = [last_sync_task EXCEPT ![h] = IF @ = Main(a) THEN None ELSE @]
      /\ accessors' = [accessors EXCEPT ![h] = @ \ {<<Main(a), b>>}]
      /\ buf' = [buf EXCEPT ![a] = b + 1]
      /\ jpc' = [jpc EXCEPT ![Main(a)] = IF b = Len(access[a]) THEN "notify" ELSE "release"]
  BY <1>1, Zenon DEF Release, Forget
<1>3. b \in 1..Len(access[a]) /\ Len(access[a]) \in Nat /\ h \in Handles
  <2>1. b \in 1..Len(access[a])
    BY <1>1, <1>2, Zenon DEF Base, Types
  <2>2. QED
    BY <1>1, <2>1, Elements, Zenon DEF Base
<1>4. /\ DOMAIN jpc = Jobs /\ DOMAIN buf = Accessors /\ DOMAIN last_sync_task = Handles
      /\ DOMAIN accessors = Handles /\ Main(a) \in Jobs /\ None # Main(a)
  BY Domains, JobsOf, Zenon DEF Base
<1>5. /\ \A j \in Jobs : j # Main(a) => jpc'[j] = jpc[j]
      /\ jpc'[Main(a)] = IF b = Len(access[a]) THEN "notify" ELSE "release"
      /\ \A c \in Accessors : c # a => buf'[c] = buf[c]
      /\ buf'[a] = b + 1
  BY <1>2, <1>4, Zenon
<1>6. /\ last_sync_task'[h] # Main(a) /\ <<Main(a), b>> \notin accessors'[h]
      /\ \A g \in Handles :
            accessors'[g] \subseteq accessors[g] /\ last_sync_task'[g] \in {None, last_sync_task[g]}
  BY <1>2, <1>3, <1>4, Zenon
<1>7. ASSUME NEW c \in Accessors, NEW k \in 1..Len(access[c])
      PROVE  /\ Live(c, k) => \/ Live(c, k)'
                              \/ /\ <<Main(c), k>> \notin accessors'[Handle(c, k)]
                                 /\ last_sync_task'[Handle(c, k)] # Main(c)
             /\ jpc'[<<c, k>>] = jpc[<<c, k>>]
             /\ kind[c] = "task" /\ jpc'[Main(c)] \in {"submitted", "run"} => buf'[c] = 1
  <2>1. k \in Nat
    BY Slots, Zenon
  <2>2. jpc'[<<c, k>>] = jpc[<<c, k>>] /\ (c # a => jpc'[Main(c)] = jpc[Main(c)])
    BY <1>5, Slots, Zenon
  <2>3. CASE c = a
    <3>1. jpc'[Main(a)] \notin {"submitted", "run"}
      BY <1>5, Zenon
    <3>2. CASE k = b
      BY <1>1, <1>6, <2>2, <2>3, <3>1, <3>2, Zenon
    <3>3. CASE k # b
      <4>1. k >= b => b # Len(access[a]) /\ k >= b + 1
        BY <1>3, <2>1, <2>3, <3>3
      <4>2. Live(a, k) => k >= b
        BY <1>1, <1>2, Zenon DEF Live
      <4>3. Live(a, k) => Live(a, k)'
        BY <1>2, <1>5, <4>1, <4>2, Zenon DEF Live
      <4>4. QED
        BY <2>2, <2>3, <3>1, <4>3, Zenon
    <3>4. QED
      BY <3>2, <3>3, Zenon
  <2>4. CASE c # a
    BY <1>2, <1>5, <2>2, <2>4, Zenon DEF Live, Fresh
  <2>5. QED
    BY <2>3, <2>4, Zenon
<1>9. Pruned
  BY <1>2, <1>6, <1>7, Slots, ZenonT(40) DEF Pruned, Handle
<1>10. QED
  BY <1>9, PrunedFresh, Zenon DEF Base

\* A step that moves one job to v, which handles forget if it ceases to be live.
Moved(j, v) ==
    /\ jpc' = [jpc EXCEPT ![j] = v] /\ kind' = kind /\ access' = access /\ buf' = buf
    /\ \A h \in Handles :
         accessors'[h] \subseteq accessors[h] /\ last_sync_task'[h] \in {None, last_sync_task[h]}
    /\ \A c \in Accessors : j = Main(c) => kind[c] # "task" \/ v \notin {"submitted", "run"}
    /\ \A c \in Accessors : \A k \in 1..Len(access[c]) :
         /\ j = Main(c) /\ Live(c, k) => /\ <<j, k>> \notin accessors'[Handle(c, k)]
                                         /\ last_sync_task'[Handle(c, k)] # j
         /\ j = <<c, k>> /\ jpc[j] \in {"submitted", "release"} =>
              v \in {"submitted", "release"} \/ last_sync_task'[Handle(c, k)] # j

\* Such a step keeps what handles remember fresh.
LEMMA MovedFresh ==
  ASSUME Base, Fresh, NEW j \in Jobs, NEW v, Moved(j, v)
  PROVE  Fresh'
<1> USE DEF Moved
<1>1. jpc'[j] = v /\ \A i \in Jobs : i # j => jpc'[i] = jpc[i]
  BY Domains, Zenon DEF Base
<1>2. ASSUME NEW c \in Accessors, NEW k \in 1..Len(access[c])
      PROVE  /\ Live(c, k) => \/ Live(c, k)'
                              \/ /\ <<Main(c), k>> \notin accessors'[Handle(c, k)]
                                 /\ last_sync_task'[Handle(c, k)] # Main(c)
             /\ jpc[<<c, k>>] \in {"submitted", "release"} =>
                  \/ jpc'[<<c, k>>] \in {"submitted", "release"}
                  \/ last_sync_task'[Handle(c, k)] # <<c, k>>
             /\ kind[c] = "task" /\ jpc'[Main(c)] \in {"submitted", "run"} => buf'[c] = 1
  <2>1. <<c, k>> \in Jobs /\ Main(c) \in Jobs
    BY Slots, Zenon
  <2>2. CASE j = Main(c)
    BY <1>1, <2>1, <2>2, Slots, ZenonT(40)
  <2>3. CASE j # Main(c)
    <3>1. jpc'[Main(c)] = jpc[Main(c)]
      BY <1>1, <2>1, <2>3, Zenon
    <3>2. Live(c, k) => Live(c, k)'
      BY <3>1, Zenon DEF Live
    <3>3. kind[c] = "task" /\ jpc'[Main(c)] \in {"submitted", "run"} => buf'[c] = 1
      BY <3>1, Zenon DEF Fresh
    <3>4. QED
      BY <1>1, <2>1, <3>2, <3>3, Zenon
  <2>4. QED
    BY <2>2, <2>3, Zenon
<1>3. Pruned
  BY <1>2, Slots, ZenonT(40) DEF Pruned, Handle
<1>4. QED
  BY <1>3, PrunedFresh, Zenon DEF Base

\* Synchronisation tasks: the handle forgets them when they are released.
LEMMA EmptyFresh ==
  ASSUME Base, Fresh, NEW j \in Jobs, StartEmpty(j) \/ ReleaseEmpty(j)
  PROVE  Fresh'
<1>0. \A c \in Accessors : j = Main(c) => kind[c] # "task"
  BY DEF StartEmpty, ReleaseEmpty, Main
<1>1. UNCHANGED <<kind, access, buf>>
  BY Zenon DEF StartEmpty, ReleaseEmpty
<1>2. jpc[j] # "none"
  BY Zenon DEF StartEmpty, ReleaseEmpty, Ready
<1>3. \A c \in Accessors : \A k : j = Main(c) => ~Live(c, k)
  BY <1>0, <1>2, Zenon DEF Live
<1>4. CASE StartEmpty(j)
  <2>1. jpc' = [jpc EXCEPT ![j] = "release"] /\ UNCHANGED <<accessors, last_sync_task>>
    BY <1>4, Zenon DEF StartEmpty, hvars
  <2>2. QED
    <3>1. Moved(j, "release")
      BY <1>1, <1>3, <2>1, Zenon DEF Moved
    <3>2. QED
      BY <3>1, MovedFresh, Zenon
<1>5. CASE ReleaseEmpty(j)
  <2>1. PICK b, h : b = (IF j[2] \in 1..MaxBuffers THEN j[2] ELSE 1) /\ h = Handle(j[1], b)
    BY Zenon
  <2>2. /\ jpc' = [jpc EXCEPT ![j] = "notify"]
        /\ last_sync_task' = [last_sync_task EXCEPT ![h] = IF @ = j THEN None ELSE @]
        /\ accessors' = [accessors EXCEPT ![h] = @ \ {<<j, b>>}]
    BY <1>5, <2>1, Zenon DEF ReleaseEmpty, Forget
  <2>3. DOMAIN last_sync_task = Handles /\ DOMAIN accessors = Handles /\ None # j
    BY Domains, JobsOf, Zenon DEF Base, Jobs
  <2>4. /\ \A g \in Handles :
             accessors'[g] \subseteq accessors[g] /\ last_sync_task'[g] \in {None, last_sync_task[g]}
        /\ h \in Handles => last_sync_task'[h] # j
    BY <2>2, <2>3, Zenon
  <2>5. ASSUME NEW c \in Accessors, NEW k \in 1..Len(access[c]), j = <<c, k>>
        PROVE  last_sync_task'[Handle(c, k)] # j
    <3>1. j[1] = c /\ j[2] = k /\ k \in 1..MaxBuffers /\ Handle(c, k) \in Handles
      BY <2>5, Slots, Zenon
    <3>2. QED
      BY <2>1, <2>4, <3>1, Zenon
  <2>6. QED
    <3>1. Moved(j, "notify")
      BY <1>1, <1>3, <2>2, <2>4, <2>5, Zenon DEF Moved
    <3>2. QED
      BY <3>1, MovedFresh, Zenon
<1>6. QED
  BY <1>4, <1>5, Zenon

\* A job that notifies has been forgotten before.
LEMMA NotifyFresh ==
  ASSUME Base, Fresh, NEW j \in Jobs, Notify(j)
  PROVE  Fresh'
<1>1. /\ UNCHANGED <<kind, access, buf, last_sync_task, accessors>> /\ jpc[j] = "notify"
      /\ jpc' = [jpc EXCEPT ![j] = "done"]
  BY Zenon DEF Notify, hvars
<1>2. \A c \in Accessors : \A k : j = Main(c) => ~Live(c, k)
  BY <1>1, Zenon DEF Live
<1>3. Moved(j, "done")
  BY <1>1, <1>2, Zenon DEF Moved
<1>4. QED
  BY <1>3, MovedFresh, Zenon

\* A release submits a post_sync task, which the handle of its acquisition forgets.
LEMMA UnlockOneFresh ==
  ASSUME Base, Fresh, NEW a \in Accessors, UnlockOne(a)
  PROVE  Fresh'
<1>1. PICK j, h : j = unlocking[a][3] /\ h = Handle(a, 1)
  BY Zenon
<1>2. /\ UNCHANGED <<kind, access, buf>> /\ Len(unlocking[a]) > 2
      /\ jpc' = [jpc EXCEPT ![j] = "submitted"]
      /\ last_sync_task' = [last_sync_task EXCEPT ![h] = IF @ = j THEN None ELSE @]
      /\ accessors' = [accessors EXCEPT ![h] = @ \ {<<j, 1>>}]
  BY <1>1, Zenon DEF UnlockOne, Forget
<1>3. PICK c \in Accessors : j = Main(c) /\ kind[c] = "acquire" /\ Handle(c, 1) = h
  <2>1. unlocking[a] \in Seq({"NONE", "R", "lock", "go"} \cup Jobs)
    BY Zenon DEF Base, Types
  <2>2. 3 \in 3..Len(unlocking[a])
    BY <1>2, <2>1
  <2>3. PostSync(j, h)
    BY <1>1, <2>2, Zenon DEF Base, Carried
  <2>4. QED
    BY <2>3, Zenon DEF PostSync
<1>4. j \in Jobs /\ None # j /\ h \in Handles /\ \A e \in 1..Len(access[c]) : e = 1
  <2>1. Len(access[c]) = 1
    BY <1>3, Zenon DEF Base, Types
  <2>2. \A e \in 1..Len(access[c]) : e = 1
    BY <2>1
  <2>3. QED
    BY <1>3, <2>2, Slots, JobsOf, Zenon
<1>5. DOMAIN last_sync_task = Handles /\ DOMAIN accessors = Handles
  BY Domains, Zenon DEF Base
<1>6. /\ \A g \in Handles :
           accessors'[g] \subseteq accessors[g] /\ last_sync_task'[g] \in {None, last_sync_task[g]}
      /\ last_sync_task'[h] # j /\ <<j, 1>> \notin accessors'[h]
  BY <1>2, <1>4, <1>5, Zenon
<1>7. \A e \in Accessors : j = Main(e) => e = c
  BY <1>3, Zenon DEF Main
<1>8. Moved(j, "submitted")
  BY <1>2, <1>3, <1>4, <1>6, <1>7, Zenon DEF Moved
<1>9. QED
  BY <1>4, <1>8, MovedFresh, Zenon

-----------------------------------------------------------------------------
(* The submission.                                                         *)

\* A turn of the submission: what the handle newly remembers is the accessor itself, or
\* the synchronisation task submitted along with it.
LEMMA DetectedFresh ==
  ASSUME Base, Fresh, NEW a \in Accessors, pc[a] = "start", kind[a] \in {"task", "acquire"},
         NEW b, NEW h, b = buf[a], h = Handle(a, b),
         NEW acc, NEW last, NEW d, NEW subs, Detected(a, acc, last, d, subs), subs \subseteq {<<a, b>>},
         \A s \in acc : s \in accessors[h] \/ s = <<Main(a), b>>,
         \/ last \in {None, Main(a)} \/ Tracked(h, last)
         \/ last = <<a, b>> /\ last \in subs
  PROVE  Fresh'
<1> DEFINE later == {c \in (b + 1)..Len(access[a]) : ~Duplicate(a, c)}
           submit_pre == kind[a] = "task" \/ d[PreSync(a)] # {}
           now == subs \cup (IF later = {} /\ submit_pre THEN {PreSync(a)} ELSE {})
<1>1. /\ accessors' = [accessors EXCEPT ![h] = acc]
      /\ last_sync_task' = [last_sync_task EXCEPT ![h] = last]
      /\ jpc' = [j \in Jobs |-> IF j \in now THEN "submitted" ELSE jpc[j]]
      /\ kind' = kind /\ access' = access
  BY Zenon DEF Detected
<1>2. PICK nb \in IF later = {} THEN {1} ELSE {e \in later : \A f \in later : e <= f} :
             buf' = [buf EXCEPT ![a] = nb]
  BY Zenon DEF Detected
<1>3. b \in 1..Len(access[a]) /\ h \in Handles /\ <<a, b>> \in Jobs /\ <<a, b>> # Main(a)
      /\ b \in 1..MaxBuffers
  <2>1. b \in 1..Len(access[a])
    BY Zenon DEF Base, Types
  <2>2. QED
    BY <2>1, Slots, Zenon
<1>4. jpc[PreSync(a)] = "none" /\ jpc[Main(a)] = "none" /\ jpc[<<a, b>>] = "none"
  <2>1. TaskStage(a) /\ UserStage(a) /\ SyncStage(a)
    BY Zenon DEF Base, Stages
  <2>2. b >= buf[a]
    BY <1>3, SizesAssumption
  <2>3. jpc[<<a, b>>] = "none"
    BY <1>3, <2>1, <2>2, Zenon DEF SyncStage
  <2>4. jpc[PreSync(a)] = "none" /\ jpc[Main(a)] = "none"
    BY <2>1, Zenon DEF TaskStage, UserStage, PreSync
  <2>5. QED
    BY <2>3, <2>4, Zenon
<1>5. ASSUME NEW j \in Jobs
      PROVE  /\ j \in now => jpc[j] = "none" /\ jpc'[j] = "submitted" /\ j \in {PreSync(a), <<a, b>>}
             /\ j \notin now => jpc'[j] = jpc[j]
  <2>1. j \in now => j \in {PreSync(a), <<a, b>>}
    BY Zenon
  <2> HIDE DEF now
  <2>2. QED
    BY <1>1, <1>4, <2>1, Zenon
<1>6. /\ Main(a) \in now => kind[a] = "task" /\ later = {}
      /\ \A c \in Accessors : c # a => Main(c) \notin now /\ Main(c) \in Jobs /\ buf'[c] = buf[c]
      /\ Main(a) \in Jobs /\ (later = {} => buf'[a] = 1)
  <2>1. \A c \in Accessors : c # a => Main(c) # PreSync(a) /\ Main(c) # <<a, b>>
    BY Zenon DEF Main, PreSync
  <2>2. kind[a] # "task" => PreSync(a) # Main(a)
    BY JobsOf, Zenon DEF Main, PreSync
  <2>3. DOMAIN buf = Accessors
    BY Domains, Zenon DEF Base
  <2>4. Main(a) \in now => kind[a] = "task" /\ later = {}
    BY <1>3, <2>2, Zenon
  <2>5. \A c \in Accessors : c # a => Main(c) \notin now /\ Main(c) \in Jobs /\ buf'[c] = buf[c]
    BY <1>2, <2>1, <2>3, Slots, Zenon
  <2>6. Main(a) \in Jobs /\ (later = {} => buf'[a] = 1)
    BY <1>2, <2>3, Slots, Zenon
  <2>7. QED
    BY <2>4, <2>5, <2>6, Zenon
<1> HIDE DEF now, later, submit_pre
<1>7. /\ Live(a, b)'
      /\ \A c \in Accessors : \A k : Live(c, k) => Live(c, k)'
  <2>1. \A k : Live(a, k)'
    BY <1>1, <1>4, <1>5, <1>6, Zenon DEF Live, Main
  <2>2. ASSUME NEW c \in Accessors, NEW k, c # a, Live(c, k) PROVE Live(c, k)'
    BY <1>1, <1>5, <1>6, <2>2, Zenon DEF Live
  <2>3. QED
    BY <2>1, <2>2, Zenon
<1>8. ASSUME NEW g, NEW j, Tracked(g, j) PROVE Tracked(g, j)'
  <2>1. PICK c \in Accessors : \E k \in 1..Len(access[c]) :
           /\ Handle(c, k) = g
           /\ \/ j = Main(c) /\ Live(c, k)
              \/ j = <<c, k>> /\ jpc[<<c, k>>] \in {"submitted", "release"}
    BY <1>8, Zenon DEF Tracked
  <2>2. PICK k \in 1..Len(access[c]) :
           /\ Handle(c, k) = g
           /\ \/ j = Main(c) /\ Live(c, k)
              \/ j = <<c, k>> /\ jpc[<<c, k>>] \in {"submitted", "release"}
    BY <2>1, Zenon
  <2>3. <<c, k>> \in Jobs
    BY Slots, Zenon
  <2>4. k \in 1..Len(access'[c]) /\ Handle(c, k)' = g
    BY <1>1, <2>2, Zenon DEF Handle
  <2>5. jpc[<<c, k>>] \in {"submitted", "release"} => jpc'[<<c, k>>] \in {"submitted", "release"}
    BY <1>5, <2>3, Zenon
  <2>6. QED
    BY <1>7, <2>2, <2>4, <2>5, Zenon DEF Tracked
<1>9. ASSUME NEW g, NEW j, NEW k, Kept(g, j, k) PROVE Kept(g, j, k)'
  BY <1>1, <1>7, <1>9, Zenon DEF Kept, Handle
<1>10. b \in 1..Len(access'[a]) /\ Handle(a, b)' = h
  BY <1>1, <1>3, Zenon DEF Handle
<1>11. Kept(h, Main(a), b)'
  BY <1>7, <1>10, Zenon DEF Kept, Main
<1>12. last = None \/ Tracked(h, last)'
  <2>1. CASE last = Main(a)
    BY <1>7, <1>10, <2>1, Zenon DEF Tracked, Main
  <2>2. CASE last = <<a, b>> /\ last \in subs
    <3>1. <<a, b>> \in now
      BY <2>2, Zenon DEF now
    <3>2. jpc'[<<a, b>>] = "submitted"
      BY <1>3, <1>5, <3>1, Zenon
    <3>3. QED
      BY <1>10, <2>2, <3>2, Zenon DEF Tracked
  <2>3. QED
    BY <1>8, <2>1, <2>2, Zenon
<1>13. /\ accessors'[h] = acc /\ last_sync_task'[h] = last
       /\ \A g \in Handles : g # h => /\ accessors'[g] = accessors[g]
                                      /\ last_sync_task'[g] = last_sync_task[g]
  BY <1>1, <1>3, Domains, Zenon DEF Base
<1>14. ASSUME NEW c \in Accessors, kind'[c] = "task", jpc'[Main(c)] \in {"submitted", "run"}
       PROVE  buf'[c] = 1
  <2>1. CASE c = a
    BY <1>4, <1>5, <1>6, <1>14, <2>1, Zenon
  <2>2. CASE c # a
    <3>1. jpc'[Main(c)] = jpc[Main(c)] /\ buf'[c] = buf[c]
      BY <1>5, <1>6, <2>2, Zenon
    <3>2. QED
      BY <1>1, <1>14, <3>1, Zenon DEF Fresh
  <2>3. QED
    BY <2>1, <2>2, Zenon
<1>15. ASSUME NEW g \in Handles
       PROVE  /\ last_sync_task'[g] = None \/ Tracked(g, last_sync_task[g])'
              /\ \A s \in accessors'[g] : Kept(g, s[1], s[2])'
  <2>1. PICK l : l = last_sync_task'[g]
    BY Zenon
  <2>2. l = None \/ Tracked(g, l)'
    BY <1>8, <1>12, <1>13, <2>1, Zenon DEF Fresh
  <2>3. \A s \in accessors'[g] : Kept(g, s[1], s[2])'
    <3>1. ASSUME NEW s \in accessors'[g] PROVE s \in accessors[g] \/ (g = h /\ s = <<Main(a), b>>)
      BY <1>13, <3>1
    <3>2. ASSUME NEW s, s = <<Main(a), b>> PROVE Kept(h, s[1], s[2])'
      BY <1>11, <3>2, Zenon
    <3>3. QED
      BY <1>9, <3>1, <3>2, Zenon DEF Fresh
  <2>4. QED
    BY <2>1, <2>2, <2>3, Zenon
<1>16. QED
  BY <1>14, <1>15, Zenon DEF Fresh, Main

\* _starpu_detect_implicit_data_deps_with_handle, in each of the four ways.
LEMMA DetectFresh ==
  ASSUME Base, Fresh, NEW a \in Accessors, Detect(a)
  PROVE  Base' /\ Fresh'
<1>1. PICK b, h, A, L : b = buf[a] /\ h = Handle(a, b) /\ A = accessors[h] /\ L = last_sync_task[h]
  BY Zenon
<1> DEFINE pre == PreSync(a)
           previous == {s[1] : s \in A} \ {Main(a)}
           slot == <<Main(a), b>>
<1>2. pc[a] = "start" /\ kind[a] \in {"task", "acquire"}
  BY Zenon DEF Detect
<1>3. /\ h \in Handles /\ A \in SUBSET (Jobs \X (1..MaxBuffers)) /\ L \in Jobs \cup {None}
      /\ deps \in [Jobs -> SUBSET Jobs] /\ slot \in Jobs \X (1..MaxBuffers)
      /\ Main(a) \in Jobs /\ <<a, b>> \in Jobs /\ pre \in Jobs
  <2>1. b \in 1..Len(access[a])
    BY <1>1, <1>2, Zenon DEF Base, Types
  <2>2. h \in Handles /\ <<a, b>> \in Jobs /\ b \in 1..MaxBuffers
    BY <1>1, <2>1, Slots, Zenon
  <2>3. Main(a) \in Jobs /\ pre \in Jobs
    BY JobsOf, Zenon
  <2>4. /\ A \in SUBSET (Jobs \X (1..MaxBuffers)) /\ L \in Jobs \cup {None}
        /\ deps \in [Jobs -> SUBSET Jobs]
    BY <1>1, <2>2, Zenon DEF Base, Types, TypeOK
  <2>5. QED
    BY <2>2, <2>3, <2>4, Zenon
<1>4. /\ L = None \/ Tracked(h, L)
      /\ \A s \in A : s[1] \in Jobs /\ Tracked(h, s[1])
  <2>1. L = None \/ Tracked(h, L)
    BY <1>1, <1>3, Zenon DEF Fresh
  <2>2. \A s \in A : Kept(h, s[1], s[2])
    BY <1>1, <1>3, Zenon DEF Fresh
  <2>3. \A s \in A : s[1] \in Jobs
    BY <1>3, Zenon
  <2>4. QED
    BY <2>1, <2>2, <2>3, Zenon DEF Kept, Tracked
<1>5. ASSUME NEW acc, NEW last, NEW d, NEW subs, Detected(a, acc, last, d, subs),
             acc \in SUBSET (A \cup {slot}), subs \in {{}, {<<a, b>>}},
             d \in [Jobs -> SUBSET Jobs], \A j \in Jobs : j \notin {pre, <<a, b>>} => d[j] = deps[j],
             last \in Jobs \cup {None},
             last \in {None, Main(a)} \/ Tracked(h, last) \/ (last = <<a, b>> /\ last \in subs)
      PROVE  Base' /\ Fresh'
  <2>1. acc \in SUBSET (Jobs \X (1..MaxBuffers)) /\ subs \subseteq {<<a, b>>}
    BY <1>3, <1>5, Zenon
  <2>2. \A s \in acc : s \in accessors[h] \/ s = <<Main(a), b>>
    BY <1>1, <1>5, Zenon
  <2> HIDE DEF pre, slot
  <2>3. Turned(a, acc, last, d)
    BY <1>1, <1>2, <1>5, <2>1, DetectedFrame, Zenon DEF pre
  <2>4. Fresh'
    BY <1>1, <1>2, <1>5, <2>1, <2>2, DetectedFresh, Zenon
  <2>5. QED
    BY <2>3, <2>4, Zenon DEF Turned, Base
<1>6. CASE Detected(a, A \cup {slot}, L, [deps EXCEPT ![pre] = @ \cup DepOn(L, a)], {})
  <2> DEFINE d == [deps EXCEPT ![pre] = @ \cup DepOn(L, a)]
             acc == A \cup {slot}
  <2>1. /\ d \in [Jobs -> SUBSET Jobs] /\ acc \in SUBSET (A \cup {slot})
        /\ \A j \in Jobs : j \notin {pre, <<a, b>>} => d[j] = deps[j]
    BY <1>3, Zenon DEF DepOn
  <2>2. Detected(a, acc, L, d, {})
    BY <1>6, Zenon
  <2> HIDE DEF d, acc, pre, slot
  <2>3. QED
    BY <1>3, <1>4, <1>5, <2>1, <2>2
<1>7. CASE Detected(a, {}, Main(a), [deps EXCEPT ![pre] = @ \cup previous], {})
  <2> DEFINE d == [deps EXCEPT ![pre] = @ \cup previous]
  <2>1. previous \in SUBSET Jobs
    BY <1>4, Zenon
  <2>2. /\ d \in [Jobs -> SUBSET Jobs]
        /\ \A j \in Jobs : j \notin {pre, <<a, b>>} => d[j] = deps[j]
    BY <1>3, <2>1, Zenon
  <2>3. Detected(a, {}, Main(a), d, {})
    BY <1>7, Zenon
  <2> HIDE DEF d, pre, slot
  <2>4. QED
    BY <1>3, <1>5, <2>2, <2>3, Zenon
<1>8. CASE Detected(a, {slot}, <<a, b>>,
                    [deps EXCEPT ![<<a, b>>] = previous, ![pre] = @ \cup {<<a, b>>}], {<<a, b>>})
  <2> DEFINE d == [deps EXCEPT ![<<a, b>>] = previous, ![pre] = @ \cup {<<a, b>>}]
  <2>1. previous \in SUBSET Jobs
    BY <1>4, Zenon
  <2>2. d \in [Jobs -> SUBSET Jobs] /\ \A j \in Jobs : j \notin {pre, <<a, b>>} => d[j] = deps[j]
    <3> HIDE DEF previous, pre
    <3>1. [deps EXCEPT ![<<a, b>>] = previous] \in [Jobs -> SUBSET Jobs]
      BY <1>3, <2>1
    <3>2. QED
      BY <1>3, <2>1, <3>1
  <2>3. Detected(a, {slot}, <<a, b>>, d, {<<a, b>>}) /\ {slot} \in SUBSET (A \cup {slot})
    BY <1>8, Zenon
  <2> HIDE DEF d, pre, slot
  <2>4. QED
    BY <1>3, <1>5, <2>2, <2>3
<1>9. CASE \E s \in {t[1] : t \in A} \cup (IF A = {} THEN {L} ELSE {}) :
              Detected(a, {slot}, s, [deps EXCEPT ![pre] = @ \cup DepOn(s, a)], {})
  <2>1. PICK s \in {t[1] : t \in A} \cup (IF A = {} THEN {L} ELSE {}) :
              Detected(a, {slot}, s, [deps EXCEPT ![pre] = @ \cup DepOn(s, a)], {})
    BY <1>9, Zenon
  <2> DEFINE d == [deps EXCEPT ![pre] = @ \cup DepOn(s, a)]
  <2>2. s \in Jobs \cup {None} /\ (s = None \/ Tracked(h, s))
    BY <1>3, <1>4, <2>1, Zenon
  <2>3. /\ d \in [Jobs -> SUBSET Jobs]
        /\ \A j \in Jobs : j \notin {pre, <<a, b>>} => d[j] = deps[j]
    BY <1>3, <2>2, Zenon DEF DepOn
  <2>4. Detected(a, {slot}, s, d, {}) /\ {slot} \in SUBSET (A \cup {slot})
    BY <2>1, Zenon
  <2> HIDE DEF d, pre, slot
  <2>5. QED
    BY <1>5, <2>2, <2>3, <2>4, Zenon
<1>10. QED
  BY <1>1, <1>6, <1>7, <1>8, <1>9, Zenon DEF Detect

-----------------------------------------------------------------------------
(* All steps.                                                              *)

\* A step of the program keeps what handles remember fresh.
LEMMA NextFresh ==
  ASSUME Base, Fresh, [Next]_vars
  PROVE  Base' /\ Fresh'
<1>1. ASSUME UNCHANGED <<last_sync_task, accessors, kind, access, buf, jpc>> PROVE Fresh'
  BY <1>1, StillFresh, Zenon DEF Handle
<1>2. ASSUME NEW a \in Accessors, SubmitStep(a) PROVE Base' /\ Fresh'
  <2>1. CASE Skip(a) \/ Try(a)
    BY <1>1, <2>1, SkipTryBase, Zenon DEF Skip, Try, hvars
  <2>2. QED
    BY <1>2, <2>1, DetectFresh, Zenon DEF SubmitStep
<1>3. ASSUME NEW a \in Accessors, TaskStep(a) PROVE Base' /\ Fresh'
  BY <1>3, StartEndBase, StartEndFresh, ReleaseBase, ReleaseFresh, Zenon DEF TaskStep
<1>4. ASSUME NEW j \in Jobs, JobStep(j) PROVE Base' /\ Fresh'
  BY <1>4, EmptyBase, EmptyFresh, NotifyBase, NotifyFresh, Zenon DEF JobStep
<1>5. ASSUME NEW a \in Accessors, UserStep(a) \/ UnlockTest(a, "R") PROVE Base' /\ Fresh'
  <2>1. CASE Grant(a)
    BY <1>1, <2>1, GrantBase, Zenon DEF Grant, hvars
  <2>2. CASE AddPostSync(a)
    BY <1>1, <2>2, AddPostSyncBase, Zenon DEF AddPostSync, hvars
  <2>3. CASE UnlockTest(a, "NONE") \/ UnlockTest(a, "R") \/ Unlock(a)
    BY <1>1, <2>3, UnlockBase, Zenon DEF UnlockTest, Unlock, hvars
  <2>4. CASE UnlockOne(a)
    BY <2>4, UnlockOneBase, UnlockOneFresh, Zenon
  <2>5. CASE ReleaseData(a)
    <3>1. Base' /\ Released(a)
      BY <2>5, ReleaseDataBase, Zenon
    <3>2. QED
      BY <3>1, StillFresh, Zenon DEF Released
  <2>6. QED
    BY <1>5, <2>1, <2>2, <2>3, <2>4, <2>5, Zenon DEF UserStep
<1>6. CASE UNCHANGED vars
  BY <1>1, <1>6, StutterBase, Zenon DEF vars, hvars
<1>7. QED
  BY <1>2, <1>3, <1>4, <1>5, <1>6, Zenon DEF Next, Step

\* Handles forget tasks in time: neither the last_sync_task of a handle nor its
\* last_submitted_accessors refer to a task that has notified its successors and may be
\* destroyed, whatever tasks and acquisitions are submitted by whichever threads.
THEOREM ForgottenInTime == Spec => []NoStaleTask
<1>1. Init => Base /\ Fresh
  <2> SUFFICES ASSUME Init PROVE Base /\ Fresh
    BY Zenon
  <2>1. \A h \in Handles : last_sync_task[h] = None /\ accessors[h] = {}
    BY Zenon DEF Init
  <2>2. \A c \in Accessors : jpc[Main(c)] = "none"
    BY JobsOf, Zenon DEF Init
  <2>3. QED
    BY <2>1, <2>2, InitBase, Zenon DEF Fresh
<1>2. Base /\ Fresh /\ [Next]_vars => Base' /\ Fresh'
  BY NextFresh, Zenon
<1>3. QED
  BY <1>1, <1>2, FreshNotStale, PTL DEF Spec
=============================================================================
