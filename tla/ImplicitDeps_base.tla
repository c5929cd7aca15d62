------------------------- MODULE ImplicitDeps_base -------------------------
(***************************************************************************)
(* What every step of ImplicitDeps keeps, for any accessors, threads,      *)
(* handles and programs, whatever dependencies are inferred: the stages    *)
(* that accessors and their jobs go through.  The proofs about the         *)
(* dependencies (ImplicitDeps_proofs) and about what handles refer to      *)
(* (ImplicitDeps_fresh) rest on it.                                        *)
(***************************************************************************)
EXTENDS ImplicitDeps, Integers, TLAPS

\* The job is over for whoever depends on it: it has executed, or the acquisition it
\* stands for was granted the data.
Past(j) == IF j[2] = 0 THEN pc[j[1]] \in {"hold", "unlock", "done"}
                       ELSE jpc[j] \in {"release", "notify", "done"}

\* What an accessor names, and what the history records.
Buffers == [handle : Handles, mode : AllModes]
Accesses == [who : Accessors, mode : AllModes]

\* The variables' types, and where an accessor may be among its buffers.
Types ==
    /\ TypeOK
    /\ kind \in [Accessors -> {"task", "acquire", "free", "try"}]
    /\ access \in [Accessors -> Seq(Buffers)]
    /\ \A a \in Accessors :
        /\ Len(access[a]) \in 1..MaxBuffers
        /\ kind[a] # "task" => Len(access[a]) = 1 /\ buf[a] = 1
        /\ pc[a] = "start" \/ jpc[Main(a)] \notin {"notify", "done"} => buf[a] \in 1..Len(access[a])
    /\ hist \in [Handles -> Seq(Accesses)]
    /\ unlocking \in [Accessors -> Seq({"NONE", "R", "lock", "go"} \cup Jobs)]

\* A post_sync task: it is submitted, or about to be, once its acquisition holds the data.
PostSync(j, h) ==
    \E c \in Accessors : /\ j = Main(c) /\ kind[c] = "acquire" /\ Handle(c, 1) = h
                         /\ pc[c] \in {"hold", "unlock", "done"}

\* What the threads that release data carry.
Carried ==
    /\ \A h \in Handles : \A i \in 1..Len(post_sync_tasks[h]) : PostSync(post_sync_tasks[h][i], h)
    /\ \A a \in Accessors :
        /\ \A i \in 3..Len(unlocking[a]) : PostSync(unlocking[a][i], Handle(a, 1))
        /\ pc[a] = "unlock" =>
             /\ kind[a] # "task"
             /\ Len(unlocking[a]) >= 2
             /\ unlocking[a][1] \in {"NONE", "R"} /\ unlocking[a][2] \in {"lock", "go"}
             /\ unlocking[a][1] = "R" => Mode(a, 1) \in {"W", "RW"}

\* Where a task is.
TaskStage(a) == kind[a] = "task" =>
    /\ pc[a] \in {"start", "wait", "run", "done"}
    /\ (pc[a] = "start") <=> (jpc[Main(a)] = "none")
    /\ (pc[a] = "wait") <=> (jpc[Main(a)] = "submitted")
    /\ (pc[a] = "run") <=> (jpc[Main(a)] = "run")
    /\ jpc[<<a, Pre>>] = "none"
    /\ pc[a] \notin {"start", "wait"} => \A k \in deps[Main(a)] : Past(k)

\* Where an acquisition is, its pre_sync task and its post_sync task.
UserStage(a) == kind[a] # "task" =>
    /\ pc[a] # "run"
    /\ jpc[Main(a)] # "none" => kind[a] = "acquire" /\ pc[a] \in {"hold", "unlock", "done"}
    /\ jpc[<<a, Pre>>] \in {"submitted", "release", "notify"} => pc[a] = "wait"
    /\ pc[a] = "start" => jpc[<<a, Pre>>] = "none"
    /\ kind[a] # "acquire" =>
         deps[<<a, Pre>>] = {} /\ jpc[<<a, Pre>>] = "none" /\ pc[a] # "wait"
    /\ pc[a] \notin {"start", "wait"} => \A k \in deps[<<a, Pre>>] : Past(k)

\* Where its synchronisation tasks are.
SyncStage(a) ==
    /\ \A b \in 1..Pre :
         jpc[<<a, b>>] \notin {"none", "submitted"} =>
             jpc[<<a, b>>] # "run" /\ \A k \in deps[<<a, b>>] : Past(k)
    /\ \A b \in 1..MaxBuffers :
         pc[a] = "start" /\ b >= buf[a] => jpc[<<a, b>>] = "none" /\ deps[<<a, b>>] = {}

Stages == \A a \in Accessors : TaskStage(a) /\ UserStage(a) /\ SyncStage(a)

\* What holds whatever dependencies are inferred.
Base == Types /\ Carried /\ Stages

-----------------------------------------------------------------------------
(* Facts that steps share.                                                 *)

\* An accessor's jobs are jobs.
LEMMA JobsOf ==
  ASSUME NEW a \in Accessors
  PROVE  /\ Main(a) \in Jobs /\ <<a, Pre>> \in Jobs /\ PreSync(a) \in Jobs
         /\ \A b \in 1..MaxBuffers : <<a, b>> \in Jobs
         /\ Pre \in Nat /\ Pre # 0 /\ Pre \notin 1..MaxBuffers
         /\ None \notin Jobs
BY SizesAssumption DEF Main, PreSync, Jobs, Pre, Accessors, None

\* Putting sequences one after the other.
LEMMA Concatenated ==
  ASSUME NEW S, NEW x \in Seq(S), NEW y \in Seq(S)
  PROVE  /\ x \o y \in Seq(S) /\ Len(x \o y) = Len(x) + Len(y)
         /\ \A i \in 1..(Len(x) + Len(y)) : (x \o y)[i] = IF i <= Len(x) THEN x[i] ELSE y[i - Len(x)]
<1>1. x \o y \in Seq(S)
  OBVIOUS
<1>2. Len(x \o y) = Len(x) + Len(y)
  OBVIOUS
<1>3. ASSUME NEW i \in 1..(Len(x) + Len(y))
      PROVE  (x \o y)[i] = IF i <= Len(x) THEN x[i] ELSE y[i - Len(x)]
  OBVIOUS
<1>4. QED
  BY <1>1, <1>2, <1>3

\* The elements of sequences.
LEMMA Elements ==
  ASSUME Types
  PROVE  /\ \A h \in Handles :
              /\ Len(hist[h]) \in Nat
              /\ \A i \in 1..Len(hist[h]) :
                   hist[h][i].who \in Accessors /\ hist[h][i].mode \in AllModes
         /\ \A a \in Accessors :
              /\ Len(access[a]) \in Nat
              /\ \A b \in 1..Len(access[a]) : Handle(a, b) \in Handles /\ Mode(a, b) \in AllModes
<1>1. hist \in [Handles -> Seq(Accesses)] /\ access \in [Accessors -> Seq(Buffers)]
  BY Zenon DEF Types
<1>2. ASSUME NEW h \in Handles
      PROVE  Len(hist[h]) \in Nat /\ \A i \in 1..Len(hist[h]) : hist[h][i] \in Accesses
  BY <1>1
<1>3. ASSUME NEW a \in Accessors
      PROVE  Len(access[a]) \in Nat /\ \A b \in 1..Len(access[a]) : access[a][b] \in Buffers
  BY <1>1
<1>4. QED
  BY <1>2, <1>3, Zenon DEF Handle, Mode, Accesses, Buffers

\* What the variables are functions of.
LEMMA Domains ==
  ASSUME Types
  PROVE  /\ DOMAIN pc = Accessors /\ DOMAIN buf = Accessors /\ DOMAIN unlocking = Accessors
         /\ DOMAIN access = Accessors /\ DOMAIN kind = Accessors
         /\ DOMAIN jpc = Jobs /\ DOMAIN deps = Jobs
         /\ DOMAIN last_sync_task = Handles /\ DOMAIN accessors = Handles
         /\ DOMAIN last_submitted_mode = Handles /\ DOMAIN hist = Handles
         /\ DOMAIN post_sync_tasks = Handles /\ DOMAIN post_sync_tasks_cnt = Handles
BY Zenon DEF Types, TypeOK

\* What is over stays over.
PastKept == \A j \in Jobs : Past(j) => Past(j)'

\* A step that infers no dependency: handles forget nothing but what is over.
Forgetful ==
    /\ kind' = kind /\ access' = access /\ deps' = deps /\ hist' = hist
    /\ PastKept
    /\ \A h \in Handles :
         /\ last_submitted_mode'[h] = last_submitted_mode[h]
              \/ (last_sync_task[h] = None /\ accessors[h] = {})
         /\ \A j \in Jobs : last_sync_task[h] = j /\ last_sync_task'[h] # j =>
                              last_sync_task'[h] = None /\ Past(j)'
         /\ last_sync_task[h] = None => last_sync_task'[h] = None
         /\ accessors'[h] \subseteq accessors[h]
         /\ \A s \in accessors[h] : s \in accessors'[h] \/ Past(s[1])'

\* A step that keeps where accessors and jobs are past keeps what is over.
LEMMA PastSteps ==
  ASSUME pc \in [Accessors -> {"start", "wait", "attempt", "run", "granted", "hold", "unlock", "done"}],
         \A a \in Accessors :
            pc[a] \in {"hold", "unlock", "done"} => pc'[a] \in {"hold", "unlock", "done"},
         \A j \in Jobs : j[2] # 0 /\ jpc[j] \in {"release", "notify", "done"}
                            => jpc'[j] \in {"release", "notify", "done"}
  PROVE  PastKept
BY Zenon DEF PastKept, Past, Jobs

\* An accessor that a step is not about stays where it is.
LEMMA StageKept ==
  ASSUME Types, Stages, NEW c \in Accessors, PastKept, kind' = kind,
         pc'[c] = pc[c], pc[c] = "start" => buf'[c] = buf[c],
         \A b \in 0..Pre : jpc'[<<c, b>>] = jpc[<<c, b>>] /\ deps'[<<c, b>>] = deps[<<c, b>>]
  PROVE  TaskStage(c)' /\ UserStage(c)' /\ SyncStage(c)'
<1>1. TaskStage(c) /\ UserStage(c) /\ SyncStage(c)
  BY Zenon DEF Stages
<1>2. /\ Pre \in Nat \ {0} /\ 0 \in 0..Pre /\ Pre \in 0..Pre
      /\ \A b \in 1..Pre : b \in 0..Pre
      /\ \A b \in 1..MaxBuffers : b \in 0..Pre
  BY SizesAssumption DEF Pre
<1>3. \A b \in 0..Pre : <<c, b>> \in Jobs /\ \A k \in deps[<<c, b>>] : Past(k) => Past(k)'
  BY Zenon DEF Jobs, Types, TypeOK, PastKept
<1>4. TaskStage(c)'
  BY <1>1, <1>2, <1>3, Zenon DEF TaskStage, Main
<1>5. UserStage(c)'
  BY <1>1, <1>2, <1>3, Zenon DEF UserStage, Main
<1>6. SyncStage(c)'
  BY <1>1, <1>2, <1>3, Zenon DEF SyncStage
<1>7. QED
  BY <1>4, <1>5, <1>6, Zenon

\* What the threads that release data carry stays so.
LEMMA PostSyncKept ==
  ASSUME kind' = kind, \A c \in Accessors : Handle(c, 1)' = Handle(c, 1),
         \A c \in Accessors :
            pc[c] \in {"hold", "unlock", "done"} => pc'[c] \in {"hold", "unlock", "done"}
  PROVE  \A j, h : PostSync(j, h) => PostSync(j, h)'
BY Zenon DEF PostSync, Main

\* A job that has notified is over.
LEMMA DonePast ==
  ASSUME Types, Stages, NEW k \in Jobs, jpc[k] = "done"
  PROVE  Past(k)
<1>1. PICK a \in Accessors, b \in 0..Pre : k = <<a, b>>
  BY DEF Jobs
<1>2. TaskStage(a) /\ UserStage(a) /\ pc[a] \in {"start", "wait", "run", "done"} \cup
        {"attempt", "granted", "hold", "unlock"}
  BY Zenon DEF Stages, Types, TypeOK
<1>3. QED
  BY <1>1, <1>2, Zenon DEF Past, TaskStage, UserStage, Main

\* What a job that may start depends on is over.
LEMMA ReadyPast ==
  ASSUME Types, Stages, NEW j \in Jobs, Ready(j)
  PROVE  \A k \in deps[j] : k \in Jobs /\ Past(k)
BY DonePast, Zenon DEF Ready, Types, TypeOK

\* A handle that forgets a job which is over.
LEMMA ForgetKept ==
  ASSUME Types, NEW j \in Jobs, NEW b, NEW h, Forget(j, b, h), Past(j)'
  PROVE  /\ last_sync_task' \in [Handles -> Jobs \cup {None}]
         /\ accessors' \in [Handles -> SUBSET (Jobs \X (1..MaxBuffers))]
         /\ last_submitted_mode' = last_submitted_mode
         /\ \A g \in Handles :
              /\ \A k \in Jobs : last_sync_task[g] = k /\ last_sync_task'[g] # k =>
                                 last_sync_task'[g] = None /\ Past(k)'
              /\ last_sync_task[g] = None => last_sync_task'[g] = None
              /\ accessors'[g] \subseteq accessors[g]
              /\ \A s \in accessors[g] : s \in accessors'[g] \/ Past(s[1])'
<1>1. /\ last_sync_task \in [Handles -> Jobs \cup {None}]
      /\ accessors \in [Handles -> SUBSET (Jobs \X (1..MaxBuffers))]
  BY Zenon DEF Types, TypeOK
<1>2. /\ last_sync_task' \in [Handles -> Jobs \cup {None}]
      /\ accessors' \in [Handles -> SUBSET (Jobs \X (1..MaxBuffers))]
      /\ last_submitted_mode' = last_submitted_mode
  BY <1>1, Zenon DEF Forget
<1>3. ASSUME NEW g \in Handles
      PROVE  /\ \A k \in Jobs : last_sync_task[g] = k /\ last_sync_task'[g] # k =>
                                last_sync_task'[g] = None /\ Past(k)'
             /\ last_sync_task[g] = None => last_sync_task'[g] = None
             /\ accessors'[g] \subseteq accessors[g]
             /\ \A s \in accessors[g] : s \in accessors'[g] \/ Past(s[1])'
  <2>1. last_sync_task'[g] = last_sync_task[g] \/ (last_sync_task[g] = j /\ last_sync_task'[g] = None)
    BY <1>1, Zenon DEF Forget
  <2>2. accessors'[g] = accessors[g] \/ accessors'[g] = accessors[g] \ {<<j, b>>}
    BY <1>1, Zenon DEF Forget
  <2>3. QED
    BY <2>1, <2>2
<1>4. QED
  BY <1>2, <1>3, Zenon

\* A step that changes nothing keeps it.
LEMMA StutterBase ==
  ASSUME Base, UNCHANGED vars
  PROVE  Base' /\ Forgetful
<1> USE DEF vars, hvars, pvars, Base
<1>1. Types'
  BY Zenon DEF Types, TypeOK, Main
<1>2. PastKept /\ \A j, h : PostSync(j, h)' = PostSync(j, h)
  BY Zenon DEF PastKept, Past, PostSync, Handle, Main
<1>3. Carried'
  BY <1>2, Zenon DEF Carried, Handle, Mode
<1>4. Stages'
  <2> SUFFICES ASSUME NEW c \in Accessors
               PROVE  TaskStage(c)' /\ UserStage(c)' /\ SyncStage(c)'
    BY Zenon DEF Stages
  <2>1. QED
    BY <1>2, StageKept, Zenon
<1>5. QED
  BY <1>1, <1>2, <1>3, <1>4, Zenon DEF Forgetful

\* Nothing is submitted at first.
LEMMA InitBase ==
  ASSUME Init
  PROVE  Base
<1>1. PICK p \in Programs : /\ kind = [a \in Accessors |-> p[a].kind]
                            /\ access = [a \in Accessors |-> p[a].access]
  BY Zenon DEF Init
<1>2. \A a \in Accessors :
        /\ p[a].kind \in {"task", "acquire", "free", "try"}
        /\ p[a].access \in Seq(Buffers)
        /\ Len(p[a].access) \in 1..(IF p[a].kind = "task" THEN MaxBuffers ELSE 1)
  BY ProgramsAssumption, Zenon DEF Buffers
<1>3. Types
  <2>1. TypeOK
    <3>1. <<>> \in Seq(Jobs) /\ 1 \in 1..(MaxBuffers + 1) /\ 0 \in 0..UIntMax
      BY SizesAssumption
    <3>2. QED
      BY <3>1, Zenon DEF Init, TypeOK
  <2>2. /\ kind \in [Accessors -> {"task", "acquire", "free", "try"}]
        /\ access \in [Accessors -> Seq(Buffers)]
    BY <1>1, <1>2, Zenon
  <2>3. \A a \in Accessors :
          /\ Len(access[a]) \in 1..MaxBuffers
          /\ kind[a] # "task" => Len(access[a]) = 1 /\ buf[a] = 1
          /\ buf[a] \in 1..Len(access[a])
    <3> SUFFICES ASSUME NEW a \in Accessors
                 PROVE  /\ Len(access[a]) \in 1..MaxBuffers
                        /\ kind[a] # "task" => Len(access[a]) = 1 /\ buf[a] = 1
                        /\ buf[a] \in 1..Len(access[a])
      BY Zenon
    <3>1. buf[a] = 1
      BY Zenon DEF Init
    <3>2. Len(access[a]) \in 1..(IF kind[a] = "task" THEN MaxBuffers ELSE 1)
      BY <1>1, <1>2, Zenon
    <3>3. CASE kind[a] = "task"
      BY <3>1, <3>2, <3>3, SizesAssumption
    <3>4. CASE kind[a] # "task"
      <4>0. Len(access[a]) \in 1..1 /\ \A n \in 1..1 : n = 1
        <5>1. \A n \in 1..1 : n = 1
          OBVIOUS
        <5>2. QED
          BY <3>2, <3>4, <5>1, Zenon
      <4>1. Len(access[a]) = 1
        BY <4>0, Zenon
      <4>2. QED
        BY <3>1, <4>1, SizesAssumption
    <3>5. QED
      BY <3>3, <3>4, Zenon
  <2>4. <<>> \in Seq(Accesses) /\ <<>> \in Seq({"NONE", "R", "lock", "go"} \cup Jobs)
    OBVIOUS
  <2>5. /\ hist \in [Handles -> Seq(Accesses)]
        /\ unlocking \in [Accessors -> Seq({"NONE", "R", "lock", "go"} \cup Jobs)]
    BY <2>4, Zenon DEF Init
  <2>6. QED
    BY <2>1, <2>2, <2>3, <2>5, Zenon DEF Types
<1>4. Carried
  <2>1. \A h \in Handles : Len(post_sync_tasks[h]) = 0
    BY Zenon DEF Init
  <2>2. \A a \in Accessors : Len(unlocking[a]) = 0 /\ pc[a] = "start"
    BY Zenon DEF Init
  <2>3. QED
    BY <2>1, <2>2 DEF Carried
<1>5. Stages
  <2>1. \A j \in Jobs : jpc[j] = "none" /\ deps[j] = {}
    BY Zenon DEF Init
  <2>2. \A a \in Accessors : pc[a] = "start" /\ \A b \in 0..Pre : <<a, b>> \in Jobs
    BY Zenon DEF Init, Jobs
  <2>3. \A b \in 1..MaxBuffers : b \in 0..Pre
    BY SizesAssumption DEF Pre
  <2>4. \A b \in 1..Pre : b \in 0..Pre
    BY SizesAssumption DEF Pre
  <2>5. 0 \in 0..Pre /\ Pre \in 0..Pre
    BY SizesAssumption DEF Pre
  <2>6. QED
    BY <2>1, <2>2, <2>3, <2>4, <2>5, Zenon DEF Stages, TaskStage, UserStage, SyncStage, Main
<1>6. QED
  BY <1>3, <1>4, <1>5, Zenon DEF Base

-----------------------------------------------------------------------------
(* Submission without sequential consistency, and execution.               *)

\* Acquisitions without sequential consistency, and starpu_data_acquire_try.
LEMMA SkipTryBase ==
  ASSUME Base, NEW a \in Accessors, Skip(a) \/ Try(a)
  PROVE  Base' /\ Forgetful
<1> USE DEF Base
<1>1. /\ UNCHANGED <<last_sync_task, accessors, kind, access, buf, deps, jpc, hist, post_sync_tasks,
                     post_sync_tasks_cnt, unlocking>>
      /\ kind[a] \in {"free", "try"} /\ pc[a] = "start"
      /\ pc' = [pc EXCEPT ![a] = "attempt"] \/ pc' = [pc EXCEPT ![a] = "done"]
      /\ \A h \in Handles : last_submitted_mode'[h] = last_submitted_mode[h]
                              \/ (last_sync_task[h] = None /\ accessors[h] = {})
  BY Zenon DEF Skip, Try, hvars, pvars, Types, TypeOK
<1>2. Types'
  <2>1. last_submitted_mode' \in [Handles -> AllModes \cup {"NONE"}]
    <3>1. Mode(a, 1) \in AllModes
      BY <1>1, Elements, Zenon DEF Types
    <3>2. last_submitted_mode \in [Handles -> AllModes \cup {"NONE"}]
      BY Zenon DEF Types, TypeOK
    <3>3. QED
      BY <3>1, <3>2, Zenon DEF Skip, Try, hvars
  <2>2. QED
    BY <1>1, <2>1, ZenonT(40) DEF Types, TypeOK, Main
<1>3. PastKept
  BY <1>1, PastSteps, Zenon DEF Types, TypeOK
<1>4. Carried'
  <2>1. \A j, h : PostSync(j, h) => PostSync(j, h)'
    BY <1>1, PostSyncKept, Zenon DEF Handle, Types, TypeOK
  <2>2. QED
    BY <1>1, <2>1 DEF Carried, Handle, Mode, Types, TypeOK
<1>5. Stages'
  <2> SUFFICES ASSUME NEW c \in Accessors
               PROVE  TaskStage(c)' /\ UserStage(c)' /\ SyncStage(c)'
    BY Zenon DEF Stages
  <2>1. CASE c = a
    <3>1. TaskStage(a)' /\ UserStage(a)' /\ SyncStage(a)'
      <4>1. UserStage(a) /\ SyncStage(a)
        BY Zenon DEF Stages
      <4>2. pc'[a] \in {"attempt", "done"}
        BY <1>1, Zenon DEF Types, TypeOK
      <4>3. TaskStage(a)' /\ UserStage(a)'
        BY <1>1, <4>1, <4>2, Zenon DEF TaskStage, UserStage, Main
      <4>4. SyncStage(a)'
        <5>1. \A b \in 1..Pre : \A k \in deps[<<a, b>>] : Past(k) => Past(k)'
          BY <1>3, SizesAssumption DEF PastKept, Jobs, Types, TypeOK, Pre
        <5>2. QED
          BY <1>1, <4>1, <4>2, <5>1, Zenon DEF SyncStage
      <4>5. QED
        BY <4>3, <4>4, Zenon
    <3>2. QED
      BY <2>1, <3>1, Zenon
  <2>2. CASE c # a
    <3>1. pc'[c] = pc[c]
      BY <1>1, <2>2, Zenon DEF Types, TypeOK
    <3>2. QED
      BY <1>1, <1>3, <3>1, StageKept, Zenon
  <2>3. QED
    BY <2>1, <2>2, Zenon
<1>6. QED
  BY <1>1, <1>2, <1>3, <1>4, <1>5, Zenon DEF Forgetful

\* A task is executed.
LEMMA StartEndBase ==
  ASSUME Base, NEW a \in Accessors, Start(a) \/ End(a)
  PROVE  Base' /\ Forgetful
<1> USE DEF Base
<1>1. /\ UNCHANGED <<last_sync_task, accessors, last_submitted_mode, kind, access, buf, deps, hist,
                     post_sync_tasks, post_sync_tasks_cnt, unlocking>>
      /\ kind[a] = "task" /\ Main(a) \in Jobs /\ TaskStage(a) /\ SyncStage(a)
      /\ \/ Start(a) /\ pc' = [pc EXCEPT ![a] = "run"] /\ jpc' = [jpc EXCEPT ![Main(a)] = "run"]
         \/ End(a) /\ pc' = [pc EXCEPT ![a] = "done"] /\ jpc' = [jpc EXCEPT ![Main(a)] = "release"]
  BY JobsOf, Zenon DEF Start, End, hvars, pvars, Stages
<1>2. pc[a] \in {"wait", "run"}
  BY <1>1, Zenon DEF TaskStage, Start, End, Ready
<1>3. Types'
  <2>1. TypeOK'
    BY <1>1, Zenon DEF Types, TypeOK
  <2>2. \A c \in Accessors : /\ pc'[c] = "start" => pc[c] = "start"
                             /\ jpc'[Main(c)] \in {"notify", "done"} <=> jpc[Main(c)] \in {"notify", "done"}
    <3>1. jpc[Main(a)] \in {"submitted", "run"} /\ jpc'[Main(a)] \in {"run", "release"}
      BY <1>1, <1>2, Domains, Zenon DEF TaskStage
    <3>2. \A c \in Accessors \ {a} : pc'[c] = pc[c] /\ jpc'[Main(c)] = jpc[Main(c)]
      BY <1>1, Domains, JobsOf, Zenon DEF Main
    <3>3. pc'[a] # "start"
      BY <1>1, Domains, Zenon
    <3>4. QED
      BY <3>1, <3>2, <3>3, Zenon
  <2>3. QED
    BY <1>1, <2>1, <2>2, Zenon DEF Types, Main
<1>4. PastKept
  <2>1. \A j \in Jobs : j[2] # 0 => jpc'[j] = jpc[j]
    BY <1>1 DEF Types, TypeOK, Main
  <2>2. QED
    BY <1>1, <1>2, <2>1, PastSteps, Zenon DEF Types, TypeOK
<1>5. Carried'
  <2>1. \A j, h : PostSync(j, h) => PostSync(j, h)'
    BY <1>1, <1>2, PostSyncKept, Zenon DEF Handle, Types, TypeOK
  <2>2. QED
    BY <1>1, <2>1 DEF Carried, Handle, Mode, Types, TypeOK
<1>6. Stages'
  <2> SUFFICES ASSUME NEW c \in Accessors
               PROVE  TaskStage(c)' /\ UserStage(c)' /\ SyncStage(c)'
    BY Zenon DEF Stages
  <2>1. CASE c = a
    <3>1. \A k \in deps[Main(a)] : Past(k)'
      <4>1. \A k \in deps[Main(a)] : k \in Jobs /\ Past(k)
        BY <1>1, <1>2, ReadyPast, Zenon DEF Start, End, TaskStage, Types, TypeOK
      <4>2. QED
        BY <1>4, <4>1, Zenon DEF PastKept
    <3>2. TaskStage(a)'
      <4>1. /\ jpc'[<<a, Pre>>] = jpc[<<a, Pre>>]
            /\ \/ pc'[a] = "run" /\ jpc'[Main(a)] = "run"
               \/ pc'[a] = "done" /\ jpc'[Main(a)] = "release"
        BY <1>1, JobsOf DEF Types, TypeOK, Main
      <4>2. QED
        BY <1>1, <3>1, <4>1, Zenon DEF TaskStage, Main
    <3>3. SyncStage(a)'
      <4>1. \A b \in 1..Pre : \A k \in deps[<<a, b>>] : Past(k) => Past(k)'
        BY <1>4, SizesAssumption DEF PastKept, Jobs, Types, TypeOK, Pre
      <4>2. \A b \in 1..Pre : jpc'[<<a, b>>] = jpc[<<a, b>>]
        BY <1>1, SizesAssumption DEF Jobs, Types, TypeOK, Main, Pre
      <4>3. pc'[a] # "start"
        BY <1>1, Zenon DEF Types, TypeOK
      <4>4. QED
        BY <1>1, <4>1, <4>2, <4>3, Zenon DEF SyncStage
    <3>4. QED
      BY <1>1, <2>1, <3>2, <3>3, Zenon DEF UserStage
  <2>2. CASE c # a
    <3>1. pc'[c] = pc[c]
      BY <1>1, <2>2, Zenon DEF Types, TypeOK
    <3>2. \A b \in 0..Pre : jpc'[<<c, b>>] = jpc[<<c, b>>]
      BY <1>1, <2>2, SizesAssumption DEF Jobs, Types, TypeOK, Main, Pre
    <3>3. QED
      BY <1>1, <1>4, <3>1, <3>2, StageKept, Zenon
  <2>3. QED
    BY <2>1, <2>2, Zenon
<1>7. QED
  BY <1>1, <1>3, <1>4, <1>5, <1>6, Zenon DEF Forgetful

\* A task that has ended is forgotten by one handle after the other.
LEMMA ReleaseBase ==
  ASSUME Base, NEW a \in Accessors, Release(a)
  PROVE  Base' /\ Forgetful
<1> USE DEF Base
<1> DEFINE b == buf[a]
<1>1. /\ UNCHANGED <<kind, access, pc, deps, hist, post_sync_tasks, post_sync_tasks_cnt, unlocking>>
      /\ kind[a] = "task" /\ Main(a) \in Jobs /\ TaskStage(a) /\ SyncStage(a)
      /\ jpc[Main(a)] = "release" /\ Forget(Main(a), b, Handle(a, b))
      /\ buf' = [buf EXCEPT ![a] = b + 1]
      /\ jpc' = [jpc EXCEPT ![Main(a)] = IF b = Len(access[a]) THEN "notify" ELSE @]
  BY JobsOf, Zenon DEF Release, hvars, pvars, Stages
<1>2. pc[a] = "done" /\ b \in 1..Len(access[a]) /\ Len(access[a]) \in 1..MaxBuffers
  BY <1>1, Zenon DEF TaskStage, Types, TypeOK
<1>3. Past(Main(a)) /\ Past(Main(a))'
  BY <1>1, <1>2, Zenon DEF Past, Main
<1>4. /\ \A c \in Accessors \ {a} : buf'[c] = buf[c] /\ jpc'[Main(c)] = jpc[Main(c)]
      /\ buf'[a] = b + 1
      /\ jpc'[Main(a)] = IF b = Len(access[a]) THEN "notify" ELSE "release"
      /\ \A j \in Jobs : j # Main(a) => jpc'[j] = jpc[j]
  BY <1>1, Domains, JobsOf, Zenon DEF Main
<1>5. Types'
  <2>1. TypeOK'
    <3>1. buf' \in [Accessors -> 1..(MaxBuffers + 1)]
      BY <1>1, <1>2, SizesAssumption DEF Types, TypeOK
    <3>2. QED
      BY <1>1, <1>3, <3>1, ForgetKept, Zenon DEF Types, TypeOK
  <2>2. \A c \in Accessors : pc'[c] = "start" \/ jpc'[Main(c)] \notin {"notify", "done"}
                               => buf'[c] \in 1..Len(access[c])
    <3>1. b # Len(access[a]) => b + 1 \in 1..Len(access[a])
      BY <1>2, SizesAssumption
    <3>2. QED
      BY <1>1, <1>2, <1>4, <3>1, ZenonT(40) DEF Types
  <2>3. QED
    BY <1>1, <2>1, <2>2 DEF Types, Main
<1>6. PastKept
  <2>1. \A j \in Jobs : j[2] # 0 => jpc'[j] = jpc[j]
    BY <1>4 DEF Main
  <2>2. QED
    BY <1>1, <2>1, PastSteps, Zenon DEF Types, TypeOK
<1>7. Carried'
  <2>1. \A j, h : PostSync(j, h) => PostSync(j, h)'
    BY <1>1, PostSyncKept, Zenon DEF Handle
  <2>2. QED
    BY <1>1, <2>1, Zenon DEF Carried, Handle, Mode
<1>8. Stages'
  <2> SUFFICES ASSUME NEW c \in Accessors
               PROVE  TaskStage(c)' /\ UserStage(c)' /\ SyncStage(c)'
    BY Zenon DEF Stages
  <2>1. CASE c = a
    <3>1. \A e \in 0..Pre : \A k \in deps[<<a, e>>] : Past(k) => Past(k)'
      BY <1>6, Zenon DEF PastKept, Jobs, Types, TypeOK
    <3>2. \A e \in 1..Pre : jpc'[<<a, e>>] = jpc[<<a, e>>]
      BY <1>4, SizesAssumption DEF Jobs, Main, Pre
    <3>3. TaskStage(a)'
      BY <1>1, <1>2, <1>4, <3>1, <3>2, SizesAssumption DEF TaskStage, Main, Pre
    <3>4. SyncStage(a)'
      BY <1>1, <1>2, <3>1, <3>2, SizesAssumption DEF SyncStage, Pre
    <3>5. QED
      BY <1>1, <2>1, <3>3, <3>4, Zenon DEF UserStage
  <2>2. CASE c # a
    <3>1. \A e \in 0..Pre : jpc'[<<c, e>>] = jpc[<<c, e>>]
      BY <1>4, <2>2, Zenon DEF Jobs, Main
    <3>2. QED
      BY <1>1, <1>4, <1>6, <2>2, <3>1, StageKept, Zenon
  <2>3. QED
    BY <2>1, <2>2, Zenon
<1>9. QED
  BY <1>1, <1>3, <1>5, <1>6, <1>7, <1>8, ForgetKept, Zenon DEF Forgetful

\* A synchronisation task terminates, and its handle forgets it.
LEMMA EmptyBase ==
  ASSUME Base, NEW j \in Jobs, StartEmpty(j) \/ ReleaseEmpty(j)
  PROVE  Base' /\ Forgetful
<1> USE DEF Base
<1>0. PICK a \in Accessors, b \in 0..Pre : j = <<a, b>>
  BY DEF Jobs
<1> DEFINE v == IF jpc[j] = "submitted" THEN "release" ELSE "notify"
<1>1. /\ UNCHANGED <<kind, access, buf, pc, deps, hist, post_sync_tasks, post_sync_tasks_cnt, unlocking>>
      /\ kind[a] # "task" \/ b # 0
      /\ jpc[j] \in {"submitted", "release"} /\ jpc' = [jpc EXCEPT ![j] = v]
      /\ TaskStage(a) /\ UserStage(a) /\ SyncStage(a)
  BY <1>0, Zenon DEF StartEmpty, ReleaseEmpty, Ready, hvars, pvars, Stages
<1>2. jpc'[j] = v /\ \A k \in Jobs : k # j => jpc'[k] = jpc[k]
  BY <1>1, Domains, Zenon
<1>3. PastKept
  BY <1>1, <1>2, PastSteps, Zenon DEF Types, TypeOK
<1>4. /\ last_sync_task' \in [Handles -> Jobs \cup {None}]
      /\ accessors' \in [Handles -> SUBSET (Jobs \X (1..MaxBuffers))]
      /\ last_submitted_mode' = last_submitted_mode
      /\ \A g \in Handles :
           /\ \A k \in Jobs : last_sync_task[g] = k /\ last_sync_task'[g] # k =>
                              last_sync_task'[g] = None /\ Past(k)'
           /\ last_sync_task[g] = None => last_sync_task'[g] = None
           /\ accessors'[g] \subseteq accessors[g]
           /\ \A s \in accessors[g] : s \in accessors'[g] \/ Past(s[1])'
  <2>1. CASE StartEmpty(j)
    BY <2>1, Zenon DEF StartEmpty, hvars, Types, TypeOK
  <2>2. CASE ReleaseEmpty(j)
    <3>1. jpc[j] = "release"
      BY <2>2, Zenon DEF ReleaseEmpty
    <3>2. Past(j)'
      BY <1>0, <1>1, <1>2, <3>1, Zenon DEF Past, UserStage, Main
    <3>3. \E e, h : Forget(j, e, h)
      BY <2>2, Zenon DEF ReleaseEmpty
    <3>4. QED
      BY <3>2, <3>3, ForgetKept, Zenon
  <2>3. QED
    BY <2>1, <2>2, Zenon
<1>5. Types'
  <2>1. TypeOK'
    BY <1>1, <1>4, Zenon DEF Types, TypeOK
  <2>2. \A c \in Accessors : jpc'[Main(c)] \notin {"notify", "done"} => jpc[Main(c)] \notin {"notify", "done"}
    BY <1>1, <1>2, JobsOf, Zenon
  <2>3. QED
    BY <1>1, <2>1, <2>2, Zenon DEF Types, Main
<1>6. Carried'
  <2>1. \A k, h : PostSync(k, h) => PostSync(k, h)'
    BY <1>1, PostSyncKept, Zenon DEF Handle
  <2>2. QED
    BY <1>1, <2>1, Zenon DEF Carried, Handle, Mode
<1>7. Stages'
  <2> SUFFICES ASSUME NEW c \in Accessors
               PROVE  TaskStage(c)' /\ UserStage(c)' /\ SyncStage(c)'
    BY Zenon DEF Stages
  <2>1. CASE c = a
    <3>1. \A e \in 0..Pre : \A k \in deps[<<a, e>>] : Past(k) => Past(k)'
      BY <1>3, Zenon DEF PastKept, Jobs, Types, TypeOK
    <3>2. \A e \in 0..Pre : e # b => jpc'[<<a, e>>] = jpc[<<a, e>>]
      BY <1>0, <1>2, Zenon DEF Jobs
    <3>3. TaskStage(a)'
      BY <1>0, <1>1, <1>2, <3>1, <3>2, SizesAssumption DEF TaskStage, Main, Pre
    <3>4. UserStage(a)'
      BY <1>0, <1>1, <1>2, <3>1, <3>2, SizesAssumption DEF UserStage, Main, Pre
    <3>5. SyncStage(a)'
      <4>1. b # 0 => \A k \in deps[j] : Past(k)'
        <5>1. b # 0 => \A k \in deps[j] : k \in Jobs /\ Past(k)
          <6>1. CASE jpc[j] = "release"
            <7>1. deps[j] \subseteq Jobs
              BY Zenon DEF Types, TypeOK
            <7>2. QED
              BY <1>0, <1>1, <6>1, <7>1, SizesAssumption DEF SyncStage, Pre
          <6>2. CASE jpc[j] # "release"
            <7>1. Ready(j)
              BY <6>2, Zenon DEF StartEmpty, ReleaseEmpty
            <7>2. QED
              BY <7>1, ReadyPast, Zenon
          <6>3. QED
            BY <6>1, <6>2, Zenon
        <5>2. QED
          BY <1>3, <5>1, Zenon DEF PastKept
      <4>2. QED
        BY <1>0, <1>1, <1>2, <3>1, <3>2, <4>1, SizesAssumption DEF SyncStage, Pre
    <3>6. QED
      BY <2>1, <3>3, <3>4, <3>5, Zenon
  <2>2. CASE c # a
    <3>1. \A e \in 0..Pre : jpc'[<<c, e>>] = jpc[<<c, e>>]
      BY <1>0, <1>2, <2>2, Zenon DEF Jobs
    <3>2. QED
      BY <1>1, <1>3, <2>2, <3>1, StageKept, Zenon
  <2>3. QED
    BY <2>1, <2>2, Zenon
<1>8. QED
  BY <1>1, <1>3, <1>4, <1>5, <1>6, <1>7, Zenon DEF Forgetful

\* A job notifies those that wait for it; after a pre_sync task the data is asked for.
LEMMA NotifyBase ==
  ASSUME Base, NEW j \in Jobs, Notify(j)
  PROVE  Base' /\ Forgetful
<1> USE DEF Base
<1>0. PICK a \in Accessors, b \in 0..Pre : j = <<a, b>>
  BY DEF Jobs
<1>1. /\ UNCHANGED <<last_sync_task, accessors, last_submitted_mode, kind, access, buf, deps, hist,
                     post_sync_tasks, post_sync_tasks_cnt, unlocking>>
      /\ jpc[j] = "notify" /\ jpc' = [jpc EXCEPT ![j] = "done"]
      /\ pc' = IF b = Pre THEN [pc EXCEPT ![a] = "attempt"] ELSE pc
      /\ TaskStage(a) /\ UserStage(a) /\ SyncStage(a)
  BY <1>0, Zenon DEF Notify, hvars, pvars, Stages
<1>2. jpc'[j] = "done" /\ \A k \in Jobs : k # j => jpc'[k] = jpc[k]
  BY <1>1, Domains, Zenon
<1>3. /\ b = Pre => kind[a] = "acquire" /\ pc[a] = "wait" /\ pc'[a] = "attempt"
      /\ b # Pre => pc'[a] = pc[a]
      /\ \A c \in Accessors : c # a => pc'[c] = pc[c]
  BY <1>0, <1>1, Domains, Zenon DEF TaskStage, UserStage, Types
<1>4. PastKept
  BY <1>2, <1>3, PastSteps, Zenon DEF Types, TypeOK
<1>5. Types'
  <2>1. TypeOK'
    BY <1>1, Zenon DEF Types, TypeOK
  <2>2. \A c \in Accessors : /\ pc'[c] = "start" => pc[c] = "start"
                             /\ jpc'[Main(c)] \notin {"notify", "done"} => jpc[Main(c)] \notin {"notify", "done"}
    BY <1>1, <1>2, <1>3, JobsOf, Zenon
  <2>3. QED
    BY <1>1, <2>1, <2>2, Zenon DEF Types, Main
<1>6. Carried'
  <2>1. \A k, h : PostSync(k, h) => PostSync(k, h)'
    BY <1>1, <1>3, PostSyncKept, Zenon DEF Handle
  <2>2. \A c \in Accessors : pc'[c] = "unlock" => pc[c] = "unlock"
    BY <1>3, Zenon
  <2>3. QED
    BY <1>1, <2>1, <2>2, Zenon DEF Carried, Handle, Mode
<1>7. Stages'
  <2> SUFFICES ASSUME NEW c \in Accessors
               PROVE  TaskStage(c)' /\ UserStage(c)' /\ SyncStage(c)'
    BY Zenon DEF Stages
  <2>1. CASE c = a
    <3>1. \A e \in 0..Pre : \A k \in deps[<<a, e>>] : Past(k) => Past(k)'
      BY <1>4, Zenon DEF PastKept, Jobs, Types, TypeOK
    <3>2. \A e \in 0..Pre : e # b => jpc'[<<a, e>>] = jpc[<<a, e>>]
      BY <1>0, <1>2, Zenon DEF Jobs
    <3>3. TaskStage(a)'
      BY <1>0, <1>1, <1>2, <1>3, <3>1, <3>2, SizesAssumption DEF TaskStage, Main, Pre
    <3>4. UserStage(a)'
      <4>1. b = Pre => \A k \in deps[<<a, Pre>>] : Past(k)'
        BY <1>0, <1>1, <3>1, SizesAssumption DEF SyncStage, Pre
      <4>2. b = Pre => jpc'[Main(a)] = "none"
        BY <1>0, <1>1, <1>3, <3>2, SizesAssumption DEF UserStage, Main, Pre
      <4>3. QED
        BY <1>0, <1>1, <1>2, <1>3, <3>1, <3>2, <4>1, <4>2, SizesAssumption DEF UserStage, Main, Pre
    <3>5. SyncStage(a)'
      BY <1>0, <1>1, <1>2, <1>3, <3>1, <3>2, SizesAssumption DEF SyncStage, Pre
    <3>6. QED
      BY <2>1, <3>3, <3>4, <3>5, Zenon
  <2>2. CASE c # a
    <3>1. \A e \in 0..Pre : jpc'[<<c, e>>] = jpc[<<c, e>>]
      BY <1>0, <1>2, <2>2, Zenon DEF Jobs
    <3>2. QED
      BY <1>1, <1>3, <1>4, <2>2, <3>1, StageKept, Zenon
  <2>3. QED
    BY <2>1, <2>2, Zenon
<1>8. QED
  BY <1>1, <1>4, <1>5, <1>6, <1>7, Zenon DEF Forgetful

-----------------------------------------------------------------------------
(* The application.                                                        *)

-----------------------------------------------------------------------------
(* The application.                                                        *)

\* A step of an acquisition that leaves jobs and handles alone, and only goes on with
\* what it had to wait for over.
LEMMA UserMoves ==
  ASSUME Base, NEW a \in Accessors, NEW v, kind[a] # "task",
         pc[a] \notin {"start", "wait", "done"}, v \in {"granted", "hold", "unlock", "done"},
         pc[a] \in {"hold", "unlock"} => v # "granted",
         pc' = [pc EXCEPT ![a] = v],
         kind' = kind, buf' = buf, deps' = deps, jpc' = jpc
  PROVE  /\ PastKept /\ Stages'
         /\ \A c \in Accessors :
              /\ pc[c] \in {"hold", "unlock", "done"} => pc'[c] \in {"hold", "unlock", "done"}
              /\ pc'[c] = "start" => pc[c] = "start"
              /\ pc'[c] = "unlock" => pc[c] = "unlock" \/ (c = a /\ v = "unlock")
<1> USE DEF Base
<1>1. pc'[a] = v /\ \A c \in Accessors : c # a => pc'[c] = pc[c]
  BY Domains, Zenon
<1>2. pc[a] \in {"attempt", "granted", "hold", "unlock"}
  <2>1. pc[a] # "run"
    BY Zenon DEF Stages, UserStage
  <2>2. QED
    BY <2>1, Zenon DEF Types, TypeOK
<1>3. PastKept
  BY <1>1, <1>2, PastSteps, Zenon DEF Types, TypeOK
<1>4. Stages'
  <2> SUFFICES ASSUME NEW c \in Accessors
               PROVE  TaskStage(c)' /\ UserStage(c)' /\ SyncStage(c)'
    BY Zenon DEF Stages
  <2>1. CASE c = a
    <3>1. \A e \in 0..Pre : \A k \in deps[<<a, e>>] : Past(k) => Past(k)'
      BY <1>3, Zenon DEF PastKept, Jobs, Types, TypeOK
    <3>2. UserStage(a) /\ SyncStage(a)
      BY Zenon DEF Stages
    <3>3. TaskStage(a)'
      BY Zenon DEF TaskStage
    <3>4. UserStage(a)'
      BY <1>1, <1>2, <3>1, <3>2, SizesAssumption DEF UserStage, Main, Pre
    <3>5. SyncStage(a)'
      BY <1>1, <3>1, <3>2, SizesAssumption DEF SyncStage, Pre
    <3>6. QED
      BY <2>1, <3>3, <3>4, <3>5, Zenon
  <2>2. CASE c # a
    BY <1>1, <1>3, <2>2, StageKept, Zenon
  <2>3. QED
    BY <2>1, <2>2, Zenon
<1>5. QED
  BY <1>1, <1>2, <1>3, <1>4, Zenon

\* The data is granted, and the release of an acquisition begins.
LEMMA GrantBase ==
  ASSUME Base, NEW a \in Accessors, Grant(a)
  PROVE  Base' /\ Forgetful
<1> USE DEF Base
<1>1. /\ UNCHANGED <<last_sync_task, accessors, last_submitted_mode, kind, access, buf, deps, jpc, hist,
                     post_sync_tasks, post_sync_tasks_cnt, unlocking>>
      /\ pc[a] = "attempt" /\ pc' = [pc EXCEPT ![a] = "granted"]
  BY Zenon DEF Grant, hvars, pvars
<1>2. kind[a] # "task"
  BY <1>1, Zenon DEF Stages, TaskStage
<1>3. /\ PastKept /\ Stages'
      /\ \A c \in Accessors :
           /\ pc[c] \in {"hold", "unlock", "done"} => pc'[c] \in {"hold", "unlock", "done"}
           /\ pc'[c] = "start" => pc[c] = "start"
           /\ pc'[c] = "unlock" => pc[c] = "unlock"
  <2> DEFINE v == "granted"
  <2>1. v \in {"granted", "hold", "unlock", "done"} /\ v # "unlock" /\ pc' = [pc EXCEPT ![a] = v]
    BY <1>1, Zenon
  <2> HIDE DEF v
  <2>2. QED
    BY <1>1, <1>2, <2>1, UserMoves, Zenon
<1>4. Types'
  <2>1. TypeOK'
    BY <1>1, Zenon DEF Types, TypeOK
  <2>2. QED
    BY <1>1, <1>3, <2>1, Zenon DEF Types, Main
<1>5. Carried'
  <2>1. \A j, h : PostSync(j, h) => PostSync(j, h)'
    BY <1>1, <1>3, PostSyncKept, Zenon DEF Handle
  <2>2. QED
    BY <1>1, <1>3, <2>1, Zenon DEF Carried, Handle, Mode
<1>6. QED
  BY <1>1, <1>3, <1>4, <1>5, Zenon DEF Forgetful

\* The post_sync task of an acquisition is queued.
LEMMA AddPostSyncBase ==
  ASSUME Base, NEW a \in Accessors, AddPostSync(a)
  PROVE  Base' /\ Forgetful
<1> USE DEF Base
<1> DEFINE v == "hold"
           h == Handle(a, 1)
<1>1. /\ UNCHANGED <<last_sync_task, accessors, last_submitted_mode, kind, access, buf, deps, jpc, hist,
                     unlocking>>
      /\ pc[a] = "granted" /\ pc' = [pc EXCEPT ![a] = v]
      /\ v \in {"granted", "hold", "unlock", "done"} /\ v # "unlock" /\ v # "granted"
  BY Zenon DEF AddPostSync, hvars
<1> HIDE DEF v
<1>2. kind[a] # "task"
  BY <1>1, Zenon DEF Stages, TaskStage
<1>3. /\ PastKept /\ Stages'
      /\ \A c \in Accessors :
           /\ pc[c] \in {"hold", "unlock", "done"} => pc'[c] \in {"hold", "unlock", "done"}
           /\ pc'[c] = "start" => pc[c] = "start"
           /\ pc'[c] = "unlock" => pc[c] = "unlock"
  BY <1>1, <1>2, UserMoves, Zenon
<1>4. Main(a) \in Jobs /\ pc'[a] = "hold"
  BY <1>1, JobsOf, Domains, Zenon DEF v
<1>5. post_sync_tasks \in [Handles -> Seq(Jobs)] /\ post_sync_tasks_cnt \in [Handles -> 0..UIntMax]
  BY Zenon DEF Types, TypeOK
<1>6. \A g \in Handles :
        /\ post_sync_tasks'[g] \in Seq(Jobs)
        /\ \A i \in 1..Len(post_sync_tasks'[g]) :
             \/ \E k \in 1..Len(post_sync_tasks[g]) : post_sync_tasks'[g][i] = post_sync_tasks[g][k]
             \/ kind[a] = "acquire" /\ g = h /\ post_sync_tasks'[g][i] = Main(a)
  <2> SUFFICES ASSUME NEW g \in Handles
               PROVE  /\ post_sync_tasks'[g] \in Seq(Jobs)
                      /\ \A i \in 1..Len(post_sync_tasks'[g]) :
                           \/ \E k \in 1..Len(post_sync_tasks[g]) : post_sync_tasks'[g][i] = post_sync_tasks[g][k]
                           \/ kind[a] = "acquire" /\ g = h /\ post_sync_tasks'[g][i] = Main(a)
    BY Zenon
  <2>1. CASE post_sync_tasks'[g] = post_sync_tasks[g]
    BY <1>5, <2>1, Zenon
  <2>2. CASE kind[a] = "acquire" /\ g = h /\ post_sync_tasks'[g] = <<Main(a)>> \o post_sync_tasks[g]
    <3>1. <<Main(a)>> \in Seq(Jobs) /\ Len(<<Main(a)>>) = 1 /\ <<Main(a)>>[1] = Main(a)
      BY <1>4
    <3>2. post_sync_tasks[g] \in Seq(Jobs)
      BY <1>5, Zenon
    <3> HIDE DEF h
    <3>3. QED
      BY <2>2, <3>1, <3>2
  <2>3. QED
    BY <1>5, <2>1, <2>2, Zenon DEF AddPostSync, pvars
<1>7. Types'
  <2>1. post_sync_tasks' \in [Handles -> Seq(Jobs)]
    BY <1>5, <1>6, Zenon DEF AddPostSync, pvars
  <2>2. post_sync_tasks_cnt' \in [Handles -> 0..UIntMax]
    <3>1. \A n \in 0..UIntMax : (n + 1) % (UIntMax + 1) \in 0..UIntMax
      BY SizesAssumption
    <3>2. QED
      BY <1>5, <3>1, ZenonT(40) DEF AddPostSync, pvars
  <2>3. pc' \in [Accessors -> {"start", "wait", "attempt", "run", "granted", "hold", "unlock", "done"}]
    BY <1>1, Zenon DEF Types, TypeOK
  <2>4. TypeOK'
    BY <1>1, <2>1, <2>2, <2>3, Zenon DEF Types, TypeOK
  <2>5. QED
    BY <1>1, <1>3, <2>4, Zenon DEF Types, Main
<1>8. Carried'
  <2>1. \A j, g : PostSync(j, g) => PostSync(j, g)'
    BY <1>1, <1>3, PostSyncKept, Zenon DEF Handle
  <2>2. \A g \in Handles : \A i \in 1..Len(post_sync_tasks'[g]) : PostSync(post_sync_tasks[g][i], g)'
    <3> SUFFICES ASSUME NEW g \in Handles, NEW i \in 1..Len(post_sync_tasks'[g])
                 PROVE  PostSync(post_sync_tasks[g][i], g)'
      BY Zenon
    <3>1. \A j : PostSync(j, g)' /\ post_sync_tasks'[g][i] = j => PostSync(post_sync_tasks[g][i], g)'
      BY Zenon DEF PostSync, Main, Handle
    <3>2. CASE kind[a] = "acquire" /\ g = h /\ post_sync_tasks'[g][i] = Main(a)
      <4>1. PostSync(Main(a), g)'
        BY <1>1, <1>4, <3>2, Zenon DEF PostSync, Handle, Main
      <4>2. QED
        BY <3>1, <3>2, <4>1, Zenon DEF Main
    <3>3. ASSUME NEW k \in 1..Len(post_sync_tasks[g]), post_sync_tasks'[g][i] = post_sync_tasks[g][k]
          PROVE  PostSync(post_sync_tasks[g][i], g)'
      <4> DEFINE j == post_sync_tasks[g][k]
      <4>1. PostSync(j, g)
        BY Zenon DEF Carried
      <4> HIDE DEF j
      <4>2. \A x : x = j => PostSync(x, g)'
        BY <2>1, <4>1, Zenon
      <4>3. post_sync_tasks'[g][i] = j
        BY <3>3, Zenon DEF j
      <4>4. QED
        BY <3>1, <4>2, <4>3, Zenon
    <3>4. QED
      BY <1>6, <3>2, <3>3, Zenon
  <2>3. QED
    BY <1>1, <1>3, <2>1, <2>2, Zenon DEF Carried, Handle, Mode
<1>9. QED
  BY <1>1, <1>3, <1>7, <1>8, Zenon DEF Forgetful

\* A release begins: the tasks to submit are taken.
LEMMA UnlockBase ==
  ASSUME Base, NEW a \in Accessors,
         UnlockTest(a, "NONE") \/ UnlockTest(a, "R") \/ Unlock(a)
  PROVE  Base' /\ Forgetful
<1> USE DEF Base
<1> DEFINE v == "unlock"
           h == Handle(a, 1)
           Item == {"NONE", "R", "lock", "go"} \cup Jobs
<1>0. /\ unlocking \in [Accessors -> Seq(Item)]
      /\ post_sync_tasks \in [Handles -> Seq(Jobs)] /\ post_sync_tasks_cnt \in [Handles -> 0..UIntMax]
      /\ pc \in [Accessors -> {"start", "wait", "attempt", "run", "granted", "hold", "unlock", "done"}]
  BY Zenon DEF Types, TypeOK
<1>1. /\ UNCHANGED <<last_sync_task, accessors, last_submitted_mode, kind, access, buf, deps, jpc, hist>>
      /\ pc[a] \in {"hold", "unlock"} /\ pc' = [pc EXCEPT ![a] = v]
      /\ v \in {"granted", "hold", "unlock", "done"} /\ v # "granted"
  BY <1>0, Zenon DEF UnlockTest, Unlock, hvars, pvars
<1> HIDE DEF v
<1>2. kind[a] # "task"
  BY <1>1, Zenon DEF Stages, TaskStage
<1>3. /\ PastKept /\ Stages'
      /\ \A c \in Accessors :
           /\ pc[c] \in {"hold", "unlock", "done"} => pc'[c] \in {"hold", "unlock", "done"}
           /\ pc'[c] = "start" => pc[c] = "start"
           /\ pc'[c] = "unlock" => pc[c] = "unlock" \/ c = a
  BY <1>1, <1>2, UserMoves, Zenon
<1>4. h \in Handles
  BY <1>2, Elements DEF Types
<1> DEFINE u == unlocking'[a]
           Taken == /\ u \in Seq(Item) /\ Len(u) >= 2
                    /\ u[1] \in {"NONE", "R"} /\ u[2] \in {"lock", "go"}
                    /\ u[1] = "R" => Mode(a, 1) \in {"W", "RW"}
                    /\ \A i \in 3..Len(u) :
                         \/ i \in 3..Len(unlocking[a]) /\ u[i] = unlocking[a][i]
                         \/ \E k \in 1..Len(post_sync_tasks[h]) : u[i] = post_sync_tasks[h][k]
                    /\ \A c \in Accessors : c # a => unlocking'[c] = unlocking[c]
                    /\ unlocking' \in [Accessors -> Seq(Item)]
<1>5. Taken
  <2>1. ASSUME NEW to \in {"NONE", "R"}, UnlockTest(a, to)
        PROVE  Taken
    <3>1. PICK w \in {"lock", "go"} : unlocking' = [unlocking EXCEPT ![a] = <<to, w>>]
      BY <2>1, Zenon DEF UnlockTest
    <3>2. unlocking'[a] = <<to, w>>
      BY <1>0, <3>1, Zenon
    <3>3. to = "R" => Mode(a, 1) \in {"W", "RW"}
      BY <2>1, Zenon DEF UnlockTest
    <3>4. <<to, w>> \in Seq(Item) /\ Len(<<to, w>>) = 2 /\ <<to, w>>[1] = to /\ <<to, w>>[2] = w
      OBVIOUS
    <3>5. \A i \in 3..Len(unlocking'[a]) : FALSE
      BY <3>2, <3>4
    <3> HIDE DEF Item
    <3>6. /\ unlocking' \in [Accessors -> Seq(Item)]
          /\ \A c \in Accessors : c # a => unlocking'[c] = unlocking[c]
      BY <1>0, <3>1, <3>4, Zenon
    <3>7. QED
      BY <3>2, <3>3, <3>4, <3>5, <3>6
  <2>2. CASE Unlock(a)
    <3> DEFINE to == unlocking[a][1]
    <3>1. /\ to \in {"NONE", "R"}
          /\ to = "R" => Mode(a, 1) \in {"W", "RW"}
          /\ unlocking[a] \in Seq(Item) /\ Len(unlocking[a]) >= 2
      BY <1>0, <2>2, Zenon DEF Unlock, Carried
    <3>2. CASE unlocking' = [unlocking EXCEPT ![a] = <<to, "go">> \o post_sync_tasks[h]]
      <4> DEFINE p == post_sync_tasks[h]
                 q == <<to, "go">>
      <4>1. q \in Seq(Item) /\ Len(q) = 2 /\ q[1] = to /\ q[2] = "go"
        BY <3>1
      <4>2. p \in Seq(Item) /\ Len(p) \in Nat
        BY <1>0, <1>4
      <4>3. unlocking'[a] = q \o p
        BY <1>0, <3>2, Zenon
      <4> HIDE DEF p, q, to, Item, h
      <4>4. /\ q \o p \in Seq(Item) /\ Len(q \o p) = 2 + Len(p)
            /\ (q \o p)[1] = to /\ (q \o p)[2] = "go"
            /\ \A i \in 3..(2 + Len(p)) : (q \o p)[i] = p[i - 2] /\ i - 2 \in 1..Len(p)
        <5>1. /\ q \o p \in Seq(Item) /\ Len(q \o p) = Len(q) + Len(p)
              /\ \A i \in 1..(Len(q) + Len(p)) : (q \o p)[i] = IF i <= Len(q) THEN q[i] ELSE p[i - Len(q)]
          BY <4>1, <4>2, Concatenated, Zenon
        <5>2. QED
          BY <4>1, <4>2, <5>1
      <4>5. /\ unlocking' \in [Accessors -> Seq(Item)]
            /\ \A c \in Accessors : c # a => unlocking'[c] = unlocking[c]
        BY <1>0, <3>2, <4>4, Zenon DEF p, q
      <4>6. \A i \in 3..Len(u) : \E k \in 1..Len(p) : u[i] = p[k]
        BY <4>2, <4>3, <4>4, Zenon
      <4>7. /\ u \in Seq(Item) /\ Len(u) >= 2
            /\ u[1] \in {"NONE", "R"} /\ u[2] \in {"lock", "go"}
            /\ u[1] = "R" => Mode(a, 1) \in {"W", "RW"}
        BY <3>1, <4>2, <4>3, <4>4
      <4>8. QED
        BY <4>5, <4>6, <4>7, Zenon DEF p
    <3>3. CASE unlocking' = [unlocking EXCEPT ![a][2] = "go"]
      <4>1. unlocking'[a] = [unlocking[a] EXCEPT ![2] = "go"]
        BY <1>0, <3>3, Zenon
      <4>2. /\ [unlocking[a] EXCEPT ![2] = "go"] \in Seq(Item)
            /\ Len([unlocking[a] EXCEPT ![2] = "go"]) = Len(unlocking[a])
            /\ \A i \in 1..Len(unlocking[a]) :
                 [unlocking[a] EXCEPT ![2] = "go"][i] = IF i = 2 THEN "go" ELSE unlocking[a][i]
        BY <3>1
      <4> HIDE DEF Item
      <4>3. /\ unlocking' \in [Accessors -> Seq(Item)]
            /\ \A c \in Accessors : c # a => unlocking'[c] = unlocking[c]
        BY <1>0, <3>3, <4>2, Zenon
      <4>4. Len(unlocking[a]) \in Nat
        BY <3>1
      <4>5. /\ u \in Seq(Item) /\ Len(u) = Len(unlocking[a])
            /\ u[1] = to /\ u[2] = "go"
            /\ \A i \in 3..Len(u) : u[i] = unlocking[a][i]
        BY <3>1, <4>1, <4>2, <4>4
      <4>6. QED
        BY <3>1, <4>3, <4>5, Zenon
    <3>4. QED
      BY <2>2, <3>2, <3>3, Zenon DEF Unlock
  <2>3. QED
    BY <2>1, <2>2, Zenon
<1>6. /\ post_sync_tasks' \in [Handles -> Seq(Jobs)] /\ post_sync_tasks_cnt' \in [Handles -> 0..UIntMax]
      /\ \A g \in Handles : post_sync_tasks'[g] \in {post_sync_tasks[g], <<>>}
  <2>1. \A n \in 0..UIntMax : (n + UIntMax) % (UIntMax + 1) \in 0..UIntMax
    BY SizesAssumption
  <2>2. <<>> \in Seq(Jobs)
    OBVIOUS
  <2>3. post_sync_tasks_cnt' \in [Handles -> 0..UIntMax]
    BY <1>0, <2>1, SMTT(40) DEF UnlockTest, Unlock, pvars
  <2>4. post_sync_tasks' = post_sync_tasks \/ post_sync_tasks' = [post_sync_tasks EXCEPT ![h] = <<>>]
    BY Zenon DEF UnlockTest, Unlock, pvars
  <2>5. QED
    BY <1>0, <2>2, <2>3, <2>4, Zenon
<1>7. Types'
  <2>1. pc' \in [Accessors -> {"start", "wait", "attempt", "run", "granted", "hold", "unlock", "done"}]
    BY <1>0, <1>1, Zenon
  <2>2. TypeOK'
    BY <1>1, <1>6, <2>1, Zenon DEF Types, TypeOK
  <2>3. QED
    BY <1>1, <1>3, <1>5, <2>2, Zenon DEF Types, Main
<1>8. Carried'
  <2>1. \A j, g : PostSync(j, g) => PostSync(j, g)'
    BY <1>1, <1>3, PostSyncKept, Zenon DEF Handle
  <2>2. ASSUME NEW g \in Handles, NEW i \in 1..Len(post_sync_tasks'[g])
        PROVE  PostSync(post_sync_tasks[g][i], g)'
    <3>1. post_sync_tasks'[g] = post_sync_tasks[g]
      BY <1>6, <2>2
    <3>2. PostSync(post_sync_tasks[g][i], g)
      BY <2>2, <3>1, Zenon DEF Carried
    <3>3. QED
      BY <1>1, <1>3, <3>1, <3>2, Zenon DEF PostSync, Main, Handle
  <2>3. ASSUME NEW c \in Accessors, NEW i \in 3..Len(unlocking'[c])
        PROVE  PostSync(unlocking[c][i], Handle(c, 1))'
    <3>1. \A j : PostSync(j, Handle(c, 1)) /\ unlocking'[c][i] = j => PostSync(unlocking[c][i], Handle(c, 1))'
      BY <1>1, <1>3, Zenon DEF PostSync, Main, Handle
    <3>2. CASE unlocking'[c][i] = unlocking[c][i] /\ i \in 3..Len(unlocking[c])
      BY <3>1, <3>2, Zenon DEF Carried
    <3>3. ASSUME c = a, NEW k \in 1..Len(post_sync_tasks[h]), unlocking'[a][i] = post_sync_tasks[h][k]
          PROVE  PostSync(unlocking[c][i], Handle(c, 1))'
      <4>1. PostSync(post_sync_tasks[h][k], h)
        BY <1>4, Zenon DEF Carried
      <4>2. QED
        BY <3>1, <3>3, <4>1, Zenon
    <3>4. QED
      BY <1>5, <2>3, <3>2, <3>3, Zenon
  <2>4. ASSUME NEW c \in Accessors, pc'[c] = "unlock"
        PROVE  /\ kind'[c] # "task" /\ Len(unlocking'[c]) >= 2
               /\ unlocking'[c][1] \in {"NONE", "R"} /\ unlocking'[c][2] \in {"lock", "go"}
               /\ unlocking'[c][1] = "R" => Mode(c, 1)' \in {"W", "RW"}
    <3>1. Mode(c, 1)' = Mode(c, 1)
      BY <1>1, Zenon DEF Mode
    <3>2. QED
      BY <1>1, <1>2, <1>3, <1>5, <2>4, <3>1 DEF Carried
  <2>5. QED
    BY <2>2, <2>3, <2>4, Zenon DEF Carried
<1>9. QED
  BY <1>1, <1>3, <1>7, <1>8, Zenon DEF Forgetful

\* Removing the third element of a sequence.
LEMMA ThirdRemoved ==
  ASSUME NEW S, NEW q \in Seq(S), Len(q) > 2
  PROVE  LET r == SubSeq(q, 1, 2) \o SubSeq(q, 4, Len(q)) IN
         /\ r \in Seq(S) /\ Len(r) = Len(q) - 1
         /\ r[1] = q[1] /\ r[2] = q[2]
         /\ \A i \in 3..Len(r) : i + 1 \in 3..Len(q) /\ r[i] = q[i + 1]
<1> DEFINE x == SubSeq(q, 1, 2)
           y == SubSeq(q, 4, Len(q))
<1>1. Len(q) \in Nat /\ \A i \in 1..Len(q) : q[i] \in S
  OBVIOUS
<1>2. x \in Seq(S) /\ Len(x) = 2 /\ x[1] = q[1] /\ x[2] = q[2]
  <2>1. \A i \in 1..2 : q[i] \in S
    BY <1>1
  <2>2. /\ x \in Seq(S) /\ Len(x) = (IF 1 <= 2 THEN 2 - 1 + 1 ELSE 0)
        /\ \A i \in 1..(2 - 1 + 1) : x[i] = q[1 + i - 1]
    BY <2>1
  <2>3. QED
    BY <2>2
<1>3. /\ y \in Seq(S) /\ Len(y) = Len(q) - 3
      /\ \A i \in 1..(Len(q) - 3) : y[i] = q[i + 3]
  <2>1. \A i \in 4..Len(q) : q[i] \in S
    BY <1>1
  <2>2. /\ y \in Seq(S) /\ Len(y) = (IF 4 <= Len(q) THEN Len(q) - 4 + 1 ELSE 0)
        /\ \A i \in 1..(Len(q) - 4 + 1) : y[i] = q[4 + i - 1]
    BY <1>1, <2>1
  <2>3. \A i \in 1..(Len(q) - 3) : i \in 1..(Len(q) - 4 + 1) /\ 4 + i - 1 = i + 3
    BY <1>1
  <2>4. Len(y) = Len(q) - 3
    BY <1>1, <2>2
  <2>5. QED
    BY <2>2, <2>3, <2>4, Zenon
<1> HIDE DEF x, y
<1>4. /\ x \o y \in Seq(S) /\ Len(x \o y) = Len(x) + Len(y)
      /\ \A i \in 1..(Len(x) + Len(y)) : (x \o y)[i] = IF i <= Len(x) THEN x[i] ELSE y[i - Len(x)]
  BY <1>2, <1>3, Concatenated, Zenon
<1>5. /\ x \o y \in Seq(S) /\ Len(x \o y) = Len(q) - 1
      /\ (x \o y)[1] = q[1] /\ (x \o y)[2] = q[2]
      /\ \A i \in 3..Len(x \o y) : i + 1 \in 3..Len(q) /\ (x \o y)[i] = q[i + 1]
  <2>1. ASSUME NEW i \in 3..Len(x \o y)
        PROVE  i + 1 \in 3..Len(q) /\ (x \o y)[i] = q[i + 1]
    <3>1. i \in 1..(Len(x) + Len(y)) /\ i > 2 /\ i - 2 \in 1..(Len(q) - 3) /\ i + 1 \in 3..Len(q)
      BY <1>1, <1>2, <1>3, <1>4
    <3>2. (x \o y)[i] = y[i - 2] /\ y[i - 2] = q[i - 2 + 3]
      BY <1>2, <1>3, <1>4, <3>1
    <3>3. QED
      BY <3>1, <3>2
  <2>2. QED
    BY <1>1, <1>2, <1>3, <1>4, <2>1
<1>6. QED
  BY <1>5, Zenon DEF x, y

\* A post_sync task is forgotten by the handle and submitted.
LEMMA UnlockOneBase ==
  ASSUME Base, NEW a \in Accessors, UnlockOne(a)
  PROVE  Base' /\ Forgetful
<1> USE DEF Base
<1> DEFINE q == unlocking[a]
           j == q[3]
           h == Handle(a, 1)
           Item == {"NONE", "R", "lock", "go"} \cup Jobs
<1>0. unlocking \in [Accessors -> Seq(Item)] /\ q \in Seq(Item) /\ Len(q) \in Nat
  BY DEF Types
<1>1. /\ UNCHANGED <<kind, access, buf, pc, deps, hist, post_sync_tasks, post_sync_tasks_cnt>>
      /\ pc[a] = "unlock" /\ Len(q) > 2 /\ Forget(j, 1, h)
      /\ jpc' = [jpc EXCEPT ![j] = "submitted"]
      /\ unlocking' = [unlocking EXCEPT ![a] = SubSeq(q, 1, 2) \o SubSeq(q, 4, Len(q))]
  BY Zenon DEF UnlockOne, pvars
<1>2. PICK c \in Accessors : /\ j = Main(c) /\ kind[c] = "acquire" /\ Handle(c, 1) = h
                             /\ pc[c] \in {"hold", "unlock", "done"}
  BY <1>0, <1>1 DEF Carried, PostSync
<1> HIDE DEF Item, q, j
<1>3. Main(c) \in Jobs /\ Past(Main(c))' /\ Forget(Main(c), 1, h)
  BY <1>1, <1>2, JobsOf, Zenon DEF Past, Main
<1>4. jpc'[Main(c)] = "submitted" /\ \A k \in Jobs : k # Main(c) => jpc'[k] = jpc[k]
  BY <1>1, <1>2, <1>3, Domains, Zenon
<1>5. /\ unlocking' \in [Accessors -> Seq(Item)]
      /\ \A e \in Accessors : e # a => unlocking'[e] = unlocking[e]
      /\ Len(unlocking'[a]) >= 2 /\ unlocking'[a][1] = q[1] /\ unlocking'[a][2] = q[2]
      /\ \A i \in 3..Len(unlocking'[a]) : i + 1 \in 3..Len(q) /\ unlocking'[a][i] = q[i + 1]
  <2> DEFINE r == SubSeq(q, 1, 2) \o SubSeq(q, 4, Len(q))
  <2>1. /\ r \in Seq(Item) /\ Len(r) = Len(q) - 1
        /\ r[1] = q[1] /\ r[2] = q[2]
        /\ \A i \in 3..Len(r) : i + 1 \in 3..Len(q) /\ r[i] = q[i + 1]
    BY <1>0, <1>1, ThirdRemoved, ZenonT(40)
  <2> HIDE DEF r
  <2>2. unlocking' = [unlocking EXCEPT ![a] = r]
    BY <1>1, Zenon DEF r
  <2>3. unlocking'[a] = r
    BY <1>0, <2>2, Zenon
  <2>4. unlocking' \in [Accessors -> Seq(Item)]
    BY <1>0, <2>1, <2>2, Zenon
  <2>5. \A e \in Accessors : e # a => unlocking'[e] = unlocking[e]
    BY <1>0, <2>2, Zenon
  <2>6. Len(unlocking'[a]) >= 2
    BY <1>0, <1>1, <2>1, <2>3
  <2>7. QED
    BY <2>1, <2>3, <2>4, <2>5, <2>6, Zenon
<1>6. PastKept
  BY <1>1, <1>4, PastSteps DEF Types, TypeOK, Main
<1>7. Types'
  <2>1. jpc' \in [Jobs -> {"none", "submitted", "run", "release", "notify", "done"}]
    BY <1>1, Zenon DEF Types, TypeOK
  <2>2. TypeOK'
    BY <1>1, <1>3, <2>1, ForgetKept, ZenonT(40) DEF Types, TypeOK
  <2>3. \A e \in Accessors : pc'[e] = "start" \/ jpc'[Main(e)] \notin {"notify", "done"}
                               => buf'[e] \in 1..Len(access[e])
    <3>1. \A e \in Accessors : e # c => jpc'[Main(e)] = jpc[Main(e)]
      BY <1>4, JobsOf, Zenon DEF Main
    <3>2. buf[c] = 1 /\ Len(access[c]) = 1
      BY <1>2, Zenon DEF Types
    <3>3. \A e \in Accessors : pc[e] = "start" \/ jpc[Main(e)] \notin {"notify", "done"}
                                 => buf[e] \in 1..Len(access[e])
      BY Zenon DEF Types
    <3>4. QED
      BY <1>1, <3>1, <3>2, <3>3
  <2>4. QED
    BY <1>1, <1>5, <2>2, <2>3, Zenon DEF Types, Main, Item
<1>8. Carried'
  <2>1. \A k, g : PostSync(k, g) => PostSync(k, g)'
    BY <1>1, PostSyncKept, Zenon DEF Handle
  <2>2. ASSUME NEW e \in Accessors, NEW i \in 3..Len(unlocking'[e])
        PROVE  PostSync(unlocking[e][i], Handle(e, 1))'
    <3>1. \A k : PostSync(k, Handle(e, 1)) /\ unlocking'[e][i] = k => PostSync(unlocking[e][i], Handle(e, 1))'
      BY <1>1, Zenon DEF PostSync, Main, Handle
    <3>2. CASE e # a
      BY <1>5, <2>2, <3>1, <3>2, Zenon DEF Carried
    <3>3. CASE e = a
      BY <1>5, <2>2, <3>1, <3>3, ZenonT(40) DEF Carried, q
    <3>4. QED
      BY <3>2, <3>3, Zenon
  <2>3. ASSUME NEW e \in Accessors, pc'[e] = "unlock"
        PROVE  /\ kind'[e] # "task" /\ Len(unlocking'[e]) >= 2
               /\ unlocking'[e][1] \in {"NONE", "R"} /\ unlocking'[e][2] \in {"lock", "go"}
               /\ unlocking'[e][1] = "R" => Mode(e, 1)' \in {"W", "RW"}
    <3>1. Mode(e, 1)' = Mode(e, 1)
      BY <1>1, Zenon DEF Mode
    <3>2. QED
      BY <1>1, <1>5, <2>3, <3>1, Zenon DEF Carried, q
  <2>4. QED
    BY <1>1, <2>1, <2>2, <2>3, Zenon DEF Carried
<1>9. Stages'
  <2> SUFFICES ASSUME NEW e \in Accessors
               PROVE  TaskStage(e)' /\ UserStage(e)' /\ SyncStage(e)'
    BY Zenon DEF Stages
  <2>1. CASE e = c
    <3>1. \A b \in 0..Pre : \A k \in deps[<<c, b>>] : Past(k) => Past(k)'
      BY <1>6, Zenon DEF PastKept, Jobs, Types, TypeOK
    <3>2. \A b \in 1..Pre : jpc'[<<c, b>>] = jpc[<<c, b>>]
      BY <1>2, <1>4, SizesAssumption DEF Jobs, Main, Pre
    <3>3. UserStage(c) /\ SyncStage(c)
      BY Zenon DEF Stages
    <3>4. UserStage(c)'
      BY <1>1, <1>2, <1>4, <3>1, <3>2, <3>3, SizesAssumption, SMTT(40) DEF UserStage, Main, Pre
    <3>5. SyncStage(c)'
      BY <1>1, <3>1, <3>2, <3>3, SizesAssumption, SMTT(30) DEF SyncStage, Pre
    <3>6. QED
      BY <1>1, <1>2, <2>1, <3>4, <3>5, Zenon DEF TaskStage
  <2>2. CASE e # c
    <3>1. \A b \in 0..Pre : jpc'[<<e, b>>] = jpc[<<e, b>>]
      BY <1>2, <1>4, <2>2, Zenon DEF Jobs, Main
    <3>2. QED
      BY <1>1, <1>6, <3>1, StageKept, Zenon
  <2>3. QED
    BY <2>1, <2>2, Zenon
<1>10. QED
  BY <1>1, <1>3, <1>6, <1>7, <1>8, <1>9, ForgetKept, Zenon DEF Forgetful

\* What the end of a release does: the data is released, or it is accessed in a weaker
\* mode from now on.
Released(a) ==
    /\ UNCHANGED <<last_sync_task, accessors, last_submitted_mode, kind, buf, deps, jpc>>
    /\ PastKept /\ kind[a] # "task" /\ Len(access[a]) = 1 /\ Handle(a, 1) \in Handles
    /\ Past(Main(a)) /\ Past(Main(a))'
    /\ \/ access' = access /\ hist' = hist
       \/ Mode(a, 1) \in {"W", "RW"} /\ Mode(a, 1)' = "R"
    /\ \A c \in Accessors :
         /\ Len(access'[c]) = Len(access[c])
         /\ \A b \in 1..Len(access[c]) :
              /\ Handle(c, b)' = Handle(c, b)
              /\ Mode(c, b)' = Mode(c, b) \/ (c = a /\ Mode(c, b)' = "R")
    /\ \A g \in Handles :
         /\ Len(hist'[g]) = Len(hist[g])
         /\ \A i \in 1..Len(hist[g]) :
              /\ hist'[g][i].who = hist[g][i].who
              /\ hist'[g][i].mode = hist[g][i].mode \/ (g = Handle(a, 1) /\ hist[g][i].who = a)
              /\ g = Handle(a, 1) /\ hist[g][i].who = a /\ access' # access => hist'[g][i].mode = "R"

\* The data is released; or it is accessed in a weaker mode from now on, which only
\* removes conflicts.
LEMMA ReleaseDataBase ==
  ASSUME Base, NEW a \in Accessors, ReleaseData(a)
  PROVE  Base' /\ Released(a)
<1> USE DEF Base
<1> DEFINE v == IF unlocking[a][1] = "NONE" THEN "done" ELSE "hold"
           h == Handle(a, 1)
<1>1. /\ UNCHANGED <<last_sync_task, accessors, last_submitted_mode, kind, buf, deps, jpc,
                     post_sync_tasks, post_sync_tasks_cnt>>
      /\ pc[a] = "unlock" /\ pc' = [pc EXCEPT ![a] = v]
      /\ unlocking' = [unlocking EXCEPT ![a] = <<>>]
      /\ v \in {"granted", "hold", "unlock", "done"} /\ v # "granted" /\ v # "unlock"
  BY Zenon DEF ReleaseData, hvars, pvars
<1>2. kind[a] # "task"
  BY <1>1, Zenon DEF Stages, TaskStage
<1>3. /\ PastKept /\ Stages'
      /\ \A c \in Accessors :
           /\ pc[c] \in {"hold", "unlock", "done"} => pc'[c] \in {"hold", "unlock", "done"}
           /\ pc'[c] = "start" => pc[c] = "start"
           /\ pc'[c] = "unlock" => pc[c] = "unlock" /\ c # a
  <2> HIDE DEF v
  <2>1. pc'[a] = v
    BY <1>1, Domains, Zenon
  <2>2. QED
    BY <1>1, <1>2, <2>1, UserMoves, Zenon
<1>4. Len(access[a]) = 1 /\ access[a][1] \in Buffers /\ h \in Handles
  <2>1. access \in [Accessors -> Seq(Buffers)] /\ Len(access[a]) = 1
    BY <1>2, Zenon DEF Types
  <2>2. \A q \in Seq(Buffers) : Len(q) = 1 => q[1] \in Buffers
    OBVIOUS
  <2>3. access[a][1] \in Buffers
    BY <2>1, <2>2, Zenon
  <2>4. QED
    BY <2>1, <2>3, Zenon DEF Handle, Buffers
<1>5. \/ access' = access /\ hist' = hist
      \/ /\ Mode(a, 1) \in {"W", "RW"}
         /\ access' = [access EXCEPT ![a][1].mode = "R"]
         /\ hist' = [hist EXCEPT ![h] = [i \in DOMAIN hist[h] |->
                         IF hist[h][i].who = a THEN [hist[h][i] EXCEPT !.mode = "R"] ELSE hist[h][i]]]
  <2>1. unlocking[a][1] # "NONE" => Mode(a, 1) \in {"W", "RW"}
    BY <1>1, Zenon DEF Carried
  <2>2. QED
    BY <2>1, Zenon DEF ReleaseData
<1>6. /\ access' \in [Accessors -> Seq(Buffers)]
      /\ \A c \in Accessors : /\ Len(access'[c]) = Len(access[c])
                              /\ \A b \in 1..Len(access[c]) :
                                   /\ Handle(c, b)' = Handle(c, b)
                                   /\ Mode(c, b)' = Mode(c, b) \/ (c = a /\ Mode(c, b)' = "R")
  <2>1. access \in [Accessors -> Seq(Buffers)]
    BY Zenon DEF Types
  <2>2. CASE access' = access
    BY <2>1, <2>2, Zenon DEF Handle, Mode
  <2>3. CASE access' = [access EXCEPT ![a][1].mode = "R"]
    <3> DEFINE x == [access[a][1] EXCEPT !.mode = "R"]
               y == [access[a] EXCEPT ![1] = x]
    <3>1. x \in Buffers /\ x.handle = access[a][1].handle /\ x.mode = "R"
      BY <1>4, Zenon DEF Buffers, AllModes
    <3>2. access' = [access EXCEPT ![a] = y]
      BY <2>3, Zenon
    <3> HIDE DEF x
    <3>3. y \in Seq(Buffers) /\ Len(y) = 1 /\ y[1] = x
      <4>1. \A q \in Seq(Buffers), w \in Buffers :
              Len(q) = 1 => LET z == [q EXCEPT ![1] = w] IN z \in Seq(Buffers) /\ Len(z) = 1 /\ z[1] = w
        <5> SUFFICES ASSUME NEW q \in Seq(Buffers), NEW w \in Buffers, Len(q) = 1
                     PROVE  LET z == [q EXCEPT ![1] = w] IN z \in Seq(Buffers) /\ Len(z) = 1 /\ z[1] = w
          BY Zenon
        <5> DEFINE z == [q EXCEPT ![1] = w]
        <5>1. q \in [1..1 -> Buffers]
          OBVIOUS
        <5>2. z \in [1..1 -> Buffers] /\ z[1] = w
          BY <5>1
        <5>3. QED
          BY <5>2
      <4>2. access[a] \in Seq(Buffers)
        BY <2>1, Zenon
      <4>3. QED
        BY <1>4, <3>1, <4>1, <4>2, Zenon
    <3> HIDE DEF y
    <3>4. access' \in [Accessors -> Seq(Buffers)] /\ access'[a] = y
      BY <2>1, <3>2, <3>3, Zenon
    <3>5. \A c \in Accessors : c # a => access'[c] = access[c]
      BY <2>1, <3>2, Zenon
    <3>6. QED
      BY <1>4, <3>1, <3>3, <3>4, <3>5 DEF Handle, Mode
  <2>4. QED
    BY <1>5, <2>2, <2>3, Zenon
<1>7. /\ hist' \in [Handles -> Seq(Accesses)]
      /\ \A g \in Handles :
           /\ Len(hist'[g]) = Len(hist[g])
           /\ \A i \in 1..Len(hist[g]) :
                /\ hist'[g][i].who = hist[g][i].who
                /\ hist'[g][i].mode = hist[g][i].mode \/ (g = h /\ hist[g][i].who = a)
                /\ g = h /\ hist[g][i].who = a /\ access' # access => hist'[g][i].mode = "R"
  <2>1. hist \in [Handles -> Seq(Accesses)]
    BY Zenon DEF Types
  <2>2. CASE access' = access /\ hist' = hist
    BY <2>1, <2>2, Zenon
  <2>3. CASE hist' = [hist EXCEPT ![h] = [i \in DOMAIN hist[h] |->
                         IF hist[h][i].who = a THEN [hist[h][i] EXCEPT !.mode = "R"] ELSE hist[h][i]]]
    <3> DEFINE y == [i \in DOMAIN hist[h] |->
                      IF hist[h][i].who = a THEN [hist[h][i] EXCEPT !.mode = "R"] ELSE hist[h][i]]
    <3>1. /\ Len(hist[h]) \in Nat /\ DOMAIN hist[h] = 1..Len(hist[h])
          /\ \A i \in 1..Len(hist[h]) : hist[h][i] \in Accesses
      BY <1>4, <2>1
    <3>2. \A i \in 1..Len(hist[h]) :
            /\ y[i] \in Accesses /\ y[i].who = hist[h][i].who
            /\ y[i].mode = IF hist[h][i].who = a THEN "R" ELSE hist[h][i].mode
      BY <3>1, Zenon DEF Accesses, AllModes
    <3>3. DOMAIN y = 1..Len(hist[h]) /\ y = [i \in DOMAIN y |-> y[i]]
      BY <3>1, Zenon
    <3>4. hist' = [hist EXCEPT ![h] = y]
      BY <2>3, Zenon
    <3> HIDE DEF y
    <3>5. y \in [1..Len(hist[h]) -> Accesses]
      BY <3>2, <3>3, Zenon
    <3>6. y \in Seq(Accesses) /\ Len(y) = Len(hist[h])
      BY <3>1, <3>5
    <3>7. hist' \in [Handles -> Seq(Accesses)] /\ hist'[h] = y
      BY <1>4, <2>1, <3>4, <3>6, Zenon
    <3>8. \A g \in Handles : g # h => hist'[g] = hist[g]
      BY <2>1, <3>4, ZenonT(40)
    <3>9. QED
      BY <3>2, <3>6, <3>7, <3>8, Zenon
  <2>4. QED
    BY <1>5, <2>2, <2>3, Zenon
<1>8. Types'
  <2>1. TypeOK'
    BY <1>1, Zenon DEF Types, TypeOK
  <2>2. unlocking' \in [Accessors -> Seq({"NONE", "R", "lock", "go"} \cup Jobs)]
    <3>1. <<>> \in Seq({"NONE", "R", "lock", "go"} \cup Jobs)
      OBVIOUS
    <3>2. QED
      BY <1>1, <3>1, Zenon DEF Types
  <2>3. QED
    BY <1>1, <1>3, <1>6, <1>7, <2>1, <2>2 DEF Types, Main
<1>9. Carried'
  <2>0. 1 \in 1..Len(access[a]) /\ \A c \in Accessors : 1 \in 1..Len(access[c])
    BY <1>4, Elements DEF Types
  <2>1. \A j, g : PostSync(j, g) => PostSync(j, g)'
    BY <1>1, <1>3, <1>6, <2>0, PostSyncKept, Zenon
  <2>2. \A c \in Accessors : \A i \in 3..Len(unlocking'[c]) : c # a /\ unlocking'[c] = unlocking[c]
    <3>1. unlocking'[a] = <<>> /\ \A c \in Accessors : c # a => unlocking'[c] = unlocking[c]
      BY <1>1, Domains, Zenon
    <3>2. QED
      BY <3>1
  <2>3. ASSUME NEW c \in Accessors, NEW i \in 3..Len(unlocking'[c])
        PROVE  PostSync(unlocking[c][i], Handle(c, 1))'
    <3>1. PostSync(unlocking[c][i], Handle(c, 1))
      BY <2>2, <2>3, Zenon DEF Carried
    <3>2. \A j, g : PostSync(j, g) /\ unlocking'[c][i] = j /\ Handle(c, 1)' = g
                      => PostSync(unlocking[c][i], Handle(c, 1))'
      BY <2>1 DEF PostSync, Main, Handle
    <3>3. QED
      BY <1>6, <2>0, <2>2, <2>3, <3>1, <3>2, Zenon
  <2>4. ASSUME NEW g \in Handles, NEW i \in 1..Len(post_sync_tasks'[g])
        PROVE  PostSync(post_sync_tasks[g][i], g)'
    <3>1. PostSync(post_sync_tasks[g][i], g)
      BY <1>1, <2>4, Zenon DEF Carried
    <3>2. \A j : PostSync(j, g) /\ post_sync_tasks[g][i] = j => PostSync(post_sync_tasks[g][i], g)'
      BY <1>1, <2>1 DEF PostSync, Main, Handle
    <3>3. QED
      BY <3>1, <3>2, Zenon
  <2>5. ASSUME NEW c \in Accessors, pc'[c] = "unlock"
        PROVE  /\ kind'[c] # "task" /\ Len(unlocking'[c]) >= 2
               /\ unlocking'[c][1] \in {"NONE", "R"} /\ unlocking'[c][2] \in {"lock", "go"}
               /\ unlocking'[c][1] = "R" => Mode(c, 1)' \in {"W", "RW"}
    <3>1. c # a /\ pc[c] = "unlock" /\ unlocking'[c] = unlocking[c]
      BY <1>1, <1>3, <2>5, Domains, Zenon
    <3>2. Mode(c, 1)' = Mode(c, 1)
      BY <1>6, <2>0, <3>1, Zenon
    <3>3. QED
      BY <1>1, <3>1, <3>2, Zenon DEF Carried
  <2>6. QED
    BY <2>3, <2>4, <2>5, Zenon DEF Carried
<1>10. access' = [access EXCEPT ![a][1].mode = "R"] => Mode(a, 1)' = "R"
  <2>1. access \in [Accessors -> Seq(Buffers)]
    BY Zenon DEF Types
  <2>2. access[a] \in [1..1 -> Buffers]
    BY <1>4, <2>1
  <2>3. QED
    BY <1>4, <2>1, <2>2 DEF Mode, Buffers
<1>11. Past(Main(a)) /\ Past(Main(a))'
  <2>1. pc'[a] \in {"hold", "unlock", "done"}
    BY <1>1, <1>3, Zenon
  <2>2. QED
    BY <1>1, <2>1, Zenon DEF Past, Main
<1>12. QED
  BY <1>1, <1>2, <1>3, <1>4, <1>5, <1>6, <1>7, <1>8, <1>9, <1>10, <1>11, Zenon DEF Released

-----------------------------------------------------------------------------
(* A turn of the submission.                                               *)

\* What a turn for its next buffer does: the handle now remembers acc and last, and the
\* jobs depend on each other as d says.
Turned(a, acc, last, d) ==
    /\ Types' /\ Carried' /\ Stages'
    /\ \A j \in Jobs : Past(j)' = Past(j)
    /\ kind' = kind /\ access' = access /\ deps' = d
    /\ \A g \in Handles : g # Handle(a, buf[a]) =>
          /\ accessors'[g] = accessors[g] /\ last_sync_task'[g] = last_sync_task[g]
          /\ last_submitted_mode'[g] = last_submitted_mode[g] /\ hist'[g] = hist[g]
    /\ \A h \in Handles : h = Handle(a, buf[a]) =>
          /\ accessors'[h] = acc /\ last_sync_task'[h] = last
          /\ last_submitted_mode'[h] = Mode(a, buf[a])
          /\ Len(hist'[h]) = Len(hist[h]) + 1
          /\ \A i \in 1..Len(hist[h]) : hist'[h][i] = hist[h][i]
          /\ hist'[h][Len(hist[h]) + 1].who = a
          /\ hist'[h][Len(hist[h]) + 1].mode = Mode(a, buf[a])

\* A turn of _starpu_detect_implicit_data_deps_with_handle, whatever it makes the
\* handle remember and the accessor's own jobs depend on: nothing is over that was not,
\* and the accessor goes on with its next buffer, or submits.
LEMMA DetectedFrame ==
  ASSUME Base, NEW a \in Accessors, pc[a] = "start", kind[a] \in {"task", "acquire"},
         NEW acc \in SUBSET (Jobs \X (1..MaxBuffers)), NEW last \in Jobs \cup {None},
         NEW d \in [Jobs -> SUBSET Jobs], NEW subs,
         subs \subseteq {<<a, buf[a]>>},
         \A j \in Jobs : j \notin {PreSync(a), <<a, buf[a]>>} => d[j] = deps[j],
         Detected(a, acc, last, d, subs)
  PROVE  Turned(a, acc, last, d)
<1> USE DEF Base
<1> DEFINE b == buf[a]
           h == Handle(a, b)
           later == {c \in (b + 1)..Len(access[a]) : ~Duplicate(a, c)}
           submit_pre == kind[a] = "task" \/ d[PreSync(a)] # {}
           now == subs \cup (IF later = {} /\ submit_pre THEN {PreSync(a)} ELSE {})
           np == IF later # {} THEN "start" ELSE IF submit_pre THEN "wait" ELSE "attempt"
<1>1. /\ accessors' = [accessors EXCEPT ![h] = acc]
      /\ last_sync_task' = [last_sync_task EXCEPT ![h] = last]
      /\ last_submitted_mode' = [last_submitted_mode EXCEPT ![h] = Mode(a, b)]
      /\ deps' = d
      /\ jpc' = [j \in Jobs |-> IF j \in now THEN "submitted" ELSE jpc[j]]
      /\ pc' = [pc EXCEPT ![a] = np]
      /\ hist' = [hist EXCEPT ![h] = Append(hist[h], [who |-> a, mode |-> Mode(a, b)])]
      /\ UNCHANGED <<post_sync_tasks, post_sync_tasks_cnt, kind, access, unlocking>>
  BY Zenon DEF Detected, pvars
<1>0. PICK nb \in IF later = {} THEN {1} ELSE {e \in later : \A f \in later : e <= f} :
             buf' = [buf EXCEPT ![a] = nb]
  BY Zenon DEF Detected
<1>2. /\ b \in 1..Len(access[a]) /\ Len(access[a]) \in 1..MaxBuffers
      /\ h \in Handles /\ Mode(a, b) \in AllModes
  BY Elements, Zenon DEF Types
<1>3. /\ kind[a] # "task" => later = {}
      /\ nb \in 1..Len(access[a]) /\ (later # {} => nb > b)
  <2>1. later \in SUBSET Nat /\ \A c \in later : c > b /\ c \in 1..Len(access[a])
    BY <1>2, SizesAssumption
  <2>2. kind[a] # "task" => Len(access[a]) = 1 /\ b = 1
    BY Zenon DEF Types
  <2> HIDE DEF later
  <2>3. kind[a] # "task" => later = {}
    <3>1. \A c \in later : kind[a] # "task" => c > 1 /\ c \in 1..1
      BY <2>1, <2>2, Zenon
    <3>2. QED
      BY <3>1
  <2>4. later # {} => nb \in later
    BY Zenon
  <2>5. later = {} => nb = 1
    BY Zenon
  <2>6. later # {} => nb > b /\ nb \in 1..Len(access[a])
    BY <2>1, <2>4, Zenon
  <2>7. 1 \in 1..Len(access[a])
    BY <1>2, SizesAssumption
  <2>8. QED
    BY <2>3, <2>5, <2>6, <2>7, Zenon
<1>4. /\ jpc[PreSync(a)] = "none" /\ jpc[Main(a)] = "none" /\ jpc[<<a, b>>] = "none"
      /\ deps[<<a, b>>] = {}
      /\ <<a, b>> \in Jobs /\ b # 0 /\ b # Pre /\ b \in 1..MaxBuffers
      /\ Main(a) \in Jobs /\ PreSync(a) \in Jobs
  <2>1. b \in 1..MaxBuffers /\ b # Pre /\ b # 0
    BY <1>2, SizesAssumption DEF Pre
  <2>2. TaskStage(a) /\ UserStage(a) /\ SyncStage(a)
    BY Zenon DEF Stages
  <2>3. jpc[<<a, b>>] = "none" /\ deps[<<a, b>>] = {}
    BY <2>1, <2>2 DEF SyncStage
  <2>4. jpc[PreSync(a)] = "none" /\ jpc[Main(a)] = "none"
    BY <2>2, Zenon DEF TaskStage, UserStage, PreSync
  <2>5. QED
    BY <2>1, <2>3, <2>4, JobsOf, Zenon
<1> HIDE DEF later
<1>5. /\ \A c \in Accessors : c # a => pc'[c] = pc[c] /\ buf'[c] = buf[c]
      /\ pc'[a] = np /\ buf'[a] = nb
  BY <1>0, <1>1, Domains, Zenon
<1>6. \A j \in Jobs : /\ jpc'[j] = IF j \in now THEN "submitted" ELSE jpc[j]
                      /\ j \in now => jpc[j] = "none" /\ (j = <<a, b>> \/ j = PreSync(a))
  BY <1>1, <1>4, ZenonT(40)
<1>7. \A j \in Jobs : Past(j)' = Past(j)
  <2>1. pc'[a] \notin {"hold", "unlock", "done"}
    BY <1>5, Zenon
  <2>2. QED
    BY <1>5, <1>6, <2>1 DEF Past, Jobs
<1>8. TypeOK'
  <2> TypeOK
    BY Zenon DEF Types
  <2>1. /\ last_sync_task' \in [Handles -> Jobs \cup {None}]
        /\ accessors' \in [Handles -> SUBSET (Jobs \X (1..MaxBuffers))]
        /\ last_submitted_mode' \in [Handles -> AllModes \cup {"NONE"}]
    BY <1>1, <1>2, Zenon DEF TypeOK
  <2>2. buf' \in [Accessors -> 1..(MaxBuffers + 1)]
    <3>1. nb \in 1..(MaxBuffers + 1)
      BY <1>2, <1>3, SizesAssumption
    <3>2. QED
      BY <1>0, <3>1, ZenonT(40) DEF TypeOK
  <2>3. /\ pc' \in [Accessors -> {"start", "wait", "attempt", "run", "granted", "hold", "unlock", "done"}]
        /\ deps' \in [Jobs -> SUBSET Jobs]
        /\ jpc' \in [Jobs -> {"none", "submitted", "run", "release", "notify", "done"}]
    BY <1>1, Zenon DEF TypeOK
  <2>4. QED
    BY <1>1, <2>1, <2>2, <2>3, Zenon DEF TypeOK
<1>9. /\ hist' \in [Handles -> Seq(Accesses)]
      /\ Len(hist'[h]) = Len(hist[h]) + 1
      /\ \A i \in 1..Len(hist[h]) : hist'[h][i] = hist[h][i]
      /\ hist'[h][Len(hist[h]) + 1].who = a /\ hist'[h][Len(hist[h]) + 1].mode = Mode(a, b)
  <2> DEFINE x == [who |-> a, mode |-> Mode(a, b)]
  <2>1. x \in Accesses /\ hist \in [Handles -> Seq(Accesses)]
    BY <1>2, Zenon DEF Accesses, Types
  <2> HIDE DEF x
  <2>2. hist'[h] = Append(hist[h], x)
    BY <1>1, <1>2, <2>1, Zenon DEF x
  <2>3. hist[h] \in Seq(Accesses) /\ hist' = [hist EXCEPT ![h] = Append(hist[h], x)]
    BY <1>1, <1>2, <2>1, ZenonT(40) DEF x
  <2>4. /\ Append(hist[h], x) \in Seq(Accesses)
        /\ Len(Append(hist[h], x)) = Len(hist[h]) + 1
        /\ \A i \in 1..Len(hist[h]) : Append(hist[h], x)[i] = hist[h][i]
        /\ Append(hist[h], x)[Len(hist[h]) + 1] = x
    BY <2>1, <2>3
  <2>5. QED
    BY <2>1, <2>2, <2>3, <2>4, SMTT(30) DEF x
<1>10. Types'
  <2>1. ASSUME NEW c \in Accessors
        PROVE  /\ kind'[c] # "task" => Len(access'[c]) = 1 /\ buf'[c] = 1
               /\ pc'[c] = "start" \/ jpc'[Main(c)] \notin {"notify", "done"}
                    => buf'[c] \in 1..Len(access'[c])
    <3>1. CASE c = a
      BY <1>1, <1>2, <1>3, <1>5, <3>1, Zenon DEF Types
    <3>2. CASE c # a
      <4>1. jpc'[Main(c)] = jpc[Main(c)]
        BY <1>6, <3>2, JobsOf, Zenon DEF Main, PreSync
      <4>2. QED
        BY <1>1, <1>5, <3>2, <4>1, Zenon DEF Types
    <3>3. QED
      BY <3>1, <3>2, Zenon
  <2>2. QED
    BY <1>1, <1>8, <1>9, <2>1, Zenon DEF Types, Main
<1>11. Carried'
  <2>1. \A j, g : PostSync(j, g) => PostSync(j, g)'
    BY <1>1, <1>5, PostSyncKept, Zenon DEF Handle
  <2>2. pc'[a] # "unlock"
    BY <1>5, Zenon
  <2>3. QED
    BY <1>1, <1>5, <2>1, <2>2, ZenonT(40) DEF Carried, Handle, Mode
<1>12. Stages'
  <2>0. PastKept
    BY <1>7, Zenon DEF PastKept
  <2> SUFFICES ASSUME NEW c \in Accessors
               PROVE  TaskStage(c)' /\ UserStage(c)' /\ SyncStage(c)'
    BY Zenon DEF Stages
  <2>1. CASE c # a
    <3>1. \A e \in 0..Pre : /\ <<c, e>> \in Jobs
                            /\ jpc'[<<c, e>>] = jpc[<<c, e>>] /\ deps'[<<c, e>>] = deps[<<c, e>>]
      BY <1>1, <1>6, <2>1, Zenon DEF Jobs, PreSync, Main
    <3>2. QED
      BY <1>1, <1>5, <2>0, <2>1, <3>1, StageKept, Zenon
  <2>2. TaskStage(a)'
    <3>1. TaskStage(a)
      BY Zenon DEF Stages
    <3>2. kind[a] = "task" => /\ Main(a) \in now <=> later = {}
                              /\ <<a, Pre>> \notin now /\ <<a, Pre>> \in Jobs
      BY <1>4, JobsOf, Zenon DEF PreSync, Main
    <3>3. kind[a] = "task" => jpc'[<<a, Pre>>] = "none"
      BY <1>6, <3>1, <3>2, Zenon DEF TaskStage
    <3>4. kind[a] = "task" /\ later = {} => jpc'[Main(a)] = "submitted" /\ pc'[a] = "wait"
      BY <1>4, <1>5, <1>6, <3>2, Zenon
    <3>5. kind[a] = "task" /\ later # {} => jpc'[Main(a)] = "none" /\ pc'[a] = "start"
      BY <1>4, <1>5, <1>6, <3>2, Zenon
    <3>6. kind'[a] = kind[a] /\ Main(a)' = Main(a)
      BY <1>1, Zenon DEF Main
    <3>7. CASE later = {}
      BY <3>3, <3>4, <3>6, <3>7, Zenon DEF TaskStage
    <3>8. CASE later # {}
      BY <3>3, <3>5, <3>6, <3>8, Zenon DEF TaskStage
    <3>9. QED
      BY <3>7, <3>8, Zenon
  <2>3. UserStage(a)'
    <3>1. kind[a] # "task" => /\ PreSync(a) = <<a, Pre>> /\ later = {} /\ pc'[a] \in {"wait", "attempt"}
                              /\ Main(a) \notin now
                              /\ pc'[a] = "attempt" => d[<<a, Pre>>] = {} /\ <<a, Pre>> \notin now
      BY <1>3, <1>4, <1>5, JobsOf, Zenon DEF PreSync, Main
    <3>2. QED
      BY <1>1, <1>4, <1>6, <3>1, Zenon DEF UserStage, Main
  <2>4. SyncStage(a)'
    <3>1. SyncStage(a)
      BY Zenon DEF Stages
    <3>2. ASSUME NEW e \in 1..Pre, jpc'[<<a, e>>] \notin {"none", "submitted"}
          PROVE  jpc'[<<a, e>>] # "run" /\ \A k \in deps'[<<a, e>>] : Past(k)'
      <4>1. <<a, e>> \in Jobs
        BY SizesAssumption DEF Jobs, Pre
      <4>2. jpc'[<<a, e>>] = jpc[<<a, e>>] /\ <<a, e>> \notin {PreSync(a), <<a, b>>}
        BY <1>4, <1>6, <3>2, <4>1, Zenon
      <4>3. deps'[<<a, e>>] = deps[<<a, e>>] /\ deps[<<a, e>>] \subseteq Jobs
        BY <1>1, <4>1, <4>2, Zenon DEF Types, TypeOK
      <4>4. jpc[<<a, e>>] # "run" /\ \A k \in deps[<<a, e>>] : Past(k)
        BY <3>1, <3>2, <4>2, Zenon DEF SyncStage
      <4>5. QED
        BY <1>7, <4>2, <4>3, <4>4, Zenon
    <3>3. ASSUME NEW e \in 1..MaxBuffers, pc'[a] = "start", e >= buf'[a]
          PROVE  jpc'[<<a, e>>] = "none" /\ deps'[<<a, e>>] = {}
      <4>1. later # {} /\ e >= b /\ e # b /\ e # 0 /\ e # Pre
        BY <1>2, <1>3, <1>5, <3>3, SizesAssumption DEF Pre
      <4>2. <<a, e>> \in Jobs /\ <<a, e>> \notin {PreSync(a), <<a, b>>}
        BY <4>1, JobsOf, Zenon DEF PreSync, Main
      <4>3. jpc[<<a, e>>] = "none" /\ deps[<<a, e>>] = {}
        BY <3>1, <4>1, Zenon DEF SyncStage
      <4>4. QED
        BY <1>1, <1>6, <4>2, <4>3, ZenonT(40)
    <3>4. QED
      BY <3>2, <3>3, Zenon DEF SyncStage
  <2>5. QED
    BY <2>1, <2>2, <2>3, <2>4, Zenon
<1>13. /\ accessors'[h] = acc /\ last_sync_task'[h] = last
       /\ last_submitted_mode'[h] = Mode(a, b)
       /\ \A g \in Handles : g # h =>
               /\ accessors'[g] = accessors[g] /\ last_sync_task'[g] = last_sync_task[g]
               /\ last_submitted_mode'[g] = last_submitted_mode[g] /\ hist'[g] = hist[g]
  BY <1>1, <1>2, Domains, Zenon
<1>14. QED
  BY <1>1, <1>7, <1>9, <1>10, <1>11, <1>12, <1>13, ZenonT(40) DEF Turned
=============================================================================
