----------------------------- MODULE PoolProofs -----------------------------
(***************************************************************************)
(* The thread pool serves each job once and in order, strands none and     *)
(* leaves none behind, for any number of workers and jobs.                 *)
(***************************************************************************)
EXTENDS ThreadPool, FiniteSetTheorems, TLAPS

LEMMA InitPool == Init => PoolInvariant
  <1> SUFFICES ASSUME Init PROVE PoolInvariant
    OBVIOUS
  <1>1. TypeOK
    <2>1. 0 \in 0 .. NumJobs
      BY PoolAssumption
    <2>2. tasks \in Seq(Jobs) /\ silent \subseteq Jobs /\ finished \subseteq Jobs
      BY DEF Init
    <2>3. at \in [Workers -> WorkerPlaces] /\ main \in MainPlaces
      BY DEF Init, WorkerPlaces, MainPlaces
    <2>4. job \in [Workers -> 0 .. NumJobs] /\ accepted \in 0 .. NumJobs
      BY <2>1 DEF Init
    <2> QED BY <2>2, <2>3, <2>4 DEF Init, TypeOK
  <1>2. MutexInv /\ StopInv
    BY DEF Init, MutexInv, StopInv
  <1>3. Taken = 0 /\ Running = {}
    BY DEF Init, Taken, Pushed, Running
  <1>4. JobsInv
    BY <1>3 DEF Init, JobsInv
  <1> QED BY <1>1, <1>2, <1>4 DEF PoolInvariant

LEMMA TypeStep == PoolInvariant /\ [Next]_vars => TypeOK'
  <1> SUFFICES ASSUME PoolInvariant, [Next]_vars PROVE TypeOK'
    OBVIOUS
  <1> USE DEF PoolInvariant, TypeOK, WorkerPlaces, MainPlaces, Jobs, Main
  <1>1. CASE UNCHANGED vars
    BY <1>1 DEF vars
  <1>2. ASSUME NEW w \in Workers, WorkerStep(w) \/ WakeSpuriously(w)
        PROVE  TypeOK'
    <2>1. CASE Lock(w)
      BY <2>1 DEF Lock
    <2>2. CASE Wait(w) \/ Quit(w) \/ WakeSpuriously(w)
      BY <2>2 DEF Wait, Quit, WakeSpuriously
    <2>3. CASE Take(w)
      BY <2>3, PoolAssumption DEF Take
    <2>4. CASE Finish(w)
      <3>1. job[w] \in Jobs
        <4>1. job[w] \in 1 .. Taken
          BY <2>4 DEF Finish, JobsInv, Running
        <4>2. job[w] \in 0 .. NumJobs
          OBVIOUS
        <4>3. job[w] >= 1
          BY <4>1
        <4> QED BY <4>2, <4>3, PoolAssumption
      <3> QED BY <2>4, <3>1 DEF Finish
    <2> QED BY <1>2, <2>1, <2>2, <2>3, <2>4 DEF WorkerStep
  <1>3. CASE Accept \/ Leave
    <2>1. accepted' \in 0 .. NumJobs
      BY <1>3, PoolAssumption DEF Accept, Leave
    <2> QED BY <1>3, <2>1 DEF Accept, Leave
  <1>4. CASE LockMain \/ SetStop \/ Join
    BY <1>4 DEF LockMain, SetStop, Join
  <1>5. CASE Push
    <2>1. accepted \in Jobs /\ tasks \in Seq(Jobs)
      <3>1. accepted > 0
        BY <1>5 DEF Push, JobsInv
      <3> QED BY <3>1, PoolAssumption
    <2> QED BY <1>5, <2>1 DEF Push
  <1>6. CASE NotifyOne \/ NotifyAll
    BY <1>6 DEF NotifyOne, NotifyAll, Asleep
  <1> QED BY <1>1, <1>2, <1>3, <1>4, <1>5, <1>6 DEF Next, MainStep

LEMMA MutexStep == PoolInvariant /\ [Next]_vars => MutexInv'
  <1> SUFFICES ASSUME PoolInvariant, [Next]_vars PROVE MutexInv'
    OBVIOUS
  <1> USE PoolAssumption DEF PoolInvariant, TypeOK, MutexInv, Main
  <1>1. CASE UNCHANGED vars
    BY <1>1 DEF vars
  <1>2. ASSUME NEW w \in Workers, WorkerStep(w) \/ WakeSpuriously(w)
        PROVE  MutexInv'
    <2>1. CASE Lock(w)
      BY <2>1 DEF Lock
    <2>2. CASE Wait(w) \/ Quit(w) \/ Take(w)
      BY <2>2 DEF Wait, Quit, Take
    <2>3. CASE Finish(w) \/ WakeSpuriously(w)
      BY <2>3 DEF Finish, WakeSpuriously
    <2> QED BY <1>2, <2>1, <2>2, <2>3 DEF WorkerStep
  <1>3. CASE Accept \/ Leave \/ Join
    BY <1>3 DEF Accept, Leave, Join
  <1>4. CASE LockMain
    BY <1>4 DEF LockMain
  <1>5. CASE Push \/ SetStop
    BY <1>5 DEF Push, SetStop
  <1>6. CASE NotifyOne \/ NotifyAll
    BY <1>6 DEF NotifyOne, NotifyAll, Asleep
  <1> QED BY <1>1, <1>2, <1>3, <1>4, <1>5, <1>6 DEF Next, MainStep

LEMMA StopStep == PoolInvariant /\ [Next]_vars => StopInv'
  <1> SUFFICES ASSUME PoolInvariant, [Next]_vars PROVE StopInv'
    OBVIOUS
  <1> USE DEF PoolInvariant, TypeOK, StopInv
  <1>1. CASE UNCHANGED vars
    BY <1>1 DEF vars
  <1>2. ASSUME NEW w \in Workers, WorkerStep(w) \/ WakeSpuriously(w)
        PROVE  StopInv'
    <2>1. CASE Take(w)
      BY <2>1 DEF Take
    <2>2. CASE Lock(w) \/ Wait(w) \/ Quit(w) \/ Finish(w) \/ WakeSpuriously(w)
      BY <2>2 DEF Lock, Wait, Quit, Finish, WakeSpuriously
    <2> QED BY <1>2, <2>1, <2>2 DEF WorkerStep
  <1>3. CASE Accept \/ Leave \/ Join \/ LockMain \/ Push \/ SetStop
    BY <1>3 DEF Accept, Leave, Join, LockMain, Push, SetStop
  <1>4. CASE NotifyOne \/ NotifyAll
    BY <1>4 DEF NotifyOne, NotifyAll, Asleep
  <1> QED BY <1>1, <1>2, <1>3, <1>4 DEF Next, MainStep

\* Steps that move no job.
LEMMA JobsSame ==
  ASSUME PoolInvariant, UNCHANGED <<tasks, job, finished>>, Pushed' = Pushed,
         Running' = Running, main' \in {"enqueue", "push"} => accepted' > 0,
         main' = "gone" => \A w \in Workers : at'[w] = "exit"
  PROVE  JobsInv'
  BY DEF PoolInvariant, JobsInv, Taken

LEMMA JobsStep == PoolInvariant /\ [Next]_vars => JobsInv'
  <1> SUFFICES ASSUME PoolInvariant, [Next]_vars PROVE JobsInv'
    OBVIOUS
  <1> USE DEF PoolInvariant, TypeOK, Jobs
  <1>1. CASE UNCHANGED vars
    BY <1>1, JobsSame DEF vars, Pushed, Running, JobsInv
  <1>2. ASSUME NEW w \in Workers, WorkerStep(w) \/ WakeSpuriously(w)
        PROVE  JobsInv'
    <2>1. main' = main /\ accepted' = accepted /\ Pushed' = Pushed /\ Pushed \in Int
      BY <1>2, PoolAssumption DEF WorkerStep, Lock, Wait, Quit, Take, Finish, WakeSpuriously, Pushed
    <2>2. at[w] # "exit"
      BY <1>2 DEF WorkerStep, Lock, Wait, Quit, Take, Finish, WakeSpuriously
    <2>3. main # "gone"
      BY <2>2 DEF JobsInv
    <2>4. CASE Lock(w) \/ Wait(w) \/ Quit(w) \/ WakeSpuriously(w)
      <3>1. UNCHANGED <<tasks, job, finished>> /\ Running' = Running
        BY <2>4 DEF Lock, Wait, Quit, WakeSpuriously, Running
      <3> QED BY <2>1, <2>3, <3>1, JobsSame DEF JobsInv
    <2>5. CASE Take(w)
      <3>1. /\ tasks # << >> /\ Len(tasks') = Len(tasks) - 1 /\ Taken' = Taken + 1
            /\ \A i \in DOMAIN tasks' : tasks'[i] = tasks[i + 1] /\ i + 1 \in DOMAIN tasks
            /\ job'[w] = tasks[1] /\ 1 \in DOMAIN tasks /\ Len(tasks) \in Nat
        BY <2>1, <2>5 DEF Take, Taken
      <3>2. Taken \in Int /\ job'[w] = Taken + 1
        BY <2>1, <3>1 DEF JobsInv, Taken
      <3>3. w \notin Running /\ Running' = Running \cup {w}
            /\ \A v \in Running : job'[v] = job[v]
        BY <2>5 DEF Take, Running
      <3>4. finished' = finished
        BY <2>5 DEF Take
      <3>5. /\ Taken' >= 0
            /\ \A i \in DOMAIN tasks' : tasks'[i] = Taken' + i
        <4>1. Taken >= 0 /\ \A i \in DOMAIN tasks : tasks[i] = Taken + i
          BY DEF JobsInv
        <4>2. \A i \in DOMAIN tasks' : i \in Int
          BY <2>5 DEF Take
        <4>3. ASSUME NEW i \in DOMAIN tasks'
              PROVE  tasks'[i] = Taken' + i
          <5>1. tasks'[i] = Taken + (i + 1)
            BY <3>1, <4>1
          <5> QED BY <3>1, <3>2, <4>2, <5>1
        <4> QED BY <3>1, <3>2, <4>1, <4>3
      <3>6. \A j \in 1 .. Taken' : j \in finished' \/ \E v \in Running' : job'[v] = j
        BY <3>1, <3>2, <3>3, <3>4 DEF JobsInv
      <3>7. /\ \A j \in finished' : j <= Taken'
            /\ \A v \in Running' : job'[v] \in 1 .. Taken' /\ job'[v] \notin finished'
        <4>1. \A j \in finished : j \in Int /\ j <= Taken
          BY PoolAssumption DEF JobsInv
        <4>2. \A v \in Running : job[v] \in 1 .. Taken /\ job[v] \notin finished
          BY DEF JobsInv
        <4>3. Taken + 1 \notin finished /\ Taken >= 0
          BY <3>2, <4>1 DEF JobsInv
        <4>4. \A j \in finished' : j <= Taken'
          BY <3>1, <3>2, <3>4, <4>1
        <4>5. job'[w] \in 1 .. Taken' /\ job'[w] \notin finished'
          BY <3>1, <3>2, <3>4, <4>3
        <4>6. \A v \in Running : job'[v] \in 1 .. Taken' /\ job'[v] \notin finished'
          BY <3>1, <3>2, <3>3, <3>4, <4>2
        <4> QED BY <3>3, <4>4, <4>5, <4>6
      <3>8. \A u, v \in Running' : job'[u] = job'[v] => u = v
        BY <3>2, <3>3 DEF JobsInv
      <3> QED BY <2>1, <2>3, <3>5, <3>6, <3>7, <3>8 DEF JobsInv
    <2>6. CASE Finish(w)
      <3>1. /\ w \in Running /\ Running' = Running \ {w} /\ Taken' = Taken
            /\ finished' = finished \cup {job[w]} /\ UNCHANGED <<tasks, job>>
        BY <2>1, <2>6 DEF Finish, Running, Taken
      <3>2. job[w] \in 1 .. Taken /\ \A v \in Running \ {w} : job[v] # job[w]
        BY <3>1 DEF JobsInv
      <3> HIDE DEF Running, Taken
      <3>3. \A j \in 1 .. Taken' : j \in finished' \/ \E v \in Running' : job'[v] = j
        BY <3>1 DEF JobsInv
      <3>4. /\ \A j \in finished' : j <= Taken'
            /\ \A v \in Running' : job'[v] \in 1 .. Taken' /\ job'[v] \notin finished'
        BY <3>1, <3>2 DEF JobsInv
      <3> QED BY <2>1, <2>3, <3>1, <3>3, <3>4 DEF JobsInv
    <2> QED BY <1>2, <2>4, <2>5, <2>6 DEF WorkerStep
  <1>3. CASE Accept \/ Leave \/ LockMain \/ SetStop
    <2>1. UNCHANGED <<tasks, job, finished, at>> /\ Running' = Running /\ Pushed' = Pushed
      BY <1>3, PoolAssumption DEF Accept, Leave, LockMain, SetStop, Running, Pushed
    <2>2. main' # "gone" /\ (main' \in {"enqueue", "push"} => accepted' > 0)
      BY <1>3, PoolAssumption DEF Accept, Leave, LockMain, SetStop, JobsInv
    <2> QED BY <2>1, <2>2, JobsSame
  <1>4. CASE Join
    <2>1. UNCHANGED <<tasks, job, finished, at>> /\ Running' = Running /\ Pushed' = Pushed
      BY <1>4 DEF Join, Running, Pushed
    <2>2. main' = "gone" /\ \A w \in Workers : at'[w] = "exit"
      BY <1>4 DEF Join
    <2> QED BY <2>1, <2>2, JobsSame
  <1>5. CASE NotifyOne \/ NotifyAll
    <2>1. UNCHANGED <<tasks, job, finished>> /\ Pushed' = Pushed /\ Running' = Running
      BY <1>5 DEF NotifyOne, NotifyAll, Asleep, Running, Pushed
    <2>2. main' \in {"loop", "join"}
      BY <1>5 DEF NotifyOne, NotifyAll
    <2> QED BY <2>1, <2>2, JobsSame
  <1>6. CASE Push
    <2>1. /\ Pushed = accepted - 1 /\ Pushed' = accepted /\ accepted \in Int
          /\ main' = "notify" /\ Running' = Running /\ UNCHANGED <<job, finished, accepted>>
      BY <1>6 DEF Push, Pushed, Running
    <2>2. /\ Len(tasks') = Len(tasks) + 1 /\ Len(tasks) \in Nat
          /\ \A i \in DOMAIN tasks' : IF i \in DOMAIN tasks THEN tasks'[i] = tasks[i]
                                      ELSE i = Len(tasks) + 1 /\ tasks'[i] = accepted
      BY <1>6, PoolAssumption DEF Push
    <2>3. Taken' = Taken /\ Taken + Len(tasks) + 1 = accepted
      BY <2>1, <2>2 DEF Taken
    <2> HIDE DEF Running, Taken
    <2>4. \A i \in DOMAIN tasks' : tasks'[i] = Taken' + i
      <3> SUFFICES ASSUME NEW i \in DOMAIN tasks'
                   PROVE  tasks'[i] = Taken' + i
        OBVIOUS
      <3>1. CASE i \in DOMAIN tasks
        BY <2>2, <2>3, <3>1 DEF JobsInv
      <3>2. CASE i \notin DOMAIN tasks
        <4>1. i = Len(tasks) + 1 /\ tasks'[i] = accepted
          BY <2>2, <3>2
        <4>2. Taken \in Int
          BY <2>1, <2>2 DEF Taken
        <4> QED BY <2>1, <2>2, <2>3, <4>1, <4>2
      <3> QED BY <3>1, <3>2
    <2>5. accepted > 0 /\ main' \notin {"enqueue", "push", "gone"}
      BY <1>6, <2>1 DEF JobsInv, Push
    <2> QED BY <2>1, <2>3, <2>4, <2>5 DEF JobsInv
  <1> QED BY <1>1, <1>2, <1>3, <1>4, <1>5, <1>6 DEF Next, MainStep

\* Whatever the interleaving of enqueue, workers and destructor, the mutex
\* excludes, no worker leaves early, and the jobs are accounted for.
THEOREM PoolSafe == Spec => []PoolInvariant
  <1>1. PoolInvariant /\ [Next]_vars => PoolInvariant'
    BY TypeStep, MutexStep, StopStep, JobsStep DEF PoolInvariant
  <1> QED BY <1>1, InitPool, PTL DEF Spec

\* When the destructor has returned, every accepted connection has been served.
THEOREM Drained == Spec => []DrainedAtExit
  <1>1. PoolInvariant => DrainedAtExit
    <2> SUFFICES ASSUME PoolInvariant, main = "gone"
                 PROVE  finished = 1 .. accepted
      BY DEF DrainedAtExit
    <2>1. \A w \in Workers : at[w] = "exit"
      BY DEF PoolInvariant, JobsInv
    <2>2. Running = {} /\ tasks = << >>
      BY <2>1, PoolAssumption DEF Running, PoolInvariant, StopInv
    <2>3. Taken = accepted /\ accepted \in Nat
      BY <2>2, PoolAssumption DEF Taken, Pushed, PoolInvariant, TypeOK
    <2>4. \A j \in finished : j \in 1 .. accepted
      BY <2>3 DEF PoolInvariant, TypeOK, JobsInv, Jobs
    <2>5. \A j \in 1 .. accepted : j \in finished
      BY <2>2, <2>3 DEF PoolInvariant, JobsInv
    <2> QED BY <2>4, <2>5
  <1> QED BY <1>1, PoolSafe, PTL

-----------------------------------------------------------------------------
(* Lost wakeups *)

LEMMA AwakeFinite ==
  ASSUME PoolInvariant
  PROVE  IsFiniteSet(Awake) /\ Cardinality(Awake) \in Nat /\ Len(tasks) \in Nat
  <1>1. Awake \in SUBSET Workers
    BY DEF Awake
  <1>2. IsFiniteSet(Awake)
    BY <1>1, FS_Subset, PoolAssumption
  <1>3. Cardinality(Awake) \in Nat
    BY <1>2, FS_CardinalityType
  <1> QED BY <1>2, <1>3 DEF PoolInvariant, TypeOK

\* A worker that comes to be awake adds one to the count.
LEMMA OneMoreAwake ==
  ASSUME PoolInvariant, NEW w \in Workers, w \notin Awake, Awake' = Awake \cup {w}
  PROVE  Cardinality(Awake') = Cardinality(Awake) + 1
  BY AwakeFinite, FS_AddElement

LEMMA StrandedStep == PoolInvariant /\ NoneStranded /\ [Next]_vars => NoneStranded'
  <1> SUFFICES ASSUME PoolInvariant, NoneStranded, [Next]_vars PROVE NoneStranded'
    OBVIOUS
  <1> DEFINE n == Cardinality(Awake)
             notes == IF main = "notify" THEN 1 ELSE 0
  <1>0. n \in Nat /\ Len(tasks) \in Nat /\ at \in [Workers -> WorkerPlaces]
    BY AwakeFinite DEF PoolInvariant, TypeOK
  <1>1. CASE UNCHANGED vars
    BY <1>1 DEF vars, NoneStranded, Asleep, Awake
  <1>2. ASSUME NEW w \in Workers, WorkerStep(w) \/ WakeSpuriously(w)
        PROVE  NoneStranded'
    <2>1. CASE Lock(w)
      <3>1. Asleep' = Asleep /\ Awake' = Awake /\ UNCHANGED <<tasks, main>>
        BY <1>0, <2>1 DEF Lock, Asleep, Awake
      <3> QED BY <3>1 DEF NoneStranded
    <2>2. CASE Wait(w) \/ Quit(w)
      <3>1. tasks' = << >> /\ Len(tasks') = 0
        BY <2>2 DEF Wait, Quit
      <3>2. Awake' \in SUBSET Workers
        BY <2>2 DEF Awake
      <3>3. Cardinality(Awake') \in Nat
        BY <3>2, FS_Subset, FS_CardinalityType, PoolAssumption
      <3> QED BY <3>1, <3>3 DEF NoneStranded
    <2>3. CASE Take(w)
      <3>1. /\ Asleep' = Asleep /\ Awake' = Awake \ {w} /\ w \in Awake /\ main' = main
            /\ Len(tasks') = Len(tasks) - 1
        BY <1>0, <2>3 DEF Take, Asleep, Awake, PoolInvariant, TypeOK
      <3>2. Cardinality(Awake') = n - 1
        BY <3>1, AwakeFinite, FS_RemoveElement
      <3> HIDE DEF n
      <3> QED BY <1>0, <3>1, <3>2 DEF NoneStranded, n
    <2>4. CASE Finish(w) \/ WakeSpuriously(w)
      <3>1. /\ Asleep' \subseteq Asleep /\ Awake' = Awake \cup {w} /\ w \notin Awake
            /\ UNCHANGED <<tasks, main>>
        BY <1>0, <2>4 DEF Finish, WakeSpuriously, Asleep, Awake
      <3>2. Cardinality(Awake') = n + 1
        BY <3>1, OneMoreAwake
      <3> HIDE DEF n
      <3> QED BY <1>0, <3>1, <3>2 DEF NoneStranded, n
    <2> QED BY <1>2, <2>1, <2>2, <2>3, <2>4 DEF WorkerStep
  <1>3. CASE Accept \/ Leave \/ LockMain \/ SetStop \/ Join
    <2>1. Asleep' = Asleep /\ Awake' = Awake /\ tasks' = tasks /\ main # "notify"
      BY <1>3 DEF Accept, Leave, LockMain, SetStop, Join, Asleep, Awake
    <2> HIDE DEF n
    <2>2. Cardinality(Awake') = n
      BY <2>1 DEF n
    <2> QED BY <1>0, <2>1, <2>2 DEF NoneStranded, n
  <1>4. CASE Push
    <2>1. /\ Asleep' = Asleep /\ Awake' = Awake /\ main # "notify" /\ main' = "notify"
          /\ Len(tasks') = Len(tasks) + 1
      BY <1>4, PoolAssumption DEF Push, Asleep, Awake, PoolInvariant, TypeOK
    <2>2. Cardinality(Awake') = n
      BY <2>1
    <2> HIDE DEF n
    <2> QED BY <1>0, <2>1, <2>2 DEF NoneStranded, n
  <1>5. CASE NotifyOne
    <2>1. CASE Asleep = {} /\ UNCHANGED at
      BY <2>1 DEF NoneStranded, Asleep
    <2>2. ASSUME NEW w \in Asleep, at' = [at EXCEPT ![w] = "woken"]
          PROVE  NoneStranded'
      <3>1. /\ Awake' = Awake \cup {w} /\ w \notin Awake /\ w \in Workers
            /\ main = "notify" /\ main' # "notify" /\ tasks' = tasks
        BY <1>0, <1>5, <2>2 DEF NotifyOne, Asleep, Awake
      <3>2. Cardinality(Awake') = n + 1
        BY <3>1, OneMoreAwake
      <3> HIDE DEF n
      <3> QED BY <1>0, <2>2, <3>1, <3>2 DEF NoneStranded, n
    <2> QED BY <1>5, <2>1, <2>2 DEF NotifyOne
  <1>6. CASE NotifyAll
    <2>1. Asleep' = {}
      BY <1>6 DEF NotifyAll, Asleep
    <2> QED BY <2>1 DEF NoneStranded
  <1> QED BY <1>1, <1>2, <1>3, <1>4, <1>5, <1>6 DEF Next, MainStep

\* No interleaving of notifications, spurious wakeups and busy workers leaves a
\* task in the queue beside a worker that sleeps on.
THEOREM NoLostWakeup == Spec => []NoneStranded
  <1>1. Init => NoneStranded
    BY DEF Init, NoneStranded, Asleep
  <1> QED BY <1>1, StrandedStep, PoolSafe, PTL DEF Spec

-----------------------------------------------------------------------------
(* The pool implements the work queue. *)

RunningJobs == {job[w] : w \in Running}

\* A worker at the queue is not running a job, so fewer run than there are workers.
LEMMA RoomForOne ==
  ASSUME PoolInvariant, NEW w \in Workers, at[w] = "check"
  PROVE  Cardinality(RunningJobs) < Cardinality(Workers)
  <1>1. Running \in SUBSET Workers /\ w \notin Running
    BY DEF Running
  <1>2. IsFiniteSet(Running) /\ Cardinality(Running) <= Cardinality(Workers)
        /\ Cardinality(Running) # Cardinality(Workers)
    BY <1>1, FS_Subset, PoolAssumption
  <1> DEFINE f == [v \in Running |-> job[v]]
  <1>3. f \in Surjection(Running, RunningJobs)
    BY DEF Surjection, RunningJobs
  <1>4. IsFiniteSet(RunningJobs) /\ Cardinality(RunningJobs) <= Cardinality(Running)
    BY <1>2, <1>3, FS_Surjection
  <1>5. Cardinality(RunningJobs) \in Nat /\ Cardinality(Running) \in Nat
        /\ Cardinality(Workers) \in Nat
    BY <1>2, <1>4, FS_CardinalityType, PoolAssumption
  <1> QED BY <1>2, <1>4, <1>5

\* The instance's own copy of FiniteSets.
LEMMA SameCardinality == ASSUME NEW S PROVE Q!Cardinality(S) = Cardinality(S)
  BY DEF Q!Cardinality, Cardinality

LEMMA QueueStep == PoolInvariant /\ [Next]_vars => [Q!Next]_(Q!vars)
  <1> SUFFICES ASSUME PoolInvariant, [Next]_vars PROVE [Q!Next]_(Q!vars)
    OBVIOUS
  <1>1. CASE UNCHANGED <<tasks, finished, stop>> /\ RunningJobs' = RunningJobs
    BY <1>1 DEF Q!vars, RunningJobs
  <1>2. ASSUME NEW w \in Workers, Lock(w) \/ Wait(w) \/ Quit(w) \/ WakeSpuriously(w)
        PROVE  UNCHANGED <<tasks, finished, stop>> /\ RunningJobs' = RunningJobs
    <2>1. UNCHANGED <<tasks, finished, stop, job>> /\ Running' = Running
      BY <1>2 DEF Lock, Wait, Quit, WakeSpuriously, Running, PoolInvariant, TypeOK
    <2> QED BY <2>1 DEF RunningJobs
  <1>3. CASE Accept \/ Leave \/ LockMain \/ NotifyOne \/ NotifyAll \/ Join \/ UNCHANGED vars
    <2>1. UNCHANGED <<tasks, finished, stop, job>>
      BY <1>3 DEF Accept, Leave, LockMain, NotifyOne, NotifyAll, Join, vars
    <2>2. Running' = Running
      BY <1>3 DEF Accept, Leave, LockMain, NotifyOne, NotifyAll, Join, vars, Running, Asleep,
         PoolInvariant, TypeOK
    <2> QED BY <1>1, <2>1, <2>2 DEF RunningJobs
  <1>4. ASSUME NEW w \in Workers, Take(w)
        PROVE  Q!Start
    <2>1. w \notin Running /\ Running' = Running \cup {w} /\ job'[w] = Head(tasks)
          /\ \A v \in Running : job'[v] = job[v]
      BY <1>4 DEF Take, Running, PoolInvariant, TypeOK
    <2>2. RunningJobs' = RunningJobs \cup {Head(tasks)}
      BY <2>1 DEF RunningJobs
    <2>3. Cardinality(RunningJobs) < Cardinality(Workers)
      BY <1>4, RoomForOne DEF Take
    <2>4. tasks # << >> /\ tasks' = Tail(tasks) /\ UNCHANGED <<finished, stop>>
      BY <1>4 DEF Take
    <2> QED BY <2>2, <2>3, <2>4, SameCardinality DEF Q!Start, RunningJobs
  <1>5. ASSUME NEW w \in Workers, Finish(w)
        PROVE  \E j \in Jobs : Q!Finish(j)
    <2>1. w \in Running /\ Running' = Running \ {w} /\ job' = job
      BY <1>5 DEF Finish, Running, PoolInvariant, TypeOK
    <2>2. \A v \in Running \ {w} : job[v] # job[w]
      BY <2>1 DEF PoolInvariant, JobsInv
    <2>3. RunningJobs' = RunningJobs \ {job[w]} /\ job[w] \in RunningJobs
      BY <2>1, <2>2 DEF RunningJobs
    <2>4. job[w] \in 0 .. NumJobs /\ job[w] \in 1 .. Taken
      BY <2>1 DEF PoolInvariant, TypeOK, JobsInv
    <2>5. job[w] \in Jobs
      BY <2>4, PoolAssumption DEF Jobs
    <2>6. PICK j \in Jobs : j = job[w]
      BY <2>5
    <2>7. Q!Finish(j)
      BY <1>5, <2>3, <2>6 DEF Q!Finish, Finish, RunningJobs
    <2> QED BY <2>7
  <1>6. ASSUME Push
        PROVE  accepted \in Jobs /\ Q!Submit(accepted)
    <2>1. accepted \in Jobs
      BY <1>6, PoolAssumption DEF Push, PoolInvariant, TypeOK, JobsInv, Jobs
    <2>2. Taken + Len(tasks) = accepted - 1 /\ Taken \in Int /\ Len(tasks) \in Nat
      BY <1>6, <2>1, PoolAssumption DEF Push, Taken, Pushed, PoolInvariant, TypeOK, Jobs
    <2>3. \A i \in DOMAIN tasks : tasks[i] # accepted
      <3> SUFFICES ASSUME NEW i \in DOMAIN tasks PROVE tasks[i] # accepted
        OBVIOUS
      <3>1. tasks[i] = Taken + i
        BY DEF PoolInvariant, JobsInv
      <3>2. i \in 1 .. Len(tasks)
        BY DEF PoolInvariant, TypeOK
      <3> QED BY <2>1, <2>2, <3>1, <3>2, PoolAssumption DEF Jobs
    <2>4. accepted \notin finished /\ \A v \in Running : job[v] # accepted
      BY <2>1, <2>2, PoolAssumption DEF PoolInvariant, JobsInv, Jobs
    <2>5. accepted \notin Q!Known
      BY <2>3, <2>4 DEF Q!Known
    <2>6. ~stop
      BY <1>6 DEF Push, PoolInvariant, StopInv
    <2>7. RunningJobs' = RunningJobs
      BY <1>6 DEF Push, RunningJobs, Running
    <2> QED BY <1>6, <2>1, <2>5, <2>6, <2>7 DEF Q!Submit, Push, RunningJobs
  <1>7. ASSUME SetStop
        PROVE  Q!Close
    <2>1. RunningJobs' = RunningJobs
      BY <1>7 DEF SetStop, RunningJobs, Running
    <2> QED BY <1>7, <2>1 DEF SetStop, Q!Close, RunningJobs
  <1>8. ASSUME NEW w \in Workers, WorkerStep(w) \/ WakeSpuriously(w)
        PROVE  [Q!Next]_(Q!vars)
    <2>1. CASE Take(w)
      BY <1>4, <2>1 DEF Q!Next
    <2>2. CASE Finish(w)
      BY <1>5, <2>2 DEF Q!Next
    <2>3. CASE Lock(w) \/ Wait(w) \/ Quit(w) \/ WakeSpuriously(w)
      BY <1>1, <1>2, <2>3
    <2> QED BY <1>8, <2>1, <2>2, <2>3 DEF WorkerStep
  <1>9. CASE Push \/ SetStop
    BY <1>6, <1>7, <1>9 DEF Q!Next
  <1> QED BY <1>1, <1>3, <1>8, <1>9 DEF Next, MainStep

\* Each step of the threads is a step of the work queue or none: the queue is
\* first in, first out, and no job runs twice.
THEOREM PoolIsQueue == Spec => QueueSpec
  <1>1. Init => Q!Init
    BY DEF Init, Q!Init, Running
  <1>2. Spec => Q!Init /\ [][Q!Next]_(Q!vars)
    BY <1>1, QueueStep, PoolSafe, PTL DEF Spec
  <1> QED BY <1>2 DEF QueueSpec, Q!Spec
=============================================================================
