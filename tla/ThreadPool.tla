----------------------------- MODULE ThreadPool -----------------------------
(***************************************************************************)
(* The thread pool of threadpool.h as main.cpp uses it: the main thread    *)
(* enqueues one job per accepted connection and, when an exception leaves  *)
(* its loop, destroys the pool; workers take jobs from the queue.  Queue   *)
(* and stop flag are guarded by queueMutex, workers sleep on the condition *)
(* variable.  A job is Server::handleRequest for one client: it ends by    *)
(* itself, unless the client stays silent and recv never returns.          *)
(***************************************************************************)
EXTENDS Integers, Sequences, FiniteSets

CONSTANTS Workers,   \* the threads of the pool
          NumJobs    \* connections the main thread accepts at most

ASSUME PoolAssumption ==
  /\ NumJobs \in Nat
  /\ IsFiniteSet(Workers) /\ Workers # {}
  /\ "main" \notin Workers

VARIABLES
  tasks,      \* the queue
  stop,
  holder,     \* the threads inside queueMutex
  at,         \* each worker's place in its loop
  job,        \* the task a worker has taken, 0 before the first one
  main,       \* the main thread's place
  accepted,   \* connections accepted so far; jobs are numbered in that order
  silent,     \* the clients that connect and send nothing
  finished    \* the jobs that have returned

vars == <<tasks, stop, holder, at, job, main, accepted, silent, finished>>

Main == "main"
Jobs == 1 .. NumJobs

WorkerPlaces == {"top", "check", "wait", "woken", "run", "exit"}
MainPlaces == {"loop", "enqueue", "push", "notify", "destroy", "stop", "broadcast", "join", "gone"}

Init ==
  /\ tasks = << >>
  /\ stop = FALSE
  /\ holder = {}
  /\ at = [w \in Workers |-> "top"]
  /\ job = [w \in Workers |-> 0]
  /\ main = "loop"
  /\ accepted = 0
  /\ silent \in SUBSET Jobs
  /\ finished = {}

-----------------------------------------------------------------------------
(* A worker *)

\* std::unique_lock, on entering the loop's block or on returning from wait.
Lock(w) ==
  /\ at[w] \in {"top", "woken"}
  /\ holder = {}
  /\ holder' = {w}
  /\ at' = [at EXCEPT ![w] = "check"]
  /\ UNCHANGED <<tasks, stop, job, main, accepted, silent, finished>>

\* Faulty: wait without a predicate, entered once before looking at the queue.
Wait_Blindly(w) ==
  /\ at[w] = "check"
  /\ ~stop
  /\ at' = [at EXCEPT ![w] = "wait"]
  /\ holder' = holder \ {w}
  /\ UNCHANGED <<tasks, stop, job, main, accepted, silent, finished>>

\* The predicate is false: the mutex is released as the worker falls asleep.
Wait(w) ==
  /\ at[w] = "check"
  /\ ~stop /\ tasks = << >>
  /\ at' = [at EXCEPT ![w] = "wait"]
  /\ holder' = holder \ {w}
  /\ UNCHANGED <<tasks, stop, job, main, accepted, silent, finished>>

\* Faulty: leaves without looking at the queue.
Quit_AtOnce(w) ==
  /\ at[w] = "check"
  /\ stop
  /\ at' = [at EXCEPT ![w] = "exit"]
  /\ holder' = holder \ {w}
  /\ UNCHANGED <<tasks, stop, job, main, accepted, silent, finished>>

Quit(w) ==
  /\ at[w] = "check"
  /\ stop /\ tasks = << >>
  /\ at' = [at EXCEPT ![w] = "exit"]
  /\ holder' = holder \ {w}
  /\ UNCHANGED <<tasks, stop, job, main, accepted, silent, finished>>

\* Faulty: takes the newest task.
Take_Back(w) ==
  /\ at[w] = "check"
  /\ tasks # << >>
  /\ job' = [job EXCEPT ![w] = tasks[Len(tasks)]]
  /\ tasks' = SubSeq(tasks, 1, Len(tasks) - 1)
  /\ at' = [at EXCEPT ![w] = "run"]
  /\ holder' = holder \ {w}
  /\ UNCHANGED <<stop, main, accepted, silent, finished>>

\* front and pop; the mutex is released before the task runs.
Take(w) ==
  /\ at[w] = "check"
  /\ tasks # << >>
  /\ job' = [job EXCEPT ![w] = Head(tasks)]
  /\ tasks' = Tail(tasks)
  /\ at' = [at EXCEPT ![w] = "run"]
  /\ holder' = holder \ {w}
  /\ UNCHANGED <<stop, main, accepted, silent, finished>>

\* task() returns; what it throws stays in its std::packaged_task.
Finish(w) ==
  /\ at[w] = "run"
  /\ job[w] \notin silent
  /\ finished' = finished \cup {job[w]}
  /\ at' = [at EXCEPT ![w] = "top"]
  /\ UNCHANGED <<tasks, stop, holder, job, main, accepted, silent>>

\* A condition variable may wake a thread for no reason.
WakeSpuriously(w) ==
  /\ at[w] = "wait"
  /\ at' = [at EXCEPT ![w] = "woken"]
  /\ UNCHANGED <<tasks, stop, holder, job, main, accepted, silent, finished>>

-----------------------------------------------------------------------------
(* The main thread *)

\* acceptClient returns and the loop calls enqueue.
Accept ==
  /\ main = "loop"
  /\ accepted < NumJobs
  /\ accepted' = accepted + 1
  /\ main' = "enqueue"
  /\ UNCHANGED <<tasks, stop, holder, at, job, silent, finished>>

\* An exception leaves start(), which destroys the pool.
Leave ==
  /\ main = "loop"
  /\ main' = "destroy"
  /\ UNCHANGED <<tasks, stop, holder, at, job, accepted, silent, finished>>

\* Faulty: enqueue without the std::unique_lock.
LockMain_NotInEnqueue ==
  /\ (main = "enqueue" \/ (main = "destroy" /\ holder = {}))
  /\ holder' = holder \cup {Main}
  /\ main' = IF main = "enqueue" THEN "push" ELSE "stop"
  /\ UNCHANGED <<tasks, stop, at, job, accepted, silent, finished>>

LockMain ==
  /\ main \in {"enqueue", "destroy"}
  /\ holder = {}
  /\ holder' = {Main}
  /\ main' = IF main = "enqueue" THEN "push" ELSE "stop"
  /\ UNCHANGED <<tasks, stop, at, job, accepted, silent, finished>>

\* The pool is not stopped: only the main thread stops it, and not before its
\* last enqueue, so that the exception of enqueue is never thrown.
Push ==
  /\ main = "push"
  /\ tasks' = Append(tasks, accepted)
  /\ holder' = holder \ {Main}
  /\ main' = "notify"
  /\ UNCHANGED <<stop, at, job, accepted, silent, finished>>

Asleep == {w \in Workers : at[w] = "wait"}

\* Faulty: notifies only when the queue was empty.
NotifyOne_First ==
  /\ main = "notify"
  /\ main' = "loop"
  /\ \/ (Asleep = {} \/ Len(tasks) > 1) /\ UNCHANGED at
     \/ Len(tasks) <= 1 /\ \E w \in Asleep : at' = [at EXCEPT ![w] = "woken"]
  /\ UNCHANGED <<tasks, stop, holder, job, accepted, silent, finished>>

NotifyOne ==
  /\ main = "notify"
  /\ main' = "loop"
  /\ \/ Asleep = {} /\ UNCHANGED at
     \/ \E w \in Asleep : at' = [at EXCEPT ![w] = "woken"]
  /\ UNCHANGED <<tasks, stop, holder, job, accepted, silent, finished>>

SetStop ==
  /\ main = "stop"
  /\ stop' = TRUE
  /\ holder' = holder \ {Main}
  /\ main' = "broadcast"
  /\ UNCHANGED <<tasks, at, job, accepted, silent, finished>>

\* Faulty: notify_one.
NotifyAll_One ==
  /\ main = "broadcast"
  /\ main' = "join"
  /\ \/ Asleep = {} /\ UNCHANGED at
     \/ \E w \in Asleep : at' = [at EXCEPT ![w] = "woken"]
  /\ UNCHANGED <<tasks, stop, holder, job, accepted, silent, finished>>

NotifyAll ==
  /\ main = "broadcast"
  /\ main' = "join"
  /\ at' = [w \in Workers |-> IF w \in Asleep THEN "woken" ELSE at[w]]
  /\ UNCHANGED <<tasks, stop, holder, job, accepted, silent, finished>>

\* worker.join() for each worker.
Join ==
  /\ main = "join"
  /\ \A w \in Workers : at[w] = "exit"
  /\ main' = "gone"
  /\ UNCHANGED <<tasks, stop, holder, at, job, accepted, silent, finished>>

-----------------------------------------------------------------------------

WorkerStep(w) == Lock(w) \/ Wait(w) \/ Quit(w) \/ Take(w) \/ Finish(w)
MainStep == LockMain \/ Push \/ NotifyOne \/ SetStop \/ NotifyAll \/ Join

Next ==
  \/ \E w \in Workers : WorkerStep(w) \/ WakeSpuriously(w)
  \/ Accept \/ Leave \/ MainStep

Spec == Init /\ [][Next]_vars

\* The scheduler runs every thread that can run, and threads are not woken for
\* no reason for ever.  Nothing makes a client connect or the main thread fail.
FairSpec ==
  /\ Spec
  /\ WF_vars(MainStep)
  /\ \A w \in Workers : WF_vars(WorkerStep(w))
  /\ <>[][\A w \in Workers : ~WakeSpuriously(w)]_vars

-----------------------------------------------------------------------------

Queued == {tasks[i] : i \in DOMAIN tasks}
Running == {w \in Workers : at[w] = "run"}

\* The jobs 1 .. Pushed have been in the queue, the jobs 1 .. Taken have left it.
Pushed == IF main \in {"enqueue", "push"} THEN accepted - 1 ELSE accepted
Taken == Pushed - Len(tasks)

TypeOK ==
  /\ tasks \in Seq(Jobs)
  /\ stop \in BOOLEAN
  /\ holder \subseteq Workers \cup {Main}
  /\ at \in [Workers -> WorkerPlaces]
  /\ job \in [Workers -> 0 .. NumJobs]
  /\ main \in MainPlaces
  /\ accepted \in 0 .. NumJobs
  /\ silent \subseteq Jobs
  /\ finished \subseteq Jobs

\* queueMutex: whoever looks at the queue or the stop flag is alone, so that no
\* worker falls asleep, leaves or takes a task on an answer that is no longer true.
MutexInv ==
  /\ \A t, u \in holder : t = u
  /\ \A w \in Workers : at[w] = "check" <=> w \in holder
  /\ main \in {"push", "stop"} <=> Main \in holder

\* A worker that has left has left for good reason.
StopInv ==
  /\ stop <=> main \in {"broadcast", "join", "gone"}
  /\ \A w \in Workers : at[w] = "exit" => stop /\ tasks = << >>

\* The queue holds the jobs that were not taken, in order; each job taken is
\* with one worker or finished.
JobsInv ==
  /\ Taken >= 0
  /\ \A i \in DOMAIN tasks : tasks[i] = Taken + i
  /\ \A j \in 1 .. Taken : j \in finished \/ \E w \in Running : job[w] = j
  /\ \A j \in finished : j <= Taken
  /\ \A w \in Running : job[w] \in 1 .. Taken /\ job[w] \notin finished
  /\ \A v, w \in Running : job[v] = job[w] => v = w
  /\ main \in {"enqueue", "push"} => accepted > 0
  /\ main = "gone" => \A w \in Workers : at[w] = "exit"

\* The inductive invariant: each job is served once, in order, and the pool can
\* be destroyed at any moment.
PoolInvariant == TypeOK /\ MutexInv /\ StopInv /\ JobsInv

\* Workers that will look at the queue before they sleep.
Awake == {w \in Workers : at[w] \in {"top", "check", "woken"}}

\* No lost wakeup: while a worker sleeps, there are as many workers on their way
\* to the queue as tasks in it, but for the one the main thread is about to wake.
NoneStranded ==
  Asleep # {} => Len(tasks) <= Cardinality(Awake) + (IF main = "notify" THEN 1 ELSE 0)

\* When the destructor returns every accepted connection has been served.
DrainedAtExit == main = "gone" => finished = 1 .. accepted

\* A connection is served as long as fewer clients stay silent than the pool
\* has workers, stopped or not.
Served ==
  \A j \in Jobs :
    (j \in Queued /\ j \notin silent /\ Cardinality(silent) < Cardinality(Workers))
      ~> (j \in finished)

\* The destructor returns unless some client stays silent: join ends.
DestructorReturns == (main = "destroy" /\ silent = {}) ~> (main = "gone")

Q == INSTANCE WorkQueue WITH
       Limit <- Cardinality(Workers),
       pending <- tasks,
       running <- {job[w] : w \in Running},
       closed <- stop

\* The pool is the work queue it stands for: first in, first out, each job once.
QueueSpec == Q!Spec
=============================================================================
