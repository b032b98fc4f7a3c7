------------------------------- MODULE Server -------------------------------
(***************************************************************************)
(* Connections and file descriptors: the accept loop of main.cpp, and      *)
(* Server::handleRequest as the pool's workers run it, with the database   *)
(* connection that parse.cpp opens for each request.  A worker knows its   *)
(* client only by the number of a descriptor, which the kernel gives out   *)
(* again once it is closed.  What the pool does between enqueue and the    *)
(* call is in ThreadPool, what a request does to the tables in Exchange.   *)
(***************************************************************************)
EXTENDS Integers, Sequences, FiniteSets

CONSTANTS Clients,   \* each connects once
          Workers,   \* the threads of the pool
          Texts,     \* what recv may return
          Reading,   \* parseXML's outcome for each: "ok", "invalid" or "dies"
          Cancelling, \* those with a cancellation among their sub-requests
          Mixes,     \* what the clients' connections may deliver, per client
          Limits,    \* the numbers of descriptors the process may have
          MaxQueue   \* bound: Users in the pool's queue

Outcomes == {"ok", "invalid", "dies"}
Deliveries == Texts \cup {"silent", "hangup"}

ASSUME ServerAssumption ==
  /\ Reading \in [Texts -> Outcomes]
  /\ Cancelling \subseteq {t \in Texts : Reading[t] = "ok"}
  /\ Mixes \subseteq [Clients -> Deliveries]
  /\ Limits \subseteq Nat
  /\ MaxQueue \in Nat
  /\ "free" \notin Clients /\ "database" \notin Clients
  /\ "silent" \notin Texts /\ "hangup" \notin Texts

VARIABLES
  limit,     \* RLIMIT_NOFILE, without the descriptors of the process itself
  sent,      \* what each client's connection will deliver
  outage,    \* may the database go away during a request?
  arrived,   \* clients that have connected
  backlog,   \* connections that wait to be accepted
  open,      \* descriptors: whose connection, "database" or "free"
  queue,     \* the pool's queue: the client_fd of each User
  work,      \* each worker's place in handleRequest, and its locals
  answers,   \* whose answers each client has received
  up         \* the process is alive

vars == <<limit, sent, outage, arrived, backlog, open, queue, work, answers, up>>
given == <<limit, sent, outage>>

NoFd == -1
Fds == 1 .. limit
Idle == [at |-> "idle", fd |-> NoFd, db |-> NoFd, req |-> {}]

Init ==
  /\ limit \in Limits
  /\ sent \in Mixes
  /\ outage \in BOOLEAN
  /\ arrived = {}
  /\ backlog = << >>
  /\ open = [f \in Fds |-> "free"]
  /\ queue = << >>
  /\ work = [w \in Workers |-> Idle]
  /\ answers = [c \in Clients |-> {}]
  /\ up = TRUE

-----------------------------------------------------------------------------

Unused == {f \in Fds : open[f] = "free"}

\* The kernel gives out the lowest number that is not in use.
Lowest(f) == f \in Unused /\ \A g \in Unused : f <= g

Connect(c) ==
  /\ c \notin arrived
  /\ arrived' = arrived \cup {c}
  /\ backlog' = Append(backlog, c)
  /\ UNCHANGED <<given, open, queue, work, answers, up>>

\* acceptClient, new User and enqueue.
Accept ==
  /\ up
  /\ backlog # << >>
  /\ \E f \in Fds :
       /\ Lowest(f)
       /\ open' = [open EXCEPT ![f] = Head(backlog)]
       /\ queue' = Append(queue, f)
  /\ backlog' = Tail(backlog)
  /\ UNCHANGED <<given, arrived, work, answers, up>>

\* No descriptor is left: accept fails at once, and its -1 is enqueued too.
AcceptFails ==
  /\ up
  /\ Unused = {}
  /\ Len(queue) < MaxQueue
  /\ queue' = Append(queue, NoFd)
  /\ UNCHANGED <<given, arrived, backlog, open, work, answers, up>>

-----------------------------------------------------------------------------
(* handleRequest *)

At(w, place) == up /\ work[w].at = place

Take(w) ==
  /\ At(w, "idle")
  /\ queue # << >>
  /\ queue' = Tail(queue)
  /\ work' = [work EXCEPT ![w] = [Idle EXCEPT !.at = "recv", !.fd = Head(queue)]]
  /\ UNCHANGED <<given, arrived, backlog, open, answers, up>>

\* Faulty: the error path frees the descriptor but keeps the User in use.
RecvFails_Closes(w) ==
  /\ At(w, "recv")
  /\ work[w].fd # NoFd => sent[open[work[w].fd]] = "hangup"
  /\ work' = [work EXCEPT ![w] = [work[w] EXCEPT !.at = "close"]]
  /\ open' = IF work[w].fd = NoFd THEN open ELSE [open EXCEPT ![work[w].fd] = "free"]
  /\ UNCHANGED <<given, arrived, backlog, queue, answers, up>>

\* Faulty: waits for a client that has hung up.
RecvFails_Retries(w) ==
  /\ At(w, "recv")
  /\ work[w].fd = NoFd
  /\ work' = [work EXCEPT ![w] = Idle]
  /\ UNCHANGED <<given, arrived, backlog, open, queue, answers, up>>

\* recv returns 0 or -1: handleRequest returns and leaves the descriptor open.
RecvFails(w) ==
  /\ At(w, "recv")
  /\ work[w].fd # NoFd => sent[open[work[w].fd]] = "hangup"
  /\ work' = [work EXCEPT ![w] = Idle]
  /\ UNCHANGED <<given, arrived, backlog, open, queue, answers, up>>

\* One recv, whatever part of the request has come.
Recv(w) ==
  /\ At(w, "recv")
  /\ work[w].fd # NoFd
  /\ sent[open[work[w].fd]] \in Texts
  /\ work' = [work EXCEPT ![w] = [work[w] EXCEPT !.at = "parse", !.req = {open[work[w].fd]}]]
  /\ UNCHANGED <<given, arrived, backlog, open, queue, answers, up>>

Read(w) == CHOOSE t \in {Reading[sent[c]] : c \in work[w].req} : TRUE

\* MyException: handleRequest returns without closing the descriptor.
Refuse(w) ==
  /\ At(w, "parse")
  /\ Read(w) = "invalid"
  /\ work' = [work EXCEPT ![w] = Idle]
  /\ UNCHANGED <<given, arrived, backlog, open, queue, answers, up>>

\* connect_db, for which the connection's socket needs a descriptor.
ConnectDb(w) ==
  /\ At(w, "parse")
  /\ Read(w) = "ok"
  /\ \E f \in Fds :
       /\ Lowest(f)
       /\ open' = [open EXCEPT ![f] = "database"]
       /\ work' = [work EXCEPT ![w] = [work[w] EXCEPT !.at = "execute", !.db = f]]
  /\ UNCHANGED <<given, arrived, backlog, queue, answers, up>>

\* A null pointer is read: the root element or an attribute that is missing, or
\* the connection when connect_db has failed, for want of a descriptor or of the
\* database.
Die(w) ==
  /\ At(w, "parse")
  /\ Read(w) = "dies" \/ (Read(w) = "ok" /\ (Unused = {} \/ outage))
  /\ up' = FALSE
  /\ UNCHANGED <<given, arrived, backlog, open, queue, work, answers>>

\* Faulty: close(client_fd) before the answer is sent.
Execute_Closes(w) ==
  /\ At(w, "execute")
  /\ open' = [open EXCEPT ![work[w].db] = "free", ![work[w].fd] = "free"]
  /\ work' = [work EXCEPT ![w] = [work[w] EXCEPT !.at = "send", !.db = NoFd]]
  /\ UNCHANGED <<given, arrived, backlog, queue, answers, up>>

\* Faulty: without disconnect_db.
Execute_KeepsDb(w) ==
  /\ At(w, "execute")
  /\ work' = [work EXCEPT ![w] = [work[w] EXCEPT !.at = "send", !.db = NoFd]]
  /\ UNCHANGED <<given, arrived, backlog, open, queue, answers, up>>

\* Request::execute, convertResToStr and disconnect_db.
Execute(w) ==
  /\ At(w, "execute")
  /\ open' = [open EXCEPT ![work[w].db] = "free"]
  /\ work' = [work EXCEPT ![w] = [work[w] EXCEPT !.at = "send", !.db = NoFd]]
  /\ UNCHANGED <<given, arrived, backlog, queue, answers, up>>

\* CancelOrder opens its transaction outside of the try block and aborts it in the
\* handler: when the database goes away after the checks have passed, the exception
\* reaches the pool's task. The client's descriptor and the connection's stay open.
Throw(w) ==
  /\ At(w, "execute")
  /\ outage
  /\ \E c \in work[w].req : sent[c] \in Cancelling
  /\ work' = [work EXCEPT ![w] = Idle]
  /\ UNCHANGED <<given, arrived, backlog, open, queue, answers, up>>

\* send goes to whoever has the descriptor now.
Send(w) ==
  /\ At(w, "send")
  /\ answers' = [c \in Clients |-> IF open[work[w].fd] = c THEN answers[c] \cup work[w].req
                                                          ELSE answers[c]]
  /\ work' = [work EXCEPT ![w] = [work[w] EXCEPT !.at = "close"]]
  /\ UNCHANGED <<given, arrived, backlog, open, queue, up>>

Close(w) ==
  /\ At(w, "close")
  /\ open' = [open EXCEPT ![work[w].fd] = "free"]
  /\ work' = [work EXCEPT ![w] = Idle]
  /\ UNCHANGED <<given, arrived, backlog, queue, answers, up>>

-----------------------------------------------------------------------------

MainStep == Accept \/ AcceptFails

WorkerStep(w) ==
  \/ Take(w) \/ RecvFails(w) \/ Recv(w) \/ Refuse(w) \/ ConnectDb(w) \/ Die(w)
  \/ Execute(w) \/ Throw(w) \/ Send(w) \/ Close(w)

Next == (\E c \in Clients : Connect(c)) \/ MainStep \/ (\E w \in Workers : WorkerStep(w))

Spec == Init /\ [][Next]_vars

\* The threads of a live process run; nothing makes a client connect.
FairSpec == Spec /\ WF_vars(MainStep) /\ \A w \in Workers : WF_vars(WorkerStep(w))

-----------------------------------------------------------------------------

Places == {"idle", "recv", "parse", "execute", "send", "close"}
Served == {"parse", "execute", "send", "close"}

TypeOK ==
  /\ limit \in Limits
  /\ sent \in [Clients -> Deliveries]
  /\ outage \in BOOLEAN
  /\ arrived \subseteq Clients
  /\ backlog \in Seq(Clients)
  /\ open \in [Fds -> Clients \cup {"free", "database"}]
  /\ queue \in Seq(Fds \cup {NoFd})
  /\ work \in [Workers -> [at : Places, fd : Fds \cup {NoFd}, db : Fds \cup {NoFd},
                           req : SUBSET Clients]]
  /\ answers \in [Clients -> SUBSET Clients]
  /\ up \in BOOLEAN

\* A descriptor in the queue is a client's, and nobody else has it.
QueueOwns ==
  \A i \in DOMAIN queue : queue[i] # NoFd =>
    /\ open[queue[i]] \in Clients
    /\ \A j \in DOMAIN queue : queue[j] = queue[i] => j = i
    /\ \A w \in Workers : work[w].at # "idle" => work[w].fd # queue[i]

\* A worker has its client's descriptor, and the database's, to itself.
WorkerOwns ==
  \A w \in Workers :
    /\ work[w].at # "idle" /\ work[w].fd # NoFd =>
         /\ open[work[w].fd] \in Clients
         /\ \A v \in Workers \ {w} : work[v].at # "idle" => work[v].fd # work[w].fd
    /\ work[w].at \in Served => /\ work[w].fd # NoFd
                                /\ work[w].req = {open[work[w].fd]}
    /\ work[w].at = "execute" =>
         /\ work[w].db # NoFd
         /\ open[work[w].db] = "database"
         /\ \A v \in Workers \ {w} : work[v].at = "execute" => work[v].db # work[w].db

\* No worker closes, reads or writes a descriptor that has passed on to another
\* client or to a database connection.
DescriptorInvariant == TypeOK /\ QueueOwns /\ WorkerOwns

\* Numbers of descriptors are used again while workers still hold some: every
\* answer reaches the client whose request it answers.
OwnAnswer == \A c \in Clients : answers[c] \subseteq {c}

InQueue(f) == \E i \in DOMAIN queue : queue[i] = f
InUse(f) == \E w \in Workers : /\ work[w].at # "idle"
                               /\ f = work[w].fd \/ (work[w].at = "execute" /\ f = work[w].db)
Failed(c) == sent[c] = "hangup" \/ (sent[c] \in Texts /\ Reading[sent[c]] = "invalid")

\* Open, although nobody will ever read, write or close it again.
Left(f) == open[f] # "free" /\ ~InQueue(f) /\ ~InUse(f)

LeftToDatabase == {f \in Fds : Left(f) /\ open[f] = "database"}
LeftByCancel == {f \in Fds : Left(f) /\ open[f] \in Clients /\ sent[open[f]] \in Cancelling}

\* Only two kinds of request cost descriptors: one that failed costs its client's,
\* and a cancellation that the database deserted costs its client's and just one
\* connection to the database. All others give everything back.
Accounted ==
  /\ \A f \in Fds : Left(f) =>
       \/ open[f] = "database"
       \/ Failed(open[f])
       \/ outage /\ sent[open[f]] \in Cancelling
  /\ Cardinality(LeftToDatabase) = Cardinality(LeftByCancel)

Sound == \A c \in Clients : sent[c] \in Texts => Reading[sent[c]] # "dies"
Enough == limit >= Cardinality(Clients) + Cardinality(Workers)

\* Requests are answered while fewer clients stay silent than there are workers,
\* although hangups and invalid requests cost a descriptor each.
Answered ==
  \A c \in Clients :
    (/\ c \in arrived /\ sent[c] \in Texts /\ Reading[sent[c]] = "ok"
     /\ Sound /\ Enough /\ ~outage
     /\ Cardinality({s \in Clients : sent[s] = "silent"}) < Cardinality(Workers))
      ~> (answers[c] = {c})
=============================================================================
