---------------------------- MODULE ServerProofs ----------------------------
(***************************************************************************)
(* Workers keep their descriptors to themselves, for any number of         *)
(* clients, workers and descriptors, so that answers reach their clients.  *)
(***************************************************************************)
EXTENDS Server, FiniteSetTheorems, TLAPS

Slot == [at : Places, fd : Fds \cup {NoFd}, db : Fds \cup {NoFd}, req : SUBSET Clients]

LEMMA FdFacts == NoFd \notin Fds /\ \A f \in Fds : f \in Int
  BY DEF NoFd, Fds

\* The steps that only move a worker, seen from the worker.
LEMMA Moved ==
  ASSUME TypeOK, NEW w \in Workers, NEW slot, work' = [work EXCEPT ![w] = slot]
  PROVE  /\ work'[w] = slot
         /\ \A v \in Workers \ {w} : work'[v] = work[v]
         /\ slot \in Slot => work' \in [Workers -> Slot]
  BY DEF TypeOK, Slot

LEMMA IdleSlot == TypeOK => Idle \in Slot
  BY DEF Idle, Slot, Places

\* A worker that gives up its request.
LEMMA ReleaseStep ==
  ASSUME DescriptorInvariant, NEW w \in Workers,
         work' = [work EXCEPT ![w] = Idle],
         UNCHANGED <<given, arrived, backlog, open, queue, answers, up>>
  PROVE  DescriptorInvariant'
  <1>1. TypeOK /\ QueueOwns /\ WorkerOwns
    BY DEF DescriptorInvariant
  <1>2. /\ work'[w] = Idle /\ \A v \in Workers \ {w} : work'[v] = work[v]
        /\ work' \in [Workers -> Slot]
    BY <1>1, Moved, IdleSlot
  <1>3. Idle.at = "idle"
    BY DEF Idle
  <1>4. TypeOK'
    BY <1>1, <1>2 DEF TypeOK, given, Fds, Slot
  <1>5. QueueOwns'
    BY <1>1, <1>2, <1>3 DEF QueueOwns
  <1>6. WorkerOwns'
    BY <1>1, <1>2, <1>3 DEF WorkerOwns, Served
  <1> QED BY <1>4, <1>5, <1>6 DEF DescriptorInvariant

\* A worker that goes on to another place of handleRequest with its descriptor.
LEMMA AdvanceStep ==
  ASSUME DescriptorInvariant, NEW w \in Workers, NEW place \in {"parse", "close"},
         NEW req \in SUBSET Clients,
         work[w].at # "idle", work[w].fd # NoFd, req = {open[work[w].fd]},
         work' = [work EXCEPT ![w] = [work[w] EXCEPT !.at = place, !.req = req]],
         answers' \in [Clients -> SUBSET Clients],
         UNCHANGED <<given, arrived, backlog, open, queue, up>>
  PROVE  DescriptorInvariant'
  <1> DEFINE new == [work[w] EXCEPT !.at = place, !.req = req]
  <1>1. TypeOK /\ QueueOwns /\ WorkerOwns
    BY DEF DescriptorInvariant
  <1>2. /\ new.at = place /\ new.fd = work[w].fd /\ new.req = req /\ new \in Slot
        /\ place # "idle" /\ place # "execute"
    BY <1>1 DEF TypeOK, Slot, Places
  <1> HIDE DEF new
  <1>3. /\ work'[w] = new /\ \A v \in Workers \ {w} : work'[v] = work[v]
        /\ work' \in [Workers -> Slot]
    BY <1>1, <1>2, Moved DEF new
  <1>4. TypeOK'
    BY <1>1, <1>3 DEF TypeOK, given, Fds, Slot
  <1>5. QueueOwns'
    BY <1>1, <1>2, <1>3 DEF QueueOwns
  <1>6. WorkerOwns'
    BY <1>1, <1>2, <1>3 DEF WorkerOwns
  <1> QED BY <1>4, <1>5, <1>6 DEF DescriptorInvariant

LEMMA InitDescriptors == Init => DescriptorInvariant
  <1> SUFFICES ASSUME Init PROVE DescriptorInvariant
    OBVIOUS
  <1>1. TypeOK
    BY ServerAssumption DEF Init, TypeOK, Idle, Places
  <1>2. QueueOwns
    BY DEF Init, QueueOwns
  <1>3. WorkerOwns
    BY DEF Init, WorkerOwns, Idle, Served
  <1> QED BY <1>1, <1>2, <1>3 DEF DescriptorInvariant

LEMMA ConnectDescriptors ==
  ASSUME DescriptorInvariant, NEW c \in Clients, Connect(c)
  PROVE  DescriptorInvariant'
  <1>1. TypeOK /\ QueueOwns /\ WorkerOwns
    BY DEF DescriptorInvariant
  <1>2. arrived' \subseteq Clients /\ backlog' \in Seq(Clients)
    BY <1>1 DEF Connect, TypeOK
  <1>3. UNCHANGED <<limit, sent, outage, open, queue, work, answers, up>>
    BY DEF Connect, given
  <1>4. TypeOK'
    BY <1>1, <1>2, <1>3 DEF TypeOK, Fds
  <1>5. QueueOwns' /\ WorkerOwns'
    BY <1>1, <1>3 DEF QueueOwns, WorkerOwns
  <1> QED BY <1>4, <1>5 DEF DescriptorInvariant

\* A number that is free is with nobody.
LEMMA Fresh ==
  ASSUME DescriptorInvariant, NEW f \in Fds, Lowest(f)
  PROVE  /\ \A i \in DOMAIN queue : queue[i] # f
         /\ \A w \in Workers : work[w].at # "idle" => work[w].fd # f
         /\ \A w \in Workers : work[w].at = "execute" => work[w].db # f
  BY FdFacts, ServerAssumption DEF DescriptorInvariant, QueueOwns, WorkerOwns, Lowest, Unused

\* The new descriptor is one that nobody has: those in the queue and with the
\* workers are in use.
LEMMA AcceptDescriptors == DescriptorInvariant /\ Accept => DescriptorInvariant'
  <1> SUFFICES ASSUME DescriptorInvariant, Accept PROVE DescriptorInvariant'
    OBVIOUS
  <1>1. TypeOK /\ QueueOwns /\ WorkerOwns
    BY DEF DescriptorInvariant
  <1>2. PICK f \in Fds : /\ Lowest(f)
                         /\ open' = [open EXCEPT ![f] = Head(backlog)]
                         /\ queue' = Append(queue, f)
    BY DEF Accept
  <1>3. /\ UNCHANGED <<limit, sent, outage, arrived, work, answers, up>>
        /\ backlog # << >> /\ backlog' = Tail(backlog)
    BY DEF Accept, given
  <1>5. Head(backlog) \in Clients /\ Tail(backlog) \in Seq(Clients)
    BY <1>1, <1>3 DEF TypeOK
  <1>6. /\ open'[f] \in Clients /\ \A g \in Fds \ {f} : open'[g] = open[g]
        /\ open' \in [Fds -> Clients \cup {"free", "database"}]
    BY <1>1, <1>2, <1>5 DEF TypeOK
  <1>7. /\ queue \in Seq(Fds \cup {NoFd}) /\ queue' \in Seq(Fds \cup {NoFd})
        /\ DOMAIN queue' = DOMAIN queue \cup {Len(queue) + 1}
        /\ queue'[Len(queue) + 1] = f /\ \A i \in DOMAIN queue : queue'[i] = queue[i]
    BY <1>1, <1>2 DEF TypeOK
  <1>8. TypeOK'
    BY <1>1, <1>3, <1>5, <1>6, <1>7 DEF TypeOK, Fds
  <1>9. \A i \in DOMAIN queue : queue[i] # f
    BY <1>2, Fresh
  <1>10. /\ \A w \in Workers : work[w].at # "idle" => work[w].fd # f
         /\ \A w \in Workers : work[w].at = "execute" => work[w].db # f
    BY <1>2, Fresh
  <1>11. QueueOwns'
    <2>1. \A i \in DOMAIN queue : queue[i] \in Fds \cup {NoFd}
      BY <1>7
    <2>2. \A i \in DOMAIN queue' : queue'[i] # NoFd => open'[queue'[i]] \in Clients
      BY <1>1, <1>6, <1>7, <1>9, <2>1 DEF QueueOwns
    <2>3. \A i, j \in DOMAIN queue' : queue'[i] # NoFd /\ queue'[j] = queue'[i] => j = i
      BY <1>1, <1>7, <1>9 DEF QueueOwns
    <2>4. \A i \in DOMAIN queue' : \A w \in Workers :
            queue'[i] # NoFd /\ work'[w].at # "idle" => work'[w].fd # queue'[i]
      BY <1>1, <1>3, <1>7, <1>10 DEF QueueOwns
    <2> QED BY <2>2, <2>3, <2>4 DEF QueueOwns
  <1>12. WorkerOwns'
    <2>1. \A w \in Workers : work[w].fd \in Fds \cup {NoFd} /\ work[w].db \in Fds \cup {NoFd}
      BY <1>1 DEF TypeOK
    <2>2. \A w \in Workers : work[w].at # "idle" /\ work[w].fd # NoFd =>
                               open'[work[w].fd] = open[work[w].fd]
      BY <1>6, <1>10, <2>1
    <2>3. \A w \in Workers : work[w].at = "execute" /\ work[w].db # NoFd =>
                               open'[work[w].db] = open[work[w].db]
      BY <1>6, <1>10, <2>1
    <2> QED BY <1>1, <1>3, <2>2, <2>3 DEF WorkerOwns, Served
  <1> QED BY <1>8, <1>11, <1>12 DEF DescriptorInvariant

LEMMA AcceptFailsDescriptors == DescriptorInvariant /\ AcceptFails => DescriptorInvariant'
  <1> SUFFICES ASSUME DescriptorInvariant, AcceptFails PROVE DescriptorInvariant'
    OBVIOUS
  <1>1. TypeOK /\ QueueOwns /\ WorkerOwns
    BY DEF DescriptorInvariant
  <1>2. /\ UNCHANGED <<limit, sent, outage, arrived, backlog, open, work, answers, up>>
        /\ queue' = Append(queue, NoFd)
    BY DEF AcceptFails, given
  <1>3. /\ queue' \in Seq(Fds \cup {NoFd})
        /\ DOMAIN queue' = DOMAIN queue \cup {Len(queue) + 1}
        /\ queue'[Len(queue) + 1] = NoFd /\ \A i \in DOMAIN queue : queue'[i] = queue[i]
    BY <1>1, <1>2 DEF TypeOK
  <1>4. TypeOK'
    BY <1>1, <1>2, <1>3 DEF TypeOK, Fds
  <1>5. QueueOwns'
    BY <1>1, <1>2, <1>3 DEF QueueOwns
  <1>6. WorkerOwns'
    BY <1>1, <1>2 DEF WorkerOwns
  <1> QED BY <1>4, <1>5, <1>6 DEF DescriptorInvariant

\* The descriptor passes from the queue, where it was once, to the worker.
LEMMA TakeDescriptors ==
  ASSUME DescriptorInvariant, NEW w \in Workers, Take(w)
  PROVE  DescriptorInvariant'
  <1> DEFINE new == [Idle EXCEPT !.at = "recv", !.fd = Head(queue)]
  <1>1. TypeOK /\ QueueOwns /\ WorkerOwns
    BY DEF DescriptorInvariant
  <1>2. /\ UNCHANGED <<limit, sent, outage, arrived, backlog, open, answers, up>>
        /\ queue # << >> /\ queue' = Tail(queue)
        /\ work' = [work EXCEPT ![w] = new]
    BY DEF Take, given
  <1>3. queue \in Seq(Fds \cup {NoFd})
    BY <1>1 DEF TypeOK
  <1>4. /\ Head(queue) = queue[1] /\ 1 \in DOMAIN queue /\ queue[1] \in Fds \cup {NoFd}
        /\ queue' \in Seq(Fds \cup {NoFd})
        /\ \A i \in DOMAIN queue' : i + 1 \in DOMAIN queue /\ queue'[i] = queue[i + 1] /\ i >= 1
                                     /\ i \in Int
    BY <1>2, <1>3
  <1>5. new.at = "recv" /\ new.fd = queue[1] /\ new \in Slot
    BY <1>4 DEF Idle, Slot, Places
  <1> HIDE DEF new
  <1>6. /\ work'[w] = new /\ \A v \in Workers \ {w} : work'[v] = work[v]
        /\ work' \in [Workers -> Slot]
    BY <1>1, <1>2, <1>5, Moved
  <1>7. TypeOK'
    BY <1>1, <1>2, <1>4, <1>6 DEF TypeOK, Fds, Slot
  <1>8. QueueOwns'
    <2>1. \A i \in DOMAIN queue' : queue'[i] # NoFd => open'[queue'[i]] \in Clients
      BY <1>1, <1>2, <1>4 DEF QueueOwns
    <2>2. \A i, j \in DOMAIN queue' : queue'[i] # NoFd /\ queue'[j] = queue'[i] => j = i
      <3>1. \A i, j \in DOMAIN queue' : queue'[i] # NoFd /\ queue'[j] = queue'[i] => j + 1 = i + 1
        BY <1>1, <1>4 DEF QueueOwns
      <3> QED BY <1>4, <3>1
    <2>3. \A i \in DOMAIN queue' : queue'[i] # NoFd => queue'[i] # queue[1]
      <3>1. \A i \in DOMAIN queue' : queue'[i] # NoFd /\ queue'[i] = queue[1] => i + 1 = 1
        BY <1>1, <1>4 DEF QueueOwns
      <3> QED BY <1>4, <3>1
    <2>4. \A i \in DOMAIN queue' : \A v \in Workers \ {w} :
            queue'[i] # NoFd /\ work[v].at # "idle" => work[v].fd # queue'[i]
      BY <1>1, <1>4 DEF QueueOwns
    <2> QED BY <1>5, <1>6, <2>1, <2>2, <2>3, <2>4 DEF QueueOwns
  <1>9. WorkerOwns'
    <2>1. queue[1] # NoFd =>
            /\ open[queue[1]] \in Clients
            /\ \A v \in Workers \ {w} : work[v].at # "idle" => work[v].fd # queue[1]
      BY <1>1, <1>4 DEF QueueOwns
    <2>2. "recv" \notin Served
      BY DEF Served
    <2> QED BY <1>1, <1>2, <1>5, <1>6, <2>1, <2>2 DEF WorkerOwns
  <1> QED BY <1>7, <1>8, <1>9 DEF DescriptorInvariant

LEMMA ConnectDbDescriptors ==
  ASSUME DescriptorInvariant, NEW w \in Workers, ConnectDb(w)
  PROVE  DescriptorInvariant'
  <1>1. TypeOK /\ QueueOwns /\ WorkerOwns /\ work[w].at = "parse"
    BY DEF DescriptorInvariant, ConnectDb, At
  <1>2. PICK f \in Fds :
          /\ Lowest(f)
          /\ open' = [open EXCEPT ![f] = "database"]
          /\ work' = [work EXCEPT ![w] = [work[w] EXCEPT !.at = "execute", !.db = f]]
    BY DEF ConnectDb
  <1>3. UNCHANGED <<limit, sent, outage, arrived, backlog, queue, answers, up>>
    BY DEF ConnectDb, given
  <1>4. /\ \A i \in DOMAIN queue : queue[i] # f
        /\ \A v \in Workers : work[v].at # "idle" => work[v].fd # f
        /\ \A v \in Workers : work[v].at = "execute" => work[v].db # f
    BY <1>2, Fresh
  <1> DEFINE new == [work[w] EXCEPT !.at = "execute", !.db = f]
  <1>5. /\ new.at = "execute" /\ new.fd = work[w].fd /\ new.db = f /\ new.req = work[w].req
        /\ new \in Slot
    BY <1>1 DEF TypeOK, Slot, Places
  <1> HIDE DEF new
  <1>6. /\ work'[w] = new /\ \A v \in Workers \ {w} : work'[v] = work[v]
        /\ work' \in [Workers -> Slot]
    BY <1>1, <1>2, <1>5, Moved DEF new
  <1>7. /\ open'[f] = "database" /\ \A g \in Fds \ {f} : open'[g] = open[g]
        /\ open' \in [Fds -> Clients \cup {"free", "database"}]
    BY <1>1, <1>2 DEF TypeOK
  <1>8. TypeOK'
    BY <1>1, <1>3, <1>6, <1>7 DEF TypeOK, Fds, Slot
  <1>9. /\ \A i \in DOMAIN queue : queue[i] \in Fds \cup {NoFd}
        /\ \A v \in Workers : work[v].fd \in Fds \cup {NoFd} /\ work[v].db \in Fds \cup {NoFd}
    BY <1>1 DEF TypeOK
  <1>10. QueueOwns'
    BY <1>1, <1>3, <1>4, <1>5, <1>6, <1>7, <1>9 DEF QueueOwns
  <1>11. WorkerOwns'
    <2>1. work[w].fd # NoFd /\ work[w].req = {open[work[w].fd]}
      BY <1>1 DEF WorkerOwns, Served
    <2>2. \A v \in Workers : work[v].at # "idle" /\ work[v].fd # NoFd =>
                              open'[work[v].fd] = open[work[v].fd]
      BY <1>4, <1>7, <1>9
    <2>3. \A v \in Workers : work[v].at = "execute" /\ work[v].db # NoFd =>
                              open'[work[v].db] = open[work[v].db]
      BY <1>4, <1>7, <1>9
    <2>4. \A v \in Workers \ {w} :
            work[v].at # "idle" => work[v].fd # work[w].fd
      BY <1>1, <2>1 DEF WorkerOwns
    <2>5. f # NoFd
      BY FdFacts
    <2>6. \A u \in Workers : work'[u].at # "idle" /\ work'[u].fd # NoFd =>
            /\ open'[work'[u].fd] \in Clients
            /\ \A v \in Workers \ {u} : work'[v].at # "idle" => work'[v].fd # work'[u].fd
      BY <1>1, <1>5, <1>6, <2>1, <2>2, <2>4 DEF WorkerOwns
    <2>7. \A u \in Workers : work'[u].at \in Served =>
            work'[u].fd # NoFd /\ work'[u].req = {open'[work'[u].fd]}
      BY <1>1, <1>5, <1>6, <2>1, <2>2 DEF WorkerOwns, Served
    <2>8. \A u \in Workers : work'[u].at = "execute" =>
            /\ work'[u].db # NoFd
            /\ open'[work'[u].db] = "database"
            /\ \A v \in Workers \ {u} : work'[v].at = "execute" => work'[v].db # work'[u].db
      BY <1>1, <1>4, <1>5, <1>6, <1>7, <2>3, <2>5 DEF WorkerOwns
    <2> QED BY <2>6, <2>7, <2>8 DEF WorkerOwns
  <1> QED BY <1>8, <1>10, <1>11 DEF DescriptorInvariant

\* A worker gives back a descriptor that is its own.
LEMMA FreeStep ==
  ASSUME DescriptorInvariant, NEW w \in Workers, NEW f \in Fds, NEW new \in Slot,
         \/ /\ work[w].at = "close" /\ f = work[w].fd /\ new.at = "idle"
         \/ /\ work[w].at = "execute" /\ f = work[w].db /\ new.at = "send"
            /\ new.fd = work[w].fd /\ new.req = work[w].req,
         open' = [open EXCEPT ![f] = "free"],
         work' = [work EXCEPT ![w] = new],
         UNCHANGED <<given, arrived, backlog, queue, answers, up>>
  PROVE  DescriptorInvariant'
  <1>1. TypeOK /\ QueueOwns /\ WorkerOwns
        /\ UNCHANGED <<limit, sent, outage, arrived, backlog, queue, answers, up>>
    BY DEF DescriptorInvariant, given
  <1>2. /\ work'[w] = new /\ \A v \in Workers \ {w} : work'[v] = work[v]
        /\ work' \in [Workers -> Slot]
    BY <1>1, Moved
  <1>3. /\ open'[f] = "free" /\ \A g \in Fds \ {f} : open'[g] = open[g]
        /\ open' \in [Fds -> Clients \cup {"free", "database"}]
    BY <1>1 DEF TypeOK
  <1>4. /\ \A i \in DOMAIN queue : queue[i] \in Fds \cup {NoFd}
        /\ \A v \in Workers : work[v].fd \in Fds \cup {NoFd} /\ work[v].db \in Fds \cup {NoFd}
    BY <1>1 DEF TypeOK
  <1>5. TypeOK'
    BY <1>1, <1>2, <1>3 DEF TypeOK, Fds, Slot
  <1>6. f # NoFd
    BY FdFacts
  <1>7. CASE work[w].at = "close" /\ f = work[w].fd /\ new.at = "idle"
    <2>1. \A i \in DOMAIN queue : queue[i] # f
      BY <1>1, <1>6, <1>7 DEF QueueOwns
    <2>2. \A v \in Workers \ {w} : work[v].at # "idle" => work[v].fd # f
      BY <1>1, <1>6, <1>7 DEF WorkerOwns
    <2>3. open[f] \in Clients
      BY <1>1, <1>6, <1>7 DEF WorkerOwns
    <2>4. \A v \in Workers : work[v].at = "execute" => work[v].db # f
      BY <1>1, <2>3, ServerAssumption DEF WorkerOwns
    <2>5. QueueOwns'
      BY <1>1, <1>2, <1>3, <1>4, <1>7, <2>1 DEF QueueOwns
    <2>6. WorkerOwns'
      <3>1. "idle" \notin Served
        BY DEF Served
      <3>2. \A v \in Workers \ {w} : work[v].at # "idle" /\ work[v].fd # NoFd =>
                                      open'[work[v].fd] = open[work[v].fd]
        BY <1>3, <1>4, <2>2
      <3>3. \A v \in Workers \ {w} : work[v].at = "execute" /\ work[v].db # NoFd =>
                                      open'[work[v].db] = open[work[v].db]
        BY <1>3, <1>4, <2>4
      <3> QED BY <1>1, <1>2, <1>7, <3>1, <3>2, <3>3 DEF WorkerOwns, Served
    <2> QED BY <1>5, <2>5, <2>6 DEF DescriptorInvariant
  <1>8. CASE /\ work[w].at = "execute" /\ f = work[w].db /\ new.at = "send"
             /\ new.fd = work[w].fd /\ new.req = work[w].req
    <2>1. open[f] = "database"
      BY <1>1, <1>8 DEF WorkerOwns
    <2>2. \A i \in DOMAIN queue : queue[i] # f
      BY <1>1, <1>6, <2>1, ServerAssumption DEF QueueOwns
    <2>3. \A v \in Workers : work[v].at # "idle" => work[v].fd # f
      BY <1>1, <1>6, <2>1, ServerAssumption DEF WorkerOwns
    <2>4. \A v \in Workers \ {w} : work[v].at = "execute" => work[v].db # f
      BY <1>1, <1>8 DEF WorkerOwns
    <2>5. QueueOwns'
      BY <1>1, <1>2, <1>3, <1>4, <1>8, <2>2 DEF QueueOwns
    <2>6. WorkerOwns'
      <3>1. work[w].fd # NoFd /\ work[w].req = {open[work[w].fd]}
        BY <1>1, <1>8 DEF WorkerOwns, Served
      <3>2. \A v \in Workers : work[v].at # "idle" /\ work[v].fd # NoFd =>
                                open'[work[v].fd] = open[work[v].fd]
        BY <1>3, <1>4, <2>3
      <3>3. \A v \in Workers \ {w} : work[v].at = "execute" /\ work[v].db # NoFd =>
                                      open'[work[v].db] = open[work[v].db]
        BY <1>3, <1>4, <2>4
      <3>4. \A v \in Workers \ {w} : work[v].at # "idle" => work[v].fd # work[w].fd
        BY <1>1, <1>8, <3>1 DEF WorkerOwns
      <3> QED BY <1>1, <1>2, <1>8, <3>1, <3>2, <3>3, <3>4 DEF WorkerOwns, Served
    <2> QED BY <1>5, <2>5, <2>6 DEF DescriptorInvariant
  <1> QED BY <1>7, <1>8

LEMMA WorkerDescriptors ==
  ASSUME DescriptorInvariant, NEW w \in Workers, WorkerStep(w)
  PROVE  DescriptorInvariant'
  <1>1. TypeOK /\ QueueOwns /\ WorkerOwns
    BY DEF DescriptorInvariant
  <1>2. work[w] \in Slot
    BY <1>1 DEF TypeOK, Slot
  <1>3. CASE Take(w)
    BY <1>3, TakeDescriptors
  <1>4. CASE RecvFails(w) \/ Refuse(w) \/ Throw(w)
    BY <1>4, ReleaseStep DEF RecvFails, Refuse, Throw
  <1>5. CASE Recv(w)
    <2>1. work[w].at # "idle" /\ work[w].fd # NoFd
      BY <1>5 DEF Recv, At
    <2>2. {open[work[w].fd]} \in SUBSET Clients
      BY <1>1, <2>1 DEF WorkerOwns
    <2>3. answers' \in [Clients -> SUBSET Clients]
      BY <1>1, <1>5 DEF Recv, TypeOK
    <2> QED BY <1>5, <2>1, <2>2, <2>3, AdvanceStep DEF Recv
  <1>6. CASE ConnectDb(w)
    BY <1>6, ConnectDbDescriptors
  <1>7. CASE Die(w)
    <2>1. UNCHANGED <<limit, sent, outage, arrived, backlog, open, queue, work, answers>> /\ up' = FALSE
      BY <1>7 DEF Die, given
    <2>2. TypeOK' /\ QueueOwns' /\ WorkerOwns'
      BY <1>1, <2>1 DEF TypeOK, QueueOwns, WorkerOwns, Fds
    <2> QED BY <2>2 DEF DescriptorInvariant
  <1>8. CASE Execute(w)
    <2> DEFINE f == work[w].db
               new == [work[w] EXCEPT !.at = "send", !.db = NoFd]
    <2>1. work[w].at = "execute" /\ f # NoFd
      BY <1>1, <1>8 DEF Execute, At, WorkerOwns
    <2>2. f \in Fds /\ new \in Slot
      BY <1>2, <2>1 DEF Slot, Places
    <2>3. new.at = "send" /\ new.fd = work[w].fd /\ new.req = work[w].req
      BY <1>2 DEF Slot
    <2>4. /\ open' = [open EXCEPT ![f] = "free"] /\ work' = [work EXCEPT ![w] = new]
          /\ UNCHANGED <<given, arrived, backlog, queue, answers, up>>
      BY <1>8 DEF Execute
    <2> HIDE DEF f, new
    <2>5. f = work[w].db
      BY DEF f
    <2> QED BY <2>1, <2>2, <2>3, <2>4, <2>5, FreeStep
  <1>9. CASE Send(w)
    <2>1. work[w].at = "send"
      BY <1>9 DEF Send, At
    <2>2. work[w].fd # NoFd /\ work[w].req = {open[work[w].fd]} /\ work[w].req \in SUBSET Clients
      BY <1>1, <1>2, <2>1 DEF WorkerOwns, Served, Slot
    <2>3. answers' \in [Clients -> SUBSET Clients]
      BY <1>1, <1>9, <2>2 DEF Send, TypeOK
    <2>4. [work[w] EXCEPT !.at = "close"] = [work[w] EXCEPT !.at = "close", !.req = work[w].req]
      BY <1>2 DEF Slot
    <2> QED BY <1>9, <2>1, <2>2, <2>3, <2>4, AdvanceStep DEF Send
  <1>10. CASE Close(w)
    <2>1. work[w].at = "close"
      BY <1>10 DEF Close, At
    <2>2. work[w].fd \in Fds
      BY <1>1, <1>2, <2>1 DEF WorkerOwns, Served, Slot
    <2>3. Idle \in Slot /\ Idle.at = "idle"
      BY <1>1, IdleSlot DEF Idle
    <2> QED BY <1>10, <2>1, <2>2, <2>3, FreeStep DEF Close
  <1> QED BY <1>3, <1>4, <1>5, <1>6, <1>7, <1>8, <1>9, <1>10 DEF WorkerStep

LEMMA NextDescriptors == DescriptorInvariant /\ [Next]_vars => DescriptorInvariant'
  <1> SUFFICES ASSUME DescriptorInvariant, [Next]_vars PROVE DescriptorInvariant'
    OBVIOUS
  <1>1. CASE UNCHANGED vars
    BY <1>1 DEF vars, DescriptorInvariant, TypeOK, QueueOwns, WorkerOwns, Fds
  <1>2. CASE Next
    BY <1>2, ConnectDescriptors, AcceptDescriptors, AcceptFailsDescriptors, WorkerDescriptors
       DEF Next, MainStep
  <1> QED BY <1>1, <1>2

\* For any number of clients, workers and descriptors: a descriptor in the queue
\* or with a worker is still the connection it was accepted, or opened, for.
THEOREM DescriptorsHold == Spec => []DescriptorInvariant
  <1> QED BY InitDescriptors, NextDescriptors, PTL DEF Spec

\* A client that gets an answer gets its own.
THEOREM AnswersReachTheirClients == Spec => []OwnAnswer
  <1>1. Init => OwnAnswer
    BY DEF Init, OwnAnswer
  <1>2. DescriptorInvariant /\ OwnAnswer /\ [Next]_vars => OwnAnswer'
    <2> SUFFICES ASSUME DescriptorInvariant, OwnAnswer, [Next]_vars PROVE OwnAnswer'
      OBVIOUS
    <2>1. ASSUME NEW w \in Workers, Send(w)
          PROVE  OwnAnswer'
      <3>1. work[w].req = {open[work[w].fd]}
        BY <2>1 DEF DescriptorInvariant, WorkerOwns, Served, Send, At
      <3> QED BY <2>1, <3>1 DEF Send, OwnAnswer
    <2>2. (\E w \in Workers : Send(w)) \/ UNCHANGED answers
      BY DEF Next, MainStep, WorkerStep, vars, Connect, Accept, AcceptFails, Take, RecvFails, Recv,
             Refuse, ConnectDb, Die, Execute, Throw, Close
    <2>3. CASE UNCHANGED answers
      BY <2>3 DEF OwnAnswer
    <2> QED BY <2>1, <2>2, <2>3
  <1> QED BY <1>1, <1>2, DescriptorsHold, PTL DEF Spec

-----------------------------------------------------------------------------
(* Descriptors come back. *)

\* The request a worker parses is one that its client has sent.
ReadTexts ==
  \A w \in Workers : work[w].at = "parse" => \A c \in work[w].req : sent[c] \in Texts

AInv == DescriptorInvariant /\ ReadTexts

Held(f) == InQueue(f) \/ InUse(f)

\* A step loses nothing but the descriptor of a client whose request fails, when
\* each other one is either held as before or comes or goes with its holder.
LEMMA AccountedStep ==
  ASSUME Accounted, UNCHANGED given,
         \A f \in Fds :
           \/ open'[f] = open[f] /\ (Held(f) <=> Held(f)')
           \/ /\ open[f] = "free" \/ Held(f)
              /\ \/ open'[f] = "free" \/ Held(f)'
                 \/ open'[f] \in Clients /\ Failed(open'[f])
  PROVE  Accounted'
<1>1. Fds' = Fds /\ \A c : Failed(c) <=> Failed(c)'
  BY DEF given, Fds, Failed
<1>2. "database" \notin Clients /\ \A c \in Clients : Failed(c) => sent[c] \notin Cancelling
  BY ServerAssumption DEF Failed
<1>3. \A f : (Left(f) <=> open[f] # "free" /\ ~Held(f)) /\ (Left(f)' <=> open'[f] # "free" /\ ~Held(f)')
  BY DEF Left, Held
<1>4. LeftToDatabase' = LeftToDatabase
  BY <1>1, <1>2, <1>3 DEF LeftToDatabase
<1>5. LeftByCancel' = LeftByCancel
  BY <1>1, <1>2, <1>3 DEF LeftByCancel, given
<1>6. ASSUME NEW f \in Fds, Left(f)'
      PROVE  (open[f] = "database" \/ Failed(open[f]) \/ (outage /\ sent[open[f]] \in Cancelling))'
  <2>1. CASE open'[f] = open[f] /\ Left(f)
    BY <2>1 DEF Accounted, given, Failed
  <2>2. CASE open'[f] \in Clients /\ Failed(open'[f])
    BY <1>1, <2>2
  <2> QED BY <1>3, <1>6, <2>1, <2>2
<1> QED BY <1>1, <1>4, <1>5, <1>6 DEF Accounted

\* A worker whose request has failed leaves its descriptor open.
LEMMA LeaveAccounted ==
  ASSUME AInv, Accounted, NEW w \in Workers,
         work' = [work EXCEPT ![w] = Idle], UNCHANGED <<given, open, queue>>,
         work[w].fd # NoFd => Failed(open[work[w].fd]),
         work[w].at # "execute", work[w].at # "idle"
  PROVE  Accounted'
<1>1. /\ work'[w].at = "idle" /\ \A v \in Workers \ {w} : work'[v] = work[v]
      /\ work[w].fd # NoFd => open[work[w].fd] \in Clients
  BY DEF AInv, DescriptorInvariant, TypeOK, WorkerOwns, Idle
<1>2. ASSUME NEW f \in Fds \ {work[w].fd}
      PROVE  Held(f) <=> Held(f)'
  BY <1>1 DEF Held, InQueue, InUse
<1>3. work[w].fd \in Fds => Held(work[w].fd)
  BY DEF Held, InUse
<1> QED BY <1>1, <1>2, <1>3, FdFacts, AccountedStep

\* A worker that keeps what it has.
LEMMA KeepAccounted ==
  ASSUME AInv, Accounted, NEW w \in Workers, NEW new \in Slot,
         work' = [work EXCEPT ![w] = new],
         UNCHANGED <<given, open, queue>>,
         new.at \notin {"idle", "execute"}, new.fd = work[w].fd,
         work[w].at \notin {"idle", "execute"}
  PROVE  Accounted'
<1>1. work'[w] = new /\ \A v \in Workers \ {w} : work'[v] = work[v]
  BY DEF AInv, DescriptorInvariant, TypeOK
<1>2. \A f \in Fds : Held(f) <=> Held(f)'
  BY <1>1 DEF Held, InQueue, InUse
<1> QED BY <1>2, AccountedStep

\* A worker that gives a descriptor back and keeps its other one.
LEMMA FreeAccounted ==
  ASSUME AInv, Accounted, NEW w \in Workers, NEW f \in Fds, NEW new \in Slot,
         open' = [open EXCEPT ![f] = "free"], work' = [work EXCEPT ![w] = new],
         UNCHANGED <<given, queue>>,
         \/ work[w].at = "close" /\ f = work[w].fd /\ new.at = "idle"
         \/ work[w].at = "execute" /\ f = work[w].db /\ new.at = "send" /\ new.fd = work[w].fd
  PROVE  Accounted'
<1>1. /\ work'[w] = new /\ \A v \in Workers \ {w} : work'[v] = work[v]
      /\ open'[f] = "free" /\ \A g \in Fds \ {f} : open'[g] = open[g]
  BY DEF AInv, DescriptorInvariant, TypeOK
<1>2. Held(f)
  BY DEF Held, InUse
<1>3. \A g \in Fds \ {f} : Held(g) <=> Held(g)'
  BY <1>1 DEF Held, InQueue, InUse
<1> QED BY <1>1, <1>2, <1>3, AccountedStep

\* A descriptor that was free, or accept's -1, comes into the queue.
LEMMA ArrivalAccounted ==
  ASSUME AInv, Accounted, NEW f \in Fds \cup {NoFd},
         queue' = Append(queue, f), \A g \in Fds \ {f} : open'[g] = open[g],
         f = NoFd \/ open[f] = "free",
         UNCHANGED <<given, work>>
  PROVE  Accounted'
<1>1. queue \in Seq(Fds \cup {NoFd})
  BY DEF AInv, DescriptorInvariant, TypeOK
<1>2. /\ DOMAIN queue' = DOMAIN queue \cup {Len(queue) + 1}
      /\ queue'[Len(queue) + 1] = f /\ \A i \in DOMAIN queue : queue'[i] = queue[i]
  BY <1>1
<1>3. \A g \in Fds \ {f} : (InQueue(g) <=> InQueue(g)') /\ (InUse(g) <=> InUse(g)')
  BY <1>2 DEF InQueue, InUse
<1>4. InQueue(f)'
  BY <1>2 DEF InQueue
<1> QED BY <1>3, <1>4, FdFacts, AccountedStep DEF Held

\* A worker's descriptors are nobody else's.
LEMMA OwnedAlone ==
  ASSUME DescriptorInvariant, NEW w \in Workers, work[w].at = "execute",
         NEW f \in {work[w].fd, work[w].db}
  PROVE  /\ f \in Fds /\ ~InQueue(f)
         /\ \A v \in Workers \ {w} : /\ work[v].at # "idle" => f # work[v].fd
                                     /\ work[v].at = "execute" => f # work[v].db
<1>1. TypeOK /\ QueueOwns /\ WorkerOwns /\ work[w] \in Slot
  BY DEF DescriptorInvariant, TypeOK, Slot
<1>2. /\ work[w].fd \in Fds /\ open[work[w].fd] \in Clients
      /\ work[w].db \in Fds /\ open[work[w].db] = "database" /\ "database" \notin Clients
  BY <1>1, ServerAssumption DEF WorkerOwns, Served, Slot
<1>3. ~InQueue(f)
  BY <1>1, <1>2, FdFacts DEF QueueOwns, InQueue
<1>4. ASSUME NEW v \in Workers \ {w}
      PROVE  /\ work[v].at # "idle" => f # work[v].fd
             /\ work[v].at = "execute" => f # work[v].db
  BY <1>1, <1>2, FdFacts DEF WorkerOwns
<1> QED BY <1>2, <1>3, <1>4

\* A cancellation that throws adds its client's descriptor to those of its kind,
\* and one connection to those left to the database.
LEMMA ThrowAccounted ==
  ASSUME AInv, Accounted, NEW w \in Workers, Throw(w)
  PROVE  Accounted'
<1>a. PICK a : a = work[w].fd
  OBVIOUS
<1>b. PICK b : b = work[w].db
  OBVIOUS
<1>1. TypeOK /\ WorkerOwns /\ work[w] \in Slot /\ work[w].at = "execute"
  BY DEF AInv, DescriptorInvariant, TypeOK, Slot, Throw, At
<1>2. /\ a \in Fds /\ open[a] \in Clients /\ b \in Fds /\ open[b] = "database"
      /\ "database" \notin Clients /\ "free" \notin Clients /\ work[w].req = {open[a]}
  BY <1>a, <1>b, <1>1, ServerAssumption DEF WorkerOwns, Served, Slot
<1>3. /\ outage /\ sent[open[a]] \in Cancelling
      /\ UNCHANGED <<given, open, queue>> /\ Fds' = Fds
  BY <1>2 DEF Throw, given, Fds
<1>4. work'[w].at = "idle" /\ \A v \in Workers \ {w} : work'[v] = work[v]
  BY <1>1 DEF Throw, TypeOK, Idle
<1>5. /\ InUse(a) /\ ~InUse(a)' /\ ~InQueue(a)'
      /\ InUse(b) /\ ~InUse(b)' /\ ~InQueue(b)'
  <2>1. InUse(a) /\ InUse(b)
    BY <1>a, <1>b, <1>1 DEF InUse
  <2>2. ASSUME NEW f \in {a, b}
        PROVE  ~InQueue(f)' /\ ~InUse(f)'
    <3>1. ~InQueue(f) /\ \A v \in Workers \ {w} : /\ work[v].at # "idle" => f # work[v].fd
                                                  /\ work[v].at = "execute" => f # work[v].db
      BY <1>a, <1>b, <1>1, OwnedAlone DEF AInv
    <3> QED BY <1>3, <1>4, <3>1 DEF InQueue, InUse
  <2> QED BY <2>1, <2>2
<1>6. \A f \in Fds \ {a, b} : (InQueue(f) <=> InQueue(f)') /\ (InUse(f) <=> InUse(f)')
  BY <1>a, <1>b, <1>3, <1>4 DEF InQueue, InUse
<1>7. /\ ~Left(a) /\ Left(a)' /\ ~Left(b) /\ Left(b)'
      /\ \A f \in Fds \ {a, b} : Left(f) <=> Left(f)'
  BY <1>2, <1>3, <1>5, <1>6 DEF Left
<1>8. LeftToDatabase' = LeftToDatabase \cup {b} /\ b \notin LeftToDatabase
  BY <1>2, <1>3, <1>7 DEF LeftToDatabase
<1>9. LeftByCancel' = LeftByCancel \cup {a} /\ a \notin LeftByCancel
  BY <1>2, <1>3, <1>7 DEF LeftByCancel, given
<1>10. IsFiniteSet(LeftToDatabase) /\ IsFiniteSet(LeftByCancel)
  <2>1. IsFiniteSet(Fds)
    BY <1>1, ServerAssumption, FS_Interval DEF TypeOK, Fds
  <2>2. LeftToDatabase \in SUBSET Fds /\ LeftByCancel \in SUBSET Fds
    BY DEF LeftToDatabase, LeftByCancel
  <2> QED BY <2>1, <2>2, FS_Subset
<1>11. Cardinality(LeftToDatabase)' = Cardinality(LeftByCancel)'
  <2>1. Cardinality(LeftToDatabase') = Cardinality(LeftToDatabase) + 1
    BY <1>8, <1>10, FS_AddElement
  <2>2. Cardinality(LeftByCancel') = Cardinality(LeftByCancel) + 1
    BY <1>9, <1>10, FS_AddElement
  <2> QED BY <2>1, <2>2 DEF Accounted
<1>12. ASSUME NEW f \in Fds, Left(f)'
       PROVE  (open[f] = "database" \/ Failed(open[f]) \/ (outage /\ sent[open[f]] \in Cancelling))'
  BY <1>2, <1>3, <1>7, <1>12 DEF Accounted, given, Failed
<1> QED BY <1>3, <1>11, <1>12 DEF Accounted

\* A step that leaves the descriptors and their holders alone.
LEMMA SameAccount ==
  ASSUME Accounted, UNCHANGED <<given, open, queue, work>>
  PROVE  Accounted'
<1>1. \A f : Held(f) <=> Held(f)'
  BY DEF Held, InQueue, InUse
<1> QED BY <1>1, AccountedStep

LEMMA WorkerAccounted ==
  ASSUME AInv, Accounted, NEW w \in Workers, WorkerStep(w)
  PROVE  Accounted'
  <1>1. TypeOK /\ QueueOwns /\ WorkerOwns /\ work[w] \in Slot
    BY DEF AInv, DescriptorInvariant, TypeOK, Slot
  <1>2. CASE Take(w)
    <2> DEFINE new == [Idle EXCEPT !.at = "recv", !.fd = Head(queue)]
    <2>1. /\ queue # << >> /\ queue' = Tail(queue) /\ work[w].at = "idle"
          /\ work' = [work EXCEPT ![w] = new] /\ UNCHANGED <<given, open>>
      BY <1>2 DEF Take, At
    <2>2. queue \in Seq(Fds \cup {NoFd})
      BY <1>1 DEF TypeOK
    <2>3. new.at = "recv" /\ new.fd = queue[1]
      BY <2>1, <2>2 DEF Idle
    <2> HIDE DEF new
    <2>4. work'[w] = new /\ \A v \in Workers \ {w} : work'[v] = work[v]
      BY <1>1, <2>1 DEF TypeOK
    <2>5. \A i \in DOMAIN queue : i = 1 \/ \E j \in DOMAIN queue' : queue'[j] = queue[i]
      <3>1. ASSUME NEW i \in DOMAIN queue, i # 1
            PROVE  i - 1 \in DOMAIN queue' /\ queue'[i - 1] = queue[i]
        BY <2>1, <2>2, <3>1
      <3> QED BY <3>1
    <2>6. \A f \in Fds : InQueue(f) => InQueue(f)' \/ InUse(f)'
      BY <2>3, <2>4, <2>5 DEF InQueue, InUse
    <2>7. \A f \in Fds : InUse(f) => InUse(f)'
      BY <2>1, <2>4 DEF InUse
    <2>8. \A f \in Fds : InQueue(f)' => InQueue(f)
      <3>1. ASSUME NEW i \in DOMAIN queue'
            PROVE  i + 1 \in DOMAIN queue /\ queue'[i] = queue[i + 1]
        BY <2>1, <2>2, <3>1
      <3> QED BY <3>1 DEF InQueue
    <2>9. \A f \in Fds : InUse(f)' => InUse(f) \/ InQueue(f)
      <3>1. 1 \in DOMAIN queue
        BY <2>1, <2>2
      <3> QED BY <2>3, <2>4, <3>1 DEF InUse, InQueue
    <2> QED BY <2>1, <2>6, <2>7, <2>8, <2>9, AccountedStep DEF Held
  <1>3. CASE RecvFails(w)
    BY <1>3, LeaveAccounted DEF RecvFails, At, Failed
  <1>4. CASE Refuse(w)
    <2>1. work[w].at = "parse" /\ Read(w) = "invalid"
      BY <1>4 DEF Refuse, At
    <2>2. work[w].req = {open[work[w].fd]} /\ sent[open[work[w].fd]] \in Texts
      BY <1>1, <2>1 DEF WorkerOwns, Served, AInv, ReadTexts
    <2>3. Read(w) = Reading[sent[open[work[w].fd]]]
      BY <2>2 DEF Read
    <2> QED BY <1>4, <2>1, <2>2, <2>3, LeaveAccounted DEF Refuse, Failed
  <1>5. CASE Recv(w)
    <2> DEFINE new == [work[w] EXCEPT !.at = "parse", !.req = {open[work[w].fd]}]
    <2>1. work[w].at = "recv" /\ work[w].fd # NoFd /\ work' = [work EXCEPT ![w] = new]
          /\ UNCHANGED <<given, open, queue>>
      BY <1>5 DEF Recv, At
    <2>2. new \in Slot /\ new.at = "parse" /\ new.fd = work[w].fd
      BY <1>1, <2>1 DEF WorkerOwns, Slot, Places
    <2> HIDE DEF new
    <2> QED BY <2>1, <2>2, KeepAccounted
  <1>6. CASE ConnectDb(w)
    <2>1. PICK f \in Fds :
            /\ Lowest(f)
            /\ open' = [open EXCEPT ![f] = "database"]
            /\ work' = [work EXCEPT ![w] = [work[w] EXCEPT !.at = "execute", !.db = f]]
      BY <1>6 DEF ConnectDb
    <2>2. /\ work'[w].at = "execute" /\ work'[w].db = f /\ work'[w].fd = work[w].fd
          /\ \A v \in Workers \ {w} : work'[v] = work[v]
          /\ \A g \in Fds \ {f} : open'[g] = open[g]
          /\ work[w].at = "parse" /\ UNCHANGED <<given, queue>>
      BY <1>1, <1>6, <2>1 DEF TypeOK, Slot, ConnectDb, At
    <2>3. open[f] = "free"
      BY <2>1 DEF Lowest, Unused
    <2>4. InUse(f)' /\ \A g \in Fds \ {f} : InUse(g) <=> InUse(g)'
      BY <2>2 DEF InUse
    <2>5. \A g \in Fds : InQueue(g) <=> InQueue(g)'
      BY <2>2 DEF InQueue
    <2> QED BY <2>2, <2>3, <2>4, <2>5, AccountedStep DEF Held
  <1>7. CASE Die(w)
    BY <1>7, SameAccount DEF Die
  <1>8. CASE Execute(w)
    <2> DEFINE new == [work[w] EXCEPT !.at = "send", !.db = NoFd]
    <2>1. work[w].at = "execute" /\ work[w].db \in Fds
      BY <1>1, <1>8 DEF Execute, At, WorkerOwns, Slot
    <2>2. new \in Slot /\ new.at = "send" /\ new.fd = work[w].fd
      BY <1>1 DEF Slot, Places
    <2>3. /\ open' = [open EXCEPT ![work[w].db] = "free"] /\ work' = [work EXCEPT ![w] = new]
          /\ UNCHANGED <<given, queue>>
      BY <1>8 DEF Execute
    <2> HIDE DEF new
    <2> QED BY <2>1, <2>2, <2>3, FreeAccounted
  <1>9. CASE Throw(w)
    BY <1>9, ThrowAccounted
  <1>10. CASE Send(w)
    <2> DEFINE new == [work[w] EXCEPT !.at = "close"]
    <2>1. new \in Slot /\ new.at = "close" /\ new.fd = work[w].fd
      BY <1>1 DEF Slot, Places
    <2>2. work[w].at = "send" /\ work' = [work EXCEPT ![w] = new] /\ UNCHANGED <<given, open, queue>>
      BY <1>10 DEF Send, At
    <2> HIDE DEF new
    <2> QED BY <2>1, <2>2, KeepAccounted
  <1>11. CASE Close(w)
    <2>1. work[w].at = "close" /\ work[w].fd \in Fds /\ Idle \in Slot /\ Idle.at = "idle"
      BY <1>1, <1>11, IdleSlot DEF Close, At, WorkerOwns, Served, Slot, Idle
    <2> QED BY <1>11, <2>1, FreeAccounted DEF Close
  <1> QED BY <1>2, <1>3, <1>4, <1>5, <1>6, <1>7, <1>8, <1>9, <1>10, <1>11 DEF WorkerStep

LEMMA ReadTextsStep == AInv /\ [Next]_vars => ReadTexts'
  <1> SUFFICES ASSUME AInv, [Next]_vars PROVE ReadTexts'
    OBVIOUS
  <1>1. work \in [Workers -> Slot]
    BY DEF AInv, DescriptorInvariant, TypeOK, Slot
  <1>2. sent' = sent
    BY DEF Next, MainStep, WorkerStep, vars, given, Connect, Accept, AcceptFails, Take, RecvFails,
           Recv, Refuse, ConnectDb, Die, Execute, Throw, Send, Close
  <1>3. ASSUME NEW w \in Workers, Recv(w)
        PROVE  ReadTexts'
    BY <1>1, <1>2, <1>3 DEF Recv, AInv, ReadTexts, Slot
  <1>4. ASSUME NEW w \in Workers, WorkerStep(w), ~Recv(w)
        PROVE  ReadTexts'
    <2>1. work[w] \in Slot
      BY <1>1
    <2>2. work' = work \/ \A v \in Workers \ {w} : work'[v] = work[v]
      BY <1>1, <1>4 DEF WorkerStep, Take, RecvFails, Refuse, ConnectDb, Die, Execute, Throw, Send,
                        Close
    <2>3. work' = work \/ work'[w].at # "parse"
      <3>1. CASE Take(w)
        BY <1>1, <3>1 DEF Take, Idle
      <3>2. CASE RecvFails(w) \/ Refuse(w) \/ Throw(w) \/ Close(w)
        BY <1>1, <3>2 DEF RecvFails, Refuse, Throw, Close, Idle
      <3>3. CASE ConnectDb(w)
        BY <1>1, <2>1, <3>3 DEF ConnectDb, Slot
      <3>4. CASE Execute(w) \/ Send(w)
        BY <1>1, <2>1, <3>4 DEF Execute, Send, Slot
      <3>5. CASE Die(w)
        BY <3>5 DEF Die
      <3> QED BY <1>4, <3>1, <3>2, <3>3, <3>4, <3>5 DEF WorkerStep
    <2> QED BY <1>2, <2>2, <2>3 DEF AInv, ReadTexts
  <1>5. CASE UNCHANGED work
    BY <1>2, <1>5 DEF AInv, ReadTexts
  <1> QED BY <1>3, <1>4, <1>5 DEF Next, MainStep, Connect, Accept, AcceptFails, vars

\* Whatever the clients send, however often numbers are given out again and
\* whenever the database goes away: a descriptor that nobody holds any more was a
\* failed request's, or was left with one database connection by a cancellation.
THEOREM DescriptorsComeBack == Spec => []Accounted
  <1>1. Init => ReadTexts /\ Accounted
    <2> SUFFICES ASSUME Init PROVE ReadTexts /\ Accounted
      OBVIOUS
    <2>1. \A f \in Fds : ~Left(f)
      BY DEF Init, Left
    <2>2. LeftToDatabase = LeftByCancel
      BY <2>1 DEF LeftToDatabase, LeftByCancel
    <2> QED BY <2>1, <2>2 DEF Init, ReadTexts, Accounted, Idle
  <1>2. AInv /\ [Next]_vars => ReadTexts'
    BY ReadTextsStep
  <1>3. AInv /\ Accounted /\ [Next]_vars => Accounted'
    <2> SUFFICES ASSUME AInv, Accounted, [Next]_vars PROVE Accounted'
      OBVIOUS
    <2>1. ASSUME NEW w \in Workers, WorkerStep(w)
          PROVE  Accounted'
      BY <2>1, WorkerAccounted
    <2>2. CASE Accept
      <3>1. PICK f \in Fds : /\ open' = [open EXCEPT ![f] = Head(backlog)] /\ queue' = Append(queue, f)
                             /\ open[f] = "free"
        BY <2>2 DEF Accept, Lowest, Unused
      <3>2. \A g \in Fds \ {f} : open'[g] = open[g]
        BY <3>1 DEF AInv, DescriptorInvariant, TypeOK
      <3> QED BY <2>2, <3>1, <3>2, ArrivalAccounted DEF Accept
    <2>3. CASE AcceptFails
      BY <2>3, ArrivalAccounted DEF AcceptFails
    <2>4. CASE UNCHANGED <<given, open, queue, work>>
      BY <2>4, SameAccount
    <2>5. \/ UNCHANGED <<given, open, queue, work>>
          \/ Accept \/ AcceptFails \/ \E w \in Workers : WorkerStep(w)
      BY DEF Next, MainStep, Connect, vars, given
    <2> QED BY <2>1, <2>2, <2>3, <2>4, <2>5
  <1> QED BY <1>1, <1>2, <1>3, DescriptorsHold, PTL DEF Spec, AInv
=============================================================================
