----------------------------- MODULE LockProofs -----------------------------
(***************************************************************************)
(* The lock invariant for any number of workers and any transactions: the  *)
(* locks on a row never conflict, writers hold one, and what a transaction *)
(* read under FOR UPDATE is still there when it writes.  For any of the    *)
(* transactions of Database.cpp: what may make a creation abort.           *)
(***************************************************************************)
EXTENDS Isolation, DataLemmas

Writing == {"write", "update"}

LEMMA ValueType ==
  ASSUME NEW s \in Statement, NEW v \in SUBSET Int, NEW read \in SUBSET Int
  PROVE  Value(s, v, read) \in SUBSET Int
<1>1. s \in StatementOn(Rows)
  BY DEF Statement, StatementOn
<1>2. QED BY <1>1, ValueOn

\* The statement a running transaction is at.
LEMMA CurrentType ==
  ASSUME TypeOK, NEW w \in Workers, Runs(w)
  PROVE  /\ Current(w) \in Statement
         /\ Current(w).row \in Rows
         /\ Current(w).op \in Ops
         /\ \A r \in Rows : Seen(w, r) \in SUBSET Int
         /\ Needs(w) \subseteq Modes
  <1>1. /\ program[w] \in Seq(Statement) /\ tx[w].at \in Nat \ {0}
        /\ tx[w].at <= Len(program[w])
    BY DEF TypeOK, Runs
  <1>2. Current(w) \in Statement
    BY <1>1 DEF Current
  <1>3. Current(w).row \in Rows /\ Current(w).op \in Ops
    BY <1>2 DEF Statement
  <1>4. \A r \in Rows : Seen(w, r) \in SUBSET Int
    BY DEF Seen, TypeOK
  <1>5. Needs(w) \subseteq Modes
    BY DEF Needs, Modes
  <1> QED BY <1>2, <1>3, <1>4, <1>5

\* Whoever changes a row takes a lock that keeps other writers out.
LEMMA WriteNeeds ==
  ASSUME TypeOK, NEW w \in Workers, Runs(w), ~Duplicate(w),
         Value(Current(w), Seen(w, Current(w).row), tx[w].read) # Seen(w, Current(w).row)
  PROVE  \E m \in Writing : m \in Needs(w)
  <1> DEFINE s == Current(w)
             v == Seen(w, s.row)
  <1>1. s.op \in Ops
    BY CurrentType
  <1>2. s.op \in {"add", "set", "delete"} => v # {}
    BY DEF Value
  <1>3. s.op \notin {"lock", "ref"}
    BY DEF Value
  <1>4. s.op = "ensure" => v = {}
    BY DEF Value
  <1> HIDE DEF v, s
  <1>5. \/ s.op = "delete" /\ v # {}
        \/ s.op \in {"add", "set"} /\ v # {}
        \/ s.op \in {"insert", "ensure", "upsert", "store"}
    BY <1>1, <1>2, <1>3 DEF Ops
  <1>6. CASE s.op = "delete" /\ v # {}
    <2>1. "update" \in Needs(w)
      BY <1>6 DEF Needs, s, v
    <2> QED BY <2>1 DEF Writing
  <1>7. CASE s.op \in {"add", "set"} /\ v # {}
    <2>1. "write" \in Needs(w)
      BY <1>7 DEF Needs, s, v
    <2> QED BY <2>1 DEF Writing
  <1>8. CASE s.op \in {"insert", "ensure", "upsert", "store"}
    <2>1. CASE v = {}
      <3>1. "update" \in Needs(w)
        BY <1>8, <2>1 DEF Needs, s, v
      <3> QED BY <3>1 DEF Writing
    <2>2. CASE v # {}
      <3>1. "write" \in Needs(w)
        BY <1>4, <1>8, <2>2 DEF Needs, s, v
      <3> QED BY <3>1 DEF Writing
    <2> QED BY <2>1, <2>2
  <1> QED BY <1>5, <1>6, <1>7, <1>8

\* Two transactions never write the same row, and nobody writes a row that
\* another one has locked FOR UPDATE.
LEMMA Apart ==
  ASSUME TypeOK, Compatible, WritesLocked, NEW u \in Workers, NEW w \in Workers, u # w,
         NEW r \in dirty[w]
  PROVE  /\ r \notin dirty[u]
         /\ <<r, "update">> \notin held[u]
  <1>1. PICK m \in Writing : <<r, m>> \in held[w]
    BY DEF WritesLocked, Writing
  <1>2. ASSUME NEW n \in Writing, <<r, n>> \in held[u]
        PROVE  FALSE
    BY <1>1, <1>2 DEF Compatible, Conflict, Writing
  <1>3. r \notin dirty[u]
    BY <1>2 DEF WritesLocked, Writing
  <1> QED BY <1>2, <1>3 DEF Writing

-----------------------------------------------------------------------------

LEMMA InitLocks == Init => LockInvariant
  <1> SUFFICES ASSUME Init PROVE LockInvariant
    OBVIOUS
  <1>1. program \in [Workers -> Seq(Statement)] /\ \A w \in Workers : ReadsFirst(program[w])
    BY LocksAssumption DEF Init
  <1>2. TypeOK
    BY <1>1, LocksAssumption DEF Init, TypeOK
  <1>3. Compatible /\ WritesLocked
    BY DEF Init, Compatible, WritesLocked
  <1>4. \A w \in Workers : tx[w].read = {}
    BY DEF Init
  <1> QED BY <1>2, <1>3, <1>4 DEF LockInvariant, ReadsCurrent

LEMMA ExecuteLocks ==
  ASSUME LockInvariant, NEW w \in Workers, Execute(w)
  PROVE  LockInvariant'
  <1> DEFINE s == Current(w)
             v == Seen(w, s.row)
             new == Value(s, v, tx[w].read)
  <1>1. /\ TypeOK /\ Compatible /\ WritesLocked /\ ReadsCurrent
        /\ Runs(w) /\ ~Duplicate(w) /\ WaitsFor(w) = {}
    BY DEF LockInvariant, Execute
  <1>2. /\ s \in Statement /\ s.row \in Rows /\ v \in SUBSET Int /\ Needs(w) \subseteq Modes
        /\ s.op \in Ops
    BY <1>1, CurrentType
  <1>3. new \in SUBSET Int
    BY <1>1, <1>2, ValueType DEF TypeOK
  <1>4. new # v => \E m \in Writing : m \in Needs(w)
    BY <1>1, WriteNeeds
  <1>5. s.op = "lock" => new = v
    BY DEF Value
  <1>6. /\ held' = [held EXCEPT ![w] = held[w] \cup {<<s.row, m>> : m \in Needs(w)}]
        /\ newest' = IF new # v THEN [newest EXCEPT ![s.row] = new] ELSE newest
        /\ dirty' = IF new # v THEN [dirty EXCEPT ![w] = dirty[w] \cup {s.row}] ELSE dirty
        /\ tx' = [tx EXCEPT ![w] = [at |-> tx[w].at + 1,
                                    read |-> IF s.op = "lock" THEN v ELSE tx[w].read,
                                    new |-> v = {} /\ new # v,
                                    end |-> "no"]]
        /\ program' = program /\ store' = store
    BY DEF Execute
  <1>7. s.op = "lock" /\ v # {} => "update" \in Needs(w)
    BY DEF Needs
  <1> HIDE DEF s, v, new
  <1>8. TypeOK'
    <2>1. held' \in [Workers -> SUBSET (Rows \X Modes)]
      BY <1>1, <1>2, <1>6 DEF TypeOK
    <2>2. newest' \in [Rows -> SUBSET Int] /\ dirty' \in [Workers -> SUBSET Rows]
      BY <1>1, <1>2, <1>3, <1>6 DEF TypeOK
    <2>3. tx' \in [Workers -> [at : Nat \ {0}, read : SUBSET Int, new : BOOLEAN,
                               end : {"no", "committed", "aborted"}]]
      <3>1. /\ tx[w].at + 1 \in Nat \ {0}
            /\ (IF s.op = "lock" THEN v ELSE tx[w].read) \in SUBSET Int
        BY <1>1, <1>2 DEF TypeOK
      <3>2. (v = {} /\ new # v) \in BOOLEAN
        OBVIOUS
      <3> QED BY <1>1, <1>6, <3>1, <3>2 DEF TypeOK
    <2> QED BY <1>1, <1>6, <2>1, <2>2, <2>3 DEF TypeOK
  <1>9. Compatible'
    <2>1. ASSUME NEW u \in Workers \ {w}, NEW k \in held'[u], NEW l \in held'[w], k[1] = l[1]
          PROVE  ~Conflict(k[2], l[2]) /\ ~Conflict(l[2], k[2])
      <3>1. k \in held[u] /\ (l \in held[w] \/ \E m \in Needs(w) : l = <<s.row, m>>)
        BY <1>1, <1>6 DEF TypeOK
      <3>2. CASE l \in held[w]
        BY <1>1, <2>1, <3>1, <3>2 DEF Compatible, Conflict
      <3>3. CASE \E m \in Needs(w) : l = <<s.row, m>>
        BY <1>1, <2>1, <3>1, <3>3 DEF WaitsFor, Conflict, s
      <3> QED BY <3>1, <3>2, <3>3
    <2>2. ASSUME NEW u \in Workers \ {w}, NEW t \in Workers \ {w}, u # t
          PROVE  \A k \in held'[u], l \in held'[t] : k[1] = l[1] => ~Conflict(k[2], l[2])
      BY <1>1, <1>6, <2>2 DEF Compatible, TypeOK
    <2> QED BY <2>1, <2>2 DEF Compatible, Conflict
  <1>10. WritesLocked'
    <2>1. ASSUME NEW u \in Workers, NEW r \in dirty'[u]
          PROVE  \E m \in Writing : <<r, m>> \in held'[u]
      <3>1. held[u] \subseteq held'[u]
        BY <1>1, <1>6 DEF TypeOK
      <3>2. r \in dirty[u] \/ (u = w /\ r = s.row /\ new # v)
        BY <1>1, <1>6, <2>1 DEF TypeOK
      <3>3. CASE r \in dirty[u]
        BY <1>1, <3>1, <3>3 DEF WritesLocked, Writing
      <3>4. CASE u = w /\ r = s.row /\ new # v
        BY <1>1, <1>4, <1>6, <3>4 DEF TypeOK
      <3> QED BY <3>2, <3>3, <3>4
    <2>2. ASSUME NEW r \in Rows, \A u \in Workers : r \notin dirty'[u]
          PROVE  newest'[r] = store'[r]
      <3>1. \A u \in Workers : r \notin dirty[u]
        BY <1>1, <1>6, <2>2 DEF TypeOK
      <3>2. new # v => r # s.row
        BY <1>1, <1>6, <2>2 DEF TypeOK
      <3> QED BY <1>1, <1>6, <2>2, <3>1, <3>2 DEF WritesLocked, TypeOK
    <2> QED BY <2>1, <2>2 DEF WritesLocked, Writing
  <1>11. ReadsCurrent'
    <2>1. ASSUME NEW u \in Workers \ {w}, Runs(u)', Current(u)'.op = "store", tx'[u].read # {}
          PROVE  /\ <<Current(u)'.row, "update">> \in held'[u]
                 /\ Seen(u, Current(u).row)' = tx'[u].read
      <3> DEFINE r == Current(u).row
      <3>1. tx'[u] = tx[u] /\ dirty'[u] = dirty[u] /\ held'[u] = held[u] /\ Current(u)' = Current(u)
        BY <1>1, <1>6 DEF TypeOK, Current
      <3>2. Runs(u)
        BY <1>6, <2>1, <3>1 DEF Runs, Active
      <3>3. <<r, "update">> \in held[u] /\ Seen(u, r) = tx[u].read
        BY <1>1, <2>1, <3>1, <3>2 DEF ReadsCurrent
      <3>4. ASSUME new # v, s.row = r PROVE FALSE
        <4>1. PICK m \in Writing : m \in Needs(w)
          BY <1>4, <3>4
        <4>2. Conflict(m, "update")
          BY DEF Conflict
        <4>3. Current(w).row = r /\ <<r, "update">>[1] = r /\ <<r, "update">>[2] = "update"
          BY <3>4 DEF s
        <4>4. u \in WaitsFor(w)
          BY <1>1, <2>1, <3>3, <4>1, <4>2, <4>3 DEF WaitsFor
        <4> QED BY <1>1, <4>4
      <3>5. newest'[r] = newest[r] /\ store' = store
        <4>1. r \in Rows
          BY <1>1, <3>2, CurrentType
        <4> QED BY <1>1, <1>6, <3>4, <4>1 DEF TypeOK
      <3>6. Seen(u, r)' = Seen(u, r)
        BY <3>1, <3>5 DEF Seen
      <3> QED BY <2>1, <3>1, <3>3, <3>6
    <2>2. ASSUME Runs(w)', Current(w)'.op = "store", tx'[w].read # {}
          PROVE  /\ <<Current(w)'.row, "update">> \in held'[w]
                 /\ Seen(w, Current(w).row)' = tx'[w].read
      <3> DEFINE i == tx[w].at
                 p == program[w]
      <3>1. /\ tx'[w].at = i + 1 /\ tx'[w].read = (IF s.op = "lock" THEN v ELSE tx[w].read)
            /\ Current(w)' = p[i + 1] /\ i \in Nat \ {0} /\ i + 1 <= Len(p)
            /\ p \in Seq(Statement) /\ ReadsFirst(p)
        BY <1>1, <1>6, <2>2 DEF TypeOK, Runs, Current
      <3>2. p[i].op = "lock" /\ p[i].row = p[i + 1].row
        <4>1. i + 1 \in DOMAIN p /\ p[i + 1].op = "store" /\ (i + 1) - 1 = i
          BY <2>2, <3>1
        <4> QED BY <3>1, <4>1 DEF ReadsFirst
      <3>3. s = p[i]
        BY DEF s, Current
      <3>4. tx'[w].read = v /\ new = v /\ v # {} /\ Current(w)'.row = s.row
        BY <1>5, <2>2, <3>1, <3>2, <3>3
      <3>5. <<s.row, "update">> \in held'[w]
        BY <1>1, <1>6, <1>7, <3>2, <3>3, <3>4 DEF TypeOK
      <3>6. Seen(w, s.row) = v
        BY DEF v
      <3> QED BY <1>6, <3>4, <3>5, <3>6 DEF Seen
    <2> QED BY <2>1, <2>2 DEF ReadsCurrent
  <1> QED BY <1>8, <1>9, <1>10, <1>11 DEF LockInvariant

\* The end of a transaction takes nothing from the others: they write other
\* rows, and the rows they have read are not among those it has written.
LEMMA EndLocks ==
  ASSUME LockInvariant, NEW w \in Workers, NEW how \in {"committed", "aborted"}, End(w, how),
         store' \in [Rows -> SUBSET Int], newest' \in [Rows -> SUBSET Int],
         \A r \in Rows \ dirty[w] : store'[r] = store[r] /\ newest'[r] = newest[r],
         \A r \in dirty[w] : newest'[r] = store'[r]
  PROVE  LockInvariant'
  <1>1. /\ TypeOK /\ Compatible /\ WritesLocked /\ ReadsCurrent
        /\ tx' = [tx EXCEPT ![w] = [tx[w] EXCEPT !.end = how]]
        /\ held' = [held EXCEPT ![w] = {}] /\ dirty' = [dirty EXCEPT ![w] = {}]
        /\ program' = program
    BY DEF LockInvariant, End
  <1>2. /\ held'[w] = {} /\ dirty'[w] = {}
        /\ \A u \in Workers \ {w} : held'[u] = held[u] /\ dirty'[u] = dirty[u] /\ tx'[u] = tx[u]
    BY <1>1 DEF TypeOK
  <1>3. TypeOK'
    BY <1>1 DEF TypeOK
  <1>4. Compatible'
    BY <1>1, <1>2 DEF Compatible
  <1>5. WritesLocked'
    <2>1. ASSUME NEW u \in Workers, NEW r \in dirty'[u]
          PROVE  \E m \in Writing : <<r, m>> \in held'[u]
      BY <1>1, <1>2, <2>1 DEF WritesLocked, Writing
    <2>2. ASSUME NEW r \in Rows, \A u \in Workers : r \notin dirty'[u]
          PROVE  newest'[r] = store'[r]
      BY <1>1, <1>2, <2>2 DEF WritesLocked
    <2> QED BY <2>1, <2>2 DEF WritesLocked, Writing
  <1>6. ReadsCurrent'
    <2>1. ASSUME NEW u \in Workers, Runs(u)', Current(u)'.op = "store", tx'[u].read # {}
          PROVE  /\ <<Current(u)'.row, "update">> \in held'[u]
                 /\ Seen(u, Current(u).row)' = tx'[u].read
      <3> DEFINE r == Current(u).row
      <3>1. u # w
        BY <1>1, <2>1 DEF Runs, Active, TypeOK
      <3>2. Current(u)' = Current(u) /\ Runs(u)
        BY <1>1, <1>2, <2>1, <3>1 DEF Current, Runs, Active
      <3>3. <<r, "update">> \in held[u] /\ Seen(u, r) = tx[u].read
        BY <1>1, <1>2, <2>1, <3>1, <3>2 DEF ReadsCurrent
      <3>4. r \notin dirty[w] /\ r \in Rows
        BY <1>1, <3>1, <3>2, <3>3, Apart, CurrentType
      <3> QED BY <1>2, <3>1, <3>2, <3>3, <3>4 DEF Seen
    <2> QED BY <2>1 DEF ReadsCurrent
  <1> QED BY <1>3, <1>4, <1>5, <1>6 DEF LockInvariant

LEMMA NextLocks == LockInvariant /\ [Next]_vars => LockInvariant'
  <1> SUFFICES ASSUME LockInvariant, [Next]_vars PROVE LockInvariant'
    OBVIOUS
  <1>1. CASE UNCHANGED vars
    BY <1>1 DEF vars, LockInvariant, TypeOK, Compatible, WritesLocked, ReadsCurrent, Runs, Active,
                Current, Seen
  <1>2. ASSUME NEW w \in Workers, TxStep(w)
        PROVE  LockInvariant'
    <2>1. CASE Execute(w)
      BY <2>1, ExecuteLocks
    <2>2. CASE Commit(w)
      BY <2>2, EndLocks DEF Commit, Seen, LockInvariant, TypeOK
    <2>3. CASE Abort(w)
      BY <2>3, EndLocks DEF Abort, LockInvariant, TypeOK
    <2> QED BY <1>2, <2>1, <2>2, <2>3 DEF TxStep
  <1> QED BY <1>1, <1>2 DEF Next

\* For any transactions of any number of workers: conflicting locks are never
\* held together, every uncommitted version is under a writer's lock, and MatchOrder
\* writes back sums of values that are still current.
THEOREM LocksHold == Spec => []LockInvariant
  <1> QED BY InitLocks, NextLocks, PTL DEF Spec

-----------------------------------------------------------------------------
(* What makes creations abort.  A program is one of the six transactions of *)
(* Database.cpp; the properties of its statements the proof needs are       *)
(* OneInsert, Grant and OnOrders.                                           *)

IsTransaction(p) ==
  \/ \E a, n : p = CreateAccount(a, n)
  \/ \E a, s, n : p = CreatePosition(a, s, n)
  \/ \E id, a, s, n, price, T : \E scan \in Seq(T) : p = CreateOrder(id, a, s, n, price, scan)
  \/ \E T : \E ids \in Seq(T) : p = SelectOrders(ids)
  \/ \E buyer, seller, s, buy, sell, n, price, final, refund :
       p = MatchOrder(buyer, seller, s, buy, sell, n, price, final, refund)
  \/ \E id, a, n, price, T : \E scan \in Seq(T) : p = CancelOrder(id, a, n, price, scan)

OneInsert(p) == Len(p) = 1 /\ p[1].op = "ensure" /\ p[1].row[1] = "ACCOUNT"

Grant(p) ==
  /\ Len(p) = 3 /\ p[1].op = "lock" /\ p[2].op = "upsert" /\ p[3].op = "ref"
  /\ p[1].row = p[2].row /\ p[2].row[1] = "POSITION" /\ p[3].row[1] = "ACCOUNT"

\* The rows of POSITION are read, added to or stored by an order's transactions.
OrderStatement(s) == s.row[1] = "POSITION" => s.op \in {"lock", "add", "store"}

OnOrders(p) ==
  /\ \A i \in DOMAIN p : OrderStatement(p[i])
  /\ DOMAIN p # {} => \E i \in DOMAIN p : p[i].row[1] = "OPEN_ORDER"

LEMMA Joined ==
  ASSUME NEW S, NEW p \in Seq(S), NEW T, NEW q \in Seq(T),
         \A s \in S \cup T : OrderStatement(s),
         \/ \E i \in DOMAIN p : p[i].row[1] = "OPEN_ORDER"
         \/ \E i \in DOMAIN q : q[i].row[1] = "OPEN_ORDER"
  PROVE  OnOrders(p \o q)
<1> DEFINE r == p \o q
<1>1. /\ Len(r) = Len(p) + Len(q) /\ DOMAIN r = 1 .. Len(r)
      /\ DOMAIN p = 1 .. Len(p) /\ DOMAIN q = 1 .. Len(q)
      /\ Len(p) \in Nat /\ Len(q) \in Nat
      /\ \A i \in 1 .. Len(p) : p[i] \in S
      /\ \A i \in 1 .. Len(q) : q[i] \in T
  OBVIOUS
<1>2. /\ \A i \in 1 .. Len(p) : r[i] = p[i]
      /\ \A i \in 1 .. Len(q) : r[Len(p) + i] = q[i]
  OBVIOUS
<1> HIDE DEF r
<1>3. \A i \in DOMAIN r : OrderStatement(r[i])
  <2> SUFFICES ASSUME NEW i \in DOMAIN r PROVE r[i] \in S \cup T
    OBVIOUS
  <2>1. CASE i <= Len(p)
    BY <1>1, <1>2, <2>1
  <2>2. CASE i > Len(p)
    <3>1. PICK j \in 1 .. Len(q) : i = Len(p) + j
      <4>1. i - Len(p) \in 1 .. Len(q) /\ i = Len(p) + (i - Len(p))
        BY <1>1, <2>2
      <4>2. QED BY <4>1
    <3>2. QED BY <1>1, <1>2, <3>1
  <2>3. QED BY <1>1, <2>1, <2>2
<1>4. \E i \in DOMAIN r : r[i].row[1] = "OPEN_ORDER"
  <2>1. CASE \E i \in DOMAIN p : p[i].row[1] = "OPEN_ORDER"
    BY <1>1, <1>2, <2>1
  <2>2. CASE \E i \in DOMAIN q : q[i].row[1] = "OPEN_ORDER"
    <3>1. PICK i \in 1 .. Len(q) : q[i].row[1] = "OPEN_ORDER"
      BY <1>1, <2>2
    <3>2. Len(p) + i \in DOMAIN r /\ r[Len(p) + i].row[1] = "OPEN_ORDER"
      BY <1>1, <1>2, <3>1
    <3>3. QED BY <3>2
  <2>3. QED BY <2>1, <2>2
<1>5. QED BY <1>3, <1>4 DEF OnOrders, r

LEMMA PosStatement ==
  ASSUME NEW a, NEW T, NEW scan \in Seq(T), NEW op \in {"lock", "add"}, NEW n
  PROVE  /\ OnAll(op, a, scan, n) \in Seq({Stmt(op, Pos(a, y), n) : y \in T})
         /\ \A t \in {Stmt(op, Pos(a, y), n) : y \in T} : OrderStatement(t)
<1>1. DOMAIN scan = 1 .. Len(scan) /\ Len(scan) \in Nat /\ \A i \in 1 .. Len(scan) : scan[i] \in T
  OBVIOUS
<1>2. OnAll(op, a, scan, n) \in Seq({Stmt(op, Pos(a, y), n) : y \in T})
  BY <1>1 DEF OnAll
<1>3. \A t \in {Stmt(op, Pos(a, y), n) : y \in T} : OrderStatement(t)
  BY DEF OrderStatement, Stmt, Pos
<1>4. QED BY <1>2, <1>3

LEMMA CreateOrderShape ==
  ASSUME NEW id, NEW a, NEW s, NEW n, NEW price, NEW T, NEW scan \in Seq(T)
  PROVE  OnOrders(CreateOrder(id, a, s, n, price, scan))
<1> DEFINE head == << Stmt("insert", Ord(id), n), Stmt("ref", Acct(a), 0) >>
           S == {Stmt("insert", Ord(id), n), Stmt("ref", Acct(a), 0)}
           lockPos == << Stmt("lock", Pos(a, s), 0) >>
           U == {Stmt("add", Pos(a, y), n) : y \in T}
           all == OnAll("add", a, scan, n)
           buy == << Stmt("lock", Acct(a), 0), Stmt("add", Acct(a), -(price * n)) >>
           B == {Stmt("lock", Acct(a), 0), Stmt("add", Acct(a), -(price * n))}
<1>1. /\ head \in Seq(S) /\ 1 \in DOMAIN head /\ head[1].row[1] = "OPEN_ORDER"
      /\ \A t \in S : OrderStatement(t)
  BY DEF Stmt, Ord, Acct, OrderStatement
<1>2. CASE n < 0
  <2>1. lockPos \in Seq({Stmt("lock", Pos(a, s), 0)}) /\ OrderStatement(Stmt("lock", Pos(a, s), 0))
    BY DEF Stmt, Pos, OrderStatement
  <2>2. all \in Seq(U) /\ \A t \in U : OrderStatement(t)
    BY PosStatement
  <2>3. \E V : lockPos \o all \in Seq(V) /\ \A t \in V : OrderStatement(t)
    <3> DEFINE V == {Stmt("lock", Pos(a, s), 0)} \cup U
    <3>1. lockPos \in Seq(V) /\ all \in Seq(V) /\ \A t \in V : OrderStatement(t)
      BY <2>1, <2>2
    <3> HIDE DEF V, lockPos, all, U
    <3>2. lockPos \o all \in Seq(V)
      BY <3>1
    <3>3. QED BY <3>1, <3>2
  <2>4. PICK V : lockPos \o all \in Seq(V) /\ \A t \in V : OrderStatement(t)
    BY <2>3
  <2>5. OnOrders(head \o (lockPos \o all))
    <3> HIDE DEF head, S, lockPos, all, U
    <3>1. QED BY <1>1, <2>4, Joined
  <2>6. QED BY <1>2, <2>5 DEF CreateOrder
<1>3. CASE ~(n < 0) /\ n > 0
  <2>1. buy \in Seq(B) /\ \A t \in B : OrderStatement(t)
    BY DEF Stmt, Acct, OrderStatement
  <2>2. OnOrders(head \o buy)
    <3> HIDE DEF head, S, buy, B
    <3>1. QED BY <1>1, <2>1, Joined
  <2>3. CreateOrder(id, a, s, n, price, scan) = head \o buy
    BY <1>3 DEF CreateOrder
  <2>4. QED BY <2>2, <2>3
<1>4. CASE ~(n < 0) /\ ~(n > 0)
  <2>1. head \o << >> = head
    <3> HIDE DEF head, S
    <3>1. QED BY <1>1
  <2>2. CreateOrder(id, a, s, n, price, scan) = head
    BY <1>4, <2>1 DEF CreateOrder
  <2>3. OnOrders(head)
    <3> HIDE DEF head, S
    <3>1. QED BY <1>1 DEF OnOrders
  <2>4. QED BY <2>2, <2>3
<1>5. QED BY <1>2, <1>3, <1>4

LEMMA SelectOrdersShape ==
  ASSUME NEW T, NEW ids \in Seq(T)
  PROVE  OnOrders(SelectOrders(ids))
<1>1. DOMAIN SelectOrders(ids) = DOMAIN ids
      /\ \A i \in DOMAIN ids : SelectOrders(ids)[i] = Stmt("lock", Ord(ids[i]), 0)
  BY DEF SelectOrders
<1>2. \A i \in DOMAIN ids : SelectOrders(ids)[i].row[1] = "OPEN_ORDER"
  BY <1>1 DEF Stmt, Ord
<1>3. QED BY <1>1, <1>2 DEF OnOrders, OrderStatement

LEMMA BookShape ==
  ASSUME NEW sell, NEW buy, NEW final
  PROVE  \E S : /\ Book(sell, buy, final) \in Seq(S)
                /\ \A t \in S : OrderStatement(t)
                /\ \E i \in DOMAIN Book(sell, buy, final) :
                     Book(sell, buy, final)[i].row[1] = "OPEN_ORDER"
<1> DEFINE S == {Stmt("lock", Ord(sell), 0), Stmt("set", Ord(sell), final),
                 Stmt("delete", Ord(buy), 0), Stmt("lock", Ord(buy), 0),
                 Stmt("delete", Ord(sell), 0), Stmt("set", Ord(buy), final)}
           b == Book(sell, buy, final)
<1>1. \A t \in S : OrderStatement(t)
  BY DEF OrderStatement, Stmt, Ord
<1>2. b \in Seq(S) /\ 1 \in DOMAIN b /\ b[1].row[1] = "OPEN_ORDER"
  <2>1. CASE final < 0
    BY <2>1 DEF Book, Stmt, Ord
  <2>2. CASE ~(final < 0) /\ final > 0
    BY <2>2 DEF Book, Stmt, Ord
  <2>3. CASE ~(final < 0) /\ ~(final > 0)
    BY <2>3 DEF Book, Stmt, Ord
  <2>4. QED BY <2>1, <2>2, <2>3
<1>3. QED BY <1>1, <1>2

LEMMA MatchOrderShape ==
  ASSUME NEW buyer, NEW seller, NEW s, NEW buy, NEW sell, NEW n, NEW price, NEW final,
         NEW refund
  PROVE  OnOrders(MatchOrder(buyer, seller, s, buy, sell, n, price, final, refund))
<1> DEFINE first == IF refund > 0 THEN << Stmt("add", Acct(buyer), refund) >> ELSE << >>
           F == {Stmt("add", Acct(buyer), refund)}
           pay == << Stmt("lock", Acct(seller), 0), Stmt("store", Acct(seller), price * n),
                     Stmt("lock", Pos(buyer, s), 0), Stmt("store", Pos(buyer, s), n),
                     Stmt("ref", Acct(buyer), 0) >>
           P == {Stmt("lock", Acct(seller), 0), Stmt("store", Acct(seller), price * n),
                 Stmt("lock", Pos(buyer, s), 0), Stmt("store", Pos(buyer, s), n),
                 Stmt("ref", Acct(buyer), 0)}
           book == Book(sell, buy, final)
<1>1. first \in Seq(F) /\ \A t \in F : OrderStatement(t)
  <2>1. Stmt("add", Acct(buyer), refund) \in F
    OBVIOUS
  <2>2. << Stmt("add", Acct(buyer), refund) >> \in Seq(F) /\ << >> \in Seq(F)
    BY <2>1
  <2>3. \A t \in F : OrderStatement(t)
    BY DEF OrderStatement, Stmt, Acct
  <2>4. QED BY <2>2, <2>3
<1>2. pay \in Seq(P) /\ \A t \in P : OrderStatement(t)
  BY DEF OrderStatement, Stmt, Acct, Pos
<1>3. PICK S : /\ book \in Seq(S)
               /\ \A t \in S : OrderStatement(t)
               /\ \E i \in DOMAIN book : book[i].row[1] = "OPEN_ORDER"
  BY BookShape
<1> HIDE DEF first, F, pay, P, book
<1>4. OnOrders(first \o book)
  BY <1>1, <1>3, Joined
<1>5. first \o book \in Seq(F \cup S)
  <2>1. first \in Seq(F \cup S) /\ book \in Seq(F \cup S)
    BY <1>1, <1>3
  <2>2. QED BY <2>1
<1>6. \E i \in DOMAIN (first \o book) : (first \o book)[i].row[1] = "OPEN_ORDER"
  <2>1. PICK i \in DOMAIN book : book[i].row[1] = "OPEN_ORDER"
    BY <1>3
  <2>2. /\ Len(first) + i \in DOMAIN (first \o book)
        /\ (first \o book)[Len(first) + i] = book[i]
    BY <1>1, <1>3
  <2>3. QED BY <2>1, <2>2
<1>7. OnOrders((first \o book) \o pay)
  <2>1. \A t \in (F \cup S) \cup P : OrderStatement(t)
    BY <1>1, <1>2, <1>3
  <2> DEFINE begin == first \o book
  <2> HIDE DEF begin
  <2>2. begin \in Seq(F \cup S) /\ \E i \in DOMAIN begin : begin[i].row[1] = "OPEN_ORDER"
    BY <1>5, <1>6 DEF begin
  <2>3. OnOrders(begin \o pay)
    BY <1>2, <2>1, <2>2, Joined
  <2>4. QED BY <2>3 DEF begin
<1>8. QED BY <1>7 DEF MatchOrder, first, book, pay

LEMMA CancelOrderShape ==
  ASSUME NEW id, NEW a, NEW n, NEW price, NEW T, NEW scan \in Seq(T)
  PROVE  OnOrders(CancelOrder(id, a, n, price, scan))
<1> DEFINE last == << Stmt("delete", Ord(id), 0) >>
           D == {Stmt("delete", Ord(id), 0)}
           locks == OnAll("lock", a, scan, 0)
           U == {Stmt("lock", Pos(a, y), 0) : y \in T}
           adds == OnAll("add", a, scan, -n)
           V == {Stmt("add", Pos(a, y), -n) : y \in T}
           buy == << Stmt("lock", Acct(a), 0), Stmt("add", Acct(a), price * n) >>
           B == {Stmt("lock", Acct(a), 0), Stmt("add", Acct(a), price * n)}
<1>1. /\ last \in Seq(D) /\ 1 \in DOMAIN last /\ last[1].row[1] = "OPEN_ORDER"
      /\ \A t \in D : OrderStatement(t)
  BY DEF Stmt, Ord, OrderStatement
<1>2. CASE n < 0
  <2>1. /\ locks \in Seq(U) /\ \A t \in U : OrderStatement(t)
        /\ adds \in Seq(V) /\ \A t \in V : OrderStatement(t)
    <3>1. locks \in Seq(U) /\ \A t \in U : OrderStatement(t)
      BY PosStatement
    <3>2. adds \in Seq(V) /\ \A t \in V : OrderStatement(t)
      BY PosStatement
    <3>3. QED BY ONLY <3>1, <3>2
  <2> HIDE DEF last, D, locks, U, adds, V
  <2>2. locks \in Seq(U \cup V) /\ adds \in Seq(U \cup V)
    BY <2>1
  <2> DEFINE rest == locks \o adds
  <2>3. rest \in Seq(U \cup V)
    BY <2>2
  <2> HIDE DEF rest
  <2>4. OnOrders(rest \o last)
    <3>1. \A t \in (U \cup V) \cup D : OrderStatement(t)
      BY <1>1, <2>1
    <3>2. QED BY <1>1, <2>3, <3>1, Joined
  <2>5. QED BY <1>2, <2>4 DEF CancelOrder, rest, locks, adds, last
<1>3. CASE ~(n < 0)
  <2>1. buy \in Seq(B) /\ \A t \in B : OrderStatement(t)
    BY DEF Stmt, Acct, OrderStatement
  <2> HIDE DEF last, D, buy, B
  <2>2. OnOrders(buy \o last)
    BY <1>1, <2>1, Joined
  <2>3. QED BY <1>3, <2>2 DEF CancelOrder, buy, last
<1>4. QED BY <1>2, <1>3

\* A transaction creates an account, creates or adds to a position, or is an order's.
LEMMA Shape ==
  ASSUME NEW p, IsTransaction(p)
  PROVE  OneInsert(p) \/ Grant(p) \/ OnOrders(p)
<1>1. ASSUME NEW a, NEW n, p = CreateAccount(a, n)
      PROVE  OneInsert(p)
  BY <1>1 DEF OneInsert, CreateAccount, Stmt, Acct
<1>2. ASSUME NEW a, NEW s, NEW n, p = CreatePosition(a, s, n)
      PROVE  Grant(p)
  BY <1>2 DEF Grant, CreatePosition, Stmt, Acct, Pos
<1>3. QED BY <1>1, <1>2, CreateOrderShape, SelectOrdersShape, MatchOrderShape, CancelOrderShape
             DEF IsTransaction

-----------------------------------------------------------------------------
\* Before its first statement a transaction holds nothing.
Untouched(w) == Active(w) /\ tx[w].at = 1 => held[w] = {} /\ dirty[w] = {}

\* A grant holds at most the position it has found; once it has inserted one, nobody
\* else sees the row or may touch it.
GrantOK(w) ==
  Active(w) /\ Grant(program[w]) =>
    LET r == program[w][1].row
    IN /\ tx[w].at = 2 => dirty[w] = {} /\ held[w] \subseteq {<<r, "update">>}
       /\ tx[w].at = 3 /\ tx[w].new => /\ store[r] = {}
                                       /\ <<r, "update">> \in held[w]
                                       /\ \A k \in held[w] : k[1] = r

CreationsInvariant ==
  /\ LockInvariant
  /\ \A w \in Workers : IsTransaction(program[w])
  /\ \A w \in Workers : Untouched(w) /\ GrantOK(w)
  /\ CreationsAgree

\* Whoever is in a cycle of waits waits for somebody, and somebody who holds a lock
\* waits for it.
LEMMA InCycle ==
  ASSUME NEW w \in Workers, w \in Behind(w)
  PROVE  /\ WaitsFor(w) # {}
         /\ \E v \in Workers \ {w} : held[v] # {} /\ w \in WaitsFor(v)
<1>1. WaitsFor(w) # {}
  <2>1. SUFFICES ASSUME WaitsFor(w) = {} PROVE FALSE
    OBVIOUS
  <2>2. w \in {}
    BY <2>1 DEF Behind
  <2>3. QED BY <2>2
<1>2. \E v \in Workers \ {w} : held[v] # {} /\ w \in WaitsFor(v)
  <2>1. SUFFICES ASSUME \A v \in Workers \ {w} : held[v] # {} => w \notin WaitsFor(v)
                 PROVE  FALSE
    OBVIOUS
  <2> DEFINE S == {u \in Workers : held[u] # {}} \ {w}
  <2>2. \A v \in Workers : WaitsFor(v) \subseteq {u \in Workers \ {v} : held[u] # {}}
    BY DEF WaitsFor
  <2>3. WaitsFor(w) \subseteq S /\ \A v \in S : WaitsFor(v) \subseteq S
    BY <2>1, <2>2
  <2>4. S \in SUBSET Workers /\ w \notin S
    OBVIOUS
  <2>5. QED BY <2>3, <2>4 DEF Behind
<1>3. QED BY <1>1, <1>2

\* A creation in a cycle of waits has inserted a position that a fill is about to insert.
LEMMA AbortedForFill ==
  ASSUME CreationsInvariant, NEW w \in Workers, Abort(w), ~HasOrder(w)
  PROVE  \E u \in Workers : /\ HasOrder(u)
                            /\ \E i \in DOMAIN program[u] : /\ program[u][i].op = "store"
                                                            /\ program[u][i].row[1] = "POSITION"
                                                            /\ program[u][i].row \in RowsOf(w)
<1> DEFINE p == program[w]
<1>1. /\ LockInvariant /\ TypeOK /\ Compatible /\ WritesLocked
      /\ Runs(w) /\ Active(w) /\ (Duplicate(w) \/ w \in Behind(w))
      /\ \A u \in Workers : IsTransaction(program[u]) /\ Untouched(u) /\ GrantOK(u)
  BY DEF CreationsInvariant, LockInvariant, Abort, Runs
<1>2. /\ \A u \in Workers : program[u] \in Seq(Statement) /\ DOMAIN program[u] = 1 .. Len(program[u])
      /\ \A u \in Workers : tx[u].at \in Nat \ {0}
      /\ tx[w].at <= Len(p) /\ tx[w].at \in Nat \ {0} /\ Len(p) \in Nat
      /\ tx[w].at \in DOMAIN p
  BY <1>1 DEF TypeOK, Runs
<1>3. OneInsert(p) \/ Grant(p)
  <2>1. DOMAIN p # {}
    BY <1>2
  <2>2. OnOrders(p) => HasOrder(w)
    BY <2>1 DEF OnOrders, HasOrder, RowsOf
  <2>3. QED BY <1>1, <2>2, Shape
<1>4. tx[w].at \in {1, 2, 3} /\ (OneInsert(p) => tx[w].at = 1)
  BY <1>2, <1>3 DEF OneInsert, Grant
<1>5. w \in Behind(w)
  <2>1. Current(w).op \in {"ensure", "lock", "upsert", "ref"}
    BY <1>3, <1>4 DEF OneInsert, Grant, Current
  <2>2. ~Duplicate(w)
    BY <2>1 DEF Duplicate
  <2>3. QED BY <1>1, <2>2
<1>6. WaitsFor(w) # {}
  BY <1>5, InCycle
<1>7. PICK v \in Workers \ {w} : held[v] # {} /\ w \in WaitsFor(v)
  BY <1>5, InCycle
<1>8. PICK m \in Needs(v), k \in held[w] : k[1] = Current(v).row /\ Conflict(m, k[2]) /\ Runs(v)
  BY <1>7 DEF WaitsFor
<1>9. tx[w].at # 1
  BY <1>1, <1>8 DEF Untouched
<1>10. Grant(p) /\ tx[w].at \in {2, 3}
  BY <1>3, <1>4, <1>9
<1>11. PICK r : r = p[1].row
  OBVIOUS
<1>12. /\ r[1] = "POSITION" /\ r = p[2].row /\ r \in RowsOf(w)
       /\ p[2].op = "upsert" /\ p[3].op = "ref" /\ Len(p) = 3
  BY <1>2, <1>10, <1>11 DEF Grant, RowsOf
<1>13. tx[w].at = 3
  <2>1. SUFFICES ASSUME tx[w].at = 2 PROVE FALSE
    BY <1>10
  <2>2. held[w] \subseteq {<<r, "update">>}
    BY <1>1, <1>10, <1>11, <2>1 DEF GrantOK
  <2>3. <<r, "update">> \in held[w]
    BY <1>8, <2>2
  <2>4. Current(w).row = r
    BY <1>12, <2>1 DEF Current
  <2>5. PICK u \in Workers \ {w} : \E l \in held[u] : l[1] = r
    BY <1>6, <2>4 DEF WaitsFor
  <2>6. PICK l \in held[u] : l[1] = r
    BY <2>5
  <2>7. ~Conflict("update", l[2])
    BY <1>1, <2>3, <2>6 DEF Compatible
  <2>8. QED BY <2>7 DEF Conflict
<1>14. tx[w].new
  <2>1. Current(w).op = "ref"
    BY <1>12, <1>13 DEF Current
  <2>2. PICK n : n \in Needs(w)
    BY <1>6 DEF WaitsFor
  <2>3. QED BY <2>1, <2>2 DEF Needs
<1>15. /\ store[r] = {} /\ <<r, "update">> \in held[w]
       /\ \A l \in held[w] : l[1] = r
  BY <1>1, <1>10, <1>11, <1>13, <1>14 DEF GrantOK
<1>16. Current(v).row = r
  BY <1>8, <1>15
<1>17. \A n \in Modes : <<r, n>> \notin held[v]
  <2>1. SUFFICES ASSUME NEW n \in Modes, <<r, n>> \in held[v] PROVE FALSE
    OBVIOUS
  <2>2. ~Conflict("update", n)
    BY <1>1, <1>7, <1>15, <2>1 DEF Compatible
  <2>3. QED BY <2>2 DEF Conflict
<1>18. Seen(v, r) = {}
  <2>1. r \notin dirty[v]
    BY <1>1, <1>17 DEF WritesLocked, Modes
  <2>2. QED BY <1>15, <2>1 DEF Seen
<1>19. Current(v).op \notin {"lock", "add"}
  BY <1>8, <1>16, <1>18 DEF Needs
<1>20. tx[v].at <= Len(program[v]) /\ Current(v) = program[v][tx[v].at] /\ Active(v)
       /\ tx[v].at \in DOMAIN program[v]
  BY <1>2, <1>8 DEF Runs, Current
<1>21. OnOrders(program[v])
  <2>1. ~OneInsert(program[v])
    <3>1. SUFFICES ASSUME OneInsert(program[v]) PROVE FALSE
      OBVIOUS
    <3>2. tx[v].at = 1
      BY <1>2, <1>20, <3>1 DEF OneInsert
    <3>3. QED BY <1>1, <1>7, <1>20, <3>2 DEF Untouched
  <2>2. ~Grant(program[v])
    <3>1. SUFFICES ASSUME Grant(program[v]) PROVE FALSE
      OBVIOUS
    <3>2. tx[v].at \in {1, 2, 3}
      BY <1>2, <1>20, <3>1 DEF Grant
    <3>3. tx[v].at # 1
      BY <1>1, <1>7, <1>20 DEF Untouched
    <3>4. tx[v].at # 3
      BY <1>12, <1>16, <1>20, <3>1 DEF Grant
    <3>5. tx[v].at = 2 /\ program[v][1].row = r
      BY <1>16, <1>20, <3>1, <3>2, <3>3, <3>4 DEF Grant
    <3>6. held[v] \subseteq {<<r, "update">>}
      BY <1>1, <1>20, <3>1, <3>5 DEF GrantOK
    <3>7. QED BY <1>7, <1>17, <3>6 DEF Modes
  <2>3. QED BY <1>1, <2>1, <2>2, Shape
<1>22. Current(v).op = "store"
  <2>1. OrderStatement(Current(v))
    BY <1>20, <1>21 DEF OnOrders
  <2>2. QED BY <1>12, <1>16, <1>19, <2>1 DEF OrderStatement
<1>23. HasOrder(v)
  BY <1>20, <1>21 DEF OnOrders, HasOrder, RowsOf
<1>24. QED BY <1>12, <1>16, <1>20, <1>22, <1>23

\* A worker that does not move keeps what it has found: nobody else writes a row
\* that it has locked.
LEMMA OthersGrant ==
  ASSUME CreationsInvariant, NEW w \in Workers, NEW u \in Workers, u # w, program' = program,
         tx'[u] = tx[u], held'[u] = held[u], dirty'[u] = dirty[u],
         \A r \in Rows \ dirty[w] : store'[r] = store[r]
  PROVE  (Untouched(u) /\ GrantOK(u))'
<1>1. /\ LockInvariant /\ TypeOK /\ Compatible /\ WritesLocked /\ Untouched(u) /\ GrantOK(u)
  BY DEF CreationsInvariant, LockInvariant
<1>2. Active(u)' = Active(u)
  BY DEF Active
<1>3. Untouched(u)'
  BY <1>1, <1>2 DEF Untouched
<1>4. GrantOK(u)'
  <2>1. SUFFICES ASSUME Active(u), Grant(program[u]), NEW r, r = program[u][1].row
                 PROVE  /\ tx[u].at = 2 => dirty[u] = {} /\ held[u] \subseteq {<<r, "update">>}
                        /\ tx[u].at = 3 /\ tx[u].new => /\ store'[r] = {}
                                                        /\ <<r, "update">> \in held[u]
                                                        /\ \A k \in held[u] : k[1] = r
    BY <1>2 DEF GrantOK
  <2>2. /\ tx[u].at = 2 => dirty[u] = {} /\ held[u] \subseteq {<<r, "update">>}
        /\ tx[u].at = 3 /\ tx[u].new => /\ store[r] = {}
                                        /\ <<r, "update">> \in held[u]
                                        /\ \A k \in held[u] : k[1] = r
    BY <1>1, <2>1 DEF GrantOK
  <2>3. <<r, "update">> \in held[u] => r \in Rows /\ r \notin dirty[w]
    <3>1. <<r, "update">> \in held[u] => r \in Rows
      BY <1>1 DEF TypeOK
    <3>2. QED BY <1>1, <3>1, Apart
  <2>4. QED BY <2>2, <2>3
<1>5. QED BY <1>3, <1>4

LEMMA ExecuteGrant ==
  ASSUME CreationsInvariant, NEW w \in Workers, Execute(w)
  PROVE  (Untouched(w) /\ GrantOK(w))'
<1> DEFINE s == Current(w)
           v == Seen(w, s.row)
           new == Value(s, v, tx[w].read)
<1>1. /\ TypeOK /\ Runs(w) /\ Active(w) /\ GrantOK(w) /\ Untouched(w)
      /\ tx[w].at \in Nat \ {0} /\ held[w] \subseteq Rows \X Modes
  BY DEF CreationsInvariant, LockInvariant, Execute, Runs, TypeOK
<1>2. /\ held'[w] = held[w] \cup {<<s.row, m>> : m \in Needs(w)}
      /\ dirty'[w] = IF new # v THEN dirty[w] \cup {s.row} ELSE dirty[w]
      /\ tx'[w].at = tx[w].at + 1
      /\ tx'[w].new = (v = {} /\ new # v)
      /\ program' = program /\ store' = store
  BY <1>1 DEF Execute, TypeOK
<1>3. Untouched(w)'
  BY <1>1, <1>2 DEF Untouched
<1>4. GrantOK(w)'
  <2>1. SUFFICES ASSUME Grant(program[w]), NEW r, r = program[w][1].row
                 PROVE  /\ tx'[w].at = 2 => dirty'[w] = {} /\ held'[w] \subseteq {<<r, "update">>}
                        /\ tx'[w].at = 3 /\ tx'[w].new => /\ store[r] = {}
                                                          /\ <<r, "update">> \in held'[w]
                                                          /\ \A k \in held'[w] : k[1] = r
    BY <1>2 DEF GrantOK
  <2>2. ASSUME tx'[w].at = 2
        PROVE  dirty'[w] = {} /\ held'[w] \subseteq {<<r, "update">>}
    <3>1. tx[w].at = 1
      BY <1>1, <1>2, <2>2
    <3>2. s.op = "lock" /\ s.row = r
      BY <2>1, <3>1 DEF Grant, Current
    <3>3. held[w] = {} /\ dirty[w] = {}
      BY <1>1, <3>1 DEF Untouched
    <3>4. new = v
      BY <3>2 DEF Value
    <3>5. Needs(w) \subseteq {"update"}
      BY <3>2 DEF Needs
    <3> HIDE DEF s, v, new
    <3>6. QED BY <1>2, <3>2, <3>3, <3>4, <3>5
  <2>3. ASSUME tx'[w].at = 3, tx'[w].new
        PROVE  store[r] = {} /\ <<r, "update">> \in held'[w] /\ \A k \in held'[w] : k[1] = r
    <3>1. tx[w].at = 2
      BY <1>1, <1>2, <2>3
    <3>2. s.op = "upsert" /\ s.row = r
      BY <2>1, <3>1 DEF Grant, Current
    <3>3. held[w] \subseteq {<<r, "update">>} /\ dirty[w] = {}
      BY <1>1, <2>1, <3>1 DEF GrantOK
    <3>4. v = {} /\ store[r] = {}
      BY <1>2, <2>3, <3>2, <3>3 DEF Seen
    <3>5. Needs(w) = {"update"}
      BY <3>2, <3>4 DEF Needs
    <3> HIDE DEF s, v, new
    <3>6. QED BY <1>2, <3>2, <3>3, <3>4, <3>5
  <2>4. QED BY <2>2, <2>3
<1>5. QED BY <1>3, <1>4

\* An abort stays blamed on the fill it is blamed on: programs do not change.
LEMMA AgreeStep ==
  ASSUME CreationsAgree, program' = program,
         \A u \in Workers : tx'[u].end = "aborted" =>
           tx[u].end = "aborted" \/ HasOrder(u)
             \/ \E x \in Workers : /\ HasOrder(x)
                                   /\ \E i \in DOMAIN program[x] : /\ program[x][i].op = "store"
                                                                   /\ program[x][i].row[1] = "POSITION"
                                                                   /\ program[x][i].row \in RowsOf(u)
  PROVE  CreationsAgree'
<1>1. \A u \in Workers : RowsOf(u)' = RowsOf(u) /\ HasOrder(u)' = HasOrder(u)
  BY DEF RowsOf, HasOrder
<1>2. QED BY <1>1 DEF CreationsAgree

LEMMA NextCreations == CreationsInvariant /\ [Next]_vars => CreationsInvariant'
<1> SUFFICES ASSUME CreationsInvariant, [Next]_vars PROVE CreationsInvariant'
  OBVIOUS
<1>1. LockInvariant' /\ TypeOK
  BY NextLocks DEF CreationsInvariant, LockInvariant
<1>2. CASE UNCHANGED vars
  <2>1. \A w \in Workers : (Untouched(w) /\ GrantOK(w))'
    BY <1>2 DEF CreationsInvariant, vars, Untouched, GrantOK, Active
  <2>2. CreationsAgree'
    BY <1>2, AgreeStep DEF CreationsInvariant, vars
  <2>3. QED BY <1>1, <1>2, <2>1, <2>2 DEF CreationsInvariant, vars
<1>3. ASSUME NEW w \in Workers, TxStep(w)
      PROVE  CreationsInvariant'
  <2>1. /\ program' = program
        /\ \A u \in Workers \ {w} : tx'[u] = tx[u] /\ held'[u] = held[u] /\ dirty'[u] = dirty[u]
    <3>1. CASE Execute(w)
      BY <1>1, <3>1 DEF Execute, TypeOK
    <3>2. CASE Commit(w)
      BY <1>1, <3>2 DEF Commit, End, TypeOK
    <3>3. CASE Abort(w)
      BY <1>1, <3>3 DEF Abort, End, TypeOK
    <3>4. QED BY <1>3, <3>1, <3>2, <3>3 DEF TxStep
  <2>2. \A r \in Rows \ dirty[w] : store'[r] = store[r]
    BY <1>1, <1>3 DEF TxStep, Execute, Commit, Abort, Seen, TypeOK
  <2>3. \A u \in Workers : (Untouched(u) /\ GrantOK(u))'
    <3>1. ASSUME NEW u \in Workers, u # w
          PROVE  (Untouched(u) /\ GrantOK(u))'
      BY <2>1, <2>2, <3>1, OthersGrant
    <3>2. (Untouched(w) /\ GrantOK(w))'
      <4>1. CASE Execute(w)
        BY <4>1, ExecuteGrant
      <4>2. CASE Commit(w) \/ Abort(w)
        <5>1. ~Active(w)'
          BY <1>1, <4>2 DEF Commit, Abort, End, Active, TypeOK
        <5>2. QED BY <5>1 DEF Untouched, GrantOK
      <4>3. QED BY <1>3, <4>1, <4>2 DEF TxStep
    <3>3. QED BY <3>1, <3>2
  <2>4. CreationsAgree'
    <3>1. CASE Execute(w) \/ Commit(w)
      <4>1. tx'[w].end # "aborted"
        BY <1>1, <3>1 DEF Execute, Commit, End, TypeOK
      <4>2. QED BY <2>1, <4>1, AgreeStep DEF CreationsInvariant
    <3>2. CASE Abort(w)
      BY <2>1, <3>2, AbortedForFill, AgreeStep DEF CreationsInvariant
    <3>3. QED BY <1>3, <3>1, <3>2 DEF TxStep
  <2>5. QED BY <1>1, <2>1, <2>3, <2>4 DEF CreationsInvariant
<1>4. QED BY <1>2, <1>3 DEF Next

\* danger_log.txt: "combine them into one exec() call using INSERT ON CONFLICT DO
\* UPDATE".  However many of the transactions of Database.cpp run at the same time,
\* on whatever rows: CreateAccount is never aborted, and CreatePosition only beside
\* a MatchOrder that writes the same position.
THEOREM CreationsSucceed ==
  ASSUME \A m \in Mixes : \A w \in Workers : IsTransaction(m[w])
  PROVE  Spec => []CreationsAgree
<1>1. Init => CreationsInvariant
  <2>1. SUFFICES ASSUME Init PROVE CreationsInvariant
    OBVIOUS
  <2>2. \A w \in Workers : /\ IsTransaction(program[w])
                           /\ held[w] = {} /\ dirty[w] = {} /\ tx[w].at = 1 /\ tx[w].end = "no"
    BY <2>1 DEF Init
  <2>3. QED BY <2>1, <2>2, InitLocks DEF CreationsInvariant, Untouched, GrantOK, CreationsAgree
<1>2. CreationsInvariant => CreationsAgree
  BY DEF CreationsInvariant
<1>3. QED BY <1>1, <1>2, NextCreations, PTL DEF Spec

-----------------------------------------------------------------------------
(* The committed transactions might have run alone, in the order of their  *)
(* commits, if none passes over a row that another one inserts.  What a    *)
(* transaction sees is at all times what its statements would make of the  *)
(* rows as they are committed now: what it has used is locked, so a commit *)
(* of another transaction only changes rows that it would leave alone.     *)

Snapshot == [rows : [Rows -> SUBSET Int], read : SUBSET Int]

LEMMA OnRows == Statement = StatementOn(Rows) /\ Snapshot = SnapshotOn(Rows)
  BY DEF Statement, StatementOn, Snapshot, SnapshotOn

LEMMA ApplyType ==
  ASSUME NEW l \in Snapshot, NEW s \in Statement
  PROVE  /\ Apply(l, s) \in Snapshot
         /\ Apply(l, s).rows = [l.rows EXCEPT ![s.row] = Value(s, l.rows[s.row], l.read)]
         /\ s.row \in Rows
  BY OnRows, ApplyOn

\* A transaction run alone goes statement by statement.
LEMMA ReplaySteps ==
  ASSUME NEW p \in Seq(Statement), NEW rows \in [Rows -> SUBSET Int]
  PROVE  /\ Replay(p, rows) \in [0 .. Len(p) -> Snapshot]
         /\ Replay(p, rows)[0] = [rows |-> rows, read |-> {}]
         /\ \A i \in 1 .. Len(p) : Replay(p, rows)[i] = Apply(Replay(p, rows)[i - 1], p[i])
  BY OnRows, ReplayOn

LEMMA AloneType ==
  ASSUME NEW p \in Seq(Statement), NEW rows \in [Rows -> SUBSET Int]
  PROVE  Alone(p, rows) \in [Rows -> SUBSET Int]
  BY OnRows, AloneOn

\* Transactions run one after the other: the rows after each of them.
RowsAfter(n, order, ps) ==
  LET rows[k \in 0 .. n] == IF k = 0 THEN Opening ELSE Alone(ps[order[k]], rows[k - 1])
  IN rows

LEMMA OneByOne ==
  ASSUME NEW n \in Nat, NEW order \in [1 .. n -> Workers], NEW ps \in [Workers -> Seq(Statement)],
         NEW R, R = RowsAfter(n, order, ps)
  PROVE  R[0] = Opening /\ \A k \in 1 .. n : R[k] = Alone(ps[order[k]], R[k - 1])
<1> DEFINE S == [Rows -> SUBSET Int]
           g == [x \in (1 .. n) \X S |-> Alone(ps[order[x[1]]], x[2])]
<1>1. Opening \in S
  BY LocksAssumption
<1>2. g \in [(1 .. n) \X S -> S]
  <2>1. ASSUME NEW x \in (1 .. n) \X S
        PROVE  Alone(ps[order[x[1]]], x[2]) \in S
    BY AloneType
  <2> HIDE DEF S
  <2>2. QED BY <2>1
<1> HIDE DEF S
<1>3. PICK f : Follows(f, S, n, Opening, g)
  <2> HIDE DEF g
  <2>1. QED BY <1>1, <1>2, Recursion
<1>4. \A i \in 1 .. n : f[i] = Alone(ps[order[i]], f[i - 1])
  <2>1. ASSUME NEW i \in 1 .. n PROVE f[i] = Alone(ps[order[i]], f[i - 1])
    <3>1. <<i, f[i - 1]>> \in (1 .. n) \X S
      BY <1>3 DEF Follows
    <3>2. QED BY <1>3, <3>1 DEF Follows
  <2>2. QED BY <2>1
<1>5. f = [k \in 0 .. n |-> IF k = 0 THEN Opening ELSE Alone(ps[order[k]], f[k - 1])]
  <2>1. ASSUME NEW k \in 0 .. n
        PROVE  f[k] = IF k = 0 THEN Opening ELSE Alone(ps[order[k]], f[k - 1])
    BY <1>3, <1>4 DEF Follows
  <2>2. f \in [0 .. n -> S]
    BY <1>3 DEF Follows
  <2>3. QED BY <2>1, <2>2
<1>6. R = [k \in 0 .. n |-> IF k = 0 THEN Opening ELSE Alone(ps[order[k]], R[k - 1])]
  BY <1>5 DEF RowsAfter
<1>7. 0 \in 0 .. n /\ 1 .. n \subseteq 0 .. n /\ \A k \in 1 .. n : k # 0
  OBVIOUS
<1>8. QED BY ONLY <1>6, <1>7, SMT

\* A transaction that commits what it makes of the committed rows when run alone
\* comes after those that committed before it.
LEMMA CommitSerial ==
  ASSUME TypeOK, IsFiniteSet(Workers), Serializable, NEW w \in Workers, Commit(w),
         store' = Alone(program[w], store)
  PROVE  Serializable'
<1>1. PICK C : C = Committed
  OBVIOUS
<1>2. PICK D : D = Committed'
  OBVIOUS
<1>3. C \subseteq Workers /\ w \notin C /\ D = C \cup {w} /\ program' = program
  BY <1>1, <1>2 DEF Commit, End, Active, Committed, TypeOK
<1>4. PICK n : n = Cardinality(C)
  OBVIOUS
<1>5. IsFiniteSet(C) /\ n \in Nat /\ Cardinality(D) = n + 1
  BY <1>3, <1>4, FS_Subset, FS_CardinalityType, FS_AddElement
<1>6. PICK order \in Bijection(1 .. n, C) : store = InOrder(order)[n]
  BY <1>1, <1>4 DEF Serializable, Orders
<1> DEFINE later == [k \in 1 .. (n + 1) |-> IF k = n + 1 THEN w ELSE order[k]]
<1>7. PICK R : R = InOrder(order)
  OBVIOUS
<1>8. PICK Q : Q = InOrder(later)'
  OBVIOUS
<1>9. order \in [1 .. n -> C] /\ \A i, j \in 1 .. n : order[i] = order[j] => i = j
  BY <1>6 DEF Bijection, Injection, IsInjective
<1>10. \A t \in C : \E i \in 1 .. n : order[i] = t
  BY <1>6 DEF Bijection, Surjection
<1>11. later \in [1 .. (n + 1) -> D] /\ later[n + 1] = w /\ \A k \in 1 .. n : later[k] = order[k]
  <2>1. \A k \in 1 .. (n + 1) : k # n + 1 => k \in 1 .. n
    BY <1>5
  <2>2. n + 1 \in 1 .. (n + 1) /\ \A k \in 1 .. n : k \in 1 .. (n + 1) /\ k # n + 1
    BY <1>5
  <2>3. QED BY <1>3, <1>9, <2>1, <2>2
<1> HIDE DEF later
<1>12. later \in Bijection(1 .. (n + 1), D)
  <2>1. ASSUME NEW i \in 1 .. (n + 1), NEW j \in 1 .. (n + 1), later[i] = later[j]
        PROVE  i = j
    <3>1. (i = n + 1 \/ i \in 1 .. n) /\ (j = n + 1 \/ j \in 1 .. n)
      BY <1>5
    <3>2. QED BY <1>3, <1>9, <1>11, <2>1, <3>1
  <2>2. ASSUME NEW t \in D PROVE \E i \in 1 .. (n + 1) : later[i] = t
    <3>1. CASE t = w
      BY <1>5, <1>11, <3>1
    <3>2. CASE t \in C
      <4>1. PICK i \in 1 .. n : order[i] = t
        BY <1>10, <3>2
      <4>2. i \in 1 .. (n + 1)
        BY <1>5
      <4>3. QED BY <1>11, <4>1, <4>2
    <3>3. QED BY <1>3, <3>1, <3>2
  <2>3. QED BY <1>11, <2>1, <2>2 DEF Bijection, Injection, Surjection, IsInjective
<1>13. R[0] = Opening /\ \A k \in 1 .. n : R[k] = Alone(program[order[k]], R[k - 1])
  <2>1. R = RowsAfter(n, order, program)
    BY <1>1, <1>4, <1>7 DEF InOrder, RowsAfter
  <2>2. program \in [Workers -> Seq(Statement)] /\ order \in [1 .. n -> Workers]
    BY <1>3, <1>9 DEF TypeOK
  <2>3. QED BY <1>5, <2>1, <2>2, OneByOne
<1>14. Q[0] = Opening /\ \A k \in 1 .. (n + 1) : Q[k] = Alone(program[later[k]], Q[k - 1])
  <2>1. Q = RowsAfter(Cardinality(Committed)', later, program')
    BY <1>8 DEF InOrder, RowsAfter
  <2>2. Cardinality(Committed)' = n + 1
    BY <1>2, <1>5
  <2>3. Q = RowsAfter(n + 1, later, program)
    BY <1>3, <2>1, <2>2
  <2>4. program \in [Workers -> Seq(Statement)] /\ later \in [1 .. (n + 1) -> Workers]
    BY <1>3, <1>11 DEF TypeOK
  <2>5. n + 1 \in Nat
    BY <1>5
  <2>6. QED BY <2>3, <2>4, <2>5, OneByOne
<1>15. \A k \in 0 .. n : Q[k] = R[k]
  <2> DEFINE G == {k \in 0 .. n : Q[k] = R[k]}
  <2>1. 0 \in G
    BY <1>5, <1>13, <1>14
  <2>2. ASSUME NEW k \in 0 .. (n - 1), k \in G
        PROVE  k + 1 \in G
    <3>1. k + 1 \in 1 .. n /\ k + 1 \in 1 .. (n + 1) /\ k + 1 \in 0 .. n /\ (k + 1) - 1 = k
      BY <1>5
    <3>2. R[k + 1] = Alone(program[order[k + 1]], R[k])
      BY <1>13, <3>1
    <3>3. Q[k + 1] = Alone(program[later[k + 1]], Q[k])
      BY <1>14, <3>1
    <3>4. QED BY <1>11, <2>2, <3>1, <3>2, <3>3
  <2> HIDE DEF G
  <2>3. \A k \in 0 .. n : k \in G
    BY <1>5, <2>1, <2>2, Climb
  <2>4. QED BY <2>3 DEF G
<1>16. Q[n + 1] = store'
  <2>1. n + 1 \in 1 .. (n + 1) /\ (n + 1) - 1 = n /\ n \in 0 .. n
    BY <1>5
  <2>2. Q[n + 1] = Alone(program[w], Q[n]) /\ Q[n] = store
    BY <1>6, <1>7, <1>11, <1>14, <1>15, <2>1
  <2>3. QED BY <2>2
<1>17. \E o \in Bijection(1 .. (n + 1), D) : store' = InOrder(o)'[n + 1]
  BY <1>8, <1>12, <1>16
<1>18. QED BY <1>2, <1>5, <1>17 DEF Serializable, Orders

\* Rows that are there from the start and are never deleted are there.
Kept == \A r \in Rows : Stays(r) => store[r] # {} /\ newest[r] # {}

\* Only a transaction that inserts brings a row, only one that deletes takes it away.
Written ==
  \A w \in Workers : \A r \in dirty[w] :
    /\ store[r] = {} => Uses(w, Inserts, r)
    /\ newest[r] = {} => Uses(w, {"delete"}, r)

\* Statement i of w has its lock as a writer, or makes nothing of the committed row.
Settled(w, i) ==
  LET s == program[w][i]
  IN \/ s.op \in {"lock", "ref"}
     \/ \E m \in Writing : <<s.row, m>> \in held[w]
     \/ s.op \in Passes /\ store[s.row] = {}
     \/ s.op = "ensure" /\ store[s.row] # {}

AllSettled == \A w \in Workers : Active(w) => \A i \in 1 .. (tx[w].at - 1) : Settled(w, i)

View(w) == [r \in Rows |-> Seen(w, r)]

\* What a transaction sees is what its statements make of the committed rows when
\* they are run alone.
Replayed ==
  \A w \in Workers : Active(w) =>
    /\ tx[w].at - 1 <= Len(program[w])
    /\ Replay(program[w], store)[tx[w].at - 1].rows = View(w)

-----------------------------------------------------------------------------

LEMMA ValueFacts ==
  ASSUME NEW s \in Statement, NEW v \in SUBSET Int, NEW read \in SUBSET Int
  PROVE  /\ s.op \in Passes /\ v = {} => Value(s, v, read) = {}
         /\ v # {} /\ Value(s, v, read) = {} => s.op = "delete"
         /\ v = {} /\ Value(s, v, read) # {} => s.op \in Inserts
         /\ s.op \in {"lock", "ref"} => Value(s, v, read) = v
         /\ s.op = "ensure" /\ v # {} => Value(s, v, read) = v
         /\ s.op # "store" => \A other : Value(s, v, other) = Value(s, v, read)
<1>1. s.op \in Ops
  BY DEF Statement
<1>2. s.op \in Passes /\ v = {} => Value(s, v, read) = {}
  BY DEF Value, Passes
<1>3. v # {} /\ Value(s, v, read) = {} => s.op = "delete"
  BY <1>1 DEF Value, Ops
<1>4. v = {} /\ Value(s, v, read) # {} => s.op \in Inserts
  BY <1>1 DEF Value, Ops, Inserts
<1>5. s.op \in {"lock", "ref"} => Value(s, v, read) = v
  BY DEF Value
<1>6. s.op = "ensure" /\ v # {} => Value(s, v, read) = v
  BY DEF Value
<1>7. ASSUME s.op # "store", NEW other
      PROVE  Value(s, v, other) = Value(s, v, read)
  BY <1>1, <1>7 DEF Value, Ops
<1>8. QED BY <1>2, <1>3, <1>4, <1>5, <1>6, <1>7

LEMMA SameUses ==
  ASSUME program' = program, NEW w \in Workers, NEW ops, NEW r
  PROVE  Uses(w, ops, r)' <=> Uses(w, ops, r)
BY DEF Uses

LEMMA SameStays ==
  ASSUME program' = program, NEW r
  PROVE  Stays(r)' <=> Stays(r)
BY DEF Stays, Uses

LEMMA ExecuteSerial ==
  ASSUME LockInvariant, Kept, Written, AllSettled, Replayed, NEW w \in Workers, Execute(w)
  PROVE  Kept' /\ Written' /\ AllSettled' /\ Replayed'
<1>1. /\ TypeOK /\ Compatible /\ WritesLocked /\ ReadsCurrent
      /\ Runs(w) /\ ~Duplicate(w) /\ WaitsFor(w) = {} /\ Active(w)
  BY DEF LockInvariant, Execute, Runs
<1>2. PICK s : s = Current(w)
  OBVIOUS
<1>3. PICK v : v = Seen(w, s.row)
  OBVIOUS
<1>4. PICK new : new = Value(s, v, tx[w].read)
  OBVIOUS
<1>5. PICK i : i = tx[w].at
  OBVIOUS
<1>6. /\ s \in Statement /\ s.row \in Rows /\ v \in SUBSET Int /\ s.op \in Ops
      /\ \A r \in Rows : Seen(w, r) \in SUBSET Int
  BY <1>1, <1>2, <1>3, CurrentType
<1>7. /\ tx[w].read \in SUBSET Int /\ program[w] \in Seq(Statement) /\ ReadsFirst(program[w])
      /\ i \in 1 .. Len(program[w]) /\ s = program[w][i] /\ store \in [Rows -> SUBSET Int]
  BY <1>1, <1>2, <1>5 DEF TypeOK, Runs, Current
<1>8. new # v => \E m \in Writing : m \in Needs(w)
  BY <1>1, <1>2, <1>3, <1>4, WriteNeeds
<1>9. /\ held' = [held EXCEPT ![w] = held[w] \cup {<<s.row, m>> : m \in Needs(w)}]
      /\ newest' = IF new # v THEN [newest EXCEPT ![s.row] = new] ELSE newest
      /\ dirty' = IF new # v THEN [dirty EXCEPT ![w] = dirty[w] \cup {s.row}] ELSE dirty
      /\ tx' = [tx EXCEPT ![w] = [at |-> tx[w].at + 1,
                                  read |-> IF s.op = "lock" THEN v ELSE tx[w].read,
                                  new |-> v = {} /\ new # v,
                                  end |-> "no"]]
      /\ program' = program /\ store' = store
  BY <1>2, <1>3, <1>4 DEF Execute
<1>10. /\ \A u \in Workers \ {w} : held'[u] = held[u] /\ dirty'[u] = dirty[u] /\ tx'[u] = tx[u]
       /\ tx'[w].at = i + 1
       /\ held[w] \subseteq held'[w] /\ \A m \in Needs(w) : <<s.row, m>> \in held'[w]
       /\ \A r \in Rows : r # s.row \/ new = v => newest'[r] = newest[r]
       /\ new = v => dirty'[w] = dirty[w]
       /\ new # v => newest'[s.row] = new /\ dirty'[w] = dirty[w] \cup {s.row}
  <2>1. /\ \A u \in Workers \ {w} : held'[u] = held[u] /\ dirty'[u] = dirty[u] /\ tx'[u] = tx[u]
        /\ tx'[w].at = i + 1
    BY <1>1, <1>5, <1>9 DEF TypeOK
  <2>2. held[w] \subseteq held'[w] /\ \A m \in Needs(w) : <<s.row, m>> \in held'[w]
    BY <1>1, <1>9 DEF TypeOK
  <2>3. \A r \in Rows : r # s.row \/ new = v => newest'[r] = newest[r]
    BY <1>1, <1>9 DEF TypeOK
  <2>4. new = v => dirty'[w] = dirty[w]
    BY <1>9
  <2>5. new # v => newest'[s.row] = new /\ dirty'[w] = dirty[w] \cup {s.row}
    BY <1>1, <1>6, <1>9 DEF TypeOK
  <2>6. QED BY <2>1, <2>2, <2>3, <2>4, <2>5
\* The row it changes is not one that another transaction has written.
<1>11. ASSUME NEW u \in Workers \ {w}, s.row \in dirty[u]
       PROVE  new = v
  <2>1. SUFFICES ASSUME new # v PROVE FALSE
    OBVIOUS
  <2>2. PICK m \in Writing : m \in Needs(w)
    BY <1>8, <2>1
  <2>3. PICK n \in Writing : <<s.row, n>> \in held[u]
    BY <1>1, <1>11 DEF WritesLocked, Writing
  <2>4. Conflict(m, n)
    BY DEF Conflict, Writing
  <2>5. <<s.row, n>>[1] = Current(w).row /\ <<s.row, n>>[2] = n
    BY <1>2
  <2>6. u \in WaitsFor(w)
    BY <1>1, <2>2, <2>3, <2>4, <2>5 DEF WaitsFor
  <2>7. QED BY <1>1, <2>6
<1>12. \A r \in Rows : Seen(w, r)' = IF r = s.row THEN new ELSE Seen(w, r)
  <2>1. ASSUME NEW r \in Rows
        PROVE  Seen(w, r)' = IF r = s.row THEN new ELSE Seen(w, r)
    <3>1. CASE new = v
      <4>1. Seen(w, r)' = Seen(w, r)
        BY <1>9, <1>10, <3>1 DEF Seen
      <4>2. QED BY <1>3, <3>1, <4>1
    <3>2. CASE new # v
      BY <1>9, <1>10, <3>2 DEF Seen
    <3>3. QED BY <3>1, <3>2
  <2>2. QED BY <2>1
<1>13. \A u \in Workers \ {w} : \A r \in Rows : r \in dirty[u] => newest'[r] = newest[r]
  BY <1>10, <1>11
<1>14. \A u \in Workers \ {w} : \A r \in Rows : Seen(u, r)' = Seen(u, r)
  BY <1>9, <1>10, <1>13 DEF Seen
<1>15. Kept'
  <2>1. ASSUME NEW r \in Rows, Stays(r)'
        PROVE  store'[r] # {} /\ newest'[r] # {}
    <3>1. Stays(r)
      BY <1>9, <2>1, SameStays
    <3>2. store[r] # {} /\ newest[r] # {}
      BY <3>1 DEF Kept
    <3>3. CASE r = s.row /\ new # v
      <4>1. s.op # "delete"
        BY <1>7, <3>1, <3>3 DEF Stays, Uses
      <4>2. v # {}
        BY <1>3, <3>2, <3>3 DEF Seen
      <4>3. new # {}
        BY <1>4, <1>6, <1>7, <4>1, <4>2, ValueFacts
      <4>4. QED BY <1>9, <1>10, <3>2, <3>3, <4>3
    <3>4. CASE ~(r = s.row /\ new # v)
      BY <1>9, <1>10, <3>2, <3>4
    <3>5. QED BY <3>3, <3>4
  <2>2. QED BY <2>1 DEF Kept
<1>16. Written'
  <2>1. ASSUME NEW u \in Workers, NEW r \in dirty'[u]
        PROVE  /\ store'[r] = {} => Uses(u, Inserts, r)
               /\ newest'[r] = {} => Uses(u, {"delete"}, r)
    <3>1. r \in dirty[u] \/ (u = w /\ r = s.row /\ new # v)
      BY <1>10, <2>1
    <3>2. r \in dirty[u] =>
            (store[r] = {} => Uses(u, Inserts, r)) /\ (newest[r] = {} => Uses(u, {"delete"}, r))
      BY DEF Written
    <3>3. CASE u = w /\ r = s.row /\ new # v
      <4>1. s.op \in Inserts => Uses(u, Inserts, r)
        BY <1>7, <3>3 DEF Uses
      <4>2. s.op = "delete" => Uses(u, {"delete"}, r)
        BY <1>7, <3>3 DEF Uses
      <4>3. newest'[r] = new
        BY <1>10, <3>3
      <4>4. new = {} => Uses(u, {"delete"}, r)
        BY <1>4, <1>6, <1>7, <3>3, <4>2, ValueFacts
      <4>5. r \notin dirty[u] => v = store[r]
        BY <1>3, <3>3 DEF Seen
      <4>6. v = {} => Uses(u, Inserts, r)
        BY <1>4, <1>6, <1>7, <3>3, <4>1, ValueFacts
      <4>7. QED BY <1>9, <3>2, <4>3, <4>4, <4>5, <4>6
    <3>4. CASE r \in dirty[u] /\ ~(u = w /\ r = s.row /\ new # v)
      <4>1. newest'[r] = newest[r]
        BY <1>1, <1>10, <1>13, <3>4 DEF TypeOK
      <4>2. QED BY <1>9, <3>2, <3>4, <4>1
    <3>5. QED BY <3>1, <3>3, <3>4
  <2>2. QED BY <1>9, <2>1, SameUses DEF Written
<1>17. AllSettled'
  <2>1. ASSUME NEW u \in Workers \ {w}, NEW j, Settled(u, j)
        PROVE  Settled(u, j)'
    BY <1>9, <1>10, <2>1 DEF Settled
  <2>2. ASSUME NEW j, Settled(w, j)
        PROVE  Settled(w, j)'
    BY <1>9, <1>10, <2>2 DEF Settled
  <2>3. Settled(w, i)'
    <3>1. s.op \in {"lock", "ref"} \/ s.op \in Passes \/ s.op = "ensure"
          \/ s.op \in {"insert", "upsert", "store"}
      BY <1>6 DEF Ops, Passes
    <3>2. (\E m \in Writing : m \in Needs(w)) => \E m \in Writing : <<s.row, m>> \in held'[w]
      BY <1>10
    <3>3. s.row \in dirty[w] => \E m \in Writing : <<s.row, m>> \in held'[w]
      BY <1>1, <1>10 DEF WritesLocked, Writing
    <3>4. s.row \notin dirty[w] => v = store[s.row]
      BY <1>3 DEF Seen
    <3>5. CASE s.op \in Passes
      <4>1. v # {} => \E m \in Writing : m \in Needs(w)
        BY <1>2, <1>3, <3>5 DEF Needs, Writing, Passes
      <4>2. QED BY <1>7, <1>9, <3>2, <3>3, <3>4, <3>5, <4>1 DEF Settled
    <3>6. CASE s.op = "ensure"
      <4>1. v = {} => \E m \in Writing : m \in Needs(w)
        BY <1>2, <1>3, <3>6 DEF Needs, Writing
      <4>2. QED BY <1>7, <1>9, <3>2, <3>3, <3>4, <3>6, <4>1 DEF Settled
    <3>7. CASE s.op \in {"insert", "upsert", "store"}
      <4>1. CASE v = {}
        <5>1. "update" \in Needs(w)
          BY <1>2, <1>3, <3>7, <4>1 DEF Needs
        <5>2. QED BY <1>7, <1>9, <3>2, <5>1 DEF Settled, Writing
      <4>2. CASE v # {}
        <5>1. "write" \in Needs(w)
          BY <1>2, <1>3, <3>7, <4>2 DEF Needs
        <5>2. QED BY <1>7, <1>9, <3>2, <5>1 DEF Settled, Writing
      <4>3. QED BY <4>1, <4>2
    <3>8. CASE s.op \in {"lock", "ref"}
      BY <1>7, <1>9, <3>8 DEF Settled
    <3>9. QED BY <3>1, <3>5, <3>6, <3>7, <3>8
  <2>4. ASSUME NEW u \in Workers \ {w}, Active(u)', NEW j \in 1 .. (tx'[u].at - 1)
        PROVE  Settled(u, j)'
    <3>1. Active(u) /\ j \in 1 .. (tx[u].at - 1)
      BY <1>10, <2>4 DEF Active
    <3>2. QED BY <2>1, <3>1 DEF AllSettled
  <2>5. ASSUME NEW j \in 1 .. (tx'[w].at - 1)
        PROVE  Settled(w, j)'
    <3>1. j = i \/ j \in 1 .. (tx[w].at - 1)
      BY <1>5, <1>7, <1>10
    <3>2. QED BY <1>1, <2>2, <2>3, <3>1 DEF AllSettled
  <2>6. QED BY <2>4, <2>5 DEF AllSettled
<1>18. Replayed'
  <2>1. ASSUME NEW u \in Workers \ {w}, Active(u)'
        PROVE  /\ tx'[u].at - 1 <= Len(program'[u])
               /\ Replay(program'[u], store')[tx'[u].at - 1].rows = View(u)'
    <3>1. Active(u) /\ tx'[u] = tx[u]
      BY <1>10, <2>1 DEF Active
    <3>2. View(u)' = View(u)
      BY <1>14 DEF View
    <3>3. QED BY <1>9, <3>1, <3>2 DEF Replayed
  <2>2. PICK p : p = program[w]
    OBVIOUS
  <2>3. PICK R : R = Replay(p, store)
    OBVIOUS
  <2>4. /\ R \in [0 .. Len(p) -> Snapshot]
        /\ \A j \in 1 .. Len(p) : R[j] = Apply(R[j - 1], p[j])
    BY <1>7, <2>2, <2>3, ReplaySteps
  <2>5. R[i - 1].rows = View(w) /\ R[i - 1] \in Snapshot /\ R[i] = Apply(R[i - 1], s)
    <3>1. i \in 1 .. Len(p) /\ i - 1 \in 0 .. Len(p) /\ p[i] = s
      BY <1>7, <2>2
    <3>2. R[i - 1] \in Snapshot
      BY <2>4, <3>1, Zenon
    <3>3. R[i] = Apply(R[i - 1], s)
      BY <2>4, <3>1, Zenon
    <3>4. Replay(program[w], store)[tx[w].at - 1].rows = View(w)
      BY <1>1, Zenon DEF Replayed
    <3>5. R[i - 1].rows = View(w)
      BY <1>5, <2>2, <2>3, <3>4, Zenon
    <3>6. QED BY <3>2, <3>3, <3>5
  <2>6. R[i].rows = [View(w) EXCEPT ![s.row] = Value(s, View(w)[s.row], R[i - 1].read)]
    BY <1>6, <2>5, ApplyType
  <2>7. View(w)[s.row] = v
    BY <1>3, <1>6 DEF View
  <2>8. Value(s, v, R[i - 1].read) = new
    <3>1. CASE s.op # "store"
      <4>1. Value(s, v, R[i - 1].read) = Value(s, v, tx[w].read)
        BY <1>6, <1>7, <3>1, ValueFacts
      <4>2. QED BY <1>4, <4>1
    <3>2. CASE s.op = "store"
      <4>1. i > 1 /\ p[i - 1].op = "lock" /\ p[i - 1].row = s.row
        BY <1>7, <2>2, <3>2 DEF ReadsFirst
      <4>2. i - 1 \in 1 .. Len(p) /\ (i - 1) - 1 \in 0 .. Len(p) /\ p[i - 1] \in Statement
        BY <1>7, <2>2, <4>1
      <4>3. PICK l : l = R[(i - 1) - 1]
        OBVIOUS
      <4>4. l \in Snapshot /\ R[i - 1] = Apply(l, p[i - 1])
        BY <2>4, <4>2, <4>3
      <4>5. l.rows \in [Rows -> SUBSET Int] /\ l.read \in SUBSET Int
        BY <4>4 DEF Snapshot
      <4>6. Value(p[i - 1], l.rows[s.row], l.read) = l.rows[s.row]
        BY <1>6, <4>1, <4>2, <4>5, ValueFacts
      <4>7. R[i - 1].rows = [l.rows EXCEPT ![s.row] = l.rows[s.row]]
        BY <4>1, <4>2, <4>4, <4>6, ApplyType
      <4>8. R[i - 1].read = l.rows[s.row]
        BY <4>1, <4>4 DEF Apply
      <4>9. R[i - 1].read = v
        BY <1>6, <2>5, <2>7, <4>5, <4>7, <4>8
      <4>10. tx[w].read = v
        BY <1>1, <1>2, <1>3, <3>2 DEF ReadsCurrent, Duplicate
      <4>11. QED BY <1>4, <4>9, <4>10
    <3>3. QED BY <3>1, <3>2
  <2>9. View(w)' = [View(w) EXCEPT ![s.row] = new]
    BY <1>12 DEF View
  <2>10. R[i].rows = View(w)'
    BY <2>6, <2>7, <2>8, <2>9
  <2>11. /\ tx'[w].at - 1 <= Len(program'[w])
         /\ Replay(program'[w], store')[tx'[w].at - 1].rows = View(w)'
    <3>1. tx'[w].at - 1 = i /\ i <= Len(p)
      BY <1>7, <1>10, <2>2
    <3>2. QED BY <1>9, <2>2, <2>3, <2>10, <3>1
  <2>12. QED BY <2>1, <2>11 DEF Replayed
<1>19. QED BY <1>15, <1>16, <1>17, <1>18

\* Statement s makes nothing of its row.
Idle(s, rows) ==
  \/ s.op \in {"lock", "ref"}
  \/ s.op \in Passes /\ rows[s.row] = {}
  \/ s.op = "ensure" /\ rows[s.row] # {}

LEMMA IdleValue ==
  ASSUME NEW s \in Statement, NEW rows \in [Rows -> SUBSET Int], NEW read \in SUBSET Int,
         Idle(s, rows)
  PROVE  Value(s, rows[s.row], read) = rows[s.row]
<1>1. rows[s.row] \in SUBSET Int
  BY DEF Statement
<1>2. PICK v : v = rows[s.row]
  OBVIOUS
<1>3. s.op \in {"lock", "ref"} \/ (s.op \in Passes /\ v = {}) \/ (s.op = "ensure" /\ v # {})
  BY <1>2 DEF Idle
<1>4. Value(s, v, read) = v
  BY <1>1, <1>2, <1>3, ValueFacts
<1>5. QED BY <1>2, <1>4

\* What the committed rows become does not change what another transaction has made
\* of them so far: the rows it uses it has locked, and the others it leaves alone.
Spares(p, n, D, old, rows) ==
  /\ \A r \in Rows : r \notin D => rows[r] = old[r]
  /\ \A i \in 1 .. n : p[i].row \in D => Idle(p[i], old) /\ Idle(p[i], rows)

LEMMA OthersReplay ==
  ASSUME NEW p \in Seq(Statement), ReadsFirst(p), NEW n \in 0 .. Len(p), NEW D \in SUBSET Rows,
         NEW old \in [Rows -> SUBSET Int], NEW rows \in [Rows -> SUBSET Int],
         Spares(p, n, D, old, rows)
  PROVE  \A r \in Rows : Replay(p, rows)[n].rows[r] =
                           IF r \in D THEN rows[r] ELSE Replay(p, old)[n].rows[r]
<1>1. PICK Q : Q = Replay(p, old)
  OBVIOUS
<1>2. PICK R : R = Replay(p, rows)
  OBVIOUS
<1>3. /\ Q \in [0 .. Len(p) -> Snapshot] /\ Q[0] = [rows |-> old, read |-> {}]
      /\ \A i \in 1 .. Len(p) : Q[i] = Apply(Q[i - 1], p[i])
  BY <1>1, ReplaySteps
<1>4. /\ R \in [0 .. Len(p) -> Snapshot] /\ R[0] = [rows |-> rows, read |-> {}]
      /\ \A i \in 1 .. Len(p) : R[i] = Apply(R[i - 1], p[i])
  BY <1>2, ReplaySteps
<1>5. /\ \A r \in Rows : r \notin D => rows[r] = old[r]
      /\ \A i \in 1 .. n : p[i].row \in D => Idle(p[i], old) /\ Idle(p[i], rows)
  BY DEF Spares
<1> DEFINE Same(k) == \A r \in Rows : IF r \in D THEN Q[k].rows[r] = old[r] /\ R[k].rows[r] = rows[r]
                                      ELSE R[k].rows[r] = Q[k].rows[r]
           SameRead(k) == k > 0 /\ p[k].op = "lock" /\ p[k].row \notin D => R[k].read = Q[k].read
           G == {k \in 0 .. n : Same(k) /\ SameRead(k)}
<1>6. 0 \in G
  BY <1>3, <1>4, <1>5
<1>7. ASSUME NEW k \in 0 .. (n - 1), k \in G
      PROVE  k + 1 \in G
  <2>1. k + 1 \in 1 .. n /\ k + 1 \in 1 .. Len(p) /\ k \in 0 .. Len(p) /\ (k + 1) - 1 = k /\ n \in Nat
        /\ k + 1 \in 0 .. n
    OBVIOUS
  <2>2. PICK s : s = p[k + 1]
    OBVIOUS
  <2>3. PICK q : q = Q[k]
    OBVIOUS
  <2>4. PICK t : t = R[k]
    OBVIOUS
  <2>5. s \in Statement /\ s.row \in Rows /\ s.op \in Ops
    <3>1. s \in Statement
      BY <2>1, <2>2
    <3>2. QED BY <3>1 DEF Statement
  <2>6. q \in Snapshot /\ t \in Snapshot /\ Q[k + 1] = Apply(q, s) /\ R[k + 1] = Apply(t, s)
    BY <1>3, <1>4, <2>1, <2>2, <2>3, <2>4
  <2>7. /\ q.rows \in [Rows -> SUBSET Int] /\ q.read \in SUBSET Int
        /\ t.rows \in [Rows -> SUBSET Int] /\ t.read \in SUBSET Int
    BY <2>6 DEF Snapshot
  <2>8. /\ \A r \in D : q.rows[r] = old[r] /\ t.rows[r] = rows[r]
        /\ \A r \in Rows \ D : t.rows[r] = q.rows[r]
    BY <1>7, <2>3, <2>4
  <2>9. PICK a : a = Value(s, q.rows[s.row], q.read)
    OBVIOUS
  <2>10. PICK b : b = Value(s, t.rows[s.row], t.read)
    OBVIOUS
  <2>11. /\ Q[k + 1].rows = [q.rows EXCEPT ![s.row] = a]
         /\ R[k + 1].rows = [t.rows EXCEPT ![s.row] = b]
    BY <2>5, <2>6, <2>9, <2>10, ApplyType
  <2>12. /\ Q[k + 1].read = (IF s.op = "lock" THEN q.rows[s.row] ELSE q.read)
         /\ R[k + 1].read = (IF s.op = "lock" THEN t.rows[s.row] ELSE t.read)
    BY <2>6 DEF Apply
  <2>13. s.row \in D => a = old[s.row] /\ b = rows[s.row]
    <3>1. SUFFICES ASSUME s.row \in D PROVE a = old[s.row] /\ b = rows[s.row]
      OBVIOUS
    <3>2. q.rows[s.row] = old[s.row] /\ t.rows[s.row] = rows[s.row]
      BY <2>8, <3>1
    <3>3. Idle(s, old) /\ Idle(s, rows)
      BY <1>5, <2>1, <2>2, <3>1
    <3>5. a = old[s.row]
      BY <2>5, <2>7, <2>9, <3>2, <3>3, IdleValue
    <3>6. b = rows[s.row]
      BY <2>5, <2>7, <2>10, <3>2, <3>3, IdleValue
    <3>7. QED BY <3>5, <3>6
  <2>14. s.row \notin D => b = a
    <3>1. SUFFICES ASSUME s.row \notin D PROVE b = a
      OBVIOUS
    <3>2. t.rows[s.row] = q.rows[s.row] /\ q.rows[s.row] \in SUBSET Int
      BY <2>5, <2>7, <2>8, <3>1
    <3>3. CASE s.op # "store"
      BY <2>5, <2>7, <2>9, <2>10, <3>2, <3>3, ValueFacts
    <3>4. CASE s.op = "store"
      <4>1. k > 0 /\ p[k].op = "lock" /\ p[k].row = s.row
        BY <2>1, <2>2, <3>4 DEF ReadsFirst
      <4>2. t.read = q.read
        BY <1>7, <2>3, <2>4, <3>1, <4>1
      <4>3. QED BY <2>9, <2>10, <3>2, <4>2
    <3>5. QED BY <3>3, <3>4
  <2>15. Same(k + 1)
    <3>1. ASSUME NEW r \in Rows
          PROVE  IF r \in D THEN Q[k + 1].rows[r] = old[r] /\ R[k + 1].rows[r] = rows[r]
                 ELSE R[k + 1].rows[r] = Q[k + 1].rows[r]
      <4>1. CASE r = s.row
        <5>1. Q[k + 1].rows[r] = a /\ R[k + 1].rows[r] = b
          BY <2>5, <2>7, <2>11, <4>1
        <5>2. QED BY <2>13, <2>14, <4>1, <5>1
      <4>2. CASE r # s.row
        <5>1. Q[k + 1].rows[r] = q.rows[r] /\ R[k + 1].rows[r] = t.rows[r]
          BY <2>7, <2>11, <4>2
        <5>2. QED BY <2>8, <5>1
      <4>3. QED BY <4>1, <4>2
    <3>2. QED BY <3>1
  <2>16. SameRead(k + 1)
    BY <2>2, <2>5, <2>8, <2>12
  <2>17. QED BY <2>1, <2>15, <2>16
<1> HIDE DEF G
<1>8. n \in Nat /\ n \in 0 .. n
  OBVIOUS
<1>9. n \in G
  BY <1>6, <1>7, <1>8, Climb
<1>10. QED BY <1>1, <1>2, <1>9 DEF G

LEMMA CommitKeeps ==
  ASSUME LockInvariant, NonePassedOver, Kept, Written, AllSettled, Replayed,
         NEW w \in Workers, Commit(w)
  PROVE  /\ Kept' /\ Written' /\ AllSettled' /\ Replayed'
         /\ store' = Alone(program[w], store)
<1>1. /\ TypeOK /\ Compatible /\ WritesLocked
      /\ Active(w) /\ tx[w].at > Len(program[w]) /\ program' = program /\ newest' = newest
      /\ tx' = [tx EXCEPT ![w] = [tx[w] EXCEPT !.end = "committed"]]
      /\ held' = [held EXCEPT ![w] = {}] /\ dirty' = [dirty EXCEPT ![w] = {}]
      /\ store' = [r \in Rows |-> Seen(w, r)]
  BY DEF LockInvariant, Commit, End
<1>2. /\ \A u \in Workers \ {w} : held'[u] = held[u] /\ dirty'[u] = dirty[u] /\ tx'[u] = tx[u]
      /\ dirty'[w] = {} /\ ~Active(w)'
  BY <1>1 DEF TypeOK, Active
<1>3. \A u \in Workers : Active(u)' => u # w /\ Active(u)
  BY <1>2 DEF Active
<1>4. \A r \in Rows : store'[r] = IF r \in dirty[w] THEN newest[r] ELSE store[r]
  BY <1>1 DEF Seen
<1>5. \A u \in Workers \ {w} : \A r \in dirty[u] : r \notin dirty[w] /\ r \in Rows
  <2>1. ASSUME NEW u \in Workers \ {w}, NEW r \in dirty[u]
        PROVE  r \notin dirty[w]
    BY <1>1, <2>1, Apart
  <2>2. QED BY <1>1, <2>1 DEF TypeOK
<1>6. Kept'
  <2>1. ASSUME NEW r \in Rows, Stays(r)'
        PROVE  store'[r] # {} /\ newest'[r] # {}
    <3>1. Stays(r)
      BY <1>1, <2>1, SameStays
    <3>2. QED BY <1>1, <1>4, <3>1 DEF Kept
  <2>2. QED BY <2>1 DEF Kept
<1>7. Written'
  <2>1. ASSUME NEW u \in Workers, NEW r \in dirty'[u]
        PROVE  /\ store'[r] = {} => Uses(u, Inserts, r)
               /\ newest'[r] = {} => Uses(u, {"delete"}, r)
    <3>1. u # w /\ r \in dirty[u]
      BY <1>2, <2>1
    <3>2. store'[r] = store[r] /\ newest'[r] = newest[r]
      BY <1>1, <1>4, <1>5, <3>1
    <3>3. QED BY <3>1, <3>2 DEF Written
  <2>2. QED BY <1>1, <2>1, SameUses DEF Written
\* A statement on a row that w has written makes nothing of it, before and after.
<1>8. ASSUME NEW u \in Workers \ {w}, Active(u), NEW i \in 1 .. (tx[u].at - 1),
             program[u][i].row \in dirty[w]
      PROVE  Idle(program[u][i], store) /\ Idle(program[u][i], store')
  <2>1. PICK s : s = program[u][i]
    OBVIOUS
  <2>2. PICK r : r = s.row
    OBVIOUS
  <2>3. r \in dirty[w] /\ r \in Rows /\ store'[r] = newest[r]
    BY <1>1, <1>4, <1>8, <2>1, <2>2 DEF TypeOK
  <2>4. i \in DOMAIN program[u]
    BY <1>1, <1>8 DEF Replayed, TypeOK
  <2>5. \A m \in Writing : <<r, m>> \notin held[u]
    <3>1. PICK m \in Writing : <<r, m>> \in held[w]
      BY <1>1, <2>3 DEF WritesLocked, Writing
    <3>2. QED BY <1>1, <3>1 DEF Compatible, Conflict, Writing
  <2>6. \/ s.op \in {"lock", "ref"}
        \/ s.op \in Passes /\ store[r] = {}
        \/ s.op = "ensure" /\ store[r] # {}
    BY <1>8, <2>1, <2>2, <2>5 DEF AllSettled, Settled
  <2>7. CASE s.op \in Passes /\ store[r] = {}
    <3>1. Uses(w, Inserts, r)
      BY <2>3, <2>7 DEF Written
    <3>2. Uses(u, Passes, r)
      BY <2>1, <2>2, <2>4, <2>7 DEF Uses
    <3>3. Stays(r)
      BY <1>8, <2>3, <3>1, <3>2 DEF NonePassedOver
    <3>4. QED BY <2>3, <2>7, <3>3 DEF Kept
  <2>8. CASE s.op = "ensure" /\ store[r] # {}
    <3>1. newest[r] # {}
      <4>1. SUFFICES ASSUME newest[r] = {} PROVE FALSE
        OBVIOUS
      <4>2. Uses(w, {"delete"}, r)
        BY <2>3, <4>1 DEF Written
      <4>3. Uses(w, Passes, r)
        BY <4>2 DEF Uses, Passes
      <4>4. Uses(u, Inserts, r)
        BY <2>1, <2>2, <2>4, <2>8 DEF Uses, Inserts
      <4>5. Stays(r)
        BY <1>8, <2>3, <4>3, <4>4 DEF NonePassedOver
      <4>6. QED BY <4>2, <4>5 DEF Stays
    <3>2. QED BY <2>1, <2>2, <2>3, <2>8, <3>1 DEF Idle
  <2>9. CASE s.op \in {"lock", "ref"}
    BY <2>1, <2>9 DEF Idle
  <2>10. QED BY <2>6, <2>7, <2>8, <2>9
<1>9. AllSettled'
  <2>1. ASSUME NEW u \in Workers, Active(u)', NEW i \in 1 .. (tx'[u].at - 1)
        PROVE  Settled(u, i)'
    <3>1. u \in Workers \ {w} /\ Active(u) /\ i \in 1 .. (tx[u].at - 1)
      BY <1>2, <1>3, <2>1
    <3>2. Settled(u, i)
      BY <3>1 DEF AllSettled
    <3>3. program[u][i].row \in Rows
      <4>1. i \in 1 .. Len(program[u]) /\ program[u] \in Seq(Statement)
        BY <1>1, <3>1 DEF Replayed, TypeOK
      <4>2. program[u][i] \in Statement
        BY <4>1
      <4>3. QED BY <4>2 DEF Statement
    <3>4. CASE program[u][i].row \notin dirty[w]
      <4>1. store'[program[u][i].row] = store[program[u][i].row] /\ held'[u] = held[u]
        BY <1>2, <1>4, <3>1, <3>3, <3>4
      <4>2. QED BY <1>1, <3>2, <4>1 DEF Settled
    <3>5. CASE program[u][i].row \in dirty[w]
      BY <1>1, <1>8, <3>1, <3>5 DEF Settled, Idle
    <3>6. QED BY <3>4, <3>5
  <2>2. QED BY <2>1 DEF AllSettled
<1>10. Replayed'
  <2>1. ASSUME NEW u \in Workers, Active(u)'
        PROVE  /\ tx'[u].at - 1 <= Len(program'[u])
               /\ Replay(program'[u], store')[tx'[u].at - 1].rows = View(u)'
    <3>1. u \in Workers \ {w} /\ Active(u) /\ tx'[u] = tx[u] /\ dirty'[u] = dirty[u]
      BY <1>2, <1>3, <2>1
    <3>2. PICK n : n = tx[u].at - 1
      OBVIOUS
    <3>3. PICK p : p = program[u]
      OBVIOUS
    <3>4. n \in 0 .. Len(p) /\ p \in Seq(Statement) /\ ReadsFirst(p)
      BY <1>1, <3>1, <3>2, <3>3 DEF Replayed, TypeOK
    <3>5. Replay(p, store)[n].rows = View(u)
      BY <3>1, <3>2, <3>3 DEF Replayed
    <3>6. PICK rows : rows = store'
      OBVIOUS
    <3>7. PICK D : D = dirty[w]
      OBVIOUS
    <3>8. /\ store \in [Rows -> SUBSET Int] /\ rows \in [Rows -> SUBSET Int] /\ D \in SUBSET Rows
          /\ \A r \in Rows : r \notin D => rows[r] = store[r]
      BY <1>1, <1>4, <3>6, <3>7 DEF TypeOK, Seen
    <3>9. \A i \in 1 .. n : p[i].row \in D => Idle(p[i], store) /\ Idle(p[i], rows)
      BY <1>8, <3>1, <3>2, <3>3, <3>6, <3>7
    <3>10. \A r \in Rows : Replay(p, rows)[n].rows[r] =
                             IF r \in D THEN rows[r] ELSE Replay(p, store)[n].rows[r]
      <4>1. Spares(p, n, D, store, rows)
        BY <3>8, <3>9 DEF Spares
      <4>2. QED BY <3>4, <3>8, <4>1, OthersReplay
    <3>11. \A r \in Rows : Replay(p, rows)[n].rows[r] = Seen(u, r)'
      <4>1. ASSUME NEW r \in Rows
            PROVE  Replay(p, rows)[n].rows[r] = Seen(u, r)'
        <5>1. Seen(u, r)' = IF r \in dirty[u] THEN newest[r] ELSE rows[r]
          BY <1>1, <3>1, <3>6 DEF Seen
        <5>2. View(u)[r] = IF r \in dirty[u] THEN newest[r] ELSE store[r]
          BY DEF View, Seen
        <5>3. CASE r \in D
          <6>1. r \notin dirty[u]
            BY <1>5, <3>1, <3>7, <5>3
          <6>2. QED BY <3>10, <5>1, <5>3, <6>1
        <5>4. CASE r \notin D
          <6>1. rows[r] = store[r]
            BY <3>8, <5>4
          <6>2. QED BY <3>5, <3>10, <5>1, <5>2, <5>4, <6>1
        <5>5. QED BY <5>3, <5>4
      <4>2. QED BY <4>1
    <3>12. Replay(p, rows)[n].rows \in [Rows -> SUBSET Int]
      <4>1. Replay(p, rows) \in [0 .. Len(p) -> Snapshot]
        BY <3>4, <3>8, ReplaySteps
      <4>2. Replay(p, rows)[n] \in Snapshot
        BY <3>4, <4>1
      <4>3. QED BY <4>2 DEF Snapshot
    <3>13. Replay(p, rows)[n].rows = View(u)'
      BY <3>11, <3>12 DEF View
    <3>14. QED BY <1>1, <3>1, <3>2, <3>3, <3>4, <3>6, <3>13
  <2>2. QED BY <2>1 DEF Replayed
<1>11. store' = Alone(program[w], store)
  <2>1. tx[w].at - 1 = Len(program[w])
    BY <1>1 DEF Replayed, TypeOK
  <2>2. Replay(program[w], store)[Len(program[w])].rows = View(w)
    BY <1>1, <2>1 DEF Replayed
  <2>3. QED BY <1>1, <2>2 DEF Alone, View
<1>12. QED BY <1>6, <1>7, <1>9, <1>10, <1>11

LEMMA AbortKeeps ==
  ASSUME LockInvariant, Kept, Written, AllSettled, Replayed, NEW w \in Workers, Abort(w)
  PROVE  Kept' /\ Written' /\ AllSettled' /\ Replayed'
<1>1. /\ TypeOK /\ Compatible /\ WritesLocked /\ program' = program /\ store' = store
      /\ newest' = [r \in Rows |-> IF r \in dirty[w] THEN store[r] ELSE newest[r]]
      /\ tx' = [tx EXCEPT ![w] = [tx[w] EXCEPT !.end = "aborted"]]
      /\ held' = [held EXCEPT ![w] = {}] /\ dirty' = [dirty EXCEPT ![w] = {}]
  BY DEF LockInvariant, Abort, End
<1>2. /\ \A u \in Workers \ {w} : held'[u] = held[u] /\ dirty'[u] = dirty[u] /\ tx'[u] = tx[u]
      /\ dirty'[w] = {} /\ ~Active(w)'
  BY <1>1 DEF TypeOK, Active
<1>3. \A u \in Workers : Active(u)' => u \in Workers \ {w} /\ Active(u)
  BY <1>2 DEF Active
<1>4. \A u \in Workers \ {w} : \A r \in dirty[u] : newest'[r] = newest[r]
  <2>1. ASSUME NEW u \in Workers \ {w}, NEW r \in dirty[u]
        PROVE  newest'[r] = newest[r]
    <3>1. r \notin dirty[w]
      BY <1>1, <2>1, Apart
    <3>2. r \in Rows
      BY <1>1 DEF TypeOK
    <3>3. QED BY <1>1, <3>1, <3>2
  <2>2. QED BY <2>1
<1>5. \A u \in Workers \ {w} : View(u)' = View(u)
  <2>1. ASSUME NEW u \in Workers \ {w}, NEW r \in Rows
        PROVE  Seen(u, r)' = Seen(u, r)
    BY <1>1, <1>2, <1>4 DEF Seen
  <2>2. QED BY <2>1 DEF View
<1>6. Kept'
  <2>1. ASSUME NEW r \in Rows, Stays(r)'
        PROVE  store'[r] # {} /\ newest'[r] # {}
    <3>1. Stays(r)
      BY <1>1, <2>1, SameStays
    <3>2. QED BY <1>1, <3>1 DEF Kept
  <2>2. QED BY <2>1 DEF Kept
<1>7. Written'
  <2>1. ASSUME NEW u \in Workers, NEW r \in dirty'[u]
        PROVE  /\ store'[r] = {} => Uses(u, Inserts, r)
               /\ newest'[r] = {} => Uses(u, {"delete"}, r)
    <3>1. u \in Workers \ {w} /\ r \in dirty[u]
      BY <1>2, <2>1
    <3>2. store'[r] = store[r] /\ newest'[r] = newest[r]
      BY <1>1, <1>4, <3>1
    <3>3. QED BY <3>1, <3>2 DEF Written
  <2>2. QED BY <1>1, <2>1, SameUses DEF Written
<1>8. AllSettled'
  <2>1. ASSUME NEW u \in Workers, Active(u)', NEW i \in 1 .. (tx'[u].at - 1)
        PROVE  Settled(u, i)'
    <3>1. u \in Workers \ {w} /\ Active(u) /\ i \in 1 .. (tx[u].at - 1) /\ held'[u] = held[u]
      BY <1>2, <1>3, <2>1
    <3>2. Settled(u, i)
      BY <3>1 DEF AllSettled
    <3>3. QED BY <1>1, <3>1, <3>2 DEF Settled
  <2>2. QED BY <2>1 DEF AllSettled
<1>9. Replayed'
  BY <1>1, <1>2, <1>3, <1>5 DEF Replayed
<1>10. QED BY <1>6, <1>7, <1>8, <1>9

-----------------------------------------------------------------------------

SerialInvariant ==
  LockInvariant /\ (NonePassedOver => Kept /\ Written /\ AllSettled /\ Replayed /\ Serializable)

LEMMA InitSerial == Init => SerialInvariant
<1>1. SUFFICES ASSUME Init PROVE SerialInvariant
  OBVIOUS
<1>2. LockInvariant /\ TypeOK
  BY <1>1, InitLocks DEF LockInvariant
<1>3. /\ store = Opening /\ newest = Opening
      /\ \A w \in Workers : dirty[w] = {} /\ tx[w].at = 1 /\ tx[w].end = "no"
  BY <1>1 DEF Init
<1>4. Kept /\ Written
  BY <1>3 DEF Kept, Written, Stays
<1>5. AllSettled
  BY <1>3 DEF AllSettled
<1>6. Replayed
  <2>1. ASSUME NEW w \in Workers
        PROVE  /\ tx[w].at - 1 <= Len(program[w])
               /\ Replay(program[w], store)[tx[w].at - 1].rows = View(w)
    <3>1. program[w] \in Seq(Statement) /\ store \in [Rows -> SUBSET Int] /\ tx[w].at - 1 = 0
      BY <1>2, <1>3 DEF TypeOK
    <3>2. Replay(program[w], store)[0] = [rows |-> store, read |-> {}]
      BY <3>1, ReplaySteps
    <3>3. View(w) = store
      BY <1>3, <3>1 DEF View, Seen
    <3>4. QED BY <3>1, <3>2, <3>3
  <2>2. QED BY <2>1 DEF Replayed
<1>7. Serializable
  <2>1. Committed = {} /\ Cardinality(Committed) = 0
    BY <1>3, FS_EmptySet DEF Committed
  <2>2. PICK order : order = [k \in 1 .. 0 |-> Opening]
    OBVIOUS
  <2>3. order \in [1 .. 0 -> {}] /\ order \in [1 .. 0 -> Workers] /\ 1 .. 0 = {}
    BY <2>2
  <2>4. order \in Bijection(1 .. 0, {})
    BY <2>3 DEF Bijection, Injection, Surjection, IsInjective
  <2>5. PICK R : R = InOrder(order)
    OBVIOUS
  <2>6. R = RowsAfter(0, order, program)
    BY <2>1, <2>5 DEF InOrder, RowsAfter
  <2>7. R[0] = Opening
    <3>1. program \in [Workers -> Seq(Statement)] /\ 0 \in Nat
      BY <1>2 DEF TypeOK
    <3>2. QED BY <2>3, <2>6, <3>1, OneByOne
  <2>8. QED BY <1>3, <2>1, <2>4, <2>5, <2>7 DEF Serializable, Orders
<1>8. QED BY <1>2, <1>4, <1>5, <1>6, <1>7 DEF SerialInvariant

LEMMA NextSerial ==
  ASSUME IsFiniteSet(Workers), SerialInvariant, [Next]_vars
  PROVE  SerialInvariant'
<1>1. LockInvariant'
  BY NextLocks DEF SerialInvariant
<1>2. program' = program
  BY DEF vars, Next, TxStep, Execute, Commit, Abort, End
<1>3. NonePassedOver' <=> NonePassedOver
  BY <1>2 DEF NonePassedOver, Stays, Uses
<1>4. ASSUME store' = store, Committed' = Committed, Serializable
      PROVE  Serializable'
  <2>1. \A order : InOrder(order)' = InOrder(order)
    BY <1>2, <1>4 DEF InOrder
  <2>2. QED BY <1>4, <2>1 DEF Serializable, Orders
<1>5. SUFFICES ASSUME NonePassedOver
               PROVE  Kept' /\ Written' /\ AllSettled' /\ Replayed' /\ Serializable'
  BY <1>1, <1>3 DEF SerialInvariant
<1>6. LockInvariant /\ TypeOK /\ Kept /\ Written /\ AllSettled /\ Replayed /\ Serializable
  BY <1>5 DEF SerialInvariant, LockInvariant
<1>7. CASE UNCHANGED vars
  <2>1. Serializable'
    BY <1>4, <1>6, <1>7 DEF vars, Committed
  <2>2. Kept' /\ Written'
    BY <1>6, <1>7 DEF vars, Kept, Written, Stays, Uses
  <2>3. AllSettled' /\ Replayed'
    BY <1>6, <1>7 DEF vars, AllSettled, Settled, Replayed, View, Seen, Active
  <2>4. QED BY <2>1, <2>2, <2>3
<1>8. ASSUME NEW w \in Workers, TxStep(w)
      PROVE  Kept' /\ Written' /\ AllSettled' /\ Replayed' /\ Serializable'
  <2>1. CASE Execute(w)
    <3>1. \A u \in Workers : tx'[u].end = tx[u].end
      BY <1>6, <2>1 DEF Execute, Runs, Active, TypeOK
    <3>2. store' = store
      BY <2>1 DEF Execute
    <3>3. Serializable'
      BY <1>4, <1>6, <3>1, <3>2 DEF Committed
    <3>4. QED BY <1>6, <2>1, <3>3, ExecuteSerial
  <2>2. CASE Commit(w)
    BY <1>5, <1>6, <2>2, CommitKeeps, CommitSerial
  <2>3. CASE Abort(w)
    <3>1. \A u \in Workers : tx'[u].end = "committed" <=> tx[u].end = "committed"
      BY <1>6, <2>3 DEF Abort, End, Runs, Active, TypeOK
    <3>2. store' = store
      BY <2>3 DEF Abort
    <3>3. Serializable'
      BY <1>4, <1>6, <3>1, <3>2 DEF Committed
    <3>4. QED BY <1>6, <2>3, <3>3, AbortKeeps
  <2>4. QED BY <1>8, <2>1, <2>2, <2>3 DEF TxStep
<1>9. QED BY <1>7, <1>8 DEF Next

\* For any number of workers and any transactions that read before they store:
\* however their statements interleave, wait and abort, the tables hold what the
\* committed transactions make of the opening rows one after the other, if no
\* statement of one passes over a row that another inserts.
THEOREM LocksSerialize ==
  ASSUME IsFiniteSet(Workers)
  PROVE  Spec => [](NonePassedOver => Serializable)
<1>1. SerialInvariant /\ [Next]_vars => SerialInvariant'
  BY NextSerial
<1>2. SerialInvariant => (NonePassedOver => Serializable)
  BY DEF SerialInvariant
<1>3. QED BY <1>1, <1>2, InitSerial, PTL DEF Spec
=============================================================================
