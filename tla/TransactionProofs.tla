------------------------- MODULE TransactionProofs --------------------------
(***************************************************************************)
(* Each step of Exchange that changes a table is one of the transactions   *)
(* of module Transactions run alone, for any number of workers, accounts   *)
(* and symbols.  Each piece of a transaction (a payment, a delivery, an    *)
(* order stored, set or deleted) makes the same change to the rows as the  *)
(* operator of Tables that Exchange uses for it, and pieces run one after  *)
(* the other make what their lists of statements make in one go.           *)
(***************************************************************************)
EXTENDS ExchangeProofs, Atomic, DataLemmas

-----------------------------------------------------------------------------
(* The tables as rows.                                                     *)

\* The rows of the three tables.
Shelf == {Acct(a) : a \in Accounts} \cup {Pos(k[1], k[2]) : k \in Key} \cup {Ord(i) : i \in Int}

TablesOn(K, A, P, O) ==
  /\ K \subseteq Shelf
  /\ A \in [DOMAIN A -> Int]
  /\ P \in [DOMAIN P -> Int]
  /\ O \in SUBSET Order

\* What a row of ACCOUNT or POSITION holds.
RowOf(f, k) == IF k \in DOMAIN f THEN {f[k]} ELSE {}

Amounts(O, id) == {o.amount : o \in {q \in O : q.id = id}}

LEMMA ShelfRows ==
  ASSUME NEW K, K \subseteq Shelf, NEW r \in K
  PROVE  \/ \E a \in Accounts : r = Acct(a)
         \/ \E a \in Accounts, s \in Syms : r = Pos(a, s)
         \/ \E i \in Int : r = Ord(i)
<1>1. CASE r \in {Pos(k[1], k[2]) : k \in Key}
  BY <1>1 DEF Key
<1>2. CASE r \in {Acct(a) : a \in Accounts} \cup {Ord(i) : i \in Int}
  BY <1>2
<1>3. QED BY <1>1, <1>2 DEF Shelf

LEMMA Kinds ==
  /\ \A a, b : Acct(a) = Acct(b) => a = b
  /\ \A a, s, b, t : Pos(a, s) = Pos(b, t) => a = b /\ s = t
  /\ \A i, j : Ord(i) = Ord(j) => i = j
  /\ \A a, b, s : Acct(a) # Pos(b, s)
  /\ \A a, i : Acct(a) # Ord(i)
  /\ \A a, s, i : Pos(a, s) # Ord(i)
BY DEF Acct, Pos, Ord

LEMMA ContentsAt ==
  ASSUME NEW K, NEW A, NEW P, NEW O
  PROVE  /\ \A a : Acct(a) \in K =>
              Contents(K, A, P, O)[Acct(a)] = RowOf(A, a)
         /\ \A a, s : Pos(a, s) \in K =>
              Contents(K, A, P, O)[Pos(a, s)] = RowOf(P, <<a, s>>)
         /\ \A i : Ord(i) \in K => Contents(K, A, P, O)[Ord(i)] = Amounts(O, i)
         /\ Contents(K, A, P, O) = [r \in K |-> Contents(K, A, P, O)[r]]
<1>1. ASSUME NEW a, Acct(a) \in K
      PROVE  Contents(K, A, P, O)[Acct(a)] = RowOf(A, a)
  <2>1. Acct(a)[1] = "ACCOUNT" /\ Acct(a)[2] = a
    BY DEF Acct
  <2>2. Contents(K, A, P, O)[Acct(a)] = {A[k] : k \in {a} \cap DOMAIN A}
    BY <1>1, <2>1 DEF Contents
  <2>3. QED BY <2>2 DEF RowOf
<1>2. ASSUME NEW a, NEW s, Pos(a, s) \in K
      PROVE  Contents(K, A, P, O)[Pos(a, s)] = RowOf(P, <<a, s>>)
  <2>1. Pos(a, s)[1] = "POSITION" /\ Pos(a, s)[2] = a /\ Pos(a, s)[3] = s
    BY DEF Pos
  <2>2. Contents(K, A, P, O)[Pos(a, s)] = {P[k] : k \in {<<a, s>>} \cap DOMAIN P}
    BY <1>2, <2>1 DEF Contents
  <2>3. QED BY <2>2 DEF RowOf
<1>3. ASSUME NEW i, Ord(i) \in K
      PROVE  Contents(K, A, P, O)[Ord(i)] = Amounts(O, i)
  <2>1. Ord(i)[1] = "OPEN_ORDER" /\ Ord(i)[2] = i
    BY DEF Ord
  <2>2. QED BY <1>3, <2>1 DEF Contents, Amounts
<1>4. Contents(K, A, P, O) = [r \in K |-> Contents(K, A, P, O)[r]]
  BY DEF Contents
<1>5. QED BY <1>1, <1>2, <1>3, <1>4

LEMMA ContentsType ==
  ASSUME NEW K, NEW A, NEW P, NEW O, TablesOn(K, A, P, O)
  PROVE  Contents(K, A, P, O) \in [K -> SUBSET Int]
<1>1. ASSUME NEW r \in K PROVE Contents(K, A, P, O)[r] \in SUBSET Int
  <2>1. K \subseteq Shelf
    BY DEF TablesOn
  <2>2. CASE \E a \in Accounts : r = Acct(a)
    <3>1. PICK a \in Accounts : r = Acct(a)
      BY <2>2
    <3>2. Contents(K, A, P, O)[r] = RowOf(A, a)
      BY <1>1, <3>1, ContentsAt
    <3>3. RowOf(A, a) \in SUBSET Int
      BY DEF TablesOn, RowOf
    <3>4. QED BY <3>2, <3>3
  <2>3. CASE \E a \in Accounts, s \in Syms : r = Pos(a, s)
    <3>1. PICK a \in Accounts, s \in Syms : r = Pos(a, s)
      BY <2>3
    <3>2. Contents(K, A, P, O)[r] = RowOf(P, <<a, s>>)
      BY <1>1, <3>1, ContentsAt
    <3>3. RowOf(P, <<a, s>>) \in SUBSET Int
      BY DEF TablesOn, RowOf
    <3>4. QED BY <3>2, <3>3
  <2>4. CASE \E i \in Int : r = Ord(i)
    BY <2>4, ContentsAt DEF TablesOn, Amounts, Order
  <2>5. QED BY <2>1, <2>2, <2>3, <2>4, ShelfRows
<1>2. Contents(K, A, P, O) = [r \in K |-> Contents(K, A, P, O)[r]]
  BY ContentsAt
<1>3. QED BY <1>1, <1>2

\* Two states of the tables with the same rows.
LEMMA SameContents ==
  ASSUME NEW K, K \subseteq Shelf, NEW f, f = [r \in K |-> f[r]], NEW g, g = [r \in K |-> g[r]],
         \A a : Acct(a) \in K => f[Acct(a)] = g[Acct(a)],
         \A a, s : Pos(a, s) \in K => f[Pos(a, s)] = g[Pos(a, s)],
         \A i : Ord(i) \in K => f[Ord(i)] = g[Ord(i)]
  PROVE  f = g
<1>1. ASSUME NEW r \in K PROVE f[r] = g[r]
  BY <1>1, ShelfRows
<1>2. QED BY <1>1

\* B is A but for what it has at k.
SameBut(k, A, B) ==
  /\ \A j : j # k => (j \in DOMAIN B <=> j \in DOMAIN A)
  /\ \A j \in DOMAIN A : j # k => B[j] = A[j]

\* One row of ACCOUNT changes.
LEMMA AccountRow ==
  ASSUME NEW K, NEW A, NEW P, NEW O, NEW B, NEW a, K \subseteq Shelf, Acct(a) \in K,
         SameBut(a, A, B), NEW f, f = Contents(K, A, P, O), NEW v, v = RowOf(B, a)
  PROVE  Put(f, Acct(a), v) = Contents(K, B, P, O)
<1>1. PICK g : g = Contents(K, B, P, O)
  OBVIOUS
<1>2. PICK h : h = [f EXCEPT ![Acct(a)] = v]
  OBVIOUS
<1>3. f = [r \in K |-> f[r]] /\ g = [r \in K |-> g[r]]
  BY <1>1, ContentsAt
<1>4. h = [r \in K |-> h[r]] /\ \A r \in K : h[r] = IF r = Acct(a) THEN v ELSE f[r]
  BY <1>2, <1>3
<1>5. ASSUME NEW b, Acct(b) \in K PROVE h[Acct(b)] = g[Acct(b)]
  <2>1. f[Acct(b)] = RowOf(A, b)
    BY <1>5, ContentsAt
  <2>2. g[Acct(b)] = RowOf(B, b)
    BY <1>1, <1>5, ContentsAt
  <2>3. CASE b = a
    BY <1>4, <1>5, <2>2, <2>3
  <2>4. CASE b # a
    <3>1. h[Acct(b)] = f[Acct(b)]
      BY <1>4, <1>5, <2>4, Kinds
    <3>2. RowOf(A, b) = RowOf(B, b)
      BY <2>4 DEF SameBut, RowOf
    <3>3. QED BY <2>1, <2>2, <3>1, <3>2
  <2>5. QED BY <2>3, <2>4
<1>6. ASSUME NEW b, NEW s, Pos(b, s) \in K PROVE h[Pos(b, s)] = g[Pos(b, s)]
  <2>1. h[Pos(b, s)] = f[Pos(b, s)]
    BY <1>4, <1>6, Kinds
  <2>2. f[Pos(b, s)] = RowOf(P, <<b, s>>)
    BY <1>6, ContentsAt
  <2>3. g[Pos(b, s)] = RowOf(P, <<b, s>>)
    BY <1>1, <1>6, ContentsAt
  <2>4. QED BY <2>1, <2>2, <2>3
<1>7. ASSUME NEW i, Ord(i) \in K PROVE h[Ord(i)] = g[Ord(i)]
  <2>1. h[Ord(i)] = f[Ord(i)]
    BY <1>4, <1>7, Kinds
  <2>2. f[Ord(i)] = g[Ord(i)]
    BY <1>1, <1>7, ContentsAt
  <2>3. QED BY <2>1, <2>2
<1>8. h = g
  BY <1>3, <1>4, <1>5, <1>6, <1>7, SameContents
<1>9. QED BY <1>1, <1>2, <1>8 DEF Put

\* One row of POSITION changes.
LEMMA PositionRow ==
 ASSUME NEW K, NEW A, NEW P, NEW O, NEW B, NEW a, NEW s, K \subseteq Shelf, Pos(a, s) \in K,
        SameBut(<<a, s>>, P, B), NEW f, f = Contents(K, A, P, O), NEW v, v = RowOf(B, <<a, s>>)
 PROVE  Put(f, Pos(a, s), v) = Contents(K, A, B, O)
<1>1. PICK g : g = Contents(K, A, B, O)
  OBVIOUS
<1>2. PICK h : h = [f EXCEPT ![Pos(a, s)] = v]
  OBVIOUS
<1>3. f = [r \in K |-> f[r]] /\ g = [r \in K |-> g[r]]
  BY <1>1, ContentsAt
<1>4. h = [r \in K |-> h[r]] /\ \A r \in K : h[r] = IF r = Pos(a, s) THEN v ELSE f[r]
  BY <1>2, <1>3
<1>5. ASSUME NEW b, NEW t, Pos(b, t) \in K PROVE h[Pos(b, t)] = g[Pos(b, t)]
  <2>1. f[Pos(b, t)] = RowOf(P, <<b, t>>)
    BY <1>5, ContentsAt
  <2>2. g[Pos(b, t)] = RowOf(B, <<b, t>>)
    BY <1>1, <1>5, ContentsAt
  <2>3. CASE b = a /\ t = s
    BY <1>4, <1>5, <2>2, <2>3
  <2>4. CASE ~(b = a /\ t = s)
    <3>1. h[Pos(b, t)] = f[Pos(b, t)]
      BY <1>4, <1>5, <2>4, Kinds
    <3>2. <<b, t>> # <<a, s>>
      BY <2>4
    <3>3. RowOf(P, <<b, t>>) = RowOf(B, <<b, t>>)
      BY <3>2 DEF SameBut, RowOf
    <3>4. QED BY <2>1, <2>2, <3>1, <3>3
  <2>5. QED BY <2>3, <2>4
<1>6. ASSUME NEW b, Acct(b) \in K PROVE h[Acct(b)] = g[Acct(b)]
  <2>1. h[Acct(b)] = f[Acct(b)]
    BY <1>4, <1>6, Kinds
  <2>2. f[Acct(b)] = RowOf(A, b)
    BY <1>6, ContentsAt
  <2>3. g[Acct(b)] = RowOf(A, b)
    BY <1>1, <1>6, ContentsAt
  <2>4. QED BY <2>1, <2>2, <2>3
<1>7. ASSUME NEW i, Ord(i) \in K PROVE h[Ord(i)] = g[Ord(i)]
  <2>1. h[Ord(i)] = f[Ord(i)]
    BY <1>4, <1>7, Kinds
  <2>2. f[Ord(i)] = g[Ord(i)]
    BY <1>1, <1>7, ContentsAt
  <2>3. QED BY <2>1, <2>2
<1>8. h = g
  BY <1>3, <1>4, <1>5, <1>6, <1>7, SameContents
<1>9. QED BY <1>1, <1>2, <1>8 DEF Put

\* One row of OPEN_ORDER changes.
LEMMA OrderRow ==
 ASSUME NEW K, NEW A, NEW P, NEW O, NEW B, NEW id, K \subseteq Shelf, Ord(id) \in K,
        \A i : i # id => Amounts(B, i) = Amounts(O, i),
        NEW f, f = Contents(K, A, P, O), NEW v, v = Amounts(B, id)
 PROVE  Put(f, Ord(id), v) = Contents(K, A, P, B)
<1>1. PICK g : g = Contents(K, A, P, B)
  OBVIOUS
<1>2. PICK h : h = [f EXCEPT ![Ord(id)] = v]
  OBVIOUS
<1>3. f = [r \in K |-> f[r]] /\ g = [r \in K |-> g[r]]
  BY <1>1, ContentsAt
<1>4. h = [r \in K |-> h[r]] /\ \A r \in K : h[r] = IF r = Ord(id) THEN v ELSE f[r]
  BY <1>2, <1>3
<1>5. ASSUME NEW i, Ord(i) \in K PROVE h[Ord(i)] = g[Ord(i)]
  <2>1. f[Ord(i)] = Amounts(O, i) /\ g[Ord(i)] = Amounts(B, i)
    BY <1>1, <1>5, ContentsAt
  <2>2. CASE i = id
    BY <1>4, <1>5, <2>1, <2>2
  <2>3. CASE i # id
    <3>1. h[Ord(i)] = f[Ord(i)]
      BY <1>4, <1>5, <2>3, Kinds
    <3>2. QED BY <2>1, <2>3, <3>1
  <2>4. QED BY <2>2, <2>3
<1>6. ASSUME NEW b, Acct(b) \in K PROVE h[Acct(b)] = g[Acct(b)]
  <2>1. h[Acct(b)] = f[Acct(b)]
    BY <1>4, <1>6, Kinds
  <2>2. f[Acct(b)] = RowOf(A, b)
    BY <1>6, ContentsAt
  <2>3. g[Acct(b)] = RowOf(A, b)
    BY <1>1, <1>6, ContentsAt
  <2>4. QED BY <2>1, <2>2, <2>3
<1>7. ASSUME NEW b, NEW s, Pos(b, s) \in K PROVE h[Pos(b, s)] = g[Pos(b, s)]
  <2>1. h[Pos(b, s)] = f[Pos(b, s)]
    BY <1>4, <1>7, Kinds
  <2>2. f[Pos(b, s)] = RowOf(P, <<b, s>>)
    BY <1>7, ContentsAt
  <2>3. g[Pos(b, s)] = RowOf(P, <<b, s>>)
    BY <1>1, <1>7, ContentsAt
  <2>4. QED BY <2>1, <2>2, <2>3
<1>8. h = g
  BY <1>3, <1>4, <1>5, <1>6, <1>7, SameContents
<1>9. QED BY <1>1, <1>2, <1>8 DEF Put

-----------------------------------------------------------------------------
(* Statements on ACCOUNT and POSITION.                                     *)

LEMMA StmtOn ==
  ASSUME NEW K, NEW op \in Ops, NEW r \in K, NEW n \in Int
  PROVE  /\ Stmt(op, r, n) \in StatementOn(K)
         /\ Stmt(op, r, n).op = op /\ Stmt(op, r, n).row = r /\ Stmt(op, r, n).n = n
BY DEF Stmt, StatementOn

LEMMA OpNames ==
  {"lock", "add", "set", "delete", "insert", "ensure", "upsert", "store", "ref"} \subseteq Ops
BY DEF Ops

\* Run alone on the rows f, the statements p make them g.
Makes(K, p, f, g) ==
  /\ p \in Seq(StatementOn(K)) /\ f \in [K -> SUBSET Int] /\ g \in [K -> SUBSET Int]
  /\ Alone(p, f) = g

LEMMA Onward ==
  ASSUME NEW K, NEW p, NEW q, NEW pq, NEW f, NEW g, NEW h,
         Makes(K, p, f, g), Makes(K, q, g, h), ReadsFirst(q), Splits(pq, p, q)
  PROVE  Makes(K, pq, f, h)
<1>1. /\ p \in Seq(StatementOn(K)) /\ q \in Seq(StatementOn(K)) /\ f \in [K -> SUBSET Int]
      /\ h \in [K -> SUBSET Int] /\ Alone(p, f) = g /\ Alone(q, g) = h
  BY DEF Makes
<1>2. pq \in Seq(StatementOn(K)) /\ Alone(pq, f) = Alone(q, g)
  BY <1>1, AloneParts
<1>3. QED BY <1>1, <1>2 DEF Makes

HasRow(f, k) == k \in DOMAIN f

\* INSERT INTO ACCOUNT ... ON CONFLICT DO NOTHING
LEMMA OpenStep ==
  ASSUME NEW K, NEW A, NEW P, NEW O, TablesOn(K, A, P, O), NEW a, Acct(a) \in K, NEW n \in Int,
         NEW B, B = [k \in DOMAIN A \cup {a} |-> IF k \in DOMAIN A THEN A[k] ELSE n],
         NEW f, f = Contents(K, A, P, O), NEW g, g = Contents(K, B, P, O),
         NEW p, p = << Stmt("ensure", Acct(a), n) >>
  PROVE  Makes(K, p, f, g)
<1>1. PICK s : s = Stmt("ensure", Acct(a), n)
  OBVIOUS
<1>2. f \in [K -> SUBSET Int] /\ K \subseteq Shelf
  BY ContentsType DEF TablesOn
<1>3. s \in StatementOn(K) /\ s.op = "ensure" /\ s.row = Acct(a) /\ s.n = n
  BY <1>1, OpNames, StmtOn
<1>4. PICK v : v = Value(s, f[Acct(a)], {})
  OBVIOUS
<1>5. p \in Seq(StatementOn(K)) /\ Alone(p, f) = Put(f, Acct(a), v)
  BY <1>1, <1>2, <1>3, <1>4, AloneOne
<1>6. f[Acct(a)] = RowOf(A, a)
  BY ContentsAt
<1>7. v = IF f[Acct(a)] = {} THEN {n} ELSE f[Acct(a)]
  BY <1>3, <1>4 DEF Value
<1>8. v = RowOf(B, a)
  BY <1>6, <1>7 DEF RowOf
<1>9. SameBut(a, A, B)
  BY DEF SameBut
<1>10. Put(f, Acct(a), v) = g
  BY <1>2, <1>8, <1>9, AccountRow
<1>11. TablesOn(K, B, P, O)
  BY DEF TablesOn
<1>12. g \in [K -> SUBSET Int]
  BY <1>11, ContentsType
<1>13. QED BY <1>2, <1>5, <1>10, <1>12 DEF Makes

\* UPDATE ACCOUNT
LEMMA PaidRows ==
  ASSUME NEW K, NEW A, NEW P, NEW O, TablesOn(K, A, P, O), NEW a, HasRow(A, a), Acct(a) \in K,
         NEW n \in Int, NEW B, B = Pay(A, a, n),
         NEW f, f = Contents(K, A, P, O), NEW v, v = {x + n : x \in f[Acct(a)]}
  PROVE  /\ Put(f, Acct(a), v) = Contents(K, B, P, O)
         /\ f[Acct(a)] # {}
         /\ TablesOn(K, B, P, O)
         /\ DOMAIN B = DOMAIN A
<1>1. A \in [DOMAIN A -> Int] /\ K \subseteq Shelf
  BY DEF TablesOn
<1>2. DOMAIN B = DOMAIN A /\ B[a] = A[a] + n /\ B \in [DOMAIN B -> Int]
  BY <1>1 DEF Pay, HasRow
<1>3. SameBut(a, A, B)
  BY <1>1 DEF Pay, SameBut, HasRow
<1>4. f[Acct(a)] = RowOf(A, a)
  BY ContentsAt
<1>5. RowOf(A, a) = {A[a]} /\ RowOf(B, a) = {A[a] + n}
  BY <1>2 DEF RowOf, HasRow
<1>6. v = RowOf(B, a)
  BY <1>4, <1>5
<1>7. Put(f, Acct(a), v) = Contents(K, B, P, O)
  BY <1>1, <1>3, <1>6, AccountRow
<1>8. TablesOn(K, B, P, O)
  BY <1>2 DEF TablesOn
<1>9. QED BY <1>2, <1>4, <1>5, <1>7, <1>8

LEMMA PayStep ==
  ASSUME NEW K, NEW A, NEW P, NEW O, TablesOn(K, A, P, O), NEW a, HasRow(A, a), Acct(a) \in K,
         NEW n \in Int, NEW B, B = Pay(A, a, n),
         NEW f, f = Contents(K, A, P, O), NEW g, g = Contents(K, B, P, O),
         NEW p, p = << Stmt("add", Acct(a), n) >>
  PROVE  Makes(K, p, f, g) /\ ReadsFirst(p) /\ TablesOn(K, B, P, O)
<1>1. PICK s : s = Stmt("add", Acct(a), n)
  OBVIOUS
<1>2. f \in [K -> SUBSET Int]
  BY ContentsType
<1>3. s \in StatementOn(K) /\ s.op = "add" /\ s.row = Acct(a) /\ s.n = n
  BY <1>1, OpNames, StmtOn
<1>4. PICK v : v = Value(s, f[Acct(a)], {})
  OBVIOUS
<1>5. Alone(p, f) = Put(f, Acct(a), v)
  BY <1>1, <1>2, <1>3, <1>4, AloneOne
<1>6. v = {x + n : x \in f[Acct(a)]}
  BY <1>3, <1>4 DEF Value
<1>7. Put(f, Acct(a), v) = g /\ TablesOn(K, B, P, O)
  BY <1>6, PaidRows
<1>8. p = << s >>
  BY <1>1
<1>9. p \in Seq(StatementOn(K)) /\ ReadsFirst(p)
  BY <1>3, <1>8 DEF ReadsFirst
<1>10. g \in [K -> SUBSET Int]
  BY <1>7, ContentsType
<1>11. QED BY <1>2, <1>5, <1>7, <1>9, <1>10 DEF Makes

\* SELECT ... FOR UPDATE and then UPDATE ACCOUNT, by an addition or with the sum.
LEMMA LockedPayStep ==
  ASSUME NEW K, NEW A, NEW P, NEW O, TablesOn(K, A, P, O), NEW a, HasRow(A, a), Acct(a) \in K,
         NEW n \in Int, NEW op \in {"add", "store"}, NEW B, B = Pay(A, a, n),
         NEW f, f = Contents(K, A, P, O), NEW g, g = Contents(K, B, P, O),
         NEW p, p = << Stmt("lock", Acct(a), 0), Stmt(op, Acct(a), n) >>
  PROVE  Makes(K, p, f, g) /\ ReadsFirst(p) /\ TablesOn(K, B, P, O)
<1>1. PICK l : l = Stmt("lock", Acct(a), 0)
  OBVIOUS
<1>2. PICK s : s = Stmt(op, Acct(a), n)
  OBVIOUS
<1>3. f \in [K -> SUBSET Int]
  BY ContentsType
<1>4. s \in StatementOn(K) /\ s.op = op /\ s.row = Acct(a) /\ s.n = n
  <2>1. op \in Ops
    BY OpNames
  <2>2. QED BY <1>2, <2>1, StmtOn
<1>5. l \in StatementOn(K) /\ l.op = "lock" /\ l.row = Acct(a)
  BY <1>1, OpNames, StmtOn
<1>6. p = << l, s >>
  BY <1>1, <1>2
<1>7. PICK v : v = Value(s, f[Acct(a)], f[Acct(a)])
  OBVIOUS
<1>8. p \in Seq(StatementOn(K)) /\ Alone(p, f) = Put(f, Acct(a), v)
  BY <1>3, <1>4, <1>5, <1>6, <1>7, AlonePair
<1>9. f[Acct(a)] # {}
  <2>1. f[Acct(a)] = RowOf(A, a)
    BY ContentsAt
  <2>2. QED BY <2>1 DEF RowOf, HasRow
<1>10. v = {x + n : x \in f[Acct(a)]}
  BY <1>4, <1>7, <1>9 DEF Value
<1>11. Put(f, Acct(a), v) = g /\ TablesOn(K, B, P, O)
  BY <1>10, PaidRows
<1>12. ReadsFirst(p)
  BY <1>4, <1>5, <1>6 DEF ReadsFirst
<1>13. g \in [K -> SUBSET Int]
  BY <1>11, ContentsType
<1>14. QED BY <1>3, <1>8, <1>11, <1>12, <1>13 DEF Makes

\* SELECT ... FOR UPDATE, then UPDATE or INSERT POSITION.
Delivery(op, a, s, n) ==
  << Stmt("lock", Pos(a, s), 0), Stmt(op, Pos(a, s), n), Stmt("ref", Acct(a), 0) >>

LEMMA DeliverStep ==
  ASSUME NEW K, NEW A, NEW P, NEW O, TablesOn(K, A, P, O), NEW a, NEW s, Pos(a, s) \in K,
         Acct(a) \in K, NEW n \in Int, NEW op \in {"upsert", "store"},
         NEW B, B = Deliver(P, <<a, s>>, n),
         NEW f, f = Contents(K, A, P, O), NEW h, h = Contents(K, A, B, O),
         NEW pq, pq = Delivery(op, a, s, n)
  PROVE  Makes(K, pq, f, h) /\ ReadsFirst(pq)
<1>1. PICK l : l = Stmt("lock", Pos(a, s), 0)
  OBVIOUS
<1>2. PICK u : u = Stmt(op, Pos(a, s), n)
  OBVIOUS
<1>3. PICK c : c = Stmt("ref", Acct(a), 0)
  OBVIOUS
<1>4. TablesOn(K, A, B, O)
  BY DEF TablesOn, Deliver
<1>5. f \in [K -> SUBSET Int] /\ K \subseteq Shelf
  BY ContentsType DEF TablesOn
<1>6. u \in StatementOn(K) /\ u.op = op /\ u.row = Pos(a, s) /\ u.n = n
  <2>1. op \in Ops
    BY OpNames
  <2>2. QED BY <1>2, <2>1 DEF Stmt, StatementOn
<1>7. l \in StatementOn(K) /\ l.op = "lock" /\ l.row = Pos(a, s)
  BY <1>1, OpNames, StmtOn
<1>8. c \in StatementOn(K) /\ c.op = "ref"
  BY <1>3, OpNames, StmtOn
<1>9. PICK v : v = Value(u, f[Pos(a, s)], f[Pos(a, s)])
  OBVIOUS
<1>10. PICK p : p = << l, u >>
  OBVIOUS
<1>11. PICK q : q = << c >>
  OBVIOUS
<1>12. pq = << l, u, c >>
  BY <1>1, <1>2, <1>3 DEF Delivery
<1>13. p \in Seq(StatementOn(K)) /\ Alone(p, f) = Put(f, Pos(a, s), v)
  BY <1>5, <1>6, <1>7, <1>9, <1>10, AlonePair
<1>14. f[Pos(a, s)] = RowOf(P, <<a, s>>)
  BY ContentsAt
<1>15. v = IF f[Pos(a, s)] = {} THEN {n} ELSE {x + n : x \in f[Pos(a, s)]}
  BY <1>6, <1>9 DEF Value
<1>16. PICK k : k = <<a, s>>
  OBVIOUS
<1>17. k \in DOMAIN B /\ B[k] = IF k \in DOMAIN P THEN P[k] + n ELSE n
  BY <1>16 DEF Deliver
<1>18. SameBut(k, P, B)
  BY <1>16 DEF Deliver, SameBut
<1>19. v = RowOf(B, k)
  BY <1>14, <1>15, <1>16, <1>17 DEF RowOf
<1>20. Alone(p, f) = h
  BY <1>5, <1>13, <1>16, <1>18, <1>19, PositionRow
<1>21. PICK g : g = Alone(p, f)
  OBVIOUS
<1>22. g \in [K -> SUBSET Int]
  BY <1>5, <1>13, <1>21, AloneOn
<1>23. q \in Seq(StatementOn(K)) /\ ReadsFirst(q) /\ \A i \in DOMAIN q : q[i].op \in {"lock", "ref"}
  BY <1>8, <1>11 DEF ReadsFirst
<1>24. Alone(q, g) = g
  BY <1>22, <1>23, AloneIdle
<1>25. Splits(pq, p, q)
  BY <1>6, <1>7, <1>8, <1>10, <1>11, <1>12, List3
<1>26. pq \in Seq(StatementOn(K)) /\ Alone(pq, f) = Alone(q, g)
  <2>1. p \in Seq(StatementOn(K)) /\ q \in Seq(StatementOn(K)) /\ ReadsFirst(q)
    BY <1>13, <1>23
  <2>2. QED BY <1>5, <1>21, <1>25, <2>1, AloneParts
<1>27. ReadsFirst(pq)
  BY <1>6, <1>7, <1>8, <1>12 DEF ReadsFirst
<1>28. QED BY <1>5, <1>20, <1>21, <1>22, <1>24, <1>26, <1>27 DEF Makes

-----------------------------------------------------------------------------
(* Statements on OPEN_ORDER.                                               *)

\* A statement that only locks or checks.
LEMMA IdleOne ==
  ASSUME NEW K, NEW s \in StatementOn(K), s.op \in {"lock", "ref"}, NEW p, p = << s >>,
         NEW f \in [K -> SUBSET Int]
  PROVE  Makes(K, p, f, f) /\ ReadsFirst(p)
<1>1. /\ p \in Seq(StatementOn(K)) /\ ReadsFirst(p)
      /\ \A i \in DOMAIN p : p[i].op \in {"lock", "ref"}
  BY DEF ReadsFirst
<1>2. Alone(p, f) = f
  BY <1>1, AloneIdle
<1>3. QED BY <1>1, <1>2 DEF Makes

\* A statement on one row of OPEN_ORDER.
LEMMA OrderOne ==
  ASSUME NEW K, NEW A, NEW P, NEW O, TablesOn(K, A, P, O), NEW id, Ord(id) \in K,
         NEW B \in SUBSET Order, \A i : i # id => Amounts(B, i) = Amounts(O, i),
         NEW s \in StatementOn(K), s.row = Ord(id), s.op # "store",
         NEW f, f = Contents(K, A, P, O), NEW g, g = Contents(K, A, P, B),
         Amounts(B, id) = Value(s, Amounts(O, id), {}), NEW p, p = << s >>
  PROVE  Makes(K, p, f, g) /\ ReadsFirst(p) /\ TablesOn(K, A, P, B)
<1>1. TablesOn(K, A, P, B)
  BY DEF TablesOn
<1>2. f \in [K -> SUBSET Int] /\ g \in [K -> SUBSET Int] /\ K \subseteq Shelf
  BY <1>1, ContentsType DEF TablesOn
<1>3. f[Ord(id)] = Amounts(O, id)
  BY ContentsAt
<1>4. PICK v : v = Value(s, f[Ord(id)], {})
  OBVIOUS
<1>5. p \in Seq(StatementOn(K)) /\ Alone(p, f) = Put(f, Ord(id), v)
  BY <1>2, <1>4, AloneOne
<1>6. v = Amounts(B, id)
  BY <1>3, <1>4
<1>7. Put(f, Ord(id), v) = g
  BY <1>2, <1>6, OrderRow
<1>8. ReadsFirst(p)
  BY DEF ReadsFirst
<1>9. QED BY <1>1, <1>2, <1>5, <1>7, <1>8 DEF Makes

LEMMA InsertOne ==
  ASSUME NEW K, NEW A, NEW P, NEW O, TablesOn(K, A, P, O), NEW id, Ord(id) \in K,
         NEW o \in Order, o.id = id, \A q \in O : q.id # id, NEW B, B = O \cup {o},
         NEW f, f = Contents(K, A, P, O), NEW g, g = Contents(K, A, P, B),
         NEW p, p = << Stmt("insert", Ord(id), o.amount) >>
  PROVE  Makes(K, p, f, g) /\ ReadsFirst(p) /\ TablesOn(K, A, P, B)
<1>1. PICK n : n = o.amount
  OBVIOUS
<1>2. n \in Int /\ O \subseteq Order
  BY <1>1 DEF Order, TablesOn
<1>3. PICK s : s = Stmt("insert", Ord(id), n)
  OBVIOUS
<1>4. s \in StatementOn(K) /\ s.op = "insert" /\ s.row = Ord(id) /\ s.n = n
  <2>1. "insert" \in Ops
    BY OpNames
  <2>2. QED BY <1>2, <1>3, <2>1 DEF Stmt, StatementOn
<1>5. Value(s, Amounts(O, id), {}) = {n}
  BY <1>4 DEF Value
<1>6. Amounts(B, id) = {n}
  BY <1>1 DEF Amounts
<1>7. \A i : i # id => Amounts(B, i) = Amounts(O, i)
  BY DEF Amounts
<1>8. B \in SUBSET Order
  BY <1>2
<1>9. p = << s >>
  BY <1>1, <1>3
<1>10. Amounts(B, id) = Value(s, Amounts(O, id), {})
  BY <1>5, <1>6
<1>11. s.op # "store"
  BY <1>4
<1>12. QED BY <1>4, <1>7, <1>8, <1>9, <1>10, <1>11, OrderOne

LEMMA DeleteOne ==
  ASSUME NEW K, NEW A, NEW P, NEW O, TablesOn(K, A, P, O), NEW id, Ord(id) \in K,
         NEW B, B = Without(O, id),
         NEW f, f = Contents(K, A, P, O), NEW g, g = Contents(K, A, P, B),
         NEW p, p = << Stmt("delete", Ord(id), 0) >>
  PROVE  Makes(K, p, f, g) /\ ReadsFirst(p) /\ TablesOn(K, A, P, B)
<1>1. PICK s : s = Stmt("delete", Ord(id), 0)
  OBVIOUS
<1>2. s \in StatementOn(K) /\ s.op = "delete" /\ s.row = Ord(id)
  BY <1>1, OpNames, StmtOn
<1>3. Value(s, Amounts(O, id), {}) = {}
  BY <1>2 DEF Value
<1>4. Amounts(B, id) = {} /\ \A i : i # id => Amounts(B, i) = Amounts(O, i)
  BY DEF Amounts, Without
<1>5. B \in SUBSET Order
  BY DEF Without, TablesOn
<1>6. QED BY <1>1, <1>2, <1>3, <1>4, <1>5, OrderOne

LEMMA SetOne ==
  ASSUME NEW K, NEW A, NEW P, NEW O, TablesOn(K, A, P, O), NEW id, Ord(id) \in K, NEW n \in Int,
         NEW B, B = SetAmount(O, id, n),
         NEW f, f = Contents(K, A, P, O), NEW g, g = Contents(K, A, P, B),
         NEW p, p = << Stmt("set", Ord(id), n) >>
  PROVE  Makes(K, p, f, g) /\ ReadsFirst(p) /\ TablesOn(K, A, P, B)
<1>1. PICK s : s = Stmt("set", Ord(id), n)
  OBVIOUS
<1>2. s \in StatementOn(K) /\ s.op = "set" /\ s.row = Ord(id) /\ s.n = n
  BY <1>1, OpNames, StmtOn
<1>3. Value(s, Amounts(O, id), {}) = {n : x \in Amounts(O, id)}
  BY <1>2 DEF Value
<1>4. O \subseteq Order
  BY DEF TablesOn
<1>5. \A o \in O : LET q == [o EXCEPT !.amount = n]
                   IN q \in Order /\ q.id = o.id /\ q.amount = n
  BY <1>4 DEF Order
<1>6. Amounts(B, id) = {n : x \in Amounts(O, id)}
  <2>1. ASSUME NEW v \in Amounts(B, id) PROVE v \in {n : x \in Amounts(O, id)}
    <3>1. PICK o \in O : LET q == IF o.id = id THEN [o EXCEPT !.amount = n] ELSE o
                         IN q.id = id /\ v = q.amount
      BY <2>1 DEF Amounts, SetAmount
    <3>2. o.id = id /\ v = n
      BY <1>5, <3>1
    <3>3. o.amount \in Amounts(O, id)
      BY <3>2 DEF Amounts
    <3>4. QED BY <3>2, <3>3
  <2>2. ASSUME NEW x \in Amounts(O, id) PROVE n \in Amounts(B, id)
    <3>1. PICK o \in O : o.id = id
      BY <2>2 DEF Amounts
    <3>2. PICK q : q = [o EXCEPT !.amount = n]
      OBVIOUS
    <3>3. q \in B /\ q.id = id /\ q.amount = n
      BY <1>5, <3>1, <3>2 DEF SetAmount
    <3>4. QED BY <3>3 DEF Amounts
  <2>3. QED BY <2>1, <2>2
<1>7. ASSUME NEW i, i # id PROVE Amounts(B, i) = Amounts(O, i)
  BY <1>5, <1>7 DEF Amounts, SetAmount
<1>8. B \in SUBSET Order
  BY <1>4, <1>5 DEF SetAmount
<1>9. QED BY <1>1, <1>2, <1>3, <1>6, <1>7, <1>8, OrderOne

\* INSERT INTO OPEN_ORDER, with the check of its foreign key.
Placement(id, a, n) == << Stmt("insert", Ord(id), n), Stmt("ref", Acct(a), 0) >>

LEMMA PlaceStep ==
  ASSUME NEW K, NEW A, NEW P, NEW O, TablesOn(K, A, P, O), NEW id, Ord(id) \in K,
         NEW a, Acct(a) \in K,
         NEW o \in Order, o.id = id, \A q \in O : q.id # id, NEW B, B = O \cup {o},
         NEW f, f = Contents(K, A, P, O), NEW g, g = Contents(K, A, P, B),
         NEW pq, pq = Placement(id, a, o.amount)
  PROVE  Makes(K, pq, f, g) /\ TablesOn(K, A, P, B)
<1>1. PICK s : s = Stmt("insert", Ord(id), o.amount)
  OBVIOUS
<1>2. PICK c : c = Stmt("ref", Acct(a), 0)
  OBVIOUS
<1>3. PICK p : p = << s >>
  OBVIOUS
<1>4. PICK q : q = << c >>
  OBVIOUS
<1>5. Makes(K, p, f, g) /\ TablesOn(K, A, P, B)
  BY <1>1, <1>3, InsertOne
<1>6. c \in StatementOn(K) /\ c.op = "ref"
  BY <1>2, OpNames, StmtOn
<1>7. s \in StatementOn(K)
  <2>1. "insert" \in Ops /\ o.amount \in Int
    BY OpNames DEF Order
  <2>2. QED BY <1>1, <2>1 DEF Stmt, StatementOn
<1>8. Makes(K, q, g, g) /\ ReadsFirst(q)
  <2>1. g \in [K -> SUBSET Int] /\ c.op \in {"lock", "ref"}
    BY <1>5, <1>6 DEF Makes
  <2>2. QED BY <1>4, <1>6, <2>1, IdleOne
<1>9. pq = << s, c >>
  BY <1>1, <1>2 DEF Placement
<1>10. Splits(pq, p, q)
  BY <1>3, <1>4, <1>6, <1>7, <1>9, List2
<1>11. QED BY <1>5, <1>8, <1>10, Onward

\* The three cases of MatchOrder.
LEMMA BookStep ==
  ASSUME NEW K, NEW A, NEW P, NEW O, TablesOn(K, A, P, O), NEW sell, NEW buy,
         Ord(sell) \in K, Ord(buy) \in K, NEW final \in Int,
         NEW B, B = Settle(O, sell, buy, final),
         NEW f, f = Contents(K, A, P, O), NEW g, g = Contents(K, A, P, B),
         NEW pq, pq = T!Book(sell, buy, final)
  PROVE  Makes(K, pq, f, g) /\ ReadsFirst(pq) /\ TablesOn(K, A, P, B)
<1>1. PICK ls : ls = Stmt("lock", Ord(sell), 0)
  OBVIOUS
<1>2. PICK lb : lb = Stmt("lock", Ord(buy), 0)
  OBVIOUS
<1>3. PICK ds : ds = Stmt("delete", Ord(sell), 0)
  OBVIOUS
<1>4. PICK db : db = Stmt("delete", Ord(buy), 0)
  OBVIOUS
<1>5. PICK ss : ss = Stmt("set", Ord(sell), final)
  OBVIOUS
<1>6. PICK sb : sb = Stmt("set", Ord(buy), final)
  OBVIOUS
<1>7. /\ ls \in StatementOn(K) /\ ls.op = "lock" /\ lb \in StatementOn(K) /\ lb.op = "lock"
      /\ ds \in StatementOn(K) /\ ds.op = "delete" /\ db \in StatementOn(K) /\ db.op = "delete"
      /\ ss \in StatementOn(K) /\ ss.op = "set" /\ sb \in StatementOn(K) /\ sb.op = "set"
  BY <1>1, <1>2, <1>3, <1>4, <1>5, <1>6 DEF Stmt, StatementOn, Ops
<1>8. f \in [K -> SUBSET Int]
  BY ContentsType
<1>9. CASE final < 0
  <2>1. pq = << ls, ss, db >>
    BY <1>1, <1>4, <1>5, <1>9 DEF T!Book, T!Stmt, T!Ord, Stmt, Ord
  <2>2. PICK C : C = SetAmount(O, sell, final)
    OBVIOUS
  <2>3. B = Without(C, buy)
    BY <1>9, <2>2 DEF Settle
  <2>4. PICK m : m = Contents(K, A, P, C)
    OBVIOUS
  <2>5. PICK p : p = << ls >>
    OBVIOUS
  <2>6. PICK q : q = << ss >>
    OBVIOUS
  <2>7. PICK r : r = << ls, ss >>
    OBVIOUS
  <2>8. PICK t : t = << db >>
    OBVIOUS
  <2>9. Makes(K, p, f, f)
    BY <1>7, <1>8, <2>5, IdleOne
  <2>10. Makes(K, q, f, m) /\ ReadsFirst(q) /\ TablesOn(K, A, P, C)
    BY <1>5, <2>2, <2>4, <2>6, SetOne
  <2>11. Makes(K, t, m, g) /\ ReadsFirst(t) /\ TablesOn(K, A, P, B)
    BY <1>4, <2>3, <2>4, <2>8, <2>10, DeleteOne
  <2>12. Splits(r, p, q)
    BY <1>7, <2>5, <2>6, <2>7, List2
  <2>13. Splits(pq, r, t)
    BY <1>7, <2>1, <2>7, <2>8, List3
  <2>14. Makes(K, r, f, m)
    BY <2>9, <2>10, <2>12, Onward
  <2>15. Makes(K, pq, f, g)
    BY <2>11, <2>13, <2>14, Onward
  <2>16. ReadsFirst(pq)
    BY <1>7, <2>1 DEF ReadsFirst
  <2>17. QED BY <2>11, <2>15, <2>16
<1>10. CASE final > 0
  <2>1. pq = << lb, ds, sb >>
    BY <1>2, <1>3, <1>6, <1>10 DEF T!Book, T!Stmt, T!Ord, Stmt, Ord
  <2>2. PICK C : C = Without(O, sell)
    OBVIOUS
  <2>3. B = SetAmount(C, buy, final)
    BY <1>10, <2>2 DEF Settle
  <2>4. PICK m : m = Contents(K, A, P, C)
    OBVIOUS
  <2>5. PICK p : p = << lb >>
    OBVIOUS
  <2>6. PICK q : q = << ds >>
    OBVIOUS
  <2>7. PICK r : r = << lb, ds >>
    OBVIOUS
  <2>8. PICK t : t = << sb >>
    OBVIOUS
  <2>9. Makes(K, p, f, f)
    BY <1>7, <1>8, <2>5, IdleOne
  <2>10. Makes(K, q, f, m) /\ ReadsFirst(q) /\ TablesOn(K, A, P, C)
    BY <1>3, <2>2, <2>4, <2>6, DeleteOne
  <2>11. Makes(K, t, m, g) /\ ReadsFirst(t) /\ TablesOn(K, A, P, B)
    BY <1>6, <2>3, <2>4, <2>8, <2>10, SetOne
  <2>12. Splits(r, p, q)
    BY <1>7, <2>5, <2>6, <2>7, List2
  <2>13. Splits(pq, r, t)
    BY <1>7, <2>1, <2>7, <2>8, List3
  <2>14. Makes(K, r, f, m)
    BY <2>9, <2>10, <2>12, Onward
  <2>15. Makes(K, pq, f, g)
    BY <2>11, <2>13, <2>14, Onward
  <2>16. ReadsFirst(pq)
    BY <1>7, <2>1 DEF ReadsFirst
  <2>17. QED BY <2>11, <2>15, <2>16
<1>11. CASE final = 0
  <2>1. pq = << ds, db >>
    BY <1>3, <1>4, <1>11 DEF T!Book, T!Stmt, T!Ord, Stmt, Ord
  <2>2. PICK C : C = Without(O, sell)
    OBVIOUS
  <2>3. B = Without(C, buy)
    BY <1>11, <2>2 DEF Settle
  <2>4. PICK m : m = Contents(K, A, P, C)
    OBVIOUS
  <2>5. PICK p : p = << ds >>
    OBVIOUS
  <2>6. PICK q : q = << db >>
    OBVIOUS
  <2>7. Makes(K, p, f, m) /\ TablesOn(K, A, P, C)
    BY <1>3, <2>2, <2>4, <2>5, DeleteOne
  <2>8. Makes(K, q, m, g) /\ ReadsFirst(q) /\ TablesOn(K, A, P, B)
    BY <1>4, <2>3, <2>4, <2>6, <2>7, DeleteOne
  <2>9. Splits(pq, p, q)
    BY <1>7, <2>1, <2>5, <2>6, List2
  <2>10. Makes(K, pq, f, g)
    BY <2>7, <2>8, <2>9, Onward
  <2>11. ReadsFirst(pq)
    BY <1>7, <2>1 DEF ReadsFirst
  <2>12. QED BY <2>8, <2>10, <2>11
<1>12. QED BY <1>9, <1>10, <1>11

-----------------------------------------------------------------------------
(* UPDATE POSITION on all symbols of an account.                           *)

\* scan visits each symbol once.
Visits(scan, m) ==
  /\ m \in Nat /\ scan \in [1 .. m -> Syms]
  /\ \A i, j \in 1 .. m : scan[i] = scan[j] => i = j
  /\ \A s \in Syms : \E i \in 1 .. m : scan[i] = s

LEMMA OnAllType ==
  ASSUME NEW K, NEW scan, NEW m, Visits(scan, m), NEW a, \A s \in Syms : Pos(a, s) \in K,
         NEW op \in Ops, NEW n \in Int, NEW p, p = T!OnAll(op, a, scan, n)
  PROVE  /\ p \in Seq(StatementOn(K)) /\ DOMAIN p = 1 .. m
         /\ \A i \in 1 .. m : p[i].op = op /\ p[i].row = Pos(a, scan[i]) /\ p[i].n = n
<1>1. m \in Nat /\ DOMAIN scan = 1 .. m /\ \A i \in 1 .. m : scan[i] \in Syms
  BY DEF Visits
<1>2. p = [i \in 1 .. m |-> Stmt(op, Pos(a, scan[i]), n)]
  BY <1>1 DEF T!OnAll, T!Stmt, T!Pos, Stmt, Pos
<1>3. ASSUME NEW i \in 1 .. m
      PROVE  /\ p[i] \in StatementOn(K) /\ p[i].op = op
             /\ p[i].row = Pos(a, scan[i]) /\ p[i].n = n
  <2>1. PICK r : r = Pos(a, scan[i])
    OBVIOUS
  <2>2. r \in K
    BY <1>1, <2>1
  <2>3. p[i] = Stmt(op, r, n)
    BY <1>2, <2>1
  <2>4. QED BY <2>1, <2>2, <2>3 DEF Stmt, StatementOn
<1>4. DOMAIN p = 1 .. m /\ p \in [1 .. m -> StatementOn(K)]
  BY <1>2, <1>3
<1>5. p \in Seq(StatementOn(K))
  BY <1>1, <1>4
<1>6. QED BY <1>3, <1>4, <1>5

LEMMA LocksStep ==
  ASSUME NEW K, NEW scan, NEW m, Visits(scan, m), NEW a, \A s \in Syms : Pos(a, s) \in K,
         NEW f \in [K -> SUBSET Int], NEW p, p = T!OnAll("lock", a, scan, 0)
  PROVE  Makes(K, p, f, f)
<1>1. "lock" \in Ops
  BY OpNames
<1>2. /\ p \in Seq(StatementOn(K)) /\ DOMAIN p = 1 .. m
      /\ \A i \in 1 .. m : p[i].op = "lock"
  BY <1>1, OnAllType
<1>3. Alone(p, f) = f
  BY <1>2, AloneIdle
<1>4. QED BY <1>2, <1>3 DEF Makes

\* UPDATE POSITION ... WHERE ACCOUNT_ID = a
LEMMA ShiftStep ==
  ASSUME NEW K, NEW A, NEW P, NEW O, TablesOn(K, A, P, O), NEW scan, NEW m, Visits(scan, m),
         NEW a, \A s \in Syms : Pos(a, s) \in K, NEW n \in Int,
         NEW B, B = ShiftPositions(P, a, n),
         NEW f, f = Contents(K, A, P, O), NEW g, g = Contents(K, A, B, O),
         NEW p, p = T!OnAll("add", a, scan, n)
  PROVE  Makes(K, p, f, g) /\ ReadsFirst(p) /\ TablesOn(K, A, B, O)
<1>1. "add" \in Ops
  BY OpNames
<1>2. /\ p \in Seq(StatementOn(K)) /\ DOMAIN p = 1 .. m
      /\ \A i \in 1 .. m : p[i].op = "add" /\ p[i].row = Pos(a, scan[i]) /\ p[i].n = n
  BY <1>1, OnAllType
<1>3. P \in [DOMAIN P -> Int] /\ K \subseteq Shelf
  BY DEF TablesOn
<1>4. TablesOn(K, A, B, O)
  BY <1>3 DEF TablesOn, ShiftPositions
<1>5. f \in [K -> SUBSET Int] /\ g \in [K -> SUBSET Int]
  BY <1>4, ContentsType
<1>6. PICK h : h = Alone(p, f)
  OBVIOUS
<1>7. \A i \in DOMAIN p : \A j \in DOMAIN p : p[i].row = p[j].row => i = j
  BY <1>2, Kinds DEF Visits
<1>8. \A i \in DOMAIN p : p[i].op = "add" /\ p[i].n = n
  BY <1>2
<1>9. /\ h \in [K -> SUBSET Int]
      /\ \A r \in K : h[r] = IF \E i \in DOMAIN p : p[i].row = r THEN {y + n : y \in f[r]} ELSE f[r]
  <2>1. h \in [K -> SUBSET Int]
    BY <1>2, <1>5, <1>6, AloneOn
  <2>2. p \in Seq(StatementOn(K))
    BY <1>2
  <2>3. Adds(p, n)
    BY <1>7, <1>8 DEF Adds
  <2>4. \A r \in K : Alone(p, f)[r] = Added(p, n, f, r)
    BY <1>5, <2>2, <2>3, AloneAdds
  <2>5. QED BY <1>6, <2>1, <2>4 DEF Added
<1>10. ASSUME NEW b, Acct(b) \in K PROVE h[Acct(b)] = g[Acct(b)]
  <2>1. h[Acct(b)] = f[Acct(b)]
    <3>1. ASSUME NEW i \in 1 .. m PROVE p[i].row # Acct(b)
      <4>1. p[i].row = Pos(a, scan[i])
        BY <1>2
      <4>2. QED BY <4>1, Kinds
    <3>2. QED BY <1>2, <1>9, <1>10, <3>1
  <2>2. f[Acct(b)] = RowOf(A, b)
    BY <1>10, ContentsAt
  <2>3. g[Acct(b)] = RowOf(A, b)
    BY <1>10, ContentsAt
  <2>4. QED BY <2>1, <2>2, <2>3
<1>11. ASSUME NEW i, Ord(i) \in K PROVE h[Ord(i)] = g[Ord(i)]
  <2>1. h[Ord(i)] = f[Ord(i)]
    <3>1. ASSUME NEW j \in 1 .. m PROVE p[j].row # Ord(i)
      <4>1. p[j].row = Pos(a, scan[j])
        BY <1>2
      <4>2. QED BY <4>1, Kinds
    <3>2. QED BY <1>2, <1>9, <1>11, <3>1
  <2>2. f[Ord(i)] = Amounts(O, i)
    BY <1>11, ContentsAt
  <2>3. g[Ord(i)] = Amounts(O, i)
    BY <1>11, ContentsAt
  <2>4. QED BY <2>1, <2>2, <2>3
<1>12. ASSUME NEW b, NEW s, Pos(b, s) \in K PROVE h[Pos(b, s)] = g[Pos(b, s)]
  <2>1. f[Pos(b, s)] = RowOf(P, <<b, s>>)
    BY <1>12, ContentsAt
  <2>2. g[Pos(b, s)] = RowOf(B, <<b, s>>)
    BY <1>12, ContentsAt
  <2>3. CASE b = a
    <3>1. s \in Syms
      <4>1. Pos(b, s) \in Shelf
        BY <1>3, <1>12
      <4>2. PICK c \in Accounts, t \in Syms : Pos(b, s) = Pos(c, t)
        BY <4>1, ShelfRows, Kinds
      <4>3. QED BY <4>2, Kinds
    <3>2. PICK i \in 1 .. m : scan[i] = s
      BY <3>1 DEF Visits
    <3>3. p[i].row = Pos(b, s) /\ i \in DOMAIN p
      BY <1>2, <2>3, <3>2
    <3>4. h[Pos(b, s)] = {y + n : y \in f[Pos(b, s)]}
      BY <1>9, <1>12, <3>3
    <3>5. {y + n : y \in RowOf(P, <<b, s>>)} = RowOf(B, <<b, s>>)
      BY <2>3 DEF RowOf, ShiftPositions
    <3>6. QED BY <2>1, <2>2, <3>4, <3>5
  <2>4. CASE b # a
    <3>1. ASSUME NEW i \in 1 .. m PROVE p[i].row # Pos(b, s)
      <4>1. p[i].row = Pos(a, scan[i])
        BY <1>2
      <4>2. QED BY <2>4, <4>1, Kinds
    <3>2. h[Pos(b, s)] = f[Pos(b, s)]
      BY <1>2, <1>9, <1>12, <3>1
    <3>3. RowOf(P, <<b, s>>) = RowOf(B, <<b, s>>)
      BY <2>4 DEF RowOf, ShiftPositions
    <3>4. QED BY <2>1, <2>2, <3>2, <3>3
  <2>5. QED BY <2>3, <2>4
<1>13. h = [r \in K |-> h[r]] /\ g = [r \in K |-> g[r]]
  BY <1>5, <1>9
<1>14. h = g
  BY <1>3, <1>10, <1>11, <1>12, <1>13, SameContents
<1>15. ReadsFirst(p)
  BY <1>2 DEF ReadsFirst
<1>16. QED BY <1>2, <1>4, <1>5, <1>6, <1>14, <1>15 DEF Makes

-----------------------------------------------------------------------------
(* The transactions.                                                       *)

LEMMA PayNothing ==
  ASSUME NEW A, A \in [DOMAIN A -> Int], NEW a, HasRow(A, a)
  PROVE  Pay(A, a, 0) = A
<1>1. A[a] + 0 = A[a]
  BY DEF HasRow
<1>2. QED BY <1>1 DEF Pay

\* No order has the id.
Unused(O, id) == \A q \in O : q.id # id

\* What an order sets aside.
Reserved(A, a, n, price) == IF n > 0 THEN Pay(A, a, -(price * n)) ELSE A
Withheld(P, a, n) == IF n < 0 THEN ShiftPositions(P, a, n) ELSE P

\* CreateOrder
LEMMA OrderTransaction ==
  ASSUME NEW K, NEW A, NEW P, NEW O, TablesOn(K, A, P, O), NEW scan, NEW m, Visits(scan, m),
         NEW a, \A t \in Syms : Pos(a, t) \in K, NEW s \in Syms, Acct(a) \in K, HasRow(A, a),
         NEW n \in Int, NEW price \in Int,
         NEW o \in Order, o.amount = n, NEW id, o.id = id, Ord(id) \in K,
         Unused(O, id), NEW B, B = O \cup {o},
         NEW D, D = Withheld(P, a, n),
         NEW C, C = Reserved(A, a, n, price),
         NEW f, f = Contents(K, A, P, O), NEW h, h = Contents(K, C, D, B),
         NEW p, p = T!CreateOrder(id, a, s, n, price, scan)
  PROVE  Makes(K, p, f, h)
<1>1. PICK g : g = Contents(K, A, P, B)
  OBVIOUS
<1>2. PICK u : u = Placement(id, a, n)
  OBVIOUS
<1>3. Makes(K, u, f, g) /\ TablesOn(K, A, P, B)
  BY <1>1, <1>2, PlaceStep DEF Unused
<1>4. g \in [K -> SUBSET Int]
  BY <1>3 DEF Makes
<1>5. CASE n < 0
  <2>1. D = ShiftPositions(P, a, n) /\ C = A
    BY <1>5 DEF Withheld, Reserved
  <2>2. PICK l : l = Stmt("lock", Pos(a, s), 0)
    OBVIOUS
  <2>3. PICK x : x = << l >>
    OBVIOUS
  <2>4. PICK y : y = T!OnAll("add", a, scan, n)
    OBVIOUS
  <2>5. PICK v : v = x \o y
    OBVIOUS
  <2>6. p = u \o v
    BY <1>2, <1>5, <2>2, <2>3, <2>4, <2>5
       DEF T!CreateOrder, T!Stmt, T!Ord, T!Acct, T!Pos, Stmt, Ord, Acct, Pos, Placement
  <2>7. Splits(p, u, v) /\ Splits(v, x, y)
    BY <2>5, <2>6 DEF Splits
  <2>8. l \in StatementOn(K) /\ l.op \in {"lock", "ref"}
    <3>1. Pos(a, s) \in K /\ "lock" \in Ops
      BY OpNames
    <3>2. QED BY <2>2, <3>1 DEF Stmt, StatementOn
  <2>9. Makes(K, x, g, g) /\ ReadsFirst(x)
    BY <1>4, <2>3, <2>8, IdleOne
  <2>10. Makes(K, y, g, h) /\ ReadsFirst(y)
    BY <1>1, <1>3, <2>1, <2>4, ShiftStep
  <2>11. Makes(K, v, g, h)
    BY <2>7, <2>9, <2>10, Onward
  <2>12. ReadsFirst(v)
    BY <2>7, <2>9, <2>10, ReadsFirstJoined DEF Makes
  <2>13. QED BY <1>3, <2>7, <2>11, <2>12, Onward
<1>6. CASE n > 0
  <2>1. PICK c : c = -(price * n)
    OBVIOUS
  <2>2. c \in Int
    BY <2>1
  <2>3. D = P
    BY <1>6 DEF Withheld
  <2>4. C = Pay(A, a, c)
    BY <1>6, <2>1 DEF Reserved
  <2>5. PICK v : v = << Stmt("lock", Acct(a), 0), Stmt("add", Acct(a), c) >>
    OBVIOUS
  <2>6. p = u \o v
    <3>1. ~(n < 0)
      BY <1>6
    <3> QED BY <1>2, <1>6, <2>1, <2>5, <3>1
       DEF T!CreateOrder, T!Stmt, T!Ord, T!Acct, T!Pos, Stmt, Ord, Acct, Pos, Placement
  <2>7. Splits(p, u, v)
    BY <2>6 DEF Splits
  <2>8. h = Contents(K, C, P, B)
    BY <2>3
  <2>9. Makes(K, v, g, h) /\ ReadsFirst(v)
    BY <1>1, <1>3, <2>2, <2>4, <2>5, <2>8, LockedPayStep
  <2>10. QED BY <1>3, <2>7, <2>9, Onward
<1>7. CASE n = 0
  <2>1. C = A /\ D = P
    BY <1>7 DEF Reserved, Withheld
  <2>2. h = g
    BY <1>1, <2>1
  <2>3. p = u \o << >>
    <3>1. ~(n < 0) /\ ~(n > 0)
      BY <1>7
    <3> QED BY <1>2, <3>1
       DEF T!CreateOrder, T!Stmt, T!Ord, T!Acct, T!Pos, Stmt, Ord, Acct, Pos, Placement
  <2>4. u \in Seq(StatementOn(K))
    BY <1>3 DEF Makes
  <2>5. p = u
    BY <2>3, <2>4
  <2>6. QED BY <1>3, <2>2, <2>5
<1>8. QED BY <1>5, <1>6, <1>7

\* The row of the statement that ends a list.
LEMMA LastOne ==
  ASSUME NEW K, NEW v, NEW e, NEW p, NEW f, NEW g, NEW h, Splits(p, v, e),
         Makes(K, v, f, g), Makes(K, e, g, h), NEW r, 1 \in DOMAIN e, e[1].row = r
  PROVE  Names(p, r)
<1>1. v \in Seq(StatementOn(K)) /\ e \in Seq(StatementOn(K))
  BY DEF Makes
<1>2. \A i \in 1 .. Len(e) : Len(v) + i \in DOMAIN p /\ p[Len(v) + i] = e[i]
  BY <1>1, JoinedAt
<1>3. 1 \in 1 .. Len(e)
  BY <1>1
<1>4. QED BY <1>2, <1>3 DEF Names

\* CancelOrder
LEMMA CancelTransaction ==
  ASSUME NEW K, NEW A, NEW P, NEW O, TablesOn(K, A, P, O), NEW scan, NEW m, Visits(scan, m),
         NEW a, \A t \in Syms : Pos(a, t) \in K, Acct(a) \in K, HasRow(A, a),
         NEW n \in Int, NEW price \in Int, NEW id, Ord(id) \in K,
         NEW B, B = Without(O, id),
         NEW D, D = IF n < 0 THEN ShiftPositions(P, a, -n) ELSE P,
         NEW C, C = IF n < 0 THEN A ELSE Pay(A, a, price * n),
         NEW f, f = Contents(K, A, P, O), NEW h, h = Contents(K, C, D, B),
         NEW p, p = T!CancelOrder(id, a, n, price, scan)
  PROVE  Makes(K, p, f, h) /\ Names(p, Ord(id))
<1>1. PICK g : g = Contents(K, C, D, O)
  OBVIOUS
<1>2. PICK e : e = << Stmt("delete", Ord(id), 0) >>
  OBVIOUS
<1>3. f \in [K -> SUBSET Int] /\ 1 \in DOMAIN e /\ e[1].row = Ord(id)
  BY <1>2, ContentsType DEF Stmt
<1>4. CASE n < 0
  <2>1. D = ShiftPositions(P, a, -n) /\ C = A
    BY <1>4
  <2>2. PICK x : x = T!OnAll("lock", a, scan, 0)
    OBVIOUS
  <2>3. PICK y : y = T!OnAll("add", a, scan, -n)
    OBVIOUS
  <2>4. PICK v : v = x \o y
    OBVIOUS
  <2>5. p = v \o e
    BY <1>2, <1>4, <2>2, <2>3, <2>4 DEF T!CancelOrder, T!Stmt, T!Ord, Stmt, Ord
  <2>6. Splits(p, v, e) /\ Splits(v, x, y)
    BY <2>4, <2>5 DEF Splits
  <2>7. Makes(K, x, f, f)
    BY <1>3, <2>2, LocksStep
  <2>8. -n \in Int
    OBVIOUS
  <2>9. Makes(K, y, f, g) /\ ReadsFirst(y) /\ TablesOn(K, C, D, O)
    BY <1>1, <2>1, <2>3, <2>8, ShiftStep
  <2>10. Makes(K, v, f, g)
    BY <2>6, <2>7, <2>9, Onward
  <2>11. Makes(K, e, g, h) /\ ReadsFirst(e)
    BY <1>1, <1>2, <2>9, DeleteOne
  <2>12. Makes(K, p, f, h)
    BY <2>6, <2>10, <2>11, Onward
  <2>13. Names(p, Ord(id))
    BY <1>3, <2>6, <2>10, <2>11, LastOne
  <2>14. QED BY <2>12, <2>13
<1>5. CASE ~(n < 0)
  <2>1. D = P /\ C = Pay(A, a, price * n)
    BY <1>5
  <2>2. PICK c : c = price * n
    OBVIOUS
  <2>3. c \in Int /\ C = Pay(A, a, c)
    BY <2>1, <2>2
  <2>4. PICK v : v = << Stmt("lock", Acct(a), 0), Stmt("add", Acct(a), c) >>
    OBVIOUS
  <2>5. p = v \o e
    BY <1>2, <1>5, <2>2, <2>4 DEF T!CancelOrder, T!Stmt, T!Ord, T!Acct, Stmt, Ord, Acct
  <2>6. Splits(p, v, e)
    BY <2>5 DEF Splits
  <2>7. g = Contents(K, C, P, O)
    BY <1>1, <2>1
  <2>8. Makes(K, v, f, g) /\ ReadsFirst(v) /\ TablesOn(K, C, P, O)
    BY <2>3, <2>4, <2>7, LockedPayStep
  <2>9. Makes(K, e, g, h) /\ ReadsFirst(e)
    BY <1>2, <2>1, <2>7, <2>8, DeleteOne
  <2>10. Makes(K, p, f, h)
    BY <2>6, <2>8, <2>9, Onward
  <2>11. Names(p, Ord(id))
    BY <1>3, <2>6, <2>8, <2>9, LastOne
  <2>12. QED BY <2>10, <2>11
<1>6. QED BY <1>4, <1>5

LEMMA BothOrders ==
  ASSUME NEW sell, NEW buy, NEW final \in Int, NEW p, p = T!Book(sell, buy, final)
  PROVE  Names(p, Ord(sell)) /\ Names(p, Ord(buy))
<1>1. CASE final < 0
  <2>1. /\ 1 \in DOMAIN p /\ p[1].row = Ord(sell)
        /\ 3 \in DOMAIN p /\ p[3].row = Ord(buy)
    BY <1>1 DEF T!Book, T!Stmt, T!Ord, Ord
  <2>2. QED BY <2>1 DEF Names
<1>2. CASE final > 0
  <2>1. /\ 2 \in DOMAIN p /\ p[2].row = Ord(sell)
        /\ 1 \in DOMAIN p /\ p[1].row = Ord(buy)
    BY <1>2 DEF T!Book, T!Stmt, T!Ord, Ord
  <2>2. QED BY <2>1 DEF Names
<1>3. CASE final = 0
  <2>1. /\ 1 \in DOMAIN p /\ p[1].row = Ord(sell)
        /\ 2 \in DOMAIN p /\ p[2].row = Ord(buy)
    BY <1>3 DEF T!Book, T!Stmt, T!Ord, Ord
  <2>2. QED BY <2>1 DEF Names
<1>4. QED BY <1>1, <1>2, <1>3

\* The refund of ExecOrder, if there is one.
Rebate(a, n) == IF n > 0 THEN << Stmt("add", Acct(a), n) >> ELSE << >>

LEMMA RebateStep ==
  ASSUME NEW K, NEW A, NEW P, NEW O, TablesOn(K, A, P, O), NEW a, HasRow(A, a), Acct(a) \in K,
         NEW n \in Nat, NEW B, B = Pay(A, a, n),
         NEW f, f = Contents(K, A, P, O), NEW g, g = Contents(K, B, P, O),
         NEW p, p = Rebate(a, n)
  PROVE  Makes(K, p, f, g) /\ TablesOn(K, B, P, O)
<1>1. CASE n > 0
  <2>1. p = << Stmt("add", Acct(a), n) >>
    BY <1>1 DEF Rebate
  <2>2. n \in Int
    OBVIOUS
  <2>3. QED BY <2>1, <2>2, PayStep
<1>2. CASE n = 0
  <2>1. p = << >>
    BY <1>2 DEF Rebate
  <2>2. B = A
    <3>1. A \in [DOMAIN A -> Int]
      BY DEF TablesOn
    <3>2. Pay(A, a, 0) = A
      BY <3>1, PayNothing
    <3>3. QED BY <1>2, <3>2
  <2>3. f \in [K -> SUBSET Int] /\ g = f
    BY <2>2, ContentsType
  <2>4. Alone(<< >>, f) = f
    BY <2>3, AloneNone
  <2>5. p \in Seq(StatementOn(K)) /\ Alone(p, f) = g
    BY <2>1, <2>3, <2>4
  <2>6. QED BY <2>2, <2>3, <2>5 DEF Makes
<1>3. QED BY <1>1, <1>2

\* What the seller gets, then what the buyer gets.
Proceeds(a, n) == << Stmt("lock", Acct(a), 0), Stmt("store", Acct(a), n) >>

Handover(seller, money, buyer, s, n) ==
  << Stmt("lock", Acct(seller), 0), Stmt("store", Acct(seller), money),
     Stmt("lock", Pos(buyer, s), 0), Stmt("store", Pos(buyer, s), n),
     Stmt("ref", Acct(buyer), 0) >>

LEMMA HandoverSplits ==
  ASSUME NEW K, NEW seller, NEW money \in Int, NEW buyer, NEW s, NEW n \in Int,
         Acct(seller) \in K, Acct(buyer) \in K, Pos(buyer, s) \in K,
         NEW p, p = Proceeds(seller, money), NEW q, q = Delivery("store", buyer, s, n),
         NEW pq, pq = Handover(seller, money, buyer, s, n)
  PROVE  Splits(pq, p, q)
<1>1. PICK l : l = Stmt("lock", Acct(seller), 0)
  OBVIOUS
<1>2. PICK t : t = Stmt("store", Acct(seller), money)
  OBVIOUS
<1>3. PICK u : u = Stmt("lock", Pos(buyer, s), 0)
  OBVIOUS
<1>4. PICK v : v = Stmt("store", Pos(buyer, s), n)
  OBVIOUS
<1>5. PICK c : c = Stmt("ref", Acct(buyer), 0)
  OBVIOUS
<1>6. /\ l \in StatementOn(K) /\ t \in StatementOn(K) /\ u \in StatementOn(K)
      /\ v \in StatementOn(K) /\ c \in StatementOn(K)
  BY <1>1, <1>2, <1>3, <1>4, <1>5 DEF Stmt, StatementOn, Ops
<1>7. p = << l, t >>
  BY <1>1, <1>2 DEF Proceeds
<1>8. q = << u, v, c >>
  BY <1>3, <1>4, <1>5 DEF Delivery
<1>9. pq = << l, t, u, v, c >>
  BY <1>1, <1>2, <1>3, <1>4, <1>5 DEF Handover
<1>10. QED BY <1>6, <1>7, <1>8, <1>9, List5

\* The refund and MatchOrder
LEMMA MatchTransaction ==
  ASSUME NEW K, NEW A, NEW P, NEW O, TablesOn(K, A, P, O),
         NEW buyer, NEW seller, NEW s, HasRow(A, buyer), HasRow(A, seller),
         Acct(buyer) \in K, Acct(seller) \in K, Pos(buyer, s) \in K,
         NEW buy, NEW sell, Ord(buy) \in K, Ord(sell) \in K,
         NEW n \in Int, NEW price \in Int, NEW final \in Int, NEW refund \in Nat,
         NEW C, C = Pay(A, buyer, refund), NEW E, E = Pay(C, seller, price * n),
         NEW D, D = Deliver(P, <<buyer, s>>, n), NEW B, B = Settle(O, sell, buy, final),
         NEW f, f = Contents(K, A, P, O), NEW h, h = Contents(K, E, D, B),
         NEW p, p = T!MatchOrder(buyer, seller, s, buy, sell, n, price, final, refund)
  PROVE  /\ Makes(K, p, f, h)
         /\ Names(p, Ord(buy)) /\ Names(p, Ord(sell))
<1>1. PICK money : money = price * n
  OBVIOUS
<1>2. money \in Int /\ E = Pay(C, seller, money)
  BY <1>1
<1>3. PICK u : u = Rebate(buyer, refund)
  OBVIOUS
<1>4. PICK v : v = T!Book(sell, buy, final)
  OBVIOUS
<1>5. PICK x : x = Proceeds(seller, money)
  OBVIOUS
<1>6. PICK y : y = Delivery("store", buyer, s, n)
  OBVIOUS
<1>7. PICK z : z = Handover(seller, money, buyer, s, n)
  OBVIOUS
<1>8. PICK uv : uv = u \o v
  OBVIOUS
<1>9. p = uv \o z
  BY <1>1, <1>3, <1>4, <1>7, <1>8
     DEF T!MatchOrder, T!Stmt, T!Acct, T!Pos, Stmt, Acct, Pos, Rebate, Handover
<1>10. Splits(p, uv, z) /\ Splits(uv, u, v)
  BY <1>8, <1>9 DEF Splits
<1>11. Splits(z, x, y)
  BY <1>2, <1>5, <1>6, <1>7, HandoverSplits
<1>12. PICK a : a = Contents(K, C, P, O)
  OBVIOUS
<1>13. PICK b : b = Contents(K, C, P, B)
  OBVIOUS
<1>14. PICK c : c = Contents(K, E, P, B)
  OBVIOUS
<1>15. Makes(K, u, f, a) /\ TablesOn(K, C, P, O)
  BY <1>3, <1>12, RebateStep
<1>16. Makes(K, v, a, b) /\ ReadsFirst(v) /\ TablesOn(K, C, P, B)
  BY <1>4, <1>12, <1>13, <1>15, BookStep
<1>17. HasRow(C, seller)
  BY DEF HasRow, Pay
<1>18. Makes(K, x, b, c) /\ ReadsFirst(x) /\ TablesOn(K, E, P, B)
  <2>1. x = << Stmt("lock", Acct(seller), 0), Stmt("store", Acct(seller), money) >>
    BY <1>5 DEF Proceeds
  <2>2. QED BY <1>2, <1>13, <1>14, <1>16, <1>17, <2>1, LockedPayStep
<1>19. Makes(K, y, c, h) /\ ReadsFirst(y)
  BY <1>6, <1>14, <1>18, DeliverStep
<1>20. Makes(K, z, b, h)
  BY <1>11, <1>18, <1>19, Onward
<1>21. ReadsFirst(z)
  BY <1>11, <1>18, <1>19, ReadsFirstJoined DEF Makes
<1>22. Makes(K, uv, f, b)
  BY <1>10, <1>15, <1>16, Onward
<1>23. Makes(K, p, f, h)
  BY <1>10, <1>20, <1>21, <1>22, Onward
<1>24. /\ u \in Seq(StatementOn(K)) /\ v \in Seq(StatementOn(K))
       /\ uv \in Seq(StatementOn(K)) /\ z \in Seq(StatementOn(K))
  BY <1>15, <1>16, <1>20, <1>22 DEF Makes
<1>25. Names(v, Ord(sell)) /\ Names(v, Ord(buy))
  BY <1>4, BothOrders
<1>26. Names(uv, Ord(sell))
  BY <1>10, <1>24, <1>25, NamesJoined
<1>27. Names(uv, Ord(buy))
  BY <1>10, <1>24, <1>25, NamesJoined
<1>28. Names(p, Ord(sell))
  BY <1>10, <1>24, <1>26, NamesJoined
<1>29. Names(p, Ord(buy))
  BY <1>10, <1>24, <1>27, NamesJoined
<1>30. QED BY <1>23, <1>28, <1>29

-----------------------------------------------------------------------------
(* The steps of Exchange that commit one of them.                          *)

\* The tables of a reachable state.
LEMMA Shelved ==
  ASSUME TypeOK, TypeOK', NEW p \in Seq(StatementOn(Shelf)), NEW K, K = KeysOf(p)
  PROVE  /\ TablesOn(K, account, position, openOrder)
         /\ \A a \in Accounts : Acct(a) \in K
         /\ \A a \in Accounts, s \in Syms : Pos(a, s) \in K
         /\ \A o \in openOrder' : Ord(o.id) \in K
         /\ \A r : Names(p, r) => r \in K
<1>1. /\ openOrder \in SUBSET Order /\ openOrder' \in SUBSET Order
      /\ account \in [DOMAIN account -> Int] /\ position \in [DOMAIN position -> Int]
  BY DEF TypeOK, TablesOK
<1>2. ASSUME NEW i \in DOMAIN p PROVE p[i].row \in Shelf
  <2>1. p[i] \in StatementOn(Shelf)
    OBVIOUS
  <2>2. QED BY <2>1 DEF StatementOn
<1>3. \A o \in openOrder \cup openOrder' : o.id \in Int
  BY <1>1 DEF Order
<1>4. K \subseteq Shelf
  BY <1>2, <1>3 DEF KeysOf, Shelf
<1>5. TablesOn(K, account, position, openOrder)
  BY <1>1, <1>4 DEF TablesOn
<1>6. ASSUME NEW a \in Accounts PROVE Acct(a) \in K
  BY DEF KeysOf
<1>7. ASSUME NEW a \in Accounts, NEW s \in Syms PROVE Pos(a, s) \in K
  <2>1. <<a, s>> \in Key /\ <<a, s>>[1] = a /\ <<a, s>>[2] = s
    BY DEF Key
  <2>2. QED BY <2>1 DEF KeysOf
<1>8. ASSUME NEW o \in openOrder' PROVE Ord(o.id) \in K
  BY DEF KeysOf
<1>9. ASSUME NEW r, Names(p, r) PROVE r \in K
  BY <1>9 DEF Names, KeysOf
<1>10. QED BY <1>5, <1>6, <1>7, <1>8, <1>9

LEMMA OnShelf ==
  ASSUME TypeOK
  PROVE  /\ TablesOn(Shelf, account, position, openOrder)
         /\ \A a \in Accounts : Acct(a) \in Shelf
         /\ \A a \in Accounts, s \in Syms : Pos(a, s) \in Shelf
         /\ \A i \in Int : Ord(i) \in Shelf
<1>1. /\ openOrder \in SUBSET Order
      /\ account \in [DOMAIN account -> Int] /\ position \in [DOMAIN position -> Int]
  BY DEF TypeOK, TablesOK
<1>2. TablesOn(Shelf, account, position, openOrder)
  BY <1>1 DEF TablesOn
<1>3. ASSUME NEW a \in Accounts PROVE Acct(a) \in Shelf
  BY DEF Shelf
<1>4. ASSUME NEW a \in Accounts, NEW s \in Syms PROVE Pos(a, s) \in Shelf
  <2>1. <<a, s>> \in Key /\ <<a, s>>[1] = a /\ <<a, s>>[2] = s
    BY DEF Key
  <2>2. QED BY <2>1 DEF Shelf
<1>5. ASSUME NEW i \in Int PROVE Ord(i) \in Shelf
  BY DEF Shelf
<1>6. QED BY <1>2, <1>3, <1>4, <1>5

LEMMA Performed ==
  ASSUME NEW p, NEW K, K = KeysOf(p), NEW f, f = Contents(K, account, position, openOrder),
         NEW h, h = Contents(K, account', position', openOrder'), Makes(K, p, f, h)
  PROVE  Performs(p)
  BY DEF Makes, Performs

LEMMA AccountPerformed ==
  ASSUME TypeOK, TypeOK', NEW w \in Workers, CreateAccount(w),
         NEW r, r = task[w].req, NEW p, p = T!CreateAccount(r.acct, r.balance)
  PROVE  Performs(p)
<1>1. /\ r \in SubRequest /\ r.op = "account"
  BY DEF CreateAccount, At, TypeOK, TasksOK, TaskOK
<1>2. r.acct \in Accounts /\ r.balance \in Int
  BY <1>1, CreateReqType DEF CreateAccountReq
<1>3. PICK K : K = KeysOf(p)
  OBVIOUS
<1>4. p = << Stmt("ensure", Acct(r.acct), r.balance) >>
  BY DEF T!CreateAccount, T!Stmt, T!Acct, Stmt, Acct
<1>5. PICK f : f = Contents(K, account, position, openOrder)
  OBVIOUS
<1>6. PICK h : h = Contents(K, account', position', openOrder')
  OBVIOUS
<1>7. p \in Seq(StatementOn(Shelf))
  <2>1. Acct(r.acct) \in Shelf /\ "ensure" \in Ops
    BY <1>2, OnShelf, OpNames
  <2>2. Stmt("ensure", Acct(r.acct), r.balance) \in StatementOn(Shelf)
    BY <1>2, <2>1, StmtOn
  <2>3. QED BY <1>4, <2>2
<1>8. TablesOn(K, account, position, openOrder) /\ Acct(r.acct) \in K
  BY <1>2, <1>3, <1>7, Shelved
<1>9. PICK B : B = [k \in DOMAIN account \cup {r.acct} |->
                      IF k \in DOMAIN account THEN account[k] ELSE r.balance]
  OBVIOUS
<1>10. account' = B /\ position' = position /\ openOrder' = openOrder
  BY <1>9 DEF CreateAccount
<1>11. h = Contents(K, B, position, openOrder)
  BY <1>6, <1>10
<1>12. Makes(K, p, f, h)
  BY <1>2, <1>4, <1>5, <1>8, <1>9, <1>11, OpenStep
<1>13. QED BY <1>3, <1>5, <1>6, <1>12, Performed

LEMMA PositionPerformed ==
  ASSUME TypeOK, TypeOK', NEW w \in Workers, CreatePosition(w),
         NEW r, r = task[w].req, NEW p, p = T!CreatePosition(r.acct, r.sym, r.num)
  PROVE  Performs(p)
<1>1. /\ r \in SubRequest /\ r.op = "symbol"
  BY DEF CreatePosition, At, TypeOK, TasksOK, TaskOK
<1>2. r.acct \in Accounts /\ r.sym \in Syms /\ r.num \in Int
  BY <1>1, CreateReqType DEF CreateSymbolReq
<1>3. PICK K : K = KeysOf(p)
  OBVIOUS
<1>4. p = Delivery("upsert", r.acct, r.sym, r.num)
  BY DEF T!CreatePosition, T!Stmt, T!Acct, T!Pos, Stmt, Acct, Pos, Delivery
<1>5. PICK f : f = Contents(K, account, position, openOrder)
  OBVIOUS
<1>6. PICK h : h = Contents(K, account', position', openOrder')
  OBVIOUS
<1>7. PICK B : B = Deliver(position, <<r.acct, r.sym>>, r.num)
  OBVIOUS
<1>8. ASSUME NEW L, TablesOn(L, account, position, openOrder), Acct(r.acct) \in L,
             Pos(r.acct, r.sym) \in L
      PROVE  Makes(L, p, Contents(L, account, position, openOrder),
                   Contents(L, account, B, openOrder))
  BY <1>2, <1>4, <1>7, <1>8, DeliverStep
<1>9. p \in Seq(StatementOn(Shelf))
  BY <1>2, <1>8, OnShelf DEF Makes
<1>10. /\ TablesOn(K, account, position, openOrder) /\ Acct(r.acct) \in K
       /\ Pos(r.acct, r.sym) \in K
  BY <1>2, <1>3, <1>9, Shelved
<1>11. position' = B /\ account' = account /\ openOrder' = openOrder
  BY <1>7 DEF CreatePosition
<1>12. h = Contents(K, account, B, openOrder)
  BY <1>6, <1>11
<1>13. Makes(K, p, f, h)
  BY <1>5, <1>8, <1>10, <1>12
<1>14. QED BY <1>3, <1>5, <1>6, <1>13, Performed

LEMMA OrderPerformed ==
  ASSUME AInv, TypeOK', NEW w \in Workers, CommitOrder(w), NEW scan, NEW m, Visits(scan, m),
         NEW r, r = task[w].req,
         NEW p, p = T!CreateOrder(nextId, r.acct, r.sym, r.amount, r.limit, scan)
  PROVE  Performs(p)
<1>1. TypeOK /\ IdsPlaced
  BY DEF AInv, OInv, OwnerInvariant
<1>2. r \in OrderReq /\ r.acct \in DOMAIN account
  BY <1>1, OrderTask DEF CommitOrder, At, OrderPCs
<1>3. /\ r.acct \in Accounts /\ r.sym \in Syms /\ r.amount \in Int /\ r.limit \in Int
      /\ HasRow(account, r.acct)
  BY <1>2 DEF OrderReq, HasRow
<1>4. PICK o : o = [id |-> nextId, acct |-> r.acct, sym |-> r.sym, amount |-> r.amount,
                    price |-> r.limit, time |-> task[w].curr]
  OBVIOUS
<1>5. o \in Order /\ o.id = nextId /\ o.amount = r.amount
  <2>1. nextId \in Int /\ task[w].curr \in Int
    BY <1>1 DEF TypeOK, TablesOK, TasksOK, Task
  <2>2. QED BY <1>3, <1>4, <2>1 DEF Order
<1>6. Unused(openOrder, nextId)
  BY <1>1 DEF Unused, IdsPlaced, TypeOK, TablesOK, Order
<1>7. PICK B : B = openOrder \cup {o}
  OBVIOUS
<1>8. PICK D : D = Withheld(position, r.acct, r.amount)
  OBVIOUS
<1>9. PICK C : C = Reserved(account, r.acct, r.amount, r.limit)
  OBVIOUS
<1>10. openOrder' = B /\ position' = D /\ account' = C
  BY <1>4, <1>7, <1>8, <1>9 DEF CommitOrder, Withheld, Reserved
<1>11. PICK K : K = KeysOf(p)
  OBVIOUS
<1>12. PICK f : f = Contents(K, account, position, openOrder)
  OBVIOUS
<1>13. PICK h : h = Contents(K, account', position', openOrder')
  OBVIOUS
<1>14. ASSUME NEW L, TablesOn(L, account, position, openOrder), Acct(r.acct) \in L,
              \A t \in Syms : Pos(r.acct, t) \in L, Ord(nextId) \in L
       PROVE  Makes(L, p, Contents(L, account, position, openOrder), Contents(L, C, D, B))
  BY <1>3, <1>5, <1>6, <1>7, <1>8, <1>9, <1>14, OrderTransaction
<1>15. p \in Seq(StatementOn(Shelf))
  <2>1. /\ TablesOn(Shelf, account, position, openOrder) /\ Acct(r.acct) \in Shelf
        /\ \A t \in Syms : Pos(r.acct, t) \in Shelf
    BY <1>1, <1>3, OnShelf
  <2>2. Ord(nextId) \in Shelf
    <3>1. nextId \in Int
      BY <1>1 DEF TypeOK, TablesOK
    <3>2. QED BY <1>1, <3>1, OnShelf
  <2>3. QED BY <1>14, <2>1, <2>2 DEF Makes
<1>16. /\ TablesOn(K, account, position, openOrder) /\ Acct(r.acct) \in K
       /\ \A t \in Syms : Pos(r.acct, t) \in K
  BY <1>1, <1>3, <1>11, <1>15, Shelved
<1>17. Ord(nextId) \in K
  <2>1. o \in openOrder'
    BY <1>7, <1>10
  <2>2. Ord(o.id) \in K
    BY <1>1, <1>11, <1>15, <2>1, Shelved
  <2>3. QED BY <1>5, <2>2
<1>18. Makes(K, p, f, h)
  BY <1>10, <1>12, <1>13, <1>14, <1>16, <1>17
<1>19. QED BY <1>11, <1>12, <1>13, <1>18, Performed

LEMMA CancelPerformed ==
  ASSUME TypeOK, TypeOK', NEW w \in Workers, CommitCancel(w), NEW scan, NEW m, Visits(scan, m),
         NEW o \in task[w].rows, openOrder' = Without(openOrder, o.id),
         position' = IF o.amount < 0 THEN ShiftPositions(position, o.acct, -o.amount) ELSE position,
         account' = IF o.amount < 0 THEN account ELSE Pay(account, o.acct, o.price * o.amount),
         NEW p, p = T!CancelOrder(o.id, o.acct, o.amount, o.price, scan)
  PROVE  Performs(p)
<1>1. o \in Order /\ o.acct \in DOMAIN account
  BY StatusTask DEF CommitCancel, At, StatusPCs, CancelPCs
<1>2. /\ o.acct \in Accounts /\ o.amount \in Int /\ o.price \in Int /\ o.id \in Int
      /\ HasRow(account, o.acct)
  BY <1>1 DEF Order, HasRow
<1>3. PICK B : B = Without(openOrder, o.id)
  OBVIOUS
<1>4. PICK D : D = IF o.amount < 0 THEN ShiftPositions(position, o.acct, -o.amount) ELSE position
  OBVIOUS
<1>5. PICK C : C = IF o.amount < 0 THEN account ELSE Pay(account, o.acct, o.price * o.amount)
  OBVIOUS
<1>6. openOrder' = B /\ position' = D /\ account' = C
  BY <1>3, <1>4, <1>5
<1>7. PICK K : K = KeysOf(p)
  OBVIOUS
<1>8. PICK f : f = Contents(K, account, position, openOrder)
  OBVIOUS
<1>9. PICK h : h = Contents(K, account', position', openOrder')
  OBVIOUS
<1>10. ASSUME NEW L, TablesOn(L, account, position, openOrder), Acct(o.acct) \in L,
              \A t \in Syms : Pos(o.acct, t) \in L, Ord(o.id) \in L
       PROVE  /\ Makes(L, p, Contents(L, account, position, openOrder), Contents(L, C, D, B))
              /\ Names(p, Ord(o.id))
  BY <1>2, <1>3, <1>4, <1>5, <1>10, CancelTransaction
<1>11. p \in Seq(StatementOn(Shelf)) /\ Names(p, Ord(o.id))
  <2>1. /\ TablesOn(Shelf, account, position, openOrder) /\ Acct(o.acct) \in Shelf
        /\ \A t \in Syms : Pos(o.acct, t) \in Shelf
    BY <1>2, OnShelf
  <2>2. Ord(o.id) \in Shelf
    BY <1>2, OnShelf
  <2>3. QED BY <1>10, <2>1, <2>2 DEF Makes
<1>12. /\ TablesOn(K, account, position, openOrder) /\ Acct(o.acct) \in K
       /\ \A t \in Syms : Pos(o.acct, t) \in K
  BY <1>2, <1>7, <1>11, Shelved
<1>13. Ord(o.id) \in K
  BY <1>7, <1>11, Shelved
<1>14. Makes(K, p, f, h)
  BY <1>6, <1>8, <1>9, <1>10, <1>12, <1>13
<1>15. QED BY <1>7, <1>8, <1>9, <1>14, Performed

LEMMA MatchPerformed ==
  ASSUME TypeOK, TypeOK', NEW w \in Workers, At(w, "match"), NEW o \in task[w].rows,
         NEW e, e = Trade(w, o), NEW refund, refund = Refund(task[w].req, o.price),
         NEW final, final = task[w].left + o.amount,
         openOrder' = Settle(openOrder, e.sell, e.buy, final),
         NEW C, C = Pay(account, e.buyer, refund),
         account' = Pay(C, e.seller, e.price * e.amount),
         position' = Deliver(position, <<e.buyer, e.sym>>, e.amount),
         NEW p, p = T!MatchOrder(e.buyer, e.seller, e.sym, e.buy, e.sell, e.amount, e.price,
                                 final, refund)
  PROVE  Performs(p)
<1>1. /\ e \in Exec /\ e.buyer \in DOMAIN account /\ e.seller \in DOMAIN account
      /\ final \in Int /\ refund \in Int
  BY TradeType
<1>2. /\ e.buyer \in Accounts /\ e.seller \in Accounts /\ e.sym \in Syms /\ e.amount \in Int
      /\ e.price \in Int /\ e.buy \in Int /\ e.sell \in Int
      /\ HasRow(account, e.buyer) /\ HasRow(account, e.seller)
  BY <1>1 DEF Exec, HasRow
<1>3. refund \in Nat
  <2>1. task[w].req.limit \in Int /\ o.price \in Int
    BY OrderTask DEF At, OrderPCs, OrderReq, Order
  <2>2. QED BY <1>1, <2>1 DEF Refund
<1>4. PICK B : B = Settle(openOrder, e.sell, e.buy, final)
  OBVIOUS
<1>5. PICK D : D = Deliver(position, <<e.buyer, e.sym>>, e.amount)
  OBVIOUS
<1>6. PICK E : E = Pay(C, e.seller, e.price * e.amount)
  OBVIOUS
<1>7. openOrder' = B /\ position' = D /\ account' = E
  BY <1>4, <1>5, <1>6
<1>8. PICK K : K = KeysOf(p)
  OBVIOUS
<1>9. PICK f : f = Contents(K, account, position, openOrder)
  OBVIOUS
<1>10. PICK h : h = Contents(K, account', position', openOrder')
  OBVIOUS
<1>11. ASSUME NEW L, TablesOn(L, account, position, openOrder),
              Acct(e.buyer) \in L, Acct(e.seller) \in L, Pos(e.buyer, e.sym) \in L,
              Ord(e.buy) \in L, Ord(e.sell) \in L
       PROVE  /\ Makes(L, p, Contents(L, account, position, openOrder), Contents(L, E, D, B))
              /\ Names(p, Ord(e.buy)) /\ Names(p, Ord(e.sell))
  BY <1>1, <1>2, <1>3, <1>4, <1>5, <1>6, <1>11, MatchTransaction
<1>12. p \in Seq(StatementOn(Shelf)) /\ Names(p, Ord(e.buy)) /\ Names(p, Ord(e.sell))
  <2>1. /\ TablesOn(Shelf, account, position, openOrder) /\ Acct(e.buyer) \in Shelf
        /\ Acct(e.seller) \in Shelf /\ Pos(e.buyer, e.sym) \in Shelf
    BY <1>2, OnShelf
  <2>2. Ord(e.buy) \in Shelf /\ Ord(e.sell) \in Shelf
    BY <1>2, OnShelf
  <2>3. QED BY <1>11, <2>1, <2>2 DEF Makes
<1>13. /\ TablesOn(K, account, position, openOrder) /\ Acct(e.buyer) \in K /\ Acct(e.seller) \in K
       /\ Pos(e.buyer, e.sym) \in K
  BY <1>2, <1>8, <1>12, Shelved
<1>14. Ord(e.buy) \in K /\ Ord(e.sell) \in K
  BY <1>8, <1>12, Shelved
<1>15. Makes(K, p, f, h)
  BY <1>7, <1>9, <1>10, <1>11, <1>13, <1>14
<1>16. QED BY <1>8, <1>9, <1>10, <1>15, Performed

-----------------------------------------------------------------------------
(* Every step commits one of them or leaves the tables alone.              *)

\* The database may visit an account's symbols in some order.
LEMMA ScanExists ==
  ASSUME IsFiniteSet(Syms)
  PROVE  \E scan \in Scans : Visits(scan, Cardinality(Syms))
<1>1. PICK m : m = Cardinality(Syms)
  OBVIOUS
<1>2. m \in Nat /\ ExistsBijection(1 .. m, Syms)
  BY <1>1, FS_CardinalityType
<1>3. PICK scan : scan \in Bijection(1 .. m, Syms)
  BY <1>2 DEF ExistsBijection
<1>4. scan \in Injection(1 .. m, Syms) /\ scan \in Surjection(1 .. m, Syms)
  BY <1>3 DEF Bijection
<1>5. scan \in [1 .. m -> Syms] /\ \A i, j \in 1 .. m : scan[i] = scan[j] => i = j
  BY <1>4 DEF Injection, IsInjective
<1>6. \A s \in Syms : \E i \in 1 .. m : scan[i] = s
  BY <1>4 DEF Surjection
<1>7. QED BY <1>1, <1>2, <1>3, <1>5, <1>6 DEF Scans, Visits

LEMMA CreateTransactions ==
  ASSUME TypeOK, TypeOK', NEW w \in Workers, CreateStep(w), ~UNCHANGED tables
  PROVE  task'[w] # task[w] /\ \E p \in Pending(w) : Performs(p)
<1>1. PICK r : r = task[w].req
  OBVIOUS
<1>2. CASE CreateAccount(w)
  <2>1. PICK p : p = T!CreateAccount(r.acct, r.balance)
    OBVIOUS
  <2>2. Performs(p)
    BY <1>1, <1>2, <2>1, AccountPerformed
  <2>3. task[w].pc = "createAccount" /\ task'[w].pc \in {"idle", "account"}
    BY <1>2, ReplyTask DEF CreateAccount, At
  <2>4. Pending(w) = {p}
    BY <1>1, <2>1, <2>3 DEF Pending
  <2>5. QED BY <2>2, <2>3, <2>4
<1>3. CASE CreatePosition(w)
  <2>1. PICK p : p = T!CreatePosition(r.acct, r.sym, r.num)
    OBVIOUS
  <2>2. Performs(p)
    BY <1>1, <1>3, <2>1, PositionPerformed
  <2>3. task[w].pc = "createPosition" /\ task'[w].pc \in {"idle", "account"}
    BY <1>3, ReplyTask DEF CreatePosition, At
  <2>4. Pending(w) = {p}
    BY <1>1, <2>1, <2>3 DEF Pending
  <2>5. QED BY <2>2, <2>3, <2>4
<1>4. CASE AbandonPosition(w)
  BY <1>4 DEF AbandonPosition
<1>5. QED BY <1>2, <1>3, <1>4 DEF CreateStep

LEMMA OrderTransactions ==
  ASSUME AInv, TypeOK', NEW w \in Workers, CommitOrder(w), IsFiniteSet(Syms)
  PROVE  task'[w] # task[w] /\ \E p \in Pending(w) : Performs(p)
<1>1. PICK r : r = task[w].req
  OBVIOUS
<1>2. PICK scan \in Scans : Visits(scan, Cardinality(Syms))
  BY ScanExists
<1>3. PICK p : p = T!CreateOrder(nextId, r.acct, r.sym, r.amount, r.limit, scan)
  OBVIOUS
<1>4. Performs(p)
  BY <1>1, <1>2, <1>3, OrderPerformed
<1>5. task[w].pc = "insert" /\ task'[w].pc = "lookup"
  BY GotoMoved DEF CommitOrder, At, AInv, OInv
<1>6. p \in Pending(w)
  BY <1>1, <1>2, <1>3, <1>5 DEF Pending
<1>7. QED BY <1>4, <1>5, <1>6

LEMMA MatchTransactions ==
  ASSUME TypeOK, TypeOK', NEW w \in Workers, Match(w)
  PROVE  task'[w] # task[w] /\ \E p \in Pending(w) : Performs(p)
<1>1. PICK o \in Leading(task[w].rows) :
         LET e == Trade(w, o)
             refund == Refund(task[w].req, o.price)
             paid == Pay(account, e.buyer, refund)
         IN /\ exec' = Append(exec, e)
            /\ openOrder' = BookAfter(w, e, o)
            /\ account' = Pay(paid, e.seller, e.price * e.amount)
            /\ position' = Deliver(position, <<e.buyer, e.sym>>, e.amount)
            /\ NextRow(w, o)
  BY DEF Match
<1>2. o \in task[w].rows /\ At(w, "match")
  BY DEF Leading, Match
<1>3. PICK e : e = Trade(w, o)
  OBVIOUS
<1>4. PICK refund : refund = Refund(task[w].req, o.price)
  OBVIOUS
<1>5. PICK final : final = task[w].left + o.amount
  OBVIOUS
<1>6. PICK C : C = Pay(account, e.buyer, refund)
  OBVIOUS
<1>7. PICK p : p = T!MatchOrder(e.buyer, e.seller, e.sym, e.buy, e.sell, e.amount, e.price,
                                final, refund)
  OBVIOUS
<1>8. openOrder' = Settle(openOrder, e.sell, e.buy, final)
  BY <1>1, <1>3, <1>5 DEF BookAfter
<1>9. account' = Pay(C, e.seller, e.price * e.amount)
  BY <1>1, <1>3, <1>4, <1>6
<1>10. position' = Deliver(position, <<e.buyer, e.sym>>, e.amount)
  BY <1>1, <1>3
<1>11. Performs(p)
  BY <1>2, <1>3, <1>4, <1>5, <1>6, <1>7, <1>8, <1>9, <1>10, MatchPerformed
<1>12. p \in Pending(w)
  BY <1>2, <1>3, <1>4, <1>5, <1>7 DEF Pending, At
<1>13. task'[w].rows # task[w].rows
  <2>1. task'[w] = AfterFill(w, o)
    BY <1>1 DEF NextRow, TypeOK, TasksOK
  <2>2. task[w] \in Task
    BY DEF TypeOK, TasksOK
  <2>3. o \notin AfterFill(w, o).rows
    BY <2>2 DEF AfterFill, Task
  <2>4. QED BY <1>2, <2>1, <2>3
<1>14. QED BY <1>11, <1>12, <1>13

LEMMA CancelTransactions ==
  ASSUME TypeOK, TypeOK', NEW w \in Workers, CommitCancel(w), ~UNCHANGED tables, IsFiniteSet(Syms)
  PROVE  task'[w] # task[w] /\ \E p \in Pending(w) : Performs(p)
<1>1. PICK o \in task[w].rows :
         /\ position' = IF o.amount < 0 THEN ShiftPositions(position, o.acct, -o.amount)
                                        ELSE position
         /\ account' = IF o.amount < 0 THEN account ELSE Pay(account, o.acct, o.price * o.amount)
         /\ openOrder' = Without(openOrder, o.id)
  BY DEF CommitCancel
<1>2. PICK scan \in Scans : Visits(scan, Cardinality(Syms))
  BY ScanExists
<1>3. PICK p : p = T!CancelOrder(o.id, o.acct, o.amount, o.price, scan)
  OBVIOUS
<1>4. Performs(p)
  BY <1>1, <1>2, <1>3, CancelPerformed
<1>5. task[w].pc = "cancel" /\ task'[w].pc = "executed"
  BY GotoMoved DEF CommitCancel, At
<1>6. p \in Pending(w)
  BY <1>2, <1>3, <1>5 DEF Pending
<1>7. QED BY <1>4, <1>5, <1>6

\* Database.cpp's works: every step of a worker that changes ACCOUNT, POSITION or
\* OPEN_ORDER makes of them what one transaction of that worker makes of them when
\* it runs alone from its first statement to its last.
THEOREM AtomicSteps ==
  ASSUME IsFiniteSet(Syms)
  PROVE  Spec => StepsAreTransactions
<1> DEFINE Alike == \/ UNCHANGED tables
                    \/ \E w \in Workers : task'[w] # task[w] /\ \E p \in Pending(w) : Performs(p)
<1>1. AInv /\ [Next]_vars => [Alike]_vars
  <2>1. SUFFICES ASSUME AInv, [Next]_vars, ~UNCHANGED vars, ~UNCHANGED tables
                 PROVE  \E w \in Workers : task'[w] # task[w] /\ \E p \in Pending(w) : Performs(p)
    OBVIOUS
  <2>2. PICK w \in Workers : Receive(w) \/ Step(w)
    BY <2>1 DEF Next
  <2>3. TypeOK /\ TypeOK'
    BY <2>1, NextType DEF AInv, OInv
  <2>4. CreateStep(w) \/ CommitOrder(w) \/ Match(w) \/ CommitCancel(w)
    BY <2>1, <2>2, Writers
  <2>5. task'[w] # task[w] /\ \E p \in Pending(w) : Performs(p)
    BY <2>1, <2>3, <2>4, CreateTransactions, OrderTransactions, MatchTransactions,
       CancelTransactions
  <2>6. QED BY <2>5
<1> HIDE DEF Alike
<1>2. Spec => [][Alike]_vars
  BY <1>1, InitOwner, NextOwner, PTL DEF Spec
<1>3. QED BY <1>2 DEF Alike, StepsAreTransactions
=============================================================================
