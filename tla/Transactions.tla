---------------------------- MODULE Transactions ----------------------------
(***************************************************************************)
(* The transactions of Database.cpp, statement by statement.  A statement  *)
(* on several rows is one item per row, in the order the database scans    *)
(* them.  EXEC and CANCEL are left out: their rows have serial keys of     *)
(* their own and nobody waits for them.                                    *)
(***************************************************************************)
EXTENDS Statements

OnAll(op, a, scan, n) == [i \in DOMAIN scan |-> Stmt(op, Pos(a, scan[i]), n)]

CreateAccount(a, balance) == << Stmt("ensure", Acct(a), balance) >>

\* Faulty: inserts when the SELECT found no row, as it did before the INSERT
\* got its ON CONFLICT clause.
CreatePosition_Separate(a, s, n) ==
  << Stmt("lock", Pos(a, s), 0), Stmt("store", Pos(a, s), n), Stmt("ref", Acct(a), 0) >>

CreatePosition(a, s, n) ==
  << Stmt("lock", Pos(a, s), 0), Stmt("upsert", Pos(a, s), n), Stmt("ref", Acct(a), 0) >>

\* scan: the account's symbols in the order UPDATE POSITION visits them.
CreateOrder(id, a, s, n, price, scan) ==
  << Stmt("insert", Ord(id), n), Stmt("ref", Acct(a), 0) >>
  \o IF n < 0 THEN << Stmt("lock", Pos(a, s), 0) >> \o OnAll("add", a, scan, n)
     ELSE IF n > 0 THEN << Stmt("lock", Acct(a), 0), Stmt("add", Acct(a), -(price * n)) >>
     ELSE << >>

\* The SELECT ... FOR UPDATE of ExecOrder locks its rows in the order it sorts them.
SelectOrders(ids) == [i \in DOMAIN ids |-> Stmt("lock", Ord(ids[i]), 0)]

\* MatchOrder's three cases, by the shares that are left.
Book(sell, buy, final) ==
  IF final < 0
  THEN << Stmt("lock", Ord(sell), 0), Stmt("set", Ord(sell), final), Stmt("delete", Ord(buy), 0) >>
  ELSE IF final > 0
  THEN << Stmt("lock", Ord(buy), 0), Stmt("delete", Ord(sell), 0), Stmt("set", Ord(buy), final) >>
  ELSE << Stmt("delete", Ord(sell), 0), Stmt("delete", Ord(buy), 0) >>

\* W2 of ExecOrder: the refund of a buyer whose order came in, then MatchOrder.
MatchOrder(buyer, seller, s, buy, sell, n, price, final, refund) ==
  (IF refund > 0 THEN << Stmt("add", Acct(buyer), refund) >> ELSE << >>)
  \o Book(sell, buy, final)
  \o << Stmt("lock", Acct(seller), 0), Stmt("store", Acct(seller), price * n),
        Stmt("lock", Pos(buyer, s), 0), Stmt("store", Pos(buyer, s), n),
        Stmt("ref", Acct(buyer), 0) >>

\* CancelOrder after it has read amount n and the price, without a lock.
CancelOrder(id, a, n, price, scan) ==
  (IF n < 0 THEN OnAll("lock", a, scan, 0) \o OnAll("add", a, scan, -n)
   ELSE << Stmt("lock", Acct(a), 0), Stmt("add", Acct(a), price * n) >>)
  \o << Stmt("delete", Ord(id), 0) >>
=============================================================================
