----------------------------- MODULE MCRowLocks -----------------------------
(* Three transactions at a time of two accounts and two symbols for TLC. *)
EXTENDS Isolation

CONSTANTS w1, w2, w3, a, b, c, x, y

MCRows == {Acct(a), Acct(b), Acct(c), Pos(a, x), Pos(a, y), Pos(b, x), Pos(b, y)}
          \cup {Ord(id) : id \in 1 .. 9}

\* Account c and a's shares of y are yet to be created; orders 1 to 4 are open.
MCOpening ==
  [r \in MCRows |->
     IF r \in {Acct(a), Acct(b)} THEN {20}
     ELSE IF r \in {Pos(a, x), Pos(b, x), Pos(b, y)} THEN {9}
     ELSE IF r \in {Ord(1), Ord(3)} THEN {2}
     ELSE IF r \in {Ord(2), Ord(4)} THEN {-2}
     ELSE {}]

\* Orders 1 (a) and 3 (b) buy, 2 (b) and 4 (a) sell.
Programs ==
  << CreateAccount(c, 5), CreateAccount(c, 6),
     CreatePosition(a, y, 3), CreatePosition(a, y, 4), CreatePosition(a, x, 5),
     CreateOrder(5, a, x, 2, 3, << >>), CreateOrder(6, a, y, 1, 2, << >>),
     CreateOrder(7, b, x, -2, 3, <<x, y>>), CreateOrder(8, b, y, -1, 3, <<y, x>>),
     CreateOrder(9, a, x, -1, 3, <<y, x>>),
     SelectOrders(<<3, 1>>),
     MatchOrder(a, b, x, 1, 2, 2, 3, 0, 1), MatchOrder(b, a, y, 3, 4, 1, 3, 1, 1),
     MatchOrder(a, b, y, 1, 2, 1, 3, -1, 1),
     CancelOrder(1, a, 2, 3, << >>), CancelOrder(2, b, -2, 3, <<x, y>>) >>

\* Any three of them.
MCMixes ==
  {[w \in {w1, w2, w3} |-> IF w = w1 THEN Programs[i] ELSE IF w = w2 THEN Programs[j] ELSE Programs[k]] :
     <<i, j, k>> \in {t \in (DOMAIN Programs) \X (DOMAIN Programs) \X (DOMAIN Programs) :
                        t[1] < t[2] /\ t[2] < t[3]}}
=============================================================================
