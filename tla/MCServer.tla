------------------------------ MODULE MCServer ------------------------------
(* Three clients, two workers and the texts of parse.cpp for TLC. *)
EXTENDS Server

CONSTANTS c1, c2, c3, w1, w2

P == INSTANCE Parse

Tag(name, attrs, children) == [name |-> name, attrs |-> attrs, children |-> children]
Acct == Tag("account", [id |-> 1, balance |-> 5], << >>)

\* Two whole requests, the part of one that came in the first segment, and one
\* whose root is not known.
MCTexts == {"create", "cancel", "part", "query"}
TextOf(t) == CASE t = "create" -> Tag("create", << >>, << Acct >>)
               [] t = "cancel" -> Tag("transactions", [id |-> 1], << Tag("cancel", [id |-> 7], << >>) >>)
               [] t = "part" -> Tag("", << >>, << >>)
               [] t = "query" -> Tag("query", << >>, << >>)

\* Three deliveries, in one order: the clients connect in any order.
Mix(i, j, k) == [c \in Clients |-> IF c = c1 THEN i ELSE IF c = c2 THEN j ELSE k]
Listed == <<"create", "query", "silent", "hangup">>
MCMixes ==
  {Mix(Listed[i], Listed[j], Listed[k]) :
     <<i, j, k>> \in {t \in (1 .. 4) \X (1 .. 4) \X (1 .. 4) : t[1] <= t[2] /\ t[2] <= t[3]}}
  \cup {Mix("create", "create", "part"), Mix("create", "silent", "part"),
        Mix("create", "cancel", "cancel"), Mix("cancel", "cancel", "hangup"),
        Mix("create", "cancel", "silent"), Mix("cancel", "query", "part")}

MCReading == [t \in MCTexts |-> P!Outcome(TextOf(t))]
MCCancelling ==
  {t \in MCTexts : /\ MCReading[t] = "ok"
                   /\ \E i \in DOMAIN P!SubRequests(TextOf(t)) :
                        P!SubRequests(TextOf(t))[i].op = "cancel"}
=============================================================================
