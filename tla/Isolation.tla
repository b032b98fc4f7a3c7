----------------------------- MODULE Isolation ------------------------------
(***************************************************************************)
(* What the row locks are for: the tables look as if the transactions had  *)
(* run one after the other.                                                *)
(***************************************************************************)
EXTENDS RowLocks, Functions

Committed == {w \in Workers : tx[w].end = "committed"}

Orders == Bijection(1 .. Cardinality(Committed), Committed)

\* The rows after each of the transactions, run alone in this order.
InOrder(order) ==
  LET rows[k \in 0 .. Cardinality(Committed)] ==
        IF k = 0 THEN Opening ELSE Alone(program[order[k]], rows[k - 1])
  IN rows

\* However their statements interleave, what is committed is what the committed
\* transactions make of the opening rows when run alone, in some order: CreateOrder,
\* CancelOrder, MatchOrder and CreatePosition are steps, as Exchange has them.
Serializable == \E order \in Orders : store = InOrder(order)[Cardinality(Committed)]

\* Which order: that of the commits, unless a statement passes over a row that is
\* yet to be inserted by another transaction and comes before it therefore.
Inserts == {"insert", "ensure", "upsert", "store"}
Passes == {"add", "set", "delete"}

Uses(w, ops, r) == \E i \in DOMAIN program[w] : program[w][i].row = r /\ program[w][i].op \in ops

\* A row that is there from the start, and stays.
Stays(r) == Opening[r] # {} /\ \A w \in Workers : ~Uses(w, {"delete"}, r)

NonePassedOver ==
  \A u, w \in Workers, r \in Rows :
    u # w /\ Uses(u, Inserts, r) /\ Uses(w, Passes, r) => Stays(r)
=============================================================================
