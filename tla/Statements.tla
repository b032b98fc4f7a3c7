----------------------------- MODULE Statements -----------------------------
(***************************************************************************)
(* The SQL statements of Database.cpp's transactions: the row a statement  *)
(* is about, what it makes of it, and what a list of them makes of the     *)
(* tables when nobody else runs.                                           *)
(*                                                                         *)
(* A row holds a set of one integer, the column that is updated, or the    *)
(* empty set when there is no such row.                                    *)
(***************************************************************************)
EXTENDS Integers, Sequences

Acct(a) == <<"ACCOUNT", a>>
Pos(a, s) == <<"POSITION", a, s>>
Ord(id) == <<"OPEN_ORDER", id>>

Ops == {"lock",     \* SELECT ... FOR UPDATE
        "add",      \* UPDATE ... SET X = X + n
        "set",      \* UPDATE ... SET X = n
        "delete",   \* DELETE
        "insert",   \* INSERT
        "ensure",   \* INSERT ... ON CONFLICT DO NOTHING
        "upsert",   \* INSERT ... ON CONFLICT DO UPDATE SET X = X + n
        "store",    \* UPDATE ... SET X = <value read> + n, or INSERT if none was read
        "ref"}      \* the foreign key's check after an INSERT

Stmt(op, row, n) == [op |-> op, row |-> row, n |-> n]

-----------------------------------------------------------------------------

\* What a statement makes of a row that holds v, after a SELECT that found read.
Value(s, v, read) ==
  CASE s.op \in {"lock", "ref"} -> v
    [] s.op = "add" -> {x + s.n : x \in v}
    [] s.op = "set" -> {s.n : x \in v}
    [] s.op = "delete" -> {}
    [] s.op = "insert" -> {s.n}
    [] s.op = "ensure" -> IF v = {} THEN {s.n} ELSE v
    [] s.op = "upsert" -> IF v = {} THEN {s.n} ELSE {x + s.n : x \in v}
    [] s.op = "store" -> IF read = {} THEN {s.n} ELSE {x + s.n : x \in read}

\* A statement run on the rows as they are, after a SELECT that found l.read.
Apply(l, s) == [rows |-> [l.rows EXCEPT ![s.row] = Value(s, @, l.read)],
                read |-> IF s.op = "lock" THEN l.rows[s.row] ELSE l.read]

\* A transaction run alone: what it has made of the rows, and read, after each statement.
Replay(p, rows) ==
  LET after[i \in 0 .. Len(p)] == IF i = 0 THEN [rows |-> rows, read |-> {}]
                                  ELSE Apply(after[i - 1], p[i])
  IN after

Alone(p, rows) == Replay(p, rows)[Len(p)].rows

\* Transactions in which "store" writes what the SELECT just before it has read.
ReadsFirst(p) ==
  \A i \in DOMAIN p :
    p[i].op = "store" => i > 1 /\ p[i - 1].op = "lock" /\ p[i - 1].row = p[i].row
=============================================================================
