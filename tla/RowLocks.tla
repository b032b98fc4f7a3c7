------------------------------ MODULE RowLocks ------------------------------
(***************************************************************************)
(* Concurrent transactions of the workers, one statement a step, under the *)
(* row locks of the database at READ COMMITTED: a statement sees committed *)
(* rows and its own transaction's writes, waits for conflicting locks of   *)
(* other transactions, and keeps its locks to the end.  Whoever finds      *)
(* itself in a cycle of waits is aborted, and so is an INSERT of a key     *)
(* that exists.  Exchange takes each of these transactions for one step;   *)
(* here is why it may.                                                     *)
(***************************************************************************)
EXTENDS Transactions, FiniteSets

CONSTANTS Workers,   \* each runs one transaction on its own connection
          Rows,      \* primary keys
          Opening,   \* the committed rows at the start
          Mixes      \* the transactions that may run at the same time

Statement == [op : Ops, row : Rows, n : Int]

ASSUME LocksAssumption ==
  /\ Opening \in [Rows -> SUBSET Int]
  /\ Mixes \subseteq [Workers -> Seq(Statement)]
  /\ \A p \in Mixes : \A w \in Workers : ReadsFirst(p[w])

VARIABLES
  program,   \* each worker's transaction
  store,     \* the rows as committed
  newest,    \* the newest version of each row, committed or not
  dirty,     \* the rows each transaction has written
  held,      \* its locks: rows and modes
  tx         \* its next statement, the value it read, and how it ended

vars == <<program, store, newest, dirty, held, tx>>

\* FOR KEY SHARE, FOR NO KEY UPDATE, FOR UPDATE
Modes == {"share", "write", "update"}

Conflict(m, n) == "update" \in {m, n} \/ (m = "write" /\ n = "write")

Init ==
  /\ program \in Mixes
  /\ store = Opening
  /\ newest = Opening
  /\ dirty = [w \in Workers |-> {}]
  /\ held = [w \in Workers |-> {}]
  /\ tx = [w \in Workers |-> [at |-> 1, read |-> {}, new |-> FALSE, end |-> "no"]]

-----------------------------------------------------------------------------

Active(w) == tx[w].end = "no"
Current(w) == program[w][tx[w].at]
Runs(w) == Active(w) /\ tx[w].at <= Len(program[w])

\* What a transaction sees in a row.
Seen(w, r) == IF r \in dirty[w] THEN newest[r] ELSE store[r]

\* Faulty: SELECT without FOR UPDATE.
Needs_PlainSelect(w) ==
  LET s == Current(w)
      there == Seen(w, s.row) # {}
  IN IF s.op = "ref" THEN {m \in {"share"} : tx[w].new}
     ELSE IF s.op = "lock" THEN {}
     ELSE IF s.op = "delete" THEN {m \in {"update"} : there}
     ELSE IF s.op \in {"add", "set"} THEN {m \in {"write"} : there}
     ELSE IF there THEN {m \in {"write"} : s.op # "ensure"}
     ELSE {"update"}

\* The lock a statement needs, if any: a row that is not there is passed over,
\* and an INSERT waits for another transaction that inserts the same key.
Needs(w) ==
  LET s == Current(w)
      there == Seen(w, s.row) # {}
  IN IF s.op = "ref" THEN {m \in {"share"} : tx[w].new}
     ELSE IF s.op \in {"lock", "delete"} THEN {m \in {"update"} : there}
     ELSE IF s.op \in {"add", "set"} THEN {m \in {"write"} : there}
     ELSE IF there THEN {m \in {"write"} : s.op # "ensure"}
     ELSE {"update"}

WaitsFor(w) ==
  {u \in Workers \ {w} :
     Runs(w) /\ \E m \in Needs(w), k \in held[u] : k[1] = Current(w).row /\ Conflict(m, k[2])}

\* The transactions that w waits for, directly or through others: they are in every
\* set that holds those w waits for and those its members wait for.
Behind(w) ==
  {u \in Workers : \A S \in SUBSET Workers :
     WaitsFor(w) \subseteq S /\ (\A v \in S : WaitsFor(v) \subseteq S) => u \in S}

\* A key to insert exists already.
Duplicate(w) ==
  LET s == Current(w)
  IN /\ s.op = "insert" \/ (s.op = "store" /\ tx[w].read = {})
     /\ Seen(w, s.row) # {}

Execute(w) ==
  LET s == Current(w)
      v == Seen(w, s.row)
      writes == Value(s, v, tx[w].read) # v
  IN /\ Runs(w)
     /\ ~Duplicate(w)
     /\ WaitsFor(w) = {}
     /\ held' = [held EXCEPT ![w] = @ \cup {<<s.row, m>> : m \in Needs(w)}]
     /\ newest' = IF writes THEN [newest EXCEPT ![s.row] = Value(s, v, tx[w].read)] ELSE newest
     /\ dirty' = IF writes THEN [dirty EXCEPT ![w] = @ \cup {s.row}] ELSE dirty
     /\ tx' = [tx EXCEPT ![w] = [at |-> tx[w].at + 1,
                                 read |-> IF s.op = "lock" THEN v ELSE tx[w].read,
                                 new |-> v = {} /\ writes,
                                 end |-> "no"]]
     /\ UNCHANGED <<program, store>>

End(w, how) ==
  /\ tx' = [tx EXCEPT ![w] = [tx[w] EXCEPT !.end = how]]
  /\ held' = [held EXCEPT ![w] = {}]
  /\ dirty' = [dirty EXCEPT ![w] = {}]
  /\ UNCHANGED program

\* Faulty: a session that never commits keeps its locks.
Commit_KeepsLocks(w) ==
  /\ Active(w) /\ tx[w].at > Len(program[w])
  /\ store' = [r \in Rows |-> Seen(w, r)]
  /\ tx' = [tx EXCEPT ![w] = [tx[w] EXCEPT !.end = "committed"]]
  /\ dirty' = [dirty EXCEPT ![w] = {}]
  /\ UNCHANGED <<program, held, newest>>

Commit(w) ==
  /\ Active(w) /\ tx[w].at > Len(program[w])
  /\ store' = [r \in Rows |-> Seen(w, r)]
  /\ End(w, "committed")
  /\ UNCHANGED newest

\* Faulty: the handler commits what was done so far.
Abort_Commits(w) ==
  /\ Runs(w)
  /\ Duplicate(w) \/ w \in Behind(w)
  /\ store' = [r \in Rows |-> Seen(w, r)]
  /\ End(w, "aborted")
  /\ UNCHANGED newest

Abort(w) ==
  /\ Runs(w)
  /\ Duplicate(w) \/ w \in Behind(w)
  /\ newest' = [r \in Rows |-> IF r \in dirty[w] THEN store[r] ELSE newest[r]]
  /\ End(w, "aborted")
  /\ UNCHANGED store

TxStep(w) == Execute(w) \/ Commit(w) \/ Abort(w)

Next == \E w \in Workers : TxStep(w)

Spec == Init /\ [][Next]_vars

\* The database runs the statements that need not wait, and looks for a cycle
\* whenever one has waited for deadlock_timeout.
FairSpec == Spec /\ \A w \in Workers : WF_vars(TxStep(w))

-----------------------------------------------------------------------------

TypeOK ==
  /\ program \in [Workers -> Seq(Statement)]
  /\ \A w \in Workers : ReadsFirst(program[w])
  /\ store \in [Rows -> SUBSET Int]
  /\ newest \in [Rows -> SUBSET Int]
  /\ dirty \in [Workers -> SUBSET Rows]
  /\ held \in [Workers -> SUBSET (Rows \X Modes)]
  /\ tx \in [Workers -> [at : Nat \ {0}, read : SUBSET Int, new : BOOLEAN,
                         end : {"no", "committed", "aborted"}]]

\* No two transactions hold conflicting locks on a row.
Compatible ==
  \A u, w \in Workers : u # w =>
    \A k \in held[u], l \in held[w] : k[1] = l[1] => ~Conflict(k[2], l[2])

\* A row is only written under a lock that keeps other writers out, and its
\* newest version is the committed one unless a transaction has written it.
WritesLocked ==
  /\ \A w \in Workers : \A r \in dirty[w] : \E m \in {"write", "update"} : <<r, m>> \in held[w]
  /\ \A r \in Rows : (\A w \in Workers : r \notin dirty[w]) => newest[r] = store[r]

\* The balance or position that MatchOrder read under FOR UPDATE is still the
\* row's value when it writes the sum back: no update is lost.
ReadsCurrent ==
  \A w \in Workers :
    Runs(w) /\ Current(w).op = "store" /\ tx[w].read # {} =>
      /\ <<Current(w).row, "update">> \in held[w]
      /\ Seen(w, Current(w).row) = tx[w].read

LockInvariant == TypeOK /\ Compatible /\ WritesLocked /\ ReadsCurrent

RowsOf(w) == {program[w][i].row : i \in DOMAIN program[w]}
HasOrder(w) == \E r \in RowsOf(w) : r[1] = "OPEN_ORDER"

\* danger_log.txt: "combine them into one exec() call using INSERT ON CONFLICT DO
\* UPDATE".  Creations no longer fail because of each other: one is aborted only
\* when a fill of MatchOrder is about to bring the same account its first shares.
CreationsAgree ==
  \A w \in Workers :
    tx[w].end = "aborted" /\ ~HasOrder(w) =>
      \E u \in Workers : /\ HasOrder(u)
                         /\ \E i \in DOMAIN program[u] : /\ program[u][i].op = "store"
                                                        /\ program[u][i].row[1] = "POSITION"
                                                        /\ program[u][i].row \in RowsOf(w)

\* Every transaction commits or is aborted: no wait is for ever.
AllEnd == <>(\A w \in Workers : ~Active(w))
=============================================================================
