--------------------------- MODULE AccountProofs ----------------------------
(***************************************************************************)
(* What the tables add up to, for any number of workers: POSITION agrees   *)
(* with the logs (AuditInvariant), no share is lost and no answer leaves   *)
(* one out (SharesInvariant, AnswersInvariant).                            *)
(***************************************************************************)
EXTENDS AccountInv, ExchangeProofs, DataLemmas

-----------------------------------------------------------------------------
(* The logs. *)

\* The history of creations holds the requests that took effect.
GrantLog == granted \in Seq(CreateAccountReq \cup CreateSymbolReq)

\* The sums are whole numbers.
LEMMA LogTypes ==
  ASSUME TablesOK, GrantLog, IsFiniteSet(placed)
  PROVE  /\ \A id : ExecShares(id) \in Int /\ CancelShares(id) \in Int
         /\ \A a, s : /\ Bought(a, s) \in Int /\ Returned(a, s) \in Int
                      /\ Granted(a, s) \in Int /\ Offered(a, s) \in Int
<1>1. /\ \A i \in DOMAIN exec : exec[i].amount \in Int
      /\ \A i \in DOMAIN cancel : cancel[i].amount \in Int
      /\ \A i \in DOMAIN granted : granted[i].op = "symbol" => granted[i].num \in Int
      /\ \A o \in placed : -o.amount \in Int
  <2>1. \A i \in DOMAIN exec : exec[i] \in Exec
    BY DEF TablesOK
  <2>2. \A i \in DOMAIN cancel : cancel[i] \in Cancelled
    BY DEF TablesOK
  <2>3. \A i \in DOMAIN granted : granted[i] \in CreateAccountReq \cup CreateSymbolReq
    BY DEF GrantLog
  <2>4. \A i \in DOMAIN granted : granted[i].op = "symbol" => granted[i].num \in Int
    BY <2>3 DEF CreateAccountReq, CreateSymbolReq
  <2>5. \A o \in placed : -o.amount \in Int
    BY DEF TablesOK, Order
  <2>6. QED BY <2>1, <2>2, <2>4, <2>5 DEF Exec, Cancelled
<1>2. /\ \A I : I \subseteq DOMAIN exec => IsFiniteSet(I)
      /\ \A I : I \subseteq DOMAIN cancel => IsFiniteSet(I)
      /\ \A I : I \subseteq DOMAIN granted => IsFiniteSet(I)
  BY LogIndices DEF TablesOK, GrantLog
<1>3. \A i \in DOMAIN cancel : Abs(cancel[i].amount) \in Int /\ -cancel[i].amount \in Int
  BY <1>1 DEF Abs
<1>4. ASSUME NEW id
      PROVE  ExecShares(id) \in Int /\ CancelShares(id) \in Int
  <2>1. ExecRows(id) \subseteq DOMAIN exec /\ CancelRows(id) \subseteq DOMAIN cancel
    BY DEF ExecRows, CancelRows
  <2>2. /\ Summable([i \in ExecRows(id) |-> exec[i].amount])
        /\ Summable([i \in CancelRows(id) |-> Abs(cancel[i].amount)])
    BY <1>1, <1>2, <1>3, <2>1 DEF Summable
  <2>3. QED BY <2>2, SumType DEF ExecShares, CancelShares
<1>5. ASSUME NEW a, NEW s
      PROVE  /\ Bought(a, s) \in Int /\ Returned(a, s) \in Int
             /\ Granted(a, s) \in Int /\ Offered(a, s) \in Int
  <2>1. /\ PurchasesOf(a, s) \subseteq DOMAIN exec /\ ReturnsTo(a, s) \subseteq DOMAIN cancel
        /\ GrantsTo(a, s) \subseteq DOMAIN granted /\ SellOrdersOf(a, s) \subseteq placed
        /\ \A i \in GrantsTo(a, s) : granted[i].op = "symbol"
    BY DEF PurchasesOf, ReturnsTo, GrantsTo, SellOrdersOf
  <2>2. IsFiniteSet(SellOrdersOf(a, s))
    BY <2>1, FS_Subset
  <2>3. /\ Summable([i \in PurchasesOf(a, s) |-> exec[i].amount])
        /\ Summable([i \in ReturnsTo(a, s) |-> -cancel[i].amount])
    BY <1>1, <1>2, <1>3, <2>1 DEF Summable
  <2>4. /\ Summable([i \in GrantsTo(a, s) |-> granted[i].num])
        /\ Summable([o \in SellOrdersOf(a, s) |-> -o.amount])
    BY <1>1, <1>2, <2>1, <2>2 DEF Summable
  <2>5. QED BY <2>3, <2>4, SumType DEF Bought, Returned, Granted, Offered
<1>6. QED BY <1>4, <1>5

\* They stay while their tables do.
LEMMA LogsSame ==
  /\ exec' = exec => /\ \A id : ExecShares(id)' = ExecShares(id)
                     /\ \A a, s : Bought(a, s)' = Bought(a, s)
  /\ cancel' = cancel => /\ \A id : CancelShares(id)' = CancelShares(id)
                         /\ \A a, s : Returned(a, s)' = Returned(a, s)
  /\ granted' = granted => \A a, s : Granted(a, s)' = Granted(a, s)
  /\ placed' = placed => \A a, s : Offered(a, s)' = Offered(a, s)
<1>1. ASSUME exec' = exec
      PROVE  /\ \A id : ExecShares(id)' = ExecShares(id)
             /\ \A a, s : Bought(a, s)' = Bought(a, s)
  BY <1>1 DEF ExecShares, ExecRows, Bought, PurchasesOf
<1>2. ASSUME cancel' = cancel
      PROVE  /\ \A id : CancelShares(id)' = CancelShares(id)
             /\ \A a, s : Returned(a, s)' = Returned(a, s)
  BY <1>2 DEF CancelShares, CancelRows, Returned, ReturnsTo
<1>3. ASSUME granted' = granted
      PROVE  \A a, s : Granted(a, s)' = Granted(a, s)
  BY <1>3 DEF Granted, GrantsTo
<1>4. ASSUME placed' = placed
      PROVE  \A a, s : Offered(a, s)' = Offered(a, s)
  BY <1>4 DEF Offered, SellOrdersOf
<1>5. QED BY <1>1, <1>2, <1>3, <1>4

LEMMA ExecAppend ==
  ASSUME TablesOK, NEW e \in Exec, exec' = Append(exec, e)
  PROVE  /\ \A id : /\ ExecShares(id) \in Int
                    /\ ExecShares(id)' = ExecShares(id) +
                         IF id \in {e.buy, e.sell} THEN e.amount ELSE 0
         /\ \A a, s : /\ Bought(a, s) \in Int
                      /\ Bought(a, s)' = Bought(a, s) +
                           IF e.buyer = a /\ e.sym = s THEN e.amount ELSE 0
<1> DEFINE n == Len(exec) + 1
<1>1. exec \in Seq(Exec)
  BY DEF TablesOK
<1>2. e.amount \in Int /\ \A i \in DOMAIN exec : exec[i].amount \in Int
  <2>1. \A i \in DOMAIN exec : exec[i] \in Exec
    BY <1>1
  <2>2. QED BY <2>1 DEF Exec
<1>3. /\ DOMAIN exec' = DOMAIN exec \cup {n}
      /\ \A i \in DOMAIN exec : exec'[i] = exec[i]
      /\ n \notin DOMAIN exec /\ exec'[n] = e
  BY <1>1, Appended
<1>4. ASSUME NEW id
      PROVE  /\ ExecShares(id) \in Int
             /\ ExecShares(id)' = ExecShares(id) +
                  IF id \in {e.buy, e.sell} THEN e.amount ELSE 0
  <2> DEFINE I == ExecRows(id)
             f == [i \in I |-> exec[i].amount]
             J == ExecRows(id)'
             g == [i \in J |-> exec'[i].amount]
             counts == id \in {e.buy, e.sell}
             m == e.amount
  <2>1. I \subseteq DOMAIN exec /\ n \notin I /\ J = IF counts THEN I \cup {n} ELSE I
    BY <1>3 DEF ExecRows
  <2> HIDE DEF I, J
  <2>2. IsFiniteSet(I)
    BY <1>1, <2>1, LogIndices
  <2>3. /\ DOMAIN f = I /\ \A i \in I : f[i] \in Int /\ g[i] = f[i]
        /\ DOMAIN g = J /\ (counts => g[n] = m) /\ m \in Int
    BY <1>2, <1>3, <2>1
  <2>4. ExecShares(id) = SumFunction(f) /\ ExecShares(id)' = SumFunction(g)
    BY DEF ExecShares, I, J
  <2>5. Summable(f)
    BY <2>2, <2>3 DEF Summable
  <2> HIDE DEF f, g, m, counts, n
  <2>6. /\ n \notin DOMAIN f /\ (DOMAIN g = DOMAIN f \/ DOMAIN g = DOMAIN f \cup {n})
        /\ \A i \in DOMAIN f : g[i] = f[i]
        /\ (n \in DOMAIN g => g[n] = m) /\ m \in Int
        /\ n \in DOMAIN g <=> counts
    BY <2>1, <2>3
  <2>7. SumFunction(f) \in Int /\ SumFunction(g) = SumFunction(f) + IF n \in DOMAIN g THEN m ELSE 0
    BY <2>5, <2>6, SumLog, SumType
  <2>8. QED BY <2>4, <2>6, <2>7 DEF counts, m
<1>5. ASSUME NEW a, NEW s
      PROVE  /\ Bought(a, s) \in Int
             /\ Bought(a, s)' = Bought(a, s) +
                  IF e.buyer = a /\ e.sym = s THEN e.amount ELSE 0
  <2> DEFINE I == PurchasesOf(a, s)
             f == [i \in I |-> exec[i].amount]
             J == PurchasesOf(a, s)'
             g == [i \in J |-> exec'[i].amount]
             counts == e.buyer = a /\ e.sym = s
             m == e.amount
  <2>1. I \subseteq DOMAIN exec /\ n \notin I /\ J = IF counts THEN I \cup {n} ELSE I
    BY <1>3 DEF PurchasesOf
  <2> HIDE DEF I, J
  <2>2. IsFiniteSet(I)
    BY <1>1, <2>1, LogIndices
  <2>3. /\ DOMAIN f = I /\ \A i \in I : f[i] \in Int /\ g[i] = f[i]
        /\ DOMAIN g = J /\ (counts => g[n] = m) /\ m \in Int
    BY <1>2, <1>3, <2>1
  <2>4. Bought(a, s) = SumFunction(f) /\ Bought(a, s)' = SumFunction(g)
    BY DEF Bought, I, J
  <2>5. Summable(f)
    BY <2>2, <2>3 DEF Summable
  <2> HIDE DEF f, g, m, counts, n
  <2>6. /\ n \notin DOMAIN f /\ (DOMAIN g = DOMAIN f \/ DOMAIN g = DOMAIN f \cup {n})
        /\ \A i \in DOMAIN f : g[i] = f[i]
        /\ (n \in DOMAIN g => g[n] = m) /\ m \in Int
        /\ n \in DOMAIN g <=> counts
    BY <2>1, <2>3
  <2>7. SumFunction(f) \in Int /\ SumFunction(g) = SumFunction(f) + IF n \in DOMAIN g THEN m ELSE 0
    BY <2>5, <2>6, SumLog, SumType
  <2>8. QED BY <2>4, <2>6, <2>7 DEF counts, m
<1>6. QED BY <1>4, <1>5

LEMMA CancelAppend ==
  ASSUME TablesOK, NEW c \in Cancelled, cancel' = Append(cancel, c)
  PROVE  /\ \A id : /\ CancelShares(id) \in Int
                    /\ CancelShares(id)' = CancelShares(id) +
                         IF c.id = id THEN Abs(c.amount) ELSE 0
         /\ \A a, s : /\ Returned(a, s) \in Int
                      /\ Returned(a, s)' = Returned(a, s) +
                           IF c.acct = a /\ c.sym = s /\ c.amount < 0 THEN -c.amount ELSE 0
<1> DEFINE n == Len(cancel) + 1
<1>1. cancel \in Seq(Cancelled)
  BY DEF TablesOK
<1>2. /\ Abs(c.amount) \in Int /\ -c.amount \in Int
      /\ \A i \in DOMAIN cancel : Abs(cancel[i].amount) \in Int /\ -cancel[i].amount \in Int
  <2>1. \A i \in DOMAIN cancel : cancel[i] \in Cancelled
    BY <1>1
  <2>2. c.amount \in Int /\ \A i \in DOMAIN cancel : cancel[i].amount \in Int
    BY <2>1 DEF Cancelled
  <2>3. QED BY <2>2 DEF Abs
<1>3. /\ DOMAIN cancel' = DOMAIN cancel \cup {n}
      /\ \A i \in DOMAIN cancel : cancel'[i] = cancel[i]
      /\ n \notin DOMAIN cancel /\ cancel'[n] = c
  BY <1>1, Appended
<1>4. ASSUME NEW id
      PROVE  /\ CancelShares(id) \in Int
             /\ CancelShares(id)' = CancelShares(id) + IF c.id = id THEN Abs(c.amount) ELSE 0
  <2> DEFINE I == CancelRows(id)
             f == [i \in I |-> Abs(cancel[i].amount)]
             J == CancelRows(id)'
             g == [i \in J |-> Abs(cancel'[i].amount)]
             counts == c.id = id
             m == Abs(c.amount)
  <2>1. I \subseteq DOMAIN cancel /\ n \notin I /\ J = IF counts THEN I \cup {n} ELSE I
    BY <1>3 DEF CancelRows
  <2> HIDE DEF I, J
  <2>2. IsFiniteSet(I)
    BY <1>1, <2>1, LogIndices
  <2>3. /\ DOMAIN f = I /\ \A i \in I : f[i] \in Int /\ g[i] = f[i]
        /\ DOMAIN g = J /\ (counts => g[n] = m) /\ m \in Int
    BY <1>2, <1>3, <2>1
  <2>4. CancelShares(id) = SumFunction(f) /\ CancelShares(id)' = SumFunction(g)
    BY DEF CancelShares, I, J
  <2>5. Summable(f)
    BY <2>2, <2>3 DEF Summable
  <2> HIDE DEF f, g, m, counts, n
  <2>6. /\ n \notin DOMAIN f /\ (DOMAIN g = DOMAIN f \/ DOMAIN g = DOMAIN f \cup {n})
        /\ \A i \in DOMAIN f : g[i] = f[i]
        /\ (n \in DOMAIN g => g[n] = m) /\ m \in Int
        /\ n \in DOMAIN g <=> counts
    BY <2>1, <2>3
  <2>7. SumFunction(f) \in Int /\ SumFunction(g) = SumFunction(f) + IF n \in DOMAIN g THEN m ELSE 0
    BY <2>5, <2>6, SumLog, SumType
  <2>8. QED BY <2>4, <2>6, <2>7 DEF counts, m
<1>5. ASSUME NEW a, NEW s
      PROVE  /\ Returned(a, s) \in Int
             /\ Returned(a, s)' = Returned(a, s) +
                  IF c.acct = a /\ c.sym = s /\ c.amount < 0 THEN -c.amount ELSE 0
  <2> DEFINE I == ReturnsTo(a, s)
             f == [i \in I |-> -cancel[i].amount]
             J == ReturnsTo(a, s)'
             g == [i \in J |-> -cancel'[i].amount]
             counts == c.acct = a /\ c.sym = s /\ c.amount < 0
             m == -c.amount
  <2>1. I \subseteq DOMAIN cancel /\ n \notin I /\ J = IF counts THEN I \cup {n} ELSE I
    BY <1>3 DEF ReturnsTo
  <2> HIDE DEF I, J
  <2>2. IsFiniteSet(I)
    BY <1>1, <2>1, LogIndices
  <2>3. /\ DOMAIN f = I /\ \A i \in I : f[i] \in Int /\ g[i] = f[i]
        /\ DOMAIN g = J /\ (counts => g[n] = m) /\ m \in Int
    BY <1>2, <1>3, <2>1
  <2>4. Returned(a, s) = SumFunction(f) /\ Returned(a, s)' = SumFunction(g)
    BY DEF Returned, I, J
  <2>5. Summable(f)
    BY <2>2, <2>3 DEF Summable
  <2> HIDE DEF f, g, m, counts, n
  <2>6. /\ n \notin DOMAIN f /\ (DOMAIN g = DOMAIN f \/ DOMAIN g = DOMAIN f \cup {n})
        /\ \A i \in DOMAIN f : g[i] = f[i]
        /\ (n \in DOMAIN g => g[n] = m) /\ m \in Int
        /\ n \in DOMAIN g <=> counts
    BY <2>1, <2>3
  <2>7. SumFunction(f) \in Int /\ SumFunction(g) = SumFunction(f) + IF n \in DOMAIN g THEN m ELSE 0
    BY <2>5, <2>6, SumLog, SumType
  <2>8. QED BY <2>4, <2>6, <2>7 DEF counts, m
<1>6. QED BY <1>4, <1>5

LEMMA GrantAppend ==
  ASSUME GrantLog, NEW r \in CreateAccountReq \cup CreateSymbolReq, granted' = Append(granted, r)
  PROVE  /\ GrantLog'
         /\ \A a, s : /\ Granted(a, s) \in Int
                      /\ Granted(a, s)' = Granted(a, s) +
                           IF r.op = "symbol" /\ r.acct = a /\ r.sym = s THEN r.num ELSE 0
<1> DEFINE n == Len(granted) + 1
           S == CreateAccountReq \cup CreateSymbolReq
<1> HIDE DEF S
<1>1. granted \in Seq(S) /\ r \in S
  BY DEF GrantLog, S
<1>2. /\ r.op = "symbol" => r.num \in Int
      /\ \A i \in DOMAIN granted : granted[i].op = "symbol" => granted[i].num \in Int
  <2>1. \A i \in DOMAIN granted : granted[i] \in S
    BY <1>1
  <2>2. \A q \in S : q.op = "symbol" => q.num \in Int
    BY DEF S, CreateAccountReq, CreateSymbolReq
  <2>3. QED BY <1>1, <2>1, <2>2
<1>3. /\ DOMAIN granted' = DOMAIN granted \cup {n}
      /\ \A i \in DOMAIN granted : granted'[i] = granted[i]
      /\ n \notin DOMAIN granted /\ granted'[n] = r
      /\ granted' \in Seq(S)
  BY <1>1, Appended
<1>4. ASSUME NEW a, NEW s
      PROVE  /\ Granted(a, s) \in Int
             /\ Granted(a, s)' = Granted(a, s) +
                  IF r.op = "symbol" /\ r.acct = a /\ r.sym = s THEN r.num ELSE 0
  <2> DEFINE I == GrantsTo(a, s)
             f == [i \in I |-> granted[i].num]
             J == GrantsTo(a, s)'
             g == [i \in J |-> granted'[i].num]
             counts == r.op = "symbol" /\ r.acct = a /\ r.sym = s
             m == IF counts THEN r.num ELSE 0
  <2>1. /\ I \subseteq DOMAIN granted /\ n \notin I /\ J = IF counts THEN I \cup {n} ELSE I
        /\ \A i \in I : granted[i].op = "symbol"
    BY <1>3 DEF GrantsTo
  <2> HIDE DEF I, J
  <2>2. IsFiniteSet(I)
    BY <1>1, <2>1, LogIndices
  <2>3. /\ DOMAIN f = I /\ \A i \in I : f[i] \in Int /\ g[i] = f[i]
        /\ DOMAIN g = J /\ (counts => g[n] = m) /\ m \in Int
    BY <1>2, <1>3, <2>1
  <2>4. Granted(a, s) = SumFunction(f) /\ Granted(a, s)' = SumFunction(g)
    BY DEF Granted, I, J
  <2>5. Summable(f)
    BY <2>2, <2>3 DEF Summable
  <2> HIDE DEF f, g, m, counts, n
  <2>6. /\ n \notin DOMAIN f /\ (DOMAIN g = DOMAIN f \/ DOMAIN g = DOMAIN f \cup {n})
        /\ \A i \in DOMAIN f : g[i] = f[i]
        /\ (n \in DOMAIN g => g[n] = m) /\ m \in Int
        /\ n \in DOMAIN g <=> counts
    BY <2>1, <2>3
  <2>7. SumFunction(f) \in Int /\ SumFunction(g) = SumFunction(f) + IF n \in DOMAIN g THEN m ELSE 0
    BY <2>5, <2>6, SumLog, SumType
  <2>8. QED BY <2>4, <2>6, <2>7 DEF counts, m
<1>5. QED BY <1>3, <1>4 DEF GrantLog, S

\* What an order that is placed adds to the shares offered.
LEMMA PlacedOffer ==
  ASSUME TablesOK, IsFiniteSet(placed), NEW o \in Order, o \notin placed, placed' = placed \cup {o}
  PROVE  /\ IsFiniteSet(placed)'
         /\ \A a, s : /\ Offered(a, s) \in Int
                      /\ Offered(a, s)' = Offered(a, s) +
                           IF o.acct = a /\ o.sym = s /\ o.amount < 0 THEN -o.amount ELSE 0
<1>1. -o.amount \in Int /\ \A p \in placed : -p.amount \in Int
  BY DEF TablesOK, Order
<1>2. ASSUME NEW a, NEW s
      PROVE  /\ Offered(a, s) \in Int
             /\ Offered(a, s)' = Offered(a, s) +
                  IF o.acct = a /\ o.sym = s /\ o.amount < 0 THEN -o.amount ELSE 0
  <2> DEFINE I == SellOrdersOf(a, s)
             f == [p \in I |-> -p.amount]
             J == SellOrdersOf(a, s)'
             g == [p \in J |-> -p.amount]
             counts == o.acct = a /\ o.sym = s /\ o.amount < 0
  <2>1. I \subseteq placed /\ o \notin I /\ J = IF counts THEN I \cup {o} ELSE I
    BY DEF SellOrdersOf
  <2> HIDE DEF I, J
  <2>2. IsFiniteSet(I)
    BY <2>1, FS_Subset
  <2>3. /\ DOMAIN f = I /\ \A p \in I : f[p] \in Int /\ g[p] = f[p]
        /\ DOMAIN g = J /\ (o \in J => g[o] = -o.amount)
    BY <1>1, <2>1
  <2>4. Summable(f)
    BY <2>2, <2>3 DEF Summable
  <2>5. Offered(a, s) = SumFunction(f) /\ Offered(a, s)' = SumFunction(g)
    BY DEF Offered, I, J
  <2> HIDE DEF f, g, counts
  <2>6. /\ o \notin DOMAIN f /\ (DOMAIN g = DOMAIN f \/ DOMAIN g = DOMAIN f \cup {o})
        /\ \A p \in DOMAIN f : g[p] = f[p]
        /\ (o \in DOMAIN g => g[o] = -o.amount) /\ (o \in DOMAIN g <=> counts)
    BY <2>1, <2>3
  <2>7. SumFunction(g) = SumFunction(f) + IF o \in DOMAIN g THEN -o.amount ELSE 0
    BY <1>1, <2>4, <2>6, SumLog
  <2>8. QED BY <2>4, <2>5, <2>6, <2>7, SumType DEF counts
<1>3. IsFiniteSet(placed \cup {o})
  BY FS_AddElement
<1>4. QED BY <1>2, <1>3

-----------------------------------------------------------------------------
(* Where a step may take a worker. *)

\* The handlers of queries and cancellations keep to their own places.
LEMMA StatusPlaces ==
  ASSUME TypeOK, NEW w \in Workers, QueryStep(w) \/ CancelStep(w)
  PROVE  task'[w].pc \in {"idle", "account"} \cup StatusPCs
<1>1. task \in [Workers -> Task] /\ task[w] \in Task
  BY DEF Inv, TypeOK, TasksOK
<1>2. ASSUME NEW ok, NEW val, NEW report, Reply(w, ok, val, report)
      PROVE  task'[w].pc \in {"idle", "account"}
  BY <1>2, ReplyTask DEF Inv
<1>3. ASSUME NEW pc \in StatusPCs, Goto(w, pc) \/ Enter(w, pc)
      PROVE  task'[w].pc \in StatusPCs
  BY <1>3, GotoPc, EnterPc
<1>4. CASE Look(w)
  <2>1. task'[w].pc = task[w].pc /\ task[w].pc \in {"trans", "belong"}
    BY <1>1, <1>4 DEF Look, Task
  <2>2. QED BY <2>1 DEF StatusPCs
<1>5. CASE CheckTransID(w) \/ CheckBelong(w)
  <2>1. Reject(w) \/ \E pc \in {"belong", "status", "open"} : Enter(w, pc)
    BY <1>5 DEF CheckTransID, CheckBelong
  <2>2. {"belong", "status", "open"} \subseteq StatusPCs
    BY DEF StatusPCs, CancelPCs
  <2>3. QED BY <1>2, <1>3, <2>1, <2>2 DEF Reject
<1>6. CASE QueryOrder(w)
  <2>1. CASE task[w].look < 3
    <3>1. task'[w].pc = "status"
      BY <1>1, <1>6, <2>1 DEF QueryOrder, At, Task
    <3>2. QED BY <3>1 DEF StatusPCs
  <2>2. CASE ~(task[w].look < 3)
    BY <1>2, <1>6, <2>2 DEF QueryOrder
  <2>3. QED BY <2>1, <2>2
<1>7. CASE CheckIfOpen(w) \/ CommitCancel(w)
  <2>1. Reject(w) \/ \E pc \in {"read", "executed"} : Goto(w, pc)
    BY <1>7 DEF CheckIfOpen, CommitCancel
  <2>2. {"read", "executed"} \subseteq StatusPCs
    BY DEF StatusPCs, CancelPCs
  <2>3. QED BY <1>2, <1>3, <2>1, <2>2 DEF Reject
<1>8. CASE ReadOrder(w)
  BY <1>1, <1>8 DEF ReadOrder, StatusPCs, CancelPCs, Task
<1>9. CASE AbandonCancel(w) \/ ReadExecuted(w)
  BY <1>2, <1>9 DEF AbandonCancel, ReadExecuted
<1>10. QED BY <1>4, <1>5, <1>6, <1>7, <1>8, <1>9 DEF QueryStep, CancelStep

\* An order that is about to be stored has passed checkSellerShare when it was
\* its turn, and a worker keeps its id and its rows while it fills them.
LEMMA OrderPlaces ==
  ASSUME TypeOK, NEW w \in Workers, Receive(w) \/ Step(w)
  PROVE  /\ task'[w].pc \in {"begin", "insert"} =>
              /\ task'[w].req = task[w].req
              /\ \/ task[w].pc = "begin"
                 \/ task[w].pc = "account" /\ task[w].req.amount = 0
                 \/ task[w].pc = "funds" /\ Affordable(task[w].req)
         /\ task'[w].pc \in {"lock", "match"} =>
              /\ task'[w].tid = task[w].tid
              /\ SelectRows(w) \/ LockRows(w) \/ Match(w) \/ AbandonMatch(w)
<1> DEFINE r == task[w].req
           u == task'[w]
           Elsewhere == u.pc \notin {"begin", "insert", "lock", "match"}
<1>1. task \in [Workers -> Task] /\ task[w] \in Task
  BY DEF Inv, TypeOK, TasksOK
<1>2. ASSUME NEW ok, NEW val, NEW report, Reply(w, ok, val, report)
      PROVE  Elsewhere
  BY <1>2, ReplyTask DEF Inv
<1>3. ASSUME NEW pc, Goto(w, pc)
      PROVE  u.pc = pc /\ u.req = r /\ u.tid = task[w].tid
  BY <1>1, <1>3 DEF Goto, Task
<1>4. CASE Receive(w)
  <2>1. task' = [task EXCEPT ![w] = Run(Head(todo))] /\ Head(todo) \in Seq(SubRequest)
    BY <1>4 DEF Receive, Inv, TypeOK, Request
  <2>2. QED BY <1>1, <2>1, RunType
<1>5. CASE CheckAccount(w)
  <2>1. task[w].pc = "account" /\ (Reject(w) \/ Goto(w, AfterAccount(r)))
    BY <1>5 DEF CheckAccount, At
  <2>2. CASE Reject(w)
    BY <1>2, <2>2 DEF Reject
  <2>3. CASE Goto(w, AfterAccount(r))
    BY <1>3, <2>1, <2>3 DEF AfterAccount
  <2>4. QED BY <2>1, <2>2, <2>3
<1>6. CASE CreateStep(w) \/ ReplyOpened(w)
  BY <1>2, <1>6 DEF CreateStep, CreateAccount, CreatePosition, AbandonPosition, ReplyOpened
<1>7. CASE QueryStep(w) \/ CancelStep(w)
  BY <1>7, StatusPlaces DEF StatusPCs, CancelPCs
<1>8. CASE CheckFunds(w)
  <2>1. task[w].pc = "funds" /\ (Reject(w) \/ (Affordable(r) /\ Goto(w, "begin")))
    BY <1>8 DEF CheckFunds, At
  <2>2. CASE Reject(w)
    BY <1>2, <2>2 DEF Reject
  <2>3. CASE Affordable(r) /\ Goto(w, "begin")
    BY <1>3, <2>1, <2>3
  <2>4. QED BY <2>1, <2>2, <2>3
<1>9. CASE BeginOrder(w)
  BY <1>1, <1>9 DEF BeginOrder, At, Task
<1>10. CASE CommitOrder(w) \/ AbandonOrder(w) \/ AbandonSelect(w)
  <2>1. \E pc \in {"lookup", "select", "done"} : Goto(w, pc)
    BY <1>10 DEF CommitOrder, AbandonOrder, AbandonSelect, AfterInsert
  <2>2. QED BY <1>3, <2>1
<1>11. CASE LookupId(w)
  <2>1. u.pc \in {"select", "done"}
    BY <1>1, <1>11 DEF LookupId, AfterInsert, Task
  <2>2. QED BY <2>1
<1>12. CASE SelectRows(w) \/ LockRows(w)
  BY <1>1, <1>12 DEF SelectRows, LockRows, Task
<1>13. CASE Match(w) \/ AbandonMatch(w)
  <2>1. PICK o \in task[w].rows : task' = [task EXCEPT ![w] = AfterFill(w, o)]
    BY <1>13 DEF Match, AbandonMatch, Leading, NextRow
  <2>2. AfterFill(w, o).tid = task[w].tid /\ AfterFill(w, o).pc \in {"match", "done"}
    BY <1>1 DEF AfterFill, Task
  <2>3. QED BY <1>1, <1>13, <2>1, <2>2
<1>14. QED BY <1>4, <1>5, <1>6, <1>7, <1>8, <1>9, <1>10, <1>11, <1>12, <1>13 DEF Step, OrderStep

-----------------------------------------------------------------------------
(* POSITION and the logs. *)

AuditInv == Inv /\ OInv /\ AuditInvariant

LEMMA RowsPlacedStep ==
  ASSUME Inv, OInv, RowsPlaced, NEW w \in Workers, Receive(w) \/ Step(w)
  PROVE  RowsPlaced'
<1>1. /\ \A v \in Workers \ {w} : task'[v] = task[v]
      /\ task'[w].rows \subseteq task[w].rows \cup openOrder
  BY StepMoved DEF Moved
<1>2. placed \subseteq placed'
  BY IdsPlacedStep
<1>3. \A o \in openOrder : \E p \in placed : RemainderOf(o, p)
  BY DEF Inv, OrderInvariant, BookInv
<1>4. QED BY <1>1, <1>2, <1>3 DEF RowsPlaced

\* POSITION rows are never deleted.
LEMMA PositionsKept ==
  ASSUME Inv, NEW w \in Workers, Receive(w) \/ Step(w)
  PROVE  DOMAIN position \subseteq DOMAIN position'
<1>1. TablesOK /\ position \in [DOMAIN position -> Int]
  BY DEF Inv, TypeOK, TablesOK
<1>2. \A k, n : DOMAIN position \subseteq DOMAIN Deliver(position, k, n)
  BY DEF Deliver
<1>3. \A k, n : DOMAIN ShiftPositions(position, k, n) = DOMAIN position
  BY DEF ShiftPositions
<1>4. CASE CreateStep(w)
  BY <1>2, <1>4 DEF CreateStep, CreateAccount, CreatePosition, AbandonPosition, tables
<1>5. CASE CommitOrder(w)
  BY <1>3, <1>5 DEF CommitOrder
<1>6. CASE Match(w)
  BY <1>2, <1>6 DEF Match
<1>7. CASE CommitCancel(w)
  BY <1>3, <1>7 DEF CommitCancel, tables
<1>8. CASE UNCHANGED tables
  BY <1>8 DEF tables
<1>9. QED BY <1>4, <1>5, <1>6, <1>7, <1>8, Writers

\* Only CommitOrder stores an order, under the next id.
LEMMA PlacedStep ==
  ASSUME Inv, NEW w \in Workers, Receive(w) \/ Step(w)
  PROVE  \/ placed' = placed
         \/ CommitOrder(w)
<1>1. CASE CreateStep(w)
  BY <1>1 DEF CreateStep, CreateAccount, CreatePosition, AbandonPosition, tables
<1>2. CASE Match(w) \/ CommitCancel(w) \/ UNCHANGED tables
  BY <1>2 DEF Match, CommitCancel, tables
<1>3. QED BY <1>1, <1>2, Writers

LEMMA OwnTask ==
  ASSUME Inv, NEW w \in Workers, Receive(w) \/ Step(w), NEW v \in Workers \ {w}
  PROVE  task'[v] = task[v]
<1>1. task \in [Workers -> Task]
  BY DEF Inv, TypeOK, TasksOK
<1>2. \E t : task' = [task EXCEPT ![w] = t]
  <2>1. CASE Receive(w) \/ CheckAccount(w) \/ CreateStep(w)
    BY <2>1 DEF Receive, CheckAccount, Reject, Reply, Goto, CreateStep, CreateAccount,
       CreatePosition, AbandonPosition
  <2>2. CASE QueryStep(w)
    BY <2>2 DEF QueryStep, Look, CheckTransID, CheckBelong, QueryOrder, Enter, Reject, Reply
  <2>3. CASE CancelStep(w)
    BY <2>3 DEF CancelStep, CheckIfOpen, ReadOrder, CommitCancel, AbandonCancel, ReadExecuted,
       Goto, Reject, Reply
  <2>4. CASE OrderStep(w)
    BY <2>4 DEF OrderStep, CheckFunds, BeginOrder, CommitOrder, AbandonOrder, LookupId,
       SelectRows, LockRows, AbandonSelect, Match, AbandonMatch, ReplyOpened, NextRow, Goto,
       Reject, Reply
  <2>5. QED BY <2>1, <2>2, <2>3, <2>4 DEF Step
<1>3. QED BY <1>1, <1>2

\* A request about to be stored is an order.
LEMMA NextOrderReq ==
  ASSUME Inv, NEW w \in Workers, Receive(w) \/ Step(w), task'[w].pc \in {"begin", "insert"}
  PROVE  task'[w].req \in OrderReq
<1>1. [Next]_vars
  BY DEF Next
<1>2. TypeOK'
  BY <1>1, NextType DEF Inv
<1>3. TaskOK(task[w])'
  BY <1>2 DEF TypeOK, TasksOK
<1>4. task'[w].req \in SubRequest /\ task'[w].req.op = "order"
  BY <1>3 DEF TaskOK, OrderPCs
<1>5. QED BY <1>4, OrderReqType

LEMMA SellersStep ==
  ASSUME Inv, SellersKnown, NEW w \in Workers, Receive(w) \/ Step(w)
  PROVE  SellersKnown'
<1> DEFINE r == task[w].req
           new == [id |-> nextId, acct |-> r.acct, sym |-> r.sym, amount |-> r.amount,
                   price |-> r.limit, time |-> task[w].curr]
<1>1. DOMAIN position \subseteq DOMAIN position'
  BY PositionsKept
<1>2. ASSUME NEW o \in placed', o.amount < 0
      PROVE  <<o.acct, o.sym>> \in DOMAIN position'
  <2>1. CASE o \in placed
    BY <1>1, <1>2, <2>1 DEF SellersKnown
  <2>2. CASE o \notin placed
    <3>1. task[w].pc = "insert" /\ o = new
      BY <2>2, PlacedStep DEF CommitOrder, At
    <3>2. o.amount = r.amount /\ o.acct = r.acct /\ o.sym = r.sym
      BY <3>1
    <3>3. QED BY <1>1, <1>2, <3>1, <3>2 DEF SellersKnown
  <2>3. QED BY <2>1, <2>2
<1>3. ASSUME NEW v \in Workers, task'[v].pc \in {"begin", "insert"}, task'[v].req.amount < 0
      PROVE  <<task'[v].req.acct, task'[v].req.sym>> \in DOMAIN position'
  <2>1. CASE v # w
    BY <1>1, <1>3, <2>1, OwnTask DEF SellersKnown
  <2>2. CASE v = w
    <3>1. /\ task'[w].req = r
          /\ \/ task[w].pc = "begin"
             \/ task[w].pc = "account" /\ r.amount = 0
             \/ task[w].pc = "funds" /\ Affordable(r)
      BY <1>3, <2>2, OrderPlaces DEF Inv
    <3>2. r.amount < 0 /\ r.amount # 0 /\ ~(r.amount > 0)
      <4>1. r \in OrderReq
        BY <1>3, <2>2, <3>1, NextOrderReq
      <4>2. QED BY <1>3, <2>2, <3>1, <4>1 DEF OrderReq
    <3>3. <<r.acct, r.sym>> \in DOMAIN position
      BY <3>1, <3>2 DEF Affordable, SellersKnown
    <3>4. QED BY <1>1, <2>2, <3>1, <3>3
  <2>3. QED BY <2>1, <2>2
<1>4. QED BY <1>2, <1>3 DEF SellersKnown

Audited == \A a \in Accounts, s \in Syms : Held(a, s) = Owed(a, s)

\* Every number that Owed adds up is a whole number.
LEMMA OwedTypes ==
  ASSUME AuditInv, NEW a \in Accounts, NEW s \in Syms
  PROVE  /\ Opened(a, s) \in Int /\ Granted(a, s) \in Int /\ Bought(a, s) \in Int
         /\ Offered(a, s) \in Int /\ Returned(a, s) \in Int /\ Held(a, s) \in Int
<1>1. TablesOK /\ GrantLog /\ IsFiniteSet(placed)
  BY DEF AuditInv, AuditInvariant, Inv, TypeOK, GrantLog
<1>2. Opened(a, s) \in Int
  BY ExchangeAssumption DEF Opened
<1>3. Held(a, s) \in Int
  BY <1>1 DEF Held, TablesOK
<1>4. QED BY <1>1, <1>2, <1>3, LogTypes

LEMMA HeldDelivered ==
  ASSUME TablesOK, NEW key, NEW n \in Int, position' = Deliver(position, key, n),
         NEW a, NEW s
  PROVE  Held(a, s)' = Held(a, s) + IF <<a, s>> = key THEN n ELSE 0
<1>1. position \in [DOMAIN position -> Int]
  BY DEF TablesOK
<1>2. CASE <<a, s>> = key
  BY <1>1, <1>2 DEF Held, Deliver
<1>3. CASE <<a, s>> # key
  BY <1>1, <1>3 DEF Held, Deliver
<1>4. QED BY <1>2, <1>3

\* With one symbol, a movement of all positions of an account is one of that symbol.
LEMMA HeldShifted ==
  ASSUME TablesOK, \E s : Syms = {s}, NEW b, NEW q \in Syms, <<b, q>> \in DOMAIN position,
         NEW n \in Int, position' = ShiftPositions(position, b, n),
         NEW a \in Accounts, NEW s \in Syms
  PROVE  Held(a, s)' = Held(a, s) + IF a = b /\ s = q THEN n ELSE 0
<1>1. position \in [DOMAIN position -> Int] /\ s = q
  BY DEF TablesOK
<1>2. DOMAIN position' = DOMAIN position
  BY DEF ShiftPositions
<1>3. CASE a = b
  BY <1>1, <1>2, <1>3 DEF Held, ShiftPositions
<1>4. CASE a # b
  BY <1>1, <1>2, <1>4 DEF Held, ShiftPositions
<1>5. QED BY <1>3, <1>4

LEMMA HeldSame ==
  ASSUME position' = position, NEW a, NEW s PROVE Held(a, s)' = Held(a, s)
  BY DEF Held

LEMMA OpenedSame == ASSUME NEW a, NEW s PROVE Opened(a, s)' = Opened(a, s)
  BY DEF Opened

\* The part of the invariant that changes with the sums.
Books == IsFiniteSet(placed) /\ GrantLog /\ Audited

LEMMA CreateBooks ==
  ASSUME AuditInv, NEW w \in Workers, CreateStep(w)
  PROVE  Books'
<1> DEFINE r == task[w].req
<1>1. TablesOK /\ GrantLog /\ IsFiniteSet(placed) /\ Audited /\ TaskOK(task[w])
  BY DEF AuditInv, AuditInvariant, Inv, TypeOK, TasksOK, GrantLog, Audited
<1>2. UNCHANGED <<exec, cancel, placed>>
  BY DEF CreateStep, CreateAccount, CreatePosition, AbandonPosition, tables
<1>3. ASSUME GrantLog',
             \A a \in Accounts, s \in Syms : Held(a, s)' - Granted(a, s)' = Held(a, s) - Granted(a, s),
             \A a \in Accounts, s \in Syms : Granted(a, s)' \in Int /\ Held(a, s)' \in Int
      PROVE  Books'
  <2>1. ASSUME NEW a \in Accounts, NEW s \in Syms
        PROVE  Held(a, s)' = Owed(a, s)'
    <3>1. /\ Bought(a, s)' = Bought(a, s) /\ Offered(a, s)' = Offered(a, s)
          /\ Returned(a, s)' = Returned(a, s) /\ Opened(a, s)' = Opened(a, s)
      BY <1>2, LogsSame, OpenedSame
    <3>2. Held(a, s) = Owed(a, s)
      BY <1>1 DEF Audited
    <3>3. QED BY <1>3, <3>1, <3>2, OwedTypes DEF Owed
  <2>2. QED BY <1>1, <1>2, <1>3, <2>1 DEF Books, Audited
<1>4. CASE granted' = granted /\ position' = position
  <2>1. GrantLog'
    BY <1>1, <1>4 DEF GrantLog
  <2>2. \A a, s : Granted(a, s)' = Granted(a, s) /\ Held(a, s)' = Held(a, s)
    BY <1>4, LogsSame, HeldSame
  <2>3. QED BY <1>3, <2>1, <2>2, OwedTypes
<1>5. CASE CreateAccount(w) /\ granted' # granted
  <2>1. r \in CreateAccountReq
    BY <1>1, <1>5, CreateReqType DEF CreateAccount, At, TaskOK
  <2>2. r.op # "symbol" /\ granted' = Append(granted, r) /\ position' = position
    BY <1>5, <2>1 DEF CreateAccount, CreateAccountReq
  <2>3. /\ GrantLog'
        /\ \A a, s : Granted(a, s) \in Int /\
             Granted(a, s)' = Granted(a, s) + IF r.op = "symbol" /\ r.acct = a /\ r.sym = s
                                              THEN r.num ELSE 0
    BY <1>1, <2>1, <2>2, GrantAppend
  <2> HIDE DEF r
  <2>4. \A a, s : Granted(a, s)' = Granted(a, s) /\ Held(a, s)' = Held(a, s)
    BY <2>2, <2>3, HeldSame
  <2>5. QED BY <1>3, <2>3, <2>4, OwedTypes
<1>6. CASE CreatePosition(w)
  <2>1. r \in CreateSymbolReq /\ r.num \in Int /\ r.op = "symbol"
    BY <1>1, <1>6, CreateReqType DEF CreatePosition, At, TaskOK, CreateSymbolReq
  <2>2. granted' = Append(granted, r) /\ position' = Deliver(position, <<r.acct, r.sym>>, r.num)
    BY <1>6 DEF CreatePosition
  <2>3. /\ GrantLog'
        /\ \A a, s : Granted(a, s) \in Int /\
             Granted(a, s)' = Granted(a, s) + IF r.op = "symbol" /\ r.acct = a /\ r.sym = s
                                              THEN r.num ELSE 0
    BY <1>1, <2>1, <2>2, GrantAppend
  <2> HIDE DEF r
  <2>4. ASSUME NEW a \in Accounts, NEW s \in Syms
        PROVE  /\ Held(a, s)' - Granted(a, s)' = Held(a, s) - Granted(a, s)
               /\ Granted(a, s)' \in Int /\ Held(a, s)' \in Int
    <3>1. Held(a, s)' = Held(a, s) + IF <<a, s>> = <<r.acct, r.sym>> THEN r.num ELSE 0
      BY <1>1, <2>1, <2>2, HeldDelivered
    <3>2. Held(a, s) \in Int
      BY OwedTypes
    <3>3. CASE r.acct = a /\ r.sym = s
      BY <2>1, <2>3, <3>1, <3>2, <3>3
    <3>4. CASE ~(r.acct = a /\ r.sym = s)
      BY <2>1, <2>3, <3>1, <3>2, <3>4
    <3>5. QED BY <3>3, <3>4
  <2>5. QED BY <1>3, <2>3, <2>4
<1>7. CreateAccount(w) => position' = position
  BY DEF CreateAccount
<1>8. AbandonPosition(w) => granted' = granted /\ position' = position
  BY DEF AbandonPosition, tables
<1>9. QED BY <1>4, <1>5, <1>6, <1>7, <1>8 DEF CreateStep

\* CheckSellerShare's row is still there when the shares are set aside.
LEMMA CommitOrderBooks ==
  ASSUME AuditInv, \E s : Syms = {s}, NEW w \in Workers, CommitOrder(w)
  PROVE  Books'
<1> DEFINE r == task[w].req
           o == [id |-> nextId, acct |-> r.acct, sym |-> r.sym, amount |-> r.amount,
                 price |-> r.limit, time |-> task[w].curr]
<1>1. /\ TablesOK /\ GrantLog /\ IsFiniteSet(placed) /\ Audited /\ SellersKnown
      /\ UNCHANGED <<exec, cancel, granted>> /\ placed' = placed \cup {o}
      /\ position' = IF r.amount < 0 THEN ShiftPositions(position, r.acct, r.amount) ELSE position
      /\ task[w].pc = "insert"
  BY DEF AuditInv, AuditInvariant, Inv, TypeOK, GrantLog, Audited, CommitOrder, At
<1>2. r \in OrderReq /\ task[w] \in Task
  BY <1>1, OrderTask DEF OrderPCs, AuditInv, Inv
<1>3. r.amount \in Int /\ r.acct \in Accounts /\ r.sym \in Syms /\ r.limit \in Int
  BY <1>2 DEF OrderReq
<1>4. o \in Order
  BY <1>1, <1>2, <1>3 DEF Order, TablesOK, Task
<1>5. o \notin placed
  <2>1. \A p \in placed : p.id < nextId /\ p.id \in Int /\ nextId \in Int
    BY <1>1 DEF AuditInv, Inv, OrderInvariant, PlacedInv, TablesOK, Order
  <2>2. o.id = nextId
    OBVIOUS
  <2>3. QED BY <2>1, <2>2
<1>6. o.acct = r.acct /\ o.sym = r.sym /\ o.amount = r.amount
  OBVIOUS
<1>7. r.amount < 0 => <<r.acct, r.sym>> \in DOMAIN position
  BY <1>1 DEF SellersKnown
<1> HIDE DEF o, r
<1>8. /\ IsFiniteSet(placed)'
      /\ \A a, s : Offered(a, s)' = Offered(a, s) +
           IF o.acct = a /\ o.sym = s /\ o.amount < 0 THEN -o.amount ELSE 0
  BY <1>1, <1>4, <1>5, PlacedOffer
<1>9. ASSUME NEW a \in Accounts, NEW s \in Syms
      PROVE  Held(a, s)' = Owed(a, s)'
  <2>1. Held(a, s)' = Held(a, s) + IF r.amount < 0 /\ a = r.acct /\ s = r.sym THEN r.amount ELSE 0
    <3>1. CASE r.amount < 0
      BY <1>1, <1>3, <1>7, <3>1, HeldShifted
    <3>2. CASE ~(r.amount < 0)
      BY <1>1, <3>2, HeldSame, OwedTypes
    <3>3. QED BY <3>1, <3>2
  <2>2. /\ Bought(a, s)' = Bought(a, s) /\ Granted(a, s)' = Granted(a, s)
        /\ Returned(a, s)' = Returned(a, s) /\ Opened(a, s)' = Opened(a, s)
    BY <1>1, LogsSame, OpenedSame
  <2>3. Held(a, s) = Owed(a, s)
    BY <1>1 DEF Audited
  <2>4. QED BY <1>3, <1>6, <1>8, <2>1, <2>2, <2>3, OwedTypes DEF Owed
<1>10. GrantLog'
  BY <1>1 DEF GrantLog
<1>11. QED BY <1>8, <1>9, <1>10 DEF Books, Audited

LEMMA MatchBooks ==
  ASSUME AuditInv, NEW w \in Workers, Match(w)
  PROVE  Books'
<1>1. /\ TablesOK /\ GrantLog /\ IsFiniteSet(placed) /\ Audited
      /\ UNCHANGED <<cancel, granted, placed>> /\ At(w, "match")
  BY DEF AuditInv, AuditInvariant, Inv, TypeOK, GrantLog, Audited, Match
<1>2. PICK o \in task[w].rows :
        /\ exec' = Append(exec, Trade(w, o))
        /\ position' = Deliver(position, <<Trade(w, o).buyer, Trade(w, o).sym>>, Trade(w, o).amount)
  BY DEF Match, Leading
<1> DEFINE e == Trade(w, o)
<1>3. e \in Exec
  BY <1>1, TradeType DEF AuditInv, Inv
<1>4. e.amount \in Int
  BY <1>3 DEF Exec
<1> HIDE DEF e
<1>5. /\ \A a, s : Bought(a, s)' = Bought(a, s) +
           IF e.buyer = a /\ e.sym = s THEN e.amount ELSE 0
      /\ \A a, s : Held(a, s)' = Held(a, s) +
           IF <<a, s>> = <<e.buyer, e.sym>> THEN e.amount ELSE 0
  <2>1. exec' = Append(exec, e) /\ position' = Deliver(position, <<e.buyer, e.sym>>, e.amount)
    BY <1>2 DEF e
  <2>2. QED BY <1>1, <1>3, <1>4, <2>1, ExecAppend, HeldDelivered
<1>6. ASSUME NEW a \in Accounts, NEW s \in Syms
      PROVE  Held(a, s)' = Owed(a, s)'
  <2>1. /\ Offered(a, s)' = Offered(a, s) /\ Granted(a, s)' = Granted(a, s)
        /\ Returned(a, s)' = Returned(a, s) /\ Opened(a, s)' = Opened(a, s)
    BY <1>1, LogsSame, OpenedSame
  <2>2. Held(a, s) = Owed(a, s)
    BY <1>1 DEF Audited
  <2>3. CASE e.buyer = a /\ e.sym = s
    <3>1. Bought(a, s)' = Bought(a, s) + e.amount /\ Held(a, s)' = Held(a, s) + e.amount
      BY <1>5, <2>3
    <3>2. QED BY <1>4, <2>1, <2>2, <3>1, OwedTypes DEF Owed
  <2>4. CASE ~(e.buyer = a /\ e.sym = s)
    <3>1. Bought(a, s)' = Bought(a, s) /\ Held(a, s)' = Held(a, s)
      BY <1>5, <2>4, OwedTypes
    <3>2. QED BY <2>1, <2>2, <3>1 DEF Owed
  <2>5. QED BY <2>3, <2>4
<1>7. GrantLog' /\ IsFiniteSet(placed)'
  BY <1>1 DEF GrantLog
<1>8. QED BY <1>6, <1>7 DEF Books, Audited

\* A seller whose order is cancelled has a POSITION row to give the shares back to.
LEMMA CommitCancelBooks ==
  ASSUME AuditInv, \E s : Syms = {s}, NEW w \in Workers, CommitCancel(w)
  PROVE  Books'
<1>1. /\ TablesOK /\ GrantLog /\ IsFiniteSet(placed) /\ Audited /\ SellersKnown /\ RowsPlaced
      /\ task[w] \in Task
  BY DEF AuditInv, AuditInvariant, Inv, TypeOK, TasksOK, GrantLog, Audited
<1>2. UNCHANGED <<exec, granted, placed>>
  BY DEF CommitCancel, tables
<1>3. GrantLog' /\ IsFiniteSet(placed)'
  BY <1>1, <1>2 DEF GrantLog
<1>4. CASE UNCHANGED tables
  <2>1. cancel' = cancel /\ position' = position
    BY <1>4 DEF tables
  <2>2. ASSUME NEW a \in Accounts, NEW s \in Syms
        PROVE  Held(a, s)' = Owed(a, s)'
    <3>1. /\ Offered(a, s)' = Offered(a, s) /\ Granted(a, s)' = Granted(a, s)
          /\ Returned(a, s)' = Returned(a, s) /\ Opened(a, s)' = Opened(a, s)
          /\ Bought(a, s)' = Bought(a, s) /\ Held(a, s)' = Held(a, s)
      BY <1>2, <2>1, LogsSame, OpenedSame, HeldSame
    <3>2. QED BY <1>1, <3>1 DEF Audited, Owed
  <2>3. QED BY <1>3, <2>2 DEF Books, Audited
<1>5. ASSUME NEW o \in task[w].rows,
             cancel' = Append(cancel, [acct |-> o.acct, id |-> o.id, sym |-> o.sym,
                                       amount |-> o.amount]),
             position' = IF o.amount < 0 THEN ShiftPositions(position, o.acct, -o.amount)
                                         ELSE position
      PROVE  Books'
  <2> DEFINE c == [acct |-> o.acct, id |-> o.id, sym |-> o.sym, amount |-> o.amount]
  <2>1. o \in Order
    BY <1>1 DEF Task
  <2>2. o.amount \in Int /\ o.acct \in Accounts /\ o.sym \in Syms /\ o.id \in Int /\ -o.amount \in Int
    BY <2>1 DEF Order
  <2>3. o.amount < 0 => <<o.acct, o.sym>> \in DOMAIN position
    <3>1. PICK p \in placed : RemainderOf(o, p)
      BY <1>1 DEF RowsPlaced
    <3>2. QED BY <1>1, <3>1 DEF RemainderOf, SellersKnown
  <2>4. /\ c \in Cancelled /\ c.acct = o.acct /\ c.sym = o.sym /\ c.amount = o.amount
        /\ cancel' = Append(cancel, c)
    BY <1>5, <2>2 DEF Cancelled
  <2> HIDE DEF c
  <2>5. \A a, s : Returned(a, s)' = Returned(a, s) +
          IF c.acct = a /\ c.sym = s /\ c.amount < 0 THEN -c.amount ELSE 0
    BY <1>1, <2>4, CancelAppend
  <2>6. ASSUME NEW a \in Accounts, NEW s \in Syms
        PROVE  Held(a, s)' = Owed(a, s)'
    <3>1. Held(a, s)' = Held(a, s) +
            IF o.amount < 0 /\ a = o.acct /\ s = o.sym THEN -o.amount ELSE 0
      <4>1. CASE o.amount < 0
        <5>1. position' = ShiftPositions(position, o.acct, -o.amount)
          BY <1>5, <4>1
        <5>2. QED BY <1>1, <2>2, <2>3, <4>1, <5>1, HeldShifted
      <4>2. CASE ~(o.amount < 0)
        <5>1. position' = position
          BY <1>5, <4>2
        <5>2. QED BY <4>2, <5>1, HeldSame, OwedTypes
      <4>3. QED BY <4>1, <4>2
    <3>2. /\ Bought(a, s)' = Bought(a, s) /\ Granted(a, s)' = Granted(a, s)
          /\ Offered(a, s)' = Offered(a, s) /\ Opened(a, s)' = Opened(a, s)
      BY <1>2, LogsSame, OpenedSame
    <3>3. Held(a, s) = Owed(a, s)
      BY <1>1 DEF Audited
    <3> DEFINE n == IF o.amount < 0 /\ a = o.acct /\ s = o.sym THEN -o.amount ELSE 0
    <3>4. n \in Int /\ Held(a, s)' = Held(a, s) + n /\ Returned(a, s)' = Returned(a, s) + n
      BY <2>2, <2>4, <2>5, <3>1
    <3> HIDE DEF n
    <3>5. QED BY <3>2, <3>3, <3>4, OwedTypes DEF Owed
  <2>7. QED BY <1>3, <2>6 DEF Books, Audited
<1>6. QED BY <1>4, <1>5 DEF CommitCancel

LEMMA BooksSame ==
  ASSUME AuditInv, UNCHANGED tables
  PROVE  Books'
<1>1. /\ UNCHANGED <<exec, cancel, granted, placed, position>>
      /\ GrantLog /\ IsFiniteSet(placed) /\ Audited
  BY DEF tables, AuditInv, AuditInvariant, GrantLog, Audited
<1>2. ASSUME NEW a \in Accounts, NEW s \in Syms
      PROVE  Held(a, s)' = Owed(a, s)'
  <2>1. /\ Offered(a, s)' = Offered(a, s) /\ Granted(a, s)' = Granted(a, s)
        /\ Returned(a, s)' = Returned(a, s) /\ Opened(a, s)' = Opened(a, s)
        /\ Bought(a, s)' = Bought(a, s) /\ Held(a, s)' = Held(a, s)
    BY <1>1, LogsSame, OpenedSame, HeldSame
  <2>2. QED BY <1>1, <2>1 DEF Audited, Owed
<1>3. QED BY <1>1, <1>2 DEF Books, GrantLog, Audited

LEMMA InitAudit == Init => AuditInvariant
<1> SUFFICES ASSUME Init PROVE AuditInvariant
  OBVIOUS
<1>1. /\ placed = {} /\ granted = << >> /\ exec = << >> /\ cancel = << >>
      /\ position = OpeningPosition /\ \A w \in Workers : task[w].pc = "idle" /\ task[w].rows = {}
  BY DEF Init, Idle
<1>2. IsFiniteSet(placed)
  BY <1>1, FS_EmptySet
<1>3. SellersKnown /\ RowsPlaced
  BY <1>1 DEF SellersKnown, RowsPlaced
<1>4. ASSUME NEW a \in Accounts, NEW s \in Syms
      PROVE  Held(a, s) = Owed(a, s)
  <2>1. /\ PurchasesOf(a, s) = {} /\ ReturnsTo(a, s) = {} /\ GrantsTo(a, s) = {}
        /\ SellOrdersOf(a, s) = {}
    BY <1>1 DEF PurchasesOf, ReturnsTo, GrantsTo, SellOrdersOf
  <2>2. Bought(a, s) = 0 /\ Returned(a, s) = 0 /\ Granted(a, s) = 0 /\ Offered(a, s) = 0
    BY <2>1, SumEmpty DEF Bought, Returned, Granted, Offered
  <2>3. Held(a, s) = Opened(a, s) /\ Opened(a, s) \in Int
    BY <1>1, ExchangeAssumption DEF Held, Opened
  <2>4. QED BY <2>2, <2>3 DEF Owed
<1>5. granted \in Seq(CreateAccountReq \cup CreateSymbolReq)
  BY <1>1
<1>6. QED BY <1>2, <1>3, <1>4, <1>5 DEF AuditInvariant

LEMMA NextAudit ==
  ASSUME SameSecond = FALSE, \E s : Syms = {s}
  PROVE  AuditInv /\ [Next]_vars => AuditInvariant'
<1> SUFFICES ASSUME AuditInv, [Next]_vars PROVE AuditInvariant'
  OBVIOUS
<1>1. CASE UNCHANGED vars
  <2>1. UNCHANGED tables /\ UNCHANGED task /\ UNCHANGED placed /\ UNCHANGED position
    BY <1>1 DEF vars, tables
  <2>2. Books'
    BY <2>1, BooksSame
  <2>3. SellersKnown' /\ RowsPlaced'
    BY <2>1 DEF AuditInv, AuditInvariant, SellersKnown, RowsPlaced
  <2>4. QED BY <2>2, <2>3 DEF Books, AuditInvariant, GrantLog, Audited
<1>2. ASSUME NEW w \in Workers, Receive(w) \/ Step(w)
      PROVE  AuditInvariant'
  <2>1. Books'
    BY <1>2, Writers, CreateBooks, CommitOrderBooks, MatchBooks, CommitCancelBooks, BooksSame
  <2>2. SellersKnown'
    BY <1>2, SellersStep DEF AuditInv, AuditInvariant
  <2>3. RowsPlaced'
    BY <1>2, RowsPlacedStep DEF AuditInv, AuditInvariant
  <2>4. QED BY <2>1, <2>2, <2>3 DEF Books, AuditInvariant, GrantLog, Audited
<1>3. QED BY <1>1, <1>2 DEF Next

\* Both invariants the sums rest on: how rows and ids relate to the orders placed,
\* and that no id is used twice.
LEMMA Basis ==
  ASSUME SameSecond = FALSE
  PROVE  Spec => [](Inv /\ OInv)
<1>1. AInv => OInv
  BY DEF AInv
<1>2. Spec => []AInv
  BY InitOwner, NextOwner, PTL DEF Spec
<1>3. Spec => []Inv
  BY InvHolds
<1>4. QED BY <1>1, <1>2, <1>3, PTL

\* POSITION's rows agree with the logs in every state, for any number of workers,
\* accounts and orders, whatever transactions are aborted, as long as clients use
\* one symbol (a sell order moves every position of its account) and no two orders
\* bear one second.
THEOREM PositionsAgree ==
  ASSUME SameSecond = FALSE, \E s : Syms = {s}
  PROVE  Spec => []PositionsAudited
<1>1. Inv /\ OInv /\ AuditInvariant /\ [Next]_vars => AuditInvariant'
  BY NextAudit DEF AuditInv
<1>2. Spec => []AuditInvariant
  BY <1>1, Basis, InitAudit, PTL DEF Spec
<1>3. Inv /\ AuditInvariant => PositionsAudited
  <2> SUFFICES ASSUME Inv, AuditInvariant, NEW k \in DOMAIN position
               PROVE  position[k] = Owed(k[1], k[2])
    BY DEF PositionsAudited
  <2>1. k \in Accounts \X Syms /\ k = <<k[1], k[2]>>
    BY DEF Inv, TypeOK, TablesOK
  <2>2. Held(k[1], k[2]) = position[k]
    BY <2>1 DEF Held
  <2>3. QED BY <2>1, <2>2 DEF AuditInvariant
<1>4. QED BY <1>2, <1>3, Basis, PTL

-----------------------------------------------------------------------------
(* No share is lost. *)

SharesInv == Inv /\ OInv /\ SharesInvariant

LEMMA AbsFacts ==
  ASSUME NEW n \in Int
  PROVE  Abs(n) \in Int /\ Abs(n) >= 0 /\ (n < 0 => Abs(n) = -n) /\ (n >= 0 => Abs(n) = n)
  BY DEF Abs

\* The recorded shares are whole numbers and not negative.
LEMMA ShareTypes ==
  ASSUME TablesOK, FillsPositive, NEW id
  PROVE  /\ ExecShares(id) \in Int /\ ExecShares(id) >= 0
         /\ CancelShares(id) \in Int /\ CancelShares(id) >= 0
<1>1. \A i \in DOMAIN exec : exec[i] \in Exec
  BY DEF TablesOK
<1>2. \A i \in DOMAIN cancel : cancel[i] \in Cancelled
  BY DEF TablesOK
<1>3. ExecRows(id) \subseteq DOMAIN exec /\ CancelRows(id) \subseteq DOMAIN cancel
  BY DEF ExecRows, CancelRows
<1>4. IsFiniteSet(ExecRows(id)) /\ IsFiniteSet(CancelRows(id))
  BY <1>3, LogIndices DEF TablesOK
<1>5. ExecShares(id) \in Int /\ ExecShares(id) >= 0
  <2> DEFINE f == [i \in ExecRows(id) |-> exec[i].amount]
  <2>1. Summable(f) /\ \A i \in DOMAIN f : f[i] >= 0
    BY <1>1, <1>3, <1>4 DEF Summable, Exec, FillsPositive
  <2> HIDE DEF f
  <2>2. SumFunction(f) \in Int /\ SumFunction(f) >= 0
    BY <2>1, SumType, SumNat
  <2>3. QED BY <2>2 DEF ExecShares, f
<1>6. CancelShares(id) \in Int /\ CancelShares(id) >= 0
  <2> DEFINE f == [i \in CancelRows(id) |-> Abs(cancel[i].amount)]
  <2>0. \A i \in DOMAIN cancel : cancel[i].amount \in Int
    BY <1>2 DEF Cancelled
  <2>1. Summable(f) /\ \A i \in DOMAIN f : f[i] >= 0
    BY <1>3, <1>4, <2>0, AbsFacts DEF Summable
  <2> HIDE DEF f
  <2>2. SumFunction(f) \in Int /\ SumFunction(f) >= 0
    BY <2>1, SumType, SumNat
  <2>3. QED BY <2>2 DEF CancelShares, f
<1>7. QED BY <1>5, <1>6

\* The shares of a fill are a part of both orders, or all of it.
LEMMA FillNumbers ==
  ASSUME NEW s \in Int, NEW b \in Int, s < 0, b > 0,
         NEW n, n = FillAmount(s, b) \/ n = FillAmount(b, s)
  PROVE  /\ n \in Int /\ n > 0
         /\ s + b < 0 => Abs(b) = n /\ Abs(s) = Abs(s + b) + n
         /\ s + b > 0 => Abs(s) = n /\ Abs(b) = Abs(s + b) + n
         /\ s + b = 0 => Abs(s) = n /\ Abs(b) = n
  BY DEF FillAmount, Abs

\* The execution that a match records, its two orders and what was left of each.
LEMMA TradeSides ==
  ASSUME Inv, NEW w \in Workers, At(w, "match"), NEW o \in task[w].rows
  PROVE  /\ Trade(w, o) \in Exec
         /\ \E s, b \in Int :
              /\ s < 0 /\ b > 0 /\ task[w].left + o.amount = s + b
              /\ Trade(w, o).amount \in {FillAmount(s, b), FillAmount(b, s)}
              /\ \/ /\ task[w].req.amount < 0 /\ s = task[w].left /\ b = o.amount
                    /\ Trade(w, o).sell = task[w].tid /\ Trade(w, o).buy = o.id
                 \/ /\ task[w].req.amount > 0 /\ b = task[w].left /\ s = o.amount
                    /\ Trade(w, o).buy = task[w].tid /\ Trade(w, o).sell = o.id
<1> DEFINE t == task[w]
           r == t.req
<1>1. /\ t \in Task /\ r \in OrderReq /\ o \in Order /\ Eligible(o, r)
      /\ \/ r.amount < 0 /\ t.left < 0
         \/ r.amount > 0 /\ t.left > 0
  BY MatchFacts
<1>2. t.left \in Int /\ o.amount \in Int /\ r.amount \in Int
  BY <1>1 DEF Task, Order, OrderReq
<1>3. Trade(w, o) \in Exec
  BY TradeType DEF Inv
<1>4. CASE r.amount < 0
  <2>1. t.left < 0 /\ o.amount > 0
    BY <1>1, <1>2, <1>4 DEF Eligible
  <2>2. /\ Trade(w, o).amount = FillAmount(t.left, o.amount)
        /\ Trade(w, o).sell = t.tid /\ Trade(w, o).buy = o.id
    BY <1>4 DEF Trade
  <2>3. QED BY <1>2, <1>3, <1>4, <2>1, <2>2
<1>5. CASE r.amount > 0
  <2>1. t.left > 0 /\ o.amount < 0 /\ ~(r.amount < 0)
    BY <1>1, <1>2, <1>5 DEF Eligible
  <2>2. /\ Trade(w, o).amount = FillAmount(t.left, o.amount)
        /\ Trade(w, o).buy = t.tid /\ Trade(w, o).sell = o.id
    BY <2>1 DEF Trade
  <2>3. t.left + o.amount = o.amount + t.left
    BY <1>2
  <2>4. QED BY <1>2, <1>3, <1>5, <2>1, <2>2, <2>3
<1>6. QED BY <1>1, <1>4, <1>5

\* A log row is never removed, and a new one adds a number that is not negative.
LEMMA SharesGrow ==
  ASSUME SharesInv, NEW w \in Workers, Receive(w) \/ Step(w)
  PROVE  /\ FillsPositive'
         /\ \A id : /\ ExecShares(id) \in Int /\ ExecShares(id)' \in Int
                    /\ ExecShares(id) >= 0 /\ ExecShares(id)' >= ExecShares(id)
                    /\ CancelShares(id) \in Int /\ CancelShares(id)' \in Int
                    /\ CancelShares(id) >= 0 /\ CancelShares(id)' >= CancelShares(id)
<1>1. TablesOK /\ FillsPositive /\ TablesOK'
  <2>1. TypeOK'
    BY NextType DEF SharesInv, Inv, Next
  <2>2. QED BY <2>1 DEF SharesInv, SharesInvariant, Inv, TypeOK
<1>2. \A id : /\ ExecShares(id) \in Int /\ ExecShares(id) >= 0
             /\ CancelShares(id) \in Int /\ CancelShares(id) >= 0
  BY <1>1, ShareTypes
<1>3. ASSUME exec' = exec, cancel' = cancel
      PROVE  /\ FillsPositive'
             /\ \A id : ExecShares(id)' = ExecShares(id) /\ CancelShares(id)' = CancelShares(id)
  BY <1>1, <1>3, LogsSame DEF FillsPositive
<1>4. CASE CreateStep(w) \/ CommitOrder(w) \/ UNCHANGED tables
  <2>1. exec' = exec /\ cancel' = cancel
    BY <1>4 DEF CreateStep, CreateAccount, CreatePosition, AbandonPosition, CommitOrder, tables
  <2>2. QED BY <1>2, <1>3, <2>1
<1>5. CASE Match(w)
  <2>1. /\ At(w, "match") /\ cancel' = cancel
        /\ \E o \in task[w].rows : exec' = Append(exec, Trade(w, o))
    BY <1>5 DEF Match, Leading
  <2>2. PICK o \in task[w].rows : exec' = Append(exec, Trade(w, o))
    BY <2>1
  <2> DEFINE e == Trade(w, o)
  <2>3. e \in Exec /\ e.amount \in Int /\ e.amount > 0
    <3>1. /\ Inv /\ At(w, "match") /\ e \in Exec
      BY <2>1, TradeSides DEF SharesInv
    <3>2. PICK s \in Int, b \in Int : /\ s < 0 /\ b > 0
                                     /\ e.amount \in {FillAmount(s, b), FillAmount(b, s)}
      BY <3>1, TradeSides
    <3> HIDE DEF e
    <3>3. QED BY <3>1, <3>2, FillNumbers
  <2>4. exec' = Append(exec, e)
    BY <2>2
  <2> HIDE DEF e
  <2>5. \A id : /\ ExecShares(id) \in Int
               /\ ExecShares(id)' = ExecShares(id) +
                    IF id \in {e.buy, e.sell} THEN e.amount ELSE 0
    BY <1>1, <2>3, <2>4, ExecAppend
  <2>6. FillsPositive'
    <3>1. exec \in Seq(Exec)
      BY <1>1 DEF TablesOK
    <3>2. /\ DOMAIN exec' = DOMAIN exec \cup {Len(exec) + 1}
          /\ \A i \in DOMAIN exec : exec'[i] = exec[i]
          /\ exec'[Len(exec) + 1] = e
      BY <2>3, <2>4, <3>1, Appended
    <3>3. e.amount >= 0
      BY <2>3
    <3>4. QED BY <1>1, <3>2, <3>3 DEF FillsPositive
  <2>7. \A id : ExecShares(id)' \in Int /\ ExecShares(id)' >= ExecShares(id)
    BY <2>3, <2>5
  <2>8. \A id : CancelShares(id)' = CancelShares(id)
    BY <2>1, LogsSame
  <2>9. QED BY <1>2, <2>6, <2>7, <2>8
<1>6. CASE CommitCancel(w)
  <2>1. exec' = exec
    BY <1>6 DEF CommitCancel, tables
  <2>2. FillsPositive' /\ \A id : ExecShares(id)' = ExecShares(id)
    BY <1>1, <2>1, LogsSame DEF FillsPositive
  <2>3. ASSUME UNCHANGED tables
        PROVE  \A id : CancelShares(id)' = CancelShares(id)
    <3>1. cancel' = cancel
      BY <2>3 DEF tables
    <3>2. QED BY <3>1, LogsSame
  <2>4. ASSUME NEW o \in task[w].rows,
               cancel' = Append(cancel, [acct |-> o.acct, id |-> o.id, sym |-> o.sym,
                                         amount |-> o.amount])
        PROVE  \A id : CancelShares(id)' \in Int /\ CancelShares(id)' >= CancelShares(id)
    <3> DEFINE c == [acct |-> o.acct, id |-> o.id, sym |-> o.sym, amount |-> o.amount]
    <3>1. o \in Order
      BY DEF SharesInv, Inv, TypeOK, TasksOK, Task
    <3>2. c \in Cancelled /\ cancel' = Append(cancel, c) /\ c.amount = o.amount /\ o.amount \in Int
      BY <2>4, <3>1 DEF Cancelled, Order
    <3> HIDE DEF c
    <3>3. \A id : CancelShares(id)' = CancelShares(id) + IF c.id = id THEN Abs(c.amount) ELSE 0
      BY <1>1, <3>2, CancelAppend
    <3>4. Abs(c.amount) \in Int /\ Abs(c.amount) >= 0
      BY <3>2, AbsFacts
    <3>5. QED BY <1>2, <3>3, <3>4
  <2>5. \A id : CancelShares(id)' \in Int /\ CancelShares(id)' >= CancelShares(id)
    <3>1. CASE UNCHANGED tables
      BY <1>2, <2>3, <3>1
    <3>2. QED BY <1>6, <2>4, <3>1 DEF CommitCancel
  <2>6. QED BY <1>2, <2>2, <2>5
<1>7. QED BY <1>4, <1>5, <1>6, Writers

\* What is left of an order changes by what a step records of it.
LEMMA AccountedStep ==
  ASSUME SharesInv, NEW w \in Workers, Receive(w) \/ Step(w), NEW id, NEW n \in Int, NEW m \in Int,
         Accounted(id, n), \A p \in placed' : p \in placed \/ p.id # id,
         Abs(n) + ExecShares(id) + CancelShares(id) <=
           Abs(m) + ExecShares(id)' + CancelShares(id)'
  PROVE  Accounted(id, m)'
<1>1. \A p \in placed : p.amount \in Int
  BY DEF SharesInv, Inv, TypeOK, TablesOK, Order
<1>2. \A p \in placed : Abs(p.amount) \in Int
  BY <1>1, AbsFacts
<1>3. Abs(n) \in Int /\ Abs(m) \in Int
  BY AbsFacts
<1>4. /\ ExecShares(id) \in Int /\ ExecShares(id)' \in Int
      /\ CancelShares(id) \in Int /\ CancelShares(id)' \in Int
  BY SharesGrow
<1>5. ASSUME NEW p \in placed', p.id = id
      PROVE  Abs(p.amount) <= Abs(m) + ExecShares(id)' + CancelShares(id)'
  <2>1. p \in placed /\ Abs(p.amount) <= Abs(n) + ExecShares(id) + CancelShares(id)
    BY <1>5 DEF Accounted
  <2>2. QED BY <1>2, <1>3, <1>4, <2>1
<1>6. QED BY <1>5 DEF Accounted

LEMMA AccountedKept ==
  ASSUME SharesInv, NEW w \in Workers, Receive(w) \/ Step(w), NEW id, NEW n \in Int,
         Accounted(id, n), \A p \in placed' : p \in placed \/ p.id # id
  PROVE  Accounted(id, n)'
<1>1. Abs(n) \in Int
  BY AbsFacts
<1>2. Abs(n) + ExecShares(id) + CancelShares(id) <=
        Abs(n) + ExecShares(id)' + CancelShares(id)'
  BY <1>1, SharesGrow
<1>3. QED BY <1>2, AccountedStep

\* Only the id that is next is not yet taken.
LEMMA NewIds ==
  ASSUME SharesInv, NEW w \in Workers, Receive(w) \/ Step(w)
  PROVE  /\ \A p \in placed' : p \in placed \/ p.id = nextId
         /\ nextId \in Int
         /\ \A p \in placed \cup openOrder : p.id \in Int /\ p.id < nextId
         /\ \A v \in Workers : \A o \in task[v].rows : o.id \in Int /\ o.id < nextId
         /\ \A v \in Workers : task[v].tid < nextId
<1>1. \A p \in placed' : p \in placed \/ p.id = nextId
  BY PlacedStep DEF SharesInv, CommitOrder
<1>2. TablesOK /\ TasksOK /\ IdsPlaced
  BY DEF SharesInv, Inv, TypeOK, OInv, OwnerInvariant
<1>3. nextId \in Int /\ \A p \in placed \cup openOrder : p.id \in Int
  BY <1>2 DEF TablesOK, Order
<1>4. \A v \in Workers : \A o \in task[v].rows : o.id \in Int
  BY <1>2 DEF TasksOK, Task, Order
<1>5. \A p \in openOrder : p.id < nextId
  BY <1>2 DEF IdsPlaced
<1>6. QED BY <1>1, <1>2, <1>3, <1>4, <1>5 DEF IdsPlaced

\* Which rows a fill leaves, and what amounts it writes.
LEMMA SettleById ==
  ASSUME NEW orders \in SUBSET Order, NEW s, NEW b, NEW final \in Int
  PROVE  /\ \A q \in Settle(orders, s, b, final) :
              \/ q \in orders /\ q.id \notin {s, b}
              \/ q.id = s /\ q.amount = final /\ final < 0
              \/ q.id = b /\ q.amount = final /\ final > 0
         /\ \A o \in orders : o.id \notin {s, b} => o \in Settle(orders, s, b, final)
         /\ s # b => \A o \in orders :
              (o.id = s /\ final < 0) \/ (o.id = b /\ final > 0) =>
                \E q \in Settle(orders, s, b, final) : q.id = o.id
         /\ (\A o, p \in orders : o.id = p.id => o = p) =>
              \A o, p \in Settle(orders, s, b, final) : o.id = p.id => o = p
<1> DEFINE R == Settle(orders, s, b, final)
           new(o) == [o EXCEPT !.amount = final]
<1>1. \A o \in orders : new(o).id = o.id /\ new(o).amount = final
  BY DEF Order
<1> HIDE DEF new
<1>2. CASE final < 0
  <2>1. R = {o \in {IF o.id = s THEN new(o) ELSE o : o \in orders} : o.id # b}
    BY <1>2 DEF Settle, SetAmount, Without, new
  <2> HIDE DEF R
  <2>2. \A q \in R : \/ q \in orders /\ q.id \notin {s, b}
                     \/ q.id = s /\ q.amount = final
    BY <1>1, <2>1
  <2>3. \A o \in orders : o.id \notin {s, b} => o \in R
    BY <2>1
  <2>4. ASSUME s # b, NEW o \in orders, o.id = s
        PROVE  new(o) \in R /\ new(o).id = o.id
    BY <1>1, <2>1, <2>4
  <2>5. ASSUME \A o, p \in orders : o.id = p.id => o = p, NEW q \in R, NEW x \in R, q.id = x.id
        PROVE  q = x
    BY <1>1, <2>1, <2>5
  <2>6. QED BY <1>2, <2>2, <2>3, <2>4, <2>5 DEF R
<1>3. CASE final > 0
  <2>1. R = {IF o.id = b THEN new(o) ELSE o : o \in {o \in orders : o.id # s}}
    BY <1>3 DEF Settle, SetAmount, Without, new
  <2> HIDE DEF R
  <2>2. \A q \in R : \/ q \in orders /\ q.id \notin {s, b}
                     \/ q.id = b /\ q.amount = final
    BY <1>1, <2>1
  <2>3. \A o \in orders : o.id \notin {s, b} => o \in R
    BY <2>1
  <2>4. ASSUME s # b, NEW o \in orders, o.id = b
        PROVE  new(o) \in R /\ new(o).id = o.id
    BY <1>1, <2>1, <2>4
  <2>5. ASSUME \A o, p \in orders : o.id = p.id => o = p, NEW q \in R, NEW x \in R, q.id = x.id
        PROVE  q = x
    BY <1>1, <2>1, <2>5
  <2>6. QED BY <1>3, <2>2, <2>3, <2>4, <2>5 DEF R
<1>4. CASE final = 0
  <2>1. R = {o \in orders : o.id \notin {s, b}}
    BY <1>4 DEF Settle, Without
  <2>2. QED BY <1>4, <2>1
<1>5. QED BY <1>2, <1>3, <1>4

\* The part of the invariant that speaks of OPEN_ORDER.
BookOK == OneRow /\ BookAccounted

LEMMA BookKept ==
  ASSUME SharesInv, NEW w \in Workers, Receive(w) \/ Step(w),
         UNCHANGED <<openOrder, placed>>
  PROVE  BookOK'
<1>1. OneRow /\ BookAccounted
  BY DEF SharesInv, SharesInvariant
<1>2. \A o \in openOrder : o.amount \in Int
  BY DEF SharesInv, Inv, TypeOK, TablesOK, Order
<1>3. ASSUME NEW o \in openOrder
      PROVE  Accounted(o.id, o.amount)'
  BY <1>1, <1>2, AccountedKept DEF BookAccounted
<1>4. ASSUME NEW p \in placed, \A o \in openOrder : o.id # p.id
      PROVE  Accounted(p.id, 0)'
  BY <1>1, <1>4, AccountedKept DEF BookAccounted
<1>5. QED BY <1>1, <1>3, <1>4 DEF BookOK, OneRow, BookAccounted

LEMMA CommitOrderBook ==
  ASSUME SharesInv, NEW w \in Workers, CommitOrder(w)
  PROVE  BookOK'
<1> DEFINE new == [id |-> nextId, acct |-> task[w].req.acct, sym |-> task[w].req.sym,
                   amount |-> task[w].req.amount, price |-> task[w].req.limit,
                   time |-> task[w].curr]
<1>0. Receive(w) \/ Step(w)
  BY DEF Step, OrderStep
<1>1. /\ openOrder' = openOrder \cup {new} /\ placed' = placed \cup {new} /\ new.id = nextId
      /\ new.amount = task[w].req.amount
  BY DEF CommitOrder
<1>2. OneRow /\ BookAccounted
  BY DEF SharesInv, SharesInvariant
<1>3. /\ \A p \in placed \cup openOrder : p.id # nextId
      /\ \A o \in openOrder : o.amount \in Int
  <2>1. TypeOK
    BY DEF SharesInv, Inv
  <2>2. \A p \in placed \cup openOrder : p.id \in Int /\ p.id < nextId
    BY <1>0, NewIds
  <2>3. nextId \in Int /\ openOrder \subseteq Order
    BY <2>1 DEF TypeOK, TablesOK
  <2>4. \A o \in openOrder : o.amount \in Int
    BY <2>3 DEF Order
  <2>5. QED BY <2>2, <2>3, <2>4
<1>4. task[w].req.amount \in Int
  BY OrderTask DEF SharesInv, Inv, CommitOrder, At, OrderPCs, OrderReq
<1> HIDE DEF new
<1>5. OneRow'
  BY <1>1, <1>2, <1>3 DEF OneRow
<1>6. ASSUME NEW o \in openOrder
      PROVE  Accounted(o.id, o.amount)'
  BY <1>0, <1>1, <1>2, <1>3, AccountedKept DEF BookAccounted
<1>7. ASSUME NEW o \in openOrder', o = new
      PROVE  Accounted(o.id, o.amount)'
  <2>1. \A p \in placed' : p.id = nextId => p = o
    BY <1>1, <1>3, <1>7
  <2>2. o.id = nextId /\ o.amount \in Int /\ Abs(o.amount) \in Int
    BY <1>1, <1>4, <1>7, AbsFacts
  <2>3. /\ ExecShares(o.id) \in Int /\ ExecShares(o.id)' \in Int
        /\ ExecShares(o.id) >= 0 /\ ExecShares(o.id)' >= ExecShares(o.id)
        /\ CancelShares(o.id) \in Int /\ CancelShares(o.id)' \in Int
        /\ CancelShares(o.id) >= 0 /\ CancelShares(o.id)' >= CancelShares(o.id)
    BY <1>0, SharesGrow
  <2>4. Abs(o.amount) <= Abs(o.amount) + ExecShares(o.id)' + CancelShares(o.id)'
    BY <2>2, <2>3
  <2>5. QED BY <2>1, <2>2, <2>4 DEF Accounted
<1>8. ASSUME NEW p \in placed', \A o \in openOrder' : o.id # p.id
      PROVE  Accounted(p.id, 0)'
  <2>1. p \in placed /\ \A o \in openOrder : o.id # p.id
    BY <1>1, <1>8
  <2>2. QED BY <1>0, <1>1, <1>2, <1>3, <2>1, AccountedKept DEF BookAccounted
<1>9. ASSUME NEW o \in openOrder'
      PROVE  Accounted(o.id, o.amount)'
  <2>1. CASE o \in openOrder
    BY <1>6, <2>1
  <2>2. CASE o = new
    BY <1>7, <2>2
  <2>3. QED BY <1>1, <2>1, <2>2
<1>10. QED BY <1>5, <1>8, <1>9 DEF BookOK, BookAccounted

\* The numbers of a fill: what each order had open is still there, or recorded.
LEMMA MatchShares ==
  ASSUME SharesInv, NEW w \in Workers, NEW o \in task[w].rows, Match(w),
         NEW e, e = Trade(w, o), exec' = Append(exec, e), NEW f, f = task[w].left + o.amount
  PROVE  /\ f \in Int /\ e.amount \in Int /\ e.amount > 0
         /\ \A p \in placed : (p.id = e.buy => p.amount > 0) /\ (p.id = e.sell => p.amount < 0)
         /\ f < 0 => Accounted(e.sell, f)' /\ Accounted(e.buy, 0)'
         /\ f > 0 => Accounted(e.buy, f)' /\ Accounted(e.sell, 0)'
         /\ f = 0 => Accounted(e.sell, 0)' /\ Accounted(e.buy, 0)'
         /\ \/ task[w].req.amount < 0 /\ e.sell = task[w].tid
            \/ task[w].req.amount > 0 /\ e.buy = task[w].tid
<1>0. /\ Receive(w) \/ Step(w)
      /\ TablesOK /\ cancel' = cancel /\ placed' = placed /\ At(w, "match")
  BY DEF Step, OrderStep, Match, SharesInv, Inv, TypeOK
<1>2. e \in Exec
  BY <1>0, TradeSides DEF SharesInv
<1>3. PICK s \in Int, b \in Int :
        /\ s < 0 /\ b > 0 /\ f = s + b
        /\ e.amount \in {FillAmount(s, b), FillAmount(b, s)}
        /\ \/ /\ task[w].req.amount < 0 /\ s = task[w].left /\ b = o.amount
              /\ e.sell = task[w].tid /\ e.buy = o.id
           \/ /\ task[w].req.amount > 0 /\ b = task[w].left /\ s = o.amount
              /\ e.buy = task[w].tid /\ e.sell = o.id
  BY <1>0, TradeSides DEF SharesInv
<1>4. \A p \in placed : (p.id = e.buy => p.amount > 0) /\ (p.id = e.sell => p.amount < 0)
  BY <1>0, TradeInv DEF SharesInv
<1>5. Accounted(e.sell, s) /\ Accounted(e.buy, b)
  <2>1. Accounted(o.id, o.amount) /\ Accounted(task[w].tid, task[w].left)
    BY <1>0 DEF SharesInv, SharesInvariant, HeldAccounted, At
  <2>2. QED BY <1>3, <2>1
<1>6. PICK n : n = e.amount
  OBVIOUS
<1>7. /\ n \in Int /\ n > 0
      /\ s + b < 0 => Abs(b) = n /\ Abs(s) = Abs(s + b) + n
      /\ s + b > 0 => Abs(s) = n /\ Abs(b) = Abs(s + b) + n
      /\ s + b = 0 => Abs(s) = n /\ Abs(b) = n
  <2>1. n = FillAmount(s, b) \/ n = FillAmount(b, s)
    BY <1>3, <1>6
  <2>2. s \in Int /\ b \in Int /\ s < 0 /\ b > 0
    BY <1>3
  <2>3. QED BY <2>1, <2>2 DEF FillAmount, Abs
<1>8. ASSUME NEW id \in {e.sell, e.buy}, NEW k \in Int, NEW m \in Int, Accounted(id, k),
             Abs(k) = Abs(m) + n
      PROVE  Accounted(id, m)'
  <2>1. /\ ExecShares(id) \in Int /\ CancelShares(id) \in Int
        /\ ExecShares(id)' = ExecShares(id) + n
        /\ CancelShares(id)' = CancelShares(id)
    <3>1. /\ ExecShares(id) \in Int
          /\ ExecShares(id)' = ExecShares(id) + IF id \in {e.buy, e.sell} THEN e.amount ELSE 0
      BY <1>0, <1>2, ExecAppend
    <3>2. CancelShares(id)' = CancelShares(id)
      BY <1>0, LogsSame
    <3>3. CancelShares(id) \in Int
      BY <1>0, SharesGrow
    <3>4. id \in {e.buy, e.sell}
      BY <1>8
    <3>5. QED BY <1>6, <3>1, <3>2, <3>3, <3>4
  <2>2. Abs(k) \in Int /\ Abs(m) \in Int
    BY AbsFacts
  <2>3. Abs(k) + ExecShares(id) + CancelShares(id) <=
          Abs(m) + ExecShares(id)' + CancelShares(id)'
    BY <1>7, <1>8, <2>1, <2>2
  <2>4. QED BY <1>0, <1>8, <2>3, AccountedStep
<1>9. f \in Int /\ 0 \in Int /\ Abs(0) = 0
  BY <1>3 DEF Abs
<1>10. CASE f < 0
  <2>1. Abs(b) = Abs(0) + n /\ Abs(s) = Abs(f) + n
    BY <1>3, <1>7, <1>9, <1>10
  <2>2. Accounted(e.sell, f)' /\ Accounted(e.buy, 0)'
    BY <1>3, <1>5, <1>8, <1>9, <2>1
  <2>3. QED BY <1>3, <1>4, <1>6, <1>7, <1>9, <1>10, <2>2
<1>11. CASE f > 0
  <2>1. Abs(s) = Abs(0) + n /\ Abs(b) = Abs(f) + n
    BY <1>3, <1>7, <1>9, <1>11
  <2>2. Accounted(e.buy, f)' /\ Accounted(e.sell, 0)'
    BY <1>3, <1>5, <1>8, <1>9, <2>1
  <2>3. QED BY <1>3, <1>4, <1>6, <1>7, <1>9, <1>11, <2>2
<1>12. CASE f = 0
  <2>1. Abs(s) = Abs(0) + n /\ Abs(b) = Abs(0) + n
    BY <1>3, <1>7, <1>9, <1>12
  <2>2. Accounted(e.buy, 0)' /\ Accounted(e.sell, 0)'
    BY <1>3, <1>5, <1>8, <1>9, <2>1
  <2>3. QED BY <1>3, <1>4, <1>6, <1>7, <1>9, <1>12, <2>2
<1>13. QED BY <1>9, <1>10, <1>11, <1>12

LEMMA MatchBook ==
  ASSUME SharesInv, NEW w \in Workers, Match(w)
  PROVE  BookOK'
<1>0. Receive(w) \/ Step(w)
  BY DEF Step, OrderStep
<1>1. PICK o \in task[w].rows : /\ exec' = Append(exec, Trade(w, o))
                               /\ openOrder' = BookAfter(w, Trade(w, o), o)
  BY DEF Match, Leading
<1>2. PICK e : e = Trade(w, o)
  OBVIOUS
<1>3. PICK f : f = task[w].left + o.amount
  OBVIOUS
<1>4. /\ f \in Int
      /\ \A p \in placed : (p.id = e.buy => p.amount > 0) /\ (p.id = e.sell => p.amount < 0)
      /\ f < 0 => Accounted(e.sell, f)' /\ Accounted(e.buy, 0)'
      /\ f > 0 => Accounted(e.buy, f)' /\ Accounted(e.sell, 0)'
      /\ f = 0 => Accounted(e.sell, 0)' /\ Accounted(e.buy, 0)'
  BY <1>1, <1>2, <1>3, MatchShares
<1>5. openOrder' = Settle(openOrder, e.sell, e.buy, f)
  BY <1>1, <1>2, <1>3 DEF BookAfter
<1>6. openOrder \in SUBSET Order /\ placed \subseteq Order /\ OneRow /\ BookAccounted
  BY DEF SharesInv, Inv, TypeOK, TablesOK, SharesInvariant
<1>7. placed' = placed /\ \A p \in placed' : p \in placed
  BY DEF Match
<1>8. /\ \A q \in openOrder' :
           \/ q \in openOrder /\ q.id \notin {e.sell, e.buy}
           \/ q.id = e.sell /\ q.amount = f /\ f < 0
           \/ q.id = e.buy /\ q.amount = f /\ f > 0
      /\ \A q \in openOrder : q.id \notin {e.sell, e.buy} => q \in openOrder'
      /\ e.sell # e.buy => \A q \in openOrder :
           (q.id = e.sell /\ f < 0) \/ (q.id = e.buy /\ f > 0) =>
             \E x \in openOrder' : x.id = q.id
      /\ OneRow'
  BY <1>4, <1>5, <1>6, SettleById DEF OneRow
<1>9. ASSUME NEW id, NEW n \in Int, Accounted(id, n)
      PROVE  Accounted(id, n)'
  BY <1>0, <1>7, <1>9, AccountedKept
<1>10. ASSUME NEW q \in openOrder'
       PROVE  Accounted(q.id, q.amount)'
  <2>1. CASE q \in openOrder
    <3>1. q.amount \in Int /\ Accounted(q.id, q.amount)
      BY <1>6, <2>1 DEF Order, BookAccounted
    <3>2. QED BY <1>9, <3>1
  <2>2. CASE q.id = e.sell /\ q.amount = f /\ f < 0
    BY <1>4, <2>2
  <2>3. CASE q.id = e.buy /\ q.amount = f /\ f > 0
    BY <1>4, <2>3
  <2>4. QED BY <1>8, <2>1, <2>2, <2>3
<1>11. ASSUME NEW p \in placed, \A q \in openOrder' : q.id # p.id
       PROVE  Accounted(p.id, 0)'
  <2>1. ASSUME \A q \in openOrder : q.id # p.id
        PROVE  Accounted(p.id, 0)'
    BY <1>6, <1>9, <2>1 DEF BookAccounted
  <2>2. p.amount \in Int
    BY <1>6 DEF Order
  <2>3. CASE p.id = e.sell
    <3>1. e.sell # e.buy
      BY <1>4, <2>2, <2>3
    <3>2. CASE f < 0
      BY <1>8, <1>11, <2>1, <2>3, <3>1, <3>2
    <3>3. CASE ~(f < 0)
      BY <1>4, <2>3, <3>3
    <3>4. QED BY <3>2, <3>3
  <2>4. CASE p.id = e.buy
    <3>1. e.sell # e.buy
      BY <1>4, <2>2, <2>4
    <3>2. CASE f > 0
      BY <1>8, <1>11, <2>1, <2>4, <3>1, <3>2
    <3>3. CASE ~(f > 0)
      BY <1>4, <2>4, <3>3
    <3>4. QED BY <3>2, <3>3
  <2>5. CASE p.id \notin {e.sell, e.buy}
    BY <1>8, <1>11, <2>1, <2>5
  <2>6. QED BY <2>3, <2>4, <2>5
<1>12. QED BY <1>7, <1>8, <1>10, <1>11 DEF BookOK, BookAccounted

LEMMA CommitCancelBook ==
  ASSUME SharesInv, NEW w \in Workers, CommitCancel(w)
  PROVE  BookOK'
<1>0. Receive(w) \/ Step(w)
  BY DEF Step, CancelStep
<1>1. CASE UNCHANGED tables
  BY <1>0, <1>1, BookKept DEF tables
<1>2. ASSUME NEW o \in task[w].rows,
             cancel' = Append(cancel, [acct |-> o.acct, id |-> o.id, sym |-> o.sym,
                                       amount |-> o.amount]),
             openOrder' = Without(openOrder, o.id), placed' = placed, exec' = exec
      PROVE  BookOK'
  <2> DEFINE c == [acct |-> o.acct, id |-> o.id, sym |-> o.sym, amount |-> o.amount]
  <2>1. o \in Order
    BY DEF SharesInv, Inv, TypeOK, TasksOK, Task
  <2>2. /\ c \in Cancelled /\ cancel' = Append(cancel, c) /\ c.id = o.id /\ c.amount = o.amount
        /\ o.amount \in Int
    BY <1>2, <2>1 DEF Cancelled, Order
  <2> HIDE DEF c
  <2>3. TablesOK /\ OneRow /\ BookAccounted /\ openOrder \subseteq Order
    BY DEF SharesInv, Inv, TypeOK, TablesOK, SharesInvariant
  <2>4. /\ CancelShares(o.id) \in Int /\ ExecShares(o.id) \in Int
        /\ CancelShares(o.id)' = CancelShares(o.id) + Abs(o.amount)
        /\ ExecShares(o.id)' = ExecShares(o.id)
    <3>1. /\ CancelShares(o.id) \in Int
          /\ CancelShares(o.id)' = CancelShares(o.id) + IF c.id = o.id THEN Abs(c.amount) ELSE 0
      BY <2>2, <2>3, CancelAppend
    <3>2. ExecShares(o.id) \in Int
      BY <1>0, SharesGrow
    <3>3. ExecShares(o.id)' = ExecShares(o.id)
      BY <1>2, LogsSame
    <3>4. QED BY <2>2, <3>1, <3>2, <3>3
  <2>5. Accounted(o.id, 0)'
    <3>1. Accounted(o.id, o.amount)
      BY DEF SharesInv, SharesInvariant, HeldAccounted
    <3>2. Abs(o.amount) \in Int /\ Abs(0) = 0
      BY <2>2, AbsFacts
    <3>3. Abs(o.amount) + ExecShares(o.id) + CancelShares(o.id) <=
            Abs(0) + ExecShares(o.id)' + CancelShares(o.id)'
      BY <2>4, <3>2
    <3>4. \A p \in placed' : p \in placed \/ p.id # o.id
      BY <1>2
    <3>5. QED BY <1>0, <2>2, <3>1, <3>3, <3>4, AccountedStep
  <2>6. \A q \in openOrder' : q \in openOrder /\ q.id # o.id
    BY <1>2 DEF Without
  <2>7. \A q \in openOrder : q.id # o.id => q \in openOrder'
    BY <1>2 DEF Without
  <2>8. ASSUME NEW id, NEW n \in Int, Accounted(id, n)
        PROVE  Accounted(id, n)'
    BY <1>0, <1>2, <2>8, AccountedKept
  <2>9. ASSUME NEW q \in openOrder'
        PROVE  Accounted(q.id, q.amount)'
    <3>1. q.amount \in Int /\ Accounted(q.id, q.amount)
      BY <2>3, <2>6 DEF Order, BookAccounted
    <3>2. QED BY <2>8, <3>1
  <2>10. ASSUME NEW p \in placed, \A q \in openOrder' : q.id # p.id
         PROVE  Accounted(p.id, 0)'
    <3>1. CASE p.id = o.id
      BY <2>5, <3>1
    <3>2. CASE p.id # o.id
      <4>1. \A q \in openOrder : q.id # p.id
        BY <2>7, <2>10, <3>2
      <4>2. Accounted(p.id, 0)
        BY <2>3, <4>1 DEF BookAccounted
      <4>3. QED BY <2>8, <4>2
    <3>3. QED BY <3>1, <3>2
  <2>11. OneRow'
    BY <2>3, <2>6 DEF OneRow
  <2>12. QED BY <1>2, <2>9, <2>10, <2>11 DEF BookOK, BookAccounted
<1>3. CASE \E o \in task[w].rows :
             /\ cancel' = Append(cancel, [acct |-> o.acct, id |-> o.id, sym |-> o.sym,
                                          amount |-> o.amount])
             /\ openOrder' = Without(openOrder, o.id)
             /\ placed' = placed /\ exec' = exec
  BY <1>2, <1>3
<1>4. QED BY <1>1, <1>3 DEF CommitCancel

LEMMA BookStep ==
  ASSUME SharesInv, NEW w \in Workers, Receive(w) \/ Step(w)
  PROVE  BookOK'
<1>1. CASE CreateStep(w) \/ UNCHANGED tables
  <2>1. UNCHANGED <<openOrder, placed>>
    BY <1>1 DEF CreateStep, CreateAccount, CreatePosition, AbandonPosition, tables
  <2>2. QED BY <2>1, BookKept
<1>2. QED BY <1>1, CommitOrderBook, MatchBook, CommitCancelBook, Writers

\* What a worker holds is accounted for: rows read from the book, then and later,
\* and what is left of an order that it has found by its id.
LEMMA HeldStep ==
  ASSUME SharesInv, MayAbort = FALSE, NEW w \in Workers, Receive(w) \/ Step(w)
  PROVE  HeldAccounted'
<1>0. TypeOK /\ TypeOK' /\ HeldAccounted /\ BookAccounted
  BY NextType DEF SharesInv, Inv, Next, SharesInvariant
<1>1. /\ \A v \in Workers \ {w} : task'[v] = task[v]
      /\ task'[w].rows \subseteq task[w].rows \cup openOrder
  BY StepMoved DEF Moved, SharesInv
<1>2. ASSUME NEW id \in Int, id < nextId, NEW n \in Int, Accounted(id, n)
      PROVE  Accounted(id, n)'
  <2>1. \A p \in placed' : p \in placed \/ p.id # id
    BY <1>2, NewIds
  <2>2. QED BY <1>2, <2>1, AccountedKept
<1>3. ASSUME NEW v \in Workers, NEW o \in task'[v].rows
      PROVE  Accounted(o.id, o.amount)'
  <2>1. o \in task[v].rows \/ o \in openOrder
    BY <1>1
  <2>2. Accounted(o.id, o.amount)
    BY <1>0, <2>1 DEF HeldAccounted, BookAccounted
  <2>3. o.id \in Int /\ o.id < nextId
    BY <2>1, NewIds
  <2>4. o \in Order
    BY <1>0, <2>1 DEF TypeOK, TablesOK, TasksOK, Task
  <2>5. QED BY <1>2, <2>2, <2>3, <2>4 DEF Order
<1>4. ASSUME NEW v \in Workers, task'[v].pc \in {"lock", "match"},
             NEW id, id = task'[v].tid, NEW n, n = task'[v].left
      PROVE  Accounted(id, n)'
  <2>0. id \in Int /\ n \in Int
    BY <1>0, <1>4 DEF TypeOK, TasksOK, Task
  <2>1. CASE v # w
    <3>1. task'[v] = task[v]
      BY <1>1, <2>1
    <3>2. id < nextId /\ Accounted(id, n)
      BY <1>0, <1>4, <3>1, NewIds DEF HeldAccounted
    <3>3. QED BY <1>2, <2>0, <3>2
  <2>2. CASE v = w
    <3>1. id = task[w].tid /\ (SelectRows(w) \/ LockRows(w) \/ Match(w) \/ AbandonMatch(w))
      BY <1>4, <2>2, OrderPlaces DEF SharesInv, Inv
    <3>2. id < nextId
      BY <3>1, NewIds
    <3>3. CASE SelectRows(w)
      <4>1. n = task[w].req.amount
        BY <1>0, <1>4, <2>2, <3>3 DEF SelectRows, TypeOK, TasksOK, Task
      <4>2. \A p \in placed : p.id = id => p.amount = n
        <5>1. \A p \in placed : p.id >= 1 /\ (\A q \in placed : q.id = p.id => q = p)
          BY DEF SharesInv, Inv, OrderInvariant, PlacedInv
        <5>2. id # NoId => \E p \in placed : p.id = id /\ OrderOf(p, task[w].req)
          BY <3>1 DEF SharesInv, Inv, OrderInvariant, TasksInv, TaskInv, IdOK
        <5>3. id = NoId => \A p \in placed : p.id # id
          BY <5>1 DEF NoId
        <5>4. QED BY <4>1, <5>1, <5>2, <5>3 DEF OrderOf
      <4>3. Accounted(id, n)
        <5>1. Abs(n) \in Int
          BY <2>0, AbsFacts
        <5>2. /\ ExecShares(id) \in Int /\ ExecShares(id) >= 0
              /\ CancelShares(id) \in Int /\ CancelShares(id) >= 0
          BY SharesGrow
        <5>3. Abs(n) <= Abs(n) + ExecShares(id) + CancelShares(id)
          BY <5>1, <5>2
        <5>4. QED BY <4>2, <5>3 DEF Accounted
      <4>4. QED BY <1>2, <2>0, <3>2, <4>3
    <3>4. CASE LockRows(w)
      <4>1. n = task[w].left /\ task[w].pc = "lock"
        BY <1>0, <1>4, <2>2, <3>4 DEF LockRows, TypeOK, TasksOK, Task, At
      <4>2. Accounted(id, n)
        BY <1>0, <3>1, <4>1 DEF HeldAccounted
      <4>3. QED BY <1>2, <2>0, <3>2, <4>2
    <3>5. CASE Match(w)
      <4>1. PICK o \in task[w].rows : /\ exec' = Append(exec, Trade(w, o))
                                     /\ task' = [task EXCEPT ![w] = AfterFill(w, o)]
        BY <3>5 DEF Match, Leading, NextRow
      <4>2. PICK e : e = Trade(w, o)
        OBVIOUS
      <4>3. PICK f : f = task[w].left + o.amount
        OBVIOUS
      <4>4. /\ f \in Int
            /\ f < 0 => Accounted(e.sell, f)'
            /\ f > 0 => Accounted(e.buy, f)'
            /\ \/ task[w].req.amount < 0 /\ e.sell = task[w].tid
               \/ task[w].req.amount > 0 /\ e.buy = task[w].tid
        BY <3>5, <4>1, <4>2, <4>3, MatchShares
      <4>5. task[w].req.amount \in Int
        BY <3>5, OrderTask DEF SharesInv, Inv, Match, At, OrderPCs, OrderReq
      <4>6. /\ n = f
            /\ task[w].req.amount < 0 => f < 0
            /\ ~(task[w].req.amount < 0) => f > 0
        BY <1>0, <1>4, <2>2, <4>1, <4>3 DEF AfterFill, TypeOK, TasksOK, Task
      <4>7. QED BY <3>1, <4>4, <4>5, <4>6
    <3>6. CASE AbandonMatch(w)
      BY <3>6 DEF AbandonMatch
    <3>7. QED BY <3>1, <3>3, <3>4, <3>5, <3>6
  <2>3. QED BY <2>1, <2>2
<1>5. ASSUME NEW v \in Workers, task'[v].pc \in {"lock", "match"}
      PROVE  Accounted(task[v].tid, task[v].left)'
  <2>1. PICK id, n : id = task'[v].tid /\ n = task'[v].left
    OBVIOUS
  <2>2. Accounted(id, n)'
    BY <1>4, <1>5, <2>1
  <2>3. QED BY <2>1, <2>2 DEF Accounted
<1>6. QED BY <1>3, <1>5 DEF HeldAccounted

\* Of an order that has one row in the book, that row's shares are open.
LEMMA OpenSum ==
  ASSUME OneRow, openOrder \subseteq Order
  PROVE  /\ \A o \in openOrder : OpenShares(o.id) = Abs(o.amount)
         /\ \A id : (\A o \in openOrder : o.id # id) => OpenShares(id) = 0
<1>1. ASSUME NEW o \in openOrder
      PROVE  OpenShares(o.id) = Abs(o.amount)
  <2> DEFINE f == [q \in {} |-> Abs(q.amount)]
             g == [q \in OpenRows(o.id) |-> Abs(q.amount)]
  <2>1. OpenRows(o.id) = {o}
    BY DEF OpenRows, OneRow
  <2>2. o.amount \in Int /\ Abs(o.amount) \in Int
    BY AbsFacts DEF Order
  <2>3. Summable(f) /\ SumFunction(f) = 0
    BY SumEmpty
  <2>4. /\ o \notin DOMAIN f /\ g[o] = Abs(o.amount) /\ DOMAIN g = DOMAIN f \cup {o}
        /\ \A q \in DOMAIN f : g[q] = f[q]
    BY <2>1
  <2> HIDE DEF f, g
  <2>5. SumFunction(g) = SumFunction(f) + g[o]
    BY <2>2, <2>3, <2>4, SumAdd
  <2>6. SumFunction(g) = Abs(o.amount)
    BY <2>2, <2>3, <2>4, <2>5
  <2>7. QED BY <2>6 DEF OpenShares, g
<1>2. ASSUME NEW id, \A o \in openOrder : o.id # id
      PROVE  OpenShares(id) = 0
  <2>1. OpenRows(id) = {}
    BY <1>2 DEF OpenRows
  <2>2. QED BY <2>1, SumEmpty DEF OpenShares
<1>3. QED BY <1>1, <1>2

LEMMA NoneLost ==
  ASSUME Inv, SharesInvariant
  PROVE  NoShareLost
<1>1. OneRow /\ BookAccounted /\ openOrder \subseteq Order /\ placed \subseteq Order
  BY DEF Inv, TypeOK, TablesOK, SharesInvariant
<1>2. ASSUME NEW p \in placed
      PROVE  Abs(p.amount) <= OpenShares(p.id) + ExecShares(p.id) + CancelShares(p.id)
  <2>1. CASE \E o \in openOrder : o.id = p.id
    <3>1. PICK o \in openOrder : o.id = p.id
      BY <2>1
    <3>2. OpenShares(o.id) = Abs(o.amount)
      BY <1>1, OpenSum
    <3>3. Abs(p.amount) <= Abs(o.amount) + ExecShares(p.id) + CancelShares(p.id)
      BY <1>1, <3>1 DEF BookAccounted, Accounted
    <3>4. QED BY <3>1, <3>2, <3>3
  <2>2. CASE \A o \in openOrder : o.id # p.id
    <3>1. OpenShares(p.id) = 0
      BY <1>1, <2>2, OpenSum
    <3>2. Abs(p.amount) <= Abs(0) + ExecShares(p.id) + CancelShares(p.id) /\ Abs(0) = 0
      BY <1>1, <2>2 DEF BookAccounted, Accounted, Abs
    <3>3. QED BY <3>1, <3>2
  <2>3. QED BY <2>1, <2>2
<1>3. QED BY <1>2 DEF NoShareLost

LEMMA InitShares == Init => SharesInvariant
<1> SUFFICES ASSUME Init PROVE SharesInvariant
  OBVIOUS
<1>1. /\ placed = {} /\ openOrder = {} /\ exec = << >>
      /\ \A w \in Workers : task[w].pc = "idle" /\ task[w].rows = {}
  BY DEF Init, Idle
<1>2. QED BY <1>1 DEF SharesInvariant, OneRow, FillsPositive, BookAccounted, HeldAccounted

LEMMA NextShares ==
  ASSUME MayAbort = FALSE
  PROVE  Inv /\ OInv /\ SharesInvariant /\ [Next]_vars => SharesInvariant'
<1> SUFFICES ASSUME SharesInv, [Next]_vars PROVE SharesInvariant'
  BY DEF SharesInv
<1>1. CASE UNCHANGED vars
  <2>1. UNCHANGED <<placed, openOrder, exec, cancel, task>>
    BY <1>1 DEF vars, tables
  <2>2. \A id : ExecShares(id)' = ExecShares(id) /\ CancelShares(id)' = CancelShares(id)
    BY <2>1, LogsSame
  <2>3. QED BY <2>1, <2>2 DEF SharesInv, SharesInvariant, OneRow, FillsPositive, BookAccounted,
                  HeldAccounted, Accounted
<1>2. ASSUME NEW w \in Workers, Receive(w) \/ Step(w)
      PROVE  SharesInvariant'
  BY <1>2, BookStep, HeldStep, SharesGrow DEF SharesInvariant, BookOK
<1>3. QED BY <1>1, <1>2 DEF Next

LEMMA SharesHold ==
  ASSUME SameSecond = FALSE, MayAbort = FALSE
  PROVE  Spec => []SharesInvariant
  BY Basis, InitShares, NextShares, PTL DEF Spec

\* However stale the rows that workers fill and cancel, for any number of workers,
\* accounts and orders, no share of an order disappears from the tables: it is
\* open, executed or cancelled, if no two orders bear one second (an id found for
\* another order would count its shares twice) and no transaction is aborted (a
\* match that is rolled back is taken for a fill).
THEOREM NoneDisappears ==
  ASSUME SameSecond = FALSE, MayAbort = FALSE
  PROVE  Spec => []NoShareLost
  BY Basis, SharesHold, NoneLost, PTL

-----------------------------------------------------------------------------
(* No share is missing from a status answer. *)

AnswersInv == Inv /\ OInv /\ SharesInvariant /\ AnswersInvariant

\* Where the checks and the SELECTs of a query come from.
LEMMA QueryPlaces ==
  ASSUME Inv, NEW w \in Workers, Receive(w) \/ Step(w)
  PROVE  /\ task'[w].pc = "account" => task'[w].report = {}
         /\ task'[w].pc \in {"trans", "belong", "status"} =>
              \/ QueryStep(w)
              \/ /\ task[w].pc = "account" /\ task'[w].pc = "trans"
                 /\ task'[w].report = task[w].report /\ task'[w].found = task[w].found
<1> DEFINE r == task[w].req
           u == task'[w]
           Elsewhere == u.pc \notin {"account", "trans", "belong", "status"}
<1>1. task \in [Workers -> Task] /\ task[w] \in Task
  BY DEF Inv, TypeOK, TasksOK
<1>2. ASSUME NEW subs \in Seq(SubRequest), task' = [task EXCEPT ![w] = Run(subs)]
      PROVE  u.pc \in {"idle", "account"} /\ u.report = {}
  <2>1. Run(subs).pc \in {"idle", "account"} /\ Run(subs).report = {}
    BY DEF Run, Idle
  <2>2. QED BY <1>1, <1>2, <2>1
<1>3. ASSUME NEW ok, NEW val, NEW report, Reply(w, ok, val, report)
      PROVE  u.pc \in {"idle", "account"} /\ u.report = {}
  <2>1. task[w].rest \in Seq(SubRequest) /\ task' = [task EXCEPT ![w] = Run(task[w].rest)]
    BY <1>1, <1>3 DEF Reply, Task
  <2>2. QED BY <1>2, <2>1
<1>4. ASSUME NEW pc, Goto(w, pc)
      PROVE  u.pc = pc /\ u.report = task[w].report /\ u.found = task[w].found
  BY <1>1, <1>4 DEF Goto, Task
<1>5. CASE Receive(w)
  <2>1. task' = [task EXCEPT ![w] = Run(Head(todo))] /\ Head(todo) \in Seq(SubRequest)
    BY <1>5 DEF Receive, Inv, TypeOK, Request
  <2>2. QED BY <1>2, <2>1
<1>6. CASE CheckAccount(w)
  <2>1. task[w].pc = "account" /\ (Reject(w) \/ Goto(w, AfterAccount(r)))
    BY <1>6 DEF CheckAccount, At
  <2>2. CASE Reject(w)
    BY <1>3, <2>2 DEF Reject
  <2>3. CASE Goto(w, AfterAccount(r))
    BY <1>4, <2>1, <2>3 DEF AfterAccount
  <2>4. QED BY <2>1, <2>2, <2>3
<1>7. CASE CreateStep(w) \/ ReplyOpened(w) \/ AbandonCancel(w) \/ ReadExecuted(w)
  BY <1>3, <1>7 DEF CreateStep, CreateAccount, CreatePosition, AbandonPosition, ReplyOpened,
     AbandonCancel, ReadExecuted
<1>8. CASE QueryStep(w)
  <2>1. (u.pc \in {"idle", "account"} /\ u.report = {}) \/ u.pc \in StatusPCs
    <3>1. CASE Look(w)
      <4>1. u.pc = task[w].pc /\ task[w].pc \in {"trans", "belong"}
        BY <1>1, <3>1 DEF Look, Task
      <4>2. QED BY <4>1 DEF StatusPCs
    <3>2. CASE CheckTransID(w) \/ CheckBelong(w)
      <4>1. Reject(w) \/ \E pc \in {"belong", "status", "open"} : Enter(w, pc)
        BY <3>2 DEF CheckTransID, CheckBelong
      <4>2. {"belong", "status", "open"} \subseteq StatusPCs
        BY DEF StatusPCs, CancelPCs
      <4>3. QED BY <1>3, <4>1, <4>2, EnterPc DEF Reject, AnswersInv, Inv
    <3>3. CASE QueryOrder(w)
      <4>1. CASE task[w].look < 3
        <5>1. u.pc = "status"
          BY <1>1, <3>3, <4>1 DEF QueryOrder, At, Task
        <5>2. QED BY <5>1 DEF StatusPCs
      <4>2. CASE ~(task[w].look < 3)
        BY <1>3, <3>3, <4>2 DEF QueryOrder
      <4>3. QED BY <4>1, <4>2
    <3>4. QED BY <1>8, <3>1, <3>2, <3>3 DEF QueryStep
  <2>2. QED BY <1>8, <2>1 DEF StatusPCs, CancelPCs
<1>9. CASE CheckIfOpen(w) \/ CommitCancel(w) \/ CheckFunds(w)
  <2>1. Reject(w) \/ \E pc \in {"read", "executed", "begin"} : Goto(w, pc)
    BY <1>9 DEF CheckIfOpen, CommitCancel, CheckFunds
  <2>2. QED BY <1>3, <1>4, <2>1 DEF Reject
<1>10. CASE CommitOrder(w) \/ AbandonOrder(w) \/ AbandonSelect(w)
  <2>1. \E pc \in {"lookup", "select", "done"} : Goto(w, pc)
    BY <1>10 DEF CommitOrder, AbandonOrder, AbandonSelect, AfterInsert
  <2>2. QED BY <1>4, <2>1
<1>11. CASE ReadOrder(w) \/ BeginOrder(w)
  <2>1. u.pc \in {"cancel", "insert"}
    BY <1>1, <1>11 DEF ReadOrder, BeginOrder, Task
  <2>2. QED BY <2>1
<1>12. CASE LookupId(w)
  <2>1. u.pc \in {"select", "done"}
    BY <1>1, <1>12 DEF LookupId, AfterInsert, Task
  <2>2. QED BY <2>1
<1>13. CASE SelectRows(w) \/ LockRows(w)
  BY <1>1, <1>13 DEF SelectRows, LockRows, Task
<1>14. CASE Match(w) \/ AbandonMatch(w)
  <2>1. PICK o \in task[w].rows : task' = [task EXCEPT ![w] = AfterFill(w, o)]
    BY <1>14 DEF Match, AbandonMatch, Leading, NextRow
  <2>2. AfterFill(w, o).pc \in {"match", "done"}
    BY <1>1 DEF AfterFill, Task
  <2>3. QED BY <1>1, <2>1, <2>2
<1>15. QED BY <1>5, <1>6, <1>7, <1>8, <1>9, <1>10, <1>11, <1>12, <1>13, <1>14
          DEF Step, OrderStep, CancelStep

\* What a check finds belongs to an order that was placed.
LEMMA FoundAsked ==
  ASSUME AnswersInv, NEW id, NEW k \in 1 .. 4, OwnersIn(id)[k] # {}
  PROVE  id = NoId \/ id \in Id(placed)
<1>1. /\ LogsPlaced
      /\ \A o \in openOrder : \E p \in placed : RemainderOf(o, p)
  BY DEF AnswersInv, AnswersInvariant, Inv, OrderInvariant, BookInv
<1>2. /\ OwnersIn(id)[1] = {cancel[i].acct : i \in {j \in DOMAIN cancel : cancel[j].id = id}}
      /\ OwnersIn(id)[2] = {o.acct : o \in {q \in openOrder : q.id = id}}
      /\ OwnersIn(id)[3] = {exec[i].buyer : i \in {j \in DOMAIN exec : exec[j].buy = id}}
      /\ OwnersIn(id)[4] = {exec[i].seller : i \in {j \in DOMAIN exec : exec[j].sell = id}}
  BY DEF OwnersIn
<1>3. \/ \E j \in DOMAIN cancel : cancel[j].id = id
      \/ \E q \in openOrder : q.id = id
      \/ \E j \in DOMAIN exec : id \in {exec[j].buy, exec[j].sell}
  <2>1. k \in {1, 2, 3, 4}
    OBVIOUS
  <2>2. QED BY <1>2, <2>1
<1>4. (\E q \in openOrder : q.id = id) => id \in Id(placed)
  BY <1>1 DEF RemainderOf, Id
<1>5. QED BY <1>1, <1>3, <1>4 DEF LogsPlaced

\* A report of entries for the rows I, whose shares f counts, joined to another one.
LEMMA ReportAdds ==
  ASSUME NEW R, IsFiniteSet(R), \A e \in R : Abs(e.shares) \in Int,
         NEW f, Summable(f), NEW b, NEW S, b \in Bijection(DOMAIN f, S),
         \A i \in DOMAIN f : Abs(b[i].shares) = f[i], R \cap S = {}
  PROVE  /\ IsFiniteSet(R \cup S)
         /\ ReportShares(R) \in Int
         /\ ReportShares(R \cup S) = ReportShares(R) + SumFunction(f)
<1> DEFINE g == [e \in S |-> Abs(e.shares)]
           h == [e \in R |-> Abs(e.shares)]
           k == [e \in R \cup S |-> Abs(e.shares)]
<1>1. DOMAIN g = S /\ \A i \in DOMAIN f : g[b[i]] = f[i]
  BY DEF Bijection, Injection
<1>2. Summable(h)
  BY DEF Summable
<1>3. /\ DOMAIN h = R /\ DOMAIN k = DOMAIN h \cup DOMAIN g /\ DOMAIN h \cap DOMAIN g = {}
      /\ \A e \in DOMAIN h : k[e] = h[e]
      /\ \A e \in DOMAIN g : k[e] = g[e]
  OBVIOUS
<1> HIDE DEF g, h, k
<1>4. Summable(g) /\ SumFunction(g) = SumFunction(f)
  BY <1>1, SumRenamed
<1>5. Summable(k) /\ SumFunction(k) = SumFunction(h) + SumFunction(g)
  BY <1>2, <1>3, <1>4, SumUnion
<1>6. IsFiniteSet(R \cup S)
  BY <1>4, <1>1, FS_Union DEF Summable
<1>7. SumFunction(h) \in Int
  BY <1>2, SumType
<1>8. ReportShares(R) = SumFunction(h) /\ ReportShares(R \cup S) = SumFunction(k)
  BY DEF ReportShares, h, k
<1>9. QED BY <1>4, <1>5, <1>6, <1>7, <1>8

LEMMA ReportOfOne ==
  ASSUME NEW e, Abs(e.shares) \in Int
  PROVE  IsFiniteSet({e}) /\ ReportShares({e}) = Abs(e.shares)
<1> DEFINE f == [x \in {} |-> 0]
           g == [x \in {e} |-> Abs(x.shares)]
<1>1. Summable(f) /\ SumFunction(f) = 0
  BY SumEmpty
<1>2. e \notin DOMAIN f /\ g[e] = Abs(e.shares) /\ DOMAIN g = DOMAIN f \cup {e}
      /\ \A y \in DOMAIN f : g[y] = f[y]
  OBVIOUS
<1> HIDE DEF f, g
<1>3. SumFunction(g) = SumFunction(f) + g[e]
  BY <1>1, <1>2, SumAdd
<1>4. SumFunction(g) = Abs(e.shares)
  BY <1>1, <1>2, <1>3
<1>5. QED BY <1>4, FS_Singleton DEF ReportShares, g

\* The first SELECT finds what is open.
LEMMA OpenReport ==
  ASSUME SharesInv, NEW id, NEW R, R = StatusIn(id)[1]
  PROVE  /\ IsFiniteSet(R) /\ \A e \in R : e.state = "open"
         /\ \A p \in placed : p.id = id =>
              Abs(p.amount) <= ReportShares(R) + CancelShares(p.id) + ExecShares(p.id)
<1>1. OneRow /\ BookAccounted /\ openOrder \subseteq Order /\ TablesOK /\ FillsPositive
  BY DEF SharesInv, Inv, TypeOK, TablesOK, SharesInvariant
<1>2. R = {[state |-> "open", row |-> 0, shares |-> o.amount] : o \in {q \in openOrder : q.id = id}}
  BY DEF StatusIn
<1>3. \A p \in placed : ExecShares(p.id) \in Int /\ CancelShares(p.id) \in Int
  BY <1>1, ShareTypes
<1>4. CASE \E o \in openOrder : o.id = id
  <2>1. PICK o \in openOrder : o.id = id
    BY <1>4
  <2> DEFINE e == [state |-> "open", row |-> 0, shares |-> o.amount]
  <2>2. R = {e} /\ e.state = "open" /\ e.shares = o.amount
    BY <1>1, <1>2, <2>1 DEF OneRow
  <2>3. Abs(o.amount) \in Int
    BY <1>1, AbsFacts DEF Order
  <2> HIDE DEF e
  <2>4. IsFiniteSet(R) /\ ReportShares(R) = Abs(o.amount)
    BY <2>2, <2>3, ReportOfOne
  <2>5. ASSUME NEW p \in placed, p.id = id
        PROVE  Abs(p.amount) <= ReportShares(R) + CancelShares(p.id) + ExecShares(p.id)
    <3>1. Abs(p.amount) <= Abs(o.amount) + ExecShares(p.id) + CancelShares(p.id)
      BY <1>1, <2>1, <2>5 DEF BookAccounted, Accounted
    <3>2. QED BY <1>3, <2>3, <2>4, <3>1
  <2>6. QED BY <2>2, <2>4, <2>5
<1>5. CASE \A o \in openOrder : o.id # id
  <2>1. R = {}
    BY <1>2, <1>5
  <2>2. ReportShares({}) = 0
    BY SumEmpty DEF ReportShares
  <2>3. ASSUME NEW p \in placed, p.id = id
        PROVE  Abs(p.amount) <= ReportShares(R) + CancelShares(p.id) + ExecShares(p.id)
    <3>1. Abs(p.amount) <= Abs(0) + ExecShares(p.id) + CancelShares(p.id) /\ Abs(0) = 0
      BY <1>1, <1>5, <2>3 DEF BookAccounted, Accounted, Abs
    <3>2. QED BY <1>3, <2>1, <2>2, <3>1
  <2>4. QED BY <2>1, <2>3, FS_EmptySet
<1>6. QED BY <1>4, <1>5

\* The second one finds what was cancelled, the third what was executed.
LEMMA CancelReport ==
  ASSUME TablesOK, NEW id, NEW R \in SUBSET Entry, IsFiniteSet(R), \A e \in R : e.state = "open"
  PROVE  /\ IsFiniteSet(R \cup StatusIn(id)[2])
         /\ \A e \in R \cup StatusIn(id)[2] : e.state \in {"open", "canceled"}
         /\ ReportShares(R) \in Int
         /\ ReportShares(R \cup StatusIn(id)[2]) = ReportShares(R) + CancelShares(id)
<1> DEFINE I == CancelRows(id)
           f == [i \in I |-> Abs(cancel[i].amount)]
           b == [i \in I |-> [state |-> "canceled", row |-> i, shares |-> cancel[i].amount]]
           S == {[state |-> "canceled", row |-> i, shares |-> cancel[i].amount] : i \in I}
<1>1. StatusIn(id)[2] = S
  BY DEF StatusIn, CancelRows
<1>2. \A i \in DOMAIN cancel : Abs(cancel[i].amount) \in Int
  <2>1. \A i \in DOMAIN cancel : cancel[i] \in Cancelled
    BY DEF TablesOK
  <2>2. \A i \in DOMAIN cancel : cancel[i].amount \in Int
    BY <2>1 DEF Cancelled
  <2>3. QED BY <2>2, AbsFacts
<1>3. I \subseteq DOMAIN cancel /\ IsFiniteSet(I)
  <2>1. I \subseteq DOMAIN cancel
    BY DEF CancelRows
  <2>2. QED BY <2>1, LogIndices DEF TablesOK
<1>4. Summable(f)
  BY <1>2, <1>3 DEF Summable
<1>5. b \in Bijection(DOMAIN f, S)
  <2>1. b \in [I -> S] /\ \A i, j \in I : b[i] = b[j] => i = j
    <3>1. \A i \in I : b[i].row = i
      OBVIOUS
    <3>2. QED BY <3>1
  <2>2. \A e \in S : \E i \in I : b[i] = e
    OBVIOUS
  <2>3. QED BY <2>1, <2>2 DEF Bijection, Injection, Surjection, IsInjective
<1>6. \A i \in DOMAIN f : Abs(b[i].shares) = f[i]
  OBVIOUS
<1>7. R \cap S = {} /\ \A e \in S : e.state = "canceled"
  OBVIOUS
<1>8. \A e \in R : Abs(e.shares) \in Int
  BY AbsFacts DEF Entry
<1>9. SumFunction(f) = CancelShares(id)
  BY DEF CancelShares
<1> HIDE DEF f, b, S
<1>10. /\ IsFiniteSet(R \cup S) /\ ReportShares(R) \in Int
       /\ ReportShares(R \cup S) = ReportShares(R) + SumFunction(f)
  BY <1>4, <1>5, <1>6, <1>7, <1>8, ReportAdds
<1>11. QED BY <1>1, <1>7, <1>9, <1>10

LEMMA ExecReport ==
  ASSUME TablesOK, FillsPositive, NEW id, NEW R \in SUBSET Entry, IsFiniteSet(R),
         \A e \in R : e.state \in {"open", "canceled"}
  PROVE  /\ ReportShares(R) \in Int
         /\ ReportShares(R \cup StatusIn(id)[3]) = ReportShares(R) + ExecShares(id)
<1> DEFINE I == ExecRows(id)
           f == [i \in I |-> exec[i].amount]
           b == [i \in I |-> [state |-> "executed", row |-> i, shares |-> exec[i].amount]]
           S == {[state |-> "executed", row |-> i, shares |-> exec[i].amount] : i \in I}
<1>1. StatusIn(id)[3] = S
  BY DEF StatusIn, Executed, ExecRows
<1>2. \A i \in DOMAIN exec : exec[i].amount \in Int /\ Abs(exec[i].amount) = exec[i].amount
  <2>1. \A i \in DOMAIN exec : exec[i] \in Exec
    BY DEF TablesOK
  <2>2. \A i \in DOMAIN exec : exec[i].amount \in Int /\ exec[i].amount >= 0
    BY <2>1 DEF Exec, FillsPositive
  <2>3. QED BY <2>2, AbsFacts
<1>3. I \subseteq DOMAIN exec /\ IsFiniteSet(I)
  <2>1. I \subseteq DOMAIN exec
    BY DEF ExecRows
  <2>2. QED BY <2>1, LogIndices DEF TablesOK
<1>4. Summable(f)
  BY <1>2, <1>3 DEF Summable
<1>5. b \in Bijection(DOMAIN f, S)
  <2>1. b \in [I -> S] /\ \A i, j \in I : b[i] = b[j] => i = j
    <3>1. \A i \in I : b[i].row = i
      OBVIOUS
    <3>2. QED BY <3>1
  <2>2. \A e \in S : \E i \in I : b[i] = e
    OBVIOUS
  <2>3. QED BY <2>1, <2>2 DEF Bijection, Injection, Surjection, IsInjective
<1>6. \A i \in DOMAIN f : Abs(b[i].shares) = f[i]
  BY <1>2, <1>3
<1>7. R \cap S = {}
  OBVIOUS
<1>8. \A e \in R : Abs(e.shares) \in Int
  BY AbsFacts DEF Entry
<1>9. SumFunction(f) = ExecShares(id)
  BY DEF ExecShares
<1> HIDE DEF f, b, S
<1>10. /\ ReportShares(R) \in Int
       /\ ReportShares(R \cup S) = ReportShares(R) + SumFunction(f)
  BY <1>4, <1>5, <1>6, <1>7, <1>8, ReportAdds
<1>11. QED BY <1>1, <1>9, <1>10

LEMMA PlacedKept ==
  ASSUME AnswersInv, NEW w \in Workers, Receive(w) \/ Step(w)
  PROVE  Id(placed) \subseteq Id(placed)' /\ placed \subseteq placed'
  BY IdsPlacedStep DEF AnswersInv, Id

LEMMA LogsStep ==
  ASSUME AnswersInv, NEW w \in Workers, Receive(w) \/ Step(w)
  PROVE  LogsPlaced'
<1>1. LogsPlaced /\ TablesOK /\ RowsPlaced
  BY DEF AnswersInv, AnswersInvariant, Inv, TypeOK
<1>2. Id(placed) \subseteq Id(placed)'
  BY PlacedKept
<1>3. ASSUME exec' = exec, cancel' = cancel
      PROVE  LogsPlaced'
  BY <1>1, <1>2, <1>3 DEF LogsPlaced
<1>4. \A o \in task[w].rows : o.id \in Id(placed)
  BY <1>1 DEF RowsPlaced, RemainderOf, Id
<1>5. CASE CreateStep(w) \/ CommitOrder(w) \/ UNCHANGED tables
  <2>1. exec' = exec /\ cancel' = cancel
    BY <1>5 DEF CreateStep, CreateAccount, CreatePosition, AbandonPosition, CommitOrder, tables
  <2>2. QED BY <1>3, <2>1
<1>6. CASE Match(w)
  <2>1. PICK o \in task[w].rows : exec' = Append(exec, Trade(w, o))
    BY <1>6 DEF Match, Leading
  <2>2. PICK e : e = Trade(w, o)
    OBVIOUS
  <2>3. e \in Exec /\ {e.buy, e.sell} = {task[w].tid, o.id}
    BY <1>6, <2>2, TradeSides DEF Match, AnswersInv
  <2>4. task[w].tid = NoId \/ task[w].tid \in Id(placed)
    BY DEF AnswersInv, Inv, OrderInvariant, TasksInv, TaskInv, IdOK, Id
  <2>5. exec \in Seq(Exec) /\ cancel' = cancel
    BY <1>1, <1>6 DEF TablesOK, Match
  <2>6. ASSUME NEW i \in DOMAIN exec'
        PROVE  {exec'[i].buy, exec'[i].sell} \subseteq Id(placed)' \cup {NoId}
    <3>1. (i \in DOMAIN exec /\ exec'[i] = exec[i]) \/ exec'[i] = e
      BY <2>1, <2>2, <2>3, <2>5, Appended
    <3>2. QED BY <1>1, <1>2, <1>4, <2>3, <2>4, <3>1 DEF LogsPlaced
  <2>7. QED BY <1>1, <1>2, <2>5, <2>6 DEF LogsPlaced
<1>7. CASE CommitCancel(w)
  <2>1. exec' = exec
    BY <1>7 DEF CommitCancel, tables
  <2>2. CASE UNCHANGED tables
    BY <1>3, <2>2 DEF tables
  <2>3. ASSUME NEW o \in task[w].rows,
               cancel' = Append(cancel, [acct |-> o.acct, id |-> o.id, sym |-> o.sym,
                                         amount |-> o.amount])
        PROVE  LogsPlaced'
    <3> DEFINE c == [acct |-> o.acct, id |-> o.id, sym |-> o.sym, amount |-> o.amount]
    <3>1. o \in Order
      BY DEF AnswersInv, Inv, TypeOK, TasksOK, Task
    <3>2. c \in Cancelled /\ cancel' = Append(cancel, c) /\ c.id = o.id
      BY <2>3, <3>1 DEF Cancelled, Order
    <3> HIDE DEF c
    <3>3. cancel \in Seq(Cancelled)
      BY <1>1 DEF TablesOK
    <3>4. \A i \in DOMAIN cancel' : (i \in DOMAIN cancel /\ cancel'[i] = cancel[i]) \/ cancel'[i] = c
      BY <3>2, <3>3, Appended
    <3>5. QED BY <1>1, <1>2, <1>4, <2>1, <3>2, <3>4 DEF LogsPlaced
  <2>4. QED BY <1>7, <2>2, <2>3 DEF CommitCancel
<1>8. QED BY <1>5, <1>6, <1>7, Writers

\* What a query knows, for the worker that runs it.
QueryOK(t) ==
  /\ t.pc \in {"account", "trans", "belong"} => t.report = {}
  /\ t.pc = "trans" /\ t.found # {} => Asked(t)
  /\ t.pc = "belong" => Asked(t)
  /\ t.pc = "status" => Asked(t) /\ IsFiniteSet(t.report) /\ FoundSoFar(t)

\* It stays true while other workers move: shares only move from OPEN_ORDER to the
\* tables that are read later.
LEMMA QueryKept ==
  ASSUME AnswersInv, NEW w \in Workers, Receive(w) \/ Step(w), NEW t \in Task, QueryOK(t)
  PROVE  QueryOK(t)'
<1>1. Id(placed) \subseteq Id(placed)'
  BY PlacedKept
<1>2. Asked(t) => Asked(t)'
  BY <1>1 DEF Asked
<1>3. ASSUME Asked(t), NEW p \in placed', p.id = t.req.id
      PROVE  p \in placed
  <2>1. \A q \in placed' : q \in placed \/ q.id = nextId
    BY NewIds DEF AnswersInv, SharesInv
  <2>2. nextId # NoId /\ \A q \in placed : q.id # nextId
    <3>1. nextId \in Nat \ {0}
      BY DEF AnswersInv, Inv, TypeOK, TablesOK
    <3>2. \A q \in placed : q.id \in Int /\ q.id < nextId
      BY NewIds DEF AnswersInv, SharesInv
    <3>3. QED BY <3>1, <3>2 DEF NoId
  <2>3. QED BY <1>3, <2>1, <2>2 DEF Asked, Id
<1>4. ASSUME IsFiniteSet(t.report)
      PROVE  ReportShares(t.report) \in Int
  <2> DEFINE f == [e \in t.report |-> Abs(e.shares)]
  <2>1. \A e \in t.report : e \in Entry
    BY DEF Task
  <2>2. \A e \in t.report : Abs(e.shares) \in Int
    BY <2>1, AbsFacts DEF Entry
  <2>3. Summable(f)
    BY <1>4, <2>2 DEF Summable
  <2>4. QED BY <2>3, SumType DEF ReportShares
<1>5. \A p \in placed : Abs(p.amount) \in Int
  BY AbsFacts DEF AnswersInv, Inv, TypeOK, TablesOK, Order
<1>6. \A id : /\ ExecShares(id) \in Int /\ ExecShares(id)' \in Int
             /\ ExecShares(id)' >= ExecShares(id)
             /\ CancelShares(id) \in Int /\ CancelShares(id)' \in Int
             /\ CancelShares(id)' >= CancelShares(id)
  BY SharesGrow DEF AnswersInv, SharesInv
<1>7. PICK n : n = ReportShares(t.report)
  OBVIOUS
<1>8. ASSUME Asked(t), IsFiniteSet(t.report), FoundSoFar(t)
      PROVE  FoundSoFar(t)'
  <2>1. n \in Int
    BY <1>4, <1>7, <1>8
  <2>2. ASSUME t.look = 2, NEW p \in placed', p.id = t.req.id
        PROVE  /\ \A e \in t.report : e.state = "open"
               /\ Abs(p.amount) <= n + CancelShares(p.id)' + ExecShares(p.id)'
    <3>1. /\ p \in placed /\ \A e \in t.report : e.state = "open"
          /\ Abs(p.amount) <= n + CancelShares(p.id) + ExecShares(p.id)
      BY <1>3, <1>7, <1>8, <2>2 DEF FoundSoFar
    <3>2. QED BY <1>5, <1>6, <2>1, <3>1
  <2>3. ASSUME t.look = 3, NEW p \in placed', p.id = t.req.id
        PROVE  /\ \A e \in t.report : e.state \in {"open", "canceled"}
               /\ Abs(p.amount) <= n + ExecShares(p.id)'
    <3>1. /\ p \in placed /\ \A e \in t.report : e.state \in {"open", "canceled"}
          /\ Abs(p.amount) <= n + ExecShares(p.id)
      BY <1>3, <1>7, <1>8, <2>3 DEF FoundSoFar
    <3>2. QED BY <1>5, <1>6, <2>1, <3>1
  <2>4. t.look = 1 => t.report = {}
    BY <1>8 DEF FoundSoFar
  <2>5. QED BY <1>7, <2>2, <2>3, <2>4 DEF FoundSoFar
<1>9. QED BY <1>2, <1>8 DEF QueryOK

\* A query's own steps.
LEMMA QueryStepOK ==
  ASSUME AnswersInv, NEW w \in Workers, Receive(w) \/ Step(w), NEW u, u = task'[w]
  PROVE  QueryOK(u)'
<1> DEFINE t == task[w]
<1>1. /\ task \in [Workers -> Task] /\ t \in Task /\ TypeOK /\ TaskOK(t) /\ QueryOK(t)
      /\ t.pc = "account" => t.found = {}
  BY DEF AnswersInv, Inv, TypeOK, TasksOK, AnswersInvariant, QueriesOK, QueryOK, OInv,
     OwnerInvariant, CheckOK
<1>2. CASE u.pc \notin {"account", "trans", "belong", "status"}
  BY <1>2 DEF QueryOK
<1>3. CASE u.pc = "account"
  BY <1>3, QueryPlaces DEF QueryOK, AnswersInv
<1>4. CASE u.pc = "trans" /\ t.pc = "account" /\ u.report = t.report /\ u.found = t.found
  BY <1>1, <1>4 DEF QueryOK
<1>5. CASE QueryStep(w)
  <2>0. /\ UNCHANGED <<tables, placed>> /\ Id(placed)' = Id(placed)
        /\ t.pc \in {"trans", "belong", "status"}
    BY <1>5 DEF QueryStep, Look, CheckTransID, CheckBelong, QueryOrder, At, tables, Id
  <2>1. CASE Look(w)
    <3>1. /\ u.pc = t.pc /\ t.pc \in {"trans", "belong"} /\ u.report = t.report /\ u.req = t.req
          /\ u.found = t.found \cup OwnersIn(t.req.id)[t.look] /\ t.look \in 1 .. 4
      BY <1>1, <2>1 DEF Look, Task, Seen
    <3>2. u.pc = "trans" /\ u.found # {} => Asked(t)
      BY <1>1, <3>1, FoundAsked DEF QueryOK, Asked
    <3>3. u.pc = "belong" => Asked(t)
      BY <1>1, <3>1 DEF QueryOK
    <3>4. Asked(t) => Asked(u)'
      BY <2>0, <3>1 DEF Asked
    <3>5. QED BY <1>1, <3>1, <3>2, <3>3, <3>4 DEF QueryOK
  <2>2. CASE CheckTransID(w)
    <3>1. CASE Reject(w)
      <4>1. u.pc \in {"idle", "account"}
        BY <3>1, ReplyTask DEF Reject, AnswersInv, Inv
      <4>2. QED BY <1>2, <1>3, <4>1
    <3>2. CASE Seen(w) # {} /\ Enter(w, "belong")
      <4>1. u.pc = "belong" /\ u.report = t.report /\ u.req = t.req /\ t.pc = "trans"
        BY <1>1, <2>2, <3>2 DEF Enter, Task, CheckTransID, At
      <4>2. Asked(t)
        <5>1. t.found # {} \/ OwnersIn(t.req.id)[t.look] # {}
          BY <3>2 DEF Seen
        <5>2. t.look \in 1 .. 4
          BY <1>1 DEF Task
        <5>3. QED BY <1>1, <4>1, <5>1, <5>2, FoundAsked DEF QueryOK, Asked
      <4>3. Asked(u)'
        BY <2>0, <4>1, <4>2 DEF Asked
      <4>4. QED BY <1>1, <4>1, <4>3 DEF QueryOK
    <3>3. QED BY <2>2, <3>1, <3>2 DEF CheckTransID
  <2>3. CASE CheckBelong(w)
    <3>1. CASE Reject(w)
      <4>1. u.pc \in {"idle", "account"}
        BY <3>1, ReplyTask DEF Reject, AnswersInv, Inv
      <4>2. QED BY <1>2, <1>3, <4>1
    <3>2. ASSUME NEW pc \in {"status", "open"}, Enter(w, pc)
          PROVE  QueryOK(u)'
      <4>1. /\ u.pc = pc /\ u.report = t.report /\ u.req = t.req /\ u.look = 1
            /\ t.pc = "belong"
        BY <1>1, <2>3, <3>2 DEF Enter, Task, CheckBelong, At
      <4>2. u.report = {} /\ IsFiniteSet(u.report) /\ Asked(t)
        BY <1>1, <4>1, FS_EmptySet DEF QueryOK
      <4>3. Asked(u)' /\ FoundSoFar(u)'
        BY <2>0, <4>1, <4>2 DEF Asked, FoundSoFar
      <4>4. QED BY <3>2, <4>1, <4>2, <4>3 DEF QueryOK
    <3>3. QED BY <2>3, <3>1, <3>2 DEF CheckBelong
  <2>4. CASE QueryOrder(w) /\ ~(t.look < 3)
    <3>1. u.pc \in {"idle", "account"}
      BY <2>4, ReplyTask DEF QueryOrder, AnswersInv, Inv
    <3>2. QED BY <1>2, <1>3, <3>1
  <2>5. CASE QueryOrder(w) /\ t.look < 3
    <3>0. /\ t.pc = "status" /\ t.look \in {1, 2}
          /\ task' = [task EXCEPT ![w] =
                        [task[w] EXCEPT !.report = t.report \cup StatusIn(t.req.id)[t.look],
                                        !.look = t.look + 1]]
      <4>1. t.pc = "status" /\ t.look \in 1 .. 4 /\ t.look < 3
        BY <1>1, <2>5 DEF QueryOrder, At, Task
      <4>2. t.look \in {1, 2}
        BY <4>1
      <4>3. QED BY <2>5, <4>1, <4>2 DEF QueryOrder
    <3>1. /\ t.pc = "status" /\ u.pc = "status" /\ u.req = t.req /\ u.look = t.look + 1
          /\ u.report = t.report \cup StatusIn(t.req.id)[t.look]
          /\ t.look \in {1, 2}
      <4>1. u = [t EXCEPT !.report = t.report \cup StatusIn(t.req.id)[t.look],
                          !.look = t.look + 1]
        BY <1>1, <3>0
      <4>2. QED BY <1>1, <3>0, <4>1 DEF Task
    <3>2. Asked(t) /\ IsFiniteSet(t.report) /\ FoundSoFar(t) /\ t.report \in SUBSET Entry
      BY <1>1, <3>1 DEF QueryOK, Task
    <3>3. Asked(u)'
      BY <2>0, <3>1, <3>2 DEF Asked
    <3>4. /\ placed' = placed
          /\ \A id : ExecShares(id)' = ExecShares(id) /\ CancelShares(id)' = CancelShares(id)
      BY <2>0, LogsSame DEF tables
    <3>5. PICK R : R = u.report
      OBVIOUS
    <3>6. CASE t.look = 1
      <4>1. R = StatusIn(t.req.id)[1]
        BY <3>1, <3>2, <3>5, <3>6 DEF FoundSoFar
      <4>2. /\ IsFiniteSet(R) /\ \A e \in R : e.state = "open"
            /\ \A p \in placed : p.id = t.req.id =>
                 Abs(p.amount) <= ReportShares(R) + CancelShares(p.id) + ExecShares(p.id)
        BY <4>1, OpenReport DEF AnswersInv, SharesInv
      <4>3. u.look = 2
        BY <3>1, <3>6
      <4>4. ASSUME NEW p \in placed', p.id = u.req.id
            PROVE  /\ \A e \in u.report : e.state = "open"
                   /\ Abs(p.amount) <= ReportShares(u.report) + CancelShares(p.id)'
                                        + ExecShares(p.id)'
        <5>1. /\ p \in placed /\ p.id = t.req.id /\ u.report = R
              /\ CancelShares(p.id)' = CancelShares(p.id) /\ ExecShares(p.id)' = ExecShares(p.id)
          BY <3>1, <3>4, <3>5, <4>4
        <5>2. QED BY <4>2, <5>1
      <4>5. FoundSoFar(u)'
        BY <4>3, <4>4 DEF FoundSoFar
      <4>6. QED BY <3>1, <3>3, <3>5, <4>2, <4>5 DEF QueryOK
    <3>7. CASE t.look = 2
      <4>1. PICK Q : Q = t.report
        OBVIOUS
      <4>2. R = Q \cup StatusIn(t.req.id)[2]
        BY <3>1, <3>5, <3>7, <4>1
      <4>3. u.look = 3
        BY <3>1, <3>7
      <4>4. CASE t.req.id \in Id(placed)
        <5>1. PICK p \in placed : p.id = t.req.id
          BY <4>4 DEF Id
        <5>2. \A q \in placed : q.id = t.req.id => q = p
          BY <5>1 DEF AnswersInv, Inv, OrderInvariant, PlacedInv
        <5>3. /\ \A e \in Q : e.state = "open"
              /\ Abs(p.amount) <= ReportShares(Q) + CancelShares(p.id) + ExecShares(p.id)
          BY <3>2, <3>7, <4>1, <5>1 DEF FoundSoFar
        <5>4. /\ IsFiniteSet(R) /\ \A e \in R : e.state \in {"open", "canceled"}
              /\ ReportShares(R) = ReportShares(Q) + CancelShares(t.req.id)
          BY <1>1, <3>2, <4>1, <4>2, <5>3, CancelReport DEF TypeOK
        <5>5. Abs(p.amount) <= ReportShares(R) + ExecShares(p.id)
          BY <5>1, <5>3, <5>4
        <5>6. ASSUME NEW q \in placed', q.id = u.req.id
              PROVE  /\ \A e \in u.report : e.state \in {"open", "canceled"}
                     /\ Abs(q.amount) <= ReportShares(u.report) + ExecShares(q.id)'
          <6>1. q = p /\ u.report = R /\ ExecShares(p.id)' = ExecShares(p.id)
            BY <3>1, <3>4, <3>5, <5>2, <5>6
          <6>2. QED BY <5>4, <5>5, <6>1
        <5>7. FoundSoFar(u)'
          BY <4>3, <5>6 DEF FoundSoFar
        <5>8. QED BY <3>1, <3>3, <3>5, <5>4, <5>7 DEF QueryOK
      <4>5. CASE t.req.id \notin Id(placed)
        <5>1. \A p \in placed' : p.id # u.req.id
          BY <3>1, <3>4, <4>5 DEF Id
        <5>2. FoundSoFar(u)'
          BY <4>3, <5>1 DEF FoundSoFar
        <5>3. IsFiniteSet(R)
          <6>1. StatusIn(t.req.id)[2] = {[state |-> "canceled", row |-> i, shares |-> cancel[i].amount] :
                                           i \in CancelRows(t.req.id)}
            BY DEF StatusIn, CancelRows
          <6>2. CancelRows(t.req.id) = {}
            BY <3>1, <4>5 DEF CancelRows, AnswersInv, AnswersInvariant, LogsPlaced
          <6>3. R = Q
            BY <4>2, <6>1, <6>2
          <6>4. QED BY <3>2, <4>1, <6>3
        <5>4. QED BY <3>1, <3>3, <3>5, <5>2, <5>3 DEF QueryOK
      <4>6. QED BY <4>4, <4>5
    <3>8. QED BY <3>1, <3>6, <3>7
  <2>6. QED BY <1>5, <2>1, <2>2, <2>3, <2>4, <2>5 DEF QueryStep
<1>6. QED BY <1>2, <1>3, <1>4, <1>5, QueryPlaces DEF AnswersInv


\* What the last SELECT completes is the answer to a query about a placed order.
LEMMA LastReport ==
  ASSUME AnswersInv, NEW w \in Workers, QueryOrder(w), ~(task[w].look < 3),
         task[w].req.id # NoId
  PROVE  \E p \in placed : /\ p.id = task[w].req.id
                           /\ Abs(p.amount) <=
                                ReportShares(task[w].report \cup StatusIn(task[w].req.id)[3])
<1> DEFINE t == task[w]
<1>1. /\ t \in Task /\ TaskOK(t) /\ QueryOK(t) /\ TablesOK /\ FillsPositive
      /\ t.pc = "status"
  BY DEF AnswersInv, Inv, TypeOK, TasksOK, AnswersInvariant, QueriesOK, QueryOK, QueryOrder, At,
     SharesInvariant
<1>2. t.look = 3 /\ Asked(t) /\ IsFiniteSet(t.report) /\ FoundSoFar(t) /\ t.report \in SUBSET Entry
  <2>1. t.look < 4 /\ t.look \in 1 .. 4
    BY <1>1 DEF TaskOK, Task
  <2>2. QED BY <1>1, <2>1 DEF QueryOK, Task
<1>3. PICK p \in placed : p.id = t.req.id
  BY <1>2 DEF Asked, Id
<1>4. /\ \A e \in t.report : e.state \in {"open", "canceled"}
      /\ Abs(p.amount) <= ReportShares(t.report) + ExecShares(p.id)
  BY <1>2, <1>3 DEF FoundSoFar
<1>5. ReportShares(t.report \cup StatusIn(t.req.id)[3]) = ReportShares(t.report) + ExecShares(t.req.id)
  BY <1>1, <1>2, <1>4, ExecReport
<1>6. QED BY <1>3, <1>4, <1>5

LEMMA CompleteStep ==
  ASSUME AnswersInv, NEW w \in Workers, Receive(w) \/ Step(w)
  PROVE  CompleteAnswers'
<1>1. /\ TypeOK /\ CompleteAnswers /\ replies \in Seq(Answer) /\ task[w] \in Task
      /\ placed \subseteq placed' /\ TaskOK(task[w])
  BY PlacedKept DEF AnswersInv, AnswersInvariant, Inv, OrderInvariant, RepliesInv, TypeOK, TasksOK
<1>2. ASSUME NEW ok \in BOOLEAN, NEW val \in Int, NEW report \in SUBSET Entry,
             Reply(w, ok, val, report), task[w].req \in SubRequest,
             ok /\ task[w].req.op = "query" /\ task[w].req.id # NoId =>
               \E p \in placed : p.id = task[w].req.id /\ Abs(p.amount) <= ReportShares(report)
      PROVE  CompleteAnswers'
  <2> DEFINE new == [req |-> task[w].req, at |-> task[w].pc, ok |-> ok, val |-> val,
                     report |-> report]
  <2>1. new \in Answer /\ replies' = Append(replies, new)
    BY <1>1, <1>2 DEF Reply, Answer, Task
  <2>2. new.req = task[w].req /\ new.ok = ok /\ new.report = report
    OBVIOUS
  <2> HIDE DEF new
  <2>3. ASSUME NEW i \in DOMAIN replies', replies'[i].ok, replies'[i].req.op = "query",
               replies'[i].req.id # NoId
        PROVE  \E o \in placed' : /\ o.id = replies'[i].req.id
                                  /\ Abs(o.amount) <= ReportShares(replies'[i].report)
    <3>1. (i \in DOMAIN replies /\ replies'[i] = replies[i]) \/ replies'[i] = new
      BY <1>1, <2>1, Appended
    <3>2. CASE replies'[i] = new
      BY <1>1, <1>2, <2>2, <2>3, <3>2
    <3>3. CASE i \in DOMAIN replies /\ replies'[i] = replies[i]
      BY <1>1, <2>3, <3>3 DEF CompleteAnswers
    <3>4. QED BY <3>1, <3>2, <3>3
  <2>4. QED BY <2>3 DEF CompleteAnswers
<1>3. CASE replies' = replies
  BY <1>1, <1>3 DEF CompleteAnswers
<1>4. task[w].pc # "idle" => task[w].req \in SubRequest
  BY <1>1 DEF TaskOK
<1>5. 0 \in Int /\ {} \in SUBSET Entry /\ TRUE \in BOOLEAN /\ FALSE \in BOOLEAN
  OBVIOUS
<1>6. CASE Reject(w) /\ task[w].pc # "idle"
  <2>1. Reply(w, FALSE, 0, {})
    BY <1>6, Zenon DEF Reject
  <2>2. QED BY <1>2, <1>4, <1>5, <1>6, <2>1, Zenon
<1>7. ASSUME NEW val \in Int, NEW report \in SUBSET Entry, Reply(w, TRUE, val, report),
             task[w].pc # "idle", task[w].req.op # "query"
      PROVE  CompleteAnswers'
  BY <1>2, <1>4, <1>5, <1>7, Zenon
<1>8. CASE CreateStep(w)
  <2>1. Reply(w, TRUE, 0, {}) /\ task[w].pc # "idle" /\ task[w].req.op # "query"
    BY <1>1, <1>8 DEF CreateStep, CreateAccount, CreatePosition, AbandonPosition, At, TaskOK
  <2>2. QED BY <1>5, <1>7, <2>1
<1>9. CASE ReplyOpened(w)
  <2>1. task[w].pc \in {"done", "match"} /\ task[w].tid \in Int
    BY <1>1, <1>9 DEF ReplyOpened, At, Task
  <2>2. task[w].req.op # "query" /\ task[w].pc # "idle" /\ Reply(w, TRUE, task[w].tid, {})
    BY <1>1, <1>9, <2>1, OrderTask DEF ReplyOpened, OrderPCs
  <2>3. QED BY <1>5, <1>7, <2>1, <2>2
<1>10. CASE AbandonCancel(w) \/ ReadExecuted(w)
  <2>1. /\ task[w].pc \in {"cancel", "executed"} /\ task[w].req.op = "cancel"
        /\ task[w].req.id \in Int /\ task[w].report \in SUBSET Entry
    BY <1>1, <1>10, StatusTask
       DEF AbandonCancel, ReadExecuted, At, TaskOK, StatusPCs, CancelPCs, Task
  <2>2. task[w].report \cup Executed(task[w].req.id) \in SUBSET Entry
    BY <1>1, <2>1, FoundType
  <2>3. \E report \in SUBSET Entry : Reply(w, TRUE, 0, report)
    BY <1>10, <2>1, <2>2 DEF AbandonCancel, ReadExecuted
  <2>4. QED BY <1>5, <1>7, <2>1, <2>3
<1>11. CASE QueryOrder(w)
  <2>1. CASE task[w].look < 3
    BY <1>3, <1>11, <2>1 DEF QueryOrder
  <2>2. CASE ~(task[w].look < 3)
    <3> DEFINE report == task[w].report \cup StatusIn(task[w].req.id)[3]
    <3>1. task[w].pc = "status" /\ task[w].look = 3 /\ task[w].req.id \in Int
      <4>1. task[w].pc = "status" /\ task[w].look \in 1 .. 4
        BY <1>1, <1>11 DEF QueryOrder, At, Task
      <4>2. task[w].look < 4
        BY <1>1, <4>1 DEF TaskOK
      <4>3. task[w].req.id \in Int
        BY <1>1, <4>1, StatusTask DEF StatusPCs
      <4>4. QED BY <2>2, <4>1, <4>2, <4>3
    <3>2. report \in SUBSET Entry
      BY <1>1, <3>1, FoundType DEF Task
    <3>3. Reply(w, TRUE, 0, report)
      BY <1>11, <2>2, <3>1 DEF QueryOrder
    <3>4. task[w].req.id # NoId =>
            \E p \in placed : p.id = task[w].req.id /\ Abs(p.amount) <= ReportShares(report)
      BY <1>11, <2>2, LastReport
    <3> HIDE DEF report
    <3>5. QED BY <1>2, <1>4, <1>5, <3>1, <3>2, <3>3, <3>4
  <2>3. QED BY <2>1, <2>2
<1>12. \/ replies' = replies \/ (Reject(w) /\ task[w].pc # "idle") \/ CreateStep(w)
       \/ ReplyOpened(w) \/ QueryOrder(w) \/ AbandonCancel(w) \/ ReadExecuted(w)
  <2>1. CASE Receive(w) \/ CheckAccount(w) \/ CreateStep(w)
    BY <2>1 DEF Receive, CheckAccount, At
  <2>2. CASE OrderStep(w)
    BY <2>2 DEF OrderStep, CheckFunds, BeginOrder, CommitOrder, AbandonOrder, LookupId,
       SelectRows, LockRows, AbandonSelect, Match, AbandonMatch, At
  <2>3. CASE QueryStep(w) \/ CancelStep(w)
    BY <2>3 DEF QueryStep, Look, CheckTransID, CheckBelong, CancelStep, CheckIfOpen,
       ReadOrder, CommitCancel, At
  <2>4. QED BY <2>1, <2>2, <2>3 DEF Step
<1>13. QED BY <1>3, <1>6, <1>8, <1>9, <1>10, <1>11, <1>12

LEMMA InitAnswers == Init => AnswersInvariant
<1> SUFFICES ASSUME Init PROVE AnswersInvariant
  OBVIOUS
<1>1. /\ exec = << >> /\ cancel = << >> /\ replies = << >>
      /\ \A w \in Workers : task[w].pc = "idle" /\ task[w].rows = {}
  BY DEF Init, Idle
<1>2. QED BY <1>1 DEF AnswersInvariant, RowsPlaced, LogsPlaced, QueriesOK, CompleteAnswers

LEMMA NextAnswers == AnswersInv /\ [Next]_vars => AnswersInvariant'
<1> SUFFICES ASSUME AnswersInv, [Next]_vars PROVE AnswersInvariant'
  OBVIOUS
<1>1. CASE UNCHANGED vars
  <2>1. UNCHANGED <<placed, exec, cancel, replies, task>>
    BY <1>1 DEF vars, tables
  <2>2. \A id : ExecShares(id)' = ExecShares(id) /\ CancelShares(id)' = CancelShares(id)
    BY <2>1, LogsSame
  <2>3. RowsPlaced' /\ LogsPlaced' /\ CompleteAnswers'
    BY <2>1 DEF AnswersInv, AnswersInvariant, RowsPlaced, LogsPlaced, CompleteAnswers, Id
  <2>4. QueriesOK'
    BY <2>1, <2>2 DEF AnswersInv, AnswersInvariant, QueriesOK, Asked, FoundSoFar, Id
  <2>5. QED BY <2>3, <2>4 DEF AnswersInvariant
<1>2. ASSUME NEW w \in Workers, Receive(w) \/ Step(w)
      PROVE  AnswersInvariant'
  <2>1. RowsPlaced'
    BY <1>2, RowsPlacedStep DEF AnswersInv, AnswersInvariant
  <2>2. ASSUME NEW v \in Workers
        PROVE  QueryOK(task[v])'
    <3>1. PICK u : u = task'[v]
      OBVIOUS
    <3>2. CASE v = w
      <4>1. QueryOK(u)'
        BY <1>2, <3>1, <3>2, QueryStepOK
      <4>2. QED BY <3>1, <4>1 DEF QueryOK, Asked, FoundSoFar, Id
    <3>3. CASE v # w
      <4>1. u = task[v]
        BY <1>2, <3>1, <3>3, OwnTask DEF AnswersInv
      <4>2. u \in Task /\ QueryOK(u)
        BY <4>1 DEF AnswersInv, Inv, TypeOK, TasksOK, AnswersInvariant, QueriesOK, QueryOK
      <4>3. QueryOK(u)'
        BY <1>2, <4>2, QueryKept
      <4>4. QED BY <3>1, <4>3 DEF QueryOK, Asked, FoundSoFar, Id
    <3>4. QED BY <3>2, <3>3
  <2>3. QueriesOK'
    BY <2>2 DEF QueriesOK, QueryOK
  <2>4. QED BY <1>2, <2>1, <2>3, LogsStep, CompleteStep DEF AnswersInvariant
<1>3. QED BY <1>1, <1>2 DEF Next

\* A <status> answer leaves out no share of the order it is about, whatever fills
\* and cancellations commit between its three SELECTs and its two checks, under
\* the conditions in which no share disappears from the tables.
THEOREM AnswersComplete ==
  ASSUME SameSecond = FALSE, MayAbort = FALSE
  PROVE  Spec => []CompleteAnswers
<1>1. Inv /\ OInv /\ SharesInvariant /\ AnswersInvariant /\ [Next]_vars => AnswersInvariant'
  BY NextAnswers DEF AnswersInv
<1>2. Spec => []AnswersInvariant
  BY <1>1, Basis, SharesHold, InitAnswers, PTL DEF Spec
<1>3. AnswersInvariant => CompleteAnswers
  BY DEF AnswersInvariant
<1>4. QED BY <1>2, <1>3, PTL
=============================================================================
