--------------------------- MODULE DatabaseProofs ---------------------------
(***************************************************************************)
(* The shared connection implements the store with atomic methods, for any *)
(* methods, statements and tables, and any number of faults; and what the  *)
(* statements of PoolDatabase make of its tables, for any miners, blocks,  *)
(* credits and shares.                                                     *)
(***************************************************************************)
EXTENDS Database, SumLemmas, TLAPS

-----------------------------------------------------------------------------
(* After is defined by recursion over the statements of a method: such a   *)
(* function exists.  The argument is a least counterexample.               *)

\* f holds the tables after each of the first k statements of m.
Unfolds(f, k, m, t) ==
    f = [i \in 0 .. k |-> IF i = 0 THEN t ELSE Execute(m, i, f[i - 1])]

\* Whatever the statements do, they can be carried out one after the other.
LEMMA AfterExists ==
    ASSUME NEW m, NEW t, NEW n \in Nat
    PROVE  \E f : Unfolds(f, n, m, t)
<1> DEFINE S == {k \in Nat : ~ \E f : Unfolds(f, k, m, t)}
<1>1. SUFFICES ASSUME S # {} PROVE FALSE
  OBVIOUS
<1>2. S \in SUBSET Nat
  OBVIOUS
<1>3. PICK k \in S : \A j \in S : ~ (j < k)
  <2> HIDE DEF S
  <2> QED
    BY <1>1, <1>2, Least
<1>4. CASE k = 0
  <2> DEFINE f == [i \in 0 .. 0 |-> t]
  <2>1. Unfolds(f, 0, m, t)
    BY DEF Unfolds
  <2> QED
    BY <1>4, <2>1
<1>5. CASE k # 0
  <2>1. PICK g : Unfolds(g, k - 1, m, t)
    BY <1>3, <1>5
  <2> DEFINE f == [i \in 0 .. k |-> IF i = 0 THEN t
                                    ELSE Execute(m, i, g[i - 1])]
  <2>2. \A i \in 0 .. k - 1 : g[i] = f[i]
    BY <2>1 DEF Unfolds
  <2>3. \A i \in 0 .. k : i # 0 => g[i - 1] = f[i - 1]
    <3> HIDE DEF f
    <3>1. k \in Nat
      OBVIOUS
    <3>2. \A i \in 0 .. k : i # 0 => i - 1 \in 0 .. k - 1
      BY <3>1
    <3> QED
      BY <2>2, <3>2
  <2>4. f = [i \in 0 .. k |-> IF i = 0 THEN t ELSE Execute(m, i, f[i - 1])]
    BY <2>3
  <2>5. Unfolds(f, k, m, t)
    BY <2>4 DEF Unfolds
  <2> QED
    BY <2>5
<1> QED
  BY <1>4, <1>5

LEMMA AfterUnfolds ==
    ASSUME NEW m \in Method, NEW t
    PROVE  /\ After(m, t)[0] = t
           /\ \A i \in 1 .. Statements(m) :
                 After(m, t)[i] = Execute(m, i, After(m, t)[i - 1])
<1>1. Statements(m) \in Nat
  BY ConnectionAssumption
<1>2. \E f : Unfolds(f, Statements(m), m, t)
  BY <1>1, AfterExists
<1>3. Unfolds(After(m, t), Statements(m), m, t)
  BY <1>2 DEF Unfolds, After
<1> QED
  BY <1>1, <1>3 DEF Unfolds

-----------------------------------------------------------------------------
(* The invariant: while a method runs, the tables are those it found after *)
(* as many of its statements as it has executed; otherwise the connection  *)
(* shows what every thread has seen.                                       *)

Running ==
    holder # Nobody =>
        /\ ready = TRUE
        /\ holder \in Method
        /\ next \in 1 .. Statements(holder) + 1
        /\ view = After(holder, seen)[next - 1]

Unlocked == holder = Nobody => seen = view

ConnectionInv == Running /\ Unlocked

\* The invariant holds in the beginning.
LEMMA InitConnection == Init => ConnectionInv
  BY DEF Init, ConnectionInv, Running, Unlocked

\* Every step of the connection preserves it: the one that executes a
\* statement by the definition of After.
LEMMA NextConnection == ConnectionInv /\ [Next]_connection => ConnectionInv'
<1> SUFFICES ASSUME ConnectionInv, [Next]_connection PROVE ConnectionInv'
  OBVIOUS
<1> USE DEF ConnectionInv, Unlocked
<1>1. ASSUME NEW tables \in Tables, Autocommit(tables) PROVE ConnectionInv'
  BY <1>1 DEF Autocommit, Running
<1>2. CASE Open
  BY <1>2 DEF Open, Running
<1>3. ASSUME NEW m \in Method, Call(m) PROVE ConnectionInv'
  <2>1. /\ ready' = TRUE /\ holder' = m /\ next' = 1 /\ seen' = view'
        /\ m # Nobody
    BY <1>3, ConnectionAssumption DEF Call, Running
  <2>2. next' \in 1 .. Statements(holder') + 1
    BY <2>1, ConnectionAssumption
  <2>3. view' = After(holder', seen')[next' - 1]
    BY <2>1, AfterUnfolds
  <2> QED
    BY <2>1, <2>2, <2>3 DEF Running
<1>4. CASE Step
  <2>1. /\ ready /\ holder \in Method /\ holder # Nobody
        /\ next \in 1 .. Statements(holder)
        /\ view = After(holder, seen)[next - 1]
        /\ Statements(holder) \in Nat
    BY <1>4, ConnectionAssumption DEF Step, Running
  <2>2. /\ view' = Execute(holder, next, view)
        /\ next' = next + 1
        /\ ready' = ready /\ holder' = holder /\ seen' = seen
    BY <1>4 DEF Step
  <2>3. After(holder, seen)[next] = view'
    BY <2>1, <2>2, AfterUnfolds
  <2>4. next' - 1 = next /\ next' \in 1 .. Statements(holder') + 1
    BY <2>1, <2>2
  <2> QED
    BY <2>1, <2>2, <2>3, <2>4 DEF Running
<1>5. CASE Return
  BY <1>5 DEF Return, Release, Running
<1>6. CASE Refused
  BY <1>6 DEF Refused, Release, Running
<1>7. CASE CommitRefused
  BY <1>7 DEF CommitRefused, Release, Running
<1>8. CASE RolledBack
  BY <1>8 DEF RolledBack, Release, Running
<1>9. CASE Crash
  BY <1>9 DEF Crash, Release, Running
<1>10. CASE UNCHANGED connection
  BY <1>10 DEF connection, Running
<1> QED
  BY <1>1, <1>2, <1>3, <1>4, <1>5, <1>6, <1>7, <1>8, <1>9, <1>10
  DEF Next, Raise

-----------------------------------------------------------------------------
(* Every step is a step of the store or leaves it as it is.                *)

\* A method that ends has had its whole effect on the tables it found.
LEMMA EndedIsEffect ==
    ASSUME ConnectionInv, Ended
    PROVE  holder \in Method /\ view = Effect(holder, seen)
<1>1. /\ holder \in Method /\ next = Statements(holder) + 1
      /\ view = After(holder, seen)[next - 1]
      /\ Statements(holder) \in Nat
  BY ConnectionAssumption DEF ConnectionInv, Running, Ended
<1>2. next - 1 = Statements(holder)
  BY <1>1
<1> QED
  BY <1>1, <1>2 DEF Effect

LEMMA NextRefines == ConnectionInv /\ [Next]_connection => [Abstract!Next]_(Abstract!store)
<1> SUFFICES ASSUME ConnectionInv, [Next]_connection
             PROVE  Abstract!Next \/ UNCHANGED Abstract!store
  OBVIOUS
<1> USE DEF Abstract!store
<1>1. ASSUME NEW tables \in Tables, Autocommit(tables) PROVE Abstract!Next
  BY <1>1 DEF Autocommit, Abstract!Rearrange, Abstract!Next
<1>2. CASE Open
  BY <1>2 DEF Open, Abstract!Open, Abstract!Next
<1>3. ASSUME NEW m \in Method, Call(m) PROVE UNCHANGED Abstract!store
  BY <1>3 DEF Call, LockIsFree, ConnectionInv, Unlocked
<1>4. CASE Step
  BY <1>4 DEF Step, Uncommitted
<1>5. CASE Return
  <2>1. holder \in Method /\ view = Effect(holder, seen)
    BY <1>5, EndedIsEffect DEF Return
  <2>2. Abstract!Returns(holder)
    BY <1>5, <2>1 DEF Return, Release, Committed, Abstract!Returns
  <2> QED
    BY <2>1, <2>2 DEF Abstract!Next
<1>6. CASE Refused
  <2>1. holder \in Method /\ view = seen
    BY <1>6, AfterUnfolds DEF Refused, ConnectionInv, Running
  <2>2. Abstract!Raises(holder)
    BY <1>6, <2>1 DEF Refused, Release, Abstract!Raises
  <2> QED
    BY <2>1, <2>2 DEF Abstract!Next
<1>7. CASE CommitRefused
  <2>1. holder \in Method /\ view = Effect(holder, seen)
    BY <1>7, EndedIsEffect DEF CommitRefused
  <2>2. Abstract!Raises(holder)
    BY <1>7, <2>1 DEF CommitRefused, Release, Abstract!Raises
  <2> QED
    BY <2>1, <2>2 DEF Abstract!Next
<1>8. CASE RolledBack
  <2>1. holder \in Method
    BY <1>8 DEF RolledBack, ConnectionInv, Running
  <2>2. Abstract!Raises(holder)
    BY <1>8 DEF RolledBack, Release, Abstract!Raises
  <2> QED
    BY <2>1, <2>2 DEF Abstract!Next
<1>9. CASE Crash
  BY <1>9 DEF Crash, Release, Abstract!Restart, Abstract!Next
<1>10. CASE UNCHANGED connection
  BY <1>10 DEF connection
<1> QED
  BY <1>1, <1>2, <1>3, <1>4, <1>5, <1>6, <1>7, <1>8, <1>9, <1>10
  DEF Next, Raise

LEMMA InitRefines == Init => Abstract!Init
  BY DEF Init, Abstract!Init

\* Whatever fails, the connection behaves as if methods happened at once: what
\* a method that returned did is in the file, and no other thread and no
\* restart ever finds one half done.
THEOREM ConnectionImplementsAtomicStore == Spec => ImplementsAtomicStore
<1>1. Spec => []ConnectionInv
  BY InitConnection, NextConnection, PTL DEF Spec
<1> QED
  BY <1>1, InitRefines, NextRefines, PTL
  DEF Spec, ImplementsAtomicStore, Abstract!Spec

-----------------------------------------------------------------------------
(* The statements of PoolDatabase.                                         *)

\* The connection is given the methods of this module.
PoolConnection ==
    /\ Method = PoolMethod /\ Tables = PoolTables
    /\ \A m \in PoolMethod : Statements(m) = PoolStatements(m)
    /\ \A m \in PoolMethod : \A i \in Nat : \A db :
          Execute(m, i, db) = PoolExecute(m, i, db)

LEMMA PoolMethods ==
  ASSUME NEW n \in Name, NEW b \in Block, NEW p \in Payments
  PROVE  /\ {<<"upsert_miner", n>>, <<"valid_share", n>>, <<"invalid_share", n>>}
              \subseteq PoolMethod
         /\ {<<"record_block", b>>, <<"create_round", b>>, <<"add_immature", b>>,
             <<"mature_round", b>>} \subseteq PoolMethod
         /\ {<<"record_payout", p>>, <<"debit_balance", p>>} \subseteq PoolMethod
  BY DEF PoolMethod

LEMMA PayeesAre ==
  /\ Len(Payees) \in Nat
  /\ \A i \in 1 .. Len(Payees) : Payees[i] \in Addr
  /\ \A a \in Addr : \E i \in 1 .. Len(Payees) : a = Payees[i]
  /\ \A i, j \in 1 .. Len(Payees) : Payees[i] = Payees[j] => i = j
  BY DatabaseAssumption DEF Addr, IsInjective

LEMMA PoolUnfolds ==
  ASSUME PoolConnection, NEW m \in PoolMethod, NEW db
  PROVE  /\ PoolStatements(m) \in Nat
         /\ Effect(m, db) = After(m, db)[PoolStatements(m)]
         /\ After(m, db)[0] = db
         /\ \A i \in 1 .. PoolStatements(m) :
               After(m, db)[i] = PoolExecute(m, i, After(m, db)[i - 1])
<1>1. m \in Method /\ Statements(m) = PoolStatements(m)
  BY DEF PoolConnection
<1>2. Statements(m) \in Nat
  BY <1>1, ConnectionAssumption
<1>3. \A i \in 1 .. Statements(m) :
         After(m, db)[i] = Execute(m, i, After(m, db)[i - 1])
  BY <1>1, AfterUnfolds
<1>4. After(m, db)[0] = db
  BY <1>1, AfterUnfolds
<1>5. \A i \in 1 .. Statements(m) : i \in Nat
  BY <1>2
<1> QED
  BY <1>1, <1>2, <1>3, <1>4, <1>5 DEF PoolConnection, Effect

LEMMA OneStatement ==
  ASSUME PoolConnection, NEW m \in PoolMethod, PoolStatements(m) = 1, NEW db
  PROVE  Effect(m, db) = PoolExecute(m, 1, db)
<1>1. 1 \in 1 .. 1 /\ 1 - 1 = 0
  OBVIOUS
<1> QED
  BY <1>1, PoolUnfolds

-----------------------------------------------------------------------------
(* What the methods make of the tables.                                    *)

Status == {"none", "immature", "credited"}

LEMMA TableTypes ==
  ASSUME NEW db \in PoolTables
  PROVE  /\ db.layout \in {"absent", "legacy", "canonical"}
         /\ db.columns \in SUBSET Range(Columns)
         /\ db.miners \in Rows /\ db.spare \in BOOLEAN /\ db.copy \in Rows
         /\ db.shares \in [Name -> 0 .. MaxShares]
         /\ db.blocks \in [Block -> Status] /\ db.rounds \in [Block -> Status]
         /\ db.credits \in [Block -> [Addr -> Nat]]
         /\ db.payee \in SUBSET Addr
         /\ db.immature \in [Addr -> Nat] /\ db.balance \in [Addr -> Nat]
         /\ db.paid \in [Addr -> Nat] /\ db.payouts \in [Addr -> Nat]
  BY DEF PoolTables, Status

\* The columns a method writes get their values, the others keep theirs.
MinersSame(e, db) ==
    /\ e.layout = db.layout /\ e.columns = db.columns
    /\ e.spare = db.spare /\ e.copy = db.copy
CountsSame(e, db) == e.miners = db.miners /\ e.shares = db.shares
RoundsSame(e, db) ==
    e.blocks = db.blocks /\ e.rounds = db.rounds /\ e.credits = db.credits
CoinsSame(e, db) ==
    /\ e.payee = db.payee /\ e.immature = db.immature
    /\ e.balance = db.balance /\ e.paid = db.paid /\ e.payouts = db.payouts

LEMMA WriteMiners ==
  ASSUME NEW db \in PoolTables, NEW x \in Rows, NEW y \in [Name -> 0 .. MaxShares]
  PROVE  LET e == [db EXCEPT !.miners = x]
             f == [e EXCEPT !.shares = y]
         IN  /\ e \in PoolTables /\ e.miners = x /\ e.shares = db.shares
             /\ f \in PoolTables /\ f.miners = x /\ f.shares = y
             /\ MinersSame(e, db) /\ RoundsSame(e, db) /\ CoinsSame(e, db)
             /\ MinersSame(f, db) /\ RoundsSame(f, db) /\ CoinsSame(f, db)
  BY DEF PoolTables, MinersSame, RoundsSame, CoinsSame

LEMMA WriteBlocks ==
  ASSUME NEW db \in PoolTables, NEW x \in [Block -> Status]
  PROVE  LET e == [db EXCEPT !.blocks = x]
         IN  /\ e \in PoolTables /\ e.blocks = x
             /\ e.rounds = db.rounds /\ e.credits = db.credits
             /\ MinersSame(e, db) /\ CountsSame(e, db) /\ CoinsSame(e, db)
  BY DEF PoolTables, MinersSame, CountsSame, CoinsSame, Status

LEMMA WriteRounds ==
  ASSUME NEW db \in PoolTables, NEW x \in [Block -> Status]
  PROVE  LET e == [db EXCEPT !.rounds = x]
         IN  /\ e \in PoolTables /\ e.rounds = x
             /\ e.blocks = db.blocks /\ e.credits = db.credits
             /\ MinersSame(e, db) /\ CountsSame(e, db) /\ CoinsSame(e, db)
  BY DEF PoolTables, MinersSame, CountsSame, CoinsSame, Status

LEMMA WriteCredits ==
  ASSUME NEW db \in PoolTables, NEW x \in [Block -> [Addr -> Nat]]
  PROVE  LET e == [db EXCEPT !.credits = x]
         IN  /\ e \in PoolTables /\ e.credits = x
             /\ e.blocks = db.blocks /\ e.rounds = db.rounds
             /\ MinersSame(e, db) /\ CountsSame(e, db) /\ CoinsSame(e, db)
  BY DEF PoolTables, MinersSame, CountsSame, CoinsSame

LEMMA WriteShares ==
  ASSUME NEW db \in PoolTables, NEW y \in [Name -> 0 .. MaxShares]
  PROVE  LET e == [db EXCEPT !.shares = y]
         IN  /\ e \in PoolTables /\ e.shares = y /\ e.miners = db.miners
             /\ MinersSame(e, db) /\ RoundsSame(e, db) /\ CoinsSame(e, db)
  BY DEF PoolTables, MinersSame, RoundsSame, CoinsSame

LEMMA WriteImmature ==
  ASSUME NEW db \in PoolTables, NEW p \in SUBSET Addr, NEW x \in [Addr -> Nat]
  PROVE  LET e == [db EXCEPT !.payee = p, !.immature = x]
         IN  /\ e \in PoolTables /\ e.payee = p
             /\ e.balance = db.balance /\ e.paid = db.paid
             /\ MinersSame(e, db) /\ CountsSame(e, db) /\ RoundsSame(e, db)
  BY DEF PoolTables, MinersSame, CountsSame, RoundsSame

LEMMA WriteBalance ==
  ASSUME NEW db \in PoolTables, NEW x \in [Addr -> Nat], NEW y \in [Addr -> Nat]
  PROVE  LET e == [db EXCEPT !.immature = x, !.balance = y]
         IN  /\ e \in PoolTables /\ e.payee = db.payee
             /\ e.balance = y /\ e.paid = db.paid
             /\ MinersSame(e, db) /\ CountsSame(e, db) /\ RoundsSame(e, db)
  BY DEF PoolTables, MinersSame, CountsSame, RoundsSame

LEMMA WriteDebit ==
  ASSUME NEW db \in PoolTables, NEW x \in [Addr -> Nat], NEW y \in [Addr -> Nat]
  PROVE  LET e == [db EXCEPT !.balance = x, !.paid = y]
         IN  /\ e \in PoolTables /\ e.payee = db.payee
             /\ e.balance = x /\ e.paid = y
             /\ MinersSame(e, db) /\ CountsSame(e, db) /\ RoundsSame(e, db)
  BY DEF PoolTables, MinersSame, CountsSame, RoundsSame

LEMMA WritePayouts ==
  ASSUME NEW db \in PoolTables, NEW x \in [Addr -> Nat]
  PROVE  LET e == [db EXCEPT !.payouts = x]
         IN  /\ e \in PoolTables /\ e.payee = db.payee
             /\ e.balance = db.balance /\ e.paid = db.paid
             /\ MinersSame(e, db) /\ CountsSame(e, db) /\ RoundsSame(e, db)
  BY DEF PoolTables, MinersSame, CountsSame, RoundsSame

\* No miner loses its row or an invalid share.
MinersAhead(e, db) ==
    /\ e.copy = db.copy
    /\ \A n \in Name : db.miners[n] # NoRow =>
          e.miners[n] # NoRow /\ e.miners[n].invalid >= db.miners[n].invalid

LEMMA RowsTyped ==
  ASSUME NEW x \in Rows, NEW n \in Name, x[n] # NoRow
  PROVE  x[n].valid \in 0 .. MaxShares /\ x[n].invalid \in 0 .. MaxShares
  BY DEF Rows, Row

LEMMA UpsertEffect ==
  ASSUME PoolConnection, NEW db \in PoolTables, NEW n \in Name, CountersAgree(db)
  PROVE  LET e == Effect(<<"upsert_miner", n>>, db)
         IN  /\ e \in PoolTables /\ CountersAgree(e) /\ MinersAhead(e, db)
             /\ MinersSame(e, db) /\ RoundsSame(e, db) /\ CoinsSame(e, db)
<1> DEFINE m == <<"upsert_miner", n>>
           zero == [valid |-> 0, invalid |-> 0]
           x == [db.miners EXCEPT ![n] = IF @ = NoRow THEN zero ELSE @]
           e == [db EXCEPT !.miners = x]
<1>1. m \in PoolMethod /\ PoolStatements(m) = 1
  BY DEF PoolMethod, PoolStatements
<1>2. Effect(m, db) = Upserted(db, n)
  BY <1>1, OneStatement DEF PoolExecute
<1>3. Upserted(db, n) = e
  BY DEF Upserted
<1>4. zero \in Row /\ zero # NoRow
  BY DatabaseAssumption DEF Row
<1>5. db.miners \in Rows /\ db.shares \in [Name -> 0 .. MaxShares]
  BY TableTypes
<1>6. x \in Rows
  BY <1>4, <1>5 DEF Rows
<1>7. /\ e \in PoolTables /\ e.miners = x /\ e.shares = db.shares
      /\ MinersSame(e, db) /\ RoundsSame(e, db) /\ CoinsSame(e, db)
  BY <1>5, <1>6, WriteMiners
<1>8. \A k \in Name : x[k] = IF k = n /\ db.miners[k] = NoRow THEN zero ELSE db.miners[k]
  BY <1>5 DEF Rows
<1>9. \A k \in Name : db.miners[k] # NoRow => db.miners[k].invalid \in Nat
  BY <1>5, RowsTyped
<1> HIDE DEF e, x
<1>10. CountersAgree(e)
  BY <1>5, <1>7, <1>8 DEF CountersAgree, MinersSame
<1>11. MinersAhead(e, db)
  BY <1>7, <1>8, <1>9 DEF MinersAhead, MinersSame
<1> QED
  BY <1>2, <1>3, <1>7, <1>10, <1>11

LEMMA InvalidEffect ==
  ASSUME PoolConnection, NEW db \in PoolTables, NEW n \in Name, CountersAgree(db),
         db.miners[n] # NoRow, db.miners[n].invalid < MaxShares
  PROVE  LET e == Effect(<<"invalid_share", n>>, db)
         IN  /\ e \in PoolTables /\ CountersAgree(e) /\ MinersAhead(e, db)
             /\ MinersSame(e, db) /\ RoundsSame(e, db) /\ CoinsSame(e, db)
<1> DEFINE m == <<"invalid_share", n>>
           r == [db.miners[n] EXCEPT !.invalid = @ + 1]
           x == [db.miners EXCEPT ![n] = r]
           e == [db EXCEPT !.miners = x]
<1>1. m \in PoolMethod /\ PoolStatements(m) = 1
  BY DEF PoolMethod, PoolStatements
<1>2. Effect(m, db) = Tick(db, n, "invalid")
  BY <1>1, OneStatement DEF PoolExecute
<1>3. Tick(db, n, "invalid") = e
  BY DEF Tick
<1>4. db.miners \in Rows /\ db.shares \in [Name -> 0 .. MaxShares] /\ MaxShares \in Nat
  BY TableTypes, DatabaseAssumption
<1>5. db.miners[n] \in Row /\ db.miners[n].invalid \in 0 .. MaxShares
  BY <1>4, RowsTyped DEF Rows
<1>6. /\ r \in Row /\ r # NoRow /\ r.valid = db.miners[n].valid
      /\ r.invalid = db.miners[n].invalid + 1
  BY <1>4, <1>5, DatabaseAssumption DEF Row
<1>7. x \in Rows
  BY <1>4, <1>6 DEF Rows
<1>8. \A k \in Name : x[k] = IF k = n THEN r ELSE db.miners[k]
  BY <1>4 DEF Rows
<1>9. \A k \in Name : db.miners[k] # NoRow => db.miners[k].invalid \in Nat
  BY <1>4, RowsTyped
<1> HIDE DEF x, r
<1>10. /\ e \in PoolTables /\ e.miners = x /\ e.shares = db.shares
       /\ MinersSame(e, db) /\ RoundsSame(e, db) /\ CoinsSame(e, db)
  BY <1>4, <1>7, WriteMiners
<1> HIDE DEF e
<1>11. CountersAgree(e)
  BY <1>4, <1>6, <1>8, <1>10 DEF CountersAgree, MinersSame
<1>12. MinersAhead(e, db)
  BY <1>6, <1>8, <1>9, <1>10 DEF MinersAhead, MinersSame
<1> QED
  BY <1>2, <1>3, <1>10, <1>11, <1>12

\* record_share counts the share of a miner that has a row, and stores it.
LEMMA ValidEffect ==
  ASSUME PoolConnection, NEW db \in PoolTables, NEW n \in Name, CountersAgree(db),
         db.layout = "canonical", db.shares[n] < MaxShares
  PROVE  LET e == Effect(<<"valid_share", n>>, db)
         IN  /\ e \in PoolTables /\ CountersAgree(e) /\ MinersAhead(e, db)
             /\ MinersSame(e, db) /\ RoundsSame(e, db) /\ CoinsSame(e, db)
<1> DEFINE m == <<"valid_share", n>>
           d == Tick(db, n, "valid")
           y == [d.shares EXCEPT ![n] = @ + 1]
           e == [d EXCEPT !.shares = y]
<1>1. m \in PoolMethod /\ PoolStatements(m) = 2
  BY DEF PoolMethod, PoolStatements
<1>2. After(m, db)[1] = PoolExecute(m, 1, db)
      /\ Effect(m, db) = PoolExecute(m, 2, After(m, db)[1])
  <2>1. 1 \in 1 .. 2 /\ 2 \in 1 .. 2 /\ 1 - 1 = 0 /\ 2 - 1 = 1
    OBVIOUS
  <2> QED
    BY <1>1, <2>1, PoolUnfolds
<1>3. PoolExecute(m, 1, db) = d /\ PoolExecute(m, 2, d) = e
  BY DEF PoolExecute, Shared
<1>4. Effect(m, db) = e
  BY <1>2, <1>3
<1>5. db.miners \in Rows /\ db.shares \in [Name -> 0 .. MaxShares] /\ MaxShares \in Nat
  BY TableTypes, DatabaseAssumption
<1>6. /\ d \in PoolTables /\ d.shares = db.shares
      /\ MinersSame(d, db) /\ RoundsSame(d, db) /\ CoinsSame(d, db)
      /\ \A k \in Name : k # n \/ db.miners[k] = NoRow => d.miners[k] = db.miners[k]
      /\ db.miners[n] # NoRow =>
            /\ d.miners[n] # NoRow /\ d.miners[n].valid = db.miners[n].valid + 1
            /\ d.miners[n].invalid = db.miners[n].invalid
  <2>1. CASE db.miners[n] = NoRow
    <3>1. d = db
      BY <2>1 DEF Tick
    <3> QED
      BY <2>1, <3>1 DEF MinersSame, RoundsSame, CoinsSame
  <2>2. CASE db.miners[n] # NoRow
    <3> DEFINE r == [db.miners[n] EXCEPT !.valid = @ + 1]
               x == [db.miners EXCEPT ![n] = r]
    <3>1. d = [db EXCEPT !.miners = x]
      BY <2>2 DEF Tick
    <3>2. /\ db.miners[n] \in Row /\ db.miners[n].valid \in 0 .. MaxShares
          /\ db.miners[n].valid + 1 \in 0 .. MaxShares
      <4>1. db.miners[n] \in Row /\ db.miners[n].valid <= db.shares[n]
        BY <1>5, <2>2 DEF Rows, CountersAgree
      <4>2. db.miners[n].valid \in 0 .. MaxShares
        BY <1>5, <2>2, RowsTyped
      <4> QED
        BY <1>5, <4>1, <4>2
    <3>3. /\ r \in Row /\ r # NoRow /\ r.valid = db.miners[n].valid + 1
          /\ r.invalid = db.miners[n].invalid
      BY <1>5, <3>2, DatabaseAssumption DEF Row
    <3>4. x \in Rows
      BY <1>5, <3>3 DEF Rows
    <3>5. \A k \in Name : x[k] = IF k = n THEN r ELSE db.miners[k]
      BY <1>5 DEF Rows
    <3> HIDE DEF x, r, d
    <3>6. /\ d \in PoolTables /\ d.miners = x /\ d.shares = db.shares
          /\ MinersSame(d, db) /\ RoundsSame(d, db) /\ CoinsSame(d, db)
      BY <1>5, <3>1, <3>4, WriteMiners
    <3> QED
      BY <2>2, <3>3, <3>5, <3>6
  <2> QED
    BY <2>1, <2>2
<1> HIDE DEF d
<1>7. y \in [Name -> 0 .. MaxShares]
  BY <1>5, <1>6
<1>8. \A k \in Name : y[k] = IF k = n THEN db.shares[k] + 1 ELSE db.shares[k]
  BY <1>5, <1>6
<1> HIDE DEF y
<1>9. /\ e \in PoolTables /\ e.shares = y /\ e.miners = d.miners
      /\ MinersSame(e, d) /\ RoundsSame(e, d) /\ CoinsSame(e, d)
  BY <1>6, <1>7, WriteShares
<1> HIDE DEF e
<1>10. MinersSame(e, db) /\ RoundsSame(e, db) /\ CoinsSame(e, db)
  BY <1>6, <1>9 DEF MinersSame, RoundsSame, CoinsSame
<1>11. \A k \in Name : db.miners[k] # NoRow =>
          db.miners[k].invalid \in Nat /\ db.miners[k].valid \in Nat
  BY <1>5, RowsTyped
<1>12. CountersAgree(e)
  BY <1>5, <1>6, <1>8, <1>9, <1>10, <1>11 DEF CountersAgree, MinersSame
<1>13. MinersAhead(e, db)
  BY <1>6, <1>9, <1>10, <1>11 DEF MinersAhead, MinersSame
<1> QED
  BY <1>4, <1>9, <1>10, <1>12, <1>13

LEMMA RecordBlockEffect ==
  ASSUME PoolConnection, NEW db \in PoolTables, NEW b \in Block
  PROVE  LET e == Effect(<<"record_block", b>>, db)
         IN  /\ e \in PoolTables
             /\ e.blocks = [db.blocks EXCEPT ![b] = "immature"]
             /\ e.rounds = db.rounds /\ e.credits = db.credits
             /\ MinersSame(e, db) /\ CountsSame(e, db) /\ CoinsSame(e, db)
<1> DEFINE m == <<"record_block", b>>
           x == [db.blocks EXCEPT ![b] = "immature"]
           e == [db EXCEPT !.blocks = x]
<1>1. m \in PoolMethod /\ PoolStatements(m) = 1
  BY DEF PoolMethod, PoolStatements
<1>2. Effect(m, db) = e
  BY <1>1, OneStatement DEF PoolExecute
<1>3. x \in [Block -> Status]
  BY TableTypes DEF Status
<1> HIDE DEF x
<1>4. /\ e \in PoolTables /\ e.blocks = x
      /\ e.rounds = db.rounds /\ e.credits = db.credits
      /\ MinersSame(e, db) /\ CountsSame(e, db) /\ CoinsSame(e, db)
  BY <1>3, WriteBlocks
<1> QED
  BY <1>2, <1>4 DEF x

LEMMA RecordPayoutEffect ==
  ASSUME PoolConnection, NEW db \in PoolTables, NEW a \in Addr,
         NEW amount \in 0 .. Granted(a, Block), amount \in Nat
  PROVE  LET e == Effect(<<"record_payout", <<a, amount>>>>, db)
         IN  /\ e \in PoolTables /\ e.payee = db.payee
             /\ e.balance = db.balance /\ e.paid = db.paid
             /\ MinersSame(e, db) /\ CountsSame(e, db) /\ RoundsSame(e, db)
<1> DEFINE m == <<"record_payout", <<a, amount>>>>
           x == [db.payouts EXCEPT ![a] = @ + amount]
           e == [db EXCEPT !.payouts = x]
<1>1. m \in PoolMethod /\ PoolStatements(m) = 1
  BY DEF PoolMethod, PoolStatements, Payments
<1>2. Effect(m, db) = e
  BY <1>1, OneStatement DEF PoolExecute
<1>3. x \in [Addr -> Nat]
  BY TableTypes
<1> HIDE DEF x
<1>4. /\ e \in PoolTables /\ e.payee = db.payee
      /\ e.balance = db.balance /\ e.paid = db.paid
      /\ MinersSame(e, db) /\ CountsSame(e, db) /\ RoundsSame(e, db)
  BY <1>3, WritePayouts
<1> QED
  BY <1>2, <1>4

LEMMA DebitEffect ==
  ASSUME PoolConnection, NEW db \in PoolTables, NEW a \in Addr,
         NEW amount \in 0 .. Granted(a, Block), amount \in Nat
  PROVE  LET e == Effect(<<"debit_balance", <<a, amount>>>>, db)
         IN  /\ e \in PoolTables /\ e.payee = db.payee
             /\ e.balance = [db.balance EXCEPT ![a] = IF @ > amount THEN @ - amount ELSE 0]
             /\ e.paid = [db.paid EXCEPT ![a] = @ + amount]
             /\ MinersSame(e, db) /\ CountsSame(e, db) /\ RoundsSame(e, db)
<1> DEFINE m == <<"debit_balance", <<a, amount>>>>
           x == [db.balance EXCEPT ![a] = IF @ > amount THEN @ - amount ELSE 0]
           y == [db.paid EXCEPT ![a] = @ + amount]
           e == [db EXCEPT !.balance = x, !.paid = y]
<1>1. m \in PoolMethod /\ PoolStatements(m) = 1
  BY DEF PoolMethod, PoolStatements, Payments
<1>2. Effect(m, db) = e
  <2>1. Effect(m, db) = Debited(db, a, amount)
    BY <1>1, OneStatement DEF PoolExecute
  <2> QED
    BY <2>1 DEF Debited
<1>3. x \in [Addr -> Nat] /\ y \in [Addr -> Nat]
  BY TableTypes
<1> HIDE DEF x, y
<1>4. /\ e \in PoolTables /\ e.payee = db.payee
      /\ e.balance = x /\ e.paid = y
      /\ MinersSame(e, db) /\ CountsSame(e, db) /\ RoundsSame(e, db)
  BY <1>3, WriteDebit
<1> QED
  BY <1>2, <1>4 DEF x, y

\* create_mining_round stores the round and then its credits, one by one.
RoundTables(db, e, b, i) ==
    /\ e \in PoolTables
    /\ e.blocks = db.blocks
    /\ MinersSame(e, db) /\ CountsSame(e, db) /\ CoinsSame(e, db)
    /\ e.rounds = [db.rounds EXCEPT ![b] = "immature"]
    /\ \A c \in Block \ {b} : e.credits[c] = db.credits[c]
    /\ \A j \in 1 .. i - 1 : e.credits[b][Payees[j]] = Credit[b][Payees[j]]

LEMMA CreateRoundStep ==
  ASSUME NEW db \in PoolTables, NEW e, NEW b \in Block, NEW i \in 1 .. Len(Payees) + 1,
         IF i = 1 THEN e = db ELSE RoundTables(db, e, b, i - 1)
  PROVE  RoundTables(db, RoundCreated(e, i, b), b, i)
<1>1. CASE i = 1
  <2> DEFINE x == [db.rounds EXCEPT ![b] = "immature"]
             f == [db EXCEPT !.rounds = x]
  <2>1. RoundCreated(e, i, b) = f
    BY <1>1 DEF RoundCreated
  <2>2. x \in [Block -> Status]
    BY TableTypes DEF Status
  <2> HIDE DEF x
  <2>3. /\ f \in PoolTables /\ f.rounds = x
        /\ f.blocks = db.blocks /\ f.credits = db.credits
        /\ MinersSame(f, db) /\ CountsSame(f, db) /\ CoinsSame(f, db)
    BY <2>2, WriteRounds
  <2>4. 1 .. i - 1 = {}
    BY <1>1
  <2> QED
    BY <2>1, <2>3, <2>4 DEF RoundTables, x
<1>2. CASE i # 1
  <2> DEFINE a == Payees[i - 1]
             r == [e.credits[b] EXCEPT ![a] = Credit[b][a]]
             x == [e.credits EXCEPT ![b] = r]
             f == [e EXCEPT !.credits = x]
  <2>1. RoundTables(db, e, b, i - 1)
    BY <1>2
  <2>2. RoundCreated(e, i, b) = f
    BY <1>2 DEF RoundCreated
  <2>3. i - 1 \in 1 .. Len(Payees) /\ a \in Addr /\ Len(Payees) \in Nat
    BY <1>2, PayeesAre
  <2>4. e.credits \in [Block -> [Addr -> Nat]] /\ Credit[b][a] \in Nat
    BY <2>1, <2>3, TableTypes, DatabaseAssumption DEF RoundTables
  <2>5. r \in [Addr -> Nat] /\ r[a] = Credit[b][a]
        /\ \A c \in Addr \ {a} : r[c] = e.credits[b][c]
    BY <2>3, <2>4
  <2>6. x \in [Block -> [Addr -> Nat]] /\ x[b] = r
        /\ \A c \in Block \ {b} : x[c] = e.credits[c]
    BY <2>4, <2>5
  <2> HIDE DEF x, r, a
  <2>7. /\ f \in PoolTables /\ f.credits = x
        /\ f.blocks = e.blocks /\ f.rounds = e.rounds
        /\ MinersSame(f, e) /\ CountsSame(f, e) /\ CoinsSame(f, e)
    BY <2>1, <2>6, WriteCredits DEF RoundTables
  <2> HIDE DEF f
  <2>8. MinersSame(f, db) /\ CountsSame(f, db) /\ CoinsSame(f, db)
    BY <2>1, <2>7 DEF RoundTables, MinersSame, CountsSame, CoinsSame
  <2>9. ASSUME NEW j \in 1 .. i - 1
        PROVE  f.credits[b][Payees[j]] = Credit[b][Payees[j]]
    <3>1. j \in 1 .. Len(Payees) /\ Payees[j] \in Addr
      BY <2>3, PayeesAre
    <3>2. CASE Payees[j] = a
      BY <2>5, <2>6, <2>7, <3>2
    <3>3. CASE Payees[j] # a
      <4>1. j # i - 1
        BY <3>3 DEF a
      <4>2. j \in 1 .. (i - 1) - 1
        BY <4>1
      <4> QED
        BY <2>1, <2>5, <2>6, <2>7, <3>1, <3>3, <4>2 DEF RoundTables
    <3> QED
      BY <3>2, <3>3
  <2> QED
    BY <2>1, <2>2, <2>6, <2>7, <2>8, <2>9 DEF RoundTables
<1> QED
  BY <1>1, <1>2

LEMMA CreateRoundEffect ==
  ASSUME PoolConnection, NEW db \in PoolTables, NEW b \in Block
  PROVE  LET e == Effect(<<"create_round", b>>, db)
         IN  /\ e \in PoolTables
             /\ e.blocks = db.blocks
             /\ e.rounds = [db.rounds EXCEPT ![b] = "immature"]
             /\ e.credits = [db.credits EXCEPT ![b] = Credit[b]]
             /\ MinersSame(e, db) /\ CountsSame(e, db) /\ CoinsSame(e, db)
<1> DEFINE m == <<"create_round", b>>
           n == Len(Payees) + 1
           Good(e, i) == IF i = 0 THEN e = db ELSE RoundTables(db, e, b, i)
           Q == {i \in 0 .. n : Good(After(m, db)[i], i)}
<1>1. m \in PoolMethod /\ PoolStatements(m) = n
  BY PayeesAre DEF PoolMethod, PoolStatements
<1>2. /\ n \in Nat /\ Effect(m, db) = After(m, db)[n]
      /\ After(m, db)[0] = db
      /\ \A i \in 1 .. n : After(m, db)[i] = PoolExecute(m, i, After(m, db)[i - 1])
  BY <1>1, PoolUnfolds
<1>3. \A i \in 1 .. n : After(m, db)[i] = RoundCreated(After(m, db)[i - 1], i, b)
  BY <1>2 DEF PoolExecute
<1>4. 0 \in Q
  BY <1>2
<1>5. ASSUME NEW i \in 1 .. n, i - 1 \in Q PROVE i \in Q
  <2>1. IF i = 1 THEN After(m, db)[i - 1] = db
        ELSE RoundTables(db, After(m, db)[i - 1], b, i - 1)
    BY <1>2, <1>5
  <2> DEFINE d == After(m, db)[i - 1]
  <2>2. IF i = 1 THEN d = db ELSE RoundTables(db, d, b, i - 1)
    BY <2>1
  <2> HIDE DEF d
  <2>3. RoundTables(db, RoundCreated(d, i, b), b, i)
    BY <2>2, CreateRoundStep
  <2>4. RoundTables(db, After(m, db)[i], b, i)
    BY <1>3, <2>3 DEF d
  <2> QED
    BY <1>2, <2>4
<1> DEFINE e == After(m, db)[n]
<1>6. RoundTables(db, e, b, n)
  <2>1. n \in Q
    <3> HIDE DEF Q, n
    <3> QED
      BY <1>2, <1>4, <1>5, CountUp
  <2> QED
    BY <1>2, <2>1
<1> HIDE DEF e
<1>7. e.credits = [db.credits EXCEPT ![b] = Credit[b]]
  <2>1. e.credits \in [Block -> [Addr -> Nat]] /\ db.credits \in [Block -> [Addr -> Nat]]
    BY <1>6, TableTypes DEF RoundTables
  <2>2. \A a \in Addr : e.credits[b][a] = Credit[b][a]
    <3>1. \A j \in 1 .. Len(Payees) : j \in 1 .. n - 1
      BY PayeesAre
    <3> QED
      BY <1>6, <3>1, PayeesAre DEF RoundTables
  <2>3. e.credits[b] \in [Addr -> Nat] /\ Credit[b] \in [Addr -> Nat \ {0}]
    BY <2>1, DatabaseAssumption
  <2>4. e.credits[b] = Credit[b]
    BY <2>2, <2>3
  <2>5. \A c \in Block \ {b} : e.credits[c] = db.credits[c]
    BY <1>6 DEF RoundTables
  <2> HIDE DEF m, n
  <2> QED
    BY <2>1, <2>4, <2>5
<1> QED
  BY <1>2, <1>6, <1>7 DEF RoundTables, e

\* add_immature_credits: a row for every payee, and what it is to get.
ImmatureTables(db, e, i) ==
    /\ e \in PoolTables
    /\ MinersSame(e, db) /\ CountsSame(e, db) /\ RoundsSame(e, db)
    /\ e.balance = db.balance /\ e.paid = db.paid
    /\ \A j \in 1 .. i : Payees[j] \in e.payee

LEMMA ImmatureStep ==
  ASSUME NEW db \in PoolTables, NEW e, NEW b \in Block, NEW i \in 1 .. Len(Payees),
         ImmatureTables(db, e, i - 1)
  PROVE  ImmatureTables(db, ImmatureAdded(e, i, b), i)
<1> DEFINE a == Payees[i]
           p == e.payee \cup {a}
           x == [e.immature EXCEPT ![a] = @ + Credit[b][a]]
           f == [e EXCEPT !.payee = p, !.immature = x]
<1>1. ImmatureAdded(e, i, b) = f
  BY DEF ImmatureAdded
<1>2. a \in Addr /\ Credit[b][a] \in Nat /\ Len(Payees) \in Nat
  BY PayeesAre, DatabaseAssumption
<1>3. p \in SUBSET Addr /\ x \in [Addr -> Nat]
  BY <1>2, TableTypes DEF ImmatureTables
<1> HIDE DEF a, x
<1>4. /\ f \in PoolTables /\ f.payee = p
      /\ f.balance = e.balance /\ f.paid = e.paid
      /\ MinersSame(f, e) /\ CountsSame(f, e) /\ RoundsSame(f, e)
  BY <1>3, WriteImmature DEF ImmatureTables
<1> HIDE DEF f
<1>5. MinersSame(f, db) /\ CountsSame(f, db) /\ RoundsSame(f, db)
      /\ f.balance = db.balance /\ f.paid = db.paid
  BY <1>4 DEF ImmatureTables, MinersSame, CountsSame, RoundsSame
<1>6. \A j \in 1 .. i : Payees[j] \in f.payee
  <2>1. \A j \in 1 .. i : j = i \/ j \in 1 .. i - 1
    BY <1>2
  <2> QED
    BY <1>4, <2>1 DEF ImmatureTables, a
<1> QED
  BY <1>1, <1>4, <1>5, <1>6 DEF ImmatureTables

LEMMA AddImmatureEffect ==
  ASSUME PoolConnection, NEW db \in PoolTables, NEW b \in Block
  PROVE  LET e == Effect(<<"add_immature", b>>, db)
         IN  /\ e \in PoolTables /\ e.payee = Addr
             /\ e.balance = db.balance /\ e.paid = db.paid
             /\ MinersSame(e, db) /\ CountsSame(e, db) /\ RoundsSame(e, db)
<1> DEFINE m == <<"add_immature", b>>
           n == Len(Payees)
           Q == {i \in 0 .. n : ImmatureTables(db, After(m, db)[i], i)}
<1>1. m \in PoolMethod /\ PoolStatements(m) = n
  BY DEF PoolMethod, PoolStatements
<1>2. /\ n \in Nat /\ Effect(m, db) = After(m, db)[n]
      /\ After(m, db)[0] = db
      /\ \A i \in 1 .. n : After(m, db)[i] = PoolExecute(m, i, After(m, db)[i - 1])
  BY <1>1, PoolUnfolds
<1>3. \A i \in 1 .. n : After(m, db)[i] = ImmatureAdded(After(m, db)[i - 1], i, b)
  BY <1>2 DEF PoolExecute
<1>4. 0 \in Q
  <2>1. 1 .. 0 = {}
    OBVIOUS
  <2> QED
    BY <1>2, <2>1 DEF ImmatureTables, MinersSame, CountsSame, RoundsSame
<1>5. ASSUME NEW i \in 1 .. n, i - 1 \in Q PROVE i \in Q
  <2> DEFINE d == After(m, db)[i - 1]
  <2>1. ImmatureTables(db, d, i - 1)
    BY <1>5
  <2> HIDE DEF d
  <2>2. ImmatureTables(db, ImmatureAdded(d, i, b), i)
    BY <2>1, ImmatureStep
  <2>3. ImmatureTables(db, After(m, db)[i], i)
    BY <1>3, <2>2 DEF d
  <2> QED
    BY <1>2, <2>3
<1> DEFINE e == After(m, db)[n]
<1>6. ImmatureTables(db, e, n)
  <2>1. n \in Q
    <3> HIDE DEF Q, n
    <3> QED
      BY <1>2, <1>4, <1>5, CountUp
  <2> QED
    BY <1>2, <2>1
<1> HIDE DEF e
<1>7. e.payee = Addr
  <2>1. e.payee \in SUBSET Addr
    BY <1>6, TableTypes DEF ImmatureTables
  <2>2. \A a \in Addr : a \in e.payee
    BY <1>6, PayeesAre DEF ImmatureTables
  <2> QED
    BY <2>1, <2>2
<1> QED
  BY <1>2, <1>6, <1>7 DEF ImmatureTables, e

\* mature_round moves the credits of the round, payee by payee, and then marks
\* the round and its block.
MatureTables(db, e, b, i) ==
    /\ e \in PoolTables
    /\ e.credits = db.credits /\ e.blocks = db.blocks /\ e.rounds = db.rounds
    /\ e.payee = db.payee /\ e.paid = db.paid
    /\ MinersSame(e, db) /\ CountsSame(e, db)
    /\ \A j \in 1 .. Len(Payees) :
          e.balance[Payees[j]] =
             db.balance[Payees[j]] +
                IF j <= i /\ Payees[j] \in db.payee THEN db.credits[b][Payees[j]] ELSE 0

LEMMA MatureStep ==
  ASSUME NEW db \in PoolTables, NEW e, NEW b \in Block, NEW i \in 1 .. Len(Payees),
         MatureTables(db, e, b, i - 1)
  PROVE  MatureTables(db, Matured(e, i, b), b, i)
<1> DEFINE a == Payees[i]
           amount == e.credits[b][a]
           x == [e.immature EXCEPT ![a] = IF @ > amount THEN @ - amount ELSE 0]
           y == [e.balance EXCEPT ![a] = @ + amount]
           f == [e EXCEPT !.immature = x, !.balance = y]
<1>1. Matured(e, i, b) = IF a \notin e.payee THEN e ELSE f
  <2>1. i <= Len(Payees)
    BY PayeesAre
  <2> QED
    BY <2>1 DEF Matured, BalanceMoved
<1>2. a \in Addr /\ Len(Payees) \in Nat /\ amount = db.credits[b][a] /\ amount \in Nat
      /\ e.balance \in [Addr -> Nat] /\ e.payee = db.payee
      /\ e.immature \in [Addr -> Nat] /\ db.balance \in [Addr -> Nat]
  BY PayeesAre, TableTypes DEF MatureTables
<1>3. x \in [Addr -> Nat] /\ y \in [Addr -> Nat]
  BY <1>2
<1>4. \A j \in 1 .. Len(Payees) :
         y[Payees[j]] = e.balance[Payees[j]] + IF j = i THEN amount ELSE 0
  BY <1>2, PayeesAre
<1>5. \A j \in 1 .. Len(Payees) : (j <= i <=> j <= i - 1 \/ j = i) /\ ~(i <= i - 1)
  BY <1>2
<1>6. CASE a \notin e.payee
  BY <1>1, <1>2, <1>5, <1>6 DEF MatureTables
<1>7. CASE a \in e.payee
  <2> HIDE DEF x, y, amount, a
  <2>1. /\ f \in PoolTables /\ f.payee = e.payee
        /\ f.balance = y /\ f.paid = e.paid
        /\ MinersSame(f, e) /\ CountsSame(f, e) /\ RoundsSame(f, e)
    BY <1>3, WriteBalance DEF MatureTables
  <2> HIDE DEF f
  <2>2. /\ MinersSame(f, db) /\ CountsSame(f, db)
        /\ f.credits = db.credits /\ f.blocks = db.blocks /\ f.rounds = db.rounds
        /\ f.payee = db.payee /\ f.paid = db.paid
    BY <2>1 DEF MatureTables, MinersSame, CountsSame, RoundsSame
  <2>3. ASSUME NEW j \in 1 .. Len(Payees)
        PROVE  f.balance[Payees[j]] = db.balance[Payees[j]] +
                  IF j <= i /\ Payees[j] \in db.payee THEN db.credits[b][Payees[j]] ELSE 0
    <3>1. e.balance[Payees[j]] = db.balance[Payees[j]] +
             IF j <= i - 1 /\ Payees[j] \in db.payee THEN db.credits[b][Payees[j]] ELSE 0
      BY DEF MatureTables
    <3>2. db.balance[Payees[j]] \in Nat
      BY <1>2, PayeesAre
    <3>3. CASE j = i
      BY <1>2, <1>4, <1>5, <1>7, <2>1, <3>1, <3>2, <3>3 DEF a
    <3>4. CASE j # i
      BY <1>2, <1>4, <1>5, <2>1, <3>1, <3>2, <3>4, PayeesAre, TableTypes
    <3> QED
      BY <3>3, <3>4
  <2> QED
    BY <1>1, <1>7, <2>1, <2>2, <2>3 DEF MatureTables
<1> QED
  BY <1>6, <1>7

LEMMA MatureEffect ==
  ASSUME PoolConnection, NEW db \in PoolTables, NEW b \in Block
  PROVE  LET e == Effect(<<"mature_round", b>>, db)
         IN  /\ e \in PoolTables
             /\ e.credits = db.credits
             /\ e.rounds = [db.rounds EXCEPT ![b] = "credited"]
             /\ e.blocks = [db.blocks EXCEPT ![b] = "credited"]
             /\ e.payee = db.payee /\ e.paid = db.paid
             /\ MinersSame(e, db) /\ CountsSame(e, db)
             /\ \A a \in Addr : e.balance[a] =
                   db.balance[a] + IF a \in db.payee THEN db.credits[b][a] ELSE 0
<1> DEFINE m == <<"mature_round", b>>
           k == Len(Payees)
           n == k + 2
           Q == {i \in 0 .. n : i <= k => MatureTables(db, After(m, db)[i], b, i)}
<1>1. m \in PoolMethod /\ PoolStatements(m) = n /\ k \in Nat
  BY PayeesAre DEF PoolMethod, PoolStatements
<1>2. /\ n \in Nat /\ Effect(m, db) = After(m, db)[n]
      /\ After(m, db)[0] = db
      /\ \A i \in 1 .. n : After(m, db)[i] = PoolExecute(m, i, After(m, db)[i - 1])
  BY <1>1, PoolUnfolds
<1>3. \A i \in 1 .. n : After(m, db)[i] = Matured(After(m, db)[i - 1], i, b)
  BY <1>2 DEF PoolExecute
<1>4. 0 \in Q
  <2>1. ASSUME NEW j \in 1 .. k
        PROVE  ~(j <= 0) /\ db.balance[Payees[j]] \in Nat
    BY PayeesAre, TableTypes
  <2>2. MatureTables(db, db, b, 0)
    BY <2>1 DEF MatureTables, MinersSame, CountsSame
  <2> QED
    BY <1>2, <2>2
<1>5. ASSUME NEW i \in 1 .. n, i - 1 \in Q PROVE i \in Q
  <2>1. SUFFICES ASSUME i <= k PROVE MatureTables(db, After(m, db)[i], b, i)
    BY <1>2
  <2> DEFINE d == After(m, db)[i - 1]
  <2>2. MatureTables(db, d, b, i - 1) /\ i \in 1 .. k
    BY <1>1, <1>5, <2>1
  <2> HIDE DEF d
  <2>3. MatureTables(db, Matured(d, i, b), b, i)
    BY <2>2, MatureStep
  <2> QED
    BY <1>3, <2>3 DEF d
<1> DEFINE d == After(m, db)[k]
           e == After(m, db)[n]
<1>6. MatureTables(db, d, b, k)
  <2>1. k \in 0 .. n
    BY <1>1
  <2>2. k \in Q
    <3> HIDE DEF Q, n, k
    <3> QED
      BY <1>2, <1>4, <1>5, <2>1, CountUp
  <2> QED
    BY <2>2
<1> DEFINE x == [d.rounds EXCEPT ![b] = "credited"]
           f == [d EXCEPT !.rounds = x]
           y == [f.blocks EXCEPT ![b] = "credited"]
<1>7. After(m, db)[k + 1] = f /\ e = [f EXCEPT !.blocks = y]
  <2>1. k + 1 \in 1 .. n /\ n \in 1 .. n /\ (k + 1) - 1 = k /\ n - 1 = k + 1
        /\ ~(k + 1 <= k) /\ ~(n <= k) /\ n # k + 1
    BY <1>1
  <2>2. Matured(d, k + 1, b) = [d EXCEPT !.rounds[b] = "credited"]
    BY <2>1 DEF Matured
  <2>3. Matured(f, n, b) = [f EXCEPT !.blocks[b] = "credited"]
    BY <2>1 DEF Matured
  <2>4. After(m, db)[k + 1] = f
    BY <1>3, <2>1, <2>2
  <2> QED
    BY <1>3, <2>1, <2>3, <2>4
<1> HIDE DEF d
<1>8. x \in [Block -> Status]
  BY <1>6, TableTypes DEF MatureTables, Status
<1> HIDE DEF x
<1>9. /\ f \in PoolTables /\ f.rounds = x
      /\ f.blocks = d.blocks /\ f.credits = d.credits
      /\ MinersSame(f, d) /\ CountsSame(f, d) /\ CoinsSame(f, d)
  BY <1>6, <1>8, WriteRounds DEF MatureTables
<1> HIDE DEF f
<1>10. y \in [Block -> Status]
  BY <1>9, TableTypes DEF Status
<1> HIDE DEF y, e
<1>11. /\ e \in PoolTables /\ e.blocks = y
       /\ e.rounds = f.rounds /\ e.credits = f.credits
       /\ MinersSame(e, f) /\ CountsSame(e, f) /\ CoinsSame(e, f)
  BY <1>7, <1>9, <1>10, WriteBlocks
<1>12. MinersSame(e, db) /\ CountsSame(e, db)
  BY <1>6, <1>9, <1>11 DEF MatureTables, MinersSame, CountsSame
<1>13. /\ e.payee = db.payee /\ e.paid = db.paid /\ e.balance = d.balance
       /\ e.credits = db.credits
  BY <1>6, <1>9, <1>11 DEF MatureTables, CoinsSame
<1>14. e.rounds = [db.rounds EXCEPT ![b] = "credited"]
  BY <1>6, <1>9, <1>11 DEF MatureTables, x
<1>15. e.blocks = [db.blocks EXCEPT ![b] = "credited"]
  BY <1>6, <1>9, <1>11 DEF MatureTables, y
<1>16. \A a \in Addr : e.balance[a] =
          db.balance[a] + IF a \in db.payee THEN db.credits[b][a] ELSE 0
  BY <1>6, <1>13, PayeesAre DEF MatureTables
<1> QED
  BY <1>2, <1>11, <1>12, <1>13, <1>14, <1>15, <1>16 DEF e

-----------------------------------------------------------------------------
(* The tables at rest.                                                     *)

Sound(db) ==
    /\ db \in PoolTables
    /\ StatusesAgree(db) /\ CountersAgree(db)
    /\ db.payee \in {{}, Addr}
    /\ ~db.spare => db.copy = NoRows
    /\ db.layout = "absent" => db.miners = NoRows

\* No address has more than the rounds that matured granted it; what was paid
\* came from that, as long as the payout thread reads committed balances.
Booked(db, exact) ==
    \E granted \in SUBSET {b \in Block : db.rounds[b] = "credited"} :
        \A a \in Addr :
            /\ db.balance[a] <= Granted(a, granted)
            /\ exact => db.balance[a] + db.paid[a] = Granted(a, granted)

\* What the coroutine of a block has not written is not there.
Known(db, tk) ==
    \A b \in Block :
        /\ tk[b] = "record_block" => db.blocks[b] = "none" /\ db.rounds[b] = "none"
        /\ tk[b] = "create_round" => db.blocks[b] = "immature" /\ db.rounds[b] = "none"

\* What the payout thread has sent is still there to be debited.
Covered(db, p, exact) == p # Asleep /\ exact => db.balance[p[2][1]] >= p[2][2]

Stored(db, tk, p, exact) ==
    Sound(db) /\ Booked(db, exact) /\ Known(db, tk) /\ Covered(db, p, exact)

Writing == {"record_block", "create_round", "add_immature"}
CallersTyped(tk, p) ==
    /\ tk \in [Block -> Writing \cup {"done"}]
    /\ p \in {Asleep} \cup ({"record_payout", "debit_balance"} \X Payments)

\* Who holds the lock, and what it knew when it took it.
Locked(h, db, tk, p) ==
    \/ \E n \in Name :
          \/ h = <<"upsert_miner", n>>
          \/ h = <<"valid_share", n>> /\ db.shares[n] < MaxShares
          \/ /\ h = <<"invalid_share", n>>
             /\ db.miners[n] # NoRow /\ db.miners[n].invalid < MaxShares
    \/ \E b \in Block :
          \/ h = <<tk[b], b>> /\ tk[b] \in Writing
          \/ h = <<"mature_round", b>> /\ db.rounds[b] = "immature" /\ tk[b] = "done"
    \/ h = p /\ p # Asleep

\* The callers after a method returns or raises.
TaskReturns(tk, h) ==
    [b \in Block |-> IF h = <<tk[b], b>> THEN NextWrite(tk[b]) ELSE tk[b]]
TaskRaises(tk, h) == [b \in Block |-> IF h = <<tk[b], b>> THEN "done" ELSE tk[b]]
PayReturns(p, h) ==
    IF h # p THEN p
    ELSE IF p[1] = "record_payout" THEN <<"debit_balance", p[2]>> ELSE Asleep
PayRaises(p, h) == IF h = p THEN Asleep ELSE p

\* What a method that ended leaves, for callers that go on or that end.
Ends(db, h, tk, p, exact) ==
    LET e == Effect(h, db)
    IN  /\ Stored(e, TaskReturns(tk, h), PayReturns(p, h), exact)
        /\ Stored(e, TaskRaises(tk, h), PayRaises(p, h), exact)
        /\ MinersAhead(e, db) /\ e.layout = db.layout

LEMMA GrantedType ==
  ASSUME NEW a \in Addr, NEW S \in SUBSET Block
  PROVE  /\ Granted(a, S) \in Nat /\ Granted(a, Block) \in Nat
         /\ Granted(a, S) <= Granted(a, Block)
<1> DEFINE f == [b \in Block |-> Credit[b][a]]
<1>1. IsFiniteSet(Block) /\ IsFiniteSet(S)
  BY DatabaseAssumption, FS_Subset
<1>2. \A b \in Block : f[b] \in Nat
  BY DatabaseAssumption
<1> HIDE DEF f
<1>3. SumFunctionOnSet(f, Block) \in Nat
      /\ SumFunctionOnSet(f, S) <= SumFunctionOnSet(f, Block)
  BY <1>1, <1>2, SumNat
<1>4. SumFunctionOnSet(f, S) \in Nat
  BY <1>1, <1>2, SumNat
<1> QED
  BY <1>3, <1>4 DEF Granted, f

LEMMA GrantedAdd ==
  ASSUME NEW a \in Addr, NEW S \in SUBSET Block, NEW b \in Block \ S
  PROVE  Granted(a, S \cup {b}) = Granted(a, S) + Credit[b][a]
<1> DEFINE f == [c \in Block |-> Credit[c][a]]
<1>1. IsFiniteSet(S)
  BY DatabaseAssumption, FS_Subset
<1>2. \A c \in Block : f[c] \in Int
  BY DatabaseAssumption
<1>3. f[b] = Credit[b][a]
  OBVIOUS
<1> HIDE DEF f
<1>4. SumFunctionOnSet(f, S \cup {b}) = f[b] + SumFunctionOnSet(f, S)
  BY <1>1, <1>2, SumAdd
<1>5. SumFunctionOnSet(f, S) \in Int
  BY <1>1, <1>2, SumInt
<1>6. f[b] \in Int
  BY <1>2
<1> QED
  BY <1>3, <1>4, <1>5, <1>6 DEF Granted, f

\* The callers that did not hold the lock go on as they were.
LEMMA OthersStay ==
  ASSUME NEW tk, NEW p, CallersTyped(tk, p), NEW h,
         \/ \E n \in Name : h \in {<<"upsert_miner", n>>, <<"valid_share", n>>,
                                   <<"invalid_share", n>>}
         \/ \E b \in Block : h = <<"mature_round", b>>
         \/ h = p
  PROVE  TaskReturns(tk, h) = tk /\ TaskRaises(tk, h) = tk
<1>1. \A b \in Block : h # <<tk[b], b>>
  <2> SUFFICES ASSUME NEW b \in Block, h = <<tk[b], b>> PROVE FALSE
    OBVIOUS
  <2>1. tk[b] \in Writing \cup {"done"} /\ h[1] = tk[b]
    BY DEF CallersTyped
  <2>2. h[1] \in {"upsert_miner", "valid_share", "invalid_share", "mature_round",
                  "record_payout", "debit_balance", "asleep"}
    BY DEF CallersTyped, Asleep
  <2> QED
    BY <2>1, <2>2 DEF Writing
<1> QED
  BY <1>1 DEF TaskReturns, TaskRaises, CallersTyped

LEMMA PayStays ==
  ASSUME NEW tk, NEW p, CallersTyped(tk, p), NEW h,
         \/ \E n \in Name : h \in {<<"upsert_miner", n>>, <<"valid_share", n>>,
                                   <<"invalid_share", n>>}
         \/ \E b \in Block, k \in Writing \cup {"mature_round"} : h = <<k, b>>
  PROVE  h # p /\ PayReturns(p, h) = p /\ PayRaises(p, h) = p
<1>1. h # p
  <2>1. h[1] \in {"upsert_miner", "valid_share", "invalid_share", "mature_round"}
                 \cup Writing
    OBVIOUS
  <2>2. p[1] \in {"record_payout", "debit_balance", "asleep"}
    BY DEF CallersTyped, Asleep
  <2> QED
    BY <2>1, <2>2 DEF Writing
<1> QED
  BY <1>1 DEF PayReturns, PayRaises

\* A method that writes neither coins nor rounds leaves the books as they are.
LEMMA BooksStay ==
  ASSUME NEW db, NEW e, e.rounds = db.rounds, e.balance = db.balance, e.paid = db.paid,
         NEW exact, Booked(db, exact)
  PROVE  Booked(e, exact)
  BY DEF Booked

LEMMA ShareEnds ==
  ASSUME PoolConnection, NEW db, NEW tk, NEW p, NEW exact,
         Stored(db, tk, p, exact), CallersTyped(tk, p), db.layout = "canonical", NEW h,
         \E n \in Name :
            \/ h = <<"upsert_miner", n>>
            \/ h = <<"valid_share", n>> /\ db.shares[n] < MaxShares
            \/ /\ h = <<"invalid_share", n>>
               /\ db.miners[n] # NoRow /\ db.miners[n].invalid < MaxShares
  PROVE  Ends(db, h, tk, p, exact)
<1> DEFINE e == Effect(h, db)
<1>1. db \in PoolTables /\ CountersAgree(db)
  BY DEF Stored, Sound
<1>2. /\ e \in PoolTables /\ CountersAgree(e) /\ MinersAhead(e, db)
      /\ MinersSame(e, db) /\ RoundsSame(e, db) /\ CoinsSame(e, db)
  BY <1>1, UpsertEffect, ValidEffect, InvalidEffect
<1>3. /\ TaskReturns(tk, h) = tk /\ TaskRaises(tk, h) = tk
      /\ PayReturns(p, h) = p /\ PayRaises(p, h) = p
  BY OthersStay, PayStays
<1> HIDE DEF e
<1>4. Sound(e)
  BY <1>2 DEF Stored, Sound, StatusesAgree, MinersSame, RoundsSame, CoinsSame
<1>5. Booked(e, exact)
  BY <1>2, BooksStay DEF Stored, RoundsSame, CoinsSame
<1>6. Known(e, tk) /\ Covered(e, p, exact)
  BY <1>2 DEF Stored, Known, Covered, RoundsSame, CoinsSame
<1> QED
  BY <1>2, <1>3, <1>4, <1>5, <1>6 DEF Ends, Stored, MinersSame, e

\* Rows that nobody touches are not behind.
LEMMA NoneBehind ==
  ASSUME NEW db \in PoolTables, NEW e, MinersSame(e, db), CountsSame(e, db)
  PROVE  MinersAhead(e, db) /\ (CountersAgree(db) => CountersAgree(e))
<1>1. db.miners \in Rows
  BY TableTypes
<1>2. \A n \in Name : db.miners[n] # NoRow => db.miners[n].invalid \in Nat
  BY <1>1, RowsTyped
<1> QED
  BY <1>2 DEF MinersAhead, CountersAgree, MinersSame, CountsSame

LEMMA RecordBlockEnds ==
  ASSUME PoolConnection, NEW db, NEW tk, NEW p, NEW exact,
         Stored(db, tk, p, exact), CallersTyped(tk, p), NEW b \in Block,
         tk[b] = "record_block"
  PROVE  Ends(db, <<"record_block", b>>, tk, p, exact)
<1> DEFINE h == <<"record_block", b>>
           e == Effect(h, db)
<1>1. db \in PoolTables /\ CountersAgree(db)
  BY DEF Stored, Sound
<1>2. /\ e \in PoolTables
      /\ e.blocks = [db.blocks EXCEPT ![b] = "immature"]
      /\ e.rounds = db.rounds /\ e.credits = db.credits
      /\ MinersSame(e, db) /\ CountsSame(e, db) /\ CoinsSame(e, db)
  BY <1>1, RecordBlockEffect
<1>3. PayReturns(p, h) = p /\ PayRaises(p, h) = p
  BY PayStays DEF Writing
<1>4. \A c \in Block : /\ TaskReturns(tk, h)[c] = IF c = b THEN "create_round" ELSE tk[c]
                       /\ TaskRaises(tk, h)[c] = IF c = b THEN "done" ELSE tk[c]
  BY DEF TaskReturns, TaskRaises, NextWrite
<1>5. db.blocks \in [Block -> Status] /\ db.rounds[b] = "none"
  BY <1>1, TableTypes DEF Stored, Known
<1> HIDE DEF e, h
<1>6. MinersAhead(e, db) /\ CountersAgree(e)
  BY <1>1, <1>2, NoneBehind
<1>7. StatusesAgree(e)
  BY <1>2, <1>5 DEF Stored, Sound, StatusesAgree
<1>8. Sound(e)
  BY <1>2, <1>6, <1>7 DEF Stored, Sound, MinersSame, CountsSame, CoinsSame
<1>9. Booked(e, exact)
  BY <1>2, BooksStay DEF Stored, CoinsSame
<1>10. Known(e, TaskReturns(tk, h)) /\ Known(e, TaskRaises(tk, h))
  BY <1>2, <1>4, <1>5 DEF Stored, Known
<1>11. Covered(e, p, exact)
  BY <1>2 DEF Stored, Covered, CoinsSame
<1> QED
  BY <1>2, <1>3, <1>6, <1>8, <1>9, <1>10, <1>11 DEF Ends, Stored, MinersSame, e, h

LEMMA CreateRoundEnds ==
  ASSUME PoolConnection, NEW db, NEW tk, NEW p, NEW exact,
         Stored(db, tk, p, exact), CallersTyped(tk, p), NEW b \in Block,
         tk[b] = "create_round"
  PROVE  Ends(db, <<"create_round", b>>, tk, p, exact)
<1> DEFINE h == <<"create_round", b>>
           e == Effect(h, db)
<1>1. db \in PoolTables /\ CountersAgree(db)
  BY DEF Stored, Sound
<1>2. /\ e \in PoolTables
      /\ e.blocks = db.blocks
      /\ e.rounds = [db.rounds EXCEPT ![b] = "immature"]
      /\ e.credits = [db.credits EXCEPT ![b] = Credit[b]]
      /\ MinersSame(e, db) /\ CountsSame(e, db) /\ CoinsSame(e, db)
  BY <1>1, CreateRoundEffect
<1>3. PayReturns(p, h) = p /\ PayRaises(p, h) = p
  BY PayStays DEF Writing
<1>4. \A c \in Block : /\ TaskReturns(tk, h)[c] = IF c = b THEN "add_immature" ELSE tk[c]
                       /\ TaskRaises(tk, h)[c] = IF c = b THEN "done" ELSE tk[c]
  BY DEF TaskReturns, TaskRaises, NextWrite
<1>5. /\ db.rounds \in [Block -> Status] /\ db.credits \in [Block -> [Addr -> Nat]]
      /\ db.rounds[b] = "none" /\ db.blocks[b] = "immature"
  BY <1>1, TableTypes DEF Stored, Known
<1> HIDE DEF e, h
<1>6. MinersAhead(e, db) /\ CountersAgree(e)
  BY <1>1, <1>2, NoneBehind
<1>7. StatusesAgree(e)
  BY <1>2, <1>5 DEF Stored, Sound, StatusesAgree
<1>8. Sound(e)
  BY <1>2, <1>6, <1>7 DEF Stored, Sound, MinersSame, CountsSame, CoinsSame
<1>9. Booked(e, exact)
  <2>1. {c \in Block : e.rounds[c] = "credited"} = {c \in Block : db.rounds[c] = "credited"}
    BY <1>2, <1>5
  <2> QED
    BY <1>2, <2>1 DEF Stored, CoinsSame, Booked
<1>10. Known(e, TaskReturns(tk, h)) /\ Known(e, TaskRaises(tk, h))
  BY <1>2, <1>4, <1>5 DEF Stored, Known
<1>11. Covered(e, p, exact)
  BY <1>2 DEF Stored, Covered, CoinsSame
<1> QED
  BY <1>2, <1>3, <1>6, <1>8, <1>9, <1>10, <1>11 DEF Ends, Stored, MinersSame, e, h

LEMMA AddImmatureEnds ==
  ASSUME PoolConnection, NEW db, NEW tk, NEW p, NEW exact,
         Stored(db, tk, p, exact), CallersTyped(tk, p), NEW b \in Block,
         tk[b] = "add_immature"
  PROVE  Ends(db, <<"add_immature", b>>, tk, p, exact)
<1> DEFINE h == <<"add_immature", b>>
           e == Effect(h, db)
<1>1. db \in PoolTables /\ CountersAgree(db)
  BY DEF Stored, Sound
<1>2. /\ e \in PoolTables /\ e.payee = Addr
      /\ e.balance = db.balance /\ e.paid = db.paid
      /\ MinersSame(e, db) /\ CountsSame(e, db) /\ RoundsSame(e, db)
  BY <1>1, AddImmatureEffect
<1>3. PayReturns(p, h) = p /\ PayRaises(p, h) = p
  BY PayStays DEF Writing
<1>4. \A c \in Block : /\ TaskReturns(tk, h)[c] = IF c = b THEN "done" ELSE tk[c]
                       /\ TaskRaises(tk, h)[c] = IF c = b THEN "done" ELSE tk[c]
  BY DEF TaskReturns, TaskRaises, NextWrite
<1> HIDE DEF e, h
<1>5. MinersAhead(e, db) /\ CountersAgree(e)
  BY <1>1, <1>2, NoneBehind
<1>6. Sound(e)
  BY <1>2, <1>5 DEF Stored, Sound, StatusesAgree, MinersSame, RoundsSame, CountsSame
<1>7. Booked(e, exact)
  BY <1>2, BooksStay DEF Stored, RoundsSame
<1>8. Known(e, TaskReturns(tk, h)) /\ Known(e, TaskRaises(tk, h))
  BY <1>2, <1>4 DEF Stored, Known, RoundsSame
<1>9. Covered(e, p, exact)
  BY <1>2 DEF Stored, Covered
<1> QED
  BY <1>2, <1>3, <1>5, <1>6, <1>7, <1>8, <1>9 DEF Ends, Stored, MinersSame, e, h

\* A round that matures adds its credits to the balances of all its payees, or
\* to nobody's when they have no rows.
LEMMA MatureEnds ==
  ASSUME PoolConnection, NEW db, NEW tk, NEW p, NEW exact,
         Stored(db, tk, p, exact), CallersTyped(tk, p), NEW b \in Block,
         tk[b] = "done", db.rounds[b] = "immature"
  PROVE  Ends(db, <<"mature_round", b>>, tk, p, exact)
<1> DEFINE h == <<"mature_round", b>>
           e == Effect(h, db)
<1>1. db \in PoolTables /\ CountersAgree(db)
  BY DEF Stored, Sound
<1>2. /\ e \in PoolTables
      /\ e.credits = db.credits
      /\ e.rounds = [db.rounds EXCEPT ![b] = "credited"]
      /\ e.blocks = [db.blocks EXCEPT ![b] = "credited"]
      /\ e.payee = db.payee /\ e.paid = db.paid
      /\ MinersSame(e, db) /\ CountsSame(e, db)
      /\ \A a \in Addr : e.balance[a] =
            db.balance[a] + IF a \in db.payee THEN db.credits[b][a] ELSE 0
  BY <1>1, MatureEffect
<1>3. /\ PayReturns(p, h) = p /\ PayRaises(p, h) = p
      /\ TaskReturns(tk, h) = tk /\ TaskRaises(tk, h) = tk
  BY PayStays, OthersStay
<1>4. /\ db.rounds \in [Block -> Status] /\ db.blocks \in [Block -> Status]
      /\ db.balance \in [Addr -> Nat] /\ db.paid \in [Addr -> Nat]
      /\ db.credits[b] = Credit[b]
  BY <1>1, TableTypes DEF Stored, Sound, StatusesAgree
<1> HIDE DEF e, h
<1>5. MinersAhead(e, db) /\ CountersAgree(e)
  BY <1>1, <1>2, NoneBehind
<1>6. StatusesAgree(e)
  BY <1>2, <1>4 DEF Stored, Sound, StatusesAgree
<1>7. Sound(e)
  BY <1>2, <1>5, <1>6 DEF Stored, Sound, MinersSame, CountsSame
<1>8. Booked(e, exact)
  <2>1. PICK granted \in SUBSET {c \in Block : db.rounds[c] = "credited"} :
           \A a \in Addr :
              /\ db.balance[a] <= Granted(a, granted)
              /\ exact => db.balance[a] + db.paid[a] = Granted(a, granted)
    BY DEF Stored, Booked
  <2>2. /\ granted \in SUBSET Block /\ b \in Block \ granted
        /\ granted \cup {b} \in SUBSET {c \in Block : e.rounds[c] = "credited"}
        /\ granted \in SUBSET {c \in Block : e.rounds[c] = "credited"}
    BY <1>2, <1>4
  <2>3. CASE db.payee = Addr
    <3>1. ASSUME NEW a \in Addr
          PROVE  /\ e.balance[a] <= Granted(a, granted \cup {b})
                 /\ exact => e.balance[a] + e.paid[a] = Granted(a, granted \cup {b})
      <4>1. e.balance[a] = db.balance[a] + Credit[b][a] /\ e.paid[a] = db.paid[a]
        BY <1>2, <1>4, <2>3
      <4>2. Granted(a, granted \cup {b}) = Granted(a, granted) + Credit[b][a]
        BY <2>2, GrantedAdd
      <4>3. /\ db.balance[a] \in Nat /\ db.paid[a] \in Nat /\ Credit[b][a] \in Nat
            /\ Granted(a, granted) \in Nat
        BY <1>4, <2>2, GrantedType, DatabaseAssumption
      <4> QED
        BY <2>1, <4>1, <4>2, <4>3
    <3> QED
      BY <2>2, <3>1 DEF Booked
  <2>4. CASE db.payee = {}
    <3>1. \A a \in Addr : e.balance[a] = db.balance[a]
      BY <1>2, <1>4, <2>4
    <3> QED
      BY <1>2, <2>1, <2>2, <3>1 DEF Booked
  <2> QED
    BY <2>3, <2>4 DEF Stored, Sound
<1>9. Known(e, tk)
  BY <1>2, <1>4 DEF Stored, Known
<1>10. Covered(e, p, exact)
  <2> SUFFICES ASSUME p # Asleep, exact PROVE e.balance[p[2][1]] >= p[2][2]
    BY DEF Covered
  <2>1. p[2][1] \in Addr /\ p[2][2] \in Nat
    BY GrantedType DEF CallersTyped, Payments
  <2>2. e.balance[p[2][1]] >= db.balance[p[2][1]] /\ db.balance[p[2][1]] \in Nat
        /\ e.balance[p[2][1]] \in Nat
    <3>1. Credit[b][p[2][1]] \in Nat
      BY <2>1, DatabaseAssumption
    <3> QED
      BY <1>2, <1>4, <2>1, <3>1
  <2>3. db.balance[p[2][1]] >= p[2][2]
    BY DEF Stored, Covered
  <2> QED
    BY <2>1, <2>2, <2>3
<1> QED
  BY <1>2, <1>3, <1>5, <1>7, <1>8, <1>9, <1>10 DEF Ends, Stored, MinersSame, e, h

LEMMA PayoutTyped ==
  ASSUME NEW tk, NEW p, CallersTyped(tk, p), p # Asleep
  PROVE  /\ p[1] \in {"record_payout", "debit_balance"}
         /\ p = <<p[1], <<p[2][1], p[2][2]>>>>
         /\ p[2] \in Payments
         /\ p[2][1] \in Addr /\ p[2][2] \in 0 .. Granted(p[2][1], Block)
         /\ p[2][2] \in Nat
<1>1. p \in {"record_payout", "debit_balance"} \X Payments
  BY DEF CallersTyped
<1>2. PICK a \in Addr : p[2] \in {a} \X (0 .. Granted(a, Block))
  BY <1>1 DEF Payments
<1>3. Granted(a, Block) \in Nat
  BY GrantedType
<1> QED
  BY <1>1, <1>2, <1>3

LEMMA RecordPayoutEnds ==
  ASSUME PoolConnection, NEW db, NEW tk, NEW p, NEW exact,
         Stored(db, tk, p, exact), CallersTyped(tk, p), p # Asleep,
         p[1] = "record_payout"
  PROVE  Ends(db, p, tk, p, exact)
<1> DEFINE e == Effect(p, db)
<1>1. db \in PoolTables /\ CountersAgree(db)
  BY DEF Stored, Sound
<1>2. /\ e \in PoolTables /\ e.payee = db.payee
      /\ e.balance = db.balance /\ e.paid = db.paid
      /\ MinersSame(e, db) /\ CountsSame(e, db) /\ RoundsSame(e, db)
  <2>1. PICK a \in Addr, x \in Nat : x \in 0 .. Granted(a, Block) /\ p = <<"record_payout", <<a, x>>>>
    BY PayoutTyped
  <2> HIDE DEF e
  <2>2. e = Effect(<<"record_payout", <<a, x>>>>, db)
    BY <2>1 DEF e
  <2> QED
    BY <1>1, <2>1, <2>2, RecordPayoutEffect
<1>3. TaskReturns(tk, p) = tk /\ TaskRaises(tk, p) = tk
  BY OthersStay
<1>4. PayReturns(p, p) = <<"debit_balance", p[2]>> /\ PayRaises(p, p) = Asleep
  BY DEF PayReturns, PayRaises
<1> HIDE DEF e
<1>5. MinersAhead(e, db) /\ CountersAgree(e)
  BY <1>1, <1>2, NoneBehind
<1>6. Sound(e)
  BY <1>2, <1>5 DEF Stored, Sound, StatusesAgree, MinersSame, RoundsSame, CountsSame
<1>7. Booked(e, exact)
  BY <1>2, BooksStay DEF Stored, RoundsSame
<1>8. Known(e, tk)
  BY <1>2 DEF Stored, Known, RoundsSame
<1>9. Covered(e, PayReturns(p, p), exact) /\ Covered(e, PayRaises(p, p), exact)
  <2>1. \A q : q[2] = p[2] => Covered(e, q, exact)
    BY <1>2 DEF Stored, Covered
  <2>2. Covered(e, <<"debit_balance", p[2]>>, exact)
    BY <2>1
  <2>3. Covered(e, Asleep, exact)
    BY DEF Covered
  <2> QED
    BY <1>4, <2>2, <2>3
<1> QED
  BY <1>2, <1>3, <1>5, <1>6, <1>7, <1>8, <1>9 DEF Ends, Stored, MinersSame, e

\* What is debited was balance before, and the payout is over.
LEMMA DebitEnds ==
  ASSUME PoolConnection, NEW db, NEW tk, NEW p, NEW exact,
         Stored(db, tk, p, exact), CallersTyped(tk, p), p # Asleep,
         p[1] = "debit_balance"
  PROVE  Ends(db, p, tk, p, exact)
<1> DEFINE e == Effect(p, db)
<1>1. db \in PoolTables /\ CountersAgree(db)
  BY DEF Stored, Sound
<1>2. PICK a \in Addr, x \in Nat : x \in 0 .. Granted(a, Block) /\ p = <<"debit_balance", <<a, x>>>>
  BY PayoutTyped
<1>3. /\ e \in PoolTables /\ e.payee = db.payee
      /\ e.balance = [db.balance EXCEPT ![a] = IF @ > x THEN @ - x ELSE 0]
      /\ e.paid = [db.paid EXCEPT ![a] = @ + x]
      /\ MinersSame(e, db) /\ CountsSame(e, db) /\ RoundsSame(e, db)
  <2> HIDE DEF e
  <2>1. e = Effect(<<"debit_balance", <<a, x>>>>, db)
    BY <1>2 DEF e
  <2> QED
    BY <1>1, <1>2, <2>1, DebitEffect
<1>4. TaskReturns(tk, p) = tk /\ TaskRaises(tk, p) = tk
  BY OthersStay
<1>5. PayReturns(p, p) = Asleep /\ PayRaises(p, p) = Asleep
  BY DEF PayReturns, PayRaises
<1>6. db.balance \in [Addr -> Nat] /\ db.paid \in [Addr -> Nat]
  BY <1>1, TableTypes
<1> HIDE DEF e
<1>7. MinersAhead(e, db) /\ CountersAgree(e)
  BY <1>1, <1>3, NoneBehind
<1>8. Sound(e)
  BY <1>3, <1>7 DEF Stored, Sound, StatusesAgree, MinersSame, RoundsSame, CountsSame
<1>9. Booked(e, exact)
  <2>1. PICK granted \in SUBSET {c \in Block : db.rounds[c] = "credited"} :
           \A c \in Addr :
              /\ db.balance[c] <= Granted(c, granted)
              /\ exact => db.balance[c] + db.paid[c] = Granted(c, granted)
    BY DEF Stored, Booked
  <2>2. exact => db.balance[a] >= x
    <3>1. p[2][1] = a /\ p[2][2] = x
      BY <1>2
    <3> QED
      BY <3>1 DEF Stored, Covered
  <2>3. ASSUME NEW c \in Addr
        PROVE  /\ e.balance[c] <= Granted(c, granted)
               /\ exact => e.balance[c] + e.paid[c] = Granted(c, granted)
    <3>1. Granted(c, granted) \in Nat
      BY GrantedType
    <3>2. CASE c # a
      BY <1>3, <1>6, <2>1, <3>2
    <3>3. CASE c = a
      <4>1. /\ e.balance[a] = IF db.balance[a] > x THEN db.balance[a] - x ELSE 0
            /\ e.paid[a] = db.paid[a] + x
            /\ db.balance[a] \in Nat /\ db.paid[a] \in Nat
        BY <1>3, <1>6
      <4> QED
        BY <2>1, <2>2, <3>1, <3>3, <4>1
    <3> QED
      BY <3>2, <3>3
  <2>4. e.rounds = db.rounds
    BY <1>3 DEF RoundsSame
  <2> QED
    BY <2>3, <2>4 DEF Booked
<1>10. Known(e, tk)
  BY <1>3 DEF Stored, Known, RoundsSame
<1>11. Covered(e, Asleep, exact)
  BY DEF Covered
<1> QED
  BY <1>3, <1>4, <1>5, <1>7, <1>8, <1>9, <1>10, <1>11 DEF Ends, Stored, MinersSame, e

\* Every method, as the pool calls it, leaves sound tables.
LEMMA MethodEnds ==
  ASSUME PoolConnection, NEW db, NEW tk, NEW p, NEW exact,
         Stored(db, tk, p, exact), CallersTyped(tk, p), db.layout = "canonical",
         NEW h, Locked(h, db, tk, p)
  PROVE  Ends(db, h, tk, p, exact)
<1>1. CASE \E n \in Name :
              \/ h = <<"upsert_miner", n>>
              \/ h = <<"valid_share", n>> /\ db.shares[n] < MaxShares
              \/ /\ h = <<"invalid_share", n>>
                 /\ db.miners[n] # NoRow /\ db.miners[n].invalid < MaxShares
  BY <1>1, ShareEnds
<1>2. CASE \E b \in Block : h = <<tk[b], b>> /\ tk[b] \in Writing
  <2>1. PICK b \in Block : h = <<tk[b], b>> /\ tk[b] \in Writing
    BY <1>2
  <2> QED
    BY <2>1, RecordBlockEnds, CreateRoundEnds, AddImmatureEnds DEF Writing
<1>3. CASE \E b \in Block :
              h = <<"mature_round", b>> /\ db.rounds[b] = "immature" /\ tk[b] = "done"
  BY <1>3, MatureEnds
<1>4. CASE h = p /\ p # Asleep
  BY <1>4, PayoutTyped, RecordPayoutEnds, DebitEnds
<1> QED
  BY <1>1, <1>2, <1>3, <1>4 DEF Locked

-----------------------------------------------------------------------------
(* The constructor.                                                        *)

\* Where it is, and what its statements have made of the tables so far.
Start(o, db) ==
    /\ o \in {"tables", "metrics", "create", "copy", "shares", "count", "drop",
              "rename", "columns"}
    /\ o = "metrics" => db.layout # "absent"
    /\ o \in {"create", "copy", "shares", "count", "drop"} => db.layout = "legacy"
    /\ o \in {"copy", "shares", "count", "drop", "rename"} => db.spare
    /\ o = "copy" => db.copy = NoRows
    /\ o \in {"shares", "count", "drop"} =>
          \A n \in Name : db.miners[n] # NoRow =>
             db.copy[n] # NoRow /\ db.copy[n].invalid >= db.miners[n].invalid
    /\ o \in {"drop", "rename"} =>
          \A n \in Name : db.copy[n] # NoRow => db.copy[n].valid <= db.shares[n]
    /\ o = "rename" => db.layout = "absent"
    /\ o = "columns" => db.layout = "canonical"

KeepsRows(e, db) ==
    \A n \in Name : \A old \in Held(db, n) :
       \E new \in Held(e, n) : new.invalid >= old.invalid

\* What a statement of the constructor leaves for the rest of it.
Builds(db, e, o) ==
    /\ e \in PoolTables /\ CountersAgree(e)
    /\ ~e.spare => e.copy = NoRows
    /\ e.layout = "absent" => e.miners = NoRows
    /\ RoundsSame(e, db) /\ CoinsSame(e, db)
    /\ KeepsRows(e, db)
    /\ Start(o, e)

LEMMA HeldTyped ==
  ASSUME NEW db \in PoolTables, NEW n \in Name, NEW r \in Held(db, n)
  PROVE  r.invalid \in Nat /\ r.valid \in Nat
<1>1. db.miners \in Rows /\ db.copy \in Rows /\ MaxShares \in Nat
  BY TableTypes, DatabaseAssumption
<1> QED
  BY <1>1, RowsTyped DEF Held

\* The rows that are still there are kept.
LEMMA RowsKept ==
  ASSUME NEW db \in PoolTables, NEW e,
         \A n \in Name : \A r \in Held(db, n) : r \in Held(e, n)
  PROVE  KeepsRows(e, db)
<1> SUFFICES ASSUME NEW n \in Name, NEW r \in Held(db, n)
             PROVE  \E new \in Held(e, n) : new.invalid >= r.invalid
  BY DEF KeepsRows
<1>1. r \in Held(e, n) /\ r.invalid \in Nat
  BY HeldTyped
<1> QED
  BY <1>1

LEMMA Rebuilt ==
  ASSUME NEW db, NEW e, NEW o, Builds(db, e, o), NEW tk, NEW p, NEW exact,
         Stored(db, tk, p, exact)
  PROVE  Stored(e, tk, p, exact)
<1>1. Sound(e)
  BY DEF Builds, Stored, Sound, StatusesAgree, RoundsSame, CoinsSame
<1>2. Booked(e, exact)
  BY BooksStay DEF Builds, Stored, RoundsSame, CoinsSame
<1>3. Known(e, tk) /\ Covered(e, p, exact)
  BY DEF Builds, Stored, Known, Covered, RoundsSame, CoinsSame
<1> QED
  BY <1>1, <1>2, <1>3 DEF Stored

LEMMA WriteTables ==
  ASSUME NEW db \in PoolTables, NEW x \in Rows, NEW c \in SUBSET Range(Columns)
  PROVE  LET e == [db EXCEPT !.layout = "canonical", !.miners = x, !.columns = c]
         IN  /\ e \in PoolTables
             /\ e.layout = "canonical" /\ e.miners = x
             /\ e.spare = db.spare /\ e.copy = db.copy
             /\ e.shares = db.shares /\ RoundsSame(e, db) /\ CoinsSame(e, db)
  BY DEF PoolTables, RoundsSame, CoinsSame

LEMMA WriteColumns ==
  ASSUME NEW db \in PoolTables, NEW c \in SUBSET Range(Columns)
  PROVE  LET e == [db EXCEPT !.columns = c]
         IN  /\ e \in PoolTables
             /\ e.layout = db.layout /\ e.miners = db.miners
             /\ e.spare = db.spare /\ e.copy = db.copy
             /\ e.shares = db.shares /\ RoundsSame(e, db) /\ CoinsSame(e, db)
  BY DEF PoolTables, RoundsSame, CoinsSame

LEMMA WriteSpare ==
  ASSUME NEW db \in PoolTables
  PROVE  LET e == [db EXCEPT !.spare = TRUE]
         IN  /\ e \in PoolTables
             /\ e.layout = db.layout /\ e.miners = db.miners
             /\ e.spare = TRUE /\ e.copy = db.copy
             /\ e.shares = db.shares /\ RoundsSame(e, db) /\ CoinsSame(e, db)
  BY DEF PoolTables, RoundsSame, CoinsSame

LEMMA WriteCopy ==
  ASSUME NEW db \in PoolTables, NEW y \in Rows
  PROVE  LET e == [db EXCEPT !.copy = y]
         IN  /\ e \in PoolTables
             /\ e.layout = db.layout /\ e.miners = db.miners
             /\ e.spare = db.spare /\ e.copy = y
             /\ e.shares = db.shares /\ RoundsSame(e, db) /\ CoinsSame(e, db)
  BY DEF PoolTables, RoundsSame, CoinsSame

LEMMA WriteDrop ==
  ASSUME NEW db \in PoolTables, NEW x \in Rows
  PROVE  LET e == [db EXCEPT !.layout = "absent", !.miners = x]
         IN  /\ e \in PoolTables
             /\ e.layout = "absent" /\ e.miners = x
             /\ e.spare = db.spare /\ e.copy = db.copy
             /\ e.shares = db.shares /\ RoundsSame(e, db) /\ CoinsSame(e, db)
  BY DEF PoolTables, RoundsSame, CoinsSame

LEMMA WriteRename ==
  ASSUME NEW db \in PoolTables
  PROVE  /\ Renamed(db) \in PoolTables
         /\ Renamed(db).layout = "canonical" /\ Renamed(db).miners = db.copy
         /\ Renamed(db).spare = FALSE /\ Renamed(db).copy = NoRows
         /\ Renamed(db).shares = db.shares
         /\ RoundsSame(Renamed(db), db) /\ CoinsSame(Renamed(db), db)
<1>1. NoRows \in Rows
  BY DEF NoRows, Rows
<1> QED
  BY <1>1 DEF Renamed, PoolTables, RoundsSame, CoinsSame

LEMMA NoRowsAre == NoRows \in Rows /\ \A n \in Name : NoRows[n] = NoRow
  BY DEF NoRows, Rows

LEMMA BuildTables ==
  ASSUME NEW db, Sound(db), Start("tables", db)
  PROVE  Builds(db, Created(db), "metrics")
<1> DEFINE c == IF db.spare THEN db.columns ELSE Range(Columns)
           e == [db EXCEPT !.layout = "canonical", !.miners = NoRows, !.columns = c]
<1>1. db \in PoolTables
  BY DEF Sound
<1>2. CASE db.layout # "absent"
  <2>1. Created(db) = db
    BY <1>2 DEF Created
  <2>2. KeepsRows(db, db)
    BY <1>1, RowsKept
  <2> QED
    BY <1>2, <2>1, <2>2 DEF Builds, Sound, RoundsSame, CoinsSame, Start
<1>3. CASE db.layout = "absent"
  <2>1. Created(db) = e
    BY <1>3 DEF Created
  <2>2. c \in SUBSET Range(Columns)
    BY <1>1, TableTypes
  <2> HIDE DEF c
  <2>3. /\ e \in PoolTables
        /\ e.layout = "canonical" /\ e.miners = NoRows
        /\ e.spare = db.spare /\ e.copy = db.copy
        /\ e.shares = db.shares /\ RoundsSame(e, db) /\ CoinsSame(e, db)
    BY <1>1, <2>2, NoRowsAre, WriteTables
  <2> HIDE DEF e
  <2>4. CountersAgree(e)
    BY <2>3, NoRowsAre DEF CountersAgree
  <2>5. KeepsRows(e, db)
    BY <1>1, <1>3, <2>3, NoRowsAre, RowsKept DEF Sound, Held
  <2>6. Start("metrics", e)
    BY <2>3 DEF Start
  <2> QED
    BY <2>1, <2>3, <2>4, <2>5, <2>6 DEF Builds, Sound
<1> QED
  BY <1>2, <1>3

LEMMA BuildColumns ==
  ASSUME NEW db, Sound(db), NEW o, Start(o, db), NEW c \in SUBSET Range(Columns), NEW then,
         \/ o = "metrics" /\ then = IF db.layout = "legacy" THEN "create" ELSE "columns"
         \/ o = "columns" /\ then = o
  PROVE  Builds(db, [db EXCEPT !.columns = c], then)
<1> DEFINE e == [db EXCEPT !.columns = c]
<1>1. db \in PoolTables
  BY DEF Sound
<1>2. /\ e \in PoolTables
      /\ e.layout = db.layout /\ e.miners = db.miners
      /\ e.spare = db.spare /\ e.copy = db.copy
      /\ e.shares = db.shares /\ RoundsSame(e, db) /\ CoinsSame(e, db)
  BY <1>1, WriteColumns
<1> HIDE DEF e
<1>3. CountersAgree(e)
  BY <1>2 DEF Sound, CountersAgree
<1>4. KeepsRows(e, db)
  BY <1>1, <1>2, RowsKept DEF Held
<1>5. db.layout \in {"absent", "legacy", "canonical"}
  BY <1>1, TableTypes
<1>6. Start(then, e)
  BY <1>2, <1>5 DEF Start
<1> QED
  BY <1>2, <1>3, <1>4, <1>6 DEF Builds, Sound, e

LEMMA BuildNew ==
  ASSUME NEW db, Sound(db), Start("create", db), ~db.spare
  PROVE  Builds(db, [db EXCEPT !.spare = TRUE], "copy")
<1> DEFINE e == [db EXCEPT !.spare = TRUE]
<1>1. db \in PoolTables
  BY DEF Sound
<1>2. /\ e \in PoolTables
      /\ e.layout = db.layout /\ e.miners = db.miners
      /\ e.spare = TRUE /\ e.copy = db.copy
      /\ e.shares = db.shares /\ RoundsSame(e, db) /\ CoinsSame(e, db)
  BY <1>1, WriteSpare
<1> HIDE DEF e
<1>3. CountersAgree(e)
  BY <1>2 DEF Sound, CountersAgree
<1>4. KeepsRows(e, db)
  BY <1>1, <1>2, RowsKept DEF Held
<1>5. Start("copy", e)
  BY <1>2 DEF Start, Sound
<1> QED
  BY <1>2, <1>3, <1>4, <1>5 DEF Builds, Sound, e

\* The statements that fill the new table: no row is lost, no invalid share
\* forgotten.
LEMMA BuildCopy ==
  ASSUME NEW db, Sound(db), NEW o, Start(o, db), NEW y \in Rows, NEW then,
         \/ o = "copy" /\ then = "shares" /\ y = db.miners
         \/ /\ o = "shares" /\ then = "count"
            /\ \A n \in Name : db.copy[n] # NoRow => y[n] = db.copy[n]
         \/ /\ o = "count" /\ then = "drop"
            /\ \A n \in Name :
                  /\ db.copy[n] # NoRow => y[n] # NoRow /\ y[n].invalid = db.copy[n].invalid
                  /\ y[n] # NoRow => y[n].valid <= db.shares[n]
  PROVE  Builds(db, [db EXCEPT !.copy = y], then)
<1> DEFINE e == [db EXCEPT !.copy = y]
<1>1. db \in PoolTables
  BY DEF Sound
<1>2. /\ e \in PoolTables
      /\ e.layout = db.layout /\ e.miners = db.miners
      /\ e.spare = db.spare /\ e.copy = y
      /\ e.shares = db.shares /\ RoundsSame(e, db) /\ CoinsSame(e, db)
  BY <1>1, WriteCopy
<1> HIDE DEF e
<1>3. CountersAgree(e)
  BY <1>2 DEF Sound, CountersAgree
<1>4. db.layout = "legacy" /\ db.spare
  BY DEF Start
<1>5. \A n \in Name : \A r \in Held(db, n) : r.invalid \in Nat
  BY <1>1, HeldTyped
<1>6. KeepsRows(e, db)
  <2> SUFFICES ASSUME NEW n \in Name, NEW r \in Held(db, n)
               PROVE  \E new \in Held(e, n) : new.invalid >= r.invalid
    BY DEF KeepsRows
  <2>1. r \in {db.miners[n], db.copy[n]} /\ r # NoRow /\ r.invalid \in Nat
    BY <1>5 DEF Held
  <2>2. CASE r = db.miners[n]
    BY <1>2, <2>1, <2>2 DEF Held
  <2>3. CASE r = db.copy[n]
    <3>1. y[n] # NoRow /\ y[n].invalid = r.invalid
      BY <2>1, <2>3, NoRowsAre DEF Start
    <3> QED
      BY <1>2, <2>1, <3>1 DEF Held
  <2> QED
    BY <2>1, <2>2, <2>3
<1>7. Start(then, e)
  <2>1. ASSUME NEW n \in Name, db.miners[n] # NoRow
        PROVE  y[n] # NoRow /\ y[n].invalid >= db.miners[n].invalid
    <3>1. db.miners[n].invalid \in Nat
      BY <1>5, <2>1 DEF Held
    <3> QED
      BY <2>1, <3>1 DEF Start
  <2> QED
    BY <1>2, <1>4, <2>1 DEF Start
<1> QED
  BY <1>2, <1>3, <1>4, <1>6, <1>7 DEF Builds, e

LEMMA BuildDrop ==
  ASSUME NEW db, Sound(db), Start("drop", db)
  PROVE  Builds(db, Dropped(db), "rename")
<1> DEFINE e == Dropped(db)
<1>1. db \in PoolTables
  BY DEF Sound
<1>2. /\ e \in PoolTables
      /\ e.layout = "absent" /\ e.miners = NoRows
      /\ e.spare = db.spare /\ e.copy = db.copy
      /\ e.shares = db.shares /\ RoundsSame(e, db) /\ CoinsSame(e, db)
  BY <1>1, NoRowsAre, WriteDrop DEF Dropped
<1> HIDE DEF e
<1>3. CountersAgree(e)
  BY <1>2 DEF CountersAgree
<1>4. KeepsRows(e, db)
  <2> SUFFICES ASSUME NEW n \in Name, NEW r \in Held(db, n)
               PROVE  \E new \in Held(e, n) : new.invalid >= r.invalid
    BY DEF KeepsRows
  <2>1. r \in {db.miners[n], db.copy[n]} /\ r # NoRow /\ r.invalid \in Nat
    BY <1>1, HeldTyped DEF Held
  <2>2. CASE r = db.miners[n]
    BY <1>2, <2>1, <2>2 DEF Held, Start
  <2>3. CASE r = db.copy[n]
    BY <1>2, <2>1, <2>3 DEF Held
  <2> QED
    BY <2>1, <2>2, <2>3
<1>5. Start("rename", e)
  BY <1>2 DEF Start
<1> QED
  BY <1>2, <1>3, <1>4, <1>5 DEF Builds, Sound, Start, e

LEMMA BuildRename ==
  ASSUME NEW db, Sound(db), Start("rename", db)
  PROVE  Builds(db, Renamed(db), "columns")
<1> DEFINE e == Renamed(db)
<1>1. db \in PoolTables /\ db.copy \in Rows /\ db.miners = NoRows
  BY TableTypes DEF Sound, Start
<1>2. /\ e \in PoolTables
      /\ e.layout = "canonical" /\ e.miners = db.copy
      /\ e.spare = FALSE /\ e.copy = NoRows
      /\ e.shares = db.shares /\ RoundsSame(e, db) /\ CoinsSame(e, db)
  BY <1>1, WriteRename
<1> HIDE DEF e
<1>3. CountersAgree(e)
  BY <1>2 DEF CountersAgree, Start
<1>4. KeepsRows(e, db)
  BY <1>1, <1>2, NoRowsAre, RowsKept DEF Held
<1>5. Start("columns", e)
  BY <1>2 DEF Start
<1> QED
  BY <1>2, <1>3, <1>4, <1>5 DEF Builds, e

-----------------------------------------------------------------------------
(* The invariant.                                                          *)

\* What is committed and what the callers see are sound tables; while a method
\* runs its caller's knowledge is still true; before the pool serves, the
\* tables are as far as the constructor has come.
DInv ==
    /\ ConnectionInv
    /\ CallersTyped(task, pay) /\ leant \in BOOLEAN /\ ready \in BOOLEAN
    /\ Stored(disk, task, pay, ~leant) /\ Stored(seen, task, pay, ~leant)
    /\ MinersAhead(seen, disk)
    /\ holder # Nobody => Locked(holder, seen, task, pay)
    /\ ready => /\ opening = "serving"
                /\ disk.layout = "canonical" /\ seen.layout = "canonical"
    /\ ~ready => /\ view = disk /\ seen = disk /\ holder = Nobody
                 /\ Start(opening, disk)

LEMMA Reflexive ==
  ASSUME NEW db \in PoolTables
  PROVE  MinersAhead(db, db)
<1>1. MinersSame(db, db) /\ CountsSame(db, db)
  BY DEF MinersSame, CountsSame
<1> QED
  BY <1>1, NoneBehind

\* Whoever ends without an effect leaves what was there.
LEMMA RaisesStored ==
  ASSUME NEW db, NEW tk, NEW p, NEW exact, NEW h, CallersTyped(tk, p),
         Stored(db, tk, p, exact)
  PROVE  Stored(db, TaskRaises(tk, h), PayRaises(p, h), exact)
<1>1. Known(db, TaskRaises(tk, h))
  BY DEF Stored, Known, TaskRaises
<1>2. Covered(db, PayRaises(p, h), exact)
  BY DEF Stored, Covered, PayRaises
<1> QED
  BY <1>1, <1>2 DEF Stored

LEMMA LockedIsMethod ==
  ASSUME NEW h, NEW db, NEW tk, NEW p, CallersTyped(tk, p), Locked(h, db, tk, p)
  PROVE  h \in PoolMethod /\ h[1] # "done"
<1>1. CASE \E n \in Name : h \in {<<"upsert_miner", n>>, <<"valid_share", n>>,
                                  <<"invalid_share", n>>}
  BY <1>1 DEF PoolMethod
<1>2. CASE \E b \in Block : h = <<tk[b], b>> /\ tk[b] \in Writing
  BY <1>2 DEF PoolMethod, Writing
<1>3. CASE \E b \in Block : h = <<"mature_round", b>>
  BY <1>3 DEF PoolMethod
<1>4. CASE h = p /\ p # Asleep
  BY <1>4 DEF CallersTyped, PoolMethod
<1> QED
  BY <1>1, <1>2, <1>3, <1>4 DEF Locked

LEMMA CallersStayTyped ==
  ASSUME NEW h, NEW db, NEW tk, NEW p, CallersTyped(tk, p), Locked(h, db, tk, p)
  PROVE  /\ CallersTyped(TaskReturns(tk, h), PayReturns(p, h))
         /\ CallersTyped(TaskRaises(tk, h), PayRaises(p, h))
<1>1. \A b \in Block : tk[b] \in Writing => NextWrite(tk[b]) \in Writing \cup {"done"}
  BY DEF Writing, NextWrite
<1>2. ASSUME NEW b \in Block
      PROVE  /\ TaskReturns(tk, h)[b] \in Writing \cup {"done"}
             /\ TaskRaises(tk, h)[b] \in Writing \cup {"done"}
  <2>1. tk[b] \in Writing \cup {"done"} /\ (h = <<tk[b], b>> => tk[b] # "done")
    BY LockedIsMethod DEF CallersTyped
  <2> QED
    BY <1>1, <2>1 DEF TaskReturns, TaskRaises
<1>3. /\ TaskReturns(tk, h) \in [Block -> Writing \cup {"done"}]
      /\ TaskRaises(tk, h) \in [Block -> Writing \cup {"done"}]
  BY <1>2 DEF TaskReturns, TaskRaises
<1>4. CASE p = Asleep
  <2>1. h # p
    <3>1. h[1] # "asleep"
      BY LockedIsMethod DEF PoolMethod
    <3> QED
      BY <1>4, <3>1 DEF Asleep
  <2> QED
    BY <1>3, <1>4, <2>1 DEF CallersTyped, PayReturns, PayRaises
<1>5. CASE p # Asleep
  <2>1. /\ PayReturns(p, h) \in {Asleep} \cup ({"record_payout", "debit_balance"} \X Payments)
        /\ PayRaises(p, h) \in {Asleep} \cup ({"record_payout", "debit_balance"} \X Payments)
    BY <1>5, PayoutTyped DEF CallersTyped, PayReturns, PayRaises
  <2> QED
    BY <1>3, <2>1 DEF CallersTyped
<1> QED
  BY <1>4, <1>5

\* A statement of the constructor builds the tables further, or it fails and
\* the next start begins again, or the pool serves.
LEMMA OpeningStep ==
  ASSUME DInv, Opening
  PROVE  /\ ~ready /\ UNCHANGED tasks
         /\ \/ \E e : Autocommit(e) /\ Builds(disk, e, opening')
            \/ UNCHANGED connection /\ opening' = "tables"
            \/ Open /\ opening' = "serving" /\ disk.layout = "canonical"
<1>1. ~ready /\ UNCHANGED tasks
  BY DEF Opening, CreateTables, AddMetrics, AddColumn, CreateNew, CopyMiners,
     CopyNames, CountShares, DropOld, RenameNew, StartFails, Serve, Do,
     Autocommit, Open
<1>2. view = disk /\ Sound(disk) /\ Start(opening, disk) /\ disk \in PoolTables
  BY <1>1 DEF DInv, Stored, Sound
<1>3. disk.columns \in SUBSET Range(Columns) /\ disk.miners \in Rows /\ disk.copy \in Rows
      /\ disk.shares \in [Name -> 0 .. MaxShares] /\ MaxShares \in Nat
  BY <1>2, TableTypes, DatabaseAssumption
<1>4. CASE CreateTables
  BY <1>1, <1>2, <1>4, BuildTables DEF CreateTables, Do
<1>5. CASE AddMetrics
  <2> DEFINE c == disk.columns \cup (Missing(disk) \cap {Columns[1]})
             o == IF disk.layout = "legacy" THEN "create" ELSE "columns"
  <2>1. /\ opening = "metrics" /\ opening' = o
        /\ Autocommit([disk EXCEPT !.columns = c])
    BY <1>2, <1>5 DEF AddMetrics, Do
  <2>2. c \in SUBSET Range(Columns)
    BY <1>3 DEF Missing
  <2> HIDE DEF c
  <2>3. Builds(disk, [disk EXCEPT !.columns = c], o)
    BY <1>2, <2>1, <2>2, BuildColumns
  <2> QED
    BY <1>1, <2>1, <2>3
<1>6. CASE AddColumn
  <2>1. PICK x \in Range(Columns) :
           /\ opening = "columns" /\ opening' = "columns"
           /\ Autocommit([disk EXCEPT !.columns = @ \cup {x}])
    BY <1>2, <1>6 DEF AddColumn, Do, Missing
  <2> DEFINE c == disk.columns \cup {x}
  <2>2. c \in SUBSET Range(Columns)
    BY <1>3
  <2>3. Builds(disk, [disk EXCEPT !.columns = c], "columns")
    <3> HIDE DEF c
    <3> QED
      BY <1>2, <2>1, <2>2, BuildColumns
  <2> QED
    BY <1>1, <2>1, <2>3
<1>7. CASE CreateNew
  BY <1>1, <1>2, <1>7, BuildNew DEF CreateNew, Do, AfterCreate
<1>8. CASE CopyMiners
  <2>1. Builds(disk, [disk EXCEPT !.copy = disk.miners], "shares")
    <3>1. PICK y \in Rows : y = disk.miners
      BY <1>3
    <3>2. opening = "copy"
      BY <1>8 DEF CopyMiners, Do
    <3>3. Builds(disk, [disk EXCEPT !.copy = y], "shares")
      BY <1>2, <3>1, <3>2, BuildCopy
    <3> QED
      BY <3>1, <3>3
  <2> QED
    BY <1>1, <1>2, <1>8, <2>1 DEF CopyMiners, Do, Copied
<1>9. CASE CopyNames
  <2> DEFINE y == [n \in Name |-> IF disk.copy[n] = NoRow /\ disk.shares[n] > 0
                                  THEN [valid |-> 0, invalid |-> 0] ELSE disk.copy[n]]
  <2>1. y \in Rows /\ \A n \in Name : disk.copy[n] # NoRow => y[n] = disk.copy[n]
    <3>1. [valid |-> 0, invalid |-> 0] \in Row
      BY <1>3 DEF Row
    <3> QED
      BY <1>3, <3>1 DEF Rows
  <2>2. WithShares(disk) = [disk EXCEPT !.copy = y]
    BY DEF WithShares
  <2>3. opening = "shares" /\ opening' = "count" /\ Autocommit(WithShares(disk))
    BY <1>2, <1>9 DEF CopyNames, Do
  <2> HIDE DEF y
  <2>4. Builds(disk, [disk EXCEPT !.copy = y], "count")
    BY <1>2, <2>1, <2>3, BuildCopy
  <2> QED
    BY <1>1, <2>2, <2>3, <2>4
<1>10. CASE CountShares
  <2> DEFINE y == [n \in Name |-> IF disk.copy[n] = NoRow THEN NoRow
                                  ELSE [disk.copy[n] EXCEPT !.valid = disk.shares[n]]]
  <2>1. ASSUME NEW n \in Name, disk.copy[n] # NoRow
        PROVE  /\ y[n] \in Row /\ y[n].invalid = disk.copy[n].invalid
               /\ y[n].valid = disk.shares[n]
    <3>1. disk.copy[n] \in Row
      BY <1>3, <2>1 DEF Rows
    <3>2. y[n] = [disk.copy[n] EXCEPT !.valid = disk.shares[n]]
      BY <2>1
    <3> HIDE DEF y
    <3> QED
      BY <1>3, <3>1, <3>2 DEF Row
  <2>2. \A n \in Name : disk.copy[n] = NoRow => y[n] = NoRow
    OBVIOUS
  <2>3. y \in Rows
    BY <2>1, <2>2 DEF Rows
  <2>4. Counted(disk) = [disk EXCEPT !.copy = y]
    BY DEF Counted
  <2>5. opening = "count" /\ opening' = "drop" /\ Autocommit(Counted(disk))
    BY <1>2, <1>10 DEF CountShares, Do
  <2> HIDE DEF y
  <2>6. \A n \in Name :
           /\ disk.copy[n] # NoRow => y[n] # NoRow /\ y[n].invalid = disk.copy[n].invalid
           /\ y[n] # NoRow => y[n].valid <= disk.shares[n]
    BY <1>3, <2>1, <2>2, DatabaseAssumption
  <2>7. Builds(disk, [disk EXCEPT !.copy = y], "drop")
    BY <1>2, <2>3, <2>5, <2>6, BuildCopy
  <2> QED
    BY <1>1, <2>4, <2>5, <2>7
<1>11. CASE DropOld
  BY <1>1, <1>2, <1>11, BuildDrop DEF DropOld, Do
<1>12. CASE RenameNew
  BY <1>1, <1>2, <1>12, BuildRename DEF RenameNew, Do
<1>13. CASE StartFails
  BY <1>1, <1>13 DEF StartFails
<1>14. CASE Serve
  BY <1>1, <1>2, <1>14 DEF Serve, Start
<1> QED
  BY <1>4, <1>5, <1>6, <1>7, <1>8, <1>9, <1>10, <1>11, <1>12, <1>13, <1>14 DEF Opening

-----------------------------------------------------------------------------
(* The beginning.                                                          *)

LEMMA EmptyIs ==
  /\ Empty \in PoolTables
  /\ Empty.layout = "absent" /\ Empty.miners = NoRows
  /\ Empty.spare = FALSE /\ Empty.copy = NoRows
  /\ Empty.blocks = [b \in Block |-> "none"]
  /\ Empty.rounds = [b \in Block |-> "none"]
  /\ Empty.credits = [b \in Block |-> Zero]
  /\ Empty.payee = {} /\ Empty.balance = Zero /\ Empty.paid = Zero
<1>1. NoRows \in Rows /\ 0 \in 0 .. MaxShares
  BY NoRowsAre, DatabaseAssumption
<1>2. Zero \in [Addr -> Nat]
  BY DEF Zero
<1> HIDE DEF NoRows, Rows, Zero
<1> QED
  BY <1>1, <1>2 DEF Empty, PoolTables

LEMMA OlderIs ==
  ASSUME NEW db \in Older
  PROVE  /\ db \in PoolTables
         /\ db.layout = "legacy"
         /\ db.spare = FALSE /\ db.copy = NoRows
         /\ RoundsSame(db, Empty) /\ CoinsSame(db, Empty)
<1>1. PICK k \in 0 .. Len(Columns) :
         db = [Empty EXCEPT
                !.layout = "legacy",
                !.columns = {Columns[i] : i \in 1 .. k},
                !.miners = [n \in Name |-> IF n \in Legacy
                                           THEN [valid |-> 1, invalid |-> 1]
                                           ELSE NoRow],
                !.shares = [n \in Name |-> 1]]
  BY DEF Older
<1> DEFINE c == {Columns[i] : i \in 1 .. k}
           x == [n \in Name |-> IF n \in Legacy THEN [valid |-> 1, invalid |-> 1]
                                ELSE NoRow]
           y == [n \in Name |-> 1]
<1>2. c \in SUBSET Range(Columns)
  BY DatabaseAssumption DEF Range
<1>3. 1 \in 0 .. MaxShares
  BY DatabaseAssumption
<1>4. x \in Rows
  <2>1. [valid |-> 1, invalid |-> 1] \in Row
    BY <1>3 DEF Row
  <2> QED
    BY <2>1 DEF Rows
<1>5. y \in [Name -> 0 .. MaxShares]
  BY <1>3
<1>6. db = [Empty EXCEPT !.layout = "legacy", !.columns = c, !.miners = x, !.shares = y]
  BY <1>1
<1> HIDE DEF c, x, y
<1> QED
  BY <1>2, <1>4, <1>5, <1>6, EmptyIs DEF PoolTables, RoundsSame, CoinsSame

\* A file that is new or of an older version is at rest.
LEMMA FileAtRest ==
  ASSUME NEW db \in {Empty} \cup Older
  PROVE  Stored(db, [b \in Block |-> "record_block"], Asleep, TRUE)
<1> DEFINE tk == [b \in Block |-> "record_block"]
<1>1. /\ db \in PoolTables /\ db.layout # "canonical" /\ db.copy = NoRows
      /\ db.layout = "absent" => db.miners = NoRows
      /\ RoundsSame(db, Empty) /\ CoinsSame(db, Empty)
  BY EmptyIs, OlderIs DEF RoundsSame, CoinsSame
<1>2. Sound(db)
  BY <1>1, EmptyIs DEF Sound, StatusesAgree, CountersAgree, RoundsSame, CoinsSame
<1>3. Booked(db, TRUE)
  <2>1. \A a \in Addr : Granted(a, {}) = 0
    BY SumEmpty DEF Granted
  <2>2. \A a \in Addr : db.balance[a] = 0 /\ db.paid[a] = 0
    BY <1>1, EmptyIs DEF CoinsSame, Zero
  <2> QED
    BY <2>1, <2>2 DEF Booked
<1>4. Known(db, tk)
  BY <1>1, EmptyIs DEF Known, RoundsSame
<1>5. Covered(db, Asleep, TRUE)
  BY DEF Covered
<1> QED
  BY <1>2, <1>3, <1>4, <1>5 DEF Stored

LEMMA InitDatabase ==
  ASSUME PoolConnection
  PROVE  DatabaseInit => Init /\ DInv
<1> SUFFICES ASSUME DatabaseInit PROVE Init /\ DInv
  OBVIOUS
<1>1. Stored(disk, task, pay, ~leant) /\ seen = disk /\ view = disk
  BY FileAtRest DEF DatabaseInit
<1>2. disk \in PoolTables
  BY <1>1 DEF Stored, Sound
<1>3. Init
  BY <1>2 DEF DatabaseInit, Init, PoolConnection
<1>4. ConnectionInv
  BY <1>3, InitConnection
<1>5. MinersAhead(seen, disk)
  BY <1>1, <1>2, Reflexive
<1>6. CallersTyped(task, pay) /\ leant \in BOOLEAN /\ ready = FALSE /\ holder = Nobody
  BY DEF DatabaseInit, CallersTyped, Writing
<1>7. Start(opening, disk)
  BY DEF DatabaseInit, Start
<1> QED
  BY <1>1, <1>3, <1>4, <1>5, <1>6, <1>7 DEF DInv

-----------------------------------------------------------------------------
(* Every step is one of the connection.                                    *)

\* Who is called is a method, and what its caller knows is true.
LEMMA CalledIsLocked ==
  ASSUME DInv, ServeCall
  PROVE  \E m : Call(m) /\ Locked(m, view, task, pay)
<1>1. CASE CallShare
  BY <1>1 DEF CallShare, Locked
<1>2. CASE CallCredit
  BY <1>2 DEF CallCredit, Locked, DInv, CallersTyped
<1>3. CASE CallMature
  BY <1>3 DEF CallMature, Locked
<1>4. CASE CallPayout
  BY <1>4 DEF CallPayout, Locked
<1> QED
  BY <1>1, <1>2, <1>3, <1>4 DEF ServeCall

LEMMA DatabaseStep ==
  ASSUME PoolConnection, DInv, [DatabaseNext]_vars
  PROVE  [Next]_connection
<1>1. CASE Opening
  BY <1>1, OpeningStep DEF Next, Builds, PoolConnection
<1>2. CASE ServeCall
  <2>1. PICK m : Call(m) /\ Locked(m, view, task, pay)
    BY <1>2, CalledIsLocked
  <2>2. m \in Method
    BY <2>1, LockedIsMethod DEF DInv, PoolConnection
  <2> QED
    BY <2>1, <2>2 DEF Next
<1>3. CASE SendPayout
  BY <1>3 DEF SendPayout
<1>4. CASE Execution \/ Returns \/ Raises \/ Dies
  BY <1>4 DEF Execution, Returns, Raises, Dies, Next
<1>5. CASE UNCHANGED vars
  BY <1>5 DEF vars
<1> QED
  BY <1>1, <1>2, <1>3, <1>4, <1>5 DEF DatabaseNext

-----------------------------------------------------------------------------
(* Every step preserves the invariant.                                     *)

LEMMA AheadOfAhead ==
  ASSUME NEW a \in PoolTables, NEW b \in PoolTables, NEW c \in PoolTables,
         MinersAhead(a, b), MinersAhead(b, c)
  PROVE  MinersAhead(a, c)
<1> SUFFICES ASSUME NEW n \in Name, c.miners[n] # NoRow
             PROVE  a.miners[n] # NoRow /\ a.miners[n].invalid >= c.miners[n].invalid
  BY DEF MinersAhead
<1>1. b.miners[n] # NoRow /\ a.miners[n] # NoRow
  BY DEF MinersAhead
<1>2. a.miners[n].invalid >= b.miners[n].invalid
      /\ b.miners[n].invalid >= c.miners[n].invalid
  BY <1>1 DEF MinersAhead
<1>3. \A db \in PoolTables : db.miners[n] # NoRow => db.miners[n].invalid \in Nat
  BY HeldTyped DEF Held
<1> QED
  BY <1>1, <1>2, <1>3

LEMMA AheadKeeps ==
  ASSUME NEW e, NEW db \in PoolTables, MinersAhead(e, db)
  PROVE  KeepsRows(e, db)
<1> SUFFICES ASSUME NEW n \in Name, NEW r \in Held(db, n)
             PROVE  \E new \in Held(e, n) : new.invalid >= r.invalid
  BY DEF KeepsRows
<1>1. r \in {db.miners[n], db.copy[n]} /\ r # NoRow /\ r.invalid \in Nat
  BY HeldTyped DEF Held
<1>2. CASE r = db.miners[n]
  BY <1>1, <1>2 DEF MinersAhead, Held
<1>3. CASE r = db.copy[n]
  BY <1>1, <1>3 DEF MinersAhead, Held
<1> QED
  BY <1>1, <1>2, <1>3

LEMMA OpeningKeeps ==
  ASSUME DInv, Opening, ConnectionInv'
  PROVE  DInv'
<1>1. ~ready /\ task' = task /\ pay' = pay /\ leant' = leant
  BY OpeningStep DEF tasks
<1>2. CASE \E e : Autocommit(e) /\ Builds(disk, e, opening')
  <2>1. PICK e : Autocommit(e) /\ Builds(disk, e, opening')
    BY <1>2
  <2>2. /\ disk' = e /\ view' = e /\ seen' = e
        /\ ready' = ready /\ holder' = holder
    BY <2>1 DEF Autocommit
  <2>3. Stored(e, task, pay, ~leant) /\ Start(opening', e)
    BY <2>1, Rebuilt DEF DInv, Builds
  <2>4. MinersAhead(e, e)
    BY <2>1, Reflexive DEF Builds
  <2> QED
    BY <1>1, <2>2, <2>3, <2>4 DEF DInv
<1>3. CASE UNCHANGED connection /\ opening' = "tables"
  <2>1. Start(opening', disk')
    BY <1>3 DEF Start
  <2> QED
    BY <1>1, <1>3, <2>1 DEF DInv, connection
<1>4. CASE Open /\ opening' = "serving" /\ disk.layout = "canonical"
  BY <1>1, <1>4 DEF DInv, Open
<1> QED
  BY <1>2, <1>3, <1>4, OpeningStep

LEMMA CallKeeps ==
  ASSUME DInv, ServeCall, ConnectionInv'
  PROVE  DInv'
<1>1. PICK m : Call(m) /\ Locked(m, view, task, pay)
  BY CalledIsLocked
<1>2. /\ ready /\ ready' = ready /\ disk' = disk /\ holder' = m /\ seen' = seen
      /\ seen = view
  BY <1>1 DEF Call, LockIsFree, DInv, ConnectionInv, Unlocked
<1>3. UNCHANGED <<opening, task, pay, leant>>
  BY DEF ServeCall, tasks
<1> QED
  BY <1>1, <1>2, <1>3 DEF DInv

\* What the thread sends is in the balances it read, and in the committed ones
\* unless it leant.
LEMMA SendKeeps ==
  ASSUME DInv, SendPayout, ConnectionInv'
  PROVE  DInv'
<1>1. PICK a \in Addr :
         /\ view.balance[a] > 0
         /\ pay' = <<"record_payout", <<a, view.balance[a]>>>>
         /\ leant' = (leant \/ view.balance[a] # disk.balance[a])
  BY DEF SendPayout
<1>2. /\ ready /\ holder = Nobody /\ seen = view
      /\ UNCHANGED <<connection, opening, task>>
  BY DEF SendPayout, LockIsFree, DInv, ConnectionInv, Unlocked
<1> DEFINE amount == view.balance[a]
<1>3. amount \in 0 .. Granted(a, Block)
  <2>1. seen.balance \in [Addr -> Nat]
    BY TableTypes DEF DInv, Stored, Sound
  <2>2. PICK granted \in SUBSET Block : seen.balance[a] <= Granted(a, granted)
    BY DEF DInv, Stored, Booked
  <2>3. /\ Granted(a, granted) \in Nat /\ Granted(a, Block) \in Nat
        /\ Granted(a, granted) <= Granted(a, Block)
    BY GrantedType
  <2> QED
    BY <1>2, <2>1, <2>2, <2>3
<1>4. CallersTyped(task', pay')
  <2>1. <<a, amount>> \in {a} \X (0 .. Granted(a, Block))
    BY <1>3
  <2>2. <<a, amount>> \in Payments
    BY <2>1 DEF Payments
  <2> QED
    BY <1>1, <1>2, <2>2 DEF DInv, CallersTyped
<1>5. ASSUME NEW db \in {disk, seen}
      PROVE  Stored(db, task', pay', ~leant')
  <2>1. Stored(db, task, pay, ~leant)
    BY <1>5 DEF DInv
  <2>2. Booked(db, ~leant')
    BY <1>1, <2>1 DEF Stored, Booked
  <2>3. ~leant' => db.balance[a] = amount
    BY <1>1, <1>2, <1>5
  <2>4. Covered(db, pay', ~leant')
    BY <1>1, <1>3, <2>3 DEF Covered
  <2> QED
    BY <1>2, <2>1, <2>2, <2>4 DEF Stored
<1>6. leant' \in BOOLEAN
  BY <1>1 DEF DInv
<1> QED
  BY <1>2, <1>4, <1>5, <1>6 DEF DInv, connection

LEMMA StepKeeps ==
  ASSUME DInv, Execution, ConnectionInv'
  PROVE  DInv'
<1>1. /\ ready /\ holder # Nobody
      /\ UNCHANGED <<ready, disk, holder, seen, opening, task, pay, leant>>
  BY DEF Execution, Step, Uncommitted, tasks
<1> QED
  BY <1>1 DEF DInv

\* A method that has executed its last statement has its effect on the tables
\* its caller saw.
LEMMA MethodDone ==
  ASSUME PoolConnection, DInv, ready, Ended
  PROVE  /\ view = Effect(holder, seen) /\ Locked(holder, seen, task, pay)
         /\ Ends(seen, holder, task, pay, ~leant)
<1>1. view = Effect(holder, seen)
  BY EndedIsEffect DEF DInv
<1>2. holder # Nobody
  BY DEF Ended
<1>3. /\ Locked(holder, seen, task, pay) /\ CallersTyped(task, pay)
      /\ Stored(seen, task, pay, ~leant) /\ seen.layout = "canonical"
  BY <1>2 DEF DInv
<1> QED
  BY <1>1, <1>3, MethodEnds

LEMMA ReturnKeeps ==
  ASSUME PoolConnection, DInv, Returns, ConnectionInv'
  PROVE  DInv'
<1>1. /\ ready /\ Ended
      /\ disk' = view /\ seen' = view /\ holder' = Nobody
      /\ UNCHANGED <<ready, opening, leant>>
      /\ task' = TaskReturns(task, holder) /\ pay' = PayReturns(pay, holder)
  BY DEF Returns, Return, Release, Committed, TaskReturns, PayReturns
<1>2. /\ Locked(holder, seen, task, pay) /\ Ends(seen, holder, task, pay, ~leant)
      /\ view = Effect(holder, seen)
  BY <1>1, MethodDone
<1>3. Stored(view, task', pay', ~leant) /\ view.layout = seen.layout
  BY <1>1, <1>2 DEF Ends
<1>4. CallersTyped(task', pay')
  BY <1>1, <1>2, CallersStayTyped DEF DInv
<1>5. MinersAhead(view, view)
  BY <1>3, Reflexive DEF Stored, Sound
<1> QED
  BY <1>1, <1>3, <1>4, <1>5 DEF DInv

LEMMA RaiseKeeps ==
  ASSUME PoolConnection, DInv, Raises, ConnectionInv'
  PROVE  DInv'
<1>1. /\ ready /\ holder # Nobody
      /\ disk' = disk /\ seen' = view' /\ holder' = Nobody
      /\ UNCHANGED <<ready, opening, leant>>
      /\ task' = TaskRaises(task, holder) /\ pay' = PayRaises(pay, holder)
  BY DEF Raises, Raise, Refused, CommitRefused, RolledBack, Ended, Release,
     TaskRaises, PayRaises
<1>2. /\ CallersTyped(task, pay) /\ Locked(holder, seen, task, pay)
      /\ Stored(disk, task, pay, ~leant) /\ Stored(seen, task, pay, ~leant)
      /\ MinersAhead(seen, disk)
      /\ disk.layout = "canonical" /\ seen.layout = "canonical"
  BY <1>1 DEF DInv
<1>3. CallersTyped(task', pay')
  BY <1>1, <1>2, CallersStayTyped
<1>4. Stored(disk, task', pay', ~leant) /\ Stored(seen, task', pay', ~leant)
  BY <1>1, <1>2, RaisesStored
<1>5. disk \in PoolTables /\ seen \in PoolTables
  BY <1>2 DEF Stored, Sound
<1>6. /\ Stored(view', task', pay', ~leant)
      /\ MinersAhead(view', disk) /\ view'.layout = "canonical"
  <2>1. CASE Refused
    <3>1. view' = seen
      BY <2>1, <1>2, PoolUnfolds, LockedIsMethod
      DEF Refused, DInv, ConnectionInv, Running
    <3> QED
      BY <1>2, <1>4, <3>1
  <2>2. CASE CommitRefused
    <3>1. /\ view' = Effect(holder, seen) /\ Ends(seen, holder, task, pay, ~leant)
      BY <1>1, <2>2, MethodDone DEF CommitRefused
    <3>2. /\ Stored(view', task', pay', ~leant)
          /\ MinersAhead(view', seen) /\ view'.layout = seen.layout
      BY <1>1, <3>1 DEF Ends
    <3>3. view' \in PoolTables
      BY <3>2 DEF Stored, Sound
    <3> QED
      BY <1>2, <1>5, <3>2, <3>3, AheadOfAhead
  <2>3. CASE RolledBack
    <3>1. view' = disk
      BY <2>3 DEF RolledBack
    <3> QED
      BY <1>2, <1>4, <1>5, <3>1, Reflexive
  <2> QED
    BY <2>1, <2>2, <2>3 DEF Raises, Raise
<1> QED
  BY <1>1, <1>3, <1>4, <1>6 DEF DInv

LEMMA DeathKeeps ==
  ASSUME DInv, Dies, ConnectionInv'
  PROVE  DInv'
<1>1. /\ ready' = FALSE /\ disk' = disk /\ view' = disk /\ seen' = disk
      /\ holder' = Nobody /\ opening' = "tables" /\ pay' = Asleep /\ leant' = leant
      /\ task' = [b \in Block |-> IF task[b] = "record_block" THEN task[b] ELSE "done"]
  BY DEF Dies, Crash, Release
<1>2. CallersTyped(task', pay')
  BY <1>1 DEF CallersTyped, Writing
<1>3. Stored(disk, task', pay', ~leant)
  <2>1. Stored(disk, task, pay, ~leant)
    BY DEF DInv
  <2>2. Known(disk, task')
    BY <1>1, <2>1 DEF Stored, Known
  <2>3. Covered(disk, pay', ~leant)
    BY <1>1 DEF Covered
  <2> QED
    BY <2>1, <2>2, <2>3 DEF Stored
<1>4. MinersAhead(disk, disk)
  BY <1>3, Reflexive DEF Stored, Sound
<1>5. Start("tables", disk)
  BY DEF Start
<1> QED
  BY <1>1, <1>2, <1>3, <1>4, <1>5 DEF DInv

LEMMA DatabaseInductive ==
  ASSUME PoolConnection, DInv, [DatabaseNext]_vars
  PROVE  DInv'
<1>1. ConnectionInv'
  <2>1. [Next]_connection
    BY DatabaseStep
  <2> QED
    BY <2>1, NextConnection DEF DInv
<1>2. CASE UNCHANGED vars
  BY <1>1, <1>2 DEF DInv, vars, tasks, connection
<1> QED
  BY <1>1, <1>2, OpeningKeeps, CallKeeps, SendKeeps, StepKeeps, ReturnKeeps,
     RaiseKeeps, DeathKeeps DEF DatabaseNext

-----------------------------------------------------------------------------
(* The theorems.                                                           *)

LEMMA AlwaysDInv == PoolConnection => (DatabaseSpec => []DInv /\ Spec)
<1> SUFFICES ASSUME PoolConnection PROVE DatabaseSpec => []DInv /\ Spec
  OBVIOUS
<1>1. DatabaseInit => Init /\ DInv
  BY InitDatabase
<1>2. DInv /\ [DatabaseNext]_vars => DInv'
  BY DatabaseInductive
<1>3. DInv /\ [DatabaseNext]_vars => [Next]_connection
  BY DatabaseStep
<1> QED
  BY <1>1, <1>2, <1>3, PTL DEF DatabaseSpec, Spec

\* With the methods of PoolDatabase on the shared connection, wherever a method
\* is cut: a round and its block have one status, a round has all its credits or
\* none, no counter is ahead of the shares, and what left a balance was granted
\* by a round that matured, unless the payout thread leant on what was not
\* committed.
THEOREM TablesAlwaysAgree == PoolConnection => (DatabaseSpec => []TablesAgree)
<1>1. DInv => TablesAgree
  <2> SUFFICES ASSUME DInv, NEW db \in Visible
               PROVE  StatusesAgree(db) /\ CountersAgree(db) /\ (~leant => BooksWhole(db))
    BY DEF TablesAgree
  <2>1. Sound(db) /\ Booked(db, ~leant)
    BY DEF Visible, DInv, Stored
  <2> QED
    BY <2>1 DEF Sound, Booked, BooksWhole
<1> QED
  BY <1>1, AlwaysDInv, PTL

\* No statement of the constructor, no method and no crash loses the row of a
\* miner in the file or forgets an invalid share.
THEOREM RowsAreKept == PoolConnection => (DatabaseSpec => MinersKept)
<1> SUFFICES ASSUME PoolConnection PROVE DatabaseSpec => MinersKept
  OBVIOUS
<1>1. DInv /\ [DatabaseNext]_vars => KeepsRows(disk', disk)
  <2> SUFFICES ASSUME DInv, [DatabaseNext]_vars PROVE KeepsRows(disk', disk)
    OBVIOUS
  <2>1. disk \in PoolTables
    BY DEF DInv, Stored, Sound
  <2>2. CASE disk' = disk
    BY <2>1, <2>2, RowsKept
  <2>3. CASE Opening
    <3>1. KeepsRows(disk', disk) \/ disk' = disk
      BY <2>3, OpeningStep DEF Builds, Autocommit, connection, Open
    <3> QED
      BY <2>2, <3>1
  <2>4. CASE Returns
    <3>1. ready /\ Ended /\ disk' = view
      BY <2>4 DEF Returns, Return, Committed
    <3>2. Stored(view, TaskReturns(task, holder), PayReturns(pay, holder), ~leant)
          /\ MinersAhead(view, seen)
      BY <3>1, MethodDone DEF Ends
    <3>3. view \in PoolTables /\ seen \in PoolTables /\ MinersAhead(seen, disk)
      BY <3>2 DEF Stored, Sound, DInv
    <3> QED
      BY <2>1, <3>1, <3>2, <3>3, AheadOfAhead, AheadKeeps
  <2>5. CASE ServeCall
    BY <2>2, <2>5, CalledIsLocked DEF Call
  <2>6. CASE SendPayout \/ Execution \/ Raises \/ Dies \/ UNCHANGED vars
    BY <2>2, <2>6 DEF SendPayout, Execution, Step, Uncommitted, Raises, Raise, Refused,
       CommitRefused, RolledBack, Dies, Crash, vars, connection
  <2> QED
    BY <2>3, <2>4, <2>5, <2>6 DEF DatabaseNext
<1>2. DInv /\ [DatabaseNext]_vars
      => [\A n \in Name : \A old \in Held(disk, n) :
            \E new \in Held(disk', n) : new.invalid >= old.invalid]_vars
  BY <1>1 DEF KeepsRows
<1> QED
  BY <1>2, AlwaysDInv, PTL DEF DatabaseSpec, MinersKept

\* PoolDatabase, its constructor and its callers included, behaves like a store
\* whose methods happen at once.
THEOREM DatabaseImplementsAtomicStore ==
    PoolConnection => (DatabaseSpec => ImplementsAtomicStore)
  BY AlwaysDInv, ConnectionImplementsAtomicStore, PTL

=============================================================================
