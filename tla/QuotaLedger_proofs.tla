------------------------ MODULE QuotaLedger_proofs -------------------------
(***************************************************************************)
(* Theorems about QuotaLedger for every set of keys, slots and plans, every *)
(* cost and reservation, and queues and histories of every length.          *)
(***************************************************************************)
EXTENDS QuotaLedger, FiniteSetTheorems, TLAPS

-----------------------------------------------------------------------------
(* Types *)

\* Counting requests and spend in an account, or spend in a row, keeps its type.
LEMMA AccountCounts ==
  ASSUME NEW a \in Account, NEW n \in Nat
  PROVE  [a EXCEPT !.window = n] \in Account
BY DEF Account

LEMMA RowCounts ==
  ASSUME NEW r \in Row, NEW n \in Int
  PROVE  [r EXCEPT !.spend = n] \in Row
BY DEF Row

\* A key that is registered has an account.
LEMMA HasAccount ==
  ASSUME TypeOK, NEW k \in Keys, Registered(k)
  PROVE  /\ info[k] \in Account
         /\ info[k].window \in Nat /\ info[k].spend \in Int
         /\ info[k].plan \in Plans /\ info[k].plan.budget \in Nat
         /\ Counted(k) \in Account
<1>1. info[k] \in Account
  BY DEF TypeOK, Registered
<1>2. info[k].window \in Nat /\ info[k].spend \in Int /\ info[k].plan \in Plans
  BY <1>1 DEF Account
<1>3. info[k].plan.budget \in Nat
  BY <1>2, QuotaAssumption
<1>4. info[k].window + 1 \in Nat
  BY <1>2
<1>5. Counted(k) \in Account
  BY <1>1, <1>4, AccountCounts DEF Counted
<1> QED BY <1>1, <1>2, <1>3, <1>5

\* What a booking writes has the type of an account and of a queue.
LEMMA BookType ==
  ASSUME TypeOK, NEW k \in Keys, NEW account \in Account, NEW amount \in Int,
         Book(k, account, amount)
  PROVE  /\ info' \in [Keys -> Account \cup {NoKey}]
         /\ queue' \in [Keys -> Seq(Increment)]
<1> DEFINE after == account.spend + amount
<1>1. after \in Int /\ [account EXCEPT !.spend = after] \in Account
  BY DEF Account
<1>2. info' = [info EXCEPT ![k] = [account EXCEPT !.spend = after]]
  BY DEF Book
<1>3. info' \in [Keys -> Account \cup {NoKey}]
  BY <1>1, <1>2 DEF TypeOK
<1>4. CASE amount = 0
  BY <1>3, <1>4 DEF Book, TypeOK
<1>5. CASE amount # 0
  <2>1. queue' = [queue EXCEPT ![k] = Append(@, [amount |-> amount, after |-> after])]
    BY <1>5 DEF Book
  <2>2. queue[k] \in Seq(Increment) /\ [amount |-> amount, after |-> after] \in Increment
    BY <1>1 DEF TypeOK, Increment
  <2>3. Append(queue[k], [amount |-> amount, after |-> after]) \in Seq(Increment)
    BY <2>2
  <2> QED BY <1>3, <2>1, <2>3 DEF TypeOK
<1> QED BY <1>4, <1>5

\* Every step keeps the variables in their types.
LEMMA TypeStep == TypeOK /\ [Next]_vars => TypeOK'
<1> SUFFICES ASSUME TypeOK, [Next]_vars PROVE TypeOK'
  OBVIOUS
<1> USE QuotaAssumption
<1>1. ASSUME NEW k \in Keys, NEW p \in Plans, NEW saved \in BOOLEAN, Register(k, p, saved)
      PROVE  TypeOK'
  <2>1. [plan |-> p, spend |-> 0, window |-> 0] \in Account /\ [plan |-> p, spend |-> 0] \in Row
    BY DEF Account, Row
  <2> QED BY <1>1, <2>1 DEF TypeOK, Register, Save, PassesQueue, Counts
<1>2. ASSUME NEW k \in Keys, NEW p \in Plans, NEW saved \in BOOLEAN, Upgrade(k, p, saved)
      PROVE  TypeOK'
  <2>1. info[k] \in Account
    BY <1>2 DEF TypeOK, Upgrade, Registered
  <2>2. [info[k] EXCEPT !.plan = p] \in Account /\ [plan |-> p, spend |-> info[k].spend] \in Row
    BY <2>1 DEF Account, Row
  <2>3. info' \in [Keys -> Account \cup {NoKey}]
    BY <1>2, <2>2 DEF TypeOK, Upgrade
  <2> QED BY <1>2, <2>2, <2>3 DEF TypeOK, Upgrade, Save, PassesQueue, Counts
<1>3. ASSUME NEW s \in Slots, NEW k \in Keys, NEW a \in Reserves, Admit(s, k, a)
      PROVE  TypeOK'
  <2>1. Counted(k) \in Account
    BY <1>3, HasAccount DEF Admit
  <2> a \in Int
    OBVIOUS
  <2>2. /\ info' \in [Keys -> Account \cup {NoKey}]
        /\ queue' \in [Keys -> Seq(Increment)]
    BY <1>3, <2>1, BookType DEF Admit
  <2>3. [key |-> k, reserved |-> a] \in Call
    BY DEF Call
  <2>4. call' \in [Slots -> Call \cup {NoKey}] /\ under' \in [Keys -> BOOLEAN] /\ ops' \in 0..MaxOps
    BY <1>3, <2>3 DEF TypeOK, Admit, Begin, Counts
  <2> QED BY <1>3, <2>2, <2>4 DEF TypeOK, Admit
<1>4. ASSUME NEW k \in Keys, NEW a \in Reserves, Refuse(k, a)
      PROVE  TypeOK'
  <2>1. Counted(k) \in Account
    BY <1>4, HasAccount DEF Refuse
  <2> QED BY <1>4, <2>1 DEF TypeOK, Refuse, Counts
<1>5. ASSUME NEW s \in Slots, NEW k \in Keys, Bypass(s, k)
      PROVE  TypeOK'
  <2>1. [key |-> k, reserved |-> 0] \in Call
    BY DEF Call
  <2> QED BY <1>5, <2>1 DEF TypeOK, Bypass, Begin, Counts
<1>6. ASSUME NEW s \in Slots, NEW cost \in 0..MaxCost, Charge(s, cost)
      PROVE  TypeOK'
  <2>1. call[s] \in Call /\ call[s].key \in Keys /\ cost - call[s].reserved \in Int
    BY <1>6 DEF TypeOK, Charge, Call
  <2>2. /\ info' \in [Keys -> Account \cup {NoKey}]
        /\ queue' \in [Keys -> Seq(Increment)]
    <3>1. CASE Registered(call[s].key)
      <4>1. info[call[s].key] \in Account
        BY <2>1, <3>1 DEF TypeOK, Registered
      <4> QED BY <1>6, <2>1, <3>1, <4>1, BookType DEF Charge
    <3>2. CASE ~Registered(call[s].key)
      BY <1>6, <3>2 DEF TypeOK, Charge
    <3> QED BY <3>1, <3>2
  <2> QED BY <1>6, <2>2 DEF TypeOK, Charge
<1>7. ASSUME NEW k \in Keys, Slide(k)
      PROVE  TypeOK'
  <2>1. info[k] \in Account /\ info[k].window - 1 \in Nat
    BY <1>7, HasAccount DEF Slide
  <2>2. [info[k] EXCEPT !.window = info[k].window - 1] \in Account
    BY <2>1, AccountCounts
  <2> QED BY <1>7, <2>2 DEF TypeOK, Slide
<1>8. ASSUME NEW k \in Keys, Commit(k)
      PROVE  TypeOK'
  <2>1. /\ Tail(queue[k]) \in Seq(Increment)
        /\ Head(queue[k]) \in Increment
    BY <1>8 DEF TypeOK, Commit
  <2>2. ASSUME row[k] # NoKey
        PROVE  [row[k] EXCEPT !.spend = row[k].spend + Head(queue[k]).amount] \in Row
    <3>1. row[k] \in Row
      BY <2>2 DEF TypeOK
    <3>2. row[k].spend \in Int
      BY <3>1 DEF Row
    <3>3. Head(queue[k]).amount \in Int
      BY <2>1 DEF Increment
    <3>4. row[k].spend + Head(queue[k]).amount \in Int
      BY <3>2, <3>3
    <3> QED BY <3>1, <3>4, RowCounts
  <2> QED BY <1>8, <2>1, <2>2 DEF TypeOK, Commit
<1>9. ASSUME NEW k \in Keys, Lose(k)
      PROVE  TypeOK'
  <2>1. Tail(queue[k]) \in Seq(Increment)
    BY <1>9 DEF TypeOK, Lose
  <2> QED BY <1>9, <2>1 DEF TypeOK, Lose
<1>10. ASSUME NEW loaded \in BOOLEAN, Restart(loaded)
       PROVE  TypeOK'
  <2>1. row' \in [Keys -> Row \cup {NoKey}]
    BY <1>10 DEF TypeOK, Restart, Row
  <2>2. \A k \in Keys : row'[k] # NoKey =>
          [plan |-> row'[k].plan, spend |-> row'[k].spend, window |-> 0] \in Account
    BY <2>1 DEF Row, Account
  <2>3. info' \in [Keys -> Account \cup {NoKey}]
    BY <1>10, <2>2 DEF Restart
  <2>4. muddled' \in [Keys -> BOOLEAN]
    BY <1>10 DEF TypeOK, Restart
  <2> QED BY <1>10, <2>1, <2>3, <2>4 DEF TypeOK, Restart, Counts
<1>11. CASE UNCHANGED vars
  BY <1>11 DEF TypeOK, vars
<1> QED BY <1>1, <1>2, <1>3, <1>4, <1>5, <1>6, <1>7, <1>8, <1>9, <1>10, <1>11 DEF Next

\* The first state has the types.
LEMMA TypeInit == Init => TypeOK
BY QuotaAssumption DEF Init, TypeOK, Account, Row, Call

\* Every variable of the ledger keeps its type.
THEOREM TypeCorrect == Spec => []TypeOK
BY TypeInit, TypeStep, PTL DEF Spec

-----------------------------------------------------------------------------
(* One key's ledger: its account a, its row r and its queue q. *)

\* The queue is a chain of increments that leads from the row to the account.
Agrees(a, r, q) ==
  /\ r # NoKey /\ r.plan = a.plan
  /\ q = <<>> => r.spend = a.spend
  /\ q # <<>> => /\ q[1].after = r.spend + q[1].amount
                 /\ q[Len(q)].after = a.spend
  /\ \A i \in 1..(Len(q) - 1) : q[i+1].after = q[i].after + q[i+1].amount

\* Neither the row nor any increment on its way to it is above b.
Within(r, q, b) == r.spend <= b /\ \A i \in 1..Len(q) : q[i].after <= b

\* A booking extends the chain.
LEMMA AgreesAppend ==
  ASSUME NEW a \in Account, NEW r \in Row, NEW q \in Seq(Increment),
         NEW c \in Account, NEW amount \in Int,
         Agrees(a, r, q), c.plan = a.plan, c.spend = a.spend + amount
  PROVE  Agrees(c, r, Append(q, [amount |-> amount, after |-> c.spend]))
<1> DEFINE e == [amount |-> amount, after |-> c.spend]
<1> DEFINE p == Append(q, e)
<1>0. e \in Increment
  BY DEF Account, Increment
<1>1. /\ p \in Seq(Increment) /\ p # <<>> /\ Len(p) = Len(q) + 1 /\ p[Len(p)] = e
      /\ \A i \in 1..Len(q) : p[i] = q[i]
  <2> HIDE DEF e
  <2>1. p \in Seq(Increment) /\ Len(p) = Len(q) + 1
    BY <1>0
  <2>2. \A i \in 1..Len(q) : p[i] = q[i]
    BY <1>0
  <2>3. p[Len(p)] = e /\ p # <<>>
    BY <1>0
  <2> QED BY <2>1, <2>2, <2>3
<1>2. e.after = c.spend /\ e.amount = amount
  OBVIOUS
<1> HIDE DEF p, e
<1>3. r.plan = c.plan /\ r # NoKey
  BY DEF Agrees
<1>4. p[Len(p)].after = c.spend
  BY <1>1, <1>2
<1>5. Len(q) \in Nat /\ (q = <<>> <=> Len(q) = 0)
  OBVIOUS
<1>6. p[1].after = r.spend + p[1].amount
  <2>1. CASE Len(q) = 0
    BY <2>1, <1>1, <1>2, <1>5 DEF Agrees
  <2>2. CASE Len(q) # 0
    BY <2>2, <1>1, <1>5 DEF Agrees
  <2> QED BY <2>1, <2>2
<1>7. ASSUME NEW i \in 1..(Len(p) - 1)
      PROVE  p[i+1].after = p[i].after + p[i+1].amount
  <2>1. CASE i < Len(q)
    <3>1. i \in 1..(Len(q) - 1) /\ p[i] = q[i] /\ p[i+1] = q[i+1]
      BY <2>1, <1>1, <1>5
    <3> QED BY <3>1 DEF Agrees
  <2>2. CASE i >= Len(q)
    <3>1. i = Len(q) /\ p[i] = q[Len(q)] /\ p[i+1] = e /\ q # <<>>
      BY <2>2, <1>1, <1>5
    <3> QED BY <3>1, <1>2 DEF Agrees
  <2> QED BY <2>1, <2>2, <1>5
<1>8. Agrees(c, r, p)
  BY <1>1, <1>3, <1>4, <1>6, <1>7 DEF Agrees
<1> QED BY <1>8 DEF p, e

\* A commit moves the first link of the chain into the row.
LEMMA AgreesTail ==
  ASSUME NEW a \in Account, NEW r \in Row, NEW q \in Seq(Increment), q # <<>>,
         Agrees(a, r, q), NEW s \in Row, s.plan = r.plan, s.spend = r.spend + Head(q).amount
  PROVE  Agrees(a, s, Tail(q)) /\ s.spend = q[1].after
<1> DEFINE p == Tail(q)
<1>1. /\ Len(p) = Len(q) - 1 /\ Len(q) \in Nat /\ Len(q) > 0
      /\ \A i \in 1..Len(p) : p[i] = q[i+1]
      /\ Head(q) = q[1]
      /\ p = <<>> <=> Len(p) = 0
  <2>1. Len(p) = Len(q) - 1 /\ Len(q) \in Nat /\ Len(q) > 0 /\ p \in Seq(Increment)
    OBVIOUS
  <2>2. \A i \in 1..Len(p) : p[i] = q[i+1]
    OBVIOUS
  <2>3. Head(q) = q[1]
    OBVIOUS
  <2> HIDE DEF p
  <2>4. p = <<>> <=> Len(p) = 0
    BY <2>1
  <2> QED BY <2>1, <2>2, <2>3, <2>4
<1> HIDE DEF p
<1>2. s.spend = q[1].after
  BY <1>1 DEF Agrees
<1>3. s # NoKey /\ s.plan = a.plan
  BY QuotaAssumption DEF Agrees
<1>4. p = <<>> => s.spend = a.spend
  <2>1. p = <<>> => Len(q) = 1
    BY <1>1
  <2>2. q[Len(q)].after = a.spend
    BY DEF Agrees
  <2> QED BY <2>1, <2>2, <1>2
<1>5. p # <<>> => p[1].after = s.spend + p[1].amount /\ p[Len(p)].after = a.spend
  <2> SUFFICES ASSUME p # <<>>
               PROVE  p[1].after = s.spend + p[1].amount /\ p[Len(p)].after = a.spend
    OBVIOUS
  <2>1. Len(p) >= 1 /\ p[1] = q[2] /\ p[Len(p)] = q[Len(q)] /\ 1 \in 1..(Len(q) - 1)
    BY <1>1
  <2>2. q[1+1].after = q[1].after + q[1+1].amount
    BY <2>1 DEF Agrees
  <2> QED BY <2>1, <2>2, <1>2 DEF Agrees
<1>6. ASSUME NEW i \in 1..(Len(p) - 1)
      PROVE  p[i+1].after = p[i].after + p[i+1].amount
  <2>1. p[i] = q[i+1] /\ p[i+1] = q[(i+1)+1] /\ i+1 \in 1..(Len(q) - 1)
    BY <1>1
  <2> QED BY <2>1 DEF Agrees
<1>7. Agrees(a, s, p)
  BY <1>3, <1>4, <1>5, <1>6 DEF Agrees
<1> QED BY <1>7, <1>2 DEF p

\* A booking below the bound, and a commit, keep the ledger below it.
LEMMA WithinAppend ==
  ASSUME NEW r, NEW q \in Seq(Increment), NEW b, NEW e \in Increment, Within(r, q, b), e.after <= b
  PROVE  Within(r, Append(q, e), b)
<1>1. ASSUME NEW i \in 1..Len(Append(q, e)) PROVE Append(q, e)[i].after <= b
  <2>1. CASE i = Len(q) + 1
    BY <2>1
  <2>2. CASE i # Len(q) + 1
    <3>1. i \in 1..Len(q) /\ Append(q, e)[i] = q[i]
      BY <2>2
    <3> QED BY <3>1 DEF Within
  <2> QED BY <2>1, <2>2
<1> QED BY <1>1 DEF Within

LEMMA WithinTail ==
  ASSUME NEW r, NEW q \in Seq(Increment), NEW b, q # <<>>, NEW s,
         Within(r, q, b), s.spend = q[1].after
  PROVE  Within(s, Tail(q), b)
<1>1. s.spend <= b
  BY DEF Within
<1>2. ASSUME NEW i \in 1..Len(Tail(q)) PROVE Tail(q)[i].after <= b
  <2>1. Tail(q)[i] = q[i+1] /\ i+1 \in 1..Len(q)
    OBVIOUS
  <2> QED BY <2>1 DEF Within
<1> QED BY <1>1, <1>2 DEF Within

-----------------------------------------------------------------------------
(* The inductive invariant. *)

\* Unless it is muddled, the ledger of a key is a chain, and empty if it has no account.
LineUp(k) ==
  ~muddled[k] => IF Registered(k) THEN Agrees(info[k], row[k], queue[k])
                                  ELSE row[k] = NoKey /\ queue[k] = <<>>

\* The whole chain of a tenant that reserves enough is below the budgets it had.
KeptIn(k) ==
  k # Admin /\ Registered(k) /\ ~muddled[k] =>
    /\ info[k].plan.budget <= cap[k]
    /\ ~under[k] => info[k].spend <= cap[k] /\ Within(row[k], queue[k], cap[k])

\* A call that reserved less than it may cost has marked its key.
CallsMark ==
  \A s \in Slots : call[s] # NoKey /\ ~under[call[s].key] => call[s].reserved >= MaxCost

IInv ==
  /\ TypeOK
  /\ \A k \in Keys : LineUp(k)
  /\ \A k \in Keys : KeptIn(k)
  /\ CallsMark

\* A key that a step leaves alone keeps its part of the invariant.
LEMMA Untouched ==
  ASSUME NEW j \in Keys, LineUp(j), KeptIn(j),
         info'[j] = info[j], row'[j] = row[j], queue'[j] = queue[j],
         muddled'[j] = muddled[j], cap'[j] = cap[j], under[j] => under'[j]
  PROVE  LineUp(j)' /\ KeptIn(j)'
BY DEF LineUp, KeptIn, Registered

\* A call that begins marks its key unless it reserves what it may cost.
LEMMA BeginMarks ==
  ASSUME TypeOK, NEW s \in Slots, NEW k \in Keys, NEW a \in Nat, Begin(s, k, a)
  PROVE  /\ \A j \in Keys : under[j] => under'[j]
         /\ ~under'[k] => ~under[k] /\ a >= MaxCost
         /\ call' = [call EXCEPT ![s] = [key |-> k, reserved |-> a]]
<1>1. call' = [call EXCEPT ![s] = [key |-> k, reserved |-> a]]
  BY DEF Begin
<1>2. CASE a >= MaxCost
  <2>1. ~(a < MaxCost)
    BY <1>2, QuotaAssumption
  <2>2. under' = [under EXCEPT ![k] = under[k]]
    BY <2>1 DEF Begin, TypeOK
  <2>3. \A j \in Keys : under'[j] = under[j]
    BY <2>2 DEF TypeOK
  <2> QED BY <1>1, <1>2, <2>3
<1>3. CASE ~(a >= MaxCost)
  <2>1. a < MaxCost
    BY <1>3, QuotaAssumption
  <2>2. under' = [under EXCEPT ![k] = TRUE]
    BY <2>1 DEF Begin, TypeOK
  <2>3. under'[k] /\ \A j \in Keys \ {k} : under'[j] = under[j]
    BY <2>2 DEF TypeOK
  <2> QED BY <1>1, <2>3
<1> QED BY <1>2, <1>3

\* A booking keeps the chain, and below any bound on it that it does not pass.
LEMMA BookKeeps ==
  ASSUME TypeOK, NEW k \in Keys, LineUp(k), Registered(k),
         NEW account \in Account, account.plan = info[k].plan, account.spend = info[k].spend,
         NEW amount \in Int, Book(k, account, amount), UNCHANGED <<row, muddled>>
  PROVE  /\ LineUp(k)'
         /\ Registered(k)'
         /\ info'[k].spend = info[k].spend + amount
         /\ info'[k].plan = info[k].plan
         /\ \A j \in Keys \ {k} : info'[j] = info[j] /\ queue'[j] = queue[j]
         /\ \A b : Within(row[k], queue[k], b) /\ info[k].spend + amount <= b
                     => Within(row[k], queue'[k], b)
<1> DEFINE c == [account EXCEPT !.spend = account.spend + amount]
<1>1. /\ c \in Account /\ c.spend = info[k].spend + amount /\ c.plan = info[k].plan
  BY DEF Account
<1>2. info' = [info EXCEPT ![k] = c]
  BY DEF Book
<1>3. info'[k] = c /\ \A j \in Keys \ {k} : info'[j] = info[j]
  BY <1>2 DEF TypeOK
<1> HIDE DEF c
<1>4. Registered(k)'
  BY <1>1, <1>3, QuotaAssumption DEF Registered
<1>5. info[k] \in Account /\ info[k].spend \in Int /\ queue[k] \in Seq(Increment)
  BY HasAccount DEF TypeOK
<1>6. CASE amount = 0
  <2>1. queue' = queue
    BY <1>6 DEF Book
  <2>2. c.spend = info[k].spend
    BY <1>1, <1>5, <1>6
  <2>3. ~muddled[k] => Agrees(c, row[k], queue[k])
    BY <1>1, <2>2 DEF LineUp, Agrees
  <2>4. LineUp(k)'
    BY <1>3, <1>4, <2>1, <2>3 DEF LineUp
  <2> QED BY <1>1, <1>3, <1>4, <2>1, <2>4
<1>7. CASE amount # 0
  <2> DEFINE e == [amount |-> amount, after |-> c.spend]
  <2>1. c.spend = account.spend + amount
    BY <1>1
  <2>2. queue' = [queue EXCEPT ![k] = Append(@, e)]
    BY <1>7, <2>1 DEF Book
  <2>3. queue'[k] = Append(queue[k], e) /\ \A j \in Keys \ {k} : queue'[j] = queue[j]
    BY <2>2 DEF TypeOK
  <2>4. e \in Increment /\ e.after = c.spend
    BY <1>1, <1>5 DEF Increment
  <2>5. ASSUME ~muddled[k] PROVE Agrees(c, row[k], queue'[k])
    <3>1. Agrees(info[k], row[k], queue[k]) /\ row[k] \in Row
      BY <2>5 DEF LineUp, Agrees, TypeOK
    <3> QED BY <3>1, <1>1, <1>5, <2>3, AgreesAppend
  <2>6. LineUp(k)'
    BY <1>3, <1>4, <2>5 DEF LineUp
  <2>7. ASSUME NEW b, Within(row[k], queue[k], b), info[k].spend + amount <= b
        PROVE  Within(row[k], queue'[k], b)
    <3> HIDE DEF e
    <3>1. e.after <= b
      BY <2>4, <2>7, <1>1
    <3> QED BY <3>1, <2>3, <2>4, <2>7, <1>5, WithinAppend
  <2> QED BY <1>1, <1>3, <1>4, <2>3, <2>6, <2>7
<1> QED BY <1>6, <1>7

-----------------------------------------------------------------------------
(* Every action keeps the invariant. *)

\* A registration starts a chain: an empty one, unless the key is muddled.
LEMMA RegisterKeeps ==
  ASSUME IInv, NEW k \in Keys, NEW p \in Plans, NEW saved \in BOOLEAN, Register(k, p, saved)
  PROVE  (\A j \in Keys : LineUp(j)') /\ (\A j \in Keys : KeptIn(j)') /\ CallsMark'
<1> DEFINE a == [plan |-> p, spend |-> 0, window |-> 0]
<1>1. /\ info'[k] = a /\ cap'[k] = p.budget /\ queue' = queue /\ under' = under /\ call' = call
      /\ muddled'[k] = (~saved \/ queue[k] # <<>>)
      /\ saved => row'[k] = [plan |-> p, spend |-> 0]
  BY DEF IInv, TypeOK, Register, Save, PassesQueue
<1>2. \A j \in Keys \ {k} : /\ info'[j] = info[j] /\ row'[j] = row[j]
                            /\ cap'[j] = cap[j] /\ muddled'[j] = muddled[j]
  BY DEF IInv, TypeOK, Register, Save
<1>3. p.budget \in Nat /\ a \in Account /\ [plan |-> p, spend |-> 0] \in Row
  BY QuotaAssumption DEF Account, Row
<1>4. a # NoKey /\ [plan |-> p, spend |-> 0] # NoKey
  BY <1>3, QuotaAssumption
<1>5. Registered(k)'
  BY <1>1, <1>4 DEF Registered
<1>6. ASSUME ~muddled'[k]
      PROVE  queue'[k] = <<>> /\ row'[k] = [plan |-> p, spend |-> 0]
  BY <1>1, <1>6
<1>7. LineUp(k)'
  BY <1>1, <1>4, <1>5, <1>6 DEF LineUp, Agrees
<1>8. KeptIn(k)'
  BY <1>1, <1>3, <1>6 DEF KeptIn, Within
<1>9. CallsMark'
  BY <1>1 DEF IInv, CallsMark
<1>10. \A j \in Keys \ {k} : LineUp(j)' /\ KeptIn(j)'
  BY <1>1, <1>2, Untouched DEF IInv
<1> QED BY <1>7, <1>8, <1>9, <1>10

\* An upgrade changes the plan of both ends of the chain; the bound can only grow.
LEMMA UpgradeKeeps ==
  ASSUME IInv, NEW k \in Keys, NEW p \in Plans, NEW saved \in BOOLEAN, Upgrade(k, p, saved)
  PROVE  (\A j \in Keys : LineUp(j)') /\ (\A j \in Keys : KeptIn(j)') /\ CallsMark'
<1>1. Registered(k) /\ info[k] \in Account /\ info[k].spend \in Int /\ cap[k] \in Nat
  BY HasAccount DEF IInv, TypeOK, Upgrade
<1>2. /\ queue' = queue /\ under' = under /\ call' = call
      /\ info'[k] = [info[k] EXCEPT !.plan = p]
      /\ cap'[k] = IF p.budget > cap[k] THEN p.budget ELSE cap[k]
      /\ muddled'[k] = (muddled[k] \/ ~saved \/ queue[k] # <<>>)
      /\ saved => row'[k] = [plan |-> p, spend |-> info[k].spend]
  BY DEF IInv, TypeOK, Upgrade, Save, PassesQueue
<1>3. \A j \in Keys \ {k} : /\ info'[j] = info[j] /\ row'[j] = row[j]
                            /\ cap'[j] = cap[j] /\ muddled'[j] = muddled[j]
  BY DEF IInv, TypeOK, Upgrade, Save
<1>4. info'[k] \in Account /\ info'[k].plan = p /\ info'[k].spend = info[k].spend
  BY <1>1, <1>2 DEF Account
<1>5. [plan |-> p, spend |-> info[k].spend] \in Row
  BY <1>1 DEF Row
<1>6. Registered(k)' /\ [plan |-> p, spend |-> info[k].spend] # NoKey
  BY <1>4, <1>5, QuotaAssumption DEF Registered
<1>7. ASSUME ~muddled'[k]
      PROVE  ~muddled[k] /\ queue'[k] = <<>> /\ row'[k] = [plan |-> p, spend |-> info[k].spend]
  BY <1>2, <1>7
<1>8. LineUp(k)'
  BY <1>4, <1>6, <1>7 DEF LineUp, Agrees
<1>9. p.budget \in Nat /\ p.budget <= cap'[k] /\ cap[k] <= cap'[k]
  BY <1>1, <1>2, QuotaAssumption
<1>10. KeptIn(k)'
  <2> SUFFICES ASSUME k # Admin, ~muddled'[k]
               PROVE  /\ info'[k].plan.budget <= cap'[k]
                      /\ ~under'[k] => info'[k].spend <= cap'[k] /\ Within(row'[k], queue'[k], cap'[k])
    BY DEF KeptIn
  <2>1. ~under[k] => info[k].spend <= cap[k]
    BY <1>1, <1>7 DEF IInv, KeptIn
  <2>2. ~under[k] => info[k].spend <= cap'[k]
    BY <2>1, <1>1, <1>9, <1>2
  <2> QED BY <1>2, <1>4, <1>7, <1>9, <2>2 DEF Within
<1>11. CallsMark'
  BY <1>2 DEF IInv, CallsMark
<1>12. \A j \in Keys \ {k} : LineUp(j)' /\ KeptIn(j)'
  BY <1>2, <1>3, Untouched DEF IInv
<1> QED BY <1>8, <1>10, <1>11, <1>12

\* A reservation is made within the budget, which is within the bound.
LEMMA AdmitKeeps ==
  ASSUME IInv, NEW s \in Slots, NEW k \in Keys, NEW a \in Reserves, Admit(s, k, a)
  PROVE  (\A j \in Keys : LineUp(j)') /\ (\A j \in Keys : KeptIn(j)') /\ CallsMark'
<1> a \in Nat
  BY QuotaAssumption
<1>1. /\ Registered(k) /\ info[k] \in Account /\ info[k].spend \in Int
      /\ info[k].plan.budget \in Nat /\ Counted(k) \in Account
  BY HasAccount DEF IInv, Admit
<1>2. Counted(k).plan = info[k].plan /\ Counted(k).spend = info[k].spend
  BY <1>1 DEF Counted, Account
<1>3. /\ LineUp(k)' /\ Registered(k)' /\ row' = row /\ cap' = cap /\ muddled' = muddled
      /\ info'[k].spend = info[k].spend + a /\ info'[k].plan = info[k].plan
      /\ \A j \in Keys \ {k} : info'[j] = info[j] /\ queue'[j] = queue[j]
      /\ \A b : Within(row[k], queue[k], b) /\ info[k].spend + a <= b
                  => Within(row[k], queue'[k], b)
  <2>1. Book(k, Counted(k), a) /\ UNCHANGED <<row, cap, muddled>>
    BY DEF Admit
  <2> QED BY <1>1, <1>2, <2>1, BookKeeps DEF IInv
<1>4. /\ \A j \in Keys : under[j] => under'[j]
      /\ ~under'[k] => ~under[k] /\ a >= MaxCost
      /\ call' = [call EXCEPT ![s] = [key |-> k, reserved |-> a]]
  <2>1. Begin(s, k, a)
    BY DEF Admit
  <2> QED BY <2>1, BeginMarks DEF IInv
<1>5. KeptIn(k)'
  <2> SUFFICES ASSUME k # Admin, ~muddled[k]
               PROVE  /\ info'[k].plan.budget <= cap[k]
                      /\ ~under'[k] => info'[k].spend <= cap[k] /\ Within(row[k], queue'[k], cap[k])
    BY <1>3 DEF KeptIn
  <2>1. info[k].plan.budget <= cap[k] /\ cap[k] \in Nat
    BY <1>1 DEF IInv, KeptIn, TypeOK
  <2>2. info[k].spend + a <= cap[k]
    BY <1>1, <2>1 DEF Admit, InBudget
  <2>3. ~under'[k] => Within(row[k], queue[k], cap[k])
    BY <1>1, <1>4 DEF IInv, KeptIn
  <2> QED BY <1>3, <2>1, <2>2, <2>3
<1>6. CallsMark'
  <2> SUFFICES ASSUME NEW t \in Slots, call'[t] # NoKey, ~under'[call'[t].key]
               PROVE  call'[t].reserved >= MaxCost
    BY DEF CallsMark
  <2>1. CASE t = s
    <3>1. call'[t] = [key |-> k, reserved |-> a]
      BY <1>4, <2>1 DEF IInv, TypeOK
    <3>2. call'[t].key = k /\ ~under'[k]
      BY <3>1
    <3> QED BY <1>4, <3>1, <3>2
  <2>2. CASE t # s
    <3>1. call'[t] = call[t] /\ call[t].key \in Keys
      BY <1>4, <2>2 DEF IInv, TypeOK, Call
    <3> QED BY <1>4, <3>1 DEF IInv, CallsMark
  <2> QED BY <2>1, <2>2
<1>7. \A j \in Keys \ {k} : LineUp(j)' /\ KeptIn(j)'
  BY <1>3, <1>4, Untouched DEF IInv
<1> QED BY <1>3, <1>5, <1>6, <1>7

\* Counting a request, or forgetting one, leaves spend and plan alone.
LEMMA WindowKeeps ==
  ASSUME IInv, NEW k \in Keys, Registered(k), NEW n \in Nat,
         info' = [info EXCEPT ![k] = [info[k] EXCEPT !.window = n]],
         UNCHANGED <<row, queue, call, cap, under, muddled>>
  PROVE  (\A j \in Keys : LineUp(j)') /\ (\A j \in Keys : KeptIn(j)') /\ CallsMark'
<1>1. info[k] \in Account
  BY HasAccount DEF IInv
<1>2. /\ info'[k] = [info[k] EXCEPT !.window = n]
      /\ \A j \in Keys \ {k} : info'[j] = info[j]
  BY DEF IInv, TypeOK
<1>3. info'[k] \in Account /\ info'[k].plan = info[k].plan /\ info'[k].spend = info[k].spend
  BY <1>1, <1>2, AccountCounts DEF Account
<1>4. Registered(k)'
  BY <1>3, QuotaAssumption DEF Registered
<1>5. LineUp(k)' /\ KeptIn(k)'
  BY <1>3, <1>4 DEF IInv, LineUp, KeptIn, Agrees
<1>6. \A j \in Keys \ {k} : LineUp(j)' /\ KeptIn(j)'
  BY <1>2, Untouched DEF IInv
<1>7. CallsMark'
  BY DEF IInv, CallsMark
<1> QED BY <1>5, <1>6, <1>7

\* A call that nobody checked marks its key.
LEMMA BypassKeeps ==
  ASSUME IInv, NEW s \in Slots, NEW k \in Keys, Bypass(s, k)
  PROVE  (\A j \in Keys : LineUp(j)') /\ (\A j \in Keys : KeptIn(j)') /\ CallsMark'
<1>1. /\ \A j \in Keys : under[j] => under'[j]
      /\ ~under'[k] => 0 >= MaxCost
      /\ call' = [call EXCEPT ![s] = [key |-> k, reserved |-> 0]]
      /\ UNCHANGED <<info, row, queue, cap, muddled>>
  <2>1. Begin(s, k, 0) /\ UNCHANGED <<info, row, queue, cap, muddled>>
    BY DEF Bypass
  <2> QED BY <2>1, BeginMarks DEF IInv
<1>2. CallsMark'
  <2> SUFFICES ASSUME NEW t \in Slots, call'[t] # NoKey, ~under'[call'[t].key]
               PROVE  call'[t].reserved >= MaxCost
    BY DEF CallsMark
  <2>1. CASE t = s
    <3>1. call'[t] = [key |-> k, reserved |-> 0]
      BY <1>1, <2>1 DEF IInv, TypeOK
    <3>2. call'[t].key = k /\ ~under'[k]
      BY <3>1
    <3> QED BY <1>1, <3>1, <3>2
  <2>2. CASE t # s
    <3>1. call'[t] = call[t] /\ call[t].key \in Keys
      BY <1>1, <2>2 DEF IInv, TypeOK, Call
    <3> QED BY <1>1, <3>1 DEF IInv, CallsMark
  <2> QED BY <2>1, <2>2
<1> QED BY <1>1, <1>2, Untouched DEF IInv

\* A call that reserved enough gives back; the others have marked their key.
LEMMA ChargeKeeps ==
  ASSUME IInv, NEW s \in Slots, NEW cost \in 0..MaxCost, Charge(s, cost)
  PROVE  (\A j \in Keys : LineUp(j)') /\ (\A j \in Keys : KeptIn(j)') /\ CallsMark'
<1>0. PICK k \in Keys, amount \in Int : k = call[s].key /\ amount = cost - call[s].reserved
  BY QuotaAssumption DEF IInv, TypeOK, Charge, Call
<1>1. call[s] # NoKey /\ call[s].key = k /\ call[s].reserved \in Nat /\ amount \in Int
  BY <1>0 DEF IInv, TypeOK, Charge, Call
<1>2. /\ call' = [call EXCEPT ![s] = NoKey]
      /\ UNCHANGED <<row, cap, under, muddled>>
  BY DEF Charge
<1>3. CallsMark'
  BY <1>2 DEF IInv, TypeOK, CallsMark
<1>4. CASE ~Registered(k)
  <2>1. UNCHANGED <<info, queue>>
    BY <1>1, <1>4 DEF Charge
  <2> QED BY <1>2, <1>3, <2>1, Untouched DEF IInv
<1>5. CASE Registered(k)
  <2>1. info[k] \in Account /\ info[k].spend \in Int
    BY <1>1, <1>5, HasAccount DEF IInv
  <2>2. Book(k, info[k], amount)
    BY <1>0, <1>5 DEF Charge
  <2>3. /\ LineUp(k)'
        /\ info'[k].spend = info[k].spend + amount /\ info'[k].plan = info[k].plan
        /\ \A j \in Keys \ {k} : info'[j] = info[j] /\ queue'[j] = queue[j]
        /\ \A b : Within(row[k], queue[k], b) /\ info[k].spend + amount <= b
                    => Within(row[k], queue'[k], b)
    BY <1>1, <1>2, <1>5, <2>1, <2>2, BookKeeps DEF IInv
  <2>4. ~under[k] => amount <= 0
    BY <1>0, <1>1, QuotaAssumption DEF IInv, CallsMark
  <2>5. KeptIn(k)'
    <3> SUFFICES ASSUME k # Admin, ~muddled[k]
                 PROVE  /\ info'[k].plan.budget <= cap[k]
                        /\ ~under[k] => info'[k].spend <= cap[k] /\ Within(row[k], queue'[k], cap[k])
      BY <1>2 DEF KeptIn
    <3>1. /\ info[k].plan.budget <= cap[k]
          /\ ~under[k] => info[k].spend <= cap[k] /\ Within(row[k], queue[k], cap[k])
      BY <1>1, <1>5 DEF IInv, KeptIn
    <3>2. cap[k] \in Nat
      BY <1>1 DEF IInv, TypeOK
    <3>3. ~under[k] => info[k].spend + amount <= cap[k]
      BY <1>1, <2>1, <2>4, <3>1, <3>2
    <3> QED BY <2>3, <3>1, <3>3
  <2>6. \A j \in Keys \ {k} : LineUp(j)' /\ KeptIn(j)'
    BY <1>2, <2>3, Untouched DEF IInv
  <2> QED BY <1>3, <2>3, <2>5, <2>6
<1> QED BY <1>4, <1>5

\* The row moves one increment along the chain.
LEMMA CommitKeeps ==
  ASSUME IInv, NEW k \in Keys, Commit(k)
  PROVE  (\A j \in Keys : LineUp(j)') /\ (\A j \in Keys : KeptIn(j)') /\ CallsMark'
<1>1. /\ queue[k] # <<>> /\ queue[k] \in Seq(Increment)
      /\ UNCHANGED <<info, call, cap, under, muddled>>
      /\ queue'[k] = Tail(queue[k])
      /\ \A j \in Keys \ {k} : queue'[j] = queue[j] /\ row'[j] = row[j]
  BY DEF IInv, TypeOK, Commit
<1>2. ASSUME ~muddled[k]
      PROVE  /\ Registered(k) /\ Agrees(info[k], row'[k], queue'[k])
             /\ \A b : Within(row[k], queue[k], b) => Within(row'[k], queue'[k], b)
  <2>1. Registered(k) /\ Agrees(info[k], row[k], queue[k])
    BY <1>1, <1>2 DEF IInv, LineUp
  <2>2. row[k] \in Row /\ row[k] # NoKey /\ info[k] \in Account
    BY <2>1, HasAccount DEF IInv, TypeOK, Agrees
  <2>3. row'[k] = [row[k] EXCEPT !.spend = row[k].spend + Head(queue[k]).amount]
    BY <2>2 DEF IInv, TypeOK, Commit
  <2>4. Head(queue[k]).amount \in Int /\ row[k].spend \in Int
    <3>1. Head(queue[k]) \in Increment
      BY <1>1
    <3> QED BY <3>1, <2>2 DEF Increment, Row
  <2>5. row'[k] \in Row
    BY <2>2, <2>3, <2>4, RowCounts
  <2>6. row'[k].plan = row[k].plan /\ row'[k].spend = row[k].spend + Head(queue[k]).amount
    BY <2>2, <2>3 DEF Row
  <2>7. Agrees(info[k], row'[k], queue'[k]) /\ row'[k].spend = queue[k][1].after
    BY <1>1, <2>1, <2>2, <2>5, <2>6, AgreesTail
  <2> QED BY <1>1, <2>1, <2>7, WithinTail
<1>3. LineUp(k)' /\ KeptIn(k)'
  BY <1>1, <1>2 DEF IInv, LineUp, KeptIn, Registered
<1>4. \A j \in Keys \ {k} : LineUp(j)' /\ KeptIn(j)'
  BY <1>1, Untouched DEF IInv
<1> QED BY <1>1, <1>3, <1>4 DEF IInv, CallsMark

\* A lost increment muddles its key.
LEMMA LoseKeeps ==
  ASSUME IInv, NEW k \in Keys, Lose(k)
  PROVE  (\A j \in Keys : LineUp(j)') /\ (\A j \in Keys : KeptIn(j)') /\ CallsMark'
<1>1. /\ muddled'[k] /\ UNCHANGED <<info, row, call, cap, under>>
      /\ \A j \in Keys \ {k} : queue'[j] = queue[j] /\ muddled'[j] = muddled[j]
  BY DEF IInv, TypeOK, Lose
<1>2. LineUp(k)' /\ KeptIn(k)'
  BY <1>1 DEF LineUp, KeptIn
<1> QED BY <1>1, <1>2, Untouched DEF IInv, CallsMark

\* A restart loads a row, or leaves it and says so.
LEMMA LoadsOrMuddles ==
  ASSUME NEW loaded, Restart(loaded), NEW j \in Keys
  PROVE  /\ muddled[j] => muddled'[j]
         /\ ~muddled'[j] =>
              info'[j] = IF row'[j] = NoKey THEN NoKey
                         ELSE [plan |-> row'[j].plan, spend |-> row'[j].spend, window |-> 0]
<1>1. muddled'[j] = (muddled[j] \/ (row'[j] # NoKey /\ info'[j] = NoKey))
  BY DEF Restart
<1>2. CASE loaded \/ j = Admin
  BY <1>1, <1>2 DEF Restart
<1>3. CASE ~(loaded \/ j = Admin)
  <2>1. info'[j] = NoKey
    BY <1>3 DEF Restart
  <2> QED BY <1>1, <2>1
<1> QED BY <1>2, <1>3

\* A restart takes each chain back to its row.
LEMMA RestartKeeps ==
  ASSUME IInv, NEW loaded \in BOOLEAN, Restart(loaded)
  PROVE  (\A j \in Keys : LineUp(j)') /\ (\A j \in Keys : KeptIn(j)') /\ CallsMark'
<1>1. CallsMark'
  BY DEF Restart, CallsMark
<1>2. ASSUME NEW j \in Keys PROVE LineUp(j)' /\ KeptIn(j)'
  <2>1. /\ queue'[j] = <<>> /\ UNCHANGED <<cap, under>> /\ (muddled[j] => muddled'[j])
        /\ ~muddled'[j] =>
             info'[j] = IF row'[j] = NoKey THEN NoKey
                        ELSE [plan |-> row'[j].plan, spend |-> row'[j].spend, window |-> 0]
        /\ j # Admin => row'[j] = row[j]
    BY LoadsOrMuddles DEF IInv, TypeOK, Restart
  <2>2. LineUp(j)'
    <3>0. CASE muddled'[j]
      BY <3>0 DEF LineUp
    <3>1. CASE row'[j] = NoKey /\ ~muddled'[j]
      BY <2>1, <3>1 DEF LineUp, Registered
    <3>2. CASE row'[j] # NoKey /\ ~muddled'[j]
      <4>1. info'[j].plan = row'[j].plan /\ info'[j].spend = row'[j].spend
        BY <2>1, <3>2
      <4>2. Agrees(info'[j], row'[j], queue'[j])
        BY <2>1, <3>2, <4>1 DEF Agrees
      <4>3. row'[j] \in Row
        <5>1. [plan |-> AdminPlan, spend |-> 0] \in Row
          BY QuotaAssumption DEF Row
        <5>2. row'[j] = [plan |-> AdminPlan, spend |-> 0] \/ row'[j] = row[j]
          BY DEF IInv, TypeOK, Restart
        <5> QED BY <3>2, <5>1, <5>2 DEF IInv, TypeOK
      <4>4. info'[j] \in Account
        BY <2>1, <3>2, <4>3 DEF Row, Account
      <4> QED BY <4>2, <4>4, QuotaAssumption DEF LineUp, Registered
    <3> QED BY <3>0, <3>1, <3>2
  <2>3. KeptIn(j)'
    <3> SUFFICES ASSUME j # Admin, Registered(j)', ~muddled'[j]
                 PROVE  /\ info'[j].plan.budget <= cap[j]
                        /\ ~under[j] => info'[j].spend <= cap[j] /\ Within(row'[j], queue'[j], cap[j])
      BY <2>1 DEF KeptIn
    <3>1. row[j] # NoKey /\ row'[j] = row[j]
      BY <2>1 DEF Registered
    <3>2. Registered(j) /\ row[j].plan = info[j].plan
      BY <2>1, <3>1 DEF IInv, LineUp, Agrees
    <3>3. info'[j].plan = row[j].plan /\ info'[j].spend = row[j].spend
      BY <2>1, <3>1
    <3>4. KeptIn(j) /\ ~muddled[j]
      BY <2>1 DEF IInv
    <3>5. queue'[j] = <<>>
      BY <2>1
    <3> QED BY <3>1, <3>2, <3>3, <3>4, <3>5 DEF KeptIn, Within
  <2> QED BY <2>2, <2>3
<1> QED BY <1>1, <1>2

-----------------------------------------------------------------------------
(* Theorems *)

\* The first state satisfies the invariant.
LEMMA InvInit == Init => IInv
<1> SUFFICES ASSUME Init PROVE IInv
  OBVIOUS
<1>1. TypeOK
  BY TypeInit
<1>2. ASSUME NEW k \in Keys PROVE LineUp(k)
  <2>1. CASE k = Admin
    <3>1. /\ info[k].plan = AdminPlan /\ info[k].spend = 0 /\ queue[k] = <<>>
          /\ row[k] = [plan |-> AdminPlan, spend |-> 0]
      BY <2>1 DEF Init
    <3>2. row[k] \in Row
      BY <3>1, QuotaAssumption DEF Row
    <3>3. Agrees(info[k], row[k], queue[k])
      BY <3>1, <3>2, QuotaAssumption DEF Agrees
    <3>4. Registered(k)
      <4>1. info[k] = [plan |-> AdminPlan, spend |-> 0, window |-> 0]
        BY <2>1 DEF Init
      <4>2. info[k] \in Account
        BY <4>1, QuotaAssumption DEF Account
      <4> QED BY <4>2, QuotaAssumption DEF Registered
    <3> QED BY <3>3, <3>4 DEF LineUp
  <2>2. CASE k # Admin
    BY <2>2 DEF Init, LineUp, Registered
  <2> QED BY <2>1, <2>2
<1>3. ASSUME NEW k \in Keys PROVE KeptIn(k)
  BY DEF Init, KeptIn, Registered
<1>4. CallsMark
  BY DEF Init, CallsMark
<1> QED BY <1>1, <1>2, <1>3, <1>4 DEF IInv

\* Every step keeps it.
LEMMA InvStep == IInv /\ [Next]_vars => IInv'
<1> SUFFICES ASSUME IInv, [Next]_vars PROVE IInv'
  OBVIOUS
<1> DEFINE Kept == (\A j \in Keys : LineUp(j)') /\ (\A j \in Keys : KeptIn(j)') /\ CallsMark'
<1>1. ASSUME NEW k \in Keys, NEW p \in Plans, NEW saved \in BOOLEAN,
             Register(k, p, saved) \/ Upgrade(k, p, saved)
      PROVE  Kept
  BY <1>1, RegisterKeeps, UpgradeKeeps
<1>2. ASSUME NEW s \in Slots, NEW k \in Keys, NEW a \in Reserves, Admit(s, k, a)
      PROVE  Kept
  BY <1>2, AdmitKeeps
<1>3. ASSUME NEW k \in Keys, NEW a \in Reserves, Refuse(k, a)
      PROVE  Kept
  <2>1. Registered(k) /\ info[k].window + 1 \in Nat
    BY <1>3, HasAccount DEF IInv, Refuse
  <2>2. /\ info' = [info EXCEPT ![k] = [info[k] EXCEPT !.window = info[k].window + 1]]
        /\ UNCHANGED <<row, queue, call, cap, under, muddled>>
    BY <1>3 DEF Refuse, Counted
  <2> QED BY <2>1, <2>2, WindowKeeps
<1>4. ASSUME NEW s \in Slots, NEW k \in Keys, Bypass(s, k)
      PROVE  Kept
  BY <1>4, BypassKeeps
<1>5. ASSUME NEW s \in Slots, NEW cost \in 0..MaxCost, Charge(s, cost)
      PROVE  Kept
  BY <1>5, ChargeKeeps
<1>6. ASSUME NEW k \in Keys, Slide(k)
      PROVE  Kept
  <2>1. Registered(k) /\ info[k].window - 1 \in Nat
    BY <1>6, HasAccount DEF IInv, Slide
  <2>2. /\ info' = [info EXCEPT ![k] = [info[k] EXCEPT !.window = info[k].window - 1]]
        /\ UNCHANGED <<row, queue, call, cap, under, muddled>>
    BY <1>6 DEF Slide
  <2> QED BY <2>1, <2>2, WindowKeeps
<1>7. ASSUME NEW k \in Keys, Commit(k) \/ Lose(k)
      PROVE  Kept
  BY <1>7, CommitKeeps, LoseKeeps
<1>8. ASSUME NEW loaded \in BOOLEAN, Restart(loaded)
      PROVE  Kept
  BY <1>8, RestartKeeps
<1>9. ASSUME UNCHANGED vars
      PROVE  Kept
  <2>1. CallsMark'
    BY <1>9 DEF IInv, CallsMark, vars
  <2>2. UNCHANGED <<info, row, queue, cap, under, muddled>>
    BY <1>9 DEF vars
  <2>3. ASSUME NEW j \in Keys
        PROVE  LineUp(j)' /\ KeptIn(j)'
    BY <2>2, Untouched DEF IInv
  <2> QED BY <2>1, <2>3
<1>10. Kept
  <2> HIDE DEF Kept
  <2>1. CASE Next
    BY <1>1, <1>2, <1>3, <1>4, <1>5, <1>6, <1>7, <1>8, <2>1 DEF Next
  <2>2. CASE UNCHANGED vars
    BY <1>9, <2>2
  <2> QED BY <2>1, <2>2
<1> QED BY <1>10, TypeStep DEF IInv

\* Check-and-reserve works: for every setting, a key whose calls reserve what
\* they may cost stays within its budget, across upgrades, refunds and restarts.
THEOREM BudgetIsKept == Spec => []BudgetHolds
<1>1. IInv => BudgetHolds
  BY DEF IInv, KeptIn, BudgetHolds, Tenant
<1> QED BY <1>1, InvInit, InvStep, PTL DEF Spec

\* Memory and the row of a key say the same once the queue is empty.
THEOREM LedgerIsDurable == Spec => []DurableWhenDrained
<1>1. IInv => DurableWhenDrained
  BY DEF IInv, LineUp, Agrees, DurableWhenDrained
<1> QED BY <1>1, InvInit, InvStep, PTL DEF Spec

-----------------------------------------------------------------------------
(* How far a key can pass its budget *)

\* The slots that do not run a call of the key, what they leave room for, and
\* what all slots together can cost.
Elsewhere(k) == {s \in Slots : ~(call[s] # NoKey /\ call[s].key = k)}
Room(k) == Cardinality(Elsewhere(k)) * MaxCost
Limit == Cardinality(Slots) * MaxCost

\* Each call that ends adds its cost and frees its slot.
Restrained(k) ==
  k # Admin /\ Registered(k) /\ ~muddled[k] =>
    /\ info[k].spend <= cap[k] + Room(k)
    /\ Within(row[k], queue[k], cap[k] + Limit)

OInv == IInv /\ \A k \in Keys : Restrained(k)

\* Any set of slots costs between nothing and the limit.
LEMMA RoomBounds ==
  ASSUME NEW S \in SUBSET Slots
  PROVE  Cardinality(S) * MaxCost \in Nat /\ Cardinality(S) * MaxCost <= Limit /\ Limit \in Nat
<1>1. Cardinality(S) \in Nat /\ Cardinality(Slots) \in Nat /\ Cardinality(S) <= Cardinality(Slots)
  BY QuotaAssumption, FS_Subset, FS_CardinalityType
<1>2. \A m, n, c \in Nat : m <= n => m * c \in Nat /\ m * c <= n * c
  OBVIOUS
<1> QED BY <1>1, <1>2, QuotaAssumption DEF Limit

\* The call that ends in slot s gives its key the room of one more call.
LEMMA RoomGrows ==
  ASSUME TypeOK, NEW s \in Slots, NEW k \in Keys, call[s] # NoKey, call[s].key = k,
         call' = [call EXCEPT ![s] = NoKey]
  PROVE  Room(k)' = Room(k) + MaxCost
<1>1. /\ call'[s] = NoKey /\ \A t \in Slots \ {s} : call'[t] = call[t]
  BY DEF TypeOK
<1>2. Elsewhere(k)' = Elsewhere(k) \cup {s} /\ s \notin Elsewhere(k)
  BY <1>1 DEF Elsewhere
<1>3. IsFiniteSet(Elsewhere(k))
  BY QuotaAssumption, FS_Subset DEF Elsewhere
<1>4. Cardinality(Elsewhere(k)') = Cardinality(Elsewhere(k)) + 1
  BY <1>2, <1>3, FS_AddElement
<1>5. \A n, c \in Nat : (n + 1) * c = n * c + c
  OBVIOUS
<1>6. Cardinality(Elsewhere(k)) \in Nat
  BY <1>3, FS_CardinalityType
<1>7. Room(k)' = Cardinality(Elsewhere(k)') * MaxCost
  BY DEF Room
<1> QED BY <1>4, <1>5, <1>6, <1>7, QuotaAssumption DEF Room

\* A key that a step leaves alone, with as many calls, stays restrained.
LEMMA StaysRestrained ==
  ASSUME NEW j \in Keys, Restrained(j), Elsewhere(j)' = Elsewhere(j),
         info'[j] = info[j], row'[j] = row[j], queue'[j] = queue[j],
         muddled'[j] = muddled[j], cap'[j] = cap[j]
  PROVE  Restrained(j)'
BY DEF Restrained, Registered, Room, Limit

\* Where no call begins or ends, the calls of a key stay where they are.
LEMMA SameElsewhere ==
  ASSUME UNCHANGED call
  PROVE  \A j : Elsewhere(j)' = Elsewhere(j)
BY DEF Elsewhere

\* A registration or an upgrade: spend does not grow and the bound does not shrink,
\* or the chain is short enough to look at.
LEMMA PlanRestrained ==
  ASSUME OInv, NEW k \in Keys, NEW p \in Plans, NEW saved \in BOOLEAN,
         Register(k, p, saved) \/ Upgrade(k, p, saved)
  PROVE  \A j \in Keys : Restrained(j)'
<1> USE DEF OInv, IInv
<1>1. /\ UNCHANGED <<call, queue>>
      /\ \A j \in Keys \ {k} : /\ info'[j] = info[j] /\ row'[j] = row[j]
                               /\ cap'[j] = cap[j] /\ muddled'[j] = muddled[j]
  BY DEF TypeOK, Register, Upgrade, Save
<1>2. \A j \in Keys : Elsewhere(j)' = Elsewhere(j) /\ Room(j)' = Room(j)
  BY <1>1, SameElsewhere DEF Room
<1>3. Room(k) \in Nat /\ Limit \in Nat /\ Limit' = Limit
  BY RoomBounds DEF Elsewhere, Room, Limit
<1>4. p.budget \in Nat /\ cap[k] \in Nat /\ cap'[k] \in Nat
  <2>1. p.budget \in Nat /\ cap[k] \in Nat
    BY QuotaAssumption DEF TypeOK
  <2>2. cap'[k] = p.budget \/ cap'[k] = cap[k]
    BY DEF TypeOK, Register, Upgrade
  <2> QED BY <2>1, <2>2
<1>5. CASE Register(k, p, saved)
  <2>1. /\ info'[k] = [plan |-> p, spend |-> 0, window |-> 0]
        /\ muddled'[k] = (~saved \/ queue[k] # <<>>)
        /\ saved => row'[k] = [plan |-> p, spend |-> 0]
    BY <1>5 DEF TypeOK, Register, Save, PassesQueue
  <2>2. info'[k].spend <= cap'[k] + Room(k)
    BY <1>3, <1>4, <2>1
  <2>3. ASSUME ~muddled'[k]
        PROVE  Within(row'[k], queue'[k], cap'[k] + Limit)
    <3>1. saved /\ queue[k] = <<>>
      BY <2>1, <2>3
    <3>2. row'[k].spend = 0 /\ queue'[k] = <<>>
      BY <1>1, <2>1, <3>1
    <3> QED BY <1>3, <1>4, <3>2 DEF Within
  <2>4. Restrained(k)'
    BY <1>2, <1>3, <2>2, <2>3 DEF Restrained
  <2> QED BY <1>1, <1>2, <2>4, StaysRestrained
<1>6. CASE Upgrade(k, p, saved)
  <2>1. Registered(k) /\ info[k].spend \in Int /\ info[k] \in Account
    BY <1>6, HasAccount DEF Upgrade
  <2>2. /\ info'[k] = [info[k] EXCEPT !.plan = p]
        /\ cap'[k] = IF p.budget > cap[k] THEN p.budget ELSE cap[k]
        /\ muddled'[k] = (muddled[k] \/ ~saved \/ queue[k] # <<>>)
        /\ saved => row'[k] = [plan |-> p, spend |-> info[k].spend]
    BY <1>6 DEF TypeOK, Upgrade, Save, PassesQueue
  <2>3. info'[k].spend = info[k].spend /\ cap[k] <= cap'[k]
    BY <1>4, <2>1, <2>2 DEF Account
  <2>4. Room(k) <= Limit
    BY RoomBounds DEF Elsewhere, Room
  <2>5. ASSUME k # Admin, ~muddled'[k]
        PROVE  /\ info'[k].spend <= cap'[k] + Room(k)
               /\ Within(row'[k], queue'[k], cap'[k] + Limit)
    <3>1. /\ ~muddled[k] /\ queue'[k] = <<>>
          /\ row'[k] = [plan |-> p, spend |-> info[k].spend]
      BY <1>1, <2>2, <2>5
    <3>2. info[k].spend <= cap[k] + Room(k)
      BY <2>1, <2>5, <3>1 DEF Restrained
    <3>3. info[k].spend <= cap'[k] + Room(k) /\ info[k].spend <= cap'[k] + Limit
      BY <1>3, <1>4, <2>1, <2>3, <2>4, <3>2
    <3> QED BY <2>3, <3>1, <3>3 DEF Within
  <2>6. Restrained(k)'
    BY <1>2, <1>3, <2>5 DEF Restrained
  <2> QED BY <1>1, <1>2, <2>6, StaysRestrained
<1> QED BY <1>5, <1>6

\* A call is let in below the budget, with room for what every other can cost.
LEMMA AdmitRestrained ==
  ASSUME OInv, NEW s \in Slots, NEW k \in Keys, NEW a \in Reserves, Admit(s, k, a)
  PROVE  \A j \in Keys : Restrained(j)'
<1> USE DEF OInv, IInv
<1> a \in Nat
  BY QuotaAssumption
<1>1. /\ Registered(k) /\ info[k] \in Account /\ info[k].spend \in Int
      /\ info[k].plan.budget \in Nat /\ Counted(k) \in Account /\ k # Admin
  BY HasAccount DEF Admit
<1>2. Counted(k).plan = info[k].plan /\ Counted(k).spend = info[k].spend
  BY <1>1 DEF Counted, Account
<1>3. /\ row' = row /\ cap' = cap /\ muddled' = muddled
      /\ info'[k].spend = info[k].spend + a
      /\ \A j \in Keys \ {k} : info'[j] = info[j] /\ queue'[j] = queue[j]
      /\ \A b : Within(row[k], queue[k], b) /\ info[k].spend + a <= b
                  => Within(row[k], queue'[k], b)
  <2>1. Book(k, Counted(k), a) /\ UNCHANGED <<row, cap, muddled>>
    BY DEF Admit
  <2> QED BY <1>1, <1>2, <2>1, BookKeeps
<1>4. call[s] = NoKey /\ call' = [call EXCEPT ![s] = [key |-> k, reserved |-> a]]
  BY DEF Admit, Begin
<1>5. ASSUME NEW j \in Keys \ {k} PROVE Restrained(j)'
  <2>1. Elsewhere(j)' = Elsewhere(j)
    BY <1>4 DEF TypeOK, Elsewhere
  <2> QED BY <1>3, <2>1, StaysRestrained
<1>6. Room(k)' \in Nat /\ Limit \in Nat /\ Limit' = Limit
  <2>1. \A S \in SUBSET Slots : Cardinality(S) * MaxCost \in Nat /\ Limit \in Nat
    BY RoomBounds
  <2>2. Elsewhere(k)' \in SUBSET Slots
    BY DEF Elsewhere
  <2>3. Room(k)' = Cardinality(Elsewhere(k)') * MaxCost
    BY DEF Room
  <2> QED BY <2>1, <2>2, <2>3 DEF Limit
<1>7. Restrained(k)'
  <2> SUFFICES ASSUME ~muddled[k]
               PROVE  /\ info'[k].spend <= cap[k] + Room(k)'
                      /\ Within(row[k], queue'[k], cap[k] + Limit)
    BY <1>3, <1>6 DEF Restrained
  <2>1. info[k].plan.budget <= cap[k] /\ cap[k] \in Nat
    BY <1>1 DEF KeptIn, TypeOK
  <2>2. info[k].spend + a <= cap[k]
    BY <1>1, <2>1 DEF Admit, InBudget
  <2>3. info[k].spend + a <= cap[k] + Room(k)' /\ info[k].spend + a <= cap[k] + Limit
    BY <1>1, <1>6, <2>1, <2>2
  <2>4. Within(row[k], queue[k], cap[k] + Limit)
    BY <1>1 DEF Restrained
  <2> QED BY <1>3, <2>3, <2>4
<1> QED BY <1>5, <1>7

\* A charge is at most the room its call held.
LEMMA ChargeRestrained ==
  ASSUME OInv, NEW s \in Slots, NEW cost \in 0..MaxCost, Charge(s, cost)
  PROVE  \A j \in Keys : Restrained(j)'
<1> USE DEF OInv, IInv
<1>0. PICK k \in Keys, amount \in Int : k = call[s].key /\ amount = cost - call[s].reserved
  BY QuotaAssumption DEF TypeOK, Charge, Call
<1>1. call[s] # NoKey /\ call[s].key = k /\ amount <= MaxCost /\ MaxCost \in Nat
  BY <1>0, QuotaAssumption DEF TypeOK, Charge, Call
<1>2. /\ call' = [call EXCEPT ![s] = NoKey]
      /\ UNCHANGED <<row, cap, under, muddled>>
  BY DEF Charge
<1>3. Room(k)' = Room(k) + MaxCost
  BY <1>1, <1>2, RoomGrows
<1>4. \A j \in Keys \ {k} : Elsewhere(j)' = Elsewhere(j)
  <2>1. call'[s] = NoKey /\ \A t \in Slots \ {s} : call'[t] = call[t]
    BY <1>2 DEF TypeOK
  <2> QED BY <1>1, <2>1 DEF Elsewhere
<1>5. Room(k) \in Nat /\ Limit \in Nat /\ Limit' = Limit
  BY RoomBounds DEF Elsewhere, Room, Limit
<1>6. Room(k)' <= Limit
  <2>1. Elsewhere(k)' \in SUBSET Slots /\ Room(k)' = Cardinality(Elsewhere(k)') * MaxCost
    BY DEF Elsewhere, Room
  <2> QED BY <2>1, RoomBounds
<1>7. CASE ~Registered(k)
  <2>1. UNCHANGED <<info, queue>>
    BY <1>1, <1>7 DEF Charge
  <2>2. Restrained(k)'
    BY <1>7, <2>1 DEF Restrained, Registered
  <2> QED BY <1>2, <1>4, <2>1, <2>2, StaysRestrained
<1>8. CASE Registered(k)
  <2>1. info[k] \in Account /\ info[k].spend \in Int /\ cap[k] \in Nat
    BY <1>1, <1>8, HasAccount DEF TypeOK
  <2>2. Book(k, info[k], amount)
    BY <1>0, <1>8 DEF Charge
  <2>3. /\ info'[k].spend = info[k].spend + amount
        /\ \A j \in Keys \ {k} : info'[j] = info[j] /\ queue'[j] = queue[j]
        /\ \A b : Within(row[k], queue[k], b) /\ info[k].spend + amount <= b
                    => Within(row[k], queue'[k], b)
    BY <1>1, <1>2, <1>8, <2>1, <2>2, BookKeeps
  <2>4. Restrained(k)'
    <3> SUFFICES ASSUME k # Admin, ~muddled[k]
                 PROVE  /\ info'[k].spend <= cap[k] + Room(k)'
                        /\ Within(row[k], queue'[k], cap[k] + Limit)
      BY <1>2, <1>5 DEF Restrained
    <3>1. /\ info[k].spend <= cap[k] + Room(k)
          /\ Within(row[k], queue[k], cap[k] + Limit)
      BY <1>1, <1>8 DEF Restrained
    <3>2. info[k].spend + amount <= cap[k] + Room(k)'
      BY <1>1, <1>3, <1>5, <2>1, <3>1
    <3>3. info[k].spend + amount <= cap[k] + Limit
      BY <1>1, <1>3, <1>5, <1>6, <2>1, <3>2
    <3> QED BY <2>3, <3>1, <3>2, <3>3
  <2>5. \A j \in Keys \ {k} : Restrained(j)'
    BY <1>2, <1>4, <2>3, StaysRestrained
  <2> QED BY <2>4, <2>5
<1> QED BY <1>7, <1>8

\* What a commit, a lost increment, a window or a restart does to the bound.
LEMMA OthersRestrained ==
  ASSUME OInv,
         \/ \E k \in Keys : Slide(k) \/ Commit(k) \/ Lose(k) \/ \E a \in Reserves : Refuse(k, a)
         \/ \E s \in Slots, k \in Keys : Bypass(s, k)
         \/ \E loaded \in BOOLEAN : Restart(loaded)
  PROVE  \A j \in Keys : Restrained(j)'
<1> USE DEF OInv, IInv
<1>1. ASSUME NEW k \in Keys, Slide(k) \/ \E a \in Reserves : Refuse(k, a)
      PROVE  \A j \in Keys : Restrained(j)'
  <2>1. /\ UNCHANGED <<row, queue, call, cap, muddled>> /\ Registered(k)
        /\ \E n : info' = [info EXCEPT ![k] = [info[k] EXCEPT !.window = n]]
    BY <1>1 DEF Slide, Refuse, Counted
  <2>2. info[k] \in Account
    BY <2>1, HasAccount
  <2>3. /\ info'[k].spend = info[k].spend
        /\ \A j \in Keys \ {k} : info'[j] = info[j]
    BY <2>1, <2>2 DEF TypeOK, Account
  <2>4. \A j \in Keys : Elsewhere(j)' = Elsewhere(j)
    BY <2>1, SameElsewhere
  <2>5. Restrained(k)'
    BY <2>1, <2>3, <2>4 DEF Restrained, Room, Limit
  <2> QED BY <2>1, <2>3, <2>4, <2>5, StaysRestrained
<1>2. ASSUME NEW k \in Keys, Commit(k)
      PROVE  \A j \in Keys : Restrained(j)'
  <2>1. /\ queue[k] # <<>> /\ queue[k] \in Seq(Increment) /\ queue'[k] = Tail(queue[k])
        /\ UNCHANGED <<info, call, cap, muddled>>
        /\ \A j \in Keys \ {k} : queue'[j] = queue[j] /\ row'[j] = row[j]
    BY <1>2 DEF TypeOK, Commit
  <2>2. \A j \in Keys : Elsewhere(j)' = Elsewhere(j)
    BY <2>1, SameElsewhere
  <2>3. ASSUME Registered(k), ~muddled[k], Within(row[k], queue[k], cap[k] + Limit)
        PROVE  Within(row'[k], queue'[k], cap[k] + Limit)
    <3>1. Agrees(info[k], row[k], queue[k]) /\ row[k] \in Row /\ row[k] # NoKey
      BY <2>3 DEF LineUp, Agrees, TypeOK
    <3>2. row'[k] = [row[k] EXCEPT !.spend = row[k].spend + Head(queue[k]).amount]
      BY <1>2, <3>1 DEF TypeOK, Commit
    <3>3. Head(queue[k]) = queue[k][1]
      BY <2>1
    <3>4. row'[k].spend = queue[k][1].after
      BY <2>1, <3>1, <3>2, <3>3 DEF Row, Agrees
    <3> QED BY <2>1, <2>3, <3>4, WithinTail
  <2>4. Restrained(k)'
    BY <2>1, <2>2, <2>3 DEF Restrained, Registered, Room, Limit
  <2> QED BY <2>1, <2>2, <2>4, StaysRestrained
<1>3. ASSUME NEW k \in Keys, Lose(k)
      PROVE  \A j \in Keys : Restrained(j)'
  <2>1. /\ muddled'[k] /\ UNCHANGED <<info, row, call, cap>>
        /\ \A j \in Keys \ {k} : queue'[j] = queue[j] /\ muddled'[j] = muddled[j]
    BY <1>3 DEF TypeOK, Lose
  <2>2. Restrained(k)'
    BY <2>1 DEF Restrained
  <2> QED BY <2>1, <2>2, SameElsewhere, StaysRestrained
<1>4. ASSUME NEW s \in Slots, NEW k \in Keys, Bypass(s, k)
      PROVE  \A j \in Keys : Restrained(j)'
  <2>1. /\ UNCHANGED <<info, row, queue, cap, muddled>> /\ (k = Admin \/ ~Registered(k))
        /\ call[s] = NoKey /\ call' = [call EXCEPT ![s] = [key |-> k, reserved |-> 0]]
    BY <1>4 DEF Bypass, Begin
  <2>2. \A j \in Keys \ {k} : Elsewhere(j)' = Elsewhere(j)
    BY <2>1 DEF TypeOK, Elsewhere
  <2>3. Restrained(k)'
    BY <2>1 DEF Restrained, Registered
  <2> QED BY <2>1, <2>2, <2>3, StaysRestrained
<1>5. ASSUME NEW loaded \in BOOLEAN, Restart(loaded), NEW j \in Keys
      PROVE  Restrained(j)'
  <2>1. /\ queue'[j] = <<>> /\ UNCHANGED cap /\ (muddled[j] => muddled'[j])
        /\ ~muddled'[j] =>
             info'[j] = IF row'[j] = NoKey THEN NoKey
                        ELSE [plan |-> row'[j].plan, spend |-> row'[j].spend, window |-> 0]
        /\ j # Admin => row'[j] = row[j]
        /\ call' = [s \in Slots |-> NoKey]
    BY <1>5, LoadsOrMuddles DEF TypeOK, Restart
  <2>2. Room(j)' = Limit /\ Limit' = Limit
    BY <2>1 DEF Room, Elsewhere, Limit
  <2>3. ASSUME j # Admin, Registered(j)', ~muddled'[j]
        PROVE  info'[j].spend <= cap[j] + Limit /\ Within(row'[j], queue'[j], cap[j] + Limit)
    <3>1. row[j] # NoKey /\ row'[j] = row[j]
      BY <2>1, <2>3 DEF Registered
    <3>2. Registered(j)
      BY <2>1, <2>3, <3>1 DEF LineUp
    <3>3. info'[j].spend = row[j].spend
      BY <2>1, <2>3, <3>1
    <3>4. Within(row[j], queue[j], cap[j] + Limit)
      BY <2>1, <2>3, <3>2 DEF Restrained
    <3>5. queue'[j] = <<>>
      BY <2>1
    <3> QED BY <3>1, <3>3, <3>4, <3>5 DEF Within
  <2> QED BY <2>1, <2>2, <2>3 DEF Restrained
<1> QED BY <1>1, <1>2, <1>3, <1>4, <1>5

\* Every step keeps the bound.
LEMMA OStep == OInv /\ [Next]_vars => OInv'
<1> SUFFICES ASSUME OInv, [Next]_vars PROVE OInv'
  OBVIOUS
<1>1. ASSUME NEW k \in Keys, NEW p \in Plans, NEW saved \in BOOLEAN,
             Register(k, p, saved) \/ Upgrade(k, p, saved)
      PROVE  \A j \in Keys : Restrained(j)'
  BY <1>1, PlanRestrained
<1>2. ASSUME NEW s \in Slots, NEW k \in Keys, NEW a \in Reserves, Admit(s, k, a)
      PROVE  \A j \in Keys : Restrained(j)'
  BY <1>2, AdmitRestrained
<1>3. ASSUME NEW s \in Slots, NEW cost \in 0..MaxCost, Charge(s, cost)
      PROVE  \A j \in Keys : Restrained(j)'
  BY <1>3, ChargeRestrained
<1>4. ASSUME UNCHANGED vars
      PROVE  \A j \in Keys : Restrained(j)'
  BY <1>4, SameElsewhere, StaysRestrained DEF OInv, vars
<1>5. \A j \in Keys : Restrained(j)'
  <2>1. CASE UNCHANGED vars
    BY <1>4, <2>1
  <2>2. CASE Next
    BY <1>1, <1>2, <1>3, <2>2, OthersRestrained DEF Next
  <2> QED BY <2>1, <2>2
<1> QED BY <1>5, InvStep DEF OInv

\* However little is reserved, a key passes its budget by no more than what all
\* slots together can cost.
THEOREM OvershootIsBounded == Spec => []OvershootBounded
<1>1. Init => OInv
  BY InvInit DEF OInv, Init, Restrained, Registered
<1>2. OInv => OvershootBounded
  <2> SUFFICES ASSUME OInv, NEW k \in Keys, Tenant(k), ~muddled[k]
               PROVE  info[k].spend <= cap[k] + Cardinality(Slots) * MaxCost
    BY DEF OvershootBounded
  <2>1. info[k].spend <= cap[k] + Room(k)
    BY DEF OInv, Restrained, Tenant
  <2>2. Room(k) \in Nat /\ Limit \in Nat /\ Room(k) <= Limit
    BY RoomBounds DEF Elsewhere, Room
  <2>3. info[k].spend \in Int /\ cap[k] \in Nat
    BY HasAccount DEF OInv, IInv, TypeOK, Tenant
  <2> QED BY <2>1, <2>2, <2>3 DEF Limit
<1> QED BY <1>1, <1>2, OStep, PTL DEF Spec
=============================================================================
