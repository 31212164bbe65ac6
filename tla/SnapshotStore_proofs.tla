------------------------ MODULE SnapshotStore_proofs ------------------------
(***************************************************************************)
(* Proofs about SnapshotStore, for any clients, keys, operations and       *)
(* sizes: types, closing drains the queue, rows never go back, deletes are *)
(* final, spend is counted once, and the store implements WriteBehind.     *)
(***************************************************************************)
EXTENDS SnapshotStore, FiniteSetTheorems, TLAPS

Thing == [op : {"insert_cache", "spend_key", "delete", "read", "stop"},
          keys : SUBSET Key, id : Nat, covers : SUBSET Nat]

Shapes ==
  /\ queue \in Seq(Thing) /\ batch \in Seq(Thing)
  /\ job \in [Client -> Thing] /\ DOMAIN pc = Client
  /\ clock \in Nat /\ running \in BOOLEAN /\ rows \in [Key -> Nat]

\* What a client in a call is busy with.
JobOK(label, it) ==
  /\ label = "write" => it.keys \subseteq overtaken
  /\ label = "put" => it.op # "insert_cache"
  /\ label \in {"flush", "settle", "ready"} => it.op \in {"delete", "read"}
  /\ label = "put" /\ it = Stop => ~running
  /\ label = "closed" => worker = "exited"
Jobs == \A c \in Client : JobOK(pc[c], job[c])

\* Where the worker is when the store closes, and what it may leave.
Closing ==
  /\ \A i \in 1..Len(queue) : queue[i] = Stop => ~running
  /\ worker \in {"get", "drain", "exited"} => batch = <<>>
  /\ worker \in {"drain", "exited"} => ~running
  /\ worker = "exited" => \A i \in 1..Len(queue) : queue[i].id \in late \union {0}

\* Of two writes in a line the later has the larger id.
IsWrite(it) == it.op = "insert_cache"
InLine(s) ==
  \A i, j \in 1..Len(s) : i < j /\ IsWrite(s[i]) /\ IsWrite(s[j]) => s[i].id < s[j].id
\* The writes of a line are no later than the clock and newer than the rows.
Ahead(s) ==
  \A i \in 1..Len(s) : IsWrite(s[i]) =>
    /\ 0 < s[i].id /\ s[i].id <= clock
    /\ \A k \in s[i].keys \ overtaken : rows[k] < s[i].id
Before(s, t) ==
  \A i \in 1..Len(s), j \in 1..Len(t) : IsWrite(s[i]) /\ IsWrite(t[j]) => s[i].id < t[j].id
Behind == \A k \in Key \ overtaken : rows[k] <= clock
Ordered ==
  /\ InLine(queue) /\ InLine(batch) /\ Before(batch, queue)
  /\ Ahead(queue) /\ Ahead(batch) /\ Behind

IInv == Shapes /\ Jobs /\ Closing /\ Ordered

----------------------------------------------------------------------------
(* Sequences and items *)

\* What is appended comes last.
LEMMA Appended ==
  ASSUME NEW S, NEW s \in Seq(S), NEW x \in S
  PROVE  /\ Append(s, x) \in Seq(S) /\ Len(Append(s, x)) = Len(s) + 1
         /\ \A i \in 1..Len(s) : Append(s, x)[i] = s[i]
         /\ Append(s, x)[Len(s) + 1] = x
  OBVIOUS

\* A tail is one shorter.
LEMMA Tailed ==
  ASSUME NEW S, NEW s \in Seq(S), s # <<>>
  PROVE  /\ Head(s) \in S /\ Tail(s) \in Seq(S) /\ Len(s) >= 1 /\ Len(s) \in Nat
         /\ Head(s) = s[1] /\ Len(Tail(s)) = Len(s) - 1
         /\ \A i \in 1..Len(Tail(s)) : Tail(s)[i] = s[i + 1] /\ i + 1 \in 1..Len(s)
  OBVIOUS

\* The items the store makes.
LEMMA Items ==
  ASSUME NEW n \in Nat, NEW k \in Key
  PROVE  /\ Write(n, k) \in Thing /\ Write(n, k).op = "insert_cache"
         /\ Write(n, k).id = n /\ Write(n, k).keys = {k}
  BY DEF Write, Thing
LEMMA OtherItems ==
  ASSUME NEW n \in Nat, clock \in Nat
  PROVE  /\ Spend(n) \in Thing /\ Spend(n).op = "spend_key"
         /\ Read(n) \in Thing /\ Read(n).op = "read"
         /\ Stop \in Thing /\ Stop.op = "stop" /\ Stop.id = 0
         /\ \A scope \in SUBSET Key : Delete(n, scope) \in Thing /\ Delete(n, scope).op = "delete"
<1>1. (1..clock) \ Writing \in SUBSET Nat
  OBVIOUS
<1>2. \A scope \in SUBSET Key : Delete(n, scope) \in Thing /\ Delete(n, scope).op = "delete"
  BY <1>1 DEF Delete, Thing
<1> QED  BY <1>2 DEF Spend, Read, Stop, Thing

\* A set of positions that is not empty has a last one.
LEMMA LastPosition ==
  ASSUME NEW n \in Nat, NEW P, P \subseteq 1..n, P # {}
  PROVE  \E i \in P : \A j \in P : j <= i
<1> DEFINE D == {d \in Nat : n - d \in P}
<1>1. \A i \in P : n - i \in D
  OBVIOUS
<1>2. PICK d \in D : \A e \in D : ~(<<e, d>> \in OpToRel(<, Nat))
  BY <1>1, NatLessThanWellFounded, WFMin
<1>3. \A e \in D : ~(e < d)
  BY <1>1, <1>2 DEF OpToRel
<1>4. PICK i \in P : d = n - i
  OBVIOUS
<1>5. ASSUME NEW j \in P PROVE j <= i
  <2>1. n - j \in D
    OBVIOUS
  <2> QED  BY <1>3, <1>4, <2>1
<1> QED  BY <1>5

----------------------------------------------------------------------------
(* Transactions *)

\* The last write of a list to a key is one of them.
LEMMA LastWriteIsOne ==
  ASSUME NEW items \in Seq(Thing), NEW k, k \in Touched(items, "insert_cache")
  PROVE  \E i \in 1..Len(items) :
           /\ IsWrite(items[i]) /\ k \in items[i].keys
           /\ LastWrite(items, k) = items[i].id
<1> DEFINE P == {i \in DOMAIN items : items[i].op = "insert_cache" /\ k \in items[i].keys}
<1>1. P # {} /\ P \subseteq 1..Len(items)
  BY DEF Touched, OfOp
<1>2. \E i \in P : \A j \in P : j <= i
  <2>1. Len(items) \in Nat
    OBVIOUS
  <2> HIDE DEF P
  <2> QED  BY <1>1, <2>1, LastPosition
<1>3. PICK i \in P : i = CHOOSE x \in P : \A j \in P : j <= x
  BY <1>2
<1>4. LastWrite(items, k) = items[i].id
  BY <1>3 DEF LastWrite
<1> QED  BY <1>1, <1>4 DEF IsWrite

\* What a transaction leaves in a row: what it held, nothing, or a write of the
\* transaction.
LEMMA BatchRows ==
  ASSUME Shapes, NEW items \in Seq(Thing), ProcessBatch(items)
  PROVE  /\ rows' \in [Key -> Nat]
         /\ \A k \in Key :
              \/ rows'[k] = rows[k] \/ rows'[k] = 0
              \/ \E i \in 1..Len(items) : /\ IsWrite(items[i]) /\ k \in items[i].keys
                                           /\ rows'[k] = items[i].id
<1>1. CASE rows' = rows
  BY <1>1 DEF Shapes
<1>2. CASE rows' = RowsAfter(items)
  <2>1. ASSUME NEW k \in Key
        PROVE  \/ rows'[k] = rows[k] \/ rows'[k] = 0
               \/ \E i \in 1..Len(items) : /\ IsWrite(items[i]) /\ k \in items[i].keys
                                            /\ rows'[k] = items[i].id
    BY <1>2, LastWriteIsOne DEF RowsAfter
  <2>2. \A i \in 1..Len(items) : items[i].id \in Nat
    <3>1. \A i \in 1..Len(items) : items[i] \in Thing
      OBVIOUS
    <3> QED  BY <3>1 DEF Thing
  <2>3. \A k \in Key : rows'[k] \in Nat
    BY <2>1, <2>2 DEF Shapes
  <2> QED  BY <1>2, <2>1, <2>3 DEF RowsAfter
<1> QED  BY <1>1, <1>2 DEF ProcessBatch

\* Nothing is pending and nobody is in a call.
LEMMA InitIInv == Init => IInv
<1> SUFFICES ASSUME Init PROVE IInv
  OBVIOUS
<1>1. Stop \in Thing
  BY DEF Stop, Thing
<1>2. Shapes
  BY <1>1 DEF Init, Shapes
<1>3. Jobs /\ Closing /\ Ordered
  BY DEF Init, Jobs, JobOK, Closing, Ordered, InLine, Before, Ahead, Behind
<1> QED  BY <1>2, <1>3 DEF IInv

\* A transaction leaves a line ahead of the rows if it is behind that line.
LEMMA StaysAhead ==
  ASSUME Shapes, NEW items \in Seq(Thing), ProcessBatch(items), NEW t, Ahead(t),
         Before(items, t) \/ \A i \in 1..Len(items) : items[i].keys \subseteq overtaken
                                                    \/ ~IsWrite(items[i]),
         overtaken \subseteq overtaken', clock' = clock
  PROVE  /\ \A i \in 1..Len(t) : IsWrite(t[i]) =>
              0 < t[i].id /\ t[i].id <= clock'
         /\ \A i \in 1..Len(t) : IsWrite(t[i]) =>
              \A k \in (t[i].keys \intersect Key) \ overtaken' : rows'[k] < t[i].id
<1>1. \A i \in 1..Len(t) : IsWrite(t[i]) => 0 < t[i].id /\ t[i].id <= clock'
  BY DEF Ahead
<1>2. ASSUME NEW i \in 1..Len(t), IsWrite(t[i]), NEW k \in (t[i].keys \intersect Key) \ overtaken'
      PROVE  rows'[k] < t[i].id
  <2>1. rows[k] < t[i].id /\ 0 < t[i].id
    BY <1>2 DEF Ahead
  <2>2. \/ rows'[k] = rows[k] \/ rows'[k] = 0
        \/ \E j \in 1..Len(items) : /\ IsWrite(items[j]) /\ k \in items[j].keys
                                     /\ rows'[k] = items[j].id
    BY BatchRows
  <2>3. ASSUME NEW j \in 1..Len(items), IsWrite(items[j]), k \in items[j].keys,
               rows'[k] = items[j].id
        PROVE  rows'[k] < t[i].id
    BY <1>2, <2>3 DEF Before
  <2> QED  BY <2>1, <2>2, <2>3
<1> QED  BY <1>1, <1>2

\* And no row goes back but to nothing, or past the clock.
LEMMA NoWayBack ==
  ASSUME Shapes, Behind, NEW items \in Seq(Thing), ProcessBatch(items),
         Ahead(items) \/ \A i \in 1..Len(items) : items[i].keys \subseteq overtaken
                                                \/ ~IsWrite(items[i])
  PROVE  \A k \in Key \ overtaken : rows'[k] <= clock /\ (rows'[k] # 0 => rows'[k] >= rows[k])
<1>1. ASSUME NEW k \in Key \ overtaken, NEW j \in 1..Len(items), IsWrite(items[j]),
             k \in items[j].keys, rows'[k] = items[j].id
      PROVE  rows'[k] >= rows[k] /\ rows'[k] <= clock
  <2>1. items[j] \in Thing /\ rows[k] \in Nat
    BY DEF Shapes
  <2>2. rows[k] < items[j].id /\ items[j].id <= clock
    BY <1>1 DEF Ahead
  <2> QED  BY <1>1, <2>1, <2>2 DEF Thing
<1>2. clock \in Nat /\ \A k \in Key : rows[k] \in Nat
  BY DEF Shapes
<1> QED  BY <1>1, <1>2, BatchRows DEF Behind

----------------------------------------------------------------------------
(* Steps of clients *)

\* One client goes somewhere else.
LEMMA OneClient ==
  ASSUME Shapes, Jobs, NEW c \in Client, NEW label, NEW it \in Thing,
         pc' = [pc EXCEPT ![c] = label], job' = [job EXCEPT ![c] = it],
         overtaken \subseteq overtaken', running' => running, worker' = worker,
         JobOK(label, it)'
  PROVE  Jobs' /\ DOMAIN pc' = Client /\ job' \in [Client -> Thing]
<1>1. DOMAIN pc' = Client /\ job' \in [Client -> Thing]
  BY DEF Shapes
<1>2. ASSUME NEW d \in Client PROVE JobOK(pc[d], job[d])'
  <2>1. CASE d = c
    BY <2>1 DEF Shapes
  <2>2. CASE d # c
    <3>1. pc'[d] = pc[d] /\ job'[d] = job[d]
      BY <2>2 DEF Shapes
    <3> QED  BY <3>1 DEF Jobs, JobOK
  <2> QED  BY <2>1, <2>2
<1> QED  BY <1>1, <1>2 DEF Jobs

\* Queue and batch stay, and the rows do.
LEMMA OrderFrame ==
  ASSUME Ordered, UNCHANGED <<queue, batch, rows>>, overtaken \subseteq overtaken',
         clock \in Nat, clock' \in Nat, clock' >= clock, Shapes
  PROVE  Ordered'
<1>1. ASSUME NEW s \in Seq(Thing), Ahead(s) PROVE
        \A i \in 1..Len(s) : IsWrite(s[i]) =>
           /\ 0 < s[i].id /\ s[i].id <= clock'
           /\ \A k \in s[i].keys \ overtaken' : rows[k] < s[i].id
  <2>1. \A i \in 1..Len(s) : s[i].id \in Nat
    <3>1. \A i \in 1..Len(s) : s[i] \in Thing
      OBVIOUS
    <3> QED  BY <3>1 DEF Thing
  <2> QED  BY <1>1, <2>1 DEF Ahead
<1>2. Ahead(queue)' /\ Ahead(batch)'
  BY <1>1 DEF Ordered, Shapes, Ahead
<1>3. InLine(queue)' /\ InLine(batch)' /\ Before(batch, queue)'
  BY DEF Ordered, InLine, Before
<1>4. Behind'
  BY DEF Ordered, Behind, Shapes
<1> QED  BY <1>2, <1>3, <1>4 DEF Ordered

\* A client goes on and nothing else changes but the clock.
LEMMA ClientFrame ==
  ASSUME IInv, NEW c \in Client, NEW label, NEW it \in Thing,
         pc' = [pc EXCEPT ![c] = label], job' = [job EXCEPT ![c] = it],
         UNCHANGED <<queue, batch, worker, rows>>, running' \in BOOLEAN, running' => running,
         late \subseteq late', overtaken \subseteq overtaken',
         clock' = clock \/ clock' = clock + 1, JobOK(label, it)'
  PROVE  IInv'
<1>1. Jobs' /\ DOMAIN pc' = Client /\ job' \in [Client -> Thing]
  BY OneClient DEF IInv
<1>2. clock \in Nat /\ clock' \in Nat /\ clock' >= clock
  BY DEF IInv, Shapes
<1>3. Shapes'
  BY <1>1, <1>2 DEF IInv, Shapes
<1>4. Closing'
  BY DEF IInv, Closing
<1>5. Ordered'
  BY <1>2, OrderFrame DEF IInv
<1> QED  BY <1>1, <1>3, <1>4, <1>5 DEF IInv

\* The same where the client keeps its item.
LEMMA GotoFrame ==
  ASSUME IInv, NEW c \in Client, NEW label, Goto(c, label), UNCHANGED <<queue, batch, worker, rows>>,
         UNCHANGED <<job, running, late, overtaken, clock>>, JobOK(label, job[c])'
  PROVE  IInv'
<1>1. job[c] \in Thing /\ job' = [job EXCEPT ![c] = job[c]]
  BY DEF IInv, Shapes
<1>2. running' \in BOOLEAN /\ pc' = [pc EXCEPT ![c] = label]
  BY DEF Goto, IInv, Shapes
<1>3. PICK it \in Thing : it = job[c]
  BY <1>1
<1>4. JobOK(label, it)'
  BY <1>1, <1>3 DEF JobOK, IInv, Shapes
<1> QED  BY <1>1, <1>2, <1>3, <1>4, ClientFrame

\* A client goes on and puts an item into the queue: a write with a new id, or
\* no write.
LEMMA Queued ==
  ASSUME IInv, NEW it \in Thing, queue' = Append(queue, it), UNCHANGED <<batch, worker, running, rows>>,
         late' = IF running THEN late ELSE late \union {it.id}, overtaken' = overtaken,
         clock' = clock \/ clock' = clock + 1,
         IsWrite(it) => clock' = clock + 1 /\ it.id = clock + 1,
         it = Stop => ~running,
         Jobs', DOMAIN pc' = Client, job' \in [Client -> Thing]
  PROVE  IInv'
<1>1. queue \in Seq(Thing) /\ batch \in Seq(Thing) /\ clock \in Nat /\ rows \in [Key -> Nat]
  BY DEF IInv, Shapes
<1>2. /\ queue' \in Seq(Thing) /\ Len(queue') = Len(queue) + 1 /\ Len(queue) \in Nat
      /\ \A i \in 1..Len(queue) : queue'[i] = queue[i]
      /\ queue'[Len(queue) + 1] = it
  BY <1>1, Appended
<1>3. \A i \in 1..Len(queue') : i \in 1..Len(queue) \/ i = Len(queue) + 1
  BY <1>2
<1>4. Shapes'
  BY <1>1, <1>2 DEF IInv, Shapes
<1>5. Closing'
  <2>1. \A i \in 1..Len(queue') : queue'[i] = Stop => ~running
    BY <1>2, <1>3 DEF IInv, Closing
  <2>2. worker = "exited" => \A i \in 1..Len(queue') : queue'[i].id \in late' \union {0}
    BY <1>2, <1>3 DEF IInv, Closing
  <2> QED  BY <2>1, <2>2 DEF IInv, Closing
<1>6. ASSUME NEW s \in Seq(Thing), Ahead(s), NEW i \in 1..Len(s), IsWrite(s[i])
      PROVE  s[i].id \in Nat /\ 0 < s[i].id /\ s[i].id <= clock /\ s[i].id < clock + 1
  <2>1. s[i] \in Thing
    OBVIOUS
  <2>2. s[i].id \in Nat
    BY <2>1 DEF Thing
  <2> QED  BY <1>1, <1>6, <2>2 DEF Ahead
<1>7. InLine(queue')
  <2>1. ASSUME NEW i \in 1..Len(queue'), NEW j \in 1..Len(queue'), i < j,
               IsWrite(queue'[i]), IsWrite(queue'[j])
        PROVE  queue'[i].id < queue'[j].id
    <3>1. i \in 1..Len(queue)
      BY <1>2, <1>3, <2>1
    <3>2. CASE j \in 1..Len(queue)
      BY <1>2, <2>1, <3>1, <3>2 DEF IInv, Ordered, InLine
    <3>3. CASE j = Len(queue) + 1
      BY <1>1, <1>2, <1>6, <2>1, <3>1, <3>3 DEF IInv, Ordered
    <3> QED  BY <1>3, <3>2, <3>3
  <2> QED  BY <2>1 DEF InLine
<1>8. Before(batch, queue')
  <2>1. ASSUME NEW i \in 1..Len(batch), NEW j \in 1..Len(queue'),
               IsWrite(batch[i]), IsWrite(queue'[j])
        PROVE  batch[i].id < queue'[j].id
    <3>2. CASE j \in 1..Len(queue)
      BY <1>2, <2>1, <3>2 DEF IInv, Ordered, Before
    <3>3. CASE j = Len(queue) + 1
      BY <1>1, <1>2, <1>6, <2>1, <3>3 DEF IInv, Ordered
    <3> QED  BY <1>3, <3>2, <3>3
  <2> QED  BY <2>1 DEF Before
<1>9. Ahead(batch)'
  <2>1. ASSUME NEW i \in 1..Len(batch), IsWrite(batch[i])
        PROVE  /\ 0 < batch[i].id /\ batch[i].id <= clock'
               /\ \A k \in batch[i].keys \ overtaken' : rows'[k] < batch[i].id
    <3>1. 0 < batch[i].id /\ batch[i].id <= clock /\ batch[i].id \in Nat
      BY <1>1, <1>6, <2>1 DEF IInv, Ordered
    <3>2. \A k \in batch[i].keys \ overtaken : rows[k] < batch[i].id
      BY <2>1 DEF IInv, Ordered, Ahead
    <3> QED  BY <1>1, <3>1, <3>2
  <2> QED  BY <2>1 DEF Ahead
<1>10. Ahead(queue)'
  <2>1. ASSUME NEW i \in 1..Len(queue'), IsWrite(queue'[i])
        PROVE  /\ 0 < queue'[i].id /\ queue'[i].id <= clock'
               /\ \A k \in queue'[i].keys \ overtaken' : rows'[k] < queue'[i].id
    <3>2. CASE i \in 1..Len(queue)
      <4>1. queue'[i] = queue[i] /\ queue[i].id \in Nat /\ IsWrite(queue[i])
        BY <1>1, <1>2, <1>6, <2>1, <3>2 DEF IInv, Ordered
      <4>2. /\ 0 < queue[i].id /\ queue[i].id <= clock
            /\ \A k \in queue[i].keys \ overtaken : rows[k] < queue[i].id
        BY <3>2, <4>1 DEF IInv, Ordered, Ahead
      <4> QED  BY <1>1, <4>1, <4>2
    <3>3. CASE i = Len(queue) + 1
      <4>1. clock' = clock + 1 /\ queue'[i].id = clock + 1
        BY <1>2, <2>1, <3>3
      <4>2. \A k \in Key \ overtaken : rows[k] <= clock /\ rows[k] \in Nat
        BY <1>1 DEF IInv, Ordered, Behind
      <4>3. queue'[i].keys \subseteq Key
        BY <1>2, <3>3 DEF Thing
      <4> QED  BY <1>1, <4>1, <4>2, <4>3
    <3> QED  BY <1>3, <3>2, <3>3
  <2> QED  BY <2>1 DEF Ahead
<1>11. Behind'
  BY <1>1 DEF IInv, Ordered, Behind
<1>12. Ordered'
  BY <1>7, <1>8, <1>9, <1>10, <1>11 DEF IInv, Ordered, InLine, Before
<1> QED  BY <1>4, <1>5, <1>12 DEF IInv

\* Whose transaction goes past the queue: one that writes to no key, or only to
\* keys that have been overtaken.
Aside(items) ==
  \A i \in 1..Len(items) : items[i].keys \subseteq overtaken \/ ~IsWrite(items[i])

\* After a transaction a line that was ahead of the rows still is, if the
\* transaction was aside or before it.
LEMMA AheadAfter ==
  ASSUME Shapes, NEW items \in Seq(Thing), ProcessBatch(items),
         NEW s \in Seq(Thing), Ahead(s), Before(items, s) \/ Aside(items),
         UNCHANGED <<clock, overtaken>>
  PROVE  \A i \in 1..Len(s) : IsWrite(s[i]) =>
           /\ 0 < s[i].id /\ s[i].id <= clock'
           /\ \A k \in s[i].keys \ overtaken' : rows'[k] < s[i].id
<1>1. \A i \in 1..Len(s) : s[i].keys \subseteq Key
  <2>1. \A i \in 1..Len(s) : s[i] \in Thing
    OBVIOUS
  <2> QED  BY <2>1 DEF Thing
<1>2. /\ \A i \in 1..Len(s) : IsWrite(s[i]) => 0 < s[i].id /\ s[i].id <= clock'
      /\ \A i \in 1..Len(s) : IsWrite(s[i]) =>
           \A k \in (s[i].keys \intersect Key) \ overtaken' : rows'[k] < s[i].id
  BY StaysAhead DEF Aside
<1> QED  BY <1>1, <1>2

\* A transaction of one item that goes past the queue.
LEMMA DirectTx ==
  ASSUME IInv, NEW it \in Thing, ProcessBatch(<<it>>),
         it.keys \subseteq overtaken \/ ~IsWrite(it),
         UNCHANGED <<queue, batch, clock, overtaken>>
  PROVE  Ordered' /\ rows' \in [Key -> Nat]
<1>1. <<it>> \in Seq(Thing) /\ Aside(<<it>>)
  BY DEF Aside
<1>2. rows' \in [Key -> Nat]
  BY <1>1, BatchRows DEF IInv
<1>3. Behind'
  BY <1>1, NoWayBack DEF IInv, Ordered, Behind, Aside
<1>4. queue \in Seq(Thing) /\ batch \in Seq(Thing)
  BY DEF IInv, Shapes
<1>5. Ahead(queue)'
  BY <1>1, <1>4, AheadAfter DEF IInv, Ordered, Ahead
<1>6. Ahead(batch)'
  BY <1>1, <1>4, AheadAfter DEF IInv, Ordered, Ahead
<1> QED  BY <1>2, <1>3, <1>5, <1>6 DEF IInv, Ordered, InLine, Before

\* A client ends its call with such a transaction.
LEMMA ClientTx ==
  ASSUME IInv, NEW c \in Client, NEW it \in Thing, it = job[c], ProcessBatch(<<it>>), Done(c),
         it.keys \subseteq overtaken \/ ~IsWrite(it),
         UNCHANGED <<queue, batch, worker, running, clock, overtaken, late>>
  PROVE  IInv'
<1>1. Ordered' /\ rows' \in [Key -> Nat]
  BY DirectTx
<1>2. Stop \in Thing
  BY DEF Stop, Thing
<1>3. Jobs' /\ DOMAIN pc' = Client /\ job' \in [Client -> Thing]
  BY <1>2, OneClient DEF IInv, Done, Busy, Goto, JobOK
<1>4. Shapes'
  BY <1>1, <1>3 DEF IInv, Shapes
<1>5. Closing'
  BY DEF IInv, Closing
<1> QED  BY <1>1, <1>3, <1>4, <1>5 DEF IInv

\* A write goes to the queue, or past it.
LEMMA PersistStep ==
  ASSUME IInv, NEW c \in Client, NEW k \in Key, Persist(c, k) PROVE IInv'
<1>1. clock \in Nat /\ clock + 1 \in Nat
  BY DEF IInv, Shapes
<1>2. PICK it \in Thing : /\ it = Write(clock + 1, k) /\ it.op = "insert_cache"
                          /\ it.id = clock + 1 /\ it.keys = {k}
  BY <1>1, Items
<1>3. it # Stop
  BY <1>2 DEF Stop
<1>4. CASE Accept(it) /\ Begin(c, "persist") /\ UNCHANGED <<pc, job, overtaken>>
  <2>1. Jobs' /\ DOMAIN pc' = Client /\ job' \in [Client -> Thing]
    BY <1>4 DEF Persist, IInv, Jobs, JobOK, Shapes
  <2> QED  BY <1>2, <1>3, <1>4, <2>1, Queued DEF Persist, storeVars, Accept, Begin
<1>5. CASE clock' = clock + 1 /\ Busy(c, "write", it) /\ overtaken' = overtaken \union {k}
           /\ UNCHANGED <<queue, late>>
  <2>1. JobOK("write", it)'
    BY <1>2, <1>5 DEF JobOK
  <2>2. UNCHANGED <<batch, worker, running, rows>> /\ running \in BOOLEAN
    BY DEF Persist, storeVars, IInv, Shapes
  <2> QED  BY <1>2, <1>5, <2>1, <2>2, ClientFrame DEF Busy, Goto
<1> QED  BY <1>2, <1>4, <1>5 DEF Persist, Begin

\* The synchronous write touches an overtaken key only.
LEMMA WriteNowStep ==
  ASSUME IInv, NEW c \in Client, WriteNow(c) PROVE IInv'
<1>1. PICK it \in Thing : it = job[c]
  BY DEF IInv, Shapes
<1>2. it.keys \subseteq overtaken
  BY <1>1 DEF WriteNow, IInv, Jobs, JobOK
<1> QED  BY <1>1, <1>2, ClientTx DEF WriteNow

\* A spend waits for its place in the queue.
LEMMA RecordSpendStep ==
  ASSUME IInv, NEW c \in Client, RecordSpend(c) PROVE IInv'
<1>1. clock \in Nat /\ clock + 1 \in Nat /\ running \in BOOLEAN
  BY DEF IInv, Shapes
<1>2. PICK it \in Thing : it = Spend(clock + 1) /\ it.op = "spend_key"
  BY <1>1, OtherItems
<1>3. JobOK("put", it)'
  BY <1>2 DEF JobOK, Stop
<1> QED  BY <1>1, <1>2, <1>3, ClientFrame DEF RecordSpend, Begin, Busy, Goto, storeVars

\* It takes it; so does the None of close().
LEMMA PutStep ==
  ASSUME IInv, NEW c \in Client, Put(c) PROVE IInv'
<1>1. PICK it \in Thing : it = job[c]
  BY DEF IInv, Shapes
<1>2. ~IsWrite(it) /\ (it = Stop => ~running)
  BY <1>1 DEF Put, IInv, Jobs, JobOK, IsWrite
<1>3. Stop \in Thing
  BY DEF Stop, Thing
<1>4. UNCHANGED <<batch, worker, running, rows, overtaken, clock>>
  BY DEF Put, storeVars
<1>5. Busy(c, "join", Stop) \/ Busy(c, "idle", Stop)
  BY DEF Put, Done
<1>6. Jobs' /\ DOMAIN pc' = Client /\ job' \in [Client -> Thing]
  BY <1>3, <1>4, <1>5, OneClient DEF IInv, Busy, Goto, JobOK
<1> QED  BY <1>1, <1>2, <1>4, <1>6, Queued DEF Put, Accept

\* A delete or a query begins with its flush.
LEMMA FlushFirstStep ==
  ASSUME IInv, NEW c \in Client, FlushFirst(c) PROVE IInv'
<1>1. clock \in Nat /\ clock + 1 \in Nat /\ running \in BOOLEAN
  BY DEF IInv, Shapes
<1>2. PICK label \in {"flush", "ready"} : label = IF running THEN "flush" ELSE "ready"
  OBVIOUS
<1>3. \E it \in Thing : it.op \in {"delete", "read"} /\ Busy(c, label, it)
  <2>1. \A scope \in Scopes : scope \in SUBSET Key
    BY StoreAssumption
  <2> QED  BY <1>1, <1>2, <2>1, OtherItems DEF FlushFirst
<1>4. PICK it \in Thing : it.op \in {"delete", "read"} /\ Busy(c, label, it)
  BY <1>3
<1>5. JobOK(label, it)'
  BY <1>2, <1>4 DEF JobOK
<1>6. clock' = clock + 1 /\ UNCHANGED <<queue, batch, worker, running, rows, late, overtaken>>
  BY DEF FlushFirst, Begin, storeVars
<1> QED  BY <1>1, <1>4, <1>5, <1>6, ClientFrame DEF Busy, Goto

\* A delete may stop answering for writes.
LEMMA Uncovered ==
  ASSUME NEW it \in Thing
  PROVE  [it EXCEPT !.covers = {}] \in Thing /\ [it EXCEPT !.covers = {}].op = it.op
<1>1. {} \in SUBSET Nat
  OBVIOUS
<1> QED  BY <1>1 DEF Thing

\* The flush goes on or ends.
LEMMA FlushStep ==
  ASSUME IInv, NEW c \in Client, FlushEmpty(c) \/ FlushGivesUp(c) PROVE IInv'
<1>1. job[c] \in Thing /\ job[c].op \in {"delete", "read"}
  BY DEF FlushEmpty, FlushGivesUp, IInv, Shapes, Jobs, JobOK
<1>2. CASE FlushEmpty(c)
  <2>1. PICK label \in {"settle", "ready"} : Goto(c, label)
    BY <1>2 DEF FlushEmpty
  <2>2. UNCHANGED <<queue, batch, worker, rows, job, running, late, overtaken, clock>>
    BY <1>2 DEF FlushEmpty, storeVars, history
  <2>3. JobOK(label, job[c])'
    BY <1>1, <2>1, <2>2 DEF JobOK
  <2> QED  BY <2>1, <2>2, <2>3, GotoFrame
<1>3. CASE FlushGivesUp(c)
  <2>1. PICK it \in Thing : it = [job[c] EXCEPT !.covers = {}] /\ it.op = job[c].op
    BY <1>1, Uncovered
  <2>2. job' = [job EXCEPT ![c] = it] /\ pc' = [pc EXCEPT ![c] = "ready"]
    BY <1>3, <2>1 DEF FlushGivesUp, Goto
  <2>3. JobOK("ready", it)'
    BY <1>1, <2>1 DEF JobOK
  <2>4. UNCHANGED <<queue, batch, worker, rows, running, late, overtaken, clock>>
    BY <1>3 DEF FlushGivesUp, storeVars, history
  <2> QED  BY <2>2, <2>3, <2>4, ClientFrame DEF IInv, Shapes
<1> QED  BY <1>2, <1>3

\* A DELETE writes nothing, nor does a query.
LEMMA AfterFlushStep ==
  ASSUME IInv, NEW c \in Client, AfterFlush(c) PROVE IInv'
<1>1. PICK it \in Thing : it = job[c]
  BY DEF IInv, Shapes
<1>2. CASE it.op = "delete"
  BY <1>1, <1>2, ClientTx DEF AfterFlush, IsWrite
<1>3. CASE it.op # "delete"
  <2>1. Stop \in Thing /\ JobOK("idle", Stop)'
    BY DEF Stop, Thing, JobOK
  <2> QED  BY <1>1, <1>3, <2>1, ClientFrame DEF AfterFlush, Done, Busy, Goto, storeVars, IInv, Shapes
<1> QED  BY <1>2, <1>3

\* close() lowers the flag, then waits for the worker.
LEMMA CloseStep ==
  ASSUME IInv, NEW c \in Client, Close(c) PROVE IInv'
<1>1. clock \in Nat /\ Stop \in Thing
  BY DEF IInv, Shapes, Stop, Thing
<1>2. PICK label \in {"closed", "put"} : Busy(c, label, Stop) /\ (label = "closed" => worker = "exited")
  BY DEF Close
<1>3. clock' = clock + 1 /\ UNCHANGED <<queue, batch, worker, rows, late, overtaken>> /\ running' = FALSE
  BY DEF Close, Begin, storeVars, history
<1>4. JobOK(label, Stop)'
  BY <1>2, <1>3 DEF JobOK, Stop
<1> QED  BY <1>1, <1>2, <1>3, <1>4, ClientFrame DEF Busy, Goto
\* It joins the worker, or gives up.
LEMMA JoinStep ==
  ASSUME IInv, NEW c \in Client, Joined(c) \/ JoinGivesUp(c) PROVE IInv'
<1>1. PICK label \in {"closed", "idle"} : Goto(c, label) /\ (label = "closed" => worker = "exited")
  BY DEF Joined, JoinGivesUp
<1>2. UNCHANGED <<queue, batch, worker, rows, job, running, late, overtaken, clock>>
  BY DEF Joined, JoinGivesUp, storeVars, history
<1>3. JobOK(label, job[c])'
  BY <1>1, <1>2 DEF JobOK
<1> QED  BY <1>1, <1>2, <1>3, GotoFrame

----------------------------------------------------------------------------
(* Steps of the worker *)

\* Where its moves leave the line and the rows alone, the order stays.
LEMMA WorkerFrame ==
  ASSUME IInv, UNCHANGED <<queue, batch, running, job, clock, rows, pc, overtaken, late>>,
         worker # "exited", Closing'
  PROVE  IInv'
<1>1. Shapes' /\ Jobs'
  BY DEF IInv, Shapes, Jobs, JobOK
<1>2. Ordered'
  BY DEF IInv, Ordered, InLine, Before, Ahead, Behind
<1> QED  BY <1>1, <1>2 DEF IInv

\* The parts of a line are in order if the line is.
LEMMA Shorter ==
  ASSUME NEW s \in Seq(Thing), s # <<>>
  PROVE  /\ InLine(s) => InLine(Tail(s)) /\ Before(<<Head(s)>>, Tail(s))
         /\ Ahead(s) => Ahead(Tail(s)) /\ Ahead(<<Head(s)>>)
         /\ \A t : Before(t, s) => Before(t, Tail(s)) /\ Before(t, <<Head(s)>>)
<1>1. /\ Head(s) = s[1] /\ 1 \in 1..Len(s) /\ Len(s) \in Nat
      /\ Tail(s) \in Seq(Thing) /\ Len(Tail(s)) = Len(s) - 1
      /\ \A i \in 1..Len(Tail(s)) : Tail(s)[i] = s[i + 1] /\ i + 1 \in 1..Len(s) /\ 1 < i + 1
  BY Tailed
<1>2. /\ Len(<<Head(s)>>) = 1 /\ <<Head(s)>>[1] = s[1]
      /\ \A i \in 1..Len(<<Head(s)>>) : i = 1
  BY <1>1
<1>3. InLine(s) => InLine(Tail(s)) /\ Before(<<Head(s)>>, Tail(s))
  BY <1>1, <1>2 DEF InLine, Before
<1>4. Ahead(s) => Ahead(Tail(s)) /\ Ahead(<<Head(s)>>)
  BY <1>1, <1>2 DEF Ahead
<1>5. ASSUME NEW t, Before(t, s) PROVE Before(t, Tail(s)) /\ Before(t, <<Head(s)>>)
  BY <1>1, <1>2, <1>5 DEF Before
<1> QED  BY <1>3, <1>4, <1>5

\* The first item of a line goes to the end of the one before it.
LEMMA Moved ==
  ASSUME NEW b \in Seq(Thing), NEW s \in Seq(Thing), s # <<>>,
         InLine(s), InLine(b), Before(b, s), Ahead(s), Ahead(b)
  PROVE  /\ InLine(Append(b, Head(s))) /\ Before(Append(b, Head(s)), Tail(s))
         /\ Ahead(Append(b, Head(s)))
<1>1. /\ Head(s) \in Thing /\ Len(b) \in Nat
      /\ Before(<<Head(s)>>, Tail(s)) /\ Before(b, Tail(s)) /\ Before(b, <<Head(s)>>)
      /\ Ahead(<<Head(s)>>)
  BY Tailed, Shorter
<1>2. PICK h \in Thing : h = Head(s)
  BY <1>1
<1>3. PICK r : r = Append(b, h)
  OBVIOUS
<1>4. /\ Len(r) = Len(b) + 1 /\ \A i \in 1..Len(b) : r[i] = b[i]
      /\ r[Len(b) + 1] = h
      /\ \A i \in 1..Len(r) : i \in 1..Len(b) \/ i = Len(b) + 1
  BY <1>1, <1>3, Appended
<1>5. \A i \in 1..Len(b), j \in 1..1 : IsWrite(b[i]) /\ IsWrite(h) => b[i].id < h.id
  BY <1>1, <1>2 DEF Before
<1>6. \A j \in 1..Len(Tail(s)) : IsWrite(h) /\ IsWrite(Tail(s)[j]) => h.id < Tail(s)[j].id
  BY <1>1, <1>2 DEF Before
<1>7. IsWrite(h) => 0 < h.id /\ h.id <= clock /\ \A k \in h.keys \ overtaken : rows[k] < h.id
  BY <1>1, <1>2 DEF Ahead
<1>8. InLine(r)
  BY <1>1, <1>4, <1>5 DEF InLine
<1>9. Before(r, Tail(s))
  BY <1>1, <1>4, <1>6 DEF Before
<1>10. Ahead(r)
  BY <1>4, <1>7 DEF Ahead
<1> QED  BY <1>2, <1>3, <1>8, <1>9, <1>10

\* It takes the next item, or the None that ends the loop.
LEMMA TakeStep ==
  ASSUME IInv, Take PROVE IInv'
<1>1. queue \in Seq(Thing) /\ batch \in Seq(Thing) /\ queue # <<>>
  BY DEF Take, IInv, Shapes
<1>2. /\ Head(queue) \in Thing /\ queue' \in Seq(Thing) /\ Head(queue) = queue[1] /\ 1 \in 1..Len(queue)
      /\ \A i \in 1..Len(queue') : queue'[i] = queue[i + 1] /\ i + 1 \in 1..Len(queue)
  BY <1>1, Tailed DEF Take
<1>3. UNCHANGED <<running, job, clock, rows, pc, overtaken, late>> /\ worker \in {"get", "collect"}
  BY DEF Take, clientVars, storeVars, history
<1>4. \A i \in 1..Len(queue') : queue'[i] = Stop => ~running'
  BY <1>2, <1>3 DEF IInv, Closing
<1>5. Jobs'
  BY <1>3 DEF IInv, Jobs, JobOK
<1>6. /\ InLine(queue)' /\ Ahead(queue)' /\ Behind'
  <2>1. InLine(Tail(queue)) /\ Ahead(Tail(queue))
    BY <1>1, Shorter DEF IInv, Ordered
  <2> QED  BY <1>3, <2>1 DEF Take, InLine, Ahead, Behind, IInv, Ordered
<1>7. CASE Head(queue) = Stop
  <2>1. batch' = batch /\ worker' = IF batch = <<>> THEN "drain" ELSE "commit"
    BY <1>7 DEF Take, WorkerGoto
  <2>2. ~running
    BY <1>2, <1>7 DEF IInv, Closing
  <2>3. Closing'
    BY <1>3, <1>4, <2>1, <2>2 DEF Closing
  <2>4. Before(batch, Tail(queue))
    BY <1>1, Shorter DEF IInv, Ordered
  <2>5. Ordered'
    BY <1>3, <1>6, <2>1, <2>4 DEF Take, IInv, Ordered, InLine, Before, Ahead
  <2> QED  BY <1>2, <1>3, <1>5, <2>1, <2>3, <2>5 DEF IInv, Shapes
<1>8. CASE Head(queue) # Stop
  <2>1. batch' = Append(batch, Head(queue)) /\ worker' = "collect" /\ queue' = Tail(queue)
    BY <1>8 DEF Take, WorkerGoto
  <2>2. batch' \in Seq(Thing)
    BY <1>1, <1>2, <2>1
  <2>3. Closing'
    BY <1>4, <2>1 DEF Closing
  <2>4. /\ InLine(Append(batch, Head(queue))) /\ Before(Append(batch, Head(queue)), Tail(queue))
        /\ Ahead(Append(batch, Head(queue)))
    BY <1>1, Moved DEF IInv, Ordered
  <2>5. InLine(batch)' /\ Before(batch, queue)' /\ Ahead(batch)'
    BY <1>3, <2>1, <2>4 DEF InLine, Before, Ahead
  <2>6. Ordered'
    BY <1>6, <2>5 DEF Ordered
  <2> QED  BY <1>2, <1>3, <1>5, <2>2, <2>3, <2>6 DEF IInv, Shapes
<1> QED  BY <1>7, <1>8

\* A batch is full or the queue is empty.
LEMMA CollectedStep ==
  ASSUME IInv, Collected PROVE IInv'
<1>1. worker = "collect" /\ worker' = "commit"
      /\ UNCHANGED <<queue, batch, running, job, clock, rows, pc, overtaken, late>>
  BY DEF Collected, WorkerGoto, clientVars, storeVars, history
<1>2. Closing'
  BY <1>1 DEF IInv, Closing
<1> QED  BY <1>1, <1>2, WorkerFrame

\* The flag is down.
LEMMA LeaveStep ==
  ASSUME IInv, LeaveLoop \/ Exit PROVE IInv'
<1>1. /\ worker # "exited" /\ UNCHANGED <<queue, batch, running, job, clock, rows, pc, overtaken, late>>
      /\ batch = <<>> /\ ~running /\ (worker' = "exited" => queue = <<>>)
  BY DEF LeaveLoop, Exit, WorkerGoto, clientVars, storeVars, history, IInv, Closing
<1>2. Closing'
  BY <1>1 DEF IInv, Closing
<1> QED  BY <1>1, <1>2, WorkerFrame

\* The batch comes before the queue, so the rows stay behind the queue.
LEMMA CommitStep ==
  ASSUME IInv, Commit PROVE IInv'
<1>1. queue \in Seq(Thing) /\ batch \in Seq(Thing) /\ ProcessBatch(batch) /\ Shapes
  BY DEF Commit, IInv, Shapes
<1>2. /\ UNCHANGED <<queue, running, job, clock, overtaken, late>> /\ batch' = <<>>
      /\ worker = "commit" /\ worker' = IF running THEN "get" ELSE "drain"
      /\ pc' = [c \in Client |-> IF pc[c] = "settle" THEN "ready" ELSE pc[c]]
  BY DEF Commit, WorkerGoto, clientVars
<1>3. rows' \in [Key -> Nat]
  BY <1>1, BatchRows
<1>4. Behind'
  BY <1>1, <1>2, NoWayBack DEF IInv, Ordered, Behind
<1>5. Ahead(queue)'
  BY <1>1, <1>2, AheadAfter DEF IInv, Ordered, Ahead
<1>6. Ordered'
  BY <1>2, <1>4, <1>5 DEF IInv, Ordered, InLine, Before, Ahead
<1>7. Shapes'
  BY <1>2, <1>3 DEF IInv, Shapes
<1>8. Jobs'
  BY <1>2 DEF IInv, Jobs, JobOK
<1>9. Closing'
  BY <1>2 DEF IInv, Closing
<1> QED  BY <1>6, <1>7, <1>8, <1>9 DEF IInv

\* The final drain: the first item comes before the others.
LEMMA DrainStep ==
  ASSUME IInv, Drain PROVE IInv'
<1>1. queue \in Seq(Thing) /\ queue # <<>> /\ Shapes
  BY DEF Drain, IInv, Shapes
<1>2. /\ Head(queue) \in Thing /\ queue' \in Seq(Thing) /\ queue' = Tail(queue)
      /\ \A i \in 1..Len(queue') : queue'[i] = queue[i + 1] /\ i + 1 \in 1..Len(queue)
  BY <1>1, Tailed DEF Drain
<1>3. UNCHANGED <<batch, worker, running, job, clock, pc, overtaken, late>> /\ worker = "drain"
      /\ batch = <<>>
  BY DEF Drain, clientVars, IInv, Closing
<1>4. InLine(Tail(queue)) /\ Before(<<Head(queue)>>, Tail(queue)) /\ Ahead(Tail(queue))
      /\ Ahead(<<Head(queue)>>) /\ Tail(queue) \in Seq(Thing)
  BY <1>1, <1>2, Shorter DEF IInv, Ordered
<1>5. Behind' /\ Ahead(queue)' /\ rows' \in [Key -> Nat]
  <2>1. CASE UNCHANGED rows
    BY <1>1, <1>2, <1>3, <1>4, <2>1 DEF IInv, Ordered, Behind, Ahead, Shapes
  <2>2. CASE ProcessBatch(<<Head(queue)>>)
    <3>1. <<Head(queue)>> \in Seq(Thing)
      BY <1>2
    <3>2. rows' \in [Key -> Nat]
      BY <1>1, <2>2, <3>1, BatchRows
    <3>3. Behind'
      BY <1>1, <1>3, <1>4, <2>2, <3>1, NoWayBack DEF IInv, Ordered, Behind
    <3>4. Ahead(queue)'
      BY <1>1, <1>2, <1>3, <1>4, <2>2, <3>1, AheadAfter DEF Ahead
    <3> QED  BY <3>2, <3>3, <3>4
  <2> QED  BY <2>1, <2>2 DEF Drain
<1>6. Ordered'
  BY <1>2, <1>3, <1>4, <1>5 DEF Ordered, InLine, Before, Ahead
<1>7. Shapes' /\ Jobs'
  BY <1>2, <1>3, <1>5 DEF IInv, Shapes, Jobs, JobOK
<1>8. Closing'
  BY <1>2, <1>3 DEF IInv, Closing
<1> QED  BY <1>6, <1>7, <1>8 DEF IInv

\* After a crash nothing is pending, and the rows are what was committed.
LEMMA CrashStep ==
  ASSUME IInv, Crash PROVE IInv'
<1>1. /\ queue' = <<>> /\ batch' = <<>> /\ worker' = "get" /\ running' = TRUE
      /\ pc' = [c \in Client |-> "idle"] /\ job' = [c \in Client |-> Stop]
      /\ UNCHANGED <<rows, clock, overtaken, late>>
  BY DEF Crash, storeVars
<1>2. Stop \in Thing
  BY DEF Stop, Thing
<1>3. Shapes'
  BY <1>1, <1>2 DEF IInv, Shapes
<1>4. Jobs' /\ Closing'
  BY <1>1 DEF Jobs, JobOK, Closing
<1>5. Ordered'
  BY <1>1 DEF IInv, Ordered, InLine, Before, Ahead, Behind
<1> QED  BY <1>3, <1>4, <1>5 DEF IInv

\* Every step keeps the invariant.
LEMMA NextIInv == IInv /\ [Next]_vars => IInv'
<1> SUFFICES ASSUME IInv, [Next]_vars PROVE IInv'
  OBVIOUS
<1>1. CASE UNCHANGED vars
  BY <1>1 DEF vars, IInv, Shapes, Jobs, JobOK, Closing, Ordered, InLine, Before, Ahead, Behind
<1>2. ASSUME NEW c \in Client, NEW k \in Key, Persist(c, k) PROVE IInv'
  BY <1>2, PersistStep
<1>3. ASSUME NEW c \in Client, RecordSpend(c) \/ FlushFirst(c) \/ Close(c) PROVE IInv'
  BY <1>3, RecordSpendStep, FlushFirstStep, CloseStep
<1>4. ASSUME NEW c \in Client, ClientStep(c) PROVE IInv'
  BY <1>4, WriteNowStep, PutStep, FlushStep, AfterFlushStep, JoinStep DEF ClientStep
<1>5. CASE WorkerStep
  BY <1>5, TakeStep, CollectedStep, CommitStep, LeaveStep, DrainStep DEF WorkerStep
<1>6. CASE Crash
  BY <1>6, CrashStep
<1> QED  BY <1>1, <1>2, <1>3, <1>4, <1>5, <1>6 DEF Next

----------------------------------------------------------------------------
(* What was deleted is gone for good *)

\* Write n is not in a line; no client is about to write it.
Missing(n, s) == \A i \in 1..Len(s) : IsWrite(s[i]) => s[i].id # n
NotWriting(n) == \A c \in Client : pc[c] = "write" => job[c].id # n
Settled(n) == Missing(n, queue) /\ Missing(n, batch) /\ NotWriting(n)

\* Only deletes answer for writes, and they never queue.
Bare(s) == \A i \in 1..Len(s) : s[i].covers = {}
Plain ==
  /\ Bare(queue) /\ Bare(batch)
  /\ \A c \in Client : pc[c] \in {"write", "put"} => job[c].covers = {}

\* The further a flush has come, the fewer places hold what it covers.
Flushing == {"flush", "settle", "ready"}
Answers(label, it) ==
  \A n \in it.covers :
    /\ n \in 1..clock /\ NotWriting(n)
    /\ label \in {"settle", "ready"} => Missing(n, queue)
    /\ label = "ready" => Missing(n, batch)
Deletes == \A c \in Client : pc[c] \in Flushing => Answers(pc[c], job[c])

\* What is gone is nowhere.
Gone ==
  \A k \in Key : \A n : <<k, n>> \in gone => n \in 1..clock /\ Settled(n) /\ rows[k] # n

GInv == Plain /\ Deletes /\ Gone

\* A write with another id may follow.
LEMMA MissingAppended ==
  ASSUME NEW s \in Seq(Thing), NEW x \in Thing, NEW n, Missing(n, s), IsWrite(x) => x.id # n
  PROVE  Missing(n, Append(s, x))
<1>1. PICK r : r = Append(s, x)
  OBVIOUS
<1>2. /\ Len(r) = Len(s) + 1 /\ Len(s) \in Nat /\ \A i \in 1..Len(s) : r[i] = s[i]
      /\ r[Len(s) + 1] = x
  BY <1>1, Appended
<1>3. \A i \in 1..Len(r) : i \in 1..Len(s) \/ i = Len(s) + 1
  BY <1>2
<1>4. Missing(n, r)
  BY <1>2, <1>3 DEF Missing
<1> QED  BY <1>1, <1>4
\* And another item that answers for nothing.
LEMMA BareAppended ==
  ASSUME NEW s \in Seq(Thing), NEW x \in Thing, Bare(s), x.covers = {}
  PROVE  Bare(Append(s, x))
<1>1. PICK r : r = Append(s, x)
  OBVIOUS
<1>2. /\ Len(r) = Len(s) + 1 /\ Len(s) \in Nat /\ \A i \in 1..Len(s) : r[i] = s[i]
      /\ r[Len(s) + 1] = x
  BY <1>1, Appended
<1>3. \A i \in 1..Len(r) : i \in 1..Len(s) \/ i = Len(s) + 1
  BY <1>2
<1>4. Bare(r)
  BY <1>2, <1>3 DEF Bare
<1> QED  BY <1>1, <1>4

\* What is missing in a line is missing in its parts.
LEMMA MissingParts ==
  ASSUME NEW s \in Seq(Thing), s # <<>>
  PROVE  /\ \A n : Missing(n, s) => Missing(n, Tail(s)) /\ (IsWrite(Head(s)) => Head(s).id # n)
         /\ Bare(s) => Bare(Tail(s)) /\ Head(s).covers = {}
<1>1. /\ Head(s) = s[1] /\ 1 \in 1..Len(s)
      /\ \A i \in 1..Len(Tail(s)) : Tail(s)[i] = s[i + 1] /\ i + 1 \in 1..Len(s)
  BY Tailed
<1> QED  BY <1>1 DEF Missing, Bare

\* Nobody starts to write anything but a new write.
LEMMA Writers ==
  ASSUME IInv, Next, NEW d \in Client, pc'[d] = "write"
  PROVE  (pc[d] = "write" /\ job'[d] = job[d]) \/ job'[d].id = clock + 1
<1>1. DOMAIN pc = Client /\ DOMAIN job = Client
  BY DEF IInv, Shapes
<1>2. ASSUME NEW c \in Client, NEW k \in Key, Persist(c, k)
      PROVE  (pc[d] = "write" /\ job'[d] = job[d]) \/ job'[d].id = clock + 1
  BY <1>1, <1>2 DEF Persist, Busy, Goto, Write
<1>3. ASSUME NEW c \in Client, RecordSpend(c) \/ FlushFirst(c) \/ Close(c) \/ Put(c)
      PROVE  pc[d] = "write" /\ job'[d] = job[d]
  BY <1>1, <1>3 DEF RecordSpend, FlushFirst, Close, Put, Busy, Goto, Done
<1>4. ASSUME NEW c \in Client, WriteNow(c) \/ FlushEmpty(c) \/ FlushGivesUp(c)
      PROVE  pc[d] = "write" /\ job'[d] = job[d]
  BY <1>1, <1>4 DEF WriteNow, FlushEmpty, FlushGivesUp, Busy, Goto, Done
<1>5. ASSUME NEW c \in Client, AfterFlush(c) \/ Joined(c) \/ JoinGivesUp(c)
      PROVE  pc[d] = "write" /\ job'[d] = job[d]
  BY <1>1, <1>5 DEF AfterFlush, Joined, JoinGivesUp, Busy, Goto, Done
<1>6. CASE WorkerStep
  BY <1>1, <1>6 DEF WorkerStep, Take, Collected, Commit, LeaveLoop, Drain, Exit, clientVars
<1>7. CASE Crash
  BY <1>7 DEF Crash
<1>8. ASSUME NEW c \in Client, ClientStep(c)
      PROVE  pc[d] = "write" /\ job'[d] = job[d]
  BY <1>3, <1>4, <1>5, <1>8 DEF ClientStep
<1> QED  BY <1>2, <1>3, <1>6, <1>7, <1>8 DEF Next

\* What the steps do to the line: nothing, or one item in at the end, or the
\* head out, into the hand of the worker or into the table, or all of the hand
\* into the table or nowhere.
Still == UNCHANGED <<queue, batch>>
ItemIn ==
  /\ batch' = batch
  /\ \E it \in Thing : /\ queue' = Append(queue, it) /\ it.covers = {}
                       /\ IsWrite(it) => it.id = clock + 1
HeadOut ==
  /\ queue # <<>> /\ queue' = Tail(queue)
  /\ batch' = batch \/ batch' = Append(batch, Head(queue))
HandOut == batch' = <<>> /\ (queue' = queue \/ queue' = <<>>)

\* Every step does one of these.
LEMMA Line ==
  ASSUME IInv, Plain, Next
  PROVE  Still \/ ItemIn \/ HeadOut \/ HandOut
<1>1. ASSUME NEW c \in Client, NEW k \in Key, Persist(c, k) PROVE Still \/ ItemIn
  <2>1. clock + 1 \in Nat
    BY DEF IInv, Shapes
  <2>2. PICK it \in Thing : it = Write(clock + 1, k) /\ it.id = clock + 1
    BY <2>1, Items
  <2>3. it.covers = {}
    BY <2>2 DEF Write
  <2> QED  BY <1>1, <2>2, <2>3 DEF Persist, Accept, Still, ItemIn
<1>2. ASSUME NEW c \in Client, Put(c) PROVE ItemIn
  <2>1. PICK it \in Thing : it = job[c]
    BY DEF IInv, Shapes
  <2>2. ~IsWrite(it) /\ it.covers = {}
    BY <1>2, <2>1 DEF Put, IInv, Jobs, JobOK, IsWrite, Plain
  <2> QED  BY <1>2, <2>1, <2>2 DEF Put, Accept, ItemIn
<1>3. ASSUME NEW c \in Client,
             \/ RecordSpend(c) \/ FlushFirst(c) \/ Close(c) \/ WriteNow(c) \/ FlushEmpty(c)
             \/ FlushGivesUp(c) \/ AfterFlush(c) \/ Joined(c) \/ JoinGivesUp(c)
      PROVE  Still
  BY <1>3 DEF RecordSpend, FlushFirst, Close, WriteNow, FlushEmpty, FlushGivesUp, AfterFlush,
              Joined, JoinGivesUp, Still
<1>4. CASE Take \/ Drain
  BY <1>4 DEF Take, Drain, HeadOut
<1>5. CASE Collected \/ LeaveLoop \/ Exit
  BY <1>5 DEF Collected, LeaveLoop, Exit, Still
<1>6. CASE Commit \/ Crash
  BY <1>6 DEF Commit, Crash, HandOut
<1>7. ASSUME NEW c \in Client, ClientStep(c) PROVE Still \/ ItemIn
  BY <1>2, <1>3, <1>7 DEF ClientStep
<1> QED  BY <1>1, <1>3, <1>4, <1>5, <1>6, <1>7 DEF Next, WorkerStep

\* What has left the line does not come back to it.
LEMMA StaysMissing ==
  ASSUME IInv, Plain, Next, NEW n \in 1..clock
  PROVE  /\ Missing(n, queue) => Missing(n, queue')
         /\ Missing(n, queue) /\ Missing(n, batch) => Missing(n, batch')
         /\ NotWriting(n) => NotWriting(n)'
<1>1. queue \in Seq(Thing) /\ batch \in Seq(Thing) /\ clock \in Nat
  BY DEF IInv, Shapes
<1>2. NotWriting(n) => NotWriting(n)'
  BY <1>1, Writers DEF NotWriting
<1>3. CASE Still
  BY <1>2, <1>3 DEF Still
<1>4. CASE ItemIn
  <2>1. PICK it \in Thing : queue' = Append(queue, it) /\ (IsWrite(it) => it.id = clock + 1)
    BY <1>4 DEF ItemIn
  <2> QED  BY <1>1, <1>2, <1>4, <2>1, MissingAppended DEF ItemIn
<1>5. CASE HeadOut
  <2>1. Head(queue) \in Thing
    BY <1>1, <1>5, Tailed DEF HeadOut
  <2>2. Missing(n, queue) => Missing(n, Tail(queue)) /\ (IsWrite(Head(queue)) => Head(queue).id # n)
    BY <1>1, <1>5, MissingParts DEF HeadOut
  <2>3. Missing(n, queue) /\ Missing(n, batch) => Missing(n, Append(batch, Head(queue)))
    BY <1>1, <2>1, <2>2, MissingAppended
  <2> QED  BY <1>2, <1>5, <2>2, <2>3 DEF HeadOut
<1>6. CASE HandOut
  <2>1. Missing(n, <<>>)
    BY DEF Missing
  <2> QED  BY <1>2, <1>6, <2>1 DEF HandOut
<1> QED  BY <1>3, <1>4, <1>5, <1>6, Line

\* Items stay bare.
LEMMA PlainStep ==
  ASSUME IInv, Plain, Next PROVE Plain'
<1>1. queue \in Seq(Thing) /\ batch \in Seq(Thing) /\ Bare(queue) /\ Bare(batch) /\ Bare(<<>>)
  BY DEF IInv, Shapes, Plain, Bare
<1>2. Bare(queue') /\ Bare(batch')
  <2>1. CASE Still \/ HandOut
    BY <1>1, <2>1 DEF Still, HandOut
  <2>2. CASE ItemIn
    BY <1>1, <2>2, BareAppended DEF ItemIn
  <2>3. CASE HeadOut
    <3>1. Head(queue) \in Thing /\ Head(queue).covers = {} /\ Bare(Tail(queue))
      BY <1>1, <2>3, Tailed, MissingParts DEF HeadOut
    <3>2. Bare(Append(batch, Head(queue)))
      BY <1>1, <3>1, BareAppended
    <3> QED  BY <1>1, <2>3, <3>1, <3>2 DEF HeadOut
  <2> QED  BY <2>1, <2>2, <2>3, Line
<1>3. ASSUME NEW d \in Client, pc'[d] \in {"write", "put"} PROVE job'[d].covers = {}
  <2>1. DOMAIN pc = Client /\ DOMAIN job = Client /\ Stop.covers = {}
        /\ (pc[d] \in {"write", "put"} => job[d].covers = {})
    BY DEF IInv, Shapes, Stop, Plain
  <2>2. ASSUME NEW c \in Client, NEW k \in Key, Persist(c, k) PROVE job'[d].covers = {}
    BY <1>3, <2>1, <2>2 DEF Persist, Busy, Goto, Write
  <2>3. ASSUME NEW c \in Client, RecordSpend(c) \/ FlushFirst(c) \/ Close(c) \/ Put(c)
        PROVE  job'[d].covers = {}
    BY <1>3, <2>1, <2>3 DEF RecordSpend, FlushFirst, Close, Put, Busy, Goto, Done, Spend
  <2>4. ASSUME NEW c \in Client, WriteNow(c) \/ FlushEmpty(c) \/ FlushGivesUp(c)
        PROVE  job'[d].covers = {}
    BY <1>3, <2>1, <2>4 DEF WriteNow, FlushEmpty, FlushGivesUp, Busy, Goto, Done
  <2>5. ASSUME NEW c \in Client, AfterFlush(c) \/ Joined(c) \/ JoinGivesUp(c)
        PROVE  job'[d].covers = {}
    BY <1>3, <2>1, <2>5 DEF AfterFlush, Joined, JoinGivesUp, Busy, Goto, Done
  <2>6. CASE WorkerStep
    BY <1>3, <2>1, <2>6 DEF WorkerStep, Take, Collected, Commit, LeaveLoop, Drain, Exit, clientVars
  <2>7. CASE Crash
    BY <1>3, <2>7 DEF Crash
  <2>8. ASSUME NEW c \in Client, ClientStep(c) PROVE job'[d].covers = {}
    BY <2>3, <2>4, <2>5, <2>8 DEF ClientStep
  <2> QED  BY <2>2, <2>3, <2>6, <2>7, <2>8 DEF Next
<1> QED  BY <1>2, <1>3 DEF Plain

\* How a client comes to flush, or to have flushed: it was there, or answers for
\* nothing, or begins, or saw an empty queue, or the worker has committed.
LEMMA Flushers ==
  ASSUME IInv, Next, NEW d \in Client, pc'[d] \in Flushing
  PROVE  \/ pc'[d] = pc[d] /\ job'[d] = job[d]
         \/ job'[d].covers = {}
         \/ pc'[d] = "flush" /\ job'[d].covers \subseteq (1..clock) \ Writing
         \/ /\ pc[d] = "flush" /\ job'[d] = job[d] /\ queue' = <<>>
            /\ pc'[d] = "settle" \/ batch' = <<>>
         \/ pc[d] = "settle" /\ job'[d] = job[d] /\ batch' = <<>> /\ queue' = queue
<1> DEFINE Comes ==
         \/ pc'[d] = pc[d] /\ job'[d] = job[d]
         \/ job'[d].covers = {}
         \/ pc'[d] = "flush" /\ job'[d].covers \subseteq (1..clock) \ Writing
         \/ /\ pc[d] = "flush" /\ job'[d] = job[d] /\ queue' = <<>>
            /\ pc'[d] = "settle" \/ batch' = <<>>
         \/ pc[d] = "settle" /\ job'[d] = job[d] /\ batch' = <<>> /\ queue' = queue
<1> SUFFICES Comes
  OBVIOUS
<1>1. DOMAIN pc = Client /\ DOMAIN job = Client /\ running \in BOOLEAN
  BY DEF IInv, Shapes
<1>2. ASSUME NEW c \in Client, NEW k \in Key, Persist(c, k) PROVE Comes
  BY <1>1, <1>2 DEF Persist, Busy, Goto, Flushing
<1>3. ASSUME NEW c \in Client, FlushFirst(c) PROVE Comes
  <2>1. CASE d # c
    BY <1>1, <1>3, <2>1 DEF FlushFirst, Busy, Goto
  <2>2. CASE d = c
    <3>1. PICK it, label : /\ Busy(c, label, it) /\ label = IF running THEN "flush" ELSE "ready"
                           /\ it = Read(clock + 1) \/ \E scope \in Scopes : it = Delete(clock + 1, scope)
      BY <1>3 DEF FlushFirst
    <3>2. pc'[d] = label /\ job'[d] = it
      BY <1>1, <2>2, <3>1 DEF Busy, Goto
    <3>3. it.covers = {} \/ (running /\ it.covers = (1..clock) \ Writing)
      BY <1>1, <3>1 DEF Read, Delete
    <3> QED  BY <3>1, <3>2, <3>3
  <2> QED  BY <2>1, <2>2
<1>4. ASSUME NEW c \in Client, FlushEmpty(c) PROVE Comes
  BY <1>1, <1>4 DEF FlushEmpty, Goto
<1>5. ASSUME NEW c \in Client, FlushGivesUp(c) PROVE Comes
  <2>1. CASE d # c
    BY <1>1, <1>5, <2>1 DEF FlushGivesUp, Goto
  <2>2. CASE d = c
    <3>1. PICK it \in Thing : it = job[c]
      BY DEF IInv, Shapes
    <3>2. job'[d] = [it EXCEPT !.covers = {}]
      BY <1>1, <1>5, <2>2, <3>1 DEF FlushGivesUp
    <3>3. [it EXCEPT !.covers = {}].covers = {}
      BY DEF Thing
    <3> QED  BY <3>2, <3>3
  <2> QED  BY <2>1, <2>2
<1>6. ASSUME NEW c \in Client,
             RecordSpend(c) \/ Close(c) \/ Put(c) \/ WriteNow(c)
      PROVE  Comes
  BY <1>1, <1>6 DEF RecordSpend, Close, Put, WriteNow, Busy, Goto, Done, Flushing
<1>7. ASSUME NEW c \in Client, AfterFlush(c) \/ Joined(c) \/ JoinGivesUp(c) PROVE Comes
  BY <1>1, <1>7 DEF AfterFlush, Joined, JoinGivesUp, Busy, Goto, Done, Flushing
<1>8. CASE Commit
  BY <1>1, <1>8 DEF Commit, clientVars
<1>9. CASE Take \/ Collected \/ LeaveLoop \/ Drain \/ Exit
  BY <1>9 DEF Take, Collected, LeaveLoop, Drain, Exit, clientVars
<1>10. CASE Crash
  BY <1>10 DEF Crash, Flushing
<1> HIDE DEF Comes
<1>11. ASSUME NEW c \in Client, ClientStep(c) PROVE Comes
  BY <1>4, <1>5, <1>6, <1>7, <1>11 DEF ClientStep
<1> QED  BY <1>2, <1>3, <1>6, <1>8, <1>9, <1>10, <1>11 DEF Next, WorkerStep

\* The clock does not go back.
LEMMA ClockGoesOn ==
  ASSUME IInv, Next PROVE clock' = clock \/ clock' = clock + 1
  BY DEF Next, Persist, RecordSpend, FlushFirst, Close, ClientStep, WriteNow, Put, FlushEmpty,
         FlushGivesUp, AfterFlush, Joined, JoinGivesUp, Begin, WorkerStep, Take, Collected, Commit,
         LeaveLoop, Drain, Exit, Crash, clientVars

\* A flush that goes on answers for no more, and what it answers for is in
\* fewer places.
LEMMA DeletesStep ==
  ASSUME IInv, Plain, Deletes, Next PROVE Deletes'
<1> SUFFICES ASSUME NEW d \in Client, pc'[d] \in Flushing, NEW n, n \in job'[d].covers
             PROVE  /\ n \in 1..clock' /\ NotWriting(n)'
                    /\ pc'[d] \in {"settle", "ready"} => Missing(n, queue')
                    /\ pc'[d] = "ready" => Missing(n, batch')
  BY DEF Deletes, Answers
<1>1. clock \in Nat /\ \A m \in 1..clock : m \in 1..clock'
  BY ClockGoesOn DEF IInv, Shapes
<1>2. ASSUME n \in 1..clock
      PROVE  /\ Missing(n, queue) => Missing(n, queue')
             /\ Missing(n, queue) /\ Missing(n, batch) => Missing(n, batch')
             /\ NotWriting(n) => NotWriting(n)'
  BY <1>2, StaysMissing
<1>3. Missing(n, <<>>)
  BY DEF Missing
<1>4. CASE pc'[d] = pc[d] /\ job'[d] = job[d]
  <2>1. Answers(pc[d], job[d]) /\ n \in job[d].covers
    BY <1>4 DEF Deletes
  <2> QED  BY <1>1, <1>2, <1>4, <2>1 DEF Answers
<1>5. CASE pc'[d] = "flush" /\ job'[d].covers \subseteq (1..clock) \ Writing
  <2>1. n \in 1..clock /\ NotWriting(n)
    BY <1>5 DEF NotWriting, Writing
  <2> QED  BY <1>1, <1>2, <1>5, <2>1
<1>6. CASE pc[d] = "flush" /\ job'[d] = job[d] /\ queue' = <<>> /\ (pc'[d] = "settle" \/ batch' = <<>>)
  <2>1. Answers(pc[d], job[d]) /\ n \in job[d].covers
    BY <1>6 DEF Deletes, Flushing
  <2> QED  BY <1>1, <1>2, <1>3, <1>6, <2>1 DEF Answers
<1>7. CASE pc[d] = "settle" /\ job'[d] = job[d] /\ batch' = <<>> /\ queue' = queue
  <2>1. Answers(pc[d], job[d]) /\ n \in job[d].covers
    BY <1>7 DEF Deletes, Flushing
  <2> QED  BY <1>1, <1>2, <1>3, <1>7, <2>1 DEF Answers
<1> QED  BY <1>4, <1>5, <1>6, <1>7, Flushers

\* A transaction of bare items adds nothing to what is gone, and its writes are
\* not gone if all of them were pending.
LEMMA BareTx ==
  ASSUME Shapes, NEW items \in Seq(Thing), ProcessBatch(items), Bare(items)
  PROVE  /\ gone' = gone
         /\ \A k \in Key : \A n : Missing(n, items) /\ rows[k] # n /\ n # 0 => rows'[k] # n
<1>1. \A i \in DOMAIN items : items[i].covers = {}
  BY DEF Bare
<1>2. gone' = gone
  BY <1>1 DEF ProcessBatch
<1>3. ASSUME NEW k \in Key, NEW n, Missing(n, items), rows[k] # n, n # 0 PROVE rows'[k] # n
  BY <1>3, BatchRows DEF Missing
<1> QED  BY <1>2, <1>3

\* What a step adds to what is gone, and what it does to the rows of the rest.
GoneOnly == gone' = gone /\ \A k \in Key : \A n : Settled(n) /\ rows[k] # n /\ n # 0 => rows'[k] # n

\* The DELETE of a client.
LEMMA DeleteTx ==
  ASSUME IInv, NEW it \in Thing, it.op = "delete", ProcessBatch(<<it>>)
  PROVE  /\ \A k \in Key : \A n : <<k, n>> \in gone' =>
              <<k, n>> \in gone \/ (k \in it.keys /\ n \in it.covers /\ rows'[k] = 0)
         /\ \A k \in Key : rows'[k] = rows[k] \/ rows'[k] = 0
<1>1. /\ <<it>> \in Seq(Thing) /\ DOMAIN <<it>> = {1} /\ <<it>>[1] = it
      /\ Len(<<it>>) = 1
  OBVIOUS
<1>2. \A k \in Key : rows'[k] = rows[k] \/ rows'[k] = 0
  <2>1. \A i \in 1..Len(<<it>>) : ~IsWrite(<<it>>[i])
    BY <1>1 DEF IsWrite
  <2> QED  BY <1>1, <2>1, BatchRows DEF IInv
<1>3. CASE gone' = gone
  BY <1>2, <1>3
<1>4. CASE rows' = RowsAfter(<<it>>) /\ gone' = gone \union UNION {<<it>>[i].keys \X <<it>>[i].covers : i \in DOMAIN <<it>>}
  <2>1. gone' = gone \union (it.keys \X it.covers)
    BY <1>1, <1>4
  <2>2. Touched(<<it>>, "delete") = it.keys
    BY <1>1 DEF Touched, OfOp
  <2>3. \A k \in it.keys \intersect Key : rows'[k] = 0
    BY <1>4, <2>2 DEF RowsAfter
  <2> QED  BY <1>2, <2>1, <2>3
<1> QED  BY <1>3, <1>4 DEF ProcessBatch

\* Every other step.
LEMMA OtherTx ==
  ASSUME IInv, Plain, Next
  PROVE  GoneOnly \/ \E c \in Client : AfterFlush(c) /\ job[c].op = "delete"
<1>1. ASSUME UNCHANGED <<rows, gone>> PROVE GoneOnly
  BY <1>1 DEF GoneOnly
<1>2. ASSUME NEW c \in Client, WriteNow(c) PROVE GoneOnly
  <2>1. PICK it \in Thing : it = job[c]
    BY DEF IInv, Shapes
  <2>2. <<it>> \in Seq(Thing) /\ Bare(<<it>>)
    BY <1>2, <2>1 DEF WriteNow, Plain, Bare
  <2>3. \A n : NotWriting(n) => Missing(n, <<it>>)
    BY <1>2, <2>1 DEF WriteNow, NotWriting, Missing
  <2> QED  BY <1>2, <2>1, <2>2, <2>3, BareTx DEF WriteNow, IInv, Settled, GoneOnly
<1>3. CASE Commit
  <2>1. batch \in Seq(Thing) /\ Bare(batch) /\ ProcessBatch(batch)
    BY <1>3 DEF IInv, Shapes, Plain, Commit
  <2> QED  BY <2>1, BareTx DEF IInv, Settled, GoneOnly
<1>4. CASE Drain
  <2>1. queue \in Seq(Thing) /\ queue # <<>>
    BY <1>4 DEF Drain, IInv, Shapes
  <2>2. Head(queue) \in Thing /\ Head(queue).covers = {}
    BY <2>1, Tailed, MissingParts DEF Plain
  <2>3. \A n : Missing(n, queue) => (IsWrite(Head(queue)) => Head(queue).id # n)
    BY <2>1, MissingParts
  <2>4. PICK it \in Thing : it = Head(queue)
    BY <2>2
  <2>5. <<it>> \in Seq(Thing) /\ Bare(<<it>>) /\ \A n : Missing(n, queue) => Missing(n, <<it>>)
    BY <2>2, <2>3, <2>4 DEF Bare, Missing
  <2>6. CASE ProcessBatch(<<it>>)
    BY <2>5, <2>6, BareTx DEF IInv, Settled, GoneOnly
  <2> QED  BY <1>1, <1>4, <2>4, <2>6 DEF Drain
<1>5. ASSUME NEW c \in Client,
             \/ \E k \in Key : Persist(c, k)
             \/ RecordSpend(c) \/ FlushFirst(c) \/ Close(c) \/ Put(c)
             \/ FlushEmpty(c) \/ FlushGivesUp(c) \/ Joined(c) \/ JoinGivesUp(c)
      PROVE  UNCHANGED <<rows, gone>>
  BY <1>5 DEF Persist, RecordSpend, FlushFirst, Close, Put, FlushEmpty, FlushGivesUp,
              Joined, JoinGivesUp, storeVars, history
<1>6. CASE Take \/ Collected \/ LeaveLoop \/ Exit \/ Crash
  BY <1>1, <1>6 DEF Take, Collected, LeaveLoop, Exit, Crash, storeVars, history
<1>7. ASSUME NEW c \in Client, AfterFlush(c), job[c].op # "delete" PROVE UNCHANGED <<rows, gone>>
  BY <1>7 DEF AfterFlush, storeVars
<1>8. ASSUME NEW c \in Client, ClientStep(c)
      PROVE  GoneOnly \/ (AfterFlush(c) /\ job[c].op = "delete")
  <2>1. CASE WriteNow(c)
    BY <1>2, <2>1
  <2>2. CASE AfterFlush(c)
    BY <1>1, <1>7, <2>2
  <2>3. CASE ~WriteNow(c) /\ ~AfterFlush(c)
    BY <1>1, <1>5, <1>8, <2>3 DEF ClientStep
  <2> QED  BY <2>1, <2>2, <2>3
<1> QED  BY <1>1, <1>3, <1>4, <1>5, <1>6, <1>8 DEF Next, WorkerStep

\* What is gone stays gone, and what a DELETE answers for is nowhere by then.
LEMMA GoneStep ==
  ASSUME IInv, GInv, Next PROVE Gone'
<1> SUFFICES ASSUME NEW k \in Key, NEW n, <<k, n>> \in gone'
             PROVE  n \in 1..clock' /\ Settled(n)' /\ rows'[k] # n
  BY DEF Gone
<1>1. clock \in Nat /\ \A m \in 1..clock : m \in 1..clock'
  BY ClockGoesOn DEF IInv, Shapes
<1>2. ASSUME n \in 1..clock, Settled(n) PROVE n \in 1..clock' /\ Settled(n)'
  BY <1>1, <1>2, StaysMissing DEF Settled, GInv
<1>3. CASE GoneOnly
  <2>1. n \in 1..clock /\ Settled(n) /\ rows[k] # n
    BY <1>3 DEF GoneOnly, GInv, Gone
  <2> QED  BY <1>1, <1>2, <1>3, <2>1 DEF GoneOnly
<1>4. ASSUME NEW c \in Client, AfterFlush(c), job[c].op = "delete"
      PROVE  n \in 1..clock' /\ Settled(n)' /\ rows'[k] # n
  <2>1. PICK it \in Thing : it = job[c]
    BY DEF IInv, Shapes
  <2>2. ProcessBatch(<<it>>)
    BY <1>4, <2>1 DEF AfterFlush
  <2>3. CASE <<k, n>> \in gone
    <3>1. n \in 1..clock /\ Settled(n) /\ rows[k] # n
      BY <2>3 DEF GInv, Gone
    <3>2. rows'[k] = rows[k] \/ rows'[k] = 0
      BY <1>4, <2>1, <2>2, DeleteTx
    <3> QED  BY <1>1, <1>2, <3>1, <3>2
  <2>4. CASE n \in it.covers /\ rows'[k] = 0
    <3>1. n \in 1..clock /\ Settled(n)
      BY <1>4, <2>1, <2>4 DEF AfterFlush, GInv, Deletes, Answers, Flushing, Settled
    <3> QED  BY <1>1, <1>2, <2>4, <3>1
  <2> QED  BY <1>4, <2>1, <2>2, <2>3, <2>4, DeleteTx
<1> QED  BY <1>3, <1>4, OtherTx DEF GInv

\* Every step keeps all this.
LEMMA NextGInv == IInv /\ GInv /\ [Next]_vars => GInv'
<1> SUFFICES ASSUME IInv, GInv, [Next]_vars PROVE GInv'
  OBVIOUS
<1>1. CASE UNCHANGED vars
  BY <1>1 DEF vars, GInv, Plain, Deletes, Answers, Gone, Settled, NotWriting
<1>2. CASE Next
  BY <1>2, PlainStep, DeletesStep, GoneStep DEF GInv
<1> QED  BY <1>1, <1>2

----------------------------------------------------------------------------
(* Spend is counted once *)

SpendIn(s) == Cardinality(OfOp(s, "spend_key"))
Spending(it) == IF it.op = "spend_key" THEN 1 ELSE 0
Putters == {c \in Client : pc[c] = "put" /\ job[c].op = "spend_key"}

\* The spend in the row, lost and on its way is what was recorded.
Sum == spent + lost + SpendIn(queue) + SpendIn(batch) + Cardinality(Putters) = recorded
SInv ==
  /\ {spent, lost, recorded} \subseteq Int /\ IsFiniteSet(Putters)
  /\ \A c \in Client : pc[c] = "write" => job[c].op = "insert_cache"
  /\ Sum

\* The spend in a line is a number.
LEMMA SpendIsNat ==
  ASSUME NEW s \in Seq(Thing)
  PROVE  /\ OfOp(s, "spend_key") \subseteq 1..Len(s)
         /\ IsFiniteSet(OfOp(s, "spend_key")) /\ SpendIn(s) \in Nat
<1>1. OfOp(s, "spend_key") \in SUBSET (1..Len(s)) /\ Len(s) \in Int
  BY DEF OfOp
<1>2. IsFiniteSet(1..Len(s))
  BY <1>1, FS_Interval
<1>3. IsFiniteSet(OfOp(s, "spend_key"))
  BY <1>1, <1>2, FS_Subset
<1> QED  BY <1>1, <1>3, FS_CardinalityType DEF SpendIn

\* An item that comes, goes or stands alone counts for itself.
LEMMA SpendAppended ==
  ASSUME NEW s \in Seq(Thing), NEW x \in Thing
  PROVE  SpendIn(Append(s, x)) = SpendIn(s) + Spending(x)
<1>1. PICK r \in Seq(Thing) : r = Append(s, x)
  BY Appended
<1>2. /\ Len(r) = Len(s) + 1 /\ Len(s) \in Nat /\ \A i \in 1..Len(s) : r[i] = s[i]
      /\ r[Len(s) + 1] = x /\ DOMAIN r = 1..Len(r) /\ DOMAIN s = 1..Len(s)
  BY <1>1, Appended
<1>3. \A i \in 1..Len(r) : i \in 1..Len(s) \/ i = Len(s) + 1
  BY <1>2
<1>4. IsFiniteSet(OfOp(s, "spend_key")) /\ Len(s) + 1 \notin OfOp(s, "spend_key") /\ SpendIn(s) \in Nat
  BY <1>2, SpendIsNat
<1>5. CASE x.op = "spend_key"
  <2>1. OfOp(r, "spend_key") = OfOp(s, "spend_key") \cup {Len(s) + 1}
    BY <1>2, <1>3, <1>5 DEF OfOp
  <2> QED  BY <1>1, <1>4, <1>5, <2>1, FS_AddElement DEF SpendIn, Spending
<1>6. CASE x.op # "spend_key"
  <2>1. OfOp(r, "spend_key") = OfOp(s, "spend_key")
    BY <1>2, <1>3, <1>6 DEF OfOp
  <2> QED  BY <1>1, <1>4, <1>6, <2>1 DEF SpendIn, Spending
<1> QED  BY <1>5, <1>6

\* Nothing in no line, and one item alone.
LEMMA SpendAlone ==
  ASSUME NEW x \in Thing
  PROVE  SpendIn(<<>>) = 0 /\ SpendIn(<<x>>) = Spending(x) /\ <<x>> \in Seq(Thing)
<1>1. OfOp(<<>>, "spend_key") = {}
  BY DEF OfOp
<1>2. OfOp(<<x>>, "spend_key") = IF x.op = "spend_key" THEN {1} ELSE {}
  BY DEF OfOp
<1>3. SpendIn(<<>>) = 0
  BY <1>1, FS_EmptySet DEF SpendIn
<1>4. Cardinality({1}) = 1
  BY FS_Singleton
<1>5. SpendIn(<<x>>) = Spending(x)
  BY <1>2, <1>4, FS_EmptySet DEF SpendIn, Spending
<1>6. <<x>> \in Seq(Thing)
  OBVIOUS
<1> QED  BY <1>3, <1>5, <1>6

\* A tail has the spend of its line but for the head's.
LEMMA SpendTailed ==
  ASSUME NEW s \in Seq(Thing), s # <<>>
  PROVE  SpendIn(s) = Spending(Head(s)) + SpendIn(Tail(s))
<1>1. PICK t \in Seq(Thing) : t = Tail(s)
  BY Tailed
<1>2. /\ Head(s) = s[1] /\ Len(s) \in Nat /\ Len(s) >= 1 /\ Len(t) = Len(s) - 1
      /\ \A i \in 1..Len(t) : t[i] = s[i + 1] /\ i + 1 \in 1..Len(s)
      /\ DOMAIN t = 1..Len(t) /\ DOMAIN s = 1..Len(s)
  BY <1>1, Tailed
<1>3. PICK T, S : T = OfOp(t, "spend_key") /\ S = OfOp(s, "spend_key")
  OBVIOUS
<1>4. IsFiniteSet(T) /\ IsFiniteSet(S) /\ T \subseteq 1..Len(t) /\ S \subseteq 1..Len(s)
      /\ Cardinality(T) \in Nat /\ Cardinality(S) \in Nat
  BY <1>1, <1>3, SpendIsNat DEF SpendIn
<1>5. /\ \A i \in 1..Len(t) : i \in T <=> i + 1 \in S
      /\ 1 \in S <=> s[1].op = "spend_key"
  BY <1>2, <1>3 DEF OfOp
<1> DEFINE f == [i \in T |-> i + 1]
<1>6. ExistsBijection(T, S \ {1})
  <2>1. f \in [T -> S \ {1}] /\ \A i, j \in T : f[i] = f[j] => i = j
    BY <1>2, <1>4, <1>5
  <2>2. ASSUME NEW j \in S \ {1} PROVE \E i \in T : f[i] = j
    <3>1. j - 1 \in 1..Len(t) /\ (j - 1) + 1 = j
      BY <1>2, <1>4
    <3>2. j - 1 \in T
      BY <1>5, <3>1
    <3> QED  BY <3>1, <3>2
  <2> HIDE DEF f
  <2>3. f \in Bijection(T, S \ {1})
    BY <2>1, <2>2 DEF Bijection, Injection, IsInjective, Surjection
  <2> QED  BY <2>3 DEF ExistsBijection
<1>7. Cardinality(S \ {1}) = Cardinality(T)
  BY <1>4, <1>6, FS_Bijection
<1>8. Cardinality(S \ {1}) = IF 1 \in S THEN Cardinality(S) - 1 ELSE Cardinality(S)
  BY <1>4, FS_RemoveElement
<1>9. Cardinality(S) = Spending(s[1]) + Cardinality(T)
  BY <1>4, <1>5, <1>7, <1>8 DEF Spending
<1> QED  BY <1>1, <1>2, <1>3, <1>9 DEF SpendIn

\* A transaction counts its spend as spent or as lost.
LEMMA SpendTx ==
  ASSUME {spent, lost} \subseteq Int, NEW items \in Seq(Thing), ProcessBatch(items)
  PROVE  {spent', lost'} \subseteq Int /\ spent' + lost' = spent + lost + SpendIn(items)
<1>1. SpendIn(items) \in Nat
  BY SpendIsNat
<1> QED  BY <1>1 DEF ProcessBatch, SpendIn

\* Clients that do not put, or do not stop to, leave Putters as it is.
LEMMA PuttersFrame ==
  ASSUME \A d \in Client : (pc'[d] = "put" /\ job'[d].op = "spend_key")
                             <=> (pc[d] = "put" /\ job[d].op = "spend_key")
  PROVE  Putters' = Putters
  BY DEF Putters

\* The steps that move spend.
LEMMA RecordSpendSum ==
  ASSUME IInv, SInv, NEW c \in Client, RecordSpend(c) PROVE SInv'
<1>1. /\ DOMAIN pc = Client /\ DOMAIN job = Client /\ clock + 1 \in Nat /\ pc[c] = "idle"
      /\ UNCHANGED <<spent, lost, queue, batch>> /\ recorded' = recorded + 1
      /\ pc' = [pc EXCEPT ![c] = "put"] /\ job' = [job EXCEPT ![c] = Spend(clock + 1)]
  BY DEF IInv, Shapes, RecordSpend, Busy, Goto, Begin, storeVars
<1>2. Spend(clock + 1).op = "spend_key"
  BY DEF Spend
<1>3. Putters' = Putters \cup {c} /\ c \notin Putters
  BY <1>1, <1>2 DEF Putters
<1>4. IsFiniteSet(Putters') /\ Cardinality(Putters') = Cardinality(Putters) + 1
      /\ Cardinality(Putters) \in Nat
  BY <1>3, FS_AddElement, FS_CardinalityType DEF SInv
<1>5. SpendIn(queue) \in Nat /\ SpendIn(batch) \in Nat
  BY SpendIsNat DEF IInv, Shapes
<1>6. SpendIn(queue)' = SpendIn(queue) /\ SpendIn(batch)' = SpendIn(batch)
  BY <1>1 DEF SpendIn, OfOp
<1>7. Sum'
  BY <1>1, <1>4, <1>5, <1>6 DEF SInv, Sum
<1>8. \A d \in Client : pc'[d] = "write" => job'[d].op = "insert_cache"
  BY <1>1 DEF SInv
<1> QED  BY <1>1, <1>4, <1>7, <1>8 DEF SInv

\* An item goes from its client into the queue.
LEMMA PutSum ==
  ASSUME IInv, SInv, NEW c \in Client, Put(c) PROVE SInv'
<1>1. PICK it \in Thing : it = job[c]
  BY DEF IInv, Shapes
<1>2. PICK label \in {"join", "idle"} : pc' = [pc EXCEPT ![c] = label] /\ job' = [job EXCEPT ![c] = Stop]
  BY DEF Put, Busy, Goto, Done
<1>3. /\ DOMAIN pc = Client /\ DOMAIN job = Client /\ pc[c] = "put" /\ queue \in Seq(Thing)
      /\ UNCHANGED <<spent, lost, recorded, batch>> /\ queue' = Append(queue, it)
  BY <1>1 DEF IInv, Shapes, Put, Accept, storeVars
<1>4. Putters' = Putters \ {c} /\ (c \in Putters <=> it.op = "spend_key")
  BY <1>1, <1>2, <1>3 DEF Putters
<1>5. IsFiniteSet(Putters') /\ Cardinality(Putters') = Cardinality(Putters) - Spending(it)
      /\ Cardinality(Putters) \in Nat
  BY <1>4, FS_RemoveElement, FS_CardinalityType DEF SInv, Spending
<1>6. SpendIn(queue') = SpendIn(queue) + Spending(it)
  BY <1>3, SpendAppended
<1>7. SpendIn(queue) \in Nat /\ SpendIn(batch) \in Nat /\ Spending(it) \in Nat
  BY SpendIsNat DEF IInv, Shapes, Spending
<1>8. Sum'
  <2>1. SpendIn(batch') = SpendIn(batch)
    BY <1>3
  <2>2. /\ spent + lost + SpendIn(queue) + SpendIn(batch) + Cardinality(Putters) = recorded
        /\ {spent, lost, recorded} \subseteq Int
    BY DEF SInv, Sum
  <2>3. spent' + lost' + SpendIn(queue') + SpendIn(batch') + Cardinality(Putters') = recorded'
    BY <1>3, <1>5, <1>6, <1>7, <2>1, <2>2
  <2> QED  BY <2>3 DEF Sum, SpendIn, OfOp
<1>9. \A d \in Client : pc'[d] = "write" => job'[d].op = "insert_cache"
  BY <1>2, <1>3 DEF SInv
<1> QED  BY <1>3, <1>5, <1>8, <1>9 DEF SInv

\* Where the line keeps its spend and so do the clients, a transaction aside
\* that holds no spend changes nothing.
LEMMA SumFrame ==
  ASSUME IInv, SInv, recorded' = recorded, Putters' = Putters,
         {spent', lost'} \subseteq Int,
         spent' + lost' + SpendIn(queue') + SpendIn(batch')
           = spent + lost + SpendIn(queue) + SpendIn(batch),
         queue' \in Seq(Thing), batch' \in Seq(Thing),
         \A c \in Client : pc'[c] = "write" => job'[c].op = "insert_cache"
  PROVE  SInv'
<1>1. Cardinality(Putters) \in Nat
  BY FS_CardinalityType DEF SInv
<1>2. /\ SpendIn(queue) \in Nat /\ SpendIn(batch) \in Nat
      /\ SpendIn(queue') \in Nat /\ SpendIn(batch') \in Nat
  BY SpendIsNat DEF IInv, Shapes
<1>3. spent + lost + SpendIn(queue) + SpendIn(batch) + Cardinality(Putters) = recorded
      /\ {spent, lost, recorded} \subseteq Int
  BY DEF SInv, Sum
<1>4. Cardinality(Putters') = Cardinality(Putters)
  OBVIOUS
<1>5. spent' + lost' + SpendIn(queue') + SpendIn(batch') + Cardinality(Putters') = recorded'
  BY <1>1, <1>2, <1>3, <1>4
<1>6. Sum'
  BY <1>5 DEF Sum, SpendIn, OfOp
<1> QED  BY <1>3, <1>6 DEF SInv

\* Steps that move no spend.
LEMMA SpendAtRest ==
  ASSUME IInv, SInv, UNCHANGED <<spent, lost, recorded, queue, batch>>,
         \A d \in Client : (pc'[d] = "put" /\ job'[d].op = "spend_key")
                             <=> (pc[d] = "put" /\ job[d].op = "spend_key"),
         \A d \in Client : pc'[d] = "write" => job'[d].op = "insert_cache"
  PROVE  SInv'
<1>1. Putters' = Putters
  BY PuttersFrame
<1>2. queue' \in Seq(Thing) /\ batch' \in Seq(Thing) /\ {spent', lost'} \subseteq Int
  BY DEF IInv, Shapes, SInv
<1> QED  BY <1>1, <1>2, SumFrame

\* A write goes into the queue, or its client will write it.
LEMMA PersistSum ==
  ASSUME IInv, SInv, NEW c \in Client, NEW k \in Key, Persist(c, k) PROVE SInv'
<1>1. PICK it \in Thing : it = Write(clock + 1, k) /\ it.op = "insert_cache"
  BY Items DEF IInv, Shapes
<1>2. /\ UNCHANGED <<spent, lost, recorded, batch>> /\ pc[c] = "idle"
      /\ DOMAIN pc = Client /\ DOMAIN job = Client
  BY DEF Persist, Begin, storeVars, IInv, Shapes
<1>3. CASE queue' = Append(queue, it) /\ UNCHANGED <<pc, job>>
  <2>1. Putters' = Putters
    BY <1>3, PuttersFrame
  <2>2. queue' \in Seq(Thing) /\ batch' \in Seq(Thing) /\ queue \in Seq(Thing)
    BY <1>2, <1>3, Appended DEF IInv, Shapes
  <2>3. SpendIn(queue') = SpendIn(queue) + 0 /\ SpendIn(queue) \in Nat
    BY <1>1, <1>3, <2>2, SpendAppended, SpendIsNat DEF Spending
  <2>4. SpendIn(batch') = SpendIn(batch) /\ SpendIn(queue') = SpendIn(queue)
    BY <1>2, <2>3
  <2>5. spent' + lost' + SpendIn(queue') + SpendIn(batch')
          = spent + lost + SpendIn(queue) + SpendIn(batch)
    BY <1>2, <2>4
  <2> QED  BY <1>2, <1>3, <2>1, <2>2, <2>5, SumFrame DEF SInv
<1>4. CASE UNCHANGED queue /\ Busy(c, "write", it)
  <2>1. pc' = [pc EXCEPT ![c] = "write"] /\ job' = [job EXCEPT ![c] = it]
    BY <1>4 DEF Busy, Goto
  <2>2. \A d \in Client : (pc'[d] = "put" /\ job'[d].op = "spend_key")
                             <=> (pc[d] = "put" /\ job[d].op = "spend_key")
    BY <1>2, <2>1
  <2>3. \A d \in Client : pc'[d] = "write" => job'[d].op = "insert_cache"
    BY <1>1, <1>2, <2>1 DEF SInv
  <2> QED  BY <1>2, <1>4, <2>2, <2>3, SpendAtRest
<1> QED  BY <1>1, <1>3, <1>4 DEF Persist, Accept

\* A direct write and the DELETE after a flush hold no spend.
LEMMA DirectSum ==
  ASSUME IInv, SInv, NEW c \in Client, WriteNow(c) \/ AfterFlush(c) PROVE SInv'
<1>1. PICK it \in Thing : it = job[c]
  BY DEF IInv, Shapes
<1>2. it.op # "spend_key"
  BY <1>1 DEF WriteNow, AfterFlush, IInv, Jobs, JobOK, SInv
<1>3. /\ UNCHANGED <<queue, batch, recorded>> /\ pc[c] # "put"
      /\ pc' = [pc EXCEPT ![c] = "idle"] /\ job' = [job EXCEPT ![c] = Stop]
      /\ DOMAIN pc = Client /\ DOMAIN job = Client
  BY DEF WriteNow, AfterFlush, Done, Busy, Goto, IInv, Shapes
<1>4. {spent', lost'} \subseteq Int /\ spent' + lost' = spent + lost
  <2>1. CASE UNCHANGED <<spent, lost>>
    BY <2>1 DEF SInv
  <2>2. CASE ProcessBatch(<<it>>)
    <3>1. SpendIn(<<it>>) = 0 /\ <<it>> \in Seq(Thing)
      BY <1>2, SpendAlone DEF Spending
    <3>2. /\ {spent', lost'} \subseteq Int
          /\ spent' + lost' = spent + lost + SpendIn(<<it>>)
      BY <2>2, <3>1, SpendTx DEF SInv
    <3> QED  BY <3>1, <3>2 DEF SInv
  <2> QED  BY <1>1, <2>1, <2>2 DEF WriteNow, AfterFlush, storeVars
<1>5. Putters' = Putters
  <2>1. \A d \in Client : (pc'[d] = "put" /\ job'[d].op = "spend_key")
                             <=> (pc[d] = "put" /\ job[d].op = "spend_key")
    BY <1>3
  <2> QED  BY <2>1, PuttersFrame
<1>6. \A d \in Client : pc'[d] = "write" => job'[d].op = "insert_cache"
  BY <1>3 DEF SInv
<1>7. queue' \in Seq(Thing) /\ batch' \in Seq(Thing) /\ queue' = queue /\ batch' = batch
  BY <1>3 DEF IInv, Shapes
<1>8. spent' + lost' + SpendIn(queue') + SpendIn(batch')
        = spent + lost + SpendIn(queue) + SpendIn(batch)
  BY <1>4, <1>7
<1> QED  BY <1>3, <1>4, <1>5, <1>6, <1>7, <1>8, SumFrame

\* Flushes and close() hold no spend either.
LEMMA CallsSum ==
  ASSUME IInv, SInv, NEW c \in Client,
         \/ FlushFirst(c) \/ Close(c) \/ FlushEmpty(c) \/ FlushGivesUp(c)
         \/ Joined(c) \/ JoinGivesUp(c)
  PROVE  SInv'
<1>1. /\ UNCHANGED <<spent, lost, recorded, queue, batch>>
      /\ DOMAIN pc = Client /\ DOMAIN job = Client
  BY DEF FlushFirst, Close, FlushEmpty, FlushGivesUp, Joined, JoinGivesUp, storeVars,
         history, IInv, Shapes
<1>2. Stop.op = "stop"
  BY DEF Stop
<1>3. CASE Close(c)
  <2>1. PICK label \in {"closed", "put"} : Busy(c, label, Stop)
    BY <1>3 DEF Close
  <2>2. /\ pc' = [pc EXCEPT ![c] = label] /\ job' = [job EXCEPT ![c] = Stop]
        /\ pc[c] = "idle"
    BY <1>3, <2>1 DEF Close, Begin, Busy, Goto
  <2>3. \A d \in Client : (pc'[d] = "put" /\ job'[d].op = "spend_key")
                             <=> (pc[d] = "put" /\ job[d].op = "spend_key")
    BY <1>1, <1>2, <2>2
  <2>4. \A d \in Client : pc'[d] = "write" => job'[d].op = "insert_cache"
    BY <1>1, <2>2 DEF SInv
  <2> QED  BY <1>1, <2>3, <2>4, SpendAtRest
<1>4. CASE ~Close(c)
  <2>1. PICK label \in {"flush", "settle", "ready", "closed", "idle"} :
          pc' = [pc EXCEPT ![c] = label]
    BY <1>4 DEF FlushFirst, FlushEmpty, FlushGivesUp, Joined, JoinGivesUp, Busy, Goto
  <2>2. /\ pc[c] \notin {"put", "write"}
        /\ \A d \in Client \ {c} : job'[d] = job[d]
    BY <1>1, <1>4 DEF FlushFirst, FlushEmpty, FlushGivesUp, Joined, JoinGivesUp, Busy, Begin
  <2>3. \A d \in Client : (pc'[d] = "put" /\ job'[d].op = "spend_key")
                             <=> (pc[d] = "put" /\ job[d].op = "spend_key")
    BY <1>1, <2>1, <2>2
  <2>4. \A d \in Client : pc'[d] = "write" => job'[d].op = "insert_cache"
    BY <1>1, <2>1, <2>2 DEF SInv
  <2> QED  BY <1>1, <2>3, <2>4, SpendAtRest
<1> QED  BY <1>3, <1>4

\* Stop is no spend.
LEMMA StopSpendsNothing == Stop \in Thing /\ Spending(Stop) = 0
  BY DEF Stop, Thing, Spending

\* The worker takes an item: what the queue loses, its hand holds.
LEMMA TakeSum ==
  ASSUME IInv, SInv, Take PROVE SInv'
<1>1. queue \in Seq(Thing) /\ batch \in Seq(Thing) /\ queue # <<>> /\ queue' = Tail(queue)
  BY DEF Take, IInv, Shapes
<1>2. UNCHANGED <<spent, lost, recorded, pc, job>>
  BY DEF Take, clientVars, storeVars, history
<1>3. PICK x \in Thing : x = Head(queue)
  BY <1>1, Tailed
<1>4. queue' \in Seq(Thing) /\ SpendIn(queue) = Spending(x) + SpendIn(queue')
  BY <1>1, <1>3, Tailed, SpendTailed
<1>5. batch' \in Seq(Thing) /\ SpendIn(batch') = SpendIn(batch) + Spending(x)
  <2>1. CASE x = Stop
    <3>1. batch' = batch
      BY <1>3, <2>1 DEF Take
    <3>2. Spending(x) = 0 /\ SpendIn(batch) \in Nat
      BY <1>1, <2>1, StopSpendsNothing, SpendIsNat
    <3>3. SpendIn(batch') = SpendIn(batch)
      BY <3>1
    <3> QED  BY <1>1, <3>1, <3>2, <3>3
  <2>2. CASE x # Stop
    <3>1. batch' = Append(batch, x)
      BY <1>3, <2>2 DEF Take
    <3> QED  BY <1>1, <3>1, Appended, SpendAppended
  <2> QED  BY <2>1, <2>2
<1>6. /\ SpendIn(queue') \in Nat /\ SpendIn(batch') \in Nat /\ SpendIn(batch) \in Nat
      /\ Spending(x) \in Nat
  BY <1>1, <1>4, <1>5, SpendIsNat DEF Spending
<1>7. spent' + lost' + SpendIn(queue') + SpendIn(batch')
        = spent + lost + SpendIn(queue) + SpendIn(batch)
  BY <1>2, <1>4, <1>5, <1>6 DEF SInv
<1>8. Putters' = Putters
  BY <1>2 DEF Putters
<1> QED  BY <1>2, <1>4, <1>5, <1>7, <1>8, SumFrame DEF SInv

\* A batch counts once, as a whole, as spent or as lost.
LEMMA CommitSum ==
  ASSUME IInv, SInv, Commit PROVE SInv'
<1>1. queue \in Seq(Thing) /\ batch \in Seq(Thing) /\ DOMAIN pc = Client
  BY DEF IInv, Shapes
<1>2. /\ ProcessBatch(batch) /\ batch' = <<>> /\ UNCHANGED <<queue, recorded, job>>
      /\ pc' = [c \in Client |-> IF pc[c] = "settle" THEN "ready" ELSE pc[c]]
  BY DEF Commit, clientVars
<1>3. /\ {spent', lost'} \subseteq Int
      /\ spent' + lost' = spent + lost + SpendIn(batch)
  BY <1>1, <1>2, SpendTx DEF SInv
<1>4. SpendIn(batch') = 0 /\ batch' \in Seq(Thing) /\ SpendIn(queue') = SpendIn(queue)
  <2>1. batch' \in Seq(Thing) /\ SpendIn(queue') = SpendIn(queue)
    BY <1>2
  <2>2. SpendIn(<<>>) = 0
    BY StopSpendsNothing, SpendAlone
  <2> QED  BY <1>2, <2>1, <2>2
<1>5. SpendIn(queue) \in Nat /\ SpendIn(batch) \in Nat
  BY <1>1, SpendIsNat
<1>6. spent' + lost' + SpendIn(queue') + SpendIn(batch')
        = spent + lost + SpendIn(queue) + SpendIn(batch)
  BY <1>3, <1>4, <1>5 DEF SInv
<1>7. Putters' = Putters
  <2>1. \A d \in Client : (pc'[d] = "put" /\ job'[d].op = "spend_key")
                             <=> (pc[d] = "put" /\ job[d].op = "spend_key")
    BY <1>2
  <2> QED  BY <2>1, PuttersFrame
<1>8. \A d \in Client : pc'[d] = "write" => job'[d].op = "insert_cache"
  BY <1>2 DEF SInv
<1> QED  BY <1>1, <1>2, <1>3, <1>4, <1>6, <1>7, <1>8, SumFrame

\* So does each item of the final drain.
LEMMA DrainSum ==
  ASSUME IInv, SInv, Drain PROVE SInv'
<1>1. /\ queue \in Seq(Thing) /\ batch \in Seq(Thing) /\ queue # <<>> /\ queue' = Tail(queue)
      /\ UNCHANGED <<batch, recorded, pc, job>>
  BY DEF Drain, IInv, Shapes, clientVars
<1>2. PICK x \in Thing : x = Head(queue)
  BY <1>1, Tailed
<1>3. queue' \in Seq(Thing) /\ SpendIn(queue) = Spending(x) + SpendIn(queue')
  BY <1>1, <1>2, Tailed, SpendTailed
<1>4. Spending(x) \in Nat
  BY DEF Spending
<1>5. {spent', lost'} \subseteq Int /\ spent' + lost' = spent + lost + Spending(x)
  <2>1. CASE x = Stop
    <3>1. UNCHANGED <<spent, lost>>
      BY <1>2, <2>1 DEF Drain
    <3>2. Spending(x) = 0
      BY <2>1, StopSpendsNothing
    <3> QED  BY <3>1, <3>2 DEF SInv
  <2>2. CASE x # Stop
    <3>1. ProcessBatch(<<x>>)
      BY <1>2, <2>2 DEF Drain
    <3>2. SpendIn(<<x>>) = Spending(x) /\ <<x>> \in Seq(Thing)
      BY SpendAlone
    <3>3. /\ {spent', lost'} \subseteq Int
          /\ spent' + lost' = spent + lost + SpendIn(<<x>>)
      BY <3>1, <3>2, SpendTx DEF SInv
    <3> QED  BY <3>2, <3>3
  <2> QED  BY <2>1, <2>2
<1>6. /\ SpendIn(queue') \in Nat /\ SpendIn(batch) \in Nat
      /\ SpendIn(batch') = SpendIn(batch)
  BY <1>1, <1>3, SpendIsNat
<1>7. spent' + lost' + SpendIn(queue') + SpendIn(batch')
        = spent + lost + SpendIn(queue) + SpendIn(batch)
  BY <1>3, <1>4, <1>5, <1>6 DEF SInv
<1>8. Putters' = Putters
  BY <1>1 DEF Putters
<1> QED  BY <1>1, <1>3, <1>5, <1>7, <1>8, SumFrame DEF SInv

\* What was on its way goes down with the process.
LEMMA CrashSum ==
  ASSUME IInv, SInv, Crash PROVE SInv'
<1>1. /\ queue' = <<>> /\ batch' = <<>> /\ lost' = recorded - spent
      /\ UNCHANGED <<spent, recorded>> /\ \A c \in Client : pc'[c] = "idle"
  BY DEF Crash, storeVars
<1>2. Putters' = {}
  BY <1>1 DEF Putters
<1>3. IsFiniteSet(Putters') /\ Cardinality(Putters') = 0
  BY <1>2, FS_EmptySet
<1>4. SpendIn(queue') = 0 /\ SpendIn(batch') = 0
  BY <1>1, StopSpendsNothing, SpendAlone
<1>5. spent' + lost' + SpendIn(queue') + SpendIn(batch') + Cardinality(Putters') = recorded'
  BY <1>1, <1>3, <1>4 DEF SInv
<1>6. Sum'
  BY <1>5 DEF Sum, SpendIn, OfOp
<1> QED  BY <1>1, <1>3, <1>6 DEF SInv

\* Every step keeps the sum.
LEMMA NextSInv == IInv /\ SInv /\ [Next]_vars => SInv'
<1> SUFFICES ASSUME IInv, SInv, [Next]_vars PROVE SInv'
  OBVIOUS
<1>1. CASE UNCHANGED <<spent, lost, recorded, queue, batch, pc, job>>
  BY <1>1, SpendAtRest DEF SInv
<1>2. ASSUME NEW c \in Client, NEW k \in Key, Persist(c, k) PROVE SInv'
  BY <1>2, PersistSum
<1>3. ASSUME NEW c \in Client, RecordSpend(c) \/ FlushFirst(c) \/ Close(c) PROVE SInv'
  BY <1>3, RecordSpendSum, CallsSum
<1>4. ASSUME NEW c \in Client, ClientStep(c) PROVE SInv'
  BY <1>4, DirectSum, PutSum, CallsSum DEF ClientStep
<1>5. CASE Collected \/ LeaveLoop \/ Exit
  BY <1>1, <1>5 DEF Collected, LeaveLoop, Exit, clientVars, storeVars, history
<1>6. CASE WorkerStep
  BY <1>5, <1>6, TakeSum, CommitSum, DrainSum DEF WorkerStep
<1>7. CASE Crash
  BY <1>7, CrashSum
<1>8. CASE UNCHANGED vars
  BY <1>1, <1>8 DEF vars
<1> QED  BY <1>2, <1>3, <1>4, <1>6, <1>7, <1>8 DEF Next

----------------------------------------------------------------------------
(* Types *)

\* Lines of items, their lengths and the worker between them.
LinesOK ==
  /\ queue \in Seq(Item) /\ Len(queue) <= QueueMax
  /\ batch \in Seq(Item) /\ Len(batch) <= BatchMax
  /\ worker \in {"get", "collect", "commit", "drain", "exited"}
  /\ late \subseteq 0..MaxOps
\* Clients and what they remember.
Labels == {"idle", "write", "put", "flush", "settle", "ready", "join", "closed"}
CallsOK ==
  /\ pc \in [Client -> Labels] /\ job \in [Client -> Item]
  /\ awaited \in [Client -> SUBSET (1..MaxOps)] /\ overtaken \subseteq Key
\* The table.
TableOK == rows \in [Key -> 0..MaxOps] /\ gone \subseteq Key \X (1..MaxOps)
\* Every spend recorded is an operation called.
CountsOK ==
  /\ clock \in 0..MaxOps /\ recorded \in 0..clock
  /\ spent \in Nat /\ lost \in Nat
TInv == LinesOK /\ CallsOK /\ TableOK /\ CountsOK

\* The items the store makes.
LEMMA StopItem == ASSUME StoreAssumption PROVE Stop \in Item
<1>1. 0 \in 0..MaxOps
  BY DEF StoreAssumption
<1> QED  BY <1>1 DEF Stop, Item
LEMMA NewItems ==
  ASSUME StoreAssumption, NEW n \in 0..MaxOps, clock \in 0..MaxOps
  PROVE  /\ \A k \in Key : Write(n, k) \in Item
         /\ Spend(n) \in Item /\ Read(n) \in Item
         /\ \A scope \in Scopes : Delete(n, scope) \in Item
<1>1. \A k \in Key : Write(n, k) \in Item
  BY DEF Write, Item
<1>2. Spend(n) \in Item /\ Read(n) \in Item
  BY DEF Spend, Read, Item
<1>3. (1..clock) \ Writing \subseteq 1..MaxOps
  BY DEF StoreAssumption
<1>4. ASSUME NEW scope \in Scopes PROVE Delete(n, scope) \in Item
  <2>1. PICK cov : cov = IF running THEN (1..clock) \ Writing ELSE {}
    OBVIOUS
  <2>2. cov \in SUBSET (1..MaxOps) /\ scope \in SUBSET Key
    BY <1>3, <2>1 DEF StoreAssumption
  <2> QED  BY <2>1, <2>2 DEF Delete, Item
<1> QED  BY <1>1, <1>2, <1>4
LEMMA ItemsAreThings == ASSUME StoreAssumption PROVE Item \subseteq Thing
<1>1. 0..MaxOps \subseteq Nat /\ SUBSET (1..MaxOps) \subseteq SUBSET Nat
  BY DEF StoreAssumption
<1> QED  BY <1>1 DEF Item, Thing

\* What is in line was called.
LEMMA UnwrittenIds == ASSUME LinesOK PROVE Unwritten \subseteq 1..MaxOps
<1>1. \A i \in DOMAIN queue : queue[i] \in Item
  BY DEF LinesOK
<1>2. \A i \in DOMAIN batch : batch[i] \in Item
  BY DEF LinesOK
<1>3. Ids(queue) \subseteq 0..MaxOps /\ Ids(batch) \subseteq 0..MaxOps
  BY <1>1, <1>2 DEF Ids, Item
<1> QED  BY <1>3 DEF Unwritten

\* A transaction.
LEMMA TableTx ==
  ASSUME StoreAssumption, IInv, TableOK, NEW items \in Seq(Item), ProcessBatch(items)
  PROVE  TableOK' /\ (CountsOK /\ UNCHANGED <<clock, recorded>> => CountsOK')
<1>1. items \in Seq(Thing) /\ \A i \in 1..Len(items) : items[i] \in Item
  BY ItemsAreThings
<1>2. \A i \in 1..Len(items) : items[i].id \in 0..MaxOps
  BY <1>1 DEF Item
<1>3. rows' \in [Key -> 0..MaxOps]
  <2>1. \A k \in Key : rows[k] \in 0..MaxOps /\ 0 \in 0..MaxOps
    BY DEF TableOK, StoreAssumption
  <2>2. \A k \in Key : rows'[k] \in 0..MaxOps
    BY <1>1, <1>2, <2>1, BatchRows DEF IInv
  <2>3. rows' \in [Key -> Nat]
    BY <1>1, BatchRows DEF IInv
  <2> QED  BY <2>2, <2>3
<1>4. gone' \subseteq Key \X (1..MaxOps)
  <2>1. \A i \in DOMAIN items : items[i].keys \subseteq Key /\ items[i].covers \subseteq 1..MaxOps
    BY <1>1 DEF Item
  <2>2. UNION {items[i].keys \X items[i].covers : i \in DOMAIN items} \subseteq Key \X (1..MaxOps)
    BY <2>1
  <2> QED  BY <2>2 DEF ProcessBatch, TableOK
<1>5. CountsOK /\ UNCHANGED <<clock, recorded>> => CountsOK'
  <2>1. Cardinality(OfOp(items, "spend_key")) \in Nat
    BY <1>1, SpendIsNat DEF SpendIn
  <2> QED  BY <2>1 DEF ProcessBatch, CountsOK
<1> QED  BY <1>3, <1>4, <1>5 DEF TableOK

\* A client goes somewhere with an item.
LEMMA BusyType ==
  ASSUME CallsOK, NEW c \in Client, NEW label \in Labels, NEW it \in Item, Busy(c, label, it),
         awaited' \in [Client -> SUBSET (1..MaxOps)], overtaken' \subseteq Key
  PROVE  CallsOK'
  BY DEF CallsOK, Busy, Goto
LEMMA GotoType ==
  ASSUME CallsOK, NEW c \in Client, NEW label \in Labels, Goto(c, label), UNCHANGED <<job, awaited, overtaken>>
  PROVE  CallsOK'
  BY DEF CallsOK, Goto
\* A call is counted.
LEMMA BeginType ==
  ASSUME StoreAssumption, CountsOK, NEW c, NEW op, Begin(c, op), UNCHANGED <<spent, lost>>,
         recorded' \in {recorded, recorded + 1}
  PROVE  CountsOK' /\ clock + 1 \in 0..MaxOps /\ clock \in 0..MaxOps
<1>1. clock \in Nat /\ MaxOps \in Nat /\ clock < MaxOps /\ clock' = clock + 1 /\ recorded \in 0..clock
  BY DEF Begin, CountsOK, StoreAssumption
<1>2. recorded' \in 0..clock' /\ clock' \in 0..MaxOps
  BY <1>1
<1> QED  BY <1>1, <1>2 DEF CountsOK
\* An item is accepted.
LEMMA AcceptType ==
  ASSUME StoreAssumption, LinesOK, NEW it \in Item, Accept(it), Len(queue) < QueueMax,
         UNCHANGED <<batch, worker>>
  PROVE  LinesOK'
<1>1. queue' \in Seq(Item) /\ Len(queue') <= QueueMax
  BY DEF Accept, LinesOK, StoreAssumption
<1>2. it.id \in 0..MaxOps
  BY DEF Item
<1> QED  BY <1>1, <1>2 DEF LinesOK, Accept
\* Parts a step leaves alone.
LEMMA TypeFrame ==
  ASSUME TInv, UNCHANGED <<queue, batch, worker, late>> \/ LinesOK',
         UNCHANGED <<pc, job, awaited, overtaken>> \/ CallsOK',
         UNCHANGED <<rows, gone>> \/ TableOK', UNCHANGED <<clock, recorded, spent, lost>> \/ CountsOK'
  PROVE  TInv'
<1>1. LinesOK' /\ CallsOK'
  BY DEF TInv, LinesOK, CallsOK
<1>2. TableOK' /\ CountsOK'
  BY DEF TInv, TableOK, CountsOK
<1> QED  BY <1>1, <1>2 DEF TInv

\* Calls that begin.
LEMMA CallsType ==
  ASSUME StoreAssumption, TInv, NEW c \in Client,
         (\E k \in Key : Persist(c, k)) \/ RecordSpend(c) \/ FlushFirst(c) \/ Close(c)
  PROVE  TInv'
<1>1. LinesOK /\ CallsOK /\ CountsOK
  BY DEF TInv
<1>2. ASSUME NEW k \in Key, Persist(c, k) PROVE TInv'
  <2>1. CountsOK' /\ clock + 1 \in 0..MaxOps /\ clock \in 0..MaxOps
    BY <1>1, <1>2, BeginType DEF Persist, storeVars
  <2>2. PICK it \in Item : it = Write(clock + 1, k)
    BY <2>1, NewItems
  <2>3. UNCHANGED <<batch, worker, rows, gone, awaited>>
    BY <1>2 DEF Persist, storeVars
  <2>4. CASE Len(queue) < QueueMax /\ Accept(it) /\ UNCHANGED <<pc, job, overtaken>>
    <3>1. LinesOK'
      BY <1>1, <2>3, <2>4, AcceptType
    <3> QED  BY <2>1, <2>3, <2>4, <3>1, TypeFrame
  <2>5. CASE Busy(c, "write", it) /\ overtaken' = overtaken \union {k} /\ UNCHANGED <<queue, late>>
    <3>1. CallsOK'
      BY <1>1, <2>3, <2>5, BusyType DEF Labels, CallsOK
    <3> QED  BY <2>1, <2>3, <2>5, <3>1, TypeFrame
  <2> QED  BY <1>2, <2>2, <2>4, <2>5 DEF Persist
<1>3. ASSUME RecordSpend(c) PROVE TInv'
  <2>1. CountsOK' /\ clock + 1 \in 0..MaxOps /\ clock \in 0..MaxOps
    BY <1>1, <1>3, BeginType DEF RecordSpend, storeVars
  <2>2. Spend(clock + 1) \in Item
    BY <2>1, NewItems
  <2>3. CallsOK'
    BY <1>1, <1>3, <2>2, BusyType DEF RecordSpend, Labels, CallsOK
  <2> QED  BY <1>3, <2>1, <2>3, TypeFrame DEF RecordSpend, storeVars
<1>4. ASSUME FlushFirst(c) PROVE TInv'
  <2>1. CountsOK' /\ clock + 1 \in 0..MaxOps /\ clock \in 0..MaxOps
    BY <1>1, <1>4, BeginType DEF FlushFirst, storeVars
  <2>2. PICK label : label = IF running THEN "flush" ELSE "ready"
    OBVIOUS
  <2>3. \E it \in Item : Busy(c, label, it)
    BY <1>4, <2>1, <2>2, NewItems DEF FlushFirst
  <2>4. awaited' \in [Client -> SUBSET (1..MaxOps)]
    BY <1>1, <1>4, UnwrittenIds DEF FlushFirst, CallsOK
  <2>5. overtaken' \subseteq Key /\ label \in Labels
    BY <1>1, <1>4, <2>2 DEF FlushFirst, CallsOK, Labels
  <2>6. CallsOK'
    BY <1>1, <2>3, <2>4, <2>5, BusyType
  <2> QED  BY <1>4, <2>1, <2>6, TypeFrame DEF FlushFirst, storeVars
<1>5. ASSUME Close(c) PROVE TInv'
  <2>1. UNCHANGED <<queue, batch, worker, late, rows, gone, recorded, spent, lost, awaited, overtaken>>
    BY <1>5 DEF Close, storeVars, history
  <2>2. CountsOK'
    BY <1>1, <1>5, <2>1, BeginType DEF Close
  <2>3. CallsOK'
    BY <1>1, <1>5, <2>1, StopItem, BusyType DEF Close, Labels, CallsOK
  <2> QED  BY <2>1, <2>2, <2>3, TypeFrame
<1> QED  BY <1>2, <1>3, <1>4, <1>5

\* Clients on their way through a call.
LEMMA ClientsType ==
  ASSUME StoreAssumption, IInv, TInv, NEW c \in Client, ClientStep(c)
  PROVE  TInv'
<1>1. LinesOK /\ CallsOK /\ CountsOK /\ TableOK /\ Stop \in Item
  BY StopItem DEF TInv
<1>2. PICK it \in Item : it = job[c]
  BY <1>1 DEF CallsOK
<1>3. <<it>> \in Seq(Item)
  OBVIOUS
<1>4. CASE WriteNow(c)
  <2>1. ProcessBatch(<<it>>) /\ UNCHANGED <<queue, batch, worker, late, clock, recorded, awaited, overtaken>>
    BY <1>2, <1>4 DEF WriteNow
  <2>2. TableOK' /\ CountsOK'
    BY <1>1, <1>3, <2>1, TableTx
  <2>3. CallsOK'
    BY <1>1, <1>4, <2>1, BusyType DEF WriteNow, Done, Labels, CallsOK
  <2> QED  BY <2>1, <2>2, <2>3, TypeFrame
<1>5. CASE Put(c)
  <2>1. UNCHANGED <<batch, worker, rows, gone, clock, recorded, spent, lost, awaited, overtaken>>
    BY <1>5 DEF Put, storeVars
  <2>2. LinesOK'
    BY <1>1, <1>2, <1>5, <2>1, AcceptType DEF Put
  <2>3. CallsOK'
    BY <1>1, <1>5, <2>1, BusyType DEF Put, Done, Labels, CallsOK
  <2> QED  BY <2>1, <2>2, <2>3, TypeFrame
<1>6. CASE FlushEmpty(c) \/ Joined(c) \/ JoinGivesUp(c)
  <2>1. UNCHANGED <<queue, batch, worker, late, rows, gone, clock, recorded, spent, lost, job,
                    awaited, overtaken>>
    BY <1>6 DEF FlushEmpty, Joined, JoinGivesUp, storeVars, history
  <2>2. \E label \in Labels : Goto(c, label)
    BY <1>6 DEF FlushEmpty, Joined, JoinGivesUp, Labels
  <2>3. CallsOK'
    BY <1>1, <2>1, <2>2, GotoType
  <2> QED  BY <2>1, <2>3, TypeFrame
<1>7. CASE FlushGivesUp(c)
  <2>1. UNCHANGED <<queue, batch, worker, late, rows, gone, clock, recorded, spent, lost,
                    awaited, overtaken>>
    BY <1>7 DEF FlushGivesUp, storeVars, history
  <2>2. PICK bare : bare = [it EXCEPT !.covers = {}]
    OBVIOUS
  <2>3. bare \in Item
    <3>1. {} \in SUBSET (1..MaxOps)
      OBVIOUS
    <3> QED  BY <2>2, <3>1 DEF Item
  <2>4. Busy(c, "ready", bare)
    BY <1>1, <1>2, <1>7, <2>2 DEF FlushGivesUp, Busy, CallsOK
  <2>5. CallsOK'
    BY <1>1, <2>1, <2>3, <2>4, BusyType DEF Labels, CallsOK
  <2> QED  BY <2>1, <2>5, TypeFrame
<1>8. CASE AfterFlush(c)
  <2>1. UNCHANGED <<queue, batch, worker, late, clock, recorded, overtaken>>
    BY <1>8 DEF AfterFlush
  <2>2. ProcessBatch(<<it>>) \/ UNCHANGED <<rows, spent, gone, lost>>
    BY <1>2, <1>8 DEF AfterFlush, storeVars
  <2>3. UNCHANGED <<rows, gone>> \/ TableOK'
    BY <1>1, <1>3, <2>2, TableTx
  <2>4. UNCHANGED <<clock, recorded, spent, lost>> \/ CountsOK'
    BY <1>1, <1>3, <2>1, <2>2, TableTx
  <2>5. awaited' \in [Client -> SUBSET (1..MaxOps)]
    BY <1>1, <1>8 DEF AfterFlush, CallsOK
  <2>6. CallsOK'
    BY <1>1, <1>8, <2>1, <2>5, BusyType DEF AfterFlush, Done, Labels, CallsOK
  <2> QED  BY <2>1, <2>3, <2>4, <2>6, TypeFrame
<1> QED  BY <1>4, <1>5, <1>6, <1>7, <1>8 DEF ClientStep

\* The worker.
LEMMA WorkerType ==
  ASSUME StoreAssumption, IInv, TInv, WorkerStep PROVE TInv'
<1>1. LinesOK /\ CallsOK /\ CountsOK /\ TableOK /\ queue \in Seq(Item) /\ batch \in Seq(Item)
      /\ QueueMax \in Nat \ {0} /\ BatchMax \in Nat \ {0} /\ running \in BOOLEAN
  BY DEF TInv, LinesOK, StoreAssumption, IInv, Shapes
<1>2. queue # <<>> => /\ Head(queue) \in Item /\ Tail(queue) \in Seq(Item)
                      /\ Len(Tail(queue)) <= QueueMax
  BY <1>1, Tailed DEF LinesOK
<1>3. CASE Take
  <2>1. UNCHANGED <<pc, job, awaited, overtaken, rows, gone, clock, recorded, spent, lost, late>>
    BY <1>3 DEF Take, clientVars, storeVars, history
  <2>2. queue' \in Seq(Item) /\ Len(queue') <= QueueMax
    BY <1>2, <1>3 DEF Take
  <2>3. batch' \in Seq(Item) /\ Len(batch') <= BatchMax
    <3>1. Len(batch) \in Nat /\ Len(batch) < BatchMax /\ Head(queue) \in Item
      BY <1>1, <1>2, <1>3 DEF Take
    <3>2. CASE batch' = batch
      BY <1>1, <3>1, <3>2
    <3>3. CASE batch' = Append(batch, Head(queue))
      BY <1>1, <3>1, <3>3
    <3> QED  BY <1>3, <3>2, <3>3 DEF Take
  <2>4. LinesOK'
    BY <1>1, <1>3, <2>1, <2>2, <2>3 DEF Take, WorkerGoto, LinesOK
  <2> QED  BY <2>1, <2>4, TypeFrame
<1>4. CASE Collected \/ LeaveLoop \/ Exit
  <2>1. UNCHANGED <<pc, job, awaited, overtaken, rows, gone, clock, recorded, spent, lost, late, queue, batch>>
    BY <1>4 DEF Collected, LeaveLoop, Exit, clientVars, storeVars, history
  <2>2. LinesOK'
    BY <1>1, <1>4, <2>1 DEF Collected, LeaveLoop, Exit, WorkerGoto, LinesOK
  <2> QED  BY <2>1, <2>2, TypeFrame
<1>5. CASE Commit
  <2>1. ProcessBatch(batch) /\ UNCHANGED <<queue, job, awaited, overtaken, clock, recorded, late>>
    BY <1>5 DEF Commit, clientVars
  <2>2. TableOK' /\ CountsOK'
    BY <1>1, <2>1, TableTx
  <2>3. <<>> \in Seq(Item) /\ Len(<<>>) = 0
    OBVIOUS
  <2>4. LinesOK'
    BY <1>1, <1>5, <2>1, <2>3 DEF Commit, WorkerGoto, LinesOK
  <2>5. CallsOK'
    BY <1>1, <1>5, <2>1 DEF Commit, CallsOK, Labels
  <2> QED  BY <2>2, <2>4, <2>5, TypeFrame
<1>6. CASE Drain
  <2>1. UNCHANGED <<pc, job, awaited, overtaken, clock, recorded, late, batch, worker>>
    BY <1>6 DEF Drain, clientVars
  <2>2. ProcessBatch(<<Head(queue)>>) \/ UNCHANGED <<rows, spent, gone, lost>>
    BY <1>6 DEF Drain
  <2>3. <<Head(queue)>> \in Seq(Item)
    BY <1>2, <1>6 DEF Drain
  <2>4. UNCHANGED <<rows, gone>> \/ TableOK'
    BY <1>1, <2>2, <2>3, TableTx
  <2>5. UNCHANGED <<clock, recorded, spent, lost>> \/ CountsOK'
    BY <1>1, <2>1, <2>2, <2>3, TableTx
  <2>6. LinesOK'
    BY <1>1, <1>2, <1>6, <2>1 DEF Drain, LinesOK
  <2> QED  BY <2>1, <2>4, <2>5, <2>6, TypeFrame
<1> QED  BY <1>3, <1>4, <1>5, <1>6 DEF WorkerStep

\* A crash loses what was on its way: no more than was recorded.
LEMMA CrashType ==
  ASSUME StoreAssumption, IInv, SInv, TInv, Crash PROVE TInv'
<1>1. UNCHANGED <<rows, gone, clock, late, recorded, overtaken, spent>> /\ lost' = recorded - spent
  BY DEF Crash, storeVars
<1>2. LinesOK'
  <2>1. <<>> \in Seq(Item) /\ Len(<<>>) = 0
    OBVIOUS
  <2> QED  BY <1>1, <2>1 DEF Crash, LinesOK, TInv, StoreAssumption
<1>3. CallsOK'
  BY <1>1, StopItem DEF Crash, CallsOK, TInv, Labels
<1>4. CountsOK'
  <2>1. SpendIn(queue) \in Nat /\ SpendIn(batch) \in Nat
    BY SpendIsNat DEF IInv, Shapes
  <2>2. Cardinality(Putters) \in Nat
    BY FS_CardinalityType DEF SInv
  <2>3. spent \in Nat /\ lost \in Nat /\ recorded \in Nat
    BY DEF TInv, CountsOK
  <2>4. recorded - spent \in Nat
    BY <2>1, <2>2, <2>3 DEF SInv, Sum
  <2> QED  BY <1>1, <2>4 DEF TInv, CountsOK
<1> QED  BY <1>1, <1>2, <1>3, <1>4, TypeFrame

\* Every step keeps the types.
LEMMA NextTInv == StoreAssumption /\ IInv /\ SInv /\ TInv /\ [Next]_vars => TInv'
<1> SUFFICES ASSUME StoreAssumption, IInv, SInv, TInv, [Next]_vars PROVE TInv'
  OBVIOUS
<1>1. CASE Next
  BY <1>1, CallsType, ClientsType, WorkerType, CrashType DEF Next
<1>2. CASE UNCHANGED vars
  BY <1>2, TypeFrame DEF vars
<1> QED  BY <1>1, <1>2

----------------------------------------------------------------------------
(* What the line holds *)

\* What queues is a write, a spend or the None of close(), which is there once;
\* what goes past the queue writes one row.
Kind == {"insert_cache", "spend_key", "stop"}
Kinds ==
  /\ \A i \in 1..Len(queue) : queue[i].op \in Kind
  /\ \A i \in 1..Len(batch) : batch[i].op \in Kind
  /\ \A c \in Client : pc[c] = "put" => job[c].op \in {"spend_key", "stop"}
  /\ \A c \in Client : pc[c] = "write" =>
       job[c].op = "insert_cache" /\ \E k \in Key : job[c].keys = {k}
OneStop ==
  /\ \A i, j \in 1..Len(queue) : queue[i] = Stop /\ queue[j] = Stop => i = j
  /\ \A c, d \in Client :
       pc[c] = "put" /\ job[c] = Stop /\ pc[d] = "put" /\ job[d] = Stop => c = d
  /\ \A c \in Client : pc[c] = "put" /\ job[c] = Stop =>
       \A i \in 1..Len(queue) : queue[i] # Stop
RInv == Kinds /\ OneStop

\* A client goes on; it may bring the None of close() if the store is open.
LEMMA KindsFrame ==
  ASSUME IInv, RInv, NEW c \in Client, NEW label, NEW it,
         pc' = [pc EXCEPT ![c] = label], job' = [job EXCEPT ![c] = it],
         UNCHANGED <<queue, batch>>,
         label = "put" => it.op \in {"spend_key", "stop"} /\ (it = Stop => running),
         label = "write" => it.op = "insert_cache" /\ \E k \in Key : it.keys = {k}
  PROVE  RInv'
<1>1. DOMAIN pc = Client /\ DOMAIN job = Client
  BY DEF IInv, Shapes
<1>2. \A d \in Client : \/ d = c /\ pc'[d] = label /\ job'[d] = it
                        \/ d # c /\ pc'[d] = pc[d] /\ job'[d] = job[d]
  BY <1>1
<1>3. Kinds'
  BY <1>2 DEF RInv, Kinds
<1>4. running => /\ \A i \in 1..Len(queue) : queue[i] # Stop
                 /\ \A d \in Client : ~(pc[d] = "put" /\ job[d] = Stop)
  BY DEF IInv, Closing, Jobs, JobOK
<1>5. OneStop'
  BY <1>2, <1>4 DEF RInv, OneStop
<1> QED  BY <1>3, <1>5 DEF RInv
\* Nobody goes anywhere to write or to put, and nothing comes into the line.
LEMMA KindsStay ==
  ASSUME IInv, RInv,
         \A d \in Client : pc'[d] \in {"put", "write"} => pc'[d] = pc[d] /\ job'[d] = job[d],
         \A i \in 1..Len(batch') :
           (\E j \in 1..Len(batch) : batch'[i] = batch[j]) \/ batch'[i].op \in Kind,
         \/ queue' = queue \/ queue' = <<>> \/ (queue # <<>> /\ queue' = Tail(queue))
  PROVE  RInv'
<1>1. queue \in Seq(Thing)
  BY DEF IInv, Shapes
<1>2. CASE queue' = queue \/ queue' = <<>>
  BY <1>2 DEF RInv, Kinds, OneStop
<1>3. CASE queue # <<>> /\ queue' = Tail(queue)
  <2>1. /\ Len(queue) \in Nat /\ Len(queue') = Len(queue) - 1
        /\ \A i \in 1..Len(queue') : queue'[i] = queue[i + 1] /\ i + 1 \in 1..Len(queue)
    BY <1>1, <1>3, Tailed
  <2>2. Kinds'
    BY <2>1 DEF RInv, Kinds
  <2>3. ASSUME NEW i \in 1..Len(queue'), NEW j \in 1..Len(queue'), queue'[i] = Stop, queue'[j] = Stop
        PROVE  i = j
    <3>1. i + 1 = j + 1
      BY <2>1, <2>3 DEF RInv, OneStop
    <3> QED  BY <2>1, <3>1
  <2>4. OneStop'
    BY <2>1, <2>3 DEF RInv, OneStop
  <2> QED  BY <2>2, <2>4 DEF RInv
<1> QED  BY <1>2, <1>3
\* An item comes into the line: not the None of close() unless a client brings it.
LEMMA KindsQueued ==
  ASSUME IInv, RInv, NEW it \in Thing, queue' = Append(queue, it), batch' = batch,
         it.op \in Kind,
         \A d \in Client : pc'[d] \in {"put", "write"} => pc'[d] = pc[d] /\ job'[d] = job[d],
         it = Stop => \E c \in Client : pc[c] = "put" /\ job[c] = Stop /\ pc'[c] # "put"
  PROVE  RInv'
<1>1. queue \in Seq(Thing)
  BY DEF IInv, Shapes
<1>2. /\ Len(queue') = Len(queue) + 1 /\ Len(queue) \in Nat
      /\ \A i \in 1..Len(queue) : queue'[i] = queue[i]
      /\ queue'[Len(queue) + 1] = it
  BY <1>1, Appended
<1>3. \A i \in 1..Len(queue') : i \in 1..Len(queue) \/ i = Len(queue) + 1
  BY <1>2
<1>4. Kinds'
  BY <1>2, <1>3 DEF RInv, Kinds
<1>5. ASSUME it # Stop PROVE OneStop'
  BY <1>2, <1>3, <1>5 DEF RInv, OneStop
<1>6. ASSUME it = Stop PROVE OneStop'
  <2>1. PICK c \in Client : pc[c] = "put" /\ job[c] = Stop /\ pc'[c] # "put"
    BY <1>6
  <2>2. \A i \in 1..Len(queue) : queue[i] # Stop
    BY <2>1 DEF RInv, OneStop
  <2>3. \A d \in Client : ~(pc'[d] = "put" /\ job'[d] = Stop)
    BY <2>1 DEF RInv, OneStop
  <2> QED  BY <1>2, <1>3, <1>6, <2>2, <2>3 DEF OneStop
<1> QED  BY <1>4, <1>5, <1>6 DEF RInv

\* Calls that begin, and a client's item that is put.
LEMMA CallsKinds ==
  ASSUME IInv, RInv, NEW c \in Client,
         (\E k \in Key : Persist(c, k)) \/ RecordSpend(c) \/ FlushFirst(c) \/ Close(c) \/ Put(c)
  PROVE  RInv'
<1>1. clock \in Nat /\ clock + 1 \in Nat /\ DOMAIN pc = Client /\ DOMAIN job = Client
      /\ Stop.op = "stop"
  BY DEF IInv, Shapes, Stop
<1>2. ASSUME NEW k \in Key, Persist(c, k) PROVE RInv'
  <2>1. PICK it \in Thing : it = Write(clock + 1, k) /\ it.op = "insert_cache" /\ it.keys = {k}
    BY <1>1, Items
  <2>2. CASE Accept(it) /\ UNCHANGED <<pc, job>>
    BY <1>1, <1>2, <2>1, <2>2, KindsQueued DEF Persist, Accept, Kind
  <2>3. CASE Busy(c, "write", it) /\ UNCHANGED queue
    BY <1>2, <2>1, <2>3, KindsFrame DEF Persist, Busy, Goto
  <2> QED  BY <1>2, <2>1, <2>2, <2>3 DEF Persist
<1>3. ASSUME RecordSpend(c) PROVE RInv'
  <2>1. PICK it : it = Spend(clock + 1)
    OBVIOUS
  <2>2. it.op = "spend_key" /\ it # Stop
    BY <1>1, <2>1 DEF Spend
  <2> QED  BY <1>3, <2>1, <2>2, KindsFrame DEF RecordSpend, Busy, Goto
<1>4. ASSUME FlushFirst(c) PROVE RInv'
  <2>1. PICK label, it : Busy(c, label, it) /\ label \notin {"put", "write"}
    BY <1>4 DEF FlushFirst
  <2> QED  BY <1>4, <2>1, KindsFrame DEF FlushFirst, Busy, Goto
<1>5. ASSUME Close(c) PROVE RInv'
  <2>1. PICK label : Busy(c, label, Stop) /\ label \in {"put", "closed"}
    BY <1>5 DEF Close
  <2> QED  BY <1>1, <1>5, <2>1, KindsFrame DEF Close, Busy, Goto
<1>6. ASSUME Put(c) PROVE RInv'
  <2>1. PICK it \in Thing : it = job[c]
    BY DEF IInv, Shapes
  <2>2. it.op \in Kind
    BY <1>6, <2>1 DEF Put, RInv, Kinds, Kind
  <2>3. Busy(c, "join", Stop) \/ Busy(c, "idle", Stop)
    BY <1>6 DEF Put, Done
  <2>4. pc'[c] # "put" /\ \A d \in Client : pc'[d] \in {"put", "write"} => pc'[d] = pc[d] /\ job'[d] = job[d]
    BY <1>1, <2>3 DEF Busy, Goto
  <2> QED  BY <1>6, <2>1, <2>2, <2>4, KindsQueued DEF Put, Accept
<1> QED  BY <1>2, <1>3, <1>4, <1>5, <1>6

\* Every step keeps the kinds.
LEMMA NextRInv == IInv /\ RInv /\ [Next]_vars => RInv'
<1> SUFFICES ASSUME IInv, RInv, [Next]_vars PROVE RInv'
  OBVIOUS
<1>1. DOMAIN pc = Client /\ DOMAIN job = Client /\ batch \in Seq(Thing) /\ queue \in Seq(Thing)
  BY DEF IInv, Shapes
<1>2. ASSUME NEW c \in Client, ClientStep(c), ~Put(c) PROVE RInv'
  <2>1. UNCHANGED <<queue, batch>>
    BY <1>2 DEF ClientStep, WriteNow, FlushEmpty, FlushGivesUp, AfterFlush, Joined, JoinGivesUp
  <2>2. \A d \in Client : pc'[d] \in {"put", "write"} => pc'[d] = pc[d] /\ job'[d] = job[d]
    BY <1>1, <1>2 DEF ClientStep, WriteNow, FlushEmpty, FlushGivesUp, AfterFlush, Joined, JoinGivesUp,
                      Done, Busy, Goto
  <2> QED  BY <2>1, <2>2, KindsStay
<1>3. CASE Take
  <2>1. UNCHANGED <<pc, job>> /\ queue # <<>> /\ queue' = Tail(queue)
    BY <1>3 DEF Take, clientVars
  <2>2. Head(queue) = queue[1] /\ 1 \in 1..Len(queue) /\ Head(queue) \in Thing
    BY <1>1, <2>1, Tailed
  <2>3. Head(queue).op \in Kind
    BY <2>2 DEF RInv, Kinds
  <2>4. batch' = batch \/ batch' = Append(batch, Head(queue))
    BY <1>3 DEF Take
  <2>5. \A i \in 1..Len(batch') :
           (\E j \in 1..Len(batch) : batch'[i] = batch[j]) \/ batch'[i].op \in Kind
    <3>1. CASE batch' = Append(batch, Head(queue))
      <4>1. /\ Len(batch') = Len(batch) + 1 /\ Len(batch) \in Nat
            /\ \A i \in 1..Len(batch) : batch'[i] = batch[i]
            /\ batch'[Len(batch) + 1] = Head(queue)
        BY <1>1, <2>2, <3>1, Appended
      <4>2. \A i \in 1..Len(batch') : i \in 1..Len(batch) \/ i = Len(batch) + 1
        BY <4>1
      <4> QED  BY <2>3, <4>1, <4>2
    <3> QED  BY <2>4, <3>1
  <2> QED  BY <2>1, <2>5, KindsStay
<1>4. CASE Collected \/ LeaveLoop \/ Exit
  <2>1. UNCHANGED <<pc, job, queue, batch>>
    BY <1>4 DEF Collected, LeaveLoop, Exit, clientVars
  <2> QED  BY <2>1, KindsStay
<1>5. CASE Commit \/ Drain \/ Crash
  <2>1. \A d \in Client : pc'[d] \in {"put", "write"} => pc'[d] = pc[d] /\ job'[d] = job[d]
    BY <1>5 DEF Commit, Drain, Crash, clientVars
  <2>2. batch' = batch \/ batch' = <<>>
    BY <1>5 DEF Commit, Drain, Crash
  <2>3. queue' = queue \/ queue' = <<>> \/ (queue # <<>> /\ queue' = Tail(queue))
    BY <1>5 DEF Commit, Drain, Crash
  <2> QED  BY <2>1, <2>2, <2>3, KindsStay
<1>6. CASE UNCHANGED vars
  BY <1>6, KindsStay DEF vars
<1> QED  BY <1>2, <1>3, <1>4, <1>5, <1>6, CallsKinds DEF Next, WorkerStep, ClientStep

----------------------------------------------------------------------------
(* The line of WriteBehind *)

\* Lists of the same length with the same items are the same.
LEMMA SameList ==
  ASSUME NEW S, NEW s \in Seq(S), NEW t \in Seq(S), Len(s) = Len(t),
         \A i \in 1..Len(s) : s[i] = t[i]
  PROVE  s = t
  OBVIOUS

\* e is in q at most once.
Once(q, e) == \A i, j \in 1..Len(q) : q[i] = e /\ q[j] = e => i = j
\* r is q without what is at i.
Without(q, i, r) ==
  /\ Len(r) = Len(q) - 1
  /\ \A j \in 1..(i - 1) : r[j] = q[j]
  /\ \A j \in i..(Len(q) - 1) : r[j] = q[j + 1]

\* The queue without the None of close(), if that is at i.
LEMMA Removed ==
  ASSUME NEW S, NEW q \in Seq(S), NEW e, NEW i \in 1..Len(q), q[i] = e, Once(q, e),
         NEW r, r = RemoveFirst(q, e)
  PROVE  r \in Seq(S) /\ Without(q, i, r)
<1>1. {j \in 1..Len(q) : q[j] = e} = {i}
  BY DEF Once
<1>2. Min({i}) = i
  BY DEF Min
<1>3. SelectInSeq(q, LAMBDA v : v = e) = i
  BY <1>1, <1>2 DEF SelectInSeq
<1>4. PICK a, b : a = SubSeq(q, 1, i - 1) /\ b = SubSeq(q, i + 1, Len(q))
  OBVIOUS
<1>5. RemoveFirst(q, e) = a \o b
  BY <1>3, <1>4 DEF RemoveFirst, RemoveAt
<1>6. /\ a \in Seq(S) /\ Len(a) = i - 1 /\ \A j \in 1..(i - 1) : a[j] = q[j]
      /\ Len(q) \in Nat /\ i \in Nat
  BY <1>4
<1>7. /\ b \in Seq(S) /\ Len(b) = Len(q) - i /\ \A j \in 1..(Len(q) - i) : b[j] = q[j + i]
  BY <1>4
<1>8. r = a \o b
  BY <1>5
<1>9. r \in Seq(S) /\ Len(r) = Len(q) - 1
  BY <1>6, <1>7, <1>8
<1>10. ASSUME NEW j \in 1..(i - 1) PROVE r[j] = q[j]
  <2>1. j \in 1..Len(a)
    BY <1>6
  <2>2. r[j] = a[j]
    BY <1>6, <1>7, <1>8, <2>1
  <2> QED  BY <1>6, <2>2
<1>11. ASSUME NEW j \in i..(Len(q) - 1) PROVE r[j] = q[j + 1]
  <2>1. j - (i - 1) \in 1..(Len(q) - i) /\ j \in Nat /\ (j - (i - 1)) + i = j + 1
    BY <1>6
  <2>2. r[j] = b[j - (i - 1)]
    BY <1>6, <1>7, <1>8, <2>1
  <2> QED  BY <1>7, <2>1, <2>2
<1> QED  BY <1>9, <1>10, <1>11 DEF Without
\* The queue when the None of close() is not in it.
LEMMA NoneToRemove ==
  ASSUME NEW q, NEW e, \A j \in 1..Len(q) : q[j] # e PROVE RemoveFirst(q, e) = q
  BY DEF RemoveFirst

\* What coming and going does to a queue without its e.
LEMMA RemovedList ==
  ASSUME NEW S, NEW q \in Seq(S), NEW e, Once(q, e) PROVE RemoveFirst(q, e) \in Seq(S)
<1>1. CASE \A j \in 1..Len(q) : q[j] # e
  BY <1>1, NoneToRemove
<1>2. ASSUME NEW i \in 1..Len(q), q[i] = e PROVE RemoveFirst(q, e) \in Seq(S)
  BY <1>2, Removed
<1> QED  BY <1>1, <1>2
\* A write that is appended; the None that is appended; the head that leaves.
LEMMA RemovedAppended ==
  ASSUME NEW S, NEW q \in Seq(S), NEW e, Once(q, e), NEW x \in S, x # e
  PROVE  RemoveFirst(Append(q, x), e) = Append(RemoveFirst(q, e), x)
<1>1. PICK r \in Seq(S) : r = Append(q, x)
  BY Appended
<1>2. /\ Len(r) = Len(q) + 1 /\ Len(q) \in Nat /\ \A i \in 1..Len(q) : r[i] = q[i]
      /\ r[Len(q) + 1] = x
  BY <1>1, Appended
<1>3. \A i \in 1..Len(r) : i \in 1..Len(q) \/ i = Len(q) + 1
  BY <1>2
<1>4. CASE \A j \in 1..Len(q) : q[j] # e
  <2>1. \A j \in 1..Len(r) : r[j] # e
    BY <1>2, <1>3, <1>4
  <2> QED  BY <1>1, <1>4, <2>1, NoneToRemove
<1>5. ASSUME NEW i \in 1..Len(q), q[i] = e
      PROVE  RemoveFirst(r, e) = Append(RemoveFirst(q, e), x)
  <2>1. i \in 1..Len(r) /\ r[i] = e /\ Once(r, e)
    BY <1>2, <1>3, <1>5 DEF Once
  <2>2. PICK s, t : s = RemoveFirst(q, e) /\ t = RemoveFirst(r, e)
    OBVIOUS
  <2>3. /\ s \in Seq(S) /\ Len(s) = Len(q) - 1 /\ \A j \in 1..(i - 1) : s[j] = q[j]
        /\ \A j \in i..(Len(q) - 1) : s[j] = q[j + 1]
    BY <1>5, <2>2, Removed DEF Without
  <2>4. /\ t \in Seq(S) /\ Len(t) = Len(r) - 1 /\ \A j \in 1..(i - 1) : t[j] = r[j]
        /\ \A j \in i..(Len(r) - 1) : t[j] = r[j + 1]
    <3>1. t = RemoveFirst(r, e)
      BY <2>2
    <3>2. t \in Seq(S) /\ Without(r, i, t)
      BY <2>1, <3>1, Removed
    <3> QED  BY <3>2 DEF Without
  <2>5. PICK u \in Seq(S) : u = Append(s, x)
    BY <2>3, Appended
  <2>6. Len(u) = Len(s) + 1 /\ u[Len(s) + 1] = x /\ \A j \in 1..Len(s) : u[j] = s[j]
    BY <2>3, <2>5, Appended
  <2>7. ASSUME NEW j \in 1..Len(t) PROVE t[j] = u[j]
    <3>1. CASE j < i
      <4>1. j \in 1..(i - 1) /\ j \in 1..Len(s) /\ j \in 1..Len(q)
        BY <1>2, <2>3, <2>4, <3>1
      <4> QED  BY <1>2, <2>3, <2>4, <2>6, <4>1
    <3>2. CASE j >= i /\ j < Len(q)
      <4>1. j \in i..(Len(q) - 1) /\ j \in i..(Len(r) - 1) /\ j \in 1..Len(s) /\ j + 1 \in 1..Len(q)
        BY <1>2, <2>3, <2>4, <3>2
      <4> QED  BY <1>2, <2>3, <2>4, <2>6, <4>1
    <3>3. CASE j = Len(q)
      <4>1. j \in i..(Len(r) - 1) /\ j = Len(s) + 1
        BY <1>2, <2>3, <2>4, <3>3
      <4> QED  BY <1>2, <2>4, <2>6, <3>3, <4>1
    <3> QED  BY <1>2, <2>4, <3>1, <3>2, <3>3
  <2>8. t = u
    BY <1>2, <2>3, <2>4, <2>6, <2>7, SameList
  <2> QED  BY <2>2, <2>5, <2>8
<1> QED  BY <1>1, <1>4, <1>5
LEMMA RemovedLast ==
  ASSUME NEW S, NEW q \in Seq(S), NEW e \in S, \A j \in 1..Len(q) : q[j] # e
  PROVE  RemoveFirst(Append(q, e), e) = q
<1>1. PICK r \in Seq(S) : r = Append(q, e)
  BY Appended
<1>2. /\ Len(r) = Len(q) + 1 /\ Len(q) \in Nat /\ \A i \in 1..Len(q) : r[i] = q[i]
      /\ r[Len(q) + 1] = e
  BY <1>1, Appended
<1>3. Len(r) \in 1..Len(r) /\ r[Len(r)] = e /\ Once(r, e)
  BY <1>2 DEF Once
<1>4. PICK t : t = RemoveFirst(r, e)
  OBVIOUS
<1>5. t \in Seq(S) /\ Without(r, Len(r), t)
  BY <1>3, <1>4, Removed
<1>6. t = q
  BY <1>2, <1>5, SameList DEF Without
<1> QED  BY <1>1, <1>4, <1>6
LEMMA RemovedHead ==
  ASSUME NEW S, NEW q \in Seq(S), q # <<>>, NEW e, Once(q, e)
  PROVE  /\ Head(q) = e => RemoveFirst(q, e) = Tail(q)
         /\ Head(q) # e => RemoveFirst(q, e) = <<Head(q)>> \o RemoveFirst(Tail(q), e)
         /\ Once(Tail(q), e)
<1>1. PICK x, p : x = Head(q) /\ p = Tail(q)
  OBVIOUS
<1>2. /\ x \in S /\ p \in Seq(S) /\ Len(q) >= 1 /\ Len(q) \in Nat /\ x = q[1]
      /\ Len(p) = Len(q) - 1 /\ \A i \in 1..Len(p) : p[i] = q[i + 1] /\ i + 1 \in 1..Len(q)
  BY <1>1, Tailed
<1>3. Once(p, e)
  <2> SUFFICES ASSUME NEW i \in 1..Len(p), NEW j \in 1..Len(p), p[i] = e, p[j] = e PROVE i = j
    BY DEF Once
  <2>1. i + 1 = j + 1
    BY <1>2 DEF Once
  <2> QED  BY <1>2, <2>1
<1>4. ASSUME x = e PROVE RemoveFirst(q, e) = p
  <2>0. 1 \in 1..Len(q) /\ q[1] = e
    BY <1>2, <1>4
  <2>1. PICK t : t = RemoveFirst(q, e)
    OBVIOUS
  <2>2. t \in Seq(S) /\ Without(q, 1, t)
    BY <2>0, <2>1, Removed
  <2>3. t \in Seq(S) /\ Len(t) = Len(q) - 1 /\ \A j \in 1..(Len(q) - 1) : t[j] = q[j + 1]
    BY <2>2 DEF Without
  <2>4. t = p
    BY <1>2, <2>3, SameList
  <2> QED  BY <2>1, <2>4
<1>5. ASSUME x # e PROVE RemoveFirst(q, e) = <<x>> \o RemoveFirst(p, e)
  <2>1. PICK s, t : s = RemoveFirst(p, e) /\ t = RemoveFirst(q, e)
    OBVIOUS
  <2>2. s \in Seq(S) /\ t \in Seq(S)
    BY <1>2, <1>3, <2>1, RemovedList
  <2>3. PICK u : u = <<x>> \o s
    OBVIOUS
  <2>4. u \in Seq(S) /\ Len(u) = Len(s) + 1 /\ u[1] = x /\ \A j \in 2..Len(u) : u[j] = s[j - 1]
    BY <1>2, <2>2, <2>3
  <2>5. CASE \A j \in 1..Len(p) : p[j] # e
    <3>1. s = p
      BY <2>1, <2>5, NoneToRemove
    <3>2. ASSUME NEW j \in 1..Len(q) PROVE q[j] # e
      <4>1. CASE j = 1
        BY <1>2, <1>5, <4>1
      <4>2. CASE j # 1
        <5>1. j - 1 \in 1..Len(p) /\ (j - 1) + 1 = j
          BY <1>2, <4>2
        <5> QED  BY <1>2, <2>5, <5>1
      <4> QED  BY <4>1, <4>2
    <3>3. t = q
      BY <2>1, <3>2, NoneToRemove
    <3>4. ASSUME NEW j \in 1..Len(q) PROVE q[j] = u[j]
      <4>1. CASE j = 1
        BY <1>2, <2>4, <4>1
      <4>2. CASE j # 1
        <5>1. j - 1 \in 1..Len(p) /\ (j - 1) + 1 = j /\ j \in 2..Len(u)
          BY <1>2, <2>4, <3>1, <4>2
        <5>2. u[j] = p[j - 1] /\ p[j - 1] = q[(j - 1) + 1]
          BY <1>2, <2>4, <3>1, <5>1
        <5> QED  BY <5>1, <5>2
      <4> QED  BY <4>1, <4>2
    <3>5. q = u
      BY <1>2, <2>4, <3>1, <3>4, SameList
    <3> QED  BY <1>1, <2>1, <2>3, <3>3, <3>5
  <2>6. ASSUME NEW i \in 1..Len(p), p[i] = e PROVE t = u
    <3>1. i + 1 \in 1..Len(q) /\ q[i + 1] = e
      BY <1>2, <2>6
    <3>2. /\ Len(t) = Len(q) - 1 /\ \A j \in 1..((i + 1) - 1) : t[j] = q[j]
          /\ \A j \in (i + 1)..(Len(q) - 1) : t[j] = q[j + 1]
      <4>1. t = RemoveFirst(q, e)
        BY <2>1
      <4>2. Without(q, i + 1, t)
        BY <3>1, <4>1, Removed
      <4> QED  BY <4>2 DEF Without
    <3>3. /\ Len(s) = Len(p) - 1 /\ \A j \in 1..(i - 1) : s[j] = p[j]
          /\ \A j \in i..(Len(p) - 1) : s[j] = p[j + 1]
      <4>1. p \in Seq(S) /\ s = RemoveFirst(p, e)
        BY <1>2, <2>1
      <4>2. Without(p, i, s)
        BY <1>3, <2>6, <4>1, Removed
      <4> QED  BY <4>2 DEF Without
    <3>4. ASSUME NEW j \in 1..Len(t) PROVE t[j] = u[j]
      <4>1. CASE j = 1
        BY <1>2, <2>4, <3>2, <4>1
      <4>2. CASE j # 1 /\ j <= i
        <5>1. j - 1 \in 1..(i - 1) /\ j - 1 \in 1..Len(p) /\ j \in 2..Len(u)
          BY <1>2, <2>4, <3>2, <3>3, <4>2
        <5>2. t[j] = q[j] /\ u[j] = s[j - 1] /\ s[j - 1] = p[j - 1] /\ p[j - 1] = q[(j - 1) + 1]
          BY <1>2, <2>4, <3>2, <3>3, <4>2, <5>1
        <5> QED  BY <5>2
      <4>3. CASE j > i
        <5>1. j - 1 \in i..(Len(p) - 1) /\ j \in 2..Len(u) /\ j \in 1..Len(p) /\ j \in (i + 1)..(Len(q) - 1)
          BY <1>2, <2>4, <3>2, <3>3, <4>3
        <5>2. t[j] = q[j + 1] /\ u[j] = s[j - 1] /\ s[j - 1] = p[(j - 1) + 1] /\ p[j] = q[j + 1]
          BY <1>2, <2>4, <3>2, <3>3, <5>1
        <5> QED  BY <5>1, <5>2
      <4> QED  BY <4>1, <4>2, <4>3
    <3>5. Len(t) = Len(u)
      BY <1>2, <2>4, <2>6, <3>2, <3>3
    <3> QED  BY <2>2, <2>4, <3>4, <3>5, SameList
  <2> QED  BY <2>1, <2>3, <2>5, <2>6
<1> QED  BY <1>1, <1>3, <1>4, <1>5

\* Two lists, one after the other.
LEMMA JoinedLists ==
  ASSUME NEW S, NEW s \in Seq(S), NEW t \in Seq(S)
  PROVE  /\ s \o t \in Seq(S) /\ Len(s \o t) = Len(s) + Len(t) /\ Len(s) \in Nat /\ Len(t) \in Nat
         /\ \A i \in 1..Len(s) : (s \o t)[i] = s[i]
         /\ \A i \in 1..Len(t) : (s \o t)[Len(s) + i] = t[i]
  OBVIOUS
LEMMA JoinedToNone ==
  ASSUME NEW S, NEW t \in Seq(S)
  PROVE  <<>> \o t = t /\ t \o <<>> = t
  OBVIOUS
\* Two lists together, cut where they meet, and one with one item more.
LEMMA CutInTwo ==
  ASSUME NEW S, NEW s \in Seq(S), NEW t \in Seq(S)
  PROVE  /\ SubSeq(s \o t, 1, Len(s)) = s
         /\ SubSeq(s \o t, Len(s) + 1, Len(s \o t)) = t
<1>1. PICK u \in Seq(S) : u = s \o t
  BY JoinedLists
<1>2. /\ Len(u) = Len(s) + Len(t) /\ Len(s) \in Nat /\ Len(t) \in Nat
      /\ \A i \in 1..Len(s) : u[i] = s[i]
      /\ \A i \in 1..Len(t) : u[Len(s) + i] = t[i]
  BY <1>1, JoinedLists
<1>3. PICK a, b : a = SubSeq(u, 1, Len(s)) /\ b = SubSeq(u, Len(s) + 1, Len(u))
  OBVIOUS
<1>4. a \in Seq(S) /\ Len(a) = Len(s) /\ \A i \in 1..Len(s) : a[i] = u[i]
  BY <1>2, <1>3
<1>5. b \in Seq(S) /\ Len(b) = Len(t) /\ \A i \in 1..Len(t) : b[i] = u[Len(s) + i]
  BY <1>2, <1>3
<1>6. a = s
  BY <1>2, <1>4, SameList
<1>7. b = t
  BY <1>2, <1>5, SameList
<1> QED  BY <1>1, <1>3, <1>6, <1>7
LEMMA JoinedAppend ==
  ASSUME NEW S, NEW s \in Seq(S), NEW t \in Seq(S), NEW x \in S
  PROVE  s \o Append(t, x) = Append(s \o t, x)
<1>1. PICK u \in Seq(S) : u = s \o t
  BY JoinedLists
<1>2. PICK a \in Seq(S) : a = Append(u, x)
  BY Appended
<1>3. PICK v \in Seq(S) : v = Append(t, x)
  BY Appended
<1>4. PICK b \in Seq(S) : b = s \o v
  BY JoinedLists
<1>5. /\ Len(u) = Len(s) + Len(t) /\ Len(s) \in Nat /\ Len(t) \in Nat
      /\ \A i \in 1..Len(s) : u[i] = s[i]
      /\ \A i \in 1..Len(t) : u[Len(s) + i] = t[i]
  BY <1>1, JoinedLists
<1>6. Len(a) = Len(u) + 1 /\ a[Len(u) + 1] = x /\ \A i \in 1..Len(u) : a[i] = u[i]
  BY <1>2, Appended
<1>7. Len(v) = Len(t) + 1 /\ v[Len(t) + 1] = x /\ \A i \in 1..Len(t) : v[i] = t[i]
  BY <1>3, Appended
<1>8. /\ Len(b) = Len(s) + Len(v)
      /\ \A i \in 1..Len(s) : b[i] = s[i]
      /\ \A i \in 1..Len(v) : b[Len(s) + i] = v[i]
  BY <1>4, JoinedLists
<1>9. ASSUME NEW i \in 1..Len(b) PROVE b[i] = a[i]
  <2>1. CASE i <= Len(s)
    <3>1. i \in 1..Len(s) /\ i \in 1..Len(u)
      BY <1>5, <2>1
    <3> QED  BY <1>5, <1>6, <1>8, <3>1
  <2>2. CASE i > Len(s) /\ i < Len(b)
    <3>1. PICK j \in 1..Len(t) : i = Len(s) + j
      <4>1. i - Len(s) \in 1..Len(t) /\ i = Len(s) + (i - Len(s))
        BY <1>5, <1>7, <1>8, <2>2
      <4> QED  BY <4>1
    <3>2. j \in 1..Len(v) /\ i \in 1..Len(u)
      BY <1>5, <1>7, <3>1
    <3>3. b[i] = t[j]
      BY <1>7, <1>8, <3>1, <3>2
    <3>4. a[i] = u[i] /\ u[i] = t[j]
      BY <1>5, <1>6, <3>1, <3>2
    <3> QED  BY <3>3, <3>4
  <2>3. CASE i = Len(b)
    <3>1. i = Len(s) + Len(v) /\ i = Len(u) + 1 /\ Len(v) \in 1..Len(v)
      BY <1>5, <1>7, <1>8, <2>3
    <3>2. a[i] = x
      BY <1>6, <3>1
    <3>3. b[i] = v[Len(v)]
      BY <1>8, <3>1
    <3>4. v[Len(v)] = x
      BY <1>7
    <3> QED  BY <3>2, <3>3, <3>4
  <2>4. Len(s) \in Nat /\ Len(b) \in Nat
    BY <1>5
  <2>5. i <= Len(s) \/ (i > Len(s) /\ i < Len(b)) \/ i = Len(b)
    BY <2>4
  <2> QED  BY <2>1, <2>2, <2>3, <2>5
<1>10. a = b
  BY <1>5, <1>6, <1>7, <1>8, <1>9, SameList
<1> QED  BY <1>1, <1>2, <1>3, <1>4, <1>10
\* The head of one list becomes the last of the other.
LEMMA MovedOver ==
  ASSUME NEW S, NEW s \in Seq(S), NEW t \in Seq(S), NEW x \in S
  PROVE  Append(s, x) \o t = s \o (<<x>> \o t)
<1>1. PICK a \in Seq(S) : a = Append(s, x)
  BY Appended
<1>2. PICK u \in Seq(S) : u = a \o t
  BY JoinedLists
<1>0. PICK y \in Seq(S) : y = <<x>> /\ Len(y) = 1 /\ y[1] = x
  <2>1. <<x>> \in Seq(S) /\ Len(<<x>>) = 1 /\ <<x>>[1] = x
    OBVIOUS
  <2> QED  BY <2>1
<1>3. PICK b \in Seq(S) : b = y \o t
  BY JoinedLists
<1>4. PICK v \in Seq(S) : v = s \o b
  BY JoinedLists
<1>5. Len(a) = Len(s) + 1 /\ a[Len(s) + 1] = x /\ (\A i \in 1..Len(s) : a[i] = s[i]) /\ Len(s) \in Nat
  BY <1>1, Appended
<1>6. /\ Len(u) = Len(a) + Len(t) /\ Len(t) \in Nat
      /\ \A i \in 1..Len(a) : u[i] = a[i]
      /\ \A i \in 1..Len(t) : u[Len(a) + i] = t[i]
  BY <1>2, JoinedLists
<1>7. /\ Len(b) = Len(t) + 1 /\ b[1] = x
      /\ \A i \in 1..Len(t) : b[1 + i] = t[i]
  <2>1. /\ Len(b) = Len(y) + Len(t) /\ Len(t) \in Nat
        /\ \A i \in 1..Len(y) : b[i] = y[i]
        /\ \A i \in 1..Len(t) : b[Len(y) + i] = t[i]
    BY <1>3, JoinedLists
  <2> QED  BY <1>0, <2>1
<1>8. /\ Len(v) = Len(s) + Len(b)
      /\ \A i \in 1..Len(s) : v[i] = s[i]
      /\ \A i \in 1..Len(b) : v[Len(s) + i] = b[i]
  BY <1>4, JoinedLists
<1>9. ASSUME NEW i \in 1..Len(u) PROVE u[i] = v[i]
  <2>1. CASE i <= Len(s)
    <3>1. i \in 1..Len(s) /\ i \in 1..Len(a)
      BY <1>5, <2>1
    <3> QED  BY <1>5, <1>6, <1>8, <3>1
  <2>2. CASE i = Len(s) + 1
    <3>1. i \in 1..Len(a) /\ 1 \in 1..Len(b)
      BY <1>5, <1>6, <1>7, <2>2
    <3> QED  BY <1>5, <1>6, <1>7, <1>8, <2>2, <3>1
  <2>3. CASE i > Len(s) + 1
    <3>1. PICK j \in 1..Len(t) : i = Len(a) + j
      <4>1. i - Len(a) \in 1..Len(t) /\ i = Len(a) + (i - Len(a))
        BY <1>5, <1>6, <2>3
      <4> QED  BY <4>1
    <3>2. 1 + j \in 1..Len(b) /\ i = Len(s) + (1 + j)
      BY <1>5, <1>6, <1>7, <3>1
    <3>3. v[i] = t[j]
      BY <1>7, <1>8, <3>2
    <3> QED  BY <1>6, <3>1, <3>3
  <2> QED  BY <1>5, <2>1, <2>2, <2>3
<1>10. Len(u) = Len(v)
  BY <1>5, <1>6, <1>7, <1>8
<1>11. u = v
  BY <1>9, <1>10, SameList
<1> QED  BY <1>0, <1>1, <1>2, <1>3, <1>4, <1>11

----------------------------------------------------------------------------
(* A transaction is its writes, one by one *)

\* What agrees at the start and goes on agreeing agrees to the end.
LEMMA OneByOne ==
  ASSUME NEW n \in Nat, NEW f, NEW g, f[0] = g[0],
         \A i \in 1..n : f[i - 1] = g[i - 1] => f[i] = g[i]
  PROVE  f[n] = g[n]
<1> DEFINE D == {d \in Nat : d <= n /\ f[d] # g[d]}
<1> SUFFICES ASSUME f[n] # g[n] PROVE FALSE
  OBVIOUS
<1>1. n \in D
  OBVIOUS
<1>2. PICK d \in D : \A e \in D : ~(<<e, d>> \in OpToRel(<, Nat))
  BY <1>1, NatLessThanWellFounded, WFMin
<1>3. \A e \in D : ~(e < d)
  BY <1>1, <1>2 DEF OpToRel
<1>4. d # 0 /\ d \in 1..n
  OBVIOUS
<1>5. d - 1 \in Nat /\ d - 1 < d /\ d - 1 <= n
  BY <1>4
<1>6. f[d - 1] = g[d - 1]
  BY <1>3, <1>5
<1> QED  BY <1>4, <1>6

\* The writes of a row among the first i, and the last of them.
Hits(s, i, k) == {j \in 1..i : s[j].op = "insert_cache" /\ k \in s[j].keys}
Newest(P) == CHOOSE i \in P : \A j \in P : j <= i
RowAt(tab, s, i, k) == IF Hits(s, i, k) = {} THEN tab[k] ELSE s[Newest(Hits(s, i, k))].id
\* The last of some positions is the last.
LEMMA NewestIs ==
  ASSUME NEW n \in Nat, NEW P, P \subseteq 1..n, NEW m \in P, \A j \in P : j <= m
  PROVE  Newest(P) = m
<1>1. Newest(P) \in P /\ \A j \in P : j <= Newest(P)
  BY DEF Newest
<1>2. PICK x \in P : x = Newest(P) /\ \A j \in P : j <= x
  BY <1>1
<1>3. x \in 1..n /\ m \in 1..n /\ m <= x /\ x <= m
  BY <1>2
<1> QED  BY <1>2, <1>3

\* One more write.
LEMMA RowAtNext ==
  ASSUME NEW tab, NEW s \in Seq(Thing), NEW i \in 1..Len(s), NEW k,
         s[i].op \in Kind
  PROVE  RowAt(tab, s, i, k) =
           IF s[i].op = "insert_cache" /\ k \in s[i].keys THEN s[i].id ELSE RowAt(tab, s, i - 1, k)
<1>1. i \in Nat /\ i - 1 \in Nat /\ \A j \in 1..i : j \in 1..(i - 1) \/ j = i
  OBVIOUS
<1>2. CASE s[i].op = "insert_cache" /\ k \in s[i].keys
  <2>1. i \in Hits(s, i, k) /\ Hits(s, i, k) \subseteq 1..i
    BY <1>2 DEF Hits
  <2>2. Newest(Hits(s, i, k)) = i
    BY <1>1, <2>1, NewestIs
  <2> QED  BY <1>2, <2>1, <2>2 DEF RowAt
<1>3. CASE ~(s[i].op = "insert_cache" /\ k \in s[i].keys)
  <2>1. Hits(s, i, k) = Hits(s, i - 1, k)
    BY <1>1, <1>3 DEF Hits
  <2> QED  BY <1>3, <2>1 DEF RowAt
<1> QED  BY <1>2, <1>3

\* The rows after writes carried out one by one are the rows after the batch.
LEMMA RowsOneByOne ==
  ASSUME NEW s \in Seq(Thing), \A i \in 1..Len(s) : s[i].op \in Kind, rows \in [Key -> Nat]
  PROVE  WB!RowsAfterAll(rows, s) = RowsAfter(s)
<1>1. PICK n \in Nat : n = Len(s)
  OBVIOUS
<1>2. PICK f, g :
        /\ f = CHOOSE h : h = [i \in 0..n |-> IF i = 0 THEN rows ELSE WB!RowsAfter(h[i - 1], s[i])]
        /\ g = [i \in 0..n |-> [k \in Key |-> RowAt(rows, s, i, k)]]
  OBVIOUS
<1>3. WB!RowsAfterAll(rows, s) = f[n]
  BY <1>1, <1>2 DEF WB!RowsAfterAll
<1>4. g[0] = rows
  <2>1. \A k \in Key : RowAt(rows, s, 0, k) = rows[k]
    BY DEF RowAt, Hits
  <2>2. g[0] = [k \in Key |-> RowAt(rows, s, 0, k)]
    BY <1>2
  <2> QED  BY <2>1, <2>2
<1>5. ASSUME NEW i \in 1..n PROVE g[i] = WB!RowsAfter(g[i - 1], s[i])
  <2>1. i \in 0..n /\ i - 1 \in 0..n /\ i \in 1..Len(s)
    BY <1>1
  <2>2. g[i] = [k \in Key |-> RowAt(rows, s, i, k)] /\ g[i - 1] = [k \in Key |-> RowAt(rows, s, i - 1, k)]
    BY <1>2, <2>1
  <2>3. \A k \in Key : g[i][k] = IF s[i].op = "insert_cache" /\ k \in s[i].keys THEN s[i].id ELSE g[i - 1][k]
    <3> SUFFICES ASSUME NEW k \in Key
                 PROVE  g[i][k] = IF s[i].op = "insert_cache" /\ k \in s[i].keys THEN s[i].id ELSE g[i - 1][k]
      OBVIOUS
    <3>1. g[i][k] = RowAt(rows, s, i, k) /\ g[i - 1][k] = RowAt(rows, s, i - 1, k)
      BY <2>2
    <3>2. s[i].op \in Kind
      BY <2>1
    <3>3. RowAt(rows, s, i, k) =
            IF s[i].op = "insert_cache" /\ k \in s[i].keys THEN s[i].id ELSE RowAt(rows, s, i - 1, k)
      BY <2>1, <3>2, RowAtNext
    <3> QED  BY <3>1, <3>3
  <2>4. CASE s[i].op = "insert_cache"
    <3>1. WB!RowsAfter(g[i - 1], s[i]) = [k \in Key |-> IF k \in s[i].keys THEN s[i].id ELSE g[i - 1][k]]
      BY <2>4 DEF WB!RowsAfter
    <3> QED  BY <2>2, <2>3, <2>4, <3>1
  <2>5. CASE s[i].op # "insert_cache"
    <3>1. WB!RowsAfter(g[i - 1], s[i]) = g[i - 1]
      BY <2>1, <2>5 DEF WB!RowsAfter, Kind
    <3>2. \A k \in Key : g[i][k] = g[i - 1][k]
      BY <2>3, <2>5
    <3> QED  BY <2>2, <3>1, <3>2
  <2> QED  BY <2>4, <2>5
<1>6. g = [i \in 0..n |-> IF i = 0 THEN rows ELSE WB!RowsAfter(g[i - 1], s[i])]
  <2>1. \A i \in 0..n : g[i] = IF i = 0 THEN rows ELSE WB!RowsAfter(g[i - 1], s[i])
    BY <1>4, <1>5
  <2> QED  BY <1>2, <2>1
<1>7. f = [i \in 0..n |-> IF i = 0 THEN rows ELSE WB!RowsAfter(f[i - 1], s[i])]
  BY <1>2, <1>6, Zenon
<1>8. f[0] = g[0] /\ \A i \in 1..n : f[i - 1] = g[i - 1] => f[i] = g[i]
  <2>1. f[0] = rows /\ \A i \in 1..n : f[i] = WB!RowsAfter(f[i - 1], s[i])
    <3>1. \A i \in 0..n : f[i] = IF i = 0 THEN rows ELSE WB!RowsAfter(f[i - 1], s[i])
      BY <1>7
    <3>2. \A i \in 1..n : i \in 0..n /\ i # 0
      OBVIOUS
    <3> QED  BY <3>1, <3>2
  <2> QED  BY <1>4, <1>5, <2>1
<1>9. f[n] = g[n]
  BY <1>8, OneByOne
<1>10. g[n] = RowsAfter(s)
  <2>1. g[n] = [k \in Key |-> RowAt(rows, s, n, k)]
    BY <1>2
  <2>2. ASSUME NEW k \in Key
        PROVE  RowAt(rows, s, n, k) = RowsAfter(s)[k]
    <3>1. ~(k \in Touched(s, "delete"))
      BY DEF Touched, OfOp, Kind
    <3>2. k \in Touched(s, "insert_cache") <=> Hits(s, n, k) # {}
      BY <1>1 DEF Touched, OfOp, Hits
    <3>3. {i \in DOMAIN s : s[i].op = "insert_cache" /\ k \in s[i].keys} = Hits(s, n, k)
      BY <1>1 DEF Hits
    <3>4. LastWrite(s, k) = s[Newest(Hits(s, n, k))].id
      BY <3>3, Zenon DEF LastWrite, Newest
    <3> QED  BY <3>1, <3>2, <3>4 DEF RowsAfter, RowAt
  <2> QED  BY <2>1, <2>2 DEF RowsAfter
<1> QED  BY <1>3, <1>9, <1>10

\* So is what they spend.
LEMMA SpentOneByOne ==
  ASSUME NEW s \in Seq(Thing), NEW sum \in Nat
  PROVE  WB!SpentAfterAll(sum, s) = sum + Cardinality(OfOp(s, "spend_key"))
<1> DEFINE Spends(i) == {j \in 1..i : s[j].op = "spend_key"}
<1>1. PICK n \in Nat : n = Len(s)
  OBVIOUS
<1>2. PICK f, g :
        /\ f = CHOOSE h : h = [i \in 0..n |-> IF i = 0 THEN sum ELSE WB!SpentAfter(h[i - 1], s[i])]
        /\ g = [i \in 0..n |-> sum + Cardinality(Spends(i))]
  OBVIOUS
<1>3. WB!SpentAfterAll(sum, s) = f[n]
  BY <1>1, <1>2 DEF WB!SpentAfterAll
<1>4. g[0] = sum
  <2>1. Cardinality(Spends(0)) = 0
    <3>1. Spends(0) = {}
      OBVIOUS
    <3> QED  BY <3>1, FS_EmptySet
  <2> QED  BY <1>2, <2>1
<1>5. ASSUME NEW i \in 1..n PROVE g[i] = WB!SpentAfter(g[i - 1], s[i])
  <2>1. i \in 0..n /\ i - 1 \in 0..n /\ i \in Nat /\ i - 1 \in Nat /\ ~(i <= i - 1)
    BY <1>1
  <2>2. g[i] = sum + Cardinality(Spends(i)) /\ g[i - 1] = sum + Cardinality(Spends(i - 1))
    BY <1>2, <2>1
  <2>3. IsFiniteSet(Spends(i - 1)) /\ Cardinality(Spends(i - 1)) \in Nat
    <3>1. IsFiniteSet(1..(i - 1))
      BY <2>1, FS_Interval
    <3>2. Spends(i - 1) \subseteq 1..(i - 1)
      OBVIOUS
    <3> QED  BY <3>1, <3>2, FS_Subset, FS_CardinalityType
  <2>4. CASE s[i].op = "spend_key"
    <3>1. Spends(i) = Spends(i - 1) \union {i} /\ i \notin Spends(i - 1)
      BY <2>1, <2>4
    <3>2. Cardinality(Spends(i)) = Cardinality(Spends(i - 1)) + 1
      BY <2>3, <3>1, FS_AddElement
    <3> QED  BY <2>2, <2>3, <2>4, <3>2 DEF WB!SpentAfter
  <2>5. CASE s[i].op # "spend_key"
    <3>1. Spends(i) = Spends(i - 1)
      BY <2>1, <2>5
    <3> QED  BY <2>2, <2>5, <3>1 DEF WB!SpentAfter
  <2> QED  BY <2>4, <2>5
<1>6. g = [i \in 0..n |-> IF i = 0 THEN sum ELSE WB!SpentAfter(g[i - 1], s[i])]
  <2>1. \A i \in 0..n : g[i] = IF i = 0 THEN sum ELSE WB!SpentAfter(g[i - 1], s[i])
    BY <1>4, <1>5
  <2> QED  BY <1>2, <2>1
<1>7. f = [i \in 0..n |-> IF i = 0 THEN sum ELSE WB!SpentAfter(f[i - 1], s[i])]
  BY <1>2, <1>6, Zenon
<1>8. f[0] = g[0] /\ \A i \in 1..n : f[i - 1] = g[i - 1] => f[i] = g[i]
  <2>1. f[0] = sum /\ \A i \in 1..n : f[i] = WB!SpentAfter(f[i - 1], s[i])
    <3>1. \A i \in 0..n : f[i] = IF i = 0 THEN sum ELSE WB!SpentAfter(f[i - 1], s[i])
      BY <1>7
    <3>2. \A i \in 1..n : i \in 0..n /\ i # 0
      OBVIOUS
    <3> QED  BY <3>1, <3>2
  <2> QED  BY <1>4, <1>5, <2>1
<1>9. f[n] = g[n]
  BY <1>8, OneByOne
<1>10. g[n] = sum + Cardinality(OfOp(s, "spend_key"))
  <2>1. Spends(n) = OfOp(s, "spend_key")
    BY <1>1 DEF OfOp
  <2> QED  BY <1>2, <2>1
<1> QED  BY <1>3, <1>9, <1>10

----------------------------------------------------------------------------
(* Steps of the line *)

Step == WB!Next \/ UNCHANGED WB!wvars

\* The line as the invariants shape it.
LEMMA LineShape ==
  ASSUME IInv, RInv
  PROVE  /\ batch \in Seq(Thing) /\ queue \in Seq(Thing) /\ Once(queue, Stop) /\ Stop \in Thing
         /\ RemoveFirst(queue, Stop) \in Seq(Thing)
         /\ Pending = batch \o RemoveFirst(queue, Stop) /\ Pending \in Seq(Thing)
<1>1. batch \in Seq(Thing) /\ queue \in Seq(Thing) /\ Stop \in Thing
  BY StopSpendsNothing DEF IInv, Shapes
<1>2. Once(queue, Stop)
  BY DEF RInv, OneStop, Once
<1>3. RemoveFirst(queue, Stop) \in Seq(Thing)
  BY <1>1, <1>2, RemovedList
<1>4. Pending = batch \o RemoveFirst(queue, Stop)
  BY DEF Pending
<1> QED  BY <1>1, <1>2, <1>3, <1>4, JoinedLists

\* The line and the table stay as they are.
LEMMA LineStays ==
  ASSUME UNCHANGED <<queue, batch, rows, spent>>
  PROVE  UNCHANGED WB!wvars
  BY DEF WB!wvars, Pending

\* The front of the line is written, or lost, in one transaction.
LEMMA LineWritten ==
  ASSUME IInv, NEW items \in Seq(Thing), NEW rest \in Seq(Thing), spent \in Nat,
         \A i \in 1..Len(items) : items[i].op \in Kind,
         Pending = items \o rest, Pending' = rest, ProcessBatch(items)
  PROVE  Step
<1>1. PICK n \in Nat : n = Len(items)
  OBVIOUS
<1>2. PICK p \in Seq(Thing) : p = Pending /\ p = items \o rest
  BY JoinedLists
<1>3. Len(p) \in Nat /\ n <= Len(p) /\ items = SubSeq(p, 1, n) /\ rest = SubSeq(p, n + 1, Len(p))
  <2>1. Len(p) = n + Len(rest) /\ Len(rest) \in Nat
    BY <1>1, <1>2, JoinedLists
  <2>2. items = SubSeq(p, 1, n) /\ rest = SubSeq(p, n + 1, Len(p))
    BY <1>1, <1>2, CutInTwo
  <2> QED  BY <2>1, <2>2
<1>4. WB!RowsAfterAll(rows, items) = RowsAfter(items)
  BY RowsOneByOne DEF IInv, Shapes
<1>5. WB!SpentAfterAll(spent, items) = spent + Cardinality(OfOp(items, "spend_key"))
  BY SpentOneByOne
<1>6. CASE n = 0
  <2>0. items = <<>> /\ DOMAIN items = {}
    <3>1. Len(items) = 0
      BY <1>1, <1>6
    <3>2. items = <<>>
      BY <3>1
    <3>3. DOMAIN items = 1..0
      BY <3>1
    <3> QED  BY <3>2, <3>3
  <2>1. \A op : OfOp(items, op) = {} /\ Touched(items, op) = {}
    BY <2>0 DEF OfOp, Touched
  <2>2. RowsAfter(items) = rows
    BY <2>1 DEF RowsAfter, IInv, Shapes
  <2>3. spent + Cardinality(OfOp(items, "spend_key")) = spent
    <3>1. Cardinality(OfOp(items, "spend_key")) = 0
      BY <2>1, FS_EmptySet
    <3> QED  BY <3>1
  <2>4. Pending' = Pending
    BY <1>2, <2>0, JoinedToNone
  <2> QED  BY <2>2, <2>3, <2>4 DEF ProcessBatch, Step, WB!wvars
<1>7. CASE n # 0
  <2>1. n \in 1..Len(p)
    BY <1>3, <1>7
  <2>2. CASE /\ rows' = RowsAfter(items)
             /\ spent' = spent + Cardinality(OfOp(items, "spend_key"))
    <3>1. /\ n \in 1..Len(Pending)
          /\ rows' = WB!RowsAfterAll(rows, SubSeq(Pending, 1, n))
          /\ spent' = WB!SpentAfterAll(spent, SubSeq(Pending, 1, n))
          /\ Pending' = SubSeq(Pending, n + 1, Len(Pending))
      BY <1>2, <1>3, <1>4, <1>5, <2>1, <2>2
    <3> QED  BY <3>1 DEF Step, WB!Next, WB!Write
  <2>3. CASE UNCHANGED <<rows, spent>>
    <3>1. n \in 1..Len(Pending) /\ Pending' = SubSeq(Pending, n + 1, Len(Pending))
      BY <1>2, <1>3, <2>1
    <3> QED  BY <2>3, <3>1 DEF Step, WB!Next, WB!Lose
  <2> QED  BY <2>2, <2>3 DEF ProcessBatch
<1> QED  BY <1>6, <1>7

\* An item is accepted at the end of the line; the None of close() is not in it.
LEMMA LineAccepts ==
  ASSUME IInv, RInv, TInv', NEW it \in Thing, queue' = Append(queue, it),
         UNCHANGED <<batch, rows, spent>>,
         it = Stop => \A i \in 1..Len(queue) : queue[i] # Stop
  PROVE  Step
<1>1. /\ batch \in Seq(Thing) /\ queue \in Seq(Thing) /\ Once(queue, Stop) /\ Stop \in Thing
      /\ Pending = batch \o RemoveFirst(queue, Stop)
  BY LineShape
<1>2. PICK q \in Seq(Thing) : q = RemoveFirst(queue, Stop)
  BY LineShape
<1>3. Pending' = batch \o RemoveFirst(Append(queue, it), Stop)
  BY DEF Pending
<1>4. CASE it = Stop
  <2>1. RemoveFirst(Append(queue, it), Stop) = queue /\ RemoveFirst(queue, Stop) = queue
    BY <1>1, <1>4, RemovedLast, NoneToRemove
  <2>2. Pending' = Pending
    BY <1>1, <1>3, <2>1
  <2> QED  BY <2>2 DEF Step, WB!wvars
<1>5. CASE it # Stop
  <2>1. RemoveFirst(Append(queue, it), Stop) = Append(q, it)
    BY <1>1, <1>2, <1>5, RemovedAppended
  <2>2. PICK p \in Seq(Thing) : p = batch \o q
    BY <1>1, JoinedLists
  <2>3. Pending = p /\ Pending' = Append(p, it)
    BY <1>1, <1>2, <1>3, <2>1, <2>2, JoinedAppend
  <2>4. PICK r \in Seq(Thing) : r = Append(p, it)
    BY Appended
  <2>5. Len(r) = Len(p) + 1 /\ r[Len(p) + 1] = it /\ Len(p) \in Nat
    BY <2>4, Appended
  <2>6. WB!Front(r) = p
    <3>1. PICK f : f = SubSeq(r, 1, Len(r) - 1)
      OBVIOUS
    <3>2. f \in Seq(Thing) /\ Len(f) = Len(p) /\ \A i \in 1..Len(p) : f[i] = r[i]
      BY <2>5, <3>1
    <3>3. \A i \in 1..Len(p) : r[i] = p[i]
      BY <2>4, Appended
    <3>4. f = p
      BY <3>2, <3>3, SameList
    <3> QED  BY <3>1, <3>4 DEF WB!Front
  <2>7. WB!Last(r) = it
    BY <2>5 DEF WB!Last
  <2>8. it \in Item
    <3>1. PICK u : u = queue'
      OBVIOUS
    <3>2. u \in Seq(Item) /\ Len(u) = Len(queue) + 1 /\ u[Len(queue) + 1] = it /\ Len(queue) \in Nat
      BY <1>1, <3>1, Appended DEF TInv, LinesOK
    <3> QED  BY <3>2
  <2>9. /\ Len(Pending') = Len(Pending) + 1 /\ WB!Front(Pending') = Pending
        /\ WB!Last(Pending') \in Item
    BY <2>3, <2>4, <2>5, <2>6, <2>7, <2>8
  <2>10. UNCHANGED <<rows, spent>>
    OBVIOUS
  <2>11. WB!Accept
    BY <2>9, <2>10 DEF WB!Accept
  <2> QED  BY <2>11 DEF Step, WB!Next
<1> QED  BY <1>4, <1>5

\* The head of the queue, the None of close() or not.
LEMMA LineHead ==
  ASSUME IInv, RInv, queue # <<>>
  PROVE  /\ Tail(queue) \in Seq(Thing) /\ Head(queue) \in Thing
         /\ RemoveFirst(Tail(queue), Stop) \in Seq(Thing)
         /\ Head(queue) = Stop =>
              RemoveFirst(queue, Stop) = Tail(queue) /\ RemoveFirst(Tail(queue), Stop) = Tail(queue)
         /\ Head(queue) # Stop =>
              RemoveFirst(queue, Stop) = <<Head(queue)>> \o RemoveFirst(Tail(queue), Stop)
<1>1. queue \in Seq(Thing) /\ Once(queue, Stop)
  BY LineShape
<1>2. /\ Head(queue) = Stop => RemoveFirst(queue, Stop) = Tail(queue)
      /\ Head(queue) # Stop => RemoveFirst(queue, Stop) = <<Head(queue)>> \o RemoveFirst(Tail(queue), Stop)
      /\ Once(Tail(queue), Stop)
  BY <1>1, RemovedHead
<1>3. PICK x \in Thing, p \in Seq(Thing) : x = Head(queue) /\ p = Tail(queue)
  BY <1>1, Tailed
<1>4. /\ Len(p) = Len(queue) - 1 /\ Len(queue) \in Nat /\ x = queue[1] /\ 1 \in 1..Len(queue)
      /\ \A i \in 1..Len(p) : p[i] = queue[i + 1] /\ i + 1 \in 1..Len(queue)
  BY <1>1, <1>3, Tailed
<1>5. ASSUME x = Stop, NEW i \in 1..Len(p), p[i] = Stop PROVE FALSE
  <2>1. i + 1 = 1
    BY <1>1, <1>4, <1>5 DEF Once
  <2> QED  BY <2>1
<1>6. x = Stop => RemoveFirst(p, Stop) = p
  BY <1>5, NoneToRemove
<1>7. RemoveFirst(p, Stop) \in Seq(Thing)
  BY <1>2, <1>3, RemovedList
<1> QED  BY <1>2, <1>3, <1>6, <1>7

\* The worker takes what is next: the line stays the line.
LEMMA LineTaken == ASSUME IInv, RInv, Take PROVE Step
<1>1. queue # <<>> /\ queue' = Tail(queue) /\ UNCHANGED <<rows, spent>>
  BY DEF Take, storeVars
<1>2. PICK x \in Thing, b \in Seq(Thing), t \in Seq(Thing) :
         x = Head(queue) /\ b = batch /\ t = RemoveFirst(Tail(queue), Stop)
  BY <1>1, LineHead, LineShape
<1>3. Pending = b \o RemoveFirst(queue, Stop) /\ Pending' = batch' \o t
  BY <1>1, <1>2 DEF Pending
<1>4. CASE x = Stop
  <2>1. batch' = b /\ RemoveFirst(queue, Stop) = t
    BY <1>1, <1>2, <1>4, LineHead DEF Take
  <2> QED  BY <1>1, <1>3, <2>1 DEF Step, WB!wvars
<1>5. CASE x # Stop
  <2>1. batch' = Append(b, x)
    BY <1>2, <1>5 DEF Take
  <2>2. RemoveFirst(queue, Stop) = <<x>> \o t
    BY <1>1, <1>2, <1>5, LineHead
  <2>3. Append(b, x) \o t = b \o (<<x>> \o t)
    BY MovedOver
  <2>4. Pending' = Pending
    BY <1>3, <2>1, <2>2, <2>3
  <2> QED  BY <1>1, <2>4 DEF Step, WB!wvars
<1> QED  BY <1>4, <1>5

\* The batch in hand is committed or lost.
LEMMA LineCommitted == ASSUME IInv, RInv, spent \in Nat, Commit PROVE Step
<1>1. PICK b \in Seq(Thing), q \in Seq(Thing) : b = batch /\ q = RemoveFirst(queue, Stop)
  BY LineShape
<1>2. Pending = b \o q
  BY <1>1 DEF Pending
<1>3. Pending' = <<>> \o q
  BY <1>1 DEF Commit, Pending
<1>4. Pending' = q
  BY <1>3, JoinedToNone
<1>5. \A i \in 1..Len(b) : b[i].op \in Kind
  BY <1>1 DEF RInv, Kinds
<1>6. ProcessBatch(b)
  BY <1>1 DEF Commit
<1> QED  BY <1>2, <1>4, <1>5, <1>6, LineWritten

\* So is the head of the queue in the final drain.
LEMMA LineDrained == ASSUME IInv, RInv, spent \in Nat, Drain PROVE Step
<1>1. queue # <<>> /\ queue' = Tail(queue) /\ batch' = batch /\ batch = <<>>
  BY DEF Drain, IInv, Closing
<1>2. PICK x \in Thing, t \in Seq(Thing) : x = Head(queue) /\ t = RemoveFirst(Tail(queue), Stop)
  BY <1>1, LineHead
<1>3. Pending = <<>> \o RemoveFirst(queue, Stop) /\ Pending' = <<>> \o t
  BY <1>1, <1>2 DEF Pending
<1>4. Pending = RemoveFirst(queue, Stop) /\ Pending' = t
  BY <1>3, LineShape, JoinedToNone
<1>5. CASE x = Stop
  <2>1. Pending' = Pending
    BY <1>1, <1>2, <1>4, <1>5, LineHead
  <2>2. UNCHANGED <<rows, spent>>
    BY <1>2, <1>5 DEF Drain
  <2> QED  BY <2>1, <2>2 DEF Step, WB!wvars
<1>6. CASE x # Stop
  <2>1. PICK y \in Seq(Thing) : y = <<x>> /\ Len(y) = 1 /\ y[1] = x
    <3>1. <<x>> \in Seq(Thing) /\ Len(<<x>>) = 1 /\ <<x>>[1] = x
      OBVIOUS
    <3> QED  BY <3>1
  <2>2. Pending = y \o t
    BY <1>1, <1>2, <1>4, <1>6, <2>1, LineHead
  <2>3. \A i \in 1..Len(y) : y[i].op \in Kind
    <3>1. x = queue[1] /\ 1 \in 1..Len(queue)
      BY <1>1, <1>2, LineShape, Tailed
    <3> QED  BY <2>1, <3>1 DEF RInv, Kinds
  <2>4. ProcessBatch(y)
    BY <1>2, <1>6, <2>1 DEF Drain
  <2> QED  BY <1>4, <2>2, <2>3, <2>4, LineWritten
<1> QED  BY <1>5, <1>6

\* A transaction of one item that writes one row, or removes some, goes past
\* the line.
LEMMA LinePassed ==
  ASSUME IInv, NEW it \in Thing, spent \in Nat, UNCHANGED <<queue, batch>>, ProcessBatch(<<it>>),
         \/ it.op = "insert_cache" /\ \E k \in Key : it.keys = {k}
         \/ it.op = "delete"
  PROVE  Step
<1>1. Pending' = Pending
  BY DEF Pending
<1>2. rows \in [Key -> Nat] /\ it.keys \subseteq Key /\ it.id \in Nat
  BY DEF IInv, Shapes, Thing
<1>3. PICK s \in Seq(Thing) : s = <<it>> /\ Len(s) = 1 /\ s[1] = it /\ DOMAIN s = {1}
  <2>1. <<it>> \in Seq(Thing) /\ Len(<<it>>) = 1 /\ <<it>>[1] = it
    OBVIOUS
  <2>2. DOMAIN <<it>> = {1}
    OBVIOUS
  <2> QED  BY <2>1, <2>2
<1>4. OfOp(s, "spend_key") = {}
  BY <1>3 DEF OfOp
<1>5. spent + Cardinality(OfOp(s, "spend_key")) = spent
  <2>1. Cardinality(OfOp(s, "spend_key")) = 0
    BY <1>4, FS_EmptySet
  <2> QED  BY <2>1
<1>6. CASE UNCHANGED <<rows, spent>>
  BY <1>1, <1>6 DEF Step, WB!wvars
<1>7. CASE rows' = RowsAfter(s) /\ spent' = spent
  <2>1. CASE it.op = "insert_cache"
    <3>1. PICK k \in Key : it.keys = {k}
      BY <2>1
    <3>2. Touched(s, "delete") = {} /\ Touched(s, "insert_cache") = {k}
      BY <1>3, <2>1, <3>1 DEF Touched, OfOp
    <3>3. LastWrite(s, k) = it.id
      <4>1. {i \in DOMAIN s : s[i].op = "insert_cache" /\ k \in s[i].keys} = {1}
        BY <1>3, <2>1, <3>1
      <4>2. (CHOOSE i \in {1} : \A j \in {1} : j <= i) = 1
        OBVIOUS
      <4> QED  BY <1>3, <4>1, <4>2 DEF LastWrite
    <3>4. rows' = [j \in Key |-> IF j = k THEN it.id ELSE rows[j]]
      BY <1>7, <3>2, <3>3 DEF RowsAfter
    <3>5. rows'[k] = it.id /\ rows' = [rows EXCEPT ![k] = it.id]
      BY <1>2, <3>4
    <3>6. rows'[k] \in Nat /\ rows' = [rows EXCEPT ![k] = rows'[k]]
      BY <1>2, <3>5
    <3> QED  BY <1>1, <1>7, <3>6 DEF Step, WB!Next, WB!Direct
  <2>2. CASE it.op = "delete"
    <3>1. Touched(s, "delete") = it.keys /\ Touched(s, "insert_cache") = {}
      BY <1>3, <2>2 DEF Touched, OfOp
    <3>2. rows' = [k \in Key |-> IF k \in it.keys THEN 0 ELSE rows[k]]
      BY <1>7, <3>1 DEF RowsAfter
    <3> QED  BY <1>1, <1>2, <1>7, <3>2 DEF Step, WB!Next, WB!Direct
  <2> QED  BY <2>1, <2>2
<1> QED  BY <1>3, <1>5, <1>6, <1>7 DEF ProcessBatch

\* What a crash leaves in memory is lost with it.
LEMMA LineCrashes == ASSUME IInv, RInv, Crash PROVE Step
<1>1. UNCHANGED <<rows, spent>> /\ Pending' = <<>> \o RemoveFirst(<<>>, Stop)
  BY DEF Crash, storeVars, Pending
<1>2. RemoveFirst(<<>>, Stop) = <<>>
  <2>1. PICK e \in Seq(Thing) : e = <<>> /\ Len(e) = 0
    <3>1. <<>> \in Seq(Thing) /\ Len(<<>>) = 0
      OBVIOUS
    <3> QED  BY <3>1
  <2>2. \A j \in 1..Len(e) : e[j] # Stop
    BY <2>1
  <2> QED  BY <2>1, <2>2, NoneToRemove
<1>3. Pending' = <<>>
  BY <1>1, <1>2
<1>4. PICK p \in Seq(Thing), n \in Nat : p = Pending /\ n = Len(p)
  BY LineShape
<1>5. CASE n = 0
  <2>1. p = <<>>
    <3>1. Len(p) = 0
      BY <1>4, <1>5
    <3> QED  BY <3>1
  <2> QED  BY <1>1, <1>3, <1>4, <2>1 DEF Step, WB!wvars
<1>6. CASE n # 0
  <2>1. SubSeq(p, n + 1, Len(p)) = <<>>
    <3>1. PICK r : r = SubSeq(p, n + 1, Len(p))
      OBVIOUS
    <3>2. r \in Seq(Thing) /\ Len(r) = 0
      BY <1>4, <3>1
    <3>3. r = <<>>
      BY <3>2
    <3> QED  BY <3>1, <3>3
  <2>2. n \in 1..Len(Pending) /\ Pending' = SubSeq(Pending, n + 1, Len(Pending))
    BY <1>3, <1>4, <1>6, <2>1
  <2> QED  BY <1>1, <2>2 DEF Step, WB!Next, WB!Lose
<1> QED  BY <1>5, <1>6

\* Clients.
LEMMA LineOfClients ==
  ASSUME IInv, RInv, TInv, TInv', NEW c \in Client,
         \/ \E k \in Key : Persist(c, k)
         \/ RecordSpend(c) \/ FlushFirst(c) \/ Close(c) \/ ClientStep(c)
  PROVE  Step
<1>1. clock \in Nat /\ spent \in Nat
  BY DEF IInv, Shapes, TInv, CountsOK
<1>2. ASSUME NEW k \in Key, Persist(c, k) PROVE Step
  <2>1. PICK it \in Thing : it = Write(clock + 1, k) /\ it.op = "insert_cache"
    BY <1>1, Items
  <2>2. it # Stop
    BY <2>1 DEF Stop
  <2>3. CASE Accept(it)
    BY <1>2, <2>2, <2>3, LineAccepts DEF Persist, Accept, storeVars
  <2>4. CASE UNCHANGED queue
    BY <1>2, <2>4, LineStays DEF Persist, storeVars, Step
  <2> QED  BY <1>2, <2>1, <2>3, <2>4 DEF Persist
<1>3. CASE Put(c)
  <2>1. PICK it \in Thing : it = job[c]
    BY DEF IInv, Shapes
  <2>2. it = Stop => \A i \in 1..Len(queue) : queue[i] # Stop
    BY <1>3, <2>1 DEF Put, RInv, OneStop
  <2> QED  BY <1>3, <2>1, <2>2, LineAccepts DEF Put, Accept, storeVars
<1>4. CASE WriteNow(c)
  <2>1. PICK it \in Thing : it = job[c]
    BY DEF IInv, Shapes
  <2>2. it.op = "insert_cache" /\ \E k \in Key : it.keys = {k}
    BY <1>4, <2>1 DEF WriteNow, RInv, Kinds
  <2> QED  BY <1>1, <1>4, <2>1, <2>2, LinePassed DEF WriteNow
<1>5. CASE AfterFlush(c)
  <2>1. PICK it \in Thing : it = job[c]
    BY DEF IInv, Shapes
  <2>2. CASE it.op = "delete"
    BY <1>1, <1>5, <2>1, <2>2, LinePassed DEF AfterFlush
  <2>3. CASE it.op # "delete"
    BY <1>5, <2>1, <2>3, LineStays DEF AfterFlush, storeVars, Step
  <2> QED  BY <2>2, <2>3
<1>6. CASE \/ RecordSpend(c) \/ FlushFirst(c) \/ Close(c) \/ FlushEmpty(c) \/ FlushGivesUp(c)
           \/ Joined(c) \/ JoinGivesUp(c)
  <2>1. UNCHANGED <<queue, batch, rows, spent>>
    BY <1>6 DEF RecordSpend, FlushFirst, Close, FlushEmpty, FlushGivesUp, Joined, JoinGivesUp, storeVars
  <2> QED  BY <2>1, LineStays DEF Step
<1> QED  BY <1>2, <1>3, <1>4, <1>5, <1>6 DEF ClientStep

----------------------------------------------------------------------------
(* The theorems *)

\* A transaction of the batch in hand, of the head of the queue in the final
\* drain, or of a client that goes past the queue, takes no row back.
LEMMA RowsStep ==
  ASSUME IInv, Next
  PROVE  \A k \in Key \ overtaken : rows'[k] # 0 => rows'[k] >= rows[k]
<1> DEFINE Forward == \A k \in Key \ overtaken : rows'[k] # 0 => rows'[k] >= rows[k]
<1> SUFFICES Forward
  OBVIOUS
<1>1. CASE UNCHANGED rows
  <2>1. \A k \in Key : rows[k] \in Nat
    BY DEF IInv, Shapes
  <2> QED  BY <1>1, <2>1
<1>2. ASSUME NEW items \in Seq(Thing), ProcessBatch(items), Ahead(items) \/ Aside(items)
      PROVE  Forward
  BY <1>2, NoWayBack DEF IInv, Ordered, Aside
<1>3. ASSUME NEW c \in Client, WriteNow(c) \/ AfterFlush(c) PROVE Forward
  <2>1. PICK it \in Thing : it = job[c]
    BY DEF IInv, Shapes
  <2>2. CASE UNCHANGED rows
    BY <1>1, <2>2
  <2>3. CASE ProcessBatch(<<it>>)
    <3>1. it.keys \subseteq overtaken \/ ~IsWrite(it)
      BY <1>3, <2>1 DEF WriteNow, AfterFlush, IInv, Jobs, JobOK, IsWrite
    <3>2. <<it>> \in Seq(Thing) /\ Aside(<<it>>)
      BY <3>1 DEF Aside
    <3> QED  BY <1>2, <2>3, <3>2
  <2> QED  BY <1>3, <2>1, <2>2, <2>3 DEF WriteNow, AfterFlush, storeVars
<1>4. CASE Commit
  <2>1. batch \in Seq(Thing) /\ Ahead(batch)
    BY DEF IInv, Shapes, Ordered
  <2> QED  BY <1>2, <1>4, <2>1 DEF Commit
<1>5. CASE Drain
  <2>1. queue \in Seq(Thing) /\ queue # <<>> /\ Ahead(queue)
    BY <1>5 DEF Drain, IInv, Shapes, Ordered
  <2>2. <<Head(queue)>> \in Seq(Thing) /\ Ahead(<<Head(queue)>>)
    <3>1. Head(queue) \in Thing
      BY <2>1, Tailed
    <3>2. Ahead(<<Head(queue)>>)
      BY <2>1, Shorter
    <3> QED  BY <3>1, <3>2
  <2> QED  BY <1>1, <1>2, <1>5, <2>2 DEF Drain
<1>6. ASSUME NEW c \in Client,
             \/ \E k \in Key : Persist(c, k)
             \/ RecordSpend(c) \/ FlushFirst(c) \/ Close(c) \/ Put(c)
             \/ FlushEmpty(c) \/ FlushGivesUp(c) \/ Joined(c) \/ JoinGivesUp(c)
      PROVE  Forward
  <2>1. UNCHANGED rows
    BY <1>6 DEF Persist, RecordSpend, FlushFirst, Close, Put, FlushEmpty, FlushGivesUp,
                Joined, JoinGivesUp, storeVars
  <2> QED  BY <1>1, <2>1
<1>7. CASE Take \/ Collected \/ LeaveLoop \/ Exit \/ Crash
  <2>1. UNCHANGED rows
    BY <1>7 DEF Take, Collected, LeaveLoop, Exit, Crash, storeVars
  <2> QED  BY <1>1, <2>1
<1> HIDE DEF Forward
<1>8. Forward
  <2>1. CASE WorkerStep \/ Crash
    BY <1>4, <1>5, <1>7, <2>1 DEF WorkerStep
  <2>2. ASSUME NEW c \in Client,
               \/ \E k \in Key : Persist(c, k)
               \/ RecordSpend(c) \/ FlushFirst(c) \/ Close(c) \/ ClientStep(c)
        PROVE  Forward
    <3>1. CASE WriteNow(c) \/ AfterFlush(c)
      BY <1>3, <3>1
    <3>2. CASE ~(WriteNow(c) \/ AfterFlush(c))
      BY <1>6, <2>2, <3>2 DEF ClientStep
    <3> QED  BY <3>1, <3>2
  <2> QED  BY <2>1, <2>2 DEF Next
<1> QED  BY <1>8

\* When close() returns with its worker joined, nothing accepted before it was
\* called is in the queue or in the worker's hand.
THEOREM ClosingDrains == Spec => []CloseDrains
<1>1. IInv => CloseDrains
  <2> SUFFICES ASSUME IInv, NEW c \in Client, pc[c] = "closed" PROVE Unwritten \subseteq late
    BY DEF CloseDrains
  <2>1. worker = "exited"
    BY DEF IInv, Jobs, JobOK
  <2>2. batch = <<>> /\ \A i \in 1..Len(queue) : queue[i].id \in late \union {0}
    BY <2>1 DEF IInv, Closing
  <2>3. queue \in Seq(Thing)
    BY DEF IInv, Shapes
  <2> QED  BY <2>2, <2>3 DEF Unwritten, Ids
<1> QED  BY <1>1, InitIInv, NextIInv, PTL DEF Spec

\* Batches, the final drain and the direct writes of other keys take no row
\* back to an older write.
THEOREM RowsNeverRegress == Spec => DbNeverRegresses
<1>1. IInv /\ [Next]_vars => [\A k \in Key \ overtaken : rows'[k] # 0 => rows'[k] >= rows[k]]_vars
  BY RowsStep DEF vars, IInv, Shapes
<1> QED  BY <1>1, InitIInv, NextIInv, PTL DEF Spec, DbNeverRegresses

\* A write that a delete answered for is not in the table after it: the flush
\* left it nowhere it could come from.
THEOREM DeletesAreFinal == Spec => []DeletedStaysDeleted
<1>1. Init => GInv
  BY DEF Init, GInv, Plain, Bare, Deletes, Flushing, Gone
<1>2. GInv => DeletedStaysDeleted
  BY DEF GInv, Gone, DeletedStaysDeleted
<1> QED  BY <1>1, <1>2, InitIInv, NextIInv, NextGInv, PTL DEF Spec

\* Nothing is recorded at the start.
LEMMA InitSInv == Init => SInv
<1> SUFFICES ASSUME Init PROVE SInv
  OBVIOUS
<1>1. Putters = {}
  BY DEF Init, Putters
<1>2. IsFiniteSet(Putters) /\ Cardinality(Putters) = 0
  BY <1>1, FS_EmptySet
<1>3. SpendIn(queue) = 0 /\ SpendIn(batch) = 0
  BY StopSpendsNothing, SpendAlone DEF Init
<1> QED  BY <1>2, <1>3 DEF Init, SInv, Sum

\* Each recorded spend is in the key's row once, lost with a transaction or the
\* process, or still on its way.
THEOREM SpendIsCountedOnce == Spec => []SpendCountedOnce
<1>1. SInv => SpendCountedOnce
  BY DEF SInv, Sum, SpendIn, Putters, SpendCountedOnce
<1> QED  BY <1>1, InitIInv, InitSInv, NextIInv, NextSInv, PTL DEF Spec

\* Nothing is called at the start.
LEMMA InitTInv == StoreAssumption /\ Init => TInv
<1> SUFFICES ASSUME StoreAssumption, Init PROVE TInv
  OBVIOUS
<1>1. <<>> \in Seq(Item) /\ Len(<<>>) = 0 /\ 0 \in 0..MaxOps /\ QueueMax >= 0 /\ BatchMax >= 0
  BY StoreAssumption DEF StoreAssumption
<1>2. LinesOK
  BY <1>1 DEF Init, LinesOK
<1>3. CallsOK
  BY StoreAssumption, StopItem DEF Init, CallsOK, Labels
<1>4. TableOK /\ CountsOK
  BY <1>1 DEF Init, TableOK, CountsOK
<1> QED  BY <1>2, <1>3, <1>4 DEF TInv

\* The queue and the batch stay within their limits, whoever appends and takes;
\* the rows, the lines and the history name only operations that were called;
\* neither spend nor loss exceeds what was recorded.
THEOREM TypeCorrect == Spec => []TypeOK
<1>1. IInv /\ SInv /\ TInv => TypeOK
  <2> SUFFICES ASSUME IInv, SInv, TInv PROVE TypeOK
    OBVIOUS
  <2>1. SpendIn(queue) \in Nat /\ SpendIn(batch) \in Nat
    BY SpendIsNat DEF IInv, Shapes
  <2>2. Cardinality(Putters) \in Nat
    BY FS_CardinalityType DEF SInv
  <2>3. clock \in 0..MaxOps /\ recorded \in 0..clock /\ spent \in Nat /\ lost \in Nat
    BY DEF TInv, CountsOK
  <2>4. spent <= recorded /\ lost <= recorded
    BY <2>1, <2>2, <2>3 DEF SInv, Sum
  <2>5. {recorded, spent, lost} \subseteq 0..MaxOps
    BY <2>3, <2>4, StoreAssumption DEF StoreAssumption
  <2>6. running \in BOOLEAN
    BY DEF IInv, Shapes
  <2> QED  BY <2>5, <2>6 DEF TInv, LinesOK, CallsOK, TableOK, CountsOK, Labels, TypeOK
<1> QED
  BY <1>1, StoreAssumption, InitIInv, NextIInv, InitSInv, NextSInv, InitTInv, NextTInv, PTL DEF Spec

\* The store keeps the promise of WriteBehind: what it accepts takes effect in
\* the order of the line, in transactions that fail as a whole, whatever the
\* clients, the worker, the failing transactions and the crashes do.
THEOREM Refinement == Spec => InOrder
<1>1. Init => WB!Init
  <2> SUFFICES ASSUME Init PROVE WB!Init
    OBVIOUS
  <2>1. PICK e \in Seq(Thing) : e = <<>> /\ Len(e) = 0
    <3>1. <<>> \in Seq(Thing) /\ Len(<<>>) = 0
      OBVIOUS
    <3> QED  BY <3>1
  <2>2. \A j \in 1..Len(e) : e[j] # Stop
    BY <2>1
  <2>3. RemoveFirst(queue, Stop) = <<>> /\ batch = <<>>
    BY <2>1, <2>2, NoneToRemove DEF Init
  <2>4. Pending = <<>>
    BY <2>1, <2>3, JoinedToNone DEF Pending
  <2> QED  BY <2>4 DEF Init, WB!Init, WB!None
<1>2. Init => RInv
  BY DEF Init, RInv, Kinds, OneStop
<1>3. IInv /\ RInv /\ TInv /\ TInv' /\ [Next]_vars => [WB!Next]_WB!wvars
  <2> SUFFICES ASSUME IInv, RInv, TInv, TInv', [Next]_vars PROVE Step
    BY DEF Step
  <2>1. spent \in Nat
    BY DEF TInv, CountsOK
  <2>2. CASE WorkerStep
    <3>1. CASE Collected \/ LeaveLoop \/ Exit
      <4>1. UNCHANGED <<queue, batch, rows, spent>>
        BY <3>1 DEF Collected, LeaveLoop, Exit, storeVars
      <4> QED  BY <4>1, LineStays DEF Step
    <3> QED  BY <2>1, <2>2, <3>1, LineTaken, LineCommitted, LineDrained DEF WorkerStep
  <2>3. CASE UNCHANGED vars
    BY <2>3, LineStays DEF vars, Step
  <2> QED  BY <2>2, <2>3, LineOfClients, LineCrashes DEF Next
<1> QED
  BY <1>1, <1>2, <1>3, NextRInv, StoreAssumption, InitIInv, NextIInv, InitSInv, NextSInv, InitTInv, NextTInv, PTL
     DEF Spec, InOrder, WB!Spec
=============================================================================
