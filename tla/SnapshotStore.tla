--------------------------- MODULE SnapshotStore ---------------------------
(***************************************************************************)
(* persistence/snapshot_store.py: SnapshotStore with write-behind enabled. *)
(*                                                                         *)
(* Client threads (the event loop, the threads asyncio.to_thread starts)   *)
(* call the store; one worker thread drains the queue in batches; each     *)
(* SQLite transaction is one step.  A cache row is the id of the write it  *)
(* holds; scopes stand for the rows a delete by key, tag or organisation   *)
(* matches.  The virtual key's row is its spend, in units.                 *)
(***************************************************************************)
EXTENDS Naturals, Sequences, FiniteSets, SequencesExt

CONSTANTS
  Client,    \* threads that call the store
  Key,       \* primary keys of cache_records
  Scopes,    \* the sets of keys that deletes match
  Ops,       \* the operations the clients use
  QueueMax,  \* maxsize of the queue (50000)
  BatchMax,  \* batch_max (100)
  MaxOps,    \* bound: operations called in a behaviour
  DbFaults,  \* TRUE: a transaction may fail (locked database, full disk)
  Crashes    \* TRUE: the process may die and start again

Operations == {"persist", "persist_sync", "spend", "delete", "read", "close"}

ASSUME StoreAssumption ==
  /\ Scopes \subseteq SUBSET Key
  /\ Ops \subseteq Operations
  /\ QueueMax \in Nat \ {0}
  /\ BatchMax \in Nat \ {0}
  /\ MaxOps \in Nat
  /\ {DbFaults, Crashes} \subseteq BOOLEAN

VARIABLES
  queue,     \* _write_queue
  batch,     \* what the worker has taken and not yet committed
  worker,    \* where the worker is
  running,   \* _running
  rows,      \* cache_records
  spent,     \* current_spend_usd in virtual_keys
  pc,        \* where each client is
  job,       \* the item each client is busy with
  clock,     \* the id of the last operation called
  gone,      \* history: <<k, n>>: a delete of k was to remove write n
  awaited,   \* history: writes accepted when each client began to flush
  overtaken, \* history: keys written directly past the queue
  late,      \* history: items accepted once the store was closing
  recorded,  \* history: spend recorded since the start
  lost       \* history: spend in transactions that failed or died in a crash

vars == <<queue, batch, worker, running, rows, spent, pc, job, clock,
          gone, awaited, overtaken, late, recorded, lost>>
storeVars == <<rows, spent>>
history == <<gone, awaited, overtaken, late, recorded, lost>>

Item == [op : {"insert_cache", "spend_key", "delete", "read", "stop"},
         keys : SUBSET Key, id : 0..MaxOps, covers : SUBSET (1..MaxOps)]

Ids(s) == {s[i].id : i \in DOMAIN s}
Writing == {job[c].id : c \in {d \in Client : pc[d] = "write"}}

Write(n, k) == [op |-> "insert_cache", keys |-> {k}, id |-> n, covers |-> {}]
Spend(n) == [op |-> "spend_key", keys |-> {}, id |-> n, covers |-> {}]
\* covers (history): the operations that have returned by now, and others
\* that are no writes.
Delete(n, scope) ==
  [op |-> "delete", keys |-> scope, id |-> n,
   covers |-> IF running THEN (1..clock) \ Writing ELSE {}]
Read(n) == [op |-> "read", keys |-> {}, id |-> n, covers |-> {}]
Stop == [op |-> "stop", keys |-> {}, id |-> 0, covers |-> {}]

Unwritten == (Ids(queue) \union Ids(batch)) \ {0}

Init ==
  /\ queue = <<>> /\ batch = <<>> /\ worker = "get" /\ running = TRUE
  /\ rows = [k \in Key |-> 0] /\ spent = 0
  /\ pc = [c \in Client |-> "idle"] /\ job = [c \in Client |-> Stop]
  /\ clock = 0 /\ gone = {} /\ awaited = [c \in Client |-> {}]
  /\ overtaken = {} /\ late = {} /\ recorded = 0 /\ lost = 0

----------------------------------------------------------------------------
(* The SQLite transaction of a batch *)

\* The last write of a batch to a key wins.
LastWrite(items, k) ==
  LET at == {i \in DOMAIN items : items[i].op = "insert_cache" /\ k \in items[i].keys}
  IN  items[CHOOSE i \in at : \A j \in at : j <= i].id

OfOp(items, op) == {i \in DOMAIN items : items[i].op = op}
Touched(items, op) == UNION {items[i].keys : i \in OfOp(items, op)}

\* Mutant: INSERT OR IGNORE.
RowsAfter_Ignore(items) ==
  [k \in Key |-> IF k \in Touched(items, "delete") THEN 0
                 ELSE IF k \in Touched(items, "insert_cache") /\ rows[k] = 0
                      THEN LastWrite(items, k) ELSE rows[k]]
\* The batch is sorted by kind: all inserts first, all deletes last.
RowsAfter(items) ==
  [k \in Key |-> IF k \in Touched(items, "delete") THEN 0
                 ELSE IF k \in Touched(items, "insert_cache")
                      THEN LastWrite(items, k) ELSE rows[k]]

\* _process_batch: one transaction, whose failure is logged and swallowed.
ProcessBatch(items) ==
  \/ /\ rows' = RowsAfter(items)
     /\ spent' = spent + Cardinality(OfOp(items, "spend_key"))
     /\ gone' = gone \union UNION {items[i].keys \X items[i].covers : i \in DOMAIN items}
     /\ UNCHANGED lost
  \/ /\ DbFaults
     /\ lost' = lost + Cardinality(OfOp(items, "spend_key"))
     /\ UNCHANGED <<rows, spent, gone>>

----------------------------------------------------------------------------
(* Clients *)

Goto(c, label) == pc' = [pc EXCEPT ![c] = label]
Busy(c, label, it) == Goto(c, label) /\ job' = [job EXCEPT ![c] = it]
Done(c) == Busy(c, "idle", Stop)
Begin(c, op) ==
  /\ pc[c] = "idle" /\ op \in Ops /\ clock < MaxOps
  /\ clock' = clock + 1
Accept(it) ==
  /\ queue' = Append(queue, it)
  /\ late' = IF running THEN late ELSE late \union {it.id}

\* persist_entry and persist_entry_async: put_nowait, or write at once when
\* asked to or when the queue is full.
Persist(c, k) ==
  LET it == Write(clock + 1, k) IN
  /\ \/ /\ Begin(c, "persist")
        /\ Len(queue) < QueueMax
        /\ Accept(it)
        /\ UNCHANGED <<pc, job, overtaken>>
     \/ /\ \/ Begin(c, "persist") /\ Len(queue) >= QueueMax
           \/ Begin(c, "persist_sync")
        /\ Busy(c, "write", it)
        /\ overtaken' = overtaken \union {k}
        /\ UNCHANGED <<queue, late>>
  /\ UNCHANGED <<batch, worker, running, storeVars, gone, awaited, recorded, lost>>

\* The synchronous write.  The caller is not told when it fails.
WriteNow(c) ==
  /\ pc[c] = "write"
  /\ ProcessBatch(<<job[c]>>)
  /\ Done(c)
  /\ UNCHANGED <<queue, batch, worker, running, clock, awaited, overtaken, late,
                 recorded>>

\* record_virtual_key_spend: a blocking put.
RecordSpend(c) ==
  /\ Begin(c, "spend")
  /\ Busy(c, "put", Spend(clock + 1))
  /\ recorded' = recorded + 1
  /\ UNCHANGED <<queue, batch, worker, running, storeVars, gone, awaited,
                 overtaken, late, lost>>

Put(c) ==
  /\ pc[c] = "put"
  /\ Len(queue) < QueueMax
  /\ Accept(job[c])
  /\ IF job[c] = Stop THEN Busy(c, "join", Stop) ELSE Done(c)
  /\ UNCHANGED <<batch, worker, running, storeVars, clock, gone, awaited,
                 overtaken, recorded, lost>>

\* delete_entry, delete_by_tag, purge_all, and the queries that flush first.
\* A store that is closing does not flush: its deletes answer for nothing.
FlushFirst(c) ==
  LET label == IF running THEN "flush" ELSE "ready" IN
  /\ \/ /\ Begin(c, "delete")
        /\ \E scope \in Scopes : Busy(c, label, Delete(clock + 1, scope))
     \/ /\ Begin(c, "read")
        /\ Busy(c, label, Read(clock + 1))
  /\ awaited' = [awaited EXCEPT ![c] = Unwritten]
  /\ UNCHANGED <<queue, batch, worker, running, storeVars, gone, overtaken, late,
                 recorded, lost>>

\* flush() sees an empty queue, then sleeps 20 ms: a prompt worker commits
\* the batch it holds before that is over.
\* Mutant: no sleep.
FlushEmpty_NoSleep(c) ==
  /\ pc[c] = "flush"
  /\ queue = <<>>
  /\ Goto(c, "ready")
  /\ UNCHANGED <<queue, batch, worker, running, storeVars, job, clock, history>>

FlushEmpty(c) ==
  /\ pc[c] = "flush"
  /\ queue = <<>>
  /\ Goto(c, IF batch = <<>> THEN "ready" ELSE "settle")
  /\ UNCHANGED <<queue, batch, worker, running, storeVars, job, clock, history>>

\* flush() gives up after a second, or its sleep ends before the batch is
\* committed.  A delete then no longer answers for the writes it covers.
FlushGivesUp(c) ==
  /\ \/ pc[c] = "flush" /\ queue # <<>>
     \/ pc[c] = "settle"
  /\ Goto(c, "ready")
  /\ job' = [job EXCEPT ![c].covers = {}]
  /\ UNCHANGED <<queue, batch, worker, running, storeVars, clock, history>>

\* The query or the DELETE that follows the flush.
AfterFlush(c) ==
  /\ pc[c] = "ready"
  /\ IF job[c].op = "delete" THEN ProcessBatch(<<job[c]>>)
                             ELSE UNCHANGED <<storeVars, gone, lost>>
  /\ Done(c)
  /\ awaited' = [awaited EXCEPT ![c] = {}]
  /\ UNCHANGED <<queue, batch, worker, running, clock, overtaken, late, recorded>>

\* close(): the flag, then the None item, then join with a timeout of 3 s.
Close(c) ==
  /\ Begin(c, "close")
  /\ running
  /\ running' = FALSE
  /\ Busy(c, IF worker = "exited" THEN "closed" ELSE "put", Stop)
  /\ UNCHANGED <<queue, batch, worker, storeVars, history>>

Joined(c) ==
  /\ pc[c] = "join"
  /\ worker = "exited"
  /\ Goto(c, "closed")
  /\ UNCHANGED <<queue, batch, worker, running, storeVars, job, clock, history>>

JoinGivesUp(c) ==
  /\ pc[c] = "join"
  /\ worker # "exited"
  /\ Goto(c, "idle")
  /\ UNCHANGED <<queue, batch, worker, running, storeVars, job, clock, history>>

----------------------------------------------------------------------------
(* The worker *)

WorkerGoto(label) == worker' = label
clientVars == <<running, job, clock>>

\* Mutants: a batch one too long; the newest item first.
Take_OneMore ==
  /\ worker \in {"get", "collect"}
  /\ Len(batch) <= BatchMax
  /\ queue # <<>>
  /\ queue' = Tail(queue)
  /\ WorkerGoto("collect")
  /\ batch' = Append(batch, Head(queue))
  /\ UNCHANGED <<clientVars, storeVars, pc, history>>
Take_Newest ==
  /\ worker \in {"get", "collect"}
  /\ Len(batch) < BatchMax
  /\ queue # <<>>
  /\ queue' = Front(queue)
  /\ WorkerGoto("collect")
  /\ batch' = Append(batch, Last(queue))
  /\ UNCHANGED <<clientVars, storeVars, pc, history>>

\* get(), which may be under way when the flag falls, then get_nowait() until
\* the queue is empty, the batch is full or None comes.  None ends the loop at
\* once, or the batch and then the loop (the flag is down by then).
Take ==
  /\ worker \in {"get", "collect"}
  /\ Len(batch) < BatchMax
  /\ queue # <<>>
  /\ queue' = Tail(queue)
  /\ IF Head(queue) = Stop
       THEN /\ WorkerGoto(IF batch = <<>> THEN "drain" ELSE "commit")
            /\ UNCHANGED batch
       ELSE /\ WorkerGoto("collect")
            /\ batch' = Append(batch, Head(queue))
  /\ UNCHANGED <<clientVars, storeVars, pc, history>>

Collected ==
  /\ worker = "collect"
  /\ queue = <<>> \/ Len(batch) >= BatchMax
  /\ WorkerGoto("commit")
  /\ UNCHANGED <<queue, batch, clientVars, storeVars, pc, history>>

\* Mutants: the batch is not cleared; a failing transaction ends the thread.
Commit_KeepsBatch ==
  /\ worker = "commit"
  /\ ProcessBatch(batch)
  /\ WorkerGoto(IF running THEN "get" ELSE "drain")
  /\ pc' = [c \in Client |-> IF pc[c] = "settle" THEN "ready" ELSE pc[c]]
  /\ UNCHANGED <<queue, batch, clientVars, awaited, overtaken, late,
                 recorded>>
Commit_DiesOnError ==
  /\ worker = "commit"
  /\ \/ /\ ProcessBatch(batch)
        /\ batch' = <<>>
        /\ WorkerGoto("get")
     \/ DbFaults /\ WorkerGoto("dead") /\ UNCHANGED <<batch, rows, spent, gone, lost>>
  /\ UNCHANGED <<queue, clientVars, pc, awaited, overtaken, late,
                 recorded>>

\* The batch is committed (or dropped, when the transaction fails).  The
\* clients asleep in flush() wake after it.
Commit ==
  /\ worker = "commit"
  /\ ProcessBatch(batch)
  /\ batch' = <<>>
  /\ WorkerGoto(IF running THEN "get" ELSE "drain")
  /\ pc' = [c \in Client |-> IF pc[c] = "settle" THEN "ready" ELSE pc[c]]
  /\ UNCHANGED <<queue, clientVars, awaited, overtaken, late, recorded>>

\* The loop ends when the flag is down.
LeaveLoop ==
  /\ worker = "get"
  /\ ~running
  /\ WorkerGoto("drain")
  /\ UNCHANGED <<queue, batch, clientVars, storeVars, pc, history>>

\* The final drain, item by item. Its except clause, which only a worker with
\* no connection of its own yet could reach, is left out.
Drain ==
  /\ worker = "drain"
  /\ queue # <<>>
  /\ queue' = Tail(queue)
  /\ IF Head(queue) = Stop THEN UNCHANGED <<rows, spent, gone, lost>>
                           ELSE ProcessBatch(<<Head(queue)>>)
  /\ UNCHANGED <<batch, worker, clientVars, pc, awaited, overtaken,
                 late, recorded>>

\* Mutant: the worker ends without the final drain.
Exit_NoDrain ==
  /\ worker = "drain"
  /\ WorkerGoto("exited")
  /\ UNCHANGED <<queue, batch, clientVars, storeVars, pc, history>>

Exit ==
  /\ worker = "drain"
  /\ queue = <<>>
  /\ WorkerGoto("exited")
  /\ UNCHANGED <<queue, batch, clientVars, storeVars, pc, history>>

----------------------------------------------------------------------------
(* The process dies and is started again *)
Crash ==
  /\ Crashes
  /\ queue' = <<>> /\ batch' = <<>> /\ worker' = "get" /\ running' = TRUE
  /\ pc' = [c \in Client |-> "idle"]
  /\ job' = [c \in Client |-> Stop]
  /\ awaited' = [c \in Client |-> {}]
  /\ lost' = recorded - spent
  /\ UNCHANGED <<storeVars, clock, gone, overtaken, late, recorded>>

ClientStep(c) == \/ WriteNow(c) \/ Put(c) \/ FlushEmpty(c) \/ FlushGivesUp(c)
                 \/ AfterFlush(c) \/ Joined(c) \/ JoinGivesUp(c)
WorkerStep == Take \/ Collected \/ Commit \/ LeaveLoop \/ Drain \/ Exit

Next ==
  \/ \E c \in Client : \/ \E k \in Key : Persist(c, k)
                       \/ RecordSpend(c) \/ FlushFirst(c) \/ Close(c)
                       \/ ClientStep(c)
  \/ WorkerStep
  \/ Crash

Spec == Init /\ [][Next]_vars
Fairness == /\ WF_vars(WorkerStep)
            /\ \A c \in Client : WF_vars(ClientStep(c))
FairSpec == Spec /\ Fairness
----------------------------------------------------------------------------
(* Properties *)

TypeOK ==
  /\ queue \in Seq(Item) /\ Len(queue) <= QueueMax
  /\ batch \in Seq(Item) /\ Len(batch) <= BatchMax
  /\ worker \in {"get", "collect", "commit", "drain", "exited"}
  /\ running \in BOOLEAN
  /\ rows \in [Key -> 0..MaxOps]
  /\ spent \in 0..MaxOps
  /\ pc \in [Client -> {"idle", "write", "put", "flush", "settle", "ready",
                        "join", "closed"}]
  /\ job \in [Client -> Item]
  /\ clock \in 0..MaxOps
  /\ gone \subseteq Key \X (1..MaxOps)
  /\ awaited \in [Client -> SUBSET (1..MaxOps)]
  /\ overtaken \subseteq Key
  /\ late \subseteq 0..MaxOps
  /\ recorded \in 0..MaxOps /\ lost \in 0..MaxOps

\* "Blocks until the write-behind queue has fully drained and committed to
\* SQLite": when flush returns, nothing that was accepted when it was called
\* is still in the queue or in the worker's hand.
FlushMeansCommitted ==
  \A c \in Client : pc[c] = "ready" => awaited[c] \cap Unwritten = {}

\* No entry comes back from the write-behind queue: a write that had been
\* accepted when a delete, an invalidation or a purge was called is not in the
\* table after it, if its flush neither gave up nor was skipped by a store
\* that is closing (flush, then DELETE).
DeletedStaysDeleted == \A k \in Key : <<k, rows[k]>> \notin gone

\* Each recorded spend reaches the key's row exactly once, is on its way, or
\* went down with a failing transaction or the process: a batch is never
\* applied twice, in part, or skipped.
SpendCountedOnce ==
  LET inLine(s) == Cardinality(OfOp(s, "spend_key")) IN
  spent + lost + inLine(queue) + inLine(batch)
        + Cardinality({c \in Client : pc[c] = "put" /\ job[c].op = "spend_key"})
    = recorded

\* When close() returns with its worker joined, nothing accepted before it was
\* called is left: the loop, the batch in hand and the final drain took it all.
CloseDrains == \A c \in Client : pc[c] = "closed" => Unwritten \subseteq late

\* The table never goes back to an older write of a key, unless one went past
\* the queue (the synchronous write of persist_entry on queue.Full).
DbNeverRegresses ==
  [][\A k \in Key \ overtaken : rows'[k] # 0 => rows'[k] >= rows[k]]_vars

\* The worker outlives every failing transaction: what is accepted leaves the
\* queue and the worker's hand in the end, unless the store was closing.
QueueMoves ==
  \A n \in 1..MaxOps : n \in Unwritten \ late ~> n \notin Unwritten

\* Every call of the store returns: a full queue, a long flush or a join
\* holds a client (the event loop, in the gateway) only for a while, unless
\* a closed store has been filled to the brim.
CallsReturn ==
  \A c \in Client :
    pc[c] # "idle" ~> \/ pc[c] \in {"idle", "closed"}
                      \/ worker = "exited" /\ Len(queue) = QueueMax

\* The queue moves and calls return: neither a failing transaction nor a full
\* queue stalls the store or its clients for ever.
NothingStalls == QueueMoves /\ CallsReturn

----------------------------------------------------------------------------
(* The queue and the worker's hand together are the line of WriteBehind *)

\* The None of close() is in the queue at most once, and no write.
Pending == batch \o RemoveFirst(queue, Stop)
WB == INSTANCE WriteBehind WITH pend <- Pending

\* Batches take effect as if their writes had been carried out one by one, in
\* the order they were accepted, or fail as a whole.
InOrder == WB!Spec
=============================================================================
