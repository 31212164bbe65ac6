---------------------------- MODULE CacheFabric ----------------------------
(***************************************************************************)
(* The gateway's answers to text requests: the exact cache (L1), the       *)
(* semantic cache (L2) and the conversation trie of one process, and the   *)
(* rows of the SQLite snapshot the process starts from (server/gateway.py, *)
(* core/vector_cache.py, core/storage.py, core/radix_tree.py,              *)
(* mcp/server.py).                                                         *)
(*                                                                         *)
(* A handler runs on the event loop without interruption from the parsed   *)
(* request to its upstream call, and from the answer to its end: each is   *)
(* one step.  The write-behind queue commits entry by entry (SnapshotStore *)
(* has its batches, faults and overflow), a flight ends with its leader    *)
(* (SingleFlight has its messages and timeouts).                           *)
(***************************************************************************)
EXTENDS Naturals, Sequences, FiniteSets, SequencesExt

CONSTANTS
  Caller,     \* requests that can be under way together
  Query,      \* exact hashes of payloads
  Tag,        \* values of X-Cache-Tag
  NoTag,      \* no such header
  Org,        \* organisations
  OrgOf,      \* the organisation of each query's caller
  TalkOf,     \* model and messages of each query: its path in the trie
  Single,     \* single-turn text without tools and schema: the L2 queries
  Alike,      \* <<q, r>>: q's prompt may be answered by r's entry
  Messages,   \* queries to /v1/messages; the others go to chat completions
  MaxEntries, \* MAX_CACHE_ENTRIES_PER_TENANT
  MaxTalks,   \* conversations the trie holds before it is emptied
  MaxClock    \* bound: stores, touches, deletes, ends of TTLs and restarts

ASSUME FabricAssumption ==
  /\ OrgOf \in [Query -> Org] /\ DOMAIN TalkOf = Query
  /\ NoTag \notin Tag /\ "every" \notin Org
  /\ Messages \subseteq Query /\ Single \subseteq Query
  /\ Alike \subseteq Query \X Query
  /\ \A q \in Query : <<q, q>> \in Alike
  /\ {MaxEntries, MaxTalks, MaxClock} \subseteq Nat \ {0}

VARIABLES
  l1,      \* l1_exact_cache: its entries
  l2,      \* l2_semantic_cache: a list of entries for each organisation
  talks,   \* the completions at the nodes of radix_tree
  used,    \* last_accessed_at of the entry stored at each time
  tasks,   \* entries whose persist_entry_async task has not run yet
  queue,   \* _write_queue and the worker's batch
  db,      \* cache_records
  calls,   \* the requests under way
  expired, \* the times at which entries were stored that have expired
  clock,
  deleted, \* history: entries a delete has covered
  escaped, \* history: entries a delete could not reach on their way to db
  crossed, \* history: queries stored past a task that waits
  restored \* history: queries whose rows the last start put into L2

vars == <<l1, l2, talks, used, tasks, queue, db, calls, expired, clock,
          deleted, escaped, crossed, restored>>
memory == <<l1, l2, talks, used>>
disk == <<tasks, queue, db>>
history == <<deleted, escaped, crossed, restored>>

Entry == [query : Query, tag : Tag \union {NoTag}, at : 1..MaxClock]
Idle == [state |-> "idle"]
Call == {Idle} \union [state : {"fetch", "wait", "stream"}, query : Query]

Of(S, q) == {e \in S : e.query = q}
Put(S, e) == (S \ Of(S, e.query)) \union {e}
Semantic == UNION {ToSet(l2[o]) : o \in Org}
InTransit == ToSet(queue) \union ToSet(tasks)

Init ==
  /\ l1 = {} /\ l2 = [o \in Org |-> <<>>] /\ talks = {} /\ used = [n \in 1..MaxClock |-> n]
  /\ tasks = <<>> /\ queue = <<>> /\ db = {}
  /\ calls = [c \in Caller |-> Idle]
  /\ expired = {} /\ clock = 0
  /\ deleted = {} /\ escaped = {} /\ crossed = {} /\ restored = {}

----------------------------------------------------------------------------
(* Lists *)

\* The items of a list at the positions of DOMAIN before, each after those at
\* before[i].
Arrange(list, before) ==
  [k \in 1..Cardinality(DOMAIN before) |->
     list[CHOOSE i \in DOMAIN before : Cardinality(before[i]) = k - 1]]

Without(list, gone) ==
  LET kept == {i \in DOMAIN list : list[i] \notin gone}
  IN  Arrange(list, [i \in kept |-> {j \in kept : j < i}])

\* The first position of a query's copies, 0 without one.
FirstOf(list, q) == SelectInSeq(list, LAMBDA x : x.query = q)

\* sort by last_accessed_at, which is stable.
ByAccess(list, stamps) ==
  Arrange(list, [i \in DOMAIN list |->
    {j \in DOMAIN list : \/ stamps[list[j].at] < stamps[list[i].at]
                         \/ stamps[list[j].at] = stamps[list[i].at] /\ j < i}])

----------------------------------------------------------------------------
(* The two tiers and the trie *)

\* is_expired.
IsLive(e) == e.at \notin expired
\* get_exact: the unexpired entry of a query; an expired one goes.
GetExact(q) == {e \in Of(l1, q) : IsLive(e)}
AfterGetExact(q) == l1 \ {e \in Of(l1, q) : ~IsLive(e)}

\* lookup, before it looks at L2: expired entries leave the list.
Active(q) ==
  IF q \in Single
    THEN Without(l2[OrgOf[q]], {e \in ToSet(l2[OrgOf[q]]) : ~IsLive(e)})
    ELSE <<>>
\* The entries lookup may find best: of copies with one key, the first.
Matches(q) ==
  {i \in DOMAIN Active(q) :
     /\ <<q, Active(q)[i].query>> \in Alike
     /\ \A j \in 1..(i - 1) : Active(q)[j].query # Active(q)[i].query}
AfterSearch(q, list) ==
  IF q \in Single THEN [l2 EXCEPT ![OrgOf[q]] = list] ELSE l2

\* int(len * 0.1), at least one.
EvictCount(n) == IF n < 20 THEN 1 ELSE n \div 10
\* Mutant: the tail goes, with the newest entries.
Evict_Newest(list, stamps) ==
  IF Len(list) <= MaxEntries THEN list
  ELSE SubSeq(ByAccess(list, stamps), 1, Len(list) - EvictCount(Len(list)))
\* The list by last_accessed_at without its oldest entries.
Evict(list, stamps) ==
  IF Len(list) <= MaxEntries THEN list
  ELSE SubSeq(ByAccess(list, stamps), EvictCount(Len(list)) + 1, Len(list))

\* Mutant: append without looking for the key.
AddSemantic_Appends(list, e, stamps) == Evict(Append(list, e), stamps)
\* add_semantic_entry: the first copy of the key is replaced, the others stay.
AddSemantic(list, e, stamps) ==
  LET i == FirstOf(list, e.query)
  IN  Evict(IF i = 0 THEN Append(list, e) ELSE [list EXCEPT ![i] = e], stamps)

\* insert_conversation: a full trie is emptied first; what was at the node
\* for this organisation and model is replaced.
SameTalk(q, r) == TalkOf[q] = TalkOf[r] /\ OrgOf[q] = OrgOf[r]
InsertTalk(e) ==
  LET kept == IF Cardinality(talks) >= MaxTalks THEN {} ELSE talks
  IN  {x \in kept : ~SameTalk(x.query, e.query)} \union {e}
\* lookup_conversation: neither time nor the other parameters are compared.
FindTalk(q) == {e \in talks : SameTalk(e.query, q)}

Touched(e) == [used EXCEPT ![e.at] = clock + 1]
Tick == clock < MaxClock /\ clock' = clock + 1

----------------------------------------------------------------------------
(* Requests *)

\* L1 hit: touch() stamps the object both tiers share.
HitExact(q) ==
  /\ Tick
  /\ \E e \in GetExact(q) : used' = Touched(e)
  /\ UNCHANGED <<l1, l2, talks>>

\* L2 hit: the entry found is touched and added again.
HitSemantic(q) ==
  /\ Tick /\ GetExact(q) = {} /\ l1' = AfterGetExact(q)
  /\ \E i \in Matches(q) :
       LET e == Active(q)[i] IN
       /\ used' = Touched(e)
       /\ l2' = AfterSearch(q, AddSemantic(Active(q), e, Touched(e)))
  /\ UNCHANGED talks

\* What a lookup that found nothing in L1 and L2 leaves behind.
NotCached(q) ==
  /\ GetExact(q) = {} /\ Matches(q) = {}
  /\ l1' = AfterGetExact(q) /\ l2' = AfterSearch(q, Active(q))
  /\ UNCHANGED <<used, talks, clock>>

\* The trie comes after a miss and after a bypass of L2.
HitTalk(q) == NotCached(q) /\ FindTalk(q) # {}

Lookup(c, q) ==
  /\ calls[c] = Idle
  /\ HitExact(q) \/ HitSemantic(q) \/ HitTalk(q)
  /\ UNCHANGED <<disk, calls, expired, history>>
ChatHit(c, q) == q \notin Messages /\ Lookup(c, q)
MessagesHit(c, q) == q \in Messages /\ Lookup(c, q)

\* A miss, or X-Cache-Bypass, which looks nowhere, goes upstream: a plain
\* request joins the flight of its key, a streamed one always calls.  (No
\* request comes in at the bound, where nothing could be stored.)
Flight(q) == {c \in Caller : calls[c].state = "fetch" /\ calls[c].query = q}
Waiters(q) == {c \in Caller : calls[c].state = "wait" /\ calls[c].query = q}
GoUpstream(c, q) ==
  /\ calls[c] = Idle /\ clock < MaxClock
  /\ \/ NotCached(q) /\ FindTalk(q) = {}
     \/ UNCHANGED <<memory, clock>>
  /\ \E s \in {IF Flight(q) = {} THEN "fetch" ELSE "wait", "stream"} :
       calls' = [calls EXCEPT ![c] = [state |-> s, query |-> q]]
  /\ UNCHANGED <<disk, expired, history>>
ChatMiss(c, q) == q \notin Messages /\ GoUpstream(c, q)
MessagesMiss(c, q) == q \in Messages /\ GoUpstream(c, q)

\* DualTierCache.store.
StoreBoth(e) ==
  /\ l1' = Put(l1, e)
  /\ l2' = IF e.query \in Single
           THEN [l2 EXCEPT ![OrgOf[e.query]] = AddSemantic(@, e, used)] ELSE l2
  /\ UNCHANGED used
\* A leader, or a stream that ended cleanly, stores what it fetched, under
\* the tag the request came with; /v1/messages has none.
Tags(q) == IF q \in Messages THEN {NoTag} ELSE Tag \union {NoTag}
Keep(q) ==
  /\ Tick
  /\ \E t \in Tags(q) :
       LET e == [query |-> q, tag |-> t, at |-> clock + 1] IN
       /\ StoreBoth(e)
       /\ tasks' = Append(tasks, e)
       /\ talks' = InsertTalk(e)
  /\ crossed' = crossed \ {q}
  /\ UNCHANGED <<queue, db, expired, deleted, escaped, restored>>
\* An upstream status other than 200, or a stream cut off: nothing is kept.
Discard == UNCHANGED <<memory, disk, expired, clock, history>>

\* The leader's followers end with it and keep nothing.
Landed(c) == {c} \union Waiters(calls[c].query)
EndFlight(c) ==
  /\ calls[c].state = "fetch"
  /\ calls' = [d \in Caller |-> IF d \in Landed(c) THEN Idle ELSE calls[d]]
  /\ Keep(calls[c].query) \/ Discard
EndStream(c) ==
  /\ calls[c].state = "stream"
  /\ calls' = [calls EXCEPT ![c] = Idle]
  /\ Keep(calls[c].query) \/ Discard
ChatDone(c) == calls[c] # Idle /\ calls[c].query \notin Messages /\ EndFlight(c)
MessagesDone(c) == calls[c] # Idle /\ calls[c].query \in Messages /\ EndFlight(c)
ChatStreamDone(c) == calls[c] # Idle /\ calls[c].query \notin Messages /\ EndStream(c)
MessagesStreamDone(c) == calls[c] # Idle /\ calls[c].query \in Messages /\ EndStream(c)

\* A follower that has waited too long fetches for itself.
Promote(c) ==
  /\ calls[c].state = "wait"
  /\ calls' = [calls EXCEPT ![c].state = "fetch"]
  /\ UNCHANGED <<memory, disk, expired, clock, history>>

\* The MCP tool omnicache_store puts its entry into the queue itself.
McpStore(q, t) ==
  LET e == [query |-> q, tag |-> t, at |-> clock + 1] IN
  /\ q \in Single /\ Tick /\ StoreBoth(e)
  /\ queue' = Append(queue, e)
  /\ crossed' = IF Of(ToSet(tasks), q) = {} THEN crossed \ {q} ELSE crossed \union {q}
  /\ UNCHANGED <<talks, tasks, db, calls, expired, deleted, escaped, restored>>

----------------------------------------------------------------------------
(* Persistence *)

\* Mutant: the task stays.
RunTask_Stays ==
  /\ tasks # <<>>
  /\ queue' = Append(queue, Head(tasks))
  /\ UNCHANGED <<memory, tasks, db, calls, expired, clock, history>>
\* Mutant: the last task created runs first.
RunTask_Last ==
  /\ tasks # <<>>
  /\ queue' = Append(queue, Last(tasks)) /\ tasks' = Front(tasks)
  /\ UNCHANGED <<memory, db, calls, expired, clock, history>>
\* The event loop runs persist_entry_async: tasks in order of creation.
RunTask ==
  /\ tasks # <<>>
  /\ queue' = Append(queue, Head(tasks)) /\ tasks' = Tail(tasks)
  /\ UNCHANGED <<memory, db, calls, expired, clock, history>>

\* INSERT OR REPLACE, in queue order: the last entry of a query stays.
Lasts(list) == {list[i] : i \in {j \in DOMAIN list :
                  \A k \in DOMAIN list : k > j => list[k].query # list[j].query}}
Written(table, list) ==
  {e \in table : Of(ToSet(list), e.query) = {}} \union Lasts(list)
Commit ==
  /\ queue # <<>>
  /\ db' = Put(db, Head(queue)) /\ queue' = Tail(queue)
  /\ UNCHANGED <<memory, tasks, calls, expired, clock, history>>

\* TTLs end in any order.
Expire(e) ==
  /\ Tick /\ IsLive(e)
  /\ expired' = expired \union {e.at}
  /\ UNCHANGED <<memory, disk, calls, history>>

\* load_into_cache: the unexpired rows, in whatever order SQLite returns them,
\* and those of one organisation, which go to the end of its list in L2.
Rows == {e \in db : IsLive(e)}
RowOrders == Injection(Rows, 1..Cardinality(Rows))
Loaded(o, rank) ==
  LET mine == {e \in Rows : e.query \in Single /\ OrgOf[e.query] = o}
  IN  Arrange([e \in mine |-> e], [e \in mine |-> {f \in mine : rank[f] < rank[e]}])
\* The process ends, by a crash or not (nothing closes the store), and starts
\* again: importing mcp.server loads the rows, then gateway loads them too.
Restart ==
  /\ Tick /\ l1' = Rows
  /\ \E rank \in RowOrders : l2' = [o \in Org |-> Loaded(o, rank) \o Loaded(o, rank)]
  /\ talks' = {} /\ used' = [n \in 1..MaxClock |-> n]
  /\ tasks' = <<>> /\ queue' = <<>> /\ calls' = [c \in Caller |-> Idle]
  /\ crossed' = {}
  /\ restored' = {e.query : e \in Rows} \intersect Single
  /\ UNCHANGED <<db, expired, deleted, escaped>>

----------------------------------------------------------------------------
(* Deletes *)

Scoped(o, q) == o = "every" \/ OrgOf[q] = o
Known == l1 \union Semantic \union talks \union InTransit \union db
ForgetL2(gone) == l2' = [o \in Org |-> Without(l2[o], gone)]

\* Mutant: DELETE first, flush afterwards.
DeleteRows_First(gone) ==
  \E n \in 0..Len(queue) :
    LET left == SubSeq(queue, n + 1, Len(queue)) IN
    /\ db' = Written(db \ gone, SubSeq(queue, 1, n))
    /\ queue' = left /\ UNCHANGED tasks
    /\ escaped' = escaped \union ((ToSet(left) \union ToSet(tasks)) \intersect gone)
\* purge_all, delete_by_tag, delete_entry: flush, which may give up with
\* writes left over, then DELETE.  The event loop is blocked: no task runs.
DeleteRows(gone) ==
  \E n \in 0..Len(queue) :
    LET left == SubSeq(queue, n + 1, Len(queue)) IN
    /\ db' = Written(db, SubSeq(queue, 1, n)) \ gone
    /\ queue' = left /\ UNCHANGED tasks
    /\ escaped' = escaped \union ((ToSet(left) \union ToSet(tasks)) \intersect gone)
NotOnDisk(gone) ==
  /\ escaped' = escaped \union ((db \union InTransit) \intersect gone)
  /\ UNCHANGED disk

Forgotten(gone) == deleted' = deleted \union gone
Elsewhere == UNCHANGED <<used, calls, expired, crossed, restored>>

\* handle_purge, and omnicache_invalidate without a tag: the trie is left.
Purge(o) ==
  LET gone == {e \in Known : Scoped(o, e.query)} IN
  /\ Tick /\ l1' = l1 \ gone /\ ForgetL2(gone)
  /\ DeleteRows(gone) /\ Forgotten(gone)
  /\ UNCHANGED talks /\ Elsewhere
\* handle_invalidate_tag, and omnicache_invalidate with a tag.
InvalidateTag(t, o) ==
  LET gone == {e \in Known : e.tag = t /\ Scoped(o, e.query)} IN
  /\ Tick /\ l1' = l1 \ gone /\ ForgetL2(gone)
  /\ DeleteRows(gone) /\ Forgotten(gone)
  /\ UNCHANGED talks /\ Elsewhere
\* handle_delete_cache_entry: L1 goes by the key alone.
DeleteEntry(q, o) ==
  LET gone == {e \in Of(Known, q) : Scoped(o, q)} IN
  /\ Tick /\ l1' = l1 \ Of(l1, q) /\ ForgetL2(gone)
  /\ DeleteRows(gone) /\ Forgotten(gone)
  /\ UNCHANGED talks /\ Elsewhere

\* _handle_mesh_tombstone: every organisation, memory only; the trie goes
\* with "*", a tag or a key leaves it.
TombstoneAll ==
  /\ Tick /\ l1' = {} /\ ForgetL2(Known) /\ talks' = {}
  /\ NotOnDisk(Known) /\ Forgotten(Known) /\ Elsewhere
TombstoneSome(gone) ==
  /\ Tick /\ l1' = l1 \ gone /\ ForgetL2(gone) /\ UNCHANGED talks
  /\ NotOnDisk(gone) /\ Forgotten(gone) /\ Elsewhere
Tombstone ==
  \/ TombstoneAll
  \/ \E t \in Tag : TombstoneSome({e \in Known : e.tag = t})
  \/ \E q \in Query : TombstoneSome(Of(Known, q))

----------------------------------------------------------------------------
Next ==
  \/ \E c \in Caller, q \in Query :
       ChatHit(c, q) \/ MessagesHit(c, q) \/ ChatMiss(c, q) \/ MessagesMiss(c, q)
  \/ \E c \in Caller :
       \/ ChatDone(c) \/ MessagesDone(c) \/ Promote(c)
       \/ ChatStreamDone(c) \/ MessagesStreamDone(c)
  \/ \E q \in Query, t \in Tag \union {NoTag} : McpStore(q, t)
  \/ RunTask \/ Commit \/ Restart
  \/ \E e \in l1 \union Semantic \union db : Expire(e)
  \/ \E o \in Org \union {"every"} :
       \/ Purge(o)
       \/ \E t \in Tag : InvalidateTag(t, o)
       \/ \E q \in Query : DeleteEntry(q, o)
  \/ Tombstone

Spec == Init /\ [][Next]_vars

----------------------------------------------------------------------------
(* Properties *)

\* Types; no entry is twice on its way to the disk.
TypeOK ==
  /\ l1 \subseteq Entry /\ db \subseteq Entry /\ talks \subseteq Entry
  /\ \A q \in Query : Cardinality(Of(l1, q)) <= 1 /\ Cardinality(Of(db, q)) <= 1
  /\ l2 \in [Org -> Seq(Entry)] /\ tasks \in Seq(Entry) /\ queue \in Seq(Entry)
  /\ IsInjective(tasks \o queue)
  /\ used \in [1..MaxClock -> 1..MaxClock]
  /\ calls \in [Caller -> Call]
  /\ expired \subseteq 1..MaxClock /\ clock \in 0..MaxClock
  /\ deleted \subseteq Entry /\ escaped \subseteq Entry
  /\ crossed \subseteq Query /\ restored \subseteq Query

\* What a purge, an invalidated tag or a deleted key covered is in neither
\* tier nor on disk, now or after any number of restarts, unless it was on
\* its way to the disk at that time (or, for a tombstone of another node,
\* already there).
DeletedStaysGone == (l1 \union Semantic \union db) \intersect deleted \subseteq escaped

\* A restart brings back what L1 answers now: once every write that waits has
\* reached SQLite, the row of a query is the entry L1 holds, unless
\* omnicache_store overtook a task that waited.
LastWrite(q) == Of(Written(db, queue \o tasks), q)
LatestIsPersisted ==
  \A q \in Query \ crossed : Of(l1, q) # {} => LastWrite(q) = Of(l1, q)

\* L2 has no copy of an entry that L1 has replaced, so that no semantic hit
\* returns it, and no entry twice; except for queries restored at the start,
\* which L2 may hold twice for as long as the process runs.
CopiesOf(q) == {i \in DOMAIN l2[OrgOf[q]] : l2[OrgOf[q]][i].query = q}
StaleOnlyIfRestored ==
  \A q \in Query :
    /\ Cardinality(CopiesOf(q)) <= IF q \in restored THEN 2 ELSE 1
    /\ \A e \in Of(Semantic, q), f \in Of(l1, q) : e # f => q \in restored

\* Storing never evicts what is being stored.
StoredIsKept ==
  [][\A e \in l1' :
       (e.at = clock' /\ e.query \in Single) => e \in ToSet(l2'[OrgOf[e.query]])]_vars

\* docs/API_REFERENCE.md:59 of /v1/cache/purge: "Purges all entries for a
\* given tenant": no lookup finds a deleted entry.
Found(q) ==
  IF GetExact(q) # {} THEN GetExact(q)
  ELSE IF Matches(q) # {} THEN {Active(q)[i] : i \in Matches(q)}
  ELSE FindTalk(q)
PurgedIsNotServed == \A q \in Query : Found(q) \intersect deleted = {}
=============================================================================
