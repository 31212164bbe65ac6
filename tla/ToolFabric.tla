----------------------------- MODULE ToolFabric -----------------------------
(***************************************************************************)
(* Recorded tool results and when they are replayed: the tool cache and    *)
(* its policies in the gateway and in an MCP server, the SQLite tables     *)
(* they share (server/tool_replayer.py), the warmer and the snapshots      *)
(* (server/workspace_sync.py), the gateway's swarm bus (core/swarm_bus.py) *)
(* and the tool routes of server/gateway.py and mcp/server.py.             *)
(*                                                                         *)
(* Every handler is synchronous once its body is parsed and touches SQLite *)
(* in one transaction: one step.  A warm reads the disk in steps of its    *)
(* own, between which the file may change.  Each tool is called with one   *)
(* set of arguments, about one tracked file of one workspace; the file's   *)
(* content stands for everything a tool reports.                           *)
(*                                                                         *)
(* Not covered: failures of SQLite, the lineage the swarm bus keeps, the   *)
(* fields of a request that only choose which path is looked at.           *)
(***************************************************************************)
EXTENDS Naturals, Sequences, FiniteSets, SequencesExt

CONSTANTS
  Gateway, Mcp,   \* the two processes that serve
  Tool,           \* among a file tool, a directory tool, a business API and a
                  \* mutation: "read_file", "list_dir", "lookup_order", "write_file"
  Failing,        \* tools that may report an error
  Content,        \* what the file may hold
  Requests,       \* bodies of POST /v1/agent/tools/policies
  NoTtl,          \* no ttl_seconds in a request
  Ttls,           \* ttl_seconds of the requests that record a result
  Long, Mid,      \* tools with bulky outputs, with outputs over 120 characters
  LookBack,       \* PRUNE_LOOKBACK_TURNS
  SwarmCap,       \* SWARM_MAX_ENTRIES_PER_SWARM
  SwarmTtl,       \* SWARM_CACHE_TTL_SECONDS
  Watched,        \* the file is one of the four the debounce signal looks at
  MaxClock,       \* bound: ticks of the clock
  MaxWrites,      \* bound: changes of the file
  MaxHistory,     \* bound: tool results in the conversation
  MaxOps          \* bound: requests other than lookups, tombstones and restarts

ASSUME ToolAssumption ==
  /\ Tool \subseteq {"read_file", "list_dir", "lookup_order", "write_file"}
  /\ Gateway # Mcp /\ NoTtl \notin Nat /\ Ttls \subseteq Nat \union {NoTtl}
  /\ Requests \subseteq [tool : Tool, cacheable : BOOLEAN, ttl : Nat \union {NoTtl}]
  /\ {MaxClock, MaxWrites, MaxHistory, MaxOps} \subseteq Nat
  /\ {SwarmCap, SwarmTtl} \subseteq Nat \ {0} /\ LookBack \in Nat /\ Watched \in BOOLEAN

VARIABLES
  content, stamp, \* the file: what it holds, and its mtime (one per write)
  history,        \* the tool results of the conversation the agent resends
  hot,            \* _cache of each process
  db,             \* tool_call_records
  custom,         \* _custom_policies of each process
  dbPolicies,     \* tool_policies_records
  debounced,      \* _GIT_STATE_CACHE of each process
  swarm,          \* _swarm_store of one swarm
  job,            \* a warm under way
  bundle,         \* the last snapshot exported, in a file or in Redis
  ops,            \* requests other than lookups, tombstones and restarts so far
  clock

vars == <<content, stamp, history, hot, db, custom, dbPolicies,
          debounced, swarm, job, bundle, ops, clock>>
file == <<content, stamp>>
cache == <<hot, db>>
policies == <<custom, dbPolicies>>

Proc == {Gateway, Mcp}
Label == {"org", "default"}
None == [none |-> TRUE]

----------------------------------------------------------------------------
(* Policies *)

Pol(type, ttl, cacheable, dedup) ==
  [type |-> type, ttl |-> ttl, cacheable |-> cacheable, dedup |-> dedup]
\* DEFAULT_BUILTIN_POLICIES; lookup_order by its prefix.
BuiltIn ==
  [read_file |-> Pol("target_file", 1, TRUE, TRUE),
   list_dir |-> Pol("scoped_git_workspace", 1, TRUE, TRUE),
   lookup_order |-> Pol("business_api", 1, TRUE, TRUE),
   write_file |-> Pol("mutation", 0, FALSE, FALSE)]
\* get_policy.
Policy(own, t) == IF t \in DOMAIN own THEN own[t] ELSE BuiltIn[t]
IsMutation(pol) == pol.type = "mutation" \/ ~pol.cacheable
\* set_policy fills in what the request leaves out, without regard to the
\* policy it replaces.
Normalized(r) ==
  Pol(IF r.cacheable THEN "business_api" ELSE "mutation",
      IF r.ttl = NoTtl THEN (IF r.cacheable THEN 1 ELSE 0) ELSE r.ttl,
      r.cacheable, r.cacheable)
WithPolicy(own, t, pol) ==
  [x \in DOMAIN own \union {t} |-> IF x = t THEN pol ELSE own[x]]
WithoutPolicy(own, t) == [x \in DOMAIN own \ {t} |-> own[x]]
\* _load_from_db adds and replaces, it does not remove.
Loaded(own) ==
  [x \in DOMAIN own \union DOMAIN dbPolicies |->
     IF x \in DOMAIN dbPolicies THEN dbPolicies[x] ELSE own[x]]

----------------------------------------------------------------------------
(* Fingerprints *)

FileState(s) == <<"target_file", s>>
GitState(c) == <<"git", c>>
States == {FileState(s) : s \in 0..MaxWrites} \union {GitState(c) : c \in Content}
            \union {<<"static", 0>>}
\* compute_workspace_stat_signal.
Signal == IF Watched THEN stamp ELSE 0
\* The debounce entry of p, if the signal still matches.
Debounce(p) == {d \in {debounced[p]} : d # None /\ d.signal = Signal}
\* get_git_workspace_state of a directory: a debounced state is used for half
\* a second.
GitStates(p) == {GitState(content)} \union {d.state : d \in Debounce(p)}
\* compute_tool_hash: the state by the type of the policy.
StateUnder(pol, git) ==
  CASE pol.type = "target_file" -> FileState(stamp)
    [] pol.type = "scoped_git_workspace" -> git
    [] OTHER -> <<"static", 0>>
\* _GIT_STATE_CACHE of p after it used state git under one of these policies.
Debouncing(p, pols, git) ==
  IF git = GitState(content) /\ \E pol \in pols : pol.type = "scoped_git_workspace"
  THEN [debounced EXCEPT ![p] = [signal |-> Signal, state |-> git]]
  ELSE debounced
\* invalidate_git_state_cache.
Undebounced(p) == [debounced EXCEPT ![p] = None]

----------------------------------------------------------------------------
(* Records *)

Key == [tool : Tool, label : Label, state : States]
Record ==
  [key : Key, out : Content, born : 0..MaxClock, ttl : Nat, exp : Nat,
   from : {"agent", "warm"}]
\* Mutant: the record a new one replaces stays.
PutAll_Keeps(S, new) == S \union new
Put(S, e) == {x \in S : x.key # e.key} \union {e}
PutAll(S, new) == {x \in S : \A e \in new : x.key # e.key} \union new

\* store_tool_call: the TTL, 0 when nothing is stored.
EffectiveTtl(pol, ttl) ==
  IF ttl # NoTtl THEN ttl ELSE IF pol.cacheable THEN pol.ttl ELSE 0
NewRecord(t, label, s, out, ttl, from) ==
  [key |-> [tool |-> t, label |-> label, state |-> s], out |-> out,
   born |-> clock, ttl |-> ttl, exp |-> clock + ttl, from |-> from]

Fresh(e) == clock <= e.exp
At(S, k) == {e \in S : e.key = k}
\* lookup_tool_call under one key: an expired entry in memory is a miss
\* whatever SQLite holds.
Found(p, k) ==
  IF At(hot[p], k) # {} THEN {e \in At(hot[p], k) : Fresh(e)}
  ELSE {e \in At(db, k) : Fresh(e)}
\* What looking under these keys leaves in memory and in SQLite.
Hydrated(p, keys) == UNION {Found(p, k) : k \in keys}
\* Mutant: a row that enters memory starts a new TTL.
HotAfter_Renews(p, keys) ==
  {e \in hot[p] : e.key \in keys => Fresh(e)}
    \union {[e EXCEPT !.exp = clock + e.ttl] : e \in Hydrated(p, keys) \ hot[p]}
HotAfter(p, keys) ==
  {e \in hot[p] : e.key \in keys => Fresh(e)} \union Hydrated(p, keys)
DbAfter(p, keys) ==
  {e \in db : e.key \in keys => Fresh(e) \/ At(hot[p], e.key) # {}}
KeyOf(t, label, s) == [tool |-> t, label |-> label, state |-> s]
\* handle_tool_replay and replay_tool: the caller's label, then the default.
Served(p, t, s) ==
  LET own == Found(p, KeyOf(t, "org", s))
  IN  IF own # {} THEN own ELSE Found(p, KeyOf(t, "default", s))

----------------------------------------------------------------------------
(* The swarm bus *)

\* A dictionary by task: an entry keeps the place it first came to.
Shared == [out : Content, born : 0..MaxClock, dir : BOOLEAN, place : 0..MaxOps]
IsReadTool(t) == t \in {"read_file", "list_dir"}
\* invalidate_on_mutation, with or without a mutated resource.
Survives(dict, t, dir) == ~IsReadTool(t) /\ ~(dir /\ dict[t].dir)
Invalidated(dict, dir) == Restrict(dict, {t \in DOMAIN dict : Survives(dict, t, dir)})
\* record_shared_result: at the limit the oldest goes, whether or not the
\* new result replaces one.
Oldest(dict) ==
  CHOOSE t \in DOMAIN dict : \A u \in DOMAIN dict : dict[t].place <= dict[u].place
Pruned(dict) ==
  IF Cardinality(DOMAIN dict) < SwarmCap THEN dict
  ELSE Restrict(dict, DOMAIN dict \ {Oldest(dict)})
Entry(kept, t, out, dir) ==
  [out |-> out, born |-> clock, dir |-> dir,
   place |-> IF t \in DOMAIN kept THEN kept[t].place ELSE ops]
Share(kept, t, out, dir) ==
  [u \in DOMAIN kept \union {t} |-> IF u = t THEN Entry(kept, t, out, dir) ELSE kept[u]]
\* What lookup_shared_result leaves: an expired result goes.
SwarmAfter(t) ==
  Restrict(swarm, {u \in DOMAIN swarm : u # t \/ clock - swarm[u].born <= SwarmTtl})

----------------------------------------------------------------------------
(* The conversation: compact_and_record_agent_tools *)

\* ok: not is_error.
Result == [tool : Tool, out : Content, ok : BOOLEAN]
\* The results of a tool in the conversation.
Runs(h, t) == {i \in DOMAIN h : h[i].tool = t}
\* First pass: an earlier run with the output of the last one becomes a note.
IsNoted(h, i) ==
  LET last == Max(Runs(h, h[i].tool))
  IN  /\ i # last /\ h[i].ok /\ h[last].ok
      /\ h[i].out = h[last].out /\ h[i].tool \in Mid \union Long
      /\ Policy(custom[Gateway], h[i].tool).dedup
Horizon(h) == IF Len(h) > LookBack THEN Len(h) - LookBack ELSE 0
\* Mutant: the horizon is off by one.
IsPruned_OffByOne(h, i) ==
  /\ i <= Horizon(h) + 1 /\ ~IsNoted(h, i) /\ h[i].ok /\ h[i].tool \in Long
  /\ Policy(custom[Gateway], h[i].tool).cacheable
\* Second pass: the bulky results before the horizon are cut.
IsPruned(h, i) ==
  /\ i <= Horizon(h) /\ ~IsNoted(h, i) /\ h[i].ok /\ h[i].tool \in Long
  /\ Policy(custom[Gateway], h[i].tool).cacheable
\* What of result i the upstream is sent.
Sent(h, i) ==
  CASE IsNoted(h, i) -> "note" [] IsPruned(h, i) -> "cut" [] OTHER -> "full"

----------------------------------------------------------------------------
(* The agent, its files and the clock *)

Init ==
  /\ content \in Content /\ stamp = 0
  /\ history = <<>>
  /\ hot = [p \in Proc |-> {}] /\ db = {}
  /\ custom = [p \in Proc |-> <<>>] /\ dbPolicies = <<>>
  /\ debounced = [p \in Proc |-> None]
  /\ swarm = <<>> /\ job = None /\ bundle = None
  /\ ops = 0 /\ clock = 0

\* A warm by the gateway's handler blocks its event loop.
Free(p) == ~(p = Gateway /\ job # None /\ job.by = Gateway)
Op == ops < MaxOps /\ ops' = ops + 1

Write(c) == stamp < MaxWrites /\ content' = c /\ stamp' = stamp + 1

\* Somebody edits the file behind the proxy's back.
Edit ==
  /\ \E c \in Content : Write(c)
  /\ UNCHANGED <<history, cache, policies, debounced, swarm, job, bundle, ops, clock>>

\* The agent runs a tool: write_file changes the file, the others report it.
\* Or it fails and reports an error.
RunTool(t, ok) ==
  /\ Len(history) < MaxHistory /\ (ok \/ t \in Failing)
  /\ IF ok /\ t = "write_file" THEN \E c \in Content : Write(c) ELSE UNCHANGED file
  /\ history' = Append(history, [tool |-> t, out |-> content', ok |-> ok])
  /\ UNCHANGED <<cache, policies, debounced, swarm, job, bundle, ops, clock>>

\* Time passes; half a second is over.
Tick ==
  /\ clock < MaxClock /\ clock' = clock + 1
  /\ debounced' = [p \in Proc |-> None]
  /\ UNCHANGED <<file, history, cache, policies, swarm, job, bundle, ops>>

\* A process starts: its policies are those of the table.
Restart(p) ==
  /\ Op
  /\ hot' = [hot EXCEPT ![p] = {}]
  /\ custom' = [custom EXCEPT ![p] = dbPolicies]
  /\ debounced' = Undebounced(p)
  /\ swarm' = IF p = Gateway THEN <<>> ELSE swarm
  /\ job' = IF Free(p) THEN job ELSE None
  /\ UNCHANGED <<file, history, db, dbPolicies, bundle, clock>>

----------------------------------------------------------------------------
(* Recording and replaying one result *)

\* handle_tool_replay (store) and record_tool: the result is stored under
\* the state the workspace has when the post arrives.
PostResult(p, ran, ttl, shared, dir) ==
  LET pol == Policy(custom[p], ran.tool)
      life == EffectiveTtl(pol, ttl)
  IN  /\ Op /\ Free(p) /\ life > 0
      /\ (shared => p = Gateway) /\ (dir => shared)
      /\ \E git \in GitStates(p) :
           LET e == NewRecord(ran.tool, "org", StateUnder(pol, git), ran.out,
                              life, "agent") IN
           /\ hot' = [hot EXCEPT ![p] = Put(@, e)] /\ db' = Put(db, e)
           /\ debounced' = Debouncing(p, {pol}, git)
      /\ swarm' = IF shared THEN Share(Pruned(swarm), ran.tool, ran.out, dir) ELSE swarm
      /\ UNCHANGED <<file, history, policies, job, bundle, clock>>

\* A post of a result that is not cached, or a lookup of such a tool, tells
\* the swarm; nothing else in this process hears of it.
Refused(t, ttl, dir) ==
  /\ Free(Gateway) /\ EffectiveTtl(Policy(custom[Gateway], t), ttl) = 0
  /\ swarm' = Invalidated(swarm, dir)
  /\ UNCHANGED <<file, history, cache, policies, debounced, job, bundle, ops, clock>>

\* handle_tool_replay and replay_tool outside a swarm.  The second key is
\* tried when the first has nothing.
Replay(p, t) ==
  LET pol == Policy(custom[p], t) IN
  /\ Free(p) /\ pol.cacheable
  /\ \E git \in GitStates(p) :
       LET own == KeyOf(t, "org", StateUnder(pol, git))
           keys == IF Found(p, own) # {} THEN {own}
                   ELSE {own, [own EXCEPT !.label = "default"]}
       IN  /\ hot' = [hot EXCEPT ![p] = HotAfter(p, keys)]
           /\ db' = DbAfter(p, keys)
           /\ debounced' = Debouncing(p, {pol}, git)
  /\ UNCHANGED <<file, history, policies, swarm, job, bundle, ops, clock>>

\* The same in a swarm asks the bus alone.
ReplayInSwarm(t) ==
  /\ Free(Gateway) /\ Policy(custom[Gateway], t).cacheable
  /\ swarm' = SwarmAfter(t)
  /\ UNCHANGED <<file, history, cache, policies, debounced, job, bundle, ops, clock>>

\* The results of the conversation at the places I as records.
HistoryRecords(own, I, git) ==
  LET runs(t) == Runs(history, t) \intersect {i \in I : history[i].ok}
      life(t) == EffectiveTtl(Policy(own, t), NoTtl)
  IN  {NewRecord(t, "default", StateUnder(Policy(own, t), git), history[Max(runs(t))].out,
                 life(t), "agent") :
         t \in {x \in Tool : runs(x) # {} /\ life(x) > 0}}
\* A chat request records every result of the conversation again that is no
\* error, under the state the workspace has now; a mutation among them, done or
\* failed, ends the debounce.
ChatRequest ==
  LET own == custom[Gateway]
      mutations == {i \in DOMAIN history : IsMutation(Policy(own, history[i].tool))}
      early == {i \in DOMAIN history : \A m \in mutations : i < m}
      late == DOMAIN history \ early
      used(I) == {Policy(own, history[i].tool) : i \in {j \in I : history[j].ok}}
  IN  /\ Op /\ Free(Gateway) /\ history # <<>>
      /\ \E git \in GitStates(Gateway) :
           LET first == HistoryRecords(own, early, git)
               then == HistoryRecords(own, late, GitState(content))
           IN  /\ hot' = [hot EXCEPT ![Gateway] = PutAll(PutAll(@, first), then)]
               /\ db' = PutAll(PutAll(db, first), then)
               /\ debounced' =
                    IF mutations = {} THEN Debouncing(Gateway, used(early), git)
                    ELSE IF \E pol \in used(late) : pol.type = "scoped_git_workspace"
                    THEN Debouncing(Gateway, used(late), GitState(content))
                    ELSE Undebounced(Gateway)
      /\ UNCHANGED <<file, history, policies, swarm, job, bundle, clock>>

----------------------------------------------------------------------------
(* Policies *)

\* POST /v1/agent/tools/policies.
SetPolicy(r) ==
  /\ Op /\ Free(Gateway)
  /\ custom' = [custom EXCEPT ![Gateway] = WithPolicy(@, r.tool, Normalized(r))]
  /\ dbPolicies' = WithPolicy(dbPolicies, r.tool, Normalized(r))
  /\ UNCHANGED <<file, history, cache, debounced, swarm, job, bundle, clock>>

\* DELETE: the other process keeps what it loaded.
DeletePolicy(t) ==
  /\ Op /\ Free(Gateway)
  /\ custom' = [custom EXCEPT ![Gateway] = WithoutPolicy(@, t)]
  /\ dbPolicies' = WithoutPolicy(dbPolicies, t)
  /\ UNCHANGED <<file, history, cache, debounced, swarm, job, bundle, clock>>

\* GET of the list loads the table.
ListPolicies ==
  /\ Op
  /\ Free(Gateway)
  /\ custom' = [custom EXCEPT ![Gateway] = Loaded(@)]
  /\ UNCHANGED <<file, history, cache, dbPolicies, debounced, swarm, job, bundle,
                 clock>>

----------------------------------------------------------------------------
(* Warming, snapshots, tombstones *)

\* The handlers of the gateway, and the command line: a process of its own.
Syncers == {Gateway, "cli"}

\* warm_workspace: the state of the repository first.
WarmStart(by) ==
  /\ Op /\ job = None
  /\ job' = [by |-> by, step |-> "probed", git |-> GitState(content)]
  /\ UNCHANGED <<file, history, cache, policies, debounced, swarm, bundle, clock>>

\* Then the tree is walked: the listing is taken and the file's stat.
WarmStat ==
  /\ job # None /\ job.step = "probed"
  /\ job' = [by |-> job.by, step |-> "walked", git |-> job.git,
             listing |-> content, state |-> FileState(stamp)]
  /\ UNCHANGED <<file, history, cache, policies, debounced, swarm, bundle, ops, clock>>

\* The items store_tool_calls_batch is given, with the TTLs it gives them.
WarmRecords(own, state, read) ==
  LET label == IF job.by = Gateway THEN "org" ELSE "default"
      life(t) == EffectiveTtl(Policy(own, t), NoTtl)
      item(t, s, out) == IF t \notin Tool \/ life(t) = 0 THEN {}
                         ELSE {NewRecord(t, label, s, out, life(t), "warm")}
  IN  item("list_dir", job.git, job.listing) \union item("read_file", state, read)
\* The batch goes to memory and SQLite; the command line's memory is gone
\* with its process.
StoreWarmed(new) ==
  /\ job' = None
  /\ hot' = IF job.by = Gateway THEN [hot EXCEPT ![Gateway] = PutAll(@, new)] ELSE hot
  /\ db' = PutAll(db, new)
  /\ UNCHANGED <<file, history, policies, debounced, swarm, bundle, ops, clock>>
PoliciesOf(by) == IF by = Gateway THEN custom[Gateway] ELSE dbPolicies
\* Mutant: the file is read during the walk and its stat taken at the end.
WarmRead_StatLast ==
  /\ job # None /\ job.step = "walked"
  /\ StoreWarmed(WarmRecords(PoliciesOf(job.by), FileState(stamp), job.listing))
\* Then the file is read and the batch stored.
WarmRead ==
  /\ job # None /\ job.step = "walked"
  /\ StoreWarmed(WarmRecords(PoliciesOf(job.by), job.state, content))

\* export_snapshot: the rows that have not expired, the policies in memory.
Snapshot(by) == [rows |-> {e \in db : e.exp > clock}, policies |-> PoliciesOf(by)]
\* To a file, or to the key in Redis: the next one replaces it.
Export(by) ==
  /\ Op
  /\ Free(by)
  /\ bundle' = Snapshot(by)
  /\ UNCHANGED <<file, history, cache, policies, debounced, swarm, job, clock>>

\* import_snapshot: the policies, then the rows over whatever is there.
Imported(own) ==
  [x \in DOMAIN own \union DOMAIN bundle.policies |->
     IF x \in DOMAIN bundle.policies THEN bundle.policies[x] ELSE own[x]]
Import(by) ==
  /\ Op /\ Free(by) /\ bundle # None
  /\ LET rows == {e \in bundle.rows : e.exp > clock} IN
     /\ db' = PutAll(db, rows)
     /\ hot' = IF by = Gateway THEN [hot EXCEPT ![by] = PutAll(@, rows)] ELSE hot
  /\ dbPolicies' = Imported(dbPolicies)
  /\ custom' = IF by = Gateway THEN [custom EXCEPT ![by] = Imported(@)] ELSE custom
  /\ UNCHANGED <<file, history, debounced, swarm, job, bundle, clock>>

\* _handle_mesh_tombstone for "*".
TombstoneAll ==
  /\ Op
  /\ Free(Gateway)
  /\ swarm' = <<>> /\ hot' = [hot EXCEPT ![Gateway] = {}] /\ db' = {}
  /\ debounced' = Undebounced(Gateway)
  /\ UNCHANGED <<file, history, policies, job, bundle, clock>>

\* For the workspace or the file: of the records only the warmer's name it.
NamesFile(e) == e.from = "warm" /\ e.key.tool = "read_file"
TombstoneFile ==
  /\ Op
  /\ Free(Gateway)
  /\ swarm' = Invalidated(swarm, TRUE)
  /\ hot' = [hot EXCEPT ![Gateway] = {e \in @ : ~NamesFile(e)}]
  /\ db' = {e \in db : ~NamesFile(e)}
  /\ debounced' = Undebounced(Gateway)
  /\ UNCHANGED <<file, history, policies, job, bundle, clock>>

Next ==
  \/ Tick \/ Edit \/ ChatRequest \/ ListPolicies
  \/ WarmStat \/ WarmRead \/ TombstoneAll \/ TombstoneFile
  \/ \E p \in Proc : Restart(p)
  \/ \E t \in Tool : ReplayInSwarm(t) \/ DeletePolicy(t)
  \/ \E t \in Tool, ok \in BOOLEAN : RunTool(t, ok)
  \/ \E t \in Tool, p \in Proc : Replay(p, t)
  \/ \E t \in Tool, ttl \in Ttls, dir \in BOOLEAN : Refused(t, ttl, dir)
  \/ \E r \in Requests : SetPolicy(r)
  \/ \E p \in Proc, ran \in ToSet(history), ttl \in Ttls, shared, dir \in BOOLEAN :
       PostResult(p, ran, ttl, shared, dir)
  \/ \E by \in Syncers : WarmStart(by) \/ Export(by) \/ Import(by)

Spec == Init /\ [][Next]_vars

----------------------------------------------------------------------------
(* Properties *)

\* Memory, tables, snapshot, swarm and the warmer's job have their shapes; a
\* key has one record in each place, and the swarm keeps to its limit.
OneEach(S) == \A e, f \in S : e.key = f.key => e = f
TypeOK ==
  /\ content \in Content /\ stamp \in 0..MaxWrites /\ clock \in 0..MaxClock
  /\ ops \in 0..MaxOps
  /\ history \in Seq(Result) /\ Len(history) <= MaxHistory
  /\ \A p \in Proc : hot[p] \subseteq Record /\ OneEach(hot[p])
  /\ db \subseteq Record /\ OneEach(db)
  /\ \A own \in {dbPolicies} \union {custom[p] : p \in Proc} :
       DOMAIN own \subseteq Tool /\ \A t \in DOMAIN own : own[t].ttl \in Nat
  /\ \A p \in Proc : debounced[p] = None \/ debounced[p].state \in States
  /\ DOMAIN swarm \subseteq Tool /\ Cardinality(DOMAIN swarm) <= SwarmCap
  /\ \A t \in DOMAIN swarm : swarm[t] \in Shared
  /\ job = None \/ job.step \in {"probed", "walked"}
  /\ bundle = None \/ (bundle.rows \subseteq Record /\ OneEach(bundle.rows))

\* What the warmer stored for a file is never replayed once the file has
\* changed, although files change while it reads them: the stat is taken
\* before the content (workspace_sync.py:231 and :235), so that a write in
\* between leaves a record nobody will look up.  It holds wherever the record
\* has travelled since: SQLite, the other process, a snapshot.
WarmedReadIsFresh ==
  \A S \in {db} \union {hot[p] : p \in Proc} : \A e \in S :
    e.from = "warm" /\ e.key.tool = "read_file" /\ e.key.state = FileState(stamp)
      => e.out = content

\* Whatever layers a record passes through (memory, SQLite, the other
\* process's memory, snapshots), it is not replayed later than its TTL after
\* it was stored (tool_replayer.py:719 and :743).
ServedWithinTtl ==
  \A p \in Proc, t \in Tool, s \in States :
    \A e \in Served(p, t, s) : clock <= e.born + e.ttl

\* Of the results within the look-back horizon the upstream gets the full
\* text: in its place, or in the place a note points to (the two passes of
\* compact_and_record_agent_tools, tool_replayer.py:1133 and :1170).
RecentTurnsIntact ==
  \A i \in DOMAIN history : i > Horizon(history) =>
    \/ Sent(history, i) = "full"
    \/ /\ Sent(history, i) = "note"
       /\ LET last == Max(Runs(history, history[i].tool)) IN
          Sent(history, last) = "full" /\ history[last].out = history[i].out

=============================================================================
