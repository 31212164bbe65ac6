-------------------------- MODULE ToolFabric_proofs --------------------------
(***************************************************************************)
(* Proofs about ToolFabric, for any tools, contents, policies and bounds:  *)
(* what holds of every record wherever it goes, the shapes of the state,   *)
(* and what compaction leaves of a conversation.                           *)
(***************************************************************************)
EXTENDS ToolFabric, FiniteSetTheorems, TLAPS

\* A record keeps its term, and a file's content that the warmer stored under
\* the file's present stat is what the file holds.
Good(e) ==
  /\ e.exp = e.born + e.ttl
  /\ e.from = "warm" /\ e.key.tool = "read_file" =>
       \E k \in 0..stamp : e.key.state = FileState(k) /\ (k = stamp => e.out = content)
AllGood(S) == \A e \in S : Good(e)

\* The places a record may be in, and the stat a warm under way has taken.
IInv ==
  /\ stamp \in Nat /\ clock \in Nat /\ DOMAIN hot = Proc
  /\ AllGood(db) /\ \A p \in Proc : AllGood(hot[p])
  /\ bundle # None => AllGood(bundle.rows)
  /\ job # None /\ job.step = "walked" => \E k \in 0..stamp : job.state = FileState(k)

----------------------------------------------------------------------------
(* Records *)

\* A stat stands for one state of the file.
LEMMA FileStates == ASSUME NEW j, NEW k PROVE FileState(j) = FileState(k) <=> j = k
  BY DEF FileState

\* What an agent recorded is good, whatever it says.
LEMMA AgentsAreGood ==
  ASSUME NEW t, NEW label, NEW s, NEW out, NEW ttl
  PROVE  Good(NewRecord(t, label, s, out, ttl, "agent"))
  BY DEF Good, NewRecord

\* Merging keeps records as they are.
LEMMA PutIsGood ==
  ASSUME NEW S, NEW e, AllGood(S), Good(e) PROVE AllGood(Put(S, e))
  BY DEF AllGood, Put
\* Many records at once.
LEMMA PutAllIsGood ==
  ASSUME NEW S, NEW new, AllGood(S), AllGood(new) PROVE AllGood(PutAll(S, new))
  BY DEF AllGood, PutAll

\* So does a lookup, which moves rows into memory and drops expired records.
LEMMA LookupIsGood ==
  ASSUME NEW p \in Proc, NEW keys, AllGood(hot[p]), AllGood(db)
  PROVE  AllGood(HotAfter(p, keys)) /\ AllGood(DbAfter(p, keys))
<1>1. \A k : AllGood(Found(p, k))
  BY DEF AllGood, Found, At
<1>2. AllGood(Hydrated(p, keys))
  BY <1>1 DEF AllGood, Hydrated
<1> QED  BY <1>2 DEF AllGood, HotAfter, DbAfter

\* What a warm stores under the stat it took before it read the file is good.
LEMMA WarmedAreGood ==
  ASSUME IInv, job # None, job.step = "walked", NEW own
  PROVE  AllGood(WarmRecords(own, job.state, content))
<1>1. PICK k \in 0..stamp : job.state = FileState(k)
  BY DEF IInv
<1> DEFINE label == IF job.by = Gateway THEN "org" ELSE "default"
           life(t) == EffectiveTtl(Policy(own, t), NoTtl)
           listed == NewRecord("list_dir", label, job.git, job.listing, life("list_dir"), "warm")
           read == NewRecord("read_file", label, job.state, content, life("read_file"), "warm")
<1>2. Good(listed)
  BY DEF Good, NewRecord
<1>3. Good(read)
  BY <1>1 DEF Good, NewRecord
<1>4. \A e \in WarmRecords(own, job.state, content) : e = listed \/ e = read
  BY DEF WarmRecords
<1> HIDE DEF listed, read
<1> QED  BY <1>2, <1>3, <1>4 DEF AllGood

\* The results of the conversation are the agent's.
LEMMA HistoryIsGood ==
  ASSUME NEW own, NEW I, NEW git PROVE AllGood(HistoryRecords(own, I, git))
  BY AgentsAreGood DEF AllGood, HistoryRecords

\* At the start there is no record.
LEMMA InitIInv == Init => IInv
  BY ToolAssumption DEF Init, IInv, AllGood, None

\* A record that was good stays so as long as the file does.
LEMMA GoodStays ==
  ASSUME UNCHANGED file, NEW S, AllGood(S)
  PROVE  \A e \in S : Good(e)'
  BY DEF AllGood, Good, file

\* And when the file is written: its stat is newer than that of any record.
LEMMA GoodAfterWrite ==
  ASSUME stamp \in Nat, stamp' = stamp + 1, NEW S, AllGood(S)
  PROVE  \A e \in S : Good(e)'
  BY DEF AllGood, Good

----------------------------------------------------------------------------
(* Steps *)

\* The file is left alone and what is kept afterwards is good.
LEMMA Frame ==
  ASSUME IInv, UNCHANGED file, clock' \in Nat, DOMAIN hot' = Proc,
         AllGood(db'), \A p \in Proc : AllGood(hot'[p]),
         bundle' = bundle \/ AllGood(bundle'.rows),
         job' = job \/ job' = None
  PROVE  IInv'
<1>1. (\A e \in db' : Good(e)') /\ \A p \in Proc : \A e \in hot'[p] : Good(e)'
  BY GoodStays
<1>2. bundle' # None => \A e \in bundle'.rows : Good(e)'
  BY GoodStays DEF IInv
<1>3. job' # None /\ job'.step = "walked" => \E k \in 0..stamp' : job'.state = FileState(k)
  BY DEF IInv, file, None
<1> QED  BY <1>1, <1>2, <1>3 DEF IInv, AllGood, file

\* The same where neither memory nor table change.
LEMMA FrameAll ==
  ASSUME IInv, UNCHANGED <<file, cache, job>>, clock' \in Nat,
         bundle' = bundle \/ AllGood(bundle'.rows)
  PROVE  IInv'
  BY Frame DEF IInv, cache

\* The file is written.
LEMMA WriteStep ==
  ASSUME IInv, NEW c, Write(c), UNCHANGED <<cache, job, bundle, clock>> PROVE IInv'
<1>1. stamp \in Nat /\ stamp' = stamp + 1
  BY DEF Write, IInv
<1>2. (\A e \in db : Good(e)') /\ \A p \in Proc : \A e \in hot[p] : Good(e)'
  BY <1>1, GoodAfterWrite DEF IInv
<1>3. bundle # None => \A e \in bundle.rows : Good(e)'
  BY <1>1, GoodAfterWrite DEF IInv
<1>4. \A k \in 0..stamp : k \in 0..stamp'
  BY <1>1
<1>5. job # None /\ job.step = "walked" => \E k \in 0..stamp' : job.state = FileState(k)
  BY <1>4 DEF IInv
<1> QED  BY <1>1, <1>2, <1>3, <1>5 DEF IInv, AllGood, cache, None

\* A tool runs: it may write the file.
LEMMA RunToolStep == ASSUME IInv, NEW t, NEW ok, RunTool(t, ok) PROVE IInv'
<1>1. CASE ok /\ t = "write_file"
  BY <1>1, WriteStep DEF RunTool
<1>2. CASE ~(ok /\ t = "write_file")
  BY <1>2, FrameAll DEF RunTool, IInv
<1> QED  BY <1>1, <1>2

\* A result is posted.
LEMMA PostResultStep ==
  ASSUME IInv, NEW p \in Proc, NEW ran, NEW ttl, NEW shared, NEW dir,
         PostResult(p, ran, ttl, shared, dir)
  PROVE  IInv'
<1>1. PICK s, life : LET e == NewRecord(ran.tool, "org", s, ran.out, life, "agent") IN
        hot' = [hot EXCEPT ![p] = Put(@, e)] /\ db' = Put(db, e)
  BY DEF PostResult
<1> DEFINE e == NewRecord(ran.tool, "org", s, ran.out, life, "agent")
<1>2. Good(e)
  BY AgentsAreGood
<1>3. hot' = [hot EXCEPT ![p] = Put(hot[p], e)] /\ db' = Put(db, e)
  BY <1>1
<1> HIDE DEF e
<1>4. AllGood(db') /\ DOMAIN hot' = Proc /\ \A q \in Proc : AllGood(hot'[q])
  BY <1>2, <1>3, PutIsGood DEF IInv
<1> QED  BY <1>4, Frame DEF PostResult, IInv

\* A result is looked for.
LEMMA ReplayStep == ASSUME IInv, NEW p \in Proc, NEW t, Replay(p, t) PROVE IInv'
<1>1. PICK keys : hot' = [hot EXCEPT ![p] = HotAfter(p, keys)] /\ db' = DbAfter(p, keys)
  BY DEF Replay
<1>2. AllGood(db') /\ DOMAIN hot' = Proc /\ \A q \in Proc : AllGood(hot'[q])
  BY <1>1, LookupIsGood DEF IInv
<1> QED  BY <1>2, Frame DEF Replay, IInv

\* A chat request records the conversation anew.
LEMMA ChatRequestStep == ASSUME IInv, ChatRequest PROVE IInv'
<1>1. PICK I, J, git :
        LET first == HistoryRecords(custom[Gateway], I, git)
            then == HistoryRecords(custom[Gateway], J, GitState(content))
        IN  /\ hot' = [hot EXCEPT ![Gateway] = PutAll(PutAll(@, first), then)]
            /\ db' = PutAll(PutAll(db, first), then)
  BY DEF ChatRequest
<1>2. PICK first, then : /\ AllGood(first) /\ AllGood(then)
                        /\ hot' = [hot EXCEPT ![Gateway] = PutAll(PutAll(@, first), then)]
                        /\ db' = PutAll(PutAll(db, first), then)
  BY <1>1, HistoryIsGood
<1>3. AllGood(PutAll(PutAll(db, first), then))
  BY <1>2, PutAllIsGood DEF IInv
<1>4. \A p \in Proc : AllGood(PutAll(PutAll(hot[p], first), then))
  BY <1>2, PutAllIsGood DEF IInv
<1>5. AllGood(db') /\ DOMAIN hot' = Proc /\ \A q \in Proc : AllGood(hot'[q])
  BY <1>2, <1>3, <1>4 DEF IInv, Proc
<1> QED  BY <1>5, Frame DEF ChatRequest, IInv

\* A process starts with an empty memory.
LEMMA RestartStep == ASSUME IInv, NEW p \in Proc, Restart(p) PROVE IInv'
<1>1. AllGood(db') /\ DOMAIN hot' = Proc /\ \A q \in Proc : AllGood(hot'[q])
  BY DEF Restart, IInv, AllGood
<1> QED  BY <1>1, Frame DEF Restart, IInv

\* A warm begins, and takes the file's stat.
LEMMA WarmStartStep == ASSUME IInv, NEW by, WarmStart(by) PROVE IInv'
<1>1. job'.step = "probed"
  BY DEF WarmStart
<1>2. /\ \A e \in db : Good(e)'
      /\ \A p \in Proc : \A e \in hot[p] : Good(e)'
      /\ bundle # None => \A e \in bundle.rows : Good(e)'
  BY GoodStays DEF WarmStart, IInv
<1> QED  BY <1>1, <1>2 DEF WarmStart, IInv, AllGood, cache, file, None

\* The stat is the file's present one.
LEMMA WarmStatStep == ASSUME IInv, WarmStat PROVE IInv'
<1>1. job'.state = FileState(stamp) /\ stamp \in 0..stamp
  BY DEF WarmStat, IInv
<1>2. UNCHANGED <<file, cache, bundle, clock>>
  BY DEF WarmStat
<1>3. /\ \A e \in db : Good(e)'
      /\ \A p \in Proc : \A e \in hot[p] : Good(e)'
      /\ bundle # None => \A e \in bundle.rows : Good(e)'
  BY <1>2, GoodStays DEF IInv
<1>4. \E k \in 0..stamp' : job'.state = FileState(k)
  BY <1>1, <1>2 DEF file
<1> QED  BY <1>2, <1>3, <1>4 DEF IInv, AllGood, cache, file, None

\* The warm reads the file and stores what it found.
LEMMA WarmReadStep == ASSUME IInv, WarmRead PROVE IInv'
<1>1. PICK new : AllGood(new) /\ StoreWarmed(new)
  BY WarmedAreGood DEF WarmRead
<1>2. AllGood(db')
  BY <1>1, PutAllIsGood DEF StoreWarmed, IInv
<1>3. DOMAIN hot' = Proc /\ \A p \in Proc : AllGood(hot'[p])
  BY <1>1, PutAllIsGood DEF StoreWarmed, IInv
<1> QED  BY <1>1, <1>2, <1>3, Frame DEF StoreWarmed, IInv

\* A snapshot takes rows out of the table and puts them back later.
LEMMA ExportStep == ASSUME IInv, NEW by, Export(by) PROVE IInv'
<1>1. bundle'.rows = {e \in db : e.exp > clock}
  BY DEF Export, Snapshot
<1>2. AllGood(bundle'.rows)
  BY <1>1 DEF IInv, AllGood
<1> QED  BY <1>2, FrameAll DEF Export, IInv

\* Rows of a snapshot come back.
LEMMA ImportStep == ASSUME IInv, NEW by, Import(by) PROVE IInv'
<1>1. PICK rows : /\ AllGood(rows) /\ db' = PutAll(db, rows)
                 /\ hot' = IF by = Gateway THEN [hot EXCEPT ![by] = PutAll(@, rows)] ELSE hot
  BY DEF Import, IInv, AllGood
<1>2. AllGood(db')
  BY <1>1, PutAllIsGood DEF IInv
<1>3. DOMAIN hot' = Proc /\ \A p \in Proc : AllGood(hot'[p])
  BY <1>1, PutAllIsGood DEF IInv
<1> QED  BY <1>2, <1>3, Frame DEF Import, IInv

\* Tombstones only remove.
LEMMA TombstoneStep == ASSUME IInv, TombstoneAll \/ TombstoneFile PROVE IInv'
<1>1. AllGood(db')
  BY DEF TombstoneAll, TombstoneFile, IInv, AllGood
<1>2. DOMAIN hot' = Proc /\ \A p \in Proc : AllGood(hot'[p])
  BY DEF TombstoneAll, TombstoneFile, IInv, AllGood
<1> QED  BY <1>1, <1>2, Frame DEF TombstoneAll, TombstoneFile, IInv

\* Every step keeps the invariant.
LEMMA NextIInv == IInv /\ [Next]_vars => IInv'
<1> SUFFICES ASSUME IInv, [Next]_vars PROVE IInv'
  OBVIOUS
<1>1. ASSUME Tick \/ ListPolicies \/ \E t \in Tool : ReplayInSwarm(t) \/ DeletePolicy(t)
      PROVE  IInv'
  <2>1. UNCHANGED <<file, cache, job, bundle>> /\ clock' \in Nat
    BY <1>1 DEF Tick, ListPolicies, ReplayInSwarm, DeletePolicy, IInv
  <2> QED  BY <2>1, FrameAll
<1>2. ASSUME Edit PROVE IInv'
  BY <1>2, WriteStep DEF Edit
<1>3. ASSUME NEW t, NEW ttl, NEW dir, Refused(t, ttl, dir) PROVE IInv'
  BY <1>3, FrameAll DEF Refused, IInv
<1>4. ASSUME NEW r, SetPolicy(r) PROVE IInv'
  <2>1. UNCHANGED <<file, cache, job, bundle, clock>>
    BY <1>4 DEF SetPolicy
  <2> QED  BY <2>1, FrameAll DEF IInv
<1>5. CASE Next
  BY <1>1, <1>2, <1>3, <1>4, <1>5, RunToolStep, PostResultStep, ReplayStep, ChatRequestStep,
     RestartStep, WarmStartStep, WarmStatStep, WarmReadStep, ExportStep, ImportStep,
     TombstoneStep DEF Next
<1>6. CASE UNCHANGED vars
  BY <1>6, FrameAll DEF vars, file, cache, IInv
<1> QED  BY <1>5, <1>6

\* The invariant of the specification.
LEMMA Invariance == Spec => []IInv
  BY InitIInv, NextIInv, PTL DEF Spec

----------------------------------------------------------------------------
(* Shapes *)

\* Policies of some tools, each with a TTL.
Own(own) == DOMAIN own \subseteq Tool /\ \A t \in DOMAIN own : own[t].ttl \in Nat
\* Records, one for a key.
Table(S) == S \subseteq Record /\ OneEach(S)
\* A warm under way.
Job(j) ==
  /\ j.step \in {"probed", "walked"} /\ j.git \in States
  /\ j.step = "walked" => j.listing \in Content /\ j.state \in States
\* Entries of the swarm's dictionary.
Dict(d) ==
  /\ DOMAIN d \subseteq Tool /\ Cardinality(DOMAIN d) <= SwarmCap
  /\ \A t \in DOMAIN d : d[t] \in Shared

\* The parts of the state.
FilesOK == /\ content \in Content /\ stamp \in 0..MaxWrites
           /\ history \in Seq(Result) /\ Len(history) <= MaxHistory
CountsOK == clock \in 0..MaxClock /\ ops \in 0..MaxOps
CacheOK == DOMAIN hot = Proc /\ (\A p \in Proc : Table(hot[p])) /\ Table(db)
PoliciesOK == DOMAIN custom = Proc /\ (\A p \in Proc : Own(custom[p])) /\ Own(dbPolicies)
DebouncedOK ==
  /\ DOMAIN debounced = Proc
  /\ \A p \in Proc : debounced[p] = None \/ debounced[p].state \in States
BundleOK == bundle = None \/ (Table(bundle.rows) /\ Own(bundle.policies))
Shapes ==
  /\ FilesOK /\ CountsOK /\ CacheOK /\ PoliciesOK /\ DebouncedOK /\ Dict(swarm)
  /\ (job = None \/ Job(job)) /\ BundleOK

\* A step keeps what it leaves alone.
LEMMA ShapesFrame ==
  ASSUME Shapes,
         UNCHANGED <<file, history>> \/ FilesOK', UNCHANGED <<clock, ops>> \/ CountsOK',
         UNCHANGED cache \/ CacheOK', UNCHANGED policies \/ PoliciesOK',
         UNCHANGED debounced \/ DebouncedOK', UNCHANGED swarm \/ Dict(swarm'),
         UNCHANGED job \/ job' = None \/ Job(job'), UNCHANGED bundle \/ BundleOK'
  PROVE  Shapes'
<1>1. FilesOK' /\ CountsOK'
  BY DEF Shapes, FilesOK, CountsOK, file
<1>2. CacheOK' /\ PoliciesOK'
  BY DEF Shapes, CacheOK, PoliciesOK, cache, policies
<1>3. DebouncedOK' /\ BundleOK'
  BY DEF Shapes, DebouncedOK, BundleOK
<1>4. Dict(swarm') /\ (job' = None \/ Job(job'))
  BY DEF Shapes
<1> QED  BY <1>1, <1>2, <1>3, <1>4 DEF Shapes

\* Every policy has a TTL, and so has a result that is stored under it.
LEMMA PolicyHasTtl ==
  ASSUME ToolAssumption, NEW own, Own(own), NEW t \in Tool PROVE Policy(own, t).ttl \in Nat
<1>1. CASE t \in DOMAIN own
  BY <1>1 DEF Policy, Own
<1>2. CASE t \notin DOMAIN own
  <2>1. Policy(own, t) = BuiltIn[t]
    BY <1>2 DEF Policy
  <2>2. t = "read_file" \/ t = "list_dir" \/ t = "lookup_order" \/ t = "write_file"
    BY DEF ToolAssumption
  <2> QED  BY <2>1, <2>2 DEF BuiltIn, Pol
<1> QED  BY <1>1, <1>2
LEMMA StoredHasTtl ==
  ASSUME ToolAssumption, NEW own, Own(own), NEW t \in Tool, NEW ttl \in Ttls \union {NoTtl}
  PROVE  EffectiveTtl(Policy(own, t), ttl) \in Nat
  BY PolicyHasTtl DEF EffectiveTtl, ToolAssumption

\* A new record is one.
LEMMA NewRecordShape ==
  ASSUME CountsOK, NEW t \in Tool, NEW label \in Label, NEW s \in States, NEW out \in Content,
         NEW ttl \in Nat, NEW from \in {"agent", "warm"}
  PROVE  NewRecord(t, label, s, out, ttl, from) \in Record
<1>1. PICK k : k = [tool |-> t, label |-> label, state |-> s]
  OBVIOUS
<1>2. k \in Key
  BY <1>1 DEF Key
<1>3. clock \in 0..MaxClock /\ clock + ttl \in Nat
  BY DEF CountsOK
<1> QED  BY <1>1, <1>2, <1>3 DEF NewRecord, Record

\* States of the workspace, as a process sees them.
LEMMA StatesSeen ==
  ASSUME Shapes, NEW p \in Proc
  PROVE  /\ GitStates(p) \subseteq States /\ GitState(content) \in States
         /\ FileState(stamp) \in States
<1>1. GitState(content) \in States /\ FileState(stamp) \in States
  BY DEF Shapes, FilesOK, States
<1>2. \A d \in Debounce(p) : d.state \in States
  BY DEF Debounce, Shapes, DebouncedOK
<1> QED  BY <1>1, <1>2 DEF GitStates
LEMMA StateUnderSeen ==
  ASSUME Shapes, NEW pol, NEW git \in States PROVE StateUnder(pol, git) \in States
<1>1. FileState(stamp) \in States
  BY DEF Shapes, FilesOK, States
<1>2. <<"static", 0>> \in States
  BY DEF States
<1> QED  BY <1>1, <1>2 DEF StateUnder
LEMMA DebouncingShape ==
  ASSUME Shapes, NEW p \in Proc, NEW pols, NEW git
  PROVE  debounced' = Debouncing(p, pols, git) \/ debounced' = Undebounced(p) => DebouncedOK'
<1>1. GitState(content) \in States
  BY DEF Shapes, FilesOK, States
<1> SUFFICES ASSUME debounced' = Debouncing(p, pols, git) \/ debounced' = Undebounced(p)
             PROVE  DebouncedOK'
  OBVIOUS
<1>2. \/ debounced' = debounced \/ debounced' = [debounced EXCEPT ![p] = None]
      \/ \E s : debounced' = [debounced EXCEPT ![p] = [signal |-> s, state |-> GitState(content)]]
  BY DEF Debouncing, Undebounced
<1> QED  BY <1>1, <1>2 DEF Shapes, DebouncedOK

\* Merging keeps one record for a key.
LEMMA PutTable ==
  ASSUME NEW S, Table(S), NEW e \in Record PROVE Table(Put(S, e))
  BY DEF Table, Put, OneEach
LEMMA PutAllTable ==
  ASSUME NEW S, Table(S), NEW new, Table(new) PROVE Table(PutAll(S, new))
  BY DEF Table, PutAll, OneEach
LEMMA SubTable ==
  ASSUME NEW S, Table(S), NEW T, T \subseteq S PROVE Table(T)
  BY DEF Table, OneEach

\* So does a lookup: a row enters memory where no record has its key.
LEMMA LookupTable ==
  ASSUME CacheOK, NEW p \in Proc, NEW keys
  PROVE  Table(HotAfter(p, keys)) /\ Table(DbAfter(p, keys))
<1>1. Table(hot[p]) /\ Table(db)
  BY DEF CacheOK
<1>2. ASSUME NEW e \in HotAfter(p, keys)
      PROVE  e \in hot[p] \/ (e \in db /\ At(hot[p], e.key) = {})
  <2>1. CASE e \in Hydrated(p, keys)
    <3>1. PICK k \in keys : e \in Found(p, k)
      BY <2>1 DEF Hydrated
    <3> QED  BY <3>1 DEF Found, At
  <2> QED  BY <1>2, <2>1 DEF HotAfter
<1>3. HotAfter(p, keys) \subseteq Record
  BY <1>1, <1>2 DEF Table
<1>4. ASSUME NEW e \in HotAfter(p, keys), NEW f \in HotAfter(p, keys), e.key = f.key
      PROVE  e = f
  BY <1>1, <1>2, <1>4 DEF Table, OneEach, At
<1>5. Table(DbAfter(p, keys))
  BY <1>1, SubTable DEF DbAfter
<1> QED  BY <1>3, <1>4, <1>5 DEF Table, OneEach

\* A set of positions has a first and a last one.
LEMMA FirstPosition ==
  ASSUME NEW n \in Nat, NEW P, P \subseteq 1..n, P # {}
  PROVE  \E i \in P : \A j \in P : i <= j
<1>1. P \subseteq Nat
  OBVIOUS
<1>2. PICK i \in P : \A j \in P : ~(<<j, i>> \in OpToRel(<, Nat))
  BY <1>1, NatLessThanWellFounded, WFMin
<1>3. \A j \in P : ~(j < i)
  BY <1>1, <1>2 DEF OpToRel
<1> QED  BY <1>1, <1>3
\* The last of some positions.
LEMMA LastPosition ==
  ASSUME NEW n \in Nat, NEW P, P \subseteq 1..n, P # {}
  PROVE  Max(P) \in P /\ \A j \in P : j <= Max(P)
<1>1. PICK Q : Q = {m \in 1..n : n + 1 - m \in P}
  OBVIOUS
<1>2. \A i \in P : n + 1 - i \in Q
  BY <1>1
<1>3. Q \subseteq 1..n /\ Q # {}
  BY <1>1, <1>2
<1>4. PICK m \in Q : \A l \in Q : m <= l
  BY <1>3, FirstPosition
<1>5. PICK i \in P : i = n + 1 - m
  BY <1>1
<1>6. ASSUME NEW j \in P PROVE i >= j
  <2>1. n + 1 - j \in Q
    BY <1>2
  <2>2. m <= n + 1 - j
    BY <1>4, <2>1
  <2> QED  BY <1>1, <1>5, <2>2
<1>7. \A j \in P : Max(P) >= j /\ Max(P) \in P
  BY <1>6 DEF Max
<1> QED  BY <1>7

\* The last result of a tool among some places of the conversation.
LEMMA LastRun ==
  ASSUME FilesOK, NEW t, NEW I, Runs(history, t) \intersect I # {}
  PROVE  LET last == Max(Runs(history, t) \intersect I) IN
         /\ last \in DOMAIN history /\ last \in I
         /\ history[last].tool = t /\ history[last].out \in Content
         /\ \A j \in Runs(history, t) \intersect I : j <= last
<1>1. DOMAIN history = 1..Len(history) /\ Len(history) \in Nat
  BY DEF FilesOK
<1>2. PICK P : P = Runs(history, t) \intersect I
  OBVIOUS
<1>3. Max(P) \in P /\ \A j \in P : j <= Max(P)
  BY <1>1, <1>2, LastPosition DEF Runs
<1>4. Max(P) \in DOMAIN history /\ history[Max(P)].tool = t
  BY <1>2, <1>3 DEF Runs
<1>5. history[Max(P)] \in Result
  BY <1>4 DEF FilesOK
<1> QED  BY <1>2, <1>3, <1>4, <1>5 DEF Result

\* What is recorded of a conversation: one record for a tool.
LEMMA HistoryTable ==
  ASSUME ToolAssumption, Shapes, NEW own, Own(own), NEW I, NEW git \in States
  PROVE  Table(HistoryRecords(own, I, git))
<1> DEFINE J == {i \in I : history[i].ok}
           last(t) == Max(Runs(history, t) \intersect J)
           life(t) == EffectiveTtl(Policy(own, t), NoTtl)
           rec(t) == NewRecord(t, "default", StateUnder(Policy(own, t), git),
                               history[last(t)].out, life(t), "agent")
           T == {x \in Tool : Runs(history, x) \intersect J # {} /\ life(x) > 0}
<1>1. HistoryRecords(own, I, git) = {rec(t) : t \in T}
  BY DEF HistoryRecords
<1>2. ASSUME NEW t \in T PROVE rec(t) \in Record /\ rec(t).key.tool = t
  <2>1. history[last(t)].out \in Content
    BY LastRun DEF Shapes
  <2>2. life(t) \in Nat
    BY StoredHasTtl
  <2>3. StateUnder(Policy(own, t), git) \in States
    BY StateUnderSeen
  <2>4. "default" \in Label /\ "agent" \in {"agent", "warm"} /\ CountsOK /\ t \in Tool
    BY DEF Label, Shapes
  <2> HIDE DEF last, life
  <2>5. rec(t) \in Record
    BY <2>1, <2>2, <2>3, <2>4, NewRecordShape
  <2> QED  BY <2>5 DEF NewRecord
<1> HIDE DEF T, rec
<1> QED  BY <1>1, <1>2 DEF Table, OneEach

\* What a warm stores: a listing and a file.
LEMMA WarmTable ==
  ASSUME ToolAssumption, Shapes, job # None, Job(job), job.step = "walked",
         NEW own, Own(own), NEW state \in States, NEW read \in Content
  PROVE  Table(WarmRecords(own, state, read))
<1> DEFINE label == IF job.by = Gateway THEN "org" ELSE "default"
           life(t) == EffectiveTtl(Policy(own, t), NoTtl)
           one == NewRecord("list_dir", label, job.git, job.listing, life("list_dir"), "warm")
           two == NewRecord("read_file", label, state, read, life("read_file"), "warm")
<1>1. \A e \in WarmRecords(own, state, read) :
        (e = one /\ "list_dir" \in Tool) \/ (e = two /\ "read_file" \in Tool)
  BY DEF WarmRecords
<1>2. label \in Label /\ "warm" \in {"agent", "warm"} /\ CountsOK
  BY DEF Label, Shapes
<1>3. \A t \in Tool : life(t) \in Nat
  BY StoredHasTtl
<1>4. job.git \in States /\ job.listing \in Content
  BY DEF Job
<1> HIDE DEF label, life
<1>5. "list_dir" \in Tool => one \in Record
  BY <1>2, <1>3, <1>4, NewRecordShape
<1>6. "read_file" \in Tool => two \in Record
  BY <1>2, <1>3, NewRecordShape
<1>7. one.key.tool = "list_dir" /\ two.key.tool = "read_file"
  BY DEF NewRecord
<1> HIDE DEF one, two
<1> QED  BY <1>1, <1>5, <1>6, <1>7 DEF Table, OneEach

\* The swarm: fewer entries stay entries, one more replaces one or has room.
LEMMA SmallDict ==
  ASSUME ToolAssumption, NEW d, Dict(d)
  PROVE  IsFiniteSet(DOMAIN d) /\ Cardinality(DOMAIN d) \in Nat
<1>1. IsFiniteSet({"read_file", "list_dir", "lookup_order", "write_file"})
  <2>1. \A S, e : IsFiniteSet(S) => IsFiniteSet(S \union {e})
    BY FS_AddElement
  <2>2. IsFiniteSet(((({} \union {"read_file"}) \union {"list_dir"})
                      \union {"lookup_order"}) \union {"write_file"})
    BY <2>1, FS_EmptySet, Zenon
  <2>3. (((({} \union {"read_file"}) \union {"list_dir"})
          \union {"lookup_order"}) \union {"write_file"})
          = {"read_file", "list_dir", "lookup_order", "write_file"}
    OBVIOUS
  <2> QED  BY <2>2, <2>3
<1>2. DOMAIN d \in SUBSET {"read_file", "list_dir", "lookup_order", "write_file"}
  BY DEF Dict, ToolAssumption
<1> QED  BY <1>1, <1>2, FS_Subset, FS_CardinalityType
\* Taking entries out, and making room for one, keep a dictionary within its cap.
LEMMA RestrictDict ==
  ASSUME ToolAssumption, NEW d, Dict(d), NEW T, T \subseteq DOMAIN d
  PROVE  Dict(Restrict(d, T)) /\ Cardinality(T) <= Cardinality(DOMAIN d)
<1>1. /\ IsFiniteSet(T) /\ Cardinality(T) <= Cardinality(DOMAIN d)
      /\ Cardinality(T) \in Nat /\ Cardinality(DOMAIN d) \in Nat
  BY SmallDict, FS_Subset, FS_CardinalityType
<1>2. DOMAIN Restrict(d, T) = T /\ \A t \in T : Restrict(d, T)[t] = d[t]
  BY DEF Restrict
<1>3. Cardinality(T) <= SwarmCap
  BY <1>1 DEF Dict, ToolAssumption
<1> QED  BY <1>1, <1>2, <1>3 DEF Dict
LEMMA PrunedDict ==
  ASSUME ToolAssumption, NEW d, Dict(d)
  PROVE  Dict(Pruned(d)) /\ Cardinality(DOMAIN Pruned(d)) < SwarmCap
<1>1. Cardinality(DOMAIN d) \in Nat /\ IsFiniteSet(DOMAIN d) /\ SwarmCap \in Nat \ {0}
  BY SmallDict DEF ToolAssumption
<1>2. CASE Cardinality(DOMAIN d) < SwarmCap
  BY <1>2 DEF Pruned
<1>3. CASE ~(Cardinality(DOMAIN d) < SwarmCap)
  <2>1. DOMAIN d # {}
    BY <1>1, <1>3, FS_EmptySet
  <2>2. PICK P : P = {d[t].place + 1 : t \in DOMAIN d}
    OBVIOUS
  <2>3. P \subseteq 1..(MaxOps + 1) /\ P # {} /\ MaxOps + 1 \in Nat
    BY <2>1, <2>2 DEF Dict, Shared, ToolAssumption
  <2>4. PICK i \in P : \A j \in P : i <= j
    BY <2>3, FirstPosition
  <2>5. PICK t \in DOMAIN d : i = d[t].place + 1
    BY <2>2
  <2>6. \A u \in DOMAIN d : d[u].place \in Nat
    BY DEF Dict, Shared
  <2>7. \A u \in DOMAIN d : d[t].place <= d[u].place
    BY <2>2, <2>4, <2>5, <2>6
  <2>8. Oldest(d) \in DOMAIN d
    BY <2>7 DEF Oldest
  <2>9. PICK T : T = DOMAIN d \ {Oldest(d)}
    OBVIOUS
  <2>10. Cardinality(T) = Cardinality(DOMAIN d) - 1
    BY <1>1, <2>8, <2>9, FS_RemoveElement
  <2>11. Pruned(d) = Restrict(d, T) /\ DOMAIN Restrict(d, T) = T /\ T \subseteq DOMAIN d
    BY <1>3, <2>9 DEF Pruned, Restrict
  <2>12. Cardinality(DOMAIN d) <= SwarmCap
    BY DEF Dict
  <2>13. Cardinality(T) < SwarmCap
    BY <1>1, <2>10, <2>12
  <2> QED  BY <2>11, <2>13, RestrictDict
<1> QED  BY <1>2, <1>3
\* So does an entry that is added after room was made.
LEMMA ShareDict ==
  ASSUME ToolAssumption, CountsOK, NEW d, Dict(d), Cardinality(DOMAIN d) < SwarmCap,
         NEW t \in Tool, NEW out \in Content, NEW dir \in BOOLEAN
  PROVE  Dict(Share(d, t, out, dir))
<1>1. PICK e : e = Entry(d, t, out, dir)
  OBVIOUS
<1>2. PICK place : place = IF t \in DOMAIN d THEN d[t].place ELSE ops
  OBVIOUS
<1>3. place \in 0..MaxOps /\ clock \in 0..MaxClock
  BY <1>2 DEF Dict, Shared, CountsOK
<1>4. e = [out |-> out, born |-> clock, dir |-> dir, place |-> place]
  BY <1>1, <1>2 DEF Entry
<1>5. e \in Shared
  BY <1>3, <1>4 DEF Shared
<1>6. PICK new : new = Share(d, t, out, dir)
  OBVIOUS
<1>7. /\ DOMAIN new = DOMAIN d \union {t}
      /\ \A u \in DOMAIN new : new[u] = IF u = t THEN e ELSE d[u]
  BY <1>1, <1>6 DEF Share
<1>8. \A u \in DOMAIN new : new[u] \in Shared
  BY <1>5, <1>7 DEF Dict
<1>9. Cardinality(DOMAIN d) \in Nat /\ IsFiniteSet(DOMAIN d) /\ SwarmCap \in Nat
  BY SmallDict DEF ToolAssumption
<1>10. Cardinality(DOMAIN d \union {t})
         = IF t \in DOMAIN d THEN Cardinality(DOMAIN d) ELSE Cardinality(DOMAIN d) + 1
  BY <1>9, FS_AddElement
<1>11. Cardinality(DOMAIN new) <= SwarmCap
  BY <1>7, <1>9, <1>10
<1>12. DOMAIN new \subseteq Tool
  BY <1>7 DEF Dict
<1> QED  BY <1>6, <1>8, <1>11, <1>12 DEF Dict

----------------------------------------------------------------------------
(* Shapes, step by step *)

\* At the start everything is empty.
LEMMA InitShapes == Init => Shapes
<1> SUFFICES ASSUME Init PROVE Shapes
  OBVIOUS
<1>1. FilesOK /\ CountsOK
  <2>1. <<>> \in Seq(Result) /\ Len(<<>>) = 0
    OBVIOUS
  <2> QED  BY <2>1, ToolAssumption DEF Init, FilesOK, CountsOK
<1>2. CacheOK
  BY DEF Init, CacheOK, Table, OneEach
<1>3. PoliciesOK
  BY DEF Init, PoliciesOK, Own
<1>4. DebouncedOK /\ BundleOK /\ job = None
  BY DEF Init, DebouncedOK, BundleOK
<1>5. Dict(swarm)
  <2>1. DOMAIN <<>> = {} /\ Cardinality({}) = 0
    BY FS_EmptySet
  <2> QED  BY <2>1, ToolAssumption DEF Init, Dict
<1> QED  BY <1>1, <1>2, <1>3, <1>4, <1>5 DEF Shapes

\* The file and the conversation.
LEMMA EditShapes == ASSUME ToolAssumption, Shapes, Edit PROVE Shapes'
<1>1. FilesOK'
  BY DEF Edit, Write, Shapes, FilesOK, ToolAssumption
<1> QED  BY <1>1, ShapesFrame DEF Edit, cache, policies
LEMMA RunToolShapes ==
  ASSUME ToolAssumption, Shapes, NEW t \in Tool, NEW ok \in BOOLEAN, RunTool(t, ok)
  PROVE  Shapes'
<1>1. content' \in Content /\ stamp' \in 0..MaxWrites
  BY DEF RunTool, Write, file, Shapes, FilesOK, ToolAssumption
<1>2. PICK r : r = [tool |-> t, out |-> content', ok |-> ok]
  OBVIOUS
<1>3. r \in Result
  BY <1>1, <1>2 DEF Result
<1>4. history' = Append(history, r) /\ Len(history) < MaxHistory /\ history \in Seq(Result)
  BY <1>2 DEF RunTool, Shapes, FilesOK
<1>5. history' \in Seq(Result) /\ Len(history') <= MaxHistory
  BY <1>3, <1>4 DEF ToolAssumption
<1>6. FilesOK'
  BY <1>1, <1>5 DEF FilesOK
<1> QED  BY <1>6, ShapesFrame DEF RunTool, cache, policies
LEMMA TickShapes == ASSUME ToolAssumption, Shapes, Tick PROVE Shapes'
<1>1. CountsOK' /\ DebouncedOK'
  BY DEF Tick, Shapes, CountsOK, DebouncedOK, ToolAssumption
<1> QED  BY <1>1, ShapesFrame DEF Tick, cache, policies

\* A request is counted.
LEMMA OpCounts == ASSUME ToolAssumption, Shapes, Op, UNCHANGED clock PROVE CountsOK'
  BY DEF Op, Shapes, CountsOK, ToolAssumption

\* A process starts.
LEMMA RestartShapes == ASSUME ToolAssumption, Shapes, NEW p \in Proc, Restart(p) PROVE Shapes'
<1>1. CountsOK'
  BY OpCounts DEF Restart
<1>2. CacheOK' /\ PoliciesOK'
  BY DEF Restart, Shapes, CacheOK, PoliciesOK, Table, OneEach
<1>3. DebouncedOK'
  BY DebouncingShape DEF Restart
<1>4. swarm' = swarm \/ Dict(swarm')
  <2>1. DOMAIN <<>> = {} /\ Cardinality({}) = 0
    BY FS_EmptySet
  <2>2. Dict(<<>>)
    BY <2>1 DEF Dict, ToolAssumption
  <2> QED  BY <2>2 DEF Restart
<1>5. UNCHANGED job \/ job' = None
  BY DEF Restart
<1> QED  BY <1>1, <1>2, <1>3, <1>4, <1>5, ShapesFrame DEF Restart

\* A result is posted.
LEMMA PostResultShapes ==
  ASSUME ToolAssumption, Shapes, NEW p \in Proc, NEW ran \in ToSet(history), NEW ttl \in Ttls,
         NEW shared \in BOOLEAN, NEW dir \in BOOLEAN, PostResult(p, ran, ttl, shared, dir)
  PROVE  Shapes'
<1>1. PICK i \in DOMAIN history : ran = history[i]
  BY DEF ToSet
<1>2. ran \in Result
  BY <1>1 DEF Shapes, FilesOK
<1>3. ran.tool \in Tool /\ ran.out \in Content
  BY <1>2 DEF Result
<1>4. PICK pol, life : pol = Policy(custom[p], ran.tool) /\ life = EffectiveTtl(pol, ttl)
  OBVIOUS
<1>5. life \in Nat
  BY <1>3, <1>4, StoredHasTtl DEF Shapes, PoliciesOK
<1>6. PICK git \in GitStates(p) :
        LET e == NewRecord(ran.tool, "org", StateUnder(pol, git), ran.out, life, "agent")
        IN  /\ hot' = [hot EXCEPT ![p] = Put(@, e)] /\ db' = Put(db, e)
            /\ debounced' = Debouncing(p, {pol}, git)
  BY <1>4 DEF PostResult
<1>7. PICK e : e = NewRecord(ran.tool, "org", StateUnder(pol, git), ran.out, life, "agent")
  OBVIOUS
<1>8. hot' = [hot EXCEPT ![p] = Put(hot[p], e)] /\ db' = Put(db, e)
  BY <1>6, <1>7
<1>9. e \in Record
  <2>1. StateUnder(pol, git) \in States
    BY StatesSeen, StateUnderSeen
  <2>2. "org" \in Label /\ "agent" \in {"agent", "warm"} /\ CountsOK
    BY DEF Label, Shapes
  <2> QED  BY <1>3, <1>5, <1>7, <2>1, <2>2, NewRecordShape
<1>10. CacheOK'
  BY <1>8, <1>9, PutTable DEF Shapes, CacheOK
<1>11. DebouncedOK'
  BY <1>6, DebouncingShape
<1>12. UNCHANGED swarm \/ Dict(swarm')
  BY <1>3, PrunedDict, ShareDict DEF PostResult, Shapes
<1>13. CountsOK'
  BY OpCounts DEF PostResult
<1>14. UNCHANGED <<file, history, policies, job, bundle>>
  BY DEF PostResult
<1> QED  BY <1>10, <1>11, <1>12, <1>13, <1>14, ShapesFrame

\* The swarm hears of a result that is not cached, or is asked for one.
LEMMA SwarmShapes ==
  ASSUME ToolAssumption, Shapes,
         UNCHANGED <<file, history, cache, policies, debounced, job, bundle, ops, clock>>,
         NEW T, T \subseteq DOMAIN swarm, swarm' = Restrict(swarm, T)
  PROVE  Shapes'
<1>1. Dict(swarm')
  BY RestrictDict DEF Shapes
<1> QED  BY <1>1, ShapesFrame
LEMMA RefusedShapes ==
  ASSUME ToolAssumption, Shapes, NEW t, NEW ttl, NEW dir, Refused(t, ttl, dir) PROVE Shapes'
<1>1. PICK T : T = {u \in DOMAIN swarm : Survives(swarm, u, dir)}
  OBVIOUS
<1>2. T \subseteq DOMAIN swarm /\ swarm' = Restrict(swarm, T)
  BY <1>1 DEF Refused, Invalidated
<1> QED  BY <1>2, SwarmShapes DEF Refused
LEMMA ReplayInSwarmShapes ==
  ASSUME ToolAssumption, Shapes, NEW t, ReplayInSwarm(t) PROVE Shapes'
<1>1. PICK T : T = {u \in DOMAIN swarm : u # t \/ clock - swarm[u].born <= SwarmTtl}
  OBVIOUS
<1>2. T \subseteq DOMAIN swarm /\ swarm' = Restrict(swarm, T)
  BY <1>1 DEF ReplayInSwarm, SwarmAfter
<1> QED  BY <1>2, SwarmShapes DEF ReplayInSwarm

\* A result is looked for.
LEMMA ReplayShapes ==
  ASSUME ToolAssumption, Shapes, NEW p \in Proc, NEW t, Replay(p, t) PROVE Shapes'
<1>1. PICK pol, git, keys :
        /\ hot' = [hot EXCEPT ![p] = HotAfter(p, keys)] /\ db' = DbAfter(p, keys)
        /\ debounced' = Debouncing(p, {pol}, git)
  BY DEF Replay
<1>2. CacheOK'
  BY <1>1, LookupTable DEF Shapes, CacheOK
<1>3. DebouncedOK'
  BY <1>1, DebouncingShape
<1> QED  BY <1>2, <1>3, ShapesFrame DEF Replay

\* A conversation is recorded.
LEMMA ChatRequestShapes == ASSUME ToolAssumption, Shapes, ChatRequest PROVE Shapes'
<1>1. PICK own, early, late, git :
        /\ own = custom[Gateway] /\ git \in GitStates(Gateway)
        /\ LET first == HistoryRecords(own, early, git)
               then == HistoryRecords(own, late, GitState(content))
           IN  /\ hot' = [hot EXCEPT ![Gateway] = PutAll(PutAll(@, first), then)]
               /\ db' = PutAll(PutAll(db, first), then)
        /\ \E used : debounced' = Debouncing(Gateway, used, git)
             \/ debounced' = Debouncing(Gateway, used, GitState(content))
             \/ debounced' = Undebounced(Gateway)
  BY DEF ChatRequest
<1>2. Gateway \in Proc /\ git \in States /\ GitState(content) \in States /\ Own(own)
  BY <1>1, StatesSeen DEF Proc, Shapes, PoliciesOK
<1>3. PICK first, then : first = HistoryRecords(own, early, git)
                         /\ then = HistoryRecords(own, late, GitState(content))
  OBVIOUS
<1>4. Table(first) /\ Table(then)
  BY <1>2, <1>3, HistoryTable
<1>5. hot' = [hot EXCEPT ![Gateway] = PutAll(PutAll(hot[Gateway], first), then)]
      /\ db' = PutAll(PutAll(db, first), then)
  BY <1>1, <1>3
<1>6. CacheOK'
  <2>1. Table(PutAll(PutAll(db, first), then))
    BY <1>4, PutAllTable DEF Shapes, CacheOK
  <2>2. Table(PutAll(PutAll(hot[Gateway], first), then))
    BY <1>2, <1>4, PutAllTable DEF Shapes, CacheOK
  <2> QED  BY <1>5, <2>1, <2>2 DEF Shapes, CacheOK
<1>7. DebouncedOK'
  BY <1>1, <1>2, DebouncingShape
<1>8. CountsOK'
  BY OpCounts DEF ChatRequest
<1>9. UNCHANGED <<file, history, policies, swarm, job, bundle>>
  BY DEF ChatRequest
<1> QED  BY <1>6, <1>7, <1>8, <1>9, ShapesFrame

\* Policies are set, removed and listed.
LEMMA SetPolicyShapes ==
  ASSUME ToolAssumption, Shapes, NEW r \in Requests, SetPolicy(r) PROVE Shapes'
<1>1. PICK pol : pol = Normalized(r)
  OBVIOUS
<1>2. r.tool \in Tool /\ pol.ttl \in Nat
  BY <1>1 DEF Normalized, Pol, ToolAssumption
<1>3. \A own : Own(own) => Own(WithPolicy(own, r.tool, pol))
  BY <1>2 DEF Own, WithPolicy
<1>4. /\ custom' = [custom EXCEPT ![Gateway] = WithPolicy(custom[Gateway], r.tool, pol)]
      /\ dbPolicies' = WithPolicy(dbPolicies, r.tool, pol)
  BY <1>1 DEF SetPolicy
<1>5. PoliciesOK'
  BY <1>3, <1>4 DEF Shapes, PoliciesOK, Proc
<1>6. CountsOK'
  BY OpCounts DEF SetPolicy
<1> QED  BY <1>5, <1>6, ShapesFrame DEF SetPolicy
LEMMA DeletePolicyShapes == ASSUME ToolAssumption, Shapes, NEW t, DeletePolicy(t) PROVE Shapes'
<1>1. \A own : Own(own) => Own(WithoutPolicy(own, t))
  BY DEF Own, WithoutPolicy
<1>2. PoliciesOK'
  BY <1>1 DEF DeletePolicy, Shapes, PoliciesOK, Proc
<1>3. CountsOK'
  BY OpCounts DEF DeletePolicy
<1> QED  BY <1>2, <1>3, ShapesFrame DEF DeletePolicy
LEMMA ListPoliciesShapes == ASSUME ToolAssumption, Shapes, ListPolicies PROVE Shapes'
<1>1. \A own : Own(own) => Own(Loaded(own))
  BY DEF Own, Loaded, Shapes, PoliciesOK
<1>2. PoliciesOK'
  BY <1>1 DEF ListPolicies, Shapes, PoliciesOK, Proc
<1>3. CountsOK'
  BY OpCounts DEF ListPolicies
<1> QED  BY <1>2, <1>3, ShapesFrame DEF ListPolicies

\* A warm, in its three steps.
LEMMA WarmShapes ==
  ASSUME ToolAssumption, Shapes, (\E by : WarmStart(by)) \/ WarmStat \/ WarmRead PROVE Shapes'
<1>1. ASSUME NEW by, WarmStart(by) PROVE Shapes'
  <2>1. GitState(content) \in States
    BY DEF Shapes, FilesOK, States
  <2>2. Job(job')
    BY <1>1, <2>1 DEF WarmStart, Job
  <2>3. CountsOK'
    BY <1>1, OpCounts DEF WarmStart
  <2> QED  BY <1>1, <2>2, <2>3, ShapesFrame DEF WarmStart
<1>2. ASSUME WarmStat PROVE Shapes'
  <2>1. FileState(stamp) \in States /\ content \in Content
    BY DEF Shapes, FilesOK, States
  <2>2. job.git \in States
    BY <1>2 DEF WarmStat, Shapes, Job
  <2>3. Job(job')
    BY <1>2, <2>1, <2>2 DEF WarmStat, Job
  <2> QED  BY <1>2, <2>3, ShapesFrame DEF WarmStat
<1>3. ASSUME WarmRead PROVE Shapes'
  <2>1. Job(job) /\ job # None /\ job.step = "walked"
    BY <1>3 DEF WarmRead, Shapes
  <2>2. PICK own : own = PoliciesOf(job.by)
    OBVIOUS
  <2>3. Own(own)
    BY <2>2 DEF PoliciesOf, Shapes, PoliciesOK, Proc
  <2>4. job.state \in States /\ content \in Content
    BY <2>1 DEF Job, Shapes, FilesOK
  <2>5. PICK new : new = WarmRecords(own, job.state, content)
    OBVIOUS
  <2>6. Table(new)
    BY <2>1, <2>3, <2>4, <2>5, WarmTable
  <2>7. StoreWarmed(new)
    BY <1>3, <2>2, <2>5 DEF WarmRead
  <2>8. CacheOK'
    BY <2>6, <2>7, PutAllTable DEF StoreWarmed, Shapes, CacheOK
  <2> QED  BY <2>7, <2>8, ShapesFrame DEF StoreWarmed
<1> QED  BY <1>1, <1>2, <1>3

\* Snapshots.
LEMMA ExportShapes == ASSUME ToolAssumption, Shapes, NEW by, Export(by) PROVE Shapes'
<1>1. PICK b : b = Snapshot(by)
  OBVIOUS
<1>2. b.rows \subseteq db /\ b.policies = PoliciesOf(by)
  BY <1>1 DEF Snapshot
<1>3. Table(b.rows)
  BY <1>2, SubTable DEF Shapes, CacheOK
<1>4. Own(b.policies)
  BY <1>2 DEF PoliciesOf, Shapes, PoliciesOK, Proc
<1>5. BundleOK'
  BY <1>1, <1>3, <1>4 DEF Export, BundleOK
<1>6. CountsOK'
  BY OpCounts DEF Export
<1> QED  BY <1>5, <1>6, ShapesFrame DEF Export
LEMMA ImportShapes == ASSUME ToolAssumption, Shapes, NEW by, Import(by) PROVE Shapes'
<1>1. Table(bundle.rows) /\ Own(bundle.policies)
  BY DEF Import, Shapes, BundleOK
<1>2. PICK rows : rows = {e \in bundle.rows : e.exp > clock}
  OBVIOUS
<1>3. Table(rows)
  BY <1>1, <1>2, SubTable
<1>4. /\ db' = PutAll(db, rows)
      /\ hot' = IF by = Gateway THEN [hot EXCEPT ![by] = PutAll(hot[by], rows)] ELSE hot
  BY <1>2 DEF Import
<1>5. CacheOK'
  BY <1>3, <1>4, PutAllTable DEF Shapes, CacheOK
<1>6. \A own : Own(own) => Own(Imported(own))
  BY <1>1 DEF Own, Imported
<1>7. PoliciesOK'
  BY <1>6 DEF Import, Shapes, PoliciesOK
<1>8. CountsOK'
  BY OpCounts DEF Import
<1> QED  BY <1>5, <1>7, <1>8, ShapesFrame DEF Import

\* Tombstones.
LEMMA TombstoneShapes ==
  ASSUME ToolAssumption, Shapes, TombstoneAll \/ TombstoneFile PROVE Shapes'
<1>1. CountsOK' /\ DebouncedOK'
  BY OpCounts, DebouncingShape DEF TombstoneAll, TombstoneFile, Proc
<1>2. CacheOK'
  BY SubTable DEF TombstoneAll, TombstoneFile, Shapes, CacheOK, Table, OneEach
<1>3. Dict(swarm')
  <2>1. PICK T : T = {t \in DOMAIN swarm : Survives(swarm, t, TRUE)}
    OBVIOUS
  <2>2. Dict(Restrict(swarm, T))
    BY <2>1, RestrictDict DEF Shapes
  <2>3. Dict(<<>>)
    <3>1. DOMAIN <<>> = {} /\ Cardinality({}) = 0
      BY FS_EmptySet
    <3> QED  BY <3>1 DEF Dict, ToolAssumption
  <2> QED  BY <2>1, <2>2, <2>3 DEF TombstoneAll, TombstoneFile, Invalidated
<1> QED  BY <1>1, <1>2, <1>3, ShapesFrame DEF TombstoneAll, TombstoneFile

\* Every step keeps the shapes.
LEMMA NextShapes == ToolAssumption /\ Shapes /\ [Next]_vars => Shapes'
<1> SUFFICES ASSUME ToolAssumption, Shapes, [Next]_vars PROVE Shapes'
  OBVIOUS
<1>1. CASE Next
  BY <1>1, EditShapes, RunToolShapes, TickShapes, RestartShapes, PostResultShapes,
     RefusedShapes, ReplayInSwarmShapes, ReplayShapes, ChatRequestShapes, SetPolicyShapes,
     DeletePolicyShapes, ListPoliciesShapes, WarmShapes, ExportShapes, ImportShapes,
     TombstoneShapes DEF Next
<1>2. CASE UNCHANGED vars
  BY <1>2, ShapesFrame DEF vars, file, cache, policies
<1> QED  BY <1>1, <1>2

\* The shapes hold of the specification.
LEMMA ShapesHold == Spec => []Shapes
  BY InitShapes, NextShapes, ToolAssumption, PTL DEF Spec

----------------------------------------------------------------------------
(* Theorems *)

\* What the warmer stored for a file is never found under the stat of other
\* content, in whatever order files change while it walks and reads, and
\* wherever the record has gone (workspace_sync.py:231 and :235).
THEOREM WarmedReadsAreFresh == Spec => []WarmedReadIsFresh
<1>1. IInv => WarmedReadIsFresh
  BY FileStates DEF IInv, AllGood, Good, WarmedReadIsFresh
<1> QED  BY <1>1, Invariance, PTL

\* No lookup returns a record past the TTL it was stored with, in either
\* process and under either label (lookup_tool_call).
THEOREM ReplaysKeepTheirTerm == Spec => []ServedWithinTtl
<1>1. ASSUME IInv, NEW p \in Proc, NEW k PROVE \A e \in Found(p, k) : clock <= e.born + e.ttl
  BY <1>1 DEF Found, At, Fresh, IInv, AllGood, Good
<1>2. IInv => ServedWithinTtl
  BY <1>1 DEF ServedWithinTtl, Served
<1> QED  BY <1>2, Invariance, PTL

\* Files, tables, policies, snapshot, swarm and the warmer's job keep their
\* shapes: a key has one record in memory and one in SQLite, whatever stored
\* it, and the swarm keeps to its limit (tool_replayer.py, swarm_bus.py).
THEOREM TypeCorrect == Spec => []TypeOK
<1>1. Shapes => TypeOK
  BY DEF Shapes, TypeOK, FilesOK, CountsOK, CacheOK, PoliciesOK, DebouncedOK, BundleOK,
         Table, Own, Job, Dict
<1> QED  BY <1>1, ShapesHold, PTL

\* Within the look-back horizon the upstream gets every result in full, in its
\* place or where a note points to (compact_and_record_agent_tools).
THEOREM RecentTurnsStay == Spec => []RecentTurnsIntact
<1>1. ASSUME FilesOK PROVE RecentTurnsIntact
  <2> SUFFICES ASSUME NEW i \in DOMAIN history, i > Horizon(history)
               PROVE  \/ Sent(history, i) = "full"
                      \/ /\ Sent(history, i) = "note"
                         /\ LET last == Max(Runs(history, history[i].tool)) IN
                            Sent(history, last) = "full" /\ history[last].out = history[i].out
    BY DEF RecentTurnsIntact
  <2>1. DOMAIN history = 1..Len(history) /\ Len(history) \in Nat /\ Horizon(history) \in Nat
    BY <1>1, ToolAssumption DEF FilesOK, Horizon, ToolAssumption
  <2>2. PICK last : last = Max(Runs(history, history[i].tool))
    OBVIOUS
  <2>3. PICK P : P = Runs(history, history[i].tool)
    OBVIOUS
  <2>4. P \subseteq 1..Len(history) /\ i \in P
    BY <2>1, <2>3 DEF Runs
  <2>5. last \in P /\ i <= last
    BY <2>1, <2>2, <2>3, <2>4, LastPosition
  <2>6. last \in DOMAIN history /\ history[last].tool = history[i].tool
    BY <2>3, <2>5 DEF Runs
  <2>7. ~IsPruned(history, i)
    BY <2>1 DEF IsPruned
  <2>8. last > Horizon(history)
    BY <2>1, <2>5, <2>6
  <2>9. ~IsPruned(history, last)
    BY <2>1, <2>6, <2>8 DEF IsPruned
  <2>10. ~IsNoted(history, last)
    BY <2>2, <2>6 DEF IsNoted
  <2>11. Sent(history, last) = "full"
    BY <2>9, <2>10 DEF Sent
  <2>12. IsNoted(history, i) => history[last].out = history[i].out
    BY <2>2 DEF IsNoted
  <2> QED  BY <2>2, <2>7, <2>11, <2>12 DEF Sent
<1>2. Shapes => RecentTurnsIntact
  BY <1>1 DEF Shapes
<1> QED  BY <1>2, ShapesHold, PTL
=============================================================================
