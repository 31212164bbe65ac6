------------------------------ MODULE P2PMesh ------------------------------
(***************************************************************************)
(* The mesh between gateways (p2p_mesh.py): a node that purges, invalidates *)
(* or deletes records a tombstone, stamped with a hybrid logical clock and  *)
(* a Lamport clock, and posts it to the peers it believes alive. A node that *)
(* receives one keeps the newer of the two it then has for the resource and *)
(* clears its caches when that is the one received.                        *)
(*                                                                         *)
(* Handlers of one node run on its event loop and await nothing between     *)
(* reading and writing mesh state: each is one step. What a reading of the  *)
(* wall clock returns is any time: clocks drift and are set.                *)
(***************************************************************************)
EXTENDS Integers, FiniteSets

CONSTANTS
    Nodes,          \* the gateways; MESH_NODE_ID, whose order breaks ties, as numbers
    Resources,      \* what can be invalidated: a key, "tag:...", "file:..." or "*"
    MaxTombstones,  \* MESH_MAX_TOMBSTONES
    Flaky,          \* the nodes whose posts may fail and for whom peers come and go
    Restarts,       \* the nodes that may restart, once
    MaxTime,        \* bound: wall clock readings
    MaxMutations    \* bound: for each node, the mutations it records

Time == 0..MaxTime

(* resource_id, node_id, lamport_clock, hlc_l and hlc_c of a CRDTTombstone; its       *)
(* timestamp is hlc_l in seconds. Reason and metadata are passed on and never compared. *)
Tombstone == [resource : Resources, node : Nodes, lamport : Nat, l : Nat, c : Nat]

ASSUME MeshAssumption ==
    /\ Nodes \subseteq Nat /\ Restarts \subseteq Nodes
    /\ MaxTombstones \in Nat \ {0}
    /\ Flaky \subseteq Nodes
    /\ MaxTime \in Nat /\ MaxMutations \in [Nodes -> Nat]

(* A mutation is its tombstone and, as history, its causal past: the tombstones its *)
(* node knew when it was recorded.                                                *)
Mutation == [tombstone : Tombstone, past : SUBSET Tombstone]

(* What is posted to a peer: to /v1/mesh/sync with one tombstone, or to             *)
(* /v1/mesh/heartbeat with none.                                                   *)
Sync      == [from : Nodes, to : Nodes, lamport : Nat, clock : [Nodes -> Nat],
              mutation : Mutation]
Heartbeat == [from : Nodes, to : Nodes, clock : [Nodes -> Nat]]

VARIABLES
    tombstones,  \* _tombstones of each node, at most one for a resource
    hlc,         \* hlc: l and c of the hybrid logical clock
    lamport,     \* _lamport_clock
    vclock,      \* _vector_clock, 0 for a node that is not in it
    alive,       \* the peers for which is_alive() holds
    outbox,      \* the mutations whose broadcast task has not run
    net,         \* posts on their way
    replies,     \* answers on their way back: <<from, to>>
    known,       \* history: the tombstones in the causal past of each node
    total,       \* history: how many mutations a node has recorded in all its lives
    restarted,   \* history: the nodes that have restarted
    intact       \* history: each mutation so far was posted to every other node, nothing
                 \* was lost and nobody restarted or dropped a tombstone for lack of room

clocks == <<hlc, lamport, vclock>>
vars == <<tombstones, clocks, alive, outbox, net, replies, known, total, restarted, intact>>

TypeOK ==
    /\ tombstones \in [Nodes -> SUBSET Tombstone]
    /\ \A n \in Nodes : \A s, t \in tombstones[n] : s.resource = t.resource => s = t
    /\ hlc \in [Nodes -> [l : Nat, c : Nat]]
    /\ lamport \in [Nodes -> Nat]
    /\ vclock \in [Nodes -> [Nodes -> Nat]]
    /\ alive \in [Nodes -> SUBSET Nodes]
    /\ outbox \in [Nodes -> SUBSET Mutation]
    /\ net \subseteq Sync \cup Heartbeat
    /\ replies \subseteq Nodes \X Nodes
    /\ known \in [Nodes -> SUBSET Tombstone]
    /\ total \in [Nodes -> Nat]
    /\ restarted \subseteq Restarts
    /\ intact \in BOOLEAN

(* A node starts with its clock at the time and its configured peers just registered. *)
Init ==
    /\ tombstones = [n \in Nodes |-> {}]
    /\ hlc \in [Nodes -> [l : Time, c : {0}]]
    /\ lamport = [n \in Nodes |-> 0]
    /\ vclock = [n \in Nodes |-> [m \in Nodes |-> 0]]
    /\ alive = [n \in Nodes |-> Nodes \ {n}]
    /\ outbox = [n \in Nodes |-> {}]
    /\ net = {} /\ replies = {}
    /\ known = [n \in Nodes |-> {}]
    /\ total = [n \in Nodes |-> 0]
    /\ restarted = {}
    /\ intact = TRUE

-----------------------------------------------------------------------------
(* Clocks. *)

Larger(a, b) == IF a >= b THEN a ELSE b

(* HybridLogicalClock.now() of a clock h when the wall clock shows pt. *)
Now(h, pt) == IF pt > h.l THEN [l |-> pt, c |-> 0] ELSE [l |-> h.l, c |-> h.c + 1]

\* Mutant: the clock hears nothing.
Update_Deaf(h, r, pt) == Now(h, pt)

(* HybridLogicalClock.update(): h hears of the stamp r. *)
Update(h, r, pt) ==
    LET top == Larger(Larger(h.l, r.l), pt)
    IN  [l |-> top,
         c |-> CASE top = h.l /\ top = r.l -> Larger(h.c, r.c) + 1
                 [] top = h.l /\ top # r.l -> h.c + 1
                 [] top # h.l /\ top = r.l -> r.c + 1
                 [] OTHER                  -> 0]

\* Mutant: the sum instead of the larger.
Merge_Adds(v, w) == [m \in Nodes |-> v[m] + w[m]]

(* merge_vector_clock *)
Merge(v, w) == [m \in Nodes |-> Larger(v[m], w[m])]

(* CRDTTombstone.is_newer_than *)
IsNewer(t, s) ==
    IF t.l # s.l
    THEN IF t.lamport # s.lamport
         THEN t.lamport > s.lamport  \* whether the two clocks agree or not
         ELSE t.l > s.l
    ELSE IF t.c # s.c
         THEN t.c > s.c
         ELSE IF t.lamport # s.lamport THEN t.lamport > s.lamport ELSE t.node > s.node

Held(n, r) == {t \in tombstones[n] : t.resource = r}
\* Mutant: the last one to arrive wins.
Accepts_Last(n, t) == TRUE
Accepts(n, t) == \A s \in Held(n, t.resource) : IsNewer(t, s)
\* Mutant: the new one is added to the old.
Replace_KeepsOld(S, t) == S \cup {t}
Replace(S, t) == {s \in S : s.resource # t.resource} \cup {t}

-----------------------------------------------------------------------------
(* record_local_mutation, from the handlers of purge, invalidate, delete and    *)
(* broadcast and from a tool call that changes files. What it records replaces    *)
(* what the node has without a comparison; the oldest goes when there is no room. *)
Mutate(n, r) == \E pt \in Time :
    LET h == Now(hlc[n], pt)
        t == [resource |-> r, node |-> n, lamport |-> lamport[n] + 1, l |-> h.l, c |-> h.c]
        S == Replace(tombstones[n], t)
    IN  /\ total[n] < MaxMutations[n]
        /\ hlc' = [hlc EXCEPT ![n] = h]
        /\ lamport' = [lamport EXCEPT ![n] = @ + 1]
        /\ vclock' = [vclock EXCEPT ![n][n] = @ + 1]
        /\ IF Cardinality(S) > MaxTombstones
           THEN \E old \in {s \in S : \A u \in S : s.l <= u.l} :
                    /\ tombstones' = [tombstones EXCEPT ![n] = S \ {old}]
                    /\ intact' = FALSE
           ELSE /\ tombstones' = [tombstones EXCEPT ![n] = S]
                /\ UNCHANGED intact
        /\ outbox' = [outbox EXCEPT ![n] = @ \cup {[tombstone |-> t, past |-> known[n]]}]
        /\ known' = [known EXCEPT ![n] = @ \cup {t}]
        /\ total' = [total EXCEPT ![n] = @ + 1]
        /\ UNCHANGED <<alive, net, replies, restarted>>

(* broadcast_tombstone_async runs as a task of its own: peers and clocks are those of *)
(* the moment it runs.                                                              *)
Broadcast(n, w) ==
    /\ w \in outbox[n]
    /\ outbox' = [outbox EXCEPT ![n] = @ \ {w}]
    /\ net' = net \cup {[from |-> n, to |-> m, lamport |-> lamport[n], clock |-> vclock[n],
                         mutation |-> w] : m \in alive[n]}
    /\ intact' = (intact /\ alive[n] = Nodes \ {n})
    /\ UNCHANGED <<tombstones, clocks, alive, replies, known, total, restarted>>

(* check_peer_connectivity, from a registration that asks to verify the peer. *)
Probe(n, m) ==
    /\ n \in Flaky /\ m # n
    /\ ~ \E p \in net : p.from = n /\ p.to = m
    /\ net' = net \cup {[from |-> n, to |-> m, clock |-> vclock[n]]}
    /\ UNCHANGED <<tombstones, clocks, alive, outbox, replies, known, total, restarted, intact>>

(* What both endpoints do: register_peer, mark_seen, merge_vector_clock, and answer.  *)
(* To a node that is not flaky, for which peers stay alive, the answer tells nothing. *)
Receive(p) ==
    /\ net' = net \ {p}
    /\ alive' = [alive EXCEPT ![p.to] = @ \cup {p.from}]
    /\ vclock' = [vclock EXCEPT ![p.to] = Merge(@, p.clock)]
    /\ replies' = IF p.from \in Flaky THEN replies \cup {<<p.to, p.from>>} ELSE replies

(* process_heartbeat *)
Pong(p) ==
    /\ p \in net \cap Heartbeat
    /\ Receive(p)
    /\ UNCHANGED <<tombstones, hlc, lamport, outbox, known, total, restarted, intact>>

(* process_sync_packet and apply_remote_tombstone. The post carries no hybrid clock: the *)
(* first update hears of (0, 0), the second of the tombstone. The tombstones it answers   *)
(* with are dropped by the sender.                                                       *)
Process(p) ==
    LET n == p.to
        t == p.mutation.tombstone
        seen == Larger(lamport[n], p.lamport) + 1
    IN  /\ p \in net \cap Sync
        /\ Receive(p)
        /\ \E pt1, pt2 \in Time :
              hlc' = [hlc EXCEPT ![n] = Update(Update(@, [l |-> 0, c |-> 0], pt1), t, pt2)]
        /\ \/ /\ Accepts(n, t)
              /\ tombstones' = [tombstones EXCEPT ![n] = Replace(@, t)]
              /\ lamport' = [lamport EXCEPT ![n] = Larger(seen, t.lamport) + 1]
           \/ /\ ~Accepts(n, t)
              /\ lamport' = [lamport EXCEPT ![n] = seen]
              /\ UNCHANGED tombstones
        /\ known' = [known EXCEPT ![n] = @ \cup {t} \cup p.mutation.past]
        /\ UNCHANGED <<outbox, total, restarted, intact>>

(* An answer in time: mark_seen. *)
Reply(a) ==
    /\ a \in replies
    /\ replies' = replies \ {a}
    /\ alive' = [alive EXCEPT ![a[2]] = @ \cup {a[1]}]
    /\ UNCHANGED <<tombstones, clocks, outbox, net, known, total, restarted, intact>>

(* A post that does not arrive; nobody sends it again. *)
Lose(p) ==
    /\ p \in net /\ p.from \in Flaky
    /\ net' = net \ {p}
    /\ intact' = FALSE
    /\ UNCHANGED <<tombstones, clocks, alive, outbox, replies, known, total, restarted>>

(* An answer that comes too late, or not at all. *)
Ignore(a) ==
    /\ a \in replies /\ a[2] \in Flaky
    /\ replies' = replies \ {a}
    /\ UNCHANGED <<tombstones, clocks, alive, outbox, net, known, total, restarted, intact>>

(* Nothing was heard of a peer for MESH_HEARTBEAT_TIMEOUT. *)
Age(n, m) ==
    /\ n \in Flaky /\ m \in alive[n]
    /\ alive' = [alive EXCEPT ![n] = @ \ {m}]
    /\ UNCHANGED <<tombstones, clocks, outbox, net, replies, known, total, restarted, intact>>

(* A peer is unregistered: an answer it still owes marks a peer that is not listed. *)
Unregister(n, m) ==
    /\ n \in Flaky /\ m # n
    /\ alive' = [alive EXCEPT ![n] = @ \ {m}]
    /\ replies' = replies \ {<<m, n>>}
    /\ UNCHANGED <<tombstones, clocks, outbox, net, known, total, restarted, intact>>

(* A peer is registered, or a heartbeat from outside the mesh names it. *)
Register(n, m) ==
    /\ n \in Flaky /\ m # n /\ m \notin alive[n]
    /\ alive' = [alive EXCEPT ![n] = @ \cup {m}]
    /\ UNCHANGED <<tombstones, clocks, outbox, net, replies, known, total, restarted, intact>>

(* All of it is memory. Posts of the node that are on their way end with it: one that *)
(* still arrives has arrived before.                                                *)
Restart(n) ==
    /\ n \in Restarts \ restarted
    /\ restarted' = restarted \cup {n}
    /\ \E pt \in Time : hlc' = [hlc EXCEPT ![n] = [l |-> pt, c |-> 0]]
    /\ tombstones' = [tombstones EXCEPT ![n] = {}]
    /\ lamport' = [lamport EXCEPT ![n] = 0]
    /\ vclock' = [vclock EXCEPT ![n] = [m \in Nodes |-> 0]]
    /\ alive' = [alive EXCEPT ![n] = Nodes \ {n}]
    /\ outbox' = [outbox EXCEPT ![n] = {}]
    /\ net' = {p \in net : p.from # n}
    /\ replies' = {a \in replies : a[2] # n}
    /\ known' = [known EXCEPT ![n] = {}]
    /\ intact' = FALSE
    /\ UNCHANGED total

Next ==
    \/ \E n \in Nodes :
          \/ \E r \in Resources : Mutate(n, r)
          \/ \E w \in outbox[n] : Broadcast(n, w)
          \/ \E m \in Nodes : Probe(n, m) \/ Age(n, m) \/ Unregister(n, m) \/ Register(n, m)
          \/ Restart(n)
    \/ \E p \in net : Pong(p) \/ Process(p) \/ Lose(p)
    \/ \E a \in replies : Reply(a) \/ Ignore(a)

Spec == Init /\ [][Next]_vars

-----------------------------------------------------------------------------
(* A node that records a mutation stamps it newer than every tombstone in its   *)
(* causal past, whatever its wall clock shows and whichever of those it has kept. *)
CausalMonotonicity ==
    [][\A n \in Nodes : \A w \in outbox'[n] \ outbox[n], s \in known[n] :
          IsNewer(w.tombstone, s)]_vars

(* What a node holds for a resource is only ever replaced by something newer, also by *)
(* its own mutations, which are not compared.                                        *)
NewerReplacesOlder ==
    [][\A n \in Nodes : \A s \in tombstones[n], t \in tombstones'[n] :
          s.resource = t.resource => s = t \/ IsNewer(t, s)]_vars

(* No vector clock, in a node or on its way, counts a mutation that has not been made: *)
(* a node that restarts and counts again from zero does not make its past uncertain.    *)
KnowsNoFuture ==
    /\ \A n, m \in Nodes : vclock[n][m] <= total[m]
    /\ \A p \in net : \A m \in Nodes : p.clock[m] <= total[m]

(* Once every tombstone has reached every node, all of them hold the same one for *)
(* each resource.                                                                *)
Converged ==
    intact /\ net = {} /\ (\A n \in Nodes : outbox[n] = {})
        => \A n, m \in Nodes, r \in Resources : Held(n, r) = Held(m, r)
=============================================================================
