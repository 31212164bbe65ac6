--------------------------- MODULE P2PMesh_proofs ---------------------------
(***************************************************************************)
(* Theorems about P2PMesh for every set of nodes, resources and readings of *)
(* the wall clock, and any number of mutations, losses and restarts.        *)
(***************************************************************************)
EXTENDS P2PMesh, TLAPS

Stamp == [l : Nat, c : Nat]

-----------------------------------------------------------------------------
(* Clocks *)

\* The stamp of a clock or a tombstone h is no earlier, or later, than that of s.
NoEarlier(h, s) == h.l > s.l \/ (h.l = s.l /\ h.c >= s.c)
Later(h, s)     == h.l > s.l \/ (h.l = s.l /\ h.c > s.c)

\* A clock that is read moves on.
LEMMA NowMovesOn ==
  ASSUME NEW h \in Stamp, NEW pt \in Nat
  PROVE  Now(h, pt) \in Stamp /\ Later(Now(h, pt), h)
BY DEF Stamp, Now, Later

\* A clock that hears of a stamp moves on, past it too.
LEMMA UpdateMovesOn ==
  ASSUME NEW h \in Stamp, NEW r, r.l \in Nat, r.c \in Nat, NEW pt \in Nat
  PROVE  /\ Update(h, r, pt) \in Stamp
         /\ Later(Update(h, r, pt), h)
         /\ Later(Update(h, r, pt), r)
<1>1. h.l \in Nat /\ h.c \in Nat
  BY DEF Stamp
<1>2. CASE Larger(Larger(h.l, r.l), pt) = h.l /\ h.l = r.l
  BY <1>1, <1>2 DEF Update, Larger, Stamp, Later
<1>3. CASE Larger(Larger(h.l, r.l), pt) = h.l /\ h.l # r.l
  BY <1>1, <1>3 DEF Update, Larger, Stamp, Later
<1>4. CASE Larger(Larger(h.l, r.l), pt) # h.l /\ Larger(Larger(h.l, r.l), pt) = r.l
  BY <1>1, <1>4 DEF Update, Larger, Stamp, Later
<1>5. CASE Larger(Larger(h.l, r.l), pt) # h.l /\ Larger(Larger(h.l, r.l), pt) # r.l
  BY <1>1, <1>5 DEF Update, Larger, Stamp, Later
<1> QED BY <1>2, <1>3, <1>4, <1>5

\* Stamps are ordered.
LEMMA NoEarlierTransitive ==
  ASSUME NEW a, NEW b, NEW d,
         a.l \in Nat, a.c \in Nat, b.l \in Nat, b.c \in Nat, d.l \in Nat, d.c \in Nat,
         NoEarlier(b, d)
  PROVE  /\ NoEarlier(a, b) => NoEarlier(a, d)
         /\ Later(a, b) => Later(a, d) /\ NoEarlier(a, b)
BY DEF NoEarlier, Later

\* A tombstone with the larger Lamport clock and the later stamp is newer.
LEMMA LaterIsNewer ==
  ASSUME NEW t \in Tombstone, NEW s \in Tombstone, t.lamport > s.lamport, Later(t, s)
  PROVE  IsNewer(t, s)
BY DEF Tombstone, Later, IsNewer

\* What a post does to the clock of its receiver.
LEMMA ProcessMovesOn ==
  ASSUME NEW h \in Stamp, NEW t \in Tombstone, NEW pt1 \in Nat, NEW pt2 \in Nat
  PROVE  LET g == Update(Update(h, [l |-> 0, c |-> 0], pt1), t, pt2)
         IN  g \in Stamp /\ Later(g, h) /\ Later(g, t)
<1> DEFINE z == [l |-> 0, c |-> 0]
           m == Update(h, z, pt1)
           g == Update(m, t, pt2)
<1>1. z.l \in Nat /\ z.c \in Nat /\ t.l \in Nat /\ t.c \in Nat /\ h.l \in Nat /\ h.c \in Nat
  BY DEF Tombstone, Stamp
<1> HIDE DEF z
<1>2. m \in Stamp /\ Later(m, h)
  BY <1>1, UpdateMovesOn
<1> HIDE DEF m
<1>3. g \in Stamp /\ Later(g, m) /\ Later(g, t)
  BY <1>1, <1>2, UpdateMovesOn
<1> HIDE DEF g
<1>4. m.l \in Nat /\ m.c \in Nat /\ g.l \in Nat /\ g.c \in Nat
  BY <1>2, <1>3 DEF Stamp
<1>5. NoEarlier(m, h)
  BY <1>1, <1>2, <1>4 DEF Later, NoEarlier
<1>6. Later(g, h)
  BY <1>1, <1>3, <1>4, <1>5, NoEarlierTransitive
<1> QED BY <1>3, <1>6 DEF g, m, z

-----------------------------------------------------------------------------
(* Steps *)

\* Recording a mutation with the stamp h and the tombstone t.
Recorded(n, r, h, t) ==
  /\ t.resource = r /\ t.lamport = lamport[n] + 1 /\ t.l = h.l /\ t.c = h.c
  /\ Later(h, hlc[n])
  /\ hlc' = [hlc EXCEPT ![n] = h]
  /\ lamport' = [lamport EXCEPT ![n] = @ + 1]
  /\ vclock' = [vclock EXCEPT ![n][n] = @ + 1]
  /\ \E T \in SUBSET Replace(tombstones[n], t) :
       tombstones' = [tombstones EXCEPT ![n] = T]
  /\ intact' \in BOOLEAN
  /\ outbox' = [outbox EXCEPT ![n] = @ \cup {[tombstone |-> t, past |-> known[n]]}]
  /\ known' = [known EXCEPT ![n] = @ \cup {t}]
  /\ total' = [total EXCEPT ![n] = @ + 1]
  /\ UNCHANGED <<alive, net, replies, restarted>>

\* A mutation stamps and records one tombstone.
LEMMA MutateStep ==
  ASSUME TypeOK, NEW n \in Nodes, NEW r \in Resources, Mutate(n, r)
  PROVE  \E h \in Stamp, t \in Tombstone : Recorded(n, r, h, t)
<1> USE MeshAssumption
<1>1. PICK pt \in Time :
        LET h == Now(hlc[n], pt)
            t == [resource |-> r, node |-> n, lamport |-> lamport[n] + 1, l |-> h.l, c |-> h.c]
            S == Replace(tombstones[n], t)
        IN  /\ hlc' = [hlc EXCEPT ![n] = h]
            /\ lamport' = [lamport EXCEPT ![n] = @ + 1]
            /\ vclock' = [vclock EXCEPT ![n][n] = @ + 1]
            /\ IF Cardinality(S) > MaxTombstones
               THEN \E old \in {s \in S : \A u \in S : s.l <= u.l} :
                        /\ tombstones' = [tombstones EXCEPT ![n] = S \ {old}]
                        /\ intact' = FALSE
               ELSE /\ tombstones' = [tombstones EXCEPT ![n] = S]
                    /\ UNCHANGED intact
            /\ outbox' = [outbox EXCEPT ![n] = @ \cup {[tombstone |-> t, past |-> known[n]]}]
            /\ known' = [known EXCEPT ![n] = @ \cup {t}]
            /\ total' = [total EXCEPT ![n] = @ + 1]
            /\ UNCHANGED <<alive, net, replies, restarted>>
  BY DEF Mutate
<1> DEFINE h == Now(hlc[n], pt)
           t == [resource |-> r, node |-> n, lamport |-> lamport[n] + 1, l |-> h.l, c |-> h.c]
           S == Replace(tombstones[n], t)
<1>2. hlc[n] \in Stamp /\ pt \in Nat /\ lamport[n] \in Nat
  BY DEF TypeOK, Stamp, Time
<1>3. h \in Stamp /\ Later(h, hlc[n])
  BY <1>2, NowMovesOn
<1> HIDE DEF h
<1>4. t \in Tombstone
  BY <1>2, <1>3 DEF Tombstone, Stamp
<1>5. t.resource = r /\ t.lamport = lamport[n] + 1 /\ t.l = h.l /\ t.c = h.c
  OBVIOUS
<1>6. /\ hlc' = [hlc EXCEPT ![n] = h]
      /\ IF Cardinality(S) > MaxTombstones
         THEN \E old \in {s \in S : \A u \in S : s.l <= u.l} :
                  /\ tombstones' = [tombstones EXCEPT ![n] = S \ {old}]
                  /\ intact' = FALSE
         ELSE /\ tombstones' = [tombstones EXCEPT ![n] = S]
              /\ UNCHANGED intact
      /\ outbox' = [outbox EXCEPT ![n] = @ \cup {[tombstone |-> t, past |-> known[n]]}]
      /\ known' = [known EXCEPT ![n] = @ \cup {t}]
  BY <1>1 DEF h
<1> HIDE DEF t
<1>7. (\E T \in SUBSET S : tombstones' = [tombstones EXCEPT ![n] = T]) /\ intact' \in BOOLEAN
  <2> intact \in BOOLEAN
    BY DEF TypeOK
  <2> HIDE DEF S
  <2> QED BY <1>6
<1> QED BY <1>1, <1>3, <1>4, <1>5, <1>6, <1>7 DEF Recorded

\* Taking in the mutation w leaves the clocks of its receiver n at h and count.
Taken(p, n, w, h, count) ==
  /\ n = p.to /\ p \in Sync /\ w = p.mutation
  /\ Receive(p)
  /\ Later(h, hlc[n]) /\ Later(h, w.tombstone)
  /\ hlc' = [hlc EXCEPT ![n] = h]
  /\ count > lamport[n] /\ count > p.lamport
  /\ lamport' = [lamport EXCEPT ![n] = count]
  /\ \/ /\ Accepts(n, w.tombstone)
        /\ tombstones' = [tombstones EXCEPT ![n] = Replace(@, w.tombstone)]
     \/ UNCHANGED tombstones
  /\ known' = [known EXCEPT ![n] = @ \cup {w.tombstone} \cup w.past]
  /\ UNCHANGED <<outbox, total, restarted, intact>>

\* Processing a packet takes one mutation in.
LEMMA ProcessStep ==
  ASSUME TypeOK, NEW p \in net, Process(p)
  PROVE  \E n \in Nodes, w \in Mutation, h \in Stamp, count \in Nat : Taken(p, n, w, h, count)
<1> USE MeshAssumption
<1> DEFINE n == p.to
           w == p.mutation
           t == w.tombstone
           seen == Larger(lamport[n], p.lamport) + 1
<1>1. p \in Sync
  BY DEF Process
<1>2. n \in Nodes /\ w \in Mutation /\ p.lamport \in Nat
  BY <1>1 DEF Sync
<1>3. t \in Tombstone /\ t.lamport \in Nat
  BY <1>2 DEF Mutation, Tombstone
<1>4. hlc[n] \in Stamp /\ lamport[n] \in Nat
  BY <1>2 DEF TypeOK, Stamp
<1>5. PICK pt1, pt2 \in Time :
        hlc' = [hlc EXCEPT ![n] = Update(Update(@, [l |-> 0, c |-> 0], pt1), t, pt2)]
  BY DEF Process
<1>6. pt1 \in Nat /\ pt2 \in Nat
  BY DEF Time
<1> DEFINE h == Update(Update(hlc[n], [l |-> 0, c |-> 0], pt1), t, pt2)
<1>7. h \in Stamp /\ Later(h, hlc[n]) /\ Later(h, t)
  BY <1>3, <1>4, <1>6, ProcessMovesOn
<1>8. hlc' = [hlc EXCEPT ![n] = h]
  BY <1>5
<1>9. seen \in Nat /\ seen > lamport[n] /\ seen > p.lamport
  BY <1>2, <1>4 DEF Larger
<1>10. Larger(seen, t.lamport) + 1 \in Nat /\ Larger(seen, t.lamport) + 1 > seen
  BY <1>3, <1>9 DEF Larger
<1>11. /\ Receive(p)
       /\ \/ /\ Accepts(n, t)
             /\ tombstones' = [tombstones EXCEPT ![n] = Replace(@, t)]
             /\ lamport' = [lamport EXCEPT ![n] = Larger(seen, t.lamport) + 1]
          \/ /\ lamport' = [lamport EXCEPT ![n] = seen]
             /\ UNCHANGED tombstones
       /\ known' = [known EXCEPT ![n] = @ \cup {t} \cup w.past]
       /\ UNCHANGED <<outbox, total, restarted, intact>>
  BY DEF Process
<1> HIDE DEF h, seen
<1>12. \E count \in Nat :
         /\ count > lamport[n] /\ count > p.lamport
         /\ lamport' = [lamport EXCEPT ![n] = count]
         /\ \/ /\ Accepts(n, t)
               /\ tombstones' = [tombstones EXCEPT ![n] = Replace(@, t)]
            \/ UNCHANGED tombstones
  <2>1. CASE /\ Accepts(n, t)
             /\ tombstones' = [tombstones EXCEPT ![n] = Replace(@, t)]
             /\ lamport' = [lamport EXCEPT ![n] = Larger(seen, t.lamport) + 1]
    <3> DEFINE count == Larger(seen, t.lamport) + 1
    <3>1. count \in Nat /\ count > lamport[n] /\ count > p.lamport
      BY <1>2, <1>4, <1>9, <1>10
    <3> HIDE DEF n, t
    <3> QED BY <2>1, <3>1
  <2>2. CASE lamport' = [lamport EXCEPT ![n] = seen] /\ UNCHANGED tombstones
    BY <1>9, <2>2
  <2> QED BY <1>11, <2>1, <2>2
<1> QED BY <1>1, <1>2, <1>7, <1>8, <1>11, <1>12 DEF Taken

-----------------------------------------------------------------------------
(* Types *)

\* What both endpoints write keeps its type; a post has a sender and a receiver.
LEMMA ReceiveType ==
  ASSUME TypeOK, NEW p \in net, Receive(p)
  PROVE  /\ p.to \in Nodes /\ p.from \in Nodes /\ p.clock \in [Nodes -> Nat]
         /\ net' \subseteq Sync \cup Heartbeat
         /\ alive' \in [Nodes -> SUBSET Nodes]
         /\ vclock' \in [Nodes -> [Nodes -> Nat]]
         /\ replies' \subseteq Nodes \X Nodes
<1>1. p.to \in Nodes /\ p.from \in Nodes /\ p.clock \in [Nodes -> Nat]
  BY DEF TypeOK, Sync, Heartbeat
<1>2. net' \subseteq Sync \cup Heartbeat
  BY DEF TypeOK, Receive
<1>3. alive' \in [Nodes -> SUBSET Nodes]
  BY <1>1 DEF TypeOK, Receive
<1>4. Merge(vclock[p.to], p.clock) \in [Nodes -> Nat]
  BY <1>1 DEF TypeOK, Merge, Larger
<1>5. vclock' \in [Nodes -> [Nodes -> Nat]]
  BY <1>4 DEF TypeOK, Receive
<1>6. replies' \subseteq Nodes \X Nodes
  BY <1>1 DEF TypeOK, Receive
<1> QED BY <1>1, <1>2, <1>3, <1>5, <1>6

\* Replacing keeps one tombstone for a resource.
LEMMA ReplaceType ==
  ASSUME NEW S \in SUBSET Tombstone, NEW t \in Tombstone, NEW T \in SUBSET Replace(S, t),
         \A a, b \in S : a.resource = b.resource => a = b
  PROVE  /\ T \in SUBSET Tombstone
         /\ \A a, b \in T : a.resource = b.resource => a = b
BY DEF Replace

\* Every step keeps the variables in their types.
LEMMA TypeStep == TypeOK /\ [Next]_vars => TypeOK'
<1> SUFFICES ASSUME TypeOK, [Next]_vars PROVE TypeOK'
  OBVIOUS
<1> USE MeshAssumption
<1>1. ASSUME NEW n \in Nodes, NEW r \in Resources, Mutate(n, r)
      PROVE  TypeOK'
  <2>1. PICK h \in Stamp, t \in Tombstone : Recorded(n, r, h, t)
    BY <1>1, MutateStep
  <2>2. PICK T \in SUBSET Replace(tombstones[n], t) :
          tombstones' = [tombstones EXCEPT ![n] = T]
    BY <2>1 DEF Recorded
  <2>3. /\ T \in SUBSET Tombstone
        /\ \A a, b \in T : a.resource = b.resource => a = b
    BY ReplaceType DEF TypeOK
  <2>4. /\ tombstones' \in [Nodes -> SUBSET Tombstone]
        /\ \A m \in Nodes : \A a, b \in tombstones'[m] : a.resource = b.resource => a = b
    BY <2>2, <2>3 DEF TypeOK
  <2>5. [tombstone |-> t, past |-> known[n]] \in Mutation
    BY DEF TypeOK, Mutation
  <2>6. outbox' \in [Nodes -> SUBSET Mutation] /\ known' \in [Nodes -> SUBSET Tombstone]
    BY <2>1, <2>5 DEF TypeOK, Recorded
  <2>7. vclock' \in [Nodes -> [Nodes -> Nat]]
    BY <2>1 DEF TypeOK, Recorded
  <2>8. /\ hlc' \in [Nodes -> [l : Nat, c : Nat]]
        /\ lamport' \in [Nodes -> Nat] /\ total' \in [Nodes -> Nat]
    BY <2>1 DEF TypeOK, Stamp, Recorded
  <2> QED BY <2>1, <2>4, <2>6, <2>7, <2>8 DEF TypeOK, Recorded
<1>2. ASSUME NEW n \in Nodes, NEW w \in outbox[n], Broadcast(n, w)
      PROVE  TypeOK'
  <2>1. ASSUME NEW m \in alive[n]
        PROVE  [from |-> n, to |-> m, lamport |-> lamport[n], clock |-> vclock[n],
                mutation |-> w] \in Sync
    BY <1>2 DEF TypeOK, Sync
  <2>2. net' \subseteq Sync \cup Heartbeat
    BY <1>2, <2>1 DEF TypeOK, Broadcast
  <2>3. outbox' \in [Nodes -> SUBSET Mutation] /\ intact' \in BOOLEAN
    BY <1>2 DEF TypeOK, Broadcast
  <2> QED BY <1>2, <2>2, <2>3 DEF TypeOK, Broadcast, clocks
<1>3. ASSUME NEW n \in Nodes, NEW m \in Nodes, Probe(n, m)
      PROVE  TypeOK'
  <2>1. [from |-> n, to |-> m, clock |-> vclock[n]] \in Heartbeat
    BY DEF TypeOK, Heartbeat
  <2> QED BY <1>3, <2>1 DEF TypeOK, Probe, clocks
<1>4. ASSUME NEW n \in Nodes, NEW m \in Nodes, Age(n, m) \/ Unregister(n, m) \/ Register(n, m)
      PROVE  TypeOK'
  <2>1. alive' \in [Nodes -> SUBSET Nodes] /\ replies' \subseteq Nodes \X Nodes
    BY <1>4 DEF TypeOK, Age, Unregister, Register
  <2> QED BY <1>4, <2>1 DEF TypeOK, Age, Unregister, Register, clocks
<1>5. ASSUME NEW n \in Nodes, Restart(n)
      PROVE  TypeOK'
  <2>1. hlc' \in [Nodes -> [l : Nat, c : Nat]]
    BY <1>5 DEF TypeOK, Restart, Time
  <2>2. /\ tombstones' \in [Nodes -> SUBSET Tombstone]
        /\ \A m \in Nodes : \A a, b \in tombstones'[m] : a.resource = b.resource => a = b
    BY <1>5 DEF TypeOK, Restart
  <2>3. /\ lamport' \in [Nodes -> Nat] /\ vclock' \in [Nodes -> [Nodes -> Nat]]
        /\ alive' \in [Nodes -> SUBSET Nodes] /\ outbox' \in [Nodes -> SUBSET Mutation]
        /\ known' \in [Nodes -> SUBSET Tombstone]
    BY <1>5 DEF TypeOK, Restart
  <2>4. /\ net' \subseteq Sync \cup Heartbeat /\ replies' \subseteq Nodes \X Nodes
        /\ restarted' \subseteq Restarts /\ intact' \in BOOLEAN /\ total' \in [Nodes -> Nat]
    BY <1>5 DEF TypeOK, Restart
  <2> QED BY <2>1, <2>2, <2>3, <2>4 DEF TypeOK
<1>6. ASSUME NEW p \in net, Pong(p)
      PROVE  TypeOK'
  BY <1>6, ReceiveType DEF TypeOK, Pong
<1>7. ASSUME NEW p \in net, Process(p)
      PROVE  TypeOK'
  <2>1. PICK n \in Nodes, w \in Mutation, h \in Stamp, count \in Nat : Taken(p, n, w, h, count)
    BY <1>7, ProcessStep
  <2>2. w.tombstone \in Tombstone /\ w.past \in SUBSET Tombstone
    BY DEF Mutation
  <2>3. /\ Replace(tombstones[n], w.tombstone) \in SUBSET Tombstone
        /\ \A a, b \in Replace(tombstones[n], w.tombstone) : a.resource = b.resource => a = b
    BY <2>2, ReplaceType DEF TypeOK
  <2>4. /\ tombstones' \in [Nodes -> SUBSET Tombstone]
        /\ \A m \in Nodes : \A a, b \in tombstones'[m] : a.resource = b.resource => a = b
    BY <2>1, <2>3 DEF TypeOK, Taken
  <2>5. /\ hlc' \in [Nodes -> [l : Nat, c : Nat]] /\ lamport' \in [Nodes -> Nat]
        /\ known' \in [Nodes -> SUBSET Tombstone]
    BY <2>1, <2>2 DEF TypeOK, Stamp, Taken
  <2> QED BY <2>1, <2>4, <2>5, ReceiveType DEF TypeOK, Taken
<1>8. ASSUME NEW p \in net, Lose(p)
      PROVE  TypeOK'
  BY <1>8 DEF TypeOK, Lose, clocks
<1>9. ASSUME NEW a \in replies, Reply(a)
      PROVE  TypeOK'
  <2>1. a[1] \in Nodes /\ a[2] \in Nodes
    BY DEF TypeOK
  <2>2. alive' \in [Nodes -> SUBSET Nodes]
    BY <1>9, <2>1 DEF TypeOK, Reply
  <2> QED BY <1>9, <2>2 DEF TypeOK, Reply, clocks
<1>10. ASSUME NEW a \in replies, Ignore(a)
      PROVE  TypeOK'
  BY <1>10 DEF TypeOK, Ignore, clocks
<1>11. CASE UNCHANGED vars
  BY <1>11 DEF TypeOK, vars, clocks
<1>12. CASE Next
  BY <1>12, <1>1, <1>2, <1>3, <1>4, <1>5, <1>6, <1>7, <1>8, <1>9, <1>10 DEF Next
<1> QED BY <1>11, <1>12

LEMMA TypeInit == Init => TypeOK
BY MeshAssumption DEF Init, TypeOK, Time

\* Every variable keeps its type; a node holds one tombstone for a resource
\* (_tombstones is keyed by it).
THEOREM TypeCorrect == Spec => []TypeOK
BY TypeInit, TypeStep, PTL DEF Spec

-----------------------------------------------------------------------------
(* Vector clocks *)

LEMMA KnowsNoFutureStep == TypeOK /\ KnowsNoFuture /\ [Next]_vars => KnowsNoFuture'
<1> SUFFICES ASSUME TypeOK, KnowsNoFuture, [Next]_vars PROVE KnowsNoFuture'
  OBVIOUS
<1> USE MeshAssumption
<1>1. ASSUME NEW n \in Nodes, NEW r \in Resources, Mutate(n, r)
      PROVE  KnowsNoFuture'
  <2>1. /\ vclock' = [vclock EXCEPT ![n][n] = @ + 1]
        /\ total' = [total EXCEPT ![n] = @ + 1]
        /\ UNCHANGED net
    BY <1>1, MutateStep DEF Recorded
  <2>2. /\ vclock \in [Nodes -> [Nodes -> Nat]] /\ total \in [Nodes -> Nat]
        /\ net \subseteq Sync \cup Heartbeat
    BY DEF TypeOK
  <2>3. \A m \in Nodes : total[m] <= total'[m]
    BY <2>1, <2>2
  <2>4. ASSUME NEW a \in Nodes, NEW m \in Nodes
        PROVE  vclock'[a][m] <= total'[m]
    <3>1. vclock[a][m] <= total[m] /\ vclock[a][m] \in Nat /\ total[m] \in Nat
      BY <2>2 DEF KnowsNoFuture
    <3>2. CASE a = n /\ m = n
      BY <2>1, <2>2, <3>1, <3>2
    <3>3. CASE ~(a = n /\ m = n)
      <4>1. vclock'[a][m] = vclock[a][m]
        BY <2>1, <2>2, <3>3
      <4>2. total[m] <= total'[m] /\ total'[m] \in Nat
        BY <2>1, <2>2
      <4> QED BY <3>1, <4>1, <4>2
    <3> QED BY <3>2, <3>3
  <2>5. ASSUME NEW p \in net, NEW m \in Nodes
        PROVE  p.clock[m] <= total'[m]
    <3>1. p.clock[m] <= total[m] /\ p.clock[m] \in Nat
      BY <2>2 DEF KnowsNoFuture, Sync, Heartbeat
    <3>2. total'[m] \in Nat /\ total[m] \in Nat
      BY <2>1, <2>2
    <3> QED BY <2>3, <3>1, <3>2
  <2> QED BY <2>1, <2>4, <2>5 DEF KnowsNoFuture
<1>2. ASSUME NEW n \in Nodes, NEW w \in outbox[n], Broadcast(n, w)
      PROVE  KnowsNoFuture'
  <2>1. n \in Nodes /\ (\A m \in Nodes : vclock[n][m] <= total[m])
    BY DEF KnowsNoFuture
  <2>2. \A p \in net' : p \in net \/ p.clock = vclock[n]
    BY <1>2 DEF Broadcast
  <2> QED BY <1>2, <2>1, <2>2 DEF KnowsNoFuture, Broadcast, clocks
<1>3. ASSUME NEW n \in Nodes, NEW m \in Nodes, Probe(n, m)
      PROVE  KnowsNoFuture'
  BY <1>3 DEF KnowsNoFuture, Probe, clocks
<1>4. ASSUME NEW n \in Nodes, NEW m \in Nodes, Age(n, m) \/ Unregister(n, m) \/ Register(n, m)
      PROVE  KnowsNoFuture'
  BY <1>4 DEF KnowsNoFuture, Age, Unregister, Register, clocks
<1>5. ASSUME NEW n \in Nodes, Restart(n)
      PROVE  KnowsNoFuture'
  <2>1. \A m \in Nodes : total[m] \in Nat /\ 0 <= total[m]
    BY DEF TypeOK
  <2>2. \A a, m \in Nodes : vclock'[a][m] = 0 \/ vclock'[a][m] = vclock[a][m]
    BY <1>5 DEF TypeOK, Restart
  <2> QED BY <1>5, <2>1, <2>2 DEF KnowsNoFuture, Restart
<1>6. ASSUME NEW p \in net, Receive(p), UNCHANGED total
      PROVE  KnowsNoFuture'
  <2>1. p.to \in Nodes /\ p.clock \in [Nodes -> Nat]
    BY <1>6, ReceiveType
  <2>2. ASSUME NEW a \in Nodes, NEW m \in Nodes
        PROVE  vclock'[a][m] <= total[m]
    <3>1. /\ vclock[a][m] <= total[m] /\ p.clock[m] <= total[m]
          /\ vclock[p.to][m] <= total[m]
      BY <2>1 DEF KnowsNoFuture
    <3>2. vclock'[a][m] = vclock[a][m] \/ vclock'[a][m] = Larger(vclock[p.to][m], p.clock[m])
      BY <1>6 DEF TypeOK, Receive, Merge
    <3> QED BY <3>1, <3>2 DEF Larger
  <2> QED BY <1>6, <2>2 DEF KnowsNoFuture, Receive
<1>7. ASSUME NEW p \in net, Pong(p) \/ Process(p)
      PROVE  KnowsNoFuture'
  BY <1>6, <1>7 DEF Pong, Process
<1>8. ASSUME NEW p \in net, Lose(p)
      PROVE  KnowsNoFuture'
  BY <1>8 DEF KnowsNoFuture, Lose, clocks
<1>9. ASSUME NEW a \in replies, Reply(a) \/ Ignore(a)
      PROVE  KnowsNoFuture'
  BY <1>9 DEF KnowsNoFuture, Reply, Ignore, clocks
<1>10. CASE UNCHANGED vars
  BY <1>10 DEF KnowsNoFuture, vars, clocks
<1>11. CASE Next
  BY <1>11, <1>1, <1>2, <1>3, <1>4, <1>5, <1>7, <1>8, <1>9 DEF Next
<1> QED BY <1>10, <1>11

\* No vector clock counts a mutation that was not made, over any number of restarts
\* (increment_clock, merge_vector_clock).
THEOREM NoFutureIsKnown == Spec => []KnowsNoFuture
<1>1. Init => KnowsNoFuture
  BY DEF Init, KnowsNoFuture
<1> QED BY <1>1, TypeCorrect, KnowsNoFutureStep, PTL DEF Spec

-----------------------------------------------------------------------------
(* Causality *)

\* A mutation, under a Lamport clock, is stamped no earlier than what its node knew.
Consistent(w, count) ==
  /\ w.tombstone.lamport <= count
  /\ \A s \in w.past : s.lamport <= w.tombstone.lamport /\ NoEarlier(w.tombstone, s)

\* What a node knows is behind its clocks.
Behind(n, s) == s.lamport <= lamport[n] /\ NoEarlier(hlc[n], s)

(* The inductive invariant: nodes know what they hold, clocks are ahead of what is *)
(* known, and mutations under way are ahead of what their nodes knew.            *)
Causal ==
  /\ \A n \in Nodes : tombstones[n] \subseteq known[n]
  /\ \A n \in Nodes : \A s \in known[n] : Behind(n, s)
  /\ \A n \in Nodes : \A w \in outbox[n] : Consistent(w, lamport[n])
  /\ \A p \in net : p \in Sync => Consistent(p.mutation, p.lamport)

\* A larger clock keeps what was consistent with the smaller one.
LEMMA ConsistentLater ==
  ASSUME NEW w \in Mutation, NEW i \in Nat, NEW j \in Nat, i <= j, Consistent(w, i)
  PROVE  Consistent(w, j)
<1>1. w.tombstone.lamport \in Nat
  BY DEF Mutation, Tombstone
<1> QED BY <1>1 DEF Consistent

\* The steps that neither record nor take in a mutation.
LEMMA CausalRest ==
  ASSUME TypeOK, Causal, UNCHANGED <<tombstones, hlc, lamport, known>>,
         \A n \in Nodes : outbox'[n] \subseteq outbox[n],
         \A p \in net' : p \in Sync => p \in net \/ \E n \in Nodes : \E w \in outbox[n] :
                            p.mutation = w /\ p.lamport = lamport[n]
  PROVE  Causal'
<1>1. \A n \in Nodes : tombstones'[n] \subseteq known'[n]
  BY DEF Causal
<1>2. \A n \in Nodes : \A s \in known'[n] : Behind(n, s)'
  BY DEF Causal, Behind
<1>3. \A n \in Nodes : \A w \in outbox'[n] : Consistent(w, lamport'[n])
  BY DEF Causal
<1>4. \A p \in net' : p \in Sync => Consistent(p.mutation, p.lamport)
  BY DEF Causal
<1> QED BY <1>1, <1>2, <1>3, <1>4 DEF Causal

\* A new tombstone is newer than all its node has known.
LEMMA CausalMutate ==
  ASSUME TypeOK, Causal, NEW n \in Nodes, NEW r \in Resources, Mutate(n, r)
  PROVE  /\ Causal'
         /\ \A w \in outbox'[n] \ outbox[n], s \in known[n] : IsNewer(w.tombstone, s)
         /\ \A s \in tombstones[n], t \in tombstones'[n] :
               s.resource = t.resource => s = t \/ IsNewer(t, s)
<1>1. PICK h \in Stamp, t \in Tombstone : Recorded(n, r, h, t)
  BY MutateStep
<1>2. /\ lamport[n] \in Nat /\ hlc[n] \in Stamp /\ hlc[n].l \in Nat /\ hlc[n].c \in Nat
      /\ h.l \in Nat /\ h.c \in Nat
  BY DEF TypeOK, Stamp
<1>3. t.lamport = lamport[n] + 1 /\ t.l = h.l /\ t.c = h.c /\ Later(h, hlc[n])
  BY <1>1 DEF Recorded
<1>4. /\ lamport' = [lamport EXCEPT ![n] = lamport[n] + 1]
      /\ hlc' = [hlc EXCEPT ![n] = h]
      /\ known' = [known EXCEPT ![n] = known[n] \cup {t}]
      /\ outbox' = [outbox EXCEPT ![n] = outbox[n] \cup {[tombstone |-> t, past |-> known[n]]}]
      /\ UNCHANGED net
  BY <1>1 DEF Recorded
<1>5. PICK T \in SUBSET Replace(tombstones[n], t) : tombstones' = [tombstones EXCEPT ![n] = T]
  BY <1>1 DEF Recorded
<1>6. ASSUME NEW s \in known[n]
      PROVE  /\ s \in Tombstone /\ s.lamport <= lamport[n] /\ s.lamport \in Nat
             /\ Later(h, s) /\ NoEarlier(h, s) /\ Later(t, s) /\ NoEarlier(t, s)
             /\ IsNewer(t, s)
  <2>1. s \in Tombstone
    BY DEF TypeOK
  <2>2. s.l \in Nat /\ s.c \in Nat /\ s.lamport \in Nat
    BY <2>1 DEF Tombstone
  <2>3. s.lamport <= lamport[n] /\ NoEarlier(hlc[n], s)
    BY DEF Causal, Behind
  <2>4. Later(h, s) /\ NoEarlier(h, hlc[n])
    BY <1>2, <1>3, <2>2, <2>3, NoEarlierTransitive
  <2>5. NoEarlier(h, s)
    BY <1>2, <2>2, <2>3, <2>4, NoEarlierTransitive
  <2>6. Later(t, s) /\ NoEarlier(t, s)
    BY <1>3, <2>4, <2>5 DEF Later, NoEarlier
  <2>7. IsNewer(t, s)
    BY <1>2, <1>3, <2>1, <2>2, <2>3, <2>6, LaterIsNewer
  <2> QED BY <2>1, <2>2, <2>3, <2>4, <2>5, <2>6, <2>7
<1>7. tombstones[n] \subseteq known[n]
  BY DEF Causal
<1>8. \A m \in Nodes : tombstones'[m] \subseteq known'[m]
  BY <1>4, <1>5, <1>7 DEF TypeOK, Causal, Replace
<1>9. \A m \in Nodes : \A s \in known'[m] : s.lamport <= lamport'[m] /\ NoEarlier(hlc'[m], s)
  <2>1. ASSUME NEW m \in Nodes, m # n, NEW s \in known'[m]
        PROVE  s.lamport <= lamport'[m] /\ NoEarlier(hlc'[m], s)
    BY <1>4, <2>1 DEF TypeOK, Causal, Behind
  <2>2. ASSUME NEW s \in known'[n]
        PROVE  s.lamport <= lamport'[n] /\ NoEarlier(hlc'[n], s)
    <3>1. lamport'[n] = lamport[n] + 1 /\ hlc'[n] = h
      BY <1>4 DEF TypeOK
    <3>2. CASE s = t
      BY <1>2, <1>3, <3>1, <3>2 DEF NoEarlier
    <3>3. CASE s # t
      <4>1. s \in known[n]
        BY <1>4, <3>3 DEF TypeOK
      <4> QED BY <1>2, <1>6, <3>1, <4>1
    <3> QED BY <3>2, <3>3
  <2> QED BY <2>1, <2>2
<1>10. \A m \in Nodes : \A w \in outbox'[m] : Consistent(w, lamport'[m])
  <2>1. ASSUME NEW m \in Nodes, NEW w \in outbox[m]
        PROVE  Consistent(w, lamport'[m])
    <3>1. w \in Mutation /\ lamport[m] \in Nat /\ lamport'[m] \in Nat /\ lamport[m] <= lamport'[m]
      BY <1>4 DEF TypeOK
    <3> QED BY <3>1, ConsistentLater DEF Causal
  <2>2. ASSUME NEW w, w = [tombstone |-> t, past |-> known[n]]
        PROVE  Consistent(w, lamport'[n])
    <3>1. w.tombstone = t /\ w.past = known[n] /\ lamport'[n] = lamport[n] + 1
      BY <1>4, <2>2 DEF TypeOK
    <3>2. \A s \in w.past : s.lamport <= t.lamport /\ NoEarlier(t, s)
      BY <1>2, <1>3, <1>6, <3>1
    <3>3. t.lamport <= lamport'[n]
      BY <1>2, <1>3, <3>1
    <3> QED BY <3>1, <3>2, <3>3 DEF Consistent
  <2>3. \A m \in Nodes : \A w \in outbox'[m] :
          w \in outbox[m] \/ (m = n /\ w = [tombstone |-> t, past |-> known[n]])
    BY <1>4 DEF TypeOK
  <2> QED BY <2>1, <2>2, <2>3
<1>11. Causal'
  BY <1>4, <1>8, <1>9, <1>10 DEF Causal, Behind
<1>12. \A w \in outbox'[n] \ outbox[n], s \in known[n] : IsNewer(w.tombstone, s)
  <2>1. \A w \in outbox'[n] \ outbox[n] : w.tombstone = t
    BY <1>4 DEF TypeOK
  <2> QED BY <1>6, <2>1
<1>13. \A s \in tombstones[n], u \in tombstones'[n] :
          s.resource = u.resource => s = u \/ IsNewer(u, s)
  <2>1. \A u \in tombstones'[n] : u = t \/ u \in tombstones[n]
    BY <1>5 DEF TypeOK, Replace
  <2> QED BY <1>6, <1>7, <2>1 DEF TypeOK
<1> QED BY <1>11, <1>12, <1>13

\* A tombstone that replaces another of its resource is newer.
LEMMA CausalProcess ==
  ASSUME TypeOK, Causal, NEW p \in net, Process(p)
  PROVE  /\ Causal' /\ UNCHANGED outbox
         /\ \A n \in Nodes : \A s \in tombstones[n], t \in tombstones'[n] :
               s.resource = t.resource => s = t \/ IsNewer(t, s)
<1>1. PICK n \in Nodes, w \in Mutation, h \in Stamp, count \in Nat : Taken(p, n, w, h, count)
  BY ProcessStep
<1> DEFINE t == w.tombstone
<1>2. /\ t \in Tombstone /\ w.past \in SUBSET Tombstone
      /\ lamport[n] \in Nat /\ hlc[n] \in Stamp /\ p.lamport \in Nat
  BY <1>1 DEF Mutation, TypeOK, Stamp, Taken, Sync
<1>3. /\ hlc[n].l \in Nat /\ hlc[n].c \in Nat /\ h.l \in Nat /\ h.c \in Nat
      /\ t.l \in Nat /\ t.c \in Nat /\ t.lamport \in Nat
  BY <1>2 DEF Stamp, Tombstone
<1>4. t.lamport <= p.lamport /\ \A s \in w.past : s.lamport <= t.lamport /\ NoEarlier(t, s)
  BY <1>1 DEF Causal, Consistent, Taken
<1>5. Later(h, hlc[n]) /\ Later(h, t) /\ count > lamport[n] /\ count > p.lamport
  BY <1>1 DEF Taken
<1>6. /\ hlc' = [hlc EXCEPT ![n] = h] /\ lamport' = [lamport EXCEPT ![n] = count]
      /\ known' = [known EXCEPT ![n] = known[n] \cup {t} \cup w.past]
      /\ UNCHANGED outbox /\ net' \subseteq net
  BY <1>1 DEF Taken, Receive
<1>7. \/ /\ Accepts(n, t)
         /\ tombstones' = [tombstones EXCEPT ![n] = Replace(tombstones[n], t)]
      \/ UNCHANGED tombstones
  BY <1>1 DEF Taken
<1> HIDE DEF t
<1>8. \A m \in Nodes : \A u \in tombstones'[m] :
        u \in tombstones[m] \/ (m = n /\ u = t /\ Accepts(n, t))
  BY <1>7 DEF TypeOK, Replace
<1>9. \A m \in Nodes : tombstones'[m] \subseteq known'[m]
  BY <1>6, <1>8 DEF TypeOK, Causal
<1>10. ASSUME NEW s \in known'[n]
       PROVE  s.lamport <= count /\ NoEarlier(h, s)
  <2>1. s \in known[n] \/ s = t \/ s \in w.past
    BY <1>6 DEF TypeOK
  <2>2. s \in Tombstone
    BY <1>2, <2>1 DEF TypeOK
  <2>3. s.l \in Nat /\ s.c \in Nat /\ s.lamport \in Nat
    BY <2>2 DEF Tombstone
  <2>4. CASE s \in known[n]
    <3>1. s.lamport <= lamport[n] /\ NoEarlier(hlc[n], s)
      BY <2>4 DEF Causal, Behind
    <3>2. Later(h, s)
      BY <1>3, <1>5, <2>3, <3>1, NoEarlierTransitive
    <3> QED BY <1>2, <1>3, <1>5, <2>3, <3>1, <3>2 DEF Later, NoEarlier
  <2>5. CASE s = t
    BY <1>2, <1>3, <1>4, <1>5, <2>5 DEF Later, NoEarlier
  <2>6. CASE s \in w.past
    <3>1. s.lamport <= t.lamport /\ NoEarlier(t, s)
      BY <1>4, <2>6
    <3>2. Later(h, s)
      BY <1>3, <1>5, <2>3, <3>1, NoEarlierTransitive
    <3> QED BY <1>2, <1>3, <1>4, <1>5, <2>3, <3>1, <3>2 DEF Later, NoEarlier
  <2> QED BY <2>1, <2>4, <2>5, <2>6
<1>11. \A m \in Nodes : \A s \in known'[m] : s.lamport <= lamport'[m] /\ NoEarlier(hlc'[m], s)
  <2>1. ASSUME NEW m \in Nodes, m # n, NEW s \in known'[m]
        PROVE  s.lamport <= lamport'[m] /\ NoEarlier(hlc'[m], s)
    BY <1>6, <2>1 DEF TypeOK, Causal, Behind
  <2>2. lamport'[n] = count /\ hlc'[n] = h
    BY <1>6 DEF TypeOK
  <2> QED BY <1>10, <2>1, <2>2
<1>12. \A m \in Nodes : \A v \in outbox'[m] : Consistent(v, lamport'[m])
  <2>1. ASSUME NEW m \in Nodes, NEW v \in outbox[m]
        PROVE  Consistent(v, lamport'[m])
    <3>1. v \in Mutation /\ lamport[m] \in Nat
      BY DEF TypeOK
    <3>2. lamport'[m] \in Nat /\ lamport[m] <= lamport'[m]
      BY <1>2, <1>5, <1>6, <3>1 DEF TypeOK
    <3> QED BY <3>1, <3>2, ConsistentLater DEF Causal
  <2> QED BY <1>6, <2>1
<1>13. Causal'
  BY <1>6, <1>9, <1>11, <1>12 DEF Causal, Behind
<1>14. ASSUME NEW m \in Nodes, NEW s \in tombstones[m], NEW u \in tombstones'[m],
              s.resource = u.resource
       PROVE  s = u \/ IsNewer(u, s)
  <2>1. CASE u \in tombstones[m]
    BY <1>14, <2>1 DEF TypeOK
  <2>2. CASE m = n /\ u = t /\ Accepts(n, t)
    BY <1>14, <2>2 DEF Accepts, Held
  <2> QED BY <1>8, <2>1, <2>2
<1> QED BY <1>6, <1>13, <1>14

\* What every step does to the invariant, to what is recorded and to what is held.
Orderly ==
  /\ Causal'
  /\ \A n \in Nodes : \A w \in outbox'[n] \ outbox[n], s \in known[n] : IsNewer(w.tombstone, s)
  /\ \A n \in Nodes : \A s \in tombstones[n], t \in tombstones'[n] :
        s.resource = t.resource => s = t \/ IsNewer(t, s)

\* Every step keeps the order.
LEMMA CausalStep ==
  ASSUME TypeOK, Causal, [Next]_vars
  PROVE  Orderly
<1>0. \A n \in Nodes : \A s, t \in tombstones[n] : s.resource = t.resource => s = t
  BY DEF TypeOK
<1>1. ASSUME NEW n \in Nodes, NEW r \in Resources, Mutate(n, r)
      PROVE  Orderly
  <2>1. \A m \in Nodes : m # n => tombstones'[m] = tombstones[m] /\ outbox'[m] = outbox[m]
    BY <1>1, MutateStep DEF TypeOK, Recorded
  <2> QED BY <1>0, <1>1, <2>1, CausalMutate DEF Orderly
<1>2. ASSUME NEW n \in Nodes, NEW w \in outbox[n], Broadcast(n, w)
      PROVE  Orderly
  <2>1. \A p \in net' : p \in net \/ (p.mutation = w /\ p.lamport = lamport[n])
    BY <1>2 DEF Broadcast
  <2>2. UNCHANGED <<tombstones, hlc, lamport, known>>
    BY <1>2 DEF Broadcast, clocks
  <2>3. \A m \in Nodes : outbox'[m] \subseteq outbox[m]
    BY <1>2 DEF TypeOK, Broadcast
  <2> QED BY <1>0, <2>1, <2>2, <2>3, CausalRest DEF Orderly
<1>3. ASSUME NEW n \in Nodes, NEW m \in Nodes, Probe(n, m)
      PROVE  Orderly
  <2>1. [from |-> n, to |-> m, clock |-> vclock[n]] \notin Sync
    BY DEF Sync
  <2>2. \A p \in net' : p \in Sync => p \in net
    BY <1>3, <2>1 DEF Probe
  <2> QED BY <1>0, <1>3, <2>2, CausalRest DEF Orderly, Probe, clocks
<1>4. ASSUME NEW n \in Nodes, NEW m \in Nodes, Age(n, m) \/ Unregister(n, m) \/ Register(n, m)
      PROVE  Orderly
  BY <1>0, <1>4, CausalRest DEF Orderly, Age, Unregister, Register, clocks
<1>5. ASSUME NEW n \in Nodes, Restart(n)
      PROVE  Orderly
  <2>1. /\ \A m \in Nodes : tombstones'[m] \subseteq tombstones[m]
        /\ \A m \in Nodes : outbox'[m] \subseteq outbox[m]
        /\ known'[n] = {} /\ outbox'[n] = {} /\ tombstones'[n] = {}
        /\ \A m \in Nodes : m # n => /\ known'[m] = known[m] /\ outbox'[m] = outbox[m]
                                     /\ tombstones'[m] = tombstones[m]
                                     /\ lamport'[m] = lamport[m]
        /\ net' \subseteq net
    BY <1>5 DEF TypeOK, Restart
  <2>2. \A m \in Nodes : m # n => hlc'[m] = hlc[m]
    BY <1>5 DEF TypeOK, Restart
  <2>3. Causal'
    BY <2>1, <2>2 DEF Causal, Behind
  <2> QED BY <1>0, <2>1, <2>3 DEF Orderly
<1>6. ASSUME NEW p \in net, Pong(p) \/ Lose(p)
      PROVE  Orderly
  BY <1>0, <1>6, CausalRest DEF Orderly, Pong, Lose, Receive, clocks
<1>7. ASSUME NEW p \in net, Process(p)
      PROVE  Orderly
  BY <1>7, CausalProcess DEF Orderly
<1>8. ASSUME NEW a \in replies, Reply(a) \/ Ignore(a)
      PROVE  Orderly
  BY <1>0, <1>8, CausalRest DEF Orderly, Reply, Ignore, clocks
<1>9. CASE UNCHANGED vars
  BY <1>0, <1>9, CausalRest DEF Orderly, vars, clocks
<1>10. CASE Next
  BY <1>10, <1>1, <1>2, <1>3, <1>4, <1>5, <1>6, <1>7, <1>8 DEF Next
<1> QED BY <1>9, <1>10

\* The order holds at the start and always.
LEMMA CausalInit == Init => Causal
BY DEF Init, Causal

LEMMA CausalAlways == Spec => [](TypeOK /\ Causal)
<1>1. TypeOK /\ Causal /\ [Next]_vars => (TypeOK /\ Causal)'
  BY TypeStep, CausalStep DEF Orderly
<1> QED BY <1>1, TypeInit, CausalInit, PTL DEF Spec

\* A mutation is stamped newer than all that its node knows, through any drift of the
\* wall clocks (record_local_mutation, HybridLogicalClock).
THEOREM MutationsAreNewer == Spec => CausalMonotonicity
<1>1. TypeOK /\ Causal /\ [Next]_vars
        => [\A n \in Nodes : \A w \in outbox'[n] \ outbox[n], s \in known[n] :
               IsNewer(w.tombstone, s)]_vars
  BY CausalStep DEF Orderly
<1> QED BY <1>1, CausalAlways, PTL DEF Spec, CausalMonotonicity

\* Whatever a node holds for a resource is only replaced by something newer
\* (apply_remote_tombstone, and record_local_mutation, which does not compare).
THEOREM ReplacementsAreNewer == Spec => NewerReplacesOlder
<1>1. TypeOK /\ Causal /\ [Next]_vars
        => [\A n \in Nodes : \A s \in tombstones[n], t \in tombstones'[n] :
               s.resource = t.resource => s = t \/ IsNewer(t, s)]_vars
  BY CausalStep DEF Orderly
<1> QED BY <1>1, CausalAlways, PTL DEF Spec, NewerReplacesOlder
=============================================================================
