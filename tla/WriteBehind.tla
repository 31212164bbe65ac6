---------------------------- MODULE WriteBehind ----------------------------
(***************************************************************************)
(* What a write-behind store promises: writes are accepted into one line,  *)
(* and take effect in the table in the order of the line, several of them  *)
(* in one transaction perhaps, which may fail; beside the line there are      *)
(* direct writes and removals.  SnapshotStore implements this module.      *)
(***************************************************************************)
EXTENDS Naturals, Sequences, SequencesExt

CONSTANTS Key,     \* primary keys of the cache table
          Item     \* writes: [op, keys, id, covers]

VARIABLES pend,    \* accepted and not yet written
          rows,    \* the id of the write each row holds, 0: no row
          spent    \* the sum the ledger row holds

wvars == <<pend, rows, spent>>

None == [k \in Key |-> 0]

\* The effect of one write on the table.
RowsAfter(tab, it) ==
  CASE it.op = "insert_cache" -> [k \in Key |-> IF k \in it.keys THEN it.id ELSE tab[k]]
    [] it.op = "delete"       -> [k \in Key |-> IF k \in it.keys THEN 0 ELSE tab[k]]
    [] OTHER                  -> tab
SpentAfter(sum, it) == IF it.op = "spend_key" THEN sum + 1 ELSE sum

\* The effect of a list of writes, one after the other.
RowsAfterAll(tab, items) ==
  LET after[i \in 0..Len(items)] ==
        IF i = 0 THEN tab ELSE RowsAfter(after[i - 1], items[i])
  IN  after[Len(items)]
SpentAfterAll(sum, items) ==
  LET after[i \in 0..Len(items)] ==
        IF i = 0 THEN sum ELSE SpentAfter(after[i - 1], items[i])
  IN  after[Len(items)]

Init == pend = <<>> /\ rows = None /\ spent = 0

Accept ==
  /\ Len(pend') = Len(pend) + 1
  /\ Front(pend') = pend
  /\ Last(pend') \in Item
  /\ UNCHANGED <<rows, spent>>

\* The first n writes of the line, in one transaction.
Write ==
  \E n \in 1..Len(pend) :
    LET first == SubSeq(pend, 1, n) IN
    /\ rows' = RowsAfterAll(rows, first)
    /\ spent' = SpentAfterAll(spent, first)
    /\ pend' = SubSeq(pend, n + 1, Len(pend))

\* A write of one row, or a removal of some, that does not queue.
Direct ==
  /\ \/ \E k \in Key : /\ rows'[k] \in Nat
                       /\ rows' = [rows EXCEPT ![k] = rows'[k]]
     \/ \E scope \in SUBSET Key :
          rows' = [k \in Key |-> IF k \in scope THEN 0 ELSE rows[k]]
  /\ UNCHANGED <<pend, spent>>

\* The first n writes are lost together: a failing transaction, or a crash.
Lose ==
  /\ \E n \in 1..Len(pend) : pend' = SubSeq(pend, n + 1, Len(pend))
  /\ UNCHANGED <<rows, spent>>

Next == Accept \/ Write \/ Direct \/ Lose

Spec == Init /\ [][Next]_wvars
=============================================================================
