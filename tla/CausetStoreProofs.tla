-------------------------- MODULE CausetStoreProofs --------------------------
(***************************************************************************)
(* Proofs about CausetStore for every topograph, every set of values and   *)
(* every bound.                                                            *)
(*                                                                         *)
(* The invariants of CausetStore are not inductive: whether the view still *)
(* matches the log after commit_EinsteinDB_transaction depends on what     *)
(* begin_tx_application, do_search and update_causets left behind.  Ind    *)
(* says what each stage hands to the next.                                 *)
(***************************************************************************)
EXTENDS CausetStore, WellFoundedInduction, TLAPS

ResultRow == [term : Term, old : Row \cup {NoRow}]

OneValueEach(rows) ==
    \A c, d \in rows : (SameEA(c, d) /\ c.a \in One) => c = d

\* Every entry of the log is of the main timeline and older than n.
Below(entries, n) ==
    \A l \in entries : l.morse = Main /\ l.tx < n /\ l.e < n

\* What holds between two EinsteinDB transactions, n being the next tx id.
Good(rows, entries, n) ==
    /\ rows = Live(entries)
    /\ idx_causets(rows)
    /\ OneValueEach(rows)
    /\ Below(entries, n)
    /\ Tx0 < n
    /\ \E l \in entries : l.e = n - 1

\* What begin_tx_application hands on.
Accepted(s, t) ==
    /\ ~cardinality_conflicts(s)
    /\ \A u \in s : u.e <= t
    /\ \E i \in Instants : TxInstantTerm(t, i) \in s

Applied(entries, s, t) ==
    LET r == search(Live(entries), s)
    IN  update_causets_insert(update_causets_delete(Live(entries), r), r, t)

CommittedInv ==
    /\ db.version = 0 => stage = "closed" /\ db.causets = {} /\ db.log = {}
    /\ db.version = 1 =>
         \E n \in Nat : /\ Good(db.causets, db.log, n)
                        /\ stage # "closed" => n = spacetime.tx

WorkingInv ==
    /\ OneValueEach(causets)
    /\ NoOpaqueFailure
    /\ stage \in {"idle", "open"} => Good(causets, log, part.tx)
    /\ stage \in {"begun", "searched", "materialized"} =>
         /\ part.tx = tx + 1
         /\ Tx0 < tx
         /\ Accepted(searches, tx)
         /\ Below(log, tx)
         /\ idx_causets(Live(log))
         /\ OneValueEach(Live(log))
    /\ stage \in {"begun", "searched"} => causets = Live(log)
    /\ stage \in {"searched", "materialized"} => results = search(Live(log), searches)
    /\ stage = "materialized" =>
         idx_causets(causets) /\ causets = Applied(log, searches, tx)

\* The working log extends the committed one by transactions of its own.
HistoryInv ==
    /\ Below(log, part.tx)
    /\ stage # "closed" =>
         /\ db.log \subseteq log
         /\ spacetime.tx <= part.tx
         /\ \A l \in log \ db.log : spacetime.tx <= l.tx
    /\ stage \in {"begun", "searched", "materialized"} => spacetime.tx <= tx

Ind == TypeOK /\ CommittedInv /\ WorkingInv /\ HistoryInv

-----------------------------------------------------------------------------
(* Lemmas about the relational operators. *)

(* A bounded, non-empty set of naturals has a greatest element. *)
LEMMA MaxExists ==
    ASSUME NEW S \in SUBSET Nat, S # {}, NEW b \in Nat, \A i \in S : i <= b
    PROVE  \E m \in S : \A i \in S : i <= m
<1> DEFINE T == { k \in Nat : \E i \in S : k = b - i }
<1>1. T # {} /\ T \subseteq Nat
  <2>1. PICK i \in S : TRUE
    OBVIOUS
  <2>2. b - i \in T
    BY <2>1
  <2> QED BY <2>2
<1>2. PICK x \in T : \A y \in T : ~ (<<y, x>> \in OpToRel(<, Nat))
  <2> HIDE DEF T
  <2>1. \E x \in T : \A y \in T : ~ (<<y, x>> \in OpToRel(<, Nat))
    BY <1>1, WFMin, NatLessThanWellFounded
  <2> QED BY <2>1
<1>3. \A y \in T : ~ (y < x)
  BY <1>1, <1>2 DEF OpToRel
<1>4. PICK m \in S : x = b - m
  BY <1>2
<1>5. ASSUME NEW i \in S PROVE i <= m
  <2>1. b - i \in T
    OBVIOUS
  <2>2. ~ (b - i < x)
    BY <2>1, <1>3
  <2> QED BY <2>2, <1>4
<1> QED BY <1>5

(* The join yields well-formed rows, so the rows the transaction adds and  *)
(* retracts are well formed too.                                           *)
LEMMA SearchType ==
    ASSUME NEW rows \in SUBSET Row, NEW s \in SUBSET Term
    PROVE  search(rows, s) \in SUBSET ResultRow
BY DEF search, ResultRow

(* The rows a transaction retracts are rows of the store.                  *)
LEMMA RetractedType ==
    ASSUME NEW r \in SUBSET ResultRow
    PROVE  RetractedRows(r) \in SUBSET Row
BY DEF RetractedRows, Retracts, ResultRow

(* The rows a transaction adds are well formed.                            *)
LEMMA AddedType ==
    ASSUME NEW r \in SUBSET ResultRow, NEW t \in Nat
    PROVE  AddedRows(r, t) \in SUBSET Row
BY DEF AddedRows, ResultRow, Row, Term

(* insert_transaction appends well-formed log entries.                     *)
LEMMA InsertType ==
    ASSUME NEW entries \in SUBSET LogRow, NEW r \in SUBSET ResultRow, NEW t \in Nat
    PROVE  insert_transaction(entries, r, t) \in SUBSET LogRow
<1>1. ASSUME NEW d \in Row, NEW b \in BOOLEAN PROVE LogEntry(d, t, b) \in LogRow
  BY DEF LogEntry, Row, LogRow, Main
<1> QED BY <1>1, RetractedType, AddedType DEF insert_transaction

(* The view of a well-formed log is well formed.                           *)
LEMMA LiveType ==
    ASSUME NEW entries \in SUBSET LogRow
    PROVE  Live(entries) \in SUBSET Row
BY DEF Live, transactions, LogRow, Row

(* A row of the view comes from an assertion of the log that no later      *)
(* retraction cancels.                                                     *)
LEMMA LiveElim ==
    ASSUME NEW entries \in SUBSET LogRow, NEW d \in Live(entries)
    PROVE  \E m \in transactions(entries) :
              /\ m.added
              /\ \A n \in transactions(entries) :
                   (~n.added /\ SameEAV(m, n)) => n.tx < m.tx
              /\ d = [e |-> m.e, a |-> m.a, v |-> m.v, tx |-> m.tx]
BY DEF Live

(* The converse of LiveElim.                                               *)
LEMMA LiveIntro ==
    ASSUME NEW entries, NEW m \in transactions(entries), m.added,
           \A n \in transactions(entries) : (~n.added /\ SameEAV(m, n)) => n.tx < m.tx
    PROVE  [e |-> m.e, a |-> m.a, v |-> m.v, tx |-> m.tx] \in Live(entries)
BY DEF Live

(* The rows of the view are as old as the log they come from.              *)
LEMMA LiveBelow ==
    ASSUME NEW entries \in SUBSET LogRow, NEW n \in Nat, Below(entries, n),
           NEW d \in Live(entries)
    PROVE  d.e < n /\ d.tx < n
BY LiveElim DEF Below, transactions, LogRow

(* What a row of the LEFT JOIN says about the store.                       *)
LEMMA ResultElim ==
    ASSUME NEW rows \in SUBSET Row, NEW s \in SUBSET Term, NEW r \in search(rows, s)
    PROVE  /\ r.term \in s
           /\ r.old = NoRow => \A d \in rows : ~Matches(r.term, d)
           /\ r.old # NoRow => r.old \in rows /\ Matches(r.term, r.old)
BY DEF search

(* What is retracted was there, and what is added was not.                 *)
LEMMA RetractedWasLive ==
    ASSUME NEW rows \in SUBSET Row, NEW s \in SUBSET Term,
           NEW d \in RetractedRows(search(rows, s))
    PROVE  d \in rows
<1>1. PICK r \in search(rows, s) : Retracts(r) /\ d = r.old
  BY DEF RetractedRows
<1> QED BY <1>1, ResultElim DEF Retracts

(* Every added row comes from a result that adds.                          *)
LEMMA AddedElim ==
    ASSUME NEW rows \in SUBSET Row, NEW s \in SUBSET Term, NEW t \in Nat,
           NEW d \in AddedRows(search(rows, s), t)
    PROVE  \E r \in search(rows, s) :
              Adds(r) /\ d = [e |-> r.term.e, a |-> r.term.a, v |-> r.term.v, tx |-> t]
BY DEF AddedRows

(* No added row has the [e a v] of a row that was there.                   *)
LEMMA AddedWasAbsent ==
    ASSUME NEW rows \in SUBSET Row, NEW s \in SUBSET Term, NEW t \in Nat,
           OneValueEach(rows),
           NEW d \in AddedRows(search(rows, s), t), NEW c \in rows
    PROVE  ~SameEAV(d, c)
<1> SUFFICES ASSUME SameEAV(d, c) PROVE FALSE
  OBVIOUS
<1>1. PICK r \in search(rows, s) :
        Adds(r) /\ d = [e |-> r.term.e, a |-> r.term.a, v |-> r.term.v, tx |-> t]
  BY AddedElim
<1>2. SameEA(r.term, c) /\ r.term.v = c.v
  BY <1>1 DEF SameEAV, SameEA
<1>3. Matches(r.term, c)
  BY <1>2 DEF Matches
<1>4. r.old # NoRow /\ r.old \in rows /\ Matches(r.term, r.old)
  BY <1>3, ResultElim
<1>5. r.old.v # r.term.v
  BY <1>1, <1>4 DEF Adds
<1>6. SameEA(r.old, c) /\ c.a \in One
  BY <1>2, <1>4, <1>5 DEF Matches, SameEA
<1>7. r.old = c
  BY <1>4, <1>6 DEF OneValueEach, SameEA
<1> QED BY <1>2, <1>5, <1>7

(* update_causets and insert_transaction agree: the view of the extended   *)
(* log is the updated view.                                                *)
LEMMA LiveApplied ==
    ASSUME NEW entries \in SUBSET LogRow, NEW s \in SUBSET Term, NEW t \in Nat,
           Below(entries, t), idx_causets(Live(entries)), OneValueEach(Live(entries))
    PROVE  Live(insert_transaction(entries, search(Live(entries), s), t))
             = Applied(entries, s, t)
<1> DEFINE rows == Live(entries)
           r == search(rows, s)
           add == AddedRows(r, t)
           ret == RetractedRows(r)
           new == insert_transaction(entries, r, t)
<1>0. rows \in SUBSET Row /\ r \in SUBSET ResultRow
  BY LiveType, SearchType
<1>1. add \in SUBSET Row /\ ret \in SUBSET Row /\ ret \subseteq rows
  BY <1>0, AddedType, RetractedType, RetractedWasLive
<1>2. new \in SUBSET LogRow
  BY <1>0, InsertType
<1>3. \A c \in add : c.tx = t
  BY DEF AddedRows
<1>4. transactions(entries) = entries /\ transactions(new) = new
  <2>1. transactions(entries) = entries
    BY DEF transactions, Below
  <2>2. \A l \in new : l.morse = Main
    BY DEF insert_transaction, LogEntry, Below
  <2> QED BY <2>1, <2>2 DEF transactions
<1>5. ASSUME NEW l \in new
      PROVE  \/ l \in entries
             \/ \E c \in add : l = LogEntry(c, t, TRUE)
             \/ \E c \in ret : l = LogEntry(c, t, FALSE)
  BY DEF insert_transaction
<1>6. /\ entries \subseteq new
      /\ \A c \in add : LogEntry(c, t, TRUE) \in new
      /\ \A c \in ret : LogEntry(c, t, FALSE) \in new
  BY DEF insert_transaction
<1>7. Applied(entries, s, t) = (rows \ ret) \cup add
  BY DEF Applied, update_causets_insert, update_causets_delete
<1> HIDE DEF rows, r, add, ret, new
<1>8. ASSUME NEW d \in Live(new) PROVE d \in (rows \ ret) \cup add
  <2>1. PICK m \in new :
          /\ m.added
          /\ \A n \in new : (~n.added /\ SameEAV(m, n)) => n.tx < m.tx
          /\ d = [e |-> m.e, a |-> m.a, v |-> m.v, tx |-> m.tx]
    BY <1>2, <1>4, LiveElim
  <2>2. CASE m \in entries
    <3>1. d \in rows
      BY <2>1, <2>2, <1>4, <1>6, LiveIntro DEF rows
    <3>2. ASSUME d \in ret PROVE FALSE
      <4> DEFINE n == LogEntry(d, t, FALSE)
      <4>1. n \in new /\ ~n.added /\ SameEAV(m, n) /\ n.tx = t
        BY <3>2, <1>6, <2>1 DEF LogEntry, SameEAV, SameEA
      <4>2. t < m.tx
        BY <4>1, <2>1
      <4>3. m.tx < t /\ m.tx \in Nat
        BY <2>2 DEF Below, LogRow
      <4> QED BY <4>2, <4>3
    <3> QED BY <3>1, <3>2
  <2>3. CASE \E c \in add : m = LogEntry(c, t, TRUE)
    <3>1. PICK c \in add : m = LogEntry(c, t, TRUE)
      BY <2>3
    <3>2. d = [e |-> c.e, a |-> c.a, v |-> c.v, tx |-> t]
      BY <2>1, <3>1 DEF LogEntry
    <3>3. d = c
      BY <3>2, <1>1, <1>3 DEF Row
    <3> QED BY <3>3
  <2>4. CASE \E c \in ret : m = LogEntry(c, t, FALSE)
    BY <2>1, <2>4 DEF LogEntry
  <2> QED BY <2>2, <2>3, <2>4, <1>5
<1>9. ASSUME NEW d \in rows \ ret PROVE d \in Live(new)
  <2>1. PICK m \in entries :
          /\ m.added
          /\ \A n \in entries : (~n.added /\ SameEAV(m, n)) => n.tx < m.tx
          /\ d = [e |-> m.e, a |-> m.a, v |-> m.v, tx |-> m.tx]
    BY <1>4, LiveElim DEF rows
  <2>2. ASSUME NEW n \in new, ~n.added, SameEAV(m, n) PROVE n.tx < m.tx
    <3>1. CASE n \in entries
      BY <3>1, <2>1, <2>2
    <3>2. CASE \E c \in add : n = LogEntry(c, t, TRUE)
      BY <3>2, <2>2 DEF LogEntry
    <3>3. ASSUME NEW c \in ret, n = LogEntry(c, t, FALSE) PROVE FALSE
      <4>1. SameEAV(c, d)
        BY <3>3, <2>1, <2>2 DEF LogEntry, SameEAV, SameEA
      <4>2. c = d
        BY <4>1, <1>1 DEF idx_causets, rows
      <4> QED BY <4>2
    <3> QED BY <3>1, <3>2, <3>3, <1>5
  <2> QED BY <2>1, <2>2, <1>4, <1>6, LiveIntro
<1>10. ASSUME NEW d \in add PROVE d \in Live(new)
  <2> DEFINE m == LogEntry(d, t, TRUE)
  <2>1. m \in new /\ m.added /\ m.tx = t
    BY <1>6 DEF LogEntry
  <2>2. ASSUME NEW n \in new, ~n.added, SameEAV(m, n) PROVE n.tx < m.tx
    <3>1. CASE n \in entries
      BY <3>1, <2>1 DEF Below
    <3>2. CASE \E c \in add : n = LogEntry(c, t, TRUE)
      BY <3>2, <2>2 DEF LogEntry
    <3>3. ASSUME NEW c \in ret, n = LogEntry(c, t, FALSE) PROVE FALSE
      <4>1. SameEAV(d, c)
        BY <3>3, <2>2 DEF LogEntry, SameEAV, SameEA
      <4>2. c \in rows /\ OneValueEach(rows)
        BY <1>1 DEF rows
      <4> QED BY <4>1, <4>2, <1>0, AddedWasAbsent DEF add, r
    <3> QED BY <3>1, <3>2, <3>3, <1>5
  <2>3. d = [e |-> m.e, a |-> m.a, v |-> m.v, tx |-> m.tx]
    <3>1. d = [e |-> d.e, a |-> d.a, v |-> d.v, tx |-> d.tx]
      BY <1>1 DEF Row
    <3> QED BY <3>1, <1>3 DEF LogEntry
  <2> QED BY <2>1, <2>2, <2>3, <1>4, LiveIntro
<1>11. Live(new) = (rows \ ret) \cup add
  BY <1>8, <1>9, <1>10
<1> QED BY <1>7, <1>11 DEF new, r, rows

(* A transaction that passes cardinality_conflicts keeps one value per     *)
(* entity and cardinality-one attribute: the inexact search finds, and     *)
(* update_causets deletes, the value that is replaced.                     *)
LEMMA OneValueApplied ==
    ASSUME NEW entries \in SUBSET LogRow, NEW s \in SUBSET Term, NEW t \in Nat,
           ~cardinality_conflicts(s), OneValueEach(Live(entries))
    PROVE  OneValueEach(Applied(entries, s, t))
<1> DEFINE rows == Live(entries)
           r == search(rows, s)
           add == AddedRows(r, t)
           ret == RetractedRows(r)
<1>0. rows \in SUBSET Row /\ OneValueEach(rows)
  BY LiveType
<1>1. Applied(entries, s, t) = (rows \ ret) \cup add
  BY DEF Applied, update_causets_insert, update_causets_delete
<1>2. ASSUME NEW q \in r, Adds(q)
      PROVE  q.term \in s /\ q.term.added
  BY <1>0, <1>2, ResultElim DEF Adds
<1>3. ASSUME NEW c \in add, NEW d \in add, SameEA(c, d), c.a \in One
      PROVE  c = d
  <2>1. PICK q \in r :
          Adds(q) /\ c = [e |-> q.term.e, a |-> q.term.a, v |-> q.term.v, tx |-> t]
    BY <1>0, AddedElim
  <2>2. PICK u \in r :
          Adds(u) /\ d = [e |-> u.term.e, a |-> u.term.a, v |-> u.term.v, tx |-> t]
    BY <1>0, AddedElim
  <2>3. SameEA(q.term, u.term) /\ q.term.a \in One
    BY <2>1, <2>2, <1>3 DEF SameEA
  <2>4. q.term.v = u.term.v
    BY <2>1, <2>2, <2>3, <1>2 DEF cardinality_conflicts, CardinalityOneAddConflict
  <2> QED BY <2>1, <2>2, <2>3, <2>4 DEF SameEA
<1>4. ASSUME NEW c \in rows \ ret, NEW d \in add, SameEA(c, d), c.a \in One
      PROVE  FALSE
  <2>1. PICK q \in r :
          Adds(q) /\ d = [e |-> q.term.e, a |-> q.term.a, v |-> q.term.v, tx |-> t]
    BY <1>0, AddedElim
  <2>2. SameEA(q.term, c) /\ q.term.a \in One
    BY <2>1, <1>4 DEF SameEA
  <2>3. Matches(q.term, c)
    BY <2>2 DEF Matches
  <2>4. q.old # NoRow /\ q.old \in rows /\ Matches(q.term, q.old)
    BY <2>3, <1>0, ResultElim
  <2>5. q.old = c
    BY <2>2, <2>4, <1>0 DEF OneValueEach, Matches, SameEA
  <2>6. Retracts(q)
    BY <2>1, <2>2, <2>4 DEF Adds, Retracts
  <2>7. c \in ret
    BY <2>5, <2>6 DEF RetractedRows
  <2> QED BY <2>7
<1> HIDE DEF rows, r, add, ret
<1>5. ASSUME NEW c \in (rows \ ret) \cup add, NEW d \in (rows \ ret) \cup add,
             SameEA(c, d), c.a \in One
      PROVE  c = d
  <2>1. SameEA(d, c) /\ d.a \in One
    BY <1>5 DEF SameEA
  <2>2. CASE c \in add /\ d \in add
    BY <2>2, <1>3, <1>5
  <2>3. CASE c \in rows \ ret /\ d \in add
    BY <2>3, <1>4, <1>5
  <2>4. CASE c \in add /\ d \in rows \ ret
    BY <2>4, <2>1, <1>4
  <2>5. CASE c \in rows /\ d \in rows
    BY <2>5, <1>0, <1>5 DEF OneValueEach
  <2> QED BY <2>2, <2>3, <2>4, <2>5
<1> QED BY <1>1, <1>5 DEF OneValueEach

(* The transactor's own check implies the unique index on inexact_searches *)
(* and, with a well-formed view, the one on search_results.                *)
LEMMA InexactUnique ==
    ASSUME NEW s \in SUBSET Term, ~cardinality_conflicts(s)
    PROVE  inexact_searches_unique(s)
<1> SUFFICES ASSUME NEW u \in s, NEW w \in s,
                    u.added, w.added, u.a \in One, SameEA(u, w)
             PROVE  u = w
  BY DEF inexact_searches_unique
<1>1. u.v = w.v
  BY DEF cardinality_conflicts, CardinalityOneAddConflict
<1> QED BY <1>1 DEF SameEA, Term

(* The unique index on search_results never fires.                         *)
LEMMA SearchUnique ==
    ASSUME NEW rows \in SUBSET Row, NEW s \in SUBSET Term,
           ~cardinality_conflicts(s), idx_causets(rows), OneValueEach(rows)
    PROVE  search_results_unique(search(rows, s))
<1> SUFFICES ASSUME NEW q \in search(rows, s), NEW u \in search(rows, s),
                    SameEAV(q.term, u.term)
             PROVE  q = u
  BY DEF search_results_unique
<1>1. q.term \in s /\ u.term \in s
  BY ResultElim
<1>2. q.term.added = u.term.added
  <2>1. SameEAV(u.term, q.term)
    BY DEF SameEAV, SameEA
  <2>2. q.term.added \in BOOLEAN /\ u.term.added \in BOOLEAN
    BY <1>1 DEF Term
  <2> QED BY <1>1, <2>1, <2>2 DEF cardinality_conflicts, AddRetractConflict
<1>3. q.term = u.term
  BY <1>1, <1>2 DEF SameEAV, SameEA, Term
<1>4. q.old = u.old
  <2>1. CASE q.old = NoRow \/ u.old = NoRow
    BY <2>1, <1>3, ResultElim
  <2>2. CASE q.old # NoRow /\ u.old # NoRow
    <3>1. /\ q.old \in rows /\ Matches(q.term, q.old)
          /\ u.old \in rows /\ Matches(q.term, u.old)
      BY <2>2, <1>3, ResultElim
    <3>2. CASE q.term.a \in One
      BY <3>1, <3>2 DEF OneValueEach, Matches, SameEA
    <3>3. CASE q.term.a \notin One
      BY <3>1, <3>3 DEF idx_causets, Matches, SameEAV, SameEA
    <3> QED BY <3>2, <3>3
  <2> QED BY <2>1, <2>2
<1> QED BY <1>3, <1>4 DEF search

(* read_partition_map finds the next transaction id again in a log that    *)
(* mentions the last one as an entity, which its txInstant does.           *)
LEMMA ReadBack ==
    ASSUME NEW entries \in SUBSET LogRow, NEW n \in Nat, Below(entries, n),
           Tx0 < n, \E l \in entries : l.e = n - 1
    PROVE  /\ read_partition_map(entries) \in PartitionMap
           /\ read_partition_map(entries).tx = n
<1> DEFINE used == { l.e : l \in transactions(entries) }
           users == { i \in used : User0 <= i /\ i < Tx0 }
           txs == { i \in used : Tx0 <= i }
<1> USE PartitionAssumption
<1>1. used \in SUBSET Nat
  BY DEF transactions, LogRow
<1>2. \A i \in used : i < n
  BY DEF transactions, Below
<1>3. n - 1 \in txs
  BY <1>1 DEF transactions, Below
<1>4. \A i \in txs : i <= n - 1
  <2> TAKE i \in txs
  <2>1. i \in used /\ i \in Nat
    BY <1>1
  <2>2. i < n
    BY <2>1, <1>2
  <2> QED BY <2>1, <2>2
<1>5. (CHOOSE m \in txs : \A i \in txs : i <= m) = n - 1
  <2> DEFINE P(m) == m \in txs /\ \A i \in txs : i <= m
  <2>0. n - 1 \in txs /\ \A i \in txs : i <= n - 1
    BY <1>3, <1>4
  <2>1. \A m \in txs : (\A i \in txs : i <= m) => m = n - 1
    <3> TAKE m \in txs
    <3> HAVE \A i \in txs : i <= m
    <3>1. n - 1 <= m /\ m <= n - 1 /\ m \in Nat
      BY <1>1, <1>3, <1>4
    <3> QED BY <3>1
  <2> HIDE DEF txs
  <2> QED BY <2>0, <2>1
<1>6. NextId(txs, Tx0) = n
  <2>1. txs # {}
    BY <1>3
  <2> HIDE DEF txs
  <2>2. NextId(txs, Tx0) = 1 + (n - 1)
    BY <2>1, <1>5 DEF NextId
  <2> QED BY <2>2
<1>7. NextId(users, User0) \in Nat
  <2>1. CASE users = {}
    BY <2>1 DEF NextId
  <2>2. CASE users # {}
    <3>1. users \in SUBSET Nat /\ \A i \in users : i <= Tx0
      BY <1>1
    <3> HIDE DEF users
    <3>2. \E m \in users : \A i \in users : i <= m
      BY <2>2, <3>1, MaxExists
    <3>3. (CHOOSE m \in users : \A i \in users : i <= m) \in users
      BY <3>2
    <3> DEFINE m == CHOOSE m \in users : \A i \in users : i <= m
    <3>4. NextId(users, User0) = 1 + m
      BY <2>2 DEF NextId
    <3>5. m \in Nat
      BY <3>1, <3>3
    <3> HIDE DEF m
    <3> QED BY <3>4, <3>5
  <2> QED BY <2>1, <2>2
<1>8. read_partition_map(entries) = [user |-> NextId(users, User0), tx |-> NextId(txs, Tx0)]
  BY DEF read_partition_map
<1> HIDE DEF users, txs
<1> QED BY <1>6, <1>7, <1>8 DEF PartitionMap

(* After insert_transaction every entry is below the next transaction id,  *)
(* and the entry for the txInstant keeps that id recoverable.              *)
LEMMA InsertBelow ==
    ASSUME NEW entries \in SUBSET LogRow, NEW s \in SUBSET Term, NEW t \in Nat,
           Below(entries, t), Accepted(s, t)
    PROVE  LET new == insert_transaction(entries, search(Live(entries), s), t)
           IN  /\ Below(new, t + 1)
               /\ \E l \in new : l.e = t
               /\ entries \subseteq new
               /\ \A l \in new \ entries : l.tx = t
<1> DEFINE rows == Live(entries)
           r == search(rows, s)
           add == AddedRows(r, t)
           ret == RetractedRows(r)
           new == insert_transaction(entries, r, t)
<1>0. rows \in SUBSET Row
  BY LiveType
<1>1. ASSUME NEW c \in add PROVE c.e \in Nat /\ c.e <= t
  <2>1. PICK q \in r :
          Adds(q) /\ c = [e |-> q.term.e, a |-> q.term.a, v |-> q.term.v, tx |-> t]
    BY <1>0, AddedElim
  <2>2. q.term \in s
    BY <1>0, ResultElim
  <2> QED BY <2>1, <2>2 DEF Accepted, Term
<1>2. ASSUME NEW c \in ret PROVE c.e \in Nat /\ c.e < t
  <2>1. c \in rows
    BY <1>0, RetractedWasLive
  <2>2. c.e < t
    BY <2>1, LiveBelow
  <2> QED BY <2>1, <2>2, <1>0 DEF Row
<1>3. PICK i \in Instants : TxInstantTerm(t, i) \in s
  BY DEF Accepted
<1>4. \E c \in add : c.e = t
  <2> DEFINE u == TxInstantTerm(t, i)
             q == [term |-> u, old |-> NoRow]
  <2>1. u.e = t /\ u.added
    BY DEF TxInstantTerm
  <2>2. \A d \in rows : ~Matches(u, d)
    <3> TAKE d \in rows
    <3>1. d.e < t /\ d.e \in Nat
      BY <1>0, LiveBelow DEF Row
    <3> QED BY <3>1, <2>1 DEF Matches, SameEA
  <2>3. q \in r /\ Adds(q)
    BY <1>3, <2>1, <2>2 DEF search, Adds
  <2>4. [e |-> q.term.e, a |-> q.term.a, v |-> q.term.v, tx |-> t] \in add
    BY <2>3 DEF AddedRows
  <2> QED BY <2>1, <2>4
<1>5. ASSUME NEW l \in new
      PROVE  \/ l \in entries
             \/ \E c \in add : l = LogEntry(c, t, TRUE)
             \/ \E c \in ret : l = LogEntry(c, t, FALSE)
  BY DEF insert_transaction
<1>6. entries \subseteq new /\ \A c \in add : LogEntry(c, t, TRUE) \in new
  BY DEF insert_transaction
<1> HIDE DEF rows, r, add, ret, new
<1>7. ASSUME NEW l \in new
      PROVE  l.morse = Main /\ l.tx < t + 1 /\ l.e < t + 1
  <2>1. CASE l \in entries
    BY <2>1 DEF Below, LogRow
  <2>2. ASSUME NEW c \in add, l = LogEntry(c, t, TRUE)
        PROVE  l.morse = Main /\ l.tx < t + 1 /\ l.e < t + 1
    BY <2>2, <1>1 DEF LogEntry
  <2>3. ASSUME NEW c \in ret, l = LogEntry(c, t, FALSE)
        PROVE  l.morse = Main /\ l.tx < t + 1 /\ l.e < t + 1
    BY <2>3, <1>2 DEF LogEntry
  <2> QED BY <2>1, <2>2, <2>3, <1>5
<1>8. \E l \in new : l.e = t
  <2>1. PICK c \in add : c.e = t
    BY <1>4
  <2> QED BY <2>1, <1>6 DEF LogEntry
<1>9. \A l \in new \ entries : l.tx = t
  BY <1>5 DEF LogEntry
<1>10. Below(new, t + 1)
  BY <1>7 DEF Below
<1> QED BY <1>6, <1>8, <1>9, <1>10 DEF new, r, rows

(* One accepted transaction takes a good store to a good store.            *)
LEMMA GoodApplied ==
    ASSUME NEW entries \in SUBSET LogRow, NEW s \in SUBSET Term, NEW t \in Nat,
           Tx0 <= t, Below(entries, t), Accepted(s, t),
           idx_causets(Live(entries)), OneValueEach(Live(entries)),
           idx_causets(Applied(entries, s, t))
    PROVE  Good(Applied(entries, s, t),
                insert_transaction(entries, search(Live(entries), s), t), t + 1)
<1> DEFINE new == insert_transaction(entries, search(Live(entries), s), t)
<1>1. Live(new) = Applied(entries, s, t)
  BY LiveApplied
<1>2. OneValueEach(Applied(entries, s, t))
  BY OneValueApplied DEF Accepted
<1>3. Below(new, t + 1) /\ \E l \in new : l.e = t
  BY InsertBelow
<1> HIDE DEF new
<1>4. Tx0 < t + 1 /\ (t + 1) - 1 = t
  BY PartitionAssumption
<1> QED BY <1>1, <1>2, <1>3, <1>4 DEF Good, new

(* Every set of terms a transaction can ask for is well typed and about    *)
(* causetids up to the transaction's own.                                  *)
LEMMA PoolType ==
    ASSUME NEW p \in PartitionMap, NEW t \in Nat, NEW sizes,
           NEW terms \in TermSets(TermPool(p, t), sizes)
    PROVE  terms \in SUBSET Term /\ \A u \in terms : u.e <= t
<1>1. ASSUME NEW u \in TermPool(p, t) PROVE u \in Term /\ u.e <= t
  BY <1>1, PartitionAssumption, TopographAssumption DEF TermPool, Term, Value
<1>2. ASSUME NEW u \in terms PROVE u \in TermPool(p, t)
  <2>1. PICK f \in UNION { [1 .. n -> TermPool(p, t)] : n \in sizes } :
          terms = { f[i] : i \in DOMAIN f }
    BY DEF TermSets
  <2>2. PICK n \in sizes : f \in [1 .. n -> TermPool(p, t)]
    BY <2>1
  <2> QED BY <1>2, <2>1, <2>2
<1> QED BY <1>1, <1>2

(* The txInstant assertion is a well-formed term.                          *)
LEMMA InstantType ==
    ASSUME NEW t \in Nat, NEW i \in Instants
    PROVE  TxInstantTerm(t, i) \in Term
BY TopographAssumption, BoundAssumption DEF TxInstantTerm, Term, Value

(* The bootstrap transaction leaves a good store.                          *)
LEMMA GoodBootstrap ==
    ASSUME NEW i \in Instants
    PROVE  LET r == search({}, { TxInstantTerm(Tx0, i) })
           IN  Good(update_causets_insert({}, r, Tx0), insert_transaction({}, r, Tx0), Tx0 + 1)
<1> DEFINE s == { TxInstantTerm(Tx0, i) }
           r == search({}, s)
<1> USE PartitionAssumption
<1>1. s \in SUBSET Term
  BY InstantType
<1>2. Live({}) = {}
  BY DEF Live, transactions
<1>3. Below({}, Tx0) /\ idx_causets({}) /\ OneValueEach({})
  BY DEF Below, idx_causets, OneValueEach
<1>4. Accepted(s, Tx0)
  <2>1. ~cardinality_conflicts(s)
    BY DEF cardinality_conflicts, CardinalityOneAddConflict, AddRetractConflict
  <2>2. \A u \in s : u.e <= Tx0
    BY DEF TxInstantTerm
  <2> QED BY <2>1, <2>2 DEF Accepted
<1>5. Applied({}, s, Tx0) = update_causets_insert({}, r, Tx0)
  BY <1>2 DEF Applied, update_causets_delete
<1>6. idx_causets(Applied({}, s, Tx0))
  <2>1. ASSUME NEW c \in AddedRows(r, Tx0), NEW d \in AddedRows(r, Tx0) PROVE c = d
    <3>1. PICK q \in r : c = [e |-> q.term.e, a |-> q.term.a, v |-> q.term.v, tx |-> Tx0]
      BY DEF AddedRows
    <3>2. PICK u \in r : d = [e |-> u.term.e, a |-> u.term.a, v |-> u.term.v, tx |-> Tx0]
      BY DEF AddedRows
    <3>3. q.term = TxInstantTerm(Tx0, i) /\ u.term = TxInstantTerm(Tx0, i)
      BY DEF search
    <3> QED BY <3>1, <3>2, <3>3
  <2> HIDE DEF r
  <2> QED BY <2>1, <1>5 DEF idx_causets, update_causets_insert
<1> HIDE DEF s
<1>7. Good(Applied({}, s, Tx0), insert_transaction({}, search(Live({}), s), Tx0), Tx0 + 1)
  BY <1>1, <1>2, <1>3, <1>4, <1>6, GoodApplied
<1> QED BY <1>2, <1>5, <1>7 DEF s

-----------------------------------------------------------------------------
(* The inductive invariant, action by action. *)

(* The parts of a good store that are used most.                           *)
LEMMA GoodBelow ==
    ASSUME NEW rows, NEW entries, NEW n, Good(rows, entries, n)
    PROVE  Below(entries, n) /\ OneValueEach(rows)
BY DEF Good

(* The store starts in the inductive invariant.                            *)
LEMMA InitInd == Init => Ind
<1> SUFFICES ASSUME Init PROVE Ind
  OBVIOUS
<1> USE PartitionAssumption DEF Init
<1>1. TypeOK
  BY DEF TypeOK, Database, Version, PartitionMap, bootstrap_partition_map, Stages, Errors
<1>2. CommittedInv
  BY DEF CommittedInv
<1>3. WorkingInv
  BY DEF WorkingInv, OneValueEach, NoOpaqueFailure
<1>4. HistoryInv
  BY DEF HistoryInv, Below
<1> QED BY <1>1, <1>2, <1>3, <1>4 DEF Ind

(* Loading a good store.                                                   *)
LEMMA LoadInd ==
    ASSUME NEW rows \in SUBSET Row, NEW entries \in SUBSET LogRow, NEW p \in PartitionMap,
           Good(rows, entries, p.tx), Load(1, rows, entries, p)
    PROVE  Ind'
<1> USE DEF Load
<1>0. p.tx \in Nat
  BY DEF PartitionMap
<1>1. TypeOK'
  BY DEF TypeOK, Database, Version, Stages, Errors
<1>2. CommittedInv'
  <2>1. db'.version = 1 /\ db'.causets = rows /\ db'.log = entries /\ spacetime' = p
    OBVIOUS
  <2> QED BY <1>0, <2>1 DEF CommittedInv
<1>3. WorkingInv'
  BY GoodBelow DEF WorkingInv, NoOpaqueFailure
<1>4. HistoryInv'
  BY <1>0, GoodBelow DEF HistoryInv
<1> QED BY <1>1, <1>2, <1>3, <1>4 DEF Ind

(* ensure_current_version, creating or reading the store.                  *)
LEMMA OpenInd == Ind /\ ensure_current_version => Ind'
<1> SUFFICES ASSUME Ind, ensure_current_version PROVE Ind'
  OBVIOUS
<1> USE PartitionAssumption
<1>1. ASSUME db.version = 0, NEW i \in Instants, create_current_version(i) PROVE Ind'
  <2> DEFINE s == { TxInstantTerm(Tx0, i) }
             r == search({}, s)
             p == allocate_causetids(bootstrap_partition_map, 0)
  <2>1. p \in PartitionMap /\ p.tx = Tx0 + 1
    BY DEF allocate_causetids, bootstrap_partition_map, PartitionMap
  <2>2. r \in SUBSET ResultRow
    BY InstantType, SearchType
  <2>3. update_causets_insert({}, r, Tx0) \in SUBSET Row
    BY <2>2, AddedType DEF update_causets_insert
  <2>4. insert_transaction({}, r, Tx0) \in SUBSET LogRow
    BY <2>2, InsertType
  <2>5. Good(update_causets_insert({}, r, Tx0), insert_transaction({}, r, Tx0), p.tx)
    BY <2>1, GoodBootstrap
  <2>6. Load(1, update_causets_insert({}, r, Tx0), insert_transaction({}, r, Tx0), p)
    BY <1>1 DEF create_current_version, CURRENT_VERSION
  <2> HIDE DEF r, p
  <2> QED BY <2>1, <2>3, <2>4, <2>5, <2>6, LoadInd
<1>2. ASSUME db.version = CURRENT_VERSION, read_einsteindb PROVE Ind'
  <2> DEFINE p == read_partition_map(db.log)
  <2>1. db.causets \in SUBSET Row /\ db.log \in SUBSET LogRow
    BY DEF Ind, TypeOK, Database
  <2>2. PICK n \in Nat : Good(db.causets, db.log, n)
    BY <1>2 DEF Ind, CommittedInv, CURRENT_VERSION
  <2>3. p \in PartitionMap /\ p.tx = n
    BY <2>1, <2>2, ReadBack DEF Good
  <2>4. Load(1, db.causets, db.log, p)
    BY <1>2 DEF read_einsteindb, CURRENT_VERSION
  <2> HIDE DEF p
  <2> QED BY <2>1, <2>2, <2>3, <2>4, LoadInd
<1> QED BY <1>1, <1>2 DEF ensure_current_version

(* begin_transaction.                                                      *)
LEMMA BeginInd == Ind /\ begin_transaction => Ind'
<1> SUFFICES ASSUME Ind, begin_transaction PROVE Ind'
  OBVIOUS
<1> USE DEF begin_transaction
<1>1. TypeOK'
  BY DEF Ind, TypeOK, Stages
<1>2. CommittedInv'
  BY DEF Ind, CommittedInv
<1>3. WorkingInv'
  BY DEF Ind, WorkingInv, NoOpaqueFailure
<1>4. HistoryInv'
  BY DEF Ind, HistoryInv
<1> QED BY <1>1, <1>2, <1>3, <1>4 DEF Ind

(* begin_tx_application, accepted or refused.                              *)
LEMMA ApplicationInd == Ind /\ begin_tx_application => Ind'
<1> SUFFICES ASSUME Ind, begin_tx_application PROVE Ind'
  OBVIOUS
<1>1. /\ stage = "open" /\ TypeOK /\ Good(causets, log, part.tx)
      /\ part.tx \in Nat /\ part.user \in Nat
  BY DEF begin_tx_application, Ind, WorkingInv, TypeOK, PartitionMap
<1>2. UNCHANGED <<db, spacetime, causets, log>> /\ tx' = part.tx /\ results' = {}
  BY DEF begin_tx_application
<1>3. PICK n \in 0 .. MaxNew, i \in Instants :
        /\ part' = allocate_causetids(part, n)
        /\ \E terms \in TermSets(TermPool(allocate_causetids(part, n), part.tx), Sizes) :
             LET s == terms \cup { TxInstantTerm(part.tx, i) }
             IN  /\ searches' = s
                 /\ error' = IF cardinality_conflicts(s) THEN "cardinality_conflicts"
                             ELSE IF ~inexact_searches_unique(s) THEN "inexact_searches_unique"
                             ELSE "none"
  BY DEF begin_tx_application
<1>4. part' \in PartitionMap /\ part'.tx = part.tx + 1
  BY <1>1, <1>3, BoundAssumption DEF allocate_causetids, PartitionMap
<1>5. PICK terms \in TermSets(TermPool(part', part.tx), Sizes) :
        LET s == terms \cup { TxInstantTerm(part.tx, i) }
        IN  /\ searches' = s
            /\ error' = IF cardinality_conflicts(s) THEN "cardinality_conflicts"
                        ELSE IF ~inexact_searches_unique(s) THEN "inexact_searches_unique"
                        ELSE "none"
  BY <1>3
<1>6. /\ searches' \in SUBSET Term
      /\ \A u \in searches' : u.e <= part.tx
      /\ TxInstantTerm(part.tx, i) \in searches'
  <2>1. terms \in SUBSET Term /\ \A u \in terms : u.e <= part.tx
    BY <1>1, <1>4, PoolType
  <2>2. TxInstantTerm(part.tx, i) \in Term /\ TxInstantTerm(part.tx, i).e <= part.tx
    BY <1>1, InstantType DEF TxInstantTerm
  <2> QED BY <2>1, <2>2, <1>5
<1>7. \/ error' = "cardinality_conflicts"
      \/ error' = "none" /\ ~cardinality_conflicts(searches')
  BY <1>5, <1>6, InexactUnique
<1>8. stage' = IF error' = "none" THEN "begun" ELSE "failed"
  BY DEF begin_tx_application
<1>9. TypeOK'
  BY <1>1, <1>2, <1>4, <1>6, <1>7, <1>8 DEF TypeOK, Stages, Errors
<1>10. CommittedInv'
  BY <1>1, <1>2, <1>8 DEF Ind, CommittedInv
<1>11. WorkingInv'
  <2>1. OneValueEach(causets)' /\ NoOpaqueFailure'
    BY <1>1, <1>2, <1>7 DEF Good, OneValueEach, NoOpaqueFailure
  <2>2. CASE error' = "none"
    <3>1. Accepted(searches', tx')
      BY <1>2, <1>6, <1>7, <2>2 DEF Accepted
    <3> QED BY <1>1, <1>2, <1>4, <1>8, <2>1, <2>2, <3>1 DEF WorkingInv, Good
  <2>3. CASE error' # "none"
    BY <1>8, <2>1, <2>3 DEF WorkingInv
  <2> QED BY <2>2, <2>3
<1>12. HistoryInv'
  <2>1. spacetime.tx \in Nat
    BY <1>1 DEF TypeOK, PartitionMap
  <2>2. Below(log, part.tx + 1)
    BY <1>1 DEF Good, Below, TypeOK, LogRow
  <2> QED BY <1>1, <1>2, <1>4, <1>8, <2>1, <2>2 DEF Ind, HistoryInv
<1> QED BY <1>9, <1>10, <1>11, <1>12 DEF Ind

(* do_search; its failing branch cannot be taken.                          *)
LEMMA SearchInd == Ind /\ do_search => Ind'
<1> SUFFICES ASSUME Ind, do_search PROVE Ind'
  OBVIOUS
<1>1. /\ stage = "begun" /\ TypeOK
      /\ ~cardinality_conflicts(searches)
      /\ causets = Live(log) /\ idx_causets(causets) /\ OneValueEach(causets)
  BY DEF do_search, Ind, WorkingInv, Accepted
<1>2. UNCHANGED <<db, spacetime, causets, log, part, tx, searches>>
  BY DEF do_search
<1>3. search_results_unique(search(causets, searches))
  BY <1>1, SearchUnique DEF TypeOK
<1>4. results' = search(causets, searches) /\ stage' = "searched" /\ error' = "none"
  BY <1>3 DEF do_search
<1>5. results' \in SUBSET ResultRow
  BY <1>1, <1>4, SearchType DEF TypeOK
<1>6. TypeOK'
  BY <1>1, <1>2, <1>4, <1>5 DEF TypeOK, Stages, Errors, ResultRow
<1>7. CommittedInv'
  BY <1>1, <1>2, <1>4 DEF Ind, CommittedInv
<1>8. WorkingInv'
  BY <1>1, <1>2, <1>4 DEF Ind, WorkingInv, NoOpaqueFailure
<1>9. HistoryInv'
  BY <1>1, <1>2, <1>4 DEF Ind, HistoryInv
<1> QED BY <1>6, <1>7, <1>8, <1>9 DEF Ind

(* update_causets, whether or not the insertion succeeds.                  *)
LEMMA UpdateInd == Ind /\ update_causets => Ind'
<1> SUFFICES ASSUME Ind, update_causets PROVE Ind'
  OBVIOUS
<1> DEFINE deleted == update_causets_delete(causets, results)
           inserted == update_causets_insert(deleted, results, tx)
<1>1. /\ stage = "searched" /\ TypeOK
      /\ ~cardinality_conflicts(searches)
      /\ causets = Live(log) /\ OneValueEach(causets)
      /\ results = search(causets, searches)
  BY DEF update_causets, Ind, WorkingInv, Accepted
<1>2. UNCHANGED <<db, spacetime, log, part, tx, searches, results>>
  BY DEF update_causets
<1>3. inserted = Applied(log, searches, tx)
  BY <1>1 DEF Applied
<1>4. deleted \in SUBSET Row /\ inserted \in SUBSET Row
  <2>1. results \in SUBSET ResultRow /\ causets \in SUBSET Row /\ tx \in Nat
    BY <1>1 DEF TypeOK, ResultRow
  <2> QED BY <2>1, AddedType DEF update_causets_delete, update_causets_insert
<1>5. OneValueEach(deleted) /\ OneValueEach(inserted)
  <2>1. OneValueEach(deleted)
    BY <1>1 DEF update_causets_delete, OneValueEach
  <2>2. OneValueEach(Applied(log, searches, tx))
    BY <1>1, OneValueApplied DEF TypeOK
  <2> QED BY <2>1, <2>2, <1>3
<1>6. \/ /\ idx_causets(inserted)
         /\ causets' = inserted /\ stage' = "materialized" /\ error' = "none"
      \/ causets' = deleted /\ stage' = "failed" /\ error' = "causetsUpdateFailedToAdd"
  BY DEF update_causets
<1> HIDE DEF deleted, inserted
<1>7. TypeOK'
  BY <1>1, <1>2, <1>4, <1>6 DEF TypeOK, Stages, Errors
<1>8. CommittedInv'
  BY <1>1, <1>2, <1>6 DEF Ind, CommittedInv
<1>9. WorkingInv'
  BY <1>1, <1>2, <1>3, <1>5, <1>6 DEF Ind, WorkingInv, NoOpaqueFailure
<1>10. HistoryInv'
  BY <1>1, <1>2, <1>6 DEF Ind, HistoryInv
<1> QED BY <1>7, <1>8, <1>9, <1>10 DEF Ind

(* commit_EinsteinDB_transaction.                                          *)
LEMMA InsertInd == Ind /\ commit_EinsteinDB_transaction => Ind'
<1> SUFFICES ASSUME Ind, commit_EinsteinDB_transaction PROVE Ind'
  OBVIOUS
<1>1. /\ stage = "materialized" /\ TypeOK /\ NoOpaqueFailure
      /\ part.tx = tx + 1 /\ Tx0 < tx
      /\ Accepted(searches, tx) /\ Below(log, tx)
      /\ idx_causets(Live(log)) /\ OneValueEach(Live(log))
      /\ results = search(Live(log), searches)
      /\ idx_causets(causets) /\ causets = Applied(log, searches, tx)
  BY DEF commit_EinsteinDB_transaction, Ind, WorkingInv
<1>2. /\ log' = insert_transaction(log, results, tx) /\ stage' = "open"
      /\ UNCHANGED <<db, spacetime, causets, part, tx, searches, results, error>>
  BY DEF commit_EinsteinDB_transaction
<1>3. log \in SUBSET LogRow /\ searches \in SUBSET Term /\ tx \in Nat /\ Tx0 <= tx
  BY <1>1, PartitionAssumption DEF TypeOK
<1>4. Good(causets, log', part.tx)
  BY <1>1, <1>2, <1>3, GoodApplied
<1>5. log \subseteq log' /\ \A l \in log' \ log : l.tx = tx
  BY <1>1, <1>2, <1>3, InsertBelow
<1>6. TypeOK'
  <2>1. log' \in SUBSET LogRow
    BY <1>1, <1>2, InsertType DEF TypeOK, ResultRow
  <2> QED BY <1>1, <1>2, <2>1 DEF TypeOK, Stages
<1>7. CommittedInv'
  BY <1>1, <1>2 DEF Ind, CommittedInv
<1>8. WorkingInv'
  BY <1>1, <1>2, <1>4 DEF WorkingInv, NoOpaqueFailure, Good
<1>9. HistoryInv'
  <2>1. \A l \in log' \ db.log : spacetime.tx <= l.tx
    BY <1>1, <1>5 DEF Ind, HistoryInv
  <2> QED BY <1>1, <1>2, <1>4, <1>5, <2>1 DEF Ind, HistoryInv, Good
<1> QED BY <1>6, <1>7, <1>8, <1>9 DEF Ind

(* COMMIT.                                                                 *)
LEMMA CommitInd == Ind /\ commit => Ind'
<1> SUFFICES ASSUME Ind, commit PROVE Ind'
  OBVIOUS
<1>1. stage = "open" /\ TypeOK /\ Good(causets, log, part.tx) /\ part.tx \in Nat
  BY DEF commit, Ind, WorkingInv, TypeOK, PartitionMap
<1>2. /\ db' = [db EXCEPT !.causets = causets, !.log = log]
      /\ spacetime' = part /\ stage' = "idle"
      /\ UNCHANGED <<causets, log, part, tx, searches, results, error>>
  BY DEF commit
<1>3. db'.version = 1 /\ db'.causets = causets /\ db'.log = log
  <2>1. db.version = 1
    BY <1>1 DEF Ind, CommittedInv, TypeOK, Database, Version
  <2> QED BY <1>1, <1>2, <2>1 DEF TypeOK, Database
<1>4. TypeOK'
  BY <1>1, <1>2 DEF TypeOK, Database, Stages
<1>5. CommittedInv'
  BY <1>1, <1>2, <1>3 DEF CommittedInv
<1>6. WorkingInv'
  BY <1>1, <1>2 DEF Ind, WorkingInv, NoOpaqueFailure
<1>7. HistoryInv'
  BY <1>1, <1>2, <1>3 DEF Ind, HistoryInv
<1> QED BY <1>4, <1>5, <1>6, <1>7 DEF Ind

(* ROLLBACK.                                                               *)
LEMMA RollbackInd == Ind /\ rollback => Ind'
<1> SUFFICES ASSUME Ind, rollback PROVE Ind'
  OBVIOUS
<1> USE DEF rollback
<1>1. TypeOK /\ stage # "closed"
  BY DEF Ind
<1>2. Good(db.causets, db.log, spacetime.tx)
  BY <1>1 DEF Ind, CommittedInv, TypeOK, Database, Version
<1>3. spacetime.tx \in Nat
  BY <1>1 DEF TypeOK, PartitionMap
<1>4. TypeOK'
  BY <1>1 DEF TypeOK, Database, Stages, Errors
<1>5. CommittedInv'
  BY <1>1 DEF Ind, CommittedInv
<1>6. WorkingInv'
  BY <1>2 DEF WorkingInv, NoOpaqueFailure, Good
<1>7. HistoryInv'
  BY <1>2, <1>3 DEF HistoryInv, Good
<1> QED BY <1>4, <1>5, <1>6, <1>7 DEF Ind

(* A crash.                                                                *)
LEMMA CrashInd == Ind /\ crash => Ind'
<1> SUFFICES ASSUME Ind, crash PROVE Ind'
  OBVIOUS
<1> USE DEF crash
<1>1. TypeOK'
  BY PartitionAssumption
     DEF Ind, TypeOK, Stages, Errors, bootstrap_partition_map, PartitionMap
<1>2. CommittedInv'
  BY DEF Ind, CommittedInv
<1>3. WorkingInv'
  BY DEF WorkingInv, NoOpaqueFailure, OneValueEach
<1>4. HistoryInv'
  BY DEF HistoryInv, Below
<1> QED BY <1>1, <1>2, <1>3, <1>4 DEF Ind

(* A step of the rest of the world.                                        *)
LEMMA StutterInd == Ind /\ UNCHANGED vars => Ind'
<1> SUFFICES ASSUME Ind, UNCHANGED vars PROVE Ind'
  OBVIOUS
<1> USE DEF vars
<1>1. TypeOK'
  BY DEF Ind, TypeOK
<1>2. CommittedInv'
  BY DEF Ind, CommittedInv
<1>3. WorkingInv'
  BY DEF Ind, WorkingInv, NoOpaqueFailure
<1>4. HistoryInv'
  BY DEF Ind, HistoryInv
<1> QED BY <1>1, <1>2, <1>3, <1>4 DEF Ind

(* The inductive invariant is inductive.                                   *)
LEMMA NextInd == Ind /\ [Next]_vars => Ind'
BY OpenInd, BeginInd, ApplicationInd, SearchInd, UpdateInd, InsertInd,
   CommitInd, RollbackInd, CrashInd, StutterInd
   DEF Next

-----------------------------------------------------------------------------
(* The inductive invariant is an invariant of the store.                   *)
THEOREM Inductive == Spec => []Ind
<1>1. Init => Ind
  BY InitInd
<1>2. Ind /\ [Next]_vars => Ind'
  BY NextInd
<1> QED BY <1>1, <1>2, PTL DEF Spec

(* Every table, search result and partition map of the storage layer keeps *)
(* its type; in particular read_partition_map always finds a next id.      *)
THEOREM TypeCorrect == Spec => []TypeOK
<1>1. Ind => TypeOK
  BY DEF Ind
<1> QED BY <1>1, Inductive, PTL

(* The table `causets` is the view of the log that update_causets and      *)
(* insert_transaction are meant to keep, in memory and on disk.            *)
THEOREM ViewIsMaterialized == Spec => []ViewMatchesLog
<1>1. Ind => ViewMatchesLog
  <2> SUFFICES ASSUME Ind PROVE ViewMatchesLog
    OBVIOUS
  <2>1. stage \in {"idle", "open"} => causets = Live(log)
    BY DEF Ind, WorkingInv, Good
  <2>2. CASE db.version = 0
    <3>1. Live({}) = {}
      BY DEF Live, transactions
    <3> QED BY <2>1, <2>2, <3>1 DEF Ind, CommittedInv, ViewMatchesLog
  <2>3. CASE db.version = 1
    BY <2>1, <2>3 DEF Ind, CommittedInv, ViewMatchesLog, Good
  <2> QED BY <2>2, <2>3 DEF Ind, TypeOK, Database, Version
<1> QED BY <1>1, Inductive, PTL

(* The inexact search keeps cardinality one, which no index enforces.      *)
THEOREM OneValue == Spec => []CardinalityOne
<1>1. Ind => CardinalityOne
  BY DEF Ind, WorkingInv, OneValueEach, CardinalityOne
<1> QED BY <1>1, Inductive, PTL

(* The transactor's checks make the two temporary unique indices of        *)
(* begin_tx_application and search redundant.                              *)
THEOREM ChecksSuffice == Spec => []NoOpaqueFailure
<1>1. Ind => NoOpaqueFailure
  BY DEF Ind, WorkingInv
<1> QED BY <1>1, Inductive, PTL

(* A transaction id is never handed out again, also after a reopen: the    *)
(* txInstant of the last transaction keeps max(e) in step with max(tx).    *)
THEOREM FreshTxIds == Spec => []TxIdsFresh
<1>1. Ind => TxIdsFresh
  <2> SUFFICES ASSUME Ind PROVE TxIdsFresh
    OBVIOUS
  <2>1. \A l \in log : l.tx < part.tx
    BY DEF Ind, HistoryInv, Below
  <2>2. \A l \in db.log : l.tx < read_partition_map(db.log).tx
    <3>1. CASE db.version = 0
      BY <3>1 DEF Ind, CommittedInv
    <3>2. CASE db.version = 1
      <4>1. PICK n \in Nat : Good(db.causets, db.log, n)
        BY <3>2 DEF Ind, CommittedInv
      <4>2. db.log \in SUBSET LogRow
        BY DEF Ind, TypeOK, Database
      <4>3. read_partition_map(db.log).tx = n
        BY <4>1, <4>2, ReadBack DEF Good
      <4> QED BY <4>1, <4>3 DEF Good, Below
    <3> QED BY <3>1, <3>2 DEF Ind, TypeOK, Database, Version
  <2> QED BY <2>1, <2>2 DEF TxIdsFresh
<1> QED BY <1>1, Inductive, PTL

(* No step rewrites committed history or adds to a committed transaction.  *)
THEOREM HistoryIsImmutable == Spec => HistoryImmutable
<1> DEFINE Append == /\ db.log \subseteq db'.log
                     /\ \A l \in db'.log \ db.log : \A m \in db.log : m.tx < l.tx
<1>1. Ind /\ [Next]_vars => [Append]_vars
  <2> SUFFICES ASSUME Ind, Next PROVE Append
    OBVIOUS
  <2>1. CASE ensure_current_version
    <3>1. CASE db.version = 0
      BY <3>1 DEF Ind, CommittedInv
    <3>2. CASE db.version = CURRENT_VERSION
      BY <2>1, <3>2 DEF ensure_current_version, read_einsteindb, Load, CURRENT_VERSION
    <3> QED BY <2>1, <3>1, <3>2 DEF ensure_current_version
  <2>2. CASE commit
    <3>1. stage = "open" /\ db'.log = log
      BY <2>2 DEF commit, Ind, TypeOK, Database
    <3>2. /\ db.log \subseteq log
          /\ \A l \in log \ db.log : spacetime.tx <= l.tx
      BY <3>1 DEF Ind, HistoryInv
    <3>3. \A m \in db.log : m.tx < spacetime.tx
      BY <3>1 DEF Ind, CommittedInv, TypeOK, Database, Version, Good, Below
    <3>4. /\ \A l \in log : l.tx \in Nat
          /\ spacetime.tx \in Nat
      BY DEF Ind, TypeOK, LogRow, PartitionMap
    <3> QED BY <3>1, <3>2, <3>3, <3>4
  <2>3. CASE UNCHANGED db
    BY <2>3
  <2> QED BY <2>1, <2>2, <2>3 DEF Next, begin_transaction, begin_tx_application,
             do_search, update_causets, commit_EinsteinDB_transaction, rollback, crash
<1> QED BY <1>1, Inductive, PTL DEF Spec, HistoryImmutable

-----------------------------------------------------------------------------
(* CausetStore implements CausetHistory: its first state is a first state  *)
(* of the history, and every step of the storage layer is a step of the    *)
(* history or leaves it alone.  The step that matters is                   *)
(* commit_EinsteinDB_transaction; what it appends is Effective because the *)
(* search results it is computed from were read from the view of the log.  *)

(* The operators the instance brings along are those of Causets.           *)
LEMMA SameLive == \A entries : History!Live(entries) = Live(entries)
BY DEF History!Live, Live, History!transactions, transactions, History!Main, Main,
       History!SameEAV, SameEAV, History!SameEA, SameEA

(* The same for the unique indices.                                        *)
LEMMA SameIdx == \A rows : History!idx_causets(rows) <=> idx_causets(rows)
BY DEF History!idx_causets, idx_causets, History!SameEAV, SameEAV, History!SameEA, SameEA

(* A causet holds after some entries if it has a row in their view.        *)
LEMMA HoldsIff ==
    ASSUME NEW entries \in SUBSET LogRow, NEW l \in LogRow
    PROVE  History!Causet(l) \in History!Holds(entries)
             <=> \E d \in Live(entries) : SameEAV(l, d)
<1>1. ASSUME NEW d \in Live(entries)
      PROVE  [e |-> d.e, a |-> d.a, v |-> d.v] = [e |-> l.e, a |-> l.a, v |-> l.v]
               <=> SameEAV(l, d)
  BY DEF SameEAV, SameEA
<1> QED BY <1>1, SameLive DEF History!Causet, History!Holds

(* The entries insert_transaction appends form one transaction that        *)
(* asserts what did not hold and retracts what did.                        *)
LEMMA InsertEffective ==
    ASSUME NEW entries \in SUBSET LogRow, NEW s \in SUBSET Term, NEW t \in Nat,
           Tx0 <= t, Below(entries, t), Accepted(s, t),
           idx_causets(Live(entries)), OneValueEach(Live(entries)),
           idx_causets(Applied(entries, s, t)),
           NEW new, new = insert_transaction(entries, search(Live(entries), s), t)
    PROVE  entries \subseteq new /\ History!Effective(entries, new \ entries)
<1> DEFINE rows == Live(entries)
           r == search(rows, s)
           batch == new \ entries
<1>1. rows \in SUBSET Row /\ r \in SUBSET ResultRow
  BY LiveType, SearchType
<1>2. entries \subseteq new /\ (\A l \in batch : l.tx = t) /\ \E l \in new : l.e = t
  BY InsertBelow
<1>3. new \in SUBSET LogRow
  BY <1>1, InsertType
<1>4. \E u \in { l.tx : l \in batch } :
        /\ \A l \in batch : l.tx = u /\ l.morse = Main
        /\ \A l \in entries : l.tx < u
  <2>1. PICK l \in new : l.e = t
    BY <1>2
  <2>2. l \in batch
    BY <2>1 DEF Below
  <2>3. \A k \in batch : k.morse = Main
    BY DEF insert_transaction, LogEntry
  <2>4. t \in { k.tx : k \in batch }
    BY <1>2, <2>2
  <2> QED BY <1>2, <2>3, <2>4 DEF Below
<1>5. ASSUME NEW l \in batch
      PROVE  l.added <=> History!Causet(l) \notin History!Holds(entries)
  <2>1. \/ \E d \in AddedRows(r, t) : l = LogEntry(d, t, TRUE)
        \/ \E d \in RetractedRows(r) : l = LogEntry(d, t, FALSE)
    BY DEF insert_transaction
  <2>2. ASSUME NEW d \in AddedRows(r, t), l = LogEntry(d, t, TRUE)
        PROVE  l.added /\ \A c \in rows : ~SameEAV(l, c)
    <3>1. \A c \in rows : ~SameEAV(d, c)
      BY <1>1, AddedWasAbsent
    <3> QED BY <2>2, <3>1 DEF LogEntry, SameEAV, SameEA
  <2>3. ASSUME NEW d \in RetractedRows(r), l = LogEntry(d, t, FALSE)
        PROVE  ~l.added /\ \E c \in rows : SameEAV(l, c)
    <3>1. d \in rows
      BY <1>1, RetractedWasLive
    <3> QED BY <2>3, <3>1 DEF LogEntry, SameEAV, SameEA
  <2>4. l \in LogRow
    BY <1>3
  <2> HIDE DEF rows, r, batch
  <2> QED BY <2>1, <2>2, <2>3, <2>4, HoldsIff DEF rows
<1>6. entries \cup batch = new
  BY <1>2
<1>7. Live(new) = Applied(entries, s, t)
  BY LiveApplied
<1>8. OneValueEach(Live(new)) /\ idx_causets(Live(new))
  BY <1>7, OneValueApplied DEF Accepted
<1> HIDE DEF batch
<1>9. History!Effective(entries, batch)
  BY <1>4, <1>5, <1>6, <1>8, SameLive, SameIdx
     DEF History!Effective, OneValueEach, History!SameEA, SameEA, History!Main, Main
<1> QED BY <1>2, <1>9 DEF batch

(* Opening the store: the bootstrap transaction is effective, and what is  *)
(* read back is what was committed.                                        *)
LEMMA OpenRefines == Ind /\ ensure_current_version => History!Open
<1> SUFFICES ASSUME Ind, ensure_current_version PROVE History!Open
  OBVIOUS
<1>1. \E rows, entries, p : Load(1, rows, entries, p)
  BY DEF ensure_current_version, create_current_version, read_einsteindb, CURRENT_VERSION
<1>2. /\ stage = "closed" /\ stage' = "idle"
      /\ log' = db'.log /\ db'.version = 1
  BY <1>1 DEF ensure_current_version, Load
<1>3. db'.causets = Live(db'.log)
  <2>1. Ind'
    BY OpenInd
  <2> QED BY <1>2, <2>1 DEF Ind, CommittedInv, Good
<1>4. \/ db.log = {} /\ History!Effective({}, db'.log)
      \/ db.log # {} /\ db'.log = db.log
  <2>1. ASSUME db.version = 0, NEW i \in Instants, create_current_version(i)
        PROVE  db.log = {} /\ History!Effective({}, db'.log)
    <3> DEFINE s == { TxInstantTerm(Tx0, i) }
               r == search({}, s)
    <3>1. db.log = {}
      BY <2>1 DEF Ind, CommittedInv
    <3>2. /\ db'.log = insert_transaction({}, r, Tx0)
          /\ Good(update_causets_insert({}, r, Tx0), insert_transaction({}, r, Tx0), Tx0 + 1)
      BY <2>1, GoodBootstrap DEF create_current_version, Load
    <3>3. Live({}) = {}
      BY DEF Live, transactions
    <3>4. Applied({}, s, Tx0) = update_causets_insert({}, r, Tx0)
      BY <3>3 DEF Applied, update_causets_delete
    <3>5. idx_causets(Applied({}, s, Tx0))
      BY <3>2, <3>4 DEF Good
    <3>6. s \in SUBSET Term /\ Tx0 \in Nat
      BY InstantType, PartitionAssumption
    <3>7. Accepted(s, Tx0)
      <4>1. ~cardinality_conflicts(s)
        BY DEF cardinality_conflicts, CardinalityOneAddConflict, AddRetractConflict
      <4>2. \A u \in s : u.e <= Tx0
        BY PartitionAssumption DEF TxInstantTerm
      <4> QED BY <4>1, <4>2 DEF Accepted
    <3>8. Below({}, Tx0) /\ idx_causets({}) /\ OneValueEach({})
      BY DEF Below, idx_causets, OneValueEach
    <3>9. db'.log = insert_transaction({}, search(Live({}), s), Tx0)
      BY <3>2, <3>3
    <3> HIDE DEF s, r
    <3>10. History!Effective({}, db'.log \ {})
      BY <3>3, <3>5, <3>6, <3>7, <3>8, <3>9, InsertEffective
    <3>11. db'.log \ {} = db'.log
      OBVIOUS
    <3> QED BY <3>1, <3>10, <3>11
  <2>2. ASSUME db.version = CURRENT_VERSION, read_einsteindb
        PROVE  db.log # {} /\ db'.log = db.log
    BY <2>2 DEF read_einsteindb, Load, Ind, CommittedInv, Good, CURRENT_VERSION
  <2> QED BY <2>1, <2>2 DEF ensure_current_version
<1> QED BY <1>2, <1>3, <1>4, SameLive DEF History!Open

(* One EinsteinDB transaction is one transaction of the history.           *)
LEMMA TransactRefines == Ind /\ commit_EinsteinDB_transaction => History!Transact
<1> SUFFICES ASSUME Ind, commit_EinsteinDB_transaction PROVE History!Transact
  OBVIOUS
<1>1. /\ stage = "materialized" /\ TypeOK /\ Tx0 < tx
      /\ Accepted(searches, tx) /\ Below(log, tx)
      /\ idx_causets(Live(log)) /\ OneValueEach(Live(log))
      /\ results = search(Live(log), searches)
      /\ idx_causets(causets) /\ causets = Applied(log, searches, tx)
  BY DEF commit_EinsteinDB_transaction, Ind, WorkingInv
<1>2. log' = insert_transaction(log, results, tx) /\ stage' = "open" /\ UNCHANGED db
  BY DEF commit_EinsteinDB_transaction
<1>3. log \in SUBSET LogRow /\ searches \in SUBSET Term /\ tx \in Nat /\ Tx0 <= tx
  BY <1>1, PartitionAssumption DEF TypeOK
<1>4. log \subseteq log' /\ History!Effective(log, log' \ log)
  BY <1>1, <1>2, <1>3, InsertEffective
<1> QED BY <1>1, <1>2, <1>4 DEF History!Transact

(* COMMIT publishes the pending history and the causets that follow.       *)
LEMMA CommitRefines == Ind /\ commit => History!Commit
<1> SUFFICES ASSUME Ind, commit PROVE History!Commit
  OBVIOUS
<1>1. stage = "open" /\ stage' = "idle" /\ UNCHANGED log /\ causets = Live(log)
  BY DEF commit, Ind, WorkingInv, Good
<1>2. db'.causets = causets /\ db'.log = log
  BY DEF commit, Ind, TypeOK, Database
<1> QED BY <1>1, <1>2, SameLive DEF History!Commit

(* Every step of the storage layer is a step of the history or invisible.  *)
LEMMA StepRefines == Ind /\ [Next]_vars => [History!Next]_(History!vars)
<1> SUFFICES ASSUME Ind, [Next]_vars PROVE [History!Next]_(History!vars)
  OBVIOUS
<1> USE DEF History!Next, History!vars
<1>1. CASE ensure_current_version
  BY <1>1, OpenRefines
<1>2. CASE begin_transaction \/ begin_tx_application \/ do_search \/ update_causets
  <2>1. UNCHANGED <<db, log>> /\ stage # "closed"
    BY <1>2 DEF begin_transaction, begin_tx_application, do_search, update_causets
  <2>2. stage' # "closed"
    BY <1>2 DEF begin_transaction, begin_tx_application, do_search, update_causets
  <2> QED BY <2>1, <2>2
<1>3. CASE commit_EinsteinDB_transaction
  BY <1>3, TransactRefines
<1>4. CASE commit
  BY <1>4, CommitRefines
<1>5. CASE rollback
  BY <1>5 DEF rollback, History!Abort
<1>6. CASE crash
  BY <1>6 DEF crash, History!Crash
<1>7. CASE UNCHANGED vars
  BY <1>7 DEF vars
<1> QED BY <1>1, <1>2, <1>3, <1>4, <1>5, <1>6, <1>7 DEF Next

(* The storage layer of einsteindb.rs implements the history a causet      *)
(* store promises, whatever the topograph and wherever it fails or crashes.*)
THEOREM StoreImplementsHistory == Spec => ImplementsHistory
<1>1. Init => History!Init
  BY DEF Init, History!Init
<1>2. Ind /\ [Next]_vars => [History!Next]_(History!vars)
  BY StepRefines
<1> QED BY <1>1, <1>2, Inductive, PTL DEF Spec, ImplementsHistory, History!Spec

-----------------------------------------------------------------------------
(* A consequence for the log: the assertions and retractions of a causet   *)
(* alternate, and no transaction has both.                                 *)

Alternating(entries) ==
    /\ \A l, m \in entries :
         (l.added /\ m.added /\ SameEAV(l, m) /\ l.tx < m.tx) =>
             \E n \in entries : /\ ~n.added /\ SameEAV(l, n)
                                /\ l.tx < n.tx /\ n.tx < m.tx
    /\ \A l, m \in entries :
         (~l.added /\ ~m.added /\ SameEAV(l, m) /\ l.tx < m.tx) =>
             \E n \in entries : /\ n.added /\ SameEAV(l, n)
                                /\ l.tx < n.tx /\ n.tx < m.tx
    /\ \A m \in entries :
         ~m.added => \E n \in entries : n.added /\ SameEAV(m, n) /\ n.tx < m.tx
    /\ \A l, n \in entries :
         (l.added /\ ~n.added /\ SameEAV(l, n)) => l.tx # n.tx

OnMain(entries) == entries \in SUBSET LogRow /\ \A l \in entries : l.morse = Main

(* An effective transaction keeps the log alternating.                     *)
LEMMA AlternatingExtended ==
    ASSUME NEW before, NEW batch, OnMain(before), batch \in SUBSET LogRow,
           Alternating(before), History!Effective(before, batch)
    PROVE  Alternating(before \cup batch)
<1>1. PICK t : (\A l \in batch : l.tx = t) /\ (\A l \in before : l.tx < t)
  BY DEF History!Effective
<1>2. ASSUME NEW l \in batch
      PROVE  l.added <=> ~ \E d \in Live(before) : SameEAV(l, d)
  BY HoldsIff DEF History!Effective, OnMain
<1>3. /\ \A l \in before : l.tx \in Nat
      /\ \A l \in batch : l.tx \in Nat
  BY DEF OnMain, LogRow
<1>4. ASSUME NEW l \in before \cup batch, NEW n \in before \cup batch,
             l.added, ~n.added, SameEAV(l, n), l.tx = n.tx
      PROVE  FALSE
  <2>1. CASE l \in before /\ n \in before
    BY <1>4, <2>1 DEF Alternating
  <2>2. CASE l \in batch /\ n \in batch
    <3>1. \A d \in Live(before) : SameEAV(l, d) <=> SameEAV(n, d)
      BY <1>4 DEF SameEAV, SameEA
    <3> QED BY <1>2, <1>4, <2>2, <3>1
  <2>3. CASE l \in before /\ n \in batch
    BY <1>1, <1>3, <1>4, <2>3
  <2>4. CASE l \in batch /\ n \in before
    BY <1>1, <1>3, <1>4, <2>4
  <2> QED BY <2>1, <2>2, <2>3, <2>4
<1>5. ASSUME NEW l \in before \cup batch, NEW m \in before \cup batch,
             l.added, m.added, SameEAV(l, m), l.tx < m.tx
      PROVE  \E n \in before \cup batch : /\ ~n.added /\ SameEAV(l, n)
                                          /\ l.tx < n.tx /\ n.tx < m.tx
  <2>1. CASE l \in before /\ m \in before
    <3>1. PICK n \in before : ~n.added /\ SameEAV(l, n) /\ l.tx < n.tx /\ n.tx < m.tx
      BY <1>5, <2>1 DEF Alternating
    <3> QED BY <3>1
  <2>2. CASE l \in before /\ m \in batch
    <3>1. \A d \in Live(before) : ~SameEAV(m, d)
      BY <1>2, <1>5, <2>2
    <3> DEFINE d == [e |-> l.e, a |-> l.a, v |-> l.v, tx |-> l.tx]
    <3>2. d \notin Live(before)
      BY <1>5, <3>1 DEF SameEAV, SameEA
    <3>3. l \in transactions(before)
      BY <2>2 DEF transactions, OnMain
    <3>4. PICK n \in transactions(before) : ~n.added /\ SameEAV(l, n) /\ ~(n.tx < l.tx)
      BY <1>5, <3>2, <3>3, LiveIntro
    <3>5. n \in before
      BY <3>4 DEF transactions
    <3>6. l.tx # n.tx
      BY <1>5, <2>2, <3>4, <3>5 DEF Alternating
    <3>7. l.tx < n.tx /\ n.tx < m.tx
      BY <1>1, <1>3, <2>2, <3>4, <3>5, <3>6
    <3> QED BY <3>4, <3>5, <3>7
  <2>3. CASE l \in batch
    BY <1>1, <1>3, <1>5, <2>3
  <2> QED BY <2>1, <2>2, <2>3
<1>6. ASSUME NEW m \in batch, ~m.added
      PROVE  \E k \in before : /\ k.added /\ SameEAV(m, k) /\ k.tx < m.tx
                               /\ \A n \in before : (~n.added /\ SameEAV(m, n)) => n.tx < k.tx
  <2>1. PICK d \in Live(before) : SameEAV(m, d)
    BY <1>2, <1>6
  <2>2. PICK k \in transactions(before) :
              /\ k.added
              /\ \A n \in transactions(before) : (~n.added /\ SameEAV(k, n)) => n.tx < k.tx
              /\ d = [e |-> k.e, a |-> k.a, v |-> k.v, tx |-> k.tx]
    BY <2>1, LiveElim DEF OnMain
  <2>3. k \in before /\ \A n \in before : n \in transactions(before)
    BY <2>2 DEF transactions, OnMain
  <2>4. SameEAV(m, k) /\ \A n : SameEAV(m, n) => SameEAV(k, n)
    BY <2>1, <2>2 DEF SameEAV, SameEA
  <2>5. k.tx < m.tx
    BY <1>1, <1>6, <2>3
  <2> QED BY <2>2, <2>3, <2>4, <2>5
<1>7. ASSUME NEW m \in before \cup batch, ~m.added
      PROVE  \E n \in before \cup batch : n.added /\ SameEAV(m, n) /\ n.tx < m.tx
  <2>1. CASE m \in before
    <3>1. PICK n \in before : n.added /\ SameEAV(m, n) /\ n.tx < m.tx
      BY <1>7, <2>1 DEF Alternating
    <3> QED BY <3>1
  <2>2. CASE m \in batch
    BY <1>6, <1>7, <2>2
  <2> QED BY <2>1, <2>2
<1>8. ASSUME NEW l \in before \cup batch, NEW m \in before \cup batch,
             ~l.added, ~m.added, SameEAV(l, m), l.tx < m.tx
      PROVE  \E n \in before \cup batch : /\ n.added /\ SameEAV(l, n)
                                          /\ l.tx < n.tx /\ n.tx < m.tx
  <2>1. CASE l \in before /\ m \in before
    <3>1. PICK n \in before : n.added /\ SameEAV(l, n) /\ l.tx < n.tx /\ n.tx < m.tx
      BY <1>8, <2>1 DEF Alternating
    <3> QED BY <3>1
  <2>2. CASE l \in before /\ m \in batch
    <3>1. PICK k \in before : /\ k.added /\ SameEAV(m, k) /\ k.tx < m.tx
                              /\ \A n \in before : (~n.added /\ SameEAV(m, n)) => n.tx < k.tx
      BY <1>6, <1>8, <2>2
    <3>2. SameEAV(m, l) /\ SameEAV(l, k)
      BY <1>8, <3>1 DEF SameEAV, SameEA
    <3>3. l.tx < k.tx
      BY <1>8, <2>2, <3>1, <3>2
    <3> QED BY <3>1, <3>2, <3>3
  <2>3. CASE l \in batch
    BY <1>1, <1>3, <1>8, <2>3
  <2> QED BY <2>1, <2>2, <2>3
<1>9. Alternating(before \cup batch)
  <2> DEFINE all == before \cup batch
  <2>1. /\ \A l, m \in all :
             (l.added /\ m.added /\ SameEAV(l, m) /\ l.tx < m.tx) =>
                 \E n \in all : /\ ~n.added /\ SameEAV(l, n)
                                /\ l.tx < n.tx /\ n.tx < m.tx
        /\ \A l, m \in all :
             (~l.added /\ ~m.added /\ SameEAV(l, m) /\ l.tx < m.tx) =>
                 \E n \in all : /\ n.added /\ SameEAV(l, n)
                                /\ l.tx < n.tx /\ n.tx < m.tx
        /\ \A m \in all :
             ~m.added => \E n \in all : n.added /\ SameEAV(m, n) /\ n.tx < m.tx
        /\ \A l, n \in all :
             (l.added /\ ~n.added /\ SameEAV(l, n)) => l.tx # n.tx
    BY <1>4, <1>5, <1>7, <1>8
  <2> HIDE DEF all
  <2>2. Alternating(all)
    BY <2>1 DEF Alternating
  <2> QED BY <2>2 DEF all
<1> QED BY <1>9

AltInv == Alternating(log) /\ Alternating(db.log)

(* Every step of the history keeps both logs alternating.                  *)
LEMMA NextAlt == Ind /\ Ind' /\ AltInv /\ [Next]_vars => AltInv'
<1> SUFFICES ASSUME Ind, Ind', AltInv, [Next]_vars PROVE AltInv'
  OBVIOUS
<1>1. [History!Next]_(History!vars)
  BY StepRefines
<1>2. log \in SUBSET LogRow /\ log' \in SUBSET LogRow /\ db'.log \in SUBSET LogRow
  BY DEF Ind, TypeOK, Database
<1>3. OnMain(log) /\ OnMain({})
  BY <1>2 DEF OnMain, Ind, HistoryInv, Below
<1>4. Alternating({})
  BY DEF Alternating
<1>5. CASE History!Open
  <2>1. Alternating(db'.log)
    <3>1. CASE UNCHANGED db.log
      BY <3>1 DEF AltInv
    <3>2. CASE History!Effective({}, db'.log)
      <4>1. Alternating({} \cup db'.log)
        BY <1>2, <1>3, <1>4, <3>2, AlternatingExtended
      <4>2. {} \cup db'.log = db'.log
        OBVIOUS
      <4> QED BY <4>1, <4>2
    <3> QED BY <1>5, <3>1, <3>2 DEF History!Open
  <2> QED BY <1>5, <2>1 DEF History!Open, AltInv
<1>6. CASE History!Transact
  <2>1. log \cup (log' \ log) = log' /\ UNCHANGED db.log /\ History!Effective(log, log' \ log)
    BY <1>6 DEF History!Transact
  <2>2. Alternating(log \cup (log' \ log))
    BY <1>2, <1>3, <2>1, AlternatingExtended DEF AltInv
  <2> QED BY <2>1, <2>2 DEF AltInv
<1>7. CASE History!Commit
  BY <1>7 DEF History!Commit, AltInv
<1>8. CASE History!Abort
  BY <1>8 DEF History!Abort, AltInv
<1>9. CASE History!Crash
  BY <1>4, <1>9 DEF History!Crash, AltInv
<1>10. CASE UNCHANGED History!vars
  BY <1>10 DEF History!vars, AltInv
<1> QED BY <1>1, <1>5, <1>6, <1>7, <1>8, <1>9, <1>10 DEF History!Next

(* Of each causet the log tells assertions and retractions in turn, the    *)
(* first an assertion, whatever was searched, failed, rolled back or       *)
(* reopened in the meantime.                                               *)
THEOREM LogIsAlternating == Spec => []LogAlternates
<1>1. Init => AltInv
  BY DEF Init, AltInv, Alternating
<1>2. Ind /\ Ind' /\ AltInv /\ [Next]_vars => AltInv'
  BY NextAlt
<1>3. AltInv => LogAlternates
  BY DEF AltInv, Alternating, LogAlternates
<1> QED BY <1>1, <1>2, <1>3, Inductive, PTL DEF Spec
=============================================================================
