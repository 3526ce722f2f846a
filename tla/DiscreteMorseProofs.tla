------------------------- MODULE DiscreteMorseProofs -------------------------
(***************************************************************************)
(* Proofs about DiscreteMorse for every topograph, every set of values and *)
(* of timelines and every bound: its type, that a rewind never fails, that *)
(* it undoes exactly the transactions that are moved, and that no          *)
(* txInstant is ever retracted.                                            *)
(*                                                                         *)
(* Rows restored by a rewind carry the id of the phantom transaction, so   *)
(* that the argument is about facts [e a v].  Held(entries, n) are those   *)
(* that the transactions before n leave; a pass of the rewind takes the    *)
(* store from Held(log, t + 1) to Held(log, t).                            *)
(***************************************************************************)
EXTENDS DiscreteMorse, WellFoundedInduction, TLAPS

-----------------------------------------------------------------------------
(* Facts, and what a transaction does to them. *)

FactOf == [e : Nat, a : Attrs, v : Value]

OneValueEach(facts) == \A f, g \in facts : (SameEA(f, g) /\ f.a \in One) => f = g
UniqueValues(facts) ==
    \A f, g \in facts : (f.a = g.a /\ f.v = g.v /\ f.a \in Unique) => f = g
Sound(facts) == OneValueEach(facts) /\ UniqueValues(facts)

\* No two rows of the table have the same [e a v].
Distinct(rows) == \A c, d \in rows : SameEAV(c, d) => c = d

\* The facts a set of terms adds to and takes from those that hold.
Asserted(facts, s) == { Fact(u) : u \in { w \in s : w.added /\ Fact(w) \notin facts } }
Replaces(u, f) == Matches(u, f) /\ (~u.added \/ (u.a \in One /\ f.v # u.v))
Withdrawn(facts, s) == { f \in facts : \E u \in s : Replaces(u, f) }

-----------------------------------------------------------------------------
(* The log, transaction by transaction. *)

Txs(entries) == { l.tx : l \in transactions(entries) }
Prefix(entries, n) == { l \in transactions(entries) : l.tx < n }
Batch(entries, n) == { l \in transactions(entries) : l.tx = n }
Held(entries, n) == Facts(Live(Prefix(entries, n)))
Came(batch) == { Fact(l) : l \in { m \in batch : m.added } }
Went(batch) == { Fact(l) : l \in { m \in batch : ~m.added } }

\* Every transaction asserts what did not hold and retracts what did, has an
\* entry about itself, its txInstant, and leaves at most one value where
\* cardinality is one and one entity for a unique value.  n is the next.
LogOK(entries, n) ==
    /\ entries \in SUBSET LogRow
    /\ \A l \in transactions(entries) :
         /\ Tx0 <= l.tx /\ l.tx < n /\ l.e <= l.tx
         /\ \E m \in transactions(entries) : m.tx = l.tx /\ m.e = l.tx
         /\ l.added <=> Fact(l) \notin Held(entries, l.tx)
    /\ \A i \in Nat : Sound(Held(entries, i))

-----------------------------------------------------------------------------
(* The inductive invariant. *)

\* The store holds what the transactions say that are not undone yet.
StoreInv ==
    /\ Distinct(causets)
    /\ \E k \in Nat : /\ Facts(causets) = Held(log, k)
                      /\ \A t \in Txs(log) : t \in moving \ rewind <=> k <= t

\* What is moved are the last transactions of the main timeline.
MoveInv ==
    /\ moving \subseteq Txs(log)
    /\ \A t \in moving, u \in Txs(log) : t <= u => u \in moving
    /\ target = Main => moving = {}

Ind == /\ TypeOK /\ Tx0 <= part.tx /\ LogOK(log, part.tx)
       /\ StoreInv /\ MoveInv /\ RewindSucceeds /\ NoPhantomRetraction

-----------------------------------------------------------------------------
(* Lemmas about facts and rows. *)

(* A bounded set of naturals that is not empty has a greatest element.     *)
LEMMA MaxExists ==
    ASSUME NEW S \in SUBSET Nat, S # {}, NEW b \in Nat, \A i \in S : i <= b
    PROVE  \E m \in S : \A i \in S : i <= m
  <1> DEFINE T == { j \in Nat : \E i \in S : j = b - i }
  <1>1. T # {} /\ T \in SUBSET Nat
    <2>1. PICK i \in S : TRUE
      OBVIOUS
    <2>2. b - i \in T
      BY <2>1
    <2>3. QED
      BY <2>2
  <1>2. \E x \in T : \A y \in T : ~ (<<y, x>> \in OpToRel(<, Nat))
    <2> HIDE DEF T
    <2>1. QED
      BY <1>1, WFMin, NatLessThanWellFounded
  <1>3. PICK x \in T : \A y \in T : ~ (<<y, x>> \in OpToRel(<, Nat))
    BY <1>2
  <1>4. \A y \in T : ~ (y < x)
    BY <1>1, <1>3 DEF OpToRel
  <1>5. PICK m \in S : x = b - m
    BY <1>3
  <1>6. ASSUME NEW i \in S PROVE i <= m
    <2>1. b - i \in T
      OBVIOUS
    <2>2. ~ (b - i < x)
      BY <2>1, <1>4
    <2>3. QED
      BY <2>2, <1>5
  <1>7. QED
    BY <1>6

(* Rows have facts, and two of them the same one if they agree on [e a v]. *)
LEMMA FactShape ==
    /\ \A c, d : Fact(c) = Fact(d) <=> SameEAV(c, d)
    /\ \A c : Fact(c).e = c.e /\ Fact(c).a = c.a /\ Fact(c).v = c.v
    /\ \A f \in FactOf : Fact(f) = f
    /\ \A d \in Row : Fact(d) \in FactOf
    /\ \A l \in LogRow : Fact(l) \in FactOf
    /\ \A u \in Term : Fact(u) \in FactOf
  BY DEF Fact, SameEAV, SameEA, FactOf, Row, LogRow, Term

(* The facts of a set of rows.                                             *)
LEMMA FactsIff == \A rows, f : f \in Facts(rows) <=> \E d \in rows : f = Fact(d)
  BY DEF Facts

(* A search by a term finds the rows whose facts it finds.                 *)
LEMMA MatchesFact == \A u, d : Matches(u, Fact(d)) <=> Matches(u, d)
  BY DEF Matches, SameEA, Fact

(* What a row of the LEFT JOIN of `search` says.                           *)
LEMMA ResultElim ==
    ASSUME NEW rows \in SUBSET Row, NEW s \in SUBSET Term, NEW r \in search(rows, s)
    PROVE  /\ r.term \in s
           /\ r.old = NoRow => \A d \in rows : ~Matches(r.term, d)
           /\ r.old # NoRow => r.old \in rows /\ Matches(r.term, r.old)
  BY DEF search

(* And every term has its row.                                             *)
LEMMA ResultIntro ==
    ASSUME NEW rows \in SUBSET Row, NEW s \in SUBSET Term, NEW u \in s
    PROVE  /\ \A d \in rows : Matches(u, d) => [term |-> u, old |-> d] \in search(rows, s)
           /\ (\A d \in rows : ~Matches(u, d)) => [term |-> u, old |-> NoRow] \in search(rows, s)
  BY NoRowAssumption DEF search

(* The unique indices of `causets`, in terms of facts.                     *)
LEMMA IdxIff ==
    ASSUME NEW rows \in SUBSET Row
    PROVE  idx_causets(rows) <=> Distinct(rows) /\ UniqueValues(Facts(rows))
  <1>1. ASSUME idx_causets(rows) PROVE Distinct(rows)
    BY <1>1 DEF idx_causets, Distinct
  <1>2. ASSUME idx_causets(rows), NEW f \in Facts(rows), NEW g \in Facts(rows),
               f.a = g.a, f.v = g.v, f.a \in Unique
        PROVE  f = g
    <2>1. PICK c \in rows : f = Fact(c)
      BY FactsIff
    <2>2. PICK d \in rows : g = Fact(d)
      BY FactsIff
    <2>3. c.a = d.a /\ c.v = d.v /\ c.a \in Unique
      BY <1>2, <2>1, <2>2, FactShape
    <2>4. c = d
      BY <1>2, <2>3 DEF idx_causets
    <2>5. QED
      BY <2>1, <2>2, <2>4
  <1>3. ASSUME Distinct(rows), UniqueValues(Facts(rows)), NEW c \in rows, NEW d \in rows, c # d
        PROVE  ~SameEAV(c, d) /\ ~(c.a = d.a /\ c.v = d.v /\ c.a \in Unique)
    <2>1. ~SameEAV(c, d)
      BY <1>3 DEF Distinct
    <2>2. Fact(c) \in Facts(rows) /\ Fact(d) \in Facts(rows) /\ Fact(c) # Fact(d)
      BY <2>1, FactsIff, FactShape
    <2>3. QED
      BY <1>3, <2>1, <2>2, FactShape DEF UniqueValues
  <1>4. QED
    BY <1>1, <1>2, <1>3 DEF UniqueValues, idx_causets

(* What update_causets does to the facts: it adds what is asserted and did *)
(* not hold, and withdraws what is retracted or replaced.                  *)
LEMMA Effect ==
    ASSUME NEW rows \in SUBSET Row, NEW s \in SUBSET Term, NEW t \in Nat,
           Distinct(rows), OneValueEach(Facts(rows))
    PROVE  LET r == search(rows, s)
           IN  /\ AddedRows(r, t) \in SUBSET Row /\ \A d \in AddedRows(r, t) : d.tx = t
               /\ RetractedRows(r) \in SUBSET rows
               /\ Facts(AddedRows(r, t)) = Asserted(Facts(rows), s)
               /\ Facts(RetractedRows(r)) = Withdrawn(Facts(rows), s)
  <1> DEFINE r == search(rows, s)
             add == AddedRows(r, t)
             ret == RetractedRows(r)
             F == Facts(rows)
  <1>1. ASSUME NEW d \in add
        PROVE  \E q \in r : /\ Adds(q) /\ q.term \in s
                            /\ d = [e |-> q.term.e, a |-> q.term.a, v |-> q.term.v, tx |-> t]
    BY ResultElim DEF AddedRows
  <1>2. add \in SUBSET Row /\ \A d \in add : d.tx = t
    <2>1. ASSUME NEW d \in add PROVE d \in Row /\ d.tx = t
      <3>1. PICK q \in r : /\ Adds(q) /\ q.term \in s
                           /\ d = [e |-> q.term.e, a |-> q.term.a, v |-> q.term.v, tx |-> t]
        BY <1>1
      <3>2. q.term \in Term
        BY <3>1
      <3>3. QED
        BY <3>1, <3>2 DEF Term, Row
    <2>2. QED
      BY <2>1
  <1>3. ASSUME NEW d \in ret PROVE \E q \in r : Retracts(q) /\ q.old = d /\ d \in rows /\ Matches(q.term, d)
    <2>1. PICK q \in r : Retracts(q) /\ d = q.old
      BY DEF RetractedRows
    <2>2. QED
      BY <2>1, ResultElim DEF Retracts
  <1>4. Facts(ret) = Withdrawn(F, s)
    <2>1. ASSUME NEW f \in Facts(ret) PROVE f \in Withdrawn(F, s)
      <3>1. PICK d \in ret : f = Fact(d)
        BY FactsIff
      <3>2. PICK q \in r : Retracts(q) /\ q.old = d /\ d \in rows /\ Matches(q.term, d)
        BY <1>3
      <3>3. q.term \in s /\ f \in F
        BY <3>1, <3>2, ResultElim, FactsIff
      <3>4. Replaces(q.term, f)
        BY <3>1, <3>2, MatchesFact, FactShape DEF Replaces, Retracts
      <3>5. QED
        BY <3>3, <3>4 DEF Withdrawn
    <2>2. ASSUME NEW f \in Withdrawn(F, s) PROVE f \in Facts(ret)
      <3>1. PICK u \in s : Replaces(u, f)
        BY DEF Withdrawn
      <3>2. PICK d \in rows : f = Fact(d)
        BY FactsIff DEF Withdrawn
      <3> DEFINE q == [term |-> u, old |-> d]
      <3>3. Matches(u, d)
        BY <3>1, <3>2, MatchesFact DEF Replaces
      <3>4. q \in r
        BY <3>3, ResultIntro
      <3>5. q.term = u /\ q.old = d /\ d # NoRow
        BY NoRowAssumption
      <3>6. Retracts(q)
        BY <3>1, <3>2, <3>5, FactShape DEF Replaces, Retracts
      <3>7. d \in ret
        BY <3>4, <3>5, <3>6 DEF RetractedRows
      <3>8. QED
        BY <3>2, <3>7, FactsIff
    <2>3. QED
      BY <2>1, <2>2
  <1>5. Facts(add) = Asserted(F, s)
    <2>1. ASSUME NEW f \in Facts(add) PROVE f \in Asserted(F, s)
      <3>1. PICK d \in add : f = Fact(d)
        BY FactsIff
      <3>2. PICK q \in r : /\ Adds(q) /\ q.term \in s
                           /\ d = [e |-> q.term.e, a |-> q.term.a, v |-> q.term.v, tx |-> t]
        BY <1>1
      <3>3. f = Fact(q.term) /\ q.term.added
        BY <3>1, <3>2 DEF Fact, Adds
      <3>4. ASSUME f \in F PROVE FALSE
        <4>1. PICK c \in rows : f = Fact(c)
          BY <3>4, FactsIff
        <4>2. SameEAV(q.term, c)
          BY <3>3, <4>1, FactShape
        <4>3. Matches(q.term, c)
          BY <4>2 DEF Matches, SameEAV
        <4>4. q.old # NoRow /\ q.old \in rows /\ Matches(q.term, q.old)
          BY <3>2, <4>3, ResultElim
        <4>5. q.old.v # q.term.v
          BY <3>2, <4>4 DEF Adds
        <4>6. SameEA(q.old, c) /\ q.old.a \in One /\ q.old.v # c.v
          BY <4>2, <4>4, <4>5 DEF Matches, SameEA, SameEAV
        <4>7. Fact(q.old) \in F /\ Fact(c) \in F
          BY <4>4, FactsIff
        <4>8. SameEA(Fact(q.old), Fact(c)) /\ Fact(q.old).a \in One
          BY <4>6, FactShape DEF SameEA
        <4>9. Fact(q.old) = Fact(c)
          BY <4>7, <4>8 DEF OneValueEach
        <4>10. QED
          BY <4>6, <4>9, FactShape
      <3>5. QED
        BY <3>2, <3>3, <3>4 DEF Asserted
    <2>2. ASSUME NEW f \in Asserted(F, s) PROVE f \in Facts(add)
      <3>1. PICK u \in s : f = Fact(u) /\ u.added /\ Fact(u) \notin F
        BY DEF Asserted
      <3>2. \E q \in r : q.term = u /\ Adds(q)
        <4>1. CASE \E d \in rows : Matches(u, d)
          <5>1. PICK d \in rows : Matches(u, d)
            BY <4>1
          <5> DEFINE q == [term |-> u, old |-> d]
          <5>2. q \in r /\ q.term = u /\ q.old = d
            BY <5>1, ResultIntro
          <5>3. d.v # u.v
            <6>1. Fact(d) \in F
              BY FactsIff
            <6>2. ~SameEAV(u, d)
              BY <3>1, <6>1, FactShape
            <6>3. QED
              BY <5>1, <6>2 DEF Matches, SameEAV
          <5>4. QED
            BY <3>1, <5>2, <5>3 DEF Adds
        <4>2. CASE \A d \in rows : ~Matches(u, d)
          <5> DEFINE q == [term |-> u, old |-> NoRow]
          <5>1. q \in r /\ q.term = u /\ q.old = NoRow
            BY <4>2, ResultIntro
          <5>2. QED
            BY <3>1, <5>1 DEF Adds
        <4>3. QED
          BY <4>1, <4>2
      <3>3. PICK q \in r : q.term = u /\ Adds(q)
        BY <3>2
      <3> DEFINE d == [e |-> u.e, a |-> u.a, v |-> u.v, tx |-> t]
      <3>4. d \in add
        BY <3>3 DEF AddedRows
      <3>5. f = Fact(d)
        BY <3>1 DEF Fact
      <3>6. QED
        BY <3>4, <3>5, FactsIff
    <2>3. QED
      BY <2>1, <2>2
  <1>6. ret \in SUBSET rows
    BY <1>3
  <1>7. QED
    BY <1>2, <1>4, <1>5, <1>6

(* The table after a transaction: its facts, and that none is there twice. *)
LEMMA MaterializedFacts ==
    ASSUME NEW rows \in SUBSET Row, NEW s \in SUBSET Term, NEW t \in Nat,
           Distinct(rows), OneValueEach(Facts(rows))
    PROVE  LET new == Materialized(rows, search(rows, s), t)
           IN  /\ new \in SUBSET Row /\ Distinct(new)
               /\ Facts(new) = (Facts(rows) \ Withdrawn(Facts(rows), s))
                                 \cup Asserted(Facts(rows), s)
  <1> DEFINE r == search(rows, s)
             add == AddedRows(r, t)
             ret == RetractedRows(r)
             F == Facts(rows)
             new == Materialized(rows, r, t)
  <1>1. new = (rows \ ret) \cup add
    BY DEF Materialized, update_causets_insert, update_causets_delete
  <1>2. /\ add \in SUBSET Row /\ (\A d \in add : d.tx = t) /\ ret \in SUBSET rows
        /\ Facts(add) = Asserted(F, s) /\ Facts(ret) = Withdrawn(F, s)
    BY Effect
  <1>3. \A f \in Facts(add) : f \notin F
    BY <1>2 DEF Asserted
  <1> HIDE DEF r, add, ret, new
  <1>4. Distinct(new)
    <2> SUFFICES ASSUME NEW c \in new, NEW d \in new, SameEAV(c, d) PROVE c = d
      BY DEF Distinct
    <2>0. Fact(c) = Fact(d)
      BY FactShape
    <2>1. CASE c \in rows /\ d \in rows
      BY <2>1 DEF Distinct
    <2>2. CASE c \in add /\ d \in add
      <3>1. c \in Row /\ d \in Row /\ c.tx = d.tx
        BY <1>2, <2>2
      <3>2. QED
        BY <3>1 DEF SameEAV, SameEA, Row
    <2>3. CASE c \in rows /\ d \in add
      BY <1>3, <2>0, <2>3, FactsIff
    <2>4. CASE c \in add /\ d \in rows
      BY <1>3, <2>0, <2>4, FactsIff
    <2>5. QED
      BY <1>1, <2>1, <2>2, <2>3, <2>4
  <1>5. ASSUME NEW f PROVE f \in Facts(new) <=> f \in (F \ Facts(ret)) \cup Facts(add)
    <2>1. ASSUME f \in Facts(new) PROVE f \in (F \ Facts(ret)) \cup Facts(add)
      <3>1. PICK d \in new : f = Fact(d)
        BY <2>1, FactsIff
      <3>2. CASE d \in add
        BY <3>1, <3>2, FactsIff
      <3>3. CASE d \in rows \ ret
        <4>1. f \in F
          BY <3>1, <3>3, FactsIff
        <4>2. ASSUME f \in Facts(ret) PROVE FALSE
          <5>1. PICK c \in ret : f = Fact(c)
            BY <4>2, FactsIff
          <5>2. c \in rows /\ SameEAV(c, d)
            BY <1>2, <3>1, <5>1, FactShape
          <5>3. c = d
            BY <3>3, <5>2 DEF Distinct
          <5>4. QED
            BY <3>3, <5>3
        <4>3. QED
          BY <4>1, <4>2
      <3>4. QED
        BY <1>1, <3>2, <3>3
    <2>2. ASSUME f \in F \ Facts(ret) PROVE f \in Facts(new)
      BY <1>1, <2>2, FactsIff
    <2>3. ASSUME f \in Facts(add) PROVE f \in Facts(new)
      BY <1>1, <2>3, FactsIff
    <2>4. QED
      BY <2>1, <2>2, <2>3
  <1>6. Facts(new) = (F \ Withdrawn(F, s)) \cup Asserted(F, s)
    BY <1>2, <1>5
  <1>7. new \in SUBSET Row
    BY <1>1, <1>2
  <1>8. QED
    BY <1>4, <1>6, <1>7 DEF new, r

(* A transaction that passes cardinality_conflicts leaves one value where  *)
(* there may be one only: what it replaces is withdrawn.                   *)
LEMMA OneValueKept ==
    ASSUME NEW F \in SUBSET FactOf, OneValueEach(F), NEW s, ~cardinality_conflicts(s)
    PROVE  OneValueEach((F \ Withdrawn(F, s)) \cup Asserted(F, s))
  <1>1. ASSUME NEW f \in F \ Withdrawn(F, s), NEW g \in Asserted(F, s), SameEA(f, g), f.a \in One
        PROVE  FALSE
    <2>1. PICK u \in s : g = Fact(u) /\ u.added /\ Fact(u) \notin F
      BY DEF Asserted
    <2>2. f.e = u.e /\ f.a = u.a
      BY <1>1, <2>1, FactShape DEF SameEA
    <2>3. Matches(u, f)
      BY <1>1, <2>2 DEF Matches, SameEA
    <2>4. f.v = u.v
      BY <1>1, <2>2, <2>3 DEF Withdrawn, Replaces
    <2>5. Fact(f) = Fact(u) /\ Fact(f) = f
      BY <2>2, <2>4, FactShape DEF SameEAV, SameEA
    <2>6. QED
      BY <2>1, <2>5
  <1>2. ASSUME NEW f \in Asserted(F, s), NEW g \in Asserted(F, s), SameEA(f, g), f.a \in One
        PROVE  f = g
    <2>1. PICK u \in s : f = Fact(u) /\ u.added
      BY DEF Asserted
    <2>2. PICK w \in s : g = Fact(w) /\ w.added
      BY DEF Asserted
    <2>3. SameEA(u, w) /\ u.a \in One
      BY <1>2, <2>1, <2>2, FactShape DEF SameEA
    <2>4. u.v = w.v
      BY <2>1, <2>2, <2>3 DEF cardinality_conflicts, CardinalityOneAddConflict
    <2>5. QED
      BY <2>1, <2>2, <2>3, <2>4, FactShape DEF SameEAV
  <1>3. \A f, g : SameEA(f, g) => SameEA(g, f) /\ f.a = g.a
    BY DEF SameEA
  <1>4. QED
    BY <1>1, <1>2, <1>3 DEF OneValueEach

(* The unique index on search_results never fires.                         *)
LEMMA SearchUnique ==
    ASSUME NEW rows \in SUBSET Row, NEW s \in SUBSET Term,
           ~cardinality_conflicts(s), Distinct(rows), OneValueEach(Facts(rows))
    PROVE  search_results_unique(search(rows, s))
  <1> SUFFICES ASSUME NEW q \in search(rows, s), NEW u \in search(rows, s),
                      SameEAV(q.term, u.term)
               PROVE  q = u
    BY DEF search_results_unique
  <1>1. q.term \in s /\ u.term \in s
    BY ResultElim
  <1>2. q.term.added = u.term.added
    <2>1. SameEAV(u.term, q.term)
      BY DEF SameEAV, SameEA
    <2>2. q.term.added \in BOOLEAN /\ u.term.added \in BOOLEAN
      BY <1>1 DEF Term
    <2>3. QED
      BY <1>1, <2>1, <2>2 DEF cardinality_conflicts, AddRetractConflict
  <1>3. q.term = u.term
    BY <1>1, <1>2 DEF SameEAV, SameEA, Term
  <1>4. q.old = u.old
    <2>1. CASE q.old = NoRow \/ u.old = NoRow
      BY <2>1, <1>3, ResultElim
    <2>2. CASE q.old # NoRow /\ u.old # NoRow
      <3>1. /\ q.old \in rows /\ Matches(q.term, q.old)
            /\ u.old \in rows /\ Matches(q.term, u.old)
        BY <2>2, <1>3, ResultElim
      <3>2. SameEAV(q.old, u.old)
        <4>1. CASE q.term.a \in One
          <5>1. Fact(q.old) \in Facts(rows) /\ Fact(u.old) \in Facts(rows)
            BY <3>1, FactsIff
          <5>2. SameEA(Fact(q.old), Fact(u.old)) /\ Fact(q.old).a \in One
            BY <3>1, <4>1, FactShape DEF Matches, SameEA
          <5>3. QED
            BY <5>1, <5>2, FactShape DEF OneValueEach
        <4>2. CASE q.term.a \notin One
          BY <3>1, <4>2 DEF Matches, SameEAV, SameEA
        <4>3. QED
          BY <4>1, <4>2
      <3>3. QED
        BY <3>1, <3>2 DEF Distinct
    <2>3. QED
      BY <2>1, <2>2
  <1>5. QED
    BY <1>3, <1>4 DEF search

-----------------------------------------------------------------------------
(* Lemmas about the log. *)

(* When a fact holds after some entries.                                   *)
LEMMA HoldsIff ==
    ASSUME NEW entries, \A l \in entries : l.morse = Main
    PROVE  \A f : f \in Facts(Live(entries)) <=>
              \E m \in entries :
                 /\ f = Fact(m) /\ m.added
                 /\ \A n \in entries : (~n.added /\ Fact(n) = Fact(m)) => n.tx < m.tx
  <1>1. transactions(entries) = entries
    BY DEF transactions
  <1>2. \A m, n : SameEAV(m, n) <=> Fact(n) = Fact(m)
    BY FactShape DEF SameEAV, SameEA
  <1>3. ASSUME NEW f, NEW d \in Live(entries), f = Fact(d)
        PROVE  \E m \in entries :
                 /\ f = Fact(m) /\ m.added
                 /\ \A n \in entries : (~n.added /\ Fact(n) = Fact(m)) => n.tx < m.tx
    <2>1. PICK m \in entries :
            /\ m.added
            /\ \A n \in entries : (~n.added /\ SameEAV(m, n)) => n.tx < m.tx
            /\ d = [e |-> m.e, a |-> m.a, v |-> m.v, tx |-> m.tx]
      BY <1>1 DEF Live
    <2>2. f = Fact(m)
      BY <1>3, <2>1 DEF Fact
    <2>3. QED
      BY <1>2, <2>1, <2>2
  <1>4. ASSUME NEW m \in entries, m.added,
               \A n \in entries : (~n.added /\ Fact(n) = Fact(m)) => n.tx < m.tx
        PROVE  Fact(m) \in Facts(Live(entries))
    <2> DEFINE d == [e |-> m.e, a |-> m.a, v |-> m.v, tx |-> m.tx]
    <2>1. d \in Live(entries)
      BY <1>1, <1>2, <1>4 DEF Live
    <2>2. Fact(m) = Fact(d)
      BY DEF Fact
    <2>3. QED
      BY <2>1, <2>2, FactsIff
  <1>5. QED
    BY <1>3, <1>4, FactsIff

(* One more transaction that asserts what does not hold and retracts what  *)
(* does: what holds after it.                                              *)
LEMMA HoldsStep ==
    ASSUME NEW before \in SUBSET LogRow, NEW batch \in SUBSET LogRow, NEW t \in Nat,
           \A l \in before : l.morse = Main /\ l.tx < t,
           \A l \in batch : l.morse = Main /\ l.tx = t,
           \A l \in batch : l.added <=> Fact(l) \notin Facts(Live(before))
    PROVE  /\ Facts(Live(before \cup batch))
                = (Facts(Live(before)) \ Went(batch)) \cup Came(batch)
           /\ Went(batch) \subseteq Facts(Live(before))
           /\ Came(batch) \cap Facts(Live(before)) = {}
  <1> DEFINE all == before \cup batch
             H == Facts(Live(before))
  <1>1. \A f : f \in H <=>
              \E m \in before :
                 /\ f = Fact(m) /\ m.added
                 /\ \A n \in before : (~n.added /\ Fact(n) = Fact(m)) => n.tx < m.tx
    BY HoldsIff
  <1>2. \A f : f \in Facts(Live(all)) <=>
              \E m \in all :
                 /\ f = Fact(m) /\ m.added
                 /\ \A n \in all : (~n.added /\ Fact(n) = Fact(m)) => n.tx < m.tx
    BY HoldsIff
  <1>3. \A l \in all : l.tx \in Nat
    BY DEF LogRow
  <1>4. \A f : /\ f \in Came(batch) <=> \E l \in batch : f = Fact(l) /\ l.added
               /\ f \in Went(batch) <=> \E l \in batch : f = Fact(l) /\ ~l.added
    BY DEF Came, Went
  <1> HIDE DEF H, all
  <1>5. Went(batch) \subseteq H /\ Came(batch) \cap H = {}
    BY <1>4 DEF H
  <1>6. ASSUME NEW f \in Facts(Live(all)) PROVE f \in (H \ Went(batch)) \cup Came(batch)
    <2>1. PICK m \in all :
                 /\ f = Fact(m) /\ m.added
                 /\ \A n \in all : (~n.added /\ Fact(n) = Fact(m)) => n.tx < m.tx
      BY <1>2
    <2>2. CASE m \in batch
      BY <1>4, <2>1, <2>2
    <2>3. CASE m \in before
      <3>1. f \in H
        BY <1>1, <2>1, <2>3 DEF all
      <3>2. ASSUME NEW n \in batch, f = Fact(n), ~n.added PROVE FALSE
        <4>1. n.tx < m.tx /\ n.tx = t /\ m.tx < t
          BY <2>1, <2>3, <3>2 DEF all
        <4>2. n.tx \in Nat /\ m.tx \in Nat
          BY <1>3 DEF all
        <4>3. QED
          BY <4>1, <4>2
      <3>3. QED
        BY <1>4, <3>1, <3>2
    <2>4. QED
      BY <2>2, <2>3 DEF all
  <1>7. ASSUME NEW f \in H \ Went(batch) PROVE f \in Facts(Live(all))
    <2>1. PICK m \in before :
                 /\ f = Fact(m) /\ m.added
                 /\ \A n \in before : (~n.added /\ Fact(n) = Fact(m)) => n.tx < m.tx
      BY <1>1, <1>7
    <2>2. ASSUME NEW n \in all, ~n.added, Fact(n) = Fact(m) PROVE n.tx < m.tx
      BY <1>4, <1>7, <2>1, <2>2 DEF all
    <2>3. m \in all
      BY DEF all
    <2>4. QED
      BY <1>2, <2>1, <2>2, <2>3
  <1>8. ASSUME NEW f \in Came(batch) PROVE f \in Facts(Live(all))
    <2>1. PICK m \in batch : f = Fact(m) /\ m.added
      BY <1>4, <1>8
    <2>2. ASSUME NEW n \in all, ~n.added, Fact(n) = Fact(m) PROVE n.tx < m.tx
      <3>1. n \notin batch
        BY <2>1, <2>2
      <3>2. QED
        BY <3>1 DEF all
    <2>3. m \in all
      BY DEF all
    <2>4. QED
      BY <1>2, <2>1, <2>2, <2>3
  <1>9. Facts(Live(all)) = (H \ Went(batch)) \cup Came(batch)
    BY <1>6, <1>7, <1>8
  <1>10. QED
    BY <1>5, <1>9 DEF H, all

(* The entries of a log that has them in order, and one transaction more.  *)
LEMMA PrefixShape ==
    ASSUME NEW entries \in SUBSET LogRow, NEW n \in Nat
    PROVE  /\ Prefix(entries, n) \in SUBSET LogRow /\ Batch(entries, n) \in SUBSET LogRow
           /\ \A l \in Prefix(entries, n) : l.morse = Main /\ l.tx < n
           /\ \A l \in Batch(entries, n) : l.morse = Main /\ l.tx = n
           /\ Prefix(entries, n + 1) = Prefix(entries, n) \cup Batch(entries, n)
           /\ Held(entries, n) \in SUBSET FactOf
  <1>1. \A l \in entries : l.tx \in Nat
    BY DEF LogRow
  <1>2. Held(entries, n) \in SUBSET FactOf
    <2>1. \A l \in Prefix(entries, n) : l.morse = Main /\ l \in LogRow
      BY DEF Prefix, transactions
    <2>2. \A f \in Held(entries, n) : \E m \in Prefix(entries, n) : f = Fact(m)
      BY <2>1, HoldsIff DEF Held
    <2>3. QED
      BY <2>1, <2>2, FactShape
  <1>3. QED
    BY <1>1, <1>2 DEF Prefix, Batch, transactions

(* What holds before and after a transaction of the log.                   *)
LEMMA HeldStep ==
    ASSUME NEW entries, NEW p \in Nat, LogOK(entries, p), NEW n \in Nat
    PROVE  /\ Held(entries, n + 1) = (Held(entries, n) \ Went(Batch(entries, n)))
                                        \cup Came(Batch(entries, n))
           /\ Went(Batch(entries, n)) \subseteq Held(entries, n)
           /\ Came(Batch(entries, n)) \cap Held(entries, n) = {}
  <1>1. entries \in SUBSET LogRow
    BY DEF LogOK
  <1>2. \A l \in Batch(entries, n) : l.added <=> Fact(l) \notin Facts(Live(Prefix(entries, n)))
    BY DEF LogOK, Batch, Held
  <1>3. QED
    BY <1>1, <1>2, PrefixShape, HoldsStep DEF Held

(* Facts of the main timeline are about entities before the next one.      *)
LEMMA HeldBelow ==
    ASSUME NEW entries, NEW p \in Nat, LogOK(entries, p), NEW n \in Nat,
           NEW f \in Held(entries, n)
    PROVE  f.e < p /\ f \in FactOf
  <1>1. entries \in SUBSET LogRow
    BY DEF LogOK
  <1>2. \A l \in Prefix(entries, n) : l.morse = Main
    BY <1>1, PrefixShape
  <1>3. PICK m \in Prefix(entries, n) : f = Fact(m)
    BY <1>2, HoldsIff DEF Held
  <1>4. m \in transactions(entries) /\ m \in LogRow
    BY <1>1, <1>3 DEF Prefix, transactions
  <1>5. m.e <= m.tx /\ m.tx < p /\ m.e \in Nat /\ m.tx \in Nat
    BY <1>4 DEF LogOK, LogRow
  <1>6. m.e < p
    BY <1>5
  <1>7. QED
    BY <1>3, <1>4, <1>6, FactShape

-----------------------------------------------------------------------------
(* A transaction on the main timeline. *)

(* What insert_transaction appends, in terms of facts.                     *)
LEMMA Inserted ==
    ASSUME NEW rows \in SUBSET Row, NEW s \in SUBSET Term, NEW t \in Nat,
           Distinct(rows), OneValueEach(Facts(rows)), NEW entries \in SUBSET LogRow,
           NEW new, new = insert_transaction(entries, search(rows, s), t)
    PROVE  /\ new \in SUBSET LogRow /\ entries \subseteq new
           /\ \A l \in new : l \in entries \/
                /\ l.tx = t /\ l.morse = Main
                /\ IF l.added THEN Fact(l) \in Asserted(Facts(rows), s)
                   ELSE Fact(l) \in Withdrawn(Facts(rows), s)
           /\ \A f \in Asserted(Facts(rows), s) : \E l \in new :
                f = Fact(l) /\ l.added /\ l.tx = t /\ l.morse = Main
           /\ \A f \in Withdrawn(Facts(rows), s) : \E l \in new :
                f = Fact(l) /\ ~l.added /\ l.tx = t /\ l.morse = Main
  <1> DEFINE add == AddedRows(search(rows, s), t)
             ret == RetractedRows(search(rows, s))
             F == Facts(rows)
  <1>1. /\ add \in SUBSET Row /\ ret \in SUBSET Row
        /\ Facts(add) = Asserted(F, s) /\ Facts(ret) = Withdrawn(F, s)
    <2>1. /\ add \in SUBSET Row /\ ret \in SUBSET rows
          /\ Facts(add) = Asserted(F, s) /\ Facts(ret) = Withdrawn(F, s)
      BY Effect
    <2>2. QED
      BY <2>1
  <1>2. new = entries \cup { LogEntry(d, t, TRUE) : d \in add } \cup { LogEntry(d, t, FALSE) : d \in ret }
    BY DEF insert_transaction
  <1>3. \A d \in Row, b \in BOOLEAN :
           LET l == LogEntry(d, t, b)
           IN  l \in LogRow /\ Fact(l) = Fact(d) /\ l.added = b /\ l.tx = t /\ l.morse = Main
    BY DEF LogEntry, Row, LogRow, Main, Fact
  <1>4. \A f : f \in Facts(add) <=> \E d \in add : f = Fact(d)
    BY FactsIff
  <1>5. \A f : f \in Facts(ret) <=> \E d \in ret : f = Fact(d)
    BY FactsIff
  <1> HIDE DEF add, ret, F
  <1>6. new \in SUBSET LogRow /\ entries \subseteq new
    BY <1>1, <1>2, <1>3
  <1>7. ASSUME NEW l \in new, l \notin entries
        PROVE  /\ l.tx = t /\ l.morse = Main
               /\ IF l.added THEN Fact(l) \in Asserted(F, s) ELSE Fact(l) \in Withdrawn(F, s)
    <2>1. CASE \E d \in add : l = LogEntry(d, t, TRUE)
      BY <1>1, <1>3, <1>4, <2>1
    <2>2. CASE \E d \in ret : l = LogEntry(d, t, FALSE)
      BY <1>1, <1>3, <1>5, <2>2
    <2>3. QED
      BY <1>2, <1>7, <2>1, <2>2
  <1>8. ASSUME NEW f \in Asserted(F, s)
        PROVE  \E l \in new : f = Fact(l) /\ l.added /\ l.tx = t /\ l.morse = Main
    <2>1. PICK d \in add : f = Fact(d)
      BY <1>1, <1>4, <1>8
    <2>2. LogEntry(d, t, TRUE) \in new
      BY <1>2
    <2>3. QED
      BY <1>1, <1>3, <2>1, <2>2
  <1>9. ASSUME NEW f \in Withdrawn(F, s)
        PROVE  \E l \in new : f = Fact(l) /\ ~l.added /\ l.tx = t /\ l.morse = Main
    <2>1. PICK d \in ret : f = Fact(d)
      BY <1>1, <1>5, <1>9
    <2>2. LogEntry(d, t, FALSE) \in new
      BY <1>2
    <2>3. QED
      BY <1>1, <1>3, <2>1, <2>2
  <1>10. QED
    BY <1>6, <1>7, <1>8, <1>9 DEF F

\* The terms of a transaction t: about entities up to itself, and of txInstants
\* its own only, which it asserts.
Asked(s, t) ==
    /\ s \in SUBSET Term
    /\ \A u \in s : u.e <= t /\ (u.a = TxInstant => u.e = t)
    /\ \E i \in Instants : TxInstantTerm(t, i) \in s

(* A transaction that succeeds extends an orderly log by an orderly        *)
(* transaction, and the store holds what the longer log says.              *)
LEMMA Extended ==
    ASSUME NEW rows \in SUBSET Row, NEW entries, NEW t \in Nat, Tx0 <= t,
           LogOK(entries, t), Distinct(rows), Facts(rows) = Held(entries, t),
           NEW s, Asked(s, t), TermsSucceed(rows, s, t),
           NEW new, new = insert_transaction(entries, search(rows, s), t)
    PROVE  /\ LogOK(new, t + 1)
           /\ Materialized(rows, search(rows, s), t) \in SUBSET Row
           /\ Distinct(Materialized(rows, search(rows, s), t))
           /\ Facts(Materialized(rows, search(rows, s), t)) = Held(new, t + 1)
           /\ entries \subseteq new
           /\ \A l \in new \ entries : l.a = TxInstant => l.added
  <1> DEFINE F == Facts(rows)
             after == Materialized(rows, search(rows, s), t)
             ret == Withdrawn(F, s)
             add == Asserted(F, s)
  <1>1. entries \in SUBSET LogRow /\ s \in SUBSET Term
    BY DEF LogOK, Asked
  <1>2. Sound(F) /\ F \in SUBSET FactOf
    <2>1. Sound(Held(entries, t)) /\ Held(entries, t) \in SUBSET FactOf
      BY <1>1, PrefixShape DEF LogOK
    <2>2. QED
      BY <2>1 DEF Sound, OneValueEach, UniqueValues
  <1>3. after \in SUBSET Row /\ Distinct(after) /\ Facts(after) = (F \ ret) \cup add
    BY <1>1, <1>2, MaterializedFacts DEF Sound
  <1>4. Sound(Facts(after))
    <2>1. OneValueEach(Facts(after))
      BY <1>2, <1>3, OneValueKept DEF TermsSucceed, Sound
    <2>2. UniqueValues(Facts(after))
      BY <1>3, IdxIff DEF TermsSucceed
    <2>3. QED
      BY <2>1, <2>2 DEF Sound
  <1>5. /\ new \in SUBSET LogRow /\ entries \subseteq new
        /\ \A l \in new : l \in entries \/
             /\ l.tx = t /\ l.morse = Main
             /\ IF l.added THEN Fact(l) \in add ELSE Fact(l) \in ret
        /\ \A f \in add : \E l \in new : f = Fact(l) /\ l.added /\ l.tx = t /\ l.morse = Main
        /\ \A f \in ret : \E l \in new : f = Fact(l) /\ ~l.added /\ l.tx = t /\ l.morse = Main
    BY <1>1, <1>2, Inserted DEF Sound
  <1>6. add \cap F = {} /\ ret \subseteq F
    BY DEF Asserted, Withdrawn
  <1>7. \A f \in add : \E u \in s : f = Fact(u) /\ u.added
    BY DEF Asserted
  <1>8. \A f \in ret : f \in F /\ \E u \in s : Replaces(u, f)
    BY DEF Withdrawn
  <1>9. PICK i \in Instants : TxInstantTerm(t, i) \in s
    BY DEF Asked
  <1>10. \A f \in F : f.e < t /\ f.e \in Nat
    BY HeldBelow DEF FactOf
  <1>11. Fact(TxInstantTerm(t, i)) \in add /\ Fact(TxInstantTerm(t, i)).e = t
    <2>1. Fact(TxInstantTerm(t, i)).e = t /\ TxInstantTerm(t, i).added
      BY FactShape DEF TxInstantTerm
    <2>2. Fact(TxInstantTerm(t, i)) \notin F
      BY <1>10, <2>1
    <2>3. QED
      BY <1>9, <2>1, <2>2 DEF Asserted
  <1> HIDE DEF F, after, ret, add
  <1>12. \A l \in transactions(entries) : l.tx \in Nat /\ l.tx < t
    BY <1>1 DEF LogOK, LogRow, transactions
  <1>13. ASSUME NEW n \in Nat, n <= t
         PROVE  Prefix(new, n) = Prefix(entries, n) /\ Held(new, n) = Held(entries, n)
    <2>1. Prefix(new, n) = Prefix(entries, n)
      <3>1. ASSUME NEW l \in new, l.morse = Main, l.tx < n PROVE l \in entries
        BY <1>5, <1>13, <3>1
      <3>2. QED
        BY <1>5, <3>1 DEF Prefix, transactions
    <2>2. QED
      BY <2>1 DEF Held
  <1>14. /\ \A l \in Batch(new, t) : IF l.added THEN Fact(l) \in add ELSE Fact(l) \in ret
         /\ Came(Batch(new, t)) = add /\ Went(Batch(new, t)) = ret
    <2>1. ASSUME NEW l \in Batch(new, t)
          PROVE  IF l.added THEN Fact(l) \in add ELSE Fact(l) \in ret
      <3>1. l \in new /\ l.morse = Main /\ l.tx = t
        BY DEF Batch, transactions
      <3>2. l \notin entries
        BY <1>12, <3>1 DEF transactions
      <3>3. QED
        BY <1>5, <3>1, <3>2
    <2>2. \A f \in add : \E l \in Batch(new, t) : f = Fact(l) /\ l.added
      BY <1>5 DEF Batch, transactions
    <2>3. \A f \in ret : \E l \in Batch(new, t) : f = Fact(l) /\ ~l.added
      BY <1>5 DEF Batch, transactions
    <2>4. QED
      BY <2>1, <2>2, <2>3 DEF Came, Went
  <1>15. Held(new, t) = F
    BY <1>13 DEF F
  <1>16. \A l \in Batch(new, t) : l.added <=> Fact(l) \notin Held(new, t)
    BY <1>6, <1>14, <1>15
  <1>17. Held(new, t + 1) = Facts(after)
    <2>1. Facts(Live(Prefix(new, t) \cup Batch(new, t)))
            = (Held(new, t) \ Went(Batch(new, t))) \cup Came(Batch(new, t))
      <3>1. /\ Prefix(new, t) \in SUBSET LogRow /\ Batch(new, t) \in SUBSET LogRow
            /\ \A l \in Prefix(new, t) : l.morse = Main /\ l.tx < t
            /\ \A l \in Batch(new, t) : l.morse = Main /\ l.tx = t
        BY <1>5, PrefixShape
      <3>2. \A l \in Batch(new, t) : l.added <=> Fact(l) \notin Facts(Live(Prefix(new, t)))
        BY <1>16 DEF Held
      <3> DEFINE P == Prefix(new, t)
                 B == Batch(new, t)
      <3>3. /\ P \in SUBSET LogRow /\ B \in SUBSET LogRow
            /\ \A l \in P : l.morse = Main /\ l.tx < t
            /\ \A l \in B : l.morse = Main /\ l.tx = t
            /\ \A l \in B : l.added <=> Fact(l) \notin Facts(Live(P))
        BY <3>1, <3>2
      <3> HIDE DEF P, B
      <3>4. Facts(Live(P \cup B)) = (Facts(Live(P)) \ Went(B)) \cup Came(B)
        BY <3>3, HoldsStep
      <3>5. QED
        BY <3>4 DEF Held, P, B
    <2>2. QED
      BY <1>3, <1>5, <1>14, <1>15, <2>1, PrefixShape DEF Held
  <1>18. ASSUME NEW n \in Nat, t < n PROVE Held(new, n) = Held(new, t + 1)
    <2>1. \A l \in transactions(new) : l.tx \in Nat /\ l.tx <= t
      BY <1>5, <1>12 DEF transactions
    <2>2. Prefix(new, n) = Prefix(new, t + 1)
      BY <1>18, <2>1 DEF Prefix
    <2>3. QED
      BY <2>2 DEF Held
  <1>19. \A n \in Nat : Sound(Held(new, n))
    <2>1. ASSUME NEW n \in Nat PROVE Sound(Held(new, n))
      <3>1. CASE n <= t
        BY <1>13, <3>1 DEF LogOK
      <3>2. CASE t < n
        BY <1>4, <1>17, <1>18, <3>2
      <3>3. QED
        BY <3>1, <3>2
    <2>2. QED
      BY <2>1
  <1>20. \E m \in transactions(new) : m.tx = t /\ m.e = t
    <2>1. PICK l \in new : Fact(TxInstantTerm(t, i)) = Fact(l) /\ l.tx = t /\ l.morse = Main
      BY <1>5, <1>11
    <2>2. l.e = t
      BY <1>11, <2>1, FactShape
    <2>3. QED
      BY <2>1, <2>2 DEF transactions
  <1>21. ASSUME NEW l \in transactions(new)
         PROVE  /\ Tx0 <= l.tx /\ l.tx < t + 1 /\ l.e <= l.tx
                /\ \E m \in transactions(new) : m.tx = l.tx /\ m.e = l.tx
                /\ l.added <=> Fact(l) \notin Held(new, l.tx)
    <2>1. CASE l \in entries
      <3>1. l \in transactions(entries) /\ l.tx \in Nat /\ l.tx < t
        BY <1>12, <1>21, <2>1 DEF transactions
      <3>2. \E m \in transactions(entries) : m.tx = l.tx /\ m.e = l.tx
        BY <3>1 DEF LogOK
      <3>3. \E m \in transactions(new) : m.tx = l.tx /\ m.e = l.tx
        BY <1>5, <3>2 DEF transactions
      <3>4. Held(new, l.tx) = Held(entries, l.tx)
        BY <1>13, <3>1
      <3>5. QED
        BY <3>1, <3>3, <3>4 DEF LogOK
    <2>2. CASE l \notin entries
      <3>1. l \in new /\ l.tx = t /\ l.morse = Main
        BY <1>5, <1>21, <2>2 DEF transactions
      <3>2. l \in Batch(new, t)
        BY <3>1 DEF Batch, transactions
      <3>3. Fact(l).e <= t
        <4>1. CASE Fact(l) \in add
          BY <1>7, <4>1, FactShape DEF Asked
        <4>2. CASE Fact(l) \in ret
          BY <1>8, <1>10, <4>2
        <4>3. QED
          BY <1>14, <3>2, <4>1, <4>2
      <3>4. l.e <= t
        BY <3>3, FactShape
      <3>5. QED
        BY <1>16, <1>20, <3>1, <3>2, <3>4
    <2>3. QED
      BY <2>1, <2>2
  <1>22. ASSUME NEW l \in new, l \notin entries, l.a = TxInstant PROVE l.added
    <2>1. ASSUME Fact(l) \in ret PROVE FALSE
      <3>1. PICK u \in s : Replaces(u, Fact(l))
        BY <1>8, <2>1
      <3>2. u.e = Fact(l).e /\ u.a = Fact(l).a
        BY <3>1 DEF Replaces, Matches, SameEA
      <3>3. u.e = t
        BY <1>22, <3>2, FactShape DEF Asked
      <3>4. Fact(l).e < t /\ Fact(l).e \in Nat
        BY <1>8, <1>10, <2>1
      <3>5. QED
        BY <3>2, <3>3, <3>4
    <2>2. QED
      BY <1>5, <1>22, <2>1
  <1>23. LogOK(new, t + 1)
    BY <1>5, <1>19, <1>21 DEF LogOK
  <1>24. QED
    BY <1>3, <1>5, <1>17, <1>22, <1>23 DEF after

-----------------------------------------------------------------------------
(* One pass of a rewind. *)

(* The reversed terms of a transaction: they retract what it asserted and  *)
(* assert what it retracted.                                               *)
LEMMA ReversedShape ==
    ASSUME log \in SUBSET LogRow, NEW t \in Nat
    PROVE  /\ reversed_terms_for(t) \in SUBSET Term
           /\ \A u \in reversed_terms_for(t) :
                IF u.added THEN Fact(u) \in Went(Batch(log, t)) ELSE Fact(u) \in Came(Batch(log, t))
           /\ \A f \in Went(Batch(log, t)) : \E u \in reversed_terms_for(t) : f = Fact(u) /\ u.added
           /\ \A f \in Came(Batch(log, t)) : \E u \in reversed_terms_for(t) : f = Fact(u) /\ ~u.added
  <1> DEFINE rev(l) == [e |-> l.e, a |-> l.a, v |-> l.v, added |-> ~l.added]
             B == Batch(log, t)
  <1>1. \A u : u \in reversed_terms_for(t) <=> \E l \in B : u = rev(l)
    BY DEF reversed_terms_for, Batch, transactions
  <1>2. \A l \in B : l \in LogRow
    BY DEF Batch, transactions
  <1>3. \A l \in LogRow : rev(l) \in Term /\ Fact(rev(l)) = Fact(l) /\ rev(l).added = ~l.added
    BY DEF LogRow, Term, Fact
  <1>4. \A f : /\ f \in Came(B) <=> \E l \in B : f = Fact(l) /\ l.added
               /\ f \in Went(B) <=> \E l \in B : f = Fact(l) /\ ~l.added
    BY DEF Came, Went
  <1> HIDE DEF B, rev
  <1>5. ASSUME NEW u \in reversed_terms_for(t)
        PROVE  u \in Term /\ IF u.added THEN Fact(u) \in Went(B) ELSE Fact(u) \in Came(B)
    <2>1. PICK l \in B : u = rev(l)
      BY <1>1
    <2>2. u \in Term /\ Fact(u) = Fact(l) /\ u.added = ~l.added /\ l.added \in BOOLEAN
      BY <1>2, <1>3, <2>1 DEF LogRow
    <2>3. CASE l.added
      BY <1>4, <2>2, <2>3
    <2>4. CASE ~l.added
      BY <1>4, <2>2, <2>4
    <2>5. QED
      BY <2>2, <2>3, <2>4
  <1>6. ASSUME NEW f \in Went(B)
        PROVE  \E u \in reversed_terms_for(t) : f = Fact(u) /\ u.added
    <2>1. PICK l \in B : f = Fact(l) /\ ~l.added
      BY <1>4, <1>6
    <2>2. rev(l) \in reversed_terms_for(t) /\ Fact(rev(l)) = f /\ rev(l).added
      BY <1>1, <1>2, <1>3, <2>1
    <2>3. QED
      BY <2>2
  <1>7. ASSUME NEW f \in Came(B)
        PROVE  \E u \in reversed_terms_for(t) : f = Fact(u) /\ ~u.added
    <2>1. PICK l \in B : f = Fact(l) /\ l.added
      BY <1>4, <1>7
    <2>2. rev(l) \in reversed_terms_for(t) /\ Fact(rev(l)) = f /\ ~rev(l).added
      BY <1>1, <1>2, <1>3, <2>1
    <2>3. QED
      BY <2>2
  <1>8. QED
    BY <1>5, <1>6, <1>7 DEF B

(* The txInstant assertion is a well-formed term.                          *)
LEMMA InstantType ==
    ASSUME NEW t \in Nat, NEW i \in Instants
    PROVE  /\ TxInstantTerm(t, i) \in Term
           /\ TxInstantTerm(t, i).e = t /\ TxInstantTerm(t, i).a = TxInstant
           /\ TxInstantTerm(t, i).added
  BY TopographAssumption, TimelineAssumption DEF TxInstantTerm, Term, Value

(* Transacting the reversed terms of the last transaction that is not      *)
(* undone succeeds, and leaves what held before it: what a transaction     *)
(* asserted and retracted are apart, a value it replaced is alone where it *)
(* is restored, and the phantom's txInstant is the only fact about it.     *)
LEMMA Reversal ==
    ASSUME NEW rows \in SUBSET Row, NEW p \in Nat, LogOK(log, p), Distinct(rows),
           NEW t \in Nat, Facts(rows) = Held(log, t + 1), NEW i \in Instants,
           NEW s, s = reversed_terms_for(t) \cup { TxInstantTerm(p, i) },
           NEW new, new = remove_tx_from_causets(Materialized(rows, search(rows, s), p), p)
    PROVE  /\ TermsSucceed(rows, s, p)
           /\ new \in SUBSET Row /\ Distinct(new)
           /\ Facts(new) = Held(log, t)
  <1> DEFINE F == Facts(rows)
             H == Held(log, t)
             C == Came(Batch(log, t))
             W == Went(Batch(log, t))
             ph == TxInstantTerm(p, i)
             after == Materialized(rows, search(rows, s), p)
  <1>1. log \in SUBSET LogRow
    BY DEF LogOK
  <1>2. F = (H \ W) \cup C /\ W \subseteq H /\ C \cap H = {}
    BY HeldStep
  <1>3. Sound(H) /\ OneValueEach(F)
    <2>1. t + 1 \in Nat
      OBVIOUS
    <2>2. Sound(H) /\ Sound(Held(log, t + 1))
      BY <2>1 DEF LogOK
    <2>3. QED
      BY <2>2 DEF Sound, OneValueEach
  <1>4. \A f \in H \cup F : f.e < p /\ f \in FactOf
    <2>1. t + 1 \in Nat
      OBVIOUS
    <2>2. \A f \in H : f.e < p /\ f \in FactOf
      BY HeldBelow
    <2>3. \A f \in Held(log, t + 1) : f.e < p /\ f \in FactOf
      BY <2>1, HeldBelow
    <2>4. QED
      BY <2>2, <2>3
  <1>5. /\ ph \in Term /\ ph.e = p /\ ph.a = TxInstant /\ ph.added
        /\ Fact(ph).e = p /\ Fact(ph).a = TxInstant
    BY InstantType, FactShape
  <1>6. /\ reversed_terms_for(t) \in SUBSET Term
        /\ \A u \in reversed_terms_for(t) : IF u.added THEN Fact(u) \in W ELSE Fact(u) \in C
        /\ \A f \in W : \E u \in reversed_terms_for(t) : f = Fact(u) /\ u.added
        /\ \A f \in C : \E u \in reversed_terms_for(t) : f = Fact(u) /\ ~u.added
    BY <1>1, ReversedShape
  <1>7. /\ s \in SUBSET Term /\ ph \in s
        /\ \A u \in s : u = ph \/ IF u.added THEN Fact(u) \in W ELSE Fact(u) \in C
        /\ \A f \in W : \E u \in s : f = Fact(u) /\ u.added
        /\ \A f \in C : \E u \in s : f = Fact(u) /\ ~u.added
    BY <1>5, <1>6
  <1>8. \A u, w : SameEA(u, w) <=> Fact(u).e = Fact(w).e /\ Fact(u).a = Fact(w).a
    BY FactShape DEF SameEA
  <1>9. \A f \in H \cup F : f.e # p
    BY <1>4 DEF FactOf
  <1> HIDE DEF F, H, C, W, ph, after
  <1>10. ~cardinality_conflicts(s)
    <2>1. ASSUME NEW u \in s, NEW w \in s, u.added, w.added, SameEA(u, w), u.a \in One, u.v # w.v
          PROVE  FALSE
      <3>1. CASE u = ph
        <4>1. Fact(w).e = p
          BY <1>5, <1>8, <2>1, <3>1
        <4>2. w = ph
          BY <1>2, <1>7, <1>9, <2>1, <4>1
        <4>3. QED
          BY <2>1, <3>1, <4>2
      <3>2. CASE w = ph
        <4>1. Fact(u).e = p
          BY <1>5, <1>8, <2>1, <3>2
        <4>2. u = ph
          BY <1>2, <1>7, <1>9, <2>1, <4>1
        <4>3. QED
          BY <2>1, <3>2, <4>2
      <3>3. CASE u # ph /\ w # ph
        <4>1. Fact(u) \in H /\ Fact(w) \in H
          BY <1>2, <1>7, <2>1, <3>3
        <4>2. SameEA(Fact(u), Fact(w)) /\ Fact(u).a \in One
          BY <2>1, FactShape DEF SameEA
        <4>3. Fact(u) = Fact(w)
          BY <1>3, <4>1, <4>2 DEF Sound, OneValueEach
        <4>4. QED
          BY <2>1, <4>3, FactShape
      <3>4. QED
        BY <3>1, <3>2, <3>3
    <2>2. ASSUME NEW u \in s, NEW w \in s, u.added, ~w.added, SameEAV(u, w) PROVE FALSE
      <3>1. Fact(u) = Fact(w)
        BY <2>2, FactShape
      <3>2. Fact(w) \in C
        BY <1>5, <1>7, <2>2
      <3>3. CASE u = ph
        BY <1>2, <1>5, <1>9, <3>1, <3>2, <3>3
      <3>4. CASE Fact(u) \in W
        BY <1>2, <3>1, <3>2, <3>4
      <3>5. QED
        BY <1>7, <2>2, <3>3, <3>4
    <2>3. QED
      BY <2>1, <2>2 DEF cardinality_conflicts, CardinalityOneAddConflict, AddRetractConflict
  <1>11. Asserted(F, s) = W \cup { Fact(ph) }
    <2>1. ASSUME NEW f \in Asserted(F, s) PROVE f \in W \cup { Fact(ph) }
      BY <1>7 DEF Asserted
    <2>2. Fact(ph) \in Asserted(F, s)
      BY <1>5, <1>7, <1>9 DEF Asserted
    <2>3. ASSUME NEW f \in W PROVE f \in Asserted(F, s)
      <3>1. PICK u \in s : f = Fact(u) /\ u.added
        BY <1>7
      <3>2. f \notin F
        BY <1>2
      <3>3. QED
        BY <3>1, <3>2 DEF Asserted
    <2>4. QED
      BY <2>1, <2>2, <2>3
  <1>12. Withdrawn(F, s) = C
    <2>1. ASSUME NEW f \in F, NEW u \in s, Replaces(u, f) PROVE f \in C
      <3>1. u.e = f.e /\ u.a = f.a /\ (u.a \in One \/ u.v = f.v)
        BY <2>1 DEF Replaces, Matches, SameEA
      <3>2. u # ph
        BY <1>5, <1>9, <3>1
      <3>3. Fact(u).e = f.e /\ Fact(u).a = f.a /\ Fact(u).v = u.v
        BY <3>1, FactShape
      <3>4. CASE ~u.added
        <4>1. Fact(u) \in C /\ Fact(u) \in F
          BY <1>2, <1>7, <3>2, <3>4
        <4>2. CASE u.a \in One
          <5>1. SameEA(Fact(u), f) /\ Fact(u).a \in One
            BY <3>1, <3>3, <4>2 DEF SameEA
          <5>2. Fact(u) = f
            BY <1>3, <4>1, <5>1 DEF OneValueEach
          <5>3. QED
            BY <4>1, <5>2
        <4>3. CASE u.v = f.v
          <5>1. Fact(u) \in FactOf /\ f \in FactOf
            BY <1>4, <4>1
          <5>2. Fact(u) = f
            BY <3>3, <4>3, <5>1 DEF FactOf
          <5>3. QED
            BY <4>1, <5>2
        <4>4. QED
          BY <3>1, <4>2, <4>3
      <3>5. CASE u.added /\ u.a \in One /\ f.v # u.v
        <4>1. Fact(u) \in H
          BY <1>2, <1>7, <3>2, <3>5
        <4>2. SameEA(f, Fact(u)) /\ f.a \in One
          BY <3>1, <3>3, <3>5 DEF SameEA
        <4>3. f \notin H
          BY <1>3, <3>3, <3>5, <4>1, <4>2 DEF Sound, OneValueEach
        <4>4. QED
          BY <1>2, <4>3
      <3>6. QED
        BY <2>1, <3>4, <3>5 DEF Replaces
    <2>2. ASSUME NEW f \in C PROVE f \in F /\ \E u \in s : Replaces(u, f)
      <3>1. PICK u \in s : f = Fact(u) /\ ~u.added
        BY <1>7
      <3>2. Matches(u, f)
        BY <3>1, FactShape DEF Matches, SameEA
      <3>3. QED
        BY <1>2, <3>1, <3>2 DEF Replaces
    <2>3. QED
      BY <2>1, <2>2 DEF Withdrawn
  <1>13. /\ after \in SUBSET Row /\ Distinct(after)
         /\ Facts(after) = (F \ Withdrawn(F, s)) \cup Asserted(F, s)
    BY <1>3, <1>7, MaterializedFacts DEF F, after
  <1>14. Facts(after) = H \cup { Fact(ph) }
    BY <1>2, <1>11, <1>12, <1>13
  <1>15. TermsSucceed(rows, s, p)
    <2>1. search_results_unique(search(rows, s))
      BY <1>3, <1>7, <1>10, SearchUnique DEF F
    <2>2. UniqueValues(H \cup { Fact(ph) })
      BY <1>3, <1>5, TopographAssumption DEF Sound, UniqueValues
    <2>3. UniqueValues(Facts(after))
      BY <1>14, <2>2
    <2>4. idx_causets(after)
      BY <1>13, <2>3, IdxIff
    <2>5. QED
      BY <1>10, <2>1, <2>4 DEF TermsSucceed, after
  <1>16. new = { d \in after : d.e # p }
    BY DEF remove_tx_from_causets, after
  <1>17. new \in SUBSET Row /\ Distinct(new)
    BY <1>13, <1>16 DEF Distinct
  <1>18. ASSUME NEW f PROVE f \in Facts(new) <=> f \in H
    <2>1. ASSUME f \in Facts(new) PROVE f \in H
      <3>1. PICK d \in new : f = Fact(d)
        BY <2>1, FactsIff
      <3>2. d \in after /\ f.e # p
        BY <1>16, <3>1, FactShape
      <3>3. f \in Facts(after)
        BY <3>1, <3>2, FactsIff
      <3>4. QED
        BY <1>5, <1>14, <3>2, <3>3
    <2>2. ASSUME f \in H PROVE f \in Facts(new)
      <3>1. PICK d \in after : f = Fact(d)
        BY <1>14, <2>2, FactsIff
      <3>2. d.e # p
        BY <1>9, <2>2, <3>1, FactShape
      <3>3. QED
        BY <1>16, <3>1, <3>2, FactsIff
    <2>3. QED
      BY <2>1, <2>2
  <1>19. Facts(new) = H
    BY <1>18
  <1>20. QED
    BY <1>15, <1>17, <1>19 DEF H

-----------------------------------------------------------------------------
(* The end of a move. *)

(* max(e) + 1, or the start of an unused partition.                        *)
LEMMA NextIdAbove ==
    ASSUME NEW ids \in SUBSET Nat, NEW start \in Nat, NEW b \in Nat,
           \A i \in ids : start <= i /\ i <= b
    PROVE  /\ NextId(ids, start) \in Nat /\ start <= NextId(ids, start)
           /\ \A i \in ids : i < NextId(ids, start)
  <1>1. CASE ids = {}
    BY <1>1 DEF NextId
  <1>2. CASE ids # {}
    <2>1. \E m \in ids : \A i \in ids : i <= m
      BY <1>2, MaxExists
    <2> DEFINE m == CHOOSE m \in ids : \A i \in ids : i <= m
    <2>2. m \in ids /\ \A i \in ids : i <= m
      BY <2>1
    <2>3. NextId(ids, start) = 1 + m
      BY <1>2 DEF NextId
    <2> HIDE DEF m
    <2>4. m \in Nat /\ start <= m
      BY <2>2
    <2>5. QED
      BY <2>2, <2>3, <2>4
  <1>3. QED
    BY <1>1, <1>2

(* The partition map read back: every transaction has an entry about       *)
(* itself, so that max(e) is not before the last of them.                  *)
LEMMA ReadBack ==
    ASSUME NEW entries \in SUBSET LogRow, NEW b \in Nat,
           \A l \in transactions(entries) :
              /\ Tx0 <= l.tx /\ l.tx < b /\ l.e <= l.tx
              /\ \E m \in transactions(entries) : m.tx = l.tx /\ m.e = l.tx
    PROVE  /\ read_partition_map(entries) \in PartitionMap
           /\ Tx0 <= read_partition_map(entries).tx
           /\ \A l \in transactions(entries) : l.tx < read_partition_map(entries).tx
  <1> DEFINE used == { l.e : l \in transactions(entries) }
             users == { i \in used : User0 <= i /\ i < Tx0 }
             txs == { i \in used : Tx0 <= i }
  <1> USE PartitionAssumption
  <1>1. \A l \in transactions(entries) : l \in LogRow /\ l.e \in Nat /\ l.tx \in Nat
    BY DEF transactions, LogRow
  <1>2. \A i \in used : i \in Nat /\ i <= b
    BY <1>1
  <1>3. users \in SUBSET Nat /\ txs \in SUBSET Nat
    BY <1>2
  <1>4. NextId(users, User0) \in Nat
    <2>1. \A i \in users : User0 <= i /\ i <= b
      BY <1>2
    <2> HIDE DEF users
    <2>2. QED
      BY <1>3, <2>1, NextIdAbove
  <1>5. /\ NextId(txs, Tx0) \in Nat /\ Tx0 <= NextId(txs, Tx0)
        /\ \A i \in txs : i < NextId(txs, Tx0)
    <2>1. \A i \in txs : Tx0 <= i /\ i <= b
      BY <1>2
    <2> HIDE DEF txs
    <2>2. QED
      BY <1>3, <2>1, NextIdAbove
  <1>6. read_partition_map(entries) = [user |-> NextId(users, User0), tx |-> NextId(txs, Tx0)]
    BY DEF read_partition_map
  <1>7. \A l \in transactions(entries) : l.tx \in txs
    <2>1. ASSUME NEW l \in transactions(entries) PROVE l.tx \in txs
      <3>1. PICK m \in transactions(entries) : m.tx = l.tx /\ m.e = l.tx
        OBVIOUS
      <3>2. l.tx \in used /\ Tx0 <= l.tx
        BY <3>1
      <3>3. QED
        BY <3>2
    <2>2. QED
      BY <2>1
  <1> HIDE DEF users, txs
  <1>8. QED
    BY <1>4, <1>5, <1>6, <1>7 DEF PartitionMap

(* Relabelling the transactions from k on leaves those before k on the     *)
(* main timeline, and with them what they say.                             *)
LEMMA RelabelledShape ==
    ASSUME NEW p \in Nat, LogOK(log, p), NEW k \in Nat,
           NEW txs, \A t \in Txs(log) : t \in txs <=> k <= t,
           NEW timeline \in Timelines,
           NEW new, new = Relabelled(txs, timeline)
    PROVE  /\ new \in SUBSET LogRow
           /\ transactions(new) = Prefix(log, k)
           /\ LogOK(new, read_partition_map(new).tx)
           /\ read_partition_map(new) \in PartitionMap
           /\ Tx0 <= read_partition_map(new).tx
           /\ \A n \in Nat : k <= n => Held(new, n) = Held(log, k)
  <1> DEFINE f(l) == [l EXCEPT !.morse = IF l.tx \in txs THEN timeline ELSE @]
  <1>1. log \in SUBSET LogRow /\ timeline \in Nat /\ timeline # Main /\ Main \in Nat
    BY TimelineAssumption DEF LogOK, Main
  <1>2. \A l \in LogRow : /\ f(l) \in LogRow
                          /\ l.tx \in txs => f(l).morse = timeline
                          /\ l.tx \notin txs => f(l) = l
    BY <1>1 DEF LogRow
  <1>3. \A m : m \in new <=> \E l \in log : m = f(l)
    BY DEF Relabelled
  <1> HIDE DEF f
  <1>4. new \in SUBSET LogRow
    BY <1>1, <1>2, <1>3
  <1>5. \A l \in log : l.morse = Main => (l.tx \in txs <=> k <= l.tx)
    BY DEF Txs, transactions
  <1>6. \A l \in log : l.tx \in Nat
    BY <1>1 DEF LogRow
  <1>7. transactions(new) = Prefix(log, k)
    <2>1. ASSUME NEW m \in new, m.morse = Main PROVE m \in Prefix(log, k)
      <3>1. PICK l \in log : m = f(l)
        BY <1>3
      <3>2. l.tx \notin txs
        BY <1>1, <1>2, <2>1, <3>1
      <3>3. m = l
        BY <1>1, <1>2, <3>1, <3>2
      <3>4. ~(k <= l.tx)
        BY <1>5, <2>1, <3>2, <3>3
      <3>5. QED
        BY <1>6, <2>1, <3>3, <3>4 DEF Prefix, transactions
    <2>2. ASSUME NEW l \in Prefix(log, k) PROVE l \in new /\ l.morse = Main
      <3>1. l \in log /\ l.morse = Main /\ l.tx < k
        BY DEF Prefix, transactions
      <3>2. l.tx \notin txs
        BY <1>5, <1>6, <3>1
      <3>3. l = f(l)
        BY <1>1, <1>2, <3>1, <3>2
      <3>4. QED
        BY <1>3, <3>1, <3>3
    <2>3. QED
      BY <2>1, <2>2 DEF transactions
  <1>8. ASSUME NEW n \in Nat, k <= n PROVE Prefix(new, n) = Prefix(log, k)
    BY <1>6, <1>7, <1>8 DEF Prefix, transactions
  <1>9. ASSUME NEW n \in Nat, n <= k PROVE Prefix(new, n) = Prefix(log, n)
    BY <1>6, <1>7, <1>9 DEF Prefix, transactions
  <1>10. \A l \in transactions(new) : l \in transactions(log) /\ l.tx \in Nat /\ l.tx < k
    BY <1>6, <1>7 DEF Prefix, transactions
  <1>11. ASSUME NEW l \in transactions(new)
         PROVE  /\ Tx0 <= l.tx /\ l.tx < p /\ l.e <= l.tx
                /\ \E m \in transactions(new) : m.tx = l.tx /\ m.e = l.tx
                /\ l.added <=> Fact(l) \notin Held(new, l.tx)
    <2>1. PICK m \in transactions(log) : m.tx = l.tx /\ m.e = l.tx
      BY <1>10 DEF LogOK
    <2>2. m \in transactions(new)
      BY <1>7, <1>10, <2>1 DEF Prefix
    <2>3. Held(new, l.tx) = Held(log, l.tx)
      BY <1>9, <1>10 DEF Held
    <2>4. QED
      BY <1>10, <2>1, <2>2, <2>3 DEF LogOK
  <1>12. /\ read_partition_map(new) \in PartitionMap
         /\ Tx0 <= read_partition_map(new).tx
         /\ \A l \in transactions(new) : l.tx < read_partition_map(new).tx
    BY <1>4, <1>11, ReadBack
  <1>13. \A n \in Nat : Sound(Held(new, n))
    <2>1. ASSUME NEW n \in Nat PROVE Sound(Held(new, n))
      <3>1. CASE n <= k
        BY <1>9, <3>1 DEF LogOK, Held
      <3>2. CASE k <= n
        BY <1>8, <3>2 DEF LogOK, Held
      <3>3. QED
        BY <3>1, <3>2
    <2>2. QED
      BY <2>1
  <1>14. LogOK(new, read_partition_map(new).tx)
    BY <1>4, <1>11, <1>12, <1>13 DEF LogOK
  <1>15. QED
    BY <1>4, <1>7, <1>8, <1>12, <1>14 DEF Held

-----------------------------------------------------------------------------
(* The inductive invariant, action by action. *)

TopoFact == [e : Nat, a : Topo, v : Value]

(* The topograph stays one.                                                *)
LEMMA TopographType ==
    ASSUME NEW old \in SUBSET TopoFact, NEW rows \in SUBSET Row, NEW s \in SUBSET Term,
           NEW t \in Nat, Distinct(rows), OneValueEach(Facts(rows))
    PROVE  LET new == resolved_spacetime(old, search(rows, s), t)
           IN  /\ new.some \in BOOLEAN
               /\ new.some => new.is \in SUBSET TopoFact
               /\ KeepOr(old, new) \in SUBSET TopoFact
  <1> DEFINE r == search(rows, s)
             added == TopoFacts(AddedRows(r, t))
             retracted == TopoFacts(RetractedRows(r))
  <1>1. AddedRows(r, t) \in SUBSET Row
    BY Effect
  <1>2. added \in SUBSET TopoFact
    BY <1>1, FactShape DEF TopoFacts, Facts, FactOf, TopoFact
  <1> HIDE DEF added, retracted
  <1>3. \/ resolved_spacetime(old, r, t) = None
        \/ resolved_spacetime(old, r, t) = Some((old \ retracted) \cup added)
    BY DEF resolved_spacetime, added, retracted
  <1> HIDE DEF r
  <1>4. CASE resolved_spacetime(old, r, t) = None
    BY <1>4 DEF None, KeepOr, r
  <1>5. CASE resolved_spacetime(old, r, t) = Some((old \ retracted) \cup added)
    BY <1>2, <1>5 DEF Some, KeepOr, r
  <1>6. QED
    BY <1>3, <1>4, <1>5

(* What holds after all transactions is what the view of the log says.     *)
LEMMA HeldAll ==
    ASSUME NEW entries \in SUBSET LogRow, NEW k \in Nat, \A t \in Txs(entries) : t < k
    PROVE  Held(entries, k) = Facts(Live(entries))
  <1>1. Prefix(entries, k) = transactions(entries)
    BY DEF Prefix, Txs
  <1>2. Live(transactions(entries)) = Live(entries)
    BY DEF Live, transactions
  <1>3. QED
    BY <1>1, <1>2 DEF Held

(* The terms a transaction can ask for.                                    *)
LEMMA PoolType ==
    ASSUME NEW p \in PartitionMap, NEW t \in Nat, NEW sizes,
           NEW terms \in TermSets(TermPool(p, t), sizes), NEW i \in Instants
    PROVE  Asked(terms \cup { TxInstantTerm(t, i) }, t)
  <1>1. ASSUME NEW u \in TermPool(p, t) PROVE u \in Term /\ u.e <= t /\ u.a # TxInstant
    BY <1>1, PartitionAssumption, TopographAssumption DEF TermPool, Term, Value
  <1>2. ASSUME NEW u \in terms PROVE u \in TermPool(p, t)
    <2>1. PICK f \in UNION { [1 .. n -> TermPool(p, t)] : n \in sizes } :
            terms = { f[j] : j \in DOMAIN f }
      BY DEF TermSets
    <2>2. PICK n \in sizes : f \in [1 .. n -> TermPool(p, t)]
      BY <2>1
    <2>3. QED
      BY <1>2, <2>1, <2>2
  <1>3. QED
    BY <1>1, <1>2, InstantType DEF Asked

(* The bootstrap transaction satisfies the invariant.                      *)
LEMMA InitInd == Init => Ind
  <1> SUFFICES ASSUME Init PROVE Ind
    OBVIOUS
  <1> USE PartitionAssumption
  <1>0. PICK i \in Instants :
        LET r == search({}, { TxInstantTerm(Tx0, i) })
        IN  /\ causets = AddedRows(r, Tx0)
            /\ log = insert_transaction({}, r, Tx0)
    BY DEF Init
  <1> DEFINE s == { TxInstantTerm(Tx0, i) }
             r == search({}, s)
  <1>1. /\ part = allocate_causetids(bootstrap_partition_map, 0) /\ topograph = {}
        /\ rewind = {} /\ moving = {} /\ target = Main /\ last = None /\ failed = "no"
    BY DEF Init
  <1>2. Asked(s, Tx0) /\ s \in SUBSET Term
    BY InstantType DEF Asked
  <1>3. \A n \in Nat : Held({}, n) = {}
    BY DEF Held, Prefix, transactions, Live, Facts
  <1>4. LogOK({}, Tx0)
    BY <1>3 DEF LogOK, transactions, Sound, OneValueEach, UniqueValues
  <1>5. Distinct({}) /\ Facts({}) = {} /\ OneValueEach({})
    BY DEF Distinct, Facts, OneValueEach
  <1>6. causets = Materialized({}, r, Tx0)
    BY <1>0 DEF Materialized, update_causets_insert, update_causets_delete
  <1>7. TermsSucceed({}, s, Tx0)
    <2>1. ~cardinality_conflicts(s)
      BY InstantType DEF cardinality_conflicts, CardinalityOneAddConflict, AddRetractConflict
    <2>2. search_results_unique(r)
      BY <1>2, <1>5, <2>1, SearchUnique
    <2>3. /\ causets \in SUBSET Row /\ Distinct(causets)
          /\ Facts(causets) = (Facts({}) \ Withdrawn(Facts({}), s)) \cup Asserted(Facts({}), s)
      <3>1. {} \in SUBSET Row /\ Distinct({}) /\ OneValueEach(Facts({})) /\ s \in SUBSET Term
        BY <1>2, <1>5
      <3>2. causets = Materialized({}, search({}, s), Tx0)
        BY <1>6
      <3> HIDE DEF s
      <3>3. QED
        BY <3>1, <3>2, MaterializedFacts
    <2>4. \A f \in Facts(causets) : f = Fact(TxInstantTerm(Tx0, i))
      BY <1>5, <2>3 DEF Asserted
    <2>5. UniqueValues(Facts(causets))
      BY <2>4 DEF UniqueValues
    <2>6. idx_causets(causets)
      BY <2>3, <2>5, IdxIff
    <2>7. QED
      BY <1>6, <2>1, <2>2, <2>6 DEF TermsSucceed
  <1>8. /\ LogOK(log, Tx0 + 1) /\ causets \in SUBSET Row /\ Distinct(causets)
        /\ Facts(causets) = Held(log, Tx0 + 1)
        /\ \A l \in log \ {} : l.a = TxInstant => l.added
    <2>1. PICK none : none = {}
      OBVIOUS
    <2>2. /\ none \in SUBSET Row /\ LogOK(none, Tx0) /\ Distinct(none)
          /\ Facts(none) = Held(none, Tx0) /\ Tx0 <= Tx0 /\ Tx0 \in Nat
      BY <1>3, <1>4, <1>5, <2>1
    <2>3. /\ Asked(s, Tx0) /\ TermsSucceed(none, s, Tx0)
          /\ log = insert_transaction(none, search(none, s), Tx0)
          /\ causets = Materialized(none, search(none, s), Tx0)
      BY <1>0, <1>2, <1>6, <1>7, <2>1
    <2> HIDE DEF s, r
    <2>4. /\ LogOK(log, Tx0 + 1) /\ causets \in SUBSET Row /\ Distinct(causets)
          /\ Facts(causets) = Held(log, Tx0 + 1)
          /\ \A l \in log \ none : l.a = TxInstant => l.added
      BY <2>2, <2>3, Extended
    <2>5. QED
      BY <2>1, <2>4
  <1>9. part \in PartitionMap /\ part.tx = Tx0 + 1
    BY <1>1 DEF allocate_causetids, bootstrap_partition_map, PartitionMap
  <1>10. TypeOK
    BY <1>1, <1>8, <1>9 DEF TypeOK, LogOK, None, Main
  <1>11. StoreInv
    <2>1. ASSUME NEW l \in transactions(log) PROVE ~(Tx0 + 1 <= l.tx)
      <3>1. l.tx < Tx0 + 1 /\ l \in LogRow
        BY <1>8 DEF LogOK, transactions
      <3>2. QED
        BY <3>1 DEF LogRow
    <2>2. QED
      BY <1>1, <1>8, <2>1 DEF StoreInv, Txs
  <1>12. MoveInv
    BY <1>1 DEF MoveInv
  <1>13. QED
    BY <1>1, <1>8, <1>9, <1>10, <1>11, <1>12 DEF Ind, RewindSucceeds, NoPhantomRetraction

(* An ordinary transaction.                                                *)
LEMMA TransactInd == Ind /\ transact => Ind'
  <1> SUFFICES ASSUME Ind, transact PROVE Ind'
    OBVIOUS
  <1>0. /\ TypeOK /\ LogOK(log, part.tx) /\ part \in PartitionMap /\ part.tx \in Nat /\ Tx0 <= part.tx
        /\ log \in SUBSET LogRow /\ causets \in SUBSET Row /\ topograph \in SUBSET TopoFact
    BY DEF Ind, TypeOK, PartitionMap, TopoFact
  <1>1. PICK n \in 0 .. 1, i \in Instants :
         LET p == allocate_causetids(part, n)
         IN  /\ \E terms \in TermSets(TermPool(p, part.tx), Sizes) :
                  LET s == terms \cup { TxInstantTerm(part.tx, i) }
                      r == search(causets, s)
                  IN  /\ TermsSucceed(causets, s, part.tx)
                      /\ causets' = Materialized(causets, r, part.tx)
                      /\ log' = insert_transaction(log, r, part.tx)
                      /\ topograph' = KeepOr(topograph, resolved_spacetime(topograph, r, part.tx))
             /\ part' = p
    BY DEF transact
  <1>2. part' \in PartitionMap /\ part'.tx = part.tx + 1
    BY <1>0, <1>1 DEF allocate_causetids, PartitionMap
  <1>3. PICK terms \in TermSets(TermPool(part', part.tx), Sizes) :
          LET s == terms \cup { TxInstantTerm(part.tx, i) }
              r == search(causets, s)
          IN  /\ TermsSucceed(causets, s, part.tx)
              /\ causets' = Materialized(causets, r, part.tx)
              /\ log' = insert_transaction(log, r, part.tx)
              /\ topograph' = KeepOr(topograph, resolved_spacetime(topograph, r, part.tx))
    BY <1>1
  <1> DEFINE s == terms \cup { TxInstantTerm(part.tx, i) }
             r == search(causets, s)
  <1>4. Asked(s, part.tx) /\ s \in SUBSET Term
    BY <1>0, <1>2, PoolType DEF Asked
  <1>5. target = Main /\ moving = {} /\ UNCHANGED <<rewind, moving, target, last, failed>>
    BY DEF transact, Ind, MoveInv
  <1>6. Distinct(causets) /\ Facts(causets) = Held(log, part.tx)
    <2>1. PICK k \in Nat : /\ Facts(causets) = Held(log, k)
                           /\ \A t \in Txs(log) : t \in moving \ rewind <=> k <= t
      BY DEF Ind, StoreInv
    <2>2. \A t \in Txs(log) : t \in Nat /\ t < part.tx
      BY <1>0 DEF Txs, LogOK, LogRow, transactions
    <2>3. \A t \in Txs(log) : t < k
      BY <1>5, <2>1, <2>2
    <2>4. Held(log, k) = Facts(Live(log)) /\ Held(log, part.tx) = Facts(Live(log))
      BY <1>0, <2>2, <2>3, HeldAll
    <2>5. QED
      BY <2>1, <2>4 DEF Ind, StoreInv
  <1>7. /\ LogOK(log', part.tx + 1) /\ causets' \in SUBSET Row /\ Distinct(causets')
        /\ Facts(causets') = Held(log', part.tx + 1) /\ log \subseteq log'
        /\ \A l \in log' \ log : l.a = TxInstant => l.added
    <2>1. /\ TermsSucceed(causets, s, part.tx) /\ log' = insert_transaction(log, search(causets, s), part.tx)
          /\ causets' = Materialized(causets, search(causets, s), part.tx)
      BY <1>3
    <2> HIDE DEF s
    <2>2. QED
      BY <1>0, <1>4, <1>6, <2>1, Extended
  <1>8. topograph' \in SUBSET TopoFact
    <2>1. OneValueEach(Facts(causets))
      <3>1. Sound(Held(log, part.tx))
        BY <1>0 DEF LogOK
      <3>2. QED
        BY <1>6, <3>1 DEF Sound, OneValueEach
    <2>2. topograph' = KeepOr(topograph, resolved_spacetime(topograph, search(causets, s), part.tx))
      BY <1>3
    <2> HIDE DEF s
    <2>3. QED
      BY <1>0, <1>4, <1>6, <2>1, <2>2, TopographType
  <1>9. TypeOK'
    BY <1>0, <1>2, <1>5, <1>7, <1>8 DEF TypeOK, LogOK, TopoFact
  <1>10. Tx0 <= part'.tx /\ LogOK(log', part'.tx)
    BY <1>0, <1>2, <1>7, PartitionAssumption
  <1>11. StoreInv'
    <2>1. \A t \in Txs(log') : ~(part.tx + 1 <= t)
      BY <1>0, <1>7 DEF LogOK, Txs, transactions, LogRow
    <2>2. part.tx + 1 \in Nat
      BY <1>0
    <2>3. QED
      BY <1>5, <1>7, <2>1, <2>2 DEF StoreInv
  <1>12. MoveInv'
    BY <1>5 DEF MoveInv
  <1>13. RewindSucceeds' /\ NoPhantomRetraction'
    BY <1>5, <1>7 DEF Ind, RewindSucceeds, NoPhantomRetraction
  <1>14. QED
    BY <1>9, <1>10, <1>11, <1>12, <1>13 DEF Ind

(* The beginning of a move.                                                *)
LEMMA MoveInd == Ind /\ move_from_main_discrete_morse => Ind'
  <1> SUFFICES ASSUME Ind, move_from_main_discrete_morse PROVE Ind'
    OBVIOUS
  <1>1. PICK timeline \in Timelines, from \in Tx0 .. (part.tx - 1) :
          /\ target' = timeline
          /\ moving' = collect_ordered_txs_to_move(from)
          /\ rewind' = collect_ordered_txs_to_move(from)
    BY DEF move_from_main_discrete_morse
  <1>2. /\ target = Main /\ last' = None
        /\ UNCHANGED <<causets, log, part, topograph, failed>>
    BY DEF move_from_main_discrete_morse
  <1>3. \A t \in Txs(log) : t \in Nat
    BY DEF Ind, TypeOK, Txs, transactions, LogRow
  <1>4. \A t : t \in moving' <=> t \in Txs(log) /\ from <= t
    BY <1>1 DEF collect_ordered_txs_to_move, Txs
  <1>5. moving' = rewind' /\ moving = {}
    BY <1>1, <1>2 DEF Ind, MoveInv
  <1>6. TypeOK'
    BY <1>1, <1>2, <1>3, <1>4, <1>5 DEF Ind, TypeOK, None
  <1>7. target' # Main
    BY <1>1, TimelineAssumption
  <1>8. MoveInv'
    <2>1. from \in Int /\ Txs(log)' = Txs(log)
      BY <1>2, PartitionAssumption DEF Txs
    <2>2. QED
      BY <1>3, <1>4, <1>7, <2>1 DEF MoveInv
  <1>9. StoreInv'
    BY <1>2, <1>5 DEF Ind, StoreInv
  <1>10. RewindSucceeds'
    <2>1. rewind = {} /\ failed # "terms"
      BY <1>5 DEF Ind, TypeOK, RewindSucceeds
    <2>2. failed' # "terms" /\ failed' # "topograph"
      BY <1>2, <2>1 DEF Ind, RewindSucceeds
    <2>3. QED
      BY <2>2 DEF RewindSucceeds
  <1>11. QED
    BY <1>2, <1>6, <1>8, <1>9, <1>10 DEF Ind, NoPhantomRetraction

(* A pass that the topograph refuses reverses something said about it.     *)
LEMMA RefusedTouches ==
    ASSUME TimelineAssumption, NEW rows \in SUBSET Row, NEW t, NEW i, NEW p, NEW old,
           ~TopographSucceeds(old,
               search(rows, reversed_terms_for(t) \cup { TxInstantTerm(p, i) }), p)
    PROVE  \E l \in log : l.tx = t /\ l.a \in Topo
  <1> DEFINE s == reversed_terms_for(t) \cup { TxInstantTerm(p, i) }
             r == search(rows, s)
             added == TopoFacts(AddedRows(r, p))
             retracted == TopoFacts(RetractedRows(r))
  <1>1. added # {} \/ retracted # {}
    BY DEF TopographSucceeds, Refused
  <1>2. \A q \in r : q.term \in s /\ (q.old # NoRow => q.old.a = q.term.a)
    BY DEF search, Matches, SameEA
  <1>3. \E q \in r : q.term.a \in Topo
    <2>1. ASSUME NEW f \in added PROVE \E q \in r : q.term.a \in Topo
      <3>1. PICK d \in AddedRows(r, p) : f = Fact(d) /\ f.a \in Topo
        BY <2>1 DEF TopoFacts, Facts
      <3>2. PICK q \in r : d = [e |-> q.term.e, a |-> q.term.a, v |-> q.term.v, tx |-> p]
        BY <3>1 DEF AddedRows
      <3>3. f.a = q.term.a
        BY <3>1, <3>2 DEF Fact
      <3>4. QED
        BY <3>1, <3>3
    <2>2. ASSUME NEW f \in retracted PROVE \E q \in r : q.term.a \in Topo
      <3>1. PICK d \in RetractedRows(r) : f = Fact(d) /\ f.a \in Topo
        BY <2>2 DEF TopoFacts, Facts
      <3>2. PICK q \in r : d = q.old /\ q.old # NoRow
        BY <3>1 DEF RetractedRows, Retracts
      <3>3. f.a = q.term.a
        BY <1>2, <3>1, <3>2 DEF Fact
      <3>4. QED
        BY <3>1, <3>3
    <2>3. QED
      BY <1>1, <2>1, <2>2
  <1>4. PICK q \in r : q.term \in s /\ q.term.a \in Topo
    BY <1>2, <1>3
  <1>5. TxInstantTerm(p, i).a \notin Topo
    BY DEF TxInstantTerm, TimelineAssumption
  <1>6. q.term \in reversed_terms_for(t)
    BY <1>4, <1>5
  <1>7. PICK l \in log : l.tx = t /\ q.term.a = l.a
    BY <1>6 DEF reversed_terms_for, transactions
  <1>8. QED
    BY <1>4, <1>7

(* A pass of the rewind.                                                   *)
LEMMA RewindInd == Ind /\ rewind_transaction => Ind'
  <1> SUFFICES ASSUME Ind, rewind_transaction PROVE Ind'
    OBVIOUS
  <1> DEFINE t == NextToRewind(rewind)
  <1>0. /\ LogOK(log, part.tx) /\ part \in PartitionMap /\ part.tx \in Nat
        /\ log \in SUBSET LogRow /\ causets \in SUBSET Row /\ topograph \in SUBSET TopoFact
        /\ rewind \subseteq moving /\ moving \in SUBSET Nat /\ moving \subseteq Txs(log)
        /\ Distinct(causets) /\ rewind # {}
    BY DEF Ind, TypeOK, StoreInv, MoveInv, PartitionMap, TopoFact, rewind_transaction
  <1>1. \A u \in Txs(log) : u \in Nat /\ u < part.tx
    BY <1>0 DEF Txs, LogOK, LogRow, transactions
  <1>2. t \in rewind /\ \A u \in rewind : u <= t
    <2>1. \E m \in rewind : \A u \in rewind : u <= m
      <3>1. rewind \in SUBSET Nat /\ rewind # {} /\ \A u \in rewind : u <= part.tx
        BY <1>0, <1>1
      <3>2. QED
        BY <1>0, <3>1, MaxExists
    <2>2. QED
      BY <2>1 DEF NextToRewind
  <1>3. PICK i \in Instants :
          LET s == reversed_terms_for(t) \cup { TxInstantTerm(part.tx, i) }
              r == search(causets, s)
          IN  /\ failed' = IF ~TermsSucceed(causets, s, part.tx) THEN "terms"
                           ELSE IF ~TopographSucceeds(topograph, r, part.tx) THEN "topograph"
                           ELSE "no"
              /\ IF failed' = "no"
                 THEN /\ causets' = remove_tx_from_causets(
                                      Materialized(causets, r, part.tx), part.tx)
                      /\ last' = resolved_spacetime(topograph, r, part.tx)
                      /\ rewind' = rewind \ {t}
                 ELSE UNCHANGED <<causets, last, rewind>>
    BY DEF rewind_transaction
  <1>4. UNCHANGED <<log, part, topograph, moving, target>>
    BY DEF rewind_transaction
  <1> HIDE DEF t
  <1>5. PICK k \in Nat : /\ Facts(causets) = Held(log, k)
                         /\ \A u \in Txs(log) : u \in moving \ rewind <=> k <= u
    BY DEF Ind, StoreInv
  <1>6. t \in Nat /\ t \in Txs(log) /\ t \in moving /\ t < k
    BY <1>0, <1>1, <1>2, <1>5
  <1>7. \A u \in Txs(log) : t < u => u \in moving /\ u \notin rewind /\ k <= u
    <2>1. \A u \in Txs(log) : t < u => u \in moving
      BY <1>1, <1>6 DEF Ind, MoveInv
    <2>2. \A u \in Txs(log) : t < u => u \notin rewind
      BY <1>1, <1>2, <1>6
    <2>3. QED
      BY <1>5, <2>1, <2>2
  <1>8. Facts(causets) = Held(log, t + 1)
    <2>1. \A u \in Txs(log) : u < k <=> u < t + 1
      BY <1>1, <1>6, <1>7
    <2>2. Prefix(log, k) = Prefix(log, t + 1)
      BY <2>1 DEF Prefix, Txs
    <2>3. QED
      BY <1>5, <2>2 DEF Held
  <1> DEFINE s == reversed_terms_for(t) \cup { TxInstantTerm(part.tx, i) }
             new == remove_tx_from_causets(Materialized(causets, search(causets, s), part.tx), part.tx)
  <1>9. /\ TermsSucceed(causets, s, part.tx) /\ new \in SUBSET Row /\ Distinct(new)
        /\ Facts(new) = Held(log, t)
    BY <1>0, <1>6, <1>8, Reversal
  <1>10. CASE ~TopographSucceeds(topograph, search(causets, s), part.tx)
    <2>1. failed' = "topograph" /\ UNCHANGED <<causets, last, rewind>>
      BY <1>3, <1>9, <1>10
    <2>2. \E l \in log : l.tx = t /\ l.a \in Topo
      BY <1>0, <1>10, RefusedTouches, TimelineAssumption
    <2>3. \E l \in log' : l.tx \in rewind' /\ l.a \in Topo
      BY <1>2, <1>4, <2>1, <2>2
    <2>4. RewindSucceeds'
      BY <2>1, <2>3 DEF RewindSucceeds
    <2>5. TypeOK'
      BY <1>4, <2>1 DEF Ind, TypeOK
    <2>6. StoreInv' /\ MoveInv'
      BY <1>4, <2>1 DEF Ind, StoreInv, MoveInv, Txs
    <2>7. QED
      BY <1>4, <2>4, <2>5, <2>6 DEF Ind, NoPhantomRetraction
  <1>11. CASE TopographSucceeds(topograph, search(causets, s), part.tx)
    <2>1. /\ causets' = new /\ rewind' = rewind \ {t} /\ failed' = "no"
          /\ last' = resolved_spacetime(topograph, search(causets, s), part.tx)
      BY <1>3, <1>9, <1>11
    <2>2. s \in SUBSET Term
      BY <1>0, <1>6, ReversedShape, InstantType
    <2> HIDE DEF s, new
    <2>3. /\ last'.some \in BOOLEAN
          /\ last'.some => last'.is \in SUBSET TopoFact
      <3>1. OneValueEach(Facts(causets))
        <4>1. Sound(Held(log, t + 1))
          BY <1>0, <1>6 DEF LogOK
        <4>2. QED
          BY <1>8, <4>1 DEF Sound, OneValueEach
      <3>2. QED
        BY <1>0, <2>1, <2>2, <3>1, TopographType
    <2>4. TypeOK'
      <3>1. causets' \in SUBSET Row /\ rewind' \subseteq moving'
        BY <1>0, <1>4, <1>9, <2>1
      <3>2. log' = log /\ part' = part /\ topograph' = topograph /\ moving' = moving /\ target' = target
        BY <1>4
      <3>3. QED
        BY <2>1, <2>3, <3>1, <3>2 DEF Ind, TypeOK, TopoFact
    <2>5. StoreInv'
      <3>1. \A u \in Txs(log) : u \in moving \ (rewind \ {t}) <=> t <= u
        BY <1>0, <1>1, <1>5, <1>6, <1>7
      <3>2. Facts(causets') = Held(log, t) /\ Distinct(causets')
        BY <1>9, <2>1
      <3>3. log' = log /\ moving' = moving /\ rewind' = rewind \ {t}
        BY <1>4, <2>1
      <3>4. QED
        BY <1>6, <3>1, <3>2, <3>3 DEF StoreInv
    <2>6. MoveInv'
      BY <1>4 DEF Ind, MoveInv, Txs
    <2>7. QED
      BY <1>4, <2>1, <2>4, <2>5, <2>6 DEF Ind, RewindSucceeds, NoPhantomRetraction
  <1>12. QED
    BY <1>10, <1>11

(* The end of a move.                                                      *)
LEMMA EndInd == Ind /\ move_transactions_to => Ind'
  <1> SUFFICES ASSUME Ind, move_transactions_to PROVE Ind'
    OBVIOUS
  <1>0. /\ LogOK(log, part.tx) /\ part.tx \in Nat /\ log \in SUBSET LogRow
        /\ target \in Timelines /\ rewind = {}
    BY DEF Ind, TypeOK, PartitionMap, move_transactions_to
  <1>1. /\ log' = Relabelled(moving, target)
        /\ part' = read_partition_map(log')
        /\ topograph' = KeepOr(topograph, last)
        /\ target' = Main /\ moving' = {} /\ last' = None
        /\ UNCHANGED <<causets, rewind, failed>>
    BY DEF move_transactions_to
  <1>2. PICK k \in Nat : /\ Facts(causets) = Held(log, k)
                         /\ \A t \in Txs(log) : t \in moving \ rewind <=> k <= t
    BY DEF Ind, StoreInv
  <1>3. \A t \in Txs(log) : t \in moving <=> k <= t
    BY <1>0, <1>2
  <1>4. /\ log' \in SUBSET LogRow /\ transactions(log') = Prefix(log, k)
        /\ LogOK(log', part'.tx) /\ part' \in PartitionMap /\ Tx0 <= part'.tx
        /\ \A n \in Nat : k <= n => Held(log', n) = Held(log, k)
    <2>1. PICK new : new = Relabelled(moving, target)
      OBVIOUS
    <2>2. /\ new \in SUBSET LogRow /\ transactions(new) = Prefix(log, k)
          /\ LogOK(new, read_partition_map(new).tx)
          /\ read_partition_map(new) \in PartitionMap
          /\ Tx0 <= read_partition_map(new).tx
          /\ \A n \in Nat : k <= n => Held(new, n) = Held(log, k)
      <3>1. PICK p \in Nat : p = part.tx
        BY <1>0
      <3>2. PICK txs : txs = moving
        OBVIOUS
      <3>3. PICK timeline \in Timelines : timeline = target
        BY <1>0
      <3>4. LogOK(log, p) /\ new = Relabelled(txs, timeline)
        BY <1>0, <2>1, <3>1, <3>2, <3>3
      <3>5. \A t \in Txs(log) : t \in txs <=> k <= t
        BY <1>3, <3>2
      <3>6. QED
        BY <3>4, <3>5, RelabelledShape
    <2>3. new = log' /\ part' = read_partition_map(new)
      BY <1>1, <2>1
    <2>4. QED
      BY <2>2, <2>3
  <1>5. topograph' \in SUBSET TopoFact
    BY <1>1 DEF Ind, TypeOK, KeepOr, TopoFact
  <1>6. TypeOK'
    BY <1>0, <1>1, <1>4, <1>5 DEF Ind, TypeOK, None, TopoFact
  <1>7. StoreInv'
    <2>1. Facts(causets') = Held(log', k)
      BY <1>1, <1>2, <1>4
    <2>2. ASSUME NEW l \in transactions(log') PROVE ~(k <= l.tx)
      <3>1. l \in LogRow /\ l.tx < k
        BY <1>0, <1>4 DEF Prefix, transactions
      <3>2. QED
        BY <3>1 DEF LogRow
    <2>3. Distinct(causets') /\ moving' \ rewind' = {}
      BY <1>1 DEF Ind, StoreInv
    <2>4. QED
      BY <2>1, <2>2, <2>3 DEF StoreInv, Txs
  <1>8. MoveInv'
    BY <1>1 DEF MoveInv
  <1>9. NoPhantomRetraction'
    <2>1. ASSUME NEW l \in log', l.a = TxInstant PROVE l.added
      <3>1. PICK m \in log : l = [m EXCEPT !.morse = IF m.tx \in moving THEN target ELSE @]
        BY <1>1 DEF Relabelled
      <3>2. m \in LogRow
        BY <1>0
      <3>3. l.a = m.a /\ l.added = m.added
        BY <3>1, <3>2 DEF LogRow
      <3>4. QED
        BY <2>1, <3>3 DEF Ind, NoPhantomRetraction
    <2>2. QED
      BY <2>1 DEF NoPhantomRetraction
  <1>10. RewindSucceeds'
    <2>1. failed' # "terms" /\ failed' # "topograph"
      BY <1>0, <1>1 DEF Ind, RewindSucceeds
    <2>2. QED
      BY <2>1 DEF RewindSucceeds
  <1>11. QED
    BY <1>1, <1>4, <1>6, <1>7, <1>8, <1>9, <1>10 DEF Ind

(* A step that changes nothing.                                            *)
LEMMA StutterInd == Ind /\ UNCHANGED vars => Ind'
  BY DEF Ind, vars, TypeOK, StoreInv, MoveInv, RewindSucceeds, NoPhantomRetraction

(* Every step keeps the invariant.                                         *)
LEMMA NextInd == Ind /\ [Next]_vars => Ind'
  BY TransactInd, MoveInd, RewindInd, EndInd, StutterInd DEF Next

-----------------------------------------------------------------------------
(* The log always accounts for the store: its transactions assert what did *)
(* not hold and retract what did, the store holds what the ones not undone *)
(* yet leave, and those moved are the last ones.                           *)
THEOREM LogAccounts == Spec => []Ind
  BY InitInd, NextInd, PTL DEF Spec

(* The state always has its type.                                          *)
THEOREM TypeInvariant == Spec => []TypeOK
  <1>1. Ind => TypeOK
    BY DEF Ind
  <1>2. QED
    BY <1>1, LogAccounts, PTL

(* When no move is under way the store holds exactly what the transactions *)
(* left on the main timeline say: a move undoes the transactions it moves  *)
(* and nothing else (move_from_main_discrete_morse).                       *)
THEOREM RewoundInvariant == Spec => []RewoundToLog
  <1>1. Ind => RewoundToLog
    <2> SUFFICES ASSUME Ind, target = Main PROVE Facts(causets) = Facts(Live(log))
      BY DEF RewoundToLog
    <2>1. moving = {} /\ log \in SUBSET LogRow
      BY DEF Ind, MoveInv, TypeOK
    <2>2. PICK k \in Nat : /\ Facts(causets) = Held(log, k)
                           /\ \A t \in Txs(log) : t \in moving \ rewind <=> k <= t
      BY DEF Ind, StoreInv
    <2>3. \A t \in Txs(log) : t \in Nat /\ t < k
      BY <2>1, <2>2 DEF Txs, transactions, LogRow
    <2>4. QED
      BY <2>1, <2>2, <2>3, HeldAll
  <1>2. QED
    BY <1>1, LogAccounts, PTL

(* A pass of the rewind never fails on its terms: they do not conflict,    *)
(* and the state it restores violates no unique index.  What the topograph *)
(* refuses may be anything, as long as it concerns the topograph.          *)
THEOREM RewindInvariant == Spec => []RewindSucceeds
  <1>1. Ind => RewindSucceeds
    BY DEF Ind
  <1>2. QED
    BY <1>1, LogAccounts, PTL

(* No transaction ever retracts a txInstant, the phantom's included        *)
(* (remove_tx_from_causets).                                               *)
THEOREM PhantomInvariant == Spec => []NoPhantomRetraction
  <1>1. Ind => NoPhantomRetraction
    BY DEF Ind
  <1>2. QED
    BY <1>1, LogAccounts, PTL
=============================================================================
