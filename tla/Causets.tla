------------------------------- MODULE Causets -------------------------------
(***************************************************************************)
(* The relational core of the causet store: what the BerolinaSQL           *)
(* statements of einstein_db/src/einsteindb.rs compute, as operators on    *)
(* sets of rows.  No state lives here; CausetStore and DiscreteMorse are   *)
(* the state machines built on these operators.                            *)
(*                                                                         *)
(* A row of the table `causets` is [e, a, v, tx]; a row of the table       *)
(* `discrete_morsed_transactions` is [e, a, v, tx, added, morse], where    *)
(* morse is the discrete_morse (timeline) it belongs to.  The type tag is  *)
(* part of the value, the index flags are functions of the attribute.      *)
(***************************************************************************)
EXTENDS Integers, FiniteSets

CONSTANTS
    Attrs,      \* attributes of the topograph
    One,        \* those of :einsteindb.cardinality/one
    Unique,     \* those with :einsteindb/unique
    Refs,       \* those of value type :einsteindb.type/ref
    TxInstant,  \* :einsteindb/txInstant
    Values,     \* values of the other attributes
    User0,      \* first causetid of :einsteindb.part/user
    Tx0,        \* first causetid of :einsteindb.part/tx
    NoRow       \* the NULL of an unmatched LEFT JOIN

ASSUME TopographAssumption ==
    /\ One \subseteq Attrs
    /\ Unique \subseteq Attrs
    /\ Refs \subseteq Attrs
    /\ TxInstant \in One /\ TxInstant \notin Unique \cup Refs

ASSUME PartitionAssumption ==
    /\ User0 \in Nat
    /\ Tx0 \in Nat
    /\ User0 < Tx0

Main == 0     \* discrete_morse_MAIN

Value == Values \cup Nat
Term == [e : Nat, a : Attrs, v : Value, added : BOOLEAN]
Row == [e : Nat, a : Attrs, v : Value, tx : Nat]
LogRow == [e : Nat, a : Attrs, v : Value, tx : Nat, added : BOOLEAN, morse : Nat]
PartitionMap == [user : Nat, tx : Nat]

ASSUME NoRowAssumption == NoRow \notin Row

SameEA(x, y) == x.e = y.e /\ x.a = y.a
SameEAV(x, y) == SameEA(x, y) /\ x.v = y.v

-----------------------------------------------------------------------------
(* The checks the transactor makes on the terms of one transaction. *)

CardinalityOneAddConflict(terms) ==
    \E s, t \in terms : /\ s.added /\ t.added
                        /\ SameEA(s, t) /\ s.a \in One
                        /\ s.v # t.v

\* Variant: two distinct values of one cardinality-one attribute are let in.
CardinalityConflictsNoAdds(terms) ==
    \E s, t \in terms : s.added /\ ~t.added /\ SameEAV(s, t)

AddRetractConflict(terms) ==
    \E s, t \in terms : s.added /\ ~t.added /\ SameEAV(s, t)

cardinality_conflicts(terms) ==
    CardinalityOneAddConflict(terms) \/ AddRetractConflict(terms)

-----------------------------------------------------------------------------
(* The temporary search tables. A term of a cardinality-one attribute is an *)
(* inexact search (by e and a), any other an exact one (by e, a and v).     *)

inexact_searches_unique(searches) ==
    \A s, t \in searches :
        (s.added /\ t.added /\ s.a \in One /\ SameEA(s, t)) => s = t

Matches(t, d) == SameEA(t, d) /\ (t.a \in One \/ t.v = d.v)

\* LEFT JOIN: a search without a match yields one row with NULLs.
search(rows, searches) ==
    { r \in [term : searches, old : rows \cup {NoRow}] :
        IF r.old = NoRow
        THEN \A d \in rows : ~Matches(r.term, d)
        ELSE Matches(r.term, r.old) }

search_results_unique(results) ==
    \A r, s \in results : SameEAV(r.term, s.term) => r = s

\* added0 IS 1 AND (rid IS NULL OR v0 IS NOT v)
Adds(r) == /\ r.term.added
           /\ r.old = NoRow \/ r.old.v # r.term.v

\* Variant: only explicit retractions; a replaced value stays.
RetractsExplicit(r) == r.old # NoRow /\ ~r.term.added

\* rid IS NOT NULL AND (added0 IS 0 OR (cardinality/one AND v0 IS NOT v))
Retracts(r) == /\ r.old # NoRow
               /\ \/ ~r.term.added
                  \/ r.term.a \in One /\ r.old.v # r.term.v

-----------------------------------------------------------------------------
(* The two effects of a transaction: on the materialized view and the log. *)

RetractedRows(results) == { r.old : r \in { s \in results : Retracts(s) } }

AddedRows(results, tx) ==
    { [e |-> r.term.e, a |-> r.term.a, v |-> r.term.v, tx |-> tx] :
        r \in { s \in results : Adds(s) } }

update_causets_delete(rows, results) == rows \ RetractedRows(results)

update_causets_insert(rows, results, tx) == rows \cup AddedRows(results, tx)

\* The unique indices eavt, aevt, avet (one key, three orders) and
\* unique_causet_locale of the table `causets`.
idx_causets(rows) ==
    \A c, d \in rows :
        \/ c = d
        \/ ~SameEAV(c, d) /\ ~(c.a = d.a /\ c.v = d.v /\ c.a \in Unique)

LogEntry(d, tx, isAdd) ==
    [e |-> d.e, a |-> d.a, v |-> d.v, tx |-> tx, added |-> isAdd, morse |-> Main]

\* Variant: retractions are not logged.
InsertOnlyAdds(log, results, tx) ==
    log \cup { LogEntry(d, tx, TRUE) : d \in AddedRows(results, tx) }

\* Variant: retractions that found nothing are logged too.
InsertEveryRetraction(log, results, tx) ==
    log \cup { LogEntry(d, tx, TRUE) : d \in AddedRows(results, tx) }
        \cup { LogEntry(d, tx, FALSE) : d \in RetractedRows(results) }
        \cup { LogEntry(r.term, tx, FALSE) : r \in { q \in results : ~q.term.added } }

insert_transaction(log, results, tx) ==
    log \cup { LogEntry(d, tx, TRUE) : d \in AddedRows(results, tx) }
        \cup { LogEntry(d, tx, FALSE) : d \in RetractedRows(results) }

-----------------------------------------------------------------------------
(* Partitions. *)

bootstrap_partition_map == [user |-> User0, tx |-> Tx0]

\* The view `transactions`.
transactions(log) == { l \in log : l.morse = Main }

\* Variant: max(e), the last causetid in use.
LastId(ids, start) ==
    IF ids = {} THEN start
    ELSE CHOOSE m \in ids : \A i \in ids : i <= m

\* max(e) + 1 over the main timeline, or the start of an unused partition.
NextId(ids, start) ==
    IF ids = {} THEN start
    ELSE 1 + (CHOOSE m \in ids : \A i \in ids : i <= m)

read_partition_map(log) ==
    LET used == { l.e : l \in transactions(log) }
    IN  [user |-> NextId({ i \in used : User0 <= i /\ i < Tx0 }, User0),
         tx   |-> NextId({ i \in used : Tx0 <= i }, Tx0)]

contains_causetid(part, i) ==
    \/ User0 <= i /\ i < part.user
    \/ Tx0 <= i /\ i < part.tx

-----------------------------------------------------------------------------
(* What one transaction asks for. *)

\* The transactor asserts the instant of the transaction it applies.
TxInstantTerm(t, i) == [e |-> t, a |-> TxInstant, v |-> i, added |-> TRUE]

\* Terms over causetids the partition map contains; (transaction-tx) is the
\* transaction itself.
TermPool(p, t) ==
    LET ids == { i \in User0 .. t : contains_causetid(p, i) }
    IN  [e : ids, a : (Attrs \ Refs) \ {TxInstant}, v : Values, added : BOOLEAN]
          \cup [e : ids, a : Refs, v : ids, added : BOOLEAN]

\* The sets of as many of these terms as one of the sizes allows.
TermSets(pool, sizes) ==
    { { f[i] : i \in DOMAIN f } : f \in UNION { [1 .. n -> pool] : n \in sizes } }

\* A tempid is allocated only for an assertion, in either position.
Mentions(t, i) == t.added /\ (t.e = i \/ (t.a \in Refs /\ t.v = i))

allocate_causetids(p, n) == [user |-> p.user + n, tx |-> p.tx + 1]

-----------------------------------------------------------------------------
(* What the materialized view is a view of: the assertions of the main     *)
(* timeline that no later retraction of the main timeline cancels.         *)

Live(log) ==
    { [e |-> l.e, a |-> l.a, v |-> l.v, tx |-> l.tx] :
        l \in { m \in transactions(log) :
                  /\ m.added
                  /\ \A n \in transactions(log) :
                       (~n.added /\ SameEAV(m, n)) => n.tx < m.tx } }

=============================================================================
