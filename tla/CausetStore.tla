----------------------------- MODULE CausetStore -----------------------------
(***************************************************************************)
(* The storage layer of einstein_db/src/einsteindb.rs as the transactor    *)
(* drives it.  One SQLite transaction is open at a time; inside it any     *)
(* number of EinsteinDB transactions are applied, each through the stages  *)
(*                                                                         *)
(*   open -> begun -> searched -> materialized -> open                     *)
(*                                                                         *)
(* and COMMIT or ROLLBACK ends it.  A failed statement leaves the working  *)
(* tables as they are and only a rollback follows (Conn::transact drops    *)
(* the InProgress).  A crash loses the working tables and everything in    *)
(* memory; ensure_current_version reads the store back.                    *)
(***************************************************************************)
EXTENDS Causets

CONSTANTS
    Instants,   \* values of :einsteindb/txInstant
    MaxTerms,   \* bound: terms of one transaction besides its txInstant
    MaxNew,     \* bound: tempids allocated by one transaction
    MaxUser,    \* bound: causetids of the user partition
    MaxTx,      \* bound: causetids of the tx partition
    MaxLog      \* bound: rows of the log plus terms to apply

ASSUME BoundAssumption ==
    /\ Instants \subseteq Values
    /\ MaxTerms \in Nat /\ MaxNew \in Nat /\ MaxUser \in Nat /\ MaxTx \in Nat
    /\ MaxLog \in Nat
    /\ User0 + MaxUser <= Tx0

VARIABLES
    db,         \* what SQLite has committed: [version, causets, log]
    spacetime,  \* the partition map of the open connection
    causets,    \* the table `causets` inside the SQLite transaction
    log,        \* `discrete_morsed_transactions` inside it
    part,       \* the partition map of the transaction in progress
    stage,      \* how far the transaction has come
    tx,         \* causetid of the EinsteinDB transaction being applied
    searches,   \* temp.exact_searches and temp.inexact_searches
    results,    \* temp.search_results
    error       \* the statement that failed

vars == <<db, spacetime, causets, log, part, stage, tx, searches, results, error>>

Version == {0, 1}      \* user_version: 0 is an empty file
CURRENT_VERSION == 1
Stages == {"closed", "idle", "open", "begun", "searched", "materialized", "failed"}
Errors == {"none", "cardinality_conflicts", "inexact_searches_unique",
           "CouldNotSearch", "causetsUpdateFailedToAdd"}

Database == [version : Version, causets : SUBSET Row, log : SUBSET LogRow]

TypeOK ==
    /\ db \in Database
    /\ spacetime \in PartitionMap
    /\ causets \in SUBSET Row
    /\ log \in SUBSET LogRow
    /\ part \in PartitionMap
    /\ stage \in Stages
    /\ tx \in Nat
    /\ searches \in SUBSET Term
    /\ results \in SUBSET [term : Term, old : Row \cup {NoRow}]
    /\ error \in Errors

-----------------------------------------------------------------------------
Init ==
    /\ db = [version |-> 0, causets |-> {}, log |-> {}]
    /\ spacetime = bootstrap_partition_map
    /\ causets = {} /\ log = {}
    /\ part = bootstrap_partition_map
    /\ stage = "closed"
    /\ tx = 0
    /\ searches = {} /\ results = {}
    /\ error = "none"

\* Load memory from what is committed.
Load(version, rows, entries, p) ==
    /\ db' = [version |-> version, causets |-> rows, log |-> entries]
    /\ spacetime' = p
    /\ causets' = rows /\ log' = entries
    /\ part' = p
    /\ stage' = "idle"
    /\ tx' = 0 /\ searches' = {} /\ results' = {} /\ error' = "none"

\* One exclusive SQLite transaction: the tables, the user version and the
\* bootstrap transaction.
create_current_version(i) ==
    LET r == search({}, { TxInstantTerm(Tx0, i) })
    IN  Load(CURRENT_VERSION,
             update_causets_insert({}, r, Tx0),
             insert_transaction({}, r, Tx0),
             allocate_causetids(bootstrap_partition_map, 0))

read_einsteindb ==
    Load(db.version, db.causets, db.log, read_partition_map(db.log))

ensure_current_version ==
    /\ stage = "closed"
    /\ \/ db.version = 0 /\ \E i \in Instants : create_current_version(i)
       \/ db.version = CURRENT_VERSION /\ read_einsteindb

begin_transaction ==
    /\ stage = "idle"
    /\ stage' = "open"
    /\ UNCHANGED <<db, spacetime, causets, log, part, tx, searches, results, error>>

\* How many terms the bounds leave to a transaction.
Sizes == { n \in 0 .. MaxTerms : Cardinality(log) + n <= MaxLog }

\* The transactor's checks, the temporary tables and the searches.
begin_tx_application ==
    /\ stage = "open"
    /\ part.tx < Tx0 + MaxTx
    /\ \E n \in 0 .. MaxNew, i \in Instants :
         LET p == allocate_causetids(part, n)
         IN  /\ p.user <= User0 + MaxUser
             /\ part' = p
             /\ \E terms \in TermSets(TermPool(p, part.tx), Sizes) :
                  LET s == terms \cup { TxInstantTerm(part.tx, i) }
                  IN  /\ \A j \in part.user .. (p.user - 1) :
                           \E t \in terms : Mentions(t, j)
                      /\ searches' = s
                      /\ error' = IF cardinality_conflicts(s) THEN "cardinality_conflicts"
                                  ELSE IF ~inexact_searches_unique(s) THEN "inexact_searches_unique"
                                  ELSE "none"
    /\ stage' = IF error' = "none" THEN "begun" ELSE "failed"
    /\ tx' = part.tx
    /\ results' = {}
    /\ UNCHANGED <<db, spacetime, causets, log>>

\* First half of materialize_EinsteinDB_transaction.
do_search ==
    /\ stage = "begun"
    /\ LET r == search(causets, searches)
       IN  IF search_results_unique(r)
           THEN results' = r /\ stage' = "searched" /\ error' = "none"
           ELSE results' = {} /\ stage' = "failed" /\ error' = "CouldNotSearch"
    /\ UNCHANGED <<db, spacetime, causets, log, part, tx, searches>>

\* Second half: DELETE, then INSERT, which fails on a violated unique index.
update_causets ==
    /\ stage = "searched"
    /\ LET deleted == update_causets_delete(causets, results)
           inserted == update_causets_insert(deleted, results, tx)
       IN  IF idx_causets(inserted)
           THEN causets' = inserted /\ stage' = "materialized" /\ error' = "none"
           ELSE causets' = deleted /\ stage' = "failed" /\ error' = "causetsUpdateFailedToAdd"
    /\ UNCHANGED <<db, spacetime, log, part, tx, searches, results>>

commit_EinsteinDB_transaction ==
    /\ stage = "materialized"
    /\ log' = insert_transaction(log, results, tx)
    /\ stage' = "open"
    /\ UNCHANGED <<db, spacetime, causets, part, tx, searches, results, error>>

commit ==
    /\ stage = "open"
    /\ db' = [db EXCEPT !.causets = causets, !.log = log]
    /\ spacetime' = part
    /\ stage' = "idle"
    /\ UNCHANGED <<causets, log, part, tx, searches, results, error>>

rollback ==
    /\ stage \notin {"closed", "idle"}
    /\ causets' = db.causets /\ log' = db.log
    /\ part' = spacetime
    /\ stage' = "idle"
    /\ tx' = 0 /\ searches' = {} /\ results' = {} /\ error' = "none"
    /\ UNCHANGED <<db, spacetime>>

crash ==
    /\ stage # "closed"
    /\ causets' = {} /\ log' = {}
    /\ spacetime' = bootstrap_partition_map
    /\ part' = bootstrap_partition_map
    /\ stage' = "closed"
    /\ tx' = 0 /\ searches' = {} /\ results' = {} /\ error' = "none"
    /\ UNCHANGED db

Next ==
    \/ ensure_current_version
    \/ begin_transaction
    \/ begin_tx_application
    \/ do_search
    \/ update_causets
    \/ commit_EinsteinDB_transaction
    \/ commit
    \/ rollback
    \/ crash

Spec == Init /\ [][Next]_vars

-----------------------------------------------------------------------------
(* Between two EinsteinDB transactions the table `causets`, the tx column   *)
(* included, holds exactly the assertions of the log that are not retracted *)
(* (update_causets and insert_transaction are two readings of one           *)
(* search_results), and so does what SQLite has committed.                  *)
ViewMatchesLog ==
    /\ stage \in {"idle", "open"} => causets = Live(log)
    /\ db.causets = Live(db.log)

(* No entity ever has two values of a cardinality-one attribute, in any     *)
(* stage: no index of the store enforces this, the inexact search does.     *)
CardinalityOne ==
    \A c, d \in causets : (SameEA(c, d) /\ c.a \in One) => c = d

(* The two temporary unique indices that "validate the transactor" never    *)
(* fire: its own checks come first.                                         *)
NoOpaqueFailure == error \notin {"inexact_searches_unique", "CouldNotSearch"}

(* The next transaction id is above every one the log uses, in memory and   *)
(* for a store that crashes now and is read back.                           *)
TxIdsFresh ==
    /\ \A l \in log : l.tx < part.tx
    /\ \A l \in db.log : l.tx < read_partition_map(db.log).tx

(* The log tells of each causet assertions and retractions in turn: between *)
(* two entries of the same kind a transaction has the opposite one, and a   *)
(* retraction has an assertion before it.                                   *)
LogAlternates ==
    /\ \A l, m \in log :
         (SameEAV(l, m) /\ l.tx < m.tx /\ (l.added <=> m.added)) =>
             \E n \in log : /\ SameEAV(l, n) /\ (n.added <=> ~l.added)
                            /\ l.tx < n.tx /\ n.tx < m.tx
    /\ \A m \in log :
         ~m.added => \E n \in log : n.added /\ SameEAV(m, n) /\ n.tx < m.tx

(* What is committed is never rewritten: transactions only append, and a    *)
(* transaction id that has been committed receives no further entries, not  *)
(* even after a crash and a reopen.                                         *)
HistoryImmutable ==
    [][ /\ db.log \subseteq db'.log
        /\ \A l \in db'.log \ db.log : \A m \in db.log : m.tx < l.tx ]_vars

(* Seen from outside, the store is a history that grows by whole and        *)
(* sensible transactions and the causets that follow from it: the searches, *)
(* the two writes, the temporary tables and their failures, a rollback or a *)
(* crash at any point, and the reopening, all stay behind that.             *)
History == INSTANCE CausetHistory WITH
    committed <- db.log, current <- db.causets,
    pending <- log, running <- (stage # "closed")

ImplementsHistory == History!Spec

(* Retracting an element that is not present leaves the store alone: every  *)
(* row about to be deleted is retracted by value or replaced.               *)
RetractAbsentIsNoop ==
    stage = "searched" =>
        \A d \in RetractedRows(results) :
            \E t \in searches :
                \/ ~t.added /\ SameEAV(t, d)
                \/ t.added /\ SameEA(t, d) /\ t.a \in One /\ t.v # d.v

(* A causetid handed out as fresh names nothing the store already mentions. *)
FreshAllocation ==
    [][ stage = "open" /\ stage' = "begun" =>
          \A i \in part.user .. (part'.user - 1) :
              \A d \in causets : d.e # i /\ ~(d.a \in Refs /\ d.v = i) ]_vars
=============================================================================
