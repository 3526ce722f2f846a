# EinsteinDB: a TLA+ verification project

EinsteinDB stores *causets* `[e a v]` (entity, attribute, value) in SQLite. Every
transaction appends to a log, and the table of current causets is a materialized
view of that log. This directory holds TLA+ modules of the parts of the repository
that carry state and logic of their own, TLC configurations that check them on small
instances, and TLAPS proofs of the most important results for every instance.

Paths below are relative to the repository, with these short names:

| short | file |
|---|---|
| `einsteindb.rs` | `src/einstein_db/src/einsteindb.rs` |
| `conn.rs` | `src/einstein_db/src/conn.rs` |
| `discrete_morse.rs` | `src/soliton/discrete_morse.rs` |
| `tx_observer.rs` | `src/causetq/src/tx_observer.rs` |
| `upsert_resolution.rs` | `src/causetq/src/upsert_resolution.rs` |
| `fsm.rs` | `src/engine_test/src/fsm.rs` |
| `cache.rs` | `src/soliton/cache.rs` |
| `mod.rs` | `src/einstein_db_alexandrov_processing/mod.rs` |
| `read_pool.rs` | `src/soliton/read_pool.rs` |
| `spacetime.rs` | `src/allegro_poset/spacetime.rs` |
| `schema.rs` | `src/fdb_traits/src/schema.rs` |
| `decimal.rs` | `src/berolinasql/src/decimal.rs` |

`PROJECT.json` maps every definition to its lines and lists runs, mutants, findings,
hazards and theorems in machine-readable form.

Use, in this directory:

    tlc -workers 2 -config CausetStore.cfg CausetStore      # a run
    tlapm CausetStoreProofs.tla                             # the proofs

## 1. Inventory

The repository has 931 source files. Many are declarations without bodies, several
copies of a type in different crates, or adaptations of other projects' utilities.
The parts whose control flow can be followed from start to end are these.

**Causet store** (`einsteindb.rs`, `conn.rs`).
*State*: the SQLite tables `causets` and `discrete_morsed_transactions`, the temporary
tables `exact_searches`, `inexact_searches` and `search_results` of the transaction
being applied, `user_version`, and in memory the partition map, which says which
causetid each partition hands out next.
*Operations*: `ensure_current_version` (create and bootstrap, or read back),
`begin_tx_application`, `insert_non_fts_searches`,
`materialize_EinsteinDB_transaction` (`search`, then `update_causets`),
`commit_EinsteinDB_transaction` (`insert_transaction`), commit, rollback.
*Hard*: the view and the log are written by two functions with their own WHERE
clauses; cardinality one has no index that enforces it; a failed INSERT leaves the
DELETEs before it applied; the partition map after a reopen is computed otherwise
than in memory.
*Correct when*: the view is the log's, every cardinality-one attribute has at most
one value, ids are fresh across crashes, history is only appended to.

**Timelines** (`discrete_morse.rs`).
*State*: the timeline column of the log, and the store's state.
*Operation*: `move_from_main_discrete_morse` rewinds transactions, relabels their
rows and reads the partition map back. It works through the transactor: each
transaction's reversed terms are transacted under a phantom transaction id.
*Hard*: order of the rewinds, ids used again afterwards, the topograph and partition
map handed from pass to pass.
*Correct when*: the store is what the remaining transactions say, the rewind fails
only where the topograph may not go back, the phantom leaves no trace, other timelines
are left alone.

**Transaction observers** (`tx_observer.rs`, `src/soliton/watcher.rs`).
*State*: a map of observers behind an `Arc`, attributes collected by the writer, a
channel of commands that hold a `Weak` to the map, an executor thread.
*Hard*: registrations race commands in the channel; several transactions share one
commit; a transaction id is used again after a rollback; the thread must end.
*Correct when*: exactly the observers registered at a commit hear of it, with the
attributes that transaction touched, in commit order.

**Upsert resolution** (`upsert_resolution.rs`).
*State*: a `Generation` of five populations of terms, the tempids resolved so far.
*Operations*: `from`, `evolve_one_step` in a loop, `allocate_unresolved_upserts`,
`temp_ids_in_allocations`, `into_final_populations`.
*Hard*: a term changes population from generation to generation depending on the
store; tempids are unioned; `unreachable!()` relies on all of this.
*Correct when*: the loop ends, no term is lost or made up, tempids get one causetid
exactly when they must.

**Automaton cell** (`fsm.rs`).
*State*: an atomic status and an atomic pointer.
*Operations*: `take_turing_automata`, `notify`, `release`, `clear`, `Drop`.
*Hard*: two atomics and no lock; raw pointers.
*Correct when*: no panic, the box is in one place, is freed at most once, and a
taken one comes back.

**Transactor.** `tx.rs` and `InProgress` are referred to and are not in the
repository. Their part in the above (allocation of causetids, the `txInstant`
assertion, the loop over generations, commit and rollback) is modelled from how the
code uses it and marked external in the map.

**Attribute cache** (`cache.rs`, `Conn::cache` in `conn.rs`).
*State*: which attributes are cached in which direction, a map from entities to
values and one from values to entities for each; the same again as an overlay for an
InProgress, with the attributes it has unregistered; whether a reader holds a clone.
*Operations*: `register`, `unregister`, `repopulate` from the store,
`update_with_fallback` by the watcher of a transaction, `commit_to`, the getters.
*Hard*: copy on write from the committed cache, sentinels that hide what it still
has, a population from rows that are not committed.
*Correct when*: a cache that is consulted answers what the rows say, the committed
one what is committed.

**Change capture** (`mod.rs`: `Sentinel`, `Downstream`, `Pending`).
*State*: waiting and accepted downstreams with their states, the locks that wait for
the resolver, the resolver, the flag of the observer.
*Operations*: `subscribe`, `unsubscribe`, `on_region_ready`, `on_mutant_search` (the
scan of a snapshot), `sink_data`, `on_min_ts`, `stop`.
*Hard*: the resolver is built from a snapshot while commands go on; scan and
broadcast are not ordered; downstreams come, are refused and go at any time.
*Correct when*: a resolved timestamp is a promise that is kept.

**Read pool** (`read_pool.rs`).
*State*: a gauge of running tasks and a limit.
*Operations*: `spawn`, `spawn_handle`.
*Hard*: the check and the increment are two steps; the task returns its own slot.
*Correct when*: the limit is exceeded by little, slots come back, callers are
answered.

**Topograph** (`spacetime.rs`, `schema.rs`, `update_spacetime` in `einsteindb.rs`).
*State*: what is known of the attributes, three times: causets, the views
`solitonids` and `topograph`, and the `Topograph` in memory.
*Operations*: a transaction that installs, alters, renames or removes attributes, and
reading the views back.
*Hard*: memory and views are computed by different code from the same change; an
alteration meets data that is there already.
*Correct when*: the three agree and the data respects them.

**Decimals** (`decimal.rs`).
*State*: none of its own; a running value of words and two digit counts.
*Operations*: the arithmetic operators, rounding, order, hash, conversions.
*Hard*: carries through words of different alignment, a fixed buffer, guesses of a
long division, results that are operands again.
*Correct when*: what is reported as exact is.

Two further parts have state and are not modelled: **fulltext search**
(`insert_fts_searches` in `einsteindb.rs`) and **vocabularies**. The other components
(query algebra, einstein_ml reader, datum encoding, configuration, engine adapters,
server) are translations, conversions, wrappers or declarations; section 9 says why
they are left out.

How the parts interact: the transactor resolves tempids (UpsertResolution), checks
the terms, and applies them to the store (CausetStore) through the SQLite
statements; a watcher sees every causet, and after the COMMIT the observers are told
(TxObservation) and the caches of the InProgress absorbed (AttributeCache); terms
about attributes change the Topograph; DiscreteMorse calls the transactor again with
reversed terms. Causets is the part CausetStore and DiscreteMorse share. Change
capture, read pool, automaton cell and decimals stand alone.

## 2. Modules

| module | models | lines of the source |
|---|---|---|
| `Causets` | what the SQL statements compute, as operators on sets of rows | `einsteindb.rs` 665-693, 786-813, 963-1002, 1090-1193, 1263-1322; `cardinality_conflicts` in `src/fdb_traits/src/violetabft_engine.rs` |
| `CausetStore` | opening, the stages of a transaction, commit, rollback, crash | `einsteindb.rs` 753-862, 1027-1035, 1263-1386, 1505-1514; `conn.rs` 433-500 |
| `CausetStoreProofs` | its theorems, and the proof that it implements `CausetHistory` | |
| `CausetHistory` | abstract specification: an append-only history whose view is derived | |
| `DiscreteMorse` | moving transactions off the main timeline | `discrete_morse.rs` 38-181; `einsteindb.rs` 1510-1543, 1587-1678; `spacetime.rs` 418-467 |
| `MCDiscreteMorse` | an attribute whose facts have a solitonid and a cardinality | |
| `DiscreteMorseProofs` | its theorems | |
| `TxObservation` | service, watcher, command, executor | `tx_observer.rs` 349-357, 469-596 |
| `MCTxObservation` | what each of two observers registers for | |
| `TxObservationProofs` | its theorems | |
| `UpsertResolution` | every method of `Generation` | `upsert_resolution.rs` 83-373; `resolve_avs` 1196-1260 of `einsteindb.rs` |
| `MCUpsertResolution` | the transactions that are checked | |
| `UpsertResolutionProofs` | its theorems | |
| `FsmState` | the cell, one step per atomic operation | `fsm.rs` 265-350 |
| `AttributeCache` | committed cache, overlay of an InProgress, watcher, commit | `cache.rs` 345-395, 559-751, 907-1300, 1496-2048; `conn.rs` 279-281, 501-536 |
| `MCAttributeCache` | symmetry for TLC | |
| `AttributeCacheProofs` | its theorems | |
| `Sentinel` | the change capture of a region | `mod.rs` 113-815 |
| `SentinelProofs` | its theorems | |
| `ReadPool` | spawning against the limit | `read_pool.rs` 118-194 |
| `ThreadProofs` | the theorems of `FsmState` and `ReadPool` | |
| `Topograph` | alteration of attributes, views, reading back | `spacetime.rs` 338-732; `schema.rs` 97-300, 356-362; `einsteindb.rs` 1004-1035, 1587-1672 |
| `TopographProofs` | its theorems | |
| `MCTopograph` | symmetry for TLC | |
| `Decimal` | arithmetic, rounding, order, conversion | `decimal.rs` 316-961, 967-1178, 1326-1521, 1668-1890, 2469-2604 |
| `MCDecimal` | the literals and scales that are checked | |

Operators with a comment "Variant:" are plausible mistakes in the
definition that follows them. They take part in no specification; each is substituted
for that definition to show that some property notices.

### CausetStore

| variable | code |
|---|---|
| `db` | what SQLite has committed: user_version and the two tables |
| `spacetime` | the partition map of the connection |
| `causets`, `log` | the tables as the open SQLite transaction sees them |
| `part` | the partition map of the transaction in progress |
| `stage`, `error` | which statement comes next, or which one failed |
| `tx`, `searches`, `results` | the transaction id and the temporary tables |

A row has `e`, `a`, `v`, `tx`; the type tag is part of the value and the index flags
are functions of the attribute. A transaction passes through

    open -> begun -> searched -> materialized -> open

with a failure possible in the first three and a rollback or a crash possible
everywhere. `begin_transaction`, `commit` and `rollback` bracket any number of them.
`update_causets` fails after its DELETE has been applied, as the two SQL statements
do. Terms are sets, arbitrary up to `MaxTerms`, over causetids the partition map
contains, the transaction's own id included. Attributes are cardinality one or many,
unique or not, references or not, as the constants say.

### DiscreteMorse

An ordinary transaction is one step (`transact`), the move is a start, one step for
each pass of the loop, and an end in which the caller takes over topograph and
partition map (`update_conn`). The topograph is the set of facts about the attributes
in `Topo`: `resolved_spacetime` is the part of `TransactorAction::Materialize` that
answers `None` if the terms say nothing about it. Each pass starts from the caller's
topograph and partition map, as the code does.

A transaction, of a rewind or not, may fail in two ways. `TermsSucceed` is what the
transactor and the unique indices ask of the terms. `TopographSucceeds` is what the
update of the topograph in the same SQLite transaction asks of the facts in `Topo`:
`Refused` has the two errors that a change of an attribute can meet after a successful
installation, an alteration that `update_spacetime` does not make (`OneWay`, of which
many to one is the instance, `einsteindb.rs` 1665) and a characteristic retracted
without its attribute (`Lasting`, `spacetime.rs` 418-467). What an installation has to
assert, which each pass judges by the caller's topograph, is left to Topograph: such a
refusal needs facts of `Topo` as well, and the proof uses no more of `Refused`. `failed`
says in which of the two ways a pass failed.

### TxObservation

`arc` numbers the allocations of the map of observers. `Arc::make_mut` copies the map
if a strong reference is shared and moves it if a `Weak` is outstanding: in both cases
the service continues with a new allocation, so that a command's `Weak` upgrades
exactly if its number is still the service's. `wrote`, `committed`, `witness` and the
field `at` of a command are history variables: what each transaction touched, who was
registered at its commit and ever since.

### UpsertResolution

Initial states are all transactions and all small stores; the rest is deterministic.
`tempids` has each tempid with the causetids it was given: one found in the store, one
allocated, or both, since a complex upsert whose entity was found is resolved again and
may be allocated in the end. The history variable `overwritten` has the terms that were
in `upserted` of a generation that another one followed; no population has them any
more. `stage` is the next call or the way the resolution ended: `done`, `conflict`
(conflicting upserts), `bail` and `unreachable` (arms of
`into_final_populations`), `unmatched` (see section 7).

### FsmState

`at` says between which atomics a thread is, `data` whether the pointer is set,
`freed` how often the box has been dropped. Two patterns in `release` and `clear` are
fresh names and not constants and match everything; the model does what the code
compiles to.

### CausetHistory

What CausetStore promises, without its stages and tables: a committed log that only
grows, a working copy of it that a commit makes the committed one and a rollback, a
failure or a crash throws away, and a view that is the live part of the log. The
refinement mapping (`ImplementsHistory` in `CausetStore`) reads log and view off
SQLite's tables; search, materialisation and the partition map are stutters.

### AttributeCache

One attribute of each kind (cardinality one or many, unique or not) is enough since
attributes do not influence each other; the initial states choose the kind. A map
sends a key to `Missing` (no entry), `{}` (an entry that says "deleted") or the
values; an attribute without a map has `NoCache`. `store` is what is committed, `rows`
what the open transaction sees. `held` says whether a reader has a clone of the
committed cache, which `commit_to` cannot deal with. Attributes are registered and
unregistered at any time, before and after they are written to; one that is already
cached in the direction asked for is left alone, as in the code.

Registering an attribute in an InProgress fills its map in the overlay from the rows so
far, but `repopulate` has nothing to clear in the committed cache below, and a key that
the new map lacks is looked up there. If the committed maps no longer agree with the
rows (`Disagrees`), rows that are gone are answered. Three history variables record the
attributes this happened to: `late` within the InProgress; of these `kept`, those that
had no row left when they were registered, for which the commit leaves the old map in
place; and `stale`, where that commit has happened.

### Sentinel

`log` is what the region has applied and `delivered` how much of it the sentinel was
given; both, the timestamps, the resolver and the scan (`initialize`) are external.
A transaction has one key. `got` records what a downstream was sent, by rows and by
the scan apart. The caller builds the resolver from the first snapshot taken, as the
pending locks begin there. `snapshot` is how much of the log a scan sees, or `NoScan`,
which is no length of a log.

### ReadPool

A call is checked, counted, spawned, run, answered and its slot returned, each a step
of its own, with one thread between the steps of another. A task may be dropped by the
pool before it ends (`drop_task`), and a caller may stop waiting (`abandon`).

### Topograph

A transaction is described by the rows it leaves: the solitonids `s` and the
characteristics `n` of the attributes; what it asserts, retracts and alters is the
difference. (`witness` of `AddRetractAlterSet` is not in the repository; it is
modelled from its use and from the comments in `src/fdb_traits/src/options.rs`
185-210.) A transaction that fails is rolled back with its copy of the Topograph, so
errors are guards. All transactions that the code accepts are made. Two history
variables name the attributes to which the code does less than it says: `astray`, of
which memory has lost a characteristic since the store was opened (a builder that did
not mention it, `Unsaid`), and `lapsed`, which were removed while they had values
(`Orphaned`), or were made non-unique in memory in that way, at any time.

### Decimal

`last` is the last operation with its operands and outcome. Words per buffer, digits
per word and the radix are constants. Cursors that run from the last word to the first
are folds. An index that would leave a slice is the outcome `Panic`.

## 3. Runs

| run | question | result |
|---|---|---|
| `store` | Do view, log and partition map agree over failures, rollbacks, crashes, and is the store an append-only history? | holds, 837,533 states |
| `store_retract` | Does retracting an absent value leave the store alone? | violated |
| `timelines` | Does the rewind undo exactly what is moved, and what can stop it? | holds, 737,588 states |
| `observers` | Who hears of what, and does the thread end? | holds, 44,742 states |
| `upsert` | Does it end, which tempids are one, are terms kept? | holds, 1.36 million states |
| `fsm` | Is the cell safe and does the automaton come back? | holds, 1,407 states |
| `cache` | Does a cache answer what the rows say? | holds, 355,810 states up to symmetry |
| `sentinel` | Is a resolved timestamp a promise that is kept? | holds, 3.2 million states |
| `read_pool` | How far is the limit exceeded, and is everyone answered? | holds, 183,605 states |
| `topograph` | Do memory, views, causets and data agree? | holds, 20,296 states up to symmetry |
| `decimal` | Is what is reported as exact exact? | holds, 400,285 states |
| `decimal_product` | Does every word of a product stay below the base? | violated |

What the properties say:

* `store`: `ViewMatchesLog` (the view, with its tx column, is the live part of the
  log, committed and in progress), `CardinalityOne` (in every stage),
  `NoOpaqueFailure` (the temporary unique indices, which "validate the transactor",
  never fire since `cardinality_conflicts` is stricter), `TxIdsFresh` (in memory and
  as it would be read back after a crash now), `LogAlternates` (of each causet the log
  tells assertions and retractions strictly in turn, an assertion first),
  `HistoryImmutable` (committed entries stay; new
  ones have later ids).
* `timelines`: `RewoundToLog`; `RewindSucceeds` (no pass fails on its terms; one that
  the topograph refuses has facts of `Topo` still to undo); `NoPhantomRetraction`. A
  pass is refused in the run: the alteration from one to many is accepted, its reversal
  is not.
* `observers`: `OnlyWitnesses`, `ReportsExact` (content; and every call is about later
  transactions than the calls before it, but for the second of the two calls a command
  makes), and under fairness
  `EventuallyTold` (unless the map is replaced first) and `ThreadEnds`.
* `upsert`: `Labelling` compares the union-find with its reference definition,
  the smallest sets closed under sharing an `[a v]`; `Terminates`; `NoUnreachable`;
  `TermsKept` says what becomes of the terms. `Sound`: none is made up; each tempid
  became one causetid in all terms, but for the entity of a complex upsert, which may be
  allocated although it was found. `Kept`: each term given is in a final population or
  inert, with one exception, an upsert whose tempid was found in the store in a
  generation that another followed. Such a term is lost, whether the store has it or
  not (section 6, item 7). `TypeOK` is the documented content of every population.
* `fsm`: `NoPanic`, `OnePlace`, and under fairness `ComesBack`.
* `cache`: `CacheMatchesStore` (between transactions a cached attribute is answered with
  every row that is committed, and with no other unless it is `stale`),
  `InProgressSeesRows` (within one the same of the rows so far, unless it is `late`, and
  but for a single value that was retracted, section 6, item 9), `NoUnreachable` (the
  `unreachable!()` of `accumulate_evs`).
* `sentinel`: `ResolvedComplete` (everything committed at or before a resolved
  timestamp has been sent), `CommitsMatched` (a commit row has its prewrite or its
  write), `LocksExact` (the resolver's locks are the region's), `MissOnlyIfRefused`
  (the assertion "miss downstream" fails only in the case of section 7).
* `read_pool`: `Overshoot`, `GaugeExact`, and under fairness `Answered` and
  `SlotsReturned`.
* `topograph`: `NamesSound`; `AttributesMatch` (the attributes in memory are those the
  causets describe, with their type and cardinality and no more unique, indexed or
  fulltext than these say, and exactly so unless `astray`); `ViewsExact`; `DataKept`
  (one value per entity where memory says one, and one entity per value of an attribute
  unique in memory, unless `lapsed`).
* `decimal`: each part of `ArithmeticExact` (`SumExact`, `ProductExact`, `QuotExact`,
  `RemExact`, `RoundExact`) compares an operation with arithmetic on integers;
  `ObservedExactly` (`OrderExact`, `IntegersExact`) does so for order, hash and
  conversions, the kind of the result included; they depend on the number and, for a
  zero, on its sign (section 6, item 10). `WordsBounded` is what the next operation
  relies on.
* `store` also has `ImplementsHistory`, the refinement of `CausetHistory`.

`TypeOK` of the other modules describes their state. Those of CausetStore,
DiscreteMorse, FsmState (`FsmTypeOK`), ReadPool, TxObservation, AttributeCache, Sentinel
and Topograph are part of the invariants proved in section 8.

A run that is violated checks a single property that states what a comment or a test
of the repository says; section 6 has the disagreement.

## 4. Bounds and symmetry

Every bound is a constant with a name; no configuration replaces a definition.

| bound | value | why it is enough to be interesting |
|---|---|---|
| `MaxTx` (store) | 4 | bootstrap and three more: assert, replace or retract, assert again |
| `MaxTx` (timelines) | 3 | bootstrap and two more, moved one after the other or together, and their ids used again |
| `MaxTerms` | 2 | two terms of one transaction can conflict, replace and retract, or hand a unique value from one entity to another |
| `MaxNew`, `MaxUser` | 1 | one user entity beside the transaction entities, which are entities too, so that several can compete for a unique value |
| `MaxLog` | 6, 7 or 8 | a limit on the rows of the log plus the terms to come: it trades transactions of two terms against more transactions; it does not bind in the violated store run |
| `MaxRange` | 3 | all transactions but the bootstrap at once |
| `MaxTx`, `MaxTxes` (observers) | 2, 2 | two transactions in one commit or in two, the second waiting behind the first |
| `MaxArc` | 3 | the map replaced twice while commands wait |
| `MaxTerms`, `MaxAdds`, `MaxStore` (upserts) | 3, 4, 2 | a chain of two references and one attribute to start it; four assertions for two pairs of tempids to be unioned |
| `Threads` | 4 | one thread that holds the automaton and three that take, notify or are turned away beside it; the safety properties are proved for any number |
| `MaxChange` (cache) | 3 | a transaction that retracts two values and asserts one, or hands a unique value over |
| `MaxTs`, `MaxFails` (sentinel) | 4, 1 | start, commit and two timestamps to resolve; one split or merge |
| `max_tasks`, `MaxCalls`, `MaxDrops` | 2, 3, 1 | two threads pass the check together at the limit; one task dropped |
| `Entities`, `Keywords`, `Types`, `Vals`, `Holders`, `MaxValues` (topograph) | 2, 2, 1, 2, 2, 2 | two entities exchange or take over solitonids; one of them is an attribute with two conflicting values |
| `Radix`, `DIGITS_PER_WORD`, `WORD_BUF_LEN` | 6, 2, 3 | a rounding digit below, at and above the half, words with inner digits, buffers that overflow to both sides |
| `IntBits` | 14 | 64 bits are to words of nine digits as 14 bits are to these: an integer that wraps at the third word |
| `StartLen`, `LiteralLen`, `ChainLen` | 4, 2, 1 | operands of up to four digits against literals of up to two; literals of one digit start sequences of two operations; negative ones are shorter than `StartLen` |

`timelines` has the attributes `name` (cardinality one, unique), `card` (cardinality
one) and `txInstant`, the first two making up the topograph: `name` stands for
`:einsteindb/solitonid` and `card` for `:einsteindb/cardinality`, of which `x` means one
and `y` many. The cardinality-many attribute is present in the `store` runs. `cache`
permutes entities and values, `topograph` keywords, holders and values: they are only
compared with one another, no definition names one of them and the runs have no liveness
property. With one type in `topograph` an alteration of the type is exercised by the
proof alone. In `decimal` the truncated remainders and the remainders that panic are not
reached. `CHECK_DEADLOCK FALSE` is set where the system
really may stop: all bounded transactions done and moved, the service dropped and the
executor gone, the resolution ended, the cell dropped, the cache in its
`unimplemented!()`, the sentinel dropped, all calls made, the operations used up. In
CausetStore and Topograph a reopen
is always possible, and deadlock is checked.

## 5. Fairness

* `TxObservation`: `WF_vars(Executor)`. The executor is a thread of its own; `recv`
  blocks only on an empty channel with a live sender, callbacks are called one after
  another and return. Nothing is assumed of the writer: it may stop for ever.
* `UpsertResolution`: `WF_vars(Next)`. One thread that blocks on nothing.
* `FsmState`: `WF_fsmVars(release(t))` for every thread. An owner calls `release` when it
  has polled its automaton, and nothing in `release` blocks. No fairness for take,
  notify, clear and drop.
* `ReadPool`: weak fairness of a task's steps (run, answer, return the slot or be
  dropped) and of a thread inside `spawn`. A worker of the pool takes every task it was
  given, and nothing in `spawn` blocks. Nothing makes a thread call `spawn`.
* The other modules state safety only.

## 6. Disagreements between code and its documents or tests

The first two are runs whose counterexamples show them.

1. `store_retract`. `search` finds the old value of a cardinality-one attribute by
   `e` and `a` alone and `update_causets` deletes it for every retraction: retracting
   `[e name y]` deletes `[e name x]`. The test comment `einsteindb.rs:1895` says that
   retracting elements that are not present doesn't change the store.
2. `decimal_product`. `do_mul` adds a word, half of a product and a carry that may
   itself be almost a word, and `add` takes the base off once: a word of a product may
   be the base or more (95 * 959 with one digit to a word: 9 0 11 0 5). The comment at
   `decimal.rs:1100` says `0 <= word < base`.

The rest is stated by a definition in a module that no run checks; TLC finds each
violated with the constants given here.

3. `FreshAllocation` (CausetStore, a PROPERTY). The view `parts` takes `max(e) + 1`. A
   causetid allocated for a tempid in value position only is not counted and is
   allocated again after a reopen; `einsteindb.rs:1681` says "Allocate a single fresh
   causetid". Attrs `{name, ref, inst}`, Refs `{ref}`, One `{name, inst}`, Unique
   `{name}`, Values `{x, y}`, Instants `{x}`, MaxTerms 1, MaxNew 1, MaxUser 2, MaxTx 4,
   MaxLog 8.
4. `TopographFollows` (DiscreteMorse, an INVARIANT). Each pass of the rewind gets the
   caller's topograph; the one returned lacks what all passes but the last have undone
   (`discrete_morse.rs:140`; the test at 685 expects the bootstrapped state back).
   Attributes `name`, `tag`, `inst` with Topo `{tag}`, Values `{x, y}`, Timelines
   `{1, 2}`, MaxTerms 1, MaxUser 1, MaxTx 3, MaxLog 8, MaxRange 2.
5. `OtherTimelinesKept` (DiscreteMorse, a PROPERTY). `move_transactions_to` relabels by
   transaction id alone, and ids are used again after a move; a second move takes the
   rows of the first along (`discrete_morse.rs:72` against 39). As before, MaxRange 1.
6. `NoneLost` (TxObservation). A registration or deregistration between a commit and
   the execution of its command drops the notification for everybody
   (`tx_observer.rs:504`, `src/soliton/watcher.rs:17`). MCTxObservation with MaxTx 2,
   MaxArc 3, MaxTxes 1.
7. `NothingLost` and `OneCausetid` (UpsertResolution, INVARIANTs). A simple upsert whose
   tempid was found through another attribute goes to `upserted` and from there nowhere
   when another generation follows; `upsert_resolution.rs:96` says that these are
   guaranteed to be in the store. MCUpsertResolution with TempIds and FewTemps `{101,
   102}`, Entities `{1}`, Values `{x}`, Attrs and Idcauset `{id, mail, ref}`, Refs
   `{ref}`, Ops `{"Add"}`, MaxTerms 3, MaxAdds 3, MaxStore 1. And a complex upsert whose
   entity has been found is searched again with it; if it is not found it is allocated,
   and the tempid has two causetids (`upsert_resolution.rs:185`). What the driver, which
   is not in the repository, does with such a tempid cannot be told. `TermsKept` is what
   does hold.
8. `assert_materialized_views` (Topograph, an INVARIANT). Views and memory differ when a
   unique attribute is altered and the transaction does not mention its uniqueness
   (`mutate` takes it away, `schema.rs:271-276`), when a solitonid goes from one entity
   to another (it is lost from memory, `spacetime.rs:701-712`), when an alteration,
   which is not validated, takes the index from a unique or fulltext attribute (the store
   cannot be opened again), and
   when an attribute is installed over what the removal of an earlier one has left
   (which the comment at `spacetime.rs:346` admits). `src/fdb_traits/src/debug.rs:473`
   says "Verify that we've updated the materialized views during transacting."
   Constants of `Topograph.cfg` without symmetry. What holds instead is `Materialized`,
   which is proved (section 8).
9. `SingleSeesRows` and `CommitImplemented` (AttributeCache, INVARIANTs). A single
   value deleted in a transaction is looked up in the committed cache again
   (`cache.rs:1819`); a commit while a reader holds a clone of the cache ends in
   `unimplemented!()`. Constants of `AttributeCache.cfg`. `stale` and `late` mark a third
   disagreement: an attribute registered after a retraction of the same transaction
   answers rows that are gone.
10. `decimal.rs:2600` says "-0 should be not negative", and `hash` has it so. Quotients
   and remainders may be a zero with a sign, which `cmp` orders below every other zero
   and which `as_u64` answers with an overflow. `OrderExact` and `IntegersExact` say that
   it is so, and for no other decimal.

## 7. Further observations

Met while modelling; the models do what the code does.

* `tx_observer.rs:474` calls every observer with all reports before it filters the
  applicable ones. (Line 473 in addition calls `notify` on the map itself, which is
  not modelled.)
* `evolve_one_step` has no arm for two unknown tempids (lines 184 and 204). A
  resolution that gets there ends in the stage `unmatched`, and the other properties
  speak of the resolutions that have an arm.
* In `fsm.rs`, `clear` frees nothing, the arm of `release` at 323 cannot be reached,
  and `notify` drops the automaton it has just scheduled (301): a notified automaton
  is freed and its cell stays NOTIFIED.
* `repeat_causet_locales` (`src/einstein_ml/lib.rs` 140-149) does not compute what
  its comment (163-171) says; the VALUES lists are modelled as their callers use them.
* `SELECT EXISTS` always returns a row (`einsteindb.rs:1665`), so that every
  alteration from cardinality many to one is refused, and with it the rewind of every
  transaction that altered one to many.
* In `mod.rs`, the last downstream of a broadcast gets the event whatever its state
  is (429-435); `stop` marks `downstreams` only, not the waiting ones; a downstream
  refused when the region becomes ready is not marked STOPPED; and if all are refused
  the next broadcast panics, since nobody is told that none is left.
* In `decimal.rs`: a truncated product is cut by a number of words computed from
  `int_word_to` where `frac_word_to` is meant (1002) and is misplaced or reported as
  an overflow; a divisor with more than about half a buffer of fraction words makes
  the division's working copy too short (831); a truncated remainder takes words for
  digits in `frac_cnt` and may take more of them than there are, which panics where
  overflow is checked (952); a product cut at `NOT_FIXED_DEC` keeps digits beyond `frac_cnt`
  in its last word; a sum whose leading word is full is reported as an overflow though
  it fits; rounding up within a word ignores the digits below it, as its comment says.
  `Res` does not declare the variants the file uses.
* The assertions on the number of bindings (`einsteindb.rs` 1236, 1369, 1482) are
  strict and fail for a full chunk when the limit is a multiple of the bindings.
* `conn.rs` 502-536 says that removing an attribute that is not cached is an error;
  `unregister` returns `Ok`.
* Causets restored by a rewind have the phantom's id in their tx column; `RewoundToLog`
  therefore compares `[e a v]`.

## 8. What is proved

All proofs are for every value of the constants.

**CausetStoreProofs** (1,365 obligations): `TypeCorrect`, `ViewIsMaterialized`,
`OneValue`, `ChecksSuffice`, `FreshTxIds`, `HistoryIsImmutable`, the properties of
the run `store` but the two that follow.

Assumptions: `TopographAssumption` (cardinality one, unique and reference attributes
are attributes; `txInstant` is cardinality one and neither unique nor a reference, as
in the bootstrap topograph), `PartitionAssumption` (the user partition lies below the
tx partition), `NoRowAssumption` (NULL is no row), `BoundAssumption` (the bounds are
naturals, `User0 + MaxUser <= Tx0`: the user partition does not run into the tx
partition). TLC evaluates them in the store runs.

None of the properties is inductive. Whether the view matches the log after
`commit_EinsteinDB_transaction` depends on what three earlier steps left in the
temporary tables. The inductive invariant is

    Ind == TypeOK /\ CommittedInv /\ WorkingInv /\ HistoryInv

* `CommittedInv`: what SQLite holds is `Good` for some next id, and for the
  connection's one while it is open. `Good(rows, entries, n)` says that the rows are
  the live part of the entries, satisfy the unique indices and cardinality one, that
  all entries are of ids below `n`, and that `n - 1` is the entity of some entry. The
  last part is what makes the partition map read back after a crash equal to the one
  in memory: the `txInstant` of the last transaction is in the log.
* `WorkingInv`: what each stage hands to the next: the accepted terms, that the
  results are the search of the live part of the log, that the view is the result of
  applying them.
* `HistoryInv`: the working log extends the committed one by later ids.

The main lemmas: `LiveApplied` (deleting and inserting rows of the view is the same as
appending the two kinds of entries to the log and taking its live part),
`OneValueApplied`, `SearchUnique` and `InexactUnique` (`cardinality_conflicts` excludes
what the temporary indices exclude), `ReadBack` (the partition map read back),
`InsertBelow`. One lemma per action then gives `Ind /\ [Next]_vars => Ind'`.

The same module has `StoreImplementsHistory`, that every step of the store is a step of
`CausetHistory` or a stutter, and `LogIsAlternating`, from the same assumptions. The
refinement uses `Ind` for the steps that change the log: only in a state in which the
results are the search of the live part of the log is what `insert_transaction` appends
a legal extension of the history. `LogIsAlternating` (`LogAlternates`) follows in the
abstract specification, where an assertion extends the log only by what is not live and
a retraction only by what is, and is carried over by the refinement: the last entry of a
causet says whether it is live, so that each entry is of the other kind than the one
before it.

**DiscreteMorseProofs** (1,786 obligations): `TypeInvariant`, `RewoundInvariant`
(`RewoundToLog`), `RewindInvariant` (`RewindSucceeds`) and `PhantomInvariant`
(`NoPhantomRetraction`), the properties of the run `timelines`. Besides the first three
assumptions above they need `TimelineAssumption`: `txInstant` does not make up the
topograph, the attributes that `Refused` names do, instants are values, the main
timeline is none of the others, the bounds are naturals. They hold for all values of the
bounds, so for any number of moves one after the other and of ids used again.

A rewind passes through states in which the store agrees with no log the properties
speak of, and whether its next pass succeeds depends on what every earlier transaction
found when it was applied. The inductive invariant is

    Ind == /\ TypeOK /\ Tx0 <= part.tx /\ LogOK(log, part.tx)
           /\ StoreInv /\ MoveInv /\ RewindSucceeds /\ NoPhantomRetraction

* `LogOK`: with `Held(log, n)` the facts that the transactions before `n` leave on the
  main timeline, each transaction asserts what does not hold before it and retracts
  what does, has an entry about itself, and every `Held(log, n)` satisfies cardinality
  one and the unique indices. The entry about itself is the `txInstant`, from which
  `read_partition_map` finds the next id after the move.
* `StoreInv`: the store holds `Held(log, k)` for a `k` that separates the transactions
  already undone from the others. It has to be about facts, as restored rows carry the
  phantom's id.
* `MoveInv`: what is moved are the last transactions, so that relabelling them leaves a
  prefix of the log.

`Extended` shows that a transaction keeps `LogOK`, `RelabelledShape` that a move does.
The main lemma is `Reversal`: transacting the reversed terms of transaction `t` against
`Held(log, t + 1)` succeeds and leaves `Held(log, t)`. What `t` asserted and what it
retracted are disjoint; where a retracted value of cardinality one is asserted again,
the one that replaced it is retracted by the same pass; and the phantom's id is above
all entities that occur, so that deleting its rows deletes its `txInstant` only.

That is the first part of `RewindSucceeds`, and every pass succeeds on its terms. The
second follows from `RefusedTouches`: what a pass asserts and retracts beside its
`txInstant` are facts of the transaction it undoes, so that a topograph that refuses
anything finds one of `Topo` among them. `OneWay` and `Lasting` are arbitrary in it.
Such a pass returns an error, and the move stays where it is; what becomes of the open
SQLite transaction is the caller's affair.

**ThreadProofs** (364 obligations) has the two components whose threads meet in shared
atomics and nowhere else; `FsmState` therefore names its specification `FsmSpec` and its
threads `Callers`, so that one module can extend both.

`LimitAlmostKept` and `GaugeIsExact` of ReadPool hold for any set of threads and
any limit. Neither is inductive alone: the gauge counts calls between the increment
and the return of the slot, so the invariant relates it to the cardinality of the set
of those calls; and how many calls may still pass the check depends on how many
threads stand between check and increment, each of which holds one.

`PanicFree`, `ExactlyOnePlace` and `StatusIsALock` of FsmState hold
for any set of threads, without assumptions. Here the conjunction
`FsmTypeOK /\ Handshake /\ OnePlace /\ NoPanic` is inductive. `Handshake` is the
strengthening the other two need: which of its two atomics the one thread inside has
executed says whether the pointer is null.

**TxObservationProofs** (837 obligations): `WitnessesInvariant` (`OnlyWitnesses`),
`ReportsInvariant` (`ReportsExact`) and `TypeInvariant`, for any observers, attributes
and bounds. Assumption: `ObserverAssumption`, in which `MaxArc` is at least 1 since the
service starts with an allocation. What an observer is told was put into the channel
many steps earlier, so the invariant follows a report on its way:

    Ind == TypeOK /\ MapInv /\ TxInv /\ SentInv /\ OrderInv /\ ReportsExact

`MapInv` says that a command whose `Weak` is the service's was sent with that very map;
`TxInv` that the transactions committed are 1 to some k, and what is collected for those
in progress is what they wrote, also after a rollback has taken their ids back; `SentInv`
and `OrderInv` that what waits in the channel, is executed or was heard is exact and in
the order of the commits.

**UpsertResolutionProofs** (1,450 obligations): `TypeInvariant` (`TypeOK`),
`NoUnreachableInvariant`, `TermsKeptInvariant` and `LabellingInvariant`, for any
attributes, store and transaction. Assumptions: `UpsertAssumption` (tempids are
finitely many and apart from causetids, identity and reference attributes are
attributes) and `InputsAssumption` (transactions are sets of terms). The invariant is

    Ind == TypeOK /\ Shape /\ FoundOnce /\ Trace /\ Phase /\ NoUnreachable /\ TermsKept

`Trace` says, in every generation, that each term of the populations follows from one of
the transaction by replacing the tempids found so far, all of them but the entity of a
complex upsert (`Follows`), and that each term of the transaction has such an image in
some population or among the inert terms, or was upserted. `FoundOnce` is what makes the
images of several generations agree: a tempid found as a second entity, in the same or a
later generation, ends the resolution as a conflict. `Upserted` keeps for `Kept` that
the tempid of an upserted term was found by an upsert of the transaction, its own or
another. `Phase` says that the two populations of upserts are empty once the loop has
ended and that `labels` has an entry for what is left. `Labelling` is the one property
about a fold: the union-find of `temp_ids_in_allocations` is unfolded by an induction
over subsets (a least set of `[a v]` for which the claim fails, by `WFMin` of
WellFoundedInduction), in which the classes so far are the smallest closed sets of the
groups so far.

**AttributeCacheProofs** (1,470 obligations): `NoUnreachableInvariant`, `CacheInvariant`
(`CacheMatchesStore`), `InProgressInvariant` (`InProgressSeesRows`) and `TypeInvariant`,
for any attributes, entities and values and for registrations at any time. Assumption:
`CacheAssumption` (`Missing` is not a set of values or entities and `NoCache` not a map).

    Ind == TypeOK /\ RowsInv /\ LinkInv /\ CacheInv /\ OverlayInv

`LinkInv` (an attribute taken for cached by the InProgress is cached in its overlay)
with `RowsInv` is inductive on its own, and all that `NoUnreachable` needs. `OverlayInv`
is the heart: a map of the overlay shows the rows so far, exactly unless the attribute is
`kept`; a key without an entry is, unless it is `late`, one of which the committed cache
knows nothing; and where the overlay has no map the committed one shows the rows, or no
row is left for the commit that forgets it. That is what makes `commit_to`, which
overwrites map by map, arrive at the rows committed, and at no others but for `stale`
attributes, which are the ones that were `kept`.

**SentinelProofs** (2,507 obligations): `CommitsMatchedInvariant`, `LocksExactInvariant`,
`ResolvedInvariant` (`ResolvedComplete`), `MissInvariant` (`MissOnlyIfRefused`) and
`TypeInvariant`, for any transactions, downstreams and bounds. Assumption:
`SentinelAssumption` (transactions without rows are transactions, stale downstreams
downstreams, bounds naturals).

    Ind == TypeOK /\ WorldInv /\ StageInv /\ SinkInv /\ LocksInv /\ ResolvedInv /\ MissInv

* `WorldInv`: the region prewrites a transaction once and ends it once, after that; a
  commit timestamp that is not above one to be resolved belongs to a transaction
  prewritten before that one was drawn.
* `StageInv`: which of the fields are still empty before the region is ready.
* `SinkInv`: a downstream has no commit that was not delivered, has what its scan found
  once that is over, and while it is followed whatever was delivered after its snapshot.
* `LocksInv`: before the region is ready, the last pending lock of a transaction says
  whether it is locked at `delivered`, and if none is pending nothing has happened to it
  since any snapshot. Afterwards the resolver's lock of a transaction is the one at
  `delivered` or, if the first snapshot is ahead of what was delivered and no command of
  the transaction came since, the one in that snapshot. The second case is why
  `LocksExact` speaks of a moment when all commands are delivered.
* `ResolvedInv`: what is resolved has ended, in a command delivered or in the first
  snapshot. `ResolvedComplete` follows with `SinkInv`: either way it was sent.

The replay of the pending locks and the removal of a downstream from its list are
recursive functions; lemmas unfold them by the same kind of induction over sets.
Working on the proof showed that the former value of `NoScan`, a bound of the log, is a
possible length of the log for `MaxTs = 1`; it is -1 now.

**TopographProofs** (1,475 obligations): `TypeInvariant`, `NamesInvariant`
(`NamesSound`), `ViewsInvariant` (`ViewsExact`), `AttributesInvariant`
(`AttributesMatch`), `DataInvariant` (`DataKept`) and `ViewsMaterialized`
(`Materialized`), for any entities, attributes, solitonids and values and for every
transaction that the code accepts. Assumption: `TopographAssumption` (finitely many
entities, numbered; attributes are entities; "unset" is no solitonid and no type). There
are two invariants, the second on top of the first:

    BaseInd       == TypeOK /\ NamesInv /\ ViewsExact
    AttributesInd == CardinalityInv /\ AttributesMatch /\ UniqueInv /\ FlagInv /\ DataKept

* `BaseInd`: `NamesInv` says that memory's solitonids are some of the causets' and its
  causetids all of them. Its proof needs what `AlterNames` computes: renaming entities
  one after the other, each removing its old solitonid and inserting its new one, is a
  recursion over the set of renamed entities. `AlterNamesShape` gives it in closed form
  (`Renamed`): a new solitonid is in the map unless an entity that is renamed later gives
  it up. That is how a name that moves to an entity with a smaller causetid is lost, and
  why none is ever stale. `ViewsExact` needs that an attribute is removed only together
  with its solitonid: the report of altered attributes alone does not mention removals.
* `AttributesInd`: an attribute is removed, left alone, altered or installed, and for each
  case a lemma says how the one in memory then compares with what the causets describe
  (`UntouchedAttribute`, `AlteredAttribute`, `InstalledAttribute`, put together in
  `OneAttribute`). `CardinalityInv`, that an entity without a type has no cardinality, is
  why an install that leaves a characteristic of an earlier life unmentioned still gets
  type and cardinality right. `UniqueInv` says that memory loses the uniqueness of
  `lapsed` attributes only, and `FlagInv` ties the flag of each of the other rows to the
  attribute in memory: a unique attribute's rows are all flagged, so the unique index has
  seen them, also those written before the attribute became unique.
* `ViewsMaterialized` combines the two: `ViewsExact` makes the views what the causets say,
  `NamesInv` and `AttributesMatch` say how memory compares with those.

tlapm reads `UNION S \cup T` as `UNION (S \cup T)`, TLC as `(UNION S) \cup T`; the set
of descriptions is written so that both agree. `AlterNames` is a recursive
function over sets, where it was a fold, since folds take an operator.

All inductive invariants were checked by TLC on small instances before they were proved.

**Only model-checked**: the invariants of Decimal, which compare folds over words of digits with
arithmetic on integers, an induction over data; liveness (`EventuallyTold`,
`ThreadEnds`, `Terminates`, `ComesBack`, `Answered`, `SlotsReturned`), which is out of
the prover's reach, as is ENABLED.

## 9. What is not modelled

* Fulltext tables and the chunks of long statements; type checks of values
  (`type_disagreements`).
* The copies of the observer types in the upper part of `tx_observer.rs` and of the
  cache types in `cache.rs` (397-545, 753-905), and `populate` and `extend` of the
  cache (1303-1480), which nothing calls.
* The mailbox and the poller around the automaton cell: not in the repository.
* Whether a caller of `move_from_main_discrete_morse` opens a SQLite transaction: the
  callers in the repository are tests.
* `:einsteindb/isComponent` and `:einsteindb/noHistory`: `update_attribute_map_from_
  causetid_triples` refuses them or they have no effect on the store.
* `shift`, the string and binary formats, `f64` and `convert_to` of decimals.
* The FuturePools handle of the read pool; metrics.
* Vocabularies: their transactions are those of Topograph; their own calls lead to the
  transactor that is not in the repository.
* Query algebra and projection, the einstein_ml reader, datum encoding
  (`datum.rs`, `convert.rs`), the other BerolinaSQL types: translations and
  conversions without state.
* Configuration (`src/soliton/config.rs`, `src/src/config.rs`): defaults and
  validation of settings, thousands of lines without interaction.
* Most other large files (`io_limiter.rs`, `ranges_iter.rs`, `cc_checking.rs`,
  `lightlike_upsert.rs`, `dedup.rs` but for its bootstrap constants, the `lib.rs` of
  `einstein_db_alexandrov_processing`, the engine traits of `fdb_traits`, `mvsr.rs`,
  `db_vector.rs`, merkle trees, causal sets) repeat declarations, have empty or
  unfinished bodies, or call types that are nowhere defined. There is no behaviour in
  them that a model could be compared with, which is why the models cover a small part
  of the repository's lines although they cover the parts that carry its logic.

## 10. Plan

Written so far, in this order: `Causets`, `CausetStore`, `DiscreteMorse`,
`TxObservation`, `UpsertResolution`, `FsmState`, `AttributeCache`, `Sentinel`,
`CausetHistory` and the refinement, `ReadPool`, `Topograph`, `Decimal`. Next:

1. Fulltext searches and chunks as an extension of CausetStore.
2. `shift` and `convert_to` of decimals.
