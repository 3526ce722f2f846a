---------------------------- MODULE DiscreteMorse ----------------------------
(***************************************************************************)
(* Moving transactions off the main timeline (soliton/discrete_morse.rs).  *)
(*                                                                         *)
(* move_from_main_discrete_morse rewinds the chosen transactions from the  *)
(* latest to the earliest by transacting their reversed terms against the  *)
(* table `causets` only (TransactorAction::Materialize), then relabels     *)
(* their rows in the log and reads the partition map back.  Transaction    *)
(* ids are reused afterwards.                                              *)
(*                                                                         *)
(* An ordinary transaction is one step here; CausetStore has its stages.   *)
(* The topograph is the set of [e, a, v] of the attributes in Topo; a      *)
(* transaction that touches it also fails if the change is refused.        *)
(***************************************************************************)
EXTENDS Causets

CONSTANTS
    Topo,       \* attributes whose causets make up the topograph
    Solitonid,  \* :einsteindb/solitonid, one of them
    Lasting,    \* those that are not retracted without the solitonid
    OneWay,     \* <<a, v, w>>: altering a from v to w is refused
    Instants,   \* values of :einsteindb/txInstant
    Timelines,  \* the other discrete_morses
    MaxTerms,   \* bound: terms of one transaction besides its txInstant
    MaxUser,    \* bound: causetids of the user partition
    MaxTx,      \* bound: causetids of the tx partition
    MaxLog,     \* bound: rows of the log plus terms to apply
    MaxRange    \* bound: transactions moved at once

ASSUME TimelineAssumption ==
    /\ Topo \subseteq Attrs \ {TxInstant}
    /\ Solitonid \in Topo /\ Lasting \subseteq Topo
    /\ Instants \subseteq Values
    /\ Timelines \subseteq Nat \ {Main}
    /\ MaxTerms \in Nat /\ MaxUser \in Nat /\ MaxTx \in Nat
    /\ MaxLog \in Nat /\ MaxRange \in Nat

VARIABLES
    causets,    \* the table `causets`
    log,        \* the table `discrete_morsed_transactions`
    part,       \* partition map of the connection
    topograph,  \* topograph of the connection
    rewind,     \* transactions still to rewind
    moving,     \* txs_to_move
    target,     \* new_discrete_morse; Main when no move is under way
    last,       \* last_topograph
    failed      \* what made a rewind return an error

vars == <<causets, log, part, topograph, rewind, moving, target, last, failed>>

None == [some |-> FALSE]
Some(t) == [some |-> TRUE, is |-> t]

Fact(d) == [e |-> d.e, a |-> d.a, v |-> d.v]
Facts(rows) == { Fact(d) : d \in rows }
TopoFacts(rows) == { f \in Facts(rows) : f.a \in Topo }

-----------------------------------------------------------------------------
(* One pass of the transactor over a set of terms. *)

Materialized(rows, r, t) ==
    update_causets_insert(update_causets_delete(rows, r), r, t)

\* Neither the checks of the transactor nor an index fails.
TermsSucceed(rows, terms, t) ==
    LET r == search(rows, terms)
    IN  /\ ~cardinality_conflicts(terms)
        /\ search_results_unique(r)
        /\ idx_causets(Materialized(rows, r, t))

\* The topograph after the transaction, None if it says nothing about it.
resolved_spacetime(old, r, t) ==
    LET added == TopoFacts(AddedRows(r, t))
        retracted == TopoFacts(RetractedRows(r))
    IN  IF added \cup retracted = {} THEN None
        ELSE Some((old \ retracted) \cup added)

\* A characteristic goes from many to one, or away without its attribute.
Refused(old, added, retracted) ==
    \/ \E f \in added, g \in old : SameEA(f, g) /\ <<f.a, g.v, f.v>> \in OneWay
    \/ \E f \in retracted : /\ f.a \in Lasting
                            /\ ~\E g \in added : SameEA(f, g)
                            /\ ~\E g \in retracted : g.e = f.e /\ g.a = Solitonid

TopographSucceeds(old, r, t) ==
    ~Refused(old, TopoFacts(AddedRows(r, t)), TopoFacts(RetractedRows(r)))

KeepOr(old, option) == IF option.some THEN option.is ELSE old

-----------------------------------------------------------------------------
Init ==
    \E i \in Instants :
        LET r == search({}, { TxInstantTerm(Tx0, i) })
        IN  /\ causets = AddedRows(r, Tx0)
            /\ log = insert_transaction({}, r, Tx0)
            /\ part = allocate_causetids(bootstrap_partition_map, 0)
            /\ topograph = {}
            /\ rewind = {} /\ moving = {} /\ target = Main
            /\ last = None /\ failed = "no"

\* How many terms the bounds leave to a transaction.
Sizes == { n \in 0 .. MaxTerms : Cardinality(log) + n <= MaxLog }

\* An ordinary transaction on the main timeline; one that fails changes nothing.
transact ==
    /\ target = Main
    /\ part.tx < Tx0 + MaxTx
    /\ \E n \in 0 .. 1, i \in Instants :
         LET p == allocate_causetids(part, n)
         IN  /\ p.user <= User0 + MaxUser
             /\ \E terms \in TermSets(TermPool(p, part.tx), Sizes) :
                  LET s == terms \cup { TxInstantTerm(part.tx, i) }
                      r == search(causets, s)
                  IN  /\ \A j \in part.user .. (p.user - 1) : \E t \in terms : Mentions(t, j)
                      /\ TermsSucceed(causets, s, part.tx)
                      /\ TopographSucceeds(topograph, r, part.tx)
                      /\ causets' = Materialized(causets, r, part.tx)
                      /\ log' = insert_transaction(log, r, part.tx)
                      /\ topograph' = KeepOr(topograph, resolved_spacetime(topograph, r, part.tx))
             /\ part' = p
    /\ UNCHANGED <<rewind, moving, target, last, failed>>

is_discrete_morse_empty(timeline) == \A l \in log : l.morse # timeline

collect_ordered_txs_to_move(from) ==
    { t \in { l.tx : l \in transactions(log) } : from <= t }

\* The early returns of move_from_main_discrete_morse leave the store alone.
move_from_main_discrete_morse ==
    /\ target = Main
    /\ \E timeline \in Timelines, from \in Tx0 .. (part.tx - 1) :
         LET txs == collect_ordered_txs_to_move(from)
         IN  /\ is_discrete_morse_empty(timeline)
             /\ txs # {} /\ Cardinality(txs) <= MaxRange
             /\ target' = timeline
             /\ moving' = txs /\ rewind' = txs
    /\ last' = None
    /\ UNCHANGED <<causets, log, part, topograph, failed>>

\* Variant: what was retracted is asserted again, and so is what was asserted.
AllAsserted(t) ==
    { [e |-> l.e, a |-> l.a, v |-> l.v, added |-> TRUE] :
        l \in { m \in transactions(log) : m.tx = t } }

reversed_terms_for(t) ==
    { [e |-> l.e, a |-> l.a, v |-> l.v, added |-> ~l.added] :
        l \in { m \in transactions(log) : m.tx = t } }

\* Variant: the phantom transaction stays in `causets`.
RemoveNothing(rows, t) == rows

remove_tx_from_causets(rows, t) == { d \in rows : d.e # t }

\* Variant: the earliest transaction is rewound first.
EarliestOf(txs) == CHOOSE t \in txs : \A u \in txs : t <= u

\* ORDER BY tx DESC
NextToRewind(txs) == CHOOSE t \in txs : \A u \in txs : u <= t

\* One pass of the loop. The reversed terms are transacted under the next
\* transaction id, a phantom whose txInstant is removed again; every pass
\* starts from the partition map and the topograph of the connection.
rewind_transaction ==
    /\ rewind # {} /\ failed = "no"
    /\ LET t == NextToRewind(rewind)
       IN  \E i \in Instants :
             LET s == reversed_terms_for(t) \cup { TxInstantTerm(part.tx, i) }
                 r == search(causets, s)
             IN  /\ failed' = IF ~TermsSucceed(causets, s, part.tx) THEN "terms"
                              ELSE IF ~TopographSucceeds(topograph, r, part.tx) THEN "topograph"
                              ELSE "no"
                 /\ IF failed' = "no"
                    THEN /\ causets' = remove_tx_from_causets(
                                         Materialized(causets, r, part.tx), part.tx)
                         /\ last' = resolved_spacetime(topograph, r, part.tx)
                         /\ rewind' = rewind \ {t}
                    ELSE UNCHANGED <<causets, last, rewind>>
    /\ UNCHANGED <<log, part, topograph, moving, target>>

\* UPDATE ... WHERE tx IN moving
Relabelled(txs, timeline) ==
    { [l EXCEPT !.morse = IF l.tx \in txs THEN timeline ELSE @] : l \in log }

\* The end of the move, and the caller taking over what it returns.
move_transactions_to ==
    /\ target # Main /\ rewind = {}
    /\ log' = Relabelled(moving, target)
    /\ part' = read_partition_map(log')
    /\ topograph' = KeepOr(topograph, last)
    /\ target' = Main /\ moving' = {} /\ last' = None
    /\ UNCHANGED <<causets, rewind, failed>>

Next ==
    \/ transact
    \/ move_from_main_discrete_morse
    \/ rewind_transaction
    \/ move_transactions_to

Spec == Init /\ [][Next]_vars

-----------------------------------------------------------------------------
TypeOK ==
    /\ causets \in SUBSET Row
    /\ log \in SUBSET LogRow
    /\ part \in PartitionMap
    /\ topograph \in SUBSET [e : Nat, a : Topo, v : Value]
    /\ rewind \subseteq moving /\ moving \in SUBSET Nat
    /\ target \in Timelines \cup {Main}
    /\ last.some \in BOOLEAN
    /\ last.some => last.is \in SUBSET [e : Nat, a : Topo, v : Value]
    /\ failed \in {"no", "terms", "topograph"}

(* When no move is under way the store holds what the transactions left on *)
(* the main timeline say, whatever has been moved away and transacted      *)
(* since: the rewind undoes exactly the transactions that are moved.       *)
RewoundToLog == target = Main => Facts(causets) = Facts(Live(log))

(* Reversing transactions from the latest to the earliest never runs into  *)
(* a cardinality conflict or a unique index: each pass restores a state    *)
(* the store was in.  Only the topograph may refuse to go back, and not    *)
(* when the transactions to rewind leave it alone.                         *)
RewindSucceeds ==
    /\ failed # "terms"
    /\ failed = "topograph" => \E l \in log : l.tx \in rewind /\ l.a \in Topo

(* No transaction ever retracts a txInstant, the phantom retraction the    *)
(* comment on remove_tx_from_causets describes.                            *)
NoPhantomRetraction == \A l \in log : l.a = TxInstant => l.added

(* The topograph of the connection is the one its causets describe.        *)
TopographFollows == target = Main => topograph = TopoFacts(causets)

(* A move takes transactions from the main timeline; what other timelines  *)
(* hold stays there.                                                       *)
OtherTimelinesKept ==
    [][ \A l \in log : l.morse # Main => l \in log' ]_vars
=============================================================================
