---------------------------- MODULE CausetHistory ----------------------------
(***************************************************************************)
(* What a causet store promises, without tables, searches or partitions:   *)
(* a history that only grows, by whole transactions that each do something *)
(* sensible to the causets current before it, and a set of current causets *)
(* that is a function of the history.  A transaction in progress is seen   *)
(* by nobody until it is committed, and is gone after an abort or a crash. *)
(***************************************************************************)
EXTENDS Causets

VARIABLES
    committed,  \* entries of the history
    current,    \* the causets a reader finds
    pending,    \* the history as the transaction in progress sees it
    running     \* the store is open

vars == <<committed, current, pending, running>>

\* The causets that hold after these entries, without the transactions that
\* asserted them.
Holds(entries) == { [e |-> d.e, a |-> d.a, v |-> d.v] : d \in Live(entries) }

Causet(l) == [e |-> l.e, a |-> l.a, v |-> l.v]

\* The entries of one transaction: younger than all before it, asserting
\* only what does not hold, retracting only what does, and leaving at most
\* one value where cardinality is one and one entity per unique value.
Effective(before, batch) ==
    /\ \E t \in { l.tx : l \in batch } :
         /\ \A l \in batch : l.tx = t /\ l.morse = Main
         /\ \A l \in before : l.tx < t
    /\ \A l \in batch : l.added <=> Causet(l) \notin Holds(before)
    /\ LET after == Live(before \cup batch)
       IN  /\ idx_causets(after)
           /\ \A c, d \in after : (SameEA(c, d) /\ c.a \in One) => c = d

-----------------------------------------------------------------------------
Init ==
    /\ committed = {} /\ current = {} /\ pending = {}
    /\ running = FALSE

\* The first opening writes a first transaction.
Open ==
    /\ ~running
    /\ running' = TRUE
    /\ \/ committed = {} /\ Effective({}, committed')
       \/ committed # {} /\ UNCHANGED committed
    /\ current' = Live(committed')
    /\ pending' = committed'

Transact ==
    /\ running
    /\ pending \subseteq pending'
    /\ Effective(pending, pending' \ pending)
    /\ UNCHANGED <<committed, current, running>>

Commit ==
    /\ running
    /\ committed' = pending /\ current' = Live(pending)
    /\ UNCHANGED <<pending, running>>

Abort ==
    /\ running
    /\ pending' = committed
    /\ UNCHANGED <<committed, current, running>>

Crash ==
    /\ running
    /\ running' = FALSE
    /\ pending' = {}
    /\ UNCHANGED <<committed, current>>

Next == Open \/ Transact \/ Commit \/ Abort \/ Crash

Spec == Init /\ [][Next]_vars
=============================================================================
