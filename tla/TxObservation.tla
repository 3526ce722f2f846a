---------------------------- MODULE TxObservation ----------------------------
(***************************************************************************)
(* Transaction observers (causetq/src/tx_observer.rs).                     *)
(*                                                                         *)
(* The writer's thread collects the attributes each transaction touches    *)
(* and, once the SQLite transaction has committed, sends one command to an *)
(* executor thread that it spawns on first use.  The command holds a Weak  *)
(* reference to the map of observers; the service holds the only lasting   *)
(* strong one and changes the map through Arc::make_mut.  `arc` names the  *)
(* allocation the service points to, so that Weak::upgrade succeeds        *)
(* exactly when the command's allocation is still the service's.           *)
(***************************************************************************)
EXTENDS Naturals, Sequences, FiniteSets

CONSTANTS
    Observers,  \* soliton ids
    Attributes, \* attributes of the topograph
    Interest,   \* Interest[o]: the attributes observer o registers for
    MaxTx,      \* bound: transactions
    MaxArc,     \* bound: allocations of the map of observers
    MaxTxes     \* bound: transactions of one InProgress

ASSUME ObserverAssumption ==
    /\ Interest \in [Observers -> SUBSET Attributes]
    /\ MaxTx \in Nat /\ MaxArc \in Nat \ {0} /\ MaxTxes \in Nat

VARIABLES
    observers,  \* the registered ones
    arc,        \* allocation that holds them; 0 once the service is dropped
    open,       \* an InProgress exists
    collected,  \* collected_attributes
    txes,       \* reports of the transactions in progress
    next,       \* next transaction id
    sender,     \* interlocking_directorate is Some
    queue,      \* the channel
    worker,     \* the executor thread
    running,    \* the command it executes
    todo,       \* observers of that command's snapshot still to be notified
    heard,      \* heard[o]: the calls of o's notify_fn, as sets of reports
    wrote,      \* wrote[t]: attributes transaction t has touched
    committed,  \* ids of committed transactions
    witness     \* witness[t]: observers registered from t's commit on

vars == <<observers, arc, open, collected, txes, next, sender, queue, worker,
          running, todo, heard, wrote, committed, witness>>

service == <<observers, arc, sender, queue>>
progress == <<open, collected, txes, next, wrote, committed>>
executor == <<worker, running, todo, heard>>

Report == [tx : 1 .. MaxTx, attrs : SUBSET Attributes]
Command == [weak : 1 .. MaxArc, reports : SUBSET Report, at : SUBSET Observers]
NoCommand == [weak |-> 0, reports |-> {}, at |-> {}]

TypeOK ==
    /\ observers \subseteq Observers
    /\ arc \in 0 .. MaxArc
    /\ open \in BOOLEAN /\ sender \in BOOLEAN
    /\ collected \subseteq Attributes
    /\ txes \subseteq Report
    /\ next \in 1 .. (MaxTx + 1)
    /\ queue \in Seq(Command)
    /\ worker \in {"none", "recv", "execute", "exited"}
    /\ running \in Command \cup {NoCommand}
    /\ worker # "execute" => running = NoCommand
    /\ todo \subseteq Observers
    /\ heard \in [Observers -> Seq(SUBSET Report)]
    /\ wrote \in [1 .. MaxTx -> SUBSET Attributes]
    /\ committed \subseteq 1 .. MaxTx
    /\ witness \in [1 .. MaxTx -> SUBSET Observers]

Init ==
    /\ observers = {} /\ arc = 1
    /\ open = FALSE /\ collected = {} /\ txes = {} /\ next = 1
    /\ sender = FALSE /\ queue = <<>>
    /\ worker = "none" /\ running = NoCommand /\ todo = {}
    /\ heard = [o \in Observers |-> <<>>]
    /\ wrote = [t \in 1 .. MaxTx |-> {}]
    /\ committed = {}
    /\ witness = [t \in 1 .. MaxTx |-> {}]

-----------------------------------------------------------------------------
(* The map of observers. *)

WeakOutstanding == running.weak = arc \/ \E i \in DOMAIN queue : queue[i].weak = arc

\* Variant: the map is changed in place, whoever else refers to it.
MutateInPlace(map) == observers' = map /\ arc' = arc

\* A map that a command refers to, weakly or for its execution, is left to
\* the command and the service continues with a new allocation, also when
\* the insert or the remove changes nothing.
make_mut(map) ==
    /\ observers' = map
    /\ arc' = IF WeakOutstanding THEN arc + 1 ELSE arc
    /\ arc' <= MaxArc

\* Registering takes &mut Conn, which an InProgress borrows.
register(o) ==
    /\ arc # 0 /\ ~open
    /\ make_mut(observers \cup {o})
    /\ UNCHANGED <<sender, queue, witness, progress, executor>>

deregister(o) ==
    /\ arc # 0 /\ ~open
    /\ make_mut(observers \ {o})
    /\ witness' = [t \in 1 .. MaxTx |-> witness[t] \ {o}]
    /\ UNCHANGED <<sender, queue, progress, executor>>

\* Variant: the service keeps its sender alive.
DropKeepsSender ==
    /\ arc # 0 /\ ~open
    /\ arc' = 0 /\ observers' = {}
    /\ witness' = [t \in 1 .. MaxTx |-> {}]
    /\ UNCHANGED <<sender, queue, progress, executor>>

drop ==
    /\ arc # 0 /\ ~open
    /\ arc' = 0 /\ observers' = {} /\ sender' = FALSE
    /\ witness' = [t \in 1 .. MaxTx |-> {}]
    /\ UNCHANGED <<queue, progress, executor>>

-----------------------------------------------------------------------------
(* The writer: InProgressObserverTransactWatcher and the commit. *)

begin ==
    /\ arc # 0 /\ ~open
    /\ open' = TRUE /\ txes' = {}
    /\ UNCHANGED <<service, collected, next, wrote, committed, executor, witness>>

causet(a) ==
    /\ open /\ next <= MaxTx /\ Cardinality(txes) < MaxTxes
    /\ collected' = collected \cup {a}
    /\ wrote' = [wrote EXCEPT ![next] = @ \cup {a}]
    /\ UNCHANGED <<service, open, txes, next, committed, executor, witness>>

\* Variant: the collected attributes are copied, not taken.
CollectedKept == collected

CollectedAfterDone == {}

done ==
    /\ open /\ next <= MaxTx /\ wrote[next] # {}
    /\ txes' = txes \cup { [tx |-> next, attrs |-> collected] }
    /\ collected' = CollectedAfterDone
    /\ next' = next + 1
    /\ UNCHANGED <<service, open, wrote, committed, executor, witness>>

\* COMMIT, then in_progress_did_commit; no thread is spawned to say nothing.
\* Only an InProgress that transacted something commits, which bounds the
\* channel.
in_progress_did_commit ==
    /\ open /\ txes # {}
    /\ next <= MaxTx => wrote[next] = {}
    /\ open' = FALSE /\ txes' = {} /\ collected' = {}
    /\ committed' = committed \cup { r.tx : r \in txes }
    /\ IF observers = {}
       THEN UNCHANGED <<sender, queue, worker, witness>>
       ELSE /\ sender' = TRUE
            /\ worker' = IF sender THEN worker ELSE "recv"
            /\ queue' = Append(queue, [weak |-> arc, reports |-> txes, at |-> observers])
            /\ witness' = [t \in 1 .. MaxTx |->
                             IF \E r \in txes : r.tx = t THEN observers ELSE witness[t]]
    /\ UNCHANGED <<observers, arc, next, wrote, running, todo, heard>>

rollback ==
    /\ open
    /\ open' = FALSE /\ txes' = {} /\ collected' = {}
    /\ wrote' = [t \in 1 .. MaxTx |-> IF t \in committed THEN wrote[t] ELSE {}]
    /\ next' = 1 + Cardinality(committed)
    /\ UNCHANGED <<service, committed, executor, witness>>

-----------------------------------------------------------------------------
(* CommandExecutor::main and TxCommand::execute. *)

Dequeue(q) == [cmd |-> Head(q), rest |-> Tail(q)]

\* recv and upgrade; a command whose map is gone does nothing.
recv ==
    /\ worker = "recv" /\ queue # <<>>
    /\ LET cmd == Dequeue(queue).cmd
       IN  /\ queue' = Dequeue(queue).rest
           /\ IF cmd.weak = arc
              THEN worker' = "execute" /\ running' = cmd /\ todo' = observers
              ELSE UNCHANGED <<worker, running, todo>>
    /\ UNCHANGED <<observers, arc, sender, progress, heard, witness>>

applicable_reports(o, reports) == { r \in reports : r.attrs \cap Interest[o] # {} }

\* The calls of one observer: all reports, whatever it registered for, then
\* the applicable ones if there are any.
Calls(o, reports) ==
    LET applicable == applicable_reports(o, reports)
    IN  IF applicable = {} THEN <<reports>> ELSE <<reports, applicable>>

notify(o) ==
    /\ worker = "execute" /\ o \in todo
    /\ heard' = [heard EXCEPT ![o] = @ \o Calls(o, running.reports)]
    /\ todo' = todo \ {o}
    /\ UNCHANGED <<service, progress, worker, running, witness>>

\* Variant: the thread serves one command and ends.
ExecutedOnce ==
    /\ worker = "execute" /\ todo = {}
    /\ worker' = "exited" /\ running' = NoCommand
    /\ UNCHANGED <<service, progress, todo, heard, witness>>

\* The command and its strong reference are dropped.
executed ==
    /\ worker = "execute" /\ todo = {}
    /\ worker' = "recv" /\ running' = NoCommand
    /\ UNCHANGED <<service, progress, todo, heard, witness>>

\* RecvError: the sender is gone and the channel is empty.
exit ==
    /\ worker = "recv" /\ queue = <<>> /\ ~sender
    /\ worker' = "exited"
    /\ UNCHANGED <<service, progress, running, todo, heard, witness>>

Executor == recv \/ executed \/ exit \/ \E o \in Observers : notify(o)

Next ==
    \/ \E o \in Observers : register(o) \/ deregister(o)
    \/ drop
    \/ begin
    \/ \E a \in Attributes : causet(a)
    \/ done
    \/ in_progress_did_commit
    \/ rollback
    \/ Executor

\* The executor is a thread of its own that nothing blocks: it takes a step
\* whenever it has one.
Spec == Init /\ [][Next]_vars /\ WF_vars(Executor)

-----------------------------------------------------------------------------
Told(o, t) == \E i \in DOMAIN heard[o] : \E r \in heard[o][i] : r.tx = t
Concerns(o, t) == wrote[t] \cap Interest[o] # {}

(* Only observers that were registered when a transaction committed hear   *)
(* of it, whatever is registered while its command waits in the channel:   *)
(* Arc::make_mut never changes a map that a command refers to.             *)
OnlyWitnesses == todo \subseteq running.at

(* What an observer is told is a transaction that did commit, with the     *)
(* attributes it touched and not those of its neighbours in the same       *)
(* InProgress, also when an earlier transaction with the same id was       *)
(* rolled back; and a call is about later transactions than the calls      *)
(* before it, except the second call of a command, which repeats reports   *)
(* of the first.                                                           *)
ReportsExact ==
    \A o \in Observers :
        /\ \A i \in DOMAIN heard[o] : \A r \in heard[o][i] :
              r.tx \in committed /\ r.attrs = wrote[r.tx]
        /\ \A i, j \in DOMAIN heard[o] : i < j =>
              \/ j = i + 1 /\ heard[o][j] \subseteq heard[o][i]
              \/ \A r \in heard[o][i], s \in heard[o][j] : r.tx < s.tx

(* A transaction that waits in the channel reaches the observers it        *)
(* concerns unless the map of observers is replaced first.                 *)
EventuallyTold ==
    \A o \in Observers, t \in 1 .. MaxTx, n \in 1 .. MaxArc :
        (/\ \E i \in DOMAIN queue : queue[i].weak = n /\ \E r \in queue[i].reports : r.tx = t
         /\ o \in witness[t] /\ Concerns(o, t) /\ arc = n)
            ~> (Told(o, t) \/ arc # n)

(* Dropping the service ends the executor's thread.                        *)
ThreadEnds == (arc = 0) ~> (worker \in {"none", "exited"})

(* Once the channel is drained, an observer registered ever since a commit *)
(* has been told of every transaction in it that concerns the observer.    *)
NoneLost ==
    (queue = <<>> /\ worker = "recv") =>
        \A t \in committed : \A o \in witness[t] : Concerns(o, t) => Told(o, t)
=============================================================================
