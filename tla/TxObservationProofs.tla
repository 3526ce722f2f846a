------------------------- MODULE TxObservationProofs -------------------------
(***************************************************************************)
(* Proofs about TxObservation for any number of observers, attributes,     *)
(* transactions and allocations of the map of observers.                   *)
(*                                                                         *)
(* What an observer is told depends on what the writer put into the        *)
(* channel many steps before, so that neither OnlyWitnesses nor            *)
(* ReportsExact is inductive.  Ind follows a report from the transaction   *)
(* in progress through the channel and the running command to heard.       *)
(***************************************************************************)
EXTENDS TxObservation, SequenceTheorems, FiniteSetTheorems, TLAPS

Ids(reports) == { r.tx : r \in reports }

\* Every report of R is of an earlier transaction than those of S.
Before(R, S) == \A r \in R, s \in S : r.tx < s.tx

\* Reports of committed transactions, with the attributes they touched.
Exact(reports) == \A r \in reports : r.tx \in committed /\ r.attrs = wrote[r.tx]

\* A command that refers to the service's map was sent with that very map.
MapInv ==
    /\ open => arc # 0
    /\ arc # 0 /\ ~sender => worker = "none"
    /\ \A i \in DOMAIN queue :
         /\ arc # 0 => queue[i].weak <= arc
         /\ queue[i].weak = arc => queue[i].at = observers
    /\ arc # 0 => running.weak <= arc
    /\ worker # "execute" => todo = {}
    /\ todo \subseteq running.at

\* The first k transactions have committed; the later ones are in progress.
TxInv ==
    \E k \in 0 .. MaxTx :
        /\ committed = 1 .. k
        /\ k < next
        /\ ~open => next = k + 1
        /\ Ids(txes) = (k + 1) .. (next - 1)
        /\ \A r \in txes : r.attrs = wrote[r.tx]
        /\ next <= MaxTx => collected = wrote[next]
        /\ \A t \in 1 .. MaxTx : next < t => wrote[t] = {}

\* What is in the channel, is being executed or has been heard.
SentInv ==
    /\ \A i \in DOMAIN queue : queue[i].reports # {} /\ Exact(queue[i].reports)
    /\ worker = "execute" => running.reports # {}
    /\ Exact(running.reports)
    /\ \A o \in Observers : \A i \in DOMAIN heard[o] : heard[o][i] # {} /\ Exact(heard[o][i])

\* Earlier transactions are before later ones everywhere on the way.
OrderInv ==
    /\ \A i, j \in DOMAIN queue : i < j => Before(queue[i].reports, queue[j].reports)
    /\ \A j \in DOMAIN queue : Before(running.reports, queue[j].reports)
    /\ \A o \in Observers : \A i \in DOMAIN heard[o] :
         /\ \A j \in DOMAIN queue : Before(heard[o][i], queue[j].reports)
         /\ o \in todo => Before(heard[o][i], running.reports)

Ind == TypeOK /\ MapInv /\ TxInv /\ SentInv /\ OrderInv /\ ReportsExact

-----------------------------------------------------------------------------
(* The map and the executor's bookkeeping. *)

(* An interval of transaction ids that starts at 1 has as many elements as  *)
(* its end says; rollback counts the committed transactions.                *)
LEMMA CommittedCount ==
    ASSUME NEW k \in Nat
    PROVE  Cardinality(1 .. k) = k
  <1>1. 1 \in Int /\ k \in Int
    OBVIOUS
  <1>2. Cardinality(1 .. k) = IF 1 > k THEN 0 ELSE k - 1 + 1
    BY <1>1, FS_Interval
  <1>3. QED
    BY <1>2

(* The calls an observer gets are one or two non-empty sets of reports of   *)
(* the command, and the second is a part of the first.                      *)
LEMMA CallsShape ==
    ASSUME NEW o \in Observers, NEW reports \in SUBSET Report
    PROVE  /\ Calls(o, reports) \in Seq(SUBSET Report)
           /\ Len(Calls(o, reports)) \in 1 .. 2
           /\ Calls(o, reports)[1] = reports
           /\ Len(Calls(o, reports)) = 2 =>
                Calls(o, reports)[2] \subseteq reports /\ Calls(o, reports)[2] # {}
  <1>1. applicable_reports(o, reports) \in SUBSET Report
    BY DEF applicable_reports
  <1>2. applicable_reports(o, reports) \subseteq reports
    BY DEF applicable_reports
  <1>3. CASE applicable_reports(o, reports) = {}
    BY <1>3 DEF Calls
  <1>4. CASE applicable_reports(o, reports) # {}
    <2> DEFINE applicable == applicable_reports(o, reports)
    <2>1. Calls(o, reports) = <<reports, applicable>>
      BY <1>4 DEF Calls
    <2> HIDE DEF applicable
    <2>2. applicable \in SUBSET Report /\ applicable \subseteq reports /\ applicable # {}
      BY <1>1, <1>2, <1>4 DEF applicable
    <2>3. <<reports, applicable>> \in Seq(SUBSET Report)
      BY <2>2
    <2>4. QED
      BY <2>1, <2>2, <2>3
  <1>5. QED
    BY <1>3, <1>4

(* Taking a command from the channel leaves the others in their order.      *)
LEMMA DequeueShape ==
    ASSUME TypeOK, queue # <<>>
    PROVE  /\ Len(queue) \in Nat \ {0}
           /\ DOMAIN queue = 1 .. Len(queue)
           /\ Dequeue(queue).cmd = queue[1]
           /\ Dequeue(queue).cmd \in Command
           /\ Dequeue(queue).rest \in Seq(Command)
           /\ DOMAIN Dequeue(queue).rest = 1 .. (Len(queue) - 1)
           /\ \A i \in 1 .. (Len(queue) - 1) : Dequeue(queue).rest[i] = queue[i + 1]
  <1>1. queue \in Seq(Command)
    BY DEF TypeOK
  <1>2. /\ Head(queue) \in Command /\ Tail(queue) \in Seq(Command)
        /\ Len(Tail(queue)) = Len(queue) - 1
        /\ \A i \in 1 .. Len(Tail(queue)) : Tail(queue)[i] = queue[i + 1]
    BY <1>1, HeadTailProperties
  <1>3. DOMAIN Tail(queue) = 1 .. Len(Tail(queue))
    BY <1>2, LenProperties
  <1>4. Len(queue) \in Nat \ {0} /\ DOMAIN queue = 1 .. Len(queue)
    BY <1>1, LenProperties, EmptySeq
  <1>5. Head(queue) = queue[1]
    BY <1>1
  <1>6. QED
    BY <1>2, <1>3, <1>4, <1>5 DEF Dequeue

(* A commit with observers appends one command to the channel.              *)
LEMMA AppendShape ==
    ASSUME TypeOK, MapInv, in_progress_did_commit, observers # {}
    PROVE  LET cmd == [weak |-> arc, reports |-> txes, at |-> observers]
           IN  /\ cmd \in Command
               /\ queue' \in Seq(Command)
               /\ Len(queue) \in Nat
               /\ DOMAIN queue = 1 .. Len(queue)
               /\ DOMAIN queue' = 1 .. (Len(queue) + 1)
               /\ \A i \in DOMAIN queue : queue'[i] = queue[i]
               /\ queue'[Len(queue) + 1] = cmd
  <1> DEFINE cmd == [weak |-> arc, reports |-> txes, at |-> observers]
  <1>1. arc \in 1 .. MaxArc
    BY ObserverAssumption DEF TypeOK, MapInv, in_progress_did_commit
  <1>2. cmd \in Command
    BY <1>1 DEF Command, TypeOK
  <1>3. queue \in Seq(Command) /\ queue' = Append(queue, cmd)
    BY DEF TypeOK, in_progress_did_commit
  <1> HIDE DEF cmd
  <1>4. /\ Append(queue, cmd) \in Seq(Command)
        /\ Len(Append(queue, cmd)) = Len(queue) + 1
        /\ \A i \in 1 .. Len(queue) : Append(queue, cmd)[i] = queue[i]
        /\ Append(queue, cmd)[Len(queue) + 1] = cmd
    BY <1>2, <1>3, AppendProperties
  <1>5. Len(queue) \in Nat /\ DOMAIN queue = 1 .. Len(queue)
    BY <1>3, LenProperties
  <1>6. DOMAIN queue' = 1 .. (Len(queue) + 1)
    BY <1>3, <1>4, LenProperties
  <1>7. QED
    BY <1>2, <1>3, <1>4, <1>5, <1>6 DEF cmd

(* The state stays well formed; rollback hands out ids from 1 .. MaxTx + 1  *)
(* again because the committed ones are an interval.                        *)
LEMMA TypeStep == TypeOK /\ MapInv /\ TxInv /\ [Next]_vars => TypeOK'
  <1> SUFFICES ASSUME TypeOK, MapInv, TxInv, [Next]_vars PROVE TypeOK'
    OBVIOUS
  <1> USE ObserverAssumption DEF TypeOK, service, progress, executor
  <1>1. ASSUME NEW o \in Observers, register(o) PROVE TypeOK'
    BY <1>1 DEF register, make_mut
  <1>2. ASSUME NEW o \in Observers, deregister(o) PROVE TypeOK'
    BY <1>2 DEF deregister, make_mut
  <1>3. CASE drop
    <2>1. witness' \in [1 .. MaxTx -> SUBSET Observers]
      BY <1>3 DEF drop
    <2>2. arc' = 0 /\ observers' = {} /\ sender' = FALSE
      BY <1>3 DEF drop
    <2>3. UNCHANGED <<queue, progress, executor>>
      BY <1>3 DEF drop
    <2>4. arc' \in 0 .. MaxArc
      BY <2>2
    <2>5. observers' \subseteq Observers
      BY <2>2
    <2>6. sender' \in BOOLEAN
      BY <2>2
    <2>7. QED
      BY <2>1, <2>3, <2>4, <2>5, <2>6
  <1>4. CASE begin
    BY <1>4 DEF begin
  <1>5. ASSUME NEW a \in Attributes, causet(a) PROVE TypeOK'
    BY <1>5 DEF causet
  <1>6. CASE done
    BY <1>6 DEF done, CollectedAfterDone, Report
  <1>7. CASE in_progress_did_commit
    <2>1. { r.tx : r \in txes } \subseteq 1 .. MaxTx
      BY DEF Report
    <2>2. CASE observers = {}
      BY <1>7, <2>1, <2>2 DEF in_progress_did_commit
    <2>3. CASE observers # {}
      <3>1. queue' \in Seq(Command)
        BY <1>7, <2>3, AppendShape
      <3>2. witness' \in [1 .. MaxTx -> SUBSET Observers]
        BY <1>7, <2>3 DEF in_progress_did_commit
      <3>3. worker' \in {"none", "recv", "execute", "exited"} /\ worker' # "execute" => running = NoCommand
        BY <1>7, <2>3 DEF in_progress_did_commit, MapInv
      <3>4. QED
        BY <1>7, <2>1, <2>3, <3>1, <3>2, <3>3 DEF in_progress_did_commit
    <2>4. QED
      BY <2>2, <2>3
  <1>8. CASE rollback
    <2>1. PICK k \in 0 .. MaxTx : committed = 1 .. k
      BY DEF TxInv
    <2>2. next' \in 1 .. (MaxTx + 1)
      BY <1>8, <2>1, CommittedCount DEF rollback
    <2>3. wrote' \in [1 .. MaxTx -> SUBSET Attributes]
      BY <1>8 DEF rollback
    <2>4. QED
      BY <1>8, <2>2, <2>3 DEF rollback
  <1>9. CASE recv
    BY <1>9, DequeueShape DEF recv
  <1>10. CASE executed
    BY <1>10 DEF executed
  <1>11. CASE exit
    BY <1>11 DEF exit
  <1>12. ASSUME NEW o \in Observers, notify(o) PROVE TypeOK'
    <2>1. running.reports \in SUBSET Report
      BY DEF NoCommand, Command
    <2>2. heard[o] \o Calls(o, running.reports) \in Seq(SUBSET Report)
      BY <2>1, CallsShape, ConcatProperties
    <2>3. QED
      BY <1>12, <2>2 DEF notify
  <1>13. CASE UNCHANGED vars
    BY <1>13 DEF vars
  <1>14. QED
    BY <1>1, <1>2, <1>3, <1>4, <1>5, <1>6, <1>7, <1>8, <1>9, <1>10, <1>11, <1>12, <1>13
       DEF Next, Executor

(* Arc::make_mut leaves a map that a command refers to alone: what is       *)
(* registered later goes to a new allocation, to which no command in the    *)
(* channel refers.                                                          *)
LEMMA MapStep == TypeOK /\ MapInv /\ [Next]_vars => MapInv'
  <1> SUFFICES ASSUME TypeOK, MapInv, [Next]_vars PROVE MapInv'
    OBVIOUS
  <1> USE ObserverAssumption DEF service, progress, executor
  <1>a. /\ arc \in Nat
        /\ \A i \in DOMAIN queue : queue[i].weak \in Nat \ {0}
        /\ running.weak \in Nat
    <2>1. \A i \in DOMAIN queue : queue[i] \in Command
      BY LenProperties, ElementOfSeq DEF TypeOK
    <2>2. QED
      BY <2>1 DEF TypeOK, Command, NoCommand
  <1>b. ASSUME NEW map, make_mut(map),
               UNCHANGED <<sender, queue, progress, executor>>, ~open, arc # 0
        PROVE  MapInv'
    <2>1. CASE WeakOutstanding
      BY <1>a, <1>b, <2>1 DEF MapInv, make_mut
    <2>2. CASE ~WeakOutstanding
      BY <1>a, <1>b, <2>2 DEF MapInv, make_mut, WeakOutstanding
    <2>3. QED
      BY <2>1, <2>2
  <1>1. ASSUME NEW o \in Observers, register(o) PROVE MapInv'
    BY <1>1, <1>b DEF register
  <1>2. ASSUME NEW o \in Observers, deregister(o) PROVE MapInv'
    BY <1>2, <1>b DEF deregister
  <1>3. CASE drop
    BY <1>3, <1>a DEF drop, MapInv
  <1>4. CASE begin
    BY <1>4 DEF begin, MapInv
  <1>5. ASSUME NEW a \in Attributes, causet(a) PROVE MapInv'
    BY <1>5 DEF causet, MapInv
  <1>6. CASE done
    BY <1>6 DEF done, MapInv
  <1>7. CASE in_progress_did_commit
    <2>1. CASE observers = {}
      BY <1>7, <2>1 DEF in_progress_did_commit, MapInv
    <2>2. CASE observers # {}
      <3>1. /\ Len(queue) \in Nat /\ DOMAIN queue = 1 .. Len(queue)
            /\ DOMAIN queue' = 1 .. (Len(queue) + 1)
            /\ \A i \in DOMAIN queue : queue'[i] = queue[i]
            /\ queue'[Len(queue) + 1].weak = arc
            /\ queue'[Len(queue) + 1].at = observers
        BY <1>7, <2>2, AppendShape
      <3>2. UNCHANGED <<observers, arc, running, todo>> /\ open' = FALSE /\ sender' = TRUE
        BY <1>7, <2>2 DEF in_progress_did_commit
      <3>3. \A i \in DOMAIN queue' :
              /\ arc # 0 => queue'[i].weak <= arc
              /\ queue'[i].weak = arc => queue'[i].at = observers
        BY <1>a, <3>1 DEF MapInv
      <3>4. worker' # "execute" => todo = {}
        BY <1>7, <2>2 DEF in_progress_did_commit, MapInv
      <3>5. QED
        BY <3>2, <3>3, <3>4 DEF MapInv
    <2>3. QED
      BY <2>1, <2>2
  <1>8. CASE rollback
    BY <1>8 DEF rollback, MapInv
  <1>9. CASE recv
    <2>1. /\ DOMAIN queue' = 1 .. (Len(queue) - 1) /\ Len(queue) \in Nat \ {0}
          /\ DOMAIN queue = 1 .. Len(queue)
          /\ \A i \in 1 .. (Len(queue) - 1) : queue'[i] = queue[i + 1]
      BY <1>9, DequeueShape DEF recv
    <2>2. \A i \in DOMAIN queue' :
            /\ arc # 0 => queue'[i].weak <= arc
            /\ queue'[i].weak = arc => queue'[i].at = observers
      BY <1>a, <2>1 DEF MapInv
    <2>3. CASE queue[1].weak = arc
      <3>1. /\ worker' = "execute" /\ running' = queue[1] /\ todo' = observers
            /\ UNCHANGED <<observers, arc, sender, open>> /\ worker # "none"
        BY <1>9, <2>3, DequeueShape DEF recv
      <3>2. queue[1].at = observers /\ (arc # 0 => queue[1].weak <= arc)
        BY <2>1, <2>3 DEF MapInv
      <3>3. QED
        BY <2>2, <3>1, <3>2 DEF MapInv
    <2>4. CASE queue[1].weak # arc
      <3>1. UNCHANGED <<observers, arc, sender, open, worker, running, todo>>
        BY <1>9, <2>4, DequeueShape DEF recv
      <3>2. QED
        BY <2>2, <3>1 DEF MapInv
    <2>5. QED
      BY <2>3, <2>4
  <1>10. CASE executed
    BY <1>10, <1>a DEF executed, MapInv, NoCommand
  <1>11. CASE exit
    BY <1>11 DEF exit, MapInv
  <1>12. ASSUME NEW o \in Observers, notify(o) PROVE MapInv'
    BY <1>12 DEF notify, MapInv
  <1>13. CASE UNCHANGED vars
    BY <1>13 DEF vars, MapInv
  <1>14. QED
    BY <1>1, <1>2, <1>3, <1>4, <1>5, <1>6, <1>7, <1>8, <1>9, <1>10, <1>11, <1>12, <1>13
       DEF Next, Executor

(* The committed transactions are the first ones, and a transaction's       *)
(* report has what that transaction touched: done takes the attributes      *)
(* collected, and rollback gives ids back together with what was written.   *)
LEMMA TxStep == TypeOK /\ TxInv /\ [Next]_vars => TxInv'
  <1> SUFFICES ASSUME TypeOK, TxInv, [Next]_vars PROVE TxInv'
    OBVIOUS
  <1> USE ObserverAssumption DEF service, progress, executor
  <1> PICK k \in 0 .. MaxTx :
        /\ committed = 1 .. k
        /\ k < next
        /\ ~open => next = k + 1
        /\ Ids(txes) = (k + 1) .. (next - 1)
        /\ \A r \in txes : r.attrs = wrote[r.tx]
        /\ next <= MaxTx => collected = wrote[next]
        /\ \A t \in 1 .. MaxTx : next < t => wrote[t] = {}
    BY DEF TxInv
  <1>a. next \in 1 .. (MaxTx + 1) /\ k \in Nat /\ k + 1 <= next
    BY DEF TypeOK
  <1>b. \A r \in txes : r.tx \in (k + 1) .. (next - 1)
    BY DEF Ids
  <1>1. ASSUME UNCHANGED progress PROVE TxInv'
    BY <1>1 DEF TxInv, Ids
  <1>2. CASE begin
    <2>1. txes' = {} /\ next = k + 1 /\ UNCHANGED <<committed, next, wrote, collected>> /\ open' = TRUE
      BY <1>2 DEF begin
    <2>2. Ids(txes)' = (k + 1) .. (next' - 1)
      BY <2>1, <1>a DEF Ids
    <2>3. \A r \in txes' : r.attrs = wrote'[r.tx]
      BY <2>1
    <2>4. QED
      BY <2>1, <2>2, <2>3 DEF TxInv
  <1>3. ASSUME NEW a \in Attributes, causet(a) PROVE TxInv'
    <2>1. /\ open /\ open' = open /\ UNCHANGED <<committed, next, txes>> /\ next <= MaxTx
          /\ collected' = collected \cup {a}
          /\ wrote' = [wrote EXCEPT ![next] = @ \cup {a}]
      BY <1>3 DEF causet
    <2>2. wrote \in [1 .. MaxTx -> SUBSET Attributes] /\ next \in 1 .. MaxTx
      BY <1>a, <2>1 DEF TypeOK
    <2>3. wrote'[next] = wrote[next] \cup {a} /\ \A t \in 1 .. MaxTx : t # next => wrote'[t] = wrote[t]
      BY <2>1, <2>2
    <2>4. \A r \in txes : r.attrs = wrote'[r.tx]
      BY <1>a, <1>b, <2>2, <2>3
    <2>5. collected' = wrote'[next]
      BY <2>1, <2>3
    <2>6. \A t \in 1 .. MaxTx : next < t => wrote'[t] = {}
      BY <1>a, <2>3
    <2>7. QED
      BY <2>1, <2>4, <2>5, <2>6 DEF TxInv, Ids
  <1>4. CASE done
    <2>1. /\ open /\ open' = open /\ UNCHANGED <<committed, wrote>> /\ next <= MaxTx
          /\ collected' = {} /\ next' = next + 1
          /\ txes' = txes \cup { [tx |-> next, attrs |-> collected] }
      BY <1>4 DEF done, CollectedAfterDone
    <2>2. Ids(txes') = Ids(txes) \cup {next}
      <3>1. \A r \in txes' : r \in txes \/ r.tx = next
        BY <2>1
      <3>2. \E r \in txes' : r.tx = next
        <4> DEFINE report == [tx |-> next, attrs |-> collected]
        <4>1. report \in txes' /\ report.tx = next
          BY <2>1
        <4> HIDE DEF report
        <4>2. QED
          BY <4>1
      <3>3. txes \subseteq txes'
        BY <2>1
      <3>4. QED
        BY <3>1, <3>2, <3>3 DEF Ids
    <2>3. Ids(txes') = (k + 1) .. (next' - 1)
      <3>1. ((k + 1) .. (next - 1)) \cup {next} = (k + 1) .. next
        BY <1>a
      <3>2. next' - 1 = next
        BY <1>a, <2>1
      <3>3. QED
        BY <2>2, <3>1, <3>2
    <2>4. \A r \in txes' : r.attrs = wrote'[r.tx]
      BY <2>1
    <2>5. next' <= MaxTx => collected' = wrote'[next']
      BY <1>a, <2>1
    <2>6. \A t \in 1 .. MaxTx : next' < t => wrote'[t] = {}
      BY <1>a, <2>1
    <2>7. QED
      BY <1>a, <2>1, <2>3, <2>4, <2>5, <2>6 DEF TxInv, Ids
  <1>5. CASE in_progress_did_commit
    <2>1. /\ open' = FALSE /\ txes' = {} /\ collected' = {} /\ UNCHANGED <<next, wrote>>
          /\ committed' = committed \cup Ids(txes)
          /\ next <= MaxTx => wrote[next] = {}
      BY <1>5 DEF in_progress_did_commit, Ids
    <2>2. committed' = 1 .. (next - 1)
      BY <1>a, <2>1
    <2>3. next - 1 \in 0 .. MaxTx
      BY <1>a
    <2>4. Ids(txes)' = ((next - 1) + 1) .. (next' - 1)
      BY <1>a, <2>1 DEF Ids
    <2>5. \A t \in 1 .. MaxTx : next' < t => wrote'[t] = {}
      BY <2>1
    <2>6. next' <= MaxTx => collected' = wrote'[next']
      BY <2>1
    <2>7. next - 1 < next' /\ next' = (next - 1) + 1
      BY <1>a, <2>1
    <2>8. QED
      BY <2>1, <2>2, <2>3, <2>4, <2>5, <2>6, <2>7 DEF TxInv
  <1>6. CASE rollback
    <2>1. /\ open' = FALSE /\ txes' = {} /\ collected' = {} /\ UNCHANGED committed
          /\ next' = k + 1
          /\ wrote' = [t \in 1 .. MaxTx |-> IF t \in 1 .. k THEN wrote[t] ELSE {}]
      BY <1>6, CommittedCount DEF rollback
    <2>2. Ids(txes)' = (k + 1) .. (next' - 1)
      BY <2>1 DEF Ids
    <2>3. next' <= MaxTx => collected' = wrote'[next']
      BY <2>1
    <2>4. \A t \in 1 .. MaxTx : next' < t => wrote'[t] = {}
      BY <2>1
    <2>5. QED
      BY <2>1, <2>2, <2>3, <2>4 DEF TxInv
  <1>7. QED
    BY <1>1, <1>2, <1>3, <1>4, <1>5, <1>6
       DEF Next, Executor, register, deregister, drop, recv, executed, exit, notify, vars

(* What a committed transaction touched is never rewritten: causet writes   *)
(* for the next id and rollback clears only what has not committed.         *)
LEMMA WrittenKept ==
    TypeOK /\ TxInv /\ [Next]_vars =>
        committed \subseteq committed' /\ \A t \in committed : wrote'[t] = wrote[t]
  <1> SUFFICES ASSUME TypeOK, TxInv, [Next]_vars
               PROVE  committed \subseteq committed' /\ \A t \in committed : wrote'[t] = wrote[t]
    OBVIOUS
  <1> USE DEF service, progress, executor
  <1> PICK k \in 0 .. MaxTx : committed = 1 .. k /\ k < next
    BY DEF TxInv
  <1>1. ASSUME NEW a \in Attributes, causet(a)
        PROVE  committed \subseteq committed' /\ \A t \in committed : wrote'[t] = wrote[t]
    <2>1. next \notin committed /\ next \in Nat
      BY DEF TypeOK
    <2>2. wrote' = [wrote EXCEPT ![next] = @ \cup {a}] /\ UNCHANGED committed
      BY <1>1 DEF causet
    <2>3. wrote \in [1 .. MaxTx -> SUBSET Attributes] /\ committed \subseteq 1 .. MaxTx
      BY DEF TypeOK
    <2>4. QED
      BY <2>1, <2>2, <2>3
  <1>2. CASE rollback
    BY <1>2 DEF rollback, TypeOK
  <1>3. CASE in_progress_did_commit
    BY <1>3 DEF in_progress_did_commit
  <1>4. QED
    BY <1>1, <1>2, <1>3
       DEF Next, Executor, register, deregister, drop, begin, done, recv, executed, exit,
           notify, vars

(* A call an observer gets is one it had got before or one of the command   *)
(* that is running.                                                         *)
LEMMA HeardShape ==
    ASSUME TypeOK, NEW o \in Observers, notify(o)
    PROVE  /\ \A p \in Observers : p # o => heard'[p] = heard[p]
           /\ Len(heard[o]) \in Nat /\ DOMAIN heard[o] = 1 .. Len(heard[o])
           /\ \A i \in DOMAIN heard[o] : i \in DOMAIN heard'[o] /\ heard'[o][i] = heard[o][i]
           /\ heard'[o][Len(heard[o]) + 1] = running.reports
           /\ \A i \in DOMAIN heard'[o] : i \in DOMAIN heard[o] \/ i = Len(heard[o]) + 1 \/
                /\ i = Len(heard[o]) + 2
                /\ heard'[o][i] \subseteq running.reports /\ heard'[o][i] # {}
  <1> DEFINE calls == Calls(o, running.reports)
  <1>1. running.reports \in SUBSET Report
    BY DEF TypeOK, NoCommand, Command
  <1>2. heard[o] \in Seq(SUBSET Report) /\ calls \in Seq(SUBSET Report)
    BY <1>1, CallsShape DEF TypeOK
  <1>3. /\ Len(calls) \in 1 .. 2 /\ calls[1] = running.reports
        /\ Len(calls) = 2 => calls[2] \subseteq running.reports /\ calls[2] # {}
    BY <1>1, CallsShape
  <1>4. heard'[o] = heard[o] \o calls /\ \A p \in Observers : p # o => heard'[p] = heard[p]
    BY DEF notify, TypeOK
  <1> HIDE DEF calls
  <1>5. /\ heard[o] \o calls \in Seq(SUBSET Report)
        /\ Len(heard[o] \o calls) = Len(heard[o]) + Len(calls)
        /\ \A i \in 1 .. Len(heard[o]) + Len(calls) :
             (heard[o] \o calls)[i] = IF i <= Len(heard[o]) THEN heard[o][i]
                                      ELSE calls[i - Len(heard[o])]
    BY <1>2, ConcatProperties
  <1>6. Len(heard[o]) \in Nat /\ DOMAIN heard[o] = 1 .. Len(heard[o])
    BY <1>2, LenProperties
  <1>7. DOMAIN heard'[o] = 1 .. (Len(heard[o]) + Len(calls))
    BY <1>4, <1>5, LenProperties
  <1>8. \A i \in DOMAIN heard[o] : i \in DOMAIN heard'[o] /\ heard'[o][i] = heard[o][i]
    BY <1>3, <1>4, <1>5, <1>6, <1>7
  <1>9. heard'[o][Len(heard[o]) + 1] = running.reports
    BY <1>3, <1>4, <1>5, <1>6, <1>7
  <1>10. ASSUME NEW i \in DOMAIN heard'[o], i \notin DOMAIN heard[o], i # Len(heard[o]) + 1
         PROVE  /\ i = Len(heard[o]) + 2
                /\ heard'[o][i] \subseteq running.reports /\ heard'[o][i] # {}
    <2>1. i = Len(heard[o]) + 2 /\ Len(calls) = 2
      <3>1. i \in 1 .. (Len(heard[o]) + Len(calls)) /\ i \notin 1 .. Len(heard[o])
        BY <1>6, <1>7, <1>10
      <3>2. \A n \in Nat, m \in 1 .. 2 : \A j \in 1 .. (n + m) :
              j \notin 1 .. n /\ j # n + 1 => j = n + 2 /\ m = 2
        OBVIOUS
      <3>3. QED
        BY <1>3, <1>6, <1>10, <3>1, <3>2
    <2>2. heard'[o][i] = calls[2]
      BY <1>3, <1>4, <1>5, <1>6, <1>7, <2>1
    <2>3. QED
      BY <1>3, <2>1, <2>2
  <1>11. QED
    BY <1>4, <1>6, <1>8, <1>9, <1>10

(* Reports are exact from the moment they are sent to the moment they are   *)
(* heard.                                                                   *)
LEMMA SentStep == TypeOK /\ MapInv /\ TxInv /\ SentInv /\ [Next]_vars => SentInv'
  <1> SUFFICES ASSUME TypeOK, MapInv, TxInv, SentInv, [Next]_vars PROVE SentInv'
    OBVIOUS
  <1> USE DEF service, progress, executor
  <1> DEFINE ExactNext(R) == \A r \in R : r.tx \in committed' /\ r.attrs = wrote'[r.tx]
  <1>a. \A R : Exact(R) => ExactNext(R)
    BY WrittenKept DEF Exact
  <1>q. ASSUME UNCHANGED queue
        PROVE  \A i \in DOMAIN queue' : queue'[i].reports # {} /\ ExactNext(queue'[i].reports)
    BY <1>q, <1>a DEF SentInv
  <1>r. ASSUME UNCHANGED running PROVE ExactNext(running'.reports)
    BY <1>r, <1>a DEF SentInv
  <1>h. ASSUME UNCHANGED heard
        PROVE  \A o \in Observers : \A i \in DOMAIN heard'[o] :
                 heard'[o][i] # {} /\ ExactNext(heard'[o][i])
    BY <1>h, <1>a DEF SentInv
  <1>1. ASSUME UNCHANGED <<queue, worker, running, heard>> PROVE SentInv'
    BY <1>1, <1>q, <1>r, <1>h DEF SentInv, Exact
  <1>2. CASE in_progress_did_commit
    <2>1. CASE observers = {}
      <3>1. UNCHANGED <<queue, worker, running, heard>>
        BY <1>2, <2>1 DEF in_progress_did_commit
      <3>2. QED
        BY <1>1, <3>1
    <2>2. CASE observers # {}
      <3>1. /\ Len(queue) \in Nat /\ DOMAIN queue = 1 .. Len(queue)
            /\ DOMAIN queue' = 1 .. (Len(queue) + 1)
            /\ \A i \in DOMAIN queue : queue'[i] = queue[i]
            /\ queue'[Len(queue) + 1].reports = txes
        BY <1>2, <2>2, AppendShape
      <3>2. UNCHANGED <<running, heard, wrote>> /\ txes # {}
        BY <1>2, <2>2 DEF in_progress_did_commit
      <3>3. ExactNext(txes)
        BY <1>2 DEF in_progress_did_commit, TxInv
      <3>4. \A i \in DOMAIN queue' : queue'[i].reports # {} /\ ExactNext(queue'[i].reports)
        BY <1>a, <3>1, <3>2, <3>3 DEF SentInv
      <3>5. worker' = "execute" => running'.reports # {}
        BY <1>2, <2>2 DEF in_progress_did_commit, SentInv
      <3>6. QED
        BY <1>r, <1>h, <3>2, <3>4, <3>5 DEF SentInv, Exact
    <2>3. QED
      BY <2>1, <2>2
  <1>3. CASE recv
    <2>1. /\ DOMAIN queue' = 1 .. (Len(queue) - 1) /\ Len(queue) \in Nat \ {0}
          /\ DOMAIN queue = 1 .. Len(queue)
          /\ \A i \in 1 .. (Len(queue) - 1) : queue'[i] = queue[i + 1]
          /\ running' \in {queue[1], running} /\ UNCHANGED heard
          /\ worker' = "execute" => running' = queue[1] \/ UNCHANGED <<worker, running>>
      BY <1>3, DequeueShape DEF recv
    <2>2. \A i \in DOMAIN queue' : queue'[i].reports # {} /\ ExactNext(queue'[i].reports)
      BY <1>a, <2>1 DEF SentInv
    <2>3. ExactNext(running'.reports) /\ (worker' = "execute" => running'.reports # {})
      BY <1>a, <2>1 DEF SentInv
    <2>4. QED
      BY <1>h, <2>1, <2>2, <2>3 DEF SentInv, Exact
  <1>4. CASE executed
    <2>1. UNCHANGED <<queue, heard>> /\ running'.reports = {} /\ worker' = "recv"
      BY <1>4 DEF executed, NoCommand
    <2>2. QED
      BY <1>q, <1>h, <2>1 DEF SentInv, Exact
  <1>5. CASE exit
    <2>1. UNCHANGED <<queue, heard, running>> /\ worker' = "exited"
      BY <1>5 DEF exit
    <2>2. QED
      BY <1>q, <1>r, <1>h, <2>1 DEF SentInv, Exact
  <1>6. ASSUME NEW o \in Observers, notify(o) PROVE SentInv'
    <2>1. UNCHANGED <<queue, running, worker>> /\ worker = "execute"
      BY <1>6 DEF notify
    <2>2. running.reports # {} /\ ExactNext(running.reports)
      BY <1>a, <2>1 DEF SentInv
    <2>3. \A p \in Observers : \A i \in DOMAIN heard'[p] :
            heard'[p][i] # {} /\ ExactNext(heard'[p][i])
      <3>1. ASSUME NEW p \in Observers, p # o, NEW i \in DOMAIN heard'[p]
            PROVE  heard'[p][i] # {} /\ ExactNext(heard'[p][i])
        BY <1>6, <1>a, <3>1, HeardShape DEF SentInv
      <3>2. ASSUME NEW i \in DOMAIN heard'[o]
            PROVE  heard'[o][i] # {} /\ ExactNext(heard'[o][i])
        BY <1>6, <1>a, <2>2, HeardShape DEF SentInv
      <3>3. QED
        BY <3>1, <3>2
    <2>4. QED
      BY <1>q, <1>r, <2>1, <2>2, <2>3 DEF SentInv, Exact
  <1>7. QED
    BY <1>1, <1>2, <1>3, <1>4, <1>5, <1>6
       DEF Next, Executor, register, deregister, drop, begin, causet, done, rollback, vars

(* Commands leave the channel in the order they were sent in, and a         *)
(* transaction that commits comes after everything sent before.             *)
LEMMA OrderStep ==
    TypeOK /\ MapInv /\ TxInv /\ SentInv /\ OrderInv /\ [Next]_vars => OrderInv'
  <1> SUFFICES ASSUME TypeOK, MapInv, TxInv, SentInv, OrderInv, [Next]_vars PROVE OrderInv'
    OBVIOUS
  <1> USE DEF service, progress, executor
  <1>1. ASSUME UNCHANGED <<queue, running, heard>>, todo' \subseteq todo PROVE OrderInv'
    BY <1>1 DEF OrderInv, Before
  <1>2. CASE in_progress_did_commit
    <2>1. CASE observers = {}
      <3>1. UNCHANGED <<queue, running, heard, todo>>
        BY <1>2, <2>1 DEF in_progress_did_commit
      <3>2. QED
        BY <1>1, <3>1
    <2>2. CASE observers # {}
      <3>1. /\ Len(queue) \in Nat /\ DOMAIN queue = 1 .. Len(queue)
            /\ DOMAIN queue' = 1 .. (Len(queue) + 1)
            /\ \A i \in DOMAIN queue : queue'[i] = queue[i]
            /\ queue'[Len(queue) + 1].reports = txes
        BY <1>2, <2>2, AppendShape
      <3>2. UNCHANGED <<running, heard, todo>>
        BY <1>2, <2>2 DEF in_progress_did_commit
      <3>3. \A R : Exact(R) => Before(R, txes)
        <4>1. PICK k \in 0 .. MaxTx : committed = 1 .. k /\ Ids(txes) = (k + 1) .. (next - 1)
          BY DEF TxInv
        <4>2. next \in Int /\ k \in Int
          BY ObserverAssumption DEF TypeOK
        <4>3. \A r \in txes : r.tx \in (k + 1) .. (next - 1)
          BY <4>1 DEF Ids
        <4>4. QED
          BY <4>1, <4>2, <4>3 DEF Exact, Before
      <3>4. \A i, j \in DOMAIN queue' : i < j => Before(queue'[i].reports, queue'[j].reports)
        BY <3>1, <3>3 DEF OrderInv, SentInv
      <3>5. \A j \in DOMAIN queue' : Before(running.reports, queue'[j].reports)
        BY <3>1, <3>3 DEF OrderInv, SentInv
      <3>6. ASSUME NEW o \in Observers, NEW i \in DOMAIN heard[o], NEW j \in DOMAIN queue'
            PROVE  Before(heard[o][i], queue'[j].reports)
        BY <3>1, <3>3 DEF OrderInv, SentInv
      <3>7. QED
        BY <3>2, <3>4, <3>5, <3>6 DEF OrderInv, Before
    <2>3. QED
      BY <2>1, <2>2
  <1>3. CASE recv
    <2>1. /\ DOMAIN queue' = 1 .. (Len(queue) - 1) /\ Len(queue) \in Nat \ {0}
          /\ DOMAIN queue = 1 .. Len(queue)
          /\ \A i \in 1 .. (Len(queue) - 1) : queue'[i] = queue[i + 1]
          /\ UNCHANGED heard
          /\ \/ running' = queue[1]
             \/ UNCHANGED <<running, todo>>
      BY <1>3, DequeueShape DEF recv
    <2>2. ASSUME NEW j \in DOMAIN queue'
          PROVE  j + 1 \in DOMAIN queue /\ queue'[j] = queue[j + 1] /\ 1 < j + 1 /\ 1 \in DOMAIN queue
      BY <2>1
    <2>3. \A i, j \in DOMAIN queue' : i < j => Before(queue'[i].reports, queue'[j].reports)
      BY <2>1, <2>2 DEF OrderInv
    <2>4. \A j \in DOMAIN queue' : Before(running'.reports, queue'[j].reports)
      BY <2>1, <2>2 DEF OrderInv
    <2>5. ASSUME NEW o \in Observers, NEW i \in DOMAIN heard[o]
          PROVE  /\ \A j \in DOMAIN queue' : Before(heard[o][i], queue'[j].reports)
                 /\ o \in todo' => Before(heard[o][i], running'.reports)
      BY <2>1, <2>2 DEF OrderInv
    <2>6. QED
      BY <2>1, <2>3, <2>4, <2>5 DEF OrderInv, Before
  <1>4. CASE executed
    <2>1. UNCHANGED <<queue, heard, todo>> /\ todo = {} /\ running'.reports = {}
      BY <1>4 DEF executed, NoCommand
    <2>2. QED
      BY <2>1 DEF OrderInv, Before
  <1>5. ASSUME NEW o \in Observers, notify(o) PROVE OrderInv'
    <2>1. UNCHANGED <<queue, running>> /\ todo' = todo \ {o} /\ o \in todo
      BY <1>5 DEF notify
    <2>2. ASSUME NEW i \in DOMAIN heard'[o], NEW j \in DOMAIN queue
          PROVE  Before(heard'[o][i], queue[j].reports)
      <3>1. CASE i \in DOMAIN heard[o]
        BY <1>5, <3>1, HeardShape DEF OrderInv
      <3>2. CASE i \notin DOMAIN heard[o]
        <4>1. heard'[o][i] \subseteq running.reports
          BY <1>5, <3>2, HeardShape
        <4>2. QED
          BY <4>1 DEF OrderInv, Before
      <3>3. QED
        BY <3>1, <3>2
    <2>3. ASSUME NEW p \in Observers, p # o
          PROVE  heard'[p] = heard[p]
      BY <1>5, <2>3, HeardShape
    <2>4. ASSUME NEW p \in Observers, NEW i \in DOMAIN heard'[p]
          PROVE  /\ \A j \in DOMAIN queue : Before(heard'[p][i], queue[j].reports)
                 /\ p \in todo' => Before(heard'[p][i], running.reports)
      <3>1. CASE p = o
        BY <2>1, <2>2, <3>1
      <3>2. CASE p # o
        BY <2>1, <2>3, <3>2 DEF OrderInv
      <3>3. QED
        BY <3>1, <3>2
    <2>5. QED
      BY <2>1, <2>4 DEF OrderInv, Before
  <1>6. QED
    BY <1>1, <1>2, <1>3, <1>4, <1>5
       DEF Next, Executor, register, deregister, drop, begin, causet, done, rollback, exit, vars

(* The calls an observer has got stay exact and in order: a command is      *)
(* executed after those before it, and its two calls share a transaction.   *)
LEMMA ReportsStep ==
    TypeOK /\ MapInv /\ TxInv /\ SentInv /\ OrderInv /\ ReportsExact /\ [Next]_vars
        => ReportsExact'
  <1> SUFFICES ASSUME TypeOK, MapInv, TxInv, SentInv, OrderInv, ReportsExact, [Next]_vars
               PROVE  ReportsExact'
    OBVIOUS
  <1> DEFINE InOrder(h, i, j) == \/ j = i + 1 /\ h[j] \subseteq h[i]
                                 \/ \A r \in h[i], s \in h[j] : r.tx < s.tx
  <1>1. SentInv'
    BY SentStep
  <1>2. \A o \in Observers : \A i \in DOMAIN heard'[o] : \A r \in heard'[o][i] :
           r.tx \in committed' /\ r.attrs = wrote'[r.tx]
    BY <1>1 DEF SentInv, Exact
  <1>3. ASSUME UNCHANGED heard PROVE ReportsExact'
    BY <1>2, <1>3 DEF ReportsExact
  <1>4. ASSUME NEW o \in Observers, notify(o) PROVE ReportsExact'
    <2>a. DOMAIN heard'[o] \subseteq Nat
      BY <1>4, HeardShape
    <2>b. o \in todo /\ running.reports # {} /\ running.reports \subseteq Report
      BY <1>4 DEF notify, SentInv, TypeOK, NoCommand, Command
    <2>1. ASSUME NEW i \in DOMAIN heard'[o], NEW j \in DOMAIN heard'[o], i < j
          PROVE  InOrder(heard'[o], i, j)
      <3>1. CASE j \in DOMAIN heard[o]
        <4>1. i \in DOMAIN heard[o]
          BY <1>4, <2>a, <2>1, <3>1, HeardShape
        <4>2. heard'[o][i] = heard[o][i] /\ heard'[o][j] = heard[o][j]
          BY <1>4, <3>1, <4>1, HeardShape
        <4>3. QED
          BY <2>1, <3>1, <4>1, <4>2 DEF ReportsExact
      <3>2. CASE j \notin DOMAIN heard[o]
        <4>1. heard'[o][j] \subseteq running.reports /\ heard'[o][j] # {}
          BY <1>4, <2>b, <3>2, HeardShape
        <4>2. CASE i \in DOMAIN heard[o]
          <5>1. heard'[o][i] = heard[o][i] /\ heard[o][i] # {}
            BY <1>4, <4>2, HeardShape DEF SentInv
          <5>2. Before(heard[o][i], running.reports)
            BY <2>b, <4>2 DEF OrderInv
          <5>3. QED
            BY <4>1, <5>1, <5>2 DEF Before
        <4>3. CASE i \notin DOMAIN heard[o]
          <5>1. heard'[o][i] = running.reports
            BY <1>4, <2>1, <3>2, <4>3, HeardShape
          <5>2. j = i + 1
            BY <1>4, <2>a, <2>1, <3>2, <4>3, HeardShape
          <5>3. QED
            BY <4>1, <5>1, <5>2
        <4>4. QED
          BY <4>2, <4>3
      <3>3. QED
        BY <3>1, <3>2
    <2>2. ASSUME NEW p \in Observers, NEW i \in DOMAIN heard'[p], NEW j \in DOMAIN heard'[p], i < j
          PROVE  InOrder(heard'[p], i, j)
      <3>1. CASE p = o
        BY <2>1, <2>2, <3>1
      <3>2. CASE p # o
        <4>1. heard'[p] = heard[p]
          BY <1>4, <3>2, HeardShape
        <4>2. QED
          BY <2>2, <4>1 DEF ReportsExact
      <3>3. QED
        BY <3>1, <3>2
    <2>3. QED
      BY <1>2, <2>2 DEF ReportsExact
  <1>5. QED
    BY <1>3, <1>4
       DEF Next, Executor, register, deregister, drop, begin, causet, done,
           in_progress_did_commit, rollback, recv, executed, exit, vars, executor

-----------------------------------------------------------------------------
(* A new service, with nobody registered and nothing sent, satisfies Ind.   *)
LEMMA InitInd == Init => Ind
  <1> SUFFICES ASSUME Init PROVE Ind
    OBVIOUS
  <1> USE ObserverAssumption DEF Init
  <1>1. TypeOK
    <2>1. heard \in [Observers -> Seq(SUBSET Report)] /\ queue \in Seq(Command)
      BY EmptySeq
    <2>2. wrote \in [1 .. MaxTx -> SUBSET Attributes] /\ witness \in [1 .. MaxTx -> SUBSET Observers]
      OBVIOUS
    <2>3. arc \in 0 .. MaxArc /\ next \in 1 .. (MaxTx + 1)
      OBVIOUS
    <2>4. running \in Command \cup {NoCommand} /\ worker \in {"none", "recv", "execute", "exited"}
      OBVIOUS
    <2>5. open \in BOOLEAN /\ sender \in BOOLEAN
      OBVIOUS
    <2>6. /\ observers \subseteq Observers /\ collected \subseteq Attributes /\ txes \subseteq Report
          /\ todo \subseteq Observers /\ committed \subseteq 1 .. MaxTx
      OBVIOUS
    <2>7. worker # "execute" => running = NoCommand
      OBVIOUS
    <2>8. QED
      BY <2>1, <2>2, <2>3, <2>4, <2>5, <2>6, <2>7 DEF TypeOK
  <1>2. MapInv
    BY DEF MapInv, NoCommand
  <1>3. TxInv
    <2>1. committed = 1 .. 0 /\ Ids(txes) = (0 + 1) .. (next - 1)
      BY DEF Ids
    <2>2. 0 \in 0 .. MaxTx
      OBVIOUS
    <2>3. \A t \in 1 .. MaxTx : wrote[t] = {}
      OBVIOUS
    <2>4. next <= MaxTx => collected = wrote[next]
      OBVIOUS
    <2>5. /\ 0 < next
          /\ next = 0 + 1
          /\ \A r \in txes : r.attrs = wrote[r.tx]
      OBVIOUS
    <2>6. QED
      BY <2>1, <2>2, <2>3, <2>4, <2>5 DEF TxInv
  <1>4. SentInv
    BY DEF SentInv, Exact, NoCommand
  <1>5. OrderInv /\ ReportsExact
    BY DEF OrderInv, ReportsExact, Before, NoCommand
  <1>6. QED
    BY <1>1, <1>2, <1>3, <1>4, <1>5 DEF Ind

(* Ind is inductive: the way of a report from done to notify_fn.            *)
THEOREM IndInvariant == Spec => []Ind
  <1>1. Init => Ind
    BY InitInd
  <1>2. Ind /\ [Next]_vars => Ind'
    BY TypeStep, MapStep, TxStep, SentStep, OrderStep, ReportsStep DEF Ind
  <1>3. QED
    BY <1>1, <1>2, PTL DEF Spec

(* Every variable keeps its type, a command in the channel among them: it   *)
(* always refers to an allocation the service had.                          *)
THEOREM TypeInvariant == Spec => []TypeOK
  <1>1. Ind => TypeOK
    BY DEF Ind
  <1>2. QED
    BY <1>1, IndInvariant, PTL

(* TxCommand::execute only notifies observers that were registered when     *)
(* the transactions it reports committed.                                   *)
THEOREM WitnessesInvariant == Spec => []OnlyWitnesses
  <1>1. Ind => OnlyWitnesses
    BY DEF Ind, MapInv, OnlyWitnesses
  <1>2. QED
    BY <1>1, IndInvariant, PTL

(* What an observer is told did commit, touched those attributes, and comes *)
(* in the order of the commits, for any number of threads' interleavings,   *)
(* observers and transactions.                                              *)
THEOREM ReportsInvariant == Spec => []ReportsExact
  <1>1. Ind => ReportsExact
    BY DEF Ind
  <1>2. QED
    BY <1>1, IndInvariant, PTL

=============================================================================
