----------------------------- MODULE ThreadProofs -----------------------------
(***************************************************************************)
(* Proofs about the two components in which threads share atomics without  *)
(* a lock, for any number of threads: the read pool (ReadPool) and the     *)
(* automaton cell (FsmState).                                              *)
(*                                                                         *)
(* The limit of the pool, Overshoot, is not inductive: a thread that has   *)
(* passed the check raises the gauge later, whatever it is by then.        *)
(* Reserved counts such threads in advance; there are never more of them   *)
(* than threads.                                                           *)
(*                                                                         *)
(* The two atomics of the cell are enough: the automaton is never in two   *)
(* places, never freed twice, and neither panic of take_turing_automata    *)
(* and release is reached.  Handshake is the inductive part: the status    *)
(* acts as a lock whose owner is the one thread in Holders.                *)
(***************************************************************************)
EXTENDS ReadPool, FsmState, FiniteSetTheorems, TLAPS

-----------------------------------------------------------------------------
(* The read pool. *)

\* The task of a call is handed over once, after its thread was counted.
Fresh ==
    \A t \in Threads :
        /\ \A n \in 1 .. MaxCalls : n > calls[t] => task[<<t, n>>] = "none"
        /\ pc[t] # "idle" => calls[t] >= 1 /\ task[Current(t)] = "none"

Reserved ==
    running_tasks + Cardinality(Passed) <= max_tasks + Cardinality(Threads) - 1

Ind == TypeOK /\ Fresh /\ GaugeExact /\ Reserved

(* The sets that are counted are finite.                                   *)
LEMMA Finite ==
    /\ IsFiniteSet(Call)
    /\ IsFiniteSet(Passed) /\ Cardinality(Passed) \in Nat
    /\ Cardinality(Passed) <= Cardinality(Threads)
    /\ IsFiniteSet(Counted) /\ Cardinality(Counted) \in Nat
    /\ IsFiniteSet(Holding) /\ Cardinality(Holding) \in Nat
    /\ Cardinality(Threads) \in Nat /\ Cardinality(Threads) >= 1
<1>1. IsFiniteSet(1 .. MaxCalls)
  BY FS_Interval, PoolAssumption
<1>2. IsFiniteSet(Call)
  BY <1>1, FS_Product, PoolAssumption DEF Call
<1>3. /\ IsFiniteSet(Passed) /\ Cardinality(Passed) <= Cardinality(Threads)
      /\ IsFiniteSet(Counted)
  BY FS_Subset, PoolAssumption DEF Passed, Counted
<1>4. IsFiniteSet(Holding)
  BY <1>2, FS_Subset DEF Holding
<1>5. Cardinality(Threads) \in Nat /\ Cardinality(Threads) # 0
  BY FS_CardinalityType, FS_EmptySet, PoolAssumption
<1> QED BY <1>2, <1>3, <1>4, <1>5, FS_CardinalityType

(* An unused pool.                                                         *)
LEMMA IndInit == Init => Ind
<1> SUFFICES ASSUME Init PROVE Ind
  OBVIOUS
<1>1. Passed = {} /\ Counted = {} /\ Holding = {}
  BY DEF Init, Passed, Counted, Holding
<1>2. TypeOK /\ Fresh
  BY PoolAssumption DEF Init, TypeOK, Fresh, Call, Current
<1>3. GaugeExact
  BY <1>1, FS_EmptySet DEF Init, GaugeExact
<1>4. Reserved
  BY <1>1, Finite, FS_EmptySet, PoolAssumption DEF Init, Reserved
<1> QED BY <1>2, <1>3, <1>4 DEF Ind

(* The check: a thread that passes it saw the gauge below the limit.       *)
LEMMA IndCheck ==
    ASSUME Ind, NEW t \in Threads, check(t)
    PROVE  Ind'
<1> USE PoolAssumption
<1>1. TypeOK'
  <2>1. TypeOK
    BY DEF Ind
  <2>2. CASE running_tasks >= max_tasks
    BY <2>1, <2>2 DEF TypeOK, check
  <2>3. CASE ~(running_tasks >= max_tasks)
    BY <2>1, <2>3 DEF TypeOK, check
  <2>4. QED
    BY <2>2, <2>3
<1>2. Fresh'
  <2>1. ASSUME NEW u \in Threads PROVE
          /\ \A n \in 1 .. MaxCalls : n > calls'[u] => task'[<<u, n>>] = "none"
          /\ pc'[u] # "idle" => calls'[u] >= 1 /\ task'[<<u, calls'[u]>>] = "none"
    <3>1. calls[t] \in 0 .. MaxCalls /\ calls[u] \in 0 .. MaxCalls /\ calls[t] < MaxCalls
      BY DEF Ind, TypeOK, check
    <3>2. UNCHANGED task /\ calls' = [calls EXCEPT ![t] = @ + 1] /\ calls \in [Threads -> 0 .. MaxCalls]
      BY DEF check, Ind, TypeOK
    <3>3. CASE u # t
      <4>1. calls'[u] = calls[u] /\ pc'[u] = pc[u]
        BY <3>2, <3>3 DEF check, Ind, TypeOK
      <4> QED BY <3>2, <4>1 DEF Ind, Fresh, Current
    <3>4. CASE u = t
      <4>1. calls'[t] = calls[t] + 1 /\ calls[t] + 1 \in 1 .. MaxCalls
        BY <3>1, <3>2
      <4>2. \A n \in 1 .. MaxCalls : n > calls[t] => task[<<t, n>>] = "none"
        BY DEF Ind, Fresh
      <4>3. calls[t] + 1 > calls[t]
        BY <3>1
      <4> QED BY <3>1, <3>2, <3>4, <4>1, <4>2, <4>3
    <3> QED BY <3>3, <3>4
  <2> QED BY <2>1 DEF Fresh, Current
<1>3. Counted' = Counted /\ Holding' = Holding /\ running_tasks' = running_tasks
  BY DEF check, Counted, Holding, Ind, TypeOK
<1>4. GaugeExact'
  BY <1>3 DEF Ind, GaugeExact
<1>5. Reserved'
  <2>1. CASE running_tasks >= max_tasks
    <3>1. Passed' = Passed
      BY <2>1 DEF check, Passed
    <3> QED BY <1>3, <3>1 DEF Ind, Reserved
  <2>2. CASE ~(running_tasks >= max_tasks)
    <3>1. Cardinality(Passed') \in Nat /\ Cardinality(Passed') <= Cardinality(Threads)
      BY FS_Subset, FS_CardinalityType DEF Passed
    <3>2. running_tasks \in Int /\ running_tasks <= max_tasks - 1
      BY <2>2 DEF Ind, TypeOK
    <3> QED BY <1>3, <3>1, <3>2, Finite DEF Reserved
  <2> QED BY <2>1, <2>2
<1> QED BY <1>1, <1>2, <1>4, <1>5 DEF Ind

(* The increment turns a reservation into a count.                         *)
LEMMA IndInc ==
    ASSUME Ind, NEW t \in Threads, inc(t)
    PROVE  Ind'
<1>1. TypeOK' /\ Fresh'
  BY DEF Ind, TypeOK, Fresh, inc, Call, Current
<1>2. Passed' = Passed \ {t} /\ t \in Passed
  BY DEF Passed, inc, Ind, TypeOK
<1>3. Counted' = Counted \cup {t} /\ t \notin Counted
  BY DEF Counted, inc, Ind, TypeOK
<1>4. Holding' = Holding /\ running_tasks' = running_tasks + 1
  BY DEF Holding, inc
<1>5. Cardinality(Passed') = Cardinality(Passed) - 1
  BY <1>2, FS_RemoveElement, Finite
<1>6. Cardinality(Counted') = Cardinality(Counted) + 1
  BY <1>3, FS_AddElement, Finite
<1>7. running_tasks \in Int
  BY DEF Ind, TypeOK
<1>8. GaugeExact'
  BY <1>4, <1>6, <1>7, Finite DEF Ind, GaugeExact
<1>9. Reserved'
  BY <1>4, <1>5, <1>7, Finite, PoolAssumption DEF Ind, Reserved
<1> QED BY <1>1, <1>8, <1>9 DEF Ind

(* Handing the task over.                                                  *)
LEMMA IndSpawn ==
    ASSUME Ind, NEW t \in Threads, remote_spawn(t)
    PROVE  Ind'
<1> DEFINE c == Current(t)
<1>0. c \in Call /\ task[c] = "none"
  BY DEF Ind, Fresh, TypeOK, remote_spawn, Current, Call
<1>1. TypeOK'
  BY <1>0 DEF Ind, TypeOK, remote_spawn
<1>2. Fresh'
  BY <1>0 DEF Ind, TypeOK, Fresh, remote_spawn, Call, Current
<1>3. Passed' = Passed /\ running_tasks' = running_tasks
  BY DEF Passed, remote_spawn, Ind, TypeOK
<1>4. Counted' = Counted \ {t} /\ t \in Counted
  BY DEF Counted, remote_spawn, Ind, TypeOK
<1>5. Holding' = Holding \cup {c} /\ c \notin Holding
  BY <1>0 DEF Holding, remote_spawn, Ind, TypeOK
<1>6. Cardinality(Counted') = Cardinality(Counted) - 1
  BY <1>4, FS_RemoveElement, Finite
<1>7. Cardinality(Holding') = Cardinality(Holding) + 1
  BY <1>5, FS_AddElement, Finite
<1>8. GaugeExact'
  BY <1>3, <1>6, <1>7, Finite DEF Ind, GaugeExact
<1>9. Reserved'
  BY <1>3 DEF Ind, Reserved
<1> QED BY <1>1, <1>2, <1>8, <1>9 DEF Ind

(* A task that is sent or dropped keeps its slot; an answer is no slot.    *)
LEMMA IndKeep ==
    ASSUME Ind, NEW c \in Call, send(c) \/ drop_task(c) \/ abandon(c)
    PROVE  Ind'
<1>1. TypeOK'
  BY DEF Ind, TypeOK, send, drop_task, abandon, Told
<1>2. Fresh'
  BY DEF Ind, TypeOK, Fresh, send, drop_task, abandon, Call, Current
<1>3. Passed' = Passed /\ Counted' = Counted /\ running_tasks' = running_tasks
  BY DEF Passed, Counted, send, drop_task, abandon
<1>4. Holding' = Holding
  BY DEF Holding, send, drop_task, abandon, Ind, TypeOK
<1> QED BY <1>1, <1>2, <1>3, <1>4 DEF Ind, GaugeExact, Reserved

(* The end of a task gives one slot back.                                  *)
LEMMA IndDec ==
    ASSUME Ind, NEW c \in Call, dec(c)
    PROVE  Ind'
<1>1. TypeOK'
  BY DEF Ind, TypeOK, dec
<1>2. Fresh'
  BY DEF Ind, TypeOK, Fresh, dec, Call, Current
<1>3. Passed' = Passed /\ Counted' = Counted /\ running_tasks' = running_tasks - 1
  BY DEF Passed, Counted, dec
<1>4. Holding' = Holding \ {c} /\ c \in Holding
  BY DEF Holding, dec, Ind, TypeOK
<1>5. Cardinality(Holding') = Cardinality(Holding) - 1
  BY <1>4, FS_RemoveElement, Finite
<1>6. running_tasks \in Int
  BY DEF Ind, TypeOK
<1>7. GaugeExact'
  BY <1>3, <1>5, <1>6, Finite DEF Ind, GaugeExact
<1>8. Reserved'
  BY <1>3, <1>6, Finite, PoolAssumption DEF Ind, Reserved
<1> QED BY <1>1, <1>2, <1>7, <1>8 DEF Ind

(* The inductive invariant holds in every reachable state.                 *)
THEOREM Inductive == Spec => []Ind
<1>1. Init => Ind
  BY IndInit
<1>2. Ind /\ [Next]_vars => Ind'
  <2> SUFFICES ASSUME Ind, [Next]_vars PROVE Ind'
    OBVIOUS
  <2>1. CASE UNCHANGED vars
    BY <2>1 DEF vars, Ind, TypeOK, Fresh, GaugeExact, Reserved, Passed, Counted, Holding, Current
  <2>2. CASE Next
    BY <2>2, IndCheck, IndInc, IndSpawn, IndKeep, IndDec DEF Next, spawn
  <2> QED BY <2>1, <2>2
<1> QED BY <1>1, <1>2, PTL DEF Spec

(* The limit of the pool is exceeded by less than the number of threads.   *)
THEOREM LimitAlmostKept == Spec => []Overshoot
<1>1. Ind => Overshoot
  <2> SUFFICES ASSUME Ind PROVE Overshoot
    OBVIOUS
  <2>1. running_tasks \in Int
    BY DEF Ind, TypeOK
  <2> QED BY <2>1, Finite, PoolAssumption DEF Ind, Reserved, Overshoot
<1> QED BY <1>1, Inductive, PTL

(* The gauge is the number of slots in use, and so never negative.         *)
THEOREM GaugeIsExact == Spec => []GaugeExact
<1>1. Ind => GaugeExact
  BY DEF Ind
<1> QED BY <1>1, Inductive, PTL

-----------------------------------------------------------------------------
(* The automaton cell. *)

CellInd == FsmTypeOK /\ Handshake /\ OnePlace /\ NoPanic

(* The freshly built cell satisfies the invariant. *)
LEMMA CellInit == FsmInit => CellInd
  <1> SUFFICES ASSUME FsmInit PROVE CellInd
    OBVIOUS
  <1>1. \A t \in Callers : at[t] = "out"
    BY DEF FsmInit
  <1>2. Owners = {} /\ Holders = {}
    BY <1>1 DEF Owners, Holders, Inside
  <1>3. FsmTypeOK
    BY DEF FsmInit, FsmTypeOK, Outside
  <1>4. Handshake
    BY <1>2 DEF FsmInit, Handshake
  <1>5. OnePlace
    BY <1>2 DEF FsmInit, OnePlace
  <1>6. NoPanic
    BY <1>1 DEF NoPanic
  <1> QED BY <1>3, <1>4, <1>5, <1>6 DEF CellInd

(* A thread that only enters an operation disturbs nothing. *)
LEMMA CellEnter ==
  ASSUME CellInd, NEW t \in Callers, NEW caller \in {"take", "notify"}, enter(t, caller)
  PROVE  CellInd'
  BY DEF enter, Goto, CellInd, FsmTypeOK, Handshake, OnePlace, NoPanic, Owners,
         Holders, Inside, Outside

(* The first atomic of take_turing_automata makes its thread the holder    *)
(* only if the status was IDLE, when there is none.                        *)
LEMMA CellTakeCas ==
  ASSUME CellInd, NEW t \in Callers, NEW caller \in {"take", "notify"},
         NEW next \in {"took", "claimed"}, take_cas(t, caller, next)
  PROVE  CellInd'
  <1>1. CASE status = "IDLE"
    BY <1>1 DEF take_cas, Claimed, Goto, CellInd, FsmTypeOK, Handshake, OnePlace,
                NoPanic, Owners, Holders, Inside, Outside
  <1>2. CASE status # "IDLE"
    BY <1>2 DEF take_cas, Claimed, Goto, CellInd, FsmTypeOK, Handshake, OnePlace,
                NoPanic, Owners, Holders, Inside, Outside
  <1> QED BY <1>1, <1>2

(* The second atomic finds the box: its thread is the holder. *)
LEMMA CellTakeSwap ==
  ASSUME CellInd, NEW t \in Callers, NEW caller \in {"took", "claimed"},
         NEW next \in {"owner", "notifying"}, take_swap(t, caller, next)
  PROVE  CellInd'
  <1>1. t \in Holders /\ data /\ status # "IDLE" /\ ~dropped
    BY DEF take_swap, CellInd, Handshake, Holders, Inside
  <1>2. \A s \in Callers : s # t => at[s] \notin Inside
    BY <1>1 DEF CellInd, Handshake, Holders
  <1>3. /\ at' = [at EXCEPT ![t] = next]
        /\ ~data' /\ UNCHANGED <<status, freed, dropped>>
    BY <1>1 DEF take_swap, Goto
  <1>4. FsmTypeOK'
    BY <1>3 DEF CellInd, FsmTypeOK, Inside, take_swap
  <1>5. Holders' = {t} /\ Owners' = {t} /\ at'[t] = next
    BY <1>2, <1>3 DEF CellInd, FsmTypeOK, Holders, Owners, Inside
  <1>6. Handshake'
    BY <1>1, <1>3, <1>5 DEF CellInd, Handshake
  <1>7. OnePlace'
    BY <1>1, <1>3, <1>5 DEF CellInd, OnePlace
  <1>8. NoPanic'
    BY <1>3 DEF CellInd, FsmTypeOK, NoPanic
  <1> QED BY <1>4, <1>6, <1>7, <1>8 DEF CellInd

(* The end of notify frees the box its thread holds. *)
LEMMA CellNotify ==
  ASSUME CellInd, NEW t \in Callers, notify_schedule(t)
  PROVE  CellInd'
  <1>1. t \in Holders /\ t \in Owners /\ ~data /\ freed = 0 /\ status # "IDLE"
    BY DEF notify_schedule, CellInd, Handshake, OnePlace, Owners, Holders, Inside
  <1> QED
    BY <1>1 DEF notify_schedule, Goto, CellInd, FsmTypeOK, Handshake, OnePlace,
                NoPanic, Owners, Holders, Inside, Outside

(* release puts the box into an empty cell. *)
LEMMA CellReleaseSwap ==
  ASSUME CellInd, NEW t \in Callers, release_swap(t)
  PROVE  CellInd'
  <1>1. t \in Holders /\ t \in Owners /\ ~data /\ freed = 0
    BY DEF release_swap, CellInd, Handshake, OnePlace, Owners, Holders, Inside
  <1> QED
    BY <1>1 DEF release_swap, Goto, CellInd, FsmTypeOK, Handshake, OnePlace,
                NoPanic, Owners, Holders, Inside, Outside

(* The status is given up last, by the only holder. *)
LEMMA CellReleaseCas ==
  ASSUME CellInd, NEW t \in Callers, release_cas(t)
  PROVE  CellInd'
  <1>1. t \in Holders /\ data /\ Owners = {}
    BY DEF release_cas, CellInd, Handshake, OnePlace, Owners, Holders, Inside
  <1> QED
    BY <1>1 DEF release_cas, Released, Goto, CellInd, FsmTypeOK, Handshake,
                OnePlace, NoPanic, Owners, Holders, Inside, Outside

(* Every step preserves the invariant. *)
LEMMA CellNext == CellInd /\ [FsmNext]_fsmVars => CellInd'
  <1> SUFFICES ASSUME CellInd, [FsmNext]_fsmVars PROVE CellInd'
    OBVIOUS
  <1>1. ASSUME NEW t \in Callers, take_turing_automata(t) PROVE CellInd'
    BY <1>1, CellEnter, CellTakeCas, CellTakeSwap DEF take_turing_automata
  <1>2. ASSUME NEW t \in Callers, notify(t) PROVE CellInd'
    BY <1>2, CellEnter, CellTakeCas, CellTakeSwap, CellNotify DEF notify
  <1>3. ASSUME NEW t \in Callers, release(t) PROVE CellInd'
    BY <1>3, CellReleaseSwap, CellReleaseCas DEF release
  <1>4. CASE clear
    BY <1>4 DEF clear, CellInd, FsmTypeOK, Handshake, OnePlace, NoPanic, Owners,
                Holders, Inside
  <1>5. CASE drop
    <2>1. /\ \A t \in Callers : at'[t] \in {"out", "panic"}
          /\ dropped' /\ ~data'
          /\ UNCHANGED <<status, at>>
      BY <1>5 DEF drop
    <2>2. Owners = {} /\ Owners' = {} /\ Holders' = {}
      BY <2>1 DEF Owners, Holders, Inside
    <2>3. freed' = 1
      <3>1. CASE data
        BY <1>5, <3>1 DEF drop, CellInd, OnePlace
      <3>2. CASE ~data
        BY <1>5, <2>2, <3>2 DEF drop, CellInd, OnePlace
      <3> QED BY <3>1, <3>2
    <2>4. FsmTypeOK'
      <3>1. data' \in BOOLEAN /\ dropped' \in BOOLEAN
        BY <1>5 DEF drop
      <3> QED BY <2>1, <2>3, <3>1 DEF CellInd, FsmTypeOK
    <2>5. Handshake'
      BY <2>1, <2>2 DEF Handshake
    <2>6. OnePlace'
      BY <2>1, <2>2, <2>3 DEF OnePlace
    <2>7. NoPanic'
      BY <2>1 DEF CellInd, NoPanic
    <2> QED BY <2>4, <2>5, <2>6, <2>7 DEF CellInd
  <1>6. CASE UNCHANGED fsmVars
    BY <1>6 DEF fsmVars, CellInd, FsmTypeOK, Handshake, OnePlace, NoPanic, Owners,
                Holders
  <1> QED BY <1>1, <1>2, <1>3, <1>4, <1>5, <1>6 DEF FsmNext

(* FsmState keeps the whole invariant. *)
THEOREM CellProtocol == FsmSpec => []CellInd
  BY CellInit, CellNext, PTL DEF FsmSpec

(* No thread ever panics in take_turing_automata or release. *)
THEOREM PanicFree == FsmSpec => []NoPanic
  <1>1. CellInd => NoPanic
    BY DEF CellInd
  <1> QED BY <1>1, CellProtocol, PTL

(* The automaton is always in exactly one place and is freed at most once. *)
THEOREM ExactlyOnePlace == FsmSpec => []OnePlace
  <1>1. CellInd => OnePlace
    BY DEF CellInd
  <1> QED BY <1>1, CellProtocol, PTL

(* The status is a lock on the pointer. *)
THEOREM StatusIsALock == FsmSpec => []Handshake
  <1>1. CellInd => Handshake
    BY DEF CellInd
  <1> QED BY <1>1, CellProtocol, PTL
=============================================================================
