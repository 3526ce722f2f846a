------------------------------- MODULE FsmState -------------------------------
(***************************************************************************)
(* FsmState (engine_test/src/fsm.rs): a cell that lends a boxed turing     *)
(* automaton to one thread at a time, with two atomics and no lock.  Every *)
(* atomic operation is a step of its own.                                  *)
(*                                                                         *)
(* A thread calls take_turing_automata and later release, or it calls      *)
(* notify.  The scheduler of notify only borrows the automaton             *)
(* (schedule(&self, turing_automata: &dyn Fsm)), so that the box goes out  *)
(* of scope when notify returns.                                           *)
(***************************************************************************)
EXTENDS Naturals

CONSTANT Callers    \* the threads that use the cell

VARIABLES
    status,     \* the AtomicUsize
    data,       \* the AtomicPtr is not null
    at,         \* where each thread is
    freed,      \* how often the automaton has been freed
    dropped     \* the FsmState is gone

fsmVars == <<status, data, at, freed, dropped>>

\* out: in none of the operations.  take, took: before the first and the
\* second atomic of take_turing_automata; owner: after them.  notify,
\* claimed, notifying: the same when notify has called it.  put: between
\* the two atomics of release.
Outside == {"out", "take", "notify", "panic"}
Inside == {"took", "claimed", "owner", "notifying", "put"}

FsmTypeOK ==
    /\ status \in {"IDLE", "NOTIFIED", "DROP"}
    /\ data \in BOOLEAN /\ dropped \in BOOLEAN
    /\ at \in [Callers -> Outside \cup Inside]
    /\ freed \in Nat

FsmInit ==
    /\ status = "IDLE" /\ data = TRUE
    /\ at = [t \in Callers |-> "out"]
    /\ freed = 0 /\ dropped = FALSE

Goto(t, where) == at' = [at EXCEPT ![t] = where]

-----------------------------------------------------------------------------
\* A call: the thread borrows the state from here on.
enter(t, caller) ==
    /\ ~dropped /\ at[t] = "out"
    /\ Goto(t, caller)
    /\ UNCHANGED <<status, data, freed, dropped>>

\* What compare_and_swap(IDLE, NOTIFIED) leaves behind.
Claimed(was) == IF was = "IDLE" THEN "NOTIFIED" ELSE was

\* First atomic of take_turing_automata; a status other than IDLE is None.
take_cas(t, caller, next) ==
    /\ at[t] = caller
    /\ status' = Claimed(status)
    /\ Goto(t, IF status = "IDLE" THEN next ELSE "out")
    /\ UNCHANGED <<data, freed, dropped>>

\* Second atomic: "inconsistent status and data" if the pointer is null.
take_swap(t, caller, next) ==
    /\ at[t] = caller
    /\ data' = FALSE
    /\ Goto(t, IF data THEN next ELSE "panic")
    /\ UNCHANGED <<status, freed, dropped>>

take_turing_automata(t) ==
    \/ enter(t, "take")
    \/ take_cas(t, "take", "took")
    \/ take_swap(t, "took", "owner")

\* set_mailbox, schedule(&n), and the end of n's scope.
notify_schedule(t) ==
    /\ at[t] = "notifying"
    /\ freed' = freed + 1
    /\ Goto(t, "out")
    /\ UNCHANGED <<status, data, dropped>>

notify(t) ==
    \/ enter(t, "notify")
    \/ take_cas(t, "notify", "claimed")
    \/ take_swap(t, "claimed", "notifying")
    \/ notify_schedule(t)

\* Variant: the status is given up before the box is back.
ReleaseStatusFirst(t) ==
    /\ at[t] = "owner"
    /\ status' = IF status = "NOTIFIED" THEN "IDLE" ELSE status
    /\ Goto(t, "put")
    /\ UNCHANGED <<data, freed, dropped>>

\* First atomic of release: "invalid release state" if the cell is full.
release_swap(t) ==
    /\ at[t] = "owner"
    /\ data' = TRUE
    /\ Goto(t, IF data THEN "panic" ELSE "put")
    /\ UNCHANGED <<status, freed, dropped>>

\* Variant: the status stays NOTIFIED.
ReleasedNever(was) == was

\* What compare_and_swap(NOTIFIED, IDLE) leaves behind.
Released(was) == IF was = "NOTIFIED" THEN "IDLE" ELSE was

\* The first arm, _NOTIFYSTATE_NOTIFIED, is a fresh name and not the
\* constant: it matches every previous status and release returns.
release_cas(t) ==
    /\ at[t] = "put"
    /\ status' = Released(status)
    /\ Goto(t, "out")
    /\ UNCHANGED <<data, freed, dropped>>

release(t) == release_swap(t) \/ release_cas(t)

\* The only arm returns; no arm frees the automaton.
clear ==
    /\ ~dropped
    /\ status' = "DROP"
    /\ UNCHANGED <<data, at, freed, dropped>>

\* Variant: the pointer is read, not swapped for null.
DropLeavesPointer ==
    /\ ~dropped
    /\ \A t \in Callers : at[t] \in {"out", "panic"}
    /\ dropped' = TRUE
    /\ freed' = IF data THEN freed + 1 ELSE freed
    /\ UNCHANGED <<status, data, at>>

\* A thread inside an operation borrows the state, and an owner's automaton
\* refers to it through its mailbox.
drop ==
    /\ ~dropped
    /\ \A t \in Callers : at[t] \in {"out", "panic"}
    /\ dropped' = TRUE /\ data' = FALSE
    /\ freed' = IF data THEN freed + 1 ELSE freed
    /\ UNCHANGED <<status, at>>

FsmNext ==
    \/ \E t \in Callers : take_turing_automata(t) \/ notify(t) \/ release(t)
    \/ clear
    \/ drop

\* Nothing blocks a thread inside release, and an owner releases in the end.
FsmSpec == FsmInit /\ [][FsmNext]_fsmVars /\ \A t \in Callers : WF_fsmVars(release(t))

-----------------------------------------------------------------------------
Owners == { t \in Callers : at[t] \in {"owner", "notifying"} }
Holders == { t \in Callers : at[t] \in Inside }

(* Neither "inconsistent status and data" nor "invalid release state" is   *)
(* ever reached, however take_turing_automata, notify, release and clear   *)
(* of several threads interleave.                                          *)
NoPanic == \A t \in Callers : at[t] # "panic"

(* The automaton is in exactly one place: in the cell, with one thread, or *)
(* freed, and it is never freed twice.                                     *)
OnePlace ==
    /\ freed \in {0, 1}
    /\ \A s, t \in Owners : s = t
    /\ data => freed = 0 /\ Owners = {}
    /\ freed = 1 => Owners = {}
    /\ data \/ freed = 1 \/ Owners # {}

(* The status is a lock on the pointer: while it is IDLE no thread is      *)
(* between its two atomics or has the box, otherwise at most one thread    *)
(* is, and which of the two atomics it has executed tells whether the      *)
(* pointer is null.                                                        *)
Handshake ==
    /\ \A s, t \in Holders : s = t
    /\ status = "IDLE" => Holders = {}
    /\ dropped => ~data /\ \A t \in Callers : at[t] \in {"out", "panic"}
    /\ (status = "IDLE" /\ ~dropped) => data
    /\ \A t \in Holders : data <=> at[t] \in {"took", "claimed", "put"}

(* What is taken comes back: the automaton of an owner is in its cell      *)
(* again and can be taken, unless it has been cleared in between.          *)
ComesBack ==
    \A t \in Callers : at[t] = "owner" ~> (data /\ status \in {"IDLE", "DROP"})
===============================================================================
