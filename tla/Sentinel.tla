------------------------------- MODULE Sentinel -------------------------------
(***************************************************************************)
(* The change capture of one region: Sentinel, Downstream and Pending of   *)
(* einstein_db_alexandrov_processing/mod.rs.                               *)
(*                                                                         *)
(* A Sentinel turns the commands a region applies into rows, broadcasts    *)
(* them to its downstreams and tracks the locks in flight in a Resolver,   *)
(* whose resolved ts tells a downstream that nothing will be committed at  *)
(* or before it any more.  The Resolver is built from a snapshot while     *)
(* commands keep arriving; until it is there their locks wait in Pending.  *)
(*                                                                         *)
(* Around it, external to the file: the region and its transactions, the   *)
(* timestamps, the Resolver, and the scan of a snapshot for each           *)
(* downstream.  A transaction has one key, which stands for its soliton_id *)
(* in rows and locks.                                                      *)
(***************************************************************************)
EXTENDS Integers, Sequences, FiniteSets

CONSTANTS
    Txns, Downstreams,
    Silent,     \* transactions whose lock and write types are skipped
    Stale,      \* downstreams whose request has another region version
    MaxTs,      \* bound: timestamps drawn
    MaxFails    \* bound: commands that fail the Sentinel

ASSUME SentinelAssumption ==
    /\ Silent \subseteq Txns /\ Stale \subseteq Downstreams
    /\ MaxTs \in Nat /\ MaxFails \in Nat

VARIABLES
    ts,             \* the last timestamp drawn
    start, commit,  \* timestamps of the transactions, 0 if not drawn
    log,            \* commands the region has applied
    delivered,      \* how many of them the Sentinel has been given
    min_ts,         \* a timestamp to resolve, and the commands applied before it
    region,         \* Sentinel::region is known
    waiting,        \* pending.downstreams
    locks,          \* pending.locks
    downstreams,    \* Sentinel::downstreams
    resolver,       \* Sentinel::resolver
    enabled,        \* the flag shared with the observer of the region
    state,          \* DownstreamState, shared with the scan of the downstream
    snapshot,       \* commands in the snapshot of its scan, NoScan before it
    got,            \* what its sink has been sent
    status          \* none yet, running, dropped by the caller, or panicked

world == <<ts, start, commit, log, min_ts>>
sentinel == <<region, waiting, locks, downstreams, resolver, enabled>>
vars == <<world, delivered, sentinel, state, snapshot, got, status>>

Ts == 0 .. MaxTs
Kinds == {"prewrite", "commit", "rollback"}
Command == [kind : Kinds, txn : Txns] \cup [kind : {"fail"}]
NoScan == -1
NoMinTs == [ts |-> 0, at |-> 0]

Sink == [prewrite : SUBSET Txns, commit : SUBSET Txns, committed : SUBSET Txns,
         resolved : Ts, initialized : BOOLEAN, error : BOOLEAN]

TypeOK ==
    /\ ts \in Ts /\ start \in [Txns -> Ts] /\ commit \in [Txns -> Ts]
    /\ log \in Seq(Command) /\ delivered \in 0 .. Len(log)
    /\ min_ts \in [ts : Ts, at : 0 .. Len(log)]
    /\ region \in BOOLEAN /\ enabled \in BOOLEAN
    /\ waiting \in Seq(Downstreams) /\ downstreams \in Seq(Downstreams)
    /\ locks \in Seq([kind : Kinds, txn : Txns])
    /\ resolver \in [ready : BOOLEAN, locks : SUBSET Txns, resolved : Ts]
    /\ state \in [Downstreams -> {"UNINITIALIZED", "NORMAL", "STOPPED"}]
    /\ snapshot \in [Downstreams -> {NoScan} \cup 0 .. Len(log)]
    /\ got \in [Downstreams -> Sink]
    /\ status \in {"none", "running", "dropped", "panicked"}

-----------------------------------------------------------------------------
(* The region (external). *)

Has(k, n, t) == \E i \in 1 .. n : log[i].kind = k /\ log[i].txn = t
Applied(k, t) == Has(k, Len(log), t)
LockedAt(n) == { t \in Txns : Has("prewrite", n, t)
                              /\ ~Has("commit", n, t) /\ ~Has("rollback", n, t) }

draw_start(t) ==
    /\ ts < MaxTs /\ start[t] = 0
    /\ ts' = ts + 1
    /\ start' = [start EXCEPT ![t] = ts + 1]
    /\ UNCHANGED <<commit, log, min_ts>>

\* A transaction asks for its commit timestamp once its locks are written.
draw_commit(t) ==
    /\ ts < MaxTs /\ commit[t] = 0
    /\ t \in LockedAt(Len(log))
    /\ ts' = ts + 1
    /\ commit' = [commit EXCEPT ![t] = ts + 1]
    /\ UNCHANGED <<start, log, min_ts>>

apply(k, t) ==
    /\ \/ k = "prewrite" /\ start[t] # 0 /\ ~Applied("prewrite", t)
       \/ k = "commit" /\ commit[t] # 0 /\ t \in LockedAt(Len(log))
       \/ k = "rollback" /\ t \in LockedAt(Len(log))
    /\ log' = Append(log, [kind |-> k, txn |-> t])
    /\ UNCHANGED <<ts, start, commit, min_ts>>

\* A split or a merge, or a command whose response has an error.
apply_fail ==
    /\ Cardinality({ i \in 1 .. Len(log) : log[i].kind = "fail" }) < MaxFails
    /\ log' = Append(log, [kind |-> "fail"])
    /\ UNCHANGED <<ts, start, commit, min_ts>>

\* A timestamp to resolve reaches the Sentinel after what was applied before.
draw_min_ts ==
    /\ ts < MaxTs /\ min_ts = NoMinTs
    /\ ts' = ts + 1
    /\ min_ts' = [ts |-> ts + 1, at |-> Len(log)]
    /\ UNCHANGED <<start, commit, log>>

Region ==
    /\ status \in {"none", "running"}
    /\ \/ \E t \in Txns : draw_start(t) \/ draw_commit(t) \/ \E k \in Kinds : apply(k, t)
       \/ apply_fail
       \/ draw_min_ts
    /\ UNCHANGED <<delivered, sentinel, state, snapshot, got, status>>

-----------------------------------------------------------------------------
(* The Resolver (external). *)

track_lock(r, t) == [r EXCEPT !.locks = @ \cup {t}]
untrack_lock(r, t) == [r EXCEPT !.locks = @ \ {t}]

\* The least start timestamp of a lock, or min_ts; never backwards.
resolve(r, m) ==
    LET floor == { start[t] : t \in r.locks } \cup {m}
        least == CHOOSE x \in floor : \A y \in floor : x <= y
    IN  [r EXCEPT !.resolved = IF @ < least THEN least ELSE @]

\* Variant: the untracks that waited are not replayed.
ReplayTracksOnly(r, lock) ==
    IF lock.kind = "prewrite" THEN track_lock(r, lock.txn) ELSE r

\* PendingLock::Track and PendingLock::Untrack.
Replay(r, lock) ==
    IF lock.kind = "prewrite" THEN track_lock(r, lock.txn) ELSE untrack_lock(r, lock.txn)

\* The locks that waited, in their order.
ReplayAll(r, pending) ==
    LET after[i \in 0 .. Len(pending)] ==
            IF i = 0 THEN r ELSE Replay(after[i - 1], pending[i])
    IN  after[Len(pending)]

-----------------------------------------------------------------------------
(* Downstreams *)

\* Sentinel::downstreams().
Current == IF region THEN downstreams ELSE waiting
Listed(d) == \E i \in 1 .. Len(Current) : Current[i] = d

\* Who gets a broadcast: the last one is not asked for its state.
Reached(ds, normal_only) ==
    { ds[i] : i \in { j \in 1 .. Len(ds) :
                        ~normal_only \/ j = Len(ds) \/ state[ds[j]] = "NORMAL" } }

\* What the sinks hold when the downstreams in ds got an event, given what each
\* would hold with it.
SendAll(ds, sent) == [d \in Downstreams |-> IF d \in ds THEN sent[d] ELSE got[d]]

\* A broadcast asserts that there is a downstream.
broadcast(sent, normal_only) ==
    IF Current = <<>>
    THEN status' = "panicked" /\ UNCHANGED got
    ELSE got' = SendAll(Reached(Current, normal_only), sent) /\ UNCHANGED status

\* Vec::retain, for the downstreams in keep.
Retain(ds, keep) ==
    LET kept[i \in 0 .. Len(ds)] ==
            IF i = 0 THEN <<>>
            ELSE IF ds[i] \in keep THEN Append(kept[i - 1], ds[i]) ELSE kept[i - 1]
    IN  kept[Len(ds)]

Without(ds, d) == Retain(ds, Downstreams \ {d})

\* Sentinel::new for its first downstream; the region is observed from here.
new(d) ==
    /\ status = "none"
    /\ waiting' = <<d>>
    /\ delivered' = Len(log)
    /\ status' = "running"
    /\ UNCHANGED <<world, region, locks, downstreams, resolver, enabled, state, snapshot, got>>

\* Downstream::new, set_sink and Sentinel::subscribe.
subscribe(d) ==
    /\ status = "running"
    /\ ~Listed(d) /\ state[d] = "UNINITIALIZED"
    /\ ~got[d].error /\ snapshot[d] = NoScan
    /\ IF ~region
       THEN waiting' = Append(waiting, d) /\ UNCHANGED <<downstreams, got>>
       ELSE IF d \in Stale
       THEN /\ got' = [got EXCEPT ![d].error = TRUE]
            /\ UNCHANGED <<waiting, downstreams>>
       ELSE downstreams' = Append(downstreams, d) /\ UNCHANGED <<waiting, got>>
    /\ UNCHANGED <<world, delivered, region, locks, resolver, enabled, state, snapshot, status>>

\* Variant: the caller is not told which downstream was the last.
UnsubscribeUnreported(d) ==
    /\ status = "running" /\ Listed(d)
    /\ IF region THEN downstreams' = Without(downstreams, d) /\ UNCHANGED waiting
                 ELSE waiting' = Without(waiting, d) /\ UNCHANGED downstreams
    /\ state' = [state EXCEPT ![d] = "STOPPED"]
    /\ UNCHANGED <<world, delivered, region, locks, resolver, enabled, snapshot, got, status>>

\* With or without an error event: a downstream that is gone is not looked
\* at any more.  The caller drops the Sentinel with its last downstream.
unsubscribe(d) ==
    LET rest == Without(Current, d)
    IN  /\ status = "running" /\ Listed(d)
        /\ IF region THEN downstreams' = rest /\ UNCHANGED waiting
                     ELSE waiting' = rest /\ UNCHANGED downstreams
        /\ state' = [state EXCEPT ![d] = "STOPPED"]
        /\ enabled' = (enabled /\ rest # <<>>)
        /\ status' = IF rest = <<>> THEN "dropped" ELSE status
        /\ UNCHANGED <<world, delivered, region, locks, resolver, snapshot, got>>

\* The scan of a downstream (external): uninitialized_to_normal, and the
\* snapshot it is going to read.
initialize(d) ==
    /\ Listed(d) /\ snapshot[d] = NoScan
    /\ state[d] = "UNINITIALIZED"
    /\ state' = [state EXCEPT ![d] = "NORMAL"]
    /\ snapshot' = [snapshot EXCEPT ![d] = Len(log)]
    /\ UNCHANGED <<world, delivered, sentinel, got, status>>

\* Variant: the scan leaves out the locks of the snapshot.
SearchWritesOnly(d) ==
    /\ status = "running" /\ snapshot[d] # NoScan
    /\ ~got[d].initialized
    /\ Listed(d)
    /\ got' = [got EXCEPT
                 ![d].committed = { t \in Txns \ Silent : Has("commit", snapshot[d], t) },
                 ![d].initialized = TRUE]
    /\ UNCHANGED <<world, delivered, sentinel, state, snapshot, status>>

\* The entries of the snapshot and the None that ends them: locks as
\* prewrites, writes as self-contained rows, rollbacks left out.
on_mutant_search(d) ==
    /\ status = "running" /\ snapshot[d] # NoScan
    /\ ~got[d].initialized
    /\ Listed(d)
    /\ got' = [got EXCEPT
                 ![d].prewrite = @ \cup (LockedAt(snapshot[d]) \ Silent),
                 ![d].committed = { t \in Txns \ Silent : Has("commit", snapshot[d], t) },
                 ![d].initialized = TRUE]
    /\ UNCHANGED <<world, delivered, sentinel, state, snapshot, status>>

-----------------------------------------------------------------------------
(* The Sentinel *)

\* Hands over the Resolver read from the snapshot of d, the first one taken
\* (external), and, as its caller does, subscribes those that were waiting.
on_region_ready(d) ==
    LET built == [ready |-> TRUE, locks |-> LockedAt(snapshot[d]) \ Silent, resolved |-> 0]
        refused == { waiting[i] : i \in { j \in 1 .. Len(waiting) : waiting[j] \in Stale } }
    IN  /\ status = "running" /\ snapshot[d] # NoScan
        /\ \A x \in Downstreams : snapshot[x] = NoScan \/ snapshot[d] <= snapshot[x]
        /\ ~resolver.ready
        /\ resolver' = ReplayAll(built, locks)
        /\ region' = TRUE
        /\ locks' = <<>> /\ waiting' = <<>>
        /\ downstreams' = Retain(waiting, Downstreams \ Stale)
        /\ got' = [x \in Downstreams |->
                     IF x \in refused
                     THEN [got[x] EXCEPT !.error = TRUE] ELSE got[x]]
        /\ UNCHANGED <<world, delivered, enabled, state, snapshot, status>>

\* A resolved ts is broadcast; a timestamp that comes before the Resolver is
\* dropped.
Advance(resolved) ==
    LET sent == [d \in Downstreams |-> [got[d] EXCEPT !.resolved = resolved]]
    IN  /\ status = "running"
        /\ min_ts # NoMinTs /\ min_ts.at <= delivered
        /\ min_ts' = NoMinTs
        /\ IF resolver.ready
           THEN resolver' = resolve(resolver, min_ts.ts) /\ broadcast(sent, TRUE)
           ELSE UNCHANGED <<resolver, got, status>>
        /\ UNCHANGED <<ts, start, commit, log, delivered, region, waiting, locks,
                       downstreams, enabled, state, snapshot>>

\* Variant: min_ts itself is broadcast, not what the Resolver makes of it.
MinTsUnresolved == Advance(min_ts.ts)

on_min_ts == Advance(resolve(resolver, min_ts.ts).resolved)

\* One command of sink_data: its lock is tracked or kept for the Resolver to
\* come, its row is broadcast.
sink_data ==
    LET cmd == log[delivered + 1]
        rows == IF cmd.txn \in Silent THEN {} ELSE {cmd.txn}
        sent == [d \in Downstreams |->
                    CASE cmd.kind = "prewrite" -> [got[d] EXCEPT !.prewrite = @ \cup rows]
                      [] cmd.kind = "commit"   -> [got[d] EXCEPT !.commit = @ \cup rows]
                      [] cmd.kind = "rollback" -> got[d]]
    IN  /\ status = "running"
        /\ delivered < Len(log) /\ cmd.kind # "fail"
        /\ delivered' = delivered + 1
        /\ IF cmd.txn \in Silent THEN UNCHANGED <<resolver, locks>>
           ELSE IF resolver.ready THEN resolver' = Replay(resolver, cmd) /\ UNCHANGED locks
           ELSE locks' = Append(locks, cmd) /\ UNCHANGED resolver
        /\ broadcast(sent, TRUE)
        /\ UNCHANGED <<world, region, waiting, downstreams, enabled, state, snapshot>>

\* sink_admin or an error response fails the batch; the caller stops and
\* drops the Sentinel.  stop marks `downstreams`, not the ones that wait.
stop ==
    LET cmd == log[delivered + 1]
        sent == [d \in Downstreams |-> [got[d] EXCEPT !.error = TRUE]]
    IN  /\ status = "running"
        /\ delivered < Len(log) /\ cmd.kind = "fail"
        /\ delivered' = delivered + 1
        /\ enabled' = FALSE
        /\ state' = [d \in Downstreams |->
                       IF \E i \in 1 .. Len(downstreams) : downstreams[i] = d
                       THEN "STOPPED" ELSE state[d]]
        /\ IF Current = <<>> THEN status' = "panicked" /\ UNCHANGED got
           ELSE /\ got' = SendAll({ Current[i] : i \in 1 .. Len(Current) }, sent)
                /\ status' = "dropped"
        /\ UNCHANGED <<world, region, waiting, locks, downstreams, resolver, snapshot>>

-----------------------------------------------------------------------------
Init ==
    /\ ts = 0 /\ start = [t \in Txns |-> 0] /\ commit = [t \in Txns |-> 0]
    /\ log = <<>> /\ delivered = 0 /\ min_ts = NoMinTs
    /\ region = FALSE
    /\ waiting = <<>> /\ locks = <<>> /\ downstreams = <<>>
    /\ resolver = [ready |-> FALSE, locks |-> {}, resolved |-> 0]
    /\ enabled = TRUE
    /\ state = [d \in Downstreams |-> "UNINITIALIZED"]
    /\ snapshot = [d \in Downstreams |-> NoScan]
    /\ got = [d \in Downstreams |->
                [prewrite |-> {}, commit |-> {}, committed |-> {},
                 resolved |-> 0, initialized |-> FALSE, error |-> FALSE]]
    /\ status = "none"

Next ==
    \/ Region
    \/ \E d \in Downstreams :
         \/ new(d)
         \/ subscribe(d)
         \/ unsubscribe(d)
         \/ initialize(d)
         \/ on_mutant_search(d)
         \/ on_region_ready(d)
    \/ on_min_ts
    \/ sink_data
    \/ stop

Spec == Init /\ [][Next]_vars

-----------------------------------------------------------------------------
Following(d) ==
    status = "running" /\ Listed(d) /\ state[d] = "NORMAL" /\ got[d].initialized

(* The promise of a resolved ts: a downstream whose scan is over has been   *)
(* sent every row committed at or before it, by the scan or by a broadcast, *)
(* and no transaction that may still commit has such a timestamp.  It takes *)
(* the locks of the snapshot, those of Pending and those of sink_data to be *)
(* tracked without a gap (on_region_ready, sink_data, on_min_ts).           *)
ResolvedComplete ==
    \A d \in Downstreams, t \in Txns \ Silent :
        Following(d) /\ commit[t] # 0 /\ commit[t] <= got[d].resolved
        => t \in got[d].commit \cup got[d].committed \/ Applied("rollback", t)

(* A row of type Commit has no value of its own: a downstream whose scan is *)
(* over has the prewrite that goes with it, or the write itself, although   *)
(* the scan and the broadcasts are not ordered with each other              *)
(* (on_mutant_search, sink_data).                                           *)
CommitsMatched ==
    \A d \in Downstreams : Following(d) =>
        got[d].commit \subseteq got[d].prewrite \cup got[d].committed

(* Once the Sentinel has been given all commands, its Resolver holds the    *)
(* region's locks: none is lost, which would resolve too much, and none is  *)
(* left behind, which would stop the resolved ts for ever, whatever order   *)
(* snapshot, Pending and commands came in.                                  *)
LocksExact ==
    status = "running" /\ resolver.ready /\ delivered = Len(log)
    => resolver.locks = LockedAt(Len(log)) \ Silent

(* The assertion of broadcast, "miss downstream", only fails for a Sentinel *)
(* whose remaining downstreams were refused when the region became ready:   *)
(* subscribe answers them with an error, and nobody is told that none is    *)
(* left.                                                                    *)
MissOnlyIfRefused ==
    status = "panicked" => \E d \in Stale : got[d].error

=============================================================================
