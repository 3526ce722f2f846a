---------------------------- MODULE SentinelProofs ----------------------------
(***************************************************************************)
(* Proofs about Sentinel for any transactions, downstreams and bounds: its *)
(* type, that commits have their prewrites, that the Resolver ends up with *)
(* the region's locks, what a resolved ts promises, and when the assertion *)
(* of broadcast fails.                                                     *)
(***************************************************************************)
EXTENDS Sentinel, TLAPS, NaturalsInduction, WellFoundedInduction

-----------------------------------------------------------------------------
(* The commands of a region, as functions of the log. *)

HasIn(l, k, n, t) == \E i \in 1 .. n : l[i].kind = k /\ l[i].txn = t
LockedIn(l, n) == { t \in Txns : HasIn(l, "prewrite", n, t)
                                 /\ ~HasIn(l, "commit", n, t) /\ ~HasIn(l, "rollback", n, t) }
EndedIn(l, n, t) == HasIn(l, "commit", n, t) \/ HasIn(l, "rollback", n, t)

\* A transaction is prewritten once, and ended at most once and after that.
Disciplined(l) ==
    \A i \in 1 .. Len(l) :
        /\ l[i].kind = "prewrite" => ~HasIn(l, "prewrite", i - 1, l[i].txn)
        /\ l[i].kind \in {"commit", "rollback"} => l[i].txn \in LockedIn(l, i - 1)

-----------------------------------------------------------------------------
(* The inductive invariant. *)

Taken(d) == snapshot[d] # NoScan

\* The first of the snapshots, the one the Resolver is built from.
First(d) == Taken(d) /\ \A x \in Downstreams : Taken(x) => snapshot[d] <= snapshot[x]

\* The region and its timestamps.
WorldInv ==
    /\ Disciplined(log)
    /\ min_ts.ts <= ts
    /\ \A t \in Txns :
         /\ start[t] <= ts
         /\ HasIn(log, "prewrite", Len(log), t) => start[t] # 0
         /\ commit[t] # 0 =>
              /\ HasIn(log, "prewrite", Len(log), t)
              /\ start[t] < commit[t] /\ commit[t] <= ts
              /\ commit[t] <= min_ts.ts => HasIn(log, "prewrite", min_ts.at, t)

\* The stages of a Sentinel and of its downstreams.
StageInv ==
    /\ region = resolver.ready
    /\ status = "none" =>
         /\ ~region /\ waiting = <<>> /\ downstreams = <<>> /\ locks = <<>>
         /\ \A d \in Downstreams : state[d] = "UNINITIALIZED" /\ ~Taken(d)
    /\ \A d \in Downstreams : state[d] = "NORMAL" \/ got[d].initialized => Taken(d)
    /\ resolver.ready => \E d \in Downstreams : Taken(d)
    /\ ~resolver.ready => resolver.resolved = 0
    /\ resolver.resolved <= ts

\* The sink of d holds no commit that was not delivered,
CommitsDelivered(d) ==
    \A t \in got[d].commit : t \notin Silent /\ HasIn(log, "commit", delivered, t)

\* what its scan found, once that is over,
Scanned(d) ==
    got[d].initialized =>
      \A t \in Txns \ Silent :
        /\ t \in LockedIn(log, snapshot[d]) => t \in got[d].prewrite
        /\ HasIn(log, "commit", snapshot[d], t) => t \in got[d].committed

\* and, while it is listed and NORMAL, what was delivered after its snapshot.
Followed(d) == status = "running" /\ Listed(d) /\ state[d] = "NORMAL"
Caught(d) ==
    Followed(d) =>
      \A t \in Txns \ Silent :
        /\ HasIn(log, "prewrite", delivered, t)
           => HasIn(log, "prewrite", snapshot[d], t) \/ t \in got[d].prewrite
        /\ HasIn(log, "commit", delivered, t)
           => HasIn(log, "commit", snapshot[d], t) \/ t \in got[d].commit

SinkOK(d) == /\ CommitsDelivered(d) /\ Scanned(d) /\ Caught(d)
             /\ got[d].resolved <= resolver.resolved

SinkInv == \A d \in Downstreams : SinkOK(d)

\* The last command for t in Pending, if there is one, says whether t was
\* locked when it was delivered.  If there is none, nothing happened to t
\* between a snapshot and the last command delivered.
LastFor(ls, t, i) == /\ i \in 1 .. Len(ls) /\ ls[i].txn = t
                     /\ \A j \in 1 .. Len(ls) : j > i => ls[j].txn # t
PendingFor(t) ==
    \/ \E i \in 1 .. Len(locks) :
          LastFor(locks, t, i)
          /\ (locks[i].kind = "prewrite" <=> t \in LockedIn(log, delivered))
    \/ /\ \A i \in 1 .. Len(locks) : locks[i].txn # t
       /\ \A d \in Downstreams : Taken(d) /\ snapshot[d] <= delivered
            => (t \in LockedIn(log, snapshot[d]) <=> t \in LockedIn(log, delivered))

\* A lock the Resolver holds is one after the commands delivered, or, of a
\* transaction none of whose commands came since, one of the snapshot.
TrackedFor(d, t) ==
    \/ t \in resolver.locks <=> t \in LockedIn(log, delivered)
    \/ delivered < snapshot[d] /\ (t \in resolver.locks <=> t \in LockedIn(log, snapshot[d]))

LocksInv ==
    /\ resolver.locks \cap Silent = {}
    /\ \A i \in 1 .. Len(locks) : locks[i].txn \notin Silent
    /\ status = "running" /\ ~resolver.ready => \A t \in Txns \ Silent : PendingFor(t)
    /\ status = "running" /\ resolver.ready =>
         \A d \in Downstreams : First(d) => \A t \in Txns \ Silent : TrackedFor(d, t)

\* What is resolved has ended, as far as the Sentinel knows or in the snapshot.
ResolvedInv ==
    \A d \in Downstreams, t \in Txns \ Silent :
        First(d) /\ commit[t] # 0 /\ commit[t] <= resolver.resolved
        => EndedIn(log, delivered, t) \/ EndedIn(log, snapshot[d], t)

\* Without a downstream there is one that was refused.
MissInv ==
    /\ status = "running" => Current # <<>> \/ \E d \in Stale : got[d].error
    /\ MissOnlyIfRefused

Ind == TypeOK /\ WorldInv /\ StageInv /\ SinkInv /\ LocksInv /\ ResolvedInv /\ MissInv

-----------------------------------------------------------------------------
(* Induction over the naturals, in terms of sets. *)

(* A set of naturals has a least element.                                   *)
LEMMA LeastExists ==
    ASSUME NEW S \in SUBSET Nat, S # {}
    PROVE  \E m \in S : \A i \in S : m <= i
  <1>1. \E m \in S : \A i \in S : ~ (<<i, m>> \in OpToRel(<, Nat))
    BY WFMin, NatLessThanWellFounded
  <1>2. PICK m \in S : \A i \in S : ~ (<<i, m>> \in OpToRel(<, Nat))
    BY <1>1
  <1>3. \A i \in S : ~ (i < m)
    BY <1>2 DEF OpToRel
  <1>4. QED
    BY <1>3

(* Induction over the naturals.                                             *)
LEMMA SetInduction ==
    ASSUME NEW S, 0 \in S, \A n \in Nat : n \in S => n + 1 \in S
    PROVE  Nat \subseteq S
  <1> DEFINE B == { n \in Nat : n \notin S }
  <1> SUFFICES ASSUME B # {} PROVE FALSE
    OBVIOUS
  <1>1. B \in SUBSET Nat
    OBVIOUS
  <1>2. PICK m \in B : \A i \in B : m <= i
    <2> HIDE DEF B
    <2>1. QED
      BY <1>1, LeastExists
  <1>3. m \in Nat /\ m # 0 /\ m \notin S
    BY <1>2
  <1>4. m - 1 \in Nat /\ m - 1 \notin B
    BY <1>2, <1>3
  <1>5. QED
    BY <1>3, <1>4

\* A run of n steps of g from base within T.
Run(f, g, T, base, n) ==
    /\ f \in [0 .. n -> T] /\ f[0] = base
    /\ \A i \in 1 .. n : f[i] = g[i][f[i - 1]]

(* Steps within a set can be taken any number of times.                     *)
LEMMA RunExists ==
    ASSUME NEW T, NEW base \in T, NEW g,
           \A i \in Nat, x \in T : g[i][x] \in T
    PROVE  \A n \in Nat : \E f : Run(f, g, T, base, n)
  <1> DEFINE Good == { n \in Nat : \E f : Run(f, g, T, base, n) }
  <1>1. 0 \in Good
    <2>1. Run([i \in 0 .. 0 |-> base], g, T, base, 0)
      BY DEF Run
    <2>2. QED
      BY <2>1
  <1>2. ASSUME NEW n \in Nat, n \in Good PROVE n + 1 \in Good
    <2>1. PICK f : Run(f, g, T, base, n)
      BY <1>2
    <2> DEFINE h == [i \in 0 .. n + 1 |-> IF i = n + 1 THEN g[n + 1][f[n]] ELSE f[i]]
    <2>2. f[n] \in T /\ g[n + 1][f[n]] \in T
      BY <2>1 DEF Run
    <2>3. h \in [0 .. n + 1 -> T] /\ h[0] = base
      BY <2>1, <2>2 DEF Run
    <2>4. ASSUME NEW i \in 1 .. n + 1 PROVE h[i] = g[i][h[i - 1]]
      <3>1. i - 1 \in 0 .. n + 1 /\ h[i - 1] = f[i - 1]
        OBVIOUS
      <3>2. CASE i = n + 1
        <4>1. i - 1 = n /\ h[i] = g[n + 1][f[n]]
          BY <3>2
        <4>2. QED
          BY <3>1, <3>2, <4>1
      <3>3. CASE i # n + 1
        <4>1. i \in 1 .. n /\ h[i] = f[i]
          BY <3>3
        <4>2. f[i] = g[i][f[i - 1]]
          BY <2>1, <4>1 DEF Run
        <4>3. QED
          BY <3>1, <4>1, <4>2
      <3>4. QED
        BY <3>2, <3>3
    <2>5. Run(h, g, T, base, n + 1)
      BY <2>3, <2>4 DEF Run
    <2>6. QED
      BY <2>5
  <1>3. QED
    <2> HIDE DEF Good
    <2>1. Nat \subseteq Good
      BY <1>1, <1>2, SetInduction
    <2>2. QED
      BY <2>1 DEF Good

-----------------------------------------------------------------------------
(* What retain leaves and what a replay of the pending locks holds. *)

\* The recursion of Retain, with the function that solves it.
Keeps(f, ds, keep) ==
    f = [i \in 0 .. Len(ds) |->
           IF i = 0 THEN <<>>
           ELSE IF ds[i] \in keep THEN Append(f[i - 1], ds[i]) ELSE f[i - 1]]

\* r holds the members of ds that are in keep.
Retained(r, ds, keep) ==
    /\ r \in Seq(Downstreams)
    /\ \A i \in 1 .. Len(r) : \E j \in 1 .. Len(ds) : r[i] = ds[j]
    /\ \A i \in 1 .. Len(r) : r[i] \in keep
    /\ \A j \in 1 .. Len(ds) : ds[j] \in keep => \E i \in 1 .. Len(r) : r[i] = ds[j]

\* s holds those of the first n.
KeptTo(s, ds, keep, n) ==
    /\ s \in Seq(Downstreams)
    /\ \A i \in 1 .. Len(s) : \E j \in 1 .. n : s[i] = ds[j] /\ ds[j] \in keep
    /\ \A j \in 1 .. n : ds[j] \in keep => \E i \in 1 .. Len(s) : s[i] = ds[j]

(* One step of retain.                                                      *)
LEMMA KeptStep ==
    ASSUME NEW ds \in Seq(Downstreams), NEW keep, NEW n \in Nat, n + 1 \in 1 .. Len(ds),
           NEW s, KeptTo(s, ds, keep, n)
    PROVE  KeptTo(IF ds[n + 1] \in keep THEN Append(s, ds[n + 1]) ELSE s, ds, keep, n + 1)
  <1>1. CASE ds[n + 1] \notin keep
    <2>1. KeptTo(s, ds, keep, n + 1)
      <3>1. \A j \in 1 .. n + 1 : j \in 1 .. n \/ j = n + 1
        OBVIOUS
      <3>2. \A j \in 1 .. n : j \in 1 .. n + 1
        OBVIOUS
      <3>3. QED
        BY <1>1, <3>1, <3>2 DEF KeptTo
    <2>2. QED
      BY <1>1, <2>1
  <1>2. CASE ds[n + 1] \in keep
    <2> DEFINE r == Append(s, ds[n + 1])
    <2>1. s \in Seq(Downstreams) /\ ds[n + 1] \in Downstreams
      BY DEF KeptTo
    <2>2. /\ r \in Seq(Downstreams) /\ Len(r) = Len(s) + 1
          /\ r[Len(s) + 1] = ds[n + 1] /\ \A i \in 1 .. Len(s) : r[i] = s[i]
      BY <2>1
    <2> HIDE DEF r
    <2>3. ASSUME NEW i \in 1 .. Len(r)
          PROVE  \E j \in 1 .. n + 1 : r[i] = ds[j] /\ ds[j] \in keep
      <3>1. CASE i = Len(s) + 1
        <4>1. n + 1 \in 1 .. n + 1
          OBVIOUS
        <4>2. QED
          BY <1>2, <2>2, <3>1, <4>1
      <3>2. CASE i # Len(s) + 1
        <4>1. i \in 1 .. Len(s)
          BY <2>1, <2>2, <3>2
        <4>2. PICK j \in 1 .. n : s[i] = ds[j] /\ ds[j] \in keep
          BY <4>1 DEF KeptTo
        <4>3. j \in 1 .. n + 1 /\ r[i] = ds[j]
          BY <2>2, <4>1, <4>2
        <4>4. QED
          BY <4>2, <4>3
      <3>3. QED
        BY <3>1, <3>2
    <2>4. ASSUME NEW j \in 1 .. n + 1, ds[j] \in keep
          PROVE  \E i \in 1 .. Len(r) : r[i] = ds[j]
      <3>1. CASE j = n + 1
        <4>1. Len(s) + 1 \in 1 .. Len(r)
          BY <2>1, <2>2
        <4>2. QED
          BY <2>2, <3>1, <4>1
      <3>2. CASE j # n + 1
        <4>1. j \in 1 .. n
          BY <3>2
        <4>2. PICK i \in 1 .. Len(s) : s[i] = ds[j]
          BY <2>4, <4>1 DEF KeptTo
        <4>3. i \in 1 .. Len(r) /\ r[i] = ds[j]
          BY <2>1, <2>2, <4>2
        <4>4. QED
          BY <4>3
      <3>3. QED
        BY <3>1, <3>2
    <2>5. KeptTo(r, ds, keep, n + 1)
      BY <2>2, <2>3, <2>4 DEF KeptTo
    <2>6. QED
      BY <1>2, <2>5 DEF r
  <1>3. QED
    BY <1>1, <1>2

(* Retain keeps the downstreams in keep and no others.                      *)
LEMMA RetainShape ==
    ASSUME NEW ds \in Seq(Downstreams), NEW keep
    PROVE  Retained(Retain(ds, keep), ds, keep)
  <1> DEFINE T == Seq(Downstreams)
             g == [i \in Nat |-> [x \in T |->
                     IF i \in 1 .. Len(ds) /\ ds[i] \in keep THEN Append(x, ds[i]) ELSE x]]
  <1>1. ASSUME NEW i \in Nat, NEW x \in T PROVE g[i][x] \in T
    OBVIOUS
  <1>2. <<>> \in T /\ Len(ds) \in Nat
    OBVIOUS
  <1>3. PICK h : Run(h, g, T, <<>>, Len(ds))
    <2> HIDE DEF g, T
    <2>1. QED
      BY <1>1, <1>2, RunExists
  <1>4. ASSUME NEW i \in 1 .. Len(ds)
        PROVE  h[i] = IF ds[i] \in keep THEN Append(h[i - 1], ds[i]) ELSE h[i - 1]
    <2>1. h[i - 1] \in T /\ h[i] = g[i][h[i - 1]]
      <3> HIDE DEF g, T
      <3>1. i - 1 \in 0 .. Len(ds)
        OBVIOUS
      <3>2. QED
        BY <1>3, <3>1 DEF Run
    <2>2. QED
      BY <2>1
  <1>5. Keeps(h, ds, keep)
    <2>1. h = [i \in 0 .. Len(ds) |-> h[i]]
      BY <1>3 DEF Run
    <2>2. h[0] = <<>>
      BY <1>3 DEF Run
    <2>3. \A i \in 0 .. Len(ds) :
            h[i] = IF i = 0 THEN <<>>
                   ELSE IF ds[i] \in keep THEN Append(h[i - 1], ds[i]) ELSE h[i - 1]
      BY <1>4, <2>2
    <2>4. QED
      BY <2>1, <2>3 DEF Keeps
  <1> DEFINE f == CHOOSE f : Keeps(f, ds, keep)
  <1>6. Keeps(f, ds, keep)
    BY <1>5
  <1>7. Retain(ds, keep) = f[Len(ds)]
    BY DEF Retain, Keeps
  <1> HIDE DEF f
  <1>8. f[0] = <<>>
    BY <1>6 DEF Keeps
  <1>9. ASSUME NEW i \in 1 .. Len(ds)
        PROVE  f[i] = IF ds[i] \in keep THEN Append(f[i - 1], ds[i]) ELSE f[i - 1]
    <2>1. i \in 0 .. Len(ds) /\ i # 0
      OBVIOUS
    <2>2. QED
      BY <1>6, <2>1 DEF Keeps
  <1> DEFINE Good == { n \in Nat : n <= Len(ds) => KeptTo(f[n], ds, keep, n) }
  <1>10. 0 \in Good
    <2>1. KeptTo(<<>>, ds, keep, 0)
      BY DEF KeptTo
    <2>2. QED
      BY <1>8, <2>1
  <1>11. ASSUME NEW n \in Nat, n \in Good PROVE n + 1 \in Good
    <2> SUFFICES ASSUME n + 1 <= Len(ds)
                 PROVE  KeptTo(f[n + 1], ds, keep, n + 1)
      OBVIOUS
    <2>1. KeptTo(f[n], ds, keep, n)
      BY <1>11
    <2>2. n + 1 \in 1 .. Len(ds) /\ (n + 1) - 1 = n
      OBVIOUS
    <2>3. f[n + 1] = IF ds[n + 1] \in keep THEN Append(f[n], ds[n + 1]) ELSE f[n]
      BY <1>9, <2>2
    <2>4. QED
      BY <2>1, <2>2, <2>3, KeptStep
  <1>12. Len(ds) \in Good
    <2> HIDE DEF Good
    <2>1. QED
      BY <1>2, <1>10, <1>11, SetInduction
  <1>13. KeptTo(f[Len(ds)], ds, keep, Len(ds))
    BY <1>2, <1>12
  <1>14. QED
    BY <1>7, <1>13 DEF Retained, KeptTo

\* The recursion of ReplayAll, with the function that solves it.
Replays(f, r, pending) ==
    f = [i \in 0 .. Len(pending) |-> IF i = 0 THEN r ELSE Replay(f[i - 1], pending[i])]

Resolver == [ready : BOOLEAN, locks : SUBSET Txns, resolved : Ts]
PendingLock == [kind : Kinds, txn : Txns]

\* What the Resolver s, built as r, holds after the first n of the pending
\* locks: what the last one for a transaction says, or what it was built with.
Replayed(s, r, pending, n) ==
    /\ s \in Resolver /\ s.ready = r.ready /\ s.resolved = r.resolved
    /\ s.locks \cap Silent = {}
    /\ \A t \in Txns :
         \/ (\A i \in 1 .. n : pending[i].txn # t) /\ (t \in s.locks <=> t \in r.locks)
         \/ \E i \in 1 .. n :
               /\ pending[i].txn = t /\ (\A j \in 1 .. n : j > i => pending[j].txn # t)
               /\ t \in s.locks <=> pending[i].kind = "prewrite"

(* One step of the replay of the pending locks.                             *)
LEMMA ReplayStep ==
    ASSUME NEW pending \in Seq(PendingLock), NEW r \in Resolver,
           NEW n \in Nat, n + 1 \in 1 .. Len(pending), pending[n + 1].txn \notin Silent,
           NEW s, Replayed(s, r, pending, n)
    PROVE  Replayed(Replay(s, pending[n + 1]), r, pending, n + 1)
  <1> DEFINE p == pending[n + 1]
             u == Replay(s, p)
  <1>1. p \in PendingLock /\ s \in Resolver
    BY DEF Replayed
  <1>2. /\ u \in Resolver /\ u.ready = s.ready /\ u.resolved = s.resolved
        /\ u.locks = IF p.kind = "prewrite" THEN s.locks \cup {p.txn} ELSE s.locks \ {p.txn}
    <2> HIDE DEF p
    <2>1. QED
      BY <1>1 DEF Replay, track_lock, untrack_lock, Resolver, PendingLock
  <1> HIDE DEF u
  <1>3. \A j \in 1 .. n + 1 : j \in 1 .. n \/ j = n + 1
    OBVIOUS
  <1>4. n + 1 \in 1 .. n + 1 /\ \A j \in 1 .. n : j \in 1 .. n + 1 /\ ~(j > n + 1)
    OBVIOUS
  <1>5. ASSUME NEW t \in Txns
        PROVE  \/ (\A i \in 1 .. n + 1 : pending[i].txn # t) /\ (t \in u.locks <=> t \in r.locks)
               \/ \E i \in 1 .. n + 1 :
                    /\ pending[i].txn = t /\ (\A j \in 1 .. n + 1 : j > i => pending[j].txn # t)
                    /\ t \in u.locks <=> pending[i].kind = "prewrite"
    <2>1. CASE p.txn = t
      <3>1. t \in u.locks <=> p.kind = "prewrite"
        BY <1>2, <2>1
      <3>2. \A j \in 1 .. n + 1 : ~(j > n + 1)
        OBVIOUS
      <3>3. QED
        BY <1>4, <2>1, <3>1, <3>2
    <2>2. CASE p.txn # t
      <3>1. t \in u.locks <=> t \in s.locks
        BY <1>2, <2>2
      <3>2. CASE (\A i \in 1 .. n : pending[i].txn # t) /\ (t \in s.locks <=> t \in r.locks)
        BY <1>3, <2>2, <3>1, <3>2
      <3>3. CASE \E i \in 1 .. n :
                    /\ pending[i].txn = t /\ (\A j \in 1 .. n : j > i => pending[j].txn # t)
                    /\ t \in s.locks <=> pending[i].kind = "prewrite"
        <4>1. PICK i \in 1 .. n :
                    /\ pending[i].txn = t /\ (\A j \in 1 .. n : j > i => pending[j].txn # t)
                    /\ t \in s.locks <=> pending[i].kind = "prewrite"
          BY <3>3
        <4>2. \A j \in 1 .. n + 1 : j > i => pending[j].txn # t
          BY <1>3, <2>2, <4>1
        <4>3. QED
          BY <1>4, <3>1, <4>1, <4>2
      <3>4. QED
        BY <3>2, <3>3 DEF Replayed
    <2>3. QED
      BY <2>1, <2>2
  <1>6. u.locks \cap Silent = {}
    BY <1>2 DEF Replayed
  <1>7. Replayed(u, r, pending, n + 1)
    BY <1>2, <1>5, <1>6 DEF Replayed
  <1>8. QED
    BY <1>7 DEF u

(* The Resolver after all the pending locks.                                *)
LEMMA ReplayShape ==
    ASSUME NEW pending \in Seq(PendingLock), NEW r \in Resolver, r.locks \cap Silent = {},
           \A i \in 1 .. Len(pending) : pending[i].txn \notin Silent
    PROVE  Replayed(ReplayAll(r, pending), r, pending, Len(pending))
  <1> DEFINE g == [i \in Nat |-> [x \in Resolver |->
                     IF i \in 1 .. Len(pending) THEN Replay(x, pending[i]) ELSE x]]
  <1>1. ASSUME NEW i \in Nat, NEW x \in Resolver PROVE g[i][x] \in Resolver
    <2>1. CASE i \in 1 .. Len(pending)
      <3>1. pending[i] \in PendingLock
        BY <2>1
      <3>2. Replay(x, pending[i]) \in Resolver
        BY <3>1 DEF Replay, track_lock, untrack_lock, Resolver, PendingLock
      <3>3. QED
        BY <2>1, <3>2
    <2>2. CASE i \notin 1 .. Len(pending)
      BY <2>2
    <2>3. QED
      BY <2>1, <2>2
  <1>2. Len(pending) \in Nat
    OBVIOUS
  <1>3. PICK h : Run(h, g, Resolver, r, Len(pending))
    <2> HIDE DEF g
    <2>1. QED
      BY <1>1, <1>2, RunExists
  <1>4. ASSUME NEW i \in 1 .. Len(pending) PROVE h[i] = Replay(h[i - 1], pending[i])
    <2>1. h[i - 1] \in Resolver /\ h[i] = g[i][h[i - 1]]
      <3> HIDE DEF g
      <3>1. i - 1 \in 0 .. Len(pending)
        OBVIOUS
      <3>2. QED
        BY <1>3, <3>1 DEF Run
    <2>2. QED
      BY <2>1
  <1>5. Replays(h, r, pending)
    <2>1. h = [i \in 0 .. Len(pending) |-> h[i]] /\ h[0] = r
      BY <1>3 DEF Run
    <2>2. \A i \in 0 .. Len(pending) :
            h[i] = IF i = 0 THEN r ELSE Replay(h[i - 1], pending[i])
      <3> HIDE DEF g
      <3>1. \A i \in 0 .. Len(pending) : i = 0 \/ i \in 1 .. Len(pending)
        OBVIOUS
      <3>2. QED
        BY <1>4, <2>1, <3>1
    <2>3. QED
      BY <2>1, <2>2 DEF Replays
  <1> DEFINE f == CHOOSE f : Replays(f, r, pending)
  <1>6. Replays(f, r, pending)
    BY <1>5
  <1>7. ReplayAll(r, pending) = f[Len(pending)]
    BY DEF ReplayAll, Replays
  <1> HIDE DEF f
  <1>8. f[0] = r
    BY <1>6 DEF Replays
  <1>9. ASSUME NEW i \in 1 .. Len(pending) PROVE f[i] = Replay(f[i - 1], pending[i])
    <2>1. i \in 0 .. Len(pending) /\ i # 0
      OBVIOUS
    <2>2. QED
      BY <1>6, <2>1 DEF Replays
  <1> DEFINE Good == { n \in Nat : n <= Len(pending) => Replayed(f[n], r, pending, n) }
  <1>10. 0 \in Good
    <2>1. Replayed(r, r, pending, 0)
      BY DEF Replayed
    <2>2. QED
      BY <1>8, <2>1
  <1>11. ASSUME NEW n \in Nat, n \in Good PROVE n + 1 \in Good
    <2> SUFFICES ASSUME n + 1 <= Len(pending)
                 PROVE  Replayed(f[n + 1], r, pending, n + 1)
      OBVIOUS
    <2>1. Replayed(f[n], r, pending, n)
      BY <1>11
    <2>2. n + 1 \in 1 .. Len(pending) /\ (n + 1) - 1 = n
      OBVIOUS
    <2>3. f[n + 1] = Replay(f[n], pending[n + 1])
      BY <1>9, <2>2
    <2>4. QED
      BY <2>1, <2>2, <2>3, ReplayStep
  <1>12. Len(pending) \in Good
    <2> HIDE DEF Good
    <2>1. QED
      BY <1>2, <1>10, <1>11, SetInduction
  <1>13. QED
    BY <1>2, <1>7, <1>12

-----------------------------------------------------------------------------
(* Commands and locks. *)

(* A command among the first n is among the first m, if n <= m.             *)
LEMMA HasMono ==
    ASSUME NEW l, NEW n \in Int, NEW m \in Int, n <= m, NEW k, NEW t, HasIn(l, k, n, t)
    PROVE  HasIn(l, k, m, t)
  <1>1. \A i \in 1 .. n : i \in 1 .. m
    OBVIOUS
  <1>2. QED
    BY <1>1 DEF HasIn

(* The same for a transaction that has ended.                               *)
LEMMA EndedMono ==
    ASSUME NEW l, NEW n \in Int, NEW m \in Int, n <= m, NEW t, EndedIn(l, n, t)
    PROVE  EndedIn(l, m, t)
  BY HasMono DEF EndedIn

(* A new command leaves what was there before it.                           *)
LEMMA HasAppend ==
    ASSUME NEW l \in Seq(Command), NEW c \in Command, NEW n \in Int, n <= Len(l), NEW k, NEW t
    PROVE  HasIn(Append(l, c), k, n, t) <=> HasIn(l, k, n, t)
  <1>1. \A i \in 1 .. n : Append(l, c)[i] = l[i]
    OBVIOUS
  <1>2. QED
    BY <1>1 DEF HasIn

(* The same for locks and for ended transactions.                           *)
LEMMA LockedAppend ==
    ASSUME NEW l \in Seq(Command), NEW c \in Command, NEW n \in Int, n <= Len(l)
    PROVE  /\ LockedIn(Append(l, c), n) = LockedIn(l, n)
           /\ \A t : EndedIn(Append(l, c), n, t) <=> EndedIn(l, n, t)
  BY HasAppend DEF LockedIn, EndedIn

(* What the next command adds.                                              *)
LEMMA HasStep ==
    ASSUME NEW l, NEW n \in Nat, NEW k, NEW t
    PROVE  HasIn(l, k, n + 1, t)
           <=> HasIn(l, k, n, t) \/ (l[n + 1].kind = k /\ l[n + 1].txn = t)
  <1>1. \A i : i \in 1 .. n + 1 <=> i \in 1 .. n \/ i = n + 1
    OBVIOUS
  <1>2. QED
    BY <1>1 DEF HasIn

(* Only what was prewritten ends.                                           *)
LEMMA EndedPrewritten ==
    ASSUME NEW l \in Seq(Command), Disciplined(l), NEW n \in Int, n <= Len(l), NEW t \in Txns,
           EndedIn(l, n, t)
    PROVE  HasIn(l, "prewrite", n, t)
  <1>1. PICK i \in 1 .. n : l[i].kind \in {"commit", "rollback"} /\ l[i].txn = t
    BY DEF EndedIn, HasIn
  <1>2. i \in 1 .. Len(l) /\ i - 1 \in Int /\ i - 1 <= n
    OBVIOUS
  <1>3. t \in LockedIn(l, i - 1)
    BY <1>1, <1>2 DEF Disciplined
  <1>4. HasIn(l, "prewrite", i - 1, t)
    BY <1>3 DEF LockedIn
  <1>5. QED
    BY <1>2, <1>4, HasMono

(* A transaction ends in one way.                                           *)
LEMMA EndedOnce ==
    ASSUME NEW l \in Seq(Command), Disciplined(l), NEW n \in Int, n <= Len(l), NEW t \in Txns,
           HasIn(l, "commit", n, t)
    PROVE  ~HasIn(l, "rollback", n, t)
  <1> SUFFICES ASSUME HasIn(l, "rollback", n, t) PROVE FALSE
    OBVIOUS
  <1>1. PICK i \in 1 .. n : l[i].kind = "commit" /\ l[i].txn = t
    BY DEF HasIn
  <1>2. PICK j \in 1 .. n : l[j].kind = "rollback" /\ l[j].txn = t
    BY DEF HasIn
  <1>3. t \in LockedIn(l, i - 1) /\ t \in LockedIn(l, j - 1)
    BY <1>1, <1>2 DEF Disciplined
  <1>4. CASE i < j
    <2>1. i \in 1 .. j - 1
      BY <1>4
    <2>2. HasIn(l, "commit", j - 1, t)
      BY <1>1, <2>1 DEF HasIn
    <2>3. QED
      BY <1>3, <2>2 DEF LockedIn
  <1>5. CASE j < i
    <2>1. j \in 1 .. i - 1
      BY <1>5
    <2>2. HasIn(l, "rollback", i - 1, t)
      BY <1>2, <2>1 DEF HasIn
    <2>3. QED
      BY <1>3, <2>2 DEF LockedIn
  <1>6. QED
    BY <1>1, <1>2, <1>4, <1>5

(* Prewritten before n and committed after it: locked at n.                 *)
LEMMA LockedBetween ==
    ASSUME NEW l \in Seq(Command), Disciplined(l), NEW n \in Int, NEW m \in Int,
           n <= m, m <= Len(l), NEW t \in Txns,
           HasIn(l, "prewrite", n, t), HasIn(l, "commit", m, t), ~HasIn(l, "commit", n, t)
    PROVE  t \in LockedIn(l, n)
  <1>1. ~HasIn(l, "rollback", m, t)
    BY EndedOnce
  <1>2. ~HasIn(l, "rollback", n, t)
    BY <1>1, HasMono
  <1>3. QED
    BY <1>2 DEF LockedIn

\* What a command does to the locks: what Replay does to a Resolver's.
Applies(c, before, after) ==
    \A t \in Txns : t \in after <=>
        IF c.kind # "fail" /\ c.txn = t THEN c.kind = "prewrite" ELSE t \in before

(* The locks of a region change with its commands as Replay changes them.   *)
LEMMA LockedStep ==
    ASSUME NEW l \in Seq(Command), Disciplined(l), NEW n \in Nat, n < Len(l)
    PROVE  Applies(l[n + 1], LockedIn(l, n), LockedIn(l, n + 1))
  <1> DEFINE c == l[n + 1]
  <1>1. n + 1 \in 1 .. Len(l) /\ (n + 1) - 1 = n /\ n \in Int /\ n <= Len(l)
    OBVIOUS
  <1>2. c \in Command
    BY <1>1
  <1>3. /\ c.kind = "prewrite" => ~HasIn(l, "prewrite", n, c.txn)
        /\ c.kind \in {"commit", "rollback"} => c.txn \in LockedIn(l, n)
    BY <1>1 DEF Disciplined
  <1>4. c.kind \in Kinds \cup {"fail"} /\ (c.kind # "fail" => c.txn \in Txns)
    <2> HIDE DEF c
    <2>1. QED
      BY <1>2 DEF Command, Kinds
  <1>5. \A k, t : HasIn(l, k, n + 1, t) <=> HasIn(l, k, n, t) \/ (c.kind = k /\ c.txn = t)
    BY HasStep
  <1> HIDE DEF c
  <1>6. ASSUME NEW t \in Txns
        PROVE  t \in LockedIn(l, n + 1) <=>
                 IF c.kind # "fail" /\ c.txn = t THEN c.kind = "prewrite" ELSE t \in LockedIn(l, n)
    <2>1. t \in LockedIn(l, n) <=> /\ HasIn(l, "prewrite", n, t)
                                   /\ ~HasIn(l, "commit", n, t) /\ ~HasIn(l, "rollback", n, t)
      BY DEF LockedIn
    <2>2. t \in LockedIn(l, n + 1) <=>
            /\ HasIn(l, "prewrite", n + 1, t)
            /\ ~HasIn(l, "commit", n + 1, t) /\ ~HasIn(l, "rollback", n + 1, t)
      BY DEF LockedIn
    <2>3. CASE c.kind = "prewrite" /\ c.txn = t
      <3>1. ~EndedIn(l, n, t)
        BY <1>1, <1>3, <2>3, EndedPrewritten
      <3>2. QED
        BY <1>5, <2>2, <2>3, <3>1 DEF EndedIn
    <2>4. CASE c.kind \in {"commit", "rollback"} /\ c.txn = t
      BY <1>5, <2>2, <2>4
    <2>5. CASE c.kind = "fail" \/ c.txn # t
      BY <1>5, <2>1, <2>2, <2>5
    <2>6. QED
      BY <1>4, <2>3, <2>4, <2>5 DEF Kinds
  <1>7. QED
    BY <1>6 DEF Applies, c

-----------------------------------------------------------------------------
(* What the actions do, in the terms of the invariant. *)

\* The log only grows.
Grow == log' = log \/ \E c \in Command : log' = Append(log, c)

\* A step of the region: later timestamps, and no change to the Sentinel.
WorldStep ==
    /\ Grow /\ ts <= ts'
    /\ \A t \in Txns : commit'[t] = commit[t] \/ commit'[t] > ts
    /\ UNCHANGED <<delivered, sentinel, state, snapshot, got, status>>

\* A step of the Sentinel: no command and no timestamp is new.
SentinelStep ==
    /\ UNCHANGED <<ts, start, commit, log>>
    /\ min_ts' = min_ts \/ min_ts' = NoMinTs

(* The commands up to n stay what they are.                                 *)
LEMMA GrowKeeps ==
    ASSUME log \in Seq(Command), Grow
    PROVE  /\ log' \in Seq(Command) /\ Len(log) \in Nat /\ Len(log') \in Nat
           /\ Len(log) <= Len(log')
           /\ \A n \in Int : n <= Len(log) =>
                /\ \A k, t : HasIn(log', k, n, t) <=> HasIn(log, k, n, t)
                /\ LockedIn(log', n) = LockedIn(log, n)
                /\ \A t : EndedIn(log', n, t) <=> EndedIn(log, n, t)
  <1>1. CASE log' = log
    BY <1>1
  <1>2. CASE \E c \in Command : log' = Append(log, c)
    <2>1. PICK c \in Command : log' = Append(log, c)
      BY <1>2
    <2>2. log' \in Seq(Command) /\ Len(log') = Len(log) + 1 /\ Len(log) \in Nat
      BY <2>1
    <2>3. QED
      BY <2>1, <2>2, HasAppend, LockedAppend
  <1>3. QED
    BY <1>1, <1>2 DEF Grow

(* The log is read as the model reads it.                                   *)
LEMMA ReadsLog ==
    /\ \A k, n, t : Has(k, n, t) <=> HasIn(log, k, n, t)
    /\ \A n : LockedAt(n) = LockedIn(log, n)
    /\ \A k, t : Applied(k, t) <=> HasIn(log, k, Len(log), t)
  BY DEF Has, HasIn, LockedAt, LockedIn, Applied

(* The steps of the region are world steps, and well typed.                 *)
LEMMA RegionEffect == TypeOK /\ Region => WorldStep /\ TypeOK'
  <1> SUFFICES ASSUME TypeOK, Region PROVE WorldStep /\ TypeOK'
    OBVIOUS
  <1> USE SentinelAssumption
  <1>0. /\ ts \in Nat /\ Len(log) \in Nat /\ status \in {"none", "running"}
        /\ UNCHANGED <<delivered, sentinel, state, snapshot, got, status>>
    BY DEF TypeOK, Region, Ts
  <1>1. ASSUME NEW t \in Txns, draw_start(t) PROVE WorldStep /\ TypeOK'
    <2>1. ts' \in Ts /\ start' \in [Txns -> Ts]
      BY <1>1 DEF draw_start, TypeOK, Ts
    <2>2. TypeOK'
      BY <1>0, <1>1, <2>1 DEF draw_start, TypeOK, sentinel
    <2>3. WorldStep
      BY <1>0, <1>1 DEF draw_start, WorldStep, Grow
    <2>4. QED
      BY <2>2, <2>3
  <1>2. ASSUME NEW t \in Txns, draw_commit(t) PROVE WorldStep /\ TypeOK'
    <2>1. ts' \in Ts /\ commit' \in [Txns -> Ts]
      BY <1>2 DEF draw_commit, TypeOK, Ts
    <2>2. TypeOK'
      BY <1>0, <1>2, <2>1 DEF draw_commit, TypeOK, sentinel
    <2>3. \A x \in Txns : commit'[x] = commit[x] \/ commit'[x] > ts
      BY <1>0, <1>2 DEF draw_commit, TypeOK
    <2>4. WorldStep
      BY <1>0, <1>2, <2>3 DEF draw_commit, WorldStep, Grow
    <2>5. QED
      BY <2>2, <2>4
  <1>3. ASSUME NEW c \in Command, log' = Append(log, c), UNCHANGED <<ts, start, commit, min_ts>>
        PROVE  WorldStep /\ TypeOK'
    <2>1. log' \in Seq(Command) /\ Len(log') = Len(log) + 1
      BY <1>3 DEF TypeOK
    <2>2. /\ delivered \in 0 .. Len(log') /\ min_ts \in [ts : Ts, at : 0 .. Len(log')]
          /\ snapshot \in [Downstreams -> {NoScan} \cup 0 .. Len(log')]
      BY <1>0, <2>1 DEF TypeOK
    <2>3. TypeOK'
      BY <1>0, <1>3, <2>1, <2>2 DEF TypeOK, sentinel
    <2>4. WorldStep
      BY <1>0, <1>3 DEF WorldStep, Grow
    <2>5. QED
      BY <2>3, <2>4
  <1>4. ASSUME NEW t \in Txns, NEW k \in Kinds, apply(k, t) PROVE WorldStep /\ TypeOK'
    <2>1. [kind |-> k, txn |-> t] \in Command
      BY DEF Command
    <2>2. QED
      BY <1>3, <1>4, <2>1 DEF apply
  <1>5. ASSUME apply_fail PROVE WorldStep /\ TypeOK'
    <2>1. [kind |-> "fail"] \in Command
      BY DEF Command
    <2>2. QED
      BY <1>3, <1>5, <2>1 DEF apply_fail
  <1>6. ASSUME draw_min_ts PROVE WorldStep /\ TypeOK'
    <2>1. ts' \in Ts /\ min_ts' \in [ts : Ts, at : 0 .. Len(log)]
      BY <1>0, <1>6 DEF draw_min_ts, TypeOK, Ts
    <2>2. TypeOK'
      BY <1>0, <1>6, <2>1 DEF draw_min_ts, TypeOK, sentinel
    <2>3. WorldStep
      BY <1>0, <1>6 DEF draw_min_ts, WorldStep, Grow
    <2>4. QED
      BY <2>2, <2>3
  <1>7. QED
    BY <1>1, <1>2, <1>4, <1>5, <1>6 DEF Region

\* The rows of a sink: what it holds besides errors and resolved timestamps.
SameRows(d) ==
    /\ got'[d].prewrite = got[d].prewrite /\ got'[d].commit = got[d].commit
    /\ got'[d].committed = got[d].committed /\ got'[d].initialized = got[d].initialized

NewEffect(d) ==
    /\ TypeOK' /\ SentinelStep
    /\ status = "none" /\ status' = "running"
    /\ waiting' = <<d>> /\ delivered' = Len(log)
    /\ UNCHANGED <<region, locks, downstreams, resolver, state, snapshot, got>>

(* Sentinel::new.                                                           *)
LEMMA NewShape ==
    ASSUME TypeOK, NEW d \in Downstreams, new(d)
    PROVE  NewEffect(d)
  <1>1. <<d>> \in Seq(Downstreams) /\ Len(log) \in 0 .. Len(log)
    BY DEF TypeOK
  <1>2. TypeOK'
    BY <1>1 DEF TypeOK, new, world
  <1>3. QED
    BY <1>2 DEF new, world, SentinelStep, NewEffect

SubscribeEffect(d) ==
    /\ TypeOK' /\ SentinelStep
    /\ status = "running" /\ status' = "running" /\ state[d] = "UNINITIALIZED"
    /\ \A x \in Downstreams : Listed(x)' => Listed(x) \/ x = d
    /\ Current' # <<>> \/ (\E x \in Stale : got'[x].error)
    /\ \A x \in Downstreams : SameRows(x) /\ got'[x].resolved = got[x].resolved
    /\ UNCHANGED <<delivered, region, locks, resolver, state, snapshot>>

(* Sentinel::subscribe.                                                     *)
LEMMA SubscribeShape ==
    ASSUME TypeOK, NEW d \in Downstreams, subscribe(d)
    PROVE  SubscribeEffect(d)
  <1>1. /\ status = "running" /\ state[d] = "UNINITIALIZED"
        /\ UNCHANGED <<world, delivered, region, locks, resolver, enabled, state, snapshot, status>>
    BY DEF subscribe
  <1>2. CASE ~region
    <2>1. waiting' = Append(waiting, d) /\ UNCHANGED <<downstreams, got>>
      BY <1>2 DEF subscribe
    <2>2. /\ waiting \in Seq(Downstreams) /\ waiting' \in Seq(Downstreams)
          /\ Len(waiting') = Len(waiting) + 1 /\ Len(waiting) \in Nat
          /\ waiting'[Len(waiting) + 1] = d
          /\ \A i \in 1 .. Len(waiting) : waiting'[i] = waiting[i]
      BY <2>1 DEF TypeOK
    <2>3. TypeOK'
      BY <1>1, <2>1, <2>2 DEF TypeOK, world
    <2>4. Current = waiting /\ Current' = waiting'
      BY <1>1, <1>2 DEF Current
    <2>5. ASSUME NEW x \in Downstreams, Listed(x)' PROVE Listed(x) \/ x = d
      <3>1. PICK i \in 1 .. Len(waiting') : waiting'[i] = x
        BY <2>4, <2>5 DEF Listed
      <3>2. CASE i = Len(waiting) + 1
        BY <2>2, <3>1, <3>2
      <3>3. CASE i # Len(waiting) + 1
        <4>1. i \in 1 .. Len(waiting) /\ waiting[i] = x
          BY <2>2, <3>1, <3>3
        <4>2. QED
          BY <2>4, <4>1 DEF Listed
      <3>4. QED
        BY <3>2, <3>3
    <2>6. Current' # <<>>
      BY <2>2, <2>4
    <2>7. QED
      BY <1>1, <2>1, <2>3, <2>5, <2>6 DEF SubscribeEffect, SentinelStep, SameRows, world
  <1>3. CASE region /\ d \in Stale
    <2>1. got' = [got EXCEPT ![d].error = TRUE] /\ UNCHANGED <<waiting, downstreams>>
      BY <1>3 DEF subscribe
    <2>2. got \in [Downstreams -> Sink]
      BY DEF TypeOK
    <2>3. [got[d] EXCEPT !.error = TRUE] \in Sink
      BY <2>2 DEF Sink
    <2>4. got' \in [Downstreams -> Sink]
      BY <2>1, <2>2, <2>3
    <2>5. TypeOK'
      BY <1>1, <2>1, <2>4 DEF TypeOK, world
    <2>6. got'[d].error
      BY <2>1, <2>2 DEF Sink
    <2>7. \A x \in Downstreams : SameRows(x) /\ got'[x].resolved = got[x].resolved
      BY <2>1, <2>2 DEF Sink, SameRows
    <2>8. \A x \in Downstreams : Listed(x)' => Listed(x)
      BY <1>1, <2>1 DEF Listed, Current
    <2>9. QED
      BY <1>1, <1>3, <2>5, <2>6, <2>7, <2>8 DEF SubscribeEffect, SentinelStep, world
  <1>4. CASE region /\ d \notin Stale
    <2>1. downstreams' = Append(downstreams, d) /\ UNCHANGED <<waiting, got>>
      BY <1>4 DEF subscribe
    <2>2. /\ downstreams \in Seq(Downstreams) /\ downstreams' \in Seq(Downstreams)
          /\ Len(downstreams') = Len(downstreams) + 1 /\ Len(downstreams) \in Nat
          /\ downstreams'[Len(downstreams) + 1] = d
          /\ \A i \in 1 .. Len(downstreams) : downstreams'[i] = downstreams[i]
      BY <2>1 DEF TypeOK
    <2>3. TypeOK'
      BY <1>1, <2>1, <2>2 DEF TypeOK, world
    <2>4. Current = downstreams /\ Current' = downstreams'
      BY <1>1, <1>4 DEF Current
    <2>5. ASSUME NEW x \in Downstreams, Listed(x)' PROVE Listed(x) \/ x = d
      <3>1. PICK i \in 1 .. Len(downstreams') : downstreams'[i] = x
        BY <2>4, <2>5 DEF Listed
      <3>2. CASE i = Len(downstreams) + 1
        BY <2>2, <3>1, <3>2
      <3>3. CASE i # Len(downstreams) + 1
        <4>1. i \in 1 .. Len(downstreams) /\ downstreams[i] = x
          BY <2>2, <3>1, <3>3
        <4>2. QED
          BY <2>4, <4>1 DEF Listed
      <3>4. QED
        BY <3>2, <3>3
    <2>6. Current' # <<>>
      BY <2>2, <2>4
    <2>7. QED
      BY <1>1, <2>1, <2>3, <2>5, <2>6 DEF SubscribeEffect, SentinelStep, SameRows, world
  <1>5. QED
    BY <1>2, <1>3, <1>4

UnsubscribeEffect(d) ==
    /\ TypeOK' /\ SentinelStep
    /\ status = "running" /\ status' \in {"running", "dropped"}
    /\ status' = "running" => Current' # <<>>
    /\ \A x \in Downstreams : Listed(x)' => Listed(x)
    /\ \A x \in Downstreams : state'[x] = "NORMAL" => state[x] = "NORMAL"
    /\ UNCHANGED <<delivered, region, locks, resolver, snapshot, got>>

(* Sentinel::unsubscribe.                                                   *)
LEMMA UnsubscribeShape ==
    ASSUME TypeOK, NEW d \in Downstreams, unsubscribe(d)
    PROVE  UnsubscribeEffect(d)
  <1> DEFINE rest == Without(Current, d)
  <1>1. /\ status = "running"
        /\ IF region THEN downstreams' = rest /\ UNCHANGED waiting
                     ELSE waiting' = rest /\ UNCHANGED downstreams
        /\ state' = [state EXCEPT ![d] = "STOPPED"]
        /\ enabled' = (enabled /\ rest # <<>>)
        /\ status' = IF rest = <<>> THEN "dropped" ELSE status
        /\ UNCHANGED <<world, delivered, region, locks, resolver, snapshot, got>>
    BY DEF unsubscribe
  <1>2. Current \in Seq(Downstreams)
    BY DEF TypeOK, Current
  <1>3. Retained(rest, Current, Downstreams \ {d})
    BY <1>2, RetainShape DEF Without
  <1> HIDE DEF rest
  <1>4. rest \in Seq(Downstreams)
    BY <1>3 DEF Retained
  <1>5. enabled' \in BOOLEAN
    BY <1>1
  <1>6. TypeOK'
    BY <1>1, <1>4, <1>5 DEF TypeOK, world
  <1>7. Current' = rest
    BY <1>1 DEF Current
  <1>8. \A x \in Downstreams : Listed(x)' => Listed(x)
    BY <1>3, <1>7 DEF Listed, Retained
  <1>9. \A x \in Downstreams : state'[x] = "NORMAL" => state[x] = "NORMAL"
    BY <1>1 DEF TypeOK
  <1>10. QED
    BY <1>1, <1>6, <1>7, <1>8, <1>9 DEF UnsubscribeEffect, SentinelStep, world

InitializeEffect(d) ==
    /\ TypeOK' /\ SentinelStep
    /\ Listed(d) /\ ~Taken(d) /\ snapshot'[d] = Len(log)
    /\ \A x \in Downstreams : x # d => snapshot'[x] = snapshot[x] /\ state'[x] = state[x]
    /\ UNCHANGED <<delivered, sentinel, got, status>>

(* The snapshot of a scan.                                                  *)
LEMMA InitializeShape ==
    ASSUME TypeOK, NEW d \in Downstreams, initialize(d)
    PROVE  InitializeEffect(d)
  <1>1. Len(log) \in 0 .. Len(log)
    BY DEF TypeOK
  <1>2. /\ snapshot' \in [Downstreams -> {NoScan} \cup 0 .. Len(log)]
        /\ snapshot'[d] = Len(log) /\ snapshot[d] = NoScan
        /\ \A x \in Downstreams : x # d => snapshot'[x] = snapshot[x] /\ state'[x] = state[x]
    BY <1>1 DEF TypeOK, initialize
  <1>3. state' \in [Downstreams -> {"UNINITIALIZED", "NORMAL", "STOPPED"}]
    BY DEF TypeOK, initialize
  <1>4. TypeOK'
    BY <1>2, <1>3 DEF TypeOK, initialize, world, sentinel
  <1>5. QED
    BY <1>2, <1>4 DEF InitializeEffect, SentinelStep, initialize, world, Taken

SearchEffect(d) ==
    /\ TypeOK' /\ SentinelStep
    /\ status = "running" /\ Taken(d)
    /\ got'[d].prewrite = got[d].prewrite \cup (LockedIn(log, snapshot[d]) \ Silent)
    /\ got'[d].committed = { t \in Txns \ Silent : HasIn(log, "commit", snapshot[d], t) }
    /\ got'[d].commit = got[d].commit /\ got'[d].initialized
    /\ got'[d].resolved = got[d].resolved /\ got'[d].error = got[d].error
    /\ \A x \in Downstreams : x # d => got'[x] = got[x]
    /\ UNCHANGED <<delivered, sentinel, state, snapshot, status>>

(* Sentinel::on_mutant_search.                                              *)
LEMMA SearchShape ==
    ASSUME TypeOK, NEW d \in Downstreams, on_mutant_search(d)
    PROVE  SearchEffect(d)
  <1> DEFINE p == LockedIn(log, snapshot[d]) \ Silent
             c == { t \in Txns \ Silent : HasIn(log, "commit", snapshot[d], t) }
  <1>1. LockedAt(snapshot[d]) \ Silent = p
    BY ReadsLog
  <1>2. { t \in Txns \ Silent : Has("commit", snapshot[d], t) } = c
    BY ReadsLog
  <1>3. p \in SUBSET Txns /\ c \in SUBSET Txns
    BY DEF LockedIn
  <1> HIDE DEF p, c
  <1>4. got' = [got EXCEPT ![d].prewrite = @ \cup p, ![d].committed = c, ![d].initialized = TRUE]
    BY <1>1, <1>2 DEF on_mutant_search
  <1>5. got \in [Downstreams -> Sink]
    BY DEF TypeOK
  <1> DEFINE g == [[[got[d] EXCEPT !.prewrite = @ \cup p] EXCEPT !.committed = c]
                     EXCEPT !.initialized = TRUE]
  <1>6. g \in Sink
    BY <1>3, <1>5 DEF Sink
  <1>7. got'[d] = g /\ (\A x \in Downstreams : x # d => got'[x] = got[x])
        /\ got' \in [Downstreams -> Sink]
    BY <1>4, <1>5, <1>6
  <1>8. /\ g.prewrite = got[d].prewrite \cup p /\ g.committed = c /\ g.initialized
        /\ g.commit = got[d].commit /\ g.resolved = got[d].resolved /\ g.error = got[d].error
    BY <1>5 DEF Sink
  <1> HIDE DEF g
  <1>9. TypeOK'
    BY <1>7 DEF TypeOK, on_mutant_search, world, sentinel
  <1>10. QED
    BY <1>7, <1>8, <1>9 DEF SearchEffect, SentinelStep, on_mutant_search, world, Taken, p, c

Built(d) == [ready |-> TRUE, locks |-> LockedIn(log, snapshot[d]) \ Silent, resolved |-> 0]

ReadyEffect(d) ==
    /\ TypeOK' /\ SentinelStep
    /\ status = "running" /\ First(d) /\ ~resolver.ready
    /\ Replayed(resolver', Built(d), locks, Len(locks))
    /\ region' = TRUE /\ locks' = <<>>
    /\ \A x \in Downstreams : Listed(x)' => \E i \in 1 .. Len(waiting) : waiting[i] = x
    /\ Current' # <<>> \/ waiting = <<>> \/ (\E x \in Stale : got'[x].error)
    /\ \A x \in Downstreams : /\ SameRows(x) /\ got'[x].resolved = got[x].resolved
                              /\ got[x].error => got'[x].error
    /\ UNCHANGED <<delivered, state, snapshot, status>>

(* Sentinel::on_region_ready.                                               *)
LEMMA ReadyShape ==
    ASSUME TypeOK, NEW d \in Downstreams, on_region_ready(d),
           \A i \in 1 .. Len(locks) : locks[i].txn \notin Silent
    PROVE  ReadyEffect(d)
  <1> USE SentinelAssumption
  <1> DEFINE refused == { waiting[i] : i \in { j \in 1 .. Len(waiting) : waiting[j] \in Stale } }
  <1>1. LockedAt(snapshot[d]) \ Silent = LockedIn(log, snapshot[d]) \ Silent
    BY ReadsLog
  <1>2. /\ status = "running" /\ snapshot[d] # NoScan
        /\ \A x \in Downstreams : snapshot[x] = NoScan \/ snapshot[d] <= snapshot[x]
        /\ ~resolver.ready
        /\ resolver' = ReplayAll(Built(d), locks)
        /\ region' = TRUE
        /\ locks' = <<>> /\ waiting' = <<>>
        /\ downstreams' = Retain(waiting, Downstreams \ Stale)
        /\ got' = [x \in Downstreams |->
                     IF x \in refused
                     THEN [got[x] EXCEPT !.error = TRUE] ELSE got[x]]
        /\ UNCHANGED <<world, delivered, enabled, state, snapshot, status>>
    BY <1>1 DEF on_region_ready, Built
  <1>3. Built(d) \in Resolver /\ Built(d).locks \cap Silent = {} /\ locks \in Seq(PendingLock)
    BY DEF Built, Resolver, LockedIn, Ts, TypeOK, PendingLock
  <1>4. Replayed(resolver', Built(d), locks, Len(locks))
    BY <1>2, <1>3, ReplayShape
  <1>5. resolver' \in [ready : BOOLEAN, locks : SUBSET Txns, resolved : Ts]
    BY <1>4 DEF Replayed, Resolver
  <1>6. waiting \in Seq(Downstreams) /\ got \in [Downstreams -> Sink]
    BY DEF TypeOK
  <1>7. Retained(downstreams', waiting, Downstreams \ Stale)
    BY <1>2, <1>6, RetainShape
  <1>8. downstreams' \in Seq(Downstreams) /\ Current' = downstreams'
    BY <1>2, <1>7 DEF Retained, Current
  <1>9. \A x \in Downstreams : [got[x] EXCEPT !.error = TRUE] \in Sink
    BY <1>6 DEF Sink
  <1>10. got' \in [Downstreams -> Sink]
    <2> HIDE DEF refused
    <2>1. QED
      BY <1>2, <1>6, <1>9
  <1>11. TypeOK'
    <2>1. /\ region' \in BOOLEAN /\ waiting' \in Seq(Downstreams)
          /\ locks' \in Seq([kind : Kinds, txn : Txns])
      BY <1>2
    <2>2. UNCHANGED <<ts, start, commit, log, min_ts, delivered, enabled, state, snapshot, status>>
      BY <1>2 DEF world
    <2>3. QED
      BY <1>5, <1>8, <1>10, <2>1, <2>2 DEF TypeOK
  <1>12. \A x \in Downstreams : Listed(x)' => \E i \in 1 .. Len(waiting) : waiting[i] = x
    BY <1>7, <1>8 DEF Retained, Listed
  <1>13. \A x \in Downstreams : /\ SameRows(x) /\ got'[x].resolved = got[x].resolved
                                /\ got[x].error => got'[x].error
    <2> HIDE DEF refused
    <2>1. QED
      BY <1>2, <1>6 DEF Sink, SameRows
  <1>14. ASSUME waiting # <<>>, Current' = <<>> PROVE \E x \in Stale : got'[x].error
    <2>1. 1 \in 1 .. Len(waiting) /\ waiting[1] \in Downstreams
      BY <1>6, <1>14
    <2>2. waiting[1] \in Stale
      <3>1. Len(downstreams') = 0
        BY <1>8, <1>14
      <3>2. QED
        BY <1>7, <2>1, <3>1 DEF Retained
    <2>3. waiting[1] \in refused
      BY <2>1, <2>2
    <2> HIDE DEF refused
    <2>4. got'[waiting[1]] = [got[waiting[1]] EXCEPT !.error = TRUE]
      BY <1>2, <2>1, <2>3
    <2>5. got'[waiting[1]].error
      BY <1>6, <2>1, <2>4 DEF Sink
    <2>6. QED
      BY <2>2, <2>5
  <1>15. First(d)
    BY <1>2 DEF First, Taken
  <1>16. SentinelStep
    BY <1>2 DEF SentinelStep, world
  <1>17. QED
    BY <1>2, <1>4, <1>11, <1>12, <1>13, <1>14, <1>15, <1>16 DEF ReadyEffect

\* u is r with a resolved ts v: later or the same, and if it is later then not
\* after m nor after the start of a transaction that r holds a lock of.
Resolves(u, r, m) ==
    /\ u \in Resolver /\ u.ready = r.ready /\ u.locks = r.locks
    /\ r.resolved <= u.resolved
    /\ \/ u.resolved = r.resolved
       \/ u.resolved <= m /\ \A t \in r.locks : u.resolved <= start[t]

(* Resolver::resolve.                                                       *)
LEMMA ResolveShape ==
    ASSUME start \in [Txns -> Ts], NEW r \in Resolver, NEW m \in Ts
    PROVE  Resolves(resolve(r, m), r, m)
  <1> USE SentinelAssumption
  <1> DEFINE floor == { start[t] : t \in r.locks } \cup {m}
             least == CHOOSE x \in floor : \A y \in floor : x <= y
  <1>1. r.locks \subseteq Txns /\ r.resolved \in Ts
    BY DEF Resolver
  <1>2. floor \subseteq Ts /\ m \in floor /\ (\A t \in r.locks : start[t] \in floor)
    BY <1>1
  <1>3. Ts \subseteq Nat
    BY DEF Ts
  <1>4. resolve(r, m) = [r EXCEPT !.resolved = IF @ < least THEN least ELSE @]
    BY DEF resolve
  <1>5. \E x \in floor : \A y \in floor : x <= y
    <2> HIDE DEF floor
    <2>1. floor \in SUBSET Nat /\ floor # {}
      BY <1>2, <1>3
    <2>2. QED
      BY <2>1, LeastExists
  <1>6. least \in floor /\ \A y \in floor : least <= y
    <2> HIDE DEF floor
    <2>1. QED
      BY <1>5
  <1>7. least \in Ts /\ least <= m /\ \A t \in r.locks : least <= start[t]
    <2> HIDE DEF floor, least
    <2>1. QED
      BY <1>2, <1>6
  <1> DEFINE v == IF r.resolved < least THEN least ELSE r.resolved
  <1>8. v \in Ts /\ r.resolved <= v /\ (v = r.resolved \/ v = least)
    <2> HIDE DEF least
    <2>1. least \in Nat /\ r.resolved \in Nat
      BY <1>1, <1>3, <1>7
    <2>2. QED
      BY <1>1, <1>7, <2>1
  <1>9. resolve(r, m) = [r EXCEPT !.resolved = v]
    BY <1>4
  <1> HIDE DEF v, least, floor
  <1>10. /\ [r EXCEPT !.resolved = v] \in Resolver
         /\ [r EXCEPT !.resolved = v].ready = r.ready /\ [r EXCEPT !.resolved = v].locks = r.locks
         /\ [r EXCEPT !.resolved = v].resolved = v
    BY <1>8 DEF Resolver
  <1>11. QED
    BY <1>7, <1>8, <1>9, <1>10 DEF Resolves

\* The step that took a sink from one record to another was a broadcast of sent.
Broadcast(sent) ==
    \/ status' = "panicked" /\ Current = <<>> /\ got' = got
    \/ /\ status' = status
       /\ got' \in [Downstreams -> Sink]
       /\ \A x \in Downstreams : got'[x] = got[x] \/ got'[x] = sent[x]
       /\ \A x \in Downstreams : Listed(x) /\ state[x] = "NORMAL" => got'[x] = sent[x]

MinTsEffect ==
    /\ TypeOK' /\ SentinelStep
    /\ status = "running" /\ min_ts # NoMinTs /\ min_ts.at <= delivered
    /\ resolver'.ready = resolver.ready /\ resolver'.locks = resolver.locks
    /\ resolver.resolved <= resolver'.resolved
    /\ resolver'.resolved = resolver.resolved \/
         /\ resolver.ready /\ resolver'.resolved <= min_ts.ts
         /\ \A t \in resolver.locks : resolver'.resolved <= start[t]
    /\ \A x \in Downstreams :
         /\ SameRows(x) /\ got'[x].error = got[x].error
         /\ got'[x].resolved = got[x].resolved \/ got'[x].resolved = resolver'.resolved
    /\ status' = "running" \/ (status' = "panicked" /\ Current = <<>>)
    /\ UNCHANGED <<delivered, region, waiting, locks, downstreams, state, snapshot>>

(* Sentinel::on_min_ts.                                                     *)
LEMMA MinTsShape ==
    ASSUME TypeOK, on_min_ts
    PROVE  MinTsEffect
  <1> DEFINE u == resolve(resolver, min_ts.ts)
             sent == [d \in Downstreams |-> [got[d] EXCEPT !.resolved = u.resolved]]
  <1>1. /\ status = "running"
        /\ min_ts # NoMinTs /\ min_ts.at <= delivered
        /\ min_ts' = NoMinTs
        /\ IF resolver.ready
           THEN resolver' = u /\ broadcast(sent, TRUE)
           ELSE UNCHANGED <<resolver, got, status>>
        /\ UNCHANGED <<ts, start, commit, log, delivered, region, waiting, locks,
                       downstreams, enabled, state, snapshot>>
    BY DEF on_min_ts, Advance
  <1>2. /\ resolver \in Resolver /\ min_ts.ts \in Ts /\ start \in [Txns -> Ts]
        /\ got \in [Downstreams -> Sink]
    BY DEF TypeOK, Resolver
  <1>3. Resolves(u, resolver, min_ts.ts)
    BY <1>2, ResolveShape
  <1> HIDE DEF u
  <1>4. u.resolved \in Ts
    BY <1>3 DEF Resolves, Resolver
  <1>5. \A x \in Downstreams : sent[x] \in Sink
    BY <1>2, <1>4 DEF Sink
  <1>6. \A x \in Downstreams :
          /\ sent[x].prewrite = got[x].prewrite /\ sent[x].commit = got[x].commit
          /\ sent[x].committed = got[x].committed /\ sent[x].initialized = got[x].initialized
          /\ sent[x].error = got[x].error /\ sent[x].resolved = u.resolved
    BY <1>2 DEF Sink
  <1> HIDE DEF sent
  <1>7. resolver' \in Resolver
    BY <1>1, <1>2, <1>3 DEF Resolves
  <1>8. NoMinTs \in [ts : Ts, at : 0 .. Len(log)]
    BY SentinelAssumption DEF NoMinTs, Ts, TypeOK
  <1>9. ASSUME got' \in [Downstreams -> Sink], status' \in {"running", "panicked"} PROVE TypeOK'
    BY <1>1, <1>7, <1>8, <1>9 DEF TypeOK, Resolver
  <1>10. CASE ~resolver.ready
    <2>1. resolver' = resolver /\ got' = got /\ status' = status
      BY <1>1, <1>10
    <2>2. TypeOK'
      BY <1>1, <1>2, <1>9, <2>1
    <2>3. resolver.resolved <= resolver.resolved
      BY <1>2 DEF Resolver, Ts
    <2>4. QED
      BY <1>1, <2>1, <2>2, <2>3 DEF MinTsEffect, SentinelStep, SameRows
  <1>11. CASE resolver.ready
    <2>1. resolver' = u /\ broadcast(sent, TRUE)
      BY <1>1, <1>11
    <2>2. /\ got' \in [Downstreams -> Sink]
          /\ \A x \in Downstreams : got'[x] = got[x] \/ got'[x] = sent[x]
          /\ status' = "running" \/ (status' = "panicked" /\ Current = <<>>)
      BY <1>1, <1>2, <1>5, <2>1 DEF broadcast, SendAll
    <2>3. \A x \in Downstreams :
            /\ SameRows(x) /\ got'[x].error = got[x].error
            /\ got'[x].resolved = got[x].resolved \/ got'[x].resolved = resolver'.resolved
      BY <1>6, <2>1, <2>2 DEF SameRows
    <2>4. TypeOK'
      BY <1>9, <2>2
    <2>5. QED
      BY <1>1, <1>3, <1>11, <2>1, <2>2, <2>3, <2>4 DEF MinTsEffect, SentinelStep, Resolves
  <1>12. QED
    BY <1>10, <1>11

\* What the sink of x got of the command c.
RowOf(x, c) ==
    /\ got[x].prewrite \subseteq got'[x].prewrite
    /\ got[x].commit \subseteq got'[x].commit
    /\ \A t \in got'[x].commit : t \in got[x].commit \/ (c.kind = "commit" /\ c.txn = t /\ t \notin Silent)
    /\ got'[x].committed = got[x].committed /\ got'[x].initialized = got[x].initialized
    /\ got'[x].resolved = got[x].resolved /\ got'[x].error = got[x].error
    /\ status' = "running" /\ Listed(x) /\ state[x] = "NORMAL" /\ c.txn \notin Silent =>
         /\ c.kind = "prewrite" => c.txn \in got'[x].prewrite
         /\ c.kind = "commit" => c.txn \in got'[x].commit

SinkDataEffect(c) ==
    /\ TypeOK' /\ SentinelStep
    /\ status = "running" /\ delivered < Len(log) /\ delivered' = delivered + 1
    /\ c = log[delivered + 1] /\ c \in PendingLock /\ c.kind # "fail"
    /\ \A x \in Downstreams : RowOf(x, c)
    /\ status' = "running" \/ (status' = "panicked" /\ Current = <<>>)
    /\ IF c.txn \in Silent THEN UNCHANGED <<resolver, locks>>
       ELSE IF resolver.ready THEN resolver' = Replay(resolver, c) /\ UNCHANGED locks
       ELSE locks' = Append(locks, c) /\ UNCHANGED resolver
    /\ UNCHANGED <<region, waiting, downstreams, state, snapshot>>

(* Sentinel::sink_data.                                                     *)
LEMMA SinkDataShape ==
    ASSUME TypeOK, sink_data
    PROVE  SinkDataEffect(log[delivered + 1])
  <1> DEFINE c == log[delivered + 1]
             rows == IF c.txn \in Silent THEN {} ELSE {c.txn}
             sent == [d \in Downstreams |->
                        CASE c.kind = "prewrite" -> [got[d] EXCEPT !.prewrite = @ \cup rows]
                          [] c.kind = "commit"   -> [got[d] EXCEPT !.commit = @ \cup rows]
                          [] c.kind = "rollback" -> got[d]]
  <1>1. /\ status = "running"
        /\ delivered < Len(log) /\ c.kind # "fail"
        /\ delivered' = delivered + 1
        /\ IF c.txn \in Silent THEN UNCHANGED <<resolver, locks>>
           ELSE IF resolver.ready THEN resolver' = Replay(resolver, c) /\ UNCHANGED locks
           ELSE locks' = Append(locks, c) /\ UNCHANGED resolver
        /\ broadcast(sent, TRUE)
        /\ UNCHANGED <<world, region, waiting, downstreams, enabled, state, snapshot>>
    BY DEF sink_data
  <1>2. c \in Command /\ delivered + 1 \in 0 .. Len(log) /\ got \in [Downstreams -> Sink]
    BY <1>1 DEF TypeOK
  <1> HIDE DEF c
  <1>3. c \in PendingLock /\ c.kind \in Kinds /\ c.txn \in Txns
    BY <1>1, <1>2 DEF Command, PendingLock
  <1>4. rows \in SUBSET Txns /\ (c.txn \notin Silent => c.txn \in rows)
        /\ \A t \in rows : t = c.txn /\ t \notin Silent
    BY <1>3
  <1> HIDE DEF rows
  <1>5. ASSUME NEW x \in Downstreams
        PROVE  /\ sent[x] \in Sink
               /\ sent[x].prewrite = got[x].prewrite \cup (IF c.kind = "prewrite" THEN rows ELSE {})
               /\ sent[x].commit = got[x].commit \cup (IF c.kind = "commit" THEN rows ELSE {})
               /\ sent[x].committed = got[x].committed /\ sent[x].initialized = got[x].initialized
               /\ sent[x].resolved = got[x].resolved /\ sent[x].error = got[x].error
    <2>1. got[x] \in Sink
      BY <1>2
    <2>2. CASE c.kind = "prewrite"
      <3>1. sent[x] = [got[x] EXCEPT !.prewrite = @ \cup rows]
        BY <2>2
      <3> HIDE DEF sent
      <3>2. QED
        BY <1>4, <2>1, <2>2, <3>1 DEF Sink
    <2>3. CASE c.kind = "commit"
      <3>1. sent[x] = [got[x] EXCEPT !.commit = @ \cup rows]
        BY <2>3
      <3> HIDE DEF sent
      <3>2. QED
        BY <1>4, <2>1, <2>3, <3>1 DEF Sink
    <2>4. CASE c.kind = "rollback"
      <3>1. sent[x] = got[x]
        BY <2>4
      <3> HIDE DEF sent
      <3>2. QED
        BY <2>1, <2>4, <3>1 DEF Sink
    <2>5. QED
      BY <1>3, <2>2, <2>3, <2>4 DEF Kinds
  <1> HIDE DEF sent
  <1>6. Broadcast(sent)
    <2>1. CASE Current = <<>>
      BY <1>1, <2>1 DEF broadcast, Broadcast
    <2>2. CASE Current # <<>>
      <3>1. status' = status /\ got' = SendAll(Reached(Current, TRUE), sent)
        BY <1>1, <2>2 DEF broadcast
      <3>2. got' \in [Downstreams -> Sink]
        BY <1>2, <1>5, <3>1 DEF SendAll
      <3>3. \A x \in Downstreams : got'[x] = got[x] \/ got'[x] = sent[x]
        BY <3>1 DEF SendAll
      <3>4. ASSUME NEW x \in Downstreams, Listed(x), state[x] = "NORMAL"
            PROVE  got'[x] = sent[x]
        <4>1. x \in Reached(Current, TRUE)
          BY <3>4 DEF Listed, Reached
        <4>2. QED
          BY <3>1, <4>1 DEF SendAll
      <3>5. QED
        BY <3>1, <3>2, <3>3, <3>4 DEF Broadcast
    <2>3. QED
      BY <2>1, <2>2
  <1>7. /\ got' \in [Downstreams -> Sink]
        /\ status' = "running" \/ (status' = "panicked" /\ Current = <<>>)
    BY <1>1, <1>2, <1>6 DEF Broadcast
  <1>8. ASSUME NEW x \in Downstreams PROVE RowOf(x, c)
    <2>1. CASE got'[x] = sent[x]
      BY <1>4, <1>5, <2>1 DEF RowOf
    <2>2. CASE got'[x] = got[x] /\ ~(status' = "running" /\ Listed(x) /\ state[x] = "NORMAL")
      BY <2>2 DEF RowOf
    <2>3. QED
      BY <1>1, <1>6, <2>1, <2>2 DEF Broadcast
  <1>9. /\ resolver' \in [ready : BOOLEAN, locks : SUBSET Txns, resolved : Ts]
        /\ locks' \in Seq([kind : Kinds, txn : Txns])
    <2>1. resolver \in [ready : BOOLEAN, locks : SUBSET Txns, resolved : Ts]
          /\ locks \in Seq([kind : Kinds, txn : Txns])
      BY DEF TypeOK
    <2>2. Replay(resolver, c) \in [ready : BOOLEAN, locks : SUBSET Txns, resolved : Ts]
      BY <1>3, <2>1 DEF Replay, track_lock, untrack_lock
    <2>3. Append(locks, c) \in Seq([kind : Kinds, txn : Txns])
      BY <1>3, <2>1 DEF PendingLock
    <2>4. QED
      BY <1>1, <2>1, <2>2, <2>3
  <1>10. TypeOK'
    <2>1. UNCHANGED <<ts, start, commit, log, min_ts, region, waiting, downstreams, enabled,
                      state, snapshot>>
      BY <1>1 DEF world
    <2>2. delivered' \in 0 .. Len(log)
      BY <1>1, <1>2
    <2>3. QED
      BY <1>7, <1>9, <2>1, <2>2 DEF TypeOK
  <1>11. SentinelStep
    BY <1>1 DEF SentinelStep, world
  <1>12. SinkDataEffect(c)
    BY <1>1, <1>3, <1>7, <1>8, <1>10, <1>11 DEF SinkDataEffect, c
  <1>13. QED
    BY <1>12 DEF c

StopEffect ==
    /\ TypeOK' /\ SentinelStep
    /\ status = "running"
    /\ status' = "dropped" \/ (status' = "panicked" /\ Current = <<>> /\ got' = got)
    /\ delivered <= delivered'
    /\ \A x \in Downstreams : SameRows(x) /\ got'[x].resolved = got[x].resolved
    /\ \A x \in Downstreams : state'[x] = "NORMAL" => state[x] = "NORMAL"
    /\ UNCHANGED <<region, locks, resolver, snapshot>>

(* Sentinel::stop.                                                          *)
LEMMA StopShape ==
    ASSUME TypeOK, stop
    PROVE  StopEffect
  <1> DEFINE sent == [d \in Downstreams |-> [got[d] EXCEPT !.error = TRUE]]
  <1>1. /\ status = "running"
        /\ delivered < Len(log)
        /\ delivered' = delivered + 1
        /\ enabled' = FALSE
        /\ state' = [d \in Downstreams |->
                       IF \E i \in 1 .. Len(downstreams) : downstreams[i] = d
                       THEN "STOPPED" ELSE state[d]]
        /\ IF Current = <<>> THEN status' = "panicked" /\ UNCHANGED got
           ELSE /\ got' = SendAll({ Current[i] : i \in 1 .. Len(Current) }, sent)
                /\ status' = "dropped"
        /\ UNCHANGED <<world, region, waiting, locks, downstreams, resolver, snapshot>>
    BY DEF stop
  <1>2. got \in [Downstreams -> Sink] /\ delivered' \in 0 .. Len(log) /\ delivered <= delivered'
    BY <1>1 DEF TypeOK
  <1>3. ASSUME NEW x \in Downstreams
        PROVE  /\ sent[x] \in Sink
               /\ sent[x].prewrite = got[x].prewrite /\ sent[x].commit = got[x].commit
               /\ sent[x].committed = got[x].committed /\ sent[x].initialized = got[x].initialized
               /\ sent[x].resolved = got[x].resolved
    BY <1>2 DEF Sink
  <1> HIDE DEF sent
  <1>4. /\ got' \in [Downstreams -> Sink]
        /\ \A x \in Downstreams : got'[x] = got[x] \/ got'[x] = sent[x]
    BY <1>1, <1>2, <1>3 DEF SendAll
  <1>5. \A x \in Downstreams : SameRows(x) /\ got'[x].resolved = got[x].resolved
    BY <1>3, <1>4 DEF SameRows
  <1>6. /\ state' \in [Downstreams -> {"UNINITIALIZED", "NORMAL", "STOPPED"}]
        /\ \A x \in Downstreams : state'[x] = "NORMAL" => state[x] = "NORMAL"
    BY <1>1 DEF TypeOK
  <1>7. TypeOK'
    <2>1. UNCHANGED <<ts, start, commit, log, min_ts, region, waiting, locks, downstreams,
                      resolver, snapshot>>
      BY <1>1 DEF world
    <2>2. enabled' \in BOOLEAN /\ status' \in {"none", "running", "dropped", "panicked"}
      BY <1>1
    <2>3. QED
      BY <1>2, <1>4, <1>6, <2>1, <2>2 DEF TypeOK
  <1>8. QED
    BY <1>1, <1>2, <1>5, <1>6, <1>7 DEF StopEffect, SentinelStep, world

\* Every step is one of these.
Effect ==
    \/ WorldStep /\ TypeOK' /\ (Region \/ SentinelStep)
    \/ \E d \in Downstreams : \/ NewEffect(d) \/ SubscribeEffect(d) \/ UnsubscribeEffect(d)
                              \/ InitializeEffect(d) \/ SearchEffect(d) \/ ReadyEffect(d)
    \/ MinTsEffect
    \/ \E c \in PendingLock : SinkDataEffect(c)
    \/ StopEffect

(* The steps of Next, by their effects.                                     *)
LEMMA StepEffect ==
    ASSUME TypeOK, LocksInv, [Next]_vars
    PROVE  Effect
  <1>1. CASE Region
    BY <1>1, RegionEffect DEF Effect
  <1>2. ASSUME NEW d \in Downstreams,
               \/ new(d) \/ subscribe(d) \/ unsubscribe(d)
               \/ initialize(d) \/ on_mutant_search(d) \/ on_region_ready(d)
        PROVE  \/ NewEffect(d) \/ SubscribeEffect(d) \/ UnsubscribeEffect(d)
               \/ InitializeEffect(d) \/ SearchEffect(d) \/ ReadyEffect(d)
    <2>1. CASE new(d)
      BY <2>1, NewShape
    <2>2. CASE subscribe(d)
      BY <2>2, SubscribeShape
    <2>3. CASE unsubscribe(d)
      BY <2>3, UnsubscribeShape
    <2>4. CASE initialize(d)
      BY <2>4, InitializeShape
    <2>5. CASE on_mutant_search(d)
      BY <2>5, SearchShape
    <2>6. CASE on_region_ready(d)
      <3>1. \A i \in 1 .. Len(locks) : locks[i].txn \notin Silent
        BY DEF LocksInv
      <3>2. QED
        BY <2>6, <3>1, ReadyShape
    <2>7. QED
      BY <1>2, <2>1, <2>2, <2>3, <2>4, <2>5, <2>6
  <1>3. CASE on_min_ts
    BY <1>3, MinTsShape DEF Effect
  <1>4. CASE sink_data
    <2>1. SinkDataEffect(log[delivered + 1])
      BY <1>4, SinkDataShape
    <2>2. log[delivered + 1] \in PendingLock
      BY <2>1 DEF SinkDataEffect
    <2>3. QED
      BY <2>1, <2>2 DEF Effect
  <1>5. CASE stop
    BY <1>5, StopShape DEF Effect
  <1>6. CASE UNCHANGED vars
    <2>1. UNCHANGED <<ts, start, commit, log, min_ts, delivered, region, waiting, locks,
                      downstreams, resolver, enabled, state, snapshot, got, status>>
      BY <1>6 DEF vars, world, sentinel
    <2>2. TypeOK'
      BY <2>1 DEF TypeOK
    <2>3. ts <= ts'
      BY <2>1, SentinelAssumption DEF TypeOK, Ts
    <2>4. WorldStep
      BY <2>1, <2>3 DEF WorldStep, Grow, sentinel
    <2>5. SentinelStep
      BY <2>1 DEF SentinelStep
    <2>6. QED
      BY <2>2, <2>4, <2>5 DEF Effect
  <1>7. QED
    <2>1. CASE \E d \in Downstreams :
                  \/ new(d) \/ subscribe(d) \/ unsubscribe(d)
                  \/ initialize(d) \/ on_mutant_search(d) \/ on_region_ready(d)
      BY <1>2, <2>1 DEF Effect
    <2>2. QED
      BY <1>1, <1>3, <1>4, <1>5, <1>6, <2>1 DEF Next

(* What every step does: it keeps the types, and the log only grows.        *)
LEMMA EffectTypes == TypeOK /\ Effect => TypeOK' /\ Grow
  <1> SUFFICES ASSUME TypeOK, Effect PROVE TypeOK' /\ Grow
    OBVIOUS
  <1>1. ASSUME SentinelStep PROVE Grow
    BY <1>1 DEF SentinelStep, Grow
  <1>2. QED
    BY <1>1 DEF Effect, WorldStep, NewEffect, SubscribeEffect, UnsubscribeEffect,
                InitializeEffect, SearchEffect, ReadyEffect, MinTsEffect, SinkDataEffect, StopEffect

-----------------------------------------------------------------------------
(* The region and its timestamps. *)

(* A new command keeps the discipline.                                      *)
LEMMA DisciplinedAppend ==
    ASSUME NEW l \in Seq(Command), Disciplined(l), NEW c \in Command,
           c.kind = "prewrite" => ~HasIn(l, "prewrite", Len(l), c.txn),
           c.kind \in {"commit", "rollback"} => c.txn \in LockedIn(l, Len(l))
    PROVE  Disciplined(Append(l, c))
  <1> DEFINE m == Append(l, c)
  <1>1. m \in Seq(Command) /\ Len(m) = Len(l) + 1 /\ Len(l) \in Nat /\ m[Len(l) + 1] = c
        /\ \A i \in 1 .. Len(l) : m[i] = l[i]
    OBVIOUS
  <1>2. \A n \in Int : n <= Len(l) =>
          (\A k, t : HasIn(m, k, n, t) <=> HasIn(l, k, n, t)) /\ LockedIn(m, n) = LockedIn(l, n)
    BY HasAppend, LockedAppend
  <1> HIDE DEF m
  <1>3. ASSUME NEW i \in 1 .. Len(m)
        PROVE  /\ m[i].kind = "prewrite" => ~HasIn(m, "prewrite", i - 1, m[i].txn)
               /\ m[i].kind \in {"commit", "rollback"} => m[i].txn \in LockedIn(m, i - 1)
    <2>1. i - 1 \in Int /\ i - 1 <= Len(l)
      BY <1>1
    <2>2. CASE i = Len(l) + 1
      <3>1. i - 1 = Len(l) /\ m[i] = c
        BY <1>1, <2>2
      <3>2. QED
        BY <1>2, <2>1, <3>1
    <2>3. CASE i # Len(l) + 1
      <3>1. i \in 1 .. Len(l) /\ m[i] = l[i]
        BY <1>1, <2>3
      <3>2. QED
        BY <1>2, <2>1, <3>1 DEF Disciplined
    <2>4. QED
      BY <2>2, <2>3
  <1>4. QED
    BY <1>3 DEF Disciplined, m

\* The timestamps of a transaction.
StampsOf(t) ==
    /\ start[t] <= ts
    /\ HasIn(log, "prewrite", Len(log), t) => start[t] # 0
    /\ commit[t] # 0 =>
         /\ HasIn(log, "prewrite", Len(log), t)
         /\ start[t] < commit[t] /\ commit[t] <= ts
         /\ commit[t] <= min_ts.ts => HasIn(log, "prewrite", min_ts.at, t)

(* The steps of the region.                                                 *)
LEMMA WorldRegion ==
    ASSUME TypeOK, WorldInv, Region
    PROVE  WorldInv'
  <1> USE SentinelAssumption
  <1>1. /\ ts \in Nat /\ log \in Seq(Command) /\ Len(log) \in Nat
        /\ min_ts.ts \in Nat /\ min_ts.at \in Nat /\ min_ts.at <= Len(log)
        /\ start \in [Txns -> Nat] /\ commit \in [Txns -> Nat]
    BY DEF TypeOK, Ts
  <1>2. Disciplined(log) /\ min_ts.ts <= ts /\ \A t \in Txns : StampsOf(t)
    BY DEF WorldInv, StampsOf
  <1>3. ASSUME Disciplined(log)', min_ts'.ts <= ts', \A t \in Txns : StampsOf(t)'
        PROVE  WorldInv'
    BY <1>3 DEF WorldInv, StampsOf
  <1>4. ASSUME NEW u \in Txns, draw_start(u) PROVE WorldInv'
    <2>1. /\ ts' = ts + 1 /\ commit' = commit /\ log' = log /\ min_ts' = min_ts /\ start[u] = 0
          /\ start'[u] = ts + 1 /\ \A t \in Txns : t # u => start'[t] = start[t]
      BY <1>1, <1>4 DEF draw_start
    <2>2. ASSUME NEW t \in Txns PROVE StampsOf(t)'
      <3>1. CASE t # u
        BY <1>1, <1>2, <2>1, <3>1 DEF StampsOf
      <3>2. CASE t = u
        <4>1. commit[t] = 0
          BY <1>1, <1>2, <2>1, <3>2 DEF StampsOf
        <4>2. QED
          BY <1>1, <1>2, <2>1, <3>2, <4>1 DEF StampsOf
      <3>3. QED
        BY <3>1, <3>2
    <2>3. QED
      BY <1>1, <1>2, <1>3, <2>1, <2>2
  <1>5. ASSUME NEW u \in Txns, draw_commit(u) PROVE WorldInv'
    <2>1. /\ ts' = ts + 1 /\ start' = start /\ log' = log /\ min_ts' = min_ts
          /\ commit'[u] = ts + 1 /\ \A t \in Txns : t # u => commit'[t] = commit[t]
      BY <1>1, <1>5 DEF draw_commit
    <2>2. HasIn(log, "prewrite", Len(log), u)
      BY <1>5, ReadsLog DEF draw_commit, LockedIn
    <2>3. ASSUME NEW t \in Txns PROVE StampsOf(t)'
      <3>1. CASE t # u
        BY <1>1, <1>2, <2>1, <3>1 DEF StampsOf
      <3>2. CASE t = u
        BY <1>1, <1>2, <2>1, <2>2, <3>2 DEF StampsOf
      <3>3. QED
        BY <3>1, <3>2
    <2>4. QED
      BY <1>1, <1>2, <1>3, <2>1, <2>3
  <1>6. ASSUME NEW c \in Command, log' = Append(log, c), UNCHANGED <<ts, start, commit, min_ts>>,
               c.kind = "prewrite" => start[c.txn] # 0 /\ ~HasIn(log, "prewrite", Len(log), c.txn),
               c.kind \in {"commit", "rollback"} => c.txn \in LockedIn(log, Len(log))
        PROVE  WorldInv'
    <2>1. Disciplined(log')
      BY <1>1, <1>2, <1>6, DisciplinedAppend
    <2>2. /\ Len(log') = Len(log) + 1 /\ log'[Len(log) + 1] = c
          /\ \A n \in Int : n <= Len(log) =>
               \A k, t : HasIn(log', k, n, t) <=> HasIn(log, k, n, t)
      BY <1>1, <1>6, HasAppend
    <2>3. ASSUME NEW t \in Txns PROVE StampsOf(t)'
      <3>1. HasIn(log', "prewrite", Len(log'), t)
            <=> HasIn(log, "prewrite", Len(log), t) \/ (c.kind = "prewrite" /\ c.txn = t)
        <4>1. HasIn(log', "prewrite", Len(log) + 1, t)
              <=> HasIn(log', "prewrite", Len(log), t) \/ (c.kind = "prewrite" /\ c.txn = t)
          BY <1>1, <2>2, HasStep
        <4>2. HasIn(log', "prewrite", Len(log), t) <=> HasIn(log, "prewrite", Len(log), t)
          BY <1>1, <2>2
        <4>3. QED
          BY <2>2, <4>1, <4>2
      <3>2. HasIn(log', "prewrite", min_ts.at, t) <=> HasIn(log, "prewrite", min_ts.at, t)
        BY <1>1, <2>2
      <3>3. QED
        BY <1>1, <1>2, <1>6, <3>1, <3>2 DEF StampsOf
    <2>4. QED
      BY <1>2, <1>3, <1>6, <2>1, <2>3
  <1>7. ASSUME NEW t \in Txns, NEW k \in Kinds, apply(k, t) PROVE WorldInv'
    <2> DEFINE c == [kind |-> k, txn |-> t]
    <2>1. c \in Command /\ c.kind = k /\ c.txn = t
      BY DEF Command
    <2>2. log' = Append(log, c) /\ UNCHANGED <<ts, start, commit, min_ts>>
      BY <1>7 DEF apply
    <2>3. /\ k = "prewrite" => start[t] # 0 /\ ~HasIn(log, "prewrite", Len(log), t)
          /\ k \in {"commit", "rollback"} => t \in LockedIn(log, Len(log))
      BY <1>7, ReadsLog DEF apply
    <2> HIDE DEF c
    <2>4. QED
      BY <1>6, <2>1, <2>2, <2>3
  <1>8. ASSUME apply_fail PROVE WorldInv'
    <2> DEFINE c == [kind |-> "fail"]
    <2>1. c \in Command /\ c.kind = "fail" /\ log' = Append(log, c)
          /\ UNCHANGED <<ts, start, commit, min_ts>>
      BY <1>8 DEF Command, apply_fail
    <2> HIDE DEF c
    <2>2. QED
      BY <1>6, <2>1
  <1>9. ASSUME draw_min_ts PROVE WorldInv'
    <2>1. /\ ts' = ts + 1 /\ start' = start /\ log' = log /\ commit' = commit
          /\ min_ts'.ts = ts + 1 /\ min_ts'.at = Len(log)
      BY <1>9 DEF draw_min_ts
    <2>2. \A t \in Txns : StampsOf(t)'
      BY <1>1, <1>2, <2>1 DEF StampsOf
    <2>3. QED
      BY <1>1, <1>2, <1>3, <2>1, <2>2
  <1>10. QED
    BY <1>4, <1>5, <1>7, <1>8, <1>9 DEF Region

(* The steps of the Sentinel leave the region alone.                        *)
LEMMA WorldSentinel ==
    ASSUME TypeOK, WorldInv, SentinelStep
    PROVE  WorldInv'
  <1>1. CASE min_ts' = min_ts
    BY <1>1 DEF WorldInv, SentinelStep
  <1>2. CASE min_ts' = NoMinTs
    <2>1. min_ts'.ts = 0 /\ ts \in Nat /\ commit \in [Txns -> Nat]
      BY <1>2, SentinelAssumption DEF NoMinTs, TypeOK, Ts
    <2>2. \A t \in Txns : commit[t] # 0 => ~(commit[t] <= min_ts'.ts)
      BY <2>1
    <2>3. UNCHANGED <<ts, start, commit, log>> /\ min_ts'.ts <= ts
      BY <2>1 DEF SentinelStep
    <2>4. QED
      BY <2>2, <2>3 DEF WorldInv
  <1>3. QED
    BY <1>1, <1>2 DEF SentinelStep

(* Every step keeps WorldInv.                                               *)
LEMMA WorldKept == TypeOK /\ WorldInv /\ Effect => WorldInv'
  <1> SUFFICES ASSUME TypeOK, WorldInv, Effect PROVE WorldInv'
    OBVIOUS
  <1>1. CASE Region
    BY <1>1, WorldRegion
  <1>2. CASE SentinelStep
    BY <1>2, WorldSentinel
  <1>3. QED
    BY <1>1, <1>2 DEF Effect, NewEffect, SubscribeEffect, UnsubscribeEffect,
                InitializeEffect, SearchEffect, ReadyEffect, MinTsEffect, SinkDataEffect, StopEffect

-----------------------------------------------------------------------------
(* The stages of a Sentinel and of its downstreams. *)

\* The parts of StageInv.
FreshStage ==
    status = "none" =>
      /\ ~region /\ waiting = <<>> /\ downstreams = <<>> /\ locks = <<>>
      /\ \A d \in Downstreams : state[d] = "UNINITIALIZED" /\ ~Taken(d)
ScanStage(d) == state[d] = "NORMAL" \/ got[d].initialized => Taken(d)
ResolverStage ==
    /\ region = resolver.ready
    /\ resolver.ready => \E d \in Downstreams : Taken(d)
    /\ ~resolver.ready => resolver.resolved = 0
    /\ resolver.resolved <= ts

(* StageInv is the conjunction of its parts.                                *)
LEMMA StageParts ==
    StageInv <=> FreshStage /\ (\A d \in Downstreams : ScanStage(d)) /\ ResolverStage
  BY DEF StageInv, FreshStage, ScanStage, ResolverStage

(* Every step keeps StageInv.                                               *)
LEMMA StageKept ==
    ASSUME TypeOK, WorldInv, StageInv, Effect
    PROVE  StageInv'
  <1> USE SentinelAssumption
  <1>1. FreshStage /\ (\A d \in Downstreams : ScanStage(d)) /\ ResolverStage
    BY StageParts
  <1>2. ASSUME FreshStage', \A d \in Downstreams : ScanStage(d)', ResolverStage'
        PROVE  StageInv'
    BY <1>2 DEF StageInv, FreshStage, ScanStage, ResolverStage
  <1>3. /\ ts \in Nat /\ resolver.resolved \in Nat /\ resolver.ready \in BOOLEAN
        /\ min_ts.ts <= ts /\ min_ts.ts \in Nat
    BY DEF TypeOK, Ts, WorldInv
  <1>4. ASSUME WorldStep, TypeOK' PROVE StageInv'
    <2>1. /\ ts <= ts' /\ ts' \in Nat
          /\ UNCHANGED <<region, waiting, locks, downstreams, resolver, state, snapshot, got, status>>
      BY <1>4 DEF WorldStep, sentinel, TypeOK, Ts
    <2>2. QED
      BY <1>1, <1>2, <1>3, <2>1 DEF FreshStage, ScanStage, ResolverStage, Taken
  <1>5. ASSUME SentinelStep, UNCHANGED <<region, resolver, snapshot>>, status' # "none",
               \A x \in Downstreams : state'[x] = "NORMAL" \/ got'[x].initialized
                                      => state[x] = "NORMAL" \/ got[x].initialized
        PROVE  StageInv'
    <2>1. FreshStage' /\ \A x \in Downstreams : ScanStage(x)'
      BY <1>1, <1>5 DEF FreshStage, ScanStage, Taken
    <2>2. ResolverStage'
      BY <1>1, <1>5 DEF ResolverStage, Taken, SentinelStep
    <2>3. QED
      BY <1>2, <2>1, <2>2
  <1>6. ASSUME NEW d \in Downstreams, NewEffect(d) PROVE StageInv'
    BY <1>5, <1>6 DEF NewEffect
  <1>7. ASSUME NEW d \in Downstreams, SubscribeEffect(d) PROVE StageInv'
    BY <1>5, <1>7 DEF SubscribeEffect, SameRows
  <1>8. ASSUME NEW d \in Downstreams, UnsubscribeEffect(d) PROVE StageInv'
    BY <1>5, <1>8 DEF UnsubscribeEffect
  <1>9. ASSUME NEW d \in Downstreams, InitializeEffect(d) PROVE StageInv'
    <2>1. /\ UNCHANGED <<region, waiting, locks, downstreams, resolver, got, status>>
          /\ Listed(d) /\ snapshot'[d] # NoScan /\ ts' = ts
          /\ \A x \in Downstreams : x # d => snapshot'[x] = snapshot[x] /\ state'[x] = state[x]
      BY <1>9 DEF InitializeEffect, SentinelStep, sentinel, TypeOK, NoScan
    <2>2. status # "none"
      BY <1>1, <2>1 DEF FreshStage, Listed, Current
    <2>3. \A x \in Downstreams : Taken(x) => Taken(x)'
      BY <2>1 DEF Taken
    <2>4. FreshStage' /\ ResolverStage'
      BY <1>1, <2>1, <2>2, <2>3 DEF FreshStage, ResolverStage
    <2>5. \A x \in Downstreams : ScanStage(x)'
      BY <1>1, <2>1 DEF ScanStage, Taken
    <2>6. QED
      BY <1>2, <2>4, <2>5
  <1>10. ASSUME NEW d \in Downstreams, SearchEffect(d) PROVE StageInv'
    <2>1. /\ UNCHANGED <<region, waiting, locks, downstreams, resolver, state, snapshot, status>>
          /\ status # "none" /\ Taken(d) /\ ts' = ts
          /\ \A x \in Downstreams : x # d => got'[x] = got[x]
      BY <1>10 DEF SearchEffect, SentinelStep, sentinel
    <2>2. FreshStage' /\ ResolverStage' /\ \A x \in Downstreams : ScanStage(x)'
      BY <1>1, <2>1 DEF FreshStage, ResolverStage, ScanStage, Taken
    <2>3. QED
      BY <1>2, <2>2
  <1>11. ASSUME NEW d \in Downstreams, ReadyEffect(d) PROVE StageInv'
    <2>1. /\ status' # "none" /\ Taken(d) /\ ts' = ts /\ region' = TRUE
          /\ UNCHANGED <<state, snapshot>>
          /\ \A x \in Downstreams : got'[x].initialized = got[x].initialized
      BY <1>11 DEF ReadyEffect, SentinelStep, First, SameRows, TypeOK
    <2>2. resolver'.ready = TRUE /\ resolver'.resolved = 0
      BY <1>11 DEF ReadyEffect, Replayed, Built
    <2>3. ResolverStage'
      <3>1. region' = resolver'.ready
        BY <2>1, <2>2
      <3>2. \E x \in Downstreams : Taken(x)'
        BY <2>1 DEF Taken
      <3>3. resolver'.resolved = 0 /\ resolver'.resolved <= ts'
        BY <1>3, <2>1, <2>2
      <3>4. QED
        BY <3>1, <3>2, <3>3 DEF ResolverStage
    <2>4. FreshStage' /\ \A x \in Downstreams : ScanStage(x)'
      BY <1>1, <2>1 DEF FreshStage, ScanStage, Taken
    <2>5. QED
      BY <1>2, <2>3, <2>4
  <1>12. ASSUME MinTsEffect PROVE StageInv'
    <2>1. /\ UNCHANGED <<region, snapshot, state>> /\ status' # "none" /\ ts' = ts
          /\ resolver'.ready = resolver.ready
          /\ resolver'.resolved = resolver.resolved
             \/ (resolver.ready /\ resolver'.resolved <= min_ts.ts)
          /\ \A x \in Downstreams : got'[x].initialized = got[x].initialized
          /\ resolver'.resolved \in Nat
      BY <1>12 DEF MinTsEffect, SentinelStep, SameRows, TypeOK, Ts
    <2>2. FreshStage' /\ \A x \in Downstreams : ScanStage(x)'
      BY <1>1, <2>1 DEF FreshStage, ScanStage, Taken
    <2>3. ResolverStage'
      BY <1>1, <1>3, <2>1 DEF ResolverStage, Taken
    <2>4. QED
      BY <1>2, <2>2, <2>3
  <1>13. ASSUME NEW c \in PendingLock, SinkDataEffect(c) PROVE StageInv'
    <2>1. /\ UNCHANGED <<region, snapshot, state>> /\ status' # "none" /\ ts' = ts
          /\ \A x \in Downstreams : got'[x].initialized = got[x].initialized
      BY <1>13 DEF SinkDataEffect, SentinelStep, RowOf
    <2>2. resolver'.ready = resolver.ready /\ resolver'.resolved = resolver.resolved
      <3>1. resolver' = resolver \/ resolver' = Replay(resolver, c)
        BY <1>13 DEF SinkDataEffect
      <3>2. QED
        BY <3>1 DEF Replay, track_lock, untrack_lock, TypeOK
    <2>3. FreshStage' /\ ResolverStage' /\ \A x \in Downstreams : ScanStage(x)'
      BY <1>1, <2>1, <2>2 DEF FreshStage, ScanStage, ResolverStage, Taken
    <2>4. QED
      BY <1>2, <2>3
  <1>14. ASSUME StopEffect PROVE StageInv'
    BY <1>5, <1>14 DEF StopEffect, SameRows
  <1>15. QED
    BY <1>4, <1>6, <1>7, <1>8, <1>9, <1>10, <1>11, <1>12, <1>13, <1>14 DEF Effect

-----------------------------------------------------------------------------
(* The sinks. *)

\* A step that adds no row to the sink of d.
SinkFrame(d) ==
    /\ SameRows(d)
    /\ snapshot'[d] = snapshot[d] /\ delivered <= delivered'
    /\ Followed(d)' => Followed(d) /\ delivered' = delivered
    /\ got'[d].resolved <= resolver'.resolved

(* Such a step keeps what is known of its sink.                             *)
LEMMA SinkFramed ==
    ASSUME TypeOK, TypeOK', Grow, NEW d \in Downstreams, SinkOK(d), SinkFrame(d)
    PROVE  SinkOK(d)'
  <1>1. /\ log \in Seq(Command) /\ delivered \in Int /\ delivered <= Len(log)
        /\ snapshot[d] \in Int /\ snapshot[d] <= Len(log) /\ delivered' \in Int
    <2>1. /\ log \in Seq(Command) /\ Len(log) \in Nat /\ delivered \in 0 .. Len(log)
          /\ snapshot[d] \in {NoScan} \cup 0 .. Len(log) /\ delivered' \in 0 .. Len(log')
          /\ Len(log') \in Nat
      BY DEF TypeOK
    <2>2. QED
      BY <2>1 DEF NoScan
  <1>2. /\ \A k, t : HasIn(log', k, delivered, t) <=> HasIn(log, k, delivered, t)
        /\ \A k, t : HasIn(log', k, snapshot[d], t) <=> HasIn(log, k, snapshot[d], t)
        /\ LockedIn(log', snapshot[d]) = LockedIn(log, snapshot[d])
    BY <1>1, GrowKeeps
  <1>3. CommitsDelivered(d)'
    <2>1. ASSUME NEW t, t \in got'[d].commit
          PROVE  t \notin Silent /\ HasIn(log', "commit", delivered', t)
      <3>1. t \notin Silent /\ HasIn(log', "commit", delivered, t)
        BY <1>2, <2>1 DEF SinkOK, CommitsDelivered, SinkFrame, SameRows
      <3>2. QED
        BY <1>1, <3>1, HasMono DEF SinkFrame
    <2>2. QED
      BY <2>1 DEF CommitsDelivered
  <1>4. Scanned(d)'
    BY <1>2 DEF SinkOK, Scanned, SinkFrame, SameRows
  <1>5. Caught(d)'
    <2> SUFFICES ASSUME Followed(d)' PROVE Caught(d)'
      BY DEF Caught
    <2>1. Followed(d) /\ delivered' = delivered
      BY DEF SinkFrame
    <2>2. QED
      BY <1>2, <2>1 DEF SinkOK, Caught, SinkFrame, SameRows
  <1>6. QED
    BY <1>3, <1>4, <1>5 DEF SinkOK, SinkFrame

(* Every step keeps SinkInv.                                                *)
LEMMA SinkKept ==
    ASSUME TypeOK, WorldInv, StageInv, SinkInv, Effect
    PROVE  SinkInv'
  <1>1. TypeOK' /\ Grow
    BY EffectTypes
  <1>2. \A d \in Downstreams : SinkOK(d)
    BY DEF SinkInv
  <1>3. ASSUME \A x \in Downstreams : SinkFrame(x) PROVE SinkInv'
    BY <1>1, <1>2, <1>3, SinkFramed DEF SinkInv
  <1>4. /\ log \in Seq(Command) /\ Len(log) \in Nat /\ delivered \in Nat /\ delivered <= Len(log)
        /\ \A x \in Downstreams : snapshot[x] \in Int /\ snapshot[x] <= Len(log)
        /\ \A x \in Downstreams : got[x].resolved \in Nat
        /\ resolver.resolved \in Nat
    <2>1. /\ log \in Seq(Command) /\ Len(log) \in Nat /\ delivered \in 0 .. Len(log)
          /\ snapshot \in [Downstreams -> {NoScan} \cup 0 .. Len(log)]
      BY DEF TypeOK
    <2>2. /\ \A x \in Downstreams : got[x].resolved \in Nat
          /\ resolver.resolved \in Nat
      BY SentinelAssumption DEF TypeOK, Sink, Ts
    <2>3. QED
      BY <2>1, <2>2 DEF NoScan
  <1>5. \A x \in Downstreams : got[x].resolved <= resolver.resolved
    BY <1>2 DEF SinkOK
  <1>6. CASE WorldStep
    <2>1. UNCHANGED <<delivered, region, waiting, downstreams, resolver, state, snapshot, got, status>>
      BY <1>6 DEF WorldStep, sentinel
    <2>2. \A x \in Downstreams : Followed(x)' => Followed(x)
      BY <2>1 DEF Followed, Listed, Current
    <2>3. \A x \in Downstreams : SinkFrame(x)
      BY <1>4, <1>5, <2>1, <2>2 DEF SinkFrame, SameRows
    <2>4. QED
      BY <1>3, <2>3
  <1>7. ASSUME NEW d \in Downstreams, NewEffect(d) PROVE SinkInv'
    <2>1. \A x \in Downstreams : state'[x] # "NORMAL"
      BY <1>7 DEF NewEffect, StageInv
    <2>2. \A x \in Downstreams : SinkFrame(x)
      BY <1>4, <1>5, <1>7, <2>1 DEF NewEffect, SinkFrame, SameRows, Followed
    <2>3. QED
      BY <1>3, <2>2
  <1>8. ASSUME NEW d \in Downstreams, SubscribeEffect(d) PROVE SinkInv'
    <2>1. \A x \in Downstreams : Followed(x)' => Followed(x)
      BY <1>8 DEF SubscribeEffect, Followed
    <2>2. \A x \in Downstreams : SinkFrame(x)
      BY <1>4, <1>5, <1>8, <2>1 DEF SubscribeEffect, SinkFrame
    <2>3. QED
      BY <1>3, <2>2
  <1>9. ASSUME NEW d \in Downstreams, UnsubscribeEffect(d) PROVE SinkInv'
    <2>1. \A x \in Downstreams : Followed(x)' => Followed(x)
      BY <1>9 DEF UnsubscribeEffect, Followed
    <2>2. \A x \in Downstreams : SinkFrame(x)
      BY <1>4, <1>5, <1>9, <2>1 DEF UnsubscribeEffect, SinkFrame, SameRows
    <2>3. QED
      BY <1>3, <2>2
  <1>10. ASSUME NEW d \in Downstreams, InitializeEffect(d) PROVE SinkInv'
    <2>1. /\ UNCHANGED <<log, delivered, region, waiting, downstreams, resolver, got, status>>
          /\ snapshot'[d] = Len(log) /\ ~Taken(d)
          /\ \A x \in Downstreams : x # d => snapshot'[x] = snapshot[x] /\ state'[x] = state[x]
      BY <1>10 DEF InitializeEffect, SentinelStep, sentinel
    <2>2. ASSUME NEW x \in Downstreams, x # d PROVE SinkOK(x)'
      <3>1. Followed(x)' => Followed(x)
        BY <2>1, <2>2 DEF Followed, Listed, Current
      <3>2. SinkFrame(x)
        BY <1>4, <1>5, <2>1, <2>2, <3>1 DEF SinkFrame, SameRows
      <3>3. QED
        BY <1>1, <1>2, <3>2, SinkFramed
    <2>3. SinkOK(d)'
      <3>1. ~got[d].initialized
        BY <2>1 DEF StageInv
      <3>2. CommitsDelivered(d)' /\ Scanned(d)'
        BY <1>2, <2>1, <3>1 DEF SinkOK, CommitsDelivered, Scanned
      <3>3. \A k, t : HasIn(log, k, delivered, t) => HasIn(log, k, Len(log), t)
        BY <1>4, HasMono
      <3>4. Caught(d)'
        BY <2>1, <3>3 DEF Caught
      <3>5. QED
        BY <1>5, <2>1, <3>2, <3>4 DEF SinkOK
    <2>4. QED
      BY <2>2, <2>3 DEF SinkInv
  <1>11. ASSUME NEW d \in Downstreams, SearchEffect(d) PROVE SinkInv'
    <2>1. UNCHANGED <<log, delivered, region, waiting, downstreams, resolver, state, snapshot, status>>
      BY <1>11 DEF SearchEffect, SentinelStep, sentinel
    <2>2. \A x \in Downstreams : Followed(x)' => Followed(x)
      BY <2>1 DEF Followed, Listed, Current
    <2>3. ASSUME NEW x \in Downstreams, x # d PROVE SinkOK(x)'
      <3>1. got'[x] = got[x]
        BY <1>11, <2>3 DEF SearchEffect
      <3>2. SinkFrame(x)
        BY <1>4, <1>5, <2>1, <2>2, <3>1 DEF SinkFrame, SameRows
      <3>3. QED
        BY <1>1, <1>2, <3>2, SinkFramed
    <2>4. SinkOK(d)'
      <3>1. CommitsDelivered(d)'
        BY <1>2, <1>11, <2>1 DEF SinkOK, CommitsDelivered, SearchEffect
      <3>2. Scanned(d)'
        BY <1>11, <2>1 DEF Scanned, SearchEffect
      <3>3. Caught(d)'
        BY <1>2, <1>11, <2>1, <2>2 DEF SinkOK, Caught, SearchEffect
      <3>4. QED
        BY <1>5, <1>11, <2>1, <3>1, <3>2, <3>3 DEF SinkOK, SearchEffect
    <2>5. QED
      BY <2>3, <2>4 DEF SinkInv
  <1>12. ASSUME NEW d \in Downstreams, ReadyEffect(d) PROVE SinkInv'
    <2>1. ~region
      BY <1>12 DEF StageInv, ReadyEffect
    <2>2. \A x \in Downstreams : Listed(x)' => Listed(x)
      BY <1>12, <2>1 DEF ReadyEffect, Listed, Current
    <2>3. \A x \in Downstreams : Followed(x)' => Followed(x)
      BY <1>12, <2>2 DEF ReadyEffect, Followed
    <2>4. resolver.resolved = 0 /\ resolver'.resolved = 0
      BY <1>12 DEF StageInv, ReadyEffect, Replayed, Built
    <2>5. \A x \in Downstreams : SinkFrame(x)
      BY <1>4, <1>5, <1>12, <2>3, <2>4 DEF ReadyEffect, SinkFrame
    <2>6. QED
      BY <1>3, <2>5
  <1>13. ASSUME MinTsEffect PROVE SinkInv'
    <2>1. /\ UNCHANGED <<delivered, region, waiting, downstreams, state, snapshot>>
          /\ status = "running"
          /\ \A x \in Downstreams : SameRows(x)
      BY <1>13 DEF MinTsEffect
    <2>2. \A x \in Downstreams : Followed(x)' => Followed(x)
      BY <2>1 DEF Followed, Listed, Current
    <2>3. resolver'.resolved \in Nat /\ resolver.resolved <= resolver'.resolved
      BY <1>1, <1>13, SentinelAssumption DEF MinTsEffect, TypeOK, Ts
    <2>4. \A x \in Downstreams : got'[x].resolved <= resolver'.resolved
      BY <1>4, <1>5, <1>13, <2>3 DEF MinTsEffect
    <2>5. \A x \in Downstreams : SinkFrame(x)
      BY <1>4, <2>1, <2>2, <2>4 DEF SinkFrame
    <2>6. QED
      BY <1>3, <2>5
  <1>14. ASSUME NEW c \in PendingLock, SinkDataEffect(c) PROVE SinkInv'
    <2>1. /\ UNCHANGED <<log, region, waiting, downstreams, state, snapshot>>
          /\ delivered' = delivered + 1 /\ status = "running" /\ c = log[delivered + 1]
      BY <1>14 DEF SinkDataEffect, SentinelStep
    <2>2. \A k, t : HasIn(log, k, delivered + 1, t)
                    <=> HasIn(log, k, delivered, t) \/ (c.kind = k /\ c.txn = t)
      BY <1>4, <2>1, HasStep
    <2>3. resolver'.resolved = resolver.resolved
      <3>1. resolver' = resolver \/ resolver' = Replay(resolver, c)
        BY <1>14 DEF SinkDataEffect
      <3>2. QED
        BY <3>1 DEF Replay, track_lock, untrack_lock, TypeOK
    <2>4. ASSUME NEW x \in Downstreams PROVE SinkOK(x)'
      <3>1. RowOf(x, c)
        BY <1>14 DEF SinkDataEffect
      <3>2. CommitsDelivered(x)'
        BY <1>2, <2>1, <2>2, <3>1 DEF SinkOK, CommitsDelivered, RowOf
      <3>3. Scanned(x)'
        BY <1>2, <2>1, <3>1 DEF SinkOK, Scanned, RowOf
      <3>4. Caught(x)'
        <4> SUFFICES ASSUME Followed(x)' PROVE Caught(x)'
          BY DEF Caught
        <4>1. Followed(x) /\ status' = "running" /\ Listed(x) /\ state[x] = "NORMAL"
          BY <2>1 DEF Followed, Listed, Current
        <4>2. QED
          BY <1>2, <2>1, <2>2, <3>1, <4>1 DEF SinkOK, Caught, RowOf
      <3>5. got'[x].resolved <= resolver'.resolved
        BY <1>5, <2>3, <3>1 DEF RowOf
      <3>6. QED
        BY <3>2, <3>3, <3>4, <3>5 DEF SinkOK
    <2>5. QED
      BY <2>4 DEF SinkInv
  <1>15. ASSUME StopEffect PROVE SinkInv'
    <2>1. \A x \in Downstreams : ~Followed(x)'
      BY <1>15 DEF StopEffect, Followed
    <2>2. \A x \in Downstreams : SinkFrame(x)
      BY <1>4, <1>5, <1>15, <2>1 DEF StopEffect, SinkFrame
    <2>3. QED
      BY <1>3, <2>2
  <1>16. QED
    BY <1>6, <1>7, <1>8, <1>9, <1>10, <1>11, <1>12, <1>13, <1>14, <1>15 DEF Effect

-----------------------------------------------------------------------------
(* The locks. *)

(* The types that the arguments about positions in the log need.            *)
LEMMA Positions ==
    ASSUME TypeOK
    PROVE  /\ log \in Seq(Command) /\ Len(log) \in Nat /\ delivered \in Nat /\ delivered <= Len(log)
           /\ \A x \in Downstreams : snapshot[x] \in Int /\ snapshot[x] <= Len(log)
  <1>1. /\ log \in Seq(Command) /\ Len(log) \in Nat /\ delivered \in 0 .. Len(log)
        /\ snapshot \in [Downstreams -> {NoScan} \cup 0 .. Len(log)]
    BY DEF TypeOK
  <1>2. QED
    BY <1>1 DEF NoScan

\* A step that leaves the locks and what was delivered to a Sentinel that runs.
LocksFrame ==
    /\ resolver'.locks = resolver.locks /\ resolver'.ready = resolver.ready
    /\ locks' = locks /\ snapshot' = snapshot
    /\ status' = "running" => status = "running" /\ delivered' = delivered

(* Such a step keeps LocksInv.                                              *)
LEMMA LocksFramed ==
    ASSUME TypeOK, Grow, LocksInv, LocksFrame
    PROVE  LocksInv'
  <1>1. /\ delivered \in Int /\ delivered <= Len(log)
        /\ \A x \in Downstreams : snapshot[x] \in Int /\ snapshot[x] <= Len(log)
    BY Positions
  <1>2. /\ LockedIn(log', delivered) = LockedIn(log, delivered)
        /\ \A x \in Downstreams : LockedIn(log', snapshot[x]) = LockedIn(log, snapshot[x])
    BY <1>1, GrowKeeps DEF TypeOK
  <1>3. ASSUME status' = "running", ~resolver'.ready, NEW t \in Txns \ Silent
        PROVE  PendingFor(t)'
    <2>1. PendingFor(t) /\ delivered' = delivered
      BY <1>3 DEF LocksInv, LocksFrame
    <2>2. QED
      BY <1>2, <2>1 DEF PendingFor, LastFor, LocksFrame, Taken
  <1>4. ASSUME status' = "running", resolver'.ready, NEW d \in Downstreams, First(d)',
               NEW t \in Txns \ Silent
        PROVE  TrackedFor(d, t)'
    <2>1. First(d)
      BY <1>4 DEF First, Taken, LocksFrame
    <2>2. TrackedFor(d, t) /\ delivered' = delivered
      BY <1>4, <2>1 DEF LocksInv, LocksFrame
    <2>3. QED
      BY <1>2, <2>2 DEF TrackedFor, LocksFrame
  <1>5. /\ resolver'.locks \cap Silent = {}
        /\ \A i \in 1 .. Len(locks') : locks'[i].txn \notin Silent
    BY DEF LocksInv, LocksFrame
  <1>6. QED
    BY <1>3, <1>4, <1>5 DEF LocksInv

(* A scan takes its snapshot.                                               *)
LEMMA LocksInitialize ==
    ASSUME TypeOK, StageInv, LocksInv, NEW d \in Downstreams, InitializeEffect(d)
    PROVE  LocksInv'
  <1>1. /\ UNCHANGED <<log, delivered, locks, resolver, status>>
        /\ snapshot'[d] = Len(log) /\ ~Taken(d)
        /\ \A x \in Downstreams : x # d => snapshot'[x] = snapshot[x]
    BY DEF InitializeEffect, SentinelStep, sentinel
  <1>2. /\ Len(log) \in Nat /\ delivered \in Nat /\ delivered <= Len(log)
        /\ \A x \in Downstreams : snapshot[x] \in Int /\ snapshot[x] <= Len(log)
    BY Positions
  <1>3. Taken(d)' /\ \A x \in Downstreams : x # d => (Taken(x)' <=> Taken(x))
    BY <1>1, <1>2 DEF Taken, NoScan
  <1>4. ASSUME status = "running", ~resolver.ready, NEW t \in Txns \ Silent
        PROVE  PendingFor(t)'
    <2>1. PendingFor(t)
      BY <1>4 DEF LocksInv
    <2>2. snapshot'[d] <= delivered => snapshot'[d] = delivered
      BY <1>1, <1>2
    <2>3. \A x \in Downstreams : Taken(x)' /\ x # d => Taken(x) /\ snapshot'[x] = snapshot[x]
      BY <1>1, <1>3
    <2>4. QED
      BY <1>1, <2>1, <2>2, <2>3 DEF PendingFor, LastFor
  <1>5. ASSUME status = "running", resolver.ready, NEW x \in Downstreams, First(x)',
               NEW t \in Txns \ Silent
        PROVE  TrackedFor(x, t)'
    <2>1. PICK e \in Downstreams : First(e) /\ snapshot'[x] = snapshot[e]
      <3>1. CASE x # d
        <4>1. \A y \in Downstreams : Taken(y) => y # d
          BY <1>1
        <4>2. First(x)
          BY <1>1, <1>3, <1>5, <3>1, <4>1 DEF First
        <4>3. QED
          BY <1>1, <3>1, <4>2
      <3>2. CASE x = d
        <4>1. PICK e \in Downstreams : Taken(e)
          BY <1>5 DEF StageInv
        <4>2. \A y \in Downstreams : Taken(y) => snapshot[y] = Len(log)
          <5>1. ASSUME NEW y \in Downstreams, Taken(y) PROVE snapshot[y] = Len(log)
            <6>1. y # d /\ Taken(y)' /\ snapshot'[y] = snapshot[y]
              BY <1>1, <1>3, <5>1
            <6>2. snapshot'[d] <= snapshot'[y]
              BY <1>5, <3>2, <6>1 DEF First
            <6>3. QED
              BY <1>1, <1>2, <6>1, <6>2
          <5>2. QED
            BY <5>1
        <4>3. First(e)
          BY <1>2, <4>1, <4>2 DEF First
        <4>4. QED
          BY <1>1, <3>2, <4>1, <4>2, <4>3
      <3>3. QED
        BY <3>1, <3>2
    <2>2. TrackedFor(e, t)
      BY <1>5, <2>1 DEF LocksInv
    <2>3. QED
      BY <1>1, <2>1, <2>2 DEF TrackedFor
  <1>6. QED
    BY <1>1, <1>4, <1>5 DEF LocksInv

(* The Resolver is handed over.                                             *)
LEMMA LocksReady ==
    ASSUME TypeOK, LocksInv, NEW d \in Downstreams, ReadyEffect(d)
    PROVE  LocksInv'
  <1>1. /\ UNCHANGED <<log, delivered, snapshot, status>> /\ locks' = <<>>
        /\ status = "running" /\ First(d) /\ ~resolver.ready
        /\ Replayed(resolver', Built(d), locks, Len(locks))
    BY DEF ReadyEffect, SentinelStep
  <1>2. /\ delivered \in Nat /\ locks \in Seq(PendingLock) /\ Len(locks) \in Nat
        /\ \A x \in Downstreams : snapshot[x] \in Int /\ snapshot[x] <= Len(log)
    BY Positions DEF TypeOK, PendingLock
  <1>3. resolver'.locks \cap Silent = {} /\ resolver'.ready = TRUE
    BY <1>1 DEF Replayed, Built
  <1>4. ASSUME NEW x \in Downstreams, First(x)', NEW t \in Txns \ Silent
        PROVE  TrackedFor(x, t)'
    <2>1. First(x)
      BY <1>1, <1>4 DEF First, Taken
    <2>2. snapshot[x] = snapshot[d]
      BY <1>1, <1>2, <2>1 DEF First
    <2>3. PendingFor(t)
      BY <1>1 DEF LocksInv
    <2>4. t \in Built(d).locks <=> t \in LockedIn(log, snapshot[d])
      BY DEF Built
    <2>5. CASE /\ \A i \in 1 .. Len(locks) : locks[i].txn # t
               /\ t \in resolver'.locks <=> t \in Built(d).locks
      <3>1. snapshot[d] <= delivered
            => (t \in LockedIn(log, snapshot[d]) <=> t \in LockedIn(log, delivered))
        BY <1>1, <2>3, <2>5 DEF PendingFor, LastFor, First
      <3>2. snapshot[d] <= delivered \/ delivered < snapshot[d]
        BY <1>2
      <3>3. QED
        BY <1>1, <2>2, <2>4, <2>5, <3>1, <3>2 DEF TrackedFor
    <2>6. CASE \E i \in 1 .. Len(locks) :
                  /\ locks[i].txn = t
                  /\ (\A j \in 1 .. Len(locks) : j > i => locks[j].txn # t)
                  /\ t \in resolver'.locks <=> locks[i].kind = "prewrite"
      <3>1. PICK i \in 1 .. Len(locks) :
                  /\ locks[i].txn = t
                  /\ (\A j \in 1 .. Len(locks) : j > i => locks[j].txn # t)
                  /\ t \in resolver'.locks <=> locks[i].kind = "prewrite"
        BY <2>6
      <3>2. PICK k \in 1 .. Len(locks) :
                  /\ LastFor(locks, t, k)
                  /\ locks[k].kind = "prewrite" <=> t \in LockedIn(log, delivered)
        BY <2>3, <3>1 DEF PendingFor
      <3>3. i = k
        BY <1>2, <3>1, <3>2 DEF LastFor
      <3>4. t \in resolver'.locks <=> t \in LockedIn(log, delivered)
        BY <3>1, <3>2, <3>3
      <3>5. QED
        BY <1>1, <3>4 DEF TrackedFor
    <2>7. QED
      BY <1>1, <2>5, <2>6 DEF Replayed
  <1>5. QED
    BY <1>1, <1>3, <1>4 DEF LocksInv

(* A command is delivered.                                                  *)
LEMMA LocksSinkData ==
    ASSUME TypeOK, WorldInv, LocksInv, NEW c \in PendingLock, SinkDataEffect(c)
    PROVE  LocksInv'
  <1>1. /\ UNCHANGED <<log, snapshot>> /\ status = "running"
        /\ delivered < Len(log) /\ delivered' = delivered + 1
        /\ c = log[delivered + 1] /\ c.kind # "fail"
        /\ IF c.txn \in Silent THEN UNCHANGED <<resolver, locks>>
           ELSE IF resolver.ready THEN resolver' = Replay(resolver, c) /\ UNCHANGED locks
           ELSE locks' = Append(locks, c) /\ UNCHANGED resolver
    BY DEF SinkDataEffect, SentinelStep
  <1>2. /\ log \in Seq(Command) /\ delivered \in Nat
        /\ locks \in Seq(PendingLock) /\ Len(locks) \in Nat
        /\ \A x \in Downstreams : snapshot[x] \in Int /\ snapshot[x] <= Len(log)
    BY Positions DEF TypeOK, PendingLock
  <1>3. Applies(c, LockedIn(log, delivered), LockedIn(log, delivered + 1))
    BY <1>1, <1>2, LockedStep DEF WorldInv
  <1>4. \A t \in Txns : c.txn = t => (t \in LockedIn(log, delivered + 1) <=> c.kind = "prewrite")
    BY <1>1, <1>3 DEF Applies
  <1>5. \A t \in Txns : c.txn # t => (t \in LockedIn(log, delivered + 1) <=> t \in LockedIn(log, delivered))
    BY <1>3 DEF Applies
  <1>6. /\ Replay(resolver, c).ready = resolver.ready
        /\ Replay(resolver, c).locks = IF c.kind = "prewrite" THEN resolver.locks \cup {c.txn}
                                       ELSE resolver.locks \ {c.txn}
    BY DEF Replay, track_lock, untrack_lock, TypeOK
  <1>7. resolver'.ready = resolver.ready
    BY <1>1, <1>6
  <1>8. resolver'.locks \cap Silent = {}
    <2>1. CASE resolver' = resolver
      BY <2>1 DEF LocksInv
    <2>2. CASE resolver' = Replay(resolver, c) /\ c.txn \notin Silent
      BY <1>6, <2>2 DEF LocksInv
    <2>3. QED
      BY <1>1, <2>1, <2>2
  <1>9. \A i \in 1 .. Len(locks') : locks'[i].txn \notin Silent
    <2>1. CASE locks' = locks
      BY <2>1 DEF LocksInv
    <2>2. CASE locks' = Append(locks, c) /\ c.txn \notin Silent
      <3>1. /\ Len(locks') = Len(locks) + 1 /\ locks'[Len(locks) + 1] = c
            /\ \A i \in 1 .. Len(locks) : locks'[i] = locks[i]
        BY <1>2, <2>2
      <3>2. \A i \in 1 .. Len(locks') : i \in 1 .. Len(locks) \/ i = Len(locks) + 1
        BY <1>2, <3>1
      <3>3. QED
        BY <2>2, <3>1, <3>2 DEF LocksInv
    <2>3. QED
      BY <1>1, <2>1, <2>2
  <1>10. ASSUME ~resolver.ready, NEW t \in Txns \ Silent PROVE PendingFor(t)'
    <2>1. PendingFor(t)
      BY <1>1, <1>10 DEF LocksInv
    <2>2. locks' = IF c.txn \in Silent THEN locks ELSE Append(locks, c)
      BY <1>1, <1>10
    <2>3. CASE c.txn = t
      <3>1. /\ Len(locks') = Len(locks) + 1 /\ locks'[Len(locks) + 1] = c
            /\ Len(locks) + 1 \in 1 .. Len(locks')
        BY <1>2, <2>2, <2>3
      <3>2. LastFor(locks', t, Len(locks) + 1)
        BY <1>2, <2>3, <3>1 DEF LastFor
      <3>3. QED
        BY <1>1, <1>4, <2>3, <3>1, <3>2 DEF PendingFor
    <2>4. CASE c.txn # t
      <3>1. t \in LockedIn(log, delivered + 1) <=> t \in LockedIn(log, delivered)
        BY <1>5, <2>4
      <3>2. /\ Len(locks') \in Nat /\ Len(locks) <= Len(locks')
            /\ \A i \in 1 .. Len(locks) : i \in 1 .. Len(locks') /\ locks'[i] = locks[i]
            /\ \A i \in 1 .. Len(locks') : i \notin 1 .. Len(locks) => locks'[i].txn # t
        <4>1. CASE c.txn \in Silent
          BY <1>2, <2>2, <4>1
        <4>2. CASE c.txn \notin Silent
          <5>1. /\ Len(locks') = Len(locks) + 1 /\ locks'[Len(locks) + 1] = c
                /\ \A i \in 1 .. Len(locks) : locks'[i] = locks[i]
            BY <1>2, <2>2, <4>2
          <5>2. \A i \in 1 .. Len(locks') : i \in 1 .. Len(locks) \/ i = Len(locks) + 1
            BY <1>2, <5>1
          <5>3. QED
            BY <1>2, <2>4, <5>1, <5>2
        <4>3. QED
          BY <4>1, <4>2
      <3>3. CASE \E i \in 1 .. Len(locks) :
                    LastFor(locks, t, i)
                    /\ (locks[i].kind = "prewrite" <=> t \in LockedIn(log, delivered))
        <4>1. PICK i \in 1 .. Len(locks) :
                    LastFor(locks, t, i)
                    /\ (locks[i].kind = "prewrite" <=> t \in LockedIn(log, delivered))
          BY <3>3
        <4>2. LastFor(locks', t, i)
          BY <3>2, <4>1 DEF LastFor
        <4>3. QED
          BY <1>1, <3>1, <3>2, <4>1, <4>2 DEF PendingFor
      <3>4. CASE /\ \A i \in 1 .. Len(locks) : locks[i].txn # t
                 /\ \A x \in Downstreams : Taken(x) /\ snapshot[x] <= delivered
                      => (t \in LockedIn(log, snapshot[x]) <=> t \in LockedIn(log, delivered))
        <4>1. \A i \in 1 .. Len(locks') : locks'[i].txn # t
          BY <3>2, <3>4
        <4>2. ASSUME NEW x \in Downstreams, Taken(x), snapshot[x] <= delivered + 1
              PROVE  t \in LockedIn(log, snapshot[x]) <=> t \in LockedIn(log, delivered + 1)
          <5>1. snapshot[x] <= delivered \/ snapshot[x] = delivered + 1
            BY <1>2, <4>2
          <5>2. QED
            BY <3>1, <3>4, <4>2, <5>1
        <4>3. QED
          BY <1>1, <4>1, <4>2 DEF PendingFor, Taken
      <3>5. QED
        BY <2>1, <3>3, <3>4 DEF PendingFor
    <2>5. QED
      BY <2>3, <2>4
  <1>11. ASSUME resolver.ready, NEW x \in Downstreams, First(x)', NEW t \in Txns \ Silent
         PROVE  TrackedFor(x, t)'
    <2>1. First(x)
      BY <1>1, <1>11 DEF First, Taken
    <2>2. TrackedFor(x, t)
      BY <1>1, <1>11, <2>1 DEF LocksInv
    <2>3. CASE c.txn = t
      <3>1. t \in resolver'.locks <=> c.kind = "prewrite"
        BY <1>1, <1>6, <1>11, <2>3
      <3>2. QED
        BY <1>1, <1>4, <2>3, <3>1 DEF TrackedFor
    <2>4. CASE c.txn # t
      <3>1. t \in resolver'.locks <=> t \in resolver.locks
        BY <1>1, <1>6, <1>11, <2>4
      <3>2. t \in LockedIn(log, delivered + 1) <=> t \in LockedIn(log, delivered)
        BY <1>5, <2>4
      <3>3. delivered < snapshot[x] => delivered + 1 < snapshot[x] \/ delivered + 1 = snapshot[x]
        BY <1>2
      <3>4. QED
        BY <1>1, <2>2, <3>1, <3>2, <3>3 DEF TrackedFor
    <2>5. QED
      BY <2>3, <2>4
  <1>12. QED
    BY <1>7, <1>8, <1>9, <1>10, <1>11 DEF LocksInv

(* Every step keeps LocksInv.                                               *)
LEMMA LocksKept ==
    ASSUME TypeOK, WorldInv, StageInv, LocksInv, Effect
    PROVE  LocksInv'
  <1>1. Grow
    BY EffectTypes
  <1>2. ASSUME LocksFrame PROVE LocksInv'
    BY <1>1, <1>2, LocksFramed
  <1>3. ASSUME WorldStep PROVE LocksInv'
    BY <1>2, <1>3 DEF WorldStep, sentinel, LocksFrame
  <1>4. ASSUME NEW d \in Downstreams, NewEffect(d) PROVE LocksInv'
    <2>1. /\ locks' = <<>> /\ ~resolver.ready /\ resolver' = resolver
          /\ \A x \in Downstreams : ~Taken(x)'
      BY <1>4 DEF NewEffect, StageInv, Taken
    <2>2. \A t \in Txns \ Silent : PendingFor(t)'
      BY <2>1 DEF PendingFor
    <2>3. QED
      BY <2>1, <2>2 DEF LocksInv
  <1>5. ASSUME NEW d \in Downstreams, SubscribeEffect(d) PROVE LocksInv'
    BY <1>2, <1>5 DEF SubscribeEffect, LocksFrame
  <1>6. ASSUME NEW d \in Downstreams, UnsubscribeEffect(d) PROVE LocksInv'
    BY <1>2, <1>6 DEF UnsubscribeEffect, LocksFrame
  <1>7. ASSUME NEW d \in Downstreams, InitializeEffect(d) PROVE LocksInv'
    BY <1>7, LocksInitialize
  <1>8. ASSUME NEW d \in Downstreams, SearchEffect(d) PROVE LocksInv'
    BY <1>2, <1>8 DEF SearchEffect, sentinel, LocksFrame
  <1>9. ASSUME NEW d \in Downstreams, ReadyEffect(d) PROVE LocksInv'
    BY <1>9, LocksReady
  <1>10. ASSUME MinTsEffect PROVE LocksInv'
    BY <1>2, <1>10 DEF MinTsEffect, LocksFrame
  <1>11. ASSUME NEW c \in PendingLock, SinkDataEffect(c) PROVE LocksInv'
    BY <1>11, LocksSinkData
  <1>12. ASSUME StopEffect PROVE LocksInv'
    BY <1>2, <1>12 DEF StopEffect, LocksFrame
  <1>13. QED
    BY <1>3, <1>4, <1>5, <1>6, <1>7, <1>8, <1>9, <1>10, <1>11, <1>12 DEF Effect

-----------------------------------------------------------------------------
(* What is resolved. *)

(* A step that resolves no more keeps ResolvedInv.                          *)
LEMMA ResolvedFramed ==
    ASSUME TypeOK, TypeOK', Grow, ResolvedInv, snapshot' = snapshot, delivered <= delivered',
           \A t \in Txns : commit'[t] # 0 /\ commit'[t] <= resolver'.resolved
                           => commit[t] # 0 /\ commit[t] <= resolver.resolved
    PROVE  ResolvedInv'
  <1>1. /\ delivered \in Int /\ delivered <= Len(log) /\ delivered' \in Int
        /\ \A x \in Downstreams : snapshot[x] \in Int /\ snapshot[x] <= Len(log)
    <2>1. delivered' \in Int
      BY DEF TypeOK
    <2>2. QED
      BY <2>1, Positions
  <1>2. ASSUME NEW d \in Downstreams, NEW t \in Txns \ Silent,
               First(d)', commit'[t] # 0, commit'[t] <= resolver'.resolved
        PROVE  EndedIn(log', delivered', t) \/ EndedIn(log', snapshot'[d], t)
    <2>1. First(d)
      BY <1>2 DEF First, Taken
    <2>2. EndedIn(log, delivered, t) \/ EndedIn(log, snapshot[d], t)
      BY <1>2, <2>1 DEF ResolvedInv
    <2>3. EndedIn(log', delivered, t) \/ EndedIn(log', snapshot[d], t)
      BY <1>1, <2>2, GrowKeeps DEF TypeOK
    <2>4. QED
      BY <1>1, <2>3, EndedMono
  <1>3. QED
    BY <1>2 DEF ResolvedInv

(* Every step keeps ResolvedInv.                                            *)
LEMMA ResolvedKept ==
    ASSUME TypeOK, WorldInv, StageInv, LocksInv, ResolvedInv, Effect
    PROVE  ResolvedInv'
  <1>1. TypeOK' /\ Grow
    BY EffectTypes
  <1>2. /\ Len(log) \in Nat /\ delivered \in Nat /\ delivered <= Len(log)
        /\ \A x \in Downstreams : snapshot[x] \in Int /\ snapshot[x] <= Len(log)
    BY Positions
  <1>3. /\ commit \in [Txns -> Nat] /\ start \in [Txns -> Nat] /\ ts \in Nat
        /\ resolver.resolved \in Nat /\ resolver'.resolved \in Nat
        /\ min_ts.ts \in Nat /\ min_ts.at \in Nat /\ min_ts.at <= Len(log)
    BY <1>1, SentinelAssumption DEF TypeOK, Ts
  <1>4. ASSUME snapshot' = snapshot, delivered <= delivered', commit' = commit,
               resolver'.resolved = resolver.resolved
        PROVE  ResolvedInv'
    BY <1>1, <1>4, ResolvedFramed
  <1>5. ASSUME WorldStep PROVE ResolvedInv'
    <2>1. UNCHANGED <<delivered, resolver, snapshot>> /\ resolver.resolved <= ts
      BY <1>5 DEF WorldStep, sentinel, StageInv
    <2>2. commit' \in [Txns -> Nat]
      BY <1>1, SentinelAssumption DEF TypeOK, Ts
    <2>3. ASSUME NEW t \in Txns, commit'[t] # 0, commit'[t] <= resolver'.resolved
          PROVE  commit[t] # 0 /\ commit[t] <= resolver.resolved
      <3>1. ~(commit'[t] > ts)
        BY <1>3, <2>1, <2>2, <2>3
      <3>2. commit'[t] = commit[t]
        BY <1>5, <3>1 DEF WorldStep
      <3>3. QED
        BY <2>1, <2>3, <3>2
    <2>4. delivered <= delivered' /\ snapshot' = snapshot
      BY <1>2, <2>1
    <2>5. QED
      BY <1>1, <2>3, <2>4, ResolvedFramed
  <1>6. ASSUME NEW d \in Downstreams, NewEffect(d) PROVE ResolvedInv'
    BY <1>2, <1>4, <1>6 DEF NewEffect, SentinelStep
  <1>7. ASSUME NEW d \in Downstreams, SubscribeEffect(d) PROVE ResolvedInv'
    BY <1>2, <1>4, <1>7 DEF SubscribeEffect, SentinelStep
  <1>8. ASSUME NEW d \in Downstreams, UnsubscribeEffect(d) PROVE ResolvedInv'
    BY <1>2, <1>4, <1>8 DEF UnsubscribeEffect, SentinelStep
  <1>9. ASSUME NEW d \in Downstreams, InitializeEffect(d) PROVE ResolvedInv'
    <2>1. /\ UNCHANGED <<log, delivered, resolver, commit>>
          /\ snapshot'[d] = Len(log) /\ ~Taken(d)
          /\ \A x \in Downstreams : x # d => snapshot'[x] = snapshot[x]
      BY <1>9 DEF InitializeEffect, SentinelStep, sentinel
    <2>2. Taken(d)' /\ \A x \in Downstreams : x # d => (Taken(x)' <=> Taken(x))
      BY <1>2, <2>1 DEF Taken, NoScan
    <2>3. ASSUME NEW x \in Downstreams, NEW t \in Txns \ Silent,
                 First(x)', commit[t] # 0, commit[t] <= resolver.resolved
          PROVE  EndedIn(log, delivered, t) \/ EndedIn(log, snapshot'[x], t)
      <3>1. CASE x # d
        <4>1. \A y \in Downstreams : Taken(y) => y # d
          BY <2>1
        <4>2. First(x)
          BY <2>1, <2>2, <2>3, <3>1, <4>1 DEF First
        <4>3. QED
          BY <2>1, <2>3, <3>1, <4>2 DEF ResolvedInv
      <3>2. CASE x = d
        <4>1. resolver.ready
          BY <1>3, <2>3 DEF StageInv
        <4>2. PICK e \in Downstreams : Taken(e)
          BY <4>1 DEF StageInv
        <4>3. ASSUME NEW y \in Downstreams, Taken(y) PROVE snapshot[y] = Len(log)
          <5>1. y # d /\ Taken(y)' /\ snapshot'[y] = snapshot[y]
            BY <2>1, <2>2, <4>3
          <5>2. snapshot'[d] <= snapshot'[y]
            BY <2>3, <3>2, <5>1 DEF First
          <5>3. QED
            BY <1>2, <2>1, <5>1, <5>2
        <4>4. First(e)
          BY <1>2, <4>2, <4>3 DEF First
        <4>5. QED
          BY <2>1, <2>3, <3>2, <4>2, <4>3, <4>4 DEF ResolvedInv
      <3>3. QED
        BY <3>1, <3>2
    <2>4. QED
      BY <2>1, <2>3 DEF ResolvedInv
  <1>10. ASSUME NEW d \in Downstreams, SearchEffect(d) PROVE ResolvedInv'
    BY <1>2, <1>4, <1>10 DEF SearchEffect, SentinelStep, sentinel
  <1>11. ASSUME NEW d \in Downstreams, ReadyEffect(d) PROVE ResolvedInv'
    <2>1. resolver'.resolved = 0 /\ resolver.resolved = 0
      BY <1>11 DEF ReadyEffect, Replayed, Built, StageInv
    <2>2. QED
      BY <1>2, <1>4, <1>11, <2>1 DEF ReadyEffect, SentinelStep
  <1>12. ASSUME MinTsEffect PROVE ResolvedInv'
    <2>1. /\ UNCHANGED <<log, commit, delivered, snapshot>>
          /\ status = "running" /\ min_ts.at <= delivered
          /\ resolver'.resolved = resolver.resolved \/
               /\ resolver.ready /\ resolver'.resolved <= min_ts.ts
               /\ \A t \in resolver.locks : resolver'.resolved <= start[t]
      BY <1>12 DEF MinTsEffect, SentinelStep
    <2>2. ASSUME NEW d \in Downstreams, NEW t \in Txns \ Silent,
                 First(d), commit[t] # 0, commit[t] <= resolver'.resolved
          PROVE  EndedIn(log, delivered, t) \/ EndedIn(log, snapshot[d], t)
      <3>1. CASE commit[t] <= resolver.resolved
        BY <2>2, <3>1 DEF ResolvedInv
      <3>2. CASE ~(commit[t] <= resolver.resolved)
        <4>1. /\ resolver.ready /\ resolver'.resolved <= min_ts.ts
              /\ \A u \in resolver.locks : resolver'.resolved <= start[u]
          BY <2>1, <2>2, <3>2
        <4>2. commit[t] <= min_ts.ts /\ start[t] < commit[t]
          BY <1>3, <2>2, <4>1 DEF WorldInv
        <4>3. HasIn(log, "prewrite", min_ts.at, t)
          BY <2>2, <4>2 DEF WorldInv
        <4>4. HasIn(log, "prewrite", delivered, t)
          BY <1>2, <1>3, <2>1, <4>3, HasMono
        <4>5. t \notin resolver.locks
          BY <1>3, <2>2, <4>1, <4>2
        <4>6. TrackedFor(d, t)
          BY <2>1, <2>2, <4>1 DEF LocksInv
        <4>7. CASE t \notin LockedIn(log, delivered)
          BY <4>4, <4>7 DEF LockedIn, EndedIn
        <4>8. CASE t \in LockedIn(log, delivered)
          <5>1. delivered < snapshot[d] /\ t \notin LockedIn(log, snapshot[d])
            BY <4>5, <4>6, <4>8 DEF TrackedFor
          <5>2. HasIn(log, "prewrite", snapshot[d], t)
            BY <1>2, <4>4, <5>1, HasMono
          <5>3. QED
            BY <5>1, <5>2 DEF LockedIn, EndedIn
        <4>9. QED
          BY <4>7, <4>8
      <3>3. QED
        BY <3>1, <3>2
    <2>3. \A d \in Downstreams : First(d)' => First(d)
      BY <2>1 DEF First, Taken
    <2>4. QED
      BY <2>1, <2>2, <2>3 DEF ResolvedInv
  <1>13. ASSUME NEW c \in PendingLock, SinkDataEffect(c) PROVE ResolvedInv'
    <2>1. resolver' = resolver \/ resolver' = Replay(resolver, c)
      BY <1>13 DEF SinkDataEffect
    <2>2. resolver'.resolved = resolver.resolved
      BY <2>1 DEF Replay, track_lock, untrack_lock, TypeOK
    <2>3. delivered <= delivered' /\ snapshot' = snapshot /\ commit' = commit
      BY <1>2, <1>13 DEF SinkDataEffect, SentinelStep
    <2>4. QED
      BY <1>4, <2>2, <2>3
  <1>14. ASSUME StopEffect PROVE ResolvedInv'
    BY <1>4, <1>14 DEF StopEffect, SentinelStep
  <1>15. QED
    BY <1>5, <1>6, <1>7, <1>8, <1>9, <1>10, <1>11, <1>12, <1>13, <1>14 DEF Effect

-----------------------------------------------------------------------------
(* The assertion of broadcast. *)

Refused == \E d \in Stale : got[d].error

(* Every step keeps MissInv.                                                *)
LEMMA MissKept ==
    ASSUME TypeOK, StageInv, MissInv, Effect
    PROVE  MissInv'
  <1>1. /\ status = "running" => Current # <<>> \/ Refused
        /\ status = "panicked" => Refused
    BY DEF MissInv, MissOnlyIfRefused, Refused
  <1>2. ASSUME status' = "running" => Current' # <<>> \/ Refused',
               status' = "panicked" => Refused'
        PROVE  MissInv'
    BY <1>2 DEF MissInv, MissOnlyIfRefused, Refused
  <1>3. Stale \subseteq Downstreams
    BY SentinelAssumption
  <1>4. ASSUME WorldStep PROVE MissInv'
    <2>1. UNCHANGED <<region, waiting, downstreams, got, status>>
      BY <1>4 DEF WorldStep, sentinel
    <2>2. QED
      BY <1>1, <1>2, <2>1 DEF Current, Refused
  <1>5. ASSUME NEW d \in Downstreams, NewEffect(d) PROVE MissInv'
    <2>1. ~region' /\ waiting' = <<d>> /\ status' = "running"
      BY <1>5 DEF NewEffect, StageInv
    <2>2. Current' # <<>>
      BY <2>1 DEF Current
    <2>3. QED
      BY <1>2, <2>1, <2>2
  <1>6. ASSUME NEW d \in Downstreams, SubscribeEffect(d) PROVE MissInv'
    BY <1>2, <1>6 DEF SubscribeEffect, Refused
  <1>7. ASSUME NEW d \in Downstreams, UnsubscribeEffect(d) PROVE MissInv'
    BY <1>2, <1>7 DEF UnsubscribeEffect
  <1>8. ASSUME NEW d \in Downstreams, InitializeEffect(d) PROVE MissInv'
    <2>1. UNCHANGED <<region, waiting, downstreams, got, status>>
      BY <1>8 DEF InitializeEffect, sentinel
    <2>2. QED
      BY <1>1, <1>2, <2>1 DEF Current, Refused
  <1>9. ASSUME NEW d \in Downstreams, SearchEffect(d) PROVE MissInv'
    <2>1. UNCHANGED <<region, waiting, downstreams, status>>
          /\ \A x \in Downstreams : got'[x].error = got[x].error
      BY <1>9 DEF SearchEffect, sentinel
    <2>2. QED
      BY <1>1, <1>2, <1>3, <2>1 DEF Current, Refused
  <1>10. ASSUME NEW d \in Downstreams, ReadyEffect(d) PROVE MissInv'
    <2>1. /\ status = "running" /\ status' = "running" /\ ~region
          /\ Current' # <<>> \/ waiting = <<>> \/ Refused'
          /\ \A x \in Downstreams : got[x].error => got'[x].error
      BY <1>10 DEF ReadyEffect, StageInv, Refused
    <2>2. waiting = <<>> => Refused
      BY <1>1, <2>1 DEF Current
    <2>3. Refused => Refused'
      BY <1>3, <2>1 DEF Refused
    <2>4. QED
      BY <1>2, <2>1, <2>2, <2>3
  <1>11. ASSUME UNCHANGED <<region, waiting, downstreams>>, status = "running",
                \A x \in Downstreams : got'[x].error = got[x].error,
                status' = "running" \/ (status' = "panicked" /\ Current = <<>>)
         PROVE  MissInv'
    <2>1. Current' = Current /\ (Refused' <=> Refused)
      BY <1>3, <1>11 DEF Current, Refused
    <2>2. QED
      BY <1>1, <1>2, <1>11, <2>1
  <1>12. ASSUME MinTsEffect PROVE MissInv'
    BY <1>11, <1>12 DEF MinTsEffect
  <1>13. ASSUME NEW c \in PendingLock, SinkDataEffect(c) PROVE MissInv'
    BY <1>11, <1>13 DEF SinkDataEffect, RowOf
  <1>14. ASSUME StopEffect PROVE MissInv'
    <2>1. /\ status = "running"
          /\ status' = "dropped" \/ (status' = "panicked" /\ Current = <<>> /\ got' = got)
      BY <1>14 DEF StopEffect
    <2>2. QED
      BY <1>1, <1>2, <2>1 DEF Refused
  <1>15. QED
    BY <1>4, <1>5, <1>6, <1>7, <1>8, <1>9, <1>10, <1>12, <1>13, <1>14 DEF Effect

-----------------------------------------------------------------------------
(* The theorems. *)

(* The initial state satisfies the invariant.                               *)
LEMMA InitInd == Init => Ind
  <1> SUFFICES ASSUME Init PROVE Ind
    OBVIOUS
  <1> USE SentinelAssumption
  <1>1. /\ log = <<>> /\ Len(log) = 0 /\ delivered = 0 /\ ts = 0 /\ min_ts = NoMinTs
        /\ waiting = <<>> /\ locks = <<>> /\ downstreams = <<>> /\ status = "none"
        /\ region = FALSE /\ resolver.ready = FALSE /\ resolver.locks = {} /\ resolver.resolved = 0
        /\ \A t \in Txns : start[t] = 0 /\ commit[t] = 0
        /\ \A d \in Downstreams : /\ state[d] = "UNINITIALIZED" /\ snapshot[d] = NoScan
                                  /\ got[d].commit = {} /\ got[d].resolved = 0
                                  /\ ~got[d].initialized
    BY DEF Init
  <1>2. TypeOK
    <2>1. 0 \in Ts /\ NoMinTs \in [ts : Ts, at : 0 .. 0]
      BY DEF Ts, NoMinTs
    <2>2. got \in [Downstreams -> Sink]
      BY <2>1 DEF Init, Sink
    <2>3. /\ start \in [Txns -> Ts] /\ commit \in [Txns -> Ts]
          /\ state \in [Downstreams -> {"UNINITIALIZED", "NORMAL", "STOPPED"}]
          /\ snapshot \in [Downstreams -> {NoScan} \cup 0 .. 0]
          /\ resolver \in [ready : BOOLEAN, locks : SUBSET Txns, resolved : Ts]
      BY <2>1 DEF Init
    <2>4. /\ log \in Seq(Command) /\ delivered \in 0 .. Len(log)
          /\ waiting \in Seq(Downstreams) /\ downstreams \in Seq(Downstreams)
          /\ locks \in Seq([kind : Kinds, txn : Txns])
      BY <1>1
    <2>5. /\ region \in BOOLEAN /\ enabled \in BOOLEAN
      BY DEF Init
    <2>6. /\ ts \in Ts /\ min_ts \in [ts : Ts, at : 0 .. Len(log)]
          /\ snapshot \in [Downstreams -> {NoScan} \cup 0 .. Len(log)]
          /\ status \in {"none", "running", "dropped", "panicked"}
      BY <1>1, <2>1, <2>3
    <2>7. QED
      BY <2>2, <2>3, <2>4, <2>5, <2>6 DEF TypeOK
  <1>3. \A k, t : ~HasIn(log, k, 0, t)
    BY DEF HasIn
  <1>4. WorldInv
    BY <1>1, <1>3 DEF WorldInv, Disciplined, NoMinTs
  <1>5. StageInv
    <2>1. region = resolver.ready /\ ~region /\ ~resolver.ready
      BY <1>1
    <2>2. QED
      BY <1>1, <2>1 DEF StageInv, Taken
  <1>6. SinkInv
    BY <1>1 DEF SinkInv, SinkOK, CommitsDelivered, Scanned, Caught, Followed
  <1>7. LocksInv
    BY <1>1 DEF LocksInv
  <1>8. ResolvedInv
    BY <1>1 DEF ResolvedInv
  <1>9. MissInv
    BY <1>1 DEF MissInv, MissOnlyIfRefused
  <1>10. QED
    BY <1>2, <1>4, <1>5, <1>6, <1>7, <1>8, <1>9 DEF Ind

(* The invariant is inductive.                                              *)
LEMMA NextInd == Ind /\ [Next]_vars => Ind'
  <1> SUFFICES ASSUME Ind, [Next]_vars PROVE Ind'
    OBVIOUS
  <1>1. TypeOK /\ WorldInv /\ StageInv /\ SinkInv /\ LocksInv /\ ResolvedInv /\ MissInv
    BY DEF Ind
  <1>2. Effect
    BY <1>1, StepEffect
  <1>3. TypeOK' /\ WorldInv' /\ StageInv'
    BY <1>1, <1>2, EffectTypes, WorldKept, StageKept
  <1>4. SinkInv' /\ LocksInv'
    BY <1>1, <1>2, SinkKept, LocksKept
  <1>5. ResolvedInv' /\ MissInv'
    BY <1>1, <1>2, ResolvedKept, MissKept
  <1>6. QED
    BY <1>3, <1>4, <1>5 DEF Ind

(* The invariant holds in every reachable state of a Sentinel and its       *)
(* region.                                                                  *)
THEOREM IndInvariant == Spec => []Ind
  <1>1. QED
    BY InitInd, NextInd, PTL DEF Spec

(* The state has its type.                                                  *)
THEOREM TypeInvariant == Spec => []TypeOK
  <1>1. Ind => TypeOK
    BY DEF Ind
  <1>2. QED
    BY <1>1, IndInvariant, PTL

(* A downstream whose scan is over has the prewrite of every commit it was  *)
(* sent, or the write itself (on_mutant_search, sink_data): a commit after  *)
(* its snapshot was prewritten before it, and then the scan finds the lock, *)
(* or after it, and then the prewrite was broadcast to it too.              *)
THEOREM CommitsMatchedInvariant == Spec => []CommitsMatched
  <1>1. Ind => CommitsMatched
    <2> SUFFICES ASSUME Ind, NEW d \in Downstreams, Following(d), NEW t \in got[d].commit
                 PROVE  t \in got[d].prewrite \cup got[d].committed
      BY DEF CommitsMatched
    <2>1. TypeOK /\ Disciplined(log) /\ SinkOK(d)
      BY DEF Ind, WorldInv, SinkInv
    <2>2. /\ log \in Seq(Command) /\ delivered \in Int /\ delivered <= Len(log)
          /\ snapshot[d] \in Int /\ snapshot[d] <= Len(log)
      BY <2>1, Positions
    <2>3. got[d].initialized /\ Followed(d) /\ t \in Txns
      BY <2>1 DEF Following, Followed, TypeOK, Sink
    <2>4. t \notin Silent /\ HasIn(log, "commit", delivered, t)
      BY <2>1 DEF SinkOK, CommitsDelivered
    <2>5. CASE HasIn(log, "commit", snapshot[d], t)
      BY <2>1, <2>3, <2>4, <2>5 DEF SinkOK, Scanned
    <2>6. CASE ~HasIn(log, "commit", snapshot[d], t)
      <3>1. snapshot[d] <= delivered
        BY <2>2, <2>4, <2>6, HasMono
      <3>2. EndedIn(log, delivered, t)
        BY <2>4 DEF EndedIn
      <3>3. HasIn(log, "prewrite", delivered, t)
        BY <2>1, <2>2, <2>3, <3>2, EndedPrewritten
      <3>4. CASE HasIn(log, "prewrite", snapshot[d], t)
        <4>1. t \in LockedIn(log, snapshot[d])
          BY <2>1, <2>2, <2>3, <2>4, <2>6, <3>1, <3>4, LockedBetween
        <4>2. QED
          BY <2>1, <2>3, <2>4, <4>1 DEF SinkOK, Scanned
      <3>5. CASE ~HasIn(log, "prewrite", snapshot[d], t)
        BY <2>1, <2>3, <2>4, <3>3, <3>5 DEF SinkOK, Caught
      <3>6. QED
        BY <3>4, <3>5
    <2>7. QED
      BY <2>5, <2>6
  <1>2. QED
    BY <1>1, IndInvariant, PTL

(* Of the snapshots taken one is the first.                                 *)
LEMMA FirstExists ==
    ASSUME TypeOK, NEW d \in Downstreams, Taken(d)
    PROVE  \E e \in Downstreams : First(e)
  <1> DEFINE S == { snapshot[x] : x \in { y \in Downstreams : Taken(y) } }
  <1>1. \A x \in Downstreams : Taken(x) => snapshot[x] \in Nat
    BY DEF Taken, TypeOK
  <1>2. S \in SUBSET Nat /\ S # {}
    BY <1>1
  <1>3. PICK m \in S : \A n \in S : m <= n
    <2> HIDE DEF S
    <2>1. QED
      BY <1>2, LeastExists
  <1>4. PICK e \in Downstreams : Taken(e) /\ m = snapshot[e]
    BY <1>3
  <1>5. \A x \in Downstreams : Taken(x) => snapshot[x] \in S
    OBVIOUS
  <1> HIDE DEF S
  <1>6. First(e)
    BY <1>3, <1>4, <1>5 DEF First
  <1>7. QED
    BY <1>6

(* Once all commands are delivered, the Resolver of a running Sentinel      *)
(* holds the locks of the region, whatever order snapshot, Pending and      *)
(* commands came in (on_region_ready, sink_data): a lock that the Resolver  *)
(* has from a later snapshot is one that no command delivered has touched.  *)
THEOREM LocksExactInvariant == Spec => []LocksExact
  <1>1. Ind => LocksExact
    <2> SUFFICES ASSUME Ind, status = "running", resolver.ready, delivered = Len(log)
                 PROVE  resolver.locks = LockedAt(Len(log)) \ Silent
      BY DEF LocksExact
    <2>1. TypeOK /\ StageInv /\ LocksInv
      BY DEF Ind
    <2>2. /\ Len(log) \in Nat /\ resolver.locks \subseteq Txns
          /\ \A x \in Downstreams : snapshot[x] \in Int /\ snapshot[x] <= Len(log)
      BY <2>1, Positions DEF TypeOK
    <2>3. PICK d \in Downstreams : First(d)
      BY <2>1, FirstExists DEF StageInv
    <2>4. ASSUME NEW t \in Txns \ Silent
          PROVE  t \in resolver.locks <=> t \in LockedIn(log, Len(log))
      <3>1. TrackedFor(d, t)
        BY <2>1, <2>3 DEF LocksInv
      <3>2. ~(delivered < snapshot[d])
        BY <2>2
      <3>3. QED
        BY <3>1, <3>2 DEF TrackedFor
    <2>5. resolver.locks \cap Silent = {}
      BY <2>1 DEF LocksInv
    <2>6. LockedAt(Len(log)) = LockedIn(log, Len(log)) /\ LockedIn(log, Len(log)) \subseteq Txns
      BY ReadsLog DEF LockedIn
    <2>7. QED
      BY <2>2, <2>4, <2>5, <2>6
  <1>2. QED
    BY <1>1, IndInvariant, PTL

(* The promise of a resolved ts (on_min_ts): what is committed at or before *)
(* it was sent to every downstream whose scan is over, by the scan or by a  *)
(* broadcast.  Such a transaction has ended in the snapshot the Resolver    *)
(* was built from or in a command delivered since: if it were still locked  *)
(* the Resolver would hold its lock, and resolve no later than its start.   *)
THEOREM ResolvedInvariant == Spec => []ResolvedComplete
  <1>1. Ind => ResolvedComplete
    <2> SUFFICES ASSUME Ind, NEW d \in Downstreams, NEW t \in Txns \ Silent, Following(d),
                        commit[t] # 0, commit[t] <= got[d].resolved
                 PROVE  t \in got[d].commit \cup got[d].committed \/ Applied("rollback", t)
      BY DEF ResolvedComplete
    <2>1. TypeOK /\ StageInv /\ SinkOK(d) /\ ResolvedInv
      BY DEF Ind, SinkInv
    <2>2. /\ Len(log) \in Nat /\ delivered \in Nat /\ delivered <= Len(log)
          /\ \A x \in Downstreams : snapshot[x] \in Int /\ snapshot[x] <= Len(log)
      BY <2>1, Positions
    <2>3. /\ commit[t] \in Nat /\ got[d].resolved \in Nat /\ resolver.resolved \in Nat
      BY <2>1, SentinelAssumption DEF TypeOK, Sink, Ts
    <2>4. commit[t] <= resolver.resolved
      BY <2>1, <2>3 DEF SinkOK
    <2>5. got[d].initialized /\ Followed(d) /\ Taken(d)
      BY <2>1 DEF Following, Followed, StageInv
    <2>6. PICK e \in Downstreams : First(e)
      BY <2>1, <2>5, FirstExists
    <2>7. EndedIn(log, delivered, t) \/ EndedIn(log, snapshot[e], t)
      BY <2>1, <2>4, <2>6 DEF ResolvedInv
    <2>8. snapshot[e] <= snapshot[d]
      BY <2>5, <2>6 DEF First
    <2>9. EndedIn(log, delivered, t) \/ EndedIn(log, snapshot[d], t)
      BY <2>2, <2>7, <2>8, EndedMono
    <2>10. CASE HasIn(log, "rollback", delivered, t) \/ HasIn(log, "rollback", snapshot[d], t)
      <3>1. HasIn(log, "rollback", Len(log), t)
        BY <2>2, <2>10, HasMono
      <3>2. QED
        BY <3>1, ReadsLog
    <2>11. CASE HasIn(log, "commit", snapshot[d], t)
      BY <2>1, <2>5, <2>11 DEF SinkOK, Scanned
    <2>12. CASE HasIn(log, "commit", delivered, t)
      BY <2>1, <2>5, <2>12 DEF SinkOK, Scanned, Caught
    <2>13. QED
      BY <2>9, <2>10, <2>11, <2>12 DEF EndedIn
  <1>2. QED
    BY <1>1, IndInvariant, PTL

(* "miss downstream" (broadcast, stop) only fails after a refusal: as long  *)
(* as nobody was refused, a running Sentinel has a downstream, because the  *)
(* caller drops it with the last one that unsubscribes.                     *)
THEOREM MissInvariant == Spec => []MissOnlyIfRefused
  <1>1. Ind => MissOnlyIfRefused
    BY DEF Ind, MissInv
  <1>2. QED
    BY <1>1, IndInvariant, PTL

=============================================================================
