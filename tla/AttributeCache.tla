---------------------------- MODULE AttributeCache ----------------------------
(***************************************************************************)
(* The attribute cache of soliton/cache.rs: the committed cache of a Conn  *)
(* behind an Arc, and the diff an InProgress keeps on top of it until it   *)
(* commits.                                                                *)
(*                                                                         *)
(* A cache keeps, per attribute, a map from entities to values (single_vals*)
(* and multi_vals) and one from values to entities (unique_reverse and     *)
(* non_unique_reverse).  All four are modelled as maps to sets: a value    *)
(* that was deleted in place (Some(None), an empty Vec, an empty BTreeSet) *)
(* is {}, a key the map does not hold is Missing.                          *)
(*                                                                         *)
(* The transactor is not in the repository.  As soliton/watcher.rs asks,   *)
(* the watcher is told the changes of a transact: every row that goes and  *)
(* every row that comes.                                                   *)
(*                                                                         *)
(* An InProgress that registers an attribute may find maps of it in the    *)
(* Conn's cache which no longer agree with its rows; repopulate then lets  *)
(* them shine through.  Three history variables, stale, late and kept,     *)
(* record the attributes to which this happened.                           *)
(***************************************************************************)
EXTENDS FiniteSets, Naturals

CONSTANTS
    Attrs, Entities, Values,
    Missing,            \* a key that a map does not hold
    NoCache,            \* an attribute that a cache holds no map for
    MaxChange           \* bound: rows changed by one transact

ASSUME CacheAssumption ==
    /\ MaxChange \in Nat
    /\ \A s \in (SUBSET Values) \cup (SUBSET Entities) : s # Missing
    /\ \A m \in [Entities -> {Missing} \cup SUBSET Values] : m # NoCache
    /\ \A m \in [Values -> {Missing} \cup SUBSET Entities] : m # NoCache

VARIABLES
    topograph,              \* per attribute, whether it is multival and unique
    store,                  \* the rows SQLite has committed
    rows,                   \* the rows inside the open SQLite transaction
    cache,                  \* Spacetime::attribute_cache
    held,                   \* a clone of its Arc given out by current_cache lives
    overlay,                \* InProgress: what differs from `cache`
    unregistered_lightlike, \* InProgress: attributes to forget
    unregistered_reverse,
    status,                 \* idle, open or the panic that was met
    stale,                  \* history: `cache` may show rows of these that are gone
    late,                   \* history: InProgress: registered over maps of `cache`
                            \* that do not agree with the rows
    kept                    \* history: those of `late` that had no row, so that
                            \* registering them cleared nothing

history == <<stale, late, kept>>
inProgress == <<overlay, unregistered_lightlike, unregistered_reverse>>
vars == <<topograph, store, rows, cache, held, inProgress, status, history>>

Row == [e : Entities, a : Attrs, v : Values]
LightlikeMap == [Entities -> {Missing} \cup SUBSET Values]
ReverseMap == [Values -> {Missing} \cup SUBSET Entities]
Caches == [lightlike_cached : SUBSET Attrs, reverse_cached : SUBSET Attrs,
           f : [Attrs -> {NoCache} \cup LightlikeMap],
           r : [Attrs -> {NoCache} \cup ReverseMap]]

Multival(a) == topograph[a].multival
Unique(a) == topograph[a].unique

TypeOK ==
    /\ topograph \in [Attrs -> [multival : BOOLEAN, unique : BOOLEAN]]
    /\ store \in SUBSET Row /\ rows \in SUBSET Row
    /\ cache \in Caches /\ overlay \in Caches
    /\ held \in BOOLEAN
    /\ unregistered_lightlike \in SUBSET Attrs
    /\ unregistered_reverse \in SUBSET Attrs
    /\ status \in {"idle", "open", "unreachable", "unimplemented"}
    /\ stale \in SUBSET Attrs /\ late \in SUBSET Attrs /\ kept \in SUBSET late

-----------------------------------------------------------------------------
(* AttributeCaches *)

DefaultCaches ==
    [lightlike_cached |-> {}, reverse_cached |-> {},
     f |-> [a \in Attrs |-> NoCache], r |-> [a \in Attrs |-> NoCache]]

has_cached_attributes(c) == c.lightlike_cached # {} \/ c.reverse_cached # {}

ValuesOf(rs, a, e) == { row.v : row \in { x \in rs : x.a = a /\ x.e = e } }
EntitiesOf(rs, a, v) == { row.e : row \in { x \in rs : x.a = a /\ x.v = v } }

Present(s) == IF s = Missing THEN {} ELSE s

\* SingleVal and MultiVal: set, acc.
AddLightlike(m, rs, a) ==
    [e \in Entities |->
        LET vs == ValuesOf(rs, a, e)
        IN  IF vs = {} THEN m[e]
            ELSE IF Multival(a) THEN Present(m[e]) \cup vs ELSE vs]

\* A single value leaves a sentinel behind, a vector that is not there does not.
RemoveLightlike(m, rs, a) ==
    [e \in Entities |->
        LET vs == ValuesOf(rs, a, e)
        IN  IF vs = {} \/ (Multival(a) /\ m[e] = Missing) THEN m[e]
            ELSE IF Multival(a) THEN m[e] \ vs ELSE {}]

\* UniqueReverse and NonUniqueReverse: set, acc.
AddReverse(m, rs, a) ==
    [v \in Values |->
        LET es == EntitiesOf(rs, a, v)
        IN  IF es = {} THEN m[v]
            ELSE IF Unique(a) THEN es ELSE Present(m[v]) \cup es]

RemoveReverse(m, rs, a) ==
    [v \in Values |->
        LET es == EntitiesOf(rs, a, v)
        IN  IF es = {} \/ (~Unique(a) /\ m[v] = Missing) THEN m[v]
            ELSE IF Unique(a) THEN {} ELSE m[v] \ es]

\* The map to change, copied on write from the fallback if both cache it.
Entry(own, copy, other, empty) ==
    IF own # NoCache THEN own ELSE IF copy /\ other # NoCache THEN other ELSE empty

NoValues == [e \in Entities |-> Missing]
NoEntities == [v \in Values |-> Missing]

fmc(c, fallback, a) ==
    Entry(c.f[a], a \in fallback.lightlike_cached, fallback.f[a], NoValues)
rnuc(c, fallback, a) ==
    Entry(c.r[a], a \in fallback.reverse_cached, fallback.r[a], NoEntities)

Touched(rs, a) == \E row \in rs : row.a = a

accumulate_additions(c, fallback, rs) ==
    [c EXCEPT
       !.f = [a \in Attrs |-> IF Touched(rs, a) /\ a \in c.lightlike_cached
                              THEN AddLightlike(fmc(c, fallback, a), rs, a) ELSE c.f[a]],
       !.r = [a \in Attrs |-> IF Touched(rs, a) /\ a \in c.reverse_cached
                              THEN AddReverse(rnuc(c, fallback, a), rs, a) ELSE c.r[a]]]

accumulate_removals(c, fallback, rs) ==
    [c EXCEPT
       !.f = [a \in Attrs |-> IF Touched(rs, a) /\ a \in c.lightlike_cached
                              THEN RemoveLightlike(fmc(c, fallback, a), rs, a) ELSE c.f[a]],
       !.r = [a \in Attrs |-> IF Touched(rs, a) /\ a \in c.reverse_cached
                              THEN RemoveReverse(rnuc(c, fallback, a), rs, a) ELSE c.r[a]]]

\* The unreachable!() of accumulate_evs: an attribute cached in no direction.
Unmatched(c, rs) ==
    \E row \in rs : row.a \notin c.lightlike_cached \cup c.reverse_cached

\* Variant: the additions first.
AdditionsFirst(c, fallback, retractions, additions) ==
    accumulate_removals(accumulate_additions(c, fallback, additions),
                        fallback, retractions)

update_with_fallback(c, fallback, retractions, additions) ==
    accumulate_additions(accumulate_removals(c, fallback, retractions),
                         fallback, additions)

\* Replaces the maps of an attribute by what SELECT finds.  Clearing is done
\* on the way into the first row: without a row nothing is cleared.
repopulate(c, rs, a) ==
    IF ~Touched(rs, a) THEN c
    ELSE [c EXCEPT
            !.f[a] = IF a \in c.lightlike_cached THEN AddLightlike(NoValues, rs, a) ELSE @,
            !.r[a] = IF a \in c.reverse_cached THEN AddReverse(NoEntities, rs, a) ELSE @]

unregister_attributes(c, as) ==
    [lightlike_cached |-> c.lightlike_cached \ as,
     reverse_cached |-> c.reverse_cached \ as,
     f |-> [a \in Attrs |-> IF a \in as THEN NoCache ELSE c.f[a]],
     r |-> [a \in Attrs |-> IF a \in as THEN NoCache ELSE c.r[a]]]

\* Deletions in place are folded in: the key goes.
Folded(m) == [k \in DOMAIN m |-> IF m[k] = {} THEN Missing ELSE m[k]]

\* extend_by_absorbing inserts the other map and then absorbs it into itself.
absorb(c, other) ==
    [lightlike_cached |-> c.lightlike_cached \cup other.lightlike_cached,
     reverse_cached |-> c.reverse_cached \cup other.reverse_cached,
     f |-> [a \in Attrs |-> IF other.f[a] = NoCache THEN c.f[a] ELSE Folded(other.f[a])],
     r |-> [a \in Attrs |-> IF other.r[a] = NoCache THEN c.r[a] ELSE Folded(other.r[a])]]

Lookup(m, k) == IF m = NoCache THEN Missing ELSE m[k]

\* The getters of a committed cache; a miss and a deleted value are nothing.
get_values(c, a, e) == Present(Lookup(c.f[a], e))
get_causetids(c, a, v) ==
    IF a \in c.reverse_cached THEN Present(Lookup(c.r[a], v)) ELSE {}

-----------------------------------------------------------------------------
(* The getters of an InProgress: the overlay first, then the cache. *)

CachedLightlike(a) ==
    /\ a \notin unregistered_lightlike
    /\ a \in cache.lightlike_cached \cup overlay.lightlike_cached
CachedReverse(a) ==
    /\ a \notin unregistered_reverse
    /\ a \in cache.reverse_cached \cup overlay.reverse_cached

\* get_causet_locales_for_causetid, and get_causet_locale_for_causetid, whose
\* helper `.._if_present` returns None for a value deleted in the overlay.
ip_get_values(a, e) ==
    LET over == Lookup(overlay.f[a], e)
    IN  IF a \in unregistered_lightlike THEN {}
        ELSE IF over = Missing \/ (~Multival(a) /\ over = {})
             THEN get_values(cache, a, e) ELSE over

ip_get_causetids(a, v) ==
    LET over == IF a \in overlay.reverse_cached THEN Lookup(overlay.r[a], v) ELSE Missing
    IN  IF a \in unregistered_reverse THEN {}
        ELSE IF over = Missing THEN get_causetids(cache, a, v) ELSE over

ip_has_cached_attributes ==
    \/ has_cached_attributes(overlay)
    \/ cache.lightlike_cached \ unregistered_lightlike # {}
    \/ cache.reverse_cached \ unregistered_reverse # {}

-----------------------------------------------------------------------------
Valid(rs) ==
    \A x, y \in rs : x.a = y.a =>
        /\ ~Multival(x.a) /\ x.e = y.e => x = y
        /\ Unique(x.a) /\ x.v = y.v => x = y

Init ==
    /\ topograph \in [Attrs -> [multival : BOOLEAN, unique : BOOLEAN]]
    /\ store = {} /\ rows = {}
    /\ cache = DefaultCaches /\ overlay = DefaultCaches
    /\ held = FALSE
    /\ unregistered_lightlike = {} /\ unregistered_reverse = {}
    /\ status = "idle"
    /\ stale = {} /\ late = {} /\ kept = {}

Directions == { <<TRUE, TRUE>>, <<TRUE, FALSE>>, <<FALSE, TRUE>> }

Mark(c, a, d) ==
    [c EXCEPT !.lightlike_cached = IF d[1] THEN @ \cup {a} ELSE @,
              !.reverse_cached = IF d[2] THEN @ \cup {a} ELSE @]

\* Conn::cache, CacheAction::Register: SQLiteAttributeCache::register*.
\* Arc::make_mut leaves a clone with the old caches.
register(a, d) ==
    /\ status = "idle"
    /\ cache' = repopulate(Mark(cache, a, d), store, a)
    /\ held' = FALSE
    /\ stale' = IF Touched(store, a) THEN stale \ {a} ELSE stale
    /\ UNCHANGED <<topograph, store, rows, inProgress, status, late, kept>>

\* Conn::cache, CacheAction::Deregister, and unregister_all.
unregister(as) ==
    /\ status = "idle"
    /\ cache' = unregister_attributes(cache, as)
    /\ held' = FALSE
    /\ stale' = stale \ as
    /\ UNCHANGED <<topograph, store, rows, inProgress, status, late, kept>>

current_cache ==
    /\ status \in {"idle", "open"} /\ ~held
    /\ held' = TRUE
    /\ UNCHANGED <<topograph, store, rows, cache, inProgress, status, history>>

drop_clone ==
    /\ held
    /\ held' = FALSE
    /\ UNCHANGED <<topograph, store, rows, cache, inProgress, status, history>>

\* begin_transaction_with_behavior: from_cache and make_override.
begin_transaction ==
    /\ status = "idle"
    /\ overlay' = [DefaultCaches EXCEPT !.lightlike_cached = cache.lightlike_cached,
                                        !.reverse_cached = cache.reverse_cached]
    /\ unregistered_lightlike' = {} /\ unregistered_reverse' = {}
    /\ status' = "open"
    /\ late' = stale /\ kept' = stale
    /\ UNCHANGED <<topograph, store, rows, cache, held, stale>>

\* The Conn's cache has maps of an attribute, of other rows than those so far.
Disagrees(a) ==
    /\ a \in cache.lightlike_cached \cup cache.reverse_cached
    /\ a \in stale \/ \E row \in (rows \ store) \cup (store \ rows) : row.a = a

\* InProgressSQLiteAttributeCache::register*.
ip_register(a, d) ==
    /\ status = "open"
    /\ (d[1] /\ ~CachedLightlike(a)) \/ (d[2] /\ ~CachedReverse(a))
    /\ unregistered_lightlike' = IF d[1] THEN unregistered_lightlike \ {a}
                                 ELSE unregistered_lightlike
    /\ unregistered_reverse' = IF d[2] THEN unregistered_reverse \ {a}
                               ELSE unregistered_reverse
    /\ overlay' = repopulate(Mark(overlay, a, d), rows, a)
    /\ late' = IF Disagrees(a) THEN late \cup {a} ELSE late
    /\ kept' = IF Touched(rows, a) THEN kept \ {a}
               ELSE IF Disagrees(a) THEN kept \cup {a} ELSE kept
    /\ UNCHANGED <<topograph, store, rows, cache, held, status, stale>>

\* Variant: the reverse direction is only forgotten in the overlay.
UnregisterLightlikeOnly(a) ==
    /\ status = "open"
    /\ overlay' = unregister_attributes(overlay, {a})
    /\ unregistered_lightlike' = unregistered_lightlike \cup {a}
    /\ UNCHANGED <<topograph, store, rows, cache, held, unregistered_reverse, status, history>>

ip_unregister(a) ==
    /\ status = "open"
    /\ overlay' = unregister_attributes(overlay, {a})
    /\ unregistered_lightlike' = unregistered_lightlike \cup {a}
    /\ unregistered_reverse' = unregistered_reverse \cup {a}
    /\ late' = late \ {a} /\ kept' = kept \ {a}
    /\ UNCHANGED <<topograph, store, rows, cache, held, status, stale>>

ip_unregister_all ==
    /\ status = "open"
    /\ overlay' = unregister_attributes(overlay, Attrs)
    /\ unregistered_lightlike' = unregistered_lightlike \cup cache.lightlike_cached
    /\ unregistered_reverse' = unregistered_reverse \cup cache.reverse_cached
    /\ late' = {} /\ kept' = {}
    /\ UNCHANGED <<topograph, store, rows, cache, held, status, stale>>

\* What InProgressCacheTransactWatcher collects of a set of changes.
Collected(rs) ==
    IF ip_has_cached_attributes
    THEN { row \in rs : CachedLightlike(row.a) \/ CachedReverse(row.a) } ELSE {}

\* A transact of the InProgress, up to the call of the watcher's done.
transact(new) ==
    LET retractions == Collected(rows \ new)
        additions == Collected(new \ rows)
    IN  /\ status = "open"
        /\ new # rows /\ Valid(new)
        /\ Cardinality(new \ rows) + Cardinality(rows \ new) <= MaxChange
        /\ rows' = new
        /\ IF Unmatched(overlay, retractions \cup additions)
           THEN status' = "unreachable" /\ UNCHANGED overlay
           ELSE /\ overlay' = update_with_fallback(overlay, cache, retractions, additions)
                /\ UNCHANGED status
        /\ UNCHANGED <<topograph, store, cache, held,
                       unregistered_lightlike, unregistered_reverse, history>>

\* Variant: what was unregistered stays in the destination.
CommitWithoutUnregistering ==
    /\ cache' = absorb(cache, overlay)
    /\ held' = FALSE /\ status' = "idle"

\* commit_to once our own clone of the Arc is dropped.
commit_to ==
    \/ /\ ~has_cached_attributes(cache)
       /\ cache' = overlay /\ held' = FALSE /\ status' = "idle"
    \/ /\ has_cached_attributes(cache) /\ ~held
       /\ cache' = absorb(unregister_attributes(cache,
                              unregistered_lightlike \cup unregistered_reverse), overlay)
       /\ status' = "idle"
       /\ UNCHANGED held
    \/ /\ has_cached_attributes(cache) /\ held
       /\ status' = "unimplemented"
       /\ UNCHANGED <<cache, held>>

Ended ==
    /\ overlay' = DefaultCaches
    /\ unregistered_lightlike' = {} /\ unregistered_reverse' = {}
    /\ late' = {} /\ kept' = {}

commit ==
    /\ status = "open"
    /\ store' = rows
    /\ commit_to
    /\ Ended
    /\ stale' = kept
    /\ UNCHANGED <<topograph, rows>>

rollback ==
    /\ status = "open"
    /\ rows' = store
    /\ status' = "idle"
    /\ Ended
    /\ UNCHANGED <<topograph, store, cache, held, stale>>

Next ==
    \/ \E a \in Attrs, d \in Directions : register(a, d) \/ ip_register(a, d)
    \/ \E as \in { {a} : a \in Attrs } \cup {Attrs} : unregister(as)
    \/ current_cache
    \/ drop_clone
    \/ begin_transaction
    \/ \E a \in Attrs : ip_unregister(a)
    \/ ip_unregister_all
    \/ \E new \in SUBSET Row : transact(new)
    \/ commit
    \/ rollback

Spec == Init /\ [][Next]_vars

-----------------------------------------------------------------------------
\* An answer holds what the rows say.  It is just that if it is exact, and also
\* where only one is kept (a single value, the entity of a unique value).
Answers(answer, said, one, exact) ==
    /\ said \subseteq answer
    /\ exact \/ (one /\ said # {}) => answer = said

(* For an attribute it caches the Conn's cache answers every row that SQLite *)
(* has committed, in both directions and for every kind of attribute, after  *)
(* any sequence of registrations, transacts, commits and rollbacks           *)
(* (commit_to, absorb), and no other row, except where an InProgress         *)
(* registered the attribute again when its last row was retracted (stale):   *)
(* repopulate clears nothing then, and rows that are gone stay until the     *)
(* attribute is unregistered or registered with a row.                       *)
CacheMatchesStore ==
    status \in {"idle", "open"} => \A a \in Attrs :
        /\ a \in cache.lightlike_cached => \A e \in Entities :
             Answers(get_values(cache, a, e), ValuesOf(store, a, e), ~Multival(a), a \notin stale)
        /\ a \in cache.reverse_cached => \A v \in Values :
             Answers(get_causetids(cache, a, v), EntitiesOf(store, a, v), Unique(a), a \notin stale)

(* Inside an InProgress the getters answer every row transacted so far,      *)
(* whether the attribute is read through the overlay, copied on write or not *)
(* yet copied.  They answer no older row, with two exceptions: a single      *)
(* value that was retracted (SingleSeesRows), and an attribute that the      *)
(* InProgress registered over maps of the Conn's cache that disagree with    *)
(* its rows (late), whose missing keys fall through to those maps.           *)
InProgressSeesRows ==
    status = "open" => \A a \in Attrs :
        /\ CachedLightlike(a) => \A e \in Entities :
             LET said == ValuesOf(rows, a, e)
             IN  Answers(ip_get_values(a, e), said, ~Multival(a),
                         a \notin late /\ (Multival(a) \/ said # {}))
        /\ CachedReverse(a) => \A v \in Values :
             Answers(ip_get_causetids(a, v), EntitiesOf(rows, a, v), Unique(a), a \notin late)

(* The same for single values without the exception.  The comment in        *)
(* get_causet_locale_for_causetid says that a value deleted in the overlay  *)
(* does not fall through to the cache below.                                *)
SingleSeesRows ==
    status = "open" => \A a \in Attrs, e \in Entities :
        CachedLightlike(a) /\ ~Multival(a) => ip_get_values(a, e) = ValuesOf(rows, a, e)

(* A watcher's changes always find an arm of accumulate_evs: an attribute   *)
(* that the InProgress takes for cached is cached in its overlay, however   *)
(* it was registered, unregistered and registered again.                    *)
NoUnreachable == status # "unreachable"

(* The comment at the end of commit_to: committing while the Conn's cache   *)
(* is shared "does not currently occur".                                    *)
CommitImplemented == status # "unimplemented"

=============================================================================
