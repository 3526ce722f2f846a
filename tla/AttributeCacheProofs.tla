------------------------- MODULE AttributeCacheProofs -------------------------
(***************************************************************************)
(* Proofs about AttributeCache for any attributes, entities, values and    *)
(* sizes of transactions.                                                  *)
(*                                                                         *)
(* A cached answer is right because of what happened to the attribute      *)
(* since it was registered: whether the overlay has a map of its own, was  *)
(* copied from the Conn's cache or stands for it, and whether that cache's *)
(* map will be forgotten by the commit.  CacheInv and OverlayInv say which *)
(* rows each of the maps shows; `odd` and `behind` stand for the sets of   *)
(* attributes that history exempts from an exact answer.                   *)
(***************************************************************************)
EXTENDS AttributeCache, TLAPS

\* The map m of attribute a answers as the rows rs do.
ShowsValues(m, rs, a, odd) ==
    \A e \in Entities :
        Answers(Present(Lookup(m, e)), ValuesOf(rs, a, e), ~Multival(a), a \notin odd)
ShowsEntities(m, rs, a, odd) ==
    \A v \in Values :
        Answers(Present(Lookup(m, v)), EntitiesOf(rs, a, v), Unique(a), a \notin odd)

\* Only cached attributes have maps.
MapsCached(c) ==
    \A a \in Attrs : /\ c.f[a] # NoCache => a \in c.lightlike_cached
                     /\ c.r[a] # NoCache => a \in c.reverse_cached

RowsInv ==
    /\ Valid(store) /\ Valid(rows)
    /\ status = "idle" => rows = store
    /\ status # "unreachable"

\* The Conn's cache shows what is committed.
CacheInv ==
    /\ MapsCached(cache)
    /\ status \in {"idle", "open"} => \A a \in Attrs :
         /\ a \in cache.lightlike_cached => ShowsValues(cache.f[a], store, a, stale)
         /\ a \in cache.reverse_cached => ShowsEntities(cache.r[a], store, a, stale)

\* What the InProgress takes for cached is cached in its overlay.
LinkInv ==
    /\ MapsCached(overlay)
    /\ status = "open" => \A a \in Attrs :
         /\ CachedLightlike(a) <=> a \in overlay.lightlike_cached
         /\ CachedReverse(a) <=> a \in overlay.reverse_cached

\* A map of the overlay shows the rows so far, and a key it does not hold is
\* one the cache below knows nothing of; without a map the cache's shows them,
\* or none are left for the commit that forgets it.
OverlayShowsValues(a) ==
    IF overlay.f[a] = NoCache
    THEN /\ ShowsValues(cache.f[a], rows, a, kept)
         /\ a \in unregistered_reverse => ~Touched(rows, a)
    ELSE /\ ShowsValues(overlay.f[a], rows, a, kept)
         /\ \A e \in Entities :
              overlay.f[a][e] = Missing /\ a \notin late =>
                Present(Lookup(cache.f[a], e)) = {}

OverlayShowsEntities(a) ==
    IF overlay.r[a] = NoCache
    THEN /\ ShowsEntities(cache.r[a], rows, a, kept)
         /\ a \in unregistered_lightlike => ~Touched(rows, a)
    ELSE /\ ShowsEntities(overlay.r[a], rows, a, kept)
         /\ \A v \in Values :
              overlay.r[a][v] = Missing /\ a \notin late =>
                Present(Lookup(cache.r[a], v)) = {}

OverlayInv ==
    status = "open" => \A a \in Attrs :
        /\ a \in overlay.lightlike_cached => OverlayShowsValues(a)
        /\ a \in overlay.reverse_cached => OverlayShowsEntities(a)

\* NoUnreachable needs no more than this.
LinkInd == TypeOK /\ RowsInv /\ LinkInv

Ind == LinkInd /\ CacheInv /\ OverlayInv

-----------------------------------------------------------------------------
(* Lemmas about the maps. *)

(* A set is not a missing key, and a map is not a missing map.              *)
LEMMA Sentinels ==
    /\ \A s \in SUBSET Values : s # Missing
    /\ \A s \in SUBSET Entities : s # Missing
    /\ \A m \in LightlikeMap : m # NoCache
    /\ \A m \in ReverseMap : m # NoCache
  BY CacheAssumption DEF LightlikeMap, ReverseMap

(* What rows say of an entity is a set of values, of a value one of         *)
(* entities.                                                                *)
LEMMA RowSets ==
    ASSUME NEW rs \in SUBSET Row, NEW a
    PROVE  /\ \A e : ValuesOf(rs, a, e) \in SUBSET Values
           /\ \A v : EntitiesOf(rs, a, v) \in SUBSET Entities
  BY DEF ValuesOf, EntitiesOf, Row

(* The maps keep their shape under set, acc and their removals.             *)
LEMMA MapTypes ==
    ASSUME NEW rs \in SUBSET Row, NEW a
    PROVE  /\ \A m \in LightlikeMap : /\ AddLightlike(m, rs, a) \in LightlikeMap
                                      /\ RemoveLightlike(m, rs, a) \in LightlikeMap
                                      /\ Folded(m) \in LightlikeMap
           /\ \A m \in ReverseMap : /\ AddReverse(m, rs, a) \in ReverseMap
                                    /\ RemoveReverse(m, rs, a) \in ReverseMap
                                    /\ Folded(m) \in ReverseMap
           /\ NoValues \in LightlikeMap
           /\ NoEntities \in ReverseMap
  <1>1. ASSUME NEW m \in LightlikeMap PROVE AddLightlike(m, rs, a) \in LightlikeMap
    BY RowSets DEF AddLightlike, LightlikeMap, Present
  <1>2. ASSUME NEW m \in LightlikeMap PROVE RemoveLightlike(m, rs, a) \in LightlikeMap
    BY RowSets DEF RemoveLightlike, LightlikeMap
  <1>3. ASSUME NEW m \in ReverseMap PROVE AddReverse(m, rs, a) \in ReverseMap
    BY RowSets DEF AddReverse, ReverseMap, Present
  <1>4. ASSUME NEW m \in ReverseMap PROVE RemoveReverse(m, rs, a) \in ReverseMap
    BY RowSets DEF RemoveReverse, ReverseMap
  <1>5. \A m \in LightlikeMap : Folded(m) \in LightlikeMap
    BY DEF Folded, LightlikeMap
  <1>6. \A m \in ReverseMap : Folded(m) \in ReverseMap
    BY DEF Folded, ReverseMap
  <1>7. NoValues \in LightlikeMap /\ NoEntities \in ReverseMap
    BY DEF NoValues, NoEntities, LightlikeMap, ReverseMap
  <1>8. QED
    BY <1>1, <1>2, <1>3, <1>4, <1>5, <1>6, <1>7

(* Rows of other attributes leave a map alone.                              *)
LEMMA Untouched ==
    ASSUME NEW rs \in SUBSET Row, NEW a, ~Touched(rs, a)
    PROVE  /\ \A m \in LightlikeMap : AddLightlike(m, rs, a) = m /\ RemoveLightlike(m, rs, a) = m
           /\ \A m \in ReverseMap : AddReverse(m, rs, a) = m /\ RemoveReverse(m, rs, a) = m
           /\ \A e : ValuesOf(rs, a, e) = {}
           /\ \A v : EntitiesOf(rs, a, v) = {}
  <1>1. (\A e : ValuesOf(rs, a, e) = {}) /\ (\A v : EntitiesOf(rs, a, v) = {})
    BY DEF Touched, ValuesOf, EntitiesOf
  <1>2. ASSUME NEW m \in LightlikeMap
        PROVE  AddLightlike(m, rs, a) = m /\ RemoveLightlike(m, rs, a) = m
    BY <1>1 DEF AddLightlike, RemoveLightlike, LightlikeMap
  <1>3. ASSUME NEW m \in ReverseMap
        PROVE  AddReverse(m, rs, a) = m /\ RemoveReverse(m, rs, a) = m
    BY <1>1 DEF AddReverse, RemoveReverse, ReverseMap
  <1>4. QED
    BY <1>1, <1>2, <1>3

(* What changes between two sets of rows, seen from one entity and from one *)
(* value.                                                                   *)
LEMMA Changes ==
    ASSUME NEW old \in SUBSET Row, NEW new \in SUBSET Row, NEW a
    PROVE  /\ \A e : ValuesOf(old \ new, a, e) = ValuesOf(old, a, e) \ ValuesOf(new, a, e)
           /\ \A v : EntitiesOf(old \ new, a, v) = EntitiesOf(old, a, v) \ EntitiesOf(new, a, v)
  <1>1. \A x, y \in Row : x.e = y.e /\ x.a = y.a /\ x.v = y.v => x = y
    BY DEF Row
  <1>2. QED
    BY <1>1 DEF ValuesOf, EntitiesOf

(* A single value is one value, and a unique value has one entity.          *)
LEMMA ValidSets ==
    ASSUME NEW rs \in SUBSET Row, Valid(rs), NEW a
    PROVE  /\ ~Multival(a) => \A e : \A x, y \in ValuesOf(rs, a, e) : x = y
           /\ Unique(a) => \A v : \A x, y \in EntitiesOf(rs, a, v) : x = y
  BY DEF Valid, ValuesOf, EntitiesOf

\* The map m shows the rows so far, and a key it does not hold is one the
\* cache below knows nothing of.
GoodValues(m, rs, a, low, odd, behind) ==
    /\ m \in LightlikeMap
    /\ \A e \in Entities :
         /\ Answers(Present(m[e]), ValuesOf(rs, a, e), ~Multival(a), a \notin odd)
         /\ m[e] = Missing /\ a \notin behind => Present(Lookup(low, e)) = {}
GoodEntities(m, rs, a, low, odd, behind) ==
    /\ m \in ReverseMap
    /\ \A v \in Values :
         /\ Answers(Present(m[v]), EntitiesOf(rs, a, v), Unique(a), a \notin odd)
         /\ m[v] = Missing /\ a \notin behind => Present(Lookup(low, v)) = {}

(* The removals and then the additions of a transact take a map from the    *)
(* rows before to the rows after it, and leave no new key missing.          *)
LEMMA TransactedValues ==
    ASSUME NEW old \in SUBSET Row, NEW new \in SUBSET Row, Valid(old), Valid(new), NEW a,
           NEW m, NEW low, NEW odd, NEW behind,
           GoodValues(m, old, a, low, odd, behind)
    PROVE  GoodValues(AddLightlike(RemoveLightlike(m, old \ new, a), new \ old, a), new, a, low,
                      odd, behind)
  <1> DEFINE mid == RemoveLightlike(m, old \ new, a)
             n == AddLightlike(mid, new \ old, a)
  <1>a. /\ m \in LightlikeMap
        /\ \A e \in Entities :
             /\ Answers(Present(m[e]), ValuesOf(old, a, e), ~Multival(a), a \notin odd)
             /\ m[e] = Missing /\ a \notin behind => Present(Lookup(low, e)) = {}
    BY DEF GoodValues
  <1>b. n \in LightlikeMap
    <2>1. mid \in LightlikeMap
      BY <1>a, MapTypes
    <2>2. QED
      BY <2>1, MapTypes
  <1> SUFFICES ASSUME NEW e \in Entities
               PROVE  /\ Answers(Present(n[e]), ValuesOf(new, a, e), ~Multival(a), a \notin odd)
                      /\ n[e] = Missing => m[e] = Missing
    BY <1>a, <1>b DEF GoodValues
  <1> DEFINE O == ValuesOf(old, a, e)
             N == ValuesOf(new, a, e)
  <1>1. O \in SUBSET Values /\ N \in SUBSET Values
    BY RowSets
  <1>2. ValuesOf(old \ new, a, e) = O \ N /\ ValuesOf(new \ old, a, e) = N \ O
    <2>1. \A x : ValuesOf(old \ new, a, x) = ValuesOf(old, a, x) \ ValuesOf(new, a, x)
      BY Changes
    <2>2. \A x : ValuesOf(new \ old, a, x) = ValuesOf(new, a, x) \ ValuesOf(old, a, x)
      BY Changes
    <2>3. QED
      BY <2>1, <2>2
  <1>3. /\ Answers(Present(m[e]), O, ~Multival(a), a \notin odd)
        /\ m[e] \in {Missing} \cup SUBSET Values
    BY <1>a DEF LightlikeMap
  <1>4. ~Multival(a) => (\A x, y \in O : x = y) /\ (\A x, y \in N : x = y)
    BY ValidSets
  <1>5. mid[e] = IF O \ N = {} \/ (Multival(a) /\ m[e] = Missing) THEN m[e]
                 ELSE IF Multival(a) THEN m[e] \ (O \ N) ELSE {}
    BY <1>2 DEF RemoveLightlike
  <1>6. n[e] = IF N \ O = {} THEN mid[e]
               ELSE IF Multival(a) THEN Present(mid[e]) \cup (N \ O) ELSE N \ O
    BY <1>2 DEF AddLightlike
  <1>7. \A s \in SUBSET Values : s # Missing
    BY Sentinels
  <1> HIDE DEF O, N, mid, n
  <1>8. ASSUME Multival(a)
        PROVE  /\ Answers(Present(n[e]), N, ~Multival(a), a \notin odd)
               /\ n[e] = Missing => m[e] = Missing
    <2>1. /\ Answers(Present(mid[e]), O \ (O \ N), ~Multival(a), a \notin odd)
          /\ mid[e] = Missing => m[e] = Missing
      BY <1>1, <1>3, <1>5, <1>7, <1>8 DEF Present, Answers
    <2>2. Present(mid[e]) \in SUBSET Values
      BY <1>3, <1>5 DEF Present
    <2>3. Present(n[e]) = Present(mid[e]) \cup (N \ O) /\ (n[e] = Missing => mid[e] = Missing)
      BY <1>1, <1>6, <1>7, <1>8, <2>2 DEF Present
    <2>4. QED
      BY <1>8, <2>1, <2>3 DEF Answers
  <1>9. ASSUME ~Multival(a)
        PROVE  /\ Answers(Present(n[e]), N, ~Multival(a), a \notin odd)
               /\ n[e] = Missing => m[e] = Missing
    <2>1. /\ Answers(Present(mid[e]), O \ (O \ N), ~Multival(a), a \notin odd)
          /\ mid[e] = Missing => m[e] = Missing
      BY <1>1, <1>3, <1>4, <1>5, <1>7, <1>9 DEF Present, Answers
    <2>2. QED
      BY <1>1, <1>4, <1>6, <1>7, <1>9, <2>1 DEF Present, Answers
  <1>10. QED
    BY <1>8, <1>9 DEF O, N

(* The same for the map from values to entities.                            *)
LEMMA TransactedEntities ==
    ASSUME NEW old \in SUBSET Row, NEW new \in SUBSET Row, Valid(old), Valid(new), NEW a,
           NEW m, NEW low, NEW odd, NEW behind,
           GoodEntities(m, old, a, low, odd, behind)
    PROVE  GoodEntities(AddReverse(RemoveReverse(m, old \ new, a), new \ old, a), new, a, low,
                      odd, behind)
  <1> DEFINE mid == RemoveReverse(m, old \ new, a)
             n == AddReverse(mid, new \ old, a)
  <1>a. /\ m \in ReverseMap
        /\ \A v \in Values :
             /\ Answers(Present(m[v]), EntitiesOf(old, a, v), Unique(a), a \notin odd)
             /\ m[v] = Missing /\ a \notin behind => Present(Lookup(low, v)) = {}
    BY DEF GoodEntities
  <1>b. n \in ReverseMap
    <2>1. mid \in ReverseMap
      BY <1>a, MapTypes
    <2>2. QED
      BY <2>1, MapTypes
  <1> SUFFICES ASSUME NEW v \in Values
               PROVE  /\ Answers(Present(n[v]), EntitiesOf(new, a, v), Unique(a), a \notin odd)
                      /\ n[v] = Missing => m[v] = Missing
    BY <1>a, <1>b DEF GoodEntities
  <1> DEFINE O == EntitiesOf(old, a, v)
             N == EntitiesOf(new, a, v)
  <1>1. O \in SUBSET Entities /\ N \in SUBSET Entities
    BY RowSets
  <1>2. EntitiesOf(old \ new, a, v) = O \ N /\ EntitiesOf(new \ old, a, v) = N \ O
    <2>1. \A x : EntitiesOf(old \ new, a, x) = EntitiesOf(old, a, x) \ EntitiesOf(new, a, x)
      BY Changes
    <2>2. \A x : EntitiesOf(new \ old, a, x) = EntitiesOf(new, a, x) \ EntitiesOf(old, a, x)
      BY Changes
    <2>3. QED
      BY <2>1, <2>2
  <1>3. /\ Answers(Present(m[v]), O, Unique(a), a \notin odd)
        /\ m[v] \in {Missing} \cup SUBSET Entities
    BY <1>a DEF ReverseMap
  <1>4. Unique(a) => (\A x, y \in O : x = y) /\ (\A x, y \in N : x = y)
    BY ValidSets
  <1>5. mid[v] = IF O \ N = {} \/ (~Unique(a) /\ m[v] = Missing) THEN m[v]
                 ELSE IF Unique(a) THEN {} ELSE m[v] \ (O \ N)
    BY <1>2 DEF RemoveReverse
  <1>6. n[v] = IF N \ O = {} THEN mid[v]
               ELSE IF Unique(a) THEN N \ O ELSE Present(mid[v]) \cup (N \ O)
    BY <1>2 DEF AddReverse
  <1>7. \A s \in SUBSET Entities : s # Missing
    BY Sentinels
  <1> HIDE DEF O, N, mid, n
  <1>8. ASSUME ~Unique(a)
        PROVE  /\ Answers(Present(n[v]), N, Unique(a), a \notin odd)
               /\ n[v] = Missing => m[v] = Missing
    <2>1. /\ Answers(Present(mid[v]), O \ (O \ N), Unique(a), a \notin odd)
          /\ mid[v] = Missing => m[v] = Missing
      BY <1>1, <1>3, <1>5, <1>7, <1>8 DEF Present, Answers
    <2>2. Present(mid[v]) \in SUBSET Entities
      BY <1>3, <1>5 DEF Present
    <2>3. Present(n[v]) = Present(mid[v]) \cup (N \ O) /\ (n[v] = Missing => mid[v] = Missing)
      BY <1>1, <1>6, <1>7, <1>8, <2>2 DEF Present
    <2>4. QED
      BY <1>8, <2>1, <2>3 DEF Answers
  <1>9. ASSUME Unique(a)
        PROVE  /\ Answers(Present(n[v]), N, Unique(a), a \notin odd)
               /\ n[v] = Missing => m[v] = Missing
    <2>1. /\ Answers(Present(mid[v]), O \ (O \ N), Unique(a), a \notin odd)
          /\ mid[v] = Missing => m[v] = Missing
      BY <1>1, <1>3, <1>4, <1>5, <1>7, <1>9 DEF Present, Answers
    <2>2. QED
      BY <1>1, <1>4, <1>6, <1>7, <1>9, <2>1 DEF Present, Answers
  <1>10. QED
    BY <1>8, <1>9 DEF O, N

(* A map filled from nothing shows the rows it was filled from.             *)
LEMMA FilledValues ==
    ASSUME NEW rs \in SUBSET Row, NEW a
    PROVE  \A odd : ShowsValues(AddLightlike(NoValues, rs, a), rs, a, odd)
  <1>1. ASSUME NEW e \in Entities
        PROVE  Present(AddLightlike(NoValues, rs, a)[e]) = ValuesOf(rs, a, e)
    <2>1. AddLightlike(NoValues, rs, a)[e] =
            IF ValuesOf(rs, a, e) = {} THEN Missing
            ELSE IF Multival(a) THEN Present(Missing) \cup ValuesOf(rs, a, e)
                 ELSE ValuesOf(rs, a, e)
      BY DEF AddLightlike, NoValues
    <2>2. ValuesOf(rs, a, e) \in SUBSET Values
      BY RowSets
    <2>3. QED
      BY <2>1, <2>2, Sentinels DEF Present
  <1>2. AddLightlike(NoValues, rs, a) # NoCache
    BY MapTypes, Sentinels
  <1>3. QED
    BY <1>1, <1>2 DEF ShowsValues, Lookup, Answers

(* The same for the map from values to entities.                            *)
LEMMA FilledEntities ==
    ASSUME NEW rs \in SUBSET Row, NEW a
    PROVE  \A odd : ShowsEntities(AddReverse(NoEntities, rs, a), rs, a, odd)
  <1>1. ASSUME NEW v \in Values
        PROVE  Present(AddReverse(NoEntities, rs, a)[v]) = EntitiesOf(rs, a, v)
    <2>1. AddReverse(NoEntities, rs, a)[v] =
            IF EntitiesOf(rs, a, v) = {} THEN Missing
            ELSE IF Unique(a) THEN EntitiesOf(rs, a, v)
                 ELSE Present(Missing) \cup EntitiesOf(rs, a, v)
      BY DEF AddReverse, NoEntities
    <2>2. EntitiesOf(rs, a, v) \in SUBSET Entities
      BY RowSets
    <2>3. QED
      BY <2>1, <2>2, Sentinels DEF Present
  <1>2. AddReverse(NoEntities, rs, a) # NoCache
    BY MapTypes, Sentinels
  <1>3. QED
    BY <1>1, <1>2 DEF ShowsEntities, Lookup, Answers

(* Folding deletions in does not change an answer.                          *)
LEMMA FoldedAnswers ==
    ASSUME NEW m, NEW k \in DOMAIN m
    PROVE  Present(Folded(m)[k]) = Present(m[k])
  BY DEF Folded, Present

-----------------------------------------------------------------------------
(* What the operations on caches do to the maps of one attribute. *)

(* A fresh AttributeCaches caches nothing.                                  *)
LEMMA DefaultShape ==
    /\ DefaultCaches \in Caches
    /\ DefaultCaches.lightlike_cached = {} /\ DefaultCaches.reverse_cached = {}
    /\ \A a \in Attrs : DefaultCaches.f[a] = NoCache /\ DefaultCaches.r[a] = NoCache
  BY DEF DefaultCaches, Caches

(* Marking an attribute as cached leaves the maps alone (register).         *)
LEMMA MarkShape ==
    ASSUME NEW c \in Caches, NEW a \in Attrs, NEW d \in Directions
    PROVE  /\ Mark(c, a, d) \in Caches
           /\ Mark(c, a, d).f = c.f /\ Mark(c, a, d).r = c.r
           /\ Mark(c, a, d).lightlike_cached =
                IF d[1] THEN c.lightlike_cached \cup {a} ELSE c.lightlike_cached
           /\ Mark(c, a, d).reverse_cached =
                IF d[2] THEN c.reverse_cached \cup {a} ELSE c.reverse_cached
  BY DEF Mark, Caches

\* The caches n are c after a SELECT of attribute a.
Repopulated(n, c, rs, a) ==
    /\ n \in Caches
    /\ n.lightlike_cached = c.lightlike_cached
    /\ n.reverse_cached = c.reverse_cached
    /\ \A b \in Attrs :
         /\ n.f[b] = IF b = a /\ Touched(rs, a) /\ a \in c.lightlike_cached
                     THEN AddLightlike(NoValues, rs, a) ELSE c.f[b]
         /\ n.r[b] = IF b = a /\ Touched(rs, a) /\ a \in c.reverse_cached
                     THEN AddReverse(NoEntities, rs, a) ELSE c.r[b]

(* repopulate replaces the maps of the attribute it has found rows of.      *)
LEMMA RepopulateShape ==
    ASSUME NEW c \in Caches, NEW rs \in SUBSET Row, NEW a \in Attrs
    PROVE  Repopulated(repopulate(c, rs, a), c, rs, a)
  <1>1. AddLightlike(NoValues, rs, a) \in LightlikeMap /\ AddReverse(NoEntities, rs, a) \in ReverseMap
    BY MapTypes
  <1>2. CASE Touched(rs, a)
    BY <1>1, <1>2 DEF repopulate, Caches, Repopulated
  <1>3. CASE ~Touched(rs, a)
    BY <1>3 DEF repopulate, Repopulated
  <1>4. QED
    BY <1>2, <1>3

\* The caches n are c without the attributes as.
Unregistered(n, c, as) ==
    /\ n \in Caches
    /\ n.lightlike_cached = c.lightlike_cached \ as
    /\ n.reverse_cached = c.reverse_cached \ as
    /\ \A b \in Attrs : /\ n.f[b] = IF b \in as THEN NoCache ELSE c.f[b]
                        /\ n.r[b] = IF b \in as THEN NoCache ELSE c.r[b]

(* unregister_attributes forgets the attributes and their maps.             *)
LEMMA UnregisterShape ==
    ASSUME NEW c \in Caches, NEW as
    PROVE  Unregistered(unregister_attributes(c, as), c, as)
  BY DEF unregister_attributes, Caches, Unregistered

\* The caches n are c with the others absorbed.
Absorbed(n, c, other) ==
    /\ n \in Caches
    /\ n.lightlike_cached = c.lightlike_cached \cup other.lightlike_cached
    /\ n.reverse_cached = c.reverse_cached \cup other.reverse_cached
    /\ \A b \in Attrs :
         /\ n.f[b] = IF other.f[b] = NoCache THEN c.f[b] ELSE Folded(other.f[b])
         /\ n.r[b] = IF other.r[b] = NoCache THEN c.r[b] ELSE Folded(other.r[b])

(* A map of the others replaces one of c.                                   *)
LEMMA AbsorbShape ==
    ASSUME NEW c \in Caches, NEW other \in Caches
    PROVE  Absorbed(absorb(c, other), c, other)
  <1>1. \A b \in Attrs : other.f[b] # NoCache => Folded(other.f[b]) \in LightlikeMap
    BY MapTypes DEF Caches
  <1>2. \A b \in Attrs : other.r[b] # NoCache => Folded(other.r[b]) \in ReverseMap
    BY MapTypes DEF Caches
  <1>3. QED
    BY <1>1, <1>2 DEF absorb, Caches, Absorbed

\* The caches n are c after accumulate_evs, of removals and then additions.
Updated(n, c, low, gone, come) ==
    /\ n \in Caches
    /\ n.lightlike_cached = c.lightlike_cached
    /\ n.reverse_cached = c.reverse_cached
    /\ \A b \in Attrs :
         /\ fmc(c, low, b) \in LightlikeMap
         /\ rnuc(c, low, b) \in ReverseMap
         /\ n.f[b] = IF Touched(gone \cup come, b) /\ b \in c.lightlike_cached
                     THEN AddLightlike(RemoveLightlike(fmc(c, low, b), gone, b), come, b)
                     ELSE c.f[b]
         /\ n.r[b] = IF Touched(gone \cup come, b) /\ b \in c.reverse_cached
                     THEN AddReverse(RemoveReverse(rnuc(c, low, b), gone, b), come, b)
                     ELSE c.r[b]

(* The maps that accumulate_evs changes, after removals and additions.      *)
LEMMA UpdateShape ==
    ASSUME NEW c \in Caches, NEW low \in Caches,
           NEW gone \in SUBSET Row, NEW come \in SUBSET Row
    PROVE  Updated(update_with_fallback(c, low, gone, come), c, low, gone, come)
  <1> DEFINE n == update_with_fallback(c, low, gone, come)
  <1> DEFINE mid == accumulate_removals(c, low, gone)
  <1>0. n = accumulate_additions(mid, low, come)
    BY DEF update_with_fallback
  <1> HIDE DEF n
  <1>1. \A b \in Attrs : fmc(c, low, b) \in LightlikeMap /\ rnuc(c, low, b) \in ReverseMap
    BY MapTypes DEF fmc, rnuc, Entry, Caches
  <1>2. \A b \in Attrs : /\ RemoveLightlike(fmc(c, low, b), gone, b) \in LightlikeMap
                         /\ RemoveReverse(rnuc(c, low, b), gone, b) \in ReverseMap
    BY <1>1, MapTypes
  <1>3. /\ mid \in Caches
        /\ mid.lightlike_cached = c.lightlike_cached /\ mid.reverse_cached = c.reverse_cached
        /\ \A b \in Attrs :
             /\ mid.f[b] = IF Touched(gone, b) /\ b \in c.lightlike_cached
                           THEN RemoveLightlike(fmc(c, low, b), gone, b) ELSE c.f[b]
             /\ mid.r[b] = IF Touched(gone, b) /\ b \in c.reverse_cached
                           THEN RemoveReverse(rnuc(c, low, b), gone, b) ELSE c.r[b]
    BY <1>2 DEF accumulate_removals, Caches
  <1> HIDE DEF mid
  <1>4. \A b \in Attrs : fmc(mid, low, b) \in LightlikeMap /\ rnuc(mid, low, b) \in ReverseMap
    BY <1>3, MapTypes DEF fmc, rnuc, Entry, Caches
  <1>5. \A b \in Attrs : /\ AddLightlike(fmc(mid, low, b), come, b) \in LightlikeMap
                         /\ AddReverse(rnuc(mid, low, b), come, b) \in ReverseMap
    BY <1>4, MapTypes
  <1> DEFINE new == accumulate_additions(mid, low, come)
  <1>6a. /\ new \in Caches
         /\ new.lightlike_cached = mid.lightlike_cached /\ new.reverse_cached = mid.reverse_cached
         /\ \A b \in Attrs :
              /\ new.f[b] = IF Touched(come, b) /\ b \in mid.lightlike_cached
                          THEN AddLightlike(fmc(mid, low, b), come, b) ELSE mid.f[b]
              /\ new.r[b] = IF Touched(come, b) /\ b \in mid.reverse_cached
                          THEN AddReverse(rnuc(mid, low, b), come, b) ELSE mid.r[b]
    BY <1>3, <1>5 DEF accumulate_additions, Caches
  <1> HIDE DEF new
  <1>6. /\ n \in Caches
        /\ n.lightlike_cached = mid.lightlike_cached /\ n.reverse_cached = mid.reverse_cached
        /\ \A b \in Attrs :
             /\ n.f[b] = IF Touched(come, b) /\ b \in mid.lightlike_cached
                         THEN AddLightlike(fmc(mid, low, b), come, b) ELSE mid.f[b]
             /\ n.r[b] = IF Touched(come, b) /\ b \in mid.reverse_cached
                         THEN AddReverse(rnuc(mid, low, b), come, b) ELSE mid.r[b]
    BY <1>0, <1>6a DEF new
  <1>7. \A b : Touched(gone \cup come, b) <=> Touched(gone, b) \/ Touched(come, b)
    BY DEF Touched
  <1>8. ASSUME NEW b \in Attrs
        PROVE  n.f[b] = IF Touched(gone \cup come, b) /\ b \in c.lightlike_cached
                        THEN AddLightlike(RemoveLightlike(fmc(c, low, b), gone, b), come, b)
                        ELSE c.f[b]
    <2>1. CASE Touched(gone, b) /\ b \in c.lightlike_cached
      <3>1. fmc(mid, low, b) = mid.f[b] /\ mid.f[b] = RemoveLightlike(fmc(c, low, b), gone, b)
        BY <1>2, <1>3, <2>1, Sentinels DEF fmc, Entry
      <3>2. ASSUME ~Touched(come, b) PROVE AddLightlike(mid.f[b], come, b) = mid.f[b]
        <4>1. mid.f[b] \in LightlikeMap
          BY <1>2, <3>1
        <4>2. \A m \in LightlikeMap : AddLightlike(m, come, b) = m
          BY <3>2, Untouched
        <4>3. QED
          BY <4>1, <4>2
      <3>3. QED
        BY <1>3, <1>6, <1>7, <2>1, <3>1, <3>2
    <2>2. CASE ~Touched(gone, b) /\ b \in c.lightlike_cached
      <3>1. mid.f[b] = c.f[b]
        BY <1>3, <2>2
      <3>2. fmc(mid, low, b) = fmc(c, low, b)
        BY <3>1 DEF fmc
      <3>3. RemoveLightlike(fmc(c, low, b), gone, b) = fmc(c, low, b)
        <4>1. \A m \in LightlikeMap : RemoveLightlike(m, gone, b) = m
          BY <2>2, Untouched
        <4>2. QED
          BY <1>1, <4>1
      <3>4. QED
        BY <1>3, <1>6, <1>7, <2>2, <3>1, <3>2, <3>3
    <2>3. CASE b \notin c.lightlike_cached
      BY <1>3, <1>6, <2>3
    <2>4. QED
      BY <2>1, <2>2, <2>3
  <1>9. ASSUME NEW b \in Attrs
        PROVE  n.r[b] = IF Touched(gone \cup come, b) /\ b \in c.reverse_cached
                        THEN AddReverse(RemoveReverse(rnuc(c, low, b), gone, b), come, b)
                        ELSE c.r[b]
    <2>1. CASE Touched(gone, b) /\ b \in c.reverse_cached
      <3>1. rnuc(mid, low, b) = mid.r[b] /\ mid.r[b] = RemoveReverse(rnuc(c, low, b), gone, b)
        BY <1>2, <1>3, <2>1, Sentinels DEF rnuc, Entry
      <3>2. ASSUME ~Touched(come, b) PROVE AddReverse(mid.r[b], come, b) = mid.r[b]
        <4>1. mid.r[b] \in ReverseMap
          BY <1>2, <3>1
        <4>2. \A m \in ReverseMap : AddReverse(m, come, b) = m
          BY <3>2, Untouched
        <4>3. QED
          BY <4>1, <4>2
      <3>3. QED
        BY <1>3, <1>6, <1>7, <2>1, <3>1, <3>2
    <2>2. CASE ~Touched(gone, b) /\ b \in c.reverse_cached
      <3>1. mid.r[b] = c.r[b]
        BY <1>3, <2>2
      <3>2. rnuc(mid, low, b) = rnuc(c, low, b)
        BY <3>1 DEF rnuc
      <3>3. RemoveReverse(rnuc(c, low, b), gone, b) = rnuc(c, low, b)
        <4>1. \A m \in ReverseMap : RemoveReverse(m, gone, b) = m
          <5>1. ~Touched(gone, b)
            BY <2>2
          <5>2. QED
            BY <5>1, Untouched
        <4>2. QED
          BY <1>1, <4>1
      <3>4. QED
        BY <1>3, <1>6, <1>7, <2>2, <3>1, <3>2, <3>3
    <2>3. CASE b \notin c.reverse_cached
      BY <1>3, <1>6, <2>3
    <2>4. QED
      BY <2>1, <2>2, <2>3
  <1>10. Updated(n, c, low, gone, come)
    BY <1>1, <1>3, <1>6, <1>8, <1>9 DEF Updated
  <1>11. QED
    BY <1>10 DEF n

-----------------------------------------------------------------------------
(* Every attribute that the InProgress takes for cached has its arm. *)

(* The watcher keeps rows of attributes that some cache has.                *)
LEMMA CollectedRows ==
    ASSUME NEW rs \in SUBSET Row
    PROVE  /\ Collected(rs) \in SUBSET Row
           /\ \A row \in Collected(rs) : row.a \in Attrs /\ (CachedLightlike(row.a) \/ CachedReverse(row.a))
  BY DEF Collected, Row

(* Every operation keeps the type.                                          *)
LEMMA TypeStep == TypeOK /\ [Next]_vars => TypeOK'
  <1> SUFFICES ASSUME TypeOK, [Next]_vars PROVE TypeOK'
    OBVIOUS
  <1> USE DEF TypeOK, inProgress, history
  <1>1. ASSUME NEW a \in Attrs, NEW d \in Directions, register(a, d) PROVE TypeOK'
    BY <1>1, MarkShape, RepopulateShape DEF register, Repopulated
  <1>2. ASSUME NEW a \in Attrs, NEW d \in Directions, ip_register(a, d) PROVE TypeOK'
    <2>1. overlay' \in Caches
      BY <1>2, MarkShape, RepopulateShape DEF ip_register, Repopulated
    <2>2. QED
      BY <1>2, <2>1 DEF ip_register
  <1>3. ASSUME NEW as, unregister(as) PROVE TypeOK'
    BY <1>3, UnregisterShape DEF unregister, Unregistered
  <1>4. CASE current_cache
    BY <1>4 DEF current_cache
  <1>5. CASE drop_clone
    BY <1>5 DEF drop_clone
  <1>6. CASE begin_transaction
    <2>1. overlay' \in Caches
      BY <1>6, DefaultShape DEF begin_transaction, Caches
    <2>2. QED
      BY <1>6, <2>1 DEF begin_transaction
  <1>7. ASSUME NEW a \in Attrs, ip_unregister(a) PROVE TypeOK'
    BY <1>7, UnregisterShape DEF ip_unregister, Unregistered
  <1>8. CASE ip_unregister_all
    <2>1. overlay' \in Caches
      BY <1>8, UnregisterShape DEF ip_unregister_all, Unregistered
    <2>2. cache.lightlike_cached \subseteq Attrs /\ cache.reverse_cached \subseteq Attrs
      BY DEF Caches
    <2>3. QED
      BY <1>8, <2>1, <2>2 DEF ip_unregister_all
  <1>9. ASSUME NEW new \in SUBSET Row, transact(new) PROVE TypeOK'
    <2>1. Collected(rows \ new) \in SUBSET Row /\ Collected(new \ rows) \in SUBSET Row
      BY CollectedRows
    <2>2. update_with_fallback(overlay, cache, Collected(rows \ new), Collected(new \ rows)) \in Caches
      BY <2>1, UpdateShape DEF Updated
    <2>3. QED
      BY <1>9, <2>2 DEF transact
  <1>10. CASE commit
    <2>1. absorb(unregister_attributes(cache, unregistered_lightlike \cup unregistered_reverse),
                 overlay) \in Caches
      BY UnregisterShape, AbsorbShape DEF Absorbed, Unregistered
    <2>2. cache' \in Caches /\ held' \in BOOLEAN /\ status' \in {"idle", "unimplemented"}
      BY <1>10, <2>1 DEF commit, commit_to
    <2>3. QED
      BY <1>10, <2>2, DefaultShape DEF commit, Ended
  <1>11. CASE rollback
    BY <1>11, DefaultShape DEF rollback, Ended
  <1>12. CASE UNCHANGED vars
    BY <1>12 DEF vars
  <1>13. QED
    BY <1>1, <1>2, <1>3, <1>4, <1>5, <1>6, <1>7, <1>8, <1>9, <1>10, <1>11, <1>12 DEF Next

(* The changes a watcher is told are of attributes that the overlay caches. *)
LEMMA NeverUnmatched ==
    ASSUME TypeOK, LinkInv, status = "open", NEW new \in SUBSET Row
    PROVE  ~Unmatched(overlay, Collected(rows \ new) \cup Collected(new \ rows))
  <1>1. rows \ new \in SUBSET Row /\ new \ rows \in SUBSET Row
    BY DEF TypeOK
  <1>2. \A row \in Collected(rows \ new) \cup Collected(new \ rows) :
          row.a \in Attrs /\ (CachedLightlike(row.a) \/ CachedReverse(row.a))
    BY <1>1, CollectedRows
  <1>3. QED
    BY <1>2 DEF LinkInv, Unmatched

(* Every operation keeps the rows unique and of their cardinality, and those *)
(* outside a transaction those of the store.                                *)
LEMMA RowsStep == TypeOK /\ LinkInv /\ RowsInv /\ [Next]_vars => RowsInv'
  <1> SUFFICES ASSUME TypeOK, LinkInv, RowsInv, [Next]_vars PROVE RowsInv'
    OBVIOUS
  <1> USE DEF inProgress, history
  <1>1. ASSUME UNCHANGED <<topograph, store, rows>>, status' \in {status, "open"},
               status \in {"idle", "open"} \/ UNCHANGED status
        PROVE  RowsInv'
    BY <1>1 DEF RowsInv, Valid, Multival, Unique
  <1>2. ASSUME NEW new \in SUBSET Row, transact(new) PROVE RowsInv'
    <2>1. ~Unmatched(overlay, Collected(rows \ new) \cup Collected(new \ rows))
      BY <1>2, NeverUnmatched DEF transact
    <2>2. /\ rows' = new /\ Valid(new) /\ UNCHANGED <<topograph, store, status>>
          /\ status = "open"
      BY <1>2, <2>1 DEF transact
    <2>3. QED
      BY <2>2 DEF RowsInv, Valid, Multival, Unique
  <1>3. CASE commit
    <2>1. store' = rows /\ UNCHANGED <<topograph, rows>> /\ status' \in {"idle", "unimplemented"}
      BY <1>3 DEF commit, commit_to
    <2>2. QED
      BY <2>1 DEF RowsInv, Valid, Multival, Unique
  <1>4. CASE rollback
    <2>1. rows' = store /\ UNCHANGED <<topograph, store>> /\ status' = "idle"
      BY <1>4 DEF rollback
    <2>2. QED
      BY <2>1 DEF RowsInv, Valid, Multival, Unique
  <1>5. QED
    BY <1>1, <1>2, <1>3, <1>4
       DEF Next, register, ip_register, unregister, current_cache, drop_clone,
           begin_transaction, ip_unregister, ip_unregister_all, vars

(* Registering and unregistering in an InProgress keep the overlay and the  *)
(* two sets of attributes to forget in step.                                *)
LEMMA LinkStep == TypeOK /\ RowsInv /\ LinkInv /\ [Next]_vars => LinkInv'
  <1> SUFFICES ASSUME TypeOK, RowsInv, LinkInv, [Next]_vars PROVE LinkInv'
    OBVIOUS
  <1> USE DEF inProgress, history
  <1>a. cache \in Caches /\ overlay \in Caches
    BY DEF TypeOK
  <1>1. ASSUME UNCHANGED <<cache, inProgress, status>> PROVE LinkInv'
    BY <1>1 DEF LinkInv, MapsCached, CachedLightlike, CachedReverse
  <1>2. ASSUME UNCHANGED <<inProgress, status>>, status = "idle" PROVE LinkInv'
    BY <1>2 DEF LinkInv, MapsCached
  <1>3. ASSUME overlay' = DefaultCaches, status' # "open" PROVE LinkInv'
    BY <1>3, DefaultShape DEF LinkInv, MapsCached
  <1>4. ASSUME NEW a \in Attrs, NEW d \in Directions, ip_register(a, d) PROVE LinkInv'
    <2> DEFINE k == Mark(overlay, a, d)
               o == repopulate(k, rows, a)
    <2>1. /\ k \in Caches /\ rows \in SUBSET Row
          /\ k.f = overlay.f /\ k.r = overlay.r
          /\ k.lightlike_cached = IF d[1] THEN overlay.lightlike_cached \cup {a}
                                  ELSE overlay.lightlike_cached
          /\ k.reverse_cached = IF d[2] THEN overlay.reverse_cached \cup {a}
                                ELSE overlay.reverse_cached
      BY <1>a, MarkShape DEF TypeOK
    <2> HIDE DEF k
    <2>2. o.lightlike_cached = k.lightlike_cached /\ o.reverse_cached = k.reverse_cached
      BY <2>1, RepopulateShape DEF Repopulated
    <2>3. \A b \in Attrs : /\ o.f[b] # NoCache => k.f[b] # NoCache \/ b \in k.lightlike_cached
                           /\ o.r[b] # NoCache => k.r[b] # NoCache \/ b \in k.reverse_cached
      BY <2>1, RepopulateShape DEF Repopulated
    <2> HIDE DEF o
    <2>4. MapsCached(o)
      BY <2>1, <2>2, <2>3 DEF LinkInv, MapsCached
    <2>5. /\ overlay' = o /\ UNCHANGED <<cache, status>> /\ status = "open"
          /\ unregistered_lightlike' = IF d[1] THEN unregistered_lightlike \ {a}
                                       ELSE unregistered_lightlike
          /\ unregistered_reverse' = IF d[2] THEN unregistered_reverse \ {a}
                                     ELSE unregistered_reverse
      BY <1>4 DEF ip_register, o, k
    <2>6. \A b \in Attrs : CachedLightlike(b)' <=> b \in o.lightlike_cached
      BY <2>1, <2>2, <2>5 DEF LinkInv, CachedLightlike
    <2>7. \A b \in Attrs : CachedReverse(b)' <=> b \in o.reverse_cached
      BY <2>1, <2>2, <2>5 DEF LinkInv, CachedReverse
    <2>8. QED
      BY <2>4, <2>5, <2>6, <2>7 DEF LinkInv, MapsCached
  <1>5. CASE begin_transaction
    <2>1. /\ overlay'.lightlike_cached = cache.lightlike_cached
          /\ overlay'.reverse_cached = cache.reverse_cached
          /\ overlay'.f = DefaultCaches.f /\ overlay'.r = DefaultCaches.r
          /\ unregistered_lightlike' = {} /\ unregistered_reverse' = {} /\ UNCHANGED cache
      BY <1>5, DefaultShape DEF begin_transaction, Caches
    <2>2. QED
      BY <2>1, DefaultShape DEF LinkInv, MapsCached, CachedLightlike, CachedReverse
  <1>6. ASSUME NEW as \in SUBSET Attrs, overlay' = unregister_attributes(overlay, as),
               UNCHANGED <<cache, status>>,
               \A b \in Attrs \ as : b \in unregistered_lightlike' <=> b \in unregistered_lightlike,
               \A b \in Attrs \ as : b \in unregistered_reverse' <=> b \in unregistered_reverse,
               \A b \in as : b \in cache.lightlike_cached => b \in unregistered_lightlike',
               \A b \in as : b \in cache.reverse_cached => b \in unregistered_reverse'
        PROVE  LinkInv'
    <2>1. /\ overlay'.lightlike_cached = overlay.lightlike_cached \ as
          /\ overlay'.reverse_cached = overlay.reverse_cached \ as
          /\ \A b \in Attrs : /\ overlay'.f[b] = IF b \in as THEN NoCache ELSE overlay.f[b]
                              /\ overlay'.r[b] = IF b \in as THEN NoCache ELSE overlay.r[b]
      <3> DEFINE o == unregister_attributes(overlay, as)
      <3>1. /\ o.lightlike_cached = overlay.lightlike_cached \ as
            /\ o.reverse_cached = overlay.reverse_cached \ as
            /\ \A b \in Attrs : /\ o.f[b] = IF b \in as THEN NoCache ELSE overlay.f[b]
                                /\ o.r[b] = IF b \in as THEN NoCache ELSE overlay.r[b]
        <4>1. Unregistered(o, overlay, as)
          BY <1>a, UnregisterShape
        <4> HIDE DEF o
        <4>2. QED
          BY <4>1 DEF Unregistered
      <3>2. overlay' = o
        BY <1>6
      <3> HIDE DEF o
      <3>3. QED
        BY <3>1, <3>2
    <2>2. MapsCached(overlay')
      BY <2>1 DEF LinkInv, MapsCached
    <2>3. ASSUME status = "open", NEW b \in Attrs
          PROVE  CachedLightlike(b)' <=> b \in overlay'.lightlike_cached
      BY <1>6, <2>1, <2>3 DEF LinkInv, CachedLightlike
    <2>4. ASSUME status = "open", NEW b \in Attrs
          PROVE  CachedReverse(b)' <=> b \in overlay'.reverse_cached
      BY <1>6, <2>1, <2>4 DEF LinkInv, CachedReverse
    <2>5. QED
      BY <1>6, <2>2, <2>3, <2>4 DEF LinkInv, MapsCached
  <1>7. ASSUME NEW a \in Attrs, ip_unregister(a) PROVE LinkInv'
    BY <1>6, <1>7 DEF ip_unregister
  <1>8. CASE ip_unregister_all
    BY <1>6, <1>8 DEF ip_unregister_all
  <1>9. ASSUME NEW new \in SUBSET Row, transact(new) PROVE LinkInv'
    <2> DEFINE gone == Collected(rows \ new)
               come == Collected(new \ rows)
    <2>1. gone \in SUBSET Row /\ come \in SUBSET Row
      BY CollectedRows DEF TypeOK
    <2>2. ~Unmatched(overlay, gone \cup come)
      BY <1>9, NeverUnmatched DEF transact
    <2>3. /\ overlay' = update_with_fallback(overlay, cache, gone, come) /\ status' = status
          /\ UNCHANGED <<cache, unregistered_lightlike, unregistered_reverse>>
      BY <1>9, <2>2 DEF transact
    <2> HIDE DEF gone, come
    <2>4. /\ overlay'.lightlike_cached = overlay.lightlike_cached
          /\ overlay'.reverse_cached = overlay.reverse_cached
          /\ \A b \in Attrs :
               /\ overlay'.f[b] # NoCache => overlay.f[b] # NoCache \/ b \in overlay.lightlike_cached
               /\ overlay'.r[b] # NoCache => overlay.r[b] # NoCache \/ b \in overlay.reverse_cached
      <3>1. Updated(overlay', overlay, cache, gone, come)
        BY <1>a, <2>1, <2>3, UpdateShape
      <3>2. QED
        BY <3>1 DEF Updated
    <2>5. MapsCached(overlay')
      BY <2>4 DEF LinkInv, MapsCached
    <2>6. ASSUME status = "open", NEW b \in Attrs
          PROVE  CachedLightlike(b)' <=> b \in overlay'.lightlike_cached
      BY <2>3, <2>4, <2>6 DEF LinkInv, CachedLightlike
    <2>7. ASSUME status = "open", NEW b \in Attrs
          PROVE  CachedReverse(b)' <=> b \in overlay'.reverse_cached
      BY <2>3, <2>4, <2>7 DEF LinkInv, CachedReverse
    <2>8. QED
      BY <2>3, <2>5, <2>6, <2>7 DEF LinkInv, MapsCached
  <1>10. CASE commit
    BY <1>3, <1>10 DEF commit, commit_to, Ended
  <1>11. CASE rollback
    BY <1>3, <1>11 DEF rollback, Ended
  <1>12. QED
    BY <1>1, <1>2, <1>4, <1>5, <1>7, <1>8, <1>9, <1>10, <1>11
       DEF Next, register, unregister, current_cache, drop_clone, vars

-----------------------------------------------------------------------------
(* The answers of the Conn's cache and of the overlay. *)

(* OverlayShowsValues and OverlayShowsEntities read through GoodValues and  *)
(* GoodEntities.                                                            *)
LEMMA OverlayMaps ==
    ASSUME TypeOK, NEW a \in Attrs
    PROVE  /\ overlay.f[a] # NoCache =>
                (OverlayShowsValues(a) <=> GoodValues(overlay.f[a], rows, a, cache.f[a], kept, late))
           /\ overlay.r[a] # NoCache =>
                (OverlayShowsEntities(a) <=> GoodEntities(overlay.r[a], rows, a, cache.r[a], kept, late))
  <1>1. overlay.f[a] # NoCache => overlay.f[a] \in LightlikeMap
    BY DEF TypeOK, Caches
  <1>2. overlay.r[a] # NoCache => overlay.r[a] \in ReverseMap
    BY DEF TypeOK, Caches
  <1>3. QED
    BY <1>1, <1>2 DEF OverlayShowsValues, OverlayShowsEntities, GoodValues, GoodEntities,
                      ShowsValues, ShowsEntities, Lookup

(* The map that fmc takes to change shows the rows so far, whether it is    *)
(* the overlay's own, a copy of the cache's or empty.                       *)
LEMMA EntryValues ==
    ASSUME TypeOK, MapsCached(cache), NEW a \in Attrs, OverlayShowsValues(a)
    PROVE  GoodValues(fmc(overlay, cache, a), rows, a, cache.f[a], kept, late)
  <1>1. CASE overlay.f[a] # NoCache
    <2>1. fmc(overlay, cache, a) = overlay.f[a]
      BY <1>1 DEF fmc, Entry
    <2>2. QED
      BY <1>1, <2>1, OverlayMaps
  <1>2. CASE overlay.f[a] = NoCache /\ cache.f[a] # NoCache
    <2>1. a \in cache.lightlike_cached /\ cache.f[a] \in LightlikeMap
      BY <1>2 DEF MapsCached, TypeOK, Caches
    <2>2. fmc(overlay, cache, a) = cache.f[a]
      BY <1>2, <2>1 DEF fmc, Entry
    <2>3. QED
      BY <1>2, <2>1, <2>2 DEF OverlayShowsValues, ShowsValues, GoodValues, Lookup, Present
  <1>3. CASE overlay.f[a] = NoCache /\ cache.f[a] = NoCache
    <2>1. fmc(overlay, cache, a) = NoValues
      BY <1>3 DEF fmc, Entry
    <2>2. NoValues \in LightlikeMap /\ \A e \in Entities : NoValues[e] = Missing
      BY DEF NoValues, LightlikeMap
    <2>3. QED
      BY <1>3, <2>1, <2>2 DEF OverlayShowsValues, ShowsValues, GoodValues, Lookup, Present
  <1>4. QED
    BY <1>1, <1>2, <1>3

(* The same for rnuc.                                                       *)
LEMMA EntryEntities ==
    ASSUME TypeOK, MapsCached(cache), NEW a \in Attrs, OverlayShowsEntities(a)
    PROVE  GoodEntities(rnuc(overlay, cache, a), rows, a, cache.r[a], kept, late)
  <1>1. CASE overlay.r[a] # NoCache
    <2>1. rnuc(overlay, cache, a) = overlay.r[a]
      BY <1>1 DEF rnuc, Entry
    <2>2. QED
      BY <1>1, <2>1, OverlayMaps
  <1>2. CASE overlay.r[a] = NoCache /\ cache.r[a] # NoCache
    <2>1. a \in cache.reverse_cached /\ cache.r[a] \in ReverseMap
      BY <1>2 DEF MapsCached, TypeOK, Caches
    <2>2. rnuc(overlay, cache, a) = cache.r[a]
      BY <1>2, <2>1 DEF rnuc, Entry
    <2>3. QED
      BY <1>2, <2>1, <2>2 DEF OverlayShowsEntities, ShowsEntities, GoodEntities, Lookup, Present
  <1>3. CASE overlay.r[a] = NoCache /\ cache.r[a] = NoCache
    <2>1. rnuc(overlay, cache, a) = NoEntities
      BY <1>3 DEF rnuc, Entry
    <2>2. NoEntities \in ReverseMap /\ \A v \in Values : NoEntities[v] = Missing
      BY DEF NoEntities, ReverseMap
    <2>3. QED
      BY <1>3, <2>1, <2>2 DEF OverlayShowsEntities, ShowsEntities, GoodEntities, Lookup, Present
  <1>4. QED
    BY <1>1, <1>2, <1>3

(* The watcher collects every row of an attribute that is cached.           *)
LEMMA CollectedAll ==
    ASSUME NEW rs \in SUBSET Row, NEW a, ip_has_cached_attributes,
           CachedLightlike(a) \/ CachedReverse(a)
    PROVE  /\ \A e : ValuesOf(Collected(rs), a, e) = ValuesOf(rs, a, e)
           /\ \A v : EntitiesOf(Collected(rs), a, v) = EntitiesOf(rs, a, v)
           /\ Touched(Collected(rs), a) <=> Touched(rs, a)
  <1>1. \A row \in rs : row.a = a => row \in Collected(rs)
    BY DEF Collected
  <1>2. Collected(rs) \subseteq rs
    BY DEF Collected
  <1>3. \A e : ValuesOf(Collected(rs), a, e) = ValuesOf(rs, a, e)
    BY <1>1, <1>2 DEF ValuesOf
  <1>4. \A v : EntitiesOf(Collected(rs), a, v) = EntitiesOf(rs, a, v)
    BY <1>1, <1>2 DEF EntitiesOf
  <1>5. QED
    BY <1>1, <1>2, <1>3, <1>4 DEF Touched

(* An attribute without a change has the rows it had.                       *)
LEMMA SameRows ==
    ASSUME NEW old \in SUBSET Row, NEW new \in SUBSET Row, NEW a,
           ~Touched(old \ new, a), ~Touched(new \ old, a)
    PROVE  /\ \A e : ValuesOf(new, a, e) = ValuesOf(old, a, e)
           /\ \A v : EntitiesOf(new, a, v) = EntitiesOf(old, a, v)
           /\ Touched(new, a) <=> Touched(old, a)
  <1>1. \A row : row.a = a => (row \in old <=> row \in new)
    BY DEF Touched
  <1>2. \A e : ValuesOf(new, a, e) = ValuesOf(old, a, e)
    BY <1>1 DEF ValuesOf
  <1>3. \A v : EntitiesOf(new, a, v) = EntitiesOf(old, a, v)
    BY <1>1 DEF EntitiesOf
  <1>4. QED
    BY <1>1, <1>2, <1>3 DEF Touched

(* A transact takes what the overlay shows of an attribute from the rows    *)
(* before it to the rows after it.                                          *)
LEMMA TransactValues ==
    ASSUME TypeOK, RowsInv, LinkInv, MapsCached(cache), status = "open",
           NEW new \in SUBSET Row, Valid(new),
           NEW n, Updated(n, overlay, cache, Collected(rows \ new), Collected(new \ rows)),
           NEW a \in Attrs, a \in overlay.lightlike_cached, OverlayShowsValues(a)
    PROVE  IF n.f[a] = NoCache
           THEN /\ ShowsValues(cache.f[a], new, a, kept)
                /\ a \in unregistered_reverse => ~Touched(new, a)
           ELSE GoodValues(n.f[a], new, a, cache.f[a], kept, late)
  <1> DEFINE gone == Collected(rows \ new)
             come == Collected(new \ rows)
             m == fmc(overlay, cache, a)
  <1>0. rows \in SUBSET Row /\ rows \ new \in SUBSET Row /\ new \ rows \in SUBSET Row
    BY DEF TypeOK
  <1>1. CachedLightlike(a) /\ ip_has_cached_attributes
    BY DEF LinkInv, ip_has_cached_attributes, has_cached_attributes
  <1>2. /\ \A e : ValuesOf(gone, a, e) = ValuesOf(rows \ new, a, e)
        /\ Touched(gone, a) <=> Touched(rows \ new, a)
    BY <1>0, <1>1, CollectedAll
  <1>3. /\ \A e : ValuesOf(come, a, e) = ValuesOf(new \ rows, a, e)
        /\ Touched(come, a) <=> Touched(new \ rows, a)
    BY <1>0, <1>1, CollectedAll
  <1>4. n.f[a] = IF Touched(gone \cup come, a)
                 THEN AddLightlike(RemoveLightlike(m, gone, a), come, a) ELSE overlay.f[a]
    BY DEF Updated
  <1>5. Touched(gone \cup come, a) <=> Touched(gone, a) \/ Touched(come, a)
    BY DEF Touched
  <1>6. GoodValues(m, rows, a, cache.f[a], kept, late)
    BY EntryValues
  <1> HIDE DEF gone, come, m
  <1>7. CASE Touched(gone \cup come, a)
    <2> DEFINE o == AddLightlike(RemoveLightlike(m, rows \ new, a), new \ rows, a)
    <2>1. GoodValues(o, new, a, cache.f[a], kept, late)
      <3>1. Valid(rows)
        BY DEF RowsInv
      <3>2. QED
        BY <1>0, <1>6, <3>1, TransactedValues
    <2>2. o \in LightlikeMap
      BY <2>1 DEF GoodValues
    <2>3. RemoveLightlike(m, gone, a) = RemoveLightlike(m, rows \ new, a)
      BY <1>2 DEF RemoveLightlike
    <2>4. \A x : AddLightlike(x, come, a) = AddLightlike(x, new \ rows, a)
      BY <1>3 DEF AddLightlike
    <2>5. n.f[a] = o
      BY <1>4, <1>7, <2>3, <2>4
    <2> HIDE DEF o
    <2>6. QED
      BY <2>1, <2>2, <2>5, Sentinels
  <1>8. CASE ~Touched(gone \cup come, a)
    <2>1. ~Touched(rows \ new, a) /\ ~Touched(new \ rows, a)
      BY <1>2, <1>3, <1>5, <1>8
    <2>2. (\A e : ValuesOf(new, a, e) = ValuesOf(rows, a, e)) /\ (Touched(new, a) <=> Touched(rows, a))
      BY <1>0, <2>1, SameRows
    <2>3. n.f[a] = overlay.f[a]
      BY <1>4, <1>8
    <2>4. CASE overlay.f[a] = NoCache
      BY <2>2, <2>3, <2>4 DEF OverlayShowsValues, ShowsValues
    <2>5. CASE overlay.f[a] # NoCache
      <3>1. GoodValues(overlay.f[a], rows, a, cache.f[a], kept, late)
        BY <2>5, OverlayMaps
      <3>2. QED
        BY <2>2, <2>3, <2>5, <3>1 DEF GoodValues
    <2>6. QED
      BY <2>4, <2>5
  <1>9. QED
    BY <1>7, <1>8

(* The same for the other direction.                                        *)
LEMMA TransactEntities ==
    ASSUME TypeOK, RowsInv, LinkInv, MapsCached(cache), status = "open",
           NEW new \in SUBSET Row, Valid(new),
           NEW n, Updated(n, overlay, cache, Collected(rows \ new), Collected(new \ rows)),
           NEW a \in Attrs, a \in overlay.reverse_cached, OverlayShowsEntities(a)
    PROVE  IF n.r[a] = NoCache
           THEN /\ ShowsEntities(cache.r[a], new, a, kept)
                /\ a \in unregistered_lightlike => ~Touched(new, a)
           ELSE GoodEntities(n.r[a], new, a, cache.r[a], kept, late)
  <1> DEFINE gone == Collected(rows \ new)
             come == Collected(new \ rows)
             m == rnuc(overlay, cache, a)
  <1>0. rows \in SUBSET Row /\ rows \ new \in SUBSET Row /\ new \ rows \in SUBSET Row
    BY DEF TypeOK
  <1>1. CachedReverse(a) /\ ip_has_cached_attributes
    BY DEF LinkInv, ip_has_cached_attributes, has_cached_attributes
  <1>2. /\ \A v : EntitiesOf(gone, a, v) = EntitiesOf(rows \ new, a, v)
        /\ Touched(gone, a) <=> Touched(rows \ new, a)
    BY <1>0, <1>1, CollectedAll
  <1>3. /\ \A v : EntitiesOf(come, a, v) = EntitiesOf(new \ rows, a, v)
        /\ Touched(come, a) <=> Touched(new \ rows, a)
    BY <1>0, <1>1, CollectedAll
  <1>4. n.r[a] = IF Touched(gone \cup come, a)
                 THEN AddReverse(RemoveReverse(m, gone, a), come, a) ELSE overlay.r[a]
    BY DEF Updated
  <1>5. Touched(gone \cup come, a) <=> Touched(gone, a) \/ Touched(come, a)
    BY DEF Touched
  <1>6. GoodEntities(m, rows, a, cache.r[a], kept, late)
    BY EntryEntities
  <1> HIDE DEF gone, come, m
  <1>7. CASE Touched(gone \cup come, a)
    <2> DEFINE o == AddReverse(RemoveReverse(m, rows \ new, a), new \ rows, a)
    <2>1. GoodEntities(o, new, a, cache.r[a], kept, late)
      <3>1. Valid(rows)
        BY DEF RowsInv
      <3>2. QED
        BY <1>0, <1>6, <3>1, TransactedEntities
    <2>2. o \in ReverseMap
      BY <2>1 DEF GoodEntities
    <2>3. RemoveReverse(m, gone, a) = RemoveReverse(m, rows \ new, a)
      BY <1>2 DEF RemoveReverse
    <2>4. \A x : AddReverse(x, come, a) = AddReverse(x, new \ rows, a)
      BY <1>3 DEF AddReverse
    <2>5. n.r[a] = o
      BY <1>4, <1>7, <2>3, <2>4
    <2> HIDE DEF o
    <2>6. QED
      BY <2>1, <2>2, <2>5, Sentinels
  <1>8. CASE ~Touched(gone \cup come, a)
    <2>1. ~Touched(rows \ new, a) /\ ~Touched(new \ rows, a)
      BY <1>2, <1>3, <1>5, <1>8
    <2>2. (\A v : EntitiesOf(new, a, v) = EntitiesOf(rows, a, v)) /\ (Touched(new, a) <=> Touched(rows, a))
      BY <1>0, <2>1, SameRows
    <2>3. n.r[a] = overlay.r[a]
      BY <1>4, <1>8
    <2>4. CASE overlay.r[a] = NoCache
      BY <2>2, <2>3, <2>4 DEF OverlayShowsEntities, ShowsEntities
    <2>5. CASE overlay.r[a] # NoCache
      <3>1. GoodEntities(overlay.r[a], rows, a, cache.r[a], kept, late)
        BY <2>5, OverlayMaps
      <3>2. QED
        BY <2>2, <2>3, <2>5, <3>1 DEF GoodEntities
    <2>6. QED
      BY <2>4, <2>5
  <1>9. QED
    BY <1>7, <1>8

\* What c shows of attribute a, in the directions it caches it, are rows rs.
ShowsBoth(c, rs, a, odd) ==
    /\ a \in c.lightlike_cached => ShowsValues(c.f[a], rs, a, odd)
    /\ a \in c.reverse_cached => ShowsEntities(c.r[a], rs, a, odd)

(* Registering an attribute in the Conn's cache fills its maps.             *)
LEMMA RegisterShows ==
    ASSUME TypeOK, CacheInv, status = "idle", NEW a \in Attrs, NEW d \in Directions,
           NEW n, n = repopulate(Mark(cache, a, d), store, a),
           NEW odd, odd = IF Touched(store, a) THEN stale \ {a} ELSE stale
    PROVE  MapsCached(n) /\ \A b \in Attrs : ShowsBoth(n, store, b, odd)
  <1>0. cache \in Caches /\ store \in SUBSET Row
    BY DEF TypeOK
  <1> DEFINE k == Mark(cache, a, d)
  <1>1. /\ k \in Caches /\ k.f = cache.f /\ k.r = cache.r
        /\ k.lightlike_cached = IF d[1] THEN cache.lightlike_cached \cup {a}
                                ELSE cache.lightlike_cached
        /\ k.reverse_cached = IF d[2] THEN cache.reverse_cached \cup {a}
                              ELSE cache.reverse_cached
    BY <1>0, MarkShape
  <1> HIDE DEF k
  <1>2. n = repopulate(k, store, a)
    BY DEF k
  <1>3. Repopulated(n, k, store, a)
    BY <1>0, <1>1, <1>2, RepopulateShape
  <1>4. /\ n.lightlike_cached = k.lightlike_cached /\ n.reverse_cached = k.reverse_cached
        /\ \A b \in Attrs \ {a} : n.f[b] = cache.f[b] /\ n.r[b] = cache.r[b]
        /\ n.f[a] = IF Touched(store, a) /\ a \in k.lightlike_cached
                    THEN AddLightlike(NoValues, store, a) ELSE cache.f[a]
        /\ n.r[a] = IF Touched(store, a) /\ a \in k.reverse_cached
                    THEN AddReverse(NoEntities, store, a) ELSE cache.r[a]
    BY <1>1, <1>3 DEF Repopulated
  <1>5. MapsCached(n)
    BY <1>1, <1>4 DEF CacheInv, MapsCached
  <1>6. ASSUME NEW b \in Attrs \ {a} PROVE ShowsBoth(n, store, b, odd)
    <2>1. b \in odd <=> b \in stale
      OBVIOUS
    <2>2. QED
      BY <1>1, <1>4, <2>1 DEF CacheInv, ShowsBoth, ShowsValues, ShowsEntities
  <1>7. a \in n.lightlike_cached => ShowsValues(n.f[a], store, a, odd)
    <2>1. CASE Touched(store, a)
      <3>1. a \in n.lightlike_cached => n.f[a] = AddLightlike(NoValues, store, a)
        BY <1>4, <2>1
      <3>2. QED
        BY <1>0, <3>1, FilledValues
    <2>2. CASE ~Touched(store, a)
      <3>1. n.f[a] = cache.f[a] /\ \A e : ValuesOf(store, a, e) = {}
        BY <1>0, <1>4, <2>2, Untouched
      <3>2. a \notin cache.lightlike_cached => cache.f[a] = NoCache
        BY DEF CacheInv, MapsCached
      <3>3. QED
        BY <2>2, <3>1, <3>2 DEF CacheInv, ShowsValues, Lookup, Present, Answers
    <2>3. QED
      BY <2>1, <2>2
  <1>8. a \in n.reverse_cached => ShowsEntities(n.r[a], store, a, odd)
    <2>1. CASE Touched(store, a)
      <3>1. a \in n.reverse_cached => n.r[a] = AddReverse(NoEntities, store, a)
        BY <1>4, <2>1
      <3>2. QED
        BY <1>0, <3>1, FilledEntities
    <2>2. CASE ~Touched(store, a)
      <3>1. n.r[a] = cache.r[a] /\ \A v : EntitiesOf(store, a, v) = {}
        BY <1>0, <1>4, <2>2, Untouched
      <3>2. a \notin cache.reverse_cached => cache.r[a] = NoCache
        BY DEF CacheInv, MapsCached
      <3>3. QED
        BY <2>2, <3>1, <3>2 DEF CacheInv, ShowsEntities, Lookup, Present, Answers
    <2>3. QED
      BY <2>1, <2>2
  <1>9. QED
    BY <1>5, <1>6, <1>7, <1>8 DEF ShowsBoth

(* commit_to leaves the Conn's cache showing the rows of the InProgress,    *)
(* also for an attribute whose map was forgotten and registered again.      *)
LEMMA CommitShows ==
    ASSUME TypeOK, LinkInv, CacheInv, OverlayInv, status = "open", NEW a \in Attrs,
           NEW n, n = absorb(unregister_attributes(cache,
                                 unregistered_lightlike \cup unregistered_reverse), overlay)
    PROVE  /\ n.f[a] # NoCache => a \in n.lightlike_cached
           /\ n.r[a] # NoCache => a \in n.reverse_cached
           /\ ShowsBoth(n, rows, a, kept)
  <1>0. cache \in Caches /\ overlay \in Caches /\ rows \in SUBSET Row
    BY DEF TypeOK
  <1> DEFINE U == unregistered_lightlike \cup unregistered_reverse
             k == unregister_attributes(cache, U)
  <1>1. /\ k \in Caches
        /\ k.lightlike_cached = cache.lightlike_cached \ U
        /\ k.reverse_cached = cache.reverse_cached \ U
        /\ k.f[a] = IF a \in U THEN NoCache ELSE cache.f[a]
        /\ k.r[a] = IF a \in U THEN NoCache ELSE cache.r[a]
    BY <1>0, UnregisterShape DEF Unregistered
  <1>2. n = absorb(k, overlay)
    OBVIOUS
  <1> HIDE DEF k
  <1>3. /\ n.lightlike_cached = k.lightlike_cached \cup overlay.lightlike_cached
        /\ n.reverse_cached = k.reverse_cached \cup overlay.reverse_cached
        /\ n.f[a] = IF overlay.f[a] = NoCache THEN k.f[a] ELSE Folded(overlay.f[a])
        /\ n.r[a] = IF overlay.r[a] = NoCache THEN k.r[a] ELSE Folded(overlay.r[a])
    <2>1. Absorbed(n, k, overlay)
      BY <1>0, <1>1, <1>2, AbsorbShape
    <2>2. QED
      BY <2>1 DEF Absorbed
  <1>4. /\ cache.f[a] # NoCache => a \in cache.lightlike_cached
        /\ cache.r[a] # NoCache => a \in cache.reverse_cached
        /\ overlay.f[a] # NoCache => a \in overlay.lightlike_cached
        /\ overlay.r[a] # NoCache => a \in overlay.reverse_cached
    BY DEF LinkInv, CacheInv, MapsCached
  <1>5. /\ a \in overlay.lightlike_cached => a \notin unregistered_lightlike
        /\ a \in overlay.reverse_cached => a \notin unregistered_reverse
        /\ a \in n.lightlike_cached => a \in overlay.lightlike_cached
        /\ a \in n.reverse_cached => a \in overlay.reverse_cached
    BY <1>1, <1>3 DEF LinkInv, CachedLightlike, CachedReverse
  <1>6. /\ n.f[a] # NoCache => a \in n.lightlike_cached
        /\ n.r[a] # NoCache => a \in n.reverse_cached
    BY <1>1, <1>3, <1>4
  <1>7. ASSUME a \in n.lightlike_cached PROVE ShowsValues(n.f[a], rows, a, kept)
    <2>1. OverlayShowsValues(a)
      BY <1>5, <1>7 DEF OverlayInv
    <2>2. CASE overlay.f[a] # NoCache
      <3>1. overlay.f[a] \in LightlikeMap /\ GoodValues(overlay.f[a], rows, a, cache.f[a], kept, late)
        BY <1>0, <2>1, <2>2, OverlayMaps DEF Caches
      <3>2. n.f[a] = Folded(overlay.f[a]) /\ n.f[a] \in LightlikeMap
        BY <1>0, <1>3, <2>2, <3>1, MapTypes
      <3>3. \A e \in Entities : Present(n.f[a][e]) = Present(overlay.f[a][e])
        BY <3>1, <3>2, FoldedAnswers DEF LightlikeMap
      <3>4. n.f[a] # NoCache
        BY <3>2, Sentinels
      <3>5. QED
        BY <3>1, <3>3, <3>4 DEF GoodValues, ShowsValues, Lookup
    <2>3. CASE overlay.f[a] = NoCache /\ a \notin U
      BY <1>1, <1>3, <2>1, <2>3 DEF OverlayShowsValues
    <2>4. CASE overlay.f[a] = NoCache /\ a \in U
      <3>1. ~Touched(rows, a)
        BY <1>5, <1>7, <2>1, <2>4 DEF OverlayShowsValues
      <3>2. \A e : ValuesOf(rows, a, e) = {}
        BY <1>0, <3>1, Untouched
      <3>3. n.f[a] = NoCache
        BY <1>1, <1>3, <2>4
      <3>4. QED
        BY <3>2, <3>3 DEF ShowsValues, Lookup, Present, Answers
    <2>5. QED
      BY <2>2, <2>3, <2>4
  <1>8. ASSUME a \in n.reverse_cached PROVE ShowsEntities(n.r[a], rows, a, kept)
    <2>1. OverlayShowsEntities(a)
      BY <1>5, <1>8 DEF OverlayInv
    <2>2. CASE overlay.r[a] # NoCache
      <3>1. overlay.r[a] \in ReverseMap /\ GoodEntities(overlay.r[a], rows, a, cache.r[a], kept, late)
        BY <1>0, <2>1, <2>2, OverlayMaps DEF Caches
      <3>2. n.r[a] = Folded(overlay.r[a]) /\ n.r[a] \in ReverseMap
        BY <1>0, <1>3, <2>2, <3>1, MapTypes
      <3>3. \A v \in Values : Present(n.r[a][v]) = Present(overlay.r[a][v])
        BY <3>1, <3>2, FoldedAnswers DEF ReverseMap
      <3>4. n.r[a] # NoCache
        BY <3>2, Sentinels
      <3>5. QED
        BY <3>1, <3>3, <3>4 DEF GoodEntities, ShowsEntities, Lookup
    <2>3. CASE overlay.r[a] = NoCache /\ a \notin U
      BY <1>1, <1>3, <2>1, <2>3 DEF OverlayShowsEntities
    <2>4. CASE overlay.r[a] = NoCache /\ a \in U
      <3>1. ~Touched(rows, a)
        BY <1>5, <1>8, <2>1, <2>4 DEF OverlayShowsEntities
      <3>2. \A v : EntitiesOf(rows, a, v) = {}
        BY <1>0, <3>1, Untouched
      <3>3. n.r[a] = NoCache
        BY <1>1, <1>3, <2>4
      <3>4. QED
        BY <3>2, <3>3 DEF ShowsEntities, Lookup, Present, Answers
    <2>5. QED
      BY <2>2, <2>3, <2>4
  <1>9. QED
    BY <1>6, <1>7, <1>8 DEF ShowsBoth

(* Every step leaves the Conn's cache showing what is committed: only       *)
(* registering, unregistering and committing change it.                     *)
LEMMA CacheStep == Ind /\ [Next]_vars => CacheInv'
  <1> SUFFICES ASSUME Ind, [Next]_vars PROVE CacheInv'
    OBVIOUS
  <1> USE DEF inProgress, history
  <1>0. TypeOK /\ RowsInv /\ LinkInv /\ CacheInv /\ OverlayInv
    BY DEF Ind, LinkInd
  <1>1. ASSUME UNCHANGED <<topograph, cache, store, stale>>,
               status' \in {"idle", "open"} => status \in {"idle", "open"}
        PROVE  CacheInv'
    BY <1>0, <1>1 DEF CacheInv, MapsCached, ShowsValues, ShowsEntities, Multival, Unique
  <1>2. ASSUME NEW a \in Attrs, NEW d \in Directions, register(a, d) PROVE CacheInv'
    <2>1. /\ cache' = repopulate(Mark(cache, a, d), store, a)
          /\ UNCHANGED <<topograph, store>> /\ status = "idle"
          /\ stale' = IF Touched(store, a) THEN stale \ {a} ELSE stale
      BY <1>2 DEF register
    <2>2. MapsCached(cache') /\ \A b \in Attrs : ShowsBoth(cache', store, b, stale')
      BY <1>0, <2>1, RegisterShows
    <2>3. QED
      BY <2>1, <2>2 DEF CacheInv, ShowsBoth, MapsCached, ShowsValues, ShowsEntities,
                              Multival, Unique
  <1>3. ASSUME NEW as, unregister(as) PROVE CacheInv'
    <2> DEFINE n == unregister_attributes(cache, as)
    <2>1. /\ cache' = n /\ status = "idle" /\ stale' = stale \ as
          /\ UNCHANGED <<topograph, store, status>>
      BY <1>3 DEF unregister
    <2>2. /\ n.lightlike_cached = cache.lightlike_cached \ as
          /\ n.reverse_cached = cache.reverse_cached \ as
          /\ \A b \in Attrs : /\ n.f[b] = IF b \in as THEN NoCache ELSE cache.f[b]
                              /\ n.r[b] = IF b \in as THEN NoCache ELSE cache.r[b]
      <3>1. cache \in Caches
        BY <1>0 DEF TypeOK
      <3>2. Unregistered(n, cache, as)
        BY <3>1, UnregisterShape
      <3> HIDE DEF n
      <3>3. QED
        BY <3>2 DEF Unregistered
    <2> HIDE DEF n
    <2>3. MapsCached(n)
      BY <1>0, <2>2 DEF CacheInv, MapsCached
    <2>4. ASSUME NEW b \in Attrs PROVE ShowsBoth(n, store, b, stale')
      <3>1. b \notin as => (b \in stale' <=> b \in stale)
        BY <2>1
      <3>2. QED
        BY <1>0, <2>1, <2>2, <3>1 DEF CacheInv, ShowsBoth, ShowsValues, ShowsEntities
    <2>5. QED
      BY <2>1, <2>3, <2>4 DEF CacheInv, ShowsBoth, MapsCached, ShowsValues, ShowsEntities,
                              Multival, Unique
  <1>4. CASE commit
    <2>1. status = "open" /\ store' = rows /\ stale' = kept /\ UNCHANGED topograph /\ commit_to
      BY <1>4 DEF commit
    <2>2. CASE ~has_cached_attributes(cache) /\ cache' = overlay
      <3>1. \A a \in Attrs : cache.f[a] = NoCache /\ cache.r[a] = NoCache
        BY <1>0, <2>2 DEF has_cached_attributes, CacheInv, MapsCached
      <3>2. MapsCached(overlay)
        BY <1>0 DEF LinkInv
      <3>3. ASSUME NEW a \in Attrs PROVE ShowsBoth(overlay, rows, a, kept)
        <4>1. a \in overlay.lightlike_cached => ShowsValues(overlay.f[a], rows, a, kept)
          BY <1>0, <2>1, <3>1 DEF OverlayInv, OverlayShowsValues
        <4>2. a \in overlay.reverse_cached => ShowsEntities(overlay.r[a], rows, a, kept)
          BY <1>0, <2>1, <3>1 DEF OverlayInv, OverlayShowsEntities
        <4>3. QED
          BY <4>1, <4>2 DEF ShowsBoth
      <3>4. QED
        BY <2>1, <2>2, <3>2, <3>3 DEF CacheInv, ShowsBoth, MapsCached, ShowsValues, ShowsEntities,
                              Multival, Unique
    <2>3. CASE cache' = absorb(unregister_attributes(cache,
                                   unregistered_lightlike \cup unregistered_reverse), overlay)
      <3>1. \A a \in Attrs : /\ cache'.f[a] # NoCache => a \in cache'.lightlike_cached
                             /\ cache'.r[a] # NoCache => a \in cache'.reverse_cached
                             /\ ShowsBoth(cache', rows, a, kept)
        BY <1>0, <2>1, <2>3, CommitShows
      <3>2. QED
        BY <2>1, <3>1 DEF CacheInv, ShowsBoth, MapsCached, ShowsValues, ShowsEntities,
                              Multival, Unique
    <2>4. CASE status' = "unimplemented" /\ cache' = cache
      BY <1>0, <2>4 DEF CacheInv, MapsCached
    <2>5. QED
      BY <2>1, <2>2, <2>3, <2>4 DEF commit_to
  <1>5. ASSUME NEW new \in SUBSET Row, transact(new) PROVE CacheInv'
    BY <1>1, <1>5 DEF transact
  <1>6. CASE rollback
    BY <1>1, <1>6 DEF rollback
  <1>7. ASSUME NEW a \in Attrs, NEW d \in Directions, ip_register(a, d) PROVE CacheInv'
    BY <1>1, <1>7 DEF ip_register
  <1>8. QED
    BY <1>1, <1>2, <1>3, <1>4, <1>5, <1>6, <1>7
       DEF Next, current_cache, drop_clone, begin_transaction, ip_unregister,
           ip_unregister_all, vars

(* The Conn's cache knows of no value that the rows do not have, unless it  *)
(* disagrees with them.                                                     *)
LEMMA BelowRegister ==
    ASSUME TypeOK, CacheInv, status = "open", NEW a \in Attrs, ~Disagrees(a)
    PROVE  /\ \A e \in Entities :
                ValuesOf(rows, a, e) = {} => Present(Lookup(cache.f[a], e)) = {}
           /\ \A v \in Values :
                EntitiesOf(rows, a, v) = {} => Present(Lookup(cache.r[a], v)) = {}
  <1>a. \/ a \notin cache.lightlike_cached /\ a \notin cache.reverse_cached
        \/ a \notin stale /\ ~Touched(rows \ store, a) /\ ~Touched(store \ rows, a)
    BY DEF Disagrees, Touched
  <1>b. \/ a \notin cache.lightlike_cached /\ a \notin cache.reverse_cached
        \/ /\ a \notin stale
           /\ \A e : ValuesOf(rows, a, e) = ValuesOf(store, a, e)
           /\ \A v : EntitiesOf(rows, a, v) = EntitiesOf(store, a, v)
    <2>1. rows \in SUBSET Row /\ store \in SUBSET Row
      BY DEF TypeOK
    <2>2. CASE a \notin stale /\ ~Touched(rows \ store, a) /\ ~Touched(store \ rows, a)
      BY <2>1, <2>2, SameRows
    <2>3. QED
      BY <1>a, <2>2
  <1>1. /\ a \in cache.lightlike_cached \/ cache.f[a] = NoCache
        /\ a \in cache.reverse_cached \/ cache.r[a] = NoCache
    BY DEF CacheInv, MapsCached
  <1>2. /\ a \in cache.lightlike_cached => ShowsValues(cache.f[a], store, a, stale)
        /\ a \in cache.reverse_cached => ShowsEntities(cache.r[a], store, a, stale)
    BY DEF CacheInv
  <1>3. ASSUME NEW e \in Entities, ValuesOf(rows, a, e) = {}
        PROVE  Present(Lookup(cache.f[a], e)) = {}
    <2>1. CASE cache.f[a] = NoCache
      BY <2>1 DEF Lookup, Present
    <2>2. CASE cache.f[a] # NoCache
      BY <1>1, <1>2, <1>3, <1>b, <2>2 DEF ShowsValues, Answers
    <2>3. QED
      BY <2>1, <2>2
  <1>4. ASSUME NEW v \in Values, EntitiesOf(rows, a, v) = {}
        PROVE  Present(Lookup(cache.r[a], v)) = {}
    <2>1. CASE cache.r[a] = NoCache
      BY <2>1 DEF Lookup, Present
    <2>2. CASE cache.r[a] # NoCache
      BY <1>1, <1>2, <1>4, <1>b, <2>2 DEF ShowsEntities, Answers
    <2>3. QED
      BY <2>1, <2>2
  <1>5. QED
    BY <1>3, <1>4

\* What OverlayInv asks of attribute a, of an overlay o over the rows rs.
OverlayGood(o, rs, a, lightlike, reverse, odd, behind) ==
    /\ a \in o.lightlike_cached =>
         IF o.f[a] = NoCache THEN /\ ShowsValues(cache.f[a], rs, a, odd)
                                  /\ a \in reverse => ~Touched(rs, a)
         ELSE GoodValues(o.f[a], rs, a, cache.f[a], odd, behind)
    /\ a \in o.reverse_cached =>
         IF o.r[a] = NoCache THEN /\ ShowsEntities(cache.r[a], rs, a, odd)
                                  /\ a \in lightlike => ~Touched(rs, a)
         ELSE GoodEntities(o.r[a], rs, a, cache.r[a], odd, behind)

OverlayAllGood ==
    status = "open" => \A a \in Attrs :
        OverlayGood(overlay, rows, a, unregistered_lightlike, unregistered_reverse, kept, late)

(* OverlayInv in terms of OverlayGood.                                      *)
LEMMA OverlayParts == TypeOK => (OverlayInv <=> OverlayAllGood)
  <1> SUFFICES ASSUME TypeOK PROVE OverlayInv <=> OverlayAllGood
    OBVIOUS
  <1>1. ASSUME NEW a \in Attrs
        PROVE  OverlayGood(overlay, rows, a, unregistered_lightlike, unregistered_reverse, kept, late) <=>
                 /\ a \in overlay.lightlike_cached => OverlayShowsValues(a)
                 /\ a \in overlay.reverse_cached => OverlayShowsEntities(a)
    BY OverlayMaps DEF OverlayGood, OverlayShowsValues, OverlayShowsEntities
  <1>2. QED
    BY <1>1 DEF OverlayInv, OverlayAllGood

(* Registering an attribute in an InProgress fills the overlay's maps, or   *)
(* leaves them out if there is no row.                                      *)
LEMMA RegisterGood ==
    ASSUME TypeOK, LinkInv, CacheInv, status = "open", NEW a \in Attrs, NEW d \in Directions,
           NEW n, n = repopulate(Mark(overlay, a, d), rows, a),
           NEW ul, NEW ur, ul \subseteq unregistered_lightlike, ur \subseteq unregistered_reverse,
           \A b \in Attrs :
             OverlayGood(overlay, rows, b, unregistered_lightlike, unregistered_reverse, kept, late),
           NEW odd, odd = IF Touched(rows, a) THEN kept \ {a}
                          ELSE IF Disagrees(a) THEN kept \cup {a} ELSE kept,
           NEW behind, behind = IF Disagrees(a) THEN late \cup {a} ELSE late
    PROVE  \A b \in Attrs : OverlayGood(n, rows, b, ul, ur, odd, behind)
  <1>0. overlay \in Caches /\ rows \in SUBSET Row
    BY DEF TypeOK
  <1> DEFINE k == Mark(overlay, a, d)
  <1>1. /\ k \in Caches /\ k.f = overlay.f /\ k.r = overlay.r
        /\ k.lightlike_cached = IF d[1] THEN overlay.lightlike_cached \cup {a}
                                ELSE overlay.lightlike_cached
        /\ k.reverse_cached = IF d[2] THEN overlay.reverse_cached \cup {a}
                              ELSE overlay.reverse_cached
    BY <1>0, MarkShape
  <1> HIDE DEF k
  <1>2. n = repopulate(k, rows, a)
    BY DEF k
  <1>3. Repopulated(n, k, rows, a)
    BY <1>0, <1>1, <1>2, RepopulateShape
  <1>4. /\ n.lightlike_cached = k.lightlike_cached /\ n.reverse_cached = k.reverse_cached
        /\ \A b \in Attrs \ {a} : n.f[b] = overlay.f[b] /\ n.r[b] = overlay.r[b]
        /\ n.f[a] = IF Touched(rows, a) /\ a \in k.lightlike_cached
                    THEN AddLightlike(NoValues, rows, a) ELSE overlay.f[a]
        /\ n.r[a] = IF Touched(rows, a) /\ a \in k.reverse_cached
                    THEN AddReverse(NoEntities, rows, a) ELSE overlay.r[a]
    BY <1>1, <1>3 DEF Repopulated
  <1>5. ASSUME NEW b \in Attrs \ {a} PROVE OverlayGood(n, rows, b, ul, ur, odd, behind)
    <2>1. OverlayGood(overlay, rows, b, unregistered_lightlike, unregistered_reverse, kept, late)
      OBVIOUS
    <2>2. /\ b \in n.lightlike_cached <=> b \in overlay.lightlike_cached
          /\ b \in n.reverse_cached <=> b \in overlay.reverse_cached
          /\ n.f[b] = overlay.f[b] /\ n.r[b] = overlay.r[b]
          /\ b \in ur => b \in unregistered_reverse
          /\ b \in ul => b \in unregistered_lightlike
          /\ b \in odd <=> b \in kept
          /\ b \in behind <=> b \in late
      BY <1>1, <1>4
    <2>3. QED
      BY <2>1, <2>2 DEF OverlayGood, GoodValues, GoodEntities, ShowsValues, ShowsEntities
  <1>6. a \notin behind \/ ~Disagrees(a) =>
          /\ \A e \in Entities :
               ValuesOf(rows, a, e) = {} => Present(Lookup(cache.f[a], e)) = {}
          /\ \A v \in Values :
               EntitiesOf(rows, a, v) = {} => Present(Lookup(cache.r[a], v)) = {}
    BY BelowRegister
  <1>7. CASE Touched(rows, a)
    <2>1. a \in n.lightlike_cached => n.f[a] # NoCache /\ GoodValues(n.f[a], rows, a, cache.f[a], odd, behind)
      <3> DEFINE m == AddLightlike(NoValues, rows, a)
      <3>1. m \in LightlikeMap /\ ShowsValues(m, rows, a, odd)
        BY <1>0, MapTypes, FilledValues
      <3>2. a \in n.lightlike_cached => n.f[a] = m
        BY <1>4, <1>7
      <3> HIDE DEF m
      <3>3. m # NoCache
        BY <3>1, Sentinels
      <3>4. GoodValues(m, rows, a, cache.f[a], odd, behind)
        BY <1>6, <3>1, <3>3 DEF GoodValues, ShowsValues, Lookup, Present, Answers
      <3>5. QED
        BY <3>2, <3>3, <3>4
    <2>2. a \in n.reverse_cached => n.r[a] # NoCache /\ GoodEntities(n.r[a], rows, a, cache.r[a], odd, behind)
      <3> DEFINE m == AddReverse(NoEntities, rows, a)
      <3>1. m \in ReverseMap /\ ShowsEntities(m, rows, a, odd)
        BY <1>0, MapTypes, FilledEntities
      <3>2. a \in n.reverse_cached => n.r[a] = m
        BY <1>4, <1>7
      <3> HIDE DEF m
      <3>3. m # NoCache
        BY <3>1, Sentinels
      <3>4. GoodEntities(m, rows, a, cache.r[a], odd, behind)
        BY <1>6, <3>1, <3>3 DEF GoodEntities, ShowsEntities, Lookup, Present, Answers
      <3>5. QED
        BY <3>2, <3>3, <3>4
    <2>3. QED
      BY <1>5, <2>1, <2>2 DEF OverlayGood
  <1>8. CASE ~Touched(rows, a)
    <2>1. n.f[a] = overlay.f[a] /\ n.r[a] = overlay.r[a]
      BY <1>4, <1>8
    <2>2. (\A e : ValuesOf(rows, a, e) = {}) /\ (\A v : EntitiesOf(rows, a, v) = {})
      BY <1>0, <1>8, Untouched
    <2>3. /\ ShowsValues(cache.f[a], rows, a, odd) /\ ShowsEntities(cache.r[a], rows, a, odd)
          /\ a \notin odd => a \notin kept
          /\ a \notin behind => a \notin late
      <3>1. CASE Disagrees(a)
        BY <1>8, <2>2, <3>1 DEF ShowsValues, ShowsEntities, Answers
      <3>2. CASE ~Disagrees(a)
        BY <1>6, <1>8, <2>2, <3>2 DEF ShowsValues, ShowsEntities, Answers
      <3>3. QED
        BY <3>1, <3>2
    <2>4. /\ overlay.f[a] # NoCache => a \in overlay.lightlike_cached
          /\ overlay.r[a] # NoCache => a \in overlay.reverse_cached
      BY DEF LinkInv, MapsCached
    <2>5. OverlayGood(overlay, rows, a, unregistered_lightlike, unregistered_reverse, kept, late)
      OBVIOUS
    <2>6. OverlayGood(n, rows, a, ul, ur, odd, behind)
      <3>1. /\ \A m : GoodValues(m, rows, a, cache.f[a], kept, late) =>
                         GoodValues(m, rows, a, cache.f[a], odd, behind)
            /\ \A m : GoodEntities(m, rows, a, cache.r[a], kept, late) =>
                         GoodEntities(m, rows, a, cache.r[a], odd, behind)
        BY <2>3 DEF GoodValues, GoodEntities, Answers
      <3>2. QED
        BY <1>8, <2>1, <2>3, <2>4, <2>5, <3>1 DEF OverlayGood
    <2>7. QED
      BY <1>5, <2>6
  <1>9. QED
    BY <1>7, <1>8

(* Every step of an InProgress leaves its overlay, with the cache below it, *)
(* showing the rows so far.                                                 *)
LEMMA OverlayStep ==
    ASSUME Ind, [Next]_vars
    PROVE  OverlayInv'
  <1> USE DEF inProgress, history
  <1>0. TypeOK /\ RowsInv /\ LinkInv /\ CacheInv /\ OverlayInv
    BY DEF Ind, LinkInd
  <1>1. status = "open" => \A a \in Attrs :
          OverlayGood(overlay, rows, a, unregistered_lightlike, unregistered_reverse, kept, late)
    BY <1>0, OverlayParts DEF OverlayAllGood
  <1>2. ASSUME UNCHANGED <<topograph, cache>>,
               status' = "open" => \A a \in Attrs :
                 OverlayGood(overlay', rows', a, unregistered_lightlike', unregistered_reverse',
                             kept', late')
        PROVE  OverlayInv'
    <2>1. TypeOK'
      BY <1>0, TypeStep
    <2>2. \A a \in Attrs :
            OverlayGood(overlay, rows, a, unregistered_lightlike, unregistered_reverse, kept, late)' <=>
            OverlayGood(overlay', rows', a, unregistered_lightlike', unregistered_reverse',
                             kept', late')
      BY <1>2 DEF OverlayGood, GoodValues, GoodEntities, ShowsValues, ShowsEntities,
                  Multival, Unique
    <2>3. OverlayInv' <=> OverlayAllGood'
      BY <2>1, OverlayParts, PTL
    <2>4. QED
      BY <1>2, <2>2, <2>3 DEF OverlayAllGood
  <1>3. ASSUME status' # "open" PROVE OverlayInv'
    BY <1>3 DEF OverlayInv
  <1>4. ASSUME UNCHANGED <<topograph, cache, rows, inProgress, status, late, kept>> PROVE OverlayInv'
    BY <1>1, <1>2, <1>4
  <1>5. CASE begin_transaction
    <2>1. /\ overlay'.lightlike_cached = cache.lightlike_cached
          /\ overlay'.reverse_cached = cache.reverse_cached
          /\ overlay'.f = DefaultCaches.f /\ overlay'.r = DefaultCaches.r
          /\ unregistered_lightlike' = {} /\ unregistered_reverse' = {}
          /\ UNCHANGED <<topograph, cache, rows>> /\ status = "idle"
          /\ late' = stale /\ kept' = stale
      BY <1>5, DefaultShape DEF begin_transaction, Caches
    <2>2. rows = store
      BY <1>0, <2>1 DEF RowsInv
    <2>3. ASSUME NEW a \in Attrs PROVE OverlayGood(overlay', rows', a, {}, {}, stale, stale)
      <3>1. overlay'.f[a] = NoCache /\ overlay'.r[a] = NoCache
        BY <2>1, DefaultShape
      <3>2. /\ a \in cache.lightlike_cached => ShowsValues(cache.f[a], rows, a, stale)
            /\ a \in cache.reverse_cached => ShowsEntities(cache.r[a], rows, a, stale)
        BY <1>0, <2>1, <2>2 DEF CacheInv
      <3>3. rows' = rows
        BY <2>1
      <3>4. QED
        BY <2>1, <3>1, <3>2, <3>3 DEF OverlayGood
    <2>4. QED
      BY <1>2, <2>1, <2>3
  <1>6. ASSUME NEW a \in Attrs, NEW d \in Directions, ip_register(a, d) PROVE OverlayInv'
    <2>1. /\ overlay' = repopulate(Mark(overlay, a, d), rows, a)
          /\ unregistered_lightlike' \subseteq unregistered_lightlike
          /\ unregistered_reverse' \subseteq unregistered_reverse
          /\ UNCHANGED <<topograph, cache, rows>> /\ status = "open"
          /\ late' = IF Disagrees(a) THEN late \cup {a} ELSE late
          /\ kept' = IF Touched(rows, a) THEN kept \ {a}
                     ELSE IF Disagrees(a) THEN kept \cup {a} ELSE kept
      BY <1>6 DEF ip_register
    <2>2. \A b \in Attrs :
            OverlayGood(overlay', rows, b, unregistered_lightlike', unregistered_reverse',
                             kept', late')
      BY <1>0, <1>1, <2>1, RegisterGood
    <2>3. QED
      BY <1>2, <2>1, <2>2
  <1>7. ASSUME NEW as \in SUBSET Attrs, overlay' = unregister_attributes(overlay, as),
               UNCHANGED <<topograph, cache, rows, status>>,
               \A b \in Attrs \ as : b \in late' <=> b \in late,
               \A b \in Attrs \ as : b \in kept' <=> b \in kept,
               \A b \in Attrs \ as : b \in unregistered_lightlike' <=> b \in unregistered_lightlike,
               \A b \in Attrs \ as : b \in unregistered_reverse' <=> b \in unregistered_reverse
        PROVE  OverlayInv'
    <2>1. overlay \in Caches
      BY <1>0 DEF TypeOK
    <2>2. Unregistered(overlay', overlay, as)
      BY <1>7, <2>1, UnregisterShape
    <2>3. ASSUME status = "open", NEW b \in Attrs
          PROVE  OverlayGood(overlay', rows, b, unregistered_lightlike', unregistered_reverse',
                             kept', late')
      <3>1. CASE b \in as
        BY <2>2, <3>1 DEF OverlayGood, Unregistered
      <3>2. CASE b \notin as
        <4>1. /\ b \in overlay'.lightlike_cached <=> b \in overlay.lightlike_cached
              /\ b \in overlay'.reverse_cached <=> b \in overlay.reverse_cached
              /\ overlay'.f[b] = overlay.f[b] /\ overlay'.r[b] = overlay.r[b]
              /\ b \in unregistered_reverse' <=> b \in unregistered_reverse
              /\ b \in unregistered_lightlike' <=> b \in unregistered_lightlike
              /\ b \in late' <=> b \in late
              /\ b \in kept' <=> b \in kept
          BY <1>7, <2>2, <3>2 DEF Unregistered
        <4>2. OverlayGood(overlay, rows, b, unregistered_lightlike, unregistered_reverse, kept, late)
          BY <1>1, <2>3
        <4>3. QED
          BY <4>1, <4>2 DEF OverlayGood, GoodValues, GoodEntities, ShowsValues, ShowsEntities
      <3>3. QED
        BY <3>1, <3>2
    <2>4. QED
      BY <1>2, <1>7, <2>3
  <1>8. ASSUME NEW a \in Attrs, ip_unregister(a) PROVE OverlayInv'
    BY <1>7, <1>8 DEF ip_unregister
  <1>9. CASE ip_unregister_all
    BY <1>7, <1>9 DEF ip_unregister_all
  <1>10. ASSUME NEW new \in SUBSET Row, transact(new) PROVE OverlayInv'
    <2> DEFINE gone == Collected(rows \ new)
               come == Collected(new \ rows)
    <2>1. ~Unmatched(overlay, gone \cup come)
      BY <1>0, <1>10, NeverUnmatched DEF transact
    <2>2. /\ overlay' = update_with_fallback(overlay, cache, gone, come)
          /\ UNCHANGED <<topograph, cache, unregistered_lightlike, unregistered_reverse, status,
                         late, kept>>
          /\ rows' = new /\ Valid(new) /\ status = "open"
      BY <1>10, <2>1 DEF transact
    <2>3. gone \in SUBSET Row /\ come \in SUBSET Row /\ overlay \in Caches /\ cache \in Caches
      BY <1>0, CollectedRows DEF TypeOK
    <2>4. Updated(overlay', overlay, cache, gone, come)
      BY <2>2, <2>3, UpdateShape
    <2>5. MapsCached(cache)
      BY <1>0 DEF CacheInv
    <2>6. ASSUME NEW a \in Attrs
          PROVE  OverlayGood(overlay', new, a, unregistered_lightlike, unregistered_reverse, kept, late)
      <3>1. /\ a \in overlay.lightlike_cached => OverlayShowsValues(a)
            /\ a \in overlay.reverse_cached => OverlayShowsEntities(a)
        BY <1>0, <2>2 DEF OverlayInv
      <3>2. ASSUME a \in overlay.lightlike_cached
            PROVE  IF overlay'.f[a] = NoCache
                   THEN /\ ShowsValues(cache.f[a], new, a, kept)
                        /\ a \in unregistered_reverse => ~Touched(new, a)
                   ELSE GoodValues(overlay'.f[a], new, a, cache.f[a], kept, late)
        BY <1>0, <2>2, <2>4, <2>5, <3>1, <3>2, TransactValues
      <3>3. ASSUME a \in overlay.reverse_cached
            PROVE  IF overlay'.r[a] = NoCache
                   THEN /\ ShowsEntities(cache.r[a], new, a, kept)
                        /\ a \in unregistered_lightlike => ~Touched(new, a)
                   ELSE GoodEntities(overlay'.r[a], new, a, cache.r[a], kept, late)
        BY <1>0, <2>2, <2>4, <2>5, <3>1, <3>3, TransactEntities
      <3>4. /\ overlay'.lightlike_cached = overlay.lightlike_cached
            /\ overlay'.reverse_cached = overlay.reverse_cached
        BY <2>4 DEF Updated
      <3>5. QED
        BY <3>2, <3>3, <3>4 DEF OverlayGood
    <2>7. QED
      BY <1>2, <2>2, <2>6
  <1>11. CASE commit
    BY <1>3, <1>11 DEF commit, commit_to
  <1>12. CASE rollback
    BY <1>3, <1>12 DEF rollback
  <1>13. ASSUME NEW a \in Attrs, NEW d \in Directions, register(a, d) PROVE OverlayInv'
    BY <1>3, <1>13 DEF register
  <1>14. ASSUME NEW as, unregister(as) PROVE OverlayInv'
    BY <1>3, <1>14 DEF unregister
  <1>15. QED
    BY <1>4, <1>5, <1>6, <1>8, <1>9, <1>10, <1>11, <1>12, <1>13, <1>14
       DEF Next, current_cache, drop_clone, vars

-----------------------------------------------------------------------------
(* The initial states: no rows, nothing cached, no InProgress.              *)
LEMMA InitInd == Init => Ind
  <1> SUFFICES ASSUME Init PROVE Ind
    OBVIOUS
  <1>1. TypeOK
    BY DefaultShape DEF Init, TypeOK
  <1>2. RowsInv
    BY DEF Init, RowsInv, Valid
  <1>3. LinkInv /\ CacheInv /\ OverlayInv
    BY DefaultShape DEF Init, LinkInv, CacheInv, OverlayInv, MapsCached
  <1>4. QED
    BY <1>1, <1>2, <1>3 DEF Ind, LinkInd

(* The type invariant and the bookkeeping of an InProgress hold whenever it *)
(* registers, also after it has written.                                    *)
THEOREM LinkInvariant == Spec => []LinkInd
  <1>1. Init => LinkInd
    BY InitInd DEF Ind
  <1>2. LinkInd /\ [Next]_vars => LinkInd'
    BY TypeStep, RowsStep, LinkStep DEF LinkInd
  <1>3. QED
    BY <1>1, <1>2, PTL DEF Spec

(* The state of the caches keeps its shape.                                 *)
THEOREM TypeInvariant == Spec => []TypeOK
  <1>1. LinkInd => TypeOK
    BY DEF LinkInd
  <1>2. QED
    BY <1>1, LinkInvariant, PTL

(* The unreachable!() of accumulate_evs is never reached, however an        *)
(* InProgress registers, unregisters and writes.                            *)
THEOREM NoUnreachableInvariant == Spec => []NoUnreachable
  <1>1. LinkInd => NoUnreachable
    BY DEF LinkInd, RowsInv, NoUnreachable
  <1>2. QED
    BY <1>1, LinkInvariant, PTL

(* The inductive invariant of the caches.                                   *)
THEOREM IndInvariant == Spec => []Ind
  <1>1. Ind /\ [Next]_vars => Ind'
    BY TypeStep, RowsStep, LinkStep, CacheStep, OverlayStep DEF Ind, LinkInd
  <1>2. QED
    BY <1>1, InitInd, PTL DEF Spec

(* The Conn's cache answers every row that SQLite has committed, in both    *)
(* directions, and no other unless the attribute was registered again when  *)
(* its last row was gone.                                                   *)
THEOREM CacheInvariant == Spec => []CacheMatchesStore
  <1>1. Ind => CacheMatchesStore
    BY DEF Ind, CacheInv, CacheMatchesStore, ShowsValues, ShowsEntities, get_values, get_causetids
  <1>2. QED
    BY <1>1, IndInvariant, PTL

(* The getters of an InProgress answer every row transacted so far, and no  *)
(* older one with the exceptions that InProgressSeesRows names.             *)
THEOREM InProgressInvariant == Spec => []InProgressSeesRows
  <1>0. Ind => kept \subseteq late
    BY DEF Ind, LinkInd, TypeOK
  <1>1. ASSUME Ind, status = "open", NEW a \in Attrs, CachedLightlike(a), NEW e \in Entities
        PROVE  Answers(ip_get_values(a, e), ValuesOf(rows, a, e), ~Multival(a),
                       a \notin late /\ (Multival(a) \/ ValuesOf(rows, a, e) # {}))
    <2>1. a \notin unregistered_lightlike /\ OverlayShowsValues(a)
      BY <1>1 DEF Ind, LinkInd, LinkInv, OverlayInv, CachedLightlike
    <2> DEFINE said == ValuesOf(rows, a, e)
               over == Lookup(overlay.f[a], e)
               low == get_values(cache, a, e)
               seen == ip_get_values(a, e)
    <2>2. seen = IF over = Missing \/ (~Multival(a) /\ over = {}) THEN low ELSE over
      BY <2>1 DEF ip_get_values
    <2>3. CASE overlay.f[a] = NoCache
      <3>1. Answers(low, said, ~Multival(a), a \notin kept)
        BY <2>1, <2>3 DEF OverlayShowsValues, ShowsValues, get_values
      <3>2. over = Missing
        BY <2>3 DEF Lookup
      <3> HIDE DEF said, over, low, seen
      <3>3. Answers(seen, said, ~Multival(a), a \notin late /\ (Multival(a) \/ said # {}))
        BY <1>0, <1>1, <2>2, <3>1, <3>2 DEF Answers
      <3>4. QED
        BY <3>3 DEF said, seen
    <2>4. CASE overlay.f[a] # NoCache
      <3>1. /\ Answers(Present(over), said, ~Multival(a), a \notin kept)
            /\ over = Missing /\ a \notin late => low = {}
        BY <2>1, <2>4 DEF OverlayShowsValues, ShowsValues, get_values, Lookup
      <3> HIDE DEF said, over, low, seen
      <3>2. Answers(seen, said, ~Multival(a), a \notin late /\ (Multival(a) \/ said # {}))
        BY <1>0, <1>1, <2>2, <3>1 DEF Answers, Present
      <3>3. QED
        BY <3>2 DEF said, seen
    <2>5. QED
      BY <2>3, <2>4
  <1>2. ASSUME Ind, status = "open", NEW a \in Attrs, CachedReverse(a), NEW v \in Values
        PROVE  Answers(ip_get_causetids(a, v), EntitiesOf(rows, a, v), Unique(a), a \notin late)
    <2>1. /\ a \notin unregistered_reverse /\ a \in overlay.reverse_cached
          /\ OverlayShowsEntities(a)
      BY <1>2 DEF Ind, LinkInd, LinkInv, OverlayInv, CachedReverse
    <2> DEFINE said == EntitiesOf(rows, a, v)
               over == Lookup(overlay.r[a], v)
               low == get_causetids(cache, a, v)
               seen == ip_get_causetids(a, v)
    <2>2. seen = IF over = Missing THEN low ELSE over
      BY <2>1 DEF ip_get_causetids
    <2>3. low = Present(Lookup(cache.r[a], v))
      BY <1>2 DEF Ind, CacheInv, MapsCached, get_causetids, Lookup, Present
    <2>4. CASE overlay.r[a] = NoCache
      <3>1. Answers(low, said, Unique(a), a \notin kept)
        BY <2>1, <2>3, <2>4 DEF OverlayShowsEntities, ShowsEntities
      <3>2. over = Missing
        BY <2>4 DEF Lookup
      <3> HIDE DEF said, over, low, seen
      <3>3. Answers(seen, said, Unique(a), a \notin late)
        BY <1>0, <1>2, <2>2, <3>1, <3>2 DEF Answers
      <3>4. QED
        BY <3>3 DEF said, seen
    <2>5. CASE overlay.r[a] # NoCache
      <3>1. /\ Answers(Present(over), said, Unique(a), a \notin kept)
            /\ over = Missing /\ a \notin late => low = {}
        BY <2>1, <2>3, <2>5 DEF OverlayShowsEntities, ShowsEntities, Lookup
      <3> HIDE DEF said, over, low, seen
      <3>2. Answers(seen, said, Unique(a), a \notin late)
        BY <1>0, <1>2, <2>2, <3>1 DEF Answers, Present
      <3>3. QED
        BY <3>2 DEF said, seen
    <2>6. QED
      BY <2>4, <2>5
  <1>3. Ind => InProgressSeesRows
    BY <1>1, <1>2 DEF InProgressSeesRows
  <1>4. QED
    BY <1>3, IndInvariant, PTL

=============================================================================
