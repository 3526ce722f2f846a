------------------------------ MODULE Topograph ------------------------------
(***************************************************************************)
(* The topograph: allegro_poset/spacetime.rs, fdb_traits/src/schema.rs and *)
(* the materialized views of einstein_db/src/einsteindb.rs.                *)
(*                                                                         *)
(* What the store knows of its attributes exists three times: as causets   *)
(* like any other, as the views `solitonids` and `topograph` copied from   *)
(* them, and as the Topograph in memory that every later transaction is    *)
(* checked against.  A transaction that touches spacetime applies its      *)
(* assertions and retractions to the Topograph, one reader of them, and    *)
(* then refreshes the views, another; a reopened store has the views only. *)
(*                                                                         *)
(* Spacetime attributes are cardinality one, and :einsteindb/solitonid is  *)
(* unique.  A transaction that fails anywhere is rolled back, and the copy *)
(* of the Topograph it worked on is dropped, so failures are guards here.  *)
(* :einsteindb/isComponent and :einsteindb/noHistory never get past        *)
(* update_attribute_map_from_causetid_triples and are left out.            *)
(*                                                                         *)
(* A builder that does not mention a characteristic can make the Topograph *)
(* in memory lose it, and a removed attribute can leave values behind.     *)
(* Two history variables, astray and lapsed, record the attributes to      *)
(* which that happened.                                                    *)
(***************************************************************************)
EXTENDS Integers, FiniteSets, FiniteSetsExt

CONSTANTS
    Entities,   \* causetids that may have a solitonid
    Attrs,      \* those of them that may be attributes
    Keywords,   \* solitonids
    Types,      \* value types
    Holders,    \* entities that have values of the attributes
    Vals,       \* values
    MaxValues   \* bound: values stored at a time

None == "unset"

\* Solitonids of the entities: no two have the same one.
Namings == {s \in [Entities -> Keywords \cup {None}] :
               \A e, f \in Entities : s[e] = s[f] /\ s[e] # None => e = f}

\* The characteristics of an attribute and the values each can have.
Chars == [valueType   |-> Types,
          cardinality |-> {"one", "many"},
          unique      |-> {"value"},
          Index       |-> {"fulltext", "none"},
          fulltext    |-> {"true", "false"}]
CharNames == DOMAIN Chars
CharVals == UNION {Chars[c] : c \in CharNames}
Descriptions == [Attrs -> {d \in [CharNames -> CharVals \cup {None}] :
                              \A c \in CharNames : d[c] \in Chars[c] \cup {None}}]
Unset == [c \in CharNames |-> None]

ASSUME TopographAssumption ==
    /\ Entities \subseteq Nat /\ IsFiniteSet(Entities) /\ Attrs \subseteq Entities
    /\ None \notin Keywords \cup Types

VARIABLES
    solitonid,      \* the [e :einsteindb/solitonid k] causets
    char,           \* the causets that describe attributes
    data,           \* the causets [e a v], with their unique_causet_locale flag
    solitonids,     \* view: the solitonids
    topograph,      \* view: the characteristics of entities that have a type
    causetid_map,   \* memory: causetid to solitonid
    solitonid_map,  \* memory: solitonid to causetid
    attribute_map,  \* memory: the attributes
    astray,         \* history: attributes of which memory lost a characteristic
                    \* since the store was opened
    lapsed          \* history: attributes whose values were ever kept without
                    \* their uniqueness, or outlived them

causets == <<solitonid, char, data>>
views == <<solitonids, topograph>>
memory == <<causetid_map, solitonid_map, attribute_map>>
history == <<astray, lapsed>>
vars == <<causets, views, memory, history>>

\* A map without the keys in K.
Drop(f, K) == [k \in DOMAIN f \ K |-> f[k]]
\* A map with the pair k, x inserted.
Insert(f, k, x) == [j \in DOMAIN f \cup {k} |-> IF j = k THEN x ELSE f[j]]

Attribute == [causet_locale_type : Types, multival : BOOLEAN, index : BOOLEAN,
              fulltext : BOOLEAN, unique : {None, "value"}]

TypeOK ==
    /\ solitonid \in Namings /\ char \in Descriptions
    /\ data \subseteq [e : Holders, a : Attrs, v : Vals, flag : BOOLEAN]
    /\ solitonids \subseteq Entities \X Keywords
    /\ \A a \in DOMAIN topograph, c \in CharNames : topograph[a][c] \in Chars[c] \cup {None}
    /\ DOMAIN causetid_map \subseteq Entities /\ DOMAIN solitonid_map \subseteq Keywords
    /\ \A a \in DOMAIN attribute_map : attribute_map[a] \in Attribute
    /\ astray \subseteq Attrs /\ lapsed \subseteq Attrs

Init ==
    /\ solitonid = [e \in Entities |-> None] /\ char = [a \in Attrs |-> Unset]
    /\ data = {} /\ solitonids = {} /\ topograph = << >>
    /\ causetid_map = << >> /\ solitonid_map = << >> /\ attribute_map = << >>
    /\ astray = {} /\ lapsed = {}

-----------------------------------------------------------------------------
(* AttributeBuilder: what a transaction says of one attribute.             *)

DefaultBuilder == Unset

\* The builder a retraction starts from: the characteristics that may change.
to_modify_attribute(at) ==
    [Unset EXCEPT !["cardinality"] = IF at.multival THEN "many" ELSE "one",
                  !["unique"] = IF at.unique = None THEN "non_unique" ELSE at.unique]

\* Builder's unique as an attribute has it.
UniqueOf(b) == IF b["unique"] = "non_unique" THEN None ELSE b["unique"]

build(b) ==
    [causet_locale_type |-> b["valueType"],
     multival |-> b["cardinality"] = "many",
     index |-> b["Index"] = "fulltext",
     fulltext |-> b["fulltext"] = "true",
     unique |-> UniqueOf(b)]

validate(at) ==
    /\ at.unique # None => at.index
    /\ at.fulltext => at.causet_locale_type = "string" /\ at.index

validate_install_attribute(b) == b["valueType"] # None
validate_alter_attribute(b) == b["valueType"] = None /\ b["fulltext"] = None

\* Variant: a retraction of :einsteindb/unique leaves the attribute unique.
MutateKeepsUnique(b, at) ==
    [at EXCEPT !.multival = IF b["cardinality"] = None THEN @ ELSE b["cardinality"] = "many",
               !.unique = IF UniqueOf(b) = None THEN @ ELSE UniqueOf(b),
               !.index = IF b["Index"] = None THEN @ ELSE b["Index"] = "fulltext"]

\* An attribute after the alteration; a builder without unique takes it away.
mutate(b, at) ==
    [at EXCEPT !.multival = IF b["cardinality"] = None THEN @ ELSE b["cardinality"] = "many",
               !.unique = UniqueOf(b),
               !.index = IF b["Index"] = None THEN @ ELSE b["Index"] = "fulltext"]

-----------------------------------------------------------------------------
(* A transaction, as the rows it leaves: solitonids s and characteristics  *)
(* n.  AddRetractAlterSet sorts its assertions and retractions by entity   *)
(* and attribute.                                                          *)

\* What n asserts or alters, and what it retracts, of attribute a.
Asserts(a, n) == {c \in CharNames : n[a][c] # char[a][c] /\ n[a][c] # None}
Retracts(a, n) == {c \in CharNames : char[a][c] # None /\ n[a][c] = None}

NamesAsserted(s) == {e \in Entities : solitonid[e] = None /\ s[e] # None}
NamesRetracted(s) == {e \in Entities : solitonid[e] # None /\ s[e] = None}
NamesAltered(s) == {e \in Entities : s[e] # solitonid[e] /\ None \notin {s[e], solitonid[e]}}

\* Attributes whose defining characteristics are retracted.
Negated(n) == {a \in Attrs : \A c \in {"cardinality", "valueType"} :
                                 char[a][c] # None /\ n[a][c] = None}

\* What update_attribute_map_from_topograph_retractions leaves to the next step.
OtherRetractions(a, n) == IF a \in Negated(n) THEN {} ELSE Retracts(a, n)

\* The attributes with a builder.
Touched(n) == {a \in Attrs : OtherRetractions(a, n) # {} \/ Asserts(a, n) # {}}

\* The builder of attribute a, over the attributes m that are left.
builder(a, m, n) ==
    LET new == Asserts(a, n)
        ret == OtherRetractions(a, n)
        base == IF ret # {} /\ a \in DOMAIN m THEN to_modify_attribute(m[a]) ELSE DefaultBuilder
    IN [c \in CharNames |-> IF c \in new THEN n[a][c]
                            ELSE IF c \in ret THEN "non_unique"
                            ELSE base[c]]

\* Only :einsteindb/unique may be retracted alone, with the value memory has.
RetractionsPermitted(m, n) ==
    \A a \in Attrs :
        LET ret == OtherRetractions(a, n)
        IN  ret # {} => /\ ret = {"unique"}
                        /\ a \in DOMAIN m /\ m[a].unique = char[a]["unique"]

\* Every builder is valid for the attribute it installs or alters.
BuildersValid(m, n) ==
    \A a \in Touched(n) :
        LET b == builder(a, m, n)
        IN IF a \in DOMAIN m THEN validate_alter_attribute(b)
           ELSE validate_install_attribute(b) /\ validate(build(b))

update_attribute_map(m, n) ==
    [a \in DOMAIN m \cup Touched(n) |->
        IF a \notin Touched(n) THEN m[a]
        ELSE IF a \in DOMAIN m THEN mutate(builder(a, m, n), m[a])
        ELSE build(builder(a, m, n))]

\* Variant: the old solitonid is left in the map.
AlteredNotRemoved(s, ids) ==
    LET after[A \in SUBSET NamesAltered(s)] ==
            IF A = {} THEN ids
            ELSE Insert(after[A \ {Max(A)}], s[Max(A)], Max(A))
    IN  after[NamesAltered(s)]

\* The renamed entities, in the order of their causetids.
AlterNames(s, ids) ==
    LET after[A \in SUBSET NamesAltered(s)] ==
            IF A = {} THEN ids
            ELSE Insert(Drop(after[A \ {Max(A)}], {solitonid[Max(A)]}), s[Max(A)], Max(A))
    IN  after[NamesAltered(s)]

\* Solitonid to causetid: asserted first, then altered, then retracted.
update_solitonid_map(s) ==
    LET add == [k \in DOMAIN solitonid_map \cup {s[e] : e \in NamesAsserted(s)} |->
                    IF \E e \in NamesAsserted(s) : s[e] = k
                    THEN CHOOSE e \in NamesAsserted(s) : s[e] = k
                    ELSE solitonid_map[k]]
    IN Drop(AlterNames(s, add), {solitonid[e] : e \in NamesRetracted(s)})

update_causetid_map(s) ==
    [e \in (DOMAIN causetid_map \cup NamesAsserted(s) \cup NamesAltered(s)) \ NamesRetracted(s) |->
        IF e \in NamesAsserted(s) \cup NamesAltered(s) THEN s[e] ELSE causetid_map[e]]

-----------------------------------------------------------------------------
(* The views and the checks of update_spacetime.                           *)

SolitonidRows(s) == {p \in Entities \X Keywords : s[p[1]] = p[2]}
TopographRows(n) == [a \in {b \in Attrs : n[b]["valueType"] # None} |-> n[a]]

\* Variant: only installed and altered attributes refresh the topograph view.
ViewUnlessRemoved(s, n) == IF Touched(n) # {} THEN TopographRows(n) ELSE topograph

\* The topograph view after a transaction.
RefreshTopograph(s, n) ==
    IF Touched(n) # {} \/ s # solitonid THEN TopographRows(n) ELSE topograph

ValuesOf(a) == {d \in data : d.a = a}
SingleValued(a) == \A x, y \in ValuesOf(a) : x.e = y.e => x.v = y.v
NoConflict(D) == \A x, y \in D : x.a = y.a /\ x.v = y.v => x.e = y.e

\* Variant: the number of rows is not looked at.
AnyCardinality(new) == TRUE

\* SELECT EXISTS always has a row, so that :einsteindb.cardinality/many never
\* becomes :einsteindb.cardinality/one.
CardinalityPermitted(new) ==
    \A a \in DOMAIN attribute_map \cap DOMAIN new :
        attribute_map[a].multival => new[a].multival

\* The data with the flags of the attributes whose uniqueness changes.
Reflagged(new) ==
    {[d EXCEPT !.flag =
        IF /\ d.a \in DOMAIN attribute_map \cap DOMAIN new
           /\ new[d.a].unique # attribute_map[d.a].unique
        THEN new[d.a].unique # None ELSE @] : d \in data}

-----------------------------------------------------------------------------
(* What goes wrong with an attribute, for the history variables.           *)

\* The characteristics of a that memory takes from its builder (mutate: unique
\* only) and that the builder, which has what is new, does not mention.
Unsaid(a, m, n) ==
    {c \in IF a \in DOMAIN m THEN {"unique"} ELSE CharNames :
        n[a][c] # None /\ c \notin Asserts(a, n)}

\* The attributes that are removed while they have values.
Orphaned(n) == {a \in Negated(n) : ValuesOf(a) # {}}

-----------------------------------------------------------------------------
\* The checks of the characteristics: those of update_attribute_map and, against
\* the values that are stored, those of update_spacetime.
Permitted(n) ==
    LET m == Drop(attribute_map, Negated(n))
        new == update_attribute_map(m, n)
    IN  /\ RetractionsPermitted(m, n)
        /\ BuildersValid(m, n)
        /\ CardinalityPermitted(new)
        /\ NoConflict({d \in Reflagged(new) : d.flag})

\* A transaction that touches spacetime, with characteristics that are Permitted.
transact(s, n) ==
    LET m == Drop(attribute_map, Negated(n))
        new == update_attribute_map(m, n)
    IN  /\ <<s, n>> # <<solitonid, char>>
        /\ Negated(n) \subseteq NamesRetracted(s)
        /\ solitonid' = s /\ char' = n /\ data' = Reflagged(new)
        /\ solitonids' = IF s # solitonid THEN SolitonidRows(s) ELSE solitonids
        /\ topograph' = RefreshTopograph(s, n)
        /\ causetid_map' = update_causetid_map(s)
        /\ solitonid_map' = update_solitonid_map(s)
        /\ attribute_map' = new
        /\ astray' = astray \cup {a \in Touched(n) : Unsaid(a, m, n) # {}}
        /\ lapsed' = lapsed \cup Orphaned(n)
                            \cup {a \in Touched(n) : "unique" \in Unsaid(a, m, n)}

\* [:einsteindb/add e a v], checked against the Topograph in memory.
add(e, a, v) ==
    /\ a \in DOMAIN attribute_map
    /\ ~\E d \in data : d.e = e /\ d.a = a /\ d.v = v
    /\ LET at == attribute_map[a]
           kept == IF at.multival THEN data ELSE {d \in data : ~(d.e = e /\ d.a = a)}
           all == kept \cup {[e |-> e, a |-> a, v |-> v, flag |-> at.unique # None]}
       IN /\ Cardinality(all) <= MaxValues
          /\ NoConflict({d \in all : d.flag})
          /\ data' = all
    /\ UNCHANGED <<solitonid, char, views, memory, history>>

\* [:einsteindb/retract e a v].
retract(d) ==
    /\ d \in data /\ d.a \in DOMAIN attribute_map
    /\ data' = data \ {d}
    /\ UNCHANGED <<solitonid, char, views, memory, history>>

\* What read_attribute_map makes of the topograph view.
read_attribute_map == [a \in DOMAIN topograph |-> build(topograph[a])]
read_causetid_map == [k \in {p[2] : p \in solitonids} |->
                         (CHOOSE p \in solitonids : p[2] = k)[1]]
Readable == \A a \in DOMAIN topograph : validate(read_attribute_map[a])
EntitiesByName(ids) == [e \in {ids[k] : k \in DOMAIN ids} |->
                           CHOOSE k \in DOMAIN ids : ids[k] = e]

\* The store is closed and opened again.
read_einsteindb ==
    /\ Readable
    /\ solitonid_map' = read_causetid_map
    /\ causetid_map' = EntitiesByName(read_causetid_map)
    /\ attribute_map' = read_attribute_map
    /\ astray' = {}
    /\ UNCHANGED <<causets, views, lapsed>>

Next ==
    \/ \E n \in Descriptions : Permitted(n) /\ \E s \in Namings : transact(s, n)
    \/ \E e \in Holders, a \in Attrs, v \in Vals : add(e, a, v)
    \/ \E d \in data : retract(d)
    \/ read_einsteindb

Spec == Init /\ [][Next]_vars

-----------------------------------------------------------------------------
(***************************************************************************)
(* A solitonid in memory never names an entity that the causets do not     *)
(* give it: renaming, re-purposing and retracting solitonids, also several *)
(* at once, may lose an entry of the two maps but leave no stale one.      *)
(***************************************************************************)
NamesSound ==
    /\ \A k \in DOMAIN solitonid_map : solitonid[solitonid_map[k]] = k
    /\ \A e \in Entities : IF e \in DOMAIN causetid_map THEN solitonid[e] = causetid_map[e]
                           ELSE solitonid[e] = None

(***************************************************************************)
(* After any series of installs, alterations, removals and reopenings the  *)
(* attributes in memory are the ones the causets describe, with their type *)
(* and cardinality; memory makes none of them unique, indexed or fulltext  *)
(* unless the causets do.  It misses what they say only of an attribute    *)
(* that, since the store was opened, was altered while unique by a         *)
(* transaction that did not assert its uniqueness again (mutate), or was   *)
(* installed over characteristics that an earlier removal had left.        *)
(***************************************************************************)
AttributesMatch ==
    /\ DOMAIN attribute_map = {a \in Attrs : char[a]["valueType"] # None}
    /\ \A a \in DOMAIN attribute_map :
         LET at == attribute_map[a]
             said == build(char[a])
         IN  /\ at.causet_locale_type = said.causet_locale_type
             /\ at.multival = said.multival
             /\ at.index => said.index
             /\ at.fulltext => said.fulltext
             /\ at.unique \in {None, said.unique}
             /\ a \notin astray => at = said

(***************************************************************************)
(* The views hold the slices of causets they are copies of, although       *)
(* update_spacetime refreshes each only when its report says so.           *)
(***************************************************************************)
ViewsExact == solitonids = SolitonidRows(solitonid) /\ topograph = TopographRows(char)

(***************************************************************************)
(* The values stored satisfy what the attribute in memory promises to the  *)
(* readers: one value per entity, and one entity per value of a unique     *)
(* attribute, through every alteration, removal and reopening, except for  *)
(* an attribute that was once removed while it had values or was once not  *)
(* unique in memory although the causets made it so (lapsed): its old      *)
(* values meet a promise they were not checked against.                    *)
(***************************************************************************)
DataKept ==
    \A a \in DOMAIN attribute_map \ lapsed :
        /\ ~attribute_map[a].multival => SingleValued(a)
        /\ attribute_map[a].unique # None => NoConflict(ValuesOf(a))

(***************************************************************************)
(* The materialized views give the Topograph in memory again: the          *)
(* assertion TestConn makes after every transaction.                       *)
(***************************************************************************)
assert_materialized_views ==
    /\ Readable
    /\ attribute_map = read_attribute_map
    /\ solitonid_map = read_causetid_map
    /\ causetid_map = EntitiesByName(read_causetid_map)

(***************************************************************************)
(* What of that holds always: the views give the causetids in memory       *)
(* again, the solitonids as far as memory has them, and the attributes     *)
(* unless one is astray.                                                   *)
(***************************************************************************)
Materialized ==
    /\ causetid_map = EntitiesByName(read_causetid_map)
    /\ \A k \in DOMAIN solitonid_map :
          k \in DOMAIN read_causetid_map /\ solitonid_map[k] = read_causetid_map[k]
    /\ astray = {} => attribute_map = read_attribute_map

=============================================================================
