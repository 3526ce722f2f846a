--------------------------- MODULE UpsertResolution ---------------------------
(***************************************************************************)
(* Upsert resolution (causetq/src/upsert_resolution.rs): how the tempids   *)
(* of one transaction become causetids.  A tempid that is asserted to have *)
(* an [a v] of a :einsteindb.unique/idcauset attribute is the entity that  *)
(* has it in the store; what one generation resolves may let the next      *)
(* resolve more; what never resolves is allocated.                         *)
(*                                                                         *)
(* The driver of the loop is not in the repository.  It is modelled from   *)
(* how the generations use it (the map given to evolve_one_step answers    *)
(* temp_id_avs) and from the conflicting upserts of                        *)
(* einsteindb.rs:test_conflicting_upserts.                                 *)
(***************************************************************************)
EXTENDS Naturals, FiniteSets, FiniteSetsExt, Functions

CONSTANTS
    TempIds,    \* tempids, in their sorted order
    Entities,   \* causetids the terms and the store mention
    Values,     \* values of the attributes that are not references
    Attrs,      \* attributes of the topograph
    Idcauset,   \* those that are :einsteindb.unique/idcauset
    Refs,       \* those of type :einsteindb.type/ref
    Ops,        \* subset of {"Add", "Retract"}
    First,      \* next causetid of :einsteindb.part/user
    Inputs,     \* bound: the transactions, sets of terms
    MaxStore    \* bound: causets of identity attributes in the store

ASSUME UpsertAssumption ==
    /\ TempIds \subseteq Nat /\ IsFiniteSet(TempIds) /\ Entities \subseteq Nat
    /\ TempIds \cap Entities = {}
    /\ Idcauset \subseteq Attrs /\ Refs \subseteq Attrs
    /\ Ops \subseteq {"Add", "Retract"}
    /\ First \in Nat /\ \A e \in Entities : e < First
    /\ \A t \in TempIds : First + Cardinality(TempIds) < t
    /\ MaxStore \in Nat

VARIABLES
    store,      \* [e a v] of identity attributes
    input,      \* terms of the transaction
    inert,      \* those that mention no tempid
    gen,        \* the Generation
    labels,     \* temp_ids_in_allocations
    final,      \* FinalPopulations
    stage,      \* next call, or how the resolution ended
    tempids,    \* <<tempid, causetid>> found or allocated so far
    overwritten \* history: terms of a population `upserted` that a generation followed

vars == <<store, input, inert, gen, labels, final, stage, tempids, overwritten>>

Term ==
    [op : Ops, e : Entities \cup TempIds, a : Attrs \ Refs, v : Values]
      \cup [op : Ops, e : Entities \cup TempIds, a : Refs, v : Entities \cup TempIds]

ASSUME InputsAssumption == Inputs \subseteq SUBSET Term

Stages == {"from", "evolve", "allocate", "final",
           "done", "conflict", "bail", "unreachable", "unmatched"}
Ended == {"done", "conflict", "bail", "unreachable", "unmatched"}

Generation == [upserts_e |-> {}, upserts_ev |-> {}, allocations |-> {},
               upserted |-> {}, resolved |-> {}]
FinalPopulations == [upserted |-> {}, resolved |-> {}, allocated |-> {}]

IsTemp(x) == x \in TempIds
Temps(t) == { x \in {t.e, t.v} : IsTemp(x) }

\* The sets of at most k elements of a pool.
UpTo(k, pool) == { Range(f) : f \in UNION { [1 .. n -> pool] : n \in 0 .. k } }

\* A set of stored causets in which no [a v] has two entities.
Stores ==
    { s \in UpTo(MaxStore, [e : Entities, a : Idcauset \ Refs, v : Values]
                             \cup [e : Entities, a : Idcauset \cap Refs, v : Entities]) :
        \A c, d \in s : (c.a = d.a /\ c.v = d.v) => c = d }

Init ==
    /\ store \in Stores
    /\ input \in Inputs
    /\ inert = {} /\ gen = Generation
    /\ labels = <<>> /\ final = FinalPopulations
    /\ stage = "from" /\ tempids = {} /\ overwritten = {}

-----------------------------------------------------------------------------
is_unique(a) == a \in Idcauset

\* Variant: retractions upsert too.
UpsertsAnyOp(t) == is_unique(t.a) /\ IsTemp(t.e)

IsUpsert(t) == t.op = "Add" /\ is_unique(t.a) /\ IsTemp(t.e)

from ==
    /\ stage = "from"
    /\ gen' = [Generation EXCEPT
                 !.upserts_ev = { t \in input : IsUpsert(t) /\ IsTemp(t.v) },
                 !.upserts_e = { t \in input : IsUpsert(t) /\ ~IsTemp(t.v) },
                 !.allocations = { t \in input : ~IsUpsert(t) /\ Temps(t) # {} }]
    /\ inert' = { t \in input : Temps(t) = {} }
    /\ stage' = "evolve"
    /\ UNCHANGED <<store, input, labels, final, tempids, overwritten>>

can_evolve(g) == g.upserts_e # {}

temp_id_avs(g) == { <<t.e, t.a, t.v>> : t \in g.upserts_e }

\* The entities that have one of the [a v] asserted of a tempid.
Found(g, t) ==
    { d.e : d \in { c \in store : <<t, c.a, c.v>> \in temp_id_avs(g) } }

Rewrite(m, t) == [t EXCEPT !.e = IF @ \in DOMAIN m THEN m[@] ELSE @,
                           !.v = IF @ \in DOMAIN m THEN m[@] ELSE @]

\* The match of two tempids has no arm for two that are unknown.
Unmatched(g, m) ==
    \E t \in g.upserts_ev \cup g.allocations :
        IsTemp(t.e) /\ IsTemp(t.v) /\ Temps(t) \cap DOMAIN m = {}

\* Variant: what resolved in an earlier generation is not carried over.
EvolveDropsResolved(g, m) ==
    LET moved == { Rewrite(m, t) : t \in g.allocations }
        refs == { t \in g.upserts_ev : t.v \in DOMAIN m }
    IN  [upserted |-> { Rewrite(m, t) : t \in { u \in g.upserts_e : u.e \in DOMAIN m } },
         upserts_e |-> { [t EXCEPT !.v = m[@]] : t \in refs },
         upserts_ev |-> {},
         resolved |-> { t \in moved : Temps(t) = {} },
         allocations |-> { t \in g.upserts_e : t.e \notin DOMAIN m }
                           \cup { Rewrite(m, t) : t \in g.upserts_ev \ refs }
                           \cup { t \in moved : Temps(t) # {} }]

\* Variant: a simple upsert whose tempid is not found is searched once more.
EvolveSearchesAgain(g, m) ==
    LET moved == { Rewrite(m, t) : t \in g.allocations }
        refs == { t \in g.upserts_ev : t.v \in DOMAIN m }
    IN  [upserted |-> { Rewrite(m, t) : t \in { u \in g.upserts_e : u.e \in DOMAIN m } },
         upserts_e |-> { [t EXCEPT !.v = m[@]] : t \in refs }
                         \cup { t \in g.upserts_e : t.e \notin DOMAIN m },
         upserts_ev |-> {},
         resolved |-> g.resolved \cup { t \in moved : Temps(t) = {} },
         allocations |-> { Rewrite(m, t) : t \in g.upserts_ev \ refs }
                           \cup { t \in moved : Temps(t) # {} }]

\* A simple upsert is upserted when its tempid is found and otherwise left
\* for allocation; a complex one becomes simple when its value is found,
\* even if its entity is found too.
evolve_one_step(g, m) ==
    LET moved == { Rewrite(m, t) : t \in g.allocations }
        refs == { t \in g.upserts_ev : t.v \in DOMAIN m }
    IN  [upserted |-> { Rewrite(m, t) : t \in { u \in g.upserts_e : u.e \in DOMAIN m } },
         upserts_e |-> { [t EXCEPT !.v = m[@]] : t \in refs },
         upserts_ev |-> {},
         resolved |-> g.resolved \cup { t \in moved : Temps(t) = {} },
         allocations |-> { t \in g.upserts_e : t.e \notin DOMAIN m }
                           \cup { Rewrite(m, t) : t \in g.upserts_ev \ refs }
                           \cup { t \in moved : Temps(t) # {} }]

\* One turn of the loop. Two entities for one tempid, in this generation or
\* since an earlier one, are conflicting upserts.
evolve ==
    /\ stage = "evolve" /\ can_evolve(gen)
    /\ LET m == [t \in { u \in TempIds : Found(gen, u) # {} } |->
                   CHOOSE e \in Found(gen, t) : TRUE]
           known == tempids \cup UNION { {t} \X Found(gen, t) : t \in TempIds }
       IN  IF \E p, q \in known : p[1] = q[1] /\ p[2] # q[2]
           THEN stage' = "conflict" /\ UNCHANGED <<gen, tempids, overwritten>>
           ELSE IF Unmatched(gen, m)
           THEN stage' = "unmatched" /\ UNCHANGED <<gen, tempids, overwritten>>
           ELSE /\ gen' = evolve_one_step(gen, m)
                /\ overwritten' = overwritten \cup gen.upserted
                /\ tempids' = known
                /\ UNCHANGED stage
    /\ UNCHANGED <<store, input, inert, labels, final>>

allocate_unresolved_upserts ==
    /\ stage = "evolve" /\ ~can_evolve(gen)
    /\ gen' = [gen EXCEPT !.allocations = @ \cup gen.upserts_ev, !.upserts_ev = {}]
    /\ stage' = "allocate"
    /\ UNCHANGED <<store, input, inert, labels, final, tempids, overwritten>>

-----------------------------------------------------------------------------
(* Allocation: tempids of assertions, those that share an [a v] unioned,   *)
(* labelled densely in sorted order.                                       *)

\* Variant: the tempid in value position is forgotten.
EntityTemps(terms) == { t.e : t \in { u \in terms : u.op = "Add" /\ IsTemp(u.e) } }

AllocatedTemps(terms) == UNION { Temps(t) : t \in { u \in terms : u.op = "Add" } }

tempid_avs(terms) ==
    LET upsert == { t \in terms : IsUpsert(t) }
    IN  { { u.e : u \in { s \in upsert : s.a = t.a /\ s.v = t.v } } : t \in upsert }

\* Variant: only neighbours are joined.
UnionLast(group, uf) ==
    [t \in DOMAIN uf |-> IF t \in group THEN Min(group) ELSE uf[t]]

\* The classes of every member of the group become one, led by its least.
union(group, uf) ==
    LET reps == { uf[t] : t \in group }
    IN  [t \in DOMAIN uf |-> IF uf[t] \in reps THEN Min(reps) ELSE uf[t]]

temp_ids_in_allocations(terms) ==
    LET ids == AllocatedTemps(terms)
        uf == FoldSet(union, [t \in ids |-> t], tempid_avs(terms))
    IN  [t \in ids |-> Cardinality({ r \in Range(uf) : r < uf[t] })]

allocate ==
    /\ stage = "allocate"
    /\ labels' = temp_ids_in_allocations(gen.allocations)
    /\ tempids' = tempids \cup { <<t, First + labels'[t]>> : t \in DOMAIN labels' }
    /\ stage' = "final"
    /\ UNCHANGED <<store, input, inert, gen, final, overwritten>>

\* A retraction of a tempid that did not upsert fails the transaction.
into_final_populations ==
    /\ stage = "final"
    /\ LET m == [t \in DOMAIN labels |-> First + labels[t]]
           missing == { t \in gen.allocations : Temps(t) \ DOMAIN m # {} }
       IN  IF missing = {}
           THEN /\ final' = [upserted |-> gen.upserted, resolved |-> gen.resolved,
                             allocated |-> { Rewrite(m, t) : t \in gen.allocations }]
                /\ stage' = "done"
           ELSE /\ stage' = IF \E t \in missing : t.op = "Add" THEN "unreachable" ELSE "bail"
                /\ UNCHANGED final
    /\ UNCHANGED <<store, input, inert, gen, labels, tempids, overwritten>>

Next ==
    \/ from
    \/ evolve
    \/ allocate_unresolved_upserts
    \/ allocate
    \/ into_final_populations

\* A single thread that nothing blocks.
Spec == Init /\ [][Next]_vars /\ WF_vars(Next)

-----------------------------------------------------------------------------
(* The populations of a generation are what its fields are documented to   *)
(* be: only assertions upsert, complex upserts have two tempids and simple *)
(* ones only the entity, allocations still have one, and what is upserted  *)
(* or resolved has none.                                                   *)
TypeOK ==
    /\ stage \in Stages
    /\ \A t \in gen.upserts_e \cup gen.upserts_ev : t.op = "Add" /\ t.a \in Idcauset /\ IsTemp(t.e)
    /\ \A t \in gen.upserts_e : ~IsTemp(t.v)
    /\ \A t \in gen.upserts_ev : IsTemp(t.v)
    /\ \A t \in gen.allocations : Temps(t) # {}
    /\ \A t \in gen.upserted \cup gen.resolved \cup inert : Temps(t) = {}
    /\ \A p \in tempids : p[1] \in TempIds /\ p[2] \in Nat
    /\ \A t \in DOMAIN labels : labels[t] < Cardinality(TempIds)

Populations == final.upserted \cup final.resolved \cup final.allocated

\* c is the causetid of tempid t: the entity found for it, or else the one allocated.
Causetid(t, c) == <<t, c>> \in tempids /\ \A p \in tempids : p[1] = t => c <= p[2]

\* The one term that may be given another causetid than the one found: a complex
\* upsert whose value is found waits for the next generation under its tempid.
Waits(i) == IsUpsert(i) /\ IsTemp(i.v)

\* f is the input term i with its tempids replaced by their causetids.
Instance(i, f) ==
    /\ i.op = f.op /\ i.a = f.a
    /\ i.e = f.e \/ Causetid(i.e, f.e) \/ (Waits(i) /\ <<i.e, f.e>> \in tempids)
    /\ i.v = f.v \/ Causetid(i.v, f.v)

(* "every tempid in a :einsteindb/add causet should resolve or be          *)
(* allocated": no unreachable!() of into_final_populations is reached,     *)
(* whatever resolved in whichever generation.                              *)
NoUnreachable == stage # "unreachable"

(* Nothing is made up: every term of the final populations mentions no     *)
(* tempid and is a term of the transaction in which each tempid became one  *)
(* causetid, the same in all terms, but for the entity of a complex upsert, *)
(* which may be allocated although it has been found.                       *)
Sound ==
    stage = "done" =>
        \A f \in Populations : Temps(f) = {} /\ \E i \in input : Instance(i, f)

\* A stored causet as a term.
AsTerm(d) == [op |-> "Add", e |-> d.e, a |-> d.a, v |-> d.v]

\* Some upsert of the transaction has the tempid of i and is in the store.
FoundInStore(i) ==
    \E j \in input, d \in store :
        IsUpsert(j) /\ j.e = i.e /\ Instance(j, AsTerm(d))

(* Every term of the transaction ends in a final population or is inert,    *)
(* with one exception, a loss: an upsert whose tempid was found in the      *)
(* store, perhaps by another [a v] than its own, in a generation that       *)
(* another followed, which starts with an empty `upserted`.                 *)
Kept ==
    stage = "done" =>
        \A i \in input :
            \/ \E f \in Populations \cup inert : Instance(i, f)
            \/ IsUpsert(i) /\ FoundInStore(i) /\ \E f \in overwritten : Instance(i, f)

(* Through the generations, terms change their population and their         *)
(* tempids: none is made up, and none is lost but the upserts of a          *)
(* generation that is not the last.  (The comment on `upserted` says these  *)
(* are in the store anyway; NothingLost, which says so, does not hold.)     *)
TermsKept == Sound /\ Kept

\* No set that is closed under sharing an [a v] has t and not s.
Joined(s, t) ==
    \A p \in SUBSET DOMAIN labels :
        (t \in p /\ \A g \in tempid_avs(gen.allocations) : g \cap p # {} => g \subseteq p)
            => s \in p

(* Two allocated tempids get one label exactly when a chain of shared      *)
(* [a v] joins them, and the labels are 0 .. n without a gap, so that the  *)
(* causetids allocated are as few as possible and contiguous.              *)
Labelling ==
    stage = "final" =>
        /\ \A s, t \in DOMAIN labels : labels[s] = labels[t] <=> Joined(s, t)
        /\ \A t \in DOMAIN labels : \A n \in 0 .. labels[t] : \E s \in DOMAIN labels : labels[s] = n

(* The evolution ends: every generation has fewer complex upserts.         *)
Terminates == <>(stage \in Ended)

(* Upserts that an overwritten `upserted` loses are "guaranteed to be in    *)
(* the store", so that no term of the transaction is lost.                  *)
NothingLost ==
    stage = "done" =>
        \A i \in input :
            \/ \E f \in Populations \cup inert : Instance(i, f)
            \/ \E d \in store : Instance(i, AsTerm(d))

(* Each tempid becomes one causetid in all terms of the transaction.        *)
OneCausetid ==
    stage = "done" => \A p, q \in tempids : p[1] = q[1] => p[2] = q[2]
===============================================================================
