--------------------------- MODULE TopographProofs ---------------------------
(***************************************************************************)
(* Proofs about the topograph.                                             *)
(*                                                                         *)
(* Names in memory are never stale, the views are copies of the causets,   *)
(* memory's attributes are the ones described, and the data keeps what     *)
(* they promise, whatever the application transacts: astray and lapsed     *)
(* name the attributes of which the code makes less than that.             *)
(***************************************************************************)
EXTENDS Topograph, FiniteSetTheorems, NaturalsInduction, WellFoundedInduction, TLAPS

-----------------------------------------------------------------------------
(* The invariants. *)

\* Memory's solitonids are some of the causets', and its causetids all of them.
NamesInv ==
    /\ attribute_map = [a \in DOMAIN attribute_map |-> attribute_map[a]]
    /\ solitonid_map = [k \in DOMAIN solitonid_map |-> solitonid_map[k]]
    /\ \A k \in DOMAIN solitonid_map :
          solitonid_map[k] \in Entities /\ solitonid[solitonid_map[k]] = k
    /\ causetid_map = [e \in {f \in Entities : solitonid[f] # None} |-> solitonid[e]]

BaseInd == TypeOK /\ NamesInv /\ ViewsExact

\* Only attributes have a cardinality.
CardinalityInv == \A a \in Attrs : char[a]["valueType"] = None => char[a]["cardinality"] = None

\* Memory loses the uniqueness of lapsed attributes only.
UniqueInv ==
    \A a \in DOMAIN attribute_map \ lapsed : attribute_map[a].unique = UniqueOf(char[a])

\* Every value is of an attribute in memory, and flagged as that one says.
FlagInv ==
    \A d \in data : d.a \notin lapsed =>
        /\ d.a \in DOMAIN attribute_map
        /\ d.flag <=> attribute_map[d.a].unique # None

AttributesInd == CardinalityInv /\ AttributesMatch /\ UniqueInv /\ FlagInv /\ DataKept

-----------------------------------------------------------------------------
(* Finite sets of causetids. *)

(* A set of naturals has a least element.                                  *)
LEMMA LeastExists ==
    ASSUME NEW S \in SUBSET Nat, S # {}
    PROVE  \E m \in S : \A i \in S : m <= i
  <1>1. PICK m \in S : \A i \in S : ~ (<<i, m>> \in OpToRel(<, Nat))
    BY WFMin, NatLessThanWellFounded
  <1>2. \A i \in S : ~ (i < m)
    BY <1>1 DEF OpToRel
  <1>3. QED
    BY <1>2

(* A property of the finite subsets of E that the empty set has, and a set *)
(* that is not empty whenever all smaller ones do, holds of all of them:   *)
(* Bad is the set of the exceptions.                                       *)
LEMMA NoneSmallest ==
    ASSUME NEW E, IsFiniteSet(E), NEW Bad \in SUBSET SUBSET E,
           \A A \in Bad : \E B \in Bad : Cardinality(B) < Cardinality(A)
    PROVE  Bad = {}
  <1> DEFINE sizes == {Cardinality(A) : A \in Bad}
  <1> SUFFICES ASSUME Bad # {} PROVE FALSE
    OBVIOUS
  <1>1. \A A \in Bad : Cardinality(A) \in Nat
    BY FS_Subset, FS_CardinalityType
  <1>2. sizes \in SUBSET Nat /\ sizes # {}
    BY <1>1
  <1>3. PICK m \in sizes : \A i \in sizes : m <= i
    <2> HIDE DEF sizes
    <2>1. QED
      BY <1>2, LeastExists
  <1>4. PICK A \in Bad : m = Cardinality(A)
    BY <1>3
  <1>5. PICK B \in Bad : Cardinality(B) < Cardinality(A)
    OBVIOUS
  <1>6. Cardinality(B) \in sizes
    OBVIOUS
  <1>7. m <= Cardinality(B)
    <2> HIDE DEF sizes
    <2>1. QED
      BY <1>3, <1>6
  <1>8. Cardinality(A) \in Nat /\ Cardinality(B) \in Nat
    BY <1>1
  <1> HIDE DEF sizes
  <1>9. QED
    BY <1>4, <1>5, <1>7, <1>8

(* A finite set without one of its members is smaller.                     *)
LEMMA Smaller ==
    ASSUME NEW E, IsFiniteSet(E), NEW A \in SUBSET E, NEW x \in A
    PROVE  /\ A \ {x} \in SUBSET E
           /\ Cardinality(A \ {x}) < Cardinality(A)
  <1>1. IsFiniteSet(A) /\ Cardinality(A) \in Nat
    BY FS_Subset, FS_CardinalityType
  <1>2. Cardinality(A \ {x}) = Cardinality(A) - 1
    BY <1>1, FS_RemoveElement
  <1>3. QED
    BY <1>1, <1>2

(* Max: a finite set of naturals that is not empty has a greatest element. *)
LEMMA MaxExists ==
    ASSUME NEW E \in SUBSET Nat, IsFiniteSet(E), NEW A \in SUBSET E, A # {}
    PROVE  Max(A) \in A /\ \A x \in A : x <= Max(A)
  <1> DEFINE Bad == {B \in SUBSET E : B # {} /\ ~\E m \in B : \A x \in B : m >= x}
  <1>1. ASSUME NEW B \in Bad PROVE \E C \in Bad : Cardinality(C) < Cardinality(B)
    <2>1. PICK y \in B : TRUE
      OBVIOUS
    <2>2. B \in SUBSET E /\ y \in Nat
      OBVIOUS
    <2> DEFINE C == B \ {y}
    <2>3. C \in SUBSET E /\ Cardinality(C) < Cardinality(B)
      BY <2>1, <2>2, Smaller
    <2>4. C # {}
      <3>1. SUFFICES ASSUME C = {} PROVE FALSE
        OBVIOUS
      <3>2. \A x \in B : y >= x
        BY <3>1, <2>2
      <3>3. QED
        BY <3>2
    <2>5. ASSUME NEW m \in C, \A x \in C : m >= x PROVE FALSE
      <3>1. m \in B /\ m \in Nat
        BY <2>2
      <3>2. CASE m >= y
        <4>1. \A x \in B : m >= x
          BY <2>5, <3>2
        <4>2. QED
          BY <3>1, <4>1
      <3>3. CASE ~(m >= y)
        <4>1. \A x \in B : x \in Nat
          BY <2>2
        <4>2. \A x \in B : y >= x
          BY <2>2, <2>5, <3>1, <3>3, <4>1
        <4>3. QED
          BY <4>2
      <3>4. QED
        BY <3>2, <3>3
    <2>6. C \in Bad
      BY <2>3, <2>4, <2>5
    <2>7. QED
      BY <2>3, <2>6
  <1>2. Bad \in SUBSET SUBSET E
    OBVIOUS
  <1>3. Bad = {}
    <2> HIDE DEF Bad
    <2>1. QED
      BY <1>1, <1>2, NoneSmallest
  <1>4. \E m \in A : \A x \in A : m >= x
    BY <1>3
  <1>5. Max(A) \in A /\ \A x \in A : Max(A) >= x
    BY <1>4 DEF Max
  <1>6. A \in SUBSET Nat
    OBVIOUS
  <1>7. QED
    BY <1>5, <1>6

-----------------------------------------------------------------------------
(* Renaming. *)

\* The recursion of AlterNames, with the function that solves it.
Renames(f, s, ids) ==
    f = [A \in SUBSET NamesAltered(s) |->
            IF A = {} THEN ids
            ELSE Insert(Drop(f[A \ {Max(A)}], {solitonid[Max(A)]}), s[Max(A)], Max(A))]

\* k is the new solitonid of a member of A, and no later one gives it up.
Gained(A, s, k) == \E e \in A : s[e] = k /\ \A d \in A : solitonid[d] = k => d < e
\* No member of A gets k or gives it up.
Bypassed(A, s, k) == \A e \in A : s[e] # k /\ solitonid[e] # k

\* The keys and the map once the members of A are renamed.
RenamedKeys(A, s, ids) ==
    {k \in DOMAIN ids \cup {s[e] : e \in A} :
        Gained(A, s, k) \/ (k \in DOMAIN ids /\ Bypassed(A, s, k))}
Renamed(A, s, ids) ==
    [k \in RenamedKeys(A, s, ids) |->
        IF \E e \in A : s[e] = k THEN CHOOSE e \in A : s[e] = k ELSE ids[k]]

(* Who has a solitonid.                                                    *)
LEMMA OneOwner ==
    ASSUME NEW s \in Namings, NEW A \in SUBSET NamesAltered(s), NEW e \in A
    PROVE  /\ e \in Entities /\ s[e] \in Keywords /\ s[e] # solitonid[e]
           /\ \A f \in Entities : s[f] = s[e] => f = e
           /\ (CHOOSE f \in A : s[f] = s[e]) = e
  <1>1. e \in Entities /\ s[e] # solitonid[e] /\ s[e] # None
    BY DEF NamesAltered
  <1>2. \A f \in Entities : s[f] = s[e] => f = e
    BY <1>1 DEF Namings
  <1>3. \A f \in A : f \in Entities
    BY DEF NamesAltered
  <1>4. s[e] \in Keywords
    BY <1>1 DEF Namings
  <1>5. (CHOOSE f \in A : s[f] = s[e]) = e
    BY <1>2, <1>3
  <1>6. QED
    BY <1>1, <1>2, <1>4, <1>5

(* The keys after the last renaming.                                       *)
LEMMA RenamedKeysStep ==
    ASSUME TopographAssumption, NEW s \in Namings, NEW ids,
           NEW A \in SUBSET NamesAltered(s), NEW m \in A, \A x \in A : x <= m
    PROVE  RenamedKeys(A, s, ids) =
              (RenamedKeys(A \ {m}, s, ids) \ {solitonid[m]}) \cup {s[m]}
  <1> DEFINE B == A \ {m}
  <1>1. \A e \in A : /\ e \in Entities /\ e \in Nat /\ s[e] # solitonid[e]
                     /\ \A f \in A : s[f] = s[e] => f = e
    BY OneOwner DEF TopographAssumption
  <1>2. s[m] \in RenamedKeys(A, s, ids)
    <2>1. \A d \in A : solitonid[d] = s[m] => d < m
      BY <1>1
    <2>2. Gained(A, s, s[m])
      BY <2>1 DEF Gained
    <2>3. QED
      BY <2>2 DEF RenamedKeys
  <1>3. ASSUME NEW k, k # s[m]
        PROVE  Gained(A, s, k) <=> Gained(B, s, k) /\ k # solitonid[m]
    <2>1. ASSUME Gained(A, s, k) PROVE Gained(B, s, k) /\ k # solitonid[m]
      <3>1. PICK e \in A : s[e] = k /\ \A d \in A : solitonid[d] = k => d < e
        BY <2>1 DEF Gained
      <3>2. e \in B /\ e \in Nat /\ m \in Nat /\ e <= m
        BY <1>1, <1>3, <3>1
      <3>3. solitonid[m] # k
        BY <3>1, <3>2
      <3>4. QED
        BY <3>1, <3>2, <3>3 DEF Gained
    <2>2. ASSUME Gained(B, s, k), k # solitonid[m] PROVE Gained(A, s, k)
      BY <2>2 DEF Gained
    <2>3. QED
      BY <2>1, <2>2
  <1>4. ASSUME NEW k, k # s[m]
        PROVE  Bypassed(A, s, k) <=> Bypassed(B, s, k) /\ k # solitonid[m]
    BY <1>4 DEF Bypassed
  <1>5. ASSUME NEW k, k # s[m]
        PROVE  k \in {s[e] : e \in A} <=> k \in {s[e] : e \in B}
    <2>1. \A e \in A : s[e] = k => e \in B
      BY <1>5
    <2>2. QED
      BY <2>1
  <1>6. ASSUME NEW k
        PROVE  k \in RenamedKeys(A, s, ids) <=>
                  k \in (RenamedKeys(B, s, ids) \ {solitonid[m]}) \cup {s[m]}
    <2>1. CASE k = s[m]
      BY <1>2, <2>1
    <2>2. CASE k # s[m]
      BY <1>3, <1>4, <1>5, <2>2 DEF RenamedKeys
    <2>3. QED
      BY <2>1, <2>2
  <1>7. QED
    BY <1>6

(* Renaming the last member of A after the others.                         *)
LEMMA RenamedStep ==
    ASSUME TopographAssumption, NEW s \in Namings, NEW ids,
           NEW A \in SUBSET NamesAltered(s), NEW m \in A, \A x \in A : x <= m
    PROVE  Renamed(A, s, ids) =
              Insert(Drop(Renamed(A \ {m}, s, ids), {solitonid[m]}), s[m], m)
  <1> DEFINE B == A \ {m}
             F == Renamed(B, s, ids)
             G == Insert(Drop(F, {solitonid[m]}), s[m], m)
  <1>1. DOMAIN F = RenamedKeys(B, s, ids)
    BY DEF Renamed
  <1>2. DOMAIN G = (RenamedKeys(B, s, ids) \ {solitonid[m]}) \cup {s[m]}
    BY <1>1 DEF Insert, Drop
  <1>3. DOMAIN G = RenamedKeys(A, s, ids)
    <2>1. RenamedKeys(A, s, ids) = (RenamedKeys(B, s, ids) \ {solitonid[m]}) \cup {s[m]}
      BY RenamedKeysStep
    <2> HIDE DEF G
    <2>2. QED
      BY <1>2, <2>1
  <1>4. B \in SUBSET NamesAltered(s)
    OBVIOUS
  <1>5. ASSUME NEW k \in RenamedKeys(A, s, ids)
        PROVE  G[k] = Renamed(A, s, ids)[k]
    <2>1. CASE k = s[m]
      <3>1. G[k] = m
        BY <2>1 DEF Insert
      <3>2. Renamed(A, s, ids)[k] = m
        BY <2>1, <1>5, OneOwner DEF Renamed
      <3>3. QED
        BY <3>1, <3>2
    <2>2. CASE k # s[m]
      <3>1. k \in RenamedKeys(B, s, ids) /\ k # solitonid[m]
        BY <1>2, <1>3, <1>5, <2>2
      <3>2. G[k] = F[k]
        BY <1>1, <3>1, <2>2 DEF Insert, Drop
      <3>3. CASE \E e \in A : s[e] = k
        <4>1. PICK e \in A : s[e] = k
          BY <3>3
        <4>2. e \in B
          BY <2>2, <4>1
        <4>3. Renamed(A, s, ids)[k] = e
          BY <1>5, <4>1, OneOwner DEF Renamed
        <4>4. F[k] = e
          <5>1. (CHOOSE f \in B : s[f] = s[e]) = e
            BY <1>4, <4>2, OneOwner
          <5>2. QED
            BY <3>1, <4>1, <4>2, <5>1 DEF Renamed
        <4>5. QED
          BY <3>2, <4>3, <4>4
      <3>4. CASE ~\E e \in A : s[e] = k
        BY <1>5, <3>1, <3>2, <3>4 DEF Renamed
      <3>5. QED
        BY <3>3, <3>4
    <2>3. QED
      BY <2>1, <2>2
  <1>6. G = [k \in RenamedKeys(A, s, ids) |-> G[k]]
    BY <1>3 DEF Insert
  <1>7. Renamed(A, s, ids) = [k \in RenamedKeys(A, s, ids) |-> Renamed(A, s, ids)[k]]
    BY DEF Renamed
  <1>8. QED
    BY <1>5, <1>6, <1>7

(* AlterNames: what renaming all of them one after the other comes to.     *)
LEMMA AlterNamesShape ==
    ASSUME TopographAssumption, NEW s \in Namings, NEW ids,
           ids = [k \in DOMAIN ids |-> ids[k]]
    PROVE  AlterNames(s, ids) = Renamed(NamesAltered(s), s, ids)
  <1> DEFINE N == NamesAltered(s)
  <1>1. N \in SUBSET Nat /\ IsFiniteSet(N)
    <2>1. N \in SUBSET Entities
      BY DEF NamesAltered
    <2>2. QED
      BY <2>1, FS_Subset DEF TopographAssumption
  <1> HIDE DEF N
  <1>2. Renamed({}, s, ids) = ids
    <2>1. RenamedKeys({}, s, ids) = DOMAIN ids
      BY DEF RenamedKeys, Gained, Bypassed
    <2>2. Renamed({}, s, ids) = [k \in DOMAIN ids |-> ids[k]]
      BY <2>1 DEF Renamed
    <2>3. QED
      BY <2>2
  <1>3. ASSUME NEW A \in SUBSET N, A # {}
        PROVE  Renamed(A, s, ids) =
                  Insert(Drop(Renamed(A \ {Max(A)}, s, ids), {solitonid[Max(A)]}),
                         s[Max(A)], Max(A))
    <2>1. Max(A) \in A /\ \A x \in A : x <= Max(A)
      BY <1>1, <1>3, MaxExists
    <2>2. QED
      BY <2>1, RenamedStep DEF N
  <1> DEFINE g == [A \in SUBSET N |-> Renamed(A, s, ids)]
  <1>4. Renames(g, s, ids)
    <2>1. ASSUME NEW A \in SUBSET N
          PROVE  g[A] = IF A = {} THEN ids
                        ELSE Insert(Drop(g[A \ {Max(A)}], {solitonid[Max(A)]}), s[Max(A)], Max(A))
      <3>1. CASE A = {}
        BY <1>2, <3>1
      <3>2. CASE A # {}
        <4>1. A \ {Max(A)} \in SUBSET N
          OBVIOUS
        <4>2. g[A] = Renamed(A, s, ids) /\ g[A \ {Max(A)}] = Renamed(A \ {Max(A)}, s, ids)
          BY <4>1
        <4>3. QED
          BY <1>3, <3>2, <4>2
      <3>3. QED
        BY <3>1, <3>2
    <2>2. g = [A \in SUBSET N |-> g[A]]
      OBVIOUS
    <2> HIDE DEF g
    <2>3. QED
      BY <2>1, <2>2 DEF Renames, N
  <1> HIDE DEF g
  <1> DEFINE f == CHOOSE h : Renames(h, s, ids)
  <1>5. Renames(f, s, ids)
    BY <1>4
  <1>6. AlterNames(s, ids) = f[N]
    BY DEF AlterNames, Renames, N
  <1> HIDE DEF f
  <1>7. \A A \in SUBSET N :
           f[A] = IF A = {} THEN ids
                  ELSE Insert(Drop(f[A \ {Max(A)}], {solitonid[Max(A)]}), s[Max(A)], Max(A))
    BY <1>5 DEF Renames, N
  <1> DEFINE Bad == {A \in SUBSET N : f[A] # Renamed(A, s, ids)}
  <1>8. ASSUME NEW A \in Bad PROVE \E B \in Bad : Cardinality(B) < Cardinality(A)
    <2>1. A \in SUBSET N /\ f[A] # Renamed(A, s, ids)
      OBVIOUS
    <2>2. A # {}
      BY <1>2, <1>7, <2>1
    <2>3. Max(A) \in A
      BY <1>1, <2>1, <2>2, MaxExists
    <2>4. A \ {Max(A)} \in SUBSET N /\ Cardinality(A \ {Max(A)}) < Cardinality(A)
      BY <1>1, <2>1, <2>3, Smaller
    <2>5. f[A] = Insert(Drop(f[A \ {Max(A)}], {solitonid[Max(A)]}), s[Max(A)], Max(A))
      BY <1>7, <2>1, <2>2
    <2>6. f[A \ {Max(A)}] # Renamed(A \ {Max(A)}, s, ids)
      BY <1>3, <2>1, <2>2, <2>5
    <2>7. QED
      BY <2>4, <2>6
  <1>9. Bad \in SUBSET SUBSET N
    OBVIOUS
  <1>10. Bad = {}
    <2> HIDE DEF Bad
    <2>1. QED
      BY <1>1, <1>8, <1>9, NoneSmallest
  <1>11. f[N] = Renamed(N, s, ids)
    BY <1>10
  <1>12. QED
    BY <1>6, <1>11 DEF N

(* update_solitonid_map leaves no entry that the causets do not give.      *)
LEMMA MapSound ==
    ASSUME TopographAssumption, TypeOK, NamesInv, NEW s \in Namings,
           NEW k \in DOMAIN update_solitonid_map(s)
    PROVE  /\ k \in Keywords
           /\ update_solitonid_map(s)[k] \in Entities
           /\ s[update_solitonid_map(s)[k]] = k
  <1> DEFINE new == NamesAsserted(s)
             N == NamesAltered(s)
             add0 == [j \in DOMAIN solitonid_map \cup {s[e] : e \in new} |->
                        IF \E e \in new : s[e] = j
                        THEN CHOOSE e \in new : s[e] = j
                        ELSE solitonid_map[j]]
             gone == {solitonid[e] : e \in NamesRetracted(s)}
  <1>1. update_solitonid_map(s) = Drop(AlterNames(s, add0), gone)
    BY DEF update_solitonid_map
  <1>2. \A e \in new \cup N : e \in Entities /\ s[e] \in Keywords
    BY DEF NamesAsserted, NamesAltered, Namings
  <1>3. ASSUME NEW j \in DOMAIN add0
        PROVE  /\ j \in Keywords /\ add0[j] \in Entities
               /\ s[add0[j]] = j \/ (add0[j] \notin new /\ solitonid[add0[j]] = j)
    <2>1. CASE \E e \in new : s[e] = j
      BY <1>2, <2>1
    <2>2. CASE ~\E e \in new : s[e] = j
      <3>1. j \in DOMAIN solitonid_map /\ add0[j] = solitonid_map[j]
        BY <2>2
      <3>2. solitonid_map[j] \in Entities /\ solitonid[solitonid_map[j]] = j /\ j \in Keywords
        BY <3>1 DEF NamesInv, TypeOK
      <3>3. solitonid_map[j] \notin new
        BY <3>2 DEF NamesAsserted, TopographAssumption
      <3>4. QED
        BY <3>1, <3>2, <3>3
    <2>3. QED
      BY <2>1, <2>2
  <1>4. add0 = [j \in DOMAIN add0 |-> add0[j]]
    OBVIOUS
  <1> HIDE DEF add0
  <1>5. AlterNames(s, add0) = Renamed(N, s, add0)
    BY <1>4, AlterNamesShape
  <1>6. k \in RenamedKeys(N, s, add0) /\ k \notin gone
        /\ update_solitonid_map(s)[k] = Renamed(N, s, add0)[k]
    BY <1>1, <1>5 DEF Drop, Renamed
  <1> HIDE DEF gone
  <1>7. CASE \E e \in N : s[e] = k
    <2>1. PICK e \in N : s[e] = k
      BY <1>7
    <2>2. Renamed(N, s, add0)[k] = e
      BY <1>6, <2>1, OneOwner DEF Renamed
    <2>3. QED
      BY <1>2, <1>6, <2>1, <2>2
  <1>8. CASE ~\E e \in N : s[e] = k
    <2>1. k \in DOMAIN add0 /\ Bypassed(N, s, k)
      BY <1>6, <1>8 DEF RenamedKeys, Gained
    <2>2. Renamed(N, s, add0)[k] = add0[k]
      BY <1>6, <1>8 DEF Renamed
    <2> DEFINE e == add0[k]
    <2>3. CASE s[e] = k
      BY <1>3, <1>6, <2>1, <2>2, <2>3
    <2>4. CASE s[e] # k
      <3>1. e \in Entities /\ e \notin new /\ solitonid[e] = k /\ k \in Keywords
        BY <1>3, <2>1, <2>4
      <3>2. e \notin N
        BY <2>1, <3>1 DEF Bypassed
      <3>3. e \in NamesRetracted(s)
        BY <2>4, <3>1, <3>2 DEF NamesAltered, NamesRetracted, TopographAssumption
      <3>4. QED
        BY <1>6, <3>1, <3>3 DEF gone
    <2>5. QED
      BY <2>3, <2>4
  <1>9. QED
    BY <1>7, <1>8

(* update_causetid_map leaves exactly the entries that the causets give.   *)
LEMMA CausetidsExact ==
    ASSUME TypeOK, NamesInv, NEW s \in Namings
    PROVE  update_causetid_map(s) = [e \in {f \in Entities : s[f] # None} |-> s[e]]
  <1> DEFINE had == {f \in Entities : solitonid[f] # None}
             keys == (DOMAIN causetid_map \cup NamesAsserted(s) \cup NamesAltered(s))
                        \ NamesRetracted(s)
  <1>1. causetid_map = [e \in had |-> solitonid[e]]
    BY DEF NamesInv
  <1>2. DOMAIN causetid_map = had /\ \A e \in had : causetid_map[e] = solitonid[e]
    BY <1>1
  <1>3. keys = {f \in Entities : s[f] # None}
    BY <1>2 DEF NamesAsserted, NamesAltered, NamesRetracted
  <1>4. ASSUME NEW e \in keys, e \notin NamesAsserted(s) \cup NamesAltered(s)
        PROVE  causetid_map[e] = s[e]
    BY <1>2, <1>4 DEF NamesAsserted, NamesAltered, NamesRetracted
  <1>5. update_causetid_map(s) = [e \in keys |-> s[e]]
    BY <1>4 DEF update_causetid_map
  <1>6. QED
    BY <1>3, <1>5

-----------------------------------------------------------------------------
(* Builders. *)

(* The characteristics and their values.                                   *)
LEMMA CharFacts ==
    /\ CharNames = {"valueType", "cardinality", "unique", "Index", "fulltext"}
    /\ Chars["valueType"] = Types /\ Chars["cardinality"] = {"one", "many"}
    /\ Chars["unique"] = {"value"} /\ Chars["Index"] = {"fulltext", "none"}
    /\ Chars["fulltext"] = {"true", "false"}
  BY DEF CharNames, Chars

(* What an attribute's description can say.                                *)
LEMMA Described ==
    ASSUME NEW n \in Descriptions, NEW a \in Attrs
    PROVE  /\ n = [b \in Attrs |-> n[b]] /\ n[a] = [c \in CharNames |-> n[a][c]]
           /\ n[a]["valueType"] \in Types \cup {None}
           /\ n[a]["cardinality"] \in {"one", "many", None}
           /\ n[a]["unique"] \in {"value", None}
           /\ n[a]["Index"] \in {"fulltext", "none", None}
           /\ n[a]["fulltext"] \in {"true", "false", None}
  <1>1. n = [b \in Attrs |-> n[b]] /\ n[a] = [c \in CharNames |-> n[a][c]]
    BY DEF Descriptions
  <1>2. \A c \in CharNames : n[a][c] \in Chars[c] \cup {None}
    BY DEF Descriptions
  <1>3. QED
    BY <1>1, <1>2, CharFacts

(* Strings that stand for different values.                                *)
LEMMA Words ==
    /\ None # "value" /\ None # "non_unique" /\ "value" # "non_unique"
    /\ None # "one" /\ None # "many" /\ None # "fulltext" /\ None # "none"
    /\ None # "true" /\ None # "false"
  BY DEF None

(* The builder of an attribute that is altered or installed.               *)
LEMMA BuilderShape ==
    ASSUME NEW a \in Attrs, NEW m, NEW n
    PROVE  /\ builder(a, m, n) = [c \in CharNames |-> builder(a, m, n)[c]]
           /\ \A c \in CharNames :
                /\ c \in Asserts(a, n) => builder(a, m, n)[c] = n[a][c]
                /\ c \notin Asserts(a, n) /\ c \in OtherRetractions(a, n) =>
                      builder(a, m, n)[c] = "non_unique"
                /\ c \notin Asserts(a, n) /\ OtherRetractions(a, n) = {} =>
                      builder(a, m, n)[c] = None
           /\ OtherRetractions(a, n) # {} /\ a \in DOMAIN m /\
              OtherRetractions(a, n) = {"unique"} =>
                /\ "cardinality" \notin Asserts(a, n) =>
                      builder(a, m, n)["cardinality"] = IF m[a].multival THEN "many" ELSE "one"
                /\ \A c \in CharNames \ {"cardinality", "unique"} :
                      c \notin Asserts(a, n) => builder(a, m, n)[c] = None
  <1>1. builder(a, m, n) = [c \in CharNames |-> builder(a, m, n)[c]]
    BY DEF builder
  <1>2. \A c \in CharNames :
           /\ c \in Asserts(a, n) => builder(a, m, n)[c] = n[a][c]
           /\ c \notin Asserts(a, n) /\ c \in OtherRetractions(a, n) =>
                 builder(a, m, n)[c] = "non_unique"
    BY DEF builder
  <1>3. ASSUME OtherRetractions(a, n) = {}
        PROVE  \A c \in CharNames : c \notin Asserts(a, n) => builder(a, m, n)[c] = None
    BY <1>3 DEF builder, DefaultBuilder, Unset
  <1>4. ASSUME a \in DOMAIN m, OtherRetractions(a, n) = {"unique"}
        PROVE  /\ "cardinality" \notin Asserts(a, n) =>
                     builder(a, m, n)["cardinality"] = IF m[a].multival THEN "many" ELSE "one"
               /\ \A c \in CharNames \ {"cardinality", "unique"} :
                     c \notin Asserts(a, n) => builder(a, m, n)[c] = None
    <2>1. \A c \in CharNames \ {"unique"} :
             c \notin Asserts(a, n) => builder(a, m, n)[c] = to_modify_attribute(m[a])[c]
      BY <1>4 DEF builder
    <2>2. /\ to_modify_attribute(m[a])["cardinality"] = IF m[a].multival THEN "many" ELSE "one"
          /\ \A c \in CharNames \ {"cardinality", "unique"} : to_modify_attribute(m[a])[c] = None
      BY CharFacts DEF to_modify_attribute, Unset
    <2>3. QED
      BY <2>1, <2>2, CharFacts
  <1>5. QED
    BY <1>1, <1>2, <1>3, <1>4

(* What the checks of a transaction leave of a builder.                    *)
LEMMA BuilderTyped ==
    ASSUME TopographAssumption, NEW n \in Descriptions, NEW a \in Attrs, NEW m,
           RetractionsPermitted(m, n), a \in DOMAIN m => m[a] \in Attribute
    PROVE  /\ builder(a, m, n)["valueType"] \in Types \cup {None}
           /\ UniqueOf(builder(a, m, n)) \in {None, "value"}
  <1> DEFINE b == builder(a, m, n)
             ret == OtherRetractions(a, n)
  <1>1. ret = {} \/ (ret = {"unique"} /\ a \in DOMAIN m)
    BY DEF RetractionsPermitted
  <1>2. \A c \in {"valueType", "unique"} : c \in CharNames
    BY CharFacts
  <1>3. /\ n[a]["valueType"] \in Types \cup {None}
        /\ n[a]["unique"] \in {"value", None}
    BY Described
  <1>4. \A c \in CharNames :
           /\ c \in Asserts(a, n) => b[c] = n[a][c]
           /\ c \notin Asserts(a, n) /\ ret = {} => b[c] = None
           /\ c \notin Asserts(a, n) /\ ret = {"unique"} =>
                 IF c = "unique" THEN b[c] = "non_unique"
                 ELSE c = "cardinality" \/ b[c] = None
    BY <1>1, BuilderShape
  <1> HIDE DEF b, ret
  <1>5. b["valueType"] \in Types \cup {None}
    BY <1>1, <1>2, <1>3, <1>4
  <1>6. b["unique"] \in {None, "value", "non_unique"}
    BY <1>1, <1>2, <1>3, <1>4
  <1>7. UniqueOf(b) \in {None, "value"}
    BY <1>6, Words DEF UniqueOf
  <1>8. QED
    BY <1>5, <1>7 DEF b

(* A built or mutated attribute is an attribute.                           *)
LEMMA BuildTyped ==
    ASSUME NEW b, b["valueType"] \in Types, UniqueOf(b) \in {None, "value"}
    PROVE  build(b) \in Attribute
  BY DEF build, Attribute

LEMMA MutateTyped ==
    ASSUME NEW b, NEW at \in Attribute, UniqueOf(b) \in {None, "value"}
    PROVE  mutate(b, at) \in Attribute
  BY DEF mutate, Attribute

(* The attributes in memory after a transaction.                           *)
LEMMA NewTyped ==
    ASSUME TopographAssumption, NEW n \in Descriptions, NEW m,
           \A a \in DOMAIN m : m[a] \in Attribute,
           RetractionsPermitted(m, n), BuildersValid(m, n)
    PROVE  \A a \in DOMAIN update_attribute_map(m, n) :
              update_attribute_map(m, n)[a] \in Attribute
  <1> DEFINE new == update_attribute_map(m, n)
  <1> SUFFICES ASSUME NEW a \in DOMAIN new PROVE new[a] \in Attribute
    OBVIOUS
  <1>1. a \in DOMAIN m \cup Touched(n)
    BY DEF update_attribute_map
  <1>2. CASE a \notin Touched(n)
    BY <1>1, <1>2 DEF update_attribute_map
  <1>3. CASE a \in Touched(n)
    <2>1. a \in Attrs
      BY <1>3 DEF Touched
    <2>2. /\ builder(a, m, n)["valueType"] \in Types \cup {None}
          /\ UniqueOf(builder(a, m, n)) \in {None, "value"}
      BY <2>1, BuilderTyped
    <2>3. CASE a \in DOMAIN m
      <3>1. new[a] = mutate(builder(a, m, n), m[a])
        BY <1>3, <2>3 DEF update_attribute_map
      <3>2. QED
        BY <2>2, <2>3, <3>1, MutateTyped
    <2>4. CASE a \notin DOMAIN m
      <3>1. new[a] = build(builder(a, m, n))
        BY <1>3, <2>4 DEF update_attribute_map
      <3>2. builder(a, m, n)["valueType"] # None
        BY <1>3, <2>4 DEF BuildersValid, validate_install_attribute
      <3>3. QED
        BY <2>2, <3>1, <3>2, BuildTyped
    <2>5. QED
      BY <2>3, <2>4
  <1>4. QED
    BY <1>2, <1>3

-----------------------------------------------------------------------------
(* Names and views, whatever is transacted. *)

(* A map without keys.                                                     *)
LEMMA NoKeys ==
    ASSUME NEW f, DOMAIN f = {}, f = [k \in DOMAIN f |-> f[k]]
    PROVE  f = << >>
  OBVIOUS

(* Init.                                                                   *)
LEMMA BaseInit ==
    ASSUME TopographAssumption, Init
    PROVE  BaseInd
  <1> USE DEF Init
  <1>1. solitonid \in Namings
    BY DEF Namings
  <1>2. char \in Descriptions
    BY DEF Descriptions, Unset
  <1>3. DOMAIN topograph = {} /\ DOMAIN causetid_map = {} /\ DOMAIN solitonid_map = {}
        /\ DOMAIN attribute_map = {}
    OBVIOUS
  <1>4. TypeOK
    BY <1>1, <1>2, <1>3 DEF TypeOK
  <1>5. {f \in Entities : solitonid[f] # None} = {}
    OBVIOUS
  <1>6. NamesInv
    BY <1>3, <1>5 DEF NamesInv
  <1>7. {b \in Attrs : char[b]["valueType"] # None} = {}
    BY CharFacts DEF Unset
  <1>8. topograph = TopographRows(char)
    BY <1>7 DEF TopographRows
  <1>9. solitonids = SolitonidRows(solitonid)
    BY DEF SolitonidRows, TopographAssumption
  <1>10. QED
    BY <1>4, <1>6, <1>8, <1>9 DEF BaseInd, ViewsExact

(* A transaction changes what is said of some attribute or some name, and  *)
(* then the view it changes is refreshed.                                  *)
LEMMA Refreshed ==
    ASSUME TypeOK, ViewsExact, NEW s, NEW n \in Descriptions,
           Negated(n) \subseteq NamesRetracted(s)
    PROVE  RefreshTopograph(s, n) = TopographRows(n)
  <1>1. SUFFICES ASSUME Touched(n) = {}, s = solitonid
                 PROVE  topograph = TopographRows(n)
    BY DEF RefreshTopograph
  <1>2. Negated(n) = {}
    BY <1>1 DEF NamesRetracted
  <1>3. ASSUME NEW a \in Attrs PROVE n[a] = char[a]
    <2>1. Asserts(a, n) = {} /\ Retracts(a, n) = {}
      BY <1>1, <1>2 DEF Touched, OtherRetractions
    <2>2. \A c \in CharNames : n[a][c] = char[a][c]
      BY <2>1 DEF Asserts, Retracts
    <2>3. char \in Descriptions
      BY DEF TypeOK
    <2>4. n[a] = [c \in CharNames |-> n[a][c]] /\ char[a] = [c \in CharNames |-> char[a][c]]
      BY <2>3, Described
    <2>5. QED
      BY <2>2, <2>4
  <1>4. TopographRows(n) = TopographRows(char)
    BY <1>3 DEF TopographRows
  <1>5. QED
    BY <1>4 DEF ViewsExact

(* The rows of the topograph view have the values they may have.           *)
LEMMA RowsTyped ==
    ASSUME NEW n \in Descriptions
    PROVE  \A a \in DOMAIN TopographRows(n) :
              /\ a \in Attrs /\ TopographRows(n)[a] = n[a] /\ n[a]["valueType"] \in Types
              /\ \A c \in CharNames : TopographRows(n)[a][c] \in Chars[c] \cup {None}
  <1> SUFFICES ASSUME NEW a \in DOMAIN TopographRows(n)
               PROVE  /\ a \in Attrs /\ TopographRows(n)[a] = n[a] /\ n[a]["valueType"] \in Types
                      /\ \A c \in CharNames : TopographRows(n)[a][c] \in Chars[c] \cup {None}
    OBVIOUS
  <1>1. a \in Attrs /\ n[a]["valueType"] # None /\ TopographRows(n)[a] = n[a]
    BY DEF TopographRows
  <1>2. n[a]["valueType"] \in Types
    BY <1>1, Described
  <1>3. \A c \in CharNames : n[a][c] \in Chars[c] \cup {None}
    BY <1>1 DEF Descriptions
  <1>4. QED
    BY <1>1, <1>2, <1>3

(* A transaction only changes the flags of the data.                       *)
LEMMA ReflaggedTyped ==
    ASSUME TypeOK, NEW new
    PROVE  Reflagged(new) \subseteq [e : Holders, a : Attrs, v : Vals, flag : BOOLEAN]
  <1>1. data \subseteq [e : Holders, a : Attrs, v : Vals, flag : BOOLEAN]
    BY DEF TypeOK
  <1>2. QED
    BY <1>1 DEF Reflagged

(* transact keeps names and views.                                         *)
LEMMA BaseTransact ==
    ASSUME TopographAssumption, BaseInd, NEW s \in Namings, NEW n \in Descriptions,
           Permitted(n), transact(s, n)
    PROVE  BaseInd'
  <1> DEFINE m == Drop(attribute_map, Negated(n))
             new == update_attribute_map(m, n)
  <1>1. TypeOK /\ NamesInv /\ ViewsExact
    BY DEF BaseInd
  <1>2. /\ RetractionsPermitted(m, n) /\ BuildersValid(m, n)
        /\ Negated(n) \subseteq NamesRetracted(s)
        /\ solitonid' = s /\ char' = n /\ data' = Reflagged(new)
        /\ solitonids' = IF s # solitonid THEN SolitonidRows(s) ELSE solitonids
        /\ topograph' = RefreshTopograph(s, n)
        /\ causetid_map' = update_causetid_map(s)
        /\ solitonid_map' = update_solitonid_map(s)
        /\ attribute_map' = new
    BY DEF transact, Permitted
  <1>3. \A a \in DOMAIN m : m[a] \in Attribute
    BY <1>1 DEF TypeOK, Drop
  <1> HIDE DEF m
  <1>4. \A a \in DOMAIN attribute_map' : attribute_map'[a] \in Attribute
    BY <1>2, <1>3, NewTyped
  <1>5. topograph' = TopographRows(n)
    BY <1>1, <1>2, Refreshed
  <1>6. solitonids' = SolitonidRows(s)
    BY <1>1, <1>2 DEF ViewsExact
  <1>7. data' \subseteq [e : Holders, a : Attrs, v : Vals, flag : BOOLEAN]
    BY <1>1, <1>2, ReflaggedTyped
  <1>8. \A k \in DOMAIN solitonid_map' :
           k \in Keywords /\ solitonid_map'[k] \in Entities /\ s[solitonid_map'[k]] = k
    BY <1>1, <1>2, MapSound
  <1>9. causetid_map' = [e \in {f \in Entities : s[f] # None} |-> s[e]]
    BY <1>1, <1>2, CausetidsExact
  <1>10. ViewsExact'
    BY <1>2, <1>5, <1>6 DEF ViewsExact, SolitonidRows, TopographRows
  <1>11. NamesInv'
    <2>1. solitonid_map' = [k \in DOMAIN solitonid_map' |-> solitonid_map'[k]]
      BY <1>2 DEF update_solitonid_map, Drop
    <2>2. attribute_map' = [a \in DOMAIN attribute_map' |-> attribute_map'[a]]
      BY <1>2 DEF update_attribute_map
    <2>3. QED
      BY <1>2, <1>8, <1>9, <2>1, <2>2 DEF NamesInv
  <1>12. TypeOK'
    <2>1. solitonid' \in Namings' /\ char' \in Descriptions'
      BY <1>2 DEF Namings, Descriptions
    <2>2. solitonids' \subseteq Entities \X Keywords
      BY <1>6 DEF SolitonidRows
    <2>3. \A a \in DOMAIN topograph', c \in CharNames : topograph'[a][c] \in Chars[c] \cup {None}
      BY <1>5, RowsTyped
    <2>4. DOMAIN causetid_map' \subseteq Entities /\ DOMAIN solitonid_map' \subseteq Keywords
      BY <1>8, <1>9
    <2>5. astray' \subseteq Attrs /\ lapsed' \subseteq Attrs
      BY <1>1 DEF transact, TypeOK, Touched, Orphaned, Negated
    <2>6. QED
      BY <1>4, <1>7, <2>1, <2>2, <2>3, <2>4, <2>5 DEF TypeOK
  <1>13. QED
    BY <1>10, <1>11, <1>12 DEF BaseInd

(* Assertions and retractions of values leave names and views alone.       *)
LEMMA BaseData ==
    ASSUME BaseInd, UNCHANGED <<solitonid, char, views, memory, history>>,
           data' \subseteq [e : Holders, a : Attrs, v : Vals, flag : BOOLEAN]
    PROVE  BaseInd'
  <1> USE DEF BaseInd, views, memory, history
  <1>1. TypeOK'
    BY DEF TypeOK, Namings, Descriptions
  <1>2. NamesInv'
    BY DEF NamesInv
  <1>3. ViewsExact'
    BY DEF ViewsExact, SolitonidRows, TopographRows
  <1>4. QED
    BY <1>1, <1>2, <1>3

LEMMA AddTyped ==
    ASSUME TypeOK, NEW e \in Holders, NEW a \in Attrs, NEW v \in Vals, add(e, a, v)
    PROVE  data' \subseteq [e : Holders, a : Attrs, v : Vals, flag : BOOLEAN]
  <1>1. data \subseteq [e : Holders, a : Attrs, v : Vals, flag : BOOLEAN]
    BY DEF TypeOK
  <1>2. [e |-> e, a |-> a, v |-> v, flag |-> attribute_map[a].unique # None]
           \in [e : Holders, a : Attrs, v : Vals, flag : BOOLEAN]
    OBVIOUS
  <1>3. data' \subseteq data \cup {[e |-> e, a |-> a, v |-> v,
                                    flag |-> attribute_map[a].unique # None]}
    BY DEF add
  <1>4. QED
    BY <1>1, <1>2, <1>3

(* read_causetid_map gives every entity's solitonid back.                  *)
LEMMA ReadNames ==
    ASSUME TopographAssumption, TypeOK, ViewsExact
    PROVE  /\ DOMAIN read_causetid_map = {solitonid[e] : e \in {f \in Entities : solitonid[f] # None}}
           /\ \A e \in Entities : solitonid[e] # None => read_causetid_map[solitonid[e]] = e
           /\ \A k \in DOMAIN read_causetid_map :
                /\ k \in Keywords /\ read_causetid_map[k] \in Entities
                /\ solitonid[read_causetid_map[k]] = k
  <1>1. solitonid \in Namings /\ solitonids = SolitonidRows(solitonid)
    BY DEF TypeOK, ViewsExact
  <1>2. \A e \in Entities : solitonid[e] # None => solitonid[e] \in Keywords
    BY <1>1 DEF Namings
  <1>3. \A e, f \in Entities : solitonid[e] # None /\ solitonid[e] = solitonid[f] => e = f
    BY <1>1 DEF Namings
  <1>4. \A p : p \in solitonids <=>
                  p \in Entities \X Keywords /\ solitonid[p[1]] = p[2]
    BY <1>1 DEF SolitonidRows
  <1>5. \A e \in Entities : solitonid[e] # None => <<e, solitonid[e]>> \in solitonids
    BY <1>2, <1>4
  <1>6. \A p \in solitonids : p[1] \in Entities /\ p[2] \in Keywords
                              /\ solitonid[p[1]] = p[2] /\ p[2] # None
    BY <1>4 DEF TopographAssumption
  <1>7. DOMAIN read_causetid_map = {p[2] : p \in solitonids}
    BY DEF read_causetid_map
  <1>8. DOMAIN read_causetid_map = {solitonid[e] : e \in {f \in Entities : solitonid[f] # None}}
    <2>1. ASSUME NEW e \in Entities, solitonid[e] # None
          PROVE  \E p \in solitonids : solitonid[e] = p[2]
      <3>1. <<e, solitonid[e]>> \in solitonids /\ <<e, solitonid[e]>>[2] = solitonid[e]
        BY <1>5, <2>1
      <3>2. QED
        BY <3>1
    <2>2. ASSUME NEW p \in solitonids
          PROVE  \E e \in {f \in Entities : solitonid[f] # None} : p[2] = solitonid[e]
      <3>1. p[1] \in {f \in Entities : solitonid[f] # None} /\ p[2] = solitonid[p[1]]
        BY <1>6, <2>2
      <3>2. QED
        BY <3>1
    <2>3. QED
      BY <1>7, <2>1, <2>2
  <1>9. ASSUME NEW e \in Entities, solitonid[e] # None
        PROVE  read_causetid_map[solitonid[e]] = e
    <2> DEFINE q == CHOOSE p \in solitonids : p[2] = solitonid[e]
    <2>1. <<e, solitonid[e]>> \in solitonids /\ <<e, solitonid[e]>>[2] = solitonid[e]
      BY <1>5, <1>9
    <2>2. q \in solitonids /\ q[2] = solitonid[e]
      BY <2>1
    <2>3. q[1] = e
      BY <1>3, <1>6, <1>9, <2>2
    <2>4. read_causetid_map[solitonid[e]] = q[1]
      BY <1>8, <1>7, <1>9 DEF read_causetid_map
    <2>5. QED
      BY <2>3, <2>4
  <1>10. QED
    BY <1>2, <1>8, <1>9

(* EntitiesByName inverts it.                                              *)
LEMMA ReadEntities ==
    ASSUME TopographAssumption, TypeOK, ViewsExact
    PROVE  EntitiesByName(read_causetid_map) =
              [e \in {f \in Entities : solitonid[f] # None} |-> solitonid[e]]
  <1> DEFINE ids == read_causetid_map
             named == {f \in Entities : solitonid[f] # None}
  <1>1. /\ DOMAIN ids = {solitonid[e] : e \in named}
        /\ \A e \in named : ids[solitonid[e]] = e
        /\ \A k \in DOMAIN ids : ids[k] \in Entities /\ solitonid[ids[k]] = k /\ k # None
    BY ReadNames DEF TopographAssumption
  <1> HIDE DEF ids
  <1>2. {ids[k] : k \in DOMAIN ids} = named
    <2>1. \A k \in DOMAIN ids : ids[k] \in named
      BY <1>1
    <2>2. \A e \in named : \E k \in DOMAIN ids : e = ids[k]
      BY <1>1
    <2> HIDE DEF named
    <2>3. QED
      BY <2>1, <2>2
  <1>3. ASSUME NEW e \in named PROVE (CHOOSE k \in DOMAIN ids : ids[k] = e) = solitonid[e]
    BY <1>1
  <1>4. EntitiesByName(ids) = [e \in named |-> CHOOSE k \in DOMAIN ids : ids[k] = e]
    BY <1>2 DEF EntitiesByName
  <1>5. EntitiesByName(ids) = [e \in named |-> solitonid[e]]
    BY <1>3, <1>4
  <1>6. QED
    BY <1>5 DEF ids

(* A store that is opened again.                                           *)
LEMMA BaseRead ==
    ASSUME TopographAssumption, BaseInd, read_einsteindb
    PROVE  BaseInd'
  <1>1. TypeOK /\ NamesInv /\ ViewsExact
    BY DEF BaseInd
  <1>2. /\ solitonid_map' = read_causetid_map
        /\ causetid_map' = EntitiesByName(read_causetid_map)
        /\ attribute_map' = read_attribute_map
        /\ UNCHANGED <<solitonid, char, data, solitonids, topograph, lapsed>> /\ astray' = {}
    BY DEF read_einsteindb, causets, views
  <1>3. causetid_map' = [e \in {f \in Entities : solitonid[f] # None} |-> solitonid[e]]
    BY <1>1, <1>2, ReadEntities
  <1>4. \A k \in DOMAIN solitonid_map' :
           k \in Keywords /\ solitonid_map'[k] \in Entities /\ solitonid[solitonid_map'[k]] = k
    BY <1>1, <1>2, ReadNames
  <1>5. NamesInv'
    <2>1. read_causetid_map = [k \in DOMAIN read_causetid_map |-> read_causetid_map[k]]
      BY DEF read_causetid_map
    <2>2. read_attribute_map = [a \in DOMAIN read_attribute_map |-> read_attribute_map[a]]
      BY DEF read_attribute_map
    <2>3. QED
      BY <1>2, <1>3, <1>4, <2>1, <2>2 DEF NamesInv
  <1>6. \A a \in DOMAIN attribute_map' : attribute_map'[a] \in Attribute
    <2> SUFFICES ASSUME NEW a \in DOMAIN read_attribute_map
                 PROVE  read_attribute_map[a] \in Attribute
      BY <1>2
    <2>1. a \in DOMAIN topograph /\ read_attribute_map[a] = build(topograph[a])
      BY DEF read_attribute_map
    <2>2. char \in Descriptions /\ topograph = TopographRows(char)
      BY <1>1 DEF TypeOK, ViewsExact
    <2>3. a \in Attrs /\ topograph[a] = char[a] /\ char[a]["valueType"] \in Types
      BY <2>1, <2>2, RowsTyped
    <2>4. UniqueOf(char[a]) \in {None, "value"}
      BY <2>2, <2>3, Described DEF UniqueOf
    <2>5. QED
      BY <2>1, <2>3, <2>4, BuildTyped
  <1>7. TypeOK'
    <2>1. DOMAIN causetid_map' \subseteq Entities /\ DOMAIN solitonid_map' \subseteq Keywords
      BY <1>3, <1>4
    <2>2. QED
      BY <1>1, <1>2, <1>6, <2>1 DEF TypeOK, Namings, Descriptions
  <1>8. ViewsExact'
    BY <1>1, <1>2 DEF ViewsExact, SolitonidRows, TopographRows
  <1>9. QED
    BY <1>5, <1>7, <1>8 DEF BaseInd

(* Names and views are right in every reachable state.                     *)
LEMMA BaseInductive == Spec => []BaseInd
  <1>1. Init => BaseInd
    BY BaseInit, TopographAssumption
  <1>2. BaseInd /\ [Next]_vars => BaseInd'
    <2> SUFFICES ASSUME BaseInd, [Next]_vars PROVE BaseInd'
      OBVIOUS
    <2>1. CASE \E n \in Descriptions : Permitted(n) /\ \E s \in Namings : transact(s, n)
      BY <2>1, BaseTransact, TopographAssumption
    <2>2. CASE \E e \in Holders, a \in Attrs, v \in Vals : add(e, a, v)
      <3>1. PICK e \in Holders, a \in Attrs, v \in Vals : add(e, a, v)
        BY <2>2
      <3>2. UNCHANGED <<solitonid, char, views, memory, history>>
        BY <3>1 DEF add
      <3>3. data' \subseteq [e : Holders, a : Attrs, v : Vals, flag : BOOLEAN]
        BY <3>1, AddTyped DEF BaseInd
      <3>4. QED
        BY <3>2, <3>3, BaseData
    <2>3. CASE \E d \in data : retract(d)
      <3>1. UNCHANGED <<solitonid, char, views, memory, history>> /\ data' \subseteq data
        BY <2>3 DEF retract
      <3>2. data \subseteq [e : Holders, a : Attrs, v : Vals, flag : BOOLEAN]
        BY DEF BaseInd, TypeOK
      <3>3. data' \subseteq [e : Holders, a : Attrs, v : Vals, flag : BOOLEAN]
        BY <3>1, <3>2
      <3>4. QED
        BY <3>1, <3>3, BaseData
    <2>4. CASE read_einsteindb
      BY <2>4, BaseRead, TopographAssumption
    <2>5. CASE UNCHANGED vars
      <3>1. UNCHANGED <<solitonid, char, views, memory, history>> /\ data' = data
        BY <2>5 DEF vars, causets
      <3>2. data' \subseteq [e : Holders, a : Attrs, v : Vals, flag : BOOLEAN]
        BY <3>1 DEF BaseInd, TypeOK
      <3>3. QED
        BY <3>1, <3>2, BaseData
    <2>6. QED
      BY <2>1, <2>2, <2>3, <2>4, <2>5 DEF Next
  <1>3. QED
    BY <1>1, <1>2, PTL DEF Spec

(***************************************************************************)
(* Causets, views and memory are typed, for every set of entities,         *)
(* attributes and values and every kind of transaction.                    *)
(***************************************************************************)
THEOREM TypeInvariant == Spec => []TypeOK
  <1>1. BaseInd => TypeOK
    BY DEF BaseInd
  <1>2. QED
    BY <1>1, BaseInductive, PTL

(***************************************************************************)
(* A solitonid in memory never names an entity that the causets do not     *)
(* give it, whatever is renamed, moved and retracted at once.              *)
(***************************************************************************)
THEOREM NamesInvariant == Spec => []NamesSound
  <1>1. BaseInd => NamesSound
    <2> SUFFICES ASSUME BaseInd PROVE NamesSound
      OBVIOUS
    <2>1. NamesInv
      BY DEF BaseInd
    <2>2. QED
      BY <2>1 DEF NamesInv, NamesSound
  <1>2. QED
    BY <1>1, BaseInductive, PTL

(***************************************************************************)
(* update_spacetime refreshes a view whenever its slice of the causets has *)
(* changed.                                                                *)
(***************************************************************************)
THEOREM ViewsInvariant == Spec => []ViewsExact
  <1>1. BaseInd => ViewsExact
    BY DEF BaseInd
  <1>2. QED
    BY <1>1, BaseInductive, PTL

-----------------------------------------------------------------------------
(* Attributes and data. *)

(* An attribute that the transaction says nothing of.                      *)
LEMMA UntouchedAttribute ==
    ASSUME TypeOK, NEW n \in Descriptions, NEW a \in Attrs,
           a \notin Negated(n), a \notin Touched(n)
    PROVE  n[a] = char[a]
  <1>1. Asserts(a, n) = {} /\ Retracts(a, n) = {}
    BY DEF Touched, OtherRetractions
  <1>2. \A c \in CharNames : n[a][c] = char[a][c]
    BY <1>1 DEF Asserts, Retracts
  <1>3. n[a] = [c \in CharNames |-> n[a][c]] /\ char[a] = [c \in CharNames |-> char[a][c]]
    BY Described DEF TypeOK
  <1>4. QED
    BY <1>2, <1>3

(* An attribute with three of its fields replaced.                         *)
LEMMA Replaced ==
    ASSUME NEW t, NEW mv, NEW ix, NEW ft, NEW un, NEW x, NEW y, NEW z
    PROVE  [[causet_locale_type |-> t, multival |-> mv, index |-> ix, fulltext |-> ft,
             unique |-> un] EXCEPT !.multival = x, !.unique = y, !.index = z]
           = [causet_locale_type |-> t, multival |-> x, index |-> z, fulltext |-> ft,
              unique |-> y]
  <1> DEFINE at == [causet_locale_type |-> t, multival |-> mv, index |-> ix, fulltext |-> ft,
                    unique |-> un]
             r == [at EXCEPT !.multival = x, !.unique = y, !.index = z]
  <1>1. r \in [causet_locale_type : {t}, multival : {x}, index : {z}, fulltext : {ft},
               unique : {y}]
    OBVIOUS
  <1> HIDE DEF r
  <1>2. r = [causet_locale_type |-> t, multival |-> x, index |-> z, fulltext |-> ft,
             unique |-> y]
    BY <1>1
  <1>3. QED
    BY <1>2 DEF r

(* The fields of a mutated attribute.                                      *)
LEMMA MutateShape ==
    ASSUME NEW b, NEW t, NEW mv, NEW ix, NEW ft, NEW un
    PROVE  mutate(b, [causet_locale_type |-> t, multival |-> mv, index |-> ix,
                      fulltext |-> ft, unique |-> un])
           = [causet_locale_type |-> t,
              multival |-> IF b["cardinality"] = None THEN mv ELSE b["cardinality"] = "many",
              index |-> IF b["Index"] = None THEN ix ELSE b["Index"] = "fulltext",
              fulltext |-> ft, unique |-> UniqueOf(b)]
  <1> DEFINE x == IF b["cardinality"] = None THEN mv ELSE b["cardinality"] = "many"
             z == IF b["Index"] = None THEN ix ELSE b["Index"] = "fulltext"
             at == [causet_locale_type |-> t, multival |-> mv, index |-> ix, fulltext |-> ft,
                    unique |-> un]
  <1>1. mutate(b, at) = [at EXCEPT !.multival = x, !.unique = UniqueOf(b), !.index = z]
    BY DEF mutate
  <1> HIDE DEF x, z
  <1>2. QED
    BY <1>1, Replaced DEF x, z

(* An attribute that is altered: mutate gives what the causets then say,   *)
(* but for a uniqueness that the builder does not mention.                 *)
LEMMA AlteredAttribute ==
    ASSUME TopographAssumption, TypeOK, NEW n \in Descriptions, NEW m,
           RetractionsPermitted(m, n), BuildersValid(m, n),
           NEW a \in Touched(n), a \notin Negated(n), a \in DOMAIN m,
           m[a] \in Attribute, m[a].multival = build(char[a]).multival
    PROVE  /\ n[a]["valueType"] = char[a]["valueType"]
           /\ n[a]["fulltext"] = char[a]["fulltext"]
           /\ LET at == mutate(builder(a, m, n), m[a])
              IN  /\ at.causet_locale_type = m[a].causet_locale_type
                  /\ at.multival = build(n[a]).multival
                  /\ at.fulltext = m[a].fulltext
                  /\ \/ at.index = build(n[a]).index
                     \/ n[a]["Index"] = char[a]["Index"] /\ at.index = m[a].index
                  /\ at.unique \in {None, UniqueOf(n[a])}
                  /\ Unsaid(a, m, n) = {} => at.unique = UniqueOf(n[a])
  <1> DEFINE b == builder(a, m, n)
             ret == OtherRetractions(a, n)
             as == Asserts(a, n)
             at == mutate(b, m[a])
  <1>1. a \in Attrs /\ ret = Retracts(a, n)
    BY DEF Touched, OtherRetractions
  <1>2. ret = {} \/ ret = {"unique"}
    BY <1>1 DEF RetractionsPermitted
  <1>3. b["valueType"] = None /\ b["fulltext"] = None
    BY DEF BuildersValid, validate_alter_attribute
  <1>4. \A c \in CharNames : /\ c \in as => b[c] = n[a][c] /\ n[a][c] # None
                             /\ c \notin as /\ c \notin ret => n[a][c] = char[a][c]
                             /\ c \notin as /\ ret = {} => b[c] = None
                             /\ c \in ret => c \notin as /\ n[a][c] = None
    BY <1>1, BuilderShape DEF Asserts, Retracts
  <1>5. \A c \in {"valueType", "cardinality", "unique", "Index", "fulltext"} : c \in CharNames
    BY CharFacts
  <1>6. ret = {"unique"} =>
           /\ b["unique"] = "non_unique"
           /\ "cardinality" \notin as =>
                 b["cardinality"] = IF m[a].multival THEN "many" ELSE "one"
           /\ "Index" \notin as => b["Index"] = None
    <2> SUFFICES ASSUME ret = {"unique"}
                 PROVE  /\ b["unique"] = "non_unique"
                        /\ "cardinality" \notin as =>
                              b["cardinality"] = IF m[a].multival THEN "many" ELSE "one"
                        /\ "Index" \notin as => b["Index"] = None
      OBVIOUS
    <2>1. "unique" \notin as
      BY <1>4, <1>5
    <2>2. QED
      BY <1>1, <1>5, <2>1, BuilderShape
  <1>7. /\ n[a]["cardinality"] \in {"one", "many", None}
        /\ n[a]["unique"] \in {"value", None}
        /\ n[a]["Index"] \in {"fulltext", "none", None}
    BY <1>1, Described
  <1>8. Unsaid(a, m, n) = {} => n[a]["unique"] = None \/ "unique" \in as
    BY DEF Unsaid
  <1>9. m[a].multival <=> char[a]["cardinality"] = "many"
    BY DEF build
  <1> DEFINE mv == IF b["cardinality"] = None THEN m[a].multival ELSE b["cardinality"] = "many"
             ix == IF b["Index"] = None THEN m[a].index ELSE b["Index"] = "fulltext"
  <1>10. /\ at.causet_locale_type = m[a].causet_locale_type /\ at.fulltext = m[a].fulltext
         /\ at.multival = mv /\ at.index = ix /\ at.unique = UniqueOf(b)
    <2>1. PICK t, mv0, ix0, ft, un :
             m[a] = [causet_locale_type |-> t, multival |-> mv0, index |-> ix0,
                     fulltext |-> ft, unique |-> un]
      BY DEF Attribute
    <2>2. at = [causet_locale_type |-> t, multival |-> mv, index |-> ix, fulltext |-> ft,
                unique |-> UniqueOf(b)]
      BY <2>1, MutateShape
    <2> HIDE DEF at, mv, ix, b
    <2>3. QED
      BY <2>1, <2>2
  <1>11. build(n[a]).multival = (n[a]["cardinality"] = "many")
         /\ build(n[a]).index = (n[a]["Index"] = "fulltext")
    BY DEF build
  <1> HIDE DEF b, ret, as, at
  <1>12. n[a]["valueType"] = char[a]["valueType"] /\ n[a]["fulltext"] = char[a]["fulltext"]
    BY <1>2, <1>3, <1>4, <1>5
  <1>13. /\ UniqueOf(b) \in {None, UniqueOf(n[a])}
         /\ Unsaid(a, m, n) = {} => UniqueOf(b) = UniqueOf(n[a])
    <2>1. UniqueOf(n[a]) = n[a]["unique"]
      BY <1>7, Words DEF UniqueOf
    <2>2. CASE "unique" \in as
      BY <1>4, <1>5, <2>2 DEF UniqueOf
    <2>3. CASE "unique" \notin as /\ ret = {}
      <3>1. UniqueOf(b) = None
        BY <1>4, <1>5, <2>3, Words DEF UniqueOf
      <3>2. QED
        BY <1>8, <2>1, <2>3, <3>1
    <2>4. CASE ret = {"unique"}
      BY <1>4, <1>5, <1>6, <2>1, <2>4 DEF UniqueOf
    <2>5. QED
      BY <1>2, <2>2, <2>3, <2>4
  <1>14. mv <=> n[a]["cardinality"] = "many"
    <2>1. CASE "cardinality" \in as
      BY <1>4, <1>5, <2>1
    <2>2. CASE "cardinality" \notin as
      <3>1. n[a]["cardinality"] = char[a]["cardinality"]
        BY <1>2, <1>4, <1>5, <2>2
      <3>2. b["cardinality"] = None \/ b["cardinality"] = IF m[a].multival THEN "many" ELSE "one"
        BY <1>2, <1>4, <1>5, <1>6, <2>2
      <3>3. QED
        BY <1>9, <3>1, <3>2, Words
    <2>3. QED
      BY <2>1, <2>2
  <1>15. \/ ix = (n[a]["Index"] = "fulltext")
         \/ n[a]["Index"] = char[a]["Index"] /\ ix = m[a].index
    <2>1. CASE "Index" \in as
      BY <1>4, <1>5, <2>1
    <2>2. CASE "Index" \notin as
      <3>1. n[a]["Index"] = char[a]["Index"]
        BY <1>2, <1>4, <1>5, <2>2
      <3>2. b["Index"] = None
        BY <1>2, <1>4, <1>5, <1>6, <2>2
      <3>3. QED
        BY <3>1, <3>2
    <2>3. QED
      BY <2>1, <2>2
  <1>16. mv \in BOOLEAN
    BY DEF Attribute
  <1> HIDE DEF mv, ix
  <1>17. at.multival = build(n[a]).multival
    BY <1>10, <1>11, <1>14, <1>16
  <1>18. at.index = build(n[a]).index \/ (n[a]["Index"] = char[a]["Index"] /\ at.index = m[a].index)
    BY <1>10, <1>11, <1>15
  <1>19. QED
    BY <1>10, <1>12, <1>13, <1>17, <1>18 DEF at, b

(* An attribute that is installed: build gives what the transaction says,  *)
(* but for what was left of an earlier one.                                *)
LEMMA InstalledAttribute ==
    ASSUME TopographAssumption, TypeOK, CardinalityInv, NEW n \in Descriptions, NEW m,
           RetractionsPermitted(m, n), BuildersValid(m, n),
           NEW a \in Touched(n), a \notin DOMAIN m,
           a \in Negated(n) \/ char[a]["valueType"] = None
    PROVE  LET b == builder(a, m, n)
           IN  /\ a \notin Negated(n)
               /\ n[a]["valueType"] # None
               /\ b["valueType"] = n[a]["valueType"]
               /\ b["cardinality"] = n[a]["cardinality"]
               /\ \A c \in CharNames : b[c] \in {None, n[a][c]}
               /\ \A c \in CharNames : c \notin Unsaid(a, m, n) => b[c] = n[a][c]
  <1> DEFINE b == builder(a, m, n)
  <1>1. a \in Attrs
    BY DEF Touched
  <1>2. OtherRetractions(a, n) = {}
    BY <1>1 DEF RetractionsPermitted
  <1>3. \A c \in CharNames : b[c] = IF c \in Asserts(a, n) THEN n[a][c] ELSE None
    BY <1>1, <1>2, BuilderShape
  <1>4. b["valueType"] # None
    BY DEF BuildersValid, validate_install_attribute
  <1>5. \A c \in {"valueType", "cardinality"} : c \in CharNames
    BY CharFacts
  <1>6. b["valueType"] = n[a]["valueType"]
    BY <1>3, <1>4, <1>5
  <1>7. a \notin Negated(n)
    BY <1>4, <1>6 DEF Negated
  <1>8. char[a]["cardinality"] = None
    BY <1>1, <1>7 DEF CardinalityInv
  <1>9. b["cardinality"] = n[a]["cardinality"]
    BY <1>3, <1>5, <1>8 DEF Asserts
  <1>10. \A c \in CharNames : c \notin Unsaid(a, m, n) => b[c] = n[a][c]
    BY <1>3 DEF Unsaid
  <1> HIDE DEF b
  <1>11. QED
    BY <1>3, <1>4, <1>6, <1>7, <1>9, <1>10 DEF b

(* build reads one characteristic for each field.                          *)
LEMMA BuildShape ==
    ASSUME NEW d
    PROVE  /\ build(d).causet_locale_type = d["valueType"]
           /\ build(d).multival = (d["cardinality"] = "many")
           /\ build(d).index = (d["Index"] = "fulltext")
           /\ build(d).fulltext = (d["fulltext"] = "true")
           /\ build(d).unique = UniqueOf(d)
  BY DEF build

(* Attributes with the same fields are the same.                           *)
LEMMA SameFields ==
    ASSUME NEW x \in Attribute, NEW y \in Attribute,
           x.causet_locale_type = y.causet_locale_type, x.multival = y.multival,
           x.index = y.index, x.fulltext = y.fulltext, x.unique = y.unique
    PROVE  x = y
  BY DEF Attribute

(* What memory has of an attribute, against its description: all of it, or *)
(* nothing more.                                                           *)
Within(at, d) ==
    /\ at.causet_locale_type = d["valueType"]
    /\ at.multival <=> d["cardinality"] = "many"
    /\ at.index => d["Index"] = "fulltext"
    /\ at.fulltext => d["fulltext"] = "true"
    /\ at.unique \in {None, UniqueOf(d)}

(* AttributesMatch, with build expanded.                                   *)
LEMMA MatchWithin ==
    AttributesMatch <=>
        /\ DOMAIN attribute_map = {a \in Attrs : char[a]["valueType"] # None}
        /\ \A a \in DOMAIN attribute_map :
              /\ attribute_map[a].multival = build(char[a]).multival
              /\ Within(attribute_map[a], char[a])
              /\ a \notin astray => attribute_map[a] = build(char[a])
  <1> DEFINE W(a) == Within(attribute_map[a], char[a])
  <1>1. ASSUME NEW a
        PROVE  /\ attribute_map[a].multival = build(char[a]).multival
               /\ Within(attribute_map[a], char[a])
               <=>
               /\ attribute_map[a].causet_locale_type = build(char[a]).causet_locale_type
               /\ attribute_map[a].multival = build(char[a]).multival
               /\ attribute_map[a].index => build(char[a]).index
               /\ attribute_map[a].fulltext => build(char[a]).fulltext
               /\ attribute_map[a].unique \in {None, build(char[a]).unique}
    BY BuildShape DEF Within
  <1>2. QED
    BY <1>1 DEF AttributesMatch

(* What a transaction makes of one attribute.                              *)
LEMMA OneAttribute ==
    ASSUME TopographAssumption, TypeOK, CardinalityInv, AttributesMatch, UniqueInv,
           NEW s, NEW n \in Descriptions, Permitted(n), transact(s, n), NEW a \in Attrs
    PROVE  /\ n[a]["valueType"] = None => n[a]["cardinality"] = None
           /\ a \in DOMAIN attribute_map' <=> n[a]["valueType"] # None
           /\ a \in DOMAIN attribute_map' =>
                 /\ attribute_map'[a].multival = build(n[a]).multival
                 /\ Within(attribute_map'[a], n[a])
                 /\ a \notin astray' => attribute_map'[a] = build(n[a])
                 /\ a \notin lapsed' => attribute_map'[a].unique = UniqueOf(n[a])
  <1> DEFINE m == Drop(attribute_map, Negated(n))
             new == update_attribute_map(m, n)
  <1>1. /\ RetractionsPermitted(m, n) /\ BuildersValid(m, n) /\ attribute_map' = new
        /\ astray' = astray \cup {b \in Touched(n) : Unsaid(b, m, n) # {}}
        /\ lapsed' = lapsed \cup Orphaned(n)
                            \cup {b \in Touched(n) : "unique" \in Unsaid(b, m, n)}
    BY DEF transact, Permitted
  <1>2. /\ DOMAIN attribute_map = {b \in Attrs : char[b]["valueType"] # None}
        /\ \A b \in DOMAIN attribute_map :
              /\ attribute_map[b].multival = build(char[b]).multival
              /\ Within(attribute_map[b], char[b])
              /\ b \notin astray => attribute_map[b] = build(char[b])
              /\ b \notin lapsed => attribute_map[b].unique = UniqueOf(char[b])
              /\ attribute_map[b] \in Attribute
    BY MatchWithin DEF UniqueInv, TypeOK
  <1>3. /\ a \in DOMAIN m <=> a \notin Negated(n) /\ char[a]["valueType"] # None
        /\ a \in DOMAIN m => m[a] = attribute_map[a] /\ a \in DOMAIN attribute_map
    BY <1>2 DEF Drop
  <1>4. /\ DOMAIN new = DOMAIN m \cup Touched(n)
        /\ a \in DOMAIN m /\ a \notin Touched(n) => new[a] = m[a]
        /\ a \in DOMAIN m /\ a \in Touched(n) => new[a] = mutate(builder(a, m, n), m[a])
        /\ a \notin DOMAIN m /\ a \in Touched(n) => new[a] = build(builder(a, m, n))
    BY DEF update_attribute_map
  <1> HIDE DEF m, new
  <1>5. CASE a \notin DOMAIN m /\ a \notin Touched(n)
    <2>1. n[a]["valueType"] = None /\ n[a]["cardinality"] = None
      <3>1. CASE a \in Negated(n)
        BY <3>1 DEF Negated
      <3>2. CASE a \notin Negated(n)
        BY <1>3, <1>5, <3>2, UntouchedAttribute DEF CardinalityInv
      <3>3. QED
        BY <3>1, <3>2
    <2>2. QED
      BY <1>1, <1>4, <1>5, <2>1
  <1>6. CASE a \in DOMAIN m /\ a \notin Touched(n)
    <2>1. n[a] = char[a]
      BY <1>3, <1>6, UntouchedAttribute
    <2>2. new[a] = attribute_map[a] /\ a \in DOMAIN attribute_map
      BY <1>3, <1>4, <1>6
    <2>3. n[a]["valueType"] # None
      BY <1>3, <1>6, <2>1
    <2>4. QED
      BY <1>1, <1>2, <1>4, <1>6, <2>1, <2>2, <2>3
  <1>7. CASE a \in DOMAIN m /\ a \in Touched(n)
    <2> DEFINE at == mutate(builder(a, m, n), m[a])
               old == attribute_map[a]
    <2>1. /\ new[a] = at /\ m[a] = old /\ a \in DOMAIN attribute_map
          /\ a \notin Negated(n) /\ char[a]["valueType"] # None
      BY <1>3, <1>4, <1>7
    <2>2. /\ old \in Attribute /\ old.multival = build(char[a]).multival
          /\ Within(old, char[a])
          /\ a \notin astray => old = build(char[a])
      BY <1>2, <2>1
    <2>3. /\ n[a]["valueType"] = char[a]["valueType"]
          /\ n[a]["fulltext"] = char[a]["fulltext"]
          /\ at.causet_locale_type = old.causet_locale_type
          /\ at.multival = build(n[a]).multival
          /\ at.fulltext = old.fulltext
          /\ \/ at.index = build(n[a]).index
             \/ n[a]["Index"] = char[a]["Index"] /\ at.index = old.index
          /\ at.unique \in {None, UniqueOf(n[a])}
          /\ Unsaid(a, m, n) = {} => at.unique = UniqueOf(n[a])
      BY <1>1, <1>7, <2>1, <2>2, AlteredAttribute
    <2>4. at \in Attribute
      <3>1. UniqueOf(builder(a, m, n)) \in {None, "value"}
        BY <1>1, <2>1, <2>2, BuilderTyped
      <3>2. QED
        BY <2>1, <2>2, <3>1, MutateTyped
    <2>5. /\ a \notin astray' => a \notin astray /\ Unsaid(a, m, n) = {}
          /\ a \notin lapsed' => "unique" \notin Unsaid(a, m, n)
      BY <1>1, <1>7
    <2>6. "unique" \notin Unsaid(a, m, n) => Unsaid(a, m, n) = {}
      BY <1>7 DEF Unsaid
    <2> HIDE DEF at, old
    <2>7. Within(at, n[a])
      BY <2>2, <2>3, BuildShape DEF Within
    <2>8. ASSUME a \notin astray' PROVE at = build(n[a])
      <3>1. old = build(char[a]) /\ at.unique = UniqueOf(n[a])
        BY <2>2, <2>3, <2>5, <2>8
      <3>2. at.index = build(n[a]).index
        BY <2>3, <3>1, BuildShape
      <3>3. build(n[a]) \in Attribute
        <4>1. n[a]["valueType"] \in Types
          BY <2>1, <2>3, Described
        <4>2. at.unique \in {None, "value"}
          BY <2>4 DEF Attribute
        <4>3. QED
          BY <3>1, <4>1, <4>2, BuildTyped
      <3>4. /\ at.causet_locale_type = build(n[a]).causet_locale_type
            /\ at.fulltext = build(n[a]).fulltext
            /\ at.unique = build(n[a]).unique
        BY <2>3, <3>1, BuildShape
      <3>5. QED
        BY <2>3, <2>4, <3>2, <3>3, <3>4, SameFields
    <2>9. a \notin lapsed' => at.unique = UniqueOf(n[a])
      BY <2>3, <2>5, <2>6
    <2>10. n[a]["valueType"] # None /\ a \in DOMAIN attribute_map'
      BY <1>1, <1>4, <1>7, <2>1, <2>3
    <2>11. attribute_map'[a] = at
      BY <1>1, <2>1
    <2>12. QED
      BY <2>3, <2>7, <2>8, <2>9, <2>10, <2>11
  <1>8. CASE a \notin DOMAIN m /\ a \in Touched(n)
    <2> DEFINE b == builder(a, m, n)
    <2>1. a \in Negated(n) \/ char[a]["valueType"] = None
      BY <1>3, <1>8
    <2>2. /\ n[a]["valueType"] # None
          /\ b["valueType"] = n[a]["valueType"]
          /\ b["cardinality"] = n[a]["cardinality"]
          /\ \A c \in CharNames : b[c] \in {None, n[a][c]}
          /\ \A c \in CharNames : c \notin Unsaid(a, m, n) => b[c] = n[a][c]
      <3>1. RetractionsPermitted(m, n) /\ BuildersValid(m, n)
        BY <1>1
      <3>2. a \in Touched(n) /\ a \notin DOMAIN m
        BY <1>8
      <3> HIDE DEF b
      <3>3. LET d == builder(a, m, n)
            IN  /\ n[a]["valueType"] # None
                /\ d["valueType"] = n[a]["valueType"]
                /\ d["cardinality"] = n[a]["cardinality"]
                /\ \A c \in CharNames : d[c] \in {None, n[a][c]}
                /\ \A c \in CharNames : c \notin Unsaid(a, m, n) => d[c] = n[a][c]
        BY <2>1, <3>1, <3>2, InstalledAttribute
      <3>4. QED
        BY <3>3 DEF b
    <2>3. attribute_map'[a] = build(b) /\ a \in DOMAIN attribute_map'
      BY <1>1, <1>4, <1>8
    <2>4. /\ a \notin astray' => Unsaid(a, m, n) = {}
          /\ a \notin lapsed' => "unique" \notin Unsaid(a, m, n)
      BY <1>1, <1>8
    <2>5. n[a]["unique"] \in {"value", None}
      BY Described
    <2>6. b = [c \in CharNames |-> b[c]] /\ n[a] = [c \in CharNames |-> n[a][c]]
      BY BuilderShape, Described
    <2> HIDE DEF b
    <2>7. UniqueOf(n[a]) = n[a]["unique"] /\ UniqueOf(b) = b["unique"]
      BY <2>2, <2>5, CharFacts, Words DEF UniqueOf
    <2>8. Within(build(b), n[a])
      <3>1. /\ b["Index"] \in {None, n[a]["Index"]}
            /\ b["fulltext"] \in {None, n[a]["fulltext"]}
            /\ b["unique"] \in {None, n[a]["unique"]}
        BY <2>2, CharFacts
      <3>2. /\ b["Index"] = "fulltext" => n[a]["Index"] = "fulltext"
            /\ b["fulltext"] = "true" => n[a]["fulltext"] = "true"
        BY <3>1, Words
      <3>3. UniqueOf(b) \in {None, UniqueOf(n[a])}
        BY <2>7, <3>1
      <3>4. /\ build(b).causet_locale_type = b["valueType"]
            /\ build(b).multival <=> b["cardinality"] = "many"
            /\ build(b).index <=> b["Index"] = "fulltext"
            /\ build(b).fulltext <=> b["fulltext"] = "true"
            /\ build(b).unique = UniqueOf(b)
        BY DEF build
      <3> DEFINE x == build(b)
      <3> HIDE DEF x
      <3>5. QED
        BY <2>2, <3>2, <3>3, <3>4 DEF Within, x
    <2>9. build(b).multival = build(n[a]).multival
      BY <2>2, BuildShape
    <2>10. a \notin astray' => build(b) = build(n[a])
      BY <2>2, <2>4, <2>6
    <2>11. a \notin lapsed' => build(b).unique = UniqueOf(n[a])
      BY <2>2, <2>4, <2>7, BuildShape, CharFacts
    <2>12. QED
      BY <2>2, <2>3, <2>8, <2>9, <2>10, <2>11
  <1>9. QED
    BY <1>5, <1>6, <1>7, <1>8

(* What a transaction makes of all of them.                                *)
LEMMA NewAttributes ==
    ASSUME TopographAssumption, TypeOK, CardinalityInv, AttributesMatch, UniqueInv,
           NEW s, NEW n \in Descriptions, Permitted(n), transact(s, n)
    PROVE  CardinalityInv' /\ AttributesMatch' /\ UniqueInv'
  <1>1. char' = n
    BY DEF transact
  <1>2. DOMAIN attribute_map' \subseteq Attrs
    BY DEF transact, update_attribute_map, AttributesMatch, Drop, Touched
  <1>3. \A a \in Attrs :
           /\ n[a]["valueType"] = None => n[a]["cardinality"] = None
           /\ a \in DOMAIN attribute_map' <=> n[a]["valueType"] # None
           /\ a \in DOMAIN attribute_map' =>
                 /\ attribute_map'[a].multival = build(n[a]).multival
                 /\ Within(attribute_map'[a], n[a])
                 /\ a \notin astray' => attribute_map'[a] = build(n[a])
                 /\ a \notin lapsed' => attribute_map'[a].unique = UniqueOf(n[a])
    BY OneAttribute
  <1>4. CardinalityInv'
    BY <1>1, <1>3 DEF CardinalityInv
  <1>5. UniqueInv'
    BY <1>1, <1>2, <1>3 DEF UniqueInv, UniqueOf
  <1>6. AttributesMatch'
    <2>1. ASSUME NEW a \in DOMAIN attribute_map'
          PROVE  LET at == attribute_map'[a]
                     said == build(n[a])
                 IN  /\ at.causet_locale_type = said.causet_locale_type
                     /\ at.multival = said.multival
                     /\ at.index => said.index
                     /\ at.fulltext => said.fulltext
                     /\ at.unique \in {None, said.unique}
                     /\ a \notin astray' => at = said
      <3> DEFINE at == attribute_map'[a]
                 said == build(n[a])
      <3>1. /\ Within(at, n[a]) /\ at.multival = said.multival
            /\ a \notin astray' => at = said
        BY <1>2, <1>3
      <3>2. /\ said.causet_locale_type = n[a]["valueType"]
            /\ said.index <=> n[a]["Index"] = "fulltext"
            /\ said.fulltext <=> n[a]["fulltext"] = "true"
            /\ said.unique = UniqueOf(n[a])
        BY DEF build
      <3> HIDE DEF at, said
      <3>3. /\ at.causet_locale_type = said.causet_locale_type
            /\ at.multival = said.multival
            /\ at.index => said.index
            /\ at.fulltext => said.fulltext
            /\ at.unique \in {None, said.unique}
            /\ a \notin astray' => at = said
        BY <3>1, <3>2 DEF Within
      <3>4. QED
        BY <3>3 DEF at, said
    <2>2. DOMAIN attribute_map' = {a \in Attrs : n[a]["valueType"] # None}
      BY <1>2, <1>3
    <2>3. QED
      BY <1>1, <2>1, <2>2 DEF AttributesMatch, build, UniqueOf
  <1>7. QED
    BY <1>4, <1>5, <1>6

(* No attribute that has values leaves memory and stays off lapsed.        *)
LEMMA ValuedStay ==
    ASSUME NEW s, NEW n \in Descriptions, transact(s, n),
           NEW d \in data, d.a \in DOMAIN attribute_map, d.a \notin lapsed'
    PROVE  d.a \in DOMAIN attribute_map'
  <1> DEFINE m == Drop(attribute_map, Negated(n))
  <1>1. attribute_map' = update_attribute_map(m, n) /\ Orphaned(n) \subseteq lapsed'
    BY DEF transact
  <1>2. d.a \notin Negated(n)
    <2>1. d \in ValuesOf(d.a)
      BY DEF ValuesOf
    <2>2. QED
      BY <1>1, <2>1 DEF Orphaned
  <1>3. d.a \in DOMAIN m
    BY <1>2 DEF Drop
  <1>4. QED
    BY <1>1, <1>3 DEF update_attribute_map

(* Where a value comes from, and what its flag was.                        *)
LEMMA Reflag ==
    ASSUME TypeOK, NEW new, NEW x \in Reflagged(new)
    PROVE  \E d \in data :
              /\ x.e = d.e /\ x.a = d.a /\ x.v = d.v
              /\ x.flag = IF /\ d.a \in DOMAIN attribute_map \cap DOMAIN new
                             /\ new[d.a].unique # attribute_map[d.a].unique
                          THEN new[d.a].unique # None ELSE d.flag
  <1>1. data \subseteq [e : Holders, a : Attrs, v : Vals, flag : BOOLEAN]
    BY DEF TypeOK
  <1>2. PICK d \in data :
           x = [d EXCEPT !.flag =
                  IF /\ d.a \in DOMAIN attribute_map \cap DOMAIN new
                     /\ new[d.a].unique # attribute_map[d.a].unique
                  THEN new[d.a].unique # None ELSE @]
    BY DEF Reflagged
  <1>3. d \in [e : Holders, a : Attrs, v : Vals, flag : BOOLEAN]
    BY <1>1
  <1>4. x.e = d.e /\ x.a = d.a /\ x.v = d.v
    BY <1>2, <1>3
  <1>5. x.flag = IF /\ d.a \in DOMAIN attribute_map \cap DOMAIN new
                    /\ new[d.a].unique # attribute_map[d.a].unique
                 THEN new[d.a].unique # None ELSE d.flag
    BY <1>2, <1>3
  <1>6. QED
    BY <1>4, <1>5

(* The data after a transaction keeps what the new attributes promise.     *)
LEMMA NewData ==
    ASSUME TypeOK, FlagInv, DataKept, NEW s, NEW n \in Descriptions,
           Permitted(n), transact(s, n)
    PROVE  FlagInv' /\ DataKept'
  <1> DEFINE new == attribute_map'
  <1>1. /\ data' = Reflagged(new) /\ CardinalityPermitted(new)
        /\ NoConflict({d \in Reflagged(new) : d.flag}) /\ lapsed \subseteq lapsed'
    BY DEF transact, Permitted
  <1>2. ASSUME NEW x \in data', x.a \notin lapsed'
        PROVE  \E d \in data :
                  /\ x.e = d.e /\ x.a = d.a /\ x.v = d.v
                  /\ d.a \in DOMAIN attribute_map /\ d.a \in DOMAIN new
                  /\ x.flag <=> new[d.a].unique # None
    <2>1. PICK d \in data :
              /\ x.e = d.e /\ x.a = d.a /\ x.v = d.v
              /\ x.flag = IF /\ d.a \in DOMAIN attribute_map \cap DOMAIN new
                             /\ new[d.a].unique # attribute_map[d.a].unique
                          THEN new[d.a].unique # None ELSE d.flag
      BY <1>1, Reflag
    <2>2. d.a \in DOMAIN attribute_map /\ d.flag = (attribute_map[d.a].unique # None)
      <3>1. d.flag \in BOOLEAN
        BY DEF TypeOK
      <3>2. d.a \notin lapsed
        BY <1>1, <1>2, <2>1
      <3>3. QED
        BY <3>1, <3>2 DEF FlagInv
    <2>3. d.a \in DOMAIN new
      BY <1>2, <2>1, <2>2, ValuedStay
    <2>4. QED
      BY <2>1, <2>2, <2>3
  <1> HIDE DEF new
  <1>3. FlagInv'
    BY <1>2 DEF FlagInv, new
  <1>4. ASSUME NEW a \in DOMAIN new \ lapsed', ~new[a].multival,
               NEW x \in data', NEW y \in data', x.a = a, y.a = a, x.e = y.e
        PROVE  x.v = y.v
    <2>1. PICK c \in data : x.e = c.e /\ x.a = c.a /\ x.v = c.v /\ c.a \in DOMAIN attribute_map
      BY <1>2, <1>4
    <2>2. PICK d \in data : y.e = d.e /\ y.a = d.a /\ y.v = d.v
      BY <1>2, <1>4
    <2>3. a \in DOMAIN attribute_map /\ ~attribute_map[a].multival
      BY <1>1, <1>4, <2>1 DEF CardinalityPermitted
    <2>4. SingleValued(a)
      BY <1>1, <1>4, <2>3 DEF DataKept
    <2>5. c \in ValuesOf(a) /\ d \in ValuesOf(a)
      BY <1>4, <2>1, <2>2 DEF ValuesOf
    <2>6. c.v = d.v
      BY <1>4, <2>1, <2>2, <2>4, <2>5 DEF SingleValued
    <2>7. QED
      BY <2>1, <2>2, <2>6
  <1>5. ASSUME NEW a \in DOMAIN new \ lapsed', new[a].unique # None,
               NEW x \in data', NEW y \in data', x.a = a, y.a = a, x.v = y.v
        PROVE  x.e = y.e
    <2>1. x.flag /\ y.flag
      BY <1>2, <1>5
    <2>2. QED
      BY <1>1, <1>5, <2>1 DEF NoConflict
  <1>6. DataKept'
    BY <1>4, <1>5 DEF DataKept, SingleValued, NoConflict, ValuesOf, new
  <1>7. QED
    BY <1>3, <1>6

(* A value that is asserted.                                               *)
LEMMA AddedData ==
    ASSUME TypeOK, FlagInv, DataKept, NEW e \in Holders, NEW a \in Attrs, NEW v \in Vals,
           add(e, a, v)
    PROVE  FlagInv' /\ DataKept'
  <1> DEFINE at == attribute_map[a]
             kept == IF at.multival THEN data ELSE {d \in data : ~(d.e = e /\ d.a = a)}
             row == [e |-> e, a |-> a, v |-> v, flag |-> at.unique # None]
  <1>1. /\ a \in DOMAIN attribute_map /\ attribute_map' = attribute_map /\ lapsed' = lapsed
        /\ data' = kept \cup {row} /\ NoConflict({d \in kept \cup {row} : d.flag})
    BY DEF add, memory, history
  <1>2. row.e = e /\ row.a = a /\ row.v = v /\ row.flag = (at.unique # None)
    OBVIOUS
  <1>3. kept \subseteq data
    OBVIOUS
  <1>4. ~at.multival => \A d \in kept : ~(d.e = e /\ d.a = a)
    OBVIOUS
  <1> HIDE DEF kept, row
  <1>5. \A d \in data' : d.a \notin lapsed =>
            /\ d.a \in DOMAIN attribute_map
            /\ d.flag <=> attribute_map[d.a].unique # None
    BY <1>1, <1>2, <1>3 DEF FlagInv
  <1>6. FlagInv'
    BY <1>1, <1>5 DEF FlagInv
  <1>7. ASSUME NEW b \in DOMAIN attribute_map \ lapsed, ~attribute_map[b].multival,
               NEW x \in data', NEW y \in data', x.a = b, y.a = b, x.e = y.e
        PROVE  x.v = y.v
    <2>1. CASE x = row \/ y = row
      BY <1>1, <1>2, <1>4, <1>7, <2>1
    <2>2. CASE x # row /\ y # row
      <3>1. x \in ValuesOf(b) /\ y \in ValuesOf(b)
        BY <1>1, <1>3, <1>7, <2>2 DEF ValuesOf
      <3>2. SingleValued(b)
        BY <1>7 DEF DataKept
      <3>3. QED
        BY <1>7, <3>1, <3>2 DEF SingleValued
    <2>3. QED
      BY <2>1, <2>2
  <1>8. ASSUME NEW b \in DOMAIN attribute_map \ lapsed, attribute_map[b].unique # None,
               NEW x \in data', NEW y \in data', x.a = b, y.a = b, x.v = y.v
        PROVE  x.e = y.e
    BY <1>1, <1>5, <1>8 DEF NoConflict
  <1>9. DataKept'
    BY <1>1, <1>7, <1>8 DEF DataKept, SingleValued, NoConflict, ValuesOf
  <1>10. QED
    BY <1>6, <1>9

(* Values that are retracted, or nothing; the attributes may be read anew. *)
LEMMA FewerData ==
    ASSUME FlagInv, DataKept, data' \subseteq data, lapsed' = lapsed,
           DOMAIN attribute_map' = DOMAIN attribute_map,
           \A a \in DOMAIN attribute_map \ lapsed :
              /\ attribute_map'[a].multival = attribute_map[a].multival
              /\ attribute_map'[a].unique = attribute_map[a].unique
    PROVE  FlagInv' /\ DataKept'
  <1>1. FlagInv'
    BY DEF FlagInv
  <1>2. DataKept'
    BY DEF DataKept, SingleValued, NoConflict, ValuesOf
  <1>3. QED
    BY <1>1, <1>2

(* Init.                                                                   *)
LEMMA AttributesInit ==
    ASSUME Init
    PROVE  AttributesInd
  <1> USE DEF Init
  <1>1. {b \in Attrs : char[b]["valueType"] # None} = {}
    BY CharFacts DEF Unset
  <1>2. CardinalityInv
    BY CharFacts DEF CardinalityInv, Unset
  <1>3. DOMAIN attribute_map = {} /\ data = {}
    OBVIOUS
  <1>4. AttributesMatch /\ UniqueInv /\ FlagInv /\ DataKept
    BY <1>1, <1>3 DEF AttributesMatch, UniqueInv, FlagInv, DataKept
  <1>5. QED
    BY <1>2, <1>4 DEF AttributesInd

(* Steps that leave what is said of attributes, and memory, alone.         *)
LEMMA AttributesStay ==
    ASSUME CardinalityInv, AttributesMatch, UniqueInv,
           char' = char, attribute_map' = attribute_map, history' = history
    PROVE  CardinalityInv' /\ AttributesMatch' /\ UniqueInv'
  <1>1. astray' = astray /\ lapsed' = lapsed
    BY DEF history
  <1>2. CardinalityInv'
    BY DEF CardinalityInv
  <1>3. UniqueInv'
    BY <1>1 DEF UniqueInv, UniqueOf
  <1>4. AttributesMatch'
    BY <1>1 DEF AttributesMatch
  <1>5. QED
    BY <1>2, <1>3, <1>4

(* The attributes of a store that is opened again are those described.     *)
LEMMA ReadAttributes ==
    ASSUME ViewsExact
    PROVE  /\ DOMAIN read_attribute_map = {a \in Attrs : char[a]["valueType"] # None}
           /\ \A a \in DOMAIN read_attribute_map : read_attribute_map[a] = build(char[a])
  BY DEF ViewsExact, read_attribute_map, TopographRows

(* A store that is opened again.                                           *)
LEMMA AttributesRead ==
    ASSUME ViewsExact, AttributesInd, read_einsteindb
    PROVE  AttributesInd'
  <1>1. /\ attribute_map' = read_attribute_map /\ data' = data /\ char' = char
        /\ lapsed' = lapsed
    BY DEF read_einsteindb, causets
  <1>2. /\ DOMAIN attribute_map' = {a \in Attrs : char[a]["valueType"] # None}
        /\ \A a \in DOMAIN attribute_map' : attribute_map'[a] = build(char[a])
    BY <1>1, ReadAttributes
  <1>3. AttributesMatch'
    BY <1>1, <1>2 DEF AttributesMatch, build, UniqueOf
  <1>4. CardinalityInv' /\ UniqueInv'
    BY <1>1, <1>2, BuildShape DEF AttributesInd, CardinalityInv, UniqueInv, UniqueOf
  <1>5. /\ DOMAIN attribute_map' = DOMAIN attribute_map
        /\ \A a \in DOMAIN attribute_map \ lapsed :
              /\ attribute_map'[a].multival = attribute_map[a].multival
              /\ attribute_map'[a].unique = attribute_map[a].unique
    BY <1>2, BuildShape DEF AttributesInd, AttributesMatch, UniqueInv
  <1>6. FlagInv' /\ DataKept'
    BY <1>1, <1>5, FewerData DEF AttributesInd
  <1>7. QED
    BY <1>3, <1>4, <1>6 DEF AttributesInd

(* Attributes and data are right in every reachable state.                 *)
LEMMA AttributesInductive == Spec => []AttributesInd
  <1>1. Init => AttributesInd
    BY AttributesInit
  <1>2. BaseInd /\ AttributesInd /\ [Next]_vars => AttributesInd'
    <2> SUFFICES ASSUME BaseInd, AttributesInd, [Next]_vars PROVE AttributesInd'
      OBVIOUS
    <2>1. /\ TypeOK /\ ViewsExact /\ CardinalityInv /\ AttributesMatch /\ UniqueInv
          /\ FlagInv /\ DataKept
      BY DEF BaseInd, AttributesInd
    <2>2. ASSUME NEW n \in Descriptions, Permitted(n), NEW s \in Namings, transact(s, n)
          PROVE  AttributesInd'
      <3>1. CardinalityInv' /\ AttributesMatch' /\ UniqueInv'
        BY <2>1, <2>2, NewAttributes, TopographAssumption
      <3>2. FlagInv' /\ DataKept'
        BY <2>1, <2>2, NewData
      <3>3. QED
        BY <3>1, <3>2 DEF AttributesInd
    <2>3. ASSUME NEW e \in Holders, NEW a \in Attrs, NEW v \in Vals, add(e, a, v)
          PROVE  AttributesInd'
      <3>1. FlagInv' /\ DataKept'
        BY <2>1, <2>3, AddedData
      <3>2. char' = char /\ attribute_map' = attribute_map /\ history' = history
        BY <2>3 DEF add, memory
      <3>3. QED
        BY <2>1, <3>1, <3>2, AttributesStay DEF AttributesInd
    <2>4. ASSUME data' \subseteq data, char' = char, attribute_map' = attribute_map,
                 history' = history
          PROVE  AttributesInd'
      <3>1. lapsed' = lapsed
        BY <2>4 DEF history
      <3>2. FlagInv' /\ DataKept'
        BY <2>1, <2>4, <3>1, FewerData
      <3>3. QED
        BY <2>1, <2>4, <3>2, AttributesStay DEF AttributesInd
    <2>5. CASE \E d \in data : retract(d)
      <3>1. /\ data' \subseteq data /\ char' = char /\ attribute_map' = attribute_map
            /\ history' = history
        BY <2>5 DEF retract, memory
      <3>2. QED
        BY <2>4, <3>1
    <2>6. CASE read_einsteindb
      BY <2>1, <2>6, AttributesRead
    <2>7. CASE UNCHANGED vars
      <3>1. /\ data' \subseteq data /\ char' = char /\ attribute_map' = attribute_map
            /\ history' = history
        BY <2>7 DEF vars, causets, memory
      <3>2. QED
        BY <2>4, <3>1
    <2>8. QED
      BY <2>2, <2>3, <2>5, <2>6, <2>7 DEF Next
  <1>3. QED
    BY <1>1, <1>2, BaseInductive, PTL DEF Spec

(***************************************************************************)
(* The attributes in memory are the ones the causets describe, with their  *)
(* type and cardinality, after any series of installs, alterations,        *)
(* removals and reopenings; it makes none of them more than they say, and  *)
(* less only of an attribute whose builder did not mention all of it since *)
(* the store was opened.                                                   *)
(***************************************************************************)
THEOREM AttributesInvariant == Spec => []AttributesMatch
  <1>1. AttributesInd => AttributesMatch
    BY DEF AttributesInd
  <1>2. QED
    BY <1>1, AttributesInductive, PTL

(***************************************************************************)
(* The values keep what the attributes in memory promise, one value per    *)
(* entity and one entity per value of a unique one, unless the attribute   *)
(* was once removed while it had values or lost its uniqueness in memory.  *)
(***************************************************************************)
THEOREM DataInvariant == Spec => []DataKept
  <1>1. AttributesInd => DataKept
    BY DEF AttributesInd
  <1>2. QED
    BY <1>1, AttributesInductive, PTL

(***************************************************************************)
(* What TestConn asserts, as far as it goes: at any time the views give    *)
(* the causetids of memory, all the solitonids that memory has not lost,   *)
(* and its attributes unless one is astray.                                *)
(***************************************************************************)
THEOREM ViewsMaterialized == Spec => []Materialized
  <1>1. BaseInd /\ AttributesInd => Materialized
    <2> SUFFICES ASSUME BaseInd, AttributesInd PROVE Materialized
      OBVIOUS
    <2>1. TypeOK /\ NamesInv /\ ViewsExact /\ AttributesMatch
      BY DEF BaseInd, AttributesInd
    <2>2. causetid_map = EntitiesByName(read_causetid_map)
      BY <2>1, ReadEntities, TopographAssumption DEF NamesInv
    <2>3. ASSUME NEW k \in DOMAIN solitonid_map
          PROVE  k \in DOMAIN read_causetid_map /\ solitonid_map[k] = read_causetid_map[k]
      <3>1. solitonid_map[k] \in Entities /\ solitonid[solitonid_map[k]] = k /\ k # None
        BY <2>1, TopographAssumption DEF NamesInv, TypeOK
      <3>2. QED
        BY <2>1, <3>1, ReadNames, TopographAssumption
    <2>4. ASSUME astray = {} PROVE attribute_map = read_attribute_map
      <3>1. /\ DOMAIN attribute_map = {a \in Attrs : char[a]["valueType"] # None}
            /\ \A a \in DOMAIN attribute_map : attribute_map[a] = build(char[a])
        BY <2>1, <2>4 DEF AttributesMatch
      <3>2. /\ DOMAIN read_attribute_map = DOMAIN attribute_map
            /\ \A a \in DOMAIN attribute_map : read_attribute_map[a] = attribute_map[a]
        BY <2>1, <3>1, ReadAttributes
      <3>3. /\ attribute_map = [a \in DOMAIN attribute_map |-> attribute_map[a]]
            /\ read_attribute_map = [a \in DOMAIN read_attribute_map |-> read_attribute_map[a]]
        BY <2>1 DEF NamesInv, read_attribute_map
      <3>4. QED
        BY <3>2, <3>3
    <2>5. QED
      BY <2>2, <2>3, <2>4 DEF Materialized
  <1>2. QED
    BY <1>1, BaseInductive, AttributesInductive, PTL

=============================================================================
