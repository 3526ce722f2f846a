------------------------ MODULE UpsertResolutionProofs ------------------------
(***************************************************************************)
(* Proofs about UpsertResolution for any transaction, store and number of  *)
(* tempids.                                                                *)
(***************************************************************************)
EXTENDS UpsertResolution, TLAPS, FiniteSetTheorems, NaturalsInduction, WellFoundedInduction

-----------------------------------------------------------------------------
(* Induction over the naturals and over the groups that a fold has joined. *)

(* A set of naturals has a least element.                                   *)
LEMMA LeastExists ==
    ASSUME NEW S \in SUBSET Nat, S # {}
    PROVE  \E m \in S : \A i \in S : m <= i
  <1>1. \E m \in S : \A i \in S : ~ (<<i, m>> \in OpToRel(<, Nat))
    BY WFMin, NatLessThanWellFounded
  <1>2. PICK m \in S : \A i \in S : ~ (<<i, m>> \in OpToRel(<, Nat))
    BY <1>1
  <1>3. \A i \in S : ~ (i < m)
    BY <1>2 DEF OpToRel
  <1>4. QED
    BY <1>3

(* Induction in terms of sets.                                              *)
LEMMA SetInduction ==
    ASSUME NEW S, 0 \in S, \A n \in Nat : n \in S => n + 1 \in S
    PROVE  Nat \subseteq S
  <1> DEFINE B == { n \in Nat : n \notin S }
  <1> SUFFICES ASSUME B # {} PROVE FALSE
    OBVIOUS
  <1>1. PICK m \in B : \A i \in B : m <= i
    <2>1. B \in SUBSET Nat
      OBVIOUS
    <2> HIDE DEF B
    <2>2. QED
      BY <2>1, LeastExists
  <1>2. m \in Nat /\ m # 0 /\ m \notin S
    BY <1>1
  <1>3. m - 1 \in Nat /\ m - 1 \notin B
    BY <1>1, <1>2
  <1>4. QED
    BY <1>2, <1>3

(* The largest of finitely many naturals.                                   *)
LEMMA GreatestExists ==
    ASSUME NEW S \in SUBSET Nat, S # {}, NEW b \in Nat, \A i \in S : i <= b
    PROVE  \E m \in S : \A i \in S : i <= m
  <1> DEFINE T == { k \in Nat : \E i \in S : k = b - i }
  <1>1. T \in SUBSET Nat /\ T # {}
    <2>1. PICK i \in S : TRUE
      OBVIOUS
    <2>2. b - i \in T
      BY <2>1
    <2>3. QED
      BY <2>2
  <1>2. PICK k \in T : \A j \in T : k <= j
    <2> HIDE DEF T
    <2>1. QED
      BY <1>1, LeastExists
  <1>3. PICK m \in S : k = b - m
    BY <1>2
  <1>4. ASSUME NEW i \in S PROVE i <= m
    <2>1. b - i \in T
      OBVIOUS
    <2>2. k <= b - i
      BY <1>2, <2>1
    <2>3. QED
      BY <1>3, <2>2
  <1>5. QED
    BY <1>4

\* The member of a set that the fold takes next.
Taken(s) == CHOOSE x \in s : TRUE

\* The recursion of FoldSet over the subsets of the groups.
Recursion(f, base, groups) ==
    f = [s \in SUBSET groups |->
           IF s = {} THEN base ELSE union(Taken(s), f[s \ {Taken(s)}])]

(* The recursion of the fold has a solution, built by the size of the set.  *)
LEMMA RecursionExists ==
    ASSUME NEW groups, IsFiniteSet(groups), NEW base
    PROVE  \E f : Recursion(f, base, groups)
  <1> DEFINE Upto(n) == { s \in SUBSET groups : Cardinality(s) <= n }
             Solves(n, g) == g = [s \in Upto(n) |->
                               IF s = {} THEN base ELSE union(Taken(s), g[s \ {Taken(s)}])]
             Good == { n \in Nat : \E g : Solves(n, g) }
  <1>0. ASSUME NEW s \in SUBSET groups
        PROVE  Cardinality(s) \in Nat /\ IsFiniteSet(s) /\ (Cardinality(s) = 0 <=> s = {})
    BY FS_Subset, FS_CardinalityType, FS_EmptySet
  <1>1. ASSUME NEW s \in SUBSET groups, s # {}
        PROVE  /\ s \ {Taken(s)} \in SUBSET groups
               /\ Cardinality(s \ {Taken(s)}) = Cardinality(s) - 1
    BY <1>0, <1>1, FS_RemoveElement DEF Taken
  <1>2. 0 \in Good
    <2> DEFINE g == [s \in Upto(0) |-> base]
    <2>1. \A s \in Upto(0) : s = {}
      BY <1>0
    <2>2. Solves(0, g)
      BY <2>1
    <2>3. QED
      BY <2>2
  <1>3. ASSUME NEW n \in Nat, n \in Good PROVE n + 1 \in Good
    <2>1. PICK g : Solves(n, g)
      BY <1>3
    <2> DEFINE h == [s \in Upto(n + 1) |->
                       IF s = {} THEN base ELSE union(Taken(s), g[s \ {Taken(s)}])]
    <2>2. ASSUME NEW s \in Upto(n + 1), s # {}
          PROVE  s \ {Taken(s)} \in Upto(n) /\ s \ {Taken(s)} \in Upto(n + 1)
      BY <1>0, <1>1, <2>2
    <2>3. ASSUME NEW s \in Upto(n) PROVE s \in Upto(n + 1) /\ h[s] = g[s]
      <3>1. s \in Upto(n + 1)
        BY <1>0
      <3>2. g[s] = IF s = {} THEN base ELSE union(Taken(s), g[s \ {Taken(s)}])
        <4> HIDE DEF Upto
        <4>1. QED
          BY <2>1
      <3>3. QED
        BY <3>1, <3>2
    <2>4. ASSUME NEW s \in Upto(n + 1)
          PROVE  h[s] = IF s = {} THEN base ELSE union(Taken(s), h[s \ {Taken(s)}])
      <3>1. CASE s = {}
        BY <3>1
      <3>2. CASE s # {}
        <4>1. h[s] = union(Taken(s), g[s \ {Taken(s)}])
          BY <3>2
        <4>2. h[s \ {Taken(s)}] = g[s \ {Taken(s)}]
          BY <2>2, <2>3, <3>2
        <4> HIDE DEF h
        <4>3. QED
          BY <3>2, <4>1, <4>2
      <3>3. QED
        BY <3>1, <3>2
    <2>5. Solves(n + 1, h)
      <3>1. h = [s \in Upto(n + 1) |-> h[s]]
        OBVIOUS
      <3> HIDE DEF h, Upto
      <3>2. QED
        BY <2>4, <3>1
    <2>6. \E g1 : Solves(n + 1, g1)
      <3> HIDE DEF h, Upto
      <3>1. QED
        BY <2>5
    <2>7. n + 1 \in Nat
      OBVIOUS
    <2>8. QED
      BY <2>6, <2>7
  <1>4. Nat \subseteq Good
    <2> HIDE DEF Good
    <2>1. QED
      BY <1>2, <1>3, SetInduction
  <1>5. Cardinality(groups) \in Nat /\ \A s \in SUBSET groups : Cardinality(s) <= Cardinality(groups)
    BY FS_Subset, FS_CardinalityType
  <1>6. Upto(Cardinality(groups)) = SUBSET groups
    BY <1>5
  <1>7. PICK g : Solves(Cardinality(groups), g)
    BY <1>4, <1>5
  <1>8. Recursion(g, base, groups)
    BY <1>6, <1>7 DEF Recursion
  <1>9. QED
    BY <1>8

(* What the fold computes is the last value of a solution.                  *)
LEMMA FoldUnfolds ==
    ASSUME NEW groups, IsFiniteSet(groups), NEW base
    PROVE  \E f : Recursion(f, base, groups) /\ FoldSet(union, base, groups) = f[groups]
  <1> DEFINE f == CHOOSE g : Recursion(g, base, groups)
  <1>1. FoldSet(union, base, groups) =
          (CHOOSE g : g = [s \in SUBSET groups |->
             IF s = {} THEN base ELSE union(Taken(s), g[s \ {Taken(s)}])])[groups]
    BY Zenon DEF FoldSet, MapThenFoldSet, Taken
  <1>2. FoldSet(union, base, groups) = f[groups]
    BY <1>1, Zenon DEF Recursion
  <1>3. Recursion(f, base, groups)
    BY RecursionExists
  <1>4. QED
    BY <1>2, <1>3

-----------------------------------------------------------------------------
(* What the unions compute: the classes of the tempids that share an [a v]. *)

\* No set of ids that is closed under the groups has y and not x.
JoinedBy(ids, groups, x, y) ==
    \A p \in SUBSET ids :
        (y \in p /\ \A g \in groups : g \cap p # {} => g \subseteq p) => x \in p

\* u gives every id the leader of its class.
Classes(u, ids, groups) ==
    /\ u \in [ids -> ids]
    /\ \A g \in groups : \A a, b \in g : u[a] = u[b]
    /\ \A x, y \in ids : u[x] = u[y] => JoinedBy(ids, groups, x, y)

(* Joining one more group joins the classes of its members and no others.   *)
LEMMA UnionStep ==
    ASSUME NEW ids \in SUBSET Nat, NEW groups \in SUBSET SUBSET ids,
           NEW g \in SUBSET ids, g # {}, NEW u, Classes(u, ids, groups)
    PROVE  Classes(union(g, u), ids, groups \cup {g})
  <1> DEFINE reps == { u[t] : t \in g }
             least == Min(reps)
             n == union(g, u)
  <1>1. /\ u \in [ids -> ids]
        /\ \A h \in groups : \A a, b \in h : u[a] = u[b]
        /\ \A x, y \in ids : u[x] = u[y] => JoinedBy(ids, groups, x, y)
    BY DEF Classes
  <1>2. reps \in SUBSET ids /\ reps # {}
    <2>1. PICK t \in g : TRUE
      OBVIOUS
    <2>2. u[t] \in reps
      BY <2>1
    <2>3. \A x \in g : u[x] \in ids
      BY <1>1
    <2>4. QED
      BY <2>2, <2>3
  <1>3. least \in reps
    <2>1. reps \in SUBSET Nat
      BY <1>2
    <2> HIDE DEF reps
    <2>2. \E m \in reps : \A i \in reps : m <= i
      BY <1>2, <2>1, LeastExists
    <2>3. QED
      BY <2>2 DEF Min
  <1>4. n = [t \in ids |-> IF u[t] \in reps THEN least ELSE u[t]]
    BY <1>1 DEF union
  <1>5. \A t \in g : u[t] \in reps
    OBVIOUS
  <1>6. \A r \in reps : \E t \in g : r = u[t]
    OBVIOUS
  <1> HIDE DEF reps, least, n
  <1>7. n \in [ids -> ids]
    BY <1>1, <1>2, <1>3, <1>4
  <1>8. ASSUME NEW h \in groups \cup {g}, NEW a \in h, NEW b \in h PROVE n[a] = n[b]
    <2>1. CASE h \in groups
      BY <1>1, <1>4, <2>1
    <2>2. CASE h = g
      BY <1>4, <1>5, <2>2
    <2>3. QED
      BY <2>1, <2>2
  <1>9. ASSUME NEW x \in ids, NEW y \in ids, n[x] = n[y]
        PROVE  JoinedBy(ids, groups \cup {g}, x, y)
    <2> SUFFICES ASSUME NEW p \in SUBSET ids, y \in p,
                        \A h \in groups \cup {g} : h \cap p # {} => h \subseteq p
                 PROVE  x \in p
      BY DEF JoinedBy
    <2>1. \A a, b \in ids : u[a] = u[b] /\ b \in p => a \in p
      BY <1>1 DEF JoinedBy
    <2>2. CASE u[x] = u[y]
      BY <2>1, <2>2
    <2>3. CASE u[x] \in reps /\ u[y] \in reps
      <3>1. PICK a \in g, b \in g : u[x] = u[a] /\ u[y] = u[b]
        BY <1>6, <2>3
      <3>2. b \in p
        BY <2>1, <3>1
      <3>3. a \in p
        BY <3>1, <3>2
      <3>4. QED
        BY <2>1, <3>1, <3>3
    <2>4. QED
      BY <1>3, <1>4, <1>9, <2>2, <2>3
  <1>10. QED
    BY <1>7, <1>8, <1>9 DEF Classes, n

(* The fold of the unions joins what the groups join.                       *)
LEMMA FoldClasses ==
    ASSUME NEW ids \in SUBSET Nat, NEW groups \in SUBSET SUBSET ids, IsFiniteSet(groups),
           {} \notin groups
    PROVE  Classes(FoldSet(union, [t \in ids |-> t], groups), ids, groups)
  <1> DEFINE base == [t \in ids |-> t]
  <1>1. PICK f : Recursion(f, base, groups) /\ FoldSet(union, base, groups) = f[groups]
    BY FoldUnfolds
  <1>2. Classes(base, ids, {})
    <2>1. ASSUME NEW x \in ids PROVE JoinedBy(ids, {}, x, x)
      BY DEF JoinedBy
    <2>2. QED
      BY <2>1 DEF Classes
  <1> HIDE DEF base
  <1>3. \A s \in SUBSET groups : f[s] = IF s = {} THEN base ELSE union(Taken(s), f[s \ {Taken(s)}])
    BY <1>1 DEF Recursion
  <1>4. ASSUME NEW s \in SUBSET groups
        PROVE  Cardinality(s) \in Nat /\ IsFiniteSet(s) /\ (Cardinality(s) = 0 <=> s = {})
    BY FS_Subset, FS_CardinalityType, FS_EmptySet
  <1> DEFINE Good == { n \in Nat : \A s \in SUBSET groups :
                                     Cardinality(s) = n => Classes(f[s], ids, s) }
  <1>5. 0 \in Good
    BY <1>2, <1>3, <1>4
  <1>6. ASSUME NEW n \in Nat, n \in Good PROVE n + 1 \in Good
    <2> SUFFICES ASSUME NEW s \in SUBSET groups, Cardinality(s) = n + 1
                 PROVE  Classes(f[s], ids, s)
      OBVIOUS
    <2> DEFINE g == Taken(s)
               r == s \ {g}
    <2>1. s # {}
      BY <1>4
    <2>2. g \in s
      BY <2>1 DEF Taken
    <2>3. r \in SUBSET groups /\ Cardinality(r) = n
      BY <1>4, <2>2, FS_RemoveElement
    <2>4. f[s] = union(g, f[r])
      BY <1>3, <2>1
    <2> HIDE DEF g
    <2>5. Classes(f[r], ids, r)
      BY <1>6, <2>3
    <2>6. Classes(union(g, f[r]), ids, r \cup {g})
      BY <2>2, <2>3, <2>5, UnionStep
    <2>7. r \cup {g} = s
      BY <2>2
    <2>8. QED
      BY <2>4, <2>6, <2>7
  <1>7. Nat \subseteq Good
    <2> HIDE DEF Good
    <2>1. QED
      BY <1>5, <1>6, SetInduction
  <1>8. Classes(f[groups], ids, groups)
    BY <1>4, <1>7
  <1>9. QED
    BY <1>1, <1>8 DEF base

-----------------------------------------------------------------------------
(* Labels: how many leaders are less than one's own. *)

\* The label of leader r among the leaders.
Label(leaders, r) == Cardinality({ q \in leaders : q < r })

(* Labels are below the number of leaders and grow with the leaders.        *)
LEMMA LabelsGrow ==
    ASSUME NEW leaders \in SUBSET Nat, IsFiniteSet(leaders)
    PROVE  /\ \A r \in leaders : Label(leaders, r) \in Nat /\ Label(leaders, r) < Cardinality(leaders)
           /\ \A q, r \in leaders : q < r => Label(leaders, q) < Label(leaders, r)
  <1> DEFINE Below(r) == { q \in leaders : q < r }
  <1>1. ASSUME NEW r \in leaders
        PROVE  /\ Below(r) \in SUBSET leaders /\ IsFiniteSet(Below(r))
               /\ Cardinality(Below(r)) \in Nat /\ Label(leaders, r) = Cardinality(Below(r))
    BY FS_Subset, FS_CardinalityType DEF Label
  <1>2. ASSUME NEW r \in leaders PROVE Cardinality(Below(r)) < Cardinality(leaders)
    <2>1. Below(r) # leaders
      BY <1>2
    <2>2. Below(r) \in SUBSET leaders /\ Cardinality(leaders) \in Nat
      BY FS_CardinalityType
    <2> HIDE DEF Below
    <2>3. QED
      BY <1>1, <2>1, <2>2, FS_Subset
  <1>3. ASSUME NEW q \in leaders, NEW r \in leaders, q < r
        PROVE  Cardinality(Below(q)) < Cardinality(Below(r))
    <2>1. Below(q) \in SUBSET Below(r)
      <3>1. \A x \in leaders : x < q => x < r
        BY <1>3
      <3>2. QED
        BY <3>1
    <2>2. q \in Below(r) /\ q \notin Below(q)
      BY <1>3
    <2> HIDE DEF Below
    <2>3. QED
      BY <1>1, <2>1, <2>2, FS_Subset
  <1> HIDE DEF Below
  <1>4. QED
    BY <1>1, <1>2, <1>3

(* The labels of the leaders have no gap.                                   *)
LEMMA LabelsDense ==
    ASSUME NEW leaders \in SUBSET Nat, IsFiniteSet(leaders)
    PROVE  \A r \in leaders : \A n \in 0 .. Label(leaders, r) :
             \E q \in leaders : Label(leaders, q) = n
  <1> DEFINE Found1(k) == \A r \in leaders : Label(leaders, r) = k =>
                            \A n \in 0 .. k : \E q \in leaders : Label(leaders, q) = n
             Good == { k \in Nat : Found1(k) }
  <1>1. 0 \in Good
    BY DEF Good
  <1>2. ASSUME NEW k \in Nat, k \in Good PROVE k + 1 \in Good
    <2> SUFFICES ASSUME NEW r \in leaders, Label(leaders, r) = k + 1,
                        NEW n \in 0 .. k + 1
                 PROVE  \E q \in leaders : Label(leaders, q) = n
      OBVIOUS
    <2> DEFINE B == { q \in leaders : q < r }
    <2>1. B \in SUBSET Nat /\ B \in SUBSET leaders /\ IsFiniteSet(B) /\ Cardinality(B) = k + 1
      BY FS_Subset DEF Label
    <2>2. B # {}
      BY <2>1, FS_EmptySet
    <2>3. PICK m \in B : \A i \in B : i <= m
      <3>1. r \in Nat /\ \A i \in B : i <= r
        BY <2>1
      <3> HIDE DEF B
      <3>2. QED
        BY <2>1, <2>2, <3>1, GreatestExists
    <2>4. { q \in leaders : q < m } = B \ {m}
      <3>1. \A q \in leaders : q < m <=> q < r /\ q # m
        BY <2>3
      <3>2. QED
        BY <3>1
    <2>5. Label(leaders, m) = k
      <3>1. Cardinality(B \ {m}) = Cardinality(B) - 1
        <4> HIDE DEF B
        <4>1. QED
          BY <2>1, <2>3, FS_RemoveElement
      <3>2. QED
        BY <2>1, <2>4, <3>1 DEF Label
    <2>6. \A j \in 0 .. k : \E q \in leaders : Label(leaders, q) = j
      BY <1>2, <2>1, <2>3, <2>5
    <2>7. n = k + 1 \/ n \in 0 .. k
      OBVIOUS
    <2>8. QED
      BY <2>6, <2>7
  <1>3. Nat \subseteq Good
    <2> HIDE DEF Good
    <2>1. QED
      BY <1>1, <1>2, SetInduction
  <1>4. \A r \in leaders : Label(leaders, r) \in Nat
    BY LabelsGrow
  <1>5. QED
    BY <1>3, <1>4

\* labelling numbers the ids: one number for joined ids, and no gap.
Numbers(labelling, ids, groups) ==
    /\ DOMAIN labelling = ids /\ ids \subseteq TempIds
    /\ \A t \in ids : labelling[t] \in Nat /\ labelling[t] < Cardinality(TempIds)
    /\ \A s, t \in ids : labelling[s] = labelling[t] <=> JoinedBy(ids, groups, s, t)
    /\ \A t \in ids : \A n \in 0 .. labelling[t] : \E s \in ids : labelling[s] = n

(* The groups that share an [a v] are of tempids that are allocated.        *)
LEMMA Groups ==
    ASSUME NEW terms
    PROVE  /\ AllocatedTemps(terms) \subseteq TempIds
           /\ tempid_avs(terms) \in SUBSET SUBSET AllocatedTemps(terms)
           /\ {} \notin tempid_avs(terms)
           /\ IsFiniteSet(tempid_avs(terms)) /\ IsFiniteSet(AllocatedTemps(terms))
  <1>1. AllocatedTemps(terms) \subseteq TempIds
    BY DEF AllocatedTemps, Temps, IsTemp
  <1> DEFINE upsert == { t \in terms : IsUpsert(t) }
             Group(t) == { u.e : u \in { s \in upsert : s.a = t.a /\ s.v = t.v } }
  <1>2. tempid_avs(terms) = { Group(t) : t \in upsert }
    BY DEF tempid_avs
  <1>3. ASSUME NEW t \in upsert PROVE Group(t) \subseteq AllocatedTemps(terms)
    <2>1. ASSUME NEW u \in upsert PROVE u.e \in AllocatedTemps(terms)
      <3>1. u \in terms /\ u.op = "Add" /\ u.e \in Temps(u)
        BY DEF IsUpsert, Temps
      <3>2. QED
        BY <3>1 DEF AllocatedTemps
    <2>2. QED
      BY <2>1
  <1>4. ASSUME NEW t \in upsert PROVE Group(t) # {}
    <2>1. t.e \in Group(t)
      OBVIOUS
    <2>2. QED
      BY <2>1
  <1>5. tempid_avs(terms) \in SUBSET SUBSET AllocatedTemps(terms) /\ {} \notin tempid_avs(terms)
    <2> HIDE DEF Group, upsert
    <2>1. QED
      BY <1>2, <1>3, <1>4
  <1>6. IsFiniteSet(AllocatedTemps(terms))
    BY <1>1, UpsertAssumption, FS_Subset
  <1>7. IsFiniteSet(SUBSET AllocatedTemps(terms))
    BY <1>6, FS_SUBSET
  <1>8. IsFiniteSet(tempid_avs(terms))
    BY <1>5, <1>7, FS_Subset
  <1>9. QED
    BY <1>1, <1>5, <1>6, <1>8

(* temp_ids_in_allocations numbers the tempids to allocate.                 *)
LEMMA Allocation ==
    ASSUME NEW terms
    PROVE  Numbers(temp_ids_in_allocations(terms), AllocatedTemps(terms), tempid_avs(terms))
  <1> DEFINE ids == AllocatedTemps(terms)
             groups == tempid_avs(terms)
             uf == FoldSet(union, [t \in ids |-> t], groups)
             leaders == Range(uf)
             L == temp_ids_in_allocations(terms)
  <1>0. TempIds \subseteq Nat /\ IsFiniteSet(TempIds)
    BY UpsertAssumption
  <1>1. /\ ids \in SUBSET Nat /\ groups \in SUBSET SUBSET ids /\ {} \notin groups
        /\ IsFiniteSet(groups) /\ IsFiniteSet(ids) /\ ids \subseteq TempIds
    BY <1>0, Groups
  <1>2. L = [t \in ids |-> Cardinality({ r \in leaders : r < uf[t] })]
    BY DEF temp_ids_in_allocations
  <1> HIDE DEF ids, groups, L
  <1>3. Classes(uf, ids, groups)
    BY <1>1, FoldClasses
  <1> HIDE DEF uf
  <1>4. leaders \in SUBSET ids /\ \A t \in ids : uf[t] \in leaders
    BY <1>3 DEF Classes, Range
  <1>5. \A r \in leaders : \E t \in ids : r = uf[t]
    BY <1>3 DEF Classes, Range
  <1> HIDE DEF leaders
  <1>6. L = [t \in ids |-> Label(leaders, uf[t])]
    BY <1>2 DEF Label
  <1>7. leaders \in SUBSET Nat /\ IsFiniteSet(leaders) /\ Cardinality(leaders) <= Cardinality(TempIds)
    <2>1. leaders \in SUBSET TempIds
      BY <1>1, <1>4
    <2>2. QED
      BY <1>0, <2>1, FS_Subset
  <1>8. Cardinality(leaders) \in Nat /\ Cardinality(TempIds) \in Nat
    BY <1>0, <1>7, FS_CardinalityType
  <1>9. /\ \A r \in leaders : Label(leaders, r) \in Nat /\ Label(leaders, r) < Cardinality(leaders)
        /\ \A q, r \in leaders : q < r => Label(leaders, q) < Label(leaders, r)
    BY <1>7, LabelsGrow
  <1>10. ASSUME NEW t \in ids PROVE L[t] \in Nat /\ L[t] < Cardinality(TempIds)
    <2>1. L[t] = Label(leaders, uf[t]) /\ uf[t] \in leaders
      BY <1>4, <1>6
    <2>2. L[t] \in Nat /\ L[t] < Cardinality(leaders)
      BY <1>9, <2>1
    <2>3. QED
      BY <1>7, <1>8, <2>2
  <1>11. \A s, t \in ids : L[s] = L[t] <=> uf[s] = uf[t]
    <2>1. ASSUME NEW s \in ids, NEW t \in ids, L[s] = L[t] PROVE uf[s] = uf[t]
      <3>1. uf[s] \in leaders /\ uf[t] \in leaders /\ Label(leaders, uf[s]) = Label(leaders, uf[t])
        BY <1>4, <1>6, <2>1
      <3>2. \A q, r \in Nat : q < r \/ q = r \/ r < q
        OBVIOUS
      <3>3. \A q, r \in leaders : q # r => Label(leaders, q) # Label(leaders, r)
        BY <1>7, <1>9, <3>2
      <3>4. QED
        BY <3>1, <3>3
    <2>2. ASSUME NEW s \in ids, NEW t \in ids, uf[s] = uf[t] PROVE L[s] = L[t]
      BY <1>6, <2>2
    <2>3. QED
      BY <2>1, <2>2
  <1>12. \A s, t \in ids : uf[s] = uf[t] <=> JoinedBy(ids, groups, s, t)
    <2>1. ASSUME NEW s \in ids, NEW t \in ids, JoinedBy(ids, groups, s, t) PROVE uf[s] = uf[t]
      <3> DEFINE p == { z \in ids : uf[z] = uf[t] }
      <3>1. p \in SUBSET ids /\ t \in p
        OBVIOUS
      <3>2. ASSUME NEW g \in groups, g \cap p # {} PROVE g \subseteq p
        <4>1. \A a, b \in g : uf[a] = uf[b]
          BY <1>3 DEF Classes
        <4>2. g \subseteq ids
          BY <1>1
        <4>3. QED
          BY <3>2, <4>1, <4>2
      <3>3. s \in p
        <4> HIDE DEF p
        <4>1. QED
          BY <2>1, <3>1, <3>2 DEF JoinedBy
      <3>4. QED
        BY <3>3
    <2>2. QED
      BY <1>3, <2>1 DEF Classes
  <1>13. ASSUME NEW t \in ids, NEW n \in 0 .. L[t] PROVE \E s \in ids : L[s] = n
    <2>1. uf[t] \in leaders /\ L[t] = Label(leaders, uf[t])
      BY <1>4, <1>6
    <2>2. PICK q \in leaders : Label(leaders, q) = n
      BY <1>7, <2>1, LabelsDense
    <2>3. PICK s \in ids : q = uf[s]
      BY <1>5
    <2>4. QED
      BY <1>6, <2>2, <2>3
  <1>14. DOMAIN L = ids
    BY <1>6
  <1>15. Numbers(L, ids, groups)
    BY <1>1, <1>10, <1>11, <1>12, <1>13, <1>14 DEF Numbers
  <1>16. QED
    BY <1>15 DEF L, ids, groups

-----------------------------------------------------------------------------
(* The populations. *)

\* A term with any of its tempids replaced.
Loose == [op : {"Add", "Retract"}, e : Nat, a : Attrs, v : Nat \cup Values]
Gens == [upserts_e : SUBSET Loose, upserts_ev : SUBSET Loose, allocations : SUBSET Loose,
         upserted : SUBSET Loose, resolved : SUBSET Loose]

\* The populations whose terms are still to end in the final ones.
Live(g) == g.upserts_e \cup g.upserts_ev \cup g.allocations \cup g.resolved

\* f is the term t with tempids replaced as the pairs say.
InstanceOf(t, f, pairs) ==
    /\ t.op = f.op /\ t.a = f.a
    /\ t.e = f.e \/ <<t.e, f.e>> \in pairs
    /\ t.v = f.v \/ <<t.v, f.v>> \in pairs

\* The map m replaces tempids by causetids, as the pairs say.
Mapping(m, pairs) ==
    /\ DOMAIN m \subseteq TempIds
    /\ \A x \in DOMAIN m : m[x] \in Nat \ TempIds /\ <<x, m[x]>> \in pairs

Pairs == TempIds \X (Nat \ TempIds)

\* The populations of a generation, as TypeOK has them.
PopulationsOK(g) ==
    /\ \A t \in g.upserts_e \cup g.upserts_ev : t.op = "Add" /\ t.a \in Idcauset /\ IsTemp(t.e)
    /\ \A t \in g.upserts_e : ~IsTemp(t.v)
    /\ \A t \in g.upserts_ev : IsTemp(t.v)
    /\ \A t \in g.allocations : Temps(t) # {}
    /\ \A t \in g.upserted \cup g.resolved : Temps(t) = {}

\* The pairs have a causetid for x.
Knows(pairs, x) == \E y : <<x, y>> \in pairs

\* What one generation makes of term t when it resolves the tempids in D: of these
\* only the entity of a complex upsert is left.
Image(t, f, D, pairs) ==
    InstanceOf(t, f, pairs) /\ (f.e \in D => Waits(t)) /\ f.v \notin D

\* What the generations so far, which found the pairs, have made of input term i.
Follows(i, f, pairs) ==
    InstanceOf(i, f, pairs) /\ (Knows(pairs, f.e) => Waits(i)) /\ ~Knows(pairs, f.v)

\* f is t rewritten by m.
Rewritten(f, t, m) ==
    /\ f \in Loose /\ f.op = t.op /\ f.a = t.a
    /\ f.e = IF t.e \in DOMAIN m THEN m[t.e] ELSE t.e
    /\ f.v = IF t.v \in DOMAIN m THEN m[t.v] ELSE t.v

(* What Rewrite and the replacement of a value do.                          *)
LEMMA RewriteShape ==
    ASSUME NEW pairs, NEW m, Mapping(m, pairs), NEW t \in Loose
    PROVE  /\ Rewritten(Rewrite(m, t), t, m)
           /\ t.v \in DOMAIN m =>
                LET f == [t EXCEPT !.v = m[@]]
                IN  f \in Loose /\ f.op = t.op /\ f.a = t.a /\ f.e = t.e /\ f.v = m[t.v]
  BY DEF Mapping, Rewrite, Rewritten, Loose

(* A rewritten term is an instance, and its tempids are those that the map  *)
(* does not know.                                                           *)
LEMMA RewriteInstance ==
    ASSUME NEW pairs, NEW m, Mapping(m, pairs), NEW t, NEW f, Rewritten(f, t, m)
    PROVE  /\ Image(t, f, DOMAIN m, pairs)
           /\ Temps(f) = Temps(t) \ DOMAIN m
  <1>1. Image(t, f, DOMAIN m, pairs)
    BY DEF Rewritten, Mapping, InstanceOf, Image
  <1>2. \A x : x \in {f.e, f.v} /\ IsTemp(x) <=> x \in {t.e, t.v} /\ IsTemp(x) /\ x \notin DOMAIN m
    BY DEF Rewritten, Mapping, IsTemp
  <1>3. QED
    BY <1>1, <1>2 DEF Temps

(* Replacing tempids twice is replacing them once: a causetid is no tempid. *)
LEMMA Composed ==
    ASSUME NEW P \in SUBSET Pairs, NEW Q \in SUBSET Pairs, P \subseteq Q,
           NEW i, NEW t, NEW f, InstanceOf(i, t, P), InstanceOf(t, f, Q)
    PROVE  InstanceOf(i, f, Q)
  <1>1. \A x, y, z : <<x, y>> \in P => ~(<<y, z>> \in Q)
    BY DEF Pairs
  <1>2. QED
    BY <1>1 DEF InstanceOf

(* One more generation follows the input too.                               *)
LEMMA FollowsOn ==
    ASSUME NEW P \in SUBSET Pairs, NEW Q \in SUBSET Pairs, P \subseteq Q, NEW D,
           \A x : Knows(Q, x) => Knows(P, x) \/ x \in D,
           NEW i, NEW t, NEW f, Follows(i, t, P), Image(t, f, D, Q)
    PROVE  Follows(i, f, Q)
  <1>1. /\ \A x, y : <<x, y>> \in P => y \notin TempIds
        /\ \A x, y : <<x, y>> \in Q => y \notin TempIds
        /\ \A x : Knows(Q, x) => x \in TempIds
    BY DEF Pairs, Knows
  <1>2. InstanceOf(i, t, P) /\ InstanceOf(t, f, Q)
    BY DEF Follows, Image
  <1>3. InstanceOf(i, f, Q)
    BY <1>2, Composed
  <1>4. ASSUME Knows(Q, f.e) PROVE Waits(i)
    <2>1. CASE f.e \in D
      <3>1. Waits(t)
        BY <2>1 DEF Image
      <3>2. i.e = t.e /\ i.v = t.v /\ i.op = t.op /\ i.a = t.a
        BY <1>1, <1>2, <3>1 DEF Waits, IsUpsert, IsTemp, InstanceOf
      <3>3. QED
        BY <3>1, <3>2 DEF Waits, IsUpsert
    <2>2. CASE Knows(P, f.e)
      <3>1. t.e = f.e
        BY <1>1, <1>2, <1>4 DEF InstanceOf
      <3>2. QED
        BY <2>2, <3>1 DEF Follows
    <2>3. QED
      BY <1>4, <2>1, <2>2
  <1>5. ASSUME Knows(Q, f.v) PROVE FALSE
    <2>1. Knows(P, f.v) /\ f.v \in TempIds
      BY <1>1, <1>5 DEF Image
    <2>2. t.v = f.v
      BY <1>1, <1>2, <2>1 DEF InstanceOf
    <2>3. QED
      BY <2>1, <2>2 DEF Follows
  <1>6. QED
    BY <1>3, <1>4, <1>5 DEF Follows

(* One generation carries every term on and makes none up.                  *)
LEMMA EvolveShape ==
    ASSUME NEW g \in Gens, PopulationsOK(g), NEW pairs, NEW m, Mapping(m, pairs),
           NEW n, n = evolve_one_step(g, m)
    PROVE  /\ n \in Gens /\ PopulationsOK(n)
           /\ \A t \in Live(g) :
                \/ \E f \in Live(n) : Image(t, f, DOMAIN m, pairs)
                \/ /\ t \in g.upserts_e /\ t.e \in DOMAIN m
                   /\ \E f \in n.upserted : Image(t, f, DOMAIN m, pairs)
           /\ \A f \in Live(n) \cup n.upserted :
                \E t \in Live(g) : Image(t, f, DOMAIN m, pairs)
  <1> DEFINE moved == { Rewrite(m, t) : t \in g.allocations }
             refs == { t \in g.upserts_ev : t.v \in DOMAIN m }
             simple == { Rewrite(m, t) : t \in { u \in g.upserts_e : u.e \in DOMAIN m } }
             shift == { [t EXCEPT !.v = m[@]] : t \in refs }
             rest == { t \in g.upserts_e : t.e \notin DOMAIN m }
             complex == { Rewrite(m, t) : t \in g.upserts_ev \ refs }
  <1>0. /\ g.upserts_e \subseteq Loose /\ g.upserts_ev \subseteq Loose
        /\ g.allocations \subseteq Loose /\ g.resolved \subseteq Loose
    BY DEF Gens
  <1>1. /\ \A f \in moved : \E t \in g.allocations : f = Rewrite(m, t)
        /\ \A t \in g.allocations : Rewrite(m, t) \in moved
    OBVIOUS
  <1>2. /\ \A f \in simple : \E t \in g.upserts_e : t.e \in DOMAIN m /\ f = Rewrite(m, t)
        /\ \A t \in g.upserts_e : t.e \in DOMAIN m => Rewrite(m, t) \in simple
    OBVIOUS
  <1>3. /\ \A f \in shift : \E t \in refs : f = [t EXCEPT !.v = m[@]]
        /\ \A t \in refs : [t EXCEPT !.v = m[@]] \in shift
    OBVIOUS
  <1>4. /\ \A f \in complex : \E t \in g.upserts_ev \ refs : f = Rewrite(m, t)
        /\ \A t \in g.upserts_ev \ refs : Rewrite(m, t) \in complex
    OBVIOUS
  <1>5. n = [upserted |-> simple, upserts_e |-> shift, upserts_ev |-> {},
             resolved |-> g.resolved \cup { t \in moved : Temps(t) = {} },
             allocations |-> rest \cup complex \cup { t \in moved : Temps(t) # {} }]
    BY DEF evolve_one_step
  <1> HIDE DEF moved, simple, shift, complex
  <1>6. /\ n.upserted = simple /\ n.upserts_e = shift /\ n.upserts_ev = {}
        /\ n.resolved = g.resolved \cup { t \in moved : Temps(t) = {} }
        /\ n.allocations = rest \cup complex \cup { t \in moved : Temps(t) # {} }
    BY <1>5
  <1>7. \A t \in Loose : Rewritten(Rewrite(m, t), t, m)
    BY RewriteShape
  <1>8. \A t \in Loose : \A f : Rewritten(f, t, m) =>
          f \in Loose /\ Image(t, f, DOMAIN m, pairs) /\ Temps(f) = Temps(t) \ DOMAIN m
    BY RewriteInstance DEF Rewritten
  <1>9. \A t \in Loose : /\ Rewrite(m, t) \in Loose /\ Image(t, Rewrite(m, t), DOMAIN m, pairs)
                         /\ Temps(Rewrite(m, t)) = Temps(t) \ DOMAIN m
    BY <1>7, <1>8
  <1>10. ASSUME NEW t \in refs
         PROVE  LET f == [t EXCEPT !.v = m[@]]
                IN  /\ f \in Loose /\ Image(t, f, DOMAIN m, pairs)
                    /\ f.op = t.op /\ f.a = t.a /\ f.e = t.e /\ ~IsTemp(f.v)
    <2> DEFINE f == [t EXCEPT !.v = m[@]]
    <2>1. f \in Loose /\ f.op = t.op /\ f.a = t.a /\ f.e = t.e /\ f.v = m[t.v]
      BY <1>0, RewriteShape
    <2> HIDE DEF f
    <2>2. m[t.v] \in Nat \ TempIds /\ <<t.v, m[t.v]>> \in pairs
      BY DEF Mapping
    <2>3. f \in Loose /\ InstanceOf(t, f, pairs) /\ ~IsTemp(f.v) /\ f.v \notin DOMAIN m
      BY <2>1, <2>2 DEF InstanceOf, IsTemp, Mapping
    <2>4. Waits(t)
      BY DEF PopulationsOK, Waits, IsUpsert, is_unique
    <2>5. Image(t, f, DOMAIN m, pairs)
      BY <2>3, <2>4 DEF Image
    <2>6. QED
      BY <2>1, <2>3, <2>5 DEF f
  <1>11. ASSUME NEW t \in g.resolved \cup rest PROVE Image(t, t, DOMAIN m, pairs)
    <2>1. t.e \notin DOMAIN m /\ t.v \notin DOMAIN m
      <3>1. CASE t \in g.resolved
        <4>1. Temps(t) = {}
          BY <3>1 DEF PopulationsOK
        <4>2. QED
          BY <4>1 DEF Temps, IsTemp, Mapping
      <3>2. CASE t \in rest
        BY <3>2 DEF PopulationsOK, IsTemp, Mapping
      <3>3. QED
        BY <3>1, <3>2
    <2>2. QED
      BY <2>1 DEF Image, InstanceOf
  <1>12. n \in Gens
    <2>1. simple \subseteq Loose /\ moved \subseteq Loose /\ complex \subseteq Loose
      BY <1>0, <1>1, <1>2, <1>4, <1>9
    <2>2. shift \subseteq Loose
      BY <1>3, <1>10
    <2>3. QED
      BY <1>0, <1>5, <2>1, <2>2 DEF Gens
  <1>13. PopulationsOK(n)
    <2>1. ASSUME NEW f \in shift PROVE f.op = "Add" /\ f.a \in Idcauset /\ IsTemp(f.e) /\ ~IsTemp(f.v)
      <3>1. PICK t \in refs : f = [t EXCEPT !.v = m[@]]
        BY <1>3
      <3>2. f.op = t.op /\ f.a = t.a /\ f.e = t.e /\ ~IsTemp(f.v)
        BY <1>10, <3>1
      <3>3. t.op = "Add" /\ t.a \in Idcauset /\ IsTemp(t.e)
        BY DEF PopulationsOK
      <3>4. QED
        BY <3>2, <3>3
    <2>2. ASSUME NEW f \in simple PROVE Temps(f) = {}
      <3>1. PICK t \in g.upserts_e : t.e \in DOMAIN m /\ f = Rewrite(m, t)
        BY <1>2
      <3>2. ~IsTemp(t.v)
        BY DEF PopulationsOK
      <3>3. Temps(f) = Temps(t) \ DOMAIN m
        BY <1>0, <1>9, <3>1
      <3>4. QED
        BY <3>1, <3>2, <3>3 DEF Temps
    <2>3. ASSUME NEW f \in complex PROVE Temps(f) # {}
      <3>1. PICK t \in g.upserts_ev \ refs : f = Rewrite(m, t)
        BY <1>4
      <3>2. IsTemp(t.v) /\ t.v \notin DOMAIN m
        BY <3>1 DEF PopulationsOK
      <3>3. Temps(f) = Temps(t) \ DOMAIN m
        BY <1>0, <1>9, <3>1
      <3>4. t.v \in Temps(f)
        BY <3>2, <3>3 DEF Temps
      <3>5. QED
        BY <3>4
    <2>4. ASSUME NEW f \in rest PROVE Temps(f) # {}
      <3>1. f.e \in Temps(f)
        BY DEF PopulationsOK, Temps
      <3>2. QED
        BY <3>1
    <2>5. \A t \in g.resolved : Temps(t) = {}
      BY DEF PopulationsOK
    <2> HIDE DEF rest
    <2>6. QED
      BY <1>6, <2>1, <2>2, <2>3, <2>4, <2>5 DEF PopulationsOK
  <1>14. ASSUME NEW t \in Live(g)
         PROVE  \/ \E f \in Live(n) : Image(t, f, DOMAIN m, pairs)
                \/ /\ t \in g.upserts_e /\ t.e \in DOMAIN m
                   /\ \E f \in n.upserted : Image(t, f, DOMAIN m, pairs)
    <2>0. t \in Loose
      BY <1>0 DEF Live
    <2>1. CASE t \in g.allocations
      <3>1. Rewrite(m, t) \in moved
        BY <1>1, <2>1
      <3>2. Rewrite(m, t) \in Live(n)
        BY <1>6, <3>1 DEF Live
      <3>3. QED
        BY <1>9, <2>0, <3>2
    <2>2. CASE t \in g.upserts_e /\ t.e \in DOMAIN m
      <3>1. Rewrite(m, t) \in n.upserted
        BY <1>2, <1>6, <2>2
      <3>2. QED
        BY <1>9, <2>0, <2>2, <3>1
    <2>3. CASE t \in g.upserts_e /\ t.e \notin DOMAIN m
      <3>1. t \in Live(n)
        BY <1>6, <2>3 DEF Live
      <3>2. QED
        BY <1>11, <2>3, <3>1
    <2>4. CASE t \in g.upserts_ev /\ t \in refs
      <3>1. [t EXCEPT !.v = m[@]] \in Live(n) /\ Image(t, [t EXCEPT !.v = m[@]], DOMAIN m, pairs)
        BY <1>3, <1>6, <1>10, <2>4 DEF Live
      <3>2. QED
        BY <3>1
    <2>5. CASE t \in g.upserts_ev /\ t \notin refs
      <3>1. Rewrite(m, t) \in Live(n)
        BY <1>4, <1>6, <2>5 DEF Live
      <3>2. QED
        BY <1>9, <2>0, <3>1
    <2>6. CASE t \in g.resolved
      <3>1. t \in Live(n)
        BY <1>6, <2>6 DEF Live
      <3>2. QED
        BY <1>11, <2>6, <3>1
    <2>7. QED
      BY <2>1, <2>2, <2>3, <2>4, <2>5, <2>6 DEF Live
  <1>15. ASSUME NEW f \in Live(n) \cup n.upserted
         PROVE  \E t \in Live(g) : Image(t, f, DOMAIN m, pairs)
    <2>1. CASE f \in simple
      BY <1>0, <1>2, <1>9, <2>1 DEF Live
    <2>2. CASE f \in shift
      <3>1. PICK t \in refs : f = [t EXCEPT !.v = m[@]]
        BY <1>3, <2>2
      <3>2. t \in Live(g) /\ Image(t, f, DOMAIN m, pairs)
        BY <1>10, <3>1 DEF Live
      <3>3. QED
        BY <3>2
    <2>3. CASE f \in moved
      BY <1>0, <1>1, <1>9, <2>3 DEF Live
    <2>4. CASE f \in complex
      BY <1>0, <1>4, <1>9, <2>4 DEF Live
    <2>5. CASE f \in g.resolved \/ f \in rest
      <3>1. f \in Live(g)
        BY <2>5 DEF Live
      <3>2. QED
        BY <1>11, <2>5, <3>1
    <2> HIDE DEF rest
    <2>6. QED
      BY <1>6, <2>1, <2>2, <2>3, <2>4, <2>5, <1>15 DEF Live
  <1>16. QED
    BY <1>12, <1>13, <1>14, <1>15

-----------------------------------------------------------------------------
(* The inductive invariant. *)

\* The tempids found in the store, with their entities.
found == { p \in tempids : p[2] \in Entities }

Shape ==
    /\ \A d \in store : d.e \in Entities
    /\ input \subseteq Loose /\ inert \subseteq Loose
    /\ gen \in Gens
    /\ tempids \in SUBSET Pairs

\* Each tempid is found as one entity.
FoundOnce == \A p, q \in found : p[1] = q[1] => p[2] = q[2]

\* Upsert i has a tempid that an upsert of the transaction found in the store.
Upserted(i, pairs) ==
    /\ IsUpsert(i)
    /\ \E j \in input, d \in store :
         IsUpsert(j) /\ j.e = i.e /\ InstanceOf(j, AsTerm(d), pairs)

\* Input term i is in a population, or was upserted and then overwritten.
Traced(i) ==
    \/ \E f \in Live(gen) \cup inert : Follows(i, f, found)
    \/ Upserted(i, found) /\ \E f \in gen.upserted \cup overwritten : InstanceOf(i, f, found)

\* No population has a term that is not of the transaction, and every term of
\* the transaction is accounted for.
Trace ==
    /\ \A f \in Live(gen) \cup gen.upserted : \E i \in input : Follows(i, f, found)
    /\ stage \in {"evolve", "allocate", "final"} => \A i \in input : Traced(i)

Phase ==
    /\ stage = "from" => tempids = {}
    /\ stage \in {"from", "evolve", "allocate"} => tempids = found
    /\ stage \in {"allocate", "final"} => gen.upserts_e = {} /\ gen.upserts_ev = {}
    /\ stage = "final" =>
         /\ labels = temp_ids_in_allocations(gen.allocations)
         /\ \A t \in DOMAIN labels : <<t, First + labels[t]>> \in tempids
         /\ \A p \in tempids : p \in found \/ (p[1] \in DOMAIN labels /\ p[2] = First + labels[p[1]])

Ind == TypeOK /\ Shape /\ FoundOnce /\ Trace /\ Phase /\ NoUnreachable /\ TermsKept

(* No invariant but TermsKept is about the end of a resolution.             *)
LEMMA NotDone == stage # "done" => TermsKept
  BY DEF TermsKept, Sound, Kept

(* A causetid of the store or of the allocation is no tempid.               *)
LEMMA NotTempids ==
    /\ \A e \in Entities : e \in Nat \ TempIds
    /\ \A n \in Nat : n < Cardinality(TempIds) => First + n \in Nat \ TempIds
  <1>1. Cardinality(TempIds) \in Nat /\ First \in Nat
    BY UpsertAssumption, FS_CardinalityType
  <1>2. \A t \in TempIds : t \in Nat /\ First + Cardinality(TempIds) < t
    BY UpsertAssumption
  <1>3. ASSUME NEW n \in Nat, n < Cardinality(TempIds) PROVE First + n \in Nat \ TempIds
    BY <1>1, <1>2, <1>3
  <1>4. \A e \in Entities : e \in Nat \ TempIds
    BY UpsertAssumption
  <1>5. QED
    BY <1>3, <1>4

(* The parts of TypeOK.                                                     *)
LEMMA TypeParts ==
    TypeOK <=> /\ stage \in Stages /\ PopulationsOK(gen)
               /\ \A t \in inert : Temps(t) = {}
               /\ \A p \in tempids : p[1] \in TempIds /\ p[2] \in Nat
               /\ \A t \in DOMAIN labels : labels[t] < Cardinality(TempIds)
  BY DEF TypeOK, PopulationsOK

(* The initial states.                                                      *)
LEMMA InitInd == Init => Ind
  <1> SUFFICES ASSUME Init PROVE Ind
    OBVIOUS
  <1>1. \A d \in store : d.e \in Entities
    <2> DEFINE pool == [e : Entities, a : Idcauset \ Refs, v : Values]
                         \cup [e : Entities, a : Idcauset \cap Refs, v : Entities]
    <2>1. store \in UpTo(MaxStore, pool)
      BY DEF Init, Stores
    <2>2. PICK n \in 0 .. MaxStore : \E f \in [1 .. n -> pool] : store = Range(f)
      BY <2>1 DEF UpTo
    <2>3. \A d \in store : d \in pool
      BY <2>2, Zenon DEF Range
    <2>4. QED
      BY <2>3
  <1>2. input \subseteq Loose
    <2>1. input \subseteq Term
      BY InputsAssumption DEF Init
    <2>2. Term \subseteq Loose
      BY UpsertAssumption DEF Term, Loose
    <2>3. QED
      BY <2>1, <2>2
  <1>3. /\ gen.upserts_e = {} /\ gen.upserts_ev = {} /\ gen.allocations = {}
        /\ gen.upserted = {} /\ gen.resolved = {} /\ gen \in Gens
    BY DEF Init, Generation, Gens
  <1>4. Shape
    BY <1>1, <1>2, <1>3 DEF Init, Shape
  <1>5. inert = {} /\ tempids = {} /\ found = {} /\ DOMAIN labels = {} /\ stage = "from"
    BY DEF Init, found
  <1>6. TypeOK
    BY <1>3, <1>5 DEF TypeOK, Stages
  <1>7. Trace
    BY <1>3, <1>5 DEF Trace, Live
  <1>8. Phase /\ NoUnreachable /\ TermsKept /\ FoundOnce
    BY <1>5, NotDone DEF Phase, NoUnreachable, FoundOnce
  <1>9. QED
    BY <1>4, <1>6, <1>7, <1>8 DEF Ind

(* from sorts every term into the population of its kind.                   *)
LEMMA FromStep == Ind /\ from => Ind'
  <1> SUFFICES ASSUME Ind, from PROVE Ind'
    OBVIOUS
  <1>0. TypeOK /\ Shape /\ FoundOnce /\ Phase
    BY DEF Ind
  <1>1. /\ gen'.upserts_ev = { t \in input : IsUpsert(t) /\ IsTemp(t.v) }
        /\ gen'.upserts_e = { t \in input : IsUpsert(t) /\ ~IsTemp(t.v) }
        /\ gen'.allocations = { t \in input : ~IsUpsert(t) /\ Temps(t) # {} }
        /\ gen'.upserted = {} /\ gen'.resolved = {}
        /\ gen' = [upserts_e |-> gen'.upserts_e, upserts_ev |-> gen'.upserts_ev,
                   allocations |-> gen'.allocations, upserted |-> {}, resolved |-> {}]
        /\ inert' = { t \in input : Temps(t) = {} }
        /\ stage = "from" /\ stage' = "evolve"
        /\ UNCHANGED <<store, input, labels, tempids, overwritten>>
    BY DEF from, Generation
  <1>2. input \subseteq Loose
    BY <1>0 DEF Shape
  <1>3. gen' \in Gens
    BY <1>1, <1>2 DEF Gens
  <1>4. Shape'
    BY <1>0, <1>1, <1>3 DEF Shape
  <1>5. PopulationsOK(gen')
    BY <1>1 DEF PopulationsOK, IsUpsert, is_unique
  <1>6. TypeOK'
    <2>1. /\ stage' \in Stages /\ \A t \in inert' : Temps(t) = {}
          /\ \A p \in tempids' : p[1] \in TempIds /\ p[2] \in Nat
          /\ \A t \in DOMAIN labels' : labels'[t] < Cardinality(TempIds)
      BY <1>0, <1>1 DEF TypeOK, Stages
    <2>2. QED
      BY <1>5, <2>1 DEF TypeOK, PopulationsOK
  <1>7. Trace'
    <2>1. \A t \in input : t \in Live(gen') \cup inert'
      BY <1>1 DEF Live, IsUpsert, IsTemp, Temps
    <2>2. \A f \in Live(gen') \cup gen'.upserted : f \in input
      BY <1>1 DEF Live
    <2>3. found' = found
      BY <1>1 DEF found
    <2>4. found = {}
      BY <1>0, <1>1 DEF Phase, found
    <2>5. \A t : Follows(t, t, found')
      BY <2>3, <2>4 DEF Follows, InstanceOf, Knows
    <2>6. \A i \in input' : Traced(i)'
      BY <1>1, <2>1, <2>5 DEF Traced
    <2>7. QED
      BY <1>1, <2>2, <2>5, <2>6 DEF Trace
  <1>8. Phase' /\ NoUnreachable' /\ TermsKept' /\ FoundOnce'
    <2>1. found' = found /\ tempids = found
      BY <1>0, <1>1 DEF found, Phase
    <2>2. stage' = "evolve" /\ UNCHANGED <<tempids, labels>>
      BY <1>1
    <2>3. Phase' /\ NoUnreachable' /\ FoundOnce'
      BY <1>0, <2>1, <2>2 DEF Phase, NoUnreachable, FoundOnce
    <2>4. TermsKept'
      BY <2>2 DEF TermsKept, Sound, Kept
    <2>5. QED
      BY <2>3, <2>4
  <1>9. QED
    BY <1>4, <1>6, <1>7, <1>8 DEF Ind

(* One turn of the loop.                                                    *)
LEMMA EvolveStep == Ind /\ evolve => Ind'
  <1> SUFFICES ASSUME Ind, evolve PROVE Ind'
    OBVIOUS
  <1> DEFINE m == [t \in { u \in TempIds : Found(gen, u) # {} } |->
                     CHOOSE e \in Found(gen, t) : TRUE]
             known == tempids \cup UNION { {t} \X Found(gen, t) : t \in TempIds }
  <1>0. TypeOK /\ Shape /\ FoundOnce /\ Trace /\ Phase /\ NoUnreachable /\ TermsKept
    BY DEF Ind
  <1>1. /\ stage = "evolve" /\ UNCHANGED <<store, input, inert, labels, final>>
        /\ \/ stage' \in {"conflict", "unmatched"} /\ UNCHANGED <<gen, tempids, overwritten>>
           \/ /\ \A p, q \in known : p[1] = q[1] => p[2] = q[2]
              /\ gen' = evolve_one_step(gen, m) /\ overwritten' = overwritten \cup gen.upserted
              /\ tempids' = known /\ UNCHANGED stage
    BY DEF evolve
  <1>2. /\ DOMAIN m = { u \in TempIds : Found(gen, u) # {} }
        /\ \A t \in DOMAIN m : m[t] \in Found(gen, t)
    OBVIOUS
  <1>3. /\ tempids \subseteq known
        /\ \A t \in TempIds : \A e \in Found(gen, t) : <<t, e>> \in known
        /\ \A p \in known : p \in tempids \/ \E t \in TempIds : p \in {t} \X Found(gen, t)
    OBVIOUS
  <1>4. \A t : Found(gen, t) \subseteq Entities
    BY <1>0 DEF Found, Shape
  <1> HIDE DEF m, known
  <1>5. known \in SUBSET Pairs /\ \A p \in known : p[2] \in Entities
    <2>1. \A t \in TempIds : \A p \in {t} \X Found(gen, t) : p \in Pairs /\ p[2] \in Entities
      BY <1>4, NotTempids DEF Pairs
    <2>2. tempids \in SUBSET Pairs /\ \A p \in tempids : p[2] \in Entities
      BY <1>0, <1>1 DEF Shape, Phase, found
    <2>3. QED
      BY <1>3, <2>1, <2>2
  <1>6. Mapping(m, known)
    BY <1>2, <1>3, <1>4, NotTempids DEF Mapping
  <1>7. CASE stage' \in {"conflict", "unmatched"} /\ UNCHANGED <<gen, tempids, overwritten>>
    <2>1. TypeOK'
      BY <1>0, <1>1, <1>7 DEF TypeOK, Stages
    <2>2. found' = found
      BY <1>7 DEF found
    <2>3. Shape' /\ FoundOnce' /\ Trace'
      BY <1>0, <1>1, <1>7, <2>2 DEF Shape, FoundOnce, Trace
    <2>4. Phase' /\ NoUnreachable' /\ TermsKept'
      BY <1>7 DEF Phase, NoUnreachable, TermsKept, Sound, Kept
    <2>5. QED
      BY <2>1, <2>3, <2>4 DEF Ind
  <1>8. CASE /\ \A p, q \in known : p[1] = q[1] => p[2] = q[2]
             /\ gen' = evolve_one_step(gen, m) /\ overwritten' = overwritten \cup gen.upserted
             /\ tempids' = known /\ UNCHANGED stage
    <2>0. gen \in Gens /\ PopulationsOK(gen)
      BY <1>0, TypeParts DEF Shape
    <2>1. /\ gen' \in Gens /\ PopulationsOK(gen')
          /\ \A t \in Live(gen) :
               \/ \E f \in Live(gen') : Image(t, f, DOMAIN m, known)
               \/ /\ t \in gen.upserts_e /\ t.e \in DOMAIN m
                  /\ \E f \in gen'.upserted : Image(t, f, DOMAIN m, known)
          /\ \A f \in Live(gen') \cup gen'.upserted :
               \E t \in Live(gen) : Image(t, f, DOMAIN m, known)
      BY <1>6, <1>8, <2>0, EvolveShape
    <2>2. found' = known /\ found = tempids /\ tempids \in SUBSET Pairs
      <3>1. found' = { p \in known : p[2] \in Entities }
        BY <1>8 DEF found
      <3>2. QED
        BY <1>0, <1>1, <1>5, <3>1 DEF Phase, Shape
    <2>3. Shape'
      BY <1>0, <1>1, <1>5, <1>8, <2>1 DEF Shape
    <2>4. FoundOnce'
      BY <1>8, <2>2 DEF FoundOnce
    <2>5. TypeOK'
      <3>1. /\ stage' \in Stages /\ \A t \in inert' : Temps(t) = {}
            /\ \A t \in DOMAIN labels' : labels'[t] < Cardinality(TempIds)
        BY <1>0, <1>1, <1>8 DEF TypeOK
      <3>2. \A p \in tempids' : p[1] \in TempIds /\ p[2] \in Nat
        BY <1>5, <1>8 DEF Pairs
      <3>3. QED
        BY <2>1, <3>1, <3>2 DEF TypeOK, PopulationsOK
    <2>6. \A x : Knows(known, x) => Knows(tempids, x) \/ x \in DOMAIN m
      <3>1. ASSUME NEW x, NEW y, <<x, y>> \in known PROVE <<x, y>> \in tempids \/ x \in DOMAIN m
        <4>1. CASE \E t \in TempIds : <<x, y>> \in {t} \X Found(gen, t)
          BY <1>2, <4>1
        <4>2. QED
          BY <1>3, <3>1, <4>1
      <3>2. QED
        BY <3>1 DEF Knows
    <2>7. \A i, t, f : Follows(i, t, tempids) /\ Image(t, f, DOMAIN m, known) => Follows(i, f, known)
      BY <1>3, <1>5, <2>2, <2>6, FollowsOn
    <2>8. \A f \in Live(gen') \cup gen'.upserted : \E i \in input : Follows(i, f, known)
      <3>1. \A t \in Live(gen) : \E i \in input : Follows(i, t, tempids)
        BY <1>0, <2>2 DEF Trace
      <3>2. QED
        BY <2>1, <2>7, <3>1
    <2>9. \A t, f : InstanceOf(t, f, tempids) => InstanceOf(t, f, known)
      BY <1>3 DEF InstanceOf
    <2>10. ASSUME NEW i \in input
           PROVE  \/ \E f \in Live(gen') \cup inert : Follows(i, f, known)
                  \/ /\ Upserted(i, known)
                     /\ \E f \in gen'.upserted \cup (overwritten \cup gen.upserted) : InstanceOf(i, f, known)
      <3>1. CASE \E t \in Live(gen) : Follows(i, t, tempids)
        <4>1. PICK t \in Live(gen) : Follows(i, t, tempids)
          BY <3>1
        <4>2. CASE \E f \in Live(gen') : Image(t, f, DOMAIN m, known)
          BY <2>7, <4>1, <4>2
        <4>3. CASE /\ t \in gen.upserts_e /\ t.e \in DOMAIN m
                   /\ \E f \in gen'.upserted : Image(t, f, DOMAIN m, known)
          <5>1. \E f \in gen'.upserted : InstanceOf(i, f, known)
            BY <2>7, <4>1, <4>3 DEF Follows
          <5>2. \A j, g : g \in gen.upserts_e /\ InstanceOf(j, g, tempids) => IsUpsert(j) /\ j.e = g.e
            <6>1. ASSUME NEW j, NEW g \in gen.upserts_e, InstanceOf(j, g, tempids)
                  PROVE  IsUpsert(j) /\ j.e = g.e
              <7>1. g.op = "Add" /\ g.a \in Idcauset /\ g.e \in TempIds
                BY <2>0 DEF PopulationsOK, IsTemp
              <7>2. <<j.e, g.e>> \notin tempids
                BY <2>2, <7>1 DEF Pairs
              <7>3. QED
                BY <6>1, <7>1, <7>2 DEF InstanceOf, IsUpsert, is_unique, IsTemp
            <6>2. QED
              BY <6>1
          <5>3. IsUpsert(i) /\ i.e = t.e
            BY <4>1, <4>3, <5>2 DEF Follows
          <5>4. t.e \in TempIds /\ Found(gen, t.e) # {}
            BY <1>2, <4>3
          <5>5. PICK d \in store : <<t.e, d.a, d.v>> \in temp_id_avs(gen)
            BY <5>4 DEF Found
          <5>6. d.e \in Found(gen, t.e)
            BY <5>5 DEF Found
          <5>7. PICK g \in gen.upserts_e : g.e = t.e /\ g.a = d.a /\ g.v = d.v
            BY <5>5 DEF temp_id_avs
          <5>8. PICK j \in input : Follows(j, g, tempids)
            BY <1>0, <2>2 DEF Trace, Live
          <5>9. InstanceOf(j, g, tempids) /\ IsUpsert(j) /\ j.e = t.e
            BY <5>2, <5>7, <5>8 DEF Follows
          <5>10. InstanceOf(j, AsTerm(d), known)
            <6>1. <<j.e, d.e>> \in known
              BY <1>3, <5>4, <5>6, <5>9
            <6>2. j.op = "Add" /\ j.a = d.a
              BY <5>7, <5>9 DEF InstanceOf, IsUpsert
            <6>3. j.v = d.v \/ <<j.v, d.v>> \in known
              BY <1>3, <5>7, <5>9 DEF InstanceOf
            <6>4. QED
              BY <6>1, <6>2, <6>3 DEF InstanceOf, AsTerm
          <5>11. Upserted(i, known)
            BY <5>3, <5>9, <5>10 DEF Upserted
          <5>12. QED
            BY <5>1, <5>11
        <4>4. QED
          BY <2>1, <4>2, <4>3
      <3>2. CASE \E t \in inert : Follows(i, t, tempids)
        <4>1. PICK t \in inert : Follows(i, t, tempids)
          BY <3>2
        <4>2. t.e \notin TempIds /\ t.v \notin TempIds
          BY <1>0 DEF TypeOK, Temps, IsTemp
        <4>3. Image(t, t, DOMAIN m, known)
          BY <1>2, <4>2 DEF Image, InstanceOf
        <4>4. QED
          BY <2>7, <4>1, <4>3
      <3>3. CASE Upserted(i, tempids) /\ \E f \in gen.upserted \cup overwritten : InstanceOf(i, f, tempids)
        <4>1. Upserted(i, known)
          BY <2>9, <3>3 DEF Upserted
        <4>2. QED
          BY <2>9, <3>3, <4>1
      <3>4. QED
        BY <1>0, <1>1, <2>2, <3>1, <3>2, <3>3 DEF Trace, Traced
    <2>11. Trace'
      <3>1. /\ inert' = inert /\ input' = input /\ found' = known /\ store' = store
            /\ overwritten' = overwritten \cup gen.upserted
        BY <1>1, <1>8, <2>2
      <3>2. \A i \in input' : Traced(i)'
        BY <2>10, <3>1 DEF Traced, Upserted
      <3>3. QED
        BY <2>8, <3>1, <3>2 DEF Trace
    <2>12. Phase' /\ NoUnreachable' /\ TermsKept'
      BY <1>1, <1>8, <2>2 DEF Phase, NoUnreachable, TermsKept, Sound, Kept
    <2>13. QED
      BY <2>3, <2>4, <2>5, <2>11, <2>12 DEF Ind
  <1>9. QED
    BY <1>1, <1>7, <1>8

(* The complex upserts that are left are allocated.                         *)
LEMMA UnresolvedStep == Ind /\ allocate_unresolved_upserts => Ind'
  <1> SUFFICES ASSUME Ind, allocate_unresolved_upserts PROVE Ind'
    OBVIOUS
  <1>0. TypeOK /\ Shape /\ FoundOnce /\ Trace /\ Phase
    BY DEF Ind
  <1>a. gen \in Gens /\ PopulationsOK(gen)
    BY <1>0, TypeParts DEF Shape
  <1>1. /\ stage = "evolve" /\ stage' = "allocate" /\ gen.upserts_e = {}
        /\ gen' = [gen EXCEPT !.allocations = @ \cup gen.upserts_ev, !.upserts_ev = {}]
        /\ UNCHANGED <<store, input, inert, labels, final, tempids, overwritten>>
    BY DEF allocate_unresolved_upserts, can_evolve
  <1>2. /\ gen' \in Gens
        /\ gen'.allocations = gen.allocations \cup gen.upserts_ev /\ gen'.upserts_ev = {}
        /\ gen'.upserts_e = {} /\ gen'.upserted = gen.upserted /\ gen'.resolved = gen.resolved
    BY <1>a, <1>1 DEF Gens
  <1>3. Shape'
    BY <1>0, <1>1, <1>2 DEF Shape
  <1>4. PopulationsOK(gen')
    <2>1. ASSUME NEW t \in gen.upserts_ev PROVE Temps(t) # {}
      <3>1. t.v \in Temps(t)
        BY <1>a DEF PopulationsOK, Temps
      <3>2. QED
        BY <3>1
    <2>2. QED
      BY <1>a, <1>2, <2>1 DEF PopulationsOK
  <1>5. TypeOK'
    <2>1. /\ stage' \in Stages /\ \A t \in inert' : Temps(t) = {}
          /\ \A p \in tempids' : p[1] \in TempIds /\ p[2] \in Nat
          /\ \A t \in DOMAIN labels' : labels'[t] < Cardinality(TempIds)
      BY <1>0, <1>1 DEF TypeOK, Stages
    <2>2. QED
      BY <1>4, <2>1 DEF TypeOK, PopulationsOK
  <1>6. found' = found
    BY <1>1 DEF found
  <1>7. Trace'
    <2>1. Live(gen') = Live(gen)
      BY <1>1, <1>2 DEF Live
    <2>2. \A i : Traced(i)' <=> Traced(i)
      BY <1>1, <1>2, <1>6, <2>1 DEF Traced, Upserted
    <2>3. QED
      BY <1>0, <1>1, <1>2, <1>6, <2>1, <2>2 DEF Trace
  <1>8. FoundOnce' /\ Phase' /\ NoUnreachable' /\ TermsKept'
    <2>1. FoundOnce' /\ Phase' /\ NoUnreachable'
      BY <1>0, <1>1, <1>2, <1>6 DEF FoundOnce, Phase, NoUnreachable
    <2>2. TermsKept'
      BY <1>1 DEF TermsKept, Sound, Kept
    <2>3. QED
      BY <2>1, <2>2
  <1>9. QED
    BY <1>3, <1>5, <1>7, <1>8 DEF Ind

(* The allocation gives every tempid of an assertion a causetid.            *)
LEMMA AllocateStep == Ind /\ allocate => Ind'
  <1> SUFFICES ASSUME Ind, allocate PROVE Ind'
    OBVIOUS
  <1> DEFINE ids == AllocatedTemps(gen.allocations)
             new == { <<t, First + labels'[t]>> : t \in DOMAIN labels' }
  <1>0. TypeOK /\ Shape /\ FoundOnce /\ Trace /\ Phase
    BY DEF Ind
  <1>1. /\ stage = "allocate" /\ stage' = "final"
        /\ labels' = temp_ids_in_allocations(gen.allocations)
        /\ tempids' = tempids \cup new
        /\ UNCHANGED <<store, input, inert, gen, final, overwritten>>
    BY DEF allocate
  <1>2. Numbers(labels', ids, tempid_avs(gen.allocations))
    BY <1>1, Allocation
  <1>3. \A t \in DOMAIN labels' : /\ t \in TempIds /\ labels'[t] \in Nat
                                  /\ labels'[t] < Cardinality(TempIds)
    BY <1>2 DEF Numbers
  <1>4. \A t \in DOMAIN labels' : <<t, First + labels'[t]>> \in Pairs
    BY <1>3, NotTempids DEF Pairs
  <1>5. tempids' \in SUBSET Pairs /\ tempids \in SUBSET Pairs
    BY <1>0, <1>1, <1>4 DEF Shape
  <1>6. Shape'
    BY <1>0, <1>1, <1>5 DEF Shape
  <1>7. TypeOK'
    <2>1. stage' \in Stages /\ \A t \in DOMAIN labels' : labels'[t] < Cardinality(TempIds)
      BY <1>1, <1>3 DEF Stages
    <2>2. \A p \in tempids' : p[1] \in TempIds /\ p[2] \in Nat
      BY <1>5 DEF Pairs
    <2>3. PopulationsOK(gen) /\ \A t \in inert : Temps(t) = {}
      BY <1>0, TypeParts
    <2>4. UNCHANGED <<gen, inert>>
      BY <1>1
    <2>5. QED
      BY <2>1, <2>2, <2>3, <2>4 DEF TypeOK, PopulationsOK
  <1>8. found' = found
    <2>1. First \in Nat /\ \A n \in Nat : First + n \notin Entities
      BY UpsertAssumption
    <2>2. \A p \in new : p[2] \notin Entities
      BY <1>3, <2>1
    <2> HIDE DEF new
    <2>3. QED
      BY <1>1, <2>2 DEF found
  <1>9. Trace'
    <2>1. \A i : Traced(i)' <=> Traced(i)
      BY <1>1, <1>8 DEF Traced, Upserted
    <2>2. QED
      BY <1>0, <1>1, <1>8, <2>1 DEF Trace
  <1>10. Phase'
    <2>1. \A t \in DOMAIN labels' : <<t, First + labels'[t]>> \in tempids'
      BY <1>1
    <2>2. gen.upserts_e = {} /\ gen.upserts_ev = {} /\ gen' = gen /\ tempids = found
      BY <1>0, <1>1 DEF Phase
    <2>3. \A p \in new : p[1] \in DOMAIN labels' /\ p[2] = First + labels'[p[1]]
      OBVIOUS
    <2> HIDE DEF new
    <2>4. \A p \in tempids' : p \in found' \/ (p[1] \in DOMAIN labels' /\ p[2] = First + labels'[p[1]])
      BY <1>1, <1>8, <2>2, <2>3
    <2>5. QED
      BY <1>1, <2>1, <2>2, <2>4 DEF Phase
  <1>11. FoundOnce' /\ NoUnreachable' /\ TermsKept'
    BY <1>0, <1>1, <1>8 DEF FoundOnce, NoUnreachable, TermsKept, Sound, Kept
  <1>12. QED
    BY <1>6, <1>7, <1>9, <1>10, <1>11 DEF Ind

(* into_final_populations rewrites what was allocated.  An assertion finds  *)
(* the label of each of its tempids.                                        *)
LEMMA FinalStep == Ind /\ into_final_populations => Ind'
  <1> SUFFICES ASSUME Ind, into_final_populations PROVE Ind'
    OBVIOUS
  <1> DEFINE m == [t \in DOMAIN labels |-> First + labels[t]]
             missing == { t \in gen.allocations : Temps(t) \ DOMAIN m # {} }
             allocated == { Rewrite(m, t) : t \in gen.allocations }
  <1>0. TypeOK /\ Shape /\ FoundOnce /\ Trace /\ Phase
    BY DEF Ind
  <1>1. /\ stage = "final" /\ UNCHANGED <<store, input, inert, gen, labels, tempids, overwritten>>
        /\ \/ /\ missing = {} /\ stage' = "done"
              /\ final' = [upserted |-> gen.upserted, resolved |-> gen.resolved,
                           allocated |-> allocated]
           \/ stage' = (IF \E t \in missing : t.op = "Add" THEN "unreachable" ELSE "bail")
    BY DEF into_final_populations
  <1>2. /\ DOMAIN labels = AllocatedTemps(gen.allocations)
        /\ \A t \in DOMAIN labels : /\ t \in TempIds /\ labels[t] \in Nat
                                    /\ labels[t] < Cardinality(TempIds)
    BY <1>0, <1>1, Allocation DEF Phase, Numbers
  <1>3. DOMAIN m = DOMAIN labels /\ \A t \in DOMAIN m : m[t] = First + labels[t]
    OBVIOUS
  <1>4. /\ \A t \in gen.allocations : Rewrite(m, t) \in allocated
        /\ \A f \in allocated : \E t \in gen.allocations : f = Rewrite(m, t)
    OBVIOUS
  <1>5. ASSUME NEW t \in missing PROVE t.op # "Add"
    <2>1. t \in gen.allocations /\ Temps(t) \ DOMAIN labels # {}
      BY <1>3
    <2>2. t.op = "Add" => Temps(t) \subseteq AllocatedTemps(gen.allocations)
      BY <2>1 DEF AllocatedTemps
    <2>3. QED
      BY <1>2, <2>1, <2>2
  <1>6. missing = {} => \A t \in gen.allocations : Temps(t) \ DOMAIN m = {}
    OBVIOUS
  <1> HIDE DEF m, missing, allocated
  <1>7. Mapping(m, tempids)
    <2>1. \A t \in DOMAIN m : <<t, m[t]>> \in tempids
      BY <1>0, <1>1, <1>3 DEF Phase
    <2>2. \A t \in DOMAIN m : t \in TempIds /\ m[t] \in Nat \ TempIds
      BY <1>2, <1>3, NotTempids
    <2>3. QED
      BY <2>1, <2>2 DEF Mapping
  <1>8. Shape' /\ NoUnreachable'
    <2>1. Shape'
      BY <1>0, <1>1 DEF Shape
    <2>2. QED
      BY <1>1, <1>5, <2>1 DEF NoUnreachable
  <1>9. TypeOK'
    <2>1. stage' \in Stages
      BY <1>1 DEF Stages
    <2>2. QED
      BY <1>0, <1>1, <2>1 DEF TypeOK
  <1>10. found' = found /\ Trace' /\ FoundOnce' /\ Phase'
    <2>1. found' = found
      BY <1>1 DEF found
    <2>2. QED
      BY <1>0, <1>1, <2>1 DEF Trace, FoundOnce, Phase
  <1>11. TermsKept'
    <2> SUFFICES ASSUME stage' = "done" PROVE TermsKept'
      BY DEF TermsKept, Sound, Kept
    <2>1. /\ missing = {} /\ final'.upserted = gen.upserted /\ final'.resolved = gen.resolved
          /\ final'.allocated = allocated
          /\ UNCHANGED <<store, input, inert, gen, tempids, overwritten>>
      BY <1>1
    <2>2. \A i, f : Instance(i, f)' <=> Instance(i, f)
      BY <2>1 DEF Instance, Causetid
    <2>3. \A x, y : <<x, y>> \in found => Causetid(x, y)
      <3>1. ASSUME NEW x, NEW y, <<x, y>> \in found, NEW p \in tempids, p[1] = x PROVE y <= p[2]
        <4>1. y \in Entities /\ y \in Nat /\ y < First
          BY <3>1, UpsertAssumption DEF found
        <4>2. CASE p \in found
          BY <1>0, <3>1, <4>1, <4>2 DEF FoundOnce
        <4>3. CASE p[1] \in DOMAIN labels /\ p[2] = First + labels[p[1]]
          BY <1>2, <4>1, <4>3, UpsertAssumption
        <4>4. QED
          BY <1>0, <1>1, <4>2, <4>3 DEF Phase
      <3>2. QED
        BY <3>1 DEF Causetid, found
    <2>4. ASSUME NEW x \in DOMAIN m, ~Knows(found, x) PROVE Causetid(x, m[x])
      <3>1. <<x, m[x]>> \in tempids /\ m[x] = First + labels[x] /\ m[x] \in Nat
        BY <1>2, <1>3, <1>7 DEF Mapping
      <3>2. ASSUME NEW p \in tempids, p[1] = x PROVE m[x] <= p[2]
        <4>1. p \notin found
          <5>1. p \in Pairs
            BY <1>0 DEF Shape
          <5>2. p = <<p[1], p[2]>>
            BY <5>1 DEF Pairs
          <5>3. QED
            BY <2>4, <3>2, <5>2 DEF Knows
        <4>2. p[2] = First + labels[x]
          BY <1>0, <1>1, <3>2, <4>1 DEF Phase
        <4>3. QED
          BY <3>1, <4>2
      <3>3. QED
        BY <3>1, <3>2 DEF Causetid
    <2>5. ASSUME NEW i, NEW t, NEW f, Follows(i, t, found), Rewritten(f, t, m)
          PROVE  Instance(i, f)
      <3>1. /\ \A x, y : <<x, y>> \in found => y \notin DOMAIN m
            /\ \A x \in DOMAIN m : <<x, m[x]>> \in tempids
        BY <1>0, <1>7 DEF Shape, Pairs, found, Mapping
      <3>2. i.e = f.e \/ Causetid(i.e, f.e) \/ (Waits(i) /\ <<i.e, f.e>> \in tempids)
        <4>1. CASE <<i.e, t.e>> \in found
          BY <2>3, <2>5, <3>1, <4>1 DEF Rewritten
        <4>2. CASE i.e = t.e
          BY <2>4, <2>5, <3>1, <4>2 DEF Rewritten, Follows
        <4>3. QED
          BY <2>5, <4>1, <4>2 DEF Follows, InstanceOf
      <3>3. i.v = f.v \/ Causetid(i.v, f.v)
        <4>1. CASE <<i.v, t.v>> \in found
          BY <2>3, <2>5, <3>1, <4>1 DEF Rewritten
        <4>2. CASE i.v = t.v
          BY <2>4, <2>5, <4>2 DEF Rewritten, Follows
        <4>3. QED
          BY <2>5, <4>1, <4>2 DEF Follows, InstanceOf
      <3>4. i.op = f.op /\ i.a = f.a
        BY <2>5 DEF Follows, InstanceOf, Rewritten
      <3>5. QED
        BY <3>2, <3>3, <3>4 DEF Instance
    <2>6. \A i, f : InstanceOf(i, f, found) => Instance(i, f)
      BY <2>3 DEF InstanceOf, Instance
    <2>7. \A i, f : Follows(i, f, found) => Instance(i, f)
      BY <2>6 DEF Follows
    <2>8. ASSUME NEW t \in gen.allocations
          PROVE  Rewritten(Rewrite(m, t), t, m) /\ Temps(Rewrite(m, t)) = {}
      <3>1. t \in Loose
        BY <1>0 DEF Shape, Gens
      <3>2. Rewritten(Rewrite(m, t), t, m)
        BY <1>7, <3>1, RewriteShape
      <3>3. Temps(Rewrite(m, t)) = Temps(t) \ DOMAIN m
        BY <1>7, <3>2, RewriteInstance
      <3>4. QED
        BY <1>6, <2>1, <3>2, <3>3
    <2> DEFINE pops == gen.upserted \cup gen.resolved \cup allocated
    <2>9. Populations' = pops
      BY <2>1 DEF Populations
    <2>10. Live(gen) = gen.allocations \cup gen.resolved
      BY <1>0, <1>1 DEF Phase, Live
    <2>11. ASSUME NEW f \in pops PROVE Temps(f) = {} /\ \E i \in input : Instance(i, f)
      <3>1. CASE f \in gen.upserted \cup gen.resolved
        <4>1. Temps(f) = {}
          BY <1>0, <3>1 DEF TypeOK
        <4>2. \E i \in input : Follows(i, f, found)
          BY <1>0, <2>10, <3>1 DEF Trace
        <4>3. QED
          BY <2>7, <4>1, <4>2
      <3>2. CASE f \in allocated
        <4>1. PICK t \in gen.allocations : f = Rewrite(m, t)
          BY <1>4, <3>2
        <4>2. PICK i \in input : Follows(i, t, found)
          BY <1>0, <2>10 DEF Trace
        <4>3. QED
          BY <2>5, <2>8, <4>1, <4>2
      <3>3. QED
        BY <3>1, <3>2
    <2>12. ASSUME NEW i \in input
           PROVE  \/ \E f \in pops \cup inert : Instance(i, f)
                  \/ IsUpsert(i) /\ FoundInStore(i) /\ \E f \in overwritten : Instance(i, f)
      <3>1. Traced(i)
        BY <1>0, <1>1 DEF Trace
      <3>2. CASE \E f \in Live(gen) \cup inert : Follows(i, f, found)
        <4>1. PICK t \in Live(gen) \cup inert : Follows(i, t, found)
          BY <3>2
        <4>2. CASE t \in gen.allocations
          <5>1. Rewrite(m, t) \in pops /\ Instance(i, Rewrite(m, t))
            BY <1>4, <2>5, <2>8, <4>1, <4>2
          <5>2. QED
            BY <5>1
        <4>3. CASE t \in gen.resolved \cup inert
          BY <2>7, <4>1, <4>3
        <4>4. QED
          BY <2>10, <4>1, <4>2, <4>3
      <3>3. CASE Upserted(i, found) /\ \E f \in gen.upserted \cup overwritten : InstanceOf(i, f, found)
        <4>1. IsUpsert(i) /\ FoundInStore(i)
          BY <2>6, <3>3 DEF Upserted, FoundInStore
        <4>2. QED
          BY <2>6, <3>3, <4>1
      <3>4. QED
        BY <3>1, <3>2, <3>3 DEF Traced
    <2> HIDE DEF pops
    <2>13. Sound'
      BY <2>1, <2>2, <2>9, <2>11 DEF Sound
    <2>14. Kept'
      <3>1. \A i : FoundInStore(i)' <=> FoundInStore(i)
        BY <2>1, <2>2 DEF FoundInStore
      <3>2. QED
        BY <2>1, <2>2, <2>9, <2>12, <3>1 DEF Kept
    <2>15. QED
      BY <2>13, <2>14 DEF TermsKept
  <1>12. QED
    BY <1>8, <1>9, <1>10, <1>11 DEF Ind

-----------------------------------------------------------------------------
(* The inductive invariant holds in every state of a resolution.            *)
THEOREM IndInvariant == Spec => []Ind
  <1>1. Ind /\ UNCHANGED vars => Ind'
    <2> SUFFICES ASSUME Ind, UNCHANGED vars PROVE Ind'
      OBVIOUS
    <2>1. found' = found
      BY DEF vars, found
    <2>2. \A i : Traced(i)' <=> Traced(i)
      BY <2>1 DEF vars, Traced, Upserted
    <2>3. TypeOK' /\ Shape' /\ FoundOnce' /\ Trace' /\ Phase'
      BY <2>1, <2>2 DEF Ind, vars, TypeOK, Shape, FoundOnce, Trace, Phase
    <2>4. Populations' = Populations /\ \A i, f : Instance(i, f)' <=> Instance(i, f)
      BY DEF vars, Populations, Instance, Causetid
    <2>5. \A i : FoundInStore(i)' <=> FoundInStore(i)
      BY <2>4 DEF vars, FoundInStore
    <2>6. UNCHANGED <<stage, input, inert, overwritten>> /\ Sound /\ Kept /\ NoUnreachable
      BY DEF Ind, vars, TermsKept
    <2>7. Sound'
      BY <2>4, <2>6 DEF Sound
    <2>8. Kept'
      BY <2>4, <2>5, <2>6 DEF Kept
    <2>9. QED
      BY <2>3, <2>6, <2>7, <2>8 DEF Ind, NoUnreachable, TermsKept
  <1>2. Ind /\ [Next]_vars => Ind'
    BY <1>1, FromStep, EvolveStep, UnresolvedStep, AllocateStep, FinalStep DEF Next
  <1>3. QED
    BY <1>2, InitInd, PTL DEF Spec

(* The populations of every generation are what their fields are documented *)
(* to be.                                                                   *)
THEOREM TypeInvariant == Spec => []TypeOK
  <1>1. Ind => TypeOK
    BY DEF Ind
  <1>2. QED
    BY <1>1, IndInvariant, PTL

(* No unreachable!() of into_final_populations is reached.                  *)
THEOREM NoUnreachableInvariant == Spec => []NoUnreachable
  <1>1. Ind => NoUnreachable
    BY DEF Ind
  <1>2. QED
    BY <1>1, IndInvariant, PTL

(* Through all generations no term is made up, tempids become causetids as  *)
(* found or allocated, and no term is lost but an upsert whose tempid was   *)
(* found in a generation that another followed.                             *)
THEOREM TermsKeptInvariant == Spec => []TermsKept
  <1>1. Ind => TermsKept
    BY DEF Ind
  <1>2. QED
    BY <1>1, IndInvariant, PTL

(* temp_ids_in_allocations gives one label exactly to the tempids that a    *)
(* chain of shared [a v] joins, and leaves no gap, for any transaction.     *)
THEOREM LabellingInvariant == Spec => []Labelling
  <1>1. ASSUME Ind, stage = "final" PROVE Labelling
    <2> DEFINE groups == tempid_avs(gen.allocations)
    <2>1. Numbers(labels, AllocatedTemps(gen.allocations), groups)
      BY <1>1, Allocation DEF Ind, Phase
    <2>2. DOMAIN labels = AllocatedTemps(gen.allocations)
      BY <2>1 DEF Numbers
    <2>3. ASSUME NEW s, NEW t PROVE Joined(s, t) <=> JoinedBy(DOMAIN labels, groups, s, t)
      BY Zenon DEF Joined, JoinedBy
    <2> HIDE DEF groups
    <2>4. /\ \A s, t \in DOMAIN labels : labels[s] = labels[t] <=> Joined(s, t)
          /\ \A t \in DOMAIN labels : \A n \in 0 .. labels[t] :
               \E s \in DOMAIN labels : labels[s] = n
      BY <2>1, <2>2, <2>3 DEF Numbers
    <2>5. QED
      BY <2>4 DEF Labelling
  <1>2. Ind => Labelling
    BY <1>1 DEF Labelling
  <1>3. QED
    BY <1>2, IndInvariant, PTL

=============================================================================
