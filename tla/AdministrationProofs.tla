------------------------- MODULE AdministrationProofs -------------------------
(*****************************************************************************)
(* Proofs about the parts of MCAdministration: whom a step of a workflow is  *)
(* for, on every chart of a finite organisation, whatever cycles it has      *)
(* (induction is by the least counterexample); the chart itself and what is  *)
(* read from it, up and down; who works where and leads what, for any        *)
(* employees, teams and departments; the start of the server, for any roles, *)
(* features, titles and lists; and the roles, one below the other, with what *)
(* they allow, for any roles, features and employees.                        *)
(*****************************************************************************)
EXTENDS MCAdministration, FiniteSetTheorems, WellFoundedInduction, TLAPS

-----------------------------------------------------------------------------
(* Whom a step is for                                                        *)

\* Every non-empty set of natural numbers has a least one.
LEMMA LeastNumber ==
  ASSUME NEW S, S \subseteq Nat, S # {}
  PROVE  \E n \in S : \A k \in S : n <= k
<1>1. PICK n \in S : \A k \in S : <<k, n>> \notin OpToRel(<, Nat)
  BY NatLessThanWellFounded, WFMin
<1>2. \A k \in S : ~(k < n)
  BY <1>1 DEF OpToRel
<1> QED BY <1>2

-----------------------------------------------------------------------------
(* A function on the natural numbers is defined by its first value and the *)
(* step from one value to the next.                                        *)

Steps(h, n, D, a, g) ==
  /\ h \in [0..n -> D] /\ h[0] = a
  /\ \A k \in 0..n : k # 0 => h[k] = g[h[k - 1]]

LEMMA StepsExist ==
  ASSUME NEW D, NEW a \in D, NEW g \in [D -> D], NEW n \in Nat
  PROVE  \E h : Steps(h, n, D, a, g)
<1> DEFINE bad == {k \in Nat : ~ \E h : Steps(h, k, D, a, g)}
<1> SUFFICES ASSUME bad # {} PROVE FALSE
  OBVIOUS
<1>1. PICK m \in bad : \A k \in bad : m <= k
  <2>1. bad \subseteq Nat
    OBVIOUS
  <2> HIDE DEF bad
  <2> QED BY <2>1, LeastNumber
<1>2. m \in Nat /\ ~ \E h : Steps(h, m, D, a, g)
  OBVIOUS
<1>3. CASE m = 0
  <2> DEFINE h == [k \in 0..0 |-> a]
  <2>1. Steps(h, 0, D, a, g)
    BY DEF Steps
  <2> HIDE DEF h
  <2> QED BY <1>2, <1>3, <2>1
<1>4. CASE m # 0
  <2>1. m - 1 \in Nat /\ m - 1 \notin bad
    BY <1>1, <1>2, <1>4
  <2>2. PICK h : Steps(h, m - 1, D, a, g)
    BY <2>1
  <2> DEFINE h2 == [k \in 0..m |-> IF k = m THEN g[h[m - 1]] ELSE h[k]]
  <2>3. h \in [0..(m - 1) -> D] /\ h[0] = a /\ \A k \in 0..(m - 1) : k # 0 => h[k] = g[h[k - 1]]
    BY <2>2 DEF Steps
  <2>4. h2 \in [0..m -> D]
    BY <1>2, <1>4, <2>3
  <2>5. h2[0] = a
    BY <1>2, <1>4, <2>3
  <2>6. ASSUME NEW k \in 0..m, k # 0 PROVE h2[k] = g[h2[k - 1]]
    <3>1. CASE k = m
      BY <1>2, <1>4, <2>3, <2>6, <3>1
    <3>2. CASE k # m
      BY <1>2, <1>4, <2>3, <2>6, <3>2
    <3> QED BY <3>1, <3>2
  <2> HIDE DEF h2
  <2>7. Steps(h2, m, D, a, g)
    BY <2>4, <2>5, <2>6 DEF Steps
  <2> QED BY <1>2, <2>7
<1> QED BY <1>3, <1>4

LEMMA StepsAgree ==
  ASSUME NEW D, NEW a \in D, NEW g \in [D -> D], NEW n \in Nat, NEW m \in Nat, n <= m,
         NEW h, Steps(h, n, D, a, g), NEW i, Steps(i, m, D, a, g)
  PROVE  \A k \in 0..n : h[k] = i[k]
<1> DEFINE bad == {k \in 0..n : h[k] # i[k]}
<1> SUFFICES ASSUME bad # {} PROVE FALSE
  OBVIOUS
<1>1. PICK k \in bad : \A j \in bad : k <= j
  <2>1. bad \subseteq Nat
    OBVIOUS
  <2> HIDE DEF bad
  <2> QED BY <2>1, LeastNumber
<1>2. k \in 0..n /\ h[k] # i[k]
  OBVIOUS
<1>3. k # 0
  BY <1>2 DEF Steps
<1>4. k - 1 \in 0..n /\ k - 1 \notin bad
  BY <1>1, <1>2, <1>3
<1>5. h[k - 1] = i[k - 1]
  BY <1>4
<1>6. h[k] = g[h[k - 1]] /\ i[k] = g[i[k - 1]]
  BY <1>2, <1>3 DEF Steps
<1> QED BY <1>2, <1>5, <1>6

LEMMA FunctionBySteps ==
  ASSUME NEW D, NEW a \in D, NEW g \in [D -> D]
  PROVE  \E f \in [Nat -> D] : f[0] = a /\ \A n \in Nat : n # 0 => f[n] = g[f[n - 1]]
<1> DEFINE H(n) == CHOOSE h : Steps(h, n, D, a, g)
           f == [n \in Nat |-> H(n)[n]]
<1>1. \A n \in Nat : Steps(H(n), n, D, a, g)
  BY StepsExist
<1> HIDE DEF H
<1>2. f \in [Nat -> D]
  BY <1>1 DEF Steps
<1>3. f[0] = a
  BY <1>1 DEF Steps
<1>4. ASSUME NEW n \in Nat, n # 0 PROVE f[n] = g[f[n - 1]]
  <2>1. n - 1 \in Nat /\ n - 1 <= n /\ n - 1 \in 0..(n - 1) /\ n \in 0..n
    BY <1>4
  <2>2. H(n)[n] = g[H(n)[n - 1]]
    BY <1>1, <1>4, <2>1 DEF Steps
  <2>3. H(n - 1)[n - 1] = H(n)[n - 1]
    BY <1>1, <2>1, StepsAgree
  <2> QED BY <2>1, <2>2, <2>3
<1> HIDE DEF f
<1> QED BY <1>2, <1>3, <1>4

-----------------------------------------------------------------------------
(* The chain of managers *)

\* The manager of a manager, None above the top.
Above(tree) == [x \in Employees \cup {None} |-> IF x = None THEN None ELSE tree.manager[x]]

LEMMA ChainSteps ==
  ASSUME NEW tree \in Org, NEW e \in Employees, IsFiniteSet(Employees)
  PROVE  LET c == Chain(tree, e) N == Cardinality(Employees) IN
         /\ c \in [0..N -> Employees \cup {None}] /\ c[0] = tree.manager[e]
         /\ \A n \in 0..N : n # 0 => c[n] = Above(tree)[c[n - 1]]
<1> DEFINE N == Cardinality(Employees)
           D == Employees \cup {None}
           a == tree.manager[e]
           g == Above(tree)
<1>1. N \in Nat
  BY FS_CardinalityType
<1>2. a \in D /\ g \in [D -> D]
  BY DEF Org, Above
<1> HIDE DEF a, g, D, N
<1>3. PICK f \in [Nat -> D] : f[0] = a /\ \A n \in Nat : n # 0 => f[n] = g[f[n - 1]]
  BY <1>2, FunctionBySteps
<1> DEFINE Body(h) == [n \in Nat |-> IF n = 0 THEN tree.manager[e]
                                     ELSE IF h[n - 1] = None THEN None ELSE tree.manager[h[n - 1]]]
<1>4. f = Body(f)
  <2>1. \A n \in Nat : n # 0 => f[n] = IF f[n - 1] = None THEN None ELSE tree.manager[f[n - 1]]
    <3> SUFFICES ASSUME NEW n \in Nat, n # 0
                 PROVE  f[n] = IF f[n - 1] = None THEN None ELSE tree.manager[f[n - 1]]
      OBVIOUS
    <3>1. n - 1 \in Nat
      OBVIOUS
    <3>2. f[n - 1] \in D /\ f[n] = g[f[n - 1]]
      BY <1>3, <3>1
    <3> QED BY <3>2 DEF g, Above, D
  <2> QED BY <1>3, <2>1 DEF a
<1> DEFINE c == CHOOSE h : h = Body(h)
<1>5. c = Body(c)
  BY <1>4
<1>6. Chain(tree, e) = [n \in 0..N |-> c[n]]
  BY DEF Chain, N
<1> HIDE DEF c, Body
<1>7. \A n \in Nat : c[n] = IF n = 0 THEN a ELSE IF c[n - 1] = None THEN None ELSE tree.manager[c[n - 1]]
  BY <1>5 DEF Body, a
<1> DEFINE bad == {n \in Nat : c[n] # f[n]}
<1>8. bad = {}
  <2> SUFFICES ASSUME bad # {} PROVE FALSE
    OBVIOUS
  <2>1. PICK m \in bad : \A k \in bad : m <= k
    <3>1. bad \subseteq Nat
      OBVIOUS
    <3> HIDE DEF bad
    <3> QED BY <3>1, LeastNumber
  <2>2. m \in Nat /\ c[m] # f[m]
    OBVIOUS
  <2>3. m # 0
    BY <1>3, <1>7, <2>2
  <2>4. m - 1 \in Nat /\ m - 1 \notin bad
    BY <2>1, <2>2, <2>3
  <2>5. c[m - 1] = f[m - 1]
    BY <2>4
  <2>6. f[m] = g[f[m - 1]] /\ f[m - 1] \in D
    BY <1>3, <2>2, <2>3, <2>4
  <2>7. g[f[m - 1]] = IF f[m - 1] = None THEN None ELSE tree.manager[f[m - 1]]
    BY <2>6 DEF g, Above, D
  <2> QED BY <1>7, <2>2, <2>3, <2>5, <2>6, <2>7
<1>9. \A n \in Nat : c[n] = f[n]
  BY <1>8
<1> HIDE DEF bad
<1>10. /\ Chain(tree, e) \in [0..N -> D] /\ Chain(tree, e)[0] = a
       /\ \A n \in 0..N : n # 0 => Chain(tree, e)[n] = g[Chain(tree, e)[n - 1]]
  <2>1. \A n \in 0..N : n \in Nat /\ Chain(tree, e)[n] = f[n]
    BY <1>1, <1>6, <1>9
  <2>2. \A n \in 0..N : n # 0 => n - 1 \in 0..N
    BY <1>1
  <2>3. 0 \in 0..N
    BY <1>1
  <2>4. \A n \in 0..N : n # 0 => Chain(tree, e)[n] = g[Chain(tree, e)[n - 1]]
    BY <1>3, <2>1, <2>2
  <2> QED BY <1>3, <1>6, <2>1, <2>3, <2>4
<1> QED BY <1>10 DEF a, g, D, N

-----------------------------------------------------------------------------
(* The part of the chain the loop walks *)

\* It ends at the first manager that is nobody, the requester, or one met before; a
\* chain longer than the organisation would have met one before.
LEMMA WalkedShape ==
  ASSUME NEW tree \in Org, NEW e \in Employees, IsFiniteSet(Employees), None \notin Employees
  PROVE  LET c == Chain(tree, e)
             W == Walked(tree, e)
         IN  /\ W \subseteq 0..Cardinality(Employees)
             /\ \A n \in W : c[n] \in Employees \ {e}
             /\ \A n \in W : \A k \in 0..n : k \in W
             /\ \A n \in W : n # 0 => n - 1 \in W /\ c[n] = tree.manager[c[n - 1]]
             /\ c[0] = tree.manager[e]
             /\ c[0] \notin {None, e} => 0 \in W
             /\ \A n \in W : LET x == tree.manager[c[n]] IN
                  x \notin {None, e} =>
                    \/ \E j \in 0..n : c[j] = x
                    \/ n + 1 \in W /\ c[n + 1] = x
<1> DEFINE c == Chain(tree, e)
           N == Cardinality(Employees)
           W == Walked(tree, e)
<1>1. /\ N \in Nat
      /\ c \in [0..N -> Employees \cup {None}] /\ c[0] = tree.manager[e]
      /\ \A n \in 0..N : n # 0 => c[n] = Above(tree)[c[n - 1]]
  BY ChainSteps, FS_CardinalityType
<1>2. W = {n \in 0..N : \A k \in 0..n : c[k] \notin {None, e} \cup {c[j] : j \in 0..(k - 1)}}
  BY <1>1 DEF Walked
<1> HIDE DEF c, W
<1>3. \A n \in 0..N : n \in W <=>
        \A k \in 0..n : c[k] \notin {None, e} /\ \A j \in 0..(k - 1) : c[k] # c[j]
  BY <1>2
<1>4. W \subseteq 0..N
  BY <1>2
<1> HIDE DEF N
<1>5. ASSUME NEW n \in W
      PROVE  /\ n \in 0..N /\ n \in Nat /\ \A k \in 0..n : k \in W
             /\ c[n] \in Employees \ {e}
  <2>1. n \in 0..N /\ n \in Nat
    BY <1>1, <1>4
  <2>2. n \in 0..n
    BY <2>1
  <2>3. c[n] \in Employees \ {e}
    BY <1>1, <1>3, <2>1, <2>2
  <2>4. ASSUME NEW k \in 0..n PROVE k \in W
    <3>1. k \in 0..N /\ \A i \in 0..k : i \in 0..n
      BY <1>1, <2>1
    <3> QED BY <1>3, <2>1, <3>1
  <2> QED BY <2>1, <2>3, <2>4
<1>6. ASSUME NEW n \in W, n # 0 PROVE n - 1 \in W /\ c[n] = tree.manager[c[n - 1]]
  <2>1. n - 1 \in 0..n
    BY <1>5, <1>6
  <2>2. n - 1 \in W
    BY <1>5, <2>1
  <2>3. c[n - 1] \in Employees
    BY <1>5, <2>2
  <2> QED BY <1>1, <1>5, <1>6, <2>2, <2>3 DEF Above
<1>7. c[0] \notin {None, e} => 0 \in W
  BY <1>1, <1>3
<1>8. ASSUME NEW n \in W, tree.manager[c[n]] \notin {None, e},
             \A j \in 0..n : c[j] # tree.manager[c[n]]
      PROVE  n + 1 \in W /\ c[n + 1] = tree.manager[c[n]]
  <2>1. n \in Nat /\ n \in 0..N /\ c[n] \in Employees
    BY <1>5
  <2>2. \A k \in 0..n : c[k] \in Employees
    BY <1>5
  <2>3. \A j, k \in 0..n : c[j] = c[k] => j = k
    <3> SUFFICES ASSUME NEW j \in 0..n, NEW k \in 0..n, j < k, c[j] = c[k] PROVE FALSE
      BY <2>1
    <3>1. k \in W /\ k \in 0..N /\ k \in 0..k /\ j \in 0..(k - 1)
      BY <1>5, <2>1
    <3> QED BY <1>3, <3>1
  <2>4. n + 1 <= N
    <3> SUFFICES ASSUME n + 1 > N PROVE FALSE
      BY <1>1, <2>1
    <3>1. IsFiniteSet(0..n) /\ Cardinality(0..n) = n + 1
      BY <2>1, FS_Interval
    <3> DEFINE h == [k \in 0..n |-> c[k]]
    <3>2. h \in Injection(0..n, Employees \ {tree.manager[c[n]]})
      <4>1. \A k \in 0..n : c[k] \in Employees \ {tree.manager[c[n]]}
        BY <1>8, <2>2
      <4>2. h \in [0..n -> Employees \ {tree.manager[c[n]]}]
        BY <4>1
      <4>3. \A j, k \in 0..n : h[j] = h[k] => j = k
        BY <2>3
      <4> HIDE DEF h
      <4> QED BY <4>2, <4>3 DEF Injection, IsInjective
    <3> HIDE DEF h
    <3>3. tree.manager[c[n]] \in Employees
      BY <1>8, <2>1 DEF Org
    <3>4. /\ IsFiniteSet(Employees \ {tree.manager[c[n]]})
          /\ Cardinality(Employees \ {tree.manager[c[n]]}) = N - 1
      BY <3>3, FS_RemoveElement DEF N
    <3>5. Cardinality(0..n) <= Cardinality(Employees \ {tree.manager[c[n]]})
      BY <3>2, <3>4, FS_Injection
    <3> QED BY <1>1, <2>1, <3>1, <3>4, <3>5
  <2>5. n + 1 \in 0..N /\ n + 1 # 0 /\ (n + 1) - 1 = n
    BY <1>1, <2>1, <2>4
  <2>6. c[n + 1] = tree.manager[c[n]]
    <3>1. c[n + 1] = Above(tree)[c[n]]
      BY <1>1, <2>5
    <3> QED BY <2>1, <3>1 DEF Above
  <2>7. ASSUME NEW k \in 0..(n + 1)
        PROVE  c[k] \notin {None, e} /\ \A j \in 0..(k - 1) : c[k] # c[j]
    <3>1. CASE k = n + 1
      BY <1>8, <2>5, <2>6, <3>1
    <3>2. CASE k # n + 1
      <4>1. k \in 0..n
        BY <2>1, <3>2
      <4> QED BY <1>3, <1>5, <4>1
    <3> QED BY <3>1, <3>2
  <2>8. n + 1 \in W
    BY <1>3, <2>5, <2>7
  <2> QED BY <2>6, <2>8
<1> QED BY <1>1, <1>4, <1>5, <1>6, <1>7, <1>8 DEF c, W, N

-----------------------------------------------------------------------------
\* The managers met before the first one with the role, and that one.
Met(tree, e, needed) ==
  {Chain(tree, e)[n] : n \in {m \in Walked(tree, e) :
     \A k \in 0..(m - 1) : <<Chain(tree, e)[k], needed>> \notin tree.holds}}

\* They are what the walk may stop at: the walk neither misses one nor goes beyond.
LEMMA MetIsWithinReach ==
  ASSUME NEW tree \in Org, NEW e \in Employees, NEW needed \in Roles,
         IsFiniteSet(Employees), None \notin Employees
  PROVE  WithinReach(tree, e, needed) = Met(tree, e, needed)
<1> DEFINE c == Chain(tree, e)
           W == Walked(tree, e)
           Ok(x) == x \notin {None, e}
           Free(n) == \A k \in 0..(n - 1) : <<c[k], needed>> \notin tree.holds
           Closed(S) == /\ Ok(tree.manager[e]) => tree.manager[e] \in S
                        /\ \A x \in S : (<<x, needed>> \notin tree.holds /\ Ok(tree.manager[x]))
                                        => tree.manager[x] \in S
           met == Met(tree, e, needed)
<1>1. /\ W \subseteq Nat
      /\ \A n \in W : c[n] \in Employees \ {e}
      /\ \A n \in W : \A k \in 0..n : k \in W
      /\ \A n \in W : n # 0 => n - 1 \in W /\ c[n] = tree.manager[c[n - 1]]
      /\ c[0] = tree.manager[e]
      /\ c[0] \notin {None, e} => 0 \in W
      /\ \A n \in W : tree.manager[c[n]] \notin {None, e} =>
           \/ \E j \in 0..n : c[j] = tree.manager[c[n]]
           \/ n + 1 \in W /\ c[n + 1] = tree.manager[c[n]]
  <2>1. 0..Cardinality(Employees) \subseteq Nat
    BY FS_CardinalityType
  <2> QED BY <2>1, WalkedShape
<1>2. met = {c[n] : n \in {m \in W : Free(m)}}
  BY DEF Met
<1>3. WithinReach(tree, e, needed) = {x \in Employees : \A S \in SUBSET Employees : Closed(S) => x \in S}
  BY DEF WithinReach
<1> HIDE DEF c, W, met
<1>4. met \in SUBSET Employees
  BY <1>1, <1>2
<1>5. Closed(met)
  <2>1. ASSUME Ok(tree.manager[e]) PROVE tree.manager[e] \in met
    <3>1. 0 \in W /\ Free(0)
      BY <1>1, <2>1
    <3> QED BY <1>1, <1>2, <3>1
  <2>2. ASSUME NEW x \in met, <<x, needed>> \notin tree.holds, Ok(tree.manager[x])
        PROVE  tree.manager[x] \in met
    <3>1. PICK n \in W : Free(n) /\ x = c[n]
      BY <1>2
    <3>2. n \in Nat
      BY <1>1
    <3>3. CASE \E j \in 0..n : c[j] = tree.manager[x]
      <4>1. PICK j \in 0..n : c[j] = tree.manager[x]
        BY <3>3
      <4>2. j \in W /\ Free(j)
        BY <1>1, <3>1, <3>2
      <4> HIDE DEF Free
      <4> QED BY <1>2, <4>1, <4>2
    <3>4. CASE n + 1 \in W /\ c[n + 1] = tree.manager[x]
      <4>1. Free(n + 1)
        <5> SUFFICES ASSUME NEW k \in 0..((n + 1) - 1) PROVE <<c[k], needed>> \notin tree.holds
          OBVIOUS
        <5>1. k = n \/ k \in 0..(n - 1)
          BY <3>2
        <5> QED BY <2>2, <3>1, <5>1
      <4> HIDE DEF Free
      <4> QED BY <1>2, <3>4, <4>1
    <3> QED BY <1>1, <2>2, <3>1, <3>3, <3>4
  <2> HIDE DEF Ok
  <2> QED BY <2>1, <2>2
<1>6. ASSUME NEW S \in SUBSET Employees, Closed(S) PROVE met \subseteq S
  <2> DEFINE bad == {n \in W : Free(n) /\ c[n] \notin S}
  <2> SUFFICES ASSUME bad # {} PROVE FALSE
    BY <1>2
  <2>1. PICK n \in bad : \A k \in bad : n <= k
    <3>1. bad \subseteq Nat
      BY <1>1
    <3> HIDE DEF bad
    <3> QED BY <3>1, LeastNumber
  <2>2. n \in W /\ n \in Nat /\ Free(n) /\ c[n] \notin S /\ Ok(c[n])
    BY <1>1
  <2>3. CASE n = 0
    BY <1>1, <1>6, <2>2, <2>3
  <2>4. CASE n # 0
    <3>1. n - 1 \in W /\ n - 1 \in 0..(n - 1) /\ c[n] = tree.manager[c[n - 1]]
      BY <1>1, <2>2, <2>4
    <3>2. Free(n - 1) /\ <<c[n - 1], needed>> \notin tree.holds
      BY <2>2, <3>1
    <3>3. ~ (n <= n - 1)
      BY <2>2
    <3> HIDE DEF Free, Ok
    <3>4. n - 1 \notin bad
      BY <2>1, <3>3
    <3>5. c[n - 1] \in S
      BY <3>1, <3>2, <3>4
    <3> QED BY <1>6, <2>2, <3>1, <3>2, <3>5
  <2> QED BY <2>3, <2>4
<1> HIDE DEF Closed
<1>7. WithinReach(tree, e, needed) = met
  BY <1>3, <1>4, <1>5, <1>6
<1> QED BY <1>7 DEF met

\* On every tree of a finite organisation, charts with cycles included, the walk of a
\* REPORTING_HIERARCHY step finds the nearest manager with the role: it never passes the
\* requester nor a manager it has met, misses nobody it could have reached, and falls
\* back to the direct manager when nobody within reach has the role.
THEOREM NearestManagerCorrect ==
  ASSUME NEW tree \in Org, IsFiniteSet(Employees), None \notin Employees
  PROVE  NearestManager(tree)
<1> SUFFICES ASSUME NEW e \in Employees, NEW needed \in Roles
             PROVE  LET fit == WithinReach(tree, e, needed) \cap Holders(tree, needed)
                        found == UpTheHierarchy(tree, e, needed)
                    IN  IF fit = {} THEN found = tree.manager[e] ELSE found \in fit
  BY DEF NearestManager
<1> DEFINE c == Chain(tree, e)
           W == Walked(tree, e)
           walk == {n \in W : <<c[n], needed>> \in tree.holds}
           fit == Met(tree, e, needed) \cap Holders(tree, needed)
           found == UpTheHierarchy(tree, e, needed)
<1>1. W \subseteq Nat /\ \A n \in W : c[n] \in Employees /\ \A k \in 0..n : k \in W
  <2>1. 0..Cardinality(Employees) \subseteq Nat
    BY FS_CardinalityType
  <2> QED BY <2>1, WalkedShape
<1>2. found = IF walk = {} THEN tree.manager[e] ELSE c[CHOOSE n \in walk : \A k \in walk : n <= k]
  BY DEF UpTheHierarchy
<1>3. \A x : x \in Met(tree, e, needed) <=>
        \E n \in W : x = c[n] /\ \A k \in 0..(n - 1) : <<c[k], needed>> \notin tree.holds
  BY DEF Met
<1> HIDE DEF c, W, found
<1>4. CASE walk = {}
  <2>1. fit = {}
    BY <1>3, <1>4 DEF Holders
  <2> QED BY <1>2, <1>4, <2>1, MetIsWithinReach DEF found
<1>5. CASE walk # {}
  <2> DEFINE m == CHOOSE n \in walk : \A k \in walk : n <= k
  <2>1. m \in walk /\ \A k \in walk : m <= k
    <3>1. walk \subseteq Nat
      BY <1>1
    <3> HIDE DEF walk
    <3>2. \E n \in walk : \A k \in walk : n <= k
      BY <1>5, <3>1, LeastNumber
    <3> QED BY <3>2
  <2> HIDE DEF m
  <2>2. m \in W /\ m \in Nat /\ <<c[m], needed>> \in tree.holds /\ c[m] \in Employees
    BY <1>1, <2>1
  <2>3. ASSUME NEW k \in 0..(m - 1) PROVE <<c[k], needed>> \notin tree.holds
    <3>1. k \in 0..m /\ ~ (m <= k)
      BY <2>2
    <3>2. k \in W
      BY <1>1, <2>2, <3>1
    <3> QED BY <2>1, <3>1, <3>2
  <2>4. c[m] \in fit
    BY <1>3, <2>2, <2>3 DEF Holders
  <2>5. found = c[m]
    BY <1>2, <1>5 DEF m
  <2> QED BY <2>4, <2>5, MetIsWithinReach DEF found
<1> QED BY <1>4, <1>5

\* The charts of the instance, whichever managers and role holders it has come to.
LEMMA OrgSteps ==
  ASSUME leadRole \in Roles, org \in Org, [AdminNext]_<<workflowsVars, chart, place, access, start, part>>
  PROVE  org' \in Org
<1>1. CASE UNCHANGED org
  BY <1>1
<1>2. CASE ~UNCHANGED org
  <2>1. WorkflowsStep
    BY <1>2 DEF AdminNext, ChartStep, PlaceStep, AccessStep, StartStep, workflowsVars
  <2>2. CASE \E e \in Employees, m \in Employees \cup {None} : ChangeManager(e, m)
    BY <2>2 DEF ChangeManager, Org
  <2>3. CASE \E e \in Employees : ChangeHolder(e)
    BY <2>3 DEF ChangeHolder, Org
  <2> QED BY <1>2, <2>1, <2>2, <2>3 DEF WorkflowsStep, MCNext
<1> QED BY <1>1, <1>2

\* On every chart that administrators can come to, for any finite organisation, a
\* reporting-hierarchy step is for the nearest manager with its role.
THEOREM NearestManagerFoundCorrect ==
  IsFiniteSet(Employees) /\ None \notin Employees /\ leadRole \in Roles => (AdminSpec => []NearestManagerFound)
<1> SUFFICES ASSUME IsFiniteSet(Employees), None \notin Employees, leadRole \in Roles
             PROVE  AdminSpec => []NearestManagerFound
  OBVIOUS
<1>1. AdminInit => org \in Org
  BY DEF AdminInit, MCInit, Flat, Org
<1>2. org \in Org /\ [AdminNext]_<<workflowsVars, chart, place, access, start, part>> => (org \in Org)'
  BY OrgSteps
<1>3. org \in Org => NearestManagerFound
  BY NearestManagerCorrect DEF NearestManagerFound
<1> QED BY <1>1, <1>2, <1>3, PTL DEF AdminSpec


-----------------------------------------------------------------------------
(* Who reports to whom                                                       *)

Parents == [ChartEmployees -> ChartEmployees \cup {None}]
ClosedIn(parent, S) == \A x \in S : parent[x] \in S \cup {None}
RingIn(parent, S) == S # {} /\ \A x \in S : parent[x] \in S
ReachedFrom(parent, e) == {x \in ChartEmployees : \A S \in SUBSET ChartEmployees : e \in S /\ ClosedIn(parent, S) => x \in S}

\* Employees given other managers, none of them at or above the new one, close no ring.
LEMMA NoRingClosed ==
  ASSUME None \notin ChartEmployees, NEW K \in Parents, NEW J \in Parents, NEW m \in ChartEmployees, NEW R \in SUBSET ChartEmployees,
         \A S \in SUBSET ChartEmployees : ~RingIn(K, S),
         \A x \in ChartEmployees : IF x \in R THEN J[x] = m ELSE J[x] \in {K[x], None},
         \A x \in R : x \notin ReachedFrom(K, m)
  PROVE  \A S \in SUBSET ChartEmployees : ~RingIn(J, S)
<1> SUFFICES ASSUME NEW S \in SUBSET ChartEmployees, RingIn(J, S) PROVE FALSE
  OBVIOUS
<1> DEFINE A == ReachedFrom(K, m)
<1>1. CASE R \cap S = {}
  <2>1. \A x \in S : K[x] \in S
    BY <1>1 DEF RingIn
  <2> QED BY <2>1 DEF RingIn
<1>2. CASE R \cap S # {}
  <2>1. m \in A /\ A \in SUBSET ChartEmployees
    BY DEF ReachedFrom
  <2>2. \A x \in A : K[x] \in A \cup {None}
    BY DEF ReachedFrom, ClosedIn, Parents
  <2>3. m \in S
    BY <1>2 DEF RingIn
  <2>4. A \cap R = {}
    OBVIOUS
  <2> HIDE DEF A
  <2>5. \A x \in A \cap S : K[x] \in A \cap S
    BY <2>2, <2>4 DEF RingIn
  <2> QED BY <2>1, <2>3, <2>5 DEF RingIn
<1> QED BY <1>1, <1>2

LEMMA NoRingWithout ==
  ASSUME None \notin ChartEmployees, NEW K \in Parents, NEW J \in Parents, NEW e \in ChartEmployees,
         \A S \in SUBSET ChartEmployees : ~RingIn(K, S),
         \A x \in ChartEmployees : J[x] \in {K[x], None}
  PROVE  \A S \in SUBSET ChartEmployees : ~RingIn(J, S)
<1>1. PICK R \in SUBSET ChartEmployees : R = {}
  OBVIOUS
<1>2. (\A x \in ChartEmployees : IF x \in R THEN J[x] = e ELSE J[x] \in {K[x], None})
      /\ \A x \in R : x \notin ReachedFrom(K, e)
  BY <1>1
<1> QED BY <1>2, NoRingClosed

LEMMA NoRingMoved ==
  ASSUME None \notin ChartEmployees, NEW K \in Parents, NEW J \in Parents, NEW e \in ChartEmployees, NEW m \in ChartEmployees,
         \A S \in SUBSET ChartEmployees : ~RingIn(K, S),
         J = [K EXCEPT ![e] = m], e \notin ReachedFrom(K, m)
  PROVE  \A S \in SUBSET ChartEmployees : ~RingIn(J, S)
<1>1. PICK R \in SUBSET ChartEmployees : R = {e}
  OBVIOUS
<1>2. (\A x \in ChartEmployees : IF x \in R THEN J[x] = m ELSE J[x] \in {K[x], None})
      /\ \A x \in R : x \notin ReachedFrom(K, m)
  BY <1>1 DEF Parents
<1> QED BY <1>2, NoRingClosed

-----------------------------------------------------------------------------
(* The walk up a chart *)

\* The manager of a manager, None above the top.
Upwards(parent) == [x \in ChartEmployees \cup {None} |-> IF x = None THEN None ELSE parent[x]]

\* The walk w from e ends with step s: there is nobody, or somebody met before.
WalkOf(parent, e, w, s) ==
  /\ w \in [Nat -> ChartEmployees \cup {None}] /\ w[0] = e
  /\ s \in Nat /\ 1 <= s /\ s <= Cardinality(ChartEmployees)
  /\ \A n \in 0..(s - 1) : w[n] \in ChartEmployees /\ w[n + 1] = parent[w[n]]
  /\ \A j, k \in 0..(s - 1) : w[j] = w[k] => j = k
  /\ w[s] = None \/ \E k \in 0..(s - 1) : w[k] = w[s]

\* The recursive function of AncestorIds.
FirstSteps(parent, e, N) ==
  LET at[n \in 0..N] == IF n = 0 THEN e ELSE IF at[n - 1] = None THEN None ELSE parent[at[n - 1]]
  IN  at

LEMMA WalkGoesUp ==
  ASSUME NEW parent \in Parents, NEW e \in ChartEmployees, NEW N \in Nat
  PROVE  \E w \in [Nat -> ChartEmployees \cup {None}] :
           /\ w[0] = e
           /\ \A n \in Nat : n # 0 => w[n] = Upwards(parent)[w[n - 1]]
           /\ FirstSteps(parent, e, N) = [n \in 0..N |-> w[n]]
<1> DEFINE D == ChartEmployees \cup {None}
           g == Upwards(parent)
           Body(h) == [n \in 0..N |-> IF n = 0 THEN e ELSE IF h[n - 1] = None THEN None ELSE parent[h[n - 1]]]
<1>1. e \in D /\ g \in [D -> D]
  BY DEF Upwards, Parents
<1> HIDE DEF g, D
<1>2. PICK w \in [Nat -> D] : w[0] = e /\ \A n \in Nat : n # 0 => w[n] = g[w[n - 1]]
  BY <1>1, FunctionBySteps
<1>3. \A n \in Nat : n # 0 => w[n] = IF w[n - 1] = None THEN None ELSE parent[w[n - 1]]
  <2> SUFFICES ASSUME NEW n \in Nat, n # 0
               PROVE  w[n] = IF w[n - 1] = None THEN None ELSE parent[w[n - 1]]
    OBVIOUS
  <2>1. n - 1 \in Nat
    OBVIOUS
  <2>2. w[n - 1] \in D /\ w[n] = g[w[n - 1]]
    BY <1>2, <2>1
  <2> QED BY <2>2 DEF g, D, Upwards
<1> DEFINE f == [n \in 0..N |-> w[n]]
<1>4. f = Body(f)
  <2>1. \A n \in 0..N : f[n] = IF n = 0 THEN e ELSE IF f[n - 1] = None THEN None ELSE parent[f[n - 1]]
    BY <1>2, <1>3
  <2> QED BY <2>1
<1> DEFINE at == CHOOSE h : h = Body(h)
<1>5. at = Body(at)
  BY <1>4
<1> HIDE DEF at
<1>6. DOMAIN at = 0..N /\ \A n \in 0..N : at[n] = IF n = 0 THEN e ELSE IF at[n - 1] = None THEN None ELSE parent[at[n - 1]]
  BY <1>5
<1>7. \A n \in 0..N : at[n] = w[n]
  <2> DEFINE bad == {n \in 0..N : at[n] # w[n]}
  <2> SUFFICES ASSUME bad # {} PROVE FALSE
    OBVIOUS
  <2>1. PICK m \in bad : \A k \in bad : m <= k
    <3>1. bad \subseteq Nat
      OBVIOUS
    <3> HIDE DEF bad
    <3> QED BY <3>1, LeastNumber
  <2>2. m \in 0..N /\ at[m] # w[m]
    OBVIOUS
  <2>3. m # 0
    BY <1>2, <1>6, <2>2
  <2>4. m - 1 \in 0..N /\ m - 1 \notin bad
    BY <2>1, <2>2, <2>3
  <2>5. at[m - 1] = w[m - 1]
    BY <2>4
  <2> QED BY <1>3, <1>6, <2>2, <2>3, <2>5
<1>8. at = f
  BY <1>5, <1>6, <1>7
<1>9. w \in [Nat -> ChartEmployees \cup {None}] /\ w[0] = e
      /\ \A n \in Nat : n # 0 => w[n] = Upwards(parent)[w[n - 1]]
  BY <1>2 DEF D, g
<1>10. FirstSteps(parent, e, N) = at
  BY DEF FirstSteps, at
<1> QED BY <1>8, <1>9, <1>10

\* get_ancestor_ids returns the employees the walk meets after the first, each once.
LEMMA WalkEnds ==
  ASSUME IsFiniteSet(ChartEmployees), None \notin ChartEmployees, NEW parent \in Parents, NEW e \in ChartEmployees
  PROVE  \E w, s : WalkOf(parent, e, w, s) /\ Chart!AncestorIds(parent, e) = [n \in 1..(s - 1) |-> w[n]]
<1> DEFINE N == Cardinality(ChartEmployees)
           at == FirstSteps(parent, e, N + 1)
           stops(h) == {n \in DOMAIN h : h[n] = None \/ \E k \in 0..(n - 1) : h[k] = h[n]}
<1>1. N \in Nat /\ N + 1 \in Nat
  BY FS_CardinalityType
<1>2. Chart!AncestorIds(parent, e) = [n \in 1..(Chart!Min(stops(at)) - 1) |-> at[n]]
  BY DEF Chart!AncestorIds, FirstSteps, Chart!Cardinality, Cardinality
<1>3. PICK w \in [Nat -> ChartEmployees \cup {None}] :
             /\ w[0] = e
             /\ \A n \in Nat : n # 0 => w[n] = Upwards(parent)[w[n - 1]]
             /\ at = [n \in 0..(N + 1) |-> w[n]]
  <2> HIDE DEF N
  <2> QED BY <1>1, WalkGoesUp
<1> HIDE DEF at, N
<1> DEFINE f == [n \in 0..(N + 1) |-> w[n]]
           T == {n \in 0..(N + 1) : w[n] = None \/ \E k \in 0..(n - 1) : w[k] = w[n]}
<1>4. stops(f) = T
  BY <1>1
<1>5. \E n \in T : n <= N
  <2> SUFFICES ASSUME \A n \in T : ~(n <= N) PROVE FALSE
    OBVIOUS
  <2>1. \A n \in 0..N : w[n] \in ChartEmployees /\ \A k \in 0..(n - 1) : w[k] # w[n]
    BY <1>1, <1>3
  <2> HIDE DEF T
  <2>2. \A j, k \in 0..N : w[j] = w[k] => j = k
    <3> SUFFICES ASSUME NEW j \in 0..N, NEW k \in 0..N, j < k, w[j] = w[k] PROVE FALSE
      BY <1>1
    <3>1. j \in 0..(k - 1)
      BY <1>1
    <3> QED BY <2>1, <3>1
  <2> DEFINE h == [k \in 0..N |-> w[k]]
  <2>3. h \in [0..N -> ChartEmployees] /\ \A j, k \in 0..N : h[j] = h[k] => j = k
    BY <2>1, <2>2
  <2> HIDE DEF h
  <2>4. h \in Injection(0..N, ChartEmployees)
    BY <2>3 DEF Injection, IsInjective
  <2>5. IsFiniteSet(0..N) /\ Cardinality(0..N) = N + 1
    BY <1>1, FS_Interval
  <2>6. Cardinality(0..N) <= Cardinality(ChartEmployees)
    BY <2>4, FS_Injection
  <2> QED BY <1>1, <2>5, <2>6 DEF N
<1>6. PICK s \in T : \A k \in T : s <= k
  <2>1. T \subseteq Nat /\ T # {}
    BY <1>1, <1>5
  <2> HIDE DEF T
  <2> QED BY <2>1, LeastNumber
<1>7. s \in Nat /\ s <= N /\ (w[s] = None \/ \E k \in 0..(s - 1) : w[k] = w[s])
  BY <1>1, <1>5, <1>6
<1>8. Chart!Min(T) = s
  <2>1. \A x \in T : (\A y \in T : x <= y) => x = s
    BY <1>1, <1>6
  <2> HIDE DEF T
  <2> QED BY <1>6, <2>1 DEF Chart!Min
<1>9. s # 0
  BY <1>3, <1>7
<1>10. \A n \in 0..(s - 1) : n \in 0..(N + 1) /\ n \notin T
  BY <1>1, <1>6, <1>7
<1>11. \A n \in 0..(s - 1) : w[n] \in ChartEmployees /\ \A k \in 0..(n - 1) : w[k] # w[n]
  BY <1>3, <1>7, <1>10
<1>12. \A n \in 0..(s - 1) : w[n + 1] = parent[w[n]]
  <2> SUFFICES ASSUME NEW n \in 0..(s - 1) PROVE w[n + 1] = parent[w[n]]
    OBVIOUS
  <2>1. n + 1 \in Nat /\ n + 1 # 0 /\ (n + 1) - 1 = n
    BY <1>7
  <2>2. w[n + 1] = Upwards(parent)[w[n]]
    BY <1>3, <2>1
  <2> QED BY <1>11, <2>2 DEF Upwards
<1>13. \A j, k \in 0..(s - 1) : w[j] = w[k] => j = k
  <2> SUFFICES ASSUME NEW j \in 0..(s - 1), NEW k \in 0..(s - 1), j < k, w[j] = w[k] PROVE FALSE
    BY <1>7
  <2>1. j \in 0..(k - 1)
    BY <1>7
  <2> QED BY <1>11, <2>1
<1>14. WalkOf(parent, e, w, s)
  BY <1>3, <1>7, <1>9, <1>11, <1>12, <1>13 DEF WalkOf, N
<1>15. Chart!AncestorIds(parent, e) = [n \in 1..(s - 1) |-> w[n]]
  <2>1. Chart!AncestorIds(parent, e) = [n \in 1..(Chart!Min(T) - 1) |-> f[n]]
    <3>1. at = f
      BY <1>3
    <3> HIDE DEF f, T
    <3>2. stops(at) = T
      BY <1>4, <3>1
    <3> HIDE DEF stops
    <3> QED BY <1>2, <3>1, <3>2
  <2>2. \A n \in 1..(s - 1) : f[n] = w[n]
    BY <1>1, <1>7
  <2> HIDE DEF T, f
  <2> QED BY <1>8, <2>1, <2>2
<1> QED BY <1>14, <1>15

\* What the walk meets is what every set closed under managers contains.
LEMMA WalkIsClosed ==
  ASSUME IsFiniteSet(ChartEmployees), None \notin ChartEmployees, NEW parent \in Parents, NEW e \in ChartEmployees,
         NEW w, NEW s, WalkOf(parent, e, w, s)
  PROVE  /\ e \in {w[n] : n \in 0..(s - 1)} /\ {w[n] : n \in 0..(s - 1)} \in SUBSET ChartEmployees
         /\ ClosedIn(parent, {w[n] : n \in 0..(s - 1)})
<1> DEFINE T == {w[n] : n \in 0..(s - 1)}
<1>1. s \in Nat /\ 1 <= s /\ w[0] = e /\ \A n \in 0..(s - 1) : w[n] \in ChartEmployees /\ w[n + 1] = parent[w[n]]
  BY DEF WalkOf
<1>2. e \in T
  <2>1. 0 \in 0..(s - 1)
    BY <1>1
  <2> QED BY <1>1, <2>1
<1>3. T \in SUBSET ChartEmployees
  BY <1>1
<1>4. ASSUME NEW x \in T PROVE parent[x] \in T \cup {None}
  <2>1. PICK n \in 0..(s - 1) : x = w[n]
    OBVIOUS
  <2>2. parent[x] = w[n + 1]
    BY <1>1, <2>1
  <2>3. CASE n = s - 1
    <3>1. parent[x] = w[s]
      BY <1>1, <2>2, <2>3
    <3> QED BY <3>1 DEF WalkOf
  <2>4. CASE n # s - 1
    <3>1. n + 1 \in 0..(s - 1)
      BY <1>1, <2>4
    <3> QED BY <2>2, <3>1
  <2> QED BY <2>3, <2>4
<1> QED BY <1>2, <1>3, <1>4 DEF ClosedIn

\* From each employee it meets, the walk goes on to the later ones.
LEMMA WalkGoesOn ==
  ASSUME None \notin ChartEmployees, NEW parent \in Parents, NEW e \in ChartEmployees,
         NEW w, NEW s, WalkOf(parent, e, w, s),
         NEW i \in 0..(s - 1), NEW S \in SUBSET ChartEmployees, w[i] \in S, ClosedIn(parent, S)
  PROVE  \A n \in 0..(s - 1) : i <= n => w[n] \in S
<1> DEFINE bad == {n \in 0..(s - 1) : i <= n /\ w[n] \notin S}
<1> SUFFICES ASSUME bad # {} PROVE FALSE
  OBVIOUS
<1>0. s \in Nat /\ \A n \in 0..(s - 1) : w[n] \in ChartEmployees /\ w[n + 1] = parent[w[n]]
  BY DEF WalkOf
<1>1. PICK m \in bad : \A k \in bad : m <= k
  <2>1. bad \subseteq Nat
    BY <1>0
  <2> HIDE DEF bad
  <2> QED BY <2>1, LeastNumber
<1>2. m \in 0..(s - 1) /\ i <= m /\ w[m] \notin S /\ m # i
  OBVIOUS
<1>3. m - 1 \in 0..(s - 1) /\ i <= m - 1 /\ m - 1 \notin bad
  BY <1>0, <1>1, <1>2
<1>4. w[m - 1] \in S
  BY <1>3
<1>5. w[m] = parent[w[m - 1]]
  BY <1>0, <1>2, <1>3
<1>6. w[m] \in ChartEmployees
  BY <1>0, <1>2
<1> QED BY <1>2, <1>4, <1>5, <1>6 DEF ClosedIn

\* get_ancestor_ids: everybody else whom the reporting lines from e come to.
LEMMA AncestorsAreReached ==
  ASSUME IsFiniteSet(ChartEmployees), None \notin ChartEmployees, NEW parent \in Parents, NEW e \in ChartEmployees
  PROVE  Chart!AncestorsOf(parent, e) = ReachedFrom(parent, e) \ {e}
<1>1. PICK w, s : WalkOf(parent, e, w, s) /\ Chart!AncestorIds(parent, e) = [n \in 1..(s - 1) |-> w[n]]
  BY WalkEnds
<1>2. Chart!AncestorsOf(parent, e) = {w[n] : n \in 1..(s - 1)}
  BY <1>1 DEF Chart!AncestorsOf
<1> DEFINE T == {w[n] : n \in 0..(s - 1)}
<1>3. s \in Nat /\ 1 <= s /\ w[0] = e /\ (\A n \in 0..(s - 1) : w[n] \in ChartEmployees)
      /\ \A j, k \in 0..(s - 1) : w[j] = w[k] => j = k
  BY <1>1 DEF WalkOf
<1>4. {w[n] : n \in 1..(s - 1)} = T \ {e}
  <2>1. \A n \in 1..(s - 1) : n \in 0..(s - 1) /\ n # 0 /\ 0 \in 0..(s - 1)
    BY <1>3
  <2>2. \A n \in 0..(s - 1) : n # 0 => n \in 1..(s - 1)
    BY <1>3
  <2> QED BY <1>3, <2>1, <2>2
<1>5. e \in T /\ T \in SUBSET ChartEmployees /\ ClosedIn(parent, T)
  <2>1. WalkOf(parent, e, w, s)
    BY <1>1
  <2> QED BY ONLY <2>1, IsFiniteSet(ChartEmployees), None \notin ChartEmployees, parent \in Parents, e \in ChartEmployees, WalkIsClosed
<1>6. \A S \in SUBSET ChartEmployees : e \in S /\ ClosedIn(parent, S) => T \subseteq S
  <2> SUFFICES ASSUME NEW S \in SUBSET ChartEmployees, e \in S, ClosedIn(parent, S),
                      NEW n \in 0..(s - 1)
               PROVE  w[n] \in S
    OBVIOUS
  <2>1. 0 \in 0..(s - 1) /\ w[0] \in S /\ 0 <= n
    BY <1>3
  <2> QED BY <1>1, <2>1, WalkGoesOn
<1> HIDE DEF T
<1>7. ReachedFrom(parent, e) = T
  BY <1>5, <1>6 DEF ReachedFrom
<1> QED BY <1>2, <1>4, <1>7

-----------------------------------------------------------------------------
(* The way down a chart *)

\* Those not seen yet who report to somebody in B.
Downwards(parent, a) == [B \in SUBSET ChartEmployees |-> B \cup {c \in ChartEmployees \ {a} : parent[c] \in B}]

\* The levels l below a, each with those before it, up to the size of the organisation.
LevelsOf(parent, a, l) ==
  /\ l \in [Nat -> SUBSET ChartEmployees]
  /\ l[0] = {c \in ChartEmployees \ {a} : parent[c] = a}
  /\ \A n \in Nat : n # 0 => l[n] = l[n - 1] \cup {c \in ChartEmployees \ {a} : parent[c] \in l[n - 1]}

LevelsBelow(parent, a, N) ==
  LET below[n \in 0..N] ==
        IF n = 0 THEN {c \in ChartEmployees \ {a} : parent[c] = a}
        ELSE below[n - 1] \cup {c \in ChartEmployees \ {a} : parent[c] \in below[n - 1]}
  IN  below

LEMMA LevelsGoDown ==
  ASSUME NEW parent \in Parents, NEW a \in ChartEmployees, NEW N \in Nat
  PROVE  \E l : LevelsOf(parent, a, l) /\ LevelsBelow(parent, a, N) = [n \in 0..N |-> l[n]]
<1> DEFINE D == SUBSET ChartEmployees
           g == Downwards(parent, a)
           b == {c \in ChartEmployees \ {a} : parent[c] = a}
           Body(h) == [n \in 0..N |-> IF n = 0 THEN {c \in ChartEmployees \ {a} : parent[c] = a}
                                      ELSE h[n - 1] \cup {c \in ChartEmployees \ {a} : parent[c] \in h[n - 1]}]
<1>1. b \in D /\ g \in [D -> D]
  BY DEF Downwards
<1> HIDE DEF g, D, b
<1>2. PICK l \in [Nat -> D] : l[0] = b /\ \A n \in Nat : n # 0 => l[n] = g[l[n - 1]]
  BY <1>1, FunctionBySteps
<1>3. \A n \in Nat : n # 0 => l[n] = l[n - 1] \cup {c \in ChartEmployees \ {a} : parent[c] \in l[n - 1]}
  <2> SUFFICES ASSUME NEW n \in Nat, n # 0
               PROVE  l[n] = l[n - 1] \cup {c \in ChartEmployees \ {a} : parent[c] \in l[n - 1]}
    OBVIOUS
  <2>1. n - 1 \in Nat
    OBVIOUS
  <2>2. l[n - 1] \in D /\ l[n] = g[l[n - 1]]
    BY <1>2, <2>1
  <2> QED BY <2>2 DEF g, D, Downwards
<1>4. LevelsOf(parent, a, l)
  BY <1>2, <1>3 DEF LevelsOf, D, b
<1> DEFINE f == [n \in 0..N |-> l[n]]
<1>5. f = Body(f)
  <2>1. ASSUME NEW n \in 0..N
        PROVE  f[n] = IF n = 0 THEN {c \in ChartEmployees \ {a} : parent[c] = a}
                      ELSE f[n - 1] \cup {c \in ChartEmployees \ {a} : parent[c] \in f[n - 1]}
    <3>1. CASE n = 0
      BY <1>2, <3>1 DEF b
    <3>2. CASE n # 0
      <4>1. n \in Nat /\ n - 1 \in 0..N /\ f[n - 1] = l[n - 1] /\ f[n] = l[n]
        BY <3>2
      <4> HIDE DEF f
      <4> QED BY <1>3, <3>2, <4>1
    <3> QED BY <3>1, <3>2
  <2> QED BY <2>1
<1> DEFINE below == CHOOSE h : h = Body(h)
<1>6. below = Body(below)
  BY <1>5
<1> HIDE DEF below
<1>7. \A n \in 0..N : below[n] = IF n = 0 THEN {c \in ChartEmployees \ {a} : parent[c] = a}
                                 ELSE below[n - 1] \cup {c \in ChartEmployees \ {a} : parent[c] \in below[n - 1]}
  BY <1>6
<1>8. \A n \in 0..N : below[n] = l[n]
  <2> DEFINE bad == {n \in 0..N : below[n] # l[n]}
  <2> SUFFICES ASSUME bad # {} PROVE FALSE
    OBVIOUS
  <2>1. PICK m \in bad : \A k \in bad : m <= k
    <3>1. bad \subseteq Nat
      OBVIOUS
    <3> HIDE DEF bad
    <3> QED BY <3>1, LeastNumber
  <2>2. m \in 0..N /\ below[m] # l[m]
    OBVIOUS
  <2>3. m # 0
    BY <1>2, <1>7, <2>2 DEF b
  <2>4. m - 1 \in 0..N /\ m - 1 \notin bad /\ m \in Nat
    BY <2>1, <2>2, <2>3
  <2>5. below[m - 1] = l[m - 1]
    BY <2>4
  <2>6. below[m] = below[m - 1] \cup {c \in ChartEmployees \ {a} : parent[c] \in below[m - 1]}
    BY <1>7, <2>2, <2>3
  <2> QED BY <1>3, <2>2, <2>3, <2>4, <2>5, <2>6
<1>9. below = f
  BY <1>6, <1>8
<1>10. LevelsBelow(parent, a, N) = below
  BY DEF LevelsBelow, below
<1> HIDE DEF f
<1> QED BY <1>4, <1>9, <1>10 DEF f

\* Those the way down finds are those whose reporting line comes to a.
LEMMA DescendantsReach ==
  ASSUME IsFiniteSet(ChartEmployees), None \notin ChartEmployees, NEW parent \in Parents,
         NEW a \in ChartEmployees, NEW d \in ChartEmployees
  PROVE  d \in Chart!DescendantIds(parent, a) <=> d # a /\ a \in ReachedFrom(parent, d)
<1> DEFINE N == Cardinality(ChartEmployees)
<1>1. N \in Nat
  BY FS_CardinalityType
<1>2. PICK l : LevelsOf(parent, a, l) /\ LevelsBelow(parent, a, N) = [n \in 0..N |-> l[n]]
  BY <1>1, LevelsGoDown
<1>3. Chart!DescendantIds(parent, a) = l[N]
  <2>1. Chart!DescendantIds(parent, a) = LevelsBelow(parent, a, N)[N]
    BY DEF Chart!DescendantIds, LevelsBelow, Chart!Cardinality, Cardinality
  <2> HIDE DEF N
  <2> QED BY <1>1, <1>2, <2>1
<1> HIDE DEF N
<1>4. ASSUME d \in l[N] PROVE d # a /\ a \in ReachedFrom(parent, d)
  <2> DEFINE Good(c) == c # a /\ \A S \in SUBSET ChartEmployees : c \in S /\ ClosedIn(parent, S) => a \in S
             bad == {n \in Nat : \E c \in l[n] : ~Good(c)}
  <2>1. bad = {}
    <3> SUFFICES ASSUME bad # {} PROVE FALSE
      OBVIOUS
    <3>1. PICK m \in bad : \A k \in bad : m <= k
      <4>1. bad \subseteq Nat
        OBVIOUS
      <4> HIDE DEF bad
      <4> QED BY <4>1, LeastNumber
    <3>2. m \in Nat /\ \E c \in l[m] : ~Good(c)
      OBVIOUS
    <3>3. PICK c \in l[m] : ~Good(c)
      BY <3>2
    <3>4. CASE m = 0
      <4>1. c \in ChartEmployees \ {a} /\ parent[c] = a
        BY <1>2, <3>3, <3>4 DEF LevelsOf
      <4> QED BY <3>3, <4>1 DEF ClosedIn
    <3>5. CASE m # 0
      <4>1. m - 1 \in Nat /\ m - 1 \notin bad
        BY <3>1, <3>2, <3>5
      <4>2. \A x \in l[m - 1] : Good(x)
        BY <4>1
      <4>3. c \notin l[m - 1]
        BY <3>3, <4>2
      <4>4. c \in ChartEmployees \ {a} /\ parent[c] \in l[m - 1] /\ l[m - 1] \in SUBSET ChartEmployees
        BY <1>2, <3>2, <3>3, <3>5, <4>1, <4>3 DEF LevelsOf
      <4>5. Good(parent[c]) /\ parent[c] \in ChartEmployees
        BY <4>2, <4>4
      <4> QED BY <3>3, <4>4, <4>5 DEF ClosedIn
    <3> QED BY <3>4, <3>5
  <2>2. N \notin bad
    BY <2>1
  <2>3. Good(d)
    BY <1>1, <1>4, <2>2
  <2> QED BY <2>3 DEF ReachedFrom
<1>5. ASSUME d # a, a \in ReachedFrom(parent, d) PROVE d \in l[N]
  <2>1. PICK w, s : WalkOf(parent, d, w, s)
    BY WalkEnds
  <2>2. /\ s \in Nat /\ w[0] = d /\ s <= N
        /\ \A n \in 0..(s - 1) : w[n] \in ChartEmployees /\ w[n + 1] = parent[w[n]]
        /\ \A j, k \in 0..(s - 1) : w[j] = w[k] => j = k
    BY <2>1 DEF WalkOf, N
  <2>3. PICK k \in 0..(s - 1) : w[k] = a
    <3>1. a \in {w[n] : n \in 0..(s - 1)}
      <4> DEFINE T == {w[n] : n \in 0..(s - 1)}
      <4>1. d \in T /\ T \in SUBSET ChartEmployees /\ ClosedIn(parent, T)
        BY <2>1, WalkIsClosed
      <4> HIDE DEF T
      <4>2. a \in T
        BY <1>5, <4>1 DEF ReachedFrom
      <4> QED BY <4>2 DEF T
    <3> QED BY <3>1
  <2>4. k # 0 /\ k \in Nat /\ k - 1 \in Nat
    BY <1>5, <2>2, <2>3
  <2>5. l \in [Nat -> SUBSET ChartEmployees]
        /\ l[0] = {c \in ChartEmployees \ {a} : parent[c] = a}
        /\ \A n \in Nat : n # 0 => l[n] = l[n - 1] \cup {c \in ChartEmployees \ {a} : parent[c] \in l[n - 1]}
    BY <1>2 DEF LevelsOf
  <2> DEFINE Late(n) == \E i \in 0..(k - 1) : k - 1 <= i + n /\ w[i] \notin l[n]
             bad == {n \in Nat : Late(n)}
  <2>6. bad = {}
    <3> SUFFICES ASSUME bad # {} PROVE FALSE
      OBVIOUS
    <3>1. PICK m \in bad : \A n \in bad : m <= n
      <4>1. bad \subseteq Nat
        OBVIOUS
      <4> HIDE DEF bad
      <4> QED BY <4>1, LeastNumber
    <3>2. m \in Nat /\ Late(m)
      OBVIOUS
    <3>3. PICK i \in 0..(k - 1) : k - 1 <= i + m /\ w[i] \notin l[m]
      BY <3>2
    <3>4. i \in 0..(s - 1) /\ i + 1 \in 0..(s - 1) /\ i # k /\ w[i] \in ChartEmployees \ {a} /\ w[i + 1] = parent[w[i]]
      BY <2>2, <2>3, <2>4, <3>3
    <3>5. CASE m = 0
      <4>1. i + 1 = k
        BY <2>4, <3>3, <3>5
      <4>2. parent[w[i]] = a
        BY <2>3, <3>4, <4>1
      <4> QED BY <2>5, <3>3, <3>4, <3>5, <4>2
    <3>6. CASE m # 0
      <4>1. m - 1 \in Nat /\ m - 1 \notin bad
        BY <3>1, <3>2, <3>6
      <4>2. \A j \in 0..(k - 1) : k - 1 <= j + (m - 1) => w[j] \in l[m - 1]
        BY <4>1
      <4>3. w[i] \notin l[m - 1]
        BY <2>5, <3>2, <3>3, <3>6, <4>1
      <4>4. ~ (k - 1 <= i + (m - 1))
        BY <3>3, <4>2, <4>3
      <4>5. i + 1 \in 0..(k - 1) \/ i + 1 = k
        BY <2>4, <3>3
      <4>6. CASE i + 1 = k
        BY <2>4, <3>2, <3>6, <4>4, <4>6
      <4>7. CASE i + 1 \in 0..(k - 1)
        <5>1. k - 1 <= (i + 1) + (m - 1)
          BY <2>4, <3>2, <3>3
        <5>2. w[i + 1] \in l[m - 1]
          BY <4>2, <4>7, <5>1
        <5> QED BY <2>5, <3>2, <3>3, <3>4, <3>6, <5>2
      <4> QED BY <4>5, <4>6, <4>7
    <3> QED BY <3>5, <3>6
  <2>7. ~Late(N)
    BY <1>1, <2>6
  <2>8. 0 \in 0..(k - 1) /\ k - 1 <= 0 + N
    BY <1>1, <2>2, <2>3, <2>4
  <2> QED BY <2>2, <2>7, <2>8
<1> QED BY <1>3, <1>4, <1>5

-----------------------------------------------------------------------------
(* What a chart promises, whichever it is *)

LEMMA UpIsDown ==
  ASSUME IsFiniteSet(ChartEmployees), None \notin ChartEmployees, NEW parent \in Parents,
         NEW a \in ChartEmployees, NEW d \in ChartEmployees
  PROVE  a \in Chart!AncestorsOf(parent, d) <=> d \in Chart!DescendantIds(parent, a)
BY AncestorsAreReached, DescendantsReach

LEMMA CommonIsLowest ==
  ASSUME IsFiniteSet(ChartEmployees), None \notin ChartEmployees, NEW parent \in Parents,
         NEW a \in ChartEmployees, NEW b \in ChartEmployees
  PROVE  LET c == Chart!CommonManager(parent, a, b)
             shared == Chart!AncestorsOf(parent, a) \cap Chart!AncestorsOf(parent, b)
         IN  IF c = None THEN shared = {}
             ELSE c \in shared /\ \A x \in shared : x = c \/ x \in Chart!AncestorsOf(parent, c)
<1> DEFINE shared == Chart!AncestorsOf(parent, a) \cap Chart!AncestorsOf(parent, b)
<1>1. PICK w, s : WalkOf(parent, a, w, s) /\ Chart!AncestorIds(parent, a) = [n \in 1..(s - 1) |-> w[n]]
  BY WalkEnds
<1>2. Chart!AncestorsOf(parent, a) = {w[n] : n \in 1..(s - 1)}
  BY <1>1 DEF Chart!AncestorsOf
<1>3. s \in Nat /\ (\A n \in 0..(s - 1) : w[n] \in ChartEmployees)
      /\ \A j, k \in 0..(s - 1) : w[j] = w[k] => j = k
  BY <1>1 DEF WalkOf
<1> DEFINE common == {n \in 1..(s - 1) : a = b \/ w[n] \in Chart!AncestorsOf(parent, b)}
<1>4. Chart!CommonManager(parent, a, b) =
        IF common = {} THEN None ELSE [n \in 1..(s - 1) |-> w[n]][Chart!Min(common)]
  <2> DEFINE over(h) == {n \in DOMAIN h : a = b \/ h[n] \in Chart!AncestorsOf(parent, b)}
             v == [n \in 1..(s - 1) |-> w[n]]
  <2>1. Chart!CommonManager(parent, a, b) =
          IF over(Chart!AncestorIds(parent, a)) = {} THEN None
          ELSE Chart!AncestorIds(parent, a)[Chart!Min(over(Chart!AncestorIds(parent, a)))]
    BY DEF Chart!CommonManager
  <2>2. over(v) = common
    OBVIOUS
  <2>3. Chart!AncestorIds(parent, a) = v
    BY <1>1
  <2> HIDE DEF over, v, common
  <2>4. Chart!CommonManager(parent, a, b) = IF common = {} THEN None ELSE v[Chart!Min(common)]
    BY <2>1, <2>2, <2>3
  <2> QED BY <2>4 DEF v
<1>5. \A n \in 1..(s - 1) : n \in common <=> w[n] \in shared
  BY <1>2
<1>6. common \subseteq 1..(s - 1)
  OBVIOUS
<1>7. \A x \in shared : \E n \in common : x = w[n]
  BY <1>2, <1>5
<1> HIDE DEF common
<1>8. CASE common = {}
  <2>1. shared = {}
    BY <1>7, <1>8
  <2> QED BY <1>4, <1>8, <2>1
<1>9. CASE common # {}
  <2>1. PICK i \in common : \A k \in common : i <= k
    <3>1. common \subseteq Nat
      BY <1>6
    <3> QED BY <1>9, <3>1, LeastNumber
  <2>2. Chart!Min(common) = i
    <3>1. \A x \in common : (\A y \in common : x <= y) => x = i
      BY <1>6, <2>1
    <3> QED BY <2>1, <3>1 DEF Chart!Min
  <2>3. i \in 1..(s - 1) /\ i \in 0..(s - 1)
    BY <1>3, <1>6, <2>1
  <2>4. Chart!CommonManager(parent, a, b) = w[i]
    BY <1>4, <1>9, <2>2, <2>3
  <2>5. w[i] \in shared /\ w[i] \in ChartEmployees
    BY <1>3, <1>5, <2>1, <2>3
  <2>6. \A x \in shared : x = w[i] \/ x \in Chart!AncestorsOf(parent, w[i])
    <3> SUFFICES ASSUME NEW x \in shared, x # w[i] PROVE x \in Chart!AncestorsOf(parent, w[i])
      OBVIOUS
    <3>1. PICK n \in common : x = w[n]
      BY <1>7
    <3>2. n \in 0..(s - 1) /\ i <= n
      BY <1>3, <1>6, <2>1, <3>1
    <3>3. x \in ChartEmployees
      BY <1>3, <3>1, <3>2
    <3>4. ASSUME NEW S \in SUBSET ChartEmployees, w[i] \in S, ClosedIn(parent, S) PROVE x \in S
      <4>1. w[n] \in S
        BY <1>1, <2>3, <3>2, <3>4, WalkGoesOn
      <4> QED BY <3>1, <4>1
    <3>5. x \in ReachedFrom(parent, w[i])
      BY <3>3, <3>4 DEF ReachedFrom
    <3>6. Chart!AncestorsOf(parent, w[i]) = ReachedFrom(parent, w[i]) \ {w[i]}
      BY <2>5, AncestorsAreReached
    <3> QED BY <3>5, <3>6
  <2>7. w[i] # None
    BY <2>5
  <2> HIDE DEF shared
  <2>8. LET c == Chart!CommonManager(parent, a, b) IN
        IF c = None THEN shared = {}
        ELSE c \in shared /\ \A x \in shared : x = c \/ x \in Chart!AncestorsOf(parent, c)
    BY <2>4, <2>5, <2>6, <2>7
  <2> QED BY <2>8 DEF shared
<1> QED BY <1>8, <1>9

-----------------------------------------------------------------------------
(* The chart while it changes                                                *)

ActiveIn(accounts, e) == accounts[e] # "ABSENT" /\ accounts[e] \notin Chart!Terminal
Shown(parent, accounts) == [e \in ChartEmployees |-> IF ActiveIn(accounts, e) THEN parent[e] ELSE None]

ChartTyped ==
  /\ Chart!ChartTypeOK
  /\ changes \subseteq [employee : ChartEmployees, manager : ChartEmployees \cup {None}, written : BOOLEAN]
  /\ cache \in [fresh : BOOLEAN, parent : Parents]

\* Requests that do not interleave: one change at a time, and no filling of the cache meanwhile.
OneChange ==
  ~chartMode.concurrent => (\A c, d \in changes : c = d) /\ (changes # {} => fills = {})

\* What the check of a change has found is still so when it is written.
StillChecked ==
  ~chartMode.concurrent => \A c \in changes : ~c.written /\ c.manager # None =>
    ActiveIn(account, c.manager) /\ c.employee \notin ReachedFrom(manager, c.manager)

NoRings ==
  ~chartMode.concurrent /\ "transfer" \notin chartMode.operations => \A S \in SUBSET ChartEmployees : ~RingIn(manager, S)

NoLeavers ==
  ~chartMode.concurrent /\ "execute" \notin chartMode.operations =>
    \A e \in ChartEmployees : manager[e] # None => ActiveIn(account, manager[e])

\* A reading is of the chart as it is, until it is built into the cache.
ReadingsCurrent ==
  ~chartMode.concurrent /\ chartMode.operations = {} =>
    /\ fills \subseteq {Shown(manager, account)}
    /\ cache.fresh /\ (\A c \in changes : ~c.written) => cache.parent = Shown(manager, account)

ChartInv == ChartTyped /\ OneChange /\ StillChecked /\ NoRings /\ NoLeavers /\ ReadingsCurrent

LEMMA ChartMeanings ==
  /\ \A x : Chart!IsActive(x) <=> ActiveIn(account, x)
  /\ Chart!Relationships = Shown(manager, account)
  /\ \A x : Chart!Above(x) = ReachedFrom(manager, x)
BY DEF Chart!IsActive, Chart!Exists, ActiveIn, Chart!Relationships, Shown, Chart!Above, Chart!Closed, ReachedFrom, ClosedIn

LEMMA ChartFacts ==
  ASSUME ChartTyped
  PROVE  /\ manager \in Parents
         /\ account \in [ChartEmployees -> ChartAccounts \cup {"ABSENT", "TERMINATED"}]
         /\ \A x \in ChartEmployees : account[x] = "ABSENT" => manager[x] = None
         /\ \A x, y \in ChartEmployees : manager[x] = y => account[y] # "ABSENT"
         /\ \A c \in changes : c.employee \in ChartEmployees /\ c.manager \in ChartEmployees \cup {None}
                               /\ c.written \in BOOLEAN
         /\ fills \subseteq Parents
         /\ cache \in [fresh : BOOLEAN, parent : Parents]
BY DEF ChartTyped, Chart!ChartTypeOK, Parents, Chart!Exists, Chart!ReportsOf

LEMMA ChartTypedAgain ==
  ASSUME chartMode' \in ChartModes, manager' \in Parents,
         account' \in [ChartEmployees -> ChartAccounts \cup {"ABSENT", "TERMINATED"}],
         \A x \in ChartEmployees : account'[x] = "ABSENT" => manager'[x] = None,
         \A x, y \in ChartEmployees : manager'[x] = y => account'[y] # "ABSENT",
         changes' \subseteq [employee : ChartEmployees, manager : ChartEmployees \cup {None}, written : BOOLEAN],
         fills' \subseteq Parents, cache' \in [fresh : BOOLEAN, parent : Parents]
  PROVE  ChartTyped'
BY DEF ChartTyped, Chart!ChartTypeOK, Parents, Chart!Exists, Chart!ReportsOf

LEMMA ChartInvInit == ChartAssumption /\ Chart!Init => ChartInv
<1> SUFFICES ASSUME ChartAssumption, Chart!Init PROVE ChartInv
  OBVIOUS
<1>1. ChartTyped
  BY DEF ChartAssumption, Chart!Init, ChartTyped, Chart!ChartTypeOK, Parents, Chart!Exists, Chart!ReportsOf
<1>2. NoRings
  BY DEF ChartAssumption, Chart!Init, NoRings, RingIn
<1>3. OneChange /\ StillChecked /\ NoLeavers /\ ReadingsCurrent
  BY DEF Chart!Init, OneChange, StillChecked, NoLeavers, ReadingsCurrent
<1> QED BY <1>1, <1>2, <1>3 DEF ChartInv

\* The steps of the cache and of a change before and after it is written.
LEMMA CacheStepsKeep ==
  ASSUME ChartAssumption, ChartInv, UNCHANGED chartMode,
         Chart!ReadChart \/ Chart!BuildCache \/ Chart!Expire \/ (\E c \in changes : Chart!EndChange(c)) \/
         (\E e \in ChartEmployees, m \in ChartEmployees \cup {None} : Chart!CheckChange(e, m))
  PROVE  ChartInv'
<1>0. /\ manager \in Parents
      /\ account \in [ChartEmployees -> ChartAccounts \cup {"ABSENT", "TERMINATED"}]
      /\ \A x \in ChartEmployees : account[x] = "ABSENT" => manager[x] = None
      /\ \A x, y \in ChartEmployees : manager[x] = y => account[y] # "ABSENT"
      /\ changes \subseteq [employee : ChartEmployees, manager : ChartEmployees \cup {None}, written : BOOLEAN]
      /\ fills \subseteq Parents
      /\ cache \in [fresh : BOOLEAN, parent : Parents]
      /\ chartMode \in ChartModes
  BY ChartFacts DEF ChartInv, ChartTyped, Chart!ChartTypeOK
<1>1. UNCHANGED <<manager, account>>
  BY DEF Chart!ReadChart, Chart!BuildCache, Chart!Expire, Chart!EndChange, Chart!CheckChange
<1>2. Chart!Relationships = Shown(manager, account) /\ Shown(manager, account) \in Parents
  BY <1>0, ChartMeanings DEF Shown, Parents
<1>3. NoRings' /\ NoLeavers'
  BY <1>1 DEF ChartInv, NoRings, NoLeavers
<1>4. CASE Chart!ReadChart
  <2>1. ChartTyped'
    BY <1>0, <1>1, <1>2, <1>4, ChartTypedAgain DEF Chart!ReadChart
  <2>2. OneChange' /\ StillChecked'
    BY <1>4 DEF Chart!ReadChart, Chart!Serial, ChartInv, OneChange, StillChecked
  <2>3. ReadingsCurrent'
    BY <1>1, <1>2, <1>4 DEF Chart!ReadChart, ChartInv, ReadingsCurrent
  <2> QED BY <1>3, <2>1, <2>2, <2>3 DEF ChartInv
<1>5. CASE Chart!BuildCache
  <2>0. PICK f \in fills : cache' = [fresh |-> TRUE, parent |-> f] /\ fills' = fills \ {f}
    BY <1>5 DEF Chart!BuildCache
  <2>1. ChartTyped'
    BY <1>0, <1>1, <1>5, <2>0, ChartTypedAgain DEF Chart!BuildCache
  <2>2. OneChange' /\ StillChecked'
    BY <1>5, <2>0 DEF Chart!BuildCache, ChartInv, OneChange, StillChecked
  <2>3. ReadingsCurrent'
    BY <1>1, <1>5, <2>0 DEF Chart!BuildCache, ChartInv, ReadingsCurrent
  <2> QED BY <1>3, <2>1, <2>2, <2>3 DEF ChartInv
<1>6. CASE Chart!Expire
  <2>1. ChartTyped' /\ cache'.fresh = FALSE
    BY <1>0, <1>1, <1>6, ChartTypedAgain DEF Chart!Expire, Chart!Invalidated
  <2>2. OneChange' /\ StillChecked'
    BY <1>6 DEF Chart!Expire, ChartInv, OneChange, StillChecked
  <2>3. ReadingsCurrent'
    BY <1>1, <1>6, <2>1 DEF Chart!Expire, ChartInv, ReadingsCurrent
  <2> QED BY <1>3, <2>1, <2>2, <2>3 DEF ChartInv
<1>7. ASSUME NEW c \in changes, Chart!EndChange(c) PROVE ChartInv'
  <2>0. cache' = (IF c.written THEN Chart!Invalidated ELSE cache) /\ changes' = changes \ {c} /\ fills' = fills
    BY <1>7 DEF Chart!EndChange
  <2>1. ChartTyped' /\ (c.written => cache'.fresh = FALSE)
    BY <1>0, <1>1, <2>0, ChartTypedAgain DEF Chart!Invalidated
  <2>2. OneChange' /\ StillChecked'
    BY <1>1, <2>0 DEF ChartInv, OneChange, StillChecked
  <2>3. ReadingsCurrent'
    <3> SUFFICES ASSUME ~chartMode.concurrent, chartMode.operations = {}
                 PROVE  /\ fills' \subseteq {Shown(manager', account')}
                        /\ cache'.fresh /\ (\A d \in changes' : ~d.written) => cache'.parent = Shown(manager', account')
      BY DEF ReadingsCurrent
    <3>1. fills' \subseteq {Shown(manager', account')}
      BY <1>1, <2>0 DEF ChartInv, ReadingsCurrent
    <3>2. ASSUME cache'.fresh PROVE cache'.parent = Shown(manager', account')
      <4>1. ~c.written /\ cache' = cache
        BY <2>0, <2>1, <3>2
      <4>2. \A d \in changes : ~d.written
        BY <4>1 DEF ChartInv, OneChange
      <4> QED BY <1>1, <3>2, <4>1, <4>2 DEF ChartInv, ReadingsCurrent
    <3> QED BY <3>1, <3>2
  <2> QED BY <1>3, <2>1, <2>2, <2>3 DEF ChartInv
<1>8. ASSUME NEW e \in ChartEmployees, NEW m \in ChartEmployees \cup {None}, Chart!CheckChange(e, m) PROVE ChartInv'
  <2> DEFINE d == [employee |-> e, manager |-> m, written |-> FALSE]
  <2>0. changes' = changes \cup {d} /\ UNCHANGED <<fills, cache>> /\ Chart!Serial
        /\ (m # None => ActiveIn(account, m) /\ e \notin ReachedFrom(manager, m))
    BY <1>8, ChartMeanings DEF Chart!CheckChange, Chart!Managers, Chart!NoCycle
  <2>1. d \in [employee : ChartEmployees, manager : ChartEmployees \cup {None}, written : BOOLEAN]
        /\ d.employee = e /\ d.manager = m /\ ~d.written
    OBVIOUS
  <2> HIDE DEF d
  <2>2. ChartTyped'
    BY <1>0, <1>1, <2>0, <2>1, ChartTypedAgain
  <2>3. OneChange' /\ StillChecked'
    BY <1>1, <2>0, <2>1 DEF ChartInv, OneChange, StillChecked, Chart!Serial
  <2>4. ReadingsCurrent'
    BY <1>1, <2>0, <2>1 DEF ChartInv, ReadingsCurrent, Chart!Serial
  <2> QED BY <1>3, <2>2, <2>3, <2>4 DEF ChartInv
<1> QED BY <1>4, <1>5, <1>6, <1>7, <1>8

\* A change of the chart, or of an account, by one request alone.
LEMMA WrittenAlone ==
  ASSUME ChartInv, UNCHANGED <<chartMode, changes, fills>>, Chart!Serial, ChartTyped', NoRings', NoLeavers',
         chartMode.operations = {} => cache'.fresh = FALSE
  PROVE  ChartInv'
BY DEF ChartInv, Chart!Serial, OneChange, StillChecked, ReadingsCurrent

LEMMA AdditionKeeps ==
  ASSUME ChartAssumption, ChartInv, UNCHANGED chartMode,
         NEW e \in ChartEmployees, NEW m \in ChartEmployees \cup {None}, Chart!Create(e, m)
  PROVE  ChartInv'
<1>0. /\ manager \in Parents /\ None \notin ChartEmployees /\ "ABSENT" \notin ChartAccounts
      /\ account \in [ChartEmployees -> ChartAccounts \cup {"ABSENT", "TERMINATED"}]
      /\ \A x \in ChartEmployees : account[x] = "ABSENT" => manager[x] = None
      /\ \A x, y \in ChartEmployees : manager[x] = y => account[y] # "ABSENT"
      /\ cache \in [fresh : BOOLEAN, parent : Parents]
  BY ChartFacts DEF ChartInv, ChartAssumption
<1>1. PICK s \in ChartAccounts : account' = [account EXCEPT ![e] = s]
  BY DEF Chart!Create
<1>2. /\ manager' = [manager EXCEPT ![e] = m] /\ account[e] = "ABSENT" /\ Chart!Serial
      /\ m # None => ActiveIn(account, m) /\ m # e
      /\ UNCHANGED <<changes, fills>> /\ cache' = Chart!Invalidated
  BY ChartMeanings DEF Chart!Create, Chart!Managers, Chart!Exists, ActiveIn
<1>3. ChartTyped' /\ cache'.fresh = FALSE
  <2>1. manager' \in Parents /\ account' \in [ChartEmployees -> ChartAccounts \cup {"ABSENT", "TERMINATED"}]
    BY <1>0, <1>1, <1>2 DEF Parents
  <2>2. \A x \in ChartEmployees : account'[x] = "ABSENT" => manager'[x] = None
    BY <1>0, <1>1, <1>2 DEF Parents
  <2>3. \A x, y \in ChartEmployees : manager'[x] = y => account'[y] # "ABSENT"
    BY <1>0, <1>1, <1>2 DEF Parents, ActiveIn
  <2>4. cache' \in [fresh : BOOLEAN, parent : Parents] /\ cache'.fresh = FALSE
    BY <1>0, <1>2 DEF Chart!Invalidated
  <2> QED BY <1>2, <2>1, <2>2, <2>3, <2>4, ChartTypedAgain DEF ChartInv, ChartTyped, Chart!ChartTypeOK, Parents
<1>4. NoRings'
  <2> SUFFICES ASSUME ~chartMode.concurrent, "transfer" \notin chartMode.operations
               PROVE  \A S \in SUBSET ChartEmployees : ~RingIn(manager', S)
    BY DEF NoRings
  <2>1. \A S \in SUBSET ChartEmployees : ~RingIn(manager, S)
    BY DEF ChartInv, NoRings
  <2>2. manager' \in Parents
    BY <1>0, <1>2 DEF Parents
  <2>3. CASE m = None
    <3>1. \A x \in ChartEmployees : manager'[x] \in {manager[x], None}
      BY <1>0, <1>2, <2>3 DEF Parents
    <3> QED BY <1>0, <2>1, <2>2, <3>1, NoRingWithout
  <2>4. CASE m # None
    <3>1. e \notin ReachedFrom(manager, m)
      <4>1. ChartEmployees \ {e} \in SUBSET ChartEmployees /\ m \in ChartEmployees \ {e}
        BY <1>2, <2>4
      <4>2. ClosedIn(manager, ChartEmployees \ {e})
        BY <1>0, <1>2 DEF ClosedIn, Parents
      <4> QED BY <4>1, <4>2 DEF ReachedFrom
    <3>2. \A x \in ChartEmployees : IF x \in {e} THEN manager'[x] = m ELSE manager'[x] \in {manager[x], None}
      BY <1>0, <1>2 DEF Parents
    <3>3. m \in ChartEmployees /\ {e} \in SUBSET ChartEmployees
      BY <2>4
    <3> QED BY <1>0, <1>2, <2>1, <2>2, <3>1, <3>3, NoRingMoved
  <2> QED BY <2>3, <2>4
<1>5. NoLeavers'
  BY <1>0, <1>1, <1>2 DEF ChartInv, NoLeavers, ActiveIn, Parents
<1> QED BY <1>2, <1>3, <1>4, <1>5, WrittenAlone

LEMMA WriteKeeps ==
  ASSUME ChartAssumption, ChartInv, UNCHANGED chartMode, NEW c \in changes, Chart!WriteChange(c)
  PROVE  ChartInv'
<1>0. /\ manager \in Parents /\ None \notin ChartEmployees
      /\ account \in [ChartEmployees -> ChartAccounts \cup {"ABSENT", "TERMINATED"}]
      /\ \A x \in ChartEmployees : account[x] = "ABSENT" => manager[x] = None
      /\ \A x, y \in ChartEmployees : manager[x] = y => account[y] # "ABSENT"
      /\ c.employee \in ChartEmployees /\ c.manager \in ChartEmployees \cup {None}
      /\ changes \subseteq [employee : ChartEmployees, manager : ChartEmployees \cup {None}, written : BOOLEAN]
      /\ fills \subseteq Parents /\ cache \in [fresh : BOOLEAN, parent : Parents] /\ chartMode \in ChartModes
  BY ChartFacts DEF ChartInv, ChartAssumption, ChartTyped, Chart!ChartTypeOK
<1>1. PICK e \in ChartEmployees, m \in ChartEmployees \cup {None} : e = c.employee /\ m = c.manager
  BY <1>0
<1>2. /\ manager' = [manager EXCEPT ![e] = m] /\ account[e] # "ABSENT" /\ ~c.written
      /\ m # None => account[m] # "ABSENT"
      /\ UNCHANGED <<account, fills, cache>>
  BY <1>1 DEF Chart!WriteChange, Chart!Exists
<1>3. PICK d : d = [c EXCEPT !.written = TRUE]
  OBVIOUS
<1>4. d \in [employee : ChartEmployees, manager : ChartEmployees \cup {None}, written : BOOLEAN] /\ d.written
      /\ changes' = (changes \ {c}) \cup {d}
  BY <1>0, <1>3 DEF Chart!WriteChange
<1>5. manager' \in Parents
  BY <1>0, <1>2 DEF Parents
<1>6. ChartTyped'
  <2>1. \A x \in ChartEmployees : account'[x] = "ABSENT" => manager'[x] = None
    BY <1>0, <1>2 DEF Parents
  <2>2. \A x, y \in ChartEmployees : manager'[x] = y => account'[y] # "ABSENT"
    BY <1>0, <1>2 DEF Parents
  <2> QED BY <1>0, <1>2, <1>4, <1>5, <2>1, <2>2, ChartTypedAgain
<1>7. ASSUME ~chartMode.concurrent
      PROVE  changes' = {d} /\ fills = {}
             /\ (m # None => ActiveIn(account, m) /\ e \notin ReachedFrom(manager, m))
  <2>1. changes = {c} /\ fills = {}
    BY <1>7 DEF ChartInv, OneChange
  <2> QED BY <1>1, <1>2, <1>4, <1>7, <2>1 DEF ChartInv, StillChecked
<1>8. OneChange' /\ StillChecked' /\ ReadingsCurrent'
  BY <1>2, <1>4, <1>7 DEF OneChange, StillChecked, ReadingsCurrent
<1>9. NoRings'
  <2> SUFFICES ASSUME ~chartMode.concurrent, "transfer" \notin chartMode.operations
               PROVE  \A S \in SUBSET ChartEmployees : ~RingIn(manager', S)
    BY DEF NoRings
  <2>1. \A S \in SUBSET ChartEmployees : ~RingIn(manager, S)
    BY DEF ChartInv, NoRings
  <2>2. CASE m = None
    <3>1. \A x \in ChartEmployees : manager'[x] \in {manager[x], None}
      BY <1>0, <1>2, <2>2 DEF Parents
    <3> QED BY <1>0, <1>5, <2>1, <3>1, NoRingWithout
  <2>3. CASE m # None
    <3>1. e \notin ReachedFrom(manager, m)
      BY <1>7, <2>3
    <3>2. \A x \in ChartEmployees : IF x \in {e} THEN manager'[x] = m ELSE manager'[x] \in {manager[x], None}
      BY <1>0, <1>2 DEF Parents
    <3>3. m \in ChartEmployees /\ {e} \in SUBSET ChartEmployees
      BY <2>3
    <3> QED BY <1>0, <1>2, <1>5, <2>1, <3>1, <3>3, NoRingMoved
  <2> QED BY <2>2, <2>3
<1>10. NoLeavers'
  BY <1>0, <1>2, <1>7 DEF ChartInv, NoLeavers, Parents
<1> QED BY <1>6, <1>8, <1>9, <1>10 DEF ChartInv

\* Statuses that change, with the chart as it is.
LEMMA StatusKeeps ==
  ASSUME ChartAssumption, ChartInv, UNCHANGED chartMode, NEW e \in ChartEmployees, NEW s \in ChartAccounts \cup {"TERMINATED"},
         Chart!Serial, UNCHANGED <<manager, changes, fills>>, account[e] # "ABSENT",
         account' = [account EXCEPT ![e] = s], cache' \in {cache, Chart!Invalidated},
         chartMode.operations = {} => cache' = Chart!Invalidated,
         \/ Chart!ReportsOf(e) = {}
         \/ s \in Chart!Terminal => account[e] \in Chart!Terminal
  PROVE  ChartInv'
<1>0. /\ manager \in Parents /\ None \notin ChartEmployees /\ "ABSENT" \notin ChartAccounts
      /\ account \in [ChartEmployees -> ChartAccounts \cup {"ABSENT", "TERMINATED"}]
      /\ \A x \in ChartEmployees : account[x] = "ABSENT" => manager[x] = None
      /\ \A x, y \in ChartEmployees : manager[x] = y => account[y] # "ABSENT"
      /\ changes \subseteq [employee : ChartEmployees, manager : ChartEmployees \cup {None}, written : BOOLEAN]
      /\ fills \subseteq Parents /\ cache \in [fresh : BOOLEAN, parent : Parents] /\ chartMode \in ChartModes
  BY ChartFacts DEF ChartInv, ChartAssumption, ChartTyped, Chart!ChartTypeOK
<1>1. cache' \in [fresh : BOOLEAN, parent : Parents] /\ (chartMode.operations = {} => cache'.fresh = FALSE)
  BY <1>0 DEF Chart!Invalidated
<1>2. \A x \in ChartEmployees : account'[x] = IF x = e THEN s ELSE account[x]
  BY <1>0
<1>3. ChartTyped'
  <2>1. account' \in [ChartEmployees -> ChartAccounts \cup {"ABSENT", "TERMINATED"}]
    BY <1>0
  <2>2. \A x \in ChartEmployees : account'[x] = "ABSENT" => manager'[x] = None
    BY <1>0, <1>2
  <2>3. \A x, y \in ChartEmployees : manager'[x] = y => account'[y] # "ABSENT"
    BY <1>0, <1>2
  <2> QED BY <1>0, <1>1, <2>1, <2>2, <2>3, ChartTypedAgain
<1>4. NoRings'
  BY DEF ChartInv, NoRings
<1>5. NoLeavers'
  <2> SUFFICES ASSUME ~chartMode.concurrent, "execute" \notin chartMode.operations,
                      NEW x \in ChartEmployees, manager[x] # None
               PROVE  ActiveIn(account', manager[x])
    BY DEF NoLeavers
  <2>1. ActiveIn(account, manager[x]) /\ manager[x] \in ChartEmployees
    BY <1>0 DEF ChartInv, NoLeavers, Parents
  <2>2. CASE manager[x] # e
    BY <1>2, <2>1, <2>2 DEF ActiveIn
  <2>3. CASE manager[x] = e
    <3>1. s \notin Chart!Terminal
      BY <2>1, <2>3 DEF ActiveIn, Chart!ReportsOf
    <3>2. s # "ABSENT"
      BY <1>0
    <3> QED BY <1>2, <2>3, <3>1, <3>2 DEF ActiveIn
  <2> QED BY <2>2, <2>3
<1> QED BY <1>1, <1>3, <1>4, <1>5, WrittenAlone

\* Reports that are given another manager, the request being one to transfer them or to
\* off-board e.
LEMMA MovedReportsKeep ==
  ASSUME ChartAssumption, ChartInv, UNCHANGED chartMode, NEW e \in ChartEmployees, NEW m \in ChartEmployees, NEW R \in SUBSET ChartEmployees,
         Chart!Serial, UNCHANGED <<changes, fills, cache>>, account[e] # "ABSENT",
         R # {} => ActiveIn(account, m),
         manager' = [r \in ChartEmployees |-> IF r \in R THEN m ELSE manager[r]],
         \A r \in R : manager[r] = e,
         \/ account' = account /\ "transfer" \in chartMode.operations
         \/ /\ "execute" \in chartMode.operations /\ (R # {} => m # e)
            /\ \A r \in R : r \notin ReachedFrom(manager, m)
            /\ account' \in [ChartEmployees -> ChartAccounts \cup {"ABSENT", "TERMINATED"}]
            /\ \A x \in ChartEmployees : account'[x] = "ABSENT" <=> account[x] = "ABSENT"
  PROVE  ChartInv'
<1>0. /\ manager \in Parents /\ None \notin ChartEmployees /\ "ABSENT" \notin ChartAccounts
      /\ account \in [ChartEmployees -> ChartAccounts \cup {"ABSENT", "TERMINATED"}]
      /\ \A x \in ChartEmployees : account[x] = "ABSENT" => manager[x] = None
      /\ \A x, y \in ChartEmployees : manager[x] = y => account[y] # "ABSENT"
      /\ changes \subseteq [employee : ChartEmployees, manager : ChartEmployees \cup {None}, written : BOOLEAN]
      /\ fills \subseteq Parents /\ cache \in [fresh : BOOLEAN, parent : Parents] /\ chartMode \in ChartModes
  BY ChartFacts DEF ChartInv, ChartAssumption, ChartTyped, Chart!ChartTypeOK
<1>1. manager' \in Parents /\ \A x \in ChartEmployees : manager'[x] = IF x \in R THEN m ELSE manager[x]
  BY <1>0 DEF Parents
<1>2. /\ account' \in [ChartEmployees -> ChartAccounts \cup {"ABSENT", "TERMINATED"}]
      /\ \A x \in ChartEmployees : account'[x] = "ABSENT" <=> account[x] = "ABSENT"
  BY <1>0
<1>3. ChartTyped'
  <2>1. \A x \in ChartEmployees : account'[x] = "ABSENT" => manager'[x] = None
    BY <1>0, <1>1, <1>2
  <2>2. \A x, y \in ChartEmployees : manager'[x] = y => account'[y] # "ABSENT"
    BY <1>0, <1>1, <1>2 DEF ActiveIn
  <2> QED BY <1>0, <1>1, <1>2, <2>1, <2>2, ChartTypedAgain
<1>4. NoRings'
  <2> SUFFICES ASSUME ~chartMode.concurrent, "transfer" \notin chartMode.operations
               PROVE  \A S \in SUBSET ChartEmployees : ~RingIn(manager', S)
    BY DEF NoRings
  <2>1. \A S \in SUBSET ChartEmployees : ~RingIn(manager, S)
    BY DEF ChartInv, NoRings
  <2>2. \A x \in ChartEmployees : IF x \in R THEN manager'[x] = m ELSE manager'[x] \in {manager[x], None}
    BY <1>1
  <2>3. \A x \in R : x \notin ReachedFrom(manager, m)
    OBVIOUS
  <2> QED BY <1>0, <1>1, <2>1, <2>2, <2>3, NoRingClosed
<1>5. NoLeavers'
  <2> SUFFICES ASSUME ~chartMode.concurrent, "execute" \notin chartMode.operations,
                      NEW x \in ChartEmployees, manager'[x] # None
               PROVE  ActiveIn(account', manager'[x])
    BY DEF NoLeavers
  <2>1. account' = account
    OBVIOUS
  <2>2. manager[x] # None => ActiveIn(account, manager[x])
    BY DEF ChartInv, NoLeavers
  <2> QED BY <1>1, <2>1, <2>2
<1> QED BY <1>3, <1>4, <1>5, WrittenAlone

\* The row of somebody who has left goes.
LEMMA RemovalKeeps ==
  ASSUME ChartAssumption, ChartInv, UNCHANGED chartMode, NEW e \in ChartEmployees, Chart!Serial,
         UNCHANGED <<changes, fills>>, cache' = Chart!Invalidated, account[e] \in Chart!Terminal,
         manager' = [r \in ChartEmployees |-> IF r = e \/ manager[r] = e THEN None ELSE manager[r]],
         account' = [account EXCEPT ![e] = "ABSENT"]
  PROVE  ChartInv'
<1>0. /\ manager \in Parents /\ None \notin ChartEmployees
      /\ account \in [ChartEmployees -> ChartAccounts \cup {"ABSENT", "TERMINATED"}]
      /\ \A x \in ChartEmployees : account[x] = "ABSENT" => manager[x] = None
      /\ \A x, y \in ChartEmployees : manager[x] = y => account[y] # "ABSENT"
      /\ changes \subseteq [employee : ChartEmployees, manager : ChartEmployees \cup {None}, written : BOOLEAN]
      /\ fills \subseteq Parents /\ cache \in [fresh : BOOLEAN, parent : Parents] /\ chartMode \in ChartModes
  BY ChartFacts DEF ChartInv, ChartAssumption, ChartTyped, Chart!ChartTypeOK
<1>1. manager' \in Parents
      /\ \A x \in ChartEmployees : manager'[x] = IF x = e \/ manager[x] = e THEN None ELSE manager[x]
  BY <1>0 DEF Parents
<1>2. cache' \in [fresh : BOOLEAN, parent : Parents] /\ cache'.fresh = FALSE
  BY <1>0 DEF Chart!Invalidated
<1>3. ChartTyped'
  <2>1. account' \in [ChartEmployees -> ChartAccounts \cup {"ABSENT", "TERMINATED"}]
    BY <1>0
  <2>2. \A x \in ChartEmployees : account'[x] = "ABSENT" => manager'[x] = None
    BY <1>0, <1>1
  <2>3. \A x, y \in ChartEmployees : manager'[x] = y => account'[y] # "ABSENT"
    BY <1>0, <1>1
  <2> QED BY <1>0, <1>1, <1>2, <2>1, <2>2, <2>3, ChartTypedAgain
<1>4. NoRings'
  <2> SUFFICES ASSUME ~chartMode.concurrent, "transfer" \notin chartMode.operations
               PROVE  \A S \in SUBSET ChartEmployees : ~RingIn(manager', S)
    BY DEF NoRings
  <2>1. \A S \in SUBSET ChartEmployees : ~RingIn(manager, S)
    BY DEF ChartInv, NoRings
  <2>2. \A x \in ChartEmployees : manager'[x] \in {manager[x], None}
    BY <1>1
  <2> QED BY <1>0, <1>1, <2>1, <2>2, NoRingWithout
<1>5. NoLeavers'
  BY <1>0, <1>1 DEF ChartInv, NoLeavers, ActiveIn, Parents
<1> QED BY <1>2, <1>3, <1>4, <1>5, WrittenAlone

LEMMA ChartInvNext ==
  ASSUME ChartAssumption, ChartInv, [Chart!Next]_Chart!vars
  PROVE  ChartInv'
<1>0. /\ manager \in Parents /\ None \notin ChartEmployees /\ "ABSENT" \notin ChartAccounts
      /\ account \in [ChartEmployees -> ChartAccounts \cup {"ABSENT", "TERMINATED"}]
  BY ChartFacts DEF ChartInv, ChartAssumption
<1>1. CASE UNCHANGED Chart!vars
  BY <1>1 DEF Chart!vars, ChartInv, ChartTyped, Chart!ChartTypeOK, Chart!Exists, Chart!ReportsOf, OneChange, StillChecked, NoRings,
              NoLeavers, ReadingsCurrent
<1>2. ASSUME Chart!Next, UNCHANGED chartMode, Chart!ReadChart \/ Chart!BuildCache \/ Chart!Expire PROVE ChartInv'
  BY <1>2, CacheStepsKeep
<1>3. ASSUME UNCHANGED chartMode, NEW c \in changes, Chart!WriteChange(c) \/ Chart!EndChange(c) PROVE ChartInv'
  BY <1>3, WriteKeeps, CacheStepsKeep
<1>4. ASSUME UNCHANGED chartMode, NEW e \in ChartEmployees, Chart!Delete(e) PROVE ChartInv'
  <2>1. Chart!Serial /\ account[e] # "ABSENT" /\ cache' = Chart!Invalidated /\ UNCHANGED <<changes, fills>>
    BY <1>4 DEF Chart!Delete, Chart!Exists
  <2>2. CASE account[e] \in Chart!Terminal
    <3>1. /\ manager' = [r \in ChartEmployees |-> IF r = e \/ manager[r] = e THEN None ELSE manager[r]]
          /\ account' = [account EXCEPT ![e] = "ABSENT"]
      BY <1>4, <2>2 DEF Chart!Delete
    <3> QED BY <1>4, <2>1, <2>2, <3>1, RemovalKeeps
  <2>3. CASE account[e] \notin Chart!Terminal
    <3>1. Chart!ReportsOf(e) = {} /\ account' = [account EXCEPT ![e] = "TERMINATED"] /\ UNCHANGED manager
      BY <1>4, <2>3 DEF Chart!Delete
    <3>2. PICK s \in ChartAccounts \cup {"TERMINATED"} : s = "TERMINATED"
      OBVIOUS
    <3> QED BY <1>4, <2>1, <3>1, <3>2, StatusKeeps
  <2> QED BY <2>2, <2>3
<1>5. ASSUME UNCHANGED chartMode, NEW e \in ChartEmployees, NEW m \in ChartEmployees \cup {None}, Chart!Create(e, m) \/ Chart!CheckChange(e, m)
      PROVE  ChartInv'
  BY <1>5, AdditionKeeps, CacheStepsKeep
<1>6. ASSUME UNCHANGED chartMode, NEW e \in ChartEmployees, NEW s \in ChartAccounts, Chart!ChangeStatus(e, s) \/ Chart!OffboardConfirm(e, s)
      PROVE  ChartInv'
  <2>1. CASE Chart!ChangeStatus(e, s)
    BY <1>6, <2>1, StatusKeeps DEF Chart!ChangeStatus, Chart!Exists
  <2>2. CASE Chart!OffboardConfirm(e, s)
    <3>1. chartMode.operations # {} /\ Chart!Serial /\ UNCHANGED <<manager, changes, fills, cache>> /\ account[e] # "ABSENT"
          /\ account' = [account EXCEPT ![e] = s] /\ Chart!ReportsOf(e) = {}
      BY <2>2 DEF Chart!OffboardConfirm, Chart!Exists
    <3> QED BY <1>6, <3>1, StatusKeeps
  <2> QED BY <1>6, <2>1, <2>2
<1>7. ASSUME UNCHANGED chartMode, NEW e \in ChartEmployees, NEW m \in ChartEmployees, NEW R \in SUBSET Chart!ReportsOf(e),
             \/ R # {} /\ Chart!TransferReports(e, m, R)
             \/ \E s \in ChartAccounts : Chart!ExecuteOffboard(e, m, R, s)
      PROVE  ChartInv'
  <2>1. R \in SUBSET ChartEmployees /\ \A r \in R : manager[r] = e
    BY DEF Chart!ReportsOf
  <2>2. [r \in ChartEmployees |-> IF r \in R /\ manager[r] = e THEN m ELSE manager[r]]
          = [r \in ChartEmployees |-> IF r \in R THEN m ELSE manager[r]]
    BY <2>1
  <2>3. CASE R # {} /\ Chart!TransferReports(e, m, R)
    <3>1. /\ Chart!Serial /\ UNCHANGED <<changes, fills, cache>> /\ account[e] # "ABSENT"
          /\ ActiveIn(account, m) /\ account' = account /\ "transfer" \in chartMode.operations
          /\ manager' = [r \in ChartEmployees |-> IF r \in R THEN m ELSE manager[r]]
      BY <2>2, <2>3, ChartMeanings DEF Chart!TransferReports, Chart!Exists
    <3> QED BY <1>7, <2>1, <3>1, MovedReportsKeep
  <2>4. CASE \E s \in ChartAccounts : Chart!ExecuteOffboard(e, m, R, s)
    <3>1. /\ Chart!Serial /\ UNCHANGED <<changes, fills, cache>> /\ account[e] # "ABSENT"
          /\ (R # {} => ActiveIn(account, m) /\ m # e) /\ "execute" \in chartMode.operations
          /\ (\A r \in R : r \notin ReachedFrom(manager, m))
          /\ manager' = [r \in ChartEmployees |-> IF r \in R THEN m ELSE manager[r]]
          /\ \E s \in ChartAccounts : account' = [account EXCEPT ![e] = s]
      BY <2>2, <2>4, ChartMeanings DEF Chart!ExecuteOffboard, Chart!Exists, Chart!NoCycle
    <3>2. \/ account' = account /\ "transfer" \in chartMode.operations
          \/ /\ "execute" \in chartMode.operations /\ (R # {} => m # e)
             /\ \A r \in R : r \notin ReachedFrom(manager, m)
             /\ account' \in [ChartEmployees -> ChartAccounts \cup {"ABSENT", "TERMINATED"}]
             /\ \A x \in ChartEmployees : account'[x] = "ABSENT" <=> account[x] = "ABSENT"
      BY <1>0, <3>1
    <3>3. (R # {} => ActiveIn(account, m)) /\ chartMode' = chartMode
      BY <1>7, <3>1
    <3> QED BY <2>1, <3>1, <3>2, <3>3, MovedReportsKeep
  <2> QED BY <1>7, <2>3, <2>4
<1> QED BY <1>1, <1>2, <1>3, <1>4, <1>5, <1>6, <1>7 DEF Chart!Next

LEMMA ChartIsSound == ChartAssumption /\ ChartInv => Chart!ChartSound /\ Chart!UpAgreesWithDown
<1> SUFFICES ASSUME ChartAssumption, ChartInv PROVE Chart!ChartSound /\ Chart!UpAgreesWithDown
  OBVIOUS
<1>1. manager \in Parents /\ cache.parent \in Parents /\ IsFiniteSet(ChartEmployees) /\ None \notin ChartEmployees
  BY ChartFacts DEF ChartInv, ChartAssumption
<1>2. Chart!ChartTypeOK
  BY DEF ChartInv, ChartTyped
<1>3. Chart!Forest
  BY DEF ChartInv, NoRings, Chart!Forest, Chart!Ring, RingIn
<1>4. Chart!NobodyReportsToLeavers
  BY ChartMeanings DEF ChartInv, NoLeavers, Chart!NobodyReportsToLeavers
<1>5. Chart!CacheCurrent
  BY ChartMeanings DEF ChartInv, ReadingsCurrent, Chart!CacheCurrent
<1>6. Chart!LowestCommonManager
  BY <1>1, CommonIsLowest DEF Chart!LowestCommonManager
<1>7. Chart!UpAgreesWithDown
  BY <1>1, UpIsDown DEF Chart!UpAgreesWithDown
<1> QED BY <1>2, <1>3, <1>4, <1>5, <1>6, <1>7 DEF Chart!ChartSound

\* Whatever the other parts do, the chart changes the way OrgChart says.
LEMMA ChartSteps ==
  [AdminNext]_<<workflowsVars, chart, place, access, start, part>> => [Chart!Next]_Chart!vars
BY DEF AdminNext, WorkflowsStep, ChartStep, PlaceStep, AccessStep, StartStep, chart, Chart!vars

\* For any finite organisation and any ways of leaving in use: with one request at a time
\* and no transfer of reports nobody comes to report to somebody below, nobody is left with
\* a manager who has gone, and a fresh cache is the chart; and on every cached chart, rings
\* included, up agrees with down and the common manager of two is the lowest one.
THEOREM ChartSoundCorrect == AdminSpec => []ChartSound
<1>1. AdminInit => ChartInv
  BY ChartInvInit, ChartAssumption DEF AdminInit
<1>2. ChartInv /\ [AdminNext]_<<workflowsVars, chart, place, access, start, part>> => ChartInv'
  BY ChartSteps, ChartInvNext, ChartAssumption
<1>3. ChartInv => ChartSound
  BY ChartIsSound, ChartAssumption DEF ChartSound
<1> QED BY <1>1, <1>2, <1>3, PTL DEF AdminSpec

-----------------------------------------------------------------------------
(* Places *)

RowsOK == rows \in [Teams -> [PlacedEmployees -> Place!TeamRow \cup {Place!NoRow}]]
Leads(t, e) == Place!InTeam(t, e) /\ rows[t][e].role = "LEAD"
Primary(t, e) == Place!HasRow(t, e) /\ rows[t][e].primary

\* The rows there may be.
LEMMA RowShapes ==
  /\ Place!NoRow \notin Place!TeamRow
  /\ \A row \in Place!TeamRow : /\ row # Place!NoRow /\ row.left \in BOOLEAN /\ row.primary \in BOOLEAN /\ row.role \in Place!TeamRoles
                                /\ Place!LeftRow(row) \in Place!TeamRow /\ Place!LeftRow(row).left /\ ~Place!LeftRow(row).primary
                                /\ Place!LeftRow(row).role = row.role
  /\ \A r \in Place!TeamRoles, p \in BOOLEAN :
       /\ Place!Current(r, p) \in Place!TeamRow /\ Place!Current(r, p).role = r /\ ~Place!Current(r, p).left /\ Place!Current(r, p).primary = p
  /\ \A row \in Place!TeamRow, r \in Place!TeamRoles :
       LET set == [row EXCEPT !.role = r]
       IN  set \in Place!TeamRow /\ set.role = r /\ set.left = row.left /\ set.primary = row.primary
  /\ \A row \in Place!TeamRow, p \in BOOLEAN :
       LET set == [row EXCEPT !.primary = p]
       IN  set \in Place!TeamRow /\ set.role = row.role /\ set.left = row.left /\ set.primary = p
  /\ \A row \in Place!TeamRow :
       LET set == [row EXCEPT !.left = TRUE]
       IN  set \in Place!TeamRow /\ set.role = row.role /\ set.left /\ set.primary = row.primary
<1> USE DEF Place!TeamRow, Place!TeamRoles
<1>1. \A row \in Place!TeamRow : row # Place!NoRow
  BY DEF Place!NoRow
<1>2. \A row \in Place!TeamRow : /\ Place!LeftRow(row) \in Place!TeamRow /\ Place!LeftRow(row).left /\ ~Place!LeftRow(row).primary
                                 /\ Place!LeftRow(row).role = row.role
  BY DEF Place!LeftRow
<1>3. \A r \in Place!TeamRoles, p \in BOOLEAN :
       /\ Place!Current(r, p) \in Place!TeamRow /\ Place!Current(r, p).role = r /\ ~Place!Current(r, p).left /\ Place!Current(r, p).primary = p
  BY DEF Place!Current
<1>4. \A row \in Place!TeamRow, r \in Place!TeamRoles :
       LET set == [row EXCEPT !.role = r]
       IN  set \in Place!TeamRow /\ set.role = r /\ set.left = row.left /\ set.primary = row.primary
  OBVIOUS
<1>5. \A row \in Place!TeamRow, p \in BOOLEAN :
       LET set == [row EXCEPT !.primary = p]
       IN  set \in Place!TeamRow /\ set.role = row.role /\ set.left = row.left /\ set.primary = p
  OBVIOUS
<1>6. \A row \in Place!TeamRow :
       LET set == [row EXCEPT !.left = TRUE]
       IN  set \in Place!TeamRow /\ set.role = row.role /\ set.left /\ set.primary = row.primary
  OBVIOUS
<1> QED BY <1>1, <1>2, <1>3, <1>4, <1>5, <1>6

\* What joining a team does to the rows.
LEMMA JoinRows ==
  ASSUME RowsOK, NEW t \in Teams, NEW e \in PlacedEmployees, NEW given \in Place!TeamRoles, rows' = Place!Join(t, e, given)
  PROVE  /\ RowsOK'
         /\ \A u \in Teams, x \in PlacedEmployees :
              /\ Place!HasRow(u, x)' <=> Place!HasRow(u, x) \/ (u = t /\ x = e)
              /\ Place!InTeam(u, x)' <=> IF x = e THEN u = t ELSE Place!InTeam(u, x)
              /\ Leads(u, x)' <=> IF x = e THEN u = t /\ given = "LEAD"
                                  ELSE Leads(u, x) /\ ~(u = t /\ given = "LEAD")
              /\ Primary(u, x)' <=> IF x = e THEN u = t \/ (Primary(u, x) /\ ~Place!InTeam(u, x)) ELSE Primary(u, x)
<1>1. \A u \in Teams, x \in PlacedEmployees :
        rows'[u][x] = IF u = t /\ x = e THEN Place!Current(given, TRUE)
                      ELSE IF x = e /\ Place!InTeam(u, e) THEN Place!LeftRow(rows[u][e])
                      ELSE IF u = t /\ given = "LEAD" /\ x \in Place!LeadsOf(t) THEN [rows[t][x] EXCEPT !.role = "MEMBER"]
                      ELSE rows[u][x]
  BY DEF Place!Join
<1>2. ASSUME NEW u \in Teams, NEW x \in PlacedEmployees
      PROVE  /\ rows'[u][x] \in Place!TeamRow \cup {Place!NoRow}
             /\ Place!HasRow(u, x)' <=> Place!HasRow(u, x) \/ (u = t /\ x = e)
             /\ Place!InTeam(u, x)' <=> IF x = e THEN u = t ELSE Place!InTeam(u, x)
             /\ Leads(u, x)' <=> IF x = e THEN u = t /\ given = "LEAD"
                                 ELSE Leads(u, x) /\ ~(u = t /\ given = "LEAD")
             /\ Primary(u, x)' <=> IF x = e THEN u = t \/ (Primary(u, x) /\ ~Place!InTeam(u, x)) ELSE Primary(u, x)
  <2>1. rows[u][x] \in Place!TeamRow \cup {Place!NoRow}
    BY DEF RowsOK
  <2>2. "MEMBER" \in Place!TeamRoles /\ "MEMBER" # "LEAD"
    BY DEF Place!TeamRoles
  <2>3. Place!InTeam(u, x) => rows[u][x] \in Place!TeamRow
    BY <2>1 DEF Place!InTeam, Place!HasRow
  <2>4. CASE x = e /\ u = t
    <3>1. rows'[u][x] = Place!Current(given, TRUE)
      BY <1>1, <2>4
    <3> QED BY <2>4, <3>1 DEF Place!HasRow, Place!InTeam, Leads, Primary, Place!Current, Place!TeamRow, Place!NoRow, Place!TeamRoles
  <2>5. CASE x = e /\ u # t
    <3>1. CASE Place!InTeam(u, x)
      <4>1. rows'[u][x] = Place!LeftRow(rows[u][x])
        BY <1>1, <2>5, <3>1
      <4>2. /\ Place!LeftRow(rows[u][x]) \in Place!TeamRow /\ Place!LeftRow(rows[u][x]).left /\ ~Place!LeftRow(rows[u][x]).primary
            /\ Place!LeftRow(rows[u][x]) # Place!NoRow
        BY <2>3, <3>1, RowShapes
      <4> QED BY <2>5, <3>1, <4>1, <4>2 DEF Place!HasRow, Place!InTeam, Leads, Primary
    <3>2. CASE ~Place!InTeam(u, x)
      <4>1. rows'[u][x] = rows[u][x]
        BY <1>1, <2>5, <3>2
      <4> QED BY <2>1, <2>5, <3>2, <4>1 DEF Place!HasRow, Place!InTeam, Leads, Primary
    <3> QED BY <3>1, <3>2
  <2>6. CASE x # e /\ u = t /\ given = "LEAD" /\ x \in Place!LeadsOf(t)
    <3>1. rows'[u][x] = [rows[u][x] EXCEPT !.role = "MEMBER"]
      BY <1>1, <2>6
    <3>2. Place!InTeam(u, x) /\ rows[u][x] \in Place!TeamRow
      BY <2>3, <2>6 DEF Place!LeadsOf
    <3>3. /\ rows'[u][x] \in Place!TeamRow /\ rows'[u][x] # Place!NoRow /\ rows'[u][x].role # "LEAD"
          /\ rows'[u][x].left = rows[u][x].left /\ rows'[u][x].primary = rows[u][x].primary
      BY <2>2, <3>1, <3>2, RowShapes
    <3> QED BY <2>6, <3>2, <3>3 DEF Place!HasRow, Place!InTeam, Leads, Primary
  <2>7. CASE x # e /\ ~(u = t /\ given = "LEAD" /\ x \in Place!LeadsOf(t))
    <3>1. rows'[u][x] = rows[u][x]
      BY <1>1, <2>7
    <3> QED BY <2>1, <2>7, <3>1 DEF Place!HasRow, Place!InTeam, Leads, Primary, Place!LeadsOf
  <2> QED BY <2>4, <2>5, <2>6, <2>7
<1>3. RowsOK'
  BY <1>2 DEF RowsOK, Place!Join
<1> QED BY <1>2, <1>3

\* A role given to somebody in the team: whoever led it is a member when it is to lead.
LEMMA PromotedRows ==
  ASSUME RowsOK, NEW t \in Teams, NEW e \in PlacedEmployees, NEW given \in Place!TeamRoles, Place!InTeam(t, e),
         rows' = [rows EXCEPT ![t] = [x \in PlacedEmployees |->
                    IF x = e THEN [rows[t][x] EXCEPT !.role = given]
                    ELSE IF given = "LEAD" /\ x \in Place!LeadsOf(t) THEN [rows[t][x] EXCEPT !.role = "MEMBER"]
                    ELSE rows[t][x]]]
  PROVE  /\ RowsOK'
         /\ \A u \in Teams, x \in PlacedEmployees :
              /\ Place!HasRow(u, x)' <=> Place!HasRow(u, x)
              /\ Place!InTeam(u, x)' <=> Place!InTeam(u, x)
              /\ Leads(u, x)' <=> IF u = t /\ x = e THEN given = "LEAD"
                                  ELSE Leads(u, x) /\ ~(u = t /\ given = "LEAD")
              /\ Primary(u, x)' <=> Primary(u, x)
<1>1. \A u \in Teams, x \in PlacedEmployees :
        rows'[u][x] = IF u = t /\ x = e THEN [rows[u][x] EXCEPT !.role = given]
                      ELSE IF u = t /\ given = "LEAD" /\ x \in Place!LeadsOf(t) THEN [rows[u][x] EXCEPT !.role = "MEMBER"]
                      ELSE rows[u][x]
  BY DEF RowsOK
<1>2. ASSUME NEW u \in Teams, NEW x \in PlacedEmployees
      PROVE  /\ rows'[u][x] \in Place!TeamRow \cup {Place!NoRow}
             /\ Place!HasRow(u, x)' <=> Place!HasRow(u, x)
             /\ Place!InTeam(u, x)' <=> Place!InTeam(u, x)
             /\ Leads(u, x)' <=> IF u = t /\ x = e THEN given = "LEAD"
                                 ELSE Leads(u, x) /\ ~(u = t /\ given = "LEAD")
             /\ Primary(u, x)' <=> Primary(u, x)
  <2>1. rows[u][x] \in Place!TeamRow \cup {Place!NoRow}
    BY DEF RowsOK
  <2>2. "MEMBER" \in Place!TeamRoles /\ "MEMBER" # "LEAD"
    BY DEF Place!TeamRoles
  <2>3. Place!InTeam(u, x) => rows[u][x] \in Place!TeamRow
    BY <2>1 DEF Place!InTeam, Place!HasRow
  <2>4. CASE u = t /\ x = e
    <3>1. rows'[u][x] = [rows[u][x] EXCEPT !.role = given]
      BY <1>1, <2>4
    <3>2. Place!InTeam(u, x)
      BY <2>4
    <3>3. /\ rows'[u][x] \in Place!TeamRow /\ rows'[u][x] # Place!NoRow /\ rows'[u][x].role = given
          /\ rows'[u][x].left = rows[u][x].left /\ rows'[u][x].primary = rows[u][x].primary
      BY ONLY <2>3, <3>1, <3>2, RowShapes, given \in Place!TeamRoles
    <3> QED BY <2>4, <3>2, <3>3 DEF Place!HasRow, Place!InTeam, Leads, Primary
  <2>5. CASE ~(u = t /\ x = e) /\ u = t /\ given = "LEAD" /\ x \in Place!LeadsOf(t)
    <3>1. rows'[u][x] = [rows[u][x] EXCEPT !.role = "MEMBER"]
      BY <1>1, <2>5
    <3>2. Place!InTeam(u, x) /\ rows[u][x] \in Place!TeamRow
      BY <2>3, <2>5 DEF Place!LeadsOf
    <3>3. /\ rows'[u][x] \in Place!TeamRow /\ rows'[u][x] # Place!NoRow /\ rows'[u][x].role # "LEAD"
          /\ rows'[u][x].left = rows[u][x].left /\ rows'[u][x].primary = rows[u][x].primary
      BY ONLY <2>2, <3>1, <3>2, RowShapes
    <3> QED BY <2>5, <3>2, <3>3 DEF Place!HasRow, Place!InTeam, Leads, Primary
  <2>6. CASE ~(u = t /\ x = e) /\ ~(u = t /\ given = "LEAD" /\ x \in Place!LeadsOf(t))
    <3>1. rows'[u][x] = rows[u][x]
      BY <1>1, <2>6
    <3> QED BY <2>1, <2>6, <3>1 DEF Place!HasRow, Place!InTeam, Leads, Primary, Place!LeadsOf
  <2> QED BY <2>4, <2>5, <2>6
<1>3. \A u \in Teams : rows'[u] \in [PlacedEmployees -> Place!TeamRow \cup {Place!NoRow}]
  <2> SUFFICES ASSUME NEW u \in Teams PROVE rows'[u] \in [PlacedEmployees -> Place!TeamRow \cup {Place!NoRow}]
    OBVIOUS
  <2>1. \A x \in PlacedEmployees : rows'[u][x] \in Place!TeamRow \cup {Place!NoRow}
    BY <1>2
  <2>2. CASE u = t
    BY <2>1, <2>2 DEF RowsOK
  <2>3. CASE u # t
    BY <2>3 DEF RowsOK
  <2> QED BY <2>2, <2>3
<1>4. RowsOK'
  BY <1>3 DEF RowsOK
<1> QED BY <1>2, <1>4

\* An employee added to a team: the flag goes to the new row, from one that has it, when
\* the row is new.
LEMMA AddedRows ==
  ASSUME RowsOK, NEW t \in Teams, NEW e \in PlacedEmployees, NEW given \in Place!TeamRoles, NEW primary \in BOOLEAN,
         Place!AddMember(t, e, given, primary)
  PROVE  /\ RowsOK'
         /\ \A u \in Teams, x \in PlacedEmployees :
              /\ Place!HasRow(u, x)' <=> Place!HasRow(u, x) \/ (u = t /\ x = e)
              /\ Place!InTeam(u, x)' <=> Place!InTeam(u, x) \/ (u = t /\ x = e)
              /\ Leads(u, x)' <=> IF u = t /\ x = e THEN given = "LEAD" ELSE Leads(u, x)
              /\ ~(u = t /\ x = e) /\ Primary(u, x)' => Primary(u, x)
         /\ ~Place!HasRow(t, e) /\ Primary(t, e)' =>
              \A u \in Teams : Primary(u, e) => \E v \in Teams : Primary(v, e) /\ ~Primary(v, e)'
<1>1. PICK row : row = Place!Current(given, primary)
  OBVIOUS
<1>2. row \in Place!TeamRow /\ row # Place!NoRow /\ row.role = given /\ ~row.left /\ row.primary = primary
  BY <1>1, RowShapes
<1>3. PICK added : added = [rows EXCEPT ![t][e] = row]
  OBVIOUS
<1>4. /\ added \in [Teams -> [PlacedEmployees -> Place!TeamRow \cup {Place!NoRow}]] /\ added[t][e] = row
      /\ \A u \in Teams, x \in PlacedEmployees : ~(u = t /\ x = e) => added[u][x] = rows[u][x]
  BY <1>2, <1>3 DEF RowsOK
<1>5. CASE rows' = added /\ (Place!HasRow(t, e) \/ ~primary \/ Place!Primaries(e) = {})
  <2>1. rows' = [rows EXCEPT ![t][e] = row]
    BY <1>3, <1>5
  <2>2. /\ RowsOK' /\ rows'[t][e] = row
        /\ \A u \in Teams, x \in PlacedEmployees : ~(u = t /\ x = e) =>
              /\ Place!HasRow(u, x)' <=> Place!HasRow(u, x)
              /\ Place!InTeam(u, x)' <=> Place!InTeam(u, x)
              /\ Leads(u, x)' <=> Leads(u, x)
              /\ Primary(u, x)' <=> Primary(u, x)
    <3>1. row \in Place!TeamRow \cup {Place!NoRow}
      BY <1>2
    <3>2. RowsOK' /\ rows'[t][e] = row
      BY ONLY <2>1, <3>1, RowsOK, t \in Teams, e \in PlacedEmployees DEF RowsOK
    <3>3. \A u \in Teams, x \in PlacedEmployees : ~(u = t /\ x = e) => rows'[u][x] = rows[u][x]
      BY ONLY <2>1, <3>1, RowsOK, t \in Teams, e \in PlacedEmployees DEF RowsOK
    <3> QED BY ONLY <3>2, <3>3 DEF Place!HasRow, Place!InTeam, Leads, Primary
  <2>3. Place!HasRow(t, e)' /\ Place!InTeam(t, e)' /\ (Leads(t, e)' <=> given = "LEAD") /\ (Primary(t, e)' <=> primary)
    BY <1>2, <2>2 DEF Place!HasRow, Place!InTeam, Leads, Primary
  <2>4. Place!Primaries(e) = {} => \A u \in Teams : ~Primary(u, e)
    BY DEF Place!Primaries, Primary
  <2> QED BY <1>5, <2>2, <2>3, <2>4
<1>6. ASSUME NEW v \in Place!Primaries(e), ~Place!HasRow(t, e), rows' = [added EXCEPT ![v][e].primary = FALSE]
      PROVE  /\ RowsOK'
             /\ \A u \in Teams, x \in PlacedEmployees :
                  /\ Place!HasRow(u, x)' <=> Place!HasRow(u, x) \/ (u = t /\ x = e)
                  /\ Place!InTeam(u, x)' <=> Place!InTeam(u, x) \/ (u = t /\ x = e)
                  /\ Leads(u, x)' <=> IF u = t /\ x = e THEN given = "LEAD" ELSE Leads(u, x)
                  /\ ~(u = t /\ x = e) /\ Primary(u, x)' => Primary(u, x)
             /\ Primary(v, e) /\ ~Primary(v, e)'
  <2>1. v \in Teams /\ v # t /\ Place!HasRow(v, e) /\ Primary(v, e) /\ rows[v][e] \in Place!TeamRow
    BY <1>6 DEF Place!Primaries, Primary, Place!HasRow, RowsOK
  <2>2. added[v][e] = rows[v][e]
    BY <1>4, <2>1
  <2>3. PICK off : off = [rows[v][e] EXCEPT !.primary = FALSE]
    OBVIOUS
  <2>4. off \in Place!TeamRow /\ off # Place!NoRow /\ off.role = rows[v][e].role /\ off.left = rows[v][e].left /\ ~off.primary
    BY <2>1, <2>3 DEF Place!TeamRow, Place!TeamRoles, Place!NoRow
  <2>5. rows' = [added EXCEPT ![v][e] = off]
    BY <1>4, <1>6, <2>1, <2>2, <2>3
  <2>6. /\ RowsOK' /\ rows'[v][e] = off /\ rows'[t][e] = row
        /\ \A u \in Teams, x \in PlacedEmployees : ~(u = t /\ x = e) /\ ~(u = v /\ x = e) => rows'[u][x] = rows[u][x]
    BY <1>4, <2>1, <2>4, <2>5 DEF RowsOK
  <2>7. ASSUME NEW u \in Teams, NEW x \in PlacedEmployees
        PROVE  /\ Place!HasRow(u, x)' <=> Place!HasRow(u, x) \/ (u = t /\ x = e)
               /\ Place!InTeam(u, x)' <=> Place!InTeam(u, x) \/ (u = t /\ x = e)
               /\ Leads(u, x)' <=> IF u = t /\ x = e THEN given = "LEAD" ELSE Leads(u, x)
               /\ ~(u = t /\ x = e) /\ Primary(u, x)' => Primary(u, x)
    <3>1. CASE u = t /\ x = e
      BY <1>2, <2>6, <3>1 DEF Place!HasRow, Place!InTeam, Leads, Primary
    <3>2. CASE u = v /\ x = e
      BY <2>1, <2>4, <2>6, <3>2 DEF Place!HasRow, Place!InTeam, Leads, Primary
    <3>3. CASE ~(u = t /\ x = e) /\ ~(u = v /\ x = e)
      <4>1. rows'[u][x] = rows[u][x]
        BY <2>6, <3>3
      <4> QED BY <3>3, <4>1 DEF Place!HasRow, Place!InTeam, Leads, Primary
    <3> QED BY <3>1, <3>2, <3>3
  <2>8. ~Primary(v, e)'
    BY <2>4, <2>6 DEF Primary
  <2> QED BY <2>1, <2>6, <2>7, <2>8
<1>7. CASE ~(Place!HasRow(t, e) \/ ~primary \/ Place!Primaries(e) = {})
  <2>1. PICK v \in Place!Primaries(e) : rows' = [added EXCEPT ![v][e].primary = FALSE]
    BY <1>1, <1>3, <1>7 DEF Place!AddMember
  <2>2. v \in Teams
    BY DEF Place!Primaries
  <2> QED BY <1>6, <1>7, <2>1, <2>2
<1>8. Place!HasRow(t, e) \/ ~primary \/ Place!Primaries(e) = {} => rows' = added
  BY <1>1, <1>3 DEF Place!AddMember
<1> QED BY <1>5, <1>7, <1>8

\* The members form: the flag comes from one row that has it.
LEMMA UpdatedRows ==
  ASSUME RowsOK, NEW t \in Teams, NEW e \in PlacedEmployees, NEW given \in Place!TeamRoles, NEW primary \in BOOLEAN,
         Place!UpdateMember(t, e, given, primary)
  PROVE  /\ RowsOK'
         /\ \A u \in Teams, x \in PlacedEmployees :
              /\ Place!HasRow(u, x)' <=> Place!HasRow(u, x)
              /\ Place!InTeam(u, x)' <=> Place!InTeam(u, x)
              /\ ~(u = t /\ x = e) => (Leads(u, x)' <=> Leads(u, x))
              /\ ~(u = t /\ x = e) /\ Primary(u, x)' => Primary(u, x)
         /\ Primary(t, e)' => \A u \in Teams : Primary(u, e) => \E v \in Teams : Primary(v, e) /\ (v = t \/ ~Primary(v, e)')
<1>0. Place!HasRow(t, e) /\ rows[t][e] \in Place!TeamRow
  BY DEF Place!UpdateMember, Place!HasRow, RowsOK
<1>1. PICK row : row = [rows[t][e] EXCEPT !.role = given, !.primary = primary]
  OBVIOUS
<1>2. row \in Place!TeamRow /\ row # Place!NoRow /\ row.role = given /\ row.left = rows[t][e].left /\ row.primary = primary
  BY <1>0, <1>1 DEF Place!TeamRow, Place!TeamRoles, Place!NoRow
<1>3. PICK set : set = [rows EXCEPT ![t][e] = row]
  OBVIOUS
<1>4. /\ set \in [Teams -> [PlacedEmployees -> Place!TeamRow \cup {Place!NoRow}]] /\ set[t][e] = row
      /\ \A u \in Teams, x \in PlacedEmployees : ~(u = t /\ x = e) => set[u][x] = rows[u][x]
  BY <1>2, <1>3 DEF RowsOK
<1>5. [rows EXCEPT ![t][e].role = given, ![t][e].primary = primary] = set
  BY <1>0, <1>1, <1>3 DEF RowsOK
<1>6. CASE rows' = set /\ (~primary \/ Place!Primaries(e) = {} \/ t \in Place!Primaries(e))
  <2>1. rows' = [rows EXCEPT ![t][e] = row]
    BY <1>3, <1>6
  <2>2. /\ RowsOK' /\ rows'[t][e] = row
        /\ \A u \in Teams, x \in PlacedEmployees : ~(u = t /\ x = e) =>
              /\ Place!HasRow(u, x)' <=> Place!HasRow(u, x)
              /\ Place!InTeam(u, x)' <=> Place!InTeam(u, x)
              /\ Leads(u, x)' <=> Leads(u, x)
              /\ Primary(u, x)' <=> Primary(u, x)
    <3>1. row \in Place!TeamRow \cup {Place!NoRow}
      BY <1>2
    <3>2. RowsOK' /\ rows'[t][e] = row
      BY ONLY <2>1, <3>1, RowsOK, t \in Teams, e \in PlacedEmployees DEF RowsOK
    <3>3. \A u \in Teams, x \in PlacedEmployees : ~(u = t /\ x = e) => rows'[u][x] = rows[u][x]
      BY ONLY <2>1, <3>1, RowsOK, t \in Teams, e \in PlacedEmployees DEF RowsOK
    <3> QED BY ONLY <3>2, <3>3 DEF Place!HasRow, Place!InTeam, Leads, Primary
  <2>3. Place!HasRow(t, e)' /\ (Place!InTeam(t, e)' <=> Place!InTeam(t, e)) /\ (Primary(t, e)' <=> primary)
    BY <1>0, <1>2, <2>2 DEF Place!HasRow, Place!InTeam, Leads, Primary
  <2>4. Place!Primaries(e) = {} => \A u \in Teams : ~Primary(u, e)
    BY DEF Place!Primaries, Primary
  <2>5. t \in Place!Primaries(e) => Primary(t, e)
    BY DEF Place!Primaries, Primary
  <2> QED BY <1>0, <1>6, <2>2, <2>3, <2>4, <2>5
<1>7. ASSUME NEW v \in Place!Primaries(e), v # t, rows' = [set EXCEPT ![v][e].primary = FALSE]
      PROVE  /\ RowsOK'
             /\ \A u \in Teams, x \in PlacedEmployees :
                  /\ Place!HasRow(u, x)' <=> Place!HasRow(u, x)
                  /\ Place!InTeam(u, x)' <=> Place!InTeam(u, x)
                  /\ ~(u = t /\ x = e) => (Leads(u, x)' <=> Leads(u, x))
                  /\ ~(u = t /\ x = e) /\ Primary(u, x)' => Primary(u, x)
             /\ Primary(v, e) /\ ~Primary(v, e)'
  <2>1. v \in Teams /\ Place!HasRow(v, e) /\ Primary(v, e) /\ rows[v][e] \in Place!TeamRow
    BY <1>7 DEF Place!Primaries, Primary, Place!HasRow, RowsOK
  <2>2. set[v][e] = rows[v][e]
    BY <1>4, <1>7, <2>1
  <2>3. PICK off : off = [rows[v][e] EXCEPT !.primary = FALSE]
    OBVIOUS
  <2>4. off \in Place!TeamRow /\ off # Place!NoRow /\ off.role = rows[v][e].role /\ off.left = rows[v][e].left /\ ~off.primary
    BY <2>1, <2>3 DEF Place!TeamRow, Place!TeamRoles, Place!NoRow
  <2>5. rows' = [set EXCEPT ![v][e] = off]
    BY <1>4, <1>7, <2>1, <2>2, <2>3
  <2>6. /\ RowsOK' /\ rows'[v][e] = off /\ rows'[t][e] = row
        /\ \A u \in Teams, x \in PlacedEmployees : ~(u = t /\ x = e) /\ ~(u = v /\ x = e) => rows'[u][x] = rows[u][x]
    <3>1. v \in Teams /\ v # t /\ off \in Place!TeamRow \cup {Place!NoRow}
      BY <1>7, <2>1, <2>4
    <3>2. /\ rows'[v][e] = off
          /\ \A u \in Teams, x \in PlacedEmployees : ~(u = v /\ x = e) => rows'[u][x] = set[u][x]
      BY ONLY <1>4, <2>5, <3>1, e \in PlacedEmployees
    <3>3. RowsOK'
      BY ONLY <1>4, <2>5, <3>1, e \in PlacedEmployees DEF RowsOK
    <3> QED BY <1>4, <3>1, <3>2, <3>3
  <2>7. ASSUME NEW u \in Teams, NEW x \in PlacedEmployees
        PROVE  /\ Place!HasRow(u, x)' <=> Place!HasRow(u, x)
               /\ Place!InTeam(u, x)' <=> Place!InTeam(u, x)
               /\ ~(u = t /\ x = e) => (Leads(u, x)' <=> Leads(u, x))
               /\ ~(u = t /\ x = e) /\ Primary(u, x)' => Primary(u, x)
    <3>1. CASE u = t /\ x = e
      BY <1>0, <1>2, <2>6, <3>1 DEF Place!HasRow, Place!InTeam, Leads, Primary
    <3>2. CASE u = v /\ x = e
      BY <1>7, <2>1, <2>4, <2>6, <3>2 DEF Place!HasRow, Place!InTeam, Leads, Primary
    <3>3. CASE ~(u = t /\ x = e) /\ ~(u = v /\ x = e)
      <4>1. rows'[u][x] = rows[u][x]
        BY <2>6, <3>3
      <4> QED BY <3>3, <4>1 DEF Place!HasRow, Place!InTeam, Leads, Primary
    <3> QED BY <3>1, <3>2, <3>3
  <2>8. ~Primary(v, e)'
    BY <2>4, <2>6 DEF Primary
  <2> QED BY <2>1, <2>6, <2>7, <2>8
<1>8. \/ rows' = set /\ (~primary \/ Place!Primaries(e) = {})
      \/ \E u \in Place!Primaries(e) : rows' = IF u = t THEN set ELSE [set EXCEPT ![u][e].primary = FALSE]
  BY <1>5 DEF Place!UpdateMember
<1>9. CASE \E u \in Place!Primaries(e) : rows' = IF u = t THEN set ELSE [set EXCEPT ![u][e].primary = FALSE]
  <2>1. PICK v \in Place!Primaries(e) : rows' = IF v = t THEN set ELSE [set EXCEPT ![v][e].primary = FALSE]
    BY <1>9
  <2>2. v \in Teams
    BY DEF Place!Primaries
  <2>3. CASE v = t
    BY <1>6, <2>1, <2>3
  <2>4. CASE v # t
    BY <1>7, <2>1, <2>2, <2>4
  <2> QED BY <2>3, <2>4
<1> QED BY <1>6, <1>8, <1>9

\* A row that ends, or all of somebody's that go.
LEMMA RemovedRows ==
  ASSUME RowsOK, NEW t \in Teams, NEW e \in PlacedEmployees, Place!HasRow(t, e), rows' = [rows EXCEPT ![t][e] = Place!LeftRow(@)]
  PROVE  /\ RowsOK'
         /\ \A u \in Teams, x \in PlacedEmployees :
              /\ Place!HasRow(u, x)' <=> Place!HasRow(u, x)
              /\ Place!InTeam(u, x)' => Place!InTeam(u, x)
              /\ Leads(u, x)' => Leads(u, x)
<1>1. rows[t][e] \in Place!TeamRow
  BY DEF RowsOK, Place!HasRow
<1>2. PICK row : row = Place!LeftRow(rows[t][e])
  OBVIOUS
<1>3. row \in Place!TeamRow /\ row # Place!NoRow /\ row.left
  BY <1>1, <1>2, RowShapes
<1>4. RowsOK' /\ rows'[t][e] = row
  BY <1>2, <1>3 DEF RowsOK
<1>5. \A u \in Teams, x \in PlacedEmployees : ~(u = t /\ x = e) => rows'[u][x] = rows[u][x]
  BY DEF RowsOK
<1> QED BY <1>3, <1>4, <1>5 DEF Place!HasRow, Place!InTeam, Leads

LEMMA DeletedRows ==
  ASSUME RowsOK, NEW e \in PlacedEmployees, rows' = [t \in Teams |-> [rows[t] EXCEPT ![e] = Place!NoRow]]
  PROVE  /\ RowsOK'
         /\ \A u \in Teams, x \in PlacedEmployees :
              /\ Place!HasRow(u, x)' <=> Place!HasRow(u, x) /\ x # e
              /\ Place!InTeam(u, x)' <=> Place!InTeam(u, x) /\ x # e
              /\ Leads(u, x)' <=> Leads(u, x) /\ x # e
              /\ Primary(u, x)' <=> Primary(u, x) /\ x # e
<1>1. RowsOK'
  BY DEF RowsOK
<1>2. \A u \in Teams, x \in PlacedEmployees : rows'[u][x] = IF x = e THEN Place!NoRow ELSE rows[u][x]
  BY DEF RowsOK
<1> QED BY <1>1, <1>2 DEF Place!HasRow, Place!InTeam, Leads, Primary

\* A hand-over: in the teams named that the leaver is in, the successor leads.
LEMMA TransferredRows ==
  ASSUME RowsOK, NEW e \in PlacedEmployees, NEW new \in PlacedEmployees, NEW T \in SUBSET Teams, Place!TransferTeams(e, new, T)
  PROVE  /\ RowsOK'
         /\ \A u \in Teams, x \in PlacedEmployees :
              LET moved == u \in T /\ Place!InTeam(u, e) /\ x \in {e, new}
              IN  /\ Place!HasRow(u, x)' <=> Place!HasRow(u, x) \/ moved
                  /\ Leads(u, x)' <=> IF moved THEN x = new ELSE Leads(u, x)
<1>1. \A u \in Teams, x \in PlacedEmployees :
        rows'[u][x] = IF u \notin T \/ ~Place!InTeam(u, e) \/ x \notin {e, new} THEN rows[u][x]
                      ELSE IF x = new THEN Place!Current("LEAD", x # e /\ Place!HasRow(u, new) /\ rows[u][new].primary)
                      ELSE Place!LeftRow(rows[u][e])
  BY DEF Place!TransferTeams
<1>2. ASSUME NEW u \in Teams, NEW x \in PlacedEmployees
      PROVE  LET moved == u \in T /\ Place!InTeam(u, e) /\ x \in {e, new}
             IN  /\ rows'[u][x] \in Place!TeamRow \cup {Place!NoRow}
                 /\ Place!HasRow(u, x)' <=> Place!HasRow(u, x) \/ moved
                 /\ Leads(u, x)' <=> IF moved THEN x = new ELSE Leads(u, x)
  <2>1. \A y \in PlacedEmployees : rows[u][y] \in Place!TeamRow \cup {Place!NoRow}
    BY DEF RowsOK
  <2>2. CASE u \notin T \/ ~Place!InTeam(u, e) \/ x \notin {e, new}
    <3>1. rows'[u][x] = rows[u][x]
      BY <1>1, <2>2
    <3> QED BY <2>1, <2>2, <3>1 DEF Place!HasRow, Place!InTeam, Leads
  <2>3. CASE u \in T /\ Place!InTeam(u, e) /\ x = new
    <3>1. PICK p \in BOOLEAN : p <=> x # e /\ Place!HasRow(u, new) /\ rows[u][new].primary
      OBVIOUS
    <3>2. (x # e /\ Place!HasRow(u, new) /\ rows[u][new].primary) = p
      BY <2>1, <3>1, RowShapes DEF Place!HasRow
    <3>3. rows'[u][x] = Place!Current("LEAD", p)
      BY <1>1, <2>3, <3>2
    <3>4. Place!Current("LEAD", p) \in Place!TeamRow /\ Place!Current("LEAD", p).role = "LEAD" /\ ~Place!Current("LEAD", p).left
          /\ Place!Current("LEAD", p) # Place!NoRow
      BY <3>1, RowShapes DEF Place!TeamRoles
    <3> QED BY <2>3, <3>3, <3>4 DEF Place!HasRow, Place!InTeam, Leads
  <2>4. CASE u \in T /\ Place!InTeam(u, e) /\ x = e /\ x # new
    <3>1. rows'[u][x] = Place!LeftRow(rows[u][e])
      BY <1>1, <2>4
    <3>2. rows[u][e] \in Place!TeamRow
      BY <2>1, <2>4 DEF Place!InTeam, Place!HasRow
    <3>3. Place!LeftRow(rows[u][e]) \in Place!TeamRow /\ Place!LeftRow(rows[u][e]).left /\ Place!LeftRow(rows[u][e]) # Place!NoRow
      BY <3>2, RowShapes
    <3> QED BY <2>4, <3>1, <3>3 DEF Place!HasRow, Place!InTeam, Leads
  <2> QED BY <2>2, <2>3, <2>4
<1>3. RowsOK'
  <2>1. \A u \in Teams, x \in PlacedEmployees : rows'[u][x] \in Place!TeamRow \cup {Place!NoRow}
    BY <1>2
  <2> QED BY <2>1 DEF RowsOK, Place!TransferTeams
<1> QED BY <1>2, <1>3

\* What execute_offboard makes of the teams.
HandedOver(e, new, T) ==
  [t \in Teams |-> [x \in PlacedEmployees |->
     IF t \notin T \/ x \notin {e, new} THEN rows[t][x]
     ELSE IF x = new THEN Place!Current("LEAD", Place!HasRow(t, new) /\ rows[t][new].primary)
     ELSE IF Place!InTeam(t, e) THEN [rows[t][e] EXCEPT !.left = TRUE] ELSE rows[t][e]]]

LEMMA ExecutedRows ==
  ASSUME RowsOK, NEW e \in PlacedEmployees, NEW new \in PlacedEmployees, NEW T \in SUBSET Teams, rows' = HandedOver(e, new, T)
  PROVE  /\ RowsOK'
         /\ \A u \in Teams, x \in PlacedEmployees :
              /\ Place!HasRow(u, x)' <=> Place!HasRow(u, x) \/ (u \in T /\ x = new)
              /\ Leads(u, x)' <=> IF u \in T /\ x \in {e, new} THEN x = new ELSE Leads(u, x)
<1>1. \A u \in Teams, x \in PlacedEmployees :
        rows'[u][x] = IF u \notin T \/ x \notin {e, new} THEN rows[u][x]
                      ELSE IF x = new THEN Place!Current("LEAD", Place!HasRow(u, new) /\ rows[u][new].primary)
                      ELSE IF Place!InTeam(u, e) THEN [rows[u][e] EXCEPT !.left = TRUE] ELSE rows[u][e]
  BY DEF HandedOver
<1>2. ASSUME NEW u \in Teams, NEW x \in PlacedEmployees
      PROVE  /\ rows'[u][x] \in Place!TeamRow \cup {Place!NoRow}
             /\ Place!HasRow(u, x)' <=> Place!HasRow(u, x) \/ (u \in T /\ x = new)
             /\ Leads(u, x)' <=> IF u \in T /\ x \in {e, new} THEN x = new ELSE Leads(u, x)
  <2>1. \A y \in PlacedEmployees : rows[u][y] \in Place!TeamRow \cup {Place!NoRow}
    BY DEF RowsOK
  <2>2. CASE u \notin T \/ x \notin {e, new}
    <3>1. rows'[u][x] = rows[u][x]
      BY <1>1, <2>2
    <3> QED BY <2>1, <2>2, <3>1 DEF Place!HasRow, Place!InTeam, Leads
  <2>3. CASE u \in T /\ x = new
    <3>1. PICK p \in BOOLEAN : p <=> Place!HasRow(u, new) /\ rows[u][new].primary
      OBVIOUS
    <3>2. (Place!HasRow(u, new) /\ rows[u][new].primary) = p
      BY <2>1, <3>1, RowShapes DEF Place!HasRow
    <3>3. rows'[u][x] = Place!Current("LEAD", p)
      BY <1>1, <2>3, <3>2
    <3>4. Place!Current("LEAD", p) \in Place!TeamRow /\ Place!Current("LEAD", p).role = "LEAD" /\ ~Place!Current("LEAD", p).left
          /\ Place!Current("LEAD", p) # Place!NoRow
      BY <3>1, RowShapes DEF Place!TeamRoles
    <3> QED BY <2>3, <3>3, <3>4 DEF Place!HasRow, Place!InTeam, Leads
  <2>4. CASE u \in T /\ x = e /\ x # new /\ Place!InTeam(u, e)
    <3>1. rows'[u][x] = [rows[u][e] EXCEPT !.left = TRUE]
      BY <1>1, <2>4
    <3>2. rows[u][e] \in Place!TeamRow
      BY <2>1, <2>4 DEF Place!InTeam, Place!HasRow
    <3>3. rows'[u][x] \in Place!TeamRow /\ rows'[u][x].left /\ rows'[u][x] # Place!NoRow
      BY ONLY <3>1, <3>2, RowShapes
    <3> QED BY <2>4, <3>3 DEF Place!HasRow, Place!InTeam, Leads
  <2>5. CASE u \in T /\ x = e /\ x # new /\ ~Place!InTeam(u, e)
    <3>1. rows'[u][x] = rows[u][e]
      BY <1>1, <2>5
    <3> QED BY <2>1, <2>5, <3>1 DEF Place!HasRow, Place!InTeam, Leads
  <2> QED BY <2>2, <2>3, <2>4, <2>5
<1>3. RowsOK'
  <2>1. \A u \in Teams, x \in PlacedEmployees : rows'[u][x] \in Place!TeamRow \cup {Place!NoRow}
    BY <1>2
  <2> QED BY <2>1 DEF RowsOK, HandedOver
<1> QED BY <1>2, <1>3

\* What the employee form makes of the teams.
LEMMA UpdatedTeam ==
  ASSUME RowsOK, NEW e \in PlacedEmployees, NEW team \in Teams \cup {None}, NEW given \in Place!TeamRoles \cup {None},
         Place!UpdateTeam(e, team, given)
  PROVE  \/ rows' = rows
         \/ \E t \in Teams, r \in Place!TeamRoles : rows' = Place!Join(t, e, r)
         \/ \E t \in Teams, r \in Place!TeamRoles :
              /\ Place!InTeam(t, e)
              /\ rows' = [rows EXCEPT ![t] = [x \in PlacedEmployees |->
                            IF x = e THEN [rows[t][x] EXCEPT !.role = r]
                            ELSE IF r = "LEAD" /\ x \in Place!LeadsOf(t) THEN [rows[t][x] EXCEPT !.role = "MEMBER"]
                            ELSE rows[t][x]]]
<1>1. PICK found \in (IF Place!TeamsOf(e) = {} THEN {None} ELSE Place!TeamsOf(e)) :
        LET t == IF team = None THEN found ELSE team
            r == IF given # None THEN given ELSE IF found = None THEN "MEMBER" ELSE rows[found][e].role
        IN  rows' = IF t = None THEN rows
                    ELSE IF t # found THEN Place!Join(t, e, r)
                    ELSE IF rows[t][e].role = r THEN rows
                    ELSE [rows EXCEPT ![t] = [x \in PlacedEmployees |->
                            IF x = e THEN [rows[t][x] EXCEPT !.role = r]
                            ELSE IF r = "LEAD" /\ x \in Place!LeadsOf(t) THEN [rows[t][x] EXCEPT !.role = "MEMBER"]
                            ELSE rows[t][x]]]
  BY DEF Place!UpdateTeam
<1>2. PICK t : t = IF team = None THEN found ELSE team
  OBVIOUS
<1>3. PICK r : r = IF given # None THEN given ELSE IF found = None THEN "MEMBER" ELSE rows[found][e].role
  OBVIOUS
<1>4. found = None \/ (found \in Teams /\ Place!InTeam(found, e))
  BY DEF Place!TeamsOf
<1>5. r \in Place!TeamRoles
  <2>1. CASE given # None
    BY <1>3, <2>1
  <2>2. CASE given = None /\ found = None
    BY <1>3, <2>2 DEF Place!TeamRoles
  <2>3. CASE given = None /\ found # None
    <3>1. rows[found][e] \in Place!TeamRow
      BY <1>4, <2>3 DEF Place!InTeam, Place!HasRow, RowsOK
    <3> QED BY <1>3, <2>3, <3>1, RowShapes
  <2> QED BY <2>1, <2>2, <2>3
<1>6. rows' = IF t = None THEN rows
              ELSE IF t # found THEN Place!Join(t, e, r)
              ELSE IF rows[t][e].role = r THEN rows
              ELSE [rows EXCEPT ![t] = [x \in PlacedEmployees |->
                      IF x = e THEN [rows[t][x] EXCEPT !.role = r]
                      ELSE IF r = "LEAD" /\ x \in Place!LeadsOf(t) THEN [rows[t][x] EXCEPT !.role = "MEMBER"]
                      ELSE rows[t][x]]]
  BY <1>1, <1>2, <1>3
<1>7. t = None \/ t \in Teams
  BY <1>2, <1>4
<1> QED BY <1>4, <1>5, <1>6, <1>7

-----------------------------------------------------------------------------
(* The invariant *)

PlacesTyped ==
  /\ placeMode \in PlaceModes /\ placed \in [PlacedEmployees -> {"NEW", "ACTIVE", "GONE"}]
  /\ RowsOK
  /\ dept \in [PlacedEmployees -> PlacedDepartments \cup {None}] /\ head \in [PlacedDepartments -> PlacedEmployees \cup {None}]

NewHoldNothing ==
  \A e \in PlacedEmployees : placed[e] = "NEW" =>
    /\ \A t \in Teams : ~Place!HasRow(t, e)
    /\ dept[e] = None /\ \A d \in PlacedDepartments : head[d] # e

FormPlaces ==
  placeMode \subseteq {"create", "update", "confirm", "delete"} =>
    /\ \A t, u \in Teams, e \in PlacedEmployees : Place!InTeam(t, e) /\ Place!InTeam(u, e) => t = u
    /\ \A t \in Teams, e \in PlacedEmployees : Primary(t, e) <=> Place!InTeam(t, e)
    /\ \A t \in Teams, e, x \in PlacedEmployees : Leads(t, e) /\ Leads(t, x) => e = x
    /\ \A d \in PlacedDepartments, e \in PlacedEmployees : head[d] = e => dept[e] = d

PrimaryPlaces ==
  placeMode \subseteq {"create", "add", "member"} =>
    /\ \A t \in Teams, e \in PlacedEmployees : Place!HasRow(t, e) => Place!InTeam(t, e)
    /\ \A t, u \in Teams, e \in PlacedEmployees : Primary(t, e) /\ Primary(u, e) => t = u

LeaverPlaces ==
  placeMode \subseteq {"create", "add", "remove", "transfer", "confirm", "delete"} =>
    \A e \in PlacedEmployees : placed[e] = "GONE" =>
      /\ \A t \in Teams : ~Leads(t, e)
      /\ \A d \in PlacedDepartments : head[d] # e

ClosedPlaces ==
  /\ placeMode \subseteq {"add", "remove", "deactivate", "confirm"} =>
       \A t \in Teams \cap closed, e \in PlacedEmployees : ~Leads(t, e)
  /\ placeMode \subseteq {"create", "deleteDepartment", "transfer", "confirm", "delete"} =>
       \A d \in PlacedDepartments \cap closed : head[d] = None /\ \A e \in PlacedEmployees : dept[e] # d

PlaceInv == PlacesTyped /\ NewHoldNothing /\ FormPlaces /\ PrimaryPlaces /\ LeaverPlaces /\ ClosedPlaces

LEMMA PlaceInvInit == Place!Init => PlaceInv
<1> SUFFICES ASSUME Place!Init PROVE PlaceInv
  OBVIOUS
<1> USE PlaceAssumption
<1>1. /\ placeMode \in PlaceModes
      /\ rows \in [Teams -> [PlacedEmployees -> {Place!NoRow}]]
      /\ dept = [e \in PlacedEmployees |-> None] /\ head = [d \in PlacedDepartments |-> None] /\ closed = {}
  BY DEF Place!Init
<1>2. placed \in [PlacedEmployees -> {"NEW", "ACTIVE", "GONE"}] /\ \A e \in PlacedEmployees : placed[e] # "GONE"
  BY DEF Place!Init
<1>3. \A t \in Teams, e \in PlacedEmployees : rows[t][e] = Place!NoRow
  BY <1>1
<1>4. \A t \in Teams, e \in PlacedEmployees : ~Place!HasRow(t, e) /\ ~Place!InTeam(t, e) /\ ~Leads(t, e) /\ ~Primary(t, e)
  BY <1>3 DEF Place!HasRow, Place!InTeam, Leads, Primary
<1>5. PlacesTyped
  <2>1. RowsOK
    BY <1>1 DEF RowsOK
  <2> QED BY <1>1, <1>2, <2>1 DEF PlacesTyped
<1>6. NewHoldNothing /\ LeaverPlaces /\ ClosedPlaces
  BY <1>1, <1>2, <1>4 DEF NewHoldNothing, LeaverPlaces, ClosedPlaces
<1>7. FormPlaces /\ PrimaryPlaces
  BY <1>1, <1>4 DEF FormPlaces, PrimaryPlaces
<1> QED BY <1>5, <1>6, <1>7 DEF PlaceInv

LEMMA CreateKeeps ==
  ASSUME PlaceInv, NEW e \in PlacedEmployees, NEW d \in PlacedDepartments \cup {None}, NEW h \in BOOLEAN,
         NEW t \in Teams \cup {None}, NEW r \in Place!TeamRoles, Place!Create(e, d, h, t, r), UNCHANGED placeMode
  PROVE  PlaceInv'
<1> USE PlaceAssumption
<1>1. /\ Place!Uses("create") /\ placed[e] = "NEW" /\ d \notin closed /\ closed' = closed
      /\ placed' = [placed EXCEPT ![e] = "ACTIVE"] /\ dept' = [dept EXCEPT ![e] = d]
      /\ head' = IF h /\ d # None THEN [head EXCEPT ![d] = e] ELSE head
      /\ rows' = IF t = None THEN rows ELSE Place!Join(t, e, r)
  BY DEF Place!Create, Place!HeadOf
<1>2. \A u \in Teams : ~Place!HasRow(u, e) /\ ~Place!InTeam(u, e) /\ ~Leads(u, e) /\ ~Primary(u, e)
  BY <1>1 DEF PlaceInv, NewHoldNothing, Place!InTeam, Leads, Primary
<1>3. PlacesTyped /\ RowsOK
  BY DEF PlaceInv, PlacesTyped
<1> USE DEF Place!HasRow, Place!InTeam, Leads, Primary
<1>4. /\ RowsOK'
      /\ \A u \in Teams, x \in PlacedEmployees :
           /\ Place!HasRow(u, x)' <=> Place!HasRow(u, x) \/ (u = t /\ x = e)
           /\ Place!InTeam(u, x)' <=> IF x = e THEN u = t ELSE Place!InTeam(u, x)
           /\ Leads(u, x)' <=> IF x = e THEN u = t /\ r = "LEAD"
                               ELSE Leads(u, x) /\ ~(u = t /\ r = "LEAD")
           /\ Primary(u, x)' <=> IF x = e THEN u = t ELSE Primary(u, x)
  <2>1. CASE t = None
    BY <1>1, <1>2, <1>3, <2>1 DEF RowsOK
  <2>2. CASE t # None
    BY <1>1, <1>2, <1>3, <2>2, JoinRows
  <2> QED BY <2>1, <2>2
<1> HIDE DEF RowsOK
<1>5. PlacesTyped'
  BY <1>1, <1>3, <1>4 DEF PlacesTyped
<1>6. /\ \A x \in PlacedEmployees : placed'[x] = IF x = e THEN "ACTIVE" ELSE placed[x]
      /\ \A x \in PlacedEmployees : dept'[x] = IF x = e THEN d ELSE dept[x]
      /\ \A c \in PlacedDepartments : head'[c] = IF h /\ c = d THEN e ELSE head[c]
  BY <1>1, <1>3 DEF PlacesTyped
<1>7. NewHoldNothing'
  BY <1>4, <1>6 DEF PlaceInv, NewHoldNothing
<1>8. FormPlaces'
  BY <1>1, <1>4, <1>6 DEF PlaceInv, FormPlaces, NewHoldNothing
<1>9. PrimaryPlaces'
  BY <1>1, <1>2, <1>4 DEF PlaceInv, PrimaryPlaces
<1>10. LeaverPlaces'
  BY <1>1, <1>4, <1>6 DEF PlaceInv, LeaverPlaces
<1>11. ClosedPlaces'
  BY <1>1, <1>4, <1>6 DEF PlaceInv, ClosedPlaces, Place!Uses
<1> QED BY <1>5, <1>7, <1>8, <1>9, <1>10, <1>11 DEF PlaceInv

LEMMA UpdateTeamKeeps ==
  ASSUME PlaceInv, NEW e \in PlacedEmployees, NEW team \in Teams \cup {None}, NEW given \in Place!TeamRoles \cup {None},
         Place!UpdateTeam(e, team, given), UNCHANGED placeMode
  PROVE  PlaceInv'
<1> USE PlaceAssumption
<1>1. Place!Uses("update") /\ placed[e] # "NEW" /\ UNCHANGED <<placed, closed, dept, head>>
  BY DEF Place!UpdateTeam, Place!departments
<1>2. PlacesTyped /\ RowsOK
  BY DEF PlaceInv, PlacesTyped
<1> USE DEF Place!HasRow, Place!InTeam, Leads, Primary
<1>3. ASSUME NEW t \in Teams, NEW r \in Place!TeamRoles, rows' = Place!Join(t, e, r) PROVE PlaceInv'
  <2>1. /\ RowsOK'
        /\ \A u \in Teams, x \in PlacedEmployees :
             /\ Place!HasRow(u, x)' <=> Place!HasRow(u, x) \/ (u = t /\ x = e)
             /\ Place!InTeam(u, x)' <=> IF x = e THEN u = t ELSE Place!InTeam(u, x)
             /\ Leads(u, x)' <=> IF x = e THEN u = t /\ r = "LEAD"
                                 ELSE Leads(u, x) /\ ~(u = t /\ r = "LEAD")
             /\ Primary(u, x)' <=> IF x = e THEN u = t \/ (Primary(u, x) /\ ~Place!InTeam(u, x)) ELSE Primary(u, x)
    BY <1>2, <1>3, JoinRows
  <2> HIDE DEF RowsOK
  <2>2. PlacesTyped' /\ NewHoldNothing'
    BY <1>1, <1>2, <2>1 DEF PlaceInv, PlacesTyped, NewHoldNothing
  <2>3. FormPlaces'
    BY <1>1, <2>1 DEF PlaceInv, FormPlaces
  <2>4. PrimaryPlaces' /\ LeaverPlaces' /\ ClosedPlaces'
    BY <1>1 DEF PlaceInv, PrimaryPlaces, LeaverPlaces, ClosedPlaces, Place!Uses
  <2> QED BY <2>2, <2>3, <2>4 DEF PlaceInv
<1>4. ASSUME NEW t \in Teams, NEW r \in Place!TeamRoles, Place!InTeam(t, e),
             rows' = [rows EXCEPT ![t] = [x \in PlacedEmployees |->
                        IF x = e THEN [rows[t][x] EXCEPT !.role = r]
                        ELSE IF r = "LEAD" /\ x \in Place!LeadsOf(t) THEN [rows[t][x] EXCEPT !.role = "MEMBER"]
                        ELSE rows[t][x]]]
      PROVE  PlaceInv'
  <2>1. /\ RowsOK'
        /\ \A u \in Teams, x \in PlacedEmployees :
             /\ Place!HasRow(u, x)' <=> Place!HasRow(u, x)
             /\ Place!InTeam(u, x)' <=> Place!InTeam(u, x)
             /\ Leads(u, x)' <=> IF u = t /\ x = e THEN r = "LEAD"
                                 ELSE Leads(u, x) /\ ~(u = t /\ r = "LEAD")
             /\ Primary(u, x)' <=> Primary(u, x)
    BY <1>2, <1>4, PromotedRows
  <2> HIDE DEF RowsOK
  <2>2. PlacesTyped' /\ NewHoldNothing'
    BY <1>1, <1>2, <2>1 DEF PlaceInv, PlacesTyped, NewHoldNothing
  <2>3. FormPlaces'
    BY <1>1, <2>1 DEF PlaceInv, FormPlaces
  <2>4. PrimaryPlaces' /\ LeaverPlaces' /\ ClosedPlaces'
    BY <1>1 DEF PlaceInv, PrimaryPlaces, LeaverPlaces, ClosedPlaces, Place!Uses
  <2> QED BY <2>2, <2>3, <2>4 DEF PlaceInv
<1>5. CASE rows' = rows
  BY <1>1, <1>2, <1>5 DEF PlaceInv, PlacesTyped, RowsOK, NewHoldNothing, FormPlaces, PrimaryPlaces, LeaverPlaces, ClosedPlaces
<1> HIDE DEF Place!HasRow, Place!InTeam, Leads, Primary
<1> QED BY <1>2, <1>3, <1>4, <1>5, UpdatedTeam

LEMMA UpdateDepartmentKeeps ==
  ASSUME PlaceInv, NEW e \in PlacedEmployees, NEW d \in PlacedDepartments \cup {None}, NEW h \in BOOLEAN \cup {None},
         Place!UpdateDepartment(e, d, h), UNCHANGED placeMode
  PROVE  PlaceInv'
<1> USE PlaceAssumption
<1>1. Place!Uses("update") /\ placed[e] # "NEW" /\ UNCHANGED <<placed, closed, rows>> /\ dept' = [dept EXCEPT ![e] = d]
  BY DEF Place!UpdateDepartment, Place!teams
<1>2. PlacesTyped
  BY DEF PlaceInv
<1>3. PICK moved : moved = [x \in PlacedDepartments |-> IF x # d /\ x = dept[e] /\ head[x] = e THEN None ELSE head[x]]
  OBVIOUS
<1>4. head' = IF d = None THEN moved
              ELSE IF h = TRUE THEN [moved EXCEPT ![d] = e]
              ELSE IF h = FALSE /\ moved[d] = e THEN [moved EXCEPT ![d] = None]
              ELSE moved
  BY <1>3 DEF Place!UpdateDepartment
<1>5. moved \in [PlacedDepartments -> PlacedEmployees \cup {None}]
  BY <1>2, <1>3 DEF PlacesTyped
<1>6. /\ head' \in [PlacedDepartments -> PlacedEmployees \cup {None}]
      /\ \A c \in PlacedDepartments : head'[c] \in {moved[c], e, None} /\ (head'[c] # moved[c] => c = d)
  BY <1>4, <1>5
<1>7. \A c \in PlacedDepartments, x \in PlacedEmployees : head'[c] = x =>
        \/ x = e /\ c = d
        \/ head[c] = x /\ ~(c # d /\ c = dept[e] /\ x = e)
  BY <1>3, <1>5, <1>6
<1>8. PlacesTyped'
  BY <1>1, <1>2, <1>6 DEF PlacesTyped, RowsOK
<1>9. \A x \in PlacedEmployees : dept'[x] = IF x = e THEN d ELSE dept[x]
  BY <1>1, <1>2 DEF PlacesTyped
<1> USE DEF Place!HasRow, Place!InTeam, Leads, Primary
<1>10. NewHoldNothing'
  BY <1>1, <1>7, <1>9 DEF PlaceInv, NewHoldNothing
<1>11. FormPlaces'
  BY <1>1, <1>7, <1>9 DEF PlaceInv, FormPlaces
<1>12. PrimaryPlaces' /\ LeaverPlaces' /\ ClosedPlaces'
  BY <1>1 DEF PlaceInv, PrimaryPlaces, LeaverPlaces, ClosedPlaces, Place!Uses
<1> QED BY <1>8, <1>10, <1>11, <1>12 DEF PlaceInv

LEMMA AddMemberKeeps ==
  ASSUME PlaceInv, NEW t \in Teams, NEW e \in PlacedEmployees, NEW given \in Place!TeamRoles, NEW primary \in BOOLEAN,
         Place!AddMember(t, e, given, primary), UNCHANGED placeMode
  PROVE  PlaceInv'
<1>1. Place!Uses("add") /\ t \notin closed /\ placed[e] = "ACTIVE" /\ ~Place!InTeam(t, e) /\ UNCHANGED <<placed, closed, dept, head>>
  BY DEF Place!AddMember, Place!departments, Place!Active
<1>2. PlacesTyped /\ RowsOK
  BY DEF PlaceInv, PlacesTyped
<1> USE DEF Place!HasRow, Place!InTeam, Leads, Primary
<1>3. /\ RowsOK'
      /\ \A u \in Teams, x \in PlacedEmployees :
           /\ Place!HasRow(u, x)' <=> Place!HasRow(u, x) \/ (u = t /\ x = e)
           /\ Place!InTeam(u, x)' <=> Place!InTeam(u, x) \/ (u = t /\ x = e)
           /\ Leads(u, x)' <=> IF u = t /\ x = e THEN given = "LEAD" ELSE Leads(u, x)
           /\ ~(u = t /\ x = e) /\ Primary(u, x)' => Primary(u, x)
      /\ ~Place!HasRow(t, e) /\ Primary(t, e)' =>
           \A u \in Teams : Primary(u, e) => \E v \in Teams : Primary(v, e) /\ ~Primary(v, e)'
  BY <1>2, AddedRows
<1> HIDE DEF RowsOK
<1>4. PlacesTyped' /\ NewHoldNothing'
  BY <1>1, <1>2, <1>3 DEF PlaceInv, PlacesTyped, NewHoldNothing
<1>5. PrimaryPlaces'
  <2> SUFFICES ASSUME placeMode \subseteq {"create", "add", "member"}, PrimaryPlaces
               PROVE  /\ \A u \in Teams, x \in PlacedEmployees : Place!HasRow(u, x)' => Place!InTeam(u, x)'
                      /\ \A u, v \in Teams, x \in PlacedEmployees : Primary(u, x)' /\ Primary(v, x)' => u = v
    BY DEF PlaceInv, PrimaryPlaces
  <2>1. \A u \in Teams, x \in PlacedEmployees : Place!HasRow(u, x) => Place!InTeam(u, x)
    BY DEF PrimaryPlaces
  <2>2. \A u, v \in Teams, x \in PlacedEmployees : Primary(u, x) /\ Primary(v, x) => u = v
    BY DEF PrimaryPlaces
  <2>3. ~Place!HasRow(t, e)
    BY <1>1, <2>1
  <2>4. Primary(t, e)' => \A u \in Teams : u # t => ~Primary(u, e)'
    BY <1>3, <2>2, <2>3
  <2>5. \A u, v \in Teams, x \in PlacedEmployees : Primary(u, x)' /\ Primary(v, x)' => u = v
    BY <1>3, <2>2, <2>4
  <2> QED BY <1>3, <2>1, <2>5
<1>6. LeaverPlaces' /\ ClosedPlaces'
  BY <1>1, <1>3 DEF PlaceInv, LeaverPlaces, ClosedPlaces, Place!Uses
<1>7. FormPlaces'
  BY <1>1 DEF FormPlaces, Place!Uses
<1> QED BY <1>4, <1>5, <1>6, <1>7 DEF PlaceInv

LEMMA UpdateMemberKeeps ==
  ASSUME PlaceInv, NEW t \in Teams, NEW e \in PlacedEmployees, NEW given \in Place!TeamRoles, NEW primary \in BOOLEAN,
         Place!UpdateMember(t, e, given, primary), UNCHANGED placeMode
  PROVE  PlaceInv'
<1>1. Place!Uses("member") /\ Place!HasRow(t, e) /\ UNCHANGED <<placed, closed, dept, head>>
  BY DEF Place!UpdateMember, Place!departments
<1>2. PlacesTyped /\ RowsOK
  BY DEF PlaceInv, PlacesTyped
<1> USE DEF Place!HasRow, Place!InTeam, Leads, Primary
<1>3. /\ RowsOK'
      /\ \A u \in Teams, x \in PlacedEmployees :
           /\ Place!HasRow(u, x)' <=> Place!HasRow(u, x)
           /\ Place!InTeam(u, x)' <=> Place!InTeam(u, x)
           /\ ~(u = t /\ x = e) /\ Primary(u, x)' => Primary(u, x)
      /\ Primary(t, e)' => \A u \in Teams : Primary(u, e) => \E v \in Teams : Primary(v, e) /\ (v = t \/ ~Primary(v, e)')
  BY <1>2, UpdatedRows
<1> HIDE DEF RowsOK
<1>4. PlacesTyped' /\ NewHoldNothing'
  BY <1>1, <1>2, <1>3 DEF PlaceInv, PlacesTyped, NewHoldNothing
<1>5. PrimaryPlaces'
  <2> SUFFICES ASSUME placeMode \subseteq {"create", "add", "member"}, PrimaryPlaces
               PROVE  /\ \A u \in Teams, x \in PlacedEmployees : Place!HasRow(u, x)' => Place!InTeam(u, x)'
                      /\ \A u, v \in Teams, x \in PlacedEmployees : Primary(u, x)' /\ Primary(v, x)' => u = v
    BY DEF PlaceInv, PrimaryPlaces
  <2>1. \A u \in Teams, x \in PlacedEmployees : Place!HasRow(u, x) => Place!InTeam(u, x)
    BY DEF PrimaryPlaces
  <2>2. \A u, v \in Teams, x \in PlacedEmployees : Primary(u, x) /\ Primary(v, x) => u = v
    BY DEF PrimaryPlaces
  <2>3. Primary(t, e)' => \A u \in Teams : u # t => ~Primary(u, e)'
    BY <1>3, <2>2
  <2>4. \A u, v \in Teams, x \in PlacedEmployees : Primary(u, x)' /\ Primary(v, x)' => u = v
    BY <1>3, <2>2, <2>3
  <2> QED BY <1>3, <2>1, <2>4
<1>6. LeaverPlaces' /\ ClosedPlaces' /\ FormPlaces'
  BY <1>1 DEF LeaverPlaces, ClosedPlaces, FormPlaces, Place!Uses
<1> QED BY <1>4, <1>5, <1>6 DEF PlaceInv

LEMMA RemoveMemberKeeps ==
  ASSUME PlaceInv, NEW t \in Teams, NEW e \in PlacedEmployees, Place!RemoveMember(t, e), UNCHANGED placeMode
  PROVE  PlaceInv'
<1>1. /\ Place!Uses("remove") /\ Place!HasRow(t, e) /\ UNCHANGED <<placed, closed, dept, head>>
      /\ rows' = [rows EXCEPT ![t][e] = Place!LeftRow(@)]
  BY DEF Place!RemoveMember, Place!departments
<1>2. PlacesTyped /\ RowsOK
  BY DEF PlaceInv, PlacesTyped
<1> USE DEF Place!HasRow, Place!InTeam, Leads, Primary
<1>3. /\ RowsOK'
      /\ \A u \in Teams, x \in PlacedEmployees :
           /\ Place!HasRow(u, x)' <=> Place!HasRow(u, x)
           /\ Leads(u, x)' => Leads(u, x)
  BY <1>1, <1>2, RemovedRows
<1> HIDE DEF RowsOK
<1>4. PlacesTyped' /\ NewHoldNothing'
  BY <1>1, <1>2, <1>3 DEF PlaceInv, PlacesTyped, NewHoldNothing
<1>5. LeaverPlaces' /\ ClosedPlaces'
  BY <1>1, <1>3 DEF PlaceInv, LeaverPlaces, ClosedPlaces, Place!Uses
<1>6. PrimaryPlaces' /\ FormPlaces'
  BY <1>1 DEF PrimaryPlaces, FormPlaces, Place!Uses
<1> QED BY <1>4, <1>5, <1>6 DEF PlaceInv

LEMMA TransferTeamsKeeps ==
  ASSUME PlaceInv, NEW e \in PlacedEmployees, NEW new \in PlacedEmployees, NEW T \in SUBSET Teams,
         Place!TransferTeams(e, new, T), UNCHANGED placeMode
  PROVE  PlaceInv'
<1>1. Place!Uses("transfer") /\ placed[new] = "ACTIVE" /\ UNCHANGED <<placed, closed, dept, head>>
  BY DEF Place!TransferTeams, Place!departments, Place!Active
<1>2. PlacesTyped /\ RowsOK
  BY DEF PlaceInv, PlacesTyped
<1> USE DEF Place!HasRow, Place!InTeam, Leads, Primary
<1>3. /\ RowsOK'
      /\ \A u \in Teams, x \in PlacedEmployees :
           LET moved == u \in T /\ Place!InTeam(u, e) /\ x \in {e, new}
           IN  /\ Place!HasRow(u, x)' <=> Place!HasRow(u, x) \/ moved
               /\ Leads(u, x)' <=> IF moved THEN x = new ELSE Leads(u, x)
  BY <1>2, TransferredRows
<1> HIDE DEF RowsOK
<1>4. PlacesTyped' /\ NewHoldNothing'
  BY <1>1, <1>2, <1>3 DEF PlaceInv, PlacesTyped, NewHoldNothing
<1>5. LeaverPlaces'
  BY <1>1, <1>3 DEF PlaceInv, LeaverPlaces
<1>6. PrimaryPlaces' /\ FormPlaces' /\ ClosedPlaces'
  BY <1>1 DEF PlaceInv, PrimaryPlaces, FormPlaces, ClosedPlaces, Place!Uses
<1> QED BY <1>4, <1>5, <1>6 DEF PlaceInv

LEMMA TransferDepartmentsKeeps ==
  ASSUME PlaceInv, NEW e \in PlacedEmployees, NEW new \in PlacedEmployees, NEW D \in SUBSET PlacedDepartments,
         Place!TransferDepartments(e, new, D), UNCHANGED placeMode
  PROVE  PlaceInv'
<1>1. /\ Place!Uses("transfer") /\ placed[new] = "ACTIVE" /\ UNCHANGED <<placed, closed, rows, dept>>
      /\ head' = [d \in PlacedDepartments |-> IF d \in D /\ head[d] = e THEN new ELSE head[d]]
  BY DEF Place!TransferDepartments, Place!teams, Place!Active
<1>2. PlacesTyped
  BY DEF PlaceInv
<1>3. /\ head' \in [PlacedDepartments -> PlacedEmployees \cup {None}]
      /\ \A d \in PlacedDepartments : head'[d] # head[d] => head[d] = e /\ head'[d] = new
  BY <1>1, <1>2 DEF PlacesTyped
<1> USE DEF Place!HasRow, Place!InTeam, Leads, Primary
<1>4. PlacesTyped' /\ NewHoldNothing' /\ LeaverPlaces'
  BY <1>1, <1>2, <1>3 DEF PlaceInv, PlacesTyped, RowsOK, NewHoldNothing, LeaverPlaces
<1>5. PrimaryPlaces' /\ FormPlaces'
  BY <1>1 DEF PrimaryPlaces, FormPlaces, Place!Uses
<1>6. ClosedPlaces'
  BY <1>1, <1>3, PlaceAssumption DEF PlaceInv, ClosedPlaces, Place!Uses
<1> QED BY <1>4, <1>5, <1>6 DEF PlaceInv

LEMMA ExecuteOffboardKeeps ==
  ASSUME PlaceInv, NEW e \in PlacedEmployees, NEW new \in PlacedEmployees, NEW T \in SUBSET Teams, NEW D \in SUBSET PlacedDepartments,
         Place!ExecuteOffboard(e, new, T, D), UNCHANGED placeMode
  PROVE  PlaceInv'
<1>1. /\ Place!Uses("execute") /\ placed[e] # "NEW" /\ UNCHANGED <<closed, dept>>
      /\ T # {} \/ D # {} => placed[new] = "ACTIVE" /\ new # e
      /\ placed' = [placed EXCEPT ![e] = "GONE"]
      /\ head' = [d \in PlacedDepartments |-> IF d \in D /\ head[d] = e THEN new ELSE head[d]]
  BY DEF Place!ExecuteOffboard, Place!Active
<1>2. PlacesTyped /\ RowsOK
  BY DEF PlaceInv, PlacesTyped
<1> USE DEF Place!HasRow, Place!InTeam, Leads, Primary
<1>3. /\ RowsOK'
      /\ \A u \in Teams, x \in PlacedEmployees : Place!HasRow(u, x)' => Place!HasRow(u, x) \/ (u \in T /\ x = new)
  <2>1. rows' = HandedOver(e, new, T)
    BY DEF Place!ExecuteOffboard, HandedOver
  <2> QED BY <1>2, <2>1, ExecutedRows
<1> HIDE DEF RowsOK
<1>4. /\ head' \in [PlacedDepartments -> PlacedEmployees \cup {None}]
      /\ \A d \in PlacedDepartments : head'[d] # head[d] => D # {} /\ head'[d] = new
  BY <1>1, <1>2 DEF PlacesTyped
<1>5. \A x \in PlacedEmployees : placed'[x] = "NEW" => placed[x] = "NEW" /\ x # e
  BY <1>1, <1>2 DEF PlacesTyped
<1>6. PlacesTyped'
  BY <1>1, <1>2, <1>3, <1>4 DEF PlacesTyped
<1>7. NewHoldNothing'
  BY <1>1, <1>3, <1>4, <1>5 DEF PlaceInv, NewHoldNothing
<1>8. PrimaryPlaces' /\ FormPlaces' /\ ClosedPlaces' /\ LeaverPlaces'
  BY <1>1 DEF PrimaryPlaces, FormPlaces, ClosedPlaces, LeaverPlaces, Place!Uses
<1> QED BY <1>6, <1>7, <1>8 DEF PlaceInv

LEMMA OffboardConfirmKeeps ==
  ASSUME PlaceInv, NEW e \in PlacedEmployees, Place!OffboardConfirm(e), UNCHANGED placeMode
  PROVE  PlaceInv'
<1>1. /\ placed[e] # "NEW" /\ UNCHANGED <<closed, rows, dept, head>>
      /\ placed' = [placed EXCEPT ![e] = "GONE"]
      /\ \A t \in Teams : e \notin Place!LeadsOf(t)
      /\ \A d \in PlacedDepartments : head[d] # e
  BY DEF Place!OffboardConfirm, Place!teams, Place!departments
<1>2. PlacesTyped
  BY DEF PlaceInv
<1>3. \A x \in PlacedEmployees : placed'[x] = IF x = e THEN "GONE" ELSE placed[x]
  BY <1>1, <1>2 DEF PlacesTyped
<1> USE DEF Place!HasRow, Place!InTeam, Leads, Primary
<1>4. \A t \in Teams : ~Leads(t, e)
  BY <1>1 DEF Place!LeadsOf
<1>5. PlacesTyped' /\ NewHoldNothing' /\ LeaverPlaces'
  BY <1>1, <1>2, <1>3, <1>4 DEF PlaceInv, PlacesTyped, RowsOK, NewHoldNothing, LeaverPlaces
<1>6. PrimaryPlaces' /\ FormPlaces' /\ ClosedPlaces'
  BY <1>1 DEF PlaceInv, PrimaryPlaces, FormPlaces, ClosedPlaces
<1> QED BY <1>5, <1>6 DEF PlaceInv

LEMMA DeleteEmployeeKeeps ==
  ASSUME PlaceInv, NEW e \in PlacedEmployees, Place!DeleteEmployee(e), UNCHANGED placeMode
  PROVE  PlaceInv'
<1> USE PlaceAssumption
<1>1. /\ placed[e] = "GONE" /\ UNCHANGED closed
      /\ placed' = [placed EXCEPT ![e] = "NEW"]
      /\ rows' = [t \in Teams |-> [rows[t] EXCEPT ![e] = Place!NoRow]]
      /\ head' = [d \in PlacedDepartments |-> IF head[d] = e THEN None ELSE head[d]]
      /\ dept' = [dept EXCEPT ![e] = None]
  BY DEF Place!DeleteEmployee
<1>2. PlacesTyped /\ RowsOK
  BY DEF PlaceInv, PlacesTyped
<1> USE DEF Place!HasRow, Place!InTeam, Leads, Primary
<1>3. /\ RowsOK'
      /\ \A u \in Teams, x \in PlacedEmployees :
           /\ Place!HasRow(u, x)' <=> Place!HasRow(u, x) /\ x # e
           /\ Place!InTeam(u, x)' <=> Place!InTeam(u, x) /\ x # e
           /\ Leads(u, x)' <=> Leads(u, x) /\ x # e
           /\ Primary(u, x)' <=> Primary(u, x) /\ x # e
  BY <1>1, <1>2, DeletedRows
<1> HIDE DEF RowsOK
<1>4. /\ \A x \in PlacedEmployees : placed'[x] = IF x = e THEN "NEW" ELSE placed[x]
      /\ \A x \in PlacedEmployees : dept'[x] = IF x = e THEN None ELSE dept[x]
      /\ \A d \in PlacedDepartments : head'[d] = IF head[d] = e THEN None ELSE head[d]
  BY <1>1, <1>2 DEF PlacesTyped
<1>5. PlacesTyped'
  BY <1>1, <1>2, <1>3 DEF PlacesTyped
<1>6. NewHoldNothing' /\ LeaverPlaces'
  BY <1>1, <1>3, <1>4 DEF PlaceInv, NewHoldNothing, LeaverPlaces
<1>7. FormPlaces' /\ PrimaryPlaces'
  BY <1>3, <1>4 DEF PlaceInv, FormPlaces, PrimaryPlaces
<1>8. ClosedPlaces'
  BY <1>1, <1>3, <1>4 DEF PlaceInv, ClosedPlaces
<1> QED BY <1>5, <1>6, <1>7, <1>8 DEF PlaceInv

LEMMA ClosingKeeps ==
  ASSUME PlaceInv, UNCHANGED placeMode,
         \/ \E t \in Teams : Place!DeactivateTeam(t)
         \/ \E d \in PlacedDepartments : Place!DeleteDepartment(d)
         \/ UNCHANGED Place!vars
  PROVE  PlaceInv'
<1>1. UNCHANGED <<placed, rows, dept, head>>
  BY DEF Place!DeactivateTeam, Place!DeleteDepartment, Place!teams, Place!departments, Place!vars
<1> USE DEF Place!HasRow, Place!InTeam, Leads, Primary
<1>2. PlacesTyped' /\ NewHoldNothing' /\ LeaverPlaces' /\ FormPlaces' /\ PrimaryPlaces'
  BY <1>1 DEF PlaceInv, PlacesTyped, RowsOK, NewHoldNothing, LeaverPlaces, FormPlaces, PrimaryPlaces
<1>3. CASE \E t \in Teams : Place!DeactivateTeam(t)
  <2>1. PICK t \in Teams : Place!Uses("deactivate") /\ Place!LeadsOf(t) = {} /\ closed' = closed \cup {t}
    BY <1>3 DEF Place!DeactivateTeam
  <2>2. \A e \in PlacedEmployees : ~Leads(t, e)
    BY <2>1 DEF Place!LeadsOf
  <2>3. ClosedPlaces'
    BY <1>1, <2>1, <2>2 DEF PlaceInv, ClosedPlaces, Place!Uses
  <2> QED BY <1>2, <2>3 DEF PlaceInv
<1>4. CASE \E d \in PlacedDepartments : Place!DeleteDepartment(d)
  <2>1. ClosedPlaces'
    BY <1>1, <1>4 DEF PlaceInv, ClosedPlaces, Place!Uses, Place!DeleteDepartment
  <2> QED BY <1>2, <2>1 DEF PlaceInv
<1>5. CASE UNCHANGED Place!vars
  <2>1. ClosedPlaces'
    BY <1>1, <1>5 DEF PlaceInv, ClosedPlaces, Place!vars
  <2> QED BY <1>2, <2>1 DEF PlaceInv
<1> QED BY <1>3, <1>4, <1>5

LEMMA UpdateHeadKeeps ==
  ASSUME PlaceInv, NEW d \in PlacedDepartments, NEW e \in PlacedEmployees, Place!UpdateHead(d, e), UNCHANGED placeMode
  PROVE  PlaceInv'
<1>1. /\ Place!Uses("department") /\ placed[e] # "NEW" /\ UNCHANGED <<placed, closed, rows, dept>>
      /\ head' = [head EXCEPT ![d] = e]
  BY DEF Place!UpdateHead, Place!HeadOf, Place!teams
<1> USE DEF Place!HasRow, Place!InTeam, Leads, Primary
<1>2. PlacesTyped' /\ NewHoldNothing'
  BY <1>1 DEF PlaceInv, PlacesTyped, RowsOK, NewHoldNothing
<1>3. LeaverPlaces' /\ FormPlaces' /\ PrimaryPlaces' /\ ClosedPlaces'
  BY <1>1 DEF LeaverPlaces, FormPlaces, PrimaryPlaces, ClosedPlaces, Place!Uses
<1> QED BY <1>2, <1>3 DEF PlaceInv

LEMMA PlaceInvNext == PlaceInv /\ [Place!Next]_Place!vars => PlaceInv'
<1> SUFFICES ASSUME PlaceInv, [Place!Next]_Place!vars PROVE PlaceInv'
  OBVIOUS
<1>1. UNCHANGED placeMode
  BY DEF Place!Next, Place!vars
<1>2. ASSUME NEW e \in PlacedEmployees, Place!EmployeeStep(e) PROVE PlaceInv'
  BY <1>1, <1>2, CreateKeeps, UpdateTeamKeeps, UpdateDepartmentKeeps, OffboardConfirmKeeps, DeleteEmployeeKeeps,
    TransferTeamsKeeps, TransferDepartmentsKeeps, ExecuteOffboardKeeps DEF Place!EmployeeStep
<1>3. ASSUME NEW t \in Teams, Place!TeamStep(t) PROVE PlaceInv'
  BY <1>1, <1>3, AddMemberKeeps, UpdateMemberKeeps, RemoveMemberKeeps, ClosingKeeps DEF Place!TeamStep
<1>4. ASSUME NEW d \in PlacedDepartments, Place!DeleteDepartment(d) \/ \E e \in PlacedEmployees : Place!UpdateHead(d, e) PROVE PlaceInv'
  BY <1>1, <1>4, UpdateHeadKeeps, ClosingKeeps
<1>5. CASE UNCHANGED Place!vars
  BY <1>1, <1>5, ClosingKeeps
<1> QED BY <1>2, <1>3, <1>4, <1>5 DEF Place!Next

-----------------------------------------------------------------------------
(* What the invariant says of teams and departments *)

\* At most one element, whatever the set is made of.
LEMMA AtMostOne ==
  ASSUME NEW S, \A x, y \in S : x = y
  PROVE  Cardinality(S) <= 1
<1>1. CASE S = {}
  BY <1>1, FS_EmptySet
<1>2. CASE S # {}
  <2>1. PICK x \in S : S = {x}
    BY <1>2
  <2> QED BY <2>1, FS_Singleton
<1> QED BY <1>1, <1>2

LEMMA PlacesSound ==
  ASSUME PlaceInv
  PROVE  /\ Place!PlacementTypeOK /\ Place!OneTeamOneLead /\ Place!OnePrimaryTeam
         /\ Place!HeadWorksThere /\ Place!LeaversHoldNothing /\ Place!ClosedStayEmpty
<1> USE DEF PlaceInv
<1>1. Place!PlacementTypeOK
  BY DEF Place!PlacementTypeOK, PlacesTyped, RowsOK, NewHoldNothing, Place!TeamsOf, Place!InTeam
<1>2. Place!OneTeamOneLead
  <2> SUFFICES ASSUME placeMode \subseteq {"create", "update", "confirm", "delete"}
               PROVE  /\ \A e \in PlacedEmployees : Cardinality(Place!TeamsOf(e)) <= 1 /\ Place!Primaries(e) = Place!TeamsOf(e)
                      /\ \A t \in Teams : Cardinality(Place!LeadsOf(t)) <= 1
    BY DEF Place!OneTeamOneLead, Place!Cardinality, Cardinality
  <2>1. ASSUME NEW e \in PlacedEmployees PROVE Cardinality(Place!TeamsOf(e)) <= 1 /\ Place!Primaries(e) = Place!TeamsOf(e)
    <3>1. \A t, u \in Place!TeamsOf(e) : t = u
      BY DEF FormPlaces, Place!TeamsOf
    <3>2. Place!Primaries(e) = Place!TeamsOf(e)
      BY DEF FormPlaces, Place!Primaries, Primary, Place!TeamsOf
    <3> QED BY <3>1, <3>2, AtMostOne
  <2>2. ASSUME NEW t \in Teams PROVE Cardinality(Place!LeadsOf(t)) <= 1
    <3>1. \A e, x \in Place!LeadsOf(t) : e = x
      BY DEF FormPlaces, Place!LeadsOf, Leads
    <3> QED BY <3>1, AtMostOne
  <2> QED BY <2>1, <2>2
<1>3. Place!OnePrimaryTeam
  <2> SUFFICES ASSUME placeMode \subseteq {"create", "add", "member"}, NEW e \in PlacedEmployees
               PROVE  Cardinality(Place!Primaries(e)) <= 1
    BY DEF Place!OnePrimaryTeam, Place!Cardinality, Cardinality
  <2>1. \A t, u \in Place!Primaries(e) : t = u
    BY DEF PrimaryPlaces, Place!Primaries, Primary
  <2> QED BY <2>1, AtMostOne
<1>4. Place!HeadWorksThere
  BY DEF Place!HeadWorksThere, FormPlaces, PlacesTyped
<1>5. Place!LeaversHoldNothing
  BY DEF Place!LeaversHoldNothing, LeaverPlaces, Place!LeadsOf, Leads
<1>6. Place!ClosedStayEmpty
  BY DEF Place!ClosedStayEmpty, ClosedPlaces, Place!LeadsOf, Leads
<1> QED BY <1>1, <1>2, <1>3, <1>4, <1>5, <1>6

\* A team that is led stays led while teams change hands.
LEMMA LeadsStay ==
  ASSUME PlaceInv, [Place!Next]_Place!vars, placeMode \subseteq {"create", "add", "transfer", "execute", "department"},
         NEW t \in Teams, Place!LeadsOf(t) # {}
  PROVE  Place!LeadsOf(t)' # {}
<1>1. PICK e \in PlacedEmployees : Leads(t, e)
  BY DEF Place!LeadsOf, Leads
<1> SUFFICES \E x \in PlacedEmployees : Leads(t, x)'
  BY DEF Place!LeadsOf, Leads
<1>2. RowsOK
  BY DEF PlaceInv, PlacesTyped
<1> USE DEF Place!HasRow, Place!InTeam, Leads, Primary
<1>3. CASE UNCHANGED rows
  BY <1>1, <1>3
<1>4. ASSUME NEW x \in PlacedEmployees, NEW d, NEW h, NEW u \in Teams \cup {None}, NEW r \in Place!TeamRoles, Place!Create(x, d, h, u, r)
      PROVE  \E y \in PlacedEmployees : Leads(t, y)'
  <2>1. placed[x] = "NEW" /\ rows' = IF u = None THEN rows ELSE Place!Join(u, x, r)
    BY <1>4 DEF Place!Create
  <2>2. x # e
    BY <1>1, <2>1 DEF PlaceInv, NewHoldNothing
  <2>3. CASE u = None
    BY <1>1, <2>1, <2>3
  <2>4. CASE u # None
    <3>1. \A v \in Teams, y \in PlacedEmployees :
            Leads(v, y)' <=> IF y = x THEN v = u /\ r = "LEAD" ELSE Leads(v, y) /\ ~(v = u /\ r = "LEAD")
      BY <1>2, <2>1, <2>4, JoinRows
    <3> QED BY <1>1, <2>2, <3>1
  <2> QED BY <2>3, <2>4
<1>5. ASSUME NEW u \in Teams, NEW x \in PlacedEmployees, NEW r \in Place!TeamRoles, NEW p \in BOOLEAN, Place!AddMember(u, x, r, p)
      PROVE  \E y \in PlacedEmployees : Leads(t, y)'
  <2>1. ~Place!InTeam(u, x)
    BY <1>5 DEF Place!AddMember
  <2>2. \A v \in Teams, y \in PlacedEmployees : Leads(v, y)' <=> IF v = u /\ y = x THEN r = "LEAD" ELSE Leads(v, y)
    BY <1>2, <1>5, AddedRows
  <2> QED BY <1>1, <2>1, <2>2
<1>6. ASSUME NEW x \in PlacedEmployees, NEW f \in PlacedEmployees, NEW T \in SUBSET Teams, Place!TransferTeams(x, f, T)
      PROVE  \E y \in PlacedEmployees : Leads(t, y)'
  <2>1. \A v \in Teams, y \in PlacedEmployees :
          LET moved == v \in T /\ Place!InTeam(v, x) /\ y \in {x, f}
          IN  Leads(v, y)' <=> IF moved THEN y = f ELSE Leads(v, y)
    BY <1>2, <1>6, TransferredRows
  <2> QED BY <1>1, <2>1
<1>7. ASSUME NEW x \in PlacedEmployees, NEW f \in PlacedEmployees, NEW T \in SUBSET Teams, NEW D \in SUBSET PlacedDepartments,
             Place!ExecuteOffboard(x, f, T, D)
      PROVE  \E y \in PlacedEmployees : Leads(t, y)'
  <2>1. \A v \in Teams, y \in PlacedEmployees :
          Leads(v, y)' <=> IF v \in T /\ y \in {x, f} THEN y = f ELSE Leads(v, y)
    <3>1. rows' = HandedOver(x, f, T)
      BY <1>7 DEF Place!ExecuteOffboard, HandedOver
    <3> QED BY <1>2, <3>1, ExecutedRows
  <2> QED BY <1>1, <2>1
<1> HIDE DEF Place!HasRow, Place!InTeam, Leads, Primary
<1>8. ASSUME NEW x \in PlacedEmployees, Place!EmployeeStep(x) PROVE UNCHANGED rows \/ \E y \in PlacedEmployees : Leads(t, y)'
  BY <1>4, <1>6, <1>7, <1>8
    DEF Place!EmployeeStep, Place!UpdateTeam, Place!UpdateDepartment, Place!OffboardConfirm, Place!DeleteEmployee, Place!TransferDepartments, Place!Uses, Place!teams
<1>9. ASSUME NEW u \in Teams, Place!TeamStep(u) PROVE UNCHANGED rows \/ \E y \in PlacedEmployees : Leads(t, y)'
  <2>1. CASE Place!DeactivateTeam(u)
    BY <2>1 DEF Place!DeactivateTeam, Place!teams
  <2>2. ASSUME NEW x \in PlacedEmployees, NEW r \in Place!TeamRoles, NEW p \in BOOLEAN PROVE ~Place!UpdateMember(u, x, r, p)
    BY DEF Place!UpdateMember, Place!Uses
  <2>3. ASSUME NEW x \in PlacedEmployees PROVE ~Place!RemoveMember(u, x)
    BY DEF Place!RemoveMember, Place!Uses
  <2> QED BY <1>5, <1>9, <2>1, <2>2, <2>3 DEF Place!TeamStep
<1>10. ASSUME NEW d \in PlacedDepartments, Place!DeleteDepartment(d) \/ \E x \in PlacedEmployees : Place!UpdateHead(d, x) PROVE UNCHANGED rows
  BY <1>10 DEF Place!DeleteDepartment, Place!UpdateHead, Place!teams
<1> QED BY <1>3, <1>8, <1>9, <1>10 DEF Place!Next, Place!vars

\* Whatever the other parts do, teams and departments change the way Placement says.
LEMMA PlaceSteps ==
  [AdminNext]_<<workflowsVars, chart, place, access, start, part>> => [Place!Next]_Place!vars
BY DEF AdminNext, WorkflowsStep, ChartStep, PlaceStep, AccessStep, StartStep, place, Place!vars

\* For any employees, teams and departments: who is placed by the form alone is in one
\* team, with one lead, whose head works there; the flag of the primary team is on one row
\* until rows come back; leavers lead and head nothing, what is closed is empty, and a team
\* that is led stays led when it is handed over.
THEOREM PlacementSoundCorrect == AdminSpec => PlacementSound
<1>1. AdminInit => PlaceInv
  BY PlaceInvInit DEF AdminInit
<1>2. PlaceInv /\ [AdminNext]_<<workflowsVars, chart, place, access, start, part>> => PlaceInv'
  BY PlaceSteps, PlaceInvNext
<1>3. PlaceInv => /\ Place!PlacementTypeOK /\ Place!OneTeamOneLead /\ Place!OnePrimaryTeam
                  /\ Place!HeadWorksThere /\ Place!LeaversHoldNothing /\ Place!ClosedStayEmpty
  BY PlacesSound
<1>4. PlaceInv /\ [Place!Next]_Place!vars =>
        [placeMode \subseteq {"create", "add", "transfer", "execute", "department"} =>
           \A t \in Teams : Place!LeadsOf(t) # {} => Place!LeadsOf(t)' # {}]_Place!vars
  BY LeadsStay
<1>5. [AdminNext]_<<workflowsVars, chart, place, access, start, part>> => [Place!Next]_Place!vars
  BY PlaceSteps
<1> QED BY <1>1, <1>2, <1>3, <1>4, <1>5, PTL
  DEF AdminSpec, PlacementSound, Place!PlacementSound, Place!HandedToALead

-----------------------------------------------------------------------------
(* Starts of the server *)

StartHours == [begin : {"08:00", "09:00", "10:00"}, end : {"18:00", "19:00", "20:00"}]

\* The steps of a start that follow a given one.
PastReasons == {"registry"}
PastCreators == PastReasons \cup {"reasons"}
PastTitles == PastCreators \cup {"creators"}
PastTitlePermission == PastTitles \cup {"titles"}
PastCalendar == PastTitlePermission \cup {"titlePermission"}
PastSettings == PastCalendar \cup {"calendar"}
PastRule == PastSettings \cup {"settings"}
PastLeaveTypes == PastRule \cup {"rule"}
PastScopes == PastLeaveTypes \cup {"leaveTypes"}
PastGrant == PastScopes \cup {"scopes"}
PastEmployee == PastGrant \cup {"grant"}
PastRole == PastEmployee \cup {"employee"}
PastMigrate == PastRole \cup {"role"}

LEMMA StartingStages == Starting!Starting = PastMigrate \cup {"migrate"} /\ "up" \notin Starting!Starting /\ "down" \notin Starting!Starting
  /\ "failed" \notin Starting!Starting
<1>1. Len(Starting!Stages) = 15 /\ DOMAIN Starting!Stages = 1..15
  BY DEF Starting!Stages
<1>2. 1..14 = {1, 2, 3, 4, 5, 6, 7, 8, 9, 10, 11, 12, 13, 14}
  OBVIOUS
<1>3. Starting!Starting = {Starting!Stages[i] : i \in {1, 2, 3, 4, 5, 6, 7, 8, 9, 10, 11, 12, 13, 14}}
  BY <1>1, <1>2 DEF Starting!Starting
<1>4. Starting!Starting = {Starting!Stages[1], Starting!Stages[2], Starting!Stages[3], Starting!Stages[4], Starting!Stages[5], Starting!Stages[6], Starting!Stages[7], Starting!Stages[8],
                  Starting!Stages[9], Starting!Stages[10], Starting!Stages[11], Starting!Stages[12], Starting!Stages[13], Starting!Stages[14]}
  BY <1>3
<1> QED BY <1>4 DEF Starting!Stages, PastReasons, PastCreators, PastTitles, PastTitlePermission, PastCalendar, PastSettings,
  PastRule, PastLeaveTypes, PastScopes, PastGrant, PastEmployee, PastRole, PastMigrate

\* Each step of a start is followed by the next.
LEMMA NextStage ==
  /\ Starting!After("migrate") = "role" /\ Starting!After("role") = "employee" /\ Starting!After("employee") = "grant"
  /\ Starting!After("grant") = "scopes" /\ Starting!After("scopes") = "leaveTypes" /\ Starting!After("leaveTypes") = "rule"
  /\ Starting!After("rule") = "settings" /\ Starting!After("settings") = "calendar" /\ Starting!After("calendar") = "titlePermission"
  /\ Starting!After("titlePermission") = "titles" /\ Starting!After("titles") = "creators" /\ Starting!After("creators") = "reasons"
  /\ Starting!After("reasons") = "registry" /\ Starting!After("registry") = "up"
<1>1. DOMAIN Starting!Stages = 1..15
  BY DEF Starting!Stages
<1>2. \A i, j \in 1..15 : Starting!Stages[i] = Starting!Stages[j] => i = j
  BY DEF Starting!Stages
<1>3. ASSUME NEW i \in 1..14 PROVE Starting!After(Starting!Stages[i]) = Starting!Stages[i + 1]
  <2>1. (CHOOSE j \in DOMAIN Starting!Stages : Starting!Stages[j] = Starting!Stages[i]) = i
    BY <1>1, <1>2
  <2>2. Starting!After(Starting!Stages[i]) = Starting!Stages[1 + CHOOSE j \in DOMAIN Starting!Stages : Starting!Stages[j] = Starting!Stages[i]]
    BY Zenon DEF Starting!After
  <2>3. Starting!After(Starting!Stages[i]) = Starting!Stages[1 + i]
    BY <2>1, <2>2
  <2> QED BY <2>3
<1> QED BY <1>3 DEF Starting!Stages

-----------------------------------------------------------------------------
StartTypeOK ==
  /\ startMode \in Databases
  /\ stage \in Starting!Starting \cup {"up", "down", "failed"}
  /\ roleRows \in [StartRoles -> RoleRow]
  /\ first \in [row : BOOLEAN, named : BOOLEAN, roles : SUBSET StartRoles]
  /\ items \in [Starting!Entries -> {"absent", "seeded", "edited", "recoded", "doubled"}]
  /\ titles \in [Titles -> [state : {"absent", "active", "inactive"}, owned : BOOLEAN]]
  /\ registry \subseteq Features
  /\ legacy \in [StartRoles -> [Starting!LegacyNames -> {"-", "ALL", "NONE"}]]
  /\ views \in [StartRoles -> [Features -> {"-", "ALL", "NONE"}]]
  /\ rule \in StartHours \cup {None}
  /\ settings \in BOOLEAN /\ touched \in BOOLEAN

\* What a start has done by then, and what it would do again: nothing.
Done(S) == stage \in S \/ ~touched

SuperRole == Starting!AdminRole # {} /\ \A r \in Starting!AdminRole : roleRows[r].super
Present(K) == \A i \in K : items[i] \in {"seeded", "edited", "doubled"}
CalendarOpen == \A c \in Starting!AdminCodes : \A r \in Starting!HasCode(c), f \in CalendarFeatures : views[r][f] # "-"
TitlesOpen == \A r \in Starting!HasCode("ADMIN") : views[r][TitleFeature] # "-"
TitlesThere == Starting!HasCode("ADMIN") # {} => \A t \in Titles : titles[t].state # "absent"
TitlesSigned == Starting!HasCode("ADMIN") # {} /\ first.named => \A t \in Titles : titles[t].owned

StartInv ==
  /\ StartTypeOK
  /\ Done(PastMigrate) => schema = "scopes"
  /\ schema = "scopes" => Features \ LateFeatures \subseteq registry
  /\ Done(PastRole) => SuperRole
  /\ Done(PastEmployee) => first.row
  /\ first.row \/ first.roles = {}
  /\ Done(PastGrant) => Starting!AdminRole \subseteq first.roles
  /\ Done(PastScopes) => Present(ScopeEntries)
  /\ Done(PastLeaveTypes) => Present(LeaveEntries)
  /\ Done(PastRule) => rule # None /\ rule.begin # "09:00" /\ rule.end # "18:00"
  /\ Done(PastSettings) => settings
  /\ Done(PastCalendar) => CalendarOpen
  /\ Done(PastTitlePermission) => TitlesOpen
  /\ stage \in {"titles", "creators"} => Starting!HasCode("ADMIN") # {}
  /\ Done(PastTitles) => TitlesThere
  /\ Done(PastCreators) => TitlesSigned
  /\ Done(PastReasons) => Present(ReasonEntries)
  /\ ~touched => registry = Features

LEMMA StartInvInit == Starting!Init => StartInv
<1> SUFFICES ASSUME Starting!Init PROVE StartInv
  OBVIOUS
<1> USE StartAssumption
<1>1. stage = "down" /\ touched = TRUE /\ schema # "scopes"
  BY DEF Starting!Init
<1>2. roleRows \in [StartRoles -> RoleRow]
  BY DEF Starting!Init, RoleRow, Starting!NoRole
<1>3. first \in [row : BOOLEAN, named : BOOLEAN, roles : SUBSET StartRoles]
  BY DEF Starting!Init
<1>4. legacy \in [StartRoles -> [Starting!LegacyNames -> {"-", "ALL", "NONE"}]]
  BY DEF Starting!Init, Starting!NoLegacy
<1>5. items \in [Starting!Entries -> {"absent", "seeded", "edited", "recoded", "doubled"}]
  BY DEF Starting!Init
<1>6. titles \in [Titles -> [state : {"absent", "active", "inactive"}, owned : BOOLEAN]]
  BY DEF Starting!Init
<1>7. views \in [StartRoles -> [Features -> {"-", "ALL", "NONE"}]]
  BY DEF Starting!Init, Starting!NoScopes
<1>9. first.roles = {}
  BY DEF Starting!Init
<1>8. StartTypeOK
  BY <1>1, <1>2, <1>3, <1>4, <1>5, <1>6, <1>7 DEF Starting!Init, StartTypeOK
<1> QED BY <1>1, <1>8, <1>9 DEF StartInv, Done, PastReasons, PastCreators, PastTitles, PastTitlePermission, PastCalendar,
  PastSettings, PastRule, PastLeaveTypes, PastScopes, PastGrant, PastEmployee, PastRole, PastMigrate

\* Rows with one column changed.
LEMMA RowChanges ==
  /\ \A q \in RoleRow : /\ [q EXCEPT !.super = TRUE] \in RoleRow
                        /\ [q EXCEPT !.super = TRUE].row = q.row
                        /\ [q EXCEPT !.super = TRUE].code = q.code
                        /\ [q EXCEPT !.super = TRUE].super = TRUE
                        /\ q.super => [q EXCEPT !.super = TRUE] = q
  /\ \A q \in RoleRow, c \in {"ADMIN", "HR", "OTHER"} : [q EXCEPT !.code = c] \in RoleRow
  /\ \A q \in [state : {"absent", "active", "inactive"}, owned : BOOLEAN] :
       /\ [q EXCEPT !.owned = TRUE] \in [state : {"absent", "active", "inactive"}, owned : BOOLEAN]
       /\ [q EXCEPT !.owned = TRUE].state = q.state
       /\ [q EXCEPT !.owned = TRUE].owned = TRUE
       /\ q.owned => [q EXCEPT !.owned = TRUE] = q
<1>1. \A q \in RoleRow : /\ [q EXCEPT !.super = TRUE] \in RoleRow
                         /\ [q EXCEPT !.super = TRUE].row = q.row
                         /\ [q EXCEPT !.super = TRUE].code = q.code
                         /\ [q EXCEPT !.super = TRUE].super = TRUE
  BY DEF RoleRow
<1>2. \A q \in RoleRow : q.super => [q EXCEPT !.super = TRUE] = q
  BY DEF RoleRow
<1>3. \A q \in RoleRow, c \in {"ADMIN", "HR", "OTHER"} : [q EXCEPT !.code = c] \in RoleRow
  BY DEF RoleRow
<1> QED BY <1>1, <1>2, <1>3

\* The administrators' role, after it has been seeded.
LEMMA SeededRoles ==
  ASSUME roleRows \in [StartRoles -> RoleRow], Starting!SeedRole
  PROVE  roleRows' \in [StartRoles -> RoleRow] /\ SuperRole' /\ (SuperRole => roleRows' = roleRows)
<1> USE StartAssumption
<1>1. CASE Starting!AdminRole = {}
  <2>1. roleRows' = [roleRows EXCEPT ![SeededRole] = [row |-> TRUE, code |-> "ADMIN", super |-> TRUE]]
    BY <1>1 DEF Starting!SeedRole
  <2>2. roleRows' \in [StartRoles -> RoleRow]
    BY <2>1 DEF RoleRow
  <2>3. roleRows'[SeededRole].row /\ roleRows'[SeededRole].super
    BY <2>1
  <2>4. Starting!AdminRole' = {SeededRole}
    BY <2>3 DEF Starting!AdminRole
  <2> QED BY <1>1, <2>2, <2>3, <2>4 DEF SuperRole
<1>2. CASE Starting!AdminRole # {}
  <2>1. roleRows' = [r \in StartRoles |-> IF r \in Starting!AdminRole THEN [roleRows[r] EXCEPT !.super = TRUE] ELSE roleRows[r]]
    BY <1>2 DEF Starting!SeedRole
  <2>2. roleRows' \in [StartRoles -> RoleRow]
    BY <2>1, RowChanges
  <2>3. \A r \in StartRoles : /\ roleRows'[r].row = roleRows[r].row /\ roleRows'[r].code = roleRows[r].code
                              /\ r \in Starting!AdminRole => roleRows'[r].super
    BY <2>1, RowChanges
  <2>4. Starting!HasCode("ADMIN")' = Starting!HasCode("ADMIN")
    BY <2>3 DEF Starting!HasCode
  <2>5. Starting!AdminRole' = Starting!AdminRole
    BY <2>3, <2>4 DEF Starting!AdminRole
  <2>6. Starting!AdminRole \subseteq StartRoles
    BY DEF Starting!AdminRole, Starting!HasCode
  <2>7. SuperRole => \A r \in StartRoles : roleRows'[r] = roleRows[r]
    BY <2>1, RowChanges DEF SuperRole
  <2>8. SuperRole => roleRows' = roleRows
    BY <2>2, <2>7
  <2> QED BY <1>2, <2>2, <2>3, <2>5, <2>6, <2>8 DEF SuperRole
<1> QED BY <1>1, <1>2

LEMMA StartInvNext == StartInv /\ [Starting!Next]_Starting!vars => StartInv'
<1> SUFFICES ASSUME StartInv, [Starting!Next]_Starting!vars PROVE StartInv'
  OBVIOUS
<1> USE StartAssumption, NextStage, StartingStages
    DEF Starting!Proceed, StartInv, StartTypeOK, Done, PastReasons, PastCreators, PastTitles, PastTitlePermission,
        PastCalendar, PastSettings, PastRule, PastLeaveTypes, PastScopes, PastGrant, PastEmployee, PastRole,
        PastMigrate, SuperRole, Present, CalendarOpen, TitlesOpen, TitlesThere, TitlesSigned, Starting!HasCode, Starting!AdminRole
<1>1. ASSUME Starting!Start PROVE StartInv'
  BY <1>1 DEF Starting!Start, Starting!tables
<1>2. ASSUME Starting!Crash PROVE StartInv'
  BY <1>2 DEF Starting!Crash, Starting!tables
<1>3. ASSUME Starting!SeedRole PROVE StartInv'
  <2>1. roleRows' \in [StartRoles -> RoleRow] /\ SuperRole' /\ (SuperRole => roleRows' = roleRows)
    BY <1>3, SeededRoles
  <2>2. CASE ~touched
    <3>1. SuperRole /\ roleRows' = roleRows
      BY <2>1, <2>2
    <3>2. Starting!AdminRole' = Starting!AdminRole
      BY <3>1
    <3>3. stage' = "employee" /\ UNCHANGED <<startMode, Starting!tables, touched>>
      BY <1>3, <3>1 DEF Starting!SeedRole, Starting!tables
    <3> HIDE DEF SuperRole, Starting!AdminRole
    <3> QED BY <2>1, <2>2, <3>1, <3>2, <3>3 DEF Starting!tables
  <2>3. CASE touched
    <3> HIDE DEF SuperRole, Starting!AdminRole
    <3> QED BY <1>3, <2>1, <2>3 DEF Starting!SeedRole
  <2> QED BY <2>2, <2>3
<1>4. ASSUME Starting!SeedAdmin PROVE StartInv'
  <2>1. CASE first.row
    BY <1>4, <2>1 DEF Starting!SeedAdmin
  <2>2. CASE ~first.row
    <3>1. touched /\ stage = "employee" /\ UNCHANGED <<startMode, schema, roleRows, items, titles, registry, legacy, views, rule, settings, touched>>
      BY <1>4, <2>2 DEF Starting!SeedAdmin
    <3>2. \/ stage' = "grant" /\ first' = [row |-> TRUE, named |-> TRUE, roles |-> {}]
          \/ stage' = "failed" /\ first' = first
      BY <1>4, <2>2 DEF Starting!SeedAdmin
    <3>3. first' \in [row : BOOLEAN, named : BOOLEAN, roles : SUBSET StartRoles] /\ (stage' = "grant" => first'.row)
      <4>1. [row |-> TRUE, named |-> TRUE, roles |-> {}] \in [row : BOOLEAN, named : BOOLEAN, roles : SUBSET StartRoles]
        OBVIOUS
      <4>2. CASE stage' = "grant" /\ first' = [row |-> TRUE, named |-> TRUE, roles |-> {}]
        BY <4>1, <4>2
      <4>3. CASE stage' = "failed" /\ first' = first
        BY <4>3
      <4> QED BY <3>2, <4>2, <4>3
    <3>4. SuperRole' /\ schema = "scopes" /\ (first'.row \/ first'.roles = {})
      BY <3>1, <3>2
    <3>5. stage' \in {"grant", "failed"}
      BY <3>2
    <3> HIDE DEF SuperRole, Starting!AdminRole
    <3> QED BY <3>1, <3>3, <3>4, <3>5
  <2> QED BY <2>1, <2>2
<1>5. ASSUME Starting!SeedGrant PROVE StartInv'
  <2>1. Starting!AdminRole \subseteq StartRoles
    OBVIOUS
  <2>2. PICK a : a = [first EXCEPT !.roles = @ \cup Starting!AdminRole]
    OBVIOUS
  <2>3. a \in [row : BOOLEAN, named : BOOLEAN, roles : SUBSET StartRoles]
        /\ a.row = first.row /\ a.named = first.named /\ Starting!AdminRole \subseteq a.roles /\ first.roles \subseteq a.roles
    BY <2>1, <2>2
  <2>4. first' = a
    BY <1>5, <2>2 DEF Starting!SeedGrant
  <2>7. Starting!AdminRole' = Starting!AdminRole
    BY <1>5 DEF Starting!SeedGrant
  <2>5. first' \in [row : BOOLEAN, named : BOOLEAN, roles : SUBSET StartRoles] /\ Starting!AdminRole' \subseteq first'.roles
        /\ first'.row = first.row /\ first'.named = first.named
    BY ONLY <2>3, <2>4, <2>7
  <2> HIDE <2>2
  <2>6. SuperRole => SuperRole'
    BY <1>5 DEF Starting!SeedGrant
  <2> HIDE DEF SuperRole, Starting!AdminRole
  <2> QED BY <1>5, <2>5, <2>6 DEF Starting!SeedGrant
<1>6. ASSUME Starting!SeedScopes PROVE StartInv'
  BY <1>6 DEF Starting!SeedScopes, Starting!Insert, Starting!Entries
<1>7. ASSUME Starting!SeedLeaveTypes PROVE StartInv'
  BY <1>7 DEF Starting!SeedLeaveTypes, Starting!Insert, Starting!Entries
<1>8. ASSUME Starting!SeedReasons PROVE StartInv'
  BY <1>8 DEF Starting!SeedReasons, Starting!Insert, Starting!Entries
<1>9. ASSUME Starting!SeedRule PROVE StartInv'
  BY <1>9 DEF Starting!SeedRule, Starting!Moved, Starting!NewHours, StartHours
<1>10. ASSUME Starting!SeedSettings PROVE StartInv'
  BY <1>10 DEF Starting!SeedSettings
<1>11. ASSUME Starting!SeedCalendar PROVE StartInv'
  BY <1>11 DEF Starting!SeedCalendar, Starting!AdminCodes, Starting!Granted
<1>12. ASSUME Starting!SeedTitlePermission PROVE StartInv'
  <2>1. CASE Starting!HasCode("ADMIN") = {} \/ TitleFeature \notin registry
    BY <1>12, <2>1 DEF Starting!SeedTitlePermission
  <2>2. CASE ~(Starting!HasCode("ADMIN") = {} \/ TitleFeature \notin registry)
    <3>1. views' = Starting!Granted(Starting!HasCode("ADMIN"), {TitleFeature})
      BY <1>12, <2>2 DEF Starting!SeedTitlePermission
    <3>2. views' \in [StartRoles -> [Features -> {"-", "ALL", "NONE"}]]
          /\ \A r \in StartRoles, f \in Features : views[r][f] # "-" => views'[r][f] = views[r][f]
      BY <3>1 DEF Starting!Granted
    <3>3. TitlesOpen'
      BY <1>12, <2>2, <3>1 DEF Starting!SeedTitlePermission, Starting!Granted
    <3>4. stage = "titlePermission" /\ stage' = "titles" /\ Starting!HasCode("ADMIN") # {}
          /\ UNCHANGED <<startMode, schema, roleRows, first, items, titles, registry, legacy, rule, settings, touched>>
      BY <1>12, <2>2 DEF Starting!SeedTitlePermission
    <3> QED BY <3>2, <3>3, <3>4
  <2> QED BY <2>1, <2>2
<1>13. ASSUME Starting!SeedTitle PROVE StartInv'
  <2>1. ASSUME NEW t \in Titles, titles[t].state = "absent",
               titles' = [titles EXCEPT ![t] = [state |-> "active", owned |-> FALSE]], UNCHANGED stage
        PROVE  StartInv'
    BY <1>13, <2>1 DEF Starting!SeedTitle
  <2>2. ASSUME {t \in Titles : titles[t].state = "absent"} = {}, Starting!Proceed, UNCHANGED titles
        PROVE  StartInv'
    BY <1>13, <2>2 DEF Starting!SeedTitle
  <2> HIDE DEF StartInv
  <2> QED BY <1>13, <2>1, <2>2 DEF Starting!SeedTitle
<1>14. ASSUME Starting!SeedCreators PROVE StartInv'
  <2>2. titles' = [t \in Titles |-> IF first.named /\ titles[t].state # "absent"
                                    THEN [titles[t] EXCEPT !.owned = TRUE] ELSE titles[t]]
    BY <1>14 DEF Starting!SeedCreators
  <2>3. titles' \in [Titles -> [state : {"absent", "active", "inactive"}, owned : BOOLEAN]]
    BY <2>2, RowChanges
  <2>4. \A t \in Titles : /\ titles'[t].state = titles[t].state
                          /\ titles[t].owned \/ (first.named /\ titles[t].state # "absent") => titles'[t].owned
    BY <2>2, RowChanges
  <2> QED BY <1>14, <2>3, <2>4 DEF Starting!SeedCreators
<1>15. ASSUME Starting!SeedRegistry PROVE StartInv'
  <2>1. stage = "registry" /\ stage' = "up" /\ registry' = registry \cup Features /\ touched' = FALSE
        /\ UNCHANGED <<startMode, schema, roleRows, first, items, titles, legacy, views, rule, settings>>
    BY <1>15 DEF Starting!SeedRegistry
  <2>2. registry' = Features /\ Starting!AdminRole' = Starting!AdminRole
    BY <2>1
  <2>3. StartTypeOK'
    <3>1. StartTypeOK
      OBVIOUS
    <3> QED BY ONLY <2>1, <2>2, <3>1 DEF StartTypeOK
  <2>4. /\ SuperRole' /\ CalendarOpen' /\ TitlesOpen' /\ TitlesThere' /\ TitlesSigned'
        /\ Present(ScopeEntries)' /\ Present(LeaveEntries)' /\ Present(ReasonEntries)'
    BY <2>1
  <2> HIDE DEF Starting!AdminRole, SuperRole, CalendarOpen, TitlesOpen, TitlesThere, TitlesSigned, Present, StartTypeOK
  <2> QED BY <2>1, <2>2, <2>3, <2>4
<1>16. ASSUME Starting!Migrate PROVE StartInv'
  <2>1. CASE schema = "scopes"
    BY <1>16, <2>1 DEF Starting!Migrate, Starting!tables
  <2>2. CASE schema # "scopes" /\ Starting!Collide
    BY <1>16, <2>2 DEF Starting!Migrate, Starting!tables
  <2>3. CASE schema # "scopes" /\ ~Starting!Collide
    <3>1. \A r \in StartRoles, f \in Features : Starting!Converted(r, f) \in {"-", "ALL", "NONE"}
      BY DEF Starting!Converted
    <3>2. views' \in [StartRoles -> [Features -> {"-", "ALL", "NONE"}]]
      BY <1>16, <2>3, <3>1 DEF Starting!Migrate
    <3>3. legacy' \in [StartRoles -> [Starting!LegacyNames -> {"-", "ALL", "NONE"}]]
      BY <1>16, <2>3 DEF Starting!Migrate, Starting!NoLegacy
    <3>4. stage = "migrate" /\ stage' = "role" /\ schema' = "scopes" /\ registry' = Features \ LateFeatures
          /\ UNCHANGED <<roleRows, first, items, titles, rule, settings, startMode, touched>>
      BY <1>16, <2>3 DEF Starting!Migrate
    <3>5. touched
      BY <2>3
    <3> QED BY <3>2, <3>3, <3>4, <3>5
  <2> QED BY <2>1, <2>2, <2>3
<1>17. ASSUME NEW r \in StartRoles, NEW c \in {"ADMIN", "HR", "OTHER"}, Starting!NameRole(r, c) PROVE StartInv'
  <2>1. roleRows' \in [StartRoles -> RoleRow]
    <3>1. roleRows[r] \in RoleRow
      BY <1>17
    <3>2. [roleRows[r] EXCEPT !.code = c] \in RoleRow
      BY <1>17, <3>1, RowChanges
    <3>3. [row |-> TRUE, code |-> c, super |-> FALSE] \in RoleRow
      BY <1>17 DEF RoleRow
    <3> QED BY <1>17, <3>2, <3>3 DEF Starting!NameRole
  <2> QED BY <1>17, <2>1 DEF Starting!NameRole, Starting!Serving
<1>18. ASSUME NEW r \in StartRoles, NEW f \in Features, NEW s \in {"-", "NONE"}, Starting!ChooseScope(r, f, s) PROVE StartInv'
  BY <1>18 DEF Starting!ChooseScope, Starting!Serving
<1>19. ASSUME NEW kept \in {{}, StartRoles}, NEW signed \in BOOLEAN, Starting!ChangeAdmin(kept, signed) PROVE StartInv'
  BY <1>19 DEF Starting!ChangeAdmin, Starting!Serving
<1>20. ASSUME NEW i \in Starting!Entries, NEW s \in {"edited", "recoded"}, Starting!EditItem(i, s) PROVE StartInv'
  BY <1>20 DEF Starting!EditItem, Starting!Serving
<1>21. ASSUME NEW hours \in Starting!ChosenHours, Starting!SetHours(hours) PROVE StartInv'
  BY <1>21 DEF Starting!SetHours, Starting!Serving, Starting!ChosenHours, StartHours
<1>22. ASSUME NEW t \in Titles, NEW s \in {"absent", "inactive"}, Starting!EditTitle(t, s) PROVE StartInv'
  BY <1>22 DEF Starting!EditTitle, Starting!Serving
<1>23. ASSUME UNCHANGED Starting!vars PROVE StartInv'
  BY <1>23 DEF Starting!vars, Starting!tables
<1> HIDE DEF StartInv
<1> QED BY <1>1, <1>2, <1>3, <1>4, <1>5, <1>6, <1>7, <1>8, <1>9, <1>10, <1>11, <1>12, <1>13, <1>14, <1>15, <1>16, <1>17, <1>18, <1>19, <1>20, <1>21, <1>22, <1>23 DEF Starting!Next

\* What a server does before it is up.
StartAction ==
  \/ Starting!Crash \/ Starting!Migrate
  \/ Starting!SeedRole \/ Starting!SeedAdmin \/ Starting!SeedGrant \/ Starting!SeedScopes \/ Starting!SeedLeaveTypes \/ Starting!SeedRule \/ Starting!SeedSettings
  \/ Starting!SeedCalendar \/ Starting!SeedTitlePermission \/ Starting!SeedTitle \/ Starting!SeedCreators \/ Starting!SeedReasons \/ Starting!SeedRegistry

LEMMA StartActions ==
  ASSUME [Starting!Next]_Starting!vars
  PROVE  /\ stage \in Starting!Starting => StartAction \/ UNCHANGED Starting!vars
         /\ stage \notin Starting!Starting => stage' = stage \/ stage' \in {"down", "migrate"}
         /\ stage = "up" => schema' = schema
<1> USE StartingStages
<1>1. CASE stage \in Starting!Starting
  <2>1. stage \notin {"down", "failed", "up"}
    BY <1>1
  <2> QED BY <1>1, <2>1 DEF Starting!Next, StartAction, Starting!Start, Starting!NameRole, Starting!ChooseScope, Starting!ChangeAdmin, Starting!EditItem, Starting!SetHours, Starting!EditTitle, Starting!Serving
<1>2. CASE stage \notin Starting!Starting
  <2>1. stage \notin PastMigrate \cup {"migrate"}
    BY <1>2
  <2>2. ~StartAction \/ Starting!Crash
    BY <2>1 DEF StartAction, Starting!Migrate, Starting!SeedRole, Starting!SeedAdmin, Starting!SeedGrant, Starting!SeedScopes, Starting!SeedLeaveTypes, Starting!SeedRule, Starting!SeedSettings,
      Starting!SeedCalendar, Starting!SeedTitlePermission, Starting!SeedTitle, Starting!SeedCreators, Starting!SeedReasons, Starting!SeedRegistry,
      PastReasons, PastCreators, PastTitles, PastTitlePermission, PastCalendar, PastSettings,
      PastRule, PastLeaveTypes, PastScopes, PastGrant, PastEmployee, PastRole, PastMigrate
  <2>3. CASE Starting!Crash \/ Starting!Start
    BY <2>3, <1>2 DEF Starting!Crash, Starting!Start, Starting!tables
  <2>4. CASE ~Starting!Crash /\ ~Starting!Start
    BY <1>2, <2>2, <2>4 DEF Starting!Next, StartAction, Starting!NameRole, Starting!ChooseScope, Starting!ChangeAdmin, Starting!EditItem, Starting!SetHours, Starting!EditTitle, Starting!Serving,
      Starting!vars, Starting!tables
  <2> QED BY <2>3, <2>4
<1> QED BY <1>1, <1>2

LEMMA RepairsStep == StartInv /\ [Starting!Next]_Starting!vars => Starting!StartRepairs
<1> SUFFICES ASSUME StartInv, [Starting!Next]_Starting!vars, stage # "up", stage' = "up" PROVE Starting!Complete'
  BY DEF Starting!StartRepairs
<1>1. StartAction /\ stage \in Starting!Starting
  BY StartActions, StartingStages DEF Starting!vars
<1>2. Starting!SeedRegistry
  BY <1>1, NextStage DEF StartAction, Starting!Crash, Starting!Migrate, Starting!SeedRole, Starting!SeedAdmin, Starting!SeedGrant, Starting!SeedScopes, Starting!SeedLeaveTypes, Starting!SeedRule,
    Starting!SeedSettings, Starting!SeedCalendar, Starting!SeedTitlePermission, Starting!SeedTitle, Starting!SeedCreators, Starting!SeedReasons, Starting!Proceed
<1>3. stage = "registry" /\ ~touched' /\ UNCHANGED <<first, items, rule, settings, views, roleRows, titles>>
  BY <1>2 DEF Starting!SeedRegistry
<1>4. StartInv'
  BY StartInvNext
<1>5. registry' = Features /\ settings' /\ rule' # None
  BY <1>3, <1>4 DEF StartInv, Done
<1>6. \E r \in first'.roles : roleRows'[r].super
  BY <1>3, <1>4 DEF StartInv, Done, SuperRole
<1>7. \A i \in Starting!Entries : items'[i] \in {"seeded", "edited", "doubled"}
  BY <1>3, <1>4 DEF StartInv, Done, Present, Starting!Entries
<1>8. CalendarOpen' /\ TitlesOpen' /\ TitlesThere' /\ TitlesSigned'
  BY <1>3, <1>4 DEF StartInv, Done
<1> QED BY <1>5, <1>6, <1>7, <1>8 DEF Starting!Complete, CalendarOpen, TitlesOpen, TitlesThere, TitlesSigned

LEMMA ChoicesStep == StartInv /\ [Starting!Next]_Starting!vars => Starting!ChoicesKept
<1> SUFFICES ASSUME StartInv, [Starting!Next]_Starting!vars, stage \in Starting!Starting PROVE
    /\ \A r \in StartRoles : roleRows[r].row => roleRows'[r].row /\ roleRows'[r].code = roleRows[r].code
    /\ \A i \in Starting!Entries : items[i] = "edited" => items'[i] = "edited"
    /\ schema = "scopes" => \A r \in StartRoles, f \in Features : views[r][f] # "-" => views'[r][f] = views[r][f]
    /\ \A t \in Titles : titles[t].state # "absent" => titles'[t].state = titles[t].state
    /\ rule # None => /\ rule'.begin # rule.begin => rule.begin = "09:00"
                      /\ rule'.end # rule.end => rule.end = "18:00"
    /\ first.roles \subseteq first'.roles
  BY DEF Starting!ChoicesKept
<1> USE DEF Starting!tables, Starting!vars
<1>a. StartAction \/ UNCHANGED Starting!vars
  BY StartActions
<1>b. StartTypeOK
  BY DEF StartInv
<1>c. \A r \in StartRoles : roleRows[r].row => roleRows'[r].row /\ roleRows'[r].code = roleRows[r].code
  <2>1. CASE Starting!SeedRole
    <3>1. roleRows \in [StartRoles -> RoleRow]
      BY <1>b DEF StartTypeOK
    <3>2. Starting!AdminRole = {} => ~roleRows[SeededRole].row
      BY DEF Starting!AdminRole
    <3>3. CASE Starting!AdminRole = {}
      BY <2>1, <3>1, <3>2, <3>3, StartAssumption DEF Starting!SeedRole
    <3>4. CASE Starting!AdminRole # {}
      BY <2>1, <3>1, <3>4, RowChanges DEF Starting!SeedRole
    <3> QED BY <3>3, <3>4
  <2>2. CASE ~Starting!SeedRole
    BY <1>a, <2>2 DEF StartAction, Starting!Crash, Starting!Migrate, Starting!SeedAdmin, Starting!SeedGrant, Starting!SeedScopes, Starting!SeedLeaveTypes, Starting!SeedRule,
      Starting!SeedSettings, Starting!SeedCalendar, Starting!SeedTitlePermission, Starting!SeedTitle, Starting!SeedCreators, Starting!SeedReasons, Starting!SeedRegistry
  <2> QED BY <2>1, <2>2
<1>d. \A i \in Starting!Entries : items[i] = "edited" => items'[i] = "edited"
  BY <1>a DEF StartAction, Starting!Crash, Starting!Migrate, Starting!SeedRole, Starting!SeedAdmin, Starting!SeedGrant, Starting!SeedScopes, Starting!SeedLeaveTypes, Starting!SeedRule,
      Starting!SeedSettings, Starting!SeedCalendar, Starting!SeedTitlePermission, Starting!SeedTitle, Starting!SeedCreators, Starting!SeedReasons, Starting!SeedRegistry, Starting!Insert
<1>e. schema = "scopes" => \A r \in StartRoles, f \in Features : views[r][f] # "-" => views'[r][f] = views[r][f]
  BY <1>a DEF StartAction, Starting!Crash, Starting!Migrate, Starting!SeedRole, Starting!SeedAdmin, Starting!SeedGrant, Starting!SeedScopes, Starting!SeedLeaveTypes, Starting!SeedRule,
      Starting!SeedSettings, Starting!SeedCalendar, Starting!SeedTitlePermission, Starting!SeedTitle, Starting!SeedCreators, Starting!SeedReasons, Starting!SeedRegistry, Starting!Granted
<1>f. \A t \in Titles : titles[t].state # "absent" => titles'[t].state = titles[t].state
  <2>1. titles \in [Titles -> [state : {"absent", "active", "inactive"}, owned : BOOLEAN]]
    BY <1>b DEF StartTypeOK
  <2>2. CASE Starting!SeedCreators
    BY <2>1, <2>2, RowChanges DEF Starting!SeedCreators
  <2>3. CASE Starting!SeedTitle
    BY <2>1, <2>3 DEF Starting!SeedTitle
  <2>4. CASE ~Starting!SeedCreators /\ ~Starting!SeedTitle
    BY <1>a, <2>4 DEF StartAction, Starting!Crash, Starting!Migrate, Starting!SeedRole, Starting!SeedAdmin, Starting!SeedGrant, Starting!SeedScopes, Starting!SeedLeaveTypes, Starting!SeedRule,
      Starting!SeedSettings, Starting!SeedCalendar, Starting!SeedTitlePermission, Starting!SeedReasons, Starting!SeedRegistry
  <2> QED BY <2>2, <2>3, <2>4
<1>g. rule # None => /\ rule'.begin # rule.begin => rule.begin = "09:00"
                     /\ rule'.end # rule.end => rule.end = "18:00"
  BY <1>a DEF StartAction, Starting!Crash, Starting!Migrate, Starting!SeedRole, Starting!SeedAdmin, Starting!SeedGrant, Starting!SeedScopes, Starting!SeedLeaveTypes, Starting!SeedRule,
      Starting!SeedSettings, Starting!SeedCalendar, Starting!SeedTitlePermission, Starting!SeedTitle, Starting!SeedCreators, Starting!SeedReasons, Starting!SeedRegistry, Starting!Moved
<1>h. first.roles \subseteq first'.roles
  <2>1. first \in [row : BOOLEAN, named : BOOLEAN, roles : SUBSET StartRoles]
    BY <1>b DEF StartTypeOK
  <2>2. CASE Starting!SeedGrant
    BY <2>1, <2>2 DEF Starting!SeedGrant
  <2>3. CASE Starting!SeedAdmin
    <3>1. CASE first.row
      BY <2>3, <3>1 DEF Starting!SeedAdmin
    <3>2. CASE ~first.row
      <4>1. first.roles = {}
        BY <3>2, <2>1 DEF StartInv
      <4> QED BY <4>1
    <3> QED BY <3>1, <3>2
  <2>4. CASE ~Starting!SeedGrant /\ ~Starting!SeedAdmin
    BY <1>a, <2>4 DEF StartAction, Starting!Crash, Starting!Migrate, Starting!SeedRole, Starting!SeedScopes, Starting!SeedLeaveTypes, Starting!SeedRule,
      Starting!SeedSettings, Starting!SeedCalendar, Starting!SeedTitlePermission, Starting!SeedTitle, Starting!SeedCreators, Starting!SeedReasons, Starting!SeedRegistry
  <2> QED BY <2>2, <2>3, <2>4
<1> QED BY <1>c, <1>d, <1>e, <1>f, <1>g, <1>h

LEMMA IdleStep == StartInv /\ [Starting!Next]_Starting!vars => Starting!SecondStartIdle
<1> SUFFICES ASSUME StartInv, [Starting!Next]_Starting!vars, stage \in Starting!Starting, ~touched PROVE UNCHANGED Starting!tables
  BY DEF Starting!SecondStartIdle
<1> USE DEF Starting!tables, Starting!vars
<1>a. StartAction \/ UNCHANGED Starting!vars
  BY StartActions
<1>b. StartTypeOK /\ schema = "scopes" /\ SuperRole /\ first.row /\ Starting!AdminRole \subseteq first.roles
      /\ Present(ScopeEntries) /\ Present(LeaveEntries) /\ Present(ReasonEntries)
      /\ rule # None /\ rule.begin # "09:00" /\ rule.end # "18:00" /\ settings
      /\ CalendarOpen /\ TitlesOpen /\ TitlesThere /\ TitlesSigned /\ registry = Features
      /\ (stage \in {"titles", "creators"} => Starting!HasCode("ADMIN") # {})
  BY DEF StartInv, Done
<1>c. CASE Starting!Crash \/ Starting!Migrate \/ Starting!SeedAdmin \/ Starting!SeedRegistry
  BY <1>b, <1>c DEF Starting!Crash, Starting!Migrate, Starting!SeedAdmin, Starting!SeedRegistry
<1>d. CASE Starting!SeedRole
  BY <1>b, <1>d, SeededRoles DEF Starting!SeedRole, StartTypeOK
<1>e. CASE Starting!SeedGrant
  <2>1. first.roles \cup Starting!AdminRole = first.roles
    BY <1>b
  <2>2. [first EXCEPT !.roles = first.roles] = first
    BY <1>b DEF StartTypeOK
  <2> QED BY <1>e, <2>1, <2>2 DEF Starting!SeedGrant
<1>f. CASE Starting!SeedScopes \/ Starting!SeedLeaveTypes \/ Starting!SeedReasons
  <2>1. items' = items
    <3>1. items \in [Starting!Entries -> {"absent", "seeded", "edited", "recoded", "doubled"}]
      BY <1>b DEF StartTypeOK
    <3>2. \A K : Present(K) /\ Starting!Insert(K) => items' = items
      BY <3>1 DEF Starting!Insert, Present
    <3> QED BY <1>b, <1>f, <3>2 DEF Starting!SeedScopes, Starting!SeedLeaveTypes, Starting!SeedReasons
  <2> QED BY <1>f, <2>1 DEF Starting!SeedScopes, Starting!SeedLeaveTypes, Starting!SeedReasons
<1>g. CASE Starting!SeedRule \/ Starting!SeedSettings
  <2>1. rule \in StartHours
    BY <1>b DEF StartTypeOK
  <2>2. Starting!Moved(rule) = rule
    BY <1>b, <2>1 DEF Starting!Moved, StartHours
  <2> QED BY <1>b, <1>g, <2>2 DEF Starting!SeedRule, Starting!SeedSettings, StartTypeOK
<1>h. CASE Starting!SeedCalendar \/ Starting!SeedTitlePermission
  <2>1. \A c \in Starting!AdminCodes : \A r \in Starting!HasCode(c), f \in CalendarFeatures : views[r][f] # "-"
    BY <1>b DEF CalendarOpen
  <2>2. Starting!Granted(UNION {Starting!HasCode(c) : c \in Starting!AdminCodes}, CalendarFeatures) = views
    BY <1>b, <2>1 DEF Starting!Granted, StartTypeOK
  <2>3. Starting!Granted(Starting!HasCode("ADMIN"), {TitleFeature}) = views
    BY <1>b DEF Starting!Granted, StartTypeOK, TitlesOpen
  <2> QED BY <1>h, <2>2, <2>3 DEF Starting!SeedCalendar, Starting!SeedTitlePermission
<1>i. CASE Starting!SeedTitle
  <2>1. {t \in Titles : titles[t].state = "absent"} = {}
    BY <1>b, <1>i DEF TitlesThere, Starting!SeedTitle
  <2> QED BY <1>i, <2>1 DEF Starting!SeedTitle
<1>j. CASE Starting!SeedCreators
  <2>1. stage = "creators"
    BY <1>j DEF Starting!SeedCreators
  <2>2. titles \in [Titles -> [state : {"absent", "active", "inactive"}, owned : BOOLEAN]]
    BY <1>b DEF StartTypeOK
  <2>3. first.named => \A t \in Titles : titles[t].owned
    BY <1>b, <2>1 DEF TitlesSigned
  <2>4. titles' = [t \in Titles |-> IF first.named /\ titles[t].state # "absent"
                                    THEN [titles[t] EXCEPT !.owned = TRUE] ELSE titles[t]]
    BY <1>j DEF Starting!SeedCreators
  <2>5. titles' = titles
    BY <2>2, <2>3, <2>4, RowChanges
  <2> QED BY <1>j, <2>5 DEF Starting!SeedCreators
<1> QED BY <1>a, <1>c, <1>d, <1>e, <1>f, <1>g, <1>h, <1>i, <1>j DEF StartAction

LEMMA CarriedStep == StartInv /\ [Starting!Next]_Starting!vars => Starting!PermissionsCarried
<1> SUFFICES ASSUME StartInv, [Starting!Next]_Starting!vars PROVE Starting!PermissionsCarried
  OBVIOUS
<1> USE DEF Starting!tables, Starting!vars
<1>1. ASSUME schema # "scopes", schema' = "scopes", NEW r \in StartRoles, NEW m \in Starting!LegacyNames, legacy[r][m] # "-"
      PROVE  views'[r][FeatureOf[m]] = legacy[r][m]
  <2>1. Starting!Migrate /\ ~Starting!Collide
    <3>1. ~UNCHANGED Starting!vars
      BY <1>1
    <3>2. Starting!Migrate
      BY <1>1, <3>1 DEF Starting!Next, Starting!Start, Starting!Crash, Starting!SeedRole, Starting!SeedAdmin, Starting!SeedGrant, Starting!SeedScopes, Starting!SeedLeaveTypes, Starting!SeedRule, Starting!SeedSettings,
        Starting!SeedCalendar, Starting!SeedTitlePermission, Starting!SeedTitle, Starting!SeedCreators, Starting!SeedReasons, Starting!SeedRegistry,
        Starting!NameRole, Starting!ChooseScope, Starting!ChangeAdmin, Starting!EditItem, Starting!SetHours, Starting!EditTitle, Starting!Serving
    <3> QED BY <1>1, <3>2 DEF Starting!Migrate
  <2>2. FeatureOf[m] \in Features
    BY StartAssumption DEF Starting!LegacyNames
  <2>3. views'[r][FeatureOf[m]] = Starting!Converted(r, FeatureOf[m])
    BY <1>1, <2>1, <2>2 DEF Starting!Migrate
  <2>4. {n \in Starting!LegacyNames : FeatureOf[n] = FeatureOf[m] /\ legacy[r][n] # "-"} = {m}
    BY <1>1, <2>1 DEF Starting!Collide
  <2> QED BY <2>3, <2>4 DEF Starting!Converted
<1>2. ASSUME stage # "failed", stage' = "failed" PROVE Starting!Collide \/ (~ startMode.password /\ ~ first.row)
  <2>1. stage \in Starting!Starting
    BY <1>2, StartActions
  <2>2. Starting!Migrate \/ Starting!SeedAdmin
    BY <1>2, <2>1, StartActions, NextStage DEF StartAction, Starting!Crash, Starting!SeedRole, Starting!SeedGrant, Starting!SeedScopes, Starting!SeedLeaveTypes, Starting!SeedRule,
      Starting!SeedSettings, Starting!SeedCalendar, Starting!SeedTitlePermission, Starting!SeedTitle, Starting!SeedCreators, Starting!SeedReasons, Starting!SeedRegistry, Starting!Proceed
  <2> QED BY <1>2, <2>2, NextStage DEF Starting!Migrate, Starting!SeedAdmin, Starting!Proceed
<1> QED BY <1>1, <1>2 DEF Starting!PermissionsCarried

\* Whatever the other parts do, a start goes the way Startup says.
LEMMA StartSteps ==
  [AdminNext]_<<workflowsVars, chart, place, access, start, part>> => [Starting!Next]_Starting!vars
BY DEF AdminNext, WorkflowsStep, ChartStep, PlaceStep, AccessStep, StartStep, start, Starting!vars, Starting!tables

\* For any roles, features, legacy names, titles and lists: a start that comes to its end
\* leaves there all the server relies on, wherever earlier starts died and whatever was
\* changed in between; none takes back what somebody chose, a second one writes nothing,
\* and every legacy permission arrives on its feature.
THEOREM StartSoundCorrect == AdminSpec => StartSound
<1>1. AdminInit => StartInv
  BY StartInvInit DEF AdminInit
<1>2. StartInv /\ [AdminNext]_<<workflowsVars, chart, place, access, start, part>> => StartInv'
  BY StartSteps, StartInvNext
<1>3. StartInv /\ [AdminNext]_<<workflowsVars, chart, place, access, start, part>>
      => [part = "start" => Starting!StartSound]_<<part, start>>
  BY StartSteps, RepairsStep, ChoicesStep, IdleStep, CarriedStep DEF Starting!StartSound
<1> QED BY <1>1, <1>2, <1>3, PTL DEF AdminSpec, StartSound

-----------------------------------------------------------------------------
(* The way down the roles *)

\* Those below somebody in B, and B.
RoleDownwards == [B \in SUBSET AccessRoles |-> B \cup UNION {Access!Children(x) : x \in B}]

RoleLevels(r, l) ==
  /\ l \in [Nat -> SUBSET AccessRoles]
  /\ l[0] = Access!Children(r)
  /\ \A n \in Nat : n # 0 => l[n] = l[n - 1] \cup UNION {Access!Children(x) : x \in l[n - 1]}

RolesDown(r, N) ==
  LET down[i \in 0..N] ==
        IF i = 0 THEN Access!Children(r) ELSE down[i - 1] \cup UNION {Access!Children(x) : x \in down[i - 1]}
  IN  down

LEMMA ChildrenAreRoles == \A x : Access!Children(x) \in SUBSET AccessRoles
  BY DEF Access!Children, Access!Rows

LEMMA RolesGoDown ==
  ASSUME NEW r \in AccessRoles, NEW N \in Nat
  PROVE  \E l : RoleLevels(r, l) /\ RolesDown(r, N) = [n \in 0..N |-> l[n]]
<1> DEFINE D == SUBSET AccessRoles
           g == RoleDownwards
           b == Access!Children(r)
           Body(h) == [n \in 0..N |-> IF n = 0 THEN Access!Children(r)
                                      ELSE h[n - 1] \cup UNION {Access!Children(x) : x \in h[n - 1]}]
<1>1. b \in D /\ g \in [D -> D]
  BY ChildrenAreRoles DEF RoleDownwards
<1> HIDE DEF g, D, b
<1>2. PICK l \in [Nat -> D] : l[0] = b /\ \A n \in Nat : n # 0 => l[n] = g[l[n - 1]]
  BY <1>1, FunctionBySteps
<1>3. \A n \in Nat : n # 0 => l[n] = l[n - 1] \cup UNION {Access!Children(x) : x \in l[n - 1]}
  <2> SUFFICES ASSUME NEW n \in Nat, n # 0
               PROVE  l[n] = l[n - 1] \cup UNION {Access!Children(x) : x \in l[n - 1]}
    OBVIOUS
  <2>1. n - 1 \in Nat
    OBVIOUS
  <2>2. l[n - 1] \in D /\ l[n] = g[l[n - 1]]
    BY <1>2, <2>1
  <2> QED BY <2>2 DEF g, D, RoleDownwards
<1>4. RoleLevels(r, l)
  BY <1>2, <1>3 DEF RoleLevels, D, b
<1> DEFINE f == [n \in 0..N |-> l[n]]
<1>5. f = Body(f)
  <2>1. ASSUME NEW n \in 0..N
        PROVE  f[n] = IF n = 0 THEN Access!Children(r)
                      ELSE f[n - 1] \cup UNION {Access!Children(x) : x \in f[n - 1]}
    <3>1. CASE n = 0
      BY <1>2, <3>1 DEF b
    <3>2. CASE n # 0
      <4>1. n \in Nat /\ n - 1 \in 0..N /\ f[n - 1] = l[n - 1] /\ f[n] = l[n]
        BY <3>2
      <4> HIDE DEF f
      <4> QED BY <1>3, <3>2, <4>1
    <3> QED BY <3>1, <3>2
  <2> QED BY <2>1
<1> DEFINE below == CHOOSE h : h = Body(h)
<1>6. below = Body(below)
  BY <1>5
<1> HIDE DEF below
<1>7. \A n \in 0..N : below[n] = IF n = 0 THEN Access!Children(r)
                                 ELSE below[n - 1] \cup UNION {Access!Children(x) : x \in below[n - 1]}
  BY <1>6
<1>8. \A n \in 0..N : below[n] = l[n]
  <2> DEFINE bad == {n \in 0..N : below[n] # l[n]}
  <2> SUFFICES ASSUME bad # {} PROVE FALSE
    OBVIOUS
  <2>1. PICK m \in bad : \A k \in bad : m <= k
    <3>1. bad \subseteq Nat
      OBVIOUS
    <3> HIDE DEF bad
    <3> QED BY <3>1, LeastNumber
  <2>2. m \in 0..N /\ below[m] # l[m]
    OBVIOUS
  <2>3. m # 0
    BY <1>2, <1>7, <2>2 DEF b
  <2>4. m - 1 \in 0..N /\ m - 1 \notin bad /\ m \in Nat
    BY <2>1, <2>2, <2>3
  <2>5. below[m - 1] = l[m - 1]
    BY <2>4
  <2>6. below[m] = below[m - 1] \cup UNION {Access!Children(x) : x \in below[m - 1]}
    BY <1>7, <2>2, <2>3
  <2> QED BY <1>3, <2>2, <2>3, <2>4, <2>5, <2>6
<1>9. below = f
  BY <1>6, <1>8
<1>10. RolesDown(r, N) = below
  BY DEF RolesDown, below
<1> HIDE DEF f
<1> QED BY <1>4, <1>9, <1>10 DEF f

\* What is below a role: its children and theirs, and no more.
RolesClosed(P, r) == Access!Children(r) \subseteq P /\ \A x \in P : Access!Children(x) \subseteq P

LEMMA BelowIsLeast ==
  ASSUME IsFiniteSet(AccessRoles), NEW r \in AccessRoles
  PROVE  /\ Access!Below(r) \in SUBSET AccessRoles
         /\ RolesClosed(Access!Below(r), r)
         /\ \A P : RolesClosed(P, r) => Access!Below(r) \subseteq P
<1> DEFINE N == Cardinality(AccessRoles)
<1>1. N \in Nat
  BY FS_CardinalityType
<1>2. PICK l : RoleLevels(r, l) /\ RolesDown(r, N) = [n \in 0..N |-> l[n]]
  BY <1>1, RolesGoDown
<1>3. Access!Below(r) = l[N]
  <2>1. Access!Below(r) = RolesDown(r, N)[N]
    BY DEF Access!Below, RolesDown, Access!Cardinality, Cardinality
  <2> HIDE DEF N
  <2> QED BY <1>1, <1>2, <2>1
<1>4. /\ l \in [Nat -> SUBSET AccessRoles]
      /\ l[0] = Access!Children(r)
      /\ \A n \in Nat : n # 0 => l[n] = l[n - 1] \cup UNION {Access!Children(x) : x \in l[n - 1]}
  BY <1>2 DEF RoleLevels
<1>5. \A n \in Nat : l[n + 1] = l[n] \cup UNION {Access!Children(x) : x \in l[n]}
  <2> TAKE n \in Nat
  <2>1. n + 1 \in Nat /\ n + 1 # 0 /\ (n + 1) - 1 = n
    OBVIOUS
  <2> QED BY <1>4, <2>1
<1>6. \A n \in Nat : IsFiniteSet(l[n]) /\ Cardinality(l[n]) \in Nat /\ Cardinality(l[n]) <= N
  BY <1>4, FS_Subset, FS_CardinalityType
<1> HIDE DEF N
<1>7. l[N + 1] = l[N]
  <2> SUFFICES ASSUME l[N + 1] # l[N] PROVE FALSE
    OBVIOUS
  <2>1. \A k \in 0..N : l[N - k] # l[(N - k) + 1]
    <3> DEFINE bad == {k \in 0..N : l[N - k] = l[(N - k) + 1]}
    <3> SUFFICES ASSUME bad # {} PROVE FALSE
      OBVIOUS
    <3>1. PICK m \in bad : \A k \in bad : m <= k
      <4>1. bad \subseteq Nat
        OBVIOUS
      <4> HIDE DEF bad
      <4> QED BY <4>1, LeastNumber
    <3>2. m \in 0..N /\ l[N - m] = l[(N - m) + 1]
      OBVIOUS
    <3>3. m # 0
      BY <1>1, <3>2
    <3>4. m - 1 \in 0..N /\ m - 1 \notin bad
      BY <1>1, <3>1, <3>2, <3>3
    <3>5. l[N - (m - 1)] # l[(N - (m - 1)) + 1]
      BY <3>4
    <3>6. /\ N - m \in Nat /\ (N - m) + 1 \in Nat
          /\ N - (m - 1) = (N - m) + 1
      BY <1>1, <3>2, <3>3
    <3>7. /\ l[(N - m) + 1] = l[N - m] \cup UNION {Access!Children(x) : x \in l[N - m]}
          /\ l[((N - m) + 1) + 1] = l[(N - m) + 1] \cup UNION {Access!Children(x) : x \in l[(N - m) + 1]}
      BY <1>5, <3>6
    <3>8. l[((N - m) + 1) + 1] = l[(N - m) + 1]
      BY <3>2, <3>7
    <3> QED BY <3>5, <3>6, <3>8
  <2>2. \A n \in 0..N : l[n] # l[n + 1]
    <3> TAKE n \in 0..N
    <3>1. N - n \in 0..N /\ N - (N - n) = n
      BY <1>1
    <3> QED BY <2>1, <3>1
  <2> DEFINE bad == {n \in 0..(N + 1) : ~ (n <= Cardinality(l[n]))}
  <2>3. bad = {}
    <3> SUFFICES ASSUME bad # {} PROVE FALSE
      OBVIOUS
    <3>1. PICK m \in bad : \A k \in bad : m <= k
      <4>1. bad \subseteq Nat
        OBVIOUS
      <4> HIDE DEF bad
      <4> QED BY <4>1, LeastNumber
    <3>2. m \in 0..(N + 1) /\ m \in Nat /\ ~ (m <= Cardinality(l[m]))
      OBVIOUS
    <3>3. m # 0
      BY <1>6, <3>2
    <3>4. m - 1 \in 0..N /\ m - 1 \in Nat /\ m - 1 \in 0..(N + 1) /\ m - 1 \notin bad /\ (m - 1) + 1 = m
      BY <1>1, <3>1, <3>2, <3>3
    <3>5. m - 1 <= Cardinality(l[m - 1])
      BY <3>4
    <3>6. l[m - 1] # l[m] /\ l[m - 1] \subseteq l[m]
      BY <1>5, <2>2, <3>4
    <3>7. Cardinality(l[m - 1]) < Cardinality(l[m])
      BY <1>6, <3>2, <3>4, <3>6, FS_Subset
    <3> QED BY <1>6, <3>2, <3>4, <3>5, <3>7
  <2>4. N + 1 <= Cardinality(l[N + 1])
    <3>1. N + 1 \in 0..(N + 1) /\ N + 1 \notin bad
      BY <1>1, <2>3
    <3> QED BY <3>1
  <2> QED BY <1>1, <1>6, <2>4
<1>8. l[N] \in SUBSET AccessRoles
  BY <1>1, <1>4
<1>9. \A n \in Nat : Access!Children(r) \subseteq l[n]
  <2> DEFINE bad == {n \in Nat : ~ (Access!Children(r) \subseteq l[n])}
  <2> SUFFICES ASSUME bad # {} PROVE FALSE
    OBVIOUS
  <2>1. PICK m \in bad : \A k \in bad : m <= k
    <3>1. bad \subseteq Nat
      OBVIOUS
    <3> HIDE DEF bad
    <3> QED BY <3>1, LeastNumber
  <2>2. m \in Nat /\ ~ (Access!Children(r) \subseteq l[m])
    OBVIOUS
  <2>3. m # 0
    BY <1>4, <2>2
  <2>4. m - 1 \in Nat /\ m - 1 \notin bad
    BY <2>1, <2>2, <2>3
  <2>5. Access!Children(r) \subseteq l[m - 1]
    BY <2>4
  <2> QED BY <1>4, <2>2, <2>3, <2>5
<1>10. RolesClosed(l[N], r)
  <2>1. l[N] = l[N] \cup UNION {Access!Children(x) : x \in l[N]}
    BY <1>1, <1>5, <1>7
  <2> QED BY <1>1, <1>9, <2>1 DEF RolesClosed
<1>11. ASSUME NEW P, RolesClosed(P, r) PROVE \A n \in Nat : l[n] \subseteq P
  <2> DEFINE bad == {n \in Nat : ~ (l[n] \subseteq P)}
  <2> SUFFICES ASSUME bad # {} PROVE FALSE
    OBVIOUS
  <2>1. PICK m \in bad : \A k \in bad : m <= k
    <3>1. bad \subseteq Nat
      OBVIOUS
    <3> HIDE DEF bad
    <3> QED BY <3>1, LeastNumber
  <2>2. m \in Nat /\ ~ (l[m] \subseteq P)
    OBVIOUS
  <2>3. m # 0
    BY <1>4, <1>11, <2>2 DEF RolesClosed
  <2>4. m - 1 \in Nat /\ m - 1 \notin bad
    BY <2>1, <2>2, <2>3
  <2>5. l[m - 1] \subseteq P
    BY <2>4
  <2>6. l[m] = l[m - 1] \cup UNION {Access!Children(x) : x \in l[m - 1]}
    BY <1>4, <2>2, <2>3
  <2> QED BY <1>11, <2>2, <2>5, <2>6 DEF RolesClosed
<1> QED BY <1>1, <1>3, <1>8, <1>10, <1>11

-----------------------------------------------------------------------------
(* Roles one below the other *)

RoleRecord == [row : BOOLEAN, code : RoleCodes \cup AccessRoles \cup {None}, parent : AccessRoles \cup {None},
               level : Int, active : BOOLEAN]

\* The parent of a role is a role.
RolesTyped ==
  /\ role \in [AccessRoles -> RoleRecord]
  /\ \A r \in Access!Rows : role[r].parent \in Access!Rows \cup {None}

\* A role below another is a row, its parent is the other or below it, and it stands lower.
LEMMA BelowStandsLower ==
  ASSUME AccessAssumption, RolesTyped, Access!LevelsFollowParents, NEW r \in Access!Rows
  PROVE  /\ Access!Below(r) \subseteq Access!Rows
         /\ \A x \in Access!Rows : role[x].parent \in Access!Below(r) \cup {r} => x \in Access!Below(r)
         /\ \A x \in Access!Below(r) : role[x].parent \in Access!Below(r) \cup {r}
         /\ \A x \in Access!Below(r) : role[x].level > role[r].level
<1> DEFINE B == Access!Below(r)
<1>1. r \in AccessRoles /\ IsFiniteSet(AccessRoles) /\ None \notin AccessRoles
  BY DEF Access!Rows, AccessAssumption
<1>2. /\ B \in SUBSET AccessRoles /\ RolesClosed(B, r)
      /\ \A P : RolesClosed(P, r) => B \subseteq P
  BY <1>1, BelowIsLeast
<1> HIDE DEF B
<1>3. \A x, y : y \in Access!Children(x) <=> y \in Access!Rows /\ role[y].parent = x
  BY DEF Access!Children
<1>4. B \subseteq Access!Rows
  <2>1. RolesClosed(Access!Rows, r)
    BY <1>3 DEF RolesClosed
  <2> QED BY <1>2, <2>1
<1>5. \A x \in Access!Rows : role[x].parent \in B \cup {r} => x \in B
  BY <1>2, <1>3 DEF RolesClosed
<1>6. \A x \in B : role[x].parent \in B \cup {r}
  <2> DEFINE P == {x \in B : role[x].parent \in B \cup {r}}
  <2>1. RolesClosed(P, r)
    BY <1>2, <1>3 DEF RolesClosed
  <2>2. B \subseteq P
    <3> HIDE DEF P
    <3> QED BY <1>2, <2>1
  <2> QED BY <2>2
<1>7. \A x \in B : role[x].level > role[r].level
  <2> DEFINE P == {x \in Access!Rows : role[x].level > role[r].level}
  <2>1. \A x \in Access!Rows : x \in AccessRoles /\ role[x].level \in Int
    BY DEF RolesTyped, RoleRecord, Access!Rows
  <2>2. ASSUME NEW x \in Access!Rows, NEW y \in Access!Children(x) PROVE y \in Access!Rows /\ role[y].level = role[x].level + 1
    <3>1. y \in Access!Rows /\ role[y].parent = x /\ role[y].parent # None
      BY <1>1, <1>3, <2>1, <2>2
    <3> QED BY <3>1 DEF Access!LevelsFollowParents
  <2>3. Access!Children(r) \subseteq P
    BY <2>1, <2>2
  <2>4. ASSUME NEW x \in P PROVE Access!Children(x) \subseteq P
    <3>1. ASSUME NEW y \in Access!Children(x) PROVE y \in P
      BY <2>1, <2>2
    <3> QED BY <3>1
  <2>5. RolesClosed(P, r)
    <3> HIDE DEF P
    <3> QED BY <2>3, <2>4 DEF RolesClosed
  <2>6. B \subseteq P
    <3> HIDE DEF P
    <3> QED BY <1>2, <2>5
  <2> QED BY <2>6
<1> QED BY <1>4, <1>5, <1>6, <1>7 DEF B

\* The levels of a move: those below move with the role that moves.
MovedLevels(r, level) ==
  [x \in AccessRoles |-> IF x = r THEN level
                         ELSE IF x \in Access!Below(r) THEN level + (role[x].level - role[r].level)
                         ELSE role[x].level]

LEMMA LevelsMove ==
  ASSUME AccessAssumption, RolesTyped, Access!LevelsFollowParents, NEW r \in Access!Rows, NEW level \in Int
  PROVE  Access!Levels(r, level) = MovedLevels(r, level)
<1> DEFINE Body(h) == [x \in AccessRoles |-> IF x = r THEN level
                                             ELSE IF x \in Access!Below(r) THEN h[role[x].parent] + 1
                                             ELSE role[x].level]
           depth == CHOOSE h : h = Body(h)
           D == MovedLevels(r, level)
           B == Access!Below(r)
<1>1. /\ B \subseteq Access!Rows
      /\ \A x \in B : role[x].parent \in B \cup {r}
      /\ \A x \in B : role[x].level > role[r].level
  BY BelowStandsLower
<1>2. \A x \in AccessRoles : role[x].level \in Int
  BY DEF RolesTyped, RoleRecord
<1>3. \A x \in Access!Rows : x \in AccessRoles
  BY DEF Access!Rows
<1>4. ASSUME NEW x \in B PROVE role[x].level = role[role[x].parent].level + 1
  <2>1. x \in Access!Rows /\ role[x].parent \in AccessRoles
    BY <1>1, <1>3
  <2> QED BY <2>1 DEF Access!LevelsFollowParents, AccessAssumption
<1>5. Access!Levels(r, level) = depth
  BY DEF Access!Levels
<1> HIDE DEF B
<1>6. D = Body(D)
  <2>1. ASSUME NEW x \in AccessRoles
        PROVE  D[x] = IF x = r THEN level ELSE IF x \in Access!Below(r) THEN D[role[x].parent] + 1 ELSE role[x].level
    <3>1. CASE x = r \/ x \notin Access!Below(r)
      BY <3>1 DEF MovedLevels
    <3>2. CASE x # r /\ x \in Access!Below(r)
      <4>1. x \in B
        BY <3>2 DEF B
      <4> DEFINE y == role[x].parent
      <4>2. y \in B \cup {r} /\ y \in AccessRoles /\ role[x].level = role[y].level + 1
        BY <1>1, <1>3, <1>4, <4>1
      <4>3. D[x] = level + (role[x].level - role[r].level)
        BY <3>2 DEF MovedLevels
      <4> HIDE DEF y
      <4>4. D[y] = level + (role[y].level - role[r].level)
        <5>1. CASE y = r
          BY <1>2, <4>2, <5>1 DEF MovedLevels
        <5>2. CASE y # r
          BY <4>2, <5>2 DEF MovedLevels, B
        <5> QED BY <5>1, <5>2
      <4>5. D[x] = D[y] + 1
        <5>1. role[x].level \in Int /\ role[y].level \in Int /\ role[r].level \in Int
          BY <1>2, <1>3, <4>2
        <5> QED BY <4>2, <4>3, <4>4, <5>1
      <4> QED BY <3>2, <4>5 DEF y
    <3> QED BY <3>1, <3>2
  <2> DEFINE E == [x \in AccessRoles |-> D[x]]
  <2>2. D = E
    BY DEF MovedLevels
  <2>3. E = Body(D)
    <3> HIDE DEF D
    <3> QED BY <2>1
  <2> QED BY <2>2, <2>3
<1> HIDE DEF D
<1>7. depth = Body(depth)
  BY <1>6
<1> HIDE DEF depth
<1>8. \A x \in AccessRoles : depth[x] = IF x = r THEN level ELSE IF x \in B THEN depth[role[x].parent] + 1 ELSE role[x].level
  BY <1>7 DEF B
<1>9. \A x \in AccessRoles : D[x] = IF x = r THEN level ELSE IF x \in B THEN D[role[x].parent] + 1 ELSE role[x].level
  BY <1>6 DEF B
<1>10. \A x \in AccessRoles : depth[x] = D[x]
  <2> DEFINE Deep(x) == role[x].level - role[r].level
             bad == {n \in Nat : \E x \in B : n = Deep(x) /\ depth[x] # D[x]}
  <2>1. bad = {}
    <3> SUFFICES ASSUME bad # {} PROVE FALSE
      OBVIOUS
    <3>1. PICK m \in bad : \A k \in bad : m <= k
      <4>1. bad \subseteq Nat
        OBVIOUS
      <4> HIDE DEF bad
      <4> QED BY <4>1, LeastNumber
    <3>2. PICK x \in B : m = Deep(x) /\ depth[x] # D[x]
      OBVIOUS
    <3> DEFINE y == role[x].parent
    <3>3. x # r /\ x \in AccessRoles /\ y \in B \cup {r} /\ y \in AccessRoles
      BY <1>1, <1>2, <1>3
    <3>4. depth[x] = depth[y] + 1 /\ D[x] = D[y] + 1
      BY <1>8, <1>9, <3>2, <3>3
    <3>5. depth[y] # D[y]
      BY <3>2, <3>4
    <3>6. y # r
      BY <1>8, <1>9, <3>3, <3>5
    <3>7. y \in B /\ role[x].level = role[y].level + 1
      BY <1>4, <3>3, <3>6
    <3>8. role[x].level \in Int /\ role[y].level \in Int /\ role[r].level \in Int /\ role[y].level > role[r].level
      BY <1>1, <1>2, <1>3, <3>3, <3>7
    <3> HIDE DEF y
    <3>9. Deep(y) \in Nat /\ Deep(y) < m
      BY <3>2, <3>7, <3>8
    <3>10. Deep(y) \in bad
      BY <3>5, <3>7, <3>9
    <3>11. m <= Deep(y)
      <4> HIDE DEF bad
      <4> QED BY <3>1, <3>10
    <3> QED BY <3>9, <3>11, <3>8, <3>2
  <2>2. ASSUME NEW x \in AccessRoles, depth[x] # D[x] PROVE FALSE
    <3>1. x \in B
      BY <1>8, <1>9, <2>2
    <3>2. role[x].level \in Int /\ role[r].level \in Int /\ role[x].level > role[r].level
      BY <1>1, <1>2, <1>3, <3>1
    <3>3. Deep(x) \in Nat
      BY <3>2
    <3>4. Deep(x) \in bad
      BY <2>2, <3>1, <3>3
    <3> QED BY <2>1, <3>4
  <2> QED BY <2>2
<1>11. depth = [x \in AccessRoles |-> depth[x]] /\ D = [x \in AccessRoles |-> D[x]]
  <2>1. D = [x \in AccessRoles |-> D[x]]
    BY DEF D, MovedLevels
  <2> QED BY <1>7, <2>1
<1> QED BY <1>5, <1>10, <1>11 DEF D

-----------------------------------------------------------------------------
(* The levels stay what they are *)

RolesInv == RolesTyped /\ Access!LevelsFollowParents

\* Codes and activity do not matter here.
LEMMA ShapeStays ==
  ASSUME RolesInv, role' \in [AccessRoles -> RoleRecord],
         \A x \in AccessRoles : /\ role'[x].row = role[x].row
                                /\ role'[x].parent = role[x].parent
                                /\ role'[x].level = role[x].level
  PROVE  RolesInv'
<1>1. Access!Rows' = Access!Rows /\ Access!Rows \subseteq AccessRoles
  BY DEF Access!Rows
<1>2. RolesTyped'
  BY <1>1 DEF RolesInv, RolesTyped
<1>3. \A x \in Access!Rows : role[x].parent \in Access!Rows \cup {None}
  BY DEF RolesInv, RolesTyped
<1>4. Access!LevelsFollowParents'
  <2> SUFFICES ASSUME NEW x \in Access!Rows
               PROVE  role'[x].level = IF role'[x].parent = None THEN 1 ELSE role'[role'[x].parent].level + 1
    BY <1>1 DEF Access!LevelsFollowParents
  <2>1. role[x].level = IF role[x].parent = None THEN 1 ELSE role[role[x].parent].level + 1
    BY DEF RolesInv, Access!LevelsFollowParents
  <2> QED BY <1>1, <1>3, <2>1
<1> QED BY <1>2, <1>4 DEF RolesInv

LEMMA RoleCreated ==
  ASSUME AccessAssumption, RolesInv,
         NEW r \in AccessRoles, NEW code \in RoleCodes, NEW parent \in AccessRoles \cup {None}, NEW active \in BOOLEAN,
         Access!CreateRole(r, code, parent, active)
  PROVE  RolesInv'
<1> DEFINE level == IF parent = None THEN 1 ELSE role[parent].level + 1
           made == [row |-> TRUE, code |-> code, parent |-> parent, active |-> active, level |-> level]
<1>1. ~role[r].row /\ parent \in Access!Rows \cup {None} /\ role' = [role EXCEPT ![r] = made]
  BY DEF Access!CreateRole
<1>2. role \in [AccessRoles -> RoleRecord] /\ None \notin AccessRoles
  BY DEF RolesInv, RolesTyped, AccessAssumption
<1>3. \A x \in AccessRoles : role[x].level \in Int
  BY <1>2 DEF RoleRecord
<1>4. level \in Int
  BY <1>1, <1>3 DEF Access!Rows
<1> HIDE DEF level
<1>5. made \in RoleRecord
  BY <1>4 DEF RoleRecord
<1>6. made.row = TRUE /\ made.parent = parent /\ made.level = level
  OBVIOUS
<1> HIDE DEF made
<1>7. role'[r] = made /\ (\A x \in AccessRoles \ {r} : role'[x] = role[x]) /\ role' \in [AccessRoles -> RoleRecord]
  BY <1>1, <1>2, <1>5
<1>8. Access!Rows' = Access!Rows \cup {r} /\ r \notin Access!Rows /\ Access!Rows \subseteq AccessRoles
  BY <1>1, <1>6, <1>7 DEF Access!Rows
<1>9. \A x \in Access!Rows : role[x].parent \in Access!Rows \cup {None}
  BY DEF RolesInv, RolesTyped
<1>10. \A x \in Access!Rows' : role'[x].parent \in Access!Rows \cup {None}
  BY <1>1, <1>6, <1>7, <1>8, <1>9
<1>11. RolesTyped'
  BY <1>7, <1>8, <1>10 DEF RolesTyped
<1>12. Access!LevelsFollowParents'
  <2> SUFFICES ASSUME NEW x \in Access!Rows'
               PROVE  role'[x].level = IF role'[x].parent = None THEN 1 ELSE role'[role'[x].parent].level + 1
    BY DEF Access!LevelsFollowParents
  <2>1. CASE x = r
    BY <1>1, <1>2, <1>6, <1>7, <1>8, <2>1 DEF level
  <2>2. CASE x # r
    <3>1. x \in Access!Rows /\ role'[x] = role[x]
      BY <1>7, <1>8, <2>2
    <3>2. role[x].level = IF role[x].parent = None THEN 1 ELSE role[role[x].parent].level + 1
      BY <3>1 DEF RolesInv, Access!LevelsFollowParents
    <3> QED BY <1>7, <1>8, <1>9, <3>1, <3>2
  <2> QED BY <2>1, <2>2
<1> QED BY <1>11, <1>12 DEF RolesInv

LEMMA RoleMoved ==
  ASSUME AccessAssumption, RolesInv, NEW r \in AccessRoles, NEW parent \in AccessRoles \cup {None},
         Access!MoveRole(r, parent)
  PROVE  RolesInv'
<1> DEFINE B == Access!Below(r)
           level == IF parent = None THEN 1 ELSE role[parent].level + 1
           L == MovedLevels(r, level)
<1>1. /\ r \in Access!Rows
      /\ parent \in (Access!Rows \cup {None}) \ (B \cup {r})
      /\ role' = [x \in AccessRoles |-> [role[x] EXCEPT !.level = Access!Levels(r, level)[x],
                                                        !.parent = IF x = r THEN parent ELSE @]]
  BY DEF Access!MoveRole, Access!Rows
<1>2. role \in [AccessRoles -> RoleRecord] /\ None \notin AccessRoles
  BY DEF RolesInv, RolesTyped, AccessAssumption
<1>3. \A x \in AccessRoles : role[x].level \in Int
  BY <1>2 DEF RoleRecord
<1>0. parent \in Access!Rows \cup {None} /\ Access!Rows \subseteq AccessRoles
  <2>1. parent \in (Access!Rows \cup {None}) \ (B \cup {r})
    BY <1>1
  <2> HIDE DEF B
  <2> QED BY <2>1 DEF Access!Rows
<1>4. level \in Int
  <2>1. \A x \in Access!Rows : role[x].level + 1 \in Int
    BY <1>0, <1>3
  <2> QED BY <1>0, <2>1
<1>5. /\ B \subseteq Access!Rows
      /\ \A x \in Access!Rows : role[x].parent \in B \cup {r} => x \in B
      /\ \A x \in B : role[x].parent \in B \cup {r}
      /\ \A x \in B : role[x].level > role[r].level
  BY <1>1, BelowStandsLower DEF RolesInv
<1> HIDE DEF level
<1>6. Access!Levels(r, level) = L
  BY <1>1, <1>4, LevelsMove DEF RolesInv
<1>7. \A x \in AccessRoles : L[x] = IF x = r THEN level
                                    ELSE IF x \in B THEN level + (role[x].level - role[r].level) ELSE role[x].level
  BY DEF MovedLevels
<1> HIDE DEF L, B
<1>8. \A x \in AccessRoles : L[x] \in Int
  BY <1>3, <1>4, <1>7
<1>9. ASSUME NEW x \in AccessRoles
      PROVE  /\ role'[x] \in RoleRecord
             /\ role'[x].row = role[x].row
             /\ role'[x].level = L[x]
             /\ role'[x].parent = IF x = r THEN parent ELSE role[x].parent
  <2>1. role'[x] = [role[x] EXCEPT !.level = L[x], !.parent = IF x = r THEN parent ELSE @]
    BY <1>1, <1>6
  <2>2. role[x] \in RoleRecord /\ L[x] \in Int
    BY <1>2, <1>8
  <2> QED BY <2>1, <2>2 DEF RoleRecord
<1>10. role' \in [AccessRoles -> RoleRecord]
  BY <1>1, <1>9
<1>11. Access!Rows' = Access!Rows /\ Access!Rows \subseteq AccessRoles
  BY <1>9 DEF Access!Rows
<1>12. \A x \in Access!Rows : role[x].parent \in Access!Rows \cup {None}
  BY DEF RolesInv, RolesTyped
<1>13. RolesTyped'
  <2>1. \A x \in Access!Rows' : role'[x].parent \in Access!Rows' \cup {None}
    <3>1. ASSUME NEW x \in Access!Rows PROVE role'[x].parent \in Access!Rows \cup {None}
      BY <1>0, <1>9, <1>12
    <3> QED BY <1>11, <3>1
  <2> QED BY <1>10, <2>1 DEF RolesTyped
<1>14. Access!LevelsFollowParents'
  <2> SUFFICES ASSUME NEW x \in Access!Rows
               PROVE  role'[x].level = IF role'[x].parent = None THEN 1 ELSE role'[role'[x].parent].level + 1
    BY <1>11 DEF Access!LevelsFollowParents
  <2>1. role[x].level = IF role[x].parent = None THEN 1 ELSE role[role[x].parent].level + 1
    BY DEF RolesInv, Access!LevelsFollowParents
  <2>2. x \in AccessRoles /\ r \in AccessRoles /\ role[x].level \in Int /\ role[r].level \in Int
    BY <1>3, <1>11
  <2>3. CASE x = r
    <3>1. role'[x].level = level /\ role'[x].parent = parent
      BY <1>7, <1>9, <2>2, <2>3
    <3>2. CASE parent = None
      BY <3>1, <3>2 DEF level
    <3>3. CASE parent # None
      <4>1. parent \in AccessRoles /\ parent # r /\ parent \notin B
        BY <1>1, <1>11, <3>3
      <4>2. role'[parent].level = role[parent].level
        BY <1>7, <1>9, <4>1
      <4> QED BY <3>1, <3>3, <4>2 DEF level
    <3> QED BY <3>2, <3>3
  <2>4. CASE x # r /\ x \in B
    <3> DEFINE y == role[x].parent
    <3>1. y \in B \cup {r} /\ y \in AccessRoles /\ y # None
      BY <1>2, <1>5, <1>11, <2>4, <2>2
    <3>2. role[x].level = role[y].level + 1 /\ role[y].level \in Int
      BY <1>3, <2>1, <3>1
    <3>3. role'[x].level = level + (role[x].level - role[r].level) /\ role'[x].parent = y
      BY <1>7, <1>9, <2>2, <2>4
    <3> HIDE DEF y
    <3>4. role'[y].level = level + (role[y].level - role[r].level)
      BY <1>3, <1>4, <1>7, <1>9, <2>2, <3>1
    <3> QED BY <1>4, <2>2, <3>1, <3>2, <3>3, <3>4
  <2>5. CASE x # r /\ x \notin B
    <3>1. role'[x].level = role[x].level /\ role'[x].parent = role[x].parent
      BY <1>7, <1>9, <2>2, <2>5
    <3>2. CASE role[x].parent = None
      BY <2>1, <3>1, <3>2
    <3>3. CASE role[x].parent # None
      <4>1. role[x].parent \in AccessRoles /\ role[x].parent \notin B \cup {r}
        BY <1>5, <1>11, <1>12, <2>5, <3>3
      <4>2. role'[role[x].parent].level = role[role[x].parent].level
        BY <1>7, <1>9, <4>1
      <4> QED BY <2>1, <3>1, <3>3, <4>2
    <3> QED BY <3>2, <3>3
  <2> QED BY <2>3, <2>4, <2>5
<1> QED BY <1>13, <1>14 DEF RolesInv

LEMMA RoleUpdated ==
  ASSUME RolesInv, NEW r \in AccessRoles, NEW code \in RoleCodes \cup {role[r].code}, NEW active \in BOOLEAN,
         Access!UpdateRole(r, code, active)
  PROVE  RolesInv'
<1>1. role \in [AccessRoles -> RoleRecord] /\ role' = [role EXCEPT ![r].code = code, ![r].active = active]
  BY DEF RolesInv, RolesTyped, Access!UpdateRole
<1>2. role[r] \in RoleRecord
  BY <1>1
<1>3. code \in RoleCodes \cup AccessRoles \cup {None}
  BY <1>2 DEF RoleRecord
<1>4. role'[r] = [role[r] EXCEPT !.code = code, !.active = active]
  BY <1>1, <1>2 DEF RoleRecord
<1>5. \A x \in AccessRoles \ {r} : role'[x] = role[x]
  BY <1>1
<1>6. /\ role'[r] \in RoleRecord
      /\ role'[r].row = role[r].row /\ role'[r].parent = role[r].parent /\ role'[r].level = role[r].level
  BY <1>2, <1>3, <1>4 DEF RoleRecord
<1>7. \A x \in AccessRoles : /\ role'[x].row = role[x].row
                             /\ role'[x].parent = role[x].parent
                             /\ role'[x].level = role[x].level
  BY <1>5, <1>6
<1>8. role' \in [AccessRoles -> RoleRecord]
  <2>1. role' = [x \in AccessRoles |-> role'[x]]
    BY <1>1
  <2>2. \A x \in AccessRoles : role'[x] \in RoleRecord
    BY <1>1, <1>5, <1>6
  <2> QED BY <2>1, <2>2
<1> QED BY <1>7, <1>8, ShapeStays

LEMMA RoleDeleted ==
  ASSUME RolesInv, NEW r \in AccessRoles, Access!DeleteRole(r)
  PROVE  RolesInv'
<1>1. role \in [AccessRoles -> RoleRecord] /\ role' = [role EXCEPT ![r].active = FALSE]
  BY DEF RolesInv, RolesTyped, Access!DeleteRole
<1>2. role[r] \in RoleRecord /\ role'[r] = [role[r] EXCEPT !.active = FALSE]
  BY <1>1
<1>3. \A x \in AccessRoles \ {r} : role'[x] = role[x]
  BY <1>1
<1>4. /\ role'[r] \in RoleRecord
      /\ role'[r].row = role[r].row /\ role'[r].parent = role[r].parent /\ role'[r].level = role[r].level
  BY <1>2 DEF RoleRecord
<1>5. \A x \in AccessRoles : /\ role'[x].row = role[x].row
                             /\ role'[x].parent = role[x].parent
                             /\ role'[x].level = role[x].level
  BY <1>3, <1>4
<1>6. role' \in [AccessRoles -> RoleRecord]
  <2>1. role' = [x \in AccessRoles |-> role'[x]]
    BY <1>1
  <2>2. \A x \in AccessRoles : role'[x] \in RoleRecord
    BY <1>1, <1>3, <1>4
  <2> QED BY <2>1, <2>2
<1> QED BY <1>5, <1>6, ShapeStays

-----------------------------------------------------------------------------
(* The broadest of some scopes *)

ScopeNames == {"NONE", "OWNED", "ADDED", "ADDED_OWNED", "TEAM", "DEPARTMENT", "COMPANY", "ALL"}

LEMMA ScopesRanked ==
  /\ DOMAIN Access!Scopes = 1..8
  /\ Access!Scopes[1] = "NONE"
  /\ \A i \in 1..8 : Access!Scopes[i] \in ScopeNames /\ Access!Rank(Access!Scopes[i]) = i
  /\ \A s \in ScopeNames : Access!Rank(s) \in 1..8 /\ Access!Scopes[Access!Rank(s)] = s
<1>1. DOMAIN Access!Scopes = 1..8
  BY DEF Access!Scopes
<1>2. \A i \in 1..8 : Access!Scopes[i] \in ScopeNames
  BY DEF Access!Scopes, ScopeNames
<1>3. \A i, j \in 1..8 : Access!Scopes[i] = Access!Scopes[j] => i = j
  BY DEF Access!Scopes
<1>4. \A s \in ScopeNames : \E i \in 1..8 : Access!Scopes[i] = s
  <2>1. /\ Access!Scopes[1] = "NONE" /\ Access!Scopes[2] = "OWNED" /\ Access!Scopes[3] = "ADDED"
        /\ Access!Scopes[4] = "ADDED_OWNED" /\ Access!Scopes[5] = "TEAM" /\ Access!Scopes[6] = "DEPARTMENT"
        /\ Access!Scopes[7] = "COMPANY" /\ Access!Scopes[8] = "ALL"
    BY DEF Access!Scopes
  <2>2. 1 \in 1..8 /\ 2 \in 1..8 /\ 3 \in 1..8 /\ 4 \in 1..8 /\ 5 \in 1..8 /\ 6 \in 1..8 /\ 7 \in 1..8 /\ 8 \in 1..8
    OBVIOUS
  <2> QED BY <2>1, <2>2, Zenon DEF ScopeNames
<1>5. Access!Scopes[1] = "NONE"
  BY DEF Access!Scopes
<1>6. ASSUME NEW i \in 1..8 PROVE Access!Rank(Access!Scopes[i]) = i
  <2> DEFINE c == CHOOSE j \in DOMAIN Access!Scopes : Access!Scopes[j] = Access!Scopes[i]
  <2>1. c \in 1..8 /\ Access!Scopes[c] = Access!Scopes[i]
    BY <1>1
  <2>2. Access!Rank(Access!Scopes[i]) = c
    BY DEF Access!Rank
  <2> QED BY <1>3, <2>1, <2>2
<1>7. ASSUME NEW s \in ScopeNames PROVE Access!Rank(s) \in 1..8 /\ Access!Scopes[Access!Rank(s)] = s
  <2>1. PICK i \in 1..8 : Access!Scopes[i] = s
    BY <1>4
  <2> QED BY <1>6, <2>1
<1> QED BY <1>1, <1>2, <1>5, <1>6, <1>7

\* The greatest of some ranks.
LEMMA GreatestRank ==
  ASSUME NEW S \in SUBSET (1..8), S # {}
  PROVE  Access!Max(S) \in S /\ \A k \in S : k <= Access!Max(S)
<1> DEFINE T == {8 - k : k \in S}
<1>1. T \subseteq Nat /\ T # {}
  <2>1. ASSUME NEW k \in S PROVE 8 - k \in Nat
    OBVIOUS
  <2>2. \A n \in T : n \in Nat
    BY <2>1
  <2>3. PICK k : k \in S
    OBVIOUS
  <2>4. 8 - k \in T
    BY <2>3
  <2> HIDE DEF T
  <2> QED BY <2>2, <2>4
<1>2. PICK n \in T : \A k \in T : n <= k
  <2> HIDE DEF T
  <2> QED BY <1>1, LeastNumber
<1>3. PICK m \in S : n = 8 - m
  BY <1>2
<1>4. \A k \in S : m >= k
  <2> TAKE k \in S
  <2>1. n <= 8 - k
    BY <1>2
  <2> QED BY <1>3, <2>1
<1>5. Access!Max(S) = CHOOSE x \in S : \A y \in S : x >= y
  BY DEF Access!Max
<1>6. Access!Max(S) \in S /\ \A y \in S : Access!Max(S) >= y
  BY <1>3, <1>4, <1>5
<1> QED BY <1>6

FoundScopes(R, f) == {scope[r][f] : r \in R} \ {"-"}
FoundRanks(R, f) == {1} \cup {Access!Rank(s) : s \in FoundScopes(R, f)}
Broadest(R, f) == Access!Scopes[Access!Max(FoundRanks(R, f))]

ScopesTyped == scope \in [AccessRoles -> [AccessFeatures -> ScopeNames \cup {"-"}]]

LEMMA RanksOfFound ==
  ASSUME ScopesTyped, NEW R \in SUBSET AccessRoles, NEW f \in AccessFeatures
  PROVE  /\ FoundScopes(R, f) \in SUBSET ScopeNames
         /\ FoundRanks(R, f) \in SUBSET (1..8) /\ 1 \in FoundRanks(R, f)
<1>1. \A r \in R : scope[r][f] \in ScopeNames \cup {"-"}
  BY DEF ScopesTyped
<1>2. \A s \in FoundScopes(R, f) : s \in ScopeNames
  BY <1>1 DEF FoundScopes
<1>3. \A s \in FoundScopes(R, f) : Access!Rank(s) \in 1..8
  BY <1>2, ScopesRanked
<1> QED BY <1>2, <1>3 DEF FoundRanks

\* One role more, and the broadest scope is the role's or what it was.
LEMMA BroadestStep ==
  ASSUME ScopesTyped, NEW R \in SUBSET AccessRoles, NEW f \in AccessFeatures, NEW r \in R
  PROVE  Broadest(R, f) = IF scope[r][f] # "-" /\ Access!Rank(scope[r][f]) > Access!Rank(Broadest(R \ {r}, f))
                          THEN scope[r][f] ELSE Broadest(R \ {r}, f)
<1> DEFINE Q == R \ {r}
           m == Access!Max(FoundRanks(Q, f))
           n == Access!Max(FoundRanks(R, f))
           s == scope[r][f]
<1>1. Q \in SUBSET AccessRoles /\ s \in ScopeNames \cup {"-"}
  BY DEF ScopesTyped
<1>2. FoundRanks(Q, f) \in SUBSET (1..8) /\ FoundRanks(Q, f) # {} /\ FoundRanks(R, f) \in SUBSET (1..8) /\ FoundRanks(R, f) # {}
  BY <1>1, RanksOfFound
<1>3. m \in FoundRanks(Q, f) /\ (\A k \in FoundRanks(Q, f) : k <= m) /\ m \in 1..8
  BY <1>2, GreatestRank
<1>4. n \in FoundRanks(R, f) /\ (\A k \in FoundRanks(R, f) : k <= n) /\ n \in 1..8
  BY <1>2, GreatestRank
<1>5. FoundScopes(R, f) = FoundScopes(Q, f) \cup ({s} \ {"-"})
  BY DEF FoundScopes
<1>6. Access!Rank(Broadest(Q, f)) = m /\ Broadest(Q, f) = Access!Scopes[m] /\ Broadest(R, f) = Access!Scopes[n]
  BY <1>3, ScopesRanked DEF Broadest
<1> HIDE DEF m, n, s, Q
<1>7. CASE s = "-"
  <2>1. FoundRanks(R, f) = FoundRanks(Q, f)
    BY <1>5, <1>7 DEF FoundRanks
  <2>2. n = m
    BY <2>1 DEF n, m
  <2> QED BY <1>6, <1>7, <2>2 DEF s, Q
<1>8. CASE s # "-"
  <2>1. s \in ScopeNames
    BY <1>1, <1>8
  <2>2. Access!Rank(s) \in 1..8 /\ Access!Scopes[Access!Rank(s)] = s
    BY <2>1, ScopesRanked
  <2>3. FoundRanks(R, f) = FoundRanks(Q, f) \cup {Access!Rank(s)}
    BY <1>5, <1>8 DEF FoundRanks
  <2>4. CASE Access!Rank(s) > m
    <3>1. n = Access!Rank(s)
      BY <1>3, <1>4, <2>2, <2>3, <2>4
    <3> QED BY <1>6, <1>8, <2>2, <2>4, <3>1 DEF s, Q
  <2>5. CASE ~ (Access!Rank(s) > m)
    <3>1. n = m
      BY <1>3, <1>4, <2>2, <2>3, <2>5
    <3> QED BY <1>6, <1>8, <2>2, <2>5, <3>1 DEF s, Q
  <2> QED BY <2>4, <2>5
<1> QED BY <1>7, <1>8

\* What the profile works out row by row.
MenuFold(f) ==
  LET fold[R \in SUBSET AccessRoles] ==
        IF R = {} THEN "NONE"
        ELSE LET r == CHOOSE x \in R : TRUE
                 before == fold[R \ {r}] IN
             IF scope[r][f] # "-" /\ Access!Rank(scope[r][f]) > Access!Rank(before) THEN scope[r][f] ELSE before
  IN  fold

LEMMA FoldIsBroadest ==
  ASSUME IsFiniteSet(AccessRoles), ScopesTyped, NEW f \in AccessFeatures
  PROVE  \A R \in SUBSET AccessRoles : MenuFold(f)[R] = Broadest(R, f)
<1> DEFINE One(R) == CHOOSE x \in R : TRUE
           Next1(r, before) == IF scope[r][f] # "-" /\ Access!Rank(scope[r][f]) > Access!Rank(before)
                               THEN scope[r][f] ELSE before
           Body(h) == [R \in SUBSET AccessRoles |-> IF R = {} THEN "NONE" ELSE Next1(One(R), h[R \ {One(R)}])]
           fold == CHOOSE h : h = Body(h)
           W == [R \in SUBSET AccessRoles |-> Broadest(R, f)]
<1>1. MenuFold(f) = fold
  BY DEF MenuFold
<1>2. \A R \in SUBSET AccessRoles : R # {} => One(R) \in R
  OBVIOUS
<1>3. Broadest({}, f) = "NONE"
  <2>1. FoundRanks({}, f) = {1}
    BY DEF FoundRanks, FoundScopes
  <2>2. Access!Max({1}) = 1
    <3>1. {1} \in SUBSET (1..8) /\ {1} # {}
      OBVIOUS
    <3>2. Access!Max({1}) \in {1}
      BY <3>1, GreatestRank
    <3> QED BY <3>2
  <2> QED BY <2>1, <2>2, ScopesRanked DEF Broadest
<1> HIDE DEF One
<1>4. ASSUME NEW R \in SUBSET AccessRoles, R # {}
      PROVE  Broadest(R, f) = Next1(One(R), Broadest(R \ {One(R)}, f))
  <2>1. One(R) \in R
    BY <1>2, <1>4
  <2> QED BY <2>1, BroadestStep
<1> HIDE DEF Next1
<1>5. W = Body(W)
  <2>1. ASSUME NEW R \in SUBSET AccessRoles
        PROVE  W[R] = IF R = {} THEN "NONE" ELSE Next1(One(R), W[R \ {One(R)}])
    <3>1. W[R] = Broadest(R, f) /\ W[R \ {One(R)}] = Broadest(R \ {One(R)}, f)
      OBVIOUS
    <3> HIDE DEF W
    <3> QED BY <1>3, <1>4, <3>1
  <2> QED BY <2>1
<1>6. fold = Body(fold)
  BY <1>5
<1> HIDE DEF fold
<1>7. \A R \in SUBSET AccessRoles : fold[R] = IF R = {} THEN "NONE" ELSE Next1(One(R), fold[R \ {One(R)}])
  BY <1>6
<1>8. \A R \in SUBSET AccessRoles : fold[R] = Broadest(R, f)
  <2> DEFINE bad == {n \in Nat : \E R \in SUBSET AccessRoles : n = Cardinality(R) /\ fold[R] # Broadest(R, f)}
  <2>1. \A R \in SUBSET AccessRoles : IsFiniteSet(R) /\ Cardinality(R) \in Nat
    BY FS_Subset, FS_CardinalityType
  <2>2. bad = {}
    <3> SUFFICES ASSUME bad # {} PROVE FALSE
      OBVIOUS
    <3>1. PICK m \in bad : \A k \in bad : m <= k
      <4>1. bad \subseteq Nat
        OBVIOUS
      <4> HIDE DEF bad
      <4> QED BY <4>1, LeastNumber
    <3>2. PICK R \in SUBSET AccessRoles : m = Cardinality(R) /\ fold[R] # Broadest(R, f)
      OBVIOUS
    <3>3. R # {}
      BY <1>3, <1>7, <3>2
    <3> DEFINE Q == R \ {One(R)}
    <3>4. Q \in SUBSET AccessRoles /\ Q \subseteq R /\ Q # R
      BY <1>2, <3>3
    <3>5. fold[Q] # Broadest(Q, f)
      BY <1>4, <1>7, <3>2, <3>3
    <3> HIDE DEF Q
    <3>6. Cardinality(Q) < Cardinality(R) /\ Cardinality(Q) \in Nat
      BY <2>1, <3>4, FS_Subset
    <3>7. Cardinality(Q) \in bad
      BY <3>4, <3>5, <3>6
    <3>8. m <= Cardinality(Q)
      <4> HIDE DEF bad
      <4> QED BY <3>1, <3>7
    <3> QED BY <2>1, <3>2, <3>6, <3>8
  <2> SUFFICES ASSUME NEW R \in SUBSET AccessRoles, fold[R] # Broadest(R, f) PROVE FALSE
    OBVIOUS
  <2>3. Cardinality(R) \in bad
    BY <2>1
  <2> QED BY <2>2, <2>3
<1> QED BY <1>1, <1>8

\* The menu and the engine agree on the broadest scope.
LEMMA MenuIsHonest ==
  ASSUME IsFiniteSet(AccessRoles), ScopesTyped, holds \in [AccessEmployees -> SUBSET AccessRoles]
  PROVE  Access!MenuHonest
<1> SUFFICES ASSUME NEW e \in AccessEmployees, NEW f \in AccessFeatures
             PROVE  /\ Access!MenuScope(e, f) = "NONE" <=> ~Access!HasPermission(e, f)
                    /\ ~Access!IsSuperAdmin(e) => Access!MenuScope(e, f) = Access!ResolveScope(e, f)
  BY DEF Access!MenuHonest
<1> DEFINE R == Access!Working(e)
           found == FoundScopes(R, f)
           S == {Access!Rank(s) : s \in found}
<1>1. R \in SUBSET AccessRoles
  BY DEF Access!Working
<1>2. Access!MenuScope(e, f) = IF Access!IsSuperAdmin(e) THEN "ALL" ELSE MenuFold(f)[R]
  BY DEF Access!MenuScope, MenuFold
<1>3. MenuFold(f)[R] = Broadest(R, f)
  BY <1>1, FoldIsBroadest
<1>4. Access!ResolveScope(e, f) = IF found = {} THEN "NONE" ELSE Access!Scopes[Access!Max(S)]
  BY DEF Access!ResolveScope, FoundScopes
<1> HIDE DEF R
<1>5. FoundRanks(R, f) \in SUBSET (1..8) /\ FoundRanks(R, f) # {} /\ FoundRanks(R, f) = {1} \cup S
  BY <1>1, RanksOfFound DEF FoundRanks
<1> HIDE DEF found, S
<1>6. Broadest(R, f) = Access!ResolveScope(e, f)
  <2> DEFINE n == Access!Max(FoundRanks(R, f))
             k == Access!Max(S)
  <2>1. n \in {1} \cup S /\ \A i \in {1} \cup S : i <= n
    BY <1>5, GreatestRank
  <2>2. CASE found = {}
    <3>1. S = {}
      BY <2>2 DEF S
    <3>2. n = 1
      BY <2>1, <3>1
    <3> QED BY <1>4, <2>2, <3>2, ScopesRanked DEF Broadest
  <2>3. CASE found # {}
    <3>1. S # {} /\ S \in SUBSET (1..8)
      BY <1>5, <2>3 DEF S
    <3>2. k \in S /\ \A i \in S : i <= k
      BY <3>1, GreatestRank
    <3> HIDE DEF n, k
    <3>3. k \in 1..8 /\ k <= n /\ n <= k
      BY <2>1, <3>1, <3>2
    <3>4. n \in 1..8
      BY <2>1, <3>1
    <3>5. n = k
      BY <3>3, <3>4
    <3> QED BY <1>4, <2>3, <3>5 DEF Broadest, n, k
  <2> QED BY <2>2, <2>3
<1>7. CASE Access!IsSuperAdmin(e)
  BY <1>2, <1>7 DEF Access!HasPermission
<1>8. CASE ~Access!IsSuperAdmin(e)
  <2>1. Access!MenuScope(e, f) = Access!ResolveScope(e, f)
    BY <1>2, <1>3, <1>6, <1>8
  <2>2. Access!HasPermission(e, f) <=> Access!ResolveScope(e, f) # "NONE"
    BY <1>8 DEF Access!HasPermission
  <2> HIDE DEF R
  <2> QED BY <2>1, <2>2
<1> QED BY <1>7, <1>8

-----------------------------------------------------------------------------
(* Lists and records *)

\* A record that a list shows is one that can be opened, scope by scope.
LEMMA ListedOpens == AccessAssumption => Access!ListedIsAccessible
<1> SUFFICES ASSUME None \notin AccessEmployees,
                    NEW e \in AccessEmployees, NEW i \in DOMAIN Access!Scopes,
                    NEW columns \in SUBSET {"owner", "creator", "department"},
                    NEW record \in Access!Records, NEW organisation \in Access!Organisations,
                    "owner" \in columns \/ record.owner = None,
                    Access!AccessFilter(e, Access!Scopes[i], columns, record, organisation)
             PROVE  Access!CanAccessRecord(e, Access!Scopes[i], record, organisation)
  BY DEF Access!ListedIsAccessible, AccessAssumption
<1> DEFINE s == Access!Scopes[i]
           among(S) == IF "owner" \in columns THEN record.owner \in S ELSE "creator" \in columns /\ record.creator \in S
           target == IF record.owner # None THEN record.owner ELSE record.creator
<1>1. s \in ScopeNames
  BY ScopesRanked
<1> HIDE DEF s
<1>2. organisation.visible \subseteq AccessEmployees /\ organisation.active \subseteq AccessEmployees
  BY DEF Access!Organisations
<1>3. Access!Colleagues(e, organisation) \subseteq AccessEmployees
  BY <1>2 DEF Access!Colleagues
<1>4. ASSUME NEW S \in SUBSET AccessEmployees, among(S) PROVE target # None /\ target \in S
  <2>1. None \notin S
    OBVIOUS
  <2>2. CASE "owner" \in columns
    BY <1>4, <2>1, <2>2
  <2>3. CASE "owner" \notin columns
    BY <1>4, <2>1, <2>3
  <2> QED BY <2>2, <2>3
<1>5. Access!AccessFilter(e, s, columns, record, organisation) /\ s \in ScopeNames
  BY <1>1 DEF s
<1>6. CASE s = "NONE"
  BY <1>5, <1>6 DEF Access!AccessFilter
<1>7. CASE s \in {"ALL", "COMPANY"}
  BY <1>7 DEF Access!CanAccessRecord, s
<1>8. CASE s = "OWNED"
  <2>1. record.owner = e
    BY <1>5, <1>8 DEF Access!AccessFilter
  <2> QED BY <1>8, <2>1 DEF Access!CanAccessRecord, s
<1>9. CASE s = "ADDED"
  <2>1. record.creator = e
    BY <1>5, <1>9 DEF Access!AccessFilter
  <2> QED BY <1>9, <2>1 DEF Access!CanAccessRecord, s
<1>10. CASE s = "ADDED_OWNED"
  <2>1. e \in {record.owner, record.creator}
    BY <1>5, <1>10 DEF Access!AccessFilter
  <2> QED BY <1>10, <2>1 DEF Access!CanAccessRecord, s
<1>11. CASE s = "TEAM"
  <2>1. among(organisation.visible)
    BY <1>5, <1>11 DEF Access!AccessFilter
  <2>2. target # None /\ target \in organisation.visible
    <3> HIDE DEF among, target
    <3> QED BY <1>2, <1>4, <2>1
  <2> QED BY <1>11, <2>2 DEF Access!CanAccessRecord, s
<1>12. CASE s = "DEPARTMENT"
  <2>1. IF "department" \in columns /\ organisation.department[e] # None
        THEN record.department = organisation.department[e] ELSE among(Access!Colleagues(e, organisation))
    BY <1>5, <1>12 DEF Access!AccessFilter
  <2>2. CASE "department" \in columns /\ organisation.department[e] # None
    <3>1. record.department # None /\ record.department = organisation.department[e]
      BY <2>1, <2>2
    <3> QED BY <1>12, <3>1 DEF Access!CanAccessRecord, s
  <2>3. CASE ~ ("department" \in columns /\ organisation.department[e] # None)
    <3>1. among(Access!Colleagues(e, organisation))
      BY <2>1, <2>3
    <3>2. target # None /\ target \in Access!Colleagues(e, organisation)
      <4> HIDE DEF among, target
      <4> QED BY <1>3, <1>4, <3>1
    <3> QED BY <1>12, <3>2 DEF Access!CanAccessRecord, s
  <2> QED BY <2>2, <2>3
<1> QED BY <1>1, <1>6, <1>7, <1>8, <1>9, <1>10, <1>11, <1>12 DEF ScopeNames

-----------------------------------------------------------------------------
(* Roles, who holds them and what they allow *)

\* What an update of an employee still has to give is what its actor may give.
JobInv ==
  job # Access!Idle =>
    /\ job.employee \in AccessEmployees
    /\ job.super \/ job.wanted \ holds[job.employee] = {}
       \/ (job.actor # job.employee /\ (job.wanted \ holds[job.employee]) \cap FlaggedRoles = {})

GrantsTyped ==
  /\ holds \in [AccessEmployees -> SUBSET AccessRoles]
  /\ history \in [AccessEmployees -> SUBSET AccessRoles]
  /\ ScopesTyped
  /\ audit \in [AccessRoles -> [AccessFeatures -> ScopeNames]]

AccessInv == RolesInv /\ GrantsTyped /\ Access!TrailReplays /\ JobInv

LEMMA AccessInvInit == AccessAssumption /\ Access!Init => AccessInv
<1> SUFFICES ASSUME AccessAssumption, Access!Init PROVE AccessInv
  OBVIOUS
<1> DEFINE given(r) == [row |-> TRUE, code |-> r, parent |-> None, level |-> 1, active |-> TRUE]
<1>1. role = [r \in AccessRoles |-> IF r \in SystemRoles THEN given(r) ELSE Access!NoRole]
  BY DEF Access!Init
<1>2. \A r \in AccessRoles : given(r) \in RoleRecord /\ given(r).parent = None /\ given(r).level = 1
  BY DEF RoleRecord
<1>3. Access!NoRole \in RoleRecord /\ Access!NoRole.row = FALSE
  BY DEF RoleRecord, Access!NoRole
<1> HIDE DEF given
<1>4. role \in [AccessRoles -> RoleRecord]
  BY <1>1, <1>2, <1>3
<1>5. \A r \in Access!Rows : role[r].parent = None /\ role[r].level = 1
  BY <1>1, <1>2, <1>3 DEF Access!Rows
<1>6. RolesInv
  BY <1>4, <1>5 DEF RolesInv, RolesTyped, Access!LevelsFollowParents
<1>7. GrantsTyped
  BY DEF Access!Init, GrantsTyped, ScopesTyped, AccessAssumption, ScopeNames
<1>8. Access!TrailReplays
  BY DEF Access!Init, Access!TrailReplays
<1>9. JobInv
  BY DEF Access!Init, JobInv
<1> QED BY <1>6, <1>7, <1>8, <1>9 DEF AccessInv

\* Changes of the roles leave alone who holds them and what they allow.
LEMMA RolesChange ==
  ASSUME AccessAssumption, AccessInv, RolesInv', UNCHANGED <<roleMode, holds, scope, named, audit, history, job>>
  PROVE  AccessInv'
BY DEF AccessInv, GrantsTyped, ScopesTyped, Access!TrailReplays, Access!Uses, JobInv

LEMMA UpdateBegins ==
  ASSUME AccessInv, NEW actor \in AccessEmployees, NEW e \in AccessEmployees, NEW wanted \in SUBSET AccessRoles,
         Access!AssignRoles(actor, e, wanted)
  PROVE  AccessInv'
<1>1. job' = [employee |-> e, actor |-> actor, super |-> Access!ActorIsSuper(actor), wanted |-> wanted]
      /\ Access!MayAssign(actor, e, wanted \ holds[e])
      /\ UNCHANGED <<roleMode, role, holds, scope, named, audit, history>>
  BY DEF Access!AssignRoles, Access!grants
<1>2. job'.employee = e /\ job'.actor = actor /\ job'.super = Access!ActorIsSuper(actor) /\ job'.wanted = wanted
  BY <1>1
<1>3. JobInv'
  BY <1>1, <1>2 DEF JobInv, Access!MayAssign
<1>4. RolesInv'
  BY <1>1 DEF AccessInv, RolesInv, RolesTyped, Access!Rows, Access!LevelsFollowParents
<1> QED BY <1>1, <1>3, <1>4 DEF AccessInv, GrantsTyped, ScopesTyped, Access!TrailReplays, Access!Uses

\* One role goes or comes, with its line in the history.
LEMMA UpdateGoesOn ==
  ASSUME AccessInv, NEW r \in AccessRoles, Access!RemoveRole(r) \/ Access!AssignRole(r)
  PROVE  AccessInv'
<1> DEFINE e == job.employee
<1>1. job # Access!Idle /\ job' = job /\ UNCHANGED <<roleMode, role, scope, named, audit>>
  BY DEF Access!RemoveRole, Access!AssignRole, Access!Free, Access!grants
<1>2. /\ e \in AccessEmployees
      /\ job.super \/ job.wanted \ holds[e] = {} \/ (job.actor # e /\ (job.wanted \ holds[e]) \cap FlaggedRoles = {})
  BY <1>1 DEF AccessInv, JobInv
<1>3. holds \in [AccessEmployees -> SUBSET AccessRoles] /\ history \in [AccessEmployees -> SUBSET AccessRoles]
  BY DEF AccessInv, GrantsTyped
<1>4. /\ holds' \in [AccessEmployees -> SUBSET AccessRoles] /\ history' \in [AccessEmployees -> SUBSET AccessRoles]
      /\ job.wanted \ holds'[e] \subseteq job.wanted \ holds[e]
  <2>1. CASE Access!RemoveRole(r)
    <3>1. r \notin job.wanted /\ holds' = [holds EXCEPT ![e] = @ \ {r}] /\ history' = history
      BY <2>1 DEF Access!RemoveRole
    <3> HIDE DEF e
    <3> QED BY <1>2, <1>3, <3>1
  <2>2. CASE Access!AssignRole(r)
    <3>1. holds' = [holds EXCEPT ![e] = @ \cup {r}] /\ history' = [history EXCEPT ![e] = @ \cup {r}]
      BY <2>2 DEF Access!AssignRole
    <3> HIDE DEF e
    <3> QED BY <1>2, <1>3, <3>1
  <2> QED BY <2>1, <2>2
<1>5. JobInv'
  <2> HIDE DEF e
  <2>1. job.super \/ job.wanted \ holds'[e] = {} \/ (job.actor # e /\ (job.wanted \ holds'[e]) \cap FlaggedRoles = {})
    BY <1>2, <1>4
  <2> QED BY <1>1, <1>2, <2>1 DEF JobInv, e
<1>6. RolesInv'
  BY <1>1 DEF AccessInv, RolesInv, RolesTyped, Access!Rows, Access!LevelsFollowParents
<1> QED BY <1>1, <1>4, <1>5, <1>6 DEF AccessInv, GrantsTyped, ScopesTyped, Access!TrailReplays, Access!Uses

LEMMA UpdateEnds ==
  ASSUME AccessInv, Access!EndUpdate
  PROVE  AccessInv'
<1>1. job' = Access!Idle /\ UNCHANGED <<roleMode, role, holds, scope, named, audit, history>>
  BY DEF Access!EndUpdate, Access!grants
<1>2. JobInv'
  BY <1>1 DEF JobInv
<1>3. RolesInv'
  BY <1>1 DEF AccessInv, RolesInv, RolesTyped, Access!Rows, Access!LevelsFollowParents
<1> QED BY <1>1, <1>2, <1>3 DEF AccessInv, GrantsTyped, ScopesTyped, Access!TrailReplays, Access!Uses

\* A matrix that is set ends up on the trail.
LEMMA MatrixIsTrailed ==
  ASSUME AccessAssumption, AccessInv, NEW actor \in AccessEmployees, NEW r \in AccessRoles,
         NEW F \in SUBSET AccessFeatures, NEW s \in GivenScopes,
         NEW change, DOMAIN change = F, \A f \in F : change[f] = s, Access!SetFeaturePermissions(actor, r, change)
  PROVE  AccessInv'
<1> DEFINE old(f) == IF scope[r][f] = "-" THEN "NONE" ELSE scope[r][f]
<1>1. s \in ScopeNames /\ "-" \notin ScopeNames /\ "NONE" \in ScopeNames
  BY DEF AccessAssumption, ScopeNames
<1>2. /\ scope \in [AccessRoles -> [AccessFeatures -> ScopeNames \cup {"-"}]]
      /\ audit \in [AccessRoles -> [AccessFeatures -> ScopeNames]]
  BY DEF AccessInv, GrantsTyped, ScopesTyped
<1>3. /\ scope' = [scope EXCEPT ![r] = [f \in AccessFeatures |-> IF f \in F THEN s ELSE @[f]]]
      /\ audit' = [audit EXCEPT ![r] = [f \in AccessFeatures |-> IF f \in F /\ s # old(f) THEN s ELSE @[f]]]
      /\ UNCHANGED <<roleMode, role, holds, history, job>>
  <2>1. DOMAIN change = F /\ \A f \in F : change[f] = s
    OBVIOUS
  <2>2. /\ scope' = [scope EXCEPT ![r] = [f \in AccessFeatures |-> IF f \in DOMAIN change THEN change[f] ELSE @[f]]]
        /\ audit' = [audit EXCEPT ![r] = [f \in AccessFeatures |->
                       IF f \in DOMAIN change /\ change[f] # (IF scope[r][f] = "-" THEN "NONE" ELSE scope[r][f])
                       THEN change[f] ELSE @[f]]]
        /\ UNCHANGED <<roleMode, role, holds, history, job>>
    BY DEF Access!SetFeaturePermissions, Access!Trail
  <2> QED BY <2>1, <2>2
<1> HIDE DEF old
<1>4. /\ \A x \in AccessRoles \ {r} : scope'[x] = scope[x] /\ audit'[x] = audit[x]
      /\ \A f \in AccessFeatures : scope'[r][f] = IF f \in F THEN s ELSE scope[r][f]
      /\ \A f \in AccessFeatures : audit'[r][f] = IF f \in F /\ s # old(f) THEN s ELSE audit[r][f]
  BY <1>2, <1>3
<1>5. ScopesTyped' /\ audit' \in [AccessRoles -> [AccessFeatures -> ScopeNames]]
  <2>1. [f \in AccessFeatures |-> IF f \in F THEN s ELSE scope[r][f]] \in [AccessFeatures -> ScopeNames \cup {"-"}]
    BY <1>1, <1>2
  <2>2. [f \in AccessFeatures |-> IF f \in F /\ s # old(f) THEN s ELSE audit[r][f]] \in [AccessFeatures -> ScopeNames]
    BY <1>1, <1>2
  <2> QED BY <1>2, <1>3, <2>1, <2>2 DEF ScopesTyped
<1>6. Access!TrailReplays'
  <2> SUFFICES ASSUME ~Access!Uses("clone"), ~Access!Uses("legacy"), NEW x \in AccessRoles, NEW f \in AccessFeatures
               PROVE  audit'[x][f] = IF scope'[x][f] = "-" THEN "NONE" ELSE scope'[x][f]
    BY <1>3 DEF Access!TrailReplays, Access!Uses
  <2>1. audit[x][f] = IF scope[x][f] = "-" THEN "NONE" ELSE scope[x][f]
    BY DEF AccessInv, Access!TrailReplays
  <2>2. CASE x # r
    BY <1>4, <2>1, <2>2
  <2>3. CASE x = r
    <3>1. audit[r][f] = old(f)
      BY <2>1, <2>3 DEF old
    <3>2. CASE f \in F
      BY <1>1, <1>4, <2>3, <3>1, <3>2
    <3>3. CASE f \notin F
      BY <1>4, <2>1, <2>3, <3>3
    <3> QED BY <3>2, <3>3
  <2> QED BY <2>2, <2>3
<1>7. RolesInv'
  BY <1>3 DEF AccessInv, RolesInv, RolesTyped, Access!Rows, Access!LevelsFollowParents
<1>8. JobInv'
  BY <1>3 DEF AccessInv, JobInv
<1> QED BY <1>3, <1>5, <1>6, <1>7, <1>8 DEF AccessInv, GrantsTyped

\* Where other requests write the matrix, the trail promises nothing.
LEMMA UntrailedChange ==
  ASSUME AccessInv, Access!Uses("clone") \/ Access!Uses("legacy"), ScopesTyped',
         UNCHANGED <<roleMode, role, holds, audit, history, job>>
  PROVE  AccessInv'
<1>1. RolesInv'
  BY DEF AccessInv, RolesInv, RolesTyped, Access!Rows, Access!LevelsFollowParents
<1>2. Access!TrailReplays'
  BY DEF Access!TrailReplays, Access!Uses
<1> QED BY <1>1, <1>2 DEF AccessInv, GrantsTyped, JobInv

LEMMA ModulesTyped ==
  ASSUME AccessInv, NEW actor, NEW r \in AccessRoles, NEW body, Access!SetRolePermissions(actor, r, body)
  PROVE  ScopesTyped'
<1> DEFINE entry(f) == {x \in DOMAIN body : x[1] = f}
           set(f) == {x \in entry(f) : Access!Matches(r, f, x[2])}
           all(x) == IF body[x] THEN "ALL" ELSE "NONE"
           value(f) == IF entry(f) = {} THEN "-" ELSE all(CHOOSE x \in entry(f) : set(f) # {} => x \in set(f))
<1>1. scope' = [scope EXCEPT ![r] = [f \in AccessFeatures |-> value(f)]]
  BY DEF Access!SetRolePermissions
<1>2. \A f : value(f) \in ScopeNames \cup {"-"}
  <2>1. \A x : all(x) \in ScopeNames
    BY DEF ScopeNames
  <2> HIDE DEF all
  <2> QED BY <2>1
<1> HIDE DEF value
<1> QED BY <1>1, <1>2 DEF AccessInv, GrantsTyped, ScopesTyped

LEMMA CloneTyped ==
  ASSUME AccessInv, NEW r \in AccessRoles, NEW source \in AccessRoles, Access!ClonePermissions(r, source)
  PROVE  ScopesTyped'
<1>1. scope' = [scope EXCEPT ![r] = scope[source]]
  BY DEF Access!ClonePermissions
<1> QED BY <1>1 DEF AccessInv, GrantsTyped, ScopesTyped

LEMMA AccessInvNext == AccessAssumption /\ AccessInv /\ [Access!Next]_Access!vars => AccessInv'
<1> SUFFICES ASSUME AccessAssumption, AccessInv, [Access!Next]_Access!vars PROVE AccessInv'
  OBVIOUS
<1>1. CASE UNCHANGED Access!vars
  <2>1. UNCHANGED <<roleMode, role, holds, scope, named, audit, history, job>>
    BY <1>1 DEF Access!vars, Access!grants
  <2>2. RolesInv'
    BY <2>1 DEF AccessInv, RolesInv, RolesTyped, Access!Rows, Access!LevelsFollowParents
  <2> QED BY <2>1, <2>2, RolesChange
<1>2. ASSUME NEW r \in AccessRoles,
             \/ \E code \in RoleCodes, parent \in AccessRoles \cup {None}, active \in BOOLEAN :
                  Access!CreateRole(r, code, parent, active)
             \/ \E code \in RoleCodes \cup {role[r].code}, active \in BOOLEAN : Access!UpdateRole(r, code, active)
             \/ \E parent \in AccessRoles \cup {None} : Access!MoveRole(r, parent)
             \/ Access!DeleteRole(r)
      PROVE  AccessInv'
  <2>1. RolesInv
    BY DEF AccessInv
  <2>2. RolesInv'
    BY <1>2, <2>1, RoleCreated, RoleUpdated, RoleMoved, RoleDeleted
  <2>3. UNCHANGED <<roleMode, holds, scope, named, audit, history, job>>
    BY <1>2 DEF Access!CreateRole, Access!UpdateRole, Access!MoveRole, Access!DeleteRole, Access!grants
  <2> QED BY <2>2, <2>3, RolesChange
<1>3. ASSUME NEW actor \in AccessEmployees, NEW e \in AccessEmployees, NEW wanted \in SUBSET AccessRoles,
             Access!AssignRoles(actor, e, wanted)
      PROVE  AccessInv'
  BY <1>3, UpdateBegins
<1>4. ASSUME NEW r \in AccessRoles, Access!RemoveRole(r) \/ Access!AssignRole(r)
      PROVE  AccessInv'
  BY <1>4, UpdateGoesOn
<1>5. CASE Access!EndUpdate
  BY <1>5, UpdateEnds
<1>6. ASSUME NEW actor \in AccessEmployees, NEW r \in AccessRoles, NEW F \in SUBSET AccessFeatures \ {{}},
             NEW s \in GivenScopes, NEW change, change = [f \in F |-> s], Access!SetFeaturePermissions(actor, r, change)
      PROVE  AccessInv'
  <2>1. F \in SUBSET AccessFeatures /\ DOMAIN change = F /\ \A f \in F : change[f] = s
    BY <1>6
  <2> QED BY <1>6, <2>1, MatrixIsTrailed
<1>7. ASSUME NEW actor \in AccessEmployees, NEW r \in AccessRoles, NEW body, Access!SetRolePermissions(actor, r, body)
      PROVE  AccessInv'
  <2>1. ScopesTyped'
    BY <1>7, ModulesTyped
  <2>2. Access!Uses("legacy") /\ UNCHANGED <<roleMode, role, holds, audit, history, job>>
    BY <1>7 DEF Access!SetRolePermissions
  <2> QED BY <2>1, <2>2, UntrailedChange
<1>8. ASSUME NEW r \in AccessRoles, NEW source \in AccessRoles, Access!ClonePermissions(r, source)
      PROVE  AccessInv'
  <2>1. ScopesTyped'
    BY <1>8, CloneTyped
  <2>2. Access!Uses("clone") /\ UNCHANGED <<roleMode, role, holds, audit, history, job>>
    BY <1>8 DEF Access!ClonePermissions
  <2> QED BY <2>1, <2>2, UntrailedChange
<1>9. CASE Access!Next
  <2>1. ASSUME NEW actor \in AccessEmployees, NEW r \in AccessRoles, NEW F \in SUBSET AccessFeatures \ {{}},
               \/ \E s \in GivenScopes : Access!SetFeaturePermissions(actor, r, [f \in F |-> s])
               \/ \E n \in {"name", "key"}, b \in BOOLEAN : Access!SetRolePermissions(actor, r, [x \in F \X {n} |-> b])
               \/ \E source \in AccessRoles : Access!ClonePermissions(r, source)
        PROVE  AccessInv'
    <3>1. CASE \E s \in GivenScopes : Access!SetFeaturePermissions(actor, r, [f \in F |-> s])
      <4>1. PICK s \in GivenScopes : Access!SetFeaturePermissions(actor, r, [f \in F |-> s])
        BY <3>1
      <4> DEFINE change == [f \in F |-> s]
      <4>2. Access!SetFeaturePermissions(actor, r, change)
        BY <4>1
      <4>3. change = [f \in F |-> s]
        OBVIOUS
      <4> HIDE DEF change
      <4> QED BY <1>6, <4>2, <4>3
    <3>2. CASE \E n \in {"name", "key"}, b \in BOOLEAN : Access!SetRolePermissions(actor, r, [x \in F \X {n} |-> b])
      BY <1>7, <3>2
    <3>3. CASE \E source \in AccessRoles : Access!ClonePermissions(r, source)
      BY <1>8, <3>3
    <3> QED BY <2>1, <3>1, <3>2, <3>3
  <2> QED BY <1>2, <1>3, <1>4, <1>5, <1>9, <2>1, Zenon DEF Access!Next
<1> QED BY <1>1, <1>9

\* What a step gives is on record, and was the actor's to give.
LEMMA GivenIsGranted == AccessInv /\ [Access!Next]_Access!vars => Access!Granted
<1> SUFFICES ASSUME AccessInv, [Access!Next]_Access!vars, NEW e \in AccessEmployees,
                    holds'[e] \ holds[e] # {}
             PROVE  /\ holds'[e] \ holds[e] \subseteq history'[e]
                    /\ e = job.employee
                    /\ job.super \/ (job.actor # e /\ (holds'[e] \ holds[e]) \cap FlaggedRoles = {})
  BY DEF Access!Granted
<1> DEFINE gained == holds'[e] \ holds[e]
<1>1. holds' # holds
  OBVIOUS
<1>2. \E r \in AccessRoles : Access!RemoveRole(r) \/ Access!AssignRole(r)
  <2>1. Access!Next
    BY <1>1 DEF Access!vars
  <2>2. /\ \A r, code, parent, active : ~Access!CreateRole(r, code, parent, active)
        /\ \A r, code, active : ~Access!UpdateRole(r, code, active)
        /\ \A r, parent : ~Access!MoveRole(r, parent)
        /\ \A r : ~Access!DeleteRole(r)
    BY <1>1 DEF Access!CreateRole, Access!UpdateRole, Access!MoveRole, Access!DeleteRole
  <2>3. /\ \A actor, x, wanted : ~Access!AssignRoles(actor, x, wanted)
        /\ ~Access!EndUpdate
    BY <1>1 DEF Access!AssignRoles, Access!EndUpdate
  <2>4. /\ \A actor, r, change : ~Access!SetFeaturePermissions(actor, r, change)
        /\ \A actor, r, body : ~Access!SetRolePermissions(actor, r, body)
        /\ \A r, source : ~Access!ClonePermissions(r, source)
    BY <1>1 DEF Access!SetFeaturePermissions, Access!SetRolePermissions, Access!ClonePermissions
  <2> QED BY <2>1, <2>2, <2>3, <2>4, Zenon DEF Access!Next
<1>3. PICK r \in AccessRoles : Access!RemoveRole(r) \/ Access!AssignRole(r)
  BY <1>2
<1>4. holds \in [AccessEmployees -> SUBSET AccessRoles] /\ history \in [AccessEmployees -> SUBSET AccessRoles]
  BY DEF AccessInv, GrantsTyped
<1>5. job # Access!Idle
  BY <1>3 DEF Access!RemoveRole, Access!AssignRole, Access!Free
<1>6. /\ job.employee \in AccessEmployees
      /\ job.super \/ job.wanted \ holds[job.employee] = {}
         \/ (job.actor # job.employee /\ (job.wanted \ holds[job.employee]) \cap FlaggedRoles = {})
  BY <1>5 DEF AccessInv, JobInv
<1>7. ~Access!RemoveRole(r)
  <2> SUFFICES ASSUME Access!RemoveRole(r) PROVE FALSE
    OBVIOUS
  <2>1. holds' = [holds EXCEPT ![job.employee] = @ \ {r}]
    BY DEF Access!RemoveRole
  <2> QED BY <1>4, <2>1
<1>8. /\ r \in job.wanted \ holds[job.employee]
      /\ holds' = [holds EXCEPT ![job.employee] = @ \cup {r}]
      /\ history' = [history EXCEPT ![job.employee] = @ \cup {r}]
  BY <1>3, <1>7 DEF Access!AssignRole
<1>9. e = job.employee /\ gained = {r} /\ r \in history'[e]
  BY <1>4, <1>6, <1>8
<1> QED BY <1>6, <1>8, <1>9

LEMMA AccessSteps ==
  [AdminNext]_<<workflowsVars, chart, place, access, start, part>> => [Access!Next]_Access!vars
BY DEF AdminNext, WorkflowsStep, ChartStep, PlaceStep, AccessStep, StartStep, access, Access!vars, Access!grants

\* For any employees, roles, features and scopes: what a list shows can be opened, a role
\* stands one level below its parent however roles are moved, the trail ends with what a role
\* has, the menu and the engine agree, and an update gives only what its actor may give.
THEOREM RolesSoundCorrect == AdminSpec => RolesSound
<1>1. AdminInit => AccessInv
  BY AccessInvInit, AccessAssumption DEF AdminInit
<1>2. AccessInv /\ [AdminNext]_<<workflowsVars, chart, place, access, start, part>> => AccessInv'
  BY AccessSteps, AccessInvNext, AccessAssumption
<1>3. part = "access" => Access!ListedIsAccessible
  BY ListedOpens, AccessAssumption
<1>4. AccessInv => (part = "access" => Access!AccessSound)
  <2>1. AccessInv => Access!MenuHonest
    BY MenuIsHonest, AccessAssumption DEF AccessInv, GrantsTyped, AccessAssumption
  <2> QED BY <2>1 DEF AccessInv, RolesInv, Access!AccessSound
<1>5. AccessInv /\ [AdminNext]_<<workflowsVars, chart, place, access, start, part>>
      => [part = "access" => Access!Granted]_<<part, access>>
  BY AccessSteps, GivenIsGranted
<1> QED BY <1>1, <1>2, <1>3, <1>4, <1>5, PTL DEF AdminSpec, RolesSound
===============================================================================
