--------------------------- MODULE CommissionProofs ---------------------------
(***************************************************************************)
(* Invariants of Commission for every number of sellers, sales, processes  *)
(* and days, every price and every series of settings.  Totals are sums    *)
(* over sets of sales, and what a sum does comes first.                    *)
(***************************************************************************)
EXTENDS Commission, FiniteSetTheorems, WellFoundedInduction, TLAPS

-----------------------------------------------------------------------------
(* Sums: what SumFunctionOnSet(f, S), the sum of f[x] over the x in S,     *)
(* does for every finite S and every f with natural values.  The sum is a  *)
(* recursive function over the subsets of S that removes an element CHOOSE *)
(* picks; the lemmas show that it exists, that it does not depend on the   *)
(* element picked, and how it splits.  They are proved by induction on the *)
(* size of a set, which is the well-foundedness of < on the natural        *)
(* numbers.                                                                *)

\* The order < on the natural numbers, as a relation.
Less == {ss \in Nat \X Nat : ss[1] < ss[2]}

\* No infinite descent among the natural numbers.
LEMMA LessWF == IsWellFoundedOn(Less, Nat)
BY NatLessThanWellFounded, Zenon DEF OpToRel, Less

\* A non-empty set of natural numbers has a smallest element.
LEMMA SmallestElement ==
  ASSUME NEW T \in SUBSET Nat, T # {}
  PROVE  \E m \in T : \A k \in T : m <= k
<1>1. PICK m \in T : \A k \in T : ~ (<<k, m>> \in Less)
  BY LessWF, WFMin
<1>2. \A k \in T : m <= k
  <2> SUFFICES ASSUME NEW k \in T PROVE m <= k
    OBVIOUS
  <2>1. k \in Nat /\ m \in Nat /\ <<k, m>> \notin Less
    BY <1>1
  <2>2. ~ (k < m)
    BY <2>1 DEF Less
  <2> QED
    BY <2>1, <2>2
<1> QED
  BY <1>2

\* Induction over the subsets of a finite set: a set T that holds every s whose
\* proper subsets it holds, holds them all (a smallest subset outside T cannot be).
LEMMA SetInduction ==
  ASSUME NEW S, IsFiniteSet(S), NEW T,
         \A s \in SUBSET S : (\A t \in SUBSET s : t # s => t \in T) => s \in T
  PROVE  SUBSET S \subseteq T
<1> DEFINE Bad == (SUBSET S) \ T
           Sizes == {Cardinality(s) : s \in Bad}
<1> SUFFICES ASSUME Bad # {} PROVE FALSE
  OBVIOUS
<1>1. \A s \in SUBSET S : IsFiniteSet(s) /\ Cardinality(s) \in Nat
  BY FS_Subset, FS_CardinalityType
<1>2. Sizes \in SUBSET Nat /\ Sizes # {}
  BY <1>1
<1>3. PICK m \in Sizes : \A k \in Sizes : m <= k
  BY <1>2, SmallestElement
<1>4. PICK s \in Bad : Cardinality(s) = m
  BY <1>3
<1>5. \A t \in SUBSET s : t # s => t \in T
  <2> SUFFICES ASSUME NEW t \in SUBSET s, t # s, t \notin T PROVE FALSE
    OBVIOUS
  <2>1. t \in Bad
    BY <1>4
  <2>2. Cardinality(t) < Cardinality(s)
    BY <1>1, <1>4, FS_Subset, FS_CardinalityType
  <2>3. Cardinality(t) \in Sizes
    BY <2>1
  <2>4. m <= Cardinality(t) /\ m \in Nat /\ Cardinality(t) \in Nat
    BY <1>2, <1>3, <2>3
  <2> QED
    BY <1>4, <2>2, <2>4
<1> QED
  BY <1>4, <1>5

\* The element with which a fold goes on.
Pick(s) == CHOOSE x \in s : TRUE

\* One step of the sum of f over s, with g for what is left.
Step(f, g, s) == IF s = {} THEN 0 ELSE f[Pick(s)] + g[s \ {Pick(s)}]

\* g sums f over every subset of S.
IsSum(f, S, g) == g = [s \in SUBSET S |-> Step(f, g, s)]

\* If such a g exists, SumFunctionOnSet is one.
LEMMA SumUnfolds ==
  ASSUME NEW f, NEW S, \E g : IsSum(f, S, g)
  PROVE  \E g : IsSum(f, S, g) /\ SumFunctionOnSet(f, S) = g[S]
BY DEF IsSum, Step, Pick, SumFunctionOnSet, FoldFunctionOnSet, MapThenFoldSet

\* The element picked is one of the set.
LEMMA PickIn == \A s : s # {} => Pick(s) \in s
BY DEF Pick

\* Such a g exists, with natural values: built up by the size of the subsets.
LEMMA SumExists ==
  ASSUME NEW f, NEW S, IsFiniteSet(S), \A x \in S : f[x] \in Nat
  PROVE  \E g : IsSum(f, S, g) /\ g \in [SUBSET S -> Nat]
<1> DEFINE Good(n, g) == /\ g \in [SUBSET S -> Nat]
                         /\ \A s \in SUBSET S : Cardinality(s) < n => g[s] = Step(f, g, s)
           T == {n \in Nat : \A g : ~ Good(n, g)}
<1>1. \A s \in SUBSET S : IsFiniteSet(s) /\ Cardinality(s) \in Nat /\ Cardinality(s) <= Cardinality(S)
  BY FS_Subset, FS_CardinalityType
<1>2. T = {}
  <2> SUFFICES ASSUME T # {} PROVE FALSE
    OBVIOUS
  <2>1. PICK n \in T : \A k \in T : n <= k
    BY SmallestElement
  <2>2. Good(0, [s \in SUBSET S |-> 0])
    BY <1>1
  <2>3. n # 0
    BY <2>1, <2>2
  <2>4. n - 1 \in Nat /\ n - 1 \notin T
    <3>1. n \in Nat /\ n - 1 \in Nat
      BY <2>1, <2>3
    <3>2. n - 1 \notin T
      <4> HIDE DEF T
      <4>1. n - 1 \in T => n <= n - 1
        BY <2>1
      <4> QED
        BY <3>1, <4>1
    <3> QED
      BY <3>1, <3>2
  <2>5. PICK g : Good(n - 1, g)
    BY <2>4
  <2> DEFINE h == [s \in SUBSET S |-> IF Cardinality(s) < n - 1 THEN g[s] ELSE Step(f, g, s)]
  <2>6. \A s \in SUBSET S : s # {} => /\ Pick(s) \in S /\ s \ {Pick(s)} \in SUBSET S
                                     /\ Cardinality(s \ {Pick(s)}) = Cardinality(s) - 1
    BY <1>1, PickIn, FS_RemoveElement
  <2>7. \A s \in SUBSET S : Step(f, g, s) \in Nat
    <3> SUFFICES ASSUME NEW s \in SUBSET S PROVE Step(f, g, s) \in Nat
      OBVIOUS
    <3>1. s # {} => f[Pick(s)] \in Nat /\ g[s \ {Pick(s)}] \in Nat
      BY <2>5, <2>6
    <3> QED
      BY <3>1 DEF Step
  <2>8. h \in [SUBSET S -> Nat]
    BY <2>5, <2>7
  <2>9. \A s \in SUBSET S : Cardinality(s) < n => h[s] = Step(f, h, s)
    <3> SUFFICES ASSUME NEW s \in SUBSET S, Cardinality(s) < n PROVE h[s] = Step(f, h, s)
      OBVIOUS
    <3>1. h[s] = Step(f, g, s)
      BY <2>5
    <3>2. CASE s = {}
      BY <3>1, <3>2 DEF Step
    <3>3. CASE s # {}
      <4>1. Cardinality(s \ {Pick(s)}) < n - 1
        BY <1>1, <2>1, <2>6, <3>3
      <4>2. h[s \ {Pick(s)}] = g[s \ {Pick(s)}]
        BY <2>6, <3>3, <4>1
      <4> QED
        BY <3>1, <3>3, <4>2 DEF Step
    <3> QED
      BY <3>2, <3>3
  <2>10. Good(n, h)
    BY <2>8, <2>9
  <2> HIDE DEF h
  <2> QED
    BY <2>1, <2>10
<1>3. PICK g : Good(Cardinality(S) + 1, g)
  <2>1. Cardinality(S) + 1 \in Nat
    BY <1>1
  <2> QED
    BY <1>2, <2>1
<1>4. g = [s \in SUBSET S |-> Step(f, g, s)]
  BY <1>1, <1>3
<1> QED
  BY <1>3, <1>4 DEF IsSum

\* It depends on the values of f on the subset alone.
LEMMA SumsAgree ==
  ASSUME NEW f, NEW e, NEW S, NEW U, IsFiniteSet(S), S \subseteq U,
         NEW g, NEW h, IsSum(f, U, g), IsSum(e, S, h), \A x \in S : f[x] = e[x]
  PROVE  \A s \in SUBSET S : g[s] = h[s]
<1> DEFINE T == {s \in SUBSET S : g[s] = h[s]}
<1>1. \A s \in SUBSET S : g[s] = Step(f, g, s) /\ h[s] = Step(e, h, s)
  BY DEF IsSum
<1>2. \A s \in SUBSET S : (\A t \in SUBSET s : t # s => t \in T) => s \in T
  <2> SUFFICES ASSUME NEW s \in SUBSET S, \A t \in SUBSET s : t # s => t \in T PROVE g[s] = h[s]
    OBVIOUS
  <2>1. CASE s = {}
    BY <1>1, <2>1 DEF Step
  <2>2. CASE s # {}
    <3>1. Pick(s) \in s /\ s \ {Pick(s)} \in SUBSET s /\ s \ {Pick(s)} # s
      BY <2>2, PickIn
    <3>2. g[s \ {Pick(s)}] = h[s \ {Pick(s)}] /\ f[Pick(s)] = e[Pick(s)]
      BY <3>1
    <3> QED
      BY <1>1, <2>2, <3>2 DEF Step
  <2> QED
    BY <2>1, <2>2
<1> HIDE DEF T
<1>3. SUBSET S \subseteq T
  BY <1>2, SetInduction
<1> QED
  BY <1>3 DEF T

\* A sum of natural numbers is one.
LEMMA SumNat ==
  ASSUME NEW f, NEW S, IsFiniteSet(S), \A x \in S : f[x] \in Nat
  PROVE  SumFunctionOnSet(f, S) \in Nat
<1>1. PICK e : IsSum(f, S, e) /\ e \in [SUBSET S -> Nat]
  BY SumExists
<1>2. PICK g : IsSum(f, S, g) /\ SumFunctionOnSet(f, S) = g[S]
  BY <1>1, SumUnfolds
<1>3. g[S] = e[S]
  BY <1>1, <1>2, SumsAgree
<1> QED
  BY <1>1, <1>2, <1>3

\* Functions that agree on S have the same sum over it.
LEMMA SumAgree ==
  ASSUME NEW f, NEW e, NEW S, IsFiniteSet(S), \A x \in S : f[x] \in Nat /\ f[x] = e[x]
  PROVE  SumFunctionOnSet(f, S) = SumFunctionOnSet(e, S)
<1>1. \E g : IsSum(f, S, g)
  BY SumExists
<1>2. \E g : IsSum(e, S, g)
  BY SumExists
<1>3. PICK g : IsSum(f, S, g) /\ SumFunctionOnSet(f, S) = g[S]
  BY <1>1, SumUnfolds
<1>4. PICK h : IsSum(e, S, h) /\ SumFunctionOnSet(e, S) = h[S]
  BY <1>2, SumUnfolds
<1>5. g[S] = h[S]
  BY <1>3, <1>4, SumsAgree
<1> QED
  BY <1>3, <1>4, <1>5

\* The sum over no element.
LEMMA SumEmpty == \A f : SumFunctionOnSet(f, {}) = 0
<1> SUFFICES ASSUME NEW f PROVE SumFunctionOnSet(f, {}) = 0
  OBVIOUS
<1>1. PICK g : IsSum(f, {}, g)
  BY SumExists, FS_EmptySet
<1>2. PICK h : IsSum(f, {}, h) /\ SumFunctionOnSet(f, {}) = h[{}]
  BY <1>1, SumUnfolds
<1> QED
  BY <1>2 DEF IsSum, Step

\* The sum without the element picked.
LEMMA SumPick ==
  ASSUME NEW f, NEW S, IsFiniteSet(S), S # {}, \A x \in S : f[x] \in Nat
  PROVE  SumFunctionOnSet(f, S) = f[Pick(S)] + SumFunctionOnSet(f, S \ {Pick(S)})
<1> DEFINE R == S \ {Pick(S)}
<1>1. R \subseteq S /\ IsFiniteSet(R)
  BY FS_Subset
<1>2. (\E g : IsSum(f, S, g)) /\ \E g : IsSum(f, R, g)
  BY <1>1, SumExists
<1>3. PICK g : IsSum(f, S, g) /\ SumFunctionOnSet(f, S) = g[S]
  BY <1>2, SumUnfolds
<1>4. PICK h : IsSum(f, R, h) /\ SumFunctionOnSet(f, R) = h[R]
  BY <1>2, SumUnfolds
<1>5. g[R] = h[R]
  <2> HIDE DEF R
  <2>1. \A s \in SUBSET R : g[s] = h[s]
    BY <1>1, <1>3, <1>4, SumsAgree
  <2> QED
    BY <2>1
<1>6. g[S] = f[Pick(S)] + g[R]
  BY <1>3 DEF IsSum, Step
<1> QED
  BY <1>3, <1>4, <1>5, <1>6

\* The sum without any one element: the order does not matter.
LEMMA SumRemove ==
  ASSUME NEW f, NEW S, IsFiniteSet(S), NEW x \in S, \A y \in S : f[y] \in Nat
  PROVE  SumFunctionOnSet(f, S) = f[x] + SumFunctionOnSet(f, S \ {x})
<1> DEFINE T == {s \in SUBSET S : \A z \in s : SumFunctionOnSet(f, s) = f[z] + SumFunctionOnSet(f, s \ {z})}
<1>1. \A s \in SUBSET S : IsFiniteSet(s) /\ SumFunctionOnSet(f, s) \in Nat
  BY FS_Subset, SumNat
<1>2. ASSUME NEW s \in SUBSET S, \A t \in SUBSET s : t # s => t \in T, NEW z \in s
      PROVE  SumFunctionOnSet(f, s) = f[z] + SumFunctionOnSet(f, s \ {z})
  <2> DEFINE p == Pick(s)
  <2>1. p \in s
    BY <1>2, PickIn
  <2>2. SumFunctionOnSet(f, s) = f[p] + SumFunctionOnSet(f, s \ {p})
    BY <1>1, <1>2, SumPick
  <2> HIDE DEF p
  <2>3. CASE p = z
    BY <2>2, <2>3
  <2>4. CASE p # z
    <3>1. s \ {p} \in T /\ z \in s \ {p}
      BY <1>2, <2>1, <2>4
    <3>2. s \ {z} \in T /\ p \in s \ {z}
      BY <1>2, <2>1, <2>4
    <3>3. (s \ {p}) \ {z} = (s \ {z}) \ {p} /\ (s \ {p}) \ {z} \in SUBSET S
      OBVIOUS
    <3>4. SumFunctionOnSet(f, s \ {p}) = f[z] + SumFunctionOnSet(f, (s \ {p}) \ {z})
      BY <3>1
    <3>5. SumFunctionOnSet(f, s \ {z}) = f[p] + SumFunctionOnSet(f, (s \ {z}) \ {p})
      BY <3>2
    <3>6. SumFunctionOnSet(f, (s \ {p}) \ {z}) \in Nat /\ f[p] \in Nat /\ f[z] \in Nat
      BY <1>1, <2>1, <3>3
    <3> QED
      BY <2>2, <3>3, <3>4, <3>5, <3>6
  <2> QED
    BY <2>3, <2>4
<1>3. \A s \in SUBSET S : (\A t \in SUBSET s : t # s => t \in T) => s \in T
  BY <1>2
<1> HIDE DEF T
<1>4. SUBSET S \subseteq T
  BY <1>3, SetInduction
<1> QED
  BY <1>4 DEF T

\* The sum over disjoint sets.
LEMMA SumUnion ==
  ASSUME NEW f, NEW A, NEW B, IsFiniteSet(A), IsFiniteSet(B), A \cap B = {},
         \A x \in A \cup B : f[x] \in Nat
  PROVE  SumFunctionOnSet(f, A \cup B) = SumFunctionOnSet(f, A) + SumFunctionOnSet(f, B)
<1> DEFINE T == {s \in SUBSET B : SumFunctionOnSet(f, A \cup s)
                                    = SumFunctionOnSet(f, A) + SumFunctionOnSet(f, s)}
<1>1. \A s \in SUBSET B : /\ IsFiniteSet(s) /\ IsFiniteSet(A \cup s)
                          /\ SumFunctionOnSet(f, s) \in Nat
                          /\ SumFunctionOnSet(f, A \cup s) \in Nat
  <2> SUFFICES ASSUME NEW s \in SUBSET B
               PROVE  /\ IsFiniteSet(s) /\ IsFiniteSet(A \cup s)
                      /\ SumFunctionOnSet(f, s) \in Nat
                      /\ SumFunctionOnSet(f, A \cup s) \in Nat
    OBVIOUS
  <2>1. IsFiniteSet(s) /\ IsFiniteSet(A \cup s)
    BY FS_Subset, FS_Union
  <2> QED
    BY <2>1, SumNat
<1>2. SumFunctionOnSet(f, A) \in Nat
  BY SumNat
<1>3. ASSUME NEW s \in SUBSET B, \A t \in SUBSET s : t # s => t \in T
      PROVE  SumFunctionOnSet(f, A \cup s) = SumFunctionOnSet(f, A) + SumFunctionOnSet(f, s)
  <2>1. CASE s = {}
    <3>1. A \cup s = A /\ SumFunctionOnSet(f, s) = 0
      BY <2>1, SumEmpty
    <3> QED
      BY <1>2, <3>1
  <2>2. CASE s # {}
    <3>1. PICK x \in s : TRUE
      BY <2>2
    <3>2. s \ {x} \in T /\ s \ {x} \in SUBSET B /\ x \in B /\ f[x] \in Nat
      BY <1>3, <3>1
    <3>3. (A \cup s) \ {x} = A \cup (s \ {x})
      BY <3>1
    <3>4. SumFunctionOnSet(f, s) = f[x] + SumFunctionOnSet(f, s \ {x})
      <4>1. IsFiniteSet(s) /\ \A y \in s : f[y] \in Nat
        BY <1>1
      <4> QED
        BY <3>1, <4>1, SumRemove
    <3>5. SumFunctionOnSet(f, A \cup s) = f[x] + SumFunctionOnSet(f, A \cup (s \ {x}))
      <4> DEFINE U == A \cup s
      <4>1. IsFiniteSet(U) /\ x \in U /\ \A y \in U : f[y] \in Nat
        BY <1>1, <3>1
      <4> HIDE DEF U
      <4>2. SumFunctionOnSet(f, U) = f[x] + SumFunctionOnSet(f, U \ {x})
        BY <4>1, SumRemove
      <4> QED
        BY <3>3, <4>2 DEF U
    <3>6. SumFunctionOnSet(f, A \cup (s \ {x}))
            = SumFunctionOnSet(f, A) + SumFunctionOnSet(f, s \ {x})
      BY <3>2
    <3>7. SumFunctionOnSet(f, s \ {x}) \in Nat
      BY <1>1, <3>2
    <3> QED
      BY <1>2, <3>2, <3>4, <3>5, <3>6, <3>7
  <2> QED
    BY <2>1, <2>2
<1>4. \A s \in SUBSET B : (\A t \in SUBSET s : t # s => t \in T) => s \in T
  BY <1>3
<1> HIDE DEF T
<1>5. SUBSET B \subseteq T
  BY <1>4, SetInduction
<1>6. B \in T
  BY <1>5
<1> QED
  BY <1>6 DEF T

\* The sum of a sum of two functions.
LEMMA SumPlus ==
  ASSUME NEW f, NEW e, NEW g, NEW S, IsFiniteSet(S),
         \A x \in S : f[x] \in Nat /\ e[x] \in Nat /\ g[x] = f[x] + e[x]
  PROVE  SumFunctionOnSet(g, S) = SumFunctionOnSet(f, S) + SumFunctionOnSet(e, S)
<1> DEFINE T == {s \in SUBSET S : SumFunctionOnSet(g, s)
                                    = SumFunctionOnSet(f, s) + SumFunctionOnSet(e, s)}
<1>1. \A s \in SUBSET S : IsFiniteSet(s) /\ \A x \in s : g[x] \in Nat
  BY FS_Subset
<1>2. \A s \in SUBSET S : SumFunctionOnSet(f, s) \in Nat /\ SumFunctionOnSet(e, s) \in Nat
                          /\ SumFunctionOnSet(g, s) \in Nat
  BY <1>1, SumNat
<1>3. ASSUME NEW s \in SUBSET S, \A t \in SUBSET s : t # s => t \in T
      PROVE  SumFunctionOnSet(g, s) = SumFunctionOnSet(f, s) + SumFunctionOnSet(e, s)
  <2>1. CASE s = {}
    <3>1. SumFunctionOnSet(g, s) = 0 /\ SumFunctionOnSet(f, s) = 0 /\ SumFunctionOnSet(e, s) = 0
      BY <2>1, SumEmpty
    <3> QED
      BY <3>1
  <2>2. CASE s # {}
    <3>1. PICK x \in s : TRUE
      BY <2>2
    <3>2. s \ {x} \in T /\ s \ {x} \in SUBSET S
      BY <1>3, <3>1
    <3>3. /\ SumFunctionOnSet(f, s) = f[x] + SumFunctionOnSet(f, s \ {x})
          /\ SumFunctionOnSet(e, s) = e[x] + SumFunctionOnSet(e, s \ {x})
          /\ SumFunctionOnSet(g, s) = g[x] + SumFunctionOnSet(g, s \ {x})
      BY <1>1, <3>1, SumRemove
    <3>4. SumFunctionOnSet(g, s \ {x}) = SumFunctionOnSet(f, s \ {x}) + SumFunctionOnSet(e, s \ {x})
      BY <3>2
    <3>5. f[x] \in Nat /\ e[x] \in Nat /\ g[x] = f[x] + e[x]
      BY <3>1
    <3>6. SumFunctionOnSet(f, s \ {x}) \in Nat /\ SumFunctionOnSet(e, s \ {x}) \in Nat
      BY <1>2, <3>2
    <3> QED
      BY <3>3, <3>4, <3>5, <3>6
  <2> QED
    BY <2>1, <2>2
<1>4. \A s \in SUBSET S : (\A t \in SUBSET s : t # s => t \in T) => s \in T
  BY <1>3
<1> HIDE DEF T
<1>5. SUBSET S \subseteq T
  BY <1>4, SetInduction
<1>6. S \in T
  BY <1>5
<1> QED
  BY <1>6 DEF T

\* K is split into the sets G[d].
SplitInto(K, D, G) ==
  /\ \A d \in D : G[d] \in SUBSET K
  /\ \A c, d \in D : c # d => G[c] \cap G[d] = {}
  /\ \A k \in K : \E d \in D : k \in G[d]

\* Summing by groups: F[d] is the sum over the group G[d].
THEOREM SumGroups ==
  ASSUME NEW f, NEW K, NEW D, NEW G, NEW F, IsFiniteSet(K), IsFiniteSet(D),
         \A k \in K : f[k] \in Nat,
         SplitInto(K, D, G), \A d \in D : F[d] = SumFunctionOnSet(f, G[d])
  PROVE  SumFunctionOnSet(F, D) = SumFunctionOnSet(f, K)
<1> DEFINE Over(s) == {k \in K : \E d \in s : k \in G[d]}
           T == {s \in SUBSET D : SumFunctionOnSet(F, s) = SumFunctionOnSet(f, Over(s))}
<1>1. \A s \in SUBSET D : IsFiniteSet(s) /\ IsFiniteSet(Over(s))
  BY FS_Subset
<1>2. \A d \in D : IsFiniteSet(G[d]) /\ F[d] \in Nat
  <2> SUFFICES ASSUME NEW d \in D PROVE IsFiniteSet(G[d]) /\ F[d] \in Nat
    OBVIOUS
  <2>1. IsFiniteSet(G[d]) /\ \A k \in G[d] : f[k] \in Nat
    BY FS_Subset DEF SplitInto
  <2>2. SumFunctionOnSet(f, G[d]) \in Nat
    BY <2>1, SumNat
  <2> QED
    BY <2>1, <2>2
<1>3. ASSUME NEW s \in SUBSET D, \A t \in SUBSET s : t # s => t \in T
      PROVE  SumFunctionOnSet(F, s) = SumFunctionOnSet(f, Over(s))
  <2>1. CASE s = {}
    <3>1. Over(s) = {}
      BY <2>1
    <3>2. SumFunctionOnSet(F, s) = 0
      BY <2>1, SumEmpty
    <3> HIDE DEF Over
    <3>3. SumFunctionOnSet(f, Over(s)) = 0
      BY <3>1, SumEmpty
    <3> QED
      BY <3>2, <3>3
  <2>2. CASE s # {}
    <3>1. PICK d \in s : TRUE
      BY <2>2
    <3> DEFINE A == Over(s \ {d})
    <3>2. s \ {d} \in T /\ s \ {d} \in SUBSET D /\ d \in D
      BY <1>3, <3>1
    <3>3. A \cap G[d] = {} /\ A \cup G[d] = Over(s) /\ A \subseteq K /\ G[d] \subseteq K
      BY <3>1 DEF SplitInto
    <3>4. IsFiniteSet(A) /\ IsFiniteSet(G[d])
      BY <1>1, <1>2, <3>2
    <3>5. F[d] = SumFunctionOnSet(f, G[d])
      BY <3>2
    <3>6. SumFunctionOnSet(F, s \ {d}) = SumFunctionOnSet(f, A)
      BY <3>2
    <3> HIDE DEF A, Over, T
    <3>7. SumFunctionOnSet(f, A \cup G[d]) = SumFunctionOnSet(f, A) + SumFunctionOnSet(f, G[d])
      <4>1. \A k \in A \cup G[d] : f[k] \in Nat
        BY <3>3
      <4> QED
        BY <3>3, <3>4, <4>1, SumUnion
    <3>8. SumFunctionOnSet(F, s) = F[d] + SumFunctionOnSet(F, s \ {d})
      <4>1. IsFiniteSet(s) /\ \A y \in s : F[y] \in Nat
        BY <1>1, <1>2
      <4> QED
        BY <3>1, <4>1, SumRemove
    <3>9. SumFunctionOnSet(f, A) \in Nat /\ SumFunctionOnSet(f, G[d]) \in Nat
      <4>1. \A k \in A \cup G[d] : f[k] \in Nat
        BY <3>3
      <4> QED
        BY <3>4, <4>1, SumNat
    <3>10. SumFunctionOnSet(f, Over(s)) = SumFunctionOnSet(f, A) + SumFunctionOnSet(f, G[d])
      BY <3>3, <3>7
    <3> QED
      BY <3>5, <3>6, <3>8, <3>9, <3>10
  <2> QED
    BY <2>1, <2>2
<1>4. \A s \in SUBSET D : (\A t \in SUBSET s : t # s => t \in T) => s \in T
  BY <1>3
<1>5. Over(D) = K
  BY DEF SplitInto
<1> HIDE DEF T
<1>6. SUBSET D \subseteq T
  BY <1>4, SetInduction
<1>7. D \in T
  BY <1>6
<1> QED
  BY <1>5, <1>7 DEF T

-----------------------------------------------------------------------------
(* Totals.                                                                 *)

\* Sets of sales are finite and their commissions are natural numbers.
LEMMA SalesAreFinite ==
  ASSUME TypeOK
  PROVE  \A S \in SUBSET DOMAIN charge :
           /\ IsFiniteSet(S) /\ Cardinality(S) \in Nat
           /\ \A o \in S : Amounts[o] \in Nat
           /\ Total(S) \in Nat
<1> SUFFICES ASSUME NEW S \in SUBSET DOMAIN charge
             PROVE  /\ IsFiniteSet(S) /\ Cardinality(S) \in Nat
                    /\ \A o \in S : Amounts[o] \in Nat
                    /\ Total(S) \in Nat
  OBVIOUS
<1>1. IsFiniteSet(S)
  BY CommissionAssumption, FS_Subset DEF TypeOK
<1>2. \A o \in S : Amounts[o] \in Nat
  BY DEF Amounts, TypeOK, Charge
<1>3. Total(S) \in Nat
  BY <1>1, <1>2, SumNat DEF Total
<1> QED
  BY <1>1, <1>2, <1>3, FS_CardinalityType

\* A step loses no charge, changes no amount and takes no charge off an invoice;
\* it may put open charges on new invoices of their seller and week.
RowsKept ==
  /\ DOMAIN charge \subseteq DOMAIN charge'
  /\ DOMAIN invoice \subseteq DOMAIN invoice' /\ DOMAIN invoice' \subseteq Key
  /\ \A o \in DOMAIN charge :
       /\ charge'[o].amount = charge[o].amount
       /\ \/ charge'[o].invoice = charge[o].invoice
          \/ /\ charge[o].invoice = None
             /\ charge'[o].invoice \in DOMAIN invoice' \ DOMAIN invoice
             /\ charge'[o].invoice[1] = SellerOf[o]
             /\ charge'[o].invoice[2] <= done[o]
             /\ done[o] < charge'[o].invoice[2] + WeekLength
  /\ \A o \in OrderId : done[o] # None => done'[o] = done[o]

\* So the totals stay.
LEMMA TotalsKept ==
  ASSUME TypeOK, RowsKept
  PROVE  \A S \in SUBSET DOMAIN charge :
           SumFunctionOnSet(Amounts', S) = SumFunctionOnSet(Amounts, S)
<1> SUFFICES ASSUME NEW S \in SUBSET DOMAIN charge
             PROVE  SumFunctionOnSet(Amounts', S) = SumFunctionOnSet(Amounts, S)
  OBVIOUS
<1>1. IsFiniteSet(S) /\ \A o \in S : Amounts[o] \in Nat
  BY SalesAreFinite
<1>2. \A o \in S : Amounts[o] = Amounts'[o]
  BY DEF RowsKept, Amounts
<1> QED
  BY <1>1, <1>2, SumAgree

\* Listed, in the next state.
ListedAfter(b, start, open) ==
  \E sales \in SUBSET DOMAIN charge' :
    /\ sales # {} /\ b.total = SumFunctionOnSet(Amounts', sales) /\ b.count = Cardinality(sales)
    /\ \/ sales \subseteq open
       \/ \E l \in DOMAIN invoice' : Overlap(<<b.seller, start>>, l)

\* What was listed stays listed, if no open charge is lost but to an overlapping week.
LEMMA ListedKept ==
  ASSUME TypeOK, RowsKept, NEW b, NEW start, NEW open, NEW later, Listed(b, start, open),
         \/ \E l \in DOMAIN invoice' : Overlap(<<b.seller, start>>, l)
         \/ \A o \in open : o \in later
  PROVE  ListedAfter(b, start, later)
<1>1. PICK sales \in SUBSET DOMAIN charge :
        /\ sales # {} /\ b.total = SumFunctionOnSet(Amounts, sales) /\ b.count = Cardinality(sales)
        /\ \/ sales \subseteq open
           \/ \E l \in DOMAIN invoice : Overlap(<<b.seller, start>>, l)
  BY DEF Listed, Total
<1>2. SumFunctionOnSet(Amounts', sales) = SumFunctionOnSet(Amounts, sales)
  BY TotalsKept
<1>3. sales \in SUBSET DOMAIN charge' /\ DOMAIN invoice \subseteq DOMAIN invoice'
  BY DEF RowsKept
<1>4. sales \subseteq later \/ \E l \in DOMAIN invoice' : Overlap(<<b.seller, start>>, l)
  BY <1>1, <1>3
<1> QED
  BY <1>1, <1>2, <1>3, <1>4 DEF ListedAfter

\* Uninvoiced, in the next state.
OpenAfter(s, start) ==
  {o \in DOMAIN charge' : /\ charge'[o].invoice = None
                          /\ SellerOf[o] = s
                          /\ start <= done'[o] /\ done'[o] < start + WeekLength}

\* An open charge of a week stays open or goes to an overlapping week.
LEMMA OpenKept ==
  ASSUME IInv, RowsKept, NEW s \in Seller, NEW start \in Days
  PROVE  \/ \E l \in DOMAIN invoice' : Overlap(<<s, start>>, l)
         \/ \A o \in Uninvoiced(s, start) : o \in OpenAfter(s, start)
<1> SUFFICES ASSUME NEW o \in Uninvoiced(s, start), o \notin OpenAfter(s, start)
             PROVE  \E l \in DOMAIN invoice' : Overlap(<<s, start>>, l)
  OBVIOUS
<1>1. /\ o \in DOMAIN charge /\ o \in OrderId /\ charge[o].invoice = None
      /\ SellerOf[o] = s /\ start <= done[o] /\ done[o] < start + WeekLength
  BY DEF Uninvoiced, IInv, TypeOK
<1>2. done[o] \in Nat /\ done'[o] = done[o]
  BY <1>1 DEF IInv, TypeOK, ChargesConsistent, RowsKept
<1>3. o \in DOMAIN charge' /\ charge'[o].invoice # None
  BY <1>1, <1>2 DEF OpenAfter, RowsKept
<1> DEFINE l == charge'[o].invoice
<1>4. /\ l \in DOMAIN invoice' /\ l[1] = s
      /\ l[2] <= done[o] /\ done[o] < l[2] + WeekLength
  BY <1>1, <1>3 DEF RowsKept
<1>5. l[2] \in Int /\ start \in Int /\ WeekLength \in Nat
  BY <1>4, CommissionAssumption DEF RowsKept, Key, Days
<1>6. Overlap(<<s, start>>, l)
  BY <1>1, <1>2, <1>4, <1>5 DEF Overlap
<1> QED
  BY <1>4, <1>6

\* What a process remembers survives the steps of the others.
LEMMA RemembersKept ==
  ASSUME IInv, RowsKept, NEW j \in Instance, cron'[j] = cron[j],
         InTransaction(j) => BillKey(j) \notin DOMAIN invoice',
         cron[j].step = "commit" => \A o \in cron[j].attached : charge'[o].invoice = None
  PROVE  Remembers(j)'
<1>1. cron[j] \in Cron /\ Remembers(j)
  BY DEF IInv, TypeOK
<1>2. cron[j].step = "charge" => \A o \in cron[j].orders : done'[o] # None
  BY <1>1 DEF Remembers, Cron, RowsKept
<1>3. ASSUME cron[j].step \in {"create", "attach", "commit"}, NEW b \in cron[j].sellers
      PROVE  ListedAfter(b, cron[j].start, OpenAfter(b.seller, cron[j].start))
  <2>1. b.seller \in Seller /\ cron[j].start \in Days
    BY <1>1, <1>3 DEF Cron, SellerTotal
  <2>2. Listed(b, cron[j].start, Uninvoiced(b.seller, cron[j].start))
    BY <1>1, <1>3 DEF Remembers
  <2> QED
    BY <2>1, <2>2, OpenKept, ListedKept DEF IInv
<1>4. ASSUME InTransaction(j)
      PROVE  /\ cron[j].bill \in cron[j].sellers
             /\ <<cron[j].bill.seller, cron[j].start>> \notin DOMAIN invoice'
  BY <1>1, <1>4 DEF Remembers, BillKey
<1>5. ASSUME cron[j].step = "commit"
      PROVE  /\ cron[j].attached \subseteq OpenAfter(cron[j].bill.seller, cron[j].start)
             /\ ListedAfter(cron[j].bill, cron[j].start, cron[j].attached)
  <2>1. /\ cron[j].attached \subseteq Uninvoiced(cron[j].bill.seller, cron[j].start)
        /\ Listed(cron[j].bill, cron[j].start, cron[j].attached)
    BY <1>1, <1>5 DEF Remembers
  <2>2. cron[j].attached \subseteq OpenAfter(cron[j].bill.seller, cron[j].start)
    <3> SUFFICES ASSUME NEW o \in cron[j].attached
                 PROVE  o \in OpenAfter(cron[j].bill.seller, cron[j].start)
      OBVIOUS
    <3>1. /\ o \in DOMAIN charge /\ o \in OrderId /\ o \in DOMAIN charge'
          /\ SellerOf[o] = cron[j].bill.seller
          /\ cron[j].start <= done[o] /\ done[o] < cron[j].start + WeekLength
      BY <2>1 DEF Uninvoiced, RowsKept, IInv, TypeOK
    <3>2. done'[o] = done[o]
      BY <3>1 DEF IInv, ChargesConsistent, RowsKept
    <3> QED
      BY <1>5, <3>1, <3>2 DEF OpenAfter
  <2> QED
    BY <2>1, <2>2, ListedKept DEF IInv
<1>6. cron[j].late \subseteq DOMAIN invoice'
  BY <1>1 DEF Remembers, RowsKept
<1> QED
  BY <1>2, <1>3, <1>4, <1>5, <1>6
     DEF Remembers, Listed, ListedAfter, Total, Uninvoiced, OpenAfter, InTransaction, BillKey

\* A step that keeps the rows keeps every charge where it belongs.
LEMMA ChargesKept ==
  ASSUME IInv, RowsKept, TypeOK',
         \A o \in DOMAIN charge' \ DOMAIN charge :
           charge'[o].invoice = None /\ done'[o] # None
  PROVE  ChargesConsistent'
BY DEF IInv, ChargesConsistent, RowsKept, TypeOK

\* And every invoice that exists already keeps its sales and its total.
LEMMA InvoicesKept ==
  ASSUME IInv, RowsKept,
         \A o \in DOMAIN charge' \ DOMAIN charge : charge'[o].invoice = None,
         \A k \in DOMAIN invoice : invoice'[k].total = invoice[k].total
  PROVE  \A k \in DOMAIN invoice :
           /\ Billed(k)' # {}
           /\ (\A l \in DOMAIN invoice' \ {k} : ~ Overlap(k, l)) =>
                invoice'[k].total = SumFunctionOnSet(Amounts', Billed(k)')
<1> SUFFICES ASSUME NEW k \in DOMAIN invoice
             PROVE  /\ Billed(k)' # {}
                    /\ (\A l \in DOMAIN invoice' \ {k} : ~ Overlap(k, l)) =>
                         invoice'[k].total = SumFunctionOnSet(Amounts', Billed(k)')
  OBVIOUS
<1>1. k # None
  BY CommissionAssumption DEF IInv, TypeOK, Key, Days
<1>2. Billed(k)' = Billed(k) /\ Billed(k) \in SUBSET DOMAIN charge
  BY <1>1 DEF Billed, RowsKept
<1>3. SumFunctionOnSet(Amounts', Billed(k)) = SumFunctionOnSet(Amounts, Billed(k))
  BY <1>2, TotalsKept DEF IInv
<1> QED
  BY <1>2, <1>3 DEF IInv, InvoicesConsistent, TotalIsExact, Total, RowsKept

-----------------------------------------------------------------------------
(* The steps of the cron.                                                  *)

\* What a step of process i leaves to show, when it creates no invoice.
LEMMA CronMoves ==
  ASSUME IInv, TypeOK', RowsKept, NEW i \in Instance,
         DOMAIN invoice' = DOMAIN invoice,
         \A k \in DOMAIN invoice : invoice'[k].total = invoice[k].total,
         \A o \in DOMAIN charge : charge'[o].invoice = charge[o].invoice,
         \A o \in DOMAIN charge' \ DOMAIN charge :
           charge'[o].invoice = None /\ done'[o] # None,
         nudge' \in {None, nudge} \cup DOMAIN invoice,
         \A j \in Instance \ {i} : cron'[j] = cron[j],
         Remembers(i)',
         \A j \in Instance \ {i} : Apart(i, j)' /\ Apart(j, i)'
  PROVE  IInv'
<1>1. ChargesConsistent'
  BY ChargesKept
<1>2. InvoicesConsistent'
  BY InvoicesKept DEF InvoicesConsistent, TotalIsExact, Total
<1>3. ASSUME NEW j \in Instance \ {i} PROVE Remembers(j)'
  <2>1. InTransaction(j) => BillKey(j) \notin DOMAIN invoice'
    BY DEF IInv, Remembers
  <2>2. cron[j].step = "commit" => \A o \in cron[j].attached : charge'[o].invoice = None
    BY DEF IInv, Remembers, Uninvoiced
  <2> QED
    BY <1>3, <2>1, <2>2, RemembersKept
<1>4. ASSUME NEW j \in Instance \ {i}, NEW m \in Instance \ {i, j} PROVE Apart(j, m)'
  <2>1. Apart(j, m) /\ cron'[j] = cron[j] /\ cron'[m] = cron[m]
    BY DEF IInv
  <2> QED
    BY <2>1 DEF Apart, InTransaction, BillKey
<1> QED
  BY <1>1, <1>2, <1>3, <1>4 DEF IInv

\* A step that leaves the tables alone keeps the rows.
LEMMA SameRows ==
  ASSUME IInv, UNCHANGED <<done, charge, invoice>>
  PROVE  RowsKept
BY DEF IInv, TypeOK, RowsKept

\* Setting one process leaves the others alone.
LEMMA CronSet ==
  ASSUME TypeOK, NEW i \in Instance, NEW v \in Cron, cron' = [cron EXCEPT ![i] = v]
  PROVE  /\ cron' \in [Instance -> Cron] /\ cron'[i] = v
         /\ \A j \in Instance \ {i} : cron'[j] = cron[j]
BY DEF TypeOK

\* What a process outside a transaction may remember.
Recalls(v) ==
  /\ v.step \notin {"attach", "commit"}
  /\ v.step = "charge" => \A o \in v.orders : done[o] # None
  /\ v.step = "create" => \A b \in v.sellers : Listed(b, v.start, Uninvoiced(b.seller, v.start))
  /\ v.late \subseteq DOMAIN invoice

\* Process i goes on outside a transaction, having written a row or not.
LEMMA CronWrites ==
  ASSUME IInv, TypeOK', RowsKept, NEW i \in Instance, NEW v \in Cron,
         cron' = [cron EXCEPT ![i] = v],
         DOMAIN invoice' = DOMAIN invoice,
         \A k \in DOMAIN invoice : invoice'[k].total = invoice[k].total,
         \A o \in DOMAIN charge : charge'[o].invoice = charge[o].invoice,
         \A o \in DOMAIN charge' \ DOMAIN charge :
           charge'[o].invoice = None /\ done'[o] # None,
         nudge' = nudge,
         Recalls(v)'
  PROVE  IInv'
<1>1. cron'[i] = v /\ \A j \in Instance \ {i} : cron'[j] = cron[j]
  BY CronSet DEF IInv
<1>2. Remembers(i)' /\ \A j \in Instance : Apart(i, j)' /\ Apart(j, i)'
  BY <1>1 DEF Recalls, Remembers, Apart, InTransaction
<1> QED
  BY <1>1, <1>2, CronMoves

\* Process i goes on outside a transaction and writes no row.
LEMMA CronReads ==
  ASSUME IInv, NEW i \in Instance, NEW v \in Cron, cron' = [cron EXCEPT ![i] = v],
         UNCHANGED <<day, setting, done, charge, invoice, nudge, changes>>, faults' \in Nat,
         Recalls(v)
  PROVE  IInv'
<1>1. TypeOK'
  BY CronSet DEF IInv, TypeOK
<1>2. Recalls(v)'
  BY DEF Recalls, Listed, Uninvoiced, Total, Amounts
<1> QED
  BY <1>1, <1>2, SameRows, CronWrites

\* The constants' types.
LEMMA ConstantsTyped ==
  /\ Rates \subseteq Nat /\ WeekLength \in Nat /\ WeekLength > 0 /\ Weekdays \subseteq Nat
  /\ GraceDays \in Nat /\ RemindDays \in Nat /\ Horizon \in Nat /\ StartDay \in Nat
  /\ DealValue \in [OrderId -> Nat] /\ SellerOf \in [OrderId -> Seller]
  /\ Defaults \in [rate : Rates, close : Weekdays] /\ Defaults.close \in Nat
<1>1. Defaults \in [rate : Rates, close : Weekdays] /\ Weekdays \subseteq 0 .. WeekLength - 1
      /\ WeekLength \in Nat
  BY CommissionAssumption
<1>2. Defaults.close \in Weekdays
  BY <1>1
<1>3. Defaults.close \in Nat
  <2>1. \A x \in 0 .. WeekLength - 1 : x \in Nat
    BY <1>1
  <2> QED
    BY <1>1, <1>2, <2>1
<1> QED
  BY <1>1, <1>3, CommissionAssumption

\* A failed statement is counted.
LEMMA Faults == IInv /\ (UNCHANGED faults \/ (MayFail /\ Fail)) => faults' \in Nat
BY DEF IInv, TypeOK, Fail

\* AccrueCharges reads the completed sales and the rate.
LEMMA AccrueListStep ==
  ASSUME IInv, NEW i \in Instance, AccrueList(i)
  PROVE  IInv'
<1> DEFINE found == ListCompletedOrdersWithoutCharge
<1>1. cron[i] \in Cron /\ Recalls(cron[i])
  BY DEF IInv, TypeOK, Remembers, Recalls, AccrueList
<1>2. found \in SUBSET OrderId /\ \A o \in found : done[o] # None
  BY DEF ListCompletedOrdersWithoutCharge
<1>3. setting.rate \in Nat
  BY ConstantsTyped DEF IInv, TypeOK
<1> DEFINE Read(f, r) == [cron[i] EXCEPT !.step = After(f, "charge", "issue"), !.orders = f, !.rate = r]
<1>4. ASSUME NEW f \in SUBSET OrderId, NEW r \in Nat
      PROVE  /\ Read(f, r) \in Cron /\ Read(f, r).orders = f /\ Read(f, r).late = cron[i].late
             /\ Read(f, r).step = After(f, "charge", "issue")
  BY <1>1 DEF Cron, CronStep, After
<1>5. [cron[i] EXCEPT !.step = "issue"] \in Cron /\ Recalls([cron[i] EXCEPT !.step = "issue"])
  BY <1>1 DEF Cron, CronStep, Recalls
<1>6. UNCHANGED <<day, setting, done, charge, invoice, nudge, changes>> /\ faults' \in Nat
  <2>1. UNCHANGED faults \/ (MayFail /\ Fail)
    BY DEF AccrueList
  <2>2. UNCHANGED <<day, setting, done, charge, invoice, nudge, changes>>
    BY DEF AccrueList
  <2> QED
    BY <2>1, <2>2, Faults
<1>7. \/ cron' = [cron EXCEPT ![i] = Read(found, IF found = {} THEN 0 ELSE setting.rate)]
      \/ cron' = [cron EXCEPT ![i] = [cron[i] EXCEPT !.step = "issue"]]
  BY <1>1 DEF AccrueList
<1> HIDE DEF found, Read
<1>8. PICK v \in Cron : cron' = [cron EXCEPT ![i] = v] /\ Recalls(v)
  <2>1. PICK r \in Nat : r = IF found = {} THEN 0 ELSE setting.rate
    BY <1>3
  <2>2. Read(found, r) \in Cron /\ Recalls(Read(found, r))
    BY <1>1, <1>2, <1>4 DEF Recalls, After
  <2> QED
    BY <1>5, <1>7, <2>1, <2>2
<1> QED
  BY <1>6, <1>8, CronReads

\* AccrueCharges writes one charge.
LEMMA AccrueOneStep ==
  ASSUME IInv, NEW i \in Instance, AccrueOne(i)
  PROVE  IInv'
<1>1. PICK o \in cron[i].orders :
        /\ \/ CreateCommissionCharge(o, cron[i].rate) /\ UNCHANGED faults
           \/ MayFail /\ Fail /\ UNCHANGED charge
        /\ cron' = [cron EXCEPT ![i].orders = @ \ {o},
                                ![i].step = After(cron[i].orders \ {o}, "charge", "issue"),
                                ![i].rate = After(cron[i].orders \ {o}, @, 0)]
  BY DEF AccrueOne
<1>2. /\ cron[i] \in Cron /\ cron \in [Instance -> Cron] /\ Recalls(cron[i])
      /\ cron[i].step = "charge"
  BY DEF IInv, TypeOK, Remembers, Recalls, AccrueOne
<1>3. o \in OrderId /\ done[o] # None /\ cron[i].rate \in Nat
  BY <1>2 DEF Recalls, Cron
<1>4. PICK v \in Cron : /\ cron' = [cron EXCEPT ![i] = v]
                        /\ v.orders = cron[i].orders \ {o} /\ v.late = cron[i].late
                        /\ v.step \in {"charge", "issue"}
  <2> DEFINE w == [cron[i] EXCEPT !.orders = @ \ {o},
                                  !.step = After(cron[i].orders \ {o}, "charge", "issue"),
                                  !.rate = After(cron[i].orders \ {o}, @, 0)]
  <2>1. /\ w \in Cron /\ w.orders = cron[i].orders \ {o} /\ w.late = cron[i].late
        /\ w.step \in {"charge", "issue"}
    BY <1>2 DEF Cron, CronStep, After
  <2>2. cron' = [cron EXCEPT ![i] = w]
    BY <1>1, <1>2
  <2> HIDE DEF w
  <2> QED
    BY <2>1, <2>2
<1>5. UNCHANGED <<day, setting, done, invoice, nudge, changes>> /\ faults' \in Nat
  <2>1. UNCHANGED <<day, setting, done, invoice, nudge, changes>>
    BY DEF AccrueOne
  <2> QED
    BY <1>1, <2>1, Faults
<1>6. /\ DOMAIN charge \subseteq DOMAIN charge' /\ DOMAIN charge' \subseteq DOMAIN charge \cup {o}
      /\ \A q \in DOMAIN charge : charge'[q] = charge[q]
      /\ \A q \in DOMAIN charge' \ DOMAIN charge :
           charge'[q] = [rate |-> cron[i].rate, invoice |-> None,
                         amount |-> ComputeCharge(DealValue[o], cron[i].rate)]
  BY <1>1 DEF CreateCommissionCharge, Insert
<1>7. ComputeCharge(DealValue[o], cron[i].rate) \in Nat
  <2>1. DealValue[o] \in Nat /\ cron[i].rate \in Nat
    BY <1>3, ConstantsTyped
  <2>2. DealValue[o] * cron[i].rate \in Nat
    BY <2>1
  <2> QED
    BY <2>2 DEF ComputeCharge
<1>8. TypeOK'
  <2>1. \A q \in DOMAIN charge' : charge'[q] \in Charge
    BY <1>3, <1>6, <1>7 DEF Charge, IInv, TypeOK
  <2>2. DOMAIN charge' \subseteq OrderId
    BY <1>3, <1>6 DEF IInv, TypeOK
  <2> QED
    BY <1>4, <1>5, <2>1, <2>2, CronSet DEF IInv, TypeOK
<1>9. RowsKept
  BY <1>5, <1>6 DEF RowsKept, IInv, TypeOK
<1>10. Recalls(v)'
  BY <1>2, <1>4, <1>5 DEF Recalls
<1>11. \A q \in DOMAIN charge' \ DOMAIN charge : charge'[q].invoice = None /\ done'[q] # None
  BY <1>3, <1>5, <1>6
<1> QED
  BY <1>4, <1>5, <1>6, <1>8, <1>9, <1>10, <1>11, CronWrites

\* IssueWeeklyInvoices lists what each seller has to be billed.
LEMMA IssueListStep ==
  ASSUME IInv, NEW i \in Instance, IssueList(i)
  PROVE  IInv'
<1> DEFINE start   == day - WeekLength
           sellers == ListSellersWithUninvoicedCharges(start)
           w == [cron[i] EXCEPT !.step = "create", !.sellers = sellers, !.start = start,
                                !.due = day + GraceDays]
           n == [cron[i] EXCEPT !.step = "remind"]
<1>1. cron[i] \in Cron /\ cron \in [Instance -> Cron] /\ Recalls(cron[i])
  BY DEF IInv, TypeOK, Remembers, Recalls, IssueList
<1>2. start \in Days /\ day + GraceDays \in Nat
  BY ConstantsTyped DEF IInv, TypeOK, Days
<1>3. \A b \in sellers : b \in SellerTotal /\ Listed(b, start, Uninvoiced(b.seller, start))
  <2> HIDE DEF start
  <2> SUFFICES ASSUME NEW s \in Seller, Uninvoiced(s, start) # {},
                      NEW b, b = [seller |-> s, total |-> Total(Uninvoiced(s, start)),
                                  count |-> Cardinality(Uninvoiced(s, start))]
               PROVE  b \in SellerTotal /\ Listed(b, start, Uninvoiced(b.seller, start))
    BY DEF ListSellersWithUninvoicedCharges
  <2>1. Uninvoiced(s, start) \in SUBSET DOMAIN charge
    BY DEF Uninvoiced
  <2>2. Total(Uninvoiced(s, start)) \in Nat /\ Cardinality(Uninvoiced(s, start)) \in Nat
    BY <2>1, SalesAreFinite DEF IInv
  <2>3. b \in SellerTotal
    BY <2>2 DEF SellerTotal
  <2>4. b.seller = s
    OBVIOUS
  <2> QED
    BY <2>1, <2>3, <2>4 DEF Listed
<1> HIDE DEF sellers, start
<1>4. w \in Cron /\ Recalls(w)
  <2>1. /\ w \in Cron /\ w.step = "create" /\ w.sellers = sellers /\ w.start = start
        /\ w.late = cron[i].late
    BY <1>1, <1>2, <1>3 DEF Cron, CronStep
  <2> HIDE DEF w
  <2> QED
    BY <1>1, <1>3, <2>1 DEF Recalls
<1>5. n \in Cron /\ Recalls(n)
  BY <1>1 DEF Cron, CronStep, Recalls
<1>6. cron' = [cron EXCEPT ![i] = w] \/ cron' = [cron EXCEPT ![i] = n]
  BY <1>1 DEF IssueList, sellers, start
<1>7. UNCHANGED <<day, setting, done, charge, invoice, nudge, changes>> /\ faults' \in Nat
  BY DEF IssueList, IInv, TypeOK
<1> HIDE DEF w, n
<1> QED
  BY <1>4, <1>5, <1>6, <1>7, CronReads

\* A seller that is passed over leaves the list; the rest stays as it was read.
LEMMA Passed ==
  ASSUME IInv, NEW i \in Instance, NEW b, Pass(i, b)
  PROVE  \E v \in Cron : /\ cron' = [cron EXCEPT ![i] = v]
                         /\ v.step \in {"create", "remind"}
                         /\ v.sellers = cron[i].sellers \ {b}
                         /\ v.step = "create" => v.start = cron[i].start
                         /\ v.late = {}
<1> DEFINE rest == cron[i].sellers \ {b}
           w == [Start EXCEPT !.step = After(rest, "create", "remind"), !.sellers = rest,
                              !.start = After(rest, cron[i].start, 0),
                              !.due = After(rest, cron[i].due, 0)]
<1>1. cron[i] \in Cron
  BY DEF IInv, TypeOK
<1>2. 0 \in Days
  BY ConstantsTyped DEF Days
<1>3. /\ w \in Cron /\ w.step = After(rest, "create", "remind") /\ w.sellers = rest
      /\ w.start = After(rest, cron[i].start, 0) /\ w.late = {}
  BY <1>1, <1>2 DEF Cron, CronStep, Start, After
<1>4. cron' = [cron EXCEPT ![i] = w]
  BY DEF Pass
<1> HIDE DEF w
<1> QED
  BY <1>3, <1>4 DEF After

\* The invoice row is inserted, or the seller is passed over.
LEMMA CreateStep ==
  ASSUME IInv, NEW i \in Instance, CreateCommissionInvoice(i)
  PROVE  IInv'
<1>1. PICK b \in cron[i].sellers :
        LET key == <<b.seller, cron[i].start>> IN
        \/ /\ KeyIsFree(i, key)
           /\ IF key \in DOMAIN invoice
                THEN Pass(i, b)
                ELSE cron' = [cron EXCEPT ![i].step = "attach", ![i].bill = b]
           /\ UNCHANGED faults
        \/ MayFail /\ Fail /\ Pass(i, b)
  BY DEF CreateCommissionInvoice
<1>2. UNCHANGED <<day, setting, done, charge, invoice, nudge, changes>> /\ faults' \in Nat
  <2>1. UNCHANGED faults \/ (MayFail /\ Fail)
    BY <1>1
  <2>2. UNCHANGED <<day, setting, done, charge, invoice, nudge, changes>>
    BY DEF CreateCommissionInvoice
  <2> QED
    BY <2>1, <2>2, Faults
<1>3. /\ cron[i] \in Cron /\ cron[i].step = "create" /\ Remembers(i)
      /\ b \in SellerTotal
  BY DEF IInv, TypeOK, CreateCommissionInvoice, Cron
<1>4. CASE Pass(i, b)
  <2>1. PICK v \in Cron : /\ cron' = [cron EXCEPT ![i] = v]
                          /\ v.step \in {"create", "remind"}
                          /\ v.sellers = cron[i].sellers \ {b}
                          /\ v.step = "create" => v.start = cron[i].start
                          /\ v.late = {}
    BY <1>4, Passed
  <2>2. Recalls(v)
    BY <1>3, <2>1 DEF Recalls, Remembers
  <2> QED
    BY <1>2, <2>1, <2>2, CronReads
<1>5. CASE /\ KeyIsFree(i, <<b.seller, cron[i].start>>)
           /\ <<b.seller, cron[i].start>> \notin DOMAIN invoice
           /\ cron' = [cron EXCEPT ![i].step = "attach", ![i].bill = b]
  <2> DEFINE w == [cron[i] EXCEPT !.step = "attach", !.bill = b]
  <2>1. /\ w \in Cron /\ w.step = "attach" /\ w.bill = b /\ w.sellers = cron[i].sellers
        /\ w.start = cron[i].start /\ w.late = cron[i].late
    BY <1>3 DEF Cron, CronStep
  <2>2. cron' = [cron EXCEPT ![i] = w]
    BY <1>5, <1>3 DEF IInv, TypeOK
  <2> HIDE DEF w
  <2>3. /\ cron' \in [Instance -> Cron] /\ cron'[i] = w
        /\ \A j \in Instance \ {i} : cron'[j] = cron[j]
    BY <2>1, <2>2, CronSet DEF IInv
  <2>4. TypeOK'
    BY <1>2, <2>3 DEF IInv, TypeOK
  <2>5. Remembers(i)'
    BY <1>2, <1>3, <1>5, <2>1, <2>3 DEF Remembers, Listed, Total, Amounts, Uninvoiced, BillKey
  <2>6. ASSUME NEW j \in Instance \ {i} PROVE Apart(i, j)' /\ Apart(j, i)'
    BY <1>5, <2>1, <2>3 DEF Apart, KeyIsFree, InTransaction, BillKey
  <2> QED
    BY <1>2, <2>3, <2>4, <2>5, <2>6, SameRows, CronMoves
<1> QED
  BY <1>1, <1>4, <1>5

\* The open charges of the week are attached, inside the transaction.
LEMMA AttachStep ==
  ASSUME IInv, NEW i \in Instance, AttachChargesToInvoice(i)
  PROVE  IInv'
<1> DEFINE wanted == Uninvoiced(cron[i].bill.seller, cron[i].start)
           w == [cron[i] EXCEPT !.step = "commit", !.attached = wanted]
<1>1. cron[i] \in Cron /\ cron[i].step = "attach" /\ Remembers(i)
  BY DEF IInv, TypeOK, AttachChargesToInvoice
<1>2. wanted \in SUBSET OrderId
  BY DEF Uninvoiced, IInv, TypeOK
<1> HIDE DEF wanted
<1>3. /\ w \in Cron /\ w.step = "commit" /\ w.bill = cron[i].bill /\ w.sellers = cron[i].sellers
      /\ w.start = cron[i].start /\ w.late = cron[i].late /\ w.attached = wanted
  BY <1>1, <1>2 DEF Cron, CronStep
<1>4. cron' = [cron EXCEPT ![i] = w]
  BY <1>1 DEF AttachChargesToInvoice, IInv, TypeOK, wanted
<1> HIDE DEF w
<1>5. UNCHANGED <<day, setting, done, charge, invoice, nudge, faults, changes>>
  BY DEF AttachChargesToInvoice
<1>6. /\ cron' \in [Instance -> Cron] /\ cron'[i] = w
      /\ \A j \in Instance \ {i} : cron'[j] = cron[j]
  BY <1>3, <1>4, CronSet DEF IInv
<1>7. TypeOK'
  BY <1>5, <1>6 DEF IInv, TypeOK
<1>8. /\ cron[i].bill \in cron[i].sellers /\ BillKey(i) \notin DOMAIN invoice
      /\ Listed(cron[i].bill, cron[i].start, wanted)
  BY <1>1 DEF Remembers, InTransaction, wanted
<1>9. Remembers(i)'
  BY <1>1, <1>3, <1>5, <1>6, <1>8
     DEF Remembers, Listed, Total, Amounts, Uninvoiced, BillKey, wanted
<1>10. ASSUME NEW j \in Instance \ {i} PROVE Apart(i, j)' /\ Apart(j, i)'
  <2>1. cron[j].step = "commit" => cron[j].attached \cap wanted = {}
    BY DEF AttachChargesToInvoice, wanted
  <2>2. Apart(i, j)
    BY DEF IInv
  <2> QED
    BY <1>1, <1>3, <1>6, <2>1, <2>2 DEF Apart, InTransaction, BillKey
<1> QED
  BY <1>5, <1>6, <1>7, <1>9, <1>10, SameRows, CronMoves

\* A transaction that is rolled back leaves nothing.
LEMMA RollbackStep ==
  ASSUME IInv, NEW i \in Instance, cron[i].step = "commit", Pass(i, cron[i].bill),
         UNCHANGED <<day, setting, done, charge, invoice, nudge, changes>>, faults' \in Nat
  PROVE  IInv'
<1>1. PICK v \in Cron : /\ cron' = [cron EXCEPT ![i] = v]
                        /\ v.step \in {"create", "remind"}
                        /\ v.sellers = cron[i].sellers \ {cron[i].bill}
                        /\ v.step = "create" => v.start = cron[i].start
                        /\ v.late = {}
  BY Passed
<1>2. Recalls(v)
  BY <1>1 DEF Recalls, Remembers, IInv
<1> QED
  BY <1>1, <1>2, CronReads

\* An invoice is committed with the charges attached to it.
LEMMA CommitStep ==
  ASSUME IInv, NEW i \in Instance, Commit(i)
  PROVE  IInv'
<1>3. PICK key : key = BillKey(i)
  OBVIOUS
<1> DEFINE att == cron[i].attached
           row == [status |-> "unpaid", total |-> cron[i].bill.total,
                   due |-> cron[i].due, reminded |-> None]
<1>0. UNCHANGED <<day, setting, done, nudge, changes>> /\ cron[i].step = "commit"
      /\ Pass(i, cron[i].bill)
  BY DEF Commit
<1>1. CASE UNCHANGED <<invoice, charge>> /\ (UNCHANGED faults \/ (MayFail /\ Fail))
  <2>1. faults' \in Nat
    BY <1>1, Faults
  <2> QED
    BY <1>0, <1>1, <2>1, RollbackStep
<1>2. CASE /\ CountMatches(i) /\ UNCHANGED faults
           /\ invoice' = Insert(invoice, key, row)
           /\ charge' = [o \in DOMAIN charge |-> IF o \in att THEN [charge[o] EXCEPT !.invoice = key]
                                                             ELSE charge[o]]
  <2>1. /\ cron[i] \in Cron /\ Remembers(i) /\ key = <<cron[i].bill.seller, cron[i].start>>
        /\ key \notin DOMAIN invoice /\ cron[i].bill \in SellerTotal
    BY <1>0, <1>3 DEF IInv, TypeOK, Remembers, BillKey, InTransaction, Cron
  <2>2. /\ key \in Key /\ key # None /\ key[1] = cron[i].bill.seller /\ key[2] = cron[i].start
        /\ cron[i].start \in Int
    BY <2>1, CommissionAssumption DEF Key, Days, Cron, SellerTotal
  <2>3. att \subseteq Uninvoiced(key[1], key[2]) /\ Listed(cron[i].bill, cron[i].start, att)
    BY <1>0, <2>1, <2>2 DEF Remembers
  <2> HIDE DEF att
  <2>4. /\ DOMAIN invoice' = DOMAIN invoice \cup {key}
        /\ invoice'[key] = row /\ \A k \in DOMAIN invoice : invoice'[k] = invoice[k]
    BY <1>2, <2>1 DEF Insert
  <2>5. /\ DOMAIN charge' = DOMAIN charge /\ att \in SUBSET DOMAIN charge
        /\ \A o \in att : /\ charge[o].invoice = None /\ charge'[o].invoice = key
                          /\ charge'[o].amount = charge[o].amount /\ charge'[o] \in Charge
                          /\ SellerOf[o] = key[1]
                          /\ key[2] <= done[o] /\ done[o] < key[2] + WeekLength
        /\ \A o \in DOMAIN charge \ att : charge'[o] = charge[o]
    BY <1>2, <2>2, <2>3 DEF Uninvoiced, IInv, TypeOK, Charge
  <2>6. row \in Invoice
    BY <2>1 DEF Invoice, SellerTotal, Cron
  <2>7. PICK v \in Cron : /\ cron' = [cron EXCEPT ![i] = v]
                          /\ v.step \in {"create", "remind"}
                          /\ v.sellers = cron[i].sellers \ {cron[i].bill}
                          /\ v.step = "create" => v.start = cron[i].start
                          /\ v.late = {}
    BY <1>0, Passed
  <2>8. /\ cron' \in [Instance -> Cron] /\ cron'[i] = v
        /\ \A j \in Instance \ {i} : cron'[j] = cron[j]
    BY <2>7, CronSet DEF IInv
  <2> HIDE DEF row
  <2>9. TypeOK'
    <3>1. /\ DOMAIN invoice' \subseteq Key /\ \A k \in DOMAIN invoice' : invoice'[k] \in Invoice
      BY <2>2, <2>4, <2>6 DEF IInv, TypeOK
    <3>2. /\ DOMAIN charge' \subseteq OrderId /\ \A o \in DOMAIN charge' : charge'[o] \in Charge
      BY <2>5 DEF IInv, TypeOK
    <3> QED
      BY <1>0, <1>2, <2>8, <3>1, <3>2 DEF IInv, TypeOK
  <2>10. RowsKept
    BY <1>0, <2>1, <2>4, <2>5, <2>9 DEF RowsKept, TypeOK
  <2>11. ChargesConsistent'
    BY <2>5, <2>9, <2>10, ChargesKept
  <2>12. Billed(key)' = att
    BY <2>1, <2>2, <2>5 DEF Billed, IInv, ChargesConsistent
  <2>13. PICK sales \in SUBSET DOMAIN charge :
           /\ sales # {} /\ cron[i].bill.total = SumFunctionOnSet(Amounts, sales)
           /\ cron[i].bill.count = Cardinality(sales)
           /\ \/ sales \subseteq att
              \/ \E l \in DOMAIN invoice : Overlap(<<cron[i].bill.seller, cron[i].start>>, l)
    BY <2>3 DEF Listed, Total
  <2>14. /\ IsFiniteSet(att) /\ IsFiniteSet(sales) /\ Cardinality(att) = Cardinality(sales)
         /\ Cardinality(sales) # 0
    BY <1>2, <2>5, <2>13, SalesAreFinite, FS_EmptySet DEF CountMatches, IInv, att
  <2>15. att # {}
    BY <2>14, FS_EmptySet
  <2>16. (\A l \in DOMAIN invoice' \ {key} : ~ Overlap(key, l)) =>
           invoice'[key].total = SumFunctionOnSet(Amounts', att)
    <3> SUFFICES ASSUME \A l \in DOMAIN invoice' \ {key} : ~ Overlap(key, l)
                 PROVE  invoice'[key].total = SumFunctionOnSet(Amounts', att)
      OBVIOUS
    <3>1. sales \subseteq att
      BY <2>1, <2>4, <2>13
    <3>2. sales = att
      BY <2>14, <3>1, FS_Subset
    <3>3. SumFunctionOnSet(Amounts', sales) = SumFunctionOnSet(Amounts, sales)
      BY <2>10, TotalsKept DEF IInv
    <3> QED
      BY <2>4, <2>13, <3>2, <3>3 DEF row
  <2>17. InvoicesConsistent'
    <3>1. \A k \in DOMAIN invoice :
            /\ Billed(k)' # {}
            /\ (\A l \in DOMAIN invoice' \ {k} : ~ Overlap(k, l)) =>
                 invoice'[k].total = SumFunctionOnSet(Amounts', Billed(k)')
      BY <2>4, <2>5, <2>10, InvoicesKept
    <3> QED
      BY <2>4, <2>12, <2>15, <2>16, <3>1 DEF InvoicesConsistent, TotalIsExact, Total
  <2>18. Remembers(i)'
    <3>1. ASSUME v.step = "create", NEW b \in v.sellers
          PROVE  ListedAfter(b, cron[i].start, OpenAfter(b.seller, cron[i].start))
      <4>1. b \in cron[i].sellers /\ b.seller \in Seller /\ cron[i].start \in Days
        BY <2>1, <2>7, <3>1 DEF Cron, SellerTotal
      <4>2. Listed(b, cron[i].start, Uninvoiced(b.seller, cron[i].start))
        BY <1>0, <2>1, <4>1 DEF Remembers
      <4> QED
        BY <2>10, <4>1, <4>2, OpenKept, ListedKept DEF IInv
    <3> QED
      BY <2>7, <2>8, <3>1 DEF Remembers, InTransaction, ListedAfter, Listed, OpenAfter,
                              Uninvoiced, Total
  <2>19. ASSUME NEW j \in Instance \ {i} PROVE Remembers(j)'
    <3>1. Apart(i, j)
      BY DEF IInv
    <3>2. InTransaction(j) => BillKey(j) \notin DOMAIN invoice'
      BY <1>0, <1>3, <2>4, <3>1 DEF IInv, Remembers, Apart, InTransaction
    <3>3. cron[j].step = "commit" => \A o \in cron[j].attached : charge'[o].invoice = None
      BY <1>0, <2>5, <3>1 DEF IInv, Remembers, Uninvoiced, Apart, att
    <3> QED
      BY <2>8, <2>10, <2>19, <3>2, <3>3, RemembersKept
  <2>20. ASSUME NEW j \in Instance, NEW m \in Instance \ {j} PROVE Apart(j, m)'
    <3>1. Apart(j, m)
      BY DEF IInv
    <3> QED
      BY <2>7, <2>8, <3>1 DEF Apart, InTransaction, BillKey
  <2>21. nudge' = None \/ nudge' \in DOMAIN invoice'
    BY <1>0, <2>4 DEF IInv
  <2> QED
    BY <2>9, <2>11, <2>17, <2>18, <2>19, <2>20, <2>21 DEF IInv
<1> QED
  BY <1>3, <1>1, <1>2 DEF Commit

\* Writing one existing invoice, but for its total, keeps the rows.
LEMMA InvoiceWritten ==
  ASSUME IInv, UNCHANGED <<done, charge>>, NEW k \in DOMAIN invoice, NEW r \in Invoice,
         r.total = invoice[k].total, invoice' = [invoice EXCEPT ![k] = r]
  PROVE  /\ RowsKept /\ DOMAIN invoice' = DOMAIN invoice
         /\ \A m \in DOMAIN invoice : invoice'[m] \in Invoice /\ invoice'[m].total = invoice[m].total
BY DEF IInv, TypeOK, RowsKept

\* MarkInvoiceReminded writes the day.
LEMMA ReminderWritten ==
  ASSUME IInv, UNCHANGED <<done, charge>>, NEW k \in DOMAIN invoice, MarkInvoiceReminded(k)
  PROVE  /\ RowsKept /\ DOMAIN invoice' = DOMAIN invoice
         /\ \A m \in DOMAIN invoice : invoice'[m] \in Invoice /\ invoice'[m].total = invoice[m].total
<1> DEFINE r == [invoice[k] EXCEPT !.reminded = day]
<1>1. invoice[k] \in Invoice /\ day \in Nat
  BY DEF IInv, TypeOK
<1>2. r \in Invoice /\ r.total = invoice[k].total
  BY <1>1 DEF Invoice
<1>3. invoice' = [invoice EXCEPT ![k] = r]
  BY DEF MarkInvoiceReminded
<1> HIDE DEF r
<1> QED
  BY <1>2, <1>3, InvoiceWritten

\* MarkInvoicePaid and WaiveInvoice write the status.
LEMMA StatusWritten ==
  ASSUME IInv, UNCHANGED <<done, charge>>, NEW k, NEW status \in {"paid", "waived"},
         CloseUnpaid(k, status)
  PROVE  /\ RowsKept /\ DOMAIN invoice' = DOMAIN invoice
         /\ \A m \in DOMAIN invoice : invoice'[m] \in Invoice /\ invoice'[m].total = invoice[m].total
<1> DEFINE r == [invoice[k] EXCEPT !.status = status]
<1>1. k \in DOMAIN invoice /\ invoice[k] \in Invoice
  BY DEF IInv, TypeOK, CloseUnpaid
<1>2. r \in Invoice /\ r.total = invoice[k].total
  BY <1>1 DEF Invoice
<1>3. invoice' = [invoice EXCEPT ![k] = r]
  BY DEF CloseUnpaid
<1> HIDE DEF r
<1> QED
  BY <1>1, <1>2, <1>3, InvoiceWritten

\* SendPaymentReminders lists the invoices that are due.
LEMMA RemindListStep ==
  ASSUME IInv, NEW i \in Instance, RemindList(i)
  PROVE  IInv'
<1> DEFINE late == ListInvoicesNeedingReminder(day - RemindDays)
           w == [Start EXCEPT !.step = After(late, "send", "accrue"), !.late = late]
<1>1. late \subseteq DOMAIN invoice /\ late \subseteq Key
  BY DEF ListInvoicesNeedingReminder, IInv, TypeOK
<1>2. 0 \in Days
  BY ConstantsTyped DEF Days
<1> HIDE DEF late
<1>3. w \in Cron /\ Recalls(w)
  BY <1>1, <1>2 DEF Cron, CronStep, Start, After, Recalls
<1>4. cron' = [cron EXCEPT ![i] = w]
  BY DEF RemindList, late
<1>5. UNCHANGED <<day, setting, done, charge, invoice, nudge, changes>> /\ faults' \in Nat
  BY DEF RemindList, IInv, TypeOK
<1> HIDE DEF w
<1> QED
  BY <1>3, <1>4, <1>5, CronReads

\* One reminder goes out.
LEMMA RemindOneStep ==
  ASSUME IInv, NEW i \in Instance, RemindOne(i)
  PROVE  IInv'
<1>1. PICK k \in cron[i].late :
        /\ \/ MarkInvoiceReminded(k) /\ UNCHANGED faults
           \/ MayFail /\ Fail /\ UNCHANGED invoice
        /\ cron' = [cron EXCEPT ![i] = [Start EXCEPT
                      !.step = After(cron[i].late \ {k}, "send", "accrue"),
                      !.late = cron[i].late \ {k}]]
  BY DEF RemindOne
<1>2. cron[i].late \subseteq DOMAIN invoice /\ cron[i].late \subseteq Key
  BY DEF IInv, TypeOK, Remembers, Cron
<1> DEFINE rest == cron[i].late \ {k}
           w == [Start EXCEPT !.step = After(rest, "send", "accrue"), !.late = rest]
<1>3. w \in Cron /\ w.late = rest /\ w.step \in {"send", "accrue"}
  <2>1. 0 \in Days
    BY ConstantsTyped DEF Days
  <2> QED
    BY <1>2, <2>1 DEF Cron, CronStep, Start, After
<1>4. PICK v \in Cron : /\ cron' = [cron EXCEPT ![i] = v]
                        /\ v.step \in {"send", "accrue"} /\ v.late \subseteq DOMAIN invoice
  <2>1. cron' = [cron EXCEPT ![i] = w] /\ rest \subseteq DOMAIN invoice
    BY <1>1, <1>2
  <2> HIDE DEF w, rest
  <2> QED
    BY <1>3, <2>1
<1>5. UNCHANGED <<day, setting, done, charge, nudge, changes>> /\ faults' \in Nat
  <2>1. UNCHANGED faults \/ (MayFail /\ Fail)
    BY <1>1
  <2>2. UNCHANGED <<day, setting, done, charge, nudge, changes>>
    BY DEF RemindOne
  <2> QED
    BY <2>1, <2>2, Faults
<1>6. /\ RowsKept /\ DOMAIN invoice' = DOMAIN invoice
      /\ \A m \in DOMAIN invoice : invoice'[m] \in Invoice /\ invoice'[m].total = invoice[m].total
  <2>1. CASE MarkInvoiceReminded(k)
    BY <1>2, <1>5, <2>1, ReminderWritten
  <2>2. CASE UNCHANGED invoice
    BY <1>5, <2>2, SameRows DEF IInv, TypeOK
  <2> QED
    BY <1>1, <2>1, <2>2
<1>7. TypeOK'
  BY <1>4, <1>5, <1>6, CronSet DEF IInv, TypeOK
<1>8. Recalls(v)'
  BY <1>4, <1>6 DEF Recalls
<1> QED
  BY <1>4, <1>5, <1>6, <1>7, <1>8, CronWrites

\* A process dies.
LEMMA CrashStep ==
  ASSUME IInv, NEW i \in Instance, Crash(i)
  PROVE  IInv'
<1>1. Start \in Cron /\ Recalls(Start)
  <2>1. 0 \in Days
    BY ConstantsTyped DEF Days
  <2> QED
    BY <2>1 DEF Cron, CronStep, Start, Recalls
<1>2. cron' = [cron EXCEPT ![i] = Start]
  BY DEF Crash
<1>3. UNCHANGED <<day, setting, done, charge, invoice, nudge, changes>> /\ faults' \in Nat
  BY Faults DEF Crash
<1> QED
  BY <1>1, <1>2, <1>3, CronReads

-----------------------------------------------------------------------------
(* The steps of the others.                                                *)

\* A step that moves no process and creates neither charge nor invoice.
LEMMA OthersMove ==
  ASSUME IInv, TypeOK', RowsKept, UNCHANGED <<charge, cron>>,
         DOMAIN invoice' = DOMAIN invoice,
         \A k \in DOMAIN invoice : invoice'[k].total = invoice[k].total,
         nudge' \in {None, nudge} \cup DOMAIN invoice
  PROVE  IInv'
<1>1. ChargesConsistent'
  BY ChargesKept
<1>2. InvoicesConsistent'
  BY InvoicesKept DEF InvoicesConsistent, TotalIsExact, Total
<1>3. ASSUME NEW j \in Instance PROVE Remembers(j)'
  <2>1. InTransaction(j) => BillKey(j) \notin DOMAIN invoice'
    BY DEF IInv, Remembers
  <2>2. cron[j].step = "commit" => \A o \in cron[j].attached : charge'[o].invoice = None
    BY DEF IInv, Remembers, Uninvoiced
  <2> QED
    BY <2>1, <2>2, RemembersKept
<1>4. ASSUME NEW j \in Instance, NEW m \in Instance \ {j} PROVE Apart(j, m)'
  BY DEF IInv, Apart, InTransaction, BillKey
<1> QED
  BY <1>1, <1>2, <1>3, <1>4 DEF IInv

\* The administrator's reminder.
LEMMA RemindNowStep ==
  ASSUME IInv, RemindNowSend \/ \E k \in DOMAIN invoice : RemindNow(k)
  PROVE  IInv'
<1>1. CASE RemindNowSend
  <2>1. nudge \in DOMAIN invoice
    BY <1>1 DEF IInv, RemindNowSend
  <2>2. UNCHANGED <<day, setting, done, charge, cron, faults, changes>> /\ nudge' = None
    BY <1>1 DEF RemindNowSend
  <2>3. /\ RowsKept /\ DOMAIN invoice' = DOMAIN invoice
        /\ \A m \in DOMAIN invoice : invoice'[m] \in Invoice /\ invoice'[m].total = invoice[m].total
    BY <1>1, <2>1, <2>2, ReminderWritten DEF RemindNowSend
  <2>4. TypeOK'
    BY <2>2, <2>3 DEF IInv, TypeOK
  <2> QED
    BY <2>2, <2>3, <2>4, OthersMove
<1>2. CASE \E k \in DOMAIN invoice : RemindNow(k)
  <2>1. UNCHANGED <<day, setting, done, charge, invoice, cron, faults, changes>>
        /\ nudge' \in DOMAIN invoice
    BY <1>2 DEF RemindNow
  <2>2. TypeOK'
    BY <2>1 DEF IInv, TypeOK
  <2> QED
    BY <2>1, <2>2, SameRows, OthersMove
<1> QED
  BY <1>1, <1>2

\* An invoice is paid or waived.
LEMMA CloseStep ==
  ASSUME IInv, NEW k \in DOMAIN invoice, MarkPaid(k) \/ Waive(k)
  PROVE  IInv'
<1>1. UNCHANGED <<day, setting, done, charge, cron, nudge, faults, changes>>
  BY DEF MarkPaid, Waive
<1>2. PICK status \in {"paid", "waived"} : CloseUnpaid(k, status)
  BY DEF MarkPaid, Waive
<1>3. /\ RowsKept /\ DOMAIN invoice' = DOMAIN invoice
      /\ \A m \in DOMAIN invoice : invoice'[m] \in Invoice /\ invoice'[m].total = invoice[m].total
  BY <1>1, <1>2, StatusWritten
<1>4. TypeOK'
  BY <1>1, <1>3 DEF IInv, TypeOK
<1> QED
  BY <1>1, <1>3, <1>4, OthersMove

\* A setting changes, an order completes, or a day ends.
LEMMA WorldStep ==
  ASSUME IInv, \/ \E s \in [rate : Rates, close : Weekdays] : SetSetting(s)
               \/ \E o \in OrderId : OrderCompletes(o)
               \/ NextDay
  PROVE  IInv'
<1>1. UNCHANGED <<charge, invoice, cron, nudge, faults>>
  BY DEF SetSetting, OrderCompletes, NextDay
<1>2. /\ done' \in [OrderId -> Nat \cup {None}]
      /\ \A o \in OrderId : done[o] # None => done'[o] = done[o]
  BY DEF SetSetting, OrderCompletes, NextDay, IInv, TypeOK
<1>3. day' \in 0 .. Horizon /\ setting' \in [rate : Rates, close : Weekdays] /\ changes' \in Nat
  BY ConstantsTyped DEF SetSetting, OrderCompletes, NextDay, IInv, TypeOK
<1>4. TypeOK'
  BY <1>1, <1>2, <1>3 DEF IInv, TypeOK
<1>5. RowsKept
  BY <1>1, <1>2 DEF RowsKept, IInv, TypeOK
<1> QED
  BY <1>1, <1>4, <1>5, OthersMove

-----------------------------------------------------------------------------
(* The theorems.                                                           *)

\* The tables are empty at the start.
LEMMA InitIInv == Init => IInv
<1> SUFFICES ASSUME Init PROVE IInv
  OBVIOUS
<1>1. 0 \in Days /\ 0 \in 0 .. Horizon
  BY ConstantsTyped DEF Days
<1>2. Start \in Cron
  BY <1>1 DEF Start, Cron, CronStep
<1>3. DOMAIN charge = {} /\ DOMAIN invoice = {}
  BY DEF Init, NoRows
<1>4. TypeOK
  BY <1>1, <1>2, <1>3, ConstantsTyped DEF Init, TypeOK
<1>5. \A i \in Instance : Remembers(i) /\ \A j \in Instance : Apart(i, j)
  BY DEF Init, Start, Remembers, InTransaction, Apart
<1> QED
  BY <1>3, <1>4, <1>5 DEF Init, IInv, ChargesConsistent, InvoicesConsistent

\* Every step keeps the invariant.
LEMMA StepKeepsIInv == IInv /\ [Next]_vars => IInv'
<1> SUFFICES ASSUME IInv, [Next]_vars PROVE IInv'
  OBVIOUS
<1>1. ASSUME NEW i \in Instance, CronNext(i) PROVE IInv'
  BY <1>1, AccrueListStep, AccrueOneStep, IssueListStep, CreateStep, AttachStep, CommitStep,
     RemindListStep, RemindOneStep DEF CronNext
<1>2. CASE UNCHANGED vars
  <2>1. UNCHANGED <<day, setting, done, charge, invoice, cron, nudge, faults, changes>>
    BY <1>2 DEF vars
  <2>2. TypeOK'
    BY <2>1 DEF IInv, TypeOK
  <2> QED
    BY <2>1, <2>2, SameRows, OthersMove
<1> QED
  BY <1>1, <1>2, CrashStep, RemindNowStep, CloseStep, WorldStep DEF Next

\* IInv holds in every reachable state.
THEOREM Invariance == Spec => []IInv
BY InitIInv, StepKeepsIInv, PTL DEF Spec

\* Every invoice has the charges of its own seller and week, at least one, and,
\* unless another week of that seller overlaps its own, a total that is their sum:
\* listed before the transaction of issueOne and guarded by a count alone, while
\* another process accrues, issues, fails or dies (src/commission/service/service.go).
THEOREM InvoicesMatchCharges == Spec => []InvoiceMatchesCharges
<1>1. IInv => InvoiceMatchesCharges
  <2> SUFFICES ASSUME IInv, NEW k \in DOMAIN invoice
               PROVE  \A o \in Billed(k) :
                        SellerOf[o] = k[1] /\ k[2] <= done[o] /\ done[o] < k[2] + WeekLength
    BY DEF IInv, InvoiceMatchesCharges, InvoicesConsistent
  <2>1. k # None
    BY CommissionAssumption DEF IInv, TypeOK, Key, Days
  <2> QED
    BY <2>1 DEF IInv, ChargesConsistent, Billed
<1> QED
  BY <1>1, Invariance, PTL

-----------------------------------------------------------------------------
(* The pages.                                                              *)

\* No two weeks of one seller share a day.
WeeksApart == \A k \in DOMAIN invoice : \A l \in DOMAIN invoice \ {k} : ~ Overlap(k, l)

\* Invoices are finitely many and their totals are natural numbers.
LEMMA InvoicesAreFinite ==
  ASSUME TypeOK
  PROVE  \A K \in SUBSET DOMAIN invoice :
           /\ IsFiniteSet(K) /\ \A k \in K : Totals[k] \in Nat
           /\ InvoiceSum(K) \in Nat
<1> SUFFICES ASSUME NEW K \in SUBSET DOMAIN invoice
             PROVE  /\ IsFiniteSet(K) /\ \A k \in K : Totals[k] \in Nat
                    /\ InvoiceSum(K) \in Nat
  OBVIOUS
<1>1. IsFiniteSet(Days)
  <2>1. -WeekLength \in Int /\ Horizon \in Int
    BY ConstantsTyped
  <2> QED
    BY <2>1, FS_Interval DEF Days
<1>2. IsFiniteSet(Key)
  BY <1>1, CommissionAssumption, FS_Product DEF Key
<1>3. IsFiniteSet(K)
  BY <1>2, FS_Subset DEF TypeOK
<1>4. \A k \in K : Totals[k] \in Nat
  BY DEF Totals, TypeOK, Invoice
<1> QED
  BY <1>3, <1>4, SumNat DEF InvoiceSum

\* What the sellers owe makes up what all owe.
LEMMA OwedBySeller ==
  ASSUME TypeOK, NEW K \in SUBSET DOMAIN invoice, NEW S, IsFiniteSet(S),
         \A k \in K : k[1] \in S,
         NEW F, \A s \in S : F[s] = InvoiceSum(InvoicesOf(s) \cap K)
  PROVE  SumFunctionOnSet(F, S) = InvoiceSum(K)
<1> DEFINE G == [s \in S |-> InvoicesOf(s) \cap K]
<1>1. IsFiniteSet(K) /\ \A k \in K : Totals[k] \in Nat
  BY InvoicesAreFinite
<1>2. SplitInto(K, S, G)
  BY DEF InvoicesOf, SplitInto
<1>3. \A s \in S : F[s] = SumFunctionOnSet(Totals, G[s])
  BY DEF InvoiceSum
<1> HIDE DEF G
<1>4. SumFunctionOnSet(F, S) = SumFunctionOnSet(Totals, K)
  BY <1>1, <1>2, <1>3, SumGroups
<1> QED
  BY <1>4 DEF InvoiceSum

\* The worklist has a row for every seller it counts, and its rows sum to its totals.
LEMMA WorklistAddsUp ==
  ASSUME TypeOK, NEW overdueOnly \in BOOLEAN
  PROVE  LET page == ListBalances(overdueOnly) IN
         /\ Cardinality(DOMAIN page.sellers) = page.total
         /\ SumFunction(page.sellers)
              = IF overdueOnly THEN page.totals.overdue ELSE page.totals.outstanding
<1> DEFINE K == Owing(overdueOnly)
           S == {k[1] : k \in K}
           F == [s \in S |-> InvoiceSum(InvoicesOf(s) \cap K)]
<1>1. K \in SUBSET DOMAIN invoice /\ S \subseteq Seller
  BY DEF Owing, Having, TypeOK, Key
<1>2. IsFiniteSet(S)
  BY <1>1, CommissionAssumption, FS_Subset
<1>3. SumFunctionOnSet(F, S) = InvoiceSum(K)
  <2>1. \A s \in S : F[s] = InvoiceSum(InvoicesOf(s) \cap K)
    OBVIOUS
  <2>2. \A k \in K : k[1] \in S
    OBVIOUS
  <2> HIDE DEF K, S, F
  <2> QED
    BY <1>1, <1>2, <2>1, <2>2, OwedBySeller
<1>4. ListBalances(overdueOnly).sellers = F /\ DOMAIN F = S
  BY DEF ListBalances, ListSellerBalances
<1>5. ListBalances(overdueOnly).total = Cardinality(S)
  BY DEF ListBalances, CountSellerBalances
<1>6. /\ ListBalances(overdueOnly).totals.overdue = InvoiceSum(Owing(TRUE))
      /\ ListBalances(overdueOnly).totals.outstanding = InvoiceSum(Owing(FALSE))
  BY DEF ListBalances, GetCommissionTotals
<1> HIDE DEF S, F
<1> QED
  BY <1>3, <1>4, <1>5, <1>6 DEF SumFunction

\* Where no weeks overlap, the invoices make up the billed commission.
LEMMA InvoicesMakeUpBilled ==
  ASSUME IInv, WeeksApart
  PROVE  InvoiceSum(DOMAIN invoice) = Total({o \in DOMAIN charge : charge[o].invoice # None})
<1> DEFINE K == {o \in DOMAIN charge : charge[o].invoice # None}
           G == [k \in DOMAIN invoice |-> Billed(k)]
<1>1. IsFiniteSet(K) /\ \A o \in K : Amounts[o] \in Nat
  BY SalesAreFinite DEF IInv
<1>2. IsFiniteSet(DOMAIN invoice)
  BY InvoicesAreFinite DEF IInv
<1>3. SplitInto(K, DOMAIN invoice, G)
  <2>1. \A k \in DOMAIN invoice : k # None
    BY CommissionAssumption DEF IInv, TypeOK, Key, Days
  <2> QED
    BY <2>1 DEF SplitInto, Billed, IInv, ChargesConsistent
<1>4. \A k \in DOMAIN invoice : Totals[k] = SumFunctionOnSet(Amounts, G[k])
  BY DEF IInv, InvoicesConsistent, WeeksApart, TotalIsExact, Total, Totals
<1> HIDE DEF K, G
<1>5. SumFunctionOnSet(Totals, DOMAIN invoice) = SumFunctionOnSet(Amounts, K)
  BY <1>1, <1>2, <1>3, <1>4, SumGroups
<1> QED
  BY <1>5 DEF InvoiceSum, Total, K

\* What accrues for each seller makes up the open commission.
LEMMA AccruingBySeller ==
  ASSUME TypeOK, NEW F,
         \A s \in Seller : F[s] = Total({o \in ListChargesBySeller(s) : charge[o].invoice = None})
  PROVE  SumFunctionOnSet(F, Seller) = Total({o \in DOMAIN charge : charge[o].invoice = None})
<1> DEFINE K == {o \in DOMAIN charge : charge[o].invoice = None}
           G == [s \in Seller |-> {o \in ListChargesBySeller(s) : charge[o].invoice = None}]
<1>1. IsFiniteSet(K) /\ \A o \in K : Amounts[o] \in Nat
  BY SalesAreFinite
<1>2. IsFiniteSet(Seller)
  BY CommissionAssumption
<1>3. SplitInto(K, Seller, G)
  BY ConstantsTyped DEF SplitInto, ListChargesBySeller, TypeOK
<1>4. \A s \in Seller : F[s] = SumFunctionOnSet(Amounts, G[s])
  BY DEF Total
<1> HIDE DEF K, G
<1>5. SumFunctionOnSet(F, Seller) = SumFunctionOnSet(Amounts, K)
  BY <1>1, <1>2, <1>3, <1>4, SumGroups
<1> QED
  BY <1>5 DEF Total, K

\* The whole account: owed, accruing and settled make up what was charged.
LEMMA AccountsAddUp ==
  ASSUME IInv, WeeksApart
  PROVE  SumFunction([s \in Seller |-> GetSellerDetail(s).outstanding
                                         + GetSellerCommissionSummary(s).accruing])
           + InvoiceSum(ListInvoiceHistory("settled").invoices)
           = Total(DOMAIN charge)
<1> DEFINE owed(s)  == InvoiceSum(InvoicesOf(s) \cap Owing(FALSE))
           accr(s)  == Total({o \in ListChargesBySeller(s) : charge[o].invoice = None})
           F == [s \in Seller |-> owed(s)]
           E == [s \in Seller |-> accr(s)]
           H == [s \in Seller |-> GetSellerDetail(s).outstanding
                                    + GetSellerCommissionSummary(s).accruing]
           settled == Having("paid") \cup Having("waived")
           open == {o \in DOMAIN charge : charge[o].invoice = None}
           billed == {o \in DOMAIN charge : charge[o].invoice # None}
<1>1. \A s \in Seller : F[s] \in Nat /\ E[s] \in Nat
  <2> SUFFICES ASSUME NEW s \in Seller PROVE owed(s) \in Nat /\ accr(s) \in Nat
    OBVIOUS
  <2>1. InvoicesOf(s) \cap Owing(FALSE) \in SUBSET DOMAIN invoice
    BY DEF InvoicesOf
  <2>2. {o \in ListChargesBySeller(s) : charge[o].invoice = None} \in SUBSET DOMAIN charge
    BY DEF ListChargesBySeller
  <2> QED
    BY <2>1, <2>2, SalesAreFinite, InvoicesAreFinite DEF IInv
<1>2. H = [s \in Seller |-> F[s] + E[s]]
  BY DEF GetSellerDetail, GetSellerCommissionSummary
<1>3. SumFunctionOnSet(H, Seller) = SumFunctionOnSet(F, Seller) + SumFunctionOnSet(E, Seller)
  <2>1. \A s \in Seller : F[s] \in Nat /\ E[s] \in Nat /\ H[s] = F[s] + E[s]
    BY <1>1, <1>2
  <2>2. IsFiniteSet(Seller)
    BY CommissionAssumption
  <2> HIDE DEF F, E, H
  <2> QED
    BY <2>1, <2>2, SumPlus
<1>4. SumFunctionOnSet(F, Seller) = InvoiceSum(Owing(FALSE))
  <2>1. Owing(FALSE) \in SUBSET DOMAIN invoice /\ \A k \in Owing(FALSE) : k[1] \in Seller
    BY DEF Owing, Having, IInv, TypeOK, Key
  <2>2. \A s \in Seller : F[s] = InvoiceSum(InvoicesOf(s) \cap Owing(FALSE))
    OBVIOUS
  <2>3. IsFiniteSet(Seller) /\ TypeOK
    BY CommissionAssumption DEF IInv
  <2> HIDE DEF F
  <2> QED
    BY <2>1, <2>2, <2>3, OwedBySeller
<1>5. SumFunctionOnSet(E, Seller) = Total(open)
  <2>1. \A s \in Seller :
          E[s] = Total({o \in ListChargesBySeller(s) : charge[o].invoice = None})
    OBVIOUS
  <2> HIDE DEF E
  <2> QED
    BY <2>1, AccruingBySeller DEF IInv
<1>6. InvoiceSum(DOMAIN invoice) = InvoiceSum(Owing(FALSE)) + InvoiceSum(settled)
  <2>1. /\ DOMAIN invoice = Owing(FALSE) \cup settled /\ Owing(FALSE) \cap settled = {}
        /\ Owing(FALSE) \in SUBSET DOMAIN invoice /\ settled \in SUBSET DOMAIN invoice
    BY DEF Owing, Having, IInv, TypeOK, Invoice
  <2>2. /\ IsFiniteSet(Owing(FALSE)) /\ IsFiniteSet(settled)
        /\ \A k \in Owing(FALSE) \cup settled : Totals[k] \in Nat
    BY <2>1, InvoicesAreFinite DEF IInv
  <2> HIDE DEF settled
  <2>3. SumFunctionOnSet(Totals, Owing(FALSE) \cup settled)
          = SumFunctionOnSet(Totals, Owing(FALSE)) + SumFunctionOnSet(Totals, settled)
    BY <2>1, <2>2, SumUnion
  <2> QED
    BY <2>1, <2>3 DEF InvoiceSum
<1>7. Total(DOMAIN charge) = Total(billed) + Total(open)
  <2>1. DOMAIN charge = billed \cup open /\ billed \cap open = {}
    OBVIOUS
  <2>2. /\ IsFiniteSet(billed) /\ IsFiniteSet(open)
        /\ \A o \in billed \cup open : Amounts[o] \in Nat
    BY SalesAreFinite DEF IInv
  <2> HIDE DEF billed, open
  <2>3. SumFunctionOnSet(Amounts, billed \cup open)
          = SumFunctionOnSet(Amounts, billed) + SumFunctionOnSet(Amounts, open)
    BY <2>1, <2>2, SumUnion
  <2> QED
    BY <2>1, <2>3 DEF Total
<1>8. InvoiceSum(DOMAIN invoice) = Total(billed)
  BY InvoicesMakeUpBilled
<1>9. /\ InvoiceSum(Owing(FALSE)) \in Nat /\ InvoiceSum(settled) \in Nat
      /\ Total(open) \in Nat /\ Total(billed) \in Nat
  <2>1. Owing(FALSE) \in SUBSET DOMAIN invoice /\ settled \in SUBSET DOMAIN invoice
    BY DEF Owing, Having
  <2>2. open \in SUBSET DOMAIN charge /\ billed \in SUBSET DOMAIN charge
    OBVIOUS
  <2> QED
    BY <2>1, <2>2, SalesAreFinite, InvoicesAreFinite DEF IInv
<1>10. ListInvoiceHistory("settled").invoices = settled
  BY DEF ListInvoiceHistory, ListInvoicesForAdmin
<1>11. SumFunction(H) = SumFunctionOnSet(H, Seller)
  BY DEF SumFunction
<1> HIDE DEF F, E, H, settled, open, billed
<1>12. SumFunction(H) + InvoiceSum(settled) = Total(DOMAIN charge)
  <2>1. SumFunction(H) = InvoiceSum(Owing(FALSE)) + Total(open)
    BY <1>3, <1>4, <1>5, <1>11
  <2>2. InvoiceSum(Owing(FALSE)) + InvoiceSum(settled) = Total(billed)
    BY <1>6, <1>8
  <2>3. \A a, b, c \in Nat : (a + b) + c = (a + c) + b
    OBVIOUS
  <2>4. (InvoiceSum(Owing(FALSE)) + Total(open)) + InvoiceSum(settled)
          = (InvoiceSum(Owing(FALSE)) + InvoiceSum(settled)) + Total(open)
    BY <1>9, <2>3
  <2> QED
    BY <1>7, <2>1, <2>2, <2>4
<1> QED
  BY <1>10, <1>12 DEF H

\* A charge that an administrator is shown as billed is on an invoice of the page.
LEMMA DetailIsComplete ==
  ASSUME IInv
  PROVE  \A s \in Seller : \A o \in GetSellerDetail(s).charges :
           charge[o].invoice # None => charge[o].invoice \in GetSellerDetail(s).invoices
BY DEF GetSellerDetail, InvoicesOf, ListChargesBySeller, IInv, ChargesConsistent

\* All of it.
LEMMA PagesOfTables ==
  ASSUME IInv, WeeksApart
  PROVE  PagesAddUp
<1>1. \A overdueOnly \in BOOLEAN :
        LET page == ListBalances(overdueOnly) IN
        /\ Cardinality(DOMAIN page.sellers) = page.total
        /\ SumFunction(page.sellers)
             = IF overdueOnly THEN page.totals.overdue ELSE page.totals.outstanding
  BY WorklistAddsUp DEF IInv
<1> QED
  BY <1>1, AccountsAddUp, DetailIsComplete DEF PagesAddUp

\* The pages add up wherever no two weeks of a seller overlap.
THEOREM PagesAddUpWithoutOverlap == Spec => [](WeeksApart => PagesAddUp)
<1>1. IInv => (WeeksApart => PagesAddUp)
  BY PagesOfTables
<1> QED
  BY <1>1, Invariance, PTL

-----------------------------------------------------------------------------
(* Weeks overlap only if the closing weekday changes.                      *)

OneClosingDay == \A c, d \in Weekdays : c = d

\* A whole number of weeks from the closing weekday.
OnGrid(d) == \E n \in Int : d = Defaults.close + n * WeekLength

\* Weeks of an invoice, and of one that is being issued, start on the weekday.
Aligned ==
  /\ \A k \in DOMAIN invoice : OnGrid(k[2])
  /\ \A i \in Instance :
       cron[i].step \in {"create", "attach", "commit"} => OnGrid(cron[i].start)

\* A week is not shorter than itself.
LEMMA WeekApart ==
  ASSUME NEW n \in Int, NEW m \in Int, NEW w \in Int, w > 0, n > m
  PROVE  n * w >= m * w + w
<1>1. \A a, b \in Int : a >= 1 /\ b > 0 => a * b >= b
  BY SMTT(20)
<1>2. (n - m) * w >= w
  BY <1>1
<1>3. (n - m) * w = n * w - m * w
  BY SMT
<1> QED
  BY <1>2, <1>3

\* Days of the grid less than a week apart are the same.
LEMMA GridIsWide ==
  ASSUME NEW d, NEW e, OnGrid(d), OnGrid(e), d < e + WeekLength, e < d + WeekLength
  PROVE  d = e
<1>1. PICK n \in Int : d = Defaults.close + n * WeekLength
  BY DEF OnGrid
<1>2. PICK m \in Int : e = Defaults.close + m * WeekLength
  BY DEF OnGrid
<1>3. WeekLength \in Int /\ WeekLength > 0 /\ Defaults.close \in Int
  BY ConstantsTyped
<1>4. n * WeekLength \in Int /\ m * WeekLength \in Int
  BY <1>3
<1>5. ~ (n > m)
  <2> SUFFICES ASSUME n > m PROVE FALSE
    OBVIOUS
  <2>1. n * WeekLength >= m * WeekLength + WeekLength
    BY <1>3, WeekApart
  <2> QED
    BY <1>1, <1>2, <1>3, <1>4, <2>1
<1>6. ~ (m > n)
  <2> SUFFICES ASSUME m > n PROVE FALSE
    OBVIOUS
  <2>1. m * WeekLength >= n * WeekLength + WeekLength
    BY <1>3, WeekApart
  <2> QED
    BY <1>1, <1>2, <1>3, <1>4, <2>1
<1> QED
  BY <1>1, <1>2, <1>5, <1>6

\* The week that closes today started on the grid.
LEMMA ClosingDayOnGrid ==
  ASSUME OneClosingDay, TypeOK, ClosesToday
  PROVE  OnGrid(day - WeekLength)
<1>1. day \in Nat /\ WeekLength \in Nat /\ WeekLength > 0 /\ Defaults.close \in Nat
  BY ConstantsTyped DEF TypeOK
<1>2. day % WeekLength = Defaults.close
  BY ConstantsTyped DEF OneClosingDay, TypeOK, ClosesToday
<1>3. \A a, w \in Nat : w > 0 => a = w * (a \div w) + (a % w) /\ a \div w \in Nat
  BY SMTT(20)
<1> DEFINE q == day \div WeekLength
<1>4. q \in Nat /\ day = WeekLength * q + Defaults.close
  BY <1>1, <1>2, <1>3
<1> HIDE DEF q
<1>5. (q - 1) * WeekLength = WeekLength * q - WeekLength
  BY <1>1, <1>4, SMT
<1>6. day - WeekLength = Defaults.close + (q - 1) * WeekLength
  BY <1>1, <1>4, <1>5
<1> QED
  BY <1>4, <1>6 DEF OnGrid

\* Every step keeps the weeks on the grid.
LEMMA StepKeepsAligned ==
  ASSUME OneClosingDay, IInv, Aligned, [Next]_vars
  PROVE  Aligned'
<1> DEFINE Issuing == {"create", "attach", "commit"}
<1>1. ASSUME UNCHANGED cron, DOMAIN invoice' = DOMAIN invoice PROVE Aligned'
  BY <1>1 DEF Aligned
<1>2. ASSUME NEW i \in Instance, NEW v, cron' = [cron EXCEPT ![i] = v],
             DOMAIN invoice' = DOMAIN invoice, v.step \in Issuing => OnGrid(v.start)
      PROVE  Aligned'
  BY <1>2 DEF Aligned, IInv, TypeOK
<1>3. ASSUME NEW i \in Instance, Pass(i, cron[i].bill), Commit(i) PROVE Aligned'
  <2>1. PICK v \in Cron : /\ cron' = [cron EXCEPT ![i] = v]
                          /\ v.step \in {"create", "remind"}
                          /\ v.step = "create" => v.start = cron[i].start
    BY <1>3, Passed
  <2>2. OnGrid(cron[i].start)
    BY <1>3 DEF Commit, Aligned
  <2>3. \A k \in DOMAIN invoice' : OnGrid(k[2])
    BY <1>3, <2>2 DEF Commit, Insert, BillKey, Aligned
  <2> QED
    BY <2>1, <2>2, <2>3 DEF Aligned, IInv, TypeOK
<1>4. ASSUME NEW i \in Instance, CronNext(i) PROVE Aligned'
  <2>1. cron[i] \in Cron /\ cron \in [Instance -> Cron]
    BY DEF IInv, TypeOK
  <2>2. CASE AccrueList(i) \/ AccrueOne(i)
    <3>1. cron'[i].step \notin Issuing /\ \A j \in Instance \ {i} : cron'[j] = cron[j]
      <4>1. CASE AccrueList(i)
        <5> DEFINE w(f, r) == [cron[i] EXCEPT !.step = After(f, "charge", "issue"),
                                              !.orders = f, !.rate = r]
                   found == ListCompletedOrdersWithoutCharge
                   n == [cron[i] EXCEPT !.step = "issue"]
        <5>1. \A f, r : w(f, r).step \notin Issuing
          BY <2>1 DEF Cron, After
        <5>2. n.step \notin Issuing
          BY <2>1 DEF Cron
        <5>3. \/ cron' = [cron EXCEPT ![i] = w(found, IF found = {} THEN 0 ELSE setting.rate)]
              \/ cron' = [cron EXCEPT ![i] = n]
          BY <2>1, <4>1 DEF AccrueList
        <5> HIDE DEF w, n, found
        <5> QED
          BY <2>1, <5>1, <5>2, <5>3
      <4>2. CASE AccrueOne(i)
        <5> DEFINE w(o) == [cron[i] EXCEPT !.orders = @ \ {o},
                              !.step = After(cron[i].orders \ {o}, "charge", "issue"),
                              !.rate = After(cron[i].orders \ {o}, @, 0)]
        <5>1. \A o : w(o).step \notin Issuing
          BY <2>1 DEF Cron, After
        <5>2. PICK o : cron' = [cron EXCEPT ![i] = w(o)]
          BY <2>1, <4>2 DEF AccrueOne
        <5> HIDE DEF w
        <5> QED
          BY <2>1, <5>1, <5>2
      <4> QED
        BY <2>2, <4>1, <4>2
    <3>2. invoice' = invoice
      BY <2>2 DEF AccrueList, AccrueOne
    <3> QED
      BY <3>1, <3>2 DEF Aligned
  <2>3. CASE IssueList(i)
    <3>1. /\ cron'[i].step \in Issuing => ClosesToday /\ cron'[i].start = day - WeekLength
          /\ \A j \in Instance \ {i} : cron'[j] = cron[j]
          /\ invoice' = invoice
      BY <2>1, <2>3 DEF IssueList, Cron
    <3> QED
      BY <3>1, ClosingDayOnGrid DEF Aligned, IInv
  <2>4. CASE CreateCommissionInvoice(i)
    <3>1. invoice' = invoice /\ OnGrid(cron[i].start)
      BY <2>4 DEF CreateCommissionInvoice, Aligned
    <3>2. PICK b \in cron[i].sellers :
            Pass(i, b) \/ cron' = [cron EXCEPT ![i].step = "attach", ![i].bill = b]
      BY <2>4 DEF CreateCommissionInvoice
    <3>3. CASE Pass(i, b)
      <4>1. PICK v \in Cron : /\ cron' = [cron EXCEPT ![i] = v]
                              /\ v.step \in {"create", "remind"}
                              /\ v.step = "create" => v.start = cron[i].start
        BY <3>3, Passed
      <4> QED
        BY <1>2, <3>1, <4>1
    <3>4. CASE cron' = [cron EXCEPT ![i].step = "attach", ![i].bill = b]
      <4>1. cron'[i].start = cron[i].start /\ \A j \in Instance \ {i} : cron'[j] = cron[j]
        BY <2>1, <3>4 DEF Cron
      <4> QED
        BY <3>1, <4>1 DEF Aligned
    <3> QED
      BY <3>2, <3>3, <3>4
  <2>5. CASE AttachChargesToInvoice(i)
    <3>1. /\ cron'[i].start = cron[i].start /\ \A j \in Instance \ {i} : cron'[j] = cron[j]
          /\ invoice' = invoice /\ OnGrid(cron[i].start)
      BY <2>1, <2>5 DEF AttachChargesToInvoice, Cron, Aligned
    <3> QED
      BY <3>1 DEF Aligned
  <2>6. CASE Commit(i)
    BY <1>3, <2>6 DEF Commit
  <2>7. CASE RemindList(i)
    <3>1. cron'[i].step \notin Issuing /\ \A j \in Instance \ {i} : cron'[j] = cron[j]
      BY <2>1, <2>7 DEF RemindList, Start, After
    <3>2. invoice' = invoice
      BY <2>7 DEF RemindList
    <3> QED
      BY <3>1, <3>2 DEF Aligned
  <2>8. CASE RemindOne(i)
    <3>1. cron'[i].step \notin Issuing /\ \A j \in Instance \ {i} : cron'[j] = cron[j]
      BY <2>1, <2>8 DEF RemindOne, Start, After
    <3>2. DOMAIN invoice' = DOMAIN invoice
      BY <2>8 DEF RemindOne, MarkInvoiceReminded
    <3> QED
      BY <3>1, <3>2 DEF Aligned
  <2> QED
    BY <1>4, <2>2, <2>3, <2>4, <2>5, <2>6, <2>7, <2>8 DEF CronNext
<1>5. ASSUME NEW i \in Instance, Crash(i) PROVE Aligned'
  BY <1>2, <1>5 DEF Crash, Start
<1>6. ASSUME NEW k \in DOMAIN invoice, RemindNow(k) \/ MarkPaid(k) \/ Waive(k) PROVE Aligned'
  BY <1>1, <1>6 DEF RemindNow, MarkPaid, Waive, CloseUnpaid
<1>7. CASE RemindNowSend
  BY <1>1, <1>7 DEF RemindNowSend, MarkInvoiceReminded
<1>8. CASE \/ \E s \in [rate : Rates, close : Weekdays] : SetSetting(s)
           \/ \E o \in OrderId : OrderCompletes(o)
           \/ NextDay
  BY <1>1, <1>8 DEF SetSetting, OrderCompletes, NextDay
<1>9. CASE UNCHANGED vars
  BY <1>1, <1>9 DEF vars
<1> QED
  BY <1>4, <1>5, <1>6, <1>7, <1>8, <1>9 DEF Next

\* While the closing weekday never changes, the pages add up: no sale is lost or
\* counted twice between what sellers owe, what accrues and what was settled
\* (ListBalances, GetSellerDetail and ListInvoiceHistory).
THEOREM PagesAlwaysAddUp ==
  ASSUME OneClosingDay
  PROVE  Spec => []PagesAddUp
<1>1. Init => Aligned
  BY DEF Init, Aligned, NoRows, Start
<1>2. IInv /\ Aligned /\ [Next]_vars => Aligned'
  BY StepKeepsAligned
<1>3. IInv /\ Aligned => PagesAddUp
  <2>1. IInv /\ Aligned => WeeksApart
    <3> SUFFICES ASSUME IInv, Aligned, NEW k \in DOMAIN invoice, NEW l \in DOMAIN invoice,
                        Overlap(k, l)
                 PROVE  k = l
      BY DEF WeeksApart
    <3>1. OnGrid(k[2]) /\ OnGrid(l[2]) /\ k \in Key /\ l \in Key
      BY DEF Aligned, IInv, TypeOK
    <3>2. k[2] = l[2] /\ k[1] = l[1]
      BY <3>1, GridIsWide DEF Overlap
    <3> QED
      BY <3>1, <3>2 DEF Key
  <2> QED
    BY <2>1, PagesOfTables
<1> QED
  BY <1>1, <1>2, <1>3, Invariance, PTL DEF Spec

-----------------------------------------------------------------------------
(* The ledger.                                                             *)

Account == [o \in OrderId |-> AccountOf(o)]

\* Where the account of some sales moves and all others stay.
LEMMA SalesMove ==
  ASSUME NEW S \in SUBSET OrderId, S # {}, NEW from, NEW to,
         \A o \in S : AccountOf(o) = from /\ AccountOf(o)' = to,
         \A o \in OrderId \ S : AccountOf(o)' = AccountOf(o)
  PROVE  Ledger!Move(S, from, to)
BY DEF Ledger!Move

\* A step that writes no status and moves no charge leaves every account.
LEMMA AccountsStay ==
  ASSUME IInv, UNCHANGED charge, DOMAIN invoice' = DOMAIN invoice,
         \A k \in DOMAIN invoice : invoice'[k].status = invoice[k].status
  PROVE  UNCHANGED [o \in OrderId |-> AccountOf(o)]
<1>1. \A o \in OrderId : AccountOf(o)' = AccountOf(o)
  BY DEF IInv, ChargesConsistent, AccountOf
<1> QED
  BY <1>1

\* A reminder is no change of status.
LEMMA RemindersKeepStatus ==
  ASSUME IInv, NEW k \in DOMAIN invoice, MarkInvoiceReminded(k)
  PROVE  /\ DOMAIN invoice' = DOMAIN invoice
         /\ \A m \in DOMAIN invoice : invoice'[m].status = invoice[m].status
BY DEF IInv, TypeOK, MarkInvoiceReminded, Invoice

\* A charge is written for a sale that had none.
LEMMA AccrueInLedger ==
  ASSUME IInv, NEW i \in Instance, AccrueOne(i)
  PROVE  [Ledger!Next]_(Account)
<1>1. PICK o \in cron[i].orders :
        CreateCommissionCharge(o, cron[i].rate) \/ UNCHANGED charge
  BY DEF AccrueOne
<1>2. o \in OrderId /\ invoice' = invoice
  BY DEF IInv, TypeOK, Cron, AccrueOne
<1>3. CASE UNCHANGED charge
  BY <1>2, <1>3, AccountsStay DEF Account
<1>4. CASE o \notin DOMAIN charge /\ CreateCommissionCharge(o, cron[i].rate)
  <2>1. /\ DOMAIN charge' = DOMAIN charge \cup {o} /\ charge'[o].invoice = None
        /\ \A q \in DOMAIN charge : charge'[q] = charge[q]
    BY <1>4 DEF CreateCommissionCharge, Insert
  <2>2. AccountOf(o) = "open" /\ AccountOf(o)' = "charged"
    BY <1>4, <2>1 DEF AccountOf
  <2>3. \A q \in OrderId \ {o} : AccountOf(q)' = AccountOf(q)
    BY <1>2, <2>1 DEF AccountOf
  <2>4. Ledger!Move({o}, "open", "charged")
    BY <1>2, <2>2, <2>3, SalesMove
  <2> QED
    BY <1>2, <2>4 DEF Ledger!Next
<1>5. CASE o \in DOMAIN charge /\ CreateCommissionCharge(o, cron[i].rate)
  BY <1>2, <1>5, AccountsStay DEF CreateCommissionCharge, Account
<1> QED
  BY <1>1, <1>3, <1>4, <1>5

\* The charges of one invoice are billed together.
LEMMA CommitInLedger ==
  ASSUME IInv, NEW i \in Instance, Commit(i)
  PROVE  [Ledger!Next]_(Account)
<1>1. CASE UNCHANGED <<invoice, charge>>
  BY <1>1, AccountsStay DEF Account
<1>2. CASE /\ CountMatches(i)
           /\ invoice' = Insert(invoice, BillKey(i),
                                [status |-> "unpaid", total |-> cron[i].bill.total,
                                 due |-> cron[i].due, reminded |-> None])
           /\ charge' = [o \in DOMAIN charge |->
                           IF o \in cron[i].attached
                             THEN [charge[o] EXCEPT !.invoice = BillKey(i)] ELSE charge[o]]
  <2>1. PICK key : key = BillKey(i)
    OBVIOUS
  <2>2. PICK S : S = cron[i].attached
    OBVIOUS
  <2>3. /\ cron[i].step = "commit" /\ cron[i] \in Cron /\ Remembers(i)
        /\ key = <<cron[i].bill.seller, cron[i].start>> /\ key \notin DOMAIN invoice
        /\ cron[i].bill \in SellerTotal
    BY <2>1 DEF Commit, IInv, TypeOK, Remembers, InTransaction, BillKey, Cron
  <2>4. key # None
    BY <2>3, CommissionAssumption DEF Cron, Days, SellerTotal
  <2>5. S \in SUBSET DOMAIN charge /\ \A o \in S : charge[o].invoice = None
    BY <2>2, <2>3 DEF Remembers, Uninvoiced
  <2>6. S # {}
    <3>1. PICK sales \in SUBSET DOMAIN charge :
            sales # {} /\ cron[i].bill.count = Cardinality(sales)
      BY <2>3 DEF Remembers, Listed
    <3>2. IsFiniteSet(sales) /\ Cardinality(sales) # 0
      BY <3>1, SalesAreFinite, FS_EmptySet DEF IInv
    <3> QED
      BY <1>2, <2>2, <3>1, <3>2, FS_EmptySet DEF CountMatches
  <2>7. /\ DOMAIN charge' = DOMAIN charge
        /\ \A o \in S : charge'[o].invoice = key
        /\ \A o \in DOMAIN charge \ S : charge'[o] = charge[o]
    BY <1>2, <2>1, <2>2, <2>5 DEF IInv, TypeOK, Charge
  <2>8. /\ DOMAIN invoice' = DOMAIN invoice \cup {key} /\ invoice'[key].status = "unpaid"
        /\ \A k \in DOMAIN invoice : invoice'[k] = invoice[k]
    BY <1>2, <2>1, <2>3 DEF Insert
  <2>9. \A o \in S : AccountOf(o) = "charged" /\ AccountOf(o)' = "billed"
    BY <2>4, <2>5, <2>7, <2>8 DEF AccountOf
  <2>10. \A o \in OrderId \ S : AccountOf(o)' = AccountOf(o)
    BY <2>7, <2>8 DEF AccountOf, IInv, ChargesConsistent
  <2>11. S \in SUBSET OrderId
    BY <2>5 DEF IInv, TypeOK
  <2>12. Ledger!Move(S, "charged", "billed")
    BY <2>6, <2>9, <2>10, <2>11, SalesMove
  <2> QED
    BY <2>11, <2>12 DEF Ledger!Next
<1> QED
  BY <1>1, <1>2 DEF Commit

\* And they are settled together.
LEMMA CloseInLedger ==
  ASSUME IInv, NEW k \in DOMAIN invoice, NEW status \in {"paid", "waived"},
         CloseUnpaid(k, status), UNCHANGED charge
  PROVE  [Ledger!Next]_(Account)
<1>1. PICK S : S = Billed(k)
  OBVIOUS
<1>2. k # None
  BY CommissionAssumption DEF IInv, TypeOK, Key, Days
<1>3. S \in SUBSET DOMAIN charge /\ S \in SUBSET OrderId /\ S # {}
  BY <1>1 DEF Billed, IInv, TypeOK, InvoicesConsistent
<1>4. /\ DOMAIN invoice' = DOMAIN invoice /\ invoice[k].status = "unpaid"
      /\ invoice'[k].status = status /\ \A l \in DOMAIN invoice \ {k} : invoice'[l] = invoice[l]
  BY DEF CloseUnpaid, IInv, TypeOK, Invoice
<1>5. \A o \in S : AccountOf(o) = "billed" /\ AccountOf(o)' = status
  BY <1>1, <1>2, <1>4 DEF AccountOf, Billed
<1>6. \A o \in OrderId \ S : AccountOf(o)' = AccountOf(o)
  BY <1>1, <1>4 DEF AccountOf, Billed, IInv, ChargesConsistent
<1>7. Ledger!Move(S, "billed", status)
  BY <1>3, <1>5, <1>6, SalesMove
<1> QED
  BY <1>3, <1>7 DEF Ledger!Next

\* Every step is a step of the ledger, or none of its business.
LEMMA StepsAreLedgerSteps ==
  ASSUME IInv, [Next]_vars
  PROVE  [Ledger!Next]_(Account)
<1>1. ASSUME UNCHANGED <<charge, invoice>> PROVE [Ledger!Next]_(Account)
  BY <1>1, AccountsStay DEF Account
<1>2. ASSUME NEW k \in DOMAIN invoice, MarkInvoiceReminded(k), UNCHANGED charge
      PROVE  [Ledger!Next]_(Account)
  BY <1>2, RemindersKeepStatus, AccountsStay DEF Account
<1>3. ASSUME NEW i \in Instance, CronNext(i) PROVE [Ledger!Next]_(Account)
  <2>1. CASE RemindOne(i)
    <3>1. PICK k \in cron[i].late : MarkInvoiceReminded(k) \/ UNCHANGED invoice
      BY <2>1 DEF RemindOne
    <3>2. k \in DOMAIN invoice /\ UNCHANGED charge
      BY <2>1 DEF IInv, Remembers, RemindOne
    <3> QED
      BY <1>1, <1>2, <3>1, <3>2
  <2>2. CASE \/ AccrueList(i) \/ IssueList(i) \/ CreateCommissionInvoice(i)
             \/ AttachChargesToInvoice(i) \/ RemindList(i)
    <3>1. UNCHANGED <<charge, invoice>>
      BY <2>2 DEF AccrueList, IssueList, CreateCommissionInvoice, AttachChargesToInvoice,
                  RemindList
    <3> QED
      BY <1>1, <3>1
  <2> QED
    BY <1>3, <2>1, <2>2, AccrueInLedger, CommitInLedger DEF CronNext
<1>4. ASSUME NEW i \in Instance, Crash(i) PROVE [Ledger!Next]_(Account)
  BY <1>1, <1>4 DEF Crash
<1>5. ASSUME NEW k \in DOMAIN invoice, RemindNow(k) PROVE [Ledger!Next]_(Account)
  BY <1>1, <1>5 DEF RemindNow
<1>6. ASSUME NEW k \in DOMAIN invoice, MarkPaid(k) \/ Waive(k) PROVE [Ledger!Next]_(Account)
  BY <1>6, CloseInLedger DEF MarkPaid, Waive
<1>7. CASE RemindNowSend
  <2>1. nudge \in DOMAIN invoice /\ MarkInvoiceReminded(nudge) /\ UNCHANGED charge
    BY <1>7 DEF RemindNowSend, IInv
  <2> QED
    BY <1>2, <2>1
<1>8. CASE \/ \E s \in [rate : Rates, close : Weekdays] : SetSetting(s)
           \/ \E o \in OrderId : OrderCompletes(o)
           \/ NextDay \/ UNCHANGED vars
  BY <1>1, <1>8 DEF SetSetting, OrderCompletes, NextDay, vars
<1> QED
  BY <1>3, <1>4, <1>5, <1>6, <1>7, <1>8 DEF Next

\* Every sale is charged once, billed once with at least itself on the invoice, and
\* settled once, whatever processes run, fail or die: the commission feature
\* implements CommissionLedger.
THEOREM SalesAreSettledOnce == Spec => LedgerKeepsPromise
<1>1. Init => Ledger!Init
  BY DEF Init, NoRows, AccountOf, Ledger!Init
<1>2. IInv /\ [Next]_vars => [Ledger!Next]_(Account)
  BY StepsAreLedgerSteps
<1> QED
  BY <1>1, <1>2, Invariance, PTL DEF Spec, LedgerKeepsPromise, Ledger!Spec, Account
=============================================================================
