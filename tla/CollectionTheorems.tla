------------------------- MODULE CollectionTheorems -------------------------
(***************************************************************************)
(* What the proofs need to know of the collections the models use: sums    *)
(* over a set, sets listed in order, sequences put one after the other,    *)
(* and sets that grow round by round.                                      *)
(*                                                                         *)
(* SumFunctionOnSet is a fold, that is, a function defined by recursion    *)
(* over the subsets of the set.  The library's theorems on induction and   *)
(* recursion have an operator as parameter, which the provers here cannot  *)
(* instantiate; every induction below is therefore on a minimal            *)
(* counterexample, which FiniteMinimal has from the well-foundedness of    *)
(* strict inclusion, and the recursive function is shown to exist by one   *)
(* such induction (FoldExists) before any of its values is used.           *)
(* FlattenSeq and the iteration of a function are dealt with in the same   *)
(* way.                                                                    *)
(***************************************************************************)
EXTENDS SequencesExt, FiniteSetTheorems, SequenceTheorems, WellFoundedInduction, TLAPS

\* The fold of Folds!MapThenFoldSet, for the sum of f's values: the member it
\* takes from a set, one step, and the function it computes.
Chosen(s) == CHOOSE x \in s : TRUE
FoldStep(g, f, s) == IF s = {} THEN 0 ELSE f[Chosen(s)] + g[s \ {Chosen(s)}]
IsFold(g, f, S) == g = [s \in SUBSET S |-> FoldStep(g, f, s)]
TheFold(f, S) == CHOOSE g : IsFold(g, f, S)

\* SumFunctionOnSet of the community modules is that fold.
LEMMA SumIsFold ==
  ASSUME NEW f, NEW S
  PROVE  SumFunctionOnSet(f, S) = TheFold(f, S)[S]
  BY DEF SumFunctionOnSet, FoldFunctionOnSet, MapThenFoldSet, IsFold, TheFold, FoldStep, Chosen

\* A set of subsets of a finite set has a minimal member: the principle every
\* induction below is an instance of.
LEMMA FiniteMinimal ==
  ASSUME NEW S, IsFiniteSet(S), NEW B \in SUBSET (SUBSET S), B # {}
  PROVE  \E T \in B : \A U \in B : U \subseteq T => U = T
  <1>1. IsWellFoundedOn(StrictSubsetOrdering(S), FiniteSubsetsOf(S))
    BY FS_StrictSubsetOrderingWellFounded
  <1>2. B \subseteq FiniteSubsetsOf(S)
    BY FS_Subset DEF FiniteSubsetsOf
  <1>3. PICK T \in B : \A U \in B : ~(<<U, T>> \in StrictSubsetOrdering(S))
    BY <1>1, <1>2, WFMin
  <1>4. QED
    BY <1>3 DEF StrictSubsetOrdering

\* A nonempty bounded set of natural numbers has a smallest member.
LEMMA LeastMember ==
  ASSUME NEW S, S # {}, NEW n \in Nat, S \subseteq 0..n
  PROVE  \E m \in S : \A k \in S : m <= k
  <1> DEFINE B == {(0..m) \cap S : m \in S}
  <1>1. IsFiniteSet(S)
    <2>1. IsFiniteSet(0..n)
      BY FS_Interval
    <2>2. S \in SUBSET (0..n)
      OBVIOUS
    <2> QED BY ONLY <2>1, <2>2, FS_Subset
  <1>2. B \in SUBSET (SUBSET S)
    OBVIOUS
  <1>3. B # {}
    OBVIOUS
  <1>4. PICK T \in B : \A U \in B : U \subseteq T => U = T
    <2> HIDE DEF B
    <2> QED BY ONLY <1>1, <1>2, <1>3, FiniteMinimal
  <1>5. PICK m \in S : T = (0..m) \cap S
    OBVIOUS
  <1>6. \A k \in S : m <= k
    <2>1. SUFFICES ASSUME NEW k \in S, k < m PROVE FALSE
      OBVIOUS
    <2>2. (0..k) \cap S \in B /\ (0..k) \cap S \subseteq T
      BY <1>5, <2>1
    <2>3. (0..k) \cap S = T
      BY <1>4, <2>2
    <2>4. m \in T /\ m \notin 0..k
      BY <1>5, <2>1
    <2> QED BY <2>3, <2>4
  <1> QED BY <1>6

\* The member taken from a set is one of it.
LEMMA ChosenIn ==
  ASSUME NEW s, s # {}
  PROVE  Chosen(s) \in s
  BY DEF Chosen

\* A fold takes the value of its step at every subset.
LEMMA FoldValue ==
  ASSUME NEW f, NEW S, NEW g, IsFold(g, f, S), NEW s \in SUBSET S
  PROVE  g[s] = FoldStep(g, f, s)
  BY Zenon DEF IsFold

\* Two folds of the same function agree where both are defined.
LEMMA FoldUnique ==
  ASSUME NEW f, NEW S, IsFiniteSet(S), NEW R, NEW T, NEW g, NEW h,
         IsFold(g, f, R), IsFold(h, f, T), S \subseteq R, S \subseteq T
  PROVE  g[S] = h[S]
  <1> DEFINE B == {U \in SUBSET S : g[U] # h[U]}
  <1>1. SUFFICES ASSUME B # {} PROVE FALSE
    OBVIOUS
  <1>2. PICK U \in B : \A V \in B : V \subseteq U => V = U
    <2> HIDE DEF B
    <2>1. B \in SUBSET SUBSET S
      BY DEF B
    <2> QED BY <1>1, <2>1, FiniteMinimal
  <1>3. g[U] = FoldStep(g, f, U) /\ h[U] = FoldStep(h, f, U)
    <2>1. U \in SUBSET R /\ U \in SUBSET T
      OBVIOUS
    <2> QED BY <2>1, FoldValue
  <1>4. CASE U = {}
    BY <1>2, <1>3, <1>4 DEF FoldStep
  <1>5. CASE U # {}
    <2>1. Chosen(U) \in U
      BY <1>5, ChosenIn
    <2>2. U \ {Chosen(U)} \notin B
      BY <2>1, <1>2
    <2>3. g[U \ {Chosen(U)}] = h[U \ {Chosen(U)}]
      BY <2>2
    <2> QED BY <1>2, <1>3, <1>5, <2>3 DEF FoldStep
  <1> QED BY <1>4, <1>5

\* The fold over a finite set exists: a minimal set without one would have
\* one, put together from those of its subsets.
LEMMA FoldExists ==
  ASSUME NEW f, NEW S, IsFiniteSet(S)
  PROVE  IsFold(TheFold(f, S), f, S)
  <1> DEFINE B == {U \in SUBSET S : ~ \E g : IsFold(g, f, U)}
  <1>1. SUFFICES B = {}
    <2>1. \E g : IsFold(g, f, S)
      BY <1>1
    <2> QED BY <2>1 DEF TheFold
  <1>2. SUFFICES ASSUME B # {} PROVE FALSE
    OBVIOUS
  <1>3. PICK U \in B : \A V \in B : V \subseteq U => V = U
    <2> HIDE DEF B
    <2>1. B \in SUBSET SUBSET S
      BY DEF B
    <2> QED BY <1>2, <2>1, FiniteMinimal
  <1>4. ASSUME NEW V \in SUBSET U, V # U PROVE IsFold(TheFold(f, V), f, V)
    <2>1. V \notin B
      BY <1>3, <1>4
    <2>2. \E g : IsFold(g, f, V)
      BY <2>1
    <2> QED BY <2>2 DEF TheFold
  <1> DEFINE h == [s \in SUBSET U |->
                     IF s = {} THEN 0
                     ELSE f[Chosen(s)] + TheFold(f, s \ {Chosen(s)})[s \ {Chosen(s)}]]
  <1>5. ASSUME NEW s \in SUBSET U PROVE h[s] = FoldStep(h, f, s)
    <2>1. CASE s = {}
      BY <2>1 DEF FoldStep
    <2>2. CASE s # {}
      <3> DEFINE r == s \ {Chosen(s)}
      <3>1. Chosen(s) \in s /\ r \in SUBSET U /\ r # U
        BY <2>2, ChosenIn
      <3>2. h[r] = TheFold(f, r)[r]
        <4>1. IsFold(TheFold(f, r), f, r)
          BY <3>1, <1>4
        <4>2. TheFold(f, r)[r] = FoldStep(TheFold(f, r), f, r)
          BY <4>1, FoldValue
        <4>3. CASE r = {}
          BY <4>2, <4>3, <3>1 DEF FoldStep
        <4>4. CASE r # {}
          <5> DEFINE q == r \ {Chosen(r)}
          <5>1. /\ Chosen(r) \in r
                /\ q \in SUBSET U /\ q # U /\ q \subseteq r /\ q \in SUBSET r /\ IsFiniteSet(q)
            <6>1. Chosen(r) \in r
              BY <4>4, ChosenIn
            <6>2. IsFiniteSet(q)
              BY FS_Subset, <1>3
            <6> QED BY <6>1, <6>2, <3>1
          <5>2. IsFold(TheFold(f, q), f, q)
            BY <5>1, <1>4
          <5>3. TheFold(f, r)[q] = TheFold(f, q)[q]
            <6> HIDE DEF q, r
            <6> QED BY <5>1, <5>2, <4>1, FoldUnique
          <5>4. TheFold(f, r)[r] = f[Chosen(r)] + TheFold(f, r)[q]
            BY <4>2, <4>4 DEF FoldStep
          <5>5. h[r] = f[Chosen(r)] + TheFold(f, q)[q]
            BY <3>1, <4>4
          <5> QED BY <5>3, <5>4, <5>5
        <4> QED BY <4>3, <4>4
      <3>3. h[s] = f[Chosen(s)] + TheFold(f, r)[r]
        BY <2>2
      <3>4. FoldStep(h, f, s) = f[Chosen(s)] + h[r]
        BY <2>2 DEF FoldStep
      <3> QED BY <3>2, <3>3, <3>4
    <2> QED BY <2>1, <2>2
  <1>6. IsFold(h, f, U)
    <2>1. h = [s \in SUBSET U |-> h[s]]
      OBVIOUS
    <2> HIDE DEF h
    <2>2. [s \in SUBSET U |-> h[s]] = [s \in SUBSET U |-> FoldStep(h, f, s)]
      BY <1>5
    <2> QED BY <2>1, <2>2 DEF IsFold
  <1> QED BY <1>6, <1>3

\* The recursion, in terms of sums.
LEMMA SumStep ==
  ASSUME NEW f, NEW S, IsFiniteSet(S), S # {}
  PROVE  SumFunctionOnSet(f, S) = f[Chosen(S)] + SumFunctionOnSet(f, S \ {Chosen(S)})
  <1> DEFINE R == S \ {Chosen(S)}
  <1>1. IsFiniteSet(R) /\ R \subseteq S
    BY FS_Subset
  <1>2. IsFold(TheFold(f, S), f, S) /\ IsFold(TheFold(f, R), f, R)
    BY <1>1, FoldExists
  <1>3. TheFold(f, S)[S] = FoldStep(TheFold(f, S), f, S)
    BY <1>2, FoldValue
  <1>4. TheFold(f, S)[R] = TheFold(f, R)[R]
    <2> HIDE DEF R
    <2> QED BY <1>1, <1>2, FoldUnique
  <1>5. TheFold(f, S)[S] = f[Chosen(S)] + TheFold(f, S)[R]
    BY <1>3 DEF FoldStep
  <1> QED BY <1>4, <1>5, SumIsFold

-----------------------------------------------------------------------------
(* The lemmas other modules cite.                                          *)

\* Nothing sums up to 0.
LEMMA SumEmpty ==
  ASSUME NEW f
  PROVE  SumFunctionOnSet(f, {}) = 0
  <1>1. IsFold(TheFold(f, {}), f, {})
    BY FS_EmptySet, FoldExists
  <1>2. TheFold(f, {})[{}] = FoldStep(TheFold(f, {}), f, {})
    BY <1>1, FoldValue
  <1> QED BY <1>2, SumIsFold DEF FoldStep

\* A set that is closed under addition and holds 0 and every value holds
\* their sum: it is a number, or a natural number.
LEMMA SumIn ==
  ASSUME NEW N, 0 \in N, \A a, b \in N : a + b \in N,
         NEW S, IsFiniteSet(S), NEW f, \A x \in S : f[x] \in N
  PROVE  SumFunctionOnSet(f, S) \in N
  <1> DEFINE B == {U \in SUBSET S : SumFunctionOnSet(f, U) \notin N}
  <1>1. SUFFICES ASSUME B # {} PROVE FALSE
    OBVIOUS
  <1>2. PICK U \in B : \A V \in B : V \subseteq U => V = U
    <2> HIDE DEF B
    <2>1. B \in SUBSET SUBSET S
      BY DEF B
    <2> QED BY <1>1, <2>1, FiniteMinimal
  <1>3. U # {}
    <2>1. SumFunctionOnSet(f, {}) \in N
      BY SumEmpty
    <2> QED BY <2>1, <1>2
  <1>4. Chosen(U) \in U
    BY <1>3, ChosenIn
  <1>5. U \ {Chosen(U)} \notin B
    BY <1>2, <1>4
  <1>6. SumFunctionOnSet(f, U \ {Chosen(U)}) \in N
    BY <1>5
  <1>7. SumFunctionOnSet(f, U) = f[Chosen(U)] + SumFunctionOnSet(f, U \ {Chosen(U)})
    BY <1>3, SumStep, FS_Subset
  <1>8. SumFunctionOnSet(f, U) \in N
    BY <1>4, <1>6, <1>7
  <1> QED BY <1>8, <1>2

\* The sum only depends on the values at the members.
LEMMA SumCongruent ==
  ASSUME NEW S, IsFiniteSet(S), NEW f, NEW g, \A x \in S : f[x] = g[x]
  PROVE  SumFunctionOnSet(f, S) = SumFunctionOnSet(g, S)
  <1> DEFINE B == {U \in SUBSET S : SumFunctionOnSet(f, U) # SumFunctionOnSet(g, U)}
  <1>1. SUFFICES ASSUME B # {} PROVE FALSE
    OBVIOUS
  <1>2. PICK U \in B : \A V \in B : V \subseteq U => V = U
    <2> HIDE DEF B
    <2>1. B \in SUBSET SUBSET S
      BY DEF B
    <2> QED BY <1>1, <2>1, FiniteMinimal
  <1>3. U # {}
    <2>1. SumFunctionOnSet(f, {}) = SumFunctionOnSet(g, {})
      BY SumEmpty
    <2> QED BY <2>1, <1>2
  <1>4. Chosen(U) \in U
    BY <1>3, ChosenIn
  <1>5. U \ {Chosen(U)} \notin B
    BY <1>2, <1>4
  <1>6. SumFunctionOnSet(f, U \ {Chosen(U)}) = SumFunctionOnSet(g, U \ {Chosen(U)})
    BY <1>5
  <1>7. /\ SumFunctionOnSet(f, U) = f[Chosen(U)] + SumFunctionOnSet(f, U \ {Chosen(U)})
        /\ SumFunctionOnSet(g, U) = g[Chosen(U)] + SumFunctionOnSet(g, U \ {Chosen(U)})
    BY <1>3, SumStep, FS_Subset
  <1>8. SumFunctionOnSet(f, U) = SumFunctionOnSet(g, U)
    BY <1>4, <1>6, <1>7
  <1> QED BY <1>8, <1>2

\* Any member may be taken first: the sum does not depend on the order.
THEOREM SumRemove ==
  ASSUME NEW S, IsFiniteSet(S), NEW f, \A x \in S : f[x] \in Int, NEW x \in S
  PROVE  SumFunctionOnSet(f, S) = f[x] + SumFunctionOnSet(f, S \ {x})
  <1> DEFINE Splits(U) == \A y \in U : SumFunctionOnSet(f, U) = f[y] + SumFunctionOnSet(f, U \ {y})
             B == {U \in SUBSET S : ~Splits(U)}
  <1>1. SUFFICES ASSUME B # {} PROVE FALSE
    OBVIOUS
  <1>2. PICK U \in B : \A V \in B : V \subseteq U => V = U
    <2> HIDE DEF B
    <2>1. B \in SUBSET SUBSET S
      BY DEF B
    <2> QED BY <1>1, <2>1, FiniteMinimal
  <1>3. PICK y \in U : SumFunctionOnSet(f, U) # f[y] + SumFunctionOnSet(f, U \ {y})
    BY <1>2
  <1> DEFINE c == Chosen(U)
  <1>4. c \in U
    BY <1>3, ChosenIn
  <1>5. SumFunctionOnSet(f, U) = f[c] + SumFunctionOnSet(f, U \ {c})
    BY <1>3, SumStep, FS_Subset
  <1>6. c # y
    BY <1>3, <1>5
  <1> HIDE DEF c
  <1>7. SumFunctionOnSet(f, U \ {c}) = f[y] + SumFunctionOnSet(f, (U \ {c}) \ {y})
    <2>1. U \ {c} \notin B /\ U \ {c} \in SUBSET S
      BY <1>2, <1>4
    <2>2. Splits(U \ {c})
      BY <2>1
    <2> QED BY <2>2, <1>3, <1>6
  <1>8. SumFunctionOnSet(f, U \ {y}) = f[c] + SumFunctionOnSet(f, (U \ {y}) \ {c})
    <2>1. U \ {y} \notin B /\ U \ {y} \in SUBSET S
      BY <1>2, <1>3
    <2>2. Splits(U \ {y})
      BY <2>1
    <2> QED BY <2>2, <1>4, <1>6
  <1>9. (U \ {c}) \ {y} = (U \ {y}) \ {c}
    OBVIOUS
  <1>10. SumFunctionOnSet(f, (U \ {c}) \ {y}) \in Int
    <2> DEFINE R == (U \ {c}) \ {y}
    <2>1. R \in SUBSET S
      BY <1>2
    <2>2. IsFiniteSet(R) /\ \A z \in R : f[z] \in Int
      BY <2>1, FS_Subset
    <2>3. 0 \in Int /\ \A a, b \in Int : a + b \in Int
      OBVIOUS
    <2> HIDE DEF R, B
    <2> QED BY ONLY <2>2, <2>3, SumIn DEF R
  <1>11. f[c] \in Int /\ f[y] \in Int
    BY <1>4, <1>3
  <1> HIDE DEF B
  <1>12. SumFunctionOnSet(f, U) = f[c] + (f[y] + SumFunctionOnSet(f, (U \ {c}) \ {y}))
    BY <1>5, <1>7
  <1>13. SumFunctionOnSet(f, U \ {y}) = f[c] + SumFunctionOnSet(f, (U \ {c}) \ {y})
    BY <1>8, <1>9
  <1>14. SumFunctionOnSet(f, U) = f[y] + SumFunctionOnSet(f, U \ {y})
    BY <1>10, <1>11, <1>12, <1>13
  <1> QED BY <1>3, <1>14

\* Sums of numbers are numbers.
LEMMA SumInt ==
  ASSUME NEW S, IsFiniteSet(S), NEW f, \A x \in S : f[x] \in Int
  PROVE  SumFunctionOnSet(f, S) \in Int
  <1>1. 0 \in Int /\ \A a, b \in Int : a + b \in Int
    OBVIOUS
  <1> QED BY <1>1, SumIn

\* The same for natural numbers, as counts and weights are.
LEMMA SumNat ==
  ASSUME NEW S, IsFiniteSet(S), NEW f, \A x \in S : f[x] \in Nat
  PROVE  SumFunctionOnSet(f, S) \in Nat
  <1>1. 0 \in Nat /\ \A a, b \in Nat : a + b \in Nat
    OBVIOUS
  <1> QED BY <1>1, SumIn

\* A new member adds its value.
LEMMA SumAdd ==
  ASSUME NEW S, IsFiniteSet(S), NEW x, x \notin S,
         NEW f, \A y \in S \cup {x} : f[y] \in Int
  PROVE  SumFunctionOnSet(f, S \cup {x}) = f[x] + SumFunctionOnSet(f, S)
  <1>1. IsFiniteSet(S \cup {x})
    BY FS_AddElement
  <1>2. (S \cup {x}) \ {x} = S
    OBVIOUS
  <1> QED BY <1>1, <1>2, SumRemove

\* A value that changes changes the sum by as much.
LEMMA SumUpdate ==
  ASSUME NEW S, IsFiniteSet(S), NEW f, NEW g, NEW x \in S,
         \A y \in S : f[y] \in Int /\ g[y] \in Int,
         \A y \in S \ {x} : f[y] = g[y]
  PROVE  SumFunctionOnSet(g, S) = SumFunctionOnSet(f, S) - f[x] + g[x]
  <1>1. IsFiniteSet(S \ {x})
    BY FS_RemoveElement
  <1>2. SumFunctionOnSet(f, S \ {x}) = SumFunctionOnSet(g, S \ {x})
    BY <1>1, SumCongruent
  <1>3. SumFunctionOnSet(f, S \ {x}) \in Int
    BY <1>1, SumInt
  <1>4. /\ SumFunctionOnSet(f, S) = f[x] + SumFunctionOnSet(f, S \ {x})
        /\ SumFunctionOnSet(g, S) = g[x] + SumFunctionOnSet(g, S \ {x})
    BY SumRemove
  <1> QED BY <1>2, <1>3, <1>4

\* The values at several members change at once, each by what one member of L
\* says: the sum changes by the sum over L.
THEOREM SumReindex ==
  ASSUME NEW K, IsFiniteSet(K), NEW L, IsFiniteSet(L), NEW e,
         \A i \in L : e[i] \in K, \A i, j \in L : e[i] = e[j] => i = j,
         NEW g, NEW h, \A k \in K : g[k] \in Int /\ h[k] \in Int,
         NEW c, \A i \in L : c[i] \in Int /\ h[e[i]] = g[e[i]] + c[i],
         \A k \in K : (\A i \in L : e[i] # k) => h[k] = g[k]
  PROVE  SumFunctionOnSet(h, K) = SumFunctionOnSet(g, K) + SumFunctionOnSet(c, L)
  <1> DEFINE Part(M) == [k \in K |-> IF \E i \in M : e[i] = k THEN h[k] ELSE g[k]]
             B == {M \in SUBSET L : SumFunctionOnSet(Part(M), K)
                                      # SumFunctionOnSet(g, K) + SumFunctionOnSet(c, M)}
  <1>1. ASSUME B # {} PROVE FALSE
    <2>1. PICK M \in B : \A V \in B : V \subseteq M => V = M
      <3> HIDE DEF B
      <3>1. B \in SUBSET SUBSET L
        BY DEF B
      <3> QED BY <1>1, <3>1, FiniteMinimal
    <2>2. SumFunctionOnSet(g, K) \in Int
      BY SumInt
    <2>3. M # {}
      <3>1. SUFFICES ASSUME M = {} PROVE FALSE
        OBVIOUS
      <3>2. SumFunctionOnSet(Part({}), K) = SumFunctionOnSet(g, K)
        <4>1. \A k \in K : Part({})[k] = g[k]
          OBVIOUS
        <4> HIDE DEF Part
        <4> QED BY <4>1, SumCongruent
      <3>3. SumFunctionOnSet(c, {}) = 0
        BY SumEmpty
      <3>4. SumFunctionOnSet(Part({}), K) # SumFunctionOnSet(g, K) + SumFunctionOnSet(c, {})
        BY <2>1, <3>1
      <3> HIDE DEF Part, B
      <3> QED BY <2>2, <3>2, <3>3, <3>4
    <2>4. PICK i \in M : TRUE
      BY <2>3
    <2> DEFINE R == M \ {i}
    <2>5. /\ M \in SUBSET L /\ R \in SUBSET L /\ i \in L /\ i \notin R
          /\ IsFiniteSet(M) /\ IsFiniteSet(R)
      BY <2>1, <2>4, FS_Subset
    <2>6. SumFunctionOnSet(Part(R), K) = SumFunctionOnSet(g, K) + SumFunctionOnSet(c, R)
      BY <2>1, <2>4, <2>5
    <2>7. SumFunctionOnSet(c, M) = c[i] + SumFunctionOnSet(c, R)
      BY <2>4, <2>5, SumRemove
    <2>8. SumFunctionOnSet(c, R) \in Int /\ c[i] \in Int
      <3> HIDE DEF R, B
      <3> QED BY <2>5, SumInt
    <2>9. /\ \A k \in K : Part(R)[k] \in Int /\ Part(M)[k] \in Int
          /\ \A k \in K \ {e[i]} : Part(R)[k] = Part(M)[k]
          /\ Part(R)[e[i]] = g[e[i]] /\ Part(M)[e[i]] = h[e[i]]
          /\ e[i] \in K
      BY <2>4, <2>5
    <2>10. SumFunctionOnSet(Part(M), K) = SumFunctionOnSet(Part(R), K) - Part(R)[e[i]] + Part(M)[e[i]]
      <3> DEFINE a == Part(R)
                 b == Part(M)
                 x == e[i]
      <3>1. \A y \in K : a[y] \in Int /\ b[y] \in Int
        BY <2>9
      <3>2. \A y \in K \ {x} : a[y] = b[y]
        BY <2>9
      <3>3. x \in K
        BY <2>9
      <3> HIDE DEF a, b, x
      <3>4. SumFunctionOnSet(b, K) = SumFunctionOnSet(a, K) - a[x] + b[x]
        BY <3>1, <3>2, <3>3, SumUpdate
      <3> QED BY <3>4 DEF a, b, x
    <2>11. h[e[i]] = g[e[i]] + c[i] /\ g[e[i]] \in Int
      BY <2>5
    <2>12. SumFunctionOnSet(Part(M), K) # SumFunctionOnSet(g, K) + SumFunctionOnSet(c, M)
      BY <2>1
    <2> HIDE DEF Part, R, B
    <2> QED BY <2>2, <2>6, <2>7, <2>8, <2>9, <2>10, <2>11, <2>12
  <1>2. SumFunctionOnSet(Part(L), K) = SumFunctionOnSet(g, K) + SumFunctionOnSet(c, L)
    BY <1>1
  <1>3. \A k \in K : Part(L)[k] = h[k]
    OBVIOUS
  <1>4. SumFunctionOnSet(Part(L), K) = SumFunctionOnSet(h, K)
    <2> HIDE DEF Part
    <2> QED BY <1>3, SumCongruent
  <1> QED BY <1>2, <1>4

-----------------------------------------------------------------------------
(* Orders and sequences.                                                   *)

Ascending(f, S) ==
  /\ f \in [1..Cardinality(S) -> S]
  /\ \A j, k \in 1..Cardinality(S) : j < k => f[j] < f[k]

\* Every finite set of numbers can be listed in ascending order: otherwise
\* take a smallest set that cannot, and list its least member first.
LEMMA AscendingExists ==
  ASSUME NEW n \in Nat, NEW S \in SUBSET (1..n)
  PROVE  \E f : Ascending(f, S)
  <1> DEFINE B == {T \in SUBSET (1..n) : ~\E f : Ascending(f, T)}
  <1>1. SUFFICES ASSUME B # {} PROVE FALSE
    OBVIOUS
  <1>2. IsFiniteSet(1..n)
    BY FS_Interval
  <1>3. PICK T \in B : \A U \in B : U \subseteq T => U = T
    <2>1. B \in SUBSET (SUBSET (1..n))
      OBVIOUS
    <2> DEFINE N == 1..n
    <2>2. B \in SUBSET (SUBSET N) /\ IsFiniteSet(N)
      BY <1>2, <2>1
    <2> HIDE DEF B, N
    <2> QED BY ONLY <1>1, <2>2, FiniteMinimal
  <1>4. T \in SUBSET (1..n) /\ IsFiniteSet(T)
    BY <1>2, FS_Subset
  <1>5. T # {}
    <2>1. SUFFICES ASSUME T = {} PROVE FALSE
      OBVIOUS
    <2>2. Cardinality(T) = 0 /\ 1..0 = {}
      BY <2>1, FS_EmptySet
    <2>3. Ascending([j \in {} |-> 0], T)
      BY <2>1, <2>2 DEF Ascending
    <2> QED BY <2>3
  <1>6. PICK m \in T : \A k \in T : m <= k
    <2>1. T \subseteq 0..n
      BY <1>4
    <2> QED BY ONLY n \in Nat, <1>5, <2>1, LeastMember
  <1> DEFINE U == T \ {m}
             c == Cardinality(U)
  <1>7. IsFiniteSet(U) /\ c \in Nat /\ Cardinality(T) = c + 1
    <2>1. IsFiniteSet(U) /\ c = Cardinality(T) - 1
      BY <1>4, FS_RemoveElement
    <2>2. c \in Nat /\ Cardinality(T) \in Nat
      BY <1>4, <2>1, FS_CardinalityType
    <2> QED BY <2>1, <2>2
  <1>8. PICK f : Ascending(f, U)
    BY <1>3, <1>4, <1>6
  <1> DEFINE g == [j \in 1..(c + 1) |-> IF j = 1 THEN m ELSE f[j - 1]]
  <1>9. Ascending(g, T)
    <2> HIDE DEF c
    <2>1. f \in [1..c -> U] /\ \A j, k \in 1..c : j < k => f[j] < f[k]
      BY <1>8 DEF Ascending, c
    <2>2. \A j \in 1..(c + 1) : g[j] \in T /\ (j # 1 => g[j] = f[j - 1] /\ j - 1 \in 1..c)
      BY <1>7, <2>1
    <2>3. \A j \in 1..c : m < f[j]
      <3>1. SUFFICES ASSUME NEW j \in 1..c PROVE m < f[j]
        OBVIOUS
      <3>2. f[j] \in T /\ f[j] # m
        BY <2>1
      <3>3. f[j] \in 1..n /\ m \in 1..n
        BY ONLY <1>4, <1>6, <3>2
      <3>4. m <= f[j]
        BY ONLY <1>6, <3>2
      <3> QED BY ONLY n \in Nat, <3>2, <3>3, <3>4
    <2>4. ASSUME NEW j \in 1..(c + 1), NEW k \in 1..(c + 1), j < k PROVE g[j] < g[k]
      <3>1. CASE j = 1
        BY <1>7, <2>2, <2>3, <2>4, <3>1
      <3>2. CASE j # 1
        <4>1. j - 1 \in 1..c /\ k - 1 \in 1..c /\ j - 1 < k - 1 /\ k # 1
          BY <1>7, <2>4, <3>2
        <4> QED BY <2>1, <2>2, <4>1, <3>2
      <3> QED BY <3>1, <3>2
    <2>5. g \in [1..(c + 1) -> T]
      BY <2>2
    <2> HIDE DEF g
    <2> QED BY ONLY <1>7, <2>4, <2>5 DEF Ascending
  <1> QED BY <1>9

\* An injection into a set from as many numbers meets every member.
LEMMA InjectionIsOnto ==
  ASSUME NEW S, IsFiniteSet(S), NEW f \in [1..Cardinality(S) -> S],
         \A j, k \in 1..Cardinality(S) : f[j] = f[k] => j = k
  PROVE  \A x \in S : \E j \in 1..Cardinality(S) : f[j] = x
  <1>1. Cardinality(S) \in Nat
    BY FS_CardinalityType
  <1>2. f \in Injection(1..Cardinality(S), S)
    BY DEF Injection, IsInjective
  <1>3. IsFiniteSet(1..Cardinality(S)) /\ Cardinality(1..Cardinality(S)) = Cardinality(S)
    BY <1>1, FS_Interval
  <1>4. f \in Surjection(1..Cardinality(S), S)
    BY <1>2, <1>3, FS_Injection
  <1> QED BY <1>4 DEF Surjection

\* SetToSeq lists every member of a finite set once.
LEMMA SetToSeqFacts ==
  ASSUME NEW S, IsFiniteSet(S)
  PROVE  /\ Cardinality(S) \in Nat
         /\ SetToSeq(S) \in [1..Cardinality(S) -> S]
         /\ \A j, k \in 1..Cardinality(S) : SetToSeq(S)[j] = SetToSeq(S)[k] => j = k
         /\ \A x \in S : \E j \in 1..Cardinality(S) : SetToSeq(S)[j] = x
  <1>1. Cardinality(S) \in Nat /\ ExistsBijection(1..Cardinality(S), S)
    BY FS_CardinalityType
  <1>2. \E f \in [1..Cardinality(S) -> S] : IsInjective(f)
    BY <1>1 DEF ExistsBijection, Bijection, Injection
  <1>3. SetToSeq(S) \in [1..Cardinality(S) -> S] /\ IsInjective(SetToSeq(S))
    BY <1>2 DEF SetToSeq
  <1>4. \A j, k \in 1..Cardinality(S) : SetToSeq(S)[j] = SetToSeq(S)[k] => j = k
    BY <1>3 DEF IsInjective
  <1>5. \A x \in S : \E j \in 1..Cardinality(S) : SetToSeq(S)[j] = x
    BY <1>3, <1>4, InjectionIsOnto
  <1> QED BY <1>1, <1>3, <1>4, <1>5

\* A function on 1..n is a sequence of length n.
LEMMA FunctionIsSeq ==
  ASSUME NEW S, NEW n \in Nat, NEW f, f \in [1..n -> S]
  PROVE  f \in Seq(S) /\ Len(f) = n
  <1>1. f \in Seq(S)
    BY SeqDef
  <1> QED BY <1>1, LenProperties

-----------------------------------------------------------------------------
(* FlattenSeq.                                                             *)

\* The recursive function FlattenSeq is the last value of.
IsFlatten(g, ss, n) == g = [i \in 1..n |-> IF i = 1 THEN ss[i] ELSE g[i - 1] \o ss[i]]

\* F has the blocks ss[1..m] one after the other, block j after o[j] others.
Placed(F, ss, o, m) ==
  /\ o \in [1..m -> Nat]
  /\ \A j \in 1..m : o[j] + Len(ss[j]) <= Len(F)
  /\ \A j \in 1..m : \A r \in 1..Len(ss[j]) : F[o[j] + r] = ss[j][r]
  /\ \A i \in 1..Len(F) : \E j \in 1..m : \E r \in 1..Len(ss[j]) : i = o[j] + r
  /\ \A j, k \in 1..m : j < k => o[j] + Len(ss[j]) <= o[k]

\* The recursive function exists: take the shortest prefix it does not exist
\* for.
LEMMA FlattenExists ==
  ASSUME NEW T, NEW ss \in Seq(Seq(T)), NEW n \in Nat, n = Len(ss)
  PROVE  \E g : IsFlatten(g, ss, n)
  <1> DEFINE B == {m \in 0..n : ~\E g : IsFlatten(g, ss, m)}
  <1>1. SUFFICES ASSUME B # {} PROVE FALSE
    OBVIOUS
  <1>2. PICK m \in B : \A k \in B : m <= k
    <2>1. B \subseteq 0..n
      OBVIOUS
    <2> HIDE DEF B
    <2> QED BY ONLY <1>1, <2>1, n \in Nat, LeastMember
  <1>3. m \in 0..n /\ ~\E g : IsFlatten(g, ss, m)
    OBVIOUS
  <1>4. m # 0
    <2>1. SUFFICES ASSUME m = 0 PROVE FALSE
      OBVIOUS
    <2>2. IsFlatten([i \in {} |-> 0], ss, 0)
      BY DEF IsFlatten
    <2> QED BY <1>3, <2>1, <2>2
  <1>5. m - 1 \in 0..n /\ m - 1 \notin B
    <2>1. m - 1 \in 0..n /\ ~(m <= m - 1)
      BY <1>3, <1>4
    <2> HIDE DEF B
    <2> QED BY <1>2, <2>1
  <1>6. PICK g : IsFlatten(g, ss, m - 1)
    BY <1>5
  <1> DEFINE h == [i \in 1..m |-> IF i = m THEN (IF m = 1 THEN ss[1] ELSE g[m - 1] \o ss[m]) ELSE g[i]]
  <1>7. ASSUME NEW i \in 1..m PROVE h[i] = IF i = 1 THEN ss[i] ELSE h[i - 1] \o ss[i]
    <2>1. CASE i = m
      BY <1>3, <1>4, <2>1
    <2>2. CASE i # m
      <3>1. i \in 1..(m - 1)
        BY <1>3, <2>2
      <3>2. h[i] = g[i] /\ g[i] = IF i = 1 THEN ss[i] ELSE g[i - 1] \o ss[i]
        BY <1>6, <2>2, <3>1 DEF IsFlatten
      <3>3. i # 1 => h[i - 1] = g[i - 1]
        BY <1>3, <3>1
      <3> QED BY <3>2, <3>3
    <2> QED BY <2>1, <2>2
  <1>8. IsFlatten(h, ss, m)
    <2>1. h = [i \in 1..m |-> h[i]]
      OBVIOUS
    <2> HIDE DEF h
    <2> QED BY <1>7, <2>1 DEF IsFlatten
  <1> QED BY <1>3, <1>8

\* Its value at m has the first m blocks one after the other.
LEMMA FlattenPlaces ==
  ASSUME NEW T, NEW ss \in Seq(Seq(T)), NEW n \in Nat, n = Len(ss), NEW g, IsFlatten(g, ss, n),
         NEW last \in 1..n
  PROVE  g[last] \in Seq(T) /\ \E o : Placed(g[last], ss, o, last)
  <1> DEFINE Good(m) == g[m] \in Seq(T) /\ \E o : Placed(g[m], ss, o, m)
             B == {m \in 1..n : ~Good(m)}
  <1>1. SUFFICES ASSUME B # {} PROVE FALSE
    OBVIOUS
  <1>2. PICK m \in B : \A k \in B : m <= k
    <2>1. B \subseteq 0..n
      OBVIOUS
    <2> HIDE DEF B
    <2> QED BY ONLY <1>1, <2>1, n \in Nat, LeastMember
  <1>3. m \in 1..n /\ ~Good(m)
    OBVIOUS
  <1>4. \A j \in 1..n : ss[j] \in Seq(T) /\ Len(ss[j]) \in Nat
    <2>1. \A j \in 1..n : ss[j] \in Seq(T)
      BY ElementOfSeq
    <2> QED BY <2>1, LenProperties
  <1>5. g[m] = IF m = 1 THEN ss[m] ELSE g[m - 1] \o ss[m]
    BY <1>3 DEF IsFlatten
  <1>6. m # 1
    <2>1. SUFFICES ASSUME m = 1 PROVE FALSE
      OBVIOUS
    <2>2. g[1] = ss[1]
      BY <1>5, <2>1
    <2> DEFINE o == [j \in 1..1 |-> 0]
    <2>3. Placed(ss[1], ss, o, 1)
      BY <1>3, <1>4, <2>1 DEF Placed
    <2> QED BY <1>3, <1>4, <2>1, <2>2, <2>3
  <1>7. m - 1 \in 1..n /\ Good(m - 1)
    <2>1. m - 1 \in 1..n /\ m - 1 \notin B
      BY <1>2, <1>3, <1>6
    <2> QED BY <2>1
  <1>8. PICK k \in 1..n : k = m - 1
    BY <1>7
  <1> DEFINE F == g[k]
             b == ss[m]
             G == F \o b
  <1>9. PICK o : Placed(F, ss, o, k)
    BY <1>7, <1>8
  <1>10. /\ F \in Seq(T) /\ b \in Seq(T) /\ g[m] = G /\ G \in Seq(T)
         /\ Len(F) \in Nat /\ Len(b) \in Nat /\ Len(G) = Len(F) + Len(b)
         /\ \A i \in 1..Len(F) : G[i] = F[i]
         /\ \A i \in 1..Len(b) : G[Len(F) + i] = b[i]
    <2>1. F \in Seq(T) /\ b \in Seq(T) /\ g[m] = G
      BY <1>3, <1>4, <1>5, <1>6, <1>7, <1>8
    <2> HIDE DEF F, b
    <2>2. G \in Seq(T) /\ Len(G) = Len(F) + Len(b) /\ Len(F) \in Nat /\ Len(b) \in Nat
      BY <2>1, ConcatProperties, LenProperties
    <2>3. \A i \in 1..(Len(F) + Len(b)) : G[i] = IF i <= Len(F) THEN F[i] ELSE b[i - Len(F)]
      BY <2>1, ConcatProperties
    <2> QED BY <2>1, <2>2, <2>3
  <1> DEFINE p == [j \in 1..m |-> IF j = m THEN Len(F) ELSE o[j]]
  <1>11. Placed(G, ss, p, m)
    <2>1. m = k + 1 /\ k \in Nat /\ Len(ss[m]) = Len(b)
      BY <1>3, <1>8
    <2>2. \A j \in 1..k : p[j] = o[j] /\ j \in 1..m /\ Len(ss[j]) \in Nat /\ o[j] \in Nat
      BY <1>3, <1>4, <1>9, <2>1 DEF Placed
    <2>3. p[m] = Len(F) /\ p \in [1..m -> Nat]
      <3>1. m \in 1..m /\ Len(F) \in Nat /\ \A j \in 1..m : j # m => j \in 1..k
        BY <1>10, <2>1
      <3> HIDE DEF F
      <3>2. p[m] = Len(F) /\ \A j \in 1..m : (IF j = m THEN Len(F) ELSE o[j]) \in Nat
        BY <2>2, <3>1
      <3> QED BY <3>2
    <2> HIDE DEF F, b, G, p
    <2>4. \A j \in 1..m : j = m \/ j \in 1..k
      BY <2>1
    <2>5. \A j \in 1..m : p[j] + Len(ss[j]) <= Len(G)
      <3>1. ASSUME NEW j \in 1..k PROVE p[j] + Len(ss[j]) <= Len(G)
        <4>1. p[j] + Len(ss[j]) <= Len(F)
          BY <1>9, <2>2 DEF Placed
        <4>2. p[j] \in Nat /\ Len(ss[j]) \in Nat
          BY <2>2
        <4> QED BY ONLY <1>10, <4>1, <4>2
      <3>2. p[m] + Len(ss[m]) <= Len(G)
        BY <1>10, <2>1, <2>3
      <3> QED BY <2>4, <3>1, <3>2
    <2>6. \A j \in 1..m : \A r \in 1..Len(ss[j]) : G[p[j] + r] = ss[j][r]
      <3>1. ASSUME NEW j \in 1..k, NEW r \in 1..Len(ss[j]) PROVE G[p[j] + r] = ss[j][r]
        <4>1. o[j] + r \in 1..Len(F) /\ F[o[j] + r] = ss[j][r]
          <5>1. o[j] + Len(ss[j]) <= Len(F) /\ F[o[j] + r] = ss[j][r]
            BY <1>9 DEF Placed
          <5>2. o[j] \in Nat /\ Len(ss[j]) \in Nat /\ Len(F) \in Nat
            BY <1>10, <2>2
          <5> QED BY ONLY r \in 1..Len(ss[j]), <5>1, <5>2
        <4> QED BY <1>10, <2>2, <4>1
      <3>2. ASSUME NEW r \in 1..Len(ss[m]) PROVE G[p[m] + r] = ss[m][r]
        BY <1>10, <2>1, <2>3, <3>2 DEF b
      <3> QED BY <2>4, <3>1, <3>2
    <2>7. \A i \in 1..Len(G) : \E j \in 1..m : \E r \in 1..Len(ss[j]) : i = p[j] + r
      <3>1. SUFFICES ASSUME NEW i \in 1..Len(G)
                     PROVE  \E j \in 1..m : \E r \in 1..Len(ss[j]) : i = p[j] + r
        OBVIOUS
      <3>2. CASE i <= Len(F)
        <4>1. i \in 1..Len(F)
          BY <1>10, <3>2
        <4>2. PICK j \in 1..k : \E r \in 1..Len(ss[j]) : i = o[j] + r
          BY <1>9, <4>1 DEF Placed
        <4> QED BY <2>2, <4>2
      <3>3. CASE i > Len(F)
        <4>1. i - Len(F) \in 1..Len(ss[m]) /\ i = p[m] + (i - Len(F)) /\ m \in 1..m
          BY <1>10, <2>1, <2>3, <3>3
        <4> QED BY <4>1
      <3> QED BY <1>10, <3>2, <3>3
    <2>8. \A i, j \in 1..m : i < j => p[i] + Len(ss[i]) <= p[j]
      <3>1. ASSUME NEW i \in 1..k, NEW j \in 1..k, i < j PROVE p[i] + Len(ss[i]) <= p[j]
        BY <1>9, <2>2, <3>1 DEF Placed
      <3>2. ASSUME NEW i \in 1..k PROVE p[i] + Len(ss[i]) <= p[m]
        BY <1>9, <2>2, <2>3 DEF Placed
      <3>3. \A i, j \in 1..m : i < j => i \in 1..k
        BY <2>1
      <3> QED BY <2>4, <3>1, <3>2, <3>3
    <2> QED BY <2>3, <2>5, <2>6, <2>7, <2>8 DEF Placed
  <1> QED BY <1>3, <1>10, <1>11

\* FlattenSeq puts the blocks one after the other.
LEMMA FlattenFacts ==
  ASSUME NEW T, NEW ss \in Seq(Seq(T))
  PROVE  FlattenSeq(ss) \in Seq(T) /\ \E o : Placed(FlattenSeq(ss), ss, o, Len(ss))
  <1> DEFINE n == Len(ss)
  <1>1. n \in Nat
    BY LenProperties
  <1>2. CASE n = 0
    <2>1. FlattenSeq(ss) = ss /\ ss = <<>>
      BY <1>2, EmptySeq DEF FlattenSeq
    <2>2. Placed(<<>>, ss, [j \in {} |-> 0], 0)
      BY DEF Placed
    <2> QED BY <1>2, <2>1, <2>2, EmptySeq
  <1>3. CASE n # 0
    <2> DEFINE g == CHOOSE h : IsFlatten(h, ss, n)
    <2>1. IsFlatten(g, ss, n)
      <3> HIDE DEF n
      <3>1. \E h : IsFlatten(h, ss, n)
        BY <1>1, FlattenExists DEF n
      <3> QED BY <3>1
    <2>2. FlattenSeq(ss) = g[n]
      BY <1>3 DEF FlattenSeq, IsFlatten
    <2>3. n \in 1..n
      BY <1>1, <1>3
    <2> HIDE DEF g
    <2> QED BY <1>1, <2>1, <2>2, <2>3, FlattenPlaces
  <1> QED BY <1>2, <1>3

-----------------------------------------------------------------------------
(* Iteration.                                                              *)

\* g has x, G[x], G[G[x]]...
IsIteration(g, G, x, n) == g = [k \in 0..n |-> IF k = 0 THEN x ELSE G[g[k - 1]]]

\* A function can be applied again and again: take the least number of times
\* it cannot.
LEMMA IterationExists ==
  ASSUME NEW G, NEW x, NEW n \in Nat
  PROVE  \E g : IsIteration(g, G, x, n)
  <1> DEFINE B == {m \in 0..n : ~\E g : IsIteration(g, G, x, m)}
  <1>1. SUFFICES ASSUME B # {} PROVE FALSE
    OBVIOUS
  <1>2. PICK m \in B : \A k \in B : m <= k
    <2>1. B \subseteq 0..n
      OBVIOUS
    <2> HIDE DEF B
    <2> QED BY ONLY <1>1, <2>1, n \in Nat, LeastMember
  <1>3. m \in 0..n /\ ~\E g : IsIteration(g, G, x, m)
    OBVIOUS
  <1>4. m # 0
    <2>1. SUFFICES ASSUME m = 0 PROVE FALSE
      OBVIOUS
    <2> DEFINE z == [k \in 0..0 |-> x]
    <2>2. IsIteration(z, G, x, 0)
      BY DEF IsIteration
    <2> QED BY <1>3, <2>1, <2>2
  <1>5. m - 1 \in 0..n /\ m - 1 \notin B
    <2>1. m - 1 \in 0..n /\ ~(m <= m - 1)
      BY <1>3, <1>4
    <2> HIDE DEF B
    <2> QED BY <1>2, <2>1
  <1>6. PICK g : IsIteration(g, G, x, m - 1)
    BY <1>5
  <1> DEFINE h == [k \in 0..m |-> IF k = m THEN G[g[m - 1]] ELSE g[k]]
  <1>7. ASSUME NEW k \in 0..m PROVE h[k] = IF k = 0 THEN x ELSE G[h[k - 1]]
    <2>1. CASE k = m
      BY <1>3, <1>4, <2>1
    <2>2. CASE k # m
      <3>1. k \in 0..(m - 1)
        BY <1>3, <2>2
      <3>2. h[k] = g[k] /\ g[k] = IF k = 0 THEN x ELSE G[g[k - 1]]
        BY <1>6, <2>2, <3>1 DEF IsIteration
      <3>3. k # 0 => h[k - 1] = g[k - 1]
        BY <1>3, <3>1
      <3> QED BY <3>2, <3>3
    <2> QED BY <2>1, <2>2
  <1>8. IsIteration(h, G, x, m)
    <2>1. h = [k \in 0..m |-> h[k]]
      OBVIOUS
    <2> HIDE DEF h
    <2> QED BY <1>7, <2>1 DEF IsIteration
  <1> QED BY <1>3, <1>8

\* What holds at first and is kept by every step holds at every number up to
\* n.  The numbers at which it holds are given as a set.
LEMMA UpToInduction ==
  ASSUME NEW n \in Nat, NEW P, 0 \in P,
         \A k \in 0..n : k # n /\ k \in P => k + 1 \in P
  PROVE  \A k \in 0..n : k \in P
  <1> DEFINE B == {k \in 0..n : k \notin P}
  <1>1. SUFFICES ASSUME B # {} PROVE FALSE
    OBVIOUS
  <1>2. PICK m \in B : \A k \in B : m <= k
    <2>1. B \subseteq 0..n
      OBVIOUS
    <2> HIDE DEF B
    <2> QED BY ONLY <1>1, <2>1, n \in Nat, LeastMember
  <1>3. m \in 0..n /\ m \notin P /\ m # 0
    OBVIOUS
  <1>4. m - 1 \in 0..n /\ m - 1 # n /\ m - 1 \in P /\ (m - 1) + 1 = m
    BY <1>2, <1>3
  <1> QED BY <1>3, <1>4

\* A chain of sets that adds members of a set of n comes to a halt in its
\* first n steps: otherwise each step adds one that no other step does.
LEMMA ChainHalts ==
  ASSUME NEW D, IsFiniteSet(D), NEW n \in Nat, n = Cardinality(D), NEW c,
         \A k \in 0..n : c[k] \subseteq c[k + 1] /\ c[k + 1] \subseteq c[k] \cup D
  PROVE  \E k \in 0..n : c[k + 1] = c[k]
  <1>1. SUFFICES ASSUME \A k \in 0..n : c[k + 1] # c[k] PROVE FALSE
    OBVIOUS
  <1> DEFINE new == [k \in 0..n |-> CHOOSE x \in D : x \in c[k + 1] /\ x \notin c[k]]
  <1>2. \A k \in 0..n : new[k] \in D /\ new[k] \in c[k + 1] /\ new[k] \notin c[k]
    <2>1. ASSUME NEW k \in 0..n PROVE \E x \in D : x \in c[k + 1] /\ x \notin c[k]
      BY <1>1
    <2> QED BY <2>1
  <1>3. new \in [0..n -> D]
    BY <1>2
  <1>4. \A i \in 0..n : \A k \in 0..n : i <= k => c[i] \subseteq c[k]
    <2>1. SUFFICES ASSUME NEW i \in 0..n PROVE \A k \in 0..n : i <= k => c[i] \subseteq c[k]
      OBVIOUS
    <2> DEFINE P == {k \in 0..n : i <= k => c[i] \subseteq c[k]}
    <2>2. 0 \in P
      OBVIOUS
    <2>3. \A k \in 0..n : k # n /\ k \in P => k + 1 \in P
      <3>1. SUFFICES ASSUME NEW k \in 0..n, k # n, k \in P PROVE k + 1 \in P
        OBVIOUS
      <3>2. k + 1 \in 0..n /\ c[k] \subseteq c[k + 1]
        BY <3>1
      <3>3. i <= k + 1 => i <= k \/ i = k + 1
        OBVIOUS
      <3> QED BY <3>1, <3>2, <3>3
    <2> HIDE DEF P
    <2>4. \A k \in 0..n : k \in P
      BY ONLY n \in Nat, <2>2, <2>3, UpToInduction
    <2> QED BY <2>4 DEF P
  <1>5. \A i, k \in 0..n : i < k => new[i] # new[k]
    <2>1. SUFFICES ASSUME NEW i \in 0..n, NEW k \in 0..n, i < k PROVE new[i] # new[k]
      OBVIOUS
    <2>2. i + 1 \in 0..n /\ i + 1 <= k
      BY <2>1
    <2>3. c[i + 1] \subseteq c[k]
      BY <1>4, <2>2
    <2> HIDE DEF new
    <2> QED BY <1>2, <2>3
  <1>6. IsFiniteSet(0..n) /\ Cardinality(0..n) = n + 1
    <2>1. 0 \in Int /\ n \in Int
      OBVIOUS
    <2>2. /\ IsFiniteSet(0..n)
          /\ Cardinality(0..n) = IF 0 > n THEN 0 ELSE n - 0 + 1
      BY ONLY <2>1, FS_Interval
    <2>3. ~(0 > n) /\ n - 0 + 1 = n + 1
      BY ONLY n \in Nat
    <2> QED BY ONLY <2>2, <2>3
  <1>7. PICK i, k \in 0..n : i # k /\ new[i] = new[k]
    <2> HIDE DEF new
    <2> DEFINE N == 0..n
    <2>1. IsFiniteSet(N) /\ Cardinality(D) < Cardinality(N) /\ new \in [N -> D]
      BY <1>3, <1>6
    <2> HIDE DEF N
    <2>2. \E i, k \in N : i # k /\ new[i] = new[k]
      BY ONLY <2>1, IsFiniteSet(D), FS_PigeonHole
    <2> QED BY <2>2 DEF N
  <1>8. i < k \/ k < i
    BY <1>7
  <1> HIDE DEF new
  <1> QED BY <1>5, <1>7, <1>8

Iterates(g, G, x, n, V) ==
  /\ g[0] = x
  /\ \A k \in 0..n : g[k] \in SUBSET V
  /\ \A k \in 1..n : g[k] = G[g[k - 1]]

\* The sets that a function of sets gives again and again.
LEMMA IterationType ==
  ASSUME NEW V, NEW G, G \in [SUBSET V -> SUBSET V], NEW x, x \in SUBSET V, NEW n \in Nat,
         NEW g, IsIteration(g, G, x, n)
  PROVE  Iterates(g, G, x, n, V)
  <1>1. \A k \in 0..n : g[k] = IF k = 0 THEN x ELSE G[g[k - 1]]
    BY DEF IsIteration
  <1>2. g[0] = x
    BY <1>1
  <1>3. \A k \in 1..n : g[k] = G[g[k - 1]]
    BY <1>1
  <1> DEFINE P == {k \in 0..n : g[k] \in SUBSET V}
  <1>4. 0 \in P
    BY <1>2
  <1>5. \A k \in 0..n : k # n /\ k \in P => k + 1 \in P
    <2>1. SUFFICES ASSUME NEW k \in 0..n, k # n, k \in P PROVE k + 1 \in P
      OBVIOUS
    <2>2. k + 1 \in 1..n /\ k + 1 \in 0..n /\ (k + 1) - 1 = k
      BY <2>1
    <2>3. g[k + 1] = G[g[k]]
      BY <1>3, <2>2
    <2> QED BY <2>1, <2>2, <2>3
  <1> HIDE DEF P
  <1>6. \A k \in 0..n : k \in P
    BY ONLY n \in Nat, <1>4, <1>5, UpToInduction
  <1> QED BY <1>2, <1>3, <1>6 DEF P, Iterates

\* A function of sets that only adds members of a set of n, applied n times,
\* has come to a fixed point.
LEMMA IterationHalts ==
  ASSUME NEW D, IsFiniteSet(D), NEW n \in Nat, n = Cardinality(D), NEW x,
         NEW G, G \in [SUBSET (x \cup D) -> SUBSET (x \cup D)],
         NEW g, IsIteration(g, G, x, n), \A k \in 0..n : g[k] \subseteq G[g[k]]
  PROVE  G[g[n]] = g[n]
  <1> DEFINE V == x \cup D
             c == [k \in 0..(n + 1) |-> IF k = n + 1 THEN G[g[n]] ELSE g[k]]
  <1>1. /\ g[0] = x
        /\ \A k \in 0..n : g[k] \in SUBSET V
        /\ \A k \in 1..n : g[k] = G[g[k - 1]]
    <2>1. x \in SUBSET V /\ G \in [SUBSET V -> SUBSET V]
      OBVIOUS
    <2> HIDE DEF V
    <2>2. Iterates(g, G, x, n, V)
      BY ONLY <2>1, n \in Nat, IsIteration(g, G, x, n), IterationType
    <2> QED BY <2>2 DEF Iterates
  <1>2. \A k \in 0..n : c[k] = g[k] /\ c[k + 1] = G[c[k]]
    <2>1. SUFFICES ASSUME NEW k \in 0..n PROVE c[k] = g[k] /\ c[k + 1] = G[c[k]]
      OBVIOUS
    <2>2. c[k] = g[k]
      OBVIOUS
    <2>3. CASE k = n
      BY <2>2, <2>3
    <2>4. CASE k # n
      <3>1. k + 1 \in 1..n /\ k + 1 \in 0..(n + 1) /\ k + 1 # n + 1 /\ (k + 1) - 1 = k
        BY <2>4
      <3>2. c[k + 1] = g[k + 1] /\ g[k + 1] = G[g[k]]
        BY <1>1, <3>1
      <3> QED BY <2>2, <3>2
    <2> QED BY <2>3, <2>4
  <1> HIDE DEF c
  <1>3. \A k \in 0..n : c[k] \subseteq c[k + 1] /\ c[k + 1] \subseteq c[k] \cup D
    <2>1. SUFFICES ASSUME NEW k \in 0..n PROVE c[k] \subseteq c[k + 1] /\ c[k + 1] \subseteq c[k] \cup D
      OBVIOUS
    <2>2. c[k] \subseteq c[k + 1]
      BY <1>2
    <2>3. c[k + 1] \subseteq x \cup D
      BY <1>1, <1>2
    <2>4. x \subseteq c[k]
      <3> DEFINE P == {j \in 0..n : x \subseteq c[j]}
      <3>1. 0 \in P
        BY <1>1, <1>2
      <3>2. \A j \in 0..n : j # n /\ j \in P => j + 1 \in P
        <4>1. SUFFICES ASSUME NEW j \in 0..n, j # n, x \subseteq c[j] PROVE j + 1 \in P
          OBVIOUS
        <4>2. j + 1 \in 0..n /\ c[j] \subseteq c[j + 1]
          BY <1>2, <4>1
        <4> QED BY <4>1, <4>2
      <3> HIDE DEF P
      <3>3. \A j \in 0..n : j \in P
        BY ONLY n \in Nat, <3>1, <3>2, UpToInduction
      <3> QED BY <3>3 DEF P
    <2> QED BY <2>2, <2>3, <2>4
  <1>4. PICK k \in 0..n : c[k + 1] = c[k]
    BY ONLY <1>3, n \in Nat, n = Cardinality(D), IsFiniteSet(D), ChainHalts
  <1> DEFINE P == {j \in 0..n : k <= j => c[j + 1] = c[j]}
  <1>5. 0 \in P
    BY <1>4
  <1>6. \A j \in 0..n : j # n /\ j \in P => j + 1 \in P
    <2>1. SUFFICES ASSUME NEW j \in 0..n, j # n, j \in P, k <= j + 1 PROVE c[(j + 1) + 1] = c[j + 1]
      OBVIOUS
    <2>2. j + 1 \in 0..n /\ (k = j + 1 \/ k <= j)
      BY <2>1
    <2>3. CASE k = j + 1
      BY <1>4, <2>3
    <2>4. CASE k <= j
      BY <1>2, <2>1, <2>2, <2>4
    <2> QED BY <2>2, <2>3, <2>4
  <1> HIDE DEF P
  <1>7. \A j \in 0..n : j \in P
    BY ONLY n \in Nat, <1>5, <1>6, UpToInduction
  <1>8. n \in 0..n /\ k <= n
    OBVIOUS
  <1>9. c[n + 1] = c[n]
    BY <1>7, <1>8 DEF P
  <1> QED BY <1>2, <1>8, <1>9
=============================================================================
