----------------------------- MODULE SumTheorems -----------------------------
(***************************************************************************)
(* Sums over finite sets: what SumFunctionOnSet of the community modules   *)
(* returns, for every function and every finite set.  The ledgers and the  *)
(* divisions of a budget are sums of it.                                   *)
(*                                                                         *)
(* It is a recursive function chosen to satisfy its equation, so first     *)
(* there has to be one (FoldExists), and where two such functions are both *)
(* defined they agree (FoldUnique).  The inductions over a set are by a    *)
(* smallest counterexample (SmallestSet), a set in place of a predicate.   *)
(***************************************************************************)
EXTENDS Integers, FiniteSets, FiniteSetsExt, FiniteSetTheorems, TLAPS

(* The equation of the sum over the subsets of S.                          *)
Picked(s) == CHOOSE x \in s : TRUE
IsFold(g, f, S) ==
  g = [s \in SUBSET S |-> IF s = {} THEN 0 ELSE f[Picked(s)] + g[s \ {Picked(s)}]]
SumFold(f, S) == CHOOSE g : IsFold(g, f, S)

-----------------------------------------------------------------------------
(* Among sets of finite subsets there is one that contains no other.       *)
LEMMA SmallestSet ==
  ASSUME NEW S, IsFiniteSet(S), NEW bad, bad \subseteq SUBSET S, bad # {}
  PROVE  \E T \in bad : \A U \in SUBSET T : U # T => U \notin bad
<1>1. bad \subseteq FiniteSubsetsOf(S)
  BY FS_Subset DEF FiniteSubsetsOf
<1>2. IsWellFoundedOn(StrictSubsetOrdering(S), FiniteSubsetsOf(S))
  BY FS_StrictSubsetOrderingWellFounded
<1>3. PICK T \in bad : \A U \in bad : ~ (<<U, T>> \in StrictSubsetOrdering(S))
  BY <1>1, <1>2, WFMin
<1>4. ASSUME NEW U \in SUBSET T, U # T, U \in bad PROVE FALSE
  <2>1. <<U, T>> \in StrictSubsetOrdering(S)
    BY <1>4 DEF StrictSubsetOrdering
  <2> QED BY <1>3, <1>4, <2>1
<1> QED BY <1>4

LEMMA FirstIn == \A s : s # {} => Picked(s) \in s
BY DEF Picked

LEMMA FoldSteps ==
  ASSUME NEW g, NEW f, NEW S, IsFold(g, f, S), NEW s \in SUBSET S
  PROVE  g[s] = IF s = {} THEN 0 ELSE f[Picked(s)] + g[s \ {Picked(s)}]
BY DEF IsFold

LEMMA FoldUnique ==
  ASSUME NEW f, NEW S, IsFiniteSet(S), NEW T, NEW g, NEW h, IsFold(g, f, S), IsFold(h, f, T),
         NEW s \in SUBSET S, s \in SUBSET T
  PROVE  g[s] = h[s]
<1> DEFINE bad == {u \in SUBSET s : g[u] # h[u]}
<1>1. IsFiniteSet(s)
  BY FS_Subset
<1>2. ASSUME bad # {} PROVE FALSE
  <2>1. PICK u \in bad : \A v \in SUBSET u : v # u => v \notin bad
    <3>1. bad \subseteq SUBSET s
      OBVIOUS
    <3> HIDE DEF bad
    <3> QED BY <1>1, <1>2, <3>1, SmallestSet
  <2>2. u \in SUBSET S /\ u \in SUBSET T /\ u \in SUBSET s
    OBVIOUS
  <2>3. CASE u = {}
    <3>1. g[u] = 0 /\ h[u] = 0
      BY <2>2, <2>3, FoldSteps
    <3> QED BY <3>1
  <2>4. CASE u # {}
    <3> DEFINE v == u \ {Picked(u)}
    <3>1. v \in SUBSET u /\ v # u
      BY <2>4, FirstIn
    <3>2. g[v] = h[v]
      BY <2>1, <2>2, <3>1
    <3>3. g[u] = f[Picked(u)] + g[v] /\ h[u] = f[Picked(u)] + h[v]
      BY <2>2, <2>4, FoldSteps
    <3> QED BY <3>2, <3>3
  <2> QED BY <2>3, <2>4
<1> QED BY <1>2

LEMMA FoldExists ==
  ASSUME NEW f, NEW S, IsFiniteSet(S)
  PROVE  IsFold(SumFold(f, S), f, S)
<1> DEFINE bad == {T \in SUBSET S : ~ \E g : IsFold(g, f, T)}
<1>1. ASSUME bad # {} PROVE FALSE
  <2>1. PICK T \in bad : \A U \in SUBSET T : U # T => U \notin bad
    <3>1. bad \subseteq SUBSET S
      OBVIOUS
    <3> HIDE DEF bad
    <3> QED BY <1>1, <3>1, SmallestSet
  <2>2. T \in SUBSET S /\ ~ \E g : IsFold(g, f, T)
    OBVIOUS
  <2>3. ASSUME NEW U \in SUBSET T, U # T PROVE IsFold(SumFold(f, U), f, U) /\ IsFiniteSet(U)
    <3>1. \E g : IsFold(g, f, U)
      BY <2>1, <2>2, <2>3
    <3>2. IsFiniteSet(U)
      BY <2>2, FS_Subset
    <3> QED BY <3>1, <3>2 DEF SumFold
  <2> DEFINE value(s) == SumFold(f, s)[s]
             whole == [s \in SUBSET T |-> IF s = {} THEN 0
                                          ELSE f[Picked(s)] + value(s \ {Picked(s)})]
  <2>4. ASSUME NEW s \in SUBSET T, s # {} PROVE whole[s \ {Picked(s)}] = value(s \ {Picked(s)})
    <3> DEFINE u == s \ {Picked(s)}
    <3>1. u \in SUBSET T /\ u # T
      BY <2>4, FirstIn
    <3>2. IsFold(SumFold(f, u), f, u) /\ IsFiniteSet(u)
      BY <2>3, <3>1
    <3>3. value(u) = IF u = {} THEN 0 ELSE f[Picked(u)] + SumFold(f, u)[u \ {Picked(u)}]
      BY <3>2, FoldSteps, ZenonT(30)
    <3>4. CASE u = {}
      BY <3>1, <3>3, <3>4
    <3>5. CASE u # {}
      <4> DEFINE v == u \ {Picked(u)}
      <4>1. v \in SUBSET T /\ v # T /\ v \in SUBSET u
        BY <3>1, <3>5, FirstIn
      <4>2. IsFold(SumFold(f, v), f, v)
        BY <2>3, <4>1
      <4>3. SumFold(f, u)[v] = SumFold(f, v)[v]
        <5>1. v \in SUBSET v
          OBVIOUS
        <5> QED BY <3>2, <4>1, <4>2, <5>1, FoldUnique
      <4> QED BY <3>1, <3>3, <3>5, <4>3
    <3> QED BY <3>4, <3>5
  <2>5. IsFold(whole, f, T)
    <3>1. whole = [s \in SUBSET T |-> IF s = {} THEN 0
                                      ELSE f[Picked(s)] + whole[s \ {Picked(s)}]]
      <4>1. \A s \in SUBSET T :
              (IF s = {} THEN 0 ELSE f[Picked(s)] + value(s \ {Picked(s)}))
                = (IF s = {} THEN 0 ELSE f[Picked(s)] + whole[s \ {Picked(s)}])
        BY <2>4
      <4>2. whole = [s \in SUBSET T |-> IF s = {} THEN 0
                                        ELSE f[Picked(s)] + value(s \ {Picked(s)})]
        OBVIOUS
      <4> HIDE DEF whole, value
      <4> QED BY <4>1, <4>2
    <3> QED BY <3>1 DEF IsFold
  <2> QED BY <2>2, <2>5
<1>2. \E g : IsFold(g, f, S)
  BY <1>1
<1> QED BY <1>2 DEF SumFold

(* The community modules' sum is this one.                                 *)
LEMMA SumIsFold ==
  ASSUME NEW f, NEW S
  PROVE  SumFunctionOnSet(f, S) = SumFold(f, S)[S]
BY DEF SumFunctionOnSet, FoldFunctionOnSet, MapThenFoldSet, SumFold, IsFold, Picked

-----------------------------------------------------------------------------
LEMMA SumEmpty ==
  ASSUME NEW f PROVE SumFunctionOnSet(f, {}) = 0
<1>1. IsFold(SumFold(f, {}), f, {})
  BY FoldExists, FS_EmptySet
<1>2. SumFold(f, {})[{}] = 0
  BY <1>1, FoldSteps
<1> QED BY <1>2, SumIsFold

LEMMA SumFirst ==
  ASSUME NEW f, NEW S, IsFiniteSet(S), S # {}
  PROVE  SumFunctionOnSet(f, S) = f[Picked(S)] + SumFunctionOnSet(f, S \ {Picked(S)})
<1> DEFINE U == S \ {Picked(S)}
<1>1. U \in SUBSET S /\ IsFiniteSet(U)
  BY FS_Subset
<1>2. IsFold(SumFold(f, S), f, S) /\ IsFold(SumFold(f, U), f, U)
  BY <1>1, FoldExists
<1>3. SumFold(f, S)[S] = f[Picked(S)] + SumFold(f, S)[U]
  <2>1. S \in SUBSET S
    OBVIOUS
  <2> QED BY <1>2, <2>1, FoldSteps
<1>4. SumFold(f, S)[U] = SumFold(f, U)[U]
  <2>1. PICK g, h, V : g = SumFold(f, S) /\ h = SumFold(f, U) /\ V = U
    OBVIOUS
  <2>2. IsFold(g, f, S) /\ IsFold(h, f, V) /\ V \in SUBSET S /\ V \in SUBSET V
    BY <1>1, <1>2, <2>1
  <2>3. g[V] = h[V]
    BY <2>2, FoldUnique
  <2> QED BY <2>1, <2>3
<1> QED BY <1>3, <1>4, SumIsFold

(* Sums of integers are integers.                                          *)
LEMMA SumInt ==
  ASSUME NEW f, NEW S, IsFiniteSet(S), \A x \in S : f[x] \in Int
  PROVE  SumFunctionOnSet(f, S) \in Int
<1> DEFINE bad == {T \in SUBSET S : SumFunctionOnSet(f, T) \notin Int}
<1>1. ASSUME bad # {} PROVE FALSE
  <2>1. PICK T \in bad : \A U \in SUBSET T : U # T => U \notin bad
    <3>1. bad \subseteq SUBSET S
      OBVIOUS
    <3> HIDE DEF bad
    <3> QED BY <1>1, <3>1, SmallestSet
  <2>2. T \in SUBSET S /\ IsFiniteSet(T)
    BY FS_Subset
  <2>3. T # {}
    BY SumEmpty
  <2> DEFINE U == T \ {Picked(T)}
  <2>4. Picked(T) \in T /\ U \in SUBSET T /\ U # T
    BY <2>3, FirstIn
  <2>5. SumFunctionOnSet(f, U) \in Int
    BY <2>1, <2>2, <2>4
  <2>6. SumFunctionOnSet(f, T) = f[Picked(T)] + SumFunctionOnSet(f, U)
    BY <2>2, <2>3, SumFirst
  <2> QED BY <2>2, <2>4, <2>5, <2>6
<1> QED BY <1>1

(* Any element may be taken out first.                                     *)
LEMMA SumRemove ==
  ASSUME NEW f, NEW S, IsFiniteSet(S), \A x \in S : f[x] \in Int, NEW e \in S
  PROVE  SumFunctionOnSet(f, S) = f[e] + SumFunctionOnSet(f, S \ {e})
<1> DEFINE bad == {T \in SUBSET S : \E x \in T :
                     SumFunctionOnSet(f, T) # f[x] + SumFunctionOnSet(f, T \ {x})}
<1>1. ASSUME bad # {} PROVE FALSE
  <2>1. PICK T \in bad : \A U \in SUBSET T : U # T => U \notin bad
    <3>1. bad \subseteq SUBSET S
      OBVIOUS
    <3> HIDE DEF bad
    <3> QED BY <1>1, <3>1, SmallestSet
  <2>2. PICK x \in T : SumFunctionOnSet(f, T) # f[x] + SumFunctionOnSet(f, T \ {x})
    OBVIOUS
  <2>3. T \in SUBSET S /\ IsFiniteSet(T) /\ T # {}
    BY FS_Subset
  <2>4. PICK y : y = Picked(T)
    OBVIOUS
  <2>5. y \in T /\ SumFunctionOnSet(f, T) = f[y] + SumFunctionOnSet(f, T \ {y})
    BY <2>3, <2>4, FirstIn, SumFirst
  <2>6. x # y
    BY <2>2, <2>5
  <2>7. /\ T \ {y} \in SUBSET T /\ T \ {y} # T /\ x \in T \ {y}
        /\ T \ {x} \in SUBSET T /\ T \ {x} # T /\ y \in T \ {x}
        /\ (T \ {y}) \ {x} = (T \ {x}) \ {y}
    BY <2>5, <2>6
  <2>8. SumFunctionOnSet(f, T \ {y}) = f[x] + SumFunctionOnSet(f, (T \ {y}) \ {x})
    BY <2>1, <2>3, <2>7
  <2>9. SumFunctionOnSet(f, T \ {x}) = f[y] + SumFunctionOnSet(f, (T \ {x}) \ {y})
    BY <2>1, <2>3, <2>7
  <2>10. SumFunctionOnSet(f, (T \ {x}) \ {y}) \in Int
    <3>1. (T \ {x}) \ {y} \in SUBSET S /\ IsFiniteSet((T \ {x}) \ {y})
      BY <2>3, FS_Subset
    <3> QED BY <3>1, SumInt
  <2>11. f[x] \in Int /\ f[y] \in Int
    BY <2>3, <2>5
  <2>12. PICK n \in Int : n = SumFunctionOnSet(f, (T \ {x}) \ {y})
    BY <2>10
  <2>13. SumFunctionOnSet(f, T \ {y}) = f[x] + n
    BY <2>7, <2>8, <2>12
  <2>14. SumFunctionOnSet(f, T \ {x}) = f[y] + n
    BY <2>9, <2>12
  <2>15. SumFunctionOnSet(f, T) = f[y] + (f[x] + n)
    BY <2>5, <2>13
  <2>16. SumFunctionOnSet(f, T) # f[x] + (f[y] + n)
    BY <2>2, <2>14
  <2> QED BY <2>11, <2>15, <2>16
<1> QED BY <1>1

(* A sum of smaller terms is no larger.                                    *)
LEMMA SumBelow ==
  ASSUME NEW f, NEW g, NEW S, IsFiniteSet(S),
         \A x \in S : f[x] \in Int /\ g[x] \in Int /\ f[x] <= g[x]
  PROVE  SumFunctionOnSet(f, S) <= SumFunctionOnSet(g, S)
<1> DEFINE bad == {T \in SUBSET S : ~ (SumFunctionOnSet(f, T) <= SumFunctionOnSet(g, T))}
<1>1. ASSUME bad # {} PROVE FALSE
  <2>1. PICK T \in bad : \A U \in SUBSET T : U # T => U \notin bad
    <3>1. bad \subseteq SUBSET S
      OBVIOUS
    <3> HIDE DEF bad
    <3> QED BY <1>1, <3>1, SmallestSet
  <2>2. T \in SUBSET S /\ IsFiniteSet(T)
    BY FS_Subset
  <2>3. T # {}
    BY SumEmpty
  <2>4. PICK x \in T : TRUE
    BY <2>3
  <2>5. PICK U \in SUBSET T : U = T \ {x}
    OBVIOUS
  <2>6. U # T /\ U \in SUBSET S /\ IsFiniteSet(U) /\ x \in S
    BY <2>2, <2>4, <2>5, FS_Subset
  <2>7. U \notin bad
    BY <2>1, <2>6
  <2>8. /\ SumFunctionOnSet(f, T) = f[x] + SumFunctionOnSet(f, U)
        /\ SumFunctionOnSet(g, T) = g[x] + SumFunctionOnSet(g, U)
    BY <2>2, <2>5, SumRemove
  <2>9. SumFunctionOnSet(f, U) \in Int /\ SumFunctionOnSet(g, U) \in Int
    BY <2>6, SumInt
  <2>10. SumFunctionOnSet(f, U) <= SumFunctionOnSet(g, U)
    BY <2>6, <2>7
  <2>11. ~ (SumFunctionOnSet(f, T) <= SumFunctionOnSet(g, T))
    BY <2>1
  <2>12. f[x] \in Int /\ g[x] \in Int /\ f[x] <= g[x]
    BY <2>6
  <2> QED BY <2>8, <2>9, <2>10, <2>11, <2>12
<1> QED BY <1>1

(* The sum of sums.                                                        *)
LEMMA SumPlus ==
  ASSUME NEW f, NEW g, NEW h, NEW S, IsFiniteSet(S),
         \A x \in S : f[x] \in Int /\ g[x] \in Int /\ h[x] = f[x] + g[x]
  PROVE  SumFunctionOnSet(h, S) = SumFunctionOnSet(f, S) + SumFunctionOnSet(g, S)
<1> DEFINE bad == {T \in SUBSET S : SumFunctionOnSet(h, T) # SumFunctionOnSet(f, T) + SumFunctionOnSet(g, T)}
<1>1. ASSUME bad # {} PROVE FALSE
  <2>1. PICK T \in bad : \A U \in SUBSET T : U # T => U \notin bad
    <3>1. bad \subseteq SUBSET S
      OBVIOUS
    <3> HIDE DEF bad
    <3> QED BY <1>1, <3>1, SmallestSet
  <2>2. T \in SUBSET S /\ IsFiniteSet(T)
    BY FS_Subset
  <2>3. T # {}
    <3>1. SumFunctionOnSet(f, {}) = 0 /\ SumFunctionOnSet(g, {}) = 0 /\ SumFunctionOnSet(h, {}) = 0
      BY SumEmpty
    <3>2. ASSUME T = {} PROVE FALSE
      BY <2>1, <3>1, <3>2
    <3> QED BY <3>2
  <2>4. PICK x \in T : TRUE
    BY <2>3
  <2>5. PICK U \in SUBSET T : U = T \ {x}
    OBVIOUS
  <2>6. U # T /\ U \in SUBSET S /\ IsFiniteSet(U) /\ x \in S
    BY <2>2, <2>4, <2>5, FS_Subset
  <2>7. U \notin bad
    BY <2>1, <2>6
  <2>8. /\ SumFunctionOnSet(f, T) = f[x] + SumFunctionOnSet(f, U)
        /\ SumFunctionOnSet(g, T) = g[x] + SumFunctionOnSet(g, U)
        /\ SumFunctionOnSet(h, T) = h[x] + SumFunctionOnSet(h, U)
    BY <2>2, <2>5, SumRemove
  <2>9. SumFunctionOnSet(f, U) \in Int /\ SumFunctionOnSet(g, U) \in Int
    BY <2>6, SumInt
  <2>10. SumFunctionOnSet(h, U) = SumFunctionOnSet(f, U) + SumFunctionOnSet(g, U)
    BY <2>6, <2>7
  <2>11. SumFunctionOnSet(h, T) # SumFunctionOnSet(f, T) + SumFunctionOnSet(g, T)
    BY <2>1
  <2>12. f[x] \in Int /\ g[x] \in Int /\ h[x] = f[x] + g[x]
    BY <2>6
  <2> QED BY <2>8, <2>9, <2>10, <2>11, <2>12
<1> QED BY <1>1

(* Sums of the same terms are the same.                                    *)
LEMMA SumSame ==
  ASSUME NEW f, NEW g, NEW S, IsFiniteSet(S), \A x \in S : f[x] \in Int /\ f[x] = g[x]
  PROVE  SumFunctionOnSet(f, S) = SumFunctionOnSet(g, S)
<1>1. /\ SumFunctionOnSet(f, S) <= SumFunctionOnSet(g, S)
      /\ SumFunctionOnSet(g, S) <= SumFunctionOnSet(f, S)
  BY SumBelow
<1>2. SumFunctionOnSet(f, S) \in Int /\ SumFunctionOnSet(g, S) \in Int
  BY SumInt
<1> QED BY <1>1, <1>2

(* A sum of naturals is one.                                               *)
LEMMA SumNat ==
  ASSUME NEW f, NEW S, IsFiniteSet(S), \A x \in S : f[x] \in Nat
  PROVE  SumFunctionOnSet(f, S) \in Nat
<1> DEFINE bad == {T \in SUBSET S : SumFunctionOnSet(f, T) \notin Nat}
<1>1. ASSUME bad # {} PROVE FALSE
  <2>1. PICK T \in bad : \A U \in SUBSET T : U # T => U \notin bad
    <3>1. bad \subseteq SUBSET S
      OBVIOUS
    <3> HIDE DEF bad
    <3> QED BY <1>1, <3>1, SmallestSet
  <2>2. T \in SUBSET S /\ IsFiniteSet(T)
    BY FS_Subset
  <2>3. T # {}
    BY SumEmpty
  <2>4. PICK x \in T : TRUE
    BY <2>3
  <2>5. PICK U \in SUBSET T : U = T \ {x}
    OBVIOUS
  <2>6. U # T /\ U \in SUBSET S /\ IsFiniteSet(U) /\ x \in S
    BY <2>2, <2>4, <2>5, FS_Subset
  <2>7. U \notin bad
    BY <2>1, <2>6
  <2>8. SumFunctionOnSet(f, T) = f[x] + SumFunctionOnSet(f, U)
    BY <2>2, <2>5, SumRemove
  <2>9. SumFunctionOnSet(f, U) \in Nat /\ f[x] \in Nat
    BY <2>6, <2>7
  <2> QED BY <2>1, <2>8, <2>9
<1> QED BY <1>1

(* A sum in two parts.                                                     *)
LEMMA SumSplit ==
  ASSUME NEW f, NEW S, IsFiniteSet(S), NEW R, \A x \in S : f[x] \in Int
  PROVE  SumFunctionOnSet(f, S) = SumFunctionOnSet(f, S \cap R) + SumFunctionOnSet(f, S \ R)
<1> DEFINE bad == {T \in SUBSET S : SumFunctionOnSet(f, T) # SumFunctionOnSet(f, T \cap R) + SumFunctionOnSet(f, T \ R)}
<1>1. ASSUME bad # {} PROVE FALSE
  <2>1. PICK T \in bad : \A U \in SUBSET T : U # T => U \notin bad
    <3>1. bad \subseteq SUBSET S
      OBVIOUS
    <3> HIDE DEF bad
    <3> QED BY <1>1, <3>1, SmallestSet
  <2>2. T \in SUBSET S /\ IsFiniteSet(T)
    BY FS_Subset
  <2>3. T # {}
    <3>1. SumFunctionOnSet(f, {}) = 0 /\ {} \cap R = {} /\ {} \ R = {}
      BY SumEmpty
    <3>2. ASSUME T = {} PROVE FALSE
      BY <2>1, <3>1, <3>2
    <3> QED BY <3>2
  <2>4. PICK x \in T : TRUE
    BY <2>3
  <2>5. PICK U \in SUBSET T : U = T \ {x}
    OBVIOUS
  <2>6. U # T /\ U \in SUBSET S /\ IsFiniteSet(U) /\ x \in S
    BY <2>2, <2>4, <2>5, FS_Subset
  <2>7. U \notin bad
    BY <2>1, <2>6
  <2>8. SumFunctionOnSet(f, T) = f[x] + SumFunctionOnSet(f, U)
    BY <2>2, <2>5, SumRemove
  <2>9. SumFunctionOnSet(f, U) = SumFunctionOnSet(f, U \cap R) + SumFunctionOnSet(f, U \ R)
    BY <2>6, <2>7
  <2>10. /\ IsFiniteSet(U \cap R) /\ IsFiniteSet(U \ R) /\ IsFiniteSet(T \cap R) /\ IsFiniteSet(T \ R)
         /\ T \cap R \in SUBSET S /\ T \ R \in SUBSET S /\ U \cap R \in SUBSET S /\ U \ R \in SUBSET S
    BY <2>2, <2>6, FS_Subset
  <2>11. SumFunctionOnSet(f, U \cap R) \in Int /\ SumFunctionOnSet(f, U \ R) \in Int /\ f[x] \in Int
    BY <2>6, <2>10, SumInt
  <2>12. SumFunctionOnSet(f, T) # SumFunctionOnSet(f, T \cap R) + SumFunctionOnSet(f, T \ R)
    BY <2>1
  <2>13. CASE x \in R
    <3>1. x \in T \cap R /\ (T \cap R) \ {x} = U \cap R /\ T \ R = U \ R
      BY <2>4, <2>5, <2>13
    <3>2. SumFunctionOnSet(f, T \cap R) = f[x] + SumFunctionOnSet(f, U \cap R)
      BY <2>10, <3>1, SumRemove
    <3>3. PICK m \in Int, n \in Int :
            m = SumFunctionOnSet(f, U \cap R) /\ n = SumFunctionOnSet(f, U \ R)
      BY <2>11
    <3>4. SumFunctionOnSet(f, T) = f[x] + (m + n)
      BY <2>8, <2>9, <3>3
    <3>5. SumFunctionOnSet(f, T) # (f[x] + m) + n
      BY <2>12, <3>1, <3>2, <3>3
    <3> QED BY <2>11, <3>4, <3>5
  <2>14. CASE x \notin R
    <3>1. x \in T \ R /\ (T \ R) \ {x} = U \ R /\ T \cap R = U \cap R
      BY <2>4, <2>5, <2>14
    <3>2. SumFunctionOnSet(f, T \ R) = f[x] + SumFunctionOnSet(f, U \ R)
      BY <2>10, <3>1, SumRemove
    <3>3. PICK m \in Int, n \in Int :
            m = SumFunctionOnSet(f, U \cap R) /\ n = SumFunctionOnSet(f, U \ R)
      BY <2>11
    <3>4. SumFunctionOnSet(f, T) = f[x] + (m + n)
      BY <2>8, <2>9, <3>3
    <3>5. SumFunctionOnSet(f, T) # m + (f[x] + n)
      BY <2>12, <3>1, <3>2, <3>3
    <3> QED BY <2>11, <3>4, <3>5
  <2> QED BY <2>13, <2>14
<1> QED BY <1>1

(* A part of a sum of naturals is no larger.                               *)
LEMMA SumPart ==
  ASSUME NEW f, NEW S, IsFiniteSet(S), \A x \in S : f[x] \in Nat, NEW R, R \subseteq S
  PROVE  SumFunctionOnSet(f, R) <= SumFunctionOnSet(f, S)
<1>1. S \cap R = R /\ IsFiniteSet(R) /\ IsFiniteSet(S \ R)
  BY FS_Subset
<1>2. SumFunctionOnSet(f, R) \in Nat /\ SumFunctionOnSet(f, S \ R) \in Nat
  BY <1>1, SumNat
<1>3. SumFunctionOnSet(f, S) = SumFunctionOnSet(f, R) + SumFunctionOnSet(f, S \ R)
  BY <1>1, SumSplit
<1> QED BY <1>2, <1>3

(* One term changes.                                                       *)
LEMMA SumAt ==
  ASSUME NEW f, NEW g, NEW S, IsFiniteSet(S), NEW e \in S, g[e] \in Int,
         \A x \in S : f[x] \in Int /\ (x # e => g[x] = f[x])
  PROVE  SumFunctionOnSet(g, S) = SumFunctionOnSet(f, S) - f[e] + g[e]
<1>1. IsFiniteSet(S \ {e})
  BY FS_Subset
<1>2. SumFunctionOnSet(f, S \ {e}) = SumFunctionOnSet(g, S \ {e})
  BY <1>1, SumSame
<1>3. /\ SumFunctionOnSet(f, S) = f[e] + SumFunctionOnSet(f, S \ {e})
      /\ SumFunctionOnSet(g, S) = g[e] + SumFunctionOnSet(g, S \ {e})
  BY SumRemove
<1>4. SumFunctionOnSet(f, S \ {e}) \in Int
  BY <1>1, SumInt
<1> QED BY <1>2, <1>3, <1>4

(* Equal terms.                                                            *)
LEMMA SumConst ==
  ASSUME NEW f, NEW S, IsFiniteSet(S), NEW c \in Int, \A x \in S : f[x] = c
  PROVE  SumFunctionOnSet(f, S) = Cardinality(S) * c
<1> DEFINE bad == {T \in SUBSET S : SumFunctionOnSet(f, T) # Cardinality(T) * c}
<1>1. ASSUME bad # {} PROVE FALSE
  <2>1. PICK T \in bad : \A U \in SUBSET T : U # T => U \notin bad
    <3>1. bad \subseteq SUBSET S
      OBVIOUS
    <3> HIDE DEF bad
    <3> QED BY <1>1, <3>1, SmallestSet
  <2>2. T \in SUBSET S /\ IsFiniteSet(T)
    BY FS_Subset
  <2>3. T # {}
    BY FS_EmptySet, SumEmpty
  <2>4. PICK e \in T : TRUE
    BY <2>3
  <2>5. SumFunctionOnSet(f, T) = f[e] + SumFunctionOnSet(f, T \ {e})
    BY <2>2, SumRemove
  <2>6. SumFunctionOnSet(f, T \ {e}) = Cardinality(T \ {e}) * c
    BY <2>1, <2>2
  <2>7. Cardinality(T \ {e}) = Cardinality(T) - 1 /\ Cardinality(T) \in Nat
    BY <2>2, FS_RemoveElement, FS_CardinalityType
  <2>8. \A n \in Nat : c + (n - 1) * c = n * c
    OBVIOUS
  <2>9. c + (Cardinality(T) - 1) * c = Cardinality(T) * c
    BY <2>7, <2>8
  <2> QED BY <2>2, <2>5, <2>6, <2>7, <2>9
<1> QED BY <1>1

(* Terms that are nothing.                                                 *)
LEMMA SumZero ==
  ASSUME NEW f, NEW S, IsFiniteSet(S), \A x \in S : f[x] = 0
  PROVE  SumFunctionOnSet(f, S) = 0
<1>1. SumFunctionOnSet(f, S) = Cardinality(S) * 0 /\ Cardinality(S) \in Nat
  BY SumConst, FS_CardinalityType
<1> QED BY <1>1

(* A term of a sum of naturals.                                            *)
LEMMA SumTerm ==
  ASSUME NEW f, NEW S, IsFiniteSet(S), \A x \in S : f[x] \in Nat, NEW e \in S
  PROVE  f[e] <= SumFunctionOnSet(f, S)
<1>1. SumFunctionOnSet(f, S) = f[e] + SumFunctionOnSet(f, S \ {e})
  BY SumRemove
<1>2. SumFunctionOnSet(f, S \ {e}) \in Nat
  BY FS_Subset, SumNat
<1> QED BY <1>1, <1>2

LEMMA SumRest ==
  ASSUME NEW f, NEW S, IsFiniteSet(S), \A x \in S : f[x] \in Int, NEW R, R \subseteq S
  PROVE  SumFunctionOnSet(f, S) = SumFunctionOnSet(f, R) + SumFunctionOnSet(f, S \ R)
<1>1. S \cap R = R
  OBVIOUS
<1> QED BY <1>1, SumSplit, Z3

(* A term that is there only for the elements of R.                        *)
LEMMA SumWithin ==
  ASSUME NEW f, NEW g, NEW S, IsFiniteSet(S), NEW R, R \subseteq S,
         \A x \in R : f[x] \in Int /\ g[x] = f[x], \A x \in S \ R : g[x] = 0
  PROVE  SumFunctionOnSet(g, S) = SumFunctionOnSet(f, R)
<1>1. IsFiniteSet(R) /\ IsFiniteSet(S \ R) /\ S \cap R = R
  BY FS_Subset
<1>2. SumFunctionOnSet(g, S) = SumFunctionOnSet(g, R) + SumFunctionOnSet(g, S \ R)
  <2>1. \A x \in S : g[x] \in Int
    OBVIOUS
  <2> QED BY <2>1, SumRest
<1>3. SumFunctionOnSet(g, S \ R) = 0
  BY <1>1, SumZero
<1>4. SumFunctionOnSet(g, R) = SumFunctionOnSet(f, R) /\ SumFunctionOnSet(f, R) \in Int
  BY <1>1, SumSame, SumInt
<1> QED BY <1>2, <1>3, <1>4

=============================================================================
