---------------------------- MODULE SumTheorems ----------------------------
(***************************************************************************)
(* Sums of a function over a finite set: what the books of the vault, the  *)
(* bid escrow and the gas ledger are compared with.  SumFunctionOnSet is   *)
(* a fold, that is, a recursive function on the subsets of the set; the    *)
(* first part shows that there is such a function, the second that it      *)
(* adds up, whichever element is taken out first.                          *)
(*                                                                         *)
(* Induction takes the form of a least counterexample: a set of subsets of *)
(* a finite set has a smallest one.                                        *)
(***************************************************************************)
EXTENDS Integers, FiniteSets, Functions, FiniteSetTheorems, WellFoundedInduction, TLAPS

Some(s) == CHOOSE x \in s : TRUE
Step(f, s, h) == IF s = {} THEN 0 ELSE f[Some(s)] + h[s \ {Some(s)}]
\* h adds up f on the subsets of S.
Sums(f, S, h) == h = [s \in SUBSET S |-> Step(f, s, h)]
TheSums(f, S) == CHOOSE h : Sums(f, S, h)

---------------------------------------------------------------------------
LEMMA LeastSubset ==
    ASSUME NEW S, IsFiniteSet(S), NEW B, B \subseteq SUBSET S, B # {}
    PROVE  \E T \in B : \A U \in B : U \subseteq T => U = T
<1>1. IsWellFoundedOn(StrictSubsetOrdering(S), SUBSET S)
  BY FS_StrictSubsetOrderingWellFounded, FS_FiniteSubsetsOfFinite
<1>2. PICK T \in B : \A U \in B : ~ (<<U, T>> \in StrictSubsetOrdering(S))
  BY <1>1, WFMin, Zenon
<1>3. ASSUME NEW U \in B, U \subseteq T, U # T PROVE FALSE
  <2>1. U \in SUBSET S /\ T \in SUBSET S
    OBVIOUS
  <2> QED
    BY <1>2, <1>3, <2>1 DEF StrictSubsetOrdering
<1> QED
  BY <1>3

LEMMA SomeIsElement == ASSUME NEW s, s # {} PROVE Some(s) \in s
  BY DEF Some

\* Two such functions agree wherever both are defined.
LEMMA SumsAgree ==
    ASSUME NEW f, NEW S, IsFiniteSet(S), NEW T, T \subseteq S,
           NEW g, NEW h, Sums(f, S, g), Sums(f, T, h)
    PROVE  \A s \in SUBSET T : g[s] = h[s]
<1> DEFINE Bad == {s \in SUBSET T : g[s] # h[s]}
<1>1. ASSUME Bad # {} PROVE FALSE
  <2>1. IsFiniteSet(T)
    BY FS_Subset
  <2>2. PICK s \in Bad : \A u \in Bad : u \subseteq s => u = s
    <3>1. Bad \subseteq SUBSET T
      OBVIOUS
    <3> HIDE DEF Bad
    <3> QED
      BY <1>1, <2>1, <3>1, LeastSubset
  <2>3. g[s] = Step(f, s, g) /\ h[s] = Step(f, s, h)
    <3>1. s \in SUBSET S /\ s \in SUBSET T
      OBVIOUS
    <3>2. \A x \in SUBSET S : g[x] = Step(f, x, g)
      BY DEF Sums
    <3>3. \A x \in SUBSET T : h[x] = Step(f, x, h)
      BY DEF Sums
    <3> QED
      BY <3>1, <3>2, <3>3
  <2>4. s # {}
    BY <2>3 DEF Step
  <2>5. s \ {Some(s)} \in SUBSET T /\ s \ {Some(s)} # s
    BY <2>4, SomeIsElement
  <2>6. g[s \ {Some(s)}] = h[s \ {Some(s)}]
    BY <2>2, <2>5
  <2> QED
    BY <2>3, <2>4, <2>6 DEF Step
<1> QED
  BY <1>1

\* There is one: from those of the smaller sets.
LEMMA SumsExist == ASSUME NEW f, NEW S, IsFiniteSet(S) PROVE \E h : Sums(f, S, h)
<1> DEFINE Bad == {s \in SUBSET S : ~ \E h : Sums(f, s, h)}
<1>1. ASSUME Bad # {} PROVE FALSE
  <2>2. PICK T \in Bad : \A u \in Bad : u \subseteq T => u = T
    <3>1. Bad \subseteq SUBSET S
      OBVIOUS
    <3> HIDE DEF Bad
    <3> QED
      BY <1>1, <3>1, LeastSubset
  <2>3. ASSUME NEW u, u \subseteq T, u # T PROVE Sums(f, u, TheSums(f, u))
    <3>1. \E h : Sums(f, u, h)
      BY <2>2, <2>3
    <3> QED
      BY <3>1 DEF TheSums
  <2> DEFINE Val(s) == IF s = {} THEN 0
                       ELSE f[Some(s)] + TheSums(f, s \ {Some(s)})[s \ {Some(s)}]
             h == [s \in SUBSET T |-> Val(s)]
  <2>4. ASSUME NEW s \in SUBSET T, s # {}
        PROVE  h[s \ {Some(s)}] = TheSums(f, s \ {Some(s)})[s \ {Some(s)}]
    <3> DEFINE u == s \ {Some(s)}
               g == TheSums(f, u)
    <3>1. u \subseteq T /\ u # T
      BY <2>4, SomeIsElement
    <3>2. Sums(f, u, g)
      BY <3>1, <2>3
    <3>3. g[u] = Step(f, u, g)
      <4>1. \A x \in SUBSET u : g[x] = Step(f, x, g)
        BY <3>2 DEF Sums
      <4> QED
        BY <4>1
    <3>4. h[u] = Val(u)
      BY <3>1
    <3>5. CASE u = {}
      BY <3>3, <3>4, <3>5 DEF Step
    <3>6. CASE u # {}
      <4> DEFINE v == u \ {Some(u)}
      <4>1. v \subseteq u /\ v # u /\ v \subseteq T /\ v # T
        BY <3>1, <3>6, SomeIsElement
      <4>2. Sums(f, v, TheSums(f, v))
        BY <4>1, <2>3
      <4>3. IsFiniteSet(u)
        BY <3>1, FS_Subset
      <4>4. g[v] = TheSums(f, v)[v]
        <5>1. v \in SUBSET v
          OBVIOUS
        <5> HIDE DEF u, v, g
        <5> QED
          BY <3>2, <4>1, <4>2, <4>3, <5>1, SumsAgree
      <4> QED
        BY <3>3, <3>4, <3>6, <4>4 DEF Step
    <3> QED
      BY <3>5, <3>6
  <2>5. ASSUME NEW s \in SUBSET T PROVE Val(s) = Step(f, s, h)
    BY <2>4 DEF Step
  <2>6. h = [s \in SUBSET T |-> Step(f, s, h)]
    BY <2>5
  <2>7. Sums(f, T, h)
    BY <2>6 DEF Sums
  <2> QED
    BY <2>7
<1> QED
  BY <1>1

LEMMA TheSumsAreSums == ASSUME NEW f, NEW S, IsFiniteSet(S) PROVE Sums(f, S, TheSums(f, S))
  BY SumsExist DEF TheSums

\* The fold is that function at the whole set.
LEMMA SumIsTheSums == ASSUME NEW f, NEW S PROVE SumFunctionOnSet(f, S) = TheSums(f, S)[S]
  BY DEF SumFunctionOnSet, FoldFunctionOnSet, MapThenFoldSet, TheSums, Sums, Step, Some

---------------------------------------------------------------------------
\* What a sum is, for functions to the integers.
LEMMA SumEmpty == ASSUME NEW f PROVE SumFunctionOnSet(f, {}) = 0
<1>1. IsFiniteSet({})
  BY FS_EmptySet
<1>2. Sums(f, {}, TheSums(f, {}))
  BY <1>1, TheSumsAreSums
<1>3. TheSums(f, {})[{}] = Step(f, {}, TheSums(f, {}))
  BY <1>2 DEF Sums
<1> QED
  BY <1>3, SumIsTheSums DEF Step

LEMMA SumUnfolds ==
    ASSUME NEW f, NEW S, IsFiniteSet(S), S # {}
    PROVE  SumFunctionOnSet(f, S) = f[Some(S)] + SumFunctionOnSet(f, S \ {Some(S)})
<1> DEFINE g == TheSums(f, S)
           T == S \ {Some(S)}
<1>1. Sums(f, S, g) /\ Sums(f, T, TheSums(f, T))
  <2>1. IsFiniteSet(T)
    BY FS_Subset
  <2> QED
    BY <2>1, TheSumsAreSums
<1>2. g[S] = f[Some(S)] + g[T]
  <2>1. \A s \in SUBSET S : g[s] = Step(f, s, g)
    BY <1>1 DEF Sums
  <2> QED
    BY <2>1 DEF Step
<1>3. g[T] = TheSums(f, T)[T]
  <2>1. T \subseteq S /\ T \in SUBSET T
    OBVIOUS
  <2> HIDE DEF g, T
  <2> QED
    BY <1>1, <2>1, SumsAgree
<1> QED
  BY <1>2, <1>3, SumIsTheSums

LEMMA SumType ==
    ASSUME NEW S, IsFiniteSet(S), NEW V, V = Nat \/ V = Int, NEW f, \A x \in S : f[x] \in V
    PROVE  SumFunctionOnSet(f, S) \in V
<1> DEFINE Bad == {s \in SUBSET S : SumFunctionOnSet(f, s) \notin V}
<1>1. ASSUME Bad # {} PROVE FALSE
  <2>1. PICK s \in Bad : \A u \in Bad : u \subseteq s => u = s
    <3>1. Bad \subseteq SUBSET S
      OBVIOUS
    <3> HIDE DEF Bad
    <3> QED
      BY <1>1, <3>1, LeastSubset
  <2>2. s # {}
    BY SumEmpty
  <2>3. Some(s) \in s /\ IsFiniteSet(s)
    BY <2>2, SomeIsElement, FS_Subset
  <2>4. SumFunctionOnSet(f, s \ {Some(s)}) \in V
    BY <2>1, <2>3
  <2>5. SumFunctionOnSet(f, s) = f[Some(s)] + SumFunctionOnSet(f, s \ {Some(s)})
    BY <2>2, <2>3, SumUnfolds
  <2>6. f[Some(s)] \in V
    BY <2>3
  <2>7. SumFunctionOnSet(f, s) \in V
    BY <2>4, <2>5, <2>6
  <2> QED
    BY <2>7
<1> QED
  BY <1>1

\* Any element may be taken out first.
LEMMA SumElement ==
    ASSUME NEW S, IsFiniteSet(S), NEW f, \A x \in S : f[x] \in Int, NEW e \in S
    PROVE  SumFunctionOnSet(f, S) = f[e] + SumFunctionOnSet(f, S \ {e})
<1> DEFINE Apart(s, x) == SumFunctionOnSet(f, s) = f[x] + SumFunctionOnSet(f, s \ {x})
           Bad == {s \in SUBSET S : \E x \in s : ~ Apart(s, x)}
<1>1. ASSUME Bad # {} PROVE FALSE
  <2>1. PICK s \in Bad : \A u \in Bad : u \subseteq s => u = s
    <3>1. Bad \subseteq SUBSET S
      OBVIOUS
    <3> HIDE DEF Bad
    <3> QED
      BY <1>1, <3>1, LeastSubset
  <2>2. PICK x \in s : ~ Apart(s, x)
    OBVIOUS
  <2> DEFINE c == Some(s)
  <2>3. c \in s
    BY SomeIsElement
  <2>4. ASSUME NEW u \in SUBSET S PROVE SumFunctionOnSet(f, u) \in Int
    <3>1. IsFiniteSet(u)
      BY FS_Subset
    <3> QED
      BY <3>1, SumType
  <2>5. Apart(s, c)
    <3>1. IsFiniteSet(s)
      BY FS_Subset
    <3> QED
      BY <3>1, <2>2, SumUnfolds
  <2>6. x # c
    BY <2>2, <2>5
  <2> HIDE DEF c
  <2>7. ASSUME NEW y \in s, NEW z \in s, z # y PROVE Apart(s \ {y}, z)
    <3>1. s \ {y} \notin Bad
      BY <2>1
    <3>2. s \ {y} \in SUBSET S /\ z \in s \ {y}
      BY <2>7
    <3> QED
      BY <3>1, <3>2
  <2>8. Apart(s \ {c}, x)
    BY <2>2, <2>3, <2>6, <2>7
  <2>9. Apart(s \ {x}, c)
    BY <2>2, <2>3, <2>6, <2>7
  <2>10. (s \ {c}) \ {x} = (s \ {x}) \ {c}
    OBVIOUS
  <2> DEFINE rest == SumFunctionOnSet(f, (s \ {x}) \ {c})
  <2>11. rest \in Int /\ f[x] \in Int /\ f[c] \in Int
    BY <2>2, <2>3, <2>4
  <2>12. SumFunctionOnSet(f, s) = f[c] + (f[x] + rest)
    BY <2>5, <2>8, <2>10
  <2>13. SumFunctionOnSet(f, s \ {x}) = f[c] + rest
    BY <2>9
  <2> HIDE DEF rest
  <2>14. f[c] + (f[x] + rest) = f[x] + (f[c] + rest)
    BY <2>11
  <2> QED
    BY <2>2, <2>12, <2>13, <2>14
<1>2. S \notin Bad
  BY <1>1
<1> QED
  BY <1>2

\* Only the values on the set count.
LEMMA SumSame ==
    ASSUME NEW S, IsFiniteSet(S), NEW f, NEW g, \A x \in S : f[x] = g[x]
    PROVE  SumFunctionOnSet(f, S) = SumFunctionOnSet(g, S)
<1> DEFINE Bad == {s \in SUBSET S : SumFunctionOnSet(f, s) # SumFunctionOnSet(g, s)}
<1>1. ASSUME Bad # {} PROVE FALSE
  <2>1. PICK s \in Bad : \A u \in Bad : u \subseteq s => u = s
    <3>1. Bad \subseteq SUBSET S
      OBVIOUS
    <3> HIDE DEF Bad
    <3> QED
      BY <1>1, <3>1, LeastSubset
  <2>2. s # {}
    BY SumEmpty
  <2>3. Some(s) \in s /\ IsFiniteSet(s)
    BY <2>2, SomeIsElement, FS_Subset
  <2>4. SumFunctionOnSet(f, s \ {Some(s)}) = SumFunctionOnSet(g, s \ {Some(s)})
    BY <2>1, <2>3
  <2>5. /\ SumFunctionOnSet(f, s) = f[Some(s)] + SumFunctionOnSet(f, s \ {Some(s)})
        /\ SumFunctionOnSet(g, s) = g[Some(s)] + SumFunctionOnSet(g, s \ {Some(s)})
    BY <2>2, <2>3, SumUnfolds
  <2> QED
    BY <2>3, <2>4, <2>5
<1> QED
  BY <1>1

LEMMA SumZero ==
    ASSUME NEW S, IsFiniteSet(S), NEW f, \A x \in S : f[x] = 0
    PROVE  SumFunctionOnSet(f, S) = 0
<1> DEFINE Bad == {s \in SUBSET S : SumFunctionOnSet(f, s) # 0}
<1>1. ASSUME Bad # {} PROVE FALSE
  <2>1. PICK s \in Bad : \A u \in Bad : u \subseteq s => u = s
    <3>1. Bad \subseteq SUBSET S
      OBVIOUS
    <3> HIDE DEF Bad
    <3> QED
      BY <1>1, <3>1, LeastSubset
  <2>2. s # {}
    BY SumEmpty
  <2>3. Some(s) \in s /\ IsFiniteSet(s)
    BY <2>2, SomeIsElement, FS_Subset
  <2>4. SumFunctionOnSet(f, s \ {Some(s)}) = 0
    BY <2>1, <2>3
  <2> QED
    BY <2>2, <2>3, <2>4, SumUnfolds
<1> QED
  BY <1>1

---------------------------------------------------------------------------
\* What books need: one value changes, or one term comes in.
LEMMA SumChanges ==
    ASSUME NEW S, IsFiniteSet(S), NEW f, NEW g, NEW e \in S,
           \A x \in S : f[x] \in Int /\ g[x] \in Int,
           \A x \in S \ {e} : f[x] = g[x]
    PROVE  SumFunctionOnSet(g, S) = SumFunctionOnSet(f, S) + (g[e] - f[e])
<1>1. IsFiniteSet(S \ {e})
  BY FS_Subset
<1>2. SumFunctionOnSet(f, S \ {e}) = SumFunctionOnSet(g, S \ {e})
  BY <1>1, SumSame
<1>3. SumFunctionOnSet(f, S) = f[e] + SumFunctionOnSet(f, S \ {e})
  BY SumElement
<1>4. SumFunctionOnSet(g, S) = g[e] + SumFunctionOnSet(g, S \ {e})
  BY SumElement
<1>5. SumFunctionOnSet(f, S \ {e}) \in Int
  BY <1>1, SumType
<1>6. f[e] \in Int /\ g[e] \in Int
  OBVIOUS
<1> QED
  BY <1>2, <1>3, <1>4, <1>5, <1>6

LEMMA SumGains ==
    ASSUME NEW S, IsFiniteSet(S), NEW f, NEW g, NEW e, e \notin S, g[e] \in Int,
           \A x \in S : f[x] \in Int /\ f[x] = g[x]
    PROVE  SumFunctionOnSet(g, S \cup {e}) = SumFunctionOnSet(f, S) + g[e]
<1> DEFINE T == S \cup {e}
<1>1. IsFiniteSet(T)
  BY FS_AddElement
<1>2. (\A x \in T : g[x] \in Int) /\ e \in T /\ T \ {e} = S
  OBVIOUS
<1>3. SumFunctionOnSet(f, S) = SumFunctionOnSet(g, S)
  BY SumSame
<1>4. SumFunctionOnSet(f, S) \in Int
  BY SumType
<1> HIDE DEF T
<1>5. SumFunctionOnSet(g, T) = g[e] + SumFunctionOnSet(g, S)
  BY <1>1, <1>2, SumElement
<1> QED
  BY <1>3, <1>4, <1>5 DEF T

\* Term by term no more, in sum no more.
LEMMA SumLess ==
    ASSUME NEW S, IsFiniteSet(S), NEW f, NEW g,
           \A x \in S : f[x] \in Int /\ g[x] \in Int /\ f[x] <= g[x]
    PROVE  SumFunctionOnSet(f, S) <= SumFunctionOnSet(g, S)
<1> DEFINE Bad == {s \in SUBSET S : ~ (SumFunctionOnSet(f, s) <= SumFunctionOnSet(g, s))}
<1>1. ASSUME Bad # {} PROVE FALSE
  <2>1. PICK s \in Bad : \A u \in Bad : u \subseteq s => u = s
    <3>1. Bad \subseteq SUBSET S
      OBVIOUS
    <3> HIDE DEF Bad
    <3> QED
      BY <1>1, <3>1, LeastSubset
  <2>2. s # {}
    BY SumEmpty
  <2> DEFINE c == Some(s)
             fs == SumFunctionOnSet(f, s \ {c})
             gs == SumFunctionOnSet(g, s \ {c})
  <2>3. c \in s /\ IsFiniteSet(s) /\ IsFiniteSet(s \ {c})
    BY <2>2, SomeIsElement, FS_Subset
  <2>4. fs <= gs
    BY <2>1, <2>3
  <2>5. /\ SumFunctionOnSet(f, s) = f[c] + fs
        /\ SumFunctionOnSet(g, s) = g[c] + gs
    BY <2>2, <2>3, SumUnfolds
  <2>6. fs \in Int /\ gs \in Int
    BY <2>3, SumType
  <2>7. f[c] \in Int /\ g[c] \in Int /\ f[c] <= g[c]
    BY <2>3
  <2> HIDE DEF fs, gs, c
  <2> QED
    BY <2>1, <2>4, <2>5, <2>6, <2>7
<1> QED
  BY <1>1

\* A term is no more than the sum, when there are no negative ones.
LEMMA SumCovers ==
    ASSUME NEW S, IsFiniteSet(S), NEW f, \A x \in S : f[x] \in Nat, NEW e \in S
    PROVE  f[e] <= SumFunctionOnSet(f, S)
<1>1. SumFunctionOnSet(f, S) = f[e] + SumFunctionOnSet(f, S \ {e})
  BY SumElement
<1>2. SumFunctionOnSet(f, S \ {e}) \in Nat
  <2>1. IsFiniteSet(S \ {e})
    BY FS_Subset
  <2> QED
    BY <2>1, SumType
<1> QED
  BY <1>1, <1>2
=============================================================================
