---------------------------- MODULE Sums_proofs ----------------------------
(***************************************************************************)
(* Facts about sums over finite sets.  The sum is defined by a recursive   *)
(* function that takes the elements out in an order that CHOOSE gives.     *)
(* That there is such a function is shown first (SumExists), then that its *)
(* value does not depend on the order (SumStep); the rest is what proofs   *)
(* about totals need.                                                      *)
(*                                                                         *)
(* Induction is by a minimal counterexample: among the subsets for which a *)
(* fact fails, if there were any, one would contain no other (Minimal).    *)
(***************************************************************************)
EXTENDS Sums, FiniteSetTheorems, TLAPS

(* The element that the sum of s takes out.                                *)
First(s) == CHOOSE x \in s : TRUE

(* A set of numbers has a smallest.                                        *)
LEMMA Smallest ==
  ASSUME NEW T \in SUBSET Nat, T # {}
  PROVE  \E x \in T : \A y \in T : x <= y
<1> DEFINE Less == {ss \in Nat \X Nat : ss[1] < ss[2]}
<1>1. IsWellFoundedOn(Less, Nat)
  BY NatLessThanWellFounded DEF OpToRel
<1>2. \A x, y \in Nat : y < x => <<y, x>> \in Less
  OBVIOUS
<1> HIDE DEF Less
<1>3. PICK x \in T : \A y \in T : ~(<<y, x>> \in Less)
  BY <1>1, WFMin
<1>4. ASSUME NEW y \in T PROVE x <= y
  <2>1. x \in Nat /\ y \in Nat
    OBVIOUS
  <2>2. ~(y < x)
    BY <1>2, <1>3, <2>1
  <2> QED BY <2>1, <2>2
<1> QED BY <1>4

(* Among subsets of a finite set one contains no other.                    *)
LEMMA Minimal ==
  ASSUME NEW S, IsFiniteSet(S), NEW T, T \subseteq SUBSET S, T # {}
  PROVE  \E s \in T : \A t \in T : t \subseteq s => t = s
<1>1. T \subseteq FiniteSubsetsOf(S)
  BY FS_FiniteSubsetsOfFinite
<1>2. PICK s \in T : \A t \in T : ~(<<t, s>> \in StrictSubsetOrdering(S))
  BY <1>1, WFMin, FS_StrictSubsetOrderingWellFounded
<1>3. ASSUME NEW t \in T, t \subseteq s PROVE t = s
  BY <1>2, <1>3 DEF StrictSubsetOrdering
<1> QED BY <1>3

(* Taking out one element.                                                 *)
LEMMA FirstIsOne ==
  ASSUME NEW S, IsFiniteSet(S), S # {}
  PROVE  /\ First(S) \in S
         /\ IsFiniteSet(S \ {First(S)})
         /\ Cardinality(S) \in Nat
         /\ Cardinality(S \ {First(S)}) = Cardinality(S) - 1
         /\ Cardinality(S \ {First(S)}) \in Nat
BY FS_RemoveElement, FS_CardinalityType DEF First

(* On the sets of L, g is what the recursion for the sum of f asks for.     *)
AddsUp(g, f, L) ==
  \A s \in L : g[s] = IF s = {} THEN 0 ELSE f[First(s)] + g[s \ {First(s)}]

(* The subsets of at most n elements.                                      *)
Small(S, n) == {s \in SUBSET S : Cardinality(s) <= n}

(* The same for a fold from b over the steps of F, in the set B.           *)
FoldsUp(g, b, F, B, L) ==
  /\ g \in [L -> B]
  /\ \A s \in L : g[s] = IF s = {} THEN b ELSE F[First(s)][g[s \ {First(s)}]]

(* There is a function as such a recursion asks, on all subsets.           *)
LEMMA FoldExists ==
  ASSUME NEW S, IsFiniteSet(S), NEW B, NEW b \in B, NEW F, F \in [S -> [B -> B]]
  PROVE  \E g : FoldsUp(g, b, F, B, SUBSET S)
<1> DEFINE Bad == {n \in Nat : ~\E g : FoldsUp(g, b, F, B, Small(S, n))}
<1>1. \A s \in SUBSET S : IsFiniteSet(s) /\ Cardinality(s) \in Nat
  BY FS_Subset, FS_CardinalityType
<1>2. Bad = {}
  <2>1. SUFFICES ASSUME Bad # {} PROVE FALSE
    OBVIOUS
  <2>2. PICK n \in Bad : \A m \in Bad : n <= m
    BY <2>1, Smallest
  <2> n \in Nat
    OBVIOUS
  <2>3. CASE n = 0
    <3> DEFINE g == [s \in Small(S, 0) |-> b]
    <3>1. \A s \in Small(S, 0) : s = {}
      BY <1>1, FS_EmptySet DEF Small
    <3>2. FoldsUp(g, b, F, B, Small(S, n))
      BY <2>3, <3>1 DEF FoldsUp
    <3> QED BY <3>2
  <2>4. CASE n # 0
    <3>1. n - 1 \in Nat /\ n - 1 \notin Bad
      BY <2>2, <2>4
    <3>2. PICK g : FoldsUp(g, b, F, B, Small(S, n - 1))
      BY <3>1
    <3> DEFINE h == [s \in Small(S, n) |->
                       IF s = {} THEN b ELSE F[First(s)][g[s \ {First(s)}]]]
    <3>3. ASSUME NEW s \in Small(S, n), s # {}
          PROVE  First(s) \in S /\ s \ {First(s)} \in Small(S, n - 1)
                 /\ s \ {First(s)} \in Small(S, n)
      <4>1. s \in SUBSET S /\ IsFiniteSet(s) /\ Cardinality(s) <= n
        BY <1>1 DEF Small
      <4>2. /\ First(s) \in s /\ Cardinality(s) \in Nat
            /\ Cardinality(s \ {First(s)}) = Cardinality(s) - 1
        BY <3>3, <4>1, FirstIsOne
      <4> QED BY <4>1, <4>2 DEF Small
    <3>4. h \in [Small(S, n) -> B]
      <4>1. ASSUME NEW s \in Small(S, n), s # {}
            PROVE  F[First(s)][g[s \ {First(s)}]] \in B
        <5>1. First(s) \in S /\ s \ {First(s)} \in Small(S, n - 1)
          BY <3>3, <4>1
        <5>2. F[First(s)] \in [B -> B] /\ g[s \ {First(s)}] \in B
          BY <3>2, <5>1 DEF FoldsUp
        <5> QED BY <5>2
      <4> QED BY <4>1
    <3>5. ASSUME NEW s \in Small(S, n), s # {}
          PROVE  h[s \ {First(s)}] = g[s \ {First(s)}]
      <4> DEFINE t == s \ {First(s)}
      <4>1. t \in Small(S, n - 1) /\ t \in Small(S, n)
        BY <3>3, <3>5
      <4> HIDE DEF t
      <4>2. g[t] = IF t = {} THEN b ELSE F[First(t)][g[t \ {First(t)}]]
        BY <3>2, <4>1 DEF FoldsUp
      <4>3. h[t] = IF t = {} THEN b ELSE F[First(t)][g[t \ {First(t)}]]
        BY <4>1
      <4>4. h[t] = g[t]
        BY <4>2, <4>3
      <4> QED BY <4>4 DEF t
    <3>6. FoldsUp(h, b, F, B, Small(S, n))
      BY <3>4, <3>5 DEF FoldsUp
    <3> QED BY <3>6
  <2> QED BY <2>3, <2>4
<1>3. Cardinality(S) \in Nat /\ Small(S, Cardinality(S)) = SUBSET S
  BY <1>1, FS_Subset, FS_CardinalityType DEF Small
<1>4. \A n \in Nat : \E g : FoldsUp(g, b, F, B, Small(S, n))
  BY <1>2
<1> QED BY <1>3, <1>4

LEMMA SumExists ==
  ASSUME NEW S, IsFiniteSet(S), NEW f \in [S -> Int]
  PROVE  \E g \in [SUBSET S -> Int] : AddsUp(g, f, SUBSET S)
<1> DEFINE F == [x \in S |-> [n \in Int |-> f[x] + n]]
<1>1. F \in [S -> [Int -> Int]]
  <2>1. ASSUME NEW x \in S, NEW n \in Int PROVE f[x] + n \in Int
    <3>1. f[x] \in Int
      OBVIOUS
    <3> QED BY <3>1
  <2> QED BY <2>1
<1>2. PICK g : FoldsUp(g, 0, F, Int, SUBSET S)
  <2> DEFINE zero == 0
             B == Int
  <2>1. zero \in B /\ F \in [S -> [B -> B]]
    BY <1>1
  <2> HIDE DEF F, zero, B
  <2>2. \E g : FoldsUp(g, zero, F, B, SUBSET S)
    BY <2>1, FoldExists
  <2> QED BY <2>2 DEF zero, B
<1>3. ASSUME NEW s \in SUBSET S, s # {}
      PROVE  F[First(s)][g[s \ {First(s)}]] = f[First(s)] + g[s \ {First(s)}]
  <2>1. First(s) \in S /\ g[s \ {First(s)}] \in Int
    <3>1. First(s) \in s /\ s \ {First(s)} \in SUBSET S
      BY <1>3 DEF First
    <3> QED BY <1>2, <3>1 DEF FoldsUp
  <2> QED BY <2>1
<1> HIDE DEF F
<1> QED BY <1>2, <1>3 DEF FoldsUp, AddsUp

(* It has one value only, and depends on the values of f in S only.        *)
LEMMA SumIsUnique ==
  ASSUME NEW S, IsFiniteSet(S), NEW L, NEW M, SUBSET S \subseteq L, SUBSET S \subseteq M,
         NEW f, NEW e, \A x \in S : f[x] = e[x],
         NEW g, AddsUp(g, f, L), NEW h, AddsUp(h, e, M)
  PROVE  g[S] = h[S]
<1> DEFINE Bad == {s \in SUBSET S : g[s] # h[s]}
<1>1. SUFFICES ASSUME Bad # {} PROVE FALSE
  OBVIOUS
<1>2. PICK s \in Bad : \A t \in Bad : t \subseteq s => t = s
  <2>1. Bad \subseteq SUBSET S
    OBVIOUS
  <2> HIDE DEF Bad
  <2> QED BY <1>1, <2>1, Minimal
<1>3. s \in L /\ s \in M /\ s # {}
  BY DEF AddsUp
<1> DEFINE t == s \ {First(s)}
<1>4. First(s) \in s /\ t \subseteq s /\ t # s /\ t \in SUBSET S
  BY <1>3 DEF First
<1>5. g[t] = h[t]
  BY <1>2, <1>4
<1>6. g[s] = f[First(s)] + g[t] /\ h[s] = e[First(s)] + h[t]
  BY <1>3 DEF AddsUp
<1> QED BY <1>4, <1>5, <1>6

(* The sum is that value.                                                  *)
LEMMA SumIsThat ==
  ASSUME NEW U, IsFiniteSet(U), NEW f \in [U -> Int], NEW S \in SUBSET U,
         NEW g, AddsUp(g, f, SUBSET U)
  PROVE  SumOver(f, S) = g[S]
<1> DEFINE h == CHOOSE h : h = [s \in SUBSET S |->
                  IF s = {} THEN 0 ELSE f[First(s)] + h[s \ {First(s)}]]
           fS == [x \in S |-> f[x]]
<1>1. IsFiniteSet(S)
  BY FS_Subset
<1>2. SumOver(f, S) = h[S]
  BY DEF SumOver, MapThenSumSet, MapThenFoldSet, First
<1>3. PICK k \in [SUBSET S -> Int] : AddsUp(k, fS, SUBSET S)
  BY <1>1, SumExists
<1>4. k = [s \in SUBSET S |-> IF s = {} THEN 0 ELSE f[First(s)] + k[s \ {First(s)}]]
  <2>1. ASSUME NEW s \in SUBSET S, s # {} PROVE fS[First(s)] = f[First(s)]
    BY <2>1 DEF First
  <2> QED BY <1>3, <2>1 DEF AddsUp
<1>5. h = [s \in SUBSET S |-> IF s = {} THEN 0 ELSE f[First(s)] + h[s \ {First(s)}]]
  BY <1>4
<1>6. AddsUp(h, f, SUBSET S)
  BY <1>5 DEF AddsUp
<1>7. h[S] = g[S]
  <2> HIDE DEF h
  <2> QED BY <1>1, <1>6, SumIsUnique
<1> QED BY <1>2, <1>7

(* g is the sum of f over every subset of U.                               *)
SumsOf(g, f, U) ==
  /\ g \in [SUBSET U -> Int]
  /\ AddsUp(g, f, SUBSET U)
  /\ \A S \in SUBSET U : SumOver(f, S) = g[S]

(* There is such a g.                                                      *)
LEMMA SumOfAll ==
  ASSUME NEW U, IsFiniteSet(U), NEW f \in [U -> Int]
  PROVE  \E g : SumsOf(g, f, U)
<1>1. PICK g \in [SUBSET U -> Int] : AddsUp(g, f, SUBSET U)
  BY SumExists
<1>2. \A S \in SUBSET U : SumOver(f, S) = g[S]
  BY <1>1, SumIsThat
<1> QED BY <1>1, <1>2 DEF SumsOf

(* The empty sum.                                                          *)
LEMMA SumOfNone ==
  ASSUME NEW U, IsFiniteSet(U), NEW f \in [U -> Int]
  PROVE  SumOver(f, {}) = 0
<1>1. PICK g : SumsOf(g, f, U)
  BY SumOfAll
<1>2. {} \in SUBSET U
  OBVIOUS
<1> QED BY <1>1, <1>2 DEF SumsOf, AddsUp

(* A sum of integers is one.                                               *)
LEMMA SumType ==
  ASSUME NEW U, IsFiniteSet(U), NEW f \in [U -> Int], NEW S \in SUBSET U
  PROVE  SumOver(f, S) \in Int
<1>1. PICK g : SumsOf(g, f, U)
  BY SumOfAll
<1> QED BY <1>1 DEF SumsOf

(* The sum with any element taken out first.                               *)
LEMMA SumStep ==
  ASSUME NEW U, IsFiniteSet(U), NEW f \in [U -> Int], NEW S \in SUBSET U, NEW x \in S
  PROVE  SumOver(f, S) = f[x] + SumOver(f, S \ {x})
<1>1. PICK g : SumsOf(g, f, U)
  BY SumOfAll
<1> USE <1>1 DEF SumsOf
<1> DEFINE Bad == {s \in SUBSET U : \E y \in s : g[s] # f[y] + g[s \ {y}]}
<1>2. ASSUME Bad # {} PROVE FALSE
  <2>0. Bad \subseteq SUBSET U
    OBVIOUS
  <2>1. PICK s \in Bad : \A t \in Bad : t \subseteq s => t = s
    <3> HIDE DEF Bad
    <3> QED BY <1>2, <2>0, Minimal
  <2>2. PICK y \in s : g[s] # f[y] + g[s \ {y}]
    OBVIOUS
  <2> DEFINE c == First(s)
  <2>3. c \in s /\ s \in SUBSET U
    BY <2>2 DEF First
  <2>4. g[s] = f[c] + g[s \ {c}]
    BY <1>1, <2>2, <2>3 DEF AddsUp
  <2>5. c # y
    BY <2>2, <2>4
  <2> HIDE DEF c
  <2>6. s \ {c} \notin Bad /\ s \ {y} \notin Bad
    BY <2>1, <2>2, <2>3
  <2>7. g[s \ {c}] = f[y] + g[(s \ {c}) \ {y}]
    BY <2>2, <2>3, <2>5, <2>6
  <2>8. g[s \ {y}] = f[c] + g[(s \ {y}) \ {c}]
    BY <2>2, <2>3, <2>5, <2>6
  <2>9. (s \ {c}) \ {y} = (s \ {y}) \ {c}
    OBVIOUS
  <2>10. f[c] \in Int /\ f[y] \in Int /\ g[(s \ {y}) \ {c}] \in Int
    BY <2>2, <2>3
  <2>11. g[s] = f[y] + g[s \ {y}]
    <3> DEFINE a == f[c]
               b == f[y]
               r == g[(s \ {y}) \ {c}]
    <3>1. g[s] = a + (b + r) /\ g[s \ {y}] = a + r
      BY <2>4, <2>7, <2>8, <2>9
    <3>2. a \in Int /\ b \in Int /\ r \in Int
      BY <2>10
    <3> HIDE DEF a, b, r
    <3>3. a + (b + r) = b + (a + r)
      BY <3>2
    <3> QED BY <3>1, <3>3 DEF b
  <2> QED BY <2>2, <2>11
<1>3. g[S] = f[x] + g[S \ {x}]
  BY <1>2
<1> QED BY <1>1, <1>3

(* A sum of larger terms is no smaller.                                    *)
LEMMA SumAtMost ==
  ASSUME NEW U, IsFiniteSet(U), NEW f \in [U -> Int], NEW e \in [U -> Int],
         NEW S \in SUBSET U, \A x \in S : f[x] <= e[x]
  PROVE  SumOver(f, S) <= SumOver(e, S)
<1>1. \A s \in SUBSET U : SumOver(f, s) \in Int /\ SumOver(e, s) \in Int
  BY SumType
<1>2. IsFiniteSet(S)
  BY FS_Subset
<1> DEFINE Bad == {s \in SUBSET S : ~(SumOver(f, s) <= SumOver(e, s))}
<1>3. SUFFICES ASSUME Bad # {} PROVE FALSE
  OBVIOUS
<1>4. PICK s \in Bad : \A t \in Bad : t \subseteq s => t = s
  <2>1. Bad \subseteq SUBSET S
    OBVIOUS
  <2> HIDE DEF Bad
  <2> QED BY <1>2, <1>3, <2>1, Minimal
<1>5. s # {}
  BY SumOfNone
<1>6. PICK x \in s : TRUE
  BY <1>5
<1>7. s \ {x} \notin Bad /\ s \ {x} \in SUBSET S
  BY <1>4, <1>6
<1>8. SumOver(f, s) = f[x] + SumOver(f, s \ {x}) /\ SumOver(e, s) = e[x] + SumOver(e, s \ {x})
  BY <1>6, SumStep
<1>9. SumOver(f, s \ {x}) <= SumOver(e, s \ {x}) /\ f[x] <= e[x]
  BY <1>6, <1>7
<1>10. f[x] \in Int /\ e[x] \in Int /\ s \ {x} \in SUBSET U /\ s \in SUBSET U
  BY <1>6
<1> QED BY <1>1, <1>8, <1>9, <1>10

(* The sums of functions that agree on S.                                  *)
LEMMA SumSame ==
  ASSUME NEW U, IsFiniteSet(U), NEW f \in [U -> Int], NEW V, IsFiniteSet(V), NEW e \in [V -> Int],
         NEW S, S \subseteq U, S \subseteq V, \A x \in S : f[x] = e[x]
  PROVE  SumOver(f, S) = SumOver(e, S)
<1>1. PICK g : SumsOf(g, f, U)
  BY SumOfAll
<1>2. PICK h : SumsOf(h, e, V)
  BY SumOfAll
<1>3. IsFiniteSet(S) /\ SUBSET S \subseteq SUBSET U /\ SUBSET S \subseteq SUBSET V
  BY FS_Subset
<1>4. g[S] = h[S]
  BY <1>1, <1>2, <1>3, SumIsUnique DEF SumsOf
<1> QED BY <1>1, <1>2, <1>4 DEF SumsOf

(* A sum of nothing but zeros.                                             *)
LEMMA SumOfZeros ==
  ASSUME NEW U, IsFiniteSet(U), NEW f \in [U -> Int], NEW S \in SUBSET U, \A x \in S : f[x] = 0
  PROVE  SumOver(f, S) = 0
<1>1. IsFiniteSet(S)
  BY FS_Subset
<1> DEFINE Bad == {s \in SUBSET S : SumOver(f, s) # 0}
<1>2. SUFFICES ASSUME Bad # {} PROVE FALSE
  OBVIOUS
<1>3. PICK s \in Bad : \A t \in Bad : t \subseteq s => t = s
  <2>1. Bad \subseteq SUBSET S
    OBVIOUS
  <2> HIDE DEF Bad
  <2> QED BY <1>1, <1>2, <2>1, Minimal
<1>4. s # {}
  BY SumOfNone
<1>5. PICK x \in s : TRUE
  BY <1>4
<1>6. SumOver(f, s \ {x}) = 0 /\ f[x] = 0
  BY <1>3, <1>5
<1>7. SumOver(f, s) = f[x] + SumOver(f, s \ {x})
  BY <1>5, SumStep
<1> QED BY <1>6, <1>7

(* One term changes.                                                       *)
LEMMA SumChange ==
  ASSUME NEW U, IsFiniteSet(U), NEW f \in [U -> Int], NEW e \in [U -> Int], NEW S \in SUBSET U,
         NEW x \in S, \A y \in S \ {x} : f[y] = e[y]
  PROVE  SumOver(e, S) = SumOver(f, S) + e[x] - f[x]
<1>1. SumOver(f, S) = f[x] + SumOver(f, S \ {x}) /\ SumOver(e, S) = e[x] + SumOver(e, S \ {x})
  BY SumStep
<1>2. SumOver(f, S \ {x}) = SumOver(e, S \ {x})
  BY SumSame
<1>3. SumOver(f, S \ {x}) \in Int /\ f[x] \in Int /\ e[x] \in Int
  BY SumType
<1> QED BY <1>1, <1>2, <1>3

(* A sum of naturals is one.                                               *)
LEMMA SumNat ==
  ASSUME NEW U, IsFiniteSet(U), NEW f \in [U -> Int], NEW S \in SUBSET U,
         \A x \in S : f[x] \in Nat
  PROVE  SumOver(f, S) \in Nat
<1>1. IsFiniteSet(S) /\ \A s \in SUBSET U : SumOver(f, s) \in Int
  BY FS_Subset, SumType
<1> DEFINE Bad == {s \in SUBSET S : SumOver(f, s) \notin Nat}
<1>2. SUFFICES ASSUME Bad # {} PROVE FALSE
  OBVIOUS
<1>3. PICK s \in Bad : \A t \in Bad : t \subseteq s => t = s
  <2>1. Bad \subseteq SUBSET S
    OBVIOUS
  <2> HIDE DEF Bad
  <2> QED BY <1>1, <1>2, <2>1, Minimal
<1>4. s # {}
  BY SumOfNone
<1>5. PICK x \in s : TRUE
  BY <1>4
<1>6. SumOver(f, s \ {x}) \in Nat
  BY <1>3, <1>5
<1>7. SumOver(f, s) = f[x] + SumOver(f, s \ {x}) /\ f[x] \in Nat
  BY <1>5, SumStep
<1> QED BY <1>6, <1>7

(* A part of a sum of naturals is no larger.                               *)
LEMMA SumOfPart ==
  ASSUME NEW U, IsFiniteSet(U), NEW f \in [U -> Int], NEW S \in SUBSET U, NEW R \in SUBSET S,
         \A x \in S : f[x] \in Nat
  PROVE  SumOver(f, R) <= SumOver(f, S)
<1>1. IsFiniteSet(S) /\ \A s \in SUBSET U : SumOver(f, s) \in Int
  BY FS_Subset, SumType
<1> DEFINE Bad == {s \in SUBSET S : R \subseteq s /\ ~(SumOver(f, R) <= SumOver(f, s))}
<1>2. SUFFICES ASSUME Bad # {} PROVE FALSE
  OBVIOUS
<1>3. PICK s \in Bad : \A t \in Bad : t \subseteq s => t = s
  <2>1. Bad \subseteq SUBSET S
    OBVIOUS
  <2> HIDE DEF Bad
  <2> QED BY <1>1, <1>2, <2>1, Minimal
<1>4. s # R
  BY <1>1
<1>5. PICK x \in s : x \notin R
  BY <1>4
<1>6. SumOver(f, R) <= SumOver(f, s \ {x})
  BY <1>3, <1>5
<1>7. SumOver(f, s) = f[x] + SumOver(f, s \ {x}) /\ f[x] \in Nat
  BY <1>5, SumStep
<1>8. SumOver(f, R) \in Int /\ SumOver(f, s \ {x}) \in Int
  BY <1>1
<1> QED BY <1>6, <1>7, <1>8

(* Terms that grow by one in T at most.                                    *)
LEMMA SumGrows ==
  ASSUME NEW U, IsFiniteSet(U), NEW f \in [U -> Int], NEW e \in [U -> Int], NEW T \in SUBSET U,
         \A x \in U : e[x] <= f[x] + IF x \in T THEN 1 ELSE 0
  PROVE  SumOver(e, U) <= SumOver(f, U) + Cardinality(T)
<1>1. /\ \A s \in SUBSET U : SumOver(f, s) \in Int /\ SumOver(e, s) \in Int
      /\ \A s \in SUBSET U : IsFiniteSet(s) /\ Cardinality(s) \in Nat
  BY SumType, FS_Subset, FS_CardinalityType
<1> DEFINE Good(s) == SumOver(e, s) <= SumOver(f, s) + Cardinality(s \cap T)
           Bad == {s \in SUBSET U : ~Good(s)}
<1>2. ASSUME Bad # {} PROVE FALSE
  <2>1. PICK s \in Bad : \A t \in Bad : t \subseteq s => t = s
    <3>1. Bad \subseteq SUBSET U
      OBVIOUS
    <3> HIDE DEF Bad
    <3> QED BY <1>2, <3>1, Minimal
  <2>2. s # {}
    <3>1. SumOver(e, {}) = 0 /\ SumOver(f, {}) = 0
      BY SumOfNone
    <3>2. {} \cap T = {} /\ Cardinality({}) = 0
      BY FS_EmptySet
    <3>3. Good({})
      BY <3>1, <3>2
    <3> QED BY <3>3
  <2>3. PICK x \in s : TRUE
    BY <2>2
  <2> DEFINE r == s \ {x}
  <2>4. r \in SUBSET U /\ s \in SUBSET U /\ x \in U
    BY <2>3
  <2>5. SumOver(e, r) <= SumOver(f, r) + Cardinality(r \cap T)
    BY <2>1, <2>3
  <2>6. SumOver(e, s) = e[x] + SumOver(e, r) /\ SumOver(f, s) = f[x] + SumOver(f, r)
    BY <2>3, <2>4, SumStep
  <2>7. Cardinality(s \cap T) = Cardinality(r \cap T) + IF x \in T THEN 1 ELSE 0
    <3>1. IsFiniteSet(s \cap T) /\ Cardinality(s \cap T) \in Nat
      BY <1>1, <2>4
    <3>2. r \cap T = (s \cap T) \ {x}
      OBVIOUS
    <3>3. Cardinality(r \cap T) = IF x \in s \cap T THEN Cardinality(s \cap T) - 1
                                                  ELSE Cardinality(s \cap T)
      BY <3>1, <3>2, FS_RemoveElement
    <3> QED BY <2>3, <3>1, <3>3
  <2>8. /\ SumOver(e, r) \in Int /\ SumOver(f, r) \in Int /\ Cardinality(r \cap T) \in Nat
        /\ e[x] \in Int /\ f[x] \in Int /\ e[x] <= f[x] + IF x \in T THEN 1 ELSE 0
    BY <1>1, <2>4
  <2>9. Good(s)
    <3> HIDE DEF r
    <3> QED BY <2>5, <2>6, <2>7, <2>8
  <2> QED BY <2>9
<1>3. Good(U)
  BY <1>2
<1>4. U \cap T = T
  OBVIOUS
<1> QED BY <1>3, <1>4
(* Terms that are nothing can be left out.                                 *)
LEMMA SumWithoutZeros ==
  ASSUME NEW U, IsFiniteSet(U), NEW f \in [U -> Int], NEW S \in SUBSET U, NEW R \in SUBSET S,
         \A x \in S \ R : f[x] = 0
  PROVE  SumOver(f, S) = SumOver(f, R)
<1>1. IsFiniteSet(S) /\ \A s \in SUBSET U : SumOver(f, s) \in Int
  BY FS_Subset, SumType
<1> DEFINE Bad == {s \in SUBSET S : R \subseteq s /\ SumOver(f, s) # SumOver(f, R)}
<1>2. SUFFICES ASSUME Bad # {} PROVE FALSE
  OBVIOUS
<1>3. PICK s \in Bad : \A t \in Bad : t \subseteq s => t = s
  <2>1. Bad \subseteq SUBSET S
    OBVIOUS
  <2> HIDE DEF Bad
  <2> QED BY <1>1, <1>2, <2>1, Minimal
<1>4. PICK x \in s : x \notin R
  OBVIOUS
<1>5. SumOver(f, s \ {x}) = SumOver(f, R)
  BY <1>3, <1>4
<1>6. SumOver(f, s) = f[x] + SumOver(f, s \ {x}) /\ f[x] = 0
  BY <1>4, SumStep
<1> QED BY <1>1, <1>5, <1>6

(* What every term keeps in proportion, the sums do.                       *)
LEMMA SumInProportion ==
  ASSUME NEW U, IsFiniteSet(U), NEW f \in [U -> Int], NEW e \in [U -> Int],
         NEW p \in Nat, NEW q \in Nat, NEW S \in SUBSET U, \A x \in S : p * f[x] <= q * e[x]
  PROVE  p * SumOver(f, S) <= q * SumOver(e, S)
<1>1. /\ IsFiniteSet(S)
      /\ \A s \in SUBSET U : SumOver(f, s) \in Int /\ SumOver(e, s) \in Int
  BY FS_Subset, SumType
<1> DEFINE Bad == {s \in SUBSET S : ~(p * SumOver(f, s) <= q * SumOver(e, s))}
<1>2. SUFFICES ASSUME Bad # {} PROVE FALSE
  OBVIOUS
<1>3. PICK s \in Bad : \A t \in Bad : t \subseteq s => t = s
  <2>1. Bad \subseteq SUBSET S
    OBVIOUS
  <2> HIDE DEF Bad
  <2> QED BY <1>1, <1>2, <2>1, Minimal
<1>4. s # {}
  <2>1. SumOver(f, {}) = 0 /\ SumOver(e, {}) = 0
    BY SumOfNone
  <2> QED BY <2>1
<1>5. PICK x \in s : TRUE
  BY <1>4
<1>6. s \ {x} \notin Bad /\ s \ {x} \in SUBSET U /\ x \in S
  BY <1>3, <1>5
<1>7. SumOver(f, s) = f[x] + SumOver(f, s \ {x}) /\ SumOver(e, s) = e[x] + SumOver(e, s \ {x})
  BY <1>5, SumStep
<1> DEFINE a == f[x]
           b == e[x]
           c == SumOver(f, s \ {x})
           d == SumOver(e, s \ {x})
<1>8. p * a <= q * b /\ p * c <= q * d /\ a \in Int /\ b \in Int /\ c \in Int /\ d \in Int
  BY <1>1, <1>3, <1>5, <1>6
<1>9. ~(p * (a + c) <= q * (b + d))
  BY <1>7
<1> HIDE DEF a, b, c, d
<1>10. /\ p * (a + c) = p * a + p * c /\ q * (b + d) = q * b + q * d
       /\ p * a \in Int /\ p * c \in Int /\ q * b \in Int /\ q * d \in Int
  BY <1>8
<1> QED BY <1>8, <1>9, <1>10
=============================================================================
