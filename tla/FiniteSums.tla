----------------------------- MODULE FiniteSums -----------------------------
(***************************************************************************)
(* Induction over finite sets, and what follows for the folds of the       *)
(* community modules: their recursive functions exist, a sum over a finite *)
(* set does not depend on the order, splits, and is kept by an injection.  *)
(* Every induction here is over a set, a constant of the lemma.            *)
(***************************************************************************)
EXTENDS Integers, Functions, FiniteSetsExt, FiniteSetTheorems,
        WellFoundedInduction, TLAPS

(***************************************************************************)
(* Induction over the naturals, for a set of them.                         *)
(***************************************************************************)
LEMMA NatSet ==
    ASSUME NEW T \in SUBSET Nat, 0 \in T, \A n \in T : n + 1 \in T
    PROVE  T = Nat
PROOF
<1> DEFINE R == OpToRel(<, Nat)
           U == Nat \ T
<1> SUFFICES ASSUME U # {} PROVE FALSE
  OBVIOUS
<1>1. IsWellFoundedOn(R, Nat)
  BY NatLessThanWellFounded
<1>2. PICK u \in U : \A y \in U : <<y, u>> \notin R
  <2> U \subseteq Nat
    OBVIOUS
  <2> HIDE DEF R, U
  <2> QED
    BY <1>1, WFMin
<1>3. u \in Nat /\ u # 0 /\ u - 1 \in Nat /\ u = (u - 1) + 1
  OBVIOUS
<1>4. u - 1 \notin U
  <2>1. <<u - 1, u>> \in Nat \X Nat /\ u - 1 < u
    BY <1>3
  <2>2. <<u - 1, u>> \in R
    BY <2>1 DEF OpToRel
  <2> QED
    BY <1>2, <2>2
<1> QED
  BY <1>3, <1>4

(***************************************************************************)
(* A recursive function over the subsets of a finite set that takes one    *)
(* element away at a time exists.                                          *)
(***************************************************************************)
Choosing(G, S) == \A s \in SUBSET S : s # {} => G[s] \in s
IsFold(it, G, H, base, S) ==
    \A s \in SUBSET S :
      it[s] = IF s = {} THEN base ELSE H[<<G[s], it[s \ {G[s]}]>>]

LEMMA FoldExists ==
    ASSUME NEW S, IsFiniteSet(S), NEW G, Choosing(G, S), NEW V, NEW base \in V,
           NEW H \in [S \X V -> V]
    PROVE  \E it \in [SUBSET S -> V] : IsFold(it, G, H, base, S)
PROOF
<1> DEFINE Upto(n) == {s \in SUBSET S : Cardinality(s) <= n}
           Good(n, it) == /\ it \in [Upto(n) -> V]
                          /\ \A s \in Upto(n) :
                               it[s] = IF s = {} THEN base ELSE H[<<G[s], it[s \ {G[s]}]>>]
           T == {n \in Nat : \E it : Good(n, it)}
<1>1. \A s \in SUBSET S : IsFiniteSet(s) /\ Cardinality(s) \in Nat
  BY FS_Subset, FS_CardinalityType
<1>2. \A s \in SUBSET S : s # {} =>
        /\ G[s] \in s /\ s \ {G[s]} \in SUBSET S
        /\ Cardinality(s \ {G[s]}) = Cardinality(s) - 1 /\ Cardinality(s) >= 1
  <2> SUFFICES ASSUME NEW s \in SUBSET S, s # {}
               PROVE  /\ G[s] \in s /\ s \ {G[s]} \in SUBSET S
                      /\ Cardinality(s \ {G[s]}) = Cardinality(s) - 1 /\ Cardinality(s) >= 1
    OBVIOUS
  <2>1. G[s] \in s
    BY DEF Choosing
  <2>2. Cardinality(s \ {G[s]}) = Cardinality(s) - 1
    BY <1>1, <2>1, FS_RemoveElement
  <2>3. Cardinality(s \ {G[s]}) \in Nat
    BY <1>1
  <2> QED
    BY <1>1, <2>1, <2>2, <2>3
<1>3. 0 \in T
  <2>1. Upto(0) = {{}}
    <3>1. Cardinality({}) = 0
      BY FS_EmptySet
    <3>2. ASSUME NEW s \in Upto(0), s # {} PROVE FALSE
      <4>1. s \in SUBSET S /\ Cardinality(s) <= 0 /\ Cardinality(s) \in Nat
        BY <1>1
      <4>2. s \in SUBSET S /\ s # {} => Cardinality(s) >= 1
        BY <1>2, Zenon
      <4> QED
        BY <3>2, <4>1, <4>2
    <3> QED
      BY <3>1, <3>2
  <2>2. Good(0, [s \in Upto(0) |-> base])
    BY <2>1
  <2> QED
    BY <2>2
<1>4. ASSUME NEW n \in T PROVE n + 1 \in T
  <2>1. PICK it : Good(n, it)
    OBVIOUS
  <2> DEFINE jt == [s \in Upto(n + 1) |->
                      IF s = {} THEN base ELSE H[<<G[s], it[s \ {G[s]}]>>]]
  <2>2. \A s \in Upto(n + 1) : s # {} => s \ {G[s]} \in Upto(n) /\ G[s] \in S
    BY <1>1, <1>2
  <2>3. jt \in [Upto(n + 1) -> V]
    <3> SUFFICES ASSUME NEW s \in Upto(n + 1), s # {}
                 PROVE  H[<<G[s], it[s \ {G[s]}]>>] \in V
      OBVIOUS
    <3>1. it[s \ {G[s]}] \in V /\ G[s] \in S
      BY <2>1, <2>2
    <3> QED
      BY <3>1
  <2>4. \A s \in Upto(n) : s \in Upto(n + 1) /\ jt[s] = it[s]
    <3>1. \A s \in Upto(n) : s \in Upto(n + 1)
      BY <1>1
    <3> QED
      BY <2>1, <3>1
  <2>5. ASSUME NEW s \in Upto(n + 1)
        PROVE  jt[s] = IF s = {} THEN base ELSE H[<<G[s], jt[s \ {G[s]}]>>]
    BY <2>2, <2>4
  <2>6. Good(n + 1, jt)
    <3> HIDE DEF jt
    <3> QED
      BY <2>3, <2>5
  <2>7. n + 1 \in Nat
    OBVIOUS
  <2> HIDE DEF Good
  <2> QED
    BY <2>6, <2>7
<1>5. T = Nat
  <2> HIDE DEF T
  <2>1. T \in SUBSET Nat
    BY DEF T
  <2> QED
    BY <1>3, <1>4, <2>1, NatSet
<1>6. Upto(Cardinality(S)) = SUBSET S
  BY <1>1, FS_Subset
<1>7. PICK it : Good(Cardinality(S), it)
  BY <1>1, <1>5
<1> QED
  BY <1>6, <1>7 DEF IsFold

\* What holds of a subset when it holds of all that lack one element holds of all.
LEMMA SubsetInduction ==
    ASSUME NEW S, IsFiniteSet(S), NEW T \in SUBSET SUBSET S, {} \in T,
           \A s \in SUBSET S : s # {} /\ (\A x \in s : s \ {x} \in T) => s \in T
    PROVE  T = SUBSET S
PROOF
<1> DEFINE Upto(n) == {s \in SUBSET S : Cardinality(s) <= n}
           N == {n \in Nat : Upto(n) \subseteq T}
<1>1. \A s \in SUBSET S : IsFiniteSet(s) /\ Cardinality(s) \in Nat
  BY FS_Subset, FS_CardinalityType
<1>2. ASSUME NEW s \in SUBSET S, NEW x \in s
      PROVE  /\ s \ {x} \in SUBSET S /\ Cardinality(s \ {x}) \in Nat
             /\ Cardinality(s \ {x}) = Cardinality(s) - 1
  BY <1>1, FS_RemoveElement
<1>3. 0 \in N
  <2>1. ASSUME NEW s \in Upto(0), s # {} PROVE FALSE
    <3>1. s \in SUBSET S /\ Cardinality(s) <= 0 /\ Cardinality(s) \in Nat
      BY <1>1
    <3>2. PICK x \in s : TRUE
      BY <2>1
    <3>3. Cardinality(s \ {x}) \in Nat /\ Cardinality(s \ {x}) = Cardinality(s) - 1
      BY <1>2, <3>1, <3>2
    <3> QED
      BY <3>1, <3>3
  <2> QED
    BY <2>1
<1>4. ASSUME NEW n \in N PROVE n + 1 \in N
  <2>1. ASSUME NEW s \in Upto(n + 1) PROVE s \in T
    <3>1. ASSUME NEW x \in s PROVE s \ {x} \in T
      <4>1. s \in SUBSET S /\ Cardinality(s) <= n + 1 /\ Cardinality(s) \in Nat
        BY <1>1
      <4>2. s \ {x} \in Upto(n)
        BY <1>2, <4>1
      <4> QED
        BY <4>2
    <3> QED
      BY <3>1
  <2> QED
    BY <2>1
<1>5. N = Nat
  <2>1. N \in SUBSET Nat
    OBVIOUS
  <2> HIDE DEF N
  <2> QED
    BY <1>3, <1>4, <2>1, NatSet
<1>6. ASSUME NEW s \in SUBSET S PROVE s \in T
  <2>1. Cardinality(s) \in N /\ s \in Upto(Cardinality(s))
    BY <1>1, <1>5
  <2> QED
    BY <2>1
<1> QED
  BY <1>6

(***************************************************************************)
(* Sums over finite sets.                                                  *)
(***************************************************************************)
SumOver(f, S) == FoldFunctionOnSet(+, 0, f, S)

\* The recursive function in the definition of the sum.
Adds(it, f, S) ==
    it = [s \in SUBSET S |-> IF s = {} THEN 0
            ELSE f[CHOOSE x \in s : TRUE] + it[s \ {CHOOSE x \in s : TRUE}]]

LEMMA SumIsFold ==
    ASSUME NEW S, IsFiniteSet(S), NEW f, \A x \in S : f[x] \in Int
    PROVE  \E it \in [SUBSET S -> Int] : Adds(it, f, S) /\ SumOver(f, S) = it[S]
PROOF
<1> DEFINE G == [s \in SUBSET S |-> CHOOSE x \in s : TRUE]
           H == [p \in S \X Int |-> f[p[1]] + p[2]]
           it == CHOOSE jt : Adds(jt, f, S)
<1>1. Choosing(G, S)
  BY DEF Choosing
<1>2. H \in [S \X Int -> Int]
  OBVIOUS
<1>3. PICK jt \in [SUBSET S -> Int] : IsFold(jt, G, H, 0, S)
  <2>1. 0 \in Int
    OBVIOUS
  <2> HIDE DEF G, H
  <2> QED
    BY <1>1, <1>2, <2>1, FoldExists, Zenon
<1>4. ASSUME NEW s \in SUBSET S
      PROVE  jt[s] = IF s = {} THEN 0
                     ELSE f[CHOOSE x \in s : TRUE] + jt[s \ {CHOOSE x \in s : TRUE}]
  <2>1. CASE s # {}
    <3>1. (CHOOSE x \in s : TRUE) \in s
      BY <2>1
    <3>2. jt[s \ {G[s]}] \in Int
      OBVIOUS
    <3> QED
      BY <1>3, <2>1, <3>1, <3>2 DEF IsFold
  <2> QED
    BY <1>3, <2>1 DEF IsFold
<1>5. Adds(jt, f, S)
  BY <1>4 DEF Adds
<1>6. Adds(it, f, S)
  BY <1>5
<1>7. SumOver(f, S) = it[S]
  BY DEF SumOver, FoldFunctionOnSet, MapThenFoldSet, Adds
<1>8. \A s \in SUBSET S : it[s] \in Int
  <2> DEFINE T == {s \in SUBSET S : it[s] \in Int}
  <2>1. {} \in T
    <3>1. it[{}] = 0 /\ {} \in SUBSET S
      BY <1>6 DEF Adds
    <3> HIDE DEF it
    <3> QED
      BY <3>1
  <2>2. ASSUME NEW s \in SUBSET S, s # {}, \A x \in s : s \ {x} \in T PROVE s \in T
    <3>1. (CHOOSE x \in s : TRUE) \in s
      BY <2>2
    <3>2. it[s] = f[CHOOSE x \in s : TRUE] + it[s \ {CHOOSE x \in s : TRUE}]
      BY <1>6, <2>2 DEF Adds
    <3>3. s \ {CHOOSE x \in s : TRUE} \in T
      BY <2>2, <3>1
    <3> HIDE DEF it
    <3> QED
      BY <3>1, <3>2, <3>3
  <2>3. T \in SUBSET SUBSET S
    OBVIOUS
  <2>4. T = SUBSET S
    <3> HIDE DEF T
    <3> QED
      BY <2>1, <2>2, <2>3, SubsetInduction
  <2> QED
    BY <2>4
<1>9. it \in [SUBSET S -> Int]
  <2> HIDE DEF it
  <2> QED
    BY <1>6, <1>8 DEF Adds
<1> HIDE DEF it
<1> QED
  BY <1>6, <1>7, <1>9

\* Functions that take the same course agree.
LEMMA SameCourse ==
    ASSUME NEW S, IsFiniteSet(S), NEW it, NEW jt, it[{}] = jt[{}],
           \A s \in SUBSET S : s # {} =>
             \E x \in s : it[s \ {x}] = jt[s \ {x}] => it[s] = jt[s]
    PROVE  it[S] = jt[S]
PROOF
<1> DEFINE T == {s \in SUBSET S : it[s] = jt[s]}
<1>1. {} \in T
  OBVIOUS
<1>2. ASSUME NEW s \in SUBSET S, s # {}, \A x \in s : s \ {x} \in T PROVE s \in T
  BY <1>2
<1>3. T = SUBSET S
  <2>1. T \in SUBSET SUBSET S
    OBVIOUS
  <2> HIDE DEF T
  <2> QED
    BY <1>1, <1>2, <2>1, SubsetInduction
<1>4. S \in T
  BY <1>3
<1> QED
  BY <1>4

\* The sum over a subset takes the same course.
LEMMA SumOfSubset ==
    ASSUME NEW S, IsFiniteSet(S), NEW f, \A x \in S : f[x] \in Int,
           NEW it \in [SUBSET S -> Int], Adds(it, f, S), NEW s \in SUBSET S
    PROVE  SumOver(f, s) = it[s]
PROOF
<1>1. IsFiniteSet(s)
  BY FS_Subset
<1>2. PICK jt \in [SUBSET s -> Int] : Adds(jt, f, s) /\ SumOver(f, s) = jt[s]
  BY <1>1, SumIsFold
<1>3. it[{}] = jt[{}]
  BY <1>2 DEF Adds
<1>4. ASSUME NEW t \in SUBSET s, t # {}
      PROVE  \E x \in t : it[t \ {x}] = jt[t \ {x}] => it[t] = jt[t]
  <2>1. (CHOOSE x \in t : TRUE) \in t
    BY <1>4
  <2>2. /\ it[t] = f[CHOOSE x \in t : TRUE] + it[t \ {CHOOSE x \in t : TRUE}]
        /\ jt[t] = f[CHOOSE x \in t : TRUE] + jt[t \ {CHOOSE x \in t : TRUE}]
    BY <1>2, <1>4 DEF Adds
  <2> QED
    BY <2>1, <2>2
<1>5. it[s] = jt[s]
  BY <1>1, <1>3, <1>4, SameCourse
<1> QED
  BY <1>2, <1>5

\* Which element is taken first does not matter.
LEMMA SumTake ==
    ASSUME NEW S, IsFiniteSet(S), NEW f, \A x \in S : f[x] \in Int
    PROVE  /\ SumOver(f, S) \in Int
           /\ S = {} => SumOver(f, S) = 0
           /\ \A x \in S : SumOver(f, S) = f[x] + SumOver(f, S \ {x})
PROOF
<1>1. PICK it \in [SUBSET S -> Int] : Adds(it, f, S) /\ SumOver(f, S) = it[S]
  BY SumIsFold
<1> DEFINE T == {s \in SUBSET S : \A x \in s : it[s] = f[x] + it[s \ {x}]}
<1>2. {} \in T
  OBVIOUS
<1>3. ASSUME NEW s \in SUBSET S, s # {}, \A x \in s : s \ {x} \in T PROVE s \in T
  <2>1. PICK y \in s : it[s] = f[y] + it[s \ {y}]
    <3>1. (CHOOSE x \in s : TRUE) \in s
      BY <1>3
    <3> QED
      BY <1>1, <1>3, <3>1 DEF Adds
  <2>2. ASSUME NEW x \in s, x # y PROVE it[s] = f[x] + it[s \ {x}]
    <3>1. s \ {y} \in T /\ s \ {x} \in T
      BY <1>3
    <3>2. it[s \ {y}] = f[x] + it[(s \ {y}) \ {x}]
      BY <2>2, <3>1
    <3>3. it[s \ {x}] = f[y] + it[(s \ {x}) \ {y}]
      BY <2>2, <3>1
    <3>4. (s \ {x}) \ {y} = (s \ {y}) \ {x} /\ (s \ {y}) \ {x} \in SUBSET S
      OBVIOUS
    <3>5. it[(s \ {y}) \ {x}] \in Int /\ f[x] \in Int /\ f[y] \in Int
      BY <3>4
    <3>6. it[s \ {y}] = f[x] + it[(s \ {y}) \ {x}] /\ it[s \ {x}] = f[y] + it[(s \ {y}) \ {x}]
      BY <3>2, <3>3, <3>4
    <3> QED
      BY <2>1, <3>5, <3>6
  <2> QED
    BY <2>1, <2>2
<1>4. T = SUBSET S
  <2>1. T \in SUBSET SUBSET S
    OBVIOUS
  <2> HIDE DEF T
  <2> QED
    BY <1>2, <1>3, <2>1, SubsetInduction
<1>5. S \in T
  BY <1>4
<1>6. \A x \in S : SumOver(f, S \ {x}) = it[S \ {x}]
  <2> SUFFICES ASSUME NEW x \in S PROVE SumOver(f, S \ {x}) = it[S \ {x}]
    OBVIOUS
  <2>1. S \ {x} \in SUBSET S
    OBVIOUS
  <2>2. Adds(it, f, S) /\ (\A y \in S : f[y] \in Int)
    BY <1>1
  <2>3. \A s \in SUBSET S : SumOver(f, s) = it[s]
    BY <2>2, SumOfSubset, Zenon
  <2> QED
    BY <2>1, <2>3, Zenon
<1>7. SumOver(f, S) \in Int /\ (S = {} => SumOver(f, S) = 0)
  BY <1>1 DEF Adds
<1>8. \A x \in S : it[S] = f[x] + it[S \ {x}]
  BY <1>5
<1> QED
  BY <1>1, <1>6, <1>7, <1>8, Zenon

LEMMA SumAgree ==
    ASSUME NEW S, IsFiniteSet(S), NEW f, NEW g,
           \A x \in S : f[x] \in Int /\ g[x] = f[x]
    PROVE  SumOver(g, S) = SumOver(f, S)
PROOF
<1>1. PICK it \in [SUBSET S -> Int] : Adds(it, f, S) /\ SumOver(f, S) = it[S]
  BY SumIsFold
<1>2. \A s \in SUBSET S : s # {} => (CHOOSE x \in s : TRUE) \in S
  <2> SUFFICES ASSUME NEW s \in SUBSET S, s # {} PROVE (CHOOSE x \in s : TRUE) \in s
    OBVIOUS
  <2> QED
    OBVIOUS
<1>3. Adds(it, g, S)
  BY <1>1, <1>2 DEF Adds
<1>4. S \in SUBSET S /\ \A x \in S : g[x] \in Int
  OBVIOUS
<1> QED
  BY <1>1, <1>3, <1>4, SumOfSubset

LEMMA SumSplit ==
    ASSUME NEW S, IsFiniteSet(S), NEW f, \A x \in S : f[x] \in Int, NEW A \in SUBSET S
    PROVE  SumOver(f, S) = SumOver(f, A) + SumOver(f, S \ A)
PROOF
<1> DEFINE T == {s \in SUBSET S : SumOver(f, s) = SumOver(f, s \cap A) + SumOver(f, s \ A)}
<1>1. \A s \in SUBSET S : IsFiniteSet(s) /\ SumOver(f, s) \in Int
  <2> SUFFICES ASSUME NEW s \in SUBSET S PROVE IsFiniteSet(s) /\ SumOver(f, s) \in Int
    OBVIOUS
  <2>1. IsFiniteSet(s)
    BY FS_Subset
  <2>2. \A x \in s : f[x] \in Int
    OBVIOUS
  <2> QED
    BY <2>1, <2>2, SumTake
<1>2. \A s \in SUBSET S : \A x \in s : SumOver(f, s) = f[x] + SumOver(f, s \ {x})
  BY <1>1, SumTake
<1>3. SumOver(f, {}) = 0
  BY FS_EmptySet, SumTake
<1>4. {} \in T
  <2>1. {} \cap A = {} /\ {} \ A = {}
    OBVIOUS
  <2> QED
    BY <1>3, <2>1
<1>5. ASSUME NEW s \in SUBSET S, s # {}, \A x \in s : s \ {x} \in T PROVE s \in T
  <2>1. PICK x \in s : TRUE
    BY <1>5
  <2>2. SumOver(f, s \ {x}) = SumOver(f, (s \ {x}) \cap A) + SumOver(f, (s \ {x}) \ A)
    BY <1>5
  <2>3. SumOver(f, s) = f[x] + SumOver(f, s \ {x})
    BY <1>2
  <2>4. f[x] \in Int /\ s \cap A \in SUBSET S /\ s \ A \in SUBSET S
        /\ (s \ {x}) \cap A \in SUBSET S /\ (s \ {x}) \ A \in SUBSET S /\ s \ {x} \in SUBSET S
    OBVIOUS
  <2>5. CASE x \in A
    <3>1. (s \ {x}) \cap A = (s \cap A) \ {x} /\ (s \ {x}) \ A = s \ A /\ x \in s \cap A
      BY <2>5
    <3>2. SumOver(f, s \cap A) = f[x] + SumOver(f, (s \cap A) \ {x})
      BY <1>2, <2>4, <3>1
    <3>3. SumOver(f, (s \cap A) \ {x}) \in Int /\ SumOver(f, s \ A) \in Int
      BY <1>1, <2>4, <3>1
    <3>4. SumOver(f, s) = SumOver(f, s \cap A) + SumOver(f, s \ A)
      <4>1. SumOver(f, s \ {x}) = SumOver(f, (s \cap A) \ {x}) + SumOver(f, s \ A)
        BY <2>2, <3>1
      <4> QED
        BY <2>3, <2>4, <3>2, <3>3, <4>1
    <3> QED
      BY <3>4
  <2>6. CASE x \notin A
    <3>1. (s \ {x}) \cap A = s \cap A /\ (s \ {x}) \ A = (s \ A) \ {x} /\ x \in s \ A
      BY <2>6
    <3>2. SumOver(f, s \ A) = f[x] + SumOver(f, (s \ A) \ {x})
      BY <1>2, <2>4, <3>1
    <3>3. SumOver(f, (s \ A) \ {x}) \in Int /\ SumOver(f, s \cap A) \in Int
      BY <1>1, <2>4, <3>1
    <3>4. SumOver(f, s) = SumOver(f, s \cap A) + SumOver(f, s \ A)
      <4>1. SumOver(f, s \ {x}) = SumOver(f, s \cap A) + SumOver(f, (s \ A) \ {x})
        BY <2>2, <3>1
      <4> QED
        BY <2>3, <2>4, <3>2, <3>3, <4>1
    <3> QED
      BY <3>4
  <2> QED
    BY <2>5, <2>6
<1>6. T = SUBSET S
  <2>1. T \in SUBSET SUBSET S
    OBVIOUS
  <2> HIDE DEF T
  <2> QED
    BY <1>4, <1>5, <2>1, SubsetInduction
<1>7. S \in T /\ S \cap A = A
  BY <1>6
<1> QED
  BY <1>7

\* Two sums whose terms differ by 0 or 1.
LEMMA SumNear ==
    ASSUME NEW S, IsFiniteSet(S), NEW f, NEW g,
           \A x \in S : f[x] \in Int /\ g[x] \in Int /\ f[x] - g[x] \in {0, 1}
    PROVE  SumOver(f, S) - SumOver(g, S) \in 0..Cardinality(S)
PROOF
<1> DEFINE T == {s \in SUBSET S : SumOver(f, s) - SumOver(g, s) \in 0..Cardinality(s)}
<1>1. \A s \in SUBSET S : /\ IsFiniteSet(s) /\ Cardinality(s) \in Nat
                          /\ SumOver(f, s) \in Int /\ SumOver(g, s) \in Int
  <2> SUFFICES ASSUME NEW s \in SUBSET S
               PROVE  /\ IsFiniteSet(s) /\ Cardinality(s) \in Nat
                      /\ SumOver(f, s) \in Int /\ SumOver(g, s) \in Int
    OBVIOUS
  <2>1. IsFiniteSet(s) /\ Cardinality(s) \in Nat
    BY FS_Subset, FS_CardinalityType
  <2>2. \A x \in s : f[x] \in Int /\ g[x] \in Int
    OBVIOUS
  <2> QED
    BY <2>1, <2>2, SumTake
<1>2. {} \in T
  <2>1. SumOver(f, {}) = 0 /\ SumOver(g, {}) = 0 /\ Cardinality({}) = 0
    BY FS_EmptySet, SumTake
  <2> QED
    BY <2>1
<1>3. ASSUME NEW s \in SUBSET S, s # {}, \A x \in s : s \ {x} \in T PROVE s \in T
  <2>1. PICK x \in s : TRUE
    BY <1>3
  <2>2. s \ {x} \in T /\ s \ {x} \in SUBSET S
    BY <1>3
  <2>3. SumOver(f, s) = f[x] + SumOver(f, s \ {x}) /\ SumOver(g, s) = g[x] + SumOver(g, s \ {x})
    BY <1>1, SumTake
  <2>4. Cardinality(s \ {x}) = Cardinality(s) - 1
    BY <1>1, FS_RemoveElement
  <2>5. f[x] \in Int /\ g[x] \in Int /\ f[x] - g[x] \in {0, 1}
    OBVIOUS
  <2>6. \A t \in {s, s \ {x}} : /\ Cardinality(t) \in Nat /\ SumOver(f, t) \in Int
                                /\ SumOver(g, t) \in Int
    BY <1>1, <2>2
  <2> QED
    BY <2>2, <2>3, <2>4, <2>5, <2>6
<1>4. T = SUBSET S
  <2>1. T \in SUBSET SUBSET S
    OBVIOUS
  <2> HIDE DEF T
  <2> QED
    BY <1>2, <1>3, <2>1, SubsetInduction
<1>5. S \in T
  BY <1>4
<1> QED
  BY <1>5

LEMMA SumMinus ==
    ASSUME NEW S, IsFiniteSet(S), NEW f, NEW g, NEW h,
           \A x \in S : f[x] \in Int /\ g[x] \in Int /\ h[x] = f[x] - g[x]
    PROVE  SumOver(h, S) = SumOver(f, S) - SumOver(g, S)
PROOF
<1> DEFINE T == {s \in SUBSET S : SumOver(h, s) = SumOver(f, s) - SumOver(g, s)}
<1>1. \A s \in SUBSET S : /\ SumOver(f, s) \in Int /\ SumOver(g, s) \in Int
                          /\ SumOver(h, s) \in Int
                          /\ s = {} => SumOver(f, s) = 0 /\ SumOver(g, s) = 0 /\ SumOver(h, s) = 0
                          /\ \A x \in s : /\ SumOver(f, s) = f[x] + SumOver(f, s \ {x})
                                          /\ SumOver(g, s) = g[x] + SumOver(g, s \ {x})
                                          /\ SumOver(h, s) = h[x] + SumOver(h, s \ {x})
  <2> SUFFICES ASSUME NEW s \in SUBSET S
               PROVE  /\ SumOver(f, s) \in Int /\ SumOver(g, s) \in Int
                      /\ SumOver(h, s) \in Int
                      /\ s = {} => SumOver(f, s) = 0 /\ SumOver(g, s) = 0 /\ SumOver(h, s) = 0
                      /\ \A x \in s : /\ SumOver(f, s) = f[x] + SumOver(f, s \ {x})
                                      /\ SumOver(g, s) = g[x] + SumOver(g, s \ {x})
                                      /\ SumOver(h, s) = h[x] + SumOver(h, s \ {x})
    OBVIOUS
  <2>1. IsFiniteSet(s)
    BY FS_Subset
  <2>2. \A x \in s : f[x] \in Int /\ g[x] \in Int /\ h[x] \in Int
    OBVIOUS
  <2>3. /\ SumOver(f, s) \in Int /\ (s = {} => SumOver(f, s) = 0)
        /\ \A x \in s : SumOver(f, s) = f[x] + SumOver(f, s \ {x})
    BY <2>1, <2>2, SumTake
  <2>4. /\ SumOver(g, s) \in Int /\ (s = {} => SumOver(g, s) = 0)
        /\ \A x \in s : SumOver(g, s) = g[x] + SumOver(g, s \ {x})
    BY <2>1, <2>2, SumTake
  <2>5. /\ SumOver(h, s) \in Int /\ (s = {} => SumOver(h, s) = 0)
        /\ \A x \in s : SumOver(h, s) = h[x] + SumOver(h, s \ {x})
    BY <2>1, <2>2, SumTake
  <2> QED
    BY <2>3, <2>4, <2>5, Zenon
<1>2. {} \in T
  <2>1. SumOver(f, {}) = 0 /\ SumOver(g, {}) = 0 /\ SumOver(h, {}) = 0
    BY <1>1
  <2> QED
    BY <2>1
<1>3. ASSUME NEW s \in SUBSET S, s # {}, \A x \in s : s \ {x} \in T PROVE s \in T
  <2>1. PICK x \in s : TRUE
    BY <1>3
  <2>2. SumOver(h, s \ {x}) = SumOver(f, s \ {x}) - SumOver(g, s \ {x}) /\ s \ {x} \in SUBSET S
    BY <1>3
  <2>3. /\ SumOver(f, s) = f[x] + SumOver(f, s \ {x})
        /\ SumOver(g, s) = g[x] + SumOver(g, s \ {x})
        /\ SumOver(h, s) = h[x] + SumOver(h, s \ {x})
    BY <1>1
  <2>4. f[x] \in Int /\ g[x] \in Int /\ h[x] = f[x] - g[x]
    OBVIOUS
  <2>5. /\ SumOver(f, s \ {x}) \in Int /\ SumOver(g, s \ {x}) \in Int
    BY <1>1, <2>2
  <2> QED
    BY <2>2, <2>3, <2>4, <2>5
<1>4. T = SUBSET S
  <2>1. T \in SUBSET SUBSET S
    OBVIOUS
  <2> HIDE DEF T
  <2> QED
    BY <1>2, <1>3, <2>1, SubsetInduction
<1>5. S \in T
  BY <1>4
<1> QED
  BY <1>5

\* The sum over an image under an injection.
LEMMA SumImage ==
    ASSUME NEW S, IsFiniteSet(S), NEW f, NEW R,
           \A x, y \in S : R[x] = R[y] => x = y,
           \A x \in S : f[R[x]] \in Int
    PROVE  /\ IsFiniteSet({R[x] : x \in S})
           /\ SumOver(f, {R[x] : x \in S}) = SumOver([x \in S |-> f[R[x]]], S)
PROOF
<1> DEFINE Img(s) == {R[x] : x \in s}
           g == [x \in S |-> f[R[x]]]
           T == {s \in SUBSET S : SumOver(f, Img(s)) = SumOver(g, s)}
<1>1. \A s \in SUBSET S : IsFiniteSet(Img(s))
  <2> SUFFICES ASSUME NEW s \in SUBSET S PROVE IsFiniteSet(Img(s))
    OBVIOUS
  <2>1. IsFiniteSet(s)
    BY FS_Subset
  <2> DEFINE Q == [x \in s |-> R[x]]
  <2>2. Q \in Surjection(s, Img(s))
    BY DEF Surjection
  <2> HIDE DEF Q, Img
  <2> QED
    BY <2>1, <2>2, FS_Surjection
<1>2. {} \in T
  <2>1. SumOver(f, {}) = 0
    BY FS_EmptySet, SumTake
  <2>2. SumOver(g, {}) = 0
    BY FS_EmptySet, SumTake
  <2>3. Img({}) = {}
    OBVIOUS
  <2> HIDE DEF g, Img
  <2> QED
    BY <2>1, <2>2, <2>3
<1>3. ASSUME NEW s \in SUBSET S, s # {}, \A x \in s : s \ {x} \in T PROVE s \in T
  <2>1. PICK x \in s : TRUE
    BY <1>3
  <2>2. SumOver(f, Img(s \ {x})) = SumOver(g, s \ {x}) /\ s \ {x} \in SUBSET S
    BY <1>3
  <2>3. Img(s \ {x}) = Img(s) \ {R[x]} /\ R[x] \in Img(s)
    OBVIOUS
  <2>4. SumOver(g, s) = g[x] + SumOver(g, s \ {x})
    <3>1. IsFiniteSet(s)
      BY FS_Subset
    <3>2. \A y \in s : g[y] \in Int
      OBVIOUS
    <3> HIDE DEF g
    <3> QED
      BY <3>1, <3>2, SumTake
  <2>5. SumOver(f, Img(s)) = f[R[x]] + SumOver(f, Img(s) \ {R[x]})
    <3>1. IsFiniteSet(Img(s))
      BY <1>1
    <3>2. \A y \in Img(s) : f[y] \in Int
      OBVIOUS
    <3> HIDE DEF Img
    <3> QED
      BY <2>3, <3>1, <3>2, SumTake
  <2>6. g[x] = f[R[x]]
    OBVIOUS
  <2> HIDE DEF g, Img
  <2> QED
    BY <2>2, <2>3, <2>4, <2>5, <2>6
<1>4. T = SUBSET S
  <2>1. T \in SUBSET SUBSET S
    OBVIOUS
  <2> HIDE DEF T
  <2> QED
    BY <1>2, <1>3, <2>1, SubsetInduction
<1>5. S \in T
  BY <1>4
<1> QED
  BY <1>1, <1>5

\* Every finite set of numbers that is not empty has a greatest one.
LEMMA Greatest ==
    ASSUME NEW S \in SUBSET Int, IsFiniteSet(S), S # {}
    PROVE  Max(S) \in S /\ \A y \in S : Max(S) >= y
PROOF
<1> DEFINE HasMax(s) == \E m \in s : \A y \in s : m >= y
           T == {s \in SUBSET S : s = {} \/ HasMax(s)}
<1>1. {} \in T
  OBVIOUS
<1>2. ASSUME NEW s \in SUBSET S, s # {}, \A x \in s : s \ {x} \in T PROVE s \in T
  <2>1. PICK x \in s : TRUE
    BY <1>2
  <2>2. CASE s \ {x} = {}
    <3>1. \A y \in s : y = x
      BY <2>2
    <3>2. HasMax(s)
      <4>1. x \in Int /\ \A y \in s : x >= y
        BY <3>1
      <4> QED
        BY <4>1
    <3> QED
      BY <3>2
  <2>3. CASE s \ {x} # {}
    <3>1. PICK m \in s \ {x} : \A y \in s \ {x} : m >= y
      BY <1>2, <2>3
    <3>2. m \in Int /\ x \in Int /\ m \in s
      OBVIOUS
    <3>3. CASE m >= x
      <4>1. \A y \in s : m >= y
        BY <3>1, <3>3
      <4> QED
        BY <3>2, <4>1
    <3>4. CASE ~(m >= x)
      <4>1. \A y \in s : y = x \/ (y \in s \ {x} /\ y \in Int)
        OBVIOUS
      <4>2. \A y \in s : x >= y
        BY <3>1, <3>2, <3>4, <4>1
      <4> QED
        BY <4>2
    <3> QED
      BY <3>3, <3>4
  <2> QED
    BY <2>2, <2>3
<1>3. T = SUBSET S
  <2>1. T \in SUBSET SUBSET S
    OBVIOUS
  <2> HIDE DEF T
  <2> QED
    BY <1>1, <1>2, <2>1, SubsetInduction
<1>4. S \in T
  BY <1>3
<1>5. HasMax(S)
  BY <1>4
<1> QED
  BY <1>5 DEF Max

LEMMA MaxOfBounded ==
    ASSUME NEW n \in Nat, NEW S, S \subseteq 0..n, S # {}
    PROVE  Max(S) \in S /\ \A y \in S : Max(S) >= y
PROOF
<1>1. IsFiniteSet(0..n)
  BY FS_Interval
<1>2. S \in SUBSET (0..n) /\ S \in SUBSET Int
  OBVIOUS
<1>3. IsFiniteSet(S)
  BY <1>1, <1>2, FS_Subset
<1> QED
  BY <1>2, <1>3, Greatest

\* Every set of naturals that is not empty has a least one.
LEMMA Smallest ==
    ASSUME NEW S, S \subseteq Nat, S # {}
    PROVE  Min(S) \in S /\ \A y \in S : Min(S) <= y
PROOF
<1> DEFINE R == OpToRel(<, Nat)
<1>1. IsWellFoundedOn(R, Nat)
  BY NatLessThanWellFounded
<1>2. PICK x \in S : \A y \in S : <<y, x>> \notin R
  <2> HIDE DEF R
  <2> QED
    BY <1>1, WFMin
<1>3. \A y \in S : x <= y
  <2> SUFFICES ASSUME NEW y \in S PROVE x <= y
    OBVIOUS
  <2>1. x \in Nat /\ y \in Nat
    OBVIOUS
  <2>2. ~(y < x)
    BY <1>2, <2>1 DEF OpToRel
  <2> QED
    BY <2>1, <2>2
<1> QED
  BY <1>3 DEF Min
=============================================================================
