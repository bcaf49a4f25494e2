--------------------------- MODULE Components_proofs ---------------------------
(****************************************************************************)
(* Theorems about the components MCComponents sets side by side, for all    *)
(* values of their constants: strategies, signals, pairs, market tables,    *)
(* health check, paper desk, schedule and rules.  The invariant of each is  *)
(* proved of its own actions; that a step of the whole is a step of each or *)
(* leaves it alone puts them together.                                      *)
(****************************************************************************)
EXTENDS MCComponents, FiniteSetTheorems, NaturalsInduction, TLAPS

--------------------------------------------------------------------------------
(* Operators. *)

LEMMA UpToIsFinite ==
    ASSUME NEW n \in Nat
    PROVE  IsFiniteSet(1..n) /\ Cardinality(1..n) = n
  <1>1. IsFiniteSet(1..n) /\ Cardinality(1..n) = IF 1 > n THEN 0 ELSE n - 1 + 1
    BY FS_Interval
  <1> QED
    BY <1>1

LEMMA MinOfTwo ==
    ASSUME NEW a \in Int, NEW b \in Int
    PROVE  Min({a, b}) = IF a <= b THEN a ELSE b
  <1>1. \E x \in {a, b} : \A y \in {a, b} : x <= y
    OBVIOUS
  <1> QED
    BY <1>1 DEF Min

LEMMA MaxOfTwo ==
    ASSUME NEW a \in Int, NEW b \in Int
    PROVE  Max({a, b}) = IF a >= b THEN a ELSE b
  <1>1. \E x \in {a, b} : \A y \in {a, b} : x >= y
    OBVIOUS
  <1> QED
    BY <1>1 DEF Max

LEMMA MaxIs ==
    ASSUME NEW S, S \subseteq Int, NEW m \in S, \A x \in S : m >= x
    PROVE  Max(S) = m
  <1>1. \A x \in S : x >= m => x = m
    OBVIOUS
  <1> QED
    BY <1>1 DEF Max

LEMMA MinIs ==
    ASSUME NEW S, S \subseteq Int, NEW m \in S, \A x \in S : m <= x
    PROVE  Min(S) = m
  <1>1. \A x \in S : x <= m => x = m
    OBVIOUS
  <1> QED
    BY <1>1 DEF Min

LEMMA LeastNatural ==
    ASSUME NEW T \in SUBSET Nat, T # {}
    PROVE  \E x \in T : \A y \in T : x <= y
  <1> DEFINE Less == {pair \in Nat \X Nat : pair[1] < pair[2]}
  <1>1. IsWellFoundedOn(Less, Nat)
    BY NatLessThanWellFounded DEF OpToRel
  <1>2. \E x \in T : \A y \in T : <<y, x>> \notin Less
    <2> HIDE DEF Less
    <2> QED
      BY <1>1, WFMin
  <1>3. ASSUME NEW x \in T, NEW y \in T, <<y, x>> \notin Less
        PROVE  x <= y
    <2>1. x \in Nat /\ y \in Nat /\ ~(y < x)
      BY <1>3
    <2> QED
      BY <2>1
  <1> QED
    BY <1>2, <1>3

\* A set of numbers that has 0 and every successor has them all.
LEMMA NaturalSteps ==
    ASSUME NEW P, 0 \in P, \A n \in Nat : n \in P => n + 1 \in P
    PROVE  \A n \in Nat : n \in P
  <1> SUFFICES ASSUME Nat \ P # {} PROVE FALSE
    OBVIOUS
  <1>1. PICK m \in Nat \ P : \A y \in Nat \ P : m <= y
    BY LeastNatural
  <1>2. m # 0 /\ m - 1 \in Nat /\ ~(m <= m - 1)
    BY <1>1
  <1>3. m - 1 \in P
    BY <1>1, <1>2
  <1> QED
    BY <1>1, <1>2, <1>3

\* A collection of subsets of a finite set that has the empty one, and each one
\* that it has without one of its elements, has them all.
LEMMA SubsetSteps ==
    ASSUME NEW S, IsFiniteSet(S), NEW P, {} \in P,
           \A T \in SUBSET S : T # {} /\ (\A x \in T : T \ {x} \in P) => T \in P
    PROVE  \A T \in SUBSET S : T \in P
  <1> DEFINE Small == {n \in Nat : \A T \in SUBSET S : Cardinality(T) = n => T \in P}
  <1>0. \A T \in SUBSET S : IsFiniteSet(T) /\ Cardinality(T) \in Nat
    BY FS_Subset, FS_CardinalityType
  <1>1. 0 \in Small
    BY <1>0, FS_EmptySet
  <1>2. ASSUME NEW n \in Nat, n \in Small PROVE n + 1 \in Small
    <2> SUFFICES ASSUME NEW T \in SUBSET S, Cardinality(T) = n + 1 PROVE T \in P
      OBVIOUS
    <2>1. T # {}
      BY <1>0, FS_EmptySet
    <2>2. \A x \in T : Cardinality(T \ {x}) = n
      BY <1>0, FS_RemoveElement
    <2>3. \A x \in T : T \ {x} \in P
      BY <1>2, <2>2
    <2> QED
      BY <2>1, <2>3
  <1>3. \A n \in Nat : n \in Small
    <2> HIDE DEF Small
    <2> QED
      BY <1>1, <1>2, NaturalSteps
  <1> QED
    BY <1>0, <1>3

PicksFrom(S, pick) == \A T \in SUBSET S : T # {} => pick[T] \in T

StepsWithin(S, V, step) == \A x \in S, v \in V : step[<<x, v>>] \in V

FoldsOver(S, V, base, pick, step, g) ==
    /\ g \in [SUBSET S -> V]
    /\ \A T \in SUBSET S :
         g[T] = IF T = {} THEN base ELSE step[<<pick[T], g[T \ {pick[T]}]>>]

\* A fold over the subsets of a finite set is a function: what the community
\* modules choose exists.
LEMMA FoldExists ==
    ASSUME NEW S, IsFiniteSet(S), NEW V, NEW base \in V, NEW pick, NEW step,
           PicksFrom(S, pick), StepsWithin(S, V, step)
    PROVE  \E g : FoldsOver(S, V, base, pick, step, g)
  <1>a. /\ \A T \in SUBSET S : T # {} => pick[T] \in T
        /\ \A x \in S, v \in V : step[<<x, v>>] \in V
    BY DEF PicksFrom, StepsWithin
  <1> DEFINE Upto(n) == {T \in SUBSET S : Cardinality(T) <= n}
             Value(g, T) == IF T = {} THEN base ELSE step[<<pick[T], g[T \ {pick[T]}]>>]
             FoldedBy(g, n) == g \in [Upto(n) -> V] /\ \A T \in Upto(n) : g[T] = Value(g, T)
             Done == {n \in Nat : \E g : FoldedBy(g, n)}
  <1>0. /\ \A T \in SUBSET S : IsFiniteSet(T) /\ Cardinality(T) \in Nat
        /\ \A T \in SUBSET S : Cardinality(T) <= Cardinality(S)
        /\ Cardinality({}) = 0 /\ \A T \in SUBSET S : Cardinality(T) = 0 => T = {}
    BY FS_Subset, FS_CardinalityType, FS_EmptySet
  <1>1. 0 \in Done
    <2>1. \A T \in Upto(0) : T = {}
      BY <1>0
    <2>2. FoldedBy([T \in Upto(0) |-> base], 0)
      BY <2>1
    <2> QED
      BY <2>2
  <1>2. ASSUME NEW n \in Nat, n \in Done PROVE n + 1 \in Done
    <2>1. PICK g : FoldedBy(g, n)
      BY <1>2
    <2> DEFINE Extended(T) == IF T \in Upto(n) THEN g[T] ELSE Value(g, T)
               h == [T \in Upto(n + 1) |-> Extended(T)]
    <2>2. \A T \in Upto(n) : T \in Upto(n + 1)
      BY <1>0
    <2>3. ASSUME NEW T \in Upto(n + 1), T # {}
          PROVE  T \ {pick[T]} \in Upto(n) /\ pick[T] \in S
      <3>1. pick[T] \in T /\ IsFiniteSet(T)
        BY <1>a, <1>0, <2>3
      <3>2. Cardinality(T \ {pick[T]}) = Cardinality(T) - 1
        BY <3>1, FS_RemoveElement
      <3> QED
        BY <1>0, <2>3, <3>1, <3>2
    <2>4. ASSUME NEW T \in Upto(n + 1) PROVE h[T] \in V /\ h[T] = Value(h, T)
      <3>1. CASE T = {}
        <4>1. T \in Upto(n)
          BY <1>0, <3>1
        <4> QED
          BY <2>1, <2>2, <3>1, <4>1
      <3>2. CASE T # {}
        <4>1. T \ {pick[T]} \in Upto(n) /\ pick[T] \in S
          BY <2>3, <3>2
        <4>2. h[T \ {pick[T]}] = g[T \ {pick[T]}] /\ g[T \ {pick[T]}] \in V
          BY <2>1, <2>2, <4>1
        <4>3. h[T] = Value(g, T)
          BY <2>1
        <4> QED
          BY <1>a, <3>2, <4>1, <4>2, <4>3
      <3> QED
        BY <3>1, <3>2
    <2>5. FoldedBy(h, n + 1)
      <3>1. \A T \in Upto(n + 1) : Extended(T) \in V
        <4> HIDE DEF Extended
        <4> QED
          BY <2>4
      <3>2. h \in [Upto(n + 1) -> V]
        <4> HIDE DEF Extended, Upto
        <4> QED
          BY <3>1
      <3> HIDE DEF h, Value
      <3> QED
        BY <2>4, <3>2
    <2> HIDE DEF h, FoldedBy
    <2> QED
      BY <2>5
  <1>3. \A n \in Nat : n \in Done
    <2> HIDE DEF Done
    <2> QED
      BY <1>1, <1>2, NaturalSteps
  <1>4. Cardinality(S) \in Done
    BY <1>0, <1>3
  <1>5. PICK g : FoldedBy(g, Cardinality(S))
    BY <1>4
  <1>6. Upto(Cardinality(S)) = SUBSET S
    BY <1>0
  <1>7. g \in [SUBSET S -> V]
    BY <1>5, <1>6
  <1>8. \A T \in SUBSET S : g[T] = Value(g, T)
    BY <1>5, <1>6
  <1> QED
    BY <1>7, <1>8 DEF FoldsOver

PickOf(T) == CHOOSE x \in T : TRUE

SumsTo(f, S, g) ==
    /\ g \in [SUBSET S -> Int]
    /\ \A T \in SUBSET S :
         g[T] = IF T = {} THEN 0 ELSE f[PickOf(T)] + g[T \ {PickOf(T)}]

\* A sum over a set, element by element.
LEMMA SummedIs ==
    ASSUME NEW S, IsFiniteSet(S), NEW f, \A x \in S : f[x] \in Int
    PROVE  \E g : SumsTo(f, S, g) /\ Summed(f, S) = g[S]
  <1> DEFINE pick == [T \in SUBSET S |-> PickOf(T)]
             step == [p \in S \X Int |-> f[p[1]] + p[2]]
             Body(g) == [T \in SUBSET S |-> IF T = {} THEN 0
                                            ELSE f[PickOf(T)] + g[T \ {PickOf(T)}]]
  <1>1. \A T \in SUBSET S : T # {} => PickOf(T) \in T
    BY DEF PickOf
  <1>2. \E g : FoldsOver(S, Int, 0, pick, step, g)
    <2>1. PicksFrom(S, pick)
      BY <1>1 DEF PicksFrom
    <2>2. StepsWithin(S, Int, step)
      BY DEF StepsWithin
    <2> HIDE DEF pick, step
    <2> QED
      BY <2>1, <2>2, FoldExists
  <1>3. PICK g \in [SUBSET S -> Int] :
          \A T \in SUBSET S :
             g[T] = IF T = {} THEN 0 ELSE step[<<pick[T], g[T \ {pick[T]}]>>]
    BY <1>2 DEF FoldsOver
  <1>4. \A T \in SUBSET S : T # {} =>
          step[<<pick[T], g[T \ {pick[T]}]>>] = f[PickOf(T)] + g[T \ {PickOf(T)}]
    <2> TAKE T \in SUBSET S
    <2> HAVE T # {}
    <2>1. PickOf(T) \in S /\ T \ {PickOf(T)} \in SUBSET S /\ pick[T] = PickOf(T)
      BY <1>1
    <2>2. g[T \ {PickOf(T)}] \in Int
      BY <2>1
    <2> HIDE DEF pick
    <2> QED
      BY <2>1, <2>2
  <1>5. g = Body(g)
    <2> HIDE DEF pick, step
    <2>1. \A T \in SUBSET S : g[T] = Body(g)[T]
      BY <1>3, <1>4
    <2>2. Body(g) = [T \in SUBSET S |-> Body(g)[T]]
      OBVIOUS
    <2> HIDE DEF Body
    <2> QED
      BY <2>1, <2>2, <1>3
  <1> DEFINE c == CHOOSE h : h = Body(h)
  <1>6. c = Body(c)
    BY <1>5
  <1>7. Summed(f, S) = c[S]
    BY DEF Summed, FoldSet, MapThenFoldSet, PickOf
  <1>8. \A T \in SUBSET S : c[T] = IF T = {} THEN 0 ELSE f[PickOf(T)] + c[T \ {PickOf(T)}]
    <2> HIDE DEF c
    <2> QED
      BY <1>6
  <1> DEFINE P == {T \in SUBSET S : c[T] \in Int}
  <1>9. {} \in P
    <2> HIDE DEF c
    <2>1. c[{}] = 0
      BY <1>8
    <2> QED
      BY <2>1
  <1>10. ASSUME NEW T \in SUBSET S, T # {}, \A x \in T : T \ {x} \in P
         PROVE  T \in P
    <2> HIDE DEF c
    <2>1. PickOf(T) \in T /\ T \ {PickOf(T)} \in P
      BY <1>1, <1>10
    <2>2. c[T] = f[PickOf(T)] + c[T \ {PickOf(T)}]
      BY <1>8, <1>10
    <2> QED
      BY <2>1, <2>2
  <1>11. \A T \in SUBSET S : T \in P
    <2> HIDE DEF P
    <2> QED
      BY <1>9, <1>10, SubsetSteps
  <1>12. c \in [SUBSET S -> Int]
    <2> HIDE DEF c
    <2>1. c = [T \in SUBSET S |-> c[T]]
      BY <1>6
    <2> QED
      BY <1>11, <2>1
  <1> HIDE DEF c
  <1> QED
    BY <1>7, <1>8, <1>12 DEF SumsTo

\* The sum does not depend on the order, and that over a part is a part of it.
LEMMA SumsToAny ==
    ASSUME NEW S, IsFiniteSet(S), NEW f, \A x \in S : f[x] \in Int, NEW g, SumsTo(f, S, g)
    PROVE  \A T \in SUBSET S, x \in S : x \in T => g[T] = f[x] + g[T \ {x}]
  <1>0. /\ \A T \in SUBSET S : g[T] \in Int
        /\ \A T \in SUBSET S : T # {} => /\ PickOf(T) \in T
                                         /\ g[T] = f[PickOf(T)] + g[T \ {PickOf(T)}]
    BY DEF SumsTo, PickOf
  <1> DEFINE P == {T \in SUBSET S : \A x \in T : g[T] = f[x] + g[T \ {x}]}
  <1>1. {} \in P
    OBVIOUS
  <1>2. ASSUME NEW T \in SUBSET S, T # {}, \A x \in T : T \ {x} \in P
        PROVE  T \in P
    <2> SUFFICES ASSUME NEW x \in T PROVE g[T] = f[x] + g[T \ {x}]
      BY <1>2
    <2> DEFINE y == PickOf(T)
    <2>1. y \in T /\ g[T] = f[y] + g[T \ {y}]
      BY <1>0, <1>2
    <2> HIDE DEF y
    <2>2. CASE x = y
      BY <2>1, <2>2
    <2>3. CASE x # y
      <3>1. g[T \ {y}] = f[x] + g[(T \ {y}) \ {x}] /\ g[T \ {x}] = f[y] + g[(T \ {x}) \ {y}]
        BY <1>2, <2>1, <2>3
      <3>2. g[(T \ {y}) \ {x}] = g[(T \ {x}) \ {y}]
        <4>1. (T \ {y}) \ {x} = (T \ {x}) \ {y}
          OBVIOUS
        <4> QED
          BY <4>1
      <3>3. f[x] \in Int /\ f[y] \in Int /\ g[(T \ {x}) \ {y}] \in Int /\ g[T \ {y}] \in Int
            /\ g[T \ {x}] \in Int
        BY <1>0, <2>1
      <3> QED
        BY <2>1, <3>1, <3>2, <3>3
    <2> QED
      BY <2>2, <2>3
  <1> HIDE DEF P
  <1>3. \A T \in SUBSET S : T \in P
    BY <1>1, <1>2, SubsetSteps
  <1> QED
    BY <1>3 DEF P

LEMMA SumsToOne ==
    ASSUME NEW S, IsFiniteSet(S), NEW f, NEW g, SumsTo(f, S, g), NEW U \in SUBSET S, NEW k,
           SumsTo(f, U, k)
    PROVE  k[U] = g[U]
  <1> DEFINE P == {T \in SUBSET U : k[T] = g[T]}
  <1>0. IsFiniteSet(U)
    BY FS_Subset
  <1>1. {} \in P
    BY DEF SumsTo
  <1>2. ASSUME NEW T \in SUBSET U, T # {}, \A x \in T : T \ {x} \in P
        PROVE  T \in P
    <2>1. PickOf(T) \in T
      BY <1>2 DEF PickOf
    <2>2. k[T \ {PickOf(T)}] = g[T \ {PickOf(T)}]
      BY <1>2, <2>1
    <2>3. k[T] = f[PickOf(T)] + k[T \ {PickOf(T)}] /\ g[T] = f[PickOf(T)] + g[T \ {PickOf(T)}]
      BY <1>2 DEF SumsTo
    <2> QED
      BY <2>2, <2>3
  <1> HIDE DEF P
  <1>3. \A T \in SUBSET U : T \in P
    BY <1>0, <1>1, <1>2, SubsetSteps
  <1> QED
    BY <1>3 DEF P

LEMMA SummedMoves ==
    ASSUME NEW S, IsFiniteSet(S), NEW f, \A x \in S : f[x] \in Int
    PROVE  /\ Summed(f, S) \in Int
           /\ Summed(f, {}) = 0
           /\ \A x \in S : Summed(f, S) = f[x] + Summed(f, S \ {x})
  <1>1. PICK g : SumsTo(f, S, g) /\ Summed(f, S) = g[S]
    BY SummedIs
  <1>2. ASSUME NEW U \in SUBSET S PROVE Summed(f, U) = g[U]
    <2>1. IsFiniteSet(U) /\ \A x \in U : f[x] \in Int
      BY FS_Subset
    <2>2. PICK k : SumsTo(f, U, k) /\ Summed(f, U) = k[U]
      BY <2>1, SummedIs
    <2> QED
      BY <1>1, <2>2, SumsToOne
  <1>3. g[S] \in Int /\ g[{}] = 0
    BY <1>1 DEF SumsTo
  <1>4. \A x \in S : g[S] = f[x] + g[S \ {x}]
    <2>1. \A T \in SUBSET S, x \in S : x \in T => g[T] = f[x] + g[T \ {x}]
      BY <1>1, SumsToAny
    <2> QED
      BY <2>1
  <1>5. \A x \in S : S \ {x} \in SUBSET S
    OBVIOUS
  <1> QED
    BY <1>1, <1>2, <1>3, <1>4, <1>5

LEMMA SummedSteps ==
    ASSUME NEW S, IsFiniteSet(S), NEW f, \A x \in S : f[x] \in Nat
    PROVE  /\ Summed(f, S) \in Nat
           /\ Summed(f, {}) = 0
           /\ \A x \in S : Summed(f, S) = f[x] + Summed(f, S \ {x})
  <1> DEFINE P == {T \in SUBSET S : Summed(f, T) \in Nat}
  <1>1. ASSUME NEW T \in SUBSET S
        PROVE  /\ Summed(f, {}) = 0
               /\ \A x \in T : Summed(f, T) = f[x] + Summed(f, T \ {x})
    <2>1. IsFiniteSet(T) /\ \A x \in T : f[x] \in Int
      BY FS_Subset
    <2> QED
      BY <2>1, SummedMoves
  <1>2. {} \in P
    BY <1>1
  <1>3. ASSUME NEW T \in SUBSET S, T # {}, \A x \in T : T \ {x} \in P
        PROVE  T \in P
    <2>1. PICK x \in T : TRUE
      BY <1>3
    <2>2. Summed(f, T \ {x}) \in Nat
      BY <1>3
    <2>3. f[x] \in Nat /\ Summed(f, T) = f[x] + Summed(f, T \ {x})
      BY <1>1
    <2> QED
      BY <2>2, <2>3
  <1> HIDE DEF P
  <1>4. \A T \in SUBSET S : T \in P
    BY <1>2, <1>3, SubsetSteps
  <1> QED
    BY <1>1, <1>4 DEF P

\* What two weights have in common they sum alike; entries of 0 do not count.
LEMMA SummedAlike ==
    ASSUME NEW S, IsFiniteSet(S), NEW f, NEW h,
           \A x \in S : f[x] \in Int /\ h[x] = f[x]
    PROVE  Summed(h, S) = Summed(f, S)
  <1> DEFINE P == {T \in SUBSET S : Summed(h, T) = Summed(f, T)}
  <1>0. ASSUME NEW T \in SUBSET S
        PROVE  /\ Summed(h, {}) = 0 /\ Summed(f, {}) = 0
               /\ \A x \in T : /\ Summed(h, T) = h[x] + Summed(h, T \ {x})
                               /\ Summed(f, T) = f[x] + Summed(f, T \ {x})
    <2>1. IsFiniteSet(T) /\ (\A x \in T : f[x] \in Int) /\ \A x \in T : h[x] \in Int
      BY FS_Subset
    <2> QED
      BY <2>1, SummedMoves
  <1>1. {} \in P
    BY <1>0
  <1>2. ASSUME NEW T \in SUBSET S, T # {}, \A x \in T : T \ {x} \in P
        PROVE  T \in P
    <2>1. PICK x \in T : TRUE
      BY <1>2
    <2>2. Summed(h, T \ {x}) = Summed(f, T \ {x})
      BY <1>2
    <2> QED
      BY <1>0, <2>2
  <1> HIDE DEF P
  <1>3. \A T \in SUBSET S : T \in P
    BY <1>1, <1>2, SubsetSteps
  <1> QED
    BY <1>3 DEF P

LEMMA SummedPart ==
    ASSUME NEW S, IsFiniteSet(S), NEW f, \A x \in S : f[x] \in Nat,
           NEW U \in SUBSET S
    PROVE  /\ Summed(f, U) \in Nat /\ Summed(f, S) \in Nat
           /\ Summed(f, U) <= Summed(f, S)
           /\ (\A x \in S \ U : f[x] = 0) => Summed(f, U) = Summed(f, S)
  <1> DEFINE zero == \A x \in S \ U : f[x] = 0
             P == {T \in SUBSET S : /\ Summed(f, T) \in Nat /\ Summed(f, T \cap U) \in Nat
                                    /\ Summed(f, T \cap U) <= Summed(f, T)
                                    /\ zero => Summed(f, T \cap U) = Summed(f, T)}
  <1>0. ASSUME NEW T \in SUBSET S
        PROVE  /\ Summed(f, {}) = 0 /\ Summed(f, T) \in Nat
               /\ \A x \in T : Summed(f, T) = f[x] + Summed(f, T \ {x})
    <2>1. IsFiniteSet(T) /\ \A x \in T : f[x] \in Nat
      BY FS_Subset
    <2> QED
      BY <2>1, SummedSteps
  <1>1. {} \in P
    BY <1>0
  <1>2. ASSUME NEW T \in SUBSET S, T # {}, \A x \in T : T \ {x} \in P
        PROVE  T \in P
    <2>1. PICK x \in T : TRUE
      BY <1>2
    <2> DEFINE R == T \ {x}
    <2>2. /\ Summed(f, R) \in Nat /\ Summed(f, R \cap U) \in Nat
          /\ Summed(f, R \cap U) <= Summed(f, R)
          /\ zero => Summed(f, R \cap U) = Summed(f, R)
      BY <1>2
    <2>3. Summed(f, T) = f[x] + Summed(f, R) /\ f[x] \in Nat /\ Summed(f, T) \in Nat
      BY <1>0
    <2>4. CASE x \in U
      <3>1. (T \cap U) \ {x} = R \cap U /\ x \in T \cap U /\ T \cap U \in SUBSET S
        BY <2>4
      <3>2. Summed(f, T \cap U) = f[x] + Summed(f, R \cap U) /\ Summed(f, T \cap U) \in Nat
        BY <1>0, <3>1
      <3> HIDE DEF zero, R
      <3> QED
        BY <2>2, <2>3, <3>2
    <2>5. CASE x \notin U
      <3>1. T \cap U = R \cap U
        BY <2>5
      <3>2. zero => f[x] = 0
        BY <2>5
      <3> HIDE DEF zero, R
      <3> QED
        BY <2>2, <2>3, <3>1, <3>2
    <2> QED
      BY <2>4, <2>5
  <1> HIDE DEF P
  <1>3. S \in P
    BY <1>1, <1>2, SubsetSteps
  <1>4. S \cap U = U
    OBVIOUS
  <1> QED
    BY <1>3, <1>4 DEF P

\* The weights of an entry change the sum by what they change.
LEMMA SummedChanges ==
    ASSUME NEW S, IsFiniteSet(S), NEW f, NEW h, NEW x \in S,
           \A y \in S : f[y] \in Int /\ h[y] \in Int /\ (y # x => h[y] = f[y])
    PROVE  Summed(h, S) = Summed(f, S) - f[x] + h[x]
  <1> DEFINE R == S \ {x}
  <1>1. Summed(f, S) = f[x] + Summed(f, R) /\ Summed(h, S) = h[x] + Summed(h, R)
    BY SummedMoves
  <1>2. IsFiniteSet(R) /\ \A y \in R : f[y] \in Int /\ h[y] = f[y]
    BY FS_Subset
  <1>3. Summed(h, R) = Summed(f, R) /\ Summed(f, R) \in Int
    <2> HIDE DEF R
    <2>1. Summed(h, R) = Summed(f, R)
      BY <1>2, SummedAlike
    <2> QED
      BY <1>2, <2>1, SummedMoves
  <1>4. f[x] \in Int /\ h[x] \in Int
    OBVIOUS
  <1> HIDE DEF R
  <1> QED
    BY <1>1, <1>3, <1>4

LEMMA SummedConstant ==
    ASSUME NEW S, IsFiniteSet(S), NEW c \in Int, NEW f, \A x \in S : f[x] = c
    PROVE  Summed(f, S) = c * Cardinality(S)
  <1> DEFINE P == {T \in SUBSET S : Summed(f, T) = c * Cardinality(T)}
  <1>1. {} \in P
    <2>1. Summed(f, {}) = 0
      BY SummedMoves
    <2>2. Cardinality({}) = 0 /\ c * 0 = 0
      BY FS_EmptySet
    <2> QED
      BY <2>1, <2>2
  <1>2. ASSUME NEW T \in SUBSET S, T # {}, \A x \in T : T \ {x} \in P
        PROVE  T \in P
    <2>1. PICK x \in T : TRUE
      BY <1>2
    <2> DEFINE n == Cardinality(T)
               R == T \ {x}
    <2>2. IsFiniteSet(T) /\ \A y \in T : f[y] \in Int
      BY FS_Subset
    <2>3. Summed(f, T) = f[x] + Summed(f, R) /\ f[x] = c
      BY <2>2, SummedMoves
    <2>4. n \in Nat /\ Cardinality(R) = n - 1
      BY <2>2, FS_CardinalityType, FS_RemoveElement
    <2>5. Summed(f, R) = c * (n - 1)
      BY <1>2, <2>4
    <2>6. c * (n - 1) = c * n - c
      BY <2>4
    <2> HIDE DEF n, R
    <2>7. Summed(f, T) = c * n
      <3> DEFINE v == c * n
      <3>1. v \in Int
        BY <2>4
      <3> HIDE DEF v
      <3>2. Summed(f, T) = c + (v - c)
        BY <2>3, <2>5, <2>6 DEF v
      <3> QED
        BY <3>1, <3>2 DEF v
    <2> QED
      BY <2>7 DEF n
  <1> HIDE DEF P
  <1>3. \A T \in SUBSET S : T \in P
    BY <1>1, <1>2, SubsetSteps
  <1> QED
    BY <1>3 DEF P

\* The two ways a sum is written say the same.
LEMMA SumIsSummed ==
    ASSUME NEW S, NEW f \in [S -> Nat]
    PROVE  SharesIn(f) = Summed(f, S) /\ TotalOf(f) = Summed(f, S)
  <1>1. DOMAIN f = S
    OBVIOUS
  <1> QED
    BY <1>1 DEF SharesIn, TotalOf, FoldFunction, FoldFunctionOnSet, MapThenFoldSet, Summed, FoldSet

--------------------------------------------------------------------------------
(* The life of the strategies. *)

Stages == {"unregistered", "hypothesis", "paper", "gate_review", "live", "retired"}

ActiveOnes == {s \in Strategies : Active(s)}

\* The stages and the count of failures are of their types, the active strategies are
\* within the limit, and the weeks on the ladder are there.
GatesInv ==
    /\ stage \in [Strategies -> Stages]
    /\ failures \in [Strategies -> 0..3]
    /\ Cardinality(ActiveOnes) <= MaxConcurrent
    /\ tier \in 1..4 /\ weeksAtTier \in Nat /\ weeks \in Nat
    /\ tier > 1 => weeks >= 4 * (tier - 2) + weeksAtTier
    /\ tier = 1 => weeksAtTier = 0

LEMMA TiersAre ==
    ASSUME tier \in 1..4
    PROVE  /\ Len(Tiers) = 4
           /\ tier = 1 => Tiers[tier].weeks = 0
           /\ tier \in {2, 3} => Tiers[tier].weeks = 4
  BY DEF Tiers

LEMMA GatesStart == GatesInit => GatesInv
  <1> SUFFICES ASSUME GatesInit PROVE GatesInv
    OBVIOUS
  <1>1. stage \in [Strategies -> Stages] /\ failures \in [Strategies -> 0..3]
    BY DEF GatesInit, Stages
  <1>2. ActiveOnes = {}
    BY DEF GatesInit, ActiveOnes, Active
  <1>3. Cardinality(ActiveOnes) <= MaxConcurrent
    BY <1>2, FS_EmptySet, GatesAssumption
  <1> QED
    BY <1>1, <1>3 DEF GatesInit, GatesInv

\* Only Register makes a strategy active, and it looks at the limit first.
LEMMA ActiveStay ==
    ASSUME GatesInv, ActiveOnes' \subseteq ActiveOnes
    PROVE  Cardinality(ActiveOnes') <= MaxConcurrent
  <1>1. IsFiniteSet(ActiveOnes)
    BY FS_Subset, GatesAssumption DEF ActiveOnes
  <1>2. ActiveOnes' \in SUBSET ActiveOnes
    OBVIOUS
  <1>3. Cardinality(ActiveOnes') <= Cardinality(ActiveOnes)
    BY <1>1, <1>2, FS_Subset
  <1>4. Cardinality(ActiveOnes') \in Nat /\ Cardinality(ActiveOnes) \in Nat
    BY <1>1, <1>2, FS_Subset, FS_CardinalityType
  <1> QED
    BY <1>3, <1>4, GatesAssumption DEF GatesInv

LEMMA RegisterEffect ==
    ASSUME GatesInv, NEW s \in Strategies, Register(s)
    PROVE  /\ stage' \in [Strategies -> Stages]
           /\ Cardinality(ActiveOnes') <= MaxConcurrent
           /\ \A t \in Strategies : stage[t] = "retired" => stage'[t] = "retired"
  <1>1. stage' \in [Strategies -> Stages]
    BY DEF GatesInv, Register, Stages
  <1>2. ActiveOnes' = ActiveOnes \union {s} /\ s \notin ActiveOnes
    BY DEF GatesInv, Register, ActiveOnes, Active
  <1>3. IsFiniteSet(ActiveOnes)
    BY FS_Subset, GatesAssumption DEF ActiveOnes
  <1>4. Cardinality(ActiveOnes') = Cardinality(ActiveOnes) + 1
    BY <1>2, <1>3, FS_AddElement
  <1>5. Cardinality(ActiveOnes) < MaxConcurrent
    BY DEF Register, ActiveOnes
  <1>6. Cardinality(ActiveOnes) \in Nat
    BY <1>3, FS_CardinalityType
  <1>7. Cardinality(ActiveOnes') <= MaxConcurrent
    BY <1>4, <1>5, <1>6, GatesAssumption
  <1>8. \A t \in Strategies : stage[t] = "retired" => stage'[t] = "retired"
    BY DEF GatesInv, Register
  <1> QED
    BY <1>1, <1>7, <1>8

LEMMA AdvanceEffect ==
    ASSUME GatesInv, NEW s \in Strategies, AdvanceStage(s)
    PROVE  /\ stage' \in [Strategies -> Stages]
           /\ Cardinality(ActiveOnes') <= MaxConcurrent
           /\ \A t \in Strategies : stage[t] = "retired" => stage'[t] = "retired"
  <1>1. PICK to \in Allowed(stage[s]) : stage' = [stage EXCEPT ![s] = to]
    BY DEF AdvanceStage
  <1>2. stage[s] \in Stages
    BY DEF GatesInv
  <1>3. stage[s] \notin {"unregistered", "retired"} /\ to \in Stages
    BY <1>1, <1>2 DEF Allowed, Stages
  <1>4. stage' \in [Strategies -> Stages]
    BY <1>1, <1>3 DEF GatesInv
  <1>5. ActiveOnes' \subseteq ActiveOnes
    BY <1>1, <1>3 DEF GatesInv, ActiveOnes, Active
  <1>6. \A t \in Strategies : stage[t] = "retired" => stage'[t] = "retired"
    BY <1>1, <1>3 DEF GatesInv
  <1> QED
    BY <1>4, <1>5, <1>6, ActiveStay

\* A review retires, or leaves the stage as it is.
LEMMA ReviewEffect ==
    ASSUME GatesInv, NEW s \in Strategies, NEW m \in G1Metrics, ReviewG1(s, m)
    PROVE  /\ stage' \in [Strategies -> Stages]
           /\ Cardinality(ActiveOnes') <= MaxConcurrent
           /\ \A t \in Strategies : stage[t] = "retired" => stage'[t] = "retired"
           /\ failures' \in [Strategies -> 0..3]
           /\ \A t \in Strategies :
                stage[t] # "retired" /\ failures'[t] > failures[t] =>
                  (advice'.what = "retire" <=> stage'[t] = "retired")
  <1> DEFINE more == Min({failures[s] + 1, 3})
  <1>1. failures[s] \in 0..3
    BY DEF GatesInv
  <1>2. more = (IF failures[s] + 1 <= 3 THEN failures[s] + 1 ELSE 3)
    BY <1>1, MinOfTwo
  <1>3. failures' = [failures EXCEPT ![s] = IF G1Passes(m) THEN 0 ELSE more]
    BY DEF ReviewG1
  <1> HIDE DEF more
  <1>4. more \in 0..3 /\ (more >= 2 <=> failures[s] + 1 >= 2)
    BY <1>1, <1>2
  <1>5. failures' \in [Strategies -> 0..3] /\ failures'[s] = IF G1Passes(m) THEN 0 ELSE more
    BY <1>3, <1>4 DEF GatesInv
  <1>6. stage' = [stage EXCEPT ![s] = IF ~G1Passes(m) /\ failures'[s] >= 2 THEN "retired" ELSE stage[s]]
    BY DEF ReviewG1
  <1>7. stage' \in [Strategies -> Stages]
    BY <1>6 DEF GatesInv, Stages
  <1>8. ActiveOnes' \subseteq ActiveOnes
    BY <1>6 DEF GatesInv, ActiveOnes, Active, ReviewG1
  <1>9. \A t \in Strategies : stage[t] = "retired" => stage'[t] = "retired"
    BY <1>6 DEF GatesInv
  <1>10. ASSUME NEW t \in Strategies, stage[t] # "retired", failures'[t] > failures[t]
         PROVE  advice'.what = "retire" <=> stage'[t] = "retired"
    <2>1. t = s
      BY <1>3, <1>10 DEF GatesInv
    <2>2. ~G1Passes(m)
      BY <1>1, <1>5, <1>10, <2>1
    <2>3. advice'.what = IF failures[s] + 1 >= 2 THEN "retire" ELSE "stay"
      BY <2>2 DEF ReviewG1, G1Recommends
    <2>4. stage'[s] = "retired" <=> more >= 2
      BY <1>5, <1>6, <1>10, <2>1, <2>2 DEF GatesInv
    <2> QED
      BY <1>4, <2>1, <2>3, <2>4
  <1> QED
    BY <1>5, <1>7, <1>8, <1>9, <1>10, ActiveStay

LEMMA RetireEffect ==
    ASSUME GatesInv, MonthlyReview \/ \E s \in Strategies : Retire(s)
    PROVE  /\ stage' \in [Strategies -> Stages]
           /\ Cardinality(ActiveOnes') <= MaxConcurrent
           /\ \A t \in Strategies : stage[t] = "retired" => stage'[t] = "retired"
  <1>1. CASE MonthlyReview
    <2>1. stage' \in [Strategies -> Stages]
      BY <1>1 DEF MonthlyReview, GatesInv, Stages
    <2>2. ActiveOnes' \subseteq ActiveOnes
      BY <1>1 DEF MonthlyReview, GatesInv, ActiveOnes, Active
    <2>3. \A t \in Strategies : stage[t] = "retired" => stage'[t] = "retired"
      BY <1>1 DEF MonthlyReview
    <2> QED
      BY <2>1, <2>2, <2>3, ActiveStay
  <1>2. CASE \E s \in Strategies : Retire(s)
    <2>1. PICK s \in Strategies : Retire(s)
      BY <1>2
    <2>2. stage' = [stage EXCEPT ![s] = "retired"]
      BY <2>1 DEF Retire
    <2>3. stage' \in [Strategies -> Stages]
      BY <2>2 DEF GatesInv, Stages
    <2>4. ActiveOnes' \subseteq ActiveOnes
      BY <2>2 DEF GatesInv, ActiveOnes, Active
    <2>5. \A t \in Strategies : stage[t] = "retired" => stage'[t] = "retired"
      BY <2>2 DEF GatesInv
    <2> QED
      BY <2>3, <2>4, <2>5, ActiveStay
  <1> QED
    BY <1>1, <1>2

\* The ladder: a promotion takes the four weeks of its tier, a demotion gives back no
\* more than the weeks it forgets.
LEMMA LadderEffect ==
    ASSUME GatesInv, Demote \/ WeekPasses \/ \E passed \in BOOLEAN : Promote(passed)
    PROVE  /\ tier' \in 1..4 /\ weeksAtTier' \in Nat /\ weeks' \in Nat
           /\ tier' > 1 => weeks' >= 4 * (tier' - 2) + weeksAtTier'
           /\ tier' = 1 => weeksAtTier' = 0
           /\ stage' = stage /\ failures' = failures
  <1>1. CASE Demote
    BY <1>1 DEF Demote, GatesInv
  <1>2. CASE WeekPasses
    BY <1>2 DEF WeekPasses, GatesInv
  <1>3. CASE \E passed \in BOOLEAN : Promote(passed)
    <2>1. PICK passed \in BOOLEAN : Promote(passed)
      BY <1>3
    <2>2. tier \in 1..4 /\ tier < 4 /\ tier' = tier + 1 /\ weeksAtTier' = 0
      BY <2>1, TiersAre DEF Promote, CanPromote, GatesInv
    <2>3. weeks' = weeks /\ stage' = stage /\ failures' = failures
      BY <2>1 DEF Promote
    <2>4. tier \in {2, 3} => weeksAtTier >= 4
      BY <2>1, <2>2, TiersAre DEF Promote, CanPromote
    <2> QED
      BY <2>2, <2>3, <2>4 DEF GatesInv
  <1> QED
    BY <1>1, <1>2, <1>3

\* What a step of the gates does to the strategies, and that the invariant is kept.
LEMMA GatesStep ==
    ASSUME GatesInv, GatesNext \/ UNCHANGED gatesVars
    PROVE  /\ GatesInv'
           /\ \A s \in Strategies : stage[s] = "retired" => stage'[s] = "retired"
           /\ \A s \in Strategies :
                stage[s] # "retired" /\ failures'[s] > failures[s] =>
                  (advice'.what = "retire" <=> stage'[s] = "retired")
  <1>0. \A s \in Strategies : failures[s] \in 0..3
    BY DEF GatesInv
  <1>1. CASE \E s \in Strategies : Register(s) \/ AdvanceStage(s)
    <2>1. UNCHANGED <<failures, tier, weeksAtTier, weeks>>
      BY <1>1 DEF Register, AdvanceStage
    <2>2. /\ stage' \in [Strategies -> Stages]
          /\ Cardinality(ActiveOnes') <= MaxConcurrent
          /\ \A t \in Strategies : stage[t] = "retired" => stage'[t] = "retired"
      BY <1>1, RegisterEffect, AdvanceEffect
    <2> QED
      BY <1>0, <2>1, <2>2 DEF GatesInv
  <1>2. CASE \E s \in Strategies, m \in G1Metrics : ReviewG1(s, m)
    <2>1. UNCHANGED <<tier, weeksAtTier, weeks>>
      BY <1>2 DEF ReviewG1
    <2> QED
      BY <1>2, <2>1, ReviewEffect DEF GatesInv
  <1>3. CASE MonthlyReview \/ \E s \in Strategies : Retire(s)
    <2>1. UNCHANGED <<failures, tier, weeksAtTier, weeks>>
      BY <1>3 DEF MonthlyReview, Retire
    <2> QED
      BY <1>0, <1>3, <2>1, RetireEffect DEF GatesInv
  <1>4. CASE Demote \/ WeekPasses \/ \E passed \in BOOLEAN : Promote(passed)
    <2>1. ActiveOnes' = ActiveOnes
      BY <1>4, LadderEffect DEF ActiveOnes, Active
    <2> QED
      BY <1>0, <1>4, <2>1, LadderEffect DEF GatesInv
  <1>5. CASE UNCHANGED gatesVars
    BY <1>0, <1>5 DEF gatesVars, GatesInv, ActiveOnes, Active
  <1> QED
    BY <1>1, <1>2, <1>3, <1>4, <1>5 DEF GatesNext

LEMMA GatesKeep == GatesInv => CapitalTakesWeeks
  BY DEF GatesInv, CapitalTakesWeeks

--------------------------------------------------------------------------------
(* The health check. *)

\* The rows of a day come with its job's hour, on weekdays only, and never again later.
HealthInv ==
    /\ healthHour \in Nat
    /\ filledOn \subseteq Int /\ rowDate \in filledOn
    /\ \A d \in filledOn : d <= rowDate /\ ~WeekendDay(d)
    /\ rowTime = 24 * rowDate + JobHour
    /\ 24 * rowDate + JobHour < healthHour

LEMMA HealthStart == HealthInit => HealthInv
  BY HealthAssumption DEF HealthInit, HealthInv, WeekendDay

LEMMA HoursAndDays ==
    ASSUME NEW t \in Nat
    PROVE  /\ t \div 24 \in Nat /\ t % 24 \in 0..23
           /\ t % 24 = t - 24 * (t \div 24)
  <1>1. t \div 24 \in Int /\ t % 24 \in 0..23
    OBVIOUS
  <1>2. t % 24 = t - 24 * (t \div 24)
    OBVIOUS
  <1>3. t \div 24 >= 0
    BY <1>1, <1>2
  <1> QED
    BY <1>1, <1>2, <1>3

LEMMA HealthStep ==
    ASSUME HealthInv, HealthHourPasses \/ UNCHANGED healthVars
    PROVE  HealthInv'
  <1>1. CASE UNCHANGED healthVars
    BY <1>1 DEF healthVars, HealthInv
  <1>2. CASE HealthHourPasses
    <2>1. healthHour' = healthHour + 1 /\ healthHour \in Nat /\ rowDate \in Int /\ JobHour \in 0..23
      BY <1>2, HealthAssumption DEF HealthHourPasses, HealthInv
    <2>2. CASE UNCHANGED <<rowDate, rowTime, filledOn>>
      BY <2>1, <2>2 DEF HealthInv
    <2>3. CASE /\ healthHour % 24 = JobHour /\ ~WeekendDay(HealthDay)
               /\ rowDate' = HealthDay /\ rowTime' = healthHour
               /\ filledOn' = filledOn \union {HealthDay}
      <3>1. HealthDay \in Nat /\ healthHour = 24 * HealthDay + JobHour
        BY <2>1, <2>3, HoursAndDays DEF HealthDay
      <3>2. 24 * rowDate + JobHour < 24 * HealthDay + JobHour
        BY <3>1 DEF HealthInv
      <3>3. rowDate < HealthDay
        BY <2>1, <3>1, <3>2
      <3>4. \A d \in filledOn' : d <= HealthDay /\ ~WeekendDay(d)
        BY <2>1, <2>3, <3>1, <3>3 DEF HealthInv
      <3> QED
        BY <2>1, <2>3, <3>1, <3>4 DEF HealthInv
    <2> QED
      BY <1>2, <2>2, <2>3 DEF HealthHourPasses
  <1> QED
    BY <1>1, <1>2

LEMMA PreviousDay ==
    ASSUME NEW d \in Nat, ~WeekendDay(d)
    PROVE  PreviousTradingDay(d) = IF d % 7 = 0 THEN d - 3 ELSE d - 1
  <1> DEFINE open == {e \in (d - 3)..(d - 1) : ~WeekendDay(e)}
  <1>0. open \subseteq Int
    OBVIOUS
  <1>1. CASE d % 7 = 0
    <2>1. (d - 1) % 7 = 6 /\ (d - 2) % 7 = 5 /\ (d - 3) % 7 = 4
      BY <1>1
    <2>2. d - 3 \in open /\ \A x \in open : d - 3 >= x
      BY <2>1 DEF WeekendDay
    <2>3. Max(open) = d - 3
      BY <1>0, <2>2, MaxIs
    <2> QED
      BY <1>1, <2>3 DEF PreviousTradingDay
  <1>2. CASE d % 7 # 0
    <2>1. (d - 1) % 7 < 5
      BY <1>2 DEF WeekendDay
    <2>2. d - 1 \in open /\ \A x \in open : d - 1 >= x
      BY <2>1 DEF WeekendDay
    <2>3. Max(open) = d - 1
      BY <1>0, <2>2, MaxIs
    <2> QED
      BY <1>2, <2>3 DEF PreviousTradingDay
  <1> QED
    BY <1>1, <1>2

LEMMA HealthKeeps == HealthInv => AlarmIsAboutAJob
  <1> SUFFICES ASSUME HealthInv, ~WeekendDay(HealthDay)
               PROVE  LET before == IF HealthDay % 7 = 0 THEN HealthDay - 3 ELSE HealthDay - 1
                          filled == filledOn \intersect {before, HealthDay} # {}
                      IN  /\ "dates" \in StaleTables <=> ~filled
                          /\ "times" \in StaleTables /\ filled =>
                               /\ HealthDay \notin filledOn
                               /\ HealthDay % 7 = 0 \/ healthHour % 24 > JobHour
    BY DEF AlarmIsAboutAJob
  <1> DEFINE d == HealthDay
             h == healthHour % 24
             before == IF d % 7 = 0 THEN d - 3 ELSE d - 1
             filled == filledOn \intersect {before, d} # {}
  <1>1. /\ d \in Nat /\ h \in 0..23 /\ healthHour = 24 * d + h /\ healthHour \in Nat
        /\ rowDate \in Int /\ JobHour \in 0..23
    BY HoursAndDays, HealthAssumption DEF HealthDay, HealthInv
  <1>2. PreviousTradingDay(d) = before
    BY <1>1, PreviousDay
  <1>3. rowDate <= d
    <2>1. 24 * rowDate + JobHour < 24 * d + h
      BY <1>1 DEF HealthInv
    <2> QED
      BY <1>1, <2>1
  <1>4. \A e \in before..d : ~WeekendDay(e) => e \in {before, d}
    <2>1. CASE d % 7 = 0
      <3>1. (d - 1) % 7 = 6 /\ (d - 2) % 7 = 5
        BY <1>1, <2>1
      <3>2. \A e \in (d - 3)..d : e = d - 3 \/ e = d - 2 \/ e = d - 1 \/ e = d
        BY <1>1
      <3> QED
        BY <1>1, <2>1, <3>1, <3>2 DEF WeekendDay
    <2>2. CASE d % 7 # 0
      BY <1>1, <2>2
    <2> QED
      BY <2>1, <2>2
  <1>5. filled <=> rowDate >= before
    <2>1. ASSUME rowDate >= before PROVE filled
      <3>1. rowDate \in before..d /\ ~WeekendDay(rowDate) /\ rowDate \in filledOn
        BY <1>1, <1>3, <2>1 DEF HealthInv
      <3> QED
        BY <1>4, <3>1
    <2>2. ASSUME filled PROVE rowDate >= before
      <3>1. PICK e \in filledOn : e \in {before, d}
        BY <2>2
      <3>2. e <= rowDate /\ e \in Int /\ e >= before
        BY <1>1, <3>1 DEF HealthInv
      <3> QED
        BY <1>1, <3>2
    <2> QED
      BY <2>1, <2>2
  <1>6. "dates" \in StaleTables <=> ~filled
    BY <1>1, <1>2, <1>5 DEF StaleTables, DateIsStale
  <1>7. ASSUME "times" \in StaleTables, filled
        PROVE  d \notin filledOn /\ (d % 7 = 0 \/ h > JobHour)
    <2>1. healthHour - rowTime > 26
      BY <1>7 DEF StaleTables, TimeIsStale
    <2>2. 24 * d + h - (24 * rowDate + JobHour) > 26
      BY <1>1, <2>1 DEF HealthInv
    <2>3. rowDate # d
      BY <1>1, <2>2
    <2>4. d \notin filledOn
      BY <1>1, <1>3, <2>3 DEF HealthInv
    <2>5. ASSUME d % 7 # 0 PROVE h > JobHour
      <3>1. rowDate = d - 1
        BY <1>1, <1>3, <1>5, <1>7, <2>3, <2>5
      <3> QED
        BY <1>1, <2>2, <3>1
    <2> QED
      BY <2>4, <2>5
  <1> QED
    BY <1>6, <1>7

--------------------------------------------------------------------------------
(* The market tables. *)

\* A stored bar is of one of the two forms, and was traded or says that it was not.
BarsInv ==
    \A key \in DOMAIN bars :
        key \in {"bare", "NS"} \X Nat /\ (bars[key].traded \/ bars[key].isFilled)

\* The running bar is made of the quotes of the day.
TicksInv ==
    /\ polled \subseteq Quotes
    /\ tick = <<>> => polled = {}
    /\ tick # <<>> =>
         /\ \E q \in polled : tick[1].high = q.high
         /\ \E q \in polled : tick[1].low = q.low
         /\ \E q \in polled : tick[1].last = q.last
         /\ \A q \in polled : q.high <= tick[1].high /\ tick[1].low <= q.low

MarketInv == marketDay \in Nat /\ BarsInv /\ TicksInv

LEMMA MarketStart == MarketInit => MarketInv
  <1> SUFFICES ASSUME MarketInit PROVE MarketInv
    OBVIOUS
  <1>1. BarsInv
    <2>1. DOMAIN bars = {<<"NS", 0>>} /\ bars[<<"NS", 0>>] = Bar(SplitRatio, TRUE, FALSE)
      BY DEF MarketInit
    <2>2. Bar(SplitRatio, TRUE, FALSE).traded
      BY DEF Bar
    <2>3. <<"NS", 0>> \in {"bare", "NS"} \X Nat
      OBVIOUS
    <2>4. ASSUME NEW key \in DOMAIN bars
          PROVE  key \in {"bare", "NS"} \X Nat /\ (bars[key].traded \/ bars[key].isFilled)
      <3>1. key = <<"NS", 0>>
        BY <2>1
      <3>2. bars[key].traded
        BY <2>1, <2>2, <3>1
      <3> QED
        BY <2>3, <3>1, <3>2
    <2> QED
      BY <2>4 DEF BarsInv
  <1> QED
    BY <1>1 DEF MarketInit, MarketInv, TicksInv

\* No column of a flag is lost: what is written over a filled row without the column
\* keeps the flag, and is traded.
LEMMA StoreKeeps ==
    ASSUME BarsInv, NEW flagged \in BOOLEAN, NEW new, DOMAIN new \subseteq Nat,
           \A d \in DOMAIN new : \E p :
               new[d] = Bar(p, TRUE, FALSE) \/ (flagged /\ new[d] = Bar(p, FALSE, TRUE)),
           bars' = StoreOhlcv("bare", new, flagged)
    PROVE  BarsInv'
  <1> SUFFICES ASSUME NEW key \in DOMAIN bars'
               PROVE  /\ key \in {"bare", "NS"} \X Nat
                      /\ bars'[key].traded \/ bars'[key].isFilled
    BY DEF BarsInv
  <1>1. key \in DOMAIN bars \union {<<"bare", d>> : d \in DOMAIN new}
    BY DEF StoreOhlcv
  <1>2. bars'[key] = IF key[1] # "bare" \/ key[2] \notin DOMAIN new THEN bars[key]
                     ELSE IF flagged \/ key \notin DOMAIN bars THEN new[key[2]]
                     ELSE [new[key[2]] EXCEPT !.isFilled = bars[key].isFilled]
    BY <1>1 DEF StoreOhlcv
  <1>3. key \in {"bare", "NS"} \X Nat
    BY <1>1 DEF BarsInv
  <1>4. CASE key[1] # "bare" \/ key[2] \notin DOMAIN new
    <2>1. key \in DOMAIN bars
      BY <1>1, <1>4
    <2> QED
      BY <1>2, <1>3, <1>4, <2>1 DEF BarsInv
  <1>5. CASE key[1] = "bare" /\ key[2] \in DOMAIN new
    <2>1. PICK p : \/ new[key[2]] = Bar(p, TRUE, FALSE)
                   \/ flagged /\ new[key[2]] = Bar(p, FALSE, TRUE)
      BY <1>5
    <2>2. CASE flagged \/ key \notin DOMAIN bars
      <3>1. bars'[key] = new[key[2]]
        BY <1>2, <1>5, <2>2
      <3>2. new[key[2]].traded \/ new[key[2]].isFilled
        BY <2>1 DEF Bar
      <3> QED
        BY <1>3, <3>1, <3>2
    <2>3. CASE ~flagged /\ key \in DOMAIN bars
      <3>1. bars'[key] = [Bar(p, TRUE, FALSE) EXCEPT !.isFilled = bars[key].isFilled]
        BY <1>2, <1>5, <2>1, <2>3
      <3>2. [Bar(p, TRUE, FALSE) EXCEPT !.isFilled = bars[key].isFilled].traded = TRUE
        BY DEF Bar
      <3> QED
        BY <1>3, <3>1, <3>2
    <2> QED
      BY <2>2, <2>3
  <1> QED
    BY <1>4, <1>5

LEMMA BarsStep ==
    ASSUME marketDay \in Nat, BarsInv, IngestSymbol \/ IngestBhavcopy
    PROVE  BarsInv'
  <1>1. CASE IngestSymbol
    <2>1. PICK rows \in (SUBSET (Max({0, marketDay - Lookback})..marketDay)) \ {{}} :
             bars' = StoreOhlcv("bare", HandleMissingData(rows, Min(rows), Max(rows)), TRUE)
      BY <1>1 DEF IngestSymbol
    <2> DEFINE new == HandleMissingData(rows, Min(rows), Max(rows))
    <2>2. Max({0, marketDay - Lookback}) \in Nat
      BY MaxOfTwo, MarketAssumption
    <2>3. rows \subseteq Nat /\ \A x \in rows : x <= marketDay
      BY <2>1, <2>2
    <2>4. Min(rows) \in Nat
      <3>1. \E y \in rows : \A z \in rows : y <= z
        BY <2>1, <2>3, LeastNatural
      <3> QED
        BY <2>3, <3>1 DEF Min
    <2>5. DOMAIN new \subseteq Nat
      BY <2>4 DEF HandleMissingData
    <2>6. \A d \in DOMAIN new : new[d] = Bar(AdjustedPrice, TRUE, FALSE) \/ new[d] = Bar(AdjustedPrice, FALSE, TRUE)
      BY DEF HandleMissingData
    <2> HIDE DEF new
    <2>7. bars' = StoreOhlcv("bare", new, TRUE)
      BY <2>1 DEF new
    <2> QED
      BY <2>5, <2>6, <2>7, StoreKeeps
  <1>2. CASE IngestBhavcopy
    <2> DEFINE new == [d \in {marketDay} |-> Bar(RawPrice(d), TRUE, FALSE)]
    <2>1. bars' = StoreOhlcv("bare", new, FALSE)
      BY <1>2 DEF IngestBhavcopy
    <2>2. DOMAIN new \subseteq Nat /\ \A d \in DOMAIN new : new[d] = Bar(RawPrice(d), TRUE, FALSE)
      OBVIOUS
    <2> HIDE DEF new
    <2> QED
      BY <2>1, <2>2, StoreKeeps
  <1> QED
    BY <1>1, <1>2

LEMMA PollStep ==
    ASSUME TicksInv, NEW q \in Quotes, PollSymbol(q)
    PROVE  TicksInv'
  <1>1. polled' = polled \union {q} /\ polled' \subseteq Quotes
    BY DEF PollSymbol, TicksInv
  <1>2. \A x \in Quotes : x.high \in Nat /\ x.low \in Nat /\ x.last \in Nat
    BY MarketAssumption
  <1>3. CASE tick = <<>>
    <2>1. /\ tick' # <<>> /\ polled' = {q}
          /\ tick'[1].high = q.high /\ tick'[1].low = q.low /\ tick'[1].last = q.last
      BY <1>3 DEF PollSymbol, TicksInv
    <2> QED
      BY <1>1, <1>2, <2>1 DEF TicksInv
  <1>4. CASE tick # <<>>
    <2>1. /\ tick' # <<>>
          /\ tick'[1].high = Max({tick[1].high, q.high})
          /\ tick'[1].low = Min({tick[1].low, q.low})
          /\ tick'[1].last = q.last
      BY <1>4 DEF PollSymbol, Merge
    <2>2. PICK a \in polled : tick[1].high = a.high
      BY <1>4 DEF TicksInv
    <2>3. PICK b \in polled : tick[1].low = b.low
      BY <1>4 DEF TicksInv
    <2>4. /\ a.high \in Nat /\ b.low \in Nat /\ q.high \in Nat /\ q.low \in Nat
          /\ \A x \in polled : x.high \in Nat /\ x.low \in Nat
      BY <1>2 DEF TicksInv
    <2>5. tick'[1].high = (IF a.high >= q.high THEN a.high ELSE q.high)
      BY <2>1, <2>2, <2>4, MaxOfTwo
    <2>6. tick'[1].low = (IF b.low <= q.low THEN b.low ELSE q.low)
      BY <2>1, <2>3, <2>4, MinOfTwo
    <2>7. \A x \in polled : x.high <= a.high /\ b.low <= x.low
      BY <1>4, <2>2, <2>3 DEF TicksInv
    <2>8. \A x \in polled' : x.high <= tick'[1].high /\ tick'[1].low <= x.low
      BY <1>1, <2>4, <2>5, <2>6, <2>7
    <2>9. /\ \E x \in polled' : tick'[1].high = x.high
          /\ \E x \in polled' : tick'[1].low = x.low
          /\ \E x \in polled' : tick'[1].last = x.last
      BY <1>1, <2>1, <2>5, <2>6
    <2> QED
      BY <1>1, <2>1, <2>8, <2>9 DEF TicksInv
  <1> QED
    BY <1>3, <1>4

\* The steps of the market tables: the invariant is kept and the composition of a past
\* day stays, because a download is dated by the day it is made on.
LEMMA MarketStep ==
    ASSUME MarketInv, UniverseNext \/ BarsNext \/ TicksNext \/ UNCHANGED marketVars
    PROVE  /\ MarketInv'
           /\ \A d \in 0..(marketDay - 1) : GetSymbolsForTier(d)' = GetSymbolsForTier(d)
  <1> USE DEF MarketInv
  <1>0. ASSUME NEW d, DOMAIN constituents' = DOMAIN constituents
        PROVE  GetSymbolsForTier(d)' = GetSymbolsForTier(d)
    BY <1>0 DEF GetSymbolsForTier, GetConstituents
  <1>1. CASE NextDay
    <2>1. BarsInv' /\ TicksInv' /\ marketDay' \in Nat /\ constituents' = constituents
      BY <1>1 DEF NextDay, universeVars, barVars, BarsInv, TicksInv
    <2> QED
      BY <1>0, <2>1
  <1>2. CASE Rebalance \/ Split \/ UNCHANGED marketVars
    <2>1. BarsInv' /\ TicksInv' /\ marketDay' \in Nat /\ constituents' = constituents
      BY <1>2 DEF Rebalance, Split, marketVars, universeVars, barVars, tickVars, BarsInv, TicksInv
    <2> QED
      BY <1>0, <2>1
  <1>3. CASE RefreshUniverse
    <2>1. BarsInv' /\ TicksInv' /\ marketDay' \in Nat
      BY <1>3 DEF RefreshUniverse, barVars, tickVars, BarsInv, TicksInv
    <2>2. DOMAIN constituents' = DOMAIN constituents \union (index \X {marketDay})
      BY <1>3 DEF RefreshUniverse, SaveConstituents, FetchIndexConstituents, EffectiveDate
    <2>3. ASSUME NEW d \in 0..(marketDay - 1)
          PROVE  GetSymbolsForTier(d)' = GetSymbolsForTier(d)
      <3>1. \A r \in index \X {marketDay} : ~(r[2] <= d)
        BY <2>3
      <3>2. {r \in DOMAIN constituents' : r[2] <= d} = {r \in DOMAIN constituents : r[2] <= d}
        BY <2>2, <3>1
      <3> QED
        BY <3>2 DEF GetSymbolsForTier, GetConstituents
    <2> QED
      BY <2>1, <2>3
  <1>4. CASE IngestSymbol \/ IngestBhavcopy
    <2>1. UNCHANGED <<marketDay, tick, polled, constituents>>
      BY <1>4 DEF IngestSymbol, IngestBhavcopy, universeVars, tickVars
    <2> QED
      BY <1>0, <1>4, <2>1, BarsStep DEF TicksInv
  <1>5. CASE PollOnce
    <2>1. UNCHANGED <<marketDay, bars, constituents>>
      BY <1>5 DEF PollOnce, universeVars, barVars
    <2>2. TicksInv'
      BY <1>5, PollStep DEF PollOnce
    <2> QED
      BY <1>0, <2>1, <2>2 DEF BarsInv
  <1> QED
    BY <1>1, <1>2, <1>3, <1>4, <1>5 DEF UniverseNext, BarsNext, TicksNext

LEMMA MarketKeeps == MarketInv => FilledAreFlagged /\ RunningExtremes
  <1> SUFFICES ASSUME MarketInv PROVE FilledAreFlagged /\ RunningExtremes
    OBVIOUS
  <1>1. FilledAreFlagged
    <2> DEFINE loaded == LoadOhlcv(MarketDays)
    <2> SUFFICES ASSUME NEW d \in DOMAIN loaded
                 PROVE  loaded[d].traded \/ loaded[d].isFilled
      BY DEF FilledAreFlagged
    <2>1. d \in {key[2] : key \in DOMAIN bars}
      BY DEF LoadOhlcv
    <2>2. loaded[d] = IF <<"bare", d>> \in DOMAIN bars THEN bars[<<"bare", d>>] ELSE bars[<<"NS", d>>]
      BY DEF LoadOhlcv
    <2>3. PICK key \in DOMAIN bars : d = key[2]
      BY <2>1
    <2>4. key = <<"bare", d>> \/ key = <<"NS", d>>
      BY <2>3 DEF MarketInv, BarsInv
    <2> HIDE DEF loaded
    <2> QED
      BY <2>2, <2>3, <2>4 DEF MarketInv, BarsInv
  <1>2. RunningExtremes
    <2> SUFFICES ASSUME tick # <<>>
                 PROVE  /\ tick[1].high = Max({q.high : q \in polled})
                        /\ tick[1].low = Min({q.low : q \in polled})
                        /\ tick[1].last \in {q.last : q \in polled}
      BY DEF RunningExtremes
    <2> DEFINE highs == {q.high : q \in polled}
               lows == {q.low : q \in polled}
    <2>1. \A q \in polled : q.high \in Nat /\ q.low \in Nat
      BY MarketAssumption DEF MarketInv, TicksInv
    <2>2. highs \subseteq Int /\ lows \subseteq Int
      BY <2>1
    <2>3. tick[1].high \in highs /\ \A x \in highs : tick[1].high >= x
      BY <2>1 DEF MarketInv, TicksInv
    <2>4. tick[1].low \in lows /\ \A x \in lows : tick[1].low <= x
      BY <2>1 DEF MarketInv, TicksInv
    <2>5. tick[1].last \in {q.last : q \in polled}
      BY DEF MarketInv, TicksInv
    <2> HIDE DEF highs, lows
    <2>6. tick[1].high = Max(highs) /\ tick[1].low = Min(lows)
      BY <2>2, <2>3, <2>4, MaxIs, MinIs
    <2> QED
      BY <2>5, <2>6 DEF highs, lows
  <1> QED
    BY <1>1, <1>2

--------------------------------------------------------------------------------
(* The signals of disclosures. *)

LEMMA FiniteImage ==
    ASSUME NEW f, IsFiniteSet(DOMAIN f)
    PROVE  IsFiniteSet({f[x] : x \in DOMAIN f})
  <1> DEFINE T == {f[x] : x \in DOMAIN f}
             g == [x \in DOMAIN f |-> f[x]]
  <1>1. g \in Surjection(DOMAIN f, T)
    BY DEF Surjection
  <1> HIDE DEF T, g
  <1>2. IsFiniteSet(T)
    BY <1>1, FS_Surjection
  <1> QED
    BY <1>2 DEF T

LEMMA TwoElements ==
    ASSUME NEW S, IsFiniteSet(S)
    PROVE  Cardinality(S) >= 2 <=> \E a, b \in S : a # b
  <1>1. Cardinality(S) \in Nat
    BY FS_CardinalityType
  <1>2. ASSUME NEW a \in S, NEW b \in S, a # b PROVE Cardinality(S) >= 2
    <2>1. IsFiniteSet({a}) /\ Cardinality({a}) = 1
      BY FS_Singleton
    <2>2. Cardinality({a} \union {b}) = 2 /\ IsFiniteSet({a} \union {b})
      BY <1>2, <2>1, FS_AddElement
    <2>3. {a} \union {b} \in SUBSET S
      OBVIOUS
    <2>4. Cardinality({a} \union {b}) <= Cardinality(S)
      BY <2>3, FS_Subset
    <2> QED
      BY <1>1, <2>2, <2>4
  <1>3. ASSUME Cardinality(S) >= 2 PROVE \E a, b \in S : a # b
    <2>1. S # {}
      BY <1>3, FS_EmptySet
    <2>2. PICK a \in S : TRUE
      BY <2>1
    <2>3. Cardinality({a}) = 1
      BY FS_Singleton
    <2>4. S # {a}
      BY <1>1, <1>3, <2>3
    <2> QED
      BY <2>2, <2>4
  <1> QED
    BY <1>2, <1>3

\* An event is stored on the day of its filing or later.
EventsInv ==
    /\ IsFiniteSet(sigEvents)
    /\ \A e \in sigEvents : e.filing \in Filings /\ e.at \in Nat /\ e.filing.filed <= e.at

\* A row of an insider is what the derivation makes of its filing.
RowsInv ==
    /\ IsFiniteSet(insiderRows)
    /\ \A r \in insiderRows : /\ r.from \in Filings
                              /\ r.date = ParseTradeDate(r.from)
                              /\ r.person = ParsePerson(r.from, 0)

SignalsInv ==
    /\ sigDay \in Nat /\ sigRuns \in Nat
    /\ EventsInv /\ RowsInv
    /\ \A t \in sigTrades : t.run \in Nat /\ t.run < sigRuns
    /\ NoLookAhead /\ VetoWithinARun /\ ClusterOfTwoFilings

LEMMA SignalsStart == SignalsInit => SignalsInv
  BY FS_EmptySet DEF SignalsInit, SignalsInv, EventsInv, RowsInv, NoLookAhead, VetoWithinARun,
     ClusterOfTwoFilings

LEMMA DeriveEffect ==
    ASSUME EventsInv, RowsInv, DeriveInsiderTrades
    PROVE  RowsInv'
  <1> DEFINE told == {x \in sigEvents : x.filing.type \in {"insider_buy", "insider_sell"}}
             new == {InsiderRow(e) : e \in told}
             row == [e \in told |-> InsiderRow(e)]
  <1>1. insiderRows' = UpsertAll(insiderRows, new)
    BY DEF DeriveInsiderTrades
  <1>2. IsFiniteSet(told)
    BY FS_Subset DEF EventsInv
  <1>3. IsFiniteSet({row[e] : e \in DOMAIN row})
    <2>1. DOMAIN row = told
      OBVIOUS
    <2> HIDE DEF row
    <2> QED
      BY <1>2, <2>1, FiniteImage
  <1>4. new = {row[e] : e \in DOMAIN row}
    OBVIOUS
  <1>5. insiderRows' \subseteq insiderRows \union new
    BY <1>1 DEF UpsertAll
  <1>6. ASSUME NEW r \in new
        PROVE  r.from \in Filings /\ r.date = ParseTradeDate(r.from) /\ r.person = ParsePerson(r.from, 0)
    <2>1. PICK e \in told : r = InsiderRow(e)
      BY <1>6
    <2>2. e \in sigEvents /\ e.filing \in Filings
      BY DEF EventsInv
    <2>3. /\ r.from = e.filing /\ r.date = ParseTradeDate(e.filing)
          /\ r.person = ParsePerson(e.filing, e.copy)
      BY <2>1 DEF InsiderRow
    <2>4. ParsePerson(e.filing, e.copy) = ParsePerson(e.filing, 0)
      BY DEF ParsePerson
    <2> QED
      BY <2>2, <2>3, <2>4
  <1> HIDE DEF new, row, told
  <1>7. IsFiniteSet(insiderRows \union new)
    BY <1>3, <1>4, FS_Union DEF RowsInv
  <1>8. IsFiniteSet(insiderRows')
    BY <1>5, <1>7, FS_Subset
  <1> QED
    BY <1>5, <1>6, <1>8 DEF RowsInv

LEMMA StoreEffect ==
    ASSUME EventsInv, sigDay \in Nat, NEW f \in Filings, StoreEvents(f)
    PROVE  EventsInv'
  <1> DEFINE e == [filing |-> f, copy |-> Cardinality({x \in sigEvents : x.filing = f}) + 1, at |-> sigDay]
  <1>1. sigEvents' = sigEvents \union {e} /\ f.filed <= sigDay
    BY DEF StoreEvents
  <1>2. e.filing = f /\ e.at = sigDay
    OBVIOUS
  <1> HIDE DEF e
  <1>3. IsFiniteSet(sigEvents')
    BY <1>1, FS_AddElement DEF EventsInv
  <1> QED
    BY <1>1, <1>2, <1>3 DEF EventsInv

--------------------------------------------------------------------------------

LEMMA SignalsAre ==
    /\ SignalsOf("blowup_short") = BlowupShort /\ SignalsOf("event_drift") = EventDrift
    /\ SignalsOf("insider_cluster") = InsiderCluster /\ SignalsOf("guidance_delta") = GuidanceDelta
  BY DEF SignalsOf

\* A trade is an old one or one of the day's signals, made by this run.
LEMMA NewTrades ==
    ASSUME NEW upTo, PersistSignals(upTo), NEW t \in sigTrades'
    PROVE  \/ t \in sigTrades
           \/ /\ t.day = sigDay /\ t.run = sigRuns
              /\ \E x \in SignalsOf(t.strategy) : x.symbol = t.symbol /\ x.from = t.from
  <1> DEFINE new == {[symbol |-> x.symbol, day |-> sigDay, strategy |-> Strategy[i],
                      direction |-> x.direction, run |-> sigRuns, from |-> x.from] :
                       i \in 1..upTo, x \in UNION {SignalsOf(Strategy[k]) : k \in 1..upTo}}
             mine == {u \in new : \E x \in SignalsOf(u.strategy) :
                                    x.symbol = u.symbol /\ x.direction = u.direction /\ x.from = u.from}
             key(u) == <<u.symbol, u.strategy>>
             chosen == {CHOOSE u \in mine : key(u) = k : k \in {key(u) : u \in mine}}
  <1>1. sigTrades' = {u \in sigTrades : u.day # sigDay \/ ~\E c \in chosen : key(c) = key(u)}
                       \union chosen
    BY DEF PersistSignals
  <1>2. \A u \in new : u.day = sigDay /\ u.run = sigRuns
    OBVIOUS
  <1>3. \A u \in mine : u \in new /\ \E x \in SignalsOf(u.strategy) : x.symbol = u.symbol /\ x.from = u.from
    OBVIOUS
  <1> HIDE DEF new
  <1>4. chosen \subseteq mine
    <2>1. ASSUME NEW c \in chosen PROVE c \in mine
      <3>1. PICK k \in {key(u) : u \in mine} : c = CHOOSE u \in mine : key(u) = k
        BY <2>1
      <3>2. \E u \in mine : key(u) = k
        BY <3>1
      <3> HIDE DEF mine, key
      <3> QED
        BY <3>1, <3>2
    <2> HIDE DEF mine, chosen
    <2> QED
      BY <2>1
  <1> HIDE DEF mine, chosen
  <1> QED
    BY <1>1, <1>2, <1>3, <1>4

\* The signals of events rest on one event, extracted on an earlier day; that of a drift
\* is of a symbol nobody has to avoid.
LEMMA EventSignals ==
    /\ \A x \in EventDrift :
         /\ x.symbol \notin AvoidList
         /\ \E e \in sigEvents : x.from = {e} /\ e.at < sigDay
    /\ \A x \in GuidanceDelta : \E e \in sigEvents : x.from = {e} /\ e.at < sigDay
  <1>1. ASSUME NEW x \in EventDrift
        PROVE  x.symbol \notin AvoidList /\ \E e \in sigEvents : x.from = {e} /\ e.at < sigDay
    <2>1. PICK e \in UNION {MostMaterial({y \in EventsOf(s) : Known(y, 3) /\ y.filing.materiality >= 3}) :
                              s \in Symbols \ AvoidList} :
            x = [symbol |-> e.filing.symbol, direction |-> DirectionOf(e.filing), from |-> {e}]
      BY <1>1 DEF EventDrift
    <2>2. PICK s \in Symbols \ AvoidList :
            e \in MostMaterial({y \in EventsOf(s) : Known(y, 3) /\ y.filing.materiality >= 3})
      BY <2>1
    <2>3. e \in EventsOf(s) /\ Known(e, 3)
      BY <2>2 DEF MostMaterial
    <2>4. e \in sigEvents /\ e.filing.symbol = s /\ e.at < sigDay
      BY <2>3 DEF EventsOf, Known
    <2> QED
      BY <2>1, <2>2, <2>4
  <1>2. ASSUME NEW x \in GuidanceDelta
        PROVE  \E e \in sigEvents : x.from = {e} /\ e.at < sigDay
    <2>1. PICK e \in UNION {MostMaterial({y \in OfType(s, "results_guidance") :
                                            Known(y, 30) /\ y.filing.materiality >= 2}) : s \in Symbols} :
            x = [symbol |-> e.filing.symbol, direction |-> e.filing.direction, from |-> {e}]
      BY <1>2 DEF GuidanceDelta
    <2>2. PICK s \in Symbols :
            e \in MostMaterial({y \in OfType(s, "results_guidance") : Known(y, 30) /\ y.filing.materiality >= 2})
      BY <2>1
    <2>3. e \in OfType(s, "results_guidance") /\ Known(e, 30)
      BY <2>2 DEF MostMaterial
    <2>4. e \in sigEvents /\ e.at < sigDay
      BY <2>3 DEF OfType, EventsOf, Known
    <2> QED
      BY <2>1, <2>4
  <1> QED
    BY <1>1, <1>2

\* Two people of a cluster have a row each, and the rows different filings.
LEMMA ClusterSignals ==
    ASSUME RowsInv, NEW x \in InsiderCluster
    PROVE  x.symbol \notin AvoidList /\ Cardinality({r.from.id : r \in x.from}) >= 2
  <1> DEFINE lately(s) == {r \in insiderRows : r.symbol = s /\ r.date <= sigDay /\ r.date >= sigDay - 14}
             by(s, p) == {r \in lately(s) : r.person = p}
             buyers(s) == {p \in {r.person : r \in lately(s)} : NetOf(by(s, p)) > 0}
  <1>1. PICK s \in Symbols \ AvoidList :
          /\ Cardinality(buyers(s)) >= 2
          /\ x = [symbol |-> s, direction |-> 1, from |-> UNION {by(s, p) : p \in buyers(s)}]
    BY DEF InsiderCluster
  <1> DEFINE R == lately(s)
             B == buyers(s)
             F == UNION {by(s, p) : p \in B}
             ids == {r.from.id : r \in F}
  <1>2. IsFiniteSet(R)
    BY FS_Subset DEF RowsInv
  <1>3. IsFiniteSet(B)
    <2> DEFINE g == [r \in R |-> r.person]
    <2>1. DOMAIN g = R /\ B \subseteq {g[r] : r \in DOMAIN g}
      OBVIOUS
    <2> HIDE DEF g, R, B
    <2>2. IsFiniteSet({g[r] : r \in DOMAIN g})
      BY <1>2, <2>1, FiniteImage
    <2> QED
      BY <2>1, <2>2, FS_Subset
  <1>4. IsFiniteSet(ids)
    <2> DEFINE g == [r \in F |-> r.from.id]
    <2>1. DOMAIN g = F /\ ids = {g[r] : r \in DOMAIN g} /\ F \subseteq R
      OBVIOUS
    <2> HIDE DEF g, R, F, ids
    <2>2. IsFiniteSet(F)
      BY <1>2, <2>1, FS_Subset
    <2> QED
      BY <2>1, <2>2, FiniteImage
  <1>5. Cardinality(B) >= 2
    BY <1>1
  <1>6. PICK p, q \in B : p # q
    <2> HIDE DEF B
    <2> QED
      BY <1>3, <1>5, TwoElements
  <1>7. PICK a \in R : a.person = p
    BY <1>6
  <1>8. PICK b \in R : b.person = q
    BY <1>6
  <1>9. a \in F /\ b \in F
    <2>1. a \in by(s, p) /\ b \in by(s, q)
      BY <1>7, <1>8
    <2> HIDE DEF by, B
    <2> QED
      BY <1>6, <2>1
  <1>10. a.from \in Filings /\ b.from \in Filings /\ a.from # b.from
    <2>1. a \in insiderRows /\ b \in insiderRows
      OBVIOUS
    <2> HIDE DEF R, B, F
    <2> QED
      BY <1>6, <1>7, <1>8, <2>1 DEF RowsInv
  <1>11. a.from.id # b.from.id
    BY <1>10, SignalsAssumption
  <1>12. a.from.id \in ids /\ b.from.id \in ids
    BY <1>9
  <1>13. Cardinality(ids) >= 2
    <2> HIDE DEF ids
    <2> QED
      BY <1>4, <1>11, <1>12, TwoElements
  <1>14. x.from = F /\ x.symbol = s
    BY <1>1
  <1> HIDE DEF F, B, R
  <1> QED
    BY <1>1, <1>13, <1>14

--------------------------------------------------------------------------------

\* A run of the job leaves trades that see nothing of their day, no symbol both sold as a
\* blowup and bought, and clusters of two filings.
LEMMA RunEffect ==
    ASSUME SignalsInv, NEW upTo, RunSignalJob(upTo)
    PROVE  SignalsInv'
  <1> USE DEF SignalsInv
  <1>1. /\ PersistSignals(upTo) /\ sigRuns' = sigRuns + 1
        /\ UNCHANGED <<sigDay, sigEvents, insiderRows>>
    BY DEF RunSignalJob
  <1>2. EventsInv' /\ RowsInv' /\ sigDay' \in Nat /\ sigRuns' \in Nat
    BY <1>1 DEF EventsInv, RowsInv
  <1>3. \A t \in sigTrades' :
          \/ t \in sigTrades
          \/ /\ t.day = sigDay /\ t.run = sigRuns
             /\ \E x \in SignalsOf(t.strategy) : x.symbol = t.symbol /\ x.from = t.from
    BY <1>1, NewTrades
  <1>4. \A t \in sigTrades' : t.run \in Nat /\ t.run < sigRuns'
    BY <1>1, <1>3
  <1>5. NoLookAhead'
    <2>1. SUFFICES ASSUME NEW t \in sigTrades', t.strategy \in {"event_drift", "guidance_delta"},
                          NEW e \in t.from
                   PROVE  e.at < t.day /\ e.filing.filed < t.day
      BY DEF NoLookAhead
    <2>2. CASE t \in sigTrades
      BY <2>1, <2>2 DEF NoLookAhead
    <2>3. CASE t \notin sigTrades
      <3>1. t.day = sigDay /\ \E x \in SignalsOf(t.strategy) : x.from = t.from
        BY <1>3, <2>3
      <3>2. \E x \in EventDrift \union GuidanceDelta : x.from = t.from
        BY <2>1, <3>1, SignalsAre
      <3>3. \E d \in sigEvents : t.from = {d} /\ d.at < sigDay
        BY <3>2, EventSignals
      <3>4. e \in sigEvents /\ e.at < sigDay
        BY <2>1, <3>3
      <3>5. e.at \in Nat /\ e.filing.filed \in Nat /\ e.filing.filed <= e.at
        BY <3>4, SignalsAssumption DEF EventsInv
      <3> QED
        BY <3>1, <3>4, <3>5
    <2> QED
      BY <2>2, <2>3
  <1>6. VetoWithinARun'
    <2>1. SUFFICES ASSUME NEW t \in sigTrades', NEW u \in sigTrades',
                          t.strategy = "blowup_short",
                          u.strategy \in {"event_drift", "insider_cluster"}, t.run = u.run
                   PROVE  t.symbol # u.symbol
      BY DEF VetoWithinARun
    <2>2. CASE t \in sigTrades /\ u \in sigTrades
      BY <2>1, <2>2 DEF VetoWithinARun
    <2>3. CASE t \notin sigTrades /\ u \notin sigTrades
      <3>1. t.symbol \in AvoidList
        BY <1>3, <2>1, <2>3, SignalsAre DEF BlowupShort
      <3>2. \E x \in EventDrift \union InsiderCluster : x.symbol = u.symbol
        BY <1>3, <2>1, <2>3, SignalsAre
      <3>3. u.symbol \notin AvoidList
        BY <3>2, EventSignals, ClusterSignals
      <3> QED
        BY <3>1, <3>3
    <2>4. CASE (t \in sigTrades /\ u \notin sigTrades) \/ (t \notin sigTrades /\ u \in sigTrades)
      BY <1>3, <2>1, <2>4
    <2> QED
      BY <2>2, <2>3, <2>4
  <1>7. ClusterOfTwoFilings'
    <2>1. SUFFICES ASSUME NEW t \in sigTrades', t.strategy = "insider_cluster"
                   PROVE  Cardinality({r.from.id : r \in t.from}) >= 2
      BY DEF ClusterOfTwoFilings
    <2>2. CASE t \in sigTrades
      BY <2>1, <2>2 DEF ClusterOfTwoFilings
    <2>3. CASE t \notin sigTrades
      <3>1. PICK x \in InsiderCluster : x.from = t.from
        BY <1>3, <2>1, <2>3, SignalsAre
      <3> QED
        BY <3>1, ClusterSignals
    <2> QED
      BY <2>2, <2>3
  <1> QED
    BY <1>2, <1>4, <1>5, <1>6, <1>7

LEMMA SignalsStep ==
    ASSUME SignalsInv, SignalsNext \/ UNCHANGED sigVars
    PROVE  SignalsInv'
  <1> USE DEF SignalsInv
  <1>1. ASSUME UNCHANGED <<sigTrades, sigRuns>>
        PROVE  /\ \A t \in sigTrades' : t.run \in Nat /\ t.run < sigRuns'
               /\ NoLookAhead' /\ VetoWithinARun' /\ ClusterOfTwoFilings' /\ sigRuns' \in Nat
    BY <1>1 DEF NoLookAhead, VetoWithinARun, ClusterOfTwoFilings
  <1>2. CASE EveningComes \/ DayBreaks \/ UNCHANGED sigVars
    <2>1. /\ UNCHANGED <<sigEvents, insiderRows, sigTrades, sigRuns>> /\ sigDay' \in Nat
      BY <1>2 DEF EveningComes, DayBreaks, sigVars
    <2>2. EventsInv' /\ RowsInv'
      BY <2>1 DEF EventsInv, RowsInv
    <2> QED
      BY <1>1, <2>1, <2>2
  <1>3. CASE DeriveInsiderTrades
    <2>1. UNCHANGED <<sigDay, sigEvents, sigTrades, sigRuns>>
      BY <1>3 DEF DeriveInsiderTrades
    <2>2. EventsInv' /\ RowsInv'
      BY <1>3, <2>1, DeriveEffect DEF EventsInv
    <2> QED
      BY <1>1, <2>1, <2>2
  <1>4. CASE \E f \in Filings : StoreEvents(f)
    <2>1. PICK f \in Filings : StoreEvents(f)
      BY <1>4
    <2>2. UNCHANGED <<sigDay, insiderRows, sigTrades, sigRuns>>
      BY <2>1 DEF StoreEvents
    <2>3. EventsInv' /\ RowsInv'
      BY <2>1, <2>2, StoreEffect DEF RowsInv
    <2> QED
      BY <1>1, <2>2, <2>3
  <1>5. CASE \E upTo \in {1, 4} : RunSignalJob(upTo)
    BY <1>5, RunEffect
  <1> QED
    BY <1>2, <1>3, <1>4, <1>5 DEF SignalsNext

LEMMA SignalsKeep ==
    SignalsInv => NoLookAhead /\ VetoWithinARun /\ ClusterOfTwoFilings /\ TradesAreDatedByFilings
  <1> SUFFICES ASSUME SignalsInv PROVE TradesAreDatedByFilings
    BY DEF SignalsInv
  <1>1. ASSUME NEW r \in insiderRows PROVE r.date <= r.from.filed
    <2>1. r.from \in Filings /\ r.date = ParseTradeDate(r.from)
      BY DEF SignalsInv, RowsInv
    <2>2. r.from.traded \in Int /\ r.from.filed \in Int
      BY <2>1, SignalsAssumption
    <2> QED
      BY <2>1, <2>2, MinOfTwo DEF ParseTradeDate
  <1> QED
    BY <1>1 DEF TradesAreDatedByFilings

--------------------------------------------------------------------------------
(* The pairs: the two loops in step. *)

Appended(s, x) ==
    /\ Len(Append(s, x)) = Len(s) + 1
    /\ \A i \in 1..Len(s) : Append(s, x)[i] = s[i]
    /\ Append(s, x)[Len(s) + 1] = x

IsSeq(s) == \E S : s \in Seq(S)

LEMMA AppendedIs ==
    ASSUME NEW s, IsSeq(s), NEW x
    PROVE  IsSeq(Append(s, x)) /\ Len(s) \in Nat /\ DOMAIN s = 1..Len(s) /\ Appended(s, x)
  <1>1. PICK S : s \in Seq(S)
    BY DEF IsSeq
  <1>2. s \in Seq(S \union {x}) /\ x \in S \union {x}
    BY <1>1
  <1>3. Append(s, x) \in Seq(S \union {x})
    BY <1>2
  <1> QED
    BY <1>2, <1>3 DEF IsSeq, Appended

\* The k-th trade is the k-th pair of signals.
PairTold(k) ==
    /\ signals[2 * k - 1].day = pairTrades[k].entry
    /\ Side(signals[2 * k - 1].type) = pairTrades[k].long
    /\ signals[2 * k] = [day |-> pairTrades[k].exit, type |-> pairTrades[k].reason]

\* Open or not in both loops alike, with one signal more than the trades have when open.
PairInv ==
    /\ IsSeq(signals) /\ IsSeq(pairTrades) /\ inPosition \in BOOLEAN
    /\ Len(signals) = 2 * Len(pairTrades) + (IF inPosition THEN 1 ELSE 0)
    /\ \A k \in 1..Len(pairTrades) : PairTold(k)
    /\ inPosition <=> pairPosition # <<>>
    /\ inPosition => /\ pairPosition[1].day = signals[Len(signals)].day
                     /\ pairPosition[1].long = Side(signals[Len(signals)].type)

LEMMA PairStart == PairInit => PairInv
  <1> SUFFICES ASSUME PairInit PROVE PairInv
    OBVIOUS
  <1>1. signals = <<>> /\ pairTrades = <<>> /\ inPosition = FALSE /\ pairPosition = <<>>
    BY DEF PairInit
  <1>2. IsSeq(<<>>)
    <2>1. <<>> \in Seq({})
      OBVIOUS
    <2> QED
      BY <2>1 DEF IsSeq
  <1>3. Len(signals) = 0 /\ Len(pairTrades) = 0
    BY <1>1
  <1>4. \A k \in 1..Len(pairTrades) : PairTold(k)
    BY <1>3
  <1>5. IsSeq(signals) /\ IsSeq(pairTrades) /\ (inPosition <=> pairPosition # <<>>)
    BY <1>1, <1>2
  <1>6. Len(signals) = 2 * Len(pairTrades) + (IF inPosition THEN 1 ELSE 0)
    BY <1>1, <1>3
  <1> QED
    BY <1>1, <1>4, <1>5, <1>6 DEF PairInv

\* A pass of both loops over one window.
LEMMA LoopsStep ==
    ASSUME PairInv, NEW w, NEW day, GenerateSignals(w, day), BacktestPair(w, day)
    PROVE  PairInv'
  <1>1. /\ Len(signals) \in Nat /\ Len(pairTrades) \in Nat
    BY AppendedIs DEF PairInv
  <1>2. CASE ~inPosition /\ ~ZBeyond(w, EntrySq)
    <2>1. UNCHANGED <<signals, inPosition, pairTrades>> /\ pairPosition' = <<>>
      BY <1>2 DEF GenerateSignals, BacktestPair, PairInv
    <2> QED
      BY <1>2, <2>1 DEF PairInv, PairTold
  <1>3. CASE ~inPosition /\ ZBeyond(w, EntrySq)
    <2> DEFINE type == IF ZPositive(w) THEN "entry_long_b" ELSE "entry_long_a"
               long == IF ZPositive(w) THEN "b" ELSE "a"
               signal == [day |-> day, type |-> type]
    <2>1. signals' = Append(signals, signal) /\ inPosition' = TRUE
      BY <1>3 DEF GenerateSignals
    <2>2. /\ pairPosition' # <<>> /\ pairPosition'[1].day = day /\ pairPosition'[1].long = long
          /\ pairTrades' = pairTrades
      <3>1. pairPosition = <<>>
        BY <1>3 DEF PairInv
      <3>2. pairPosition' = <<[day |-> day, spread |-> w[Len(w)], long |-> long]>>
        BY <1>3, <3>1 DEF BacktestPair
      <3>3. pairTrades' = pairTrades
        BY <1>3, <3>1 DEF BacktestPair
      <3>4. PICK p : pairPosition' = <<p>> /\ p.day = day /\ p.long = long
        BY <3>2
      <3> HIDE DEF long
      <3> QED
        BY <3>3, <3>4
    <2>3. Side(type) = long /\ signal.day = day /\ signal.type = type
      BY DEF Side
    <2> HIDE DEF type, long, signal
    <2>4. /\ Len(signals') = Len(signals) + 1 /\ IsSeq(signals')
          /\ \A i \in 1..Len(signals) : signals'[i] = signals[i]
          /\ signals'[Len(signals')] = signal
      BY <2>1, AppendedIs DEF PairInv, Appended
    <2>5. Len(signals) = 2 * Len(pairTrades)
      BY <1>1, <1>3 DEF PairInv
    <2>6. ASSUME NEW k \in 1..Len(pairTrades') PROVE PairTold(k)'
      <3>1. k \in 1..Len(pairTrades) /\ 2 * k - 1 \in 1..Len(signals) /\ 2 * k \in 1..Len(signals)
        BY <1>1, <2>2, <2>5, <2>6
      <3>2. signals'[2 * k - 1] = signals[2 * k - 1] /\ signals'[2 * k] = signals[2 * k]
        BY <2>4, <3>1
      <3> QED
        BY <2>2, <3>1, <3>2 DEF PairInv, PairTold
    <2>7. Len(signals') = 2 * Len(pairTrades') + (IF inPosition' THEN 1 ELSE 0)
      BY <1>1, <2>1, <2>2, <2>4, <2>5
    <2> QED
      BY <2>1, <2>2, <2>3, <2>4, <2>6, <2>7 DEF PairInv
  <1>4. CASE inPosition /\ ExitReason(w) = ""
    <2>1. ~ZWithin(w, ExitSq) /\ ~ZBeyond(w, StopSq)
      BY <1>4 DEF ExitReason
    <2>2. UNCHANGED <<signals, inPosition, pairTrades, pairPosition>>
      BY <1>4, <2>1 DEF GenerateSignals, BacktestPair, PairInv
    <2> QED
      BY <2>2 DEF PairInv, PairTold
  <1>5. CASE inPosition /\ ExitReason(w) # ""
    <2> DEFINE signal == [day |-> day, type |-> ExitReason(w)]
    <2>1. signals' = Append(signals, signal) /\ inPosition' = FALSE
      BY <1>5 DEF GenerateSignals, ExitReason
    <2>2. pairPosition # <<>>
      BY <1>5 DEF PairInv
    <2>3. PICK change :
            /\ pairPosition' = <<>>
            /\ pairTrades' = Append(pairTrades,
                 [entry |-> pairPosition[1].day, exit |-> day, long |-> pairPosition[1].long,
                  change |-> change, reason |-> ExitReason(w)])
      BY <1>5, <2>2 DEF BacktestPair
    <2> DEFINE trade == [entry |-> pairPosition[1].day, exit |-> day, long |-> pairPosition[1].long,
                         change |-> change, reason |-> ExitReason(w)]
    <2>4. /\ trade.entry = pairPosition[1].day /\ trade.long = pairPosition[1].long
          /\ signal = [day |-> trade.exit, type |-> trade.reason]
          /\ pairTrades' = Append(pairTrades, trade)
      BY <2>3
    <2> HIDE DEF signal, trade
    <2>5. /\ Len(signals') = Len(signals) + 1 /\ IsSeq(signals')
          /\ \A i \in 1..Len(signals) : signals'[i] = signals[i]
          /\ signals'[Len(signals) + 1] = signal
      BY <2>1, AppendedIs DEF PairInv, Appended
    <2>6. /\ Len(pairTrades') = Len(pairTrades) + 1 /\ IsSeq(pairTrades')
          /\ \A i \in 1..Len(pairTrades) : pairTrades'[i] = pairTrades[i]
          /\ pairTrades'[Len(pairTrades) + 1] = trade
      BY <2>4, AppendedIs DEF PairInv, Appended
    <2>7. Len(signals) = 2 * Len(pairTrades) + 1
      BY <1>5 DEF PairInv
    <2>8. ASSUME NEW k \in 1..Len(pairTrades') PROVE PairTold(k)'
      <3>1. CASE k \in 1..Len(pairTrades)
        <4>1. 2 * k - 1 \in 1..Len(signals) /\ 2 * k \in 1..Len(signals)
          BY <1>1, <2>7, <3>1
        <4>2. signals'[2 * k - 1] = signals[2 * k - 1] /\ signals'[2 * k] = signals[2 * k]
          BY <2>5, <4>1
        <4> QED
          BY <2>6, <3>1, <4>2 DEF PairInv, PairTold
      <3>2. CASE k = Len(pairTrades) + 1
        <4>1. 2 * k - 1 = Len(signals) /\ 2 * k = Len(signals) + 1 /\ Len(signals) \in 1..Len(signals)
          BY <1>1, <2>7, <3>2
        <4>2. signals'[2 * k - 1] = signals[Len(signals)] /\ signals'[2 * k] = signal
          BY <2>5, <4>1
        <4>3. pairTrades'[k] = trade
          BY <2>6, <3>2
        <4> QED
          BY <1>5, <2>4, <4>2, <4>3 DEF PairInv, PairTold
      <3> QED
        BY <1>1, <2>6, <2>8, <3>1, <3>2
    <2>9. Len(signals') = 2 * Len(pairTrades') + (IF inPosition' THEN 1 ELSE 0)
      BY <1>1, <2>1, <2>5, <2>6, <2>7
    <2> QED
      BY <2>1, <2>3, <2>5, <2>6, <2>8, <2>9 DEF PairInv
  <1> QED
    BY <1>2, <1>3, <1>4, <1>5 DEF PairInv

LEMMA PairStep ==
    ASSUME PairInv, PairNext \/ UNCHANGED pairVars
    PROVE  PairInv'
  <1>1. ASSUME UNCHANGED <<signals, inPosition, pairPosition, pairTrades>> PROVE PairInv'
    BY <1>1 DEF PairInv, PairTold
  <1>2. CASE PairMissing \/ UNCHANGED pairVars
    BY <1>1, <1>2 DEF PairMissing, pairVars
  <1>3. CASE \E x \in Spreads : PairDay(x)
    <2>1. PICK x \in Spreads : PairDay(x)
      BY <1>3
    <2>2. \/ UNCHANGED <<signals, inPosition, pairPosition, pairTrades>>
          \/ \E w, day : GenerateSignals(w, day) /\ BacktestPair(w, day)
      BY <2>1, Zenon DEF PairDay
    <2> QED
      BY <1>1, <2>2, LoopsStep
  <1> QED
    BY <1>2, <1>3 DEF PairNext

LEMMA PairKeeps == PairInv => SignalsAreTheTrades
  <1> SUFFICES ASSUME PairInv PROVE SignalsAreTheTrades
    OBVIOUS
  <1>1. Len(signals) \in Nat /\ Len(pairTrades) \in Nat /\ DOMAIN pairTrades = 1..Len(pairTrades)
    BY AppendedIs DEF PairInv
  <1>2. Len(pairTrades) = Len(signals) \div 2
    <2> DEFINE n == Len(pairTrades)
               m == Len(signals)
    <2>1. n \in Nat /\ (m = 2 * n \/ m = 2 * n + 1)
      BY <1>1 DEF PairInv
    <2> HIDE DEF n, m
    <2>2. n = m \div 2
      BY <2>1
    <2> QED
      BY <2>2 DEF n, m
  <1> QED
    BY <1>1, <1>2 DEF PairInv, PairTold, SignalsAreTheTrades

--------------------------------------------------------------------------------
(* The questions: what is asked of the rules that are followed here, and what they say. *)

Followed == {"period", "outcome", "transcripts", "quality", "cohort", "performance",
             "decide", "score", "plan", "expiry", "label", "weight", "split", "backtest", "walk",
             "range", "buckets", "record", "pages", "pipeline", "ingest", "limiter", "features",
             "epochs", "frames", "regime", "stack"}

\* What is asked of a rule that is followed here.
AskedIs(q) ==
    /\ q.topic = "outcome" => q.direction \in -1..1 /\ q.reason \in Reasons /\ q.move \in -1..1
    /\ q.topic = "transcripts" => q.filings \subseteq FilingMonths
    /\ q.topic = "quality" => q \in QualityQuestions
    /\ q.topic = "cohort" => q.counts \in [Directions -> Nat] /\ q.right \in Nat
    /\ q.topic = "performance" => q.rows \subseteq PerformanceRows
    /\ q.topic = "decide" => q \in DecisionQuestions
    /\ q.topic = "score" => q \in ScoreQuestions
    /\ q.topic = "plan" => q.tier \in {"large", "mid", "small"} /\ q.share \in Participations
    /\ q.topic = "expiry" => q.date \in Dates
    /\ q.topic = "label" => q \in LabelQuestions
    /\ q.topic = "weight" => q \in WeightQuestions
    /\ q.topic = "split" => q \in SplitQuestions
    /\ q.topic \in {"backtest", "walk"} => q \in TradeQuestions
    /\ q.topic \in {"range", "buckets"} => q \in ViewQuestions
    /\ q.topic \in {"record", "pages"} => q \in RecordQuestions
    /\ q.topic \in {"pipeline", "ingest", "limiter"} => q \in PreprocessingQuestions
    /\ q.topic = "features" => q \in FrameQuestions
    /\ q.topic \in {"epochs", "frames", "regime", "stack"} => q \in PooledQuestions

\* An answer is the rule's.
AnswersAre(q, a) ==
    /\ q.topic = "period" => a = <<ComparePeriod(q)>>
    /\ q.topic = "outcome" => a = <<FlipStopRows(OldOutcome(q.direction, q.reason, q.move))>>
    /\ q.topic = "quality" => a = <<QualityCheckJob(q)>>
    /\ q.topic = "cohort" => a = <<[alarm |-> DirectionCollapse(q.counts),
                                    rejected |-> DegenerateDirections(q.counts, q.right)]>>
    /\ q.topic = "performance" => a = <<Evaluate(q.rows)>>
    /\ q.topic = "decide" => a = <<Decide(q)>>
    /\ q.topic = "score" => a = <<CompositeScore(q)>>
    /\ q.topic = "plan" => a = <<PlanExecution(q)>>
    /\ q.topic = "expiry" => a = <<NextExpiry(q.date)>>
    /\ q.topic = "label" => a = <<TripleBarrier(q)>>
    /\ q.topic = "weight" => a = <<Uniqueness(q)>>
    /\ q.topic = "split" => a = <<CpcvSplits(q)>>
    /\ q.topic = "backtest" => a = <<Backtest(q.predictions)>>
    /\ q.topic = "walk" => a = <<WalkForward(q)>>
    /\ q.topic = "range" => a = <<RangeView(q)>>
    /\ q.topic = "buckets" => a = <<Distribution(q.net)>>
    /\ q.topic = "record" => a = <<Told(q.trades)>>
    /\ q.topic = "pages" => a = <<GetPredictions(q.rows, q.size)>>
    /\ q.topic = "pipeline" => a = <<RunPipeline(RawCloses(q.worth, q.actions), q.actions,
                                                 q.stationary, q.orders)>>
    /\ q.topic = "ingest" => a = <<IngestUniverse(q.outcome)>>
    /\ q.topic = "limiter" => a = <<Acquire(q.arrivals)>>
    /\ q.topic = "features" => a = <<ComputeAllFeatures(q)>>
    /\ q.topic = "epochs" => a = <<FitNetwork(q.losses)>>
    /\ q.topic = "frames" => a = <<Served(SelectTopFeatures(q.importance, 2, Features), q.columns,
                                          q.cell)>>
    /\ q.topic = "regime" => a = <<PredictRegime(LabelStates(q.means, q.variances), 2,
                                                 PrepareInput(<<"breadth">>, q.same))>>
    /\ q.topic = "stack" => /\ FitStack(q.fitted) # Refused
                            /\ a = <<PredictStack(FitStack(q.fitted), q.given)>>

QuestionInv == AskedIs(asked) /\ (answer # <<>> => AnswersAre(asked, answer))

LEMMA NotFollowed ==
    ASSUME NEW q, q.topic \notin Followed
    PROVE  AskedIs(q) /\ \A a : AnswersAre(q, a)
  BY DEF Followed, AskedIs, AnswersAre

LEMMA BacktestTopics == \A q \in BacktestQuestions : AskedIs(q)
  <1>1. \A q \in LabelQuestions : q.topic = "label"
    BY DEF LabelQuestions
  <1>2. \A q \in WeightQuestions : q.topic = "weight"
    BY DEF WeightQuestions
  <1>3. \A q \in SplitQuestions : q.topic = "split"
    BY DEF SplitQuestions
  <1>4. \A q \in TradeQuestions : q.topic \in {"backtest", "walk"}
    BY DEF TradeQuestions
  <1>5. \A q \in ViewQuestions : q.topic \in {"range", "buckets"}
    BY DEF ViewQuestions
  <1> QED
    BY <1>1, <1>2, <1>3, <1>4, <1>5 DEF BacktestQuestions, AskedIs

LEMMA DecisionTopics == \A q \in DecisionQuestionSet : AskedIs(q)
  <1>1. \A q \in DecisionQuestions : q.topic = "decide"
    BY DEF DecisionQuestions
  <1>2. \A q \in ScoreQuestions : q.topic = "score"
    BY DEF ScoreQuestions
  <1>3. \A q \in RankQuestions : q.topic = "rank"
    BY DEF RankQuestions
  <1> QED
    BY <1>1, <1>2, <1>3 DEF DecisionQuestionSet, AskedIs

LEMMA RecordTopics == \A q \in RecordQuestions : AskedIs(q)
  <1>1. \A q \in RecordQuestions : q.topic \in {"record", "pages"}
    BY DEF RecordQuestions
  <1> QED
    BY <1>1 DEF AskedIs

LEMMA TrainingTopics == \A q \in PreprocessingQuestions \union PooledQuestions : AskedIs(q)
  <1>1. \A q \in PreprocessingQuestions : q.topic \in {"pipeline", "ingest", "limiter", "validate"}
    BY DEF PreprocessingQuestions
  <1>2. \A q \in PooledQuestions : q.topic \in {"feed", "epochs", "frames", "regime", "stack"}
    BY DEF PooledQuestions
  <1> QED
    BY <1>1, <1>2 DEF AskedIs

LEMMA TimingTopics == \A q \in TimingQuestions : AskedIs(q)
  <1>1. \A q \in FrameQuestions : q.topic = "features"
    BY DEF FrameQuestions
  <1>2. \A q \in DatedQuestions : q.topic = "dated"
    <2>1. \A q \in ResultQuestions : q.topic = "dated"
      BY DEF ResultQuestions, NoRecords
    <2>2. \A q \in HoldingQuestions : q.topic = "dated"
      <3>1. ASSUME NEW f, NEW T PROVE Holding(f, T).topic = "dated"
        BY DEF Holding, NoRecords
      <3> QED
        BY <3>1, SMT DEF HoldingQuestions
    <2>3. \A q \in OtherDatedQuestions : q.topic = "dated"
      BY DEF OtherDatedQuestions, NoRecords
    <2> QED
      BY <2>1, <2>2, <2>3 DEF DatedQuestions
  <1>3. \A q \in {[topic |-> "calendar", date |-> t] : t \in Dates} : q.topic = "calendar"
    OBVIOUS
  <1>4. \A q \in [topic: {"options"}, chain: {<<>>} \union [1..2 -> ChainEntry]] : q.topic = "options"
    OBVIOUS
  <1> QED
    BY <1>1, <1>2, <1>3, <1>4 DEF TimingQuestions, AskedIs

LEMMA MonitorTopics == \A q \in MonitorQuestions : AskedIs(q)
  <1>1. \A q \in QualityQuestions : q.topic = "quality"
    BY DEF QualityQuestions
  <1>2. ASSUME NEW q \in CohortQuestions
        PROVE  q.topic = "cohort" /\ q.counts \in [Directions -> Nat] /\ q.right \in Nat
    <2>1. PICK n \in CohortSizes :
            \E c \in {f \in [Directions -> 0..n] : CohortSize(f) = n}, r \in {0, n \div 2, n} :
              q = [topic |-> "cohort", counts |-> c, right |-> r]
      BY DEF CohortQuestions
    <2>2. n \in Nat
      BY MonitorsAssumption
    <2>3. PICK c \in [Directions -> 0..n], r \in {0, n \div 2, n} :
            q = [topic |-> "cohort", counts |-> c, right |-> r]
      BY <2>1
    <2>4. c \in [Directions -> Nat] /\ r \in Nat
      BY <2>2
    <2> QED
      BY <2>3, <2>4
  <1>3. \A q \in PerformanceQuestions : q.topic = "performance" /\ q.rows \subseteq PerformanceRows
    BY DEF PerformanceQuestions
  <1>4. \A q \in RotationQuestions : q.topic = "rotation"
    BY DEF RotationQuestions
  <1> QED
    BY <1>1, <1>2, <1>3, <1>4 DEF MonitorQuestions, AskedIs

LEMMA PlanningTopics == \A q \in PlanningQuestions : AskedIs(q)
  <1>1. ASSUME NEW size \in {"large", "mid", "small"}, NEW share \in Participations,
               NEW expiry \in BOOLEAN
        PROVE  AskedIs([topic |-> "plan", tier |-> size, share |-> share, expiry |-> expiry])
    BY DEF AskedIs
  <1>2. ASSUME NEW t \in Dates PROVE AskedIs([topic |-> "expiry", date |-> t])
    BY DEF AskedIs
  <1> QED
    BY <1>1, <1>2 DEF PlanningQuestions

LEMMA StoreTopics == \A q \in StoreQuestions : AskedIs(q)
  <1>1. ASSUME NEW q \in KeyQuestions PROVE AskedIs(q)
    <2>1. q.topic \notin Followed
      BY DEF KeyQuestions, Followed
    <2> QED
      BY <2>1, NotFollowed
  <1>2. ASSUME NEW q \in CallQuestions PROVE AskedIs(q)
    <2>1. q.topic \notin Followed
      BY DEF CallQuestions, Followed
    <2> QED
      BY <2>1, NotFollowed
  <1>3. ASSUME NEW d \in -1..1, NEW r \in Reasons, NEW x \in -1..1
        PROVE  AskedIs([topic |-> "outcome", direction |-> d, reason |-> r, move |-> x])
    BY DEF AskedIs
  <1>4. ASSUME NEW f \in SUBSET FilingMonths
        PROVE  AskedIs([topic |-> "transcripts", filings |-> f])
    BY DEF AskedIs
  <1>5. ASSUME NEW q \in OutcomeQuestions PROVE AskedIs(q)
    <2>1. PICK d \in -1..1, r \in Reasons, x \in -1..1 :
            q = [topic |-> "outcome", direction |-> d, reason |-> r, move |-> x]
      BY DEF OutcomeQuestions
    <2> QED
      BY <1>3, <2>1
  <1>6. \A q \in TranscriptQuestions : AskedIs(q)
    BY <1>4 DEF TranscriptQuestions
  <1> QED
    BY <1>1, <1>2, <1>5, <1>6 DEF StoreQuestions

LEMMA QuestionStart ==
    ASSUME answer = <<>>,
           asked \in GateQuestions \union PlanningQuestions \union RulesQuestions
             \/ asked = [topic |-> "none"]
    PROVE  QuestionInv
  <1> SUFFICES AskedIs(asked)
    BY DEF QuestionInv
  <1>1. CASE asked = [topic |-> "none"]
    BY <1>1 DEF AskedIs
  <1>2. CASE asked \in GateQuestions
    <2>1. asked.topic = "period"
      BY <1>2 DEF GateQuestions
    <2> QED
      BY <2>1 DEF AskedIs
  <1>3. CASE asked \in PreprocessingQuestions \union PooledQuestions \union TimingQuestions
    BY <1>3, TrainingTopics, TimingTopics
  <1> QED
    BY <1>1, <1>2, <1>3, BacktestTopics, RecordTopics, StoreTopics, DecisionTopics,
       MonitorTopics, PlanningTopics
       DEF RulesQuestions

LEMMA AnswersEffect ==
    ASSUME AnswerPeriod \/ PlanningAnswers \/ RulesAnswers
    PROVE  asked' = asked /\ AnswersAre(asked, answer')
  <1>1. CASE AnswerPeriod
    BY <1>1 DEF AnswerPeriod, Reply, AnswersAre
  <1>2. CASE PlanningAnswers
    BY <1>2 DEF PlanningAnswers, AnswerPlan, AnswerExpiry, Reply, AnswersAre
  <1>3. CASE PreprocessingAnswers \/ PooledAnswers \/ TimingAnswers
    <2>1. CASE PreprocessingAnswers
      BY <2>1 DEF PreprocessingAnswers, Reply, AnswersAre
    <2>2. CASE PooledAnswers
      BY <2>2 DEF PooledAnswers, Reply, AnswersAre
    <2>3. CASE TimingAnswers
      BY <2>3 DEF TimingAnswers, AnswerFeatures, AnswerDated, AnswerCalendar, AnswerOptions,
         Reply, AnswersAre
    <2> QED
      BY <1>3, <2>1, <2>2, <2>3
  <1>4. CASE DecisionAnswers
    BY <1>4 DEF DecisionAnswers, AnswerDecision, AnswerScore, AnswerRank, Reply, AnswersAre
  <1>5. CASE MonitorAnswers
    BY <1>5 DEF MonitorAnswers, AnswerQuality, AnswerCohort, AnswerPerformance, AnswerRotation,
       Reply, AnswersAre
  <1>6. CASE StoreAnswers
    BY <1>6 DEF StoreAnswers, Reply, AnswersAre
  <1>7. CASE BacktestAnswers
    BY <1>7 DEF BacktestAnswers, AnswerLabel, AnswerWeight, AnswerSplit, AnswerBacktest,
       AnswerWalk, AnswerRange, AnswerBuckets, Reply, AnswersAre
  <1>8. CASE RecordAnswers
    BY <1>8 DEF RecordAnswers, Reply, AnswersAre
  <1> QED
    BY <1>1, <1>2, <1>3, <1>4, <1>5, <1>6, <1>7, <1>8 DEF RulesAnswers

LEMMA QuestionStep ==
    ASSUME QuestionInv,
           AnswerPeriod \/ PlanningAnswers \/ RulesAnswers \/ UNCHANGED questionVars
    PROVE  QuestionInv'
  <1>1. CASE UNCHANGED questionVars
    BY <1>1 DEF questionVars, QuestionInv
  <1>2. CASE AnswerPeriod \/ PlanningAnswers \/ RulesAnswers
    BY <1>2, AnswersEffect DEF QuestionInv
  <1> QED
    BY <1>1, <1>2

LEMMA JudgesFollow == QuestionInv => JudgesAgree
  <1> SUFFICES ASSUME QuestionInv, Answered("period"), asked.budget > 0, MeanReturn(asked.paper) # 0
               PROVE  /\ answer[1].passes => answer[1].within
                      /\ answer[1].within /\ asked.weeks >= 4 /\ asked.breaches = 0 => answer[1].passes
    BY DEF JudgesAgree
  <1> DEFINE live == MeanReturn(asked.live)
             paper == MeanReturn(asked.paper)
             within == 2 * Divergence(live, paper) <= 3 * asked.budget
             m == [weeks |-> asked.weeks, fills |-> 15, breaches |-> asked.breaches, missed |-> 0,
                   unbroken |-> TRUE, budget |-> asked.budget, live |-> live, paper |-> paper]
  <1>1. answer[1] = ComparePeriod(asked)
    BY DEF QuestionInv, AnswersAre, Answered
  <1>2. answer[1].within = WithinBudget(asked.live, asked.paper, asked.budget)
    BY <1>1 DEF ComparePeriod
  <1>3. answer[1].passes = G2Passes(m)
    BY <1>1 DEF ComparePeriod
  <1>4. answer[1].within = within
    BY <1>2 DEF WithinBudget
  <1>5. SlippageOk(m.live, m.paper, m.budget) = within
    BY DEF SlippageOk
  <1>6. G2Passes(m) = /\ asked.weeks >= 4
                      /\ SlippageOk(m.live, m.paper, m.budget)
                      /\ asked.breaches = 0
    BY DEF G2Passes
  <1> HIDE DEF live, paper, within, m
  <1> QED
    BY <1>3, <1>4, <1>5, <1>6

LEMMA OutcomesFollow == QuestionInv => OneConvention
  <1> SUFFICES ASSUME QuestionInv, Answered("outcome"), asked.direction # 0
               PROVE  answer[1].ret = asked.move
    BY DEF OneConvention
  <1> DEFINE row == OldOutcome(asked.direction, asked.reason, asked.move)
  <1>1. answer[1] = FlipStopRows(row)
    BY DEF QuestionInv, AnswersAre, Answered
  <1>2. /\ row.direction = asked.direction /\ row.reason = asked.reason
        /\ row.ret = IF asked.reason = "none" THEN asked.move ELSE asked.direction * asked.move
        /\ \A x : [row EXCEPT !.ret = x].ret = x
    BY DEF OldOutcome
  <1>3. asked.direction \in {-1, 1} /\ asked.move \in Int /\ asked.reason \in {"none", "stop_loss", "take_profit"}
    BY DEF QuestionInv, AskedIs, Answered, Reasons
  <1> HIDE DEF row
  <1>4. CASE asked.reason = "none"
    BY <1>1, <1>2, <1>4 DEF FlipStopRows
  <1>5. CASE asked.reason # "none"
    <2>1. answer[1].ret = row.ret * row.direction
      BY <1>1, <1>2, <1>3, <1>5 DEF FlipStopRows
    <2>2. answer[1].ret = (asked.direction * asked.move) * asked.direction
      BY <1>2, <1>5, <2>1
    <2> QED
      BY <1>3, <2>2
  <1> QED
    BY <1>4, <1>5

\* The label of a month is that of its place among the windows of three months.
LEMMA LabelOfWindow ==
    ASSUME NEW a \in Nat
    PROVE  \E v \in Int :
             \/ (a - 4) \div 3 = 4 * v /\ InferFiscalQuarter(a) = <<4, v>>
             \/ (a - 4) \div 3 = 4 * v + 1 /\ InferFiscalQuarter(a) = <<1, v + 1>>
             \/ (a - 4) \div 3 = 4 * v + 2 /\ InferFiscalQuarter(a) = <<2, v + 1>>
             \/ (a - 4) \div 3 = 4 * v + 3 /\ InferFiscalQuarter(a) = <<3, v + 2>>
  <1> DEFINE y == a \div 12
             m == a % 12
  <1>1. y \in Int /\ m \in 0..11 /\ a = 12 * y + m
    BY SMTT(30)
  <1>2. InferFiscalQuarter(a) =
          IF m + 1 \in 5..7 THEN <<4, y>>
          ELSE IF m + 1 \in 8..10 THEN <<1, y + 1>>
          ELSE IF m + 1 \in {11, 12, 1} THEN <<2, IF m + 1 >= 11 THEN y + 1 ELSE y>>
          ELSE <<3, y + 1>>
    BY DEF InferFiscalQuarter
  <1> HIDE DEF y, m
  <1>3. CASE m \in 4..6
    <2>1. (a - 4) \div 3 = 4 * y
      BY <1>1, <1>3
    <2>2. InferFiscalQuarter(a) = <<4, y>>
      BY <1>1, <1>2, <1>3
    <2> QED
      BY <1>1, <2>1, <2>2
  <1>4. CASE m \in 7..9
    <2>1. (a - 4) \div 3 = 4 * y + 1
      BY <1>1, <1>4
    <2>2. InferFiscalQuarter(a) = <<1, y + 1>>
      BY <1>1, <1>2, <1>4
    <2> QED
      BY <1>1, <2>1, <2>2
  <1>5. CASE m \in {10, 11}
    <2>1. (a - 4) \div 3 = 4 * y + 2
      BY <1>1, <1>5
    <2>2. InferFiscalQuarter(a) = <<2, y + 1>>
      BY <1>1, <1>2, <1>5
    <2> QED
      BY <1>1, <2>1, <2>2
  <1>6. CASE m = 0
    <2>1. (a - 4) \div 3 = 4 * (y - 1) + 2 /\ y - 1 \in Int
      BY <1>1, <1>6
    <2>2. InferFiscalQuarter(a) = <<2, (y - 1) + 1>>
      BY <1>1, <1>2, <1>6
    <2> QED
      BY <2>1, <2>2
  <1>7. CASE m \in 1..3
    <2>1. (a - 4) \div 3 = 4 * (y - 1) + 3 /\ y - 1 \in Int
      BY <1>1, <1>7
    <2>2. InferFiscalQuarter(a) = <<3, (y - 1) + 2>>
      BY <1>1, <1>2, <1>7
    <2> QED
      BY <2>1, <2>2
  <1> QED
    BY <1>1, <1>3, <1>4, <1>5, <1>6, <1>7

LEMMA LabelsFollow == QuestionInv => LabelsFollowTheWindows
  <1> SUFFICES ASSUME QuestionInv, Answered("transcripts"), NEW a \in asked.filings, NEW b \in asked.filings
               PROVE  (InferFiscalQuarter(a) = InferFiscalQuarter(b)) = ((a - 4) \div 3 = (b - 4) \div 3)
    BY DEF LabelsFollowTheWindows
  <1>1. a \in Nat /\ b \in Nat
    BY StoreAssumption DEF QuestionInv, AskedIs, Answered
  <1> DEFINE p == (a - 4) \div 3
             q == (b - 4) \div 3
             x == InferFiscalQuarter(a)
             y == InferFiscalQuarter(b)
  <1>2. PICK v \in Int : \/ p = 4 * v /\ x = <<4, v>>
                         \/ p = 4 * v + 1 /\ x = <<1, v + 1>>
                         \/ p = 4 * v + 2 /\ x = <<2, v + 1>>
                         \/ p = 4 * v + 3 /\ x = <<3, v + 2>>
    BY <1>1, LabelOfWindow
  <1>3. PICK u \in Int : \/ q = 4 * u /\ y = <<4, u>>
                         \/ q = 4 * u + 1 /\ y = <<1, u + 1>>
                         \/ q = 4 * u + 2 /\ y = <<2, u + 1>>
                         \/ q = 4 * u + 3 /\ y = <<3, u + 2>>
    BY <1>1, LabelOfWindow
  <1> HIDE DEF p, q, x, y
  <1>4. (x = y) <=> (p = q)
    BY <1>2, <1>3
  <1> QED
    BY <1>4 DEF p, q, x, y

--------------------------------------------------------------------------------
(* The paper account and its shadow run. *)

DeskOrders == [symbol : DeskSymbols, side : {"BUY", "SELL"}, quantity : 1..2,
           status : {"pending", "filled", "cancelled"}]

\* The rows of ghost fills of a day are of one run, and no more than it may fill.
DeskInv ==
    /\ deskOrders \in Seq(DeskOrders) /\ shares \in [DeskSymbols -> Nat]
    /\ cash \in Int /\ oversold \in Int /\ slipPaid \in Int
    /\ DeskBooksBalance
    /\ shadowDay \in Nat /\ shadowRuns \in Nat /\ dayTrades \in Seq(DeskTrades)
    /\ ghostFills \subseteq [day : Nat, run : Nat, n : 1..4]
    /\ \A r1, r2 \in ghostFills : r1.day = r2.day => r1.run = r2.run

LEMMA SharesType ==
    ASSUME NEW f \in [DeskSymbols -> Nat]
    PROVE  SharesIn(f) \in Nat
  <1>1. SharesIn(f) = Summed(f, DeskSymbols)
    BY SumIsSummed
  <1> QED
    BY <1>1, DeskAssumption, SummedSteps

LEMMA SharesChange ==
    ASSUME NEW f \in [DeskSymbols -> Nat], NEW x \in DeskSymbols, NEW v \in Nat
    PROVE  SharesIn([f EXCEPT ![x] = v]) = SharesIn(f) + v - f[x]
  <1> DEFINE h == [f EXCEPT ![x] = v]
  <1>1. /\ h \in [DeskSymbols -> Nat] /\ h[x] = v
        /\ \A y \in DeskSymbols : f[y] \in Int /\ h[y] \in Int /\ (y # x => h[y] = f[y])
    OBVIOUS
  <1> HIDE DEF h
  <1>2. Summed(h, DeskSymbols) = Summed(f, DeskSymbols) - f[x] + h[x]
    BY <1>1, DeskAssumption, SummedChanges
  <1>3. Summed(f, DeskSymbols) \in Int /\ f[x] \in Int
    BY <1>1, DeskAssumption, SummedMoves
  <1>4. SharesIn(h) = Summed(h, DeskSymbols) /\ SharesIn(f) = Summed(f, DeskSymbols)
    BY <1>1, SumIsSummed
  <1> QED
    BY <1>1, <1>2, <1>3, <1>4 DEF h

LEMMA OrderReplaced ==
    ASSUME deskOrders \in Seq(DeskOrders), NEW i \in DOMAIN deskOrders, NEW o \in DeskOrders
    PROVE  [deskOrders EXCEPT ![i] = o] \in Seq(DeskOrders)
  OBVIOUS

\* A fill moves the cash and the shares together.
LEMMA FillEffect ==
    ASSUME DeskInv, NEW i \in DOMAIN deskOrders, NEW size \in {"large", "mid", "small"},
           SimulateFill(i, size)
    PROVE  DeskInv'
  <1> DEFINE o == deskOrders[i]
             slip == SlippageRate(size)
             had == shares[o.symbol]
             has == IF o.side = "BUY" THEN had + o.quantity ELSE Max({0, had - o.quantity})
             price == IF o.side = "BUY" THEN 1000 + slip ELSE 1000 - slip
  <1>1. o \in DeskOrders
    BY DEF DeskInv
  <1>2. slip \in {1, 3, 5}
    BY DEF SlippageRate
  <1>3. o.quantity \in {1, 2} /\ o.symbol \in DeskSymbols /\ had \in Nat
    BY <1>1 DEF DeskInv, DeskOrders
  <1> HIDE DEF slip, had
  <1>4. Max({0, had - o.quantity}) = IF had >= o.quantity THEN had - o.quantity ELSE 0
    BY <1>3, MaxOfTwo
  <1>5. Max({0, o.quantity - had}) = IF had >= o.quantity THEN 0 ELSE o.quantity - had
    BY <1>3, MaxOfTwo
  <1>6. has \in Nat
    BY <1>3, <1>4
  <1>7. shares' = [shares EXCEPT ![o.symbol] = has]
    BY <1>3 DEF SimulateFill, UpdatePosition, had, DeskInv
  <1>8. cash' = cash + IF o.side = "BUY" THEN -(price * o.quantity) ELSE price * o.quantity
    <2>1. price * o.quantity \in Int /\ cash \in Int
      BY <1>2, <1>3 DEF DeskInv
    <2>2. cash' = IF o.side = "BUY" THEN cash - price * o.quantity ELSE cash + price * o.quantity
      BY DEF SimulateFill, UpdatePosition, slip
    <2> HIDE DEF price
    <2> QED
      BY <2>1, <2>2
  <1>9. /\ oversold' = oversold + IF o.side = "BUY" THEN 0 ELSE Max({0, o.quantity - had})
        /\ slipPaid' = slipPaid + slip * o.quantity
        /\ deskOrders' = [deskOrders EXCEPT ![i].status = "filled"]
        /\ UNCHANGED shadowVars
    BY DEF SimulateFill, slip, had
  <1>10. SharesIn(shares') = SharesIn(shares) + has - had
    <2> HIDE DEF has
    <2> QED
      BY <1>3, <1>6, <1>7, SharesChange DEF DeskInv, had
  <1>11. SharesIn(shares) \in Nat
    BY SharesType DEF DeskInv
  <1>12. deskOrders' \in Seq(DeskOrders)
    <2>1. [o EXCEPT !.status = "filled"] \in DeskOrders
      BY <1>1 DEF DeskOrders
    <2>2. deskOrders' = [deskOrders EXCEPT ![i] = [o EXCEPT !.status = "filled"]]
      BY <1>9
    <2> QED
      BY <2>1, <2>2, OrderReplaced DEF DeskInv
  <1>13. shares' \in [DeskSymbols -> Nat]
    <2> HIDE DEF has
    <2> QED
      BY <1>6, <1>7 DEF DeskInv
  <1>14. cash' \in Int /\ oversold' \in Int /\ slipPaid' \in Int
    <2>1. price * o.quantity \in Int /\ slip * o.quantity \in Int
      BY <1>2, <1>3
    <2>2. cash \in Int /\ oversold \in Int /\ slipPaid \in Int
      BY DEF DeskInv
    <2>3. cash' \in Int
      <3> HIDE DEF price, o
      <3> QED
        BY <1>8, <2>1, <2>2
    <2>4. oversold' \in Int
      <3> HIDE DEF o
      <3> QED
        BY <1>3, <1>5, <1>9, <2>2
    <2> QED
      BY <1>9, <2>1, <2>2, <2>3, <2>4
  <1>15. cash' + 1000 * SharesIn(shares') = DeskCapital + 1000 * oversold' - slipPaid'
    <2>1. cash + 1000 * SharesIn(shares) = DeskCapital + 1000 * oversold - slipPaid
      BY DEF DeskInv, DeskBooksBalance
    <2>2. cash \in Int /\ oversold \in Int /\ slipPaid \in Int /\ DeskCapital \in Int
      BY DeskAssumption DEF DeskInv
    <2> HIDE DEF o
    <2>3. CASE o.quantity = 1
      <3>1. CASE o.side = "BUY"
        BY <1>2, <1>3, <1>8, <1>9, <1>10, <1>11, <2>1, <2>2, <2>3, <3>1
      <3>2. CASE o.side # "BUY"
        BY <1>2, <1>3, <1>4, <1>5, <1>8, <1>9, <1>10, <1>11, <2>1, <2>2, <2>3, <3>2
      <3> QED
        BY <3>1, <3>2
    <2>4. CASE o.quantity = 2
      <3>1. CASE o.side = "BUY"
        BY <1>2, <1>3, <1>8, <1>9, <1>10, <1>11, <2>1, <2>2, <2>4, <3>1
      <3>2. CASE o.side # "BUY"
        BY <1>2, <1>3, <1>4, <1>5, <1>8, <1>9, <1>10, <1>11, <2>1, <2>2, <2>4, <3>2
      <3> QED
        BY <3>1, <3>2
    <2> QED
      BY <1>3, <2>3, <2>4
  <1> QED
    BY <1>9, <1>12, <1>13, <1>14, <1>15 DEF DeskInv, DeskBooksBalance, shadowVars

LEMMA BrokerStep ==
    ASSUME DeskInv, BrokerNext
    PROVE  DeskInv'
  <1>1. ASSUME NEW s \in DeskSymbols, NEW side \in {"BUY", "SELL"}, NEW q \in 1..2,
               PaperPlace(s, side, q)
        PROVE  DeskInv'
    <2>1. [symbol |-> s, side |-> side, quantity |-> q, status |-> "pending"] \in DeskOrders
      BY DEF DeskOrders
    <2>2. deskOrders' \in Seq(DeskOrders)
      BY <1>1, <2>1 DEF PaperPlace, DeskInv
    <2> QED
      BY <1>1, <2>2 DEF PaperPlace, DeskInv, DeskBooksBalance, shadowVars
  <1>2. ASSUME NEW i \in DOMAIN deskOrders
        PROVE  /\ deskOrders[i] \in DeskOrders
               /\ \A q \in 1..2 : [deskOrders EXCEPT ![i].quantity = q] \in Seq(DeskOrders)
               /\ [deskOrders EXCEPT ![i].status = "cancelled"] \in Seq(DeskOrders)
    <2>1. deskOrders[i] \in DeskOrders /\ deskOrders \in Seq(DeskOrders)
      BY <1>2 DEF DeskInv
    <2>2. \A q \in 1..2 : [deskOrders[i] EXCEPT !.quantity = q] \in DeskOrders
      BY <2>1 DEF DeskOrders
    <2>3. [deskOrders[i] EXCEPT !.status = "cancelled"] \in DeskOrders
      BY <2>1 DEF DeskOrders
    <2>4. \A q \in 1..2 : [deskOrders EXCEPT ![i].quantity = q] \in Seq(DeskOrders)
      BY <2>1, <2>2, OrderReplaced
    <2>5. [deskOrders EXCEPT ![i].status = "cancelled"] \in Seq(DeskOrders)
      BY <2>1, <2>3, OrderReplaced
    <2> QED
      BY <2>1, <2>4, <2>5
  <1>3. ASSUME NEW i \in DOMAIN deskOrders, NEW q \in 1..2, PaperModify(i, q)
        PROVE  DeskInv'
    <2>1. /\ deskOrders' = [deskOrders EXCEPT ![i].quantity = q]
          /\ UNCHANGED <<cash, shares, oversold, slipPaid, shadowVars>>
      BY <1>3 DEF PaperModify
    <2>2. deskOrders' \in Seq(DeskOrders)
      BY <1>2, <2>1
    <2> QED
      BY <2>1, <2>2 DEF DeskInv, DeskBooksBalance, shadowVars
  <1>4. ASSUME NEW i \in DOMAIN deskOrders, PaperCancel(i)
        PROVE  DeskInv'
    <2>1. /\ deskOrders' = [deskOrders EXCEPT ![i].status = "cancelled"]
          /\ UNCHANGED <<cash, shares, oversold, slipPaid, shadowVars>>
      BY <1>4 DEF PaperCancel
    <2>2. deskOrders' \in Seq(DeskOrders)
      BY <1>2, <2>1
    <2> QED
      BY <2>1, <2>2 DEF DeskInv, DeskBooksBalance, shadowVars
  <1>5. ASSUME \/ \E q \in 1..2 : CreateBracket(q)
               \/ \E b \in deskBrackets : CancelBracket(b)
               \/ \E high \in {1001, 1005} : CheckBrackets(high, 999)
        PROVE  DeskInv'
    <2>1. UNCHANGED <<deskOrders, cash, shares, oversold, slipPaid, shadowVars>>
      BY <1>5 DEF CreateBracket, CancelBracket, CheckBrackets
    <2> QED
      BY <2>1 DEF DeskInv, DeskBooksBalance, shadowVars
  <1> QED
    BY <1>1, <1>3, <1>4, <1>5, FillEffect DEF BrokerNext

RunStates ==
    {run \in [exposure : 0..24, open : SUBSET DeskSymbols, fills : Seq(DeskTrades)] :
        5 * Len(run.fills) <= run.exposure}

LEMMA ShadowStepType ==
    ASSUME NEW run \in RunStates, NEW t \in DeskTrades
    PROVE  ShadowStep(run, t) \in RunStates
  <1>1. t \in [symbol : DeskSymbols, side : {"BUY", "SELL"},
               tradeable : BOOLEAN, priced : BOOLEAN, opens : BOOLEAN]
    BY DeskAssumption
  <1>2. CASE ~t.tradeable \/ ~t.priced \/ run.exposure + 5 >= 25 \/ Cardinality(run.open) >= 8
    BY <1>2 DEF ShadowStep
  <1>3. CASE ~(~t.tradeable \/ ~t.priced \/ run.exposure + 5 >= 25
                 \/ Cardinality(run.open) >= 8)
    <2> DEFINE opened == IF ~t.opens THEN run.open
                         ELSE IF t.side = "BUY" THEN run.open \union {t.symbol}
                         ELSE run.open \ {t.symbol}
               filled == IF t.opens THEN Append(run.fills, t) ELSE run.fills
    <2>1. opened \in SUBSET DeskSymbols
      BY <1>1 DEF RunStates
    <2>2. filled \in Seq(DeskTrades) /\ Len(filled) <= Len(run.fills) + 1
      BY DEF RunStates
    <2>3. run.exposure + 5 \in 0..24 /\ 5 * Len(run.fills) <= run.exposure
          /\ Len(run.fills) \in Nat /\ Len(filled) \in Nat /\ run.exposure \in Nat
      <3>1. run.exposure \in 0..24 /\ run.fills \in Seq(DeskTrades)
            /\ 5 * Len(run.fills) <= run.exposure /\ ~(run.exposure + 5 >= 25)
        BY <1>3 DEF RunStates
      <3>2. Len(run.fills) \in Nat /\ Len(filled) \in Nat
        BY <2>2, <3>1
      <3>3. \A e \in 0..24 : ~(e + 5 >= 25) => e + 5 \in 0..24 /\ e \in Nat
        OBVIOUS
      <3> HIDE DEF filled
      <3> QED
        BY <3>1, <3>2, <3>3
    <2>4. ShadowStep(run, t) = [exposure |-> run.exposure + 5, open |-> opened, fills |-> filled]
      BY <1>3 DEF ShadowStep
    <2> HIDE DEF opened, filled
    <2>5. 5 * Len(filled) <= run.exposure + 5
      BY <2>2, <2>3
    <2> QED
      BY <2>1, <2>2, <2>3, <2>4, <2>5 DEF RunStates
  <1> QED
    BY <1>2, <1>3

LEMMA GreatestIndex ==
    ASSUME NEW n \in Nat, NEW T \in SUBSET (1..n), T # {}
    PROVE  Max(T) \in T
  <1> DEFINE Left == {m \in Nat : n - m \in T}
  <1>0. \A x \in T : x \in Nat /\ x <= n /\ n - x \in Nat /\ n - (n - x) = x
    OBVIOUS
  <1>1. Left \in SUBSET Nat /\ Left # {}
    BY <1>0
  <1>2. PICK y \in Left : \A z \in Left : y <= z
    BY <1>1, LeastNatural
  <1>3. ASSUME NEW z \in T PROVE n - y >= z
    <2>1. n - z \in Left /\ y \in Nat /\ z \in Nat
      BY <1>0
    <2>2. y <= n - z
      BY <1>2, <2>1
    <2> HIDE DEF Left
    <2> QED
      BY <2>1, <2>2
  <1>4. n - y \in T
    BY <1>2
  <1>5. T \subseteq Int
    OBVIOUS
  <1> HIDE DEF Left
  <1> QED
    BY <1>3, <1>4, <1>5, MaxIs

\* A run ends in a state of a run: it fills four plans at most.
LEMMA ShadowRunType ==
    ASSUME NEW trades \in Seq(DeskTrades)
    PROVE  ShadowRun(trades) \in RunStates
  <1> DEFINE S == 1..Len(trades)
             base == [exposure |-> 0, open |-> {}, fills |-> <<>>]
             pick == [T \in SUBSET S |-> Max(T)]
             step == [p \in S \X RunStates |-> ShadowStep(p[2], trades[p[1]])]
             Body(g) == [T \in SUBSET S |-> IF T = {} THEN base
                                            ELSE ShadowStep(g[T \ {Max(T)}], trades[Max(T)])]
  <1>1. \A T \in SUBSET S : T # {} => Max(T) \in T
    <2>1. Len(trades) \in Nat
      OBVIOUS
    <2> QED
      BY <2>1, GreatestIndex
  <1>2. base \in RunStates
    BY DEF RunStates
  <1>3. IsFiniteSet(S)
    BY FS_Interval
  <1>4. \A k \in S, run \in RunStates : ShadowStep(run, trades[k]) \in RunStates
    BY ShadowStepType
  <1>5. \E g : FoldsOver(S, RunStates, base, pick, step, g)
    <2>1. PicksFrom(S, pick)
      BY <1>1 DEF PicksFrom
    <2>2. StepsWithin(S, RunStates, step)
      BY <1>4 DEF StepsWithin
    <2> HIDE DEF pick, step, base, S
    <2> QED
      BY <1>2, <1>3, <2>1, <2>2, FoldExists
  <1>6. PICK g \in [SUBSET S -> RunStates] :
          \A T \in SUBSET S :
             g[T] = IF T = {} THEN base ELSE step[<<pick[T], g[T \ {pick[T]}]>>]
    <2> HIDE DEF pick, step, base, S
    <2> QED
      BY <1>5 DEF FoldsOver
  <1>7. \A T \in SUBSET S : T # {} =>
          step[<<pick[T], g[T \ {pick[T]}]>>] = ShadowStep(g[T \ {Max(T)}], trades[Max(T)])
    <2> TAKE T \in SUBSET S
    <2> HAVE T # {}
    <2>1. Max(T) \in S /\ T \ {Max(T)} \in SUBSET S /\ pick[T] = Max(T)
      BY <1>1
    <2>2. g[T \ {Max(T)}] \in RunStates
      BY <2>1
    <2> HIDE DEF pick, S
    <2> QED
      BY <2>1, <2>2
  <1>8. g = Body(g)
    <2> HIDE DEF pick, step, base, S
    <2>1. \A T \in SUBSET S : g[T] = Body(g)[T]
      BY <1>6, <1>7
    <2>2. Body(g) = [T \in SUBSET S |-> Body(g)[T]]
      OBVIOUS
    <2> HIDE DEF Body
    <2> QED
      BY <2>1, <2>2, <1>6
  <1> DEFINE c == CHOOSE h : h = Body(h)
  <1>9. c = Body(c)
    BY <1>8
  <1>10. ShadowRun(trades) = c[S]
    <2>1. DOMAIN trades = S
      OBVIOUS
    <2> QED
      BY <2>1 DEF ShadowRun, FoldLeft, MapThenFoldSet
  <1> DEFINE P == {T \in SUBSET S : c[T] \in RunStates}
  <1>11. {} \in P
    <2> HIDE DEF c, S
    <2>1. c[{}] = base
      BY <1>9
    <2> QED
      BY <1>2, <2>1
  <1>12. ASSUME NEW T \in SUBSET S, T # {}, \A x \in T : T \ {x} \in P
         PROVE  T \in P
    <2> HIDE DEF c, S
    <2>1. Max(T) \in T /\ T \ {Max(T)} \in P
      BY <1>1, <1>12
    <2>2. c[T] = ShadowStep(c[T \ {Max(T)}], trades[Max(T)])
      BY <1>9, <1>12
    <2> QED
      BY <1>4, <2>1, <2>2
  <1>13. S \in P
    <2> HIDE DEF P, S
    <2>1. \A T \in SUBSET S : T \in P
      BY <1>3, <1>11, <1>12, SubsetSteps
    <2> QED
      BY <2>1
  <1> HIDE DEF c, S
  <1> QED
    BY <1>10, <1>13

LEMMA ShadowStepKeeps ==
    ASSUME DeskInv, ShadowNext
    PROVE  DeskInv'
  <1>1. CASE ShadowCycle
    <2> DEFINE fills == ShadowRun(dayTrades).fills
               rows == {[day |-> shadowDay, run |-> shadowRuns, n |-> i] : i \in DOMAIN fills}
    <2>1. ShadowRun(dayTrades) \in RunStates
      BY ShadowRunType DEF DeskInv
    <2>2. DOMAIN fills \subseteq 1..4
      <3>1. fills \in Seq(DeskTrades) /\ 5 * Len(fills) <= 24
        BY <2>1 DEF RunStates
      <3> HIDE DEF fills
      <3>2. Len(fills) \in Nat /\ DOMAIN fills = 1..Len(fills)
        BY <3>1
      <3> QED
        BY <3>1, <3>2
    <2>3. \/ FillsOf(shadowDay) = {} /\ ghostFills' = ghostFills \union rows
          \/ ghostFills' = ghostFills
      BY <1>1 DEF ShadowCycle
    <2> HIDE DEF fills
    <2>4. /\ rows \subseteq [day : Nat, run : Nat, n : 1..4]
          /\ \A r \in rows : r.day = shadowDay /\ r.run = shadowRuns
      BY <2>2 DEF DeskInv
    <2> HIDE DEF rows
    <2>5. \A r1, r2 \in ghostFills' : r1.day = r2.day => r1.run = r2.run
      BY <2>3, <2>4 DEF FillsOf, DeskInv
    <2>6. ghostFills' \subseteq [day : Nat, run : Nat, n : 1..4]
      BY <2>3, <2>4 DEF DeskInv
    <2> QED
      BY <1>1, <2>5, <2>6 DEF ShadowCycle, DeskInv, DeskBooksBalance, brokerVars
  <1>2. CASE ShadowDayEnds
    BY <1>2 DEF ShadowDayEnds, DeskInv, DeskBooksBalance, brokerVars
  <1>3. ASSUME NEW t \in DeskTrades, PredictionStored(t)
        PROVE  DeskInv'
    BY <1>3 DEF PredictionStored, DeskInv, DeskBooksBalance, brokerVars
  <1> QED
    BY <1>1, <1>2, <1>3 DEF ShadowNext

LEMMA DeskStart == DeskInit => DeskInv
  <1> SUFFICES ASSUME DeskInit PROVE DeskInv
    OBVIOUS
  <1>1. shares \in [DeskSymbols -> Nat]
    BY DEF DeskInit
  <1>2. SharesIn(shares) = 0
    <2>1. \A x \in DeskSymbols : shares[x] = 0
      BY DEF DeskInit
    <2>2. Summed(shares, DeskSymbols) = 0 * Cardinality(DeskSymbols)
      BY <2>1, DeskAssumption, SummedConstant
    <2> QED
      BY <1>1, <2>2, SumIsSummed, DeskAssumption, FS_CardinalityType
  <1>3. DeskBooksBalance
    BY <1>2, DeskAssumption DEF DeskInit, DeskBooksBalance
  <1> QED
    BY <1>1, <1>3, DeskAssumption DEF DeskInit, DeskInv

LEMMA DeskStep ==
    ASSUME DeskInv, BrokerNext \/ ShadowNext \/ UNCHANGED deskVars
    PROVE  DeskInv'
  <1>1. CASE UNCHANGED deskVars
    BY <1>1 DEF DeskInv, DeskBooksBalance, deskVars, brokerVars, shadowVars
  <1> QED
    BY <1>1, BrokerStep, ShadowStepKeeps

LEMMA DeskKeeps == DeskInv => DeskIsSound
  <1> SUFFICES ASSUME DeskInv PROVE DeskIsSound
    OBVIOUS
  <1>1. ASSUME NEW d \in {1, 2}
        PROVE  /\ \A r1, r2 \in FillsOf(d) : r1.run = r2.run
               /\ 5 * Cardinality(FillsOf(d)) < 25
    <2>1. \A r1, r2 \in FillsOf(d) : r1.run = r2.run
      BY DEF DeskInv, FillsOf
    <2> DEFINE number == [r \in FillsOf(d) |-> r.n]
    <2>2. number \in Injection(FillsOf(d), 1..4)
      <3>1. \A r \in FillsOf(d) : r \in [day : Nat, run : Nat, n : 1..4] /\ r.day = d
        BY DEF DeskInv, FillsOf
      <3>2. \A r1, r2 \in FillsOf(d) : r1.n = r2.n => r1 = r2
        BY <2>1, <3>1
      <3>3. number \in [FillsOf(d) -> 1..4]
        BY <3>1
      <3>4. \A r1, r2 \in FillsOf(d) : number[r1] = number[r2] => r1 = r2
        BY <3>2
      <3> HIDE DEF number
      <3> QED
        BY <3>3, <3>4 DEF Injection, IsInjective
    <2>3. IsFiniteSet(1..4) /\ Cardinality(1..4) = 4
      <3>1. \A n \in Nat : IsFiniteSet(1..n) /\ Cardinality(1..n) = n
        BY UpToIsFinite
      <3> QED
        BY <3>1
    <2>4. IsFiniteSet(FillsOf(d)) /\ Cardinality(FillsOf(d)) <= 4
      <3> HIDE DEF number
      <3> QED
        BY <2>2, <2>3, FS_Injection
    <2>5. Cardinality(FillsOf(d)) \in Nat
      BY <2>4, FS_CardinalityType
    <2> QED
      BY <2>1, <2>4, <2>5
  <1> QED
    BY <1>1 DEF DeskIsSound, OneGhostRunADay, DeskInv

--------------------------------------------------------------------------------
(* The daily schedule. *)

IsDue(j, x) ==
    \E d \in Nat : x = d * Midnight + JobTable[j].at /\ Weekday(x) \in JobTable[j].days

\* The work of a whole evening and every trouble together take less than a day.
LateByLessThanADay ==
    /\ IsFiniteSet(Durations) /\ MaxTroubles \in Nat
    /\ Cardinality(Jobs) + MaxTroubles * Max(Durations) < Midnight

\* At a time, with what is due, what has run and n troubles: since b, that nothing due is
\* older than, each job has run once at most.
BusySince(b, time, next, last, n) ==
    /\ b \in Nat \ {0} /\ b <= time /\ \A j \in Jobs : next[j] >= b
    /\ time - b <= Cardinality({j \in Jobs : last[j] >= b}) + n * Max(Durations)

\* What has run, what is due and the batch of the moment, job by job.
DueInv ==
    /\ now \in Nat /\ bootedAt \in Nat /\ bootedAt <= now /\ troubles \in 0..MaxTroubles
    /\ due \in [Jobs -> Nat] /\ done \in [Jobs -> Nat] /\ batch \in SUBSET Jobs
    /\ alive \/ batch = {}
    /\ lastRun.due \in Nat
    /\ \A j \in Jobs :
         /\ IsDue(j, due[j])
         /\ done[j] <= now /\ done[j] < due[j]
         /\ done[j] = 0 \/ IsDue(j, done[j])
         /\ \A t \in Nat : IsDue(j, t) /\ t < due[j] => done[j] >= t \/ bootedAt >= t
    /\ \A i \in batch : due[i] <= now /\ \A j \in Jobs \ batch : due[i] < due[j]

ScheduleInv ==
    /\ DueInv /\ WhatItNeedsIsDone
    /\ \E b : BusySince(b, now, due, done, troubles)

LEMMA JobsOfTheTable ==
    /\ Jobs = {
         "predictions", "signals", "hash", "rebalance", "shadow", "evaluation", "quality",
         "reveal", "refresh", "stops", "fiidii", "bhavcopy", "bse", "nse", "insider",
         "surveillance", "deals", "ratings", "extraction", "drift", "transcripts", "intel",
         "bse_weekly", "trends", "monthly", "weekly", "xgboost"}
    /\ JobTable["predictions"] = RunDailyPredictions
    /\ JobTable["signals"] = RunSignalStrategies
    /\ JobTable["hash"] = RunPredictionHash
    /\ JobTable["rebalance"] = MaybeQuarterlyRebalance
    /\ JobTable["shadow"] = RunShadowExecution
    /\ JobTable["evaluation"] = RunDailyEvaluation
    /\ JobTable["quality"] = RunQualityCheck
    /\ JobTable["reveal"] = RunProofReveal
    /\ JobTable["refresh"] = RunDataRefresh
    /\ JobTable["stops"] = RunStopLossCheck
    /\ JobTable["fiidii"] = RunFiiDii
    /\ JobTable["bhavcopy"] = RunBhavcopy
    /\ JobTable["bse"] = RunBseAnn
    /\ JobTable["nse"] = RunNseAnn
    /\ JobTable["insider"] = RunInsiderTrades
    /\ JobTable["surveillance"] = RunSurveillance
    /\ JobTable["deals"] = RunDeals
    /\ JobTable["ratings"] = RunCreditRatings
    /\ JobTable["extraction"] = RunIntelExtraction
    /\ JobTable["drift"] = RunDriftCheck
    /\ JobTable["transcripts"] = RunTranscripts
    /\ JobTable["intel"] = RunIntelQuality
    /\ JobTable["bse_weekly"] = RunBseWeekly
    /\ JobTable["trends"] = RunTrends
    /\ JobTable["monthly"] = MaybeMonthlyRetrain
    /\ JobTable["weekly"] = RunWeeklyRetrain
    /\ JobTable["xgboost"] = RunXgboostRetrain
  <1>1. Jobs = {
         "predictions", "signals", "hash", "rebalance", "shadow", "evaluation", "quality",
         "reveal", "refresh", "stops", "fiidii", "bhavcopy", "bse", "nse", "insider",
         "surveillance", "deals", "ratings", "extraction", "drift", "transcripts", "intel",
         "bse_weekly", "trends", "monthly", "weekly", "xgboost"}
    BY DEF Jobs, JobTable
  <1>2. JobTable["predictions"] = RunDailyPredictions
    BY DEF JobTable
  <1>3. JobTable["signals"] = RunSignalStrategies
    BY DEF JobTable
  <1>4. JobTable["hash"] = RunPredictionHash
    BY DEF JobTable
  <1>5. JobTable["rebalance"] = MaybeQuarterlyRebalance
    BY DEF JobTable
  <1>6. JobTable["shadow"] = RunShadowExecution
    BY DEF JobTable
  <1>7. JobTable["evaluation"] = RunDailyEvaluation
    BY DEF JobTable
  <1>8. JobTable["quality"] = RunQualityCheck
    BY DEF JobTable
  <1>9. JobTable["reveal"] = RunProofReveal
    BY DEF JobTable
  <1>10. JobTable["refresh"] = RunDataRefresh
    BY DEF JobTable
  <1>11. JobTable["stops"] = RunStopLossCheck
    BY DEF JobTable
  <1>12. JobTable["fiidii"] = RunFiiDii
    BY DEF JobTable
  <1>13. JobTable["bhavcopy"] = RunBhavcopy
    BY DEF JobTable
  <1>14. JobTable["bse"] = RunBseAnn
    BY DEF JobTable
  <1>15. JobTable["nse"] = RunNseAnn
    BY DEF JobTable
  <1>16. JobTable["insider"] = RunInsiderTrades
    BY DEF JobTable
  <1>17. JobTable["surveillance"] = RunSurveillance
    BY DEF JobTable
  <1>18. JobTable["deals"] = RunDeals
    BY DEF JobTable
  <1>19. JobTable["ratings"] = RunCreditRatings
    BY DEF JobTable
  <1>20. JobTable["extraction"] = RunIntelExtraction
    BY DEF JobTable
  <1>21. JobTable["drift"] = RunDriftCheck
    BY DEF JobTable
  <1>22. JobTable["transcripts"] = RunTranscripts
    BY DEF JobTable
  <1>23. JobTable["intel"] = RunIntelQuality
    BY DEF JobTable
  <1>24. JobTable["bse_weekly"] = RunBseWeekly
    BY DEF JobTable
  <1>25. JobTable["trends"] = RunTrends
    BY DEF JobTable
  <1>26. JobTable["monthly"] = MaybeMonthlyRetrain
    BY DEF JobTable
  <1>27. JobTable["weekly"] = RunWeeklyRetrain
    BY DEF JobTable
  <1>28. JobTable["xgboost"] = RunXgboostRetrain
    BY DEF JobTable
  <1> QED
    BY <1>1, <1>2, <1>3, <1>4, <1>5, <1>6, <1>7, <1>8, <1>9, <1>10, <1>11, <1>12, <1>13,
       <1>14, <1>15, <1>16, <1>17, <1>18, <1>19, <1>20, <1>21, <1>22, <1>23, <1>24, <1>25,
       <1>26, <1>27, <1>28

RowIsSound(row) ==
    row.at \in 0..(Midnight - 1) /\ row.days \subseteq 0..6 /\ row.days # {}

LEMMA RowsAreSound ==
    /\ RowIsSound(RunDailyPredictions)
    /\ RowIsSound(RunSignalStrategies)
    /\ RowIsSound(RunPredictionHash)
    /\ RowIsSound(MaybeQuarterlyRebalance)
    /\ RowIsSound(RunShadowExecution)
    /\ RowIsSound(RunDailyEvaluation)
    /\ RowIsSound(RunQualityCheck)
    /\ RowIsSound(RunProofReveal)
    /\ RowIsSound(RunDataRefresh)
    /\ RowIsSound(RunStopLossCheck)
    /\ RowIsSound(RunFiiDii)
    /\ RowIsSound(RunBhavcopy)
    /\ RowIsSound(RunBseAnn)
    /\ RowIsSound(RunNseAnn)
    /\ RowIsSound(RunInsiderTrades)
    /\ RowIsSound(RunSurveillance)
    /\ RowIsSound(RunDeals)
    /\ RowIsSound(RunCreditRatings)
    /\ RowIsSound(RunIntelExtraction)
    /\ RowIsSound(RunDriftCheck)
    /\ RowIsSound(RunTranscripts)
    /\ RowIsSound(RunIntelQuality)
    /\ RowIsSound(RunBseWeekly)
    /\ RowIsSound(RunTrends)
    /\ RowIsSound(MaybeMonthlyRetrain)
    /\ RowIsSound(RunWeeklyRetrain)
    /\ RowIsSound(RunXgboostRetrain)
  BY DEF RowIsSound, Minutes, Midnight, Daily,
        RunDailyPredictions, RunSignalStrategies, RunPredictionHash,
        MaybeQuarterlyRebalance, RunShadowExecution, RunDailyEvaluation, RunQualityCheck,
        RunProofReveal, RunDataRefresh, RunStopLossCheck, RunFiiDii, RunBhavcopy,
        RunBseAnn, RunNseAnn, RunInsiderTrades, RunSurveillance, RunDeals,
        RunCreditRatings, RunIntelExtraction, RunDriftCheck, RunTranscripts,
        RunIntelQuality, RunBseWeekly, RunTrends, MaybeMonthlyRetrain, RunWeeklyRetrain,
        RunXgboostRetrain

LEMMA JobsAreSound == \A j \in Jobs : RowIsSound(JobTable[j])
  BY JobsOfTheTable, RowsAreSound

LEMMA NeedsAre ==
    \A n \in Needs : /\ n[1] \in Jobs /\ n[2] \in Jobs
                     /\ JobTable[n[1]].days = 0..6
                     /\ JobTable[n[1]].at < JobTable[n[2]].at
  <1> DEFINE Good(a, b) == /\ a \in Jobs /\ b \in Jobs /\ JobTable[a].days = 0..6
                           /\ JobTable[a].at < JobTable[b].at
  <1>1. \A a \in {"bse", "nse", "insider", "surveillance", "deals", "ratings", "transcripts"} :
          Good(a, "intel")
    BY JobsOfTheTable DEF Minutes, Daily, RunBseAnn, RunNseAnn, RunInsiderTrades, RunSurveillance,
         RunDeals, RunCreditRatings, RunTranscripts, RunIntelQuality
  <1>2. Good("predictions", "signals") /\ Good("predictions", "hash") /\ Good("signals", "hash")
    BY JobsOfTheTable DEF Minutes, Daily, RunDailyPredictions, RunSignalStrategies, RunPredictionHash
  <1>3. Good("refresh", "stops") /\ Good("refresh", "xgboost")
    BY JobsOfTheTable DEF Minutes, Daily, RunDataRefresh, RunStopLossCheck, RunXgboostRetrain
  <1>4. Good("bse", "extraction") /\ Good("nse", "extraction") /\ Good("ratings", "extraction")
    BY JobsOfTheTable DEF Minutes, Daily, RunBseAnn, RunNseAnn, RunCreditRatings,
         RunIntelExtraction
  <1>5. \A n \in Needs :
          \/ n \in {"bse", "nse", "insider", "surveillance", "deals", "ratings", "transcripts"}
                      \X {"intel"}
          \/ n \in {<<"predictions", "signals">>, <<"predictions", "hash">>, <<"signals", "hash">>,
                    <<"refresh", "stops">>, <<"refresh", "xgboost">>, <<"bse", "extraction">>,
                    <<"nse", "extraction">>, <<"ratings", "extraction">>}
    BY DEF Needs
  <1> HIDE DEF Good
  <1>6. \A n \in Needs : Good(n[1], n[2])
    BY <1>1, <1>2, <1>3, <1>4, <1>5
  <1> QED
    BY <1>6 DEF Good

LEMMA JobsAreFinite == IsFiniteSet(Jobs) /\ Jobs # {} /\ "none" \notin Jobs
  <1> DEFINE f == <<"predictions", "signals", "hash", "rebalance", "shadow", "evaluation",
                    "quality", "reveal", "refresh", "stops", "fiidii", "bhavcopy", "bse", "nse",
                    "insider", "surveillance", "deals", "ratings", "extraction", "drift",
                    "transcripts", "intel", "bse_weekly", "trends", "monthly", "weekly",
                    "xgboost">>
  <1>1. Jobs = {f[k] : k \in DOMAIN f} /\ "none" \notin Jobs /\ Jobs # {}
    BY JobsOfTheTable
  <1>2. IsFiniteSet(DOMAIN f)
    <2>1. DOMAIN f = 1..27
      OBVIOUS
    <2> QED
      BY <2>1, UpToIsFinite
  <1> HIDE DEF f
  <1> QED
    BY <1>1, <1>2, FiniteImage

LEMMA DayOfDue ==
    ASSUME NEW d \in Nat, NEW m \in 0..(Midnight - 1)
    PROVE  DayOf(d * Midnight + m) = d
  BY DEF DayOf, Midnight

LEMMA DayOfTime ==
    ASSUME NEW t \in Nat
    PROVE  DayOf(t) \in Nat /\ DayOf(t) * Midnight <= t /\ t < (DayOf(t) + 1) * Midnight
  BY DEF DayOf, Midnight

\* Two times a job is due are a day apart.
LEMMA DueADayApart ==
    ASSUME NEW j \in Jobs, NEW x, NEW y, IsDue(j, x), IsDue(j, y), x < y
    PROVE  x \in Nat /\ y \in Nat /\ x + Midnight <= y
  <1> DEFINE at == JobTable[j].at
  <1>1. at \in 0..(Midnight - 1)
    BY JobsAreSound DEF RowIsSound
  <1>2. PICK d \in Nat : x = d * Midnight + at
    BY DEF IsDue
  <1>3. PICK e \in Nat : y = e * Midnight + at
    BY DEF IsDue
  <1> HIDE DEF at
  <1>4. at \in Nat /\ d < e
    BY <1>1, <1>2, <1>3 DEF Midnight
  <1> QED
    BY <1>2, <1>3, <1>4 DEF Midnight

\* Within the week after t there is a day of the job.
LEMMA SomeDay ==
    ASSUME NEW D \in Nat, NEW w \in 0..6
    PROVE  \E d \in (D + 1)..(D + 7) : (FirstWeekday + d) % 7 = w
  <1>1. FirstWeekday \in 0..6
    BY ScheduleAssumption
  <1> DEFINE r == (FirstWeekday + D + 1) % 7
  <1>2. r \in 0..6
    BY <1>1
  <1>3. CASE r <= w
    <2>1. (FirstWeekday + (D + 1 + (w - r))) % 7 = w
      BY <1>1, <1>3
    <2>2. D + 1 + (w - r) \in (D + 1)..(D + 7)
      BY <1>2, <1>3
    <2> QED
      BY <2>1, <2>2
  <1>4. CASE r > w
    <2>1. (FirstWeekday + (D + 8 + w - r)) % 7 = w
      BY <1>1, <1>4
    <2>2. D + 8 + w - r \in (D + 1)..(D + 7)
      BY <1>2, <1>4
    <2> QED
      BY <2>1, <2>2
  <1> QED
    BY <1>2, <1>3, <1>4

\* next_run is the first time after t that the job is due.
LEMMA NextDueIs ==
    ASSUME NEW j \in Jobs, NEW t \in Nat
    PROVE  /\ NextDue(j, t) \in Nat /\ NextDue(j, t) > t /\ IsDue(j, NextDue(j, t))
           /\ \A x : IsDue(j, x) /\ x > t => x >= NextDue(j, t)
  <1> DEFINE at == JobTable[j].at
             days == JobTable[j].days
             near == DayOf(t)..(DayOf(t) + 7)
             S == {x \in {d * Midnight + at : d \in near} : x > t /\ Weekday(x) \in days}
  <1>1. at \in 0..(Midnight - 1) /\ days \subseteq 0..6 /\ days # {}
    BY JobsAreSound DEF RowIsSound
  <1>2. DayOf(t) \in Nat /\ DayOf(t) * Midnight <= t /\ t < (DayOf(t) + 1) * Midnight
    BY DayOfTime
  <1> HIDE DEF at, days
  <1>3. S # {}
    <2>1. PICK w \in days : TRUE
      BY <1>1
    <2>2. PICK d \in (DayOf(t) + 1)..(DayOf(t) + 7) : (FirstWeekday + d) % 7 = w
      BY <1>1, <1>2, SomeDay
    <2>3. d \in Nat /\ d \in near
      BY <1>2, <2>2
    <2>4. Weekday(d * Midnight + at) = w
      BY <1>1, <2>2, <2>3, DayOfDue DEF Weekday
    <2>5. d * Midnight + at > t
      BY <1>1, <1>2, <2>2 DEF Midnight
    <2> QED
      BY <2>1, <2>3, <2>4, <2>5
  <1>4. S \in SUBSET Nat
    BY <1>1, <1>2 DEF Midnight
  <1>5. PICK x \in S : \A y \in S : x <= y
    BY <1>3, <1>4, LeastNatural
  <1>6. Min(S) = x
    <2>1. S \subseteq Int
      BY <1>4
    <2> HIDE DEF S
    <2> QED
      BY <1>5, <2>1, MinIs
  <1>7. NextDue(j, t) = x
    BY <1>6 DEF NextDue, at, days
  <1>8. IsDue(j, x) /\ x > t /\ x \in Nat
    BY <1>2, <1>4, <1>5 DEF IsDue, at, days
  <1>9. ASSUME NEW y, IsDue(j, y), y > t
        PROVE  y >= x
    <2>1. PICK e \in Nat : y = e * Midnight + at /\ Weekday(y) \in days
      BY <1>9 DEF IsDue, at, days
    <2>2. CASE e \in near
      BY <1>5, <1>9, <2>1, <2>2, <1>8
    <2>3. CASE e < DayOf(t)
      BY <1>1, <1>2, <1>9, <2>1, <2>3 DEF Midnight
    <2>4. CASE e > DayOf(t) + 7
      <3>1. PICK d \in near : x = d * Midnight + at
        BY <1>5
      <3> QED
        BY <1>1, <1>2, <2>1, <2>4, <3>1 DEF Midnight
    <2> QED
      BY <1>2, <2>1, <2>2, <2>3, <2>4
  <1> QED
    BY <1>7, <1>8, <1>9

LEMMA GreatestOfFinite ==
    ASSUME NEW S \in SUBSET Nat, IsFiniteSet(S), S # {}
    PROVE  Max(S) \in S /\ \A x \in S : Max(S) >= x
  <1> DEFINE P == {T \in SUBSET S : T = {} \/ \E m \in T : \A x \in T : m >= x}
  <1>1. {} \in P
    OBVIOUS
  <1>2. ASSUME NEW T \in SUBSET S, T # {}, \A x \in T : T \ {x} \in P
        PROVE  T \in P
    <2>1. PICK a \in T : T \ {a} \in P
      BY <1>2
    <2>2. CASE T \ {a} = {}
      <3>1. \A x \in T : x = a /\ a >= x
        BY <2>2
      <3> QED
        BY <3>1
    <2>3. CASE \E m \in T \ {a} : \A x \in T \ {a} : m >= x
      <3>1. PICK m \in T \ {a} : \A x \in T \ {a} : m >= x
        BY <2>3
      <3>2. CASE m >= a
        BY <3>1, <3>2
      <3>3. CASE a > m
        <4>1. \A x \in T : a >= x
          BY <3>1, <3>3
        <4> QED
          BY <4>1
      <3> QED
        BY <3>2, <3>3
    <2> QED
      BY <2>1, <2>2, <2>3
  <1> HIDE DEF P
  <1>3. \A T \in SUBSET S : T \in P
    BY <1>1, <1>2, SubsetSteps
  <1>4. PICK m \in S : \A x \in S : m >= x
    BY <1>3 DEF P
  <1>5. S \subseteq Int
    OBVIOUS
  <1>6. Max(S) = m
    BY <1>4, <1>5, MaxIs
  <1> QED
    BY <1>4, <1>6

LEMMA LongestIs ==
    ASSUME IsFiniteSet(Durations)
    PROVE  Max(Durations) \in Nat /\ \A m \in Durations : m <= Max(Durations)
  <1>1. Durations \in SUBSET Nat /\ Durations # {}
    BY ScheduleAssumption
  <1> QED
    BY <1>1, GreatestOfFinite

LEMMA SomeJobs ==
    ASSUME NEW last, NEW b
    PROVE  /\ IsFiniteSet({j \in Jobs : last[j] >= b})
           /\ Cardinality({j \in Jobs : last[j] >= b}) \in Nat
           /\ Cardinality({j \in Jobs : last[j] >= b}) <= Cardinality(Jobs)
           /\ Cardinality(Jobs) \in Nat
  <1>1. {j \in Jobs : last[j] >= b} \in SUBSET Jobs
    OBVIOUS
  <1> QED
    BY <1>1, JobsAreFinite, FS_Subset, FS_CardinalityType

\* When nothing is due the count starts anew.
LEMMA NothingDue ==
    ASSUME NEW time \in Nat \ {0}, NEW next, NEW last, NEW n \in Nat,
           \A j \in Jobs : next[j] >= time, IsFiniteSet(Durations)
    PROVE  BusySince(time, time, next, last, n)
  <1>1. Cardinality({j \in Jobs : last[j] >= time}) \in Nat
    BY SomeJobs
  <1>2. n * Max(Durations) \in Nat
    BY LongestIs
  <1> QED
    BY <1>1, <1>2 DEF BusySince

LEMMA ScheduleStart ==
    ASSUME ScheduleInit, LateByLessThanADay
    PROVE  ScheduleInv
  <1>1. now = 300 /\ bootedAt = 300 /\ troubles = 0 /\ batch = {} /\ alive
        /\ due = [j \in Jobs |-> NextDue(j, now)] /\ done = [j \in Jobs |-> 0]
    BY DEF ScheduleInit, Minutes
  <1>2. \A j \in Jobs : /\ due[j] \in Nat /\ due[j] > 300 /\ IsDue(j, due[j])
                        /\ \A x : IsDue(j, x) /\ x > 300 => x >= due[j]
    BY <1>1, NextDueIs
  <1>3. \A j \in Jobs, t \in Nat : IsDue(j, t) /\ t < due[j] => bootedAt >= t
    BY <1>1, <1>2
  <1>4. 0 \in 0..MaxTroubles
    BY ScheduleAssumption
  <1>5. lastRun.job = "none" /\ lastRun.due = 0
    BY DEF ScheduleInit
  <1>6. DueInv
    <2>1. due \in [Jobs -> Nat] /\ done \in [Jobs -> Nat]
      BY <1>1, <1>2
    <2>2. \A j \in Jobs : done[j] = 0 /\ done[j] <= now /\ done[j] < due[j]
      BY <1>1, <1>2
    <2> QED
      BY <1>1, <1>2, <1>3, <1>4, <1>5, <2>1, <2>2 DEF DueInv
  <1>7. WhatItNeedsIsDone
    BY <1>5, NeedsAre, JobsAreFinite DEF WhatItNeedsIsDone
  <1>8. BusySince(now, now, due, done, troubles)
    <2>1. now \in Nat \ {0} /\ troubles \in Nat /\ \A j \in Jobs : due[j] >= now
      BY <1>1, <1>2
    <2> QED
      BY <2>1, NothingDue DEF LateByLessThanADay
  <1> QED
    BY <1>6, <1>7, <1>8 DEF ScheduleInv

LEMMA Products ==
    ASSUME NEW n \in Nat, NEW k \in Nat, NEW m \in Nat, n <= k
    PROVE  /\ n * m \in Nat /\ k * m \in Nat /\ n * m <= k * m
           /\ (n + 1) * m = n * m + m
  <1>1. (n + 1) * m = n * m + m /\ n * m \in Nat /\ k * m \in Nat
    OBVIOUS
  <1>2. PICK d \in Nat : k = n + d
    <2>1. k - n \in Nat /\ k = n + (k - n)
      OBVIOUS
    <2> QED
      BY <2>1
  <1>3. (n + d) * m = n * m + d * m /\ d * m \in Nat
    OBVIOUS
  <1> QED
    BY <1>1, <1>2, <1>3

\* What is due is late by less than a day.
LEMMA LateByLess ==
    ASSUME NEW b, NEW time \in Nat, NEW next, NEW last, NEW n \in 0..MaxTroubles,
           BusySince(b, time, next, last, n), LateByLessThanADay
    PROVE  b \in Nat /\ time < b + Midnight /\ \A j \in Jobs : next[j] >= b
  <1> DEFINE c == Cardinality({j \in Jobs : last[j] >= b})
             p == n * Max(Durations)
             q == MaxTroubles * Max(Durations)
             a == Cardinality(Jobs)
  <1>1. c \in Nat /\ c <= a /\ a \in Nat
    BY SomeJobs
  <1>2. MaxTroubles \in Nat /\ Max(Durations) \in Nat
    BY LongestIs DEF LateByLessThanADay
  <1>3. p \in Nat /\ q \in Nat /\ p <= q
    BY <1>2, Products
  <1>4. b \in Nat /\ time - b <= c + p /\ \A j \in Jobs : next[j] >= b
    BY DEF BusySince
  <1>5. a + q < Midnight /\ Midnight \in Nat
    BY DEF LateByLessThanADay, Midnight
  <1> HIDE DEF c, p, q, a
  <1> QED
    BY <1>1, <1>3, <1>4, <1>5

\* A run adds its job to those that have run since b, or a trouble.
LEMMA BusyRun ==
    ASSUME ScheduleInv, LateByLessThanADay, NEW j \in Jobs, NEW minutes \in Durations,
           NEW raises \in BOOLEAN, RunJob(j, minutes, raises)
    PROVE  \E b : /\ BusySince(b, now, due, done, troubles)
                  /\ BusySince(b, now', due', done', troubles')
  <1>1. /\ now \in Nat /\ due \in [Jobs -> Nat] /\ done \in [Jobs -> Nat]
        /\ troubles \in 0..MaxTroubles /\ j \in batch /\ due[j] <= now
        /\ now' = now + minutes
        /\ due' = [due EXCEPT ![j] = NextDue(j, now')]
        /\ done' = [done EXCEPT ![j] = due[j]]
        /\ troubles' = IF minutes > 1 \/ raises THEN troubles + 1 ELSE troubles
    BY DEF ScheduleInv, DueInv, RunJob, Reschedule
  <1>2. minutes \in Nat \ {0} /\ minutes <= Max(Durations) /\ Max(Durations) \in Nat
    BY LongestIs, ScheduleAssumption DEF LateByLessThanADay
  <1>3. PICK b : BusySince(b, now, due, done, troubles)
    BY DEF ScheduleInv
  <1>4. b \in Nat /\ now < b + Midnight /\ \A i \in Jobs : due[i] >= b
    BY <1>1, <1>3, LateByLess
  <1>5. ~(done[j] >= b)
    <2> SUFFICES ASSUME done[j] >= b PROVE FALSE
      OBVIOUS
    <2>1. done[j] # 0 /\ done[j] < due[j]
      BY <1>1, <1>3 DEF BusySince, ScheduleInv, DueInv
    <2>2. IsDue(j, done[j]) /\ IsDue(j, due[j])
      BY <2>1 DEF ScheduleInv, DueInv
    <2>3. done[j] + Midnight <= due[j]
      BY <2>1, <2>2, DueADayApart
    <2> QED
      BY <1>1, <1>4, <2>3 DEF Midnight
  <1> DEFINE Ran(last) == {i \in Jobs : last[i] >= b}
  <1>6. Ran(done') = Ran(done) \union {j} /\ j \notin Ran(done)
    BY <1>1, <1>4, <1>5
  <1>7. Cardinality(Ran(done')) = Cardinality(Ran(done)) + 1 /\ Cardinality(Ran(done)) \in Nat
    <2>1. IsFiniteSet(Ran(done)) /\ Cardinality(Ran(done)) \in Nat
      BY SomeJobs
    <2> HIDE DEF Ran
    <2> QED
      BY <1>6, <2>1, FS_AddElement
  <1>8. now - b <= Cardinality(Ran(done)) + troubles * Max(Durations)
    BY <1>3 DEF BusySince
  <1>9. now' - b <= Cardinality(Ran(done')) + troubles' * Max(Durations)
    <2>1. /\ troubles * Max(Durations) \in Nat
          /\ (troubles + 1) * Max(Durations) = troubles * Max(Durations) + Max(Durations)
      BY <1>1, <1>2, Products
    <2> DEFINE c == Cardinality(Ran(done))
               d == Cardinality(Ran(done'))
               m == Max(Durations)
               p == troubles * m
    <2>2. c \in Nat /\ d = c + 1 /\ now - b <= c + p /\ p \in Nat /\ m \in Nat
          /\ (troubles + 1) * m = p + m
      BY <1>2, <1>7, <1>8, <2>1
    <2>3. CASE minutes > 1 \/ raises
      <3> DEFINE e == troubles' * m
      <3>1. e = p + m
        BY <1>1, <2>2, <2>3
      <3> HIDE DEF c, d, m, p
      <3>2. now + minutes - b <= d + (p + m) /\ p \in Nat /\ m \in Nat
        BY <1>1, <1>2, <1>4, <2>2 DEF m
      <3>3. now' = now + minutes
        BY <1>1
      <3>4. d \in Nat /\ now \in Nat /\ minutes \in Nat /\ b \in Nat
        BY <1>1, <1>2, <1>4, <2>2
      <3> HIDE DEF e
      <3>5. now' - b <= d + e
        BY <3>1, <3>2, <3>3, <3>4
      <3> QED
        BY <3>5 DEF d, e, m
    <2>4. CASE ~(minutes > 1 \/ raises)
      <3> DEFINE e == troubles' * m
      <3>1. e = p /\ minutes = 1
        BY <1>1, <1>2, <2>4
      <3> HIDE DEF c, d, m, p
      <3>2. now + 1 - b <= d + p /\ p \in Nat
        BY <1>1, <1>4, <2>2
      <3>3. now' = now + 1
        BY <1>1, <3>1
      <3>4. d \in Nat /\ now \in Nat /\ minutes \in Nat /\ b \in Nat
        BY <1>1, <1>2, <1>4, <2>2
      <3> HIDE DEF e
      <3>5. now' - b <= d + e
        BY <3>1, <3>2, <3>3, <3>4
      <3> QED
        BY <3>5 DEF d, e, m
    <2> QED
      BY <2>3, <2>4
  <1>10. \A i \in Jobs : due'[i] >= b
    <2>1. NextDue(j, now') > now' /\ NextDue(j, now') \in Nat
      BY <1>1, <1>2, NextDueIs
    <2>2. NextDue(j, now') >= b
      BY <1>1, <1>2, <1>4, <2>1, <1>3 DEF BusySince
    <2> QED
      BY <1>1, <1>4, <2>2
  <1>11. b \in Nat \ {0} /\ b <= now'
    BY <1>1, <1>2, <1>3 DEF BusySince
  <1> QED
    BY <1>3, <1>9, <1>10, <1>11 DEF BusySince

\* A run moves its job to its next time, and what it needs has run.
LEMMA RunJobStep ==
    ASSUME ScheduleInv, LateByLessThanADay, NEW j \in Jobs, NEW minutes \in Durations,
           NEW raises \in BOOLEAN, RunJob(j, minutes, raises)
    PROVE  ScheduleInv'
  <1>1. /\ now \in Nat /\ due \in [Jobs -> Nat] /\ done \in [Jobs -> Nat]
        /\ bootedAt \in Nat /\ bootedAt <= now /\ batch \in SUBSET Jobs
        /\ j \in batch /\ \A i \in batch : due[j] <= due[i] /\ due[i] <= now
        /\ now' = now + minutes
        /\ due' = [due EXCEPT ![j] = NextDue(j, now')]
        /\ done' = [done EXCEPT ![j] = due[j]]
        /\ batch' = batch \ {j} /\ bootedAt' = bootedAt /\ alive /\ alive' = alive
        /\ lastRun' = [job |-> j, due |-> due[j], start |-> now]
    BY DEF ScheduleInv, DueInv, RunJob, Reschedule
  <1>2. minutes \in Nat /\ now' \in Nat /\ now <= now'
    BY <1>1, ScheduleAssumption
  <1>3. troubles' \in 0..MaxTroubles
    <2>1. /\ troubles' = troubles + 1 \/ troubles' = troubles
          /\ troubles' <= MaxTroubles /\ troubles \in 0..MaxTroubles
      BY DEF RunJob, ScheduleInv, DueInv
    <2>2. MaxTroubles \in Nat
      BY ScheduleAssumption
    <2> QED
      BY <2>1, <2>2
  <1>4. PICK b : /\ BusySince(b, now, due, done, troubles)
                 /\ BusySince(b, now', due', done', troubles')
    BY BusyRun
  <1>5. b \in Nat /\ now' < b + Midnight /\ \A i \in Jobs : due[i] >= b
    BY <1>2, <1>3, <1>4, LateByLess DEF BusySince
  <1> DEFINE next == NextDue(j, now')
  <1>6. /\ next \in Nat /\ next > now' /\ IsDue(j, next)
        /\ \A x : IsDue(j, x) /\ x > now' => x >= next
    BY <1>2, NextDueIs
  <1>7. due' = [due EXCEPT ![j] = next]
    BY <1>1
  <1> HIDE DEF next
  <1>8. IsDue(j, due[j]) /\ due[j] \in Nat /\ due[j] <= now
    BY <1>1 DEF ScheduleInv, DueInv
  \* Between its due time and the end of the run there is no other time of the job.
  <1>9. ASSUME NEW t \in Nat, IsDue(j, t), t < next
        PROVE  done'[j] >= t
    <2>1. t <= now'
      BY <1>2, <1>6, <1>9
    <2>2. ~(due[j] < t)
      <3> SUFFICES ASSUME due[j] < t PROVE FALSE
        OBVIOUS
      <3>1. due[j] + Midnight <= t
        BY <1>8, <1>9, DueADayApart
      <3>2. due[j] >= b
        BY <1>1, <1>5
      <3> QED
        BY <1>2, <1>5, <1>8, <2>1, <3>1, <3>2 DEF Midnight
    <2>3. done'[j] = due[j]
      BY <1>1
    <2> QED
      BY <1>8, <2>2, <2>3
  <1>10. ASSUME NEW i \in Jobs
         PROVE  /\ IsDue(i, due'[i])
                /\ done'[i] <= now' /\ done'[i] < due'[i]
                /\ done'[i] = 0 \/ IsDue(i, done'[i])
                /\ \A t \in Nat : IsDue(i, t) /\ t < due'[i] => done'[i] >= t \/ bootedAt' >= t
    <2>1. CASE i = j
      <3>1. due'[i] = next /\ done'[i] = due[j]
        BY <1>1, <1>7, <2>1
      <3> QED
        BY <1>2, <1>1, <1>6, <1>8, <1>9, <2>1, <3>1
    <2>2. CASE i # j
      <3>1. due'[i] = due[i] /\ done'[i] = done[i]
        BY <1>1, <1>7, <2>2
      <3>2. /\ IsDue(i, due[i]) /\ done[i] <= now /\ done[i] < due[i]
            /\ done[i] = 0 \/ IsDue(i, done[i])
            /\ \A t \in Nat : IsDue(i, t) /\ t < due[i] => done[i] >= t \/ bootedAt >= t
        BY DEF ScheduleInv, DueInv
      <3>3. done[i] <= now'
        BY <1>1, <1>2, <3>2
      <3> QED
        BY <1>1, <3>1, <3>2, <3>3
    <2> QED
      BY <2>1, <2>2
  <1>11. ASSUME NEW i \in batch'
         PROVE  due'[i] <= now' /\ \A k \in Jobs \ batch' : due'[i] < due'[k]
    <2>1. i \in batch /\ i # j /\ due'[i] = due[i] /\ due[i] <= now /\ due[i] \in Nat
      BY <1>1, <1>7, <1>11
    <2>2. \A k \in Jobs \ batch : due[i] < due[k] /\ due'[k] = due[k]
      BY <1>1, <1>7, <2>1 DEF ScheduleInv, DueInv
    <2>3. due[i] < due'[j]
      BY <1>1, <1>2, <1>6, <1>7, <2>1
    <2> QED
      BY <1>1, <1>2, <2>1, <2>2, <2>3
  <1>12. due' \in [Jobs -> Nat] /\ done' \in [Jobs -> Nat] /\ batch' \in SUBSET Jobs
         /\ bootedAt' \in Nat /\ bootedAt' <= now'
    BY <1>1, <1>2, <1>6, <1>7, <1>8
  <1>a. lastRun'.due \in Nat
    BY <1>1, <1>8
  <1>13. DueInv'
    BY <1>a, <1>1, <1>2, <1>3, <1>10, <1>11, <1>12 DEF DueInv
  <1>14. WhatItNeedsIsDone'
    <2> SUFFICES ASSUME NEW n \in Needs, lastRun'.job = n[2]
                 PROVE  LET t == DayOf(lastRun'.due) * Midnight + JobTable[n[1]].at
                        IN done'[n[1]] >= t \/ bootedAt' >= t
      BY DEF WhatItNeedsIsDone
    <2> DEFINE first == n[1]
               at == JobTable[first].at
               late == JobTable[j].at
               t == DayOf(due[j]) * Midnight + at
    <2>1. /\ first \in Jobs /\ n[2] = j /\ lastRun'.due = due[j]
          /\ JobTable[first].days = 0..6 /\ at < late
      BY <1>1, NeedsAre
    <2>2. at \in 0..(Midnight - 1) /\ late \in 0..(Midnight - 1)
      BY <1>1, <2>1, JobsAreSound DEF RowIsSound
    <2>3. PICK d \in Nat : due[j] = d * Midnight + late
      BY <1>8 DEF IsDue
    <2>a. first # j
      BY <2>1, <2>2
    <2>4. DayOf(due[j]) = d
      BY <2>2, <2>3, DayOfDue
    <2> HIDE DEF at, late
    <2>5. t = d * Midnight + at /\ t \in Nat /\ t < due[j]
      <3>1. t = d * Midnight + at
        BY <2>4
      <3>2. at \in Nat /\ late \in Nat /\ at < late
        <4>1. \A x \in 0..(Midnight - 1) : x \in Nat
          BY DEF Midnight
        <4> QED
          BY <2>1, <2>2, <4>1
      <3> HIDE DEF t
      <3> QED
        BY <2>3, <3>1, <3>2 DEF Midnight
    <2>6. IsDue(first, t)
      <3>1. Weekday(t) \in 0..6
        BY <2>2, <2>5, DayOfDue, ScheduleAssumption DEF Weekday
      <3> QED
        BY <2>1, <2>5, <3>1 DEF IsDue, at
    <2> HIDE DEF t
    <2>7. t < due[first]
      <3>2. CASE first \in batch
        BY <1>1, <1>8, <2>1, <2>5, <3>2
      <3>3. CASE first \notin batch
        <4>1. due[j] < due[first]
          BY <1>1, <2>1, <3>3 DEF ScheduleInv, DueInv
        <4> QED
          BY <1>1, <1>8, <2>1, <2>5, <4>1
      <3> QED
        BY <3>2, <3>3
    <2>8. done[first] >= t \/ bootedAt >= t
      BY <2>1, <2>5, <2>6, <2>7 DEF ScheduleInv, DueInv
    <2>9. done'[first] = done[first]
      BY <1>1, <2>1, <2>a
    <2> QED
      BY <1>1, <2>1, <2>8, <2>9 DEF t, at
  <1> QED
    BY <1>4, <1>13, <1>14 DEF ScheduleInv

\* What the sleep waits for.
LEMMA EarliestDue ==
    ASSUME due \in [Jobs -> Nat]
    PROVE  LET m == Min({due[i] : i \in Jobs})
           IN  m \in Nat /\ (\E i \in Jobs : due[i] = m) /\ \A i \in Jobs : due[i] >= m
  <1> DEFINE S == {due[i] : i \in Jobs}
  <1>1. S \in SUBSET Nat /\ S # {} /\ S \subseteq Int
    BY JobsAreFinite
  <1>2. PICK m \in S : \A y \in S : m <= y
    BY <1>1, LeastNatural
  <1>3. Min(S) = m
    <2> HIDE DEF S
    <2> QED
      BY <1>1, <1>2, MinIs
  <1> QED
    BY <1>1, <1>2, <1>3

LEMMA ScheduleStep ==
    ASSUME ScheduleInv, LateByLessThanADay, ScheduleNext \/ UNCHANGED scheduleVars
    PROVE  ScheduleInv'
  <1>0. DueInv /\ WhatItNeedsIsDone
    BY DEF ScheduleInv
  <1>1. CASE RunPending
    <2>1. /\ UNCHANGED <<now, due, bootedAt, lastRun, done, troubles, alive>> /\ alive
          /\ batch' = {j \in Jobs : due[j] <= now}
      BY <1>1 DEF RunPending
    <2>2. \A i \in batch' : due[i] <= now /\ \A j \in Jobs \ batch' : due[i] < due[j]
      BY <1>0, <2>1 DEF DueInv
    <2>3. DueInv'
      BY <1>0, <2>1, <2>2 DEF DueInv
    <2> QED
      BY <2>1, <2>3 DEF ScheduleInv, WhatItNeedsIsDone
  <1>2. CASE Sleep
    <2>1. /\ UNCHANGED <<due, bootedAt, lastRun, done, batch, troubles, alive>>
          /\ batch = {} /\ \A j \in Jobs : due[j] > now
          /\ now' = Min({due[j] : j \in Jobs})
      BY <1>2 DEF Sleep
    <2>2. now' \in Nat /\ (\E i \in Jobs : due[i] = now') /\ \A i \in Jobs : due[i] >= now'
      BY <1>0, <2>1, EarliestDue DEF DueInv
    <2>3. now' > now /\ now \in Nat
      BY <1>0, <2>1, <2>2 DEF DueInv
    <2>4. \A j \in Jobs : done[j] <= now'
      BY <1>0, <2>2, <2>3 DEF DueInv
    <2>5. bootedAt' \in Nat /\ bootedAt' <= now'
      BY <1>0, <2>1, <2>2, <2>3 DEF DueInv
    <2>6. DueInv'
      BY <1>0, <2>1, <2>2, <2>4, <2>5 DEF DueInv
    <2>7. BusySince(now', now', due', done', troubles')
      <3>1. troubles' \in Nat /\ now' \in Nat \ {0} /\ \A i \in Jobs : due'[i] >= now'
        BY <1>0, <2>1, <2>2, <2>3, ScheduleAssumption DEF DueInv
      <3> QED
        BY <3>1, NothingDue DEF LateByLessThanADay
    <2> QED
      BY <1>0, <2>1, <2>6, <2>7 DEF ScheduleInv, WhatItNeedsIsDone
  <1>3. CASE Dies
    <2>1. /\ UNCHANGED <<now, due, bootedAt, lastRun, done>>
          /\ batch' = {} /\ troubles' = troubles + 1 /\ troubles < MaxTroubles
      BY <1>3 DEF Dies
    <2>2. troubles' \in 0..MaxTroubles /\ troubles \in Nat /\ MaxTroubles \in Nat
      BY <1>0, <2>1, ScheduleAssumption DEF DueInv
    <2>3. DueInv'
      BY <1>0, <2>1, <2>2 DEF DueInv
    <2>4. PICK b : BusySince(b, now, due, done, troubles)
      BY DEF ScheduleInv
    <2>5. troubles * Max(Durations) \in Nat /\ Max(Durations) \in Nat
          /\ (troubles + 1) * Max(Durations) = troubles * Max(Durations) + Max(Durations)
      BY <2>1, <2>2, LongestIs, Products DEF LateByLessThanADay
    <2>6. BusySince(b, now', due', done', troubles')
      <3> DEFINE p == troubles * Max(Durations)
                 q == (troubles + 1) * Max(Durations)
                 c == Cardinality({j \in Jobs : done[j] >= b})
      <3>1. now - b <= c + p /\ b \in Nat /\ now \in Nat
        BY <1>0, <2>4 DEF BusySince, DueInv
      <3>2. c \in Nat /\ p \in Nat /\ q \in Nat /\ p <= q
        <4>1. c \in Nat
          BY SomeJobs
        <4>2. p \in Nat /\ Max(Durations) \in Nat /\ q = p + Max(Durations)
          BY <2>5
        <4> HIDE DEF c, p, q
        <4> QED
          BY <4>1, <4>2
      <3> HIDE DEF c, p, q
      <3>3. now - b <= c + q
        BY <3>1, <3>2
      <3> QED
        BY <2>1, <2>4, <3>3 DEF BusySince, c, q
    <2> QED
      BY <1>0, <2>1, <2>3, <2>6 DEF ScheduleInv, WhatItNeedsIsDone
  <1>4. ASSUME NEW minutes \in Durations, Boots(minutes)
        PROVE  ScheduleInv'
    <2>1. /\ now' = now + minutes /\ bootedAt' = now'
          /\ due' = [j \in Jobs |-> NextDue(j, now')]
          /\ UNCHANGED <<lastRun, done, batch, troubles>> /\ ~alive
      BY <1>4 DEF Boots
    <2>2. now' \in Nat \ {0} /\ now <= now' /\ batch' = {} /\ alive'
      BY <1>0, <1>4, <2>1, ScheduleAssumption DEF DueInv, Boots
    <2>3. \A j \in Jobs : /\ due'[j] \in Nat /\ due'[j] > now' /\ IsDue(j, due'[j])
                          /\ \A x : IsDue(j, x) /\ x > now' => x >= due'[j]
      BY <2>1, <2>2, NextDueIs
    <2>4. ASSUME NEW j \in Jobs
          PROVE  /\ done'[j] <= now' /\ done'[j] < due'[j]
                 /\ done'[j] = 0 \/ IsDue(j, done'[j])
                 /\ \A t \in Nat : IsDue(j, t) /\ t < due'[j] => bootedAt' >= t
      <3>1. done'[j] = done[j] /\ done[j] <= now /\ done[j] \in Nat /\ now \in Nat
            /\ (done[j] = 0 \/ IsDue(j, done[j]))
        BY <1>0, <2>1 DEF DueInv
      <3>2. done'[j] <= now' /\ done'[j] < due'[j]
        BY <2>2, <2>3, <3>1
      <3>3. \A t \in Nat : IsDue(j, t) /\ t < due'[j] => bootedAt' >= t
        BY <2>1, <2>2, <2>3
      <3> QED
        BY <3>1, <3>2, <3>3
    <2>5. due' \in [Jobs -> Nat] /\ done' \in [Jobs -> Nat] /\ bootedAt' \in Nat
          /\ bootedAt' <= now' /\ troubles' \in 0..MaxTroubles /\ lastRun'.due \in Nat
      BY <1>0, <2>1, <2>2, <2>3 DEF DueInv
    <2>6. DueInv'
      BY <2>2, <2>3, <2>4, <2>5 DEF DueInv
    <2>7. BusySince(now', now', due', done', troubles')
      <3>1. troubles' \in Nat /\ \A i \in Jobs : due'[i] >= now'
        BY <2>2, <2>3, <2>5, ScheduleAssumption
      <3> QED
        BY <2>2, <3>1, NothingDue DEF LateByLessThanADay
    <2>8. WhatItNeedsIsDone'
      <3>1. bootedAt' >= bootedAt /\ bootedAt \in Nat /\ done' = done /\ lastRun' = lastRun
        BY <1>0, <2>1, <2>2, <2>5 DEF DueInv
      <3> SUFFICES ASSUME NEW n \in Needs, lastRun'.job = n[2]
                   PROVE  LET t == DayOf(lastRun'.due) * Midnight + JobTable[n[1]].at
                          IN done'[n[1]] >= t \/ bootedAt' >= t
        BY DEF WhatItNeedsIsDone
      <3> DEFINE t == DayOf(lastRun.due) * Midnight + JobTable[n[1]].at
      <3>2. t \in Int
        <4>1. JobTable[n[1]].at \in Int
          <5>1. n[1] \in Jobs
            BY NeedsAre
          <5>2. JobTable[n[1]].at \in 0..(Midnight - 1)
            BY <5>1, JobsAreSound DEF RowIsSound
          <5> QED
            BY <5>2
        <4>2. DayOf(lastRun.due) \in Int
          BY <1>0, DayOfTime DEF DueInv
        <4> QED
          BY <4>1, <4>2 DEF Midnight
      <3>3. done[n[1]] >= t \/ bootedAt >= t
        BY <1>0, <3>1 DEF WhatItNeedsIsDone
      <3> HIDE DEF t
      <3>4. done'[n[1]] >= t \/ bootedAt' >= t
        BY <2>5, <3>1, <3>2, <3>3
      <3> QED
        BY <3>1, <3>4 DEF t
    <2> QED
      BY <2>6, <2>7, <2>8 DEF ScheduleInv
  <1>5. ASSUME NEW j \in Jobs, NEW minutes \in Durations, NEW raises \in BOOLEAN,
               RunJob(j, minutes, raises)
        PROVE  ScheduleInv'
    BY <1>5, RunJobStep
  <1>6. CASE UNCHANGED scheduleVars
    BY <1>0, <1>6 DEF scheduleVars, ScheduleInv, DueInv, WhatItNeedsIsDone
  <1> QED
    BY <1>1, <1>2, <1>3, <1>4, <1>5, <1>6 DEF ScheduleNext

LEMMA ScheduleKeeps ==
    ASSUME ScheduleInv, LateByLessThanADay
    PROVE  WhatItNeedsIsDone /\ LateNeverDropped
  <1>1. ASSUME NEW j \in Jobs, NEW d \in 0..LastDay
        PROVE  LET t == d * Midnight + JobTable[j].at
               IN Weekday(t) \in JobTable[j].days /\ bootedAt < t /\ t < now /\ alive
                    => done[j] >= t \/ due[j] = t
    <2> DEFINE t == d * Midnight + JobTable[j].at
    <2> SUFFICES ASSUME Weekday(t) \in JobTable[j].days, bootedAt < t, t < now
                 PROVE  done[j] >= t \/ due[j] = t
      OBVIOUS
    <2>1. d \in Nat /\ JobTable[j].at \in 0..(Midnight - 1)
      BY JobsAreSound, ScheduleAssumption DEF RowIsSound
    <2>2. t \in Nat
      <3> DEFINE at == JobTable[j].at
      <3>1. at \in Nat
        <4>1. \A x \in 0..(Midnight - 1) : x \in Nat
          BY DEF Midnight
        <4> QED
          BY <2>1, <4>1
      <3>2. d * Midnight \in Nat
        BY DEF Midnight
      <3> HIDE DEF at
      <3> QED
        BY <3>1, <3>2 DEF at
    <2>3. IsDue(j, t) /\ IsDue(j, due[j])
      BY <2>1 DEF IsDue, ScheduleInv, DueInv
    <2> HIDE DEF t
    <2>4. PICK b : BusySince(b, now, due, done, troubles)
      BY DEF ScheduleInv
    <2>5. b \in Nat /\ now < b + Midnight /\ due[j] >= b /\ now \in Nat /\ due[j] \in Nat
          /\ bootedAt \in Nat
      BY <2>4, LateByLess DEF ScheduleInv, DueInv
    <2>6. CASE t < due[j]
      <3>1. done[j] >= t \/ bootedAt >= t
        BY <2>2, <2>3, <2>6 DEF ScheduleInv, DueInv
      <3> QED
        BY <2>2, <2>5, <3>1
    <2>7. CASE due[j] < t
      <3>1. due[j] + Midnight <= t
        BY <2>3, <2>7, DueADayApart
      <3> QED
        BY <2>2, <2>5, <3>1 DEF Midnight
    <2> QED
      BY <2>2, <2>5, <2>6, <2>7
  <1> QED
    BY <1>1 DEF ScheduleInv, LateNeverDropped

\* The reports: the newest of the history are the newest there were.
Reports == [job : Jobs \union {"intraday_poll"}, ok : BOOLEAN]

ReportsInv ==
    /\ history \in Seq(Reports) /\ recent \in Seq(Reports)
    /\ recent = NewestReports(history, LastN)

LEMMA NewestAre ==
    ASSUME NEW R, NEW h \in Seq(R), NEW n \in Nat
    PROVE  /\ NewestReports(h, n) \in Seq(R)
           /\ Len(NewestReports(h, n)) = IF Len(h) <= n THEN Len(h) ELSE n
           /\ \A i \in 1..Len(NewestReports(h, n)) :
                NewestReports(h, n)[i] = h[Len(h) - Len(NewestReports(h, n)) + i]
  <1> DEFINE a == IF Len(h) <= n THEN 1 ELSE Len(h) - n + 1
             r == SubSeq(h, a, Len(h))
  <1>1. Len(h) \in Nat
    OBVIOUS
  <1>2. Max({1, Len(h) - n + 1}) = a
    BY <1>1, MaxOfTwo
  <1>3. NewestReports(h, n) = r
    BY <1>2 DEF NewestReports
  <1>4. a \in 1..(Len(h) + 1)
    BY <1>1
  <1>5. r \in Seq(R)
    BY <1>1, <1>4
  <1>6. Len(r) = Len(h) - a + 1 /\ \A i \in 1..Len(r) : r[i] = h[a + i - 1]
    <2> HIDE DEF a
    <2>1. Len(r) = IF a <= Len(h) THEN Len(h) - a + 1 ELSE 0
      BY <1>1, <1>4
    <2>2. \A i \in 1..(Len(h) - a + 1) : r[i] = h[a + i - 1]
      BY <1>1, <1>4
    <2> QED
      BY <1>1, <1>4, <2>1, <2>2
  <1>7. Len(r) = (IF Len(h) <= n THEN Len(h) ELSE n) /\ a = Len(h) - Len(r) + 1
    <2> HIDE DEF r
    <2> QED
      BY <1>1, <1>6
  <1> HIDE DEF a, r
  <1>8. ASSUME NEW i \in 1..Len(r)
        PROVE  r[i] = h[Len(h) - Len(r) + i]
    <2>1. a + i - 1 = Len(h) - Len(r) + i
      BY <1>1, <1>4, <1>5, <1>7
    <2> QED
      BY <1>6, <2>1
  <1> QED
    BY <1>3, <1>5, <1>7, <1>8

NewestOf(r, R, h, n) ==
    /\ r \in Seq(R) /\ Len(r) = IF Len(h) <= n THEN Len(h) ELSE n
    /\ \A i \in 1..Len(r) : r[i] = h[Len(h) - Len(r) + i]

LEMMA NewestIs ==
    ASSUME NEW R, NEW h \in Seq(R), NEW n \in Nat
    PROVE  NewestOf(NewestReports(h, n), R, h, n)
  BY NewestAre DEF NewestOf

LEMMA NothingIsNewest == NewestReports(<<>>, LastN) = <<>>
  <1>1. LastN \in Nat /\ Len(<<>>) = 0
    BY ScheduleAssumption
  <1>2. Max({1, Len(<<>>) - LastN + 1}) = 1
    BY <1>1, MaxOfTwo
  <1>3. SubSeq(<<>>, 1, 0) = <<>>
    OBVIOUS
  <1> QED
    BY <1>1, <1>2, <1>3 DEF NewestReports

\* The newest n of what ends in the same m are the same.
LEMMA SameNewest ==
    ASSUME NEW R, NEW h \in Seq(R), NEW g \in Seq(R), NEW n \in Nat,
           n <= Len(h) \/ Len(h) = Len(g), n <= Len(g) \/ Len(h) = Len(g),
           \A k \in 0..(n - 1) : k < Len(h) /\ k < Len(g) => h[Len(h) - k] = g[Len(g) - k]
    PROVE  NewestReports(h, n) = NewestReports(g, n)
  <1> DEFINE a == NewestReports(h, n)
             b == NewestReports(g, n)
  <1>1. /\ a \in Seq(R) /\ Len(a) = IF Len(h) <= n THEN Len(h) ELSE n
        /\ \A i \in 1..Len(a) : a[i] = h[Len(h) - Len(a) + i]
    BY NewestAre
  <1>2. /\ b \in Seq(R) /\ Len(b) = IF Len(g) <= n THEN Len(g) ELSE n
        /\ \A i \in 1..Len(b) : b[i] = g[Len(g) - Len(b) + i]
    BY NewestAre
  <1> HIDE DEF a, b
  <1>3. Len(h) \in Nat /\ Len(g) \in Nat
    OBVIOUS
  <1>4. Len(a) = Len(b) /\ Len(a) \in Nat /\ Len(a) <= n /\ Len(a) <= Len(h) /\ Len(a) <= Len(g)
    BY <1>1, <1>2, <1>3
  <1>5. ASSUME NEW i \in 1..Len(a)
        PROVE  a[i] = b[i]
    <2> DEFINE k == Len(a) - i
    <2>1. k \in 0..(n - 1) /\ k < Len(h) /\ k < Len(g)
      BY <1>3, <1>4
    <2>2. h[Len(h) - k] = g[Len(g) - k]
      BY <2>1
    <2>3. Len(h) - k = Len(h) - Len(a) + i /\ Len(g) - k = Len(g) - Len(b) + i
      BY <1>3, <1>4
    <2> QED
      BY <1>1, <1>2, <1>4, <2>2, <2>3
  <1>6. DOMAIN a = 1..Len(a) /\ DOMAIN b = 1..Len(b)
    BY <1>1, <1>2
  <1>7. a = [i \in DOMAIN a |-> a[i]] /\ b = [i \in DOMAIN b |-> b[i]]
    BY <1>1, <1>2
  <1> QED
    BY <1>4, <1>5, <1>6, <1>7 DEF a, b

LEMMA AppendIs ==
    ASSUME NEW R, NEW h \in Seq(R), NEW x \in R
    PROVE  /\ Append(h, x) \in Seq(R) /\ Len(Append(h, x)) = Len(h) + 1 /\ Len(h) \in Nat
           /\ Append(h, x)[Len(h) + 1] = x
           /\ \A i \in 1..Len(h) : Append(h, x)[i] = h[i]
  OBVIOUS

\* A report more: cutting the history does not touch the newest of it.
LEMMA RecordKeepsNewest ==
    ASSUME NEW h \in Seq(Reports), NEW x \in Reports, NEW r, r = NewestReports(h, LastN)
    PROVE  /\ RecordJob(h, x) \in Seq(Reports)
           /\ NewestReports(Append(r, x), LastN) = NewestReports(RecordJob(h, x), LastN)
  <1>1. LastN \in Nat /\ HistoryKeep \in Nat /\ HistoryCap \in Nat
        /\ LastN <= HistoryKeep /\ HistoryKeep <= HistoryCap
    BY ScheduleAssumption
  <1> DEFINE longer == Append(h, x)
             kept == RecordJob(h, x)
             shown == Append(r, x)
  <1>2. /\ r \in Seq(Reports) /\ Len(r) = IF Len(h) <= LastN THEN Len(h) ELSE LastN
        /\ \A i \in 1..Len(r) : r[i] = h[Len(h) - Len(r) + i]
    BY <1>1, NewestAre
  <1>3. /\ longer \in Seq(Reports) /\ Len(longer) = Len(h) + 1 /\ Len(h) \in Nat
        /\ longer[Len(h) + 1] = x /\ \A i \in 1..Len(h) : longer[i] = h[i]
    BY AppendIs
  <1>4. /\ shown \in Seq(Reports) /\ Len(shown) = Len(r) + 1 /\ Len(r) \in Nat
        /\ shown[Len(r) + 1] = x /\ \A i \in 1..Len(r) : shown[i] = r[i]
    BY <1>2, AppendIs
  <1> HIDE DEF longer, shown
  <1>5. NewestReports(shown, LastN) = NewestReports(longer, LastN)
    <2>1. ASSUME NEW k \in 0..(LastN - 1), k < Len(shown), k < Len(longer)
          PROVE  shown[Len(shown) - k] = longer[Len(longer) - k]
      <3>1. CASE k = 0
        BY <1>3, <1>4, <3>1
      <3>2. CASE k # 0
        <4>1. Len(shown) - k \in 1..Len(r) /\ Len(longer) - k \in 1..Len(h)
          BY <1>1, <1>3, <1>4, <2>1, <3>2
        <4>2. Len(h) - Len(r) + (Len(shown) - k) = Len(longer) - k
          BY <1>3, <1>4
        <4> QED
          BY <1>2, <1>3, <1>4, <4>1, <4>2
      <3> QED
        BY <3>1, <3>2
    <2>2. /\ LastN <= Len(shown) \/ Len(shown) = Len(longer)
          /\ LastN <= Len(longer) \/ Len(shown) = Len(longer)
      BY <1>1, <1>2, <1>3, <1>4
    <2> QED
      BY <1>1, <1>3, <1>4, <2>1, <2>2, SameNewest
  <1>6. CASE Len(longer) <= HistoryCap
    <2>1. kept = longer
      BY <1>1, <1>3, <1>6 DEF RecordJob, longer
    <2> QED
      BY <1>3, <1>5, <2>1 DEF shown
  <1>7. CASE ~(Len(longer) <= HistoryCap)
    <2>1. kept = SubSeq(longer, Len(longer) - HistoryKeep + 1, Len(longer))
      <3>1. Len(longer) > HistoryCap
        BY <1>1, <1>3, <1>7
      <3> QED
        BY <3>1 DEF RecordJob, longer
    <2>2. Len(longer) > HistoryKeep /\ Len(longer) \in Nat
      BY <1>1, <1>3, <1>7
    <2>3. Max({1, Len(longer) - HistoryKeep + 1}) = Len(longer) - HistoryKeep + 1
      BY <1>1, <2>2, MaxOfTwo
    <2>4. kept = NewestReports(longer, HistoryKeep)
      BY <2>1, <2>3 DEF NewestReports
    <2> HIDE DEF kept
    <2>5. /\ kept \in Seq(Reports) /\ Len(kept) = HistoryKeep
          /\ \A i \in 1..Len(kept) : kept[i] = longer[Len(longer) - Len(kept) + i]
      <3> DEFINE cut == NewestReports(longer, HistoryKeep)
      <3>1. /\ cut \in Seq(Reports)
            /\ Len(cut) = IF Len(longer) <= HistoryKeep THEN Len(longer) ELSE HistoryKeep
            /\ \A i \in 1..Len(cut) : cut[i] = longer[Len(longer) - Len(cut) + i]
        <4>1. NewestOf(cut, Reports, longer, HistoryKeep)
          BY <1>1, <1>3, NewestIs
        <4> QED
          BY <4>1 DEF NewestOf
      <3>2. Len(cut) = HistoryKeep
        <4> HIDE DEF cut
        <4> QED
          BY <1>1, <2>2, <3>1
      <3> HIDE DEF cut
      <3>3. kept = cut
        BY <2>4 DEF cut
      <3> QED
        BY <3>1, <3>2, <3>3
    <2>6. ASSUME NEW k \in 0..(LastN - 1), k < Len(longer), k < Len(kept)
          PROVE  longer[Len(longer) - k] = kept[Len(kept) - k]
      <3>1. Len(kept) - k \in 1..Len(kept)
        BY <1>1, <2>5, <2>6
      <3>2. Len(longer) - Len(kept) + (Len(kept) - k) = Len(longer) - k
        BY <1>1, <2>2, <2>5
      <3> QED
        BY <2>5, <3>1, <3>2
    <2>7. NewestReports(longer, LastN) = NewestReports(kept, LastN)
      <3>1. LastN <= Len(longer) /\ LastN <= Len(kept)
        BY <1>1, <2>2, <2>5
      <3> QED
        BY <1>1, <1>3, <2>5, <2>6, <3>1, SameNewest
    <2> QED
      BY <1>5, <2>5, <2>7 DEF kept, shown
  <1> QED
    BY <1>3, <1>6, <1>7, <1>1

LEMMA ReportsStart == ScheduleInit => ReportsInv
  <1> SUFFICES ASSUME ScheduleInit PROVE ReportsInv
    OBVIOUS
  <1>1. history = <<>> /\ recent = <<>>
    BY DEF ScheduleInit
  <1>2. NewestReports(<<>>, LastN) = <<>>
    BY NothingIsNewest
  <1> QED
    BY <1>1, <1>2 DEF ReportsInv

\* Two reports at once leave what one after the other does.
LEMMA TwoReports ==
    ASSUME ReportsInv, NEW x \in Reports
    PROVE  NewestReports(recent \o <<x, x>>, LastN)
             = NewestReports(RecordJob(RecordJob(history, x), x), LastN)
  <1> DEFINE one == NewestReports(Append(recent, x), LastN)
             both == Append(Append(recent, x), x)
             n == Len(recent)
  <1>1. LastN \in Nat
    BY ScheduleAssumption
  <1>2. /\ RecordJob(history, x) \in Seq(Reports)
        /\ one = NewestReports(RecordJob(history, x), LastN)
    BY RecordKeepsNewest DEF ReportsInv
  <1>3. NewestReports(Append(one, x), LastN)
          = NewestReports(RecordJob(RecordJob(history, x), x), LastN)
    <2> HIDE DEF one
    <2> QED
      BY <1>2, RecordKeepsNewest
  <1>4. recent \o <<x, x>> = both
    BY DEF ReportsInv
  <1>5. /\ Append(recent, x) \in Seq(Reports) /\ Len(Append(recent, x)) = n + 1 /\ n \in Nat
    BY AppendIs DEF ReportsInv
  <1>6. /\ both \in Seq(Reports) /\ Len(both) = n + 2 /\ both[n + 2] = x
        /\ \A i \in 1..(n + 1) : both[i] = Append(recent, x)[i]
    <2> DEFINE p == Append(recent, x)
    <2>1. p \in Seq(Reports) /\ Len(p) = n + 1
      BY <1>5
    <2> HIDE DEF p
    <2>2. /\ Append(p, x) \in Seq(Reports) /\ Len(Append(p, x)) = Len(p) + 1
          /\ Append(p, x)[Len(p) + 1] = x
          /\ \A i \in 1..Len(p) : Append(p, x)[i] = p[i]
      BY <2>1, AppendIs
    <2>3. Len(p) + 1 = n + 2
      BY <1>5, <2>1
    <2> QED
      BY <2>1, <2>2, <2>3 DEF p
  <1>7. /\ one \in Seq(Reports) /\ Len(one) = IF n + 1 <= LastN THEN n + 1 ELSE LastN
        /\ \A i \in 1..Len(one) : one[i] = Append(recent, x)[n + 1 - Len(one) + i]
    <2> DEFINE p == Append(recent, x)
    <2>1. p \in Seq(Reports) /\ Len(p) = n + 1
      BY <1>5
    <2> HIDE DEF p
    <2> DEFINE q == NewestReports(p, LastN)
    <2>2. /\ q \in Seq(Reports) /\ Len(q) = IF Len(p) <= LastN THEN Len(p) ELSE LastN
          /\ \A i \in 1..Len(q) : q[i] = p[Len(p) - Len(q) + i]
      BY <1>1, <2>1, NewestAre
    <2> HIDE DEF q
    <2>3. /\ q \in Seq(Reports) /\ Len(q) = IF n + 1 <= LastN THEN n + 1 ELSE LastN
          /\ \A i \in 1..Len(q) : q[i] = p[n + 1 - Len(q) + i]
      BY <2>1, <2>2
    <2> QED
      BY <2>3 DEF p, q
  <1> HIDE DEF one, both
  <1> DEFINE last == Append(one, x)
  <1>8. /\ last \in Seq(Reports) /\ Len(last) = Len(one) + 1 /\ last[Len(one) + 1] = x
        /\ \A i \in 1..Len(one) : last[i] = one[i]
    BY <1>7, AppendIs
  <1> HIDE DEF last
  <1>9. ASSUME NEW k \in 0..(LastN - 1), k < Len(both), k < Len(last)
        PROVE  both[Len(both) - k] = last[Len(last) - k]
    <2>1. CASE k = 0
      BY <1>5, <1>6, <1>7, <1>8, <2>1
    <2>2. CASE k # 0
      <3>1. Len(both) - k \in 1..(n + 1) /\ Len(last) - k \in 1..Len(one)
        BY <1>1, <1>5, <1>6, <1>7, <1>8, <1>9, <2>2
      <3>2. n + 1 - Len(one) + (Len(last) - k) = Len(both) - k
        <4>1. k \in Int /\ n \in Int /\ Len(one) \in Int
          BY <1>1, <1>5, <1>7
        <4> QED
          BY <1>6, <1>8, <4>1
      <3> QED
        BY <1>6, <1>7, <1>8, <3>1, <3>2
    <2> QED
      BY <2>1, <2>2
  <1>10. /\ LastN <= Len(both) \/ Len(both) = Len(last)
         /\ LastN <= Len(last) \/ Len(both) = Len(last)
    BY <1>1, <1>5, <1>6, <1>7, <1>8
  <1>11. NewestReports(both, LastN) = NewestReports(last, LastN)
    BY <1>1, <1>6, <1>8, <1>9, <1>10, SameNewest
  <1> QED
    BY <1>3, <1>4, <1>11 DEF last

LEMMA ReportsStep ==
    ASSUME ReportsInv, ScheduleNext \/ UNCHANGED scheduleVars
    PROVE  ReportsInv'
  <1>1. ASSUME UNCHANGED <<history, recent>> PROVE ReportsInv'
    BY <1>1 DEF ReportsInv
  <1>2. CASE Sleep
    <2> DEFINE x == [job |-> "intraday_poll", ok |-> TRUE]
    <2>1. x \in Reports
      BY DEF Reports
    <2> HIDE DEF x
    <2>2. \/ UNCHANGED <<history, recent>>
          \/ /\ history' = RecordJob(RecordJob(history, x), x)
             /\ recent' = NewestReports(recent \o <<x, x>>, LastN)
      BY <1>2 DEF Sleep, x
    <2>3. CASE /\ history' = RecordJob(RecordJob(history, x), x)
               /\ recent' = NewestReports(recent \o <<x, x>>, LastN)
      <3>1. RecordJob(history, x) \in Seq(Reports)
        BY <2>1, RecordKeepsNewest DEF ReportsInv
      <3>2. history' \in Seq(Reports)
        BY <2>1, <2>3, <3>1, RecordKeepsNewest
      <3>3. recent' = NewestReports(history', LastN)
        BY <2>1, <2>3, TwoReports
      <3>4. recent' \in Seq(Reports)
        BY <3>2, <3>3, NewestAre, ScheduleAssumption
      <3> QED
        BY <3>2, <3>3, <3>4 DEF ReportsInv
    <2> QED
      BY <1>1, <2>2, <2>3
  <1>3. ASSUME NEW j \in Jobs, NEW minutes \in Durations, NEW raises \in BOOLEAN,
               RunJob(j, minutes, raises)
        PROVE  ReportsInv'
    <2> DEFINE x == [job |-> j, ok |-> ~raises]
    <2>1. x \in Reports
      BY DEF Reports
    <2> HIDE DEF x
    <2>2. \/ UNCHANGED <<history, recent>>
          \/ /\ history' = RecordJob(history, x)
             /\ recent' = NewestReports(Append(recent, x), LastN)
      BY <1>3, Zenon DEF RunJob, x
    <2>3. CASE /\ history' = RecordJob(history, x)
               /\ recent' = NewestReports(Append(recent, x), LastN)
      <3>1. history' \in Seq(Reports) /\ recent' = NewestReports(history', LastN)
        BY <2>1, <2>3, RecordKeepsNewest DEF ReportsInv
      <3>2. recent' \in Seq(Reports)
        BY <3>1, NewestAre, ScheduleAssumption
      <3> QED
        BY <3>1, <3>2 DEF ReportsInv
    <2> QED
      BY <1>1, <2>2, <2>3
  <1>4. ASSUME NEW minutes \in Durations, Boots(minutes)
        PROVE  ReportsInv'
    <2>1. history' = <<>> /\ recent' = <<>>
      BY <1>4 DEF Boots
    <2>2. NewestReports(<<>>, LastN) = <<>>
      BY NothingIsNewest
    <2> QED
      BY <2>1, <2>2 DEF ReportsInv
  <1> QED
    BY <1>1, <1>2, <1>3, <1>4 DEF ScheduleNext, RunPending, Dies, scheduleVars

\* The summary looks at the newest only, so it is that of recent.
LEMMA ReportsKeep == ReportsInv => SummaryIsOfTheNewest
  <1> SUFFICES ASSUME ReportsInv PROVE SummaryIsOfTheNewest
    OBVIOUS
  <1>1. LastN \in Nat /\ recent \in Seq(Reports) /\ history \in Seq(Reports)
    BY ScheduleAssumption DEF ReportsInv
  <1>2. Len(recent) \in Nat /\ Len(recent) <= LastN /\ recent = NewestReports(history, LastN)
    <2>1. Len(NewestReports(history, LastN))
            = IF Len(history) <= LastN THEN Len(history) ELSE LastN
      BY <1>1, NewestAre
    <2>2. recent = NewestReports(history, LastN) /\ Len(history) \in Nat
      BY <1>1 DEF ReportsInv
    <2> QED
      BY <1>1, <2>1, <2>2
  <1>3. NewestReports(recent, LastN) = recent
    <2> DEFINE r == NewestReports(recent, LastN)
    <2>1. /\ r \in Seq(Reports)
          /\ Len(r) = IF Len(recent) <= LastN THEN Len(recent) ELSE LastN
          /\ \A i \in 1..Len(r) : r[i] = recent[Len(recent) - Len(r) + i]
      BY <1>1, NewestAre
    <2> HIDE DEF r
    <2>2. Len(r) = Len(recent) /\ \A i \in 1..Len(r) : r[i] = recent[i]
      BY <1>2, <2>1
    <2>3. r = [i \in 1..Len(r) |-> r[i]] /\ recent = [i \in 1..Len(recent) |-> recent[i]]
      BY <1>1, <2>1
    <2>4. r = recent
      BY <2>2, <2>3
    <2> QED
      BY <2>4 DEF r
  <1>4. NewestReports(recent, LastN) = NewestReports(history, LastN)
    BY <1>2, <1>3
  <1> QED
    BY <1>4 DEF SummaryIsOfTheNewest, JobHealthSummary

--------------------------------------------------------------------------------
(* What the monitors say. *)

LEMMA QualityFollows == QuestionInv => BadDaysAreReported
  <1> SUFFICES ASSUME QuestionInv, Answered("quality") PROVE BadDaysAreReported
    BY DEF BadDaysAreReported
  <1> DEFINE told == asked.bars
             here == {s \in DOMAIN told : told[s] # "none"}
             count == Cardinality(here)
             report == RunFullCheck(asked)
             inverted == {s \in DOMAIN told : told[s] = "inverted"}
             idle == {s \in DOMAIN told : told[s] = "idle"}
             mailed == answer[1].mailed
             complete == Finding("completeness", 100 * count >= 90 * UniverseSize,
                           IF 100 * count < 80 * UniverseSize THEN "critical" ELSE "warning", <<>>)
             fresh == Finding("freshness", asked.age # <<>> /\ asked.age[1] <= 26, "critical", <<>>)
  <1>1. told \in [1..UniverseSize -> Bars]
    BY DEF QuestionInv, AskedIs, Answered, QualityQuestions
  <1>2. answer[1] = [stored |-> report, mailed |-> DataQualityFailed(report)]
    BY DEF QuestionInv, AnswersAre, Answered, QualityCheckJob
  <1>3. answer[1].stored = report
        /\ mailed = {f \in report : ~f.passed /\ f.severity = "critical"}
    BY <1>2 DEF DataQualityFailed
  <1>4. count \in Nat /\ UniverseSize \in Nat
    <2>1. IsFiniteSet(1..UniverseSize) /\ UniverseSize \in Nat
      BY MonitorsAssumption, UpToIsFinite
    <2>2. here \in SUBSET (1..UniverseSize)
      BY <1>1
    <2> HIDE DEF here
    <2> QED
      BY <2>1, <2>2, FS_Subset, FS_CardinalityType
  <1>5. report = {complete} \union {fresh} \union PerSymbol("consistency", "critical", inverted)
                   \union PerSymbol("anomaly", "warning", idle)
    BY DEF RunFullCheck, CheckCompleteness, CheckFreshness
  <1> DEFINE is == 100 * count >= 90 * UniverseSize
             how == IF 100 * count < 80 * UniverseSize THEN "critical" ELSE "warning"
  <1>6. complete.passed = is /\ complete.symbol = <<>> /\ (~is => complete.severity = how)
    <2>1. complete = Finding("completeness", is, how, <<>>) /\ is \in BOOLEAN
      BY <1>4
    <2> HIDE DEF is, how, complete
    <2>2. CASE is
      <3>1. complete = Finding("completeness", TRUE, how, <<>>)
        BY <2>1, <2>2
      <3> QED
        BY <2>2, <3>1 DEF Finding
    <2>3. CASE ~is
      <3>1. is = FALSE
        BY <2>1, <2>3
      <3>2. complete = Finding("completeness", FALSE, how, <<>>)
        BY <2>1, <3>1
      <3> QED
        BY <3>1, <3>2 DEF Finding
    <2> QED
      BY <2>2, <2>3
  <1>7. fresh.symbol = <<>> /\ (fresh.passed => asked.age # <<>>)
    <2> DEFINE new == asked.age # <<>> /\ asked.age[1] <= 26
    <2>1. fresh = Finding("freshness", new, "critical", <<>>) /\ new \in BOOLEAN
      OBVIOUS
    <2> HIDE DEF new, fresh
    <2>2. CASE new
      <3>1. fresh = Finding("freshness", TRUE, "critical", <<>>)
        BY <2>1, <2>2
      <3> QED
        BY <2>2, <3>1 DEF Finding, new
    <2>3. CASE ~new
      <3>1. new = FALSE
        BY <2>1, <2>3
      <3>2. fresh = Finding("freshness", FALSE, "critical", <<>>)
        BY <2>1, <3>1
      <3> QED
        BY <3>1, <3>2 DEF Finding
    <2> QED
      BY <2>2, <2>3
  <1>8. ASSUME NEW f \in PerSymbol("consistency", "critical", inverted),
               ~f.passed
        PROVE  \E s \in inverted : f.symbol = <<s>>
    <2>1. inverted # {}
      BY <1>8 DEF PerSymbol, Finding
    <2>2. PICK s \in inverted : f = Finding("consistency", FALSE, "critical", <<s>>)
      BY <2>1 DEF PerSymbol
    <2> QED
      BY <2>2 DEF Finding
  <1>9. ASSUME NEW s \in inverted
        PROVE  /\ ~Finding("consistency", FALSE, "critical", <<s>>).passed
               /\ Finding("consistency", FALSE, "critical", <<s>>).severity = "critical"
               /\ Finding("consistency", FALSE, "critical", <<s>>).symbol = <<s>>
               /\ Finding("consistency", FALSE, "critical", <<s>>) \in report
    <2> DEFINE f == Finding("consistency", FALSE, "critical", <<s>>)
    <2>1. f \in PerSymbol("consistency", "critical", inverted)
      BY DEF PerSymbol
    <2>2. f \in report
      BY <1>5, <2>1
    <2>3. ~f.passed /\ f.severity = "critical" /\ f.symbol = <<s>>
      BY DEF Finding
    <2> QED
      BY <2>2, <2>3
  <1>10. ASSUME NEW f \in PerSymbol("anomaly", "warning", idle), ~f.passed
         PROVE  f.severity = "warning"
    <2>1. idle # {}
      BY <1>10 DEF PerSymbol, Finding
    <2>2. PICK s \in idle : f = Finding("anomaly", FALSE, "warning", <<s>>)
      BY <2>1 DEF PerSymbol
    <2> QED
      BY <2>2 DEF Finding
  <1>11. ASSUME NEW s \in idle
         PROVE  /\ ~Finding("anomaly", FALSE, "warning", <<s>>).passed
                /\ Finding("anomaly", FALSE, "warning", <<s>>) \in report
    <2> DEFINE f == Finding("anomaly", FALSE, "warning", <<s>>)
    <2>1. f \in PerSymbol("anomaly", "warning", idle)
      BY DEF PerSymbol
    <2>2. f \in report
      BY <1>5, <2>1
    <2>3. ~f.passed
      BY DEF Finding
    <2> QED
      BY <2>2, <2>3
  <1>12. complete \in report /\ fresh \in report
    BY <1>5
  <1>13. /\ inverted \subseteq here /\ idle \subseteq here
         /\ {s \in here : told[s] = "inverted"} = inverted
         /\ \A s \in here : s \notin inverted /\ s \notin idle => told[s] = "good"
    BY <1>1 DEF Bars
  <1> HIDE DEF told, here, count, report, inverted, idle, mailed, complete, fresh
  <1>14. 5 * count < 4 * UniverseSize => mailed # {}
    <2> SUFFICES ASSUME 5 * count < 4 * UniverseSize PROVE complete \in mailed
      OBVIOUS
    <2>1. ~is /\ how = "critical"
      BY <1>4
    <2> QED
      BY <1>3, <1>6, <1>12, <2>1
  <1>15. inverted = UNION {Range(f.symbol) : f \in mailed}
    <2>1. \A s : Range(<<s>>) = {s}
      BY DEF Range
    <2>2. Range(<<>>) = {}
      BY DEF Range
    <2>3. ASSUME NEW s \in inverted
          PROVE  s \in UNION {Range(f.symbol) : f \in mailed}
      <3> DEFINE f == Finding("consistency", FALSE, "critical", <<s>>)
      <3>1. f \in mailed /\ f.symbol = <<s>>
        BY <1>3, <1>9
      <3> HIDE DEF f
      <3>2. s \in Range(f.symbol)
        BY <2>1, <3>1
      <3> QED
        BY <3>1, <3>2
    <2>4. ASSUME NEW f \in mailed PROVE Range(f.symbol) \subseteq inverted
      <3>1. f \in report /\ ~f.passed /\ f.severity = "critical"
        BY <1>3
      <3>2. CASE f \in {complete, fresh}
        BY <1>6, <1>7, <2>2, <3>2
      <3>3. CASE f \in PerSymbol("consistency", "critical", inverted)
        BY <1>8, <2>1, <3>1, <3>3
      <3>4. CASE f \in PerSymbol("anomaly", "warning", idle)
        BY <1>10, <3>1, <3>4
      <3> QED
        BY <1>5, <3>1, <3>2, <3>3, <3>4
    <2> QED
      BY <2>3, <2>4
  <1>16. ASSUME {f \in report : ~f.passed} = {}
         PROVE  /\ 10 * count >= 9 * UniverseSize /\ asked.age # <<>>
                /\ \A s \in here : told[s] = "good"
    <2>1. complete.passed /\ fresh.passed
      BY <1>12, <1>16
    <2>2. inverted = {} /\ idle = {}
      BY <1>9, <1>11, <1>16
    <2>3. 10 * count >= 9 * UniverseSize
      <3>1. is
        BY <1>6, <2>1
      <3> QED
        BY <1>4, <3>1
    <2> QED
      BY <1>7, <1>13, <2>1, <2>2, <2>3
  <1>17. mailed \subseteq report
    BY <1>3
  <1> QED
    BY <1>3, <1>13, <1>14, <1>15, <1>16, <1>17 DEF BadDaysAreReported, here, told, count, mailed

LEMMA MostIs ==
    ASSUME NEW counts \in [Directions -> Nat]
    PROVE  \E d \in Directions : Most(counts) = counts[d]
  <1> DEFINE x == counts[-1]
             y == counts[0]
             z == counts[1]
             T == {counts[d] : d \in Directions}
  <1>1. T = {x, y, z} /\ x \in Nat /\ y \in Nat /\ z \in Nat
    BY DEF Directions
  <1>2. PICK m \in {x, y, z} : m >= x /\ m >= y /\ m >= z
    <2> HIDE DEF x, y, z
    <2> QED
      BY <1>1
  <1>3. m \in T /\ T \subseteq Int /\ \A k \in T : m >= k
    <2> HIDE DEF x, y, z, T
    <2> QED
      BY <1>1, <1>2
  <1>4. Max(T) = m
    <2> HIDE DEF T
    <2> QED
      BY <1>3, MaxIs
  <1> QED
    BY <1>2, <1>4 DEF Most, Directions

LEMMA CohortFollows == QuestionInv => AlarmAndGateAgree
  <1> SUFFICES ASSUME QuestionInv, Answered("cohort") PROVE AlarmAndGateAgree
    BY DEF AlarmAndGateAgree
  <1> DEFINE c == asked.counts
             size == CohortSize(c)
             most == Most(c)
  <1>1. c \in [Directions -> Nat] /\ asked.right \in Nat
    BY DEF QuestionInv, AskedIs, Answered
  <1>2. answer[1].alarm = DirectionCollapse(c)
        /\ answer[1].rejected = DegenerateDirections(c, asked.right)
    BY DEF QuestionInv, AnswersAre, Answered
  <1>3. size \in Nat /\ most \in Nat
        /\ c[-1] \in Nat /\ c[0] \in Nat /\ c[1] \in Nat /\ size = c[-1] + c[0] + c[1]
    BY <1>1, MostIs DEF CohortSize, Directions
  <1>4. DirectionCollapse(c) <=> size > 0 /\ 10 * most > 9 * size
    BY DEF DirectionCollapse
  <1>5. DegenerateDirections(c, asked.right)
          <=> size > 0 /\ (10 * most > 9 * size \/ 10 * asked.right < 4 * size)
    BY DEF DegenerateDirections
  <1>6. ASSUME DirectionCollapse(c)
        PROVE  Cardinality({d \in Directions : 2 * c[d] > size}) = 1
    <2>1. PICK d \in Directions : most = c[d]
      BY <1>1, MostIs
    <2>2. 10 * c[d] > 9 * size /\ size > 0
      BY <1>4, <1>6, <2>1
    <2> HIDE DEF size, most
    <2>3. 2 * c[d] > size
      <3>1. c[d] \in Nat
        BY <1>1
      <3> HIDE DEF c
      <3> QED
        BY <1>3, <2>2, <3>1
    <2>4. \A e \in Directions : e # d => ~(2 * c[e] > size)
      <3> SUFFICES ASSUME NEW e \in Directions, e # d PROVE ~(2 * c[e] > size)
        OBVIOUS
      <3>1. c[d] + c[e] <= size /\ c[d] \in Nat /\ c[e] \in Nat
        <4> HIDE DEF c
        <4> QED
          BY <1>3 DEF Directions
      <3> HIDE DEF c
      <3> QED
        BY <1>3, <2>3, <3>1
    <2>5. {e \in Directions : 2 * c[e] > size} = {d}
      BY <2>3, <2>4
    <2> QED
      BY <2>5, FS_Singleton
  <1>7. DegenerateDirections(c, asked.right) /\ ~DirectionCollapse(c) => 5 * asked.right < 2 * size
    <2> HIDE DEF size, most, c
    <2> QED
      BY <1>1, <1>3, <1>4, <1>5
  <1>8. DirectionCollapse(c) => DegenerateDirections(c, asked.right)
    BY <1>4, <1>5
  <1> QED
    BY <1>2, <1>6, <1>7, <1>8 DEF AlarmAndGateAgree

\* Rows of predictions whose outcome is known, and the same rows a year on.
Outcomes == [day : Nat, predicted : -1..1, actual : {-1, 1}]

AYearOn(x) == [x EXCEPT !.day = @ + 365]

LEMMA AYearOnIs ==
    ASSUME NEW x \in Outcomes
    PROVE  /\ AYearOn(x) \in Outcomes
           /\ AYearOn(x).day = x.day + 365
           /\ AYearOn(x).predicted = x.predicted /\ AYearOn(x).actual = x.actual
  BY DEF Outcomes, AYearOn

LEMMA AsManyAYearOn ==
    ASSUME NEW T \in SUBSET Outcomes, IsFiniteSet(T)
    PROVE  Cardinality({AYearOn(x) : x \in T}) = Cardinality(T)
  <1> DEFINE U == {AYearOn(x) : x \in T}
             f == [x \in T |-> AYearOn(x)]
  <1>1. \A x, y \in T : AYearOn(x) = AYearOn(y) => x = y
    <2> SUFFICES ASSUME NEW x \in T, NEW y \in T, AYearOn(x) = AYearOn(y) PROVE x = y
      OBVIOUS
    <2>1. x.day + 365 = y.day + 365 /\ x.predicted = y.predicted /\ x.actual = y.actual
      BY AYearOnIs
    <2>2. x.day = y.day
      BY <2>1 DEF Outcomes
    <2> QED
      BY <2>1, <2>2 DEF Outcomes
  <1>2. f \in Bijection(T, U)
    BY <1>1 DEF Bijection, Injection, IsInjective, Surjection
  <1>3. ExistsBijection(T, U)
    BY <1>2 DEF ExistsBijection
  <1> HIDE DEF U, f
  <1>4. Cardinality(U) = Cardinality(T)
    BY <1>3, FS_Bijection
  <1> QED
    BY <1>4 DEF U

\* A window holds the rows of the newest day among others.
LEMMA NewestRow ==
    ASSUME NEW R \in SUBSET Outcomes, IsFiniteSet(R), R # {}
    PROVE  \E x \in R : /\ Max({y.day : y \in R}) = x.day
                        /\ Max({y.day : y \in {AYearOn(z) : z \in R}}) = x.day + 365
                        /\ \A y \in R : x.day >= y.day
  <1> DEFINE days == [y \in R |-> y.day]
             D == {days[y] : y \in DOMAIN days}
             E == {y.day : y \in {AYearOn(z) : z \in R}}
  <1>1. IsFiniteSet(DOMAIN days) /\ DOMAIN days = R
    OBVIOUS
  <1>2. IsFiniteSet(D)
    <2> HIDE DEF days
    <2> QED
      BY <1>1, FiniteImage
  <1>3. D = {y.day : y \in R} /\ D \in SUBSET Nat /\ D # {}
    BY DEF Outcomes
  <1>4. Max(D) \in D /\ \A d \in D : Max(D) >= d
    <2> HIDE DEF D
    <2> QED
      BY <1>2, <1>3, GreatestOfFinite
  <1>5. PICK x \in R : Max(D) = x.day
    BY <1>4
  <1>6. \A y \in R : x.day >= y.day
    BY <1>4, <1>5
  <1>7. E = {y.day + 365 : y \in R}
    BY AYearOnIs
  <1>8. x.day + 365 \in E /\ E \subseteq Int /\ \A e \in E : x.day + 365 >= e
    <2>1. \A y \in R : y.day \in Nat
      BY DEF Outcomes
    <2> HIDE DEF E
    <2> QED
      BY <1>6, <1>7, <2>1
  <1>9. Max(E) = x.day + 365
    <2> HIDE DEF E
    <2> QED
      BY <1>8, MaxIs
  <1> QED
    BY <1>3, <1>5, <1>6, <1>9

LEMMA WindowIs ==
    ASSUME NEW R \in SUBSET Outcomes, IsFiniteSet(R), R # {}, NEW w \in RollingWindows
    PROVE  /\ Newer({AYearOn(x) : x \in R}, w) = {AYearOn(x) : x \in Newer(R, w)}
           /\ Newer(R, w) \subseteq R
           /\ Newer(R, w) # {}
           /\ \A v \in RollingWindows : v <= w => Newer(R, v) \subseteq Newer(R, w)
  <1>1. PICK x \in R : /\ Max({y.day : y \in R}) = x.day
                       /\ Max({y.day : y \in {AYearOn(z) : z \in R}}) = x.day + 365
    BY NewestRow
  <1>2. \A v : Newer(R, v) = {y \in R : y.day > x.day - v}
    BY <1>1 DEF Newer
  <1>3. Newer({AYearOn(z) : z \in R}, w)
          = {y \in {AYearOn(z) : z \in R} : y.day > (x.day + 365) - w}
    BY <1>1 DEF Newer
  <1>4. x.day \in Nat /\ w \in Nat /\ w > 0 /\ \A v \in RollingWindows : v \in Nat
    BY DEF Outcomes, RollingWindows
  <1>5. \A z \in R : /\ AYearOn(z).day = z.day + 365 /\ z.day \in Nat
                     /\ (z.day + 365 > (x.day + 365) - w) = (z.day > x.day - w)
    BY <1>4, AYearOnIs DEF Outcomes
  <1>6. Newer({AYearOn(z) : z \in R}, w) = {AYearOn(z) : z \in {y \in R : y.day > x.day - w}}
    BY <1>3, <1>5
  <1>7. x \in Newer(R, w)
    BY <1>2, <1>4
  <1>8. \A v \in RollingWindows : v <= w => \A y \in R : y.day > x.day - v => y.day > x.day - w
    BY <1>4, <1>5
  <1> QED
    BY <1>2, <1>6, <1>7, <1>8

LEMMA SnapshotAYearOn ==
    ASSUME NEW R \in SUBSET Outcomes, IsFiniteSet(R), R # {}, NEW w \in RollingWindows
    PROVE  Snapshot({AYearOn(x) : x \in R}, w) = Snapshot(R, w)
  <1> DEFINE W == Newer(R, w)
             Y == {AYearOn(x) : x \in W}
  <1>1. Newer({AYearOn(x) : x \in R}, w) = Y /\ W \subseteq R
    BY WindowIs
  <1> HIDE DEF W
  <1>2. ASSUME NEW T, T \subseteq W PROVE Cardinality({AYearOn(x) : x \in T}) = Cardinality(T)
    <2>1. IsFiniteSet(T) /\ T \in SUBSET Outcomes
      BY <1>1, <1>2, FS_Subset
    <2> QED
      BY <2>1, AsManyAYearOn
  <1>3. \A x \in W : AYearOn(x).predicted = x.predicted /\ AYearOn(x).actual = x.actual
    BY <1>1, AYearOnIs
  <1>4. /\ {x \in Y : x.predicted = x.actual} = {AYearOn(x) : x \in {z \in W : z.predicted = z.actual}}
        /\ {x \in Y : x.predicted # 0} = {AYearOn(x) : x \in {z \in W : z.predicted # 0}}
        /\ {x \in Y : x.predicted * x.actual > 0}
             = {AYearOn(x) : x \in {z \in W : z.predicted * z.actual > 0}}
    BY <1>3
  <1>5. /\ Cardinality(Y) = Cardinality(W)
        /\ Cardinality({x \in Y : x.predicted = x.actual})
             = Cardinality({x \in W : x.predicted = x.actual})
        /\ Cardinality({x \in Y : x.predicted # 0}) = Cardinality({x \in W : x.predicted # 0})
        /\ Cardinality({x \in Y : x.predicted * x.actual > 0})
             = Cardinality({x \in W : x.predicted * x.actual > 0})
    <2> HIDE DEF Y
    <2>1. Cardinality({AYearOn(x) : x \in {z \in W : z.predicted = z.actual}})
            = Cardinality({z \in W : z.predicted = z.actual})
      BY <1>2
    <2>2. Cardinality({AYearOn(x) : x \in {z \in W : z.predicted # 0}})
            = Cardinality({z \in W : z.predicted # 0})
      BY <1>2
    <2>3. Cardinality({AYearOn(x) : x \in {z \in W : z.predicted * z.actual > 0}})
            = Cardinality({z \in W : z.predicted * z.actual > 0})
      BY <1>2
    <2>4. Cardinality({AYearOn(x) : x \in W}) = Cardinality(W)
      BY <1>2
    <2> QED
      BY <1>4, <2>1, <2>2, <2>3, <2>4 DEF Y
  <1> HIDE DEF Y
  <1> QED
    BY <1>1, <1>5 DEF Snapshot, Right, W

LEMMA RowsAreFinite ==
    ASSUME NEW R \in SUBSET PerformanceRows
    PROVE  R \in SUBSET Outcomes /\ IsFiniteSet(R)
  <1> DEFINE place == [x \in R |-> 6 * x.day + 2 * x.predicted + (IF x.actual = 1 THEN 1 ELSE 0)]
  <1>1. \A x \in R : /\ x \in [day : {1, 8, 9, 40}, predicted : {-1, 0, 1}, actual : {-1, 1}]
    BY DEF PerformanceRows
  <1>2. R \in SUBSET Outcomes
    BY <1>1 DEF Outcomes
  <1>3. ASSUME NEW x \in R, NEW y \in R, place[x] = place[y]
        PROVE  x = y
    <2>1. x.day = y.day /\ x.predicted = y.predicted /\ x.actual = y.actual
      BY <1>1, <1>3
    <2> QED
      BY <1>1, <2>1
  <1>4. place \in [R -> 1..243]
    BY <1>1
  <1> DEFINE U == 1..243
  <1> HIDE DEF place
  <1>5. place \in Injection(R, U)
    BY <1>3, <1>4 DEF Injection, IsInjective
  <1>6. IsFiniteSet(U)
    <2>1. \A n \in Nat : IsFiniteSet(1..n)
      BY UpToIsFinite
    <2> QED
      BY <2>1
  <1> HIDE DEF U
  <1>7. IsFiniteSet(R)
    BY <1>5, <1>6, FS_Injection
  <1> QED
    BY <1>2, <1>7

LEMMA PerformanceFollows == QuestionInv => JudgedByTheNewestRow
  <1> SUFFICES ASSUME QuestionInv, Answered("performance") PROVE JudgedByTheNewestRow
    BY DEF JudgedByTheNewestRow
  <1> DEFINE R == asked.rows
             S == {[x EXCEPT !.day = @ + 365] : x \in R}
  <1>1. R \in SUBSET Outcomes /\ IsFiniteSet(R)
    <2>1. R \in SUBSET PerformanceRows
      BY DEF QuestionInv, AskedIs, Answered
    <2> QED
      BY <2>1, RowsAreFinite
  <1>2. answer[1] = Evaluate(R)
    BY DEF QuestionInv, AnswersAre, Answered
  <1>3. S = {AYearOn(x) : x \in R}
    BY DEF AYearOn
  <1> HIDE DEF R, S
  <1>4. Evaluate(S) = Evaluate(R)
    <2>1. CASE R = {}
      BY <1>3, <2>1
    <2>2. CASE R # {}
      <3>1. S # {}
        BY <1>3, <2>2
      <3>2. \A w \in RollingWindows : Snapshot(S, w) = Snapshot(R, w)
        BY <1>1, <1>3, <2>2, SnapshotAYearOn
      <3>3. [w \in RollingWindows |-> Snapshot(S, w)] = [w \in RollingWindows |-> Snapshot(R, w)]
        BY <3>2
      <3> QED
        BY <2>2, <3>1, <3>3 DEF Evaluate
    <2> QED
      BY <2>1, <2>2
  <1>5. ASSUME R # {}, NEW v \in RollingWindows, NEW w \in RollingWindows, v <= w
        PROVE  /\ 0 < answer[1].snapshots[v].n
               /\ answer[1].snapshots[v].n <= answer[1].snapshots[w].n
               /\ answer[1].snapshots[v].earned <= answer[1].snapshots[v].traded
    <2> DEFINE V == Newer(R, v)
               W == Newer(R, w)
               traded == {x \in V : x.predicted # 0}
               earned == {x \in V : x.predicted * x.actual > 0}
    <2>1. \A u \in RollingWindows : answer[1].snapshots[u] = Snapshot(R, u)
      BY <1>2, <1>5 DEF Evaluate
    <2>2. /\ answer[1].snapshots[v].n = Cardinality(V)
          /\ answer[1].snapshots[w].n = Cardinality(W)
          /\ answer[1].snapshots[v].traded = Cardinality(traded)
          /\ answer[1].snapshots[v].earned = Cardinality(earned)
      <3>1. /\ Snapshot(R, v).n = Cardinality(V) /\ Snapshot(R, w).n = Cardinality(W)
            /\ Snapshot(R, v).traded = Cardinality(traded)
            /\ Snapshot(R, v).earned = Cardinality(earned)
        BY DEF Snapshot
      <3> HIDE DEF V, W, traded, earned
      <3> QED
        BY <2>1, <3>1
    <2>3. V \subseteq W /\ W \subseteq R /\ V # {}
      BY <1>1, <1>5, WindowIs
    <2> HIDE DEF V, W
    <2>4. earned \subseteq traded /\ traded \subseteq V
      <3>1. \A x \in V : x.predicted \in -1..1 /\ x.actual \in {-1, 1}
        BY <1>1, <2>3 DEF Outcomes
      <3>2. \A x \in V : x.predicted = 0 => ~(x.predicted * x.actual > 0)
        BY <3>1
      <3> QED
        BY <3>2
    <2> HIDE DEF traded, earned
    <2>5. IsFiniteSet(W) /\ IsFiniteSet(V) /\ IsFiniteSet(traded)
      BY <1>1, <2>3, <2>4, FS_Subset
    <2>6. Cardinality(V) <= Cardinality(W) /\ Cardinality(earned) <= Cardinality(traded)
      BY <2>3, <2>4, <2>5, FS_Subset
    <2>7. Cardinality(V) \in Nat /\ Cardinality(V) # 0
      BY <2>3, <2>5, FS_CardinalityType, FS_EmptySet
    <2> QED
      BY <2>2, <2>6, <2>7
  <1> QED
    BY <1>2, <1>4, <1>5 DEF JudgedByTheNewestRow, R, S

--------------------------------------------------------------------------------
(* The decisions. *)

LEMMA PositionSizeIs ==
    ASSUME NEW c \in Nat, NEW move \in Nat
    PROVE  PositionSize(c, move) \in Nat
  <1>1. CASE c < 55 \/ move <= 0
    BY <1>1 DEF PositionSize
  <1>2. CASE ~(c < 55 \/ move <= 0)
    <2> DEFINE x == (5 * (c * move - (100 - c) * 200)) \div move
    <2>1. x \in Int
      <3>1. c * move \in Int /\ (100 - c) * 200 \in Int
        OBVIOUS
      <3>2. 5 * (c * move - (100 - c) * 200) \in Int
        BY <3>1
      <3> QED
        BY <1>2, <3>2
    <2>2. PositionSize(c, move) = Min({100, Max({0, x})})
      BY <1>2 DEF PositionSize
    <2> HIDE DEF x
    <2>3. Max({0, x}) = IF 0 >= x THEN 0 ELSE x
      BY <2>1, MaxOfTwo
    <2> DEFINE y == Max({0, x})
    <2>4. y \in Nat
      BY <2>1, <2>3
    <2> HIDE DEF y
    <2>5. Min({100, y}) = IF 100 <= y THEN 100 ELSE y
      BY <2>4, MinOfTwo
    <2> QED
      BY <2>2, <2>4, <2>5 DEF y
  <1> QED
    BY <1>1, <1>2

BookInv == weight \in [RiskSymbols -> Nat] /\ SectorCapHolds

SectorMates(symbol) == {t \in RiskSymbols : SectorOf[t] = SectorOf[symbol]}

LEMMA AssessKeeps ==
    ASSUME BookInv, NEW symbol \in RiskSymbols, NEW c \in Nat, NEW m \in Nat, Assess(symbol, c, m)
    PROVE  BookInv'
  <1> DEFINE room == SectorRoom(symbol)
             size == PositionSize(c, m)
             limited == Constrained(symbol, size)
             v == BreakerSize(limited, bookValue, symbol \notin Holdings)
             others == SectorMates(symbol) \ {symbol}
             held == {s \in Holdings \ {symbol} : SectorOf[s] = SectorOf[symbol]}
  <1>0. weight \in [RiskSymbols -> Nat] /\ IsFiniteSet(RiskSymbols)
        /\ weight' = [weight EXCEPT ![symbol] = v]
    BY DecisionAssumption DEF BookInv, Assess
  <1>1. IsFiniteSet(others) /\ held \in SUBSET others /\ \A x \in others : weight[x] \in Nat
    <2>1. others \in SUBSET RiskSymbols
      BY DEF SectorMates
    <2>2. held \in SUBSET others
      BY DEF SectorMates, Holdings
    <2> QED
      BY <1>0, <2>1, <2>2, FS_Subset
  <1>2. \A x \in others \ held : weight[x] = 0
    BY <1>0 DEF SectorMates, Holdings
  <1>3. Summed(weight, held) = Summed(weight, others) /\ Summed(weight, others) \in Nat
    <2> HIDE DEF held, others
    <2> QED
      BY <1>1, <1>2, SummedPart
  <1>4. room = 250 - Summed(weight, others)
    BY <1>3 DEF SectorRoom
  <1>5. size \in Nat
    BY PositionSizeIs
  <1> HIDE DEF room, size, held, others
  <1>6. limited \in Nat /\ (limited = 0 \/ limited <= room)
    <2>1. room \in Int
      BY <1>3, <1>4
    <2>2. Max({0, room}) = IF 0 >= room THEN 0 ELSE room
      BY <2>1, MaxOfTwo
    <2> DEFINE y == Max({0, room})
    <2>3. y \in Nat /\ (y = 0 \/ y = room)
      BY <2>1, <2>2
    <2> HIDE DEF y
    <2>4. Min({size, y}) = IF size <= y THEN size ELSE y
      BY <1>5, <2>3, MinOfTwo
    <2>5. limited = 0 \/ limited = Min({size, y})
      BY DEF Constrained, y, room
    <2> HIDE DEF limited
    <2> QED
      BY <1>5, <2>1, <2>3, <2>4, <2>5
  <1> HIDE DEF limited
  <1>7. v \in Nat /\ (v = 0 \/ v <= room)
    <2>1. v \in {0, limited, limited \div 2}
      BY DEF BreakerSize
    <2>2. limited \div 2 \in Nat /\ limited \div 2 <= limited /\ room \in Int
      BY <1>3, <1>4, <1>6
    <2> HIDE DEF v
    <2> QED
      BY <1>6, <2>1, <2>2
  <1> HIDE DEF v
  <1>8. weight' \in [RiskSymbols -> Nat] /\ weight'[symbol] = v
        /\ \A x \in RiskSymbols \ {symbol} : weight'[x] = weight[x]
    BY <1>0, <1>7
  <1>9. ASSUME NEW s \in RiskSymbols
        PROVE  Summed(weight', SectorMates(s)) <= 250
    <2> DEFINE M == SectorMates(s)
    <2>1. /\ M \in SUBSET RiskSymbols /\ IsFiniteSet(M)
      BY <1>0, FS_Subset DEF SectorMates
    <2>2. Summed(weight, M) <= 250 /\ Summed(weight, M) \in Nat
      <3>1. Summed(weight, M) <= 250
        BY DEF BookInv, SectorCapHolds, SectorMates
      <3>2. \A x \in M : weight[x] \in Nat
        BY <1>0, <2>1
      <3> HIDE DEF M
      <3> QED
        BY <2>1, <3>1, <3>2, SummedSteps
    <2>3. CASE symbol \in M
      <3>1. M = SectorMates(symbol)
        BY <2>3 DEF SectorMates
      <3>2. others = M \ {symbol}
        BY <3>1 DEF others
      <3> HIDE DEF M
      <3>3. \A x \in M : weight'[x] \in Nat
        BY <1>8, <2>1
      <3>4. Summed(weight', M) = v + Summed(weight', others)
        BY <1>8, <2>1, <2>3, <3>2, <3>3, SummedSteps
      <3>5. Summed(weight', others) = Summed(weight, others)
        <4>1. \A x \in others : weight[x] \in Nat /\ weight'[x] = weight[x]
          BY <1>1, <1>8, <2>1, <3>2
        <4> QED
          BY <1>1, <4>1, SummedAlike
      <3>6. Summed(weight, others) <= Summed(weight, M)
        <4>1. others \in SUBSET M /\ \A x \in M : weight[x] \in Nat
          BY <1>0, <2>1, <3>2
        <4> QED
          BY <2>1, <4>1, SummedPart
      <3>7. v + Summed(weight, others) <= 250
        BY <1>3, <1>4, <1>7, <2>2, <3>6
      <3> QED
        BY <3>4, <3>5, <3>7 DEF M
    <2>4. CASE symbol \notin M
      <3>1. \A x \in M : weight[x] \in Nat /\ weight'[x] = weight[x]
        BY <1>0, <1>8, <2>1, <2>4
      <3> HIDE DEF M
      <3>2. Summed(weight', M) = Summed(weight, M)
        BY <2>1, <3>1, SummedAlike
      <3> QED
        BY <2>2, <3>2 DEF M
    <2> QED
      BY <2>3, <2>4
  <1> QED
    BY <1>8, <1>9 DEF BookInv, SectorCapHolds, SectorMates

LEMMA BookStart == BookInit => BookInv
  <1> SUFFICES ASSUME BookInit PROVE BookInv
    OBVIOUS
  <1>1. weight \in [RiskSymbols -> Nat] /\ \A x \in RiskSymbols : weight[x] = 0
    BY DEF BookInit
  <1>2. ASSUME NEW M \in SUBSET RiskSymbols PROVE Summed(weight, M) <= 250
    <2>1. IsFiniteSet(M) /\ {} \in SUBSET M /\ (\A x \in M : weight[x] \in Nat)
          /\ \A x \in M \ {} : weight[x] = 0
      BY <1>1, DecisionAssumption, FS_Subset
    <2>2. Summed(weight, {}) = Summed(weight, M) /\ Summed(weight, {}) = 0
      BY <2>1, SummedPart, SummedSteps
    <2> QED
      BY <2>2
  <1> QED
    BY <1>1, <1>2 DEF BookInv, SectorCapHolds

LEMMA BookStep ==
    ASSUME BookInv, BookNext \/ UNCHANGED bookVars
    PROVE  BookInv'
  <1>1. ASSUME UNCHANGED weight PROVE BookInv'
    BY <1>1 DEF BookInv, SectorCapHolds
  <1>2. ASSUME NEW s \in RiskSymbols, NEW c \in {54, 60, 90}, NEW m \in {150, 400}, Assess(s, c, m)
        PROVE  BookInv'
    <2>1. c \in Nat /\ m \in Nat
      OBVIOUS
    <2> QED
      BY <1>2, <2>1, AssessKeeps
  <1> QED
    BY <1>1, <1>2 DEF BookNext, BookMoves, bookVars

Gate(q) ==
    /\ MetaConfidence(q) > 55
    /\ q.regime = "high_volatility" => Cardinality(ModelDirections(q)) = 1

Trades(q) == Overlay(q, Gate(q)).tradeable /\ ExpectedMove(q.magnitude) > 70

SizeOf(q) ==
    PositionSize(MetaConfidence(q), ExpectedMove(q.magnitude)) * Overlay(q, Gate(q)).kelly

LEMMA DecideIs ==
    ASSUME NEW q
    PROVE  /\ Cardinality(Succeeded(q)) < 2 => Decide(q) = [error |-> TRUE]
           /\ ~(Cardinality(Succeeded(q)) < 2) =>
                Decide(q) = [error |-> FALSE, tradeable |-> Trades(q), size |-> SizeOf(q),
                             levels |-> Levels(q)]
  BY DEF Decide, Trades, SizeOf, Gate

LEMMA MirrorFollows == QuestionInv => ShortsMirrorLongs
  <1> SUFFICES ASSUME QuestionInv, Answered("decide"), asked.trend = "up" PROVE ShortsMirrorLongs
    BY DEF ShortsMirrorLongs
  <1> DEFINE q == asked
             m == [asked EXCEPT !.direction = -@, !.magnitude = -@]
  <1>1. q \in DecisionQuestions /\ answer[1] = Decide(q)
    BY DEF QuestionInv, AskedIs, AnswersAre, Answered
  <1>2. /\ m.models = q.models /\ m.regime = q.regime /\ m.trend = "up" /\ q.trend = "up"
        /\ m.meta = q.meta /\ m.atr = q.atr
        /\ m.direction = -q.direction /\ q.direction \in {-1, 0, 1}
        /\ ExpectedMove(m.magnitude) = ExpectedMove(q.magnitude)
    BY <1>1 DEF DecisionQuestions, ExpectedMove
  <1> HIDE DEF q, m
  <1>3. /\ Succeeded(m) = Succeeded(q) /\ ModelDirections(m) = ModelDirections(q)
        /\ MetaConfidence(m) = MetaConfidence(q)
    BY <1>2 DEF Succeeded, ModelDirections, MetaConfidence
  <1>4. Gate(m) = Gate(q)
    BY <1>2, <1>3 DEF Gate
  <1>5. /\ Overlay(m, Gate(m)).kelly = Overlay(q, Gate(q)).kelly
        /\ Overlay(m, Gate(m)).tradeable = Overlay(q, Gate(q)).tradeable
    BY <1>2, <1>4 DEF Overlay
  <1>6. Trades(m) = Trades(q) /\ SizeOf(m) = SizeOf(q)
    BY <1>2, <1>3, <1>5 DEF Trades, SizeOf
  <1>7. Levels(m) = [i \in DOMAIN Levels(q) |-> -Levels(q)[i]]
    <2>1. CASE q.direction = 0 \/ ~q.atr
      <3>1. Levels(m) = <<>> /\ Levels(q) = <<>>
        BY <1>2, <2>1 DEF Levels
      <3> QED
        BY <3>1
    <2>2. CASE ~(q.direction = 0 \/ ~q.atr)
      <3>1. /\ Levels(m) = <<-3 * m.direction, 4 * m.direction>>
            /\ Levels(q) = <<-3 * q.direction, 4 * q.direction>>
        BY <1>2, <2>2 DEF Levels
      <3>2. Levels(m)[1] = -Levels(q)[1] /\ Levels(m)[2] = -Levels(q)[2]
        BY <1>2, <3>1
      <3>3. Levels(m) = <<-Levels(q)[1], -Levels(q)[2]>> /\ DOMAIN Levels(q) = 1..2
        BY <3>1, <3>2
      <3> QED
        BY <3>3
    <2> QED
      BY <2>1, <2>2
  <1>8. /\ Decide(m).error = Decide(q).error
        /\ ~Decide(m).error => /\ Decide(m).tradeable = Decide(q).tradeable
                               /\ Decide(m).size = Decide(q).size
                               /\ Decide(m).levels = [i \in DOMAIN Decide(q).levels |-> -Decide(q).levels[i]]
    <2>1. CASE Cardinality(Succeeded(q)) < 2
      <3>1. Decide(m) = [error |-> TRUE] /\ Decide(q) = [error |-> TRUE]
        BY <1>3, <2>1, DecideIs
      <3> QED
        BY <3>1
    <2>2. CASE ~(Cardinality(Succeeded(q)) < 2)
      <3> DEFINE told(x) == [error |-> FALSE, tradeable |-> Trades(x), size |-> SizeOf(x),
                             levels |-> Levels(x)]
      <3>1. Decide(m) = told(m) /\ Decide(q) = told(q)
        BY <1>3, <2>2, DecideIs
      <3>2. \A x : /\ told(x).error = FALSE /\ told(x).tradeable = Trades(x)
                   /\ told(x).size = SizeOf(x) /\ told(x).levels = Levels(x)
        OBVIOUS
      <3> HIDE DEF told
      <3>3. Decide(m).error = Decide(q).error
        BY <3>1, <3>2
      <3>4. Decide(m).tradeable = Decide(q).tradeable
        BY <1>6, <3>1, <3>2
      <3>5. Decide(m).size = Decide(q).size
        BY <1>6, <3>1, <3>2
      <3>6. Decide(m).levels = [i \in DOMAIN Decide(q).levels |-> -Decide(q).levels[i]]
        <4>1. Decide(m).levels = Levels(m) /\ Decide(q).levels = Levels(q)
          BY <3>1, <3>2
        <4> QED
          BY <1>7, <4>1
      <3> QED
        BY <3>3, <3>4, <3>5, <3>6
    <2> QED
      BY <2>1, <2>2
  <1> QED
    BY <1>1, <1>8 DEF ShortsMirrorLongs, q, m

LEMMA OverlayFollows == QuestionInv => OverlayOnlyRestricts
  <1> SUFFICES ASSUME QuestionInv, Answered("decide"), ~answer[1].error PROVE OverlayOnlyRestricts
    BY DEF OverlayOnlyRestricts
  <1> DEFINE q == asked
             u == [asked EXCEPT !.trend = "up"]
             told(x) == [error |-> FALSE, tradeable |-> Trades(x), size |-> SizeOf(x),
                         levels |-> Levels(x)]
  <1>1. q \in DecisionQuestions /\ answer[1] = Decide(q)
    BY DEF QuestionInv, AskedIs, AnswersAre, Answered
  <1>2. /\ u.models = q.models /\ u.regime = q.regime /\ u.trend = "up" /\ q.trend \in {"up", "down"}
        /\ u.meta = q.meta /\ u.direction = q.direction /\ u.magnitude = q.magnitude
        /\ q.regime \in {"bull", "bear", "high_volatility", "unknown"}
        /\ q.meta \in {<<52>>, <<60>>, <<>>} /\ q.magnitude \in {-400, -60, 60, 400}
    BY <1>1 DEF DecisionQuestions
  <1> HIDE DEF q, u
  <1>3. /\ Succeeded(u) = Succeeded(q) /\ ModelDirections(u) = ModelDirections(q)
        /\ MetaConfidence(u) = MetaConfidence(q)
    BY <1>2 DEF Succeeded, ModelDirections, MetaConfidence
  <1>4. Gate(u) = Gate(q)
    BY <1>2, <1>3 DEF Gate
  <1>5. \A x : /\ told(x).error = FALSE /\ told(x).tradeable = Trades(x)
               /\ told(x).size = SizeOf(x) /\ told(x).levels = Levels(x)
    OBVIOUS
  <1>6. Decide(q) = told(q) /\ Decide(u) = told(u)
    <2>1. CASE Cardinality(Succeeded(q)) < 2
      <3>1. Decide(q) = [error |-> TRUE]
        BY <2>1, DecideIs
      <3>2. answer[1].error
        BY <1>1, <3>1
      <3> QED
        BY <3>2
    <2>2. CASE ~(Cardinality(Succeeded(q)) < 2)
      BY <1>3, <2>2, DecideIs
    <2> QED
      BY <2>1, <2>2
  <1> HIDE DEF told
  <1>7. Trades(q) => /\ Trades(u) /\ MetaConfidence(q) > 55
                     /\ q.trend = "down" => q.direction # 1
    <2> SUFFICES ASSUME Trades(q)
                 PROVE  /\ Trades(u) /\ MetaConfidence(q) > 55
                        /\ q.trend = "down" => q.direction # 1
      OBVIOUS
    <2>1. Overlay(q, Gate(q)).tradeable /\ ExpectedMove(q.magnitude) > 70
      BY DEF Trades
    <2>2. Gate(q) /\ ~(q.trend = "down" /\ q.direction = 1)
      BY <2>1 DEF Overlay
    <2>3. Overlay(u, Gate(u)).tradeable
      BY <1>2, <1>4, <2>2 DEF Overlay
    <2>4. MetaConfidence(q) > 55
      BY <2>2 DEF Gate
    <2> QED
      BY <1>2, <2>1, <2>2, <2>3, <2>4 DEF Trades
  <1>8. SizeOf(q) <= SizeOf(u)
    <2> DEFINE p == PositionSize(MetaConfidence(q), ExpectedMove(q.magnitude))
               k == Overlay(q, Gate(q)).kelly
               most == Overlay(u, Gate(u)).kelly
    <2>1. p \in Nat
      <3>1. MetaConfidence(q) \in Nat
        BY <1>2 DEF MetaConfidence
      <3>2. ExpectedMove(q.magnitude) \in Nat
        BY <1>2 DEF ExpectedMove
      <3> QED
        BY <3>1, <3>2, PositionSizeIs
    <2>2. most = KellyOf(q.regime)
      BY <1>2 DEF Overlay
    <2>3. k \in {KellyOf(q.regime), (KellyOf(q.regime) * 3) \div 10}
      BY <1>2 DEF Overlay
    <2>4. KellyOf(q.regime) \in {150, 50, 250}
      BY <1>2 DEF KellyOf
    <2>5. k \in Nat /\ most \in Nat /\ k <= most
      <3> HIDE DEF k, most
      <3> QED
        BY <2>2, <2>3, <2>4
    <2>6. SizeOf(q) = p * k /\ SizeOf(u) = p * most
      BY <1>2, <1>3 DEF SizeOf
    <2> HIDE DEF p, k, most
    <2>7. k * p <= most * p /\ k * p = p * k /\ most * p = p * most
      BY <2>1, <2>5, Products
    <2> QED
      BY <2>6, <2>7
  <1> QED
    BY <1>1, <1>5, <1>6, <1>7, <1>8 DEF OverlayOnlyRestricts, q, u

LEMMA TranchesAre ==
    ASSUME NEW share \in Nat
    PROVE  /\ Tranches("large", share) \in 1..10
           /\ share <= 1 => Tranches("large", share) = 1
           /\ Tranches("small", share) \in 3..5
  <1>1. TrancheConfig("large").tranches = 1 /\ TrancheConfig("small").tranches = 4
    BY DEF TrancheConfig
  <1> DEFINE most(base) == Min({base + share, 10})
             sliced(base) == IF share > 1 THEN Max({base, most(base)}) ELSE base
  <1>2. ASSUME NEW base \in 1..4 PROVE sliced(base) \in base..10
    <2>1. most(base) = IF base + share <= 10 THEN base + share ELSE 10
      BY MinOfTwo
    <2>2. most(base) \in 0..10 /\ base \in Int
      BY <2>1
    <2> HIDE DEF most
    <2>3. Max({base, most(base)}) = IF base >= most(base) THEN base ELSE most(base)
      BY <2>2, MaxOfTwo
    <2> DEFINE x == Max({base, most(base)})
    <2>4. x \in base..10
      BY <2>2, <2>3
    <2> HIDE DEF x
    <2>5. sliced(base) = IF share > 1 THEN x ELSE base
      BY DEF x
    <2> QED
      BY <2>4, <2>5
  <1>3. Tranches("large", share) = sliced(1)
    BY <1>1 DEF Tranches
  <1>4. Tranches("small", share) = Max({3, Min({sliced(4), 5})})
    BY <1>1 DEF Tranches
  <1>5. share <= 1 => sliced(1) = 1
    OBVIOUS
  <1>6. sliced(1) \in 1..10 /\ sliced(4) \in 4..10
    BY <1>2
  <1> DEFINE a == sliced(4)
             b == Min({a, 5})
  <1> HIDE DEF sliced, a
  <1>7. b \in 4..5
    <2>1. Min({a, 5}) = IF a <= 5 THEN a ELSE 5
      BY <1>6, MinOfTwo DEF a
    <2> QED
      BY <1>6, <2>1 DEF a
  <1> HIDE DEF b
  <1>8. Max({3, b}) = IF 3 >= b THEN 3 ELSE b
    BY <1>7, MaxOfTwo
  <1>9. Max({3, b}) \in 3..5
    BY <1>7, <1>8
  <1> QED
    BY <1>3, <1>4, <1>5, <1>6, <1>9 DEF a, b

LEMMA PlansFollow == QuestionInv => PlannedTimesAreGood /\ SmallCapsFitTheWindow
  <1> SUFFICES ASSUME QuestionInv, Answered("plan")
               PROVE  PlannedTimesAreGood /\ SmallCapsFitTheWindow
    BY DEF PlannedTimesAreGood, SmallCapsFitTheWindow
  <1>1. asked.tier \in {"large", "mid", "small"} /\ asked.share \in Nat
    <2>1. asked.tier \in {"large", "mid", "small"} /\ asked.share \in Participations
      BY DEF QuestionInv, AskedIs, Answered
    <2>2. Participations \subseteq Nat
      BY PlanningAssumption
    <2> QED
      BY <2>1, <2>2
  <1>2. /\ answer[1].windows = PlanWindows(asked.expiry)
        /\ answer[1].avoid = IF asked.expiry THEN {ExpiryHour} ELSE {}
        /\ answer[1].tranches = Tranches(asked.tier, asked.share)
        /\ answer[1].interval = IF asked.tier = "large" /\ asked.share > 1 THEN 5
                                ELSE TrancheConfig(asked.tier).interval
    <2>1. answer[1] = PlanExecution(asked)
      BY DEF QuestionInv, AnswersAre, Answered
    <2> QED
      BY <2>1 DEF PlanExecution
  <1>3. /\ OptimalWindows = {Slot(630, 690), Slot(840, 885)}
        /\ AvoidWindows = {Slot(555, 570), Slot(920, 930)} /\ ExpiryHour = Slot(870, 930)
        /\ MarketOpen = 555 /\ MarketClose = 930
    BY DEF OptimalWindows, AvoidWindows, ExpiryHour, Hour, MarketOpen, MarketClose
  <1>4. \A a, b : Slot(a, b).start = a /\ Slot(a, b).end = b
    BY DEF Slot
  <1>5. PlanWindows(asked.expiry)
          = IF asked.expiry THEN {Slot(630, 690)} ELSE {Slot(630, 690), Slot(840, 885)}
    <2>1. {w \in OptimalWindows : w.end <= ExpiryHour.start} = {Slot(630, 690)}
      BY <1>3, <1>4
    <2> QED
      BY <1>3, <2>1 DEF PlanWindows
  <1>6. ASSUME NEW w \in answer[1].windows, NEW t \in w.start..(w.end - 1)
        PROVE  IsGoodTimeToTrade(t) /\ \A a \in answer[1].avoid : ~Within(t, a)
    <2>1. \/ w = Slot(630, 690) /\ t \in 630..689
          \/ ~asked.expiry /\ w = Slot(840, 885) /\ t \in 840..884
      BY <1>2, <1>4, <1>5
    <2>2. IsGoodTimeToTrade(t)
      BY <1>3, <1>4, <2>1 DEF IsGoodTimeToTrade, Within
    <2>3. \A a \in answer[1].avoid : ~Within(t, a)
      BY <1>2, <1>3, <1>4, <2>1 DEF Within
    <2> QED
      BY <2>2, <2>3
  <1>7. PlannedTimesAreGood
    BY <1>2, <1>5, <1>6 DEF PlannedTimesAreGood
  <1>8. ASSUME asked.tier # "mid", NEW w \in OptimalWindows
        PROVE  (answer[1].tranches - 1) * answer[1].interval <= w.end - w.start
    <2>1. w.end - w.start >= 45 /\ w.end - w.start \in Int
      BY <1>3, <1>4
    <2>2. CASE asked.tier = "small"
      <3>1. answer[1].tranches \in 3..5 /\ answer[1].interval = 8
        BY <1>1, <1>2, <2>2, TranchesAre DEF TrancheConfig
      <3> QED
        BY <2>1, <3>1
    <2>3. CASE asked.tier = "large" /\ asked.share > 1
      <3>1. answer[1].tranches \in 1..10 /\ answer[1].interval = 5
        BY <1>1, <1>2, <2>3, TranchesAre
      <3> QED
        BY <2>1, <3>1
    <2>4. CASE asked.tier = "large" /\ ~(asked.share > 1)
      <3>1. answer[1].tranches = 1
        BY <1>1, <1>2, <2>4, TranchesAre
      <3>2. answer[1].interval = 0
        BY <1>2, <2>4 DEF TrancheConfig
      <3> QED
        BY <2>1, <3>1, <3>2
    <2> QED
      BY <1>1, <1>8, <2>2, <2>3, <2>4
  <1> QED
    BY <1>7, <1>8 DEF SmallCapsFitTheWindow

LEMMA Shares ==
    ASSUME NEW lo \in Nat, NEW hi \in Nat, NEW w \in Nat, NEW s \in Nat, lo <= s, s <= hi
    PROVE  w * s \in Nat /\ lo * w <= w * s /\ w * s <= hi * w
  <1>1. lo * w \in Nat /\ s * w \in Nat /\ hi * w \in Nat /\ lo * w <= s * w /\ s * w <= hi * w
    BY Products
  <1>2. w * s = s * w
    OBVIOUS
  <1> QED
    BY <1>1, <1>2

LEMMA Distributes ==
    ASSUME NEW m \in Nat, NEW a \in Nat, NEW b \in Nat
    PROVE  m * (a + b) = m * a + m * b /\ m * a \in Nat /\ m * b \in Nat
  OBVIOUS

\* A mean weighted by f lies between the bounds of what is weighted.
LEMMA SummedBetween ==
    ASSUME NEW S, IsFiniteSet(S), NEW f, NEW h, NEW lo \in Nat, NEW hi \in Nat,
           \A x \in S : /\ f[x] \in Nat /\ h[x] \in Nat
                        /\ lo * f[x] <= h[x] /\ h[x] <= hi * f[x]
    PROVE  lo * Summed(f, S) <= Summed(h, S) /\ Summed(h, S) <= hi * Summed(f, S)
  <1> DEFINE P == {T \in SUBSET S : /\ lo * Summed(f, T) <= Summed(h, T)
                                    /\ Summed(h, T) <= hi * Summed(f, T)}
  <1>0. ASSUME NEW T \in SUBSET S
        PROVE  /\ Summed(h, {}) = 0 /\ Summed(f, {}) = 0
               /\ Summed(h, T) \in Nat /\ Summed(f, T) \in Nat
               /\ \A x \in T : /\ Summed(h, T) = h[x] + Summed(h, T \ {x})
                               /\ Summed(f, T) = f[x] + Summed(f, T \ {x})
    <2>1. IsFiniteSet(T) /\ (\A x \in T : f[x] \in Nat) /\ \A x \in T : h[x] \in Nat
      BY FS_Subset
    <2> QED
      BY <2>1, SummedSteps
  <1>1. {} \in P
    <2>1. lo * 0 = 0 /\ hi * 0 = 0
      OBVIOUS
    <2> QED
      BY <1>0, <2>1
  <1>2. ASSUME NEW T \in SUBSET S, T # {}, \A x \in T : T \ {x} \in P
        PROVE  T \in P
    <2>1. PICK x \in T : TRUE
      BY <1>2
    <2> DEFINE R == T \ {x}
               a == f[x]
               b == Summed(f, R)
               c == h[x]
               d == Summed(h, R)
    <2>2. lo * b <= d /\ d <= hi * b /\ lo * a <= c /\ c <= hi * a
      BY <1>2, <2>1
    <2>3. a \in Nat /\ b \in Nat /\ c \in Nat /\ d \in Nat
      BY <1>0, <2>1
    <2>4. Summed(f, T) = a + b /\ Summed(h, T) = c + d
      BY <1>0, <2>1
    <2> HIDE DEF a, b, c, d
    <2>5. lo * (a + b) = lo * a + lo * b /\ hi * (a + b) = hi * a + hi * b
          /\ lo * a \in Nat /\ lo * b \in Nat /\ hi * a \in Nat /\ hi * b \in Nat
      BY <2>3, Distributes
    <2>6. lo * (a + b) <= c + d /\ c + d <= hi * (a + b)
      BY <2>2, <2>3, <2>5
    <2> QED
      BY <2>4, <2>6
  <1> HIDE DEF P
  <1>3. S \in P
    BY <1>1, <1>2, SubsetSteps
  <1> QED
    BY <1>3 DEF P

LEMMA QuotientBetween ==
    ASSUME NEW lo \in Nat, NEW hi \in Nat, NEW a \in Nat, NEW b \in Nat, b > 0,
           lo * b <= a, a <= hi * b
    PROVE  lo <= a \div b /\ a \div b <= hi
  <1> DEFINE k == a \div b
             r == a % b
  <1>1. k \in Nat /\ r \in Nat /\ r < b /\ a = b * k + r
    BY SMTT(30)
  <1> HIDE DEF k, r
  <1>2. lo <= k
    <2> SUFFICES ASSUME k + 1 <= lo PROVE FALSE
      BY <1>1
    <2>1. (k + 1) * b <= lo * b /\ (k + 1) * b \in Nat /\ lo * b \in Nat
      BY <1>1, Products
    <2>2. (k + 1) * b = b * k + b
      BY <1>1
    <2>3. b * k \in Nat
      BY <1>1
    <2> QED
      BY <1>1, <2>1, <2>2, <2>3
  <1>3. k <= hi
    <2> SUFFICES ASSUME hi + 1 <= k PROVE FALSE
      BY <1>1
    <2>1. (hi + 1) * b <= k * b /\ (hi + 1) * b \in Nat /\ k * b \in Nat /\ hi * b \in Nat
      BY <1>1, Products
    <2>2. (hi + 1) * b = hi * b + b /\ k * b = b * k
      BY <1>1
    <2> QED
      BY <1>1, <2>1, <2>2
  <1> QED
    BY <1>2, <1>3 DEF k

LEMMA SubScoresAre ==
    ASSUME NEW q \in ScoreQuestions
    PROVE  LET parts == DOMAIN SubScores(q)
           IN  /\ parts \subseteq DOMAIN ScoreWeights /\ "technical" \in parts
               /\ IsFiniteSet(parts)
               /\ \A p \in parts : SubScores(q)[p] \in Nat
  <1> DEFINE Optional == {"derivatives", "microstructure", "news", "volatility"}
             sub == SubScores(q)
  <1>1. /\ q.confidence \in {34, 90} /\ q.direction \in {-1, 0, 1}
        /\ q.features \in UNION {[P -> {10, 80}] : P \in SUBSET Optional}
    BY DEF ScoreQuestions
  <1>2. PICK P \in SUBSET Optional : q.features \in [P -> {10, 80}]
    BY <1>1
  <1>3. RegimeAlignment(q.regime, q.direction) \in Nat
    BY <1>1 DEF RegimeAlignment
  <1>4. DOMAIN sub = P \union {"technical", "macro"}
    BY <1>2 DEF SubScores
  <1>5. \A p \in DOMAIN sub : sub[p] \in Nat
    BY <1>1, <1>2, <1>3 DEF SubScores
  <1>6. IsFiniteSet(DOMAIN ScoreWeights)
    <2>1. \A x : IsFiniteSet({x})
      BY FS_Singleton
    <2>2. \A S, T : IsFiniteSet(S) /\ IsFiniteSet(T) => IsFiniteSet(S \union T)
      BY FS_Union
    <2>3. IsFiniteSet((({"technical"} \union {"macro"}) \union ({"derivatives"} \union {"microstructure"}))
                        \union ({"news"} \union {"volatility"}))
      BY <2>1, <2>2
    <2>4. DOMAIN ScoreWeights
            = (({"technical"} \union {"macro"}) \union ({"derivatives"} \union {"microstructure"}))
                \union ({"news"} \union {"volatility"})
      BY DEF ScoreWeights
    <2> QED
      BY <2>3, <2>4
  <1>7. DOMAIN sub \subseteq DOMAIN ScoreWeights
    BY <1>4 DEF ScoreWeights
  <1>8. IsFiniteSet(DOMAIN sub)
    BY <1>6, <1>7, FS_Subset
  <1> QED
    BY <1>4, <1>5, <1>7, <1>8

LEMMA ScoreFollows == QuestionInv => ScoreIsBetweenItsParts
  <1> SUFFICES ASSUME QuestionInv, Answered("score") PROVE ScoreIsBetweenItsParts
    BY DEF ScoreIsBetweenItsParts
  <1> DEFINE sub == SubScores(asked)
             parts == DOMAIN sub
             V == {sub[p] : p \in parts}
             weighted == [p \in parts |-> ScoreWeights[p] * sub[p]]
  <1>1. asked \in ScoreQuestions /\ answer[1] = CompositeScore(asked)
    BY DEF QuestionInv, AskedIs, AnswersAre, Answered
  <1>2. /\ parts \subseteq DOMAIN ScoreWeights /\ "technical" \in parts
        /\ IsFiniteSet(parts) /\ \A p \in parts : sub[p] \in Nat
    BY <1>1, SubScoresAre
  <1>3. answer[1] = Summed(weighted, parts) \div Summed(ScoreWeights, parts)
    BY <1>1 DEF CompositeScore
  <1> HIDE DEF sub
  <1>4. IsFiniteSet(V) /\ V \in SUBSET Nat /\ V # {}
    <2>1. IsFiniteSet(V)
      BY <1>2, FiniteImage
    <2> QED
      BY <1>2, <2>1
  <1>5. Max(V) \in V /\ \A x \in V : Max(V) >= x
    <2> HIDE DEF V
    <2> QED
      BY <1>4, GreatestOfFinite
  <1>6. Min(V) \in V /\ \A x \in V : Min(V) <= x
    <2> HIDE DEF V
    <2>1. PICK m \in V : \A x \in V : m <= x
      BY <1>4, LeastNatural
    <2>2. V \subseteq Int
      BY <1>4
    <2>3. Min(V) = m
      BY <2>1, <2>2, MinIs
    <2> QED
      BY <2>1, <2>3
  <1> DEFINE lo == Min(V)
             hi == Max(V)
  <1>7. lo \in Nat /\ hi \in Nat /\ \A p \in parts : lo <= sub[p] /\ sub[p] <= hi
    BY <1>4, <1>5, <1>6
  <1>8. \A p \in parts : ScoreWeights[p] \in Nat /\ ScoreWeights[p] > 0
    BY <1>2 DEF ScoreWeights
  <1> HIDE DEF lo, hi, V
  <1>9. \A p \in parts : /\ ScoreWeights[p] \in Nat /\ weighted[p] \in Nat
                         /\ lo * ScoreWeights[p] <= weighted[p]
                         /\ weighted[p] <= hi * ScoreWeights[p]
    <2> SUFFICES ASSUME NEW p \in parts
                 PROVE  /\ weighted[p] \in Nat
                        /\ lo * ScoreWeights[p] <= weighted[p]
                        /\ weighted[p] <= hi * ScoreWeights[p]
      BY <1>8
    <2>1. weighted[p] = ScoreWeights[p] * sub[p]
      OBVIOUS
    <2> HIDE DEF weighted
    <2> QED
      BY <1>2, <1>7, <1>8, <2>1, Shares
  <1> HIDE DEF weighted, parts
  <1> DEFINE total == Summed(ScoreWeights, parts)
             score == Summed(weighted, parts)
  <1>10. total \in Nat /\ score \in Nat /\ total > 0
    <2>1. \A p \in parts : ScoreWeights[p] \in Nat
      BY <1>8
    <2>2. total \in Nat /\ total = ScoreWeights["technical"] + Summed(ScoreWeights, parts \ {"technical"})
      BY <1>2, <2>1, SummedSteps
    <2>3. score \in Nat
      BY <1>2, <1>9, SummedSteps
    <2>4. Summed(ScoreWeights, parts \ {"technical"}) \in Nat
      <3>1. parts \ {"technical"} \in SUBSET parts
        OBVIOUS
      <3> QED
        BY <1>2, <2>1, <3>1, SummedPart
    <2> QED
      BY <1>2, <1>8, <2>2, <2>3, <2>4
  <1>11. lo * total <= score /\ score <= hi * total
    BY <1>2, <1>7, <1>9, SummedBetween
  <1> HIDE DEF total, score
  <1>12. lo <= score \div total /\ score \div total <= hi
    BY <1>7, <1>10, <1>11, QuotientBetween
  <1> QED
    BY <1>3, <1>12 DEF ScoreIsBetweenItsParts, lo, hi, V, sub, parts, total, score, weighted

--------------------------------------------------------------------------------
(* The calendar. *)

LEMMA IntervalIsFinite ==
    ASSUME NEW a \in Int, NEW b \in Int
    PROVE  IsFiniteSet(a..b)
  BY FS_Interval

YearLength(y) == IF Leap(y) THEN 366 ELSE 365
YearLengths == [y \in Nat |-> YearLength(y)]
MonthLengths(y) == [k \in 1..12 |-> MonthLength(y, k)]

\* The days before a year, and before a month of a year.
DaysTo(y) == Summed(YearLengths, 2024..(y - 1))
DaysWithin(y, m) == Summed(MonthLengths(y), 1..(m - 1))

LEMMA LengthsAre ==
    ASSUME NEW y \in Nat
    PROVE  /\ YearLength(y) \in 365..366
           /\ \A m \in 1..12 : MonthLength(y, m) \in 28..31
           /\ MonthLength(y, 12) = 31
  BY DEF YearLength, MonthLength

LEMMA DayNumberIs ==
    ASSUME NEW y \in Nat, NEW m \in 1..12, NEW t, t.y = y, t.m = m
    PROVE  DayNumber(t) = DaysTo(y) + DaysWithin(y, m) + t.d - 1
  <1> DEFINE Y == 2024..(y - 1)
             M == 1..(m - 1)
             years == [x \in Y |-> IF Leap(x) THEN 366 ELSE 365]
             months == [k \in M |-> MonthLength(y, k)]
             all == MonthLengths(y)
  <1>1. DayNumber(t) = TotalOf(years) + TotalOf(months) + t.d - 1
    BY DEF DayNumber
  <1>2. IsFiniteSet(Y) /\ IsFiniteSet(M)
    BY IntervalIsFinite
  <1>3. \A x \in Y : years[x] \in Nat /\ YearLengths[x] \in Nat /\ years[x] = YearLengths[x]
    BY LengthsAre DEF YearLengths, YearLength
  <1>4. \A k \in M : months[k] \in Nat /\ all[k] \in Nat /\ months[k] = all[k]
    <2>1. \A k \in 1..12 : MonthLength(y, k) \in 28..31
      BY LengthsAre
    <2>2. \A k \in 1..12 : MonthLength(y, k) \in Nat
      BY <2>1
    <2>3. M \subseteq 1..12
      OBVIOUS
    <2> HIDE DEF M
    <2> QED
      BY <2>2, <2>3 DEF MonthLengths
  <1>5. years \in [Y -> Nat] /\ months \in [M -> Nat]
    <2>1. years = [x \in Y |-> years[x]] /\ months = [k \in M |-> months[k]]
      OBVIOUS
    <2> HIDE DEF years, months
    <2> QED
      BY <1>3, <1>4, <2>1
  <1> HIDE DEF Y, M, years, months, all
  <1>6. TotalOf(years) = Summed(years, Y) /\ TotalOf(months) = Summed(months, M)
    BY <1>5, SumIsSummed
  <1>7. Summed(years, Y) = Summed(YearLengths, Y)
    BY <1>2, <1>3, SummedAlike
  <1>8. Summed(months, M) = Summed(all, M)
    BY <1>2, <1>4, SummedAlike
  <1> QED
    BY <1>1, <1>6, <1>7, <1>8 DEF DaysTo, DaysWithin, Y, M, all

LEMMA YearsAddUp ==
    ASSUME NEW y \in Nat, y >= 2024
    PROVE  DaysTo(y) \in Nat /\ DaysTo(y + 1) = DaysTo(y) + YearLength(y)
  <1> DEFINE Y == 2024..(y - 1)
             Z == 2024..((y + 1) - 1)
  <1>1. /\ IsFiniteSet(Y) /\ IsFiniteSet(Z) /\ Z \subseteq Nat /\ y \in Z /\ Z \ {y} = Y
        /\ Y \subseteq Nat
    <2>1. IsFiniteSet(Y) /\ IsFiniteSet(Z)
      BY IntervalIsFinite
    <2> QED
      BY <2>1
  <1>2. \A x \in Nat : YearLengths[x] \in Nat
    BY LengthsAre DEF YearLengths
  <1> HIDE DEF Y, Z
  <1>3. (\A x \in Z : YearLengths[x] \in Nat) /\ \A x \in Y : YearLengths[x] \in Nat
    BY <1>1, <1>2
  <1>4. Summed(YearLengths, Z) = YearLengths[y] + Summed(YearLengths, Y)
    <2>1. IsFiniteSet(Z) /\ y \in Z /\ Z \ {y} = Y
      BY <1>1
    <2>2. \A x \in Z : Summed(YearLengths, Z) = YearLengths[x] + Summed(YearLengths, Z \ {x})
      BY <1>3, <2>1, SummedSteps
    <2> QED
      BY <2>1, <2>2
  <1>6. Summed(YearLengths, Y) \in Nat
    <2>1. IsFiniteSet(Y)
      BY <1>1
    <2> QED
      BY <1>3, <2>1, SummedSteps
  <1>5. YearLengths[y] = YearLength(y) /\ YearLength(y) \in Nat
    BY LengthsAre DEF YearLengths
  <1> QED
    BY <1>4, <1>5, <1>6 DEF DaysTo, Y, Z

LEMMA MonthsAddUp ==
    ASSUME NEW y \in Nat, NEW m \in 1..12
    PROVE  /\ DaysWithin(y, m) \in Nat
           /\ DaysWithin(y, 1) = 0
           /\ DaysWithin(y, m + 1) = DaysWithin(y, m) + MonthLength(y, m)
  <1> DEFINE M == 1..(m - 1)
             N == 1..((m + 1) - 1)
  <1>1. /\ IsFiniteSet(M) /\ IsFiniteSet(N) /\ N \subseteq 1..12 /\ m \in N /\ N \ {m} = M
    <2>1. IsFiniteSet(M) /\ IsFiniteSet(N)
      BY IntervalIsFinite
    <2> QED
      BY <2>1
  <1>2. \A k \in N : MonthLengths(y)[k] \in Nat
    <2>1. \A k \in 1..12 : MonthLength(y, k) \in 28..31
      BY LengthsAre
    <2>2. \A k \in 1..12 : MonthLengths(y)[k] \in Nat
      BY <2>1 DEF MonthLengths
    <2> HIDE DEF N
    <2> QED
      BY <1>1, <2>2
  <1> HIDE DEF M, N
  <1>3. Summed(MonthLengths(y), N) = MonthLengths(y)[m] + Summed(MonthLengths(y), M)
    BY <1>1, <1>2, SummedSteps
  <1>4. Summed(MonthLengths(y), M) \in Nat /\ Summed(MonthLengths(y), {}) = 0
    BY <1>1, <1>2, SummedSteps
  <1>5. MonthLengths(y)[m] = MonthLength(y, m) /\ MonthLength(y, m) \in Nat
    BY LengthsAre DEF MonthLengths
  <1>6. 1..(1 - 1) = {}
    OBVIOUS
  <1> QED
    BY <1>3, <1>4, <1>5, <1>6 DEF DaysWithin, M, N

LEMMA DecemberIs ==
    ASSUME NEW y \in Nat
    PROVE  DaysWithin(y, 12) = YearLength(y) - 31 /\ DaysWithin(y, 12) >= 334
  <1> DEFINE d(m) == DaysWithin(y, m)
  <1>1. \A m \in 1..12 : d(m) \in Nat /\ d(m + 1) = d(m) + MonthLength(y, m)
    BY MonthsAddUp
  <1>2. d(1) = 0
    BY MonthsAddUp
  <1> HIDE DEF d
  <1> DEFINE f == IF Leap(y) THEN 29 ELSE 28
  <1>3. /\ MonthLength(y, 1) = 31 /\ MonthLength(y, 2) = f /\ MonthLength(y, 3) = 31
        /\ MonthLength(y, 4) = 30 /\ MonthLength(y, 5) = 31 /\ MonthLength(y, 6) = 30
        /\ MonthLength(y, 7) = 31 /\ MonthLength(y, 8) = 31 /\ MonthLength(y, 9) = 30
        /\ MonthLength(y, 10) = 31 /\ MonthLength(y, 11) = 30
    BY DEF MonthLength
  <1>4. f \in 28..29 /\ YearLength(y) = 337 + f
    BY DEF YearLength
  <1> HIDE DEF f
  <1>5. d(2) = 31 /\ d(3) = 31 + f /\ d(4) = 62 + f
    <2>1. d(1 + 1) = 31
      BY <1>1, <1>2, <1>3
    <2>2. d(2 + 1) = d(2) + f
      BY <1>1, <1>3
    <2>3. d(3 + 1) = d(3) + 31
      BY <1>1, <1>3
    <2> QED
      BY <1>4, <2>1, <2>2, <2>3
  <1>6. d(5) = 92 + f /\ d(6) = 123 + f /\ d(7) = 153 + f
    <2>1. d(4 + 1) = d(4) + 30 /\ d(5 + 1) = d(5) + 31 /\ d(6 + 1) = d(6) + 30
      BY <1>1, <1>3
    <2> QED
      BY <1>4, <1>5, <2>1
  <1>7. d(8) = 184 + f /\ d(9) = 215 + f /\ d(10) = 245 + f
    <2>1. d(7 + 1) = d(7) + 31 /\ d(8 + 1) = d(8) + 31 /\ d(9 + 1) = d(9) + 30
      BY <1>1, <1>3
    <2> QED
      BY <1>4, <1>6, <2>1
  <1>8. d(11) = 276 + f /\ d(12) = 306 + f
    <2>1. d(10 + 1) = d(10) + 31 /\ d(11 + 1) = d(11) + 30
      BY <1>1, <1>3
    <2> QED
      BY <1>4, <1>7, <2>1
  <1> QED
    BY <1>4, <1>8 DEF d

StartOf(y, m) == DaysTo(y) + DaysWithin(y, m)

LEMMA StartsAre ==
    ASSUME NEW y \in Nat, y >= 2024, NEW m \in 1..12
    PROVE  /\ StartOf(y, m) \in Nat
           /\ m < 12 => StartOf(y, m + 1) = StartOf(y, m) + MonthLength(y, m)
           /\ m = 12 => StartOf(y + 1, 1) = StartOf(y, m) + 31
           /\ StartOf(y, 1) + 334 <= StartOf(y, 12)
           /\ \A t : t.y = y /\ t.m = m => DayNumber(t) = StartOf(y, m) + t.d - 1
  <1>1. DaysTo(y) \in Nat /\ DaysTo(y + 1) = DaysTo(y) + YearLength(y)
    BY YearsAddUp
  <1>2. /\ DaysWithin(y, m) \in Nat /\ DaysWithin(y, 1) = 0
        /\ DaysWithin(y, m + 1) = DaysWithin(y, m) + MonthLength(y, m)
    <2> DEFINE d(k) == DaysWithin(y, k)
    <2>1. \A k \in 1..12 : d(k) \in Nat /\ d(k + 1) = d(k) + MonthLength(y, k)
      BY MonthsAddUp
    <2>2. d(1) = 0
      BY MonthsAddUp
    <2> HIDE DEF d
    <2>3. d(m) \in Nat /\ d(1) = 0 /\ d(m + 1) = d(m) + MonthLength(y, m)
      BY <2>1, <2>2
    <2> QED
      BY <2>3 DEF d
  <1>3. DaysWithin(y + 1, 1) = 0
    BY MonthsAddUp
  <1>4. DaysWithin(y, 12) = YearLength(y) - 31 /\ DaysWithin(y, 12) >= 334
    BY DecemberIs
  <1>5. YearLength(y) \in Nat /\ MonthLength(y, m) \in Nat
    BY LengthsAre
  <1>6. \A t : t.y = y /\ t.m = m => DayNumber(t) = StartOf(y, m) + t.d - 1
    BY DayNumberIs DEF StartOf
  <1>7. StartOf(y, m) \in Nat /\ (m < 12 => StartOf(y, m + 1) = StartOf(y, m) + MonthLength(y, m))
    BY <1>1, <1>2, <1>5 DEF StartOf
  <1>8. m = 12 => StartOf(y + 1, 1) = StartOf(y, m) + 31
    BY <1>1, <1>3, <1>4, <1>5 DEF StartOf
  <1>9. StartOf(y, 1) + 334 <= StartOf(y, 12)
    BY <1>1, <1>2, <1>4, <1>5 DEF StartOf
  <1> QED
    BY <1>6, <1>7, <1>8, <1>9

LEMMA LastThursdayIs ==
    ASSUME NEW y \in Nat, y >= 2024, NEW m \in 1..12
    PROVE  LET L == LastThursdayOfMonth(y, m) IN
           /\ L.y = y /\ L.m = m /\ L.d \in Nat /\ L.d >= 1 /\ L.d <= MonthLength(y, m)
           /\ DayNumber(L) = StartOf(y, m) + L.d - 1
           /\ IsWeeklyExpiry(L) /\ IsExpiryDay(L)
  <1> DEFINE L == LastThursdayOfMonth(y, m)
             last == [y |-> y, m |-> m, d |-> MonthLength(y, m)]
             len == MonthLength(y, m)
             n == StartOf(y, m) + len - 1
             back == ((n % 7) - 3) % 7
  <1>1. len \in 28..31 /\ StartOf(y, m) \in Nat
    BY LengthsAre, StartsAre
  <1>2. DayNumber(last) = n
    BY StartsAre
  <1>3. L = [y |-> y, m |-> m, d |-> len - back]
    BY <1>2 DEF LastThursdayOfMonth
  <1>4. n \in Nat
    BY <1>1
  <1>5. back \in 0..6 /\ (n - back) % 7 = 3
    <2> HIDE DEF n
    <2> QED
      BY <1>4
  <1>6. L.y = y /\ L.m = m /\ L.d = len - back
    BY <1>3
  <1>7. DayNumber(L) = StartOf(y, m) + L.d - 1
    BY <1>6, StartsAre
  <1>8. IsExpiryDay(L)
    BY <1>6 DEF IsExpiryDay
  <1> HIDE DEF L, back, last, len
  <1>9. L.d \in Nat /\ L.d >= 1 /\ L.d <= len
    BY <1>1, <1>5, <1>6
  <1>10. DayNumber(L) = n - back
    BY <1>1, <1>5, <1>6, <1>7
  <1> QED
    BY <1>5, <1>6, <1>7, <1>8, <1>9, <1>10 DEF IsWeeklyExpiry, L, len

LEMMA ExpiryYearsAre == \A x \in ExpiryYears : x \in Nat /\ x >= 2024
  BY PlanningAssumption

LEMMA NextExpiryFollows == QuestionInv => NextExpiryIsTheFirst
  <1> SUFFICES ASSUME QuestionInv, Answered("expiry") PROVE NextExpiryIsTheFirst
    BY DEF NextExpiryIsTheFirst
  <1> DEFINE t == asked.date
             a == answer[1]
             Near == {u \in [y : {t.y, a.y}, m : {t.m, a.m}, d : 1..31] : u.d <= MonthLength(u.y, u.m)}
             first == /\ IsExpiryDay(a) /\ IsWeeklyExpiry(a)
                      /\ DayNumber(a) >= DayNumber(t)
                      /\ \A u \in Near : IsExpiryDay(u) /\ DayNumber(u) >= DayNumber(t)
                                           => DayNumber(u) >= DayNumber(a)
  <1>1. t \in Dates /\ a = NextExpiry(t)
    BY DEF QuestionInv, AskedIs, AnswersAre, Answered
  <1>2. PICK y \in Nat, m \in 1..12, d \in Nat :
           y = t.y /\ m = t.m /\ d = t.d /\ y >= 2024 /\ d >= 1 /\ d <= 31 /\ d <= MonthLength(y, m)
    <2>1. t.y \in ExpiryYears /\ t.m \in 1..12 /\ t.d \in 1..31 /\ t.d <= MonthLength(t.y, t.m)
      BY <1>1 DEF Dates
    <2>2. t.y \in Nat /\ t.y >= 2024
      BY <2>1, ExpiryYearsAre
    <2>3. t.d \in Nat /\ t.d >= 1 /\ t.d <= 31
      BY <2>1
    <2> HIDE DEF t
    <2> QED
      BY <2>1, <2>2, <2>3
  <1> DEFINE L == LastThursdayOfMonth(y, m)
  <1>3. /\ L.y = y /\ L.m = m /\ L.d \in Nat /\ L.d >= 1 /\ L.d <= MonthLength(y, m)
        /\ DayNumber(L) = StartOf(y, m) + L.d - 1 /\ IsWeeklyExpiry(L) /\ IsExpiryDay(L)
    BY <1>2, LastThursdayIs
  <1>4. DayNumber(t) = StartOf(y, m) + d - 1
    BY <1>2, StartsAre
  <1>5. StartOf(y, m) \in Nat /\ MonthLength(y, m) \in 28..31
    <2>1. StartOf(y, m) \in Nat
      BY <1>2, StartsAre
    <2> QED
      BY <2>1, LengthsAre
  <1>6. \A u \in Near : IsExpiryDay(u) => u = LastThursdayOfMonth(u.y, u.m)
    BY DEF IsExpiryDay
  <1>7. \A u \in Near : u.y \in {t.y, a.y} /\ u.m \in {t.m, a.m}
    OBVIOUS
  <1> HIDE DEF t, a, L, Near
  <1>8. CASE d <= L.d
    <2>1. a = L
      BY <1>1, <1>2, <1>8 DEF NextExpiry, L
    <2>2. \A u \in Near : IsExpiryDay(u) => u = a
      BY <1>2, <1>3, <1>6, <1>7, <2>1 DEF L
    <2>3. DayNumber(a) >= DayNumber(t)
      BY <1>3, <1>4, <1>5, <1>8, <2>1
    <2>4. \A u \in Near : IsExpiryDay(u) => DayNumber(u) >= DayNumber(a)
      <3>1. DayNumber(a) \in Int
        BY <1>3, <1>5, <2>1
      <3> QED
        BY <2>2, <3>1
    <2> QED
      BY <1>3, <2>1, <2>3, <2>4 DEF NextExpiryIsTheFirst, t, a, Near
  <1>9. CASE d > L.d /\ m = 12
    <2>1. a = LastThursdayOfMonth(y + 1, 1)
      BY <1>1, <1>2, <1>3, <1>9 DEF NextExpiry, L
    <2>2. /\ a.y = y + 1 /\ a.m = 1 /\ a.d \in Nat /\ a.d >= 1 /\ a.d <= MonthLength(y + 1, 1)
          /\ DayNumber(a) = StartOf(y + 1, 1) + a.d - 1 /\ IsWeeklyExpiry(a) /\ IsExpiryDay(a)
      BY <1>2, <2>1, LastThursdayIs
    <2>3. /\ StartOf(y + 1, 1) = StartOf(y, 12) + 31 /\ StartOf(y, 1) + 334 <= StartOf(y, 12)
          /\ StartOf(y, 1) \in Nat /\ StartOf(y, 12) \in Nat
          /\ StartOf(y + 1, 1) \in Nat /\ StartOf(y + 1, 12) \in Nat
          /\ StartOf(y + 1, 1) + 334 <= StartOf(y + 1, 12)
      BY <1>2, <1>9, StartsAre
    <2>4. MonthLength(y, 1) = 31 /\ MonthLength(y + 1, 1) = 31
      BY DEF MonthLength
    <2>5. DayNumber(a) >= DayNumber(t)
      BY <1>2, <1>4, <1>9, <2>2, <2>3
    <2>6. ASSUME NEW u \in Near, IsExpiryDay(u), DayNumber(u) >= DayNumber(t)
          PROVE  DayNumber(u) >= DayNumber(a)
      <3>1. u.y \in {y, y + 1} /\ u.m \in {1, 12} /\ u = LastThursdayOfMonth(u.y, u.m)
        BY <1>2, <1>6, <1>7, <1>9, <2>2, <2>6
      <3>2. CASE u.y = y /\ u.m = 12
        <4>1. u = L
          BY <1>9, <3>1, <3>2 DEF L
        <4> QED
          BY <1>3, <1>4, <1>5, <1>9, <2>6, <4>1
      <3>3. CASE u.y = y /\ u.m = 1
        <4>1. DayNumber(u) = StartOf(y, 1) + u.d - 1 /\ u.d \in Nat /\ u.d <= 31
          BY <1>2, <2>4, <3>1, <3>3, LastThursdayIs
        <4> QED
          BY <1>2, <1>4, <1>9, <2>3, <2>6, <4>1
      <3>4. CASE u.y = y + 1 /\ u.m = 1
        <4>1. u = a
          BY <2>1, <3>1, <3>4
        <4> QED
          BY <2>2, <2>3, <4>1
      <3>5. CASE u.y = y + 1 /\ u.m = 12
        <4>1. DayNumber(u) = StartOf(y + 1, 12) + u.d - 1 /\ u.d \in Nat /\ u.d >= 1
          BY <1>2, <3>1, <3>5, LastThursdayIs
        <4> QED
          BY <2>2, <2>3, <2>4, <4>1
      <3> QED
        BY <3>1, <3>2, <3>3, <3>4, <3>5
    <2> QED
      BY <2>2, <2>5, <2>6 DEF NextExpiryIsTheFirst, t, a, Near
  <1>10. CASE d > L.d /\ m # 12
    <2>1. a = LastThursdayOfMonth(y, m + 1)
      BY <1>1, <1>2, <1>3, <1>10 DEF NextExpiry, L
    <2>2. m + 1 \in 1..12 /\ m < 12
      BY <1>10
    <2>3. /\ a.y = y /\ a.m = m + 1 /\ a.d \in Nat /\ a.d >= 1
          /\ DayNumber(a) = StartOf(y, m + 1) + a.d - 1 /\ IsWeeklyExpiry(a) /\ IsExpiryDay(a)
      BY <1>2, <2>1, <2>2, LastThursdayIs
    <2>4. StartOf(y, m + 1) = StartOf(y, m) + MonthLength(y, m)
      BY <1>2, <2>2, StartsAre
    <2>5. DayNumber(a) >= DayNumber(t) /\ DayNumber(a) \in Int
      BY <1>2, <1>4, <1>5, <2>3, <2>4
    <2>6. ASSUME NEW u \in Near, IsExpiryDay(u), DayNumber(u) >= DayNumber(t)
          PROVE  DayNumber(u) >= DayNumber(a)
      <3>1. u.y = y /\ u.m \in {m, m + 1} /\ u = LastThursdayOfMonth(u.y, u.m)
        BY <1>2, <1>6, <1>7, <2>3, <2>6
      <3>2. CASE u.m = m
        <4>1. u = L
          BY <3>1, <3>2 DEF L
        <4> QED
          BY <1>3, <1>4, <1>5, <1>10, <2>6, <4>1
      <3>3. CASE u.m = m + 1
        BY <2>1, <2>5, <3>1, <3>3
      <3> QED
        BY <3>1, <3>2, <3>3
    <2> QED
      BY <2>3, <2>5, <2>6 DEF NextExpiryIsTheFirst, t, a, Near
  <1> QED
    BY <1>2, <1>3, <1>8, <1>9, <1>10

--------------------------------------------------------------------------------
(* Sums by groups, counts and products. *)

\* Of the elements of S those with the key k.
Group(S, key, k) == {x \in S : key[x] = k}

\* A sum is that of the sums of its groups.
LEMMA SummedGroups ==
    ASSUME NEW S, IsFiniteSet(S), NEW f, \A x \in S : f[x] \in Int,
           NEW K, IsFiniteSet(K), NEW key, \A x \in S : key[x] \in K
    PROVE  Summed([k \in K |-> Summed(f, Group(S, key, k))], K) = Summed(f, S)
  <1> DEFINE G(T) == [k \in K |-> Summed(f, Group(T, key, k))]
             P == {T \in SUBSET S : Summed(G(T), K) = Summed(f, T)}
  <1>0. ASSUME NEW T \in SUBSET S
        PROVE  /\ Summed(f, T) \in Int /\ Summed(f, {}) = 0
               /\ \A x \in T : Summed(f, T) = f[x] + Summed(f, T \ {x})
    <2>1. IsFiniteSet(T) /\ \A x \in T : f[x] \in Int
      BY FS_Subset
    <2> QED
      BY <2>1, SummedMoves
  <1>1. {} \in P
    <2>1. \A k \in K : Group({}, key, k) = {}
      BY DEF Group
    <2>2. \A k \in K : G({})[k] = 0
      BY <1>0, <2>1
    <2> HIDE DEF G
    <2>3. Summed(G({}), K) = 0 * Cardinality(K)
      BY <2>2, SummedConstant
    <2>4. Summed(G({}), K) = 0
      BY <2>3, FS_CardinalityType
    <2> QED
      BY <1>0, <2>4
  <1>2. ASSUME NEW T \in SUBSET S, T # {}, \A x \in T : T \ {x} \in P
        PROVE  T \in P
    <2>1. PICK x \in T : TRUE
      BY <1>2
    <2> DEFINE R == T \ {x}
               k0 == key[x]
    <2>2. R \in SUBSET S /\ k0 \in K /\ Summed(G(R), K) = Summed(f, R)
      BY <1>2
    <2>3. \A k \in K : /\ Group(T, key, k) \in SUBSET S /\ Group(R, key, k) \in SUBSET S
                       /\ k # k0 => Group(T, key, k) = Group(R, key, k)
      BY DEF Group
    <2>4. x \in Group(T, key, k0) /\ Group(T, key, k0) \ {x} = Group(R, key, k0)
      BY DEF Group
    <2>5. \A k \in K : G(T)[k] \in Int /\ G(R)[k] \in Int /\ (k # k0 => G(T)[k] = G(R)[k])
      BY <1>0, <2>3
    <2>6. G(T)[k0] = f[x] + G(R)[k0] /\ f[x] \in Int
      BY <1>0, <2>2, <2>3, <2>4
    <2>7. Summed(f, T) = f[x] + Summed(f, R) /\ Summed(f, R) \in Int
      BY <1>0, <2>2
    <2> HIDE DEF G, R, k0
    <2>8. Summed(G(T), K) = Summed(G(R), K) - G(R)[k0] + G(T)[k0]
      <3> DEFINE u == G(R)
                 v == G(T)
      <3>1. \A k \in K : u[k] \in Int /\ v[k] \in Int /\ (k # k0 => v[k] = u[k])
        BY <2>5
      <3> HIDE DEF u, v
      <3>2. Summed(v, K) = Summed(u, K) - u[k0] + v[k0]
        BY <2>2, <3>1, SummedChanges
      <3> QED
        BY <3>2 DEF u, v
    <2>9. G(R)[k0] \in Int
      BY <2>2, <2>5
    <2> QED
      BY <2>2, <2>6, <2>7, <2>8, <2>9
  <1> HIDE DEF P
  <1>3. S \in P
    <2>1. \A T \in SUBSET S : T \in P
      BY <1>1, <1>2, SubsetSteps
    <2> QED
      BY <2>1
  <1> QED
    BY <1>3 DEF P

LEMMA ImagesAreFinite ==
    ASSUME NEW S, IsFiniteSet(S), NEW b
    PROVE  IsFiniteSet({b[x] : x \in S})
  <1> DEFINE e == [x \in S |-> b[x]]
  <1>1. DOMAIN e = S /\ {e[x] : x \in S} = {b[x] : x \in S}
    OBVIOUS
  <1> HIDE DEF e
  <1>2. IsFiniteSet({e[x] : x \in DOMAIN e})
    BY <1>1, FiniteImage
  <1> QED
    BY <1>1, <1>2

\* A sum over the images of a one-to-one function.
LEMMA SummedImage ==
    ASSUME NEW S, IsFiniteSet(S), NEW f, NEW b, NEW U, \A x \in S : b[x] \in U,
           \A u \in U : f[u] \in Int,
           \A x, y \in S : b[x] = b[y] => x = y
    PROVE  Summed(f, {b[x] : x \in S}) = Summed([x \in S |-> f[b[x]]], S)
  <1> DEFINE h == [x \in S |-> f[b[x]]]
             Im(T) == {b[x] : x \in T}
             P == {T \in SUBSET S : Summed(f, Im(T)) = Summed(h, T)}
  <1>0. ASSUME NEW T \in SUBSET S
        PROVE  /\ IsFiniteSet(Im(T)) /\ IsFiniteSet(T) /\ Im(T) \subseteq U
               /\ \A u \in Im(T) : f[u] \in Int
               /\ \A x \in T : h[x] \in Int
    <2>1. IsFiniteSet(T)
      BY FS_Subset
    <2>2. IsFiniteSet(Im(T))
      BY <2>1, ImagesAreFinite
    <2> QED
      BY <2>1, <2>2
  <1>1. {} \in P
    <2>1. Im({}) = {}
      OBVIOUS
    <2>2. IsFiniteSet({})
      BY FS_EmptySet
    <2>3. Summed(f, {}) = 0 /\ Summed(h, {}) = 0
      <3> HIDE DEF h
      <3> QED
        BY <2>2, SummedMoves
    <2> HIDE DEF h, Im
    <2> QED
      BY <2>1, <2>3
  <1>2. ASSUME NEW T \in SUBSET S, T # {}, \A x \in T : T \ {x} \in P
        PROVE  T \in P
    <2>1. PICK x \in T : TRUE
      BY <1>2
    <2> DEFINE R == T \ {x}
    <2>2. Im(T) \ {b[x]} = Im(R) /\ b[x] \in Im(T) /\ h[x] = f[b[x]]
      OBVIOUS
    <2>3. Summed(f, Im(R)) = Summed(h, R)
      BY <1>2
    <2> HIDE DEF h, Im
    <2>4. Summed(f, Im(T)) = f[b[x]] + Summed(f, Im(R))
      <3>1. IsFiniteSet(Im(T)) /\ \A u \in Im(T) : f[u] \in Int
        BY <1>0
      <3>2. \A u \in Im(T) : Summed(f, Im(T)) = f[u] + Summed(f, Im(T) \ {u})
        BY <3>1, SummedMoves
      <3> QED
        BY <2>2, <3>2
    <2>5. Summed(h, T) = h[x] + Summed(h, R)
      <3>1. IsFiniteSet(T) /\ \A y \in T : h[y] \in Int
        BY <1>0
      <3> QED
        BY <3>1, SummedMoves
    <2> QED
      BY <2>2, <2>3, <2>4, <2>5
  <1> HIDE DEF P
  <1>3. S \in P
    <2>1. \A T \in SUBSET S : T \in P
      BY <1>1, <1>2, SubsetSteps
    <2> QED
      BY <2>1
  <1> QED
    BY <1>3 DEF P

\* The groups have together as many elements as the whole.
LEMMA GroupsCount ==
    ASSUME NEW S, IsFiniteSet(S), NEW K, IsFiniteSet(K), NEW key, \A x \in S : key[x] \in K
    PROVE  Summed([k \in K |-> Cardinality(Group(S, key, k))], K) = Cardinality(S)
  <1> DEFINE f == [x \in S |-> 1]
             g == [k \in K |-> Summed(f, Group(S, key, k))]
             h == [k \in K |-> Cardinality(Group(S, key, k))]
  <1>1. \A x \in S : f[x] = 1
    OBVIOUS
  <1> HIDE DEF f
  <1>2. ASSUME NEW k \in K PROVE g[k] \in Int /\ h[k] = g[k]
    <2> DEFINE A == Group(S, key, k)
    <2>1. IsFiniteSet(A) /\ \A x \in A : f[x] = 1
      BY <1>1, FS_Subset DEF Group
    <2>2. Summed(f, A) = 1 * Cardinality(A)
      <3> HIDE DEF A
      <3> QED
        BY <2>1, SummedConstant
    <2>3. Cardinality(A) \in Nat
      BY <2>1, FS_CardinalityType
    <2> QED
      BY <2>2, <2>3
  <1>3. Summed(g, K) = Summed(f, S)
    BY <1>1, SummedGroups
  <1> HIDE DEF g, h
  <1>4. Summed(h, K) = Summed(g, K)
    BY <1>2, SummedAlike
  <1>5. Summed(f, S) = 1 * Cardinality(S)
    BY <1>1, SummedConstant
  <1> QED
    BY <1>3, <1>4, <1>5, FS_CardinalityType DEF h

\* Entries of 0 do not count, whatever the others are.
LEMMA SummedButZeros ==
    ASSUME NEW S, IsFiniteSet(S), NEW f, \A x \in S : f[x] \in Int,
           NEW U \in SUBSET S, \A x \in S \ U : f[x] = 0
    PROVE  Summed(f, U) = Summed(f, S)
  <1> DEFINE P == {T \in SUBSET S : Summed(f, T \cap U) = Summed(f, T)}
  <1>0. ASSUME NEW T \in SUBSET S
        PROVE  \A x \in T : Summed(f, T) = f[x] + Summed(f, T \ {x}) /\ Summed(f, T \ {x}) \in Int
    <2>1. IsFiniteSet(T) /\ \A x \in T : f[x] \in Int
      BY FS_Subset
    <2>2. \A x \in T : IsFiniteSet(T \ {x}) /\ \A y \in T \ {x} : f[y] \in Int
      BY <2>1, FS_Subset
    <2> QED
      BY <2>1, <2>2, SummedMoves
  <1>1. {} \in P
    <2>1. {} \cap U = {}
      OBVIOUS
    <2> QED
      BY <2>1
  <1>2. ASSUME NEW T \in SUBSET S, T # {}, \A x \in T : T \ {x} \in P
        PROVE  T \in P
    <2>1. PICK x \in T : TRUE
      BY <1>2
    <2>2. Summed(f, (T \ {x}) \cap U) = Summed(f, T \ {x})
      BY <1>2
    <2>3. Summed(f, T) = f[x] + Summed(f, T \ {x}) /\ Summed(f, T \ {x}) \in Int
      BY <1>0
    <2>4. CASE x \in U
      <3>1. (T \cap U) \ {x} = (T \ {x}) \cap U /\ x \in T \cap U /\ T \cap U \in SUBSET S
        BY <2>4
      <3>2. Summed(f, T \cap U) = f[x] + Summed(f, (T \cap U) \ {x})
        BY <1>0, <3>1
      <3> QED
        BY <2>2, <2>3, <3>1, <3>2
    <2>5. CASE x \notin U
      <3>1. T \cap U = (T \ {x}) \cap U /\ f[x] = 0
        BY <2>5
      <3>2. Summed(f, T \cap U) = Summed(f, T \ {x})
        BY <2>2, <3>1
      <3>3. Summed(f, T) = Summed(f, T \ {x})
        BY <2>3, <3>1
      <3> QED
        BY <3>2, <3>3
    <2> QED
      BY <2>4, <2>5
  <1> HIDE DEF P
  <1>3. S \in P
    <2>1. \A T \in SUBSET S : T \in P
      BY <1>1, <1>2, SubsetSteps
    <2> QED
      BY <2>1
  <1>4. S \cap U = U
    OBVIOUS
  <1> QED
    BY <1>3, <1>4 DEF P

LEMMA ImageCount ==
    ASSUME NEW S, IsFiniteSet(S), NEW b, \A x, y \in S : b[x] = b[y] => x = y
    PROVE  Cardinality({b[x] : x \in S}) = Cardinality(S)
  <1> DEFINE T == {b[x] : x \in S}
             e == [x \in S |-> b[x]]
  <1>1. e \in [S -> T] /\ (\A x, y \in S : e[x] = e[y] => x = y) /\ \A u \in T : \E x \in S : e[x] = u
    OBVIOUS
  <1> HIDE DEF T, e
  <1>2. e \in Bijection(S, T)
    BY <1>1 DEF Bijection, Injection, Surjection, IsInjective
  <1>3. ExistsBijection(S, T)
    BY <1>2 DEF ExistsBijection
  <1> QED
    BY <1>3, FS_Bijection DEF T

LEMMA HasLeast ==
    ASSUME NEW T, T \subseteq Nat, T # {}
    PROVE  Min(T) \in T /\ \A y \in T : Min(T) <= y
  <1>1. PICK x \in T : \A y \in T : x <= y
    BY LeastNatural
  <1>2. Min(T) = x
    <2>1. T \subseteq Int
      OBVIOUS
    <2> QED
      BY <1>1, <2>1, MinIs
  <1> QED
    BY <1>1, <1>2

LEMMA ThreeFactors ==
    \A x, y, z \in Int : x * (y * z) = y * (x * z)
  OBVIOUS

MultipliesTo(f, S, g) ==
    /\ g \in [SUBSET S -> Int]
    /\ \A T \in SUBSET S :
         g[T] = IF T = {} THEN 1 ELSE f[PickOf(T)] * g[T \ {PickOf(T)}]

LEMMA MultipliedIs ==
    ASSUME NEW S, IsFiniteSet(S), NEW f, \A x \in S : f[x] \in Int
    PROVE  \E g : MultipliesTo(f, S, g) /\ Multiplied(f, S) = g[S]
  <1> DEFINE pick == [T \in SUBSET S |-> PickOf(T)]
             step == [p \in S \X Int |-> f[p[1]] * p[2]]
             Body(g) == [T \in SUBSET S |-> IF T = {} THEN 1
                                            ELSE f[PickOf(T)] * g[T \ {PickOf(T)}]]
  <1>1. \A T \in SUBSET S : T # {} => PickOf(T) \in T
    BY DEF PickOf
  <1>2. \E g : FoldsOver(S, Int, 1, pick, step, g)
    <2>1. PicksFrom(S, pick)
      BY <1>1 DEF PicksFrom
    <2>2. StepsWithin(S, Int, step)
      BY DEF StepsWithin
    <2> HIDE DEF pick, step
    <2> QED
      BY <2>1, <2>2, FoldExists
  <1>3. PICK g \in [SUBSET S -> Int] :
          \A T \in SUBSET S :
             g[T] = IF T = {} THEN 1 ELSE step[<<pick[T], g[T \ {pick[T]}]>>]
    BY <1>2 DEF FoldsOver
  <1>4. \A T \in SUBSET S : T # {} =>
          step[<<pick[T], g[T \ {pick[T]}]>>] = f[PickOf(T)] * g[T \ {PickOf(T)}]
    <2> TAKE T \in SUBSET S
    <2> HAVE T # {}
    <2>1. PickOf(T) \in S /\ T \ {PickOf(T)} \in SUBSET S /\ pick[T] = PickOf(T)
      BY <1>1
    <2>2. g[T \ {PickOf(T)}] \in Int
      BY <2>1
    <2> HIDE DEF pick
    <2> QED
      BY <2>1, <2>2
  <1>5. g = Body(g)
    <2> HIDE DEF pick, step
    <2>1. \A T \in SUBSET S : g[T] = Body(g)[T]
      BY <1>3, <1>4
    <2>2. Body(g) = [T \in SUBSET S |-> Body(g)[T]]
      OBVIOUS
    <2> HIDE DEF Body
    <2> QED
      BY <2>1, <2>2, <1>3
  <1> DEFINE c == CHOOSE h : h = Body(h)
  <1>6. c = Body(c)
    BY <1>5
  <1>7. Multiplied(f, S) = c[S]
    BY DEF Multiplied, FoldSet, MapThenFoldSet, PickOf
  <1>8. \A T \in SUBSET S : c[T] = IF T = {} THEN 1 ELSE f[PickOf(T)] * c[T \ {PickOf(T)}]
    <2> HIDE DEF c
    <2> QED
      BY <1>6
  <1> DEFINE P == {T \in SUBSET S : c[T] \in Int}
  <1>9. {} \in P
    <2> HIDE DEF c
    <2>1. c[{}] = 1
      BY <1>8
    <2> QED
      BY <2>1
  <1>10. ASSUME NEW T \in SUBSET S, T # {}, \A x \in T : T \ {x} \in P
         PROVE  T \in P
    <2> HIDE DEF c
    <2>1. PickOf(T) \in T /\ T \ {PickOf(T)} \in P
      BY <1>1, <1>10
    <2>2. c[T] = f[PickOf(T)] * c[T \ {PickOf(T)}]
      BY <1>8, <1>10
    <2> QED
      BY <2>1, <2>2
  <1>11. \A T \in SUBSET S : T \in P
    <2> HIDE DEF P
    <2> QED
      BY <1>9, <1>10, SubsetSteps
  <1>12. c \in [SUBSET S -> Int]
    <2> HIDE DEF c
    <2>1. c = [T \in SUBSET S |-> c[T]]
      BY <1>6
    <2> QED
      BY <1>11, <2>1
  <1> HIDE DEF c
  <1> QED
    BY <1>7, <1>8, <1>12 DEF MultipliesTo

\* The product does not depend on the order, nor on the set around a part.
LEMMA MultipliesAny ==
    ASSUME NEW S, IsFiniteSet(S), NEW f, \A x \in S : f[x] \in Int, NEW g, MultipliesTo(f, S, g)
    PROVE  \A T \in SUBSET S, x \in S : x \in T => g[T] = f[x] * g[T \ {x}]
  <1>0. /\ \A T \in SUBSET S : g[T] \in Int
        /\ \A T \in SUBSET S : T # {} => /\ PickOf(T) \in T
                                         /\ g[T] = f[PickOf(T)] * g[T \ {PickOf(T)}]
    BY DEF MultipliesTo, PickOf
  <1> DEFINE P == {T \in SUBSET S : \A x \in T : g[T] = f[x] * g[T \ {x}]}
  <1>1. {} \in P
    OBVIOUS
  <1>2. ASSUME NEW T \in SUBSET S, T # {}, \A x \in T : T \ {x} \in P
        PROVE  T \in P
    <2> SUFFICES ASSUME NEW x \in T PROVE g[T] = f[x] * g[T \ {x}]
      BY <1>2
    <2> DEFINE y == PickOf(T)
    <2>1. y \in T /\ g[T] = f[y] * g[T \ {y}]
      BY <1>0, <1>2
    <2> HIDE DEF y
    <2>2. CASE x = y
      BY <2>1, <2>2
    <2>3. CASE x # y
      <3>1. g[T \ {y}] = f[x] * g[(T \ {y}) \ {x}] /\ g[T \ {x}] = f[y] * g[(T \ {x}) \ {y}]
        BY <1>2, <2>1, <2>3
      <3>2. g[(T \ {y}) \ {x}] = g[(T \ {x}) \ {y}]
        <4>1. (T \ {y}) \ {x} = (T \ {x}) \ {y}
          OBVIOUS
        <4> QED
          BY <4>1
      <3>3. f[x] \in Int /\ f[y] \in Int /\ g[(T \ {x}) \ {y}] \in Int /\ g[T \ {y}] \in Int
            /\ g[T \ {x}] \in Int
        BY <1>0, <2>1
      <3> QED
        BY <2>1, <3>1, <3>2, <3>3, ThreeFactors
    <2> QED
      BY <2>2, <2>3
  <1> HIDE DEF P
  <1>3. \A T \in SUBSET S : T \in P
    BY <1>1, <1>2, SubsetSteps
  <1> QED
    BY <1>3 DEF P

LEMMA MultipliesOne ==
    ASSUME NEW S, IsFiniteSet(S), NEW f, NEW g, MultipliesTo(f, S, g), NEW U \in SUBSET S, NEW k,
           MultipliesTo(f, U, k)
    PROVE  k[U] = g[U]
  <1> DEFINE P == {T \in SUBSET U : k[T] = g[T]}
  <1>0. IsFiniteSet(U)
    BY FS_Subset
  <1>1. {} \in P
    BY DEF MultipliesTo
  <1>2. ASSUME NEW T \in SUBSET U, T # {}, \A x \in T : T \ {x} \in P
        PROVE  T \in P
    <2>1. PickOf(T) \in T
      BY <1>2 DEF PickOf
    <2>2. k[T \ {PickOf(T)}] = g[T \ {PickOf(T)}]
      BY <1>2, <2>1
    <2>3. k[T] = f[PickOf(T)] * k[T \ {PickOf(T)}] /\ g[T] = f[PickOf(T)] * g[T \ {PickOf(T)}]
      BY <1>2 DEF MultipliesTo
    <2> QED
      BY <2>2, <2>3
  <1> HIDE DEF P
  <1>3. \A T \in SUBSET U : T \in P
    BY <1>0, <1>1, <1>2, SubsetSteps
  <1> QED
    BY <1>3 DEF P

LEMMA MultipliedMoves ==
    ASSUME NEW S, IsFiniteSet(S), NEW f, \A x \in S : f[x] \in Int
    PROVE  /\ Multiplied(f, S) \in Int
           /\ Multiplied(f, {}) = 1
           /\ \A x \in S : Multiplied(f, S) = f[x] * Multiplied(f, S \ {x})
  <1>1. PICK g : MultipliesTo(f, S, g) /\ Multiplied(f, S) = g[S]
    BY MultipliedIs
  <1>2. ASSUME NEW U \in SUBSET S PROVE Multiplied(f, U) = g[U]
    <2>1. IsFiniteSet(U) /\ \A x \in U : f[x] \in Int
      BY FS_Subset
    <2>2. PICK k : MultipliesTo(f, U, k) /\ Multiplied(f, U) = k[U]
      BY <2>1, MultipliedIs
    <2> QED
      BY <1>1, <2>2, MultipliesOne
  <1>3. g[S] \in Int /\ g[{}] = 1
    BY <1>1 DEF MultipliesTo
  <1>4. \A x \in S : g[S] = f[x] * g[S \ {x}]
    <2>1. \A T \in SUBSET S, x \in S : x \in T => g[T] = f[x] * g[T \ {x}]
      BY <1>1, MultipliesAny
    <2> QED
      BY <2>1
  <1>5. \A x \in S : S \ {x} \in SUBSET S
    OBVIOUS
  <1> QED
    BY <1>1, <1>2, <1>3, <1>4, <1>5

--------------------------------------------------------------------------------
(* What is read of the past: labels, weights and splits. *)

LEMMA WinsFollow == QuestionInv => WinsAreCertain
  <1> SUFFICES ASSUME QuestionInv, Answered("label") PROVE WinsAreCertain
    BY DEF WinsAreCertain
  <1> DEFINE a == answer[1]
             marks == asked.bars
  <1>1. asked \in LabelQuestions /\ a = TripleBarrier(asked)
    BY DEF QuestionInv, AskedIs, AnswersAre, Answered
  <1>2. marks \in [1..5 -> {"none", "up", "down", "both"}]
    BY <1>1 DEF LabelQuestions
  <1> SUFFICES ASSUME NEW t \in DOMAIN a
               PROVE  LET r == a[t]
                          seen == {marks[t + d] : d \in 1..r.days}
                      IN /\ r.label = 1 => seen \cap {"down", "both"} = {}
                         /\ r.label = 0 <=> seen = {"none"}
    BY DEF WinsAreCertain
  <1> DEFINE hits == {d \in 1..Hold : marks[t + d] # "none"}
  <1>3. t \in 1..5 /\ t + Hold <= Len(marks)
    BY <1>1, <1>2 DEF TripleBarrier, Labelled
  <1>4. Len(marks) = 5
    BY <1>2
  <1>5. a[t] = IF hits = {} THEN [label |-> 0, days |-> Hold]
               ELSE [label |-> BarLabel(marks[t + Min(hits)]), days |-> Min(hits)]
    BY <1>1 DEF TripleBarrier
  <1>6. Hold \in Nat /\ Hold >= 1
    BY BacktestAssumption
  <1>7. CASE hits = {}
    <2>1. a[t].label = 0 /\ a[t].days = Hold
      BY <1>5, <1>7
    <2>2. \A d \in 1..Hold : marks[t + d] = "none"
      BY <1>7
    <2>3. 1 \in 1..Hold
      BY <1>6
    <2> HIDE DEF hits, a, marks
    <2> QED
      BY <2>1, <2>2, <2>3
  <1>8. CASE hits # {}
    <2> DEFINE m == Min(hits)
    <2>1. m \in hits /\ \A d \in hits : m <= d
      <3>1. hits \subseteq Nat
        BY <1>6
      <3> HIDE DEF hits
      <3> QED
        BY <1>8, <3>1, HasLeast
    <2>2. m \in 1..Hold /\ marks[t + m] # "none"
      BY <2>1
    <2>3. marks[t + m] \in {"none", "up", "down", "both"}
      <3>1. m \in Nat /\ m >= 1 /\ m <= Hold
        BY <1>6, <2>2
      <3>2. t + m \in 1..5
        BY <1>3, <1>4, <1>6, <3>1
      <3> QED
        BY <1>2, <3>2
    <2>4. a[t].label = BarLabel(marks[t + m]) /\ a[t].days = m
      BY <1>5, <1>8
    <2>5. \A d \in 1..m : d # m => marks[t + d] = "none"
      <3> SUFFICES ASSUME NEW d \in 1..m, d # m PROVE marks[t + d] = "none"
        OBVIOUS
      <3>1. d \in 1..Hold /\ ~(m <= d)
        BY <1>6, <2>2
      <3> QED
        BY <2>1, <3>1
    <2>6. m \in 1..m
      BY <2>2
    <2> HIDE DEF m, hits, a, marks
    <2>7. a[t].label # 0
      BY <2>4 DEF BarLabel
    <2>8. a[t].label = 1 => marks[t + m] = "up"
      BY <2>4 DEF BarLabel
    <2>9. \E d \in 1..m : marks[t + d] # "none"
      BY <2>2, <2>6
    <2> QED
      BY <2>4, <2>5, <2>7, <2>8, <2>9
  <1> QED
    BY <1>7, <1>8

LEMMA WindowHolds ==
    ASSUME NEW q \in WeightQuestions, NEW i \in 1..4
    PROVE  Window(q, i) \subseteq 1..4
  <1> DEFINE m == Min({i + q.days[i] - 1, Len(q.days)})
  <1>1. q.days \in [1..4 -> 1..3]
    BY DEF WeightQuestions
  <1>2. Len(q.days) = 4 /\ q.days[i] \in Nat
    BY <1>1
  <1>3. i + q.days[i] - 1 \in Int
    BY <1>2
  <1>4. m \in Int /\ m <= 4
    <2> DEFINE k == i + q.days[i] - 1
    <2> HIDE DEF k
    <2>1. Min({k, 4}) = IF k <= 4 THEN k ELSE 4
      BY <1>3, MinOfTwo DEF k
    <2> QED
      BY <1>2, <1>3, <2>1 DEF k
  <1> HIDE DEF m
  <1> QED
    BY <1>4 DEF Window, m

LEMMA DaysFollow == QuestionInv => DaysAreSharedOut
  <1> SUFFICES ASSUME QuestionInv, Answered("weight") PROVE DaysAreSharedOut
    BY DEF DaysAreSharedOut
  <1> DEFINE q == asked
             A == {j \in DOMAIN q.days : q.labelled[j]}
             W(i) == Window(q, i)
             c(d) == Concurrency(q, d)
             U == UNION {W(i) : i \in A}
             Pairs == {p \in A \X (1..4) : p[2] \in W(p[1])}
             first == [p \in Pairs |-> p[1]]
             second == [p \in Pairs |-> p[2]]
             f == [p \in Pairs |-> 12 \div c(p[2])]
             a == answer[1]
  <1>1. q \in WeightQuestions /\ a = Uniqueness(q)
    BY DEF QuestionInv, AskedIs, AnswersAre, Answered
  <1>2. DOMAIN q.days = 1..4 /\ A \subseteq 1..4
    BY <1>1 DEF WeightQuestions
  <1>3. \A i \in A : W(i) \subseteq 1..4
    BY <1>1, <1>2, WindowHolds
  <1>4. IsFiniteSet(1..4) /\ IsFiniteSet(A) /\ U \subseteq 1..4 /\ IsFiniteSet(U)
        /\ \A i \in A : IsFiniteSet(W(i))
    <2>1. IsFiniteSet(1..4)
      <3>1. \A n \in Nat : IsFiniteSet(1..n)
        BY UpToIsFinite
      <3> QED
        BY <3>1
    <2>2. U \subseteq 1..4
      BY <1>3
    <2> QED
      BY <1>2, <1>3, <2>1, <2>2, FS_Subset
  <1>5. IsFiniteSet(Pairs)
    <2>1. IsFiniteSet(A \X (1..4))
      BY <1>4, FS_Product
    <2> QED
      BY <2>1, FS_Subset
  <1>6. ASSUME NEW d \in U
        PROVE  c(d) \in 1..4 /\ (12 \div c(d)) \in Nat /\ (12 \div c(d)) * c(d) = 12
    <2> DEFINE I == {i \in DOMAIN q.days : q.labelled[i] /\ d \in W(i)}
    <2>1. I \subseteq 1..4 /\ I # {}
      BY <1>2
    <2>2. Cardinality(1..4) = 4
      <3>1. \A n \in Nat : Cardinality(1..n) = n
        BY UpToIsFinite
      <3> QED
        BY <3>1
    <2>3. Cardinality(I) <= 4 /\ Cardinality(I) \in Nat /\ Cardinality(I) # 0
      <3> HIDE DEF I
      <3>1. IsFiniteSet(I) /\ Cardinality(I) <= Cardinality(1..4)
        BY <1>4, <2>1, FS_Subset
      <3> QED
        BY <2>1, <2>2, <3>1, FS_CardinalityType, FS_EmptySet
    <2>4. c(d) \in Nat /\ c(d) >= 1 /\ c(d) <= 4
      BY <2>3 DEF Concurrency
    <2>5. c(d) = 1 \/ c(d) = 2 \/ c(d) = 3 \/ c(d) = 4
      BY <2>4
    <2> HIDE DEF c
    <2> QED
      BY <2>5
  <1>7. \A p \in Pairs : p[1] \in A /\ p[2] \in U /\ f[p] = 12 \div c(p[2]) /\ f[p] \in Int
                         /\ first[p] = p[1] /\ second[p] = p[2]
    <2>1. \A p \in Pairs : p[1] \in A /\ p[2] \in U
      OBVIOUS
    <2>2. \A p \in Pairs : f[p] = 12 \div c(p[2]) /\ first[p] = p[1] /\ second[p] = p[2]
      OBVIOUS
    <2> HIDE DEF Pairs, c, U, A, f, first, second
    <2> QED
      BY <1>6, <2>1, <2>2
  <1>8. Summed([i \in A |-> Summed(f, Group(Pairs, first, i))], A) = Summed(f, Pairs)
    <2> HIDE DEF Pairs, A, f, first
    <2> QED
      BY <1>4, <1>5, <1>7, SummedGroups
  <1>9. Summed([d \in U |-> Summed(f, Group(Pairs, second, d))], U) = Summed(f, Pairs)
    <2> HIDE DEF Pairs, U, f, second
    <2> QED
      BY <1>4, <1>5, <1>7, SummedGroups
  <1>10. ASSUME NEW i \in A
         PROVE  /\ a[i] = Summed(f, Group(Pairs, first, i))
                /\ Summed(f, Group(Pairs, first, i)) \in Int
    <2> DEFINE b == [d \in W(i) |-> <<i, d>>]
               w == [d \in W(i) |-> 12 \div c(d)]
    <2>1. Group(Pairs, first, i) = {b[d] : d \in W(i)}
      <3>1. \A p \in Pairs : first[p] = i => p = b[p[2]] /\ p[2] \in W(i)
        OBVIOUS
      <3>2. \A d \in W(i) : b[d] \in Pairs /\ first[b[d]] = i
        BY <1>3
      <3> HIDE DEF b, Pairs, first, W
      <3> QED
        BY <3>1, <3>2 DEF Group
    <2>2. \A d \in W(i) : b[d] \in Pairs /\ w[d] = f[b[d]]
      BY <1>3
    <2>3. \A d, e \in W(i) : b[d] = b[e] => d = e
      OBVIOUS
    <2>4. a[i] = Summed(w, W(i))
      BY <1>1 DEF Uniqueness, UniquenessSum
    <2> HIDE DEF b, w, Pairs, f, first, W, a
    <2>5. Summed(f, {b[d] : d \in W(i)}) = Summed([d \in W(i) |-> f[b[d]]], W(i))
      <3> DEFINE D == W(i)
      <3>1. IsFiniteSet(D) /\ (\A d \in D : b[d] \in Pairs) /\ (\A p \in Pairs : f[p] \in Int)
            /\ \A d, e \in D : b[d] = b[e] => d = e
        BY <1>4, <1>7, <2>2, <2>3
      <3> HIDE DEF D
      <3>2. Summed(f, {b[d] : d \in D}) = Summed([d \in D |-> f[b[d]]], D)
        BY <3>1, SummedImage
      <3> QED
        BY <3>2 DEF D
    <2>6. \A d \in W(i) : f[b[d]] \in Int
      BY <1>7, <2>2
    <2>7. Summed(w, W(i)) = Summed([d \in W(i) |-> f[b[d]]], W(i)) /\ Summed(w, W(i)) \in Int
      <3> DEFINE v == [d \in W(i) |-> f[b[d]]]
      <3>1. \A d \in W(i) : v[d] \in Int /\ w[d] = v[d]
        BY <2>2, <2>6
      <3> HIDE DEF v
      <3>2. Summed(w, W(i)) = Summed(v, W(i)) /\ Summed(v, W(i)) \in Int
        BY <1>4, <3>1, SummedAlike, SummedMoves
      <3> QED
        BY <3>2 DEF v
    <2> QED
      BY <2>1, <2>4, <2>5, <2>7
  <1>11. ASSUME NEW d \in U
         PROVE  Summed(f, Group(Pairs, second, d)) = 12
    <2> DEFINE G == Group(Pairs, second, d)
               I == {i \in DOMAIN q.days : q.labelled[i] /\ d \in W(i)}
               b == [i \in I |-> <<i, d>>]
    <2>1. G = {b[i] : i \in I}
      <3>1. \A p \in Pairs : second[p] = d => p[1] \in I /\ p = b[p[1]]
        OBVIOUS
      <3>2. \A i \in I : b[i] \in Pairs /\ second[b[i]] = d
        BY <1>3
      <3> HIDE DEF b, Pairs, second, I
      <3> QED
        BY <3>1, <3>2 DEF Group
    <2>2. \A i, j \in I : b[i] = b[j] => i = j
      OBVIOUS
    <2>3. IsFiniteSet(I) /\ IsFiniteSet(G)
      <3>1. I \subseteq 1..4
        BY <1>2
      <3>2. G \subseteq Pairs
        BY DEF Group
      <3> HIDE DEF I, G
      <3> QED
        BY <1>4, <1>5, <3>1, <3>2, FS_Subset
    <2>4. c(d) = Cardinality(I)
      BY DEF Concurrency
    <2>5. Cardinality(G) = Cardinality(I)
      <3> HIDE DEF b, G, I
      <3> QED
        BY <2>1, <2>2, <2>3, ImageCount
    <2>6. \A p \in G : f[p] = 12 \div c(d)
      BY <1>7 DEF Group
    <2>7. (12 \div c(d)) \in Int /\ (12 \div c(d)) * c(d) = 12
      BY <1>6
    <2> HIDE DEF G, I, f, c
    <2>8. Summed(f, G) = (12 \div c(d)) * Cardinality(G)
      BY <2>3, <2>6, <2>7, SummedConstant
    <2> QED
      BY <2>4, <2>5, <2>7, <2>8 DEF G
  <1>12. Summed(a, A) = Summed(f, Pairs)
    <2> DEFINE g == [i \in A |-> Summed(f, Group(Pairs, first, i))]
    <2>1. \A i \in A : g[i] \in Int /\ a[i] = g[i]
      BY <1>10
    <2> HIDE DEF g, a, A
    <2>2. Summed(a, A) = Summed(g, A)
      BY <1>4, <2>1, SummedAlike
    <2> QED
      BY <1>8, <2>2 DEF g
  <1>13. Summed(f, Pairs) = 12 * Cardinality(U)
    <2> DEFINE g == [d \in U |-> Summed(f, Group(Pairs, second, d))]
    <2>1. \A d \in U : g[d] = 12
      BY <1>11
    <2> HIDE DEF g, U
    <2>2. Summed(g, U) = 12 * Cardinality(U)
      <3>1. 12 \in Int /\ IsFiniteSet(U)
        BY <1>4
      <3> QED
        BY <2>1, <3>1, SummedConstant
    <2> QED
      BY <1>9, <2>2 DEF g
  <1>14. DOMAIN a = A
    BY <1>1 DEF Uniqueness
  <1> QED
    BY <1>12, <1>13, <1>14 DEF DaysAreSharedOut

Chosen(k, T, x) == {c \in kSubset(k, T) : x \in c}

\* As many choices have one element as have another.
LEMMA AsManyWith ==
    ASSUME NEW T, IsFiniteSet(T), NEW k, NEW a \in T, NEW b \in T
    PROVE  IsFiniteSet(Chosen(k, T, a)) /\ Cardinality(Chosen(k, T, a)) <= Cardinality(Chosen(k, T, b))
  <1> DEFINE A == Chosen(k, T, a)
             B == Chosen(k, T, b)
             e == [c \in A |-> IF b \in c THEN c ELSE (c \ {a}) \union {b}]
  <1>1. IsFiniteSet(A) /\ IsFiniteSet(B)
    <2>1. A \subseteq SUBSET T /\ B \subseteq SUBSET T
      BY DEF Chosen, kSubset
    <2> QED
      BY <2>1, FS_SUBSET, FS_Subset
  <1>2. ASSUME NEW c \in A PROVE e[c] \in B
    <2>1. c \in SUBSET T /\ Cardinality(c) = k /\ a \in c /\ IsFiniteSet(c)
      BY FS_Subset DEF Chosen, kSubset
    <2>2. CASE b \in c
      BY <2>1, <2>2 DEF Chosen, kSubset
    <2>3. CASE b \notin c
      <3> DEFINE d == c \ {a}
      <3>1. IsFiniteSet(d) /\ Cardinality(d) = Cardinality(c) - 1 /\ Cardinality(c) \in Nat
        BY <2>1, FS_RemoveElement, FS_CardinalityType
      <3>2. b \notin d
        BY <2>3
      <3>3. Cardinality(d \union {b}) = Cardinality(d) + 1
        BY <3>1, <3>2, FS_AddElement
      <3>4. Cardinality(d \union {b}) = k
        BY <2>1, <3>1, <3>3
      <3> QED
        BY <2>1, <2>3, <3>4 DEF Chosen, kSubset
    <2> QED
      BY <2>2, <2>3
  <1>3. ASSUME NEW c \in A, NEW d \in A, e[c] = e[d] PROVE c = d
    <2>1. a \in c /\ a \in d
      BY DEF Chosen
    <2>2. CASE b \in c /\ b \in d
      BY <1>3, <2>2
    <2>3. CASE b \in c /\ b \notin d
      <3>1. a # b /\ e[c] = c /\ e[d] = (d \ {a}) \union {b}
        BY <2>1, <2>3
      <3> QED
        BY <1>3, <2>1, <3>1
    <2>4. CASE b \notin c /\ b \in d
      <3>1. a # b /\ e[d] = d /\ e[c] = (c \ {a}) \union {b}
        BY <2>1, <2>4
      <3> QED
        BY <1>3, <2>1, <3>1
    <2>5. CASE b \notin c /\ b \notin d
      <3>1. e[d] = (d \ {a}) \union {b} /\ e[c] = (c \ {a}) \union {b}
        BY <2>5
      <3> QED
        BY <1>3, <2>1, <2>5, <3>1
    <2> QED
      BY <2>2, <2>3, <2>4, <2>5
  <1>4. e \in [A -> B]
    BY <1>2
  <1> HIDE DEF e, A, B
  <1>5. e \in Injection(A, B)
    BY <1>3, <1>4 DEF Injection, IsInjective
  <1> QED
    BY <1>1, <1>5, FS_Injection DEF A, B

LEMMA SegmentsAre ==
    ASSUME NEW q \in SplitQuestions
    PROVE  LET T == 0..(q.segments - 1)
               R == 0..(q.rows - 1)
           IN /\ \A s \in T : \E x, y \in R : x <= y /\ Segment(q, s) = x..y
              /\ \E home \in [R -> T] : \A i \in R, s \in T : i \in Segment(q, s) <=> s = home[i]
              /\ IsFiniteSet(T)
  <1> DEFINE n == q.rows
             k == q.segments
             z == n \div k
             T == 0..(k - 1)
             R == 0..(n - 1)
             hi(s) == IF s < k - 1 THEN (s + 1) * z - 1 ELSE n - 1
             home == [i \in R |-> IF i \div z < k - 1 THEN i \div z ELSE k - 1]
  <1>1. n \in {24, 26, 29} /\ k \in {4, 6}
    BY DEF SplitQuestions
  <1>2. z \in {4, 6, 7} /\ k * z <= n /\ n \in Nat /\ k \in Nat /\ k >= 4
    BY <1>1
  <1>3. \A s \in T : Segment(q, s) = (s * z)..hi(s)
    BY DEF Segment
  <1> HIDE DEF z, n, k
  <1>4. \A s \in T : s * z \in R /\ hi(s) \in R /\ s * z <= hi(s)
    <2>1. CASE z = 4
      BY <1>2, <2>1
    <2>2. CASE z = 6
      BY <1>2, <2>2
    <2>3. CASE z = 7
      BY <1>2, <2>3
    <2> QED
      BY <1>2, <2>1, <2>2, <2>3
  <1>5. \A i \in R : i \div z \in Nat /\ (i \div z) * z <= i /\ i < (i \div z) * z + z
    <2>1. CASE z = 4
      BY <1>2, <2>1
    <2>2. CASE z = 6
      BY <1>2, <2>2
    <2>3. CASE z = 7
      BY <1>2, <2>3
    <2> QED
      BY <1>2, <2>1, <2>2, <2>3
  <1>6. home \in [R -> T]
    BY <1>2, <1>5
  <1>7. ASSUME NEW i \in R, NEW s \in T
        PROVE  i \in (s * z)..hi(s) <=> s = home[i]
    <2> DEFINE m == i \div z
    <2>1. m \in Nat /\ m * z <= i /\ i < m * z + z /\ home[i] = IF m < k - 1 THEN m ELSE k - 1
      BY <1>5
    <2> HIDE DEF m, home
    <2>2. i \in Nat /\ i <= n - 1 /\ s \in Nat /\ s <= k - 1
      BY <1>2
    <2>3. i \in (s * z)..hi(s) <=> s * z <= i /\ i <= hi(s)
      <3>1. s * z \in Int /\ hi(s) \in Int
        BY <1>4
      <3> HIDE DEF hi
      <3> QED
        BY <2>2, <3>1
    <2>4. CASE z = 4
      BY <1>2, <2>1, <2>2, <2>3, <2>4
    <2>5. CASE z = 6
      BY <1>2, <2>1, <2>2, <2>3, <2>5
    <2>6. CASE z = 7
      BY <1>2, <2>1, <2>2, <2>3, <2>6
    <2> QED
      BY <1>2, <2>4, <2>5, <2>6
  <1>8. IsFiniteSet(T)
    <2>1. 0 \in Int /\ k - 1 \in Int
      BY <1>2
    <2> QED
      BY <2>1, IntervalIsFinite
  <1>9. \A s \in T : \E x, y \in R : x <= y /\ Segment(q, s) = x..y
    BY <1>3, <1>4
  <1>10. \A i \in R, s \in T : i \in Segment(q, s) <=> s = home[i]
    <2> HIDE DEF home, hi, R, T
    <2> QED
      BY <1>3, <1>7
  <1> HIDE DEF home
  <1> QED
    BY <1>6, <1>8, <1>9, <1>10 DEF n, k

LEMMA SplitsFollow == QuestionInv => NoLeakBetweenSplits
  <1> SUFFICES ASSUME QuestionInv, Answered("split") PROVE NoLeakBetweenSplits
    BY DEF NoLeakBetweenSplits
  <1> DEFINE q == asked
             a == answer[1]
             T == 0..(q.segments - 1)
             R == 0..(q.rows - 1)
             C == kSubset(q.k, T)
             rec == [c \in C |-> [test |-> TestRows(q, c), train |-> R \ Excluded(q, c)]]
  <1>1. q \in SplitQuestions /\ a = {rec[c] : c \in C}
    BY DEF QuestionInv, AskedIs, AnswersAre, Answered, CpcvSplits
  <1>2. /\ \A s \in T : \E x, y \in R : x <= y /\ Segment(q, s) = x..y
        /\ \E home \in [R -> T] : \A i \in R, s \in T : i \in Segment(q, s) <=> s = home[i]
        /\ IsFiniteSet(T)
    BY <1>1, SegmentsAre
  <1>3. PICK home \in [R -> T] : \A i \in R, s \in T : i \in Segment(q, s) <=> s = home[i]
    BY <1>2
  <1>4. \A c \in C : c \subseteq T /\ rec[c].test = TestRows(q, c) /\ rec[c].train = R \ Excluded(q, c)
    BY DEF kSubset
  <1>5. Hold \in Nat /\ Purge \in Nat /\ Embargo \in Nat /\ Purge >= Hold /\ Embargo >= Hold
    BY BacktestAssumption
  <1> HIDE DEF q, a, rec, C, T
  <1>6. ASSUME NEW c \in C, NEW i \in rec[c].train, NEW j \in rec[c].test
        PROVE  (i..(i + Hold)) \cap (j..(j + Hold)) = {}
    <2>1. i \in R /\ i \notin Excluded(q, c)
      BY <1>4
    <2>2. PICK s \in c : j \in Segment(q, s)
      BY <1>4 DEF TestRows
    <2>3. PICK x \in R, y \in R : x <= y /\ Segment(q, s) = x..y
      BY <1>2, <1>4
    <2>4. x \in Int /\ y \in Int /\ i \in Int
      BY <2>1
    <2>5. Min(x..y) = x /\ Max(x..y) = y
      <3>1. x..y \subseteq Int /\ x \in x..y /\ y \in x..y /\ (\A v \in x..y : x <= v)
            /\ \A v \in x..y : y >= v
        BY <2>3, <2>4
      <3> QED
        BY <3>1, MinIs, MaxIs
    <2>6. i \notin (x - Purge)..(y + Embargo)
      BY <2>1, <2>2, <2>3, <2>5 DEF Excluded
    <2>7. j \in Int /\ x <= j /\ j <= y
      BY <2>2, <2>3, <2>4
    <2> HIDE DEF R
    <2>8. i < x - Purge \/ i > y + Embargo
      BY <1>5, <2>4, <2>6
    <2> QED
      BY <1>5, <2>4, <2>7, <2>8
  <1>7. \A c \in C, i \in R : i \in rec[c].test <=> home[i] \in c
    <2> HIDE DEF R
    <2> QED
      BY <1>3, <1>4 DEF TestRows
  <1>8. ASSUME NEW c \in C, NEW d \in C, rec[c] = rec[d]
        PROVE  c = d
    <2>1. \A s \in T : \E i \in R : home[i] = s
      <3> SUFFICES ASSUME NEW s \in T PROVE \E i \in R : home[i] = s
        OBVIOUS
      <3>1. PICK x \in R, y \in R : x <= y /\ Segment(q, s) = x..y
        BY <1>2
      <3>2. x \in Segment(q, s)
        BY <3>1
      <3> QED
        BY <1>3, <3>2
    <2>2. \A i \in R : home[i] \in c <=> home[i] \in d
      BY <1>7, <1>8
    <2>3. \A s \in T : s \in c <=> s \in d
      BY <2>1, <2>2
    <2> QED
      BY <1>4, <2>3
  <1>9. ASSUME NEW i \in R
        PROVE  Cardinality({s \in a : i \in s.test}) = Cardinality(Chosen(q.k, T, home[i]))
    <2> DEFINE A == Chosen(q.k, T, home[i])
    <2>1. A \subseteq C /\ \A c \in C : c \in A <=> home[i] \in c
      BY DEF Chosen, C
    <2>2. {s \in a : i \in s.test} = {rec[c] : c \in A}
      BY <1>1, <1>7, <2>1
    <2>3. IsFiniteSet(A)
      BY <1>2, <1>3, AsManyWith
    <2> HIDE DEF A
    <2>4. Cardinality({rec[c] : c \in A}) = Cardinality(A)
      BY <1>8, <2>1, <2>3, ImageCount
    <2> QED
      BY <2>2, <2>4 DEF A
  <1>10. ASSUME NEW i \in R, NEW j \in R
         PROVE  Cardinality({s \in a : i \in s.test}) = Cardinality({s \in a : j \in s.test})
    <2> DEFINE u == Chosen(q.k, T, home[i])
               v == Chosen(q.k, T, home[j])
    <2>1. IsFiniteSet(u) /\ IsFiniteSet(v) /\ Cardinality(u) <= Cardinality(v)
          /\ Cardinality(v) <= Cardinality(u)
      BY <1>2, <1>3, AsManyWith
    <2> HIDE DEF u, v
    <2>2. Cardinality(u) = Cardinality(v)
      BY <2>1, FS_CardinalityType
    <2> QED
      BY <1>9, <2>2 DEF u, v
  <1>11. \A s \in a : \A i \in s.train, j \in s.test : (i..(i + Hold)) \cap (j..(j + Hold)) = {}
    BY <1>1, <1>6
  <1> QED
    BY <1>10, <1>11 DEF NoLeakBetweenSplits, a, q

--------------------------------------------------------------------------------
(* The trade loop and the views of a simulation. *)

\* The states of the loop.
LoopStates ==
    [in : BOOLEAN, entry : Nat, held : Nat, trades : Seq([entry : Nat, exit : Nat]),
     position : Seq({0, 1})]

LEMMA TradeBarType ==
    ASSUME NEW s \in LoopStates, NEW p \in {-1, 0, 1}
    PROVE  TradeBar(s, p) \in LoopStates
  <1> DEFINE i == Len(s.position) + 1
  <1>1. i \in Nat /\ Append(s.position, 1) \in Seq({0, 1}) /\ Append(s.position, 0) \in Seq({0, 1})
    BY DEF LoopStates
  <1>2. s.held + 1 \in Nat /\ s.entry \in Nat
    BY DEF LoopStates
  <1>3. Append(s.trades, [entry |-> s.entry, exit |-> i]) \in Seq([entry : Nat, exit : Nat])
    BY <1>1, <1>2 DEF LoopStates
  <1>4. CASE ~s.in /\ p = 1
    BY <1>1, <1>4 DEF TradeBar, LoopStates
  <1>5. CASE s.in /\ (p = -1 \/ s.held + 1 >= Hold)
    BY <1>1, <1>2, <1>3, <1>5 DEF TradeBar, LoopStates
  <1>6. CASE s.in /\ p # -1 /\ s.held + 1 < Hold
    <2>1. ~(s.held + 1 >= Hold)
      BY <1>2, <1>6, BacktestAssumption
    <2>2. TradeBar(s, p) = [s EXCEPT !.held = @ + 1, !.position = Append(@, 1)]
      BY <1>6, <2>1 DEF TradeBar
    <2> QED
      BY <1>1, <1>2, <2>2 DEF LoopStates
  <1>7. CASE ~s.in /\ p # 1
    <2>1. TradeBar(s, p) = [s EXCEPT !.position = Append(@, 0)]
      BY <1>7 DEF TradeBar
    <2> QED
      BY <1>1, <2>1 DEF LoopStates
  <1>8. (s.in /\ ~(p = -1 \/ s.held + 1 >= Hold)) => s.in /\ p # -1 /\ s.held + 1 < Hold
    BY <1>2, BacktestAssumption
  <1> QED
    BY <1>4, <1>5, <1>6, <1>7, <1>8

\* The loop goes through the bars in their order.
LEMMA LoopRuns ==
    ASSUME NEW predictions \in Seq({-1, 0, 1})
    PROVE  \E run \in [0..Len(predictions) -> LoopStates] :
             /\ run[0] = Flat /\ TradeLoop(predictions) = run[Len(predictions)]
             /\ \A k \in 1..Len(predictions) : run[k] = TradeBar(run[k - 1], predictions[k])
  <1> DEFINE n == Len(predictions)
             S == 1..n
             pick == [T \in SUBSET S |-> Max(T)]
             step == [p \in S \X LoopStates |-> TradeBar(p[2], predictions[p[1]])]
             Body(g) == [T \in SUBSET S |-> IF T = {} THEN Flat
                                            ELSE TradeBar(g[T \ {Max(T)}], predictions[Max(T)])]
  <1>0. n \in Nat
    OBVIOUS
  <1>1. \A T \in SUBSET S : T # {} => Max(T) \in T
    BY <1>0, GreatestIndex
  <1>2. Flat \in LoopStates
    BY DEF LoopStates, Flat
  <1>3. IsFiniteSet(S)
    BY FS_Interval
  <1>4. \A k \in S, s \in LoopStates : TradeBar(s, predictions[k]) \in LoopStates
    BY TradeBarType
  <1>5. \E g : FoldsOver(S, LoopStates, Flat, pick, step, g)
    <2>1. PicksFrom(S, pick)
      BY <1>1 DEF PicksFrom
    <2>2. StepsWithin(S, LoopStates, step)
      BY <1>4 DEF StepsWithin
    <2> HIDE DEF pick, step, S
    <2> QED
      BY <1>2, <1>3, <2>1, <2>2, FoldExists
  <1>6. PICK g \in [SUBSET S -> LoopStates] :
          \A T \in SUBSET S :
             g[T] = IF T = {} THEN Flat ELSE step[<<pick[T], g[T \ {pick[T]}]>>]
    <2> HIDE DEF pick, step, S
    <2> QED
      BY <1>5 DEF FoldsOver
  <1>7. \A T \in SUBSET S : T # {} =>
          step[<<pick[T], g[T \ {pick[T]}]>>] = TradeBar(g[T \ {Max(T)}], predictions[Max(T)])
    <2> TAKE T \in SUBSET S
    <2> HAVE T # {}
    <2>1. Max(T) \in S /\ T \ {Max(T)} \in SUBSET S /\ pick[T] = Max(T)
      BY <1>1
    <2>2. g[T \ {Max(T)}] \in LoopStates
      BY <2>1
    <2> HIDE DEF pick, S
    <2> QED
      BY <2>1, <2>2
  <1>8. g = Body(g)
    <2> HIDE DEF pick, step, S
    <2>1. \A T \in SUBSET S : g[T] = Body(g)[T]
      BY <1>6, <1>7
    <2>2. Body(g) = [T \in SUBSET S |-> Body(g)[T]]
      OBVIOUS
    <2> HIDE DEF Body
    <2> QED
      BY <2>1, <2>2, <1>6
  <1> DEFINE c == CHOOSE h : h = Body(h)
  <1>9. c = Body(c)
    BY <1>8
  <1>10. TradeLoop(predictions) = c[S]
    <2>1. DOMAIN predictions = S
      OBVIOUS
    <2> QED
      BY <2>1 DEF TradeLoop, FoldLeft, MapThenFoldSet
  <1>11. c[{}] = Flat
    <2> HIDE DEF c
    <2> QED
      BY <1>9
  <1>12. ASSUME NEW k \in 1..n
         PROVE  c[1..k] = TradeBar(c[1..(k - 1)], predictions[k])
    <2> DEFINE T == 1..k
    <2>1. T \subseteq Int /\ k \in T /\ (\A x \in T : k >= x) /\ T \in SUBSET S /\ T # {}
      BY <1>0
    <2>2. T \ {k} = 1..(k - 1)
      BY <1>0
    <2> HIDE DEF T, c
    <2>3. Max(T) = k
      BY <2>1, MaxIs
    <2> HIDE DEF S
    <2>4. c[T] = TradeBar(c[T \ {k}], predictions[k])
      BY <1>9, <2>1, <2>3
    <2> QED
      BY <2>2, <2>4 DEF T
  <1> DEFINE run == [k \in 0..n |-> c[1..k]]
             P == {k \in Nat : k <= n => run[k] \in LoopStates}
  <1>13. 1..0 = {}
    OBVIOUS
  <1> HIDE DEF c, S, n
  <1>14. run[0] = Flat /\ run[n] = c[1..n]
    BY <1>0, <1>11, <1>13
  <1>15. \A k \in 1..n : run[k] = TradeBar(run[k - 1], predictions[k])
    BY <1>0, <1>12
  <1> HIDE DEF run
  <1>16. \A k \in Nat : k \in P
    <2>1. 0 \in P
      BY <1>2, <1>14
    <2>2. ASSUME NEW k \in Nat, k \in P PROVE k + 1 \in P
      <3> SUFFICES ASSUME k + 1 <= n PROVE run[k + 1] \in LoopStates
        OBVIOUS
      <3>1. k + 1 \in 1..n /\ (k + 1) - 1 = k /\ k <= n
        BY <1>0
      <3>2. run[k + 1] = TradeBar(run[k], predictions[k + 1]) /\ run[k] \in LoopStates
        BY <1>15, <2>2, <3>1
      <3> QED
        BY <1>4, <3>1, <3>2 DEF S
    <2> HIDE DEF P
    <2> QED
      BY <2>1, <2>2, NaturalSteps
  <1>17. \A k \in 0..n : run[k] \in LoopStates
    BY <1>0, <1>16
  <1>18. run \in [0..n -> LoopStates]
    BY <1>17 DEF run
  <1> QED
    BY <1>10, <1>14, <1>15, <1>18 DEF n, S

\* After k bars: the bars in position are those from the entry and those of the trades.
LoopInv(s, k) ==
    /\ Len(s.position) = k
    /\ s.in => s.entry \in 1..k /\ s.held = k - s.entry /\ s.held < Hold
    /\ \A t \in ToSet(s.trades) :
         /\ 1 <= t.entry /\ t.entry < t.exit /\ t.exit <= k /\ t.exit - t.entry <= Hold
         /\ s.in => t.exit < s.entry
    /\ \A t, u \in ToSet(s.trades) : t = u \/ t.exit < u.entry \/ u.exit < t.entry
    /\ \A j \in 1..k : s.position[j] = 1 <=>
         \/ s.in /\ s.entry <= j
         \/ \E t \in ToSet(s.trades) : t.entry <= j /\ j < t.exit

LEMMA AppendedSet ==
    ASSUME NEW s, IsSeq(s), NEW x
    PROVE  ToSet(Append(s, x)) = ToSet(s) \union {x}
  <1>1. IsSeq(Append(s, x)) /\ Len(s) \in Nat /\ DOMAIN s = 1..Len(s) /\ Appended(s, x)
    BY AppendedIs
  <1> DEFINE r == Append(s, x)
  <1>2. DOMAIN r = 1..(Len(s) + 1)
    <2>1. Len(r) \in Nat /\ DOMAIN r = 1..Len(r)
      <3> HIDE DEF r
      <3>1. IsSeq(r)
        BY <1>1 DEF r
      <3>2. PICK S : r \in Seq(S)
        BY <3>1 DEF IsSeq
      <3> QED
        BY <3>2
    <2> QED
      BY <1>1, <2>1 DEF Appended
  <1>3. /\ Len(r) = Len(s) + 1 /\ \A i \in 1..Len(s) : r[i] = s[i]
        /\ r[Len(s) + 1] = x
    BY <1>1 DEF Appended
  <1> HIDE DEF r
  <1>4. ToSet(r) = ToSet(s) \union {x}
    BY <1>1, <1>2, <1>3 DEF ToSet
  <1> QED
    BY <1>4 DEF r

LEMMA LoopInvKeeps ==
    ASSUME NEW k \in Nat, NEW s \in LoopStates, LoopInv(s, k), NEW p \in {-1, 0, 1}
    PROVE  LoopInv(TradeBar(s, p), k + 1)
  <1> DEFINE r == TradeBar(s, p)
             old == ToSet(s.trades)
  <1>1. /\ s.position \in Seq({0, 1}) /\ Len(s.position) = k /\ s.in \in BOOLEAN
        /\ s.held \in Nat /\ s.entry \in Nat /\ s.trades \in Seq([entry : Nat, exit : Nat])
    BY DEF LoopInv, LoopStates
  <1>2. Hold \in Nat /\ Hold >= 1
    BY BacktestAssumption
  <1>3. \A t \in old : t \in [entry : Nat, exit : Nat]
    <2> DEFINE tr == s.trades
               X == [entry : Nat, exit : Nat]
    <2>1. tr \in Seq(X)
      BY <1>1
    <2> HIDE DEF tr, X
    <2>2. \A i \in DOMAIN tr : tr[i] \in X
      BY <2>1
    <2>3. \A t \in ToSet(tr) : t \in X
      BY <2>2 DEF ToSet
    <2> QED
      BY <2>3 DEF tr, X
  <1>4. \A v \in {0, 1} : /\ Len(Append(s.position, v)) = k + 1
                          /\ \A j \in 1..k : Append(s.position, v)[j] = s.position[j]
                          /\ Append(s.position, v)[k + 1] = v
    <2>1. IsSeq(s.position)
      BY <1>1 DEF IsSeq
    <2>2. \A v \in {0, 1} : Appended(s.position, v)
      BY <2>1, AppendedIs
    <2> QED
      BY <1>1, <2>2 DEF Appended
  <1>5. CASE ~s.in /\ p = 1
    <2>1. /\ r.in /\ r.entry = k + 1 /\ r.held = 0 /\ r.position = Append(s.position, 1)
          /\ r.trades = s.trades
      BY <1>1, <1>5 DEF TradeBar, LoopStates
    <2> HIDE DEF r
    <2>2. \A t \in ToSet(r.trades) : t \in old /\ t.exit \in Nat /\ t.entry \in Nat
      BY <1>3, <2>1
    <2> HIDE DEF old
    <2>3. \A t \in old : /\ 1 <= t.entry /\ t.entry < t.exit /\ t.exit <= k /\ t.exit - t.entry <= Hold
                         /\ t.exit < k + 1 /\ t.exit <= k + 1
      BY <1>3 DEF LoopInv, old
    <2>4. \A t, u \in ToSet(r.trades) : t = u \/ t.exit < u.entry \/ u.exit < t.entry
      BY <2>1 DEF LoopInv
    <2>5. ASSUME NEW j \in 1..(k + 1)
          PROVE  r.position[j] = 1 <=> \/ r.in /\ r.entry <= j
                                       \/ \E t \in ToSet(r.trades) : t.entry <= j /\ j < t.exit
      <3>1. CASE j = k + 1
        BY <1>4, <2>1, <3>1
      <3>2. CASE j # k + 1
        <4>1. j \in 1..k /\ ~(k + 1 <= j)
          BY <3>2
        <4>2. s.position[j] = 1 <=> \E t \in ToSet(s.trades) : t.entry <= j /\ j < t.exit
          BY <1>5, <4>1 DEF LoopInv
        <4> QED
          BY <1>4, <2>1, <4>1, <4>2
      <3> QED
        BY <3>1, <3>2
    <2>6. r.entry \in 1..(k + 1) /\ r.held = (k + 1) - r.entry /\ r.held < Hold
      BY <1>2, <2>1
    <2> QED
      BY <1>4, <2>1, <2>2, <2>3, <2>4, <2>5, <2>6 DEF LoopInv, r
  <1>6. CASE s.in /\ (p = -1 \/ s.held + 1 >= Hold)
    <2> DEFINE x == [entry |-> s.entry, exit |-> k + 1]
    <2>1. /\ ~r.in /\ r.position = Append(s.position, 0)
          /\ r.trades = Append(s.trades, x)
      <3>1. TradeBar(s, p) =
              [s EXCEPT !.in = FALSE, !.held = @ + 1, !.position = Append(@, 0),
                        !.trades = Append(@, [entry |-> s.entry, exit |-> Len(s.position) + 1])]
        BY <1>1, <1>2, <1>6 DEF TradeBar, LoopStates
      <3> QED
        BY <1>1, <3>1 DEF LoopStates
    <2>2. ToSet(r.trades) = old \union {x}
      <3>1. IsSeq(s.trades)
        BY <1>1 DEF IsSeq
      <3> HIDE DEF r, x
      <3> QED
        BY <2>1, <3>1, AppendedSet
    <2> HIDE DEF r
    <2>3. s.entry \in 1..k /\ s.held = k - s.entry /\ s.held < Hold
      BY <1>6 DEF LoopInv
    <2>4. \A t \in old : /\ 1 <= t.entry /\ t.entry < t.exit /\ t.exit <= k /\ t.exit - t.entry <= Hold
                         /\ t.exit < s.entry
      BY <1>6 DEF LoopInv
    <2>5. x.entry = s.entry /\ x.exit = k + 1 /\ 1 <= x.entry /\ x.entry < x.exit /\ x.exit - x.entry <= Hold
      BY <1>1, <1>2, <2>3
    <2>6. \A t \in ToSet(r.trades) : 1 <= t.entry /\ t.entry < t.exit /\ t.exit <= k + 1 /\ t.exit - t.entry <= Hold
      <3> HIDE DEF x, old
      <3>1. \A t \in old : t.exit <= k + 1
        BY <1>3, <2>4 DEF old
      <3>2. x.exit <= k + 1
        BY <2>5
      <3> QED
        BY <2>2, <2>4, <2>5, <3>1, <3>2
    <2>7. \A t, u \in ToSet(r.trades) : t = u \/ t.exit < u.entry \/ u.exit < t.entry
      <3>1. \A t, u \in old : t = u \/ t.exit < u.entry \/ u.exit < t.entry
        BY DEF LoopInv
      <3>2. \A t \in old : t.exit < x.entry
        BY <2>4
      <3> HIDE DEF x, old
      <3> QED
        BY <2>2, <3>1, <3>2
    <2>8. ASSUME NEW j \in 1..(k + 1)
          PROVE  r.position[j] = 1 <=> \E t \in ToSet(r.trades) : t.entry <= j /\ j < t.exit
      <3>1. CASE j = k + 1
        <4>1. r.position[j] = 0
          BY <1>4, <2>1, <3>1
        <4>2. \A t \in ToSet(r.trades) : ~(j < t.exit)
          <5> HIDE DEF x, old
          <5>1. \A t \in old : t.exit \in Nat /\ t.exit <= k
            BY <1>3, <2>4 DEF old
          <5> QED
            BY <2>2, <2>5, <3>1, <5>1
        <4> QED
          BY <4>1, <4>2
      <3>2. CASE j # k + 1
        <4>1. j \in 1..k /\ j < k + 1
          BY <3>2
        <4>2. s.position[j] = 1 <=> \/ s.entry <= j
                                    \/ \E t \in old : t.entry <= j /\ j < t.exit
          BY <1>6, <4>1 DEF LoopInv
        <4>3. r.position[j] = s.position[j]
          BY <1>4, <2>1, <4>1
        <4>4. (x.entry <= j /\ j < x.exit) <=> s.entry <= j
          BY <4>1
        <4> HIDE DEF x, old
        <4> QED
          BY <2>2, <4>2, <4>3, <4>4
      <3> QED
        BY <3>1, <3>2
    <2>9. Len(r.position) = k + 1
      BY <1>4, <2>1
    <2> HIDE DEF x, old
    <2> QED
      BY <2>1, <2>6, <2>7, <2>8, <2>9 DEF LoopInv, r
  <1>7. CASE s.in /\ p # -1 /\ s.held + 1 < Hold
    <2>0. ~(s.held + 1 >= Hold)
      BY <1>1, <1>2, <1>7
    <2>1. /\ r.in /\ r.entry = s.entry /\ r.held = s.held + 1 /\ r.position = Append(s.position, 1)
          /\ r.trades = s.trades
      <3>1. TradeBar(s, p) = [s EXCEPT !.held = @ + 1, !.position = Append(@, 1)]
        BY <1>7, <2>0 DEF TradeBar
      <3> QED
        BY <1>7, <3>1 DEF LoopStates
    <2> HIDE DEF r
    <2>2. r.entry \in 1..(k + 1) /\ r.held = (k + 1) - r.entry /\ r.held < Hold
      <3>1. s.entry \in 1..k /\ s.held = k - s.entry
        BY <1>7 DEF LoopInv
      <3> QED
        BY <1>1, <1>7, <2>1, <3>1
    <2>3. \A t \in ToSet(r.trades) : /\ 1 <= t.entry /\ t.entry < t.exit /\ t.exit <= k + 1
                                     /\ t.exit - t.entry <= Hold /\ t.exit < r.entry
      <3>1. \A t \in old : /\ 1 <= t.entry /\ t.entry < t.exit /\ t.exit <= k /\ t.exit - t.entry <= Hold
                           /\ t.exit < s.entry
        BY <1>7 DEF LoopInv
      <3>2. \A t \in old : t.exit \in Nat
        BY <1>3
      <3> HIDE DEF old
      <3>3. \A t \in old : t.exit <= k + 1
        BY <3>1, <3>2
      <3> QED
        BY <2>1, <3>1, <3>3 DEF old
    <2>4. \A t, u \in ToSet(r.trades) : t = u \/ t.exit < u.entry \/ u.exit < t.entry
      BY <2>1 DEF LoopInv
    <2>5. ASSUME NEW j \in 1..(k + 1)
          PROVE  r.position[j] = 1 <=> \/ r.in /\ r.entry <= j
                                       \/ \E t \in ToSet(r.trades) : t.entry <= j /\ j < t.exit
      <3>1. CASE j = k + 1
        BY <1>4, <2>1, <2>2, <3>1
      <3>2. CASE j # k + 1
        <4>1. j \in 1..k
          BY <3>2
        <4>2. s.position[j] = 1 <=> \/ s.entry <= j
                                    \/ \E t \in old : t.entry <= j /\ j < t.exit
          BY <1>7, <4>1 DEF LoopInv
        <4> QED
          BY <1>4, <2>1, <4>1, <4>2
      <3> QED
        BY <3>1, <3>2
    <2>6. Len(r.position) = k + 1
      BY <1>4, <2>1
    <2> QED
      BY <2>1, <2>2, <2>3, <2>4, <2>5, <2>6 DEF LoopInv, r
  <1>8. CASE ~s.in /\ p # 1
    <2>1. ~r.in /\ r.position = Append(s.position, 0) /\ r.trades = s.trades
      <3>1. TradeBar(s, p) = [s EXCEPT !.position = Append(@, 0)]
        BY <1>8 DEF TradeBar
      <3> QED
        BY <1>8, <3>1 DEF LoopStates
    <2> HIDE DEF r
    <2>2. \A t \in ToSet(r.trades) : /\ 1 <= t.entry /\ t.entry < t.exit /\ t.exit <= k
                                     /\ t.exit - t.entry <= Hold /\ t.exit \in Nat
      BY <1>3, <2>1 DEF LoopInv
    <2>3. \A t \in ToSet(r.trades) : t.exit <= k + 1 /\ ~(k + 1 < t.exit)
      BY <2>2
    <2>4. \A t, u \in ToSet(r.trades) : t = u \/ t.exit < u.entry \/ u.exit < t.entry
      BY <2>1 DEF LoopInv
    <2>5. ASSUME NEW j \in 1..(k + 1)
          PROVE  r.position[j] = 1 <=> \E t \in ToSet(r.trades) : t.entry <= j /\ j < t.exit
      <3>1. CASE j = k + 1
        BY <1>4, <2>1, <2>3, <3>1
      <3>2. CASE j # k + 1
        <4>1. j \in 1..k
          BY <3>2
        <4>2. s.position[j] = 1 <=> \E t \in old : t.entry <= j /\ j < t.exit
          BY <1>8, <4>1 DEF LoopInv
        <4> QED
          BY <1>4, <2>1, <4>1, <4>2
      <3> QED
        BY <3>1, <3>2
    <2>6. Len(r.position) = k + 1
      BY <1>4, <2>1
    <2> QED
      BY <2>1, <2>2, <2>3, <2>4, <2>5, <2>6 DEF LoopInv, r
  <1>9. (s.in /\ ~(p = -1 \/ s.held + 1 >= Hold)) => s.in /\ p # -1 /\ s.held + 1 < Hold
    BY <1>1, <1>2
  <1> QED
    BY <1>5, <1>6, <1>7, <1>8, <1>9

LEMMA LoopEnds ==
    ASSUME NEW predictions \in Seq({-1, 0, 1})
    PROVE  /\ TradeLoop(predictions) \in LoopStates
           /\ LoopInv(TradeLoop(predictions), Len(predictions))
  <1> DEFINE n == Len(predictions)
  <1>1. PICK run \in [0..n -> LoopStates] :
             /\ run[0] = Flat /\ TradeLoop(predictions) = run[n]
             /\ \A k \in 1..n : run[k] = TradeBar(run[k - 1], predictions[k])
    BY LoopRuns
  <1>2. n \in Nat /\ \A k \in 1..n : predictions[k] \in {-1, 0, 1}
    OBVIOUS
  <1> HIDE DEF n
  <1> DEFINE P == {k \in Nat : k <= n => LoopInv(run[k], k)}
  <1>3. 0 \in P
    BY <1>1 DEF LoopInv, Flat, ToSet
  <1>4. ASSUME NEW k \in Nat, k \in P PROVE k + 1 \in P
    <2> SUFFICES ASSUME k + 1 <= n PROVE LoopInv(run[k + 1], k + 1)
      OBVIOUS
    <2>1. k + 1 \in 1..n /\ (k + 1) - 1 = k /\ k \in 0..n /\ k <= n
      BY <1>2
    <2>2. run[k + 1] = TradeBar(run[k], predictions[k + 1]) /\ run[k] \in LoopStates
      BY <1>1, <2>1
    <2>3. LoopInv(run[k], k) /\ predictions[k + 1] \in {-1, 0, 1}
      BY <1>2, <1>4, <2>1
    <2> QED
      BY <2>2, <2>3, LoopInvKeeps
  <1> HIDE DEF P
  <1>5. n \in P
    BY <1>2, <1>3, <1>4, NaturalSteps
  <1>6. LoopInv(run[n], n) /\ run[n] \in LoopStates
    BY <1>1, <1>2, <1>5 DEF P
  <1> QED
    BY <1>1, <1>6 DEF n

LEMMA SevenBars ==
    ASSUME NEW S, NEW p \in [1..7 -> S]
    PROVE  p \in Seq(S) /\ Len(p) = 7 /\ DOMAIN p = 1..7
  <1>1. \A n \in Nat : [1..n -> S] \subseteq Seq(S)
    OBVIOUS
  <1>2. p \in Seq(S)
    BY <1>1
  <1> QED
    BY <1>2

LEMMA PartIs ==
    ASSUME NEW S, NEW p \in Seq(S), NEW x \in Nat, NEW y \in Nat, 1 <= x, x <= y, y <= Len(p)
    PROVE  SubSeq(p, x, y) \in Seq(S) /\ Len(SubSeq(p, x, y)) = y - x + 1
           /\ \A i \in 1..(y - x + 1) : SubSeq(p, x, y)[i] = p[x + i - 1]
  OBVIOUS

LEMMA CurveFollows == QuestionInv => CurveIsOfTheTrades
  <1> SUFFICES ASSUME QuestionInv, Answered("backtest") PROVE CurveIsOfTheTrades
    BY DEF CurveIsOfTheTrades
  <1> DEFINE a == answer[1]
             p == asked.predictions
             end == TradeLoop(p)
             n == Len(p)
             open == IF a.open = 0 THEN {} ELSE (a.open + 1)..n
             earned == UNION {(t.entry + 1)..t.exit : t \in a.trades}
  <1>1. asked \in TradeQuestions /\ a = Backtest(p)
    BY DEF QuestionInv, AskedIs, AnswersAre, Answered
  <1>2. p \in [1..7 -> {-1, 0, 1}]
    BY <1>1 DEF TradeQuestions
  <1>3. n = 7 /\ p \in Seq({-1, 0, 1})
    BY <1>2, SevenBars
  <1> HIDE DEF n, p
  <1>4. end \in LoopStates /\ LoopInv(end, n)
    BY <1>3, LoopEnds DEF n
  <1> HIDE DEF end
  <1>5. /\ a.trades = ToSet(end.trades) /\ a.days = Earning(end.position)
        /\ a.open = IF end.in THEN end.entry ELSE 0
    BY <1>1 DEF Backtest, end
  <1> HIDE DEF a
  <1>6. \A t \in a.trades : t.entry \in Nat /\ t.exit \in Nat
    <2> DEFINE tr == end.trades
               X == [entry : Nat, exit : Nat]
    <2>1. tr \in Seq(X)
      BY <1>4 DEF LoopStates
    <2> HIDE DEF tr, X
    <2>2. \A i \in DOMAIN tr : tr[i] \in X
      BY <2>1
    <2>3. \A t \in ToSet(tr) : t \in X
      BY <2>2 DEF ToSet
    <2> QED
      BY <1>5, <2>3 DEF tr, X
  <1>7. \A t \in a.trades : 1 <= t.entry /\ t.exit <= n /\ t.exit - t.entry <= Hold
    BY <1>4, <1>5 DEF LoopInv
  <1>8. \A t, u \in a.trades : t = u \/ t.exit < u.entry \/ u.exit < t.entry
    BY <1>4, <1>5 DEF LoopInv
  <1>9. a.days = {i \in 1..n : i > 1 /\ end.position[i - 1] = 1}
    <2>1. DOMAIN end.position = 1..n
      <3>1. end.position \in Seq({0, 1}) /\ Len(end.position) = n
        BY <1>4 DEF LoopStates, LoopInv
      <3> QED
        BY <3>1
    <2> QED
      BY <1>5, <2>1 DEF Earning
  <1>10. end.in => end.entry \in 1..n
    BY <1>4 DEF LoopInv
  <1>11. ASSUME NEW i \in 1..n
         PROVE  i \in a.days <=> i \in open \union earned
    <2>1. i \in open <=> end.in /\ end.entry + 1 <= i
      BY <1>3, <1>5, <1>10
    <2>2. i \in earned <=> \E t \in a.trades : t.entry + 1 <= i /\ i <= t.exit
      BY <1>6
    <2> HIDE DEF open, earned
    <2>3. CASE i = 1
      <3>1. i \notin a.days
        BY <1>9, <2>3
      <3>2. i \notin open
        BY <1>3, <1>10, <2>1, <2>3
      <3>3. i \notin earned
        BY <1>6, <1>7, <2>2, <2>3
      <3> QED
        BY <3>1, <3>2, <3>3
    <2>4. CASE i # 1
      <3> DEFINE j == i - 1
      <3>1. j \in 1..n /\ i = j + 1 /\ i > 1 /\ j \in Nat
        BY <1>3, <2>4
      <3> HIDE DEF j
      <3>2. end.position[j] = 1 <=> \/ end.in /\ end.entry <= j
                                    \/ \E t \in a.trades : t.entry <= j /\ j < t.exit
        BY <1>4, <1>5, <3>1 DEF LoopInv
      <3>3. i \in a.days <=> end.position[j] = 1
        BY <1>9, <3>1 DEF j
      <3>4. end.in => (end.entry <= j <=> end.entry + 1 <= i)
        BY <1>3, <1>10, <3>1
      <3>5. \A t \in a.trades : (t.entry <= j /\ j < t.exit) <=> (t.entry + 1 <= i /\ i <= t.exit)
        BY <1>6, <3>1
      <3> QED
        BY <2>1, <2>2, <3>2, <3>3, <3>4, <3>5
    <2> QED
      BY <2>3, <2>4
  <1>12. open \subseteq 1..n
    BY <1>3, <1>5, <1>10
  <1>13. earned \subseteq 1..n
    BY <1>3, <1>6, <1>7
  <1>14. a.days \subseteq 1..n
    BY <1>9
  <1>15. a.days = open \union earned
    <2> HIDE DEF open, earned
    <2> QED
      BY <1>11, <1>12, <1>13, <1>14
  <1> QED
    BY <1>7, <1>8, <1>15 DEF CurveIsOfTheTrades, a, n, p

LEMMA FoldsAre ==
    ASSUME NEW start \in {1, 2}, NEW end \in Nat, end = 7
    PROVE  /\ \A f \in Folds(start, end) :
                f.from \in 1..end /\ f.to \in f.from..end
           /\ \A f, g \in Folds(start, end) : f = g \/ f.to < g.from \/ g.to < f.from
  <1> DEFINE A == {1 + m * Month : m \in 0..2} \cap start..end
             to(x) == Min({x + Month - 1, end})
  <1>1. \A x \in A : x \in {1, 4, 7}
    BY DEF Month
  <1>2. \A x \in A : to(x) = IF x + 2 <= 7 THEN x + 2 ELSE 7
    <2> TAKE x \in A
    <2>1. x \in Nat /\ x + Month - 1 = x + 2 /\ x + 2 \in Int
      BY DEF Month
    <2> HIDE DEF A
    <2>2. Min({x + 2, end}) = IF x + 2 <= end THEN x + 2 ELSE end
      <3> DEFINE y == x + 2
      <3>1. y \in Int
        BY <2>1
      <3> HIDE DEF y
      <3>2. Min({y, end}) = IF y <= end THEN y ELSE end
        BY <3>1, MinOfTwo
      <3> QED
        BY <3>2 DEF y
    <2> QED
      BY <2>1, <2>2
  <1> HIDE DEF A, to
  <1>3. \A x \in A : x \in 1..7 /\ to(x) \in x..7
    BY <1>1, <1>2
  <1>4. \A x, y \in A : x = y \/ to(x) < y \/ to(y) < x
    BY <1>1, <1>2
  <1>5. Folds(start, end) = {[from |-> x, to |-> to(x)] : x \in A}
    BY DEF Folds, A, to
  <1> QED
    BY <1>3, <1>4, <1>5

LEMMA FoldsFollow == QuestionInv => FoldsAreApart
  <1> SUFFICES ASSUME QuestionInv, Answered("walk") PROVE FoldsAreApart
    BY DEF FoldsAreApart
  <1> DEFINE a == answer[1]
             q == asked
             p == q.predictions
             F == Folds(q.start, Len(p))
             loop(f) == TradeLoop(SubSeq(p, f.from, f.to))
             moved(f) == {[entry |-> t.entry + f.from - 1, exit |-> t.exit + f.from - 1] :
                            t \in ToSet(loop(f).trades)}
             row(f) == [from |-> f.from, to |-> f.to, train |-> 1..(f.from - 1), trades |-> moved(f)]
  <1>1. q \in TradeQuestions /\ a = WalkForward(q) /\ q.topic = "walk"
    BY DEF QuestionInv, AskedIs, AnswersAre, Answered
  <1>2. p \in [1..7 -> {-1, 0, 1}] /\ q.start \in {1, 2}
    BY <1>1 DEF TradeQuestions
  <1>3. Len(p) = 7 /\ p \in Seq({-1, 0, 1})
    BY <1>2, SevenBars
  <1>4. /\ \A f \in F : f.from \in 1..7 /\ f.to \in f.from..7
        /\ \A f, g \in F : f = g \/ f.to < g.from \/ g.to < f.from
    BY <1>2, <1>3, FoldsAre
  <1>5. \A x \in a : \E f \in F : x = row(f)
    BY <1>1 DEF WalkForward
  <1>6. ASSUME NEW f \in F, NEW t \in moved(f)
        PROVE  f.from <= t.entry /\ t.exit <= f.to /\ t.entry \notin 1..(f.from - 1)
    <2> DEFINE s == SubSeq(p, f.from, f.to)
               x == f.from
               y == f.to
    <2>1. x \in 1..7 /\ y \in x..7
      BY <1>4
    <2> HIDE DEF x, y, p
    <2>2. x \in Nat /\ y \in Nat /\ y >= x /\ x >= 1 /\ y <= 7
      BY <2>1
    <2>3. s \in Seq({-1, 0, 1}) /\ Len(s) = y - x + 1
      BY <1>3, <2>2, PartIs DEF x, y
    <2> HIDE DEF s
    <2>4. loop(f) \in LoopStates /\ LoopInv(loop(f), Len(s))
      BY <2>3, LoopEnds DEF s
    <2>5. PICK u \in ToSet(loop(f).trades) : t = [entry |-> u.entry + x - 1, exit |-> u.exit + x - 1]
      BY DEF x
    <2>6. u \in [entry : Nat, exit : Nat]
      <3> DEFINE tr == loop(f).trades
                 X == [entry : Nat, exit : Nat]
      <3>1. tr \in Seq(X)
        BY <2>4 DEF LoopStates
      <3>2. u \in ToSet(tr)
        OBVIOUS
      <3> HIDE DEF tr, X
      <3>3. \A i \in DOMAIN tr : tr[i] \in X
        BY <3>1
      <3> QED
        BY <3>2, <3>3 DEF ToSet, X
    <2>7. 1 <= u.entry /\ u.exit <= Len(s)
      BY <2>4 DEF LoopInv
    <2> HIDE DEF loop, F
    <2>8. x <= t.entry /\ t.exit <= y
      BY <2>2, <2>3, <2>5, <2>6, <2>7
    <2>9. t.entry \notin 1..(x - 1)
      BY <2>2, <2>5, <2>6, <2>7
    <2> QED
      BY <2>8, <2>9 DEF x, y
  <1> HIDE DEF F, moved, a
  <1>7. ASSUME NEW x \in a
        PROVE  /\ \A t \in x.trades : x.from <= t.entry /\ t.exit <= x.to /\ t.entry \notin x.train
               /\ \A z \in a : x = z \/ x.to < z.from \/ z.to < x.from
    <2>1. PICK f \in F : x = row(f)
      BY <1>5
    <2>2. \A t \in x.trades : x.from <= t.entry /\ t.exit <= x.to /\ t.entry \notin x.train
      BY <1>6, <2>1
    <2>3. ASSUME NEW z \in a PROVE x = z \/ x.to < z.from \/ z.to < x.from
      <3>1. PICK g \in F : z = row(g)
        BY <1>5
      <3> QED
        BY <1>4, <2>1, <3>1
    <2> QED
      BY <2>2, <2>3
  <1> QED
    BY <1>7 DEF FoldsAreApart, a

LEMMA GrowthStep ==
    ASSUME NEW n \in Int, NEW d \in Int, NEW b \in Int, NEW x \in Int, NEW y \in Int,
           n * b = d * x
    PROVE  (y * n) * b = (x * d) * y
  <1> DEFINE u == n * b
             w == d * x
  <1>1. (y * n) * b = y * u
    OBVIOUS
  <1>2. (x * d) * y = y * w
    OBVIOUS
  <1>3. u = w
    OBVIOUS
  <1> QED
    BY <1>1, <1>2, <1>3

LEMMA RangeFollows == QuestionInv => RangeTelescopes
  <1> SUFFICES ASSUME QuestionInv, Answered("range") PROVE RangeTelescopes
    BY DEF RangeTelescopes
  <1> DEFINE q == asked
             c == q.curve
             from == q.from
             to == q.to
             before(d) == IF d = 1 THEN 2 ELSE c[d - 1]
             v == answer[1]
  <1>1. q \in ViewQuestions /\ v = RangeView(q) /\ q.topic = "range"
    BY DEF QuestionInv, AskedIs, AnswersAre, Answered
  <1>2. c \in [1..4 -> 0..3] /\ from \in 1..4 /\ to \in 1..4
    BY <1>1 DEF ViewQuestions
  <1> SUFFICES ASSUME from <= to, \A d \in 1..4 : c[d] > 0
               PROVE  v.num * before(from) = v.den * c[to]
    BY DEF RangeTelescopes
  <1> DEFINE days == DOMAIN CurveReturns(c) \cap from..to
             after == [d \in days |-> CurveReturns(c)[d].after]
             start == [d \in days |-> CurveReturns(c)[d].before]
  <1>3. v.num = Multiplied(after, days) /\ v.den = Multiplied(start, days)
    BY <1>1 DEF RangeView
  <1>4. \A d \in 1..4 : c[d] \in Int /\ before(d) \in Int /\ before(d) > 0
    <2> SUFFICES ASSUME NEW d \in 1..4 PROVE c[d] \in Int /\ before(d) \in Int /\ before(d) > 0
      OBVIOUS
    <2>1. d = 1 \/ d - 1 \in 1..4
      OBVIOUS
    <2> HIDE DEF c
    <2> QED
      BY <1>2, <2>1
  <1>5. DOMAIN CurveReturns(c) = 1..4
    <2>1. DOMAIN c = 1..4
      BY <1>2
    <2> HIDE DEF c
    <2> QED
      BY <1>4, <2>1 DEF CurveReturns
  <1>6. \A d \in 1..4 : CurveReturns(c)[d].after = c[d] /\ CurveReturns(c)[d].before = before(d)
    <2>1. DOMAIN c = 1..4
      BY <1>2
    <2> HIDE DEF c
    <2> QED
      BY <1>4, <2>1 DEF CurveReturns
  <1>7. days = from..to
    BY <1>2, <1>5
  <1>8. \A d \in from..to : d \in 1..4 /\ after[d] = c[d] /\ start[d] = before(d)
                            /\ after[d] \in Int /\ start[d] \in Int
    <2>1. \A d \in from..to : d \in 1..4
      BY <1>2
    <2>2. \A d \in from..to : after[d] = c[d] /\ start[d] = before(d)
      BY <1>6, <1>7, <2>1
    <2> HIDE DEF after, start, c, before
    <2> QED
      BY <1>4, <2>1, <2>2
  <1>9. from \in Nat /\ to \in Nat /\ from >= 1
    BY <1>2
  <1> HIDE DEF days, after, start, before, c, from, to
  <1> DEFINE N(j) == Multiplied(after, from..j)
             D(j) == Multiplied(start, from..j)
             P == {j \in Nat : from <= j /\ j <= to =>
                                 N(j) \in Int /\ D(j) \in Int /\ N(j) * before(from) = D(j) * c[j]}
  <1>10. ASSUME NEW j \in from..to
         PROVE  /\ N(j) \in Int /\ D(j) \in Int
                /\ Multiplied(after, {}) = 1 /\ Multiplied(start, {}) = 1
                /\ N(j) = c[j] * Multiplied(after, (from..j) \ {j})
                /\ D(j) = before(j) * Multiplied(start, (from..j) \ {j})
    <2> DEFINE S == from..j
    <2>1. S \subseteq from..to /\ j \in S /\ IsFiniteSet(S)
      <3>1. IsFiniteSet(S)
        BY <1>9, FS_Interval
      <3> QED
        BY <1>9, <3>1
    <2> HIDE DEF S
    <2>2. (\A d \in S : after[d] \in Int) /\ \A d \in S : start[d] \in Int
      BY <1>8, <2>1
    <2>3. /\ Multiplied(after, S) \in Int /\ Multiplied(after, {}) = 1
          /\ Multiplied(after, S) = after[j] * Multiplied(after, S \ {j})
      BY <2>1, <2>2, MultipliedMoves
    <2>4. /\ Multiplied(start, S) \in Int /\ Multiplied(start, {}) = 1
          /\ Multiplied(start, S) = start[j] * Multiplied(start, S \ {j})
      BY <2>1, <2>2, MultipliedMoves
    <2> QED
      BY <1>8, <2>3, <2>4 DEF S
  <1>11. 0 \in P
    BY <1>9
  <1>12. ASSUME NEW j \in Nat, j \in P PROVE j + 1 \in P
    <2> SUFFICES ASSUME from <= j + 1, j + 1 <= to
                 PROVE  /\ N(j + 1) \in Int /\ D(j + 1) \in Int
                        /\ N(j + 1) * before(from) = D(j + 1) * c[j + 1]
      OBVIOUS
    <2> DEFINE k == j + 1
    <2>1. k \in from..to /\ k \in 1..4 /\ k \in Nat
      BY <1>8, <1>9
    <2>2. CASE k = from
      <3>1. (from..k) \ {k} = {}
        BY <1>9, <2>2
      <3>2. N(k) = c[k] * 1 /\ D(k) = before(k) * 1 /\ N(k) \in Int /\ D(k) \in Int
        BY <1>10, <2>1, <3>1
      <3> DEFINE n == N(k)
                 d == D(k)
      <3>3. n = c[k] /\ d = before(k) /\ n \in Int /\ d \in Int
        <4>1. c[k] \in Int /\ before(k) \in Int
          BY <1>8, <2>1
        <4> HIDE DEF k, N, D
        <4> QED
          BY <3>2, <4>1
      <3> HIDE DEF n, d
      <3>4. n * before(from) = d * c[k]
        BY <2>2, <3>3
      <3> QED
        BY <3>2, <3>4 DEF n, d
    <2>3. CASE k # from
      <3>1. (from..k) \ {k} = from..j /\ from <= j /\ j <= to /\ k # 1 /\ k - 1 = j /\ j \in from..to
        BY <1>9, <2>1, <2>3
      <3>2. N(j) \in Int /\ D(j) \in Int /\ N(j) * before(from) = D(j) * c[j]
        BY <1>12, <3>1
      <3>3. /\ N(k) = c[k] * N(j) /\ D(k) = before(k) * D(j) /\ before(k) = c[j]
            /\ N(k) \in Int /\ D(k) \in Int
        BY <1>10, <2>1, <3>1 DEF before
      <3>4. c[k] \in Int /\ c[j] \in Int /\ before(from) \in Int
        <4>1. from \in from..to
          BY <1>9, <2>1
        <4> QED
          BY <1>8, <2>1, <3>1, <4>1
      <3> HIDE DEF N, D, k
      <3>5. (c[k] * N(j)) * before(from) = (c[j] * D(j)) * c[k]
        <4> DEFINE n == N(j)
                   d == D(j)
                   b == before(from)
                   x == c[j]
                   y == c[k]
        <4>1. n \in Int /\ d \in Int /\ b \in Int /\ x \in Int /\ y \in Int /\ n * b = d * x
          BY <3>2, <3>4
        <4> HIDE DEF n, d, b, x, y
        <4>2. (y * n) * b = (x * d) * y
          BY <4>1, GrowthStep
        <4> QED
          BY <4>2 DEF n, d, b, x, y
      <3> QED
        BY <3>3, <3>5 DEF k
    <2> QED
      BY <2>2, <2>3
  <1> HIDE DEF P, N, D
  <1>13. to \in P
    BY <1>9, <1>11, <1>12, NaturalSteps
  <1>14. N(to) * before(from) = D(to) * c[to]
    BY <1>9, <1>13 DEF P
  <1> QED
    BY <1>3, <1>7, <1>14 DEF N, D

BucketOf(v) ==
    IF v < -5 THEN <<-9, -5>> ELSE IF v < -3 THEN <<-5, -3>> ELSE IF v < -1 THEN <<-3, -1>>
    ELSE IF v < 0 THEN <<-1, 0>> ELSE IF v < 1 THEN <<0, 1>> ELSE IF v < 3 THEN <<1, 3>>
    ELSE IF v < 5 THEN <<3, 5>> ELSE <<5, 9>>

LEMMA OneBucket ==
    ASSUME NEW v \in -6..6
    PROVE  BucketOf(v) \in Buckets /\ \A b \in Buckets : InBucket(v, b) <=> BucketOf(v) = b
  BY DEF BucketOf, Buckets, InBucket

LEMMA BucketsFollow == QuestionInv => EveryTradeInOneBucket
  <1> SUFFICES ASSUME QuestionInv, Answered("buckets") PROVE EveryTradeInOneBucket
    BY DEF EveryTradeInOneBucket
  <1> DEFINE net == asked.net
             S == DOMAIN net
             key == [i \in S |-> BucketOf(net[i])]
             a == answer[1]
             h == [b \in Buckets |-> Cardinality(Group(S, key, b))]
  <1>1. asked \in ViewQuestions /\ a = Distribution(net) /\ asked.topic = "buckets"
    BY DEF QuestionInv, AskedIs, AnswersAre, Answered
  <1>2. net \in [1..3 -> -6..6]
    BY <1>1 DEF ViewQuestions
  <1>3. S = 1..3 /\ Len(net) = 3 /\ IsFiniteSet(S) /\ Cardinality(S) = 3
    <2>1. \A n \in Nat : IsFiniteSet(1..n) /\ Cardinality(1..n) = n
      BY UpToIsFinite
    <2>2. IsFiniteSet(1..3) /\ Cardinality(1..3) = 3
      BY <2>1
    <2>3. S = 1..3
      BY <1>2
    <2>4. Len(net) = 3
      BY <1>2
    <2> QED
      BY <2>2, <2>3, <2>4
  <1>4. IsFiniteSet(Buckets)
    <2>1. IsFiniteSet((-9)..9)
      <3>1. \A x, y \in Int : IsFiniteSet(x..y)
        BY FS_Interval
      <3> DEFINE x == -9
      <3>2. x \in Int /\ 9 \in Int
        OBVIOUS
      <3> HIDE DEF x
      <3>3. IsFiniteSet(x..9)
        BY <3>1, <3>2
      <3> QED
        BY <3>3 DEF x
    <2>2. IsFiniteSet(((-9)..9) \X ((-9)..9))
      BY <2>1, FS_Product
    <2>3. Buckets \subseteq ((-9)..9) \X ((-9)..9)
      BY DEF Buckets
    <2> QED
      BY <2>2, <2>3, FS_Subset
  <1>5. \A i \in S : net[i] \in -6..6 /\ key[i] = BucketOf(net[i])
    BY <1>2
  <1> HIDE DEF net, S, key
  <1>6. \A i \in S : key[i] \in Buckets /\ \A b \in Buckets : InBucket(net[i], b) <=> key[i] = b
    BY <1>5, OneBucket
  <1>7. \A b \in Buckets : {i \in S : InBucket(net[i], b)} = Group(S, key, b)
    BY <1>6 DEF Group
  <1>8. a = h
    BY <1>1, <1>7 DEF Distribution, S
  <1>9. Summed(h, Buckets) = Cardinality(S)
    BY <1>3, <1>4, <1>6, GroupsCount
  <1> HIDE DEF h
  <1> QED
    BY <1>3, <1>8, <1>9 DEF EveryTradeInOneBucket, net, a

--------------------------------------------------------------------------------
(* The public record. *)

LEMMA TradesTold ==
    ASSUME QuestionInv, Answered("record")
    PROVE  /\ answer[1] = Told(asked.trades)
           /\ asked.trades \subseteq PaperTrades /\ IsFiniteSet(asked.trades)
  <1>1. asked \in RecordQuestions /\ answer[1] = Told(asked.trades) /\ asked.topic = "record"
    BY DEF QuestionInv, AskedIs, AnswersAre, Answered
  <1> DEFINE H == {T \in Histories : Evaluated(T) # {}}
  <1>2. asked \in {[topic |-> "record", trades |-> T] : T \in H}
    <2>1. asked \notin {[topic |-> "pages", rows |-> [i \in 1..n |-> i], size |-> s] : n \in 0..7, s \in 1..4}
      BY <1>1
    <2> QED
      BY <1>1, <2>1 DEF RecordQuestions
  <1>3. PICK T \in H : asked = [topic |-> "record", trades |-> T]
    BY <1>2
  <1>4. T \in SUBSET PaperTrades
    BY DEF Histories, kSubset
  <1>5. IsFiniteSet(T)
    BY <1>4, RecordAssumption, FS_Subset
  <1> HIDE DEF H
  <1> QED
    BY <1>1, <1>3, <1>4, <1>5

\* The groups have together the right and the wrong ones of the whole.
LEMMA PartsOfGroups ==
    ASSUME NEW e, IsFiniteSet(e), NEW K, IsFiniteSet(K), NEW key, \A t \in e : key[t] \in K,
           NEW f, DOMAIN f = K, \A k \in K : f[k] = AccuracyOf(Group(e, key, k))
    PROVE  Parts(f) = AccuracyOf(e)
  <1> DEFINE right == {t \in e : Correct(t)}
             u == [k \in K |-> Cardinality(Group(right, key, k))]
             v == [k \in K |-> Cardinality(Group(e, key, k))]
  <1>1. IsFiniteSet(right) /\ \A t \in right : key[t] \in K
    BY FS_Subset
  <1>2. \A k \in K : {t \in Group(e, key, k) : Correct(t)} = Group(right, key, k)
    BY DEF Group
  <1>3. \A k \in K : f[k][1] = Cardinality(Group(right, key, k)) /\ f[k][2] = Cardinality(Group(e, key, k))
    BY <1>2 DEF AccuracyOf, Share
  <1>4. AccuracyOf(e) = <<Cardinality(right), Cardinality(e)>>
    BY DEF AccuracyOf, Share
  <1> HIDE DEF right
  <1>5. Summed(u, K) = Cardinality(right)
    BY <1>1, GroupsCount
  <1>6. Summed(v, K) = Cardinality(e)
    BY GroupsCount
  <1>7. [k \in K |-> f[k][1]] = u /\ [k \in K |-> f[k][2]] = v
    BY <1>3
  <1> QED
    BY <1>4, <1>5, <1>6, <1>7 DEF Parts, Total

LEMMA DaysAreFinite ==
    ASSUME NEW e, IsFiniteSet(e)
    PROVE  IsFiniteSet(Days(e))
  <1> DEFINE b == [t \in e |-> t.day]
  <1>1. Days(e) = {b[t] : t \in e}
    BY DEF Days
  <1> HIDE DEF b
  <1> QED
    BY <1>1, ImagesAreFinite

LEMMA TradeIs ==
    ASSUME NEW t \in PaperTrades
    PROVE  /\ t.id \in Nat /\ t.day \in 0..RecordDay /\ t.day \in Nat
           /\ t.direction \in -1..1 /\ t.confidence \in 0..100 /\ t.confidence \in Nat
           /\ t.ret # <<>> => t.ret[1] \in Int
  <1>1. RecordDay \in Nat
    BY RecordAssumption
  <1>2. /\ t.id \in Nat /\ t.day \in 0..RecordDay /\ t.direction \in -1..1 /\ t.confidence \in 0..100
        /\ t.ret # <<>> => t.ret[1] \in Int
    BY RecordAssumption
  <1> DEFINE d == t.day
             c == t.confidence
  <1>3. d \in 0..RecordDay /\ c \in 0..100
    BY <1>2
  <1> HIDE DEF d, c
  <1>4. d \in Nat /\ c \in Nat
    BY <1>1, <1>3
  <1> QED
    BY <1>2, <1>4 DEF d, c

BandOf(c) == IF c < 55 THEN 1 ELSE IF c < 65 THEN 2 ELSE IF c < 75 THEN 3 ELSE IF c < 85 THEN 4 ELSE 5

LEMMA BandIs ==
    ASSUME NEW t \in PaperTrades
    PROVE  /\ BandOf(t.confidence) \in 1..5
           /\ t.confidence < 55 <=> BandOf(t.confidence) = 1
           /\ \A b \in 1..5 : InBand(t, PublicBands[b]) <=> BandOf(t.confidence) = b
  <1> DEFINE c == t.confidence
  <1>1. c \in Nat /\ c <= 100
    <2>1. c \in 0..100
      BY TradeIs
    <2> HIDE DEF c
    <2> QED
      BY <2>1
  <1>2. \A b \in 1..5 : b = 1 \/ b = 2 \/ b = 3 \/ b = 4 \/ b = 5
    OBVIOUS
  <1>3. /\ PublicBands[1] = <<0, 55>> /\ PublicBands[2] = <<55, 65>> /\ PublicBands[3] = <<65, 75>>
        /\ PublicBands[4] = <<75, 85>> /\ PublicBands[5] = <<85, 101>>
    BY DEF PublicBands
  <1>4. \A band : InBand(t, band) <=> band[1] <= c /\ c < band[2]
    BY DEF InBand
  <1> HIDE DEF c
  <1>5. \A b \in 1..5 : InBand(t, PublicBands[b]) <=> BandOf(c) = b
    BY <1>1, <1>2, <1>3, <1>4 DEF BandOf
  <1>6. BandOf(c) \in 1..5 /\ (c < 55 <=> BandOf(c) = 1)
    BY <1>1 DEF BandOf
  <1> QED
    BY <1>5, <1>6 DEF c

LEMMA PublicParts ==
    ASSUME NEW T, T \subseteq PaperTrades, IsFiniteSet(T)
    PROVE  /\ BuildTrackRecord(T).overall = AccuracyOf(Evaluated(T))
           /\ Parts(BuildTrackRecord(T).weeks) = AccuracyOf(Evaluated(T))
           /\ Parts(BuildTrackRecord(T).bands) = AccuracyOf(Evaluated(T))
  <1> DEFINE e == Evaluated(T)
             W == {Monday(d) : d \in Days(e)}
             ofWeek == [w \in W |-> AccuracyOf({t \in e : Monday(t.day) = w})]
             bands == [b \in 1..5 |-> AccuracyOf({t \in e : InBand(t, PublicBands[b])})]
             week == [t \in e |-> Monday(t.day)]
             band == [t \in e |-> BandOf(t.confidence)]
  <1>1. /\ BuildTrackRecord(T).overall = AccuracyOf(e)
        /\ BuildTrackRecord(T).weeks = ofWeek /\ BuildTrackRecord(T).bands = bands
    BY DEF BuildTrackRecord
  <1>2. e \subseteq PaperTrades /\ IsFiniteSet(e)
    BY FS_Subset DEF Evaluated
  <1> HIDE DEF e
  <1>3. Parts(ofWeek) = AccuracyOf(e)
    <2>1. IsFiniteSet(W)
      <3> DEFINE m == [d \in Days(e) |-> Monday(d)]
      <3>1. W = {m[d] : d \in Days(e)}
        OBVIOUS
      <3>2. IsFiniteSet(Days(e))
        BY <1>2, DaysAreFinite
      <3> HIDE DEF m, W
      <3> QED
        BY <3>1, <3>2, ImagesAreFinite
    <2>2. \A t \in e : week[t] \in W
      BY DEF Days
    <2>3. \A w \in W : {t \in e : Monday(t.day) = w} = Group(e, week, w)
      BY DEF Group
    <2>4. DOMAIN ofWeek = W /\ \A w \in W : ofWeek[w] = AccuracyOf(Group(e, week, w))
      BY <2>3
    <2> HIDE DEF ofWeek, week, W
    <2> QED
      BY <1>2, <2>1, <2>2, <2>4, PartsOfGroups
  <1>4. Parts(bands) = AccuracyOf(e)
    <2>1. IsFiniteSet(1..5)
      <3>1. \A n \in Nat : IsFiniteSet(1..n)
        BY UpToIsFinite
      <3> QED
        BY <3>1
    <2>2. \A t \in e : band[t] \in 1..5
      BY <1>2, BandIs
    <2>3. \A b \in 1..5 : {t \in e : InBand(t, PublicBands[b])} = Group(e, band, b)
      BY <1>2, BandIs DEF Group
    <2>4. DOMAIN bands = 1..5 /\ \A b \in 1..5 : bands[b] = AccuracyOf(Group(e, band, b))
      BY <2>3
    <2> DEFINE K == 1..5
    <2> HIDE DEF bands, band, K
    <2> QED
      BY <1>2, <2>1, <2>2, <2>4, PartsOfGroups DEF K
  <1> QED
    BY <1>1, <1>3, <1>4 DEF e

LEMMA UiParts ==
    ASSUME NEW T, T \subseteq PaperTrades, IsFiniteSet(T)
    PROVE  LET ui == UiTrackRecord(T)
               low == AccuracyOf({t \in Evaluated(T) : t.confidence < 55})
           IN /\ ui.overall = AccuracyOf(Evaluated(T))
              /\ Parts(ui.days) = AccuracyOf(Evaluated(T))
              /\ <<Parts(ui.bands)[1] + low[1], Parts(ui.bands)[2] + low[2]>> = AccuracyOf(Evaluated(T))
  <1> DEFINE e == Evaluated(T)
             below == {t \in e : t.confidence < 55}
             shown == {t \in e : ~(t.confidence < 55)}
             days == [d \in Days(e) |-> AccuracyOf({t \in e : t.day = d})]
             bands == [b \in 2..5 |-> AccuracyOf({t \in e : InBand(t, PublicBands[b])})]
             day == [t \in e |-> t.day]
             band == [t \in shown |-> BandOf(t.confidence)]
             right(S) == {t \in S : Correct(t)}
  <1>1. /\ UiTrackRecord(T).overall = AccuracyOf(e)
        /\ UiTrackRecord(T).days = days /\ UiTrackRecord(T).bands = bands
    BY DEF UiTrackRecord
  <1>2. e \subseteq PaperTrades /\ IsFiniteSet(e)
    BY FS_Subset DEF Evaluated
  <1> HIDE DEF e
  <1>3. Parts(days) = AccuracyOf(e)
    <2>1. IsFiniteSet(Days(e))
      BY <1>2, DaysAreFinite
    <2>2. \A t \in e : day[t] \in Days(e)
      BY DEF Days
    <2>3. \A d \in Days(e) : {t \in e : t.day = d} = Group(e, day, d)
      BY DEF Group
    <2>4. DOMAIN days = Days(e) /\ \A d \in Days(e) : days[d] = AccuracyOf(Group(e, day, d))
      BY <2>3
    <2> HIDE DEF days, day
    <2> QED
      BY <1>2, <2>1, <2>2, <2>4, PartsOfGroups
  <1>4. Parts(bands) = AccuracyOf(shown)
    <2> DEFINE K == 2..5
    <2>1. IsFiniteSet(K)
      <3>1. \A n \in Nat : IsFiniteSet(1..n)
        BY UpToIsFinite
      <3>2. IsFiniteSet(1..5)
        BY <3>1
      <3>3. K \subseteq 1..5
        OBVIOUS
      <3> HIDE DEF K
      <3> QED
        BY <3>2, <3>3, FS_Subset
    <2>2. \A b \in K : b \in 1..5 /\ b # 1
      OBVIOUS
    <2>3. \A t \in shown : t \in PaperTrades /\ band[t] = BandOf(t.confidence) /\ band[t] \in K
      <3>1. \A t \in shown : t \in PaperTrades /\ band[t] = BandOf(t.confidence)
        BY <1>2
      <3>2. \A t \in shown : BandOf(t.confidence) \in 1..5 /\ BandOf(t.confidence) # 1
        BY <3>1, BandIs
      <3>3. \A b \in 1..5 : b # 1 => b \in K
        OBVIOUS
      <3> HIDE DEF K, band, shown
      <3> QED
        BY <3>1, <3>2, <3>3
    <2>4. \A t \in below, b \in K : ~InBand(t, PublicBands[b])
      BY <1>2, <2>2, BandIs
    <2>5. \A b \in K : {t \in e : InBand(t, PublicBands[b])} = Group(shown, band, b)
      <3>1. \A t \in shown, b \in K : InBand(t, PublicBands[b]) <=> band[t] = b
        BY <2>2, <2>3, BandIs
      <3>2. \A t \in e : t \in shown <=> t \notin below
        OBVIOUS
      <3>3. shown \subseteq e
        OBVIOUS
      <3> HIDE DEF K, band, shown, below
      <3> QED
        BY <2>4, <3>1, <3>2, <3>3 DEF Group
    <2>6. DOMAIN bands = K /\ \A b \in K : bands[b] = AccuracyOf(Group(shown, band, b))
      BY <2>5
    <2>7. IsFiniteSet(shown)
      BY <1>2, FS_Subset
    <2> HIDE DEF bands, band, K, shown
    <2> QED
      BY <2>1, <2>3, <2>6, <2>7, PartsOfGroups
  <1>5. ASSUME NEW S, S \subseteq e
        PROVE  IsFiniteSet(S) /\ IsFiniteSet(right(S)) /\ Cardinality(S) \in Nat
               /\ Cardinality(right(S)) \in Nat /\ AccuracyOf(S) = <<Cardinality(right(S)), Cardinality(S)>>
    <2>1. IsFiniteSet(S) /\ IsFiniteSet(right(S))
      <3>1. right(S) \subseteq e
        BY <1>5
      <3> HIDE DEF right
      <3> QED
        BY <1>2, <1>5, <3>1, FS_Subset
    <2> QED
      BY <2>1, FS_CardinalityType DEF AccuracyOf, Share
  <1>6. ASSUME NEW A, NEW B, IsFiniteSet(A), IsFiniteSet(B), A \cap B = {}
        PROVE  Cardinality(A \union B) = Cardinality(A) + Cardinality(B)
    <2>1. Cardinality(A \union B) = Cardinality(A) + Cardinality(B) - Cardinality(A \cap B)
      BY <1>6, FS_Union
    <2>2. Cardinality(A \cap B) = 0
      BY <1>6, FS_EmptySet
    <2>3. Cardinality(A) \in Nat /\ Cardinality(B) \in Nat
      BY <1>6, FS_CardinalityType
    <2> QED
      BY <2>1, <2>2, <2>3
  <1>7. /\ shown \subseteq e /\ below \subseteq e /\ shown \cap below = {} /\ shown \union below = e
        /\ right(shown) \cap right(below) = {} /\ right(shown) \union right(below) = right(e)
    OBVIOUS
  <1> HIDE DEF shown, below, right, bands, days
  <1>8. Cardinality(e) = Cardinality(shown) + Cardinality(below)
        /\ Cardinality(right(e)) = Cardinality(right(shown)) + Cardinality(right(below))
    BY <1>5, <1>6, <1>7
  <1>9. /\ AccuracyOf(shown)[1] = Cardinality(right(shown)) /\ AccuracyOf(shown)[2] = Cardinality(shown)
        /\ AccuracyOf(below)[1] = Cardinality(right(below)) /\ AccuracyOf(below)[2] = Cardinality(below)
        /\ AccuracyOf(e) = <<Cardinality(right(e)), Cardinality(e)>>
    BY <1>5, <1>7
  <1>10. <<Parts(bands)[1] + AccuracyOf(below)[1], Parts(bands)[2] + AccuracyOf(below)[2]>> = AccuracyOf(e)
    BY <1>4, <1>8, <1>9
  <1> QED
    BY <1>1, <1>3, <1>10 DEF e, below

LEMMA MonthParts ==
    ASSUME NEW T, T \subseteq PaperTrades, IsFiniteSet(T)
    PROVE  LET months == MonthlyReturns(T)
           IN Parts([m \in DOMAIN months |-> months[m].won]) = AccuracyOf(Evaluated(T))
  <1> DEFINE e == Evaluated(T)
             M == {d \div 10 : d \in Days(e)}
             months == MonthlyReturns(T)
             won == [m \in DOMAIN months |-> months[m].won]
             month == [t \in e |-> t.day \div 10]
  <1>1. DOMAIN months = M /\ \A m \in M : months[m].won = AccuracyOf({t \in e : t.day \div 10 = m})
    BY DEF MonthlyReturns
  <1>2. IsFiniteSet(e)
    BY FS_Subset DEF Evaluated
  <1> HIDE DEF e
  <1>3. IsFiniteSet(M)
    <2> DEFINE b == [d \in Days(e) |-> d \div 10]
    <2>1. M = {b[d] : d \in Days(e)}
      OBVIOUS
    <2>2. IsFiniteSet(Days(e))
      BY <1>2, DaysAreFinite
    <2> HIDE DEF b, M
    <2> QED
      BY <2>1, <2>2, ImagesAreFinite
  <1>4. \A t \in e : month[t] \in M
    BY DEF Days
  <1>5. \A m \in M : {t \in e : t.day \div 10 = m} = Group(e, month, m)
    BY DEF Group
  <1> HIDE DEF months, M, month
  <1>6. DOMAIN won = M /\ \A m \in M : won[m] = AccuracyOf(Group(e, month, m))
    BY <1>1, <1>5
  <1> HIDE DEF won
  <1>7. Parts(won) = AccuracyOf(e)
    BY <1>2, <1>3, <1>4, <1>6, PartsOfGroups
  <1> QED
    BY <1>7 DEF won, months, e

LEMMA RoutesFollow == QuestionInv => RoutesAgreeOnAccuracy
  <1> SUFFICES ASSUME QuestionInv, Answered("record") PROVE RoutesAgreeOnAccuracy
    BY DEF RoutesAgreeOnAccuracy
  <1> DEFINE T == asked.trades
             a == answer[1]
             public == BuildTrackRecord(T)
             ui == UiTrackRecord(T)
             board == Dashboard(T)
             digest == WeeklyDigest(T)
             months == MonthlyReturns(T)
             all == AccuracyOf(Evaluated(T))
             low == AccuracyOf({t \in Evaluated(T) : t.confidence < 55})
  <1>1. a = Told(T) /\ T \subseteq PaperTrades /\ IsFiniteSet(T)
    BY TradesTold
  <1>2. /\ a.public = public /\ a.ui = ui /\ a.board = board /\ a.digest = digest
        /\ a.months = months
    BY <1>1 DEF Told
  <1>3. board.accuracy = all /\ digest.cumulative = all
    BY DEF Dashboard, WeeklyDigest
  <1>4. public.overall = all /\ Parts(public.weeks) = all /\ Parts(public.bands) = all
    BY <1>1, PublicParts
  <1>5. /\ ui.overall = all /\ Parts(ui.days) = all
        /\ <<Parts(ui.bands)[1] + low[1], Parts(ui.bands)[2] + low[2]>> = all
    BY <1>1, UiParts
  <1>6. Parts([m \in DOMAIN months |-> months[m].won]) = all
    BY <1>1, MonthParts
  <1> HIDE DEF a, public, ui, board, digest, months, all
  <1> QED
    BY <1>2, <1>3, <1>4, <1>5, <1>6 DEF RoutesAgreeOnAccuracy, a, T

LEMMA AheadOrders ==
    ASSUME NEW D, D \subseteq PaperTrades
    PROVE  /\ \A t, u \in D : t = u \/ Ahead(t, u) \/ Ahead(u, t)
           /\ \A t, u \in D : Ahead(t, u) => ~Ahead(u, t)
           /\ \A t, u, v \in D : Ahead(t, u) /\ Ahead(u, v) => Ahead(t, v)
  <1>1. \A t \in D : t.id \in Nat /\ t.confidence \in Nat
    BY TradeIs
  <1>2. \A t, u \in D : t.id = u.id => t = u
    BY RecordAssumption
  <1>3. ASSUME NEW t \in D, NEW u \in D
        PROVE  (t = u \/ Ahead(t, u) \/ Ahead(u, t)) /\ (Ahead(t, u) => ~Ahead(u, t))
    <2>1. t.id \in Nat /\ t.confidence \in Nat /\ u.id \in Nat /\ u.confidence \in Nat
      BY <1>1
    <2> QED
      BY <1>2, <2>1 DEF Ahead
  <1>4. ASSUME NEW t \in D, NEW u \in D, NEW v \in D, Ahead(t, u), Ahead(u, v)
        PROVE  Ahead(t, v)
    <2>1. t.id \in Nat /\ t.confidence \in Nat /\ u.id \in Nat /\ u.confidence \in Nat
          /\ v.id \in Nat /\ v.confidence \in Nat
      BY <1>1
    <2> QED
      BY <1>4, <2>1 DEF Ahead
  <1> QED
    BY <1>3, <1>4

\* Somebody is behind all others.
LEMMA SomebodyIsLast ==
    ASSUME NEW D, D \subseteq PaperTrades, IsFiniteSet(D), D # {}
    PROVE  \E m \in D : \A u \in D : u = m \/ Ahead(u, m)
  <1> DEFINE P == {S \in SUBSET D : S = {} \/ \E m \in S : \A u \in S : u = m \/ Ahead(u, m)}
  <1>1. {} \in P
    OBVIOUS
  <1>2. ASSUME NEW S \in SUBSET D, S # {}, \A x \in S : S \ {x} \in P
        PROVE  S \in P
    <2>1. PICK x \in S : TRUE
      BY <1>2
    <2>2. CASE S \ {x} = {}
      <3>1. \A u \in S : u = x
        BY <2>2
      <3> QED
        BY <2>1, <3>1
    <2>3. CASE S \ {x} # {}
      <3>1. PICK m \in S \ {x} : \A u \in S \ {x} : u = m \/ Ahead(u, m)
        BY <1>2, <2>3
      <3>2. CASE Ahead(x, m)
        <4>1. \A u \in S : u = m \/ Ahead(u, m)
          BY <3>1, <3>2
        <4> QED
          BY <4>1
      <3>3. CASE Ahead(m, x)
        <4>1. \A u \in S : u = x \/ Ahead(u, x)
          BY <3>1, <3>3, AheadOrders
        <4> QED
          BY <4>1
      <3> QED
        BY <3>1, <3>2, <3>3, AheadOrders
    <2> QED
      BY <2>2, <2>3
  <1> HIDE DEF P
  <1>3. \A S \in SUBSET D : S \in P
    BY <1>1, <1>2, SubsetSteps
  <1>4. D \in P
    BY <1>3
  <1> QED
    BY <1>4 DEF P

BestOf(k, D) == {t \in D : Cardinality({u \in D : Ahead(u, t)}) < k}

\* Of D there are k best ones, or all of them when they are fewer.
LEMMA BestAre ==
    ASSUME NEW k \in Nat, NEW D, D \subseteq PaperTrades, IsFiniteSet(D)
    PROVE  Cardinality(BestOf(k, D)) = Min({k, Cardinality(D)})
  <1> DEFINE P == {S \in SUBSET D : LET n == Cardinality(S)
                                    IN Cardinality(BestOf(k, S)) = IF k <= n THEN k ELSE n}
  <1>1. {} \in P
    <2>1. BestOf(k, {}) = {} /\ Cardinality({}) = 0
      BY FS_EmptySet DEF BestOf
    <2> QED
      BY <2>1
  <1>2. ASSUME NEW S \in SUBSET D, S # {}, \A x \in S : S \ {x} \in P
        PROVE  S \in P
    <2>1. IsFiniteSet(S) /\ S \subseteq PaperTrades
      BY FS_Subset
    <2>2. PICK m \in S : \A u \in S : u = m \/ Ahead(u, m)
      BY <1>2, <2>1, SomebodyIsLast
    <2> DEFINE R == S \ {m}
               n == Cardinality(R)
               ahead(t, X) == {u \in X : Ahead(u, t)}
    <2>3. IsFiniteSet(R) /\ n \in Nat /\ Cardinality(S) = n + 1 /\ m \notin R
      <3>1. IsFiniteSet(R) /\ Cardinality(R) = Cardinality(S) - 1
        BY <2>1, FS_RemoveElement
      <3>2. Cardinality(S) \in Nat /\ Cardinality(R) \in Nat
        BY <2>1, <3>1, FS_CardinalityType
      <3> QED
        BY <3>1, <3>2
    <2>4. Cardinality(BestOf(k, R)) = IF k <= n THEN k ELSE n
      BY <1>2
    <2>5. \A t \in R : ahead(t, S) = ahead(t, R)
      <3>1. \A t \in R : ~Ahead(m, t)
        BY <2>1, <2>2, AheadOrders
      <3> QED
        BY <3>1
    <2>6. ahead(m, S) = R
      <3>1. ~Ahead(m, m)
        BY <2>1, AheadOrders
      <3> QED
        BY <2>2, <3>1
    <2>7. BestOf(k, S) = BestOf(k, R) \union IF n < k THEN {m} ELSE {}
      <3>1. \A t \in R : t \in BestOf(k, S) <=> t \in BestOf(k, R)
        BY <2>5 DEF BestOf
      <3>2. m \in BestOf(k, S) <=> n < k
        BY <2>6 DEF BestOf
      <3>3. BestOf(k, S) \subseteq S /\ BestOf(k, R) \subseteq R /\ S = R \union {m} /\ R \subseteq S
        BY DEF BestOf
      <3> HIDE DEF R, n
      <3> QED
        BY <2>3, <3>1, <3>2, <3>3
    <2>8. IsFiniteSet(BestOf(k, R)) /\ m \notin BestOf(k, R)
      <3>1. BestOf(k, R) \subseteq R
        BY DEF BestOf
      <3> HIDE DEF R
      <3> QED
        BY <2>3, <3>1, FS_Subset
    <2> HIDE DEF R, n, ahead
    <2>9. CASE n < k
      <3>1. Cardinality(BestOf(k, S)) = Cardinality(BestOf(k, R)) + 1
        BY <2>7, <2>8, <2>9, FS_AddElement
      <3> QED
        BY <2>3, <2>4, <2>9, <3>1
    <2>10. CASE ~(n < k)
      <3>1. BestOf(k, S) = BestOf(k, R)
        BY <2>7, <2>10
      <3> QED
        BY <2>3, <2>4, <2>10, <3>1
    <2> QED
      BY <2>9, <2>10
  <1> HIDE DEF P
  <1>3. D \in P
    <2>1. \A S \in SUBSET D : S \in P
      BY <1>1, <1>2, SubsetSteps
    <2> QED
      BY <2>1
  <1> DEFINE n == Cardinality(D)
  <1>4. n \in Nat /\ Cardinality(BestOf(k, D)) = IF k <= n THEN k ELSE n
    BY <1>3, FS_CardinalityType DEF P
  <1> HIDE DEF n
  <1>5. Min({k, n}) = IF k <= n THEN k ELSE n
    BY <1>4, MinOfTwo
  <1> QED
    BY <1>4, <1>5 DEF n

LEMMA PicksFollow == QuestionInv => EveryDayHasItsTopPicks
  <1> SUFFICES ASSUME QuestionInv, Answered("record") PROVE EveryDayHasItsTopPicks
    BY DEF EveryDayHasItsTopPicks
  <1> DEFINE T == asked.trades
             a == answer[1]
             D == {t \in T : t.direction # 0}
             of(d) == {t \in D : t.day = d}
             top == TopOfDay(T)
             key == [t \in top |-> t.day]
             most(d) == Min({TopK, Cardinality(of(d))})
             h == [d \in Days(D) |-> Cardinality(Group(top, key, d))]
  <1>1. a = Told(T) /\ T \subseteq PaperTrades /\ IsFiniteSet(T)
    BY TradesTold
  <1>2. a.board.tracks.top.selected = Cardinality(top)
    BY <1>1 DEF Told, Dashboard, Tracks, TrackStats
  <1>3. top \subseteq D /\ D \subseteq T
    BY DEF TopOfDay
  <1>4. IsFiniteSet(D) /\ IsFiniteSet(top) /\ IsFiniteSet(Days(D))
    <2> HIDE DEF D, top
    <2> QED
      BY <1>1, <1>3, DaysAreFinite, FS_Subset
  <1>5. \A t \in top : key[t] \in Days(D)
    BY <1>3 DEF Days
  <1>6. Summed(h, Days(D)) = Cardinality(top)
    <2> HIDE DEF D, top, key
    <2> QED
      BY <1>4, <1>5, GroupsCount
  <1>7. ASSUME NEW d \in Days(D) PROVE h[d] = most(d)
    <2>1. \A t \in of(d) : {u \in T : u.direction # 0 /\ u.day = t.day /\ Ahead(u, t)}
                             = {u \in of(d) : Ahead(u, t)}
      OBVIOUS
    <2>2. Group(top, key, d) = {t \in top : t.day = d}
      BY DEF Group
    <2>3. {t \in top : t.day = d} = BestOf(TopK, of(d))
      BY <2>1 DEF TopOfDay, BestOf
    <2>4. of(d) \subseteq PaperTrades /\ IsFiniteSet(of(d))
      <3>1. of(d) \subseteq T
        OBVIOUS
      <3> HIDE DEF of
      <3> QED
        BY <1>1, <3>1, FS_Subset
    <2>5. TopK \in Nat
      BY RecordAssumption
    <2>6. Cardinality(BestOf(TopK, of(d))) = most(d)
      <3> HIDE DEF of
      <3> QED
        BY <2>4, <2>5, BestAre
    <2>7. h[d] = Cardinality(Group(top, key, d))
      OBVIOUS
    <2> QED
      BY <2>2, <2>3, <2>6, <2>7
  <1>8. h = [d \in Days(D) |-> most(d)]
    BY <1>7
  <1>9. Total(Days(D), most) = Summed(h, Days(D))
    BY <1>8 DEF Total
  <1> HIDE DEF h, top
  <1> QED
    BY <1>2, <1>6, <1>9 DEF EveryDayHasItsTopPicks, a

LEMMA EarnedIs ==
    ASSUME NEW t \in PaperTrades, t.ret # <<>>
    PROVE  Earned(t) \in Int /\ Net(t) \in Int /\ (Correct(t) => Earned(t) >= 0)
  <1> DEFINE d == t.direction
             r == t.ret[1]
  <1>1. d \in -1..1 /\ r \in Int
    BY TradeIs
  <1>2. LongCost \in Int /\ ShortCost \in Int
    BY RecordAssumption
  <1>3. Earned(t) = d * r /\ (Correct(t) <=> Sign(d) = Sign(r))
    BY DEF Earned, Correct
  <1> HIDE DEF d, r
  <1>4. d = -1 \/ d = 0 \/ d = 1
    BY <1>1
  <1>5. Earned(t) \in Int /\ (Correct(t) => Earned(t) >= 0)
    BY <1>1, <1>3, <1>4 DEF Sign
  <1>6. CostOf(t) \in Int
    BY <1>2 DEF CostOf
  <1>7. Net(t) \in Int
    BY <1>5, <1>6 DEF Net
  <1> QED
    BY <1>5, <1>7

LEMMA LosersFollow == QuestionInv => NoLoserIsHidden
  <1> SUFFICES ASSUME QuestionInv, Answered("record") PROVE NoLoserIsHidden
    BY DEF NoLoserIsHidden
  <1> DEFINE T == asked.trades
             a == answer[1]
             s == StrategyStats(T)
             K == {t.strategy : t \in T}
             e == Directional(T)
             won == {t \in e : Net(t) > 0}
             key == [t \in T |-> t.strategy]
             f == [t \in e |-> Net(t)]
             of(k) == {t \in T : t.strategy = k}
  <1>1. a = Told(T) /\ T \subseteq PaperTrades /\ IsFiniteSet(T)
    BY TradesTold
  <1>2. a.strategies = s /\ a.board.tracks.all = TrackStats(T)
    BY <1>1 DEF Told, Dashboard, Tracks
  <1>3. DOMAIN s = K /\ \A k \in K : s[k] = TrackStats(of(k))
    BY DEF StrategyStats
  <1>4. e \subseteq T /\ won \subseteq e /\ IsFiniteSet(e) /\ IsFiniteSet(won)
    <2>1. e \subseteq T /\ won \subseteq e
      BY DEF Directional, Evaluated
    <2> HIDE DEF e, won
    <2> QED
      BY <1>1, <2>1, FS_Subset
  <1>5. \A t \in e : t \in PaperTrades /\ t.ret # <<>>
    BY <1>1 DEF Directional, Evaluated
  <1>6. \A t \in e : f[t] = Net(t) /\ f[t] \in Int
    <2> HIDE DEF e
    <2> QED
      BY <1>5, EarnedIs
  <1>7. IsFiniteSet(K) /\ \A t \in T : key[t] \in K
    <2>1. K = {key[t] : t \in T} /\ \A t \in T : key[t] \in K
      OBVIOUS
    <2> HIDE DEF key, K, T
    <2> QED
      BY <1>1, <2>1, ImagesAreFinite
  <1>8. ASSUME NEW k \in K
        PROVE  /\ Directional(of(k)) = Group(e, key, k)
               /\ {t \in Directional(of(k)) : Net(t) > 0} = Group(won, key, k)
    <2>1. Directional(of(k)) = Group(e, key, k)
      BY DEF Directional, Evaluated, Group
    <2> HIDE DEF key, of, e
    <2> QED
      BY <2>1 DEF Group
  <1>9. \A S : /\ TrackStats(S).net = Total(Directional(S), Net)
               /\ TrackStats(S).evaluated = Cardinality(Directional(S))
               /\ TrackStats(S).won = Cardinality({t \in Directional(S) : Net(t) > 0})
    BY DEF TrackStats
  <1> DEFINE net == [k \in K |-> s[k].net]
             sums == [k \in K |-> Summed(f, Group(e, key, k))]
  <1> HIDE DEF a, s, T, K, key, of
  <1>10. Total(DOMAIN s, LAMBDA x : s[x].net) = TrackStats(T).net
    <2>1. Total(DOMAIN s, LAMBDA x : s[x].net) = Summed(net, K)
      BY <1>3 DEF Total
    <2>2. TrackStats(T).net = Summed(f, e)
      BY <1>9 DEF Total
    <2>3. Summed(sums, K) = Summed(f, e)
      <3> HIDE DEF f, e
      <3> QED
        BY <1>4, <1>6, <1>7, SummedGroups
    <2>4. ASSUME NEW k \in K PROVE net[k] = sums[k] /\ sums[k] \in Int
      <3> DEFINE A == Group(e, key, k)
                 h == [t \in A |-> Net(t)]
      <3>1. net[k] = Summed(h, A)
        BY <1>3, <1>8, <1>9 DEF Total
      <3>2. A \subseteq e
        BY DEF Group
      <3>3. IsFiniteSet(A) /\ \A t \in A : f[t] \in Int /\ h[t] = f[t]
        <4> HIDE DEF e, f, A
        <4> QED
          BY <1>4, <1>6, <3>2, FS_Subset
      <3> HIDE DEF h, A, f, net
      <3>4. Summed(h, A) = Summed(f, A) /\ Summed(f, A) \in Int
        BY <3>3, SummedAlike, SummedMoves
      <3> QED
        BY <3>1, <3>4 DEF A
    <2>5. Summed(net, K) = Summed(sums, K)
      <3> HIDE DEF net, sums
      <3> QED
        BY <1>7, <2>4, SummedAlike
    <2> QED
      BY <2>1, <2>2, <2>3, <2>5
  <1>11. Total(DOMAIN s, LAMBDA x : s[x].evaluated) = TrackStats(T).evaluated
    <2>1. [k \in K |-> s[k].evaluated] = [k \in K |-> Cardinality(Group(e, key, k))]
      BY <1>3, <1>8, <1>9
    <2>2. Total(DOMAIN s, LAMBDA x : s[x].evaluated) = Summed([k \in K |-> s[k].evaluated], K)
      BY <1>3 DEF Total
    <2>3. Summed([k \in K |-> Cardinality(Group(e, key, k))], K) = Cardinality(e)
      <3> HIDE DEF e
      <3> QED
        BY <1>4, <1>7, GroupsCount
    <2> QED
      BY <1>9, <2>1, <2>2, <2>3
  <1>12. Total(DOMAIN s, LAMBDA x : s[x].won) = TrackStats(T).won
    <2>1. [k \in K |-> s[k].won] = [k \in K |-> Cardinality(Group(won, key, k))]
      BY <1>3, <1>8, <1>9
    <2>2. Total(DOMAIN s, LAMBDA x : s[x].won) = Summed([k \in K |-> s[k].won], K)
      BY <1>3 DEF Total
    <2>3. Summed([k \in K |-> Cardinality(Group(won, key, k))], K) = Cardinality(won)
      <3>1. \A t \in won : key[t] \in K
        BY <1>4, <1>7
      <3> HIDE DEF won
      <3> QED
        BY <1>4, <1>7, <3>1, GroupsCount
    <2> QED
      BY <1>9, <2>1, <2>2, <2>3
  <1> QED
    BY <1>2, <1>10, <1>11, <1>12 DEF NoLoserIsHidden, a

LEMMA DaysDoNotLose == QuestionInv => RightDaysDoNotLose
  <1> SUFFICES ASSUME QuestionInv, Answered("record") PROVE RightDaysDoNotLose
    BY DEF RightDaysDoNotLose
  <1> DEFINE T == asked.trades
             a == answer[1]
             daily == DailyReturns(T)
  <1>1. a = Told(T) /\ T \subseteq PaperTrades /\ IsFiniteSet(T)
    BY TradesTold
  <1>2. a.daily = daily
    BY <1>1 DEF Told
  <1> SUFFICES ASSUME NEW d \in DOMAIN daily,
                      \A t \in {u \in Evaluated(T) : u.day = d} : Correct(t)
               PROVE  daily[d][1] >= 0
    BY <1>2 DEF RightDaysDoNotLose
  <1> DEFINE e == {t \in Evaluated(T) : t.day = d}
             f == [t \in e |-> Earned(t)]
  <1>3. daily[d][1] = Summed(f, e)
    BY DEF DailyReturns, DayReturn, Total
  <1>4. e \subseteq T /\ \A t \in e : t.ret # <<>> /\ Correct(t)
    BY DEF Evaluated
  <1> HIDE DEF e
  <1>5. IsFiniteSet(e) /\ \A t \in e : Earned(t) \in Int /\ Earned(t) >= 0
    BY <1>1, <1>4, EarnedIs, FS_Subset
  <1>6. \A t \in e : f[t] \in Nat
    BY <1>5
  <1> HIDE DEF f
  <1>7. Summed(f, e) \in Nat
    BY <1>5, <1>6, SummedSteps
  <1> QED
    BY <1>3, <1>7

LEMMA PortfolioFollows == QuestionInv => PortfolioIsOfThePositions
  <1> SUFFICES ASSUME QuestionInv, Answered("record") PROVE PortfolioIsOfThePositions
    BY DEF PortfolioIsOfThePositions
  <1> DEFINE T == asked.trades
             a == answer[1]
             S == OpenRows(T)
             priced == {t \in S : Closes[t.symbol] # <<>>}
             gain(t) == IF Closes[t.symbol] = <<>> THEN 0 ELSE Closes[t.symbol][1] * SideOf(t)
             rec(t) == [id |-> <<t.symbol, t.day>>, trade |-> t.id, side |-> SideOf(t), gain |-> gain(t)]
             b == [t \in S |-> rec(t)]
             pos == {b[t] : t \in S}
             f == [p \in pos |-> p.gain]
             g == [t \in S |-> gain(t)]
             h == [t \in priced |-> Closes[t.symbol][1] * SideOf(t)]
  <1>1. a = Told(T) /\ T \subseteq PaperTrades /\ IsFiniteSet(T)
    BY TradesTold
  <1>2. a.portfolio = PortfolioSummary(T) /\ a.positions = PaperPositions(T)
    BY <1>1 DEF Told
  <1>3. S \subseteq T
    BY DEF OpenRows
  <1> HIDE DEF S
  <1>4. PaperPositions(T) = pos
    BY DEF PaperPositions, S
  <1>5. PortfolioSummary(T).unrealized = Summed(h, priced)
    BY DEF PortfolioSummary, Total, S
  <1>6. IsFiniteSet(S) /\ priced \in SUBSET S /\ \A t \in S : t \in PaperTrades
    BY <1>1, <1>3, FS_Subset
  <1>7. \A t \in S : SideOf(t) \in Int /\ gain(t) \in Int
    <2> SUFFICES ASSUME NEW t \in S PROVE SideOf(t) \in Int /\ gain(t) \in Int
      OBVIOUS
    <2>1. Closes[t.symbol] # <<>> => Closes[t.symbol][1] \in Int
      BY <1>6, RecordAssumption
    <2>2. SideOf(t) \in Int
      BY DEF SideOf
    <2> QED
      BY <2>1, <2>2
  <1>8. /\ \A t \in S : b[t] \in pos /\ f[b[t]] = gain(t) /\ g[t] = gain(t)
        /\ \A p \in pos : f[p] \in Int
    <2>1. \A t \in S : b[t] \in pos /\ g[t] = gain(t)
      OBVIOUS
    <2>2. \A t \in S : b[t].gain = gain(t)
      <3> HIDE DEF gain
      <3> QED
        OBVIOUS
    <2>3. \A p \in pos : f[p] = p.gain /\ \E t \in S : p = b[t]
      <3> HIDE DEF b
      <3> QED
        OBVIOUS
    <2> HIDE DEF b, f, g, pos, gain
    <2> QED
      BY <1>7, <2>1, <2>2, <2>3
  <1>9. \A t, u \in S : b[t] = b[u] => t = u
    <2>1. \A t, u \in S : b[t] = b[u] => t.id = u.id
      OBVIOUS
    <2>2. \A t, u \in PaperTrades : t.id = u.id => t = u
      BY RecordAssumption
    <2> HIDE DEF b
    <2> QED
      BY <1>6, <2>1, <2>2
  <1>10. (\A t \in S \ priced : g[t] = 0) /\ \A t \in priced : h[t] = g[t] /\ g[t] \in Int
    BY <1>7
  <1> HIDE DEF b, f, g, h, priced, gain
  <1>11. Summed(f, pos) = Summed(g, S)
    <2> DEFINE v == [t \in S |-> f[b[t]]]
               U == pos
    <2>1. \A t \in S : b[t] \in U
      BY <1>8
    <2>2. \A u \in U : f[u] \in Int
      BY <1>8
    <2>3. Summed(f, {b[t] : t \in S}) = Summed([t \in S |-> f[b[t]]], S)
      <3>1. IsFiniteSet(S) /\ \A t, u \in S : b[t] = b[u] => t = u
        BY <1>6, <1>9
      <3> HIDE DEF U, pos
      <3> QED
        BY <2>1, <2>2, <3>1, SummedImage
    <2> HIDE DEF U
    <2>4. \A t \in S : g[t] \in Int /\ v[t] = g[t]
      BY <1>7, <1>8
    <2> HIDE DEF v
    <2>5. Summed(v, S) = Summed(g, S)
      BY <1>6, <2>4, SummedAlike
    <2> QED
      BY <2>3, <2>5 DEF v
  <1>12. Summed(h, priced) = Summed(g, S)
    <2>1. IsFiniteSet(priced)
      BY <1>6, FS_Subset
    <2>2. Summed(h, priced) = Summed(g, priced)
      BY <1>10, <2>1, SummedAlike
    <2>3. \A t \in S : g[t] \in Int
      BY <1>7, <1>8
    <2>4. Summed(g, priced) = Summed(g, S)
      BY <1>6, <1>10, <2>3, SummedButZeros
    <2> QED
      BY <2>2, <2>4
  <1>13. Total(pos, LAMBDA p : p.gain) = Summed(f, pos)
    BY DEF Total, f
  <1> QED
    BY <1>2, <1>4, <1>5, <1>11, <1>12, <1>13 DEF PortfolioIsOfThePositions, a

UpTo(n) == [i \in 1..n |-> i]

LEMMA UpToIs ==
    ASSUME NEW n \in Nat
    PROVE  /\ UpTo(n) \in Seq(Nat) /\ Len(UpTo(n)) = n /\ \A i \in 1..n : UpTo(n)[i] = i
           /\ \A s : s \in Seq(Nat) /\ Len(s) = n /\ (\A i \in 1..n : s[i] = i) => s = UpTo(n)
  <1>1. UpTo(n) \in Seq(Nat) /\ Len(UpTo(n)) = n /\ \A i \in 1..n : UpTo(n)[i] = i
    BY DEF UpTo
  <1>2. ASSUME NEW s, s \in Seq(Nat), Len(s) = n, \A i \in 1..n : s[i] = i
        PROVE  s = UpTo(n)
    <2>1. DOMAIN s = 1..n /\ s = [i \in DOMAIN s |-> s[i]]
      BY <1>2
    <2> QED
      BY <1>2, <2>1 DEF UpTo
  <1> QED
    BY <1>1, <1>2

LEMMA PartOfRows ==
    ASSUME NEW n \in Nat, NEW x \in Nat, NEW y \in Nat, x < y, y <= n
    PROVE  /\ SubSeq(UpTo(n), x + 1, y) \in Seq(Nat) /\ Len(SubSeq(UpTo(n), x + 1, y)) = y - x
           /\ \A i \in 1..(y - x) : SubSeq(UpTo(n), x + 1, y)[i] = x + i
  <1> DEFINE r == UpTo(n)
             z == x + 1
             m == y - x
  <1>1. r \in Seq(Nat) /\ Len(r) = n /\ \A i \in 1..n : r[i] = i
    BY UpToIs
  <1>2. z \in Nat /\ 1 <= z /\ z <= y /\ m = y - z + 1 /\ m \in Nat
    OBVIOUS
  <1>3. \A i \in 1..m : z + i - 1 = x + i /\ x + i \in 1..n
    OBVIOUS
  <1> HIDE DEF r, z, m
  <1>4. /\ SubSeq(r, z, y) \in Seq(Nat) /\ Len(SubSeq(r, z, y)) = y - z + 1
        /\ \A i \in 1..(y - z + 1) : SubSeq(r, z, y)[i] = r[z + i - 1]
    BY <1>1, <1>2, PartIs
  <1>5. \A i \in 1..m : SubSeq(r, z, y)[i] = x + i
    BY <1>1, <1>2, <1>3, <1>4
  <1> QED
    BY <1>2, <1>4, <1>5 DEF r, z, m

LEMMA RowsJoin ==
    ASSUME NEW n \in Nat, NEW x \in Nat, NEW y \in Nat, x < y, y <= n
    PROVE  UpTo(x) \o SubSeq(UpTo(n), x + 1, y) = UpTo(y)
  <1> DEFINE s == UpTo(x)
             t == SubSeq(UpTo(n), x + 1, y)
             z == s \o t
  <1>1. s \in Seq(Nat) /\ Len(s) = x /\ \A i \in 1..x : s[i] = i
    BY UpToIs
  <1>2. t \in Seq(Nat) /\ Len(t) = y - x /\ \A i \in 1..(y - x) : t[i] = x + i
    BY PartOfRows
  <1> HIDE DEF s, t
  <1>3. /\ z \in Seq(Nat) /\ Len(z) = Len(s) + Len(t)
        /\ \A i \in 1..Len(s) : z[i] = s[i]
        /\ \A i \in 1..Len(t) : z[Len(s) + i] = t[i]
    <2>1. s \in Seq(Nat)
      BY <1>1
    <2>2. t \in Seq(Nat)
      BY <1>2
    <2> QED
      BY <2>1, <2>2
  <1> HIDE DEF z
  <1>4. Len(z) = y
    BY <1>1, <1>2, <1>3
  <1>5. ASSUME NEW i \in 1..y PROVE z[i] = i
    <2>1. CASE i <= x
      BY <1>1, <1>3, <2>1
    <2>2. CASE ~(i <= x)
      <3> DEFINE j == i - x
      <3>1. j \in 1..(y - x) /\ x + j = i
        BY <2>2
      <3> HIDE DEF j
      <3>2. z[x + j] = t[j] /\ t[j] = x + j
        BY <1>1, <1>2, <1>3, <3>1
      <3> QED
        BY <3>1, <3>2
    <2> QED
      BY <2>1, <2>2
  <1> QED
    BY <1>3, <1>4, <1>5, UpToIs DEF s, t, z

LEMMA PagesAre ==
    ASSUME NEW n \in 0..7, NEW size \in 1..4
    PROVE  LET total == (n + size - 1) \div size
           IN /\ total \in Nat /\ (total = 0 <=> n = 0) /\ n <= total * size
              /\ \A p \in 1..total : (p - 1) * size < n /\ (p - 1) * size \in Nat /\ p * size \in Nat
  <1> DEFINE total == (n + size - 1) \div size
  <1>1. CASE size = 1
    BY <1>1
  <1>2. CASE size = 2
    BY <1>2
  <1>3. CASE size = 3
    BY <1>3
  <1>4. CASE size = 4
    BY <1>4
  <1> QED
    BY <1>1, <1>2, <1>3, <1>4

LEMMA PagesFollow == QuestionInv => PagesCoverTheList
  <1> SUFFICES ASSUME QuestionInv, Answered("pages") PROVE PagesCoverTheList
    BY DEF PagesCoverTheList
  <1> DEFINE rows == asked.rows
             size == asked.size
             total == TotalPages(rows, size)
             a == answer[1]
             pages == [p \in 1..total |-> a[p]]
  <1>1. asked \in RecordQuestions /\ a = GetPredictions(rows, size) /\ asked.topic = "pages"
    BY DEF QuestionInv, AskedIs, AnswersAre, Answered
  <1>2. PICK n \in 0..7 : rows = UpTo(n) /\ size \in 1..4
    <2> DEFINE H == {T \in Histories : Evaluated(T) # {}}
    <2>1. asked \notin {[topic |-> "record", trades |-> T] : T \in H}
      BY <1>1
    <2>2. asked \in {[topic |-> "pages", rows |-> [i \in 1..k |-> i], size |-> s] : k \in 0..7, s \in 1..4}
      BY <1>1, <2>1 DEF RecordQuestions
    <2>3. PICK k \in 0..7, s \in 1..4 : asked = [topic |-> "pages", rows |-> [i \in 1..k |-> i], size |-> s]
      BY <2>2
    <2>4. rows = UpTo(k) /\ size = s
      BY <2>3 DEF UpTo
    <2> QED
      BY <2>4
  <1>3. Len(rows) = n /\ n \in Nat
    BY <1>2, UpToIs
  <1> HIDE DEF rows, size
  <1>4. total = (n + size - 1) \div size
    BY <1>3 DEF TotalPages
  <1>5. /\ total \in Nat /\ (total = 0 <=> n = 0) /\ n <= total * size
        /\ \A p \in 1..total : (p - 1) * size < n /\ (p - 1) * size \in Nat /\ p * size \in Nat
    BY <1>2, <1>4, PagesAre
  <1> HIDE DEF total
  <1> DEFINE end(p) == IF p * size <= n THEN p * size ELSE n
  <1>6. ASSUME NEW p \in 1..total
        PROVE  pages[p] = SubSeq(UpTo(n), (p - 1) * size + 1, end(p))
    <2> DEFINE m == p * size
    <2>1. pages[p] = SubSeq(rows, (p - 1) * size + 1, Min({m, Len(rows)}))
      BY <1>1 DEF GetPredictions, Page, total
    <2>2. m \in Int /\ n \in Int
      BY <1>3, <1>5
    <2> HIDE DEF m
    <2>3. Min({m, n}) = IF m <= n THEN m ELSE n
      BY <2>2, MinOfTwo
    <2> QED
      BY <1>2, <1>3, <2>1, <2>3 DEF m
  <1>7. /\ \A p \in 1..total : /\ end(p) \in Nat /\ (p - 1) * size < end(p) /\ end(p) <= n
                               /\ p > 1 => end(p - 1) = (p - 1) * size
        /\ total > 0 => end(total) = n
    <2>1. ASSUME NEW p \in 1..total
          PROVE  end(p) \in Nat /\ (p - 1) * size < end(p) /\ end(p) <= n
      <3> DEFINE u == (p - 1) * size
                 v == p * size
      <3>1. u < n /\ u \in Nat /\ v \in Nat /\ n \in Nat
        BY <1>3, <1>5
      <3>2. u < v
        <4>1. v = u + size /\ size > 0 /\ size \in Nat
          BY <1>2, <1>5
        <4> HIDE DEF u, v
        <4> QED
          BY <3>1, <4>1
      <3> HIDE DEF u, v
      <3> QED
        BY <3>1, <3>2 DEF u, v
    <2>2. ASSUME NEW p \in 1..total, p > 1 PROVE end(p - 1) = (p - 1) * size
      <3>1. (p - 1) * size < n /\ (p - 1) * size \in Nat
        BY <1>5
      <3> QED
        BY <1>3, <3>1
    <2>3. total > 0 => end(total) = n
      <3> DEFINE v == total * size
      <3>1. v \in Nat /\ n <= v
        BY <1>2, <1>5
      <3> HIDE DEF v
      <3> QED
        BY <1>3, <3>1 DEF v
    <2> QED
      BY <2>1, <2>2, <2>3
  <1>8. DOMAIN pages = 1..total /\ Len(pages) = total
    <2> HIDE DEF a
    <2> QED
      BY <1>5
  <1> HIDE DEF pages, a, end
  <1>9. CASE total = 0
    <2>1. FlattenSeq(pages) = pages
      BY <1>8, <1>9 DEF FlattenSeq
    <2>2. pages = [p \in 1..0 |-> a[p]] /\ UpTo(n) = [i \in 1..0 |-> i]
      BY <1>5, <1>9 DEF pages, UpTo
    <2>3. pages = UpTo(n)
      BY <2>2
    <2> QED
      BY <1>2, <2>1, <2>3 DEF PagesCoverTheList, pages, a, total, rows, size
  <1>10. CASE total # 0
    <2> DEFINE Body(g) == [i \in 1..total |-> IF i = 1 THEN pages[i] ELSE g[i - 1] \o pages[i]]
               read == [i \in 1..total |-> UpTo(end(i))]
    <2>1. total \in 1..total /\ 1 \in 1..total
      BY <1>5, <1>10
    <2>2. pages[1] = UpTo(end(1))
      <3> DEFINE y == end(1)
      <3>1. y \in Nat /\ 0 < y /\ y <= n
        BY <1>2, <1>7, <2>1
      <3>2. (1 - 1) * size + 1 = 1
        BY <1>2
      <3>3. pages[1] = SubSeq(UpTo(n), 1, y)
        BY <1>6, <2>1, <3>2
      <3> HIDE DEF y
      <3> DEFINE s == SubSeq(UpTo(n), 0 + 1, y)
      <3>4. s \in Seq(Nat) /\ Len(s) = y - 0 /\ \A i \in 1..(y - 0) : s[i] = 0 + i
        <4>1. \A x \in Nat : x < y => /\ SubSeq(UpTo(n), x + 1, y) \in Seq(Nat) /\ Len(SubSeq(UpTo(n), x + 1, y)) = y - x
                                      /\ \A i \in 1..(y - x) : SubSeq(UpTo(n), x + 1, y)[i] = x + i
          BY <1>3, <3>1, PartOfRows
        <4> QED
          BY <3>1, <4>1
      <3>5. 0 + 1 = 1 /\ pages[1] = s
        BY <3>3
      <3> HIDE DEF s
      <3>6. Len(s) = y /\ \A i \in 1..y : s[i] = i
        BY <3>1, <3>4
      <3>7. s = UpTo(y)
        BY <3>1, <3>4, <3>6, UpToIs
      <3> QED
        BY <3>5, <3>7 DEF y
    <2>3. ASSUME NEW i \in 1..total, i # 1
          PROVE  UpTo(end(i - 1)) \o pages[i] = UpTo(end(i))
      <3> DEFINE x == (i - 1) * size
                 y == end(i)
      <3>1. x \in Nat /\ y \in Nat /\ x < y /\ y <= n /\ end(i - 1) = x
        <4>1. i > 1
          BY <2>3
        <4> QED
          BY <1>5, <1>7, <4>1
      <3>2. pages[i] = SubSeq(UpTo(n), x + 1, y)
        BY <1>6
      <3> HIDE DEF x, y
      <3>3. UpTo(x) \o SubSeq(UpTo(n), x + 1, y) = UpTo(y)
        BY <1>3, <3>1, RowsJoin
      <3> QED
        BY <3>1, <3>2, <3>3 DEF y
    <2>4. read = Body(read)
      <3>1. \A i \in 1..total : i # 1 => i - 1 \in 1..total /\ read[i - 1] = UpTo(end(i - 1))
        BY <1>5
      <3>2. \A i \in 1..total : Body(read)[i] = UpTo(end(i))
        <4> HIDE DEF read
        <4> QED
          BY <2>2, <2>3, <3>1
      <3> QED
        BY <3>2
    <2> DEFINE c == CHOOSE h : h = Body(h)
    <2>5. c = Body(c)
      <3> HIDE DEF read, Body
      <3> QED
        BY <2>4
    <2>6. FlattenSeq(pages) = c[total]
      BY <1>8, <1>10 DEF FlattenSeq
    <2> DEFINE P == {i \in Nat : i \in 1..total => c[i] = UpTo(end(i))}
    <2> HIDE DEF c
    <2>7. c[1] = pages[1] /\ \A i \in 1..total : i # 1 => c[i] = c[i - 1] \o pages[i]
      BY <2>1, <2>5
    <2>8. 0 \in P
      OBVIOUS
    <2>9. ASSUME NEW i \in Nat, i \in P PROVE i + 1 \in P
      <3> SUFFICES ASSUME i + 1 \in 1..total PROVE c[i + 1] = UpTo(end(i + 1))
        OBVIOUS
      <3>1. CASE i = 0
        BY <2>2, <2>7, <3>1
      <3>2. CASE i # 0
        <4>1. i \in 1..total /\ i + 1 # 1 /\ (i + 1) - 1 = i
          BY <1>5, <3>2
        <4>2. c[i] = UpTo(end(i))
          BY <2>9, <4>1
        <4>3. c[i + 1] = c[i] \o pages[i + 1] /\ UpTo(end(i)) \o pages[i + 1] = UpTo(end(i + 1))
          BY <2>3, <2>7, <4>1
        <4> QED
          BY <4>2, <4>3
      <3> QED
        BY <3>1, <3>2
    <2> HIDE DEF P
    <2>10. total \in P
      BY <1>5, <2>8, <2>9, NaturalSteps
    <2>11. FlattenSeq(pages) = UpTo(n)
      BY <1>5, <1>7, <1>10, <2>1, <2>6, <2>10 DEF P
    <2> QED
      BY <1>2, <2>11 DEF PagesCoverTheList, pages, a, total, rows, size
  <1> QED
    BY <1>9, <1>10

--------------------------------------------------------------------------------
(* From a provider to the bars. *)

\* Factors of 1 change no product.
LEMMA OnesDoNotMultiply ==
    ASSUME NEW S, IsFiniteSet(S), NEW f, \A x \in S : f[x] \in {1, 2},
           NEW B \in SUBSET S, \A x \in S \ B : f[x] = 1
    PROVE  Multiplied(f, S) = Multiplied(f, B) /\ Multiplied(f, B) \in Nat \ {0}
  <1> DEFINE P == {T \in SUBSET S : Multiplied(f, T) \in Nat \ {0}
                                    /\ Multiplied(f, T) = Multiplied(f, T \cap B)}
  <1>1. ASSUME NEW T \in SUBSET S
        PROVE  /\ Multiplied(f, {}) = 1
               /\ \A x \in T : Multiplied(f, T) = f[x] * Multiplied(f, T \ {x})
    <2>1. IsFiniteSet(T) /\ \A x \in T : f[x] \in Int
      BY FS_Subset
    <2> QED
      BY <2>1, MultipliedMoves
  <1>2. {} \in P
    <2>1. Multiplied(f, {}) = 1 /\ {} \cap B = {}
      BY <1>1
    <2> QED
      BY <2>1
  <1>3. ASSUME NEW T \in SUBSET S, T # {}, \A x \in T : T \ {x} \in P
        PROVE  T \in P
    <2>1. PICK x \in T : TRUE
      BY <1>3
    <2> DEFINE m == Multiplied(f, T \ {x})
               k == Multiplied(f, (T \ {x}) \cap B)
    <2>2. m \in Nat \ {0} /\ m = k /\ f[x] \in {1, 2}
      BY <1>3, <2>1
    <2>3. Multiplied(f, T) = f[x] * m
      BY <1>1, <2>1
    <2>4. CASE x \in B
      <3>1. (T \cap B) \ {x} = (T \ {x}) \cap B /\ T \cap B \in SUBSET S /\ x \in T \cap B
        BY <2>4
      <3>2. Multiplied(f, T \cap B) = f[x] * k
        BY <1>1, <3>1
      <3> HIDE DEF m, k
      <3> QED
        BY <2>2, <2>3, <3>2
    <2>5. CASE x \notin B
      <3>1. T \cap B = (T \ {x}) \cap B /\ f[x] = 1
        BY <2>5
      <3>2. Multiplied(f, T \cap B) = k
        BY <3>1
      <3> HIDE DEF m, k
      <3> QED
        BY <2>2, <2>3, <3>1, <3>2
    <2> QED
      BY <2>4, <2>5
  <1> HIDE DEF P
  <1>4. \A T \in SUBSET S : T \in P
    BY <1>2, <1>3, SubsetSteps
  <1>5. S \cap B = B
    OBVIOUS
  <1> QED
    BY <1>4, <1>5 DEF P

LEMMA PipelineIsAsked ==
    ASSUME QuestionInv, Answered("pipeline")
    PROVE  /\ answer[1] = RunPipeline(RawCloses(asked.worth, asked.actions), asked.actions,
                                      asked.stationary, asked.orders)
           /\ DOMAIN asked.worth \subseteq 0..LastBarDay /\ DOMAIN asked.worth # {}
           /\ \A d \in DOMAIN asked.worth : asked.worth[d].close \in Nat
           /\ IsFiniteSet(asked.actions)
           /\ \A a \in asked.actions : a.ratio \in {1, 2} /\ a.day \in Nat
  <1>1. asked \in PreprocessingQuestions /\ asked.topic = "pipeline"
        /\ answer = <<RunPipeline(RawCloses(asked.worth, asked.actions), asked.actions,
                                  asked.stationary, asked.orders)>>
    BY DEF QuestionInv, AskedIs, AnswersAre, Answered
  <1> DEFINE W == UNION {[D -> {[close |-> 20, volume |-> 0], [close |-> 20, volume |-> 4],
                                [close |-> 23, volume |-> 4]}] :
                           D \in {E \in SUBSET (0..LastBarDay) : Cardinality(E) \in 2..4}}
             As == {{}} \union {{a} : a \in Actions}
                   \union {{[day |-> 1, type |-> "split", ratio |-> 2],
                            [day |-> 2, type |-> "bonus", ratio |-> 2]}}
  <1>2. asked \in {[topic |-> "pipeline", worth |-> w, actions |-> A, stationary |-> {},
                    orders |-> {0, 1}] : w \in W, A \in As}
    BY <1>1 DEF PreprocessingQuestions
  <1>3. asked.worth \in W /\ asked.actions \in As
    <2> HIDE DEF W, As
    <2> QED
      BY <1>2
  <1>4. PICK D \in {E \in SUBSET (0..LastBarDay) : Cardinality(E) \in 2..4} :
          asked.worth \in [D -> {[close |-> 20, volume |-> 0], [close |-> 20, volume |-> 4],
                                 [close |-> 23, volume |-> 4]}]
    BY <1>3
  <1>5. D # {}
    BY <1>4, FS_EmptySet
  <1>6. \A a \in Actions : a.ratio \in {1, 2} /\ a.day \in Nat
    BY PreprocessingAssumption DEF Actions
  <1>7. IsFiniteSet(asked.actions)
    <2> DEFINE first == [day |-> 1, type |-> "split", ratio |-> 2]
               second == [day |-> 2, type |-> "bonus", ratio |-> 2]
    <2>1. asked.actions = {} \/ (\E a : asked.actions = {a}) \/ asked.actions = {first, second}
      BY <1>3
    <2> HIDE DEF first, second
    <2>2. IsFiniteSet({}) /\ \A a : IsFiniteSet({a})
      BY FS_EmptySet, FS_Singleton
    <2>3. IsFiniteSet({first} \union {second})
      BY <2>2, FS_Union
    <2>4. {first} \union {second} = {first, second}
      OBVIOUS
    <2> QED
      BY <2>1, <2>2, <2>3, <2>4
  <1>8. \A a \in asked.actions : a.ratio \in {1, 2} /\ a.day \in Nat
    BY <1>3, <1>6
  <1>9. DOMAIN asked.worth = D /\ D \subseteq 0..LastBarDay
        /\ \A d \in D : asked.worth[d].close \in Nat
    BY <1>4
  <1>10. answer[1] = RunPipeline(RawCloses(asked.worth, asked.actions), asked.actions,
                                 asked.stationary, asked.orders)
    BY <1>1
  <1> QED
    BY <1>5, <1>7, <1>8, <1>9, <1>10

LEMMA QuotientOfProduct ==
    \A c \in Nat, m \in Nat \ {0} : (c * m) \div m = c
  <1> SUFFICES ASSUME NEW c \in Nat, NEW m \in Nat \ {0} PROVE (c * m) \div m = c
    OBVIOUS
  <1> DEFINE x == c * m
             q == x \div m
  <1>1. x \in Nat /\ x = m * c
    BY SMT
  <1>2. q \in Int /\ m * q <= x /\ x < m * (q + 1)
    BY <1>1, SMT
  <1> QED
    BY <1>1, <1>2, SMTT(30)

\* The bars reach from the first row to the last, with the worth of the days traded, and
\* a day between carries the price of the one before.
LEMMA BarsAre ==
    ASSUME QuestionInv, Answered("pipeline"),
           NEW D, D = DOMAIN asked.worth, NEW kept, kept = answer[1].bars
    PROVE  /\ D \subseteq Nat /\ Min(D) \in D /\ Max(D) \in D /\ \A x \in D : Min(D) <= x /\ x <= Max(D)
           /\ DOMAIN kept = Min(D)..Max(D)
           /\ \A d \in D : kept[d].close = asked.worth[d].close /\ ~kept[d].filled
           /\ \A d \in DOMAIN kept \ D : d - 1 \in DOMAIN kept /\ kept[d].close = kept[d - 1].close
           /\ answer[1].suspended = DetectSuspensions(kept)
  <1> DEFINE A == asked.actions
             raw == RawCloses(asked.worth, A)
             rows == AdjustOhlcv(raw, A)
  <1>1. /\ answer[1] = RunPipeline(raw, A, asked.stationary, asked.orders)
        /\ D \subseteq 0..LastBarDay /\ D # {} /\ \A d \in D : asked.worth[d].close \in Nat
        /\ IsFiniteSet(A) /\ \A a \in A : a.ratio \in {1, 2} /\ a.day \in Nat
    BY PipelineIsAsked
  <1>2. kept = ForwardFilled(rows) /\ answer[1].suspended = DetectSuspensions(kept)
    BY <1>1 DEF RunPipeline
  <1>3. DOMAIN raw = D /\ DOMAIN rows = D
    BY DEF RawCloses, AdjustOhlcv
  <1>4. ASSUME NEW d \in D PROVE rows[d].close = asked.worth[d].close
    <2> DEFINE S == {a \in A : a.type \in PriceActions /\ a.day > d}
               B == {a \in A : Divides(a, d)}
               f == Ratios(A)
               m == Multiplied(f, S)
    <2>1. B \in SUBSET S /\ \A a \in S \ B : f[a] = 1
      BY <1>1 DEF Divides, Ratios
    <2>2. IsFiniteSet(S) /\ \A a \in S : f[a] \in {1, 2}
      BY <1>1, FS_Subset DEF Ratios
    <2> HIDE DEF S, B, f
    <2>3. m = Multiplied(f, B) /\ m \in Nat \ {0}
      BY <2>1, <2>2, OnesDoNotMultiply
    <2>4. raw[d].close = asked.worth[d].close * m
      BY DEF RawCloses, S, f
    <2>5. rows[d].close = raw[d].close \div Multiplied(f, B)
      BY <1>3 DEF AdjustOhlcv, ComputeAdjustmentFactors, B, f
    <2>6. asked.worth[d].close \in Nat
      BY <1>1
    <2> HIDE DEF m, raw, rows
    <2> QED
      BY <2>3, <2>4, <2>5, <2>6, QuotientOfProduct
  <1> HIDE DEF rows, raw
  <1>5. D \subseteq Nat /\ IsFiniteSet(D)
    <2>1. D \in SUBSET (0..LastBarDay) /\ IsFiniteSet(0..LastBarDay) /\ 0..LastBarDay \subseteq Nat
      BY <1>1, IntervalIsFinite, PreprocessingAssumption
    <2> QED
      BY <2>1, FS_Subset
  <1>6. Max(D) \in D /\ \A x \in D : Max(D) >= x
    BY <1>1, <1>5, GreatestOfFinite
  <1>7. Min(D) \in D /\ \A x \in D : Min(D) <= x
    <2>1. PICK n \in D : \A x \in D : n <= x
      BY <1>1, <1>5, LeastNatural
    <2>2. D \subseteq Int
      BY <1>5
    <2> QED
      BY <2>1, <2>2, MinIs
  <1> DEFINE lo == Min(D)
             hi == Max(D)
  <1>8. lo \in Nat /\ hi \in Nat /\ \A x \in D : x \in Nat /\ lo <= x /\ x <= hi
    BY <1>5, <1>6, <1>7
  <1>9. kept = [d \in lo..hi |->
                  IF d \in D THEN [close |-> rows[d].close, volume |-> rows[d].volume, filled |-> FALSE]
                  ELSE [close |-> rows[Carried(rows, d)].close, volume |-> 0, filled |-> TRUE]]
    BY <1>2, <1>3 DEF ForwardFilled, GenerateTradingCalendar
  <1> HIDE DEF lo, hi
  <1>10. DOMAIN kept = lo..hi /\ \A d \in D : d \in lo..hi
    BY <1>8, <1>9
  <1>11. \A d \in D : kept[d].close = rows[d].close /\ ~kept[d].filled
    BY <1>9, <1>10
  <1>12. ASSUME NEW d \in (lo..hi) \ D
         PROVE  d - 1 \in lo..hi /\ kept[d].close = kept[d - 1].close
    <2>1. d - 1 \in lo..hi
      BY <1>7, <1>8 DEF lo
    <2>2. kept[d].close = rows[Carried(rows, d)].close
      BY <1>9
    <2>3. CASE d - 1 \in D
      <3>1. Carried(rows, d) = d - 1
        <4> DEFINE S == {x \in D : x <= d}
        <4>1. S \subseteq Int /\ d - 1 \in S /\ \A x \in S : d - 1 >= x
          BY <1>8, <2>3
        <4> HIDE DEF S
        <4>2. Max(S) = d - 1
          BY <4>1, MaxIs
        <4> QED
          BY <1>3, <4>2 DEF Carried, S
      <3>2. kept[d].close = rows[d - 1].close
        BY <2>2, <3>1
      <3>3. kept[d - 1].close = rows[d - 1].close
        BY <1>11, <2>3
      <3> QED
        BY <2>1, <3>2, <3>3
    <2>4. CASE d - 1 \notin D
      <3>1. {x \in D : x <= d} = {x \in D : x <= d - 1}
        BY <1>8
      <3>2. Carried(rows, d) = Carried(rows, d - 1)
        BY <1>3, <3>1 DEF Carried
      <3> QED
        BY <1>9, <2>1, <2>2, <2>4, <3>2
    <2> QED
      BY <2>1, <2>3, <2>4
  <1> QED
    BY <1>2, <1>4, <1>5, <1>6, <1>7, <1>8, <1>10, <1>11, <1>12 DEF lo, hi

LEMMA WorthFollows == QuestionInv => AdjustedSeriesIsContinuous
  <1> SUFFICES ASSUME QuestionInv, Answered("pipeline"), NEW d \in DOMAIN asked.worth
               PROVE  answer[1].bars[d].close = asked.worth[d].close
    BY DEF AdjustedSeriesIsContinuous
  <1> QED
    BY BarsAre

LEMMA FillsFollow == QuestionInv => FillsUseThePast
  <1> SUFFICES ASSUME QuestionInv, Answered("pipeline"), NEW d \in DOMAIN answer[1].bars,
                      answer[1].bars[d].filled
               PROVE  /\ d - 1 \in DOMAIN answer[1].bars
                      /\ answer[1].bars[d].close = answer[1].bars[d - 1].close
                      /\ \E x \in DOMAIN asked.worth : x > d
    BY DEF FillsUseThePast
  <1> DEFINE D == DOMAIN asked.worth
             kept == answer[1].bars
  <1>1. /\ D \subseteq Nat /\ Min(D) \in D /\ Max(D) \in D /\ DOMAIN kept = Min(D)..Max(D)
        /\ \A x \in D : ~kept[x].filled
        /\ \A x \in DOMAIN kept \ D : x - 1 \in DOMAIN kept /\ kept[x].close = kept[x - 1].close
    BY BarsAre
  <1>2. d \notin D /\ d \in Min(D)..Max(D)
    BY <1>1
  <1>3. Max(D) > d
    BY <1>1, <1>2
  <1> QED
    BY <1>1, <1>2, <1>3

\* Among consecutive days, those of a long enough group without volume are those of the
\* runs without volume.
LEMMA RunsAre ==
    ASSUME NEW lo \in Nat, NEW hi \in Nat, NEW kept, DOMAIN kept = lo..hi
    PROVE  DetectSuspensions(kept) =
             UNION {a..(a + MinZeroDays - 1) : a \in {x \in DOMAIN kept :
                      /\ x..(x + MinZeroDays - 1) \subseteq DOMAIN kept
                      /\ \A d \in x..(x + MinZeroDays - 1) : kept[d].volume = 0}}
  <1> DEFINE M == MinZeroDays
             u(x) == {y \in DOMAIN kept : y <= x /\ kept[y].volume # 0}
             starts == {x \in DOMAIN kept : /\ x..(x + M - 1) \subseteq DOMAIN kept
                                            /\ \A d \in x..(x + M - 1) : kept[d].volume = 0}
  <1>1. M \in Nat \ {0} /\ DOMAIN kept \subseteq Nat
    BY PreprocessingAssumption
  <1>2. \A a, b \in Int : IsFiniteSet(a..b) /\ Cardinality(a..b) = IF a > b THEN 0 ELSE b - a + 1
    BY FS_Interval
  <1>3. ASSUME NEW d \in DOMAIN kept, kept[d].volume = 0, Cardinality(ZeroGroup(kept, d)) >= M
        PROVE  \E s \in starts : d \in s..(s + M - 1)
    <2> DEFINE G == ZeroGroup(kept, d)
    <2>1. \A x : x \in G <=> x \in DOMAIN kept /\ kept[x].volume = 0 /\ u(x) = u(d)
      BY DEF ZeroGroup
    <2>2. d \in G /\ G \subseteq Nat /\ IsFiniteSet(G)
      <3>1. d \in G /\ G \subseteq DOMAIN kept /\ IsFiniteSet(DOMAIN kept)
        BY <1>2, <1>3, <2>1
      <3> HIDE DEF G
      <3> QED
        BY <1>1, <3>1, FS_Subset
    <2> HIDE DEF G
    <2>3. PICK b \in G : \A x \in G : b >= x
      <3>1. Max(G) \in G /\ \A x \in G : Max(G) >= x
        BY <2>2, GreatestOfFinite
      <3> QED
        BY <3>1
    <2>4. PICK a \in G : \A x \in G : a <= x
      BY <2>2, LeastNatural
    <2>5. G = a..b
      <3>1. ASSUME NEW y \in a..b PROVE y \in G
        <4>1. y \in DOMAIN kept /\ a \in Nat /\ b \in Nat /\ y \in Nat
          BY <1>1, <2>1, <2>2
        <4>2. u(a) \subseteq u(y) /\ u(y) \subseteq u(b)
          BY <1>1, <4>1
        <4>3. u(a) = u(d) /\ u(b) = u(d) /\ kept[a].volume = 0
          BY <2>1
        <4>4. u(y) = u(d)
          BY <4>2, <4>3
        <4>5. kept[y].volume = 0
          <5>1. SUFFICES ASSUME kept[y].volume # 0 PROVE FALSE
            OBVIOUS
          <5>2. y \in u(a)
            BY <4>1, <4>3, <4>4, <5>1
          <5> QED
            BY <4>1, <4>3, <5>1, <5>2
        <4> QED
          BY <2>1, <4>1, <4>4, <4>5
      <3>2. ASSUME NEW x \in G PROVE x \in a..b
        <4>1. x \in Nat /\ a \in Nat /\ b \in Nat /\ a <= x /\ x <= b
          BY <2>2, <2>3, <2>4
        <4> QED
          BY <4>1
      <3> QED
        BY <3>1, <3>2
    <2>6. a \in Nat /\ b \in Nat /\ d \in Nat /\ a <= d /\ d <= b /\ b - a + 1 >= M
      <3>1. a \in Nat /\ b \in Nat /\ d \in Nat /\ a <= d /\ d <= b
        BY <2>2, <2>3, <2>4
      <3>2. Cardinality(a..b) = b - a + 1
        BY <1>2, <3>1
      <3> QED
        BY <1>3, <2>5, <3>1, <3>2 DEF G
    <2> DEFINE s == IF d + M - 1 <= b THEN d ELSE b - M + 1
    <2>7. s \in Nat /\ s \in a..b /\ s..(s + M - 1) \subseteq a..b /\ d \in s..(s + M - 1)
      BY <1>1, <2>6
    <2> HIDE DEF s, M
    <2>8. \A x \in a..b : x \in DOMAIN kept /\ kept[x].volume = 0
      BY <2>1, <2>5
    <2>9. s \in starts
      BY <2>7, <2>8 DEF starts
    <2> QED
      BY <2>7, <2>9
  <1>4. ASSUME NEW s \in starts, NEW d \in s..(s + M - 1)
        PROVE  d \in DOMAIN kept /\ kept[d].volume = 0 /\ Cardinality(ZeroGroup(kept, d)) >= M
    <2> DEFINE R == s..(s + M - 1)
               G == ZeroGroup(kept, d)
    <2>1. s \in Nat /\ R \subseteq DOMAIN kept /\ \A x \in R : kept[x].volume = 0
      BY <1>1
    <2>2. \A x \in R : u(x) = u(s)
      <3>1. SUFFICES ASSUME NEW x \in R PROVE u(x) = u(s)
        OBVIOUS
      <3>2. ASSUME NEW y \in u(x) PROVE y \in u(s)
        BY <1>1, <2>1, <3>2
      <3>3. ASSUME NEW y \in u(s) PROVE y \in u(x)
        BY <1>1, <2>1, <3>3
      <3> QED
        BY <3>2, <3>3
    <2>3. R \subseteq G
      <3>1. SUFFICES ASSUME NEW x \in R PROVE x \in G
        OBVIOUS
      <3>2. u(x) = u(d) /\ x \in DOMAIN kept /\ kept[x].volume = 0
        BY <2>1, <2>2
      <3> QED
        BY <3>2 DEF ZeroGroup
    <2>4. IsFiniteSet(G)
      <3>1. G \subseteq DOMAIN kept /\ IsFiniteSet(DOMAIN kept)
        BY <1>2 DEF ZeroGroup
      <3> HIDE DEF G
      <3> QED
        BY <3>1, FS_Subset
    <2>5. Cardinality(R) = M
      <3> DEFINE e == s + M - 1
      <3>1. s \in Int /\ e \in Int /\ ~(s > e) /\ e - s + 1 = M
        BY <1>1, <2>1
      <3> HIDE DEF M, e
      <3>2. Cardinality(s..e) = M
        BY <1>2, <3>1
      <3> QED
        BY <3>2 DEF e
    <2>6. IsFiniteSet(R) /\ Cardinality(R) <= Cardinality(G) /\ Cardinality(G) \in Nat
      <3> HIDE DEF R, G
      <3> QED
        BY <2>3, <2>4, FS_Subset, FS_CardinalityType
    <2> HIDE DEF R, G
    <2>7. Cardinality(G) >= M
      BY <1>1, <2>5, <2>6
    <2> QED
      BY <2>1, <2>7 DEF R, G
  <1>5. DetectSuspensions(kept) =
          {d \in DOMAIN kept : kept[d].volume = 0 /\ Cardinality(ZeroGroup(kept, d)) >= M}
    BY DEF DetectSuspensions
  <1> HIDE DEF M, starts
  <1>6. DetectSuspensions(kept) = UNION {a..(a + M - 1) : a \in starts}
    BY <1>3, <1>4, <1>5
  <1> QED
    BY <1>6 DEF starts, M

LEMMA SuspensionsFollow == QuestionInv => SuspensionsAreRuns
  <1> SUFFICES ASSUME QuestionInv, Answered("pipeline") PROVE SuspensionsAreRuns
    BY DEF SuspensionsAreRuns
  <1> DEFINE D == DOMAIN asked.worth
             kept == answer[1].bars
  <1>1. /\ Min(D) \in Nat /\ Max(D) \in Nat /\ DOMAIN kept = Min(D)..Max(D)
        /\ answer[1].suspended = DetectSuspensions(kept)
    BY BarsAre
  <1> HIDE DEF D, kept
  <1>2. \A lo, hi \in Nat : DOMAIN kept = lo..hi =>
          DetectSuspensions(kept) =
             UNION {a..(a + MinZeroDays - 1) : a \in {x \in DOMAIN kept :
                      /\ x..(x + MinZeroDays - 1) \subseteq DOMAIN kept
                      /\ \A d \in x..(x + MinZeroDays - 1) : kept[d].volume = 0}}
    BY RunsAre
  <1> QED
    BY <1>1, <1>2 DEF SuspensionsAreRuns, kept

LEMMA SpacingFollows == QuestionInv => RequestsAreSpaced
  <1> SUFFICES ASSUME QuestionInv, Answered("limiter") PROVE RequestsAreSpaced
    BY DEF RequestsAreSpaced
  <1> DEFINE p == asked.arrivals
             out == answer[1]
             M == MinInterval
  <1>1. asked \in PreprocessingQuestions /\ asked.topic = "limiter" /\ answer = <<Acquire(p)>>
    BY DEF QuestionInv, AskedIs, AnswersAre, Answered
  <1> DEFINE ask(a, b, c, e) ==
               [topic |-> "limiter", arrivals |-> <<a, a + b, a + b + c, a + b + c + e>>]
  <1>2. asked \in {ask(a, b, c, e) : a \in 0..1, b \in 0..4, c \in 0..4, e \in 0..4}
    BY <1>1 DEF PreprocessingQuestions
  <1> HIDE DEF ask
  <1>3. PICK a \in 0..1, b \in 0..4, c \in 0..4, e \in 0..4 : asked = ask(a, b, c, e)
    BY <1>2
  <1>4. /\ DOMAIN p = 1..4 /\ \A i \in 1..4 : p[i] \in Nat
        /\ p[1] <= p[2] /\ p[2] <= p[3] /\ p[3] <= p[4] /\ M \in Nat
    <2>1. p = <<a, a + b, a + b + c, a + b + c + e>>
      BY <1>3 DEF ask
    <2> HIDE DEF p
    <2> QED
      BY <2>1, PreprocessingAssumption
  <1> HIDE DEF p, M
  <1> DEFINE next(g) == [i \in DOMAIN p |-> IF i = 1 THEN p[1] ELSE Max({p[i], g[i - 1] + M})]
             second == Max({p[2], p[1] + M})
             third == Max({p[3], second + M})
             fourth == Max({p[4], third + M})
             granted == [i \in 1..4 |-> IF i = 1 THEN p[1] ELSE IF i = 2 THEN second
                                        ELSE IF i = 3 THEN third ELSE fourth]
  <1>5. granted = next(granted)
    <2>1. granted[1] = p[1] /\ granted[2] = second /\ granted[3] = third /\ granted[4] = fourth
      OBVIOUS
    <2>2. DOMAIN next(granted) = 1..4
      BY <1>4
    <2>3. /\ next(granted)[1] = p[1] /\ next(granted)[2] = Max({p[2], granted[1] + M})
          /\ next(granted)[3] = Max({p[3], granted[2] + M})
          /\ next(granted)[4] = Max({p[4], granted[3] + M})
      BY <1>4
    <2>4. \A i \in 1..4 : granted[i] = next(granted)[i]
      <3> SUFFICES ASSUME NEW i \in 1..4 PROVE granted[i] = next(granted)[i]
        OBVIOUS
      <3>1. i = 1 \/ i = 2 \/ i = 3 \/ i = 4
        OBVIOUS
      <3> HIDE DEF granted, next
      <3>2. second = Max({p[2], p[1] + M}) /\ third = Max({p[3], second + M})
            /\ fourth = Max({p[4], third + M})
        OBVIOUS
      <3> HIDE DEF second, third, fourth
      <3> QED
        BY <2>1, <2>3, <3>1, <3>2
    <2>5. DOMAIN granted = 1..4 /\ granted = [i \in DOMAIN granted |-> granted[i]]
          /\ next(granted) = [i \in DOMAIN next(granted) |-> next(granted)[i]]
      OBVIOUS
    <2> HIDE DEF granted, next
    <2> QED
      BY <2>2, <2>4, <2>5
  <1>6. Acquire(p) = CHOOSE g : g = next(g)
    BY DEF Acquire, M
  <1> HIDE DEF granted
  <1>7. out = next(out)
    <2> HIDE DEF next
    <2> QED
      BY <1>1, <1>5, <1>6
  <1>8. \A x, y \in Nat : Max({x, y}) \in Nat /\ Max({x, y}) >= x /\ Max({x, y}) >= y
                         /\ (Max({x, y}) = x \/ Max({x, y}) = y)
    BY MaxOfTwo
  <1> HIDE DEF out
  <1>9. /\ out[1] = p[1] /\ out[2] = Max({p[2], out[1] + M})
        /\ out[3] = Max({p[3], out[2] + M}) /\ out[4] = Max({p[4], out[3] + M})
        /\ DOMAIN out = 1..4
    <2>1. DOMAIN next(out) = 1..4 /\ next(out)[1] = p[1]
          /\ next(out)[2] = Max({p[2], out[1] + M})
          /\ next(out)[3] = Max({p[3], out[2] + M}) /\ next(out)[4] = Max({p[4], out[3] + M})
      BY <1>4
    <2> HIDE DEF next
    <2> QED
      BY <1>7, <2>1
  <1> HIDE DEF next
  <1>10. out[1] \in Nat /\ out[1] = p[1]
    BY <1>4, <1>9
  <1>11. ASSUME NEW x \in Nat, NEW o \in Nat, NEW n, n = Max({x, o + M})
         PROVE  n \in Nat /\ n >= o + M /\ (n = x \/ n = o + M)
    <2> DEFINE y == o + M
    <2>1. y \in Nat
      BY <1>4
    <2> HIDE DEF y
    <2> QED
      BY <1>8, <1>11, <2>1 DEF y
  <1>12. out[2] \in Nat /\ out[2] >= out[1] + M /\ (out[2] = p[2] \/ out[2] = out[1] + M)
    BY <1>4, <1>9, <1>10, <1>11
  <1>13. out[3] \in Nat /\ out[3] >= out[2] + M /\ (out[3] = p[3] \/ out[3] = out[2] + M)
    <2>1. p[3] \in Nat /\ out[2] \in Nat /\ out[3] = Max({p[3], out[2] + M})
      BY <1>4, <1>9, <1>12
    <2> QED
      BY <1>11, <2>1
  <1>14. out[4] \in Nat /\ out[4] >= out[3] + M /\ (out[4] = p[4] \/ out[4] = out[3] + M)
    <2>1. p[4] \in Nat /\ out[3] \in Nat /\ out[4] = Max({p[4], out[3] + M})
      BY <1>4, <1>9, <1>13
    <2> QED
      BY <1>11, <2>1
  <1>15. ASSUME NEW i \in 1..4, NEW j \in 1..4, i < j
         PROVE  /\ out[j] - out[i] >= (j - i) * M
                /\ out[j] <= p[j] + (j - 1) * M
    <2>1. (i = 1 /\ j = 2) \/ (i = 1 /\ j = 3) \/ (i = 1 /\ j = 4) \/ (i = 2 /\ j = 3)
          \/ (i = 2 /\ j = 4) \/ (i = 3 /\ j = 4)
      BY <1>15
    <2>2. p[1] \in Nat /\ p[2] \in Nat /\ p[3] \in Nat /\ p[4] \in Nat
      BY <1>4
    <2>3. /\ out[2] <= p[2] + M /\ out[3] <= p[3] + 2 * M /\ out[4] <= p[4] + 3 * M
          /\ out[2] - out[1] >= M /\ out[3] - out[2] >= M /\ out[4] - out[3] >= M
          /\ out[3] - out[1] >= 2 * M /\ out[4] - out[2] >= 2 * M /\ out[4] - out[1] >= 3 * M
      BY <1>4, <1>10, <1>12, <1>13, <1>14, <2>2
    <2> QED
      BY <1>4, <2>1, <2>3
  <1> QED
    BY <1>4, <1>9, <1>15 DEF RequestsAreSpaced, out, p, M

\* What is fetched is the answer of the first attempt that does not raise.
LEMMA FirstAnswerIsTaken ==
    ASSUME NEW attempts, NEW n \in 1..RetryLimit, attempts[n] # "error"
    PROVE  \E i \in 1..RetryLimit :
             /\ attempts[i] # "error" /\ \A k \in 1..(i - 1) : attempts[k] = "error"
             /\ FetchWithRetry(attempts) = attempts[i]
             /\ i = CHOOSE j \in 1..RetryLimit :
                      attempts[j] # "error" /\ \A k \in 1..(j - 1) : attempts[k] = "error"
  <1> DEFINE good == {i \in 1..RetryLimit : attempts[i] # "error"}
             First(j) == j \in 1..RetryLimit /\ attempts[j] # "error"
                         /\ \A k \in 1..(j - 1) : attempts[k] = "error"
  <1>1. good \subseteq Nat /\ n \in good /\ RetryLimit \in Nat
    BY PreprocessingAssumption
  <1>2. PICK i \in good : \A x \in good : i <= x
    <2> HIDE DEF good
    <2> QED
      BY <1>1, LeastNatural
  <1>3. Min(good) = i
    <2>1. good \subseteq Int
      BY <1>1
    <2> HIDE DEF good
    <2> QED
      BY <1>2, <2>1, MinIs
  <1>4. First(i)
    <2>1. ASSUME NEW k \in 1..(i - 1), attempts[k] # "error" PROVE FALSE
      <3>1. i \in 1..RetryLimit /\ k \in 1..RetryLimit /\ k < i
        BY <1>1, <1>2
      <3>2. k \in good
        BY <2>1, <3>1
      <3> QED
        BY <1>2, <3>1, <3>2
    <2> QED
      BY <1>2, <2>1
  <1>5. \A j : First(j) => j = i
    <2>1. SUFFICES ASSUME NEW j, First(j) PROVE j = i
      OBVIOUS
    <2>2. i \in Nat /\ j \in Nat /\ j \in good /\ i <= j
      BY <1>1, <1>2, <2>1
    <2>3. CASE i < j
      <3>1. i \in 1..(j - 1)
        BY <1>1, <1>2, <2>2, <2>3
      <3> QED
        BY <1>2, <2>1, <3>1
    <2> QED
      BY <2>2, <2>3
  <1>6. i = CHOOSE j \in 1..RetryLimit :
              attempts[j] # "error" /\ \A k \in 1..(j - 1) : attempts[k] = "error"
    BY <1>4, <1>5
  <1>7. FetchWithRetry(attempts) = attempts[i]
    <2>1. FetchWithRetry(attempts) = IF good = {} THEN "error" ELSE attempts[Min(good)]
      BY DEF FetchWithRetry
    <2> HIDE DEF good
    <2> QED
      BY <1>1, <1>3, <2>1
  <1> QED
    BY <1>2, <1>4, <1>6, <1>7

LEMMA FailuresFollow == QuestionInv => OneFailureCostsOneSymbol
  <1> SUFFICES ASSUME QuestionInv, Answered("ingest") PROVE OneFailureCostsOneSymbol
    BY DEF OneFailureCostsOneSymbol
  <1> DEFINE o == asked.outcome
             r == answer[1]
             first(s) == CHOOSE i \in 1..RetryLimit :
                           o[s][i] # "error" /\ \A k \in 1..(i - 1) : o[s][k] = "error"
             got == [s \in DOMAIN o |-> FetchWithRetry(o[s])]
  <1>1. asked \in PreprocessingQuestions /\ asked.topic = "ingest" /\ answer = <<IngestUniverse(o)>>
    BY DEF QuestionInv, AskedIs, AnswersAre, Answered
  <1>2. o \in [{"a", "b"} -> [1..RetryLimit -> {"rows", "empty", "error"}]]
    BY <1>1 DEF PreprocessingQuestions
  <1> HIDE DEF o
  <1>3. /\ r.requested = Cardinality(DOMAIN o)
        /\ r.succeeded = {s \in DOMAIN got : got[s] = "rows"}
        /\ r.failed = {s \in DOMAIN got : got[s] \in {"empty", "error"}}
        /\ r.errors = [s \in {x \in DOMAIN got : got[x] # "rows"} |-> got[s]]
    BY <1>1 DEF IngestUniverse
  <1>4. ASSUME NEW s \in DOMAIN o, NEW n \in 1..RetryLimit, o[s][n] # "error"
        PROVE  got[s] = o[s][first(s)]
    <2> DEFINE attempts == o[s]
    <2>1. attempts[n] # "error"
      BY <1>4
    <2> HIDE DEF attempts
    <2>2. FetchWithRetry(attempts) =
            attempts[CHOOSE j \in 1..RetryLimit :
                       attempts[j] # "error" /\ \A k \in 1..(j - 1) : attempts[k] = "error"]
      BY <2>1, FirstAnswerIsTaken
    <2> QED
      BY <2>2 DEF attempts
  <1>5. ASSUME NEW s \in DOMAIN o PROVE got[s] \in {"rows", "empty", "error"}
    <2>1. CASE \E n \in 1..RetryLimit : o[s][n] # "error"
      <3>1. PICK n \in 1..RetryLimit : o[s][n] # "error"
        BY <2>1
      <3> DEFINE attempts == o[s]
      <3>2. attempts \in [1..RetryLimit -> {"rows", "empty", "error"}] /\ attempts[n] # "error"
        BY <1>2, <3>1
      <3> HIDE DEF attempts
      <3>3. PICK i \in 1..RetryLimit : FetchWithRetry(attempts) = attempts[i]
        BY <3>2, FirstAnswerIsTaken
      <3> QED
        BY <3>2, <3>3 DEF attempts
    <2>2. CASE \A n \in 1..RetryLimit : o[s][n] = "error"
      <3>1. {i \in 1..RetryLimit : o[s][i] # "error"} = {}
        BY <2>2
      <3> QED
        BY <3>1 DEF FetchWithRetry
    <2> QED
      BY <2>1, <2>2
  <1> HIDE DEF r
  <1>6. /\ r.succeeded \intersect r.failed = {} /\ r.succeeded \union r.failed = DOMAIN o
        /\ DOMAIN r.errors = r.failed
    <2>1. DOMAIN got = DOMAIN o
      OBVIOUS
    <2> HIDE DEF got
    <2> QED
      BY <1>3, <1>5, <2>1
  <1>7. ASSUME NEW s \in DOMAIN o, \E i \in 1..RetryLimit : o[s][i] # "error"
        PROVE  s \in r.succeeded <=> o[s][first(s)] = "rows"
    <2>1. got[s] = o[s][first(s)] /\ DOMAIN got = DOMAIN o
      BY <1>4, <1>7
    <2> HIDE DEF got, first
    <2> QED
      BY <1>3, <2>1
  <1>8. Cardinality(r.succeeded \union r.failed) = r.requested
    BY <1>3, <1>6
  <1> QED
    BY <1>6, <1>7, <1>8 DEF OneFailureCostsOneSymbol, o, r

--------------------------------------------------------------------------------
(* What a row of features reads. *)

\* A column that ends needs no more rows than it reaches.
LEMMA ColumnsAre ==
    ASSUME NEW n, NEW c \in Columns(n), c.kind # "total"
    PROVE  c.reach \in Nat /\ c.least \in Nat /\ 1 <= c.least /\ c.least <= c.reach
  <1> DEFINE Good(x) == x.kind # "total" =>
                          x.reach \in Nat /\ x.least \in Nat /\ 1 <= x.least /\ x.least <= x.reach
  <1>1. \A s, w : Good(EndlessColumn(s, w))
    BY DEF EndlessColumn
  <1>2. \A s : \A r, w \in Nat \ {0} : w <= r => Good(RollingColumn(s, r, w))
    BY DEF RollingColumn
  <1> HIDE DEF Good
  <1>3. \A s : \A w \in Nat \ {0} : Good(Rolling(s, w))
    BY <1>2 DEF Rolling
  <1>4. \A s : \A k \in Nat \ {0} : Good(Shifted(s, k))
    <2> SUFFICES ASSUME NEW s, NEW k \in Nat \ {0} PROVE Good(Shifted(s, k))
      OBVIOUS
    <2>1. k + 1 \in Nat \ {0} /\ k + 1 <= k + 1
      OBVIOUS
    <2> QED
      BY <1>2, <2>1 DEF Shifted
  <1>5. ASSUME NEW x \in TechnicalColumns(n) PROVE Good(x)
    <2>1. CASE x \in {EndlessColumn("bars", w) : w \in {1, 3, 7, 9, 10, 12, 13, 14, 20, 21, 26, 34}}
      BY <1>1, <2>1
    <2>2. CASE x \in {Rolling("bars", w) : w \in {14, 16, 20, 50, 200}}
      BY <1>3, <2>2
    <2>3. CASE x \in {Shifted("bars", k) : k \in {10, 20, 60}}
      BY <1>4, <2>3
    <2>4. CASE x \in (IF n > 28 THEN {EndlessColumn("bars", 1)} ELSE {})
      BY <1>1, <2>4
    <2> QED
      BY <1>5, <2>1, <2>2, <2>3, <2>4 DEF TechnicalColumns
  <1>6. ASSUME NEW x \in ReturnColumns PROVE Good(x)
    <2>1. CASE x \in {Shifted("bars", k) : k \in {1, 5, 10, 20, 60}}
      BY <1>4, <2>1
    <2>2. CASE x \in {Rolling("bars", w + 1) : w \in {5, 20}}
      BY <1>3, <2>2
    <2>3. CASE x = RollingColumn("bars", 252, 20)
      BY <1>2, <2>3
    <2> QED
      BY <1>6, <2>1, <2>2, <2>3 DEF ReturnColumns
  <1>7. ASSUME NEW x \in MicrostructureColumns PROVE Good(x)
    BY <1>2, <1>3, <1>4 DEF MicrostructureColumns
  <1>8. ASSUME NEW x \in MacroColumns PROVE Good(x)
    BY <1>2, <1>3, <1>4 DEF MacroColumns
  <1>9. ASSUME NEW x \in DerivativesColumns \union SentimentColumns PROVE Good(x)
    BY <1>2, <1>3, <1>4 DEF DerivativesColumns, SentimentColumns
  <1>10. Good(c)
    BY <1>5, <1>6, <1>7, <1>8, <1>9 DEF Columns
  <1> QED
    BY <1>10 DEF Good

\* A gap is filled from the last row with a value, if there is one at or before it.
FilledAs(q, frame, c, lo, h, r, read) ==
    /\ read # NoRow
    /\ (\A x \in lo..h : Raw(q, frame, c, x) = <<>>) => read = <<>>
    /\ \A m \in lo..r :
         Raw(q, frame, c, m) # <<>> /\ (\A x \in (m + 1)..r : Raw(q, frame, c, x) = <<>>)
           => read = Raw(q, frame, c, m)
    /\ read[2] > r => \A x \in lo..r : Raw(q, frame, c, x) = <<>>

LEMMA FilledIs ==
    ASSUME NEW q, NEW frame, NEW c, NEW h \in Nat, h = q.history, frame.bars \in 0..h,
           NEW lo, lo = h - frame.bars + 1, NEW r \in Nat, r <= h,
           NEW read, read = FilledFrom(q, frame, c, r)
    PROVE  FilledAs(q, frame, c, lo, h, r, read)
  <1> DEFINE raw(x) == Raw(q, frame, c, x)
             defined == {x \in lo..h : raw(x) # <<>>}
             before == {x \in defined : x <= r}
  <1>1. \A x : raw(x) = <<>> \/ (\E a : raw(x) = <<a, x>>)
    BY DEF Raw
  <1>2. read = IF before # {} THEN raw(Max(before))
               ELSE IF defined # {} THEN raw(Min(defined)) ELSE <<>>
    BY DEF FilledFrom
  <1>3. lo \in Nat /\ h \in Nat /\ lo..h \subseteq Nat /\ IsFiniteSet(lo..h)
    BY IntervalIsFinite
  <1> HIDE DEF raw
  <1>4. \A a : <<a>> # <<>> /\ \A x, y : <<x, y>> # <<a>>
    OBVIOUS
  <1>5. read # NoRow
    BY <1>1, <1>2, <1>4 DEF NoRow
  <1>6. (\A x \in lo..h : raw(x) = <<>>) => read = <<>>
    BY <1>2
  <1>7. ASSUME NEW m \in lo..r, raw(m) # <<>>, \A x \in (m + 1)..r : raw(x) = <<>>
        PROVE  read = raw(m)
    <2>1. m \in before /\ before \subseteq Int
      BY <1>3, <1>7
    <2>2. ASSUME NEW x \in before PROVE m >= x
      BY <1>3, <1>7
    <2> HIDE DEF before
    <2>3. Max(before) = m
      BY <2>1, <2>2, MaxIs
    <2> QED
      BY <1>2, <2>1, <2>3
  <1>8. ASSUME NEW x \in lo..r, raw(x) # <<>> PROVE ~(read[2] > r)
    <2> DEFINE m == Max(before)
    <2>1. x \in before
      BY <1>3, <1>8
    <2>2. m \in before
      <3>1. before \subseteq Nat /\ before \subseteq lo..h
        BY <1>3
      <3> HIDE DEF before
      <3>2. IsFiniteSet(before)
        BY <1>3, <3>1, FS_Subset
      <3> QED
        BY <2>1, <3>1, <3>2, GreatestOfFinite
    <2>3. read = raw(m) /\ raw(m) # <<>> /\ m \in Nat /\ m <= r
      BY <1>2, <1>3, <2>1, <2>2
    <2> HIDE DEF m
    <2> QED
      BY <1>1, <2>3
  <1> QED
    BY <1>5, <1>6, <1>7, <1>8 DEF raw, FilledAs

\* The row asked about in a frame.
RowOf(frame, c) ==
    IF asked.history - asked.back <= asked.history - frame.bars THEN NoRow
    ELSE FilledFrom(asked, frame, c, asked.history - asked.back)

LEMMA FramesAre ==
    ASSUME QuestionInv, Answered("features")
    PROVE  /\ asked.history \in Nat \ {0} /\ asked.back \in Nat /\ asked.gap \in Int
           /\ \A c \in DOMAIN answer[1] :
                /\ c \in Columns(asked.history)
                /\ answer[1][c].trained = RowOf(TrainingFrame(asked), c)
                /\ answer[1][c].served = RowOf(ServingFrame(asked), c)
           /\ TrainingFrame(asked).bars = IF asked.history < 252 THEN 0 ELSE asked.history
           /\ \E s \in Nat : /\ s = IF asked.history >= ServedBars THEN ServedBars ELSE asked.history
                             /\ ServingFrame(asked).bars = IF s < 60 THEN 0 ELSE s
  <1>1. asked \in FrameQuestions /\ answer = <<ComputeAllFeatures(asked)>>
    BY DEF QuestionInv, AskedIs, AnswersAre, Answered
  <1>2. PICK h \in StoredBars :
          asked \in [topic: {"features"}, history: {h}, back: {0, 1, 59}, gap: {0, h - 10, h - 1, h}]
    BY <1>1 DEF FrameQuestions
  <1>3. h \in Nat \ {0} /\ ServedBars \in Nat \ {0}
    BY TimingAssumption
  <1>4. asked.history = h /\ asked.back \in Nat /\ asked.gap \in Int
    BY <1>2, <1>3
  <1>5. Min({h, ServedBars}) = IF h <= ServedBars THEN h ELSE ServedBars
    BY <1>3, MinOfTwo
  <1> DEFINE s == Min({h, ServedBars})
  <1>6. s \in Nat /\ s = IF h >= ServedBars THEN ServedBars ELSE h
    BY <1>3, <1>5
  <1>7. ServingFrame(asked).bars = IF s < 60 THEN 0 ELSE s
    BY <1>4 DEF ServingFrame
  <1>8. TrainingFrame(asked).bars = IF h < 252 THEN 0 ELSE h
    BY <1>4 DEF TrainingFrame
  <1> HIDE DEF s
  <1> DEFINE rows == [c \in Columns(asked.history) |->
                       [trained |-> RowOf(TrainingFrame(asked), c), served |-> RowOf(ServingFrame(asked), c)]]
  <1>9. answer[1] = rows
    BY <1>1 DEF ComputeAllFeatures, RowOf
  <1>10. DOMAIN rows = Columns(asked.history)
         /\ \A c \in DOMAIN rows : /\ rows[c].trained = RowOf(TrainingFrame(asked), c)
                                   /\ rows[c].served = RowOf(ServingFrame(asked), c)
    OBVIOUS
  <1> HIDE DEF rows
  <1>11. \A c \in DOMAIN answer[1] :
           /\ c \in Columns(asked.history)
           /\ answer[1][c].trained = RowOf(TrainingFrame(asked), c)
           /\ answer[1][c].served = RowOf(ServingFrame(asked), c)
    BY <1>9, <1>10
  <1>12. \E v \in Nat : /\ v = IF asked.history >= ServedBars THEN ServedBars ELSE asked.history
                       /\ ServingFrame(asked).bars = IF v < 60 THEN 0 ELSE v
    BY <1>4, <1>6, <1>7
  <1> QED
    BY <1>3, <1>4, <1>8, <1>11, <1>12

LEMMA GapsFollow == QuestionInv => GapsAreFilledFromBefore
  <1> SUFFICES ASSUME QuestionInv, Answered("features"), NEW c \in DOMAIN answer[1],
                      NEW read \in {answer[1][c].trained, answer[1][c].served},
                      read \notin {NoRow, <<>>}, read[2] > asked.history - asked.back
               PROVE  \E frame \in {TrainingFrame(asked), ServingFrame(asked)} :
                        \A r \in (asked.history - frame.bars + 1)..(asked.history - asked.back) :
                          Raw(asked, frame, c, r) = <<>>
    BY DEF GapsAreFilledFromBefore
  <1> DEFINE h == asked.history
             r == h - asked.back
             F == {TrainingFrame(asked), ServingFrame(asked)}
  <1>1. PICK s \in Nat : /\ s = IF h >= ServedBars THEN ServedBars ELSE h
                         /\ ServingFrame(asked).bars = IF s < 60 THEN 0 ELSE s
    BY FramesAre
  <1>2. /\ h \in Nat \ {0} /\ asked.back \in Nat
        /\ TrainingFrame(asked).bars = IF h < 252 THEN 0 ELSE h
    BY FramesAre
  <1>3. \A frame \in F : frame.bars \in 0..h
    BY <1>1, <1>2, TimingAssumption
  <1>4. PICK frame \in F : read = RowOf(frame, c)
    BY FramesAre
  <1> DEFINE lo == h - frame.bars + 1
  <1>5. frame.bars \in 0..h /\ r \in Nat /\ r <= h /\ read = FilledFrom(asked, frame, c, r)
    BY <1>2, <1>3, <1>4 DEF NoRow, RowOf
  <1>6. \A x \in lo..r : Raw(asked, frame, c, x) = <<>>
    <2>1. h = asked.history /\ lo = h - frame.bars + 1 /\ h \in Nat /\ read[2] > r
      BY <1>2
    <2> HIDE DEF r, h, lo
    <2>2. FilledAs(asked, frame, c, lo, h, r, read)
      BY <1>5, <2>1, FilledIs
    <2> QED
      BY <2>1, <2>2 DEF FilledAs
  <1> QED
    BY <1>6
LEMMA NewestFollows == QuestionInv => NewestRowIsTrainedAndServedAlike
  <1> SUFFICES ASSUME QuestionInv, Answered("features"), asked.back = 0, NEW c \in DOMAIN answer[1]
               PROVE  /\ answer[1][c].trained # NoRow => answer[1][c].served # NoRow
                      /\ answer[1][c].trained \notin {NoRow, answer[1][c].served} =>
                           c.kind = "total" \/ c.reach >= ServedBars \/ c.source = "flows"
    BY DEF NewestRowIsTrainedAndServedAlike
  <1> DEFINE h == asked.history
             T == TrainingFrame(asked)
             S == ServingFrame(asked)
             filled(frame) == FilledFrom(asked, frame, c, h - asked.back)
  <1>1. /\ h \in Nat \ {0} /\ asked.gap \in Int /\ T.bars = IF h < 252 THEN 0 ELSE h
    BY FramesAre
  <1>2. PICK s \in Nat : /\ s = IF h >= ServedBars THEN ServedBars ELSE h
                         /\ S.bars = IF s < 60 THEN 0 ELSE s
    BY FramesAre
  <1>3. c \in Columns(h) /\ answer[1][c].trained = RowOf(T, c) /\ answer[1][c].served = RowOf(S, c)
    BY FramesAre
  <1>4. T.sources = {"bars", "macro", "flows", "alt"} /\ S.sources = {"bars", "macro", "alt"}
    BY DEF TrainingFrame, ServingFrame
  <1>5. CASE T.bars = 0
    <2>1. RowOf(T, c) = NoRow
      BY <1>1, <1>5 DEF RowOf
    <2> QED
      BY <1>3, <2>1
  <1>6. CASE T.bars # 0
    <2> DEFINE raw(frame, x) == Raw(asked, frame, c, x)
    <2>1. /\ h >= 252 /\ T.bars = h /\ S.bars = s /\ s >= 60 /\ s <= h /\ h - asked.back = h
          /\ (s = h \/ s = ServedBars) /\ ServedBars \in Nat
      BY <1>1, <1>2, <1>6, TimingAssumption
    <2>2. RowOf(T, c) = filled(T) /\ RowOf(S, c) = filled(S)
      BY <1>1, <2>1 DEF RowOf
    <2> DEFINE t == filled(T)
               u == filled(S)
    <2> HIDE DEF T, S
    <2>3. /\ t # NoRow
          /\ (\A x \in 1..h : raw(T, x) = <<>>) => t = <<>>
          /\ \A m \in 1..h :
               raw(T, m) # <<>> /\ (\A x \in (m + 1)..h : raw(T, x) = <<>>) => t = raw(T, m)
      <3> DEFINE lo == h - T.bars + 1
      <3>1. /\ t = FilledFrom(asked, T, c, h) /\ h \in Nat /\ T.bars \in 0..h
            /\ lo = h - T.bars + 1 /\ h = asked.history /\ h <= h
        BY <1>1, <2>1
      <3>2. lo = 1
        BY <1>1, <2>1
      <3> HIDE DEF t, h, lo
      <3>3. FilledAs(asked, T, c, lo, h, h, t)
        BY <3>1, FilledIs
      <3> QED
        BY <3>2, <3>3 DEF FilledAs
    <2>4. /\ u # NoRow
          /\ (\A x \in (h - s + 1)..h : raw(S, x) = <<>>) => u = <<>>
          /\ \A m \in (h - s + 1)..h :
               raw(S, m) # <<>> /\ (\A x \in (m + 1)..h : raw(S, x) = <<>>) => u = raw(S, m)
      <3> DEFINE lo == h - s + 1
      <3>1. /\ u = FilledFrom(asked, S, c, h) /\ h \in Nat /\ S.bars \in 0..h
            /\ lo = h - S.bars + 1 /\ h = asked.history /\ h <= h
        BY <1>1, <2>1
      <3> HIDE DEF u, h, lo
      <3>2. FilledAs(asked, S, c, lo, h, h, u)
        BY <3>1, FilledIs
      <3> QED
        BY <3>2 DEF lo, FilledAs
    <2> HIDE DEF t, u
    <2>5. ASSUME t # u, c.kind # "total", ~(c.reach >= ServedBars), c.source # "flows" PROVE FALSE
      <3>1. c.reach \in Nat /\ c.least \in Nat /\ 1 <= c.least /\ c.least <= c.reach
        BY <1>3, <2>5, ColumnsAre
      <3>2. c.source \in T.sources <=> c.source \in S.sources
        BY <1>4, <2>5
      <3> DEFINE first(frame) == h - frame.bars + 1
      <3>3. first(T) = 1 /\ first(S) = h - s + 1 /\ h \in Nat /\ s \in Nat
        BY <1>1, <1>2, <2>1
      <3>4. ASSUME NEW frame, NEW x \in Nat
            PROVE  raw(frame, x) =
                     IF c.source \notin frame.sources \/ x - first(frame) + 1 < c.least \/ x = asked.gap
                     THEN <<>> ELSE <<Max({first(frame), x - c.reach + 1}), x>>
        BY <2>5 DEF Raw
      <3> HIDE DEF raw, first
      <3>5. CASE c.source \notin T.sources
        <4>1. \A x \in Nat : raw(T, x) = <<>> /\ raw(S, x) = <<>>
          BY <3>2, <3>4, <3>5
        <4>2. 1..h \subseteq Nat /\ (h - s + 1)..h \subseteq Nat
          BY <2>1, <3>3
        <4>4. t = <<>>
          BY <2>3, <4>1, <4>2
        <4>5. u = <<>>
          BY <2>4, <4>1, <4>2
        <4> QED
          BY <2>5, <4>4, <4>5
      <3>6. CASE c.source \in T.sources
        <4>1. ASSUME NEW x \in {h - 1, h}, s # h, x # asked.gap
              PROVE  raw(T, x) = <<x - c.reach + 1, x>> /\ raw(S, x) = <<x - c.reach + 1, x>>
          <5>1. /\ x \in Nat /\ c.reach < s /\ ~(x - 1 + 1 < c.least) /\ 1 <= x - c.reach + 1
                /\ ~(x - (h - s + 1) + 1 < c.least) /\ h - s + 1 <= x - c.reach + 1
            BY <2>1, <2>5, <3>1, <3>3, <4>1
          <5> DEFINE from == x - c.reach + 1
                     lo == h - s + 1
          <5>2. Max({1, from}) = from /\ Max({lo, from}) = from
            <6>1. from \in Int /\ lo \in Int /\ 1 <= from /\ lo <= from
              BY <3>1, <3>3, <5>1
            <6> HIDE DEF from, lo
            <6>2. {1, from} \subseteq Int /\ {lo, from} \subseteq Int
              BY <6>1
            <6>3. \A y \in {1, from} : from >= y
              BY <6>1
            <6>4. \A y \in {lo, from} : from >= y
              BY <6>1
            <6>5. Max({1, from}) = from
              BY <6>2, <6>3, MaxIs
            <6>6. Max({lo, from}) = from
              BY <6>2, <6>4, MaxIs
            <6> QED
              BY <6>5, <6>6
          <5>3. raw(T, x) = <<Max({1, from}), x>>
            <6>1. ~(c.source \notin T.sources \/ x - first(T) + 1 < c.least \/ x = asked.gap)
              BY <3>3, <3>6, <4>1, <5>1
            <6> QED
              BY <3>3, <3>4, <5>1, <6>1
          <5>4. raw(S, x) = <<Max({lo, from}), x>>
            <6>1. ~(c.source \notin S.sources \/ x - first(S) + 1 < c.least \/ x = asked.gap)
              BY <3>2, <3>3, <3>6, <4>1, <5>1
            <6> QED
              BY <3>3, <3>4, <5>1, <6>1
          <5> QED
            BY <5>2, <5>3, <5>4
        <4>2. CASE s = h
          <5>1. T.bars = S.bars
            BY <2>1, <4>2
          <5>2. \A x : Raw(asked, T, c, x) = Raw(asked, S, c, x)
            BY <3>2, <5>1 DEF Raw
          <5>3. FilledFrom(asked, T, c, h) = FilledFrom(asked, S, c, h)
            BY <5>1, <5>2 DEF FilledFrom
          <5> QED
            BY <2>1, <2>5, <5>3 DEF t, u
        <4>3. CASE s # h /\ asked.gap # h
          <5>1. raw(T, h) = <<h - c.reach + 1, h>> /\ raw(S, h) = <<h - c.reach + 1, h>>
            BY <4>1, <4>3
          <5>2. raw(T, h) # <<>> /\ raw(T, h) = raw(S, h)
            BY <5>1
          <5>3. h \in 1..h /\ h \in (h - s + 1)..h /\ (h + 1)..h = {}
            BY <2>1, <3>3
          <5>4. t = raw(T, h)
            BY <2>3, <5>2, <5>3
          <5>5. u = raw(S, h)
            BY <2>4, <5>2, <5>3
          <5> QED
            BY <2>5, <5>2, <5>4, <5>5
        <4>4. CASE s # h /\ asked.gap = h
          <5> DEFINE m == h - 1
          <5>1. m # asked.gap /\ m \in {h - 1, h}
            BY <3>3, <4>4
          <5>2. raw(T, m) = <<m - c.reach + 1, m>> /\ raw(S, m) = <<m - c.reach + 1, m>>
            BY <4>1, <4>4, <5>1
          <5>3. raw(T, m) = raw(S, m) /\ raw(T, m) # <<>>
            <6> DEFINE from == m - c.reach + 1
            <6>1. raw(T, m) = <<from, m>> /\ raw(S, m) = <<from, m>>
              BY <5>2
            <6> HIDE DEF from, m
            <6> QED
              BY <6>1
          <5>4. raw(T, h) = <<>> /\ raw(S, h) = <<>>
            BY <3>3, <3>4, <4>4
          <5>5. m \in 1..h /\ m \in (h - s + 1)..h /\ \A x \in (m + 1)..h : x = h
            <6>1. m \in Int /\ 1 <= m /\ h - s + 1 <= m /\ m <= h /\ m + 1 = h /\ h - s + 1 \in Int
              BY <2>1, <3>3
            <6> HIDE DEF m
            <6> QED
              BY <3>3, <6>1
          <5> HIDE DEF m
          <5>6. t = raw(T, m)
            BY <2>3, <5>3, <5>4, <5>5
          <5>7. u = raw(S, m)
            BY <2>4, <5>3, <5>4, <5>5
          <5> QED
            BY <2>5, <5>3, <5>6, <5>7
        <4> QED
          BY <4>2, <4>3, <4>4
      <3> QED
        BY <3>5, <3>6
    <2> QED
      BY <1>3, <2>2, <2>3, <2>4, <2>5 DEF t, u
  <1> QED
    BY <1>5, <1>6

--------------------------------------------------------------------------------
(* The epochs of a training. *)

\* A loop over 1..n has its states.
LEMMA LoopExists ==
    ASSUME NEW n \in Nat, NEW V, NEW base \in V, NEW step \in [(1..n) \X V -> V]
    PROVE  \E run \in [0..n -> V] :
             run[0] = base /\ \A k \in 1..n : run[k] = step[<<k, run[k - 1]>>]
  <1> DEFINE Runs(m, run) == run[0] = base /\ \A k \in 1..m : run[k] = step[<<k, run[k - 1]>>]
             P == {m \in Nat : m <= n => \E run \in [0..m -> V] : Runs(m, run)}
  <1>1. 0 \in P
    <2> DEFINE run == [k \in 0..0 |-> base]
    <2>1. run \in [0..0 -> V] /\ run[0] = base /\ 1..0 = {}
      OBVIOUS
    <2> HIDE DEF run
    <2>2. Runs(0, run)
      BY <2>1
    <2> QED
      BY <2>1, <2>2
  <1>2. ASSUME NEW m \in Nat, m \in P PROVE m + 1 \in P
    <2>1. SUFFICES ASSUME m + 1 <= n PROVE \E run \in [0..(m + 1) -> V] : Runs(m + 1, run)
      BY DEF P
    <2>2. PICK run \in [0..m -> V] : Runs(m, run)
      BY <1>2, <2>1
    <2> DEFINE new == step[<<m + 1, run[m]>>]
               longer == [k \in 0..(m + 1) |-> IF k = m + 1 THEN new ELSE run[k]]
    <2>3. new \in V
      <3>1. m + 1 \in 1..n /\ run[m] \in V
        BY <2>1, <2>2
      <3> QED
        BY <3>1
    <2> HIDE DEF new
    <2>4. \A k \in 0..m : longer[k] = run[k]
      OBVIOUS
    <2>5. longer[m + 1] = new /\ longer \in [0..(m + 1) -> V]
      <3>1. \A k \in 0..(m + 1) : k = m + 1 \/ k \in 0..m
        OBVIOUS
      <3> QED
        BY <2>2, <2>3, <3>1
    <2> HIDE DEF longer
    <2>6. \A k \in 1..(m + 1) : longer[k] = step[<<k, longer[k - 1]>>]
      <3> SUFFICES ASSUME NEW k \in 1..(m + 1) PROVE longer[k] = step[<<k, longer[k - 1]>>]
        OBVIOUS
      <3>1. CASE k = m + 1
        <4>1. k - 1 = m /\ m \in 0..m
          BY <3>1
        <4> QED
          BY <2>4, <2>5, <3>1, <4>1 DEF new
      <3>2. CASE k # m + 1
        <4>1. k \in 1..m /\ k \in 0..m /\ k - 1 \in 0..m
          BY <3>2
        <4> QED
          BY <2>2, <2>4, <4>1
      <3> QED
        BY <3>1, <3>2
    <2>7. longer[0] = base
      BY <2>2, <2>4
    <2> QED
      BY <2>5, <2>6, <2>7
  <1> HIDE DEF P
  <1>3. \A m \in Nat : m \in P
    BY <1>1, <1>2, NaturalSteps
  <1> QED
    BY <1>3 DEF P

StopperStates == [best : 0..Infinite, count : Nat, stop : BOOLEAN, kept : Nat, ran : Nat]
StopperStart == [best |-> Infinite, count |-> 0, stop |-> FALSE, kept |-> 0, ran |-> 0]

\* What is known of a training after e epochs: the best loss recorded is that of an epoch
\* before those counted, and at most one more than any loss since the first.
StopperInv(s, e, loss) ==
    /\ s \in StopperStates /\ s.ran <= e /\ (~s.stop => s.ran = e)
    /\ s.ran = 0 => s.best = Infinite
    /\ s.ran > 0 => /\ s.kept \in 1..s.ran /\ loss[s.kept] <= s.best
                    /\ \A d \in 1..s.ran : s.best <= loss[d] + 1
                    /\ \E d \in 1..s.ran : d <= s.ran - s.count /\ loss[d] = s.best
    /\ s.stop => s.ran > 0 /\ s.count >= Patience

LEMMA EpochStep ==
    ASSUME NEW n \in Nat, NEW loss \in [1..n -> 0..(Infinite - 2)], NEW e \in 1..n,
           NEW s, StopperInv(s, e - 1, loss)
    PROVE  StopperInv(Epoch(s, e, loss[e]), e, loss)
  <1> DEFINE x == loss[e]
             u == Epoch(s, e, x)
  <1>0. SUFFICES StopperInv(u, e, loss)
    OBVIOUS
  <1>1. /\ n \in Nat /\ e \in Nat /\ e > 0 /\ Patience \in Nat \ {0}
        /\ \A d \in 1..e : d \in 1..n /\ loss[d] \in Nat
        /\ x \in Nat /\ x <= 998
    <2>1. Infinite - 2 = 998
      BY DEF Infinite
    <2>2. loss \in [1..n -> 0..998]
      BY <2>1
    <2>3. \A d \in 1..n : loss[d] \in Nat /\ loss[d] <= 998
      <3> DEFINE D == 0..998
      <3>1. \A y \in D : y \in Nat /\ y <= 998
        OBVIOUS
      <3>2. loss \in [1..n -> D]
        BY <2>2, Zenon
      <3> HIDE DEF D
      <3> QED
        BY <3>1, <3>2
    <2>4. e \in 1..n /\ \A d \in 1..e : d \in 1..n
      OBVIOUS
    <2>5. Patience \in Nat \ {0} /\ e \in Nat /\ e > 0
      BY PooledAssumption
    <2> QED
      BY <2>3, <2>4, <2>5
  <1>2. /\ s.best \in Nat /\ s.best <= 1000 /\ s.count \in Nat /\ s.stop \in BOOLEAN
        /\ s.kept \in Nat /\ s.ran \in Nat /\ s.ran <= e - 1
    <2>1. s \in StopperStates /\ s.ran <= e - 1
      BY DEF StopperInv
    <2> DEFINE B == 0..1000
    <2>2. s \in [best : B, count : Nat, stop : BOOLEAN, kept : Nat, ran : Nat]
      BY <2>1 DEF StopperStates, Infinite
    <2>4. \A b \in B : b \in Nat /\ b <= 1000
      OBVIOUS
    <2> HIDE DEF B
    <2>3. s.best \in B /\ s.count \in Nat /\ s.stop \in BOOLEAN
          /\ s.kept \in Nat /\ s.ran \in Nat
      BY <2>2
    <2>5. s.best \in Nat /\ s.best <= 1000
      BY <2>3, <2>4
    <2> QED
      BY <2>1, <2>3, <2>5
  <1>7. s = [best |-> s.best, count |-> s.count, stop |-> s.stop, kept |-> s.kept, ran |-> s.ran]
    BY DEF StopperInv, StopperStates
  <1>3. u = Epoch(s, e, x) /\ x = loss[e]
    OBVIOUS
  <1> HIDE DEF u, x
  <1>4. ASSUME NEW b \in 0..1000, NEW c \in Nat, NEW w \in BOOLEAN, NEW k \in Nat, NEW r \in Nat
        PROVE  [best |-> b, count |-> c, stop |-> w, kept |-> k, ran |-> r] \in StopperStates
    BY DEF StopperStates, Infinite
  <1>5. CASE s.stop
    <2>1. u = s /\ s.ran <= e
      BY <1>1, <1>2, <1>3, <1>5 DEF Epoch
    <2> QED
      BY <1>5, <2>1 DEF StopperInv
  <1>6. CASE ~s.stop
    <2>1. s.ran = e - 1 /\ s.stop = FALSE
      BY <1>2, <1>6 DEF StopperInv
    <2>2. CASE x < s.best - 1
      <3>1. StopperStep(s, x) =
              [best |-> x, count |-> 0, stop |-> FALSE, kept |-> s.kept, ran |-> s.ran]
        BY <1>2, <1>7, <2>1, <2>2 DEF StopperStep
      <3> DEFINE t == [best |-> x, count |-> 0, stop |-> FALSE, kept |-> s.kept, ran |-> s.ran]
      <3>2. u = [KeepState(t, e, x) EXCEPT !.ran = e]
        BY <1>3, <1>6, <3>1 DEF Epoch
      <3>3. KeepState(t, e, x) = [best |-> x, count |-> 0, stop |-> FALSE, kept |-> e, ran |-> s.ran]
        <4>1. x <= t.best
          BY <1>1
        <4> QED
          BY <4>1 DEF KeepState
      <3>4. u = [best |-> x, count |-> 0, stop |-> FALSE, kept |-> e, ran |-> e]
        <4> DEFINE w == [best |-> x, count |-> 0, stop |-> FALSE, kept |-> e, ran |-> s.ran]
        <4>1. u = [w EXCEPT !.ran = e]
          <5> HIDE DEF t, w
          <5> QED
            BY <3>2, <3>3 DEF w
        <4> QED
          BY <4>1
      <3>5. u.best = x /\ u.count = 0 /\ u.stop = FALSE /\ u.kept = e /\ u.ran = e
        BY <3>4
      <3>6. u \in StopperStates
        <4>1. x \in 0..1000
          BY <1>1
        <4> QED
          BY <1>1, <1>4, <3>4, <4>1
      <3>7. \A d \in 1..e : x <= loss[d] + 1
        <4>1. ASSUME NEW d \in 1..(e - 1) PROVE s.best <= loss[d] + 1
          BY <1>1, <1>2, <2>1 DEF StopperInv
        <4> SUFFICES ASSUME NEW d \in 1..e PROVE x <= loss[d] + 1
          OBVIOUS
        <4>2. d = e \/ d \in 1..(e - 1)
          BY <1>1
        <4>3. CASE d = e
          BY <1>1, <1>3, <4>3
        <4>4. CASE d \in 1..(e - 1)
          BY <1>1, <1>2, <2>2, <4>1, <4>4
        <4> QED
          BY <4>2, <4>3, <4>4
      <3>8. e \in 1..e /\ e <= e - 0 /\ loss[e] = x /\ x <= x /\ e <= e /\ e > 0 /\ ~(e = 0)
        BY <1>1, <1>3
      <3> QED
        BY <3>5, <3>6, <3>7, <3>8 DEF StopperInv
    <2>3. CASE ~(x < s.best - 1)
      <3> DEFINE more == s.count + 1
                 last == (more >= Patience)
                 t == [best |-> s.best, count |-> more, stop |-> last, kept |-> s.kept, ran |-> s.ran]
                 k == IF ~last /\ x <= s.best THEN e ELSE s.kept
      <3>1. s.ran > 0
        <4>1. SUFFICES ASSUME s.ran = 0 PROVE FALSE
          BY <1>2
        <4>2. s.best = 1000
          BY <4>1 DEF StopperInv, Infinite
        <4> QED
          BY <1>1, <2>3, <4>2
      <3>2. StopperStep(s, x) = t
        BY <1>2, <1>7, <2>3 DEF StopperStep
      <3>3. last \in BOOLEAN /\ more \in Nat
        BY <1>2
      <3> HIDE DEF last, more
      <3>4. u = [best |-> s.best, count |-> more, stop |-> last, kept |-> k, ran |-> e]
        <4>1. u = IF t.stop THEN [t EXCEPT !.ran = e] ELSE [KeepState(t, e, x) EXCEPT !.ran = e]
          <5> HIDE DEF t
          <5> QED
            BY <1>3, <1>6, <3>2 DEF Epoch
        <4>2. KeepState(t, e, x) = IF x <= s.best THEN [t EXCEPT !.kept = e] ELSE t
          BY DEF KeepState
        <4> QED
          BY <4>1, <4>2
      <3>5. /\ s.kept \in 1..s.ran /\ loss[s.kept] <= s.best
            /\ \A d \in 1..s.ran : s.best <= loss[d] + 1
            /\ \E d \in 1..s.ran : d <= s.ran - s.count /\ loss[d] = s.best
        BY <3>1 DEF StopperInv
      <3>6. k \in 1..e /\ loss[k] <= s.best
        <4>1. CASE ~last /\ x <= s.best
          BY <1>1, <1>3, <4>1
        <4>2. CASE ~(~last /\ x <= s.best)
          <5>1. k = s.kept /\ s.kept \in 1..e
            BY <1>1, <2>1, <3>5, <4>2
          <5> HIDE DEF k
          <5> QED
            BY <3>5, <5>1
        <4> QED
          BY <4>1, <4>2
      <3> HIDE DEF k
      <3>7. u.best = s.best /\ u.count = more /\ u.stop = last /\ u.kept = k /\ u.ran = e
        BY <3>4
      <3>8. u \in StopperStates
        <4>1. k \in Nat
          BY <1>1, <3>6
        <4>2. s.best \in 0..1000
          <5> DEFINE B == 0..1000
          <5>1. \A b \in Nat : b <= 1000 => b \in B
            OBVIOUS
          <5> HIDE DEF B
          <5>2. s.best \in B
            BY <1>2, <5>1
          <5> QED
            BY <5>2 DEF B
        <4> QED
          BY <1>1, <1>4, <3>3, <3>4, <4>1, <4>2
      <3>9. \A d \in 1..e : s.best <= loss[d] + 1
        <4> SUFFICES ASSUME NEW d \in 1..e PROVE s.best <= loss[d] + 1
          OBVIOUS
        <4>1. d = e \/ d \in 1..s.ran
          BY <1>1, <2>1
        <4>2. CASE d = e
          BY <1>1, <1>2, <1>3, <2>3, <4>2
        <4> QED
          BY <3>5, <4>1, <4>2
      <3>10. \E d \in 1..e : d <= e - more /\ loss[d] = s.best
        <4>1. PICK d \in 1..s.ran : d <= s.ran - s.count /\ loss[d] = s.best
          BY <3>5
        <4>2. d \in 1..e /\ d <= e - more
          BY <1>1, <1>2, <2>1, <4>1 DEF more
        <4> QED
          BY <4>1, <4>2
      <3>11. e > 0 /\ ~(e = 0) /\ e <= e /\ (last => more >= Patience)
        BY <1>1 DEF last
      <3> QED
        BY <3>6, <3>7, <3>8, <3>9, <3>10, <3>11 DEF StopperInv
    <2> QED
      BY <2>2, <2>3
  <1> QED
    BY <1>5, <1>6

LEMMA EpochsKeepIt ==
    ASSUME NEW n \in Nat, NEW loss \in [1..n -> 0..(Infinite - 2)], NEW g, g[0] = StopperStart,
           \A k \in 1..n : StopperInv(g[k - 1], k - 1, loss) => g[k] = Epoch(g[k - 1], k, loss[k])
    PROVE  \A k \in 0..n : StopperInv(g[k], k, loss)
  <1> DEFINE P == {m \in Nat : m <= n => StopperInv(g[m], m, loss)}
  <1>1. 0 \in P
    <2>1. StopperStart \in StopperStates /\ StopperStart.ran = 0 /\ StopperStart.best = Infinite
          /\ StopperStart.stop = FALSE
      BY DEF StopperStart, StopperStates, Infinite
    <2>2. StopperInv(StopperStart, 0, loss)
      BY <2>1 DEF StopperInv
    <2> QED
      BY <2>2
  <1>2. ASSUME NEW m \in Nat, m \in P PROVE m + 1 \in P
    <2>1. SUFFICES ASSUME m + 1 <= n PROVE StopperInv(g[m + 1], m + 1, loss)
      BY DEF P
    <2>2. StopperInv(g[m], m, loss)
      BY <1>2, <2>1
    <2> DEFINE k == m + 1
    <2>3. k \in 1..n /\ k - 1 = m
      BY <2>1
    <2> HIDE DEF k
    <2>4. g[k] = Epoch(g[k - 1], k, loss[k]) /\ StopperInv(g[k - 1], k - 1, loss)
      BY <2>2, <2>3
    <2>5. StopperInv(g[k], k, loss)
      BY <2>3, <2>4, EpochStep
    <2> QED
      BY <2>5 DEF k
  <1> HIDE DEF P
  <1>3. \A m \in Nat : m \in P
    BY <1>1, <1>2, NaturalSteps
  <1> QED
    BY <1>3 DEF P

LEMMA RestoredFollows == QuestionInv => RestoredIsNearBest
  <1> SUFFICES ASSUME QuestionInv, Answered("epochs") PROVE RestoredIsNearBest
    BY DEF RestoredIsNearBest
  <1> DEFINE loss == asked.losses
             n == Len(loss)
             a == answer[1]
             V == StopperStates
             next(g) == [e \in 0..n |-> IF e = 0 THEN StopperStart ELSE Epoch(g[e - 1], e, loss[e])]
  <1>1. asked \in PooledQuestions /\ asked.topic = "epochs" /\ answer = <<FitNetwork(loss)>>
    BY DEF QuestionInv, AskedIs, AnswersAre, Answered
  <1>2. n \in Nat /\ loss \in [1..n -> 0..(Infinite - 2)]
    <2>1. loss \in [1..Epochs -> Losses] /\ Epochs \in Nat
      BY <1>1, PooledAssumption DEF PooledQuestions
    <2>2. Losses \subseteq 0..(Infinite - 2)
      BY PooledAssumption
    <2> DEFINE D == 0..(Infinite - 2)
    <2> HIDE DEF D
    <2>3. loss \in [1..Epochs -> D]
      BY <2>1, <2>2 DEF D
    <2>4. n = Epochs
      BY <2>1
    <2> QED
      BY <2>1, <2>3, <2>4 DEF D
  <1>3. StopperStart \in V
    BY DEF StopperStart, StopperStates, Infinite
  <1> DEFINE kept(u) == IF u \in V THEN u ELSE StopperStart
             move == [p \in (1..n) \X V |-> kept(Epoch(p[2], p[1], loss[p[1]]))]
  <1> HIDE DEF loss, n, V
  <1>4. PICK run \in [0..n -> V] :
          run[0] = StopperStart /\ \A k \in 1..n : run[k] = move[<<k, run[k - 1]>>]
    <2>1. move \in [(1..n) \X V -> V]
      <3>1. \A u : kept(u) \in V
        BY <1>3
      <3> HIDE DEF kept
      <3> QED
        BY <3>1
    <2> HIDE DEF move
    <2> QED
      BY <1>2, <1>3, <2>1, LoopExists
  <1>5. ASSUME NEW k \in 1..n, StopperInv(run[k - 1], k - 1, loss)
        PROVE  run[k] = Epoch(run[k - 1], k, loss[k])
    <2> DEFINE u == Epoch(run[k - 1], k, loss[k])
    <2>1. StopperInv(u, k, loss)
      <3> DEFINE s == run[k - 1]
      <3>1. StopperInv(s, k - 1, loss)
        BY <1>5
      <3> HIDE DEF s
      <3>2. StopperInv(Epoch(s, k, loss[k]), k, loss)
        BY <1>2, <3>1, EpochStep
      <3> QED
        BY <3>2 DEF s
    <2> HIDE DEF u
    <2>2. u \in V
      BY <2>1 DEF StopperInv, V
    <2>3. k - 1 \in 0..n
      BY <1>2
    <2>4. run[k] = kept(u)
      BY <1>4, <2>3 DEF u
    <2> QED
      BY <2>2, <2>4 DEF u
  <1>6. \A k \in 0..n : StopperInv(run[k], k, loss)
    BY <1>2, <1>4, <1>5, EpochsKeepIt
  <1>7. run = next(run)
    <2>1. ASSUME NEW e \in 0..n
          PROVE  run[e] = IF e = 0 THEN StopperStart ELSE Epoch(run[e - 1], e, loss[e])
      <3>1. CASE e = 0
        BY <1>4, <3>1
      <3>2. CASE e # 0
        <4>1. e \in 1..n /\ e - 1 \in 0..n
          BY <1>2, <3>2
        <4>2. StopperInv(run[e - 1], e - 1, loss)
          BY <1>6, <4>1
        <4> QED
          BY <1>5, <3>2, <4>1, <4>2
      <3> QED
        BY <3>1, <3>2
    <2>2. run = [e \in 0..n |-> run[e]]
      OBVIOUS
    <2> QED
      BY <2>1, <2>2
  <1> DEFINE after == CHOOSE g : g = next(g)
             end == after[n]
  <1>8. a = [ran |-> end.ran, stopped |-> end.stop, restored |-> IF end.kept = 0 THEN end.ran ELSE end.kept]
    BY <1>1 DEF FitNetwork, StopperStart, n
  <1>9. after = next(after)
    <2> HIDE DEF next
    <2> QED
      BY <1>7
  <1> HIDE DEF after
  <1>10. /\ after[0] = StopperStart
         /\ \A k \in 1..n : after[k] = Epoch(after[k - 1], k, loss[k])
    <2>1. \A e \in 0..n : next(after)[e] = IF e = 0 THEN StopperStart ELSE Epoch(after[e - 1], e, loss[e])
      OBVIOUS
    <2> HIDE DEF next
    <2>2. \A e \in 0..n : after[e] = IF e = 0 THEN StopperStart ELSE Epoch(after[e - 1], e, loss[e])
      BY <1>9, <2>1
    <2>3. 0 \in 0..n /\ \A k \in 1..n : k \in 0..n /\ k # 0
      BY <1>2
    <2> QED
      BY <2>2, <2>3
  <1>11. StopperInv(end, n, loss)
    <2>1. \A k \in 0..n : StopperInv(after[k], k, loss)
      BY <1>2, <1>10, EpochsKeepIt
    <2>2. n \in 0..n
      BY <1>2
    <2> QED
      BY <2>1, <2>2
  <1> HIDE DEF end
  <1>12. a.ran = end.ran /\ a.stopped = end.stop
         /\ a.restored = IF end.kept = 0 THEN end.ran ELSE end.kept
    BY <1>8
  <1> HIDE DEF a
  <1>13. end \in StopperStates /\ end.ran <= n
    BY <1>11 DEF StopperInv
  <1>14. end.ran \in Nat /\ end.count \in Nat /\ end.best \in Nat
    <2>1. /\ end.ran \in Nat /\ end.count \in Nat /\ end.best \in 0..Infinite
      BY <1>13 DEF StopperStates
    <2> QED
      BY <2>1
  <1>15. \A d \in 1..end.ran : loss[d] \in Nat
    <2> DEFINE D == 0..(Infinite - 2)
    <2>1. D \subseteq Nat
      BY DEF Infinite
    <2>4. loss \in [1..n -> D]
      BY <1>2
    <2> HIDE DEF D
    <2>2. \A d \in 1..n : loss[d] \in Nat
      BY <2>1, <2>4
    <2>3. \A d \in 1..end.ran : d \in 1..n
      BY <1>2, <1>13, <1>14
    <2> QED
      BY <2>2, <2>3
  <1>16. ASSUME NEW e \in 1..a.ran PROVE loss[a.restored] <= loss[e] + 1
    <2>1. end.ran > 0 /\ e \in 1..end.ran
      BY <1>12, <1>14
    <2>2. end.kept \in 1..end.ran /\ loss[end.kept] <= end.best /\ end.best <= loss[e] + 1
      BY <1>11, <2>1 DEF StopperInv
    <2>3. a.restored = end.kept
      BY <1>12, <1>14, <2>2
    <2>4. loss[end.kept] \in Nat /\ loss[e] \in Nat
      BY <1>15, <2>1, <2>2
    <2> QED
      BY <1>14, <2>2, <2>3, <2>4
  <1>17. ASSUME a.stopped, NEW e \in (a.ran - Patience + 1)..a.ran
         PROVE  \E d \in 1..(e - 1) : loss[d] <= loss[e] + 1
    <2>1. end.ran > 0 /\ end.count >= Patience /\ Patience \in Nat \ {0}
      BY <1>11, <1>12, <1>17, PooledAssumption DEF StopperInv
    <2>2. PICK d \in 1..end.ran : d <= end.ran - end.count /\ loss[d] = end.best
      BY <1>11, <2>1 DEF StopperInv
    <2>3. d \in 1..(e - 1) /\ e \in 1..end.ran
      BY <1>12, <1>14, <2>1, <2>2
    <2>4. end.best <= loss[e] + 1
      BY <1>11, <2>1, <2>3 DEF StopperInv
    <2> QED
      BY <2>2, <2>3, <2>4
  <1> QED
    BY <1>16, <1>17 DEF RestoredIsNearBest, a, loss

--------------------------------------------------------------------------------
(* The components together. *)

\* The component a scene moves steps, the others stay as they are.
LEMMA StepIsOfTheComponents ==
    ASSUME [Next]_<<scene, allVars>>
    PROVE  /\ BrokerNext \/ ShadowNext \/ UNCHANGED deskVars
           /\ GatesNext \/ UNCHANGED gatesVars
           /\ ScheduleNext \/ UNCHANGED scheduleVars
           /\ SignalsNext \/ UNCHANGED sigVars
           /\ UniverseNext \/ BarsNext \/ TicksNext \/ UNCHANGED marketVars
           /\ PairNext \/ UNCHANGED pairVars
           /\ HealthHourPasses \/ UNCHANGED healthVars
           /\ BookNext \/ UNCHANGED bookVars
           /\ AnswerPeriod \/ PlanningAnswers \/ RulesAnswers \/ UNCHANGED questionVars
  BY Zenon DEF Next, allVars, mainVars, otherVars

PartsInv ==
    /\ DeskInv /\ GatesInv /\ ReportsInv /\ SignalsInv /\ MarketInv /\ PairInv /\ HealthInv
    /\ BookInv /\ QuestionInv

LEMMA PartsStart == Init => PartsInv
  <1> SUFFICES ASSUME Init PROVE PartsInv
    OBVIOUS
  <1>1. DeskInit /\ GatesInit /\ ScheduleInit /\ SignalsInit /\ MarketInit /\ PairInit
        /\ HealthInit /\ BookInit
    BY DEF Init
  <1>2. QuestionInv
    <2>1. answer = <<>>
      BY DEF Init
    <2>2. \/ asked \in GateQuestions \union PlanningQuestions \union RulesQuestions
          \/ asked = [topic |-> "none"]
      BY DEF Init
    <2> QED
      BY <2>1, <2>2, QuestionStart
  <1> QED
    BY <1>1, <1>2, DeskStart, GatesStart, ReportsStart, SignalsStart, MarketStart, PairStart,
       HealthStart, BookStart
       DEF PartsInv

LEMMA PartsStep ==
    ASSUME PartsInv, [Next]_<<scene, allVars>>
    PROVE  /\ PartsInv'
           /\ \A s \in Strategies : stage[s] = "retired" => stage'[s] = "retired"
           /\ \A s \in Strategies :
                stage[s] # "retired" /\ failures'[s] > failures[s] =>
                  (advice'.what = "retire" <=> stage'[s] = "retired")
           /\ \A d \in 0..(marketDay - 1) : GetSymbolsForTier(d)' = GetSymbolsForTier(d)
  <1>1. /\ BrokerNext \/ ShadowNext \/ UNCHANGED deskVars
        /\ GatesNext \/ UNCHANGED gatesVars
        /\ ScheduleNext \/ UNCHANGED scheduleVars
        /\ SignalsNext \/ UNCHANGED sigVars
        /\ UniverseNext \/ BarsNext \/ TicksNext \/ UNCHANGED marketVars
        /\ PairNext \/ UNCHANGED pairVars
        /\ HealthHourPasses \/ UNCHANGED healthVars
        /\ BookNext \/ UNCHANGED bookVars
        /\ AnswerPeriod \/ PlanningAnswers \/ RulesAnswers \/ UNCHANGED questionVars
    BY StepIsOfTheComponents
  <1>2. /\ DeskInv /\ GatesInv /\ ReportsInv /\ SignalsInv /\ MarketInv /\ PairInv /\ HealthInv
        /\ BookInv /\ QuestionInv
    BY DEF PartsInv
  <1>3. /\ DeskInv' /\ ReportsInv' /\ SignalsInv' /\ PairInv' /\ HealthInv' /\ BookInv'
        /\ QuestionInv'
    BY <1>1, <1>2, DeskStep, ReportsStep, SignalsStep, PairStep, HealthStep, BookStep, QuestionStep
  <1>4. /\ GatesInv'
        /\ \A s \in Strategies : stage[s] = "retired" => stage'[s] = "retired"
        /\ \A s \in Strategies :
             stage[s] # "retired" /\ failures'[s] > failures[s] =>
               (advice'.what = "retire" <=> stage'[s] = "retired")
    BY <1>1, <1>2, GatesStep
  <1>5. MarketInv' /\ \A d \in 0..(marketDay - 1) : GetSymbolsForTier(d)' = GetSymbolsForTier(d)
    BY <1>1, <1>2, MarketStep
  <1> QED
    BY <1>3, <1>4, <1>5 DEF PartsInv

LEMMA PartsHold == Spec => []PartsInv
  <1>1. PartsInv /\ [Next]_<<scene, allVars>> => PartsInv'
    BY PartsStep
  <1> QED
    BY <1>1, PartsStart, PTL DEF Spec

\* A retired strategy stays retired, no more run than may, a review that says retire
\* retires and no other does, full capital takes the weeks of every tier, the judges of a
\* period agree; no signal of a day rests on the day's filings, none contradicts the veto
\* of its run, a cluster is of two filings, and the pairs signal what their backtest trades
\* (gates/, intel/signals, signals/pairs.py).
THEOREM StrategiesSound == Spec => StrategiesAreSound
  <1>1. PartsInv => /\ JudgesAgree /\ CapitalTakesWeeks
                    /\ NoLookAhead /\ VetoWithinARun /\ ClusterOfTwoFilings
                    /\ TradesAreDatedByFilings /\ SignalsAreTheTrades
    BY JudgesFollow, GatesKeep, SignalsKeep, PairKeeps DEF PartsInv
  <1>2. PartsInv /\ PartsInv' /\ [Next]_<<scene, allVars>> =>
          [/\ \A s \in Strategies : stage[s] = "retired" => stage'[s] = "retired"
           /\ Cardinality({s \in Strategies : Active(s)'}) <= MaxConcurrent]_stage
    <2>1. PartsInv' => Cardinality({s \in Strategies : Active(s)'}) <= MaxConcurrent
      BY DEF PartsInv, GatesInv, ActiveOnes, Active
    <2> QED
      BY <2>1, PartsStep
  <1>3. PartsInv /\ [Next]_<<scene, allVars>> =>
          [\A s \in Strategies :
             stage[s] # "retired" /\ failures'[s] > failures[s]
               => (advice'.what = "retire" <=> stage'[s] = "retired")]_gatesVars
    BY PartsStep
  <1> QED
    BY PartsHold, <1>1, <1>2, <1>3, PTL
       DEF Spec, StrategiesAreSound, StrategyLifeIsSound, RetiredForGood, AdviceIsDone

\* The composition of the index on a past day is never rewritten, a price nobody traded at
\* is marked, the tick holds the extremes of what was polled, outcomes before and after the
\* migration have one sign, labels follow the windows of three months, the alarm of a stale
\* table is about a job; and from a provider to the bars no split breaks a series, nothing
\* is filled from the future, runs without volume are found, requests keep their distance
\* and one failure costs one symbol (data/, alembic/versions, intel/store.py,
\* api/routes/ops.py).
THEOREM StoredDataStays == Spec => StoredDataHolds
  <1>1. PartsInv => /\ FilledAreFlagged /\ RunningExtremes /\ OneConvention
                    /\ LabelsFollowTheWindows /\ AlarmIsAboutAJob
                    /\ AdjustedSeriesIsContinuous /\ FillsUseThePast /\ SuspensionsAreRuns
                    /\ RequestsAreSpaced /\ OneFailureCostsOneSymbol
    BY MarketKeeps, OutcomesFollow, LabelsFollow, HealthKeeps, WorthFollows, FillsFollow,
       SuspensionsFollow, SpacingFollows, FailuresFollow DEF PartsInv
  <1>2. PartsInv /\ [Next]_<<scene, allVars>> =>
          [\A d \in 0..(marketDay - 1) : GetSymbolsForTier(d)' = GetSymbolsForTier(d)]_marketVars
    BY PartsStep
  <1> QED
    BY PartsHold, <1>1, <1>2, PTL DEF Spec, StoredDataHolds, PastCompositionsStay

\* The paper account's cash and shares together are the capital less the slippage, plus
\* what was sold beyond the positions; the ghost fills of a day are those of one run and
\* no more than its cap allows (execution/broker.py, execution/shadow.py, scheduler.py).
THEOREM DeskSound == Spec => []DeskIsSound
  <1>1. PartsInv => DeskIsSound
    BY DeskKeeps DEF PartsInv
  <1> QED
    BY PartsHold, <1>1, PTL DEF Spec

\* Where an evening and every trouble take less than a day: no job starts without what it
\* needs unless the process was away, what is late is done and not dropped, and the summary
\* is of the newest reports; a day of bad bars is mailed, the alarm on a day's predictions
\* and the gate on a model agree, and a report compares predictions with one another
\* (scheduler.py, data/quality.py, monitoring/).
THEOREM ScheduleSound == LateByLessThanADay => (Spec => []ScheduleHolds)
  <1> SUFFICES ASSUME LateByLessThanADay PROVE Spec => []ScheduleHolds
    OBVIOUS
  <1> DEFINE Inv == PartsInv /\ ScheduleInv
  <1>1. Init => Inv
    BY PartsStart, ScheduleStart DEF Init
  <1>2. Inv /\ [Next]_<<scene, allVars>> => Inv'
    <2> SUFFICES ASSUME Inv, [Next]_<<scene, allVars>> PROVE Inv'
      OBVIOUS
    <2>1. PartsInv'
      BY PartsStep
    <2>2. ScheduleNext \/ UNCHANGED scheduleVars
      BY StepIsOfTheComponents
    <2>3. ScheduleInv'
      BY <2>2, ScheduleStep
    <2> QED
      BY <2>1, <2>3
  <1>3. Inv => ScheduleHolds
    BY ScheduleKeeps, ReportsKeep, QualityFollows, CohortFollows, PerformanceFollows
       DEF PartsInv, ScheduleHolds
  <1> QED
    BY <1>1, <1>2, <1>3, PTL DEF Spec

\* A decision stays within its limits: a short is the mirror of a long, an overlay only
\* takes away, a score is between its parts, no assessments fill a sector beyond its cap, a
\* plan fits the windows it recommends, the next expiry is the first, and a network is
\* restored near its best (prediction/, risk/, signals/, models/).
THEOREM DecisionsSound == Spec => []DecisionsHold
  <1>1. PartsInv => DecisionsHold
    BY MirrorFollows, OverlayFollows, ScoreFollows, PlansFollow, NextExpiryFollows,
       RestoredFollows
       DEF PartsInv, BookInv, DecisionsHold
  <1> QED
    BY PartsHold, <1>1, PTL DEF Spec

\* What is told of the past is true of it: a label of 1 is certain, the weights share out
\* the days, no split leaks, the curve is that of the trades and compounds to what is
\* shown, the folds are apart, every trade is counted in one bucket; the routes agree on
\* the accuracy, no loser is hidden, every day has its top picks, the portfolio is that of
\* the positions, the pages give every prediction once, and a row of features is filled from
\* before and read as it was trained (labels/, backtest/, features/, api/routes/).
THEOREM RecordsSound == Spec => []RecordsHold
  <1>1. PartsInv => RecordsHold
    BY WinsFollow, DaysFollow, SplitsFollow, CurveFollows, FoldsFollow, RangeFollows,
       BucketsFollow, RoutesFollow, LosersFollow, PicksFollow, DaysDoNotLose,
       PortfolioFollows, PagesFollow, GapsFollow, NewestFollows
       DEF PartsInv, RecordsHold
  <1> QED
    BY PartsHold, <1>1, PTL DEF Spec

=============================================================================
