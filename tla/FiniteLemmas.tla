---------------------------- MODULE FiniteLemmas ----------------------------
(***************************************************************************)
(* Least and greatest elements, and sums over finite sets.  The library's  *)
(* induction theorems take an operator, which the provers cannot supply:   *)
(* the least counterexample takes the place of an induction here.          *)
(***************************************************************************)
EXTENDS Sums, FiniteSetTheorems, TLAPS

(* Every set of numbers that is not empty has a least one.                 *)
LEMMA LeastNumber ==
  ASSUME NEW T \in SUBSET Nat, T # {}
  PROVE  \E n \in T : \A m \in T : n <= m
<1>1. PICK n \in T : \A m \in T : ~(<< m, n >> \in OpToRel(<, Nat))
  BY NatLessThanWellFounded, WFMin
<1>2. \A m \in T : ~(m < n)
  BY <1>1 DEF OpToRel
<1> QED
  BY <1>2

(* ... and, if it is bounded, a greatest one.                              *)
LEMMA GreatestNumber ==
  ASSUME NEW T \in SUBSET Nat, T # {}, NEW b \in Nat, \A n \in T : n <= b
  PROVE  \E n \in T : \A m \in T : m <= n
<1> DEFINE U == {b - n : n \in T}
<1>1. U \in SUBSET Nat /\ U # {}
  <2>1. \A n \in T : n \in Nat /\ n <= b
    OBVIOUS
  <2>2. \A n \in T : b - n \in Nat
    BY <2>1
  <2> QED
    BY <2>2
<1>2. PICK u \in U : \A v \in U : u <= v
  BY <1>1, LeastNumber
<1>3. PICK n \in T : u = b - n
  OBVIOUS
<1>4. \A m \in T : b - n <= b - m /\ m \in Nat /\ n \in Nat
  BY <1>2, <1>3
<1> QED
  BY <1>4

(* Every set of finite sets that is not empty has one of least size.       *)
LEMMA LeastSet ==
  ASSUME NEW C, C # {}, \A S \in C : IsFiniteSet(S)
  PROVE  \E S \in C : \A T \in C : Cardinality(S) <= Cardinality(T)
<1> DEFINE U == {Cardinality(S) : S \in C}
<1>1. U \in SUBSET Nat /\ U # {}
  BY FS_CardinalityType
<1>2. PICK u \in U : \A v \in U : u <= v
  BY <1>1, LeastNumber
<1> QED
  BY <1>2

(* The element of a set SumOver takes first, and the function it computes on
   the subsets of its set.                                                 *)
Choice(T) == CHOOSE x \in T : TRUE

IsSum(g, F, C) ==
  g = [T \in C |-> IF T = {} THEN 0 ELSE F[Choice(T)] + g[T \ {Choice(T)}]]

(* SumOver is a function of that kind.                                     *)
LEMMA SumOverDef ==
  ASSUME NEW F, NEW S
  PROVE  SumOver(F, S) = (CHOOSE g : IsSum(g, F, SUBSET S))[S]
BY DEF SumOver, MapThenFoldSet, IsSum, Choice

(* A set and what is left of it without the element taken first.           *)
LEMMA Taken ==
  ASSUME NEW S, IsFiniteSet(S), S # {}
  PROVE  /\ Choice(S) \in S
         /\ IsFiniteSet(S \ {Choice(S)})
         /\ Cardinality(S \ {Choice(S)}) = Cardinality(S) - 1
         /\ Cardinality(S) \in Nat \ {0}
BY FS_RemoveElement, FS_CardinalityType, FS_EmptySet DEF Choice

(* The subsets of a set with at most n elements.                           *)
Small(S, n) == {T \in SUBSET S : Cardinality(T) <= n}

(* There is such a function on the subsets with at most n elements.        *)
LEMMA SmallSums ==
  ASSUME NEW F, NEW S, IsFiniteSet(S), NEW n \in Nat
  PROVE  \E g : IsSum(g, F, Small(S, n))
<1> DEFINE Bad == {k \in Nat : ~\E g : IsSum(g, F, Small(S, k))}
<1>1. ASSUME NEW T \in SUBSET S
      PROVE  IsFiniteSet(T) /\ Cardinality(T) \in Nat
  BY FS_Subset, FS_CardinalityType
<1>2. ASSUME NEW k \in Nat, NEW T \in Small(S, k), T # {}
      PROVE  /\ T \ {Choice(T)} \in Small(S, k)
             /\ k - 1 \in Nat /\ T \ {Choice(T)} \in Small(S, k - 1)
  BY <1>1, <1>2, Taken DEF Small
<1>3. IsSum([T \in Small(S, 0) |-> 0], F, Small(S, 0))
  <2>1. Small(S, 0) = {{}}
    BY <1>1, FS_EmptySet DEF Small
  <2> QED
    BY <2>1 DEF IsSum
<1>4. ASSUME NEW k \in Nat, NEW g, IsSum(g, F, Small(S, k))
      PROVE  \E h : IsSum(h, F, Small(S, k + 1))
  <2> DEFINE h == [T \in Small(S, k + 1) |->
                     IF T = {} THEN 0 ELSE F[Choice(T)] + g[T \ {Choice(T)}]]
  <2>1. Small(S, k) \subseteq Small(S, k + 1)
    BY <1>1 DEF Small
  <2>2. \A T \in Small(S, k) : h[T] = g[T]
    <3>1. \A T \in Small(S, k) :
            g[T] = IF T = {} THEN 0 ELSE F[Choice(T)] + g[T \ {Choice(T)}]
      BY <1>4 DEF IsSum
    <3> QED
      BY <2>1, <3>1
  <2>3. \A T \in Small(S, k + 1) : T # {} => T \ {Choice(T)} \in Small(S, k)
    BY <1>2
  <2>4. h = [T \in Small(S, k + 1) |->
               IF T = {} THEN 0 ELSE F[Choice(T)] + h[T \ {Choice(T)}]]
    <3> QED
      BY <2>2, <2>3
  <2> QED
    BY <2>4 DEF IsSum
<1>5. Bad = {}
  <2> SUFFICES ASSUME Bad # {} PROVE FALSE
    OBVIOUS
  <2>1. PICK k \in Bad : \A m \in Bad : k <= m
    <3>1. Bad \in SUBSET Nat
      OBVIOUS
    <3> QED
      BY <3>1, LeastNumber
  <2>2. k # 0
    BY <1>3
  <2>3. k - 1 \in Nat /\ k - 1 \notin Bad /\ k - 1 + 1 = k
    BY <2>1, <2>2
  <2> QED
    BY <2>3, <1>4
<1> QED
  BY <1>5

(* Two functions that sum up the subsets of a finite set are the same.     *)
LEMMA SumsUnique ==
  ASSUME NEW F, NEW S, IsFiniteSet(S), NEW C, NEW g, IsSum(g, F, C),
         NEW D, NEW h, IsSum(h, F, D),
         SUBSET S \subseteq C, SUBSET S \subseteq D
  PROVE  g[S] = h[S]
<1> DEFINE Bad == {T \in SUBSET S : g[T] # h[T]}
<1>1. Bad = {}
  <2> SUFFICES ASSUME Bad # {} PROVE FALSE
    OBVIOUS
  <2>1. \A T \in SUBSET S : IsFiniteSet(T)
    BY FS_Subset
  <2>2. PICK T \in Bad : \A U \in Bad : Cardinality(T) <= Cardinality(U)
    BY <2>1, LeastSet
  <2>3. /\ g[T] = IF T = {} THEN 0 ELSE F[Choice(T)] + g[T \ {Choice(T)}]
        /\ h[T] = IF T = {} THEN 0 ELSE F[Choice(T)] + h[T \ {Choice(T)}]
    BY DEF IsSum
  <2>4. T # {}
    BY <2>3
  <2>5. T \ {Choice(T)} \notin Bad /\ T \ {Choice(T)} \in SUBSET S
    <3>1. /\ Cardinality(T \ {Choice(T)}) = Cardinality(T) - 1
          /\ Cardinality(T) \in Nat
      BY <2>1, <2>4, Taken
    <3>2. ~(Cardinality(T) <= Cardinality(T \ {Choice(T)}))
      BY <3>1
    <3> QED
      BY <2>2, <3>2
  <2> QED
    BY <2>3, <2>4, <2>5
<1> QED
  BY <1>1

(* The sum of a set is that of what is left, and the element taken first.  *)
LEMMA SumStep ==
  ASSUME NEW F, NEW S, IsFiniteSet(S)
  PROVE  /\ SumOver(F, {}) = 0
         /\ S # {} =>
              SumOver(F, S) = F[Choice(S)] + SumOver(F, S \ {Choice(S)})
<1>1. ASSUME NEW T, IsFiniteSet(T)
      PROVE  IsSum(CHOOSE g : IsSum(g, F, SUBSET T), F, SUBSET T)
  <2>1. Cardinality(T) \in Nat
    BY <1>1, FS_CardinalityType
  <2>2. \E g : IsSum(g, F, Small(T, Cardinality(T)))
    BY <1>1, <2>1, SmallSums
  <2>3. Small(T, Cardinality(T)) = SUBSET T
    BY <1>1, FS_Subset DEF Small
  <2> QED
    BY <2>2, <2>3
<1> DEFINE sum(T) == CHOOSE g : IsSum(g, F, SUBSET T)
<1>2. SumOver(F, {}) = 0
  <2>1. IsSum(sum({}), F, SUBSET {})
    BY <1>1, FS_EmptySet
  <2> HIDE DEF sum
  <2>2. sum({})[{}] = 0
    BY <2>1 DEF IsSum
  <2> QED
    BY <2>2, SumOverDef DEF sum
<1>3. ASSUME S # {}
      PROVE  SumOver(F, S) = F[Choice(S)] + SumOver(F, S \ {Choice(S)})
  <2> DEFINE R == S \ {Choice(S)}
  <2>1. IsFiniteSet(R)
    BY <1>3, Taken
  <2>2. IsSum(sum(S), F, SUBSET S) /\ IsSum(sum(R), F, SUBSET R)
    BY <1>1, <2>1
  <2> HIDE DEF sum
  <2>3. sum(S)[R] = sum(R)[R]
    BY <2>1, <2>2, SumsUnique
  <2>4. sum(S)[S] = F[Choice(S)] + sum(S)[R]
    BY <1>3, <2>2 DEF IsSum
  <2> QED
    BY <2>3, <2>4, SumOverDef DEF sum
<1> QED
  BY <1>2, <1>3

(* A sum is a number, and an element more adds to it.                      *)
LEMMA SumAdd ==
  ASSUME NEW S, IsFiniteSet(S), NEW F, \A x \in S : F[x] \in Int
  PROVE  /\ SumOver(F, S) \in Int
         /\ \A x \in S : SumOver(F, S) = F[x] + SumOver(F, S \ {x})
<1> DEFINE Good(T) ==
             /\ SumOver(F, T) \in Int
             /\ \A x \in T : SumOver(F, T) = F[x] + SumOver(F, T \ {x})
           Bad == {T \in SUBSET S : ~Good(T)}
<1>1. Bad = {}
  <2> SUFFICES ASSUME Bad # {} PROVE FALSE
    OBVIOUS
  <2>1. \A T \in SUBSET S : IsFiniteSet(T)
    BY FS_Subset
  <2>2. PICK T \in Bad : \A U \in Bad : Cardinality(T) <= Cardinality(U)
    BY <2>1, LeastSet
  <2> DEFINE c == Choice(T)
  <2>3. T # {}
    <3>1. SumOver(F, {}) = 0
      BY SumStep
    <3>2. Good({})
      BY <3>1
    <3> QED
      BY <3>2
  <2>4. c \in T /\ IsFiniteSet(T) /\ Cardinality(T) \in Nat
    BY <2>1, <2>3, Taken
  <2>5. ASSUME NEW x \in T PROVE Good(T \ {x})
    <3>1. Cardinality(T \ {x}) = Cardinality(T) - 1
      BY <2>1, FS_RemoveElement
    <3>2. T \ {x} \in SUBSET S
      OBVIOUS
    <3> HIDE DEF Good
    <3> QED
      BY <2>2, <2>4, <3>1, <3>2
  <2>6. SumOver(F, T) = F[c] + SumOver(F, T \ {c})
    BY <2>3, <2>4, SumStep
  <2>7. SumOver(F, T) \in Int
    BY <2>4, <2>5, <2>6
  <2>8. ASSUME NEW x \in T PROVE SumOver(F, T) = F[x] + SumOver(F, T \ {x})
    <3>1. CASE x = c
      BY <2>6, <3>1
    <3>2. CASE x # c
      <4> DEFINE R == (T \ {c}) \ {x}
      <4>1. R = (T \ {x}) \ {c}
        OBVIOUS
      <4>2. SumOver(F, T \ {c}) = F[x] + SumOver(F, R)
        BY <2>4, <2>5, <3>2
      <4>3. SumOver(F, T \ {x}) = F[c] + SumOver(F, R)
        BY <2>4, <2>5, <3>2, <4>1
      <4>4. SumOver(F, R) \in Int
        <5>1. x \in T \ {c} /\ F[x] \in Int /\ SumOver(F, T \ {c}) \in Int
          BY <2>4, <2>5, <3>2
        <5>2. R \in SUBSET S /\ Cardinality(R) < Cardinality(T)
          <6>1. /\ IsFiniteSet(T \ {c})
                /\ Cardinality(T \ {c}) = Cardinality(T) - 1
            BY <2>4, FS_RemoveElement
          <6>2. Cardinality(R) = Cardinality(T \ {c}) - 1
            BY <6>1, <5>1, FS_RemoveElement
          <6> QED
            BY <2>4, <6>1, <6>2
        <5> HIDE DEF R
        <5>3. IsFiniteSet(R) /\ Cardinality(R) \in Nat
          BY <2>1, <5>2, FS_CardinalityType
        <5> QED
          BY <2>2, <2>4, <5>2, <5>3
      <4> HIDE DEF R
      <4>5. F[x] \in Int /\ F[c] \in Int
        BY <2>4
      <4> QED
        BY <2>6, <4>2, <4>3, <4>4, <4>5
    <3> QED
      BY <3>1, <3>2
  <2> QED
    BY <2>7, <2>8
<1> QED
  BY <1>1

(* Sums of what is the same are the same.                                  *)
LEMMA SumSame ==
  ASSUME NEW S, IsFiniteSet(S), NEW F, NEW G, \A x \in S : F[x] = G[x]
  PROVE  SumOver(F, S) = SumOver(G, S)
<1> DEFINE Bad == {T \in SUBSET S : SumOver(F, T) # SumOver(G, T)}
<1>1. Bad = {}
  <2> SUFFICES ASSUME Bad # {} PROVE FALSE
    OBVIOUS
  <2>1. \A T \in SUBSET S : IsFiniteSet(T)
    BY FS_Subset
  <2>2. PICK T \in Bad : \A U \in Bad : Cardinality(T) <= Cardinality(U)
    BY <2>1, LeastSet
  <2>3. T # {}
    BY FS_EmptySet, SumStep
  <2>4. /\ SumOver(F, T) = F[Choice(T)] + SumOver(F, T \ {Choice(T)})
        /\ SumOver(G, T) = G[Choice(T)] + SumOver(G, T \ {Choice(T)})
    BY <2>1, <2>3, SumStep
  <2>5. T \ {Choice(T)} \notin Bad /\ Choice(T) \in S
    BY <2>1, <2>2, <2>3, Taken
  <2> QED
    BY <2>4, <2>5
<1> QED
  BY <1>1

(* Changing one term changes the sum by as much.                           *)
LEMMA SumChange ==
  ASSUME NEW S, IsFiniteSet(S), NEW F, NEW G, NEW x \in S,
         \A y \in S : F[y] \in Int, \A y \in S : G[y] \in Int,
         \A y \in S \ {x} : G[y] = F[y]
  PROVE  SumOver(G, S) = SumOver(F, S) + (G[x] - F[x])
<1>1. IsFiniteSet(S \ {x})
  BY FS_Subset
<1>2. SumOver(G, S \ {x}) = SumOver(F, S \ {x}) /\ SumOver(F, S \ {x}) \in Int
  BY <1>1, SumSame, SumAdd
<1>3. SumOver(F, S) = F[x] + SumOver(F, S \ {x})
  BY SumAdd
<1>4. SumOver(G, S) = G[x] + SumOver(G, S \ {x})
  BY SumAdd
<1> QED
  BY <1>2, <1>3, <1>4

(* Moving an amount from one term to another leaves the sum.               *)
LEMMA SumMove ==
  ASSUME NEW S, IsFiniteSet(S), NEW F, NEW G, NEW x \in S, NEW y \in S, x # y,
         \A z \in S : F[z] \in Int, NEW a \in Int,
         G[x] = F[x] - a, G[y] = F[y] + a,
         \A z \in S \ {x, y} : G[z] = F[z]
  PROVE  SumOver(G, S) = SumOver(F, S)
<1> DEFINE U == S \ {x}
           R == U \ {y}
<1>1. \A z \in S : G[z] \in Int
  OBVIOUS
<1>2. /\ IsFiniteSet(U) /\ U \subseteq S /\ y \in U
      /\ IsFiniteSet(R) /\ R \subseteq S
  BY FS_RemoveElement
<1>3. \A z \in R : G[z] = F[z]
  OBVIOUS
<1>4. SumOver(F, S) = F[x] + SumOver(F, U) /\ SumOver(G, S) = G[x] + SumOver(G, U)
  BY <1>1, SumAdd
<1> HIDE DEF U
<1>5. SumOver(F, U) = F[y] + SumOver(F, R) /\ SumOver(G, U) = G[y] + SumOver(G, R)
  BY <1>1, <1>2, SumAdd
<1> HIDE DEF R
<1>6. SumOver(G, R) = SumOver(F, R) /\ SumOver(F, R) \in Int
  BY <1>2, <1>3, SumSame, SumAdd
<1>7. F[x] \in Int /\ F[y] \in Int
  OBVIOUS
<1> QED
  BY <1>4, <1>5, <1>6, <1>7
=============================================================================
