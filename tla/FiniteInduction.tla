--------------------------- MODULE FiniteInduction ---------------------------
(***************************************************************************)
(* Induction by least counterexample, over finite sets and over numbers.   *)
(* What a sum over a finite set is worth, one element at a time:           *)
(* SumFunctionOnSet is a recursive function over the subsets of its set,   *)
(* so each fact is about the least set that would refute it.  And that a   *)
(* recursion over 0 .. n defines a function.                               *)
(***************************************************************************)
EXTENDS Functions, Integers, FiniteSets, FiniteSetTheorems, WellFoundedInduction, TLAPS

(* The element that is added last.                                         *)
Pick(s) == CHOOSE x \in s : TRUE

(* g is the sum of f over the subsets of S.                                *)
Sums(g, f, S) ==
  g = [s \in SUBSET S |-> IF s = {} THEN 0 ELSE f[Pick(s)] + g[s \ {Pick(s)}]]

(* SumFunctionOnSet is such a sum, if there is one.                        *)
LEMMA SumIsChosen ==
  ASSUME NEW f, NEW S
  PROVE  SumFunctionOnSet(f, S) = (CHOOSE g : Sums(g, f, S))[S]
BY DEF SumFunctionOnSet, FoldFunctionOnSet, MapThenFoldSet, Sums, Pick

(* Where some finite set has a property, a least one has it.               *)
LEMMA LeastSet ==
  ASSUME NEW S, IsFiniteSet(S), NEW T, T \subseteq SUBSET S, T # {}
  PROVE  \E s \in T : \A u \in T : u \subseteq s => u = s
<1>1. IsWellFoundedOn(StrictSubsetOrdering(S), SUBSET S)
  BY FS_StrictSubsetOrderingWellFounded, FS_FiniteSubsetsOfFinite
<1>2. \E s \in T : \A u \in T : <<u, s>> \notin StrictSubsetOrdering(S)
  BY <1>1, WFMin
<1>. QED BY <1>2 DEF StrictSubsetOrdering

(* Nor does a set of numbers lack a least one.                             *)
LEMMA LeastNumber ==
  ASSUME NEW T, T \subseteq Nat, T # {}
  PROVE  \E n \in T : \A m \in T : n <= m
<1>. PICK top \in T : TRUE
  OBVIOUS
<1>. DEFINE S == 0 .. top
            F == {u \in SUBSET S : \E n \in T : u = 0 .. n}
<1>1. IsFiniteSet(S) /\ F \subseteq SUBSET S /\ S \in F
  BY FS_Interval
<1>2. PICK s \in F : \A u \in F : u \subseteq s => u = s
  <2>. HIDE DEF S, F
  <2>. QED BY <1>1, LeastSet
<1>3. PICK n \in T : s = 0 .. n
  OBVIOUS
<1>4. ASSUME NEW m \in T, ~(n <= m) PROVE FALSE
  <2>1. m \in Nat /\ n \in Nat /\ top \in Nat
    OBVIOUS
  <2>2. 0 .. m \subseteq s /\ 0 .. m \in SUBSET S
    BY <1>2, <1>3, <1>4, <2>1
  <2>3. 0 .. m = 0 .. n
    BY <1>2, <1>3, <2>2
  <2>4. n \in 0 .. n /\ n \notin 0 .. m
    BY <1>4, <2>1
  <2>. QED BY <2>3, <2>4
<1>. QED BY <1>4

(* What holds of 0 and of each successor holds up to n.                    *)
LEMMA UpTo ==
  ASSUME NEW n \in Nat, NEW T, 0 \in T, \A k \in 1 .. n : k - 1 \in T => k \in T
  PROVE  0 .. n \subseteq T
<1>. DEFINE Odd == (0 .. n) \ T
<1>. SUFFICES ASSUME Odd # {} PROVE FALSE
  OBVIOUS
<1>1. PICK k \in Odd : \A l \in Odd : k <= l
  <2>1. Odd \subseteq Nat
    OBVIOUS
  <2>. HIDE DEF Odd
  <2>. QED BY <2>1, LeastNumber
<1>2. k \in 1 .. n /\ k - 1 \notin Odd /\ k - 1 \in 0 .. n
  BY <1>1
<1>. QED BY <1>2

LEMMA PickIn ==
  ASSUME NEW s, s # {}
  PROVE  Pick(s) \in s
BY DEF Pick

(* Two sums of f agree on the sets both are about.                         *)
LEMMA SumsAgree ==
  ASSUME NEW f, NEW S, NEW T, IsFiniteSet(S), T \subseteq S,
         NEW g, Sums(g, f, S), NEW h, Sums(h, f, T)
  PROVE  \A u \in SUBSET T : g[u] = h[u]
<1>. DEFINE Odd == {u \in SUBSET T : g[u] # h[u]}
<1>. SUFFICES ASSUME Odd # {} PROVE FALSE
  OBVIOUS
<1>1. PICK s \in Odd : \A u \in Odd : u \subseteq s => u = s
  <2>1. Odd \subseteq SUBSET S
    OBVIOUS
  <2>. HIDE DEF Odd
  <2>. QED BY <2>1, LeastSet
<1>2. /\ s \in SUBSET S /\ s \in SUBSET T
      /\ s \ {Pick(s)} \in SUBSET S /\ s \ {Pick(s)} \in SUBSET T
  OBVIOUS
<1>3. /\ g[s] = IF s = {} THEN 0 ELSE f[Pick(s)] + g[s \ {Pick(s)}]
      /\ h[s] = IF s = {} THEN 0 ELSE f[Pick(s)] + h[s \ {Pick(s)}]
  BY <1>2 DEF Sums
<1>4. s # {} /\ s \ {Pick(s)} # s
  BY <1>3, PickIn
<1>5. g[s \ {Pick(s)}] = h[s \ {Pick(s)}]
  BY <1>1, <1>2, <1>4
<1>. QED BY <1>3, <1>5

(* The sum of f over S.                                                    *)
Sum(f, S) == (CHOOSE g : Sums(g, f, S))[S]

(* There is a sum of f over every finite set.                              *)
LEMMA SumsExist ==
  ASSUME NEW f, NEW S, IsFiniteSet(S)
  PROVE  \E g : Sums(g, f, S)
<1>. DEFINE Odd == {u \in SUBSET S : \A g : ~Sums(g, f, u)}
<1>. SUFFICES ASSUME Odd # {} PROVE FALSE
  OBVIOUS
<1>1. PICK s \in Odd : \A u \in Odd : u \subseteq s => u = s
  <2>1. Odd \subseteq SUBSET S
    OBVIOUS
  <2>. HIDE DEF Odd
  <2>. QED BY <2>1, LeastSet
<1>. DEFINE Sol(u) == CHOOSE g : Sums(g, f, u)
            G == [u \in SUBSET s |->
                    IF u = {} THEN 0 ELSE f[Pick(u)] + Sum(f, u \ {Pick(u)})]
<1>2. ASSUME NEW u \in SUBSET s, u # s
      PROVE  Sums(Sol(u), f, u) /\ Sum(f, u) = Sol(u)[u] /\ IsFiniteSet(u)
  <2>1. \E g : Sums(g, f, u)
    BY <1>1, <1>2
  <2>. QED BY <2>1, FS_Subset DEF Sum
<1>3. ASSUME NEW u \in SUBSET s, u # s
      PROVE  Sum(f, u) = G[u]
  <2>1. Sol(u)[u] = IF u = {} THEN 0 ELSE f[Pick(u)] + Sol(u)[u \ {Pick(u)}]
    <3>1. u \in SUBSET u /\ Sums(Sol(u), f, u)
      BY <1>2, <1>3
    <3>. HIDE DEF Sol
    <3>. QED BY <3>1 DEF Sums
  <2>2. CASE u # {}
    <3>. DEFINE v == u \ {Pick(u)}
    <3>1. v \in SUBSET u /\ v \in SUBSET s /\ v # s
      BY <1>3, <2>2, PickIn
    <3>2. Sums(Sol(v), f, v) /\ Sums(Sol(u), f, u) /\ IsFiniteSet(u) /\ Sum(f, v) = Sol(v)[v]
      BY <1>2, <1>3, <3>1
    <3>3. Sol(u)[v] = Sol(v)[v]
      <4>. HIDE DEF v, Sol
      <4>. QED BY <3>1, <3>2, SumsAgree
    <3>. QED BY <1>2, <1>3, <2>1, <2>2, <3>2, <3>3
  <2>. QED BY <1>2, <1>3, <2>1, <2>2
<1>4. \A u \in SUBSET s : u # {} => G[u] = f[Pick(u)] + G[u \ {Pick(u)}]
  <2>. SUFFICES ASSUME NEW u \in SUBSET s, u # {}
                PROVE  Sum(f, u \ {Pick(u)}) = G[u \ {Pick(u)}]
    OBVIOUS
  <2>1. u \ {Pick(u)} \in SUBSET s /\ u \ {Pick(u)} # s
    BY PickIn
  <2>. HIDE DEF G
  <2>. QED BY <1>3, <2>1
<1>5. Sums(G, f, s)
  <2>1. \A u \in SUBSET s : G[u] = IF u = {} THEN 0 ELSE f[Pick(u)] + G[u \ {Pick(u)}]
    BY <1>4
  <2>2. G = [u \in SUBSET s |-> G[u]]
    OBVIOUS
  <2>. HIDE DEF G
  <2>. QED BY <2>1, <2>2 DEF Sums
<1>. QED BY <1>1, <1>5

(* The sum, one picked element at a time.                                  *)
LEMMA SumByPick ==
  ASSUME NEW f, NEW S, IsFiniteSet(S)
  PROVE  Sum(f, S) = IF S = {} THEN 0 ELSE f[Pick(S)] + Sum(f, S \ {Pick(S)})
<1>. DEFINE Sol(u) == CHOOSE g : Sums(g, f, u)
            T == S \ {Pick(S)}
<1>1. IsFiniteSet(T) /\ T \in SUBSET S /\ S \in SUBSET S
  BY FS_Subset
<1>2. Sums(Sol(S), f, S) /\ Sums(Sol(T), f, T) /\ Sum(f, S) = Sol(S)[S] /\ Sum(f, T) = Sol(T)[T]
  BY <1>1, SumsExist DEF Sum
<1>3. Sol(S)[T] = Sol(T)[T]
  <2>. HIDE DEF Sol, T
  <2>. QED BY <1>1, <1>2, SumsAgree
<1>4. Sol(S)[S] = IF S = {} THEN 0 ELSE f[Pick(S)] + Sol(S)[T]
  <2>. HIDE DEF Sol
  <2>. QED BY <1>1, <1>2 DEF Sums
<1>. QED BY <1>2, <1>3, <1>4

(* Sums of integers are integers.                                          *)
LEMMA SumInt ==
  ASSUME NEW f, NEW S, IsFiniteSet(S), \A x \in S : f[x] \in Int
  PROVE  Sum(f, S) \in Int
<1>. DEFINE Odd == {u \in SUBSET S : Sum(f, u) \notin Int}
<1>. SUFFICES ASSUME Odd # {} PROVE FALSE
  OBVIOUS
<1>1. PICK s \in Odd : \A u \in Odd : u \subseteq s => u = s
  <2>1. Odd \subseteq SUBSET S
    OBVIOUS
  <2>. HIDE DEF Odd
  <2>. QED BY <2>1, LeastSet
<1>2. Sum(f, s) = IF s = {} THEN 0 ELSE f[Pick(s)] + Sum(f, s \ {Pick(s)})
  BY SumByPick, FS_Subset
<1>3. s # {} /\ Pick(s) \in s /\ f[Pick(s)] \in Int
  BY <1>2, PickIn
<1>4. Sum(f, s \ {Pick(s)}) \in Int
  <2>1. s \ {Pick(s)} \in SUBSET S /\ s \ {Pick(s)} \subseteq s /\ s \ {Pick(s)} # s
    BY <1>3
  <2>. QED BY <1>1, <2>1
<1>. QED BY <1>2, <1>3, <1>4

(* It does not matter which element is added last.                         *)
LEMMA SumByAny ==
  ASSUME NEW f, NEW S, IsFiniteSet(S), \A x \in S : f[x] \in Int, NEW x \in S
  PROVE  Sum(f, S) = f[x] + Sum(f, S \ {x})
<1>. DEFINE Odd == {u \in SUBSET S : \E y \in u : Sum(f, u) # f[y] + Sum(f, u \ {y})}
<1>. SUFFICES ASSUME Odd # {} PROVE FALSE
  OBVIOUS
<1>1. PICK s \in Odd : \A u \in Odd : u \subseteq s => u = s
  <2>1. Odd \subseteq SUBSET S
    OBVIOUS
  <2>. HIDE DEF Odd
  <2>. QED BY <2>1, LeastSet
<1>2. PICK y \in s : Sum(f, s) # f[y] + Sum(f, s \ {y})
  OBVIOUS
<1>. DEFINE p == Pick(s)
<1>3. p \in s /\ f[p] \in Int /\ f[y] \in Int
  BY <1>2, PickIn
<1>4. \A u \in SUBSET s : IsFiniteSet(u) /\ Sum(f, u) \in Int
  BY FS_Subset, SumInt
<1>5. Sum(f, s) = f[p] + Sum(f, s \ {p})
  BY <1>2, <1>4, SumByPick
<1>6. y # p
  BY <1>2, <1>5
<1>7. Sum(f, s \ {p}) = f[y] + Sum(f, (s \ {p}) \ {y})
  <2>1. s \ {p} \in SUBSET S /\ s \ {p} # s /\ s \ {p} \subseteq s /\ y \in s \ {p}
    BY <1>2, <1>3, <1>6
  <2>. HIDE DEF p
  <2>. QED BY <1>1, <2>1
<1>8. Sum(f, s \ {y}) = f[p] + Sum(f, (s \ {y}) \ {p})
  <2>1. s \ {y} \in SUBSET S /\ s \ {y} # s /\ s \ {y} \subseteq s /\ p \in s \ {y}
    BY <1>2, <1>3, <1>6
  <2>. HIDE DEF p
  <2>. QED BY <1>1, <2>1
<1>9. (s \ {p}) \ {y} = (s \ {y}) \ {p}
  OBVIOUS
<1>. DEFINE rest == Sum(f, (s \ {y}) \ {p})
<1>10. rest \in Int
  BY <1>4
<1>11. Sum(f, s) = f[p] + (f[y] + rest) /\ Sum(f, s \ {y}) = f[p] + rest
  BY <1>5, <1>7, <1>8, <1>9
<1>. HIDE DEF p, rest
<1>12. Sum(f, s) = f[y] + Sum(f, s \ {y})
  BY <1>3, <1>10, <1>11
<1>. QED BY <1>2, <1>12

-----------------------------------------------------------------------------
(* For the modules that use it                                             *)

LEMMA SumIs ==
  ASSUME NEW f, NEW S
  PROVE  SumFunctionOnSet(f, S) = Sum(f, S)
BY SumIsChosen DEF Sum

LEMMA SumOfNone ==
  ASSUME NEW f
  PROVE  SumFunctionOnSet(f, {}) = 0
BY SumIs, SumByPick, FS_EmptySet

LEMMA SumType ==
  ASSUME NEW f, NEW S, IsFiniteSet(S), \A x \in S : f[x] \in Int
  PROVE  SumFunctionOnSet(f, S) \in Int
BY SumIs, SumInt

LEMMA SumWithout ==
  ASSUME NEW f, NEW S, IsFiniteSet(S), \A y \in S : f[y] \in Int, NEW x \in S
  PROVE  SumFunctionOnSet(f, S) = f[x] + SumFunctionOnSet(f, S \ {x})
BY SumIs, SumByAny

LEMMA SumWith ==
  ASSUME NEW f, NEW S, IsFiniteSet(S), NEW x, x \notin S,
         \A y \in S \cup {x} : f[y] \in Int
  PROVE  SumFunctionOnSet(f, S \cup {x}) = SumFunctionOnSet(f, S) + f[x]
<1>1. IsFiniteSet(S \cup {x}) /\ (S \cup {x}) \ {x} = S
  BY FS_AddElement
<1>2. SumFunctionOnSet(f, S) \in Int
  BY SumType
<1>3. SumFunctionOnSet(f, S \cup {x}) = f[x] + SumFunctionOnSet(f, (S \cup {x}) \ {x})
  <2>. DEFINE T == S \cup {x}
  <2>1. x \in T /\ IsFiniteSet(T) /\ \A y \in T : f[y] \in Int
    BY <1>1
  <2>. HIDE DEF T
  <2>2. SumFunctionOnSet(f, T) = f[x] + SumFunctionOnSet(f, T \ {x})
    BY <2>1, SumWithout
  <2>. QED BY <2>2 DEF T
<1>4. SumFunctionOnSet(f, S \cup {x}) = f[x] + SumFunctionOnSet(f, S)
  BY <1>1, <1>3, Zenon
<1>5. f[x] \in Int
  OBVIOUS
<1>. QED BY <1>2, <1>4, <1>5

(* Where no number is positive, no number is less than the sum.            *)
LEMMA SumOfDebts ==
  ASSUME NEW f, NEW S, IsFiniteSet(S), \A x \in S : f[x] \in Int /\ f[x] <= 0
  PROVE  \A x \in S : SumFunctionOnSet(f, S) <= f[x]
<1>1. \A u \in SUBSET S : IsFiniteSet(u) /\ SumFunctionOnSet(f, u) \in Int
  BY FS_Subset, SumType
<1>2. \A u \in SUBSET S : SumFunctionOnSet(f, u) <= 0
  <2>. DEFINE Odd == {u \in SUBSET S : ~(SumFunctionOnSet(f, u) <= 0)}
  <2>. SUFFICES ASSUME Odd # {} PROVE FALSE
    OBVIOUS
  <2>1. PICK s \in Odd : \A u \in Odd : u \subseteq s => u = s
    <3>1. Odd \subseteq SUBSET S
      OBVIOUS
    <3>. HIDE DEF Odd
    <3>. QED BY <3>1, LeastSet
  <2>2. s \in SUBSET S /\ IsFiniteSet(s) /\ s # {}
    <3>1. s \in SUBSET S /\ ~(SumFunctionOnSet(f, s) <= 0)
      OBVIOUS
    <3>. QED BY <1>1, <3>1, SumOfNone
  <2>3. PICK x \in s : SumFunctionOnSet(f, s) = f[x] + SumFunctionOnSet(f, s \ {x})
    BY <2>2, SumWithout
  <2>4. SumFunctionOnSet(f, s \ {x}) <= 0 /\ SumFunctionOnSet(f, s \ {x}) \in Int
    <3>1. s \ {x} \in SUBSET S /\ s \ {x} \subseteq s /\ s \ {x} # s
      OBVIOUS
    <3>. QED BY <1>1, <2>1, <3>1
  <2>5. f[x] \in Int /\ f[x] <= 0
    OBVIOUS
  <2>6. SumFunctionOnSet(f, s) <= 0
    BY <2>3, <2>4, <2>5
  <2>. QED BY <2>6
<1>3. ASSUME NEW x \in S PROVE SumFunctionOnSet(f, S) <= f[x]
  <2>1. SumFunctionOnSet(f, S) = f[x] + SumFunctionOnSet(f, S \ {x})
    BY SumWithout
  <2>2. SumFunctionOnSet(f, S \ {x}) <= 0 /\ SumFunctionOnSet(f, S \ {x}) \in Int
    BY <1>1, <1>2
  <2>3. f[x] \in Int
    OBVIOUS
  <2>. QED BY <2>1, <2>2, <2>3
<1>. QED BY <1>3

(* Only the values count, and only those that are not 0.                   *)
LEMMA SumOfSupport ==
  ASSUME NEW f, NEW g, NEW T, IsFiniteSet(T), NEW S, S \subseteq T,
         \A x \in T : f[x] \in Int,
         \A x \in S : g[x] = f[x],
         \A x \in T \ S : f[x] = 0
  PROVE  SumFunctionOnSet(f, T) = SumFunctionOnSet(g, S)
<1>. DEFINE Odd == {u \in SUBSET T : SumFunctionOnSet(f, u) # SumFunctionOnSet(g, u \cap S)}
<1>. SUFFICES ASSUME Odd # {} PROVE FALSE
  <2>1. T \in SUBSET T /\ T \cap S = S
    OBVIOUS
  <2>. QED BY <2>1
<1>1. PICK s \in Odd : \A u \in Odd : u \subseteq s => u = s
  <2>1. Odd \subseteq SUBSET T
    OBVIOUS
  <2>. HIDE DEF Odd
  <2>. QED BY <2>1, LeastSet
<1>2. s \in SUBSET T /\ IsFiniteSet(s) /\ IsFiniteSet(s \cap S)
  BY FS_Subset
<1>3. s # {}
  <2>1. {} \cap S = {}
    OBVIOUS
  <2>. QED BY <2>1, SumOfNone
<1>4. PICK x : x \in s
  BY <1>3
<1>. DEFINE u == s \ {x}
<1>5. SumFunctionOnSet(f, u) = SumFunctionOnSet(g, u \cap S)
  <2>1. u \in SUBSET T /\ u \subseteq s /\ u # s
    BY <1>4
  <2>. HIDE DEF u
  <2>. QED BY <1>1, <2>1
<1>6. SumFunctionOnSet(f, s) = f[x] + SumFunctionOnSet(f, u)
  BY <1>2, <1>4, SumWithout
<1>7. SumFunctionOnSet(f, u) \in Int
  BY <1>2, FS_Subset, SumType
<1>8. CASE x \in S
  <2>1. u \cap S = (s \cap S) \ {x} /\ x \in s \cap S
    BY <1>4, <1>8
  <2>2. SumFunctionOnSet(g, s \cap S) = g[x] + SumFunctionOnSet(g, (s \cap S) \ {x})
    <3>1. \A y \in s \cap S : g[y] \in Int
      OBVIOUS
    <3>. QED BY <1>2, <2>1, <3>1, SumWithout
  <2>3. SumFunctionOnSet(g, s \cap S) = g[x] + SumFunctionOnSet(f, u)
    BY <1>5, <2>1, <2>2, Zenon
  <2>4. SumFunctionOnSet(g, s \cap S) = SumFunctionOnSet(f, s)
    BY <1>6, <1>8, <2>3, Zenon
  <2>. QED BY <2>4
<1>9. CASE x \notin S
  <2>1. u \cap S = s \cap S /\ f[x] = 0
    BY <1>4, <1>9
  <2>2. SumFunctionOnSet(f, s) = SumFunctionOnSet(f, u)
    <3>. HIDE DEF u
    <3>. QED BY <1>6, <1>7, <2>1
  <2>3. SumFunctionOnSet(f, s) = SumFunctionOnSet(g, s \cap S)
    BY <1>5, <2>1, <2>2, Zenon
  <2>. QED BY <2>3
<1>. QED BY <1>8, <1>9

(* One value changes.                                                      *)
LEMMA SumChange ==
  ASSUME NEW f, NEW g, NEW S, IsFiniteSet(S), NEW x \in S,
         \A y \in S : f[y] \in Int /\ g[y] \in Int,
         \A y \in S \ {x} : g[y] = f[y]
  PROVE  SumFunctionOnSet(g, S) = SumFunctionOnSet(f, S) - f[x] + g[x]
<1>. DEFINE T == S \ {x}
            rest == SumFunctionOnSet(f, T)
<1>1. IsFiniteSet(T) /\ T \subseteq T /\ \A y \in T : f[y] \in Int /\ g[y] = f[y]
  BY FS_RemoveElement
<1>2. SumFunctionOnSet(g, T) = rest /\ rest \in Int
  <2>. HIDE DEF T
  <2>. QED BY <1>1, SumOfSupport, SumType
<1>3. /\ SumFunctionOnSet(f, S) = f[x] + rest
      /\ SumFunctionOnSet(g, S) = g[x] + SumFunctionOnSet(g, T)
  BY SumWithout
<1>4. f[x] \in Int /\ g[x] \in Int
  OBVIOUS
<1>. HIDE DEF T, rest
<1>. QED BY <1>2, <1>3, <1>4

(* Fewer summands that are not negative have no larger sum.                *)
LEMMA SumOfFewer ==
  ASSUME NEW f, NEW S, IsFiniteSet(S), \A x \in S : f[x] \in Nat, NEW T, T \subseteq S
  PROVE  SumFunctionOnSet(f, T) <= SumFunctionOnSet(f, S)
<1>. DEFINE Odd == {u \in SUBSET S : ~(SumFunctionOnSet(f, u \cap T) <= SumFunctionOnSet(f, u))}
<1>. SUFFICES ASSUME Odd # {} PROVE FALSE
  <2>1. S \in SUBSET S /\ S \cap T = T
    OBVIOUS
  <2>. QED BY <2>1
<1>1. PICK s \in Odd : \A u \in Odd : u \subseteq s => u = s
  <2>1. Odd \subseteq SUBSET S
    OBVIOUS
  <2>. HIDE DEF Odd
  <2>. QED BY <2>1, LeastSet
<1>2. /\ \A u \in SUBSET S : IsFiniteSet(u) /\ SumFunctionOnSet(f, u) \in Int
      /\ s \in SUBSET S
  <2>1. \A u \in SUBSET S : IsFiniteSet(u) /\ \A x \in u : f[x] \in Int
    BY FS_Subset
  <2>. QED BY <2>1, SumType
<1>3. s # {}
  <2>1. {} \cap T = {}
    OBVIOUS
  <2>. QED BY <2>1, SumOfNone
<1>4. PICK x : x \in s
  BY <1>3
<1>. DEFINE u == s \ {x}
<1>5. SumFunctionOnSet(f, u \cap T) <= SumFunctionOnSet(f, u)
  <2>1. u \in SUBSET S /\ u \subseteq s /\ u # s
    BY <1>4
  <2>. HIDE DEF u
  <2>. QED BY <1>1, <2>1
<1>6. SumFunctionOnSet(f, s) = f[x] + SumFunctionOnSet(f, u)
  BY <1>2, <1>4, SumWithout
<1>7. CASE x \in T
  <2>1. u \cap T = (s \cap T) \ {x} /\ x \in s \cap T
    BY <1>4, <1>7
  <2>2. SumFunctionOnSet(f, s \cap T) = f[x] + SumFunctionOnSet(f, (s \cap T) \ {x})
    <3>1. IsFiniteSet(s \cap T) /\ \A y \in s \cap T : f[y] \in Int
      BY <1>2
    <3>. QED BY <2>1, <3>1, SumWithout
  <2>3. SumFunctionOnSet(f, s \cap T) = f[x] + SumFunctionOnSet(f, u \cap T)
    BY <2>1, <2>2, Zenon
  <2>4. u \in SUBSET S /\ u \cap T \in SUBSET S /\ f[x] \in Nat
    BY <1>4
  <2>5. SumFunctionOnSet(f, u \cap T) \in Int /\ SumFunctionOnSet(f, u) \in Int
    BY <1>2, <2>4, Zenon
  <2>. HIDE DEF u
  <2>. QED BY <1>5, <1>6, <2>3, <2>4, <2>5
<1>8. CASE x \notin T
  <2>1. u \cap T = s \cap T
    BY <1>8
  <2>2. SumFunctionOnSet(f, s \cap T) <= SumFunctionOnSet(f, u)
    BY <1>5, <2>1, Zenon
  <2>3. u \in SUBSET S /\ s \cap T \in SUBSET S /\ f[x] \in Nat
    BY <1>4
  <2>4. SumFunctionOnSet(f, s \cap T) \in Int /\ SumFunctionOnSet(f, u) \in Int
    BY <1>2, <2>3, Zenon
  <2>. HIDE DEF u
  <2>. QED BY <1>6, <2>2, <2>3, <2>4
<1>. QED BY <1>7, <1>8

(* Each summand in M grows by one.                                         *)
LEMMA SumRaised ==
  ASSUME NEW f, NEW g, NEW S, IsFiniteSet(S), NEW M,
         \A x \in S : f[x] \in Int /\ g[x] = IF x \in M THEN f[x] + 1 ELSE f[x]
  PROVE  SumFunctionOnSet(g, S) = SumFunctionOnSet(f, S) + Cardinality(S \cap M)
<1>. DEFINE Odd == {u \in SUBSET S :
                      SumFunctionOnSet(g, u) # SumFunctionOnSet(f, u) + Cardinality(u \cap M)}
<1>. SUFFICES ASSUME Odd # {} PROVE FALSE
  OBVIOUS
<1>1. PICK s \in Odd : \A u \in Odd : u \subseteq s => u = s
  <2>1. Odd \subseteq SUBSET S
    OBVIOUS
  <2>. HIDE DEF Odd
  <2>. QED BY <2>1, LeastSet
<1>2. s \in SUBSET S /\ IsFiniteSet(s) /\ IsFiniteSet(s \cap M)
  BY FS_Subset, FS_Intersection
<1>3. s # {}
  <2>. SUFFICES ASSUME s = {} PROVE FALSE
    OBVIOUS
  <2>1. SumFunctionOnSet(g, s) = 0 /\ SumFunctionOnSet(f, s) = 0
    BY SumOfNone
  <2>2. s \cap M = {}
    OBVIOUS
  <2>3. Cardinality(s \cap M) = 0
    BY <2>2, FS_EmptySet
  <2>. QED BY <1>1, <2>1, <2>3
<1>4. PICK x : x \in s
  BY <1>3
<1>. DEFINE u == s \ {x}
<1>5. SumFunctionOnSet(g, u) = SumFunctionOnSet(f, u) + Cardinality(u \cap M)
  <2>1. u \in SUBSET S /\ u \subseteq s /\ u # s
    BY <1>4
  <2>. HIDE DEF u
  <2>. QED BY <1>1, <2>1
<1>6. /\ SumFunctionOnSet(f, s) = f[x] + SumFunctionOnSet(f, u)
      /\ SumFunctionOnSet(g, s) = g[x] + SumFunctionOnSet(g, u)
  <2>1. \A y \in s : f[y] \in Int /\ g[y] \in Int
    BY <1>2
  <2>. QED BY <1>2, <1>4, <2>1, SumWithout
<1>7. SumFunctionOnSet(f, u) \in Int /\ IsFiniteSet(u)
  BY <1>2, FS_Subset, SumType
<1>8. Cardinality(s \cap M) = Cardinality(u \cap M) + (IF x \in M THEN 1 ELSE 0)
  <2>1. u \cap M = (s \cap M) \ {x} /\ (x \in s \cap M <=> x \in M)
    BY <1>4
  <2>2. Cardinality((s \cap M) \ {x}) = IF x \in M THEN Cardinality(s \cap M) - 1 ELSE Cardinality(s \cap M)
    BY <1>2, <2>1, FS_RemoveElement
  <2>3. Cardinality(s \cap M) \in Nat
    BY <1>2, FS_CardinalityType
  <2>. HIDE DEF u
  <2>. QED BY <2>1, <2>2, <2>3
<1>9. f[x] \in Int /\ g[x] = f[x] + (IF x \in M THEN 1 ELSE 0) /\ Cardinality(u \cap M) \in Nat
  <2>1. x \in S
    BY <1>4
  <2>2. Cardinality(u \cap M) \in Nat
    <3>. HIDE DEF u
    <3>. QED BY <1>7, FS_Intersection, FS_CardinalityType
  <2>. QED BY <2>1, <2>2
<1>10. SumFunctionOnSet(g, s) = SumFunctionOnSet(f, s) + Cardinality(s \cap M)
  <2>. HIDE DEF u
  <2>. QED BY <1>5, <1>6, <1>7, <1>8, <1>9
<1>. QED BY <1>10

-----------------------------------------------------------------------------
(* Recursion over 0 .. n                                                   *)

(* g begins with base and takes the steps h[1] .. h[n].                    *)
Follows(g, base, h, n) ==
  g[0] = base /\ \A k \in 1 .. n : g[k] = h[k][g[k - 1]]

LEMMA RecursionExists ==
  ASSUME NEW n \in Nat, NEW V, NEW base \in V, NEW h \in [1 .. n -> [V -> V]]
  PROVE  \E g \in [0 .. n -> V] : Follows(g, base, h, n)
<1>. DEFINE Odd == {m \in 0 .. n : \A g \in [0 .. m -> V] : ~Follows(g, base, h, m)}
<1>. SUFFICES ASSUME Odd # {} PROVE FALSE
  OBVIOUS
<1>1. PICK m \in Odd : \A l \in Odd : m <= l
  <2>1. Odd \subseteq Nat
    OBVIOUS
  <2>. HIDE DEF Odd
  <2>. QED BY <2>1, LeastNumber
<1>2. m # 0
  <2>. SUFFICES ASSUME m = 0 PROVE FALSE
    OBVIOUS
  <2>1. [k \in 0 .. m |-> base] \in [0 .. m -> V] /\ Follows([k \in 0 .. m |-> base], base, h, m)
    BY DEF Follows
  <2>. QED BY <2>1
<1>3. m - 1 \in 0 .. n /\ m - 1 \notin Odd
  BY <1>1, <1>2
<1>4. PICK g \in [0 .. m - 1 -> V] : Follows(g, base, h, m - 1)
  BY <1>3
<1>5. m \in 1 .. n /\ g[m - 1] \in V
  BY <1>2
<1>. DEFINE f == [k \in 0 .. m |-> IF k = m THEN h[m][g[m - 1]] ELSE g[k]]
<1>6. f \in [0 .. m -> V]
  BY <1>2, <1>5
<1>7. Follows(f, base, h, m)
  <2>1. f[0] = base
    BY <1>2, <1>4 DEF Follows
  <2>2. ASSUME NEW k \in 1 .. m PROVE f[k] = h[k][f[k - 1]]
    <3>1. f[k - 1] = g[k - 1]
      OBVIOUS
    <3>2. CASE k = m
      <4>1. f[k] = h[k][g[k - 1]]
        BY <3>2
      <4>. HIDE DEF f
      <4>. QED BY <3>1, <4>1
    <3>3. CASE k # m
      <4>1. f[k] = g[k] /\ g[k] = h[k][g[k - 1]]
        BY <1>4, <3>3 DEF Follows
      <4>. HIDE DEF f
      <4>. QED BY <3>1, <4>1
    <3>. QED BY <3>2, <3>3
  <2>. HIDE DEF f
  <2>. QED BY <2>1, <2>2 DEF Follows
<1>. QED BY <1>6, <1>7

=============================================================================
