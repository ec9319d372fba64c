---------------------------- MODULE GraphsProofs ----------------------------
(***************************************************************************)
(* Theorems about the graphs and the functions that allplay reports, and   *)
(* what they rest on: sums over finite sets, sequences put together,       *)
(* positions in order, and neighbours grouped by a key.                    *)
(***************************************************************************)
EXTENDS AllplayProofs, WellFoundedInduction

-----------------------------------------------------------------------------
LEMMA SetInduction ==
  ASSUME NEW S \in SUBSET Nat, 0 \in S, \A n \in S : n + 1 \in S
  PROVE  S = Nat
<1> DEFINE T == Nat \ S
<1> SUFFICES ASSUME T # {} PROVE FALSE
  BY DEF T
<1>1. PICK x \in T : \A y \in T : ~ (<<y, x>> \in OpToRel(<, Nat))
  <2>1. T \subseteq Nat
    OBVIOUS
  <2> HIDE DEF T
  <2> QED
    BY <2>1, NatLessThanWellFounded, WFMin, Zenon
<1>2. \A y \in T : ~(y < x)
  BY <1>1 DEF OpToRel
<1>3. x # 0 /\ x - 1 \in Nat /\ x - 1 < x /\ (x - 1) + 1 = x
  BY DEF T
<1>4. x - 1 \in S
  BY <1>2, <1>3 DEF T
<1> QED
  BY <1>3, <1>4 DEF T

(***************************************************************************)
(* Sums over finite sets. SumStep is the equation that the fold solves.    *)
(***************************************************************************)
Chosen(s) == CHOOSE x \in s : TRUE

SumStep(N, D, g) == [s \in D |-> IF s = {} THEN 0 ELSE N[Chosen(s)] + g[s \ {Chosen(s)}]]

LEMMA SumDef ==
  ASSUME NEW N, NEW S
  PROVE  SumFunctionOnSet(N, S) = (CHOOSE g : g = SumStep(N, SUBSET S, g))[S]
BY DEF SumFunctionOnSet, FoldFunctionOnSet, MapThenFoldSet, SumStep, Chosen

LEMMA ChosenIn ==
  ASSUME NEW s, s # {}
  PROVE  Chosen(s) \in s
BY DEF Chosen

LEMMA Smaller ==
  ASSUME NEW S, IsFiniteSet(S), NEW s \in SUBSET S, NEW x \in s
  PROVE  /\ IsFiniteSet(s) /\ Cardinality(s) \in Nat /\ s \ {x} \in SUBSET S
         /\ Cardinality(s \ {x}) = Cardinality(s) - 1 /\ Cardinality(s) > 0
         /\ Cardinality(s \ {x}) \in Nat
<1>1. IsFiniteSet(s) /\ Cardinality(s) \in Nat
  BY FS_Subset, FS_CardinalityType
<1>2. Cardinality(s \ {x}) = Cardinality(s) - 1 /\ IsFiniteSet(s \ {x})
  BY <1>1, FS_RemoveElement
<1>3. Cardinality(s \ {x}) \in Nat
  BY <1>2, FS_CardinalityType
<1> QED
  BY <1>1, <1>2, <1>3

LEMMA SumSolution ==
  ASSUME NEW N, NEW S, IsFiniteSet(S)
  PROVE  \E g : g = SumStep(N, SUBSET S, g)
<1> DEFINE D(n) == {s \in SUBSET S : Cardinality(s) <= n}
           G == {n \in Nat : \E g : g = SumStep(N, D(n), g)}
<1>1. 0 \in G
  <2>1. \A s \in D(0) : s = {}
    <3> SUFFICES ASSUME NEW s \in D(0), s # {} PROVE FALSE
      OBVIOUS
    <3>1. PICK x \in s : TRUE
      OBVIOUS
    <3>2. s \in SUBSET S /\ Cardinality(s) <= 0
      OBVIOUS
    <3>3. Cardinality(s) \in Nat /\ Cardinality(s) > 0
      BY <3>1, <3>2, Smaller
    <3> QED
      BY <3>2, <3>3
  <2>2. [s \in D(0) |-> 0] = SumStep(N, D(0), [s \in D(0) |-> 0])
    BY <2>1 DEF SumStep
  <2> QED
    BY <2>2
<1>2. ASSUME NEW n \in G PROVE n + 1 \in G
  <2>1. PICK g : g = SumStep(N, D(n), g)
    OBVIOUS
  <2> DEFINE h == SumStep(N, D(n + 1), g)
  <2>2. ASSUME NEW s \in D(n + 1), s # {} PROVE s \ {Chosen(s)} \in D(n)
    <3>1. Chosen(s) \in s
      BY <2>2, ChosenIn
    <3> QED
      BY <3>1, Smaller
  <2>3. ASSUME NEW t \in D(n) PROVE h[t] = g[t]
    <3>1. t \in D(n + 1)
      <4>1. Cardinality(t) \in Nat
        BY FS_Subset, FS_CardinalityType
      <4> QED
        BY <4>1
    <3> QED
      BY <2>1, <3>1 DEF SumStep
  <2>4. h = SumStep(N, D(n + 1), h)
    <3>1. \A s \in D(n + 1) : s # {} => h[s \ {Chosen(s)}] = g[s \ {Chosen(s)}]
      BY <2>2, <2>3
    <3>2. \A s \in D(n + 1) : SumStep(N, D(n + 1), h)[s] = h[s]
      <4>1. ASSUME NEW s \in D(n + 1) PROVE SumStep(N, D(n + 1), h)[s] = h[s]
        <5>1. CASE s = {}
          BY <5>1 DEF SumStep
        <5>2. CASE s # {}
          <6>1. h[s \ {Chosen(s)}] = g[s \ {Chosen(s)}]
            BY <3>1, <4>1, <5>2
          <6> DEFINE a == N[Chosen(s)]  t == s \ {Chosen(s)}
          <6>2. h[s] = a + g[t]
            BY <4>1, <5>2 DEF SumStep
          <6>3. SumStep(N, D(n + 1), h)[s] = a + h[t]
            <7> HIDE DEF h, D
            <7> QED
              BY <4>1, <5>2 DEF SumStep
          <6> QED
            BY <6>1, <6>2, <6>3
        <5> QED
          BY <5>1, <5>2
      <4> QED
        BY <4>1
    <3>3. DOMAIN h = D(n + 1) /\ h = [s \in DOMAIN h |-> h[s]]
      BY DEF SumStep
    <3>4. DOMAIN SumStep(N, D(n + 1), h) = D(n + 1)
      BY DEF SumStep
    <3>5. SumStep(N, D(n + 1), h) = [s \in D(n + 1) |-> SumStep(N, D(n + 1), h)[s]]
      BY DEF SumStep
    <3> HIDE DEF h, D
    <3> QED
      BY <3>2, <3>3, <3>4, <3>5
  <2>5. \E f : f = SumStep(N, D(n + 1), f)
    BY <2>4
  <2>6. n + 1 \in Nat
    OBVIOUS
  <2> HIDE DEF D
  <2> QED
    BY <2>5, <2>6
<1>3. G = Nat
  <2>1. G \in SUBSET Nat
    OBVIOUS
  <2> HIDE DEF G
  <2> QED
    BY <1>1, <1>2, <2>1, SetInduction
<1>4. Cardinality(S) \in G
  BY <1>3, FS_CardinalityType
<1>5. D(Cardinality(S)) = SUBSET S
  BY FS_Subset
<1> QED
  BY <1>4, <1>5

Sums(N, S) == CHOOSE g : g = SumStep(N, SUBSET S, g)

LEMMA SumsEquation ==
  ASSUME NEW N, NEW S, IsFiniteSet(S), NEW s \in SUBSET S
  PROVE  Sums(N, S)[s] = IF s = {} THEN 0 ELSE N[Chosen(s)] + Sums(N, S)[s \ {Chosen(s)}]
<1>1. Sums(N, S) = SumStep(N, SUBSET S, Sums(N, S))
  BY SumSolution DEF Sums
<1> DEFINE g == Sums(N, S)
<1>2. g[s] = SumStep(N, SUBSET S, g)[s]
  BY <1>1
<1> HIDE DEF g
<1>3. g[s] = IF s = {} THEN 0 ELSE N[Chosen(s)] + g[s \ {Chosen(s)}]
  BY <1>2 DEF SumStep
<1> QED
  BY <1>3 DEF g

\* The sum over s does not depend on the set of which s is a part, nor on N elsewhere.
LEMMA SumsAgree ==
  ASSUME NEW N, NEW M, NEW S, NEW T, IsFiniteSet(S), IsFiniteSet(T), NEW s \in SUBSET S, s \in SUBSET T,
         \A x \in s : N[x] = M[x]
  PROVE  Sums(N, S)[s] = Sums(M, T)[s]
<1> DEFINE G == {n \in Nat : \A t \in SUBSET s : Cardinality(t) = n => Sums(N, S)[t] = Sums(M, T)[t]}
<1>0. IsFiniteSet(s) /\ Cardinality(s) \in Nat
  BY FS_Subset, FS_CardinalityType
<1>1. 0 \in G
  <2>1. ASSUME NEW t \in SUBSET s, Cardinality(t) = 0 PROVE Sums(N, S)[t] = Sums(M, T)[t]
    <3>1. t = {}
      BY <1>0, <2>1, FS_Subset, FS_EmptySet
    <3> QED
      BY <3>1, SumsEquation
  <2> QED
    BY <2>1
<1>2. ASSUME NEW n \in G PROVE n + 1 \in G
  <2>1. ASSUME NEW t \in SUBSET s, Cardinality(t) = n + 1 PROVE Sums(N, S)[t] = Sums(M, T)[t]
    <3>1. t # {}
      BY <2>1, FS_EmptySet
    <3>2. Chosen(t) \in t
      BY <3>1, ChosenIn
    <3>3. Cardinality(t \ {Chosen(t)}) = n
      BY <1>0, <2>1, <3>2, Smaller
    <3>4. Sums(N, S)[t \ {Chosen(t)}] = Sums(M, T)[t \ {Chosen(t)}]
      BY <3>3
    <3> QED
      BY <3>1, <3>2, <3>4, SumsEquation
  <2> QED
    BY <2>1
<1>3. G = Nat
  <2>1. G \in SUBSET Nat
    OBVIOUS
  <2> HIDE DEF G
  <2> QED
    BY <1>1, <1>2, <2>1, SetInduction
<1> QED
  BY <1>0, <1>3

LEMMA SumsType ==
  ASSUME NEW N, NEW S, IsFiniteSet(S), \A x \in S : N[x] \in Nat, NEW s \in SUBSET S
  PROVE  Sums(N, S)[s] \in Nat
<1> DEFINE G == {n \in Nat : \A t \in SUBSET S : Cardinality(t) = n => Sums(N, S)[t] \in Nat}
<1>1. 0 \in G
  <2>1. ASSUME NEW t \in SUBSET S, Cardinality(t) = 0 PROVE Sums(N, S)[t] \in Nat
    <3>1. t = {}
      BY <2>1, FS_Subset, FS_EmptySet
    <3>2. Sums(N, S)[t] = 0
      BY <3>1, SumsEquation
    <3> QED
      BY <3>2
  <2> QED
    BY <2>1
<1>2. ASSUME NEW n \in G PROVE n + 1 \in G
  <2>1. ASSUME NEW t \in SUBSET S, Cardinality(t) = n + 1 PROVE Sums(N, S)[t] \in Nat
    <3>1. t # {}
      BY <2>1, FS_EmptySet
    <3>2. PICK y \in t : y = Chosen(t)
      BY <3>1, ChosenIn
    <3>3. Cardinality(t \ {y}) = n /\ t \ {y} \in SUBSET S
      BY <2>1, <3>2, Smaller
    <3>4. Sums(N, S)[t \ {y}] \in Nat /\ N[y] \in Nat
      BY <3>3
    <3>5. Sums(N, S)[t] = N[y] + Sums(N, S)[t \ {y}]
      BY <3>1, <3>2, SumsEquation
    <3> QED
      BY <3>4, <3>5
  <2> QED
    BY <2>1
<1>3. G = Nat
  <2>1. G \in SUBSET Nat
    OBVIOUS
  <2> HIDE DEF G
  <2> QED
    BY <1>1, <1>2, <2>1, SetInduction
<1>4. Cardinality(s) \in Nat
  BY FS_Subset, FS_CardinalityType
<1> QED
  BY <1>3, <1>4

LEMMA SumsTake ==
  ASSUME NEW N, NEW S, IsFiniteSet(S), \A x \in S : N[x] \in Nat, NEW s \in SUBSET S, NEW x \in s
  PROVE  Sums(N, S)[s] = N[x] + Sums(N, S)[s \ {x}]
<1> DEFINE Take(t) == \A z \in t : Sums(N, S)[t] = N[z] + Sums(N, S)[t \ {z}]
           G == {n \in Nat : \A t \in SUBSET S : Cardinality(t) = n => Take(t)}
<1>1. 0 \in G
  <2>1. ASSUME NEW t \in SUBSET S, Cardinality(t) = 0 PROVE t = {}
    BY <2>1, FS_Subset, FS_EmptySet
  <2> QED
    BY <2>1
<1>2. ASSUME NEW n \in G PROVE n + 1 \in G
  <2>1. ASSUME NEW t \in SUBSET S, Cardinality(t) = n + 1, NEW z \in t
        PROVE  Sums(N, S)[t] = N[z] + Sums(N, S)[t \ {z}]
    <3>1. PICK y \in t : y = Chosen(t)
      BY ChosenIn
    <3>2. Sums(N, S)[t] = N[y] + Sums(N, S)[t \ {y}]
      BY <3>1, SumsEquation
    <3>3. CASE y = z
      BY <3>2, <3>3
    <3>4. CASE y # z
      <4>1. /\ t \ {y} \in SUBSET S /\ Cardinality(t \ {y}) = n
            /\ t \ {z} \in SUBSET S /\ Cardinality(t \ {z}) = n
        BY <2>1, Smaller
      <4>2. Take(t \ {y}) /\ Take(t \ {z})
        BY <4>1
      <4>3. Sums(N, S)[t \ {y}] = N[z] + Sums(N, S)[(t \ {y}) \ {z}]
        BY <3>4, <4>2
      <4>4. Sums(N, S)[t \ {z}] = N[y] + Sums(N, S)[(t \ {z}) \ {y}]
        BY <3>4, <4>2
      <4>5. (t \ {y}) \ {z} = (t \ {z}) \ {y} /\ (t \ {z}) \ {y} \in SUBSET S
        OBVIOUS
      <4>6. N[y] \in Nat /\ N[z] \in Nat /\ Sums(N, S)[(t \ {z}) \ {y}] \in Nat
        BY <4>5, SumsType
      <4>7. \A a, b, d \in Nat : a + (b + d) = b + (a + d)
        OBVIOUS
      <4>8. N[y] + (N[z] + Sums(N, S)[(t \ {z}) \ {y}]) = N[z] + (N[y] + Sums(N, S)[(t \ {z}) \ {y}])
        BY <4>6, <4>7
      <4> QED
        BY <3>2, <4>3, <4>4, <4>5, <4>8, Zenon
    <3> QED
      BY <3>3, <3>4
  <2> QED
    BY <2>1
<1>3. G = Nat
  <2>1. G \in SUBSET Nat
    OBVIOUS
  <2> HIDE DEF G
  <2> QED
    BY <1>1, <1>2, <2>1, SetInduction
<1>4. Cardinality(s) \in Nat
  BY FS_Subset, FS_CardinalityType
<1> QED
  BY <1>3, <1>4

LEMMA SumOfAll ==
  ASSUME NEW N, NEW S
  PROVE  Total(N, S) = Sums(N, S)[S]
BY SumDef DEF Total, Sums

LEMMA SumNone ==
  ASSUME NEW N
  PROVE  Total(N, {}) = 0
BY SumOfAll, SumsEquation, FS_EmptySet

LEMMA SumType ==
  ASSUME NEW N, NEW S, IsFiniteSet(S), \A x \in S : N[x] \in Nat
  PROVE  Total(N, S) \in Nat
BY SumOfAll, SumsType

LEMMA SumSame ==
  ASSUME NEW N, NEW M, NEW S, IsFiniteSet(S), \A x \in S : N[x] = M[x]
  PROVE  Total(N, S) = Total(M, S)
BY SumOfAll, SumsAgree

LEMMA SumTake ==
  ASSUME NEW N, NEW S, IsFiniteSet(S), \A x \in S : N[x] \in Nat, NEW x \in S
  PROVE  Total(N, S) = N[x] + Total(N, S \ {x})
<1>1. Sums(N, S)[S] = N[x] + Sums(N, S)[S \ {x}]
  BY SumsTake
<1>2. IsFiniteSet(S \ {x})
  BY FS_RemoveElement
<1>3. Sums(N, S)[S \ {x}] = Sums(N, S \ {x})[S \ {x}]
  BY <1>2, SumsAgree
<1> QED
  BY <1>1, <1>3, SumOfAll

LEMMA SumAdd ==
  ASSUME NEW N, NEW S, IsFiniteSet(S), NEW x, x \notin S, \A y \in S \cup {x} : N[y] \in Nat
  PROVE  Total(N, S \cup {x}) = N[x] + Total(N, S)
<1>1. IsFiniteSet(S \cup {x}) /\ (S \cup {x}) \ {x} = S
  BY FS_AddElement
<1> QED
  BY <1>1, SumTake

\* What holds of the empty set and is kept when an element is added holds of finite sets.
LEMMA FiniteInduction ==
  ASSUME NEW S, IsFiniteSet(S), NEW G, {} \in G,
         \A T \in SUBSET S : \A x \in S \ T : T \in G => T \cup {x} \in G
  PROVE  S \in G
<1> DEFINE H == {n \in Nat : \A T \in SUBSET S : Cardinality(T) = n => T \in G}
<1>1. 0 \in H
  <2>1. ASSUME NEW T \in SUBSET S, Cardinality(T) = 0 PROVE T = {}
    BY <2>1, FS_Subset, FS_EmptySet
  <2> QED
    BY <2>1
<1>2. ASSUME NEW n \in H PROVE n + 1 \in H
  <2>1. ASSUME NEW T \in SUBSET S, Cardinality(T) = n + 1 PROVE T \in G
    <3>0. T # {}
      <4>1. n + 1 # 0 /\ Cardinality({}) = 0
        BY FS_EmptySet
      <4> QED
        BY <2>1, <4>1
    <3>1. PICK x \in T : TRUE
      BY <3>0
    <3>2. Cardinality(T \ {x}) = n /\ T \ {x} \in SUBSET S
      BY <2>1, <3>1, Smaller
    <3>3. (T \ {x}) \cup {x} = T
      BY <3>1
    <3> QED
      BY <3>1, <3>2, <3>3
  <2> QED
    BY <2>1
<1>3. H = Nat
  <2>1. H \in SUBSET Nat
    OBVIOUS
  <2> HIDE DEF H
  <2> QED
    BY <1>1, <1>2, <2>1, SetInduction
<1>4. Cardinality(S) \in Nat
  BY FS_CardinalityType
<1> QED
  BY <1>3, <1>4

LEMMA SumUnion ==
  ASSUME NEW N, NEW S, NEW T, IsFiniteSet(S), IsFiniteSet(T), S \cap T = {},
         \A x \in S \cup T : N[x] \in Nat
  PROVE  Total(N, S \cup T) = Total(N, S) + Total(N, T)
<1> DEFINE G == {U \in SUBSET T : Total(N, S \cup U) = Total(N, S) + Total(N, U)}
<1>1. {} \in G
  <2>1. S \cup {} = S
    OBVIOUS
  <2>2. Total(N, S) \in Nat
    BY SumType
  <2> QED
    BY <2>1, <2>2, SumNone
<1>2. ASSUME NEW U \in SUBSET T, NEW x \in T \ U, U \in G PROVE U \cup {x} \in G
  <2>1. IsFiniteSet(U) /\ IsFiniteSet(S \cup U)
    BY FS_Subset, FS_Union
  <2>2. Total(N, U \cup {x}) = N[x] + Total(N, U)
    BY <2>1, SumAdd
  <2>3. Total(N, (S \cup U) \cup {x}) = N[x] + Total(N, S \cup U)
    BY <2>1, SumAdd
  <2>4. (S \cup U) \cup {x} = S \cup (U \cup {x})
    OBVIOUS
  <2>5. Total(N, S) \in Nat /\ Total(N, U) \in Nat /\ N[x] \in Nat
    BY <2>1, SumType
  <2>6. Total(N, S \cup U) = Total(N, S) + Total(N, U)
    BY <1>2
  <2>7. Total(N, S \cup (U \cup {x})) = Total(N, S) + Total(N, U \cup {x})
    <3>1. Total(N, S \cup (U \cup {x})) = N[x] + (Total(N, S) + Total(N, U))
      BY <2>3, <2>4, <2>6, Zenon
    <3>2. \A m, n, l \in Nat : l + (m + n) = m + (l + n)
      OBVIOUS
    <3> QED
      BY <2>2, <2>5, <3>1, <3>2
  <2> QED
    BY <2>7
<1>3. T \in G
  <2> HIDE DEF G
  <2> QED
    BY <1>1, <1>2, FiniteInduction
<1> QED
  BY <1>3

\* Sums are counted in any order.
LEMMA SumOrder ==
  ASSUME NEW N, NEW M, NEW S, NEW T, IsFiniteSet(S), NEW b \in [S -> T],
         \A x, y \in S : b[x] = b[y] => x = y,
         \A y \in T : \E x \in S : b[x] = y,
         \A x \in S : M[x] = N[b[x]],
         \A y \in T : N[y] \in Nat
  PROVE  Total(M, S) = Total(N, T)
<1> DEFINE image(U) == {b[x] : x \in U}
           G == {U \in SUBSET S : IsFiniteSet(image(U)) /\ Total(M, U) = Total(N, image(U))}
<1>1. {} \in G
  <2>1. image({}) = {}
    OBVIOUS
  <2> QED
    BY <2>1, SumNone, FS_EmptySet
<1>2. ASSUME NEW U \in SUBSET S, NEW x \in S \ U, U \in G PROVE U \cup {x} \in G
  <2>1. IsFiniteSet(U) /\ IsFiniteSet(image(U))
    BY <1>2, FS_Subset
  <2>2. image(U \cup {x}) = image(U) \cup {b[x]} /\ b[x] \notin image(U)
    OBVIOUS
  <2>3. \A y \in U \cup {x} : M[y] \in Nat
    OBVIOUS
  <2>4. \A y \in image(U) \cup {b[x]} : N[y] \in Nat
    OBVIOUS
  <2>5. Total(M, U \cup {x}) = M[x] + Total(M, U)
    BY <2>1, <2>3, SumAdd
  <2>6. Total(N, image(U) \cup {b[x]}) = N[b[x]] + Total(N, image(U))
    BY <2>1, <2>2, <2>4, SumAdd
  <2>7. IsFiniteSet(image(U) \cup {b[x]})
    BY <2>1, FS_AddElement
  <2>8. Total(M, U) = Total(N, image(U))
    BY <1>2
  <2>9. M[x] = N[b[x]]
    OBVIOUS
  <2>10. IsFiniteSet(image(U \cup {x})) /\ Total(M, U \cup {x}) = Total(N, image(U \cup {x}))
    BY <2>2, <2>5, <2>6, <2>7, <2>8, <2>9
  <2> QED
    BY <2>10
<1>3. S \in G
  <2> HIDE DEF G
  <2> QED
    BY <1>1, <1>2, FiniteInduction
<1>4. image(S) = T
  OBVIOUS
<1> QED
  BY <1>3, <1>4

LEMMA SumConstant ==
  ASSUME NEW N, NEW S, IsFiniteSet(S), NEW c \in Nat, \A x \in S : N[x] = c
  PROVE  Total(N, S) = c * Cardinality(S)
<1> DEFINE G == {U \in SUBSET S : Total(N, U) = c * Cardinality(U)}
<1>1. {} \in G
  BY SumNone, FS_EmptySet
<1>2. ASSUME NEW U \in SUBSET S, NEW x \in S \ U, U \in G PROVE U \cup {x} \in G
  <2>1. IsFiniteSet(U) /\ Cardinality(U) \in Nat
    BY FS_Subset, FS_CardinalityType
  <2>2. Cardinality(U \cup {x}) = Cardinality(U) + 1
    BY <2>1, FS_AddElement
  <2>3. Total(N, U \cup {x}) = c + Total(N, U)
    BY <2>1, SumAdd
  <2>4. \A n \in Nat : c + c * n = c * (n + 1)
    OBVIOUS
  <2>5. Total(N, U \cup {x}) = c * Cardinality(U \cup {x})
    BY <1>2, <2>1, <2>2, <2>3, <2>4
  <2> QED
    BY <2>5
<1>3. S \in G
  <2> HIDE DEF G
  <2> QED
    BY <1>1, <1>2, FiniteInduction
<1> QED
  BY <1>3

-----------------------------------------------------------------------------
FlatStep(ss, n, g) == [i \in 1 .. n |-> IF i = 1 THEN ss[i] ELSE g[i - 1] \o ss[i]]

LEMMA FlatDef ==
  ASSUME NEW ss, Len(ss) # 0
  PROVE  FlattenSeq(ss) = (CHOOSE g : g = FlatStep(ss, Len(ss), g))[Len(ss)]
BY DEF FlattenSeq, FlatStep

LEMMA FlatSolution ==
  ASSUME NEW ss, NEW n \in Nat
  PROVE  \E g : g = FlatStep(ss, n, g)
<1> DEFINE G == {m \in Nat : \E g : g = FlatStep(ss, m, g)}
<1>1. 0 \in G
  <2>1. [i \in 1 .. 0 |-> 0] = FlatStep(ss, 0, [i \in 1 .. 0 |-> 0])
    BY DEF FlatStep
  <2> QED
    BY <2>1
<1>2. ASSUME NEW m \in G PROVE m + 1 \in G
  <2>1. PICK g : g = FlatStep(ss, m, g)
    OBVIOUS
  <2> DEFINE h == [i \in 1 .. m + 1 |-> IF i = 1 THEN ss[i] ELSE g[i - 1] \o ss[i]]
  <2>2. \A i \in 1 .. m : h[i] = g[i]
    <3>1. \A i \in 1 .. m : g[i] = IF i = 1 THEN ss[i] ELSE g[i - 1] \o ss[i]
      BY <2>1 DEF FlatStep
    <3> QED
      BY <3>1
  <2>3. \A i \in 1 .. m + 1 : i # 1 => h[i - 1] = g[i - 1]
    <3> HIDE DEF h
    <3> QED
      BY <2>2
  <2>4. h = FlatStep(ss, m + 1, h)
    <3>1. \A i \in 1 .. m + 1 : h[i] = IF i = 1 THEN ss[i] ELSE h[i - 1] \o ss[i]
      <4>1. \A i \in 1 .. m + 1 : h[i] = IF i = 1 THEN ss[i] ELSE g[i - 1] \o ss[i]
        OBVIOUS
      <4> HIDE DEF h
      <4> QED
        BY <2>3, <4>1
    <3>2. h = [i \in 1 .. m + 1 |-> h[i]]
      OBVIOUS
    <3> HIDE DEF h
    <3> QED
      BY <3>1, <3>2 DEF FlatStep
  <2>5. \E f : f = FlatStep(ss, m + 1, f)
    <3> HIDE DEF h
    <3> QED
      BY <2>4
  <2> QED
    BY <2>5
<1>3. G = Nat
  <2>1. G \in SUBSET Nat
    OBVIOUS
  <2> HIDE DEF G
  <2> QED
    BY <1>1, <1>2, <2>1, SetInduction
<1> QED
  BY <1>3

Flats(ss) == CHOOSE g : g = FlatStep(ss, Len(ss), g)

LEMMA FlatsEquation ==
  ASSUME NEW ss, Len(ss) \in Nat, NEW i \in 1 .. Len(ss)
  PROVE  Flats(ss)[i] = IF i = 1 THEN ss[i] ELSE Flats(ss)[i - 1] \o ss[i]
<1>1. Flats(ss) = FlatStep(ss, Len(ss), Flats(ss))
  BY FlatSolution DEF Flats
<1> DEFINE g == Flats(ss)
<1>2. g[i] = FlatStep(ss, Len(ss), g)[i]
  BY <1>1
<1> HIDE DEF g
<1>3. g[i] = IF i = 1 THEN ss[i] ELSE g[i - 1] \o ss[i]
  BY <1>2 DEF FlatStep
<1> QED
  BY <1>3 DEF g

LEMMA FlatsFirst ==
  ASSUME NEW ss, Len(ss) \in Nat, Len(ss) # 0
  PROVE  Flats(ss)[1] = ss[1] /\ FlattenSeq(ss) = Flats(ss)[Len(ss)]
<1>1. FlattenSeq(ss) = Flats(ss)[Len(ss)]
  BY FlatDef, Zenon DEF Flats
<1>2. 1 \in 1 .. Len(ss)
  OBVIOUS
<1> QED
  BY <1>1, <1>2, FlatsEquation

LEMMA FlatsNext ==
  ASSUME NEW ss, Len(ss) \in Nat, NEW i \in Nat, i # 0, i < Len(ss)
  PROVE  Flats(ss)[i + 1] = Flats(ss)[i] \o ss[i + 1]
<1>1. i + 1 \in 1 .. Len(ss) /\ i + 1 # 1 /\ (i + 1) - 1 = i
  OBVIOUS
<1>2. Flats(ss)[i + 1] = Flats(ss)[(i + 1) - 1] \o ss[i + 1]
  BY <1>1, FlatsEquation, Zenon
<1> QED
  BY <1>1, <1>2

Initial(ss, n) == [i \in 1 .. n |-> ss[i]]

LEMMA FirstLen ==
  ASSUME NEW ss, NEW n \in Nat
  PROVE  Len(Initial(ss, n)) = n /\ \A i \in 1 .. n : Initial(ss, n)[i] = ss[i]
<1>1. Initial(ss, n) \in Seq({ss[i] : i \in 1 .. n})
  BY SeqDef DEF Initial
<1> QED
  BY <1>1, LenProperties DEF Initial

LEMMA FlattenNone == FlattenSeq(<<>>) = <<>>
<1>1. Len(<<>>) = 0
  BY EmptySeq
<1> QED
  BY <1>1 DEF FlattenSeq

LEMMA FlattenFirst ==
  ASSUME NEW X, NEW ss, NEW n \in Nat, \A i \in 1 .. n + 1 : ss[i] \in Seq(X)
  PROVE  FlattenSeq(Initial(ss, n + 1)) = FlattenSeq(Initial(ss, n)) \o ss[n + 1]
<1> DEFINE a == Initial(ss, n)  b == Initial(ss, n + 1)
<1>1. /\ Len(a) = n /\ \A i \in 1 .. n : a[i] = ss[i]
      /\ Len(b) = n + 1 /\ \A i \in 1 .. n + 1 : b[i] = ss[i]
  BY FirstLen
<1> HIDE DEF a, b
<1>0. Len(a) \in Nat /\ Len(a) = n /\ Len(b) \in Nat /\ Len(b) = n + 1 /\ Len(b) # 0
  BY <1>1
<1>2. CASE n = 0
  <2>1. a = <<>>
    BY <1>2 DEF a, Initial
  <2>2. Len(b) = 1 /\ Len(b) \in Nat /\ Len(b) # 0
    BY <1>1, <1>2
  <2>3. FlattenSeq(b) = b[1]
    <3>1. Flats(b)[1] = b[1] /\ FlattenSeq(b) = Flats(b)[Len(b)]
      BY <2>2, FlatsFirst
    <3> QED
      BY <2>2, <3>1
  <2>4. FlattenSeq(b) = <<>> \o ss[1]
    BY <1>1, <1>2, <2>3
  <2> QED
    BY <1>2, <2>1, <2>4, FlattenNone DEF a, b
<1>3. CASE n # 0
  <2> DEFINE G == {m \in Nat : m < n => Flats(a)[m + 1] = Flats(b)[m + 1]}
  <2>1. 0 \in G
    <3>1. Flats(a)[1] = a[1] /\ Flats(b)[1] = b[1]
      BY <1>1, <1>3, FlatsFirst
    <3> QED
      BY <1>1, <1>3, <3>1
  <2>2. ASSUME NEW m \in G PROVE m + 1 \in G
    <3>1. ASSUME m + 1 < n PROVE Flats(a)[(m + 1) + 1] = Flats(b)[(m + 1) + 1]
      <4>1. Flats(a)[m + 1] = Flats(b)[m + 1]
        BY <3>1
      <4>2. m + 1 \in Nat /\ m + 1 # 0 /\ m + 1 < n + 1 /\ (m + 1) + 1 \in 1 .. n
        BY <3>1
      <4>3. Flats(a)[(m + 1) + 1] = Flats(a)[m + 1] \o a[(m + 1) + 1]
        <5> HIDE DEF G
        <5> QED
          BY <1>0, <3>1, <4>2, FlatsNext
      <4>4. Flats(b)[(m + 1) + 1] = Flats(b)[m + 1] \o b[(m + 1) + 1]
        <5> HIDE DEF G
        <5> QED
          BY <1>0, <4>2, FlatsNext
      <4>5. a[(m + 1) + 1] = b[(m + 1) + 1]
        BY <1>1, <4>2
      <4> QED
        BY <4>1, <4>3, <4>4, <4>5
    <3>2. m + 1 \in Nat
      OBVIOUS
    <3> QED
      BY <3>1, <3>2
  <2>3. G = Nat
    <3>1. G \in SUBSET Nat
      OBVIOUS
    <3> HIDE DEF G
    <3> QED
      BY <2>1, <2>2, <3>1, SetInduction
  <2>4. Flats(a)[n] = Flats(b)[n]
    <3>1. n - 1 \in Nat /\ n - 1 < n /\ (n - 1) + 1 = n
      BY <1>3
    <3>2. n - 1 \in G
      BY <2>3, <3>1
    <3> QED
      BY <3>1, <3>2
  <2>5. FlattenSeq(a) = Flats(a)[n] /\ FlattenSeq(b) = Flats(b)[n + 1]
    <3>1. FlattenSeq(a) = Flats(a)[Len(a)]
      BY <1>0, <1>3, FlatsFirst
    <3>2. FlattenSeq(b) = Flats(b)[Len(b)]
      BY <1>0, FlatsFirst
    <3> QED
      BY <1>0, <3>1, <3>2
  <2>6. Flats(b)[n + 1] = Flats(b)[n] \o b[n + 1]
    <3>1. n < Len(b)
      BY <1>0
    <3> QED
      BY <1>0, <1>3, <3>1, FlatsNext
  <2>7. b[n + 1] = ss[n + 1]
    BY <1>1
  <2> QED
    BY <2>4, <2>5, <2>6, <2>7 DEF a, b
<1> QED
  BY <1>2, <1>3

-----------------------------------------------------------------------------
\* As many elements, in both sets.
LEMMA SameNumber ==
  ASSUME NEW S, NEW T, IsFiniteSet(S), NEW b \in [S -> T],
         \A x, y \in S : b[x] = b[y] => x = y,
         \A y \in T : \E x \in S : b[x] = y
  PROVE  IsFiniteSet(T) /\ Cardinality(T) = Cardinality(S)
<1>1. b \in Bijection(S, T)
  BY DEF Bijection, Injection, Surjection, IsInjective
<1> QED
  BY <1>1, FS_Bijection DEF ExistsBijection

UpTo(I, i) == {j \in I : j <= i}

LEMMA RankType ==
  ASSUME NEW I \in SUBSET Nat, IsFiniteSet(I), NEW i
  PROVE  /\ IsFiniteSet(UpTo(I, i)) /\ UpTo(I, i) \in SUBSET I
         /\ Cardinality(UpTo(I, i)) \in Nat /\ Cardinality(I) \in Nat
         /\ Cardinality(UpTo(I, i)) <= Cardinality(I)
<1>1. UpTo(I, i) \in SUBSET I
  BY DEF UpTo
<1> QED
  BY <1>1, FS_Subset, FS_CardinalityType

\* There are more numbers in I up to k than up to i, if k is one and is larger.
LEMMA RankGrows ==
  ASSUME NEW I \in SUBSET Nat, IsFiniteSet(I), NEW i \in Nat, NEW k \in I, i < k
  PROVE  Cardinality(UpTo(I, i)) < Cardinality(UpTo(I, k))
<1>0. k \in Nat /\ \A j \in I : j \in Nat
  OBVIOUS
<1>1. UpTo(I, i) \in SUBSET UpTo(I, k) /\ k \in UpTo(I, k) /\ k \notin UpTo(I, i)
  <2>1. \A j \in I : j <= i => j <= k
    BY <1>0
  <2>2. k <= k /\ ~(k <= i)
    BY <1>0
  <2> QED
    BY <2>1, <2>2 DEF UpTo
<1>2. Cardinality(UpTo(I, i)) <= Cardinality(UpTo(I, k)) /\ Cardinality(UpTo(I, i)) # Cardinality(UpTo(I, k))
  BY <1>1, RankType, FS_Subset
<1> QED
  BY <1>2, RankType

LEMMA RankOfNumber ==
  ASSUME NEW I \in SUBSET Nat, IsFiniteSet(I), NEW i \in I
  PROVE  Cardinality(UpTo(I, i)) \in 1 .. Cardinality(I)
<1>1. UpTo(I, i) # {}
  BY DEF UpTo
<1>2. Cardinality(UpTo(I, i)) # 0
  BY <1>1, RankType, FS_EmptySet
<1> QED
  BY <1>2, RankType

\* Every rank is that of one number.
LEMMA NthFacts ==
  ASSUME NEW I \in SUBSET Nat, IsFiniteSet(I), NEW n \in 1 .. Cardinality(I)
  PROVE  Nth(I, n) \in I /\ Nth(I, n) \in Nat /\ Cardinality(UpTo(I, Nth(I, n))) = n
<1> DEFINE r == [i \in I |-> Cardinality(UpTo(I, i))]
<1>1. r \in [I -> 1 .. Cardinality(I)]
  BY RankOfNumber
<1>2. ASSUME NEW i \in I, NEW k \in I, r[i] = r[k] PROVE i = k
  <2>1. i \in Nat /\ k \in Nat
    OBVIOUS
  <2>2. ~(i < k) /\ ~(k < i)
    BY <1>2, <2>1, RankGrows, RankType
  <2> QED
    BY <2>1, <2>2
<1>3. \A i, k \in I : r[i] = r[k] => i = k
  BY <1>2
<1>4. Cardinality(I) \in Nat /\ IsFiniteSet(1 .. Cardinality(I)) /\ Cardinality(1 .. Cardinality(I)) = Cardinality(I)
  BY FS_CardinalityType, FS_Interval
<1> HIDE DEF r
<1>5. r \in Injection(I, 1 .. Cardinality(I))
  BY <1>1, <1>3 DEF Injection, IsInjective
<1>6. r \in Surjection(I, 1 .. Cardinality(I))
  BY <1>4, <1>5, FS_Injection
<1>7. \E i \in I : r[i] = n
  BY <1>6 DEF Surjection
<1>8. \E i \in I : Cardinality(UpTo(I, i)) = n
  BY <1>7 DEF r
<1>9. Nth(I, n) \in I /\ Cardinality(UpTo(I, Nth(I, n))) = n
  BY <1>8, Zenon DEF Nth, UpTo
<1> QED
  BY <1>9

LEMMA NthOfRank ==
  ASSUME NEW I \in SUBSET Nat, IsFiniteSet(I), NEW i \in I
  PROVE  Nth(I, Cardinality(UpTo(I, i))) = i
<1> DEFINE k == Nth(I, Cardinality(UpTo(I, i)))
<1>1. k \in I /\ k \in Nat /\ Cardinality(UpTo(I, k)) = Cardinality(UpTo(I, i))
  BY RankOfNumber, NthFacts
<1> HIDE DEF k
<1>2. ~(k < i) /\ ~(i < k)
  BY <1>1, RankGrows, RankType
<1>3. i \in Nat
  OBVIOUS
<1> QED
  BY <1>1, <1>2, <1>3 DEF k

LEMMA NthGrows ==
  ASSUME NEW I \in SUBSET Nat, IsFiniteSet(I),
         NEW n \in 1 .. Cardinality(I), NEW m \in 1 .. Cardinality(I), n < m
  PROVE  Nth(I, n) < Nth(I, m)
<1> DEFINE i == Nth(I, n)  k == Nth(I, m)
<1>1. /\ i \in I /\ i \in Nat /\ Cardinality(UpTo(I, i)) = n
      /\ k \in I /\ k \in Nat /\ Cardinality(UpTo(I, k)) = m
  BY NthFacts
<1> HIDE DEF i, k
<1>2. k < i => m < n
  BY <1>1, RankGrows
<1>3. i # k
  BY <1>1
<1>4. n \in Nat /\ m \in Nat
  BY FS_CardinalityType
<1>5. i < k
  BY <1>1, <1>2, <1>3, <1>4
<1> QED
  BY <1>5 DEF i, k

(***************************************************************************)
(* Nth counts I, so that Selected has the elements at I.                   *)
(***************************************************************************)
LEMMA NthCounts ==
  ASSUME NEW I \in SUBSET Nat, IsFiniteSet(I)
  PROVE  /\ Cardinality(I) \in Nat
         /\ \A n \in 1 .. Cardinality(I) : Nth(I, n) \in I
         /\ \A n, m \in 1 .. Cardinality(I) : Nth(I, n) = Nth(I, m) => n = m
         /\ \A i \in I : \E n \in 1 .. Cardinality(I) : Nth(I, n) = i
<1>1. Cardinality(I) \in Nat
  BY FS_CardinalityType
<1>2. ASSUME NEW n \in 1 .. Cardinality(I), NEW m \in 1 .. Cardinality(I), Nth(I, n) = Nth(I, m)
      PROVE  n = m
  <2>1. ~(n < m) /\ ~(m < n)
    BY <1>2, NthGrows, NthFacts
  <2> QED
    BY <1>1, <2>1
<1>3. \A i \in I : \E n \in 1 .. Cardinality(I) : Nth(I, n) = i
  BY RankOfNumber, NthOfRank
<1> QED
  BY <1>1, <1>2, <1>3, NthFacts

-----------------------------------------------------------------------------
(***************************************************************************)
(* Groups follow each other; the n-th is of neighbours from a[n] to b[n].  *)
(***************************************************************************)
Grouping(s, key, k, a, b) ==
  /\ k \in Nat /\ a \in [1 .. k -> 1 .. Len(s)] /\ b \in [1 .. k -> 1 .. Len(s)]
  /\ DOMAIN GroupBy(s, key) = 1 .. k
  /\ \A n \in 1 .. k : GroupBy(s, key)[n] = SubSeq(s, a[n], b[n])
  /\ \A n \in 1 .. k : a[n] <= b[n]
  /\ \A n, m \in 1 .. k : n < m => b[n] < a[m]
  /\ \A i \in 1 .. Len(s) : \E n \in 1 .. k : i \in a[n] .. b[n]
  /\ \A n \in 1 .. k : \A i \in a[n] .. b[n] : s[i][key] = s[a[n]][key]
  /\ \A n \in 1 .. k : a[n] # 1 => s[a[n] - 1][key] # s[a[n]][key]

LEMMA GroupFacts ==
  ASSUME NEW X, NEW s \in Seq(X), NEW key
  PROVE  \E k, a, b : Grouping(s, key, k, a, b)
<1> DEFINE S == {i \in DOMAIN s : i = 1 \/ s[i - 1][key] # s[i][key]}
           T == S \cup {Len(s) + 1}
           k == Cardinality(S)
           e == [n \in 1 .. k + 1 |-> Nth(T, n)]
<1>1. Len(s) \in Nat /\ DOMAIN s = 1 .. Len(s)
  BY LenProperties
<1>2. S \in SUBSET (1 .. Len(s)) /\ T \in SUBSET (1 .. Len(s) + 1) /\ T \in SUBSET Nat /\ Len(s) + 1 \notin S
  BY <1>1
<1>3. IsFiniteSet(S) /\ k \in Nat /\ IsFiniteSet(T) /\ Cardinality(T) = k + 1
  <2>1. IsFiniteSet(1 .. Len(s))
    BY <1>1, FS_Interval
  <2>2. IsFiniteSet(S)
    BY <1>2, <2>1, FS_Subset
  <2> QED
    BY <1>2, <2>2, FS_CardinalityType, FS_AddElement
<1>4. \A i \in S : i = 1 \/ s[i - 1][key] # s[i][key]
  OBVIOUS
<1>5. \A i \in 1 .. Len(s) : i \notin S => i # 1 /\ s[i - 1][key] = s[i][key]
  BY <1>1
<1>6. \A n \in 1 .. k + 1 : e[n] = Nth(T, n)
  OBVIOUS
<1>7. DOMAIN GroupBy(s, key) = 1 .. k
  BY DEF GroupBy
<1>8. \A n \in 1 .. k : GroupBy(s, key)[n] = SubSeq(s, Nth(T, n), Nth(T, n + 1) - 1)
  BY DEF GroupBy
<1>9. e = [n \in 1 .. k + 1 |-> Nth(T, n)]
  OBVIOUS
<1> HIDE DEF S, k
<1>10. \A n \in 1 .. k + 1 : e[n] \in T /\ e[n] \in Nat /\ Cardinality(UpTo(T, e[n])) = n
  <2> HIDE DEF T, e
  <2> QED
    BY <1>2, <1>3, <1>6, NthFacts
<1>11. \A n \in 1 .. k : n \in 1 .. k + 1 /\ n + 1 \in 1 .. k + 1 /\ n < n + 1
  BY <1>3
<1>12. ASSUME NEW n \in 1 .. k PROVE e[n] < e[n + 1] /\ e[n] \in S /\ e[n + 1] <= Len(s) + 1
  <2> HIDE DEF T, e
  <2>1. e[n] < e[n + 1]
    BY <1>2, <1>3, <1>6, <1>11, NthGrows
  <2>2. e[n + 1] \in 1 .. Len(s) + 1 /\ e[n] \in T
    BY <1>2, <1>10, <1>11
  <2>3. e[n] # Len(s) + 1
    BY <1>1, <2>1, <2>2
  <2>4. e[n] \in S
    BY <2>2, <2>3 DEF T
  <2> QED
    BY <2>1, <2>2, <2>4
<1>13. e \in [1 .. k + 1 -> 1 .. Len(s) + 1]
  BY <1>2, <1>9, <1>10
<1> HIDE DEF e
<1>14. ASSUME NEW i \in 1 .. Len(s)
       PROVE  \E n \in 1 .. k : e[n] <= i /\ i < e[n + 1]
  <2> DEFINE n == Cardinality(UpTo(T, i))
  <2>1. UpTo(T, i) \in SUBSET S
    BY <1>1 DEF UpTo, T
  <2>2. n <= k /\ n \in Nat
    <3> HIDE DEF T
    <3> QED
      BY <1>2, <1>3, <2>1, RankType, FS_Subset DEF k
  <2>3. 1 \in UpTo(T, i)
    <3>1. 1 \in 1 .. Len(s)
      BY <1>1
    <3>2. 1 \in S
      BY <1>5, <3>1
    <3> QED
      BY <1>1, <3>2 DEF UpTo, T
  <2> HIDE DEF T
  <2>4. n # 0
    BY <1>2, <1>3, <2>3, RankType, FS_EmptySet
  <2>5. n \in 1 .. k /\ n + 1 \in 1 .. k + 1
    BY <1>3, <2>2, <2>4
  <2>6. /\ e[n] \in Nat /\ e[n] \in T /\ Cardinality(UpTo(T, e[n])) = n
        /\ e[n + 1] \in Nat /\ e[n + 1] \in T /\ Cardinality(UpTo(T, e[n + 1])) = n + 1
    BY <1>10, <1>11, <2>5
  <2>7. ~(i < e[n])
    <3>1. ASSUME i < e[n] PROVE n < n
      <4>1. Cardinality(UpTo(T, i)) < Cardinality(UpTo(T, e[n]))
        BY <1>2, <1>3, <2>6, <3>1, RankGrows
      <4> QED
        BY <2>6, <4>1
    <3> QED
      BY <2>2, <3>1
  <2>8. ~(e[n + 1] <= i)
    <3>1. ASSUME e[n + 1] <= i PROVE n + 1 <= n
      <4>1. \A j \in T : j <= e[n + 1] => j <= i
        BY <1>2, <2>6, <3>1
      <4>2. UpTo(T, e[n + 1]) \in SUBSET UpTo(T, i)
        BY <4>1 DEF UpTo
      <4>3. Cardinality(UpTo(T, e[n + 1])) <= Cardinality(UpTo(T, i))
        BY <1>2, <1>3, <4>2, RankType, FS_Subset
      <4> QED
        BY <2>6, <4>3
    <3> QED
      BY <2>2, <3>1
  <2> HIDE DEF n
  <2>9. e[n] <= i /\ i < e[n + 1]
    BY <1>1, <2>6, <2>7, <2>8
  <2> QED
    BY <2>5, <2>9
<1>15. ASSUME NEW n \in 1 .. k, NEW i \in Nat, e[n] < i, i < e[n + 1]
       PROVE  s[i - 1][key] = s[i][key]
  <2>1. i \in 1 .. Len(s)
    <3>1. e[n] \in Nat /\ e[n + 1] \in Nat /\ e[n + 1] <= Len(s) + 1
      BY <1>10, <1>11, <1>12
    <3> QED
      BY <1>1, <1>15, <3>1
  <2>2. ASSUME i \in S PROVE FALSE
    <3>1. i \in T
      BY <2>2 DEF T
    <3> HIDE DEF T
    <3>2. Cardinality(UpTo(T, e[n])) = n /\ Cardinality(UpTo(T, e[n + 1])) = n + 1
          /\ e[n] \in Nat /\ e[n + 1] \in T /\ n + 1 \in Nat /\ n \in Nat
      BY <1>3, <1>10, <1>11
    <3>3. n < Cardinality(UpTo(T, i)) /\ Cardinality(UpTo(T, i)) < n + 1
      BY <1>2, <1>3, <1>15, <3>1, <3>2, RankGrows
    <3>4. Cardinality(UpTo(T, i)) \in Nat
      BY <1>2, <1>3, RankType
    <3> QED
      BY <3>2, <3>3, <3>4
  <2> QED
    BY <1>5, <2>1, <2>2
<1>16. ASSUME NEW n \in 1 .. k, NEW i \in e[n] .. e[n + 1] - 1
       PROVE  s[i][key] = s[e[n]][key]
  <2> DEFINE G == {d \in Nat : e[n] + d < e[n + 1] => s[e[n] + d][key] = s[e[n]][key]}
  <2>1. e[n] \in Nat /\ e[n + 1] \in Nat
    BY <1>10, <1>11
  <2>2. 0 \in G
    BY <2>1
  <2>3. ASSUME NEW d \in G PROVE d + 1 \in G
    <3>1. d \in Nat /\ e[n] + (d + 1) \in Nat /\ e[n] < e[n] + (d + 1) /\ (e[n] + (d + 1)) - 1 = e[n] + d
      BY <2>1
    <3>2. ASSUME e[n] + (d + 1) < e[n + 1] PROVE s[e[n] + (d + 1)][key] = s[e[n]][key]
      <4>1. s[e[n] + d][key] = s[e[n] + (d + 1)][key]
        BY <1>15, <3>1, <3>2
      <4>2. e[n] + d < e[n + 1]
        BY <2>1, <3>1, <3>2
      <4>3. s[e[n] + d][key] = s[e[n]][key]
        BY <4>2
      <4> QED
        BY <4>1, <4>3
    <3> QED
      BY <3>1, <3>2
  <2>4. G = Nat
    <3>1. G \in SUBSET Nat
      OBVIOUS
    <3> HIDE DEF G
    <3> QED
      BY <2>2, <2>3, <3>1, SetInduction
  <2>5. i - e[n] \in Nat /\ e[n] + (i - e[n]) = i /\ i < e[n + 1]
    BY <2>1
  <2>6. i - e[n] \in G
    BY <2>4, <2>5
  <2> QED
    BY <2>5, <2>6
<1>17. ASSUME NEW n \in 1 .. k + 1, NEW m \in 1 .. k + 1, n < m
       PROVE  e[n] < e[m]
  <2> HIDE DEF T
  <2> QED
    BY <1>2, <1>3, <1>6, <1>17, NthGrows
<1>18. \A n \in 1 .. k : GroupBy(s, key)[n] = SubSeq(s, e[n], e[n + 1] - 1)
  BY <1>6, <1>8, <1>11
<1>19. \A n \in 1 .. k : e[n] # 1 => s[e[n] - 1][key] # s[e[n]][key]
  BY <1>4, <1>12
<1> HIDE DEF T
<1> DEFINE a == [n \in 1 .. k |-> e[n]]
           b == [n \in 1 .. k |-> e[n + 1] - 1]
<1>20. ASSUME NEW n \in 1 .. k
       PROVE  /\ e[n] \in 1 .. Len(s) /\ e[n + 1] - 1 \in 1 .. Len(s) /\ e[n] <= e[n + 1] - 1
              /\ e[n] \in Nat /\ e[n + 1] \in Nat
  BY <1>1, <1>11, <1>12, <1>13
<1>21. ASSUME NEW n \in 1 .. k, NEW m \in 1 .. k, n < m
       PROVE  e[n + 1] - 1 < e[m]
  <2>1. CASE n + 1 = m
    BY <1>20, <2>1
  <2>2. CASE n + 1 # m
    <3>1. e[n + 1] < e[m]
      BY <1>3, <1>11, <1>17, <1>21, <2>2
    <3> QED
      BY <1>20, <3>1
  <2> QED
    BY <2>1, <2>2
<1>22. ASSUME NEW i \in 1 .. Len(s) PROVE \E n \in 1 .. k : i \in e[n] .. e[n + 1] - 1
  <2>1. PICK n \in 1 .. k : e[n] <= i /\ i < e[n + 1]
    BY <1>14
  <2>2. i \in e[n] .. e[n + 1] - 1
    BY <1>1, <1>20, <2>1
  <2> QED
    BY <2>2
<1>23. \A n \in 1 .. k : a[n] = e[n] /\ b[n] = e[n + 1] - 1
  OBVIOUS
<1>24. a \in [1 .. k -> 1 .. Len(s)] /\ b \in [1 .. k -> 1 .. Len(s)]
  BY <1>20
<1> HIDE DEF a, b
<1>25. Grouping(s, key, k, a, b)
  <2>1. \A n \in 1 .. k : GroupBy(s, key)[n] = SubSeq(s, a[n], b[n])
    BY <1>18, <1>23
  <2>2. \A n \in 1 .. k : a[n] <= b[n]
    BY <1>20, <1>23
  <2>3. \A n, m \in 1 .. k : n < m => b[n] < a[m]
    BY <1>21, <1>23
  <2>4. \A i \in 1 .. Len(s) : \E n \in 1 .. k : i \in a[n] .. b[n]
    BY <1>22, <1>23
  <2>5. \A n \in 1 .. k : \A i \in a[n] .. b[n] : s[i][key] = s[a[n]][key]
    BY <1>16, <1>23
  <2>6. \A n \in 1 .. k : a[n] # 1 => s[a[n] - 1][key] # s[a[n]][key]
    BY <1>19, <1>23
  <2> QED
    BY <1>3, <1>7, <1>24, <2>1, <2>2, <2>3, <2>4, <2>5, <2>6 DEF Grouping
<1> QED
  BY <1>25

-----------------------------------------------------------------------------
IsFuncs(fs) ==
  /\ Len(fs) \in Nat /\ DOMAIN fs = 1 .. Len(fs)
  /\ \A i \in DOMAIN fs : fs[i].insts \in Nat /\ fs[i].hash \in Nat

Ascending(fs) == \A i, j \in DOMAIN fs : i <= j => fs[i].hash <= fs[j].hash

Insts(fs) == [i \in DOMAIN fs |-> fs[i].insts]

With(fs, h) == {i \in DOMAIN fs : fs[i].hash = h}

LEMMA InstsType ==
  ASSUME NEW fs, IsFuncs(fs), NEW I \in SUBSET DOMAIN fs
  PROVE  /\ IsFiniteSet(I) /\ Cardinality(I) \in Nat
         /\ \A i \in DOMAIN fs : Insts(fs)[i] = fs[i].insts /\ Insts(fs)[i] \in Nat
         /\ Total(Insts(fs), I) \in Nat
<1>1. IsFiniteSet(DOMAIN fs)
  BY FS_Interval DEF IsFuncs
<1>2. IsFiniteSet(I) /\ Cardinality(I) \in Nat
  BY <1>1, FS_Subset, FS_CardinalityType
<1>3. \A i \in DOMAIN fs : Insts(fs)[i] = fs[i].insts /\ Insts(fs)[i] \in Nat
  BY DEF Insts, IsFuncs
<1> QED
  BY <1>2, <1>3, SumType

\* The instructions of functions that follow each other in fs.
LEMMA CountPart ==
  ASSUME NEW fs, IsFuncs(fs), NEW g, NEW n \in Nat, NEW a \in Int, DOMAIN g = 1 .. n,
         \A j \in 1 .. n : a + j \in DOMAIN fs /\ g[j] = fs[a + j]
  PROVE  InstCount(g) = Total(Insts(fs), a + 1 .. a + n)
<1> DEFINE b == [j \in 1 .. n |-> a + j]
           M == [j \in DOMAIN g |-> g[j].insts]
           T == a + 1 .. a + n
<1>1. b \in [1 .. n -> T]
  OBVIOUS
<1>2. \A x, y \in 1 .. n : b[x] = b[y] => x = y
  OBVIOUS
<1>3. \A y \in T : \E x \in 1 .. n : b[x] = y
  <2> SUFFICES ASSUME NEW y \in T PROVE \E x \in 1 .. n : b[x] = y
    OBVIOUS
  <2>1. y - a \in 1 .. n /\ b[y - a] = y
    OBVIOUS
  <2> QED
    BY <2>1
<1>4. \A y \in T : y \in DOMAIN fs
  <2> HIDE DEF b, T
  <2>1. \A x \in 1 .. n : b[x] = a + x
    BY DEF b
  <2> QED
    BY <1>3, <2>1
<1>5. \A x \in 1 .. n : M[x] = Insts(fs)[b[x]]
  BY DEF Insts
<1>6. \A y \in T : Insts(fs)[y] \in Nat
  BY <1>4, InstsType
<1>7. IsFiniteSet(1 .. n)
  BY FS_Interval
<1> HIDE DEF b, M, T
<1>8. Total(M, 1 .. n) = Total(Insts(fs), T)
  <2> DEFINE N == Insts(fs)
             I == 1 .. n
  <2>1. /\ IsFiniteSet(I) /\ b \in [I -> T]
        /\ \A x, y \in I : b[x] = b[y] => x = y
        /\ \A y \in T : \E x \in I : b[x] = y
        /\ \A x \in I : M[x] = N[b[x]]
        /\ \A y \in T : N[y] \in Nat
    BY <1>1, <1>2, <1>3, <1>5, <1>6, <1>7
  <2> HIDE DEF N, I
  <2>2. Total(M, I) = Total(N, T)
    BY <2>1, SumOrder
  <2> QED
    BY <2>2 DEF N, I
<1> QED
  BY <1>8 DEF InstCount, M, T

(***************************************************************************)
(* Where the functions are in the order of their hashes, the n-th group is *)
(* all the functions of one hash, and another one for each n.              *)
(***************************************************************************)
GroupOf(fs, g) ==
  LET I == With(fs, g[1].hash)
  IN  /\ DOMAIN g = 1 .. Len(g) /\ Len(g) \in Nat \ {0}
      /\ \A j \in DOMAIN g : \E i \in I : g[j] = fs[i]
      /\ Len(g) = Cardinality(I)
      /\ InstCount(g) = Total(Insts(fs), I)
      /\ InstCount(Tail(g)) = Total(Insts(fs), I) - g[1].insts
      /\ Sources(g) = {fs[i].source : i \in I}

LEMMA HashGroups ==
  ASSUME NEW X, NEW fs \in Seq(X), IsFuncs(fs), Ascending(fs)
  PROVE  LET gs == GroupBy(fs, "hash")
         IN  /\ \E k \in Nat : DOMAIN gs = 1 .. k
             /\ \A n \in DOMAIN gs : GroupOf(fs, gs[n])
             /\ \A n, m \in DOMAIN gs : gs[n][1].hash = gs[m][1].hash => n = m
             /\ \A i \in DOMAIN fs : \E n \in DOMAIN gs : gs[n][1].hash = fs[i].hash
<1> DEFINE gs == GroupBy(fs, "hash")
<1>1. PICK k, a, b : Grouping(fs, "hash", k, a, b)
  BY GroupFacts
<1>2. /\ k \in Nat /\ a \in [1 .. k -> 1 .. Len(fs)] /\ b \in [1 .. k -> 1 .. Len(fs)]
      /\ DOMAIN gs = 1 .. k
      /\ \A n \in 1 .. k : gs[n] = SubSeq(fs, a[n], b[n])
      /\ \A n \in 1 .. k : a[n] <= b[n]
      /\ \A n, m \in 1 .. k : n < m => b[n] < a[m]
      /\ \A i \in 1 .. Len(fs) : \E n \in 1 .. k : i \in a[n] .. b[n]
      /\ \A n \in 1 .. k : \A i \in a[n] .. b[n] : fs[i].hash = fs[a[n]].hash
      /\ \A n \in 1 .. k : a[n] # 1 => fs[a[n] - 1].hash # fs[a[n]].hash
  BY <1>1 DEF Grouping
<1> HIDE DEF gs
<1>3. Len(fs) \in Nat /\ DOMAIN fs = 1 .. Len(fs) /\ \A i \in DOMAIN fs : fs[i].hash \in Nat /\ fs[i].insts \in Nat
  BY DEF IsFuncs
<1>4. ASSUME NEW n \in 1 .. k
      PROVE  /\ a[n] \in Nat \ {0} /\ b[n] \in Nat \ {0} /\ a[n] <= b[n]
             /\ a[n] \in DOMAIN fs /\ b[n] \in DOMAIN fs /\ a[n] \in a[n] .. b[n]
             /\ \A i \in a[n] .. b[n] : i \in DOMAIN fs
  <2>1. a[n] \in 1 .. Len(fs) /\ b[n] \in 1 .. Len(fs) /\ a[n] <= b[n]
    BY <1>2
  <2> QED
    BY <1>3, <2>1
<1> DEFINE h(n) == fs[a[n]].hash
<1>5. ASSUME NEW n \in 1 .. k, NEW m \in 1 .. k, n < m
      PROVE  h(n) < h(m)
  <2>1. b[n] < a[m]
    BY <1>2, <1>5
  <2>2. a[m] - 1 \in DOMAIN fs /\ a[n] <= a[m] - 1 /\ a[m] - 1 <= a[m] /\ a[m] # 1
    BY <1>3, <1>4, <2>1
  <2>3. fs[a[n]].hash <= fs[a[m] - 1].hash /\ fs[a[m] - 1].hash <= fs[a[m]].hash
    BY <1>4, <2>2 DEF Ascending
  <2>4. fs[a[m] - 1].hash # fs[a[m]].hash
    BY <1>2, <2>2
  <2>5. fs[a[n]].hash \in Nat /\ fs[a[m] - 1].hash \in Nat /\ fs[a[m]].hash \in Nat
    BY <1>3, <1>4, <2>2
  <2>6. \A x, y, z \in Nat : x <= y /\ y <= z /\ y # z => x < z
    OBVIOUS
  <2> QED
    BY <2>3, <2>4, <2>5, <2>6
<1>6. ASSUME NEW n \in 1 .. k, NEW m \in 1 .. k, h(n) = h(m)
      PROVE  n = m
  <2>1. h(n) \in Nat /\ h(m) \in Nat
    BY <1>3, <1>4
  <2>2. ~(n < m) /\ ~(m < n)
    BY <1>5, <1>6, <2>1
  <2> QED
    BY <2>2
<1>7. ASSUME NEW n \in 1 .. k
      PROVE  With(fs, h(n)) = a[n] .. b[n]
  <2>1. ASSUME NEW i \in DOMAIN fs, fs[i].hash = h(n) PROVE i \in a[n] .. b[n]
    <3>1. PICK m \in 1 .. k : i \in a[m] .. b[m]
      BY <1>2, <1>3
    <3>2. fs[i].hash = h(m)
      BY <1>2, <3>1
    <3>3. m = n
      BY <1>6, <2>1, <3>2
    <3> QED
      BY <3>1, <3>3
  <2>2. ASSUME NEW i \in a[n] .. b[n] PROVE i \in DOMAIN fs /\ fs[i].hash = h(n)
    BY <1>2, <1>4
  <2> QED
    BY <2>1, <2>2 DEF With
<1>8. ASSUME NEW n \in 1 .. k
      PROVE  GroupOf(fs, gs[n]) /\ gs[n][1].hash = h(n)
  <2> DEFINE g == gs[n]
             o == a[n] - 1
             len == b[n] - (a[n] - 1)
  <2>1. o \in Nat /\ len \in Nat \ {0} /\ o + 1 = a[n] /\ o + len = b[n]
    <3>1. \A x, y \in Nat \ {0} : x <= y =>
            /\ x - 1 \in Nat /\ y - (x - 1) \in Nat \ {0}
            /\ (x - 1) + 1 = x /\ (x - 1) + (y - (x - 1)) = y
      OBVIOUS
    <3> QED
      BY <1>4, <3>1
  <2>2. g = SubSeq(fs, o + 1, o + len)
    BY <1>2, <2>1
  <2>3. \A i \in o + 1 .. o + len : i \in DOMAIN fs
    BY <1>4, <2>1
  <2> HIDE DEF g, o, len
  <2>4. \A i \in o + 1 .. o + len : fs[i] \in X
    BY <2>3, ElementOfSeq, <1>3
  <2>5. /\ o + 1 \in Int /\ o + len \in Int /\ o + 1 <= o + len
        /\ (o + len) - (o + 1) + 1 = len
        /\ \A i \in 1 .. len : (o + 1) + i - 1 = o + i /\ o + i \in o + 1 .. o + len
    <3>1. o \in Nat /\ len \in Nat /\ len >= 1
      BY <2>1
    <3> QED
      BY <3>1
  <2>6. g \in Seq(X) /\ Len(g) = len /\ \A i \in 1 .. len : g[i] = fs[o + i]
    <3> DEFINE from == o + 1
               to == o + len
    <3>1. /\ from \in Int /\ to \in Int /\ from <= to /\ to - from + 1 = len
          /\ \A i \in from .. to : fs[i] \in X
          /\ \A i \in 1 .. len : from + i - 1 = o + i
      BY <2>4, <2>5
    <3> HIDE DEF from, to
    <3>2. /\ SubSeq(fs, from, to) \in Seq(X) /\ Len(SubSeq(fs, from, to)) = to - from + 1
          /\ \A i \in 1 .. to - from + 1 : SubSeq(fs, from, to)[i] = fs[from + i - 1]
      BY <3>1, SubSeqProperties
    <3> QED
      BY <2>2, <3>1, <3>2 DEF from, to
  <2>7. DOMAIN g = 1 .. len
    BY <2>6, LenProperties
  <2>8. h(n) = fs[o + 1].hash /\ g[1] = fs[o + 1] /\ g[1].hash = h(n) /\ 1 \in 1 .. len
    BY <2>1, <2>6
  <2>9. With(fs, h(n)) = o + 1 .. o + len
    BY <1>7, <2>1
  <2>10. Len(g) = Cardinality(With(fs, h(n)))
    BY <2>1, <2>5, <2>6, <2>9, FS_Interval
  <2>11. \A j \in 1 .. len : o + j \in DOMAIN fs
    BY <2>3, <2>5
  <2>12. InstCount(g) = Total(Insts(fs), With(fs, h(n)))
    <3>1. len \in Nat /\ o \in Int
      BY <2>1
    <3>2. \A j \in 1 .. len : o + j \in DOMAIN fs /\ g[j] = fs[o + j]
      BY <2>6, <2>11
    <3>3. InstCount(g) = Total(Insts(fs), o + 1 .. o + len)
      BY <2>7, <3>1, <3>2, CountPart
    <3> QED
      BY <2>9, <3>3, Zenon
  <2>13. InstCount(Tail(g)) = Total(Insts(fs), With(fs, h(n))) - g[1].insts
    <3> DEFINE t == Tail(g)
    <3>1. g # <<>>
      BY <2>1, <2>6, EmptySeq
    <3>2. t \in Seq(X) /\ Len(t) = len - 1 /\ \A i \in 1 .. Len(t) : t[i] = g[i + 1]
      BY <2>6, <3>1, HeadTailProperties
    <3>3. DOMAIN t = 1 .. len - 1
      BY <3>2, LenProperties
    <3> HIDE DEF t
    <3>4. len - 1 \in Nat /\ o + 1 \in Int
          /\ \A i \in 1 .. len - 1 : i + 1 \in 1 .. len /\ (o + 1) + i = o + (i + 1)
      BY <2>1
    <3>5. \A i \in 1 .. len - 1 : (o + 1) + i \in DOMAIN fs /\ t[i] = fs[(o + 1) + i]
      BY <2>6, <2>11, <3>2, <3>4
    <3>6. InstCount(t) = Total(Insts(fs), (o + 1) + 1 .. (o + 1) + (len - 1))
      <4> DEFINE c == o + 1
                 l == len - 1
      <4>1. l \in Nat /\ c \in Int /\ DOMAIN t = 1 .. l /\ \A i \in 1 .. l : c + i \in DOMAIN fs /\ t[i] = fs[c + i]
        BY <3>3, <3>4, <3>5
      <4> HIDE DEF c, l
      <4>2. InstCount(t) = Total(Insts(fs), c + 1 .. c + l)
        BY <4>1, CountPart
      <4> QED
        BY <4>2 DEF c, l
    <3>7. (o + 1) + 1 .. (o + 1) + (len - 1) = With(fs, h(n)) \ {o + 1} /\ o + 1 \in With(fs, h(n))
      BY <2>1, <2>9
    <3>8. With(fs, h(n)) \in SUBSET DOMAIN fs
      BY DEF With
    <3>9. Total(Insts(fs), With(fs, h(n))) = Insts(fs)[o + 1] + Total(Insts(fs), With(fs, h(n)) \ {o + 1})
      <4> DEFINE I == With(fs, h(n))
      <4>1. IsFiniteSet(I) /\ \A i \in I : Insts(fs)[i] \in Nat
        BY <3>8, InstsType
      <4> HIDE DEF I
      <4>2. o + 1 \in I
        BY <3>7 DEF I
      <4>3. Total(Insts(fs), I) = Insts(fs)[o + 1] + Total(Insts(fs), I \ {o + 1})
        BY <4>1, <4>2, SumTake
      <4> QED
        BY <4>3 DEF I
    <3>10. /\ Insts(fs)[o + 1] = g[1].insts /\ Insts(fs)[o + 1] \in Nat
           /\ Total(Insts(fs), With(fs, h(n)) \ {o + 1}) \in Nat
      <4>1. With(fs, h(n)) \ {o + 1} \in SUBSET DOMAIN fs /\ o + 1 \in DOMAIN fs
        BY <3>7, <3>8
      <4> QED
        BY <2>8, <4>1, InstsType
    <3>11. \A x, y, z \in Nat : z = x + y => y = z - x
      OBVIOUS
    <3>12. Total(Insts(fs), With(fs, h(n))) \in Nat
      BY <3>8, InstsType
    <3>13. InstCount(t) = Total(Insts(fs), With(fs, h(n)) \ {o + 1})
      BY <3>6, <3>7, Zenon
    <3>14. Total(Insts(fs), With(fs, h(n))) = g[1].insts + InstCount(t)
      BY <3>9, <3>10, <3>13, Zenon
    <3>15. g[1].insts \in Nat /\ InstCount(t) \in Nat
      BY <3>10, <3>13, Zenon
    <3>16. InstCount(t) = Total(Insts(fs), With(fs, h(n))) - g[1].insts
      BY <3>11, <3>12, <3>14, <3>15, Zenon
    <3> QED
      BY <3>16 DEF t
  <2>14. \A j \in 1 .. len : \E i \in With(fs, h(n)) : g[j] = fs[i]
    BY <2>5, <2>6, <2>9
  <2>15. \A i \in With(fs, h(n)) : \E j \in 1 .. len : g[j] = fs[i]
    <3> SUFFICES ASSUME NEW i \in With(fs, h(n)) PROVE \E j \in 1 .. len : g[j] = fs[i]
      OBVIOUS
    <3>1. i - o \in 1 .. len /\ o + (i - o) = i
      BY <2>1, <2>9
    <3> QED
      BY <2>6, <3>1
  <2>16. Sources(g) = {fs[i].source : i \in With(fs, h(n))}
    <3>1. \A x \in Sources(g) : x \in {fs[i].source : i \in With(fs, h(n))}
      BY <2>7, <2>14 DEF Sources
    <3>2. \A x \in {fs[i].source : i \in With(fs, h(n))} : x \in Sources(g)
      BY <2>7, <2>15 DEF Sources
    <3> QED
      BY <3>1, <3>2
  <2> HIDE DEF h
  <2>17. GroupOf(fs, g)
    BY <2>1, <2>6, <2>7, <2>8, <2>10, <2>12, <2>13, <2>14, <2>16 DEF GroupOf
  <2> QED
    BY <2>8, <2>17 DEF g
<1>9. ASSUME NEW i \in DOMAIN fs PROVE \E n \in 1 .. k : h(n) = fs[i].hash
  <2>1. PICK n \in 1 .. k : i \in a[n] .. b[n]
    BY <1>2, <1>3
  <2> QED
    BY <1>2, <2>1
<1> HIDE DEF h
<1>10. \A n, m \in 1 .. k : gs[n][1].hash = gs[m][1].hash => n = m
  BY <1>6, <1>8, Zenon
<1>11. \A i \in DOMAIN fs : \E n \in 1 .. k : gs[n][1].hash = fs[i].hash
  <2> SUFFICES ASSUME NEW i \in DOMAIN fs PROVE \E n \in 1 .. k : gs[n][1].hash = fs[i].hash
    OBVIOUS
  <2>1. PICK n \in 1 .. k : h(n) = fs[i].hash
    BY <1>9
  <2> QED
    BY <1>8, <2>1, Zenon
<1>12. \A n \in 1 .. k : GroupOf(fs, gs[n])
  BY <1>8
<1> QED
  BY <1>2, <1>10, <1>11, <1>12, Zenon DEF gs

(***************************************************************************)
(* Where the sequences of ss are in FlattenSeq(ss): ss[i] after off[i].    *)
(***************************************************************************)
Placed(ss, n, off) ==
  LET flat == FlattenSeq(Initial(ss, n))
  IN  /\ off \in [1 .. n + 1 -> Nat] /\ off[1] = 0
      /\ \A i \in 1 .. n : off[i + 1] = off[i] + Len(ss[i])
      /\ IsTable(flat) /\ Len(flat) = off[n + 1]
      /\ \A i \in 1 .. n : \A j \in 1 .. Len(ss[i]) :
           off[i] + j \in 1 .. Len(flat) /\ flat[off[i] + j] = ss[i][j]
      /\ \A p \in 1 .. Len(flat) : \E i \in 1 .. n : \E j \in 1 .. Len(ss[i]) : p = off[i] + j

LEMMA PlacedFirst ==
  ASSUME NEW ss
  PROVE  Placed(ss, 0, [i \in 1 .. 1 |-> 0])
<1>1. Initial(ss, 0) = <<>>
  BY DEF Initial
<1>2. FlattenSeq(Initial(ss, 0)) = <<>>
  BY <1>1, FlattenNone
<1>3. Len(<<>>) = 0 /\ IsTable(<<>>)
  BY EmptySeq, InTable
<1> QED
  BY <1>2, <1>3 DEF Placed

LEMMA PlacedNext ==
  ASSUME NEW X, NEW ss, NEW n \in Nat, \A i \in 1 .. n + 1 : ss[i] \in Seq(X),
         NEW off, Placed(ss, n, off)
  PROVE  \E new : Placed(ss, n + 1, new)
<1> DEFINE old == FlattenSeq(Initial(ss, n))
           flat == FlattenSeq(Initial(ss, n + 1))
           t == ss[n + 1]
           new == [i \in 1 .. (n + 1) + 1 |-> IF i <= n + 1 THEN off[i] ELSE off[n + 1] + Len(t)]
<1>1. flat = old \o t
  BY FlattenFirst
<1>2. t \in Seq(X) /\ IsTable(t) /\ Len(t) \in Nat /\ DOMAIN t = 1 .. Len(t)
  BY InTable, LenProperties
<1>3. /\ off \in [1 .. n + 1 -> Nat] /\ off[1] = 0
      /\ \A i \in 1 .. n : off[i + 1] = off[i] + Len(ss[i])
      /\ IsTable(old) /\ Len(old) = off[n + 1]
      /\ \A i \in 1 .. n : \A j \in 1 .. Len(ss[i]) : off[i] + j \in 1 .. Len(old) /\ old[off[i] + j] = ss[i][j]
      /\ \A p \in 1 .. Len(old) : \E i \in 1 .. n : \E j \in 1 .. Len(ss[i]) : p = off[i] + j
  BY Zenon DEF Placed
<1> HIDE DEF old, flat, t
<1>4. /\ IsTable(flat) /\ Len(flat) = Len(old) + Len(t)
      /\ \A i \in 1 .. Len(old) + Len(t) : flat[i] = IF i <= Len(old) THEN old[i] ELSE t[i - Len(old)]
  BY <1>1, <1>2, <1>3, ConcatTables
<1>5. Len(old) \in Nat /\ off[n + 1] \in Nat
  BY <1>3
<1>6. /\ new \in [1 .. (n + 1) + 1 -> Nat]
      /\ \A i \in 1 .. n + 1 : new[i] = off[i]
      /\ new[(n + 1) + 1] = off[n + 1] + Len(t)
  BY <1>2, <1>3, <1>5
<1> HIDE DEF new
<1>7. new[1] = 0
  BY <1>3, <1>6
<1>8. ASSUME NEW i \in 1 .. n + 1 PROVE new[i + 1] = new[i] + Len(ss[i])
  <2>1. CASE i = n + 1
    BY <1>6, <2>1 DEF t
  <2>2. CASE i # n + 1
    <3>1. i \in 1 .. n /\ i + 1 \in 1 .. n + 1
      BY <2>2
    <3> QED
      BY <1>3, <1>6, <3>1
  <2> QED
    BY <2>1, <2>2
<1>9. Len(flat) = new[(n + 1) + 1]
  BY <1>3, <1>4, <1>6
<1>10. ASSUME NEW i \in 1 .. n + 1, NEW j \in 1 .. Len(ss[i])
       PROVE  new[i] + j \in 1 .. Len(flat) /\ flat[new[i] + j] = ss[i][j]
  <2>1. CASE i = n + 1
    <3>1. j \in 1 .. Len(t) /\ new[i] = Len(old)
      BY <1>3, <1>6, <2>1 DEF t
    <3>2. Len(old) + j \in 1 .. Len(old) + Len(t) /\ ~(Len(old) + j <= Len(old)) /\ (Len(old) + j) - Len(old) = j
      BY <1>2, <1>5, <3>1
    <3>3. flat[Len(old) + j] = t[j]
      BY <1>4, <3>2
    <3> QED
      BY <1>4, <2>1, <3>1, <3>2, <3>3 DEF t
  <2>2. CASE i # n + 1
    <3>1. i \in 1 .. n /\ new[i] = off[i]
      BY <1>6, <2>2
    <3>2. off[i] + j \in 1 .. Len(old) /\ old[off[i] + j] = ss[i][j]
      BY <1>3, <3>1
    <3>3. off[i] + j \in 1 .. Len(old) + Len(t) /\ off[i] + j <= Len(old)
      BY <1>2, <1>5, <3>2
    <3> QED
      BY <1>4, <3>1, <3>2, <3>3
  <2> QED
    BY <2>1, <2>2
<1>11. ASSUME NEW p \in 1 .. Len(flat)
       PROVE  \E i \in 1 .. n + 1 : \E j \in 1 .. Len(ss[i]) : p = new[i] + j
  <2>1. CASE p <= Len(old)
    <3>1. p \in 1 .. Len(old)
      BY <1>5, <2>1
    <3>2. PICK i \in 1 .. n : \E j \in 1 .. Len(ss[i]) : p = off[i] + j
      BY <1>3, <3>1
    <3>3. i \in 1 .. n + 1 /\ new[i] = off[i]
      BY <1>6
    <3> QED
      BY <3>2, <3>3
  <2>2. CASE p > Len(old)
    <3>1. p - Len(old) \in 1 .. Len(t) /\ p = Len(old) + (p - Len(old))
      BY <1>2, <1>4, <1>5, <2>2
    <3>2. new[n + 1] = Len(old) /\ n + 1 \in 1 .. n + 1 /\ Len(ss[n + 1]) = Len(t)
      BY <1>3, <1>6 DEF t
    <3> QED
      BY <3>1, <3>2
  <2> QED
    BY <1>5, <2>1, <2>2
<1>12. Placed(ss, n + 1, new)
  BY <1>4, <1>6, <1>7, <1>8, <1>9, <1>10, <1>11 DEF Placed, flat
<1> QED
  BY <1>12

LEMMA FlattenPlaces ==
  ASSUME NEW X, NEW n \in Nat, NEW ss \in [1 .. n -> Seq(X)]
  PROVE  Initial(ss, n) = ss /\ \E off : Placed(ss, n, off)
<1> DEFINE G == {m \in Nat : m <= n => \E off : Placed(ss, m, off)}
<1>1. 0 \in G
  BY PlacedFirst
<1>2. ASSUME NEW m \in G PROVE m + 1 \in G
  <2>1. ASSUME m + 1 <= n PROVE \E off : Placed(ss, m + 1, off)
    <3>1. m \in Nat /\ m <= n /\ \A i \in 1 .. m + 1 : ss[i] \in Seq(X)
      BY <2>1
    <3>2. PICK off : Placed(ss, m, off)
      BY <3>1
    <3> QED
      BY <3>1, <3>2, PlacedNext
  <2> QED
    BY <2>1
<1>3. G = Nat
  <2>1. G \in SUBSET Nat
    OBVIOUS
  <2> HIDE DEF G
  <2> QED
    BY <1>1, <1>2, <2>1, SetInduction
<1>4. n \in G
  <2> HIDE DEF G
  <2> QED
    BY <1>3
<1>5. n <= n
  OBVIOUS
<1>6. \E off : Placed(ss, n, off)
  BY <1>4, <1>5
<1>7. Initial(ss, n) = ss
  BY DEF Initial
<1> QED
  BY <1>6, <1>7

-----------------------------------------------------------------------------
(***************************************************************************)
(* Sets in some order, and the largest of some numbers.                    *)
(***************************************************************************)
LEMMA SequenceOfSet ==
  ASSUME NEW S, IsFiniteSet(S)
  PROVE  LET s == SetToSeq(S)
         IN  /\ Cardinality(S) \in Nat /\ DOMAIN s = 1 .. Cardinality(S)
             /\ Len(s) = Cardinality(S) /\ s \in Seq(S)
             /\ \A x \in S : \E n \in DOMAIN s : s[n] = x
             /\ \A n, m \in DOMAIN s : s[n] = s[m] => n = m
<1> DEFINE k == Cardinality(S)
           D == 1 .. k
           s == SetToSeq(S)
<1>1. k \in Nat /\ \E f : f \in Bijection(D, S)
  BY FS_CardinalityType DEF ExistsBijection
<1>2. \E f \in [D -> S] : IsInjective(f)
  BY <1>1 DEF Bijection, Injection
<1>3. s \in [D -> S] /\ IsInjective(s)
  BY <1>2, Zenon DEF SetToSeq
<1>4. s \in Injection(D, S)
  BY <1>3 DEF Injection
<1>5. IsFiniteSet(D) /\ Cardinality(D) = k
  BY <1>1, FS_Interval
<1>6. s \in Surjection(D, S)
  BY <1>4, <1>5, FS_Injection
<1> HIDE DEF s
<1>7. s \in Seq(S) /\ Len(s) = k /\ DOMAIN s = D
  <2>1. s \in Seq(S)
    BY <1>1, <1>3, SeqDef
  <2> QED
    BY <1>1, <1>3, <2>1, LenProperties
<1>8. \A x \in S : \E n \in D : s[n] = x
  BY <1>6 DEF Surjection
<1>9. \A n, m \in D : s[n] = s[m] => n = m
  BY <1>3, <1>7 DEF IsInjective
<1> QED
  BY <1>1, <1>7, <1>8, <1>9, Zenon DEF s

LEMMA MaxFacts ==
  ASSUME NEW I \in SUBSET Nat, IsFiniteSet(I), I # {}
  PROVE  Max(I) \in I /\ \A y \in I : Max(I) >= y
<1>1. Cardinality(I) \in Nat /\ Cardinality(I) # 0
  BY FS_CardinalityType, FS_EmptySet
<1> DEFINE n == Cardinality(I)
           x == Nth(I, n)
<1>2. n \in 1 .. n /\ x \in I
  BY <1>1, NthCounts
<1>3. ASSUME NEW y \in I PROVE x >= y
  <2>1. PICK m \in 1 .. n : Nth(I, m) = y
    BY NthCounts
  <2>2. m < n => y < x
    BY <1>2, <2>1, NthGrows
  <2>3. y = x \/ m < n
    BY <1>1, <2>1
  <2>4. x \in Nat /\ y \in Nat
    BY <1>2
  <2> HIDE DEF x
  <2> QED
    BY <2>2, <2>3, <2>4
<1> HIDE DEF x
<1>4. \E z \in I : \A y \in I : z >= y
  BY <1>2, <1>3
<1> QED
  BY <1>4, Zenon DEF Max

\* What f gives for a finite set is finite, and as many where f is injective.
LEMMA ImageFacts ==
  ASSUME NEW S, IsFiniteSet(S), NEW f, DOMAIN f = S
  PROVE  LET T == {f[x] : x \in S}
         IN  /\ IsFiniteSet(T) /\ Cardinality(T) \in Nat /\ Cardinality(S) \in Nat
             /\ Cardinality(T) <= Cardinality(S)
             /\ Cardinality(T) = Cardinality(S) <=> \A x, y \in S : f[x] = f[y] => x = y
<1> DEFINE T == {f[x] : x \in S}
           g == [x \in S |-> f[x]]
<1>1. g \in [S -> T] /\ DOMAIN g = S /\ \A x \in S : g[x] = f[x]
  OBVIOUS
<1>2. g \in Surjection(S, T)
  <2>1. \A t \in T : \E x \in S : g[x] = t
    OBVIOUS
  <2> HIDE DEF T, g
  <2> QED
    BY <1>1, <2>1 DEF Surjection
<1> HIDE DEF T, g
<1>3. /\ IsFiniteSet(T) /\ Cardinality(T) <= Cardinality(S)
      /\ Cardinality(T) = Cardinality(S) <=> g \in Injection(S, T)
  BY <1>2, FS_Surjection
<1>4. g \in Injection(S, T) <=> \A x, y \in S : f[x] = f[y] => x = y
  BY <1>1 DEF Injection, IsInjective
<1>5. Cardinality(T) \in Nat /\ Cardinality(S) \in Nat
  BY <1>3, FS_CardinalityType
<1> QED
  BY <1>3, <1>4, <1>5 DEF T

-----------------------------------------------------------------------------
(***************************************************************************)
(* The lines of a graph whose vertices have different names: a node for    *)
(* each vertex, numbered in their order, and edges between the numbers of  *)
(* their ends.                                                             *)
(***************************************************************************)
LEMMA LengthOf ==
  ASSUME NEW n \in Nat, NEW s, s = [i \in 1 .. n |-> s[i]]
  PROVE  Len(s) = n /\ DOMAIN s = 1 .. n /\ IsTable(s)
<1>1. s \in [1 .. n -> {s[i] : i \in 1 .. n}]
  OBVIOUS
<1> QED
  BY <1>1, FunctionIsTable

LEMMA IndexFacts ==
  ASSUME NEW vs, NEW n \in Nat, DOMAIN vs = 1 .. n, NEW i \in 1 .. n
  PROVE  LET id == Index(vs, vs[i].name)
         IN  id \in Nat /\ id + 1 \in 1 .. n /\ vs[id + 1].name = vs[i].name
<1> DEFINE I == {j \in DOMAIN vs : vs[j].name = vs[i].name}
<1>1. I \in SUBSET Nat /\ i \in I /\ I \in SUBSET (1 .. n)
  OBVIOUS
<1>2. IsFiniteSet(I)
  BY <1>1, FS_Interval, FS_Subset
<1> HIDE DEF I
<1>3. Max(I) \in I
  BY <1>1, <1>2, MaxFacts
<1>4. Max(I) - 1 \in Nat /\ (Max(I) - 1) + 1 = Max(I)
  <2>1. \A x \in 1 .. n : x - 1 \in Nat /\ (x - 1) + 1 = x
    OBVIOUS
  <2>2. Max(I) \in 1 .. n
    BY <1>1, <1>3, Zenon
  <2> QED
    BY <2>1, <2>2, Zenon
<1>5. Index(vs, vs[i].name) = Max(I) - 1
  BY DEF Index, I
<1>6. Max(I) \in 1 .. n /\ vs[Max(I)].name = vs[i].name
  BY <1>1, <1>3 DEF I
<1> QED
  BY <1>4, <1>5, <1>6

NamedOnce(vs) == \A i, j \in DOMAIN vs : vs[i].name = vs[j].name => i = j

LEMMA IndexOfOnly ==
  ASSUME NEW vs, NEW n \in Nat, DOMAIN vs = 1 .. n, NamedOnce(vs), NEW i \in 1 .. n
  PROVE  Index(vs, vs[i].name) = i - 1
<1> DEFINE id == Index(vs, vs[i].name)
<1>1. id \in Nat /\ id + 1 \in 1 .. n /\ vs[id + 1].name = vs[i].name
  BY IndexFacts
<1> HIDE DEF id
<1>2. id + 1 = i
  BY <1>1 DEF NamedOnce
<1> QED
  BY <1>1, <1>2 DEF id

EndsAmong(es, m, vs, n) ==
  \A i \in 1 .. m : \E a, b \in 1 .. n : es[i].from = vs[a].name /\ es[i].to = vs[b].name

Shows(L, vs, n, es, m) ==
  /\ Len(L.nodes) = n /\ DOMAIN L.nodes = 1 .. n
  /\ \A i \in 1 .. n : L.nodes[i] = [id |-> i - 1, name |-> vs[i].name, size |-> vs[i].size]
  /\ Len(L.edges) = m /\ DOMAIN L.edges = 1 .. m
  /\ \A i \in 1 .. m : \E a, b \in 1 .. n :
       /\ es[i].from = vs[a].name /\ es[i].to = vs[b].name
       /\ L.edges[i].src = a - 1 /\ L.edges[i].dst = b - 1

LEMMA LinesFacts ==
  ASSUME NEW vs, NEW n \in Nat, vs = [i \in 1 .. n |-> vs[i]], NamedOnce(vs),
         NEW es, NEW m \in Nat, es = [i \in 1 .. m |-> es[i]], EndsAmong(es, m, vs, n)
  PROVE  Shows(GraphLines(StringGraph(vs, es)), vs, n, es, m)
<1> DEFINE G == StringGraph(vs, es)
           L == GraphLines(G)
           node(i) == LET id == Index(vs, vs[i].name)
                      IN  [id |-> id, name |-> vs[id + 1].name, size |-> vs[id + 1].size]
           edge(i) == [src |-> Index(vs, es[i].from), dst |-> Index(vs, es[i].to), weight |-> es[i].weight]
<1>1. DOMAIN vs = 1 .. n /\ DOMAIN es = 1 .. m
  OBVIOUS
<1>2. G.nodes = vs /\ G.edges = [i \in 1 .. m |-> edge(i)]
  BY <1>1 DEF StringGraph
<1>3. L.nodes = [i \in 1 .. n |-> node(i)]
  <2>1. L.nodes = [i \in DOMAIN G.nodes |->
          LET id == Index(G.nodes, G.nodes[i].name)
          IN  [id |-> id, name |-> G.nodes[id + 1].name, size |-> G.nodes[id + 1].size]]
    <3> HIDE DEF G
    <3> QED
      BY DEF GraphLines
  <2> HIDE DEF L, G
  <2> QED
    BY <1>1, <1>2, <2>1
<1>4. L.edges = [i \in 1 .. m |-> [edge(i) EXCEPT !.weight = 0]]
  BY <1>2 DEF GraphLines
<1> HIDE DEF L, G
<1>5. Len(L.nodes) = n /\ DOMAIN L.nodes = 1 .. n /\ Len(L.edges) = m /\ DOMAIN L.edges = 1 .. m
  <2>1. L.nodes = [i \in 1 .. n |-> L.nodes[i]] /\ L.edges = [i \in 1 .. m |-> L.edges[i]]
    <3> HIDE DEF node, edge
    <3> QED
      BY <1>3, <1>4
  <2> QED
    BY <2>1, LengthOf
<1>6. ASSUME NEW i \in 1 .. n
      PROVE  L.nodes[i] = [id |-> i - 1, name |-> vs[i].name, size |-> vs[i].size]
  <2>1. L.nodes[i] = node(i)
    BY <1>3
  <2>2. Index(vs, vs[i].name) = i - 1 /\ (i - 1) + 1 = i
    BY <1>1, IndexOfOnly
  <2> QED
    BY <2>1, <2>2
<1>7. ASSUME NEW i \in 1 .. m
      PROVE  \E a, b \in 1 .. n : /\ es[i].from = vs[a].name /\ es[i].to = vs[b].name
                                  /\ L.edges[i].src = a - 1 /\ L.edges[i].dst = b - 1
  <2>1. PICK a \in 1 .. n, b \in 1 .. n : es[i].from = vs[a].name /\ es[i].to = vs[b].name
    BY DEF EndsAmong
  <2>2. Index(vs, vs[a].name) = a - 1 /\ Index(vs, vs[b].name) = b - 1
    BY <1>1, IndexOfOnly
  <2>3. L.edges[i] = [edge(i) EXCEPT !.weight = 0]
    <3> HIDE DEF edge
    <3> QED
      BY <1>4
  <2>4. L.edges[i].src = Index(vs, es[i].from) /\ L.edges[i].dst = Index(vs, es[i].to)
    BY <2>3
  <2> QED
    BY <2>1, <2>2, <2>4
<1>8. Shows(L, vs, n, es, m)
  BY <1>5, <1>6, <1>7 DEF Shows
<1> QED
  BY <1>8 DEF L, G

-----------------------------------------------------------------------------
(***************************************************************************)
(* The graph of the database.                                              *)
(***************************************************************************)
\* A database of allexes, when all of it is loaded.
LoadedAllexes == DataInv /\ mode = "allexes" /\ pc = "done"

LEMMA LoadedFacts ==
  ASSUME LoadedAllexes
  PROVE  /\ \A i, j \in DOMAIN infos : infos[i].crc = infos[j].crc => i = j
         /\ \A a \in DOMAIN allexes : \A k \in DOMAIN allexes[a].modules :
              \E i \in DOMAIN infos : infos[i] = allexes[a].modules[k]
<1>1. adding = <<>>
  BY DEF LoadedAllexes, DataInv, NothingLeftOver
<1>2. Values(infos) = InAllexes
  <2>1. DOMAIN <<>> = {}
    OBVIOUS
  <2>2. Values(adding) = {}
    BY <1>1, <2>1 DEF Values
  <2> QED
    BY <2>2 DEF LoadedAllexes, DataInv
<1>3. ASSUME NEW a \in DOMAIN allexes, NEW k \in DOMAIN allexes[a].modules
      PROVE  \E i \in DOMAIN infos : infos[i] = allexes[a].modules[k]
  <2>1. allexes[a].modules[k] \in Values(allexes[a].modules)
    BY DEF Values
  <2>2. allexes[a].modules[k] \in InAllexes
    BY <2>1 DEF InAllexes
  <2> QED
    BY <1>2, <2>2 DEF Values
<1> QED
  BY <1>3 DEF LoadedAllexes, DataInv

ContentPairs == FlattenSeq([i \in DOMAIN allexes |-> Contents(allexes[i])])

LEMMA PairsFacts ==
  ASSUME DataInv
  PROVE  /\ ContentPairs = [p \in 1 .. Len(ContentPairs) |-> ContentPairs[p]]
         /\ Len(ContentPairs) \in Nat /\ DOMAIN ContentPairs = 1 .. Len(ContentPairs)
         /\ \A p \in DOMAIN ContentPairs : \E i \in DOMAIN allexes : \E k \in DOMAIN allexes[i].modules :
              ContentPairs[p] = <<allexes[i].file, allexes[i].modules[k].file>>
<1> DEFINE n == Len(allexes)
           ss == [i \in 1 .. n |-> Contents(allexes[i])]
           X == UNION {Values(Contents(allexes[i])) : i \in 1 .. n}
<1>1. n \in Nat /\ DOMAIN allexes = 1 .. n
  BY LenProperties DEF DataInv, DataType
<1>2. ASSUME NEW i \in 1 .. n
      PROVE  /\ IsTable(Contents(allexes[i])) /\ Len(Contents(allexes[i])) = Len(allexes[i].modules)
             /\ DOMAIN allexes[i].modules = 1 .. Len(allexes[i].modules)
             /\ \A k \in 1 .. Len(allexes[i].modules) :
                  Contents(allexes[i])[k] = <<allexes[i].file, allexes[i].modules[k].file>>
  <2> DEFINE c == Contents(allexes[i])
             m == Len(allexes[i].modules)
  <2>1. allexes[i] \in AllexeType
    BY <1>1, ElementOfSeq DEF DataInv, DataType
  <2>2. m \in Nat /\ DOMAIN allexes[i].modules = 1 .. m
    BY <2>1, LenProperties DEF AllexeType
  <2>3. /\ c = [k \in 1 .. m |-> c[k]]
        /\ \A k \in 1 .. m : c[k] = <<allexes[i].file, allexes[i].modules[k].file>>
    BY <2>2 DEF Contents
  <2> HIDE DEF c
  <2> QED
    BY <2>2, <2>3, LengthOf DEF c
<1>3. ASSUME NEW i \in 1 .. n PROVE ss[i] \in Seq(X) /\ ss[i] = Contents(allexes[i])
  <2>1. Values(Contents(allexes[i])) \subseteq X
    OBVIOUS
  <2>2. Contents(allexes[i]) \in Seq(Values(Contents(allexes[i])))
    BY <1>2 DEF IsTable
  <2> HIDE DEF X
  <2> QED
    BY <2>1, <2>2, SeqMonotonic
<1> HIDE DEF X
<1>4. ss \in [1 .. n -> Seq(X)]
  <2>1. ss = [i \in 1 .. n |-> ss[i]]
    OBVIOUS
  <2> HIDE DEF ss
  <2> QED
    BY <1>3, <2>1
<1>5. ContentPairs = FlattenSeq(ss)
  BY <1>1 DEF ContentPairs
<1> HIDE DEF ss, n
<1>6. PICK off : Placed(ss, n, off)
  BY <1>1, <1>4, FlattenPlaces
<1>7. Initial(ss, n) = ss
  BY <1>1, <1>4, FlattenPlaces
<1>8. /\ IsTable(ContentPairs)
      /\ \A i \in 1 .. n : \A j \in 1 .. Len(ss[i]) : ContentPairs[off[i] + j] = ss[i][j]
      /\ \A p \in 1 .. Len(ContentPairs) : \E i \in 1 .. n : \E j \in 1 .. Len(ss[i]) : p = off[i] + j
  BY <1>5, <1>6, <1>7 DEF Placed
<1>9. Len(ContentPairs) \in Nat /\ DOMAIN ContentPairs = 1 .. Len(ContentPairs)
  BY <1>8, TableFacts
<1>10. ContentPairs = [p \in 1 .. Len(ContentPairs) |-> ContentPairs[p]]
  BY <1>8, LenProperties DEF IsTable
<1>11. ASSUME NEW p \in DOMAIN ContentPairs
       PROVE  \E i \in DOMAIN allexes : \E k \in DOMAIN allexes[i].modules :
                ContentPairs[p] = <<allexes[i].file, allexes[i].modules[k].file>>
  <2>1. PICK i \in 1 .. n : \E j \in 1 .. Len(ss[i]) : p = off[i] + j
    BY <1>8, <1>9
  <2>2. PICK j \in 1 .. Len(ss[i]) : p = off[i] + j
    BY <2>1
  <2>3. ContentPairs[p] = ss[i][j]
    BY <1>8, <2>2
  <2>4. i \in DOMAIN allexes /\ j \in DOMAIN allexes[i].modules /\ j \in 1 .. Len(allexes[i].modules)
    BY <1>1, <1>2, <1>3, <2>2
  <2>5. Contents(allexes[i])[j] = <<allexes[i].file, allexes[i].modules[j].file>>
    BY <1>2, <2>4
  <2>6. ss[i] = Contents(allexes[i])
    BY <1>3
  <2> QED
    BY <2>3, <2>4, <2>5, <2>6, Zenon
<1> QED
  BY <1>9, <1>10, <1>11

\* The names of the vertices of the graph of the database.
DatabaseNames ==
  [i \in 1 .. Len(allexes) + Len(infos) |->
     IF i <= Len(allexes) THEN Short[allexes[i].file] ELSE Short[infos[i - Len(allexes)].file]]

LEMMA DatabaseVertices ==
  ASSUME DataInv
  PROVE  \E vs : /\ DatabaseGraph.nodes = vs
                 /\ vs = [i \in 1 .. Len(allexes) + Len(infos) |-> vs[i]]
                 /\ \A i \in 1 .. Len(allexes) + Len(infos) : vs[i].name = DatabaseNames[i]
                 /\ DatabaseGraph = StringGraph(vs, [i \in 1 .. Len(ContentPairs) |->
                      Edge(Short[ContentPairs[i][1]], Short[ContentPairs[i][2]], 0)])
<1> DEFINE a == Len(allexes)
           n == Len(infos)
           vertices(xs) == [i \in DOMAIN xs |-> Vertex(Short[xs[i].file], 0)]
           va == [i \in 1 .. a |-> Vertex(Short[allexes[i].file], 0)]
           vi == [i \in 1 .. n |-> Vertex(Short[infos[i].file], 0)]
           vs == va \o vi
           es == [i \in 1 .. Len(ContentPairs) |-> Edge(Short[ContentPairs[i][1]], Short[ContentPairs[i][2]], 0)]
<1>1. a \in Nat /\ n \in Nat /\ DOMAIN allexes = 1 .. a /\ DOMAIN infos = 1 .. n
  BY LenProperties DEF DataInv, DataType
<1>2. vertices(allexes) = va /\ vertices(infos) = vi
  BY <1>1
<1>3. DOMAIN ContentPairs = 1 .. Len(ContentPairs)
  BY PairsFacts
<1>4. DatabaseGraph = StringGraph(vertices(allexes) \o vertices(infos),
                        [i \in DOMAIN ContentPairs |-> Edge(Short[ContentPairs[i][1]], Short[ContentPairs[i][2]], 0)])
  BY Zenon DEF DatabaseGraph, ContentPairs
<1>5. DatabaseGraph = StringGraph(vs, es)
  BY <1>2, <1>3, <1>4
<1>6. Len(va) = a /\ IsTable(va) /\ Len(vi) = n /\ IsTable(vi)
  <2>1. va = [i \in 1 .. a |-> va[i]] /\ vi = [i \in 1 .. n |-> vi[i]]
    OBVIOUS
  <2> HIDE DEF va, vi
  <2> QED
    BY <1>1, <2>1, LengthOf
<1>7. /\ IsTable(vs) /\ Len(vs) = a + n
      /\ \A i \in 1 .. a + n : vs[i] = IF i <= a THEN va[i] ELSE vi[i - a]
  <2> HIDE DEF va, vi
  <2> QED
    BY <1>6, ConcatTables
<1>8. ASSUME NEW i \in 1 .. a + n PROVE vs[i].name = DatabaseNames[i]
  <2>1. CASE i <= a
    <3>1. i \in 1 .. a /\ vs[i] = va[i]
      BY <1>1, <1>7, <2>1
    <3> HIDE DEF vs
    <3> QED
      BY <2>1, <3>1 DEF DatabaseNames, Vertex
  <2>2. CASE i > a
    <3>1. i - a \in 1 .. n /\ ~(i <= a) /\ vs[i] = vi[i - a]
      BY <1>1, <1>7, <2>2
    <3> HIDE DEF vs
    <3> QED
      BY <3>1 DEF DatabaseNames, Vertex
  <2> QED
    BY <1>1, <2>1, <2>2
<1> HIDE DEF vs
<1>9. vs = [i \in 1 .. a + n |-> vs[i]]
  BY <1>7, LenProperties DEF IsTable
<1>10. DatabaseGraph.nodes = vs
  BY <1>5 DEF StringGraph
<1> QED
  BY <1>5, <1>8, <1>9, <1>10

LEMMA NamesDifferFacts ==
  ASSUME DataInv
  PROVE  /\ DOMAIN DatabaseNames = 1 .. Len(allexes) + Len(infos)
         /\ \A i \in DOMAIN allexes : i \in DOMAIN DatabaseNames /\ DatabaseNames[i] = Short[allexes[i].file]
         /\ \A i \in DOMAIN infos : \E j \in DOMAIN DatabaseNames : DatabaseNames[j] = Short[infos[i].file]
         /\ ShortNamesDiffer <=> \A i, j \in DOMAIN DatabaseNames : DatabaseNames[i] = DatabaseNames[j] => i = j
<1> DEFINE a == Len(allexes)
           n == Len(infos)
           D == 1 .. a + n
           A == {Short[allexes[i].file] : i \in DOMAIN allexes} \cup {Short[f] : f \in Files}
<1>1. a \in Nat /\ n \in Nat /\ DOMAIN allexes = 1 .. a /\ DOMAIN infos = 1 .. n
  BY LenProperties DEF DataInv, DataType
<1>2. DOMAIN DatabaseNames = D
  BY DEF DatabaseNames
<1>3. \A i \in 1 .. a : i \in D /\ DatabaseNames[i] = Short[allexes[i].file]
  BY <1>1 DEF DatabaseNames
<1>4. \A i \in 1 .. n : a + i \in D /\ DatabaseNames[a + i] = Short[infos[i].file]
  <2> SUFFICES ASSUME NEW i \in 1 .. n PROVE a + i \in D /\ DatabaseNames[a + i] = Short[infos[i].file]
    OBVIOUS
  <2>1. a + i \in D /\ ~(a + i <= a) /\ (a + i) - a = i
    BY <1>1
  <2> QED
    BY <2>1 DEF DatabaseNames
<1>5. ASSUME NEW j \in D
      PROVE  (\E i \in 1 .. a : j = i) \/ \E i \in 1 .. n : j = a + i
  <2>1. CASE j <= a
    BY <1>1, <2>1
  <2>2. CASE j > a
    <3>1. j - a \in 1 .. n /\ j = a + (j - a)
      BY <1>1, <2>2
    <3> QED
      BY <3>1
  <2> QED
    BY <1>1, <2>1, <2>2
<1>6. A = {DatabaseNames[j] : j \in D}
  <2>1. \A x : x \in A <=> (\E i \in 1 .. a : x = Short[allexes[i].file]) \/ \E i \in 1 .. n : x = Short[infos[i].file]
    BY <1>1 DEF Files
  <2>2. \A x : x \in A <=> \E j \in D : x = DatabaseNames[j]
    <3>1. ASSUME NEW x \in A PROVE \E j \in D : x = DatabaseNames[j]
      <4>1. (\E i \in 1 .. a : x = Short[allexes[i].file]) \/ \E i \in 1 .. n : x = Short[infos[i].file]
        BY <2>1, <3>1
      <4> HIDE DEF A, D
      <4> QED
        BY <1>3, <1>4, <4>1
    <3>2. ASSUME NEW j \in D PROVE DatabaseNames[j] \in A
      <4> HIDE DEF A
      <4>1. CASE \E i \in 1 .. a : j = i
        BY <1>3, <2>1, <4>1
      <4>2. CASE \E i \in 1 .. n : j = a + i
        BY <1>4, <2>1, <4>2
      <4> QED
        BY <1>5, <4>1, <4>2
    <3> HIDE DEF A, D
    <3> QED
      BY <3>1, <3>2
  <2> HIDE DEF A, D
  <2> QED
    BY <2>2
<1>7. IsFiniteSet(D) /\ Cardinality(D) = a + n
  <2>1. a + n \in Nat
    BY <1>1
  <2>2. \A k \in Nat : IsFiniteSet(1 .. k) /\ Cardinality(1 .. k) = k
    BY FS_Interval
  <2> QED
    BY <2>1, <2>2, Zenon
<1>8. Cardinality(A) = Cardinality(D) <=> \A i, j \in D : DatabaseNames[i] = DatabaseNames[j] => i = j
  <2> HIDE DEF A, D
  <2>1. Cardinality({DatabaseNames[j] : j \in D}) = Cardinality(D)
          <=> \A i, j \in D : DatabaseNames[i] = DatabaseNames[j] => i = j
    BY <1>2, <1>7, ImageFacts
  <2> QED
    BY <1>6, <2>1
<1>9. ShortNamesDiffer <=> Cardinality(A) = Cardinality(D)
  BY <1>7 DEF ShortNamesDiffer
<1> QED
  BY <1>1, <1>2, <1>3, <1>4, <1>8, <1>9

LEMMA BadFacts ==
  ASSUME DataInv
  PROVE  DatabaseGraph.bad <=> ~ShortNamesDiffer
<1>1. PICK vs : /\ vs = [i \in 1 .. Len(allexes) + Len(infos) |-> vs[i]]
                /\ \A i \in 1 .. Len(allexes) + Len(infos) : vs[i].name = DatabaseNames[i]
                /\ DatabaseGraph = StringGraph(vs, [i \in 1 .. Len(ContentPairs) |->
                      Edge(Short[ContentPairs[i][1]], Short[ContentPairs[i][2]], 0)])
  BY DatabaseVertices
<1>2. DatabaseGraph.bad <=> \E i, j \in DOMAIN vs : i # j /\ vs[i].name = vs[j].name
  BY <1>1 DEF StringGraph
<1>3. DOMAIN vs = DOMAIN DatabaseNames
  BY <1>1, NamesDifferFacts
<1> QED
  BY <1>1, <1>2, <1>3, NamesDifferFacts

\* The lines of the graph of the database.
DatabaseShown(nodes, edges) ==
  /\ Len(nodes) = Len(allexes) + Len(infos) /\ DOMAIN nodes = 1 .. Len(allexes) + Len(infos)
  /\ \A i \in DOMAIN nodes : nodes[i].id = i - 1
  /\ Len(edges) = Len(ContentPairs) /\ DOMAIN edges = DOMAIN ContentPairs
  /\ \A i \in DOMAIN ContentPairs : \E a, b \in DOMAIN nodes :
       /\ edges[i].src = a - 1 /\ edges[i].dst = b - 1
       /\ nodes[a].name = Short[ContentPairs[i][1]] /\ nodes[b].name = Short[ContentPairs[i][2]]

LEMMA DatabaseLines ==
  ASSUME LoadedAllexes, ShortNamesDiffer
  PROVE  DatabaseShown(GraphLines(DatabaseGraph).nodes, GraphLines(DatabaseGraph).edges)
<1> DEFINE n == Len(allexes) + Len(infos)
           m == Len(ContentPairs)
           es == [i \in 1 .. m |-> Edge(Short[ContentPairs[i][1]], Short[ContentPairs[i][2]], 0)]
<1>1. DataInv
  BY DEF LoadedAllexes
<1>2. PICK vs : /\ vs = [i \in 1 .. n |-> vs[i]]
                /\ \A i \in 1 .. n : vs[i].name = DatabaseNames[i]
                /\ DatabaseGraph = StringGraph(vs, es)
  BY <1>1, DatabaseVertices
<1>3. n \in Nat /\ m \in Nat /\ DOMAIN ContentPairs = 1 .. m
  <2>1. Len(allexes) \in Nat /\ Len(infos) \in Nat
    BY <1>1, LenProperties DEF DataInv, DataType
  <2> QED
    BY <1>1, <2>1, PairsFacts
<1>4. DOMAIN vs = 1 .. n /\ DOMAIN DatabaseNames = 1 .. n
  BY <1>1, <1>2, NamesDifferFacts
<1>5. NamedOnce(vs)
  BY <1>1, <1>2, <1>4, NamesDifferFacts DEF NamedOnce
<1>6. \A i \in 1 .. m : es[i].from = Short[ContentPairs[i][1]] /\ es[i].to = Short[ContentPairs[i][2]]
  BY DEF Edge
<1>7. es = [i \in 1 .. m |-> es[i]]
  OBVIOUS
<1> HIDE DEF es, n, m
<1>8. ASSUME NEW i \in 1 .. m
      PROVE  \E a, b \in 1 .. n : es[i].from = vs[a].name /\ es[i].to = vs[b].name
  <2>1. PICK x \in DOMAIN allexes : \E k \in DOMAIN allexes[x].modules :
               ContentPairs[i] = <<allexes[x].file, allexes[x].modules[k].file>>
    BY <1>1, <1>3, PairsFacts
  <2>2. PICK k \in DOMAIN allexes[x].modules : ContentPairs[i] = <<allexes[x].file, allexes[x].modules[k].file>>
    BY <2>1
  <2>3. PICK y \in DOMAIN infos : infos[y] = allexes[x].modules[k]
    BY <2>2, LoadedFacts
  <2>4. x \in 1 .. n /\ vs[x].name = Short[allexes[x].file]
    BY <1>1, <1>2, <1>4, NamesDifferFacts
  <2>5. PICK z \in 1 .. n : vs[z].name = Short[infos[y].file]
    BY <1>1, <1>2, <1>4, NamesDifferFacts
  <2> QED
    BY <1>6, <2>2, <2>3, <2>4, <2>5
<1>9. Shows(GraphLines(DatabaseGraph), vs, n, es, m)
  <2>1. EndsAmong(es, m, vs, n)
    BY <1>8 DEF EndsAmong
  <2>2. vs = [i \in 1 .. n |-> vs[i]] /\ DatabaseGraph = StringGraph(vs, es)
    BY <1>2
  <2>3. Shows(GraphLines(StringGraph(vs, es)), vs, n, es, m)
    BY <1>3, <1>5, <1>7, <2>1, <2>2, LinesFacts
  <2> QED
    BY <2>2, <2>3
<1> DEFINE N == GraphLines(DatabaseGraph).nodes
           E == GraphLines(DatabaseGraph).edges
<1>10. /\ Len(N) = n /\ DOMAIN N = 1 .. n /\ Len(E) = m /\ DOMAIN E = 1 .. m
       /\ \A i \in 1 .. n : N[i] = [id |-> i - 1, name |-> vs[i].name, size |-> vs[i].size]
       /\ \A i \in 1 .. m : \E a, b \in 1 .. n :
               /\ es[i].from = vs[a].name /\ es[i].to = vs[b].name
               /\ E[i].src = a - 1 /\ E[i].dst = b - 1
  BY <1>9 DEF Shows
<1> HIDE DEF N, E
<1>11. \A i \in 1 .. n : N[i].id = i - 1 /\ N[i].name = vs[i].name
  BY <1>10
<1>12. DatabaseShown(N, E)
  <2>1. ASSUME NEW i \in 1 .. m
        PROVE  \E a, b \in 1 .. n :
                 /\ E[i].src = a - 1 /\ E[i].dst = b - 1
                 /\ N[a].name = Short[ContentPairs[i][1]] /\ N[b].name = Short[ContentPairs[i][2]]
    <3>1. PICK a \in 1 .. n, b \in 1 .. n : /\ es[i].from = vs[a].name /\ es[i].to = vs[b].name
                                            /\ E[i].src = a - 1 /\ E[i].dst = b - 1
      BY <1>10
    <3>2. N[a].name = Short[ContentPairs[i][1]] /\ N[b].name = Short[ContentPairs[i][2]]
      BY <1>6, <1>11, <3>1
    <3> QED
      BY <3>1, <3>2
  <2>2. n = Len(allexes) + Len(infos) /\ m = Len(ContentPairs)
    BY DEF n, m
  <2>3. \A i \in DOMAIN ContentPairs : \E a, b \in DOMAIN N :
                 /\ E[i].src = a - 1 /\ E[i].dst = b - 1
                 /\ N[a].name = Short[ContentPairs[i][1]] /\ N[b].name = Short[ContentPairs[i][2]]
    <3>1. DOMAIN ContentPairs = 1 .. m /\ DOMAIN N = 1 .. n
      BY <1>3, <1>10
    <3> SUFFICES ASSUME NEW i \in DOMAIN ContentPairs
                 PROVE  \E a, b \in DOMAIN N :
                          /\ E[i].src = a - 1 /\ E[i].dst = b - 1
                          /\ N[a].name = Short[ContentPairs[i][1]] /\ N[b].name = Short[ContentPairs[i][2]]
      OBVIOUS
    <3>2. i \in 1 .. m
      BY <3>1
    <3>3. PICK a \in 1 .. n, b \in 1 .. n :
                 /\ E[i].src = a - 1 /\ E[i].dst = b - 1
                 /\ N[a].name = Short[ContentPairs[i][1]] /\ N[b].name = Short[ContentPairs[i][2]]
      BY <2>1, <3>2
    <3>4. a \in DOMAIN N /\ b \in DOMAIN N
      BY <3>1
    <3> QED
      BY <3>3, <3>4
  <2>4. /\ DOMAIN N = 1 .. Len(allexes) + Len(infos) /\ DOMAIN E = DOMAIN ContentPairs
        /\ Len(N) = Len(allexes) + Len(infos) /\ Len(E) = Len(ContentPairs)
        /\ \A i \in DOMAIN N : N[i].id = i - 1
    BY <1>3, <1>10, <1>11, <2>2
  <2> QED
    BY <2>3, <2>4, Zenon DEF DatabaseShown
<1> QED
  BY <1>12 DEF N, E

-----------------------------------------------------------------------------
(***************************************************************************)
(* The steps in which a command does nothing of its own: the scan goes on, *)
(* a module cannot be read, or the command comes to its end.               *)
(***************************************************************************)
Quietly ==
  /\ UNCHANGED <<cmd, next, mem, out, kept>>
  /\ \/ stage' = stage
     \/ stage = "scan" /\ pc # "done" /\ stage' = "error"
     \/ stage = "scan" /\ pc = "aborted" /\ stage' = "aborted"
     \/ stage = "modules" /\ stage' = "close"
     \/ stage = "close" /\ stage' \in {"error", "fatal"}
     \/ stage = "close" /\ kept /\ stage' = "success"

CommandActs == ExportStep \/ ReportStep \/ GraphStep \/ BundleStep

LEMMA QuietSteps ==
  ASSUME [AllplayNext]_vars, ~CommandActs
  PROVE  Quietly
<1> USE DEF Quietly
<1>1. CASE UNCHANGED commandVars
  BY <1>1 DEF commandVars
<1>2. CASE LoadFails
  BY <1>2 DEF LoadFails, ioVars
<1>3. CASE ModuleFails
  BY <1>3 DEF ModuleFails, ReadsModules, ioVars
<1>4. CASE CloseOutput
  BY <1>4 DEF CloseOutput
<1>5. CASE DiskFull
  BY <1>5 DEF DiskFull
<1>6. CASE End
  BY <1>6 DEF End, ioVars
<1> QED
  BY <1>1, <1>2, <1>3, <1>4, <1>5, <1>6
     DEF AllplayNext, AllplayStep, CommandStep, Others, vars, CommandActs

LEMMA EndedRests ==
  ASSUME Scanning
  PROVE  /\ mode' = mode
         /\ pc = "done" => UNCHANGED <<pc, infos, allexes>>
         /\ pc = "aborted" => pc' = pc
<1>1. ASSUME ScanStep PROVE pc # "aborted"
  BY <1>1 DEF ScanStep, Start, SkipUnreachable, SkipUnwanted, VisitFile, OpenAllexe, MoreModules,
     AddKnownModule, AddModule, AddAllexe, AddBitcode, Increment, NextEntry, LeaveDirectory
<1>2. ASSUME NEW p, Unlink(p) \/ Vanish(p) PROVE pc' = pc
  BY <1>2 DEF Unlink, Vanish
<1>3. pc = "aborted" => pc' = pc
  BY <1>1, <1>2 DEF Scanning, Next, scanVars
<1> QED
  BY <1>3, DoneRests

(***************************************************************************)
(* graph: what is written is the graph of the database; an assertion of    *)
(* its own fails only where two names are the same.                        *)
(***************************************************************************)
GraphInv ==
  cmd.name = "graph" =>
    /\ mode = "allexes"
    /\ stage \in {"close", "success"} /\ kept =>
         /\ pc = "done"
         /\ ShortNamesDiffer => DatabaseShown(out.nodes, out.edges)
    /\ stage = "aborted" => pc = "aborted" \/ (pc = "done" /\ ~ShortNamesDiffer)

LEMMA ShownSame ==
  ASSUME UNCHANGED <<infos, allexes, out>>
  PROVE  /\ ShortNamesDiffer' <=> ShortNamesDiffer
         /\ DatabaseShown(out.nodes, out.edges)' <=> DatabaseShown(out.nodes, out.edges)
<1>1. ShortNamesDiffer' <=> ShortNamesDiffer
  BY DEF ShortNamesDiffer, Files
<1>2. ContentPairs' = ContentPairs
  BY DEF ContentPairs
<1> QED
  BY <1>1, <1>2 DEF DatabaseShown

LEMMA GraphRest ==
  ASSUME GraphInv, Scanning, Quietly, cmd.name = "graph" => (stage = "modules" => ~kept)
  PROVE  GraphInv'
<1> SUFFICES ASSUME cmd.name = "graph" PROVE GraphInv'
  BY DEF GraphInv, Quietly
<1>1. /\ mode' = mode /\ mode' = "allexes"
      /\ pc = "done" => UNCHANGED <<pc, infos, allexes>>
      /\ pc = "aborted" => pc' = pc
  BY EndedRests DEF GraphInv
<1>2. ASSUME stage' \in {"close", "success"}, kept'
      PROVE  pc' = "done" /\ (ShortNamesDiffer' => DatabaseShown(out.nodes, out.edges)')
  <2>1. stage \in {"close", "success"} /\ kept
    BY <1>2 DEF Quietly
  <2>2. pc = "done" /\ (ShortNamesDiffer => DatabaseShown(out.nodes, out.edges))
    BY <2>1 DEF GraphInv
  <2>3. UNCHANGED <<pc, infos, allexes, out>>
    BY <1>1, <2>2 DEF Quietly
  <2> QED
    BY <2>2, <2>3, ShownSame
<1>3. ASSUME stage' = "aborted"
      PROVE  pc' = "aborted" \/ (pc' = "done" /\ ~ShortNamesDiffer')
  <2>1. stage = "aborted" \/ pc = "aborted"
    BY <1>3 DEF Quietly
  <2>2. CASE pc = "aborted"
    BY <1>1, <2>2
  <2>3. CASE pc # "aborted"
    <3>1. pc = "done" /\ ~ShortNamesDiffer
      BY <2>1, <2>3 DEF GraphInv
    <3> QED
      BY <1>1, <3>1, ShownSame DEF Quietly
  <2> QED
    BY <2>2, <2>3
<1> QED
  BY <1>1, <1>2, <1>3 DEF GraphInv

LEMMA GraphWritten ==
  ASSUME GraphInv, DataInv, GraphCommand
  PROVE  GraphInv'
<1>1. /\ stage = "scan" /\ pc = "done" /\ cmd.name = "graph" /\ UNCHANGED <<cmd, mode, pc, infos, allexes>>
  BY DEF GraphCommand, Loaded, scanVars, dbVars
<1>2. PICK G \in {DatabaseGraph} : EmitGraph(G, G.bad)
  BY DEF GraphCommand
<1>3. G = DatabaseGraph /\ LoadedAllexes
  BY <1>1 DEF GraphInv, LoadedAllexes
<1>4. CASE asserts /\ G.bad
  <2>1. stage' = "aborted"
    BY <1>2, <1>4 DEF EmitGraph, Abort
  <2>2. ~ShortNamesDiffer
    BY <1>3, <1>4, BadFacts DEF LoadedAllexes
  <2>3. ~ShortNamesDiffer'
    BY <1>1, <2>2 DEF ShortNamesDiffer, Files
  <2> QED
    BY <1>1, <2>1, <2>3 DEF GraphInv
<1>5. CASE ~(asserts /\ G.bad)
  <2>1. stage' = "close" /\ (kept' => out' = Adding(GraphLines(G)))
    BY <1>2, <1>5 DEF EmitGraph
  <2>2. kept' => out'.nodes = GraphLines(G).nodes /\ out'.edges = GraphLines(G).edges
    <3> SUFFICES ASSUME kept' PROVE out'.nodes = GraphLines(G).nodes /\ out'.edges = GraphLines(G).edges
      OBVIOUS
    <3> DEFINE L == GraphLines(G)
    <3>1. {"nodes", "edges"} \subseteq DOMAIN L
      BY DEF GraphLines
    <3>2. out' = [x \in (DOMAIN L) \cup DOMAIN out |-> IF x \in DOMAIN L THEN L[x] ELSE out[x]]
      BY <2>1, Zenon DEF Adding
    <3> HIDE DEF L
    <3>3. out'["nodes"] = L["nodes"] /\ out'["edges"] = L["edges"]
      BY <3>1, <3>2
    <3> QED
      BY <3>3 DEF L
  <2>3. ContentPairs' = ContentPairs /\ (ShortNamesDiffer' <=> ShortNamesDiffer)
    BY <1>1 DEF ContentPairs, ShortNamesDiffer, Files
  <2>4. ASSUME kept', ShortNamesDiffer' PROVE DatabaseShown(out.nodes, out.edges)'
    <3>1. DatabaseShown(GraphLines(DatabaseGraph).nodes, GraphLines(DatabaseGraph).edges)
      BY <1>3, <2>3, <2>4, DatabaseLines
    <3>2. DatabaseShown(out'.nodes, out'.edges)
      BY <1>3, <2>2, <2>4, <3>1
    <3> QED
      BY <1>1, <2>3, <3>2 DEF DatabaseShown
  <2> QED
    BY <1>1, <2>1, <2>4 DEF GraphInv
<1> QED
  BY <1>4, <1>5

LEMMA NotGraph ==
  ASSUME CommandActs, ~GraphCommand, IsAtEmit, "name" \in DOMAIN cmd
  PROVE  cmd'.name # "graph"
<1>1. CASE ExportStep
  BY <1>1, Zenon DEF ExportStep, NeoOpen, NeoAborts, NeoModule, NeoAllexe, NeoFinish, CypherOpen,
     CypherModule, CypherFinish, Loaded, ReadsModule, ReadsModules, ModulesDone, Neo, Succeed
<1>2. CASE ReportStep
  BY <1>2, Zenon DEF ReportStep, SearchStart, AsmModule, SearchAborts, SearchModule, AsmReport, UsesReport,
     TomlReport, Loaded, ReadsModule, ReadsModules, ModulesDone, Searches, Succeed
<1>3. CASE GraphStep
  BY <1>3, Zenon DEF GraphStep, HashStart, HashModule, HashSort, HashEmitGraph,
     HashEmitCSV, HashEmitNothing, Loaded, ReadsModule, ReadsModules, ModulesDone, Succeed, IsAtEmit
<1>4. CASE UncombineOutput
  BY <1>4 DEF UncombineOutput
<1>5. CASE BundleStep /\ ~UncombineOutput
  BY <1>5, Zenon DEF BundleStep, CombineStart, CombineModule, CombineWrite, TakeApart, UncombinePart,
     DecomposePart, TakenApart, PrintSource, Loaded, ReadsModule, ReadsModules, ModulesDone, HasPart,
     Takers, Succeed
<1> QED
  BY <1>1, <1>2, <1>3, <1>4, <1>5 DEF CommandActs

LEMMA GraphNext ==
  ASSUME GraphInv, OutputInv, DataInv, [AllplayNext]_vars
  PROVE  GraphInv'
<1>1. Scanning /\ IsAtEmit /\ "name" \in DOMAIN cmd
  BY ScansOnly DEF OutputInv, OutputType
<1>2. CASE ~CommandActs
  <2>1. cmd.name = "graph" => (stage = "modules" => ~kept)
    BY DEF OutputInv, KeptInv, KeptOutputs, Early
  <2> QED
    BY <1>1, <1>2, <2>1, QuietSteps, GraphRest
<1>3. CASE GraphCommand
  BY <1>3, GraphWritten
<1>4. CASE CommandActs /\ ~GraphCommand
  BY <1>1, <1>4, NotGraph DEF GraphInv
<1> QED
  BY <1>2, <1>3, <1>4

LEMMA GraphInvariant == AllplaySpec => []GraphInv
<1>1. CommandInit => GraphInv
  BY Zenon DEF CommandInit, GraphInv, Loader, BCScanners
<1>2. GraphInv /\ SessionInv /\ [AllplayNext]_vars => GraphInv'
  BY GraphNext DEF SessionInv, ScanInv
<1> QED
  BY <1>1, <1>2, SessionInvariant, PTL DEF AllplaySpec

(***************************************************************************)
(* graph writes a node for each allexe and each module, and an edge for    *)
(* each module that an allexe holds, whatever the database is, as long as  *)
(* the names of its files differ.                                          *)
(***************************************************************************)
THEOREM GraphIsDatabase == AllplaySpec => []GraphShowsDatabase
<1>1. ASSUME GraphInv, PositionInv, DataInv, Succeeded({"graph"}), ShortNamesDiffer
      PROVE  LET named(id) == {out.nodes[i].name : i \in {i \in DOMAIN out.nodes : out.nodes[i].id = id}}
                 drawn(e) == <<named(e.src), named(e.dst)>>
             IN  /\ Len(out.nodes) = Len(allexes) + Len(infos)
                 /\ Len(out.edges) = Len(ContentPairs)
                 /\ \A i \in DOMAIN ContentPairs :
                      drawn(out.edges[i]) = <<{Short[ContentPairs[i][1]]}, {Short[ContentPairs[i][2]]}>>
  <2> DEFINE named(id) == {out.nodes[i].name : i \in {i \in DOMAIN out.nodes : out.nodes[i].id = id}}
             N == out.nodes
             E == out.edges
             n == Len(allexes) + Len(infos)
  <2>1. DatabaseShown(N, E)
    BY <1>1 DEF GraphInv, PositionInv, Succeeded
  <2>2. n \in Nat
    BY <1>1, LenProperties DEF DataInv, DataType
  <2>3. /\ DOMAIN N = 1 .. n /\ \A i \in DOMAIN N : N[i].id = i - 1
        /\ \A i \in DOMAIN ContentPairs : \E a, b \in DOMAIN N :
             /\ E[i].src = a - 1 /\ E[i].dst = b - 1
             /\ N[a].name = Short[ContentPairs[i][1]] /\ N[b].name = Short[ContentPairs[i][2]]
    BY <2>1 DEF DatabaseShown
  <2>4. ASSUME NEW a \in DOMAIN N PROVE named(a - 1) = {N[a].name}
    <3>1. \A i \in DOMAIN N : N[i].id = a - 1 <=> i = a
      BY <2>2, <2>3
    <3> QED
      BY <3>1
  <2>5. ASSUME NEW i \in DOMAIN ContentPairs
        PROVE  named(E[i].src) = {Short[ContentPairs[i][1]]} /\ named(E[i].dst) = {Short[ContentPairs[i][2]]}
    <3>1. PICK a \in DOMAIN N, b \in DOMAIN N :
             /\ E[i].src = a - 1 /\ E[i].dst = b - 1
             /\ N[a].name = Short[ContentPairs[i][1]] /\ N[b].name = Short[ContentPairs[i][2]]
      BY <2>3
    <3>2. named(a - 1) = {N[a].name} /\ named(b - 1) = {N[b].name}
      BY <2>4
    <3> HIDE DEF named
    <3> QED
      BY <3>1, <3>2
  <2>6. Len(N) = n /\ Len(E) = Len(ContentPairs)
    BY <2>1 DEF DatabaseShown
  <2> HIDE DEF named
  <2>7. \A i \in DOMAIN ContentPairs :
          <<named(E[i].src), named(E[i].dst)>> = <<{Short[ContentPairs[i][1]]}, {Short[ContentPairs[i][2]]}>>
    BY <2>5
  <2> QED
    BY <2>6, <2>7 DEF named
<1>2. GraphInv /\ SessionInv => GraphShowsDatabase
  BY <1>1, Zenon DEF GraphShowsDatabase, SessionInv, ScanInv, ContentPairs
<1> QED
  BY <1>2, GraphInvariant, SessionInvariant, PTL


-----------------------------------------------------------------------------
(***************************************************************************)
(* Sorting: SortStep is the equation that the sorted sequences solve.      *)
(***************************************************************************)
Highest(fs, I) == {i \in I : \A j \in I : fs[j].hash <= fs[i].hash}

SortStep(fs, D, g) ==
  [I \in D |-> IF I = {} THEN {<<>>}
               ELSE UNION {{Append(s, fs[i]) : s \in g[I \ {i}]} : i \in Highest(fs, I)}]

SortedParts(fs) == CHOOSE g : g = SortStep(fs, SUBSET DOMAIN fs, g)

LEMMA SortDef ==
  ASSUME NEW fs
  PROVE  Sortings(fs) = SortedParts(fs)[DOMAIN fs]
BY DEF Sortings, SortedParts, SortStep, Highest

LEMMA SortSolution ==
  ASSUME NEW fs, IsFiniteSet(DOMAIN fs)
  PROVE  \E g : g = SortStep(fs, SUBSET DOMAIN fs, g)
<1> DEFINE S == DOMAIN fs
           D(n) == {s \in SUBSET S : Cardinality(s) <= n}
           G == {n \in Nat : \E g : g = SortStep(fs, D(n), g)}
<1>1. 0 \in G
  <2>1. \A s \in D(0) : s = {}
    <3> SUFFICES ASSUME NEW s \in D(0), s # {} PROVE FALSE
      OBVIOUS
    <3>1. PICK x \in s : TRUE
      OBVIOUS
    <3>2. s \in SUBSET S /\ Cardinality(s) <= 0
      OBVIOUS
    <3>3. Cardinality(s) \in Nat /\ Cardinality(s) > 0
      BY <3>1, <3>2, Smaller
    <3> QED
      BY <3>2, <3>3
  <2>2. [s \in D(0) |-> {<<>>}] = SortStep(fs, D(0), [s \in D(0) |-> {<<>>}])
    BY <2>1 DEF SortStep
  <2> QED
    BY <2>2
<1>2. ASSUME NEW n \in G PROVE n + 1 \in G
  <2>1. PICK g : g = SortStep(fs, D(n), g)
    OBVIOUS
  <2> DEFINE h == SortStep(fs, D(n + 1), g)
             made(f, s) == UNION {{Append(t, fs[i]) : t \in f[s \ {i}]} : i \in Highest(fs, s)}
  <2>2. ASSUME NEW s \in D(n + 1), NEW i \in Highest(fs, s) PROVE s \ {i} \in D(n)
    <3>1. i \in s
      BY DEF Highest
    <3> QED
      BY <3>1, Smaller
  <2>3. ASSUME NEW t \in D(n) PROVE h[t] = g[t]
    <3>1. t \in D(n + 1)
      <4>1. Cardinality(t) \in Nat
        BY FS_Subset, FS_CardinalityType
      <4> QED
        BY <4>1
    <3>2. g[t] = SortStep(fs, D(n), g)[t]
      BY <2>1, Zenon
    <3> HIDE DEF D
    <3>3. SortStep(fs, D(n), g)[t] = SortStep(fs, D(n + 1), g)[t]
      BY <3>1 DEF SortStep
    <3> QED
      BY <3>2, <3>3
  <2>4. h = SortStep(fs, D(n + 1), h)
    <3>1. ASSUME NEW s \in D(n + 1) PROVE SortStep(fs, D(n + 1), h)[s] = h[s]
      <4>1. \A i \in Highest(fs, s) : h[s \ {i}] = g[s \ {i}]
        BY <2>2, <2>3
      <4>2. made(h, s) = made(g, s)
        <5> HIDE DEF h, D
        <5> QED
          BY <4>1
      <4>3. \A f : SortStep(fs, D(n + 1), f)[s] = IF s = {} THEN {<<>>} ELSE made(f, s)
        <5> HIDE DEF h, D
        <5> QED
          BY DEF SortStep
      <4>4. h[s] = IF s = {} THEN {<<>>} ELSE made(g, s)
        <5> HIDE DEF made, D
        <5> QED
          BY <4>3
      <4>5. SortStep(fs, D(n + 1), h)[s] = IF s = {} THEN {<<>>} ELSE made(h, s)
        <5> HIDE DEF made, D, h
        <5> QED
          BY <4>3
      <4> HIDE DEF made, D, h
      <4> QED
        BY <4>2, <4>4, <4>5
    <3>2. DOMAIN h = D(n + 1) /\ h = [s \in DOMAIN h |-> h[s]]
      BY DEF SortStep
    <3>3. SortStep(fs, D(n + 1), h) = [s \in D(n + 1) |-> SortStep(fs, D(n + 1), h)[s]]
      <4> HIDE DEF h, D
      <4> QED
        BY DEF SortStep
    <3> HIDE DEF h, D
    <3> QED
      BY <3>1, <3>2, <3>3
  <2>5. \E f : f = SortStep(fs, D(n + 1), f)
    BY <2>4
  <2>6. n + 1 \in Nat
    OBVIOUS
  <2> HIDE DEF D
  <2> QED
    BY <2>5, <2>6
<1>3. G = Nat
  <2>1. G \in SUBSET Nat
    OBVIOUS
  <2> HIDE DEF G
  <2> QED
    BY <1>1, <1>2, <2>1, SetInduction
<1>4. Cardinality(S) \in G
  BY <1>3, FS_CardinalityType
<1>5. D(Cardinality(S)) = SUBSET S
  BY FS_Subset
<1> QED
  BY <1>4, <1>5

LEMMA SortEquation ==
  ASSUME NEW fs, IsFiniteSet(DOMAIN fs), NEW I \in SUBSET DOMAIN fs
  PROVE  SortedParts(fs)[I] = IF I = {} THEN {<<>>}
                        ELSE UNION {{Append(s, fs[i]) : s \in SortedParts(fs)[I \ {i}]} : i \in Highest(fs, I)}
<1> DEFINE g == SortedParts(fs)
<1>1. g = SortStep(fs, SUBSET DOMAIN fs, g)
  BY SortSolution DEF SortedParts
<1>2. g[I] = SortStep(fs, SUBSET DOMAIN fs, g)[I]
  BY <1>1, Zenon
<1> HIDE DEF g
<1>3. g[I] = IF I = {} THEN {<<>>} ELSE UNION {{Append(s, fs[i]) : s \in g[I \ {i}]} : i \in Highest(fs, I)}
  BY <1>2 DEF SortStep
<1> QED
  BY <1>3 DEF g


\* s is what fs has at the positions I, by p once each, in the order of hashes.
SortedBy(fs, I, s, p) ==
  LET n == Cardinality(I)
  IN  /\ n \in Nat /\ p \in [1 .. n -> I]
      /\ \A x, y \in 1 .. n : p[x] = p[y] => x = y
      /\ \A i \in I : \E x \in 1 .. n : p[x] = i
      /\ IsTable(s) /\ Len(s) = n /\ DOMAIN s = 1 .. n
      /\ \A x \in 1 .. n : s[x] = fs[p[x]]
      /\ Ascending(s)

LEMMA SortedNext ==
  ASSUME NEW fs, IsFuncs(fs), NEW I \in SUBSET DOMAIN fs, NEW i \in Highest(fs, I),
         NEW t, NEW p, SortedBy(fs, I \ {i}, t, p)
  PROVE  \E q : SortedBy(fs, I, Append(t, fs[i]), q)
<1> DEFINE J == I \ {i}
           m == Cardinality(J)
           s == Append(t, fs[i])
           q == [x \in 1 .. m + 1 |-> IF x <= m THEN p[x] ELSE i]
<1>1. i \in I /\ \A j \in I : fs[j].hash <= fs[i].hash
  BY DEF Highest
<1>2. /\ m \in Nat /\ p \in [1 .. m -> J]
      /\ \A x, y \in 1 .. m : p[x] = p[y] => x = y
      /\ \A j \in J : \E x \in 1 .. m : p[x] = j
      /\ IsTable(t) /\ Len(t) = m /\ DOMAIN t = 1 .. m
      /\ \A x \in 1 .. m : t[x] = fs[p[x]]
      /\ Ascending(t)
  BY DEF SortedBy
<1>3. Cardinality(I) = m + 1
  <2>1. IsFiniteSet(DOMAIN fs)
    BY FS_Interval DEF IsFuncs
  <2>2. Cardinality(I \ {i}) = Cardinality(I) - 1 /\ Cardinality(I) \in Nat
    BY <1>1, <2>1, Smaller
  <2> QED
    BY <2>2
<1>4. t \in Seq(Values(t)) /\ t \in Seq(Values(t) \cup {fs[i]})
  BY <1>2, SeqMonotonic DEF IsTable
<1> HIDE DEF m, J
<1>5. Len(s) = m + 1 /\ DOMAIN s = 1 .. m + 1 /\ s[m + 1] = fs[i] /\ \A x \in 1 .. m : s[x] = t[x]
  <2> DEFINE X == Values(t) \cup {fs[i]}
  <2>1. t \in Seq(X) /\ fs[i] \in X /\ Len(t) = m
    BY <1>2, <1>4
  <2> HIDE DEF X, s
  <2>2. /\ s \in Seq(X) /\ Len(s) = m + 1 /\ s[m + 1] = fs[i]
        /\ \A x \in 1 .. m : s[x] = t[x]
    BY <2>1, AppendProperties DEF s
  <2> QED
    BY <2>2, LenProperties
<1>6. IsTable(s)
  <2>1. s \in Seq(Values(t) \cup {fs[i]})
    BY <1>4, Zenon, AppendProperties
  <2>2. s = [x \in 1 .. m + 1 |-> s[x]]
    BY <1>5, <2>1, LenProperties
  <2> HIDE DEF s
  <2> QED
    BY <1>2, <2>2, LengthOf
<1> HIDE DEF s
<1>7. q \in [1 .. m + 1 -> I]
  <2>1. \A x \in 1 .. m + 1 : (IF x <= m THEN p[x] ELSE i) \in I
    <3> SUFFICES ASSUME NEW x \in 1 .. m + 1 PROVE (IF x <= m THEN p[x] ELSE i) \in I
      OBVIOUS
    <3>1. x <= m => p[x] \in J
      BY <1>2
    <3> QED
      BY <1>1, <3>1 DEF J
  <2> QED
    BY <2>1
<1>8. \A x \in 1 .. m : q[x] = p[x] /\ q[x] \in J /\ x \in 1 .. m + 1
  BY <1>2
<1>9. q[m + 1] = i /\ m + 1 \in 1 .. m + 1 /\ \A x \in 1 .. m + 1 : x \in 1 .. m \/ x = m + 1
  BY <1>2
<1> HIDE DEF q
<1>10. i \notin J /\ \A j \in I : j \in J \/ j = i
  BY DEF J
<1> DEFINE D == 1 .. m + 1
<1>11. D = 1 .. m + 1
  OBVIOUS
<1> HIDE DEF D, m
<1>12. \A x, y \in D : q[x] = q[y] => x = y
  <2> SUFFICES ASSUME NEW x \in D, NEW y \in D, q[x] = q[y] PROVE x = y
    OBVIOUS
  <2>1. x \in 1 .. m => q[x] \in J /\ q[x] = p[x]
    BY <1>8
  <2>2. y \in 1 .. m => q[y] \in J /\ q[y] = p[y]
    BY <1>8
  <2>3. (x \in 1 .. m \/ x = m + 1) /\ (y \in 1 .. m \/ y = m + 1) /\ q[m + 1] \notin J
    BY <1>9, <1>10, <1>11
  <2> QED
    BY <1>2, <2>1, <2>2, <2>3, Zenon
<1>13. \A j \in I : \E x \in D : q[x] = j
  <2> SUFFICES ASSUME NEW j \in I PROVE \E x \in D : q[x] = j
    OBVIOUS
  <2>1. CASE j = i
    BY <1>9, <1>11, <2>1
  <2>2. CASE j \in J
    <3>1. PICK x \in 1 .. m : p[x] = j
      BY <1>2, <2>2
    <3> QED
      BY <1>8, <1>11, <3>1
  <2> QED
    BY <1>10, <2>1, <2>2
<1>14. \A x \in D : s[x] = fs[q[x]]
  <2> SUFFICES ASSUME NEW x \in D PROVE s[x] = fs[q[x]]
    OBVIOUS
  <2>1. CASE x \in 1 .. m
    BY <1>2, <1>5, <1>8, <2>1
  <2>2. CASE x = m + 1
    BY <1>5, <1>9, <2>2
  <2> QED
    BY <1>9, <1>11, <2>1, <2>2
<1>15. Ascending(s)
  <2> SUFFICES ASSUME NEW x \in D, NEW y \in D, x <= y PROVE s[x].hash <= s[y].hash
    BY <1>5, <1>11 DEF Ascending
  <2>1. CASE y = m + 1
    <3>1. s[x] = fs[q[x]] /\ q[x] \in I /\ s[y] = fs[i]
      BY <1>5, <1>7, <1>11, <1>14, <2>1
    <3> QED
      BY <1>1, <3>1
  <2>2. CASE y \in 1 .. m
    <3>1. x \in 1 .. m
      BY <1>2, <1>11, <2>2
    <3> QED
      BY <1>2, <1>5, <2>2, <3>1 DEF Ascending
  <2> QED
    BY <1>9, <1>11, <2>1, <2>2
<1>16. m + 1 \in Nat
  BY <1>2
<1>17. SortedBy(fs, I, s, q)
  BY <1>3, <1>5, <1>6, <1>7, <1>11, <1>12, <1>13, <1>14, <1>15, <1>16 DEF SortedBy
<1> QED
  BY <1>17 DEF s

LEMMA SortFacts ==
  ASSUME NEW fs, IsFuncs(fs), NEW s \in Sortings(fs)
  PROVE  \E p : SortedBy(fs, DOMAIN fs, s, p)
<1> DEFINE G == {n \in Nat : \A I \in SUBSET DOMAIN fs : Cardinality(I) = n =>
                               \A t \in SortedParts(fs)[I] : \E p : SortedBy(fs, I, t, p)}
<1>0. IsFiniteSet(DOMAIN fs) /\ Cardinality(DOMAIN fs) \in Nat
  BY FS_Interval, FS_CardinalityType DEF IsFuncs
<1>1. 0 \in G
  <2>1. ASSUME NEW I \in SUBSET DOMAIN fs, Cardinality(I) = 0, NEW t \in SortedParts(fs)[I]
        PROVE  \E p : SortedBy(fs, I, t, p)
    <3>1. I = {}
      BY <1>0, <2>1, FS_Subset, FS_EmptySet
    <3>2. t = <<>>
      <4>1. SortedParts(fs)[{}] = {<<>>}
        BY <1>0, SortEquation
      <4> QED
        BY <2>1, <3>1, <4>1
    <3>3. 1 .. 0 = {} /\ Len(<<>>) = 0 /\ DOMAIN <<>> = {} /\ IsTable(<<>>)
      BY DEF IsTable
    <3>4. [x \in 1 .. 0 |-> 0] \in [1 .. 0 -> I]
      BY <3>3
    <3>5. SortedBy(fs, I, t, [x \in 1 .. 0 |-> 0])
      BY <2>1, <3>1, <3>2, <3>3, <3>4 DEF SortedBy, Ascending
    <3> QED
      BY <3>5
  <2> QED
    BY <2>1
<1>2. ASSUME NEW n \in G PROVE n + 1 \in G
  <2>1. ASSUME NEW I \in SUBSET DOMAIN fs, Cardinality(I) = n + 1, NEW t \in SortedParts(fs)[I]
        PROVE  \E p : SortedBy(fs, I, t, p)
    <3>1. I # {}
      BY <2>1, FS_EmptySet
    <3>2. t \in UNION {{Append(s1, fs[i]) : s1 \in SortedParts(fs)[I \ {i}]} : i \in Highest(fs, I)}
      BY <1>0, <2>1, <3>1, SortEquation
    <3>3. PICK i \in Highest(fs, I) : \E s1 \in SortedParts(fs)[I \ {i}] : t = Append(s1, fs[i])
      BY <3>2
    <3>4. PICK s1 \in SortedParts(fs)[I \ {i}] : t = Append(s1, fs[i])
      BY <3>3
    <3>5. i \in I
      BY DEF Highest
    <3>6. Cardinality(I \ {i}) = n /\ I \ {i} \in SUBSET DOMAIN fs
      BY <1>0, <2>1, <3>5, Smaller
    <3>7. PICK p : SortedBy(fs, I \ {i}, s1, p)
      BY <3>6
    <3> QED
      BY <3>4, <3>7, SortedNext
  <2>2. n + 1 \in Nat
    OBVIOUS
  <2> QED
    BY <2>1, <2>2
<1>3. G = Nat
  <2>1. G \in SUBSET Nat
    OBVIOUS
  <2> HIDE DEF G
  <2> QED
    BY <1>1, <1>2, <2>1, SetInduction
<1>4. s \in SortedParts(fs)[DOMAIN fs]
  BY SortDef
<1>5. Cardinality(DOMAIN fs) \in G
  <2> HIDE DEF G
  <2> QED
    BY <1>0, <1>3
<1> QED
  BY <1>4, <1>5


-----------------------------------------------------------------------------
(***************************************************************************)
(* The functions that were read are those the modules define, one by one.  *)
(***************************************************************************)
OneToOne(b, S, T) ==
  /\ b \in [S -> T]
  /\ \A x, y \in S : b[x] = b[y] => x = y
  /\ \A y \in T : \E x \in S : b[x] = y

LEMMA OneToOneCounts ==
  ASSUME NEW S, NEW T, NEW b, OneToOne(b, S, T), IsFiniteSet(S)
  PROVE  IsFiniteSet(T) /\ Cardinality(T) = Cardinality(S) /\ Cardinality(T) \in Nat
<1>1. DOMAIN b = S /\ \A x, y \in S : b[x] = b[y] => x = y
  BY DEF OneToOne
<1>2. T = {b[x] : x \in S}
  BY DEF OneToOne
<1> QED
  BY <1>1, <1>2, ImageFacts

LEMMA SumAlong ==
  ASSUME NEW S, NEW T, NEW b, OneToOne(b, S, T), IsFiniteSet(S), NEW M, NEW N,
         \A x \in S : M[x] = N[b[x]], \A y \in T : N[y] \in Nat
  PROVE  Total(M, S) = Total(N, T)
<1>1. /\ b \in [S -> T] /\ \A x, y \in S : b[x] = b[y] => x = y
      /\ \A y \in T : \E x \in S : b[x] = y
  BY DEF OneToOne
<1> QED
  BY <1>1, SumOrder

LEMMA OneToOneAfter ==
  ASSUME NEW S, NEW T, NEW U, NEW b, NEW c, OneToOne(b, S, T), OneToOne(c, T, U)
  PROVE  OneToOne([x \in S |-> c[b[x]]], S, U)
BY DEF OneToOne

\* A part of S goes to those of T that have the property their origins have.
LEMMA OneToOnePart ==
  ASSUME NEW S, NEW T, NEW b, OneToOne(b, S, T), NEW A \in SUBSET S, NEW B \in SUBSET T,
         \A x \in S : x \in A <=> b[x] \in B
  PROVE  OneToOne([x \in A |-> b[x]], A, B)
BY DEF OneToOne

Lists(fs, D, b) ==
  /\ IsTable(fs) /\ IsFuncs(fs)
  /\ OneToOne(b, DOMAIN fs, D)
  /\ \A x \in DOMAIN fs : fs[x] = Desc(b[x])

Upto(n) == {d \in Definitions : d[1] <= n}

LEMMA ListedSorted ==
  ASSUME NEW fs, NEW D, NEW b, Lists(fs, D, b), NEW s \in Sortings(fs)
  PROVE  Ascending(s) /\ \E c : Lists(s, D, c)
<1>1. PICK p : SortedBy(fs, DOMAIN fs, s, p)
  BY SortFacts DEF Lists
<1>2. OneToOne(p, DOMAIN s, DOMAIN fs) /\ IsTable(s) /\ Ascending(s) /\ Len(s) \in Nat /\ DOMAIN s = 1 .. Len(s)
  BY <1>1 DEF SortedBy, OneToOne
<1>3. \A x \in DOMAIN s : s[x] = fs[p[x]] /\ p[x] \in DOMAIN fs
  BY <1>1 DEF SortedBy
<1>4. IsFuncs(s)
  BY <1>2, <1>3 DEF Lists, IsFuncs
<1> DEFINE c == [x \in DOMAIN s |-> b[p[x]]]
<1>5. OneToOne(c, DOMAIN s, D)
  BY <1>2, OneToOneAfter DEF Lists
<1>6. \A x \in DOMAIN s : s[x] = Desc(c[x])
  BY <1>3 DEF Lists
<1>7. Lists(s, D, c)
  BY <1>2, <1>4, <1>5, <1>6 DEF Lists
<1> QED
  BY <1>2, <1>7

LEMMA DefinitionsAre ==
  ASSUME NEW d
  PROVE  d \in Definitions <=> \E i \in DOMAIN infos : \E k \in Defined(infos[i].file) : d = <<i, k>>
BY DEF Definitions

LEMMA DefinedFacts ==
  ASSUME NEW f \in DOMAIN Content
  PROVE  LET I == Defined(f)
             fs == FuncDescs(f)
         IN  /\ I \in SUBSET Nat /\ IsFiniteSet(I) /\ Cardinality(I) \in Nat
             /\ IsTable(fs) /\ Len(fs) = Cardinality(I) /\ DOMAIN fs = 1 .. Cardinality(I)
             /\ \A x \in 1 .. Cardinality(I) :
                  /\ Nth(I, x) \in I
                  /\ fs[x] = FuncDesc(f, Content[f].funcs[Nth(I, x)])
                  /\ fs[x].insts \in Nat /\ fs[x].hash \in Nat
<1> DEFINE I == Defined(f)
           F == Content[f].funcs
           n == Cardinality(I)
           fs == FuncDescs(f)
<1>1. F \in Seq(Content_Function)
  BY CommandAssumption DEF Content_Module
<1>2. Len(F) \in Nat /\ DOMAIN F = 1 .. Len(F) /\ \A k \in DOMAIN F : F[k] \in Content_Function
  BY <1>1, LenProperties, ElementOfSeq
<1>3. I \in SUBSET DOMAIN F
  BY DEF Defined
<1>4. I \in SUBSET Nat /\ IsFiniteSet(I)
  <2>1. DOMAIN F \subseteq Nat /\ IsFiniteSet(DOMAIN F)
    BY <1>2, FS_Interval
  <2> HIDE DEF I, F
  <2> QED
    BY <1>3, <2>1, FS_Subset
<1>5. n \in Nat /\ \A x \in 1 .. n : Nth(I, x) \in I
  <2> HIDE DEF I
  <2> QED
    BY <1>4, NthCounts
<1>6. Selected(F, I) = [x \in 1 .. n |-> F[Nth(I, x)]]
  BY DEF Selected
<1>7. fs = [x \in 1 .. n |-> FuncDesc(f, F[Nth(I, x)])]
  <2> DEFINE S == Selected(F, I)
  <2>1. fs = [k \in DOMAIN S |-> FuncDesc(f, S[k])]
    BY Zenon DEF FuncDescs
  <2> HIDE DEF I, F, fs
  <2> QED
    BY <1>6, <2>1
<1> HIDE DEF fs, n, I, F
<1>8. IsTable(fs) /\ Len(fs) = n /\ DOMAIN fs = 1 .. n
  <2>1. fs = [x \in 1 .. n |-> fs[x]]
    BY <1>7
  <2> QED
    BY <1>5, <2>1, LengthOf
<1>9. \A x \in 1 .. n : fs[x] = FuncDesc(f, F[Nth(I, x)]) /\ F[Nth(I, x)] \in Content_Function
  BY <1>2, <1>3, <1>5, <1>7
<1>10. \A x \in 1 .. n : fs[x].insts \in Nat /\ fs[x].hash \in Nat
  <2>1. \A F1 \in Content_Function : F1.insts \in Nat /\ F1.hash \in Nat
    BY DEF Content_Function
  <2>2. \A F1 : FuncDesc(f, F1).insts = F1.insts /\ FuncDesc(f, F1).hash = F1.hash
    BY DEF FuncDesc
  <2> QED
    BY <1>9, <2>1, <2>2
<1> QED
  BY <1>4, <1>5, <1>8, <1>9, <1>10 DEF I, fs, F, n

LEMMA ListedNext ==
  ASSUME NEW n \in Nat, n + 1 \in DOMAIN infos, DOMAIN infos \subseteq Nat,
         infos[n + 1].file \in DOMAIN Content,
         NEW fs, NEW b, Lists(fs, Upto(n), b)
  PROVE  \E c : Lists(fs \o FuncDescs(infos[n + 1].file), Upto(n + 1), c)
<1> DEFINE f == infos[n + 1].file
           I == Defined(f)
           m == Cardinality(I)
           ds == FuncDescs(f)
           l == Len(fs)
           gs == fs \o ds
           c == [x \in 1 .. l + m |-> IF x <= l THEN b[x] ELSE <<n + 1, Nth(I, x - l)>>]
<1>1. /\ I \in SUBSET Nat /\ IsFiniteSet(I) /\ m \in Nat
      /\ IsTable(ds) /\ Len(ds) = m /\ DOMAIN ds = 1 .. m
      /\ \A x \in 1 .. m :
           /\ Nth(I, x) \in I
           /\ ds[x] = FuncDesc(f, Content[f].funcs[Nth(I, x)])
           /\ ds[x].insts \in Nat /\ ds[x].hash \in Nat
  BY DefinedFacts
<1>2. l \in Nat /\ DOMAIN fs = 1 .. l /\ IsTable(fs) /\ OneToOne(b, 1 .. l, Upto(n))
      /\ \A x \in 1 .. l : fs[x] = Desc(b[x]) /\ fs[x].insts \in Nat /\ fs[x].hash \in Nat
  BY DEF Lists, IsFuncs
<1>3. /\ \A x, y \in 1 .. m : Nth(I, x) = Nth(I, y) => x = y
      /\ \A i \in I : \E x \in 1 .. m : Nth(I, x) = i
  <2> HIDE DEF I
  <2> QED
    BY <1>1, NthCounts
<1> HIDE DEF ds
<1>4. /\ IsTable(gs) /\ Len(gs) = l + m
      /\ \A x \in 1 .. l + m : gs[x] = IF x <= l THEN fs[x] ELSE ds[x - l]
  BY <1>1, <1>2, ConcatTables
<1>5. DOMAIN gs = 1 .. l + m /\ l + m \in Nat
  BY <1>1, <1>2, <1>4, TableFacts
<1> HIDE DEF gs, m, l
<1>6. \A x \in 1 .. l : x \in 1 .. l + m /\ c[x] = b[x] /\ gs[x] = fs[x]
  BY <1>1, <1>2, <1>4
<1>7. \A x \in 1 .. m : l + x \in 1 .. l + m /\ c[l + x] = <<n + 1, Nth(I, x)>> /\ gs[l + x] = ds[x]
  <2> SUFFICES ASSUME NEW x \in 1 .. m
               PROVE  l + x \in 1 .. l + m /\ c[l + x] = <<n + 1, Nth(I, x)>> /\ gs[l + x] = ds[x]
    OBVIOUS
  <2>1. l + x \in 1 .. l + m /\ ~(l + x <= l) /\ (l + x) - l = x
    BY <1>1, <1>2
  <2> HIDE DEF I
  <2> QED
    BY <1>4, <2>1
<1>8. ASSUME NEW x \in 1 .. l + m
      PROVE  x \in 1 .. l \/ \E y \in 1 .. m : x = l + y
  <2>1. CASE x <= l
    BY <1>2, <2>1
  <2>2. CASE x > l
    <3>1. x - l \in 1 .. m /\ x = l + (x - l)
      BY <1>1, <1>2, <2>2
    <3> QED
      BY <3>1
  <2> QED
    BY <1>1, <1>2, <2>1, <2>2
<1>9. DOMAIN c = 1 .. l + m
  OBVIOUS
<1> HIDE DEF c
<1>10. \A d \in Upto(n) : d \in Upto(n + 1) /\ d[1] <= n /\ d[1] \in Nat
  <2> SUFFICES ASSUME NEW d \in Upto(n) PROVE d \in Upto(n + 1) /\ d[1] <= n /\ d[1] \in Nat
    OBVIOUS
  <2>1. d \in Definitions /\ d[1] <= n
    BY DEF Upto
  <2>2. PICK i \in DOMAIN infos : \E k \in Defined(infos[i].file) : d = <<i, k>>
    BY <2>1, DefinitionsAre
  <2>3. d[1] = i
    BY <2>2
  <2> QED
    BY <2>1, <2>3 DEF Upto
<1>11. \A k \in I : <<n + 1, k>> \in Upto(n + 1)
  <2> SUFFICES ASSUME NEW k \in I PROVE <<n + 1, k>> \in Upto(n + 1)
    OBVIOUS
  <2>1. <<n + 1, k>> \in Definitions
    BY DefinitionsAre
  <2>2. <<n + 1, k>>[1] = n + 1
    OBVIOUS
  <2> QED
    BY <2>1, <2>2 DEF Upto
<1>12. \A d \in Upto(n + 1) : d \in Upto(n) \/ \E k \in I : d = <<n + 1, k>>
  <2> SUFFICES ASSUME NEW d \in Upto(n + 1), d \notin Upto(n) PROVE \E k \in I : d = <<n + 1, k>>
    OBVIOUS
  <2>1. d \in Definitions /\ d[1] <= n + 1 /\ ~(d[1] <= n)
    BY DEF Upto
  <2>2. PICK i \in DOMAIN infos : \E k \in Defined(infos[i].file) : d = <<i, k>>
    BY <2>1, DefinitionsAre
  <2>3. i = n + 1
    <3>1. d[1] = i /\ i \in Nat
      BY <2>2
    <3> QED
      BY <2>1, <3>1
  <2> QED
    BY <2>2, <2>3
<1>13. \A x \in 1 .. l : b[x] \in Upto(n)
  BY <1>2 DEF OneToOne
<1> HIDE DEF I
<1>14. \A x \in 1 .. m : <<n + 1, Nth(I, x)>> \in Upto(n + 1) /\ <<n + 1, Nth(I, x)>> \notin Upto(n)
  <2> SUFFICES ASSUME NEW x \in 1 .. m
               PROVE  <<n + 1, Nth(I, x)>> \in Upto(n + 1) /\ <<n + 1, Nth(I, x)>> \notin Upto(n)
    OBVIOUS
  <2>1. <<n + 1, Nth(I, x)>>[1] = n + 1 /\ ~(n + 1 <= n)
    OBVIOUS
  <2>2. <<n + 1, Nth(I, x)>> \in Upto(n + 1)
    BY <1>1, <1>11
  <2>3. <<n + 1, Nth(I, x)>> \notin Upto(n)
    <3> SUFFICES ASSUME <<n + 1, Nth(I, x)>> \in Upto(n) PROVE FALSE
      OBVIOUS
    <3>1. <<n + 1, Nth(I, x)>>[1] <= n
      BY <1>10
    <3> QED
      BY <2>1, <3>1
  <2> QED
    BY <2>2, <2>3
<1> DEFINE D == 1 .. l + m
<1>15. D = 1 .. l + m
  OBVIOUS
<1> HIDE DEF D
<1>16. \A x \in D : c[x] \in Upto(n + 1)
  <2> SUFFICES ASSUME NEW x \in D PROVE c[x] \in Upto(n + 1)
    OBVIOUS
  <2>1. CASE x \in 1 .. l
    BY <1>6, <1>10, <1>13, <2>1
  <2>2. CASE \E y \in 1 .. m : x = l + y
    <3>1. PICK y \in 1 .. m : x = l + y
      BY <2>2
    <3> QED
      BY <1>7, <1>14, <3>1
  <2> QED
    BY <1>8, <1>15, <2>1, <2>2
<1>17. c \in [D -> Upto(n + 1)]
  <2>1. c = [x \in D |-> c[x]]
    BY <1>9, <1>15 DEF c
  <2> QED
    BY <1>16, <2>1
<1>18. \A x, y \in D : c[x] = c[y] => x = y
  <2> SUFFICES ASSUME NEW x \in D, NEW y \in D, c[x] = c[y] PROVE x = y
    OBVIOUS
  <2>1. \A z \in D : z \in 1 .. l => c[z] = b[z] /\ c[z] \in Upto(n)
    BY <1>6, <1>13
  <2>2. \A z \in D : z \notin 1 .. l => \E u \in 1 .. m : z = l + u /\ c[z] = <<n + 1, Nth(I, u)>> /\ c[z] \notin Upto(n)
    <3> SUFFICES ASSUME NEW z \in D, z \notin 1 .. l
                 PROVE  \E u \in 1 .. m : z = l + u /\ c[z] = <<n + 1, Nth(I, u)>> /\ c[z] \notin Upto(n)
      OBVIOUS
    <3>1. PICK u \in 1 .. m : z = l + u
      BY <1>8, <1>15
    <3> QED
      BY <1>7, <1>14, <3>1
  <2>3. CASE x \in 1 .. l /\ y \in 1 .. l
    <3>1. b[x] = b[y]
      BY <2>1, <2>3
    <3> QED
      BY <1>2, <2>3, <3>1 DEF OneToOne
  <2>4. CASE x \notin 1 .. l /\ y \notin 1 .. l
    <3>1. PICK u \in 1 .. m : x = l + u /\ c[x] = <<n + 1, Nth(I, u)>>
      BY <2>2, <2>4
    <3>2. PICK v \in 1 .. m : y = l + v /\ c[y] = <<n + 1, Nth(I, v)>>
      BY <2>2, <2>4
    <3>3. Nth(I, u) = Nth(I, v)
      BY <3>1, <3>2
    <3> QED
      BY <1>3, <3>1, <3>2, <3>3
  <2>5. x \in 1 .. l <=> y \in 1 .. l
    BY <2>1, <2>2
  <2> QED
    BY <2>3, <2>4, <2>5
<1>19. \A d \in Upto(n + 1) : \E x \in D : c[x] = d
  <2> SUFFICES ASSUME NEW d \in Upto(n + 1) PROVE \E x \in D : c[x] = d
    OBVIOUS
  <2>1. CASE d \in Upto(n)
    <3>1. PICK x \in 1 .. l : b[x] = d
      BY <1>2, <2>1 DEF OneToOne
    <3> QED
      BY <1>6, <1>15, <3>1
  <2>2. CASE \E k \in I : d = <<n + 1, k>>
    <3>1. PICK k \in I : d = <<n + 1, k>>
      BY <2>2
    <3>2. PICK x \in 1 .. m : Nth(I, x) = k
      BY <1>3
    <3> QED
      BY <1>7, <1>15, <3>1, <3>2
  <2> QED
    BY <1>12, <2>1, <2>2 DEF I
<1>20. \A x \in D : gs[x] = Desc(c[x]) /\ gs[x].insts \in Nat /\ gs[x].hash \in Nat
  <2> SUFFICES ASSUME NEW x \in D PROVE gs[x] = Desc(c[x]) /\ gs[x].insts \in Nat /\ gs[x].hash \in Nat
    OBVIOUS
  <2>1. CASE x \in 1 .. l
    BY <1>2, <1>6, <2>1
  <2>2. CASE \E y \in 1 .. m : x = l + y
    <3>1. PICK y \in 1 .. m : x = l + y
      BY <2>2
    <3>2. c[x] = <<n + 1, Nth(I, y)>> /\ gs[x] = ds[y]
      BY <1>7, <3>1
    <3>3. Desc(c[x]) = FuncDesc(f, Content[f].funcs[Nth(I, y)])
      BY <3>2 DEF Desc
    <3> QED
      BY <1>1, <3>2, <3>3
  <2> QED
    BY <1>8, <1>15, <2>1, <2>2
<1>21. Lists(gs, Upto(n + 1), c)
  BY <1>4, <1>5, <1>15, <1>17, <1>18, <1>19, <1>20 DEF Lists, IsFuncs, OneToOne
<1> QED
  BY <1>21 DEF gs, ds


\* What the list of all functions says of the functions of one hash.
Reflects(fs) ==
  /\ IsFiniteSet(Definitions) /\ Cardinality(Definitions) = Len(fs)
  /\ \A h : /\ NumberWith(h) = Cardinality(With(fs, h))
            /\ InstsWith(h) = Total(Insts(fs), With(fs, h))
            /\ FilesWith(h) = {fs[i].source : i \in With(fs, h)}
  /\ Hashes = {fs[i].hash : i \in DOMAIN fs}
  /\ HashTellsSize <=> \A i, j \in DOMAIN fs : fs[i].hash = fs[j].hash => fs[i].insts = fs[j].insts

LEMMA ListReflects ==
  ASSUME NEW fs, NEW b, Lists(fs, Definitions, b)
  PROVE  Reflects(fs)
<1> DEFINE D == DOMAIN fs
<1>1. /\ IsFuncs(fs) /\ OneToOne(b, D, Definitions)
      /\ \A x \in D : fs[x] = Desc(b[x]) /\ b[x] \in Definitions
      /\ \A d \in Definitions : \E x \in D : b[x] = d
  BY DEF Lists, OneToOne
<1>2. IsFiniteSet(D) /\ Cardinality(D) = Len(fs) /\ D = 1 .. Len(fs) /\ Len(fs) \in Nat
  BY <1>1, FS_Interval DEF IsFuncs
<1>3. IsFiniteSet(Definitions) /\ Cardinality(Definitions) = Len(fs)
  BY <1>1, <1>2, OneToOneCounts
<1>4. \A d \in Definitions : Desc(d).insts \in Nat
  BY <1>1 DEF IsFuncs
<1>5. ASSUME NEW h
      PROVE  /\ NumberWith(h) = Cardinality(With(fs, h))
             /\ InstsWith(h) = Total(Insts(fs), With(fs, h))
             /\ FilesWith(h) = {fs[i].source : i \in With(fs, h)}
  <2> DEFINE A == With(fs, h)
             B == WithHash(h)
             c == [x \in A |-> b[x]]
             N == [d \in Definitions |-> Desc(d).insts]
  <2>1. A \in SUBSET D /\ B \in SUBSET Definitions /\ \A x \in D : x \in A <=> b[x] \in B
    BY <1>1 DEF With, WithHash
  <2>2. OneToOne(c, A, B) /\ IsFiniteSet(A)
    <3> HIDE DEF A, B
    <3> QED
      BY <1>1, <1>2, <2>1, OneToOnePart, FS_Subset
  <2>3. \A x \in A : c[x] = b[x] /\ b[x] \in B /\ Insts(fs)[x] = N[c[x]]
    <3> SUFFICES ASSUME NEW x \in A PROVE c[x] = b[x] /\ b[x] \in B /\ Insts(fs)[x] = N[c[x]]
      OBVIOUS
    <3>1. x \in D /\ b[x] \in B /\ b[x] \in Definitions
      BY <1>1, <2>1
    <3>2. Insts(fs)[x] = fs[x].insts /\ fs[x] = Desc(b[x])
      BY <1>1, <3>1 DEF Insts
    <3> HIDE DEF A, B
    <3> QED
      BY <3>1, <3>2
  <2>4. \A y \in B : N[y] \in Nat
    BY <1>4, <2>1
  <2>5. Total(Insts(fs), A) = Total(N, B)
    <3> HIDE DEF c, A, B, N
    <3> QED
      BY <2>2, <2>3, <2>4, SumAlong
  <2>6. Cardinality(A) = Cardinality(B)
    <3> HIDE DEF c, A, B
    <3> QED
      BY <2>2, OneToOneCounts
  <2>7. {Desc(d).source : d \in B} = {fs[i].source : i \in A}
    <3>1. \A d \in B : \E x \in A : b[x] = d
      BY <1>1, <2>1
    <3>2. \A x \in A : fs[x] = Desc(b[x]) /\ b[x] \in B
      BY <1>1, <2>1
    <3> HIDE DEF A, B
    <3>3. ASSUME NEW d \in B PROVE \E x \in A : Desc(d).source = fs[x].source
      <4>1. PICK x \in A : b[x] = d
        BY <3>1
      <4> QED
        BY <3>2, <4>1
    <3>4. ASSUME NEW x \in A PROVE \E d \in B : Desc(d).source = fs[x].source
      BY <3>2
    <3> QED
      BY <3>3, <3>4
  <2>8. NumberWith(h) = Cardinality(B) /\ InstsWith(h) = Total(N, B) /\ FilesWith(h) = {Desc(d).source : d \in B}
    BY Zenon DEF NumberWith, InstsWith, FilesWith
  <2> QED
    BY <2>5, <2>6, <2>7, <2>8, Zenon
<1> HIDE DEF D
<1>6. Hashes = {fs[i].hash : i \in D}
  <2>1. ASSUME NEW d \in Definitions PROVE \E x \in D : Desc(d).hash = fs[x].hash
    <3>1. PICK x \in D : b[x] = d
      BY <1>1
    <3> QED
      BY <1>1, <3>1
  <2>2. ASSUME NEW x \in D PROVE \E d \in Definitions : Desc(d).hash = fs[x].hash
    BY <1>1
  <2> QED
    BY <2>1, <2>2 DEF Hashes
<1>7. HashTellsSize <=> \A i, j \in D : fs[i].hash = fs[j].hash => fs[i].insts = fs[j].insts
  <2>1. ASSUME HashTellsSize, NEW i \in D, NEW j \in D, fs[i].hash = fs[j].hash PROVE fs[i].insts = fs[j].insts
    BY <1>1, <2>1 DEF HashTellsSize
  <2>2. ASSUME \A i, j \in D : fs[i].hash = fs[j].hash => fs[i].insts = fs[j].insts PROVE HashTellsSize
    <3> SUFFICES ASSUME NEW d \in Definitions, NEW e \in Definitions, Desc(d).hash = Desc(e).hash
                 PROVE  Desc(d).insts = Desc(e).insts
      BY DEF HashTellsSize
    <3>1. PICK x \in D : b[x] = d
      BY <1>1
    <3>2. PICK y \in D : b[y] = e
      BY <1>1
    <3> QED
      BY <1>1, <2>2, <3>1, <3>2
  <2> QED
    BY <2>1, <2>2
<1> QED
  BY <1>3, <1>5, <1>6, <1>7, Zenon DEF Reflects, D

-----------------------------------------------------------------------------
(***************************************************************************)
(* The functions in the order of their hashes, and the groups they make.   *)
(***************************************************************************)
AllSorted(fs, gs) == Ascending(fs) /\ gs = GroupBy(fs, "hash") /\ \E b : Lists(fs, Definitions, b)

\* A group is all the functions of one hash.
IsGroup(g) ==
  LET h == g[1].hash
  IN  /\ h \in Hashes /\ Len(g) \in Nat \ {0} /\ Len(g) = NumberWith(h)
      /\ InstCount(g) \in Nat /\ InstCount(g) = InstsWith(h)
      /\ g[1].insts \in Nat /\ InstCount(Tail(g)) = InstsWith(h) - g[1].insts
      /\ Sources(g) = FilesWith(h) /\ Sources(g) # {} /\ IsFiniteSet(Sources(g))
      /\ HashTellsSize => InstsWith(h) = g[1].insts * NumberWith(h)

AreGroups(gs) ==
  /\ \E k \in Nat : DOMAIN gs = 1 .. k
  /\ \A n \in DOMAIN gs : IsGroup(gs[n])
  /\ \A n, m \in DOMAIN gs : gs[n][1].hash = gs[m][1].hash => n = m

LEMMA GroupsFacts ==
  ASSUME NEW fs, NEW gs, AllSorted(fs, gs)
  PROVE  AreGroups(gs) /\ \A h \in Hashes : \E n \in DOMAIN gs : gs[n][1].hash = h
<1>1. PICK b : Lists(fs, Definitions, b)
  BY DEF AllSorted
<1>2. IsFuncs(fs) /\ fs \in Seq(Values(fs)) /\ Ascending(fs) /\ gs = GroupBy(fs, "hash")
  BY <1>1 DEF Lists, IsTable, AllSorted
<1>3. /\ \E k \in Nat : DOMAIN gs = 1 .. k
      /\ \A n \in DOMAIN gs : GroupOf(fs, gs[n])
      /\ \A n, m \in DOMAIN gs : gs[n][1].hash = gs[m][1].hash => n = m
      /\ \A i \in DOMAIN fs : \E n \in DOMAIN gs : gs[n][1].hash = fs[i].hash
  BY <1>2, HashGroups
<1>4. Reflects(fs)
  BY <1>1, ListReflects
<1>5. \A h \in Hashes : \E n \in DOMAIN gs : gs[n][1].hash = h
  BY <1>3, <1>4 DEF Reflects
<1>6. ASSUME NEW n \in DOMAIN gs PROVE IsGroup(gs[n])
  <2> DEFINE g == gs[n]
             h == g[1].hash
             I == With(fs, h)
  <2>1. /\ DOMAIN g = 1 .. Len(g) /\ Len(g) \in Nat \ {0}
        /\ \A j \in DOMAIN g : \E i \in I : g[j] = fs[i]
        /\ Len(g) = Cardinality(I)
        /\ InstCount(g) = Total(Insts(fs), I)
        /\ InstCount(Tail(g)) = Total(Insts(fs), I) - g[1].insts
        /\ Sources(g) = {fs[i].source : i \in I}
    BY <1>3 DEF GroupOf
  <2>2. NumberWith(h) = Cardinality(I) /\ InstsWith(h) = Total(Insts(fs), I) /\ FilesWith(h) = {fs[i].source : i \in I}
    BY <1>4 DEF Reflects
  <2>3. I \in SUBSET DOMAIN fs /\ \A i \in I : fs[i].hash = h
    BY DEF With
  <2> HIDE DEF g, I
  <2>4. 1 \in DOMAIN g
    BY <2>1
  <2>5. PICK i \in I : g[1] = fs[i]
    BY <2>1, <2>4
  <2>6. h \in Hashes /\ g[1].insts \in Nat
    BY <1>2, <1>4, <2>3, <2>5 DEF Reflects, IsFuncs
  <2>7. Total(Insts(fs), I) \in Nat /\ IsFiniteSet(I)
    BY <1>2, <2>3, InstsType
  <2>8. Sources(g) # {}
    <3>1. g[1].source \in Sources(g)
      BY <2>4 DEF Sources
    <3> QED
      BY <3>1
  <2>9. IsFiniteSet({fs[j].source : j \in I})
    <3>1. IsFiniteSet(I) /\ DOMAIN [j \in I |-> fs[j].source] = I /\ \A j \in I : [x \in I |-> fs[x].source][j] = fs[j].source
      BY <2>7
    <3>2. IsFiniteSet({[x \in I |-> fs[x].source][j] : j \in I})
      BY <3>1, ImageFacts
    <3> QED
      BY <3>2
  <2>10. ASSUME HashTellsSize PROVE InstsWith(h) = g[1].insts * NumberWith(h)
    <3>1. \A j \in I : Insts(fs)[j] = g[1].insts
      <4> SUFFICES ASSUME NEW j \in I PROVE Insts(fs)[j] = g[1].insts
        OBVIOUS
      <4>1. fs[j].hash = fs[i].hash /\ j \in DOMAIN fs /\ i \in DOMAIN fs
        BY <2>3
      <4>2. fs[j].insts = fs[i].insts
        BY <1>4, <2>10, <4>1 DEF Reflects
      <4> QED
        BY <2>5, <4>1, <4>2 DEF Insts
    <3> DEFINE N == Insts(fs)
               c == g[1].insts
    <3> HIDE DEF N, c
    <3>2. Total(N, I) = c * Cardinality(I)
      BY <2>6, <2>7, <3>1, SumConstant DEF N, c
    <3> QED
      BY <2>2, <3>2 DEF N, c
  <2>11. IsGroup(g)
    BY <2>1, <2>2, <2>6, <2>7, <2>8, <2>9, <2>10 DEF IsGroup
  <2> QED
    BY <2>11 DEF g
<1> QED
  BY <1>3, <1>5, <1>6 DEF AreGroups


LEMMA Quotient ==
  ASSUME NEW s \in Nat, NEW k \in Nat \ {0}
  PROVE  (s * k) \div k = s /\ s * k \in Nat /\ s * k - s \in Nat
OBVIOUS

LEMMA HashesFinite ==
  ASSUME NEW gs, AreGroups(gs), \A h \in Hashes : \E n \in DOMAIN gs : gs[n][1].hash = h
  PROVE  IsFiniteSet(Hashes)
<1> DEFINE f == [n \in DOMAIN gs |-> gs[n][1].hash]
<1>1. PICK k \in Nat : DOMAIN gs = 1 .. k
  BY DEF AreGroups
<1>2. IsFiniteSet(DOMAIN gs)
  BY <1>1, FS_Interval
<1>3. IsFiniteSet({f[n] : n \in DOMAIN gs})
  <2>1. DOMAIN f = DOMAIN gs
    OBVIOUS
  <2> HIDE DEF f
  <2> QED
    BY <1>2, <2>1, ImageFacts
<1>4. Hashes \subseteq {f[n] : n \in DOMAIN gs}
  OBVIOUS
<1> QED
  BY <1>3, <1>4, FS_Subset

-----------------------------------------------------------------------------
(***************************************************************************)
(* The groups that are printed.                                            *)
(***************************************************************************)
PrintedRight(groups, redundant) ==
  /\ {<<g[1].hash, Len(g)>> : g \in ToSet(groups)} =
       {<<h, NumberWith(h)>> : h \in {h \in Hashes : NumberWith(h) > 1}}
  /\ \A i, j \in DOMAIN groups : i < j => Len(groups[i]) >= Len(groups[j])
  /\ HashTellsSize =>
       redundant = Total([h \in Hashes |-> InstsWith(h) - InstsWith(h) \div NumberWith(h)], Hashes)

LEMMA LargestPrinted ==
  ASSUME NEW fs, NEW all, AllSorted(fs, all), NEW gs \in LargestFirst(all)
  PROVE  PrintedRight(gs, Redundant(gs))
<1> DEFINE many == {i \in DOMAIN all : Len(all[i]) > 1}
           k == Cardinality(many)
           Many == {h \in Hashes : NumberWith(h) > 1}
           N == [h \in Hashes |-> InstsWith(h) - InstsWith(h) \div NumberWith(h)]
<1>1. AreGroups(all) /\ \A h \in Hashes : \E n \in DOMAIN all : all[n][1].hash = h
  BY GroupsFacts
<1>2. PICK p \in [1 .. k -> many] :
        /\ \A i \in many : \E n \in DOMAIN p : p[n] = i
        /\ \A n, m \in DOMAIN p : n < m => Len(all[p[n]]) >= Len(all[p[m]])
        /\ gs = [n \in DOMAIN p |-> all[p[n]]]
  BY Zenon DEF LargestFirst
<1>3. IsFiniteSet(many) /\ k \in Nat /\ many \in SUBSET DOMAIN all
  <2>1. IsFiniteSet(DOMAIN all)
    BY <1>1, FS_Interval DEF AreGroups
  <2> QED
    BY <2>1, FS_Subset, FS_CardinalityType
<1>4. \A i \in many : IsGroup(all[i]) /\ all[i][1].hash \in Many
  <2> SUFFICES ASSUME NEW i \in many PROVE IsGroup(all[i]) /\ all[i][1].hash \in Many
    OBVIOUS
  <2>1. IsGroup(all[i]) /\ Len(all[i]) > 1
    BY <1>1 DEF AreGroups
  <2> QED
    BY <2>1 DEF IsGroup
<1>5. \A h \in Many : \E i \in many : all[i][1].hash = h
  <2> SUFFICES ASSUME NEW h \in Many PROVE \E i \in many : all[i][1].hash = h
    OBVIOUS
  <2>1. PICK i \in DOMAIN all : all[i][1].hash = h
    BY <1>1
  <2>2. Len(all[i]) = NumberWith(h)
    BY <1>1, <2>1 DEF AreGroups, IsGroup
  <2> QED
    BY <2>1, <2>2
<1>6. \A i, j \in many : all[i][1].hash = all[j][1].hash => i = j
  BY <1>3, <1>1 DEF AreGroups
<1>7. \A h \in Many : h \in Hashes /\ NumberWith(h) > 1
  OBVIOUS
<1> DEFINE D == 1 .. k
<1>8. /\ DOMAIN gs = D /\ p \in [D -> many]
      /\ \A n \in D : gs[n] = all[p[n]] /\ p[n] \in many
      /\ \A i \in many : \E n \in D : p[n] = i
  BY <1>2
<1>9. IsFiniteSet(D) /\ Cardinality(D) = k
  BY <1>3, FS_Interval
<1>10. \A n, m \in D : p[n] = p[m] => n = m
  <2>1. p \in Surjection(D, many)
    <3> HIDE DEF D, many
    <3> QED
      BY <1>8 DEF Surjection
  <2>2. p \in Injection(D, many)
    <3> HIDE DEF D, many
    <3> QED
      BY <1>9, <2>1, FS_Surjection DEF k
  <2> QED
    BY <2>2 DEF Injection, IsInjective
<1>11. \A i, j \in DOMAIN gs : i < j => Len(gs[i]) >= Len(gs[j])
  BY <1>2, <1>8
<1> HIDE DEF many, Many, k, D
<1>12. {<<g[1].hash, Len(g)>> : g \in ToSet(gs)} = {<<h, NumberWith(h)>> : h \in Many}
  <2>1. ToSet(gs) = {gs[n] : n \in D}
    BY <1>8, Zenon DEF ToSet
  <2>2. ASSUME NEW g \in ToSet(gs)
        PROVE  \E h \in Many : <<g[1].hash, Len(g)>> = <<h, NumberWith(h)>>
    <3>1. PICK n \in D : g = gs[n]
      BY <2>1
    <3>2. IsGroup(g) /\ g[1].hash \in Many
      BY <1>4, <1>8, <3>1
    <3> QED
      BY <3>2 DEF IsGroup
  <2>3. ASSUME NEW h \in Many
        PROVE  \E g \in ToSet(gs) : <<g[1].hash, Len(g)>> = <<h, NumberWith(h)>>
    <3>1. PICK i \in many : all[i][1].hash = h
      BY <1>5
    <3>2. PICK n \in D : p[n] = i
      BY <1>8
    <3>3. gs[n] \in ToSet(gs) /\ gs[n] = all[i] /\ IsGroup(gs[n])
      BY <1>4, <1>8, <2>1, <3>2
    <3> QED
      BY <3>1, <3>3 DEF IsGroup
  <2> QED
    BY <2>2, <2>3
<1>13. ASSUME HashTellsSize PROVE Redundant(gs) = Total(N, Hashes)
  <2> DEFINE M == [n \in DOMAIN gs |-> InstCount(Tail(gs[n]))]
             c == [n \in D |-> gs[n][1].hash]
             Lone == Hashes \ Many
  <2>1. ASSUME NEW h \in Hashes
        PROVE  /\ N[h] \in Nat /\ (h \notin Many => N[h] = 0)
               /\ \A n \in DOMAIN all : all[n][1].hash = h => InstCount(Tail(all[n])) = N[h]
    <3>1. PICK n \in DOMAIN all : all[n][1].hash = h
      BY <1>1
    <3> DEFINE s == all[n][1].insts
               x == NumberWith(h)
    <3>2. /\ s \in Nat /\ x \in Nat \ {0} /\ InstsWith(h) = s * x
          /\ InstCount(Tail(all[n])) = InstsWith(h) - s
      BY <1>1, <1>13, <3>1 DEF AreGroups, IsGroup
    <3> HIDE DEF s, x
    <3>3. (s * x) \div x = s /\ s * x \in Nat /\ s * x - s \in Nat
      BY <3>2, Quotient
    <3>4. N[h] = InstsWith(h) - InstsWith(h) \div x
      BY DEF x
    <3>5. N[h] = s * x - s
      BY <3>2, <3>3, <3>4
    <3>6. h \notin Many => N[h] = 0
      <4> SUFFICES ASSUME h \notin Many PROVE N[h] = 0
        OBVIOUS
      <4>1. ~(x > 1)
        BY DEF Many, x
      <4>2. x = 1
        BY <3>2, <4>1
      <4> HIDE DEF N
      <4> QED
        BY <3>2, <3>5, <4>2
    <3>7. \A m \in DOMAIN all : all[m][1].hash = h => m = n
      BY <1>1, <3>1 DEF AreGroups
    <3> QED
      BY <3>2, <3>3, <3>5, <3>6, <3>7
  <2>2. OneToOne(c, D, Many)
    <3>1. \A n \in D : c[n] \in Many
      BY <1>4, <1>8
    <3>2. \A n, m \in D : c[n] = c[m] => n = m
      BY <1>6, <1>8, <1>10
    <3>3. \A h \in Many : \E n \in D : c[n] = h
      <4> SUFFICES ASSUME NEW h \in Many PROVE \E n \in D : c[n] = h
        OBVIOUS
      <4>1. PICK i \in many : all[i][1].hash = h
        BY <1>5
      <4>2. PICK n \in D : p[n] = i
        BY <1>8
      <4> QED
        BY <1>8, <4>1, <4>2
    <3> QED
      BY <3>1, <3>2, <3>3 DEF OneToOne
  <2>3. Many \in SUBSET Hashes
    BY <1>7
  <2>4. \A n \in D : M[n] = N[c[n]]
    <3> SUFFICES ASSUME NEW n \in D PROVE M[n] = N[c[n]]
      OBVIOUS
    <3>1. c[n] = all[p[n]][1].hash /\ M[n] = InstCount(Tail(all[p[n]])) /\ p[n] \in DOMAIN all
      BY <1>3, <1>8
    <3>2. c[n] \in Hashes
      BY <2>2, <2>3 DEF OneToOne
    <3> HIDE DEF c, M, N
    <3> QED
      BY <2>1, <3>1, <3>2
  <2>5. IsFiniteSet(Hashes)
    BY <1>1, HashesFinite
  <2>6. Redundant(gs) = Total(M, D)
    BY <1>8 DEF Redundant
  <2>7. IsFiniteSet(Many) /\ IsFiniteSet(Lone) /\ Many \cap Lone = {} /\ Many \cup Lone = Hashes
    BY <2>3, <2>5, FS_Subset
  <2>8. \A h \in Lone : h \in Hashes /\ h \notin Many
    OBVIOUS
  <2> HIDE DEF M, N, c, Lone
  <2>9. Total(M, D) = Total(N, Many)
    BY <1>9, <2>1, <2>2, <2>3, <2>4, SumAlong
  <2>10. Total(N, Hashes) = Total(N, Many) + Total(N, Lone)
    BY <2>1, <2>7, SumUnion
  <2>11. Total(N, Lone) = 0
    <3>1. \A h \in Lone : N[h] = 0
      BY <2>1, <2>8
    <3>2. Total(N, Lone) = 0 * Cardinality(Lone)
      BY <2>7, <3>1, SumConstant
    <3> QED
      BY <2>7, <3>2, FS_CardinalityType
  <2>12. Total(N, Many) \in Nat
    BY <2>1, <2>3, <2>7, SumType
  <2> QED
    BY <2>6, <2>9, <2>10, <2>11, <2>12
<1> QED
  BY <1>11, <1>12, <1>13, Zenon DEF PrintedRight, Many, N


-----------------------------------------------------------------------------
(***************************************************************************)
(* The rows of the table of functions.                                     *)
(***************************************************************************)
RowsRight(rows) ==
  /\ SameHash(rows)
  /\ Len(rows) = Cardinality(Definitions)
  /\ \A d \in Definitions :
       Cardinality({n \in DOMAIN rows : rows[n] = Desc(d)}) = Cardinality({e \in Definitions : Desc(e) = Desc(d)})

LEMMA SortedRows ==
  ASSUME NEW fs, NEW gs, AllSorted(fs, gs)
  PROVE  RowsRight(fs)
<1>1. PICK b : Lists(fs, Definitions, b)
  BY DEF AllSorted
<1>2. /\ IsFuncs(fs) /\ Ascending(fs) /\ OneToOne(b, DOMAIN fs, Definitions)
      /\ \A x \in DOMAIN fs : fs[x] = Desc(b[x])
  BY <1>1 DEF Lists, AllSorted
<1>3. IsFiniteSet(DOMAIN fs)
  BY <1>2, FS_Interval DEF IsFuncs
<1>4. SameHash(fs)
  <2> SUFFICES ASSUME NEW i \in DOMAIN fs, NEW j \in DOMAIN fs, NEW k \in DOMAIN fs,
                      i < j, j < k, fs[i].hash = fs[k].hash
               PROVE  fs[j].hash = fs[i].hash
    BY DEF SameHash
  <2>1. i <= j /\ j <= k /\ fs[i].hash \in Nat /\ fs[j].hash \in Nat
    BY <1>2 DEF IsFuncs
  <2>2. fs[i].hash <= fs[j].hash /\ fs[j].hash <= fs[k].hash
    BY <1>2, <2>1 DEF Ascending
  <2> QED
    BY <2>1, <2>2
<1>5. Len(fs) = Cardinality(Definitions)
  BY <1>1, ListReflects DEF Reflects
<1>6. ASSUME NEW d \in Definitions
      PROVE  Cardinality({n \in DOMAIN fs : fs[n] = Desc(d)}) = Cardinality({e \in Definitions : Desc(e) = Desc(d)})
  <2> DEFINE A == {n \in DOMAIN fs : fs[n] = Desc(d)}
             B == {e \in Definitions : Desc(e) = Desc(d)}
             c == [x \in A |-> b[x]]
  <2>1. \A x \in DOMAIN fs : b[x] \in Definitions
    BY <1>2 DEF OneToOne
  <2>2. A \in SUBSET DOMAIN fs /\ B \in SUBSET Definitions /\ \A x \in DOMAIN fs : x \in A <=> b[x] \in B
    BY <1>2, <2>1
  <2>3. IsFiniteSet(A)
    BY <1>3, <2>2, FS_Subset
  <2> HIDE DEF A, B
  <2>4. OneToOne(c, A, B)
    BY <1>2, <2>2, OneToOnePart
  <2> HIDE DEF c
  <2>5. Cardinality(B) = Cardinality(A)
    BY <2>3, <2>4, OneToOneCounts
  <2> QED
    BY <2>5 DEF A, B
<1> QED
  BY <1>4, <1>5, <1>6 DEF RowsRight

-----------------------------------------------------------------------------
(***************************************************************************)
(* The groups that are shown in graphs.                                    *)
(***************************************************************************)
SelectedGroups(all) == Selected(all, {n \in DOMAIN all : IsShared(all[n])})

LEMMA SelectedFacts ==
  ASSUME NEW fs, NEW all, AllSorted(fs, all), cmd.threshold \in Nat
  PROVE  LET gs == SelectedGroups(all)
         IN  /\ AreGroups(gs)
             /\ \A n \in DOMAIN gs : Shown(gs[n][1].hash) /\ Average(gs[n]) = InstsWith(gs[n][1].hash) \div NumberWith(gs[n][1].hash)
             /\ \A n \in DOMAIN gs : Average(gs[n]) \in Nat
             /\ \A h \in Hashes : Shown(h) => \E n \in DOMAIN gs : gs[n][1].hash = h
<1> DEFINE I == {n \in DOMAIN all : IsShared(all[n])}
           k == Cardinality(I)
           gs == SelectedGroups(all)
<1>1. AreGroups(all) /\ \A h \in Hashes : \E n \in DOMAIN all : all[n][1].hash = h
  BY GroupsFacts
<1>2. I \in SUBSET Nat /\ IsFiniteSet(I) /\ I \in SUBSET DOMAIN all
  <2>1. IsFiniteSet(DOMAIN all) /\ DOMAIN all \subseteq Nat
    BY <1>1, FS_Interval DEF AreGroups
  <2>2. I \in SUBSET DOMAIN all
    OBVIOUS
  <2> HIDE DEF I
  <2> QED
    BY <2>1, <2>2, FS_Subset
<1>3. ASSUME NEW n \in DOMAIN all
      PROVE  LET h == all[n][1].hash
             IN  /\ Average(all[n]) = InstsWith(h) \div NumberWith(h) /\ Average(all[n]) \in Nat
                 /\ IsShared(all[n]) <=> Shown(h)
  <2> DEFINE g == all[n]
             h == g[1].hash
  <2>1. Len(g) \in Nat \ {0} /\ Len(g) = NumberWith(h) /\ InstCount(g) \in Nat /\ InstCount(g) = InstsWith(h)
    BY <1>1 DEF AreGroups, IsGroup
  <2>2. Average(g) = InstCount(g) \div Len(g)
    BY DEF Average
  <2> HIDE DEF g
  <2>3. InstCount(g) \div Len(g) \in Nat
    <3>1. \A x \in Nat, y \in Nat \ {0} : x \div y \in Nat
      OBVIOUS
    <3> QED
      BY <2>1, <3>1
  <2>4. IsShared(g) <=> Shown(h)
    BY <2>1, <2>2 DEF IsShared, Shown
  <2> QED
    BY <2>1, <2>2, <2>3, <2>4 DEF g
<1> HIDE DEF I
<1>4. /\ k \in Nat /\ \A n \in 1 .. k : Nth(I, n) \in I
      /\ \A n, m \in 1 .. k : Nth(I, n) = Nth(I, m) => n = m
      /\ \A i \in I : \E n \in 1 .. k : Nth(I, n) = i
  BY <1>2, NthCounts
<1>5. gs = [n \in 1 .. k |-> all[Nth(I, n)]]
  BY Zenon DEF SelectedGroups, Selected, I
<1> HIDE DEF gs, k
<1>6. DOMAIN gs = 1 .. k
  BY <1>5
<1>7. \A n \in DOMAIN gs : gs[n] = all[Nth(I, n)] /\ Nth(I, n) \in I /\ Nth(I, n) \in DOMAIN all
  BY <1>2, <1>4, <1>5
<1>8. AreGroups(gs)
  <2>1. \A n \in DOMAIN gs : IsGroup(gs[n])
    BY <1>1, <1>7 DEF AreGroups
  <2>2. ASSUME NEW n \in DOMAIN gs, NEW m \in DOMAIN gs, gs[n][1].hash = gs[m][1].hash PROVE n = m
    <3>1. Nth(I, n) = Nth(I, m)
      BY <1>1, <1>7, <2>2 DEF AreGroups
    <3> QED
      BY <1>4, <1>6, <3>1
  <2>3. \E x \in Nat : DOMAIN gs = 1 .. x
    BY <1>4, <1>6
  <2> QED
    BY <2>1, <2>2, <2>3 DEF AreGroups
<1>9. ASSUME NEW n \in DOMAIN gs
      PROVE  /\ Shown(gs[n][1].hash) /\ Average(gs[n]) \in Nat
             /\ Average(gs[n]) = InstsWith(gs[n][1].hash) \div NumberWith(gs[n][1].hash)
  <2>1. IsShared(gs[n])
    BY <1>7 DEF I
  <2> QED
    BY <1>3, <1>7, <2>1
<1>10. ASSUME NEW h \in Hashes, Shown(h) PROVE \E n \in DOMAIN gs : gs[n][1].hash = h
  <2>1. PICK i \in DOMAIN all : all[i][1].hash = h
    BY <1>1
  <2>2. i \in I
    BY <1>3, <1>10, <2>1 DEF I
  <2>3. PICK n \in 1 .. k : Nth(I, n) = i
    BY <1>4, <2>2
  <2> QED
    BY <1>6, <1>7, <2>1, <2>3
<1> QED
  BY <1>8, <1>9, <1>10 DEF gs


-----------------------------------------------------------------------------
(***************************************************************************)
(* What the lines of a graph show that is made of vertices with different  *)
(* names and a set of edges between them.                                  *)
(***************************************************************************)
NameIn(nodes, id) == (CHOOSE n \in {nodes[i] : i \in DOMAIN nodes} : n.id = id).name
SizeIn(nodes, id) == (CHOOSE n \in {nodes[i] : i \in DOMAIN nodes} : n.id = id).size
DrawnIn(nodes, edges) ==
  {<<NameIn(nodes, edges[i].src), NameIn(nodes, edges[i].dst)>> : i \in DOMAIN edges}

EndsIn(vs, E) == \A e \in E : \E a, b \in DOMAIN vs : e.from = vs[a].name /\ e.to = vs[b].name

Draws(vs, E, nodes, edges) ==
  /\ DrawnIn(nodes, edges) = {<<e.from, e.to>> : e \in E}
  /\ \A i \in DOMAIN edges : \E e \in E : \E b \in DOMAIN vs :
       /\ e.to = vs[b].name /\ NameIn(nodes, edges[i].dst) = e.to
       /\ SizeIn(nodes, edges[i].dst) = vs[b].size

LEMMA NodeAt ==
  ASSUME NEW nodes, NEW n \in Nat, DOMAIN nodes = 1 .. n, \A i \in 1 .. n : nodes[i].id = i - 1,
         NEW a \in 1 .. n
  PROVE  NameIn(nodes, a - 1) = nodes[a].name /\ SizeIn(nodes, a - 1) = nodes[a].size
<1> DEFINE S == {nodes[i] : i \in DOMAIN nodes}
           c == CHOOSE x \in S : x.id = a - 1
<1>1. nodes[a] \in S /\ nodes[a].id = a - 1
  OBVIOUS
<1>2. \A x \in S : x.id = a - 1 => x = nodes[a]
  <2> SUFFICES ASSUME NEW i \in 1 .. n, nodes[i].id = a - 1 PROVE nodes[i] = nodes[a]
    OBVIOUS
  <2>1. i - 1 = a - 1
    OBVIOUS
  <2>2. i = a
    BY <2>1
  <2> QED
    BY <2>2
<1> HIDE DEF S
<1>3. c \in S /\ c.id = a - 1
  BY <1>1
<1>4. c = nodes[a]
  BY <1>2, <1>3
<1> QED
  BY <1>4 DEF NameIn, SizeIn, S

LEMMA GraphDraws ==
  ASSUME NEW vs, IsTable(vs), NamedOnce(vs), NEW E, IsFiniteSet(E), EndsIn(vs, E)
  PROVE  LET G == StringGraph(vs, SetToSeq(E))
         IN  ~G.bad /\ Draws(vs, E, GraphLines(G).nodes, GraphLines(G).edges)
<1> DEFINE es == SetToSeq(E)
           n == Len(vs)
           m == Cardinality(E)
           G == StringGraph(vs, es)
           L == GraphLines(G)
<1>1. n \in Nat /\ DOMAIN vs = 1 .. n /\ vs = [i \in 1 .. n |-> vs[i]]
  BY TableFacts, LenProperties DEF IsTable
<1>2. /\ m \in Nat /\ DOMAIN es = 1 .. m /\ Len(es) = m /\ es \in Seq(E)
      /\ \A e \in E : \E i \in 1 .. m : es[i] = e
  BY SequenceOfSet
<1> HIDE DEF es, m, n
<1>3. es = [i \in 1 .. m |-> es[i]] /\ \A i \in 1 .. m : es[i] \in E
  BY <1>2, LenProperties, ElementOfSeq
<1>4. EndsAmong(es, m, vs, n)
  BY <1>1, <1>3 DEF EndsAmong, EndsIn
<1>5. Shows(L, vs, n, es, m)
  BY <1>1, <1>2, <1>3, <1>4, LinesFacts
<1>6. ~G.bad
  BY DEF NamedOnce, StringGraph
<1> HIDE DEF L
<1> DEFINE N == L.nodes
           F == L.edges
<1>7. /\ DOMAIN N = 1 .. n /\ DOMAIN F = 1 .. m
      /\ \A i \in 1 .. n : N[i] = [id |-> i - 1, name |-> vs[i].name, size |-> vs[i].size]
      /\ \A i \in 1 .. m : \E a, b \in 1 .. n :
           /\ es[i].from = vs[a].name /\ es[i].to = vs[b].name
           /\ F[i].src = a - 1 /\ F[i].dst = b - 1
  BY <1>5 DEF Shows
<1> HIDE DEF N, F
<1>8. \A a \in 1 .. n : N[a].id = a - 1 /\ N[a].name = vs[a].name /\ N[a].size = vs[a].size
  BY <1>7
<1>9. \A a \in 1 .. n : NameIn(N, a - 1) = vs[a].name /\ SizeIn(N, a - 1) = vs[a].size
  BY <1>1, <1>7, <1>8, NodeAt
<1>10. ASSUME NEW i \in 1 .. m
       PROVE  /\ NameIn(N, F[i].src) = es[i].from /\ NameIn(N, F[i].dst) = es[i].to
              /\ \E b \in 1 .. n : es[i].to = vs[b].name /\ SizeIn(N, F[i].dst) = vs[b].size
  <2>1. PICK a \in 1 .. n, b \in 1 .. n :
           /\ es[i].from = vs[a].name /\ es[i].to = vs[b].name
           /\ F[i].src = a - 1 /\ F[i].dst = b - 1
    BY <1>7
  <2> QED
    BY <1>9, <2>1
<1>11. DrawnIn(N, F) = {<<e.from, e.to>> : e \in E}
  <2>1. DrawnIn(N, F) = {<<NameIn(N, F[i].src), NameIn(N, F[i].dst)>> : i \in 1 .. m}
    BY <1>7 DEF DrawnIn
  <2>2. ASSUME NEW i \in 1 .. m
        PROVE  \E e \in E : <<NameIn(N, F[i].src), NameIn(N, F[i].dst)>> = <<e.from, e.to>>
    BY <1>3, <1>10
  <2>3. ASSUME NEW e \in E
        PROVE  \E i \in 1 .. m : <<NameIn(N, F[i].src), NameIn(N, F[i].dst)>> = <<e.from, e.to>>
    <3>1. PICK i \in 1 .. m : es[i] = e
      BY <1>2
    <3> QED
      BY <1>10, <3>1
  <2> QED
    BY <2>1, <2>2, <2>3
<1>12. ASSUME NEW i \in DOMAIN F
       PROVE  \E e \in E : \E b \in DOMAIN vs :
                /\ e.to = vs[b].name /\ NameIn(N, F[i].dst) = e.to
                /\ SizeIn(N, F[i].dst) = vs[b].size
  <2>1. i \in 1 .. m /\ es[i] \in E
    BY <1>3, <1>7
  <2> QED
    BY <1>1, <1>10, <2>1
<1>13. Draws(vs, E, N, F)
  BY <1>11, <1>12 DEF Draws
<1> QED
  BY <1>6, <1>13 DEF es, N, F, L

-----------------------------------------------------------------------------
(***************************************************************************)
(* The vertices: their names are different.                                *)
(***************************************************************************)
LEMMA NamesOfKinds ==
  ASSUME NEW x, NEW y
  PROVE  /\ ModuleVertex(x) = ModuleVertex(y) => x = y
         /\ HashVertex(x) = HashVertex(y) => x = y
         /\ MergedVertex(x) = MergedVertex(y) => x = y
         /\ ModuleVertex(x) # HashVertex(y) /\ ModuleVertex(x) # MergedVertex(y)
BY DEF ModuleVertex, HashVertex, MergedVertex

LEMMA VerticesOfSet ==
  ASSUME NEW V, IsFiniteSet(V), \A v, w \in V : v.name = w.name => v = w
  PROVE  LET vs == SetToSeq(V)
         IN  /\ IsTable(vs) /\ NamedOnce(vs)
             /\ \A i \in DOMAIN vs : vs[i] \in V
             /\ \A v \in V : \E i \in DOMAIN vs : vs[i] = v
<1> DEFINE vs == SetToSeq(V)
<1>1. /\ vs \in Seq(V)
      /\ \A v \in V : \E i \in DOMAIN vs : vs[i] = v
      /\ \A i, j \in DOMAIN vs : vs[i] = vs[j] => i = j
  BY SequenceOfSet
<1> HIDE DEF vs
<1>2. \A i \in DOMAIN vs : vs[i] \in V
  BY <1>1, ElementOfSeq
<1>3. NamedOnce(vs)
  BY <1>1, <1>2 DEF NamedOnce
<1> QED
  BY <1>1, <1>2, <1>3, InTable DEF vs

LEMMA JoinVertices ==
  ASSUME NEW us, IsTable(us), NamedOnce(us), NEW ws, IsTable(ws), NamedOnce(ws),
         \A i \in DOMAIN us, j \in DOMAIN ws : us[i].name # ws[j].name
  PROVE  LET vs == us \o ws
         IN  /\ IsTable(vs) /\ NamedOnce(vs)
             /\ \A i \in DOMAIN us : \E x \in DOMAIN vs : vs[x] = us[i]
             /\ \A j \in DOMAIN ws : \E x \in DOMAIN vs : vs[x] = ws[j]
             /\ \A x \in DOMAIN vs : (\E i \in DOMAIN us : vs[x] = us[i]) \/ \E j \in DOMAIN ws : vs[x] = ws[j]
<1> DEFINE vs == us \o ws
           n == Len(us)
           m == Len(ws)
<1>1. n \in Nat /\ m \in Nat /\ DOMAIN us = 1 .. n /\ DOMAIN ws = 1 .. m
  BY TableFacts
<1>2. /\ IsTable(vs) /\ Len(vs) = n + m
      /\ \A x \in 1 .. n + m : vs[x] = IF x <= n THEN us[x] ELSE ws[x - n]
  BY ConcatTables
<1>3. DOMAIN vs = 1 .. n + m
  BY <1>2, TableFacts
<1> HIDE DEF vs, n, m
<1>4. \A i \in 1 .. n : i \in 1 .. n + m /\ vs[i] = us[i]
  BY <1>1, <1>2
<1>5. \A j \in 1 .. m : n + j \in 1 .. n + m /\ vs[n + j] = ws[j]
  <2> SUFFICES ASSUME NEW j \in 1 .. m PROVE n + j \in 1 .. n + m /\ vs[n + j] = ws[j]
    OBVIOUS
  <2>1. n + j \in 1 .. n + m /\ ~(n + j <= n) /\ (n + j) - n = j
    BY <1>1
  <2> QED
    BY <1>2, <2>1
<1>6. ASSUME NEW x \in 1 .. n + m
      PROVE  (x \in 1 .. n /\ vs[x] = us[x]) \/ \E j \in 1 .. m : x = n + j /\ vs[x] = ws[j]
  <2>1. CASE x <= n
    BY <1>1, <1>4, <2>1
  <2>2. CASE x > n
    <3>1. x - n \in 1 .. m /\ x = n + (x - n)
      BY <1>1, <2>2
    <3> QED
      BY <1>5, <3>1
  <2> QED
    BY <1>1, <2>1, <2>2
<1>7. ASSUME NEW x \in 1 .. n + m, NEW y \in 1 .. n + m, vs[x].name = vs[y].name PROVE x = y
  <2>1. CASE x \in 1 .. n /\ vs[x] = us[x] /\ y \in 1 .. n /\ vs[y] = us[y]
    BY <1>1, <1>7, <2>1 DEF NamedOnce
  <2>2. CASE (\E j \in 1 .. m : x = n + j /\ vs[x] = ws[j]) /\ (\E j \in 1 .. m : y = n + j /\ vs[y] = ws[j])
    <3>1. PICK i \in 1 .. m : x = n + i /\ vs[x] = ws[i]
      BY <2>2
    <3>2. PICK j \in 1 .. m : y = n + j /\ vs[y] = ws[j]
      BY <2>2
    <3>3. i = j
      BY <1>1, <1>7, <3>1, <3>2 DEF NamedOnce
    <3> QED
      BY <3>1, <3>2, <3>3
  <2>3. \A i \in 1 .. n, j \in 1 .. m : us[i].name # ws[j].name
    BY <1>1
  <2> QED
    BY <1>6, <1>7, <2>1, <2>2, <2>3
<1>8. NamedOnce(vs)
  BY <1>3, <1>7 DEF NamedOnce
<1>9. \A i \in DOMAIN us : \E x \in DOMAIN vs : vs[x] = us[i]
  BY <1>1, <1>3, <1>4
<1>10. \A j \in DOMAIN ws : \E x \in DOMAIN vs : vs[x] = ws[j]
  BY <1>1, <1>3, <1>5
<1>11. \A x \in DOMAIN vs : (\E i \in DOMAIN us : vs[x] = us[i]) \/ \E j \in DOMAIN ws : vs[x] = ws[j]
  BY <1>1, <1>3, <1>6
<1> QED
  BY <1>2, <1>8, <1>9, <1>10, <1>11 DEF vs

SourcesOf(gs) == UNION {Sources(gs[n]) : n \in DOMAIN gs}

LEMMA ModuleVerticesFacts ==
  ASSUME NEW gs, AreGroups(gs), NEW size
  PROVE  LET vs == ModuleVertices(gs, size)
         IN  /\ IsTable(vs) /\ NamedOnce(vs) /\ IsFiniteSet(SourcesOf(gs))
             /\ \A i \in DOMAIN vs : \E f : vs[i].name = ModuleVertex(f)
             /\ \A f \in SourcesOf(gs) : \E i \in DOMAIN vs : vs[i].name = ModuleVertex(f)
<1> DEFINE of(f) == UNION {{<<n, i>> : i \in {i \in DOMAIN gs[n] : gs[n][i].source = f}} : n \in DOMAIN gs}
           measure(S) == IF size = "functions" THEN Cardinality(S)
                         ELSE Total([p \in S |-> gs[p[1]][p[2]].insts], S)
           v(f) == Vertex(ModuleVertex(f), measure(of(f)))
           F == SourcesOf(gs)
           V == {v(f) : f \in F}
<1>1. ModuleVertices(gs, size) = SetToSeq(V)
  BY Zenon DEF ModuleVertices, SourcesOf
<1> HIDE DEF of, measure
<1>2. \A f : v(f).name = ModuleVertex(f)
  BY DEF Vertex
<1>3. IsFiniteSet(F)
  <2>1. IsFiniteSet(DOMAIN gs)
    BY FS_Interval DEF AreGroups
  <2> DEFINE s == [n \in DOMAIN gs |-> Sources(gs[n])]
             T == {s[n] : n \in DOMAIN gs}
  <2>2. DOMAIN s = DOMAIN gs /\ \A n \in DOMAIN gs : s[n] = Sources(gs[n])
    OBVIOUS
  <2>3. F = UNION T
    BY <2>2 DEF SourcesOf
  <2>4. \A A \in T : IsFiniteSet(A)
    BY <2>2 DEF AreGroups, IsGroup
  <2> HIDE DEF s, F
  <2>5. IsFiniteSet(T)
    BY <2>1, <2>2, ImageFacts
  <2> HIDE DEF T
  <2> QED
    BY <2>3, <2>4, <2>5, FS_UNION
<1>4. IsFiniteSet(V)
  <2> DEFINE w == [f \in F |-> v(f)]
  <2>1. DOMAIN w = F /\ V = {w[f] : f \in F}
    OBVIOUS
  <2> HIDE DEF w, V, F
  <2> QED
    BY <1>3, <2>1, ImageFacts
<1>5. \A x \in V : \E f \in F : x = v(f)
  OBVIOUS
<1>6. \A f \in F : v(f) \in V
  OBVIOUS
<1> HIDE DEF V, F, v
<1>7. \A x, y \in V : x.name = y.name => x = y
  <2> SUFFICES ASSUME NEW x \in V, NEW y \in V, x.name = y.name PROVE x = y
    OBVIOUS
  <2>1. PICK f \in F : x = v(f)
    BY <1>5
  <2>2. PICK g \in F : y = v(g)
    BY <1>5
  <2>3. f = g
    BY <1>2, <2>1, <2>2, NamesOfKinds
  <2> QED
    BY <2>1, <2>2, <2>3
<1> DEFINE vs == SetToSeq(V)
<1>8. /\ IsTable(vs) /\ NamedOnce(vs)
      /\ \A i \in DOMAIN vs : vs[i] \in V
      /\ \A x \in V : \E i \in DOMAIN vs : vs[i] = x
  BY <1>4, <1>7, VerticesOfSet
<1> HIDE DEF vs
<1>9. \A i \in DOMAIN vs : \E f : vs[i].name = ModuleVertex(f)
  BY <1>2, <1>5, <1>8
<1>10. \A f \in F : \E i \in DOMAIN vs : vs[i].name = ModuleVertex(f)
  BY <1>2, <1>6, <1>8
<1> QED
  BY <1>1, <1>3, <1>8, <1>9, <1>10 DEF vs, F


LEMMA FiniteImage ==
  ASSUME NEW S, IsFiniteSet(S), NEW s, DOMAIN s = S
  PROVE  IsFiniteSet({s[x] : x \in S})
BY ImageFacts

LEMMA FiniteUnion ==
  ASSUME NEW S, IsFiniteSet(S), NEW s, DOMAIN s = S, \A x \in S : IsFiniteSet(s[x])
  PROVE  IsFiniteSet(UNION {s[x] : x \in S})
<1> DEFINE T == {s[x] : x \in S}
<1>1. IsFiniteSet(T)
  BY FiniteImage
<1>2. \A A \in T : IsFiniteSet(A)
  OBVIOUS
<1> HIDE DEF T
<1>3. IsFiniteSet(UNION T)
  BY <1>1, <1>2, FS_UNION
<1> QED
  BY <1>3 DEF T

-----------------------------------------------------------------------------
(***************************************************************************)
(* hashgraph                                                               *)
(***************************************************************************)
ShownHashes == {h \in Hashes : Shown(h)}

HashesDrawn(nodes, edges) ==
  DrawnIn(nodes, edges) =
    UNION {{<<ModuleVertex(f), HashVertex(h)>> : f \in FilesWith(h)} : h \in ShownHashes}

LEMMA HashGraphDrawn ==
  ASSUME NEW fs, NEW all, AllSorted(fs, all), cmd.threshold \in Nat
  PROVE  LET K == HashGraph(SelectedGroups(all))
             G == StringGraph(K.vertices, SetToSeq(K.edges))
         IN  ~G.bad /\ HashesDrawn(GraphLines(G).nodes, GraphLines(G).edges)
<1> DEFINE gs == SelectedGroups(all)
           hash(g) == HashVertex(g[1].hash)
           us == ModuleVertices(gs, "functions")
           ws == [i \in DOMAIN gs |-> Vertex(hash(gs[i]), Len(gs[i]))]
           E == UNION {{Edge(ModuleVertex(f), hash(gs[i]), 0) : f \in Sources(gs[i])} : i \in DOMAIN gs}
           K == HashGraph(gs)
           G == StringGraph(K.vertices, SetToSeq(K.edges))
<1>1. /\ AreGroups(gs)
      /\ \A n \in DOMAIN gs : Shown(gs[n][1].hash)
      /\ \A h \in Hashes : Shown(h) => \E n \in DOMAIN gs : gs[n][1].hash = h
  BY SelectedFacts
<1> HIDE DEF gs
<1>2. K.vertices = us \o ws /\ K.edges = E
  BY DEF HashGraph
<1>3. PICK k \in Nat : DOMAIN gs = 1 .. k
  BY <1>1 DEF AreGroups
<1>4. /\ IsTable(us) /\ NamedOnce(us)
      /\ \A i \in DOMAIN us : \E f : us[i].name = ModuleVertex(f)
      /\ \A f \in SourcesOf(gs) : \E i \in DOMAIN us : us[i].name = ModuleVertex(f)
  BY <1>1, ModuleVerticesFacts
<1> HIDE DEF us
<1>5. DOMAIN ws = DOMAIN gs /\ \A i \in DOMAIN gs : ws[i].name = HashVertex(gs[i][1].hash)
  BY DEF Vertex
<1>6. IsTable(ws)
  <2>1. ws = [i \in 1 .. k |-> ws[i]]
    BY <1>3
  <2> HIDE DEF ws
  <2> QED
    BY <2>1, LengthOf
<1>7. NamedOnce(ws)
  <2> HIDE DEF ws
  <2> SUFFICES ASSUME NEW i \in DOMAIN gs, NEW j \in DOMAIN gs, ws[i].name = ws[j].name PROVE i = j
    BY <1>5 DEF NamedOnce
  <2>1. gs[i][1].hash = gs[j][1].hash
    BY <1>5, NamesOfKinds
  <2> QED
    BY <1>1, <2>1 DEF AreGroups
<1>8. \A i \in DOMAIN us, j \in DOMAIN ws : us[i].name # ws[j].name
  <2> HIDE DEF ws
  <2> SUFFICES ASSUME NEW i \in DOMAIN us, NEW j \in DOMAIN ws PROVE us[i].name # ws[j].name
    OBVIOUS
  <2>1. PICK f : us[i].name = ModuleVertex(f)
    BY <1>4
  <2>2. ws[j].name = HashVertex(gs[j][1].hash)
    BY <1>5
  <2> QED
    BY <2>1, <2>2, NamesOfKinds
<1> HIDE DEF ws
<1> DEFINE vs == us \o ws
<1>9. /\ IsTable(vs) /\ NamedOnce(vs)
      /\ \A i \in DOMAIN us : \E x \in DOMAIN vs : vs[x] = us[i]
      /\ \A j \in DOMAIN ws : \E x \in DOMAIN vs : vs[x] = ws[j]
  BY <1>4, <1>6, <1>7, <1>8, JoinVertices
<1> HIDE DEF vs
<1>10. \A f, n : Edge(f, n, 0).from = f /\ Edge(f, n, 0).to = n
  BY DEF Edge
<1>11. \A e : e \in E <=> \E i \in DOMAIN gs : \E f \in Sources(gs[i]) : e = Edge(ModuleVertex(f), hash(gs[i]), 0)
  OBVIOUS
<1>12. IsFiniteSet(E)
  <2> DEFINE A(i) == {Edge(ModuleVertex(f), hash(gs[i]), 0) : f \in Sources(gs[i])}
             s == [i \in DOMAIN gs |-> A(i)]
  <2>1. ASSUME NEW i \in DOMAIN gs PROVE IsFiniteSet(A(i))
    <3> DEFINE r == [f \in Sources(gs[i]) |-> Edge(ModuleVertex(f), hash(gs[i]), 0)]
    <3>1. DOMAIN r = Sources(gs[i]) /\ A(i) = {r[f] : f \in Sources(gs[i])}
      OBVIOUS
    <3>2. IsFiniteSet(Sources(gs[i]))
      BY <1>1 DEF AreGroups, IsGroup
    <3> HIDE DEF r, A
    <3> QED
      BY <3>1, <3>2, FiniteImage
  <2>2. DOMAIN s = DOMAIN gs /\ \A i \in DOMAIN gs : s[i] = A(i)
    OBVIOUS
  <2>3. E = UNION {s[i] : i \in DOMAIN gs}
    <3>1. E = UNION {A(i) : i \in DOMAIN gs}
      OBVIOUS
    <3> HIDE DEF A, s, E
    <3> QED
      BY <2>2, <3>1
  <2>4. IsFiniteSet(DOMAIN gs)
    BY <1>3, FS_Interval
  <2> HIDE DEF s, A, E
  <2> QED
    BY <2>1, <2>2, <2>3, <2>4, FiniteUnion
<1> HIDE DEF E
<1>13. EndsIn(vs, E)
  <2> SUFFICES ASSUME NEW e \in E PROVE \E a, b \in DOMAIN vs : e.from = vs[a].name /\ e.to = vs[b].name
    BY DEF EndsIn
  <2>1. PICK i \in DOMAIN gs : \E f \in Sources(gs[i]) : e = Edge(ModuleVertex(f), hash(gs[i]), 0)
    BY <1>11
  <2>2. PICK f \in Sources(gs[i]) : e = Edge(ModuleVertex(f), hash(gs[i]), 0)
    BY <2>1
  <2>3. e.from = ModuleVertex(f) /\ e.to = HashVertex(gs[i][1].hash)
    BY <1>10, <2>2
  <2>4. f \in SourcesOf(gs)
    BY DEF SourcesOf
  <2>5. PICK x \in DOMAIN us : us[x].name = ModuleVertex(f)
    BY <1>4, <2>4
  <2>6. PICK a \in DOMAIN vs : vs[a] = us[x]
    BY <1>9
  <2>7. PICK b \in DOMAIN vs : vs[b] = ws[i]
    BY <1>5, <1>9
  <2> QED
    BY <1>5, <2>3, <2>5, <2>6, <2>7
<1> DEFINE N == GraphLines(G).nodes
           F == GraphLines(G).edges
<1>14. ~G.bad /\ Draws(vs, E, N, F)
  <2>1. G = StringGraph(vs, SetToSeq(E))
    BY <1>2 DEF vs
  <2> HIDE DEF G
  <2> QED
    BY <1>9, <1>12, <1>13, <2>1, GraphDraws
<1>15. DrawnIn(N, F) = {<<e.from, e.to>> : e \in E}
  BY <1>14 DEF Draws
<1>16. ASSUME NEW e \in E
       PROVE  \E h \in ShownHashes : \E f \in FilesWith(h) : <<e.from, e.to>> = <<ModuleVertex(f), HashVertex(h)>>
  <2>1. PICK i \in DOMAIN gs : \E f \in Sources(gs[i]) : e = Edge(ModuleVertex(f), hash(gs[i]), 0)
    BY <1>11
  <2>2. PICK f \in Sources(gs[i]) : e = Edge(ModuleVertex(f), hash(gs[i]), 0)
    BY <2>1
  <2>3. e.from = ModuleVertex(f) /\ e.to = HashVertex(gs[i][1].hash)
    BY <1>10, <2>2
  <2>4. f \in FilesWith(gs[i][1].hash) /\ gs[i][1].hash \in ShownHashes
    BY <1>1 DEF AreGroups, IsGroup, ShownHashes
  <2> QED
    BY <2>3, <2>4
<1>17. ASSUME NEW h \in ShownHashes, NEW f \in FilesWith(h)
       PROVE  \E e \in E : <<e.from, e.to>> = <<ModuleVertex(f), HashVertex(h)>>
  <2>1. h \in Hashes /\ Shown(h)
    BY DEF ShownHashes
  <2>2. PICK i \in DOMAIN gs : gs[i][1].hash = h
    BY <1>1, <2>1
  <2>3. f \in Sources(gs[i])
    BY <1>1, <2>2 DEF AreGroups, IsGroup
  <2>4. Edge(ModuleVertex(f), hash(gs[i]), 0) \in E
    BY <1>11, <2>3
  <2>5. Edge(ModuleVertex(f), hash(gs[i]), 0).from = ModuleVertex(f)
        /\ Edge(ModuleVertex(f), hash(gs[i]), 0).to = HashVertex(h)
    BY <1>10, <2>2
  <2> QED
    BY <2>4, <2>5
<1>18. HashesDrawn(N, F)
  <2> HIDE DEF N, F
  <2>1. ASSUME NEW x PROVE x \in DrawnIn(N, F) => \E h \in ShownHashes : \E f \in FilesWith(h) : x = <<ModuleVertex(f), HashVertex(h)>>
    BY <1>15, <1>16
  <2>2. ASSUME NEW h \in ShownHashes, NEW f \in FilesWith(h) PROVE <<ModuleVertex(f), HashVertex(h)>> \in DrawnIn(N, F)
    BY <1>15, <1>17
  <2> QED
    BY <2>1, <2>2 DEF HashesDrawn
<1> QED
  BY <1>14, <1>18 DEF gs


-----------------------------------------------------------------------------
(***************************************************************************)
(* hashgraph-merged                                                        *)
(***************************************************************************)
\* The hashes that are shown after merging, and the sets of their files.
MergedHashes ==
  {h \in Hashes : Shown(h) /\ ("show-unshared" \notin cmd.flags => Cardinality(FilesWith(h)) > 1)}
MergedFiles == {FilesWith(h) : h \in MergedHashes}
Merges(S) == Total([h \in MergedHashes |-> InstsWith(h) \div NumberWith(h)], {h \in MergedHashes : FilesWith(h) = S})

MergedDrawn(nodes, edges) ==
  /\ DrawnIn(nodes, edges) =
       UNION {{<<ModuleVertex(f), MergedVertex(S)>> : f \in S} : S \in MergedFiles}
  /\ \A i \in DOMAIN edges : \E S \in MergedFiles :
       /\ S # {} /\ NameIn(nodes, edges[i].dst) = MergedVertex(S)
       /\ SizeIn(nodes, edges[i].dst) = Merges(S)

LEMMA MergedGraphDrawn ==
  ASSUME NEW fs, NEW all, AllSorted(fs, all), cmd.threshold \in Nat
  PROVE  LET K == MergedGraph(SelectedGroups(all))
             G == StringGraph(K.vertices, SetToSeq(K.edges))
         IN  ~G.bad /\ MergedDrawn(GraphLines(G).nodes, GraphLines(G).edges)
<1> DEFINE gs == SelectedGroups(all)
           I == {i \in DOMAIN gs : "show-unshared" \in cmd.flags \/ Cardinality(Sources(gs[i])) > 1}
           M == {Sources(gs[i]) : i \in I}
           insts(S) == Total([i \in I |-> Average(gs[i])], {i \in I : Sources(gs[i]) = S})
           us == ModuleVertices(gs, "instructions")
           v(S) == Vertex(MergedVertex(S), insts(S))
           V == {v(S) : S \in M}
           ws == SetToSeq(V)
           E == UNION {{Edge(ModuleVertex(f), MergedVertex(S), 0) : f \in S} : S \in M}
           K == MergedGraph(gs)
           G == StringGraph(K.vertices, SetToSeq(K.edges))
<1>1. /\ AreGroups(gs)
      /\ \A n \in DOMAIN gs : Shown(gs[n][1].hash) /\ Average(gs[n]) = InstsWith(gs[n][1].hash) \div NumberWith(gs[n][1].hash)
      /\ \A n \in DOMAIN gs : Average(gs[n]) \in Nat
      /\ \A h \in Hashes : Shown(h) => \E n \in DOMAIN gs : gs[n][1].hash = h
  BY SelectedFacts
<1> HIDE DEF gs
<1>2. K.vertices = us \o ws /\ K.edges = E
  BY DEF MergedGraph
<1>3. IsFiniteSet(DOMAIN gs)
  <2>1. PICK k \in Nat : DOMAIN gs = 1 .. k
    BY <1>1 DEF AreGroups
  <2>2. IsFiniteSet(1 .. k)
    BY FS_Interval
  <2> QED
    BY <2>1, <2>2
<1>4. /\ IsTable(us) /\ NamedOnce(us)
      /\ \A i \in DOMAIN us : \E f : us[i].name = ModuleVertex(f)
      /\ \A f \in SourcesOf(gs) : \E i \in DOMAIN us : us[i].name = ModuleVertex(f)
  BY <1>1, ModuleVerticesFacts
<1>5. I \in SUBSET DOMAIN gs /\ IsFiniteSet(I)
  <2>1. I \in SUBSET DOMAIN gs
    OBVIOUS
  <2> HIDE DEF I
  <2> QED
    BY <1>3, <2>1, FS_Subset
<1> DEFINE c == [i \in I |-> gs[i][1].hash]
<1>6. /\ \A i \in I : c[i] = gs[i][1].hash /\ c[i] \in MergedHashes
                      /\ Sources(gs[i]) = FilesWith(c[i]) /\ IsFiniteSet(Sources(gs[i])) /\ Sources(gs[i]) # {}
      /\ \A h \in MergedHashes : \E i \in I : c[i] = h
      /\ \A i, j \in I : c[i] = c[j] => i = j
  <2>1. ASSUME NEW i \in I
        PROVE  /\ c[i] = gs[i][1].hash /\ c[i] \in MergedHashes
               /\ Sources(gs[i]) = FilesWith(c[i]) /\ IsFiniteSet(Sources(gs[i])) /\ Sources(gs[i]) # {}
    <3>1. IsGroup(gs[i]) /\ Shown(gs[i][1].hash)
      BY <1>1 DEF AreGroups
    <3>2. gs[i][1].hash \in Hashes /\ Sources(gs[i]) = FilesWith(gs[i][1].hash)
          /\ IsFiniteSet(Sources(gs[i])) /\ Sources(gs[i]) # {}
      BY <3>1 DEF IsGroup
    <3>3. gs[i][1].hash \in MergedHashes
      BY <3>1, <3>2 DEF MergedHashes
    <3> QED
      BY <3>2, <3>3
  <2>2. ASSUME NEW h \in MergedHashes PROVE \E i \in I : c[i] = h
    <3>1. h \in Hashes /\ Shown(h) /\ ("show-unshared" \notin cmd.flags => Cardinality(FilesWith(h)) > 1)
      BY DEF MergedHashes
    <3>2. PICK i \in DOMAIN gs : gs[i][1].hash = h
      BY <1>1, <3>1
    <3>3. Sources(gs[i]) = FilesWith(h)
      BY <1>1, <3>2 DEF AreGroups, IsGroup
    <3>4. i \in I
      BY <3>1, <3>3
    <3> QED
      BY <3>2, <3>4
  <2>3. ASSUME NEW i \in I, NEW j \in I, c[i] = c[j] PROVE i = j
    BY <1>1, <2>3 DEF AreGroups
  <2> QED
    BY <2>1, <2>2, <2>3
<1>7. OneToOne(c, I, MergedHashes)
  <2> HIDE DEF I
  <2> QED
    BY <1>6 DEF OneToOne
<1>8. M = MergedFiles
  <2> HIDE DEF c, I
  <2>1. ASSUME NEW i \in I PROVE Sources(gs[i]) \in MergedFiles
    BY <1>6 DEF MergedFiles
  <2>2. ASSUME NEW h \in MergedHashes PROVE \E i \in I : FilesWith(h) = Sources(gs[i])
    BY <1>6
  <2> QED
    BY <2>1, <2>2 DEF MergedFiles
<1>9. \A S \in M : IsFiniteSet(S) /\ S # {} /\ \A f \in S : f \in SourcesOf(gs)
  <2> SUFFICES ASSUME NEW i \in I
               PROVE  /\ IsFiniteSet(Sources(gs[i])) /\ Sources(gs[i]) # {}
                      /\ \A f \in Sources(gs[i]) : f \in SourcesOf(gs)
    OBVIOUS
  <2> QED
    BY <1>5, <1>6 DEF SourcesOf
<1>10. ASSUME NEW S \in M PROVE insts(S) = Merges(S)
  <2> DEFINE A == {i \in I : Sources(gs[i]) = S}
             B == {h \in MergedHashes : FilesWith(h) = S}
             P == [i \in I |-> Average(gs[i])]
             N == [h \in MergedHashes |-> InstsWith(h) \div NumberWith(h)]
             d == [i \in A |-> c[i]]
  <2>1. insts(S) = Total(P, A) /\ Merges(S) = Total(N, B)
    BY Zenon DEF Merges
  <2>2. \A i \in I : P[i] = N[c[i]] /\ P[i] \in Nat
    <3> SUFFICES ASSUME NEW i \in I PROVE P[i] = N[c[i]] /\ P[i] \in Nat
      OBVIOUS
    <3>1. i \in DOMAIN gs /\ c[i] = gs[i][1].hash /\ c[i] \in MergedHashes
      BY <1>6
    <3>2. P[i] = Average(gs[i]) /\ N[c[i]] = InstsWith(c[i]) \div NumberWith(c[i])
      <4> HIDE DEF c, I
      <4> QED
        BY <3>1
    <3> HIDE DEF c, I, P, N
    <3> QED
      BY <1>1, <3>1, <3>2
  <2>3. A \in SUBSET I /\ B \in SUBSET MergedHashes
    OBVIOUS
  <2>4. \A i \in I : i \in A <=> c[i] \in B
    <3> HIDE DEF c, I
    <3> QED
      BY <1>6
  <2> HIDE DEF A, B, c, I
  <2>5. OneToOne(d, A, B) /\ IsFiniteSet(A)
    BY <1>5, <1>7, <2>3, <2>4, OneToOnePart, FS_Subset
  <2>6. \A i \in A : d[i] = c[i] /\ P[i] = N[d[i]] /\ P[i] \in Nat
    <3> HIDE DEF P, N
    <3> QED
      BY <2>2, <2>3
  <2> HIDE DEF P, N, d
  <2>7. \A h \in B : N[h] \in Nat
    <3> SUFFICES ASSUME NEW h \in B PROVE N[h] \in Nat
      OBVIOUS
    <3>1. PICK i \in A : d[i] = h
      BY <2>5 DEF OneToOne
    <3> QED
      BY <2>6, <3>1
  <2>8. Total(P, A) = Total(N, B)
    BY <2>5, <2>6, <2>7, SumAlong
  <2> QED
    BY <2>1, <2>8
<1> HIDE DEF insts, us
<1>11. \A S : v(S).name = MergedVertex(S) /\ v(S).size = insts(S)
  BY DEF Vertex
<1>12. IsFiniteSet(M)
  <2> DEFINE s == [i \in I |-> Sources(gs[i])]
  <2>1. DOMAIN s = I /\ M = {s[i] : i \in I}
    OBVIOUS
  <2> HIDE DEF s, M, I
  <2> QED
    BY <1>5, <2>1, FiniteImage
<1> HIDE DEF c, I, M, v
<1>13. IsFiniteSet(V)
  <2> DEFINE s == [S \in M |-> v(S)]
  <2>1. DOMAIN s = M /\ V = {s[S] : S \in M}
    OBVIOUS
  <2> HIDE DEF s, V
  <2> QED
    BY <1>12, <2>1, FiniteImage
<1>14. (\A x \in V : \E S \in M : x = v(S)) /\ \A S \in M : v(S) \in V
  OBVIOUS
<1> HIDE DEF V
<1>15. \A x, y \in V : x.name = y.name => x = y
  <2> SUFFICES ASSUME NEW x \in V, NEW y \in V, x.name = y.name PROVE x = y
    OBVIOUS
  <2>1. PICK S \in M : x = v(S)
    BY <1>14
  <2>2. PICK T \in M : y = v(T)
    BY <1>14
  <2>3. S = T
    BY <1>11, <2>1, <2>2, NamesOfKinds
  <2> QED
    BY <2>1, <2>2, <2>3
<1>16. /\ IsTable(ws) /\ NamedOnce(ws)
       /\ \A i \in DOMAIN ws : ws[i] \in V
       /\ \A x \in V : \E i \in DOMAIN ws : ws[i] = x
  BY <1>13, <1>15, VerticesOfSet
<1> HIDE DEF ws
<1>17. \A i \in DOMAIN us, j \in DOMAIN ws : us[i].name # ws[j].name
  <2> SUFFICES ASSUME NEW i \in DOMAIN us, NEW j \in DOMAIN ws PROVE us[i].name # ws[j].name
    OBVIOUS
  <2>1. PICK f : us[i].name = ModuleVertex(f)
    BY <1>4
  <2>2. PICK S \in M : ws[j] = v(S)
    BY <1>14, <1>16
  <2> QED
    BY <1>11, <2>1, <2>2, NamesOfKinds
<1> DEFINE vs == us \o ws
<1>18. /\ IsTable(vs) /\ NamedOnce(vs)
       /\ \A i \in DOMAIN us : \E x \in DOMAIN vs : vs[x] = us[i]
       /\ \A j \in DOMAIN ws : \E x \in DOMAIN vs : vs[x] = ws[j]
       /\ \A x \in DOMAIN vs : (\E i \in DOMAIN us : vs[x] = us[i]) \/ \E j \in DOMAIN ws : vs[x] = ws[j]
  BY <1>4, <1>16, <1>17, JoinVertices
<1> HIDE DEF vs
<1>19. \A f, n : Edge(f, n, 0).from = f /\ Edge(f, n, 0).to = n
  BY DEF Edge
<1>20. \A e : e \in E <=> \E S \in M : \E f \in S : e = Edge(ModuleVertex(f), MergedVertex(S), 0)
  OBVIOUS
<1>21. IsFiniteSet(E)
  <2> DEFINE A(S) == {Edge(ModuleVertex(f), MergedVertex(S), 0) : f \in S}
             s == [S \in M |-> A(S)]
  <2>1. ASSUME NEW S \in M PROVE IsFiniteSet(A(S))
    <3> DEFINE r == [f \in S |-> Edge(ModuleVertex(f), MergedVertex(S), 0)]
    <3>1. DOMAIN r = S /\ A(S) = {r[f] : f \in S}
      OBVIOUS
    <3>2. IsFiniteSet(S)
      BY <1>9
    <3> HIDE DEF r, A
    <3> QED
      BY <3>1, <3>2, FiniteImage
  <2>2. DOMAIN s = M /\ \A S \in M : s[S] = A(S)
    OBVIOUS
  <2>3. E = UNION {s[S] : S \in M}
    <3>1. E = UNION {A(S) : S \in M}
      OBVIOUS
    <3> HIDE DEF A, s, E
    <3> QED
      BY <2>2, <3>1
  <2> HIDE DEF s, A, E
  <2> QED
    BY <1>12, <2>1, <2>2, <2>3, FiniteUnion
<1> HIDE DEF E
<1>22. EndsIn(vs, E)
  <2> SUFFICES ASSUME NEW e \in E PROVE \E a, b \in DOMAIN vs : e.from = vs[a].name /\ e.to = vs[b].name
    BY DEF EndsIn
  <2>1. PICK S \in M : \E f \in S : e = Edge(ModuleVertex(f), MergedVertex(S), 0)
    BY <1>20
  <2>2. PICK f \in S : e = Edge(ModuleVertex(f), MergedVertex(S), 0)
    BY <2>1
  <2>3. e.from = ModuleVertex(f) /\ e.to = MergedVertex(S)
    BY <1>19, <2>2
  <2>4. f \in SourcesOf(gs)
    BY <1>9
  <2>5. PICK x \in DOMAIN us : us[x].name = ModuleVertex(f)
    BY <1>4, <2>4
  <2>6. PICK a \in DOMAIN vs : vs[a] = us[x]
    BY <1>18
  <2>7. PICK y \in DOMAIN ws : ws[y] = v(S)
    BY <1>14, <1>16
  <2>8. PICK b \in DOMAIN vs : vs[b] = ws[y]
    BY <1>18
  <2> QED
    BY <1>11, <2>3, <2>5, <2>6, <2>7, <2>8
<1> DEFINE N == GraphLines(G).nodes
           F == GraphLines(G).edges
<1>23. ~G.bad /\ Draws(vs, E, N, F)
  <2>1. G = StringGraph(vs, SetToSeq(E))
    BY <1>2 DEF vs
  <2> HIDE DEF G
  <2> QED
    BY <1>18, <1>21, <1>22, <2>1, GraphDraws
<1> HIDE DEF N, F
<1>24. DrawnIn(N, F) = UNION {{<<ModuleVertex(f), MergedVertex(S)>> : f \in S} : S \in MergedFiles}
  <2>1. DrawnIn(N, F) = {<<e.from, e.to>> : e \in E}
    BY <1>23 DEF Draws
  <2>2. ASSUME NEW e \in E
        PROVE  \E S \in M : \E f \in S : <<e.from, e.to>> = <<ModuleVertex(f), MergedVertex(S)>>
    BY <1>19, <1>20
  <2>3. ASSUME NEW S \in M, NEW f \in S PROVE \E e \in E : <<e.from, e.to>> = <<ModuleVertex(f), MergedVertex(S)>>
    BY <1>19, <1>20
  <2>4. DrawnIn(N, F) = UNION {{<<ModuleVertex(f), MergedVertex(S)>> : f \in S} : S \in M}
    BY <2>1, <2>2, <2>3
  <2> QED
    BY <1>8, <2>4
<1>25. ASSUME NEW i \in DOMAIN F
       PROVE  \E S \in MergedFiles : /\ S # {} /\ NameIn(N, F[i].dst) = MergedVertex(S)
                                     /\ SizeIn(N, F[i].dst) = Merges(S)
  <2>1. PICK e \in E : \E b \in DOMAIN vs : /\ e.to = vs[b].name /\ NameIn(N, F[i].dst) = e.to
                                            /\ SizeIn(N, F[i].dst) = vs[b].size
    BY <1>23 DEF Draws
  <2>2. PICK b \in DOMAIN vs : /\ e.to = vs[b].name /\ NameIn(N, F[i].dst) = e.to
                               /\ SizeIn(N, F[i].dst) = vs[b].size
    BY <2>1
  <2>3. PICK S \in M : e.to = MergedVertex(S)
    BY <1>19, <1>20
  <2>4. PICK y \in DOMAIN ws : ws[y] = v(S)
    BY <1>14, <1>16
  <2>5. PICK a \in DOMAIN vs : vs[a] = ws[y]
    BY <1>18
  <2>6. a = b
    <3>1. vs[a].name = MergedVertex(S) /\ vs[b].name = MergedVertex(S)
      BY <1>11, <2>2, <2>3, <2>4, <2>5
    <3>2. vs[a].name = vs[b].name
      BY <3>1
    <3>3. NamedOnce(vs)
      BY <1>18
    <3> HIDE DEF vs
    <3> QED
      BY <3>2, <3>3, <2>2, <2>5 DEF NamedOnce
  <2>7. vs[b].size = Merges(S)
    BY <1>10, <1>11, <2>4, <2>5, <2>6
  <2> QED
    BY <1>8, <1>9, <2>2, <2>3, <2>7
<1>26. MergedDrawn(N, F)
  BY <1>24, <1>25 DEF MergedDrawn
<1> QED
  BY <1>23, <1>26 DEF gs, N, F

-----------------------------------------------------------------------------
(***************************************************************************)
(* pairwise: pairs of functions of one hash, by their positions in the     *)
(* order of hashes and as the modules define them.                         *)
(***************************************************************************)
Joined(fs) ==
  {p \in (DOMAIN fs) \X (DOMAIN fs) :
     /\ p[1] < p[2]
     /\ fs[p[1]].hash = fs[p[2]].hash
     /\ fs[p[1]].source # fs[p[2]].source}

JoinedOf(fs, pair) == {p \in Joined(fs) : {fs[p[1]].source, fs[p[2]].source} = pair}

SharedBy(f, g) ==
  {p \in Definitions \X Definitions :
     /\ Desc(p[1]).source = f /\ Desc(p[2]).source = g
     /\ Desc(p[1]).hash = Desc(p[2]).hash}

LEMMA SharingIs ==
  ASSUME NEW fs
  PROVE  /\ DOMAIN PairSharing(fs) = {{fs[p[1]].source, fs[p[2]].source} : p \in Joined(fs)}
         /\ \A pair \in DOMAIN PairSharing(fs) :
              PairSharing(fs)[pair] = Total([p \in Joined(fs) |-> fs[p[1]].insts], JoinedOf(fs, pair))
<1>1. PairSharing(fs) =
        [pair \in {{fs[p[1]].source, fs[p[2]].source} : p \in Joined(fs)} |->
           Total([p \in Joined(fs) |-> fs[p[1]].insts], JoinedOf(fs, pair))]
  BY DEF PairSharing, Joined, JoinedOf
<1> QED
  BY <1>1

\* The pair of definitions of a pair of positions, the one of the file f first.
LEMMA PairOrdered ==
  ASSUME NEW fs, NEW b, Lists(fs, Definitions, b), NEW f, NEW g, f # g
  PROVE  \E c : /\ OneToOne(c, JoinedOf(fs, {f, g}), SharedBy(f, g))
                /\ HashTellsSize =>
                     \A p \in JoinedOf(fs, {f, g}) : fs[p[1]].insts = Desc(c[p][1]).insts
<1> DEFINE S == JoinedOf(fs, {f, g})
           T == SharedBy(f, g)
           c == [p \in S |-> IF fs[p[1]].source = f THEN <<b[p[1]], b[p[2]]>> ELSE <<b[p[2]], b[p[1]]>>]
<1>1. /\ \A x \in DOMAIN fs : b[x] \in Definitions /\ fs[x] = Desc(b[x])
      /\ \A x, y \in DOMAIN fs : b[x] = b[y] => x = y
      /\ \A d \in Definitions : \E x \in DOMAIN fs : b[x] = d
      /\ \A x \in DOMAIN fs : x \in Nat
  BY DEF Lists, OneToOne, IsFuncs
<1>2. ASSUME NEW p \in S
      PROVE  /\ p \in (DOMAIN fs) \X (DOMAIN fs) /\ p = <<p[1], p[2]>> /\ p[1] \in DOMAIN fs /\ p[2] \in DOMAIN fs
             /\ p[1] < p[2] /\ fs[p[1]].hash = fs[p[2]].hash /\ fs[p[1]].source # fs[p[2]].source
             /\ \/ fs[p[1]].source = f /\ fs[p[2]].source = g
                \/ fs[p[1]].source = g /\ fs[p[2]].source = f
  <2>1. /\ p \in (DOMAIN fs) \X (DOMAIN fs)
        /\ p[1] < p[2] /\ fs[p[1]].hash = fs[p[2]].hash /\ fs[p[1]].source # fs[p[2]].source
        /\ {fs[p[1]].source, fs[p[2]].source} = {f, g}
    BY DEF JoinedOf, Joined
  <2>2. \A x, y : {x, y} = {f, g} => (x = f /\ y = g) \/ (x = g /\ y = f)
    OBVIOUS
  <2> QED
    BY <2>1, <2>2
<1>3. ASSUME NEW x \in DOMAIN fs, NEW y \in DOMAIN fs, x < y, fs[x].hash = fs[y].hash,
             (fs[x].source = f /\ fs[y].source = g) \/ (fs[x].source = g /\ fs[y].source = f)
      PROVE  <<x, y>> \in S
  BY <1>3 DEF JoinedOf, Joined
<1>4. ASSUME NEW d \in Definitions, NEW e \in Definitions
      PROVE  <<d, e>> \in T <=> Desc(d).source = f /\ Desc(e).source = g /\ Desc(d).hash = Desc(e).hash
  BY DEF SharedBy
<1>5. ASSUME NEW p \in S
      PROVE  \/ fs[p[1]].source = f /\ fs[p[2]].source = g /\ c[p] = <<b[p[1]], b[p[2]]>>
             \/ fs[p[1]].source = g /\ fs[p[2]].source = f /\ c[p] = <<b[p[2]], b[p[1]]>>
  BY <1>2
<1>6. DOMAIN c = S /\ c = [p \in S |-> c[p]]
  OBVIOUS
<1> HIDE DEF c, S, T
<1>7. ASSUME NEW p \in S PROVE c[p] \in T
  <2>1. /\ p[1] \in DOMAIN fs /\ p[2] \in DOMAIN fs /\ fs[p[1]].hash = fs[p[2]].hash
    BY <1>2
  <2>2. /\ b[p[1]] \in Definitions /\ b[p[2]] \in Definitions
        /\ fs[p[1]] = Desc(b[p[1]]) /\ fs[p[2]] = Desc(b[p[2]])
    BY <1>1, <2>1
  <2>3. CASE fs[p[1]].source = f /\ fs[p[2]].source = g /\ c[p] = <<b[p[1]], b[p[2]]>>
    <3>1. <<b[p[1]], b[p[2]]>> \in T
      BY <1>4, <2>1, <2>2, <2>3
    <3> QED
      BY <2>3, <3>1
  <2>4. CASE fs[p[1]].source = g /\ fs[p[2]].source = f /\ c[p] = <<b[p[2]], b[p[1]]>>
    <3>1. <<b[p[2]], b[p[1]]>> \in T
      BY <1>4, <2>1, <2>2, <2>4
    <3> QED
      BY <2>4, <3>1
  <2> QED
    BY <1>5, <2>3, <2>4
<1>8. ASSUME NEW p \in S, NEW q \in S, c[p] = c[q] PROVE p = q
  <2>1. /\ p = <<p[1], p[2]>> /\ p[1] \in DOMAIN fs /\ p[2] \in DOMAIN fs /\ p[1] < p[2]
        /\ q = <<q[1], q[2]>> /\ q[1] \in DOMAIN fs /\ q[2] \in DOMAIN fs /\ q[1] < q[2]
        /\ p[1] \in Nat /\ p[2] \in Nat /\ q[1] \in Nat /\ q[2] \in Nat
    BY <1>1, <1>2
  <2>2. (p[1] = q[1] /\ p[2] = q[2]) \/ (p[1] = q[2] /\ p[2] = q[1])
    BY <1>1, <1>5, <1>8, <2>1
  <2>3. p[1] = q[1] /\ p[2] = q[2]
    BY <2>1, <2>2
  <2> QED
    BY <2>1, <2>3
<1>9. ASSUME NEW t \in T PROVE \E p \in S : c[p] = t
  <2>1. PICK d \in Definitions : \E e \in Definitions : t = <<d, e>>
    BY DEF T, SharedBy
  <2>2. PICK e \in Definitions : t = <<d, e>>
    BY <2>1
  <2>3. Desc(d).source = f /\ Desc(e).source = g /\ Desc(d).hash = Desc(e).hash
    BY <1>4, <2>2
  <2>4. PICK x \in DOMAIN fs : b[x] = d
    BY <1>1
  <2>5. PICK y \in DOMAIN fs : b[y] = e
    BY <1>1
  <2>6. fs[x].source = f /\ fs[y].source = g /\ fs[x].hash = fs[y].hash
    BY <1>1, <2>3, <2>4, <2>5
  <2>7. x < y \/ y < x
    BY <1>1, <2>6
  <2>8. CASE x < y
    <3>1. <<x, y>> \in S
      BY <1>3, <2>6, <2>8
    <3>2. c[<<x, y>>] = <<b[x], b[y]>>
      BY <1>5, <2>6, <3>1
    <3> QED
      BY <2>2, <2>4, <2>5, <3>1, <3>2
  <2>9. CASE y < x
    <3>1. <<y, x>> \in S
      BY <1>3, <2>6, <2>9
    <3>2. c[<<y, x>>] = <<b[x], b[y]>>
      BY <1>5, <2>6, <3>1
    <3> QED
      BY <2>2, <2>4, <2>5, <3>1, <3>2
  <2> QED
    BY <2>7, <2>8, <2>9
<1>10. OneToOne(c, S, T)
  <2>1. c \in [S -> T]
    BY <1>6, <1>7
  <2> QED
    BY <1>8, <1>9, <2>1 DEF OneToOne
<1>11. ASSUME HashTellsSize, NEW p \in S PROVE fs[p[1]].insts = Desc(c[p][1]).insts
  <2>1. /\ p[1] \in DOMAIN fs /\ p[2] \in DOMAIN fs /\ fs[p[1]].hash = fs[p[2]].hash
    BY <1>2
  <2>2. /\ b[p[1]] \in Definitions /\ b[p[2]] \in Definitions
        /\ fs[p[1]] = Desc(b[p[1]]) /\ fs[p[2]] = Desc(b[p[2]])
    BY <1>1, <2>1
  <2>3. Desc(b[p[1]]).insts = Desc(b[p[2]]).insts
    BY <1>11, <2>1, <2>2 DEF HashTellsSize
  <2>4. c[p][1] = b[p[1]] \/ c[p][1] = b[p[2]]
    BY <1>5
  <2> QED
    BY <2>2, <2>3, <2>4
<1> QED
  BY <1>10, <1>11 DEF S, T

LEMMA JoinedFinite ==
  ASSUME NEW fs, IsFuncs(fs)
  PROVE  IsFiniteSet(Joined(fs))
<1>1. IsFiniteSet(DOMAIN fs)
  BY FS_Interval DEF IsFuncs
<1>2. IsFiniteSet((DOMAIN fs) \X (DOMAIN fs))
  BY <1>1, FS_Product
<1>3. Joined(fs) \subseteq (DOMAIN fs) \X (DOMAIN fs)
  BY DEF Joined
<1> QED
  BY <1>2, <1>3, FS_Subset

(***************************************************************************)
(* PairSharing adds up the instructions that two files share.              *)
(***************************************************************************)
LEMMA PairsShared ==
  ASSUME NEW fs, NEW b, Lists(fs, Definitions, b), NEW f, NEW g, f # g
  PROVE  /\ {f, g} \in DOMAIN PairSharing(fs) <=> SharedBy(f, g) # {}
         /\ HashTellsSize /\ {f, g} \in DOMAIN PairSharing(fs) =>
              PairSharing(fs)[{f, g}] = Total([p \in SharedBy(f, g) |-> Desc(p[1]).insts], SharedBy(f, g))
<1> DEFINE S == JoinedOf(fs, {f, g})
           T == SharedBy(f, g)
<1>1. PICK c : /\ OneToOne(c, S, T)
               /\ HashTellsSize => \A p \in S : fs[p[1]].insts = Desc(c[p][1]).insts
  BY PairOrdered
<1>2. {f, g} \in DOMAIN PairSharing(fs) <=> S # {}
  <2>1. {f, g} \in DOMAIN PairSharing(fs) <=> \E p \in Joined(fs) : {fs[p[1]].source, fs[p[2]].source} = {f, g}
    <3> DEFINE both(p) == {fs[p[1]].source, fs[p[2]].source}
    <3>1. DOMAIN PairSharing(fs) = {both(p) : p \in Joined(fs)}
      BY SharingIs
    <3>2. (\E p \in Joined(fs) : {fs[p[1]].source, fs[p[2]].source} = {f, g}) <=> \E p \in Joined(fs) : both(p) = {f, g}
      OBVIOUS
    <3> HIDE DEF both
    <3>3. ASSUME NEW pair
          PROVE  pair \in DOMAIN PairSharing(fs) <=> \E p \in Joined(fs) : both(p) = pair
      BY <3>1
    <3> QED
      BY <3>2, <3>3
  <2>2. S # {} <=> \E p \in Joined(fs) : {fs[p[1]].source, fs[p[2]].source} = {f, g}
    BY DEF JoinedOf
  <2> QED
    BY <2>1, <2>2
<1>3. S # {} <=> T # {}
  BY <1>1 DEF OneToOne
<1>4. ASSUME HashTellsSize, {f, g} \in DOMAIN PairSharing(fs)
      PROVE  PairSharing(fs)[{f, g}] = Total([p \in T |-> Desc(p[1]).insts], T)
  <2> DEFINE M == [p \in Joined(fs) |-> fs[p[1]].insts]
             N == [p \in T |-> Desc(p[1]).insts]
  <2>1. PairSharing(fs)[{f, g}] = Total(M, S)
    BY <1>4, SharingIs
  <2>2. S \in SUBSET Joined(fs) /\ IsFiniteSet(S)
    BY JoinedFinite, FS_Subset DEF JoinedOf, Lists
  <2>3. \A p \in S : M[p] = fs[p[1]].insts
    BY <2>2
  <2>4. \A p \in S : c[p] \in T
    BY <1>1 DEF OneToOne
  <2>5. \A t \in T : N[t] = Desc(t[1]).insts
    OBVIOUS
  <2>6. ASSUME NEW t \in T PROVE N[t] \in Nat
    <3>1. t[1] \in Definitions
      BY DEF SharedBy
    <3>2. PICK x \in DOMAIN fs : b[x] = t[1]
      BY <3>1 DEF Lists, OneToOne
    <3>3. fs[x] = Desc(t[1]) /\ fs[x].insts \in Nat
      BY <3>2 DEF Lists, IsFuncs
    <3> QED
      BY <2>5, <3>3
  <2> HIDE DEF M, N, S, T
  <2>7. \A p \in S : M[p] = N[c[p]]
    BY <1>1, <1>4, <2>3, <2>4, <2>5
  <2>8. Total(M, S) = Total(N, T)
    BY <1>1, <2>2, <2>6, <2>7, SumAlong
  <2> QED
    BY <2>1, <2>8 DEF N
<1> QED
  BY <1>2, <1>3, <1>4

(***************************************************************************)
(* The vertices of the pairwise graph: every file with a function has one, *)
(* and one has two only where its functions do not follow each other.      *)
(***************************************************************************)
Scattered(fs) ==
  \E i, j, k \in DOMAIN fs :
    i < j /\ j < k /\ fs[i].source = fs[k].source /\ fs[j].source # fs[k].source

LEMMA RunsOfFiles ==
  ASSUME NEW b, Lists(mem.funcs, Definitions, b)
  PROVE  LET vs == PairwiseGraph.vertices
         IN  /\ \E n \in Nat : DOMAIN vs = 1 .. n
             /\ \A d \in Definitions : \E n \in DOMAIN vs : vs[n].name = ModuleVertex(Desc(d).source)
             /\ \A n, m \in DOMAIN vs : n < m /\ vs[n].name = vs[m].name => Scattered(mem.funcs)
<1> DEFINE fs == mem.funcs
           runs == GroupBy(fs, "source")
           vs == PairwiseGraph.vertices
<1>1. IsFuncs(fs) /\ fs \in Seq(Values(fs))
  BY DEF Lists, IsTable
<1>2. \E k, a, c : Grouping(fs, "source", k, a, c)
  BY <1>1, GroupFacts
<1>3. PICK k : \E a, c : Grouping(fs, "source", k, a, c)
  BY <1>2
<1>4. PICK a : \E c : Grouping(fs, "source", k, a, c)
  BY <1>3
<1>5. PICK c : Grouping(fs, "source", k, a, c)
  BY <1>4
<1>6. /\ k \in Nat /\ DOMAIN runs = 1 .. k
      /\ \A n \in 1 .. k : a[n] \in 1 .. Len(fs) /\ c[n] \in 1 .. Len(fs) /\ a[n] <= c[n]
      /\ \A n \in 1 .. k : runs[n] = SubSeq(fs, a[n], c[n])
      /\ \A n, m \in 1 .. k : n < m => c[n] < a[m]
      /\ \A i \in 1 .. Len(fs) : \E n \in 1 .. k : i \in a[n] .. c[n]
      /\ \A n \in 1 .. k : \A i \in a[n] .. c[n] : fs[i].source = fs[a[n]].source
      /\ \A n \in 1 .. k : a[n] # 1 => fs[a[n] - 1].source # fs[a[n]].source
  BY <1>5 DEF Grouping
<1>7. Len(fs) \in Nat /\ DOMAIN fs = 1 .. Len(fs)
  BY <1>1 DEF IsFuncs
<1>8. vs = [i \in DOMAIN runs |-> Vertex(ModuleVertex(runs[i][1].source), InstCount(runs[i]))]
  BY DEF PairwiseGraph
<1> HIDE DEF runs, vs, fs
<1>9. DOMAIN vs = 1 .. k /\ \A n \in 1 .. k : vs[n].name = ModuleVertex(runs[n][1].source)
  BY <1>6, <1>8 DEF Vertex
<1>10. ASSUME NEW n \in 1 .. k PROVE runs[n][1] = fs[a[n]]
  <2>1. fs \in Seq(Values(fs)) /\ a[n] \in 1 .. Len(fs) /\ c[n] \in 1 .. Len(fs) /\ a[n] <= c[n]
    BY <1>1, <1>6
  <2>2. SubSeq(fs, a[n], c[n])[1] = fs[a[n] + 1 - 1]
    BY <2>1, <1>7, SubSeqProperties
  <2>3. a[n] + 1 - 1 = a[n]
    BY <1>7, <2>1
  <2>4. runs[n] = SubSeq(fs, a[n], c[n])
    BY <1>6
  <2> QED
    BY <2>2, <2>3, <2>4
<1>11. \A n \in 1 .. k : vs[n].name = ModuleVertex(fs[a[n]].source)
  BY <1>9, <1>10
<1>12. ASSUME NEW d \in Definitions
       PROVE  \E n \in DOMAIN vs : vs[n].name = ModuleVertex(Desc(d).source)
  <2>1. PICK i \in DOMAIN fs : b[i] = d
    BY DEF Lists, OneToOne, fs
  <2>2. fs[i] = Desc(d)
    BY <2>1 DEF Lists, fs
  <2>3. PICK n \in 1 .. k : i \in a[n] .. c[n]
    BY <1>6, <1>7
  <2>4. fs[i].source = fs[a[n]].source
    BY <1>6, <2>3
  <2> QED
    BY <1>9, <1>11, <2>2, <2>4
<1>13. ASSUME NEW n \in DOMAIN vs, NEW m \in DOMAIN vs, n < m, vs[n].name = vs[m].name
       PROVE  Scattered(fs)
  <2>1. n \in 1 .. k /\ m \in 1 .. k
    BY <1>9
  <2>2. ModuleVertex(fs[a[n]].source) = ModuleVertex(fs[a[m]].source)
    BY <1>11, <1>13, <2>1
  <2>3. fs[a[n]].source = fs[a[m]].source
    BY <2>2, NamesOfKinds
  <2>4. a[n] \in 1 .. Len(fs) /\ a[m] \in 1 .. Len(fs) /\ c[n] \in 1 .. Len(fs) /\ a[n] <= c[n] /\ c[n] < a[m]
    BY <1>6, <1>13, <2>1
  <2>5. a[m] # 1 /\ a[m] - 1 \in DOMAIN fs /\ a[n] \in DOMAIN fs /\ a[m] \in DOMAIN fs /\ a[n] <= a[m] - 1 /\ a[m] - 1 < a[m]
    BY <1>7, <2>4
  <2>6. fs[a[m] - 1].source # fs[a[m]].source
    BY <1>6, <2>1, <2>5
  <2>7. a[n] # a[m] - 1
    BY <2>3, <2>6
  <2>8. a[n] < a[m] - 1
    BY <1>7, <2>4, <2>5, <2>7
  <2> DEFINE i == a[n]
             j == a[m] - 1
             l == a[m]
  <2>9. i \in DOMAIN fs /\ j \in DOMAIN fs /\ l \in DOMAIN fs /\ i < j /\ j < l /\ fs[i].source = fs[l].source /\ fs[j].source # fs[l].source
    BY <2>3, <2>5, <2>6, <2>8
  <2> HIDE DEF i, j, l
  <2> QED
    BY <2>9 DEF Scattered
<1> QED
  BY <1>6, <1>9, <1>12, <1>13 DEF vs, fs

\* What an assertion on the pairwise graph tells of the functions.
PairsFail == ~HashTellsSize \/ Scattered(mem.funcs)

LEMMA PairwiseFails ==
  ASSUME NEW b, Lists(mem.funcs, Definitions, b), NEW E,
         StringGraph(PairwiseGraph.vertices, E).bad \/ SizesDiffer
  PROVE  PairsFail
<1>1. CASE SizesDiffer
  <2>1. Reflects(mem.funcs)
    BY ListReflects
  <2>2. PICK i \in DOMAIN mem.funcs : \E j \in DOMAIN mem.funcs :
           mem.funcs[i].hash = mem.funcs[j].hash /\ mem.funcs[i].insts # mem.funcs[j].insts
    BY <1>1 DEF SizesDiffer
  <2>3. ~HashTellsSize
    BY <2>1, <2>2 DEF Reflects
  <2> QED
    BY <2>3 DEF PairsFail
<1>2. CASE StringGraph(PairwiseGraph.vertices, E).bad
  <2> DEFINE vs == PairwiseGraph.vertices
  <2>1. \E i, j \in DOMAIN vs : i # j /\ vs[i].name = vs[j].name
    BY <1>2 DEF StringGraph
  <2>2. /\ \E n \in Nat : DOMAIN vs = 1 .. n
        /\ \A n, m \in DOMAIN vs : n < m /\ vs[n].name = vs[m].name => Scattered(mem.funcs)
    BY RunsOfFiles
  <2> HIDE DEF vs
  <2>3. PICK n \in Nat : DOMAIN vs = 1 .. n
    BY <2>2
  <2>4. PICK i \in DOMAIN vs : \E j \in DOMAIN vs : i # j /\ vs[i].name = vs[j].name
    BY <2>1
  <2>5. PICK j \in DOMAIN vs : i # j /\ vs[i].name = vs[j].name
    BY <2>4
  <2>6. i < j \/ j < i
    BY <2>3, <2>5
  <2> QED
    BY <2>2, <2>5, <2>6 DEF PairsFail
<1> QED
  BY <1>1, <1>2

(***************************************************************************)
(* The pairwise graph has one edge between two files that share functions, *)
(* which says how many instructions, also where a file has two vertices.   *)
(***************************************************************************)
EdgeNames(G, e) == {G.nodes[e.src + 1].name, G.nodes[e.dst + 1].name}
EdgesJoining(G, f, g) == {i \in DOMAIN G.edges : EdgeNames(G, G.edges[i]) = {ModuleVertex(f), ModuleVertex(g)}}

EdgeRight(G, f, g) ==
  /\ Cardinality(EdgesJoining(G, f, g)) = (IF SharedBy(f, g) # {} THEN 1 ELSE 0)
  /\ \A i \in EdgesJoining(G, f, g) :
       G.edges[i].weight = Total([p \in SharedBy(f, g) |-> Desc(p[1]).insts], SharedBy(f, g))

PairsRight(G) == HashTellsSize => \A f, g \in Files : f # g => EdgeRight(G, f, g)

\* The pair of files of an edge, and its weight.
JoinsPair(e, pair, weight) ==
  \E x, y : x # y /\ pair = {x, y} /\ e = Edge(ModuleVertex(x), ModuleVertex(y), weight)

LEMMA PairEdges ==
  LET sharing == PairSharing(mem.funcs)
  IN  \E edge : /\ DOMAIN edge = DOMAIN sharing
                /\ PairwiseGraph.edges = {edge[pair] : pair \in DOMAIN sharing}
                /\ \A pair \in DOMAIN sharing : JoinsPair(edge[pair], pair, sharing[pair])
<1> DEFINE sharing == PairSharing(mem.funcs)
           first(pair) == CHOOSE f \in pair : TRUE
           second(pair) == CHOOSE g \in pair \ {first(pair)} : TRUE
           edge == [pair \in DOMAIN sharing |->
                      Edge(ModuleVertex(first(pair)), ModuleVertex(second(pair)), sharing[pair])]
<1>1. PairwiseGraph.edges = {edge[pair] : pair \in DOMAIN sharing}
  BY DEF PairwiseGraph
<1>2. ASSUME NEW pair \in DOMAIN sharing
      PROVE  JoinsPair(edge[pair], pair, sharing[pair])
  <2>1. \E p \in Joined(mem.funcs) : pair = {mem.funcs[p[1]].source, mem.funcs[p[2]].source}
    <3> DEFINE both(p) == {mem.funcs[p[1]].source, mem.funcs[p[2]].source}
    <3>1. DOMAIN sharing = {both(p) : p \in Joined(mem.funcs)}
      BY SharingIs
    <3> HIDE DEF both, sharing
    <3>2. \E p \in Joined(mem.funcs) : pair = both(p)
      BY <3>1
    <3> QED
      BY <3>2 DEF both
  <2>2. PICK p \in Joined(mem.funcs) : pair = {mem.funcs[p[1]].source, mem.funcs[p[2]].source}
    BY <2>1
  <2>3. mem.funcs[p[1]].source # mem.funcs[p[2]].source
    BY DEF Joined
  <2>4. \E x, y : x # y /\ pair = {x, y}
    BY <2>2, <2>3
  <2>5. PICK x, y : x # y /\ pair = {x, y}
    BY <2>4
  <2>6. first(pair) \in pair
    BY <2>5
  <2>7. second(pair) \in pair \ {first(pair)}
    <3>1. pair \ {first(pair)} # {}
      BY <2>5, <2>6
    <3> HIDE DEF first
    <3> QED
      BY <3>1
  <2>8. edge[pair] = Edge(ModuleVertex(first(pair)), ModuleVertex(second(pair)), sharing[pair])
    OBVIOUS
  <2> HIDE DEF first, second, edge, sharing
  <2>9. first(pair) # second(pair) /\ pair = {first(pair), second(pair)}
    BY <2>5, <2>6, <2>7
  <2> QED
    BY <2>8, <2>9 DEF JoinsPair
<1>3. DOMAIN edge = DOMAIN sharing
  OBVIOUS
<1> HIDE DEF edge
<1> QED
  BY <1>1, <1>2, <1>3

LEMMA PairwiseDrawn ==
  ASSUME NEW b, Lists(mem.funcs, Definitions, b)
  PROVE  PairsRight(StringGraph(PairwiseGraph.vertices, SetToSeq(PairwiseGraph.edges)))
<1> DEFINE fs == mem.funcs
           vs == PairwiseGraph.vertices
           E == PairwiseGraph.edges
           es == SetToSeq(E)
           G == StringGraph(vs, es)
           sharing == PairSharing(fs)
           D == DOMAIN sharing
           both(p) == {fs[p[1]].source, fs[p[2]].source}
<1>1. D = {both(p) : p \in Joined(fs)}
  BY SharingIs
<1>2. /\ \E n \in Nat : DOMAIN vs = 1 .. n
      /\ \A d \in Definitions : \E n \in DOMAIN vs : vs[n].name = ModuleVertex(Desc(d).source)
  BY RunsOfFiles
<1>3. PICK k \in Nat : DOMAIN vs = 1 .. k
  BY <1>2
<1>4. PICK edge : /\ DOMAIN edge = D
                  /\ E = {edge[pair] : pair \in D}
                  /\ \A pair \in D : JoinsPair(edge[pair], pair, sharing[pair])
  BY PairEdges
<1>5. /\ G.nodes = vs /\ DOMAIN G.edges = DOMAIN es
      /\ \A i \in DOMAIN es : /\ G.edges[i].src = Index(vs, es[i].from)
                              /\ G.edges[i].dst = Index(vs, es[i].to)
                              /\ G.edges[i].weight = es[i].weight
  BY DEF StringGraph
<1>6. /\ \A x \in DOMAIN fs : b[x] \in Definitions /\ fs[x] = Desc(b[x])
      /\ IsFuncs(fs)
  BY DEF Lists, OneToOne
<1> HIDE DEF fs, vs, es, G, sharing
<1>7. IsFiniteSet(D)
  <2> DEFINE s == [p \in Joined(fs) |-> both(p)]
  <2>1. DOMAIN s = Joined(fs) /\ \A p \in Joined(fs) : s[p] = both(p)
    OBVIOUS
  <2>2. IsFiniteSet(Joined(fs))
    BY <1>6, JoinedFinite
  <2> HIDE DEF s, both
  <2>3. IsFiniteSet({s[p] : p \in Joined(fs)})
    BY <2>1, <2>2, FiniteImage
  <2>4. {s[p] : p \in Joined(fs)} = D
    BY <1>1, <2>1
  <2> QED
    BY <2>3, <2>4
<1>8. /\ \A e \in E : \E n \in DOMAIN es : es[n] = e
      /\ \A n, m \in DOMAIN es : es[n] = es[m] => n = m
      /\ \A n \in DOMAIN es : es[n] \in E
  <2>1. IsFiniteSet(E)
    BY <1>4, <1>7, FiniteImage
  <2> HIDE DEF E
  <2>2. /\ es \in Seq(E)
        /\ \A e \in E : \E n \in DOMAIN es : es[n] = e
        /\ \A n, m \in DOMAIN es : es[n] = es[m] => n = m
    BY <2>1, SequenceOfSet DEF es
  <2>3. \A n \in DOMAIN es : es[n] \in E
    BY <2>2, LenProperties, ElementOfSeq
  <2> QED
    BY <2>2, <2>3
<1>9. ASSUME NEW pair \in D, NEW x \in pair
      PROVE  \E n \in DOMAIN vs : vs[n].name = ModuleVertex(x)
  <2>1. PICK p \in Joined(fs) : pair = both(p)
    BY <1>1
  <2>2. p[1] \in DOMAIN fs /\ p[2] \in DOMAIN fs
    BY DEF Joined
  <2>3. \E i \in DOMAIN fs : x = fs[i].source
    BY <2>1, <2>2
  <2>4. PICK i \in DOMAIN fs : x = fs[i].source
    BY <2>3
  <2>5. b[i] \in Definitions /\ x = Desc(b[i]).source
    BY <1>6, <2>4
  <2> QED
    BY <1>2, <2>5
<1> HIDE DEF D, both, E
<1>10. ASSUME NEW i \in DOMAIN es, NEW pair \in D, es[i] = edge[pair]
       PROVE  /\ EdgeNames(G, G.edges[i]) = {ModuleVertex(x) : x \in pair}
              /\ G.edges[i].weight = sharing[pair]
  <2>1. \E x, y : x # y /\ pair = {x, y} /\ es[i] = Edge(ModuleVertex(x), ModuleVertex(y), sharing[pair])
    BY <1>4, <1>10 DEF JoinsPair
  <2>2. PICK x, y : pair = {x, y} /\ es[i] = Edge(ModuleVertex(x), ModuleVertex(y), sharing[pair])
    BY <2>1
  <2>3. es[i].from = ModuleVertex(x) /\ es[i].to = ModuleVertex(y) /\ es[i].weight = sharing[pair]
    BY <2>2 DEF Edge
  <2>4. PICK n \in DOMAIN vs : vs[n].name = ModuleVertex(x)
    BY <1>9, <2>2
  <2>5. PICK m \in DOMAIN vs : vs[m].name = ModuleVertex(y)
    BY <1>9, <2>2
  <2>6. vs[Index(vs, es[i].from) + 1].name = ModuleVertex(x)
    <3>1. n \in 1 .. k /\ es[i].from = vs[n].name
      BY <1>3, <2>3, <2>4
    <3>2. vs[Index(vs, vs[n].name) + 1].name = vs[n].name
      BY <1>3, <3>1, IndexFacts
    <3> QED
      BY <2>4, <3>1, <3>2
  <2>7. vs[Index(vs, es[i].to) + 1].name = ModuleVertex(y)
    <3>1. m \in 1 .. k /\ es[i].to = vs[m].name
      BY <1>3, <2>3, <2>5
    <3>2. vs[Index(vs, vs[m].name) + 1].name = vs[m].name
      BY <1>3, <3>1, IndexFacts
    <3> QED
      BY <2>5, <3>1, <3>2
  <2>8. EdgeNames(G, G.edges[i]) = {ModuleVertex(x), ModuleVertex(y)}
    BY <1>5, <2>6, <2>7 DEF EdgeNames
  <2>9. {ModuleVertex(z) : z \in {x, y}} = {ModuleVertex(x), ModuleVertex(y)}
    OBVIOUS
  <2> QED
    BY <1>5, <2>2, <2>3, <2>8, <2>9
<1>11. ASSUME NEW S, NEW f, NEW g, {ModuleVertex(x) : x \in S} = {ModuleVertex(f), ModuleVertex(g)}
       PROVE  S = {f, g}
  <2>1. \A x, y : ModuleVertex(x) = ModuleVertex(y) => x = y
    BY NamesOfKinds
  <2>2. ASSUME NEW x \in S PROVE x \in {f, g}
    <3>1. ModuleVertex(x) \in {ModuleVertex(f), ModuleVertex(g)}
      BY <1>11
    <3> QED
      BY <2>1, <3>1
  <2>3. ASSUME NEW x \in {f, g} PROVE x \in S
    <3>1. ModuleVertex(x) \in {ModuleVertex(y) : y \in S}
      BY <1>11
    <3> QED
      BY <2>1, <3>1
  <2> QED
    BY <2>2, <2>3
<1>12. ASSUME NEW f, NEW g, NEW i \in EdgesJoining(G, f, g)
       PROVE  {f, g} \in D /\ i \in DOMAIN es /\ es[i] = edge[{f, g}]
  <2>1. i \in DOMAIN es /\ EdgeNames(G, G.edges[i]) = {ModuleVertex(f), ModuleVertex(g)}
    BY <1>5 DEF EdgesJoining
  <2>2. PICK pair \in D : es[i] = edge[pair]
    BY <1>4, <1>8, <2>1
  <2>3. {ModuleVertex(x) : x \in pair} = {ModuleVertex(f), ModuleVertex(g)}
    BY <1>10, <2>1, <2>2
  <2>4. pair = {f, g}
    BY <1>11, <2>3
  <2> QED
    BY <2>1, <2>2, <2>4
<1>13. ASSUME NEW f, NEW g, {f, g} \in D
       PROVE  \E n : EdgesJoining(G, f, g) = {n}
  <2>1. PICK n \in DOMAIN es : es[n] = edge[{f, g}]
    BY <1>4, <1>8, <1>13
  <2>2. {ModuleVertex(x) : x \in {f, g}} = {ModuleVertex(f), ModuleVertex(g)}
    OBVIOUS
  <2>3. n \in EdgesJoining(G, f, g)
    BY <1>5, <1>10, <1>13, <2>1, <2>2 DEF EdgesJoining
  <2>4. \A i \in EdgesJoining(G, f, g) : i = n
    BY <1>8, <1>12, <2>1
  <2> QED
    BY <2>3, <2>4
<1>14. ASSUME HashTellsSize, NEW f, NEW g, f # g
       PROVE  EdgeRight(G, f, g)
  <2>1. /\ {f, g} \in D <=> SharedBy(f, g) # {}
        /\ {f, g} \in D => sharing[{f, g}] = Total([p \in SharedBy(f, g) |-> Desc(p[1]).insts], SharedBy(f, g))
    BY <1>14, PairsShared DEF D, sharing, fs
  <2>2. CASE {f, g} \in D
    <3>1. Cardinality(EdgesJoining(G, f, g)) = 1
      <4>1. PICK n : EdgesJoining(G, f, g) = {n}
        BY <1>13, <2>2
      <4> QED
        BY <4>1, FS_Singleton
    <3>2. ASSUME NEW i \in EdgesJoining(G, f, g) PROVE G.edges[i].weight = sharing[{f, g}]
      <4> DEFINE pair == {f, g}
      <4>1. pair \in D /\ i \in DOMAIN es /\ es[i] = edge[pair]
        BY <1>12
      <4> HIDE DEF pair
      <4>2. G.edges[i].weight = sharing[pair]
        BY <1>10, <4>1
      <4> QED
        BY <4>2 DEF pair
    <3> QED
      BY <2>1, <2>2, <3>1, <3>2 DEF EdgeRight
  <2>3. CASE {f, g} \notin D
    <3>1. EdgesJoining(G, f, g) = {}
      BY <1>12, <2>3
    <3> QED
      BY <2>1, <2>3, <3>1, FS_EmptySet DEF EdgeRight
  <2> QED
    BY <2>2, <2>3
<1>15. PairsRight(G)
  BY <1>14 DEF PairsRight
<1> QED
  BY <1>15 DEF G, vs, es, E

-----------------------------------------------------------------------------
(***************************************************************************)
(* functionhashes: how far it has come, and that what it then has is of    *)
(* all functions that the modules of the database define.                  *)
(***************************************************************************)
Reported ==
  /\ "print-functions" \in cmd.flags => PrintedRight(out.groups, out.redundant)
  /\ "write-graph" \in cmd.flags =>
       /\ "pairwise" \in cmd.flags => PairsRight(mem.graph)
       /\ "pairwise" \notin cmd.flags /\ "hashgraph-merged" \in cmd.flags => MergedDrawn(out.nodes, out.edges)
       /\ "pairwise" \notin cmd.flags /\ "hashgraph-merged" \notin cmd.flags => HashesDrawn(out.nodes, out.edges)
  /\ {"write-graph", "write-csv"} \cap cmd.flags = {"write-csv"} => RowsRight(out.rows)

\* The functions of the modules before the next are read.
ReadSoFar ==
  /\ next \in Nat \ {0} /\ next <= Len(infos) + 1 /\ "funcs" \in DOMAIN mem
  /\ \E b : Lists(mem.funcs, Upto(next - 1), b)

Printed ==
  "print-functions" \in cmd.flags =>
    {"groups", "redundant"} \subseteq DOMAIN out /\ PrintedRight(out.groups, out.redundant)

PairsAbort == "pairwise" \in cmd.flags /\ PairsFail

HashInv ==
  cmd.name = "functionhashes" =>
    /\ cmd.threshold \in Nat
    /\ stage = "modules" => pc = "done" /\ ~kept /\ ReadSoFar
    /\ stage = "emit" => pc = "done" /\ AllSorted(mem.funcs, mem.groups) /\ Printed
    /\ stage \in {"close", "success"} /\ kept => pc = "done" /\ Reported
    /\ stage = "aborted" => pc = "aborted" \/ (pc = "done" /\ PairsAbort)

LEMMA DefinitionsSame ==
  ASSUME UNCHANGED infos
  PROVE  /\ Definitions' = Definitions
         /\ \A d : Desc(d)' = Desc(d)
         /\ Files' = Files /\ Hashes' = Hashes
         /\ HashTellsSize' <=> HashTellsSize
<1>1. Definitions' = Definitions
  BY DEF Definitions
<1>2. ASSUME NEW d PROVE Desc(d)' = Desc(d)
  BY DEF Desc
<1>3. Files' = Files
  BY DEF Files
<1>4. Hashes' = Hashes
  BY <1>1 DEF Hashes, Desc
<1>5. HashTellsSize' <=> HashTellsSize
  BY <1>1 DEF HashTellsSize, Desc
<1> QED
  BY <1>1, <1>2, <1>3, <1>4, <1>5

LEMMA HashesSame ==
  ASSUME UNCHANGED infos, NEW h
  PROVE  WithHash(h)' = WithHash(h) /\ FilesWith(h)' = FilesWith(h) /\ NumberWith(h)' = NumberWith(h) /\ InstsWith(h)' = InstsWith(h)
<1>1. Definitions' = Definitions
  BY DEF Definitions
<1>2. WithHash(h)' = WithHash(h)
  BY <1>1 DEF WithHash, Desc
<1>3. FilesWith(h)' = FilesWith(h)
  BY <1>2 DEF FilesWith, Desc
<1>4. NumberWith(h)' = NumberWith(h)
  BY <1>2 DEF NumberWith
<1>5. InstsWith(h)' = InstsWith(h)
  BY <1>1, <1>2 DEF InstsWith, Desc
<1> QED
  BY <1>2, <1>3, <1>4, <1>5

LEMMA ReportedSame ==
  ASSUME UNCHANGED <<infos, cmd>>
  PROVE  /\ PrintedRight(out.groups, out.redundant)' <=> PrintedRight(out'.groups, out'.redundant)
         /\ PairsRight(mem.graph)' <=> PairsRight(mem'.graph)
         /\ MergedDrawn(out.nodes, out.edges)' <=> MergedDrawn(out'.nodes, out'.edges)
         /\ HashesDrawn(out.nodes, out.edges)' <=> HashesDrawn(out'.nodes, out'.edges)
         /\ RowsRight(out.rows)' <=> RowsRight(out'.rows)
<1>1. Definitions' = Definitions /\ Hashes' = Hashes /\ (HashTellsSize' <=> HashTellsSize) /\ Files' = Files
  BY DefinitionsSame
<1>2. PrintedRight(out.groups, out.redundant)' <=> PrintedRight(out'.groups, out'.redundant)
  <2>1. \A h : NumberWith(h)' = NumberWith(h) /\ InstsWith(h)' = InstsWith(h)
    BY HashesSame
  <2>2. {<<h, NumberWith(h)>> : h \in {h \in Hashes : NumberWith(h) > 1}}'
          = {<<h, NumberWith(h)>> : h \in {h \in Hashes : NumberWith(h) > 1}}
    BY <1>1, <2>1
  <2>3. [h \in Hashes |-> InstsWith(h) - InstsWith(h) \div NumberWith(h)]'
          = [h \in Hashes |-> InstsWith(h) - InstsWith(h) \div NumberWith(h)]
    BY <1>1, <2>1
  <2> QED
    BY <1>1, <2>2, <2>3 DEF PrintedRight
<1>3. PairsRight(mem.graph)' <=> PairsRight(mem'.graph)
  <2>1. \A f, g : EdgesJoining(mem.graph, f, g)' = EdgesJoining(mem'.graph, f, g)
    BY DEF EdgesJoining, EdgeNames
  <2>2. \A f, g : SharedBy(f, g)' = SharedBy(f, g)
    BY <1>1 DEF SharedBy, Desc
  <2>3. ASSUME NEW f, NEW g
        PROVE  [p \in SharedBy(f, g) |-> Desc(p[1]).insts]' = [p \in SharedBy(f, g) |-> Desc(p[1]).insts]
    BY <2>2 DEF Desc
  <2>4. \A f, g : Total([p \in SharedBy(f, g) |-> Desc(p[1]).insts], SharedBy(f, g))'
                   = Total([p \in SharedBy(f, g) |-> Desc(p[1]).insts], SharedBy(f, g))
    BY <2>2, <2>3
  <2>5. ASSUME NEW f, NEW g PROVE EdgeRight(mem.graph, f, g)' <=> EdgeRight(mem'.graph, f, g)
    BY <2>1, <2>2, <2>4 DEF EdgeRight
  <2> QED
    BY <1>1, <2>5 DEF PairsRight
<1>4. MergedHashes' = MergedHashes /\ ShownHashes' = ShownHashes
  BY <1>1 DEF MergedHashes, ShownHashes, Shown, NumberWith, InstsWith, FilesWith, WithHash, Desc
<1>5. MergedDrawn(out.nodes, out.edges)' <=> MergedDrawn(out'.nodes, out'.edges)
  BY <1>1, <1>4 DEF MergedDrawn, MergedFiles, Merges, NumberWith, InstsWith, FilesWith, WithHash, Desc
<1>6. HashesDrawn(out.nodes, out.edges)' <=> HashesDrawn(out'.nodes, out'.edges)
  BY <1>1, <1>4 DEF HashesDrawn, FilesWith, WithHash, Desc
<1>7. RowsRight(out.rows)' <=> RowsRight(out'.rows)
  BY <1>1 DEF RowsRight, Desc
<1> QED
  BY <1>2, <1>3, <1>5, <1>6, <1>7

\* Lists and aborts, as the database does not change.
LEMMA ListSame ==
  ASSUME UNCHANGED infos
  PROVE  /\ \A b : Lists(mem.funcs, Upto(next - 1), b)' <=> Lists(mem'.funcs, Upto(next' - 1), b)
         /\ AllSorted(mem.funcs, mem.groups)' <=> AllSorted(mem'.funcs, mem'.groups)
<1>1. Definitions' = Definitions
  BY DEF Definitions
<1>2. Upto(next - 1)' = Upto(next' - 1)
  BY <1>1 DEF Upto
<1>3. ASSUME NEW b PROVE Lists(mem.funcs, Upto(next - 1), b)' <=> Lists(mem'.funcs, Upto(next' - 1), b)
  BY <1>2 DEF Lists, Desc
<1>4. AllSorted(mem.funcs, mem.groups)' <=> AllSorted(mem'.funcs, mem'.groups)
  BY <1>1 DEF AllSorted, Lists, Desc
<1> QED
  BY <1>3, <1>4

LEMMA AbortSame ==
  ASSUME UNCHANGED <<infos, cmd>>, mem'.funcs = mem.funcs
  PROVE  PairsAbort' <=> PairsAbort
<1>1. HashTellsSize' <=> HashTellsSize
  BY DefinitionsSame
<1> QED
  BY <1>1 DEF PairsAbort, PairsFail, Scattered

LEMMA HashRest ==
  ASSUME HashInv, Scanning, Quietly
  PROVE  HashInv'
<1> SUFFICES ASSUME cmd.name = "functionhashes" PROVE HashInv'
  BY DEF HashInv, Quietly
<1>1. /\ pc = "done" => UNCHANGED <<pc, infos>>
      /\ pc = "aborted" => pc' = pc
  BY EndedRests
<1>2. UNCHANGED <<cmd, next, mem, out, kept>>
  BY DEF Quietly
<1>3. ASSUME stage' = "modules" PROVE pc' = "done" /\ ~kept' /\ ReadSoFar'
  <2>1. stage = "modules"
    BY <1>3 DEF Quietly
  <2>2. pc = "done" /\ ~kept /\ ReadSoFar
    BY <2>1 DEF HashInv
  <2>3. UNCHANGED <<pc, infos>>
    BY <1>1, <2>2
  <2>4. PICK b : Lists(mem.funcs, Upto(next - 1), b)
    BY <2>2 DEF ReadSoFar
  <2>5. Lists(mem.funcs, Upto(next - 1), b)'
    BY <1>2, <2>3, <2>4, ListSame
  <2> QED
    BY <1>2, <2>2, <2>3, <2>5 DEF ReadSoFar
<1>4. ASSUME stage' = "emit" PROVE pc' = "done" /\ AllSorted(mem.funcs, mem.groups)' /\ Printed'
  <2>1. stage = "emit"
    BY <1>4 DEF Quietly
  <2>2. pc = "done" /\ AllSorted(mem.funcs, mem.groups) /\ Printed
    BY <2>1 DEF HashInv
  <2>3. UNCHANGED <<pc, infos>>
    BY <1>1, <2>2
  <2>4. AllSorted(mem.funcs, mem.groups)'
    BY <1>2, <2>2, <2>3, ListSame
  <2>5. Printed'
    BY <1>2, <2>2, <2>3, ReportedSame DEF Printed
  <2> QED
    BY <2>2, <2>3, <2>4, <2>5
<1>5. ASSUME stage' \in {"close", "success"}, kept' PROVE pc' = "done" /\ Reported'
  <2>1. stage \in {"close", "success"} /\ kept
    BY <1>5 DEF Quietly, HashInv
  <2>2. pc = "done" /\ Reported
    BY <2>1 DEF HashInv
  <2>3. UNCHANGED <<pc, infos>>
    BY <1>1, <2>2
  <2> QED
    BY <1>2, <2>2, <2>3, ReportedSame DEF Reported
<1>6. ASSUME stage' = "aborted" PROVE pc' = "aborted" \/ (pc' = "done" /\ PairsAbort')
  <2>1. stage = "aborted" \/ pc = "aborted"
    BY <1>6 DEF Quietly
  <2>2. CASE pc = "aborted"
    BY <1>1, <2>2
  <2>3. CASE pc # "aborted"
    <3>1. pc = "done" /\ PairsAbort
      BY <2>1, <2>3 DEF HashInv
    <3>2. UNCHANGED <<pc, infos>>
      BY <1>1, <3>1
    <3> QED
      BY <1>2, <3>1, <3>2, AbortSame
  <2> QED
    BY <2>2, <2>3
<1>7. cmd'.threshold \in Nat
  BY <1>2 DEF HashInv
<1> QED
  BY <1>3, <1>4, <1>5, <1>6, <1>7 DEF HashInv

\* Nothing is read before the first module.
LEMMA ListsNothing ==
  ASSUME DataInv
  PROVE  \E b : Lists(<<>>, Upto(0), b)
<1> DEFINE b == [x \in {} |-> 0]
<1>1. \A i \in DOMAIN infos : i > 0
  BY LenProperties DEF DataInv, DataType
<1>2. Upto(0) = {}
  <2> SUFFICES ASSUME NEW d \in Definitions, d[1] <= 0 PROVE FALSE
    BY DEF Upto
  <2>1. \E i \in DOMAIN infos : \E k \in Defined(infos[i].file) : d = <<i, k>>
    BY DefinitionsAre
  <2>2. PICK i \in DOMAIN infos : d[1] = i
    BY <2>1
  <2>3. i \in Nat
    BY LenProperties DEF DataInv, DataType
  <2> QED
    BY <1>1, <2>2, <2>3
<1>3. DOMAIN <<>> = {} /\ Len(<<>>) = 0 /\ 1 .. 0 = {}
  OBVIOUS
<1>4. IsTable(<<>>)
  BY EmptySeq DEF IsTable
<1>5. IsFuncs(<<>>)
  BY <1>3 DEF IsFuncs
<1>6. OneToOne(b, {}, {})
  BY DEF OneToOne
<1> HIDE DEF b
<1> QED
  BY <1>2, <1>3, <1>4, <1>5, <1>6 DEF Lists

LEMMA HashStarts ==
  ASSUME HashInv, OutputInv, PositionInv, DataInv, HashStart
  PROVE  HashInv'
<1>1. /\ stage = "scan" /\ pc = "done" /\ cmd.name = "functionhashes" /\ stage' = "modules"
      /\ mem' = [funcs |-> <<>>, groups |-> <<>>]
      /\ UNCHANGED <<cmd, pc, infos, next, kept>>
  BY DEF HashStart, Loaded, scanVars, dbVars, ioVars
<1>2. ~kept /\ next = 1
  BY <1>1 DEF OutputInv, KeptInv, KeptOutputs, Early, PositionInv
<1>3. PICK b : Lists(<<>>, Upto(0), b)
  BY ListsNothing
<1>4. mem'.funcs = <<>> /\ "funcs" \in DOMAIN mem' /\ next' - 1 = 0
  BY <1>1, <1>2
<1>5. Lists(mem'.funcs, Upto(next' - 1), b)
  BY <1>3, <1>4
<1>6. ReadSoFar'
  <2>1. next' \in Nat \ {0} /\ next' <= Len(infos') + 1
    BY <1>1, <1>2, LenProperties DEF DataInv, DataType
  <2>2. Lists(mem.funcs, Upto(next - 1), b)'
    BY <1>1, <1>5, ListSame
  <2> QED
    BY <1>4, <2>1, <2>2 DEF ReadSoFar
<1> QED
  BY <1>1, <1>2, <1>6 DEF HashInv

LEMMA HashReads ==
  ASSUME HashInv, DataInv, HashModule
  PROVE  HashInv'
<1>1. /\ stage = "modules" /\ cmd.name = "functionhashes" /\ next <= Len(infos)
      /\ infos[next].file \in DOMAIN Content
      /\ mem' = [mem EXCEPT !.funcs = @ \o FuncDescs(infos[next].file)]
      /\ next' = next + 1
      /\ UNCHANGED <<cmd, pc, infos, stage, kept>>
  BY DEF HashModule, ReadsModule, ReadsModules, CanLoad, scanVars, dbVars, ioVars
<1>2. pc = "done" /\ ~kept /\ ReadSoFar
  BY <1>1 DEF HashInv
<1>3. PICK b : Lists(mem.funcs, Upto(next - 1), b)
  BY <1>2 DEF ReadSoFar
<1>4. Len(infos) \in Nat /\ DOMAIN infos = 1 .. Len(infos) /\ next \in Nat \ {0}
  BY <1>2, LenProperties DEF DataInv, DataType, ReadSoFar
<1> DEFINE n == next - 1
<1>5. n \in Nat /\ n + 1 = next /\ n + 1 \in DOMAIN infos /\ DOMAIN infos \subseteq Nat
  BY <1>1, <1>4
<1>6. Lists(mem.funcs, Upto(n), b) /\ infos[n + 1].file \in DOMAIN Content
  BY <1>1, <1>3, <1>5
<1> HIDE DEF n
<1>7. \E c : Lists(mem.funcs \o FuncDescs(infos[n + 1].file), Upto(n + 1), c)
  BY <1>5, <1>6, ListedNext
<1>8. PICK c : Lists(mem.funcs \o FuncDescs(infos[next].file), Upto(next), c)
  BY <1>5, <1>7
<1>9. mem'.funcs = mem.funcs \o FuncDescs(infos[next].file) /\ "funcs" \in DOMAIN mem'
  <2> DEFINE new == mem.funcs \o FuncDescs(infos[next].file)
  <2>1. mem' = [mem EXCEPT !["funcs"] = new] /\ "funcs" \in DOMAIN mem
    BY <1>1, <1>2 DEF ReadSoFar
  <2> HIDE DEF new
  <2>2. mem'["funcs"] = new /\ "funcs" \in DOMAIN mem'
    BY <2>1
  <2> QED
    BY <2>2 DEF new
<1>10. next' - 1 = next
  BY <1>1, <1>4
<1>11. ReadSoFar'
  <2>1. next' \in Nat \ {0} /\ next' <= Len(infos') + 1
    BY <1>1, <1>4
  <2>2. Lists(mem'.funcs, Upto(next' - 1), c)
    BY <1>8, <1>9, <1>10
  <2>3. Lists(mem.funcs, Upto(next - 1), c)'
    BY <1>1, <2>2, ListSame
  <2> QED
    BY <1>9, <2>1, <2>3 DEF ReadSoFar
<1> QED
  BY <1>1, <1>2, <1>11 DEF HashInv

LEMMA HashIsSorted ==
  ASSUME HashInv, DataInv, HashSort
  PROVE  HashInv'
<1>1. /\ stage = "modules" /\ cmd.name = "functionhashes" /\ next > Len(infos)
      /\ stage' = "emit"
      /\ UNCHANGED <<cmd, pc, infos, next, kept>>
  BY DEF HashSort, ModulesDone, scanVars, dbVars, ioVars
<1>2. pc = "done" /\ ReadSoFar
  BY <1>1 DEF HashInv
<1>3. Len(infos) \in Nat /\ DOMAIN infos = 1 .. Len(infos) /\ next - 1 = Len(infos)
  BY <1>1, <1>2, LenProperties DEF DataInv, DataType, ReadSoFar
<1>4. Upto(next - 1) = Definitions
  <2>1. ASSUME NEW d \in Definitions PROVE d[1] <= next - 1
    <3>1. \E i \in DOMAIN infos : d[1] = i
      BY DefinitionsAre
    <3> QED
      BY <1>3, <3>1
  <2> QED
    BY <2>1 DEF Upto
<1>5. PICK b : Lists(mem.funcs, Definitions, b)
  BY <1>2, <1>4 DEF ReadSoFar
<1>6. PICK fs \in Sortings(mem.funcs) : mem' = [funcs |-> fs, groups |-> GroupBy(fs, "hash")]
  BY DEF HashSort
<1> DEFINE all == GroupBy(fs, "hash")
<1>7. mem'.funcs = fs /\ mem'.groups = all
  BY <1>6
<1>8. AllSorted(fs, all)
  BY <1>5, ListedSorted DEF AllSorted
<1> HIDE DEF all
<1>9. AllSorted(mem'.funcs, mem'.groups)
  BY <1>7, <1>8
<1>10. AllSorted(mem.funcs, mem.groups)'
  BY <1>1, <1>9, ListSame
<1>11. Printed'
  <2> SUFFICES ASSUME "print-functions" \in cmd'.flags
               PROVE  {"groups", "redundant"} \subseteq DOMAIN out' /\ PrintedRight(out.groups, out.redundant)'
    BY DEF Printed
  <2>1. \E gs \in LargestFirst(mem'.groups) :
          out' = [groups |-> gs, redundant |-> Redundant(gs), total |-> InstCount(mem'.funcs)]
    BY <1>1 DEF HashSort
  <2>2. PICK gs \in LargestFirst(all) :
          out' = [groups |-> gs, redundant |-> Redundant(gs), total |-> InstCount(mem'.funcs)]
    BY <1>7, <2>1
  <2>3. {"groups", "redundant"} \subseteq DOMAIN out' /\ out'.groups = gs /\ out'.redundant = Redundant(gs)
    BY <2>2
  <2>4. PrintedRight(gs, Redundant(gs))
    BY <1>8, LargestPrinted
  <2>5. PrintedRight(out'.groups, out'.redundant)
    BY <2>3, <2>4
  <2> QED
    BY <1>1, <2>3, <2>5, ReportedSame
<1> QED
  BY <1>1, <1>2, <1>10, <1>11 DEF HashInv

\* What is written besides keeps what is printed.
LEMMA AddingKeeps ==
  ASSUME NEW written, out' = Adding(written)
  PROVE  /\ \A x \in DOMAIN written : out'[x] = written[x]
         /\ \A x \in (DOMAIN out) \ DOMAIN written : out'[x] = out[x]
<1>1. out' = [x \in (DOMAIN written) \cup DOMAIN out |-> IF x \in DOMAIN written THEN written[x] ELSE out[x]]
  BY DEF Adding
<1> QED
  BY <1>1

LEMMA HashGraphEmitted ==
  ASSUME HashInv, HashEmitGraph, IsAtEmit
  PROVE  HashInv'
<1>1. /\ stage = "emit" /\ "write-graph" \in cmd.flags /\ cmd.name = "functionhashes"
      /\ UNCHANGED <<cmd, pc, infos, next>>
  BY DEF HashEmitGraph, scanVars, dbVars, IsAtEmit
<1>2. pc = "done" /\ AllSorted(mem.funcs, mem.groups) /\ Printed /\ cmd.threshold \in Nat
  BY <1>1 DEF HashInv
<1>3. PICK b : Lists(mem.funcs, Definitions, b)
  BY <1>2 DEF AllSorted
<1> DEFINE gs == SelectedGroups(mem.groups)
           K == KindOfGraph(gs)
           G == StringGraph(K.vertices, SetToSeq(K.edges))
           pairwise == "pairwise" \in cmd.flags
           merged == "hashgraph-merged" \in cmd.flags
<1>4. SharedGroups = gs
  BY DEF SharedGroups, SelectedGroups
<1>5. /\ EmitGraph(G, G.bad \/ (pairwise /\ SizesDiffer))
      /\ mem' = [graph |-> G, funcs |-> mem.funcs, groups |-> mem.groups]
  BY <1>4 DEF HashEmitGraph
<1>6. /\ pairwise => K = PairwiseGraph
      /\ ~pairwise /\ merged => K = MergedGraph(gs)
      /\ ~pairwise /\ ~merged => K = HashGraph(gs)
  <2>1. pairwise => K = PairwiseGraph
    BY DEF KindOfGraph
  <2>2. ~pairwise /\ merged => K = MergedGraph(gs)
    BY DEF KindOfGraph
  <2>3. ~pairwise /\ ~merged => K = HashGraph(gs)
    BY DEF KindOfGraph
  <2> QED
    BY <2>1, <2>2, <2>3
<1>7. ~pairwise => /\ ~G.bad
                   /\ merged => MergedDrawn(GraphLines(G).nodes, GraphLines(G).edges)
                   /\ ~merged => HashesDrawn(GraphLines(G).nodes, GraphLines(G).edges)
  BY <1>2, <1>6, MergedGraphDrawn, HashGraphDrawn
<1>8. pairwise => /\ PairsRight(G)
                  /\ G.bad \/ SizesDiffer => PairsFail
  BY <1>3, <1>6, PairwiseDrawn, PairwiseFails
<1>9. {"nodes", "edges"} = DOMAIN GraphLines(G)
  BY DEF GraphLines
<1>10. mem'.funcs = mem.funcs /\ mem'.graph = G
  BY <1>5
<1> DEFINE bad == G.bad \/ (pairwise /\ SizesDiffer)
<1> HIDE DEF gs, K, G
<1>11. CASE asserts /\ bad
  <2>1. stage' = "aborted"
    BY <1>5, <1>11 DEF EmitGraph, Abort
  <2>2. PairsAbort
    BY <1>7, <1>8, <1>11 DEF PairsAbort
  <2>3. PairsAbort'
    BY <1>1, <1>10, <2>2, AbortSame
  <2> QED
    BY <1>1, <1>2, <2>1, <2>3 DEF HashInv
<1>12. CASE ~(asserts /\ bad)
  <2>1. stage' = "close" /\ (kept' => out' = Adding(GraphLines(G)))
    BY <1>5, <1>12 DEF EmitGraph
  <2>2. ASSUME kept' PROVE Reported'
    <3> DEFINE L == GraphLines(G)
    <3>1. out' = Adding(L)
      BY <2>1, <2>2
    <3>2. DOMAIN L = {"nodes", "edges"}
      BY <1>9
    <3> HIDE DEF L
    <3>3. /\ \A x \in DOMAIN L : out'[x] = L[x]
          /\ \A x \in (DOMAIN out) \ DOMAIN L : out'[x] = out[x]
      BY <3>1, AddingKeeps
    <3>4. out'["nodes"] = L["nodes"] /\ out'["edges"] = L["edges"]
      BY <3>2, <3>3
    <3>5. ~pairwise => /\ merged => MergedDrawn(out'.nodes, out'.edges)
                       /\ ~merged => HashesDrawn(out'.nodes, out'.edges)
      BY <1>7, <3>4 DEF L
    <3>6. pairwise => PairsRight(mem'.graph)
      BY <1>8, <1>10
    <3>7. ASSUME "print-functions" \in cmd.flags PROVE PrintedRight(out'.groups, out'.redundant)
      <4>1. "groups" \in (DOMAIN out) \ DOMAIN L /\ "redundant" \in (DOMAIN out) \ DOMAIN L
        BY <1>2, <3>2, <3>7 DEF Printed
      <4>2. out'["groups"] = out["groups"] /\ out'["redundant"] = out["redundant"]
        BY <3>3, <4>1
      <4>3. PrintedRight(out.groups, out.redundant)
        BY <1>2, <3>7 DEF Printed
      <4> QED
        BY <4>2, <4>3
    <3>8. ~({"write-graph", "write-csv"} \cap cmd.flags = {"write-csv"})
      BY <1>1
    <3>9. UNCHANGED <<infos, cmd>>
      BY <1>1
    <3>10. "print-functions" \in cmd'.flags => PrintedRight(out.groups, out.redundant)'
      BY <3>7, <3>9, ReportedSame
    <3>11. /\ "pairwise" \in cmd'.flags => PairsRight(mem.graph)'
           /\ "pairwise" \notin cmd'.flags /\ "hashgraph-merged" \in cmd'.flags => MergedDrawn(out.nodes, out.edges)'
           /\ "pairwise" \notin cmd'.flags /\ "hashgraph-merged" \notin cmd'.flags => HashesDrawn(out.nodes, out.edges)'
      BY <3>5, <3>6, <3>9, ReportedSame
    <3> QED
      BY <3>8, <3>9, <3>10, <3>11 DEF Reported
  <2> QED
    BY <1>1, <1>2, <2>1, <2>2 DEF HashInv
<1> QED
  BY <1>11, <1>12

LEMMA HashTableEmitted ==
  ASSUME HashInv, HashEmitCSV, IsAtEmit
  PROVE  HashInv'
<1>1. /\ stage = "emit" /\ "write-graph" \notin cmd.flags /\ cmd.name = "functionhashes" /\ stage' = "close"
      /\ UNCHANGED <<cmd, pc, infos, next, mem>>
      /\ kept' => out' = Adding([rows |-> mem.funcs])
  BY DEF HashEmitCSV, scanVars, dbVars, IsAtEmit
<1>2. pc = "done" /\ AllSorted(mem.funcs, mem.groups) /\ Printed
  BY <1>1 DEF HashInv
<1>3. ASSUME kept' PROVE Reported'
  <2> DEFINE L == [rows |-> mem.funcs]
  <2>1. DOMAIN L = {"rows"} /\ L["rows"] = mem.funcs
    OBVIOUS
  <2>2. out' = Adding(L)
    BY <1>1, <1>3
  <2> HIDE DEF L
  <2>3. /\ \A x \in DOMAIN L : out'[x] = L[x]
        /\ \A x \in (DOMAIN out) \ DOMAIN L : out'[x] = out[x]
    BY <2>2, AddingKeeps
  <2>4. out'["rows"] = mem.funcs
    BY <2>1, <2>3
  <2>5. RowsRight(mem.funcs)
    BY <1>2, SortedRows
  <2>6. RowsRight(out'.rows)
    BY <2>4, <2>5
  <2>7. ASSUME "print-functions" \in cmd.flags PROVE PrintedRight(out'.groups, out'.redundant)
    <3>1. "groups" \in (DOMAIN out) \ DOMAIN L /\ "redundant" \in (DOMAIN out) \ DOMAIN L
      BY <1>2, <2>1, <2>7 DEF Printed
    <3>2. out'["groups"] = out["groups"] /\ out'["redundant"] = out["redundant"]
      BY <2>3, <3>1
    <3>3. PrintedRight(out.groups, out.redundant)
      BY <1>2, <2>7 DEF Printed
    <3> QED
      BY <3>2, <3>3
  <2>8. RowsRight(out.rows)'
    BY <1>1, <2>6, ReportedSame
  <2>9. "print-functions" \in cmd'.flags => PrintedRight(out.groups, out.redundant)'
    BY <1>1, <2>7, ReportedSame
  <2>10. "write-graph" \notin cmd'.flags
    BY <1>1
  <2> QED
    BY <2>8, <2>9, <2>10 DEF Reported
<1> QED
  BY <1>1, <1>2, <1>3 DEF HashInv

LEMMA HashNothingEmitted ==
  ASSUME HashInv, HashEmitNothing, IsAtEmit
  PROVE  HashInv'
<1>1. /\ stage = "emit" /\ cmd.flags \cap {"write-graph", "write-csv"} = {} /\ cmd.name = "functionhashes"
      /\ stage' = "close" /\ UNCHANGED <<cmd, pc, infos, next, mem, out>>
  BY DEF HashEmitNothing, Succeed, scanVars, dbVars, IsAtEmit
<1>2. pc = "done" /\ Printed
  BY <1>1 DEF HashInv
<1>3. "print-functions" \in cmd'.flags => PrintedRight(out.groups, out.redundant)'
  BY <1>1, <1>2, ReportedSame DEF Printed
<1>4. "write-graph" \notin cmd'.flags /\ "write-csv" \notin cmd'.flags
  BY <1>1
<1>5. Reported'
  BY <1>3, <1>4 DEF Reported
<1> QED
  BY <1>1, <1>2, <1>5 DEF HashInv

HashCommand == HashStart \/ HashModule \/ HashSort \/ HashEmitGraph \/ HashEmitCSV \/ HashEmitNothing

LEMMA NotHashes ==
  ASSUME CommandActs, ~HashCommand, IsAtEmit, "name" \in DOMAIN cmd
  PROVE  cmd'.name # "functionhashes"
<1>1. CASE ExportStep
  BY <1>1, Zenon DEF ExportStep, NeoOpen, NeoAborts, NeoModule, NeoAllexe, NeoFinish, CypherOpen,
     CypherModule, CypherFinish, Loaded, ReadsModule, ReadsModules, ModulesDone, Neo, Succeed
<1>2. CASE ReportStep
  BY <1>2, Zenon DEF ReportStep, SearchStart, AsmModule, SearchAborts, SearchModule, AsmReport, UsesReport,
     TomlReport, Loaded, ReadsModule, ReadsModules, ModulesDone, Searches, Succeed
<1>3. CASE GraphStep
  BY <1>3, Zenon DEF GraphStep, HashCommand, GraphCommand, Loaded
<1>4. CASE UncombineOutput
  BY <1>4 DEF UncombineOutput
<1>5. CASE BundleStep /\ ~UncombineOutput
  BY <1>5, Zenon DEF BundleStep, CombineStart, CombineModule, CombineWrite, TakeApart, UncombinePart,
     DecomposePart, TakenApart, PrintSource, Loaded, ReadsModule, ReadsModules, ModulesDone, HasPart,
     Takers, Succeed
<1> QED
  BY <1>1, <1>2, <1>3, <1>4, <1>5 DEF CommandActs

LEMMA HashNext ==
  ASSUME HashInv, OutputInv, PositionInv, DataInv, [AllplayNext]_vars
  PROVE  HashInv'
<1>1. Scanning /\ IsAtEmit /\ "name" \in DOMAIN cmd
  BY ScansOnly DEF OutputInv, OutputType
<1>2. CASE ~CommandActs
  BY <1>1, <1>2, QuietSteps, HashRest
<1>3. CASE HashCommand
  BY <1>1, <1>3, HashStarts, HashReads, HashIsSorted, HashGraphEmitted, HashTableEmitted, HashNothingEmitted
     DEF HashCommand
<1>4. CASE CommandActs /\ ~HashCommand
  BY <1>1, <1>4, NotHashes DEF HashInv
<1> QED
  BY <1>2, <1>3, <1>4

LEMMA HashInvariant == AllplaySpec => []HashInv
<1>1. ASSUME CommandInit PROVE HashInv
  <2>1. stage = "scan" /\ cmd \in CommandLine
    BY <1>1, StartOfSession DEF CommandInit, OfSession
  <2>2. cmd.threshold \in Nat
    BY <2>1 DEF CommandLine
  <2> QED
    BY <2>1, <2>2 DEF HashInv
<1>2. HashInv /\ SessionInv /\ [AllplayNext]_vars => HashInv'
  BY HashNext DEF SessionInv, ScanInv
<1> QED
  BY <1>1, <1>2, SessionInvariant, PTL DEF AllplaySpec

LEMMA HashSucceeded ==
  ASSUME HashInv, PositionInv, Succeeded({"functionhashes"})
  PROVE  Reported
BY DEF HashInv, PositionInv, Succeeded

(***************************************************************************)
(* functionhashes prints every group of functions of one hash and counts   *)
(* the redundant instructions, and its table has each function that the    *)
(* modules define, those of one hash together, whatever the database and   *)
(* however the sorting orders equals.                                      *)
(***************************************************************************)
THEOREM FunctionsAreReported == AllplaySpec => []FunctionsReported
<1>1. ASSUME HashInv, PositionInv PROVE FunctionsReported
  <2>1. CASE Succeeded({"functionhashes"})
    <3>1. Reported
      BY <1>1, <2>1, HashSucceeded
    <3>2. "print-functions" \in cmd.flags => PrintedRight(out.groups, out.redundant)
      BY <3>1 DEF Reported
    <3>3. {"write-graph", "write-csv"} \cap cmd.flags = {"write-csv"} => RowsRight(out.rows)
      BY <3>1 DEF Reported
    <3> QED
      BY <3>2, <3>3, Zenon DEF FunctionsReported, PrintedRight, RowsRight
  <2>2. CASE ~Succeeded({"functionhashes"})
    BY <2>2 DEF FunctionsReported
  <2> QED
    BY <2>1, <2>2
<1>2. HashInv /\ SessionInv => FunctionsReported
  BY <1>1 DEF SessionInv
<1> QED
  BY <1>2, HashInvariant, SessionInvariant, PTL

(***************************************************************************)
(* pairwise joins two files by one edge if they share a function, and its  *)
(* weight is the number of the instructions they share, wherever a hash    *)
(* tells the size.                                                         *)
(***************************************************************************)
THEOREM PairwiseIsRight == AllplaySpec => []PairwiseRight
<1>1. ASSUME HashInv, PositionInv PROVE PairwiseRight
  <2>1. CASE Succeeded({"functionhashes"}) /\ {"write-graph", "pairwise"} \subseteq cmd.flags /\ HashTellsSize
    <3>1. PairsRight(mem.graph)
      BY <1>1, <2>1, HashSucceeded DEF Reported
    <3>2. \A f, g \in Files : f # g => EdgeRight(mem.graph, f, g)
      BY <2>1, <3>1 DEF PairsRight
    <3> DEFINE G == mem.graph
               ends(e) == {G.nodes[e.src + 1].name, G.nodes[e.dst + 1].name}
               shared(f, g) == {p \in Definitions \X Definitions :
                                  /\ Desc(p[1]).source = f /\ Desc(p[2]).source = g
                                  /\ Desc(p[1]).hash = Desc(p[2]).hash}
               edges(f, g) == {i \in DOMAIN G.edges : ends(G.edges[i]) = {ModuleVertex(f), ModuleVertex(g)}}
    <3>3. ASSUME NEW f \in Files, NEW g \in Files, f # g
          PROVE  /\ Cardinality(edges(f, g)) = (IF shared(f, g) # {} THEN 1 ELSE 0)
                 /\ \A i \in edges(f, g) :
                      G.edges[i].weight = Total([p \in shared(f, g) |-> Desc(p[1]).insts], shared(f, g))
      <4>1. shared(f, g) = SharedBy(f, g)
        BY DEF SharedBy
      <4>2. edges(f, g) = EdgesJoining(G, f, g)
        BY DEF EdgesJoining, EdgeNames
      <4>3. EdgeRight(G, f, g)
        BY <3>2, <3>3
      <4> HIDE DEF shared, edges, G
      <4> QED
        BY <4>1, <4>2, <4>3 DEF EdgeRight
    <3> QED
      BY <3>3, Zenon DEF PairwiseRight
  <2>2. CASE ~(Succeeded({"functionhashes"}) /\ {"write-graph", "pairwise"} \subseteq cmd.flags /\ HashTellsSize)
    BY <2>2 DEF PairwiseRight
  <2> QED
    BY <2>1, <2>2
<1>2. HashInv /\ SessionInv => PairwiseRight
  BY <1>1 DEF SessionInv
<1> QED
  BY <1>2, HashInvariant, SessionInvariant, PTL

(***************************************************************************)
(* An assertion ends graph only where two names are the same, and          *)
(* functionhashes only on a pairwise graph of functions that do not follow *)
(* each other or whose hash does not tell their size.                      *)
(***************************************************************************)
THEOREM GraphsAbortForCause == AllplaySpec => []GraphAborts
<1>1. ASSUME HashInv, GraphInv PROVE GraphAborts
  <2>1. SUFFICES ASSUME stage = "aborted", pc = "done", cmd.name \in {"graph", "functionhashes"}
                 PROVE  \/ cmd.name = "graph" /\ ~ShortNamesDiffer
                        \/ "pairwise" \in cmd.flags /\ (~HashTellsSize \/ Scattered(mem.funcs))
    BY DEF GraphAborts, Scattered
  <2>2. CASE cmd.name = "graph"
    BY <1>1, <2>1, <2>2 DEF GraphInv
  <2>3. CASE cmd.name = "functionhashes"
    BY <1>1, <2>1, <2>3 DEF HashInv, PairsAbort, PairsFail
  <2> QED
    BY <2>1, <2>2, <2>3
<1>2. HashInv /\ GraphInv => GraphAborts
  BY <1>1
<1> QED
  BY <1>2, HashInvariant, GraphInvariant, PTL

LEMMA VerticesTell ==
  ASSUME NEW A, NEW B
  PROVE  {ModuleVertex(f) : f \in A} = {ModuleVertex(f) : f \in B} <=> A = B
<1>1. \A x, y : ModuleVertex(x) = ModuleVertex(y) => x = y
  BY NamesOfKinds
<1>2. ASSUME NEW S, NEW x PROVE x \in S <=> ModuleVertex(x) \in {ModuleVertex(f) : f \in S}
  BY <1>1
<1>3. ASSUME {ModuleVertex(f) : f \in A} = {ModuleVertex(f) : f \in B} PROVE A = B
  <2>1. \A x : x \in A <=> x \in B
    BY <1>2, <1>3
  <2> QED
    BY <2>1
<1> QED
  BY <1>3

(***************************************************************************)
(* The merged graph: what joins its vertices tells the files of each.      *)
(***************************************************************************)
LEMMA MergedShows ==
  ASSUME MergedDrawn(out.nodes, out.edges)
  PROVE  LET from(d) == {e[1] : e \in {e \in Drawn : e[2] = d}}
             ends == {e[2] : e \in Drawn}
         IN  /\ {from(d) : d \in ends} = {{ModuleVertex(f) : f \in FilesWith(h)} : h \in MergedHashes}
             /\ \A i \in DOMAIN out.edges :
                  SizeAt(out.edges[i].dst) =
                    Total([h \in MergedHashes |-> InstsWith(h) \div NumberWith(h)],
                          {h \in MergedHashes : {ModuleVertex(f) : f \in FilesWith(h)}
                                                  = from(NameAt(out.edges[i].dst))})
<1> DEFINE from(d) == {e[1] : e \in {e \in Drawn : e[2] = d}}
           ends == {e[2] : e \in Drawn}
           Insts1 == [h \in MergedHashes |-> InstsWith(h) \div NumberWith(h)]
           files(S) == {ModuleVertex(f) : f \in S}
<1>1. /\ Drawn = UNION {{<<ModuleVertex(f), MergedVertex(S)>> : f \in S} : S \in MergedFiles}
      /\ \A i \in DOMAIN out.edges : \E S \in MergedFiles :
           NameAt(out.edges[i].dst) = MergedVertex(S) /\ SizeAt(out.edges[i].dst) = Merges(S)
  BY DEF MergedDrawn, Drawn, DrawnIn, NameAt, NameIn, SizeAt, SizeIn
<1>2. ASSUME NEW S \in MergedFiles PROVE S # {}
  <2>1. PICK h \in MergedHashes : S = FilesWith(h)
    BY DEF MergedFiles
  <2>2. h \in Hashes
    BY DEF MergedHashes
  <2>3. PICK d \in Definitions : h = Desc(d).hash
    BY <2>2 DEF Hashes
  <2>4. Desc(d).source \in FilesWith(h)
    BY <2>3 DEF FilesWith, WithHash
  <2> QED
    BY <2>1, <2>4
<1>3. \A e : e \in Drawn <=> \E S \in MergedFiles : \E f \in S : e = <<ModuleVertex(f), MergedVertex(S)>>
  BY <1>1
<1>4. ASSUME NEW S \in MergedFiles PROVE from(MergedVertex(S)) = files(S)
  <2>1. ASSUME NEW f \in S PROVE ModuleVertex(f) \in from(MergedVertex(S))
    <3>1. <<ModuleVertex(f), MergedVertex(S)>> \in Drawn
      BY <1>3
    <3> QED
      BY <3>1
  <2>2. ASSUME NEW x \in from(MergedVertex(S)) PROVE x \in files(S)
    <3>1. PICK e \in Drawn : e[2] = MergedVertex(S) /\ x = e[1]
      OBVIOUS
    <3>2. PICK T \in MergedFiles : \E f \in T : e = <<ModuleVertex(f), MergedVertex(T)>>
      BY <1>3
    <3>3. PICK f \in T : e = <<ModuleVertex(f), MergedVertex(T)>>
      BY <3>2
    <3>4. MergedVertex(T) = MergedVertex(S)
      BY <3>1, <3>3
    <3>5. T = S
      BY <3>4, NamesOfKinds
    <3> QED
      BY <3>1, <3>3, <3>5
  <2> HIDE DEF from
  <2> QED
    BY <2>1, <2>2
<1>5. ASSUME NEW d \in ends PROVE \E S \in MergedFiles : d = MergedVertex(S)
  BY <1>3
<1>6. ASSUME NEW S \in MergedFiles PROVE MergedVertex(S) \in ends
  <2>1. PICK f : f \in S
    BY <1>2
  <2>2. <<ModuleVertex(f), MergedVertex(S)>> \in Drawn
    BY <1>3, <2>1
  <2> QED
    BY <2>2
<1> HIDE DEF from, ends, files
<1>7. {from(d) : d \in ends} = {files(FilesWith(h)) : h \in MergedHashes}
  <2>1. ASSUME NEW d \in ends PROVE \E h \in MergedHashes : from(d) = files(FilesWith(h))
    <3>1. PICK S \in MergedFiles : d = MergedVertex(S)
      BY <1>5
    <3>2. PICK h \in MergedHashes : S = FilesWith(h)
      BY DEF MergedFiles
    <3> QED
      BY <1>4, <3>1, <3>2
  <2>2. ASSUME NEW h \in MergedHashes PROVE \E d \in ends : from(d) = files(FilesWith(h))
    <3>1. FilesWith(h) \in MergedFiles
      BY DEF MergedFiles
    <3> QED
      BY <1>4, <1>6, <3>1
  <2> QED
    BY <2>1, <2>2
<1>8. ASSUME NEW i \in DOMAIN out.edges
      PROVE  SizeAt(out.edges[i].dst) =
               Total(Insts1, {h \in MergedHashes : files(FilesWith(h)) = from(NameAt(out.edges[i].dst))})
  <2>1. PICK S \in MergedFiles : NameAt(out.edges[i].dst) = MergedVertex(S) /\ SizeAt(out.edges[i].dst) = Merges(S)
    BY <1>1
  <2>2. from(NameAt(out.edges[i].dst)) = files(S)
    BY <1>4, <2>1
  <2>3. \A h : files(FilesWith(h)) = files(S) <=> FilesWith(h) = S
    BY VerticesTell DEF files
  <2>4. {h \in MergedHashes : files(FilesWith(h)) = from(NameAt(out.edges[i].dst))}
          = {h \in MergedHashes : FilesWith(h) = S}
    BY <2>2, <2>3
  <2>5. Merges(S) = Total(Insts1, {h \in MergedHashes : FilesWith(h) = S})
    BY DEF Merges
  <2> QED
    BY <2>1, <2>4, <2>5
<1> QED
  BY <1>7, <1>8 DEF from, ends, files

(***************************************************************************)
(* hashgraph and hashgraph-merged draw what they are meant to, with the    *)
(* sums of instructions at the merged vertices, for every database.        *)
(***************************************************************************)
THEOREM HashGraphsAreRight == AllplaySpec => []HashGraphRight
<1>1. ASSUME HashInv, PositionInv, Succeeded({"functionhashes"}),
             "write-graph" \in cmd.flags, "pairwise" \notin cmd.flags
      PROVE  LET merged == "hashgraph-merged" \in cmd.flags
                 shown == {h \in Hashes : Shown(h) /\ (merged /\ "show-unshared" \notin cmd.flags
                                                         => Cardinality(FilesWith(h)) > 1)}
                 from(d) == {e[1] : e \in {e \in Drawn : e[2] = d}}
                 ends == {e[2] : e \in Drawn}
             IN  /\ ~merged => Drawn = UNION {{<<ModuleVertex(f), HashVertex(h)>> : f \in FilesWith(h)} : h \in shown}
                 /\ merged =>
                      /\ {from(d) : d \in ends} = {{ModuleVertex(f) : f \in FilesWith(h)} : h \in shown}
                      /\ \A i \in DOMAIN out.edges :
                           SizeAt(out.edges[i].dst) =
                             Total([h \in shown |-> InstsWith(h) \div NumberWith(h)],
                                   {h \in shown : {ModuleVertex(f) : f \in FilesWith(h)}
                                                    = from(NameAt(out.edges[i].dst))})
  <2> DEFINE merged == "hashgraph-merged" \in cmd.flags
             shown == {h \in Hashes : Shown(h) /\ (merged /\ "show-unshared" \notin cmd.flags
                                                     => Cardinality(FilesWith(h)) > 1)}
             from(d) == {e[1] : e \in {e \in Drawn : e[2] = d}}
             ends == {e[2] : e \in Drawn}
  <2>1. /\ merged => MergedDrawn(out.nodes, out.edges)
        /\ ~merged => HashesDrawn(out.nodes, out.edges)
    BY <1>1, HashSucceeded DEF Reported
  <2>2. /\ merged => shown = MergedHashes
        /\ ~merged => shown = ShownHashes
    BY DEF MergedHashes, ShownHashes
  <2>3. ASSUME ~merged
        PROVE  Drawn = UNION {{<<ModuleVertex(f), HashVertex(h)>> : f \in FilesWith(h)} : h \in shown}
    BY <2>1, <2>2, <2>3 DEF HashesDrawn, Drawn, DrawnIn, NameAt, NameIn
  <2>4. ASSUME merged
        PROVE  /\ {from(d) : d \in ends} = {{ModuleVertex(f) : f \in FilesWith(h)} : h \in MergedHashes}
               /\ \A i \in DOMAIN out.edges :
                    SizeAt(out.edges[i].dst) =
                      Total([h \in MergedHashes |-> InstsWith(h) \div NumberWith(h)],
                            {h \in MergedHashes : {ModuleVertex(f) : f \in FilesWith(h)}
                                                    = from(NameAt(out.edges[i].dst))})
    BY <2>1, <2>4, MergedShows
  <2> HIDE DEF shown
  <2>5. ASSUME merged
        PROVE  /\ {from(d) : d \in ends} = {{ModuleVertex(f) : f \in FilesWith(h)} : h \in shown}
               /\ \A i \in DOMAIN out.edges :
                    SizeAt(out.edges[i].dst) =
                      Total([h \in shown |-> InstsWith(h) \div NumberWith(h)],
                            {h \in shown : {ModuleVertex(f) : f \in FilesWith(h)}
                                             = from(NameAt(out.edges[i].dst))})
    <3>1. shown = MergedHashes
      BY <2>2, <2>5
    <3> HIDE DEF from, ends
    <3> QED
      BY <2>4, <2>5, <3>1
  <2> QED
    BY <2>3, <2>5 DEF shown
<1>2. HashInv /\ SessionInv => HashGraphRight
  BY <1>1, Zenon DEF HashGraphRight, SessionInv
<1> QED
  BY <1>2, HashInvariant, SessionInvariant, PTL

=============================================================================
