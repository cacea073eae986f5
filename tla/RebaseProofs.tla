---------------------------- MODULE RebaseProofs ----------------------------
(***************************************************************************)
(* Proofs about Rebase.tla and RebaseFeature.tla, for every territory,     *)
(* every history of its borders, every table and every key file.           *)
(*                                                                         *)
(* The invariant IInv says that an answer is Rows and Issues of a call     *)
(* that passed Refusal, and that the sheet of the call is one an office    *)
(* could publish, or has a defect that Refusal finds where it matters:     *)
(* the rows of a Kreis share out its Atoms evenly, and its shares add up   *)
(* to One or are off by the tolerance.  Values then are sums of exact      *)
(* terms, one for every part of territory that moved, and the sums are     *)
(* taken apart and put together by the Kreise the parts came from.  The    *)
(* other direction goes through Refusal test by test: nothing that is      *)
(* right is refused or doubted.                                            *)
(***************************************************************************)
EXTENDS RebaseFeature, FiniteSetTheorems, WellFoundedInduction, TLAPS

-----------------------------------------------------------------------------
\* Sums over finite sets, by induction over the subsets of a set

LEMMA LeastElement ==
  ASSUME NEW S \in SUBSET Nat, S # {}
  PROVE  \E n \in S : \A m \in S : n <= m
  <1> DEFINE R == {p \in Nat \X Nat : p[1] < p[2]}
  <1>1. R = OpToRel(<, Nat)
    BY DEF OpToRel
  <1>2. IsWellFoundedOn(OpToRel(<, Nat), Nat)
    BY NatLessThanWellFounded
  <1>3. ASSUME NEW m \in Nat, NEW n \in Nat, m < n PROVE <<m, n>> \in R
    BY <1>3
  <1> HIDE DEF R
  <1>4. PICK n \in S : \A m \in S : ~(<<m, n>> \in R)
    BY <1>1, <1>2, WFMin
  <1>5. ASSUME NEW m \in S PROVE n <= m
    <2>1. m \in Nat /\ n \in Nat
      OBVIOUS
    <2>2. ~(m < n)
      BY <2>1, <1>3, <1>4
    <2>3. QED
      BY <2>1, <2>2
  <1>6. QED
    BY <1>5

\* Induction over the subsets of a finite set.  P is the set of those that have a property.
LEMMA FiniteInduction ==
  ASSUME NEW S, IsFiniteSet(S), NEW P, {} \in P,
         \A T \in SUBSET S : \A x \in S \ T : T \in P => T \cup {x} \in P
  PROVE  SUBSET S \subseteq P
  <1> SUFFICES ASSUME NEW T0 \in SUBSET S, T0 \notin P
               PROVE  FALSE
    OBVIOUS
  <1> DEFINE Left == {T \in SUBSET S : T \notin P}
  <1> DEFINE Sizes == {Cardinality(T) : T \in Left}
  <1>1. \A T \in SUBSET S : IsFiniteSet(T) /\ Cardinality(T) \in Nat
    BY FS_Subset, FS_CardinalityType
  <1>2. Sizes \in SUBSET Nat /\ Sizes # {}
    BY <1>1
  <1>3. PICK n \in Sizes : \A m \in Sizes : n <= m
    BY <1>2, LeastElement
  <1>4. PICK T \in Left : Cardinality(T) = n
    BY <1>3
  <1>5. PICK x \in T : TRUE
    BY <1>4
  <1>6. T \ {x} \in SUBSET S /\ Cardinality(T \ {x}) = n - 1
    BY <1>1, <1>4, <1>5, FS_RemoveElement
  <1>7. T \ {x} \in P
    <2>1. CASE T \ {x} \in Left
      <3>1. n <= n - 1 /\ n \in Nat
        BY <2>1, <1>2, <1>3, <1>6
      <3>2. QED
        BY <3>1
    <2>2. QED
      BY <2>1, <1>6
  <1>8. (T \ {x}) \cup {x} = T
    BY <1>5
  <1>9. x \in S \ (T \ {x}) /\ T \notin P
    BY <1>4, <1>5
  <1>10. (T \ {x}) \cup {x} \in P
    BY ONLY <1>6, <1>7, <1>9, \A U \in SUBSET S : \A y \in S \ U : U \in P => U \cup {y} \in P
  <1>11. QED
    BY <1>8, <1>9, <1>10, Zenon

Pick(s) == CHOOSE x \in s : TRUE

\* What the sum of f over S is computed by, on the subsets of S that satisfy Small.
SumsOn(f, D, g) ==
    g = [s \in D |-> IF s = {} THEN 0 ELSE f[Pick(s)] + g[s \ {Pick(s)}]]

UpTo(S, n) == {s \in SUBSET S : Cardinality(s) <= n}

LEMMA SumsExist ==
  ASSUME NEW S, IsFiniteSet(S), NEW f \in [S -> Int]
  PROVE  \E g \in [SUBSET S -> Int] : SumsOn(f, SUBSET S, g)
  <1> DEFINE Bad == {n \in Nat : ~\E g \in [UpTo(S, n) -> Int] : SumsOn(f, UpTo(S, n), g)}
  <1>0. \A s \in SUBSET S : IsFiniteSet(s) /\ Cardinality(s) \in Nat /\ Cardinality(s) <= Cardinality(S)
    BY FS_Subset, FS_CardinalityType
  <1>1. Bad = {}
    <2> SUFFICES ASSUME Bad # {} PROVE FALSE
      OBVIOUS
    <2>1. PICK n \in Bad : \A m \in Bad : n <= m
      BY LeastElement
    <2>2. CASE n = 0
      <3>1. UpTo(S, 0) = {{}}
        BY <1>0, FS_EmptySet DEF UpTo
      <3> DEFINE g == [s \in UpTo(S, 0) |-> 0]
      <3>2. g \in [UpTo(S, 0) -> Int] /\ SumsOn(f, UpTo(S, 0), g)
        BY <3>1 DEF SumsOn
      <3>3. QED
        BY <2>1, <2>2, <3>2
    <2>3. CASE n # 0
      <3>1. n - 1 \in Nat /\ n - 1 \notin Bad
        BY <2>1, <2>3
      <3>2. PICK h \in [UpTo(S, n - 1) -> Int] : SumsOn(f, UpTo(S, n - 1), h)
        BY <3>1
      <3> DEFINE g == [s \in UpTo(S, n) |-> IF s = {} THEN 0 ELSE f[Pick(s)] + h[s \ {Pick(s)}]]
      <3>3. ASSUME NEW s \in UpTo(S, n), s # {}
            PROVE  Pick(s) \in s /\ Pick(s) \in S /\ s \ {Pick(s)} \in UpTo(S, n - 1)
        <4>1. Pick(s) \in s /\ s \subseteq S
          BY <3>3 DEF Pick, UpTo
        <4>2. Cardinality(s \ {Pick(s)}) = Cardinality(s) - 1
          BY <4>1, <1>0, FS_RemoveElement
        <4>3. QED
          BY <4>1, <4>2, <1>0, <3>1 DEF UpTo
      <3>4. g \in [UpTo(S, n) -> Int]
        BY <3>3
      <3>5. \A s \in UpTo(S, n - 1) : s \in UpTo(S, n) /\ g[s] = h[s]
        <4> SUFFICES ASSUME NEW s \in UpTo(S, n - 1) PROVE s \in UpTo(S, n) /\ g[s] = h[s]
          OBVIOUS
        <4>1. s \in UpTo(S, n)
          BY <1>0, <3>1 DEF UpTo
        <4>2. h[s] = IF s = {} THEN 0 ELSE f[Pick(s)] + h[s \ {Pick(s)}]
          BY <3>2 DEF SumsOn
        <4>3. QED
          BY <4>1, <4>2
      <3>6. SumsOn(f, UpTo(S, n), g)
        <4>1. \A s \in UpTo(S, n) : g[s] = IF s = {} THEN 0 ELSE f[Pick(s)] + g[s \ {Pick(s)}]
          BY <3>3, <3>5
        <4> HIDE DEF g
        <4>2. QED
          BY <4>1, <3>4 DEF SumsOn
      <3>7. QED
        BY <2>1, <3>4, <3>6
    <2>4. QED
      BY <2>2, <2>3
  <1>2. Cardinality(S) \in Nat /\ UpTo(S, Cardinality(S)) = SUBSET S
    BY <1>0, FS_CardinalityType DEF UpTo
  <1>3. Cardinality(S) \notin Bad
    BY <1>1
  <1>4. QED
    BY <1>2, <1>3

LEMMA SumUnfold ==
  ASSUME NEW f, NEW S
  PROVE  SumFunctionOnSet(f, S) = (CHOOSE g : SumsOn(f, SUBSET S, g))[S]
  BY DEF SumFunctionOnSet, FoldFunctionOnSet, MapThenFoldSet, Pick, SumsOn

Sums(f, S, g) == SumsOn(f, SUBSET S, g)

\* Two tables of sums agree where both have an entry.
LEMMA SumsAgree ==
  ASSUME NEW S, IsFiniteSet(S), NEW T \in SUBSET S, NEW f, NEW e, \A x \in T : f[x] = e[x],
         NEW g, Sums(f, S, g), NEW h, Sums(e, T, h)
  PROVE  g[T] = h[T]
  <1> DEFINE Odd == {s \in SUBSET T : g[s] # h[s]}
  <1> DEFINE Sizes == {Cardinality(s) : s \in Odd}
  <1>0. \A s \in SUBSET S : IsFiniteSet(s) /\ Cardinality(s) \in Nat
    BY FS_Subset, FS_CardinalityType
  <1> SUFFICES ASSUME g[T] # h[T] PROVE FALSE
    OBVIOUS
  <1>1. Sizes \in SUBSET Nat /\ Sizes # {}
    BY <1>0
  <1>2. PICK n \in Sizes : \A m \in Sizes : n <= m
    BY <1>1, LeastElement
  <1>3. PICK s \in Odd : Cardinality(s) = n
    BY <1>2
  <1>4. g[s] = (IF s = {} THEN 0 ELSE f[Pick(s)] + g[s \ {Pick(s)}])
        /\ h[s] = (IF s = {} THEN 0 ELSE e[Pick(s)] + h[s \ {Pick(s)}])
    BY <1>3 DEF Sums, SumsOn
  <1>5. s # {}
    BY <1>3, <1>4
  <1>6. Pick(s) \in s
    BY <1>5 DEF Pick
  <1>7. Cardinality(s \ {Pick(s)}) = n - 1 /\ n \in Nat
    BY <1>0, <1>1, <1>2, <1>3, <1>6, FS_RemoveElement
  <1>8. g[s \ {Pick(s)}] = h[s \ {Pick(s)}]
    <2>1. CASE s \ {Pick(s)} \in Odd
      <3>1. n <= n - 1
        BY <2>1, <1>2, <1>7
      <3>2. QED
        BY <3>1, <1>7
    <2>2. QED
      BY <2>1, <1>3
  <1>9. QED
    BY <1>3, <1>4, <1>5, <1>6, <1>8

TableOf(f, S, g) ==
    /\ g \in [SUBSET S -> Int] /\ Sums(f, S, g)
    /\ \A T \in SUBSET S : SumFunctionOnSet(f, T) = g[T]

\* One table holds the sums over all subsets of a finite set.
LEMMA SumTable ==
  ASSUME NEW S, IsFiniteSet(S), NEW f, \A x \in S : f[x] \in Int
  PROVE  \E g : TableOf(f, S, g)
  <1> DEFINE e == [x \in S |-> f[x]]
  <1>1. PICK g \in [SUBSET S -> Int] : Sums(e, S, g)
    BY SumsExist DEF Sums
  <1>2. Sums(f, S, g)
    <2>1. \A s \in SUBSET S : s # {} => Pick(s) \in S
      BY DEF Pick
    <2>2. \A s \in SUBSET S : s # {} => e[Pick(s)] = f[Pick(s)]
      BY <2>1
    <2>3. QED
      BY <1>1, <2>2 DEF Sums, SumsOn
  <1>3. ASSUME NEW T \in SUBSET S
        PROVE  SumFunctionOnSet(f, T) = g[T]
    <2>1. IsFiniteSet(T)
      BY FS_Subset
    <2>2. \E h : Sums(f, T, h)
      <3> DEFINE d == [x \in T |-> f[x]]
      <3>1. PICK h \in [SUBSET T -> Int] : Sums(d, T, h)
        BY <2>1, SumsExist DEF Sums
      <3>2. \A s \in SUBSET T : s # {} => Pick(s) \in T
        BY DEF Pick
      <3>3. \A s \in SUBSET T : s # {} => d[Pick(s)] = f[Pick(s)]
        BY <3>2
      <3>4. Sums(f, T, h)
        BY <3>1, <3>3 DEF Sums, SumsOn
      <3>5. QED
        BY <3>4
    <2> DEFINE h == CHOOSE h : Sums(f, T, h)
    <2>3. Sums(f, T, h)
      BY <2>2
    <2>4. SumFunctionOnSet(f, T) = h[T]
      BY SumUnfold DEF Sums
    <2> HIDE DEF h
    <2>5. \A x \in T : f[x] = f[x]
      OBVIOUS
    <2>6. g[T] = h[T]
      BY <1>2, <2>3, <2>5, SumsAgree
    <2>7. QED
      BY <2>4, <2>6
  <1>4. QED
    BY <1>1, <1>2, <1>3 DEF TableOf

LEMMA SumBasics ==
  ASSUME NEW S, IsFiniteSet(S), NEW f, \A x \in S : f[x] \in Int
  PROVE  /\ SumFunctionOnSet(f, {}) = 0
         /\ SumFunctionOnSet(f, S) \in Int
         /\ S # {} => /\ Pick(S) \in S
                      /\ SumFunctionOnSet(f, S) = f[Pick(S)] + SumFunctionOnSet(f, S \ {Pick(S)})
  <1>1. PICK g : TableOf(f, S, g)
    BY SumTable
  <1>2. {} \in SUBSET S /\ S \in SUBSET S /\ S \ {Pick(S)} \in SUBSET S
    OBVIOUS
  <1>3. S # {} => Pick(S) \in S
    BY DEF Pick
  <1>4. SumFunctionOnSet(f, {}) = g[{}] /\ SumFunctionOnSet(f, S) = g[S]
        /\ SumFunctionOnSet(f, S \ {Pick(S)}) = g[S \ {Pick(S)}] /\ g[S] \in Int
    BY <1>1, <1>2 DEF TableOf
  <1>5. \A s \in SUBSET S : g[s] = IF s = {} THEN 0 ELSE f[Pick(s)] + g[s \ {Pick(s)}]
    BY <1>1 DEF TableOf, Sums, SumsOn
  <1>6. g[{}] = 0 /\ (S # {} => g[S] = f[Pick(S)] + g[S \ {Pick(S)}])
    BY <1>2, <1>5
  <1>7. QED
    BY <1>3, <1>4, <1>6

\* A sum does not depend on the order in which it is taken.
LEMMA SumRemove ==
  ASSUME NEW S, IsFiniteSet(S), NEW f, \A x \in S : f[x] \in Int, NEW x \in S
  PROVE  SumFunctionOnSet(f, S) = f[x] + SumFunctionOnSet(f, S \ {x})
  <1> DEFINE Sum(T) == SumFunctionOnSet(f, T)
  <1> DEFINE Odd == {T \in SUBSET S : \E y \in T : Sum(T) # f[y] + Sum(T \ {y})}
  <1> DEFINE Sizes == {Cardinality(T) : T \in Odd}
  <1>0. \A T \in SUBSET S : IsFiniteSet(T) /\ Cardinality(T) \in Nat
    BY FS_Subset, FS_CardinalityType
  <1>1. SUFFICES ASSUME Odd # {} PROVE FALSE
    OBVIOUS
  <1>2. Sizes \in SUBSET Nat /\ Sizes # {}
    BY <1>0, <1>1
  <1>3. PICK n \in Sizes : \A m \in Sizes : n <= m
    BY <1>2, LeastElement
  <1>4. PICK T \in Odd : Cardinality(T) = n
    BY <1>3
  <1>5. PICK y \in T : Sum(T) # f[y] + Sum(T \ {y})
    BY <1>4
  <1> DEFINE p == Pick(T)
  <1>6. \A U \in SUBSET S : U # {} => Pick(U) \in U /\ Sum(U) = f[Pick(U)] + Sum(U \ {Pick(U)})
    <2> SUFFICES ASSUME NEW U \in SUBSET S, U # {}
                 PROVE  Pick(U) \in U /\ Sum(U) = f[Pick(U)] + Sum(U \ {Pick(U)})
      OBVIOUS
    <2>1. \A z \in U : f[z] \in Int
      OBVIOUS
    <2>2. QED
      BY <2>1, <1>0, SumBasics
  <1>7. p \in T /\ Sum(T) = f[p] + Sum(T \ {p})
    BY <1>4, <1>5, <1>6
  <1>8. p # y
    BY <1>5, <1>7
  <1>9. ASSUME NEW U \in SUBSET S, NEW z \in U, Cardinality(U) < n
        PROVE  Sum(U) = f[z] + Sum(U \ {z})
    <2>1. U \notin Odd
      <3>1. U \in Odd => n <= Cardinality(U)
        BY <1>3
      <3>2. n \in Nat /\ Cardinality(U) \in Nat
        BY <1>0, <1>2
      <3>3. QED
        BY <3>1, <3>2, <1>9
    <2>2. QED
      BY <2>1
  <1>10. ASSUME NEW z \in T
         PROVE  T \ {z} \in SUBSET S /\ Cardinality(T \ {z}) < n
    <2>1. Cardinality(T \ {z}) = n - 1
      BY <1>0, <1>4, FS_RemoveElement
    <2>2. n \in Nat
      BY <1>2
    <2>3. QED
      BY <2>1, <2>2, <1>4
  <1> HIDE DEF p
  <1>11. Sum(T \ {p}) = f[y] + Sum((T \ {p}) \ {y})
    BY <1>5, <1>7, <1>8, <1>9, <1>10
  <1>12. Sum(T \ {y}) = f[p] + Sum((T \ {y}) \ {p})
    BY <1>5, <1>7, <1>8, <1>9, <1>10
  <1>13. (T \ {p}) \ {y} = (T \ {y}) \ {p}
    OBVIOUS
  <1> DEFINE rest == Sum((T \ {y}) \ {p})
  <1>14. rest \in Int
    <2>1. (T \ {y}) \ {p} \in SUBSET S
      BY <1>4
    <2>2. QED
      BY <2>1, <1>0, SumBasics
  <1>15. f[p] \in Int /\ f[y] \in Int
    BY <1>4, <1>5, <1>7
  <1>16. Sum(T) = f[p] + (f[y] + rest) /\ Sum(T \ {y}) = f[p] + rest
    BY <1>7, <1>11, <1>12, <1>13
  <1> HIDE DEF rest, Sum
  <1>17. QED
    BY <1>5, <1>14, <1>15, <1>16

LEMMA SumAgree ==
  ASSUME NEW S, IsFiniteSet(S), NEW f, NEW e, \A x \in S : f[x] \in Int /\ e[x] = f[x]
  PROVE  SumFunctionOnSet(e, S) = SumFunctionOnSet(f, S)
  <1>1. PICK g : TableOf(f, S, g)
    BY SumTable
  <1>2. PICK h : TableOf(e, S, h)
    <2>1. \A x \in S : e[x] \in Int
      OBVIOUS
    <2>2. QED
      BY <2>1, SumTable
  <1>3. S \in SUBSET S /\ \A x \in S : f[x] = e[x]
    OBVIOUS
  <1>4. g[S] = h[S]
    BY <1>1, <1>2, <1>3, SumsAgree DEF TableOf
  <1>5. QED
    BY <1>1, <1>2, <1>4 DEF TableOf

LEMMA SumAdd ==
  ASSUME NEW S, IsFiniteSet(S), NEW f, NEW y, y \notin S, \A x \in S \cup {y} : f[x] \in Int
  PROVE  SumFunctionOnSet(f, S \cup {y}) = f[y] + SumFunctionOnSet(f, S)
  <1>1. IsFiniteSet(S \cup {y}) /\ (S \cup {y}) \ {y} = S /\ y \in S \cup {y}
    BY FS_AddElement
  <1> DEFINE T == S \cup {y}
  <1>2. \A x \in T : f[x] \in Int
    OBVIOUS
  <1>3. IsFiniteSet(T) /\ T \ {y} = S /\ y \in T
    BY <1>1
  <1> HIDE DEF T
  <1>4. SumFunctionOnSet(f, T) = f[y] + SumFunctionOnSet(f, T \ {y})
    BY <1>2, <1>3, SumRemove
  <1>5. QED
    BY <1>3, <1>4 DEF T

LEMMA SumUnion ==
  ASSUME NEW S, IsFiniteSet(S), NEW T, IsFiniteSet(T), S \cap T = {}, NEW f,
         \A x \in S \cup T : f[x] \in Int
  PROVE  SumFunctionOnSet(f, S \cup T) = SumFunctionOnSet(f, S) + SumFunctionOnSet(f, T)
  <1> DEFINE Sum(U) == SumFunctionOnSet(f, U)
  <1> DEFINE P == {U \in SUBSET T : Sum(S \cup U) = Sum(S) + Sum(U)}
  <1>0. ASSUME NEW U, U \subseteq S \cup T
        PROVE  IsFiniteSet(U) /\ Sum(U) \in Int
    <2>1. IsFiniteSet(S \cup T)
      BY FS_Union
    <2>2. IsFiniteSet(U)
      BY <2>1, <1>0, FS_Subset
    <2>3. \A x \in U : f[x] \in Int
      BY <1>0
    <2>4. QED
      BY <2>2, <2>3, SumBasics
  <1>1. {} \in P
    <2>1. Sum({}) = 0 /\ Sum(S) \in Int /\ S \cup {} = S
      BY <1>0, SumBasics
    <2>2. QED
      BY <2>1
  <1>2. ASSUME NEW U \in SUBSET T, NEW x \in T \ U, U \in P
        PROVE  U \cup {x} \in P
    <2>1. IsFiniteSet(U) /\ IsFiniteSet(S \cup U) /\ Sum(U) \in Int /\ Sum(S \cup U) \in Int /\ Sum(S) \in Int
      BY <1>0
    <2>2. x \notin S \cup U /\ f[x] \in Int /\ (S \cup U) \cup {x} = S \cup (U \cup {x})
      OBVIOUS
    <2>3. Sum(U \cup {x}) = f[x] + Sum(U)
      BY <2>1, <2>2, SumAdd
    <2>4. Sum((S \cup U) \cup {x}) = f[x] + Sum(S \cup U)
      <3> DEFINE V == S \cup U
      <3>1. IsFiniteSet(V) /\ x \notin V /\ \A z \in V \cup {x} : f[z] \in Int
        BY <2>1, <2>2
      <3> HIDE DEF V
      <3>2. Sum(V \cup {x}) = f[x] + Sum(V)
        BY <3>1, SumAdd
      <3>3. QED
        BY <3>2 DEF V
    <2>5. Sum(S \cup U) = Sum(S) + Sum(U)
      BY <1>2
    <2>6. Sum(S \cup (U \cup {x})) = Sum((S \cup U) \cup {x})
      BY <2>2, Zenon
    <2>7. Sum(S \cup (U \cup {x})) = Sum(S) + Sum(U \cup {x})
      BY <2>1, <2>2, <2>3, <2>4, <2>5, <2>6
    <2>8. QED
      BY <2>7
  <1> HIDE DEF P
  <1>3. SUBSET T \subseteq P
    BY <1>1, <1>2, FiniteInduction
  <1>4. QED
    BY <1>3 DEF P

LEMMA SumScale ==
  ASSUME NEW S, IsFiniteSet(S), NEW f, NEW e, NEW c \in Int,
         \A x \in S : f[x] \in Int /\ e[x] = c * f[x]
  PROVE  SumFunctionOnSet(e, S) = c * SumFunctionOnSet(f, S)
  <1> DEFINE F(U) == SumFunctionOnSet(f, U)
  <1> DEFINE E(U) == SumFunctionOnSet(e, U)
  <1> DEFINE P == {U \in SUBSET S : E(U) = c * F(U)}
  <1>0. \A x \in S : e[x] \in Int
    OBVIOUS
  <1>1. {} \in P
    <2>1. F({}) = 0 /\ E({}) = 0
      BY <1>0, SumBasics
    <2>2. QED
      BY <2>1
  <1>2. ASSUME NEW U \in SUBSET S, NEW x \in S \ U, U \in P
        PROVE  U \cup {x} \in P
    <2>1. IsFiniteSet(U) /\ x \notin U
      BY FS_Subset
    <2>2. F(U \cup {x}) = f[x] + F(U)
      BY <2>1, SumAdd
    <2>3. E(U \cup {x}) = e[x] + E(U)
      BY <2>1, <1>0, SumAdd
    <2>4. F(U) \in Int
      BY <2>1, SumBasics
    <2>5. e[x] = c * f[x] /\ f[x] \in Int /\ E(U) = c * F(U)
      BY <1>2
    <2> HIDE DEF E, F
    <2>6. c * (f[x] + F(U)) = c * f[x] + c * F(U)
      BY <2>4, <2>5
    <2>7. E(U \cup {x}) = c * F(U \cup {x})
      BY <2>2, <2>3, <2>5, <2>6
    <2>8. QED
      BY <2>7
  <1> HIDE DEF P
  <1>3. SUBSET S \subseteq P
    BY <1>1, <1>2, FiniteInduction
  <1>4. QED
    BY <1>3 DEF P

\* What is 0 may be left out.
LEMMA SumWithoutZeros ==
  ASSUME NEW S, IsFiniteSet(S), NEW T \in SUBSET S, NEW f, \A x \in S : f[x] \in Int,
         \A x \in S \ T : f[x] = 0
  PROVE  SumFunctionOnSet(f, S) = SumFunctionOnSet(f, T)
  <1>1. IsFiniteSet(T) /\ IsFiniteSet(S \ T) /\ T \cap (S \ T) = {} /\ T \cup (S \ T) = S
    BY FS_Subset
  <1>2. SumFunctionOnSet(f, S \ T) = 0
    <2>1. \A x \in S \ T : f[x] \in Int /\ f[x] = 0 * f[x]
      OBVIOUS
    <2>2. 0 * SumFunctionOnSet(f, S \ T) = 0
      <3>1. SumFunctionOnSet(f, S \ T) \in Int
        BY <1>1, <2>1, SumBasics
      <3>2. QED
        BY <3>1
    <2> DEFINE U == S \ T
    <2>3. IsFiniteSet(U) /\ \A x \in U : f[x] \in Int /\ f[x] = 0 * f[x]
      BY <1>1, <2>1
    <2> HIDE DEF U
    <2>4. SumFunctionOnSet(f, U) = 0 * SumFunctionOnSet(f, U)
      BY <2>3, SumScale
    <2>5. QED
      BY <2>2, <2>4 DEF U
  <1> DEFINE U == S \ T
  <1>3. IsFiniteSet(U) /\ T \cap U = {} /\ T \cup U = S /\ \A x \in T \cup U : f[x] \in Int
    BY <1>1
  <1> HIDE DEF U
  <1>4. SumFunctionOnSet(f, T \cup U) = SumFunctionOnSet(f, T) + SumFunctionOnSet(f, U)
    BY <1>1, <1>3, SumUnion
  <1>5. SumFunctionOnSet(f, T) \in Int /\ SumFunctionOnSet(f, U) = 0
    BY <1>1, <1>2, SumBasics DEF U
  <1>6. SumFunctionOnSet(f, T \cup U) = SumFunctionOnSet(f, S)
    BY <1>3, Zenon
  <1>7. QED
    BY <1>4, <1>5, <1>6

\* A sum taken over the names of its items.
LEMMA SumRenamed ==
  ASSUME NEW S, IsFiniteSet(S), NEW T, NEW h \in [S -> T], \A t \in T : \E x \in S : h[x] = t,
         \A x, y \in S : h[x] = h[y] => x = y,
         NEW f, NEW e, \A x \in S : e[x] \in Int /\ f[h[x]] = e[x]
  PROVE  IsFiniteSet(T) /\ SumFunctionOnSet(f, T) = SumFunctionOnSet(e, S)
  <1> DEFINE Of(U) == {h[x] : x \in U}
  <1> DEFINE P == {U \in SUBSET S : IsFiniteSet(Of(U)) /\ SumFunctionOnSet(f, Of(U)) = SumFunctionOnSet(e, U)}
  <1>0. Of(S) = T
    OBVIOUS
  <1>1. {} \in P
    <2>1. Of({}) = {} /\ IsFiniteSet({})
      BY FS_EmptySet
    <2>2. SumFunctionOnSet(e, {}) = 0
      BY SumBasics
    <2>3. SumFunctionOnSet(f, {}) = 0
      <3>1. \A x \in {} : f[x] \in Int
        OBVIOUS
      <3>2. QED
        BY <2>1, <3>1, SumBasics
    <2>4. QED
      BY <2>1, <2>2, <2>3
  <1>2. ASSUME NEW U \in SUBSET S, NEW x \in S \ U, U \in P
        PROVE  U \cup {x} \in P
    <2>1. IsFiniteSet(U) /\ x \notin U /\ \A z \in U \cup {x} : e[z] \in Int
      BY FS_Subset
    <2>2. SumFunctionOnSet(e, U \cup {x}) = e[x] + SumFunctionOnSet(e, U)
      BY <2>1, SumAdd
    <2>3. Of(U \cup {x}) = Of(U) \cup {h[x]}
      OBVIOUS
    <2>4. h[x] \notin Of(U)
      OBVIOUS
    <2>5. \A t \in Of(U) \cup {h[x]} : f[t] \in Int
      OBVIOUS
    <2>6. IsFiniteSet(Of(U)) /\ SumFunctionOnSet(f, Of(U)) = SumFunctionOnSet(e, U)
      BY <1>2
    <2>7. f[h[x]] = e[x]
      OBVIOUS
    <2> HIDE DEF Of
    <2>8. SumFunctionOnSet(f, Of(U) \cup {h[x]}) = f[h[x]] + SumFunctionOnSet(f, Of(U))
      BY <2>4, <2>5, <2>6, SumAdd
    <2>9. IsFiniteSet(Of(U) \cup {h[x]})
      BY <2>6, FS_AddElement
    <2>10. QED
      BY <2>2, <2>3, <2>6, <2>7, <2>8, <2>9
  <1> HIDE DEF P
  <1>3. SUBSET S \subseteq P
    BY <1>1, <1>2, FiniteInduction
  <1> HIDE DEF Of
  <1>4. QED
    BY <1>0, <1>3 DEF P

\* h gives every item of S a name of its own in T, and leaves no name over.
Renames(h, S, T) ==
    /\ h \in [S -> T]
    /\ \A t \in T : \E x \in S : h[x] = t
    /\ \A x, y \in S : h[x] = h[y] => x = y

LEMMA SumByName ==
  ASSUME NEW S, IsFiniteSet(S), NEW T, NEW h, Renames(h, S, T),
         NEW f, NEW e, \A x \in S : e[x] \in Int /\ f[h[x]] = e[x]
  PROVE  SumFunctionOnSet(f, T) = SumFunctionOnSet(e, S)
  BY SumRenamed DEF Renames

\* The items of S that p puts in the class k.
Class(S, p, k) == {x \in S : p[x] = k}

\* A sum taken class by class.
LEMMA SumByClass ==
  ASSUME NEW S, IsFiniteSet(S), NEW K, IsFiniteSet(K), NEW p, \A x \in S : p[x] \in K,
         NEW f, \A x \in S : f[x] \in Int,
         NEW e, \A k \in K : e[k] = SumFunctionOnSet(f, Class(S, p, k))
  PROVE  /\ \A k \in K : e[k] \in Int
         /\ SumFunctionOnSet(e, K) = SumFunctionOnSet(f, S)
  <1> DEFINE In(U) == {x \in S : p[x] \in U}
  <1> DEFINE Of(k) == {x \in S : p[x] = k}
  <1> DEFINE P == {U \in SUBSET K : SumFunctionOnSet(e, U) = SumFunctionOnSet(f, In(U))}
  <1>0. In(K) = S
    OBVIOUS
  <1>1. ASSUME NEW V \in SUBSET S
        PROVE  IsFiniteSet(V) /\ SumFunctionOnSet(f, V) \in Int
    <2>1. IsFiniteSet(V) /\ \A x \in V : f[x] \in Int
      BY FS_Subset
    <2>2. QED
      BY <2>1, SumBasics
  <1>2. \A k \in K : e[k] = SumFunctionOnSet(f, Of(k)) /\ e[k] \in Int
    BY <1>1 DEF Class
  <1>3. {} \in P
    <2>1. In({}) = {} /\ IsFiniteSet({})
      BY FS_EmptySet
    <2>2. SumFunctionOnSet(f, {}) = 0
      BY SumBasics
    <2>3. SumFunctionOnSet(e, {}) = 0
      BY <1>2, SumBasics
    <2>4. QED
      BY <2>1, <2>2, <2>3
  <1>4. ASSUME NEW U \in SUBSET K, NEW k \in K \ U, U \in P
        PROVE  U \cup {k} \in P
    <2>1. IsFiniteSet(U) /\ k \notin U
      BY FS_Subset
    <2>2. \A z \in U \cup {k} : e[z] \in Int
      BY <1>2
    <2>3. SumFunctionOnSet(e, U \cup {k}) = e[k] + SumFunctionOnSet(e, U)
      BY <2>1, <2>2, SumAdd
    <2>4. In(U \cup {k}) = In(U) \cup Of(k) /\ In(U) \cap Of(k) = {}
      OBVIOUS
    <2>5. In(U) \in SUBSET S /\ Of(k) \in SUBSET S
      OBVIOUS
    <2>6. SumFunctionOnSet(e, U) = SumFunctionOnSet(f, In(U))
      BY <1>4
    <2>7. e[k] = SumFunctionOnSet(f, Of(k))
      BY <1>2
    <2>8. IsFiniteSet(In(U)) /\ IsFiniteSet(Of(k))
      BY <1>1, <2>5
    <2>9. SumFunctionOnSet(f, In(U)) \in Int /\ SumFunctionOnSet(f, Of(k)) \in Int
      BY <1>1, <2>5
    <2>10. \A x \in In(U) \cup Of(k) : f[x] \in Int
      OBVIOUS
    <2> HIDE DEF In, Of
    <2>11. SumFunctionOnSet(f, In(U) \cup Of(k)) = SumFunctionOnSet(f, In(U)) + SumFunctionOnSet(f, Of(k))
      BY <2>4, <2>8, <2>10, SumUnion
    <2>12. SumFunctionOnSet(f, In(U \cup {k})) = SumFunctionOnSet(f, In(U) \cup Of(k))
      BY <2>4, Zenon
    <2>13. SumFunctionOnSet(e, U \cup {k}) = SumFunctionOnSet(f, In(U \cup {k}))
      BY <2>3, <2>6, <2>7, <2>9, <2>11, <2>12
    <2>14. QED
      BY <2>13
  <1> HIDE DEF P, In, Of
  <1>5. SUBSET K \subseteq P
    BY <1>3, <1>4, FiniteInduction
  <1>6. QED
    BY <1>0, <1>2, <1>5 DEF P

\* The number of things is the sum of the numbers of each kind.
LEMMA CountByClass ==
  ASSUME NEW S, IsFiniteSet(S), NEW K, IsFiniteSet(K), NEW p, \A x \in S : p[x] \in K,
         NEW e, \A k \in K : e[k] = Cardinality(Class(S, p, k))
  PROVE  SumFunctionOnSet(e, K) = Cardinality(S)
  <1> DEFINE In(U) == {x \in S : p[x] \in U}
  <1> DEFINE Of(k) == {x \in S : p[x] = k}
  <1> DEFINE P == {U \in SUBSET K : SumFunctionOnSet(e, U) = Cardinality(In(U))}
  <1>0. In(K) = S
    OBVIOUS
  <1>1. ASSUME NEW V \in SUBSET S
        PROVE  IsFiniteSet(V) /\ Cardinality(V) \in Nat
    BY FS_Subset, FS_CardinalityType
  <1>2. \A k \in K : e[k] = Cardinality(Of(k)) /\ e[k] \in Int
    BY <1>1 DEF Class
  <1>3. {} \in P
    <2>1. In({}) = {} /\ Cardinality({}) = 0
      BY FS_EmptySet
    <2>2. SumFunctionOnSet(e, {}) = 0
      BY <1>2, SumBasics
    <2>3. QED
      BY <2>1, <2>2
  <1>4. ASSUME NEW U \in SUBSET K, NEW k \in K \ U, U \in P
        PROVE  U \cup {k} \in P
    <2>1. IsFiniteSet(U) /\ k \notin U
      BY FS_Subset
    <2>2. \A z \in U \cup {k} : e[z] \in Int
      BY <1>2
    <2>3. SumFunctionOnSet(e, U \cup {k}) = e[k] + SumFunctionOnSet(e, U)
      BY <2>1, <2>2, SumAdd
    <2>4. In(U \cup {k}) = In(U) \cup Of(k) /\ In(U) \cap Of(k) = {}
      OBVIOUS
    <2>5. In(U) \in SUBSET S /\ Of(k) \in SUBSET S
      OBVIOUS
    <2>6. SumFunctionOnSet(e, U) = Cardinality(In(U))
      BY <1>4
    <2>7. e[k] = Cardinality(Of(k))
      BY <1>2
    <2>8. IsFiniteSet(In(U)) /\ IsFiniteSet(Of(k)) /\ Cardinality(In(U)) \in Nat /\ Cardinality(Of(k)) \in Nat
      BY <1>1, <2>5
    <2> HIDE DEF In, Of
    <2>9. Cardinality(In(U) \cup Of(k)) = Cardinality(In(U)) + Cardinality(Of(k))
      <3>1. Cardinality(In(U) \cap Of(k)) = 0
        BY <2>4, FS_EmptySet, Zenon
      <3>2. Cardinality(In(U) \cup Of(k)) = Cardinality(In(U)) + Cardinality(Of(k)) - Cardinality(In(U) \cap Of(k))
        BY <2>8, FS_Union
      <3>3. QED
        BY <2>8, <3>1, <3>2
    <2>10. Cardinality(In(U \cup {k})) = Cardinality(In(U) \cup Of(k))
      BY <2>4, Zenon
    <2>11. SumFunctionOnSet(e, U \cup {k}) = Cardinality(In(U \cup {k}))
      BY <2>3, <2>6, <2>7, <2>8, <2>9, <2>10
    <2>12. QED
      BY <2>11
  <1> HIDE DEF P, In, Of
  <1>5. SUBSET K \subseteq P
    BY <1>3, <1>4, FiniteInduction
  <1>6. QED
    BY <1>0, <1>5 DEF P
LEMMA MulDiv ==
  ASSUME NEW q \in Int, NEW n \in Nat, n > 0
  PROVE  (q * n) \div n = q
  OBVIOUS

LEMMA DivExact ==
  ASSUME NEW a \in Nat, NEW n \in Nat, n > 0, a % n = 0
  PROVE  a = (a \div n) * n /\ a \div n \in Nat
  OBVIOUS
LEMMA Assoc ==
  ASSUME NEW a \in Int, NEW b \in Int, NEW c \in Int
  PROVE  a * (b * c) = (a * b) * c
  OBVIOUS
LEMMA PosProd ==
  ASSUME NEW a \in Nat, NEW b \in Nat, a > 0, b > 0
  PROVE  a * b > 0
  OBVIOUS
LEMMA Cancel ==
  ASSUME NEW a \in Int, NEW b \in Int, NEW c \in Int, c > 0, a * c = b * c
  PROVE  a = b
  OBVIOUS

-----------------------------------------------------------------------------
\* Key sheets

Moved(span, k, t) == Held(span[1], k) \cap Held(span[2], t)

\* A row of a key sheet as it should be, but for the sum of the shares of its Kreis, top.
ScaledRow(span, k, t, top) ==
    [source |-> k, target |-> t, copy |-> 1,
     share |-> Cardinality(Moved(span, k, t)) * (top \div Cardinality(Held(span[1], k)))]

Heirs(span, k) == {t \in Kreise : Moved(span, k, t) # {}}

ScaledRows(span, k, top) == {ScaledRow(span, k, t, top) : t \in Heirs(span, k)}

Scaled(span, sheet, k, top) ==
    Moving({q \in sheet : q.source = k}) = ScaledRows(span, k, top)

Tops == {One, One + Tolerance, One + 2 * Tolerance}

\* The image of a finite set.
LEMMA FiniteImage ==
  ASSUME NEW S, IsFiniteSet(S), NEW h
  PROVE  IsFiniteSet({h[x] : x \in S})
  <1> DEFINE T == {h[x] : x \in S}
  <1> DEFINE e == [x \in S |-> h[x]]
  <1>1. e \in Surjection(S, T)
    BY DEF Surjection
  <1>2. QED
    BY <1>1, FS_Surjection

LEMMA Landholding ==
  ASSUME borders \in Histories, NEW y \in Years, NEW k
  PROVE  /\ IsFiniteSet(Held(y, k)) /\ Held(y, k) \subseteq Atoms
         /\ Cardinality(Held(y, k)) \in Nat
         /\ Held(y, k) # {} => Cardinality(Held(y, k)) \in 1..Cardinality(Atoms)
  <1>1. Held(y, k) \in SUBSET Atoms
    BY DEF Held
  <1>2. IsFiniteSet(Held(y, k)) /\ Cardinality(Held(y, k)) <= Cardinality(Atoms)
    BY <1>1, TerritoryIsFinite, FS_Subset
  <1>3. Cardinality(Held(y, k)) \in Nat /\ Cardinality(Atoms) \in Nat
    BY <1>2, TerritoryIsFinite, FS_CardinalityType
  <1>4. Cardinality(Held(y, k)) = 0 <=> Held(y, k) = {}
    BY <1>2, FS_EmptySet
  <1>5. QED
    BY <1>1, <1>2, <1>3, <1>4

\* Each share of a Kreis divides evenly among its Atoms.
LEMMA SharePerAtom ==
  ASSUME borders \in Histories, NEW y \in Years, NEW k, Held(y, k) # {}, NEW top \in Tops
  PROVE  /\ top \div Cardinality(Held(y, k)) \in Nat \ {0}
         /\ (top \div Cardinality(Held(y, k))) * Cardinality(Held(y, k)) = top
         /\ top \in Nat \ {0}
  <1> DEFINE n == Cardinality(Held(y, k))
  <1>1. n \in 1..Cardinality(Atoms) /\ n \in Nat /\ n > 0
    <2>1. Cardinality(Atoms) \in Nat
      BY TerritoryIsFinite, FS_CardinalityType
    <2>2. QED
      BY <2>1, Landholding
  <1>2. One % n = 0 /\ Tolerance % n = 0 /\ One \in Nat /\ Tolerance \in Nat /\ One > 0
    BY <1>1, SharesDivide
  <1> HIDE DEF n
  <1> DEFINE p == One \div n
  <1> DEFINE q == Tolerance \div n
  <1>3. One = p * n /\ p \in Nat /\ Tolerance = q * n /\ q \in Nat
    BY <1>1, <1>2, DivExact
  <1> HIDE DEF p, q
  <1>4. PICK i \in {0, 1, 2} : top = One + i * Tolerance
    BY <1>2 DEF Tops
  <1>5. top = (p + i * q) * n
    BY <1>1, <1>3, <1>4
  <1>6. p + i * q \in Nat
    BY <1>3, <1>4
  <1>7. top \div n = p + i * q
    BY <1>1, <1>5, <1>6, MulDiv
  <1>8. p + i * q # 0
    <2>1. CASE p = 0
      BY <2>1, <1>1, <1>2, <1>3
    <2>2. QED
      BY <2>1, <1>3, <1>4
  <1>9. top \in Nat /\ top # 0
    BY <1>2, <1>4
  <1>10. QED
    BY <1>5, <1>6, <1>7, <1>8, <1>9 DEF n

\* The share that the publisher rounds to is exact.
LEMMA TrueShare ==
  ASSUME borders \in Histories, NEW y \in Years, NEW k, Held(y, k) # {}, NEW m \in Nat
  PROVE  (m * One) \div Cardinality(Held(y, k)) = m * (One \div Cardinality(Held(y, k)))
  <1> DEFINE n == Cardinality(Held(y, k))
  <1> DEFINE q == One \div n
  <1>1. q \in Nat /\ q * n = One /\ n \in Nat /\ n > 0
    <2>1. One \in Tops
      BY DEF Tops
    <2>2. Cardinality(Atoms) \in Nat
      BY TerritoryIsFinite, FS_CardinalityType
    <2>3. QED
      BY <2>1, <2>2, SharePerAtom, Landholding
  <1> HIDE DEF n, q
  <1>2. m * One = (m * q) * n
    BY <1>1
  <1>3. (m * One) \div n = m * q
    BY <1>1, <1>2, MulDiv
  <1>4. QED
    BY <1>3 DEF n, q

LEMMA MovedIsPositive ==
  ASSUME borders \in Histories, NEW span \in Years \X Years, NEW k, NEW t,
         Moved(span, k, t) # {}, NEW top \in Tops
  PROVE  /\ Cardinality(Moved(span, k, t)) \in Nat \ {0}
         /\ ScaledRow(span, k, t, top).share \in Nat \ {0}
  <1>1. Held(span[1], k) # {} /\ Moved(span, k, t) \in SUBSET Held(span[1], k)
    BY DEF Moved
  <1>2. IsFiniteSet(Moved(span, k, t))
    BY <1>1, Landholding, FS_Subset
  <1>3. Cardinality(Moved(span, k, t)) \in Nat \ {0}
    BY <1>2, FS_CardinalityType, FS_EmptySet
  <1>4. top \div Cardinality(Held(span[1], k)) \in Nat \ {0}
    BY <1>1, SharePerAtom
  <1> DEFINE a == Cardinality(Moved(span, k, t))
  <1> DEFINE b == top \div Cardinality(Held(span[1], k))
  <1>5. ScaledRow(span, k, t, top).share = a * b
    BY DEF ScaledRow
  <1> HIDE DEF a, b
  <1>6. a * b \in Nat \ {0}
    BY <1>3, <1>4 DEF a, b
  <1>7. QED
    BY <1>3, <1>5, <1>6

\* What the proofs need to know of a key sheet.
Useless(sheet, k) == \E r \in sheet : r.source = k /\ (r.share < 0 \/ r.copy > 1)

SheetOK(span, sheet) ==
    /\ IsFiniteSet(sheet)
    /\ \A r \in sheet : /\ r.source \in Standing(span[1]) /\ r.target \in Standing(span[2])
                        /\ r.share \in Int /\ r.copy \in {1, 2}
    /\ \A k \in Standing(span[1]) : (\E top \in Tops : Scaled(span, sheet, k, top)) \/ Useless(sheet, k)
    /\ \A k, t \in Kreise :
          Moved(span, k, t) # {} => \E r \in sheet : r.source = k /\ r.target = t /\ r.share # 0

LEMMA TrueRows ==
  ASSUME borders \in Histories, NEW span \in Years \X Years
  PROVE  /\ \A r \in TrueSheet(span) : \E k \in Standing(span[1]), t \in Standing(span[2]) :
                Moved(span, k, t) # {} /\ r = ScaledRow(span, k, t, One)
         /\ \A k \in Standing(span[1]), t \in Standing(span[2]) :
                Moved(span, k, t) # {} => ScaledRow(span, k, t, One) \in TrueSheet(span)
         /\ IsFiniteSet(TrueSheet(span))
  <1> DEFINE row == [p \in Kreise \X Kreise |-> 
                       [source |-> p[1], target |-> p[2], copy |-> 1,
                        share |-> (Cardinality(Moved(span, p[1], p[2])) * One)
                                     \div Cardinality(Held(span[1], p[1]))]]
  <1> DEFINE Pairs == {p \in Standing(span[1]) \X Standing(span[2]) : Moved(span, p[1], p[2]) # {}}
  <1>0. Pairs \subseteq Kreise \X Kreise
    BY DEF Standing
  <1>1. TrueSheet(span) = {row[p] : p \in Pairs}
    BY <1>0 DEF TrueSheet, Moved
  <1>2. ASSUME NEW k \in Kreise, NEW t \in Kreise, Moved(span, k, t) # {}
        PROVE  row[<<k, t>>] = ScaledRow(span, k, t, One)
    <2>1. Held(span[1], k) # {}
      BY <1>2 DEF Moved
    <2>2. One \in Tops
      BY DEF Tops
    <2>3. Cardinality(Moved(span, k, t)) \in Nat
      BY <1>2, <2>2, MovedIsPositive
    <2>4. (Cardinality(Moved(span, k, t)) * One) \div Cardinality(Held(span[1], k))
             = Cardinality(Moved(span, k, t)) * (One \div Cardinality(Held(span[1], k)))
      BY <2>1, <2>3, TrueShare
    <2>5. QED
      BY <2>4 DEF ScaledRow
  <1>3. IsFiniteSet(Pairs)
    <2>1. IsFiniteSet(Kreise \X Kreise)
      BY TerritoryIsFinite, FS_Product
    <2>2. QED
      BY <1>0, <2>1, FS_Subset
  <1> HIDE DEF row
  <1>4. IsFiniteSet(TrueSheet(span))
    <2>1. PICK S, g : S = Pairs /\ g = row
      OBVIOUS
    <2>2. IsFiniteSet(S)
      BY <1>3, <2>1
    <2>3. IsFiniteSet({g[p] : p \in S})
      BY ONLY <2>2, FiniteImage
    <2>4. QED
      BY <1>1, <2>1, <2>3, Zenon
  <1>5. ASSUME NEW r \in TrueSheet(span)
        PROVE  \E k \in Standing(span[1]), t \in Standing(span[2]) :
                  Moved(span, k, t) # {} /\ r = ScaledRow(span, k, t, One)
    <2>1. PICK p \in Pairs : r = row[p]
      BY <1>1
    <2>2. p = <<p[1], p[2]>> /\ p[1] \in Standing(span[1]) /\ p[2] \in Standing(span[2])
          /\ Moved(span, p[1], p[2]) # {} /\ p[1] \in Kreise /\ p[2] \in Kreise
      BY <1>0
    <2>3. r = ScaledRow(span, p[1], p[2], One)
      BY <1>2, <2>1, <2>2
    <2>4. QED
      BY <2>2, <2>3
  <1>6. ASSUME NEW k \in Standing(span[1]), NEW t \in Standing(span[2]), Moved(span, k, t) # {}
        PROVE  ScaledRow(span, k, t, One) \in TrueSheet(span)
    <2>1. <<k, t>> \in Pairs /\ k \in Kreise /\ t \in Kreise
      BY <1>6 DEF Standing
    <2>2. QED
      BY <1>1, <1>2, <1>6, <2>1
  <1>7. QED
    BY <1>4, <1>5, <1>6

\* Who moves something stands before, who receives something stands after.
LEMMA MoversStand ==
  ASSUME NEW span, NEW k \in Kreise, NEW t \in Kreise, Moved(span, k, t) # {}
  PROVE  k \in Standing(span[1]) /\ t \in Standing(span[2])
  BY DEF Moved, Standing

LEMMA RowFields ==
  ASSUME NEW span, NEW k, NEW t, NEW top
  PROVE  /\ ScaledRow(span, k, t, top).source = k /\ ScaledRow(span, k, t, top).target = t
         /\ ScaledRow(span, k, t, top).copy = 1
  BY DEF ScaledRow

\* A sheet as published is sound.
LEMMA TrueSheetSound ==
  ASSUME borders \in Histories, NEW span \in Years \X Years
  PROVE  /\ SheetOK(span, TrueSheet(span))
         /\ \A k \in Standing(span[1]) : Scaled(span, TrueSheet(span), k, One)
         /\ \A r \in TrueSheet(span) : r.share > 0 /\ r.copy = 1
  <1>0. One \in Tops
    BY DEF Tops
  <1>1. ASSUME NEW r \in TrueSheet(span)
        PROVE  /\ r.source \in Standing(span[1]) /\ r.target \in Standing(span[2])
               /\ r.share \in Nat \ {0} /\ r.copy = 1
               /\ Moved(span, r.source, r.target) # {} /\ r = ScaledRow(span, r.source, r.target, One)
    <2>1. PICK k \in Standing(span[1]), t \in Standing(span[2]) :
              Moved(span, k, t) # {} /\ r = ScaledRow(span, k, t, One)
      BY TrueRows
    <2>2. QED
      BY <1>0, <2>1, RowFields, MovedIsPositive
  <1>2. ASSUME NEW k \in Kreise, NEW t \in Kreise, Moved(span, k, t) # {}
        PROVE  /\ ScaledRow(span, k, t, One) \in TrueSheet(span)
               /\ ScaledRow(span, k, t, One).share # 0
    BY <1>0, <1>2, TrueRows, MoversStand, MovedIsPositive
  <1>3. ASSUME NEW k \in Standing(span[1])
        PROVE  Scaled(span, TrueSheet(span), k, One)
    <2>1. k \in Kreise
      BY DEF Standing
    <2>2. ASSUME NEW r \in Moving({q \in TrueSheet(span) : q.source = k})
          PROVE  r \in ScaledRows(span, k, One)
      <3>1. r \in TrueSheet(span) /\ r.source = k
        BY DEF Moving
      <3>2. r.target \in Heirs(span, k)
        BY <1>1, <3>1 DEF Heirs, Standing
      <3>3. QED
        BY <1>1, <3>1, <3>2 DEF ScaledRows
    <2>3. ASSUME NEW r \in ScaledRows(span, k, One)
          PROVE  r \in Moving({q \in TrueSheet(span) : q.source = k})
      <3>1. PICK t \in Heirs(span, k) : r = ScaledRow(span, k, t, One)
        BY DEF ScaledRows
      <3>2. QED
        BY <1>2, <2>1, <3>1, RowFields DEF Heirs, Moving
    <2>4. QED
      BY <2>2, <2>3 DEF Scaled
  <1>4. \A r \in TrueSheet(span) : r.share > 0 /\ r.copy = 1
    BY <1>1
  <1>5. SheetOK(span, TrueSheet(span))
    <2>1. IsFiniteSet(TrueSheet(span))
      BY TrueRows
    <2>2. \A r \in TrueSheet(span) : /\ r.source \in Standing(span[1]) /\ r.target \in Standing(span[2])
                                     /\ r.share \in Int /\ r.copy \in {1, 2}
      BY <1>1
    <2>3. \A k, t \in Kreise : Moved(span, k, t) # {} =>
              \E r \in TrueSheet(span) : r.source = k /\ r.target = t /\ r.share # 0
      BY <1>2, RowFields
    <2>4. QED
      BY <2>1, <2>2, <2>3, <1>0, <1>3 DEF SheetOK
  <1>6. QED
    BY <1>3, <1>4, <1>5

OwnRows(sheet, k) == {r \in sheet : r.source = k}

\* Scaling the shares of a Kreis scales its rows.
LEMMA ScaledShare ==
  ASSUME borders \in Histories, NEW span \in Years \X Years, NEW k, NEW t,
         Moved(span, k, t) # {}, NEW top \in Tops
  PROVE  [ScaledRow(span, k, t, One) EXCEPT !.share = (@ * top) \div One] = ScaledRow(span, k, t, top)
  <1> DEFINE n == Cardinality(Held(span[1], k))
  <1> DEFINE m == Cardinality(Moved(span, k, t))
  <1> DEFINE p == One \div n
  <1> DEFINE q == top \div n
  <1>0. Held(span[1], k) # {} /\ One \in Tops
    BY DEF Moved, Tops
  <1>1. p \in Nat /\ q \in Nat /\ p * n = One /\ q * n = top /\ One > 0 /\ n \in Nat /\ m \in Nat
    <2>1. One > 0
      BY SharesDivide
    <2>2. QED
      BY <2>1, <1>0, SharePerAtom, Landholding, MovedIsPositive
  <1>2. ScaledRow(span, k, t, One) = [source |-> k, target |-> t, copy |-> 1, share |-> m * p]
        /\ ScaledRow(span, k, t, top) = [source |-> k, target |-> t, copy |-> 1, share |-> m * q]
    BY DEF ScaledRow
  <1> HIDE DEF n, m, p, q
  <1>3. (m * p) * top = (m * q) * One
    <2>1. (m * p) * (q * n) = (m * q) * (p * n)
      BY <1>1
    <2>2. QED
      BY <2>1, <1>1
  <1>4. m * q \in Int /\ One \in Nat
    BY <1>1
  <1>5. ((m * p) * top) \div One = m * q
    BY <1>1, <1>3, <1>4, MulDiv
  <1>6. QED
    BY <1>2, <1>5

\* The rows of Kreis k may differ from those of S, in a way that is found or does not matter.
DiffersOnlyIn(k, span, S, D) ==
    /\ IsFiniteSet(D)
    /\ \A r \in D : /\ r.source \in Standing(span[1]) /\ r.target \in Standing(span[2])
                    /\ r.share \in Int /\ r.copy \in {1, 2}
    /\ \A r \in S : r.source # k => r \in D
    /\ \A r \in D : r.source # k => r \in S
    /\ (\E top \in Tops : Scaled(span, D, k, top)) \/ Useless(D, k)
    /\ \A t \in Kreise : Moved(span, k, t) # {} => \E r \in D : r.source = k /\ r.target = t /\ r.share # 0

LEMMA OthersUntouched ==
  ASSUME NEW span, NEW S, SheetOK(span, S), NEW D, NEW k, DiffersOnlyIn(k, span, S, D)
  PROVE  SheetOK(span, D)
  <1>1. ASSUME NEW j \in Standing(span[1]), j # k
        PROVE  (\E top \in Tops : Scaled(span, D, j, top)) \/ Useless(D, j)
    <2>1. {q \in D : q.source = j} = {q \in S : q.source = j}
      BY <1>1 DEF DiffersOnlyIn
    <2>2. CASE \E top \in Tops : Scaled(span, S, j, top)
      BY <2>1, <2>2 DEF Scaled
    <2>3. CASE Useless(S, j)
      BY <2>1, <2>3 DEF Useless
    <2>4. QED
      BY <2>2, <2>3 DEF SheetOK
  <1>2. ASSUME NEW j \in Kreise, NEW t \in Kreise, Moved(span, j, t) # {}, j # k
        PROVE  \E r \in D : r.source = j /\ r.target = t /\ r.share # 0
    <2>1. PICK r \in S : r.source = j /\ r.target = t /\ r.share # 0
      BY <1>2 DEF SheetOK
    <2>2. QED
      BY <2>1, <1>2 DEF DiffersOnlyIn
  <1>3. QED
    BY <1>1, <1>2 DEF SheetOK, DiffersOnlyIn

\* A sheet whose shares of one Kreis do not add up, by as much as is tolerated or more.
LEMMA ScaledSound ==
  ASSUME borders \in Histories, NEW span \in Years \X Years, NEW k \in Standing(span[1]),
         NEW top \in Tops, NEW D,
         D = (TrueSheet(span) \ OwnRows(TrueSheet(span), k))
               \cup {[r EXCEPT !.share = (@ * top) \div One] : r \in OwnRows(TrueSheet(span), k)}
  PROVE  SheetOK(span, D)
  <1> DEFINE S == TrueSheet(span)
  <1> DEFINE scale == [r \in OwnRows(S, k) |-> [r EXCEPT !.share = (@ * top) \div One]]
  <1> DEFINE New == {scale[r] : r \in OwnRows(S, k)}
  <1>0. SheetOK(span, S) /\ IsFiniteSet(S) /\ k \in Kreise
    BY TrueSheetSound DEF SheetOK, Standing
  <1>1. D = (S \ OwnRows(S, k)) \cup New
    OBVIOUS
  <1>2. IsFiniteSet(OwnRows(S, k)) /\ IsFiniteSet(S \ OwnRows(S, k))
    BY <1>0, FS_Subset DEF OwnRows
  <1>3. ASSUME NEW t \in Heirs(span, k)
        PROVE  ScaledRow(span, k, t, One) \in OwnRows(S, k)
               /\ scale[ScaledRow(span, k, t, One)] = ScaledRow(span, k, t, top)
    <2>1. t \in Kreise /\ Moved(span, k, t) # {}
      BY DEF Heirs
    <2>2. ScaledRow(span, k, t, One) \in OwnRows(S, k)
      BY <2>1, <1>0, TrueRows, MoversStand, RowFields DEF OwnRows
    <2>3. QED
      BY <2>1, <2>2, ScaledShare
  <1>4. ASSUME NEW r \in OwnRows(S, k)
        PROVE  \E t \in Heirs(span, k) : r = ScaledRow(span, k, t, One)
    <2>1. PICK j \in Standing(span[1]), t \in Standing(span[2]) :
              Moved(span, j, t) # {} /\ r = ScaledRow(span, j, t, One)
      BY TrueRows DEF OwnRows
    <2>2. j = k /\ t \in Kreise
      BY <2>1, RowFields DEF OwnRows, Standing
    <2>3. QED
      BY <2>1, <2>2 DEF Heirs
  <1> HIDE DEF scale, S
  <1>5. New = ScaledRows(span, k, top)
    BY <1>3, <1>4 DEF ScaledRows
  <1>6. IsFiniteSet(D)
    <2>1. IsFiniteSet(New)
      BY <1>2, FiniteImage
    <2> HIDE DEF New
    <2>2. IsFiniteSet((S \ OwnRows(S, k)) \cup New)
      BY <1>2, <2>1, FS_Union
    <2>3. QED
      BY <1>1, <2>2, Zenon
  <1>7. ASSUME NEW r \in New
        PROVE  /\ r.source = k /\ r.target \in Standing(span[2]) /\ r.copy = 1
               /\ r.share \in Nat \ {0} /\ r \in ScaledRows(span, k, top)
    <2>1. PICK t \in Heirs(span, k) : r = ScaledRow(span, k, t, top)
      BY <1>5 DEF ScaledRows
    <2>2. t \in Standing(span[2])
      BY <1>0, MoversStand DEF Heirs
    <2>3. QED
      BY <1>5, <2>1, <2>2, RowFields, MovedIsPositive DEF Heirs
  <1>8. ASSUME NEW t \in Heirs(span, k)
        PROVE  ScaledRow(span, k, t, top) \in New
    BY <1>5 DEF ScaledRows
  <1> HIDE DEF New
  <1>9. \A r \in D : r.source = k <=> r \in New
    BY <1>1, <1>7 DEF OwnRows
  <1>10. Moving({q \in D : q.source = k}) = ScaledRows(span, k, top)
    <2>1. {q \in D : q.source = k} = New
      BY <1>1, <1>9, <1>7
    <2>2. Moving({q \in D : q.source = k}) = {r \in New : r.share # 0}
      BY <2>1 DEF Moving
    <2>3. {r \in New : r.share # 0} = New
      BY <1>7
    <2>4. QED
      BY <2>2, <2>3, <1>5
  <1>11. \A r \in D : /\ r.source \in Standing(span[1]) /\ r.target \in Standing(span[2])
                      /\ r.share \in Int /\ r.copy \in {1, 2}
    BY <1>0, <1>1, <1>7 DEF SheetOK
  <1>12. \A r \in S : r.source # k => r \in D
    BY <1>1 DEF OwnRows
  <1>13. \A r \in D : r.source # k => r \in S
    BY <1>1, <1>7
  <1>14. \A t \in Kreise : Moved(span, k, t) # {} => \E r \in D : r.source = k /\ r.target = t /\ r.share # 0
    <2> SUFFICES ASSUME NEW t \in Kreise, Moved(span, k, t) # {}
                 PROVE  \E r \in D : r.source = k /\ r.target = t /\ r.share # 0
      OBVIOUS
    <2>1. ScaledRow(span, k, t, top) \in New
      BY <1>8 DEF Heirs
    <2>2. ScaledRow(span, k, t, top).share # 0
      BY <1>7, <2>1
    <2>3. QED
      BY <1>1, <2>1, <2>2, RowFields
  <1>15. DiffersOnlyIn(k, span, S, D)
    BY <1>6, <1>10, <1>11, <1>12, <1>13, <1>14 DEF DiffersOnlyIn, Scaled
  <1>16. QED
    BY <1>0, <1>15, OthersUntouched

\* A sheet with more rows for one Kreis: rows that make it useless, or that move nothing.
LEMMA AddedSound ==
  ASSUME borders \in Histories, NEW span \in Years \X Years, NEW k \in Standing(span[1]),
         NEW Extra, IsFiniteSet(Extra),
         \A r \in Extra : /\ r.source = k /\ r.target \in Standing(span[2])
                          /\ r.share \in Int /\ r.copy \in {1, 2},
         \/ \A r \in Extra : r.share = 0
         \/ \E r \in Extra : r.share < 0 \/ r.copy > 1,
         NEW D, D = TrueSheet(span) \cup Extra
  PROVE  SheetOK(span, D)
  <1> DEFINE S == TrueSheet(span)
  <1>0. SheetOK(span, S) /\ IsFiniteSet(S) /\ k \in Kreise /\ Scaled(span, S, k, One) /\ One \in Tops
    BY TrueSheetSound DEF SheetOK, Standing, Tops
  <1>1. D = S \cup Extra
    OBVIOUS
  <1> HIDE DEF S
  <1>2. IsFiniteSet(D)
    <2>1. IsFiniteSet(S \cup Extra)
      BY <1>0, FS_Union
    <2>2. QED
      BY <1>1, <2>1, Zenon
  <1>3. (\E top \in Tops : Scaled(span, D, k, top)) \/ Useless(D, k)
    <2>1. CASE \A r \in Extra : r.share = 0
      <3>1. Moving({q \in D : q.source = k}) = Moving({q \in S : q.source = k})
        BY <1>1, <2>1 DEF Moving
      <3>2. QED
        BY <3>1, <1>0 DEF Scaled
    <2>2. CASE \E r \in Extra : r.share < 0 \/ r.copy > 1
      BY <2>2, <1>1 DEF Useless
    <2>3. QED
      BY <2>1, <2>2
  <1>4. \A t \in Kreise : Moved(span, k, t) # {} => \E r \in D : r.source = k /\ r.target = t /\ r.share # 0
    BY <1>0, <1>1 DEF SheetOK
  <1>5. \A r \in D : /\ r.source \in Standing(span[1]) /\ r.target \in Standing(span[2])
                     /\ r.share \in Int /\ r.copy \in {1, 2}
    BY <1>0, <1>1 DEF SheetOK
  <1>6. DiffersOnlyIn(k, span, S, D)
    BY <1>1, <1>2, <1>3, <1>4, <1>5 DEF DiffersOnlyIn
  <1>7. QED
    BY <1>0, <1>6, OthersUntouched

\* The rows that a Kreis is given besides its own.
RowsInto(k, T, share) == {[source |-> k, target |-> t, copy |-> 1, share |-> share] : t \in T}

LEMMA AddedRows ==
  ASSUME NEW k, NEW T, IsFiniteSet(T), NEW share
  PROVE  /\ IsFiniteSet(RowsInto(k, T, share))
         /\ \A r \in RowsInto(k, T, share) : r.source = k /\ r.target \in T /\ r.share = share /\ r.copy = 1
  <1> DEFINE h == [t \in T |-> [source |-> k, target |-> t, copy |-> 1, share |-> share]]
  <1>1. RowsInto(k, T, share) = {h[t] : t \in T}
    BY DEF RowsInto
  <1>2. IsFiniteSet({h[t] : t \in T})
    <2> HIDE DEF h
    <2>1. QED
      BY FiniteImage
  <1>3. IsFiniteSet(RowsInto(k, T, share))
    BY <1>1, <1>2, Zenon
  <1>4. \A r \in RowsInto(k, T, share) : r.source = k /\ r.target \in T /\ r.share = share /\ r.copy = 1
    BY DEF RowsInto
  <1>5. QED
    BY <1>3, <1>4

\* Every defect of the model leaves a sheet that is sound, or in which it is found.
LEMMA DefectiveSound ==
  ASSUME borders \in Histories, NEW span \in Years \X Years, NEW k \in Standing(span[1]), NEW defect
  PROVE  SheetOK(span, Defective(TrueSheet(span), defect, k))
  <1> DEFINE S == TrueSheet(span)
  <1> DEFINE own == OwnRows(S, k)
  <1> DEFINE strangers == {r.target : r \in S} \ {r.target : r \in own}
  <1> DEFINE twin == [r \in own |-> [r EXCEPT !.copy = 2]]
  <1> DEFINE D == Defective(S, defect, k)
  <1> SUFFICES SheetOK(span, D)
    OBVIOUS
  <1>0. /\ SheetOK(span, S) /\ IsFiniteSet(S) /\ IsFiniteSet(own)
        /\ One + Tolerance \in Tops /\ One + 2 * Tolerance \in Tops /\ -Tolerance \in Int /\ -Tolerance < 0
    <2>1. IsFiniteSet(S) /\ own \in SUBSET S
      BY TrueSheetSound DEF SheetOK, OwnRows
    <2>2. IsFiniteSet(own)
      BY <2>1, FS_Subset
    <2>3. -Tolerance \in Int /\ -Tolerance < 0
      BY SharesDivide
    <2>4. QED
      BY <2>1, <2>2, <2>3, TrueSheetSound DEF Tops
  <1>1. strangers \subseteq Standing(span[2]) /\ strangers \subseteq Kreise
    BY <1>0 DEF SheetOK, Standing
  <1>2. IsFiniteSet(strangers)
    BY <1>1, TerritoryIsFinite, FS_Subset
  <1> HIDE DEF D, strangers
  <1>3. CASE defect = "scaled_within"
    <2>1. D = (S \ own) \cup {[r EXCEPT !.share = (@ * (One + Tolerance)) \div One] : r \in own}
      BY <1>3 DEF D, Defective, OwnRows
    <2>2. QED
      BY <1>0, <2>1, ScaledSound
  <1>4. CASE defect = "scaled_beyond"
    <2>1. D = (S \ own) \cup {[r EXCEPT !.share = (@ * (One + 2 * Tolerance)) \div One] : r \in own}
      BY <1>4 DEF D, Defective, OwnRows
    <2>2. QED
      BY <1>0, <2>1, ScaledSound
  <1>5. CASE defect = "negative"
    <2>1. D = S \cup RowsInto(k, strangers, -Tolerance)
      BY <1>5 DEF D, strangers, Defective, OwnRows, RowsInto
    <2>2. /\ IsFiniteSet(RowsInto(k, strangers, -Tolerance))
          /\ \A r \in RowsInto(k, strangers, -Tolerance) :
                r.source = k /\ r.target \in strangers /\ r.share = -Tolerance /\ r.copy = 1
      BY <1>2, AddedRows
    <2> DEFINE Extra == RowsInto(k, strangers, -Tolerance)
    <2>3. D = S \cup Extra /\ IsFiniteSet(Extra)
          /\ \A r \in Extra : /\ r.source = k /\ r.target \in Standing(span[2])
                              /\ r.share \in Int /\ r.share < 0 /\ r.copy \in {1, 2}
      <3> HIDE DEF S
      <3>1. QED
        BY <1>0, <1>1, <2>1, <2>2
    <2> HIDE DEF Extra
    <2>4. (\A r \in Extra : r.share = 0) \/ (\E r \in Extra : r.share < 0 \/ r.copy > 1)
      BY <2>3
    <2>5. QED
      BY <2>3, <2>4, AddedSound
  <1>6. CASE defect = "twice"
    <2> DEFINE Extra == {twin[r] : r \in own}
    <2>1. D = S \cup Extra
      BY <1>6 DEF D, Defective, OwnRows
    <2>2. IsFiniteSet(Extra)
      <3> HIDE DEF twin
      <3>1. QED
        BY <1>0, FiniteImage
    <2>3. \A r \in Extra : /\ r.source = k /\ r.target \in Standing(span[2])
                           /\ r.share \in Int /\ r.copy = 2
      <3> SUFFICES ASSUME NEW q \in own
                   PROVE  /\ twin[q].source = k /\ twin[q].target \in Standing(span[2])
                          /\ twin[q].share \in Int /\ twin[q].copy = 2
        OBVIOUS
      <3>1. PICK j, t : q = ScaledRow(span, j, t, One)
        BY TrueRows DEF OwnRows
      <3>2. q.source = k /\ q.target \in Standing(span[2]) /\ q.share \in Int
        BY <1>0 DEF OwnRows, SheetOK
      <3>3. QED
        BY <3>1, <3>2 DEF ScaledRow
    <2> HIDE DEF Extra
    <2>4. QED
      BY <2>1, <2>2, <2>3, AddedSound
  <1>7. CASE defect = "zero"
    <2>1. D = S \cup RowsInto(k, strangers, 0)
      BY <1>7 DEF D, strangers, Defective, OwnRows, RowsInto
    <2>2. /\ IsFiniteSet(RowsInto(k, strangers, 0))
          /\ \A r \in RowsInto(k, strangers, 0) :
                r.source = k /\ r.target \in strangers /\ r.share = 0 /\ r.copy = 1
      BY <1>2, AddedRows
    <2> DEFINE Extra == RowsInto(k, strangers, 0)
    <2>3. D = S \cup Extra /\ IsFiniteSet(Extra)
          /\ \A r \in Extra : /\ r.source = k /\ r.target \in Standing(span[2])
                              /\ r.share \in Int /\ r.share = 0 /\ r.copy \in {1, 2}
      <3> HIDE DEF S
      <3>1. QED
        BY <1>1, <2>1, <2>2
    <2> HIDE DEF Extra
    <2>4. QED
      BY <2>3, AddedSound
  <1>8. CASE defect \notin {"scaled_within", "scaled_beyond", "negative", "twice", "zero"}
    <2>1. D = S
      BY <1>8 DEF D, Defective
    <2>2. QED
      BY <1>0, <2>1
  <1>9. QED
    BY <1>3, <1>4, <1>5, <1>6, <1>7, <1>8

-----------------------------------------------------------------------------
\* Calls

\* What every call rests on.
CallOK(c) ==
    /\ c.span \in Years \X Years /\ c.span[1] \in Int /\ c.span[2] \in Int /\ c.span[1] < c.span[2]
    /\ c.sheet = {} \/ SheetOK(c.span, c.sheet)
    /\ DOMAIN c.others \subseteq SingleYears
    /\ \A s \in DOMAIN c.others : c.others[s] = TrueSheet(s)
    /\ DOMAIN c.cells \subseteq Kreise \X Years
    /\ \A o \in DOMAIN c.cells : c.cells[o] \in {Cell(o[1], o[2], b) : b \in BOOLEAN}
    /\ c.unmatched \in AllPolicies /\ c.incomplete \in AllPolicies

AnswerOK ==
    answer # Null =>
        /\ CallOK(call)
        /\ \/ /\ answer.outcome # "result" /\ Refusal(call) # "none"
              /\ answer.rows = {} /\ answer.issues = {}
           \/ /\ answer.outcome = "result" /\ Refusal(call) = "none"
              /\ answer.rows = Rows(call) /\ answer.issues = Issues(call)

IInv == borders \in Histories /\ AnswerOK

LEMMA SpansAreYears ==
  ASSUME NEW span \in Spans
  PROVE  /\ span \in Years \X Years /\ span[1] \in Int /\ span[2] \in Int /\ span[1] < span[2]
  BY ForwardOnly, YearsAreInts

LEMMA ArgumentsSound ==
  ASSUME borders \in Histories, NEW span \in Spans, NEW sheet, sheet = {} \/ SheetOK(span, sheet),
         NEW given \in SUBSET SingleYears, NEW table, DOMAIN table \in Selections,
         \A o \in DOMAIN table : table[o] \in {Cell(o[1], o[2], b) : b \in BOOLEAN},
         NEW policy \in Policies
  PROVE  CallOK(Arguments(span, sheet, given, table, policy))
  <1> DEFINE c == Arguments(span, sheet, given, table, policy)
  <1>1. /\ c.span = span /\ c.sheet = sheet /\ c.others = [s \in given |-> TrueSheet(s)]
        /\ c.cells = table /\ c.unmatched = policy /\ c.incomplete = policy
    BY DEF Arguments
  <1>2. DOMAIN table \subseteq Kreise \X Years
    BY CellsAreCells
  <1>3. policy \in AllPolicies
    BY ChoicesAreKnown
  <1> SUFFICES CallOK(c)
    OBVIOUS
  <1> HIDE DEF c
  <1>4. QED
    <2>1. c.span \in Years \X Years /\ c.span[1] \in Int /\ c.span[2] \in Int /\ c.span[1] < c.span[2]
      BY <1>1, SpansAreYears
    <2>2. DOMAIN c.others = given /\ \A s \in given : c.others[s] = TrueSheet(s)
      BY <1>1
    <2>3. c.sheet = {} \/ SheetOK(c.span, c.sheet)
      BY <1>1, Zenon
    <2>4. DOMAIN c.others \subseteq SingleYears /\ \A s \in DOMAIN c.others : c.others[s] = TrueSheet(s)
      BY <2>2
    <2>5. DOMAIN c.cells \subseteq Kreise \X Years
      BY <1>1, <1>2, Zenon
    <2>6. \A o \in DOMAIN c.cells : c.cells[o] \in {Cell(o[1], o[2], b) : b \in BOOLEAN}
      BY <1>1, Zenon
    <2>7. c.unmatched \in AllPolicies /\ c.incomplete \in AllPolicies
      BY <1>1, <1>3
    <2>8. QED
      BY <1>1, <2>1, <2>3, <2>4, <2>5, <2>6, <2>7 DEF CallOK

\* Whether a call is sound depends on its arguments and on the borders only.
LEMMA SoundnessKept ==
  ASSUME NEW c, borders' = borders
  PROVE  CallOK(c)' <=> CallOK(c)
  BY DEF CallOK, SheetOK, Scaled, ScaledRows, Heirs, ScaledRow, Moved, Held, Standing, TrueSheet, Cell

\* A call with sound arguments has a sound answer.
LEMMA RebaseSound ==
  ASSUME NEW c, CallOK(c), Rebase(c), borders \in Histories
  PROVE  IInv'
  <1>1. borders' = borders /\ call' = c
    BY DEF Rebase
  <1>2. CallOK(c)' 
    <2>1. CallOK(c)' <=> CallOK(c)
      BY <1>1, SoundnessKept
    <2>2. QED
      BY <2>1
  <1>3. CASE Refusal(c) # "none"
    <2>1. answer' = [outcome |-> Refusal(c), rows |-> {}, issues |-> {}]
      BY <1>3 DEF Rebase
    <2>2. Refusal(c) # "result"
      BY DEF Refusal
    <2>3. answer'.outcome # "result" /\ answer'.rows = {} /\ answer'.issues = {}
      BY <2>1, <2>2
    <2>4. Refusal(call)' # "none" /\ CallOK(call)'
      BY <1>1, <1>2, <1>3
    <2>5. AnswerOK'
      BY <2>3, <2>4 DEF AnswerOK
    <2>6. QED
      BY <1>1, <2>5 DEF IInv
  <1>4. CASE Refusal(c) = "none"
    <2>1. answer' = [outcome |-> "result", rows |-> Rows(c), issues |-> Issues(c)]
      BY <1>4 DEF Rebase
    <2>2. QED
      BY <1>1, <1>2, <1>4, <2>1 DEF IInv, AnswerOK
  <1>5. QED
    BY <1>3, <1>4

LEMMA RebaseInit == Init => IInv
  BY DEF Init, IInv, AnswerOK

LEMMA RebaseNext == IInv /\ [Next]_vars => IInv'
  <1> SUFFICES ASSUME IInv, [Next]_vars PROVE IInv'
    OBVIOUS
  <1>0. borders \in Histories
    BY DEF IInv
  <1>1. CASE CallOnTrueSheet
    <2>1. PICK span \in Spans, given \in {{}, SingleYears}, cells \in Selections, policy \in Policies :
            Rebase(Arguments(span, TrueSheet(span), given,
                             [o \in cells |-> Cell(o[1], o[2], FALSE)], policy))
      BY <1>1 DEF CallOnTrueSheet
    <2>2. given \in SUBSET SingleYears /\ SheetOK(span, TrueSheet(span))
      BY <1>0, SpansAreYears, TrueSheetSound
    <2> DEFINE table == [o \in cells |-> Cell(o[1], o[2], FALSE)]
    <2>3. DOMAIN table \in Selections
          /\ \A o \in DOMAIN table : table[o] \in {Cell(o[1], o[2], b) : b \in BOOLEAN}
      OBVIOUS
    <2> HIDE DEF table
    <2>4. CallOK(Arguments(span, TrueSheet(span), given, table, policy))
      BY <1>0, <2>2, <2>3, ArgumentsSound
    <2>5. QED
      BY <1>0, <2>1, <2>4, RebaseSound DEF table
  <1>2. CASE CallOnFaultyInput
    <2>1. PICK span \in Spans, cells \in Selections, policy \in Policies :
            \/ \E lost \in cells :
                  Rebase(Arguments(span, TrueSheet(span), SingleYears,
                                   [o \in cells |-> Cell(o[1], o[2], o = lost)], policy))
            \/ \E defect \in Defects, k \in Standing(span[1]) :
                  Rebase(Arguments(span, Defective(TrueSheet(span), defect, k), SingleYears,
                                   [o \in cells |-> Cell(o[1], o[2], FALSE)], policy))
      BY <1>2 DEF CallOnFaultyInput
    <2>2. CASE \E lost \in cells :
                  Rebase(Arguments(span, TrueSheet(span), SingleYears,
                                   [o \in cells |-> Cell(o[1], o[2], o = lost)], policy))
      <3>1. PICK lost \in cells :
                  Rebase(Arguments(span, TrueSheet(span), SingleYears,
                                   [o \in cells |-> Cell(o[1], o[2], o = lost)], policy))
        BY <2>2
      <3>2. SheetOK(span, TrueSheet(span))
        BY <1>0, SpansAreYears, TrueSheetSound
      <3> DEFINE table == [o \in cells |-> Cell(o[1], o[2], o = lost)]
      <3>3. DOMAIN table \in Selections
            /\ \A o \in DOMAIN table : table[o] \in {Cell(o[1], o[2], b) : b \in BOOLEAN}
        <4> SUFFICES ASSUME NEW o \in cells
                     PROVE  Cell(o[1], o[2], o = lost) \in {Cell(o[1], o[2], b) : b \in BOOLEAN}
          OBVIOUS
        <4>1. CASE o = lost
          BY <4>1 DEF Cell
        <4>2. CASE o # lost
          BY <4>2 DEF Cell
        <4>3. QED
          BY <4>1, <4>2
      <3> HIDE DEF table
      <3>4. CallOK(Arguments(span, TrueSheet(span), SingleYears, table, policy))
        BY <1>0, <3>2, <3>3, ArgumentsSound
      <3>5. QED
        BY <1>0, <3>1, <3>4, RebaseSound DEF table
    <2>3. CASE \E defect \in Defects, k \in Standing(span[1]) :
                  Rebase(Arguments(span, Defective(TrueSheet(span), defect, k), SingleYears,
                                   [o \in cells |-> Cell(o[1], o[2], FALSE)], policy))
      <3>1. PICK defect \in Defects, k \in Standing(span[1]) :
                  Rebase(Arguments(span, Defective(TrueSheet(span), defect, k), SingleYears,
                                   [o \in cells |-> Cell(o[1], o[2], FALSE)], policy))
        BY <2>3
      <3>2. SheetOK(span, Defective(TrueSheet(span), defect, k))
        BY <1>0, SpansAreYears, DefectiveSound
      <3> DEFINE table == [o \in cells |-> Cell(o[1], o[2], FALSE)]
      <3>3. DOMAIN table \in Selections
            /\ \A o \in DOMAIN table : table[o] \in {Cell(o[1], o[2], b) : b \in BOOLEAN}
        OBVIOUS
      <3> HIDE DEF table
      <3>4. CallOK(Arguments(span, Defective(TrueSheet(span), defect, k), SingleYears, table, policy))
        BY <1>0, <3>2, <3>3, ArgumentsSound
      <3>5. QED
        BY <1>0, <3>1, <3>4, RebaseSound DEF table
    <2>4. QED
      BY <2>1, <2>2, <2>3
  <1>3. CASE CallWithoutSheet
    <2>1. PICK span \in Spans, cells \in Selections, policy \in Policies :
            Rebase(Arguments(span, {}, SingleYears \ {span},
                             [o \in cells |-> Cell(o[1], o[2], FALSE)], policy))
      BY <1>3 DEF CallWithoutSheet
    <2> DEFINE table == [o \in cells |-> Cell(o[1], o[2], FALSE)]
    <2> DEFINE given == SingleYears \ {span}
    <2>2. given \in SUBSET SingleYears
      OBVIOUS
    <2>3. DOMAIN table \in Selections
          /\ \A o \in DOMAIN table : table[o] \in {Cell(o[1], o[2], b) : b \in BOOLEAN}
      OBVIOUS
    <2> HIDE DEF table, given
    <2>4. CallOK(Arguments(span, {}, given, table, policy))
      BY <1>0, <2>2, <2>3, ArgumentsSound
    <2>5. QED
      BY <1>0, <2>1, <2>4, RebaseSound DEF table, given
  <1>4. CASE UNCHANGED vars
    <2>1. borders' = borders /\ call' = call /\ answer' = answer
      BY <1>4 DEF vars
    <2>2. CallOK(call)' <=> CallOK(call)
      BY <2>1 DEF CallOK, SheetOK, Scaled, ScaledRows, Heirs, ScaledRow, Moved, Held, Standing, TrueSheet, Cell
    <2>3. (Refusal(call) = "none")' <=> Refusal(call) = "none"
      BY <2>1 DEF Refusal, From, To, Observed, Requested, SharesRefused, Changed, Contradicted, Unmatched, Incomplete
    <2>4. QED
      BY <2>1, <2>2, <2>3 DEF IInv, AnswerOK
  <1>5. QED
    BY <1>1, <1>2, <1>3, <1>4 DEF Next

-----------------------------------------------------------------------------
\* What the sheets of single years show

\* A Kreis that a sheet of one year leaves unchanged has the same territory after it.
LEMMA UnchangedKeeps ==
  ASSUME borders \in Histories, NEW y \in Years, y + 1 \in Years, NEW k,
         Unchanged(TrueSheet(<<y, y + 1>>), k)
  PROVE  Held(y, k) = Held(y + 1, k)
  <1> DEFINE span == <<y, y + 1>>
  <1> DEFINE S == TrueSheet(span)
  <1>0. /\ span \in Years \X Years /\ span[1] = y /\ span[2] = y + 1
        /\ borders[y] \in [Atoms -> Kreise] /\ borders[y + 1] \in [Atoms -> Kreise]
    BY HistoriesAreBorders
  <1>1. PICK r \in S : /\ Moving({q \in S : q.source = k}) = {r}
                       /\ Moving({q \in S : q.target = k}) = {r}
    BY DEF Unchanged
  <1>2. r.source = k /\ r.target = k
    BY <1>1 DEF Moving
  <1>3. ASSUME NEW j \in Kreise, NEW t \in Kreise, Moved(span, j, t) # {}, j = k \/ t = k
        PROVE  j = k /\ t = k
    <2> DEFINE q == ScaledRow(span, j, t, One)
    <2>1. q \in S
      BY <1>0, <1>3, TrueRows, MoversStand
    <2>2. q.source = j /\ q.target = t /\ q.share > 0
      BY <1>0, <2>1, RowFields, TrueSheetSound
    <2> HIDE DEF q, S
    <2>3. q = r
      BY <1>1, <1>3, <2>1, <2>2 DEF Moving
    <2>4. QED
      BY <1>2, <2>2, <2>3
  <1> HIDE DEF S
  <1>4. ASSUME NEW a \in Held(y, k)
        PROVE  a \in Held(y + 1, k)
    <2> DEFINE t == borders[y + 1][a]
    <2>1. a \in Atoms /\ t \in Kreise /\ k \in Kreise
      BY <1>0 DEF Held
    <2>2. a \in Moved(span, k, t)
      BY <1>0, <2>1 DEF Moved, Held
    <2>3. t = k
      BY <1>3, <2>1, <2>2
    <2>4. QED
      BY <2>1, <2>3 DEF Held
  <1>5. ASSUME NEW a \in Held(y + 1, k)
        PROVE  a \in Held(y, k)
    <2> DEFINE j == borders[y][a]
    <2>1. a \in Atoms /\ j \in Kreise /\ k \in Kreise
      BY <1>0 DEF Held
    <2>2. a \in Moved(span, j, k)
      BY <1>0, <2>1 DEF Moved, Held
    <2>3. j = k
      BY <1>3, <2>1, <2>2
    <2>4. QED
      BY <2>1, <2>3 DEF Held
  <1>6. QED
    BY <1>4, <1>5

\* No issue reports that the sheets of the years from lo to hi are missing for k.
Verified(c, k, lo, hi) ==
    \A i \in Issues(c) : ~(i.kind = "unverified_year" /\ i.key = k /\ i.year \in Years /\ i.year \in lo..hi)

LEMMA BetweenIsChecked ==
  ASSUME borders \in Histories, NEW c, CallOK(c), Refusal(c) = "none", NEW k \in Kreise,
         NEW b \in Between(c, k), NEW lo, NEW hi, Verified(c, k, lo, hi), b[1] \in Years, b[1] \in lo..hi
  PROVE  b[2] \in SingleYears /\ Unchanged(TrueSheet(b[2]), k)
  <1>1. b[2] \in DOMAIN c.others
    <2> SUFFICES ASSUME b[2] \notin DOMAIN c.others PROVE FALSE
      OBVIOUS
    <2>1. Issue("unverified_year", k, b[1], Null) \in Issues(c)
      BY DEF UnverifiedIssues, Issues
    <2>2. QED
      BY <2>1 DEF Verified, Issue
  <1>2. ~Changed(c, k)
    BY DEF Refusal
  <1>3. Unchanged(c.others[b[2]], k)
    BY <1>1, <1>2 DEF Changed
  <1>4. QED
    BY <1>1, <1>3 DEF CallOK

\* Before the reform: from a year of its observations on, a Kreis keeps its territory.
LEMMA SteadyBefore ==
  ASSUME borders \in Histories, NEW c, CallOK(c), Refusal(c) = "none", NEW k \in Kreise, NEW y \in Years,
         y \in KeyYears(c, k), y <= From(c), Verified(c, k, y, From(c))
  PROVE  Held(y, k) = Held(From(c), k)
  <1> DEFINE Bad == {j \in Nat : y + j <= From(c) /\ ~(y + j \in Years /\ Held(y + j, k) = Held(y, k))}
  <1>0. y \in Int /\ From(c) \in Int
    BY YearsAreInts DEF CallOK, From
  <1>1. Bad = {}
    <2> SUFFICES ASSUME Bad # {} PROVE FALSE
      OBVIOUS
    <2>1. PICK n \in Bad : \A m \in Bad : n <= m
      BY LeastElement
    <2>2. n # 0 /\ n \in Nat
      BY <1>0
    <2> DEFINE z == y + (n - 1)
    <2>3. n - 1 \in Nat /\ z + 1 = y + n /\ z < From(c) /\ y <= z /\ z \in Int
      BY <1>0, <2>1, <2>2
    <2>4. n - 1 \notin Bad
      BY <2>1, <2>2
    <2>5. z \in Years /\ Held(z, k) = Held(y, k)
      BY <1>0, <2>3, <2>4
    <2> HIDE DEF z
    <2>6. <<z, <<z, z + 1>>>> \in Between(c, k)
      BY <2>3, <2>5 DEF Between
    <2>7. z \in y..From(c)
      BY <1>0, <2>3
    <2>8. <<z, z + 1>> \in SingleYears /\ Unchanged(TrueSheet(<<z, z + 1>>), k)
      BY <2>5, <2>6, <2>7, BetweenIsChecked
    <2>9. z + 1 \in Years /\ Held(z, k) = Held(z + 1, k)
      BY <2>5, <2>8, UnchangedKeeps DEF SingleYears
    <2>10. y + n \in Years /\ Held(y + n, k) = Held(y, k)
      BY <2>3, <2>5, <2>9
    <2>11. QED
      BY <2>1, <2>10
  <1> DEFINE d == From(c) - y
  <1>2. d \in Nat /\ y + d = From(c) /\ From(c) <= From(c)
    BY <1>0
  <1>3. d \notin Bad
    BY <1>1
  <1> HIDE DEF d
  <1>4. Held(y + d, k) = Held(y, k)
    BY <1>2, <1>3
  <1>5. QED
    BY <1>2, <1>4

\* After the reform: up to a year of its observations, a Kreis keeps its territory.
LEMMA SteadyAfter ==
  ASSUME borders \in Histories, NEW c, CallOK(c), Refusal(c) = "none", NEW k \in Kreise, NEW y \in Years,
         y \in KeyYears(c, k), To(c) <= y, Verified(c, k, To(c), y)
  PROVE  Held(y, k) = Held(To(c), k)
  <1> DEFINE Bad == {j \in Nat : To(c) <= y - j /\ ~(y - j \in Years /\ Held(y - j, k) = Held(y, k))}
  <1>0. y \in Int /\ To(c) \in Int
    BY YearsAreInts DEF CallOK, To
  <1>1. Bad = {}
    <2> SUFFICES ASSUME Bad # {} PROVE FALSE
      OBVIOUS
    <2>1. PICK n \in Bad : \A m \in Bad : n <= m
      BY LeastElement
    <2>2. n # 0 /\ n \in Nat
      BY <1>0
    <2> DEFINE z == y - (n - 1)
    <2>3. n - 1 \in Nat /\ z - 1 = y - n /\ z > To(c) /\ z <= y /\ z \in Int
      BY <1>0, <2>1, <2>2
    <2>4. n - 1 \notin Bad
      BY <2>1, <2>2
    <2>5. z \in Years /\ Held(z, k) = Held(y, k)
      BY <1>0, <2>3, <2>4
    <2> HIDE DEF z
    <2>6. <<z, <<z - 1, z>>>> \in Between(c, k)
      BY <1>0, <2>3, <2>5 DEF Between
    <2>7. z \in To(c)..y
      BY <1>0, <2>3
    <2>8. <<z - 1, z>> \in SingleYears /\ Unchanged(TrueSheet(<<z - 1, z>>), k)
      BY <2>5, <2>6, <2>7, BetweenIsChecked
    <2>9. z - 1 \in Years /\ (z - 1) + 1 = z
      BY <2>3, <2>8 DEF SingleYears
    <2>10. Held(z - 1, k) = Held(z, k)
      BY <2>5, <2>8, <2>9, UnchangedKeeps
    <2>11. y - n \in Years /\ Held(y - n, k) = Held(y, k)
      BY <2>3, <2>5, <2>9, <2>10
    <2>12. QED
      BY <2>1, <2>11
  <1> DEFINE d == y - To(c)
  <1>2. d \in Nat /\ y - d = To(c) /\ To(c) <= To(c)
    BY <1>0
  <1>3. d \notin Bad
    BY <1>1
  <1> HIDE DEF d
  <1>4. Held(y - d, k) = Held(y, k)
    BY <1>2, <1>3
  <1>5. QED
    BY <1>2, <1>4

-----------------------------------------------------------------------------
\* Shares and weights

\* The shares of a Kreis whose rows are as they should be add up to top.
LEMMA SharesAddUp ==
  ASSUME borders \in Histories, NEW span \in Years \X Years, NEW sheet, SheetOK(span, sheet),
         NEW k \in Standing(span[1]), NEW top \in Tops, Scaled(span, sheet, k, top)
  PROVE  SumFunction([r \in {r \in sheet : r.source = k} |-> r.share]) = top
  <1> DEFINE own == {r \in sheet : r.source = k}
  <1> DEFINE f == [r \in own |-> r.share]
  <1> DEFINE rows == ScaledRows(span, k, top)
  <1> DEFINE heirs == Heirs(span, k)
  <1> DEFINE n == Cardinality(Held(span[1], k))
  <1> DEFINE w == top \div n
  <1> DEFINE h == [t \in heirs |-> ScaledRow(span, k, t, top)]
  <1> DEFINE m == [t \in heirs |-> Cardinality(Moved(span, k, t))]
  <1> DEFINE e == [t \in heirs |-> w * m[t]]
  <1>0. /\ k \in Kreise /\ Held(span[1], k) # {} /\ heirs \subseteq Kreise /\ IsFiniteSet(heirs)
        /\ borders[span[2]] \in [Atoms -> Kreise] /\ IsFiniteSet(Held(span[1], k)) /\ Held(span[1], k) \subseteq Atoms
    <2>1. heirs \in SUBSET Kreise
      BY DEF Heirs
    <2>2. IsFiniteSet(heirs)
      BY <2>1, TerritoryIsFinite, FS_Subset
    <2>3. QED
      BY <2>1, <2>2, HistoriesAreBorders, Landholding DEF Standing
  <1>1. w \in Nat /\ w * n = top /\ n \in Nat
    BY <1>0, SharePerAtom, Landholding
  <1>2. IsFiniteSet(own) /\ \A r \in own : f[r] \in Int /\ f[r] = r.share
    <2>1. own \in SUBSET sheet /\ IsFiniteSet(sheet)
      BY DEF SheetOK
    <2>2. IsFiniteSet(own)
      BY <2>1, FS_Subset
    <2>3. QED
      BY <2>2 DEF SheetOK
  <1>3. rows = {r \in own : r.share # 0}
    BY DEF Scaled, Moving
  <1>4. ASSUME NEW t \in heirs
        PROVE  /\ h[t] \in rows /\ h[t].target = t /\ m[t] \in Nat
               /\ h[t].share = m[t] * w
    <2>1. Moved(span, k, t) # {}
      BY DEF Heirs
    <2>2. m[t] \in Nat
      BY <2>1, MovedIsPositive
    <2>3. h[t].share = m[t] * w /\ h[t].target = t
      BY DEF ScaledRow
    <2>4. h[t] \in rows
      BY DEF ScaledRows
    <2>5. QED
      BY <2>2, <2>3, <2>4
  <1>5. \A r \in rows : \E t \in heirs : h[t] = r
    BY DEF ScaledRows
  <1> HIDE DEF own, f, rows, heirs, n, w, h, m
  <1>6. SumFunctionOnSet(f, own) = SumFunctionOnSet(f, rows)
    <2>1. rows \in SUBSET own /\ \A r \in own \ rows : f[r] = 0
      BY <1>2, <1>3
    <2>2. QED
      BY <1>2, <2>1, SumWithoutZeros
  <1>7. SumFunctionOnSet(f, rows) = SumFunctionOnSet(e, heirs)
    <2>1. h \in [heirs -> rows]
      BY <1>4 DEF h
    <2>2. \A s, t \in heirs : h[s] = h[t] => s = t
      BY <1>4
    <2>3. \A t \in heirs : e[t] \in Int /\ f[h[t]] = e[t]
      <3> SUFFICES ASSUME NEW t \in heirs PROVE e[t] \in Int /\ f[h[t]] = e[t]
        OBVIOUS
      <3>1. f[h[t]] = h[t].share
        BY <1>2, <1>3, <1>4
      <3>2. e[t] = w * m[t] /\ m[t] \in Nat
        BY <1>4
      <3>3. QED
        BY <1>1, <1>4, <3>1, <3>2
    <2> HIDE DEF e
    <2>4. \A r \in rows : \E t \in heirs : h[t] = r
      BY <1>5
    <2>5. QED
      BY ONLY <1>0, <2>1, <2>2, <2>3, <2>4, SumRenamed
  <1>8. SumFunctionOnSet(e, heirs) = w * SumFunctionOnSet(m, heirs)
    <2>1. \A t \in heirs : m[t] \in Int /\ e[t] = w * m[t]
      BY <1>4
    <2> HIDE DEF e
    <2>2. QED
      BY <1>0, <1>1, <2>1, SumScale
  <1>9. SumFunctionOnSet(m, heirs) = n
    <2> DEFINE H == Held(span[1], k)
    <2> DEFINE p == borders[span[2]]
    <2>1. \A a \in H : p[a] \in heirs
      <3> SUFFICES ASSUME NEW a \in H PROVE p[a] \in heirs
        OBVIOUS
      <3>1. a \in Atoms /\ p[a] \in Kreise
        BY <1>0
      <3>2. a \in Moved(span, k, p[a])
        BY <3>1 DEF Moved, Held
      <3>3. QED
        BY <3>1, <3>2 DEF heirs, Heirs
    <2>2. \A t \in heirs : m[t] = Cardinality(Class(H, p, t))
      <3> SUFFICES ASSUME NEW t \in heirs PROVE m[t] = Cardinality(Class(H, p, t))
        OBVIOUS
      <3>1. Class(H, p, t) = Moved(span, k, t)
        BY <1>0 DEF Moved, Held, Class
      <3>2. QED
        BY <3>1 DEF m
    <2> HIDE DEF H, p
    <2>3. IsFiniteSet(H)
      BY <1>0 DEF H
    <2>4. SumFunctionOnSet(m, heirs) = Cardinality(H)
      BY <1>0, <2>1, <2>2, <2>3, CountByClass
    <2>5. QED
      BY <2>4 DEF H, n
  <1>10. SumFunctionOnSet(f, own) = top
    BY <1>1, <1>6, <1>7, <1>8, <1>9
  <1>11. SumFunction(f) = SumFunctionOnSet(f, own)
    BY DEF SumFunction, f
  <1>12. QED
    BY <1>10, <1>11 DEF f, own

\* The sums of shares a re-basing divides by.
Used == {One, One + Tolerance}

SourceOK(c, k, top) ==
    /\ top \in Used /\ Scaled(c.span, c.sheet, k, top) /\ ShareSum(c, k) = top
    /\ k \in Standing(c.span[1]) /\ k \in Kreise

\* The rows of a Kreis that a re-basing uses passed the check of the sheet.
LEMMA RequestedIsSound ==
  ASSUME borders \in Histories, NEW c, CallOK(c), Refusal(c) = "none", NEW k \in Requested(c)
  PROVE  \E top \in Used : SourceOK(c, k, top)
  <1>0. c.sheet # {} /\ SheetOK(c.span, c.sheet) /\ c.span \in Years \X Years
    BY DEF CallOK, Refusal
  <1>1. k \in Standing(c.span[1]) /\ k \in Kreise
    BY <1>0 DEF Requested, Sources, SheetOK, Standing
  <1>2. ~SharesRefused(c, k)
    BY DEF Refusal
  <1>3. ~Useless(c.sheet, k)
    BY <1>2 DEF SharesRefused, Useless
  <1>4. PICK top \in Tops : Scaled(c.span, c.sheet, k, top)
    BY <1>0, <1>1, <1>3 DEF SheetOK
  <1>5. ShareSum(c, k) = top
    BY <1>0, <1>1, <1>4, SharesAddUp DEF ShareSum
  <1>6. top # One + 2 * Tolerance
    <2> SUFFICES ASSUME top = One + 2 * Tolerance PROVE FALSE
      OBVIOUS
    <2>1. One \in Nat /\ Tolerance \in Nat /\ Tolerance > 0
      BY SharesDivide
    <2>2. OffBy(c, k) = 2 * Tolerance
      BY <1>5, <2>1 DEF OffBy
    <2>3. OffBy(c, k) > Tolerance
      BY <2>1, <2>2
    <2>4. QED
      BY <1>2, <2>3 DEF SharesRefused
  <1>7. top \in Used
    BY <1>6 DEF Tops, Used
  <1>8. QED
    BY <1>1, <1>4, <1>5, <1>7 DEF SourceOK

\* What is observed is the truth of its year, unless it is withheld.
LEMMA CellIsTrue ==
  ASSUME borders \in Histories, NEW c, CallOK(c), NEW k, NEW y, <<k, y>> \in Observed(c)
  PROVE  /\ k \in Kreise /\ y \in Years
         /\ Value(c, k, y) # Null => Value(c, k, y) = Unit * Cardinality(Held(y, k))
         /\ Value(c, k, y) = Null => c.cells[<<k, y>>].marker = "."
         /\ Unit * Cardinality(Held(y, k)) \in Nat
  <1> DEFINE o == <<k, y>>
  <1>1. PICK b \in BOOLEAN : c.cells[o] = Cell(k, y, b)
    BY DEF CallOK, Observed
  <1>2. k \in Kreise /\ y \in Years
    BY DEF CallOK, Observed
  <1>3. Cardinality(Held(y, k)) \in Nat /\ (Held(y, k) = {} => Cardinality(Held(y, k)) = 0)
    BY <1>2, Landholding, FS_EmptySet
  <1>4. Unit \in Nat
    BY SharesDivide
  <1>5. Unit * Cardinality(Held(y, k)) \in Nat
    BY <1>3, <1>4
  <1>6. Unit * Cardinality(Held(y, k)) # Null /\ 0 # Null
    BY <1>5, NullIsNoKreis
  <1>7. CASE k \notin Standing(y)
    <2>1. c.cells[o] = [value |-> 0, marker |-> "-"] /\ Held(y, k) = {}
      BY <1>1, <1>2, <1>7 DEF Cell, Standing
    <2>2. Unit * Cardinality(Held(y, k)) = 0
      BY <1>3, <1>4, <2>1
    <2>3. QED
      BY <1>2, <1>5, <1>6, <2>1, <2>2 DEF Value
  <1>8. CASE k \in Standing(y) /\ b
    <2>1. c.cells[o] = [value |-> Null, marker |-> "."]
      BY <1>1, <1>8 DEF Cell
    <2>2. Value(c, k, y) = Null /\ c.cells[o].marker = "."
      BY <2>1 DEF Value
    <2>3. QED
      BY <1>2, <1>5, <2>2
  <1>9. CASE k \in Standing(y) /\ ~b
    <2> DEFINE v == Unit * Cardinality(Held(y, k))
    <2>1. c.cells[o] = [value |-> v, marker |-> ""]
      BY <1>1, <1>9 DEF Cell
    <2>2. Value(c, k, y) = v
      <3> HIDE DEF v
      <3>1. \E sign : c.cells[o] = [value |-> v, marker |-> sign]
        BY <2>1, Zenon
      <3>2. QED
        BY <3>1 DEF Value
    <2>3. QED
      BY <1>2, <1>5, <1>6, <2>2
  <1>10. QED
    BY <1>7, <1>8, <1>9

\* A weighted value is exact.
LEMMA WeightIsExact ==
  ASSUME NEW c, NEW r, r.share \in Int, NEW n \in Nat, ShareSum(c, r.source) \in Used
  PROVE  LET top == ShareSum(c, r.source) IN
         /\ top \in Nat /\ top > 0 /\ Unit \div top \in Nat /\ (Unit \div top) * top = Unit
         /\ Weighted(c, r, Unit * n) = r.share * ((Unit \div top) * n)
  <1> DEFINE top == ShareSum(c, r.source)
  <1> DEFINE u == Unit \div top
  <1> DEFINE share == r.share
  <1>1. top \in Nat /\ top > 0 /\ Unit \in Nat /\ Unit % top = 0
    BY SharesDivide DEF Used
  <1> HIDE DEF top
  <1>2. u \in Nat /\ Unit = u * top
    BY <1>1, DivExact
  <1> HIDE DEF u
  <1>3. share * (Unit * n) = (share * (u * n)) * top
    BY <1>1, <1>2
  <1>4. share * (u * n) \in Int
    BY <1>2
  <1>5. (share * (Unit * n)) \div top = share * (u * n)
    <2> HIDE DEF share
    <2>1. QED
      BY <1>1, <1>3, <1>4, MulDiv
  <1>6. Weighted(c, r, Unit * n) = share * (u * n)
    BY <1>5 DEF Weighted, top
  <1>7. QED
    BY <1>1, <1>2, <1>6 DEF u, top

-----------------------------------------------------------------------------
\* The rows of a result

\* A result of the rebase, on borders that are known.
ResultOf(c) == borders \in Histories /\ CallOK(c) /\ Refusal(c) = "none"

LEMMA ResultBasics ==
  ASSUME NEW c, ResultOf(c)
  PROVE  /\ borders \in Histories /\ CallOK(c) /\ Refusal(c) = "none"
         /\ c.span \in Years \X Years /\ c.span[1] = From(c) /\ c.span[2] = To(c)
         /\ From(c) \in Years /\ To(c) \in Years /\ From(c) \in Int /\ To(c) \in Int /\ From(c) < To(c)
         /\ SheetOK(c.span, c.sheet)
         /\ Observed(c) \subseteq Kreise \X Years
         /\ borders[From(c)] \in [Atoms -> Kreise] /\ borders[To(c)] \in [Atoms -> Kreise]
         /\ Sources(c) \subseteq Kreise /\ Targets(c) \subseteq Kreise
  <1>1. c.sheet # {}
    BY DEF ResultOf, Refusal
  <1>2. SheetOK(c.span, c.sheet)
    BY <1>1 DEF ResultOf, CallOK
  <1>3. Sources(c) \subseteq Kreise /\ Targets(c) \subseteq Kreise
    BY <1>2 DEF SheetOK, Sources, Targets, Standing
  <1>4. c.span \in Years \X Years /\ c.span[1] \in Int /\ c.span[2] \in Int /\ c.span[1] < c.span[2]
        /\ Observed(c) \subseteq Kreise \X Years
    BY DEF ResultOf, CallOK, Observed
  <1>5. QED
    BY <1>2, <1>3, <1>4, HistoriesAreBorders DEF ResultOf, From, To

\* One part of what is moved into t: a row of a source that passed the check.
PartOK(c, t, y, r) ==
    /\ r.source \in Requested(c) /\ <<r.source, y>> \in Observed(c) /\ r.source \in Kreise
    /\ r.target = t /\ r.share # 0 /\ r \in c.sheet /\ t \in Kreise /\ r.share \in Int
    /\ SourceOK(c, r.source, ShareSum(c, r.source))
    /\ r = ScaledRow(c.span, r.source, t, ShareSum(c, r.source))
    /\ Moved(c.span, r.source, t) # {}

LEMMA PartIsSound ==
  ASSUME NEW c, ResultOf(c), NEW t, NEW y \in Years, y <= From(c), NEW r \in Parts(c, t, y)
  PROVE  PartOK(c, t, y, r)
  <1>1. r \in c.sheet /\ r.share # 0 /\ r.target = t /\ <<r.source, y>> \in Observed(c)
    BY DEF Parts, Moving
  <1>2. r.source \in Requested(c)
    BY <1>1 DEF Requested, Sources
  <1>3. PICK top \in Used : SourceOK(c, r.source, top)
    BY <1>2, ResultBasics, RequestedIsSound
  <1>4. top = ShareSum(c, r.source) /\ r.source \in Kreise
    BY <1>3 DEF SourceOK
  <1>5. r \in ScaledRows(c.span, r.source, top)
    BY <1>1, <1>3 DEF SourceOK, Scaled, Moving
  <1>6. PICK s \in Heirs(c.span, r.source) : r = ScaledRow(c.span, r.source, s, top)
    BY <1>5 DEF ScaledRows
  <1>7. s = t
    BY <1>1, <1>6, RowFields
  <1>8. t \in Kreise /\ Moved(c.span, r.source, t) # {}
    BY <1>6, <1>7 DEF Heirs
  <1>9. r.share \in Int
    BY <1>1, ResultBasics DEF SheetOK
  <1>10. QED
    BY <1>1, <1>2, <1>3, <1>4, <1>6, <1>7, <1>8, <1>9 DEF PartOK

\* Two parts of one source are one.
LEMMA PartsBySource ==
  ASSUME NEW c, ResultOf(c), NEW t, NEW y \in Years, y <= From(c),
         NEW r \in Parts(c, t, y), NEW s \in Parts(c, t, y), r.source = s.source
  PROVE  r = s
  <1>1. PartOK(c, t, y, r) /\ PartOK(c, t, y, s)
    BY PartIsSound
  <1>2. r = ScaledRow(c.span, r.source, t, ShareSum(c, r.source))
    BY <1>1, Zenon DEF PartOK
  <1>3. s = ScaledRow(c.span, s.source, t, ShareSum(c, s.source))
    BY <1>1, Zenon DEF PartOK
  <1>4. QED
    BY <1>2, <1>3, Zenon

LEMMA PartsAreFinite ==
  ASSUME NEW c, ResultOf(c), NEW t, NEW y
  PROVE  IsFiniteSet(Parts(c, t, y)) /\ IsFiniteSet(c.sheet)
  <1>1. IsFiniteSet(c.sheet) /\ Parts(c, t, y) \in SUBSET c.sheet
    BY ResultBasics DEF SheetOK, Parts, Moving
  <1>2. QED
    BY <1>1, FS_Subset

\* Whoever moved an Atom into t is one of its feeders.
LEMMA FeedersHaveMoved ==
  ASSUME NEW c, ResultOf(c), NEW t \in Kreise, NEW a \in Held(To(c), t)
  PROVE  borders[From(c)][a] \in Feeders(c, t)
  <1> DEFINE j == borders[From(c)][a]
  <1>1. a \in Atoms /\ j \in Kreise
    BY ResultBasics DEF Held
  <1>2. a \in Moved(c.span, j, t)
    BY <1>1, ResultBasics DEF Moved, Held
  <1> HIDE DEF j
  <1>3. \E r \in c.sheet : r.source = j /\ r.target = t /\ r.share # 0
    <2>1. SheetOK(c.span, c.sheet) /\ Moved(c.span, j, t) # {}
      BY <1>2, ResultBasics
    <2>2. QED
      BY <1>1, <2>1 DEF SheetOK
  <1>4. QED
    BY <1>3 DEF Feeders, Moving, j

\* What a part of a source with a value weighs, the source having top for the sum of its shares.
WeightOK(c, y, r, top) ==
    /\ top \in Used /\ top \in Nat /\ top > 0 /\ Unit \div top \in Nat /\ (Unit \div top) * top = Unit
    /\ Cardinality(Held(y, r.source)) \in Nat
    /\ Value(c, r.source, y) = Unit * Cardinality(Held(y, r.source))
    /\ Weighted(c, r, Value(c, r.source, y))
         = r.share * ((Unit \div top) * Cardinality(Held(y, r.source)))
    /\ Weighted(c, r, Value(c, r.source, y)) \in Int

LEMMA PartWeight ==
  ASSUME NEW c, ResultOf(c), NEW t, NEW y \in Years, y <= From(c), NEW r \in Parts(c, t, y),
         Value(c, r.source, y) # Null
  PROVE  WeightOK(c, y, r, ShareSum(c, r.source))
  <1> DEFINE top == ShareSum(c, r.source)
  <1> DEFINE n == Cardinality(Held(y, r.source))
  <1>1. r.share \in Int /\ top \in Used /\ <<r.source, y>> \in Observed(c)
    BY PartIsSound DEF PartOK, SourceOK
  <1>2. Value(c, r.source, y) = Unit * n
    BY <1>1, CellIsTrue, ResultBasics
  <1>3. n \in Nat
    BY Landholding, ResultBasics
  <1> HIDE DEF n
  <1>4. /\ top \in Nat /\ top > 0 /\ Unit \div top \in Nat /\ (Unit \div top) * top = Unit
        /\ Weighted(c, r, Unit * n) = r.share * ((Unit \div top) * n)
    BY <1>1, <1>3, WeightIsExact
  <1>5. r.share * ((Unit \div top) * n) \in Int
    BY <1>1, <1>3, <1>4
  <1>6. Weighted(c, r, Value(c, r.source, y)) = Weighted(c, r, Unit * n)
    BY <1>2, Zenon
  <1> HIDE DEF top
  <1>7. QED
    BY <1>1, <1>2, <1>3, <1>4, <1>5, <1>6 DEF n, top, WeightOK

\* What a part brings of a source that still had its territory of the last year before.
LEMMA PartIsTrue ==
  ASSUME NEW c, ResultOf(c), NEW t, NEW y \in Years, y <= From(c), NEW r \in Parts(c, t, y),
         Value(c, r.source, y) # Null, Held(y, r.source) = Held(From(c), r.source)
  PROVE  Weighted(c, r, Value(c, r.source, y)) = Unit * Cardinality(Moved(c.span, r.source, t))
  <1> DEFINE k == r.source
  <1> DEFINE top == ShareSum(c, k)
  <1> DEFINE n == Cardinality(Held(From(c), k))
  <1> DEFINE m == Cardinality(Moved(c.span, k, t))
  <1> DEFINE w == top \div n
  <1> DEFINE u == Unit \div top
  <1>0. PartOK(c, t, y, r) /\ c.span[1] = From(c)
    BY PartIsSound, ResultBasics
  <1>1. r.share = m * w
    <2>1. r = ScaledRow(c.span, k, t, top)
      BY <1>0, Zenon DEF PartOK
    <2>2. QED
      BY <1>0, <2>1 DEF ScaledRow
  <1>2. Held(From(c), k) # {} /\ top \in Tops /\ m \in Nat
    <2>1. Moved(c.span, k, t) # {} /\ top \in Tops
      BY <1>0 DEF PartOK, SourceOK, Used, Tops
    <2>2. Held(From(c), k) # {}
      BY <2>1, ResultBasics DEF Moved
    <2>3. m \in Nat
      BY <2>1, ResultBasics, MovedIsPositive
    <2>4. QED
      BY <2>1, <2>2, <2>3
  <1>3. w \in Nat /\ w * n = top /\ n \in Nat
    BY <1>2, SharePerAtom, Landholding, ResultBasics
  <1>4. /\ u \in Nat /\ u * top = Unit
        /\ Weighted(c, r, Value(c, k, y)) = r.share * (u * Cardinality(Held(y, k)))
    BY PartWeight DEF WeightOK
  <1>5. Cardinality(Held(y, k)) = n
    OBVIOUS
  <1> HIDE DEF k, top, n, m, w, u
  <1>6. Weighted(c, r, Value(c, k, y)) = (m * w) * (u * n)
    BY <1>1, <1>4, <1>5
  <1>7. (m * w) * (u * n) = m * (u * (w * n))
    BY <1>2, <1>3, <1>4
  <1>8. m * (u * (w * n)) = Unit * m
    BY <1>2, <1>3, <1>4
  <1>9. QED
    BY <1>6, <1>7, <1>8 DEF k, m

\* What is added up for t in a year.
Weights(c, t, y) == [r \in Parts(c, t, y) |-> Weighted(c, r, Value(c, r.source, y))]

LEMMA WeightsAreInts ==
  ASSUME NEW c, ResultOf(c), NEW t, NEW y \in Years, y <= From(c), Nulls(c, t, y) = {}
  PROVE  /\ IsFiniteSet(Parts(c, t, y))
         /\ \A r \in Parts(c, t, y) : Weights(c, t, y)[r] \in Int /\ Value(c, r.source, y) # Null
         /\ SumFunction(Weights(c, t, y)) = SumFunctionOnSet(Weights(c, t, y), Parts(c, t, y))
         /\ SumFunction(Weights(c, t, y)) \in Int
  <1> DEFINE f == Weights(c, t, y)
  <1>1. IsFiniteSet(Parts(c, t, y))
    BY PartsAreFinite
  <1>2. ASSUME NEW r \in Parts(c, t, y)
        PROVE  f[r] \in Int /\ Value(c, r.source, y) # Null
    <2>1. Value(c, r.source, y) # Null
      BY DEF Nulls
    <2>2. WeightOK(c, y, r, ShareSum(c, r.source))
      BY <2>1, PartWeight
    <2>3. Weighted(c, r, Value(c, r.source, y)) \in Int
      BY <2>2, Zenon DEF WeightOK
    <2>4. f[r] = Weighted(c, r, Value(c, r.source, y))
      BY DEF Weights
    <2>5. QED
      BY <2>1, <2>3, <2>4
  <1>3. SumFunction(f) = SumFunctionOnSet(f, Parts(c, t, y))
    BY DEF SumFunction, Weights
  <1> HIDE DEF f
  <1>4. SumFunctionOnSet(f, Parts(c, t, y)) \in Int
    BY <1>1, <1>2, SumBasics
  <1>5. QED
    BY <1>1, <1>2, <1>3, <1>4 DEF f

\* A sum over all feeders, each with the territory it had before the reform, is the truth.
LEMMA SumIsTrue ==
  ASSUME NEW c, ResultOf(c), NEW t \in Kreise, NEW y \in Years, y <= From(c),
         Nulls(c, t, y) = {}, Missing(c, t, y) = {},
         \A r \in Parts(c, t, y) : Held(y, r.source) = Held(From(c), r.source)
  PROVE  SumFunction(Weights(c, t, y)) = Unit * Cardinality(Held(To(c), t))
  <1> DEFINE P == Parts(c, t, y)
  <1> DEFINE f == Weights(c, t, y)
  <1> DEFINE F == Feeders(c, t)
  <1> DEFINE H == Held(To(c), t)
  <1> DEFINE p == borders[From(c)]
  <1> DEFINE m == [k \in F |-> Cardinality(Class(H, p, k))]
  <1> DEFINE e == [k \in F |-> Unit * m[k]]
  <1> DEFINE h == [r \in P |-> r.source]
  <1>1. IsFiniteSet(P) /\ SumFunction(f) = SumFunctionOnSet(f, P)
        /\ \A r \in P : f[r] \in Int /\ Value(c, r.source, y) # Null
    BY WeightsAreInts
  <1>2. IsFiniteSet(H) /\ H \subseteq Atoms /\ Unit \in Nat /\ p \in [Atoms -> Kreise]
    BY Landholding, ResultBasics, SharesDivide
  <1>3. ASSUME NEW k
        PROVE  Class(H, p, k) = Moved(c.span, k, t)
    BY ResultBasics DEF Class, Moved, Held
  <1>4. ASSUME NEW r \in P
        PROVE  r.source \in F /\ f[r] = Unit * m[r.source]
    <2>1. PartOK(c, t, y, r)
      BY PartIsSound
    <2>2. r.source \in F
      BY <2>1 DEF PartOK, Feeders, Moving
    <2>3. f[r] = Weighted(c, r, Value(c, r.source, y))
      BY DEF Weights
    <2>4. Weighted(c, r, Value(c, r.source, y)) = Unit * Cardinality(Moved(c.span, r.source, t))
      BY <1>1, PartIsTrue
    <2>5. m[r.source] = Cardinality(Moved(c.span, r.source, t))
      BY <1>3, <2>2
    <2>6. QED
      BY <2>2, <2>3, <2>4, <2>5
  <1>5. \A k \in F : \E r \in P : h[r] = k
    BY DEF Missing
  <1>6. \A r, s \in P : h[r] = h[s] => r = s
    <2> SUFFICES ASSUME NEW r \in P, NEW s \in P, r.source = s.source PROVE r = s
      OBVIOUS
    <2>1. QED
      BY PartsBySource
  <1>7. \A k \in F : e[k] = Unit * m[k] /\ m[k] = Cardinality(Class(H, p, k)) /\ m[k] \in Int
    <2> SUFFICES ASSUME NEW k \in F
                 PROVE  m[k] = Cardinality(Class(H, p, k)) /\ m[k] \in Int
      OBVIOUS
    <2>1. Class(H, p, k) \in SUBSET H
      BY DEF Class
    <2>2. Cardinality(Class(H, p, k)) \in Nat
      BY <1>2, <2>1, FS_Subset, FS_CardinalityType
    <2>3. QED
      BY <2>2
  <1>8. h \in [P -> F] /\ \A r \in P : f[r] \in Int /\ e[h[r]] = f[r]
    BY <1>1, <1>4
  <1>9. \A a \in H : p[a] \in F
    BY FeedersHaveMoved
  <1> HIDE DEF P, f, F, H, p, m, e, h
  <1>10. IsFiniteSet(F)
    <2>1. Feeders(c, t) \subseteq Kreise
      BY ResultBasics DEF Feeders, Moving, Sources
    <2>2. QED
      BY <2>1, TerritoryIsFinite, FS_Subset DEF F
  <1>15. SumFunctionOnSet(e, F) = SumFunctionOnSet(f, P)
    <2>1. Renames(h, P, F)
      BY <1>5, <1>6, <1>8 DEF Renames
    <2>2. QED
      BY <1>1, <1>8, <2>1, SumByName
  <1>11. SumFunctionOnSet(e, F) = Unit * SumFunctionOnSet(m, F)
    BY <1>2, <1>7, <1>10, SumScale
  <1>12. SumFunctionOnSet(m, F) = Cardinality(H)
    BY <1>2, <1>7, <1>9, <1>10, CountByClass
  <1>13. SumFunction(f) = Unit * Cardinality(H)
    BY <1>1, <1>15, <1>11, <1>12
  <1>14. QED
    BY <1>13 DEF f, H

\* A value that is passed on, of a Kreis that nothing else moved into, is the truth.
LEMMA PassedOnIsTrue ==
  ASSUME NEW c, ResultOf(c), NEW t \in Kreise, NEW y \in Years, y <= From(c),
         PassesThrough(c, t, y), Value(c, t, y) # Null, Held(y, t) = Held(From(c), t)
  PROVE  Value(c, t, y) = Unit * Cardinality(Held(To(c), t))
  <1>1. PICK r \in Parts(c, t, y) : r.share = ShareSum(c, t)
    BY DEF PassesThrough
  <1>2. PartOK(c, t, y, r) /\ c.span[1] = From(c) /\ c.span[2] = To(c) /\ c.span \in Years \X Years
    BY PartIsSound, ResultBasics
  <1>3. Feeders(c, t) = {t}
    BY DEF PassesThrough
  <1>4. r.source = t
    BY <1>2, <1>3 DEF PartOK, Feeders, Moving
  <1> DEFINE top == ShareSum(c, t)
  <1> DEFINE H == Held(From(c), t)
  <1> DEFINE n == Cardinality(H)
  <1> DEFINE m == Cardinality(Moved(c.span, t, t))
  <1> DEFINE w == top \div n
  <1>5. r.share = m * w
    <2>1. r = ScaledRow(c.span, t, t, top)
      BY <1>2, <1>4, Zenon DEF PartOK
    <2>2. QED
      BY <1>2, <2>1 DEF ScaledRow
  <1>6. top \in Tops /\ Moved(c.span, t, t) # {}
    BY <1>2, <1>4 DEF PartOK, SourceOK, Used, Tops
  <1>7. Moved(c.span, t, t) \in SUBSET H /\ H # {} /\ IsFiniteSet(H) /\ n \in Nat
    BY <1>2, <1>6, Landholding, ResultBasics DEF Moved
  <1>8. w \in Nat \ {0} /\ w * n = top /\ m \in Nat
    BY <1>2, <1>6, <1>7, SharePerAtom, MovedIsPositive, ResultBasics
  <1> HIDE DEF w, n, m, top
  <1>9. m = n
    <2>1. m * w = n * w
      BY <1>1, <1>5, <1>7, <1>8 DEF top
    <2>2. QED
      BY <1>7, <1>8, <2>1, Cancel
  <1>10. Moved(c.span, t, t) = H
    BY <1>7, <1>9, FS_Subset DEF m, n
  <1>11. H \subseteq Held(To(c), t)
    BY <1>2, <1>10 DEF Moved
  <1>12. Held(To(c), t) \subseteq H
    <2> SUFFICES ASSUME NEW a \in Held(To(c), t) PROVE a \in H
      OBVIOUS
    <2>1. borders[From(c)][a] = t
      BY <1>3, FeedersHaveMoved
    <2>2. a \in Atoms
      BY DEF Held
    <2>3. QED
      BY <2>1, <2>2 DEF Held
  <1>13. Held(To(c), t) = Held(y, t)
    BY <1>11, <1>12
  <1>14. Value(c, t, y) = Unit * Cardinality(Held(y, t))
    <2>1. <<t, y>> \in Observed(c)
      BY <1>2, <1>4 DEF PartOK
    <2>2. QED
      BY <2>1, CellIsTrue, ResultBasics
  <1>15. QED
    BY <1>13, <1>14, Zenon

-----------------------------------------------------------------------------
\* Values are true

\* Where a row comes from: it is on the target borders as it is, it is passed on, or it is
\* summed up.
LaterRow(c, row, k, y) ==
    /\ k \in Targets(c) /\ k \in Kreise /\ y \in Years /\ To(c) <= y /\ <<k, y>> \in Observed(c)
    /\ row = ObservedRow(c, k, y)
PassedRow(c, row, t, y) ==
    /\ t \in Kreise /\ y \in Years /\ y <= From(c) /\ <<t, y>> \in Answered(c)
    /\ PassesThrough(c, t, y) /\ row = ObservedRow(c, t, y)
SummedRow(c, row, t, y) ==
    /\ t \in Kreise /\ y \in Years /\ y <= From(c) /\ <<t, y>> \in Answered(c)
    /\ ~PassesThrough(c, t, y) /\ row = RebasedRow(c, t, y)

LEMMA RowOrigin ==
  ASSUME NEW c, ResultOf(c), NEW row \in Rows(c)
  PROVE  \E k, y : LaterRow(c, row, k, y) \/ PassedRow(c, row, k, y) \/ SummedRow(c, row, k, y)
  <1>1. CASE \E o \in Later(c) : row = ObservedRow(c, o[1], o[2])
    <2>1. PICK o \in Later(c) : row = ObservedRow(c, o[1], o[2])
      BY <1>1
    <2>2. o \in Kreise \X Years /\ o = <<o[1], o[2]>> /\ o[2] >= To(c) /\ o[1] \in Targets(c) /\ o \in Observed(c)
      BY <2>1, ResultBasics DEF Later
    <2>3. o[2] \in Int /\ To(c) \in Int
      BY <2>2, ResultBasics, YearsAreInts
    <2>4. LaterRow(c, row, o[1], o[2])
      BY <2>1, <2>2, <2>3 DEF LaterRow
    <2>5. QED
      BY <2>4
  <1>2. CASE \E p \in Answered(c) :
               row = IF PassesThrough(c, p[1], p[2]) THEN ObservedRow(c, p[1], p[2])
                                                     ELSE RebasedRow(c, p[1], p[2])
    <2>1. PICK p \in Answered(c) :
               row = IF PassesThrough(c, p[1], p[2]) THEN ObservedRow(c, p[1], p[2])
                                                     ELSE RebasedRow(c, p[1], p[2])
      BY <1>2
    <2>2. p \in Reached(c)
      BY <2>1 DEF Answered
    <2>3. p = <<p[1], p[2]>> /\ p[1] \in Targets(c) /\ p[2] \in Years /\ p[2] <= From(c)
      BY <2>2 DEF Reached
    <2>4. p[1] \in Kreise
      BY <2>3, ResultBasics
    <2>5. CASE PassesThrough(c, p[1], p[2])
      <3>1. PassedRow(c, row, p[1], p[2])
        BY <2>1, <2>3, <2>4, <2>5 DEF PassedRow
      <3>2. QED
        BY <3>1
    <2>6. CASE ~PassesThrough(c, p[1], p[2])
      <3>1. SummedRow(c, row, p[1], p[2])
        BY <2>1, <2>3, <2>4, <2>6 DEF SummedRow
      <3>2. QED
        BY <3>1
    <2>7. QED
      BY <2>5, <2>6
  <1>3. QED
    BY <1>1, <1>2 DEF Rows

\* What a row on the target borders says of its Kreis.
LEMMA LaterIsTrue ==
  ASSUME NEW c, ResultOf(c), NEW row, NEW k, NEW y, LaterRow(c, row, k, y),
         Verified(c, k, To(c), y), row.value # Null
  PROVE  row.value = Unit * Cardinality(Held(To(c), row.key))
  <1>1. k \in Targets(c) /\ k \in Kreise /\ y \in Years /\ To(c) <= y /\ <<k, y>> \in Observed(c)
        /\ row.key = k /\ row.value = Value(c, k, y)
    BY DEF LaterRow, ObservedRow, Row
  <1>2. ~(y <= From(c)) /\ y \in Int
    BY <1>1, ResultBasics, YearsAreInts
  <1>3. y \in KeyYears(c, k)
    BY <1>1, <1>2 DEF KeyYears, Valid
  <1>4. Held(y, k) = Held(To(c), k)
    BY <1>1, <1>3, SteadyAfter, ResultBasics
  <1>5. Value(c, k, y) = Unit * Cardinality(Held(y, k))
    BY <1>1, CellIsTrue, ResultBasics
  <1>6. QED
    BY <1>1, <1>4, <1>5, Zenon

\* A source that an unbroken row of sheets shows to be unchanged before the reform.
LEMMA SourceIsSteady ==
  ASSUME NEW c, ResultOf(c), NEW t, NEW y \in Years, y <= From(c), NEW r \in Parts(c, t, y),
         Verified(c, r.source, y, From(c))
  PROVE  Held(y, r.source) = Held(From(c), r.source)
  <1>1. PartOK(c, t, y, r)
    BY PartIsSound
  <1>2. r.source \in Sources(c) /\ <<r.source, y>> \in Observed(c) /\ r.source \in Kreise
    BY <1>1 DEF PartOK, Sources
  <1>3. y \in KeyYears(c, r.source)
    BY <1>2 DEF KeyYears, Valid
  <1>4. QED
    BY <1>2, <1>3, SteadyBefore, ResultBasics

LEMMA PassedIsTrue ==
  ASSUME NEW c, ResultOf(c), NEW row, NEW t, NEW y, PassedRow(c, row, t, y),
         Verified(c, t, y, From(c)), row.value # Null
  PROVE  row.value = Unit * Cardinality(Held(To(c), row.key))
  <1>1. t \in Kreise /\ y \in Years /\ y <= From(c) /\ PassesThrough(c, t, y)
        /\ row.key = t /\ row.value = Value(c, t, y)
    BY DEF PassedRow, ObservedRow, Row
  <1>2. PICK r \in Parts(c, t, y) : r.share = ShareSum(c, t)
    BY <1>1 DEF PassesThrough
  <1>3. r.source = t
    <2>1. PartOK(c, t, y, r) /\ Feeders(c, t) = {t}
      BY <1>1, PartIsSound DEF PassesThrough
    <2>2. QED
      BY <2>1 DEF PartOK, Feeders, Moving
  <1>4. Held(y, t) = Held(From(c), t)
    BY <1>1, <1>3, SourceIsSteady
  <1>5. Value(c, t, y) = Unit * Cardinality(Held(To(c), t))
    BY <1>1, <1>4, PassedOnIsTrue
  <1>6. QED
    BY <1>1, <1>5, Zenon

LEMMA SummedIsTrue ==
  ASSUME NEW c, ResultOf(c), NEW row, NEW t, NEW y, SummedRow(c, row, t, y),
         \A k \in row.sources : Verified(c, k, y, From(c)), row.value # Null
  PROVE  row.value = Unit * Cardinality(Held(To(c), row.key))
  <1>1. t \in Kreise /\ y \in Years /\ y <= From(c) /\ row.key = t
        /\ row.sources = {r.source : r \in Parts(c, t, y)}
        /\ row.value = IF Nulls(c, t, y) = {} /\ Missing(c, t, y) = {}
                       THEN SumFunction(Weights(c, t, y)) ELSE Null
    BY DEF SummedRow, RebasedRow, Row, Weights
  <1>2. Nulls(c, t, y) = {} /\ Missing(c, t, y) = {} /\ row.value = SumFunction(Weights(c, t, y))
    BY <1>1
  <1>3. \A r \in Parts(c, t, y) : Held(y, r.source) = Held(From(c), r.source)
    BY <1>1, SourceIsSteady
  <1>4. SumFunction(Weights(c, t, y)) = Unit * Cardinality(Held(To(c), t))
    BY <1>1, <1>2, <1>3, SumIsTrue
  <1>5. QED
    BY <1>1, <1>2, <1>4, Zenon

\* A row that nothing casts doubt on has its Kreise verified.
LEMMA NoDoubt ==
  ASSUME answer.issues = Issues(call), NEW row, Doubts(row) = {},
         NEW k \in row.sources \cup {row.key}
  PROVE  /\ row.year <= From(call) => Verified(call, k, row.year, From(call))
         /\ ~(row.year <= From(call)) => Verified(call, k, To(call), row.year)
  BY DEF Doubts, Verified

LEMMA ResultNow ==
  ASSUME IInv, answer # Null, NEW row \in answer.rows
  PROVE  ResultOf(call) /\ row \in Rows(call) /\ answer.issues = Issues(call)
  BY DEF IInv, AnswerOK, ResultOf

\* A value that no issue casts doubt on is what the Kreis has on the target borders
\* (rebase.py 153-447), for every history of the borders and every amount of territory:
\* re-based, passed on or taken over as it is, and whatever is wrong with the rows of
\* other Kreise.
THEOREM ValuesAreTrue == Spec => []TrueOnTargetBorders
  <1>1. ASSUME IInv PROVE TrueOnTargetBorders
    <2> SUFFICES ASSUME answer # Null, NEW row \in answer.rows, row.value # Null, Doubts(row) = {}
                 PROVE  row.value = Unit * Cardinality(Held(To(call), row.key))
      BY DEF TrueOnTargetBorders
    <2>1. ResultOf(call) /\ row \in Rows(call) /\ answer.issues = Issues(call)
      BY <1>1, ResultNow
    <2>2. PICK k, y : LaterRow(call, row, k, y) \/ PassedRow(call, row, k, y) \/ SummedRow(call, row, k, y)
      BY <2>1, RowOrigin
    <2>3. CASE LaterRow(call, row, k, y)
      <3>1. row.key = k /\ row.year = y /\ y \in Years /\ To(call) <= y
        BY <2>3 DEF LaterRow, ObservedRow, Row
      <3>2. ~(y <= From(call))
        BY <2>1, <3>1, ResultBasics, YearsAreInts
      <3>3. Verified(call, k, To(call), y)
        BY <2>1, <3>1, <3>2, NoDoubt
      <3>4. QED
        BY <2>1, <2>3, <3>3, LaterIsTrue
    <2>4. CASE PassedRow(call, row, k, y)
      <3>1. row.key = k /\ row.year = y /\ y <= From(call)
        BY <2>4 DEF PassedRow, ObservedRow, Row
      <3>2. Verified(call, k, y, From(call))
        BY <2>1, <3>1, NoDoubt
      <3>3. QED
        BY <2>1, <2>4, <3>2, PassedIsTrue
    <2>5. CASE SummedRow(call, row, k, y)
      <3>1. row.year = y /\ y <= From(call)
        BY <2>5 DEF SummedRow, RebasedRow, Row
      <3>2. \A s \in row.sources : Verified(call, s, y, From(call))
        BY <2>1, <3>1, NoDoubt
      <3>3. QED
        BY <2>1, <2>5, <3>2, SummedIsTrue
    <2>6. QED
      BY <2>2, <2>3, <2>4, <2>5
  <1>2. QED
    BY <1>1, RebaseInit, RebaseNext, PTL DEF Spec

-----------------------------------------------------------------------------
\* Nothing is lost

\* A sum without a value says why: one of its sources is missing or has no value.
LEMMA NullIsExplained ==
  ASSUME NEW c, ResultOf(c), NEW row, NEW t, NEW y, SummedRow(c, row, t, y), row.value = Null
  PROVE  \E i \in RowIssues(c, t, y) :
            i.kind \in {"missing_source", "null_input"} /\ i.target = t /\ i.year = y
  <1>1. t \in Kreise /\ y \in Years /\ y <= From(c) /\ ~PassesThrough(c, t, y)
        /\ row.value = IF Nulls(c, t, y) = {} /\ Missing(c, t, y) = {}
                       THEN SumFunction(Weights(c, t, y)) ELSE Null
    BY DEF SummedRow, RebasedRow, Row, Weights
  <1>2. Nulls(c, t, y) # {} \/ Missing(c, t, y) # {}
    <2> SUFFICES ASSUME Nulls(c, t, y) = {}, Missing(c, t, y) = {} PROVE FALSE
      OBVIOUS
    <2>1. SumFunction(Weights(c, t, y)) \in Int
      BY <1>1, WeightsAreInts
    <2>2. QED
      BY <1>1, <2>1, NullIsNoKreis
  <1>3. CASE Missing(c, t, y) # {}
    <2>1. PICK k \in Missing(c, t, y) : TRUE
      BY <1>3
    <2>2. Issue("missing_source", k, y, t) \in RowIssues(c, t, y)
      BY <2>1 DEF RowIssues
    <2>3. QED
      BY <2>2 DEF Issue
  <1>4. CASE Nulls(c, t, y) # {}
    <2>1. PICK r \in Nulls(c, t, y) : TRUE
      BY <1>4
    <2>2. Issue("null_input", r.source, y, t) \in RowIssues(c, t, y)
      BY <1>1, <2>1 DEF RowIssues
    <2>3. QED
      BY <2>2 DEF Issue
  <1>5. QED
    BY <1>2, <1>3, <1>4

\* An observed row without a value has the sign of a withheld one.
LEMMA ObservedIsSigned ==
  ASSUME NEW c, ResultOf(c), NEW row, NEW k, NEW y, LaterRow(c, row, k, y) \/ PassedRow(c, row, k, y),
         row.value = Null
  PROVE  row.marker = "."
  <1>1. row.value = Value(c, k, y) /\ row.marker = c.cells[<<k, y>>].marker
    BY DEF LaterRow, PassedRow, ObservedRow, Row
  <1>2. <<k, y>> \in Observed(c)
    <2>1. CASE LaterRow(c, row, k, y)
      BY <2>1 DEF LaterRow
    <2>2. CASE PassedRow(c, row, k, y)
      <3>1. Feeders(c, k) = {k} /\ Missing(c, k, y) = {}
        BY <2>2 DEF PassedRow, PassesThrough
      <3>2. QED
        BY <3>1 DEF Missing, Parts
    <2>3. QED
      BY <2>1, <2>2
  <1>3. c.cells[<<k, y>>].marker = "."
    BY <1>1, <1>2, CellIsTrue, ResultBasics
  <1>4. QED
    BY <1>1, <1>3

\* Every Kreis with observations moves something, into a Kreis of the target borders.
LEMMA SourceHasPart ==
  ASSUME NEW c, ResultOf(c), NEW k, NEW y \in Years, y <= From(c), <<k, y>> \in Observed(c), k \in Sources(c)
  PROVE  \E t : t \in Kreise /\ <<t, y>> \in Reached(c) /\ k \in Feeders(c, t)
                /\ \E r \in Parts(c, t, y) : r.source = k
  <1>1. k \in Requested(c)
    BY DEF Requested
  <1>2. PICK top \in Used : SourceOK(c, k, top)
    BY <1>1, RequestedIsSound, ResultBasics
  <1>3. PICK a \in Atoms : borders[From(c)][a] = k
    BY <1>2, ResultBasics DEF SourceOK, Standing, Held
  <1> DEFINE t == borders[To(c)][a]
  <1>4. t \in Kreise
    BY ResultBasics
  <1>5. a \in Moved(c.span, k, t)
    BY <1>3, ResultBasics DEF Moved, Held
  <1> HIDE DEF t
  <1> DEFINE r == ScaledRow(c.span, k, t, top)
  <1>6. r \in Moving({q \in c.sheet : q.source = k})
    BY <1>2, <1>4, <1>5 DEF SourceOK, Scaled, ScaledRows, Heirs
  <1>7. r.source = k /\ r.target = t
    BY RowFields
  <1> HIDE DEF r
  <1>8. r \in Moving(c.sheet) /\ r \in c.sheet /\ r \in Moving({q \in c.sheet : q.target = t})
    BY <1>6, <1>7 DEF Moving
  <1>9. r \in Parts(c, t, y) /\ t \in Targets(c) /\ k \in Feeders(c, t)
    BY <1>7, <1>8 DEF Parts, Targets, Feeders
  <1>10. <<t, y>> \in Reached(c)
    BY <1>9 DEF Reached
  <1>11. QED
    BY <1>4, <1>7, <1>9, <1>10

\* The row that t is given for a year.
LEMMA AnsweredRow ==
  ASSUME NEW c, NEW t, NEW y, <<t, y>> \in Answered(c)
  PROVE  \E row \in Rows(c) :
            /\ row.year = y /\ row.key = t
            /\ Feeders(c, t) = {t} \/ row.sources = {r.source : r \in Parts(c, t, y)}
  <1> DEFINE row == IF PassesThrough(c, t, y) THEN ObservedRow(c, t, y) ELSE RebasedRow(c, t, y)
  <1>1. row \in Rows(c)
    BY DEF Rows
  <1>2. CASE PassesThrough(c, t, y)
    <2>1. row.year = y /\ row.key = t /\ Feeders(c, t) = {t}
      BY <1>2 DEF ObservedRow, Row, PassesThrough
    <2>2. QED
      BY <1>1, <2>1
  <1>3. CASE ~PassesThrough(c, t, y)
    <2>1. row.year = y /\ row.key = t /\ row.sources = {r.source : r \in Parts(c, t, y)}
      BY <1>3 DEF RebasedRow, Row
    <2>2. QED
      BY <1>1, <2>1
  <1>4. QED
    BY <1>2, <1>3

\* What becomes of a cell.
Kept(c, k, y) ==
    \/ \E row \in Rows(c) : row.year = y /\ k \in row.sources \cup {row.key}
    \/ \E i \in Issues(c) : i.key = k /\ i.year = y
    \/ <<k, y>> \in Unmatched(c) /\ c.unmatched = "drop"
    \/ /\ c.incomplete = "drop"
       /\ \E p \in Incomplete(c) : p[2] = y /\ k \in Feeders(c, p[1])

LEMMA CellIsKept ==
  ASSUME NEW c, ResultOf(c), NEW k, NEW y, <<k, y>> \in Observed(c)
  PROVE  Kept(c, k, y)
  <1>0. k \in Kreise /\ y \in Years
    BY ResultBasics
  <1>1. CASE k \notin Valid(c, y) \cup Other(c, y)
    <2>1. <<k, y>> \in Unmatched(c)
      BY <1>1 DEF Unmatched
    <2>2. c.unmatched # "raise" /\ c.unmatched \in AllPolicies
      BY <2>1, ResultBasics DEF Refusal, CallOK
    <2>3. CASE c.unmatched = "drop"
      BY <2>1, <2>3 DEF Kept
    <2>4. CASE c.unmatched = "flag"
      <3>1. Issue("unmatched", k, y, Null) \in Issues(c)
        BY <2>1, <2>4 DEF Issues
      <3>2. QED
        BY <3>1 DEF Kept, Issue
    <2>5. QED
      BY <2>2, <2>3, <2>4 DEF AllPolicies
  <1>2. CASE k \in Other(c, y) \ Valid(c, y)
    <2>1. <<k, y>> \in Excluded(c)
      BY <1>2 DEF Excluded
    <2>2. Issue("not_applicable", k, y, Null) \in Issues(c)
      BY <2>1 DEF Issues, ExcludedIssues
    <2>3. QED
      BY <2>2 DEF Kept, Issue
  <1>3. CASE k \in Valid(c, y) /\ ~(y <= From(c))
    <2>1. k \in Targets(c)
      BY <1>3 DEF Valid
    <2>2. ~(From(c) < y /\ y < To(c))
      BY ResultBasics DEF Refusal
    <2>3. y >= To(c)
      BY <1>0, <1>3, <2>2, YearsAreInts, ResultBasics
    <2>4. <<k, y>> \in Later(c)
      BY <2>1, <2>3 DEF Later
    <2>5. ObservedRow(c, k, y) \in Rows(c)
      BY <2>4 DEF Rows
    <2>6. QED
      BY <2>5 DEF Kept, ObservedRow, Row
  <1>4. CASE k \in Valid(c, y) /\ y <= From(c)
    <2>1. PICK t : t \in Kreise /\ <<t, y>> \in Reached(c) /\ k \in Feeders(c, t)
                   /\ \E r \in Parts(c, t, y) : r.source = k
      BY <1>0, <1>4, SourceHasPart DEF Valid
    <2>2. CASE <<t, y>> \in Answered(c)
      <3>1. PICK row \in Rows(c) :
              /\ row.year = y /\ row.key = t
              /\ Feeders(c, t) = {t} \/ row.sources = {r.source : r \in Parts(c, t, y)}
        BY <2>2, AnsweredRow
      <3>2. k \in row.sources \cup {row.key}
        BY <2>1, <3>1
      <3>3. QED
        BY <3>1, <3>2 DEF Kept
    <2>3. CASE <<t, y>> \notin Answered(c)
      <3>1. c.incomplete = "drop" /\ <<t, y>> \in Incomplete(c)
        BY <2>1, <2>3 DEF Answered
      <3>2. QED
        BY <2>1, <3>1 DEF Kept
    <2>4. QED
      BY <2>2, <2>3
  <1>5. QED
    BY <1>1, <1>2, <1>3, <1>4

LEMMA IssuesOfRows ==
  ASSUME NEW c, NEW t, NEW y, <<t, y>> \in Answered(c), NEW i \in RowIssues(c, t, y)
  PROVE  i \in Issues(c)
  BY DEF Issues

\* Whatever the arithmetic could not use is reported as data (rebase.py 229-447): a row
\* without a value has the sign of a withheld one or an issue that names it, and every
\* cell of the table is in a row or in an issue, unless the caller had such cells dropped.
THEOREM EverythingAccountedFor == Spec => []NothingLost
  <1>1. ASSUME IInv PROVE NothingLost
    <2> SUFFICES ASSUME answer # Null, answer.outcome = "result" PROVE NothingLost
      BY DEF NothingLost
    <2>1. ResultOf(call) /\ answer.rows = Rows(call) /\ answer.issues = Issues(call)
      BY <1>1 DEF IInv, AnswerOK, ResultOf
    <2>2. ASSUME NEW row \in answer.rows, row.value = Null
          PROVE  \/ row.marker = "."
                 \/ \E i \in answer.issues :
                        /\ i.kind \in {"missing_source", "null_input"}
                        /\ i.target = row.key /\ i.year = row.year
      <3>1. PICK k, y : LaterRow(call, row, k, y) \/ PassedRow(call, row, k, y) \/ SummedRow(call, row, k, y)
        BY <2>1, RowOrigin
      <3>2. CASE SummedRow(call, row, k, y)
        <4>1. PICK i \in RowIssues(call, k, y) :
                i.kind \in {"missing_source", "null_input"} /\ i.target = k /\ i.year = y
          BY <2>1, <2>2, <3>2, NullIsExplained
        <4>2. i \in answer.issues
          BY <2>1, <3>2, <4>1, IssuesOfRows DEF SummedRow
        <4>3. row.key = k /\ row.year = y
          BY <3>2 DEF SummedRow, RebasedRow, Row
        <4>4. QED
          BY <4>1, <4>2, <4>3
      <3>3. CASE LaterRow(call, row, k, y) \/ PassedRow(call, row, k, y)
        BY <2>1, <2>2, <3>3, ObservedIsSigned
      <3>4. QED
        BY <3>1, <3>2, <3>3
    <2>3. ASSUME NEW o \in Observed(call)
          PROVE  \/ \E row \in answer.rows : row.year = o[2] /\ o[1] \in row.sources \cup {row.key}
                 \/ \E i \in answer.issues : i.key = o[1] /\ i.year = o[2]
                 \/ o \in Unmatched(call) /\ call.unmatched = "drop"
                 \/ /\ call.incomplete = "drop"
                    /\ \E p \in Incomplete(call) : p[2] = o[2] /\ o[1] \in Feeders(call, p[1])
      <3>1. o = <<o[1], o[2]>>
        BY <2>1, ResultBasics
      <3>2. Kept(call, o[1], o[2])
        BY <2>1, <3>1, CellIsKept
      <3>3. QED
        BY <2>1, <3>1, <3>2 DEF Kept
    <2>4. QED
      BY <2>2, <2>3 DEF NothingLost
  <1>2. QED
    BY <1>1, RebaseInit, RebaseNext, PTL DEF Spec

-----------------------------------------------------------------------------
\* Totals are conserved

\* What every row of k moves.
Given(c, k) == {r \in Moving(c.sheet) : r.source = k}

LEMMA GivenAddsUp ==
  ASSUME NEW c, ResultOf(c), NEW k
  PROVE  SumFunctionOnSet([r \in c.sheet |-> r.share], Given(c, k)) = ShareSum(c, k)
  <1> DEFINE f == [r \in c.sheet |-> r.share]
  <1> DEFINE own == {r \in c.sheet : r.source = k}
  <1> DEFINE e == [r \in own |-> r.share]
  <1> DEFINE M == Given(c, k)
  <1>1. IsFiniteSet(c.sheet) /\ \A r \in c.sheet : r.share \in Int
    BY ResultBasics DEF SheetOK
  <1>2. IsFiniteSet(own)
    BY <1>1, FS_Subset
  <1>3. ShareSum(c, k) = SumFunctionOnSet(e, own)
    BY DEF ShareSum, SumFunction
  <1>4. \A r \in own : f[r] \in Int /\ e[r] = f[r]
    BY <1>1
  <1>5. M \in SUBSET own /\ \A r \in {q \in own : q \notin M} : f[r] = 0
    BY DEF Given, Moving
  <1> HIDE DEF f, e, own, M
  <1>6. SumFunctionOnSet(e, own) = SumFunctionOnSet(f, own)
    BY <1>2, <1>4, SumAgree
  <1>7. SumFunctionOnSet(f, own) = SumFunctionOnSet(f, M)
    BY <1>2, <1>4, <1>5, SumWithoutZeros
  <1>8. QED
    BY <1>3, <1>6, <1>7 DEF f, M

\* All that a Kreis gives away is what was observed of it.
LEMMA GivenIsObserved ==
  ASSUME NEW c, ResultOf(c), NEW y \in Years, y <= From(c), NEW k \in Requested(c),
         <<k, y>> \in Observed(c), Value(c, k, y) # Null,
         NEW w, \A r \in Given(c, k) : w[r] = Weighted(c, r, Value(c, r.source, y))
  PROVE  SumFunctionOnSet(w, Given(c, k)) = Value(c, k, y)
  <1> DEFINE f == [r \in c.sheet |-> r.share]
  <1> DEFINE M == Given(c, k)
  <1> DEFINE top == ShareSum(c, k)
  <1> DEFINE n == Cardinality(Held(y, k))
  <1> DEFINE u == (Unit \div top) * n
  <1>1. IsFiniteSet(c.sheet) /\ \A r \in c.sheet : r.share \in Int
    BY ResultBasics DEF SheetOK
  <1>2. IsFiniteSet(M)
    BY <1>1, FS_Subset DEF Given, Moving
  <1>3. top \in Nat /\ top > 0 /\ Unit \div top \in Nat /\ (Unit \div top) * top = Unit
        /\ n \in Nat /\ Value(c, k, y) = Unit * n
    <2>1. PICK t : \E r \in Parts(c, t, y) : r.source = k
      <3>1. k \in Sources(c)
        BY DEF Requested
      <3>2. QED
        BY <3>1, SourceHasPart
    <2>2. PICK r \in Parts(c, t, y) : r.source = k
      BY <2>1
    <2>3. WeightOK(c, y, r, ShareSum(c, r.source))
      BY <2>2, PartWeight
    <2>4. QED
      BY <2>2, <2>3 DEF WeightOK
  <1>4. ASSUME NEW r \in M
        PROVE  f[r] \in Int /\ w[r] = u * f[r]
    <2>1. r.source = k /\ r \in c.sheet /\ r \in Parts(c, r.target, y)
      BY DEF Given, Moving, Parts
    <2>2. WeightOK(c, y, r, top)
      BY <2>1, PartWeight
    <2>3. w[r] = r.share * u
      BY <2>1, <2>2 DEF WeightOK
    <2>4. r.share \in Int /\ u \in Int
      BY <1>1, <1>3, <2>1
    <2>5. QED
      BY <2>1, <2>3, <2>4
  <1>5. SumFunctionOnSet(f, M) = top
    BY GivenAddsUp
  <1>6. u \in Int
    BY <1>3
  <1> HIDE DEF f, M, u, top, n
  <1>7. SumFunctionOnSet(w, M) = u * SumFunctionOnSet(f, M)
    BY <1>2, <1>4, <1>6, SumScale
  <1>8. u * top = Unit * n
    <2> DEFINE q == Unit \div top
    <2>1. q \in Nat /\ q * top = Unit /\ u = q * n
      BY <1>3 DEF u
    <2> HIDE DEF q
    <2>2. u * top = (q * n) * top
      BY <2>1
    <2>3. (q * n) * top = (q * top) * n
      BY <1>3, <2>1
    <2>4. QED
      BY <2>1, <2>2, <2>3
  <1>9. QED
    BY <1>3, <1>5, <1>7, <1>8 DEF M

\* The row that is answered for t in a year.
RowFor(c, t, y) == IF PassesThrough(c, t, y) THEN ObservedRow(c, t, y) ELSE RebasedRow(c, t, y)

\* A value before the reform counts every feeder, each with a value of its own.
LEMMA FeedersAreWhole ==
  ASSUME NEW c, NEW t, NEW y, RowFor(c, t, y).value # Null, NEW k \in Feeders(c, t)
  PROVE  <<k, y>> \in Observed(c) /\ Value(c, k, y) # Null
  <1>1. CASE PassesThrough(c, t, y)
    <2>1. Value(c, t, y) # Null /\ Feeders(c, t) = {t} /\ Missing(c, t, y) = {}
      BY <1>1 DEF RowFor, ObservedRow, Row, PassesThrough
    <2>2. t \in {r.source : r \in Parts(c, t, y)}
      BY <2>1 DEF Missing
    <2>3. <<t, y>> \in Observed(c)
      BY <2>2 DEF Parts
    <2>4. QED
      BY <2>1, <2>3
  <1>2. CASE ~PassesThrough(c, t, y)
    <2>1. Nulls(c, t, y) = {} /\ Missing(c, t, y) = {}
      BY <1>2 DEF RowFor, RebasedRow, Row
    <2>2. PICK r \in Parts(c, t, y) : r.source = k
      BY <2>1 DEF Missing
    <2>3. <<k, y>> \in Observed(c)
      BY <2>2 DEF Parts
    <2>4. Value(c, k, y) # Null
      BY <2>1, <2>2 DEF Nulls
    <2>5. QED
      BY <2>3, <2>4
  <1>3. QED
    BY <1>1, <1>2

LEMMA PartsAreWhole ==
  ASSUME NEW c, NEW t, NEW y, RowFor(c, t, y).value # Null, NEW r \in Parts(c, t, y)
  PROVE  Value(c, r.source, y) # Null
  <1>1. r.source \in Feeders(c, t)
    BY DEF Parts, Feeders, Moving
  <1>2. QED
    BY <1>1, FeedersAreWhole

\* A row's value is the sum of what its parts weigh, also where a value is passed on.
LEMMA RowIsSum ==
  ASSUME NEW c, ResultOf(c), NEW t \in Kreise, NEW y \in Years, y <= From(c),
         RowFor(c, t, y).value # Null,
         NEW w, \A r \in Parts(c, t, y) : w[r] = Weighted(c, r, Value(c, r.source, y))
  PROVE  RowFor(c, t, y).value = SumFunctionOnSet(w, Parts(c, t, y))
  <1>1. CASE ~PassesThrough(c, t, y)
    <2> DEFINE P == Parts(c, t, y)
    <2> DEFINE f == Weights(c, t, y)
    <2>1. Nulls(c, t, y) = {} /\ RowFor(c, t, y).value = SumFunction(f)
      BY <1>1 DEF RowFor, RebasedRow, Row, Weights
    <2>2. IsFiniteSet(P) /\ SumFunction(f) = SumFunctionOnSet(f, P)
          /\ \A r \in P : f[r] \in Int /\ Value(c, r.source, y) # Null
      BY <2>1, WeightsAreInts
    <2>3. \A r \in P : f[r] \in Int /\ w[r] = f[r]
      BY <2>2 DEF Weights
    <2> HIDE DEF P, f
    <2>4. SumFunctionOnSet(w, P) = SumFunctionOnSet(f, P)
      BY <2>2, <2>3, SumAgree
    <2>5. QED
      BY <2>1, <2>2, <2>4 DEF P
  <1>2. CASE PassesThrough(c, t, y)
    <2>1. PICK r \in Parts(c, t, y) : r.share = ShareSum(c, t)
      BY <1>2 DEF PassesThrough
    <2>2. Feeders(c, t) = {t} /\ RowFor(c, t, y).value = Value(c, t, y)
      BY <1>2 DEF PassesThrough, RowFor, ObservedRow, Row
    <2>3. \A q \in Parts(c, t, y) : q.source = t
      BY <2>2 DEF Parts, Feeders, Moving
    <2>4. Parts(c, t, y) = {r}
      BY <2>1, <2>3, PartsBySource
    <2>5. WeightOK(c, y, r, ShareSum(c, t))
      BY <2>1, <2>2, <2>3, PartWeight
    <2> DEFINE top == ShareSum(c, t)
    <2> DEFINE n == Cardinality(Held(y, t))
    <2> DEFINE q == Unit \div top
    <2>6. top \in Nat /\ q \in Nat /\ q * top = Unit /\ n \in Nat /\ Value(c, t, y) = Unit * n
          /\ w[r] = top * (q * n) /\ w[r] \in Int
      BY <2>1, <2>3, <2>5 DEF WeightOK
    <2> HIDE DEF top, n, q
    <2>7. top * (q * n) = (q * top) * n
      BY <2>6
    <2>8. w[r] = Value(c, t, y)
      BY <2>6, <2>7
    <2>9. SumFunctionOnSet(w, {r}) = w[r]
      <3>1. IsFiniteSet({r}) /\ \A x \in {r} : w[x] \in Int
        BY <2>6, FS_Singleton
      <3>2. SumFunctionOnSet(w, {r}) = w[r] + SumFunctionOnSet(w, {r} \ {r})
        BY <3>1, SumRemove
      <3>3. {r} \ {r} = {}
        OBVIOUS
      <3>4. SumFunctionOnSet(w, {}) = 0
        BY <3>1, SumBasics
      <3>5. QED
        BY <2>6, <3>2, <3>3, <3>4
    <2>10. QED
      BY <2>2, <2>4, <2>8, <2>9
  <1>3. QED
    BY <1>1, <1>2

\* The Kreise that something is moved into in a year, and those it is moved from.
ReachedIn(c, y) == {t \in Kreise : <<t, y>> \in Reached(c)}
GivenIn(c, y) == {k \in Kreise : k \in Sources(c) /\ <<k, y>> \in Observed(c)}

RowsIn(c, y) == {row \in Rows(c) : row.year = y}
CellsIn(c, y) == {o \in Observed(c) : o[2] = y /\ o[1] \in Sources(c)}

\* All that is moved in a year.
MovedIn(c, y) == {r \in Moving(c.sheet) : <<r.source, y>> \in Observed(c)}

LEMMA RowForFields ==
  ASSUME NEW c, NEW t, NEW y
  PROVE  RowFor(c, t, y).key = t /\ RowFor(c, t, y).year = y
  BY DEF RowFor, ObservedRow, RebasedRow, Row

\* A row is determined by its Kreis and its year.
LEMMA RowByName ==
  ASSUME NEW c, ResultOf(c), NEW row \in Rows(c)
  PROVE  /\ row.year \in Int /\ row.key \in Kreise
         /\ \/ To(c) <= row.year /\ row = ObservedRow(c, row.key, row.year)
            \/ row.year <= From(c) /\ row = RowFor(c, row.key, row.year)
  <1>1. PICK k, y : LaterRow(c, row, k, y) \/ PassedRow(c, row, k, y) \/ SummedRow(c, row, k, y)
    BY RowOrigin
  <1>2. CASE LaterRow(c, row, k, y)
    BY <1>2, YearsAreInts DEF LaterRow, ObservedRow, Row
  <1>3. CASE PassedRow(c, row, k, y) \/ SummedRow(c, row, k, y)
    <2>1. row = RowFor(c, k, y) /\ k \in Kreise /\ y \in Years /\ y <= From(c)
      BY <1>3 DEF PassedRow, SummedRow, RowFor
    <2>2. row.key = k /\ row.year = y
      BY <2>1, RowForFields
    <2>3. QED
      BY <2>1, <2>2, YearsAreInts
  <1>4. QED
    BY <1>1, <1>2, <1>3

LEMMA RowsOfYear ==
  ASSUME NEW c, ResultOf(c), NEW y \in Years, y <= From(c), c.incomplete # "drop"
  PROVE  /\ \A t \in ReachedIn(c, y) : RowFor(c, t, y) \in RowsIn(c, y)
         /\ \A row \in RowsIn(c, y) : \E t \in ReachedIn(c, y) : row = RowFor(c, t, y)
  <1>1. Answered(c) = Reached(c)
    BY DEF Answered
  <1>2. ASSUME NEW t \in ReachedIn(c, y) PROVE RowFor(c, t, y) \in RowsIn(c, y)
    <2>1. <<t, y>> \in Answered(c)
      BY <1>1 DEF ReachedIn
    <2>2. RowFor(c, t, y) \in Rows(c)
      BY <2>1 DEF Rows, RowFor
    <2>3. QED
      BY <2>2, RowForFields DEF RowsIn
  <1>3. ASSUME NEW row \in RowsIn(c, y) PROVE \E t \in ReachedIn(c, y) : row = RowFor(c, t, y)
    <2>1. PICK t, z : LaterRow(c, row, t, z) \/ PassedRow(c, row, t, z) \/ SummedRow(c, row, t, z)
      BY RowOrigin DEF RowsIn
    <2>2. CASE LaterRow(c, row, t, z)
      <3>1. z = y /\ To(c) <= z
        BY <2>2 DEF LaterRow, ObservedRow, Row, RowsIn
      <3>2. QED
        BY <3>1, ResultBasics, YearsAreInts
    <2>3. CASE PassedRow(c, row, t, z) \/ SummedRow(c, row, t, z)
      <3>1. row = RowFor(c, t, z) /\ t \in Kreise /\ <<t, z>> \in Answered(c)
        BY <2>3 DEF PassedRow, SummedRow, RowFor
      <3>2. z = y
        BY <3>1, RowForFields DEF RowsIn
      <3>3. QED
        BY <1>1, <3>1, <3>2 DEF ReachedIn
    <2>4. QED
      BY <2>1, <2>2, <2>3
  <1>4. QED
    BY <1>2, <1>3

\* What is moved in a year, by the row it ends up in and by the Kreis it comes from.
LEMMA MovedByTarget ==
  ASSUME NEW c, ResultOf(c), NEW y \in Years, y <= From(c)
  PROVE  /\ \A r \in MovedIn(c, y) : r.target \in ReachedIn(c, y) /\ r \in Parts(c, r.target, y)
         /\ \A t : Class(MovedIn(c, y), [r \in MovedIn(c, y) |-> r.target], t) = Parts(c, t, y)
  <1>1. ASSUME NEW r \in MovedIn(c, y)
        PROVE  r.target \in ReachedIn(c, y) /\ r \in Parts(c, r.target, y)
    <2>1. r \in Parts(c, r.target, y) /\ r.target \in Targets(c)
      BY DEF MovedIn, Parts, Targets, Moving
    <2>2. <<r.target, y>> \in Reached(c)
      BY <2>1 DEF Reached
    <2>3. r.target \in Kreise
      BY <2>1, ResultBasics
    <2>4. QED
      BY <2>1, <2>2, <2>3 DEF ReachedIn
  <1>2. ASSUME NEW t
        PROVE  Class(MovedIn(c, y), [r \in MovedIn(c, y) |-> r.target], t) = Parts(c, t, y)
    BY DEF Class, MovedIn, Parts
  <1>3. QED
    BY <1>1, <1>2

LEMMA MovedBySource ==
  ASSUME NEW c, ResultOf(c), NEW y \in Years, y <= From(c)
  PROVE  /\ \A r \in MovedIn(c, y) : r.source \in GivenIn(c, y)
         /\ \A k \in GivenIn(c, y) :
               /\ Class(MovedIn(c, y), [r \in MovedIn(c, y) |-> r.source], k) = Given(c, k)
               /\ k \in Requested(c)
  <1>1. ASSUME NEW r \in MovedIn(c, y) PROVE r.source \in GivenIn(c, y)
    <2>1. r.source \in Sources(c) /\ <<r.source, y>> \in Observed(c)
      BY DEF MovedIn, Sources, Moving
    <2>2. QED
      BY <2>1, ResultBasics DEF GivenIn
  <1>2. ASSUME NEW k \in GivenIn(c, y)
        PROVE  Class(MovedIn(c, y), [r \in MovedIn(c, y) |-> r.source], k) = Given(c, k)
    BY DEF Class, MovedIn, Given, GivenIn
  <1>3. ASSUME NEW k \in GivenIn(c, y) PROVE k \in Requested(c)
    BY DEF GivenIn, Requested
  <1>4. QED
    BY <1>1, <1>2, <1>3

LEMMA YearIsConserved ==
  ASSUME NEW c, ResultOf(c), NEW y \in Years, y <= From(c), c.incomplete # "drop",
         \A row \in RowsIn(c, y) : row.value # Null
  PROVE  SumFunction([row \in RowsIn(c, y) |-> row.value])
           = SumFunction([o \in CellsIn(c, y) |-> c.cells[o].value])
  <1> DEFINE P == MovedIn(c, y)
  <1> DEFINE T == ReachedIn(c, y)
  <1> DEFINE K == GivenIn(c, y)
  <1> DEFINE R == RowsIn(c, y)
  <1> DEFINE O == CellsIn(c, y)
  <1> DEFINE w == [r \in P |-> Weighted(c, r, Value(c, r.source, y))]
  <1> DEFINE to == [r \in P |-> r.target]
  <1> DEFINE from == [r \in P |-> r.source]
  <1> DEFINE e == [t \in T |-> RowFor(c, t, y).value]
  <1> DEFINE d == [k \in K |-> Value(c, k, y)]
  <1> DEFINE f == [row \in R |-> row.value]
  <1> DEFINE v == [o \in O |-> c.cells[o].value]
  <1> DEFINE named == [t \in T |-> RowFor(c, t, y)]
  <1> DEFINE cell == [k \in K |-> <<k, y>>]
  <1>1. IsFiniteSet(P) /\ IsFiniteSet(T) /\ IsFiniteSet(K)
    <2>1. IsFiniteSet(c.sheet)
      BY ResultBasics DEF SheetOK
    <2>2. P \subseteq c.sheet /\ T \subseteq Kreise /\ K \subseteq Kreise
      BY DEF MovedIn, Moving, ReachedIn, GivenIn
    <2>3. QED
      BY <2>1, <2>2, TerritoryIsFinite, FS_Subset
  <1>2. \A t \in T : t \in Kreise /\ RowFor(c, t, y).value # Null
    BY RowsOfYear DEF ReachedIn
  <1>3. ASSUME NEW r \in P PROVE Value(c, r.source, y) # Null /\ w[r] \in Int
    <2>1. r.target \in T /\ r \in Parts(c, r.target, y)
      BY MovedByTarget
    <2>2. Value(c, r.source, y) # Null
      BY <1>2, <2>1, PartsAreWhole
    <2>3. WeightOK(c, y, r, ShareSum(c, r.source))
      BY <2>1, <2>2, PartWeight
    <2>4. Weighted(c, r, Value(c, r.source, y)) \in Int
      BY <2>3, Zenon DEF WeightOK
    <2>5. QED
      BY <2>2, <2>4
  <1>4. ASSUME NEW t \in T PROVE e[t] = SumFunctionOnSet(w, Class(P, to, t))
    <2>1. Class(P, to, t) = Parts(c, t, y)
      BY MovedByTarget
    <2>2. \A r \in Parts(c, t, y) : w[r] = Weighted(c, r, Value(c, r.source, y))
      BY DEF Parts, MovedIn
    <2> HIDE DEF w, P, to
    <2>3. RowFor(c, t, y).value = SumFunctionOnSet(w, Parts(c, t, y))
      BY <1>2, <2>2, RowIsSum
    <2>4. QED
      BY <2>1, <2>3
  <1>5. ASSUME NEW k \in K PROVE d[k] = SumFunctionOnSet(w, Class(P, from, k))
    <2>1. Class(P, from, k) = Given(c, k) /\ k \in Requested(c) /\ <<k, y>> \in Observed(c) /\ k \in Sources(c)
      BY MovedBySource DEF GivenIn
    <2>2. \A r \in Given(c, k) : r \in P /\ r.source = k
      BY <2>1 DEF Given, MovedIn
    <2>3. \A r \in Given(c, k) : w[r] = Weighted(c, r, Value(c, r.source, y))
      BY <2>2
    <2>4. Value(c, k, y) # Null
      <3>0. \E t : t \in Kreise /\ <<t, y>> \in Reached(c) /\ k \in Feeders(c, t)
                    /\ \E r \in Parts(c, t, y) : r.source = k
        BY <2>1, SourceHasPart
      <3>1. PICK t : \E r \in Parts(c, t, y) : r.source = k
        BY <3>0
      <3>2. PICK r \in Parts(c, t, y) : r.source = k
        BY <3>1
      <3>3. r \in P
        BY <3>2 DEF Parts, MovedIn
      <3>4. QED
        BY <1>3, <3>2, <3>3
    <2> HIDE DEF w, P, from
    <2>5. SumFunctionOnSet(w, Given(c, k)) = Value(c, k, y)
      BY <2>1, <2>3, <2>4, GivenIsObserved
    <2>6. QED
      BY <2>1, <2>5
  <1>6. \A r \in P : to[r] \in T /\ from[r] \in K
    BY MovedByTarget, MovedBySource
  <1>7. Renames(named, T, R)
    <2>1. \A t \in T : RowFor(c, t, y) \in R
      BY RowsOfYear
    <2>2. \A row \in R : \E t \in T : row = RowFor(c, t, y)
      BY RowsOfYear
    <2>3. \A s, t \in T : RowFor(c, s, y) = RowFor(c, t, y) => s = t
      <3> SUFFICES ASSUME NEW s \in T, NEW t \in T, RowFor(c, s, y) = RowFor(c, t, y) PROVE s = t
        OBVIOUS
      <3>1. RowFor(c, s, y).key = s /\ RowFor(c, t, y).key = t
        BY RowForFields
      <3>2. QED
        BY <3>1
    <2> HIDE DEF T, R
    <2>4. QED
      BY <2>1, <2>2, <2>3 DEF Renames
  <1>8. Renames(cell, K, O)
    <2>1. \A k \in K : <<k, y>> \in O
      BY DEF GivenIn, CellsIn
    <2>2. \A o \in O : \E k \in K : o = <<k, y>>
      <3> SUFFICES ASSUME NEW o \in O PROVE \E k \in K : o = <<k, y>>
        OBVIOUS
      <3>1. o \in Observed(c) /\ o[2] = y /\ o[1] \in Sources(c)
        BY DEF CellsIn
      <3>2. o = <<o[1], y>> /\ o[1] \in Kreise
        BY <3>1, ResultBasics
      <3>3. o[1] \in K
        BY <3>1, <3>2 DEF GivenIn
      <3>4. QED
        BY <3>2, <3>3
    <2> HIDE DEF K, O
    <2>3. QED
      BY <2>1, <2>2 DEF Renames
  <1>9. \A t \in T : named[t] \in R /\ f[named[t]] = e[t]
    BY RowsOfYear
  <1>10. \A k \in K : v[cell[k]] = d[k]
    BY DEF GivenIn, CellsIn, Value
  <1>11. SumFunction(f) = SumFunctionOnSet(f, R) /\ SumFunction(v) = SumFunctionOnSet(v, O)
    BY DEF SumFunction
  <1> HIDE DEF P, T, K, R, O, w, to, from, e, d, f, v, named, cell
  <1>12. (\A t \in T : e[t] \in Int) /\ SumFunctionOnSet(e, T) = SumFunctionOnSet(w, P)
    BY <1>1, <1>3, <1>4, <1>6, SumByClass
  <1>13. (\A k \in K : d[k] \in Int) /\ SumFunctionOnSet(d, K) = SumFunctionOnSet(w, P)
    BY <1>1, <1>3, <1>5, <1>6, SumByClass
  <1>14. SumFunctionOnSet(f, R) = SumFunctionOnSet(e, T)
    BY <1>1, <1>7, <1>9, <1>12, SumByName
  <1>15. SumFunctionOnSet(v, O) = SumFunctionOnSet(d, K)
    BY <1>1, <1>8, <1>10, <1>13, SumByName
  <1>16. SumFunction(f) = SumFunction(v)
    BY <1>11, <1>12, <1>13, <1>14, <1>15
  <1>17. QED
    BY <1>16 DEF f, v, R, O

\* Totals are conserved (rebase.py 386-447): what was observed for the Kreise of a year
\* before the reform is what their re-based successors have, for every history of the
\* borders, however the shares are off within the tolerance, unless a row says that it has
\* no value or the caller had incomplete rows dropped.
THEOREM TotalsAreConserved == Spec => []TotalConserved
  <1>1. ASSUME IInv PROVE TotalConserved
    <2> SUFFICES ASSUME answer # Null, answer.outcome = "result", call.incomplete # "drop",
                        NEW y \in Years, y <= From(call),
                        \A row \in answer.rows : row.year = y => row.value # Null
                 PROVE  SumFunction([row \in {row \in answer.rows : row.year = y} |-> row.value]) =
                        SumFunction([o \in {o \in Observed(call) : o[2] = y /\ o[1] \in Sources(call)}
                                         |-> call.cells[o].value])
      BY DEF TotalConserved
    <2>1. ResultOf(call) /\ answer.rows = Rows(call)
      BY <1>1 DEF IInv, AnswerOK, ResultOf
    <2>2. \A row \in RowsIn(call, y) : row.value # Null
      BY <2>1 DEF RowsIn
    <2>3. SumFunction([row \in RowsIn(call, y) |-> row.value])
            = SumFunction([o \in CellsIn(call, y) |-> call.cells[o].value])
      BY <2>1, <2>2, YearIsConserved
    <2>4. QED
      BY <2>1, <2>3 DEF RowsIn, CellsIn
  <1>2. QED
    BY <1>1, RebaseInit, RebaseNext, PTL DEF Spec

\* No value of a year before the reform is a partial sum (rebase.py 419-447): each
\* Kreis that moves anything into the row's was observed and had a value.
THEOREM NoPartialSums == Spec => []NoPartialSum
  <1>1. ASSUME IInv PROVE NoPartialSum
    <2> SUFFICES ASSUME answer # Null, NEW row \in answer.rows,
                        row.year <= From(call), row.value # Null
                 PROVE  \A k \in Feeders(call, row.key) :
                            <<k, row.year>> \in Observed(call) /\ Value(call, k, row.year) # Null
      BY DEF NoPartialSum
    <2>1. ResultOf(call) /\ row \in Rows(call)
      BY <1>1, ResultNow
    <2>2. ~(To(call) <= row.year)
      BY <2>1, RowByName, ResultBasics
    <2>3. row = RowFor(call, row.key, row.year)
      BY <2>1, <2>2, RowByName
    <2>4. RowFor(call, row.key, row.year).value # Null
      BY <2>3
    <2>5. QED
      BY <2>4, FeedersAreWhole
  <1>2. QED
    BY <1>1, RebaseInit, RebaseNext, PTL DEF Spec

-----------------------------------------------------------------------------
\* The frame of a feature

LEMMA PlaceIsUnique ==
  ASSUME NEW k \in Kreise
  PROVE  Place(k) \in Nat /\ KreisOrder[Place(k)] = k
  <1>1. KreisOrder \in Seq(Kreise) /\ k \in {KreisOrder[i] : i \in DOMAIN KreisOrder}
    BY NamesInOrder DEF ToSet
  <1>2. \E i \in DOMAIN KreisOrder : KreisOrder[i] = k
    BY <1>1
  <1>3. Place(k) \in DOMAIN KreisOrder /\ KreisOrder[Place(k)] = k
    BY <1>2 DEF Place
  <1>4. QED
    BY <1>1, <1>3

\* Rows that can be put in order: no two of one Kreis and one year.
Sortable(S) ==
    /\ IsFiniteSet(S)
    /\ \A p \in S : p.year \in Int /\ p.key \in Kreise
    /\ \A p, q \in S : p.year = q.year /\ p.key = q.key => p = q

LEMMA BeforeIsOrder ==
  ASSUME NEW S, Sortable(S)
  PROVE  /\ \A p \in S : ~Before(p, p)
         /\ \A p, q \in S : p = q \/ Before(p, q) \/ Before(q, p)
         /\ \A p, q, r \in S : Before(p, q) /\ Before(q, r) => Before(p, r)
  <1>1. ASSUME NEW p \in S PROVE p.year \in Int /\ Place(p.key) \in Nat /\ KreisOrder[Place(p.key)] = p.key
    BY PlaceIsUnique DEF Sortable
  <1>2. ASSUME NEW p \in S PROVE ~Before(p, p)
    BY <1>1 DEF Before
  <1>3. ASSUME NEW p \in S, NEW q \in S PROVE p = q \/ Before(p, q) \/ Before(q, p)
    <2>1. CASE p.year = q.year /\ Place(p.key) = Place(q.key)
      <3>1. p.key = q.key
        BY <1>1, <2>1
      <3>2. QED
        BY <2>1, <3>1 DEF Sortable
    <2>2. CASE ~(p.year = q.year /\ Place(p.key) = Place(q.key))
      <3>1. p.year \in Int /\ q.year \in Int /\ Place(p.key) \in Nat /\ Place(q.key) \in Nat
        BY <1>1
      <3>2. QED
        BY <2>2, <3>1 DEF Before
    <2>3. QED
      BY <2>1, <2>2
  <1>4. ASSUME NEW p \in S, NEW q \in S, NEW r \in S, Before(p, q), Before(q, r) PROVE Before(p, r)
    <2>1. /\ p.year \in Int /\ q.year \in Int /\ r.year \in Int
          /\ Place(p.key) \in Nat /\ Place(q.key) \in Nat /\ Place(r.key) \in Nat
      BY <1>1
    <2>2. QED
      BY <1>4, <2>1 DEF Before
  <1>5. QED
    BY <1>2, <1>3, <1>4

Below(S, p) == {r \in S : Before(r, p)}

\* No two rows have as many rows before them, and every number of them is taken.
LEMMA Ranks ==
  ASSUME NEW S, Sortable(S)
  PROVE  /\ IsFiniteSet(S) /\ Cardinality(S) \in Nat
         /\ \A p \in S : Cardinality(Below(S, p)) \in 0..Cardinality(S) - 1
         /\ \A p, q \in S : Cardinality(Below(S, p)) = Cardinality(Below(S, q)) => p = q
         /\ \A n \in 0..Cardinality(S) - 1 : \E p \in S : Cardinality(Below(S, p)) = n
  <1> DEFINE B(p) == Below(S, p)
  <1>1. IsFiniteSet(S) /\ Cardinality(S) \in Nat
    BY FS_CardinalityType DEF Sortable
  <1>2. ASSUME NEW p \in S
        PROVE  IsFiniteSet(B(p)) /\ p \notin B(p) /\ B(p) \subseteq S
               /\ Cardinality(B(p)) \in 0..Cardinality(S) - 1
    <2>1. p \notin B(p) /\ B(p) \in SUBSET S
      BY BeforeIsOrder DEF Below
    <2>2. B(p) # S
      BY <2>1
    <2> HIDE DEF B
    <2>3. IsFiniteSet(B(p)) /\ Cardinality(B(p)) <= Cardinality(S) /\ Cardinality(B(p)) # Cardinality(S)
      BY <1>1, <2>1, <2>2, FS_Subset
    <2>4. Cardinality(B(p)) \in Nat
      BY <2>3, FS_CardinalityType
    <2>5. QED
      BY <1>1, <2>1, <2>3, <2>4
  <1>3. ASSUME NEW p \in S, NEW q \in S, Before(p, q) PROVE Cardinality(B(p)) < Cardinality(B(q))
    <2>1. B(p) \in SUBSET B(q) /\ p \in B(q)
      BY <1>3, BeforeIsOrder DEF Below
    <2>2. B(p) # B(q)
      BY <1>2, <2>1
    <2> HIDE DEF B
    <2>3. IsFiniteSet(B(q)) /\ Cardinality(B(p)) \in Int /\ Cardinality(B(q)) \in Int
      BY <1>2
    <2>4. Cardinality(B(p)) <= Cardinality(B(q)) /\ Cardinality(B(p)) # Cardinality(B(q))
      BY <2>1, <2>2, <2>3, FS_Subset
    <2>5. QED
      BY <2>3, <2>4
  <1>4. ASSUME NEW p \in S, NEW q \in S, Cardinality(B(p)) = Cardinality(B(q)) PROVE p = q
    <2>1. p = q \/ Before(p, q) \/ Before(q, p)
      BY BeforeIsOrder
    <2>2. Cardinality(B(p)) \in Int /\ Cardinality(B(q)) \in Int
      BY <1>2
    <2> HIDE DEF B
    <2>3. QED
      BY <1>3, <1>4, <2>1, <2>2
  <1> DEFINE T == 0..Cardinality(S) - 1
  <1> DEFINE rank == [p \in S |-> Cardinality(B(p))]
  <1>5. rank \in Injection(S, T)
    BY <1>2, <1>4 DEF Injection, IsInjective
  <1>6. IsFiniteSet(T) /\ Cardinality(T) = Cardinality(S)
    <2>1. Cardinality(S) - 1 \in Int
      BY <1>1
    <2>2. QED
      BY <1>1, <2>1, FS_Interval
  <1>7. rank \in Surjection(S, T)
    BY <1>5, <1>6, FS_Injection
  <1>8. \A n \in T : \E p \in S : rank[p] = n
    BY <1>7 DEF Surjection
  <1>9. \A n \in T : \E p \in S : Cardinality(B(p)) = n
    BY <1>8
  <1> HIDE DEF B
  <1>10. QED
    BY <1>1, <1>2, <1>4, <1>9 DEF B

\* A list of rows has every row once.
LEMMA SortedRows ==
  ASSUME NEW result, Sortable(result.rows)
  PROVE  /\ \A i \in DOMAIN Sorted(result) : Sorted(result)[i] \in result.rows
         /\ \A row \in result.rows : \E i \in DOMAIN Sorted(result) : Sorted(result)[i] = row
  <1> DEFINE S == result.rows
  <1> DEFINE n == Cardinality(S)
  <1> DEFINE places == 1..n
  <1> DEFINE InOrder(s) == \A i, j \in places : i < j => Before(s[i], s[j])
  <1>1. /\ IsFiniteSet(S) /\ n \in Nat
        /\ \A p \in S : Cardinality(Below(S, p)) \in 0..n - 1
        /\ \A m \in 0..n - 1 : \E p \in S : Cardinality(Below(S, p)) = m
    BY Ranks
  <1>2. Sorted(result) = CHOOSE s \in [places -> S] : InOrder(s)
    BY DEF Sorted
  <1>3. /\ \A p \in S : ~Before(p, p)
        /\ \A p, q \in S : p = q \/ Before(p, q) \/ Before(q, p)
    BY BeforeIsOrder
  <1>4. ASSUME NEW p \in S, NEW q \in S, Cardinality(Below(S, p)) < Cardinality(Below(S, q))
        PROVE  Before(p, q)
    <2> SUFFICES ASSUME Before(q, p) PROVE FALSE
      BY <1>1, <1>3, <1>4
    <2>1. Below(S, q) \in SUBSET Below(S, p) /\ Below(S, p) \in SUBSET S
      BY BeforeIsOrder DEF Below
    <2>2. IsFiniteSet(Below(S, p))
      BY <1>1, <2>1, FS_Subset
    <2>3. Cardinality(Below(S, q)) <= Cardinality(Below(S, p))
      BY <2>1, <2>2, FS_Subset
    <2>4. QED
      BY <1>1, <1>4, <2>3
  <1> DEFINE ranked == [i \in places |-> CHOOSE p \in S : Cardinality(Below(S, p)) = i - 1]
  <1> HIDE DEF S, n
  <1>5. ASSUME NEW i \in places PROVE ranked[i] \in S /\ Cardinality(Below(S, ranked[i])) = i - 1
    <2>1. i - 1 \in 0..n - 1
      BY <1>1
    <2>2. \E p \in S : Cardinality(Below(S, p)) = i - 1
      BY <1>1, <2>1
    <2>3. QED
      BY <2>2
  <1>6. ranked \in [places -> S] /\ InOrder(ranked)
    <2> HIDE DEF ranked
    <2>1. ASSUME NEW i \in places, NEW j \in places, i < j PROVE Before(ranked[i], ranked[j])
      <3>1. i - 1 < j - 1
        BY <1>1, <2>1
      <3>2. Cardinality(Below(S, ranked[i])) < Cardinality(Below(S, ranked[j]))
        BY <1>5, <3>1
      <3>3. QED
        BY <1>4, <1>5, <3>2
    <2>2. ranked \in [places -> S]
      BY <1>5 DEF ranked
    <2>3. QED
      BY <2>1, <2>2
  <1> DEFINE list == Sorted(result)
  <1>7. list \in [places -> S] /\ InOrder(list)
    <2> HIDE DEF InOrder, ranked
    <2>1. QED
      BY <1>2, <1>6
  <1> HIDE DEF list, ranked
  <1>8. \A i, j \in places : list[i] = list[j] => i = j
    <2> SUFFICES ASSUME NEW i \in places, NEW j \in places, list[i] = list[j], i < j PROVE FALSE
      BY <1>1
    <2>1. Before(list[i], list[j]) /\ list[i] \in S
      BY <1>7
    <2>2. QED
      BY <1>3, <2>1
  <1>9. list \in Injection(places, S)
    BY <1>7, <1>8 DEF Injection, IsInjective
  <1>10. Cardinality(places) = Cardinality(S)
    BY <1>1, FS_Interval DEF n
  <1>11. list \in Surjection(places, S)
    BY <1>1, <1>9, <1>10, FS_Injection
  <1>12. QED
    BY <1>7, <1>11 DEF Surjection, S, list

\* The rows of a result can be put in order.
LEMMA RowsAreSortable ==
  ASSUME NEW c, ResultOf(c)
  PROVE  Sortable(Rows(c))
  <1> DEFINE Cells == Kreise \X Years
  <1>1. IsFiniteSet(Cells)
    BY TerritoryIsFinite, YearsAreInts, FS_Product
  <1>2. Later(c) \in SUBSET Cells /\ Answered(c) \in SUBSET Cells
    BY ResultBasics DEF Later, Answered, Reached
  <1>3. IsFiniteSet(Later(c)) /\ IsFiniteSet(Answered(c))
    BY <1>1, <1>2, FS_Subset
  <1> DEFINE f == [o \in Later(c) |-> ObservedRow(c, o[1], o[2])]
  <1> DEFINE e == [p \in Answered(c) |-> RowFor(c, p[1], p[2])]
  <1>4. Rows(c) = {f[o] : o \in Later(c)} \cup {e[p] : p \in Answered(c)}
    BY DEF Rows, RowFor
  <1>5. IsFiniteSet(Rows(c))
    <2> HIDE DEF e, f
    <2>1. IsFiniteSet({f[o] : o \in Later(c)}) /\ IsFiniteSet({e[p] : p \in Answered(c)})
      BY <1>3, FiniteImage
    <2>2. QED
      BY <1>4, <2>1, FS_Union
  <1>7. ASSUME NEW p \in Rows(c), NEW q \in Rows(c), p.year = q.year, p.key = q.key PROVE p = q
    <2>1. From(c) \in Int /\ To(c) \in Int /\ From(c) < To(c) /\ p.year \in Int
      BY RowByName, ResultBasics
    <2>2. QED
      BY RowByName, <1>7, <2>1
  <1>8. QED
    BY <1>5, <1>7, RowByName DEF Sortable

\* A table that the feature is given.
TableOK(table) ==
    /\ DOMAIN table.cells \subseteq Kreise \X Years
    /\ \A o \in DOMAIN table.cells : table.cells[o] \in {Cell(o[1], o[2], b) : b \in BOOLEAN}

LEMMA TablesSound ==
  ASSUME NEW t \in Tables, NEW withheld
  PROVE  TableOK([t EXCEPT !.cells = [o \in t.cells |-> Cell(o[1], o[2], o \in withheld)]])
  <1>1. t \in [variable : STRING, cells : SUBSET (Kreise \X Years)]
    BY TablesAreTables
  <1> DEFINE cells == [o \in t.cells |-> Cell(o[1], o[2], o \in withheld)]
  <1>2. [t EXCEPT !.cells = cells].cells = cells
    BY <1>1
  <1>3. DOMAIN cells \subseteq Kreise \X Years
    BY <1>1
  <1>4. \A o \in DOMAIN cells : cells[o] \in {Cell(o[1], o[2], b) : b \in BOOLEAN}
    <2> SUFFICES ASSUME NEW o \in t.cells PROVE \E b \in BOOLEAN : cells[o] = Cell(o[1], o[2], b)
      OBVIOUS
    <2>1. (o \in withheld) \in BOOLEAN
      OBVIOUS
    <2>2. cells[o] = Cell(o[1], o[2], o \in withheld)
      OBVIOUS
    <2>3. QED
      BY <2>1, <2>2, Zenon
  <1> HIDE DEF cells
  <1>5. QED
    BY <1>2, <1>3, <1>4 DEF TableOK, cells

\* A result that has rows is that of a call of rebase with a key sheet.
ResultIs(result, c) ==
    ResultOf(c) /\ result.rows = Rows(c) /\ result.issues = Issues(c)

LEMMA ResultWithRows ==
  ASSUME borders \in Histories, NEW file \in KeyFiles, NEW table, TableOK(table), NEW f,
         Result(table, f, file).rows # {}
  PROVE  /\ ResultIs(Result(table, f, file), CallFor(table, f, file))
         /\ To(CallFor(table, f, file)) = f.span[2]
  <1> DEFINE c == CallFor(table, f, file)
  <1>1. /\ {PolicyOf(f.unmatched), PolicyOf(f.incomplete)} \subseteq AllPolicies
        /\ Refusal(c) = "none" /\ Result(table, f, file).rows = Rows(c)
        /\ Result(table, f, file).issues = Issues(c)
    BY DEF Result, Empty
  <1>2. /\ c.span = f.span /\ c.cells = table.cells
        /\ c.sheet = IF f.span \in file THEN TrueSheet(f.span) ELSE {}
        /\ c.others = [s \in file \cap {s \in Years \X Years : s[2] = s[1] + 1} |-> TrueSheet(s)]
        /\ c.unmatched = PolicyOf(f.unmatched) /\ c.incomplete = PolicyOf(f.incomplete)
    BY DEF CallFor
  <1> HIDE DEF c
  <1>3. f.span \in file
    BY <1>1, <1>2 DEF Refusal
  <1>4. f.span \in Years \X Years /\ f.span[1] < f.span[2] /\ f.span[1] \in Int /\ f.span[2] \in Int
    BY <1>3, SpansForward, YearsAreInts
  <1>5. SheetOK(c.span, c.sheet)
    BY <1>2, <1>3, <1>4, TrueSheetSound
  <1>6. DOMAIN c.others \subseteq SingleYears /\ \A s \in DOMAIN c.others : c.others[s] = TrueSheet(s)
    BY <1>2 DEF SingleYears
  <1>7. c.unmatched \in AllPolicies /\ c.incomplete \in AllPolicies
    BY <1>1, <1>2
  <1>8. CallOK(c)
    BY <1>2, <1>4, <1>5, <1>6, <1>7 DEF CallOK, TableOK
  <1>9. ResultOf(c)
    BY <1>1, <1>8 DEF ResultOf
  <1>10. QED
    BY <1>1, <1>2, <1>9 DEF ResultIs, To, c

LEMMA ListOfResult ==
  ASSUME borders \in Histories, NEW file \in KeyFiles, NEW table, TableOK(table), NEW f
  PROVE  LET result == Result(table, f, file) IN
         /\ \A i \in DOMAIN Sorted(result) : Sorted(result)[i] \in result.rows
         /\ \A row \in result.rows : \E i \in DOMAIN Sorted(result) : Sorted(result)[i] = row
  <1> DEFINE result == Result(table, f, file)
  <1>1. Sortable(result.rows)
    <2>1. CASE result.rows = {}
      BY <2>1, FS_EmptySet DEF Sortable
    <2>2. CASE result.rows # {}
      <3>1. ResultIs(result, CallFor(table, f, file))
        BY <2>2, ResultWithRows
      <3>2. QED
        BY <3>1, RowsAreSortable DEF ResultIs
    <2>3. QED
      BY <2>1, <2>2
  <1>2. QED
    BY <1>1, SortedRows

\* What the rows of a column say, the issues of the column being known.
RowTrue(row, span, issues) ==
    row.value # Null
      /\ ~(\E i \in issues : i.kind \in {"unverified_year", "zero_marker"} /\ i.key \in row.sources \cup {row.key})
    => row.value = Unit * Cardinality(Held(span[2], row.key))
RowExplained(row, issues) ==
    row.value = Null /\ row.marker # "." =>
        \E i \in issues : i.kind \in {"missing_source", "null_input"} /\ i.target = row.key /\ i.year = row.year

\* A row of a result is true on the target borders, unless one of its issues casts doubt on it.
LEMMA ResultIsTrue ==
  ASSUME NEW c, ResultOf(c), NEW row \in Rows(c), row.value # Null,
         \A i \in Issues(c) : ~(i.kind = "unverified_year" /\ i.key \in row.sources \cup {row.key})
  PROVE  row.value = Unit * Cardinality(Held(To(c), row.key))
  <1>1. PICK k, y : LaterRow(c, row, k, y) \/ PassedRow(c, row, k, y) \/ SummedRow(c, row, k, y)
    BY RowOrigin
  <1>2. CASE LaterRow(c, row, k, y)
    <2>1. row.key = k
      BY <1>2 DEF LaterRow, ObservedRow, Row
    <2>2. Verified(c, k, To(c), y)
      BY <2>1 DEF Verified
    <2>3. QED
      BY <1>2, <2>2, LaterIsTrue
  <1>3. CASE PassedRow(c, row, k, y)
    <2>1. row.key = k
      BY <1>3 DEF PassedRow, ObservedRow, Row
    <2>2. Verified(c, k, y, From(c))
      BY <2>1 DEF Verified
    <2>3. QED
      BY <1>3, <2>2, PassedIsTrue
  <1>4. CASE SummedRow(c, row, k, y)
    <2>1. \A s \in row.sources : Verified(c, s, y, From(c))
      BY DEF Verified
    <2>2. QED
      BY <1>4, <2>1, SummedIsTrue
  <1>5. QED
    BY <1>1, <1>2, <1>3, <1>4

LEMMA SummedFields ==
  ASSUME NEW c, NEW row, NEW t, NEW y, SummedRow(c, row, t, y)
  PROVE  row.key = t /\ row.year = y
  BY DEF SummedRow, RebasedRow, Row

\* A row of a result without a value and without a sign has an issue about itself.
LEMMA ResultIsExplained ==
  ASSUME NEW c, ResultOf(c), NEW row \in Rows(c), row.value = Null, row.marker # "."
  PROVE  \E i \in Issues(c) :
            i.kind \in {"missing_source", "null_input"} /\ i.target = row.key /\ i.year = row.year
  <1>1. PICK k, y : LaterRow(c, row, k, y) \/ PassedRow(c, row, k, y) \/ SummedRow(c, row, k, y)
    BY RowOrigin
  <1>2. CASE SummedRow(c, row, k, y)
    <2>1. PICK i \in RowIssues(c, k, y) :
            i.kind \in {"missing_source", "null_input"} /\ i.target = k /\ i.year = y
      BY <1>2, NullIsExplained
    <2>2. i \in Issues(c)
      BY <1>2, <2>1, IssuesOfRows DEF SummedRow
    <2>3. row.key = k /\ row.year = y
      BY <1>2, SummedFields
    <2>4. QED
      BY <2>1, <2>2, <2>3
  <1>3. CASE LaterRow(c, row, k, y) \/ PassedRow(c, row, k, y)
    BY <1>3, ObservedIsSigned
  <1>4. QED
    BY <1>1, <1>2, <1>3

-----------------------------------------------------------------------------
\* The frame of a feature: what the two properties say of it.
RowsTrue(one, two, r) ==
    /\ one[r].is.year = two[r].is.year /\ one[r].is.key = two[r].is.key
    /\ RowTrue(one[r].is, one[r].provenance.span, IssuesShown(one))
    /\ RowExplained(one[r].is, one[r].issues)
ColumnsTrue(columns) ==
    \A p, q \in DOMAIN columns : \A r \in DOMAIN columns[p] : RowsTrue(columns[p], columns[q], r)

\* A column with a row shows every issue of its result.
LEMMA EveryIssueIsShown ==
  ASSUME NEW span, NEW result,
         \A row \in result.rows : \E i \in DOMAIN Sorted(result) : Sorted(result)[i] = row,
         NEW r \in DOMAIN Sorted(result)
  PROVE  result.issues \subseteq IssuesShown(Columns(span, result))
  <1> DEFINE rows == Sorted(result)
  <1> DEFINE column == Columns(span, result)
  <1> DEFINE attached == UNION {IssuesFor(row, result.issues) : row \in result.rows}
  <1>1. /\ DOMAIN column = DOMAIN rows
        /\ \A i \in DOMAIN rows : /\ column[i].issues = IssuesFor(rows[i], result.issues)
                                 /\ column[i].provenance.elsewhere = result.issues \ attached
    BY DEF Columns
  <1> HIDE DEF column, rows
  <1> SUFFICES ASSUME NEW i \in result.issues PROVE i \in IssuesShown(column)
    BY DEF column
  <1>2. CASE i \notin attached
    <2>1. r \in DOMAIN column /\ i \in column[r].provenance.elsewhere
      BY <1>1, <1>2 DEF rows
    <2>2. QED
      BY <2>1 DEF IssuesShown
  <1>3. CASE i \in attached
    <2>1. PICK row \in result.rows : i \in IssuesFor(row, result.issues)
      BY <1>3
    <2>2. PICK s \in DOMAIN rows : rows[s] = row
      BY DEF rows
    <2>3. s \in DOMAIN column /\ i \in column[s].issues
      BY <1>1, <2>1, <2>2
    <2>4. QED
      BY <2>3 DEF IssuesShown
  <1>4. QED
    BY <1>2, <1>3

\* One row of one column.
LEMMA ColumnSound ==
  ASSUME borders \in Histories, NEW file \in KeyFiles, NEW table, TableOK(table), NEW f,
         NEW result, result = Result(table, f, file), NEW r \in DOMAIN Sorted(result)
  PROVE  LET column == Columns(f.span, result)
             row == Sorted(result)[r]
         IN /\ RowTrue(row, f.span, IssuesShown(column))
            /\ RowExplained(row, IssuesFor(row, result.issues))
  <1> DEFINE column == Columns(f.span, result)
  <1> DEFINE row == Sorted(result)[r]
  <1> DEFINE c == CallFor(table, f, file)
  <1>1. row \in result.rows /\ result.issues \subseteq IssuesShown(column)
    <2>1. /\ \A i \in DOMAIN Sorted(result) : Sorted(result)[i] \in result.rows
          /\ \A q \in result.rows : \E i \in DOMAIN Sorted(result) : Sorted(result)[i] = q
      BY ListOfResult
    <2>2. QED
      BY <2>1, EveryIssueIsShown
  <1>2. ResultIs(result, c) /\ To(c) = f.span[2]
    BY <1>1, ResultWithRows
  <1>3. ResultOf(c) /\ row \in Rows(c) /\ Issues(c) = result.issues
    BY <1>1, <1>2 DEF ResultIs
  <1> HIDE DEF column, row, c
  <1>4. RowTrue(row, f.span, IssuesShown(column))
    <2> SUFFICES ASSUME row.value # Null,
                        ~(\E i \in IssuesShown(column) :
                             i.kind \in {"unverified_year", "zero_marker"} /\ i.key \in row.sources \cup {row.key})
                 PROVE  row.value = Unit * Cardinality(Held(f.span[2], row.key))
      BY DEF RowTrue
    <2>1. \A i \in Issues(c) : ~(i.kind = "unverified_year" /\ i.key \in row.sources \cup {row.key})
      BY <1>1, <1>3
    <2>2. row.value = Unit * Cardinality(Held(To(c), row.key))
      BY <1>3, <2>1, ResultIsTrue
    <2>3. QED
      BY <1>2, <2>2
  <1>5. RowExplained(row, IssuesFor(row, result.issues))
    <2> SUFFICES ASSUME row.value = Null, row.marker # "."
                 PROVE  \E i \in IssuesFor(row, result.issues) :
                            i.kind \in {"missing_source", "null_input"} /\ i.target = row.key /\ i.year = row.year
      BY DEF RowExplained
    <2>1. PICK i \in Issues(c) :
            i.kind \in {"missing_source", "null_input"} /\ i.target = row.key /\ i.year = row.year
      BY <1>3, ResultIsExplained
    <2>2. i \in IssuesFor(row, result.issues)
      BY <1>3, <2>1 DEF IssuesFor
    <2>3. QED
      BY <2>1, <2>2
  <1>6. QED
    BY <1>4, <1>5 DEF column, row

\* Rows that _check_aligned accepts are of one Kreis and one year, in any two outputs.
LEMMA AlignedRows ==
  ASSUME NEW first, NEW one, NEW two, Aligned(first, one), Aligned(first, two), NEW r \in DOMAIN one
  PROVE  r \in DOMAIN two /\ one[r].key = two[r].key /\ one[r].year = two[r].year
  <1> DEFINE Names(rows) == [i \in DOMAIN rows |-> <<rows[i].key, rows[i].year>>]
  <1>1. Names(first) = Names(one) /\ Names(first) = Names(two)
    BY DEF Aligned
  <1>2. DOMAIN Names(one) = DOMAIN one /\ DOMAIN Names(two) = DOMAIN two
    OBVIOUS
  <1>3. r \in DOMAIN two
    BY <1>1, <1>2
  <1>4. Names(one)[r] = <<one[r].key, one[r].year>> /\ Names(two)[r] = <<two[r].key, two[r].year>>
    BY <1>3
  <1>5. Names(one)[r] = Names(two)[r]
    BY <1>1
  <1>6. QED
    BY <1>3, <1>4, <1>5

LEMMA FrameSound ==
  ASSUME borders \in Histories, NEW file \in KeyFiles, NEW table, TableOK(table), NEW features
  PROVE  ColumnsTrue(FrameOf(table, features, file).columns)
  <1> DEFINE fr == FrameOf(table, features, file)
  <1> DEFINE outputs == OutputsOf(features)
  <1> DEFINE feature == [i \in DOMAIN outputs |-> ByBase(features, outputs[i])]
  <1> DEFINE result == [i \in DOMAIN outputs |-> Result(table, feature[i], file)]
  <1>1. CASE \E why : fr = NoFrame(why)
    <2>1. fr.columns = <<>>
      BY <1>1 DEF NoFrame
    <2>2. ColumnsTrue(<<>>)
      BY DEF ColumnsTrue
    <2>3. QED
      BY <2>1, <2>2
  <1>2. CASE /\ ~\E i \in DOMAIN outputs : ~Aligned(Sorted(result[1]), Sorted(result[i]))
             /\ fr.columns = [i \in DOMAIN outputs |-> Columns(feature[i].span, result[i])]
    <2> SUFFICES ColumnsTrue([i \in DOMAIN outputs |-> Columns(feature[i].span, result[i])])
      BY <1>2
    <2> HIDE DEF fr, feature, outputs
    <2> SUFFICES ASSUME NEW p \in DOMAIN outputs, NEW q \in DOMAIN outputs,
                        NEW r \in DOMAIN Columns(feature[p].span, result[p])
                 PROVE  RowsTrue(Columns(feature[p].span, result[p]), Columns(feature[q].span, result[q]), r)
      BY DEF ColumnsTrue
    <2>1. \A i \in DOMAIN outputs : Aligned(Sorted(result[1]), Sorted(result[i]))
      BY <1>2
    <2>2. result[p] = Result(table, feature[p], file)
      OBVIOUS
    <2> HIDE DEF result
    <2> DEFINE one == Columns(feature[p].span, result[p])
    <2> DEFINE two == Columns(feature[q].span, result[q])
    <2>3. \A i : /\ DOMAIN Columns(feature[i].span, result[i]) = DOMAIN Sorted(result[i])
                  /\ \A s \in DOMAIN Sorted(result[i]) :
                        /\ Columns(feature[i].span, result[i])[s].is = Sorted(result[i])[s]
                        /\ Columns(feature[i].span, result[i])[s].issues
                             = IssuesFor(Sorted(result[i])[s], result[i].issues)
                        /\ Columns(feature[i].span, result[i])[s].provenance.span = feature[i].span
      BY DEF Columns
    <2>4. r \in DOMAIN Sorted(result[p])
      BY <2>3
    <2>5. /\ r \in DOMAIN Sorted(result[q])
          /\ Sorted(result[p])[r].key = Sorted(result[q])[r].key
          /\ Sorted(result[p])[r].year = Sorted(result[q])[r].year
      BY <2>1, <2>4, AlignedRows
    <2>6. /\ RowTrue(Sorted(result[p])[r], feature[p].span, IssuesShown(one))
          /\ RowExplained(Sorted(result[p])[r], IssuesFor(Sorted(result[p])[r], result[p].issues))
      BY <2>2, <2>4, ColumnSound
    <2>7. /\ one[r].is = Sorted(result[p])[r] /\ two[r].is = Sorted(result[q])[r]
          /\ one[r].issues = IssuesFor(Sorted(result[p])[r], result[p].issues)
          /\ one[r].provenance.span = feature[p].span
      BY <2>3, <2>4, <2>5
    <2> HIDE DEF one, two
    <2>8. QED
      BY <2>5, <2>6, <2>7 DEF RowsTrue, one, two
  <1>3. QED
    BY <1>1, <1>2 DEF FrameOf

\* What holds of every frame, with the file it was made from.
FInv ==
    /\ borders \in Histories /\ keys \in KeyFiles \cup {Null}
    /\ frame # Null => ColumnsTrue(frame.columns)

\* Only the borders decide whether a row is true.
LEMMA RowTruthKept ==
  ASSUME NEW row, NEW span, NEW issues, borders' = borders, RowTrue(row, span, issues)
  PROVE  RowTrue(row, span, issues)'
  BY DEF RowTrue, Held

LEMMA TruthKept ==
  ASSUME NEW columns, borders' = borders, ColumnsTrue(columns)
  PROVE  ColumnsTrue(columns)'
  <1> SUFFICES ASSUME NEW p \in DOMAIN columns, NEW q \in DOMAIN columns, NEW r \in DOMAIN columns[p]
               PROVE  RowsTrue(columns[p], columns[q], r)'
    BY DEF ColumnsTrue
  <1>1. RowsTrue(columns[p], columns[q], r)
    BY DEF ColumnsTrue
  <1>2. RowTrue(columns[p][r].is, columns[p][r].provenance.span, IssuesShown(columns[p]))'
    BY <1>1, RowTruthKept DEF RowsTrue
  <1>3. QED
    BY <1>1, <1>2 DEF RowsTrue, RowExplained

LEMMA FeatureStep ==
  ASSUME FInv, borders' = borders, FeatureNext
  PROVE  FInv'
  <1>1. CASE FetchReference
    <2>1. frame = Null /\ frame' = frame /\ keys' \in KeyFiles \cup {Null}
      BY <1>1 DEF FetchReference, FInv
    <2>2. QED
      BY <2>1 DEF FInv
  <1>2. CASE CalculateFeature
    <2>1. keys' = keys
      BY <1>2 DEF CalculateFeature
    <2>2. PICK t \in Tables, features \in Requests : \E withheld \in SUBSET t.cells :
             frame' = IF keys = Null THEN NoFrame("cache_miss")
                      ELSE FrameOf([t EXCEPT !.cells = [o \in t.cells |-> Cell(o[1], o[2], o \in withheld)]],
                                   features, keys)
      BY <1>2 DEF CalculateFeature
    <2>3. PICK withheld \in SUBSET t.cells :
             frame' = IF keys = Null THEN NoFrame("cache_miss")
                      ELSE FrameOf([t EXCEPT !.cells = [o \in t.cells |-> Cell(o[1], o[2], o \in withheld)]],
                                   features, keys)
      BY <2>2
    <2> DEFINE table == [t EXCEPT !.cells = [o \in t.cells |-> Cell(o[1], o[2], o \in withheld)]]
    <2>4. TableOK(table)
      BY TablesSound
    <2>5. frame' = IF keys = Null THEN NoFrame("cache_miss") ELSE FrameOf(table, features, keys)
      BY <2>3
    <2> HIDE DEF table
    <2>6. PICK columns : columns = frame'.columns /\ ColumnsTrue(columns)
      <3>1. CASE keys = Null
        <4>1. frame'.columns = <<>>
          BY <2>5, <3>1 DEF NoFrame
        <4>2. ColumnsTrue(<<>>)
          BY DEF ColumnsTrue
        <4>3. QED
          BY <4>1, <4>2
      <3>2. CASE keys # Null
        <4>1. keys \in KeyFiles /\ frame' = FrameOf(table, features, keys)
          BY <2>5, <3>2 DEF FInv
        <4>2. ColumnsTrue(FrameOf(table, features, keys).columns)
          BY <2>4, <4>1, FrameSound DEF FInv
        <4>3. QED
          BY <4>1, <4>2
      <3>3. QED
        BY <3>1, <3>2
    <2>7. ColumnsTrue(columns)'
      BY <2>6, TruthKept
    <2>8. QED
      BY <2>1, <2>6, <2>7 DEF FInv
  <1>3. QED
    BY <1>1, <1>2 DEF FeatureNext

LEMMA BordersStay == Next => borders' = borders
  <1>1. CallOnTrueSheet => borders' = borders
    BY DEF CallOnTrueSheet, Rebase
  <1>2. ASSUME CallOnFaultyInput PROVE borders' = borders
    <2>1. PICK span \in Spans, cells \in Selections, policy \in Policies :
            \/ \E lost \in cells :
                  Rebase(Arguments(span, TrueSheet(span), SingleYears,
                                   [o \in cells |-> Cell(o[1], o[2], o = lost)], policy))
            \/ \E defect \in Defects, k \in Standing(span[1]) :
                  Rebase(Arguments(span, Defective(TrueSheet(span), defect, k), SingleYears,
                                   [o \in cells |-> Cell(o[1], o[2], FALSE)], policy))
      BY <1>2 DEF CallOnFaultyInput
    <2>2. \E c : Rebase(c)
      BY <2>1
    <2>3. QED
      BY <2>2 DEF Rebase
  <1>3. CallWithoutSheet => borders' = borders
    BY DEF CallWithoutSheet, Rebase
  <1>4. QED
    BY <1>1, <1>2, <1>3 DEF Next

LEMMA FeatureInvariant == FeatureSpec => []FInv
  <1>1. Init /\ FeatureInit => FInv
    BY DEF Init, FeatureInit, FInv
  <1>2. FInv /\ [(FeatureNext /\ UNCHANGED vars) \/ (Next /\ UNCHANGED featureVars)]_<<vars, featureVars>> => FInv'
    <2>1. ASSUME FInv, FeatureNext, UNCHANGED vars PROVE FInv'
      BY <2>1, FeatureStep DEF vars
    <2>2. ASSUME FInv, Next \/ UNCHANGED vars, UNCHANGED featureVars PROVE FInv'
      <3>1. borders' = borders
        BY <2>2, BordersStay DEF vars
      <3>2. keys' = keys /\ frame' = frame
        BY <2>2 DEF featureVars
      <3>3. QED
        BY <2>2, <3>1, <3>2, TruthKept DEF FInv
    <2>3. QED
      BY <2>1, <2>2
  <1>3. QED
    BY <1>1, <1>2, PTL DEF FeatureSpec

\* What a row of a frame puts side by side (harmonization/rebase.py 120-202) is of one Kreis
\* and one year, and each value is that Kreis's on the borders of the year its own
\* provenance names, unless an issue the frame shows casts doubt on it: for every history
\* of the borders, every key file and any number of outputs with options of their own.
THEOREM FramesAreAligned == FeatureSpec => []OutputsShareTheirRows
  <1>1. ASSUME FInv PROVE OutputsShareTheirRows
    <2> SUFFICES ASSUME frame # Null, NEW p \in DOMAIN frame.columns, NEW q \in DOMAIN frame.columns,
                        NEW r \in DOMAIN frame.columns[p]
                 PROVE  LET row == frame.columns[p][r].is
                            other == frame.columns[q][r].is
                            span == frame.columns[p][r].provenance.span
                            doubted == \E i \in IssuesShown(frame.columns[p]) :
                                          /\ i.kind \in {"unverified_year", "zero_marker"}
                                          /\ i.key \in row.sources \cup {row.key}
                        IN /\ row.year = other.year
                           /\ row.value # Null /\ ~doubted =>
                                  row.value = Unit * Cardinality(Held(span[2], other.key))
      BY DEF OutputsShareTheirRows
    <2>1. RowsTrue(frame.columns[p], frame.columns[q], r)
      BY <1>1 DEF FInv, ColumnsTrue
    <2>2. QED
      BY <2>1 DEF RowsTrue, RowTrue
  <1>2. QED
    BY <1>1, FeatureInvariant, PTL

\* A row of a frame without a value (harmonization/rebase.py 180-217) that is not a withheld
\* cell itself tells why in its own issues, which name its Kreis and its year.
THEOREM NullsExplained == FeatureSpec => []NullsExplainedOnTheirRow
  <1>1. ASSUME FInv PROVE NullsExplainedOnTheirRow
    <2> SUFFICES ASSUME frame # Null, NEW p \in DOMAIN frame.columns, NEW r \in DOMAIN frame.columns[p]
                 PROVE  LET row == frame.columns[p][r].is IN
                        row.value = Null /\ row.marker # "." =>
                            \E i \in frame.columns[p][r].issues :
                                i.kind \in {"missing_source", "null_input"} /\ i.target = row.key /\ i.year = row.year
      BY DEF NullsExplainedOnTheirRow
    <2>1. RowsTrue(frame.columns[p], frame.columns[p], r)
      BY <1>1 DEF FInv, ColumnsTrue
    <2>2. QED
      BY <2>1 DEF RowsTrue, RowExplained
  <1>2. QED
    BY <1>1, FeatureInvariant, PTL
-----------------------------------------------------------------------------
\* No false alarm

\* A call with nothing wrong, on borders that are known.
FlawlessCall(c) == borders \in Histories /\ CallOK(c) /\ Flawless(c)

\* Whoever stands is known to.
LEMMA WhoStands ==
  ASSUME NEW y, NEW k
  PROVE  k \in Standing(y) <=> k \in Kreise /\ \E a \in Atoms : borders[y][a] = k
  BY DEF Standing, Held

\* What moved is what was held by the one before and is held by the other after.
LEMMA WhoMoved ==
  ASSUME NEW span, NEW k, NEW t, NEW a
  PROVE  a \in Moved(span, k, t) <=> a \in Atoms /\ borders[span[1]][a] = k /\ borders[span[2]][a] = t
  BY DEF Moved, Held

LEMMA FlawlessBasics ==
  ASSUME NEW c, FlawlessCall(c)
  PROVE  /\ borders \in Histories /\ CallOK(c)
         /\ c.span \in Years \X Years /\ c.span[1] = From(c) /\ c.span[2] = To(c)
         /\ From(c) \in Years /\ To(c) \in Years /\ From(c) \in Int /\ To(c) \in Int /\ From(c) < To(c)
         /\ c.sheet = TrueSheet(c.span) /\ Observed(c) # {}
         /\ Observed(c) \subseteq Kreise \X Years
         /\ borders[From(c)] \in [Atoms -> Kreise] /\ borders[To(c)] \in [Atoms -> Kreise]
  <1>1. /\ c.span \in Years \X Years /\ c.span[1] \in Int /\ c.span[2] \in Int /\ c.span[1] < c.span[2]
        /\ Observed(c) \subseteq Kreise \X Years
    BY DEF FlawlessCall, CallOK, Observed
  <1>2. c.sheet = TrueSheet(c.span) /\ Observed(c) # {} /\ borders \in Histories /\ CallOK(c)
    BY DEF FlawlessCall, Flawless
  <1>3. QED
    BY <1>1, <1>2, HistoriesAreBorders DEF From, To

\* On either side of the reform the borders are those of the key sheet.
LEMMA BordersRest ==
  ASSUME NEW c, FlawlessCall(c), NEW y \in Years
  PROVE  /\ y <= From(c) => borders[y] = borders[From(c)] /\ Standing(y) = Standing(From(c))
         /\ y >= To(c) => borders[y] = borders[To(c)] /\ Standing(y) = Standing(To(c))
  <1>1. /\ y <= From(c) => borders[y] = borders[From(c)]
        /\ y >= To(c) => borders[y] = borders[To(c)]
    BY DEF FlawlessCall, Flawless
  <1>2. QED
    BY <1>1 DEF Standing, Held

\* The rows of the sheet, by their Kreise.
LEMMA RowsAreMoves ==
  ASSUME NEW c, FlawlessCall(c)
  PROVE  /\ \A r \in c.sheet : /\ r.source \in Standing(From(c)) /\ r.target \in Standing(To(c))
                               /\ r.share > 0 /\ r.share \in Int /\ r.copy = 1
         /\ \A a \in Atoms : \E r \in c.sheet :
               r.source = borders[From(c)][a] /\ r.target = borders[To(c)][a] /\ r.share # 0
  <1>1. SheetOK(c.span, c.sheet) /\ \A r \in c.sheet : r.share > 0 /\ r.copy = 1
    BY FlawlessBasics, TrueSheetSound
  <1>2. ASSUME NEW r \in c.sheet
        PROVE  r.source \in Standing(From(c)) /\ r.target \in Standing(To(c)) /\ r.share \in Int
    BY <1>1, FlawlessBasics DEF SheetOK
  <1>3. ASSUME NEW a \in Atoms
        PROVE  \E r \in c.sheet : r.source = borders[From(c)][a] /\ r.target = borders[To(c)][a] /\ r.share # 0
    <2>1. PICK k \in Kreise, t \in Kreise : k = borders[From(c)][a] /\ t = borders[To(c)][a]
      BY FlawlessBasics
    <2>2. a \in Moved(c.span, k, t)
      BY <2>1, WhoMoved, FlawlessBasics
    <2>3. QED
      BY <1>1, <2>1, <2>2 DEF SheetOK
  <1>4. QED
    BY <1>1, <1>2, <1>3

LEMMA SidesOfTheSheet ==
  ASSUME NEW c, FlawlessCall(c)
  PROVE  Sources(c) = Standing(From(c)) /\ Targets(c) = Standing(To(c)) /\ c.sheet # {}
  <1>1. Sources(c) \subseteq Standing(From(c)) /\ Targets(c) \subseteq Standing(To(c))
    BY RowsAreMoves DEF Sources, Targets
  <1>2. ASSUME NEW k \in Standing(From(c)) PROVE k \in Sources(c)
    <2>1. PICK a \in Atoms : borders[From(c)][a] = k
      BY WhoStands
    <2>2. QED
      BY <2>1, RowsAreMoves DEF Sources
  <1>3. ASSUME NEW t \in Standing(To(c)) PROVE t \in Targets(c)
    <2>1. PICK a \in Atoms : borders[To(c)][a] = t
      BY WhoStands
    <2>2. QED
      BY <2>1, RowsAreMoves DEF Targets
  <1>4. c.sheet # {}
    <2>1. PICK o \in Observed(c) : o \in Kreise \X Years
      BY FlawlessBasics
    <2>2. {p[1] : p \in {p \in Observed(c) : p[2] = o[2]}} = Standing(o[2])
      BY DEF FlawlessCall, Flawless
    <2>3. o[1] \in Standing(o[2])
      BY <2>2
    <2>4. PICK a \in Atoms : TRUE
      BY <2>3, WhoStands
    <2>5. QED
      BY <2>4, RowsAreMoves
  <1>5. QED
    BY <1>1, <1>2, <1>3, <1>4

\* The cells of a table without flaws: one with a value for each Kreis that stands.
LEMMA CellsOfTheYear ==
  ASSUME NEW c, FlawlessCall(c), NEW k, NEW y, <<k, y>> \in Observed(c)
  PROVE  /\ k \in Kreise /\ y \in Years /\ (y <= From(c) \/ y >= To(c))
         /\ k \in Standing(y) /\ \A j \in Standing(y) : <<j, y>> \in Observed(c)
         /\ Value(c, k, y) # Null /\ c.cells[<<k, y>>].marker = ""
         /\ k \in Valid(c, y)
  <1>1. k \in Kreise /\ y \in Years
    BY FlawlessBasics
  <1>2. PICK o : o = <<k, y>>
    OBVIOUS
  <1>3. /\ y <= From(c) \/ y >= To(c)
        /\ {p[1] : p \in {p \in Observed(c) : p[2] = y}} = Standing(y)
        /\ c.cells[o].value # Null
    BY <1>2 DEF FlawlessCall, Flawless
  <1>4. k \in Standing(y)
    BY <1>2, <1>3
  <1>5. ASSUME NEW j \in Standing(y) PROVE <<j, y>> \in Observed(c)
    <2>1. PICK p \in Observed(c) : p[2] = y /\ p[1] = j
      BY <1>3
    <2>2. p = <<j, y>>
      BY <2>1, FlawlessBasics
    <2>3. QED
      BY <2>1, <2>2
  <1>6. PICK b \in BOOLEAN : c.cells[o] = Cell(k, y, b)
    BY <1>2 DEF FlawlessCall, CallOK, Observed
  <1>7. /\ b => Cell(k, y, b).value = Null
        /\ ~b => Cell(k, y, b).marker = ""
    BY <1>4 DEF Cell
  <1>8. c.cells[o].marker = ""
    BY <1>3, <1>6, <1>7
  <1>9. k \in Valid(c, y)
    BY <1>1, <1>3, <1>4, BordersRest, SidesOfTheSheet, FlawlessBasics DEF Valid
  <1>10. QED
    BY <1>1, <1>2, <1>3, <1>4, <1>5, <1>8, <1>9 DEF Value

\* Its sheet raises no issue, and none of its Kreise is refused.
LEMMA SheetIsClean ==
  ASSUME NEW c, FlawlessCall(c)
  PROVE  SheetIssues(c) = {} /\ \A k \in Requested(c) : ~SharesRefused(c, k)
  <1>1. ASSUME NEW k \in Sources(c) PROVE OffBy(c, k) = 0
    <2>1. k \in Standing(c.span[1]) /\ One \in Tops
      BY SidesOfTheSheet, FlawlessBasics DEF Tops
    <2> DEFINE sheet == TrueSheet(c.span)
    <2>2. borders \in Histories /\ c.span \in Years \X Years /\ c.sheet = sheet
      BY FlawlessBasics
    <2>3. SheetOK(c.span, sheet) /\ Scaled(c.span, sheet, k, One)
      BY <2>1, <2>2, TrueSheetSound
    <2> HIDE DEF sheet
    <2>4. SumFunction([r \in {r \in sheet : r.source = k} |-> r.share]) = One
      BY <2>1, <2>2, <2>3, SharesAddUp
    <2>5. ShareSum(c, k) = One
      BY <2>2, <2>4 DEF ShareSum
    <2>6. QED
      BY <2>5, SharesDivide DEF OffBy
  <1>2. \A r \in c.sheet : ~(r.share = 0) /\ ~(r.share < 0) /\ ~(r.copy > 1)
    BY RowsAreMoves
  <1>3. Requested(c) \subseteq Sources(c)
    BY DEF Requested
  <1>4. Tolerance \in Nat /\ Tolerance >= 1
    BY SharesDivide
  <1>5. \A k \in Sources(c) : ~(OffBy(c, k) > Tolerance) /\ OffBy(c, k) \notin 1..Tolerance
    BY <1>1, <1>4
  <1>6. \A k \in Requested(c) : ~SharesRefused(c, k)
    BY <1>2, <1>3, <1>5 DEF SharesRefused
  <1>7. SheetIssues(c) = {}
    BY <1>2, <1>3, <1>5 DEF SheetIssues
  <1>8. QED
    BY <1>6, <1>7

\* A sheet between years of the same borders leaves every Kreis unchanged.
LEMMA RestingSheet ==
  ASSUME borders \in Histories, NEW y \in Years, NEW z \in Years, borders[y] = borders[z],
         NEW k \in Standing(y)
  PROVE  Unchanged(TrueSheet(<<y, z>>), k)
  <1> DEFINE span == <<y, z>>
  <1> DEFINE S == TrueSheet(span)
  <1> DEFINE r == ScaledRow(span, k, k, One)
  <1>1. span \in Years \X Years /\ span[1] = y /\ span[2] = z /\ k \in Kreise
    BY DEF Standing
  <1>2. Held(z, k) = Held(y, k) /\ Held(y, k) # {} /\ Moved(span, k, k) = Held(y, k)
    BY <1>1 DEF Held, Standing, Moved
  <1>3. ASSUME NEW q \in S PROVE q.source = q.target /\ (q.source = k => q = r)
    <2>1. PICK j \in Standing(span[1]), t \in Standing(span[2]) :
              Moved(span, j, t) # {} /\ q = ScaledRow(span, j, t, One)
      BY <1>1, TrueRows
    <2>2. j = t
      BY <1>1, <2>1, WhoMoved
    <2>3. q.source = j /\ q.target = t
      BY <2>1, RowFields
    <2>4. QED
      BY <2>1, <2>2, <2>3
  <1>4. r \in S
    BY <1>1, <1>2, TrueRows, MoversStand
  <1>5. r.source = k /\ r.target = k
    BY RowFields
  <1>6. r.share = One
    <2>1. One \in Tops
      BY DEF Tops
    <2>2. (One \div Cardinality(Held(y, k))) * Cardinality(Held(y, k)) = One
      BY <1>2, <2>1, SharePerAtom
    <2>3. One \div Cardinality(Held(y, k)) \in Nat /\ Cardinality(Held(y, k)) \in Nat
      BY <1>2, <2>1, SharePerAtom, Landholding
    <2>4. r.share = Cardinality(Held(y, k)) * (One \div Cardinality(Held(y, k)))
      BY <1>1, <1>2 DEF ScaledRow
    <2>5. QED
      BY <2>2, <2>3, <2>4
  <1>7. One \in Nat /\ One # 0 /\ Tolerance \in Nat
    BY SharesDivide
  <1> HIDE DEF r, S
  <1>8. Moving({q \in S : q.source = k}) = {r} /\ Moving({q \in S : q.target = k}) = {r}
    BY <1>3, <1>4, <1>5, <1>6, <1>7 DEF Moving
  <1>9. r.share \in One - Tolerance .. One + Tolerance
    BY <1>6, <1>7
  <1>10. QED
    BY <1>4, <1>8, <1>9 DEF Unchanged, S

\* A sheet between the years of its table and those of the key sheet is given, and shows
\* no change.
LEMMA BetweenIsGiven ==
  ASSUME NEW c, FlawlessCall(c), NEW k, NEW b \in Between(c, k)
  PROVE  b[2] \in DOMAIN c.others /\ Unchanged(c.others[b[2]], k)
  <1>0. Years \subseteq Int
    BY YearsAreInts
  <1>1. PICK y \in Years, o \in KeyYears(c, k) :
          \/ b = <<y, <<y, y + 1>>>> /\ y < From(c) /\ o <= y
          \/ b = <<y, <<y - 1, y>>>> /\ y > To(c) /\ o >= y
    BY DEF Between
  <1>2. o \in Years /\ k \in Valid(c, o)
    BY DEF KeyYears
  <1>3. b[2] \in DOMAIN c.others
    <2>1. /\ y < From(c) => <<y, y + 1>> \in DOMAIN c.others
          /\ y > To(c) => <<y - 1, y>> \in DOMAIN c.others
      BY DEF FlawlessCall, Flawless
    <2>2. QED
      BY <1>1, <2>1
  <1>4. b[2] \in SingleYears /\ c.others[b[2]] = TrueSheet(b[2])
    BY <1>3 DEF FlawlessCall, CallOK
  <1>5. PICK lo \in Years, hi \in Years : b[2] = <<lo, hi>> /\ hi = lo + 1
    BY <1>4 DEF SingleYears
  <1>6. borders[lo] = borders[hi] /\ k \in Standing(lo)
    <2>1. CASE b[2] = <<y, y + 1>> /\ y < From(c) /\ o <= y
      <3>1. lo <= From(c) /\ hi <= From(c) /\ o <= From(c)
        BY <1>0, <1>2, <1>5, <2>1, FlawlessBasics
      <3>2. k \in Standing(From(c))
        BY <1>2, <3>1, SidesOfTheSheet DEF Valid
      <3>3. QED
        BY <3>1, <3>2, BordersRest
    <2>2. CASE b[2] = <<y - 1, y>> /\ y > To(c) /\ o >= y
      <3>1. lo >= To(c) /\ hi >= To(c) /\ ~(o <= From(c))
        BY <1>0, <1>2, <1>5, <2>2, FlawlessBasics
      <3>2. k \in Standing(To(c))
        BY <1>2, <3>1, SidesOfTheSheet DEF Valid
      <3>3. QED
        BY <3>1, <3>2, BordersRest
    <2>3. QED
      BY <1>1, <2>1, <2>2
  <1>7. Unchanged(TrueSheet(<<lo, hi>>), k)
    BY <1>6, RestingSheet, FlawlessBasics
  <1>8. QED
    BY <1>3, <1>4, <1>5, <1>7

\* Every row that moves something into a Kreis finds the cell of its source.
LEMMA NothingMissing ==
  ASSUME NEW c, FlawlessCall(c), NEW j, NEW y, <<j, y>> \in Observed(c), y <= From(c), NEW t
  PROVE  /\ Missing(c, t, y) = {} /\ Nulls(c, t, y) = {}
         /\ \A r \in Parts(c, t, y) : c.cells[<<r.source, y>>].marker = ""
         /\ \A r \in c.sheet : r.target = t /\ r.share # 0 => r \in Parts(c, t, y)
  <1>1. y \in Years /\ Standing(y) = Standing(From(c)) /\ \A k \in Standing(y) : <<k, y>> \in Observed(c)
    BY CellsOfTheYear, BordersRest
  <1>2. ASSUME NEW r \in c.sheet, r.target = t, r.share # 0
        PROVE  r \in Parts(c, t, y) /\ <<r.source, y>> \in Observed(c)
    BY <1>1, <1>2, RowsAreMoves DEF Moving, Parts
  <1>3. Missing(c, t, y) = {}
    BY <1>2 DEF Missing, Feeders, Moving
  <1>4. ASSUME NEW r \in Parts(c, t, y)
        PROVE  c.cells[<<r.source, y>>].marker = "" /\ Value(c, r.source, y) # Null
    BY CellsOfTheYear DEF Parts
  <1>5. QED
    BY <1>2, <1>3, <1>4 DEF Nulls

\* The table passes every check.
LEMMA FlawlessIsAccepted ==
  ASSUME NEW c, FlawlessCall(c)
  PROVE  Refusal(c) = "none" /\ Incomplete(c) = {} /\ Excluded(c) = {} /\ Unmatched(c) = {}
  <1>1. ASSUME NEW o \in Observed(c)
        PROVE  /\ o[2] <= From(c) \/ o[2] >= To(c)
               /\ o[1] \in Valid(c, o[2])
    <2>1. o = <<o[1], o[2]>>
      BY FlawlessBasics
    <2>2. QED
      BY <2>1, CellsOfTheYear
  <1>2. ~ \E o \in Observed(c) : From(c) < o[2] /\ o[2] < To(c)
    <2> SUFFICES ASSUME NEW o \in Observed(c), From(c) < o[2], o[2] < To(c) PROVE FALSE
      OBVIOUS
    <2>1. o[2] \in Years
      BY FlawlessBasics
    <2>2. o[2] \in Int /\ From(c) \in Int /\ To(c) \in Int
      BY <2>1, FlawlessBasics, YearsAreInts
    <2>3. o[2] <= From(c) \/ o[2] >= To(c)
      BY <1>1
    <2>4. QED
      BY <2>2, <2>3
  <1>3. \A k \in Kreise : ~Changed(c, k)
    BY BetweenIsGiven DEF Changed
  <1>4. ~Contradicted(c) /\ Excluded(c) = {} /\ Unmatched(c) = {}
    BY <1>1 DEF Contradicted, Excluded, Unmatched
  <1>5. Incomplete(c) = {}
    <2> SUFFICES ASSUME NEW p \in Reached(c) PROVE Missing(c, p[1], p[2]) = {}
      BY DEF Incomplete
    <2>1. p[2] <= From(c) /\ Parts(c, p[1], p[2]) # {}
      BY DEF Reached
    <2>2. PICK r \in Parts(c, p[1], p[2]) : <<r.source, p[2]>> \in Observed(c)
      BY <2>1 DEF Parts
    <2>3. QED
      BY <2>1, <2>2, NothingMissing
  <1>6. c.sheet # {} /\ \A k \in Requested(c) : ~SharesRefused(c, k)
    BY SidesOfTheSheet, SheetIsClean
  <1>7. Refusal(c) = "none"
    BY <1>2, <1>3, <1>4, <1>5, <1>6 DEF Refusal
  <1>8. QED
    BY <1>4, <1>5, <1>7

LEMMA FlawlessHasNoIssues ==
  ASSUME NEW c, FlawlessCall(c)
  PROVE  Issues(c) = {}
  <1>1. UnverifiedIssues(c) = {}
    BY BetweenIsGiven DEF UnverifiedIssues
  <1>2. ExcludedIssues(c) = {} /\ {Issue("unmatched", o[1], o[2], Null) : o \in Unmatched(c)} = {}
    BY FlawlessIsAccepted DEF ExcludedIssues
  <1>3. ASSUME NEW p \in Answered(c) PROVE RowIssues(c, p[1], p[2]) = {}
    <2>1. p[2] <= From(c) /\ Parts(c, p[1], p[2]) # {}
      BY DEF Answered, Reached
    <2>2. PICK r \in Parts(c, p[1], p[2]) : <<r.source, p[2]>> \in Observed(c)
      BY <2>1 DEF Parts
    <2>3. /\ Missing(c, p[1], p[2]) = {} /\ Nulls(c, p[1], p[2]) = {}
          /\ \A q \in Parts(c, p[1], p[2]) : c.cells[<<q.source, p[2]>>].marker = ""
      BY <2>1, <2>2, NothingMissing
    <2>4. QED
      BY <2>3 DEF RowIssues
  <1>4. SheetIssues(c) = {}
    BY SheetIsClean
  <1>5. QED
    BY <1>1, <1>2, <1>3, <1>4 DEF Issues

\* Each of its rows has the true value.
LEMMA FlawlessRows ==
  ASSUME NEW c, FlawlessCall(c), NEW row \in Rows(c)
  PROVE  row.value = Unit * Cardinality(Held(To(c), row.key)) /\ row.key \in Standing(To(c))
  <1>1. ResultOf(c)
    BY FlawlessIsAccepted, FlawlessBasics DEF ResultOf
  <1>2. \A k, lo, hi : Verified(c, k, lo, hi)
    BY FlawlessHasNoIssues DEF Verified
  <1>3. PICK k, y : LaterRow(c, row, k, y) \/ PassedRow(c, row, k, y) \/ SummedRow(c, row, k, y)
    BY <1>1, RowOrigin
  <1>4. CASE LaterRow(c, row, k, y)
    <2>1. <<k, y>> \in Observed(c) /\ row.value = Value(c, k, y) /\ row.key = k /\ k \in Targets(c)
      BY <1>4 DEF LaterRow, ObservedRow, Row
    <2>2. row.value # Null
      BY <2>1, CellsOfTheYear
    <2>3. row.value = Unit * Cardinality(Held(To(c), row.key))
      BY <1>1, <1>2, <1>4, <2>2, LaterIsTrue
    <2>4. QED
      BY <2>1, <2>3, SidesOfTheSheet
  <1>5. ASSUME <<k, y>> \in Answered(c), y \in Years, y <= From(c)
        PROVE  /\ k \in Standing(To(c)) /\ Missing(c, k, y) = {} /\ Nulls(c, k, y) = {}
               /\ \A r \in Parts(c, k, y) : Value(c, r.source, y) # Null
    <2>1. k \in Targets(c) /\ Parts(c, k, y) # {}
      BY <1>5 DEF Answered, Reached
    <2>2. \A r \in Parts(c, k, y) : <<r.source, y>> \in Observed(c)
      BY DEF Parts
    <2>3. PICK r \in Parts(c, k, y) : <<r.source, y>> \in Observed(c)
      BY <2>1, <2>2
    <2>4. Missing(c, k, y) = {} /\ Nulls(c, k, y) = {}
      BY <1>5, <2>3, NothingMissing
    <2>5. QED
      BY <2>1, <2>2, <2>4, CellsOfTheYear, SidesOfTheSheet
  <1>6. CASE PassedRow(c, row, k, y)
    <2>1. /\ <<k, y>> \in Answered(c) /\ y \in Years /\ y <= From(c) /\ PassesThrough(c, k, y)
          /\ row.value = Value(c, k, y) /\ row.key = k
      BY <1>6 DEF PassedRow, ObservedRow, Row
    <2>2. PICK r \in Parts(c, k, y) : TRUE
      BY <2>1 DEF PassesThrough
    <2>3. r.source \in Feeders(c, k)
      BY <2>2 DEF Parts, Feeders, Moving
    <2>4. r.source = k
      BY <2>1, <2>3 DEF PassesThrough
    <2>5. row.value # Null
      BY <1>5, <2>1, <2>2, <2>4
    <2>6. row.value = Unit * Cardinality(Held(To(c), row.key))
      BY <1>1, <1>2, <1>6, <2>5, PassedIsTrue
    <2>7. QED
      BY <1>5, <2>1, <2>6
  <1>7. CASE SummedRow(c, row, k, y)
    <2>1. /\ <<k, y>> \in Answered(c) /\ y \in Years /\ y <= From(c)
          /\ row.key = k
          /\ row.value = IF Nulls(c, k, y) = {} /\ Missing(c, k, y) = {}
                         THEN SumFunction(Weights(c, k, y)) ELSE Null
      BY <1>7 DEF SummedRow, RebasedRow, Row, Weights
    <2>2. row.value = SumFunction(Weights(c, k, y)) /\ SumFunction(Weights(c, k, y)) \in Int
      BY <1>1, <1>5, <2>1, WeightsAreInts
    <2>3. row.value # Null
      BY <2>2, NullIsNoKreis
    <2>4. \A s \in row.sources : Verified(c, s, y, From(c))
      BY <1>2
    <2>5. row.value = Unit * Cardinality(Held(To(c), row.key))
      BY <1>1, <1>7, <2>3, <2>4, SummedIsTrue
    <2>6. QED
      BY <1>5, <2>1, <2>5
  <1>8. QED
    BY <1>3, <1>4, <1>6, <1>7

\* Each Kreis of the target borders has a row in each of its years.
LEMMA FlawlessIsComplete ==
  ASSUME NEW c, FlawlessCall(c), NEW o \in Observed(c), NEW t \in Standing(To(c))
  PROVE  \E row \in Rows(c) : row.year = o[2] /\ row.key = t
  <1>1. PICK k, y : o = <<k, y>> /\ y = o[2] /\ k \in Kreise /\ y \in Years
    BY FlawlessBasics
  <1>2. <<k, y>> \in Observed(c) /\ (y <= From(c) \/ y >= To(c))
    BY <1>1, CellsOfTheYear
  <1>3. CASE y >= To(c)
    <2>1. <<t, y>> \in Observed(c)
      BY <1>1, <1>2, <1>3, BordersRest, CellsOfTheYear
    <2>2. PICK p : p = <<t, y>>
      OBVIOUS
    <2>3. p \in Later(c)
      BY <1>3, <2>1, <2>2, SidesOfTheSheet DEF Later
    <2>4. ObservedRow(c, p[1], p[2]) \in Rows(c)
      BY <2>3 DEF Rows
    <2>5. QED
      BY <1>1, <2>2, <2>4 DEF ObservedRow, Row
  <1>4. CASE y <= From(c)
    <2>1. PICK a \in Atoms : borders[To(c)][a] = t
      BY WhoStands
    <2>2. PICK r \in c.sheet : r.target = t /\ r.share # 0
      BY <2>1, RowsAreMoves
    <2>3. r \in Parts(c, t, y)
      BY <1>2, <1>4, <2>2, NothingMissing
    <2>4. <<t, y>> \in Reached(c)
      BY <1>1, <1>4, <2>3, SidesOfTheSheet DEF Reached
    <2>5. <<t, y>> \in Answered(c)
      BY <2>4, FlawlessIsAccepted DEF Answered
    <2>6. QED
      BY <1>1, <2>5, AnsweredRow
  <1>5. QED
    BY <1>2, <1>3, <1>4

\* A table the re-basing has nothing to find fault with (rebase.py 153-447) is neither
\* refused nor doubted, and comes out whole: a true value for every Kreis of the target
\* borders in every year of the table, for every reform and every amount of territory.
THEOREM NoFalseAlarm == Spec => []FlawlessComesThrough
  <1>1. IInv => FlawlessComesThrough
    <2> SUFFICES ASSUME IInv, answer # Null, Flawless(call)
                 PROVE  /\ answer.outcome = "result" /\ answer.issues = {}
                        /\ \A row \in answer.rows : row.value = Unit * Cardinality(Held(To(call), row.key))
                        /\ \A o \in Observed(call) :
                              {row.key : row \in {row \in answer.rows : row.year = o[2]}} = Standing(To(call))
      BY DEF FlawlessComesThrough
    <2>1. PICK c : c = call
      OBVIOUS
    <2>2. FlawlessCall(c)
      BY <2>1 DEF IInv, AnswerOK, FlawlessCall
    <2>3. Refusal(c) = "none" /\ Issues(c) = {}
      BY <2>2, FlawlessIsAccepted, FlawlessHasNoIssues
    <2>4. answer.outcome = "result" /\ answer.rows = Rows(c) /\ answer.issues = {}
      BY <2>1, <2>3 DEF IInv, AnswerOK
    <2>5. \A row \in Rows(c) : row.value = Unit * Cardinality(Held(To(c), row.key)) /\ row.key \in Standing(To(c))
      BY <2>2, FlawlessRows
    <2>6. \A o \in Observed(c) : \A t \in Standing(To(c)) : \E row \in Rows(c) : row.year = o[2] /\ row.key = t
      BY <2>2, FlawlessIsComplete
    <2>7. \A o \in Observed(c) : {row.key : row \in {row \in Rows(c) : row.year = o[2]}} = Standing(To(c))
      BY <2>5, <2>6
    <2>8. QED
      BY <2>1, <2>4, <2>5, <2>7
  <1>2. QED
    BY <1>1, RebaseInit, RebaseNext, PTL DEF Spec
=============================================================================
