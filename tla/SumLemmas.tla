----------------------------- MODULE SumLemmas ------------------------------
(***************************************************************************)
(* Induction in a form the provers can use (a set of numbers has a least   *)
(* element), sums of a function over a finite set, division, and positions *)
(* in a ring.                                                              *)
(***************************************************************************)
EXTENDS Integers, FiniteSets, FiniteSetsExt, Functions, FiniteSetTheorems,
        WellFoundedInduction, TLAPS

(* A set of natural numbers that is not empty has a least element.         *)
LEMMA LeastElement ==
    ASSUME NEW T \in SUBSET Nat, T # {}
    PROVE  \E n \in T : \A m \in T : n <= m
<1> DEFINE Less == {ss \in Nat \X Nat : ss[1] < ss[2]}
<1>1. IsWellFoundedOn(Less, Nat)
  BY NatLessThanWellFounded DEF OpToRel
<1>2. PICK n \in T : \A m \in T : ~(<<m, n>> \in Less)
  BY <1>1, WFMin
<1>3. ASSUME NEW m \in T
      PROVE  n <= m
  <2>1. SUFFICES ASSUME m < n
                 PROVE  FALSE
    OBVIOUS
  <2>2. <<m, n>> \in Nat \X Nat /\ <<m, n>>[1] < <<m, n>>[2]
    BY <2>1
  <2> QED
    BY <2>2, <1>2
<1> QED
  BY <1>3

(* Induction: a set that has 0 and with each number its successor is Nat.  *)
LEMMA SetInduction ==
    ASSUME NEW P, 0 \in P, \A n \in Nat : n \in P => n + 1 \in P
    PROVE  Nat \subseteq P
<1>1. SUFFICES ASSUME Nat \ P # {}
               PROVE  FALSE
  OBVIOUS
<1>2. PICK n \in Nat \ P : \A m \in Nat \ P : n <= m
  BY <1>1, LeastElement
<1>3. n # 0 /\ n - 1 \in Nat /\ n - 1 \notin Nat \ P
  BY <1>2
<1> QED
  BY <1>2, <1>3

-----------------------------------------------------------------------------
Pick(s) == CHOOSE x \in s : TRUE

(* The equation by which the fold of SumFunctionOnSet is defined.          *)
SumsOver(g, f, D) ==
    g = [s \in D |-> IF s = {} THEN 0 ELSE f[Pick(s)] + g[s \ {Pick(s)}]]

LEMMA SumsExist ==
    ASSUME NEW f, NEW S, IsFiniteSet(S)
    PROVE  \E g : SumsOver(g, f, SUBSET S)
<1> DEFINE Upto(n) == {s \in SUBSET S : Cardinality(s) <= n}
           P == {n \in Nat : \E g : SumsOver(g, f, Upto(n))}
<1>0. \A s \in SUBSET S : IsFiniteSet(s) /\ Cardinality(s) \in Nat
  BY FS_Subset, FS_CardinalityType
<1>1. 0 \in P
  <2>1. \A s \in Upto(0) : s = {}
    BY <1>0, FS_EmptySet
  <2>2. SumsOver([s \in Upto(0) |-> 0], f, Upto(0))
    BY <2>1 DEF SumsOver
  <2> QED
    BY <2>2
<1>2. ASSUME NEW n \in Nat, n \in P
      PROVE  n + 1 \in P
  <2>1. PICK g : SumsOver(g, f, Upto(n))
    BY <1>2
  <2> DEFINE h == [s \in Upto(n + 1) |-> IF s = {} THEN 0 ELSE f[Pick(s)] + g[s \ {Pick(s)}]]
  <2>2. ASSUME NEW s \in Upto(n + 1), s # {}
        PROVE  s \ {Pick(s)} \in Upto(n)
    <3>1. Pick(s) \in s
      BY <2>2 DEF Pick
    <3>2. Cardinality(s \ {Pick(s)}) = Cardinality(s) - 1
      BY <3>1, <1>0, FS_RemoveElement
    <3> QED
      BY <3>2, <1>0
  <2>3. \A s \in Upto(n) : s \in Upto(n + 1) /\ h[s] = g[s]
    <3>1. \A s \in Upto(n) : s \in Upto(n + 1)
      BY <1>0
    <3> QED
      BY <3>1, <2>1 DEF SumsOver
  <2>4. SumsOver(h, f, Upto(n + 1))
    BY <2>2, <2>3 DEF SumsOver
  <2>5. \E k : SumsOver(k, f, Upto(n + 1))
    <3> HIDE DEF h
    <3> QED
      BY <2>4
  <2> HIDE DEF Upto
  <2> QED
    BY <2>5
<1>3. Nat \subseteq P
  <2> HIDE DEF P
  <2> QED
    BY <1>1, <1>2, SetInduction
<1>4. Upto(Cardinality(S)) = SUBSET S /\ Cardinality(S) \in Nat
  BY <1>0, FS_Subset, FS_CardinalityType
<1> QED
  BY <1>3, <1>4

LEMMA SumEquation ==
    ASSUME NEW f, NEW S, IsFiniteSet(S)
    PROVE  \E g : SumsOver(g, f, SUBSET S) /\ SumFunctionOnSet(f, S) = g[S]
<1> DEFINE G == CHOOSE g : g = [s \in SUBSET S |->
                                  IF s = {} THEN 0 ELSE f[Pick(s)] + g[s \ {Pick(s)}]]
<1>1. SumFunctionOnSet(f, S) = G[S]
  BY DEF SumFunctionOnSet, FoldFunctionOnSet, MapThenFoldSet, Pick
<1>2. SumsOver(G, f, SUBSET S)
  <2>1. PICK g : g = [s \in SUBSET S |->
                        IF s = {} THEN 0 ELSE f[Pick(s)] + g[s \ {Pick(s)}]]
    <3>1. PICK g : SumsOver(g, f, SUBSET S)
      BY SumsExist
    <3> QED
      BY <3>1, Zenon DEF SumsOver
  <2>2. G = [s \in SUBSET S |->
                        IF s = {} THEN 0 ELSE f[Pick(s)] + G[s \ {Pick(s)}]]
    BY <2>1, Zenon
  <2> QED
    BY <2>2, Zenon DEF SumsOver
<1> QED
  <2> HIDE DEF G
  <2> QED
    BY <1>1, <1>2

(* Induction over the subsets of a finite set.                             *)
LEMMA SubsetInduction ==
    ASSUME NEW S, IsFiniteSet(S), NEW P, {} \in P,
           \A T \in SUBSET S : T # {} /\ (\A x \in T : T \ {x} \in P) => T \in P
    PROVE  \A T \in SUBSET S : T \in P
<1> DEFINE Q == {n \in Nat : \A T \in SUBSET S : Cardinality(T) = n => T \in P}
<1>0. \A T \in SUBSET S : IsFiniteSet(T) /\ Cardinality(T) \in Nat
  BY FS_Subset, FS_CardinalityType
<1>1. 0 \in Q
  BY <1>0, FS_EmptySet
<1>2. ASSUME NEW n \in Nat, n \in Q
      PROVE  n + 1 \in Q
  <2>1. SUFFICES ASSUME NEW T \in SUBSET S, Cardinality(T) = n + 1
                 PROVE  T \in P
    OBVIOUS
  <2>2. T # {}
    <3>1. Cardinality(T) # 0
      BY <2>1
    <3> QED
      BY <3>1, FS_EmptySet
  <2>3. ASSUME NEW x \in T
        PROVE  T \ {x} \in P
    <3>1. IsFiniteSet(T) /\ Cardinality(T) = n + 1
      BY <2>1, <1>0
    <3>2. Cardinality(T \ {x}) = Cardinality(T) - 1
      BY <3>1, FS_RemoveElement
    <3>3. Cardinality(T \ {x}) = n
      BY <3>1, <3>2
    <3> QED
      BY <3>3, <1>2
  <2> QED
    BY <2>2, <2>3
<1>3. Nat \subseteq Q
  <2> HIDE DEF Q
  <2> QED
    BY <1>1, <1>2, SetInduction
<1> QED
  BY <1>0, <1>3

(* The sums of f over all subsets of S.                                     *)
SumsOf(g, f, S) == SumsOver(g, f, SUBSET S)

LEMMA SumsAgree ==
    ASSUME NEW f, NEW S, NEW T \in SUBSET S, NEW g, NEW h, IsFiniteSet(S),
           SumsOf(g, f, S), SumsOf(h, f, T)
    PROVE  g[T] = h[T]
<1> DEFINE Q == {n \in Nat : \A s \in SUBSET T : Cardinality(s) = n => g[s] = h[s]}
<1>0. \A s \in SUBSET T : IsFiniteSet(s) /\ Cardinality(s) \in Nat
  BY FS_Subset, FS_CardinalityType
<1>1. 0 \in Q
  <2>1. \A s \in SUBSET T : Cardinality(s) = 0 => s = {}
    BY <1>0, FS_EmptySet
  <2> QED
    BY <2>1 DEF SumsOver, SumsOf
<1>2. ASSUME NEW n \in Nat, n \in Q
      PROVE  n + 1 \in Q
  <2>1. SUFFICES ASSUME NEW s \in SUBSET T, Cardinality(s) = n + 1
                 PROVE  g[s] = h[s]
    OBVIOUS
  <2>2. s # {}
    BY <2>1, FS_EmptySet
  <2>3. Pick(s) \in s
    BY <2>2 DEF Pick
  <2>4. Cardinality(s \ {Pick(s)}) = n
    <3>1. IsFiniteSet(s) /\ Cardinality(s) = n + 1
      BY <2>1, <1>0
    <3>2. Cardinality(s \ {Pick(s)}) = Cardinality(s) - 1
      BY <2>3, <3>1, FS_RemoveElement
    <3> QED
      BY <3>1, <3>2
  <2>5. g[s \ {Pick(s)}] = h[s \ {Pick(s)}]
    BY <2>4, <1>2
  <2> QED
    BY <2>2, <2>5 DEF SumsOver, SumsOf
<1>3. Nat \subseteq Q
  <2> HIDE DEF Q
  <2> QED
    BY <1>1, <1>2, SetInduction
<1> QED
  BY <1>0, <1>3

LEMMA SumEmpty ==
    ASSUME NEW f
    PROVE  SumFunctionOnSet(f, {}) = 0
<1>1. PICK g : SumsOf(g, f, {}) /\ SumFunctionOnSet(f, {}) = g[{}]
  BY SumEquation , FS_EmptySet DEF SumsOf
<1>2. {} \in SUBSET {}
  OBVIOUS
<1> QED
  BY <1>1, <1>2 DEF SumsOver, SumsOf

LEMMA SumPick ==
    ASSUME NEW f, NEW S, IsFiniteSet(S), S # {}
    PROVE  /\ Pick(S) \in S
           /\ SumFunctionOnSet(f, S) = f[Pick(S)] + SumFunctionOnSet(f, S \ {Pick(S)})
<1>1. Pick(S) \in S
  BY DEF Pick
<1>t. PICK T : T = S \ {Pick(S)}
  OBVIOUS
<1>2. PICK g : SumsOf(g, f, S) /\ SumFunctionOnSet(f, S) = g[S]
  BY SumEquation DEF SumsOf
<1>3. IsFiniteSet(T)
  BY <1>t, FS_Subset
<1>4. PICK h : SumsOf(h, f, T) /\ SumFunctionOnSet(f, T) = h[T]
  BY <1>3, SumEquation DEF SumsOf
<1>5. g[T] = h[T]
  <2>1. T \in SUBSET S /\ SumsOf(g, f, S) /\ SumsOf(h, f, T) /\ IsFiniteSet(S)
    BY <1>t, <1>2, <1>4
  <2> QED
    BY <2>1, SumsAgree
<1>6. g[S] = f[Pick(S)] + g[T]
  BY <1>2, <1>t DEF SumsOver, SumsOf
<1> QED
  BY <1>t, <1>1, <1>2, <1>4, <1>5, <1>6

(* A sum of integers is an integer, one of natural numbers a natural.      *)
LEMMA SumType ==
    ASSUME NEW f, NEW S, IsFiniteSet(S), NEW D \in {Int, Nat}, \A x \in S : f[x] \in D
    PROVE  \A T \in SUBSET S : SumFunctionOnSet(f, T) \in D
<1> DEFINE P == {T \in SUBSET S : SumFunctionOnSet(f, T) \in D}
<1>1. {} \in P
  BY SumEmpty
<1>2. ASSUME NEW T \in SUBSET S, T # {}, \A x \in T : T \ {x} \in P
      PROVE  T \in P
  <2>1. /\ Pick(T) \in T
        /\ SumFunctionOnSet(f, T) = f[Pick(T)] + SumFunctionOnSet(f, T \ {Pick(T)})
    BY <1>2, SumPick, FS_Subset
  <2>2. f[Pick(T)] \in D /\ SumFunctionOnSet(f, T \ {Pick(T)}) \in D
    BY <2>1, <1>2
  <2> QED
    BY <2>1, <2>2
<1>3. \A T \in SUBSET S : T \in P
  <2> HIDE DEF P
  <2> QED
    BY <1>1, <1>2, SubsetInduction
<1> QED
  BY <1>3

(* Any member of the set can be the last one added.                        *)
LEMMA SumRemove ==
    ASSUME NEW f, NEW S, IsFiniteSet(S), \A x \in S : f[x] \in Int
    PROVE  /\ SumFunctionOnSet(f, S) \in Int
           /\ \A x \in S : SumFunctionOnSet(f, S) = f[x] + SumFunctionOnSet(f, S \ {x})
<1> DEFINE Sum(T) == SumFunctionOnSet(f, T)
           P == {T \in SUBSET S : Sum(T) \in Int /\ \A x \in T : Sum(T) = f[x] + Sum(T \ {x})}
<1>1. {} \in P
  BY SumEmpty
<1>2. ASSUME NEW T \in SUBSET S, T # {}, \A x \in T : T \ {x} \in P
      PROVE  T \in P
  <2>1. Pick(T) \in T /\ Sum(T) = f[Pick(T)] + Sum(T \ {Pick(T)})
    BY <1>2, SumPick, FS_Subset
  <2>p. PICK p : p = Pick(T)
    OBVIOUS
  <2>2. p \in T /\ p \in S /\ Sum(T) = f[p] + Sum(T \ {p}) /\ Sum(T \ {p}) \in Int
    BY <2>1, <2>p, <1>2
  <2>3. Sum(T) \in Int
    BY <2>2
  <2>4. ASSUME NEW x \in T, x # p
        PROVE  Sum(T) = f[x] + Sum(T \ {x})
    <3>1. x \in T \ {p} /\ p \in T \ {x} /\ (T \ {p}) \ {x} = (T \ {x}) \ {p}
      BY <2>2, <2>4
    <3> DEFINE r == Sum((T \ {x}) \ {p})
    <3>2. Sum(T \ {p}) = f[x] + r /\ Sum(T \ {x}) = f[p] + r
      BY <3>1, <2>2, <1>2
    <3>3. f[x] \in Int /\ f[p] \in Int
      BY <2>2
    <3>4. r \in Int
      BY SumType
    <3> HIDE DEF r, Sum
    <3> QED
      BY <3>2, <3>3, <3>4, <2>2
  <2> QED
    BY <2>2, <2>3, <2>4
<1>3. \A T \in SUBSET S : T \in P
  <2> HIDE DEF P
  <2> QED
    BY <1>1, <1>2, SubsetInduction
<1> QED
  BY <1>3

(* Sums are linear: stated for the combination that the division with      *)
(* remainder of every term by k gives.                                     *)
LEMMA SumCombine ==
    ASSUME NEW S, IsFiniteSet(S), NEW k \in Int, NEW a, NEW b, NEW c, NEW d,
           \A x \in S : /\ a[x] \in Int /\ b[x] \in Int /\ c[x] \in Int /\ d[x] \in Int
                        /\ a[x] + b[x] = k * c[x] + d[x]
    PROVE  SumFunctionOnSet(a, S) + SumFunctionOnSet(b, S)
             = k * SumFunctionOnSet(c, S) + SumFunctionOnSet(d, S)
<1> DEFINE A(T) == SumFunctionOnSet(a, T)
           B(T) == SumFunctionOnSet(b, T)
           C(T) == SumFunctionOnSet(c, T)
           D(T) == SumFunctionOnSet(d, T)
           P == {T \in SUBSET S : A(T) + B(T) = k * C(T) + D(T)}
<1>1. {} \in P
  BY SumEmpty
<1>2. ASSUME NEW T \in SUBSET S, T # {}, \A x \in T : T \ {x} \in P
      PROVE  T \in P
  <2>1. PICK x \in T : TRUE
    BY <1>2
  <2>2. IsFiniteSet(T)
    BY FS_Subset
  <2>3. A(T) = a[x] + A(T \ {x}) /\ B(T) = b[x] + B(T \ {x})
    BY <2>2, SumRemove
  <2>4. C(T) = c[x] + C(T \ {x}) /\ D(T) = d[x] + D(T \ {x})
    BY <2>2, SumRemove
  <2>5. /\ A(T \ {x}) \in Int /\ B(T \ {x}) \in Int
        /\ C(T \ {x}) \in Int /\ D(T \ {x}) \in Int
    BY SumType
  <2>6. /\ a[x] \in Int /\ b[x] \in Int /\ c[x] \in Int /\ d[x] \in Int
        /\ a[x] + b[x] = k * c[x] + d[x]
    OBVIOUS
  <2>7. A(T \ {x}) + B(T \ {x}) = k * C(T \ {x}) + D(T \ {x})
    BY <1>2
  <2>8. k * (c[x] + C(T \ {x})) = k * c[x] + k * C(T \ {x})
    <3> HIDE DEF C
    <3> QED
      BY <2>5, <2>6
  <2>9. A(T) + B(T) = k * C(T) + D(T)
    <3>1. k * c[x] \in Int /\ k * C(T \ {x}) \in Int
      <4> HIDE DEF C
      <4> QED
        BY <2>5, <2>6
    <3> HIDE DEF A, B, C, D
    <3>2. A(T) + B(T) = (a[x] + b[x]) + (A(T \ {x}) + B(T \ {x}))
      BY <2>3, <2>5, <2>6
    <3> QED
      BY <3>1, <3>2, <2>4, <2>5, <2>6, <2>7, <2>8
  <2> QED
    BY <2>9
<1>3. \A T \in SUBSET S : T \in P
  <2> HIDE DEF P
  <2> QED
    BY <1>1, <1>2, SubsetInduction
<1> QED
  BY <1>3

(* A sum depends on the values over its set only.                          *)
LEMMA SumEqual ==
    ASSUME NEW S, IsFiniteSet(S), NEW a, NEW d, \A x \in S : a[x] \in Int /\ d[x] = a[x]
    PROVE  SumFunctionOnSet(d, S) = SumFunctionOnSet(a, S)
<1> DEFINE P == {T \in SUBSET S : SumFunctionOnSet(d, T) = SumFunctionOnSet(a, T)}
<1>1. {} \in P
  BY SumEmpty
<1>2. ASSUME NEW T \in SUBSET S, T # {}, \A x \in T : T \ {x} \in P
      PROVE  T \in P
  <2>1. PICK x \in T : TRUE
    BY <1>2
  <2>2. IsFiniteSet(T) /\ \A y \in T : a[y] \in Int /\ d[y] \in Int
    BY FS_Subset
  <2>3. /\ SumFunctionOnSet(a, T) = a[x] + SumFunctionOnSet(a, T \ {x})
        /\ SumFunctionOnSet(d, T) = d[x] + SumFunctionOnSet(d, T \ {x})
    BY <2>2, SumRemove
  <2>4. SumFunctionOnSet(d, T \ {x}) = SumFunctionOnSet(a, T \ {x}) /\ d[x] = a[x]
    BY <1>2
  <2> QED
    BY <2>3, <2>4
<1>3. \A T \in SUBSET S : T \in P
  <2> HIDE DEF P
  <2> QED
    BY <1>1, <1>2, SubsetInduction
<1> QED
  BY <1>3

(* One term changes.                                                       *)
LEMMA SumUpdate ==
    ASSUME NEW S, IsFiniteSet(S), NEW a, NEW d, NEW x \in S, d[x] \in Int,
           \A y \in S : a[y] \in Int, \A y \in S \ {x} : d[y] = a[y]
    PROVE  SumFunctionOnSet(d, S) = SumFunctionOnSet(a, S) - a[x] + d[x]
<1>1. \A y \in S : d[y] \in Int
  OBVIOUS
<1>2. /\ SumFunctionOnSet(a, S) = a[x] + SumFunctionOnSet(a, S \ {x})
      /\ SumFunctionOnSet(d, S) = d[x] + SumFunctionOnSet(d, S \ {x})
  BY <1>1, SumRemove
<1>3. IsFiniteSet(S \ {x})
  BY FS_Subset
<1>4. SumFunctionOnSet(d, S \ {x}) = SumFunctionOnSet(a, S \ {x})
  BY <1>3, SumEqual
<1>5. SumFunctionOnSet(a, S \ {x}) \in Int
  BY SumType
<1> QED
  BY <1>2, <1>4, <1>5

(* The classes of a map h into S partition its domain.                     *)
LEMMA SumCount ==
    ASSUME NEW S, IsFiniteSet(S), NEW X, IsFiniteSet(X), NEW h, NEW n,
           \A x \in X : h[x] \in S,
           \A p \in S : n[p] = Cardinality({x \in X : h[x] = p})
    PROVE  SumFunctionOnSet(n, S) = Cardinality(X)
<1> DEFINE Class(T) == {x \in X : h[x] \in T}
           P == {T \in SUBSET S : SumFunctionOnSet(n, T) = Cardinality(Class(T))}
<1>0. ASSUME NEW p \in S
      PROVE  n[p] \in Int
  <2> DEFINE V == {x \in X : h[x] = p}
  <2>1. V \in SUBSET X /\ n[p] = Cardinality(V)
    OBVIOUS
  <2> HIDE DEF V
  <2> QED
    BY <2>1, FS_Subset, FS_CardinalityType
<1>1. {} \in P
  <2>1. Class({}) = {}
    OBVIOUS
  <2> QED
    BY <2>1, SumEmpty, FS_EmptySet
<1>2. ASSUME NEW T \in SUBSET S, T # {}, \A p \in T : T \ {p} \in P
      PROVE  T \in P
  <2>1. PICK p \in T : TRUE
    BY <1>2
  <2>2. IsFiniteSet(T) /\ \A y \in T : n[y] \in Int
    BY <1>0, FS_Subset
  <2>3. SumFunctionOnSet(n, T) = n[p] + SumFunctionOnSet(n, T \ {p})
    BY <2>2, SumRemove
  <2>4. SumFunctionOnSet(n, T \ {p}) = Cardinality(Class(T \ {p}))
    BY <1>2
  <2> DEFINE U == Class(T \ {p})
             V == {x \in X : h[x] = p}
  <2>5. Class(T) = U \cup V /\ U \cap V = {} /\ U \in SUBSET X /\ V \in SUBSET X
    OBVIOUS
  <2>6. n[p] = Cardinality(V) /\ IsFiniteSet(U) /\ IsFiniteSet(V)
    BY <2>5, FS_Subset
  <2>7. Cardinality(Class(T)) = Cardinality(U) + Cardinality(V)
    <3> HIDE DEF U, V, Class
    <3>1. Cardinality(U \cup V) = Cardinality(U) + Cardinality(V) - Cardinality(U \cap V)
      BY <2>6, FS_Union
    <3>2. Cardinality(U \cap V) = 0 /\ Cardinality(U) \in Nat /\ Cardinality(V) \in Nat
      BY <2>5, <2>6, FS_EmptySet, FS_CardinalityType
    <3> QED
      BY <3>1, <3>2, <2>5
  <2>8. Cardinality(U) \in Nat /\ Cardinality(V) \in Nat
    <3> HIDE DEF U, V
    <3> QED
      BY <2>6, FS_CardinalityType
  <2> HIDE DEF U, V
  <2>9. SumFunctionOnSet(n, T) = Cardinality(Class(T))
    BY <2>3, <2>4, <2>6, <2>7, <2>8 DEF U
  <2> QED
    BY <2>9
<1>3. S \in P
  <2>1. \A T \in SUBSET S : T \in P
    <3> HIDE DEF P
    <3> QED
      BY <1>1, <1>2, SubsetInduction
  <2> QED
    BY <2>1
<1>4. Class(S) = X
  OBVIOUS
<1> QED
  BY <1>3, <1>4
-----------------------------------------------------------------------------
(* Division with remainder.                                                *)
LEMMA DivMod ==
    ASSUME NEW a \in Nat, NEW b \in Nat \ {0}
    PROVE  /\ a \div b \in Nat /\ a % b \in 0 .. b - 1
           /\ a = b * (a \div b) + (a % b)
  OBVIOUS

(* A remainder of zero.                                                    *)
LEMMA Multiple ==
    ASSUME NEW a \in Nat, NEW b \in Nat \ {0}, a % b = 0
    PROVE  \E k \in Nat : a = b * k
<1>1. a \div b \in Nat /\ a = b * (a \div b) + (a % b)
  BY DivMod
<1>2. PICK k \in Nat : k = a \div b
  BY <1>1
<1>3. a = b * k + 0 /\ b * k \in Nat
  BY <1>1, <1>2
<1> QED
  BY <1>3

(* A quotient is determined by the interval it lies in.                    *)
LEMMA DivUnique ==
    ASSUME NEW b \in Nat \ {0}, NEW q \in Nat, NEW r \in 0 .. b - 1
    PROVE  (b * q + r) \div b = q
  OBVIOUS

(* So is a remainder.                                                      *)
LEMMA ModUnique ==
    ASSUME NEW b \in Nat \ {0}, NEW q \in Nat, NEW r \in 0 .. b - 1
    PROVE  (b * q + r) % b = r
<1>1. b * q + r \in Nat /\ b * q \in Nat
  OBVIOUS
<1>2. PICK n \in Nat : n = b * q + r
  BY <1>1
<1>3. n \div b = q
  BY <1>2, DivUnique
<1>4. n = b * (n \div b) + (n % b) /\ (n % b) \in 0 .. b - 1
  BY DivMod
<1> QED
  BY <1>1, <1>2, <1>3, <1>4

(* Multiplication is monotone.                                             *)
LEMMA TimesMonotone ==
    ASSUME NEW b \in Nat, NEW x \in Int, NEW y \in Int, x <= y
    PROVE  b * x \in Int /\ b * y \in Int /\ b * x <= b * y
<1>1. PICK d \in Nat : y = x + d
  <2>1. y - x \in Nat /\ y = x + (y - x)
    OBVIOUS
  <2> QED
    BY <2>1
<1>2. b * y = b * x + b * d /\ b * d \in Nat /\ b * x \in Int
  BY <1>1
<1> QED
  BY <1>2

(* A quotient is the largest number whose multiple does not exceed n.      *)
LEMMA QuotientBound ==
    ASSUME NEW b \in Nat \ {0}, NEW n \in Nat, NEW x \in Int
    PROVE  b * x <= n <=> x <= n \div b
<1>1. PICK q \in Nat, r \in 0 .. b - 1 : q = n \div b /\ n = b * q + r
  <2>1. n \div b \in Nat /\ (n % b) \in 0 .. b - 1 /\ n = b * (n \div b) + (n % b)
    BY DivMod
  <2> QED
    BY <2>1
<1>2. b * q \in Int /\ b * x \in Int /\ b * (q + 1) = b * q + b
  OBVIOUS
<1>3. CASE x <= q
  BY <1>1, <1>2, <1>3, TimesMonotone
<1>4. CASE q + 1 <= x
  <2>1. b * (q + 1) <= b * x
    BY <1>4, TimesMonotone
  <2> QED
    BY <1>1, <1>2, <1>4, <2>1
<1> QED
  BY <1>1, <1>3, <1>4

(* One turn of the ring at most.                                           *)
LEMMA ModSmall ==
    ASSUME NEW q \in Nat \ {0}, NEW x \in Nat, x < q + q
    PROVE  (x % q) = IF x < q THEN x ELSE x - q
<1>1. CASE x < q
  <2>1. (q * 0 + x) % q = x
    BY <1>1, ModUnique
  <2> QED
    BY <1>1, <2>1
<1>2. CASE q <= x
  <2>1. PICK r \in 0 .. q - 1 : r = x - q
    BY <1>2
  <2>2. (q * 1 + r) % q = r
    BY ModUnique
  <2> QED
    BY <1>2, <2>1, <2>2
<1> QED
  BY <1>1, <1>2

(* A remainder may be taken before or after an addition.                   *)
LEMMA ModAdd ==
    ASSUME NEW q \in Nat \ {0}, NEW a \in Nat, NEW i \in Nat
    PROVE  (((a % q) + i) % q) = ((a + i) % q)
<1>1. PICK k \in Nat, r \in 0 .. q - 1 : r = (a % q) /\ a = q * k + r
  <2>1. a \div q \in Nat /\ (a % q) \in 0 .. q - 1 /\ a = q * (a \div q) + (a % q)
    BY DivMod
  <2> QED
    BY <2>1
<1>2. PICK n \in Nat, t \in 0 .. q - 1 : t = ((r + i) % q) /\ r + i = q * n + t
  <2>1. PICK m \in Nat : m = r + i
    OBVIOUS
  <2>2. m \div q \in Nat /\ (m % q) \in 0 .. q - 1 /\ m = q * (m \div q) + (m % q)
    BY DivMod
  <2> QED
    BY <2>1, <2>2
<1>3. k + n \in Nat /\ q * (k + n) = q * k + q * n /\ q * k \in Nat /\ q * n \in Nat
  OBVIOUS
<1>4. a + i = q * (k + n) + t
  BY <1>1, <1>2, <1>3
<1>5. (q * (k + n) + t) % q = t
  BY <1>3, ModUnique
<1> QED
  BY <1>1, <1>2, <1>4, <1>5

(* Numbers less than a turn apart are in different slots.                  *)
LEMMA ModDistinct ==
    ASSUME NEW q \in Nat \ {0}, NEW a \in Nat, NEW b \in Nat, a < b, b - a < q
    PROVE  (a % q) # (b % q)
<1>1. PICK d \in 1 .. q - 1 : b = a + d
  <2>1. b - a \in 1 .. q - 1 /\ b = a + (b - a)
    OBVIOUS
  <2> QED
    BY <2>1
<1>2. PICK r \in 0 .. q - 1 : r = (a % q)
  BY DivMod
<1>3. (b % q) = ((r + d) % q)
  <2>0. d \in Nat
    OBVIOUS
  <2>1. (((a % q) + d) % q) = ((a + d) % q)
    BY <2>0, ModAdd
  <2> QED
    BY <1>1, <1>2, <2>1
<1>4. ((r + d) % q) = IF r + d < q THEN r + d ELSE r + d - q
  <2>1. PICK x \in Nat : x = r + d
    OBVIOUS
  <2>2. x < q + q
    BY <2>1
  <2>3. (x % q) = IF x < q THEN x ELSE x - q
    BY <2>2, ModSmall
  <2> QED
    BY <2>1, <2>3
<1> QED
  BY <1>1, <1>2, <1>3, <1>4
=============================================================================
