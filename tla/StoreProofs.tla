---------------------------- MODULE StoreProofs -----------------------------
(***************************************************************************)
(* The store.  First from the sensors to the surplus, for any sensors and  *)
(* any history of samples: the types, what a modulating load never         *)
(* follows, and that the balance is exact once the flows have been shown   *)
(* for long enough.  Then the configuration, the vehicles and the order of *)
(* control.  Then the recorded history and the costs computed from it.     *)
(* They are parts of store.py and share the lemmas on numbers and sums.    *)
(***************************************************************************)
EXTENDS Signals, Setup, History, FiniteSetTheorems, SequenceTheorems, WellFoundedInduction, TLAPS

-----------------------------------------------------------------------------
(***************************************************************************)
(* Natural numbers: a set of them has a least one, which is induction.     *)
(***************************************************************************)
LEMMA LeastNatural ==
    ASSUME NEW T \in SUBSET Nat, T # {}
    PROVE  \E n \in T : \A m \in T : n <= m
  <1>1. PICK n \in T : \A m \in T : ~(<<m, n>> \in OpToRel(<, Nat))
    BY NatLessThanWellFounded, WFMin, Zenon
  <1>2. \A m \in T : ~(m < n)
    BY <1>1 DEF OpToRel
  <1>3. QED
    BY <1>2

LEMMA Induction ==
    ASSUME NEW G \in SUBSET Nat, 0 \in G, \A n \in G : n + 1 \in G
    PROVE  \A n \in Nat : n \in G
  <1> SUFFICES ASSUME Nat \ G # {} PROVE FALSE
    OBVIOUS
  <1>1. PICK n \in Nat \ G : \A m \in Nat \ G : n <= m
    <2>1. Nat \ G \in SUBSET Nat
      OBVIOUS
    <2>2. QED
      BY <2>1, LeastNatural
  <1>2. n - 1 \in Nat /\ n - 1 \in G
    BY <1>1
  <1>3. QED
    BY <1>1, <1>2

LEMMA TimesMonotone ==
    ASSUME NEW a \in Nat, NEW b \in Nat, NEW c \in Nat, a <= b
    PROVE  c * a <= c * b
  <1>1. PICK d \in Nat : b = a + d
    <2>1. b - a \in Nat /\ b = a + (b - a)
      OBVIOUS
    <2>2. QED
      BY <2>1
  <1>2. c * b = c * a + c * d
    BY <1>1
  <1>3. c * d \in Nat /\ c * a \in Nat
    OBVIOUS
  <1>4. QED
    BY <1>2, <1>3

\* Max and Min of numbers within bounds, and of two numbers.
LEMMA MaxOf ==
    ASSUME NEW T \in SUBSET Int, NEW hi \in Int, T # {}, \A x \in T : x <= hi
    PROVE  Max(T) \in T /\ \A x \in T : x <= Max(T)
  <1> DEFINE below == {hi - x : x \in T}
  <1>1. below \in SUBSET Nat /\ below # {}
    <2>1. \A x \in T : hi - x \in Nat
      OBVIOUS
    <2>2. \A n \in below : n \in Nat
      BY <2>1
    <2>3. QED
      BY <2>2
  <1>2. PICK n \in below : \A m \in below : n <= m
    BY <1>1, LeastNatural
  <1>3. PICK x \in T : n = hi - x
    BY <1>2
  <1>4. \A y \in T : x >= y
    <2> TAKE y \in T
    <2>1. n <= hi - y
      BY <1>2
    <2>2. QED
      BY <1>3, <2>1
  <1>5. QED
    BY <1>4 DEF Max

LEMMA MaxOfTwo ==
    ASSUME NEW a \in Int, NEW b \in Int
    PROVE  Max({a, b}) = IF a >= b THEN a ELSE b
  <1>1. Max({a, b}) \in {a, b} /\ \A x \in {a, b} : x <= Max({a, b})
    <2>1. \A x \in {a, b} : x <= (IF a >= b THEN a ELSE b)
      OBVIOUS
    <2>2. QED
      BY <2>1, MaxOf
  <1>2. QED
    BY <1>1

LEMMA MinOfTwo ==
    ASSUME NEW a \in Int, NEW b \in Int
    PROVE  Min({a, b}) = IF a <= b THEN a ELSE b
  <1> DEFINE least == IF a <= b THEN a ELSE b
  <1>1. least \in {a, b} /\ \A x \in {a, b} : least <= x
    OBVIOUS
  <1>2. Min({a, b}) \in {a, b} /\ \A x \in {a, b} : Min({a, b}) <= x
    BY <1>1 DEF Min
  <1>3. QED
    BY <1>1, <1>2

-----------------------------------------------------------------------------
(***************************************************************************)
(* Sums.  The fold adds the elements in an order it chooses; the lemmas    *)
(* say that the order does not matter.                                     *)
(***************************************************************************)
Total(f, S) == FoldFunctionOnSet(+, 0, f, S)

Pick(s) == CHOOSE x \in s : TRUE
AddUp(f, g, s) == IF s = {} THEN 0 ELSE f[Pick(s)] + g[s \ {Pick(s)}]

\* g sums f over the subsets of S.
Sums(g, f, S) == \A s \in SUBSET S : g[s] = AddUp(f, g, s)

LEMMA PickOne ==
    ASSUME NEW s, s # {}
    PROVE  Pick(s) \in s
  BY DEF Pick

LEMMA WithoutOne ==
    ASSUME NEW s, IsFiniteSet(s), NEW x \in s
    PROVE  /\ IsFiniteSet(s \ {x}) /\ Cardinality(s) \in Nat /\ Cardinality(s \ {x}) \in Nat
           /\ Cardinality(s \ {x}) = Cardinality(s) - 1
  BY FS_RemoveElement, FS_CardinalityType

\* There is such a function ...
LEMMA SumsExist ==
    ASSUME NEW S, IsFiniteSet(S), NEW f, \A x \in S : f[x] \in Int
    PROVE  \E g \in [SUBSET S -> Int] : Sums(g, f, S)
  <1> DEFINE Upto(n) == {s \in SUBSET S : Cardinality(s) <= n}
             Found(n) == \E g \in [Upto(n) -> Int] : \A s \in Upto(n) : g[s] = AddUp(f, g, s)
             found == {n \in Nat : Found(n)}
  <1>1. \A s \in SUBSET S : IsFiniteSet(s) /\ Cardinality(s) \in Nat
                            /\ Cardinality(s) <= Cardinality(S)
    BY FS_Subset, FS_CardinalityType
  <1>2. \A s \in SUBSET S : Cardinality(s) = 0 <=> s = {}
    BY <1>1, FS_EmptySet
  <1>3. 0 \in found
    <2> DEFINE g == [s \in Upto(0) |-> 0]
    <2>1. \A s \in Upto(0) : s = {}
      BY <1>1, <1>2
    <2>2. g \in [Upto(0) -> Int] /\ \A s \in Upto(0) : g[s] = AddUp(f, g, s)
      BY <2>1 DEF AddUp
    <2>3. QED
      BY <2>2
  <1>4. ASSUME NEW n \in found PROVE n + 1 \in found
    <2>1. PICK g \in [Upto(n) -> Int] : \A s \in Upto(n) : g[s] = AddUp(f, g, s)
      BY <1>4
    <2> DEFINE h == [s \in Upto(n + 1) |-> AddUp(f, g, s)]
    <2>2. \A s \in Upto(n + 1) : s # {} => Pick(s) \in S /\ s \ {Pick(s)} \in Upto(n)
      <3> SUFFICES ASSUME NEW s \in Upto(n + 1), s # {}
                   PROVE  Pick(s) \in S /\ s \ {Pick(s)} \in Upto(n)
        OBVIOUS
      <3>1. Pick(s) \in s /\ s \in SUBSET S
        BY PickOne
      <3>2. Cardinality(s \ {Pick(s)}) = Cardinality(s) - 1 /\ Cardinality(s) \in Nat
        BY <1>1, <3>1, WithoutOne
      <3>3. s \ {Pick(s)} \in SUBSET S /\ n \in Nat
        BY <3>1
      <3>4. QED
        BY <3>1, <3>2, <3>3
    <2>3. \A s \in Upto(n) : s \in Upto(n + 1) /\ h[s] = g[s]
      <3>1. \A s \in Upto(n) : s \in Upto(n + 1)
        BY <1>1
      <3>2. QED
        BY <2>1, <3>1
    <2>4. \A s \in Upto(n + 1) : AddUp(f, g, s) \in Int /\ AddUp(f, g, s) = AddUp(f, h, s)
      <3> SUFFICES ASSUME NEW s \in Upto(n + 1)
                   PROVE  AddUp(f, g, s) \in Int /\ AddUp(f, g, s) = AddUp(f, h, s)
        OBVIOUS
      <3>1. CASE s = {}
        BY <3>1 DEF AddUp
      <3>2. CASE s # {}
        <4>1. Pick(s) \in S /\ s \ {Pick(s)} \in Upto(n)
          BY <2>2, <3>2
        <4>2. g[s \ {Pick(s)}] \in Int /\ h[s \ {Pick(s)}] = g[s \ {Pick(s)}]
              /\ f[Pick(s)] \in Int
          BY <2>1, <2>3, <4>1
        <4> HIDE DEF h, Upto
        <4>3. QED
          BY <3>2, <4>2 DEF AddUp
      <3>3. QED
        BY <3>1, <3>2
    <2>5. h \in [Upto(n + 1) -> Int]
      BY <2>4
    <2>6. \A s \in Upto(n + 1) : h[s] = AddUp(f, h, s)
      BY <2>4
    <2>7. n + 1 \in Nat
      OBVIOUS
    <2>8. QED
      BY <2>5, <2>6, <2>7
  <1>5. Cardinality(S) \in Nat
    BY FS_CardinalityType
  <1>6. Found(Cardinality(S))
    <2>1. found \in SUBSET Nat
      OBVIOUS
    <2> HIDE DEF found, Found
    <2>2. \A n \in Nat : n \in found
      BY <1>3, <1>4, <2>1, Induction
    <2>3. QED
      BY <1>5, <2>2 DEF found
  <1>7. Upto(Cardinality(S)) = SUBSET S
    BY <1>1
  <1>8. QED
    BY <1>6, <1>7 DEF Sums

\* ... and only one, which depends on the summands only.
LEMMA SumsAgree ==
    ASSUME NEW S, IsFiniteSet(S), NEW f, NEW g, Sums(g, f, S),
           NEW T, NEW e, NEW h, Sums(h, e, T),
           S \subseteq T, \A x \in S : f[x] = e[x]
    PROVE  g[S] = h[S]
  <1> DEFINE Same(n) == \A s \in SUBSET S : Cardinality(s) = n => g[s] = h[s]
             same == {n \in Nat : Same(n)}
  <1>1. \A s \in SUBSET S : IsFiniteSet(s) /\ Cardinality(s) \in Nat
    BY FS_Subset, FS_CardinalityType
  <1>2. 0 \in same
    <2>1. \A s \in SUBSET S : Cardinality(s) = 0 => s = {}
      BY <1>1, FS_EmptySet
    <2>2. g[{}] = 0 /\ h[{}] = 0
      BY DEF Sums, AddUp
    <2>3. QED
      BY <2>1, <2>2
  <1>3. ASSUME NEW n \in same PROVE n + 1 \in same
    <2> SUFFICES ASSUME NEW s \in SUBSET S, Cardinality(s) = n + 1 PROVE g[s] = h[s]
      OBVIOUS
    <2>1. n \in Nat /\ Same(n)
      BY <1>3
    <2>2. s # {}
      BY <2>1, FS_EmptySet
    <2>3. Pick(s) \in s
      BY <2>2, PickOne
    <2>4. s \ {Pick(s)} \in SUBSET S /\ Cardinality(s \ {Pick(s)}) = n
      BY <1>1, <2>1, <2>3, WithoutOne
    <2>5. g[s \ {Pick(s)}] = h[s \ {Pick(s)}]
      BY <2>1, <2>4
    <2>6. g[s] = f[Pick(s)] + g[s \ {Pick(s)}]
      BY <2>2 DEF Sums, AddUp
    <2>7. h[s] = e[Pick(s)] + h[s \ {Pick(s)}]
      BY <2>2 DEF Sums, AddUp
    <2>8. f[Pick(s)] = e[Pick(s)]
      BY <2>3
    <2>9. QED
      BY <2>5, <2>6, <2>7, <2>8
  <1>4. \A n \in Nat : n \in same
    <2>1. same \in SUBSET Nat
      OBVIOUS
    <2> HIDE DEF same
    <2>2. QED
      BY <1>2, <1>3, <2>1, Induction
  <1>5. Cardinality(S) \in same /\ S \in SUBSET S
    BY <1>1, <1>4
  <1>6. QED
    BY <1>5

LEMMA TotalIs ==
    ASSUME NEW S, IsFiniteSet(S), NEW f, \A x \in S : f[x] \in Int
    PROVE  \E g \in [SUBSET S -> Int] : Sums(g, f, S) /\ g[S] = Total(f, S)
  <1> DEFINE body(g) == [s \in SUBSET S |-> AddUp(f, g, s)]
             iter == CHOOSE g : g = body(g)
  <1>1. PICK g \in [SUBSET S -> Int] : Sums(g, f, S)
    BY SumsExist
  <1>2. g = body(g)
    BY <1>1 DEF Sums
  <1>3. iter = body(iter)
    <2> HIDE DEF body
    <2>1. QED
      BY <1>2
  <1>4. Sums(iter, f, S)
    <2> HIDE DEF iter
    <2>1. QED
      BY <1>3 DEF Sums
  <1>5. Total(f, S) = iter[S]
    BY DEF Total, FoldFunctionOnSet, MapThenFoldSet, AddUp, Pick
  <1> HIDE DEF iter
  <1>6. g[S] = iter[S]
    BY <1>1, <1>4, SumsAgree
  <1>7. QED
    BY <1>1, <1>5, <1>6

LEMMA TotalType ==
    ASSUME NEW S, IsFiniteSet(S), NEW f, \A x \in S : f[x] \in Int
    PROVE  Total(f, S) \in Int
  <1>1. PICK g \in [SUBSET S -> Int] : g[S] = Total(f, S)
    BY TotalIs
  <1>2. S \in SUBSET S
    OBVIOUS
  <1>3. QED
    BY <1>1, <1>2

LEMMA TotalEmpty ==
    ASSUME NEW f
    PROVE  Total(f, {}) = 0
  <1>1. IsFiniteSet({})
    BY FS_EmptySet
  <1>2. \A x \in {} : f[x] \in Int
    OBVIOUS
  <1>3. PICK g : Sums(g, f, {}) /\ g[{}] = Total(f, {})
    BY <1>1, <1>2, TotalIs
  <1>4. QED
    BY <1>3 DEF Sums, AddUp

LEMMA TotalAgrees ==
    ASSUME NEW S, IsFiniteSet(S), NEW f, NEW e, \A x \in S : f[x] \in Int /\ e[x] = f[x]
    PROVE  Total(e, S) = Total(f, S)
  <1>1. PICK g : Sums(g, f, S) /\ g[S] = Total(f, S)
    BY TotalIs
  <1>2. PICK h : Sums(h, e, S) /\ h[S] = Total(e, S)
    <2>1. \A x \in S : e[x] \in Int
      OBVIOUS
    <2>2. QED
      BY <2>1, TotalIs
  <1>3. QED
    BY <1>1, <1>2, SumsAgree

LEMMA TotalPick ==
    ASSUME NEW S, IsFiniteSet(S), S # {}, NEW f, \A x \in S : f[x] \in Int
    PROVE  Total(f, S) = f[Pick(S)] + Total(f, S \ {Pick(S)})
  <1> DEFINE R == S \ {Pick(S)}
  <1>1. IsFiniteSet(R) /\ R \in SUBSET S /\ \A x \in R : f[x] \in Int
    BY PickOne, WithoutOne
  <1>2. PICK g : Sums(g, f, S) /\ g[S] = Total(f, S)
    BY TotalIs
  <1>3. PICK h : Sums(h, f, R) /\ h[R] = Total(f, R)
    <2> HIDE DEF R
    <2>1. QED
      BY <1>1, TotalIs
  <1>4. h[R] = g[R]
    <2> HIDE DEF R
    <2>1. QED
      BY <1>1, <1>2, <1>3, SumsAgree
  <1>5. g[S] = f[Pick(S)] + g[R]
    BY <1>2 DEF Sums, AddUp
  <1>6. QED
    BY <1>2, <1>3, <1>4, <1>5

\* One more element adds its summand.
LEMMA TotalAdd ==
    ASSUME NEW S, IsFiniteSet(S), NEW x, x \notin S,
           NEW f, \A y \in S \cup {x} : f[y] \in Int
    PROVE  Total(f, S \cup {x}) = Total(f, S) + f[x]
  <1> DEFINE U == S \cup {x}
             Adds(n) == \A s \in SUBSET U : \A y \in U \ s :
                          Cardinality(s) = n => Total(f, s \cup {y}) = Total(f, s) + f[y]
             adds == {n \in Nat : Adds(n)}
  <1>1. IsFiniteSet(U) /\ x \in U /\ \A y \in U : f[y] \in Int
    BY FS_AddElement
  <1> HIDE DEF U
  <1>2. \A s \in SUBSET U : /\ IsFiniteSet(s) /\ Cardinality(s) \in Nat
                            /\ \A y \in s : f[y] \in Int
    BY <1>1, FS_Subset, FS_CardinalityType
  <1>3. 0 \in adds
    <2> SUFFICES ASSUME NEW s \in SUBSET U, NEW y \in U \ s, Cardinality(s) = 0
                 PROVE  Total(f, s \cup {y}) = Total(f, s) + f[y]
      OBVIOUS
    <2>1. s = {} /\ s \cup {y} = {y}
      BY <1>2, FS_EmptySet
    <2>2. IsFiniteSet({y}) /\ {y} # {}
      BY FS_Singleton
    <2>3. Pick({y}) = y
      BY PickOne, <2>2
    <2>4. {y} \ {y} = {}
      OBVIOUS
    <2>5. Total(f, {y}) = f[y] + Total(f, {})
      BY <1>1, <2>2, <2>3, <2>4, TotalPick
    <2>6. Total(f, s) = 0 /\ Total(f, {}) = 0
      BY <2>1, TotalEmpty
    <2>7. QED
      BY <1>1, <2>1, <2>5, <2>6
  <1>4. ASSUME NEW n \in adds PROVE n + 1 \in adds
    <2> SUFFICES ASSUME NEW s \in SUBSET U, NEW y \in U \ s, Cardinality(s) = n + 1
                 PROVE  Total(f, s \cup {y}) = Total(f, s) + f[y]
      OBVIOUS
    <2> DEFINE t == s \cup {y}
               p == Pick(t)
               q == Pick(s)
    <2>1. n \in Nat /\ Adds(n)
      BY <1>4
    <2>2. t \in SUBSET U /\ IsFiniteSet(t) /\ t # {} /\ \A z \in t : f[z] \in Int
      BY <1>2
    <2>3. p \in t
      BY <2>2, PickOne
    <2>4. Total(f, t) = f[p] + Total(f, t \ {p})
      BY <2>2, TotalPick
    <2>5. Total(f, s) \in Int
      BY <1>2, TotalType
    <2> HIDE DEF p
    <2>6. CASE p = y
      <3>1. t \ {p} = s
        BY <2>6
      <3>2. Total(f, t) = f[y] + Total(f, s) /\ f[y] \in Int
        BY <1>1, <2>4, <2>6, <3>1
      <3>3. QED
        BY <2>5, <3>2
    <2>7. CASE p # y
      <3> DEFINE r == s \ {p}
      <3>1. p \in s /\ r \in SUBSET U /\ p \in U \ r /\ y \in U \ r
        BY <2>3, <2>7
      <3>2. Cardinality(r) = n
        BY <1>2, <2>1, <3>1, WithoutOne
      <3>3. t \ {p} = r \cup {y} /\ s = r \cup {p}
        BY <2>7, <3>1
      <3>4. Total(f, r) \in Int /\ f[p] \in Int /\ f[y] \in Int
        BY <1>1, <1>2, <3>1, TotalType
      <3> HIDE DEF r
      <3>5. Total(f, r \cup {y}) = Total(f, r) + f[y]
        BY <2>1, <3>1, <3>2
      <3>6. Total(f, r \cup {p}) = Total(f, r) + f[p]
        BY <2>1, <3>1, <3>2
      <3>7. Total(f, t) = f[p] + Total(f, r \cup {y}) /\ Total(f, s) = Total(f, r \cup {p})
        BY <2>4, <3>3
      <3>8. QED
        BY <3>4, <3>5, <3>6, <3>7
    <2>8. QED
      BY <2>6, <2>7
  <1>5. \A n \in Nat : n \in adds
    <2>1. adds \in SUBSET Nat
      OBVIOUS
    <2> HIDE DEF adds
    <2>2. QED
      BY <1>3, <1>4, <2>1, Induction
  <1>6. Cardinality(S) \in adds /\ S \in SUBSET U /\ x \in U \ S
    BY <1>2, <1>5, FS_CardinalityType DEF U
  <1>7. QED
    BY <1>6

\* Natural summands have a natural sum, equal ones a product.
LEMMA TotalNatural ==
    ASSUME NEW S, IsFiniteSet(S), NEW f, \A x \in S : f[x] \in Nat
    PROVE  Total(f, S) \in Nat
  <1> DEFINE Fine(n) == \A s \in SUBSET S : Cardinality(s) = n => Total(f, s) \in Nat
             fine == {n \in Nat : Fine(n)}
  <1>1. \A s \in SUBSET S : /\ IsFiniteSet(s) /\ Cardinality(s) \in Nat
                            /\ \A x \in s : f[x] \in Int
    BY FS_Subset, FS_CardinalityType
  <1>2. 0 \in fine
    BY <1>1, FS_EmptySet, TotalEmpty
  <1>3. ASSUME NEW n \in fine PROVE n + 1 \in fine
    <2> SUFFICES ASSUME NEW s \in SUBSET S, Cardinality(s) = n + 1 PROVE Total(f, s) \in Nat
      OBVIOUS
    <2>1. n \in Nat /\ Fine(n) /\ s # {}
      BY <1>3, FS_EmptySet
    <2>2. Pick(s) \in s
      BY <2>1, PickOne
    <2>3. s \ {Pick(s)} \in SUBSET S /\ Cardinality(s \ {Pick(s)}) = n
      BY <1>1, <2>1, <2>2, WithoutOne
    <2>4. Total(f, s) = f[Pick(s)] + Total(f, s \ {Pick(s)})
      BY <1>1, <2>1, TotalPick
    <2>5. Total(f, s \ {Pick(s)}) \in Nat /\ f[Pick(s)] \in Nat
      BY <2>1, <2>2, <2>3
    <2>6. QED
      BY <2>4, <2>5
  <1>4. \A n \in Nat : n \in fine
    <2>1. fine \in SUBSET Nat
      OBVIOUS
    <2> HIDE DEF fine
    <2>2. QED
      BY <1>2, <1>3, <2>1, Induction
  <1>5. Cardinality(S) \in fine /\ S \in SUBSET S
    BY <1>1, <1>4
  <1>6. QED
    BY <1>5

LEMMA TotalSame ==
    ASSUME NEW S, IsFiniteSet(S), NEW f, NEW c \in Int, \A x \in S : f[x] = c
    PROVE  Total(f, S) = Cardinality(S) * c
  <1> DEFINE Fine(n) == \A s \in SUBSET S : Cardinality(s) = n => Total(f, s) = n * c
             fine == {n \in Nat : Fine(n)}
  <1>1. \A s \in SUBSET S : /\ IsFiniteSet(s) /\ Cardinality(s) \in Nat
                            /\ \A x \in s : f[x] \in Int
    BY FS_Subset, FS_CardinalityType
  <1>2. 0 \in fine
    <2>1. \A s \in SUBSET S : Cardinality(s) = 0 => Total(f, s) = 0
      BY <1>1, FS_EmptySet, TotalEmpty
    <2>2. 0 * c = 0
      OBVIOUS
    <2>3. QED
      BY <2>1, <2>2
  <1>3. ASSUME NEW n \in fine PROVE n + 1 \in fine
    <2> SUFFICES ASSUME NEW s \in SUBSET S, Cardinality(s) = n + 1
                 PROVE  Total(f, s) = (n + 1) * c
      OBVIOUS
    <2>1. n \in Nat /\ Fine(n) /\ s # {}
      BY <1>3, FS_EmptySet
    <2>2. Pick(s) \in s
      BY <2>1, PickOne
    <2>3. s \ {Pick(s)} \in SUBSET S /\ Cardinality(s \ {Pick(s)}) = n
      BY <1>1, <2>1, <2>2, WithoutOne
    <2>4. Total(f, s) = f[Pick(s)] + Total(f, s \ {Pick(s)})
      BY <1>1, <2>1, TotalPick
    <2>5. Total(f, s \ {Pick(s)}) = n * c /\ f[Pick(s)] = c
      BY <2>1, <2>2, <2>3
    <2>6. c + n * c = (n + 1) * c
      BY <2>1
    <2>7. QED
      BY <2>4, <2>5, <2>6
  <1>4. \A n \in Nat : n \in fine
    <2>1. fine \in SUBSET Nat
      OBVIOUS
    <2> HIDE DEF fine
    <2>2. QED
      BY <1>2, <1>3, <2>1, Induction
  <1>5. Cardinality(S) \in fine /\ S \in SUBSET S
    BY <1>1, <1>4
  <1>6. QED
    BY <1>5

\* A sum over an interval, its last summand split off, and moved by one.
LEMMA TotalInterval ==
    ASSUME NEW a \in Int, NEW b \in Int, a <= b, NEW f, \A j \in a .. b : f[j] \in Int
    PROVE  Total(f, a .. b) = Total(f, a .. b - 1) + f[b]
  <1>1. a .. b = (a .. b - 1) \cup {b} /\ b \notin a .. b - 1
    OBVIOUS
  <1>2. IsFiniteSet(a .. b - 1)
    BY FS_Interval
  <1>3. \A j \in (a .. b - 1) \cup {b} : f[j] \in Int
    BY <1>1
  <1>4. QED
    BY <1>1, <1>2, <1>3, TotalAdd

LEMMA TotalShift ==
    ASSUME NEW a \in Int, NEW m \in Nat, NEW f, NEW e,
           \A j \in a .. a + m - 1 : f[j + 1] \in Int /\ e[j] = f[j + 1]
    PROVE  Total(e, a .. a + m - 1) = Total(f, a + 1 .. a + m)
  <1> DEFINE Moves(n) == n <= m => Total(e, a .. a + n - 1) = Total(f, a + 1 .. a + n)
             moves == {n \in Nat : Moves(n)}
  <1>1. 0 \in moves
    <2>1. a .. a + 0 - 1 = {} /\ a + 1 .. a + 0 = {}
      OBVIOUS
    <2>2. QED
      BY <2>1, TotalEmpty
  <1>2. ASSUME NEW n \in moves PROVE n + 1 \in moves
    <2> SUFFICES ASSUME n + 1 <= m
                 PROVE  Total(e, a .. a + (n + 1) - 1) = Total(f, a + 1 .. a + (n + 1))
      OBVIOUS
    <2>1. n \in Nat /\ Total(e, a .. a + n - 1) = Total(f, a + 1 .. a + n)
      <3>1. n \in Nat /\ Moves(n)
        BY <1>2
      <3>2. n <= m
        BY <3>1
      <3>3. QED
        BY <3>1, <3>2
    <2>2. \A j \in a .. a + n : e[j] \in Int /\ f[j + 1] \in Int /\ e[j] = f[j + 1]
      <3> TAKE j \in a .. a + n
      <3>1. j \in a .. a + m - 1
        BY <2>1
      <3>2. QED
        BY <3>1
    <2>3. \A j \in a + 1 .. a + n + 1 : f[j] \in Int
      <3> TAKE j \in a + 1 .. a + n + 1
      <3>1. j - 1 \in a .. a + n /\ (j - 1) + 1 = j
        BY <2>1
      <3>2. QED
        BY <2>2, <3>1
    <2>4. Total(e, a .. a + n) = Total(e, a .. a + n - 1) + e[a + n]
      <3>1. a + n \in Int /\ a <= a + n
        BY <2>1
      <3>2. QED
        BY <2>2, <3>1, TotalInterval
    <2>5. Total(f, a + 1 .. a + n + 1) = Total(f, a + 1 .. a + n) + f[a + n + 1]
      <3>1. a + 1 \in Int /\ a + n + 1 \in Int /\ a + 1 <= a + n + 1 /\ (a + n + 1) - 1 = a + n
        BY <2>1
      <3>2. QED
        BY <2>3, <3>1, TotalInterval
    <2>6. e[a + n] = f[a + n + 1]
      BY <2>1, <2>2
    <2>7. a + (n + 1) - 1 = a + n /\ a + (n + 1) = a + n + 1
      BY <2>1
    <2>8. QED
      BY <2>1, <2>4, <2>5, <2>6, <2>7
  <1>3. \A n \in Nat : n \in moves
    <2>1. moves \in SUBSET Nat
      OBVIOUS
    <2> HIDE DEF moves
    <2>2. QED
      BY <1>1, <1>2, <2>1, Induction
  <1>4. QED
    BY <1>3

-----------------------------------------------------------------------------
(***************************************************************************)
(* Types.                                                                  *)
(***************************************************************************)
Value == Int \cup {Unavailable}
Sample == [gap : 0 .. MaxAge, val : Value]

TypeInv ==
    /\ TypeOK
    /\ live \in [Sensors -> Value] /\ samples \in [Sensors -> Seq(Sample)]
    /\ age \in [Sensors -> 0 .. MaxAge] /\ unheard \in [Sensors -> 0 .. MaxAge]
    /\ feed \in [Sensors -> {"up", "silent", "off"}]

LEMMA Parameters ==
    /\ IsFiniteSet(Sensors) /\ Unavailable \notin Int
    /\ MaxPower \in Nat /\ Cap \in Nat /\ StaleMin \in Nat /\ StaleFactor \in Nat
    /\ MaxLen \in Nat /\ MaxLen > 0 /\ Delay \in Nat /\ MaxGap \in Nat /\ MaxAge \in Nat
    /\ MaxChanges \in Nat /\ MaxFaults \in Nat
  BY SignalsAssumption

LEMMA TruthType ==
    ASSUME NEW f \in Flows, NEW s \in Sensors
    PROVE  Truth(f, s) \in Int
  <1>1. f.house \in Int /\ f.pv \in Int /\ f.battery \in Int
    BY SignalsAssumption
  <1>2. GridOf(f) \in Int
    BY <1>1 DEF GridOf
  <1>3. Positive(GridOf(f)) \in Int /\ Positive(-GridOf(f)) \in Int
    BY <1>2 DEF Positive
  <1>4. Role[s] \in {"grid", "import", "export", "battery", "pv"}
    BY SignalsAssumption
  <1>5. QED
    BY <1>1, <1>2, <1>3, <1>4 DEF Truth

\* The numbers among a sensor's samples, and the last of them.
NumbersOf(s) == {i \in DOMAIN samples[s] : IsNumber(samples[s][i].val)}

LEMMA NumbersType ==
    ASSUME TypeInv, NEW s \in Sensors
    PROVE  /\ samples[s] \in Seq(Sample) /\ Len(samples[s]) \in Nat
           /\ NumbersOf(s) \in SUBSET (1 .. Len(samples[s])) /\ IsFiniteSet(NumbersOf(s))
           /\ \A i \in NumbersOf(s) : samples[s][i].val \in Int
           /\ NumbersOf(s) # {} => /\ Max(NumbersOf(s)) \in NumbersOf(s)
                                 /\ \A i \in NumbersOf(s) : i <= Max(NumbersOf(s))
  <1>1. samples[s] \in Seq(Sample) /\ Len(samples[s]) \in Nat
    BY DEF TypeInv
  <1>2. NumbersOf(s) \in SUBSET (1 .. Len(samples[s]))
    BY <1>1 DEF NumbersOf
  <1>3. IsFiniteSet(NumbersOf(s))
    <2>1. IsFiniteSet(1 .. Len(samples[s]))
      BY <1>1, FS_Interval
    <2>2. QED
      BY <1>2, <2>1, FS_Subset
  <1>4. \A i \in NumbersOf(s) : samples[s][i].val \in Int
    <2> TAKE i \in NumbersOf(s)
    <2>1. samples[s][i] \in Sample
      BY <1>1, <1>2
    <2>2. samples[s][i].val \in Int \cup {Unavailable}
      BY <2>1 DEF Sample, Value
    <2>3. samples[s][i].val # Unavailable
      BY DEF NumbersOf, IsNumber
    <2>4. QED
      BY <2>2, <2>3
  <1>5. ASSUME NumbersOf(s) # {}
        PROVE  Max(NumbersOf(s)) \in NumbersOf(s) /\ \A i \in NumbersOf(s) : i <= Max(NumbersOf(s))
    <2>1. PICK hi \in Int : hi = Len(samples[s])
      BY <1>1
    <2>2. NumbersOf(s) \in SUBSET Int /\ \A i \in NumbersOf(s) : i <= hi
      BY <1>2, <2>1
    <2>3. QED
      BY <1>5, <2>2, MaxOf
  <1>6. QED
    BY <1>1, <1>2, <1>3, <1>4, <1>5

Recent(s) == {i \in NumbersOf(s) : AgeOf(s, i) <= Window}

LEMMA AlignedIs ==
    ASSUME NEW s
    PROVE  Aligned(s) =
             CASE NumbersOf(s) = {} -> Unavailable
               [] NumbersOf(s) # {} /\ Window > 0 /\ Recent(s) # {} -> Average(s, Recent(s))
               [] OTHER -> samples[s][Max(NumbersOf(s))].val
  BY DEF Aligned, NumbersOf, Recent

LEMMA AverageIs ==
    ASSUME NEW s, NEW S
    PROVE  Average(s, S) = Total([i \in S |-> samples[s][i].val], S) \div Cardinality(S)
  BY DEF Average, Total

LEMMA AlignedType ==
    ASSUME TypeInv, NEW s \in Sensors
    PROVE  Aligned(s) \in Value
  <1> DEFINE numbers == NumbersOf(s)
             recent == Recent(s)
  <1>1. recent \in SUBSET numbers /\ IsFiniteSet(recent)
    <2>1. recent \in SUBSET numbers
      BY DEF Recent
    <2>2. QED
      BY <2>1, NumbersType, FS_Subset
  <1>2. recent # {} => Average(s, recent) \in Int
    <2> SUFFICES ASSUME recent # {} PROVE Average(s, recent) \in Int
      OBVIOUS
    <2> DEFINE f == [i \in recent |-> samples[s][i].val]
    <2>1. \A i \in recent : f[i] \in Int
      BY <1>1, NumbersType
    <2>2. Total(f, recent) \in Int
      <3> HIDE DEF f, recent
      <3>1. QED
        BY <1>1, <2>1, TotalType
    <2>3. Cardinality(recent) \in Nat /\ Cardinality(recent) # 0
      BY <1>1, FS_CardinalityType, FS_EmptySet
    <2>4. Average(s, recent) = Total(f, recent) \div Cardinality(recent)
      BY AverageIs
    <2> HIDE DEF f, recent
    <2>5. QED
      BY <2>2, <2>3, <2>4
  <1>3. numbers # {} => samples[s][Max(numbers)].val \in Int
    BY NumbersType
  <1>4. QED
    BY <1>2, <1>3, AlignedIs, Zenon DEF Value

LEMMA ReadingType ==
    ASSUME TypeInv, NEW s \in Sensors
    PROVE  Reading(s) \in Value
  BY AlignedType DEF Reading, TypeInv

LEMMA SumOfType ==
    ASSUME TypeInv, NEW role
    PROVE  SumOf(role) \in Int
  <1> DEFINE counted == {s \in Sensors : Role[s] = role /\ IsNumber(Reading(s))}
             f == [s \in counted |-> Reading(s)]
  <1>1. IsFiniteSet(counted)
    BY Parameters, FS_Subset
  <1>2. \A s \in counted : f[s] \in Int
    BY ReadingType DEF Value, IsNumber
  <1>3. SumOf(role) = Total(f, counted)
    BY DEF SumOf, Total
  <1> HIDE DEF f, counted
  <1>4. QED
    BY <1>1, <1>2, <1>3, TotalType

LEMMA SurplusType ==
    ASSUME TypeInv
    PROVE  GridW \in Int /\ BatteryW \in Int /\ Surplus \in Int
  <1>1. GridW \in Int /\ BatteryW \in Int
    <2>1. /\ SumOf("grid") \in Int /\ SumOf("battery") \in Int
          /\ SumOf("import") - SumOf("export") \in Int
      BY SumOfType
    <2>2. QED
      BY <2>1 DEF GridW, BatteryW
  <1>2. Min({0, BatteryW}) \in Int
    BY <1>1, MinOfTwo
  <1>3. QED
    BY <1>1, <1>2 DEF Surplus

LEMMA FollowedType ==
    ASSUME TypeInv
    PROVE  Followed \in 0 .. MaxPower
  <1>1. set \in 0 .. MaxPower /\ Surplus \in Int /\ MaxPower \in Nat
    BY SurplusType, Parameters DEF TypeInv, TypeOK
  <1>2. PICK m \in Int : m = Min({MaxPower, set + Surplus}) /\ m <= MaxPower
    BY <1>1, MinOfTwo
  <1>3. Max({0, m}) = IF 0 >= m THEN 0 ELSE m
    BY MaxOfTwo
  <1>4. QED
    BY <1>1, <1>2, <1>3 DEF Followed

LEMMA NotedType ==
    ASSUME TypeInv, NEW s \in Sensors, NEW val \in Value
    PROVE  Noted(s, val) \in Seq(Sample) /\ Len(Noted(s, val)) <= MaxLen
  <1> DEFINE e == [gap |-> age[s], val |-> val]
             seq == Append(samples[s], e)
  <1>1. samples[s] \in Seq(Sample) /\ Len(samples[s]) \in Nat /\ Len(samples[s]) <= MaxLen
        /\ e \in Sample
    <2>1. samples[s] \in Seq(Sample) /\ Len(samples[s]) \in Nat /\ age[s] \in 0 .. MaxAge
      BY DEF TypeInv
    <2>2. Len(samples[s]) <= MaxLen
      BY DEF TypeInv, TypeOK
    <2>3. e \in Sample
      BY <2>1 DEF Sample
    <2>4. QED
      BY <2>1, <2>2, <2>3
  <1> HIDE DEF e
  <1>2. seq \in Seq(Sample) /\ Len(seq) = Len(samples[s]) + 1
    BY <1>1, AppendProperties
  <1>3. Noted(s, val) = IF Len(seq) > MaxLen THEN Tail(seq) ELSE seq
    BY DEF Noted, e
  <1> HIDE DEF seq
  <1>4. seq # <<>>
    BY <1>1, <1>2
  <1>5. Tail(seq) \in Seq(Sample) /\ Len(Tail(seq)) = Len(seq) - 1
    BY <1>2, <1>4, HeadTailProperties
  <1>6. QED
    BY <1>1, <1>2, <1>3, <1>5, Parameters

LEMMA SaturatedType ==
    ASSUME NEW n \in Nat
    PROVE  /\ Saturated(n) \in 0 .. MaxAge /\ Saturated(n) <= n
           /\ n <= MaxAge => Saturated(n) = n
  BY Parameters DEF Saturated

LEMMA InitType == Init => TypeInv
  <1> SUFFICES ASSUME Init PROVE TypeInv
    OBVIOUS
  <1>1. live \in [Sensors -> Value]
    BY TruthType DEF Init, Value
  <1>2. samples \in [Sensors -> Seq(Sample)] /\ \A s \in Sensors : Len(samples[s]) <= MaxLen
    BY Parameters DEF Init
  <1>3. age \in [Sensors -> 0 .. MaxAge] /\ unheard \in [Sensors -> 0 .. MaxAge]
        /\ feed \in [Sensors -> {"up", "silent", "off"}]
    BY Parameters DEF Init
  <1>4. sync \in BOOLEAN /\ flow \in Flows /\ set \in 0 .. MaxPower /\ quiet \in 0 .. Cap + 1
        /\ changes \in 0 .. MaxChanges /\ faults \in 0 .. MaxFaults
    BY Parameters DEF Init
  <1>5. QED
    BY <1>1, <1>2, <1>3, <1>4 DEF TypeInv, TypeOK, Sample, Value

LEMMA ObserveType ==
    ASSUME TypeInv, NEW s \in Sensors, NEW val \in Value, Observe(s, val)
    PROVE  /\ live' \in [Sensors -> Value] /\ samples' \in [Sensors -> Seq(Sample)]
           /\ \A r \in Sensors : Len(samples'[r]) <= MaxLen
           /\ age' \in [Sensors -> 0 .. MaxAge]
  <1> DEFINE noted == Noted(s, val)
  <1>1. /\ live \in [Sensors -> Value] /\ samples \in [Sensors -> Seq(Sample)]
        /\ \A r \in Sensors : Len(samples[r]) <= MaxLen
        /\ age \in [Sensors -> 0 .. MaxAge]
    BY DEF TypeInv, TypeOK
  <1>2. noted \in Seq(Sample) /\ Len(noted) <= MaxLen
    BY NotedType
  <1>3. /\ live' = [live EXCEPT ![s] = val] /\ samples' = [samples EXCEPT ![s] = noted]
        /\ age' = [age EXCEPT ![s] = 0]
    BY DEF Observe
  <1> HIDE DEF noted
  <1>4. live' \in [Sensors -> Value] /\ age' \in [Sensors -> 0 .. MaxAge]
    BY <1>1, <1>3, Parameters
  <1>5. samples' \in [Sensors -> Seq(Sample)]
    BY <1>1, <1>2, <1>3
  <1>6. \A r \in Sensors : Len(samples'[r]) <= MaxLen
    BY <1>1, <1>2, <1>3
  <1>7. QED
    BY <1>4, <1>5, <1>6

\* The type invariant of the next state, from its parts.
LEMMA TypeFrom ==
    ASSUME sync' \in BOOLEAN, flow' \in Flows,
           live' \in [Sensors -> Value], samples' \in [Sensors -> Seq(Sample)],
           \A r \in Sensors : Len(samples'[r]) <= MaxLen,
           age' \in [Sensors -> 0 .. MaxAge], unheard' \in [Sensors -> 0 .. MaxAge],
           feed' \in [Sensors -> {"up", "silent", "off"}],
           set' \in 0 .. MaxPower, quiet' \in 0 .. Cap + 1,
           changes' \in 0 .. MaxChanges, faults' \in 0 .. MaxFaults
    PROVE  TypeInv'
  BY DEF TypeInv, TypeOK, Sample, Value

LEMMA TypeParts ==
    ASSUME TypeInv
    PROVE  /\ sync \in BOOLEAN /\ flow \in Flows
           /\ live \in [Sensors -> Value] /\ samples \in [Sensors -> Seq(Sample)]
           /\ \A r \in Sensors : Len(samples[r]) <= MaxLen
           /\ age \in [Sensors -> 0 .. MaxAge] /\ unheard \in [Sensors -> 0 .. MaxAge]
           /\ feed \in [Sensors -> {"up", "silent", "off"}]
           /\ set \in 0 .. MaxPower /\ quiet \in 0 .. Cap + 1
           /\ changes \in 0 .. MaxChanges /\ faults \in 0 .. MaxFaults
  BY DEF TypeInv, TypeOK

LEMMA TickType == TypeInv /\ Tick => TypeInv'
  <1> SUFFICES ASSUME TypeInv, Tick PROVE TypeInv'
    OBVIOUS
  <1>1. \A s \in Sensors : age[s] + 1 \in Nat /\ unheard[s] + 1 \in Nat
    BY TypeParts
  <1>2. age' \in [Sensors -> 0 .. MaxAge]
    <2>1. \A s \in Sensors : Saturated(age[s] + 1) \in 0 .. MaxAge
      BY <1>1, SaturatedType
    <2>2. QED
      BY <2>1 DEF Tick
  <1>3. unheard' \in [Sensors -> 0 .. MaxAge]
    <2>1. \A s \in Sensors : Saturated(unheard[s] + 1) \in 0 .. MaxAge /\ 0 \in 0 .. MaxAge
      BY <1>1, SaturatedType, Parameters
    <2>2. QED
      BY <2>1 DEF Tick
  <1>4. quiet' \in 0 .. Cap + 1
    <2>1. quiet + 1 \in Int /\ Cap + 1 \in Int /\ quiet \in 0 .. Cap + 1 /\ Cap \in Nat
      BY TypeParts, Parameters
    <2>2. Min({quiet + 1, Cap + 1}) \in 0 .. Cap + 1
      <3>1. Min({quiet + 1, Cap + 1}) = IF quiet + 1 <= Cap + 1 THEN quiet + 1 ELSE Cap + 1
        BY <2>1, MinOfTwo
      <3>2. QED
        BY <2>1, <3>1
    <2>3. quiet' = Min({quiet + 1, Cap + 1}) \/ quiet' = 0
      BY DEF Tick
    <2>4. QED
      BY <2>1, <2>2, <2>3
  <1>5. UNCHANGED <<sync, flow, live, samples, feed, set, changes, faults>>
    BY DEF Tick
  <1>6. QED
    BY <1>2, <1>3, <1>4, <1>5, TypeParts, TypeFrom

LEMMA StepType == TypeInv /\ [Next]_vars => TypeInv'
  <1> SUFFICES ASSUME TypeInv, [Next]_vars PROVE TypeInv'
    OBVIOUS
  <1>1. ASSUME NEW s \in Sensors, Report(s) PROVE TypeInv'
    <2>1. Truth(flow, s) \in Value
      BY TypeParts, TruthType DEF Value
    <2>2. Observe(s, Truth(flow, s))
      BY <1>1 DEF Report
    <2>3. feed' \in [Sensors -> {"up", "silent", "off"}] /\ unheard' \in [Sensors -> 0 .. MaxAge]
      BY <1>1, TypeParts, Parameters DEF Report
    <2>4. UNCHANGED <<sync, flow, set, quiet, changes, faults>>
      BY <1>1 DEF Report
    <2>5. QED
      BY <2>1, <2>2, <2>3, <2>4, ObserveType, TypeParts, TypeFrom
  <1>2. ASSUME NEW s \in Sensors, Offline(s) PROVE TypeInv'
    <2>1. Unavailable \in Value /\ Observe(s, Unavailable)
      BY <1>2 DEF Offline, Value
    <2>2. feed' \in [Sensors -> {"up", "silent", "off"}]
      BY <1>2, TypeParts DEF Offline
    <2>3. faults' \in 0 .. MaxFaults /\ quiet' \in 0 .. Cap + 1
      BY <1>2, TypeParts, Parameters DEF Offline
    <2>4. UNCHANGED <<sync, flow, set, unheard, changes>>
      BY <1>2 DEF Offline
    <2>5. QED
      BY <2>1, <2>2, <2>3, <2>4, ObserveType, TypeParts, TypeFrom
  <1>3. ASSUME NEW s \in Sensors, FallSilent(s) PROVE TypeInv'
    <2>1. feed' \in [Sensors -> {"up", "silent", "off"}]
      BY <1>3, TypeParts DEF FallSilent
    <2>2. faults' \in 0 .. MaxFaults
      BY <1>3, TypeParts, Parameters DEF FallSilent
    <2>3. UNCHANGED <<sync, flow, live, samples, age, set, quiet, unheard, changes>>
      BY <1>3 DEF FallSilent
    <2>4. QED
      BY <2>1, <2>2, <2>3, TypeParts, TypeFrom
  <1>4. CASE Change
    <2>1. flow' \in Flows /\ changes' \in 0 .. MaxChanges /\ quiet' \in 0 .. Cap + 1
      BY <1>4, TypeParts, Parameters DEF Change
    <2>2. UNCHANGED <<sync, live, samples, age, feed, set, unheard, faults>>
      BY <1>4 DEF Change
    <2>3. QED
      BY <2>1, <2>2, TypeParts, TypeFrom
  <1>5. CASE Cycle
    <2>1. set' \in 0 .. MaxPower
      BY <1>5, FollowedType DEF Cycle
    <2>2. UNCHANGED <<sync, flow, live, samples, age, feed, quiet, unheard, changes, faults>>
      BY <1>5 DEF Cycle
    <2>3. QED
      BY <2>1, <2>2, TypeParts, TypeFrom
  <1>6. CASE UNCHANGED vars
    BY <1>6, TypeParts, TypeFrom DEF vars
  <1>7. QED
    BY <1>1, <1>2, <1>3, <1>4, <1>5, <1>6, TickType DEF Next

\* The types of the live states, the samples and the averages computed of them: in
\* particular the surplus is always a number.
THEOREM TypeCorrect == Spec => []TypeOK
  <1>1. Init => TypeInv
    BY InitType
  <1>2. TypeInv /\ [Next]_vars => TypeInv'
    BY StepType
  <1>3. TypeInv => TypeOK
    BY DEF TypeInv
  <1>4. QED
    BY <1>1, <1>2, <1>3, PTL DEF Spec

-----------------------------------------------------------------------------
(***************************************************************************)
(* The update interval is one of the gaps: there is a median.              *)
(***************************************************************************)
LEMMA IntervalIsAGap ==
    ASSUME TypeInv, NEW s \in Sensors, Measured(s)
    PROVE  Interval(s) \in {samples[s][i].gap : i \in 2 .. Len(samples[s])}
  <1> DEFINE gaps == 2 .. Len(samples[s])
             G == {samples[s][i].gap : i \in gaps}
             upto(g) == {i \in gaps : samples[s][i].gap <= g}
             below(g) == {i \in gaps : samples[s][i].gap < g}
             middle == Cardinality(gaps) \div 2
             Middle(g) == Cardinality(below(g)) <= middle /\ Cardinality(upto(g)) > middle
  <1>1. samples[s] \in Seq(Sample) /\ Len(samples[s]) \in Nat /\ Len(samples[s]) >= 2
    <2>1. samples[s] \in Seq(Sample)
      BY TypeParts
    <2>2. QED
      BY <2>1 DEF Measured
  <1>2. IsFiniteSet(gaps) /\ Cardinality(gaps) \in Nat /\ Cardinality(gaps) >= 1
    <2>1. PICK n \in Nat : n = Len(samples[s]) /\ n >= 2
      BY <1>1
    <2>2. IsFiniteSet(2 .. n) /\ Cardinality(2 .. n) = n - 1
      <3>1. 2 \in Int /\ n \in Int /\ ~(2 > n)
        BY <2>1
      <3>2. QED
        BY <3>1, FS_Interval
    <2>3. QED
      BY <2>1, <2>2
  <1>3. \A i \in gaps : samples[s][i].gap \in 0 .. MaxAge
    <2> TAKE i \in gaps
    <2>1. samples[s][i] \in Sample
      BY <1>1
    <2>2. QED
      BY <2>1 DEF Sample
  <1>4. G \in SUBSET Nat /\ G # {} /\ \A g \in G : g <= MaxAge
    <2>1. \A g \in G : g \in 0 .. MaxAge
      BY <1>3
    <2>2. 2 \in gaps
      BY <1>1
    <2>3. samples[s][2].gap \in G
      BY <2>2
    <2> HIDE DEF G
    <2>4. QED
      BY <2>1, <2>3, Parameters
  <1>5. middle \in Nat /\ middle < Cardinality(gaps)
    <2>1. PICK n \in Nat : n = Cardinality(gaps) /\ n >= 1
      BY <1>2
    <2>2. n \div 2 \in Nat /\ n \div 2 < n
      BY <2>1
    <2>3. QED
      BY <2>1, <2>2
  <1>6. \A g : upto(g) \in SUBSET gaps /\ below(g) \in SUBSET gaps
    OBVIOUS
  <1> DEFINE high == {g \in G : Cardinality(upto(g)) > middle}
  <1>7. high # {}
    <2>1. Max(G) \in G /\ \A g \in G : g <= Max(G)
      <3>1. G \in SUBSET Int /\ MaxAge \in Int
        BY <1>4, Parameters
      <3> HIDE DEF G
      <3>2. QED
        BY <1>4, <3>1, MaxOf
    <2>2. \A i \in gaps : samples[s][i].gap \in G
      OBVIOUS
    <2>3. upto(Max(G)) = gaps
      <3> HIDE DEF G, gaps
      <3>1. \A i \in gaps : samples[s][i].gap <= Max(G)
        BY <2>1, <2>2
      <3>2. QED
        BY <3>1
    <2>4. Cardinality(upto(Max(G))) > middle
      BY <1>2, <1>5, <2>3
    <2> HIDE DEF G, upto, middle
    <2>5. QED
      BY <2>1, <2>4
  <1>8. PICK g \in high : \A h \in high : g <= h
    <2>1. high \in SUBSET Nat
      BY <1>4
    <2> HIDE DEF high
    <2>2. QED
      BY <1>7, <2>1, LeastNatural
  <1>9. g \in G /\ g \in Nat /\ Cardinality(upto(g)) > middle
    <2> HIDE DEF G, upto, middle
    <2>1. QED
      BY <1>4
  <1>10. Cardinality(below(g)) <= middle
    <2> DEFINE under == {h \in G : h < g}
    <2>1. CASE under = {}
      <3>1. \A i \in gaps : samples[s][i].gap \in G
        OBVIOUS
      <3>2. below(g) = {}
        <4> HIDE DEF G, gaps
        <4>1. \A i \in gaps : ~(samples[s][i].gap < g)
          BY <2>1, <3>1
        <4>2. QED
          BY <4>1
      <3>3. Cardinality(below(g)) = 0
        BY <3>2, FS_EmptySet
      <3>4. QED
        BY <1>5, <3>3
    <2>2. CASE under # {}
      <3>1. under \in SUBSET Int /\ \A h \in under : h <= g
        <4>1. under \subseteq G /\ \A h \in under : h < g
          OBVIOUS
        <4> HIDE DEF G, under
        <4>2. \A h \in under : h \in Nat
          BY <1>4, <4>1
        <4>3. QED
          BY <1>9, <4>1, <4>2
      <3>2. PICK h \in under : h = Max(under) /\ \A k \in under : k <= h
        <4> HIDE DEF under
        <4>1. g \in Int
          BY <1>9
        <4>2. QED
          BY <2>2, <3>1, <4>1, MaxOf
      <3>3. h \in G /\ h < g /\ h \in Nat
        <4> HIDE DEF G
        <4>1. QED
          BY <1>4
      <3>4. below(g) = upto(h)
        <4>1. \A i \in gaps : samples[s][i].gap \in G
          OBVIOUS
        <4>2. \A i \in gaps : samples[s][i].gap < g <=> samples[s][i].gap <= h
          <5> HIDE DEF G, gaps
          <5> TAKE i \in gaps
          <5>1. samples[s][i].gap \in G /\ samples[s][i].gap \in Nat
            BY <1>4, <4>1
          <5>2. samples[s][i].gap < g => samples[s][i].gap <= h
            BY <3>2, <5>1
          <5>3. QED
            BY <1>9, <3>3, <5>1, <5>2
        <4> HIDE DEF gaps
        <4>3. QED
          BY <4>2
      <3>5. h \notin high
        <4> HIDE DEF high
        <4>1. ~(g <= h)
          BY <1>9, <3>3
        <4>2. QED
          BY <1>8, <4>1
      <3>6. ~(Cardinality(upto(h)) > middle)
        <4> HIDE DEF G, upto, middle
        <4>1. QED
          BY <3>3, <3>5
      <3>7. Cardinality(upto(h)) \in Nat
        <4>1. upto(h) \in SUBSET gaps
          BY <1>6
        <4> HIDE DEF upto, gaps
        <4>2. IsFiniteSet(upto(h))
          BY <1>2, <4>1, FS_Subset
        <4>3. QED
          BY <4>2, FS_CardinalityType
      <3> HIDE DEF upto, below, middle
      <3>8. QED
        BY <1>5, <3>4, <3>6, <3>7
    <2>3. QED
      BY <2>1, <2>2
  <1>11. Interval(s) = CHOOSE x \in G : Middle(x)
    BY DEF Interval
  <1>12. Middle(g)
    BY <1>9, <1>10
  <1> HIDE DEF G, Middle
  <1>13. QED
    BY <1>9, <1>11, <1>12 DEF G

LEMMA LongestGapBounds ==
    ASSUME TypeInv, NEW s \in Sensors, Measured(s)
    PROVE  Interval(s) \in Nat /\ LongestGap(s) \in Nat /\ Interval(s) <= LongestGap(s)
  <1> DEFINE G == {samples[s][i].gap : i \in 2 .. Len(samples[s])}
  <1>1. Interval(s) \in G
    BY IntervalIsAGap
  <1>2. \A g \in G : g \in 0 .. MaxAge
    <2>1. samples[s] \in Seq(Sample) /\ Len(samples[s]) \in Nat
      BY DEF TypeInv
    <2>2. \A i \in 2 .. Len(samples[s]) : samples[s][i] \in Sample
      BY <2>1
    <2>3. QED
      BY <2>2 DEF Sample
  <1>3. LongestGap(s) = Max(G)
    BY DEF LongestGap
  <1> HIDE DEF G
  <1>4. G \in SUBSET Int /\ G # {} /\ \A g \in G : g <= MaxAge
    BY <1>1, <1>2, Parameters
  <1>5. MaxAge \in Int
    BY Parameters
  <1>6. Max(G) \in G /\ \A g \in G : g <= Max(G)
    BY <1>4, <1>5, MaxOf
  <1>7. QED
    BY <1>1, <1>2, <1>3, <1>6, Parameters

-----------------------------------------------------------------------------
(***************************************************************************)
(* A wrong number is not followed for long.                                *)
(***************************************************************************)
\* A sensor that is not off has been wrong for no longer than it has been unheard.
Heard == \A s \in Sensors : feed[s] # "off" => unheard[s] <= age[s]

LEMMA HeardStep == TypeInv /\ Heard /\ [Next]_vars => Heard'
  <1> SUFFICES ASSUME TypeInv, Heard, [Next]_vars, NEW s \in Sensors, feed'[s] # "off"
               PROVE  unheard'[s] <= age'[s]
    BY DEF Heard
  <1>1. /\ age \in [Sensors -> 0 .. MaxAge] /\ unheard \in [Sensors -> 0 .. MaxAge]
        /\ feed \in [Sensors -> {"up", "silent", "off"}]
    BY TypeParts
  <1>2. ASSUME NEW r \in Sensors, Report(r) PROVE unheard'[s] <= age'[s]
    BY <1>1, <1>2 DEF Heard, Report, Observe
  <1>3. ASSUME NEW r \in Sensors, Offline(r) PROVE unheard'[s] <= age'[s]
    BY <1>1, <1>3 DEF Heard, Offline, Observe
  <1>4. ASSUME NEW r \in Sensors, FallSilent(r) PROVE unheard'[s] <= age'[s]
    BY <1>1, <1>4 DEF Heard, FallSilent
  <1>5. CASE Change \/ Cycle \/ UNCHANGED vars
    BY <1>5 DEF Heard, Change, Cycle, vars
  <1>6. CASE Tick
    <2>1. PICK a \in Nat, u \in Nat : a = age[s] /\ u = unheard[s]
      BY <1>1
    <2>2. u <= a
      BY <1>6, <2>1 DEF Heard, Tick
    <2>3. age'[s] = Saturated(a + 1) /\ unheard'[s] \in {0, Saturated(u + 1)}
      BY <1>6, <2>1 DEF Tick
    <2>4. Saturated(u + 1) <= Saturated(a + 1) /\ 0 <= Saturated(a + 1)
      BY <2>1, <2>2, Parameters DEF Saturated
    <2>5. QED
      BY <2>3, <2>4
  <1>7. QED
    BY <1>2, <1>3, <1>4, <1>5, <1>6 DEF Next

\* signal_stale and the freeze in run_cycle: for any sensors, paces, factors and floors, a
\* load's setpoint does not move on the number of a critical sensor that has been wrong for
\* longer than the sensor's longest gap times the factor, and the floor.
THEOREM WrongIsNotFollowed == Spec => WrongNotFollowed
  <1>1. Init => TypeInv /\ Heard
    BY InitType DEF Init, Heard
  <1>2. TypeInv /\ Heard /\ [Next]_vars => (TypeInv /\ Heard)'
    BY StepType, HeardStep
  <1>3. TypeInv /\ Heard /\ [Next]_vars =>
          [ set' # set =>
              \A s \in Critical :
                  Measured(s) /\ feed[s] # "off"
                      => unheard[s] <= Max({StaleFactor * LongestGap(s), StaleMin}) ]_vars
    <2> SUFFICES ASSUME TypeInv, Heard, Next, set' # set,
                        NEW s \in Critical, Measured(s), feed[s] # "off"
                 PROVE  unheard[s] <= Max({StaleFactor * LongestGap(s), StaleMin})
      OBVIOUS
    <2>1. ~Stale /\ s \in Sensors
      BY DEF Next, Report, Offline, FallSilent, Change, Tick, Cycle, Followed, Critical
    <2>2. PICK i \in Nat, g \in Nat : i = Interval(s) /\ g = LongestGap(s) /\ i <= g
      <3>1. Interval(s) \in Nat /\ LongestGap(s) \in Nat /\ Interval(s) <= LongestGap(s)
        BY <2>1, LongestGapBounds
      <3>2. QED
        BY <3>1
    <2>3. PICK p \in Nat, q \in Nat : p = StaleFactor * i /\ q = StaleFactor * g /\ p <= q
      <3>1. StaleFactor \in Nat
        BY Parameters
      <3>2. StaleFactor * i \in Nat /\ StaleFactor * g \in Nat
        BY <3>1
      <3>3. StaleFactor * i <= StaleFactor * g
        BY <2>2, <3>1, TimesMonotone
      <3>4. QED
        BY <3>2, <3>3
    <2>4. /\ Max({p, StaleMin}) = IF p >= StaleMin THEN p ELSE StaleMin
          /\ Max({q, StaleMin}) = IF q >= StaleMin THEN q ELSE StaleMin
      BY MaxOfTwo, Parameters
    <2>5. ~(age[s] > Max({p, StaleMin}))
      BY <2>1, <2>2, <2>3 DEF Stale
    <2>6. age[s] \in Nat /\ unheard[s] \in Nat /\ unheard[s] <= age[s]
      BY <2>1, TypeParts DEF Heard
    <2>7. unheard[s] <= Max({q, StaleMin})
      BY <2>3, <2>4, <2>5, <2>6, Parameters
    <2>8. QED
      BY <2>2, <2>3, <2>7
  <1>4. QED
    BY <1>1, <1>2, <1>3, PTL DEF Spec, WrongNotFollowed

-----------------------------------------------------------------------------
(***************************************************************************)
(* The age of a sample, and what a new one does to it.                     *)
(***************************************************************************)
Gaps(seq) == [j \in DOMAIN seq |-> seq[j].gap]

\* How much older than the latest sample the i-th is.
Older(seq, i) == Total(Gaps(seq), i + 1 .. Len(seq))

LEMMA AgeIs ==
    ASSUME NEW s, NEW i
    PROVE  AgeOf(s, i) = age[s] + Older(samples[s], i)
  BY DEF AgeOf, Older, Gaps, Total

LEMMA GapsType ==
    ASSUME NEW seq \in Seq(Sample)
    PROVE  /\ Len(seq) \in Nat /\ DOMAIN seq = 1 .. Len(seq)
           /\ \A j \in 1 .. Len(seq) : /\ seq[j] \in Sample /\ Gaps(seq)[j] = seq[j].gap
                                       /\ Gaps(seq)[j] \in Nat
  <1>1. Len(seq) \in Nat /\ DOMAIN seq = 1 .. Len(seq) /\ \A j \in 1 .. Len(seq) : seq[j] \in Sample
    BY LenProperties
  <1>2. \A j \in 1 .. Len(seq) : seq[j].gap \in Nat
    BY <1>1, Parameters DEF Sample
  <1>3. QED
    BY <1>1, <1>2 DEF Gaps

LEMMA OlderNatural ==
    ASSUME NEW seq \in Seq(Sample), NEW i \in 1 .. Len(seq)
    PROVE  Older(seq, i) \in Nat
  <1> DEFINE later == i + 1 .. Len(seq)
             gaps == Gaps(seq)
  <1>1. Len(seq) \in Nat /\ i \in Nat /\ \A j \in later : gaps[j] \in Nat
    BY GapsType
  <1>2. IsFiniteSet(later)
    <2>1. i + 1 \in Int /\ Len(seq) \in Int
      BY <1>1
    <2>2. QED
      BY <2>1, FS_Interval
  <1>3. Total(gaps, later) \in Nat
    <2> HIDE DEF later, gaps
    <2>1. QED
      BY <1>1, <1>2, TotalNatural
  <1>4. QED
    BY <1>3 DEF Older

LEMMA OlderAppend ==
    ASSUME NEW seq \in Seq(Sample), NEW e \in Sample, NEW i \in 1 .. Len(seq)
    PROVE  Older(Append(seq, e), i) = Older(seq, i) + e.gap
  <1> DEFINE new == Append(seq, e)
             g == Gaps(new)
             f == Gaps(seq)
  <1>1. PICK n \in Nat : n = Len(seq) /\ i \in 1 .. n
    BY GapsType
  <1>2. /\ new \in Seq(Sample) /\ Len(new) = n + 1
        /\ \A j \in 1 .. n : new[j] = seq[j]
        /\ new[n + 1] = e
    BY <1>1, AppendProperties
  <1>3. \A j \in 1 .. n : g[j] = f[j] /\ f[j] \in Nat
    <2> HIDE DEF new
    <2> TAKE j \in 1 .. n
    <2>1. g[j] = new[j].gap
      BY <1>2, GapsType
    <2>2. f[j] = seq[j].gap /\ f[j] \in Nat
      BY <1>1, GapsType
    <2>3. QED
      BY <1>2, <2>1, <2>2
  <1>4. g[n + 1] = e.gap /\ g[n + 1] \in Nat
    <2> HIDE DEF new
    <2>1. n + 1 \in 1 .. Len(new)
      BY <1>2
    <2>2. QED
      BY <1>2, <2>1, GapsType
  <1> HIDE DEF new, g, f
  <1>5. Total(g, i + 1 .. n + 1) = Total(g, i + 1 .. n) + g[n + 1]
    <2>1. i + 1 \in Int /\ n + 1 \in Int /\ i + 1 <= n + 1 /\ n + 1 - 1 = n
      BY <1>1
    <2>2. \A j \in i + 1 .. n + 1 : g[j] \in Int
      <3> TAKE j \in i + 1 .. n + 1
      <3>1. j \in 1 .. n \/ j = n + 1
        BY <1>1
      <3>2. QED
        BY <1>3, <1>4, <3>1
    <2>3. Total(g, i + 1 .. n + 1) = Total(g, i + 1 .. (n + 1) - 1) + g[n + 1]
      BY <2>1, <2>2, TotalInterval
    <2>4. QED
      BY <2>1, <2>3
  <1>6. Total(g, i + 1 .. n) = Total(f, i + 1 .. n)
    <2>1. IsFiniteSet(i + 1 .. n)
      <3>1. i + 1 \in Int /\ n \in Int
        BY <1>1
      <3>2. QED
        BY <3>1, FS_Interval
    <2>2. \A j \in i + 1 .. n : f[j] \in Int /\ g[j] = f[j]
      <3> TAKE j \in i + 1 .. n
      <3>1. j \in 1 .. n
        BY <1>1
      <3>2. QED
        BY <1>3, <3>1
    <2>3. QED
      BY <2>1, <2>2, TotalAgrees
  <1>7. Older(new, i) = Total(g, i + 1 .. n + 1) /\ Older(seq, i) = Total(f, i + 1 .. n)
    BY <1>1, <1>2 DEF Older, g, f
  <1>8. QED
    BY <1>4, <1>5, <1>6, <1>7 DEF new

LEMMA OlderLast ==
    ASSUME NEW seq \in Seq(Sample)
    PROVE  Older(seq, Len(seq)) = 0
  <1>1. Len(seq) \in Nat
    BY GapsType
  <1>2. Len(seq) + 1 .. Len(seq) = {}
    BY <1>1
  <1>3. QED
    BY <1>2, TotalEmpty DEF Older

LEMMA OlderTail ==
    ASSUME NEW seq \in Seq(Sample), seq # <<>>, NEW i \in 1 .. Len(seq) - 1
    PROVE  Older(Tail(seq), i) = Older(seq, i + 1)
  <1> DEFINE new == Tail(seq)
             g == Gaps(new)
             f == Gaps(seq)
  <1>1. PICK n \in Nat : n = Len(seq) /\ i \in 1 .. n - 1
    BY GapsType
  <1>2. /\ new \in Seq(Sample) /\ Len(new) = n - 1
        /\ \A j \in 1 .. n - 1 : new[j] = seq[j + 1]
    BY <1>1, HeadTailProperties
  <1>3. \A j \in 1 .. n - 1 : g[j] = f[j + 1] /\ f[j + 1] \in Int
    <2> HIDE DEF new
    <2> TAKE j \in 1 .. n - 1
    <2>1. g[j] = new[j].gap
      BY <1>2, GapsType
    <2>2. j + 1 \in 1 .. Len(seq)
      BY <1>1
    <2>3. f[j + 1] = seq[j + 1].gap /\ f[j + 1] \in Nat
      BY <2>2, GapsType
    <2>4. QED
      BY <1>2, <2>1, <2>3
  <1> HIDE DEF new, g, f
  <1>4. PICK a \in Int, m \in Nat : a = i + 1 /\ m = n - 1 - i
    <2>1. i + 1 \in Int /\ n - 1 - i \in Nat
      BY <1>1
    <2>2. QED
      BY <2>1
  <1>5. Total(g, a .. a + m - 1) = Total(f, a + 1 .. a + m)
    <2>1. \A j \in a .. a + m - 1 : f[j + 1] \in Int /\ g[j] = f[j + 1]
      <3> TAKE j \in a .. a + m - 1
      <3>1. j \in 1 .. n - 1
        BY <1>1, <1>4
      <3>2. QED
        BY <1>3, <3>1
    <2>2. QED
      BY <2>1, TotalShift
  <1>6. a + m - 1 = n - 1 /\ a + m = n
    BY <1>1, <1>4
  <1>7. Older(new, i) = Total(g, i + 1 .. n - 1) /\ Older(seq, i + 1) = Total(f, i + 1 + 1 .. n)
    BY <1>1, <1>2 DEF Older, g, f
  <1>8. QED
    BY <1>4, <1>5, <1>6, <1>7 DEF new

-----------------------------------------------------------------------------
(***************************************************************************)
(* The balance is exact.                                                   *)
(***************************************************************************)
\* A sample that is not t is at least q old, when the latest is a old.
Outdated(seq, a, t, q) ==
    \A i \in 1 .. Len(seq) : seq[i].val # t => q <= a + Older(seq, i)

LEMMA OutdatedFresh ==
    ASSUME NEW seq \in Seq(Sample), NEW a \in Nat, NEW t
    PROVE  Outdated(seq, a, t, 0)
  <1>1. \A i \in 1 .. Len(seq) : Older(seq, i) \in Nat
    BY OlderNatural
  <1>2. QED
    BY <1>1 DEF Outdated

LEMMA OutdatedAppend ==
    ASSUME NEW seq \in Seq(Sample), NEW a \in 0 .. MaxAge, NEW t \in Value, NEW q \in Nat,
           Outdated(seq, a, t, q)
    PROVE  Outdated(Append(seq, [gap |-> a, val |-> t]), 0, t, q)
  <1> DEFINE e == [gap |-> a, val |-> t]
  <1>1. e \in Sample /\ e.gap = a /\ e.val = t
    BY DEF Sample
  <1> HIDE DEF e
  <1> DEFINE new == Append(seq, e)
  <1>2. PICK n \in Nat : n = Len(seq)
    BY GapsType
  <1>3. Len(new) = n + 1 /\ new[n + 1] = e /\ \A i \in 1 .. n : new[i] = seq[i]
    BY <1>1, <1>2, AppendProperties
  <1>4. \A i \in 1 .. n : Older(new, i) = Older(seq, i) + a /\ Older(seq, i) \in Nat
    BY <1>1, <1>2, OlderAppend, OlderNatural
  <1> HIDE DEF new
  <1>5. SUFFICES ASSUME NEW i \in 1 .. n + 1, new[i].val # t PROVE q <= 0 + Older(new, i)
    BY <1>3 DEF Outdated, new, e
  <1>6. i \in 1 .. n
    BY <1>1, <1>2, <1>3, <1>5
  <1>7. q <= a + Older(seq, i)
    BY <1>2, <1>3, <1>5, <1>6 DEF Outdated
  <1>8. PICK o \in Nat : o = Older(seq, i) /\ Older(new, i) = o + a
    BY <1>4, <1>6
  <1>9. QED
    BY <1>7, <1>8

LEMMA OutdatedTail ==
    ASSUME NEW seq \in Seq(Sample), seq # <<>>, NEW a, NEW t, NEW q, Outdated(seq, a, t, q)
    PROVE  Outdated(Tail(seq), a, t, q)
  <1>1. PICK n \in Nat : n = Len(seq)
    BY GapsType
  <1>2. Len(Tail(seq)) = n - 1 /\ \A i \in 1 .. n - 1 : Tail(seq)[i] = seq[i + 1]
    BY <1>1, HeadTailProperties
  <1>3. \A i \in 1 .. n - 1 : Older(Tail(seq), i) = Older(seq, i + 1)
    BY <1>1, OlderTail
  <1>4. SUFFICES ASSUME NEW i \in 1 .. n - 1, Tail(seq)[i].val # t
                 PROVE  q <= a + Older(Tail(seq), i)
    BY <1>2 DEF Outdated
  <1>5. i + 1 \in 1 .. Len(seq) /\ seq[i + 1].val # t
    BY <1>1, <1>2, <1>4
  <1>6. QED
    BY <1>3, <1>5 DEF Outdated

LEMMA OutdatedLater ==
    ASSUME NEW seq \in Seq(Sample), NEW a \in Nat, NEW b \in Nat, NEW t,
           NEW q \in Nat, NEW r \in Nat,
           r <= q + 1, a + 1 <= b \/ r <= b, Outdated(seq, a, t, q)
    PROVE  Outdated(seq, b, t, r)
  <1> SUFFICES ASSUME NEW i \in 1 .. Len(seq), seq[i].val # t PROVE r <= b + Older(seq, i)
    BY DEF Outdated
  <1>1. PICK o \in Nat : o = Older(seq, i)
    BY OlderNatural
  <1>2. q <= a + o
    BY <1>1 DEF Outdated
  <1>3. QED
    BY <1>1, <1>2

\* A new sample, and what falls out of a full deque, keep the others as old as they were.
LEMMA OutdatedNoted ==
    ASSUME TypeInv, NEW s \in Sensors, NEW t \in Value, NEW q \in Nat,
           Outdated(samples[s], age[s], t, q)
    PROVE  Outdated(Noted(s, t), 0, t, q)
  <1> DEFINE new == Append(samples[s], [gap |-> age[s], val |-> t])
  <1>1. samples[s] \in Seq(Sample) /\ age[s] \in 0 .. MaxAge
    BY TypeParts
  <1>2. Outdated(new, 0, t, q)
    BY <1>1, OutdatedAppend
  <1>3. new \in Seq(Sample) /\ new # <<>>
    <2>1. [gap |-> age[s], val |-> t] \in Sample
      BY <1>1 DEF Sample
    <2>2. QED
      BY <1>1, <2>1, AppendProperties
  <1>4. Noted(s, t) = IF Len(new) > MaxLen THEN Tail(new) ELSE new
    BY DEF Noted
  <1> HIDE DEF new
  <1>5. Outdated(Tail(new), 0, t, q)
    BY <1>2, <1>3, OutdatedTail
  <1>6. QED
    BY <1>2, <1>4, <1>5

LEMMA NotedLast ==
    ASSUME TypeInv, NEW s \in Sensors, NEW val \in Value
    PROVE  /\ Len(Noted(s, val)) >= 1
           /\ Noted(s, val)[Len(Noted(s, val))].val = val
  <1> DEFINE e == [gap |-> age[s], val |-> val]
             new == Append(samples[s], e)
  <1>1. samples[s] \in Seq(Sample) /\ e \in Sample /\ e.val = val
    BY TypeParts DEF Sample
  <1>2. PICK n \in Nat : n = Len(samples[s])
    BY <1>1, LenProperties
  <1> HIDE DEF e
  <1>3. new \in Seq(Sample) /\ new # <<>> /\ Len(new) = n + 1 /\ new[n + 1] = e
    BY <1>1, <1>2, AppendProperties
  <1>4. Noted(s, val) = IF n + 1 > MaxLen THEN Tail(new) ELSE new
    BY <1>3 DEF Noted, e
  <1> HIDE DEF new
  <1>5. Len(Tail(new)) = n /\ \A i \in 1 .. n : Tail(new)[i] = new[i + 1]
    BY <1>3, HeadTailProperties
  <1>6. CASE n + 1 > MaxLen
    <2>1. n \in 1 .. n
      BY <1>6, Parameters
    <2>2. Tail(new)[n] = e
      BY <1>3, <1>5, <2>1
    <2>3. QED
      BY <1>1, <1>4, <1>5, <1>6, <2>1, <2>2
  <1>7. CASE ~(n + 1 > MaxLen)
    BY <1>1, <1>3, <1>4, <1>7
  <1>8. QED
    BY <1>6, <1>7

\* Since when all of it has been shown, and what the samples still hold of before.
ShownAt(s) ==
    /\ quiet > 0 => live[s] = Truth(flow, s)
    /\ Len(samples[s]) >= 1 => live[s] = samples[s][Len(samples[s])].val
    /\ Outdated(samples[s], age[s], Truth(flow, s), quiet)
FlowsShown == \A s \in Sensors : ShownAt(s)

LEMMA ShownInit == Init => FlowsShown
  <1> SUFFICES ASSUME Init, NEW s \in Sensors PROVE ShownAt(s)
    BY DEF FlowsShown
  <1>1. samples[s] = <<>> /\ quiet = 0
    BY DEF Init
  <1>2. Len(samples[s]) = 0
    BY <1>1
  <1>3. QED
    BY <1>1, <1>2 DEF ShownAt, Outdated

\* A sensor whose sample, live state and flow stay, with the same time that has passed.
LEMMA ShownKept ==
    ASSUME NEW s \in Sensors, ShownAt(s), live'[s] = live[s], samples'[s] = samples[s],
           age'[s] = age[s], quiet' = quiet, flow' = flow
    PROVE  ShownAt(s)'
  <1>1. PICK seq, l, a, t, q : /\ seq = samples[s] /\ l = live[s] /\ a = age[s]
                               /\ t = Truth(flow, s) /\ q = quiet
    OBVIOUS
  <1>2. /\ q > 0 => l = t
        /\ Len(seq) >= 1 => l = seq[Len(seq)].val
        /\ Outdated(seq, a, t, q)
    BY <1>1 DEF ShownAt
  <1>3. samples'[s] = seq /\ live'[s] = l /\ age'[s] = a /\ Truth(flow', s) = t /\ quiet' = q
    BY <1>1
  <1>4. QED
    BY <1>2, <1>3 DEF ShownAt

\* After a change, or when a sensor is lost, the time begins anew.
LEMMA ShownAnew ==
    ASSUME NEW s \in Sensors, samples'[s] \in Seq(Sample), age'[s] \in Nat, quiet' = 0,
           Len(samples'[s]) >= 1 => live'[s] = samples'[s][Len(samples'[s])].val
    PROVE  ShownAt(s)'
  <1> DEFINE t == Truth(flow', s)
  <1>1. PICK seq \in Seq(Sample), a \in Nat : seq = samples'[s] /\ a = age'[s]
    OBVIOUS
  <1>2. Outdated(seq, a, t, 0)
    <2> HIDE DEF t
    <2>1. QED
      BY OutdatedFresh
  <1>3. QED
    BY <1>1, <1>2 DEF ShownAt

LEMMA ShownReport ==
    ASSUME TypeInv, FlowsShown, NEW s \in Sensors, Report(s)
    PROVE  FlowsShown'
  <1>1. Truth(flow, s) \in Value
    BY TypeParts, TruthType DEF Value
  <1>2. flow' = flow /\ quiet' = quiet /\ Observe(s, Truth(flow, s))
    BY DEF Report
  <1>3. /\ live \in [Sensors -> Value] /\ samples \in [Sensors -> Seq(Sample)]
        /\ age \in [Sensors -> 0 .. MaxAge] /\ quiet \in Nat
    BY TypeParts, Parameters
  <1>4. ASSUME NEW r \in Sensors, r # s PROVE ShownAt(r)'
    <2>1. live'[r] = live[r] /\ samples'[r] = samples[r] /\ age'[r] = age[r]
      BY <1>2, <1>3, <1>4 DEF Observe
    <2>2. ShownAt(r)
      BY DEF FlowsShown
    <2>3. QED
      BY <1>2, <2>1, <2>2, ShownKept
  <1>5. ShownAt(s)'
    <2>1. PICK t \in Value, q \in Nat : t = Truth(flow, s) /\ q = quiet
      BY <1>1, <1>3
    <2>2. PICK seq : seq = Noted(s, t)
      OBVIOUS
    <2>3. live'[s] = t /\ samples'[s] = seq /\ age'[s] = 0 /\ Truth(flow', s) = t /\ quiet' = q
      BY <1>2, <1>3, <2>1, <2>2 DEF Observe
    <2>4. Outdated(samples[s], age[s], t, q)
      BY <2>1 DEF FlowsShown, ShownAt
    <2>5. Outdated(seq, 0, t, q)
      BY <2>2, <2>4, OutdatedNoted
    <2>6. Len(seq) >= 1 /\ seq[Len(seq)].val = t
      BY <2>2, NotedLast
    <2>7. QED
      BY <2>3, <2>5, <2>6 DEF ShownAt
  <1>6. QED
    BY <1>4, <1>5 DEF FlowsShown

LEMMA ShownStep == MaxAge > Cap /\ TypeInv /\ FlowsShown /\ [Next]_vars => FlowsShown'
  <1> SUFFICES ASSUME MaxAge > Cap, TypeInv, FlowsShown, [Next]_vars PROVE FlowsShown'
    OBVIOUS
  <1>1. TypeInv'
    BY StepType
  <1>2. \A s \in Sensors : samples'[s] \in Seq(Sample) /\ age'[s] \in Nat
    BY <1>1, Parameters DEF TypeInv
  <1>3. /\ live \in [Sensors -> Value] /\ samples \in [Sensors -> Seq(Sample)]
        /\ age \in [Sensors -> 0 .. MaxAge] /\ quiet \in 0 .. Cap + 1
    BY TypeParts
  <1>4. ASSUME NEW s \in Sensors, Report(s) PROVE FlowsShown'
    BY <1>4, ShownReport
  <1>5. ASSUME NEW s \in Sensors, Offline(s) PROVE FlowsShown'
    <2>1. Observe(s, Unavailable) /\ quiet' = 0 /\ Unavailable \in Value
      BY <1>5 DEF Offline, Value
    <2>2. ASSUME NEW r \in Sensors, Len(samples'[r]) >= 1
          PROVE  live'[r] = samples'[r][Len(samples'[r])].val
      <3>1. CASE r = s
        <4>1. live'[r] = Unavailable /\ samples'[r] = Noted(s, Unavailable)
          BY <1>3, <2>1, <3>1 DEF Observe
        <4>2. QED
          BY <2>1, <4>1, NotedLast
      <3>2. CASE r # s
        BY <1>3, <2>1, <2>2, <3>2 DEF Observe, FlowsShown, ShownAt
      <3>3. QED
        BY <3>1, <3>2
    <2>3. ASSUME NEW r \in Sensors PROVE ShownAt(r)'
      BY <1>2, <2>1, <2>2, ShownAnew
    <2>4. QED
      BY <2>3 DEF FlowsShown
  <1>6. ASSUME NEW s \in Sensors, FallSilent(s) PROVE FlowsShown'
    <2>1. UNCHANGED <<live, samples, age, quiet, flow>>
      BY <1>6 DEF FallSilent
    <2>2. ASSUME NEW r \in Sensors PROVE ShownAt(r)'
      BY <2>1, ShownKept DEF FlowsShown
    <2>3. QED
      BY <2>2 DEF FlowsShown
  <1>7. CASE Change
    <2>1. UNCHANGED <<live, samples>> /\ quiet' = 0
      BY <1>7 DEF Change
    <2>2. ASSUME NEW r \in Sensors PROVE ShownAt(r)'
      <3>1. Len(samples'[r]) >= 1 => live'[r] = samples'[r][Len(samples'[r])].val
        BY <2>1 DEF FlowsShown, ShownAt
      <3>2. QED
        BY <1>2, <2>1, <3>1, ShownAnew
    <2>3. QED
      BY <2>2 DEF FlowsShown
  <1>8. CASE Cycle \/ UNCHANGED vars
    <2>1. UNCHANGED <<live, samples, age, quiet, flow>>
      BY <1>8 DEF Cycle, vars
    <2>2. ASSUME NEW r \in Sensors PROVE ShownAt(r)'
      BY <2>1, ShownKept DEF FlowsShown
    <2>3. QED
      BY <2>2 DEF FlowsShown
  <1>9. CASE Tick
    <2>1. /\ UNCHANGED <<live, samples, flow>>
          /\ \A s \in Sensors : age'[s] = Saturated(age[s] + 1)
          /\ quiet' = IF \A s \in Sensors : live[s] = Truth(flow, s)
                      THEN Min({quiet + 1, Cap + 1}) ELSE 0
      BY <1>9 DEF Tick
    <2>2. PICK q \in Nat, k \in Nat : q = quiet /\ k = Cap
      BY <1>3, Parameters
    <2>3. PICK r \in Nat : /\ r = quiet' /\ r <= q + 1 /\ r <= k + 1
                           /\ r > 0 => \A s \in Sensors : live[s] = Truth(flow, s)
      <3>1. Min({q + 1, k + 1}) = IF q + 1 <= k + 1 THEN q + 1 ELSE k + 1
        <4>1. q + 1 \in Int /\ k + 1 \in Int
          OBVIOUS
        <4>2. QED
          BY <4>1, MinOfTwo
      <3>2. CASE \A s \in Sensors : live[s] = Truth(flow, s)
        <4>1. quiet' = IF q + 1 <= k + 1 THEN q + 1 ELSE k + 1
          BY <2>1, <2>2, <3>1, <3>2
        <4>2. QED
          BY <3>2, <4>1
      <3>3. CASE ~\A s \in Sensors : live[s] = Truth(flow, s)
        <4>1. quiet' = 0
          BY <2>1, <3>3
        <4>2. QED
          BY <4>1
      <3>4. QED
        BY <3>2, <3>3
    <2>4. ASSUME NEW s \in Sensors PROVE ShownAt(s)'
      <3>0. PICK t : t = Truth(flow, s)
        OBVIOUS
      <3>1. PICK seq \in Seq(Sample), a \in Nat :
                 t = Truth(flow, s) /\ seq = samples[s] /\ a = age[s]
        <4>1. samples[s] \in Seq(Sample) /\ age[s] \in Nat
          BY <1>3, Parameters
        <4>2. QED
          BY <3>0, <4>1
      <3>2. PICK b \in Nat : b = age'[s]
        BY <1>2
      <3>3. a + 1 <= b \/ r <= b
        <4>1. b = Saturated(a + 1)
          BY <2>1, <3>1, <3>2
        <4>2. QED
          BY <2>2, <2>3, <4>1, Parameters DEF Saturated
      <3>4. Outdated(seq, a, t, q)
        BY <2>2, <3>1 DEF FlowsShown, ShownAt
      <3>5. Outdated(seq, b, t, r)
        BY <2>3, <3>3, <3>4, OutdatedLater
      <3>6. samples'[s] = seq /\ live'[s] = live[s] /\ Truth(flow', s) = t
        BY <2>1, <3>1
      <3>7. r > 0 => live'[s] = t
        BY <2>1, <2>3, <3>1
      <3>8. Len(seq) >= 1 => live'[s] = seq[Len(seq)].val
        BY <2>1, <3>1 DEF FlowsShown, ShownAt
      <3>9. QED
        BY <2>3, <3>2, <3>5, <3>6, <3>7, <3>8 DEF ShownAt
    <2>5. QED
      BY <2>4 DEF FlowsShown
  <1>10. QED
    BY <1>4, <1>5, <1>6, <1>7, <1>8, <1>9 DEF Next

\* The window is capped.
LEMMA WindowCapped ==
    ASSUME TypeInv
    PROVE  Window \in Int /\ Window <= Cap
  <1> DEFINE measured == {r \in Sensors : Measured(r)}
             I == {0} \cup {Interval(s) : s \in measured}
  <1>1. \A s \in measured : Interval(s) \in 0 .. MaxAge
    <2> TAKE s \in measured
    <2>1. Interval(s) \in {samples[s][i].gap : i \in 2 .. Len(samples[s])}
      BY IntervalIsAGap
    <2>2. samples[s] \in Seq(Sample)
      BY TypeParts
    <2>3. \A i \in 2 .. Len(samples[s]) : samples[s][i].gap \in 0 .. MaxAge
      <3>1. Len(samples[s]) \in Nat /\ \A i \in 1 .. Len(samples[s]) : samples[s][i] \in Sample
        BY <2>2, LenProperties
      <3>2. QED
        BY <3>1 DEF Sample
    <2>4. QED
      BY <2>1, <2>3
  <1>2. I \in SUBSET Int /\ I # {} /\ \A x \in I : x <= MaxAge
    <2> HIDE DEF measured
    <2>1. QED
      BY <1>1, Parameters
  <1>3. Max(I) \in Int
    <2>1. MaxAge \in Int
      BY Parameters
    <2> HIDE DEF I
    <2>2. QED
      BY <1>2, <2>1, MaxOf
  <1>4. Window = Min({Cap, Max(I)})
    BY DEF Window
  <1> HIDE DEF I
  <1>5. Min({Cap, Max(I)}) = IF Cap <= Max(I) THEN Cap ELSE Max(I)
    BY <1>3, Parameters, MinOfTwo
  <1>6. QED
    BY <1>3, <1>4, <1>5, Parameters

LEMMA DivideBack ==
    ASSUME NEW c \in Int, NEW n \in Nat, n # 0
    PROVE  (n * c) \div n = c
  OBVIOUS

\* Every sensor is read as what flows.
LEMMA ReadingExact ==
    ASSUME TypeInv, FlowsShown, quiet > Cap, NEW s \in Sensors
    PROVE  Reading(s) = Truth(flow, s)
  <1>1. PICK t \in Int : t = Truth(flow, s)
    BY TypeParts, TruthType
  <1>2. quiet \in Nat /\ Cap \in Nat /\ live[s] = t
    BY <1>1, TypeParts, Parameters DEF FlowsShown, ShownAt
  <1>3. samples[s] \in Seq(Sample)
    BY TypeParts
  <1>4. PICK n \in Nat : n = Len(samples[s])
    BY <1>3, LenProperties
  <1>5. ASSUME NumbersOf(s) # {} PROVE samples[s][Max(NumbersOf(s))].val = t
    <2>1. Max(NumbersOf(s)) \in 1 .. n /\ \A i \in NumbersOf(s) : i <= Max(NumbersOf(s))
      BY <1>4, <1>5, NumbersType
    <2>2. n >= 1 /\ samples[s][n].val = t
      BY <1>1, <1>2, <1>4, <2>1 DEF FlowsShown, ShownAt
    <2>3. n \in NumbersOf(s)
      BY <1>3, <1>4, <2>2, Parameters, LenProperties DEF NumbersOf, IsNumber
    <2>4. Max(NumbersOf(s)) = n
      BY <2>1, <2>3
    <2>5. QED
      BY <2>2, <2>4
  <1>6. ASSUME NEW i \in Recent(s) PROVE samples[s][i].val = t
    <2>1. i \in 1 .. n /\ AgeOf(s, i) <= Window
      BY <1>4, <1>6, NumbersType DEF Recent
    <2>2. AgeOf(s, i) = age[s] + Older(samples[s], i) /\ Older(samples[s], i) \in Nat
      BY <1>3, <1>4, <2>1, AgeIs, OlderNatural
    <2>3. age[s] \in Nat
      BY TypeParts, Parameters
    <2>4. ~(quiet <= age[s] + Older(samples[s], i))
      BY <1>2, <2>1, <2>2, <2>3, WindowCapped
    <2>5. QED
      BY <1>1, <1>4, <2>1, <2>4 DEF FlowsShown, ShownAt, Outdated
  <1>7. ASSUME Recent(s) # {} PROVE Average(s, Recent(s)) = t
    <2> DEFINE recent == Recent(s)
               f == [i \in recent |-> samples[s][i].val]
    <2>1. IsFiniteSet(recent)
      <3>1. recent \in SUBSET NumbersOf(s)
        BY DEF Recent
      <3>2. QED
        BY <3>1, NumbersType, FS_Subset
    <2>2. \A i \in recent : f[i] = t
      BY <1>6
    <2>3. Average(s, recent) = Total(f, recent) \div Cardinality(recent)
      BY AverageIs
    <2>4. Total(f, recent) = Cardinality(recent) * t
      <3> HIDE DEF f, recent
      <3>1. QED
        BY <2>1, <2>2, TotalSame
    <2>5. Cardinality(recent) \in Nat /\ Cardinality(recent) # 0
      BY <1>7, <2>1, FS_CardinalityType, FS_EmptySet
    <2> HIDE DEF f, recent
    <2>6. PICK c \in Nat : c = Cardinality(recent) /\ c # 0
      BY <2>5
    <2>7. QED
      BY <2>3, <2>4, <2>6, DivideBack DEF recent
  <1>8. Aligned(s) \in {Unavailable, t}
    BY <1>5, <1>7, AlignedIs, Zenon
  <1>9. QED
    BY <1>1, <1>2, <1>8 DEF Reading

\* Of one sensor, and of none.
OneOf(role) == \E s \in Sensors : \A r \in Sensors : Role[r] = role <=> r = s
NoneOf(role) == \A s \in Sensors : Role[s] # role

LEMMA SumOfOne ==
    ASSUME TypeInv, FlowsShown, quiet > Cap, NEW role, NEW t \in Int, OneOf(role),
           \A s \in Sensors : Role[s] = role => Truth(flow, s) = t
    PROVE  SumOf(role) = t
  <1>1. PICK s \in Sensors : \A r \in Sensors : Role[r] = role <=> r = s
    BY DEF OneOf
  <1>2. Reading(s) = t /\ IsNumber(t)
    BY <1>1, ReadingExact, Parameters DEF IsNumber
  <1> DEFINE counted == {r \in Sensors : Role[r] = role /\ IsNumber(Reading(r))}
             f == [r \in counted |-> Reading(r)]
  <1>3. counted = {s}
    BY <1>1, <1>2
  <1>4. \A r \in counted : f[r] = t
    BY <1>2, <1>3
  <1>5. SumOf(role) = Total(f, counted)
    BY DEF SumOf, Total
  <1>6. IsFiniteSet(counted) /\ Cardinality(counted) = 1
    BY <1>3, FS_Singleton
  <1> HIDE DEF f, counted
  <1>7. Total(f, counted) = 1 * t
    BY <1>4, <1>6, TotalSame
  <1>8. QED
    BY <1>5, <1>7

LEMMA SumOfNone ==
    ASSUME NEW role, NoneOf(role)
    PROVE  SumOf(role) = 0
  <1> DEFINE counted == {r \in Sensors : Role[r] = role /\ IsNumber(Reading(r))}
             f == [r \in counted |-> Reading(r)]
  <1>1. SumOf(role) = Total(f, counted)
    BY DEF SumOf, Total
  <1>2. counted = {}
    BY DEF NoneOf
  <1> HIDE DEF f, counted
  <1>3. QED
    BY <1>1, <1>2, TotalEmpty

\* Everything that flows is measured, and measured once: the grid by one sensor or by one
\* for each direction, and PV and battery by one each unless there is none.
MeasuredOnce ==
    /\ OneOf("grid") \/ (NoneOf("grid") /\ OneOf("import") /\ OneOf("export"))
    /\ OneOf("battery") \/ (NoneOf("battery") /\ \A f \in Flows : f.battery = 0)
    /\ OneOf("pv") \/ (NoneOf("pv") /\ \A f \in Flows : f.pv = 0)

LEMMA BalanceExact ==
    ASSUME TypeInv, FlowsShown, quiet > Cap, MeasuredOnce
    PROVE  /\ HouseLoad = flow.house
           /\ Surplus = Min({0, flow.battery}) - GridOf(flow)
  <1>1. /\ flow \in Flows /\ flow.house \in Int /\ flow.pv \in Int /\ flow.battery \in Int
        /\ GridOf(flow) = flow.house + flow.battery - flow.pv /\ GridOf(flow) \in Int
    BY TypeParts, SignalsAssumption DEF GridOf
  <1>2. PICK g \in Int : g = GridOf(flow)
    BY <1>1
  <1>3. GridW = g
    <2>1. CASE OneOf("grid")
      <3>1. SumOf("grid") = g
        <4>1. \A s \in Sensors : Role[s] = "grid" => Truth(flow, s) = g
          BY <1>2 DEF Truth
        <4>2. QED
          BY <2>1, <4>1, SumOfOne
      <3>2. \E s \in Sensors : Role[s] = "grid"
        BY <2>1 DEF OneOf
      <3>3. QED
        BY <3>1, <3>2 DEF GridW
    <2>2. CASE NoneOf("grid") /\ OneOf("import") /\ OneOf("export")
      <3>1. PICK i \in Int, e \in Int : i = Positive(g) /\ e = Positive(-g) /\ i - e = g
        <4>1. Positive(g) \in Int /\ Positive(-g) \in Int /\ Positive(g) - Positive(-g) = g
          BY DEF Positive
        <4>2. QED
          BY <4>1
      <3>2. SumOf("import") = i
        <4>1. \A s \in Sensors : Role[s] = "import" => Truth(flow, s) = i
          BY <1>2, <3>1 DEF Truth
        <4>2. QED
          BY <2>2, <4>1, SumOfOne
      <3>3. SumOf("export") = e
        <4>1. \A s \in Sensors : Role[s] = "export" => Truth(flow, s) = e
          BY <1>2, <3>1 DEF Truth
        <4>2. QED
          BY <2>2, <4>1, SumOfOne
      <3>4. QED
        BY <2>2, <3>1, <3>2, <3>3 DEF GridW, NoneOf
    <2>3. QED
      BY <2>1, <2>2 DEF MeasuredOnce
  <1>4. BatteryW = flow.battery
    <2>1. CASE OneOf("battery")
      <3>1. \A s \in Sensors : Role[s] = "battery" => Truth(flow, s) = flow.battery
        BY DEF Truth
      <3>2. QED
        BY <1>1, <2>1, <3>1, SumOfOne DEF BatteryW
    <2>2. CASE NoneOf("battery") /\ \A f \in Flows : f.battery = 0
      BY <1>1, <2>2, SumOfNone DEF BatteryW
    <2>3. QED
      BY <2>1, <2>2 DEF MeasuredOnce
  <1>5. SumOf("pv") = flow.pv
    <2>1. CASE OneOf("pv")
      <3>1. \A s \in Sensors : Role[s] = "pv" => Truth(flow, s) = flow.pv
        BY DEF Truth
      <3>2. QED
        BY <1>1, <2>1, <3>1, SumOfOne
    <2>2. CASE NoneOf("pv") /\ \A f \in Flows : f.pv = 0
      BY <1>1, <2>2, SumOfNone
    <2>3. QED
      BY <2>1, <2>2 DEF MeasuredOnce
  <1>6. HouseLoad = flow.house
    BY <1>1, <1>2, <1>3, <1>4, <1>5 DEF HouseLoad
  <1>7. QED
    BY <1>2, <1>3, <1>4, <1>6 DEF Surplus

\* _align_window and balance_from_config, for any sensors that measure everything once, with
\* any paces, deque length and cap, the ages being counted beyond the cap: when every sensor
\* has shown what flows for longer than the cap, the house load and the surplus are exact.
THEOREM BalanceIsExact ==
    ASSUME MeasuredOnce, MaxAge > Cap
    PROVE  Spec => []SteadyExact
  <1>1. Init => TypeInv /\ FlowsShown
    BY InitType, ShownInit
  <1>2. TypeInv /\ FlowsShown /\ [Next]_vars => (TypeInv /\ FlowsShown)'
    BY StepType, ShownStep
  <1>3. TypeInv /\ FlowsShown => SteadyExact
    BY BalanceExact DEF SteadyExact
  <1>4. QED
    BY <1>1, <1>2, <1>3, PTL DEF Spec

-----------------------------------------------------------------------------
(***************************************************************************)
(* The second part: what is configured and in which order it is controlled *)
(* (Setup), for any devices and vehicles, any known and migrated list.     *)
(***************************************************************************)
LEMMA MaxWithin ==
    ASSUME NEW n \in Nat, NEW s \in SUBSET (1 .. n), s # {}
    PROVE  Max(s) \in s /\ \A x \in s : x <= Max(s)
  <1>1. n \in Int /\ s \in SUBSET Int /\ \A x \in s : x <= n
    OBVIOUS
  <1> HIDE DEF Max
  <1>2. QED
    BY <1>1, MaxOf

-----------------------------------------------------------------------------
(***************************************************************************)
(* Folds.  What FoldLeft computes on a sequence is the last of a row of    *)
(* values, each made from the one before by a step G; the function it      *)
(* chooses is defined on all subsets of the domain.                        *)
(***************************************************************************)
FoldsTo(h, base, G, n) ==
    \A s \in SUBSET (1 .. n) :
        h[s] = IF s = {} THEN base ELSE G[<<Max(s), h[s \ {Max(s)}]>>]

LEMMA FoldExists ==
    ASSUME NEW n \in Nat, NEW V, NEW base \in V, NEW G \in [(1 .. n) \X V -> V]
    PROVE  \E h \in [SUBSET (1 .. n) -> V] : FoldsTo(h, base, G, n)
  <1> DEFINE Found(k) == \E h \in [SUBSET (1 .. k) -> V] : FoldsTo(h, base, G, k)
             found == {k \in Nat : k <= n => Found(k)}
  <1>1. 0 \in found
    <2> DEFINE h == [s \in SUBSET (1 .. 0) |-> base]
    <2>1. \A s \in SUBSET (1 .. 0) : s = {}
      OBVIOUS
    <2>2. h \in [SUBSET (1 .. 0) -> V] /\ FoldsTo(h, base, G, 0)
      BY <2>1 DEF FoldsTo
    <2>3. QED
      BY <2>2
  <1>2. ASSUME NEW k \in Nat, k + 1 <= n, Found(k) PROVE Found(k + 1)
    <2>0. k \in Nat /\ k + 1 \in 1 .. n
      BY <1>2
    <2>1. PICK g \in [SUBSET (1 .. k) -> V] : FoldsTo(g, base, G, k)
      BY <1>2
    <2> DEFINE rest(s) == s \ {k + 1}
               h == [s \in SUBSET (1 .. k + 1) |->
                        IF k + 1 \in s THEN G[<<k + 1, g[rest(s)]>>] ELSE g[s]]
    <2>2. \A s \in SUBSET (1 .. k + 1) : k + 1 \notin s => s \in SUBSET (1 .. k)
      BY <2>0
    <2>3. \A s \in SUBSET (1 .. k + 1) : rest(s) \in SUBSET (1 .. k)
      BY <2>0
    <2>4. \A s \in SUBSET (1 .. k) : s \in SUBSET (1 .. k + 1) /\ k + 1 \notin s
      BY <2>0
    <2>5. \A s \in SUBSET (1 .. k) : h[s] = g[s]
      BY <2>4
    <2>6. \A v \in V : G[<<k + 1, v>>] \in V
      BY <2>0
    <2>7. h \in [SUBSET (1 .. k + 1) -> V]
      <3>1. \A s \in SUBSET (1 .. k + 1) :
               (IF k + 1 \in s THEN G[<<k + 1, g[rest(s)]>>] ELSE g[s]) \in V
        <4> HIDE DEF rest
        <4>1. QED
          BY <2>1, <2>2, <2>3, <2>6
      <3>2. QED
        BY <3>1
    <2>8. FoldsTo(h, base, G, k + 1)
      <3> SUFFICES ASSUME NEW s \in SUBSET (1 .. k + 1)
                   PROVE  h[s] = IF s = {} THEN base ELSE G[<<Max(s), h[s \ {Max(s)}]>>]
        BY DEF FoldsTo
      <3>1. CASE k + 1 \in s
        <4>1. Max(s) = k + 1
          <5>0. \A x \in 1 .. k + 1 : x \in Int /\ x <= k + 1
            BY <2>0
          <5>1. s \in SUBSET Int /\ s # {} /\ \A x \in s : x <= k + 1
            BY <5>0, <3>1
          <5>2. Max(s) \in s /\ \A x \in s : x <= Max(s)
            <6>1. k + 1 \in Int
              BY <2>0
            <6> HIDE DEF h, rest
            <6>2. QED
              BY <5>1, <6>1, MaxOf
          <5>3. Max(s) <= k + 1 /\ k + 1 <= Max(s) /\ Max(s) \in Int
            BY <5>1, <5>2, <3>1
          <5>4. QED
            BY <5>3, <2>0
        <4>2. h[s] = G[<<k + 1, g[rest(s)]>>] /\ h[rest(s)] = g[rest(s)] /\ s # {}
          BY <3>1, <2>3, <2>5
        <4> HIDE DEF h
        <4>3. QED
          BY <4>1, <4>2
      <3>2. CASE k + 1 \notin s
        <4>1. s \in SUBSET (1 .. k) /\ h[s] = g[s]
          BY <2>2, <2>5, <3>2
        <4>2. h[s \ {Max(s)}] = g[s \ {Max(s)}]
          BY <2>5, <4>1
        <4> HIDE DEF h
        <4>3. QED
          BY <2>1, <4>1, <4>2 DEF FoldsTo
      <3>3. QED
        BY <3>1, <3>2
    <2>9. QED
      BY <2>7, <2>8
  <1>3. \A k \in Nat : k \in found
    <2>1. found \in SUBSET Nat
      OBVIOUS
    <2> HIDE DEF Found
    <2>2. \A k \in found : k + 1 \in found
      BY <1>2
    <2> HIDE DEF found
    <2>3. QED
      BY <1>1, <2>1, <2>2, Induction
  <1>4. Found(n)
    <2> HIDE DEF Found
    <2>1. QED
      BY <1>3
  <1>5. QED
    BY <1>4

\* 1 .. n as a set, and as the domain of a fold.
LEMMA IntervalSize ==
    ASSUME NEW n \in Nat
    PROVE  /\ IsFiniteSet(1 .. n) /\ Cardinality(1 .. n) = n
           /\ n > 0 => Max(1 .. n) = n /\ (1 .. n) \ {n} = 1 .. n - 1
  <1>1. IsFiniteSet(1 .. n) /\ Cardinality(1 .. n) = n
    BY FS_Interval
  <1>2. ASSUME n > 0 PROVE Max(1 .. n) = n
    <2> DEFINE s == 1 .. n
    <2>1. s \in SUBSET (1 .. n) /\ n \in s /\ \A x \in s : x \in Int /\ x <= n
      BY <1>2
    <2>2. Max(s) \in s /\ \A x \in s : x <= Max(s)
      <3> HIDE DEF s
      <3>1. QED
        BY <2>1, MaxWithin
    <2>3. Max(s) \in Int /\ Max(s) <= n /\ n <= Max(s)
      <3> HIDE DEF s
      <3>1. QED
        BY <2>1, <2>2
    <2>4. QED
      BY <2>3
  <1>3. QED
    BY <1>1, <1>2

-----------------------------------------------------------------------------
(***************************************************************************)
(* Ids.  There is a free one as long as there are fewer used ones than     *)
(* devices.                                                                *)
(***************************************************************************)
Known == Loads \cup Numbers
Anything == Known \cup {FreeId(used) : used \in SUBSET Numbers}
Posted == [id : Known \cup {NoId}, dev : Loads, control : BOOLEAN]

LEMMA DeviceCount ==
    /\ IsFiniteSet(Loads) /\ IsFiniteSet(Cars) /\ Cardinality(Devices) \in Nat
    /\ Cardinality(Loads) \in Nat /\ Cardinality(Cars) \in Nat
    /\ Cardinality(Devices) = Cardinality(Loads) + Cardinality(Cars)
    /\ IsFiniteSet(Numbers) /\ Cardinality(Numbers) = Cardinality(Devices)
  <1>1. IsFiniteSet(Loads) /\ IsFiniteSet(Cars)
    BY SetupAssumption, FS_Subset DEF Devices
  <1>2. Cardinality(Loads) \in Nat /\ Cardinality(Cars) \in Nat /\ Cardinality(Devices) \in Nat
    BY <1>1, SetupAssumption, FS_CardinalityType
  <1>3. Cardinality(Devices) = Cardinality(Loads) + Cardinality(Cars)
    <2>1. Cardinality(Devices) = Cardinality(Loads) + Cardinality(Cars) - Cardinality({})
      BY <1>1, SetupAssumption, FS_Union DEF Devices
    <2>2. Cardinality({}) = 0
      BY FS_EmptySet
    <2>3. QED
      BY <1>2, <2>1, <2>2
  <1>4. QED
    BY <1>1, <1>2, <1>3, IntervalSize DEF Numbers

LEMMA FreeIdLocal == ASSUME NEW used PROVE FreeId(used) = FreeId(used \cap Numbers)
  <1>1. \A n \in Numbers : 1 .. n - 1 \subseteq Numbers
    BY DeviceCount DEF Numbers
  <1>2. \A n \in Numbers :
          n \notin used /\ 1 .. n - 1 \subseteq used
            <=> n \notin used \cap Numbers /\ 1 .. n - 1 \subseteq used \cap Numbers
    BY <1>1
  <1>3. QED
    BY <1>2 DEF FreeId

LEMMA FreeIdFree ==
    ASSUME NEW used, IsFiniteSet(used), Cardinality(used) < Cardinality(Devices)
    PROVE  FreeId(used) \in Numbers /\ FreeId(used) \notin used
  <1> DEFINE free == Numbers \ used
  <1>1. free \in SUBSET Nat
    BY DeviceCount DEF Numbers
  <1>2. free # {}
    <2> SUFFICES ASSUME Numbers \subseteq used PROVE FALSE
      OBVIOUS
    <2>1. Cardinality(Numbers) <= Cardinality(used)
      BY FS_Subset
    <2>2. Cardinality(used) \in Nat
      BY FS_CardinalityType
    <2>3. QED
      BY <2>1, <2>2, DeviceCount
  <1>3. PICK n \in free : \A m \in free : n <= m
    BY <1>1, <1>2, LeastNatural
  <1>4. \A m \in 1 .. n - 1 : m \in used
    <2> SUFFICES ASSUME NEW m \in 1 .. n - 1, m \notin used PROVE FALSE
      OBVIOUS
    <2>1. n \in 1 .. Cardinality(Devices)
      BY <1>3 DEF Numbers
    <2>2. m \in 1 .. Cardinality(Devices) /\ m < n
      BY <2>1, DeviceCount
    <2>3. m \in free
      BY <2>2 DEF Numbers
    <2>4. QED
      BY <1>1, <1>3, <2>2, <2>3
  <1>5. n \in Numbers /\ n \notin used /\ 1 .. n - 1 \subseteq used
    BY <1>3, <1>4
  <1>6. QED
    BY <1>5 DEF FreeId

\* _sanitize_config: one instance after the other.
LEMMA SanitizedSteps ==
    ASSUME NEW doc \in Seq(Posted)
    PROVE  \E f :
              /\ f[0] = <<>> /\ Sanitized(doc) = f[Len(doc)]
              /\ \A k \in 0 .. Len(doc) - 1 : f[k + 1] = WithId(f[k], doc[k + 1])
  <1> DEFINE n == Len(doc)
             V == Seq([id : Anything, dev : Loads, control : BOOLEAN])
             G == [x \in (1 .. n) \X V |-> WithId(x[2], doc[x[1]])]
             body(h) == [s \in SUBSET (1 .. n) |->
                            IF s = {} THEN <<>> ELSE WithId(h[s \ {Max(s)}], doc[Max(s)])]
             iter == CHOOSE h : h = body(h)
  <1>1. n \in Nat /\ DOMAIN doc = 1 .. n /\ \A i \in 1 .. n : doc[i] \in Posted
    OBVIOUS
  <1>2. \A out \in V, i \in 1 .. n : WithId(out, doc[i]) \in V
    <2> SUFFICES ASSUME NEW out \in V, NEW i \in 1 .. n PROVE WithId(out, doc[i]) \in V
      OBVIOUS
    <2>1. FreeId(Ids(out)) \in Anything
      BY FreeIdLocal DEF Anything
    <2> DEFINE id == IF doc[i].id = NoId \/ doc[i].id \in Ids(out)
                     THEN FreeId(Ids(out)) ELSE doc[i].id
               inst == [doc[i] EXCEPT !.id = id]
    <2>2. id \in Anything /\ doc[i] \in Posted
      BY <1>1, <2>1 DEF Posted, Anything
    <2>3. inst \in [id : Anything, dev : Loads, control : BOOLEAN]
      <3> HIDE DEF id
      <3>1. QED
        BY <2>2 DEF Posted
    <2>4. WithId(out, doc[i]) = Append(out, inst)
      BY DEF WithId
    <2> HIDE DEF inst
    <2>5. QED
      BY <2>3, <2>4
  <1>3. \E h : h = body(h)
    <2>1. G \in [(1 .. n) \X V -> V]
      BY <1>2
    <2>2. <<>> \in V
      OBVIOUS
    <2>3. PICK h \in [SUBSET (1 .. n) -> V] : FoldsTo(h, <<>>, G, n)
      <3> HIDE DEF G, V, n
      <3>1. QED
        BY <1>1, <2>1, <2>2, FoldExists
    <2>4. ASSUME NEW s \in SUBSET (1 .. n)
          PROVE  h[s] = IF s = {} THEN <<>> ELSE WithId(h[s \ {Max(s)}], doc[Max(s)])
      <3>1. CASE s = {}
        BY <2>3, <3>1 DEF FoldsTo
      <3>2. CASE s # {}
        <4>2. Max(s) \in s
          <5> HIDE DEF n, V, G
          <5>1. QED
            BY <1>1, <3>2, MaxWithin
        <4>3. Max(s) \in 1 .. n /\ s \ {Max(s)} \in SUBSET (1 .. n)
          BY <4>2
        <4>4. h[s] = G[<<Max(s), h[s \ {Max(s)}]>>] /\ h[s \ {Max(s)}] \in V
          BY <2>3, <3>2, <4>3 DEF FoldsTo
        <4>5. G[<<Max(s), h[s \ {Max(s)}]>>] = WithId(h[s \ {Max(s)}], doc[Max(s)])
          <5> HIDE DEF V, n
          <5>1. QED
            BY <4>3, <4>4
        <4>6. QED
          BY <3>2, <4>4, <4>5
      <3>3. QED
        BY <3>1, <3>2
    <2>5. h = body(h)
      <3> HIDE DEF n, V, G
      <3>1. QED
        BY <2>3, <2>4
    <2>6. QED
      BY <2>5
  <1>4. iter = body(iter)
    BY <1>3
  <1>5. Sanitized(doc) = iter[1 .. n]
    BY <1>1 DEF Sanitized, FoldLeft, MapThenFoldSet
  <1>6. iter[{}] = <<>>
    BY <1>4
  <1>7. ASSUME NEW k \in 0 .. n - 1
        PROVE  iter[1 .. k + 1] = WithId(iter[1 .. k], doc[k + 1])
    <2>1. 1 .. k + 1 \in SUBSET (1 .. n) /\ 1 .. k + 1 # {} /\ k + 1 \in Nat /\ k + 1 > 0
      <3> HIDE DEF n
      <3>1. n \in Nat /\ k \in Nat /\ k + 1 <= n /\ k + 1 \in 1 .. k + 1
        BY <1>1
      <3>2. \A x \in 1 .. k + 1 : x \in 1 .. n
        BY <3>1
      <3>3. 1 .. k + 1 \in SUBSET (1 .. n) /\ 1 .. k + 1 # {}
        BY <3>1, <3>2, Zenon
      <3>4. QED
        BY <3>1, <3>3
    <2>2. Max(1 .. k + 1) = k + 1 /\ (1 .. k + 1) \ {k + 1} = 1 .. k
      <3>1. k + 1 - 1 = k
        OBVIOUS
      <3>2. QED
        BY <2>1, <3>1, IntervalSize
    <2> HIDE DEF n, V, G
    <2>3. iter[1 .. k + 1] = body(iter)[1 .. k + 1]
      BY <1>4
    <2> HIDE DEF iter
    <2>4. QED
      BY <2>1, <2>2, <2>3
  <1> DEFINE f == [k \in 0 .. n |-> iter[1 .. k]]
  <1>8. f[0] = <<>> /\ f[n] = iter[1 .. n]
    <2>1. 1 .. 0 = {} /\ 0 \in 0 .. n /\ n \in 0 .. n
      BY <1>1
    <2> HIDE DEF n, iter
    <2>2. QED
      BY <1>6, <2>1
  <1>9. \A k \in 0 .. n - 1 : f[k + 1] = WithId(f[k], doc[k + 1])
    <2>1. \A k \in 0 .. n - 1 : k \in 0 .. n /\ k + 1 \in 0 .. n
      BY <1>1
    <2> HIDE DEF n, iter
    <2>2. QED
      BY <1>7, <2>1
  <1> HIDE DEF f, iter
  <1>10. QED
    BY <1>5, <1>8, <1>9

-----------------------------------------------------------------------------
(***************************************************************************)
(* Documents.                                                              *)
(***************************************************************************)
IdsApart(list) == \A i, j \in DOMAIN list : list[i].id = list[j].id => i = j
DevicesApart(list) == \A i, j \in DOMAIN list : list[i].dev = list[j].dev => i = j

LEMMA SeqShape ==
    ASSUME NEW S, NEW list \in Seq(S)
    PROVE  /\ Len(list) \in Nat /\ DOMAIN list = 1 .. Len(list)
           /\ \A i \in 1 .. Len(list) : list[i] \in S
  OBVIOUS

LEMMA AppendShape ==
    ASSUME NEW S, NEW list \in Seq(S), NEW e \in S
    PROVE  /\ Append(list, e) \in Seq(S) /\ Len(Append(list, e)) = Len(list) + 1
           /\ \A i \in 1 .. Len(list) : Append(list, e)[i] = list[i]
           /\ Append(list, e)[Len(list) + 1] = e
  BY AppendProperties

LEMMA IdsCount ==
    ASSUME NEW S, NEW list \in Seq(S)
    PROVE  IsFiniteSet(Ids(list)) /\ Cardinality(Ids(list)) <= Len(list)
  <1> DEFINE n == Len(list)
             f == [i \in 1 .. n |-> list[i].id]
  <1>1. n \in Nat /\ DOMAIN list = 1 .. n
    OBVIOUS
  <1>2. f \in Surjection(1 .. n, Ids(list))
    BY <1>1 DEF Surjection, Ids
  <1>3. IsFiniteSet(1 .. n) /\ Cardinality(1 .. n) = n
    BY <1>1, IntervalSize
  <1>4. QED
    BY <1>2, <1>3, FS_Surjection

LEMMA DevicesCount ==
    ASSUME NEW S, NEW list \in Seq(S), NEW T, IsFiniteSet(T), DevicesApart(list),
           \A i \in 1 .. Len(list) : list[i].dev \in T
    PROVE  Len(list) <= Cardinality(T)
  <1> DEFINE n == Len(list)
             f == [i \in 1 .. n |-> list[i].dev]
  <1>1. n \in Nat /\ DOMAIN list = 1 .. n
    OBVIOUS
  <1>2. f \in Injection(1 .. n, T)
    BY <1>1 DEF Injection, IsInjective, DevicesApart
  <1>3. Cardinality(1 .. n) = n
    BY <1>1, IntervalSize
  <1>4. QED
    BY <1>2, <1>3, FS_Injection

\* What out has in common with the posted list: all but the ids.
Same(out, list, k) ==
    \A i \in 1 .. k :
        /\ out[i].dev = list[i].dev /\ out[i].control = list[i].control
        /\ out[i].id # list[i].id => out[i].id \in Numbers

LEMMA SanitizedShape ==
    ASSUME NEW doc \in Seq(Posted), Len(doc) <= Cardinality(Loads)
    PROVE  /\ Sanitized(doc) \in Seq(Instances) /\ Len(Sanitized(doc)) = Len(doc)
           /\ Same(Sanitized(doc), doc, Len(doc)) /\ IdsApart(Sanitized(doc))
  <1> DEFINE n == Len(doc)
  <1>1. PICK f : /\ f[0] = <<>> /\ Sanitized(doc) = f[n]
                 /\ \A k \in 0 .. n - 1 : f[k + 1] = WithId(f[k], doc[k + 1])
    BY SanitizedSteps
  <1>2. n \in Nat /\ n <= Cardinality(Loads) /\ \A i \in 1 .. n : doc[i] \in Posted
    OBVIOUS
  <1> DEFINE Right(k) == /\ f[k] \in Seq(Instances) /\ Len(f[k]) = k
                         /\ Same(f[k], doc, k) /\ IdsApart(f[k])
             right == {k \in Nat : k <= n => Right(k)}
  <1>3. Right(0)
    BY <1>1 DEF Same, IdsApart
  <1>4. ASSUME NEW k \in Nat, k + 1 <= n, Right(k) PROVE Right(k + 1)
    <2> DEFINE out == f[k]
               new == doc[k + 1]
               id == IF new.id = NoId \/ new.id \in Ids(out) THEN FreeId(Ids(out)) ELSE new.id
               inst == [new EXCEPT !.id = id]
    <2>1. f[k + 1] = Append(out, inst) /\ new \in Posted
      <3>1. k \in 0 .. n - 1 /\ k + 1 \in 1 .. n
        BY <1>2, <1>4
      <3>2. f[k + 1] = WithId(out, new)
        BY <1>1, <3>1
      <3>3. QED
        BY <1>2, <3>1, <3>2 DEF WithId
    <2>2. FreeId(Ids(out)) \in Numbers /\ FreeId(Ids(out)) \notin Ids(out)
      <3>1. IsFiniteSet(Ids(out)) /\ Cardinality(Ids(out)) <= k
        BY <1>4, IdsCount
      <3>2. Cardinality(Ids(out)) < Cardinality(Devices)
        <4>1. Cardinality(Ids(out)) \in Nat
          BY <3>1, FS_CardinalityType
        <4> HIDE DEF n, out
        <4>2. QED
          BY <1>2, <1>4, <3>1, <4>1, DeviceCount
      <3>3. QED
        BY <3>1, <3>2, FreeIdFree
    <2>3. id \in Known /\ id \notin Ids(out) /\ (id # new.id => id \in Numbers)
      BY <2>1, <2>2 DEF Posted, Known
    <2>4. /\ inst \in Instances /\ inst.id = id /\ inst.dev = new.dev
          /\ inst.control = new.control
      <3> HIDE DEF id, new
      <3>1. QED
        BY <2>1, <2>3 DEF Posted, Instances, Known
    <2>5. out \in Seq(Instances) /\ Len(out) = k /\ Same(out, doc, k) /\ IdsApart(out)
      BY <1>4
    <2>6. DOMAIN out = 1 .. k /\ \A i \in 1 .. k : out[i].id # id
      <3>1. DOMAIN out = 1 .. k
        BY <2>5
      <3>2. QED
        BY <2>3, <3>1 DEF Ids
    <2> HIDE DEF inst, id, out, n
    <2> DEFINE next == Append(out, inst)
    <2>7. /\ next \in Seq(Instances) /\ Len(next) = k + 1 /\ DOMAIN next = 1 .. k + 1
          /\ \A i \in 1 .. k : next[i] = out[i]
          /\ next[k + 1] = inst
      BY <2>4, <2>5, AppendShape
    <2> HIDE DEF next
    <2>8. \A i \in 1 .. k + 1 : i \in 1 .. k \/ i = k + 1
      BY <1>4
    <2>9. Same(next, doc, k + 1)
      BY <2>3, <2>4, <2>5, <2>7, <2>8 DEF Same
    <2>10. IdsApart(next)
      BY <2>4, <2>5, <2>6, <2>7, <2>8 DEF IdsApart
    <2>11. f[k + 1] = next
      BY <2>1 DEF next
    <2>12. QED
      BY <2>7, <2>9, <2>10, <2>11
  <1>5. \A k \in Nat : k \in right
    <2>1. right \in SUBSET Nat
      OBVIOUS
    <2>2. 0 \in right /\ \A k \in right : k + 1 \in right
      <3> HIDE DEF Right
      <3>1. QED
        BY <1>2, <1>3, <1>4
    <2> HIDE DEF right
    <2>3. QED
      BY <2>1, <2>2, Induction
  <1>6. Right(n)
    <2> HIDE DEF Right
    <2>1. QED
      BY <1>2, <1>5
  <1>7. QED
    BY <1>1, <1>6

\* What is sanitised is left as it is.
LEMMA SanitizedAgain ==
    ASSUME NEW doc \in Seq(Instances), IdsApart(doc)
    PROVE  Sanitized(doc) = doc
  <1> DEFINE n == Len(doc)
  <1>1. doc \in Seq(Posted)
    <2>1. Instances \subseteq Posted
      BY DEF Instances, Posted, Known
    <2>2. QED
      BY <2>1, SeqMonotonic
  <1>2. PICK f : /\ f[0] = <<>> /\ Sanitized(doc) = f[n]
                 /\ \A k \in 0 .. n - 1 : f[k + 1] = WithId(f[k], doc[k + 1])
    BY <1>1, SanitizedSteps
  <1>3. n \in Nat /\ DOMAIN doc = 1 .. n /\ \A i \in 1 .. n : doc[i] \in Instances
    OBVIOUS
  <1> DEFINE Right(k) == /\ f[k] \in Seq(Instances) /\ Len(f[k]) = k
                         /\ \A i \in 1 .. k : f[k][i] = doc[i]
             right == {k \in Nat : k <= n => Right(k)}
  <1>4. Right(0)
    BY <1>2
  <1>5. ASSUME NEW k \in Nat, k + 1 <= n, Right(k) PROVE Right(k + 1)
    <2> DEFINE out == f[k]
               new == doc[k + 1]
    <2>1. f[k + 1] = WithId(out, new) /\ new \in Instances /\ k + 1 \in DOMAIN doc
          /\ 1 .. k \subseteq DOMAIN doc
      BY <1>2, <1>3, <1>5
    <2>2. DOMAIN out = 1 .. k
      BY <1>5
    <2>3. new.id \notin Ids(out)
      <3> SUFFICES ASSUME NEW i \in 1 .. k, out[i].id = new.id PROVE FALSE
        BY <2>2 DEF Ids
      <3>1. doc[i].id = new.id /\ i \in DOMAIN doc /\ i # k + 1
        BY <1>5, <2>1
      <3>2. QED
        BY <2>1, <3>1 DEF IdsApart
    <2>4. new.id # NoId
      BY <2>1, SetupAssumption DEF Instances, Numbers, NoId, Devices
    <2>5. [new EXCEPT !.id = @] = new
      BY <2>1 DEF Instances
    <2>6. f[k + 1] = Append(out, new)
      BY <2>1, <2>3, <2>4, <2>5 DEF WithId
    <2>7. \A i \in 1 .. k + 1 : i \in 1 .. k \/ i = k + 1
      OBVIOUS
    <2> HIDE DEF new, n
    <2>8. /\ Append(out, new) \in Seq(Instances) /\ Len(Append(out, new)) = k + 1
          /\ \A i \in 1 .. k : Append(out, new)[i] = out[i]
          /\ Append(out, new)[k + 1] = new
      BY <1>5, <2>1, AppendShape
    <2>9. QED
      BY <1>5, <2>6, <2>7, <2>8 DEF new
  <1>6. \A k \in Nat : k \in right
    <2>1. right \in SUBSET Nat
      OBVIOUS
    <2>2. 0 \in right /\ \A k \in right : k + 1 \in right
      <3> HIDE DEF Right
      <3>1. QED
        BY <1>3, <1>4, <1>5
    <2> HIDE DEF right
    <2>3. QED
      BY <2>1, <2>2, Induction
  <1>7. Right(n)
    <2> HIDE DEF Right
    <2>1. QED
      BY <1>3, <1>6
  <1>8. QED
    BY <1>2, <1>7, SeqEqual

\* set_vehicles: one vehicle after the other.
Stamps == Numbers \cup {NoId} \cup {FreeId(used) : used \in SUBSET Numbers}
PostedVehicles == [id : Numbers \cup {NoId}, dev : Cars, bidirectional : BOOLEAN]

LEMMA StampedSteps ==
    ASSUME NEW list \in Seq(PostedVehicles)
    PROVE  \E f :
              /\ f[0] = [out |-> <<>>, used |-> Ids(list) \ {NoId}]
              /\ Stamped(list) = f[Len(list)].out
              /\ \A k \in 0 .. Len(list) - 1 : f[k + 1] = WithStamp(f[k], list[k + 1])
  <1> DEFINE n == Len(list)
             base == [out |-> <<>>, used |-> Ids(list) \ {NoId}]
             V == [out : Seq([id : Stamps, dev : Cars, bidirectional : BOOLEAN]),
                   used : SUBSET Stamps]
             G == [x \in (1 .. n) \X V |-> WithStamp(x[2], list[x[1]])]
             body(h) == [s \in SUBSET (1 .. n) |->
                            IF s = {} THEN base ELSE WithStamp(h[s \ {Max(s)}], list[Max(s)])]
             iter == CHOOSE h : h = body(h)
  <1>1. n \in Nat /\ DOMAIN list = 1 .. n /\ \A i \in 1 .. n : list[i] \in PostedVehicles
    OBVIOUS
  <1>2. \A acc \in V, i \in 1 .. n : WithStamp(acc, list[i]) \in V
    <2> SUFFICES ASSUME NEW acc \in V, NEW i \in 1 .. n PROVE WithStamp(acc, list[i]) \in V
      OBVIOUS
    <2>1. FreeId(acc.used) \in Stamps
      BY FreeIdLocal DEF Stamps
    <2> DEFINE id == IF list[i].id = NoId THEN FreeId(acc.used) ELSE list[i].id
               v == [list[i] EXCEPT !.id = id]
    <2>2. id \in Stamps /\ list[i] \in PostedVehicles
      BY <1>1, <2>1 DEF PostedVehicles, Stamps
    <2>3. v \in [id : Stamps, dev : Cars, bidirectional : BOOLEAN]
      <3> HIDE DEF id
      <3>1. QED
        BY <2>2 DEF PostedVehicles
    <2>4. WithStamp(acc, list[i]) = [out |-> Append(acc.out, v), used |-> acc.used \cup {id}]
      BY DEF WithStamp
    <2> HIDE DEF v, id
    <2>5. QED
      BY <2>2, <2>3, <2>4
  <1>3. base \in V
    <2>1. Ids(list) \subseteq Stamps
      BY <1>1 DEF Ids, PostedVehicles, Stamps
    <2>2. QED
      BY <2>1
  <1>4. \E h : h = body(h)
    <2>1. G \in [(1 .. n) \X V -> V]
      BY <1>2
    <2>2. PICK h \in [SUBSET (1 .. n) -> V] : FoldsTo(h, base, G, n)
      <3> HIDE DEF G, V, n, base
      <3>1. QED
        BY <1>1, <1>3, <2>1, FoldExists
    <2>3. ASSUME NEW s \in SUBSET (1 .. n)
          PROVE  h[s] = IF s = {} THEN base ELSE WithStamp(h[s \ {Max(s)}], list[Max(s)])
      <3> HIDE DEF base
      <3>1. CASE s = {}
        BY <2>2, <3>1 DEF FoldsTo
      <3>2. CASE s # {}
        <4>1. Max(s) \in s
          <5> HIDE DEF n, V, G
          <5>1. QED
            BY <1>1, <3>2, MaxWithin
        <4>2. Max(s) \in 1 .. n /\ s \ {Max(s)} \in SUBSET (1 .. n)
          BY <4>1
        <4>3. h[s] = G[<<Max(s), h[s \ {Max(s)}]>>] /\ h[s \ {Max(s)}] \in V
          BY <2>2, <3>2, <4>2 DEF FoldsTo
        <4>4. G[<<Max(s), h[s \ {Max(s)}]>>] = WithStamp(h[s \ {Max(s)}], list[Max(s)])
          <5> HIDE DEF V, n
          <5>1. QED
            BY <4>2, <4>3
        <4>5. QED
          BY <3>2, <4>3, <4>4
      <3>3. QED
        BY <3>1, <3>2
    <2>4. h = body(h)
      <3> HIDE DEF n, V, G, base
      <3>1. QED
        BY <2>2, <2>3
    <2>5. QED
      BY <2>4
  <1>5. iter = body(iter)
    BY <1>4
  <1>6. Stamped(list) = iter[1 .. n].out
    BY <1>1 DEF Stamped, FoldLeft, MapThenFoldSet
  <1>7. iter[{}] = base
    BY <1>5
  <1>8. ASSUME NEW k \in 0 .. n - 1
        PROVE  iter[1 .. k + 1] = WithStamp(iter[1 .. k], list[k + 1])
    <2>1. 1 .. k + 1 \in SUBSET (1 .. n) /\ 1 .. k + 1 # {} /\ k + 1 \in Nat /\ k + 1 > 0
      <3> HIDE DEF n
      <3>1. n \in Nat /\ k \in Nat /\ k + 1 <= n /\ k + 1 \in 1 .. k + 1
        BY <1>1
      <3>2. \A x \in 1 .. k + 1 : x \in 1 .. n
        BY <3>1
      <3>3. 1 .. k + 1 \in SUBSET (1 .. n) /\ 1 .. k + 1 # {}
        BY <3>1, <3>2, Zenon
      <3>4. QED
        BY <3>1, <3>3
    <2>2. Max(1 .. k + 1) = k + 1 /\ (1 .. k + 1) \ {k + 1} = 1 .. k
      <3>1. k + 1 - 1 = k
        OBVIOUS
      <3>2. QED
        BY <2>1, <3>1, IntervalSize
    <2> HIDE DEF n, V, G, base
    <2>3. iter[1 .. k + 1] = body(iter)[1 .. k + 1]
      BY <1>5
    <2> HIDE DEF iter
    <2>4. QED
      BY <2>1, <2>2, <2>3
  <1> DEFINE f == [k \in 0 .. n |-> iter[1 .. k]]
  <1>9. f[0] = base /\ f[n] = iter[1 .. n]
    <2>1. 1 .. 0 = {} /\ 0 \in 0 .. n /\ n \in 0 .. n
      BY <1>1
    <2> HIDE DEF n, iter, base
    <2>2. QED
      BY <1>7, <2>1
  <1>10. \A k \in 0 .. n - 1 : f[k + 1] = WithStamp(f[k], list[k + 1])
    <2>1. \A k \in 0 .. n - 1 : k \in 0 .. n /\ k + 1 \in 0 .. n
      BY <1>1
    <2> HIDE DEF n, iter
    <2>2. QED
      BY <1>8, <2>1
  <1> HIDE DEF f, iter
  <1>11. QED
    BY <1>6, <1>9, <1>10

\* Every vehicle keeps its id or is given one that no other has.
LEMMA StampedShape ==
    ASSUME NEW list \in Seq(PostedVehicles), Len(list) <= Cardinality(Devices),
           \A i, j \in 1 .. Len(list) :
              list[i].id = list[j].id /\ list[i].id # NoId => i = j
    PROVE  /\ Stamped(list) \in Seq(Vehicles) /\ Len(Stamped(list)) = Len(list)
           /\ \A i \in 1 .. Len(list) :
                 /\ Stamped(list)[i].dev = list[i].dev
                 /\ Stamped(list)[i].bidirectional = list[i].bidirectional
                 /\ list[i].id # NoId => Stamped(list)[i].id = list[i].id
           /\ IdsApart(Stamped(list))
  <1> DEFINE n == Len(list)
  <1>1. PICK f : /\ f[0] = [out |-> <<>>, used |-> Ids(list) \ {NoId}]
                 /\ Stamped(list) = f[n].out
                 /\ \A k \in 0 .. n - 1 : f[k + 1] = WithStamp(f[k], list[k + 1])
    BY StampedSteps
  <1>2. n \in Nat /\ n <= Cardinality(Devices) /\ \A i \in 1 .. n : list[i] \in PostedVehicles
    OBVIOUS
  <1> DEFINE Kept(out, k) == \A i \in 1 .. k :
                 /\ out[i].dev = list[i].dev
                 /\ out[i].bidirectional = list[i].bidirectional
                 /\ list[i].id # NoId => out[i].id = list[i].id
             given(k) == {i \in 1 .. n : i <= k \/ list[i].id # NoId}
             IdOf(k, i) == IF i <= k THEN f[k].out[i].id ELSE list[i].id
             Taken(k) == \A x : x \in f[k].used <=> \E i \in given(k) : x = IdOf(k, i)
             Alone(k) == \A i, j \in given(k) : IdOf(k, i) = IdOf(k, j) => i = j
             Right(k) == /\ f[k].out \in Seq(Vehicles) /\ Len(f[k].out) = k
                         /\ Kept(f[k].out, k) /\ Taken(k) /\ Alone(k)
             right == {k \in Nat : k <= n => Right(k)}
  <1>3. Right(0)
    <2>1. f[0].out = <<>> /\ f[0].used = Ids(list) \ {NoId}
      BY <1>1
    <2>2. DOMAIN list = 1 .. n
      OBVIOUS
    <2>3. \A i \in 1 .. n : ~(i <= 0)
      OBVIOUS
    <2>4. Taken(0)
      BY <2>1, <2>2, <2>3 DEF Ids
    <2>5. Alone(0)
      BY <2>3
    <2> HIDE DEF Taken, Alone
    <2>6. QED
      BY <2>1, <2>4, <2>5
  <1>4. ASSUME NEW k \in Nat, k + 1 <= n, Right(k) PROVE Right(k + 1)
    <2> DEFINE out == f[k].out
               used == f[k].used
               new == list[k + 1]
               id == IF new.id = NoId THEN FreeId(used) ELSE new.id
               v == [new EXCEPT !.id = id]
               next == Append(out, v)
    <2>1. f[k + 1] = [out |-> next, used |-> used \cup {id}] /\ new \in PostedVehicles
      <3>1. k \in 0 .. n - 1 /\ k + 1 \in 1 .. n
        BY <1>2, <1>4
      <3>2. f[k + 1] = WithStamp(f[k], new)
        BY <1>1, <3>1
      <3>3. QED
        BY <1>2, <3>1, <3>2 DEF WithStamp
    <2>2. new.id = NoId => FreeId(used) \in Numbers /\ FreeId(used) \notin used
      <3> SUFFICES ASSUME new.id = NoId
                   PROVE  FreeId(used) \in Numbers /\ FreeId(used) \notin used
        OBVIOUS
      <3> DEFINE others == (1 .. n) \ {k + 1}
                 of == [i \in given(k) |-> IdOf(k, i)]
      <3>1. IsFiniteSet(others) /\ Cardinality(others) = n - 1
        <4>1. IsFiniteSet(1 .. n) /\ Cardinality(1 .. n) = n /\ k + 1 \in 1 .. n
          BY <1>2, <1>4, IntervalSize
        <4>2. QED
          BY <4>1, FS_RemoveElement
      <3>2. given(k) \subseteq others
        <4>1. ~(k + 1 <= k)
          OBVIOUS
        <4>2. QED
          BY <4>1
      <3>3. IsFiniteSet(given(k)) /\ Cardinality(given(k)) <= n - 1
        <4> HIDE DEF given, others, n
        <4>1. QED
          BY <3>1, <3>2, FS_Subset
      <3>4. of \in Surjection(given(k), used)
        <4>1. Taken(k)
          BY <1>4
        <4>2. of \in [given(k) -> used] /\ \A x \in used : \E i \in given(k) : of[i] = x
          <5> HIDE DEF given, IdOf
          <5>1. QED
            BY <4>1
        <4> HIDE DEF given, of, used
        <4>3. QED
          BY <4>2 DEF Surjection
      <3>5. IsFiniteSet(used) /\ Cardinality(used) <= Cardinality(given(k))
        <4> HIDE DEF given, of, used
        <4>1. QED
          BY <3>3, <3>4, FS_Surjection
      <3>6. Cardinality(used) \in Nat /\ Cardinality(given(k)) \in Nat
        <4> HIDE DEF given, used
        <4>1. QED
          BY <3>3, <3>5, FS_CardinalityType
      <3>7. Cardinality(used) < Cardinality(Devices)
        <4> HIDE DEF given, used, n
        <4>1. QED
          BY <1>2, <3>3, <3>5, <3>6, DeviceCount
      <3> HIDE DEF used
      <3>8. QED
        BY <3>5, <3>7, FreeIdFree
    <2>3. id \in Numbers /\ (new.id # NoId => id = new.id) /\ (new.id = NoId => id \notin used)
      <3> HIDE DEF used, new
      <3>1. QED
        BY <2>1, <2>2 DEF PostedVehicles
    <2>4. /\ v \in Vehicles /\ v.id = id /\ v.dev = new.dev
          /\ v.bidirectional = new.bidirectional
      <3> HIDE DEF id, new
      <3>1. QED
        BY <2>1, <2>3 DEF PostedVehicles, Vehicles
    <2>5. out \in Seq(Vehicles) /\ Len(out) = k /\ Kept(out, k) /\ Taken(k) /\ Alone(k)
      BY <1>4
    <2> HIDE DEF v
    <2>6. /\ next \in Seq(Vehicles) /\ Len(next) = k + 1
          /\ \A i \in 1 .. k : next[i] = out[i]
          /\ next[k + 1] = v
      <3> HIDE DEF out
      <3>1. QED
        BY <2>4, <2>5, AppendShape
    <2>7. \A i \in 1 .. k + 1 : i \in 1 .. k \/ i = k + 1
      OBVIOUS
    <2> HIDE DEF next
    <2>8. Kept(next, k + 1)
      <3> HIDE DEF n, out, id
      <3>1. QED
        BY <2>3, <2>4, <2>5, <2>6, <2>7
    <2>9. f[k + 1].out = next /\ f[k + 1].used = used \cup {id}
      BY <2>1
    <2>10. \A i \in 1 .. n : (i <= k + 1 <=> i <= k \/ i = k + 1) /\ (i <= k => i \in 1 .. k)
      BY <1>2
    <2>11. k + 1 \in given(k + 1) /\ given(k + 1) = given(k) \cup {k + 1}
      <3>1. k + 1 \in 1 .. n
        BY <1>2, <1>4
      <3>2. QED
        BY <2>10, <3>1
    <2>12. /\ \A i \in given(k) : i # k + 1 => IdOf(k + 1, i) = IdOf(k, i)
           /\ IdOf(k + 1, k + 1) = id
      <3> HIDE DEF id, out
      <3>1. k + 1 <= k + 1
        OBVIOUS
      <3>2. \A i \in 1 .. n : i # k + 1 => IdOf(k + 1, i) = IdOf(k, i)
        <4> SUFFICES ASSUME NEW i \in 1 .. n, i # k + 1 PROVE IdOf(k + 1, i) = IdOf(k, i)
          OBVIOUS
        <4>1. CASE i <= k
          BY <2>6, <2>9, <2>10, <4>1 DEF out
        <4>2. CASE ~(i <= k)
          BY <2>10, <4>2
        <4>3. QED
          BY <4>1, <4>2
      <3>3. QED
        BY <2>4, <2>6, <2>9, <3>1, <3>2
    <2>13. k + 1 \in given(k) => IdOf(k, k + 1) = id
      <3>1. ~(k + 1 <= k)
        OBVIOUS
      <3>2. QED
        BY <2>3, <3>1
    <2>14. k + 1 \notin given(k) => id \notin used
      <3>1. k + 1 \in 1 .. n
        BY <1>2, <1>4
      <3> HIDE DEF id, used
      <3>2. QED
        BY <2>3, <3>1
    <2> HIDE DEF given, IdOf, id, used, new
    <2>15. Taken(k + 1)
      BY <2>5, <2>9, <2>11, <2>12, <2>13 DEF used
    <2>16. Alone(k + 1)
      <3> SUFFICES ASSUME NEW i \in given(k + 1), NEW j \in given(k + 1),
                          IdOf(k + 1, i) = IdOf(k + 1, j), i # j
                   PROVE  FALSE
        OBVIOUS
      <3>1. \A m \in given(k) : IdOf(k + 1, m) = IdOf(k, m) /\ IdOf(k, m) \in used
        BY <2>5, <2>12, <2>13 DEF used
      <3>2. CASE i \in given(k) /\ j \in given(k)
        BY <2>5, <3>1, <3>2
      <3>3. CASE i \notin given(k) \/ j \notin given(k)
        BY <2>11, <2>12, <2>14, <3>1, <3>3
      <3>4. QED
        BY <3>2, <3>3
    <2> HIDE DEF Taken, Alone, Kept
    <2>17. QED
      BY <2>6, <2>8, <2>9, <2>15, <2>16
  <1>5. \A k \in Nat : k \in right
    <2>1. right \in SUBSET Nat
      OBVIOUS
    <2>2. 0 \in right /\ \A k \in right : k + 1 \in right
      <3> HIDE DEF Right
      <3>1. QED
        BY <1>2, <1>3, <1>4
    <2> HIDE DEF right
    <2>3. QED
      BY <2>1, <2>2, Induction
  <1>6. Right(n)
    <2> HIDE DEF Right
    <2>1. QED
      BY <1>2, <1>5
  <1>7. IdsApart(f[n].out)
    <2>1. DOMAIN f[n].out = 1 .. n /\ Alone(n)
      BY <1>6
    <2>2. \A i \in 1 .. n : i <= n
      BY <1>2
    <2>3. QED
      BY <2>1, <2>2 DEF IdsApart
  <1> HIDE DEF Taken, Alone
  <1>8. QED
    BY <1>1, <1>6, <1>7

LEMMA RemoveShape ==
    ASSUME NEW S, NEW list \in Seq(S), NEW i \in 1 .. Len(list)
    PROVE  /\ RemoveAt(list, i) \in Seq(S) /\ Len(RemoveAt(list, i)) = Len(list) - 1
           /\ \A j \in 1 .. Len(list) - 1 :
                 RemoveAt(list, i)[j] = list[IF j < i THEN j ELSE j + 1]
  <1> DEFINE a == SubSeq(list, 1, i - 1)
             b == SubSeq(list, i + 1, Len(list))
  <1>1. Len(list) \in Nat /\ i \in Nat /\ 1 <= i /\ i <= Len(list)
    OBVIOUS
  <1>2. a \in Seq(S) /\ Len(a) = i - 1 /\ \A j \in 1 .. i - 1 : a[j] = list[j]
    BY <1>1
  <1>3. /\ b \in Seq(S) /\ Len(b) = Len(list) - i
        /\ \A j \in 1 .. Len(list) - i : b[j] = list[i + j]
    BY <1>1
  <1>4. RemoveAt(list, i) = a \o b
    BY DEF RemoveAt
  <1> HIDE DEF a, b
  <1>5. /\ a \o b \in Seq(S) /\ Len(a \o b) = Len(list) - 1
        /\ \A j \in 1 .. Len(list) - 1 :
              (a \o b)[j] = IF j <= i - 1 THEN a[j] ELSE b[j - (i - 1)]
    <2>1. /\ a \o b \in Seq(S) /\ Len(a \o b) = Len(a) + Len(b)
          /\ \A j \in 1 .. Len(a) + Len(b) :
                (a \o b)[j] = IF j <= Len(a) THEN a[j] ELSE b[j - Len(a)]
      BY <1>2, <1>3, ConcatProperties
    <2>2. Len(a) = i - 1 /\ Len(a) + Len(b) = Len(list) - 1
      BY <1>1, <1>2, <1>3
    <2>3. QED
      BY <2>1, <2>2
  <1>6. ASSUME NEW j \in 1 .. Len(list) - 1
        PROVE  (a \o b)[j] = list[IF j < i THEN j ELSE j + 1]
    <2>1. CASE j < i
      BY <1>1, <1>2, <1>5, <2>1
    <2>2. CASE ~(j < i)
      <3>1. j - (i - 1) \in 1 .. Len(list) - i /\ i + (j - (i - 1)) = j + 1 /\ ~(j <= i - 1)
        BY <1>1, <2>2
      <3>2. QED
        BY <1>3, <1>5, <2>2, <3>1
    <2>3. QED
      BY <2>1, <2>2
  <1>7. QED
    BY <1>4, <1>5, <1>6

-----------------------------------------------------------------------------
(***************************************************************************)
(* The inductive invariant: the two lists are in order, and so are the     *)
(* files, except that an old one is numbered when it is loaded.  A file    *)
(* whose last write did not fail says what the lists say.                  *)
(***************************************************************************)
\* An id is the device's own, or a number.
OwnIds(doc) == \A i \in DOMAIN doc : doc[i].id \in Loads => doc[i].id = doc[i].dev

ConfigRight(doc) ==
    doc \in Seq(Instances) /\ IdsApart(doc) /\ DevicesApart(doc) /\ OwnIds(doc)
VehiclesRight(list) == list \in Seq(Vehicles) /\ IdsApart(list) /\ DevicesApart(list)
Priorities == [Keys -> 0 .. Cardinality(Devices)]

FilesRight ==
    /\ disk = [config |-> disk.config, vehicles |-> disk.vehicles, loads |-> disk.loads]
    /\ ConfigRight(disk.config) \/ disk.config = Migrated
    /\ VehiclesRight(disk.vehicles) /\ disk.loads \in Priorities
Written ==
    /\ "config" \notin unsaved => Sanitized(disk.config) = config
    /\ "settings" \notin unsaved => disk.vehicles = vehicles /\ disk.loads = loads

IInv ==
    /\ ConfigRight(config) /\ VehiclesRight(vehicles) /\ loads \in Priorities
    /\ FilesRight /\ Written
    /\ unsaved \subseteq {"config", "settings"} /\ away \subseteq Cars
    /\ failures \in 0 .. MaxFailures

\* No id is a device of its own and a number.
LEMMA NumbersApart == Loads \cap Numbers = {} /\ NoId \notin Known
  <1>1. 0 \notin Numbers
    BY DeviceCount DEF Numbers
  <1>2. QED
    BY <1>1, SetupAssumption DEF Devices, Known, NoId

LEMMA SanitizedRight ==
    ASSUME NEW doc \in Seq(Posted), DevicesApart(doc), OwnIds(doc)
    PROVE  ConfigRight(Sanitized(doc)) /\ Len(Sanitized(doc)) = Len(doc)
  <1> DEFINE out == Sanitized(doc)
  <1>1. Len(doc) <= Cardinality(Loads)
    <2>1. \A i \in 1 .. Len(doc) : doc[i].dev \in Loads
      <3>1. \A i \in 1 .. Len(doc) : doc[i] \in Posted
        OBVIOUS
      <3>2. QED
        BY <3>1 DEF Posted
    <2>2. QED
      BY <2>1, DevicesCount, DeviceCount
  <1>2. out \in Seq(Instances) /\ Len(out) = Len(doc) /\ Same(out, doc, Len(doc)) /\ IdsApart(out)
    BY <1>1, SanitizedShape
  <1>3. DOMAIN out = 1 .. Len(doc) /\ DOMAIN doc = 1 .. Len(doc)
    <2> HIDE DEF out
    <2>1. QED
      BY <1>2
  <1> HIDE DEF out
  <1>4. DevicesApart(out)
    BY <1>2, <1>3 DEF DevicesApart, Same
  <1>5. OwnIds(out)
    BY <1>2, <1>3, NumbersApart DEF OwnIds, Same
  <1>6. QED
    BY <1>2, <1>4, <1>5 DEF ConfigRight, out

\* What is in order is left as it is.
LEMMA RightStays ==
    ASSUME NEW doc, ConfigRight(doc)
    PROVE  Sanitized(doc) = doc
  BY SanitizedAgain DEF ConfigRight

LEMMA UnnumberedRight ==
    ASSUME NEW known \in {Imported, Former}
    PROVE  ConfigRight(Sanitized(Unnumbered(known)))
  <1> DEFINE doc == Unnumbered(known)
  <1>1. known \in Seq(Loads) /\ \A i, j \in DOMAIN known : known[i] = known[j] => i = j
    BY SetupAssumption
  <1>2. Len(known) \in Nat /\ DOMAIN known = 1 .. Len(known)
        /\ \A i \in 1 .. Len(known) : known[i] \in Loads
    BY <1>1
  <1>3. \A i \in 1 .. Len(known) : [id |-> NoId, dev |-> known[i], control |-> FALSE] \in Posted
    BY <1>2 DEF Posted
  <1>4. doc \in [1 .. Len(known) -> Posted] /\ DOMAIN doc = DOMAIN known
    BY <1>2, <1>3 DEF Unnumbered
  <1>5. doc \in Seq(Posted)
    BY <1>2, <1>4
  <1>6. \A i \in DOMAIN known : doc[i].id = NoId /\ doc[i].dev = known[i]
    BY DEF Unnumbered
  <1> HIDE DEF doc
  <1>7. DevicesApart(doc) /\ OwnIds(doc)
    BY <1>1, <1>4, <1>6, NumbersApart DEF DevicesApart, OwnIds, Known
  <1>8. QED
    BY <1>5, <1>7, SanitizedRight DEF doc

\* The documents a page posts are in order.
LEMMA PostedRight ==
    ASSUME ConfigRight(config)
    PROVE  /\ \A d \in Loads : d \notin DevicesOf(config) =>
                 ConfigRight(Append(config, [id |-> d, dev |-> d, control |-> FALSE]))
           /\ \A i \in DOMAIN config : /\ ConfigRight(RemoveAt(config, i))
                                      /\ ConfigRight([config EXCEPT ![i].control = ~@])
  <1>1. config \in Seq(Instances) /\ Len(config) \in Nat /\ DOMAIN config = 1 .. Len(config)
        /\ \A i \in 1 .. Len(config) : config[i] \in Instances
    BY DEF ConfigRight
  <1>2. ASSUME NEW d \in Loads, d \notin DevicesOf(config)
        PROVE  ConfigRight(Append(config, [id |-> d, dev |-> d, control |-> FALSE]))
    <2> DEFINE inst == [id |-> d, dev |-> d, control |-> FALSE]
               doc == Append(config, inst)
    <2>1. inst \in Instances /\ inst.id = d /\ inst.dev = d
      BY DEF Instances
    <2> HIDE DEF inst
    <2>2. /\ doc \in Seq(Instances) /\ DOMAIN doc = 1 .. Len(config) + 1
          /\ \A i \in 1 .. Len(config) : doc[i] = config[i]
          /\ doc[Len(config) + 1] = inst
      BY <1>1, <2>1, AppendShape
    <2>3. \A i \in 1 .. Len(config) : config[i].dev # d /\ config[i].id # d
      BY <1>1, <1>2 DEF DevicesOf, ConfigRight, OwnIds
    <2>4. \A i \in 1 .. Len(config) + 1 : i \in 1 .. Len(config) \/ i = Len(config) + 1
      BY <1>1
    <2> HIDE DEF doc
    <2>5. IdsApart(doc)
      BY <1>1, <2>1, <2>2, <2>3, <2>4 DEF ConfigRight, IdsApart
    <2>6. DevicesApart(doc)
      BY <1>1, <2>1, <2>2, <2>3, <2>4 DEF ConfigRight, DevicesApart
    <2>7. OwnIds(doc)
      BY <1>1, <2>1, <2>2, <2>4 DEF ConfigRight, OwnIds
    <2>8. QED
      BY <2>2, <2>5, <2>6, <2>7 DEF ConfigRight, doc, inst
  <1>3. ASSUME NEW i \in DOMAIN config PROVE ConfigRight(RemoveAt(config, i))
    <2> DEFINE doc == RemoveAt(config, i)
               From(j) == IF j < i THEN j ELSE j + 1
    <2>1. /\ doc \in Seq(Instances) /\ Len(doc) = Len(config) - 1
          /\ \A j \in 1 .. Len(config) - 1 : doc[j] = config[From(j)]
      BY <1>1, <1>3, RemoveShape
    <2>2. DOMAIN doc = 1 .. Len(config) - 1
      <3> HIDE DEF doc
      <3>1. QED
        BY <2>1
    <2>3. \A j \in 1 .. Len(config) - 1 : From(j) \in DOMAIN config
      BY <1>1
    <2>4. \A j, k \in 1 .. Len(config) - 1 : From(j) = From(k) => j = k
      BY <1>1
    <2> HIDE DEF doc, From
    <2>5. IdsApart(doc)
      BY <2>1, <2>2, <2>3, <2>4 DEF ConfigRight, IdsApart
    <2>6. DevicesApart(doc)
      BY <2>1, <2>2, <2>3, <2>4 DEF ConfigRight, DevicesApart
    <2>7. OwnIds(doc)
      BY <2>1, <2>2, <2>3 DEF ConfigRight, OwnIds
    <2>8. QED
      BY <2>1, <2>5, <2>6, <2>7 DEF ConfigRight, doc
  <1>4. ASSUME NEW i \in DOMAIN config PROVE ConfigRight([config EXCEPT ![i].control = ~@])
    <2> DEFINE inst == [config[i] EXCEPT !.control = ~@]
               doc == [config EXCEPT ![i] = inst]
    <2>1. inst \in Instances /\ inst.id = config[i].id /\ inst.dev = config[i].dev
      BY <1>1 DEF Instances
    <2> HIDE DEF inst
    <2>2. /\ doc \in Seq(Instances) /\ DOMAIN doc = DOMAIN config
          /\ \A j \in DOMAIN config : doc[j] = IF j = i THEN inst ELSE config[j]
      BY <1>1, <2>1
    <2>3. doc = [config EXCEPT ![i].control = ~@]
      BY DEF inst
    <2> HIDE DEF doc
    <2>4. \A j \in DOMAIN config : doc[j].id = config[j].id /\ doc[j].dev = config[j].dev
      BY <2>1, <2>2
    <2>5. IdsApart(doc) /\ DevicesApart(doc) /\ OwnIds(doc)
      BY <2>2, <2>4 DEF ConfigRight, IdsApart, DevicesApart, OwnIds
    <2>6. QED
      BY <2>2, <2>3, <2>5 DEF ConfigRight
  <1>5. QED
    BY <1>2, <1>3, <1>4

-----------------------------------------------------------------------------
(***************************************************************************)
(* The order.  Place numbers the controllable devices from the top down,   *)
(* so that Listed is the order of Ahead.                                   *)
(***************************************************************************)
LEMMA Ranks ==
    ASSUME NEW C, IsFiniteSet(C), NEW rank \in [C -> 1 .. Cardinality(C)],
           \A p, q \in C : rank[p] = rank[q] => p = q
    PROVE  /\ \A n \in 1 .. Cardinality(C) : \E p \in C : rank[p] = n
           /\ \A p \in C : Cardinality({q \in C : rank[q] < rank[p]}) = rank[p] - 1
  <1> DEFINE N == Cardinality(C)
  <1>1. N \in Nat /\ IsFiniteSet(1 .. N) /\ Cardinality(1 .. N) = N
    BY FS_CardinalityType, IntervalSize
  <1>2. rank \in Injection(C, 1 .. N)
    BY DEF Injection, IsInjective
  <1>3. rank \in Surjection(C, 1 .. N)
    <2> HIDE DEF N
    <2>1. Cardinality(C) = Cardinality(1 .. N)
      BY <1>1 DEF N
    <2>2. QED
      BY <1>1, <1>2, <2>1, FS_Injection
  <1>4. \A n \in 1 .. N : \E p \in C : rank[p] = n
    BY <1>3 DEF Surjection
  <1>5. ASSUME NEW p \in C PROVE Cardinality({q \in C : rank[q] < rank[p]}) = rank[p] - 1
    <2> DEFINE ahead == {q \in C : rank[q] < rank[p]}
               m == rank[p] - 1
               f == [q \in ahead |-> rank[q]]
    <2>1. rank[p] \in 1 .. N /\ m \in Nat /\ m <= N
      BY <1>1
    <2>2. f \in [ahead -> 1 .. m]
      BY <1>1, <2>1
    <2>3. \A n \in 1 .. m : \E q \in ahead : f[q] = n
      <3> SUFFICES ASSUME NEW n \in 1 .. m PROVE \E q \in ahead : f[q] = n
        OBVIOUS
      <3>1. n \in 1 .. N /\ n < rank[p]
        BY <1>1, <2>1
      <3>2. QED
        BY <1>4, <3>1
    <2>4. f \in Bijection(ahead, 1 .. m)
      <3> HIDE DEF m
      <3>1. QED
        BY <2>2, <2>3 DEF Bijection, Injection, Surjection, IsInjective
    <2>5. IsFiniteSet(ahead)
      BY FS_Subset
    <2>6. Cardinality(1 .. m) = Cardinality(ahead)
      <3> HIDE DEF m, ahead, f
      <3>1. QED
        BY <2>4, <2>5, FS_Bijection DEF ExistsBijection
    <2>7. QED
      BY <2>1, <2>6, IntervalSize
  <1>6. QED
    BY <1>4, <1>5

Ordered == ConfigRight(config) /\ VehiclesRight(vehicles) /\ loads \in Priorities

KeysApart ==
    /\ \A p \in Positions : KeyAt(p) \in Keys
    /\ \A p, q \in Positions : KeyAt(p) = KeyAt(q) \/ DevAt(p) = DevAt(q) => p = q
    /\ IsFiniteSet(Controllable) /\ Cardinality(Controllable) <= Cardinality(Devices)
    /\ Positions \subseteq Nat

\* Each position has a key and a device of its own.
LEMMA PositionsApart == Ordered => KeysApart
  <1> SUFFICES ASSUME Ordered PROVE KeysApart
    OBVIOUS
  <1>1. /\ Len(config) \in Nat /\ DOMAIN config = 1 .. Len(config)
        /\ \A i \in 1 .. Len(config) : config[i] \in Instances
    BY DEF Ordered, ConfigRight
  <1>2. /\ Len(vehicles) \in Nat /\ DOMAIN vehicles = 1 .. Len(vehicles)
        /\ \A i \in 1 .. Len(vehicles) : vehicles[i] \in Vehicles
    BY DEF Ordered, VehiclesRight
  <1>3. \A p \in Positions : /\ p \in Nat
                             /\ IsLoad(p) => p \in DOMAIN config
                             /\ ~IsLoad(p) => p - Len(config) \in DOMAIN vehicles
    BY <1>1, <1>2 DEF Positions, IsLoad
  <1>4. ASSUME NEW p \in Positions PROVE KeyAt(p) \in Keys
    <2>1. CASE IsLoad(p)
      <3>1. config[p].id \in Loads \cup Numbers
        BY <1>1, <1>3, <2>1 DEF Instances
      <3>2. KeyAt(p) = <<"load", config[p].id>>
        BY <2>1 DEF KeyAt
      <3>3. QED
        BY <3>1, <3>2 DEF Keys
    <2>2. CASE ~IsLoad(p)
      <3>1. Vehicle(p).id \in Numbers
        BY <1>2, <1>3, <2>2 DEF Vehicles, Vehicle
      <3>2. KeyAt(p) = <<"vehicle", Vehicle(p).id>>
        BY <2>2 DEF KeyAt
      <3>3. QED
        BY <3>1, <3>2 DEF Keys
    <2>3. QED
      BY <2>1, <2>2
  <1>5. ASSUME NEW p \in Positions, NEW q \in Positions,
               KeyAt(p) = KeyAt(q) \/ DevAt(p) = DevAt(q)
        PROVE  p = q
    <2>1. CASE IsLoad(p) /\ IsLoad(q)
      <3>1. config[p].id = config[q].id \/ config[p].dev = config[q].dev
        BY <1>5, <2>1 DEF KeyAt, DevAt
      <3>2. QED
        BY <1>3, <2>1, <3>1 DEF Ordered, ConfigRight, IdsApart, DevicesApart
    <2>2. CASE ~IsLoad(p) /\ ~IsLoad(q)
      <3>1. Vehicle(p).id = Vehicle(q).id \/ Vehicle(p).dev = Vehicle(q).dev
        BY <1>5, <2>2 DEF KeyAt, DevAt
      <3>2. p - Len(config) = q - Len(config)
        BY <1>3, <2>2, <3>1 DEF Ordered, VehiclesRight, IdsApart, DevicesApart, Vehicle
      <3>3. QED
        BY <1>1, <1>3, <3>2
    <2>3. ASSUME NEW a \in Positions, NEW b \in Positions, IsLoad(a), ~IsLoad(b)
          PROVE  KeyAt(a) # KeyAt(b) /\ DevAt(a) # DevAt(b)
      <3>1. KeyAt(a) = <<"load", config[a].id>> /\ KeyAt(b) = <<"vehicle", Vehicle(b).id>>
        BY <2>3 DEF KeyAt
      <3>2. DevAt(a) \in Loads /\ DevAt(b) \in Cars
        BY <1>1, <1>2, <1>3, <2>3 DEF DevAt, Instances, Vehicles, Vehicle
      <3>3. QED
        BY <3>1, <3>2, SetupAssumption
    <2>4. QED
      BY <1>5, <2>1, <2>2, <2>3
  <1>6. IsFiniteSet(Controllable) /\ Cardinality(Controllable) <= Len(config) + Len(vehicles)
    <2>1. Len(config) + Len(vehicles) \in Nat
      BY <1>1, <1>2
    <2>2. IsFiniteSet(Positions) /\ Cardinality(Positions) = Len(config) + Len(vehicles)
      BY <2>1, IntervalSize DEF Positions
    <2>3. Controllable \subseteq Positions
      BY DEF Controllable
    <2>4. QED
      BY <2>2, <2>3, FS_Subset
  <1>7. Len(config) <= Cardinality(Loads) /\ Len(vehicles) <= Cardinality(Cars)
    <2>1. \A i \in 1 .. Len(config) : config[i].dev \in Loads
      BY <1>1 DEF Instances
    <2>2. \A i \in 1 .. Len(vehicles) : vehicles[i].dev \in Cars
      BY <1>2 DEF Vehicles
    <2>3. QED
      BY <2>1, <2>2, DevicesCount, DeviceCount DEF Ordered, ConfigRight, VehiclesRight
  <1>8. Cardinality(Controllable) <= Cardinality(Devices)
    <2>1. Cardinality(Controllable) \in Nat
      BY <1>6, FS_CardinalityType
    <2>2. QED
      BY <1>1, <1>2, <1>6, <1>7, <2>1, DeviceCount
  <1>9. QED
    BY <1>3, <1>4, <1>5, <1>6, <1>8 DEF KeysApart

Ranked ==
    /\ \A p \in Controllable : Place(p) \in 1 .. Cardinality(Controllable)
    /\ \A p, q \in Controllable : Ahead(p, q) <=> Place(p) < Place(q)
    /\ \A p, q \in Controllable : Place(p) = Place(q) => p = q
    /\ \A n \in 1 .. Cardinality(Controllable) : Listed[n] \in Controllable /\ Place(Listed[n]) = n
    /\ \A p \in Controllable : Listed[Place(p)] = p

LEMMA PlacesRanked == Ordered => Ranked
  <1> SUFFICES ASSUME Ordered PROVE Ranked
    OBVIOUS
  <1> DEFINE C == Controllable
             N == Cardinality(C)
             before(p) == {q \in C : Ahead(q, p)}
  <1>1. IsFiniteSet(C) /\ N \in Nat /\ C \subseteq Positions /\ Positions \subseteq Nat
    BY PositionsApart, FS_CardinalityType DEF KeysApart, Controllable
  <1>2. \A p \in C : loads[KeyAt(p)] \in Int
    <2>1. \A p \in C : KeyAt(p) \in Keys
      BY <1>1, PositionsApart DEF KeysApart
    <2>2. QED
      BY <2>1, DeviceCount DEF Ordered, Priorities
  <1>3. /\ \A p \in C : ~Ahead(p, p)
        /\ \A p, q \in C : p # q => Ahead(p, q) \/ Ahead(q, p)
        /\ \A p, q, r \in C : Ahead(p, q) /\ Ahead(q, r) => Ahead(p, r)
    <2>1. \A p \in C : p \in Int
      BY <1>1
    <2> HIDE DEF C
    <2>2. QED
      BY <1>2, <2>1 DEF Ahead
  <1>4. \A p \in C : /\ IsFiniteSet(before(p)) /\ Cardinality(before(p)) \in 0 .. N - 1
                     /\ Place(p) = 1 + Cardinality(before(p))
    <2> SUFFICES ASSUME NEW p \in C
                 PROVE  /\ IsFiniteSet(before(p)) /\ Cardinality(before(p)) \in 0 .. N - 1
                        /\ Place(p) = 1 + Cardinality(before(p))
      OBVIOUS
    <2>1. IsFiniteSet(C \ {p}) /\ Cardinality(C \ {p}) = N - 1
      BY <1>1, FS_RemoveElement
    <2>2. before(p) \subseteq C \ {p}
      BY <1>3
    <2>3. IsFiniteSet(before(p)) /\ Cardinality(before(p)) <= N - 1
      <3> HIDE DEF before, C, N
      <3>1. QED
        BY <2>1, <2>2, FS_Subset
    <2>4. Cardinality(before(p)) \in Nat
      <3> HIDE DEF before
      <3>1. QED
        BY <2>3, FS_CardinalityType
    <2>5. Place(p) = 1 + Cardinality(before(p))
      BY DEF Place
    <2> HIDE DEF before, C, N
    <2>6. QED
      BY <1>1, <2>3, <2>4, <2>5
  <1>5. ASSUME NEW p \in C, NEW q \in C, Ahead(p, q) PROVE Place(p) < Place(q)
    <2>1. before(p) \subseteq before(q) /\ p \in before(q) /\ p \notin before(p)
      BY <1>3, <1>5
    <2>2. before(p) # before(q)
      BY <2>1
    <2>3. Cardinality(before(p)) <= Cardinality(before(q))
          /\ Cardinality(before(p)) # Cardinality(before(q))
      <3> HIDE DEF before
      <3>1. QED
        BY <1>4, <2>1, <2>2, FS_Subset
    <2> HIDE DEF before, C, N
    <2>4. QED
      BY <1>1, <1>4, <2>3
  <1>6. /\ \A p \in C : Place(p) \in 1 .. N
        /\ \A p, q \in C : Ahead(p, q) <=> Place(p) < Place(q)
        /\ \A p, q \in C : Place(p) = Place(q) => p = q
    <2>1. \A p \in C : Place(p) \in 1 .. N
      <3> HIDE DEF before, C, N
      <3>1. QED
        BY <1>1, <1>4
    <2> HIDE DEF C
    <2>2. QED
      BY <1>1, <1>3, <1>5, <2>1
  <1> DEFINE rank == [p \in C |-> Place(p)]
  <1>7. \A n \in 1 .. N : \E p \in C : Place(p) = n
    <2>1. rank \in [C -> 1 .. N] /\ \A p, q \in C : rank[p] = rank[q] => p = q
      <3> HIDE DEF C, N
      <3>1. QED
        BY <1>6
    <2>2. \A n \in 1 .. N : \E p \in C : rank[p] = n
      <3> HIDE DEF rank, C
      <3>1. QED
        BY <1>1, <2>1, Ranks
    <2> HIDE DEF C, N
    <2>3. QED
      BY <2>2
  <1>8. \A n \in 1 .. N : Listed[n] \in C /\ Place(Listed[n]) = n
    <2>1. \A n \in 1 .. N : Listed[n] = CHOOSE p \in C : Place(p) = n
      BY DEF Listed
    <2> HIDE DEF C, N
    <2>2. QED
      BY <1>7, <2>1
  <1> HIDE DEF N
  <1>9. \A p \in C : Listed[Place(p)] = p
    BY <1>6, <1>8
  <1>10. QED
    BY <1>6, <1>8, <1>9 DEF Ranked, N

NormalizedRight ==
    /\ Normalized \in Priorities
    /\ \A p \in Controllable :
          /\ KeyAt(p) \in Keys
          /\ Normalized[KeyAt(p)] = Cardinality(Controllable) + 1 - Place(p)

\* The stored priorities count the places from the bottom up.
LEMMA NormalizedCounts == Ordered => NormalizedRight
  <1> SUFFICES ASSUME Ordered PROVE NormalizedRight
    OBVIOUS
  <1> DEFINE N == Cardinality(Controllable)
             PlaceOf(k) == Place(CHOOSE p \in Controllable : KeyAt(p) = k)
             keys == {KeyAt(p) : p \in Controllable}
  <1>1. KeysApart /\ Ranked
    BY PositionsApart, PlacesRanked
  <1>2. N \in Nat /\ N <= Cardinality(Devices) /\ Controllable \subseteq Positions
    BY <1>1, FS_CardinalityType DEF KeysApart, Controllable
  <1>3. ASSUME NEW p \in Controllable PROVE PlaceOf(KeyAt(p)) = Place(p) /\ KeyAt(p) \in Keys
    <2>1. \A q \in Controllable : KeyAt(q) = KeyAt(p) => q = p
      BY <1>1, <1>2 DEF KeysApart
    <2>2. (CHOOSE q \in Controllable : KeyAt(q) = KeyAt(p)) = p
      BY <2>1
    <2>3. QED
      BY <1>1, <1>2, <2>2 DEF KeysApart
  <1>4. Normalized = [k \in Keys |-> IF k \in keys THEN N + 1 - PlaceOf(k) ELSE loads[k]]
    BY DEF Normalized
  <1>5. \A p \in Controllable : Place(p) \in 1 .. N
    BY <1>1 DEF Ranked
  <1> HIDE DEF N, PlaceOf
  <1>6. ASSUME NEW k \in Keys
        PROVE  (IF k \in keys THEN N + 1 - PlaceOf(k) ELSE loads[k]) \in 0 .. Cardinality(Devices)
    <2>1. CASE k \in keys
      <3>1. PICK p \in Controllable : k = KeyAt(p)
        BY <2>1
      <3>2. PlaceOf(k) \in 1 .. N
        BY <1>3, <1>5, <3>1
      <3>3. QED
        BY <1>2, <2>1, <3>2, DeviceCount
    <2>2. CASE k \notin keys
      BY <2>2 DEF Ordered, Priorities
    <2>3. QED
      BY <2>1, <2>2
  <1>7. Normalized \in Priorities
    <2> HIDE DEF keys
    <2>1. QED
      BY <1>4, <1>6 DEF Priorities
  <1>8. \A p \in Controllable : KeyAt(p) \in Keys /\ Normalized[KeyAt(p)] = N + 1 - Place(p)
    <2> SUFFICES ASSUME NEW p \in Controllable
                 PROVE  KeyAt(p) \in Keys /\ Normalized[KeyAt(p)] = N + 1 - Place(p)
      OBVIOUS
    <2>1. KeyAt(p) \in keys
      OBVIOUS
    <2> HIDE DEF keys
    <2>2. QED
      BY <1>3, <1>4, <2>1
  <1>9. QED
    BY <1>7, <1>8 DEF NormalizedRight, N

\* Two places are exchanged.
LEMMA SwappedCounts ==
    ASSUME Ordered, NEW i \in DOMAIN Listed, NEW j \in DOMAIN Listed
    PROVE  /\ Swapped(i, j) \in Priorities
           /\ \A p \in Controllable :
                 Swapped(i, j)[KeyAt(p)] =
                    Cardinality(Controllable) + 1
                    - (IF Place(p) = i THEN j ELSE IF Place(p) = j THEN i ELSE Place(p))
  <1> DEFINE N == Cardinality(Controllable)
             a == KeyAt(Listed[i])
             b == KeyAt(Listed[j])
             new == Normalized
  <1>1. KeysApart /\ Ranked /\ NormalizedRight
    BY PositionsApart, PlacesRanked, NormalizedCounts
  <1>2. i \in 1 .. N /\ j \in 1 .. N
    BY DEF Listed
  <1>3. /\ Listed[i] \in Controllable /\ Place(Listed[i]) = i
        /\ Listed[j] \in Controllable /\ Place(Listed[j]) = j
    BY <1>1, <1>2 DEF Ranked
  <1>4. a \in Keys /\ b \in Keys /\ new \in Priorities /\ new[a] = N + 1 - i /\ new[b] = N + 1 - j
    BY <1>1, <1>3 DEF NormalizedRight
  <1>5. Swapped(i, j) = [new EXCEPT ![a] = new[b], ![b] = new[a]]
    BY DEF Swapped
  <1>6. ASSUME NEW p \in Controllable
        PROVE  (KeyAt(p) = a <=> Place(p) = i) /\ (KeyAt(p) = b <=> Place(p) = j)
    <2>1. \A q \in Controllable : KeyAt(p) = KeyAt(q) => p = q
      BY <1>1 DEF KeysApart, Controllable
    <2>2. \A q \in Controllable : Place(p) = Place(q) => p = q
      BY <1>1 DEF Ranked
    <2>3. QED
      BY <1>3, <2>1, <2>2
  <1> HIDE DEF N, a, b, new
  <1>7. Swapped(i, j) \in Priorities
    BY <1>4, <1>5 DEF Priorities
  <1>8. \A k \in Keys : Swapped(i, j)[k] = IF k = b THEN new[a] ELSE IF k = a THEN new[b] ELSE new[k]
    BY <1>4, <1>5 DEF Priorities
  <1>9. ASSUME NEW p \in Controllable
        PROVE  Swapped(i, j)[KeyAt(p)] =
                  N + 1 - (IF Place(p) = i THEN j ELSE IF Place(p) = j THEN i ELSE Place(p))
    <2>1. KeyAt(p) \in Keys /\ new[KeyAt(p)] = N + 1 - Place(p)
      BY <1>1 DEF NormalizedRight, N, new
    <2>2. Swapped(i, j)[KeyAt(p)] =
             IF Place(p) = j THEN N + 1 - i ELSE IF Place(p) = i THEN N + 1 - j ELSE N + 1 - Place(p)
      BY <1>4, <1>6, <1>8, <2>1
    <2>3. QED
      BY <2>2
  <1>10. QED
    BY <1>7, <1>9 DEF N

-----------------------------------------------------------------------------
(***************************************************************************)
(* What a post leaves as it was.                                           *)
(***************************************************************************)
\* Devices that stay keep their ids and their order.
KeepsOrder(old, new) ==
    \A i, j \in DOMAIN old : \A k, l \in DOMAIN new :
        old[i].dev = new[k].dev /\ old[j].dev = new[l].dev =>
            old[i].id = new[k].id /\ (i < j => k < l)

\* New ones come at the end.
LEMMA PrefixKeeps ==
    ASSUME NEW n \in Nat, NEW m \in Nat, NEW old, NEW new,
           DOMAIN old = 1 .. n, DOMAIN new = 1 .. m, n <= m, DevicesApart(old),
           \A i \in 1 .. n : old[i].dev = new[i].dev /\ old[i].id = new[i].id,
           \A k \in 1 .. m : k > n => new[k].dev \notin DevicesOf(old)
    PROVE  KeepsOrder(old, new)
  <1>1. ASSUME NEW i \in 1 .. n, NEW k \in 1 .. m, old[i].dev = new[k].dev
        PROVE  i = k
    <2>1. old[i].dev \in DevicesOf(old)
      BY DEF DevicesOf
    <2>2. k \in 1 .. n
      BY <1>1, <2>1
    <2>3. QED
      BY <1>1, <2>2 DEF DevicesApart
  <1>2. QED
    BY <1>1 DEF KeepsOrder

LEMMA RemoveKeeps ==
    ASSUME NEW S, NEW list \in Seq(S), NEW i \in DOMAIN list, DevicesApart(list)
    PROVE  KeepsOrder(list, RemoveAt(list, i))
  <1> DEFINE new == RemoveAt(list, i)
             From(j) == IF j < i THEN j ELSE j + 1
  <1>1. Len(list) \in Nat /\ DOMAIN list = 1 .. Len(list)
    OBVIOUS
  <1>2. /\ new \in Seq(S) /\ Len(new) = Len(list) - 1
        /\ \A j \in 1 .. Len(list) - 1 : new[j] = list[From(j)]
    BY <1>1, RemoveShape
  <1>3. DOMAIN new = 1 .. Len(list) - 1
    <2> HIDE DEF new
    <2>1. QED
      BY <1>2
  <1>4. /\ \A j \in 1 .. Len(list) - 1 : From(j) \in 1 .. Len(list)
        /\ \A j, k \in 1 .. Len(list) - 1 : From(j) < From(k) => j < k
    BY <1>1
  <1> HIDE DEF new, From
  <1>5. ASSUME NEW p \in DOMAIN list, NEW k \in DOMAIN new, list[p].dev = new[k].dev
        PROVE  p = From(k) /\ list[p] = new[k]
    BY <1>1, <1>2, <1>3, <1>4, <1>5 DEF DevicesApart
  <1>6. QED
    BY <1>3, <1>4, <1>5 DEF KeepsOrder, new

\* The documents of a page.
LEMMA PostKeeps ==
    ASSUME ConfigRight(config)
    PROVE  /\ \A d \in Loads : d \notin DevicesOf(config) =>
                 KeepsOrder(config, Append(config, [id |-> d, dev |-> d, control |-> FALSE]))
           /\ \A i \in DOMAIN config : /\ KeepsOrder(config, RemoveAt(config, i))
                                      /\ KeepsOrder(config, [config EXCEPT ![i].control = ~@])
  <1>1. config \in Seq(Instances) /\ Len(config) \in Nat /\ DOMAIN config = 1 .. Len(config)
        /\ (\A i \in 1 .. Len(config) : config[i] \in Instances) /\ DevicesApart(config)
    BY DEF ConfigRight
  <1>2. ASSUME NEW d \in Loads, d \notin DevicesOf(config)
        PROVE  KeepsOrder(config, Append(config, [id |-> d, dev |-> d, control |-> FALSE]))
    <2> DEFINE inst == [id |-> d, dev |-> d, control |-> FALSE]
               doc == Append(config, inst)
    <2>1. inst \in Instances /\ inst.dev = d
      BY DEF Instances
    <2> HIDE DEF inst
    <2>2. /\ doc \in Seq(Instances) /\ DOMAIN doc = 1 .. Len(config) + 1
          /\ \A i \in 1 .. Len(config) : doc[i] = config[i]
          /\ doc[Len(config) + 1] = inst
      BY <1>1, <2>1, AppendShape
    <2> HIDE DEF doc
    <2>3. \A k \in 1 .. Len(config) + 1 : k > Len(config) => k = Len(config) + 1
      BY <1>1
    <2>4. \A k \in 1 .. Len(config) + 1 : k > Len(config) => doc[k].dev \notin DevicesOf(config)
      BY <1>2, <2>1, <2>2, <2>3
    <2>5. Len(config) + 1 \in Nat /\ Len(config) <= Len(config) + 1
      BY <1>1
    <2>6. KeepsOrder(config, doc)
      BY <1>1, <2>2, <2>4, <2>5, PrefixKeeps
    <2>7. QED
      BY <2>6 DEF doc, inst
  <1>3. ASSUME NEW i \in DOMAIN config PROVE KeepsOrder(config, [config EXCEPT ![i].control = ~@])
    <2> DEFINE doc == [config EXCEPT ![i].control = ~@]
    <2>1. DOMAIN doc = 1 .. Len(config)
      BY <1>1
    <2>2. \A j \in 1 .. Len(config) : config[j].dev = doc[j].dev /\ config[j].id = doc[j].id
      BY <1>1 DEF Instances
    <2>3. \A k \in 1 .. Len(config) : ~(k > Len(config))
      BY <1>1
    <2> HIDE DEF doc
    <2>4. KeepsOrder(config, doc)
      BY <1>1, <2>1, <2>2, <2>3, PrefixKeeps
    <2>5. QED
      BY <2>4 DEF doc
  <1>4. QED
    BY <1>1, <1>2, <1>3, RemoveKeeps

LEMMA StampedAgain ==
    ASSUME NEW list, VehiclesRight(list)
    PROVE  Stamped(list) = list
  <1>1. list \in Seq(Vehicles) /\ Len(list) \in Nat /\ DOMAIN list = 1 .. Len(list)
        /\ \A i \in 1 .. Len(list) : list[i] \in Vehicles
    BY DEF VehiclesRight
  <1>2. list \in Seq(PostedVehicles)
    <2>1. Vehicles \subseteq PostedVehicles
      BY DEF Vehicles, PostedVehicles
    <2>2. QED
      BY <1>1, <2>1, SeqMonotonic
  <1>3. Len(list) <= Cardinality(Devices)
    <2>1. \A i \in 1 .. Len(list) : list[i].dev \in Cars
      BY <1>1 DEF Vehicles
    <2>2. Len(list) <= Cardinality(Cars)
      BY <1>1, <2>1, DevicesCount, DeviceCount DEF VehiclesRight
    <2>3. QED
      BY <1>1, <2>2, DeviceCount
  <1>4. \A i, j \in 1 .. Len(list) : list[i].id = list[j].id /\ list[i].id # NoId => i = j
    BY <1>1 DEF VehiclesRight, IdsApart
  <1> DEFINE out == Stamped(list)
  <1>5. /\ out \in Seq(Vehicles) /\ Len(out) = Len(list)
        /\ \A i \in 1 .. Len(list) :
              /\ out[i].dev = list[i].dev
              /\ out[i].bidirectional = list[i].bidirectional
              /\ list[i].id # NoId => out[i].id = list[i].id
    BY <1>2, <1>3, <1>4, StampedShape
  <1> HIDE DEF out
  <1>6. ASSUME NEW i \in 1 .. Len(list) PROVE out[i] = list[i]
    <2>1. out[i] \in Vehicles /\ list[i] \in Vehicles
      BY <1>1, <1>5
    <2>2. list[i].id # NoId
      BY <2>1, NumbersApart DEF Vehicles, Known
    <2>3. QED
      BY <1>5, <2>1, <2>2 DEF Vehicles
  <1>7. out = list
    BY <1>1, <1>5, <1>6, SeqEqual
  <1>8. QED
    BY <1>7 DEF out

\* The lists of vehicles a page posts.
LEMMA VehiclesPosted ==
    ASSUME VehiclesRight(vehicles)
    PROVE  /\ \A c \in Cars : \A list \in {Append(vehicles, [id |-> NoId, dev |-> c, bidirectional |-> FALSE])} :
                 c \notin DevicesOf(vehicles) =>
                    VehiclesRight(Stamped(list)) /\ KeepsOrder(vehicles, Stamped(list))
           /\ \A i \in DOMAIN vehicles :
                 \A list \in {RemoveAt(vehicles, i), [vehicles EXCEPT ![i].bidirectional = ~@]} :
                    VehiclesRight(Stamped(list)) /\ KeepsOrder(vehicles, Stamped(list))
  <1> DEFINE n == Len(vehicles)
  <1>1. /\ vehicles \in Seq(Vehicles) /\ n \in Nat /\ DOMAIN vehicles = 1 .. n
        /\ \A i \in 1 .. n : vehicles[i] \in Vehicles
        /\ DevicesApart(vehicles) /\ IdsApart(vehicles)
    BY DEF VehiclesRight
  <1>2. ASSUME NEW c \in Cars, c \notin DevicesOf(vehicles),
               NEW list, list = Append(vehicles, [id |-> NoId, dev |-> c, bidirectional |-> FALSE])
        PROVE  VehiclesRight(Stamped(list)) /\ KeepsOrder(vehicles, Stamped(list))
    <2> DEFINE v == [id |-> NoId, dev |-> c, bidirectional |-> FALSE]
               out == Stamped(list)
    <2>1. vehicles \in Seq(PostedVehicles) /\ v \in PostedVehicles /\ v.id = NoId /\ v.dev = c
      <3>1. Vehicles \subseteq PostedVehicles
        BY DEF Vehicles, PostedVehicles
      <3>2. QED
        BY <1>1, <3>1, SeqMonotonic DEF PostedVehicles
    <2> HIDE DEF v
    <2>2. /\ list \in Seq(PostedVehicles) /\ Len(list) = n + 1 /\ DOMAIN list = 1 .. n + 1
          /\ \A i \in 1 .. n : list[i] = vehicles[i]
          /\ list[n + 1] = v
      <3>1. list = Append(vehicles, v)
        BY <1>2 DEF v
      <3>2. QED
        BY <2>1, <3>1, AppendShape
    <2>3. \A i \in 1 .. n + 1 : i \in 1 .. n \/ i = n + 1
      BY <1>1
    <2>4. \A i \in 1 .. n : vehicles[i].dev # c
      BY <1>1, <1>2 DEF DevicesOf
    <2> HIDE DEF n
    <2>5. DevicesApart(list)
      BY <1>1, <2>1, <2>2, <2>3, <2>4 DEF DevicesApart
    <2>6. \A i, j \in 1 .. Len(list) : list[i].id = list[j].id /\ list[i].id # NoId => i = j
      BY <1>1, <2>1, <2>2, <2>3 DEF IdsApart
    <2>7. Len(list) <= Cardinality(Devices)
      <3>1. \A i \in 1 .. Len(list) : list[i].dev \in Cars
        BY <1>1, <2>1, <2>2, <2>3 DEF Vehicles
      <3>2. Len(list) <= Cardinality(Cars)
        BY <2>2, <2>5, <3>1, DevicesCount, DeviceCount
      <3>3. QED
        BY <1>1, <2>2, <3>2, DeviceCount
    <2>8. /\ out \in Seq(Vehicles) /\ Len(out) = n + 1 /\ IdsApart(out)
          /\ \A i \in 1 .. n + 1 : out[i].dev = list[i].dev
                                  /\ (list[i].id # NoId => out[i].id = list[i].id)
      BY <2>2, <2>6, <2>7, StampedShape
    <2> HIDE DEF out
    <2>9. DOMAIN out = 1 .. n + 1
      BY <2>8
    <2>10. DevicesApart(out)
      BY <2>2, <2>5, <2>8, <2>9 DEF DevicesApart
    <2>11. \A i \in 1 .. n : vehicles[i].dev = out[i].dev /\ vehicles[i].id = out[i].id
      <3>1. \A i \in 1 .. n : vehicles[i].id # NoId
        BY <1>1, NumbersApart DEF Vehicles, Known
      <3>2. QED
        BY <1>1, <2>2, <2>8, <3>1
    <2>12. \A k \in 1 .. n + 1 : k > n => out[k].dev \notin DevicesOf(vehicles)
      <3>1. \A k \in 1 .. n + 1 : k > n => k = n + 1
        BY <1>1
      <3>2. out[n + 1].dev = c
        BY <1>1, <2>1, <2>2, <2>8
      <3>3. QED
        BY <1>2, <3>1, <3>2
    <2>13. KeepsOrder(vehicles, out)
      <3>1. n + 1 \in Nat /\ n <= n + 1
        BY <1>1
      <3>2. QED
        BY <1>1, <2>9, <2>11, <2>12, <3>1, PrefixKeeps
    <2>14. QED
      BY <2>8, <2>10, <2>13 DEF VehiclesRight, out
  <1>3. ASSUME NEW i \in DOMAIN vehicles
        PROVE  VehiclesRight(RemoveAt(vehicles, i)) /\ KeepsOrder(vehicles, RemoveAt(vehicles, i))
    <2> DEFINE list == RemoveAt(vehicles, i)
               From(j) == IF j < i THEN j ELSE j + 1
    <2>1. /\ list \in Seq(Vehicles) /\ Len(list) = n - 1
          /\ \A j \in 1 .. n - 1 : list[j] = vehicles[From(j)]
      BY <1>1, <1>3, RemoveShape
    <2>2. DOMAIN list = 1 .. n - 1
      <3> HIDE DEF list
      <3>1. QED
        BY <2>1
    <2>3. /\ \A j \in 1 .. n - 1 : From(j) \in DOMAIN vehicles
          /\ \A j, k \in 1 .. n - 1 : From(j) = From(k) => j = k
      BY <1>1
    <2> HIDE DEF list, From, n
    <2>4. IdsApart(list)
      BY <1>1, <2>1, <2>2, <2>3 DEF IdsApart
    <2>5. DevicesApart(list)
      BY <1>1, <2>1, <2>2, <2>3 DEF DevicesApart
    <2>6. KeepsOrder(vehicles, list)
      BY <1>1, RemoveKeeps DEF list
    <2>7. QED
      BY <2>1, <2>4, <2>5, <2>6 DEF VehiclesRight, list
  <1>4. ASSUME NEW i \in DOMAIN vehicles,
               NEW list, list = [vehicles EXCEPT ![i].bidirectional = ~@]
        PROVE  VehiclesRight(list) /\ KeepsOrder(vehicles, list)
    <2> DEFINE v == [vehicles[i] EXCEPT !.bidirectional = ~@]
    <2>1. v \in Vehicles /\ v.id = vehicles[i].id /\ v.dev = vehicles[i].dev
      BY <1>1 DEF Vehicles
    <2>2. list = [vehicles EXCEPT ![i] = v]
      BY <1>4
    <2> HIDE DEF v
    <2>3. /\ list \in Seq(Vehicles) /\ DOMAIN list = 1 .. n
          /\ \A j \in 1 .. n : list[j] = IF j = i THEN v ELSE vehicles[j]
      BY <1>1, <2>1, <2>2
    <2>4. \A j \in 1 .. n : vehicles[j].dev = list[j].dev /\ vehicles[j].id = list[j].id
      BY <2>1, <2>3
    <2>5. IdsApart(list) /\ DevicesApart(list)
      BY <1>1, <2>3, <2>4 DEF IdsApart, DevicesApart
    <2>6. \A k \in 1 .. n : ~(k > n)
      BY <1>1
    <2> HIDE DEF n
    <2>7. KeepsOrder(vehicles, list)
      <3>1. n <= n
        BY <1>1
      <3>2. QED
        BY <1>1, <2>3, <2>4, <2>6, <3>1, PrefixKeeps
    <2>8. QED
      BY <2>3, <2>5, <2>7 DEF VehiclesRight
  <1>5. ASSUME NEW i \in DOMAIN vehicles,
               NEW list \in {RemoveAt(vehicles, i), [vehicles EXCEPT ![i].bidirectional = ~@]}
        PROVE  VehiclesRight(Stamped(list)) /\ KeepsOrder(vehicles, Stamped(list))
    <2>1. VehiclesRight(list) /\ KeepsOrder(vehicles, list)
      BY <1>3, <1>4, <1>5
    <2>2. QED
      BY <2>1, StampedAgain
  <1>6. QED
    BY <1>2, <1>5

-----------------------------------------------------------------------------
(***************************************************************************)
(* Every step keeps the invariant.                                         *)
(***************************************************************************)
\* What the posts of a page leave.
ConfigPosted ==
    /\ ConfigRight(config') /\ KeepsOrder(config, config')
    /\ UNCHANGED <<vehicles, loads, away>> /\ SaveConfig
ListPosted ==
    /\ VehiclesRight(vehicles') /\ KeepsOrder(vehicles, vehicles')
    /\ UNCHANGED <<config, loads, away>> /\ SaveSettings

LEMMA PostsAre ==
    ASSUME IInv
    PROVE  /\ (\E d \in Loads : AddLoad(d)) => ConfigPosted
           /\ (\E i \in DOMAIN config : RemoveLoad(i) \/ ChooseControl(i)) => ConfigPosted
           /\ ImportPrefs => ConfigPosted
           /\ (\E c \in Cars : AddVehicle(c)) => ListPosted
           /\ (\E i \in DOMAIN vehicles : RemoveVehicle(i) \/ ChooseCapability(i)) => ListPosted
  <1>1. ConfigRight(config) /\ VehiclesRight(vehicles)
    BY DEF IInv
  <1>2. ASSUME NEW doc, Post(doc), ConfigRight(doc), KeepsOrder(config, doc) PROVE ConfigPosted
    <2>1. config' = doc
      BY <1>2, RightStays DEF Post
    <2>2. QED
      BY <1>2, <2>1 DEF Post, ConfigPosted
  <1>3. ASSUME NEW d \in Loads, AddLoad(d) PROVE ConfigPosted
    BY <1>1, <1>2, <1>3, PostedRight, PostKeeps DEF AddLoad
  <1>4. ASSUME NEW i \in DOMAIN config, RemoveLoad(i) PROVE ConfigPosted
    BY <1>1, <1>2, <1>4, PostedRight, PostKeeps DEF RemoveLoad
  <1>5. ASSUME NEW i \in DOMAIN config, ChooseControl(i) PROVE ConfigPosted
    BY <1>1, <1>2, <1>5, PostedRight, PostKeeps DEF ChooseControl
  <1>6. ASSUME ImportPrefs PROVE ConfigPosted
    <2>1. config' = Sanitized(Unnumbered(Imported)) /\ UNCHANGED <<vehicles, loads, away>> /\ SaveConfig
      BY <1>6 DEF ImportPrefs, Post, Prefill
    <2>2. ConfigRight(config')
      BY <2>1, UnnumberedRight
    <2>3. KeepsOrder(config, config')
      BY <1>6 DEF ImportPrefs, KeepsOrder
    <2>4. QED
      BY <2>1, <2>2, <2>3 DEF ConfigPosted
  <1>7. ASSUME NEW c \in Cars, AddVehicle(c) PROVE ListPosted
    BY <1>1, <1>7, VehiclesPosted DEF AddVehicle, PostVehicles, ListPosted
  <1>8. ASSUME NEW i \in DOMAIN vehicles, RemoveVehicle(i) \/ ChooseCapability(i) PROVE ListPosted
    BY <1>1, <1>8, VehiclesPosted DEF RemoveVehicle, ChooseCapability, PostVehicles, ListPosted
  <1>9. QED
    BY <1>3, <1>4, <1>5, <1>6, <1>7, <1>8

LEMMA InitHolds == SetupInit => IInv
  <1> SUFFICES ASSUME SetupInit PROVE IInv
    OBVIOUS
  <1>1. /\ vehicles = <<>> /\ loads = [k \in Keys |-> NoPriority]
        /\ disk \in [config : {<<>>, Migrated}, vehicles : {<<>>}, loads : {loads}]
        /\ config = Sanitized(disk.config) /\ unsaved = {} /\ away = {} /\ failures = 0
    BY DEF SetupInit
  <1>2. ConfigRight(<<>>) /\ VehiclesRight(<<>>)
    BY DEF ConfigRight, VehiclesRight, IdsApart, DevicesApart, OwnIds
  <1>3. loads \in Priorities
    BY <1>1, DeviceCount DEF Priorities, NoPriority
  <1>4. /\ disk = [config |-> disk.config, vehicles |-> disk.vehicles, loads |-> disk.loads]
        /\ disk.config = <<>> \/ disk.config = Migrated
        /\ disk.vehicles = vehicles /\ disk.loads = loads
    BY <1>1
  <1>5. ConfigRight(config)
    <2>1. CASE disk.config = <<>>
      BY <1>1, <1>2, <2>1, RightStays
    <2>2. CASE disk.config = Migrated
      BY <1>1, <2>2, UnnumberedRight DEF Migrated
    <2>3. QED
      BY <1>4, <2>1, <2>2
  <1>6. FilesRight
    BY <1>1, <1>2, <1>3, <1>4 DEF FilesRight
  <1>7. Written
    BY <1>1, <1>4 DEF Written
  <1>8. QED
    BY <1>1, <1>2, <1>3, <1>5, <1>6, <1>7, SetupAssumption DEF IInv

LEMMA ConfigPostedHolds == IInv /\ ConfigPosted => IInv'
  <1> SUFFICES ASSUME IInv, ConfigPosted PROVE IInv'
    OBVIOUS
  <1>1. /\ ConfigRight(config') /\ UNCHANGED <<vehicles, loads, away>>
        /\ \/ disk' = [disk EXCEPT !.config = config'] /\ unsaved' = unsaved \ {"config"}
              /\ UNCHANGED failures
           \/ failures < MaxFailures /\ failures' = failures + 1
              /\ unsaved' = unsaved \cup {"config"} /\ UNCHANGED disk
    BY DEF ConfigPosted, SaveConfig
  <1>2. FilesRight /\ Written /\ failures \in 0 .. MaxFailures /\ unsaved \subseteq {"config", "settings"}
    BY DEF IInv
  <1>3. FilesRight'
    BY <1>1, <1>2 DEF FilesRight
  <1>4. Written'
    <2>1. CASE disk' = [disk EXCEPT !.config = config'] /\ unsaved' = unsaved \ {"config"}
      <3>1. Sanitized(config') = config'
        BY <1>1, RightStays
      <3>2. disk'.config = config' /\ disk'.vehicles = disk.vehicles /\ disk'.loads = disk.loads
        BY <1>2, <2>1 DEF FilesRight
      <3>3. QED
        BY <1>1, <1>2, <2>1, <3>1, <3>2 DEF Written
    <2>2. CASE unsaved' = unsaved \cup {"config"} /\ UNCHANGED disk
      BY <1>1, <1>2, <2>2 DEF Written
    <2>3. QED
      BY <1>1, <2>1, <2>2
  <1>5. failures' \in 0 .. MaxFailures /\ unsaved' \subseteq {"config", "settings"}
    BY <1>1, <1>2, SetupAssumption
  <1>6. QED
    BY <1>1, <1>3, <1>4, <1>5 DEF IInv, VehiclesRight, Priorities, Keys

\* What is saved of the settings is in order, whatever changed them.
LEMMA SettingsSaved ==
    ASSUME IInv, SaveSettings, UNCHANGED <<config, away>>,
           VehiclesRight(vehicles'), loads' \in Priorities
    PROVE  IInv'
  <1>1. /\ \/ /\ disk' = [disk EXCEPT !.vehicles = vehicles', !.loads = loads']
              /\ unsaved' = unsaved \ {"settings"} /\ UNCHANGED failures
           \/ failures < MaxFailures /\ failures' = failures + 1
              /\ unsaved' = unsaved \cup {"settings"} /\ UNCHANGED disk
    BY DEF SaveSettings
  <1>2. FilesRight /\ Written /\ failures \in 0 .. MaxFailures /\ unsaved \subseteq {"config", "settings"}
    BY DEF IInv
  <1>3. FilesRight'
    BY <1>1, <1>2 DEF FilesRight
  <1>4. Written'
    <2>1. CASE /\ disk' = [disk EXCEPT !.vehicles = vehicles', !.loads = loads']
               /\ unsaved' = unsaved \ {"settings"}
      <3>1. disk'.config = disk.config /\ disk'.vehicles = vehicles' /\ disk'.loads = loads'
        BY <1>2, <2>1 DEF FilesRight
      <3>2. QED
        BY <1>2, <2>1, <3>1 DEF Written
    <2>2. CASE unsaved' = unsaved \cup {"settings"} /\ UNCHANGED disk
      BY <1>2, <2>2 DEF Written
    <2>3. QED
      BY <1>1, <2>1, <2>2
  <1>5. failures' \in 0 .. MaxFailures /\ unsaved' \subseteq {"config", "settings"}
    BY <1>1, <1>2, SetupAssumption
  <1>6. QED
    BY <1>3, <1>4, <1>5 DEF IInv, ConfigRight

LEMMA RestartHolds == IInv /\ Restart => IInv'
  <1> SUFFICES ASSUME IInv, Restart PROVE IInv'
    OBVIOUS
  <1>1. /\ config' = Sanitized(disk.config) /\ vehicles' = disk.vehicles /\ loads' = disk.loads
        /\ unsaved' = {} /\ UNCHANGED <<disk, away>> /\ failures < MaxFailures /\ failures' = failures + 1
    BY DEF Restart
  <1>2. FilesRight /\ failures \in 0 .. MaxFailures /\ away \subseteq Cars
    BY DEF IInv
  <1>3. ConfigRight(config')
    <2>1. CASE ConfigRight(disk.config)
      BY <1>1, <2>1, RightStays
    <2>2. CASE disk.config = Migrated
      BY <1>1, <2>2, UnnumberedRight DEF Migrated
    <2>3. QED
      BY <1>2, <2>1, <2>2 DEF FilesRight
  <1>4. FilesRight' /\ VehiclesRight(vehicles') /\ loads' \in Priorities
    BY <1>1, <1>2 DEF FilesRight
  <1>5. Written'
    BY <1>1 DEF Written
  <1>6. failures' \in 0 .. MaxFailures
    BY <1>1, <1>2, SetupAssumption
  <1>7. QED
    BY <1>1, <1>2, <1>3, <1>4, <1>5, <1>6 DEF IInv, Priorities, Keys

LEMMA StepHolds == IInv /\ [SetupNext]_setupVars => IInv'
  <1> SUFFICES ASSUME IInv, [SetupNext]_setupVars PROVE IInv'
    OBVIOUS
  <1>1. Ordered /\ away \subseteq Cars
    BY DEF IInv, Ordered
  <1>2. CASE ConfigPosted
    BY <1>2, ConfigPostedHolds
  <1>3. CASE ListPosted
    <2>1. loads' \in Priorities
      BY <1>1, <1>3 DEF ListPosted, Ordered
    <2>2. QED
      BY <1>3, <2>1, SettingsSaved DEF ListPosted
  <1>4. CASE \E c \in Cars : Drive(c)
    <2>1. away' \subseteq Cars
      BY <1>1, <1>4 DEF Drive
    <2>2. UNCHANGED <<config, vehicles, loads, disk, unsaved, failures>>
      BY <1>4 DEF Drive
    <2>3. QED
      BY <2>1, <2>2 DEF IInv, FilesRight, Written
  <1>5. CASE Normalize
    <2>1. Normalized \in Priorities
      BY <1>1, NormalizedCounts DEF NormalizedRight
    <2>2. VehiclesRight(vehicles') /\ loads' \in Priorities
      BY <1>1, <1>5, <2>1 DEF Normalize, Ordered
    <2>3. QED
      BY <1>5, <2>2, SettingsSaved DEF Normalize
  <1>6. CASE \E i, j \in DOMAIN Listed : Move(i, j)
    <2>1. PICK i \in DOMAIN Listed, j \in DOMAIN Listed : Move(i, j)
      BY <1>6
    <2>2. Swapped(i, j) \in Priorities
      BY <1>1, SwappedCounts
    <2>3. VehiclesRight(vehicles') /\ loads' \in Priorities
      BY <1>1, <2>1, <2>2 DEF Move, Ordered
    <2>4. QED
      BY <2>1, <2>3, SettingsSaved DEF Move
  <1>7. CASE Restart
    BY <1>7, RestartHolds
  <1>8. CASE UNCHANGED setupVars
    BY <1>8 DEF setupVars, IInv, FilesRight, Written
  <1>9. QED
    BY <1>2, <1>3, <1>4, <1>5, <1>6, <1>7, <1>8, PostsAre DEF SetupNext

\* Each list holds an id and a device once, and the files say what the lists say unless
\* their last write failed.
THEOREM InvHolds == SetupSpec => []IInv
  <1>1. QED
    BY InitHolds, StepHolds, PTL DEF SetupSpec

\* Types of the configuration, the vehicles, the priorities and the files: ids and
\* devices occur once in each list, and priorities count devices, whatever is posted,
\* imported, migrated, moved or lost.
THEOREM SetupTypeCorrect == SetupSpec => []SetupTypeOK
  <1>1. IInv => SetupTypeOK
    <2> SUFFICES ASSUME IInv PROVE SetupTypeOK
      OBVIOUS
    <2>1. disk.config \in Seq(Instances) \cup {Migrated} /\ disk.vehicles \in Seq(Vehicles)
          /\ disk.loads \in Priorities
      BY DEF IInv, FilesRight, ConfigRight, VehiclesRight
    <2>2. QED
      BY <2>1 DEF IInv, SetupTypeOK, ConfigRight, VehiclesRight, IdsApart, DevicesApart, Priorities
  <1>2. QED
    BY <1>1, InvHolds, PTL

\* A restart finds the devices under the ids they had (_load_config sanitises anew), the
\* vehicles and the order, unless a write failed.
THEOREM RestartFinds == SetupSpec => []RestartFindsAll
  <1>1. IInv => RestartFindsAll
    BY DEF IInv, Written, RestartFindsAll
  <1>2. QED
    BY <1>1, InvHolds, PTL

-----------------------------------------------------------------------------
(***************************************************************************)
(* Only the arrows change the order.                                       *)
(***************************************************************************)
LEMMA RankedNext == Ordered' => Ranked' /\ KeysApart'
  <1>1. Ordered => Ranked /\ KeysApart
    BY PlacesRanked, PositionsApart
  <1>2. QED
    BY <1>1, PTL

LEMMA SameOrderIf ==
    ASSUME Ranked, Ranked',
           \A p, q \in Controllable : \A r, s \in Controllable' :
              DevAt(p) = DevAt(r)' /\ DevAt(q) = DevAt(s)' /\ Ahead(p, q) => Ahead(r, s)'
    PROVE  SameOrder(Order, Order')
  <1> SUFFICES ASSUME NEW i \in DOMAIN Order, NEW j \in DOMAIN Order,
                      NEW k \in DOMAIN Order', NEW l \in DOMAIN Order',
                      i < j, Order[i] = Order'[k], Order[j] = Order'[l]
               PROVE  k < l
    BY DEF SameOrder
  <1>1. /\ i \in 1 .. Cardinality(Controllable) /\ j \in 1 .. Cardinality(Controllable)
        /\ k \in 1 .. Cardinality(Controllable') /\ l \in 1 .. Cardinality(Controllable')
    BY DEF Order, Listed
  <1>2. /\ Order[i] = DevAt(Listed[i]) /\ Order[j] = DevAt(Listed[j])
        /\ Order'[k] = DevAt(Listed[k])' /\ Order'[l] = DevAt(Listed[l])'
    BY DEF Order
  <1>3. /\ Listed[i] \in Controllable /\ Place(Listed[i]) = i
        /\ Listed[j] \in Controllable /\ Place(Listed[j]) = j
    BY <1>1 DEF Ranked
  <1>4. /\ Listed'[k] \in Controllable' /\ Place(Listed[k])' = k
        /\ Listed'[l] \in Controllable' /\ Place(Listed[l])' = l
    BY <1>1 DEF Ranked
  <1>5. Ahead(Listed[i], Listed[j])
    BY <1>3 DEF Ranked
  <1>6. Ahead(Listed[k], Listed[l])'
    BY <1>2, <1>3, <1>4, <1>5
  <1>7. Place(Listed[k])' < Place(Listed[l])'
    BY <1>4, <1>6 DEF Ranked
  <1>8. QED
    BY <1>4, <1>7

\* A position before and after: the same device of the same list, under the same key.
Stays(p, r) ==
    \/ /\ p \in DOMAIN config /\ r \in DOMAIN config' /\ config[p].dev = config'[r].dev
       /\ p <= Len(config) /\ r <= Len(config')
    \/ /\ p - Len(config) \in DOMAIN vehicles /\ r - Len(config') \in DOMAIN vehicles'
       /\ vehicles[p - Len(config)].dev = vehicles'[r - Len(config')].dev
       /\ ~(p <= Len(config)) /\ ~(r <= Len(config'))

LEMMA StaysIf ==
    ASSUME Ordered, Ordered',
           NEW p \in Controllable, NEW r \in Controllable', DevAt(p) = DevAt(r)'
    PROVE  Stays(p, r) /\ p \in Nat /\ r \in Nat
  <1>1. /\ config \in Seq(Instances) /\ config' \in Seq(Instances)
        /\ vehicles \in Seq(Vehicles) /\ vehicles' \in Seq(Vehicles)
    BY DEF Ordered, ConfigRight, VehiclesRight
  <1>2. /\ p \in 1 .. Len(config) + Len(vehicles) /\ r \in 1 .. Len(config') + Len(vehicles')
    BY DEF Controllable, Positions
  <1>3. /\ Len(config) \in Nat /\ Len(config') \in Nat /\ Len(vehicles) \in Nat /\ Len(vehicles') \in Nat
        /\ DOMAIN config = 1 .. Len(config) /\ DOMAIN config' = 1 .. Len(config')
        /\ DOMAIN vehicles = 1 .. Len(vehicles) /\ DOMAIN vehicles' = 1 .. Len(vehicles')
    BY <1>1
  <1>4. /\ \A i \in DOMAIN config : config[i].dev \in Loads
        /\ \A i \in DOMAIN config' : config'[i].dev \in Loads
        /\ \A i \in DOMAIN vehicles : vehicles[i].dev \in Cars
        /\ \A i \in DOMAIN vehicles' : vehicles'[i].dev \in Cars
    <2>1. /\ \A i \in DOMAIN config : config[i] \in Instances
          /\ \A i \in DOMAIN config' : config'[i] \in Instances
          /\ \A i \in DOMAIN vehicles : vehicles[i] \in Vehicles
          /\ \A i \in DOMAIN vehicles' : vehicles'[i] \in Vehicles
      BY <1>1
    <2>2. QED
      BY <2>1 DEF Instances, Vehicles
  <1>5. /\ DevAt(p) = IF p <= Len(config) THEN config[p].dev ELSE vehicles[p - Len(config)].dev
        /\ DevAt(r)' = IF r <= Len(config') THEN config'[r].dev ELSE vehicles'[r - Len(config')].dev
    BY DEF DevAt, IsLoad, Vehicle
  <1>6. /\ IF p <= Len(config) THEN p \in DOMAIN config ELSE p - Len(config) \in DOMAIN vehicles
        /\ IF r <= Len(config') THEN r \in DOMAIN config' ELSE r - Len(config') \in DOMAIN vehicles'
    BY <1>2, <1>3
  <1>7. Stays(p, r)
    BY <1>4, <1>5, <1>6, SetupAssumption DEF Stays
  <1>8. QED
    BY <1>2, <1>3, <1>7

LEMMA PostsKeepAhead ==
    ASSUME Ordered, Ordered', KeepsOrder(config, config'), KeepsOrder(vehicles, vehicles'),
           loads' = loads
    PROVE  \A p, q \in Controllable : \A r, s \in Controllable' :
              DevAt(p) = DevAt(r)' /\ DevAt(q) = DevAt(s)' /\ Ahead(p, q) => Ahead(r, s)'
  <1> SUFFICES ASSUME NEW p \in Controllable, NEW q \in Controllable,
                      NEW r \in Controllable', NEW s \in Controllable',
                      DevAt(p) = DevAt(r)', DevAt(q) = DevAt(s)', Ahead(p, q)
               PROVE  Ahead(r, s)'
    OBVIOUS
  <1>1. /\ Stays(p, r) /\ p \in Nat /\ r \in Nat
        /\ Stays(q, s) /\ q \in Nat /\ s \in Nat
    BY StaysIf
  <1>2. Len(config) \in Nat /\ Len(config') \in Nat
    BY DEF Ordered, ConfigRight
  <1>3. KeyAt(r)' = KeyAt(p)
    <2>1. /\ KeyAt(p) = IF p <= Len(config) THEN <<"load", config[p].id>>
                        ELSE <<"vehicle", vehicles[p - Len(config)].id>>
          /\ KeyAt(r)' = IF r <= Len(config') THEN <<"load", config'[r].id>>
                         ELSE <<"vehicle", vehicles'[r - Len(config')].id>>
      BY DEF KeyAt, IsLoad, Vehicle
    <2>2. CASE p <= Len(config)
      <3>1. p \in DOMAIN config /\ r \in DOMAIN config' /\ config[p].dev = config'[r].dev
            /\ r <= Len(config')
        BY <1>1, <2>2 DEF Stays
      <3>2. config[p].id = config'[r].id
        BY <3>1 DEF KeepsOrder
      <3>3. QED
        BY <2>1, <2>2, <3>1, <3>2
    <2>3. CASE ~(p <= Len(config))
      <3> DEFINE m == p - Len(config)
                 n == r - Len(config')
      <3>1. m \in DOMAIN vehicles /\ n \in DOMAIN vehicles' /\ vehicles[m].dev = vehicles'[n].dev
            /\ ~(r <= Len(config'))
        BY <1>1, <2>3 DEF Stays
      <3>2. vehicles[m].id = vehicles'[n].id
        <4> HIDE DEF m, n
        <4>1. QED
          BY <3>1 DEF KeepsOrder
      <3>3. QED
        BY <2>1, <2>3, <3>1, <3>2
    <2>4. QED
      BY <2>2, <2>3
  <1>4. KeyAt(s)' = KeyAt(q)
    <2>1. /\ KeyAt(q) = IF q <= Len(config) THEN <<"load", config[q].id>>
                        ELSE <<"vehicle", vehicles[q - Len(config)].id>>
          /\ KeyAt(s)' = IF s <= Len(config') THEN <<"load", config'[s].id>>
                         ELSE <<"vehicle", vehicles'[s - Len(config')].id>>
      BY DEF KeyAt, IsLoad, Vehicle
    <2>2. CASE q <= Len(config)
      <3>1. q \in DOMAIN config /\ s \in DOMAIN config' /\ config[q].dev = config'[s].dev
            /\ s <= Len(config')
        BY <1>1, <2>2 DEF Stays
      <3>2. config[q].id = config'[s].id
        BY <3>1 DEF KeepsOrder
      <3>3. QED
        BY <2>1, <2>2, <3>1, <3>2
    <2>3. CASE ~(q <= Len(config))
      <3> DEFINE m == q - Len(config)
                 n == s - Len(config')
      <3>1. m \in DOMAIN vehicles /\ n \in DOMAIN vehicles' /\ vehicles[m].dev = vehicles'[n].dev
            /\ ~(s <= Len(config'))
        BY <1>1, <2>3 DEF Stays
      <3>2. vehicles[m].id = vehicles'[n].id
        <4> HIDE DEF m, n
        <4>1. QED
          BY <3>1 DEF KeepsOrder
      <3>3. QED
        BY <2>1, <2>3, <3>1, <3>2
    <2>4. QED
      BY <2>2, <2>3
  <1>5. p < q => r < s
    <2> SUFFICES ASSUME p < q PROVE r < s
      OBVIOUS
    <2>1. CASE q <= Len(config)
      BY <1>1, <1>2, <2>1 DEF Stays, KeepsOrder
    <2>2. CASE p <= Len(config) /\ ~(q <= Len(config))
      BY <1>1, <1>2, <2>2 DEF Stays
    <2>3. CASE ~(p <= Len(config))
      <3> DEFINE p1 == p - Len(config)
                 q1 == q - Len(config)
                 r1 == r - Len(config')
                 s1 == s - Len(config')
      <3>1. /\ p1 \in DOMAIN vehicles /\ q1 \in DOMAIN vehicles
            /\ r1 \in DOMAIN vehicles' /\ s1 \in DOMAIN vehicles'
            /\ vehicles[p1].dev = vehicles'[r1].dev /\ vehicles[q1].dev = vehicles'[s1].dev
        BY <1>1, <1>2, <2>3 DEF Stays
      <3>2. p1 < q1
        BY <1>1, <1>2
      <3>3. r1 < s1
        <4> HIDE DEF p1, q1, r1, s1
        <4>1. QED
          BY <3>1, <3>2 DEF KeepsOrder
      <3>4. QED
        BY <1>1, <1>2, <3>3
    <2>4. QED
      BY <2>1, <2>2, <2>3
  <1>6. QED
    BY <1>3, <1>4, <1>5 DEF Ahead

LEMMA KeepsItself ==
    ASSUME NEW S, NEW list \in Seq(S), DevicesApart(list)
    PROVE  KeepsOrder(list, list)
  BY DEF KeepsOrder, DevicesApart

LEMMA PostsSameOrder ==
    ASSUME Ordered, Ordered', KeepsOrder(config, config'), KeepsOrder(vehicles, vehicles'),
           loads' = loads
    PROVE  SameOrder(Order, Order')
  <1>1. Ranked /\ Ranked'
    BY PlacesRanked, RankedNext
  <1>2. QED
    BY <1>1, PostsKeepAhead, SameOrderIf

LEMMA ListsKept ==
    ASSUME Ordered, UNCHANGED <<config, vehicles>>
    PROVE  KeepsOrder(config, config') /\ KeepsOrder(vehicles, vehicles')
  BY KeepsItself DEF Ordered, ConfigRight, VehiclesRight

\* Without a post and a drive the devices are where they were.
LEMMA SamePlaces ==
    ASSUME UNCHANGED <<config, vehicles, away>>
    PROVE  /\ Controllable' = Controllable
           /\ \A p \in Controllable : KeyAt(p)' = KeyAt(p) /\ DevAt(p)' = DevAt(p)
  <1>1. Positions' = Positions
    BY DEF Positions
  <1>2. Controllable' = Controllable
    BY <1>1 DEF Controllable, IsLoad, Vehicle
  <1>3. QED
    BY <1>2 DEF KeyAt, DevAt, IsLoad, Vehicle

LEMMA DevicesOnce ==
    ASSUME Ordered, NEW p \in Controllable, NEW q \in Controllable, DevAt(p) = DevAt(q)
    PROVE  p = q
  BY PositionsApart DEF KeysApart, Controllable

LEMMA NormalizeKeeps ==
    ASSUME Ordered, Ordered', Normalize
    PROVE  SameOrder(Order, Order')
  <1> DEFINE N == Cardinality(Controllable)
  <1>1. Ranked /\ Ranked' /\ NormalizedRight
    BY PlacesRanked, RankedNext, NormalizedCounts
  <1>2. loads' = Normalized /\ UNCHANGED <<config, vehicles, away>>
    BY DEF Normalize
  <1>3. /\ Controllable' = Controllable
        /\ \A p \in Controllable : KeyAt(p)' = KeyAt(p) /\ DevAt(p)' = DevAt(p)
    BY <1>2, SamePlaces
  <1>4. N \in Nat
    BY PositionsApart, FS_CardinalityType DEF KeysApart
  <1>5. ASSUME NEW p \in Controllable, NEW q \in Controllable,
               NEW r \in Controllable', NEW s \in Controllable',
               DevAt(p) = DevAt(r)', DevAt(q) = DevAt(s)', Ahead(p, q)
        PROVE  Ahead(r, s)'
    <2>1. r = p /\ s = q
      BY <1>3, <1>5, DevicesOnce
    <2>2. Place(p) \in 1 .. N /\ Place(q) \in 1 .. N /\ Place(p) < Place(q)
      BY <1>1, <1>5 DEF Ranked
    <2>3. loads'[KeyAt(p)'] = N + 1 - Place(p) /\ loads'[KeyAt(q)'] = N + 1 - Place(q)
      BY <1>1, <1>2, <1>3 DEF NormalizedRight
    <2>4. loads'[KeyAt(p)'] > loads'[KeyAt(q)']
      BY <1>4, <2>2, <2>3
    <2>5. QED
      BY <2>1, <2>4 DEF Ahead
  <1>6. QED
    BY <1>1, <1>5, SameOrderIf

OrderShown ==
    /\ DOMAIN Listed = 1 .. Cardinality(Controllable) /\ DOMAIN Order = DOMAIN Listed
    /\ \A n \in DOMAIN Listed : Order[n] = DevAt(Listed[n])
    /\ Order = [n \in DOMAIN Order |-> Order[n]]

LEMMA OrderNext == OrderShown /\ OrderShown'
  <1>1. OrderShown
    <2>1. DOMAIN Listed = 1 .. Cardinality(Controllable)
      BY DEF Listed
    <2>2. QED
      BY <2>1 DEF OrderShown, Order
  <1>2. QED
    BY <1>1, PTL

\* An arrow exchanges two places, and these only.
LEMMA MoveExchanges ==
    ASSUME Ordered, Ordered', NEW i \in DOMAIN Listed, NEW j \in DOMAIN Listed, Move(i, j)
    PROVE  Order' = [Order EXCEPT ![i] = Order[j], ![j] = Order[i]]
  <1> DEFINE N == Cardinality(Controllable)
             to(n) == IF n = i THEN j ELSE IF n = j THEN i ELSE n
             rank == [p \in Controllable |-> to(Place(p))]
  <1>1. Ranked /\ Ranked' /\ KeysApart
    BY PlacesRanked, RankedNext, PositionsApart
  <1>2. loads' = Swapped(i, j) /\ UNCHANGED <<config, vehicles, away>>
    BY DEF Move
  <1>3. /\ Controllable' = Controllable
        /\ \A p \in Controllable : KeyAt(p)' = KeyAt(p) /\ DevAt(p)' = DevAt(p)
    BY <1>2, SamePlaces
  <1>4. N \in Nat /\ IsFiniteSet(Controllable)
    BY <1>1, FS_CardinalityType DEF KeysApart
  <1>5. i \in 1 .. N /\ j \in 1 .. N /\ i # j
    <2>1. i \in 1 .. N /\ j \in 1 .. N
      BY DEF Listed
    <2>2. QED
      BY <2>1 DEF Move
  <1>6. \A p \in Controllable : Place(p) \in 1 .. N /\ to(Place(p)) \in 1 .. N
    BY <1>1, <1>5 DEF Ranked
  <1>7. \A p \in Controllable : loads'[KeyAt(p)'] = N + 1 - to(Place(p))
    BY <1>2, <1>3, SwappedCounts
  <1>8. /\ rank \in [Controllable -> 1 .. N]
        /\ \A p, q \in Controllable : rank[p] = rank[q] => p = q
    <2>1. \A p, q \in Controllable : to(Place(p)) = to(Place(q)) => Place(p) = Place(q)
      BY <1>5, <1>6
    <2>2. QED
      BY <1>1, <1>6, <2>1 DEF Ranked
  <1>9. \A p \in Controllable : Place(p)' = rank[p]
    <2> SUFFICES ASSUME NEW p \in Controllable PROVE Place(p)' = rank[p]
      OBVIOUS
    <2>1. \A q \in Controllable : Ahead(q, p)' <=> rank[q] < rank[p]
      <3> SUFFICES ASSUME NEW q \in Controllable PROVE Ahead(q, p)' <=> rank[q] < rank[p]
        OBVIOUS
      <3>1. /\ loads'[KeyAt(q)'] = N + 1 - rank[q] /\ loads'[KeyAt(p)'] = N + 1 - rank[p]
            /\ rank[p] \in 1 .. N /\ rank[q] \in 1 .. N
        BY <1>6, <1>7
      <3>2. rank[p] = rank[q] => p = q
        BY <1>8
      <3>3. p \in Nat /\ q \in Nat
        BY DEF Controllable, Positions
      <3> HIDE DEF rank, N
      <3>4. Ahead(q, p)' <=> \/ loads'[KeyAt(q)'] > loads'[KeyAt(p)']
                             \/ loads'[KeyAt(q)'] = loads'[KeyAt(p)'] /\ q < p
        BY DEF Ahead
      <3>5. QED
        BY <1>4, <3>1, <3>2, <3>3, <3>4
    <2>2. {q \in Controllable' : Ahead(q, p)'} = {q \in Controllable : rank[q] < rank[p]}
      BY <1>3, <2>1
    <2>3. Cardinality({q \in Controllable : rank[q] < rank[p]}) = rank[p] - 1
      <3> HIDE DEF rank
      <3>1. QED
        BY <1>4, <1>8, Ranks
    <2>4. Place(p)' = 1 + Cardinality({q \in Controllable' : Ahead(q, p)'})
      BY DEF Place
    <2>5. rank[p] \in 1 .. N
      BY <1>6
    <2> HIDE DEF rank, N
    <2>6. QED
      BY <1>4, <2>2, <2>3, <2>4, <2>5
  <1>10. ASSUME NEW n \in 1 .. N PROVE Listed'[n] = Listed[to(n)]
    <2>1. to(n) \in 1 .. N /\ to(to(n)) = n
      BY <1>5
    <2>2. Listed[to(n)] \in Controllable /\ Place(Listed[to(n)]) = to(n)
      <3> HIDE DEF to
      <3>1. QED
        BY <1>1, <2>1 DEF Ranked
    <2>3. PICK m \in Controllable : m = Listed[to(n)]
      BY <2>2
    <2>4. Place(m)' = rank[m] /\ Place(m) = to(n)
      BY <1>9, <2>2, <2>3
    <2>5. Place(m)' = n
      BY <2>1, <2>4
    <2>6. Listed'[Place(m)'] = m
      BY <1>1, <1>3 DEF Ranked
    <2>7. QED
      BY <2>3, <2>5, <2>6
  <1>11. /\ DOMAIN Order = 1 .. N /\ DOMAIN Order' = 1 .. N
         /\ Order' = [n \in 1 .. N |-> Order'[n]]
         /\ \A n \in 1 .. N : Order[n] = DevAt(Listed[n]) /\ Order'[n] = DevAt(Listed[n])'
    BY <1>3, OrderNext DEF OrderShown
  <1>12. ASSUME NEW n \in 1 .. N PROVE Order'[n] = Order[to(n)]
    <2>1. to(n) \in 1 .. N
      BY <1>5
    <2>2. Listed[to(n)] \in Controllable
      <3> HIDE DEF to
      <3>1. QED
        BY <1>1, <2>1 DEF Ranked
    <2>3. DevAt(Listed[n])' = DevAt(Listed[to(n)])
      BY <1>3, <1>10, <2>2
    <2>4. QED
      BY <1>11, <2>1, <2>3
  <1>13. QED
    BY <1>5, <1>11, <1>12

OrderKept ==
    \A before \in {Order}, after \in {Order'} :
       /\ \A i, j \in DOMAIN before :
            Move(i, j) => after = [before EXCEPT ![i] = before[j], ![j] = before[i]]
       /\ \/ SameOrder(before, after)
          \/ Restart /\ unsaved # {}
          \/ \E i, j \in DOMAIN before : Move(i, j)

LEMMA StepOrder == IInv /\ IInv' /\ SetupNext => OrderKept
  <1> SUFFICES ASSUME IInv, IInv', SetupNext PROVE OrderKept
    OBVIOUS
  <1>1. Ordered /\ Ordered'
    BY DEF IInv, Ordered
  <1>2. DOMAIN Order = DOMAIN Listed
    BY OrderNext DEF OrderShown
  <1>3. \A i, j \in DOMAIN Order :
           Move(i, j) => Order' = [Order EXCEPT ![i] = Order[j], ![j] = Order[i]]
    BY <1>1, <1>2, MoveExchanges
  <1>4. ASSUME UNCHANGED <<config, vehicles, loads>> PROVE SameOrder(Order, Order')
    BY <1>1, <1>4, ListsKept, PostsSameOrder
  <1>5. \/ SameOrder(Order, Order')
        \/ Restart /\ unsaved # {}
        \/ \E i, j \in DOMAIN Order : Move(i, j)
    <2>1. CASE ConfigPosted
      <3>1. KeepsOrder(config, config') /\ UNCHANGED <<vehicles, loads>>
        BY <2>1 DEF ConfigPosted
      <3>2. KeepsOrder(vehicles, vehicles')
        BY <1>1, <3>1, KeepsItself DEF Ordered, VehiclesRight
      <3>3. QED
        BY <1>1, <3>1, <3>2, PostsSameOrder
    <2>2. CASE ListPosted
      <3>1. KeepsOrder(vehicles, vehicles') /\ UNCHANGED <<config, loads>>
        BY <2>2 DEF ListPosted
      <3>2. KeepsOrder(config, config')
        BY <1>1, <3>1, KeepsItself DEF Ordered, ConfigRight
      <3>3. QED
        BY <1>1, <3>1, <3>2, PostsSameOrder
    <2>3. CASE \E c \in Cars : Drive(c)
      BY <1>4, <2>3 DEF Drive
    <2>4. CASE Normalize
      BY <1>1, <2>4, NormalizeKeeps
    <2>5. CASE \E i, j \in DOMAIN Listed : Move(i, j)
      BY <1>2, <2>5
    <2>6. CASE Restart
      <3>1. CASE unsaved = {}
        <4>1. UNCHANGED <<config, vehicles, loads>>
          BY <2>6, <3>1 DEF Restart, IInv, Written
        <4>2. QED
          BY <1>4, <4>1
      <3>2. CASE unsaved # {}
        BY <2>6, <3>2
      <3>3. QED
        BY <3>1, <3>2
    <2>7. QED
      BY <2>1, <2>2, <2>3, <2>4, <2>5, <2>6, PostsAre DEF SetupNext
  <1>6. QED
    BY <1>3, <1>5 DEF OrderKept

\* Whatever is posted, plugged in, normalised or loaded from the files, devices that stay
\* on the list of strategy_devices keep their order; move_strategy_priority exchanges a
\* device with the neighbour it is shown next to, and changes nothing else.
THEOREM OrderKeeps == SetupSpec => OrderStays
  <1>1. IInv /\ IInv' /\ [SetupNext]_setupVars => [OrderKept]_setupVars
    BY StepOrder
  <1>2. QED
    BY <1>1, InvHolds, PTL DEF SetupSpec, OrderStays, OrderKept

-----------------------------------------------------------------------------
(***************************************************************************)
(* The table: what is read from it depends on the latest cutoff only.      *)
(***************************************************************************)
LEMMA HistoryParameters ==
    /\ Horizon \in Nat /\ MaxMissed \in Nat /\ PurgeEvery \in Nat
    /\ Retentions \subseteq Nat /\ Shown \in Nat
    /\ Loss \in Nat /\ Loss # 0 /\ PvFactor \in Nat /\ Battery \in Nat /\ MaxCharge \in Nat
    /\ Day \in Nat /\ Day # 0 /\ SinkPower \in Nat /\ SinkDay \in Nat
    /\ CurPrice \in Int /\ Feed \in Int
    /\ Low \in Int /\ Normal \in Int /\ High \in Int
    /\ \A f \in Readings : /\ f.pv \in Nat /\ f.house \in Nat /\ f.grid \in Int
                            /\ f.price \in Int \cup {NoPrice}
  BY HistoryAssumption, Zenon

Rows == [ts : Nat, pv : Nat, house : Nat, grid : Int, price : Int \cup {NoPrice}]
InOrder(list) ==
    list \in Seq(Rows) /\ \A i, j \in DOMAIN list : i < j => list[i].ts < list[j].ts
\* The first d rows are older than c, the others are not.
Splits(list, c, d) ==
    /\ \A i \in 1 .. d : list[i].ts < c
    /\ \A i \in d + 1 .. Len(list) : list[i].ts >= c

LEMMA TailIs ==
    ASSUME NEW S, NEW list \in Seq(S), NEW d \in 0 .. Len(list)
    PROVE  /\ SubSeq(list, d + 1, Len(list)) \in Seq(S)
           /\ Len(SubSeq(list, d + 1, Len(list))) = Len(list) - d
           /\ \A i \in 1 .. Len(list) - d : SubSeq(list, d + 1, Len(list))[i] = list[i + d]
  <1>1. Len(list) \in Nat /\ DOMAIN list = 1 .. Len(list) /\ \A i \in 1 .. Len(list) : list[i] \in S
    OBVIOUS
  <1> DEFINE n == Len(list)
             tail == [i \in 1 .. n - d |-> list[i + d]]
  <1>2. SubSeq(list, d + 1, n) = tail
    <2>1. 1 + n - (d + 1) = n - d /\ \A i \in 1 .. n - d : i + (d + 1) - 1 = i + d
      BY <1>1
    <2>2. SubSeq(list, d + 1, n) = [i \in 1 .. (1 + n - (d + 1)) |-> list[i + (d + 1) - 1]]
      BY <1>1
    <2>3. QED
      BY <2>1, <2>2
  <1>3. n - d \in Nat /\ \A i \in 1 .. n - d : i + d \in 1 .. n
    BY <1>1
  <1>4. tail \in Seq(S) /\ Len(tail) = n - d
    <2>1. \A i \in 1 .. n - d : list[i + d] \in S
      BY <1>1, <1>3
    <2> HIDE DEF n
    <2>2. QED
      BY <1>3, <2>1
  <1>5. QED
    BY <1>2, <1>4

LEMMA SinceSplit ==
    ASSUME NEW list \in Seq(Rows), NEW c \in Int, NEW d \in 0 .. Len(list), Splits(list, c, d)
    PROVE  Since(list, c) = SubSeq(list, d + 1, Len(list))
  <1>1. Len(list) \in Nat /\ DOMAIN list = 1 .. Len(list) /\ \A i \in 1 .. Len(list) : list[i].ts \in Int
    <2>1. \A i \in 1 .. Len(list) : list[i] \in Rows
      OBVIOUS
    <2>2. QED
      BY <2>1 DEF Rows
  <1>2. {i \in DOMAIN list : list[i].ts < c} = 1 .. d
    BY <1>1 DEF Splits
  <1>3. d \in Nat /\ Cardinality(1 .. d) = d
    BY <1>1, IntervalSize
  <1>4. QED
    BY <1>2, <1>3 DEF Since

LEMMA SplitExists ==
    ASSUME NEW list, InOrder(list), NEW c \in Int
    PROVE  \E d \in 0 .. Len(list) : Splits(list, c, d)
  <1> DEFINE n == Len(list)
             old == {i \in 0 .. n : i > 0 => list[i].ts < c}
             young == {i \in Nat : i + 1 > n \/ list[i + 1].ts >= c}
  <1>1. n \in Nat /\ DOMAIN list = 1 .. n /\ \A i \in 1 .. n : list[i].ts \in Int
    <2>1. list \in Seq(Rows) /\ \A i \in 1 .. Len(list) : list[i] \in Rows
      BY DEF InOrder
    <2>2. QED
      BY <2>1 DEF Rows
  <1>2. PICK d \in young : \A e \in young : d <= e
    <2>1. n \in young /\ young \in SUBSET Nat
      BY <1>1
    <2>2. QED
      BY <2>1, LeastNatural
  <1>3. d \in 0 .. n
    <2>1. n \in young
      BY <1>1
    <2>2. QED
      BY <1>1, <1>2, <2>1
  <1>4. \A i \in 1 .. d : list[i].ts < c
    <2> SUFFICES ASSUME NEW i \in 1 .. d PROVE list[i].ts < c
      OBVIOUS
    <2>1. i - 1 \in Nat /\ i - 1 \notin young /\ (i - 1) + 1 = i
      BY <1>2
    <2>2. ~(list[i].ts >= c) /\ list[i].ts \in Int
      BY <1>1, <1>3, <2>1
    <2>3. QED
      BY <2>2
  <1>5. \A i \in d + 1 .. n : list[i].ts >= c
    <2> SUFFICES ASSUME NEW i \in d + 1 .. n PROVE list[i].ts >= c
      OBVIOUS
    <2>1. d + 1 <= n /\ d \in Nat /\ d + 1 \in 1 .. n /\ i \in 1 .. n
      BY <1>1, <1>3
    <2>2. list[d + 1].ts >= c
      BY <1>2, <2>1
    <2>3. d + 1 < i => list[d + 1].ts < list[i].ts
      BY <1>1, <2>1 DEF InOrder
    <2>4. d + 1 < i \/ d + 1 = i
      BY <2>1
    <2>5. QED
      BY <1>1, <2>1, <2>2, <2>3, <2>4
  <1>6. QED
    BY <1>3, <1>4, <1>5 DEF Splits

LEMMA TailInOrder ==
    ASSUME NEW list, InOrder(list), NEW d \in 0 .. Len(list)
    PROVE  InOrder(SubSeq(list, d + 1, Len(list)))
  <1> DEFINE tail == SubSeq(list, d + 1, Len(list))
  <1>1. list \in Seq(Rows) /\ Len(list) \in Nat /\ DOMAIN list = 1 .. Len(list)
    BY DEF InOrder
  <1>2. /\ tail \in Seq(Rows) /\ Len(tail) = Len(list) - d
        /\ \A i \in 1 .. Len(list) - d : tail[i] = list[i + d]
    BY <1>1, TailIs
  <1>3. DOMAIN tail = 1 .. Len(list) - d
    <2> HIDE DEF tail
    <2>1. QED
      BY <1>2
  <1> HIDE DEF tail
  <1>4. \A i, j \in 1 .. Len(list) - d : i < j => tail[i].ts < tail[j].ts
    <2> SUFFICES ASSUME NEW i \in 1 .. Len(list) - d, NEW j \in 1 .. Len(list) - d, i < j
                 PROVE  tail[i].ts < tail[j].ts
      OBVIOUS
    <2>1. i + d \in DOMAIN list /\ j + d \in DOMAIN list /\ i + d < j + d
      BY <1>1
    <2>2. list[i + d].ts < list[j + d].ts
      BY <2>1 DEF InOrder
    <2>3. QED
      BY <1>2, <2>2
  <1>5. QED
    BY <1>2, <1>3, <1>4 DEF InOrder, tail

\* Rows that are too old anyway may be missing.
LEMMA SinceOfTail ==
    ASSUME NEW list, InOrder(list), NEW d \in 0 .. Len(list), NEW c \in Int,
           \A i \in 1 .. d : list[i].ts < c
    PROVE  Since(SubSeq(list, d + 1, Len(list)), c) = Since(list, c)
  <1> DEFINE tail == SubSeq(list, d + 1, Len(list))
             n == Len(list)
  <1>1. list \in Seq(Rows) /\ n \in Nat /\ DOMAIN list = 1 .. n
    BY DEF InOrder
  <1>2. PICK e \in 0 .. n : Splits(list, c, e)
    BY SplitExists
  <1>3. d <= e
    <2>1. \A i \in 1 .. n : list[i].ts \in Int
      <3>1. \A i \in 1 .. n : list[i] \in Rows
        BY <1>1
      <3>2. QED
        BY <3>1 DEF Rows
    <2>2. CASE e < d
      <3>1. e + 1 \in 1 .. d /\ e + 1 \in e + 1 .. n /\ e + 1 \in 1 .. n
        BY <1>1, <2>2
      <3>2. list[e + 1].ts < c /\ list[e + 1].ts >= c
        BY <1>2, <3>1 DEF Splits
      <3>3. QED
        BY <2>1, <3>1, <3>2
    <2>3. QED
      BY <1>1, <2>2
  <1>4. /\ tail \in Seq(Rows) /\ Len(tail) = n - d
        /\ \A i \in 1 .. n - d : tail[i] = list[i + d]
    BY <1>1, TailIs
  <1>5. Since(list, c) = SubSeq(list, e + 1, n)
    BY <1>1, <1>2, SinceSplit
  <1> HIDE DEF tail
  <1>6. e - d \in 0 .. Len(tail) /\ Splits(tail, c, e - d)
    <2>1. \A i \in 1 .. e - d : i \in 1 .. n - d /\ i + d \in 1 .. e
      BY <1>1, <1>3
    <2>2. \A i \in (e - d) + 1 .. n - d : i \in 1 .. n - d /\ i + d \in e + 1 .. n
      BY <1>1, <1>3
    <2>3. \A i \in 1 .. e - d : tail[i].ts < c
      BY <1>2, <1>4, <2>1 DEF Splits
    <2>4. \A i \in (e - d) + 1 .. n - d : tail[i].ts >= c
      <3> SUFFICES ASSUME NEW i \in (e - d) + 1 .. n - d PROVE tail[i].ts >= c
        OBVIOUS
      <3>1. tail[i] = list[i + d] /\ i + d \in e + 1 .. n
        BY <1>4, <2>2
      <3>2. QED
        BY <1>2, <3>1 DEF Splits
    <2>5. QED
      BY <1>1, <1>3, <1>4, <2>3, <2>4 DEF Splits
  <1>7. Since(tail, c) = SubSeq(tail, (e - d) + 1, Len(tail))
    BY <1>4, <1>6, SinceSplit
  <1>8. SubSeq(tail, (e - d) + 1, Len(tail)) = SubSeq(list, e + 1, n)
    <2> DEFINE a == SubSeq(tail, (e - d) + 1, Len(tail))
               b == SubSeq(list, e + 1, n)
    <2>1. /\ a \in Seq(Rows) /\ Len(a) = (n - d) - (e - d)
          /\ \A i \in 1 .. (n - d) - (e - d) : a[i] = tail[i + (e - d)]
      BY <1>4, <1>6, TailIs
    <2>2. /\ b \in Seq(Rows) /\ Len(b) = n - e
          /\ \A i \in 1 .. n - e : b[i] = list[i + e]
      BY <1>1, TailIs
    <2>3. (n - d) - (e - d) = n - e
      BY <1>1, <1>2
    <2>4. \A i \in 1 .. n - e : a[i] = b[i]
      <3> SUFFICES ASSUME NEW i \in 1 .. n - e PROVE a[i] = b[i]
        OBVIOUS
      <3>1. i + (e - d) \in 1 .. n - d /\ (i + (e - d)) + d = i + e
        BY <1>1, <1>3
      <3> HIDE DEF a, b, n
      <3>2. QED
        BY <1>4, <2>1, <2>2, <2>3, <3>1
    <2> HIDE DEF a, b
    <2>5. a = [i \in 1 .. n - e |-> a[i]] /\ b = [i \in 1 .. n - e |-> b[i]]
      BY <2>1, <2>2, <2>3
    <2>6. a = b
      BY <2>4, <2>5
    <2>7. QED
      BY <2>6 DEF a, b
  <1>9. QED
    BY <1>5, <1>7, <1>8 DEF tail

\* Cutting twice is cutting at the later of the two cutoffs.
LEMMA SinceSince ==
    ASSUME NEW list, InOrder(list), NEW a \in Int, NEW b \in Int
    PROVE  Since(Since(list, a), b) = Since(list, Most(a, b))
  <1>1. list \in Seq(Rows) /\ Len(list) \in Nat /\ DOMAIN list = 1 .. Len(list)
    BY DEF InOrder
  <1>2. \A i \in 1 .. Len(list) : list[i].ts \in Int
    <2>1. \A i \in 1 .. Len(list) : list[i] \in Rows
      BY <1>1
    <2>2. QED
      BY <2>1 DEF Rows
  <1>3. PICK d \in 0 .. Len(list) : Splits(list, a, d)
    BY SplitExists
  <1>4. Since(list, a) = SubSeq(list, d + 1, Len(list))
    BY <1>1, <1>3, SinceSplit
  <1> DEFINE tail == SubSeq(list, d + 1, Len(list))
  <1>5. CASE a <= b
    <2>1. Most(a, b) = b
      BY <1>5 DEF Most
    <2>2. \A i \in 1 .. d : i \in 1 .. Len(list) /\ list[i].ts < a
      BY <1>1, <1>3 DEF Splits
    <2>3. \A i \in 1 .. d : list[i].ts < b
      BY <1>2, <1>5, <2>2
    <2>4. QED
      BY <1>4, <2>1, <2>3, SinceOfTail
  <1>6. CASE b < a
    <2>1. Most(a, b) = a
      BY <1>6 DEF Most
    <2>2. /\ tail \in Seq(Rows) /\ Len(tail) = Len(list) - d
          /\ \A i \in 1 .. Len(list) - d : tail[i] = list[i + d]
      BY <1>1, TailIs
    <2> HIDE DEF tail
    <2>3. ASSUME NEW i \in 1 .. Len(tail) PROVE tail[i].ts >= b
      <3>1. i + d \in d + 1 .. Len(list) /\ i + d \in 1 .. Len(list) /\ i \in 1 .. Len(list) - d
        BY <1>1, <2>2, <2>3
      <3>2. tail[i] = list[i + d] /\ list[i + d].ts >= a /\ list[i + d].ts \in Int
        BY <1>2, <1>3, <2>2, <3>1 DEF Splits
      <3>3. QED
        BY <1>6, <3>2
    <2>4. Len(tail) \in Nat /\ 0 \in 0 .. Len(tail) /\ Splits(tail, b, 0)
      BY <1>1, <2>2, <2>3 DEF Splits
    <2>5. Since(tail, b) = SubSeq(tail, 0 + 1, Len(tail))
      BY <2>2, <2>4, SinceSplit
    <2>6. SubSeq(tail, 0 + 1, Len(tail)) = tail
      BY <2>2
    <2>7. QED
      BY <1>4, <2>1, <2>5, <2>6 DEF tail
  <1>7. QED
    BY <1>5, <1>6

LEMMA SinceInOrder ==
    ASSUME NEW list, InOrder(list), NEW c \in Int
    PROVE  InOrder(Since(list, c))
  <1>1. list \in Seq(Rows)
    BY DEF InOrder
  <1>2. PICK d \in 0 .. Len(list) : Splits(list, c, d)
    BY SplitExists
  <1>3. QED
    BY <1>1, <1>2, SinceSplit, TailInOrder

\* A new row stays whatever is cut off before it.
LEMMA SinceAppend ==
    ASSUME NEW list, InOrder(list), NEW r \in Rows, NEW c \in Int, c <= r.ts
    PROVE  Append(Since(list, c), r) = Since(Append(list, r), c)
  <1> DEFINE n == Len(list)
             more == Append(list, r)
  <1>1. list \in Seq(Rows) /\ n \in Nat /\ DOMAIN list = 1 .. n
    BY DEF InOrder
  <1>2. PICK d \in 0 .. n : Splits(list, c, d)
    BY SplitExists
  <1>3. Since(list, c) = SubSeq(list, d + 1, n)
    BY <1>1, <1>2, SinceSplit
  <1>4. /\ more \in Seq(Rows) /\ Len(more) = n + 1 /\ more[n + 1] = r
        /\ \A i \in 1 .. n : more[i] = list[i]
    BY <1>1
  <1> HIDE DEF more, n
  <1>5. d \in 0 .. Len(more) /\ Splits(more, c, d)
    <2>1. \A i \in 1 .. d : i \in 1 .. n /\ list[i].ts < c
      BY <1>1, <1>2 DEF Splits
    <2>2. ASSUME NEW i \in d + 1 .. n + 1 PROVE more[i].ts >= c
      <3>1. CASE i = n + 1
        BY <1>4, <3>1
      <3>2. CASE i # n + 1
        <4>1. i \in d + 1 .. n /\ i \in 1 .. n
          BY <1>1, <3>2
        <4>2. list[i].ts >= c
          BY <1>2, <4>1 DEF Splits, n
        <4>3. QED
          BY <1>4, <4>1, <4>2
      <3>3. QED
        BY <3>1, <3>2
    <2>3. d \in 0 .. Len(more)
      BY <1>1, <1>4
    <2>4. QED
      BY <1>4, <2>1, <2>2, <2>3 DEF Splits
  <1>6. Since(more, c) = SubSeq(more, d + 1, Len(more))
    BY <1>4, <1>5, SinceSplit
  <1> DEFINE tail == SubSeq(list, d + 1, n)
             a == Append(tail, r)
             b == SubSeq(more, d + 1, Len(more))
  <1>7. /\ tail \in Seq(Rows) /\ Len(tail) = n - d
        /\ \A i \in 1 .. n - d : tail[i] = list[i + d]
    BY <1>1, TailIs DEF n
  <1>8. /\ b \in Seq(Rows) /\ Len(b) = Len(more) - d
        /\ \A i \in 1 .. Len(more) - d : b[i] = more[i + d]
    <2> HIDE DEF b
    <2>1. QED
      BY <1>4, <1>5, TailIs, Zenon DEF b
  <1> HIDE DEF tail
  <1>9. /\ a \in Seq(Rows) /\ Len(a) = n - d + 1 /\ a[n - d + 1] = r
        /\ \A i \in 1 .. n - d : a[i] = tail[i]
    BY <1>7
  <1> HIDE DEF a, b
  <1>10. Len(b) = n - d + 1 /\ n - d \in Nat
    BY <1>1, <1>4, <1>8
  <1>11. ASSUME NEW i \in 1 .. n - d + 1 PROVE a[i] = b[i]
    <2>1. i \in 1 .. Len(more) - d /\ b[i] = more[i + d]
      BY <1>1, <1>4, <1>8, <1>11
    <2>2. CASE i = n - d + 1
      <3>1. i + d = n + 1
        BY <1>1, <2>2
      <3>2. QED
        BY <1>4, <1>9, <2>1, <2>2, <3>1
    <2>3. CASE i \in 1 .. n - d
      <3>1. i + d \in 1 .. n
        BY <1>1, <2>3
      <3>2. QED
        BY <1>4, <1>7, <1>9, <2>1, <2>3, <3>1
    <2>4. QED
      BY <1>10, <2>2, <2>3
  <1>12. a = [i \in 1 .. n - d + 1 |-> a[i]] /\ b = [i \in 1 .. n - d + 1 |-> b[i]]
    BY <1>8, <1>9, <1>10
  <1>13. a = b
    BY <1>11, <1>12
  <1>14. QED
    BY <1>3, <1>6, <1>13 DEF a, b, tail, more

-----------------------------------------------------------------------------
\* The table is what was written, from the latest cutoff on.
TableKept == rows = Since(taken, purged)

HistInv ==
    /\ now \in 0 .. Horizon /\ reading \in Readings /\ missed \in 0 .. MaxMissed
    /\ sincePurge \in 0 .. PurgeEvery /\ purged \in 0 .. now
    /\ InOrder(taken) /\ \A i \in DOMAIN taken : taken[i].ts < now
    /\ TableKept /\ OnlyExpired

LEMMA HistoryStarts == HistoryInit => HistInv
  <1> SUFFICES ASSUME HistoryInit PROVE HistInv
    OBVIOUS
  <1>1. /\ now = 0 /\ reading \in Readings /\ rows = <<>> /\ taken = <<>>
        /\ sincePurge = PurgeEvery /\ missed = 0 /\ purged = 0
    BY DEF HistoryInit
  <1>2. InOrder(taken) /\ \A i \in DOMAIN taken : taken[i].ts < now
    BY <1>1 DEF InOrder
  <1>3. TableKept
    <2>1. taken \in Seq(Rows) /\ 0 \in 0 .. Len(taken) /\ Splits(taken, 0, 0)
      BY <1>1 DEF Splits
    <2>2. Since(taken, 0) = SubSeq(taken, 0 + 1, Len(taken))
      BY <2>1, SinceSplit
    <2>3. QED
      BY <1>1, <2>2 DEF TableKept
  <1>4. QED
    BY <1>1, <1>2, <1>3, HistoryParameters DEF HistInv, OnlyExpired

LEMMA RowIs ==
    ASSUME HistInv
    PROVE  Row \in Rows /\ Row.ts = now /\ now \in Nat
  <1>1. reading.pv \in Nat /\ reading.house \in Nat /\ reading.grid \in Int
        /\ reading.price \in Int \cup {NoPrice} /\ now \in Nat
    BY HistoryParameters DEF HistInv
  <1>2. QED
    BY <1>1 DEF Row, Rows

LEMMA AppendInOrder ==
    ASSUME NEW list, InOrder(list), NEW r \in Rows, \A i \in DOMAIN list : list[i].ts < r.ts
    PROVE  InOrder(Append(list, r))
  <1>1. list \in Seq(Rows) /\ Len(list) \in Nat /\ DOMAIN list = 1 .. Len(list)
    BY DEF InOrder
  <1>2. /\ Append(list, r) \in Seq(Rows) /\ DOMAIN Append(list, r) = 1 .. Len(list) + 1
        /\ Append(list, r)[Len(list) + 1] = r
        /\ \A i \in 1 .. Len(list) : Append(list, r)[i] = list[i]
    BY <1>1
  <1> DEFINE new == Append(list, r)
  <1> HIDE DEF new
  <1>3. ASSUME NEW i \in 1 .. Len(list) + 1, NEW j \in 1 .. Len(list) + 1, i < j
        PROVE  new[i].ts < new[j].ts
    <2>1. i \in 1 .. Len(list)
      BY <1>1, <1>3
    <2>2. CASE j = Len(list) + 1
      BY <1>1, <1>2, <2>1, <2>2 DEF new
    <2>3. CASE j \in 1 .. Len(list)
      BY <1>1, <1>2, <1>3, <2>1, <2>3 DEF new, InOrder
    <2>4. QED
      BY <1>1, <2>2, <2>3
  <1>4. QED
    BY <1>2, <1>3 DEF InOrder, new

\* A purge moves the cutoff, never backwards and never past the present.
LEMMA PurgeKeeps ==
    ASSUME HistInv, NEW all, InOrder(all), Purge(Since(all, purged))
    PROVE  /\ purged' \in 0 .. now /\ sincePurge' \in 0 .. PurgeEvery
           /\ rows' = Since(all, purged')
           /\ purged' = 0 \/ \E days \in Retentions : purged' <= now - days
  <1>1. now \in Nat /\ purged \in 0 .. now /\ PurgeEvery \in Nat /\ sincePurge \in 0 .. PurgeEvery
    BY HistoryParameters DEF HistInv
  <1> DEFINE list == Since(all, purged)
  <1>2. \/ sincePurge < PurgeEvery /\ sincePurge' = sincePurge + 1 /\ rows' = list /\ purged' = purged
        \/ /\ sincePurge' = 0
           /\ \/ \E days \in Retentions :
                    rows' = Since(list, now - days) /\ purged' = Most(purged, now - days)
              \/ rows' = list /\ purged' = purged
    BY DEF Purge, Purged
  <1>3. sincePurge' \in 0 .. PurgeEvery
    BY <1>1, <1>2
  <1>4. CASE rows' = list /\ purged' = purged
    BY <1>1, <1>3, <1>4 DEF HistInv, OnlyExpired
  <1>5. ASSUME NEW days \in Retentions,
               rows' = Since(list, now - days), purged' = Most(purged, now - days)
        PROVE  /\ purged' \in 0 .. now /\ rows' = Since(all, purged')
               /\ \E some \in Retentions : purged' = 0 \/ purged' <= now - some
    <2>1. days \in Nat
      BY HistoryParameters
    <2>2. purged \in Int /\ now - days \in Int /\ now - days <= now
      BY <1>1, <2>1
    <2>3. Since(list, now - days) = Since(all, Most(purged, now - days))
      BY <2>2, SinceSince
    <2>4. purged' \in 0 .. now
      BY <1>1, <1>5, <2>2 DEF Most
    <2>5. CASE Most(purged, now - days) = now - days
      BY <1>5, <2>2, <2>3, <2>4, <2>5
    <2>6. CASE Most(purged, now - days) = purged
      <3>1. purged = 0 \/ \E some \in Retentions : purged <= now - some
        BY DEF HistInv, OnlyExpired
      <3>2. QED
        BY <1>5, <2>3, <2>4, <2>6, <3>1
    <2>7. QED
      BY <2>5, <2>6 DEF Most
  <1>6. QED
    BY <1>2, <1>3, <1>4, <1>5

LEMMA ExpiredStill ==
    ASSUME now \in Nat, now' = now + 1, purged' \in Nat,
           purged' = 0 \/ \E days \in Retentions : purged' <= now - days
    PROVE  OnlyExpired'
  <1>1. CASE purged' = 0
    BY <1>1 DEF OnlyExpired
  <1>2. ASSUME NEW days \in Retentions, purged' <= now - days PROVE OnlyExpired'
    <2>1. days \in Nat
      BY HistoryParameters
    <2>2. purged' <= now' - days
      BY <1>2, <2>1
    <2>3. QED
      BY <2>2 DEF OnlyExpired
  <1>3. QED
    BY <1>1, <1>2

LEMMA TimeGoes ==
    ASSUME HistInv, TimePasses
    PROVE  now' \in 0 .. Horizon /\ now' = now + 1 /\ now \in Nat /\ reading' \in Readings
  BY HistoryParameters DEF HistInv, TimePasses

LEMMA OlderStill ==
    ASSUME HistInv, now' = now + 1
    PROVE  \A i \in DOMAIN taken : taken[i].ts < now'
  <1>1. \A i \in DOMAIN taken : taken[i] \in Rows /\ taken[i].ts < now
    BY DEF HistInv, InOrder
  <1>2. \A i \in DOMAIN taken : taken[i].ts \in Nat
    BY <1>1 DEF Rows
  <1>3. now \in Nat
    BY DEF HistInv
  <1>4. QED
    BY <1>1, <1>2, <1>3

LEMMA RecordKeeps == HistInv /\ Record => HistInv'
  <1> SUFFICES ASSUME HistInv, Record PROVE HistInv'
    OBVIOUS
  <1>1. TimePasses /\ taken' = Append(taken, Row) /\ missed' = missed /\ Purge(Append(rows, Row))
    BY DEF Record
  <1>2. Row \in Rows /\ Row.ts = now /\ purged \in Int /\ purged <= now
    BY RowIs DEF HistInv
  <1>3. InOrder(taken')
    BY <1>1, <1>2, AppendInOrder DEF HistInv
  <1>4. \A i \in DOMAIN taken' : taken'[i].ts < now'
    <2>1. taken \in Seq(Rows) /\ Len(taken) \in Nat /\ DOMAIN taken = 1 .. Len(taken)
      BY DEF HistInv, InOrder
    <2>2. /\ DOMAIN taken' = 1 .. Len(taken) + 1 /\ taken'[Len(taken) + 1] = Row
          /\ \A i \in 1 .. Len(taken) : taken'[i] = taken[i]
      BY <1>1, <1>2, <2>1
    <2>3. \A i \in 1 .. Len(taken) : taken[i].ts < now'
      BY <1>1, <2>1, TimeGoes, OlderStill
    <2>4. Row.ts < now'
      BY <1>1, <1>2, TimeGoes
    <2>5. \A i \in 1 .. Len(taken) + 1 : i = Len(taken) + 1 \/ i \in 1 .. Len(taken)
      BY <2>1
    <2>6. QED
      BY <2>2, <2>3, <2>4, <2>5
  <1>5. Append(rows, Row) = Since(taken', purged)
    BY <1>1, <1>2, SinceAppend DEF HistInv, TableKept
  <1>6. /\ purged' \in 0 .. now /\ sincePurge' \in 0 .. PurgeEvery /\ rows' = Since(taken', purged')
        /\ purged' = 0 \/ \E days \in Retentions : purged' <= now - days
    BY <1>1, <1>3, <1>5, PurgeKeeps
  <1>7. purged' \in 0 .. now' /\ OnlyExpired'
    BY <1>1, <1>6, TimeGoes, ExpiredStill
  <1>8. QED
    BY <1>1, <1>3, <1>4, <1>6, <1>7, TimeGoes DEF HistInv, TableKept

LEMMA DropKeeps == HistInv /\ Drop => HistInv'
  <1> SUFFICES ASSUME HistInv, Drop PROVE HistInv'
    OBVIOUS
  <1>1. /\ TimePasses /\ taken' = taken /\ Purge(rows)
        /\ missed < MaxMissed /\ missed' = missed + 1
    BY DEF Drop
  <1>2. InOrder(taken') /\ rows = Since(taken', purged)
    BY <1>1 DEF HistInv, TableKept
  <1>3. /\ purged' \in 0 .. now /\ sincePurge' \in 0 .. PurgeEvery /\ rows' = Since(taken', purged')
        /\ purged' = 0 \/ \E days \in Retentions : purged' <= now - days
    BY <1>1, <1>2, PurgeKeeps
  <1>4. purged' \in 0 .. now' /\ OnlyExpired'
    BY <1>1, <1>3, TimeGoes, ExpiredStill
  <1>5. missed' \in 0 .. MaxMissed
    BY <1>1, HistoryParameters DEF HistInv
  <1>6. \A i \in DOMAIN taken' : taken'[i].ts < now'
    BY <1>1, TimeGoes, OlderStill
  <1>7. QED
    BY <1>1, <1>2, <1>3, <1>4, <1>5, <1>6, TimeGoes DEF HistInv, TableKept

LEMMA MissKeeps == HistInv /\ Miss => HistInv'
  <1> SUFFICES ASSUME HistInv, Miss PROVE HistInv'
    OBVIOUS
  <1>1. /\ TimePasses /\ missed < MaxMissed /\ missed' = missed + 1
        /\ sincePurge' \in {Least(sincePurge + 1, PurgeEvery), PurgeEvery}
        /\ rows' = rows /\ taken' = taken /\ purged' = purged
    BY DEF Miss
  <1>2. sincePurge' \in 0 .. PurgeEvery /\ missed' \in 0 .. MaxMissed
    BY <1>1, HistoryParameters DEF HistInv, Least
  <1>3. purged' \in 0 .. now' /\ OnlyExpired'
    <2>1. purged' \in 0 .. now /\ (purged' = 0 \/ \E days \in Retentions : purged' <= now - days)
      BY <1>1 DEF HistInv, OnlyExpired
    <2>2. QED
      BY <1>1, <2>1, TimeGoes, ExpiredStill
  <1>4. \A i \in DOMAIN taken' : taken'[i].ts < now'
    BY <1>1, TimeGoes, OlderStill
  <1>5. QED
    BY <1>1, <1>2, <1>3, <1>4, TimeGoes DEF HistInv, TableKept

LEMMA HistoryStep == HistInv /\ [HistoryNext]_historyVars => HistInv'
  <1>1. HistInv /\ UNCHANGED historyVars => HistInv'
    BY DEF historyVars, HistInv, TableKept, OnlyExpired, InOrder
  <1>2. QED
    BY <1>1, RecordKeeps, DropKeeps, MissKeeps DEF HistoryNext, Ask

\* Rows are written in order, and the table holds all of them from the latest cutoff on.
THEOREM HistInvHolds == HistorySpec => []HistInv
  <1>1. QED
    BY HistoryStarts, HistoryStep, PTL DEF HistorySpec

\* Types of the recorder, and the order of the table (record_state, purge_old).
THEOREM HistoryTypeCorrect == HistorySpec => []HistoryTypeOK
  <1>1. HistInv => HistoryTypeOK
    <2> SUFFICES ASSUME HistInv PROVE HistoryTypeOK
      OBVIOUS
    <2>1. purged \in Int
      BY DEF HistInv
    <2>2. InOrder(rows)
      BY <2>1, SinceInOrder DEF HistInv, TableKept
    <2>3. QED
      BY <2>2 DEF HistInv, HistoryTypeOK, InOrder, Rows
  <1>2. QED
    BY <1>1, HistInvHolds, PTL

-----------------------------------------------------------------------------
(***************************************************************************)
(* The spans, and what is summed over them.                                *)
(***************************************************************************)
SpanRecords ==
    [ts : Nat, dt : {1, 2}, pv : Nat, house : Nat, import : Nat, export : Nat, price : Int]

LEMMA TimesNatural == ASSUME NEW a \in Nat, NEW b \in Nat PROVE a * b \in Nat
  OBVIOUS

LEMMA MostZero == ASSUME NEW m \in Int PROVE Most(m, 0) = IF m >= 0 THEN m ELSE 0
  BY DEF Most

LEMMA SpansAre ==
    ASSUME NEW list, InOrder(list), NEW n, n = Most(Len(list) - 1, 0)
    PROVE  /\ Spans(list) \in Seq(SpanRecords) /\ Len(Spans(list)) = n /\ n \in Nat
           /\ DOMAIN Spans(list) = 1 .. n /\ 1 .. n = 1 .. Len(list) - 1
           /\ \A i \in 1 .. n : /\ i \in DOMAIN list /\ i + 1 \in DOMAIN list
                                /\ Spans(list)[i] = Span(list[i], Gap(list, i))
                                /\ Spans(list)[i] \in SpanRecords
                                /\ Gap(list, i) = IF list[i + 1].ts > list[i].ts + 1 THEN 2 ELSE 1
           /\ \A i, j \in 1 .. n : i <= j => Spans(list)[i].ts <= Spans(list)[j].ts
  <1>1. /\ list \in Seq(Rows) /\ Len(list) \in Nat /\ DOMAIN list = 1 .. Len(list)
        /\ \A i \in 1 .. Len(list) : list[i] \in Rows
    BY DEF InOrder
  <1>2. n \in Nat /\ 1 .. n = 1 .. Len(list) - 1
    <2>1. Len(list) - 1 \in Int /\ Len(list) \in Nat
      BY <1>1
    <2>2. n = IF Len(list) - 1 >= 0 THEN Len(list) - 1 ELSE 0
      BY <2>1, MostZero
    <2>3. QED
      BY <2>1, <2>2
  <1>3. ASSUME NEW i \in 1 .. n
        PROVE  /\ i \in DOMAIN list /\ i + 1 \in DOMAIN list
               /\ Gap(list, i) = IF list[i + 1].ts > list[i].ts + 1 THEN 2 ELSE 1
               /\ Span(list[i], Gap(list, i)) \in SpanRecords
    <2>1. i \in 1 .. Len(list) /\ i + 1 \in 1 .. Len(list) /\ i < i + 1
      BY <1>1, <1>2
    <2>2. list[i] \in Rows /\ list[i + 1] \in Rows /\ list[i].ts < list[i + 1].ts
      BY <1>1, <2>1 DEF InOrder
    <2>3. list[i].ts \in Nat /\ list[i + 1].ts \in Nat
      BY <2>2 DEF Rows
    <2>4. Gap(list, i) = IF list[i + 1].ts > list[i].ts + 1 THEN 2 ELSE 1
      BY <2>2, <2>3 DEF Gap, Least, MaxDt
    <2>5. ASSUME NEW r \in Rows, NEW dt \in {1, 2} PROVE Span(r, dt) \in SpanRecords
      <3>1. /\ r.ts \in Nat /\ r.pv \in Nat /\ r.house \in Nat
            /\ Most(r.grid, 0) \in Nat /\ Most(-r.grid, 0) \in Nat /\ dt \in Nat
            /\ (IF r.price = NoPrice THEN CurPrice ELSE r.price) \in Int
        BY HistoryParameters DEF Rows, Most
      <3>2. /\ r.pv * dt \in Nat /\ r.house * dt \in Nat
            /\ Most(r.grid, 0) * dt \in Nat /\ Most(-r.grid, 0) * dt \in Nat
        <4> HIDE DEF Most
        <4>1. QED
          BY <3>1, TimesNatural
      <3>3. QED
        BY <3>1, <3>2 DEF Span, SpanRecords
    <2>6. QED
      BY <1>1, <2>1, <2>2, <2>4, <2>5
  <1>4. Spans(list) = [i \in 1 .. n |-> Span(list[i], Gap(list, i))]
    BY DEF Spans
  <1>5. Spans(list) \in Seq(SpanRecords) /\ Len(Spans(list)) = n /\ DOMAIN Spans(list) = 1 .. n
    BY <1>2, <1>3, <1>4
  <1>6. \A i \in 1 .. n : Spans(list)[i] = Span(list[i], Gap(list, i)) /\ Spans(list)[i] \in SpanRecords
    BY <1>3, <1>4
  <1>7. ASSUME NEW i \in 1 .. n, NEW j \in 1 .. n, i <= j
        PROVE  Spans(list)[i].ts <= Spans(list)[j].ts
    <2>1. Spans(list)[i].ts = list[i].ts /\ Spans(list)[j].ts = list[j].ts
      <3>1. \A r, dt : Span(r, dt).ts = r.ts
        BY DEF Span
      <3>2. QED
        BY <1>6, <3>1
    <2>2. i \in DOMAIN list /\ j \in DOMAIN list /\ list[i].ts \in Int /\ list[j].ts \in Int
      <3>1. i \in DOMAIN list /\ j \in DOMAIN list
        BY <1>3
      <3>2. list[i] \in Rows /\ list[j] \in Rows
        BY <1>1, <3>1
      <3>3. QED
        BY <3>1, <3>2 DEF Rows
    <2>3. i < j => list[i].ts < list[j].ts
      BY <2>2 DEF InOrder
    <2>4. i < j \/ i = j
      BY <1>2, <1>7
    <2>5. QED
      BY <2>1, <2>2, <2>3, <2>4
  <1>8. QED
    BY <1>2, <1>3, <1>5, <1>6, <1>7

LEMMA SumIsTotal == ASSUME NEW f PROVE SumFunction(f) = Total(f, DOMAIN f)
  BY DEF SumFunction, SumFunctionOnSet, Total

LEMMA TotalIsType ==
    ASSUME NEW n \in Nat, NEW f, \A i \in 1 .. n : f[i] \in Int
    PROVE  Total(f, 1 .. n) \in Int
  BY IntervalSize, TotalType

\* Sums of larger summands are larger.
LEMMA TotalMonotone ==
    ASSUME NEW n \in Nat, NEW f, NEW g, \A i \in 1 .. n : f[i] \in Int /\ g[i] \in Int /\ f[i] <= g[i]
    PROVE  Total(f, 1 .. n) <= Total(g, 1 .. n)
  <1> DEFINE Smaller(k) == Total(f, 1 .. k) <= Total(g, 1 .. k)
             smaller == {k \in Nat : k <= n => Smaller(k)}
  <1>1. 0 \in smaller
    <2>1. 1 .. 0 = {}
      OBVIOUS
    <2>2. Smaller(0)
      BY <2>1, TotalEmpty
    <2>3. QED
      BY <2>2
  <1>2. ASSUME NEW k \in smaller PROVE k + 1 \in smaller
    <2> SUFFICES ASSUME k + 1 <= n PROVE Smaller(k + 1)
      OBVIOUS
    <2>1. k \in Nat /\ Smaller(k) /\ (k + 1) - 1 = k /\ 1 <= k + 1
      OBVIOUS
    <2>2. \A i \in 1 .. k + 1 : i \in 1 .. n
      BY <2>1
    <2>3. \A i \in 1 .. k + 1 : f[i] \in Int /\ g[i] \in Int
      BY <2>2
    <2>4. /\ Total(f, 1 .. k + 1) = Total(f, 1 .. k) + f[k + 1]
          /\ Total(g, 1 .. k + 1) = Total(g, 1 .. k) + g[k + 1]
      BY <2>1, <2>3, TotalInterval
    <2>5. Total(f, 1 .. k) \in Int /\ Total(g, 1 .. k) \in Int
      BY <2>1, <2>3, TotalIsType
    <2>6. k + 1 \in 1 .. n /\ f[k + 1] \in Int /\ g[k + 1] \in Int /\ f[k + 1] <= g[k + 1]
      BY <2>1
    <2>7. QED
      BY <2>1, <2>4, <2>5, <2>6
  <1>3. \A k \in Nat : k \in smaller
    <2>1. smaller \in SUBSET Nat
      OBVIOUS
    <2> HIDE DEF smaller
    <2>2. QED
      BY <1>1, <1>2, <2>1, Induction
  <1>4. QED
    BY <1>3

Steps(f, n, base, G) == \A k \in 0 .. n : f[k] = IF k = 0 THEN base ELSE G[<<k, f[k - 1]>>]

\* A recursion that stays within a set describes a function.
LEMMA RecursionExists ==
    ASSUME NEW n \in Nat, NEW V, NEW base \in V, NEW G \in [(1 .. n) \X V -> V]
    PROVE  \E f \in [0 .. n -> V] : Steps(f, n, base, G)
  <1> DEFINE Found(m) == \E f \in [0 .. m -> V] :
                            \A k \in 0 .. m : f[k] = IF k = 0 THEN base ELSE G[<<k, f[k - 1]>>]
             found == {m \in Nat : m <= n => Found(m)}
  <1>1. 0 \in found
    <2> DEFINE f == [k \in 0 .. 0 |-> base]
    <2>1. f \in [0 .. 0 -> V] /\ \A k \in 0 .. 0 : k = 0 /\ f[k] = base
      OBVIOUS
    <2> HIDE DEF f
    <2>2. Found(0)
      BY <2>1
    <2>3. QED
      BY <2>2
  <1>2. ASSUME NEW m \in Nat, m + 1 <= n, Found(m) PROVE Found(m + 1)
    <2>1. PICK g \in [0 .. m -> V] :
             \A k \in 0 .. m : g[k] = IF k = 0 THEN base ELSE G[<<k, g[k - 1]>>]
      BY <1>2
    <2> DEFINE f == [k \in 0 .. m + 1 |-> IF k <= m THEN g[k] ELSE G[<<m + 1, g[m]>>]]
    <2>2. m + 1 \in 1 .. n /\ m \in 0 .. m
      BY <1>2
    <2>3. G[<<m + 1, g[m]>>] \in V
      BY <2>1, <2>2
    <2>4. f \in [0 .. m + 1 -> V]
      BY <2>1, <2>3
    <2>5. \A k \in 0 .. m : f[k] = g[k]
      OBVIOUS
    <2>6. f[m + 1] = G[<<m + 1, g[m]>>]
      OBVIOUS
    <2> HIDE DEF f
    <2>7. ASSUME NEW k \in 0 .. m + 1 PROVE f[k] = IF k = 0 THEN base ELSE G[<<k, f[k - 1]>>]
      <3>1. CASE k <= m
        <4>1. k \in 0 .. m /\ (k # 0 => k - 1 \in 0 .. m)
          BY <3>1
        <4>2. QED
          BY <2>1, <2>5, <4>1
      <3>2. CASE k = m + 1
        <4>1. k # 0 /\ k - 1 = m
          BY <3>2
        <4>2. QED
          BY <2>2, <2>5, <2>6, <3>2, <4>1
      <3>3. QED
        BY <3>1, <3>2
    <2>8. QED
      BY <2>4, <2>7
  <1>3. \A m \in Nat : m \in found
    <2>1. found \in SUBSET Nat
      OBVIOUS
    <2> HIDE DEF Found
    <2>2. \A m \in found : m + 1 \in found
      BY <1>2
    <2> HIDE DEF found
    <2>3. QED
      BY <1>1, <2>1, <2>2, Induction
  <1>4. Found(n)
    <2> HIDE DEF Found
    <2>1. QED
      BY <1>3
  <1>5. QED
    BY <1>4 DEF Steps

\* It describes only one.
LEMMA RecursionUnique ==
    ASSUME NEW n \in Nat, NEW f, NEW g, f[0] = g[0],
           \A k \in 1 .. n : f[k - 1] = g[k - 1] => f[k] = g[k]
    PROVE  \A k \in 0 .. n : f[k] = g[k]
  <1> DEFINE Agree(k) == f[k] = g[k]
             agree == {k \in Nat : k <= n => Agree(k)}
  <1>1. 0 \in agree
    OBVIOUS
  <1>2. ASSUME NEW k \in Nat, k + 1 <= n, Agree(k) PROVE Agree(k + 1)
    <2>1. k + 1 \in 1 .. n /\ (k + 1) - 1 = k
      BY <1>2
    <2>2. QED
      BY <1>2, <2>1
  <1>3. \A k \in Nat : k \in agree
    <2> HIDE DEF Agree
    <2>1. agree \in SUBSET Nat /\ \A k \in agree : k + 1 \in agree
      BY <1>2
    <2> HIDE DEF agree
    <2>2. QED
      BY <1>1, <2>1, Induction
  <1>4. \A k \in 0 .. n : Agree(k)
    <2> HIDE DEF Agree
    <2>1. QED
      BY <1>3
  <1>5. QED
    BY <1>4

-----------------------------------------------------------------------------
(***************************************************************************)
(* What the page shows.                                                    *)
(***************************************************************************)
LEMMA SameRange ==
    ASSUME HistInv
    PROVE  /\ Since(rows, now - Shown) = Since(taken, Most(now - Shown, purged))
           /\ InOrder(Since(rows, now - Shown))
  <1>1. now - Shown \in Int /\ purged \in Int
    BY HistoryParameters DEF HistInv
  <1>2. InOrder(taken) /\ rows = Since(taken, purged)
    BY DEF HistInv, TableKept
  <1>3. Since(rows, now - Shown) = Since(taken, Most(purged, now - Shown))
    BY <1>1, <1>2, SinceSince
  <1>4. Most(purged, now - Shown) = Most(now - Shown, purged)
    BY <1>1 DEF Most
  <1>5. InOrder(Since(rows, now - Shown))
    BY <1>1, <1>2, SinceInOrder
  <1>6. QED
    BY <1>3, <1>4, <1>5

LEMMA ActualCounts == ASSUME HistInv PROVE ActualExact(Savings)
  <1> DEFINE range == Since(taken, Most(now - Shown, purged))
             spans == Spans(range)
             n == Most(Len(range) - 1, 0)
             Counted(i) == IF range[i + 1].ts > range[i].ts + 1 THEN 2 ELSE 1
             CostOf(r) == Most(r.grid, 0) * (IF r.price = NoPrice THEN CurPrice ELSE r.price)
                          - Most(-r.grid, 0) * Feed
  <1>1. Savings.actual = ActualCost(spans)
    BY SameRange DEF Savings
  <1>2. InOrder(range)
    BY SameRange
  <1>3. /\ DOMAIN spans = 1 .. n /\ 1 .. n = 1 .. Len(range) - 1
        /\ \A i \in 1 .. n : /\ i \in DOMAIN range /\ spans[i] = Span(range[i], Gap(range, i))
                             /\ Gap(range, i) = Counted(i)
    <2> HIDE DEF range
    <2>1. QED
      BY <1>2, SpansAre
  <1>4. ASSUME NEW i \in 1 .. n
        PROVE  spans[i].import * spans[i].price - spans[i].export * Feed = Counted(i) * CostOf(range[i])
    <2>1. range[i] \in Rows
      BY <1>2, <1>3 DEF InOrder
    <2>2. PICK r \in Rows : r = range[i]
      BY <2>1
    <2>3. PICK dt \in {1, 2} : dt = Counted(i)
      OBVIOUS
    <2>4. spans[i] = Span(r, dt)
      BY <1>3, <2>2, <2>3
    <2>5. PICK a \in Int, b \in Int, p \in Int :
             /\ a = Most(r.grid, 0) /\ b = Most(-r.grid, 0)
             /\ p = IF r.price = NoPrice THEN CurPrice ELSE r.price
      BY HistoryParameters DEF Rows, Most
    <2>6. spans[i].import = a * dt /\ spans[i].export = b * dt /\ spans[i].price = p
      BY <2>4, <2>5 DEF Span
    <2>7. CostOf(r) = a * p - b * Feed
      BY <2>5
    <2> HIDE DEF CostOf, Counted, spans, range
    <2>8. Feed \in Int /\ (dt = 1 \/ dt = 2)
      BY HistoryParameters
    <2>9. (a * dt) * p - (b * dt) * Feed = dt * (a * p - b * Feed)
      BY <2>8
    <2>10. QED
      BY <2>2, <2>3, <2>6, <2>7, <2>9
  <1>5. [i \in DOMAIN spans |-> spans[i].import * spans[i].price - spans[i].export * Feed]
          = [i \in 1 .. Len(range) - 1 |-> Counted(i) * CostOf(range[i])]
    BY <1>3, <1>4
  <1>6. ActualCost(spans) = SumFunction([i \in 1 .. Len(range) - 1 |-> Counted(i) * CostOf(range[i])])
    <2> HIDE DEF spans, range, CostOf, Counted
    <2>1. QED
      BY <1>5 DEF ActualCost
  <1>7. QED
    BY <1>1, <1>6 DEF ActualExact

Counters == [day : Int, today : Int, total : Int, saved : Int]
Nothing == [day |-> -1, today |-> 0, total |-> 0, saved |-> 0]

LEMMA AbsorbType ==
    ASSUME NEW acc \in Counters, NEW s \in SpanRecords
    PROVE  Absorb(acc, s) \in Counters
  <1> DEFINE today == IF acc.day = s.ts \div Day THEN acc.today ELSE 0
             offered == Least(s.pv - SelfUsed(s), SinkPower * s.dt)
             taking == IF SinkDay > 0 THEN Least(offered, Most(0, SinkDay - today)) ELSE offered
  <1>1. /\ s.ts \in Nat /\ s.dt \in Nat /\ s.pv \in Nat /\ s.house \in Nat /\ s.price \in Int
        /\ acc.day \in Int /\ acc.today \in Int /\ acc.total \in Int /\ acc.saved \in Int
    BY DEF SpanRecords, Counters
  <1>2. SelfUsed(s) \in Int
    BY <1>1 DEF SelfUsed, Least
  <1>3. SinkPower * s.dt \in Int
    BY <1>1, HistoryParameters
  <1>4. offered \in Int
    BY <1>1, <1>2, <1>3 DEF Least
  <1>5. today \in Int
    BY <1>1
  <1>6. taking \in Int
    <2> HIDE DEF offered, today
    <2>1. QED
      BY <1>4, <1>5, HistoryParameters DEF Least, Most
  <1>7. s.ts \div Day \in Int
    BY <1>1, HistoryParameters
  <1>8. Absorb(acc, s) = [day |-> s.ts \div Day, today |-> today + taking, total |-> acc.total + taking,
                          saved |-> acc.saved + taking * (s.price - Feed)]
    BY DEF Absorb
  <1> HIDE DEF today, taking
  <1>9. acc.saved + taking * (s.price - Feed) \in Int
    BY <1>1, <1>6, HistoryParameters
  <1>10. QED
    BY <1>1, <1>5, <1>6, <1>7, <1>8, <1>9 DEF Counters

LEMMA SinkSteps ==
    ASSUME NEW spans \in Seq(SpanRecords)
    PROVE  \E f \in [0 .. Len(spans) -> Counters] :
              /\ f[0] = Nothing /\ Sink(spans) = f[Len(spans)]
              /\ \A k \in 1 .. Len(spans) : f[k] = Absorb(f[k - 1], spans[k])
  <1> DEFINE n == Len(spans)
             body(f) == [k \in 0 .. n |-> IF k = 0 THEN [day |-> -1, today |-> 0, total |-> 0, saved |-> 0]
                                          ELSE Absorb(f[k - 1], spans[k])]
             G == [x \in (1 .. n) \X Counters |-> Absorb(x[2], spans[x[1]])]
             sunk == CHOOSE f : f = body(f)
  <1>1. n \in Nat /\ \A k \in 1 .. n : spans[k] \in SpanRecords
    OBVIOUS
  <1>2. Nothing \in Counters
    BY DEF Nothing, Counters
  <1>3. G \in [(1 .. n) \X Counters -> Counters]
    BY <1>1, AbsorbType
  <1>4. PICK f \in [0 .. n -> Counters] : Steps(f, n, Nothing, G)
    <2> HIDE DEF n, G
    <2>1. n \in Nat
      BY <1>1
    <2>2. QED
      BY <1>2, <1>3, <2>1, RecursionExists, Zenon
  <1>5. f[0] = Nothing /\ \A k \in 1 .. n : f[k] = Absorb(f[k - 1], spans[k])
    <2>1. 0 \in 0 .. n
      BY <1>1
    <2>2. ASSUME NEW k \in 1 .. n PROVE f[k] = Absorb(f[k - 1], spans[k])
      <3>1. k - 1 \in 0 .. n /\ k \in 0 .. n /\ k # 0
        BY <1>1
      <3>2. f[k - 1] \in Counters /\ f[k] = G[<<k, f[k - 1]>>]
        BY <1>4, <3>1 DEF Steps
      <3>3. QED
        BY <3>2
    <2> HIDE DEF G
    <2>3. QED
      BY <1>4, <2>1, <2>2 DEF Steps
  <1>6. f = body(f)
    <2>1. \A k \in 0 .. n : k = 0 \/ k \in 1 .. n
      BY <1>1
    <2> HIDE DEF n
    <2>2. QED
      BY <1>5, <2>1 DEF Nothing
  <1>7. sunk = body(sunk)
    BY <1>6
  <1>8. Sink(spans) = sunk[n]
    BY DEF Sink
  <1>9. \A k \in 0 .. n : sunk[k] = f[k]
    <2> HIDE DEF sunk
    <2>1. sunk[0] = f[0]
      <3>1. 0 \in 0 .. n
        BY <1>1
      <3>2. QED
        BY <1>5, <1>7, <3>1 DEF Nothing
    <2>2. ASSUME NEW k \in 1 .. n, sunk[k - 1] = f[k - 1] PROVE sunk[k] = f[k]
      <3>1. k \in 0 .. n /\ k # 0
        BY <1>1
      <3>2. body(sunk)[k] = Absorb(sunk[k - 1], spans[k])
        BY <3>1
      <3> HIDE DEF body
      <3>3. QED
        BY <1>5, <1>7, <2>2, <3>2
    <2> HIDE DEF n
    <2>3. QED
      BY <1>1, <2>1, <2>2, RecursionUnique
  <1>10. QED
    BY <1>1, <1>4, <1>5, <1>8, <1>9

LEMMA DivIs ==
    ASSUME NEW a \in Int, NEW d \in Nat, d # 0
    PROVE  a \div d \in Int /\ d * (a \div d) <= a /\ a < d * (a \div d) + d
  OBVIOUS

LEMMA DivMonotone ==
    ASSUME NEW a \in Nat, NEW b \in Nat, NEW d \in Nat, d # 0, a <= b
    PROVE  a \div d \in Nat /\ b \div d \in Nat /\ a \div d <= b \div d
  <1>1. /\ a \div d \in Int /\ d * (a \div d) <= a /\ a < d * (a \div d) + d
        /\ b \div d \in Int /\ d * (b \div d) <= b /\ b < d * (b \div d) + d
    BY DivIs
  <1>2. a \div d \in Nat /\ b \div d \in Nat
    OBVIOUS
  <1>3. PICK p \in Nat, q \in Nat : p = a \div d /\ q = b \div d
    BY <1>2
  <1>4. d * p <= a /\ b < d * q + d
    BY <1>1, <1>3
  <1>5. CASE q + 1 <= p
    <2>1. d * (q + 1) <= d * p /\ d * (q + 1) = d * q + d /\ d * q \in Nat /\ d * p \in Nat
      BY <1>5, TimesMonotone
    <2>2. QED
      BY <1>4, <2>1
  <1>6. QED
    BY <1>2, <1>3, <1>5

\* What a sink takes of a span, it has room for.
LEMMA AbsorbIs ==
    ASSUME NEW acc \in Counters, NEW s \in SpanRecords, NEW today,
           today = IF acc.day = s.ts \div Day THEN acc.today ELSE 0
    PROVE  \E t \in Nat :
              /\ Absorb(acc, s) = [day |-> s.ts \div Day, today |-> today + t, total |-> acc.total + t,
                                   saved |-> acc.saved + t * (s.price - Feed)]
              /\ SinkDay > 0 /\ today <= SinkDay => today + t <= SinkDay
  <1> DEFINE offered == Least(s.pv - SelfUsed(s), SinkPower * s.dt)
             taking == IF SinkDay > 0 THEN Least(offered, Most(0, SinkDay - today)) ELSE offered
  <1>1. /\ s.dt \in Nat /\ s.pv \in Nat /\ s.house \in Nat /\ today \in Int
    BY DEF SpanRecords, Counters
  <1>2. s.pv - SelfUsed(s) \in Nat
    BY <1>1 DEF SelfUsed, Least
  <1>3. SinkPower * s.dt \in Nat
    BY <1>1, HistoryParameters
  <1>4. offered \in Nat
    BY <1>2, <1>3 DEF Least
  <1>5. taking \in Nat /\ (SinkDay > 0 /\ today <= SinkDay => today + taking <= SinkDay)
    <2> HIDE DEF offered
    <2>1. QED
      BY <1>1, <1>4, HistoryParameters DEF Least, Most
  <1>6. Absorb(acc, s) = [day |-> s.ts \div Day, today |-> today + taking, total |-> acc.total + taking,
                          saved |-> acc.saved + taking * (s.price - Feed)]
    BY DEF Absorb
  <1> HIDE DEF taking
  <1>7. QED
    BY <1>5, <1>6

Days(spans, k) == {spans[i].ts \div Day : i \in 1 .. k}

LEMMA DaysGrow ==
    ASSUME NEW spans \in Seq(SpanRecords), NEW k \in Nat, k + 1 <= Len(spans),
           \A i, j \in 1 .. Len(spans) : i <= j => spans[i].ts <= spans[j].ts,
           IsFiniteSet(Days(spans, k)), NEW e, e = spans[k + 1].ts \div Day
    PROVE  /\ Days(spans, k + 1) = Days(spans, k) \cup {e} /\ IsFiniteSet(Days(spans, k + 1))
           /\ k > 0 /\ spans[k].ts \div Day = e => Days(spans, k + 1) = Days(spans, k)
           /\ k = 0 \/ spans[k].ts \div Day # e =>
                 Cardinality(Days(spans, k + 1)) = Cardinality(Days(spans, k)) + 1
  <1>1. Len(spans) \in Nat /\ \A i \in 1 .. Len(spans) : spans[i] \in SpanRecords
    OBVIOUS
  <1>2. \A i \in 1 .. Len(spans) : spans[i].ts \in Nat
    BY <1>1 DEF SpanRecords
  <1>3. \A i \in 1 .. k + 1 : i = k + 1 \/ i \in 1 .. k
    OBVIOUS
  <1>4. Days(spans, k + 1) = Days(spans, k) \cup {e}
    <2>1. k + 1 \in 1 .. k + 1 /\ \A i \in 1 .. k : i \in 1 .. k + 1
      OBVIOUS
    <2> DEFINE at(i) == spans[i].ts \div Day
    <2>2. /\ Days(spans, k + 1) = {at(i) : i \in 1 .. k + 1}
          /\ Days(spans, k) = {at(i) : i \in 1 .. k} /\ e = at(k + 1)
      BY DEF Days
    <2> HIDE DEF at
    <2>3. {at(i) : i \in 1 .. k + 1} = {at(i) : i \in 1 .. k} \cup {at(k + 1)}
      BY <1>3, <2>1
    <2>4. QED
      BY <2>2, <2>3
  <1>5. IsFiniteSet(Days(spans, k + 1))
    <2>1. IsFiniteSet(Days(spans, k) \cup {e})
      BY FS_AddElement
    <2>2. QED
      BY <1>4, <2>1, Zenon
  <1>6. ASSUME k > 0, spans[k].ts \div Day = e PROVE e \in Days(spans, k)
    <2>1. k \in 1 .. k
      BY <1>6
    <2>2. QED
      BY <1>6, <2>1 DEF Days
  <1>7. ASSUME e \in Days(spans, k) PROVE k > 0 /\ spans[k].ts \div Day = e
    <2>1. PICK i \in 1 .. k : e = spans[i].ts \div Day
      BY <1>7 DEF Days
    <2>2. i \in 1 .. Len(spans) /\ k \in 1 .. Len(spans) /\ k + 1 \in 1 .. Len(spans)
          /\ i <= k /\ k <= k + 1
      BY <1>1
    <2>3. spans[i].ts <= spans[k].ts /\ spans[k].ts <= spans[k + 1].ts
      BY <2>2
    <2>4. PICK a \in Nat, b \in Nat, c \in Nat : a = spans[i].ts /\ b = spans[k].ts /\ c = spans[k + 1].ts
      BY <1>2, <2>2
    <2>5. a <= b /\ b <= c /\ Day \in Nat /\ Day # 0
      BY <2>3, <2>4, HistoryParameters
    <2>6. /\ a \div Day \in Nat /\ b \div Day \in Nat /\ c \div Day \in Nat
          /\ a \div Day <= b \div Day /\ b \div Day <= c \div Day
      BY <2>5, DivMonotone
    <2>7. e = a \div Day /\ e = c \div Day
      BY <2>1, <2>4
    <2>8. b \div Day = e
      BY <2>6, <2>7
    <2>9. QED
      BY <2>2, <2>4, <2>8
  <1>8. e \notin Days(spans, k) =>
           Cardinality(Days(spans, k + 1)) = Cardinality(Days(spans, k)) + 1
    <2>1. Cardinality(Days(spans, k) \cup {e})
            = IF e \in Days(spans, k) THEN Cardinality(Days(spans, k)) ELSE Cardinality(Days(spans, k)) + 1
      BY FS_AddElement
    <2>2. QED
      BY <1>4, <2>1, Zenon
  <1>9. e \in Days(spans, k) => Days(spans, k + 1) = Days(spans, k)
    BY <1>4, Zenon
  <1>10. k = 0 => ~(k > 0)
    OBVIOUS
  <1>11. QED
    BY <1>4, <1>5, <1>6, <1>7, <1>8, <1>9, <1>10, Zenon

\* The sink's storage is filled at most once a day, and what it takes is not sold.
LEMMA SinkFills ==
    ASSUME NEW spans \in Seq(SpanRecords),
           \A i, j \in 1 .. Len(spans) : i <= j => spans[i].ts <= spans[j].ts
    PROVE  /\ SinkDay > 0 => Sink(spans).total <= SinkDay * Cardinality(Days(spans, Len(spans)))
           /\ (\A i \in 1 .. Len(spans) : spans[i].price >= Feed) => Sink(spans).saved >= 0
  <1> DEFINE n == Len(spans)
             Full(k) == SinkDay * Cardinality(Days(spans, k))
  <1>1. n \in Nat /\ \A k \in 1 .. n : spans[k] \in SpanRecords
    OBVIOUS
  <1>2. PICK f \in [0 .. n -> Counters] :
           /\ f[0] = Nothing /\ Sink(spans) = f[n]
           /\ \A k \in 1 .. n : f[k] = Absorb(f[k - 1], spans[k])
    BY SinkSteps
  <1> DEFINE Fills(k) ==
                /\ IsFiniteSet(Days(spans, k)) /\ f[k].today >= 0 /\ f[k].today <= SinkDay
                /\ k = 0 => f[k] = Nothing
                /\ k > 0 => f[k].day = spans[k].ts \div Day /\ f[k].total + SinkDay <= Full(k) + f[k].today
             Gains(k) == f[k].saved >= 0
             fills == {k \in Nat : k <= n => Fills(k)}
             gains == {k \in Nat : k <= n => Gains(k)}
  <1>3. ASSUME NEW k \in Nat, k + 1 <= n
        PROVE  /\ f[k] \in Counters /\ f[k + 1] \in Counters /\ spans[k + 1] \in SpanRecords
               /\ f[k + 1] = Absorb(f[k], spans[k + 1])
    <2>1. k \in 0 .. n /\ k + 1 \in 0 .. n /\ k + 1 \in 1 .. n /\ (k + 1) - 1 = k
      BY <1>1, <1>3
    <2>2. QED
      BY <1>1, <1>2, <2>1
  <1>4. 0 \in fills /\ 0 \in gains
    <2>1. Days(spans, 0) = {}
      BY DEF Days
    <2>2. IsFiniteSet(Days(spans, 0))
      BY <2>1, FS_EmptySet
    <2>3. f[0].today = 0 /\ f[0].saved = 0 /\ SinkDay \in Nat
      BY <1>2, HistoryParameters DEF Nothing
    <2>4. QED
      BY <1>2, <2>2, <2>3
  <1>5. ASSUME SinkDay > 0, NEW k \in Nat, k + 1 <= n, Fills(k) PROVE Fills(k + 1)
    <2> DEFINE s == spans[k + 1]
               e == s.ts \div Day
               today == IF f[k].day = e THEN f[k].today ELSE 0
    <2>1. /\ f[k].today \in Int /\ f[k].total \in Int /\ SinkDay \in Nat /\ s.ts \in Nat
          /\ e \in Nat /\ s \in SpanRecords
      <3>1. f[k] \in Counters /\ s \in SpanRecords
        BY <1>3, <1>5
      <3>2. s.ts \in Nat
        BY <3>1 DEF SpanRecords
      <3> HIDE DEF s
      <3>3. s.ts \div Day \in Nat
        <4>1. Day \in Nat /\ Day # 0 /\ s.ts <= s.ts
          BY <3>2, HistoryParameters
        <4>2. QED
          BY <3>2, <4>1, DivMonotone
      <3>4. QED
        BY <3>1, <3>2, <3>3, HistoryParameters DEF Counters
    <2>2. PICK t \in Nat :
             /\ f[k + 1] = [day |-> e, today |-> today + t, total |-> f[k].total + t,
                            saved |-> f[k].saved + t * (s.price - Feed)]
             /\ SinkDay > 0 /\ today <= SinkDay => today + t <= SinkDay
      <3>1. f[k] \in Counters /\ s \in SpanRecords /\ f[k + 1] = Absorb(f[k], s)
        BY <1>3, <1>5
      <3>2. \E t \in Nat :
               /\ Absorb(f[k], s) = [day |-> e, today |-> today + t, total |-> f[k].total + t,
                                     saved |-> f[k].saved + t * (s.price - Feed)]
               /\ SinkDay > 0 /\ today <= SinkDay => today + t <= SinkDay
        <4> HIDE DEF s
        <4>1. QED
          BY <3>1, AbsorbIs, Zenon
      <3>3. QED
        BY <3>1, <3>2
    <2>3. /\ IsFiniteSet(Days(spans, k + 1))
          /\ k > 0 /\ spans[k].ts \div Day = e => Days(spans, k + 1) = Days(spans, k)
          /\ k = 0 \/ spans[k].ts \div Day # e =>
                Cardinality(Days(spans, k + 1)) = Cardinality(Days(spans, k)) + 1
      BY <1>5, DaysGrow
    <2>4. today >= 0 /\ today <= SinkDay /\ today \in Int
      BY <1>5, <2>1
    <2> HIDE DEF today, s, Full
    <2>5. /\ f[k + 1].day = e /\ f[k + 1].today = today + t /\ f[k + 1].total = f[k].total + t
          /\ today + t <= SinkDay
      BY <1>5, <2>2, <2>4
    <2>6. Full(k) \in Int /\ Full(k + 1) \in Int
      <3>1. Cardinality(Days(spans, k)) \in Nat /\ Cardinality(Days(spans, k + 1)) \in Nat
        BY <1>5, <2>3, FS_CardinalityType
      <3>2. QED
        BY <2>1, <3>1 DEF Full
    <2>7. f[k + 1].total + SinkDay <= Full(k + 1) + f[k + 1].today
      <3>1. CASE k > 0 /\ spans[k].ts \div Day = e
        <4>1. Full(k + 1) = Full(k) /\ today = f[k].today
          BY <1>5, <2>3, <3>1 DEF Full, today
        <4>2. QED
          BY <1>5, <2>1, <2>5, <2>6, <3>1, <4>1
      <3>2. CASE k = 0 \/ spans[k].ts \div Day # e
        <4>1. Full(k + 1) = Full(k) + SinkDay
          <5>1. Cardinality(Days(spans, k)) \in Nat
            BY <1>5, FS_CardinalityType
          <5>2. PICK c \in Nat : c = Cardinality(Days(spans, k))
            BY <5>1
          <5>3. Cardinality(Days(spans, k + 1)) = c + 1
            BY <2>3, <3>2, <5>2
          <5>4. SinkDay * (c + 1) = SinkDay * c + SinkDay
            BY <2>1
          <5>5. QED
            BY <5>2, <5>3, <5>4 DEF Full
        <4>2. today = 0 /\ f[k].total <= Full(k)
          <5>1. CASE k = 0
            <6>1. f[k].day = -1 /\ f[k].total = 0
              BY <1>2, <5>1 DEF Nothing
            <6>2. Full(k) = 0
              <7>1. Days(spans, 0) = {}
                BY DEF Days
              <7>2. Cardinality(Days(spans, 0)) = 0
                BY <7>1, FS_EmptySet
              <7>3. QED
                BY <2>1, <5>1, <7>2 DEF Full
            <6>3. QED
              BY <2>1, <6>1, <6>2 DEF today
          <5>2. CASE k > 0
            BY <1>5, <2>1, <2>6, <3>2, <5>2 DEF today
          <5>3. QED
            BY <5>1, <5>2
        <4>3. QED
          BY <2>1, <2>2, <2>5, <2>6, <4>1, <4>2
      <3>3. QED
        BY <3>1, <3>2
    <2>8. QED
      BY <2>2, <2>3, <2>4, <2>5, <2>7 DEF s
  <1>6. ASSUME \A i \in 1 .. n : spans[i].price >= Feed, NEW k \in Nat, k + 1 <= n, Gains(k)
        PROVE  Gains(k + 1)
    <2> DEFINE s == spans[k + 1]
               today == IF f[k].day = s.ts \div Day THEN f[k].today ELSE 0
    <2>1. /\ f[k] \in Counters /\ s \in SpanRecords /\ f[k + 1] = Absorb(f[k], s)
      BY <1>3, <1>6
    <2>2. PICK t \in Nat : Absorb(f[k], s).saved = f[k].saved + t * (s.price - Feed)
      <3> HIDE DEF s
      <3>1. \E t \in Nat : Absorb(f[k], s) = [day |-> s.ts \div Day, today |-> today + t,
                             total |-> f[k].total + t, saved |-> f[k].saved + t * (s.price - Feed)]
        BY <2>1, AbsorbIs, Zenon
      <3>2. QED
        BY <3>1
    <2>3. k + 1 \in 1 .. n
      BY <1>1, <1>6
    <2>4. s.price >= Feed /\ s.price \in Int /\ Feed \in Int /\ f[k].saved \in Int
      BY <1>6, <2>1, <2>3, HistoryParameters DEF SpanRecords, Counters
    <2> HIDE DEF s
    <2>5. s.price - Feed \in Nat
      BY <2>4
    <2>6. t * (s.price - Feed) \in Nat
      BY <2>5, TimesNatural, Zenon
    <2>7. QED
      BY <1>6, <2>1, <2>2, <2>4, <2>6
  <1>7. fills \in SUBSET Nat /\ gains \in SUBSET Nat
    OBVIOUS
  <1>8. ASSUME SinkDay > 0 PROVE Fills(n)
    <2> HIDE DEF Fills
    <2>1. \A k \in fills : k + 1 \in fills
      BY <1>5, <1>8
    <2>2. n \in fills
      <3> HIDE DEF fills
      <3>1. QED
        BY <1>1, <1>4, <1>7, <2>1, Induction
    <2>3. QED
      BY <1>1, <2>2
  <1>9. ASSUME \A i \in 1 .. n : spans[i].price >= Feed PROVE Gains(n)
    <2> HIDE DEF Gains
    <2>1. \A k \in gains : k + 1 \in gains
      BY <1>6, <1>9
    <2>2. n \in gains
      <3> HIDE DEF gains
      <3>1. QED
        BY <1>1, <1>4, <1>7, <2>1, Induction
    <2>3. QED
      BY <1>1, <2>2
  <1>10. ASSUME SinkDay > 0 PROVE f[n].total <= Full(n)
    <2>1. /\ f[n] \in Counters /\ SinkDay \in Nat
      <3>1. n \in 0 .. n
        BY <1>1
      <3> HIDE DEF n
      <3>2. QED
        BY <1>2, <3>1, HistoryParameters
    <2>2. f[n].total \in Int /\ f[n].today \in Int
      BY <2>1 DEF Counters
    <2>3. Full(n) \in Int
      <3>1. Cardinality(Days(spans, n)) \in Nat
        BY <1>8, <1>10, FS_CardinalityType
      <3>2. QED
        BY <2>1, <3>1
    <2>4. CASE n = 0
      <3>1. f[n].total = 0
        BY <1>2, <2>4 DEF Nothing
      <3>2. Full(n) \in Nat
        <4>1. Cardinality(Days(spans, n)) \in Nat
          BY <1>8, <1>10, FS_CardinalityType
        <4>2. QED
          BY <2>1, <4>1
      <3>3. QED
        BY <3>1, <3>2
    <2>5. CASE n > 0
      <3> HIDE DEF Full
      <3>1. QED
        BY <1>8, <1>10, <2>1, <2>2, <2>3, <2>5
    <2>6. QED
      BY <1>1, <2>4, <2>5
  <1>11. QED
    BY <1>2, <1>9, <1>10

\* Selling everything costs at least as much as using it, as long as buying is dearer.
LEMMA DirectIsCheaper ==
    ASSUME NEW spans \in Seq(SpanRecords), \A i \in 1 .. Len(spans) : spans[i].price >= Feed
    PROVE  DirectCost(spans) <= FullFeedCost(spans) /\ DirectCost(spans) \in Int
  <1> DEFINE n == Len(spans)
             direct(i) == (spans[i].house - SelfUsed(spans[i])) * spans[i].price
                          - (spans[i].pv - SelfUsed(spans[i])) * Feed
             sold(i) == spans[i].house * spans[i].price - spans[i].pv * Feed
             f == [i \in DOMAIN spans |-> direct(i)]
             g == [i \in DOMAIN spans |-> sold(i)]
  <1>1. n \in Nat /\ DOMAIN spans = 1 .. n /\ \A i \in 1 .. n : spans[i] \in SpanRecords
    OBVIOUS
  <1>2. ASSUME NEW i \in 1 .. n PROVE direct(i) \in Int /\ sold(i) \in Int /\ direct(i) <= sold(i)
    <2>1. PICK s \in SpanRecords : s = spans[i] /\ s.price >= Feed
      BY <1>1
    <2>2. PICK u \in Nat : u = SelfUsed(s)
      BY DEF SelfUsed, Least, SpanRecords
    <2>3. PICK h \in Nat, v \in Nat, p \in Int : h = s.house /\ v = s.pv /\ p = s.price
      BY DEF SpanRecords
    <2>4. p - Feed \in Nat /\ Feed \in Int
      BY <2>1, <2>3, HistoryParameters
    <2>5. direct(i) = (h - u) * p - (v - u) * Feed /\ sold(i) = h * p - v * Feed
      BY <2>1, <2>2, <2>3
    <2> HIDE DEF direct, sold
    <2>6. (h - u) * p - (v - u) * Feed = (h * p - v * Feed) - u * (p - Feed)
      BY <2>4
    <2>7. u * (p - Feed) \in Nat /\ h * p \in Int /\ v * Feed \in Int
      <3>1. u * (p - Feed) \in Nat
        BY <2>4, TimesNatural, Zenon
      <3>2. h * p \in Int /\ v * Feed \in Int
        BY <2>4
      <3>3. QED
        BY <3>1, <3>2
    <2>8. QED
      BY <2>5, <2>6, <2>7
  <1>3. \A i \in 1 .. n : f[i] \in Int /\ g[i] \in Int /\ f[i] <= g[i]
    <2>1. \A i \in 1 .. n : f[i] = direct(i) /\ g[i] = sold(i)
      BY <1>1
    <2> HIDE DEF f, g, direct, sold
    <2>2. QED
      BY <1>2, <2>1
  <1>4. DirectCost(spans) = Total(f, 1 .. n) /\ FullFeedCost(spans) = Total(g, 1 .. n)
    <2>1. SumFunction(f) = Total(f, DOMAIN f) /\ SumFunction(g) = Total(g, DOMAIN g)
      BY SumIsTotal
    <2>2. DOMAIN f = 1 .. n /\ DOMAIN g = 1 .. n
      BY <1>1
    <2>3. QED
      BY <2>1, <2>2 DEF DirectCost, FullFeedCost
  <1> HIDE DEF f, g
  <1>5. QED
    BY <1>1, <1>3, <1>4, TotalMonotone, TotalIsType

LEMMA BaselinesAre == ASSUME HistInv PROVE BaselinesOrdered(Savings)
  <1> DEFINE range == Since(rows, now - Shown)
             spans == Spans(range)
             days == {spans[i].ts \div Day : i \in DOMAIN spans}
             n == Len(spans)
  <1>1. /\ spans \in Seq(SpanRecords) /\ DOMAIN spans = 1 .. n
        /\ \A i, j \in 1 .. n : i <= j => spans[i].ts <= spans[j].ts
    <2>1. InOrder(range)
      BY SameRange
    <2> HIDE DEF range
    <2>2. QED
      BY <2>1, SpansAre
  <1> HIDE DEF range
  <1>2. /\ Savings.direct = DirectCost(spans) /\ Savings.full_feed = FullFeedCost(spans)
        /\ Savings.surplus_sink = DirectCost(spans) - Sink(spans).saved
        /\ Savings.absorbed = Sink(spans).total
    BY DEF Savings, range
  <1> HIDE DEF spans
  <1>3. days = Days(spans, n)
    BY <1>1 DEF Days
  <1>4. SinkDay > 0 => Savings.absorbed <= SinkDay * Cardinality(days)
    BY <1>1, <1>2, <1>3, SinkFills
  <1>5. ASSUME \A i \in DOMAIN spans : spans[i].price >= Feed
        PROVE  Savings.surplus_sink <= Savings.direct /\ Savings.direct <= Savings.full_feed
    <2>1. \A i \in 1 .. n : spans[i].price >= Feed
      BY <1>1, <1>5
    <2>2. /\ DirectCost(spans) <= FullFeedCost(spans) /\ DirectCost(spans) \in Int
          /\ Sink(spans).saved >= 0
      BY <1>1, <2>1, DirectIsCheaper, SinkFills
    <2>3. Sink(spans).saved \in Int
      <3>1. PICK f \in [0 .. n -> Counters] : Sink(spans) = f[n]
        BY <1>1, SinkSteps
      <3>2. n \in 0 .. n
        BY <1>1
      <3>3. QED
        BY <3>1, <3>2 DEF Counters
    <2>4. QED
      BY <1>2, <2>2, <2>3
  <1>6. QED
    BY <1>4, <1>5 DEF BaselinesOrdered, spans, range

-----------------------------------------------------------------------------
(***************************************************************************)
(* The simulated battery.                                                  *)
(***************************************************************************)
Books == [soc : 0 .. Battery, import : Int, export : Int, cost : Int]
Empty == [soc |-> 0, import |-> 0, export |-> 0, cost |-> 0]

\* n of the parts that make up a are no more than a.
LEMMA DivFits ==
    ASSUME NEW a \in Nat, NEW b \in Nat, NEW n \in Nat, n # 0, a <= b * n
    PROVE  a \div n \in Nat /\ a \div n <= b /\ n * (a \div n) <= a
  <1>1. a \div n \in Nat
    BY DivMonotone
  <1>2. PICK q \in Nat : q = a \div n
    BY <1>1
  <1>3. n * q <= a
    BY <1>2, DivIs
  <1>4. CASE b + 1 <= q
    <2>1. n * (b + 1) <= n * q /\ n * (b + 1) = b * n + n /\ n * q \in Nat /\ b * n \in Nat
      BY <1>4, TimesMonotone
    <2>2. QED
      BY <1>3, <2>1
  <1>5. QED
    BY <1>2, <1>3, <1>4

\* What a battery takes in, it stores at most in part and has room for.
LEMMA ChargedFits ==
    ASSUME NEW soc \in 0 .. Battery, NEW s \in SpanRecords, NEW offered \in Nat,
           NEW c, c = Charged(soc, s, offered)
    PROVE  /\ c \in Nat /\ c \div Loss \in Nat
           /\ soc + c \div Loss \in 0 .. Battery /\ Loss * (c \div Loss) <= c
  <1>1. Loss \in Nat /\ Loss # 0 /\ Battery \in Nat /\ s.dt \in Nat /\ MaxCharge \in Nat
    BY HistoryParameters DEF SpanRecords
  <1>2. MaxCharge * s.dt \in Nat /\ (Battery - soc) * Loss \in Nat /\ Battery - soc \in Nat
    <2>1. Battery - soc \in Nat
      BY <1>1
    <2>2. QED
      BY <1>1, <2>1, TimesNatural
  <1>3. c \in Nat /\ c <= (Battery - soc) * Loss
    BY <1>2 DEF Charged, Least
  <1>4. c \div Loss \in Nat /\ c \div Loss <= Battery - soc /\ Loss * (c \div Loss) <= c
    BY <1>1, <1>2, <1>3, DivFits
  <1>5. QED
    BY <1>1, <1>3, <1>4

LEMMA DrawnFits ==
    ASSUME NEW soc \in 0 .. Battery, NEW s \in SpanRecords, NEW deficit \in Nat,
           NEW c, c = Drawn(soc, s, deficit)
    PROVE  c \in Nat /\ c * Loss \in Nat /\ soc - c * Loss \in 0 .. Battery /\ c <= Loss * (c * Loss)
  <1>1. Loss \in Nat /\ Loss # 0 /\ Battery \in Nat /\ s.dt \in Nat /\ MaxCharge \in Nat /\ soc \in Nat
    BY HistoryParameters DEF SpanRecords
  <1>2. MaxCharge * s.dt \in Nat /\ soc \div Loss \in Nat /\ Loss * (soc \div Loss) <= soc
    <2>1. MaxCharge * s.dt \in Nat
      BY <1>1, TimesNatural
    <2>2. soc \div Loss \in Nat /\ Loss * (soc \div Loss) <= soc
      BY <1>1, DivMonotone, DivIs
    <2>3. QED
      BY <2>1, <2>2
  <1>3. PICK q \in Nat : q = soc \div Loss /\ Loss * q <= soc
    BY <1>2
  <1>4. c \in Nat /\ c <= q
    BY <1>2, <1>3 DEF Drawn, Least
  <1>5. Loss * c <= Loss * q /\ Loss * c \in Nat /\ Loss * q \in Nat /\ c * Loss = Loss * c
    BY <1>1, <1>4, TimesMonotone
  <1>6. c <= Loss * (c * Loss)
    <2>1. c * 1 <= c * Loss /\ c * 1 = c
      BY <1>1, <1>4, TimesMonotone
    <2>2. (c * Loss) * 1 <= (c * Loss) * Loss /\ c * Loss \in Nat /\ (c * Loss) * Loss = Loss * (c * Loss)
      BY <1>1, <1>4, <1>5, TimesMonotone
    <2>3. Loss * (c * Loss) \in Nat
      BY <1>1, <2>2, TimesNatural
    <2>4. QED
      BY <1>4, <2>1, <2>2, <2>3
  <1>7. QED
    BY <1>1, <1>3, <1>4, <1>5, <1>6

\* In a span the battery gains no more than flows in and does not flow out.
LEMMA WalkIs ==
    ASSUME NEW acc \in Books, NEW s \in SpanRecords
    PROVE  /\ Walk(acc, s) \in Books
           /\ Loss * (Walk(acc, s).soc - acc.soc)
                 <= (PvFactor * s.pv - s.house) + (Walk(acc, s).import - acc.import)
                    - (Walk(acc, s).export - acc.export)
  <1> DEFINE x == PvFactor * s.pv - s.house
             Step(soc, in, out) ==
                 [soc |-> soc, import |-> acc.import + in, export |-> acc.export + out,
                  cost |-> acc.cost + in * TariffPrice(s) - out * Feed]
  <1>1. /\ acc.soc \in 0 .. Battery /\ acc.import \in Int /\ acc.export \in Int /\ acc.cost \in Int
        /\ Loss \in Nat /\ Loss # 0 /\ Feed \in Int
    BY HistoryParameters DEF Books
  <1>2. x \in Int
    <2>1. s.pv \in Nat /\ s.house \in Nat /\ PvFactor \in Nat
      BY HistoryParameters DEF SpanRecords
    <2>2. QED
      BY <2>1, TimesNatural
  <1>3. TariffPrice(s) \in Int
    BY HistoryParameters DEF TariffPrice
  <1> HIDE DEF x
  <1>4. ASSUME NEW d \in Int, NEW in \in Int, NEW out \in Int, NEW net \in Int,
               acc.soc + d \in 0 .. Battery, Walk(acc, s) = Step(acc.soc + d, in, out),
               net = x + in - out, Loss * d <= net
        PROVE  /\ Walk(acc, s) \in Books
               /\ Loss * (Walk(acc, s).soc - acc.soc)
                    <= x + (Walk(acc, s).import - acc.import) - (Walk(acc, s).export - acc.export)
    <2>1. acc.cost + in * TariffPrice(s) - out * Feed \in Int
      BY <1>1, <1>3
    <2>2. acc.import + in \in Int /\ acc.export + out \in Int
      BY <1>1
    <2>3. Walk(acc, s) \in Books
      BY <1>4, <2>1, <2>2 DEF Books
    <2>4. /\ Walk(acc, s).soc - acc.soc = d /\ Walk(acc, s).import - acc.import = in
          /\ Walk(acc, s).export - acc.export = out
      BY <1>1, <1>4
    <2>5. QED
      BY <1>4, <2>3, <2>4
  <1>5. CASE x >= 0
    <2> DEFINE c == Charged(acc.soc, s, x)
    <2>1. c = Charged(acc.soc, s, x)
      OBVIOUS
    <2>2. Walk(acc, s) = Step(acc.soc + c \div Loss, 0, x - c)
      BY <1>2, <1>5 DEF Walk, x
    <2> HIDE DEF c, Step
    <2>3. x \in Nat
      BY <1>2, <1>5
    <2>4. /\ c \in Nat /\ c \div Loss \in Nat
          /\ acc.soc + c \div Loss \in 0 .. Battery /\ Loss * (c \div Loss) <= c
      BY <1>1, <2>1, <2>3, ChargedFits
    <2>5. PICK q \in Nat : q = c \div Loss
      BY <2>4
    <2>6. c = x + 0 - (x - c) /\ x - c \in Int
      BY <1>2, <2>4
    <2>7. /\ q \in Int /\ 0 \in Int /\ x - c \in Int /\ c \in Int /\ acc.soc + q \in 0 .. Battery
          /\ Walk(acc, s) = Step(acc.soc + q, 0, x - c) /\ c = x + 0 - (x - c) /\ Loss * q <= c
      BY <2>2, <2>4, <2>5, <2>6
    <2>8. QED
      BY <1>4, <2>7, Zenon DEF x
  <1>6. CASE ~(x >= 0) /\ CheapHour(s)
    <2> DEFINE c == IF Low * Loss * Loss < Normal THEN Charged(acc.soc, s, MaxCharge * s.dt) ELSE 0
    <2>1. MaxCharge * s.dt \in Nat
      BY HistoryParameters, TimesNatural DEF SpanRecords
    <2>2. /\ c \in Nat /\ c \div Loss \in Nat
          /\ acc.soc + c \div Loss \in 0 .. Battery /\ Loss * (c \div Loss) <= c
      <3>1. CASE Low * Loss * Loss < Normal
        <4>1. c = Charged(acc.soc, s, MaxCharge * s.dt)
          BY <3>1
        <4> HIDE DEF c
        <4>2. QED
          BY <1>1, <2>1, <4>1, ChargedFits
      <3>2. CASE ~(Low * Loss * Loss < Normal)
        <4>1. c = 0
          BY <3>2
        <4> HIDE DEF c
        <4>2. 0 \div Loss = 0
          <5>1. 0 \div Loss \in Nat /\ 0 \div Loss <= 0
            BY <1>1, DivFits
          <5>2. QED
            BY <5>1
        <4>3. QED
          BY <1>1, <4>1, <4>2
      <3>3. QED
        BY <3>1, <3>2
    <2>3. Walk(acc, s) = Step(acc.soc + c \div Loss, c - x, 0)
      BY <1>2, <1>6 DEF Walk, x
    <2> HIDE DEF c, Step
    <2>4. PICK q \in Nat : q = c \div Loss
      BY <2>2
    <2>5. c = x + (c - x) - 0 /\ c - x \in Int
      BY <1>2, <2>2
    <2>6. /\ q \in Int /\ 0 \in Int /\ c - x \in Int /\ c \in Int /\ acc.soc + q \in 0 .. Battery
          /\ Walk(acc, s) = Step(acc.soc + q, c - x, 0) /\ c = x + (c - x) - 0 /\ Loss * q <= c
      BY <2>2, <2>3, <2>4, <2>5
    <2>7. QED
      BY <1>4, <2>6, Zenon DEF x
  <1>7. CASE ~(x >= 0) /\ ~CheapHour(s)
    <2> DEFINE c == Drawn(acc.soc, s, -x)
    <2>1. c = Drawn(acc.soc, s, -x)
      OBVIOUS
    <2>2. Walk(acc, s) = Step(acc.soc - c * Loss, -x - c, 0)
      BY <1>7 DEF Walk, x
    <2> HIDE DEF c, Step
    <2>3. -x \in Nat
      BY <1>2, <1>7
    <2>4. /\ c \in Nat /\ c * Loss \in Nat /\ acc.soc - c * Loss \in 0 .. Battery
          /\ c <= Loss * (c * Loss)
      BY <1>1, <2>1, <2>3, DrawnFits
    <2>5. PICK q \in Nat : q = c * Loss
      BY <2>4
    <2>6. Loss * (-q) <= -c
      <3>1. PICK m \in Nat : m = Loss * q
        BY <1>1, TimesNatural
      <3>2. Loss * (-q) = -m
        BY <1>1, <3>1
      <3>3. c <= m
        BY <2>4, <2>5, <3>1
      <3>4. QED
        BY <2>4, <3>2, <3>3
    <2>7. -c = x + (-x - c) - 0 /\ -x - c \in Int /\ -c \in Int /\ -q \in Int
      BY <1>2, <2>4
    <2>8. acc.soc - q = acc.soc + (-q)
      BY <1>1
    <2>9. /\ -q \in Int /\ 0 \in Int /\ -x - c \in Int /\ -c \in Int /\ acc.soc + (-q) \in 0 .. Battery
          /\ Walk(acc, s) = Step(acc.soc + (-q), -x - c, 0) /\ -c = x + (-x - c) - 0
          /\ Loss * (-q) <= -c
      BY <2>2, <2>4, <2>5, <2>6, <2>7, <2>8
    <2>10. QED
      BY <1>4, <2>9, Zenon DEF x
  <1>8. QED
    BY <1>5, <1>6, <1>7 DEF x

LEMMA WalkSteps ==
    ASSUME NEW spans \in Seq(SpanRecords)
    PROVE  \E f \in [0 .. Len(spans) -> Books] :
              /\ f[0] = Empty /\ Dynamic(spans) = f[Len(spans)]
              /\ \A k \in 1 .. Len(spans) : f[k] = Walk(f[k - 1], spans[k])
  <1> DEFINE n == Len(spans)
             body(f) == [k \in 0 .. n |-> IF k = 0 THEN [soc |-> 0, import |-> 0, export |-> 0, cost |-> 0]
                                          ELSE Walk(f[k - 1], spans[k])]
             G == [x \in (1 .. n) \X Books |-> Walk(x[2], spans[x[1]])]
             walked == CHOOSE f : f = body(f)
  <1>1. n \in Nat /\ \A k \in 1 .. n : spans[k] \in SpanRecords
    OBVIOUS
  <1>2. Empty \in Books
    BY HistoryParameters DEF Empty, Books
  <1>3. G \in [(1 .. n) \X Books -> Books]
    BY <1>1, WalkIs
  <1>4. PICK f \in [0 .. n -> Books] : Steps(f, n, Empty, G)
    <2> HIDE DEF n, G
    <2>1. n \in Nat
      BY <1>1
    <2>2. QED
      BY <1>2, <1>3, <2>1, RecursionExists, Zenon
  <1>5. f[0] = Empty /\ \A k \in 1 .. n : f[k] = Walk(f[k - 1], spans[k])
    <2>1. 0 \in 0 .. n
      BY <1>1
    <2>2. ASSUME NEW k \in 1 .. n PROVE f[k] = Walk(f[k - 1], spans[k])
      <3>1. k - 1 \in 0 .. n /\ k \in 0 .. n /\ k # 0
        BY <1>1
      <3>2. f[k - 1] \in Books /\ f[k] = G[<<k, f[k - 1]>>]
        BY <1>4, <3>1 DEF Steps
      <3>3. QED
        BY <3>2
    <2> HIDE DEF G
    <2>3. QED
      BY <1>4, <2>1, <2>2 DEF Steps
  <1>6. f = body(f)
    <2>1. \A k \in 0 .. n : k = 0 \/ k \in 1 .. n
      BY <1>1
    <2> HIDE DEF n
    <2>2. QED
      BY <1>5, <2>1 DEF Empty
  <1>7. walked = body(walked)
    BY <1>6
  <1>8. Dynamic(spans) = walked[n]
    BY DEF Dynamic
  <1>9. \A k \in 0 .. n : walked[k] = f[k]
    <2> HIDE DEF walked
    <2>1. walked[0] = f[0]
      <3>1. 0 \in 0 .. n
        BY <1>1
      <3>2. QED
        BY <1>5, <1>7, <3>1 DEF Empty
    <2>2. ASSUME NEW k \in 1 .. n, walked[k - 1] = f[k - 1] PROVE walked[k] = f[k]
      <3>1. k \in 0 .. n /\ k # 0
        BY <1>1
      <3>2. body(walked)[k] = Walk(walked[k - 1], spans[k])
        BY <3>1
      <3> HIDE DEF body
      <3>3. QED
        BY <1>5, <1>7, <2>2, <3>2
    <2> HIDE DEF n
    <2>3. QED
      BY <1>1, <2>1, <2>2, RecursionUnique
  <1>10. QED
    BY <1>1, <1>4, <1>5, <1>8, <1>9

LEMMA WalkBalances ==
    ASSUME NEW spans \in Seq(SpanRecords),
           NEW pv, pv = SumFunction([i \in DOMAIN spans |-> spans[i].pv]),
           NEW house, house = SumFunction([i \in DOMAIN spans |-> spans[i].house])
    PROVE  /\ Dynamic(spans) \in Books
           /\ PvFactor * pv + Dynamic(spans).import - house - Dynamic(spans).export
                 >= Loss * Dynamic(spans).soc
  <1> DEFINE n == Len(spans)
             p == [i \in DOMAIN spans |-> spans[i].pv]
             h == [i \in DOMAIN spans |-> spans[i].house]
  <1>1. n \in Nat /\ DOMAIN spans = 1 .. n /\ \A k \in 1 .. n : spans[k] \in SpanRecords
    OBVIOUS
  <1>2. PICK f \in [0 .. n -> Books] :
           /\ f[0] = Empty /\ Dynamic(spans) = f[n]
           /\ \A k \in 1 .. n : f[k] = Walk(f[k - 1], spans[k])
    BY WalkSteps
  <1>3. /\ \A i \in 1 .. n : p[i] = spans[i].pv /\ h[i] = spans[i].house
        /\ \A i \in 1 .. n : p[i] \in Int /\ h[i] \in Int
        /\ DOMAIN p = 1 .. n /\ DOMAIN h = 1 .. n
    BY <1>1 DEF SpanRecords
  <1>4. pv = Total(p, 1 .. n) /\ house = Total(h, 1 .. n)
    <2>1. pv = SumFunction(p) /\ house = SumFunction(h)
      OBVIOUS
    <2> HIDE DEF p, h
    <2>2. QED
      BY <1>3, <2>1, SumIsTotal
  <1> HIDE DEF p, h
  <1> DEFINE Balanced(k) ==
                Loss * f[k].soc <= (PvFactor * Total(p, 1 .. k) - Total(h, 1 .. k)) + f[k].import - f[k].export
             balanced == {k \in Nat : k <= n => Balanced(k)}
  <1>5. Loss \in Nat /\ PvFactor \in Nat
    BY HistoryParameters
  <1>6. Balanced(0)
    <2>1. 1 .. 0 = {}
      OBVIOUS
    <2>2. Total(p, 1 .. 0) = 0 /\ Total(h, 1 .. 0) = 0
      BY <2>1, TotalEmpty
    <2>3. f[0].soc = 0 /\ f[0].import = 0 /\ f[0].export = 0
      BY <1>2 DEF Empty
    <2>4. QED
      BY <1>5, <2>2, <2>3
  <1>7. ASSUME NEW k \in Nat, k + 1 <= n, Balanced(k) PROVE Balanced(k + 1)
    <2>1. k \in 0 .. n /\ k + 1 \in 0 .. n /\ k + 1 \in 1 .. n /\ (k + 1) - 1 = k
          /\ \A i \in 1 .. k + 1 : i \in 1 .. n
      BY <1>1, <1>7
    <2>2. PICK a \in Books, s \in SpanRecords : a = f[k] /\ s = spans[k + 1]
      BY <1>1, <1>2, <2>1
    <2>3. PICK w \in Books : w = f[k + 1] /\ w = Walk(a, s)
      BY <1>2, <2>1, <2>2
    <2>4. Loss * (w.soc - a.soc) <= (PvFactor * s.pv - s.house) + (w.import - a.import) - (w.export - a.export)
      BY <2>3, WalkIs
    <2>5. /\ Total(p, 1 .. k + 1) = Total(p, 1 .. k) + s.pv
          /\ Total(h, 1 .. k + 1) = Total(h, 1 .. k) + s.house
      <3>1. 1 <= k + 1 /\ \A i \in 1 .. k + 1 : p[i] \in Int /\ h[i] \in Int
        BY <1>3, <2>1
      <3>2. /\ Total(p, 1 .. k + 1) = Total(p, 1 .. k) + p[k + 1]
            /\ Total(h, 1 .. k + 1) = Total(h, 1 .. k) + h[k + 1]
        BY <2>1, <3>1, TotalInterval
      <3>3. QED
        BY <1>3, <2>1, <2>2, <3>2
    <2>6. PICK tp \in Int, th \in Int : tp = Total(p, 1 .. k) /\ th = Total(h, 1 .. k)
      <3>1. \A i \in 1 .. k : p[i] \in Int /\ h[i] \in Int
        BY <1>3, <2>1
      <3>2. QED
        BY <3>1, TotalIsType
    <2>7. /\ w.soc \in Int /\ a.soc \in Int /\ w.import \in Int /\ a.import \in Int
          /\ w.export \in Int /\ a.export \in Int /\ s.pv \in Int /\ s.house \in Int
      BY DEF Books, SpanRecords
    <2> DEFINE u == w.soc
               v == a.soc
               in == w.import - a.import
               out == w.export - a.export
               x == s.pv
               y == s.house
    <2>8. Loss * (u - v) <= (PvFactor * x - y) + in - out
      BY <2>4
    <2>9. Loss * v <= (PvFactor * tp - th) + a.import - a.export
      BY <1>7, <2>2, <2>6
    <2>10. u \in Int /\ v \in Int /\ in \in Int /\ out \in Int /\ x \in Int /\ y \in Int
      BY <2>7
    <2>11. w.import = a.import + in /\ w.export = a.export + out
      BY <2>7
    <2> HIDE DEF u, v, in, out, x, y
    <2>12. Loss * u <= (PvFactor * (tp + x) - (th + y)) + w.import - w.export
      <3>1. PICK lu \in Int, lv \in Int : lu = Loss * u /\ lv = Loss * v
        BY <1>5, <2>10
      <3>2. PICK px \in Int, pt \in Int : px = PvFactor * x /\ pt = PvFactor * tp
        BY <1>5, <2>10
      <3>3. Loss * (u - v) = lu - lv /\ PvFactor * (tp + x) = pt + px
        BY <1>5, <2>10, <3>1, <3>2
      <3>4. lu - lv <= (px - y) + in - out
        BY <2>8, <3>2, <3>3
      <3>5. lv <= (pt - th) + a.import - a.export
        BY <2>9, <3>1, <3>2
      <3>6. lu <= ((pt + px) - (th + y)) + w.import - w.export
        <4>1. PICK b \in Int, d \in Int : b = a.import /\ d = a.export
          BY <2>7
        <4>2. w.import = b + in /\ w.export = d + out /\ lv <= (pt - th) + b - d
          BY <2>11, <3>5, <4>1
        <4>3. lu <= ((pt + px) - (th + y)) + (b + in) - (d + out)
          BY <2>10, <3>4, <4>2
        <4>4. QED
          BY <4>2, <4>3
      <3>7. QED
        BY <3>1, <3>3, <3>6
    <2>13. Loss * w.soc <= (PvFactor * (tp + s.pv) - (th + s.house)) + w.import - w.export
      BY <2>12, Zenon DEF u, x, y
    <2>14. Total(p, 1 .. k + 1) = tp + s.pv /\ Total(h, 1 .. k + 1) = th + s.house
      BY <2>5, <2>6, Zenon
    <2>15. QED
      BY <2>3, <2>13, <2>14, Zenon
  <1>8. Balanced(n)
    <2>1. 0 \in balanced
      BY <1>6
    <2> HIDE DEF Balanced
    <2>2. ASSUME NEW k \in balanced PROVE k + 1 \in balanced
      <3>1. k \in Nat /\ k + 1 \in Nat /\ (k <= n => Balanced(k))
        OBVIOUS
      <3>2. ASSUME k + 1 <= n PROVE Balanced(k + 1)
        <4>1. k <= n
          BY <1>1, <3>1, <3>2
        <4>2. QED
          BY <1>7, <3>1, <3>2, <4>1
      <3>3. QED
        BY <3>1, <3>2
    <2>3. balanced \in SUBSET Nat
      OBVIOUS
    <2>4. n \in balanced
      <3> HIDE DEF balanced
      <3>1. QED
        BY <1>1, <2>1, <2>2, <2>3, Induction
    <2>5. QED
      BY <1>1, <2>4
  <1>9. f[n] \in Books
    <2>1. n \in 0 .. n
      BY <1>1
    <2>2. QED
      BY <2>1
  <1>10. QED
    <2>1. pv \in Int /\ house \in Int
      BY <1>1, <1>3, <1>4, TotalIsType
    <2>2. PICK w \in Books : w = f[n] /\ Dynamic(spans) = w
      BY <1>2, <1>9
    <2>3. Loss * w.soc <= (PvFactor * pv - house) + w.import - w.export
      BY <1>4, <1>8, <2>2
    <2>4. w.soc \in Int /\ w.import \in Int /\ w.export \in Int
      BY DEF Books
    <2>5. Loss * w.soc \in Int /\ PvFactor * pv \in Int
      BY <1>5, <2>1, <2>4
    <2>6. QED
      BY <2>1, <2>2, <2>3, <2>4, <2>5

LEMMA BatteryIs == ASSUME HistInv PROVE BatteryBalances(Savings)
  <1> DEFINE range == Since(rows, now - Shown)
             spans == Spans(range)
             pv == SumFunction([i \in DOMAIN spans |-> spans[i].pv])
             house == SumFunction([i \in DOMAIN spans |-> spans[i].house])
  <1>1. spans \in Seq(SpanRecords)
    <2>1. InOrder(range)
      BY SameRange
    <2> HIDE DEF range
    <2>2. QED
      BY <2>1, SpansAre
  <1>2. Savings.dynamic = Dynamic(spans)
    BY DEF Savings
  <1> HIDE DEF spans
  <1>3. /\ Dynamic(spans) \in Books
        /\ PvFactor * pv + Dynamic(spans).import - house - Dynamic(spans).export
              >= Loss * Dynamic(spans).soc
    BY <1>1, WalkBalances
  <1>4. Dynamic(spans).soc \in 0 .. Battery
    BY <1>3 DEF Books
  <1>5. QED
    BY <1>2, <1>3, <1>4 DEF BatteryBalances, spans

\* What is shown as saved is what was recorded in the range, but for the rows out of a
\* retention that was set, which are left out as a whole; the simulated battery keeps within
\* its capacity and creates no energy, and the baselines are in order (Store.savings).
THEOREM SavingsHold == HistorySpec => []SavingsSound
  <1>1. HistInv => SavingsSound
    BY ActualCounts, BatteryIs, BaselinesAre DEF SavingsSound, HistInv
  <1>2. QED
    BY <1>1, HistInvHolds, PTL

-----------------------------------------------------------------------------
(***************************************************************************)
(* The forecast.                                                           *)
(***************************************************************************)
LEMMA PowerDoubles ==
    /\ \A k \in 0 .. Past + 1 : PowerOfTwo[k] \in Nat
    /\ \A k \in 1 .. Past + 1 : PowerOfTwo[k] = 2 * PowerOfTwo[k - 1]
  <1> DEFINE n == Past + 1
             body(f) == [k \in 0 .. n |-> IF k = 0 THEN 1 ELSE 2 * f[k - 1]]
             G == [x \in (1 .. n) \X Nat |-> 2 * x[2]]
  <1>1. Past \in Nat /\ n \in Nat
    BY HistoryAssumption
  <1>2. G \in [(1 .. n) \X Nat -> Nat]
    BY <1>1
  <1>3. PICK f \in [0 .. n -> Nat] : Steps(f, n, 1, G)
    <2> HIDE DEF n, G
    <2>1. n \in Nat /\ 1 \in Nat
      BY <1>1
    <2>2. QED
      BY <1>2, <2>1, RecursionExists, Zenon
  <1>4. f[0] = 1 /\ \A k \in 1 .. n : f[k] = 2 * f[k - 1]
    <2>1. 0 \in 0 .. n
      BY <1>1
    <2>2. ASSUME NEW k \in 1 .. n PROVE f[k] = 2 * f[k - 1]
      <3>1. k - 1 \in 0 .. n /\ k \in 0 .. n /\ k # 0
        BY <1>1
      <3>2. f[k - 1] \in Nat /\ f[k] = G[<<k, f[k - 1]>>]
        BY <1>3, <3>1 DEF Steps
      <3>3. QED
        BY <3>2
    <2> HIDE DEF G
    <2>3. QED
      BY <1>3, <2>1, <2>2 DEF Steps
  <1>5. f = body(f)
    <2>1. \A k \in 0 .. n : k = 0 \/ k \in 1 .. n
      BY <1>1
    <2> HIDE DEF n
    <2>2. QED
      BY <1>4, <2>1
  <1>6. PowerOfTwo = body(PowerOfTwo)
    <2>1. PowerOfTwo = CHOOSE g : g = body(g)
      BY DEF PowerOfTwo
    <2>2. QED
      BY <1>5, <2>1
  <1> DEFINE p == PowerOfTwo
  <1>7. p = body(p)
    BY <1>6
  <1> HIDE DEF p
  <1>8. \A k \in 0 .. n : p[k] = f[k]
    <2>1. p[0] = f[0]
      <3>1. 0 \in 0 .. n
        BY <1>1
      <3>2. QED
        BY <1>4, <1>7, <3>1
    <2>2. ASSUME NEW k \in 1 .. n, p[k - 1] = f[k - 1] PROVE p[k] = f[k]
      <3>1. k \in 0 .. n /\ k # 0
        BY <1>1
      <3>2. body(p)[k] = 2 * p[k - 1]
        BY <3>1
      <3> HIDE DEF body
      <3>3. QED
        BY <1>4, <1>7, <2>2, <3>2
    <2>3. \A k \in 1 .. n : p[k - 1] = f[k - 1] => p[k] = f[k]
      BY <2>2
    <2>4. n \in Nat
      BY <1>1
    <2> HIDE DEF n, body
    <2>5. QED
      BY <2>1, <2>3, <2>4, RecursionUnique, Zenon
  <1>9. \A k \in 1 .. n : k \in 0 .. n /\ k - 1 \in 0 .. n
    BY <1>1
  <1>10. (\A k \in 0 .. n : p[k] \in Nat) /\ \A k \in 1 .. n : p[k] = 2 * p[k - 1]
    <2> HIDE DEF n
    <2>1. QED
      BY <1>3, <1>4, <1>8, <1>9
  <1>11. QED
    BY <1>10 DEF p

\* In every tick each sample loses half its weight.
LEMMA WeightHalves ==
    ASSUME NEW ts \in Nat, NEW at \in Nat, at - Past <= ts
    PROVE  /\ ts <= at => Weight(ts, at) \in Nat
           /\ ts < at => Weight(ts, at - 1) = 2 * Weight(ts, at)
  <1>1. Past \in Nat
    BY HistoryAssumption
  <1>2. ASSUME ts <= at PROVE Weight(ts, at) = PowerOfTwo[Past + 1 - (at - ts)]
    <2>1. Most(0, at - ts) = at - ts
      BY <1>2 DEF Most
    <2>2. QED
      BY <2>1 DEF Weight
  <1>3. ASSUME ts < at PROVE Weight(ts, at - 1) = PowerOfTwo[Past + 1 - (at - ts) + 1]
    <2>1. Most(0, (at - 1) - ts) = (at - 1) - ts
      BY <1>3 DEF Most
    <2>2. Past + 1 - ((at - 1) - ts) = Past + 1 - (at - ts) + 1
      BY <1>1
    <2>3. QED
      BY <2>1, <2>2 DEF Weight
  <1>4. ASSUME ts <= at PROVE Past + 1 - (at - ts) \in 0 .. Past + 1
    BY <1>1, <1>4
  <1>5. ASSUME ts < at PROVE Past + 1 - (at - ts) + 1 \in 1 .. Past + 1
    BY <1>1, <1>5
  <1>6. ASSUME ts <= at PROVE Weight(ts, at) \in Nat
    BY <1>2, <1>4, <1>6, PowerDoubles
  <1>7. ASSUME ts < at PROVE Weight(ts, at - 1) = 2 * Weight(ts, at)
    <2> DEFINE e == Past + 1 - (at - ts)
    <2>1. e + 1 \in 1 .. Past + 1 /\ (e + 1) - 1 = e
      BY <1>1, <1>5, <1>7
    <2>2. Weight(ts, at - 1) = PowerOfTwo[e + 1] /\ Weight(ts, at) = PowerOfTwo[e]
      BY <1>2, <1>3, <1>7
    <2> HIDE DEF e
    <2>3. PowerOfTwo[e + 1] = 2 * PowerOfTwo[e]
      BY <2>1, PowerDoubles
    <2>4. QED
      BY <2>2, <2>3
  <1>8. QED
    BY <1>6, <1>7

\* T is S moved by d
Moves(S, T, d) == (\A x \in S : x + d \in T) /\ \A y \in T : \E x \in S : y = x + d
Scales(f, g, S, d, c) == \A x \in S : g[x + d] \in Int /\ f[x] = c * g[x + d]

\* Moving the indices and dividing each summand by c divides the sum.
LEMMA TotalScaled ==
    ASSUME NEW S \in SUBSET Int, IsFiniteSet(S), NEW d \in Int, NEW c \in Int, NEW f, NEW g,
           Scales(f, g, S, d, c), NEW T, Moves(S, T, d)
    PROVE  Total(f, S) = c * Total(g, T)
  <1> DEFINE Moved(s) == {x + d : x \in s}
             Done(s) == IsFiniteSet(Moved(s)) /\ Total(f, s) = c * Total(g, Moved(s))
             Fine(n) == \A s \in SUBSET S : Cardinality(s) = n => Done(s)
             fine == {n \in Nat : Fine(n)}
  <1>0. T = Moved(S) /\ \A x \in S : g[x + d] \in Int /\ f[x] = c * g[x + d]
    <2>1. T = Moved(S)
      BY Zenon DEF Moves
    <2>2. QED
      BY <2>1 DEF Scales
  <1>1. ASSUME NEW s \in SUBSET S
        PROVE  /\ IsFiniteSet(s) /\ Cardinality(s) \in Nat
               /\ \A x \in s : x \in Int /\ g[x + d] \in Int /\ f[x] = c * g[x + d] /\ f[x] \in Int
    <2>1. IsFiniteSet(s) /\ Cardinality(s) \in Nat
      BY FS_Subset, FS_CardinalityType
    <2>2. ASSUME NEW x \in S PROVE c * g[x + d] \in Int
      <3>1. PICK t \in Int : t = g[x + d]
        BY <1>0
      <3>2. c * t \in Int
        OBVIOUS
      <3>3. QED
        BY <3>1, <3>2
    <2>3. QED
      BY <1>0, <2>1, <2>2
  <1>2. Fine(0)
    <2> SUFFICES ASSUME NEW s \in SUBSET S, Cardinality(s) = 0 PROVE Done(s)
      BY DEF Fine
    <2>1. s = {}
      BY <1>1, FS_EmptySet
    <2>2. Moved(s) = {}
      BY <2>1
    <2> HIDE DEF Moved
    <2>3. Total(f, s) = 0 /\ Total(g, Moved(s)) = 0 /\ IsFiniteSet(Moved(s))
      BY <2>1, <2>2, TotalEmpty, FS_EmptySet
    <2>4. QED
      BY <2>3
  <1>3. ASSUME NEW n \in Nat, Fine(n) PROVE Fine(n + 1)
    <2> HIDE DEF Done
    <2> SUFFICES ASSUME NEW s \in SUBSET S, Cardinality(s) = n + 1 PROVE Done(s)
      BY DEF Fine
    <2>1. s # {}
      <3>1. Cardinality({}) = 0 /\ n + 1 # 0
        BY FS_EmptySet
      <3>2. QED
        BY <3>1
    <2>2. PICK x \in s : x = Pick(s)
      BY <2>1, PickOne
    <2> DEFINE r == s \ {x}
    <2>3. r \in SUBSET S /\ Cardinality(r) = n
      <3>1. IsFiniteSet(s)
        BY <1>1
      <3>2. Cardinality(s \ {x}) = Cardinality(s) - 1
        BY <3>1, WithoutOne
      <3>3. QED
        BY <3>2
    <2>4. Total(f, s) = f[x] + Total(f, r)
      BY <1>1, <2>1, <2>2, TotalPick
    <2>5. IsFiniteSet(Moved(r)) /\ Total(f, r) = c * Total(g, Moved(r))
      <3> HIDE DEF r, Moved
      <3>1. QED
        BY <1>3, <2>3 DEF Fine, Done
    <2>6. x \in Int /\ g[x + d] \in Int /\ f[x] = c * g[x + d]
      BY <1>1
    <2>7. Moved(s) = Moved(r) \cup {x + d} /\ x + d \notin Moved(r)
      <3>1. \A y \in s : y \in Int
        BY <1>1
      <3>2. \A y \in r : y \in Int /\ y # x
        BY <3>1
      <3>3. \A y \in r : y + d # x + d
        BY <2>6, <3>2
      <3>4. QED
        BY <3>3
    <2>8. \A y \in Moved(r) \cup {x + d} : g[y] \in Int
      <3>1. \A y \in r : g[y + d] \in Int
        BY <1>1, <2>3
      <3>2. QED
        BY <2>6, <3>1
    <2> HIDE DEF Moved, r
    <2>9. Total(g, Moved(s)) = Total(g, Moved(r)) + g[x + d] /\ IsFiniteSet(Moved(s))
      <3>1. Total(g, Moved(r) \cup {x + d}) = Total(g, Moved(r)) + g[x + d]
        BY <2>5, <2>7, <2>8, TotalAdd
      <3>2. IsFiniteSet(Moved(r) \cup {x + d})
        BY <2>5, FS_AddElement
      <3>3. QED
        BY <2>7, <3>1, <3>2, Zenon
    <2>10. PICK t \in Int : t = Total(g, Moved(r))
      BY <2>5, <2>8, TotalType
    <2>11. Total(f, s) = c * g[x + d] + c * t
      BY <2>4, <2>5, <2>6, <2>10, Zenon
    <2>12. c * (t + g[x + d]) = c * g[x + d] + c * t
      BY <2>6
    <2>13. QED
      BY <2>9, <2>10, <2>11, <2>12, Zenon DEF Done
  <1>4. \A n \in Nat : n \in fine
    <2> HIDE DEF Fine
    <2>1. 0 \in fine /\ fine \in SUBSET Nat /\ \A n \in fine : n + 1 \in fine
      BY <1>2, <1>3
    <2> HIDE DEF fine
    <2>2. QED
      BY <2>1, Induction
  <1>5. Cardinality(S) \in fine /\ S \in SUBSET S
    BY <1>1, <1>4
  <1>6. Done(S)
    <2> HIDE DEF Done
    <2>1. QED
      BY <1>5
  <1>7. QED
    BY <1>0, <1>6

IsTail(tail, list, d) ==
    /\ d \in 0 .. Len(list) /\ tail \in Seq(Rows) /\ Len(tail) = Len(list) - d
    /\ \A i \in 1 .. Len(list) - d : tail[i] = list[i + d]

LEMMA SinceIsTail ==
    ASSUME NEW list, InOrder(list), NEW c \in Int
    PROVE  /\ InOrder(Since(list, c))
           /\ \E d \in 0 .. Len(list) : IsTail(Since(list, c), list, d) /\ Splits(list, c, d)
  <1>1. list \in Seq(Rows)
    BY DEF InOrder
  <1>2. PICK d \in 0 .. Len(list) : Splits(list, c, d)
    BY SplitExists
  <1>3. Since(list, c) = SubSeq(list, d + 1, Len(list))
    BY <1>1, <1>2, SinceSplit
  <1>4. InOrder(Since(list, c))
    BY <1>3, TailInOrder
  <1>5. IsTail(Since(list, c), list, d)
    BY <1>1, <1>3, TailIs DEF IsTail
  <1>6. QED
    BY <1>2, <1>4, <1>5

LEMMA TableInOrder ==
    ASSUME HistInv
    PROVE  /\ InOrder(rows) /\ rows \in Seq(Rows) /\ Len(rows) \in Nat /\ DOMAIN rows = 1 .. Len(rows)
           /\ \A i \in 1 .. Len(rows) : rows[i] \in Rows /\ rows[i].ts \in Nat /\ rows[i].ts < now
  <1>1. taken \in Seq(Rows) /\ Len(taken) \in Nat /\ DOMAIN taken = 1 .. Len(taken)
        /\ InOrder(taken) /\ \A i \in 1 .. Len(taken) : taken[i].ts < now
    BY DEF HistInv, InOrder
  <1>2. PICK d \in 0 .. Len(taken) : rows = SubSeq(taken, d + 1, Len(taken))
    <2>1. purged \in Int
      BY DEF HistInv
    <2>2. PICK d \in 0 .. Len(taken) : Splits(taken, purged, d)
      BY <1>1, <2>1, SplitExists
    <2>3. QED
      BY <1>1, <2>1, <2>2, SinceSplit DEF HistInv, TableKept
  <1>3. InOrder(rows)
    BY <1>1, <1>2, TailInOrder
  <1>4. Len(rows) = Len(taken) - d /\ \A i \in 1 .. Len(taken) - d : rows[i] = taken[i + d]
    BY <1>1, <1>2, TailIs
  <1>5. rows \in Seq(Rows) /\ Len(rows) \in Nat /\ DOMAIN rows = 1 .. Len(rows)
    BY <1>3 DEF InOrder
  <1>6. ASSUME NEW i \in 1 .. Len(rows) PROVE rows[i] \in Rows /\ rows[i].ts \in Nat /\ rows[i].ts < now
    <2>1. rows[i] \in Rows
      BY <1>5
    <2>2. i + d \in 1 .. Len(taken) /\ rows[i] = taken[i + d]
      BY <1>1, <1>4
    <2>3. QED
      BY <1>1, <2>1, <2>2 DEF Rows
  <1>7. QED
    BY <1>3, <1>5, <1>6

\* After a row is written the history of the forecast is a tail of the old one and that row.
LEMMA NewIs ==
    ASSUME HistInv, Record, NEW new, new = Since(rows', now - Past)
    PROVE  \E b \in 0 .. Len(rows) :
              /\ new \in Seq(Rows) /\ Len(new) = Len(rows) + 1 - b
              /\ new[Len(rows) + 1 - b] = Row
              /\ \A i \in 1 .. Len(rows) - b : new[i] = rows[i + b]
              /\ \A i \in 1 .. Len(rows) + 1 - b : new[i].ts >= now - Past
  <1> DEFINE m == Len(rows)
             all == Append(rows, Row)
             c == now - Past
  <1>1. /\ InOrder(rows) /\ rows \in Seq(Rows) /\ m \in Nat /\ DOMAIN rows = 1 .. m
        /\ \A i \in 1 .. m : rows[i].ts < now
    BY TableInOrder
  <1>2. Row \in Rows /\ Row.ts = now /\ now \in Nat
    BY RowIs
  <1>3. c \in Int /\ c <= now /\ Retentions \subseteq Nat
    <2>1. Past \in Nat /\ Retentions \subseteq Nat
      BY HistoryAssumption
    <2>2. QED
      BY <1>2, <2>1
  <1>4. InOrder(all)
    BY <1>1, <1>2, AppendInOrder
  <1>5. /\ all \in Seq(Rows) /\ Len(all) = m + 1 /\ all[m + 1] = Row
        /\ \A i \in 1 .. m : all[i] = rows[i]
    BY <1>1, <1>2
  <1> HIDE DEF all, c, m
  <1>6. PICK e \in 0 .. m : IsTail(rows', all, e) /\ InOrder(rows')
    <2>1. rows' = all \/ \E days \in Retentions : rows' = Since(all, now - days)
      BY DEF Record, Purge, Purged, all
    <2>2. CASE rows' = all
      <3>1. /\ 0 \in 0 .. Len(all) /\ Len(all) = Len(all) - 0 /\ \A i \in 1 .. Len(all) - 0 : i + 0 = i
        BY <1>1, <1>5
      <3>2. IsTail(all, all, 0)
        BY <1>5, <3>1 DEF IsTail
      <3>3. 0 \in 0 .. m
        BY <1>1
      <3>4. QED
        BY <1>4, <2>2, <3>2, <3>3
    <2>3. ASSUME NEW days \in Retentions, rows' = Since(all, now - days)
          PROVE  \E e \in 0 .. m : IsTail(rows', all, e) /\ InOrder(rows')
      <3> DEFINE r == now - days
      <3>0. r \in Int /\ r <= now
        BY <1>2, <1>3
      <3> HIDE DEF r
      <3>1. PICK e \in 0 .. Len(all) : IsTail(rows', all, e) /\ Splits(all, r, e) /\ InOrder(rows')
        BY <1>4, <2>3, <3>0, SinceIsTail DEF r
      <3>2. e # m + 1
        <4>1. CASE e = m + 1
          <5>1. all[m + 1].ts < r
            BY <1>1, <3>1, <4>1 DEF Splits
          <5>2. QED
            BY <1>2, <1>5, <3>0, <5>1
        <4>2. QED
          BY <4>1
      <3>3. e \in 0 .. m
        BY <1>1, <1>5, <3>2
      <3>4. QED
        BY <3>1, <3>3
    <2>4. QED
      BY <2>1, <2>2, <2>3
  <1>7. /\ rows' \in Seq(Rows) /\ Len(rows') = m + 1 - e
        /\ \A i \in 1 .. m + 1 - e : rows'[i] = all[i + e]
    <2>1. /\ rows' \in Seq(Rows) /\ Len(rows') = Len(all) - e
          /\ \A i \in 1 .. Len(all) - e : rows'[i] = all[i + e]
      BY <1>6, Zenon DEF IsTail
    <2>2. Len(all) - e = m + 1 - e
      BY <1>1, <1>5
    <2>3. \A i \in 1 .. m + 1 - e : i \in 1 .. Len(all) - e
      BY <2>2
    <2>4. QED
      BY <2>1, <2>2, <2>3, Zenon
  <1>8. PICK d \in 0 .. m + 1 - e : IsTail(new, rows', d) /\ Splits(rows', c, d)
    <2>1. new = Since(rows', c)
      BY DEF c
    <2>2. QED
      BY <1>3, <1>6, <1>7, <2>1, SinceIsTail
  <1>9. d # m + 1 - e
    <2>1. CASE d = m + 1 - e
      <3>1. d \in 1 .. d /\ d + e = m + 1
        BY <1>1, <2>1
      <3>2. rows'[d].ts < c
        BY <1>8, <3>1 DEF Splits
      <3>3. rows'[d] = Row
        BY <1>5, <1>7, <2>1, <3>1
      <3>4. QED
        BY <1>2, <1>3, <3>2, <3>3
    <2>2. QED
      BY <2>1
  <1>10. /\ new \in Seq(Rows) /\ Len(new) = m + 1 - e - d
         /\ \A i \in 1 .. m + 1 - e - d : new[i] = rows'[i + d]
    <2>1. /\ new \in Seq(Rows) /\ Len(new) = Len(rows') - d
          /\ \A i \in 1 .. Len(rows') - d : new[i] = rows'[i + d]
      BY <1>8, Zenon DEF IsTail
    <2>2. Len(rows') - d = m + 1 - e - d
      BY <1>1, <1>7
    <2>3. \A i \in 1 .. m + 1 - e - d : i \in 1 .. Len(rows') - d
      BY <2>2
    <2>4. QED
      BY <2>1, <2>2, <2>3, Zenon
  <1> DEFINE b == e + d
  <1>11. b \in 0 .. m /\ m + 1 - e - d = m + 1 - b
    BY <1>1, <1>9
  <1>12. ASSUME NEW i \in 1 .. m + 1 - b PROVE new[i] = all[i + b] /\ new[i].ts >= c
    <2>1. /\ i \in 1 .. m + 1 - e - d /\ i + d \in 1 .. m + 1 - e /\ (i + d) + e = i + b
          /\ i + d \in d + 1 .. m + 1 - e
      BY <1>1, <1>11
    <2>2. new[i] = rows'[i + d] /\ rows'[i + d] = all[(i + d) + e]
      BY <1>7, <1>10, <2>1
    <2>3. rows'[i + d].ts >= c
      BY <1>7, <1>8, <2>1 DEF Splits
    <2>4. QED
      BY <2>1, <2>2, <2>3
  <1> HIDE DEF b
  <1>13. new[m + 1 - b] = Row
    <2>1. m + 1 - b \in 1 .. m + 1 - b /\ (m + 1 - b) + b = m + 1
      BY <1>1, <1>11
    <2>2. QED
      BY <1>5, <1>12, <2>1
  <1>14. \A i \in 1 .. m - b : new[i] = rows[i + b]
    <2>1. \A i \in 1 .. m - b : i \in 1 .. m + 1 - b /\ i + b \in 1 .. m
      BY <1>1, <1>11
    <2>2. QED
      BY <1>5, <1>12, <2>1
  <1>15. QED
    BY <1>10, <1>11, <1>12, <1>13, <1>14 DEF m, c

\* tail is the table from a on, and I are indices of it
Part(tail, a, I) ==
    /\ a \in 0 .. Len(rows) /\ I \in SUBSET (1 .. Len(rows) - a)
    /\ \A i \in 1 .. Len(rows) - a : tail[i] = rows[i + a]
SameRows(old, I, new, K) ==
    /\ \A i \in I : \E j \in K : old[i] = new[j]
    /\ \A j \in K : \E i \in I : old[i] = new[j]

Shifted(old, I, new, K, d) == Moves(I, K, d) /\ \A i \in I : new[i + d] = old[i]

\* Two tails of the table that have the same rows somewhere have them at indices that
\* differ by what was dropped.
LEMMA SameSamples ==
    ASSUME HistInv, NEW a, NEW b, NEW old, NEW new, NEW I, NEW K,
           Part(old, a, I), Part(new, b, K), SameRows(old, I, new, K)
    PROVE  Shifted(old, I, new, K, a - b)
  <1> DEFINE m == Len(rows)
  <1>1. m \in Nat /\ a \in 0 .. m /\ b \in 0 .. m
    BY TableInOrder DEF Part
  <1>2. /\ \A i \in I : i \in 1 .. m - a /\ old[i] = rows[i + a]
        /\ \A i \in K : i \in 1 .. m - b /\ new[i] = rows[i + b]
    BY DEF Part
  <1>3. ASSUME NEW p \in 1 .. m, NEW q \in 1 .. m, rows[p] = rows[q] PROVE p = q
    <2>1. \A i, j \in 1 .. m : i < j => rows[i].ts < rows[j].ts
      BY TableInOrder DEF InOrder
    <2>2. rows[p].ts \in Nat /\ rows[p].ts = rows[q].ts
      BY <1>3, TableInOrder
    <2>3. ~(rows[p].ts < rows[q].ts) /\ ~(rows[q].ts < rows[p].ts)
      BY <2>2
    <2>4. ~(p < q) /\ ~(q < p)
      BY <2>1, <2>3
    <2>5. QED
      BY <1>1, <2>4
  <1> HIDE DEF m
  <1>4. ASSUME NEW i \in I, NEW j \in K, old[i] = new[j] PROVE j = i + (a - b)
    <2>1. i + a \in 1 .. m /\ j + b \in 1 .. m
      BY <1>1, <1>2
    <2>2. rows[i + a] = rows[j + b]
      BY <1>2, <1>4
    <2>3. i + a = j + b
      BY <1>3, <2>1, <2>2
    <2>4. i \in Int /\ j \in Int
      BY <1>2
    <2>5. QED
      BY <1>1, <2>3, <2>4
  <1>5. ASSUME NEW i \in I PROVE i + (a - b) \in K /\ new[i + (a - b)] = old[i]
    <2>1. PICK j \in K : old[i] = new[j]
      BY DEF SameRows
    <2>2. QED
      BY <1>4, <2>1
  <1>6. ASSUME NEW j \in K PROVE \E i \in I : j = i + (a - b)
    <2>1. PICK i \in I : old[i] = new[j]
      BY DEF SameRows
    <2>2. QED
      BY <1>4, <2>1
  <1>7. QED
    BY <1>5, <1>6 DEF Moves, Shifted

\* A sample pulls a weighted mean towards itself.
LEMMA MeanMoves ==
    ASSUME NEW s \in Int, NEW v \in Nat, NEW p \in Nat, NEW h \in Int, NEW x, NEW y,
           x.sum = 2 * s, x.weight = 2 * v, y.sum = s + p * h, y.weight = v + p
    PROVE  Off(y, h) * x.weight <= Off(x, h) * y.weight
  <1> DEFINE d == s - h * v
  <1>1. PICK e \in Nat : e = IF d < 0 THEN -d ELSE d
    <2>1. h * v \in Int
      OBVIOUS
    <2>2. d \in Int
      BY <2>1
    <2> HIDE DEF d
    <2>3. QED
      BY <2>2
  <1>2. y.sum - h * y.weight = d /\ x.sum - h * x.weight = 2 * d /\ d \in Int
    <2>1. h * (v + p) = h * v + h * p /\ p * h = h * p /\ h * (2 * v) = 2 * (h * v)
      OBVIOUS
    <2>2. PICK hv \in Int, hp \in Int : hv = h * v /\ hp = h * p
      OBVIOUS
    <2>3. (s + hp) - (hv + hp) = s - hv /\ 2 * s - 2 * hv = 2 * (s - hv) /\ s - hv \in Int
      BY <2>2
    <2>4. QED
      BY <2>1, <2>2, <2>3
  <1> HIDE DEF d
  <1>3. Off(y, h) = e
    BY <1>1, <1>2 DEF Off
  <1>4. Off(x, h) = 2 * e
    BY <1>1, <1>2 DEF Off
  <1>5. e * (2 * v) <= (2 * e) * (v + p)
    <2>1. PICK k \in Nat, l \in Nat : k = e * v /\ l = e * p
      OBVIOUS
    <2>2. e * (2 * v) = 2 * k /\ (2 * e) * (v + p) = 2 * k + 2 * l
      BY <2>1
    <2>3. QED
      BY <2>2
  <1>6. QED
    BY <1>3, <1>4, <1>5

LEMMA MeanIs ==
    ASSUME NEW list, NEW some, NEW at
    PROVE  /\ Mean(list, some, at).sum =
                 Total([i \in some |-> Weight(list[i].ts, at) * list[i].house], some)
           /\ Mean(list, some, at).weight = Total([i \in some |-> Weight(list[i].ts, at)], some)
  <1> DEFINE f == [i \in some |-> Weight(list[i].ts, at) * list[i].house]
             g == [i \in some |-> Weight(list[i].ts, at)]
  <1>1. Mean(list, some, at).sum = SumFunction(f) /\ Mean(list, some, at).weight = SumFunction(g)
    BY DEF Mean
  <1>2. DOMAIN f = some /\ DOMAIN g = some
    OBVIOUS
  <1> HIDE DEF f, g
  <1>3. SumFunction(f) = Total(f, some) /\ SumFunction(g) = Total(g, some)
    BY <1>2, SumIsTotal
  <1>4. QED
    BY <1>1, <1>3 DEF f, g

LEMMA PredictIs ==
    ASSUME NEW list, NEW n \in Nat, DOMAIN list = 1 .. n, NEW at, NEW ts, NEW own \in SUBSET (1 .. n),
           \A i \in 1 .. n : i \in own <=> Bucket(list[i].ts) = Bucket(ts), own # {}
    PROVE  Predict(list, at, ts) = Mean(list, own, at)
  <1>1. own = {i \in DOMAIN list : Bucket(list[i].ts) = Bucket(ts)}
    OBVIOUS
  <1>2. QED
    BY <1>1, Zenon DEF Predict

LEMMA RecordFollows == ASSUME HistInv, Record PROVE Follows
  <1> DEFINE m == Len(rows)
             c == now - Past
             old == Since(rows, c)
             new == Since(rows', c)
             before == Forecast(old, now - 1)
             after == Forecast(new, now)
  <1>1. /\ InOrder(rows) /\ m \in Nat /\ Past \in Nat /\ c \in Int /\ now \in Nat
        /\ \A i \in 1 .. m : rows[i] \in Rows /\ rows[i].ts \in Nat /\ rows[i].ts < now
    <2>1. now \in Nat /\ Past \in Nat
      BY RowIs, HistoryAssumption
    <2>2. QED
      BY <2>1, TableInOrder
  <1>2. PICK a \in 0 .. m : IsTail(old, rows, a) /\ Splits(rows, c, a)
    BY <1>1, SinceIsTail
  <1>3. /\ DOMAIN old = 1 .. m - a /\ m - a \in Nat /\ \A i \in 1 .. m - a : old[i] = rows[i + a]
        /\ \A i \in 1 .. m - a : i + a \in 1 .. m /\ rows[i + a].ts >= c
    <2> HIDE DEF old, m
    <2>1. /\ old \in Seq(Rows) /\ Len(old) = m - a /\ \A i \in 1 .. m - a : old[i] = rows[i + a]
      BY <1>2 DEF IsTail, m
    <2>2. DOMAIN old = 1 .. m - a
      BY <2>1
    <2>3. \A i \in 1 .. m - a : i + a \in 1 .. m /\ i + a \in a + 1 .. m
      BY <1>1
    <2>4. QED
      BY <1>1, <1>2, <2>1, <2>2, <2>3 DEF Splits, m
  <1>4. PICK b \in 0 .. m :
           /\ new \in Seq(Rows) /\ Len(new) = m + 1 - b
           /\ new[m + 1 - b] = Row
           /\ \A i \in 1 .. m - b : new[i] = rows[i + b]
           /\ \A i \in 1 .. m + 1 - b : new[i].ts >= c
    BY NewIs
  <1>5. DOMAIN new = 1 .. m + 1 - b /\ m + 1 - b \in Nat
    <2> HIDE DEF new, m
    <2>1. QED
      BY <1>1, <1>4
  <1>6. Row \in Rows /\ Row.ts = now /\ Row.house = reading.house /\ reading.house \in Nat
    <2>1. Row \in Rows /\ Row.ts = now
      BY RowIs
    <2>2. Row.house = reading.house
      BY DEF Row
    <2>3. QED
      BY <2>1, <2>2 DEF Rows
  <1> SUFFICES ASSUME NEW ts \in DOMAIN before \cap DOMAIN after,
                      Dated(old, ts) # {}, Dated(old, ts) = Dated(new, ts)
               PROVE  IF Bucket(ts) = Bucket(now)
                      THEN Off(after[ts], reading.house) * before[ts].weight
                             <= Off(before[ts], reading.house) * after[ts].weight
                      ELSE before[ts].sum * after[ts].weight = after[ts].sum * before[ts].weight
    BY DEF Follows
  <1>7. before[ts] = Predict(old, now - 1, ts) /\ after[ts] = Predict(new, now, ts)
    <2> HIDE DEF old, new
    <2>1. QED
      BY DEF Forecast
  <1> HIDE DEF old, new, before, after, m, c
  <1> DEFINE In(r) == Bucket(r.ts) = Bucket(ts)
             I == {i \in 1 .. m - a : In(old[i])}
             J == {i \in 1 .. m + 1 - b : In(new[i])}
             K == {i \in 1 .. m - b : In(new[i])}
             last == m + 1 - b
             h == reading.house
  <1>8. ASSUME NEW i \in 1 .. m - b
        PROVE  i \in 1 .. last /\ i # last /\ new[i] \in Rows /\ new[i].ts \in Nat /\ new[i].ts < now
    <2>1. i \in 1 .. last /\ i # last /\ i + b \in 1 .. m
      BY <1>1
    <2>2. QED
      BY <1>1, <1>4, <2>1
  <1>9. \A i \in 1 .. last : i \in 1 .. m - b \/ i = last
    BY <1>1
  <1>10. Dated(old, ts) = {old[i] : i \in I} /\ Dated(new, ts) = {new[i] : i \in K}
    <2>1. {j \in DOMAIN old : old[j].ts < now /\ Bucket(old[j].ts) = Bucket(ts)} = I
      BY <1>1, <1>3
    <2>2. {j \in DOMAIN new : new[j].ts < now /\ Bucket(new[j].ts) = Bucket(ts)} = K
      <3>1. ~(new[last].ts < now)
        BY <1>1, <1>4, <1>6
      <3>2. QED
        BY <1>5, <1>8, <1>9, <3>1
    <2> HIDE DEF I, K
    <2>3. QED
      BY <2>1, <2>2 DEF Dated
  <1>11. I # {} /\ SameRows(old, I, new, K)
    <2> HIDE DEF I, K
    <2>1. {old[i] : i \in I} # {} /\ {old[i] : i \in I} = {new[i] : i \in K}
      BY <1>10
    <2>2. (\A i \in I : old[i] \in {new[j] : j \in K}) /\ \A j \in K : new[j] \in {old[i] : i \in I}
      BY <2>1
    <2>3. QED
      BY <2>1, <2>2 DEF SameRows
  <1> DEFINE d == a - b
  <1>12. Moves(I, K, d) /\ \A i \in I : i + d \in K /\ new[i + d] = old[i]
    <2>1. I \in SUBSET (1 .. m - a) /\ K \in SUBSET (1 .. m - b)
      OBVIOUS
    <2> HIDE DEF I, K
    <2>2. Part(old, a, I) /\ Part(new, b, K)
      <3>1. Part(old, a, I)
        BY <1>3, <2>1 DEF m, Part
      <3>2. Part(new, b, K)
        BY <1>4, <2>1 DEF m, Part
      <3>3. QED
        BY <3>1, <3>2
    <2>3. Shifted(old, I, new, K, d)
      <3>1. SameRows(old, I, new, K)
        BY <1>11
      <3>2. QED
        BY <2>2, <3>1, SameSamples
    <2> HIDE DEF d
    <2>4. QED
      BY <2>3 DEF Moves, Shifted
  <1>13. K \subseteq J /\ J \subseteq K \cup {last} /\ last \notin K /\ (last \in J <=> Bucket(now) = Bucket(ts))
    <2>1. last \in 1 .. last
      BY <1>1
    <2>2. new[last].ts = now
      BY <1>4, <1>6
    <2>3. QED
      BY <1>8, <1>9, <2>1, <2>2
  <1>14. J # {}
    BY <1>11, <1>12, <1>13
  <1>15. before[ts] = Mean(old, I, now - 1)
    <2>1. I \in SUBSET (1 .. m - a) /\ \A i \in 1 .. m - a : i \in I <=> Bucket(old[i].ts) = Bucket(ts)
      OBVIOUS
    <2> HIDE DEF I
    <2>2. QED
      <3>1. m - a \in Nat /\ DOMAIN old = 1 .. m - a /\ I # {}
        BY <1>3, <1>11
      <3>2. Predict(old, now - 1, ts) = Mean(old, I, now - 1)
        BY <2>1, <3>1, PredictIs
      <3>3. QED
        BY <1>7, <3>2
  <1>16. after[ts] = Mean(new, J, now)
    <2>1. J \in SUBSET (1 .. last) /\ \A i \in 1 .. last : i \in J <=> Bucket(new[i].ts) = Bucket(ts)
      OBVIOUS
    <2> HIDE DEF J
    <2>2. QED
      BY <1>5, <1>7, <1>14, <2>1, PredictIs

  <1> DEFINE f == [i \in I |-> Weight(old[i].ts, now - 1) * old[i].house]
             fw == [i \in I |-> Weight(old[i].ts, now - 1)]
             g == [i \in J |-> Weight(new[i].ts, now) * new[i].house]
             gw == [i \in J |-> Weight(new[i].ts, now)]
  <1>17. /\ before[ts].sum = Total(f, I) /\ before[ts].weight = Total(fw, I)
         /\ after[ts].sum = Total(g, J) /\ after[ts].weight = Total(gw, J)
    <2> HIDE DEF I, J
    <2>1. QED
      BY <1>15, <1>16, MeanIs
  <1>18. I \in SUBSET Int /\ IsFiniteSet(I) /\ d \in Int
         /\ IsFiniteSet(K) /\ IsFiniteSet(J)
    <2>1. IsFiniteSet(1 .. m - a) /\ IsFiniteSet(1 .. m + 1 - b) /\ d \in Int
      BY <1>1, <1>3, <1>5, IntervalSize
    <2>2. I \in SUBSET (1 .. m - a) /\ J \in SUBSET (1 .. m + 1 - b) /\ K \in SUBSET J
      BY <1>13
    <2> HIDE DEF I, J, K, d
    <2>3. IsFiniteSet(I) /\ IsFiniteSet(J)
      BY <2>1, <2>2, FS_Subset
    <2>4. IsFiniteSet(K)
      BY <2>2, <2>3, FS_Subset
    <2>5. I \in SUBSET Int
      BY <2>2
    <2>6. QED
      BY <2>1, <2>3, <2>4, <2>5 DEF d
  <1>19. ASSUME NEW i \in J
         PROVE  gw[i] = Weight(new[i].ts, now) /\ gw[i] \in Nat
                /\ g[i] = Weight(new[i].ts, now) * new[i].house /\ g[i] \in Int
    <2>1. new[i].ts \in Nat /\ new[i].ts <= now /\ now - Past <= new[i].ts /\ new[i].house \in Nat
      <3>1. i \in 1 .. m + 1 - b /\ new[i] \in Rows
        BY <1>4, <1>5
      <3>2. new[i].ts \in Nat /\ new[i].house \in Nat
        BY <3>1 DEF Rows
      <3>3. new[i].ts <= now
        <4>1. CASE i \in 1 .. m - b
          BY <1>1, <1>8, <4>1
        <4>2. CASE i = last
          <5>1. new[i] = Row
            BY <1>4, <4>2
          <5>2. QED
            BY <1>1, <1>6, <5>1
        <4>3. QED
          BY <1>9, <3>1, <4>1, <4>2
      <3>4. QED
        BY <1>4, <3>1, <3>2, <3>3 DEF c
    <2>2. Weight(new[i].ts, now) \in Nat
      BY <1>1, <2>1, WeightHalves
    <2>3. gw[i] = Weight(new[i].ts, now) /\ g[i] = Weight(new[i].ts, now) * new[i].house
      BY Zenon
    <2>4. Weight(new[i].ts, now) * new[i].house \in Int
      BY <2>1, <2>2
    <2>5. QED
      BY <2>2, <2>3, <2>4
  <1>20. ASSUME NEW i \in I
         PROVE  /\ i + d \in J /\ fw[i] = 2 * gw[i + d] /\ f[i] = 2 * g[i + d]
    <2>1. i + d \in K /\ i + d \in J /\ new[i + d] = old[i] /\ i + d \in 1 .. m - b
      BY <1>12, <1>13
    <2>2. PICK t \in Nat, w \in Nat : t = old[i].ts /\ w = old[i].house /\ t < now /\ now - Past <= t
      <3>1. i \in 1 .. m - a
        OBVIOUS
      <3>2. old[i] = rows[i + a] /\ rows[i + a] \in Rows /\ rows[i + a].ts < now /\ rows[i + a].ts >= c
        BY <1>1, <1>3, <3>1
      <3>3. QED
        BY <3>2 DEF Rows, c
    <2>3. Weight(t, now) \in Nat /\ Weight(t, now - 1) = 2 * Weight(t, now)
      BY <1>1, <2>2, WeightHalves
    <2>4. fw[i] = Weight(t, now - 1) /\ f[i] = Weight(t, now - 1) * w
      BY <2>2, Zenon
    <2>5. gw[i + d] = Weight(t, now) /\ g[i + d] = Weight(t, now) * w
      BY <1>19, <2>1, <2>2, Zenon
    <2>6. (2 * Weight(t, now)) * w = 2 * (Weight(t, now) * w)
      BY <2>2, <2>3
    <2>7. QED
      BY <2>1, <2>3, <2>4, <2>5, <2>6, Zenon
  <1> HIDE DEF f, fw, g, gw, I, J, K, d
  <1>21. Total(f, I) = 2 * Total(g, K) /\ Total(fw, I) = 2 * Total(gw, K)
    <2>1. Scales(f, g, I, d, 2) /\ Scales(fw, gw, I, d, 2)
      BY <1>19, <1>20 DEF Scales
    <2>2. Total(f, I) = 2 * Total(g, K)
      BY <1>12, <1>18, <2>1, TotalScaled
    <2>3. Total(fw, I) = 2 * Total(gw, K)
      BY <1>12, <1>18, <2>1, TotalScaled
    <2>4. QED
      BY <2>2, <2>3
  <1>22. PICK s \in Int, v \in Nat : s = Total(g, K) /\ v = Total(gw, K)
    <2>1. \A i \in K : g[i] \in Int /\ gw[i] \in Nat
      BY <1>13, <1>19
    <2>2. Total(g, K) \in Int
      BY <1>18, <2>1, TotalType
    <2>3. Total(gw, K) \in Nat
      BY <1>18, <2>1, TotalNatural
    <2>4. QED
      BY <2>2, <2>3
  <1>23. before[ts].sum = 2 * s /\ before[ts].weight = 2 * v
    BY <1>17, <1>21, <1>22
  <1>24. CASE Bucket(ts) = Bucket(now)
    <2>1. last \in J /\ J = K \cup {last} /\ last \notin K
      BY <1>13, <1>24
    <2>2. PICK p \in Nat : p = Weight(now, now) /\ gw[last] = p /\ g[last] = p * h
      <3>1. new[last] = Row /\ Row.ts = now /\ Row.house = h
        BY <1>4, <1>6
      <3>2. gw[last] = Weight(now, now) /\ gw[last] \in Nat /\ g[last] = Weight(now, now) * h
        BY <1>19, <2>1, <3>1, Zenon
      <3>3. QED
        BY <3>2
    <2> HIDE DEF last
    <2>3. Total(g, J) = s + p * h /\ Total(gw, J) = v + p
      <3>1. \A i \in K \cup {last} : g[i] \in Int /\ gw[i] \in Int
        BY <1>19, <2>1
      <3>2. Total(g, K \cup {last}) = Total(g, K) + g[last]
        BY <1>18, <2>1, <3>1, TotalAdd
      <3>3. Total(gw, K \cup {last}) = Total(gw, K) + gw[last]
        BY <1>18, <2>1, <3>1, TotalAdd
      <3>4. QED
        BY <1>22, <2>1, <2>2, <3>2, <3>3, Zenon
    <2>4. h \in Int /\ after[ts].sum = s + p * h /\ after[ts].weight = v + p
      BY <1>6, <1>17, <2>3
    <2> HIDE DEF h
    <2>5. Off(after[ts], h) * before[ts].weight <= Off(before[ts], h) * after[ts].weight
      BY <1>22, <1>23, <2>2, <2>4, MeanMoves
    <2>6. QED
      BY <1>24, <2>5 DEF h
  <1>25. CASE Bucket(ts) # Bucket(now)
    <2>1. J = K
      BY <1>13, <1>25
    <2>2. after[ts].sum = s /\ after[ts].weight = v
      BY <1>17, <1>22, <2>1
    <2>3. (2 * s) * v = s * (2 * v)
      BY <1>22
    <2>4. before[ts].sum * after[ts].weight = after[ts].sum * before[ts].weight
      BY <1>23, <2>2, <2>3, Zenon
    <2>5. QED
      BY <1>25, <2>4
  <1>26. QED
    BY <1>24, <1>25

\* ForecastFollows: what is recorded never moves the forecast of its own hour away from it
\* and leaves that of every other hour with samples as it was (build_load_profile).
THEOREM ForecastsFollow == HistorySpec => ForecastFollows
  <1>1. HistInv /\ [HistoryNext]_historyVars => (taken' # taken => Follows)
    <2> SUFFICES ASSUME HistInv, [HistoryNext]_historyVars, taken' # taken PROVE Follows
      OBVIOUS
    <2>1. Record
      BY DEF HistoryNext, Drop, Miss, Ask, historyVars
    <2>2. QED
      BY <2>1, RecordFollows
  <1>2. HistInv /\ [HistoryNext]_historyVars => [taken' # taken => Follows]_historyVars
    BY <1>1
  <1>3. QED
    BY <1>2, HistInvHolds, PTL DEF HistorySpec, ForecastFollows
=============================================================================
