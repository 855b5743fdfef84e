----------------------------- MODULE SumTheorems -----------------------------
(***************************************************************************)
(* What SumFunctionOnSet of the module Functions computes for finite sets: *)
(* the sum of a set with one more element, of a set with one element       *)
(* changed, and of no elements.                                            *)
(***************************************************************************)
EXTENDS Functions, FiniteSetTheorems, TLAPS

\* The element a fold of the module Functions takes next.
Pick(s) == CHOOSE x \in s : TRUE

\* g computes the sums of the members of sets, which holds with a set the set
\* without its next element.
Sums(g, f, sets) ==
    \A s \in sets : g[s] = IF s = {} THEN 0 ELSE f[Pick(s)] + g[s \ {Pick(s)}]

\* A finite set of integers to sum up.
Summable(f, S) == IsFiniteSet(S) /\ \A x \in S : f[x] \in Int

\* g and h compute the sums of subsets of S and T, and T has the same values.
SameSums(g, e, S, h, f, T) ==
    /\ IsFiniteSet(S) /\ T \subseteq S
    /\ \A x \in T : e[x] = f[x]
    /\ Sums(g, e, SUBSET S) /\ Sums(h, f, SUBSET T)

\* SumFunctionOnSet is the function Functions chooses for a fold with +.
LEMMA SumIsFold ==
  ASSUME NEW f, NEW S
  PROVE  SumFunctionOnSet(f, S) =
            (CHOOSE g : g = [s \in SUBSET S |->
                                IF s = {} THEN 0 ELSE f[Pick(s)] + g[s \ {Pick(s)}]])[S]
BY DEF SumFunctionOnSet, FoldFunctionOnSet, MapThenFoldSet, Pick

\* Induction over the natural numbers, for a set of them.
LEMMA SetOfNat ==
  ASSUME NEW G, 0 \in G, \A n \in Nat : n \in G => n + 1 \in G
  PROVE  Nat \subseteq G
<1> SUFFICES ASSUME NEW n \in Nat, n \notin G PROVE FALSE
  OBVIOUS
<1> DEFINE B == Nat \ G
<1>1. B \subseteq Nat /\ B # {}
  OBVIOUS
<1>2. PICK m \in B : \A k \in B : ~(<<k, m>> \in OpToRel(<, Nat))
  BY <1>1, WFMin, NatLessThanWellFounded
<1>3. \A k \in B : ~(k < m)
  BY <1>1, <1>2 DEF OpToRel
<1> QED
  BY <1>3

\* A smallest set among subsets of a finite one.
LEMMA SmallestSet ==
  ASSUME NEW S, IsFiniteSet(S), NEW B \in SUBSET (SUBSET S), B # {}
  PROVE  \E T \in B : \A U \in B : U \subseteq T => U = T
<1>1. FiniteSubsetsOf(S) = SUBSET S
  BY FS_FiniteSubsetsOfFinite
<1>2. IsWellFoundedOn(StrictSubsetOrdering(S), SUBSET S)
  BY <1>1, FS_StrictSubsetOrderingWellFounded
<1>3. PICK T \in B : \A U \in B : ~(<<U, T>> \in StrictSubsetOrdering(S))
  BY <1>2, WFMin
<1>4. \A U \in B : U \subseteq T => U = T
  BY <1>3 DEF StrictSubsetOrdering
<1> QED
  BY <1>4

\* The next element of a set is one of its own.
LEMMA PickIn == ASSUME NEW s, s # {} PROVE Pick(s) \in s
BY DEF Pick

\* There is a function that computes the sums of all subsets of a finite set:
\* by induction on how many elements the subsets have.
LEMMA SumsExist ==
  ASSUME NEW f, NEW S, Summable(f, S)
  PROVE  \E g \in [SUBSET S -> Int] : Sums(g, f, SUBSET S)
<1> DEFINE Upto(n) == {s \in SUBSET S : Cardinality(s) <= n}
           G == {n \in Nat : \E g \in [Upto(n) -> Int] : Sums(g, f, Upto(n))}
<1>0. IsFiniteSet(S) /\ \A x \in S : f[x] \in Int
  BY DEF Summable
<1>1. \A s \in SUBSET S : IsFiniteSet(s) /\ Cardinality(s) \in Nat
                          /\ Cardinality(s) <= Cardinality(S)
  BY <1>0, FS_Subset, FS_CardinalityType
<1>2. Cardinality(S) \in Nat
  BY <1>0, FS_CardinalityType
<1>3. 0 \in G
  <2>1. Upto(0) = {{}}
    <3>1. \A s \in SUBSET S : Cardinality(s) <= 0 <=> s = {}
      BY <1>1, FS_EmptySet
    <3> QED
      BY <3>1
  <2>2. [s \in Upto(0) |-> 0] \in [Upto(0) -> Int]
    OBVIOUS
  <2>3. Sums([s \in Upto(0) |-> 0], f, Upto(0))
    BY <2>1 DEF Sums
  <2> QED
    BY <2>2, <2>3
<1>4. ASSUME NEW n \in Nat, n \in G PROVE n + 1 \in G
  <2>1. PICK g \in [Upto(n) -> Int] : Sums(g, f, Upto(n))
    BY <1>4
  <2> DEFINE h == [s \in Upto(n + 1) |->
                      IF s = {} THEN 0 ELSE f[Pick(s)] + g[s \ {Pick(s)}]]
  <2>2. ASSUME NEW s \in Upto(n + 1), s # {}
        PROVE  s \ {Pick(s)} \in Upto(n) /\ f[Pick(s)] \in Int
    <3>1. Pick(s) \in s /\ s \in SUBSET S /\ Cardinality(s) <= n + 1
      BY <2>2, PickIn
    <3>2. Cardinality(s \ {Pick(s)}) = Cardinality(s) - 1
      BY <1>1, <3>1, FS_RemoveElement
    <3> QED
      BY <1>0, <1>1, <3>1, <3>2
  <2>3. h \in [Upto(n + 1) -> Int]
    BY <2>2
  <2>4. ASSUME NEW s \in Upto(n) PROVE h[s] = g[s] /\ s \in Upto(n + 1)
    <3>1. s \in Upto(n + 1)
      BY <1>1, <2>4
    <3> QED
      BY <2>1, <2>4, <3>1 DEF Sums
  <2>5. Sums(h, f, Upto(n + 1))
    <3> SUFFICES ASSUME NEW s \in Upto(n + 1), s # {}
                 PROVE  h[s] = f[Pick(s)] + h[s \ {Pick(s)}]
      BY DEF Sums
    <3>1. h[s \ {Pick(s)}] = g[s \ {Pick(s)}]
      BY <2>2, <2>4
    <3> QED
      BY <3>1
  <2> HIDE DEF h
  <2>6. \E k \in [Upto(n + 1) -> Int] : Sums(k, f, Upto(n + 1))
    BY <2>3, <2>5
  <2> HIDE DEF Upto
  <2> QED
    BY <1>4, <2>6
<1> HIDE DEF G, Upto
<1>5. Cardinality(S) \in G
  BY <1>2, <1>3, <1>4, SetOfNat
<1>6. Upto(Cardinality(S)) = SUBSET S
  BY <1>1 DEF Upto
<1> QED
  BY <1>5, <1>6 DEF G

\* So the sum of a set is what such a function says.
LEMMA SumIs ==
  ASSUME NEW f, NEW S, Summable(f, S)
  PROVE  \E g \in [SUBSET S -> Int] :
            Sums(g, f, SUBSET S) /\ SumFunctionOnSet(f, S) = g[S]
<1> DEFINE Eq(g) == g = [s \in SUBSET S |->
                            IF s = {} THEN 0 ELSE f[Pick(s)] + g[s \ {Pick(s)}]]
           c == CHOOSE g : Eq(g)
<1>1. PICK g \in [SUBSET S -> Int] : Sums(g, f, SUBSET S)
  BY SumsExist
<1>2. Eq(g)
  BY <1>1 DEF Sums
<1>3. Eq(c)
  BY <1>2
<1> HIDE DEF c
<1>4. Sums(c, f, SUBSET S) /\ c = [s \in SUBSET S |-> c[s]]
  BY <1>3 DEF Sums
<1>5. ASSUME NEW s \in SUBSET S PROVE c[s] = g[s]
  <2> DEFINE B == {t \in SUBSET S : c[t] # g[t]}
  <2> SUFFICES ASSUME B # {} PROVE FALSE
    OBVIOUS
  <2>0. B \in SUBSET (SUBSET S)
    OBVIOUS
  <2>1. PICK t \in B : \A u \in B : u \subseteq t => u = t
    <3> HIDE DEF B
    <3> QED
      BY <2>0, SmallestSet DEF Summable
  <2>2. t # {}
    BY <1>1, <1>4 DEF Sums
  <2>3. Pick(t) \in t
    BY <2>2, PickIn
  <2>4. c[t \ {Pick(t)}] = g[t \ {Pick(t)}]
    BY <2>1, <2>3
  <2> QED
    BY <1>1, <1>4, <2>2, <2>4 DEF Sums
<1>6. c \in [SUBSET S -> Int]
  BY <1>4, <1>5
<1> QED
  BY <1>4, <1>6, SumIsFold DEF c

\* A sum does not depend on the order in which the elements are added.
LEMMA SumsAddAny ==
  ASSUME NEW f, NEW S, Summable(f, S),
         NEW g \in [SUBSET S -> Int], Sums(g, f, SUBSET S)
  PROVE  \A s \in SUBSET S : \A x \in S \ s : g[s \cup {x}] = g[s] + f[x]
<1> DEFINE Right(s) == \A x \in S \ s : g[s \cup {x}] = g[s] + f[x]
           B == {s \in SUBSET S : ~Right(s)}
<1> SUFFICES ASSUME B # {} PROVE FALSE
  OBVIOUS
<1>0. B \in SUBSET (SUBSET S)
  OBVIOUS
<1>1. PICK s \in B : \A u \in B : u \subseteq s => u = s
  <2> HIDE DEF B
  <2> QED
    BY <1>0, SmallestSet DEF Summable
<1>2. PICK x \in S \ s : g[s \cup {x}] # g[s] + f[x]
  BY <1>1
<1> DEFINE y == Pick(s \cup {x})
<1>3. y \in s \cup {x}
  <2>1. s \cup {x} # {}
    OBVIOUS
  <2> QED
    BY <2>1, PickIn
<1>4. g[s \cup {x}] = f[y] + g[(s \cup {x}) \ {y}]
  BY <1>1 DEF Sums
<1> HIDE DEF y
<1>5. y # x
  <2> SUFFICES ASSUME y = x PROVE FALSE
    OBVIOUS
  <2>1. (s \cup {x}) \ {y} = s
    OBVIOUS
  <2>2. g[s] \in Int /\ f[x] \in Int
    BY <1>1 DEF Summable
  <2>3. g[s \cup {x}] = f[x] + g[s]
    BY <1>4, <2>1
  <2> QED
    BY <1>2, <2>2, <2>3
<1>6. Right(s \ {y})
  <2>1. s \ {y} \in SUBSET S /\ s \ {y} \subseteq s /\ s \ {y} # s
    BY <1>1, <1>3, <1>5
  <2>2. s \ {y} \notin B
    <3> HIDE DEF B
    <3> QED
      BY <1>1, <2>1
  <2> HIDE DEF Right
  <2> QED
    BY <2>1, <2>2
<1>7. (s \ {y}) \cup {y} = s /\ (s \cup {x}) \ {y} = (s \ {y}) \cup {x}
  BY <1>3, <1>5
<1>8. /\ g[s] = g[s \ {y}] + f[y]
      /\ g[(s \cup {x}) \ {y}] = g[s \ {y}] + f[x]
  BY <1>1, <1>3, <1>5, <1>6, <1>7
<1>9. g[s \ {y}] \in Int /\ f[x] \in Int /\ f[y] \in Int
  BY <1>1, <1>3 DEF Summable
<1> QED
  BY <1>2, <1>4, <1>8, <1>9

\* Functions that sum the same values up agree.
LEMMA SumsAgree ==
  ASSUME NEW g, NEW e, NEW S, NEW h, NEW f, NEW T, SameSums(g, e, S, h, f, T)
  PROVE  g[T] = h[T]
<1> USE DEF SameSums
<1> DEFINE B == {s \in SUBSET T : g[s] # h[s]}
<1> SUFFICES ASSUME B # {} PROVE FALSE
  OBVIOUS
<1>0. B \in SUBSET (SUBSET S)
  OBVIOUS
<1>1. PICK t \in B : \A u \in B : u \subseteq t => u = t
  <2> HIDE DEF B
  <2> QED
    BY <1>0, SmallestSet
<1>2. t # {}
  BY <1>1 DEF Sums
<1>3. Pick(t) \in t /\ t \in SUBSET T /\ t \in SUBSET S
  BY <1>1, <1>2, PickIn
<1>4. g[t \ {Pick(t)}] = h[t \ {Pick(t)}]
  BY <1>1, <1>3
<1>5. g[t] = e[Pick(t)] + g[t \ {Pick(t)}] /\ h[t] = f[Pick(t)] + h[t \ {Pick(t)}]
  BY <1>2, <1>3 DEF Sums
<1>6. e[Pick(t)] = f[Pick(t)]
  BY <1>3
<1> QED
  BY <1>1, <1>3, <1>4, <1>5, <1>6

-----------------------------------------------------------------------------
(* The facts the other proofs use.                                         *)

\* A sum of integers is an integer.
THEOREM SumType ==
  ASSUME NEW f, NEW S, Summable(f, S)
  PROVE  SumFunctionOnSet(f, S) \in Int
<1>1. PICK g \in [SUBSET S -> Int] : Sums(g, f, SUBSET S) /\ SumFunctionOnSet(f, S) = g[S]
  BY SumIs
<1>2. g[S] \in Int
  OBVIOUS
<1> QED
  BY <1>1, <1>2

\* No elements sum up to zero.
THEOREM SumOfNothing == ASSUME NEW f PROVE SumFunctionOnSet(f, {}) = 0
<1>1. Summable(f, {})
  BY FS_EmptySet DEF Summable
<1>2. PICK g \in [SUBSET {} -> Int] :
         Sums(g, f, SUBSET {}) /\ SumFunctionOnSet(f, {}) = g[{}]
  BY <1>1, SumIs
<1> QED
  BY <1>2 DEF Sums

\* A sum depends on the values it sums up only.
THEOREM SumSame ==
  ASSUME NEW e, NEW f, NEW S, Summable(e, S), \A x \in S : e[x] = f[x]
  PROVE  SumFunctionOnSet(e, S) = SumFunctionOnSet(f, S)
<1>1. Summable(f, S) /\ IsFiniteSet(S)
  BY DEF Summable
<1>2. PICK g \in [SUBSET S -> Int] : Sums(g, e, SUBSET S) /\ SumFunctionOnSet(e, S) = g[S]
  BY SumIs
<1>3. PICK h \in [SUBSET S -> Int] : Sums(h, f, SUBSET S) /\ SumFunctionOnSet(f, S) = h[S]
  BY <1>1, SumIs
<1>4. g[S] = h[S]
  <2>1. SameSums(g, e, S, h, f, S)
    BY <1>1, <1>2, <1>3 DEF SameSums
  <2> QED
    BY <2>1, SumsAgree
<1> QED
  BY <1>2, <1>3, <1>4

\* One more element adds its value.
THEOREM SumAdd ==
  ASSUME NEW f, NEW S, NEW x, Summable(f, S), x \notin S, f[x] \in Int
  PROVE  /\ Summable(f, S \cup {x})
         /\ SumFunctionOnSet(f, S \cup {x}) = SumFunctionOnSet(f, S) + f[x]
<1> DEFINE T == S \cup {x}
<1>1. IsFiniteSet(T) /\ S \in SUBSET T /\ x \in T \ S
  BY FS_AddElement DEF Summable
<1>2. Summable(f, T)
  BY <1>1 DEF Summable
<1> HIDE DEF T
<1>3. PICK g \in [SUBSET T -> Int] : Sums(g, f, SUBSET T) /\ SumFunctionOnSet(f, T) = g[T]
  BY <1>2, SumIs
<1>4. PICK h \in [SUBSET S -> Int] : Sums(h, f, SUBSET S) /\ SumFunctionOnSet(f, S) = h[S]
  BY SumIs
<1>5. g[S] = h[S]
  <2>1. SameSums(g, f, T, h, f, S)
    BY <1>1, <1>3, <1>4 DEF SameSums
  <2> QED
    BY <2>1, SumsAgree
<1>6. g[S \cup {x}] = g[S] + f[x]
  BY <1>1, <1>2, <1>3, SumsAddAny
<1> QED
  BY <1>2, <1>3, <1>4, <1>5, <1>6 DEF T

\* One element less takes its value away.
THEOREM SumRemove ==
  ASSUME NEW f, NEW S, NEW x \in S, Summable(f, S)
  PROVE  /\ Summable(f, S \ {x})
         /\ SumFunctionOnSet(f, S \ {x}) = SumFunctionOnSet(f, S) - f[x]
<1>1. Summable(f, S \ {x}) /\ f[x] \in Int
  BY FS_RemoveElement DEF Summable
<1>2. (S \ {x}) \cup {x} = S /\ x \notin S \ {x}
  OBVIOUS
<1>3. SumFunctionOnSet(f, S) = SumFunctionOnSet(f, S \ {x}) + f[x]
  BY <1>1, <1>2, SumAdd
<1>4. SumFunctionOnSet(f, S \ {x}) \in Int
  BY <1>1, SumType
<1> QED
  BY <1>1, <1>3, <1>4

\* A change of one value changes the sum by as much.
THEOREM SumChange ==
  ASSUME NEW e, NEW f, NEW S, NEW x \in S, Summable(e, S), f[x] \in Int,
         \A y \in S \ {x} : f[y] = e[y]
  PROVE  /\ Summable(f, S)
         /\ SumFunctionOnSet(f, S) = SumFunctionOnSet(e, S) - e[x] + f[x]
<1>1. Summable(f, S)
  BY DEF Summable
<1>2. /\ Summable(e, S \ {x})
      /\ SumFunctionOnSet(e, S \ {x}) = SumFunctionOnSet(e, S) - e[x]
  BY SumRemove
<1>3. SumFunctionOnSet(f, S \ {x}) = SumFunctionOnSet(f, S) - f[x]
  BY <1>1, SumRemove
<1>4. SumFunctionOnSet(e, S \ {x}) = SumFunctionOnSet(f, S \ {x})
  BY <1>2, SumSame
<1>5. /\ SumFunctionOnSet(e, S) \in Int /\ SumFunctionOnSet(f, S) \in Int
      /\ e[x] \in Int /\ f[x] \in Int
  BY <1>1, SumType DEF Summable
<1> QED
  BY <1>1, <1>2, <1>3, <1>4, <1>5

\* Induction over a finite set, for a set of its subsets.
LEMMA SetsByAdding ==
  ASSUME NEW S, IsFiniteSet(S), NEW G, {} \in G,
         \A T \in SUBSET S : \A x \in S \ T : T \in G => T \cup {x} \in G
  PROVE  S \in G
<1> DEFINE B == (SUBSET S) \ G
<1> SUFFICES ASSUME B # {} PROVE FALSE
  OBVIOUS
<1>0. B \in SUBSET (SUBSET S)
  OBVIOUS
<1>1. PICK t \in B : \A u \in B : u \subseteq t => u = t
  <2> HIDE DEF B
  <2> QED
    BY <1>0, SmallestSet
<1>2. PICK x \in t : TRUE
  BY <1>1
<1>3. t \ {x} \in SUBSET S /\ t \ {x} # t /\ t \ {x} \subseteq t
  BY <1>1
<1>4. t \ {x} \in G
  BY <1>1, <1>3
<1>5. (t \ {x}) \cup {x} = t /\ x \in S \ (t \ {x})
  BY <1>1
<1>6. t \in G
  BY <1>3, <1>4, <1>5
<1> QED
  BY <1>1, <1>6

\* A sum of zeros is zero.
THEOREM SumOfZeros ==
  ASSUME NEW f, NEW S, IsFiniteSet(S), \A x \in S : f[x] = 0
  PROVE  SumFunctionOnSet(f, S) = 0
<1> DEFINE G == {T \in SUBSET S : SumFunctionOnSet(f, T) = 0}
<1>1. {} \in G
  BY SumOfNothing
<1>2. ASSUME NEW T \in SUBSET S, NEW x \in S \ T, T \in G
      PROVE  T \cup {x} \in G
  <2>1. Summable(f, T) /\ f[x] = 0 /\ f[x] \in Int /\ x \notin T
    BY FS_Subset DEF Summable
  <2>2. SumFunctionOnSet(f, T \cup {x}) = SumFunctionOnSet(f, T) + f[x]
    BY <2>1, SumAdd
  <2>3. SumFunctionOnSet(f, T) = 0
    BY <1>2
  <2> QED
    BY <2>1, <2>2, <2>3
<1> HIDE DEF G
<1>3. S \in G
  BY <1>1, <1>2, SetsByAdding
<1> QED
  BY <1>3 DEF G

\* A sum of natural numbers is one.
THEOREM SumOfNaturals ==
  ASSUME NEW f, NEW S, IsFiniteSet(S), \A x \in S : f[x] \in Nat
  PROVE  SumFunctionOnSet(f, S) \in Nat
<1> DEFINE G == {T \in SUBSET S : SumFunctionOnSet(f, T) \in Nat}
<1>1. {} \in G
  BY SumOfNothing
<1>2. ASSUME NEW T \in SUBSET S, NEW x \in S \ T, T \in G
      PROVE  T \cup {x} \in G
  <2>1. Summable(f, T) /\ f[x] \in Nat /\ f[x] \in Int /\ x \notin T
    BY FS_Subset DEF Summable
  <2>2. SumFunctionOnSet(f, T \cup {x}) = SumFunctionOnSet(f, T) + f[x]
    BY <2>1, SumAdd
  <2>3. SumFunctionOnSet(f, T) \in Nat
    BY <1>2
  <2> QED
    BY <2>1, <2>2, <2>3
<1> HIDE DEF G
<1>3. S \in G
  BY <1>1, <1>2, SetsByAdding
<1> QED
  BY <1>3 DEF G
=============================================================================
