------------------------------ MODULE SumTheorems ------------------------------
(***************************************************************************)
(* Facts about SumFunctionOnSet, the sum of f[x] over the elements x of a  *)
(* finite set.  The library defines it by recursion over the subsets of    *)
(* the set, one CHOOSEn element at a time; here it is shown that the       *)
(* recursion has exactly one solution and that the order does not matter.  *)
(* Induction goes over a family of subsets, by its minimal elements, since *)
(* a theorem with an operator parameter cannot be instantiated.            *)
(***************************************************************************)
EXTENDS Integers, FiniteSets, Functions, FiniteSetTheorems, TLAPS

\* Induction over the subsets of a finite set: a family that has a subset
\* whenever it has all its proper subsets has all of them.
LEMMA SubsetInduction ==
  ASSUME NEW S, IsFiniteSet(S), NEW Family,
         \A T \in SUBSET S : (\A U \in SUBSET T : U # T => U \in Family) => T \in Family
  PROVE  SUBSET S \subseteq Family
<1> DEFINE bad == {T \in SUBSET S : T \notin Family}
<1> SUFFICES ASSUME bad # {} PROVE FALSE
  OBVIOUS
<1>1. IsWellFoundedOn(StrictSubsetOrdering(S), SUBSET S)
  <2>1. FiniteSubsetsOf(S) = SUBSET S
    BY FS_FiniteSubsetsOfFinite
  <2>2. IsWellFoundedOn(StrictSubsetOrdering(S), FiniteSubsetsOf(S))
    BY FS_StrictSubsetOrderingWellFounded
  <2> QED
    BY <2>1, <2>2
<1>2. PICK T \in bad : \A U \in bad : <<U, T>> \notin StrictSubsetOrdering(S)
  <2> DEFINE less == StrictSubsetOrdering(S)
             all == SUBSET S
  <2>1. bad \subseteq all /\ bad # {} /\ IsWellFoundedOn(less, all)
    BY <1>1
  <2> HIDE DEF bad, less, all
  <2>2. \E T \in bad : \A U \in bad : ~ (<<U, T>> \in less)
    BY <2>1, WFMin
  <2> QED
    BY <2>2 DEF less
<1>3. ASSUME NEW U \in SUBSET T, U # T PROVE U \in Family
  <2>1. <<U, T>> \in StrictSubsetOrdering(S)
    BY <1>3 DEF StrictSubsetOrdering
  <2> QED
    BY <1>2, <1>3, <2>1
<1> QED
  BY <1>2, <1>3

-----------------------------------------------------------------------------
Pick(T) == CHOOSE x \in T : TRUE

LEMMA PickIn == \A T : T # {} => Pick(T) \in T
  BY DEF Pick

\* g is the recursive function that sums f over the subsets of S.
SumsUp(f, g, S) ==
    g = [T \in SUBSET S |-> IF T = {} THEN 0 ELSE f[Pick(T)] + g[T \ {Pick(T)}]]

\* Two such functions agree where both are defined.
LEMMA SumsUpUnique ==
  ASSUME NEW S, IsFiniteSet(S), NEW f, NEW g, NEW h, NEW R,
         SumsUp(f, g, S), SumsUp(f, h, R), S \subseteq R
  PROVE  \A T \in SUBSET S : g[T] = h[T]
<1> DEFINE Family == {T \in SUBSET S : g[T] = h[T]}
<1>1. ASSUME NEW T \in SUBSET S, \A U \in SUBSET T : U # T => U \in Family
      PROVE  T \in Family
  <2>1. g[T] = IF T = {} THEN 0 ELSE f[Pick(T)] + g[T \ {Pick(T)}]
    BY DEF SumsUp
  <2>2. h[T] = IF T = {} THEN 0 ELSE f[Pick(T)] + h[T \ {Pick(T)}]
    BY DEF SumsUp
  <2>3. CASE T = {}
    BY <2>1, <2>2, <2>3
  <2>4. CASE T # {}
    <3>1. T \ {Pick(T)} \in SUBSET T /\ T \ {Pick(T)} # T
      BY <2>4, PickIn
    <3>2. g[T \ {Pick(T)}] = h[T \ {Pick(T)}]
      BY <1>1, <3>1
    <3> QED
      BY <2>1, <2>2, <3>2
  <2> QED
    BY <2>3, <2>4
<1>2. SUBSET S \subseteq Family
  <2> HIDE DEF Family
  <2> QED
    BY <1>1, SubsetInduction
<1> QED
  BY <1>2

\* There is one for every finite set: it is put together from those for the
\* proper subsets.
LEMMA SumsUpExists ==
  ASSUME NEW S, IsFiniteSet(S), NEW f
  PROVE  \E g : SumsUp(f, g, S)
<1> DEFINE Family == {T \in SUBSET S : \E g : SumsUp(f, g, T)}
           the(T) == CHOOSE g : SumsUp(f, g, T)
<1>1. ASSUME NEW T \in SUBSET S, \A U \in SUBSET T : U # T => U \in Family
      PROVE  T \in Family
  <2>1. \A U \in SUBSET T : U # T => SumsUp(f, the(U), U)
    BY <1>1
  <2> DEFINE below(U) == the(U)[U]
             g == [U \in SUBSET T |->
                     IF U # T THEN below(U)
                     ELSE IF T = {} THEN 0 ELSE f[Pick(T)] + below(T \ {Pick(T)})]
  <2> HIDE DEF the
  <2>2. ASSUME NEW U \in SUBSET T, U # T, U # {}
        PROVE  below(U) = f[Pick(U)] + below(U \ {Pick(U)})
    <3> DEFINE V == U \ {Pick(U)}
    <3>1. V \in SUBSET U /\ V # T /\ V \in SUBSET T /\ IsFiniteSet(V)
      BY <2>2, PickIn, FS_Subset
    <3>2. SumsUp(f, the(U), U) /\ SumsUp(f, the(V), V)
      BY <2>1, <2>2, <3>1
    <3>3. the(V)[V] = the(U)[V]
      <4> HIDE DEF V
      <4> QED
        BY <3>1, <3>2, SumsUpUnique
    <3>4. the(U)[U] = IF U = {} THEN 0 ELSE f[Pick(U)] + the(U)[U \ {Pick(U)}]
      BY <3>2 DEF SumsUp
    <3> QED
      BY <2>2, <3>3, <3>4
  <2>3. ASSUME {} # T PROVE below({}) = 0
    <3>1. SumsUp(f, the({}), {})
      BY <2>1, <2>3
    <3>2. the({})[{}] = IF {} = {} THEN 0 ELSE f[Pick({})] + the({})[{} \ {Pick({})}]
      BY <3>1 DEF SumsUp
    <3> QED
      BY <3>2
  <2>4. ASSUME NEW U \in SUBSET T
        PROVE  g[U] = IF U = {} THEN 0 ELSE f[Pick(U)] + g[U \ {Pick(U)}]
    <3>1. U # {} => U \ {Pick(U)} \in SUBSET T /\ U \ {Pick(U)} # T
      BY PickIn
    <3> HIDE DEF below
    <3>2. U # {} => g[U \ {Pick(U)}] = below(U \ {Pick(U)})
      BY <3>1
    <3> QED
      BY <2>2, <2>3, <3>2
  <2>5. SumsUp(f, g, T)
    <3> HIDE DEF below
    <3>1. g = [U \in SUBSET T |-> g[U]]
      OBVIOUS
    <3> HIDE DEF g
    <3> QED
      BY <2>4, <3>1 DEF SumsUp
  <2> QED
    BY <2>5
<1>2. SUBSET S \subseteq Family
  <2> HIDE DEF Family
  <2> QED
    BY <1>1, SubsetInduction
<1> QED
  BY <1>2

\* The sum of the library is what such a function says of the whole set.
LEMMA SumIsSumsUp ==
  ASSUME NEW S, IsFiniteSet(S), NEW f
  PROVE  \E g : SumsUp(f, g, S) /\ SumFunctionOnSet(f, S) = g[S]
<1>1. PICK g : SumsUp(f, g, S)
  BY SumsUpExists
<1> DEFINE it == CHOOSE iter : iter = [s \in SUBSET S |->
                      IF s = {} THEN 0
                      ELSE f[CHOOSE x \in s : TRUE] + iter[s \ {CHOOSE x \in s : TRUE}]]
<1>2. SumsUp(f, it, S)
  BY <1>1 DEF SumsUp, Pick
<1>3. SumFunctionOnSet(f, S) = it[S]
  BY DEF SumFunctionOnSet, FoldFunctionOnSet, MapThenFoldSet
<1> QED
  BY <1>2, <1>3

-----------------------------------------------------------------------------
\* The defining equation, from any larger set's recursion.
LEMMA SumFromSumsUp ==
  ASSUME NEW S, IsFiniteSet(S), NEW f, NEW g, SumsUp(f, g, S), NEW T \in SUBSET S
  PROVE  SumFunctionOnSet(f, T) = g[T]
<1>1. IsFiniteSet(T)
  BY FS_Subset
<1>2. PICK h : SumsUp(f, h, T) /\ SumFunctionOnSet(f, T) = h[T]
  BY <1>1, SumIsSumsUp
<1>3. \A U \in SUBSET T : h[U] = g[U]
  BY <1>1, <1>2, SumsUpUnique
<1> QED
  BY <1>2, <1>3

\* The sum over no element.
THEOREM SumEmpty == \A f : SumFunctionOnSet(f, {}) = 0
<1> SUFFICES ASSUME NEW f PROVE SumFunctionOnSet(f, {}) = 0
  OBVIOUS
<1>1. PICK g : SumsUp(f, g, {}) /\ SumFunctionOnSet(f, {}) = g[{}]
  BY FS_EmptySet, SumIsSumsUp
<1>2. g[{}] = IF {} = {} THEN 0 ELSE f[Pick({})] + g[{} \ {Pick({})}]
  BY <1>1 DEF SumsUp
<1> QED
  BY <1>1, <1>2

\* The sum over some elements, taken apart at the element the recursion picks.
LEMMA SumPicked ==
  ASSUME NEW S, IsFiniteSet(S), S # {}, NEW f
  PROVE  SumFunctionOnSet(f, S) = f[Pick(S)] + SumFunctionOnSet(f, S \ {Pick(S)})
<1>1. PICK g : SumsUp(f, g, S) /\ SumFunctionOnSet(f, S) = g[S]
  BY SumIsSumsUp
<1>2. g[S] = IF S = {} THEN 0 ELSE f[Pick(S)] + g[S \ {Pick(S)}]
  BY <1>1 DEF SumsUp
<1>3. SumFunctionOnSet(f, S \ {Pick(S)}) = g[S \ {Pick(S)}]
  <2> DEFINE T == S \ {Pick(S)}
  <2>1. T \in SUBSET S
    OBVIOUS
  <2> HIDE DEF T
  <2> QED
    BY <1>1, <2>1, SumFromSumsUp
<1> QED
  BY <1>1, <1>2, <1>3

\* The sum of integers is an integer.
THEOREM SumInt ==
  ASSUME NEW S, IsFiniteSet(S), NEW f, \A x \in S : f[x] \in Int
  PROVE  SumFunctionOnSet(f, S) \in Int
<1> DEFINE Family == {T \in SUBSET S : SumFunctionOnSet(f, T) \in Int}
<1>1. ASSUME NEW T \in SUBSET S, \A U \in SUBSET T : U # T => U \in Family
      PROVE  T \in Family
  <2>1. CASE T = {}
    BY <2>1, SumEmpty
  <2>2. CASE T # {}
    <3>1. IsFiniteSet(T) /\ Pick(T) \in T
      BY <2>2, PickIn, FS_Subset
    <3>2. SumFunctionOnSet(f, T \ {Pick(T)}) \in Int
      BY <1>1, <3>1
    <3>3. SumFunctionOnSet(f, T) = f[Pick(T)] + SumFunctionOnSet(f, T \ {Pick(T)})
      BY <2>2, <3>1, SumPicked
    <3> QED
      BY <3>1, <3>2, <3>3
  <2> QED
    BY <2>1, <2>2
<1>2. SUBSET S \subseteq Family
  <2> HIDE DEF Family
  <2> QED
    BY <1>1, SubsetInduction
<1> QED
  BY <1>2

\* The order does not matter: any element can be taken out first.
THEOREM SumTakeOut ==
  ASSUME NEW S, IsFiniteSet(S), NEW f, \A x \in S : f[x] \in Int, NEW y \in S
  PROVE  SumFunctionOnSet(f, S) = f[y] + SumFunctionOnSet(f, S \ {y})
<1> DEFINE Family == {T \in SUBSET S : \A x \in T :
                        SumFunctionOnSet(f, T) = f[x] + SumFunctionOnSet(f, T \ {x})}
<1>1. ASSUME NEW T \in SUBSET S, \A U \in SUBSET T : U # T => U \in Family
      PROVE  T \in Family
  <2> SUFFICES ASSUME NEW x \in T
               PROVE  SumFunctionOnSet(f, T) = f[x] + SumFunctionOnSet(f, T \ {x})
    OBVIOUS
  <2> DEFINE z == Pick(T)
  <2>1. z \in T
    BY PickIn
  <2>2. \A U \in SUBSET T : IsFiniteSet(U)
    BY FS_Subset
  <2>3. SumFunctionOnSet(f, T) = f[z] + SumFunctionOnSet(f, T \ {z})
    BY <2>2, SumPicked
  <2>4. CASE x # z
    <3>1. T \ {z} \in Family /\ T \ {x} \in Family
      BY <1>1, <2>1
    <3>2. SumFunctionOnSet(f, T \ {z}) = f[x] + SumFunctionOnSet(f, (T \ {z}) \ {x})
      BY <2>4, <3>1
    <3>3. SumFunctionOnSet(f, T \ {x}) = f[z] + SumFunctionOnSet(f, (T \ {x}) \ {z})
      BY <2>1, <2>4, <3>1
    <3> DEFINE U == (T \ {x}) \ {z}
    <3>4. U = (T \ {z}) \ {x}
      OBVIOUS
    <3>5. IsFiniteSet(U) /\ \A w \in U : f[w] \in Int
      BY <2>2
    <3>6. f[x] \in Int /\ f[z] \in Int
      BY <2>1
    <3>7. /\ SumFunctionOnSet(f, T \ {z}) = f[x] + SumFunctionOnSet(f, U)
          /\ SumFunctionOnSet(f, T \ {x}) = f[z] + SumFunctionOnSet(f, U)
      BY <3>2, <3>3, <3>4
    <3> HIDE DEF U, z, Family
    <3>8. SumFunctionOnSet(f, U) \in Int
      BY <3>5, SumInt
    <3> QED
      BY <2>3, <3>6, <3>7, <3>8
  <2> QED
    BY <2>3, <2>4
<1>2. SUBSET S \subseteq Family
  <2> HIDE DEF Family
  <2> QED
    BY <1>1, SubsetInduction
<1> QED
  BY <1>2

\* The sum with one more element.
THEOREM SumAdd ==
  ASSUME NEW S, IsFiniteSet(S), NEW f, NEW y, y \notin S, \A x \in S \cup {y} : f[x] \in Int
  PROVE  SumFunctionOnSet(f, S \cup {y}) = f[y] + SumFunctionOnSet(f, S)
<1> DEFINE T == S \cup {y}
<1>1. IsFiniteSet(T) /\ y \in T /\ T \ {y} = S /\ \A x \in T : f[x] \in Int
  BY FS_AddElement
<1> HIDE DEF T
<1>2. SumFunctionOnSet(f, T) = f[y] + SumFunctionOnSet(f, T \ {y})
  BY <1>1, SumTakeOut
<1> QED
  BY <1>1, <1>2 DEF T

\* A sum grows with what is summed.
THEOREM SumMonotone ==
  ASSUME NEW S, IsFiniteSet(S), NEW f, NEW g, \A x \in S : f[x] \in Int /\ g[x] \in Int,
         \A x \in S : f[x] <= g[x]
  PROVE  SumFunctionOnSet(f, S) <= SumFunctionOnSet(g, S)
<1> DEFINE Family == {T \in SUBSET S : SumFunctionOnSet(f, T) <= SumFunctionOnSet(g, T)}
<1>1. ASSUME NEW T \in SUBSET S, \A U \in SUBSET T : U # T => U \in Family
      PROVE  T \in Family
  <2>1. CASE T = {}
    BY <2>1, SumEmpty
  <2>2. CASE T # {}
    <3> DEFINE U == T \ {Pick(T)}
    <3>1. IsFiniteSet(T) /\ IsFiniteSet(U) /\ Pick(T) \in T /\ U \in SUBSET T /\ U # T
      BY <2>2, PickIn, FS_Subset
    <3>2. SumFunctionOnSet(f, U) <= SumFunctionOnSet(g, U)
      BY <1>1, <3>1
    <3>3. /\ SumFunctionOnSet(f, T) = f[Pick(T)] + SumFunctionOnSet(f, U)
          /\ SumFunctionOnSet(g, T) = g[Pick(T)] + SumFunctionOnSet(g, U)
      BY <2>2, <3>1, SumPicked
    <3>4. \A x \in U : f[x] \in Int /\ g[x] \in Int
      OBVIOUS
    <3> HIDE DEF U
    <3>5. SumFunctionOnSet(f, U) \in Int /\ SumFunctionOnSet(g, U) \in Int
      BY <3>1, <3>4, SumInt
    <3> QED
      BY <3>1, <3>2, <3>3, <3>5
  <2> QED
    BY <2>1, <2>2
<1>2. SUBSET S \subseteq Family
  <2> HIDE DEF Family
  <2> QED
    BY <1>1, SubsetInduction
<1> QED
  BY <1>2

\* A sum depends on nothing but what is summed.
THEOREM SumSame ==
  ASSUME NEW S, IsFiniteSet(S), NEW f, NEW g, \A x \in S : f[x] \in Int /\ g[x] = f[x]
  PROVE  SumFunctionOnSet(f, S) = SumFunctionOnSet(g, S)
<1>1. SumFunctionOnSet(f, S) \in Int /\ SumFunctionOnSet(g, S) \in Int
  BY SumInt
<1>2. \A x \in S : f[x] <= g[x] /\ g[x] <= f[x]
  OBVIOUS
<1>3. SumFunctionOnSet(f, S) <= SumFunctionOnSet(g, S)
  BY <1>2, SumMonotone
<1>4. SumFunctionOnSet(g, S) <= SumFunctionOnSet(f, S)
  BY <1>2, SumMonotone
<1> QED
  BY <1>1, <1>3, <1>4

\* A summand that changes changes the sum by as much.
THEOREM SumChange ==
  ASSUME NEW S, IsFiniteSet(S), NEW f, NEW g, \A x \in S : f[x] \in Int /\ g[x] \in Int,
         NEW y \in S, \A x \in S \ {y} : g[x] = f[x]
  PROVE  SumFunctionOnSet(g, S) = SumFunctionOnSet(f, S) + g[y] - f[y]
<1> DEFINE U == S \ {y}
<1>1. IsFiniteSet(U) /\ \A x \in U : f[x] \in Int /\ g[x] = f[x]
  BY FS_Subset
<1>2. SumFunctionOnSet(f, S) = f[y] + SumFunctionOnSet(f, U)
  BY SumTakeOut
<1>3. SumFunctionOnSet(g, S) = g[y] + SumFunctionOnSet(g, U)
  BY SumTakeOut
<1> HIDE DEF U
<1>4. SumFunctionOnSet(f, U) = SumFunctionOnSet(g, U) /\ SumFunctionOnSet(f, U) \in Int
  BY <1>1, SumSame, SumInt
<1> QED
  BY <1>2, <1>3, <1>4

\* Summing natural numbers over fewer elements gives no more.
THEOREM SumSubset ==
  ASSUME NEW S, IsFiniteSet(S), NEW f, \A x \in S : f[x] \in Nat, NEW R \in SUBSET S
  PROVE  /\ SumFunctionOnSet(f, R) \in Nat
         /\ SumFunctionOnSet(f, R) <= SumFunctionOnSet(f, S)
<1> DEFINE Family == {T \in SUBSET S : \A U \in SUBSET T :
                        0 <= SumFunctionOnSet(f, U)
                        /\ SumFunctionOnSet(f, U) <= SumFunctionOnSet(f, T)}
<1>t. \A T \in SUBSET S : IsFiniteSet(T) /\ SumFunctionOnSet(f, T) \in Int
  BY FS_Subset, SumInt
<1>1. ASSUME NEW T \in SUBSET S, \A U \in SUBSET T : U # T => U \in Family
      PROVE  T \in Family
  <2>1. CASE T = {}
    BY <2>1, SumEmpty
  <2>2. CASE T # {}
    <3>1. ASSUME NEW x \in T
          PROVE  /\ SumFunctionOnSet(f, T) = f[x] + SumFunctionOnSet(f, T \ {x})
                 /\ T \ {x} \in Family
      <4>1. IsFiniteSet(T) /\ \A w \in T : f[w] \in Int
        BY <1>t
      <4>2. SumFunctionOnSet(f, T) = f[x] + SumFunctionOnSet(f, T \ {x})
        BY <4>1, SumTakeOut
      <4> QED
        BY <1>1, <4>2
    <3>2. ASSUME NEW U \in SUBSET T, NEW x \in T, x \notin U
          PROVE  0 <= SumFunctionOnSet(f, U) /\ SumFunctionOnSet(f, U) <= SumFunctionOnSet(f, T)
      <4>1. U \in SUBSET (T \ {x})
        BY <3>2
      <4>2. /\ 0 <= SumFunctionOnSet(f, U)
            /\ SumFunctionOnSet(f, U) <= SumFunctionOnSet(f, T \ {x})
        BY <3>1, <4>1
      <4>3. /\ SumFunctionOnSet(f, T \ {x}) \in Int /\ SumFunctionOnSet(f, U) \in Int
            /\ f[x] \in Nat
        BY <1>t
      <4>4. SumFunctionOnSet(f, T) = f[x] + SumFunctionOnSet(f, T \ {x})
        BY <3>1
      <4> HIDE DEF Family
      <4> QED
        BY <4>2, <4>3, <4>4
    <3>3. 0 <= SumFunctionOnSet(f, {}) /\ SumFunctionOnSet(f, {}) <= SumFunctionOnSet(f, T)
      BY <2>2, <3>2
    <3>4. 0 <= SumFunctionOnSet(f, T)
      BY <3>3, SumEmpty
    <3>5. \A U \in SUBSET T : U # T => \E x \in T : x \notin U
      OBVIOUS
    <3> QED
      BY <1>t, <3>2, <3>4, <3>5
  <2> QED
    BY <2>1, <2>2
<1>2. SUBSET S \subseteq Family
  <2> HIDE DEF Family
  <2> QED
    BY <1>1, SubsetInduction
<1>3. 0 <= SumFunctionOnSet(f, R) /\ SumFunctionOnSet(f, R) <= SumFunctionOnSet(f, S)
  BY <1>2
<1> QED
  BY <1>t, <1>3
=============================================================================
