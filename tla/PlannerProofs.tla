--------------------------- MODULE PlannerProofs ---------------------------
(***************************************************************************)
(* What the planner's operators return, for every playbook the schema      *)
(* admits: sums of costs, the dates of steps, and which steps are kept.    *)
(* What is said of sums holds for any summands: those of a report too.     *)
(*                                                                         *)
(* A sum over a set is a recursive function over its subsets, and a date   *)
(* one over the steps.  That there are such functions, and what they       *)
(* return, follows by induction, which is here always that a set of        *)
(* numbers has a least: no number is the least counterexample.             *)
(***************************************************************************)
EXTENDS Planner, FiniteSetTheorems, WellFoundedInduction, TLAPS

LEMMA LeastNat ==
    ASSUME NEW T, T \subseteq Nat, T # {}
    PROVE  \E x \in T : \A y \in T : x <= y
<1>1. \E x \in T : \A y \in T : ~(<<y, x>> \in OpToRel(<, Nat))
  BY WFMin, NatLessThanWellFounded
<1>2. \A x, y \in T : ~(<<y, x>> \in OpToRel(<, Nat)) => x <= y
  BY DEF OpToRel
<1> QED
  BY <1>1, <1>2

-----------------------------------------------------------------------------
(* Sums over finite sets.                                                  *)

\* What the fold of the community modules takes first from a set.
First(s) == CHOOSE x \in s : TRUE

Adds(g, c, s) == IF s = {} THEN 0 ELSE c[First(s)] + g[s \ {First(s)}]

\* g is the recursive function that sums c up over the subsets of S.
IsSum(g, c, S) == g = [s \in SUBSET S |-> Adds(g, c, s)]

Sum(c, S) == (CHOOSE g : IsSum(g, c, S))[S]

Summable(c, S) == IsFiniteSet(S) /\ \A x \in S : c[x] \in Int

\* g sums c up over the subsets of S with up to n elements.
SumsUpTo(g, c, S, n) ==
    /\ g \in [{s \in SUBSET S : Cardinality(s) <= n} -> Int]
    /\ \A s \in SUBSET S : Cardinality(s) <= n => g[s] = Adds(g, c, s)

SumsUp(g, c, S) ==
    /\ g \in [SUBSET S -> Int]
    /\ \A s \in SUBSET S : g[s] = Adds(g, c, s) /\ Sum(c, s) = g[s]

LEMMA FirstIsIn == \A s : s # {} => First(s) \in s
  BY DEF First

LEMMA Without ==
    ASSUME NEW S, IsFiniteSet(S), NEW x \in S
    PROVE  /\ IsFiniteSet(S \ {x})
           /\ Cardinality(S) \in Nat /\ Cardinality(S \ {x}) \in Nat
           /\ Cardinality(S \ {x}) = Cardinality(S) - 1
  BY FS_RemoveElement, FS_CardinalityType

\* One such function on the sets of up to n elements gives one on those of n + 1.
LEMMA SumGoesOn ==
    ASSUME NEW S, NEW c, Summable(c, S), NEW n \in Nat, NEW g, SumsUpTo(g, c, S, n)
    PROVE  \E h : SumsUpTo(h, c, S, n + 1)
<1> DEFINE D == {s \in SUBSET S : Cardinality(s) <= n}
           E == {s \in SUBSET S : Cardinality(s) <= n + 1}
           h == [s \in E |-> Adds(g, c, s)]
<1> USE DEF Summable, SumsUpTo
<1>1. \A s \in SUBSET S : IsFiniteSet(s) /\ Cardinality(s) \in Nat
  BY FS_Subset, FS_CardinalityType
<1>2. D \subseteq E
  BY <1>1
<1>3. \A s \in D : h[s] = g[s]
  BY <1>2
<1>4. ASSUME NEW s \in E, s # {}
      PROVE  First(s) \in S /\ s \ {First(s)} \in D
  <2>1. First(s) \in s
    BY <1>4, FirstIsIn
  <2>2. Cardinality(s \ {First(s)}) = Cardinality(s) - 1
    BY <1>1, <2>1, Without
  <2>3. Cardinality(s) \in Nat /\ Cardinality(s) <= n + 1 /\ s \in SUBSET S
    BY <1>1
  <2> QED
    BY <2>1, <2>2, <2>3
<1>5. ASSUME NEW s \in E
      PROVE  h[s] \in Int /\ h[s] = Adds(h, c, s)
  <2>1. CASE s = {}
    BY <2>1 DEF Adds
  <2>2. CASE s # {}
    <3>1. First(s) \in S /\ s \ {First(s)} \in D
      BY <1>4, <2>2
    <3>2. h[s] = c[First(s)] + g[s \ {First(s)}]
      BY <2>2 DEF Adds
    <3>3. h[s \ {First(s)}] = g[s \ {First(s)}] /\ g[s \ {First(s)}] \in Int
      BY <1>3, <3>1
    <3> HIDE DEF h, D
    <3> QED
      BY <2>2, <3>1, <3>2, <3>3 DEF Adds
  <2> QED
    BY <2>1, <2>2
<1>6. h \in [E -> Int]
  BY <1>5
<1> HIDE DEF h
<1>7. SumsUpTo(h, c, S, n + 1)
  BY <1>5, <1>6
<1> QED
  BY <1>7

LEMMA SumExists ==
    ASSUME NEW S, NEW c, Summable(c, S)
    PROVE  \E g \in [SUBSET S -> Int] : IsSum(g, c, S)
<1> DEFINE Has(n) == \E g : SumsUpTo(g, c, S, n)
           Lacking == {n \in Nat : ~Has(n)}
<1>1. \A s \in SUBSET S : IsFiniteSet(s) /\ Cardinality(s) \in Nat /\ Cardinality(s) <= Cardinality(S)
  BY FS_Subset, FS_CardinalityType DEF Summable
<1>2. Has(0)
  <2> DEFINE D == {s \in SUBSET S : Cardinality(s) <= 0}
             g == [s \in D |-> 0]
  <2>1. g \in [D -> Int]
    OBVIOUS
  <2>2. ASSUME NEW s \in SUBSET S, Cardinality(s) <= 0
        PROVE  g[s] = Adds(g, c, s)
    <3>1. s = {}
      BY <1>1, <2>2, FS_EmptySet
    <3> QED
      BY <2>2, <3>1 DEF Adds
  <2> HIDE DEF g
  <2>3. SumsUpTo(g, c, S, 0)
    BY <2>1, <2>2 DEF SumsUpTo
  <2> QED
    BY <2>3
<1>3. \A n \in Nat : Has(n) => Has(n + 1)
  BY SumGoesOn
<1>4. Lacking = {}
  <2> HIDE DEF Has
  <2>1. SUFFICES ASSUME Lacking # {}
                 PROVE  FALSE
    OBVIOUS
  <2>2. PICK n \in Lacking : \A m \in Lacking : n <= m
    <3>1. Lacking \subseteq Nat
      OBVIOUS
    <3> HIDE DEF Lacking
    <3> QED
      BY <2>1, <3>1, LeastNat
  <2>3. n # 0 /\ n \in Nat
    BY <1>2
  <2>4. n - 1 \in Nat /\ n - 1 \notin Lacking
    BY <2>2, <2>3
  <2>5. Has(n - 1 + 1)
    BY <1>3, <2>4
  <2>6. n - 1 + 1 = n
    BY <2>3
  <2> QED
    BY <2>5, <2>6
<1>5. Cardinality(S) \in Nat
  BY FS_CardinalityType DEF Summable
<1>6. PICK g : SumsUpTo(g, c, S, Cardinality(S))
  BY <1>4, <1>5
<1>7. {s \in SUBSET S : Cardinality(s) <= Cardinality(S)} = SUBSET S
  BY <1>1
<1>8. g \in [SUBSET S -> Int] /\ \A s \in SUBSET S : g[s] = Adds(g, c, s)
  BY <1>1, <1>6, <1>7 DEF SumsUpTo
<1>9. g = [s \in SUBSET S |-> Adds(g, c, s)]
  BY <1>8
<1> QED
  BY <1>8, <1>9 DEF IsSum

\* Two such functions agree on the sets they share, where their summands do.
LEMMA SumIsOne ==
    ASSUME NEW S, NEW T, IsFiniteSet(S), NEW c, NEW d, NEW g, NEW h,
           IsSum(g, c, S), IsSum(h, d, T),
           \A x \in S \cap T : c[x] = d[x]
    PROVE  \A s \in SUBSET (S \cap T) : g[s] = h[s]
<1> DEFINE Bad == {s \in SUBSET (S \cap T) : g[s] # h[s]}
           N == {Cardinality(s) : s \in Bad}
<1>1. \A s \in SUBSET (S \cap T) : IsFiniteSet(s) /\ Cardinality(s) \in Nat
  <2> SUFFICES ASSUME NEW s \in SUBSET (S \cap T)
               PROVE  IsFiniteSet(s) /\ Cardinality(s) \in Nat
    OBVIOUS
  <2>1. s \subseteq S
    OBVIOUS
  <2> QED
    BY <2>1, FS_Subset, FS_CardinalityType
<1>2. ASSUME NEW s \in Bad
      PROVE  \E r \in Bad : Cardinality(r) < Cardinality(s)
  <2>1. g[s] = Adds(g, c, s) /\ h[s] = Adds(h, d, s)
    <3>1. s \in SUBSET S /\ s \in SUBSET T
      OBVIOUS
    <3>2. \A r \in SUBSET S : g[r] = Adds(g, c, r)
      BY Zenon DEF IsSum
    <3>3. \A r \in SUBSET T : h[r] = Adds(h, d, r)
      BY Zenon DEF IsSum
    <3> QED
      BY <3>1, <3>2, <3>3
  <2>2. s # {}
    BY <2>1 DEF Adds
  <2>3. First(s) \in s /\ c[First(s)] = d[First(s)]
    BY <2>2, FirstIsIn
  <2>4. g[s \ {First(s)}] # h[s \ {First(s)}]
    BY <2>1, <2>2, <2>3 DEF Adds
  <2>5. s \ {First(s)} \in Bad
    BY <2>4
  <2>6. Cardinality(s \ {First(s)}) = Cardinality(s) - 1 /\ Cardinality(s) \in Nat
    BY <1>1, <2>3, Without
  <2> QED
    BY <2>5, <2>6
<1>3. SUFFICES ASSUME Bad # {}
               PROVE  FALSE
  OBVIOUS
<1>4. N \subseteq Nat /\ N # {}
  BY <1>1, <1>3
<1>5. PICK n \in N : \A m \in N : n <= m
  <2> HIDE DEF N
  <2> QED
    BY <1>4, LeastNat
<1>6. PICK s \in Bad : n = Cardinality(s)
  OBVIOUS
<1>7. PICK r \in Bad : Cardinality(r) < Cardinality(s)
  BY <1>2
<1>8. n <= Cardinality(r)
  BY <1>5
<1> QED
  BY <1>1, <1>6, <1>7, <1>8

\* The laws of sums: the empty one, any summand taken out, and what they depend on.
LEMMA SumIs ==
    ASSUME NEW S, NEW c, Summable(c, S)
    PROVE  \E g : SumsUp(g, c, S)
<1>1. PICK g \in [SUBSET S -> Int] : IsSum(g, c, S)
  BY SumExists
<1>2. \A s \in SUBSET S : g[s] = Adds(g, c, s)
  BY <1>1, Zenon DEF IsSum
<1>3. ASSUME NEW s \in SUBSET S
      PROVE  Sum(c, s) = g[s]
  <2>1. Summable(c, s)
    BY FS_Subset DEF Summable
  <2>2. \E h : IsSum(h, c, s)
    BY <2>1, SumExists
  <2> DEFINE h == CHOOSE f : IsSum(f, c, s)
  <2>3. IsSum(h, c, s)
    BY <2>2, Zenon
  <2>4. Sum(c, s) = h[s]
    BY DEF Sum
  <2> HIDE DEF h
  <2>5. s \in SUBSET (S \cap s)
    OBVIOUS
  <2>6. g[s] = h[s]
    BY <1>1, <2>3, <2>5, SumIsOne DEF Summable
  <2> QED
    BY <2>4, <2>6
<1> QED
  BY <1>2, <1>3 DEF SumsUp

LEMMA SumOfNothing == \A c : Sum(c, {}) = 0
<1> SUFFICES ASSUME NEW c
             PROVE  Sum(c, {}) = 0
  OBVIOUS
<1>1. Summable(c, {})
  BY FS_EmptySet DEF Summable
<1>2. PICK g : SumsUp(g, c, {})
  BY <1>1, SumIs
<1> QED
  BY <1>2 DEF SumsUp, Adds

LEMMA SumWithout ==
    ASSUME NEW S, NEW c, Summable(c, S)
    PROVE  /\ \A s \in SUBSET S : Sum(c, s) \in Int
           /\ \A s \in SUBSET S : \A x \in s : Sum(c, s) = c[x] + Sum(c, s \ {x})
<1> USE DEF Summable
<1>1. PICK g \in [SUBSET S -> Int] :
          /\ \A s \in SUBSET S : g[s] = Adds(g, c, s)
          /\ \A s \in SUBSET S : Sum(c, s) = g[s]
  <2>1. \E g : SumsUp(g, c, S)
    BY SumIs
  <2> QED
    BY <2>1 DEF SumsUp
<1> DEFINE Fine(s) == \A x \in s : g[s] = c[x] + g[s \ {x}]
           Bad == {s \in SUBSET S : ~Fine(s)}
           N == {Cardinality(s) : s \in Bad}
<1>2. \A s \in SUBSET S : IsFiniteSet(s) /\ Cardinality(s) \in Nat
  BY FS_Subset, FS_CardinalityType
<1>3. ASSUME NEW s \in SUBSET S, \A r \in SUBSET S : Cardinality(r) < Cardinality(s) => Fine(r),
             NEW x \in s
      PROVE  g[s] = c[x] + g[s \ {x}]
  <2> DEFINE y == First(s)
  <2>1. y \in s
    BY <1>3, FirstIsIn
  <2>2. g[s] = c[y] + g[s \ {y}]
    BY <1>1, <1>3 DEF Adds
  <2> HIDE DEF y
  <2>3. CASE x = y
    BY <2>2, <2>3
  <2>4. CASE x # y
    <3>1. \A z \in s : Cardinality(s \ {z}) < Cardinality(s) /\ s \ {z} \in SUBSET S
      BY <1>2, Without
    <3>2. Fine(s \ {y}) /\ Fine(s \ {x})
      BY <1>3, <2>1, <3>1
    <3>3. g[s \ {y}] = c[x] + g[(s \ {y}) \ {x}] /\ g[s \ {x}] = c[y] + g[(s \ {x}) \ {y}]
      BY <1>3, <2>1, <2>4, <3>2
    <3>4. (s \ {y}) \ {x} = (s \ {x}) \ {y} /\ (s \ {x}) \ {y} \in SUBSET S
      OBVIOUS
    <3>5. c[x] \in Int /\ c[y] \in Int /\ g[(s \ {x}) \ {y}] \in Int
      BY <1>3, <2>1, <3>4
    <3> DEFINE rest == g[(s \ {x}) \ {y}]
    <3>6. g[s \ {y}] = c[x] + rest /\ g[s \ {x}] = c[y] + rest
      BY <3>3, <3>4
    <3>7. rest \in Int
      BY <3>5
    <3> HIDE DEF rest
    <3> QED
      BY <2>2, <3>5, <3>6, <3>7
  <2> QED
    BY <2>3, <2>4
<1> HIDE DEF Fine
<1>4. Bad = {}
  <2> SUFFICES ASSUME Bad # {}
               PROVE  FALSE
    OBVIOUS
  <2>1. N \subseteq Nat /\ N # {}
    BY <1>2
  <2>2. PICK n \in N : \A m \in N : n <= m
    <3> HIDE DEF N
    <3> QED
      BY <2>1, LeastNat
  <2>3. PICK s \in Bad : n = Cardinality(s)
    OBVIOUS
  <2>4. ASSUME NEW r \in SUBSET S, Cardinality(r) < Cardinality(s)
        PROVE  Fine(r)
    <3>1. r \in Bad => n <= Cardinality(r)
      BY <2>2
    <3>2. Cardinality(r) \in Nat /\ Cardinality(s) \in Nat
      BY <1>2
    <3> QED
      BY <2>3, <2>4, <3>1, <3>2
  <2>5. \A x \in s : g[s] = c[x] + g[s \ {x}]
    BY <1>3, <2>4
  <2> QED
    BY <2>5 DEF Fine
<1>5. ASSUME NEW s \in SUBSET S, NEW x \in s
      PROVE  Sum(c, s) = c[x] + Sum(c, s \ {x})
  <2>1. g[s] = c[x] + g[s \ {x}]
    BY <1>4 DEF Fine
  <2>2. s \ {x} \in SUBSET S
    OBVIOUS
  <2> QED
    BY <1>1, <2>1, <2>2
<1>6. \A s \in SUBSET S : Sum(c, s) \in Int
  BY <1>1
<1> QED
  BY <1>5, <1>6

\* Where nothing is negative, more costs at least as much.
LEMMA SumGrows ==
    ASSUME NEW S, IsFiniteSet(S), NEW c, \A x \in S : c[x] \in Nat, NEW T \in SUBSET S
    PROVE  Sum(c, T) \in Nat /\ Sum(c, S) \in Nat /\ Sum(c, T) <= Sum(c, S)
<1>1. /\ \A s \in SUBSET S : Sum(c, s) \in Int
      /\ \A s \in SUBSET S : \A x \in s : Sum(c, s) = c[x] + Sum(c, s \ {x})
  BY SumWithout DEF Summable
<1>2. ASSUME NEW U \in SUBSET S, NEW R \in SUBSET U
      PROVE  Sum(c, R) <= Sum(c, U)
  <2> DEFINE Bad == {s \in SUBSET U : ~(Sum(c, s) <= Sum(c, U))}
             N == {Cardinality(U \ s) : s \in Bad}
  <2>1. \A s \in SUBSET U : IsFiniteSet(U \ s) /\ Cardinality(U \ s) \in Nat
    <3> SUFFICES ASSUME NEW s \in SUBSET U
                 PROVE  IsFiniteSet(U \ s) /\ Cardinality(U \ s) \in Nat
      OBVIOUS
    <3>1. U \ s \in SUBSET S
      OBVIOUS
    <3> QED
      BY <3>1, FS_Subset, FS_CardinalityType
  <2>2. ASSUME NEW s \in Bad
        PROVE  \E r \in Bad : Cardinality(U \ r) < Cardinality(U \ s)
    <3>1. s \in SUBSET S /\ U \in SUBSET S
      OBVIOUS
    <3>2. s # U
      BY <1>1, <3>1
    <3>3. PICK x \in U : x \notin s
      BY <3>2
    <3> DEFINE r == s \cup {x}
    <3>4. r \in SUBSET U /\ r \in SUBSET S /\ r \ {x} = s /\ x \in r
      BY <3>3
    <3>5. Sum(c, r) = c[x] + Sum(c, s)
      BY <1>1, <3>4
    <3>6. c[x] \in Nat /\ Sum(c, s) \in Int /\ Sum(c, U) \in Int /\ Sum(c, r) \in Int
      BY <1>1, <3>1, <3>4
    <3>7. ~(Sum(c, r) <= Sum(c, U))
      BY <3>5, <3>6
    <3>8. U \ r = (U \ s) \ {x} /\ x \in U \ s
      BY <3>3
    <3> HIDE DEF r
    <3>9. Cardinality(U \ r) = Cardinality(U \ s) - 1
      BY <2>1, <3>8, Without
    <3>10. Cardinality(U \ r) < Cardinality(U \ s)
      <4>1. Cardinality(U \ s) \in Nat
        BY <2>1
      <4> QED
        BY <3>9, <4>1
    <3>11. r \in Bad
      BY <3>4, <3>7
    <3> QED
      BY <3>10, <3>11
  <2>3. SUFFICES ASSUME Bad # {}
                 PROVE  FALSE
    OBVIOUS
  <2>4. N \subseteq Nat /\ N # {}
    BY <2>1, <2>3
  <2>5. PICK n \in N : \A m \in N : n <= m
    <3> HIDE DEF N
    <3> QED
      BY <2>4, LeastNat
  <2>6. PICK s \in Bad : n = Cardinality(U \ s)
    OBVIOUS
  <2>7. PICK r \in Bad : Cardinality(U \ r) < Cardinality(U \ s)
    BY <2>2
  <2>8. n <= Cardinality(U \ r)
    BY <2>5
  <2>9. Cardinality(U \ r) \in Nat /\ Cardinality(U \ s) \in Nat
    BY <2>1
  <2> QED
    BY <2>6, <2>7, <2>8, <2>9
<1>3. 0 <= Sum(c, T) /\ 0 <= Sum(c, S)
  BY <1>2, SumOfNothing
<1> QED
  BY <1>1, <1>2, <1>3

\* A family of subsets has one that nothing can be taken from within the family.
LEMMA SmallestIn ==
    ASSUME NEW S, IsFiniteSet(S), NEW Bad \in SUBSET SUBSET S, Bad # {}
    PROVE  \E s \in Bad : \A x \in s : s \ {x} \notin Bad
<1> DEFINE N == {Cardinality(s) : s \in Bad}
<1>1. \A s \in Bad : IsFiniteSet(s) /\ Cardinality(s) \in Nat
  BY FS_Subset, FS_CardinalityType
<1>2. N \subseteq Nat /\ N # {}
  BY <1>1
<1>3. PICK n \in N : \A m \in N : n <= m
  <2> HIDE DEF N
  <2> QED
    BY <1>2, LeastNat
<1>4. PICK s \in Bad : n = Cardinality(s)
  OBVIOUS
<1>5. ASSUME NEW x \in s, s \ {x} \in Bad
      PROVE  FALSE
  <2>1. IsFiniteSet(s)
    BY <1>1
  <2>2. Cardinality(s \ {x}) = n - 1 /\ n \in Nat
    BY <1>4, <2>1, Without
  <2>3. n <= Cardinality(s \ {x})
    BY <1>3, <1>5
  <2> QED
    BY <2>2, <2>3
<1> QED
  BY <1>5

\* A fold over a set is the sum.
LEMMA FoldIsSum ==
    ASSUME NEW S, NEW c, Summable(c, S), NEW f, IsSum(f, c, S)
    PROVE  f[S] = Sum(c, S)
<1>1. PICK h : SumsUp(h, c, S)
  BY SumIs
<1>2. IsSum(h, c, S)
  <2>1. h \in [SUBSET S -> Int] /\ \A s \in SUBSET S : h[s] = Adds(h, c, s)
    BY <1>1 DEF SumsUp
  <2>2. h = [s \in SUBSET S |-> Adds(h, c, s)]
    BY <2>1
  <2> QED
    BY <2>2 DEF IsSum
<1>3. f[S] = h[S]
  BY <1>2, SumIsOne DEF Summable
<1>4. h[S] = Sum(c, S)
  BY <1>1 DEF SumsUp
<1> QED
  BY <1>3, <1>4

LEMMA SumOfOne ==
    ASSUME NEW x, NEW c, c[x] \in Int
    PROVE  Sum(c, {x}) = c[x]
<1>1. Summable(c, {x})
  BY FS_Singleton DEF Summable
<1>2. {x} \in SUBSET {x} /\ x \in {x} /\ {x} \ {x} = {}
  OBVIOUS
<1>3. Sum(c, {x}) = c[x] + Sum(c, {x} \ {x})
  BY <1>1, <1>2, SumWithout
<1>4. Sum(c, {x} \ {x}) = 0
  BY <1>2, SumOfNothing
<1> QED
  BY <1>3, <1>4

LEMMA SumOfZeros ==
    ASSUME NEW S, IsFiniteSet(S), NEW c, \A x \in S : c[x] = 0
    PROVE  Sum(c, S) = 0
<1> DEFINE Bad == {s \in SUBSET S : Sum(c, s) # 0}
<1>1. Summable(c, S)
  BY DEF Summable
<1>2. Bad = {}
  <2> SUFFICES ASSUME Bad # {}
               PROVE  FALSE
    OBVIOUS
  <2>1. PICK s \in Bad : \A x \in s : s \ {x} \notin Bad
    <3>1. Bad \in SUBSET SUBSET S
      OBVIOUS
    <3> HIDE DEF Bad
    <3> QED
      BY <3>1, SmallestIn
  <2>2. PICK x \in s : TRUE
    BY SumOfNothing
  <2>3. s \ {x} \in SUBSET S /\ s \in SUBSET S /\ c[x] = 0
    OBVIOUS
  <2>4. Sum(c, s \ {x}) = 0
    BY <2>1, <2>2, <2>3
  <2>5. Sum(c, s) = c[x] + Sum(c, s \ {x})
    BY <1>1, <2>2, <2>3, SumWithout
  <2> QED
    BY <2>3, <2>4, <2>5
<1>3. S \in SUBSET S /\ S \notin Bad
  BY <1>2
<1> QED
  BY <1>3

\* As many values as arguments at most.
LEMMA ImageIsFinite ==
    ASSUME NEW S, IsFiniteSet(S), NEW f
    PROVE  IsFiniteSet({f[x] : x \in S})
<1> DEFINE g == [x \in S |-> f[x]]
           T == {f[x] : x \in S}
<1>1. g \in Surjection(S, T)
  BY DEF Surjection
<1> HIDE DEF g, T
<1>2. IsFiniteSet(T)
  BY <1>1, FS_Surjection
<1> QED
  BY <1>2 DEF T

\* A sum taken over the keys of what is summed up.
LEMMA SumAcross ==
    ASSUME NEW K, NEW c, NEW d, Summable(d, K), NEW f,
           \A x, y \in K : f[x] = f[y] => x = y,
           \A x \in K : c[f[x]] = d[x]
    PROVE  Sum(c, {f[x] : x \in K}) = Sum(d, K)
<1> DEFINE Of(s) == {f[x] : x \in s}
           Bad == {s \in SUBSET K : Sum(c, Of(s)) # Sum(d, s)}
<1>1. IsFiniteSet(K) /\ \A x \in K : d[x] \in Int
  BY DEF Summable
<1>2. IsFiniteSet(Of(K))
  BY <1>1, ImageIsFinite
<1>3. Summable(c, Of(K))
  BY <1>1, <1>2 DEF Summable
<1>4. ASSUME NEW s \in SUBSET K, NEW x \in s
      PROVE  /\ f[x] \in Of(s) /\ Of(s) \ {f[x]} = Of(s \ {x})
             /\ Of(s) \in SUBSET Of(K)
  OBVIOUS
<1>5. ASSUME NEW s \in SUBSET K, NEW x \in s, Sum(c, Of(s \ {x})) = Sum(d, s \ {x})
      PROVE  Sum(c, Of(s)) = Sum(d, s)
  <2>1. f[x] \in Of(s) /\ Of(s) \ {f[x]} = Of(s \ {x}) /\ Of(s) \in SUBSET Of(K)
    BY <1>4
  <2> HIDE DEF Of
  <2>2. Sum(c, Of(s)) = c[f[x]] + Sum(c, Of(s) \ {f[x]})
    BY <1>3, <2>1, SumWithout
  <2>3. Sum(d, s) = d[x] + Sum(d, s \ {x})
    BY SumWithout
  <2>4. c[f[x]] = d[x]
    OBVIOUS
  <2> QED
    BY <1>5, <2>1, <2>2, <2>3, <2>4
<1>6. Sum(c, Of({})) = Sum(d, {})
  <2>1. Of({}) = {}
    OBVIOUS
  <2> QED
    BY <2>1, SumOfNothing
<1>7. Bad = {}
  <2> SUFFICES ASSUME Bad # {}
               PROVE  FALSE
    OBVIOUS
  <2> HIDE DEF Of
  <2>1. Bad \in SUBSET SUBSET K
    OBVIOUS
  <2>2. PICK s \in Bad : \A x \in s : s \ {x} \notin Bad
    <3> HIDE DEF Bad
    <3> QED
      BY <1>1, <2>1, SmallestIn
  <2>3. s # {}
    BY <1>6
  <2>4. PICK x \in s : TRUE
    BY <2>3
  <2>5. s \in SUBSET K /\ s \ {x} \in SUBSET K
    OBVIOUS
  <2>6. Sum(c, Of(s \ {x})) = Sum(d, s \ {x})
    BY <2>2, <2>4, <2>5
  <2> QED
    BY <1>5, <2>4, <2>5, <2>6
<1>8. K \in SUBSET K /\ K \notin Bad
  BY <1>7
<1> QED
  BY <1>8

\* No smaller summands, no smaller sum.
LEMMA SumCompares ==
    ASSUME NEW S, NEW c, NEW d, Summable(c, S), Summable(d, S), \A x \in S : c[x] <= d[x]
    PROVE  Sum(c, S) <= Sum(d, S)
<1> DEFINE Bad == {s \in SUBSET S : ~(Sum(c, s) <= Sum(d, s))}
<1>1. IsFiniteSet(S) /\ \A x \in S : c[x] \in Int /\ d[x] \in Int
  BY DEF Summable
<1>2. ASSUME NEW s \in SUBSET S, NEW x \in s, Sum(c, s \ {x}) <= Sum(d, s \ {x})
      PROVE  Sum(c, s) <= Sum(d, s)
  <2>1. s \ {x} \in SUBSET S
    OBVIOUS
  <2>2. Sum(c, s) = c[x] + Sum(c, s \ {x}) /\ Sum(d, s) = d[x] + Sum(d, s \ {x})
    BY SumWithout
  <2>3. Sum(c, s \ {x}) \in Int /\ Sum(d, s \ {x}) \in Int
    BY <2>1, SumWithout
  <2>4. c[x] \in Int /\ d[x] \in Int /\ c[x] <= d[x]
    BY <1>1
  <2> QED
    BY <1>2, <2>2, <2>3, <2>4
<1>3. Sum(c, {}) <= Sum(d, {})
  BY SumOfNothing
<1>4. Bad = {}
  <2> SUFFICES ASSUME Bad # {}
               PROVE  FALSE
    OBVIOUS
  <2>1. Bad \in SUBSET SUBSET S
    OBVIOUS
  <2>2. PICK s \in Bad : \A x \in s : s \ {x} \notin Bad
    <3> HIDE DEF Bad
    <3> QED
      BY <1>1, <2>1, SmallestIn
  <2>3. s # {}
    BY <1>3
  <2>4. PICK x \in s : TRUE
    BY <2>3
  <2>5. s \in SUBSET S /\ s \ {x} \in SUBSET S
    OBVIOUS
  <2>6. Sum(c, s \ {x}) <= Sum(d, s \ {x})
    BY <2>2, <2>4, <2>5
  <2> QED
    BY <1>2, <2>4, <2>5, <2>6
<1>5. S \in SUBSET S /\ S \notin Bad
  BY <1>4
<1> QED
  BY <1>5

\* A set has as many elements as there are of each kind together.
LEMMA SumOfKinds ==
    ASSUME NEW D, IsFiniteSet(D), NEW R, IsFiniteSet(R), NEW kind, \A x \in D : kind[x] \in R,
           NEW of, \A y \in R : \A x : x \in of[y] <=> x \in D /\ kind[x] = y,
           NEW c, \A y \in R : c[y] = Cardinality(of[y])
    PROVE  Summable(c, R) /\ Sum(c, R) = Cardinality(D)
<1> DEFINE In(s) == {x \in D : kind[x] \in s}
           Bad == {s \in SUBSET R : Sum(c, s) # Cardinality(In(s))}
<1>1. \A s : IsFiniteSet(In(s)) /\ Cardinality(In(s)) \in Nat
  BY FS_Subset, FS_CardinalityType
<1>2. \A y : IsFiniteSet({x \in D : kind[x] = y}) /\ Cardinality({x \in D : kind[x] = y}) \in Nat
  BY FS_Subset, FS_CardinalityType
<1>3. \A y \in R : of[y] = {x \in D : kind[x] = y}
  OBVIOUS
<1>4. Summable(c, R)
  <2>1. ASSUME NEW y \in R
        PROVE  c[y] \in Int
    <3>1. c[y] = Cardinality({x \in D : kind[x] = y})
      BY <1>3
    <3> DEFINE n == Cardinality({x \in D : kind[x] = y})
    <3>2. n \in Nat /\ c[y] = n
      BY <1>2, <3>1
    <3> HIDE DEF n
    <3> QED
      BY <3>2
  <2> QED
    BY <2>1 DEF Summable
<1>5. ASSUME NEW s \in SUBSET R, NEW y \in s, Sum(c, s \ {y}) = Cardinality(In(s \ {y}))
      PROVE  Sum(c, s) = Cardinality(In(s))
  <2> DEFINE A == {x \in D : kind[x] = y}
             B == In(s \ {y})
  <2>1. In(s) = A \cup B /\ A \cap B = {}
    OBVIOUS
  <2>2. IsFiniteSet(A) /\ IsFiniteSet(B) /\ Cardinality(A) \in Nat /\ Cardinality(B) \in Nat
    <3>1. A \subseteq D /\ B \subseteq D
      OBVIOUS
    <3> HIDE DEF A, B
    <3> QED
      BY <3>1, FS_Subset, FS_CardinalityType
  <2>3. c[y] = Cardinality(A)
    BY <1>3
  <2>4. Sum(c, s) = c[y] + Sum(c, s \ {y})
    BY <1>4, SumWithout
  <2> HIDE DEF A, B, In
  <2>5. Cardinality(A \cup B) = Cardinality(A) + Cardinality(B)
    <3>1. Cardinality(A \cap B) = 0
      BY <2>1, FS_EmptySet
    <3>2. Cardinality(A \cup B) = Cardinality(A) + Cardinality(B) - Cardinality(A \cap B)
      BY <2>2, FS_Union
    <3> QED
      BY <2>2, <3>1, <3>2
  <2>6. Sum(c, s \ {y}) = Cardinality(B)
    BY <1>5 DEF B
  <2> QED
    BY <2>1, <2>3, <2>4, <2>5, <2>6
<1>6. Sum(c, {}) = Cardinality(In({}))
  <2>1. In({}) = {}
    OBVIOUS
  <2> QED
    BY <2>1, SumOfNothing, FS_EmptySet
<1>7. Bad = {}
  <2> SUFFICES ASSUME Bad # {}
               PROVE  FALSE
    OBVIOUS
  <2> HIDE DEF In
  <2>1. Bad \in SUBSET SUBSET R
    OBVIOUS
  <2>2. PICK s \in Bad : \A y \in s : s \ {y} \notin Bad
    <3> HIDE DEF Bad
    <3> QED
      BY <2>1, SmallestIn
  <2>3. s # {}
    BY <1>6
  <2>4. PICK y \in s : TRUE
    BY <2>3
  <2>5. s \in SUBSET R /\ s \ {y} \in SUBSET R
    OBVIOUS
  <2>6. Sum(c, s \ {y}) = Cardinality(In(s \ {y}))
    BY <2>2, <2>4, <2>5
  <2> QED
    BY <1>5, <2>4, <2>5, <2>6
<1>8. In(R) = D
  OBVIOUS
<1>9. R \in SUBSET R /\ R \notin Bad
  BY <1>7
<1>10. Sum(c, R) = Cardinality(In(R))
  BY <1>9
<1> QED
  BY <1>4, <1>8, <1>10

-----------------------------------------------------------------------------
(* Costs.                                                                  *)

LEMMA MinIs ==
    ASSUME NEW S \in SUBSET Nat, S # {}
    PROVE  Min(S) \in S /\ \A y \in S : Min(S) <= y
<1>1. \E x \in S : \A y \in S : x <= y
  BY LeastNat
<1> QED
  BY <1>1, Zenon DEF Min

Costs(p) == [i \in DOMAIN p.steps |-> p.steps[i].cost]

LEMMA CostsAreSummable ==
    ASSUME NEW p, WellFormed(p)
    PROVE  /\ IsFiniteSet(DOMAIN p.steps) /\ DOMAIN p.steps \subseteq Nat \ {0}
           /\ \A i \in DOMAIN p.steps : Costs(p)[i] = p.steps[i].cost /\ p.steps[i].cost \in Nat
           /\ \A S \in SUBSET DOMAIN p.steps : Summable(Costs(p), S) /\ IsFiniteSet(S)
<1>1. DOMAIN p.steps = 1..Len(p.steps) /\ Len(p.steps) \in Nat
  BY DEF WellFormed
<1>2. IsFiniteSet(DOMAIN p.steps)
  <2> DEFINE n == Len(p.steps)
  <2>1. n \in Nat /\ DOMAIN p.steps = 1..n
    BY <1>1
  <2> HIDE DEF n
  <2> QED
    BY <2>1, FS_Interval
<1>3. DOMAIN p.steps \subseteq Nat \ {0}
  BY <1>1
<1>4. \A i \in DOMAIN p.steps : Costs(p)[i] = p.steps[i].cost /\ p.steps[i].cost \in Nat
  BY DEF Costs, WellFormed
<1>5. \A S \in SUBSET DOMAIN p.steps : Summable(Costs(p), S) /\ IsFiniteSet(S)
  BY <1>2, <1>4, FS_Subset DEF Summable
<1> QED
  BY <1>2, <1>3, <1>4, <1>5

LEMMA CostIsSum ==
    ASSUME NEW p, WellFormed(p), NEW S \in SUBSET DOMAIN p.steps
    PROVE  CostOf(p, S) = Sum(Costs(p), S)
<1> DEFINE c == Costs(p)
           Folds(g) == g = [s \in SUBSET S |->
                               IF s = {} THEN 0
                               ELSE p.steps[CHOOSE x \in s : TRUE].cost
                                    + g[s \ {CHOOSE x \in s : TRUE}]]
           f == CHOOSE g : Folds(g)
<1>1. \A s \in SUBSET S : s # {} => c[First(s)] = p.steps[First(s)].cost
  BY CostsAreSummable, FirstIsIn
<1>2. \A g : Folds(g) <=> IsSum(g, c, S)
  <2> HIDE DEF c
  <2> QED
    BY <1>1 DEF IsSum, Adds, First
<1>3. CostOf(p, S) = f[S]
  BY DEF CostOf, MapThenSumSet, MapThenFoldSet
<1>4. Summable(c, S)
  BY CostsAreSummable
<1>5. PICK g : IsSum(g, c, S)
  BY <1>4, SumExists
<1> HIDE DEF Folds, c
<1>6. IsSum(f, c, S)
  BY <1>2, <1>5, Zenon
<1> HIDE DEF f
<1>7. f[S] = Sum(c, S)
  BY <1>4, <1>6, FoldIsSum
<1> QED
  BY <1>3, <1>7 DEF c

\* What a set of steps costs.
LEMMA CostLaws ==
    ASSUME NEW p, WellFormed(p), NEW S \in SUBSET DOMAIN p.steps
    PROVE  /\ CostOf(p, {}) = 0
           /\ CostOf(p, S) \in Nat
           /\ \A i \in S : CostOf(p, S) = p.steps[i].cost + CostOf(p, S \ {i})
           /\ \A T \in SUBSET S : CostOf(p, T) \in Nat /\ CostOf(p, T) <= CostOf(p, S)
<1> DEFINE c == Costs(p)
<1>1. Summable(c, S) /\ IsFiniteSet(S) /\ \A i \in S : c[i] = p.steps[i].cost /\ c[i] \in Nat
  BY CostsAreSummable
<1>2. \A T \in SUBSET S : CostOf(p, T) = Sum(c, T)
  BY CostIsSum
<1> HIDE DEF c
<1>3. CostOf(p, {}) = 0
  BY <1>2, SumOfNothing
<1>4. \A i \in S : CostOf(p, S) = p.steps[i].cost + CostOf(p, S \ {i})
  <2> SUFFICES ASSUME NEW i \in S
               PROVE  CostOf(p, S) = p.steps[i].cost + CostOf(p, S \ {i})
    OBVIOUS
  <2>1. S \in SUBSET S /\ S \ {i} \in SUBSET S
    OBVIOUS
  <2>2. Sum(c, S) = c[i] + Sum(c, S \ {i})
    BY <1>1, <2>1, SumWithout
  <2> QED
    BY <1>1, <1>2, <2>1, <2>2
<1>5. \A T \in SUBSET S : CostOf(p, T) \in Nat /\ CostOf(p, T) <= CostOf(p, S)
  <2> SUFFICES ASSUME NEW T \in SUBSET S
               PROVE  CostOf(p, T) \in Nat /\ CostOf(p, T) <= CostOf(p, S)
    OBVIOUS
  <2>1. \A i \in S : c[i] \in Nat
    BY <1>1
  <2>2. Sum(c, T) \in Nat /\ Sum(c, T) <= Sum(c, S)
    BY <1>1, <2>1, SumGrows
  <2>3. S \in SUBSET S
    OBVIOUS
  <2> QED
    BY <1>2, <2>2, <2>3
<1>6. S \in SUBSET S
  OBVIOUS
<1> QED
  BY <1>3, <1>4, <1>5, <1>6

-----------------------------------------------------------------------------
(* Which steps are kept.                                                   *)

Behind(p, S, i) == {j \in Optional(p, S) : j >= i}

LEMMA WithoutLastIs ==
    ASSUME NEW p, NEW S, NEW n
    PROVE  WithoutLast(p, S, n) =
               {i \in S : i \in Optional(p, S) => Cardinality(Behind(p, S, i)) > n}
  BY DEF WithoutLast, Behind

\* Further back there are fewer.
LEMMA FewerBehind ==
    ASSUME NEW p, WellFormed(p), NEW S \in SUBSET DOMAIN p.steps, NEW i \in Optional(p, S)
    PROVE  /\ Cardinality(Behind(p, S, i)) \in Nat \ {0}
           /\ Cardinality(Behind(p, S, i)) <= Cardinality(Optional(p, S))
           /\ Cardinality(Optional(p, S)) \in Nat
           /\ \A j \in Optional(p, S) :
                  i < j => Cardinality(Behind(p, S, j)) < Cardinality(Behind(p, S, i))
<1> DEFINE O == Optional(p, S)
           B(j) == Behind(p, S, j)
<1>1. O \in SUBSET DOMAIN p.steps /\ O \subseteq Nat /\ IsFiniteSet(O)
  <2>1. O \subseteq DOMAIN p.steps
    BY DEF Optional
  <2> QED
    BY <2>1, CostsAreSummable
<1>2. \A j \in O : B(j) \subseteq O /\ j \in B(j)
  BY <1>1 DEF Behind
<1>3. \A j \in O : i < j => B(j) \subseteq B(i) /\ i \notin B(j)
  BY <1>1 DEF Behind
<1> HIDE DEF B, O
<1>4. Cardinality(O) \in Nat /\ \A j \in O : IsFiniteSet(B(j)) /\ Cardinality(B(j)) \in Nat
                                            /\ Cardinality(B(j)) <= Cardinality(O)
  BY <1>1, <1>2, FS_Subset, FS_CardinalityType
<1>5. i \in O
  BY DEF O
<1>6. Cardinality(B(i)) # 0
  BY <1>2, <1>4, <1>5, FS_EmptySet
<1>7. ASSUME NEW j \in O, i < j
      PROVE  Cardinality(B(j)) < Cardinality(B(i))
  <2>1. B(j) \subseteq B(i) /\ B(j) # B(i)
    BY <1>2, <1>3, <1>5, <1>7
  <2> QED
    BY <1>4, <1>5, <2>1, FS_Subset
<1>8. Cardinality(B(i)) \in Nat \ {0} /\ Cardinality(B(i)) <= Cardinality(O)
  BY <1>4, <1>5, <1>6
<1> QED
  BY <1>4, <1>7, <1>8 DEF B, O

\* Steps are only left out if they must be: none that is required, and of those that
\* are left out the first would not fit, nor is anything optional behind it kept.
Fitted(p, S, ceiling, K) ==
    /\ K \subseteq S
    /\ \A i \in S \ K : ~p.steps[i].required
    /\ S \ K # {} =>
         /\ Min(S \ K) \in S \ K
         /\ \A i \in K : i > Min(S \ K) => p.steps[i].required
         /\ CostOf(p, K \cup {Min(S \ K)}) > ceiling

LEMMA FitLaws ==
    ASSUME NEW p, WellFormed(p), NEW S \in SUBSET DOMAIN p.steps, NEW ceiling \in Int
    PROVE  Fitted(p, S, ceiling, FitToCeiling(p, S, ceiling))
<1> DEFINE K == FitToCeiling(p, S, ceiling)
           O == Optional(p, S)
           all == Cardinality(O)
           size(i) == Cardinality(Behind(p, S, i))
           Kept(n) == WithoutLast(p, S, n)
           fitting == {n \in 0..all : CostOf(p, Kept(n)) <= ceiling}
           n == Min(fitting \cup {all})
           first == Min(S \ K)
<1>1. O \subseteq S /\ S \subseteq Nat /\ \A i \in S : i \in O <=> ~p.steps[i].required
  <2>1. S \subseteq Nat
    BY CostsAreSummable
  <2> QED
    BY <2>1 DEF Optional
<1>2. \A i \in O : /\ size(i) \in Nat \ {0} /\ size(i) <= all
                   /\ \A j \in O : i < j => size(j) < size(i)
  BY FewerBehind
<1>3. all \in Nat
  <2>1. IsFiniteSet(O)
    BY <1>1, CostsAreSummable, FS_Subset
  <2> QED
    BY <2>1, FS_CardinalityType
<1>4. \A m : Kept(m) = {i \in S : i \in O => size(i) > m}
  BY WithoutLastIs
<1>5. K = Kept(n)
  BY DEF FitToCeiling
<1> HIDE DEF K, O, all, size, Kept
<1>6. n \in 0..all /\ \A m \in fitting : n <= m
  <2>1. fitting \cup {all} \in SUBSET Nat /\ fitting \cup {all} \subseteq 0..all
    BY <1>3
  <2> HIDE DEF fitting
  <2> QED
    BY <2>1, MinIs
<1> HIDE DEF n
<1>7. S \ K = {i \in O : size(i) <= n} /\ S \ K \subseteq O
  BY <1>1, <1>2, <1>4, <1>5, <1>6
<1>8. ASSUME S \ K # {}
      PROVE  /\ first \in S \ K
             /\ \A i \in K : i > first => p.steps[i].required
             /\ CostOf(p, K \cup {first}) > ceiling
  <2>1. first \in S \ K /\ \A i \in S \ K : first <= i
    <3>1. S \ K \in SUBSET Nat
      BY <1>1
    <3> QED
      BY <1>8, <3>1, MinIs
  <2> HIDE DEF first
  <2>2. first \in O /\ size(first) <= n /\ first \in Nat
    BY <1>1, <1>7, <2>1
  <2>3. ASSUME NEW i \in K, i > first
        PROVE  p.steps[i].required
    <3>1. i \in S /\ (i \in O => size(i) > n)
      BY <1>4, <1>5
    <3>2. i \in O => size(i) < size(first) /\ size(i) \in Nat /\ size(first) \in Nat
      BY <1>2, <2>2, <2>3
    <3>3. i \notin O
      BY <1>6, <2>2, <3>1, <3>2
    <3> QED
      BY <1>1, <3>1, <3>3
  <2>4. n - 1 \in 0..all /\ n - 1 < n
    BY <1>2, <1>3, <1>6, <2>2
  <2>5. ~(CostOf(p, Kept(n - 1)) <= ceiling)
    <3>1. n - 1 \notin fitting
      BY <1>6, <2>4
    <3> QED
      BY <2>4, <3>1
  <2>6. Kept(n - 1) \subseteq K \cup {first}
    <3> SUFFICES ASSUME NEW i \in Kept(n - 1), i \notin K
                 PROVE  i = first
      OBVIOUS
    <3>1. i \in O /\ size(i) <= n /\ size(i) > n - 1 /\ i \in S \ K
      BY <1>4, <1>7
    <3>2. first <= i /\ i \in Nat
      BY <1>1, <2>1, <3>1
    <3>3. first < i => size(i) < size(first)
      BY <1>2, <2>2, <3>1
    <3>4. size(i) \in Nat /\ size(first) \in Nat /\ n \in Nat
      BY <1>2, <1>3, <1>6, <2>2, <3>1
    <3> QED
      BY <2>2, <3>1, <3>2, <3>3, <3>4
  <2>7. CostOf(p, Kept(n - 1)) <= CostOf(p, K \cup {first}) /\ CostOf(p, Kept(n - 1)) \in Nat
        /\ CostOf(p, K \cup {first}) \in Nat
    <3> DEFINE X == K \cup {first}
               Y == Kept(n - 1)
    <3>1. X \in SUBSET DOMAIN p.steps /\ Y \in SUBSET X
      BY <1>4, <1>5, <2>1, <2>6
    <3> HIDE DEF X, Y
    <3>2. CostOf(p, X) \in Nat /\ CostOf(p, Y) \in Nat /\ CostOf(p, Y) <= CostOf(p, X)
      BY <3>1, CostLaws
    <3> QED
      BY <3>2 DEF X, Y
  <2>8. CostOf(p, K \cup {first}) > ceiling
    BY <2>5, <2>7
  <2> QED
    BY <2>1, <2>3, <2>8
<1>9. K \subseteq S
  BY <1>4, <1>5
<1>10. \A i \in S \ K : ~p.steps[i].required
  BY <1>1, <1>7
<1> QED
  BY <1>8, <1>9, <1>10 DEF Fitted, K, first

LEMMA ScaledOrder ==
    ASSUME NEW d \in Nat \ {0}, NEW m \in Int, NEW n \in Int
    PROVE  /\ m * d \in Int
           /\ m <= n => m * d <= n * d
           /\ (m + 1) * d = m * d + d
  OBVIOUS

LEMMA CeilingLaws ==
    ASSUME NEW p, WellFormed(p), NEW at_risk \in Nat
    PROVE  /\ CeilingFor(p, at_risk) \in Nat
           /\ CeilingFor(p, at_risk) <= at_risk
           /\ \A n \in Nat : n <= CeilingFor(p, at_risk) => ~ExceedsShare(p, at_risk, n)
           /\ \A n \in Nat : n > CeilingFor(p, at_risk) => ExceedsShare(p, at_risk, n)
<1> DEFINE num == p.cost_ceiling_pct.num
           den == p.cost_ceiling_pct.den
           a == at_risk * num
           d == 100 * den
           c == CeilingFor(p, at_risk)
<1>1. den \in Nat \ {0} /\ num \in Nat /\ num <= 10 * den
  BY DEF WellFormed, Percentage
<1>2. c = a \div d /\ \A n : ExceedsShare(p, at_risk, n) <=> n * d > a
  BY DEF CeilingFor, ExceedsShare
<1>3. a \in Nat /\ d \in Nat \ {0} /\ num <= d
  <2> HIDE DEF num, den
  <2> QED
    BY <1>1
<1>4. a <= at_risk * d
  <2> HIDE DEF num, d
  <2> QED
    BY <1>1, <1>3
<1> HIDE DEF num, den, a, d, c
<1>5. c \in Int /\ c * d <= a /\ a < c * d + d
  <2>1. a = (a \div d) * d + (a % d) /\ a % d \in 0..d - 1 /\ a \div d \in Int
    BY <1>3
  <2>2. c * d \in Int
    BY <1>2, <1>3, <2>1, ScaledOrder
  <2> QED
    BY <1>2, <1>3, <2>1, <2>2
<1>6. c \in Nat
  <2>1. CASE c <= -1
    <3>1. c * d <= (-1) * d
      BY <1>3, <1>5, <2>1, ScaledOrder
    <3>2. c * d \in Int /\ (-1) * d = -d
      BY <1>3, <1>5, ScaledOrder
    <3> QED
      BY <1>3, <1>5, <3>1, <3>2
  <2> QED
    BY <1>5, <2>1
<1>7. c <= at_risk
  <2>1. CASE at_risk + 1 <= c
    <3>1. (at_risk + 1) * d <= c * d /\ (at_risk + 1) * d = at_risk * d + d
      BY <1>3, <1>5, <2>1, ScaledOrder
    <3>2. at_risk * d \in Int /\ c * d \in Int
      BY <1>3, <1>5, ScaledOrder
    <3> QED
      BY <1>3, <1>4, <1>5, <3>1, <3>2
  <2> QED
    BY <1>5, <2>1
<1>8. ASSUME NEW n \in Nat, n <= c
      PROVE  ~(n * d > a)
  <2>1. n * d <= c * d /\ n * d \in Int /\ c * d \in Int
    BY <1>3, <1>5, <1>8, ScaledOrder
  <2> QED
    BY <1>3, <1>5, <2>1
<1>9. ASSUME NEW n \in Nat, n > c
      PROVE  n * d > a
  <2>1. (c + 1) * d <= n * d /\ (c + 1) * d = c * d + d /\ n * d \in Int /\ c * d \in Int
    BY <1>3, <1>5, <1>9, ScaledOrder
  <2> QED
    BY <1>3, <1>5, <2>1
<1>10. /\ \A n \in Nat : n <= c => ~ExceedsShare(p, at_risk, n)
       /\ \A n \in Nat : n > c => ExceedsShare(p, at_risk, n)
  BY <1>2, <1>8, <1>9
<1>11. c = CeilingFor(p, at_risk)
  BY DEF c
<1> QED
  BY <1>6, <1>7, <1>10, <1>11

\* What is kept of a playbook are steps of it, and they cost something definite.
LEMMA IncludedAre ==
    ASSUME NEW p, WellFormed(p), NEW at_risk \in Nat
    PROVE  /\ IncludedSteps(p, at_risk) \in SUBSET DOMAIN p.steps
           /\ CostOf(p, IncludedSteps(p, at_risk)) \in Nat
<1> DEFINE all == ApplicableSteps(p, at_risk)
           ceiling == CeilingFor(p, at_risk)
<1>1. ceiling \in Int /\ all \in SUBSET DOMAIN p.steps
  BY CeilingLaws DEF ApplicableSteps
<1> HIDE DEF all, ceiling
<1>2. FitToCeiling(p, all, ceiling) \subseteq all
  BY <1>1, FitLaws DEF Fitted
<1>3. FitToCeiling(p, all, ceiling) \in SUBSET DOMAIN p.steps
  BY <1>1, <1>2
<1>4. IncludedSteps(p, at_risk) = FitToCeiling(p, all, ceiling)
  BY DEF IncludedSteps, all, ceiling
<1> HIDE DEF IncludedSteps
<1> QED
  BY <1>3, <1>4, CostLaws

-----------------------------------------------------------------------------
(* Dates.                                                                  *)

DateIn(g, p, t, i) ==
    p.steps[i].offset + IF p.steps[i].after = 0 THEN t ELSE g[p.steps[i].after]

\* g dates the first n steps.
DatesUpTo(g, p, t, n) == g \in [1..n -> Nat] /\ \A i \in 1..n : g[i] = DateIn(g, p, t, i)

LEMMA DatesGoOn ==
    ASSUME NEW p, WellFormed(p), NEW t \in Nat, NEW n \in Nat, n + 1 \in DOMAIN p.steps,
           NEW g, DatesUpTo(g, p, t, n)
    PROVE  \E h : DatesUpTo(h, p, t, n + 1)
<1> DEFINE h == [i \in 1..n + 1 |-> IF i = n + 1 THEN DateIn(g, p, t, i) ELSE g[i]]
<1>1. \A i \in 1..n + 1 : /\ i \in DOMAIN p.steps /\ p.steps[i].offset \in Nat
                          /\ p.steps[i].after \in 0..i - 1
  BY DEF WellFormed
<1>2. g \in [1..n -> Nat] /\ \A i \in 1..n : g[i] = DateIn(g, p, t, i)
  BY DEF DatesUpTo
<1>3. \A i \in 1..n + 1 : DateIn(g, p, t, i) \in Nat
  <2> SUFFICES ASSUME NEW i \in 1..n + 1
               PROVE  DateIn(g, p, t, i) \in Nat
    OBVIOUS
  <2>1. p.steps[i].after = 0 \/ p.steps[i].after \in 1..n
    BY <1>1
  <2>2. p.steps[i].after = 0 \/ g[p.steps[i].after] \in Nat
    BY <1>2, <2>1
  <2> QED
    BY <1>1, <2>2 DEF DateIn
<1>4. h \in [1..n + 1 -> Nat] /\ \A i \in 1..n : h[i] = g[i]
  BY <1>2, <1>3
<1>5. \A i \in 1..n + 1 : DateIn(h, p, t, i) = DateIn(g, p, t, i)
  <2> SUFFICES ASSUME NEW i \in 1..n + 1
               PROVE  DateIn(h, p, t, i) = DateIn(g, p, t, i)
    OBVIOUS
  <2>1. p.steps[i].after = 0 \/ p.steps[i].after \in 1..n
    BY <1>1
  <2> HIDE DEF h
  <2> QED
    BY <1>4, <2>1 DEF DateIn
<1>6. \A i \in 1..n + 1 : h[i] = DateIn(g, p, t, i)
  BY <1>2
<1> HIDE DEF h
<1>7. DatesUpTo(h, p, t, n + 1)
  BY <1>4, <1>5, <1>6 DEF DatesUpTo
<1> QED
  BY <1>7

\* Every step has a date, and not before it is planned.
LEMMA DatesAreInstants ==
    ASSUME NEW p, WellFormed(p), NEW t \in Nat
    PROVE  /\ DueDates(p, t) \in [DOMAIN p.steps -> Nat]
           /\ \A i \in DOMAIN p.steps : DueDates(p, t)[i] = DateIn(DueDates(p, t), p, t, i)
<1> DEFINE len == Len(p.steps)
           Has(n) == \E g : DatesUpTo(g, p, t, n)
           Lacking == {n \in 0..len : ~Has(n)}
           Dates(g) == g = [i \in DOMAIN p.steps |-> DateIn(g, p, t, i)]
           due == CHOOSE g : Dates(g)
<1>1. len \in Nat /\ DOMAIN p.steps = 1..len
  BY DEF WellFormed
<1> HIDE DEF len
<1>2. Has(0)
  <2> DEFINE g == [i \in 1..0 |-> 0]
  <2>1. DatesUpTo(g, p, t, 0)
    BY DEF DatesUpTo
  <2> HIDE DEF g
  <2> QED
    BY <2>1
<1>3. \A n \in Nat : n + 1 \in 1..len /\ Has(n) => Has(n + 1)
  BY <1>1, DatesGoOn
<1> HIDE DEF Has
<1>4. Lacking = {}
  <2> SUFFICES ASSUME Lacking # {}
               PROVE  FALSE
    OBVIOUS
  <2>1. PICK n \in Lacking : \A m \in Lacking : n <= m
    <3>1. Lacking \subseteq Nat
      BY <1>1
    <3> HIDE DEF Lacking
    <3> QED
      BY <3>1, LeastNat
  <2>2. n # 0 /\ n \in 0..len
    BY <1>2
  <2>3. n - 1 \in Nat /\ n - 1 \notin Lacking /\ n - 1 \in 0..len /\ n - 1 + 1 \in 1..len
    BY <1>1, <2>1, <2>2
  <2>4. Has(n - 1 + 1)
    BY <1>3, <2>3
  <2>5. n - 1 + 1 = n
    BY <1>1, <2>2
  <2> QED
    BY <2>4, <2>5
<1>5. PICK g : DatesUpTo(g, p, t, len)
  <2>1. Has(len)
    BY <1>1, <1>4
  <2> QED
    BY <2>1 DEF Has
<1>6. g \in [1..len -> Nat] /\ \A i \in 1..len : g[i] = DateIn(g, p, t, i)
  BY <1>5 DEF DatesUpTo
<1>7. Dates(g)
  BY <1>1, <1>6
<1>8. DueDates(p, t) = due
  BY DEF DueDates, DateIn
<1>9. Dates(due)
  <2> HIDE DEF Dates
  <2> QED
    BY <1>7, Zenon
<1> HIDE DEF due
<1>10. \A i \in 1..len : due[i] = DateIn(due, p, t, i)
  BY <1>1, <1>9
<1>11. \A i \in 1..len : due[i] = g[i]
  <2> DEFINE Bad == {i \in 1..len : due[i] # g[i]}
  <2> SUFFICES ASSUME Bad # {}
               PROVE  FALSE
    OBVIOUS
  <2>1. PICK i \in Bad : \A j \in Bad : i <= j
    <3>1. Bad \subseteq Nat
      BY <1>1
    <3> HIDE DEF Bad
    <3> QED
      BY <3>1, LeastNat
  <2>2. p.steps[i].after \in 0..i - 1 /\ i \in 1..len
    BY <1>1 DEF WellFormed
  <2>3. p.steps[i].after # 0 => due[p.steps[i].after] = g[p.steps[i].after]
    BY <1>1, <2>1, <2>2
  <2>4. DateIn(due, p, t, i) = DateIn(g, p, t, i)
    BY <2>3 DEF DateIn
  <2> QED
    BY <1>6, <1>10, <2>2, <2>4
<1>12. due \in [1..len -> Nat]
  <2>1. DOMAIN due = 1..len /\ due = [i \in 1..len |-> due[i]]
    BY <1>1, <1>9
  <2> HIDE DEF Dates
  <2> QED
    BY <1>6, <1>11, <2>1
<1> QED
  BY <1>1, <1>8, <1>10, <1>12

\* No date of a plan lies before it.
LEMMA DatesFollow ==
    ASSUME NEW p, WellFormed(p), NEW t \in Nat
    PROVE  \A i \in DOMAIN p.steps : DueDates(p, t)[i] \in Nat /\ DueDates(p, t)[i] >= t
<1> DEFINE d == DueDates(p, t)
           early == {i \in DOMAIN p.steps : d[i] < t}
<1>1. d \in [DOMAIN p.steps -> Nat] /\ \A i \in DOMAIN p.steps : d[i] = DateIn(d, p, t, i)
  BY DatesAreInstants
<1>2. /\ DOMAIN p.steps \subseteq Nat
      /\ \A i \in DOMAIN p.steps : /\ p.steps[i].offset \in Nat
                                   /\ p.steps[i].after \in 0..i - 1
                                   /\ p.steps[i].after = 0 \/ p.steps[i].after \in DOMAIN p.steps
  <2>1. DOMAIN p.steps = 1..Len(p.steps) /\ Len(p.steps) \in Nat
    BY DEF WellFormed
  <2>2. \A i \in DOMAIN p.steps : p.steps[i].offset \in Nat /\ p.steps[i].after \in 0..i - 1
    BY DEF WellFormed
  <2> QED
    BY <2>1, <2>2
<1>3. early = {}
  <2>1. SUFFICES ASSUME early # {}
                 PROVE  FALSE
    OBVIOUS
  <2>2. PICK i \in early : \A j \in early : i <= j
    <3>1. early \subseteq Nat
      BY <1>2
    <3> HIDE DEF early
    <3> QED
      BY <2>1, <3>1, LeastNat
  <2> DEFINE j == p.steps[i].after
  <2>3. i \in DOMAIN p.steps /\ d[i] < t /\ d[i] \in Nat
        /\ d[i] = p.steps[i].offset + IF j = 0 THEN t ELSE d[j]
    BY <1>1 DEF DateIn
  <2>4. j # 0 => j \in DOMAIN p.steps /\ j < i /\ d[j] \in Nat
    BY <1>1, <1>2, <2>3
  <2>5. j # 0 => d[j] >= t
    BY <1>2, <2>2, <2>3, <2>4
  <2>6. p.steps[i].offset \in Nat
    BY <1>2, <2>3
  <2> HIDE DEF d, j
  <2> QED
    BY <2>3, <2>4, <2>5, <2>6
<1> HIDE DEF d
<1>4. \A i \in DOMAIN p.steps : d[i] \in Nat /\ ~(d[i] < t)
  BY <1>1, <1>3
<1>5. \A i \in DOMAIN p.steps : d[i] \in Nat /\ d[i] >= t
  BY <1>4
<1> QED
  BY <1>5 DEF d

\* A plan made later has the same dates, as much later.
LEMMA DatesShift ==
    ASSUME NEW p, WellFormed(p), NEW t \in Nat
    PROVE  \A i \in DOMAIN p.steps :
               DueDates(p, 0)[i] \in Nat /\ DueDates(p, t)[i] = DueDates(p, 0)[i] + t
<1> DEFINE d == DueDates(p, t)
           e == DueDates(p, 0)
           apart == {i \in DOMAIN p.steps : d[i] # e[i] + t}
<1>1. /\ d \in [DOMAIN p.steps -> Nat] /\ \A i \in DOMAIN p.steps : d[i] = DateIn(d, p, t, i)
      /\ e \in [DOMAIN p.steps -> Nat] /\ \A i \in DOMAIN p.steps : e[i] = DateIn(e, p, 0, i)
  BY DatesAreInstants
<1>2. /\ DOMAIN p.steps \subseteq Nat
      /\ \A i \in DOMAIN p.steps : /\ p.steps[i].offset \in Nat
                                   /\ p.steps[i].after \in 0..i - 1
                                   /\ p.steps[i].after = 0 \/ p.steps[i].after \in DOMAIN p.steps
  <2>1. DOMAIN p.steps = 1..Len(p.steps) /\ Len(p.steps) \in Nat
    BY DEF WellFormed
  <2>2. \A i \in DOMAIN p.steps : p.steps[i].offset \in Nat /\ p.steps[i].after \in 0..i - 1
    BY DEF WellFormed
  <2> QED
    BY <2>1, <2>2
<1>3. apart = {}
  <2>1. SUFFICES ASSUME apart # {}
                 PROVE  FALSE
    OBVIOUS
  <2>2. PICK i \in apart : \A j \in apart : i <= j
    <3>1. apart \subseteq Nat
      BY <1>2
    <3> HIDE DEF apart
    <3> QED
      BY <2>1, <3>1, LeastNat
  <2> DEFINE j == p.steps[i].after
  <2>3. /\ i \in DOMAIN p.steps /\ d[i] # e[i] + t /\ i \in Nat
        /\ d[i] = p.steps[i].offset + IF j = 0 THEN t ELSE d[j]
        /\ e[i] = p.steps[i].offset + IF j = 0 THEN 0 ELSE e[j]
    BY <1>1, <1>2 DEF DateIn
  <2>4. j # 0 => j \in DOMAIN p.steps /\ j \in Nat /\ j < i /\ d[j] \in Nat /\ e[j] \in Nat
    BY <1>1, <1>2, <2>3
  <2>5. j # 0 => d[j] = e[j] + t
    BY <2>2, <2>3, <2>4
  <2>6. p.steps[i].offset \in Nat
    BY <1>2, <2>3
  <2> HIDE DEF d, e, j
  <2> QED
    BY <2>3, <2>4, <2>5, <2>6
<1> HIDE DEF d, e
<1>4. \A i \in DOMAIN p.steps : e[i] \in Nat /\ d[i] = e[i] + t
  BY <1>1, <1>3
<1> QED
  BY <1>4 DEF d, e
=============================================================================
