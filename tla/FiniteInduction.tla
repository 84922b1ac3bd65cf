--------------------------- MODULE FiniteInduction ---------------------------
(***************************************************************************)
(* Induction as facts about sets.  The induction theorems of the library   *)
(* take a predicate as a parameter; these take the set of the numbers, or  *)
(* of the finite sets, for which it holds.  From them: that a recursion    *)
(* defines a function, and how sums over finite sets change.               *)
(***************************************************************************)
EXTENDS Integers, Sequences, Functions, FiniteSetTheorems, TLAPS

\* What holds of 0, and of k + 1 whenever it holds of k, holds of every number:
\* otherwise the numbers up to which it holds would be a finite set that has an
\* injection into itself without 0.
LEMMA InductiveSet ==
  ASSUME NEW T, 0 \in T, \A k \in Nat : k \in T => k + 1 \in T
  PROVE  \A n \in Nat : n \in T
<1> SUFFICES ASSUME NEW n \in Nat, n \notin T PROVE FALSE
  OBVIOUS
<1> DEFINE Below == {k \in Nat : \A j \in 0 .. k : j \in T}
           next  == [k \in Below |-> k + 1]
<1>1. 0 \in Below /\ \A k \in Below : k \in Nat /\ k <= n /\ k + 1 \in Below
  <2>1. 0 \in Below
    OBVIOUS
  <2>2. ASSUME NEW k \in Below PROVE k <= n /\ k + 1 \in Below
    <3>1. k \in T /\ k \in Nat /\ \A j \in 0 .. k : j \in T
      OBVIOUS
    <3>2. \A j \in 0 .. k + 1 : j \in 0 .. k \/ j = k + 1
      BY <3>1
    <3>3. k <= n
      BY <3>1
    <3> QED
      BY <3>1, <3>2, <3>3
  <2> QED
    BY <2>1, <2>2
<1> HIDE DEF Below
<1>2. Below \in SUBSET Nat /\ \A k \in Below : k <= n
  BY <1>1
<1>3. IsFiniteSet(Below)
  BY <1>2, FS_BoundedSetOfNaturals
<1>4. /\ IsFiniteSet(Below \ {0})
      /\ Cardinality(Below \ {0}) = Cardinality(Below) - 1
  BY <1>1, <1>3, FS_RemoveElement
<1>5. Cardinality(Below) \in Nat
  BY <1>3, FS_CardinalityType
<1>6. next \in [Below -> Below \ {0}]
  BY <1>1
<1>7. \E j, k \in Below : j # k /\ next[j] = next[k]
  <2> HIDE DEF next
  <2> QED
    BY <1>3, <1>4, <1>5, <1>6, FS_PigeonHole
<1> QED
  BY <1>1, <1>7

\* The functions on an interval with a first value b and a rule for the next.
Recursion(f, a, n, S, b, step) ==
  /\ f \in [a .. n -> S]
  /\ \A k \in a .. n : f[k] = IF k = a THEN b ELSE step[k][f[k - 1]]

\* There is such a function.
LEMMA RecursionExists ==
  ASSUME NEW a \in Nat, NEW n \in Nat, a <= n, NEW S, NEW b \in S, NEW step,
         \A k \in a .. n : k # a => \A x \in S : step[k][x] \in S
  PROVE  \E f : Recursion(f, a, n, S, b, step)
<1> DEFINE Follows(f, m) == /\ f \in [a .. m -> S]
                            /\ \A k \in a .. m : f[k] = IF k = a THEN b ELSE step[k][f[k - 1]]
           T == {m \in Nat : m \in a .. n => \E f : Follows(f, m)}
<1>1. \A m \in a .. n : m = a => m \in T
  <2> SUFFICES a \in T
    BY DEF T
  <2> DEFINE f == [k \in a .. a |-> b]
  <2>1. \A k \in a .. a : k = a
    OBVIOUS
  <2>2. Follows(f, a)
    BY <2>1
  <2> HIDE DEF f, Follows
  <2> QED
    BY <2>2
<1>2. ASSUME NEW m \in Nat, m \in T, m \in a .. n, m + 1 \in a .. n PROVE m + 1 \in T
  <2>1. PICK f : Follows(f, m)
    BY <1>2
  <2> DEFINE last == m + 1
             g == [k \in a .. last |-> IF k = last THEN step[k][f[k - 1]] ELSE f[k]]
  <2>2. last \in a .. n /\ last # a /\ last - 1 = m /\ m \in a .. m
    BY <1>2
  <2>3. \A k \in a .. last : k # last => k \in a .. m /\ g[k] = f[k]
    BY <1>2
  <2>4. f[m] \in S /\ last \in a .. last /\ g[last] = step[last][f[m]]
    BY <2>1, <2>2
  <2>5. step[last][f[m]] \in S
    BY <2>2, <2>4
  <2>6. g \in [a .. last -> S]
    <3>1. ASSUME NEW k \in a .. last PROVE (IF k = last THEN step[k][f[k - 1]] ELSE f[k]) \in S
      BY <2>1, <2>2, <2>3, <2>5
    <3> QED
      BY <3>1
  <2>7. ASSUME NEW k \in a .. last PROVE g[k] = IF k = a THEN b ELSE step[k][g[k - 1]]
    <3>1. k # a => k - 1 \in a .. m /\ k - 1 \in a .. last /\ k - 1 # last
      BY <1>2
    <3>2. k # a => g[k - 1] = f[k - 1]
      BY <2>3, <3>1
    <3>3. CASE k = last
      BY <2>2, <2>4, <3>2, <3>3
    <3>4. CASE k # last
      <4>1. k \in a .. m /\ g[k] = f[k]
        BY <2>3, <3>4
      <4>2. f[k] = IF k = a THEN b ELSE step[k][f[k - 1]]
        BY <2>1, <4>1
      <4> HIDE DEF g, last
      <4> QED
        BY <3>2, <4>1, <4>2
    <3> QED
      BY <3>3, <3>4
  <2>8. Follows(g, m + 1)
    <3> HIDE DEF g
    <3> QED
      BY <2>6, <2>7
  <2>9. \E h : Follows(h, m + 1)
    <3> HIDE DEF g, Follows
    <3> QED
      BY <2>8
  <2>10. m + 1 \in Nat
    BY <1>2
  <2> HIDE DEF Follows
  <2> QED
    BY <2>9, <2>10
<1>3. ASSUME NEW m \in Nat, m \in T PROVE m + 1 \in T
  <2> HIDE DEF Follows
  <2>1. CASE m + 1 \notin a .. n
    BY <1>3, <2>1
  <2>2. CASE m + 1 \in a .. n /\ m \in a .. n
    BY <1>2, <1>3, <2>2
  <2>3. CASE m + 1 \in a .. n /\ m \notin a .. n
    <3>1. m + 1 = a
      BY <1>3, <2>3
    <3> QED
      BY <1>1, <2>3, <3>1
  <2> QED
    BY <2>1, <2>2, <2>3
<1>4. n \in T
  <2>1. 0 \in T
    <3> HIDE DEF Follows
    <3>1. 0 \in a .. n => 0 = a
      OBVIOUS
    <3> QED
      BY <1>1, <3>1
  <2> HIDE DEF T
  <2> QED
    BY <1>3, <2>1, InductiveSet
<1> QED
  BY <1>4 DEF Recursion

\* A set of numbers has a smallest element.
LEMMA SmallestElement ==
  ASSUME NEW S \in SUBSET Nat, S # {}
  PROVE  \E n \in S : \A m \in S : n <= m
<1> SUFFICES ASSUME \A n \in S : \E m \in S : m < n PROVE FALSE
  OBVIOUS
<1> DEFINE Under == {n \in Nat : \A m \in S : n <= m}
<1>1. 0 \in Under
  OBVIOUS
<1>2. ASSUME NEW k \in Nat, k \in Under PROVE k + 1 \in Under
  <2>1. \A m \in S : k <= m /\ m # k
    BY <1>2
  <2> QED
    BY <2>1
<1>3. \A n \in Nat : n \in Under
  <2> HIDE DEF Under
  <2> QED
    BY <1>1, <1>2, InductiveSet
<1>4. PICK m \in S : TRUE
  OBVIOUS
<1>5. m + 1 \in Under
  BY <1>3
<1> QED
  BY <1>4, <1>5

\* The positions of a sequence of length n up to the first that is not in Q.
LEMMA LeadingPositions ==
  ASSUME NEW n \in Nat, NEW Q
  PROVE  \E m \in 0 .. n : /\ \A k \in 1 .. m : k \in Q
                           /\ m = n \/ m + 1 \notin Q
<1> DEFINE Ends == {m \in 0 .. n : m = n \/ m + 1 \notin Q}
<1>1. n \in Ends /\ Ends \in SUBSET Nat
  OBVIOUS
<1>2. PICK m \in Ends : \A e \in Ends : m <= e
  <2> HIDE DEF Ends
  <2> QED
    BY <1>1, SmallestElement
<1>3. ASSUME NEW k \in 1 .. m PROVE k \in Q
  <2>1. k - 1 \notin Ends
    BY <1>2, <1>3
  <2>2. k - 1 \in 0 .. n /\ k - 1 # n /\ (k - 1) + 1 = k
    BY <1>2, <1>3
  <2> QED
    BY <2>1, <2>2
<1> QED
  BY <1>2, <1>3
-----------------------------------------------------------------------------
(***************************************************************************)
(* Sums over finite sets.                                                  *)
(***************************************************************************)

\* What holds of a subset whenever it holds of the subset without any one of
\* its elements, holds of every subset of a finite set.
LEMMA InductiveSubsets ==
  ASSUME NEW S, IsFiniteSet(S), NEW T,
         \A s \in SUBSET S : (\A x \in s : s \ {x} \in T) => s \in T
  PROVE  \A s \in SUBSET S : s \in T
<1> DEFINE N == {n \in Nat : \A s \in SUBSET S : Cardinality(s) <= n => s \in T}
<1>1. \A s \in SUBSET S : IsFiniteSet(s) /\ Cardinality(s) \in Nat
  BY FS_Subset, FS_CardinalityType
<1>2. \A s \in SUBSET S : \A x \in s :
        s \ {x} \in SUBSET S /\ Cardinality(s \ {x}) = Cardinality(s) - 1
  BY <1>1, FS_RemoveElement
<1>3. 0 \in N
  <2>1. ASSUME NEW s \in SUBSET S, Cardinality(s) <= 0 PROVE s \in T
    <3>1. s = {}
      BY <1>1, <2>1, FS_EmptySet
    <3> QED
      BY <3>1
  <2> QED
    BY <2>1
<1>4. ASSUME NEW n \in Nat, n \in N PROVE n + 1 \in N
  <2>1. ASSUME NEW s \in SUBSET S, Cardinality(s) <= n + 1 PROVE s \in T
    <3>1. ASSUME NEW x \in s PROVE s \ {x} \in T
      <4>1. s \ {x} \in SUBSET S /\ Cardinality(s \ {x}) <= n
        BY <1>1, <1>2, <2>1
      <4> QED
        BY <1>4, <4>1
    <3> QED
      BY <3>1
  <2> QED
    BY <2>1
<1>5. \A n \in Nat : n \in N
  <2> HIDE DEF N
  <2> QED
    BY <1>3, <1>4, InductiveSet
<1> QED
  BY <1>1, <1>5

\* The elements in the order in which the folds take them, and a table of the
\* sums of f over the subsets of S.
Chosen(s) == CHOOSE x \in s : TRUE
Sums(g, f, S) ==
  g = [s \in SUBSET S |-> IF s = {} THEN 0 ELSE f[Chosen(s)] + g[s \ {Chosen(s)}]]

\* There is such a table.
LEMMA SumsExist ==
  ASSUME NEW S, IsFiniteSet(S), NEW f, \A x \in S : f[x] \in Int
  PROVE  \E g \in [SUBSET S -> Int] : Sums(g, f, S)
<1> DEFINE Small(n) == {s \in SUBSET S : Cardinality(s) <= n}
           Rule(g, s) == IF s = {} THEN 0 ELSE f[Chosen(s)] + g[s \ {Chosen(s)}]
           N == {n \in Nat : \E g \in [Small(n) -> Int] : \A s \in Small(n) : g[s] = Rule(g, s)}
<1>1. \A s \in SUBSET S : IsFiniteSet(s) /\ Cardinality(s) \in Nat /\ Cardinality(s) <= Cardinality(S)
  BY FS_Subset, FS_CardinalityType
<1>2. \A s \in SUBSET S : s # {} =>
        /\ Chosen(s) \in s /\ f[Chosen(s)] \in Int
        /\ s \ {Chosen(s)} \in SUBSET S /\ Cardinality(s \ {Chosen(s)}) = Cardinality(s) - 1
  <2> SUFFICES ASSUME NEW s \in SUBSET S, s # {}
               PROVE  /\ Chosen(s) \in s /\ f[Chosen(s)] \in Int
                      /\ s \ {Chosen(s)} \in SUBSET S
                      /\ Cardinality(s \ {Chosen(s)}) = Cardinality(s) - 1
    OBVIOUS
  <2>1. Chosen(s) \in s
    BY DEF Chosen
  <2> QED
    BY <1>1, <2>1, FS_RemoveElement
<1>3. 0 \in N
  <2>1. \A s \in Small(0) : s = {}
    BY <1>1, FS_EmptySet
  <2> DEFINE g == [s \in Small(0) |-> 0]
  <2>2. g \in [Small(0) -> Int] /\ \A s \in Small(0) : g[s] = Rule(g, s)
    BY <2>1
  <2> QED
    BY <2>2
<1>4. ASSUME NEW n \in Nat, n \in N PROVE n + 1 \in N
  <2>1. PICK g \in [Small(n) -> Int] : \A s \in Small(n) : g[s] = Rule(g, s)
    BY <1>4
  <2> DEFINE h == [s \in Small(n + 1) |-> Rule(g, s)]
  <2>2. \A s \in Small(n + 1) : s # {} => s \ {Chosen(s)} \in Small(n)
    BY <1>1, <1>2
  <2>3. \A s \in Small(n) : s \in Small(n + 1)
    BY <1>1
  <2>4. \A s \in Small(n) : h[s] = g[s]
    BY <2>1, <2>3
  <2>5. h \in [Small(n + 1) -> Int]
    <3>1. ASSUME NEW s \in Small(n + 1) PROVE Rule(g, s) \in Int
      <4>1. CASE s = {}
        BY <4>1
      <4>2. CASE s # {}
        <5>1. g[s \ {Chosen(s)}] \in Int /\ f[Chosen(s)] \in Int
          BY <1>2, <2>1, <2>2, <4>2
        <5> QED
          BY <4>2, <5>1
      <4> QED
        BY <4>1, <4>2
    <3> QED
      BY <3>1
  <2>6. \A s \in Small(n + 1) : h[s] = Rule(h, s)
    <3>1. ASSUME NEW s \in Small(n + 1) PROVE Rule(g, s) = Rule(h, s)
      <4>1. CASE s = {}
        BY <4>1
      <4>2. CASE s # {}
        <5>1. g[s \ {Chosen(s)}] = h[s \ {Chosen(s)}]
          BY <2>2, <2>4, <4>2
        <5> QED
          BY <4>2, <5>1
      <4> QED
        BY <4>1, <4>2
    <3> QED
      BY <3>1
  <2>7. \E w \in [Small(n + 1) -> Int] : \A s \in Small(n + 1) : w[s] = Rule(w, s)
    <3> HIDE DEF h, Small, Rule
    <3> QED
      BY <2>5, <2>6
  <2>8. n + 1 \in Nat
    OBVIOUS
  <2> HIDE DEF h, Small, Rule
  <2> QED
    BY <2>7, <2>8
<1>5. Cardinality(S) \in N
  <2> HIDE DEF N
  <2> QED
    BY <1>1, <1>3, <1>4, InductiveSet
<1>6. Small(Cardinality(S)) = SUBSET S
  BY <1>1
<1>7. PICK g \in [SUBSET S -> Int] : \A s \in SUBSET S : g[s] = Rule(g, s)
  BY <1>5, <1>6
<1>8. g = [s \in SUBSET S |-> Rule(g, s)]
  BY <1>7
<1> QED
  BY <1>7, <1>8 DEF Sums

\* The tables of two functions that agree on a set agree on its subsets.
LEMMA SumsAgree ==
  ASSUME NEW R, NEW S, NEW Q, IsFiniteSet(Q), Q \subseteq R, Q \subseteq S,
         NEW f, NEW g, \A x \in Q : f[x] = g[x],
         NEW F, Sums(F, f, R), NEW G, Sums(G, g, S)
  PROVE  F[Q] = G[Q]
<1> DEFINE T == {s \in SUBSET Q : F[s] = G[s]}
<1>1. ASSUME NEW s \in SUBSET Q, \A x \in s : s \ {x} \in T PROVE s \in T
  <2>1. s \in SUBSET R /\ s \in SUBSET S
    OBVIOUS
  <2>2. /\ F[s] = IF s = {} THEN 0 ELSE f[Chosen(s)] + F[s \ {Chosen(s)}]
        /\ G[s] = IF s = {} THEN 0 ELSE g[Chosen(s)] + G[s \ {Chosen(s)}]
    BY <2>1 DEF Sums
  <2>3. s # {} => Chosen(s) \in s
    BY DEF Chosen
  <2> QED
    BY <1>1, <2>2, <2>3
<1>2. \A s \in SUBSET Q : s \in T
  <2>1. \A s \in SUBSET Q : (\A x \in s : s \ {x} \in T) => s \in T
    BY <1>1
  <2> HIDE DEF T
  <2> QED
    BY <2>1, InductiveSubsets
<1> QED
  BY <1>2

\* The fold is an entry of the table.
LEMMA SumIsEntry ==
  ASSUME NEW S, NEW f, NEW g, Sums(g, f, S)
  PROVE  \E G : Sums(G, f, S) /\ SumFunctionOnSet(f, S) = G[S]
<1> DEFINE G == CHOOSE h : Sums(h, f, S)
<1>1. Sums(G, f, S)
  BY Zenon
<1>2. SumFunctionOnSet(f, S) = G[S]
  BY DEF SumFunctionOnSet, FoldFunctionOnSet, MapThenFoldSet, Sums, Chosen
<1> QED
  BY <1>1, <1>2

\* The sum of nothing; a sum is its value at any one of the elements and the
\* sum of the others, in whichever order the fold takes them.
LEMMA SumSplits ==
  ASSUME NEW S, IsFiniteSet(S), NEW f, \A x \in S : f[x] \in Int
  PROVE  /\ SumFunctionOnSet(f, {}) = 0
         /\ SumFunctionOnSet(f, S) \in Int
         /\ \A x \in S : SumFunctionOnSet(f, S) = f[x] + SumFunctionOnSet(f, S \ {x})
<1> DEFINE Total(s) == SumFunctionOnSet(f, s)
<1>1. PICK g \in [SUBSET S -> Int] : Sums(g, f, S)
  BY SumsExist
<1>2. ASSUME NEW s \in SUBSET S PROVE Total(s) = g[s]
  <2>1. IsFiniteSet(s) /\ \A x \in s : f[x] \in Int
    BY FS_Subset
  <2>2. PICK h : Sums(h, f, s)
    BY <2>1, SumsExist
  <2>3. PICK G : Sums(G, f, s) /\ SumFunctionOnSet(f, s) = G[s]
    BY <2>2, SumIsEntry
  <2>4. G[s] = g[s]
    BY <1>1, <2>1, <2>3, SumsAgree
  <2> QED
    BY <2>3, <2>4
<1>3. \A s \in SUBSET S : g[s] = IF s = {} THEN 0 ELSE f[Chosen(s)] + g[s \ {Chosen(s)}]
  BY <1>1 DEF Sums
<1> DEFINE T == {s \in SUBSET S : \A x \in s : g[s] = f[x] + g[s \ {x}]}
<1>4. ASSUME NEW s \in SUBSET S, \A x \in s : s \ {x} \in T PROVE s \in T
  <2> SUFFICES ASSUME NEW x \in s PROVE g[s] = f[x] + g[s \ {x}]
    OBVIOUS
  <2>1. PICK c \in s : c = Chosen(s)
    BY DEF Chosen
  <2>2. g[s] = f[c] + g[s \ {c}]
    BY <1>3, <2>1
  <2>3. CASE x = c
    BY <2>2, <2>3
  <2>4. CASE x # c
    <3>1. x \in s \ {c} /\ c \in s \ {x}
      BY <2>4
    <3>2. g[s \ {c}] = f[x] + g[(s \ {c}) \ {x}] /\ g[s \ {x}] = f[c] + g[(s \ {x}) \ {c}]
      BY <1>4, <3>1
    <3>3. (s \ {c}) \ {x} = (s \ {x}) \ {c} /\ (s \ {c}) \ {x} \in SUBSET S
      OBVIOUS
    <3>4. PICK r \in Int : r = g[(s \ {c}) \ {x}]
      BY <1>1, <3>3
    <3>5. f[x] \in Int /\ f[c] \in Int
      OBVIOUS
    <3>6. g[s] = f[c] + (f[x] + r) /\ g[s \ {x}] = f[c] + r
      BY <2>2, <3>2, <3>3, <3>4
    <3> QED
      BY <3>4, <3>5, <3>6
  <2> QED
    BY <2>3, <2>4
<1>5. \A s \in SUBSET S : s \in T
  <2>1. \A s \in SUBSET S : (\A x \in s : s \ {x} \in T) => s \in T
    BY <1>4
  <2> HIDE DEF T
  <2> QED
    BY <2>1, InductiveSubsets
<1>6. S \in SUBSET S /\ {} \in SUBSET S /\ \A x \in S : S \ {x} \in SUBSET S
  OBVIOUS
<1>7. Total({}) = 0
  BY <1>2, <1>3, <1>6
<1>8. Total(S) \in Int
  BY <1>1, <1>2, <1>6
<1>9. ASSUME NEW x \in S PROVE Total(S) = f[x] + Total(S \ {x})
  BY <1>2, <1>5, <1>6
<1> QED
  BY <1>7, <1>8, <1>9

\* A sum depends on nothing but the values at the elements.
LEMMA SumsEqual ==
  ASSUME NEW S, IsFiniteSet(S), NEW f, NEW g, \A x \in S : f[x] = g[x] /\ f[x] \in Int
  PROVE  SumFunctionOnSet(f, S) = SumFunctionOnSet(g, S)
<1>1. \A x \in S : g[x] \in Int /\ f[x] \in Int
  OBVIOUS
<1>2. PICK F : Sums(F, f, S) /\ SumFunctionOnSet(f, S) = F[S]
  <2>1. PICK h : Sums(h, f, S)
    BY <1>1, SumsExist
  <2> QED
    BY <2>1, SumIsEntry
<1>3. PICK G : Sums(G, g, S) /\ SumFunctionOnSet(g, S) = G[S]
  <2>1. PICK h : Sums(h, g, S)
    BY <1>1, SumsExist
  <2> QED
    BY <2>1, SumIsEntry
<1>4. F[S] = G[S]
  BY <1>2, <1>3, SumsAgree
<1> QED
  BY <1>2, <1>3, <1>4

\* One value changes by d.
LEMMA SumChanges ==
  ASSUME NEW S, IsFiniteSet(S), NEW f, NEW g, NEW x \in S, NEW d \in Int,
         \A y \in S : f[y] \in Int, g[x] = f[x] + d, \A y \in S : y # x => g[y] = f[y]
  PROVE  SumFunctionOnSet(g, S) = SumFunctionOnSet(f, S) + d
<1>1. \A y \in S : g[y] \in Int
  OBVIOUS
<1>2. IsFiniteSet(S \ {x})
  BY FS_RemoveElement
<1>3. SumFunctionOnSet(f, S \ {x}) = SumFunctionOnSet(g, S \ {x})
  BY <1>2, SumsEqual
<1>4. PICK r \in Int : r = SumFunctionOnSet(f, S \ {x})
  BY <1>2, SumSplits
<1>5. SumFunctionOnSet(f, S) = f[x] + r
  BY <1>4, SumSplits
<1>6. SumFunctionOnSet(g, S) = g[x] + r
  <2>1. SumFunctionOnSet(g, S) = g[x] + SumFunctionOnSet(g, S \ {x})
    BY <1>1, SumSplits
  <2> QED
    BY <1>3, <1>4, <2>1
<1>7. f[x] \in Int
  OBVIOUS
<1> QED
  BY <1>4, <1>5, <1>6, <1>7

\* An element whose value is 0 may come or go.
LEMMA SumIgnoresZero ==
  ASSUME NEW S, IsFiniteSet(S), NEW x, NEW f, \A y \in S : f[y] \in Int, f[x] = 0
  PROVE  SumFunctionOnSet(f, S \cup {x}) = SumFunctionOnSet(f, S)
<1>1. CASE x \in S
  <2>1. S \cup {x} = S
    BY <1>1
  <2> QED
    BY <2>1
<1>2. CASE x \notin S
  <2>1. IsFiniteSet(S \cup {x}) /\ (S \cup {x}) \ {x} = S /\ x \in S \cup {x}
    BY <1>2, FS_AddElement
  <2>2. \A y \in S \cup {x} : f[y] \in Int
    OBVIOUS
  <2>3. PICK r \in Int : r = SumFunctionOnSet(f, S)
    BY SumSplits
  <2>4. SumFunctionOnSet(f, S \cup {x}) = f[x] + SumFunctionOnSet(f, (S \cup {x}) \ {x})
    BY <2>1, <2>2, SumSplits
  <2>5. SumFunctionOnSet(f, S \cup {x}) = 0 + r
    BY <2>1, <2>3, <2>4, Zenon
  <2> QED
    BY <2>3, <2>5
<1> QED
  BY <1>1, <1>2
=============================================================================
