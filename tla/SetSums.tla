-------------------------------- MODULE SetSums --------------------------------
(***************************************************************************)
(* What MapThenSumSet computes: the sum of a function over a finite set.    *)
(* The byte account of the image store and the token account of the agent   *)
(* caps are such sums.                                                      *)
(*                                                                          *)
(* MapThenSumSet is a recursive function on the subsets of its argument.    *)
(* Facts about it are proved by infinite descent: of the sizes at which a   *)
(* fact fails there would be a least one.                                   *)
(***************************************************************************)
EXTENDS Integers, FiniteSets, FiniteSetsExt, FiniteSetTheorems, WellFoundedInduction, TLAPS

(* The element MapThenSumSet takes out of s first. *)
First(s) == CHOOSE x \in s : TRUE

(* g maps each subset of S to the sum of F over it. *)
Sums(F, S, g) ==
  g = [s \in SUBSET S |-> IF s = {} THEN 0 ELSE F[First(s)] + g[s \ {First(s)}]]

(* Whichever element is taken out first, the entry is the same. *)
AnyFirst(F, S, g) == \A s \in SUBSET S : \A x \in s : g[s] = F[x] + g[s \ {x}]

(* Entries of disjoint sets add up. *)
AddUp(S, g) ==
  \A a \in SUBSET S, b \in SUBSET S : a \cap b = {} => g[a \cup b] = g[a] + g[b]

(* The sum of F over S. *)
Total(F, S) == MapThenSumSet(LAMBDA x : F[x], S)

-----------------------------------------------------------------------------
(* A nonempty set of naturals has a least element. *)
LEMMA Least ==
  ASSUME NEW T \in SUBSET Nat, T # {}
  PROVE  \E m \in T : \A k \in T : m <= k
<1>1. PICK m \in T : \A k \in T : ~(<<k, m>> \in OpToRel(<, Nat))
  BY NatLessThanWellFounded, WFMin
<1>2. \A k \in T : ~(k < m)
  BY <1>1 DEF OpToRel
<1> HIDE <1>1
<1> QED
  BY <1>2

(* A nonempty finite set without one of its elements is one smaller. *)
LEMMA Smaller ==
  ASSUME NEW s, IsFiniteSet(s), NEW x \in s
  PROVE  /\ IsFiniteSet(s \ {x}) /\ Cardinality(s) \in Nat \ {0}
         /\ Cardinality(s \ {x}) = Cardinality(s) - 1
<1>1. Cardinality(s) \in Nat /\ Cardinality(s) # 0
  BY FS_CardinalityType, FS_EmptySet
<1> QED
  BY <1>1, FS_RemoveElement

(* First takes an element. *)
LEMMA FirstIn == ASSUME NEW s, s # {} PROVE First(s) \in s
BY DEF First

-----------------------------------------------------------------------------
(* There is such a g: tables that are right up to a size extend to the next. *)
LEMMA SumsExist ==
  ASSUME NEW S, IsFiniteSet(S), NEW F, \A x \in S : F[x] \in Int
  PROVE  \E g : Sums(F, S, g)
<1> DEFINE Rec(g, s) == IF s = {} THEN 0 ELSE F[First(s)] + g[s \ {First(s)}]
           Upto(g, n) == \A s \in SUBSET S : Cardinality(s) <= n => g[s] = Rec(g, s)
           Bad == {n \in Nat : ~\E g \in [SUBSET S -> Int] : Upto(g, n)}
<1>1. \A s \in SUBSET S : IsFiniteSet(s) /\ Cardinality(s) \in Nat /\ Cardinality(s) <= Cardinality(S)
  BY FS_Subset, FS_CardinalityType
<1>2. ASSUME Bad # {} PROVE FALSE
  <2>1. PICK m \in Bad : \A k \in Bad : m <= k
    BY <1>2, Least
  <2>2. m # 0
    <3>1. SUFFICES ASSUME m = 0 PROVE FALSE
      OBVIOUS
    <3>2. PICK g : g = [s \in SUBSET S |-> 0]
      OBVIOUS
    <3>3. g \in [SUBSET S -> Int]
      BY <3>2
    <3>4. Upto(g, 0)
      BY <1>1, <3>2, FS_EmptySet
    <3> QED
      BY <2>1, <3>1, <3>3, <3>4
  <2>3. PICK k \in Nat : m = k + 1
    <3>1. m \in Nat /\ m - 1 \in Nat /\ m = (m - 1) + 1
      BY <2>1, <2>2
    <3> QED
      BY <3>1
  <2>4. PICK g \in [SUBSET S -> Int] : Upto(g, k)
    <3>1. k \notin Bad
      <4> HIDE DEF Bad
      <4> QED
        BY <2>1, <2>3
    <3> HIDE DEF Upto
    <3> QED
      BY <3>1
  <2>5. PICK h : h = [s \in SUBSET S |-> IF Cardinality(s) <= k THEN g[s] ELSE Rec(g, s)]
    OBVIOUS
  <2>6. ASSUME NEW s \in SUBSET S, s # {}
        PROVE  First(s) \in S /\ s \ {First(s)} \in SUBSET S
                 /\ Cardinality(s \ {First(s)}) = Cardinality(s) - 1
    <3>1. First(s) \in s /\ IsFiniteSet(s)
      BY <1>1, <2>6, FirstIn
    <3> QED
      BY <3>1, Smaller
  <2>7. ASSUME NEW s \in SUBSET S PROVE Rec(g, s) \in Int
    <3>1. CASE s = {}
      BY <3>1
    <3>2. CASE s # {}
      <4>1. F[First(s)] \in Int /\ g[s \ {First(s)}] \in Int
        BY <2>4, <2>6, <3>2
      <4> QED
        BY <3>2, <4>1
    <3> QED
      BY <3>1, <3>2
  <2>8. h \in [SUBSET S -> Int]
    BY <2>4, <2>5, <2>7
  <2>9. ASSUME NEW s \in SUBSET S, Cardinality(s) <= m PROVE h[s] = Rec(h, s)
    <3>1. h[s] = Rec(g, s)
      BY <2>4, <2>5, <2>9
    <3>2. CASE s = {}
      BY <3>1, <3>2
    <3>3. CASE s # {}
      <4>1. PICK t : t = s \ {First(s)}
        OBVIOUS
      <4>2. t \in SUBSET S /\ Cardinality(t) <= k
        BY <1>1, <2>3, <2>6, <2>9, <3>3, <4>1
      <4>3. h[t] = g[t]
        BY <2>5, <4>2
      <4> QED
        BY <3>1, <3>3, <4>1, <4>3
    <3> QED
      BY <3>2, <3>3
  <2>10. Upto(h, m)
    BY <2>9
  <2> QED
    BY <2>1, <2>8, <2>10
<1>3. Cardinality(S) \in Nat
  BY FS_CardinalityType
<1>4. PICK g \in [SUBSET S -> Int] : Upto(g, Cardinality(S))
  BY <1>2, <1>3
<1>5. \A s \in SUBSET S : g[s] = Rec(g, s)
  BY <1>1, <1>4
<1>6. g = [s \in SUBSET S |-> Rec(g, s)]
  BY <1>4, <1>5
<1> QED
  BY <1>6 DEF Sums

(* Total is the last entry of such a g. *)
LEMMA TotalSums ==
  ASSUME NEW S, IsFiniteSet(S), NEW F, \A x \in S : F[x] \in Int
  PROVE  \E g : Sums(F, S, g) /\ Total(F, S) = g[S]
<1>1. PICK g : g = CHOOSE it : Sums(F, S, it)
  OBVIOUS
<1>2. Sums(F, S, g)
  BY <1>1, SumsExist
<1>3. Total(F, S) = (CHOOSE it : Sums(F, S, it))[S]
  BY DEF Total, Sums, First, MapThenSumSet, MapThenFoldSet
<1> QED
  BY <1>1, <1>2, <1>3

-----------------------------------------------------------------------------
(* The sum over nothing. *)
LEMMA SumsEmpty ==
  ASSUME NEW S, NEW F, NEW g, Sums(F, S, g)
  PROVE  g[{}] = 0
BY DEF Sums

(* Sums are numbers of the kind the terms are. *)
LEMMA SumsType ==
  ASSUME NEW S, IsFiniteSet(S), NEW F, NEW g, Sums(F, S, g),
         NEW N, 0 \in N, \A i, j \in N : i + j \in N, \A x \in S : F[x] \in N
  PROVE  \A s \in SUBSET S : g[s] \in N
<1>1. \A s \in SUBSET S : IsFiniteSet(s) /\ Cardinality(s) \in Nat
  BY FS_Subset, FS_CardinalityType
<1>2. \A s \in SUBSET S : s # {} => g[s] = F[First(s)] + g[s \ {First(s)}]
  BY DEF Sums
<1> DEFINE Bad == {n \in Nat : \E s \in SUBSET S : Cardinality(s) = n /\ g[s] \notin N}
<1>3. ASSUME Bad # {} PROVE FALSE
  <2>1. PICK m \in Bad : \A k \in Bad : m <= k
    BY <1>3, Least
  <2>2. PICK s \in SUBSET S : Cardinality(s) = m /\ g[s] \notin N
    BY <2>1
  <2>3. ASSUME m \in Nat \ {0} PROVE \A t \in SUBSET S : Cardinality(t) = m - 1 => g[t] \in N
    <3>1. m - 1 \in Nat /\ m - 1 \notin Bad
      <4> HIDE DEF Bad
      <4> QED
        BY <2>1, <2>3
    <3> QED
      BY <3>1
  <2> HIDE DEF Bad
  <2>4. s # {}
    <3>1. g[{}] = 0
      BY SumsEmpty
    <3> QED
      BY <2>2, <3>1
  <2>5. First(s) \in s /\ First(s) \in S
    BY <2>4, FirstIn
  <2>6. PICK t : t = s \ {First(s)}
    OBVIOUS
  <2>7. t \in SUBSET S /\ Cardinality(t) = m - 1 /\ m \in Nat \ {0}
    BY <1>1, <2>2, <2>5, <2>6, Smaller
  <2>8. g[t] \in N
    BY <2>3, <2>7
  <2>9. g[s] = F[First(s)] + g[t]
    BY <1>2, <2>4, <2>6
  <2> QED
    BY <2>2, <2>5, <2>8, <2>9
<1> QED
  BY <1>1, <1>3

\* Sums of integers are integers.
LEMMA SumsInt ==
  ASSUME NEW S, IsFiniteSet(S), NEW F, \A x \in S : F[x] \in Int, NEW g, Sums(F, S, g)
  PROVE  \A s \in SUBSET S : g[s] \in Int
<1>1. PICK N : N = Int
  OBVIOUS
<1>2. 0 \in N /\ (\A i, j \in N : i + j \in N) /\ \A x \in S : F[x] \in N
  BY <1>1
<1>3. \A s \in SUBSET S : g[s] \in N
  BY <1>2, SumsType
<1> QED
  BY <1>1, <1>3

(* Whichever element is taken out first, the sum is the same. *)
LEMMA SumsAny ==
  ASSUME NEW S, IsFiniteSet(S), NEW F, \A x \in S : F[x] \in Int, NEW g, Sums(F, S, g)
  PROVE  AnyFirst(F, S, g)
<1>1. \A s \in SUBSET S : IsFiniteSet(s) /\ Cardinality(s) \in Nat
  BY FS_Subset, FS_CardinalityType
<1>2. \A s \in SUBSET S : g[s] \in Int
  BY SumsInt
<1>3. \A s \in SUBSET S : s # {} => g[s] = F[First(s)] + g[s \ {First(s)}]
  BY DEF Sums
<1> DEFINE Bad == {n \in Nat : \E s \in SUBSET S : \E x \in s :
                     Cardinality(s) = n /\ g[s] # F[x] + g[s \ {x}]}
<1>4. ASSUME Bad # {} PROVE FALSE
  <2>1. PICK m \in Bad : \A k \in Bad : m <= k
    BY <1>4, Least
  <2>2. PICK s \in SUBSET S : \E x \in s : Cardinality(s) = m /\ g[s] # F[x] + g[s \ {x}]
    BY <2>1
  <2>3. PICK x \in s : Cardinality(s) = m /\ g[s] # F[x] + g[s \ {x}]
    BY <2>2
  <2>4. PICK c : c = First(s)
    OBVIOUS
  <2>5. c \in s /\ g[s] = F[c] + g[s \ {c}]
    BY <1>3, <2>3, <2>4, FirstIn
  <2>6. x # c
    BY <2>3, <2>5
  <2>7. PICK r, t, u : r = s \ {c} /\ t = s \ {x} /\ u = (s \ {c}) \ {x}
    OBVIOUS
  <2>8. /\ r \in SUBSET S /\ t \in SUBSET S /\ u \in SUBSET S /\ x \in r /\ c \in t
        /\ u = r \ {x} /\ u = t \ {c}
    BY <2>3, <2>5, <2>6, <2>7
  <2>9. Cardinality(r) = m - 1 /\ Cardinality(t) = m - 1 /\ m \in Nat \ {0}
    BY <1>1, <2>3, <2>5, <2>7, Smaller
  <2>10. m - 1 \notin Bad
    <3> HIDE DEF Bad
    <3> QED
      BY <2>1, <2>9
  <2>11. g[r] = F[x] + g[u] /\ g[t] = F[c] + g[u]
    <3>1. m - 1 \in Nat
      BY <2>9
    <3>2. \A a \in SUBSET S : \A y \in a : Cardinality(a) = m - 1 => g[a] = F[y] + g[a \ {y}]
      BY <2>10, <3>1
    <3> QED
      BY <2>8, <2>9, <3>2
  <2>12. F[x] \in Int /\ F[c] \in Int /\ g[u] \in Int
    BY <1>2, <2>3, <2>5, <2>8
  <2>13. g[s] = F[x] + g[t]
    BY <2>5, <2>7, <2>11, <2>12
  <2> QED
    BY <2>3, <2>7, <2>13
<1> QED
  BY <1>1, <1>4 DEF AnyFirst

(* Two tables agree on a set on which their functions do. *)
LEMMA SumsAgree ==
  ASSUME NEW S, IsFiniteSet(S), NEW F, NEW g, Sums(F, S, g),
         NEW T, NEW G, NEW h, Sums(G, T, h)
  PROVE  \A s \in SUBSET S : s \in SUBSET T /\ (\A x \in s : F[x] = G[x]) => g[s] = h[s]
<1>1. \A s \in SUBSET S : IsFiniteSet(s) /\ Cardinality(s) \in Nat
  BY FS_Subset, FS_CardinalityType
<1>2. \A s \in SUBSET S : s # {} => g[s] = F[First(s)] + g[s \ {First(s)}]
  BY DEF Sums
<1>3. \A s \in SUBSET T : s # {} => h[s] = G[First(s)] + h[s \ {First(s)}]
  BY DEF Sums
<1> DEFINE Bad == {n \in Nat : \E s \in SUBSET S :
                     /\ Cardinality(s) = n /\ s \in SUBSET T
                     /\ \A x \in s : F[x] = G[x]
                     /\ g[s] # h[s]}
<1>4. ASSUME Bad # {} PROVE FALSE
  <2>1. PICK m \in Bad : \A k \in Bad : m <= k
    BY <1>4, Least
  <2>2. PICK s \in SUBSET S :
          /\ Cardinality(s) = m /\ s \in SUBSET T
          /\ \A x \in s : F[x] = G[x]
          /\ g[s] # h[s]
    BY <2>1
  <2>3. ASSUME m \in Nat \ {0}
        PROVE  \A t \in SUBSET S : Cardinality(t) = m - 1 /\ t \in SUBSET T /\ (\A x \in t : F[x] = G[x])
                                 => g[t] = h[t]
    <3>1. m - 1 \in Nat /\ m - 1 \notin Bad
      <4> HIDE DEF Bad
      <4> QED
        BY <2>1, <2>3
    <3> QED
      BY <3>1
  <2> HIDE DEF Bad
  <2>4. s # {}
    <3>1. g[{}] = 0
      BY SumsEmpty
    <3>2. h[{}] = 0
      BY SumsEmpty
    <3>3. g[s] # h[s]
      BY <2>2
    <3>4. s = {} => g[{}] # h[{}]
      BY <3>3, Zenon
    <3> QED
      BY <3>1, <3>2, <3>4
  <2>5. First(s) \in s
    BY <2>4, FirstIn
  <2>6. PICK t : t = s \ {First(s)}
    OBVIOUS
  <2>7. /\ t \in SUBSET S /\ t \in SUBSET T /\ \A x \in t : F[x] = G[x]
    BY <2>2, <2>6
  <2>8. Cardinality(t) = m - 1 /\ m \in Nat \ {0}
    BY <1>1, <2>2, <2>5, <2>6, Smaller
  <2>9. g[t] = h[t]
    BY <2>3, <2>7, <2>8
  <2>10. g[s] = F[First(s)] + g[t]
    BY <1>2, <2>4, <2>6
  <2>11. h[s] = G[First(s)] + h[t]
    BY <1>3, <2>2, <2>4, <2>6
  <2> QED
    BY <2>2, <2>5, <2>9, <2>10, <2>11
<1> QED
  BY <1>1, <1>4

(* Sums over disjoint sets add up. *)
LEMMA SumsUnion ==
  ASSUME NEW S, IsFiniteSet(S), NEW F, \A x \in S : F[x] \in Int, NEW g, Sums(F, S, g)
  PROVE  AddUp(S, g)
<1>0. SUFFICES ASSUME NEW a \in SUBSET S
               PROVE  \A b \in SUBSET S : a \cap b = {} => g[a \cup b] = g[a] + g[b]
  BY DEF AddUp
<1>1. \A s \in SUBSET S : IsFiniteSet(s) /\ Cardinality(s) \in Nat
  BY FS_Subset, FS_CardinalityType
<1>2. \A s \in SUBSET S : g[s] \in Int
  BY SumsInt
<1>3. \A s \in SUBSET S : \A x \in s : g[s] = F[x] + g[s \ {x}]
  <2>1. AnyFirst(F, S, g)
    BY SumsAny
  <2> QED
    BY <2>1 DEF AnyFirst
<1> DEFINE Bad == {n \in Nat : \E b \in SUBSET S :
                     Cardinality(b) = n /\ a \cap b = {} /\ g[a \cup b] # g[a] + g[b]}
<1>4. ASSUME Bad # {} PROVE FALSE
  <2>1. PICK m \in Bad : \A k \in Bad : m <= k
    BY <1>4, Least
  <2>2. PICK b \in SUBSET S : Cardinality(b) = m /\ a \cap b = {} /\ g[a \cup b] # g[a] + g[b]
    BY <2>1
  <2>3. ASSUME m \in Nat \ {0}
        PROVE  \A t \in SUBSET S : Cardinality(t) = m - 1 /\ a \cap t = {} => g[a \cup t] = g[a] + g[t]
    <3>1. m - 1 \in Nat /\ m - 1 \notin Bad
      <4> HIDE DEF Bad
      <4> QED
        BY <2>1, <2>3
    <3> QED
      BY <3>1
  <2> HIDE DEF Bad
  <2>4. b # {}
    <3>1. SUFFICES ASSUME b = {} PROVE FALSE
      OBVIOUS
    <3>2. a \cup b = a
      BY <3>1
    <3>3. g[{}] = 0
      BY SumsEmpty
    <3>4. g[b] = 0
      BY <3>1, <3>3, Zenon
    <3>5. g[a \cup b] = g[a]
      BY <3>2, Zenon
    <3> QED
      BY <1>2, <2>2, <3>4, <3>5
  <2>5. PICK x : x \in b
    BY <2>4
  <2>6. PICK t, u : t = b \ {x} /\ u = a \cup b
    OBVIOUS
  <2>7. /\ t \in SUBSET S /\ a \cap t = {} /\ u \in SUBSET S /\ x \in u /\ x \in S
        /\ u \ {x} = a \cup t
    BY <2>2, <2>5, <2>6
  <2>8. Cardinality(t) = m - 1 /\ m \in Nat \ {0}
    BY <1>1, <2>2, <2>5, <2>6, Smaller
  <2>9. g[a \cup t] = g[a] + g[t]
    BY <2>3, <2>7, <2>8
  <2>10. g[b] = F[x] + g[t]
    BY <1>3, <2>5, <2>6
  <2>11. g[u] = F[x] + g[u \ {x}]
    BY <1>3, <2>7
  <2>12. g[u \ {x}] = g[a] + g[t]
    BY <2>7, <2>9, Zenon
  <2>13. F[x] \in Int /\ g[a] \in Int /\ g[t] \in Int
    BY <1>2, <2>7
  <2>14. g[u] = g[a] + g[b]
    BY <2>10, <2>11, <2>12, <2>13
  <2> QED
    BY <2>2, <2>6, <2>14
<1> QED
  BY <1>1, <1>4

-----------------------------------------------------------------------------
(* A sum is a number. *)
LEMMA TotalInt ==
  ASSUME NEW S, IsFiniteSet(S), NEW F, \A x \in S : F[x] \in Int
  PROVE  Total(F, S) \in Int
<1>1. PICK g : Sums(F, S, g) /\ Total(F, S) = g[S]
  BY TotalSums
<1> QED
  BY <1>1, SumsInt

(* A sum of natural numbers is one. *)
LEMMA TotalNat ==
  ASSUME NEW S, IsFiniteSet(S), NEW F, \A x \in S : F[x] \in Nat
  PROVE  Total(F, S) \in Nat
<1>1. PICK g : Sums(F, S, g) /\ Total(F, S) = g[S]
  <2>1. \A x \in S : F[x] \in Int
    OBVIOUS
  <2> QED
    BY <2>1, TotalSums
<1>2. PICK N : N = Nat
  OBVIOUS
<1>3. 0 \in N /\ (\A i, j \in N : i + j \in N) /\ \A x \in S : F[x] \in N
  BY <1>2
<1>4. \A s \in SUBSET S : g[s] \in N
  BY <1>1, <1>3, SumsType
<1> QED
  BY <1>1, <1>2, <1>4

(* A sum of zeros is zero. *)
LEMMA TotalZero ==
  ASSUME NEW S, IsFiniteSet(S), NEW F, \A x \in S : F[x] = 0
  PROVE  Total(F, S) = 0
<1>1. PICK g : Sums(F, S, g) /\ Total(F, S) = g[S]
  BY TotalSums
<1>2. PICK N : N = {0}
  OBVIOUS
<1>3. 0 \in N /\ (\A i, j \in N : i + j \in N) /\ \A x \in S : F[x] \in N
  BY <1>2
<1>4. \A s \in SUBSET S : g[s] \in N
  BY <1>1, <1>3, SumsType
<1> QED
  BY <1>1, <1>2, <1>4

(* The sum over nothing is 0. *)
LEMMA TotalEmpty ==
  ASSUME NEW F
  PROVE  Total(F, {}) = 0
<1>1. IsFiniteSet({}) /\ \A x \in {} : F[x] \in Int
  BY FS_EmptySet
<1>2. PICK g : Sums(F, {}, g) /\ Total(F, {}) = g[{}]
  BY <1>1, TotalSums
<1> QED
  BY <1>2, SumsEmpty

(* Functions that agree on a set have the same sum over it. *)
LEMMA TotalAgrees ==
  ASSUME NEW S, IsFiniteSet(S), NEW F, NEW G, \A x \in S : F[x] \in Int /\ F[x] = G[x]
  PROVE  Total(F, S) = Total(G, S)
<1>1. PICK g : Sums(F, S, g) /\ Total(F, S) = g[S]
  BY TotalSums
<1>2. PICK h : Sums(G, S, h) /\ Total(G, S) = h[S]
  BY TotalSums
<1>3. g[S] = h[S]
  BY <1>1, <1>2, SumsAgree
<1> QED
  BY <1>1, <1>2, <1>3

(* The sum over two disjoint sets is the sum of theirs. *)
LEMMA TotalUnion ==
  ASSUME NEW A, IsFiniteSet(A), NEW B, IsFiniteSet(B), A \cap B = {}, NEW F,
         \A x \in A \cup B : F[x] \in Int
  PROVE  Total(F, A \cup B) = Total(F, A) + Total(F, B)
<1>1. PICK S : S = A \cup B
  OBVIOUS
<1>2. IsFiniteSet(S) /\ A \in SUBSET S /\ B \in SUBSET S /\ S \in SUBSET S
  BY <1>1, FS_Union
<1>3. PICK g : Sums(F, S, g) /\ Total(F, S) = g[S]
  BY <1>1, <1>2, TotalSums
<1>4. PICK h : Sums(F, A, h) /\ Total(F, A) = h[A]
  BY TotalSums
<1>5. PICK k : Sums(F, B, k) /\ Total(F, B) = k[B]
  BY TotalSums
<1>6. h[A] = g[A]
  BY <1>2, <1>3, <1>4, SumsAgree
<1>7. k[B] = g[B]
  BY <1>2, <1>3, <1>5, SumsAgree
<1>8. g[A \cup B] = g[A] + g[B]
  <2>1. AddUp(S, g)
    BY <1>1, <1>2, <1>3, SumsUnion
  <2> QED
    BY <1>2, <2>1 DEF AddUp
<1> QED
  BY <1>1, <1>3, <1>4, <1>5, <1>6, <1>7, <1>8
=============================================================================
