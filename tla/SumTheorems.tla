---------------------------- MODULE SumTheorems ----------------------------
(***************************************************************************)
(* Facts about finite sums, which the fetchers make of a container's       *)
(* counters, of the intervals of its cpuset and of the fields of           *)
(* /proc/stat (network_stats_getter.go:49-120, biz/metrics_all.go:177-221, *)
(* cgroup.go:45-77, system_cpu_reader.go:74-80).                           *)
(*                                                                         *)
(* A sum is that of MapThenSumSet, whose elements are taken in an order    *)
(* of its own.  Induction is by a smallest counterexample.                 *)
(***************************************************************************)
EXTENDS Integers, FiniteSetsExt, FiniteSetTheorems, TLAPS

\* The element of a set that is added next.
Choice(s) == CHOOSE x \in s : TRUE

\* The sum of f over S.
SumOver(f, S) == MapThenSumSet(LAMBDA x : f[x], S)

\* g has the sum of f over each set of D.
Unfolds(g, f, D) ==
    g = [t \in D |-> IF t = {} THEN 0 ELSE f[Choice(t)] + g[t \ {Choice(t)}]]

\* It has them over all the subsets of S.
SumsAll(g, f, S) == Unfolds(g, f, SUBSET S)

\* A collection of subsets of a finite set has a smallest member: what is shown
\* of sets of counters is shown for a counterexample of which no part is one.
LEMMA SmallestSubset ==
    ASSUME NEW S, IsFiniteSet(S), NEW T \in SUBSET SUBSET S, T # {}
    PROVE  \E t \in T : \A u \in T : u \subseteq t => u = t
<1>1. T \subseteq FiniteSubsetsOf(S)
  BY FS_FiniteSubsetsOfFinite
<1>2. PICK t \in T : \A u \in T : <<u, t>> \notin StrictSubsetOrdering(S)
  BY <1>1, FS_StrictSubsetOrderingWellFounded, WFMin
<1>3. QED
  BY <1>2 DEF StrictSubsetOrdering

\* A set of numbers has a least one, as the CPUs of an interval do.
LEMMA SmallestNumber ==
    ASSUME NEW T \in SUBSET Nat, T # {}
    PROVE  \E n \in T : \A m \in T : n <= m
<1>1. PICK b \in T : TRUE
  OBVIOUS
<1> DEFINE F == {0..m : m \in {k \in T : k <= b}}
<1>2. IsFiniteSet(0..b)
  BY FS_Interval
<1>3. F \in SUBSET SUBSET (0..b) /\ F # {}
  <2>1. 0..b \in F
    OBVIOUS
  <2>2. \A k \in T : k <= b => 0..k \in SUBSET (0..b)
    OBVIOUS
  <2>3. QED
    BY <2>1, <2>2
<1>4. \E t \in F : \A u \in F : u \subseteq t => u = t
  <2> DEFINE B == 0..b
  <2>1. IsFiniteSet(B) /\ F \in SUBSET SUBSET B /\ F # {}
    BY <1>2, <1>3
  <2> HIDE DEF F, B
  <2> QED
    BY <2>1, SmallestSubset
<1>5. PICK n \in T : n <= b /\ \A u \in F : u \subseteq 0..n => u = 0..n
  BY <1>4
<1>6. ASSUME NEW m \in T, m < n
      PROVE  FALSE
  <2>1. 0..m \in F /\ 0..m \subseteq 0..n
    BY <1>5, <1>6
  <2>2. 0..m = 0..n
    BY <2>1, <1>5
  <2>3. n \in 0..n /\ n \notin 0..m
    BY <1>6
  <2>4. QED
    BY <2>2, <2>3
<1>7. \A m \in T : n <= m
  BY <1>6
<1>8. QED
  BY <1>7

\* A finite set of numbers is bounded, as the CPUs of a host are.
LEMMA FiniteBounded ==
    ASSUME NEW S, IsFiniteSet(S), \A n \in S : n \in Nat
    PROVE  \E b \in Nat : \A n \in S : n <= b
<1> DEFINE Bad == {t \in SUBSET S : ~ \E b \in Nat : \A n \in t : n <= b}
<1>1. SUFFICES ASSUME Bad # {} PROVE FALSE
  OBVIOUS
<1>2. PICK t \in Bad : \A u \in Bad : u \subseteq t => u = t
  <2>1. Bad \in SUBSET SUBSET S
    OBVIOUS
  <2> HIDE DEF Bad
  <2> QED
    BY <1>1, <2>1, SmallestSubset
<1>3. PICK x \in t : TRUE
  BY <1>2
<1>4. t \ {x} \in SUBSET S /\ t \ {x} \notin Bad
  BY <1>2, <1>3
<1>5. PICK b \in Nat : \A n \in t \ {x} : n <= b
  BY <1>4
<1>6. x \in Nat
  BY <1>3
<1>7. CASE x <= b
  BY <1>2, <1>5, <1>7
<1>8. CASE b < x
  <2>1. \A n \in t : n <= x
    BY <1>5, <1>6, <1>8
  <2>2. QED
    BY <1>2, <1>6, <2>1
<1>9. QED
  BY <1>6, <1>7, <1>8

\* A set of numbers with 0 and the successor of each of its members has all.
LEMMA Induction ==
    ASSUME NEW T \in SUBSET Nat, 0 \in T, \A n \in T : n + 1 \in T
    PROVE  T = Nat
<1>1. SUFFICES ASSUME Nat \ T # {} PROVE FALSE
  OBVIOUS
<1>2. PICK n \in Nat \ T : \A m \in Nat \ T : n <= m
  BY <1>1, SmallestNumber
<1>3. n # 0 /\ n - 1 \in Nat /\ n - 1 \in T
  BY <1>2
<1>4. QED
  BY <1>2, <1>3

\* The function that sums counters exists, whatever the order they are taken in.
LEMMA SumExists ==
    ASSUME NEW S, IsFiniteSet(S), NEW f
    PROVE  \E g : Unfolds(g, f, SUBSET S)
<1> DEFINE Upto(n) == {t \in SUBSET S : Cardinality(t) <= n}
           Good == {n \in Nat : \E g : Unfolds(g, f, Upto(n))}
<1>1. \A t \in SUBSET S : IsFiniteSet(t) /\ Cardinality(t) \in Nat
  BY FS_Subset, FS_CardinalityType
<1>2. \A t \in SUBSET S : t # {} =>
          /\ Choice(t) \in t
          /\ t \ {Choice(t)} \in SUBSET S
          /\ Cardinality(t \ {Choice(t)}) = Cardinality(t) - 1
  BY <1>1, FS_RemoveElement DEF Choice
<1>3. 0 \in Good
  <2>1. \A t \in Upto(0) : t = {}
    BY <1>1, FS_EmptySet
  <2>2. Unfolds([t \in Upto(0) |-> 0], f, Upto(0))
    BY <2>1 DEF Unfolds
  <2>3. QED
    BY <2>2
<1>4. ASSUME NEW n \in Good
      PROVE  n + 1 \in Good
  <2>1. PICK g : Unfolds(g, f, Upto(n))
    OBVIOUS
  <2> DEFINE h == [t \in Upto(n + 1) |->
                     IF t = {} THEN 0 ELSE f[Choice(t)] + g[t \ {Choice(t)}]]
  <2>2. \A t \in Upto(n) : t \in Upto(n + 1)
    BY <1>1
  <2>3. \A t \in Upto(n) : h[t] = g[t]
    <3> HIDE DEF Upto
    <3> QED
      BY <2>1, <2>2 DEF Unfolds
  <2>4. \A t \in Upto(n + 1) : t # {} => t \ {Choice(t)} \in Upto(n)
    BY <1>1, <1>2
  <2>5. Unfolds(h, f, Upto(n + 1))
    <3> HIDE DEF Upto
    <3> QED
      BY <2>3, <2>4 DEF Unfolds
  <2>6. n + 1 \in Nat /\ \E k : Unfolds(k, f, Upto(n + 1))
    <3> HIDE DEF h, Upto
    <3> QED
      BY <2>5
  <2>7. QED
    <3> HIDE DEF Upto
    <3> QED
      BY <2>6
<1>5. Good = Nat
  <2> HIDE DEF Good
  <2>1. Good \in SUBSET Nat
    BY DEF Good
  <2> QED
    BY <2>1, <1>3, <1>4, Induction
<1>6. Upto(Cardinality(S)) = SUBSET S /\ Cardinality(S) \in Nat
  BY FS_Subset, FS_CardinalityType
<1>7. QED
  BY <1>5, <1>6

\* A sum does not depend on the larger set it is computed in.
LEMMA SumsAgree ==
    ASSUME NEW S, IsFiniteSet(S), NEW T \in SUBSET S, NEW f,
           NEW g, SumsAll(g, f, S), NEW h, SumsAll(h, f, T)
    PROVE  \A t \in SUBSET T : g[t] = h[t]
<1> DEFINE Bad == {t \in SUBSET T : g[t] # h[t]}
<1>1. IsFiniteSet(T)
  BY FS_Subset
<1>2. SUFFICES ASSUME Bad # {} PROVE FALSE
  OBVIOUS
<1>3. PICK t \in Bad : \A u \in Bad : u \subseteq t => u = t
  <2>1. Bad \in SUBSET SUBSET T
    OBVIOUS
  <2> HIDE DEF Bad
  <2> QED
    BY <1>1, <1>2, <2>1, SmallestSubset
<1>4. t \in SUBSET S /\ t \in SUBSET T
  OBVIOUS
<1>5. t # {}
  BY <1>3, <1>4 DEF SumsAll, Unfolds
<1>6. Choice(t) \in t
  BY <1>5 DEF Choice
<1>7. g[t \ {Choice(t)}] = h[t \ {Choice(t)}]
  BY <1>3, <1>6
<1>8. g[t] = f[Choice(t)] + g[t \ {Choice(t)}]
  BY <1>4, <1>5 DEF SumsAll, Unfolds
<1>9. h[t] = f[Choice(t)] + h[t \ {Choice(t)}]
  BY <1>4, <1>5 DEF SumsAll, Unfolds
<1>10. QED
  BY <1>3, <1>7, <1>8, <1>9

\* The sum the fetchers compute is that of the function that sums.
LEMMA SumUnfolds ==
    ASSUME NEW S, IsFiniteSet(S), NEW f
    PROVE  \E g : SumsAll(g, f, S) /\ SumOver(f, S) = g[S]
<1>1. PICK g : SumsAll(g, f, S)
  BY SumExists DEF SumsAll
<1>2. \E k : k = [t \in SUBSET S |-> IF t = {} THEN 0 ELSE f[Choice(t)] + k[t \ {Choice(t)}]]
  BY <1>1 DEF SumsAll, Unfolds
<1> DEFINE iter == CHOOSE k : k = [t \in SUBSET S |->
                      IF t = {} THEN 0 ELSE f[Choice(t)] + k[t \ {Choice(t)}]]
<1>3. iter = [t \in SUBSET S |-> IF t = {} THEN 0 ELSE f[Choice(t)] + iter[t \ {Choice(t)}]]
  BY <1>2
<1>4. SumOver(f, S) = iter[S]
  BY DEF SumOver, MapThenSumSet, MapThenFoldSet, Choice
<1>5. QED
  <2> HIDE DEF iter
  <2> QED
    BY <1>3, <1>4 DEF SumsAll, Unfolds

\* The function that sums the counters of a set sums those of its subsets.
LEMMA SumSub ==
    ASSUME NEW S, IsFiniteSet(S), NEW f, NEW g, SumsAll(g, f, S), NEW T \in SUBSET S
    PROVE  SumOver(f, T) = g[T]
<1>1. IsFiniteSet(T)
  BY FS_Subset
<1>2. PICK h : SumsAll(h, f, T) /\ SumOver(f, T) = h[T]
  BY <1>1, SumUnfolds
<1>3. g[T] = h[T]
  BY <1>2, SumsAgree
<1>4. QED
  BY <1>2, <1>3

\* No counters sum to zero.
LEMMA SumEmpty ==
    ASSUME NEW f
    PROVE  SumOver(f, {}) = 0
<1>1. PICK g : SumsAll(g, f, {}) /\ SumOver(f, {}) = g[{}]
  BY FS_EmptySet, SumUnfolds
<1>2. QED
  BY <1>1 DEF SumsAll, Unfolds

\* A sum is the counter taken first and the sum of the others.
LEMMA SumChoice ==
    ASSUME NEW S, IsFiniteSet(S), S # {}, NEW f
    PROVE  SumOver(f, S) = f[Choice(S)] + SumOver(f, S \ {Choice(S)})
<1>1. PICK g : SumsAll(g, f, S) /\ SumOver(f, S) = g[S]
  BY SumUnfolds
<1>2. g[S] = f[Choice(S)] + g[S \ {Choice(S)}]
  BY <1>1 DEF SumsAll, Unfolds
<1>3. SumOver(f, S \ {Choice(S)}) = g[S \ {Choice(S)}]
  BY <1>1, SumSub
<1>4. QED
  BY <1>1, <1>2, <1>3

\* A sum of counters is a natural number.
LEMMA SumType ==
    ASSUME NEW S, IsFiniteSet(S), NEW f, \A x \in S : f[x] \in Nat
    PROVE  SumOver(f, S) \in Nat
<1> DEFINE Bad == {t \in SUBSET S : SumOver(f, t) \notin Nat}
<1>1. SUFFICES ASSUME Bad # {} PROVE FALSE
  OBVIOUS
<1>2. PICK t \in Bad : \A u \in Bad : u \subseteq t => u = t
  <2>1. Bad \in SUBSET SUBSET S
    OBVIOUS
  <2> HIDE DEF Bad
  <2> QED
    BY <1>1, <2>1, SmallestSubset
<1>3. t # {}
  BY SumEmpty
<1>4. Choice(t) \in t /\ IsFiniteSet(t)
  BY <1>3, FS_Subset DEF Choice
<1>5. SumOver(f, t) = f[Choice(t)] + SumOver(f, t \ {Choice(t)})
  BY <1>3, <1>4, SumChoice
<1>6. f[Choice(t)] \in Nat /\ SumOver(f, t \ {Choice(t)}) \in Nat
  BY <1>2, <1>4
<1>7. QED
  BY <1>5, <1>6

\* A sum is any one counter and the sum of the others: the order of the lines of
\* /proc/<pid>/net/dev, or of the map in the API's answer, makes no difference.
LEMMA SumElement ==
    ASSUME NEW S, IsFiniteSet(S), NEW f, \A x \in S : f[x] \in Nat, NEW e \in S
    PROVE  SumOver(f, S) = f[e] + SumOver(f, S \ {e})
<1> DEFINE Splits(t) == \A x \in t : SumOver(f, t) = f[x] + SumOver(f, t \ {x})
           Bad == {t \in SUBSET S : ~Splits(t)}
<1>1. SUFFICES ASSUME Bad # {} PROVE FALSE
  OBVIOUS
<1>2. PICK t \in Bad : \A u \in Bad : u \subseteq t => u = t
  <2>1. Bad \in SUBSET SUBSET S
    OBVIOUS
  <2> HIDE DEF Bad
  <2> QED
    BY <1>1, <2>1, SmallestSubset
<1>3. t \in SUBSET S /\ ~Splits(t) /\ \A u \in SUBSET S : u \subseteq t /\ u # t => Splits(u)
  <2> HIDE DEF Splits
  <2> QED
    BY <1>2
<1>4. PICK x \in t : SumOver(f, t) # f[x] + SumOver(f, t \ {x})
  BY <1>3
<1> DEFINE c == Choice(t)
<1>5. c \in t /\ IsFiniteSet(t)
  BY <1>3, <1>4, FS_Subset DEF Choice
<1>6. SumOver(f, t) = f[c] + SumOver(f, t \ {c})
  BY <1>4, <1>5, SumChoice
<1> HIDE DEF c
<1>7. c # x
  BY <1>4, <1>6
<1>8. SumOver(f, t \ {c}) = f[x] + SumOver(f, (t \ {c}) \ {x})
  <2>1. Splits(t \ {c}) /\ x \in t \ {c}
    <3> HIDE DEF Splits
    <3> QED
      BY <1>3, <1>4, <1>5, <1>7
  <2> QED
    BY <2>1
<1>9. SumOver(f, t \ {x}) = f[c] + SumOver(f, (t \ {c}) \ {x})
  <2>1. Splits(t \ {x}) /\ c \in t \ {x}
    <3> HIDE DEF Splits
    <3> QED
      BY <1>3, <1>4, <1>5, <1>7
  <2>2. (t \ {x}) \ {c} = (t \ {c}) \ {x}
    OBVIOUS
  <2> QED
    BY <2>1, <2>2
<1>10. f[c] \in Nat /\ f[x] \in Nat
  BY <1>3, <1>4, <1>5
<1>11. SumOver(f, (t \ {c}) \ {x}) \in Nat
  <2>1. (t \ {c}) \ {x} \subseteq S
    BY <1>3
  <2>2. IsFiniteSet((t \ {c}) \ {x})
    BY <2>1, FS_Subset
  <2> QED
    BY <2>1, <2>2, SumType
<1>12. QED
  BY <1>4, <1>6, <1>8, <1>9, <1>10, <1>11

\* The sums of counters that are equal are equal.
LEMMA SumEqual ==
    ASSUME NEW S, IsFiniteSet(S), NEW f, NEW g, \A x \in S : f[x] = g[x]
    PROVE  SumOver(f, S) = SumOver(g, S)
<1> DEFINE Bad == {t \in SUBSET S : SumOver(f, t) # SumOver(g, t)}
<1>1. SUFFICES ASSUME Bad # {} PROVE FALSE
  OBVIOUS
<1>2. PICK t \in Bad : \A u \in Bad : u \subseteq t => u = t
  <2>1. Bad \in SUBSET SUBSET S
    OBVIOUS
  <2> HIDE DEF Bad
  <2> QED
    BY <1>1, <2>1, SmallestSubset
<1>3. t # {}
  BY SumEmpty
<1>4. Choice(t) \in t /\ IsFiniteSet(t)
  BY <1>3, FS_Subset DEF Choice
<1>5. SumOver(f, t) = f[Choice(t)] + SumOver(f, t \ {Choice(t)})
  BY <1>3, <1>4, SumChoice
<1>6. SumOver(g, t) = g[Choice(t)] + SumOver(g, t \ {Choice(t)})
  BY <1>3, <1>4, SumChoice
<1>7. SumOver(f, t \ {Choice(t)}) = SumOver(g, t \ {Choice(t)})
  BY <1>2, <1>4
<1>8. f[Choice(t)] = g[Choice(t)]
  BY <1>4
<1>9. QED
  BY <1>2, <1>5, <1>6, <1>7, <1>8

\* When one counter moves, is made or goes, the sum moves by as much.
LEMMA SumOfOthers ==
    ASSUME NEW S, IsFiniteSet(S), NEW f, \A x \in S : f[x] \in Nat,
           NEW T, IsFiniteSet(T), NEW g, \A x \in T : g[x] \in Nat,
           NEW e, S \ {e} = T \ {e}, \A x \in S \ {e} : f[x] = g[x]
    PROVE  SumOver(g, T) = SumOver(f, S) - (IF e \in S THEN f[e] ELSE 0)
                                         + (IF e \in T THEN g[e] ELSE 0)
<1>1. IsFiniteSet(S \ {e}) /\ SumOver(f, S \ {e}) \in Nat
  <2>1. IsFiniteSet(S \ {e}) /\ \A x \in S \ {e} : f[x] \in Nat
    BY FS_Subset
  <2>2. QED
    BY <2>1, SumType
<1>2. SumOver(f, S) = (IF e \in S THEN f[e] ELSE 0) + SumOver(f, S \ {e})
  <2>1. CASE e \in S
    BY <2>1, SumElement
  <2>2. CASE e \notin S
    <3>1. S \ {e} = S
      BY <2>2
    <3>2. SumOver(f, S \ {e}) = SumOver(f, S)
      BY <3>1, Zenon
    <3>3. QED
      BY <1>1, <2>2, <3>2
  <2>3. QED
    BY <2>1, <2>2
<1>3. SumOver(g, T) = (IF e \in T THEN g[e] ELSE 0) + SumOver(g, T \ {e})
  <2>1. CASE e \in T
    BY <2>1, SumElement
  <2>2. CASE e \notin T
    <3>1. T \ {e} = T
      BY <2>2
    <3>2. SumOver(g, T) \in Nat
      BY SumType
    <3>3. SumOver(g, T \ {e}) = SumOver(g, T)
      BY <3>1, Zenon
    <3>4. QED
      BY <2>2, <3>2, <3>3
  <2>3. QED
    BY <2>1, <2>2
<1>4. SumOver(f, S \ {e}) = SumOver(g, T \ {e})
  <2>1. SumOver(f, S \ {e}) = SumOver(g, S \ {e})
    BY <1>1, SumEqual
  <2>2. QED
    BY <2>1
<1>5. e \in S => f[e] \in Nat
  OBVIOUS
<1>6. e \in T => g[e] \in Nat
  OBVIOUS
<1>7. QED
  BY <1>1, <1>2, <1>3, <1>4, <1>5, <1>6

\* The sum of counters at zero is zero.
LEMMA SumZero ==
    ASSUME NEW S, IsFiniteSet(S), NEW f, \A x \in S : f[x] = 0
    PROVE  SumOver(f, S) = 0
<1> DEFINE Bad == {t \in SUBSET S : SumOver(f, t) # 0}
<1>1. SUFFICES ASSUME Bad # {} PROVE FALSE
  OBVIOUS
<1>2. PICK t \in Bad : \A u \in Bad : u \subseteq t => u = t
  <2>1. Bad \in SUBSET SUBSET S
    OBVIOUS
  <2> HIDE DEF Bad
  <2> QED
    BY <1>1, <2>1, SmallestSubset
<1>3. t # {}
  BY SumEmpty
<1>4. Choice(t) \in t /\ IsFiniteSet(t)
  BY <1>3, FS_Subset DEF Choice
<1>5. SumOver(f, t) = f[Choice(t)] + SumOver(f, t \ {Choice(t)})
  BY <1>3, <1>4, SumChoice
<1>6. f[Choice(t)] = 0 /\ SumOver(f, t \ {Choice(t)}) = 0
  BY <1>2, <1>4
<1>7. QED
  BY <1>2, <1>5, <1>6

\* A sum of sums, field by field: what the CPUs spend in one tick is added to
\* the fields of /proc/stat.
LEMMA SumAdd ==
    ASSUME NEW S, IsFiniteSet(S), NEW f, \A x \in S : f[x] \in Nat,
           NEW g, \A x \in S : g[x] \in Nat, NEW h, \A x \in S : h[x] = f[x] + g[x]
    PROVE  SumOver(h, S) = SumOver(f, S) + SumOver(g, S)
<1> DEFINE Bad == {t \in SUBSET S : SumOver(h, t) # SumOver(f, t) + SumOver(g, t)}
<1>1. SUFFICES ASSUME Bad # {} PROVE FALSE
  OBVIOUS
<1>2. PICK t \in Bad : \A u \in Bad : u \subseteq t => u = t
  <2>1. Bad \in SUBSET SUBSET S
    OBVIOUS
  <2> HIDE DEF Bad
  <2> QED
    BY <1>1, <2>1, SmallestSubset
<1>3. t # {}
  BY SumEmpty
<1>4. Choice(t) \in t /\ IsFiniteSet(t)
  BY <1>3, FS_Subset DEF Choice
<1> DEFINE c == Choice(t)
           r == t \ {c}
<1>5. /\ SumOver(f, t) = f[c] + SumOver(f, r)
      /\ SumOver(g, t) = g[c] + SumOver(g, r)
      /\ SumOver(h, t) = h[c] + SumOver(h, r)
  BY <1>3, <1>4, SumChoice
<1>6. SumOver(h, r) = SumOver(f, r) + SumOver(g, r)
  BY <1>2, <1>4
<1>7. SumOver(f, r) \in Nat /\ SumOver(g, r) \in Nat
  <2>1. IsFiniteSet(r) /\ \A x \in r : f[x] \in Nat /\ g[x] \in Nat
    BY <1>4, FS_Subset
  <2> QED
    BY <2>1, SumType
<1>8. f[c] \in Nat /\ g[c] \in Nat /\ h[c] = f[c] + g[c]
  BY <1>4
<1> HIDE DEF c, r
<1>9. QED
  BY <1>2, <1>5, <1>6, <1>7, <1>8

\* Counters cut to multiples of j lose at most c each, and their sum at most c
\* for each: the fields of /proc/stat are cut before they are summed.
LEMMA SumCut ==
    ASSUME NEW S, IsFiniteSet(S), NEW j \in Nat, NEW c \in Nat,
           NEW f, \A x \in S : f[x] \in Nat, NEW h, \A x \in S : h[x] \in Nat,
           \A x \in S : j * h[x] <= f[x] /\ f[x] <= j * h[x] + c
    PROVE  /\ j * SumOver(h, S) <= SumOver(f, S)
           /\ SumOver(f, S) <= j * SumOver(h, S) + c * Cardinality(S)
<1> DEFINE Holds(t) == /\ j * SumOver(h, t) <= SumOver(f, t)
                       /\ SumOver(f, t) <= j * SumOver(h, t) + c * Cardinality(t)
           Bad == {t \in SUBSET S : ~Holds(t)}
<1>1. SUFFICES ASSUME Bad # {} PROVE FALSE
  OBVIOUS
<1>2. PICK t \in Bad : \A u \in Bad : u \subseteq t => u = t
  <2>1. Bad \in SUBSET SUBSET S
    OBVIOUS
  <2> HIDE DEF Bad
  <2> QED
    BY <1>1, <2>1, SmallestSubset
<1>3. t # {}
  <2>1. Holds({})
    <3>1. SumOver(h, {}) = 0 /\ SumOver(f, {}) = 0 /\ Cardinality({}) = 0
      BY SumEmpty, FS_EmptySet
    <3> QED
      BY <3>1
  <2> QED
    BY <2>1
<1> DEFINE e == Choice(t)
           r == t \ {e}
<1>4. e \in t /\ IsFiniteSet(t)
  BY <1>3, FS_Subset DEF Choice
<1>5. SumOver(f, t) = f[e] + SumOver(f, r) /\ SumOver(h, t) = h[e] + SumOver(h, r)
  BY <1>3, <1>4, SumChoice
<1>6. Holds(r)
  BY <1>2, <1>4
<1>7. SumOver(f, r) \in Nat /\ SumOver(h, r) \in Nat
  <2>1. IsFiniteSet(r) /\ \A x \in r : f[x] \in Nat /\ h[x] \in Nat
    BY <1>4, FS_Subset
  <2> QED
    BY <2>1, SumType
<1>8. Cardinality(t) = Cardinality(r) + 1 /\ Cardinality(r) \in Nat
  BY <1>4, FS_RemoveElement, FS_CardinalityType, FS_Subset
<1>9. /\ f[e] \in Nat /\ h[e] \in Nat
      /\ j * h[e] <= f[e] /\ f[e] <= j * h[e] + c
  BY <1>4
<1> HIDE DEF e, r
<1>10. /\ j * (h[e] + SumOver(h, r)) = j * h[e] + j * SumOver(h, r)
       /\ c * (Cardinality(r) + 1) = c * Cardinality(r) + c
       /\ j * h[e] \in Nat /\ j * SumOver(h, r) \in Nat /\ c * Cardinality(r) \in Nat
  BY <1>7, <1>8, <1>9
<1>11. Holds(t)
  BY <1>5, <1>6, <1>7, <1>8, <1>9, <1>10
<1>12. QED
  BY <1>2, <1>11
=============================================================================
