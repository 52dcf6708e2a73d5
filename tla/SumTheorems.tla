----------------------------- MODULE SumTheorems -----------------------------
(***************************************************************************)
(* Facts about SumFunctionOnSet, the sum of the values of a function over  *)
(* a finite set, that the proofs about balances need.  The fold behind it  *)
(* takes one element after the other in the order of a CHOOSE; that the    *)
(* order does not matter is proved here.                                   *)
(***************************************************************************)
EXTENDS Integers, FiniteSets, Functions, FiniteSetTheorems, WellFoundedInduction, TLAPS

(* The element that the fold takes next.                                   *)
Pick(s) == CHOOSE x \in s : TRUE

(* h is what the fold computes for every subset of S.                      *)
IsSumOn(h, f, S) ==
  h = [s \in SUBSET S |-> IF s = {} THEN 0 ELSE f[Pick(s)] + h[s \ {Pick(s)}]]

(* A set of subsets of a finite set has a smallest one.                    *)
LEMMA SmallestSubset ==
  ASSUME NEW S, IsFiniteSet(S), NEW T, T \subseteq SUBSET S, T # {}
  PROVE  \E x \in T : \A y \in SUBSET x : y \in T => y = x
<1> DEFINE R == StrictSubsetOrdering(S)
<1>1. IsWellFoundedOn(R, SUBSET S)
  BY FS_StrictSubsetOrderingWellFounded, FS_FiniteSubsetsOfFinite
<1> HIDE DEF R
<1>2. PICK x \in T : \A y \in T : ~ (<<y, x>> \in R)
  BY <1>1, WFMin
<1>3. ASSUME NEW y \in SUBSET x, y \in T, y # x PROVE FALSE
  <2>1. <<y, x>> \in R
    BY <1>3, <1>2 DEF R, StrictSubsetOrdering
  <2> QED
    BY <2>1, <1>2, <1>3
<1> QED
  BY <1>2, <1>3

LEMMA PickIn == ASSUME NEW s, s # {} PROVE Pick(s) \in s
  BY DEF Pick

(* What the fold computes for a set does not depend on the set it started  *)
(* from.                                                                   *)
LEMMA SumUnique ==
  ASSUME NEW S, IsFiniteSet(S), NEW V, V \subseteq S, NEW f, NEW h, NEW g,
         IsSumOn(h, f, S), IsSumOn(g, f, V)
  PROVE  \A s \in SUBSET V : h[s] = g[s]
<1> DEFINE T == {s \in SUBSET V : h[s] # g[s]}
<1> SUFFICES ASSUME T # {} PROVE FALSE
  OBVIOUS
<1>1. IsFiniteSet(V)
  BY FS_Subset
<1>2. PICK s \in T : \A y \in SUBSET s : y \in T => y = s
  <2> HIDE DEF T
  <2>1. T \subseteq SUBSET V
    BY DEF T
  <2> QED
    BY <1>1, <2>1, SmallestSubset
<1>3. s \in SUBSET S /\ s \in SUBSET V /\ h[s] # g[s]
  OBVIOUS
<1>4. CASE s = {}
  BY <1>3, <1>4 DEF IsSumOn
<1>5. CASE s # {}
  <2>1. Pick(s) \in s
    BY <1>5, PickIn
  <2>2. s \ {Pick(s)} \in SUBSET s /\ s \ {Pick(s)} # s
    BY <2>1
  <2>3. h[s \ {Pick(s)}] = g[s \ {Pick(s)}]
    BY <2>2, <1>2, <1>3
  <2>4. h[s] = f[Pick(s)] + h[s \ {Pick(s)}]
    BY <1>3, <1>5 DEF IsSumOn
  <2>5. g[s] = f[Pick(s)] + g[s \ {Pick(s)}]
    BY <1>3, <1>5 DEF IsSumOn
  <2> QED
    BY <2>3, <2>4, <2>5, <1>3
<1> QED
  BY <1>4, <1>5

(* The fold is defined for every finite set.                               *)
LEMMA SumExists ==
  ASSUME NEW S, IsFiniteSet(S), NEW f
  PROVE  \E h : IsSumOn(h, f, S)
<1> DEFINE T == {s \in SUBSET S : ~ \E h : IsSumOn(h, f, s)}
<1> SUFFICES ASSUME T # {} PROVE FALSE
  OBVIOUS
<1>1. PICK V \in T : \A y \in SUBSET V : y \in T => y = V
  <2> HIDE DEF T
  <2>1. T \subseteq SUBSET S
    BY DEF T
  <2> QED
    BY <2>1, SmallestSubset
<1>2. V \in SUBSET S /\ IsFiniteSet(V) /\ ~ \E h : IsSumOn(h, f, V)
  BY FS_Subset
<1> DEFINE H(v) == CHOOSE h : IsSumOn(h, f, v)
           W(u) == u \ {Pick(u)}
           g == [u \in SUBSET V |-> IF u = {} THEN 0 ELSE f[Pick(u)] + H(W(u))[W(u)]]
<1>3. ASSUME NEW v \in SUBSET V, v # V PROVE IsSumOn(H(v), f, v)
  <2>1. \E h : IsSumOn(h, f, v)
    BY <1>1, <1>2, <1>3
  <2> QED
    BY <2>1
<1>4. ASSUME NEW u \in SUBSET V, u # {} PROVE W(u) \in SUBSET V /\ W(u) # V /\ Pick(u) \in u
  BY <1>4, PickIn
<1>5. ASSUME NEW v \in SUBSET V, v # V PROVE g[v] = H(v)[v]
  <2>1. IsSumOn(H(v), f, v)
    BY <1>3, <1>5
  <2>2. CASE v = {}
    BY <2>1, <2>2 DEF IsSumOn
  <2>3. CASE v # {}
    <3>1. W(v) \in SUBSET V /\ W(v) # V /\ W(v) \in SUBSET v
      BY <1>4, <2>3
    <3>2. IsSumOn(H(W(v)), f, W(v))
      BY <1>3, <3>1
    <3>3. IsFiniteSet(v)
      BY <1>2, FS_Subset
    <3> HIDE DEF H
    <3>4. H(v)[W(v)] = H(W(v))[W(v)]
      <4>1. \A s \in SUBSET W(v) : H(v)[s] = H(W(v))[s]
        BY <2>1, <3>1, <3>2, <3>3, SumUnique
      <4> QED
        BY <4>1
    <3>5. H(v)[v] = f[Pick(v)] + H(v)[W(v)]
      BY <2>1, <2>3 DEF IsSumOn
    <3>6. g[v] = f[Pick(v)] + H(W(v))[W(v)]
      BY <2>3
    <3> QED
      BY <3>4, <3>5, <3>6
  <2> QED
    BY <2>2, <2>3
<1>6. IsSumOn(g, f, V)
  <2>1. ASSUME NEW u \in SUBSET V, u # {} PROVE g[u] = f[Pick(u)] + g[W(u)]
    <3>1. g[W(u)] = H(W(u))[W(u)]
      BY <1>4, <1>5, <2>1
    <3> HIDE DEF H
    <3>2. g[u] = f[Pick(u)] + H(W(u))[W(u)]
      BY <2>1
    <3> QED
      BY <3>1, <3>2
  <2>2. {} \in SUBSET V /\ g[{}] = 0
    OBVIOUS
  <2>3. g = [u \in SUBSET V |-> g[u]]
    OBVIOUS
  <2> HIDE DEF g
  <2>4. g = [u \in SUBSET V |-> IF u = {} THEN 0 ELSE f[Pick(u)] + g[W(u)]]
    BY <2>1, <2>2, <2>3
  <2> QED
    BY <2>4 DEF IsSumOn
<1> QED
  BY <1>2, <1>6

LEMMA SumIs ==
  ASSUME NEW S, IsFiniteSet(S), NEW f
  PROVE  \E h : IsSumOn(h, f, S) /\ SumFunctionOnSet(f, S) = h[S]
<1> DEFINE h == CHOOSE h : IsSumOn(h, f, S)
<1>1. IsSumOn(h, f, S)
  BY SumExists
<1>2. SumFunctionOnSet(f, S) = h[S]
  BY DEF SumFunctionOnSet, FoldFunctionOnSet, MapThenFoldSet, IsSumOn, Pick
<1> QED
  BY <1>1, <1>2

(***************************************************************************)
(* What the sum of integers is.                                            *)
(***************************************************************************)
LEMMA SumEmpty == ASSUME NEW f PROVE SumFunctionOnSet(f, {}) = 0
<1>1. PICK h : IsSumOn(h, f, {}) /\ SumFunctionOnSet(f, {}) = h[{}]
  BY SumIs, FS_EmptySet
<1> QED
  BY <1>1 DEF IsSumOn

LEMMA SumPick ==
  ASSUME NEW S, IsFiniteSet(S), NEW f, S # {}
  PROVE  SumFunctionOnSet(f, S) = f[Pick(S)] + SumFunctionOnSet(f, S \ {Pick(S)})
<1> DEFINE V == S \ {Pick(S)}
<1>1. IsFiniteSet(V) /\ V \subseteq S
  BY FS_Subset
<1> HIDE DEF V
<1>2. PICK h : IsSumOn(h, f, S) /\ SumFunctionOnSet(f, S) = h[S]
  BY SumIs
<1>3. PICK g : IsSumOn(g, f, V) /\ SumFunctionOnSet(f, V) = g[V]
  BY <1>1, SumIs
<1>4. h[V] = g[V]
  <2>1. \A s \in SUBSET V : h[s] = g[s]
    BY <1>1, <1>2, <1>3, SumUnique
  <2> QED
    BY <2>1
<1>5. h[S] = f[Pick(S)] + h[S \ {Pick(S)}]
  BY <1>2 DEF IsSumOn
<1> QED
  BY <1>2, <1>3, <1>4, <1>5 DEF V

LEMMA SumInt ==
  ASSUME NEW S, IsFiniteSet(S), NEW f, \A x \in S : f[x] \in Int
  PROVE  SumFunctionOnSet(f, S) \in Int
<1> DEFINE T == {s \in SUBSET S : SumFunctionOnSet(f, s) \notin Int}
<1> SUFFICES ASSUME T # {} PROVE FALSE
  OBVIOUS
<1>1. PICK s \in T : \A y \in SUBSET s : y \in T => y = s
  <2> HIDE DEF T
  <2>1. T \subseteq SUBSET S
    BY DEF T
  <2> QED
    BY <2>1, SmallestSubset
<1>2. s \in SUBSET S /\ IsFiniteSet(s) /\ SumFunctionOnSet(f, s) \notin Int
  BY FS_Subset
<1>3. s # {}
  BY <1>2, SumEmpty
<1>4. Pick(s) \in s
  BY <1>3, PickIn
<1>5. SumFunctionOnSet(f, s \ {Pick(s)}) \in Int
  <2>1. s \ {Pick(s)} \in SUBSET s /\ s \ {Pick(s)} # s
    BY <1>4
  <2> QED
    BY <2>1, <1>1, <1>2
<1>6. SumFunctionOnSet(f, s) = f[Pick(s)] + SumFunctionOnSet(f, s \ {Pick(s)})
  BY <1>2, <1>3, SumPick
<1>7. f[Pick(s)] \in Int
  BY <1>2, <1>4
<1> QED
  BY <1>2, <1>5, <1>6, <1>7

(* Whichever element is taken first.                                       *)
LEMMA SumRemove ==
  ASSUME NEW S, IsFiniteSet(S), NEW f, \A x \in S : f[x] \in Int, NEW a \in S
  PROVE  SumFunctionOnSet(f, S) = f[a] + SumFunctionOnSet(f, S \ {a})
<1> DEFINE Holds(s, b) == SumFunctionOnSet(f, s) = f[b] + SumFunctionOnSet(f, s \ {b})
           T == {s \in SUBSET S : \E b \in s : ~ Holds(s, b)}
<1> SUFFICES ASSUME T # {} PROVE FALSE
  OBVIOUS
<1>1. PICK s \in T : \A y \in SUBSET s : y \in T => y = s
  <2> HIDE DEF T
  <2>1. T \subseteq SUBSET S
    BY DEF T
  <2> QED
    BY <2>1, SmallestSubset
<1>2. s \in SUBSET S /\ IsFiniteSet(s)
  BY FS_Subset
<1>3. PICK b \in s : ~ Holds(s, b)
  BY <1>1
<1> DEFINE c == Pick(s)
<1>4. c \in s
  BY <1>3, PickIn
<1>5. SumFunctionOnSet(f, s) = f[c] + SumFunctionOnSet(f, s \ {c})
  BY <1>2, <1>3, SumPick
<1>6. c # b
  BY <1>3, <1>5
<1>7. ASSUME NEW u \in SUBSET s, u # s, NEW d \in u PROVE Holds(u, d)
  <2>1. u \notin T /\ u \in SUBSET S
    BY <1>1, <1>2, <1>7
  <2> HIDE DEF Holds
  <2> QED
    BY <2>1
<1>8. SumFunctionOnSet(f, s \ {c}) = f[b] + SumFunctionOnSet(f, (s \ {c}) \ {b})
  <2>1. s \ {c} \in SUBSET s /\ s \ {c} # s /\ b \in s \ {c}
    BY <1>3, <1>4, <1>6
  <2> QED
    BY <2>1, <1>7
<1>9. SumFunctionOnSet(f, s \ {b}) = f[c] + SumFunctionOnSet(f, (s \ {b}) \ {c})
  <2>1. s \ {b} \in SUBSET s /\ s \ {b} # s /\ c \in s \ {b}
    BY <1>3, <1>4, <1>6
  <2> QED
    BY <2>1, <1>7
<1>10. (s \ {b}) \ {c} = (s \ {c}) \ {b}
  OBVIOUS
<1>11. f[b] \in Int /\ f[c] \in Int /\ SumFunctionOnSet(f, (s \ {c}) \ {b}) \in Int
  <2>1. IsFiniteSet((s \ {c}) \ {b}) /\ (s \ {c}) \ {b} \subseteq S
    BY <1>2, FS_Subset
  <2> HIDE DEF c
  <2>2. \A x \in (s \ {c}) \ {b} : f[x] \in Int
    BY <2>1
  <2>3. SumFunctionOnSet(f, (s \ {c}) \ {b}) \in Int
    BY <2>1, <2>2, SumInt
  <2> QED
    BY <2>3, <1>2, <1>3, <1>4
<1> HIDE DEF c
<1>12. f[c] + (f[b] + SumFunctionOnSet(f, (s \ {c}) \ {b})) =
       f[b] + (f[c] + SumFunctionOnSet(f, (s \ {c}) \ {b}))
  BY <1>11
<1> QED
  BY <1>3, <1>5, <1>8, <1>9, <1>10, <1>12

LEMMA SumAdd ==
  ASSUME NEW S, IsFiniteSet(S), NEW f, \A x \in S : f[x] \in Int,
         NEW a, a \notin S, f[a] \in Int
  PROVE  SumFunctionOnSet(f, S \cup {a}) = f[a] + SumFunctionOnSet(f, S)
<1>1. IsFiniteSet(S \cup {a})
  BY FS_AddElement
<1>2. \A x \in S \cup {a} : f[x] \in Int
  OBVIOUS
<1>3. (S \cup {a}) \ {a} = S
  OBVIOUS
<1> QED
  BY <1>1, <1>2, <1>3, SumRemove

(* The sum depends on the values over the set alone.                       *)
LEMMA SumSame ==
  ASSUME NEW S, IsFiniteSet(S), NEW f, NEW g, \A x \in S : f[x] = g[x]
  PROVE  SumFunctionOnSet(f, S) = SumFunctionOnSet(g, S)
<1> DEFINE T == {s \in SUBSET S : SumFunctionOnSet(f, s) # SumFunctionOnSet(g, s)}
<1> SUFFICES ASSUME T # {} PROVE FALSE
  OBVIOUS
<1>1. PICK s \in T : \A y \in SUBSET s : y \in T => y = s
  <2> HIDE DEF T
  <2>1. T \subseteq SUBSET S
    BY DEF T
  <2> QED
    BY <2>1, SmallestSubset
<1>2. s \in SUBSET S /\ IsFiniteSet(s) /\ SumFunctionOnSet(f, s) # SumFunctionOnSet(g, s)
  BY FS_Subset
<1>3. s # {}
  BY <1>2, SumEmpty
<1>4. Pick(s) \in s
  BY <1>3, PickIn
<1>5. SumFunctionOnSet(f, s \ {Pick(s)}) = SumFunctionOnSet(g, s \ {Pick(s)})
  <2>1. s \ {Pick(s)} \in SUBSET s /\ s \ {Pick(s)} # s
    BY <1>4
  <2> QED
    BY <2>1, <1>1, <1>2
<1>6. f[Pick(s)] = g[Pick(s)]
  BY <1>2, <1>4
<1>7. SumFunctionOnSet(f, s) = f[Pick(s)] + SumFunctionOnSet(f, s \ {Pick(s)})
  BY <1>2, <1>3, SumPick
<1>8. SumFunctionOnSet(g, s) = g[Pick(s)] + SumFunctionOnSet(g, s \ {Pick(s)})
  BY <1>2, <1>3, SumPick
<1> QED
  BY <1>2, <1>5, <1>6, <1>7, <1>8

LEMMA SumGrow ==
  ASSUME NEW S, IsFiniteSet(S), NEW f, NEW g, \A x \in S : f[x] \in Int /\ g[x] = f[x],
         NEW a, a \notin S, g[a] \in Int
  PROVE  SumFunctionOnSet(g, S \cup {a}) = SumFunctionOnSet(f, S) + g[a]
<1>1. SumFunctionOnSet(f, S) = SumFunctionOnSet(g, S)
  BY SumSame
<1>2. \A x \in S : g[x] \in Int
  OBVIOUS
<1>3. SumFunctionOnSet(g, S \cup {a}) = g[a] + SumFunctionOnSet(g, S)
  BY <1>2, SumAdd
<1>4. SumFunctionOnSet(g, S) \in Int
  BY <1>2, SumInt
<1> QED
  BY <1>1, <1>3, <1>4

LEMMA SumZero ==
  ASSUME NEW S, IsFiniteSet(S)
  PROVE  SumFunctionOnSet([x \in S |-> 0], S) = 0
<1> DEFINE f == [x \in S |-> 0]
           T == {s \in SUBSET S : SumFunctionOnSet(f, s) # 0}
<1> SUFFICES ASSUME T # {} PROVE FALSE
  OBVIOUS
<1>1. PICK s \in T : \A y \in SUBSET s : y \in T => y = s
  <2> HIDE DEF T
  <2>1. T \subseteq SUBSET S
    BY DEF T
  <2> QED
    BY <2>1, SmallestSubset
<1>2. s \in SUBSET S /\ IsFiniteSet(s) /\ SumFunctionOnSet(f, s) # 0
  BY FS_Subset
<1>3. s # {}
  BY <1>2, SumEmpty
<1>4. Pick(s) \in s
  BY <1>3, PickIn
<1>5. SumFunctionOnSet(f, s \ {Pick(s)}) = 0
  <2>1. s \ {Pick(s)} \in SUBSET s /\ s \ {Pick(s)} # s
    BY <1>4
  <2> QED
    BY <2>1, <1>1, <1>2
<1>6. f[Pick(s)] = 0
  BY <1>2, <1>4
<1> HIDE DEF f
<1>7. SumFunctionOnSet(f, s) = f[Pick(s)] + SumFunctionOnSet(f, s \ {Pick(s)})
  BY <1>2, <1>3, SumPick
<1> QED
  BY <1>2, <1>5, <1>6, <1>7

(* One value changes.                                                      *)
LEMMA SumChange ==
  ASSUME NEW S, IsFiniteSet(S), NEW f, NEW g, \A x \in S : f[x] \in Int /\ g[x] \in Int,
         NEW a \in S, \A x \in S \ {a} : g[x] = f[x]
  PROVE  SumFunctionOnSet(g, S) = SumFunctionOnSet(f, S) + (g[a] - f[a])
<1>1. IsFiniteSet(S \ {a})
  BY FS_Subset
<1>2. \A x \in S \ {a} : f[x] = g[x]
  OBVIOUS
<1>3. SumFunctionOnSet(f, S \ {a}) = SumFunctionOnSet(g, S \ {a})
  BY <1>1, <1>2, SumSame
<1>4. SumFunctionOnSet(f, S) = f[a] + SumFunctionOnSet(f, S \ {a})
  BY SumRemove
<1>5. SumFunctionOnSet(g, S) = g[a] + SumFunctionOnSet(g, S \ {a})
  BY <1>2, SumRemove
<1>6. SumFunctionOnSet(f, S \ {a}) \in Int
  <2>1. \A x \in S \ {a} : f[x] \in Int
    OBVIOUS
  <2> QED
    BY <1>1, <2>1, SumInt
<1> QED
  BY <1>3, <1>4, <1>5, <1>6

(* A function has finitely many values on a finite set.                    *)
LEMMA ImageFinite ==
  ASSUME NEW S, IsFiniteSet(S), NEW b
  PROVE  IsFiniteSet({b[x] : x \in S}) /\ Cardinality({b[x] : x \in S}) <= Cardinality(S)
<1> DEFINE T == {b[x] : x \in S}
           h == [x \in S |-> b[x]]
<1>1. h \in [S -> T] /\ \A y \in T : \E x \in S : h[x] = y
  OBVIOUS
<1> HIDE DEF T, h
<1>2. h \in Surjection(S, T)
  BY <1>1 DEF Surjection
<1>3. IsFiniteSet(T) /\ Cardinality(T) <= Cardinality(S)
  BY <1>2, FS_Surjection
<1> QED
  BY <1>3 DEF T

(* The sum is the same over the values of a function that names no two     *)
(* elements alike.                                                         *)
LEMMA SumRename ==
  ASSUME NEW S, IsFiniteSet(S), NEW f, NEW g, NEW b,
         \A x \in S : f[x] \in Int /\ g[b[x]] = f[x],
         \A x, y \in S : b[x] = b[y] => x = y
  PROVE  SumFunctionOnSet(g, {b[x] : x \in S}) = SumFunctionOnSet(f, S)
<1> DEFINE Image(s) == {b[x] : x \in s}
           T == {s \in SUBSET S : SumFunctionOnSet(g, Image(s)) # SumFunctionOnSet(f, s)}
<1> SUFFICES ASSUME T # {} PROVE FALSE
  OBVIOUS
<1>1. PICK s \in T : \A y \in SUBSET s : y \in T => y = s
  <2> HIDE DEF T
  <2>1. T \subseteq SUBSET S
    BY DEF T
  <2> QED
    BY <2>1, SmallestSubset
<1>2. s \in SUBSET S /\ IsFiniteSet(s) /\ SumFunctionOnSet(g, Image(s)) # SumFunctionOnSet(f, s)
  BY FS_Subset
<1>3. s # {}
  <2>1. Image({}) = {}
    OBVIOUS
  <2> QED
    BY <1>2, <2>1, SumEmpty
<1>4. PICK a \in s : TRUE
  BY <1>3
<1> DEFINE rest == s \ {a}
<1>5. /\ rest \subseteq S /\ a \in S
      /\ s = rest \cup {a} /\ a \notin rest
      /\ rest \in SUBSET s /\ rest # s
  BY <1>2, <1>4
<1>6. SumFunctionOnSet(g, Image(rest)) = SumFunctionOnSet(f, rest)
  BY <1>1, <1>5
<1>7. Image(s) = Image(rest) \cup {b[a]}
  BY <1>5
<1>8. b[a] \notin Image(rest)
  BY <1>5
<1>9. IsFiniteSet(rest) /\ IsFiniteSet(Image(rest))
  <2>1. IsFiniteSet(rest)
    BY <1>2, <1>5, FS_Subset
  <2> HIDE DEF rest
  <2> QED
    BY <2>1, ImageFinite
<1>10. /\ \A x \in rest : f[x] \in Int
       /\ \A y \in Image(rest) : g[y] \in Int
       /\ f[a] \in Int /\ g[b[a]] = f[a]
  BY <1>5
<1> HIDE DEF Image, rest
<1>11. SumFunctionOnSet(f, rest \cup {a}) = f[a] + SumFunctionOnSet(f, rest)
  BY <1>5, <1>9, <1>10, SumAdd
<1>12. SumFunctionOnSet(g, Image(rest) \cup {b[a]}) = g[b[a]] + SumFunctionOnSet(g, Image(rest))
  BY <1>8, <1>9, <1>10, SumAdd
<1> QED
  BY <1>2, <1>5, <1>6, <1>7, <1>10, <1>11, <1>12
=============================================================================
