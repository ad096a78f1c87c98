------------------------------ MODULE FoldLemmas ------------------------------
(* The folds of the community modules, MapThenFoldSet and those made of it,   *)
(* applied to a function f on a finite set of its arguments: what an element  *)
(* contributes, and induction over the elements.  A module that folds an      *)
(* operator takes this one as an instance for that operator.                  *)
EXTENDS Folds, Naturals, FiniteSetTheorems, WellFoundedInduction, TLAPS

CONSTANTS Op(_, _),  \* what is folded
          Pick(_)    \* which element of a set comes last

Fold(base, f, S) == MapThenFoldSet(Op, base, LAMBDA i : f[i], Pick, S)
-----------------------------------------------------------------------------
(* Induction.                                                                 *)

\* A set of naturals has a least one: of the intervals 0 .. n, the one that
\* contains no other.
LEMMA Least ==
  ASSUME NEW S \in SUBSET Nat, S # {}
  PROVE  \E n \in S : \A m \in S : n <= m
<1> DEFINE R == OpToRel(<, Nat)
<1>1. PICK n \in S : \A m \in S : ~ (<<m, n>> \in R)
  <2>1. IsWellFoundedOn(R, Nat)
    BY NatLessThanWellFounded
  <2> HIDE DEF R
  <2> QED  BY <2>1, WFMin
<1>2. \A m \in S : m < n => <<m, n>> \in R
  BY DEF OpToRel
<1> HIDE DEF R
<1>3. \A m \in S : ~ (m < n)
  BY <1>1, <1>2
<1>4. \A m \in S : n <= m
  BY <1>3
<1> QED  BY <1>4

\* A set that holds 0, and with a number the next, holds every number.
LEMMA NatsIn ==
  ASSUME NEW S, 0 \in S, \A n \in Nat : n \in S => n + 1 \in S
  PROVE  \A n \in Nat : n \in S
<1> DEFINE T == Nat \ S
<1> SUFFICES ASSUME T # {} PROVE FALSE
  OBVIOUS
<1>1. T \in SUBSET Nat
  OBVIOUS
<1>2. PICK n \in T : \A m \in T : n <= m
  <2> HIDE DEF T
  <2> QED  BY <1>1, Least
<1>3. n # 0 /\ n \in Nat
  OBVIOUS
<1>4. n - 1 \in Nat /\ n - 1 \notin T
  BY <1>2, <1>3
<1> QED  BY <1>2, <1>3, <1>4

\* A family of subsets that holds {}, and each set of which it holds those with
\* one element less, holds every subset of a finite set.
LEMMA SubsetsIn ==
  ASSUME NEW S, IsFiniteSet(S), NEW F, {} \in F,
         \A s \in SUBSET S : s # {} /\ (\A x \in s : s \ {x} \in F) => s \in F
  PROVE  \A s \in SUBSET S : s \in F
<1> DEFINE N == {n \in Nat : \A s \in SUBSET S : Cardinality(s) = n => s \in F}
<1>1. \A s \in SUBSET S : IsFiniteSet(s) /\ Cardinality(s) \in Nat
  BY FS_Subset, FS_CardinalityType
<1>2. 0 \in N
  BY <1>1, FS_EmptySet
<1>3. ASSUME NEW n \in Nat, n \in N PROVE n + 1 \in N
  <2> SUFFICES ASSUME NEW s \in SUBSET S, Cardinality(s) = n + 1 PROVE s \in F
    OBVIOUS
  <2>1. s # {}
    <3>1. n + 1 # 0
      OBVIOUS
    <3> QED  BY <3>1, FS_EmptySet
  <2>2. \A x \in s : s \ {x} \in SUBSET S /\ Cardinality(s \ {x}) = n
    BY <1>1, FS_RemoveElement
  <2>3. \A x \in s : s \ {x} \in F
    BY <1>3, <2>2
  <2> QED  BY <2>1, <2>3
<1> HIDE DEF N
<1>4. \A n \in Nat : n \in N
  BY <1>2, <1>3, NatsIn
<1> QED  BY <1>1, <1>4 DEF N
-----------------------------------------------------------------------------
(* The recursion.                                                             *)

Picks(S) == \A s \in SUBSET S : s # {} => Pick(s) \in s

Steps(g, base, f, s) == IF s = {} THEN base ELSE Op(f[Pick(s)], g[s \ {Pick(s)}])

Iterates(g, base, f, S) == g = [s \in SUBSET S |-> Steps(g, base, f, s)]

\* Two recursions agree where both are defined, if the functions folded do.
LEMMA IterationIsUnique ==
  ASSUME NEW S, IsFiniteSet(S), Picks(S), NEW base, NEW f, NEW e, \A x \in S : e[x] = f[x],
         NEW A, S \subseteq A, NEW B, S \subseteq B, NEW g, NEW h,
         Iterates(g, base, f, A), Iterates(h, base, e, B)
  PROVE  g[S] = h[S]
<1> DEFINE F == {s \in SUBSET S : g[s] = h[s]}
<1>1. /\ \A s \in SUBSET S : g[s] = Steps(g, base, f, s)
      /\ \A s \in SUBSET S : h[s] = Steps(h, base, e, s)
  BY DEF Iterates
<1>2. {} \in F
  BY <1>1 DEF Steps
<1>3. ASSUME NEW s \in SUBSET S, s # {}, \A x \in s : s \ {x} \in F
      PROVE  s \in F
  <2>1. Pick(s) \in s
    BY <1>3 DEF Picks
  <2>2. g[s \ {Pick(s)}] = h[s \ {Pick(s)}] /\ e[Pick(s)] = f[Pick(s)]
    BY <1>3, <2>1
  <2>3. s \in SUBSET A /\ s \in SUBSET B
    OBVIOUS
  <2> QED  BY <1>1, <1>3, <2>2, <2>3 DEF Steps
<1> HIDE DEF F
<1>4. \A s \in SUBSET S : s \in F
  BY <1>2, <1>3, SubsetsIn
<1> QED  BY <1>4 DEF F

\* The recursion is well founded.
LEMMA IterationExists ==
  ASSUME NEW S, IsFiniteSet(S), Picks(S), NEW base, NEW f
  PROVE  \E g : Iterates(g, base, f, S)
<1> DEFINE F == {s \in SUBSET S : \E g : Iterates(g, base, f, s)}
<1>1. {} \in F
  <2>1. Iterates([s \in SUBSET {} |-> base], base, f, {})
    BY DEF Iterates, Steps
  <2> QED  BY <2>1
<1>2. ASSUME NEW s \in SUBSET S, s # {}, \A x \in s : s \ {x} \in F
      PROVE  s \in F
  <2> DEFINE g(x) == CHOOSE h : Iterates(h, base, f, s \ {x})
  <2>1. \A x \in s : Iterates(g(x), base, f, s \ {x})
    BY <1>2
  <2> HIDE DEF g
  <2>2. ASSUME NEW x \in s, NEW t \in SUBSET (s \ {x})
        PROVE  /\ g(x)[t] = Steps(g(x), base, f, t)
               /\ \A y \in s \ t : g(y)[t] = g(x)[t]
    <3>1. g(x)[t] = Steps(g(x), base, f, t)
      BY <2>1 DEF Iterates
    <3>2. ASSUME NEW y \in s \ t PROVE g(y)[t] = g(x)[t]
      <4>1. t \in SUBSET S /\ t \subseteq s \ {x} /\ t \subseteq s \ {y}
        OBVIOUS
      <4>2. IsFiniteSet(t) /\ Picks(t)
        BY <4>1, FS_Subset DEF Picks
      <4>3. Iterates(g(x), base, f, s \ {x}) /\ Iterates(g(y), base, f, s \ {y})
        BY <2>1
      <4> QED  BY <4>1, <4>2, <4>3, IterationIsUnique
    <3> QED  BY <3>1, <3>2
  <2> DEFINE Other(t) == IF t = s THEN Pick(s) ELSE CHOOSE x \in s : x \notin t
             value == [t \in SUBSET s |-> Steps(g(Other(t)), base, f, t)]
  <2>3. \A t \in SUBSET s : t # s => Other(t) \in s \ t
    OBVIOUS
  <2>4. Pick(s) \in s
    BY <1>2 DEF Picks
  <2> HIDE DEF Other
  <2>5. ASSUME NEW t \in SUBSET s, t # s, NEW x \in s \ t PROVE value[t] = g(x)[t]
    BY <2>2, <2>3, <2>5
  <2>6. ASSUME NEW t \in SUBSET s PROVE value[t] = Steps(value, base, f, t)
    <3>1. value[t] = Steps(g(Other(t)), base, f, t)
      OBVIOUS
    <3> HIDE DEF value
    <3>2. CASE t = {}
      BY <3>1, <3>2 DEF Steps
    <3>3. CASE t # {}
      <4>1. Pick(t) \in t /\ Other(t) \in s /\ Other(t) \in s \ (t \ {Pick(t)})
        BY <2>3, <2>4, <3>3 DEF Picks, Other
      <4>2. value[t \ {Pick(t)}] = g(Other(t))[t \ {Pick(t)}]
        BY <2>5, <4>1
      <4> QED  BY <3>1, <3>3, <4>2 DEF Steps
    <3> QED  BY <3>2, <3>3
  <2>7. value = [t \in SUBSET s |-> value[t]]
    OBVIOUS
  <2> HIDE DEF value
  <2>8. Iterates(value, base, f, s)
    BY <2>6, <2>7 DEF Iterates
  <2> QED  BY <2>8
<1> HIDE DEF F
<1>3. \A s \in SUBSET S : s \in F
  BY <1>1, <1>2, SubsetsIn
<1>4. S \in F
  BY <1>3
<1> QED  BY <1>4 DEF F
-----------------------------------------------------------------------------
(* What a fold is.                                                            *)

\* A fold over a finite set is the value there of any recursion that covers it.
LEMMA FoldIterates ==
  ASSUME NEW S, IsFiniteSet(S), Picks(S), NEW base, NEW f, NEW A, S \subseteq A,
         NEW g, Iterates(g, base, f, A)
  PROVE  Fold(base, f, S) = g[S]
<1> DEFINE h == CHOOSE h : Iterates(h, base, f, S)
<1>1. Iterates(h, base, f, S)
  BY IterationExists
<1>2. Fold(base, f, S) = h[S]
  BY DEF Fold, MapThenFoldSet, Iterates, Steps
<1> HIDE DEF h
<1>3. g[S] = h[S]
  BY <1>1, IterationIsUnique
<1> QED  BY <1>2, <1>3

\* Nothing to fold.
THEOREM FoldEmpty == \A base, f : Fold(base, f, {}) = base
<1> SUFFICES ASSUME NEW base, NEW f PROVE Fold(base, f, {}) = base
  OBVIOUS
<1>1. IsFiniteSet({}) /\ Picks({})
  BY FS_EmptySet DEF Picks
<1>2. PICK g : Iterates(g, base, f, {})
  BY <1>1, IterationExists
<1>3. g[{}] = base
  BY <1>2 DEF Iterates, Steps
<1> QED  BY <1>1, <1>2, <1>3, FoldIterates

\* The element picked is folded last.
THEOREM FoldNonempty ==
  ASSUME NEW S, IsFiniteSet(S), Picks(S), S # {}, NEW base, NEW f
  PROVE  Pick(S) \in S /\ Fold(base, f, S) = Op(f[Pick(S)], Fold(base, f, S \ {Pick(S)}))
<1>1. PICK g : Iterates(g, base, f, S)
  BY IterationExists
<1>2. Fold(base, f, S) = g[S]
  BY <1>1, FoldIterates
<1>3. IsFiniteSet(S \ {Pick(S)}) /\ Picks(S \ {Pick(S)})
  BY FS_Subset DEF Picks
<1>4. Fold(base, f, S \ {Pick(S)}) = g[S \ {Pick(S)}]
  BY <1>1, <1>3, FoldIterates
<1>5. g[S] = Op(f[Pick(S)], g[S \ {Pick(S)}])
  BY <1>1 DEF Iterates, Steps
<1> QED  BY <1>2, <1>4, <1>5 DEF Picks

\* What a function is elsewhere does not matter.
THEOREM FoldSame ==
  ASSUME NEW S, IsFiniteSet(S), Picks(S), NEW base, NEW f, NEW e, \A x \in S : e[x] = f[x]
  PROVE  Fold(base, e, S) = Fold(base, f, S)
<1>1. PICK g : Iterates(g, base, f, S)
  BY IterationExists
<1>2. PICK h : Iterates(h, base, e, S)
  BY IterationExists
<1>3. Fold(base, f, S) = g[S] /\ Fold(base, e, S) = h[S]
  BY <1>1, <1>2, FoldIterates
<1> QED  BY <1>1, <1>2, <1>3, IterationIsUnique

\* What holds of the base, and after a step if before it, holds of the fold.
THEOREM FoldStays ==
  ASSUME NEW S, IsFiniteSet(S), Picks(S), NEW f, NEW Good, NEW base \in Good,
         \A x \in S : \A y \in Good : Op(f[x], y) \in Good
  PROVE  Fold(base, f, S) \in Good
<1> DEFINE F == {s \in SUBSET S : Fold(base, f, s) \in Good}
<1>1. {} \in F
  BY FoldEmpty
<1>2. ASSUME NEW s \in SUBSET S, s # {}, \A x \in s : s \ {x} \in F
      PROVE  s \in F
  <2>1. IsFiniteSet(s) /\ Picks(s)
    BY FS_Subset DEF Picks
  <2>2. Pick(s) \in s /\ Fold(base, f, s) = Op(f[Pick(s)], Fold(base, f, s \ {Pick(s)}))
    BY <1>2, <2>1, FoldNonempty
  <2> QED  BY <1>2, <2>2
<1> HIDE DEF F
<1>3. \A s \in SUBSET S : s \in F
  BY <1>1, <1>2, SubsetsIn
<1> QED  BY <1>3 DEF F

Commutes(V) == /\ \A a \in V : \A b \in V : Op(a, b) \in V
               /\ \A a \in V : \A b \in V : \A c \in V : Op(a, Op(b, c)) = Op(b, Op(a, c))

\* Where the order does not matter, any element may be taken as the last.
THEOREM FoldAny ==
  ASSUME NEW S, IsFiniteSet(S), Picks(S), NEW x \in S, NEW f, NEW V, NEW base \in V,
         \A y \in S : f[y] \in V, Commutes(V)
  PROVE  Fold(base, f, S) = Op(f[x], Fold(base, f, S \ {x}))
<1> DEFINE F == {s \in SUBSET S : \A y \in s : Fold(base, f, s) = Op(f[y], Fold(base, f, s \ {y}))}
<1>1. {} \in F
  OBVIOUS
<1>2. \A s \in SUBSET S : IsFiniteSet(s) /\ Picks(s) /\ Fold(base, f, s) \in V
  <2> SUFFICES ASSUME NEW s \in SUBSET S PROVE IsFiniteSet(s) /\ Picks(s) /\ Fold(base, f, s) \in V
    OBVIOUS
  <2>1. IsFiniteSet(s) /\ Picks(s)
    BY FS_Subset DEF Picks
  <2>2. \A y \in s : \A v \in V : Op(f[y], v) \in V
    BY DEF Commutes
  <2> QED  BY <2>1, <2>2, FoldStays
<1>3. ASSUME NEW s \in SUBSET S, s # {}, \A y \in s : s \ {y} \in F
      PROVE  s \in F
  <2> SUFFICES ASSUME NEW y \in s PROVE Fold(base, f, s) = Op(f[y], Fold(base, f, s \ {y}))
    OBVIOUS
  <2> DEFINE p == Pick(s)
             rest == (s \ {y}) \ {p}
  <2>1. p \in s /\ Fold(base, f, s) = Op(f[p], Fold(base, f, s \ {p}))
    BY <1>2, <1>3, FoldNonempty
  <2> HIDE DEF p
  <2>2. CASE y = p
    BY <2>1, <2>2
  <2>3. CASE y # p
    <3>1. Fold(base, f, s \ {p}) = Op(f[y], Fold(base, f, (s \ {p}) \ {y}))
      BY <1>3, <2>1, <2>3
    <3>2. Fold(base, f, s \ {y}) = Op(f[p], Fold(base, f, rest))
      BY <1>3, <2>1, <2>3
    <3>3. (s \ {p}) \ {y} = rest /\ rest \in SUBSET S
      OBVIOUS
    <3>4. Fold(base, f, rest) \in V /\ f[y] \in V /\ f[p] \in V
      BY <1>2, <2>1, <3>3
    <3> HIDE DEF rest
    <3>5. Op(f[p], Op(f[y], Fold(base, f, rest))) = Op(f[y], Op(f[p], Fold(base, f, rest)))
      BY <3>4 DEF Commutes
    <3> QED  BY <2>1, <3>1, <3>2, <3>3, <3>5
  <2> QED  BY <2>2, <2>3
<1> HIDE DEF F
<1>4. \A s \in SUBSET S : s \in F
  BY <1>1, <1>3, SubsetsIn
<1> QED  BY <1>4 DEF F
\* What holds of the base, and of every prefix if of the one before it, holds of
\* the whole.
THEOREM FoldPrefixes ==
  ASSUME NEW n \in Nat, Picks(1 .. n), \A k \in 1 .. n : Pick(1 .. k) = k, NEW f, NEW base, NEW Good,
         base \in Good[0], \A k \in 1 .. n : \A y \in Good[k - 1] : Op(f[k], y) \in Good[k]
  PROVE  Fold(base, f, 1 .. n) \in Good[n]
<1> DEFINE N == {k \in Nat : k <= n => Fold(base, f, 1 .. k) \in Good[k]}
<1>1. 0 \in N
  <2>1. 1 .. 0 = {}
    OBVIOUS
  <2> QED  BY <2>1, FoldEmpty
<1>2. ASSUME NEW k \in Nat, k \in N PROVE k + 1 \in N
  <2> SUFFICES ASSUME k + 1 <= n PROVE Fold(base, f, 1 .. k + 1) \in Good[k + 1]
    OBVIOUS
  <2>1. Fold(base, f, 1 .. k) \in Good[k]
    BY <1>2
  <2>2. k + 1 \in 1 .. n /\ (k + 1) - 1 = k
    OBVIOUS
  <2> DEFINE S == 1 .. k + 1
  <2>3. S \in SUBSET (1 .. n) /\ S # {} /\ S \ {k + 1} = 1 .. k
    <3>1. \A i : i \in S <=> i \in 1 .. k \/ i = k + 1
      OBVIOUS
    <3>2. \A i \in 1 .. k : i \in 1 .. n /\ i # k + 1
      OBVIOUS
    <3> HIDE DEF S
    <3> QED  BY <2>2, <3>1, <3>2
  <2>4. IsFiniteSet(S) /\ Picks(S) /\ Pick(S) = k + 1
    <3>1. IsFiniteSet(1 .. n)
      BY FS_Interval
    <3> QED  BY <2>2, <2>3, <3>1, FS_Subset DEF Picks
  <2> HIDE DEF S
  <2>5. Fold(base, f, S) = Op(f[k + 1], Fold(base, f, 1 .. k))
    BY <2>3, <2>4, FoldNonempty
  <2>6. Fold(base, f, S) \in Good[k + 1]
    BY <2>1, <2>2, <2>5
  <2> QED  BY <2>6 DEF S
<1> HIDE DEF N
<1>3. \A k \in Nat : k \in N
  BY <1>1, <1>2, NatsIn
<1> QED  BY <1>3 DEF N
=============================================================================
