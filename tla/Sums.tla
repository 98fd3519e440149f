--------------------------------- MODULE Sums ---------------------------------
(***************************************************************************)
(* Facts about SumFunctionOnSet(f, S), the sum of f[x] over x in a finite S *)
(* (stock over locations, deltas over effects, units over the entries of an *)
(* allocation).  The library's induction theorems take an operator, so each *)
(* induction here is a minimal counterexample: MinimalSet, which follows    *)
(* from the well-foundedness of the strict subset ordering.                *)
(***************************************************************************)
EXTENDS Integers, FiniteSets, Functions, FiniteSetTheorems, TLAPS

LEMMA MinimalSet ==
    ASSUME NEW S, IsFiniteSet(S), NEW T, T \subseteq SUBSET S, T # {}
    PROVE  \E u \in T : \A v \in T : v \subseteq u => v = u
<1>1. IsWellFoundedOn(StrictSubsetOrdering(S), FiniteSubsetsOf(S))
  BY FS_StrictSubsetOrderingWellFounded
<1>2. T \subseteq FiniteSubsetsOf(S)
  BY FS_FiniteSubsetsOfFinite
<1>3. PICK u \in T : \A v \in T : ~(<<v, u>> \in StrictSubsetOrdering(S))
  BY <1>1, <1>2, WFMin
<1> QED BY <1>3 DEF StrictSubsetOrdering

-----------------------------------------------------------------------------
(* The library's definition, without its operator parameters *)

One(s) == CHOOSE x \in s : TRUE

IsRunning(it, f, S) ==
    it = [s \in SUBSET S |-> IF s = {} THEN 0 ELSE f[One(s)] + it[s \ {One(s)}]]

Running(f, S) == CHOOSE it : IsRunning(it, f, S)

LEMMA SumIsRunning ==
    ASSUME NEW f, NEW S
    PROVE  SumFunctionOnSet(f, S) = Running(f, S)[S]
BY DEF SumFunctionOnSet, FoldFunctionOnSet, MapThenFoldSet, Running, IsRunning, One

LEMMA OneInside == ASSUME NEW s, s # {} PROVE One(s) \in s
BY DEF One

\* Two recursions agree where both are defined.
LEMMA RunningUnique ==
    ASSUME NEW f, NEW S, IsFiniteSet(S), NEW V, S \subseteq V,
           NEW a, IsRunning(a, f, V), NEW b, IsRunning(b, f, S)
    PROVE  a[S] = b[S]
<1> DEFINE T == {s \in SUBSET S : a[s] # b[s]}
<1>1. SUFFICES ASSUME T # {} PROVE FALSE
  BY DEF T
<1>2. PICK u \in T : \A v \in T : v \subseteq u => v = u
  <2>1. T \subseteq SUBSET S
    OBVIOUS
  <2> HIDE DEF T
  <2> QED BY <1>1, <2>1, MinimalSet
<1>3. /\ a[u] = IF u = {} THEN 0 ELSE f[One(u)] + a[u \ {One(u)}]
      /\ b[u] = IF u = {} THEN 0 ELSE f[One(u)] + b[u \ {One(u)}]
  <2>1. u \in SUBSET S /\ u \in SUBSET V
    OBVIOUS
  <2> QED BY <2>1 DEF IsRunning
<1>4. CASE u = {}
  BY <1>3, <1>4
<1>5. CASE u # {}
  <2> DEFINE v == u \ {One(u)}
  <2>1. v \subseteq u /\ v # u /\ v \in SUBSET S
    BY <1>5, OneInside
  <2>2. v \notin T
    BY <1>2, <2>1
  <2>3. a[v] = b[v]
    BY <2>1, <2>2
  <2> QED BY <1>3, <1>5, <2>3
<1> QED BY <1>4, <1>5

LEMMA RunningExists ==
    ASSUME NEW f, NEW S, IsFiniteSet(S)
    PROVE  \A s \in SUBSET S : \E it : IsRunning(it, f, s)
<1> DEFINE T == {s \in SUBSET S : ~ \E it : IsRunning(it, f, s)}
<1>1. SUFFICES ASSUME T # {} PROVE FALSE
  OBVIOUS
<1>2. PICK u \in T : \A v \in T : v \subseteq u => v = u
  <2>1. T \subseteq SUBSET S
    OBVIOUS
  <2> HIDE DEF T
  <2> QED BY <1>1, <2>1, MinimalSet
<1>3. \A v \in SUBSET u : v # u => IsRunning(Running(f, v), f, v)
  <2> TAKE v \in SUBSET u
  <2> HAVE v # u
  <2>1. v \notin T /\ v \in SUBSET S
    BY <1>2
  <2> QED BY <2>1 DEF Running
<1> DEFINE part(s) == Running(f, s \ {One(s)})[s \ {One(s)}]
           it == [s \in SUBSET u |-> IF s = {} THEN 0 ELSE f[One(s)] + part(s)]
<1>4. \A s \in SUBSET u : s # {} => it[s \ {One(s)}] = part(s)
  <2> TAKE s \in SUBSET u
  <2> HAVE s # {}
  <2> DEFINE v == s \ {One(s)}
  <2>1. v \subseteq u /\ v # u /\ One(s) \notin v /\ v \in SUBSET u
    BY OneInside
  <2>2. IsRunning(Running(f, v), f, v)
    BY <1>3, <2>1
  <2>3. it[v] = IF v = {} THEN 0 ELSE f[One(v)] + part(v)
    BY <2>1
  <2>4. Running(f, v)[v] = IF v = {} THEN 0 ELSE f[One(v)] + Running(f, v)[v \ {One(v)}]
    BY <2>2, v \in SUBSET v DEF IsRunning
  <2>5. CASE v = {}
    BY <2>3, <2>4, <2>5
  <2>6. CASE v # {}
    <3> DEFINE w == v \ {One(v)}
    <3>1. w \subseteq v /\ w # u /\ w \in SUBSET u
      BY <2>1, <2>6, OneInside
    <3>2. IsRunning(Running(f, w), f, w)
      BY <1>3, <3>1
    <3>3. IsFiniteSet(w)
      BY <3>1, u \subseteq S, FS_Subset
    <3> HIDE DEF w, it, v
    <3>4. Running(f, v)[w] = Running(f, w)[w]
      BY <2>2, <3>1, <3>2, <3>3, RunningUnique
    <3>5. part(v) = Running(f, w)[w]
      BY DEF w
    <3>6. part(s) = Running(f, v)[v]
      BY DEF v
    <3> HIDE DEF part
    <3> QED BY <2>3, <2>4, <2>6, <3>4, <3>5, <3>6 DEF w, v
  <2> QED BY <2>5, <2>6
<1>5. it = [s \in SUBSET u |-> IF s = {} THEN 0 ELSE f[One(s)] + it[s \ {One(s)}]]
  <2> HIDE DEF part
  <2> QED BY <1>4
<1>6. IsRunning(it, f, u)
  <2> HIDE DEF it
  <2> QED BY <1>5 DEF IsRunning
<1> QED BY <1>6

LEMMA RunningRuns ==
    ASSUME NEW f, NEW S, IsFiniteSet(S)
    PROVE  IsRunning(Running(f, S), f, S)
<1>1. \E it : IsRunning(it, f, S)
  BY RunningExists, S \in SUBSET S
<1> QED BY <1>1 DEF Running

-----------------------------------------------------------------------------
(* The sum of nothing, and of one element and the rest *)

LEMMA SumEmpty ==
    ASSUME NEW f
    PROVE  SumFunctionOnSet(f, {}) = 0
<1>1. IsRunning(Running(f, {}), f, {})
  BY RunningRuns, FS_EmptySet
<1> QED BY <1>1, SumIsRunning DEF IsRunning

LEMMA SumStep ==
    ASSUME NEW f, NEW S, IsFiniteSet(S), S # {}
    PROVE  SumFunctionOnSet(f, S) = f[One(S)] + SumFunctionOnSet(f, S \ {One(S)})
<1> DEFINE R == S \ {One(S)}
<1>1. IsRunning(Running(f, S), f, S)
  BY RunningRuns
<1>2. IsFiniteSet(R) /\ R \subseteq S
  BY FS_RemoveElement
<1>3. IsRunning(Running(f, R), f, R)
  BY <1>2, RunningRuns
<1>4. Running(f, S)[R] = Running(f, R)[R]
  BY <1>1, <1>2, <1>3, RunningUnique
<1>5. Running(f, S)[S] = f[One(S)] + Running(f, S)[R]
  BY <1>1, S \in SUBSET S DEF IsRunning
<1> QED BY <1>4, <1>5, SumIsRunning

-----------------------------------------------------------------------------
(* Induction over a finite set, the property given as the set of its subsets *)
(* that have it                                                              *)

LEMMA SmallerSets ==
    ASSUME NEW S, IsFiniteSet(S), NEW G,
           \A u \in SUBSET S : (\A v \in SUBSET u : v # u => v \in G) => u \in G
    PROVE  S \in G
<1> DEFINE T == {s \in SUBSET S : s \notin G}
<1>1. SUFFICES ASSUME T # {} PROVE FALSE
  OBVIOUS
<1>2. PICK u \in T : \A v \in T : v \subseteq u => v = u
  <2>1. T \subseteq SUBSET S
    OBVIOUS
  <2> HIDE DEF T
  <2> QED BY <1>1, <2>1, MinimalSet
<1>3. \A v \in SUBSET u : v # u => v \in G
  BY <1>2
<1> QED BY <1>3

LEMMA GrowingSets ==
    ASSUME NEW S, IsFiniteSet(S), NEW G, {} \in G,
           \A u \in SUBSET S : \A x \in S \ u : u \in G => u \union {x} \in G
    PROVE  S \in G
<1>1. ASSUME NEW u \in SUBSET S, \A v \in SUBSET u : v # u => v \in G
      PROVE  u \in G
  <2>1. CASE u = {}
    BY <2>1
  <2>2. CASE u # {}
    <3>1. PICK x \in u : TRUE
      BY <2>2
    <3>2. u \ {x} \in G /\ u \ {x} \in SUBSET S /\ x \in S \ (u \ {x})
      BY <1>1
    <3>3. (u \ {x}) \union {x} = u
      OBVIOUS
    <3> QED BY <3>2, <3>3
  <2> QED BY <2>1, <2>2
<1> QED BY <1>1, SmallerSets

LEMMA ShrinkingSets ==
    ASSUME NEW S, IsFiniteSet(S), NEW G, {} \in G,
           \A u \in SUBSET S : u # {} /\ u \ {One(u)} \in G => u \in G
    PROVE  S \in G
<1>1. ASSUME NEW u \in SUBSET S, \A v \in SUBSET u : v # u => v \in G
      PROVE  u \in G
  BY <1>1, OneInside
<1> QED BY <1>1, SmallerSets

\* The same for the numbers up to n.
LEMMA CountingUp ==
    ASSUME NEW n \in Nat, NEW G, 0 \in G, \A i \in 1 .. n : i - 1 \in G => i \in G
    PROVE  \A i \in 0 .. n : i \in G
<1> DEFINE T == {s \in SUBSET (0 .. n) : \E i \in 0 .. n : i \notin G /\ s = 0 .. i}
<1>1. SUFFICES ASSUME NEW j \in 0 .. n, j \notin G PROVE FALSE
  OBVIOUS
<1>2. 0 .. j \in T
  <2>1. \A x \in 0 .. j : x \in 0 .. n
    OBVIOUS
  <2>2. 0 .. j \in SUBSET (0 .. n)
    BY <2>1
  <2>3. \E i \in 0 .. n : i \notin G /\ 0 .. j = 0 .. i
    BY <1>1
  <2> QED
    BY <2>2, <2>3
<1>3. IsFiniteSet(0 .. n)
  <2>1. 0 \in Int /\ n \in Int
    OBVIOUS
  <2> QED
    BY <2>1, FS_Interval
<1>4. PICK u \in T : \A v \in T : v \subseteq u => v = u
  <2> DEFINE S == 0 .. n
  <2>1. T \subseteq SUBSET S
    OBVIOUS
  <2>2. T # {}
    BY <1>2
  <2>3. IsFiniteSet(S)
    BY <1>3
  <2> HIDE DEF S, T
  <2> QED
    BY <2>1, <2>2, <2>3, MinimalSet
<1>5. PICK i \in 0 .. n : i \notin G /\ u = 0 .. i
  BY <1>4
<1>6. i \in 1 .. n /\ i - 1 \in 0 .. n /\ i - 1 \notin G
  BY <1>5
<1>7. 0 .. i - 1 \in T
  BY <1>6
<1>8. 0 .. i - 1 \subseteq u /\ i \in u /\ i \notin 0 .. i - 1
  BY <1>5, <1>6
<1> QED
  BY <1>4, <1>7, <1>8

-----------------------------------------------------------------------------
(* One function *)

LEMMA SumInt ==
    ASSUME NEW f, NEW S, IsFiniteSet(S), \A x \in S : f[x] \in Int
    PROVE  SumFunctionOnSet(f, S) \in Int
<1> DEFINE G == {s \in SUBSET S : SumFunctionOnSet(f, s) \in Int}
<1>1. {} \in G
  BY SumEmpty
<1>2. ASSUME NEW u \in SUBSET S, u # {}, u \ {One(u)} \in G
      PROVE  u \in G
  <2>1. IsFiniteSet(u) /\ One(u) \in u
    BY <1>2, FS_Subset, OneInside
  <2> QED BY <1>2, <2>1, SumStep
<1> HIDE DEF G
<1>3. S \in G
  BY <1>1, <1>2, ShrinkingSets
<1> QED BY <1>3 DEF G

LEMMA SumNat ==
    ASSUME NEW f, NEW S, IsFiniteSet(S), \A x \in S : f[x] \in Nat
    PROVE  SumFunctionOnSet(f, S) \in Nat
<1> DEFINE G == {s \in SUBSET S : SumFunctionOnSet(f, s) \in Nat}
<1>1. {} \in G
  BY SumEmpty
<1>2. ASSUME NEW u \in SUBSET S, u # {}, u \ {One(u)} \in G
      PROVE  u \in G
  <2>1. IsFiniteSet(u) /\ One(u) \in u
    BY <1>2, FS_Subset, OneInside
  <2> QED BY <1>2, <2>1, SumStep
<1> HIDE DEF G
<1>3. S \in G
  BY <1>1, <1>2, ShrinkingSets
<1> QED BY <1>3 DEF G

\* Functions equal on S have the same sum over S.
LEMMA SumSame ==
    ASSUME NEW f, NEW g, NEW S, IsFiniteSet(S), \A x \in S : f[x] = g[x]
    PROVE  SumFunctionOnSet(f, S) = SumFunctionOnSet(g, S)
<1> DEFINE G == {s \in SUBSET S : SumFunctionOnSet(f, s) = SumFunctionOnSet(g, s)}
<1>1. {} \in G
  BY SumEmpty
<1>2. ASSUME NEW u \in SUBSET S, u # {}, u \ {One(u)} \in G
      PROVE  u \in G
  <2>1. IsFiniteSet(u) /\ One(u) \in u
    BY <1>2, FS_Subset, OneInside
  <2> QED BY <1>2, <2>1, SumStep
<1> HIDE DEF G
<1>3. S \in G
  BY <1>1, <1>2, ShrinkingSets
<1> QED BY <1>3 DEF G

\* Any element can be taken out of the sum, not only the one the recursion picks.
LEMMA SumRemove ==
    ASSUME NEW f, NEW S, IsFiniteSet(S), \A x \in S : f[x] \in Int, NEW e \in S
    PROVE  SumFunctionOnSet(f, S) = f[e] + SumFunctionOnSet(f, S \ {e})
<1> DEFINE G == {s \in SUBSET S : \A x \in s :
                   SumFunctionOnSet(f, s) = f[x] + SumFunctionOnSet(f, s \ {x})}
<1>1. ASSUME NEW u \in SUBSET S, \A v \in SUBSET u : v # u => v \in G, NEW x \in u
      PROVE  SumFunctionOnSet(f, u) = f[x] + SumFunctionOnSet(f, u \ {x})
  <2> DEFINE o == One(u)
             m == u \ {x, o}
  <2>1. IsFiniteSet(u) /\ o \in u
    BY FS_Subset, OneInside
  <2>2. SumFunctionOnSet(f, u) = f[o] + SumFunctionOnSet(f, u \ {o})
    BY <2>1, SumStep
  <2>3. CASE o = x
    BY <2>2, <2>3
  <2>4. CASE o # x
    <3>1. u \ {o} \in G /\ u \ {x} \in G
      BY <1>1, <2>1
    <3>2. x \in u \ {o} /\ o \in u \ {x} /\ (u \ {o}) \ {x} = m /\ (u \ {x}) \ {o} = m
      BY <2>1, <2>4
    <3> HIDE DEF o, m
    <3>3. SumFunctionOnSet(f, u \ {o}) = f[x] + SumFunctionOnSet(f, m)
      BY <3>1, <3>2
    <3>4. SumFunctionOnSet(f, u \ {x}) = f[o] + SumFunctionOnSet(f, m)
      BY <3>1, <3>2
    <3>5. f[x] \in Int /\ f[o] \in Int
      BY <2>1
    <3>6. IsFiniteSet(m) /\ m \subseteq S
      BY <2>1, FS_Subset DEF m
    <3>7. SumFunctionOnSet(f, m) \in Int
      BY <3>6, SumInt
    <3> QED BY <2>2, <3>3, <3>4, <3>5, <3>7
  <2> QED BY <2>3, <2>4
<1>2. \A u \in SUBSET S : (\A v \in SUBSET u : v # u => v \in G) => u \in G
  BY <1>1
<1> HIDE DEF G
<1>3. S \in G
  BY <1>2, SmallerSets
<1> QED BY <1>3 DEF G

LEMMA SumAdd ==
    ASSUME NEW f, NEW S, IsFiniteSet(S), \A x \in S : f[x] \in Int,
           NEW e, e \notin S, f[e] \in Int
    PROVE  SumFunctionOnSet(f, S \union {e}) = SumFunctionOnSet(f, S) + f[e]
<1>1. IsFiniteSet(S \union {e}) /\ (S \union {e}) \ {e} = S
  BY FS_AddElement
<1>2. \A x \in S \union {e} : f[x] \in Int
  OBVIOUS
<1>3. SumFunctionOnSet(f, S) \in Int
  BY SumInt
<1>4. SumFunctionOnSet(f, S \union {e}) = f[e] + SumFunctionOnSet(f, (S \union {e}) \ {e})
  BY <1>1, <1>2, SumRemove
<1>5. SumFunctionOnSet(f, (S \union {e}) \ {e}) = SumFunctionOnSet(f, S)
  BY <1>1
<1> QED BY <1>3, <1>4, <1>5

\* g differs from f at e only.
LEMMA SumChange ==
    ASSUME NEW f, NEW g, NEW S, IsFiniteSet(S), NEW e \in S,
           \A x \in S : f[x] \in Int, g[e] \in Int, \A x \in S \ {e} : g[x] = f[x]
    PROVE  SumFunctionOnSet(g, S) = SumFunctionOnSet(f, S) - f[e] + g[e]
<1>1. IsFiniteSet(S \ {e})
  BY FS_RemoveElement
<1>2. SumFunctionOnSet(g, S \ {e}) = SumFunctionOnSet(f, S \ {e})
  BY <1>1, SumSame
<1>3. \A x \in S : g[x] \in Int
  OBVIOUS
<1>4. SumFunctionOnSet(f, S) = f[e] + SumFunctionOnSet(f, S \ {e})
  BY SumRemove
<1>5. SumFunctionOnSet(g, S) = g[e] + SumFunctionOnSet(g, S \ {e})
  BY <1>3, SumRemove
<1>6. SumFunctionOnSet(f, S \ {e}) \in Int
  BY <1>1, SumInt
<1> QED BY <1>2, <1>4, <1>5, <1>6

LEMMA SumOfOne ==
    ASSUME NEW f, NEW e, f[e] \in Int
    PROVE  SumFunctionOnSet(f, {e}) = f[e]
<1>1. SumFunctionOnSet(f, {} \union {e}) = SumFunctionOnSet(f, {}) + f[e]
  BY SumAdd, FS_EmptySet
<1> QED BY <1>1, SumEmpty, {} \union {e} = {e}

LEMMA SumZero ==
    ASSUME NEW f, NEW S, IsFiniteSet(S), \A x \in S : f[x] = 0
    PROVE  SumFunctionOnSet(f, S) = 0
<1> DEFINE G == {s \in SUBSET S : SumFunctionOnSet(f, s) = 0}
<1>1. {} \in G
  BY SumEmpty
<1>2. ASSUME NEW u \in SUBSET S, u # {}, u \ {One(u)} \in G
      PROVE  u \in G
  <2>1. IsFiniteSet(u) /\ One(u) \in u
    BY <1>2, FS_Subset, OneInside
  <2> QED BY <1>2, <2>1, SumStep
<1> HIDE DEF G
<1>3. S \in G
  BY <1>1, <1>2, ShrinkingSets
<1> QED BY <1>3 DEF G

LEMMA SumDisjoint ==
    ASSUME NEW f, NEW S, IsFiniteSet(S), \A x \in S : f[x] \in Int,
           NEW U, IsFiniteSet(U), \A x \in U : f[x] \in Int, S \cap U = {}
    PROVE  SumFunctionOnSet(f, S \union U) = SumFunctionOnSet(f, S) + SumFunctionOnSet(f, U)
<1> DEFINE G == {s \in SUBSET U : SumFunctionOnSet(f, S \union s) =
                                    SumFunctionOnSet(f, S) + SumFunctionOnSet(f, s)}
<1>0. SumFunctionOnSet(f, S) \in Int
  BY SumInt
<1>1. {} \in G
  BY <1>0, SumEmpty, S \union {} = S
<1>2. ASSUME NEW u \in SUBSET U, NEW x \in U \ u, u \in G
      PROVE  u \union {x} \in G
  <2>1. IsFiniteSet(u) /\ IsFiniteSet(S \union u)
    BY FS_Subset, FS_Union
  <2>2. x \notin S \union u /\ f[x] \in Int /\ \A y \in S \union u : f[y] \in Int
    OBVIOUS
  <2>3. SumFunctionOnSet(f, u \union {x}) = SumFunctionOnSet(f, u) + f[x]
    BY <2>1, <2>2, SumAdd
  <2>4. SumFunctionOnSet(f, (S \union u) \union {x}) = SumFunctionOnSet(f, S \union u) + f[x]
    BY <2>1, <2>2, SumAdd
  <2>5. S \union (u \union {x}) = (S \union u) \union {x}
    OBVIOUS
  <2>6. SumFunctionOnSet(f, u) \in Int
    BY <2>1, <2>2, SumInt
  <2>7. SumFunctionOnSet(f, S \union (u \union {x})) = SumFunctionOnSet(f, S \union u) + f[x]
    BY <2>4, <2>5
  <2>8. SumFunctionOnSet(f, S \union u) = SumFunctionOnSet(f, S) + SumFunctionOnSet(f, u)
    BY <1>2
  <2>9. SumFunctionOnSet(f, S \union (u \union {x})) =
          SumFunctionOnSet(f, S) + SumFunctionOnSet(f, u \union {x})
    BY <1>0, <2>2, <2>3, <2>6, <2>7, <2>8
  <2> QED BY <2>9
<1> HIDE DEF G
<1>3. U \in G
  BY <1>1, <1>2, GrowingSets
<1> QED BY <1>3 DEF G

-----------------------------------------------------------------------------
(* Two functions *)

LEMMA SumPlus ==
    ASSUME NEW f, NEW g, NEW h, NEW S, IsFiniteSet(S),
           \A x \in S : f[x] \in Int /\ g[x] \in Int /\ h[x] = f[x] + g[x]
    PROVE  SumFunctionOnSet(h, S) = SumFunctionOnSet(f, S) + SumFunctionOnSet(g, S)
<1> DEFINE G == {s \in SUBSET S : SumFunctionOnSet(h, s) =
                                    SumFunctionOnSet(f, s) + SumFunctionOnSet(g, s)}
<1>1. {} \in G
  BY SumEmpty
<1>2. ASSUME NEW u \in SUBSET S, u # {}, u \ {One(u)} \in G
      PROVE  u \in G
  <2> DEFINE o == One(u)
             r == u \ {o}
  <2>1. IsFiniteSet(u) /\ o \in u /\ IsFiniteSet(r) /\ r \subseteq S
    BY <1>2, FS_Subset, OneInside
  <2>2. /\ SumFunctionOnSet(f, u) = f[o] + SumFunctionOnSet(f, r)
        /\ SumFunctionOnSet(g, u) = g[o] + SumFunctionOnSet(g, r)
        /\ SumFunctionOnSet(h, u) = h[o] + SumFunctionOnSet(h, r)
    BY <1>2, <2>1, SumStep
  <2>3. SumFunctionOnSet(f, r) \in Int /\ SumFunctionOnSet(g, r) \in Int
    BY <2>1, SumInt
  <2> QED BY <1>2, <2>1, <2>2, <2>3
<1> HIDE DEF G
<1>3. S \in G
  BY <1>1, <1>2, ShrinkingSets
<1> QED BY <1>3 DEF G

LEMMA SumMinus ==
    ASSUME NEW f, NEW g, NEW h, NEW S, IsFiniteSet(S),
           \A x \in S : f[x] \in Int /\ g[x] \in Int /\ h[x] = f[x] - g[x]
    PROVE  SumFunctionOnSet(h, S) = SumFunctionOnSet(f, S) - SumFunctionOnSet(g, S)
<1>1. \A x \in S : h[x] \in Int /\ f[x] = h[x] + g[x]
  OBVIOUS
<1>2. SumFunctionOnSet(f, S) = SumFunctionOnSet(h, S) + SumFunctionOnSet(g, S)
  BY <1>1, SumPlus
<1>3. SumFunctionOnSet(g, S) \in Int /\ SumFunctionOnSet(h, S) \in Int
  BY <1>1, SumInt
<1> QED BY <1>2, <1>3

LEMMA SumAtMost ==
    ASSUME NEW f, NEW g, NEW S, IsFiniteSet(S),
           \A x \in S : f[x] \in Int /\ g[x] \in Int /\ f[x] <= g[x]
    PROVE  SumFunctionOnSet(f, S) <= SumFunctionOnSet(g, S)
<1> DEFINE h == [x \in S |-> g[x] - f[x]]
<1>1. \A x \in S : h[x] \in Nat
  OBVIOUS
<1>2. SumFunctionOnSet(h, S) = SumFunctionOnSet(g, S) - SumFunctionOnSet(f, S)
  <2>1. \A x \in S : h[x] = g[x] - f[x]
    OBVIOUS
  <2> HIDE DEF h
  <2> QED BY <2>1, SumMinus
<1> HIDE DEF h
<1>3. SumFunctionOnSet(h, S) \in Nat
  BY <1>1, SumNat
<1>4. SumFunctionOnSet(f, S) \in Int /\ SumFunctionOnSet(g, S) \in Int
  BY SumInt
<1> QED BY <1>2, <1>3, <1>4

\* Summed place by place, or all at once: at[i] is the place of i.
LEMMA SumByPlace ==
    ASSUME NEW f, NEW D, IsFiniteSet(D), \A i \in D : f[i] \in Int,
           NEW at, NEW L, IsFiniteSet(L), \A i \in D : at[i] \in L
    PROVE  SumFunctionOnSet([l \in L |-> SumFunctionOnSet(f, {i \in D : at[i] = l})], L)
             = SumFunctionOnSet(f, D)
<1> DEFINE places(d) == [l \in L |-> SumFunctionOnSet(f, {i \in d : at[i] = l})]
           G == {d \in SUBSET D : SumFunctionOnSet(places(d), L) = SumFunctionOnSet(f, d)}
<1>1. {} \in G
  <2>1. \A l \in L : places({})[l] = 0
    BY SumEmpty, \A l : {i \in {} : at[i] = l} = {}
  <2> QED BY <2>1, SumZero, SumEmpty
<1>2. ASSUME NEW u \in SUBSET D, NEW x \in D \ u, u \in G
      PROVE  u \union {x} \in G
  <2> DEFINE w == u \union {x}
  <2>1. IsFiniteSet(u) /\ (\A y \in u : f[y] \in Int) /\ f[x] \in Int /\ at[x] \in L
    BY FS_Subset
  <2>2. \A l \in L : places(u)[l] \in Int
    <3> TAKE l \in L
    <3>1. IsFiniteSet({i \in u : at[i] = l})
      BY <2>1, FS_Subset
    <3> QED BY <2>1, <3>1, SumInt
  <2>3. \A l \in L \ {at[x]} : places(w)[l] = places(u)[l]
    <3> TAKE l \in L \ {at[x]}
    <3>1. {i \in w : at[i] = l} = {i \in u : at[i] = l}
      OBVIOUS
    <3> QED BY <3>1
  <2>4. places(w)[at[x]] = places(u)[at[x]] + f[x]
    <3> DEFINE s == {i \in u : at[i] = at[x]}
    <3>1. {i \in w : at[i] = at[x]} = s \union {x}
      OBVIOUS
    <3>2. IsFiniteSet(s) /\ x \notin s /\ \A y \in s : f[y] \in Int
      BY <2>1, FS_Subset
    <3>3. places(w)[at[x]] = SumFunctionOnSet(f, s \union {x}) 
      BY <2>1, <3>1
    <3>4. places(u)[at[x]] = SumFunctionOnSet(f, s)
      BY <2>1
    <3> HIDE DEF places, w, s
    <3> QED BY <2>1, <3>2, <3>3, <3>4, SumAdd
  <2> DEFINE p == places(u)
             q == places(w)
  <2>5. SumFunctionOnSet(q, L) = SumFunctionOnSet(p, L) - p[at[x]] + q[at[x]]
    <3>1. \A l \in L : p[l] \in Int
      BY <2>2
    <3>2. q[at[x]] \in Int /\ \A l \in L \ {at[x]} : q[l] = p[l]
      BY <2>1, <2>2, <2>3, <2>4
    <3> HIDE DEF p, q
    <3> QED BY <2>1, <3>1, <3>2, SumChange
  <2>6. SumFunctionOnSet(f, w) = SumFunctionOnSet(f, u) + f[x]
    BY <2>1, SumAdd
  <2>7. SumFunctionOnSet(f, u) \in Int
    BY <2>1, SumInt
  <2>8. SumFunctionOnSet(p, L) = SumFunctionOnSet(f, u)
    BY <1>2
  <2>9. p[at[x]] \in Int
    BY <2>1, <2>2
  <2>10. SumFunctionOnSet(q, L) = SumFunctionOnSet(f, w)
    <3> HIDE DEF p, q, w, places
    <3> QED BY <2>1, <2>4, <2>5, <2>6, <2>7, <2>8, <2>9 DEF p, q
  <2> QED BY <2>10
<1> HIDE DEF G
<1>3. D \in G
  BY <1>1, <1>2, GrowingSets
<1> QED BY <1>3 DEF G

\* The same sum under other names: to is one-to-one from D onto E.
LEMMA SumRenamed ==
    ASSUME NEW f, NEW g, NEW D, IsFiniteSet(D), NEW E, IsFiniteSet(E), NEW to,
           \A i \in D : to[i] \in E /\ g[i] = f[to[i]] /\ g[i] \in Int,
           \A i, j \in D : to[i] = to[j] => i = j,
           \A e \in E : \E i \in D : to[i] = e
    PROVE  SumFunctionOnSet(g, D) = SumFunctionOnSet(f, E)
<1> DEFINE img(d) == {to[i] : i \in d}
           G == {d \in SUBSET D : SumFunctionOnSet(g, d) = SumFunctionOnSet(f, img(d))}
<1>1. {} \in G
  BY SumEmpty, img({}) = {}
<1>2. ASSUME NEW u \in SUBSET D, NEW x \in D \ u, u \in G
      PROVE  u \union {x} \in G
  <2>1. IsFiniteSet(u) /\ (\A y \in u : g[y] \in Int) /\ g[x] \in Int
    BY FS_Subset
  <2>2. SumFunctionOnSet(g, u \union {x}) = SumFunctionOnSet(g, u) + g[x]
    BY <2>1, SumAdd
  <2>3. img(u \union {x}) = img(u) \union {to[x]} /\ to[x] \notin img(u)
    OBVIOUS
  <2>4. img(u) \in SUBSET E /\ \A e \in img(u) : f[e] \in Int
    OBVIOUS
  <2>5. IsFiniteSet(img(u)) /\ f[to[x]] \in Int /\ f[to[x]] = g[x]
    BY <2>1, <2>4, FS_Subset
  <2>6. SumFunctionOnSet(g, u) = SumFunctionOnSet(f, img(u))
    BY <1>2
  <2> HIDE DEF img
  <2>7. SumFunctionOnSet(f, img(u) \union {to[x]}) = SumFunctionOnSet(f, img(u)) + f[to[x]]
    BY <2>3, <2>4, <2>5, SumAdd
  <2>8. SumFunctionOnSet(g, u \union {x}) = SumFunctionOnSet(f, img(u \union {x}))
    BY <2>2, <2>3, <2>5, <2>6, <2>7
  <2> QED BY <2>8
<1>3. D \in G
  <2> HIDE DEF G
  <2> QED BY <1>1, <1>2, GrowingSets
<1>4. img(D) = E
  OBVIOUS
<1> QED BY <1>3, <1>4
=============================================================================
